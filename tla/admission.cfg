SPECIFICATION FairSpec
CONSTANTS
    alice = alice
    bob = bob
    collector = collector
    User <- Users
    Controller <- Manager
    Configuration <- Configurations
    TelegramTimeout = 1
    MaxCrashes = 2
INVARIANTS
    TypeOK
    TelegramNeverDecides
PROPERTIES
    ControllersGetThrough
    Announced
CHECK_DEADLOCK FALSE
