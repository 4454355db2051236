------------------------------ MODULE MCManager ------------------------------
(* Constant values for model-checking Manager. *)
EXTENDS Manager

CONSTANTS one, two, three

Three == {one, two, three}
=============================================================================
