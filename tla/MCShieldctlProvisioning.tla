--------------------- MODULE MCShieldctlProvisioning ---------------------
(* Constant values for model-checking ShieldctlProvisioning. *)
EXTENDS ShieldctlProvisioning

OnlyDemo == [op : {"demo"}, isolation : {"namespace"}, parses : {TRUE}]
==========================================================================
