------------------------------ MODULE Records ------------------------------
(***************************************************************************)
(* Whom the service keeps records of: the part that the modules about its  *)
(* tools (Specialists, FollowUps) have in common.                          *)
(***************************************************************************)
CONSTANTS
    Customers,
    None        \* nobody, nothing

ASSUME NoneAssumption == None \notin Customers
=============================================================================
