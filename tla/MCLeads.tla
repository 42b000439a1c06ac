------------------------------ MODULE MCLeads ------------------------------
(***************************************************************************)
(* A bounded instance of Leads: one client that sends sell requests (a     *)
(* consultation is one that is never rejected), a limit of two per window, *)
(* two requests at a time, an admin and an operator.                       *)
(***************************************************************************)
EXTENDS Leads

CONSTANTS ip1, s1, s2, admin, operator

MCKey == {"sell"} \X Client
MCRoleOf == [u \in User |-> IF u = admin THEN "admin" ELSE "operator"]
=============================================================================
