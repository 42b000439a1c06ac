----------------------------- MODULE MCAccounts -----------------------------
(***************************************************************************)
(* A bounded instance of Accounts: two rows, two sessions, a bootstrap     *)
(* admin whose name may change in .env while his e-mail stays.             *)
(***************************************************************************)
EXTENDS Accounts

CONSTANTS u1, u2, s1, s2

MCBootstrap == {[name |-> "admin", email |-> "e1"], [name |-> "n1", email |-> "e1"]}
=============================================================================
