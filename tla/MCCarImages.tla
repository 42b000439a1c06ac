---------------------------- MODULE MCCarImages ----------------------------
(***************************************************************************)
(* A bounded instance of CarImages: one car, three images one of which     *)
(* cannot be opened, three requests, two at a time.  One order swaps two   *)
(* images, the other leaves one out or names one that is not there.        *)
(***************************************************************************)
EXTENDS CarImages

CONSTANTS c1, s1, s2

MCOrders == {<<2, 1>>, <<3, 1>>}
=============================================================================
