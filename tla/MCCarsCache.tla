---------------------------- MODULE MCCarsCache ----------------------------
(***************************************************************************)
(* A bounded instance of CarsCache: one car, published when it is created, *)
(* whose responses go out of date when it is created, archived, published  *)
(* again or deleted, two editors and two readers.  A change of a field     *)
(* puts a response out of date in the same way and multiplies the states.  *)
(***************************************************************************)
EXTENDS CarsCache

CONSTANTS c1, s1, s2, r1, r2

MCFold == [w \in Word |-> w]
Cell(price) == [c \in Columns |-> price]
MCCreatePayloads ==
    {[eid |-> None, name |-> [p \in NamePart |-> "w"], cols |-> Cell("p1"),
      status |-> "published", source |-> "manual", deleted |-> FALSE]}
=============================================================================
