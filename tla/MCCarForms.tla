----------------------------- MODULE MCCarForms -----------------------------
(***************************************************************************)
(* A bounded instance of CarForms: one car, a tab, two requests, each a    *)
(* POST of the tab or another edit; any of them makes the tab stale.  The  *)
(* car has an empty text, a description of several lines and a column that *)
(* the form does not show.                                                 *)
(***************************************************************************)
EXTENDS CarForms, TLC

CONSTANTS c1, s1, s2, b1

MCFold == [w \in Word |-> w]
Used == [eid |-> "e1", name |-> [p \in NamePart |-> "w"],
         cols |-> [c \in Columns |-> CASE c = "price" -> "p1"
                                       [] c = "mileage" -> Blank
                                       [] c = "description" -> LF
                                       [] OTHER -> Blank],
         status |-> "draft", source |-> "manual", deleted |-> FALSE]
Ancient == [Used EXCEPT !.name["year"] = "early"]
MCCreatePayloads == {Used, Ancient}

Rebrand == [p \in NamePart |-> IF p = "brand" THEN "b2" ELSE Unset]
MCUpdatePayloads ==
    {[name |-> Rebrand, status |-> Unset, cols |-> [c \in Columns |-> Unset]]}

MCTyped == {<<"model", "m2">>}

Symmetry == Permutations({s1, s2})
=============================================================================
