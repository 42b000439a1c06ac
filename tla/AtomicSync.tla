----------------------------- MODULE AtomicSync -----------------------------
(***************************************************************************)
(* What the Excel synchronisation promises to one who works alone: a file  *)
(* is offered under a token, and applying the token is one step.  In that  *)
(* step the table comes to mirror the file, the token is used up, the      *)
(* import log counts what has happened to the table, and the admins are    *)
(* told.  There are no requests, no views of the table and no awaits.      *)
(* Module ExcelSync implements this.                                       *)
(***************************************************************************)
EXTENDS CarData

CONSTANTS
    File, Token,
    Content     \* the rows of each file, by their keys

VARIABLES
    cars,       \* the cars table
    issued,     \* the tokens handed out so far
    offered,    \* the file that each token stands for, or None
    importLog,  \* what each apply did
    sent        \* what the admins have been told

syncVars == <<cars, issued, offered, importLog, sent>>

Init == /\ cars = [i \in CarId |-> NoCar]
        /\ issued = {}
        /\ offered = [t \in Token |-> None]
        /\ importLog = {}
        /\ sent = {}

Offer(t, f) ==
    /\ t \notin issued
    /\ issued' = issued \cup {t}
    /\ offered' = [offered EXCEPT ![t] = f]
    /\ UNCHANGED <<cars, importLog, sent>>

Withdraw(t) ==
    /\ offered' = [offered EXCEPT ![t] = None]
    /\ UNCHANGED <<cars, issued, importLog, sent>>

(* The car has what the row gives.                                         *)
Agrees(car, row) ==
    \A c \in AppliedColumns : row.cols[c] # None =>
        Norm(car.cols[c]) = Norm(row.cols[c])

Inserted(car, row) ==
    /\ car.eid = row.eid /\ car.name = row.name /\ Agrees(car, row)
    /\ car.status = "pending" /\ car.source = "excel" /\ ~car.deleted

(* Only what the row gives changes, and only if the car has not got it.    *)
Refreshed(old, new, row) ==
    /\ [new EXCEPT !.cols = {}] = [old EXCEPT !.cols = {}]
    /\ Agrees(new, row)
    /\ Agrees(old, row) => new = old
    /\ \A c \in Columns : new.cols[c] # old.cols[c] =>
          c \in AppliedColumns /\ row.cols[c] # None /\ new.cols[c] = row.cols[c]

(* The table after the step mirrors the rows, where m has the cars that    *)
(* stand for their keys.  New cars are one for one the rows without a car. *)
Synchronised(m, rows) ==
    /\ \A k \in DOMAIN m \cap DOMAIN rows :
          Refreshed(cars[m[k]], cars'[m[k]], rows[k])
    /\ \A k \in DOMAIN m \ DOMAIN rows :
          cars'[m[k]] = [cars[m[k]] EXCEPT !.status = "archived"]
    /\ \A i \in Ids(cars) : (\A k \in DOMAIN m : m[k] # i) => cars'[i] = cars[i]
    /\ \E place \in Bijection(DOMAIN rows \ DOMAIN m, Ids(cars') \ Ids(cars)) :
          \A k \in DOMAIN place : Inserted(cars'[place[k]], rows[k])

(* What has happened to the table, counted.                                *)
Report(t) ==
    [token |-> t,
     added |-> Cardinality(Ids(cars') \ Ids(cars)),
     updated |-> Cardinality({i \in Ids(cars) : cars'[i].cols # cars[i].cols}),
     removed |-> Cardinality({i \in Ids(cars) : cars'[i].status # cars[i].status})]

Notices(e) == (IF e.added > 0 THEN {<<"added", e>>} ELSE {})
                  \cup (IF e.removed > 0 THEN {<<"removed", e>>} ELSE {})

Apply(t) ==
    /\ offered[t] # None
    /\ \E m \in ByKey(cars) : Synchronised(m, Content[offered[t]])
    /\ offered' = [offered EXCEPT ![t] = None]
    /\ importLog' = importLog \cup {Report(t)}
    /\ sent' = sent \cup Notices(Report(t))
    /\ UNCHANGED issued

(* The panel creates or rewrites a car: no car disappears, and none takes  *)
(* the excel_row_id of another.                                            *)
Edit(i) ==
    /\ cars'[i] \in Car
    /\ \A j \in Ids(cars) \ {i} :
          cars'[i].eid # None => cars[j].eid # cars'[i].eid
    /\ cars' = [cars EXCEPT ![i] = cars'[i]]
    /\ UNCHANGED <<issued, offered, importLog, sent>>

Next == \/ \E t \in Token : Withdraw(t) \/ Apply(t) \/ \E f \in File : Offer(t, f)
        \/ \E i \in CarId : Edit(i)

Spec == Init /\ [][Next]_syncVars
=============================================================================
