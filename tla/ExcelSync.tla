----------------------------- MODULE ExcelSync -----------------------------
(***************************************************************************)
(* The two stages of the Excel synchronisation, beside the car edits of    *)
(* CarService and on the same table.  Upload parses a file, computes the   *)
(* diff and stashes it in Redis under a token; apply_diff reloads the rows *)
(* and the cars, recomputes what to do, and writes it in one transaction,  *)
(* then clears the token, invalidates the cache and notifies the admins,   *)
(* each behind an await at which other requests run.                       *)
(*                                                                         *)
(* Upload is one step: nothing it does before the stash can be observed,   *)
(* and a commit after build_diff's query is a commit after the stash.      *)
(***************************************************************************)
EXTENDS CarService, Workbook, BagsExt

CONSTANTS
    File,   \* workbooks that parse_workbook returns rows for
    Sheet,  \* the rows of each
    Token,  \* tokens that uuid4 will give (bounds the number of uploads)
    MaxAlike\* bound on the counted rows of importLog that say the same

ASSUME SheetAssumption ==
    /\ Sheet \in [File -> Seq(RawRow)]
    /\ \A f \in File : \A i \in DOMAIN Sheet[f] : ~Raises(Sheet[f][i])

(* The value that json.dumps stashes under a token.                        *)
Keys == [by : {"eid"}, id : Eid] \cup [by : {"bmy"}, id : Name]
Stash == [file : File, diff : [new : SUBSET Keys, updated : SUBSET CarId,
                               removed : SUBSET CarId]]

ASSUME NoneAssumption ==
    None \notin Token \cup File /\ None \notin Stash /\ IsFiniteSet(CarId)

ASSUME MaxAlikeAssumption == MaxAlike \in Nat \ {0}

VARIABLES
    staged,    \* excel:diff:<token> in Redis
    issued,    \* the tokens handed out so far
    payload,   \* what load_diff returned to each session
    outcome,   \* what apply_diff of each session has done
    importLog, \* excel_import_logs: how many rows say the same
    sent       \* the notify_task calls made, those that say the same once

syncVars == <<staged, issued, payload, outcome, importLog, sent>>
vars == <<carVars, syncVars>>

ApplyPC == {"diffLoaded", "applying", "committed", "cleared", "invalidated",
            "notifying"}

SyncInit ==
    /\ Init
    /\ staged = [t \in Token |-> None]
    /\ issued = {}
    /\ payload = [s \in Session |-> None]
    /\ outcome = [s \in Session |-> None]
    /\ importLog = [e \in {} |-> 0]
    /\ sent = {}

Rows(f) == RowsByKey(Sheet[f])

-----------------------------------------------------------------------------

(* parse_and_stage, from an upload or from the inbox scan.                 *)
Upload(t, f) ==
    /\ t \notin issued
    /\ issued' = issued \cup {t}
    /\ \E byKey \in ByKey(cars) :
          staged' = [staged EXCEPT ![t] =
                        [file |-> f, diff |-> Diff(Rows(f), cars, byKey)]]
    /\ NoCommit
    /\ UNCHANGED <<cacheBehind, pc, loaded, payload, outcome, importLog, sent>>

(* The key reaches its TTL, or Redis evicts it (allkeys-lru).              *)
ExpireToken(t) ==
    /\ staged[t] # None
    /\ staged' = [staged EXCEPT ![t] = None]
    /\ NoCommit
    /\ UNCHANGED <<cacheBehind, pc, loaded, issued, payload, outcome,
                   importLog, sent>>

(* payload = await load_diff(token).                                       *)
BeginApply(s, t) ==
    /\ pc[s] = "idle"
    /\ staged[t] # None
    /\ payload' = [payload EXCEPT ![s] = [token |-> t, file |-> staged[t].file,
                                          diff |-> staged[t].diff]]
    /\ Goto(s, "diffLoaded")
    /\ NoCommit
    /\ UNCHANGED <<cacheBehind, loaded, staged, issued, outcome, importLog, sent>>

(* "Unknown or expired diff token": the request ends.                      *)
UnknownToken(s, t) ==
    /\ pc[s] = "idle"
    /\ staged[t] = None
    /\ NoCommit
    /\ UNCHANGED <<cacheBehind, pc, loaded, syncVars>>

(* existing = await _load_existing_excel_cars(db).                         *)
SyncView(table) ==
    [i \in CarId |-> IF i \in SyncableIds(table) THEN table[i] ELSE NoCar]

LoadExisting(s) ==
    /\ pc[s] = "diffLoaded"
    /\ loaded' = [loaded EXCEPT ![s] = SyncView(cars)]
    /\ Goto(s, "applying")
    /\ NoCommit
    /\ UNCHANGED <<cacheBehind, syncVars>>

Fresh(rows, byKey) == DOMAIN rows \ DOMAIN byKey
KeptIds(rows, byKey) == {byKey[k] : k \in DOMAIN byKey \cap DOMAIN rows}
GoneIds(rows, byKey) == {byKey[k] : k \in DOMAIN byKey \ DOMAIN rows}
WrittenIds(rows, byKey, load) ==
    {i \in KeptIds(rows, byKey) : ApplyChanges(rows[Key(load[i])], load[i]) # {}}

(* The cars table after the commit of apply_diff: each fresh key k becomes *)
(* the car place[k], each kept car takes the changed columns of its row,   *)
(* each car whose key is gone from the file is archived.                   *)
AppliedTable(table, load, rows, byKey, place) ==
    [i \in CarId |->
        CASE \E k \in DOMAIN place : place[k] = i ->
                InsertedCar(rows[CHOOSE k \in DOMAIN place : place[k] = i])
          [] i \in KeptIds(rows, byKey) ->
                ApplyRow(table[i], load[i], rows[Key(load[i])])
          [] i \in GoneIds(rows, byKey) -> [table[i] EXCEPT !.status = "archived"]
          [] OTHER -> table[i]]

(* The create entry records `incoming`, the row as it is in the file.      *)
CreateEntry(i, row) ==
    Entry(i, "create", Pairs(NoCar, {}),
          [f \in Columns \cup NamePart |->
              IF f \in NamePart THEN row.name[f] ELSE row.cols[f]])

RowEntries(i, car, row) ==
    LET changed == ApplyChanges(row, car)
    IN UpdateEntries(i, car, changed, Restrict(row.cols, changed))

ApplyEntries(load, rows, byKey, place) ==
    {CreateEntry(place[k], rows[k]) : k \in DOMAIN place}
    \cup (UNION {RowEntries(i, load[i], rows[Key(load[i])]) :
                    i \in KeptIds(rows, byKey)})
    \cup {StatusEntry(i, "archive", load[i], "archived") :
             i \in GoneIds(rows, byKey)}

(* One more row in excel_import_logs; more than MaxAlike are as MaxAlike.  *)
WithRow(log, did) ==
    IF did \in DOMAIN log /\ log[did] = MaxAlike THEN log ELSE BagAdd(log, did)

(* From the loop over rows_by_key to db.commit().                          *)
CommitApply(s) ==
    /\ pc[s] = "applying"
    /\ LET rows == Rows(payload[s].file)
       IN \E byKey \in ByKey(loaded[s]) :
          \E place \in Injection(Fresh(rows, byKey), CarId \ Ids(cars)) :
             LET did == [token |-> payload[s].token,
                         added |-> Cardinality(Fresh(rows, byKey)),
                         updated |-> Cardinality(WrittenIds(rows, byKey, loaded[s])),
                         removed |-> Cardinality(GoneIds(rows, byKey))]
             IN /\ \A k \in DOMAIN place : ~EidTaken(cars, rows[k].eid)
                /\ Commit(s, AppliedTable(cars, loaded[s], rows, byKey, place),
                          ApplyEntries(loaded[s], rows, byKey, place),
                          "committed")
                /\ outcome' = [outcome EXCEPT ![s] = did]
                /\ importLog' = WithRow(importLog, did)
    /\ UNCHANGED <<staged, issued, payload, sent>>

(* At the bound of the model there is no primary key left for a new row.   *)
NoRoom(fresh) == Cardinality(CarId \ Ids(cars)) < Cardinality(fresh)

(* The flush of an inserted car hits uq_cars_excel_row_id: IntegrityError, *)
(* which is not a ValueError.                                              *)
Rejected(s) ==
    /\ pc[s] = "applying"
    /\ LET rows == Rows(payload[s].file)
       IN \E byKey \in ByKey(loaded[s]) :
             LET fresh == Fresh(rows, byKey)
             IN NoRoom(fresh) \/ \E k \in fresh : EidTaken(cars, rows[k].eid)

(* The request fails: it is rejected by the database, or its worker dies.  *)
(* What it has not committed is rolled back.                               *)
FailApply(s) ==
    /\ \/ Rejected(s)
       \/ MayCrash /\ pc[s] \in ApplyPC
    /\ Forget(s)
    /\ Goto(s, "idle")
    /\ payload' = [payload EXCEPT ![s] = None]
    /\ outcome' = [outcome EXCEPT ![s] = None]
    /\ NoCommit
    /\ UNCHANGED <<cacheBehind, staged, issued, importLog, sent>>

(* Mutants: the token is left in Redis; the invalidation is left out.      *)
ClearNothing(s) ==
    /\ pc[s] = "committed"
    /\ Goto(s, "cleared")
    /\ NoCommit
    /\ UNCHANGED <<cacheBehind, loaded, syncVars>>

ClearDiffLast(s) ==
    /\ pc[s] = "committed"
    /\ staged' = [staged EXCEPT ![payload[s].token] = None]
    /\ Goto(s, "invalidated")
    /\ NoCommit
    /\ UNCHANGED <<cacheBehind, loaded, issued, payload, outcome, importLog, sent>>

ClearDiff(s) ==
    /\ pc[s] = "committed"
    /\ staged' = [staged EXCEPT ![payload[s].token] = None]
    /\ Goto(s, "cleared")
    /\ NoCommit
    /\ UNCHANGED <<cacheBehind, loaded, issued, payload, outcome, importLog, sent>>

InvalidateAfterApply(s) ==
    /\ pc[s] = "cleared"
    /\ cacheBehind' = FALSE
    /\ Goto(s, "invalidated")
    /\ NoCommit
    /\ UNCHANGED <<loaded, syncVars>>

(* Mutants: only several cars are announced; the two counts are swapped.   *)
NotifySeveral(s, kind, count) ==
    sent' = IF count > 1 THEN sent \cup {<<kind, outcome[s]>>} ELSE sent

NotifySwapped(s, kind, count) ==
    sent' = IF count > 0
            THEN sent \cup {<<kind, [outcome[s] EXCEPT
                                        !.added = outcome[s].removed,
                                        !.removed = outcome[s].added]>>}
            ELSE sent

Notify(s, kind, count) ==
    sent' = IF count > 0 THEN sent \cup {<<kind, outcome[s]>>} ELSE sent

NotifyAdded(s) ==
    /\ pc[s] = "invalidated"
    /\ Notify(s, "added", outcome[s].added)
    /\ Goto(s, "notifying")
    /\ NoCommit
    /\ UNCHANGED <<cacheBehind, loaded, staged, issued, payload, outcome, importLog>>

(* Mutant: the second notification hangs off the first one's condition.    *)
NotifyRemovedIfAdded(s) ==
    /\ pc[s] = "notifying"
    /\ Notify(s, "removed", IF outcome[s].added > 0 THEN outcome[s].removed ELSE 0)
    /\ Goto(s, "idle")
    /\ payload' = [payload EXCEPT ![s] = None]
    /\ outcome' = [outcome EXCEPT ![s] = None]
    /\ NoCommit
    /\ UNCHANGED <<cacheBehind, loaded, staged, issued, importLog>>

(* The second notification, and the end of the request.                    *)
NotifyRemoved(s) ==
    /\ pc[s] = "notifying"
    /\ Notify(s, "removed", outcome[s].removed)
    /\ Goto(s, "idle")
    /\ payload' = [payload EXCEPT ![s] = None]
    /\ outcome' = [outcome EXCEPT ![s] = None]
    /\ NoCommit
    /\ UNCHANGED <<cacheBehind, loaded, staged, issued, importLog>>

(* What a request still does by itself once it has committed.              *)
Finish(s) == \/ ClearDiff(s) \/ InvalidateAfterApply(s)
             \/ NotifyAdded(s) \/ NotifyRemoved(s)

Apply(s) == \/ \E t \in Token : BeginApply(s, t) \/ UnknownToken(s, t)
            \/ LoadExisting(s) \/ CommitApply(s) \/ FailApply(s)
            \/ Finish(s)

SyncNext ==
    \/ \E t \in Token : ExpireToken(t) \/ \E f \in File : Upload(t, f)
    \/ \E s \in Session : Apply(s)
    \/ \E s \in Session : Edit(s) /\ UNCHANGED syncVars

SyncSpec == SyncInit /\ [][SyncNext]_vars

(* A handler that has committed runs on: the event loop schedules it, and  *)
(* none of the calls it still makes waits for another request.             *)
FairSync == SyncSpec /\ \A s \in Session : WF_vars(Finish(s))

-----------------------------------------------------------------------------

StagedOK ==
    /\ issued \subseteq Token /\ DOMAIN staged = Token
    /\ \A t \in Token : staged[t] # None => t \in issued /\ staged[t].file \in File

(* What a session holds is what its place in the handler calls for.        *)
HeldOK ==
    /\ DOMAIN payload = Session /\ DOMAIN outcome = Session
    /\ \A s \in Session :
        /\ IF pc[s] \in ApplyPC
           THEN payload[s].token \in issued /\ payload[s].file \in File
           ELSE payload[s] = None
        /\ IF pc[s] \in ApplyPC \ {"diffLoaded", "applying"}
           THEN outcome[s] \in DOMAIN importLog /\ outcome[s].token = payload[s].token
           ELSE outcome[s] = None

SyncTypeOK == /\ TableOK
              /\ pc \in [Session -> EditPC \cup ApplyPC]
              /\ StagedOK
              /\ HeldOK

(* A step of session s in which apply_diff commits.                        *)
Commits(s) == pc[s] = "applying" /\ pc'[s] = "committed"
UpToDate(s) == loaded[s] = SyncView(cars)
KeysUnique(table) ==
    \A i, j \in SyncableIds(table) : Key(table[i]) = Key(table[j]) => i = j

(* What Apply is for: when no commit came between the read of the cars and *)
(* the write, and no two cars share a key, then after the commit the       *)
(* pending and published Excel cars are the rows of the file, one car for  *)
(* each row, and every column the row gives and apply_diff writes agrees   *)
(* (README.md:111-116).                                                    *)
MirrorAfterApply ==
    [][\A s \in Session :
        Commits(s) /\ UpToDate(s) /\ KeysUnique(cars) =>
            LET rows == Rows(payload[s].file)
            IN /\ SyncKeys(cars') = DOMAIN rows
               /\ KeysUnique(cars')
               /\ \A i \in SyncableIds(cars') :
                     LET row == rows[Key(cars'[i])]
                     IN \A c \in AppliedColumns : row.cols[c] # None =>
                            Norm(cars'[i].cols[c]) = Norm(row.cols[c])]_vars

(* "preview the diff (new / updated / removed / warnings), apply with a    *)
(* single click" (README.md:11-12): if the diff shown under the token is   *)
(* still what build_diff would compute, then applying it inserts, changes  *)
(* and archives exactly the cars the preview listed.                       *)
PreviewIsApplied ==
    [][\A s \in Session :
        LET rows == Rows(payload[s].file)
            diff == payload[s].diff
        IN Commits(s) /\ UpToDate(s) /\ KeysUnique(cars)
              /\ (\E m \in ByKey(cars) : diff = Diff(rows, cars, m)) =>
            /\ {Key(cars'[i]) : i \in Ids(cars') \ Ids(cars)} = diff.new
            /\ {i \in Ids(cars) : cars'[i].cols # cars[i].cols} = diff.updated
            /\ {i \in Ids(cars) : cars'[i].status # cars[i].status} = diff.removed]_vars

(* Applying a file touches no car but the pending and published Excel cars *)
(* it has read, never deletes one, never publishes one, and never changes  *)
(* what identifies a car, whatever edits commit while it runs              *)
(* (excel_sync.py:7-9).                                                    *)
ApplyOnlyUpdatesOrArchives ==
    [][\A s \in Session : Commits(s) =>
        \A i \in Ids(cars) :
            /\ cars'[i] # cars[i] => cars[i].source = "excel" /\ loaded[s][i] # NoCar
            /\ cars'[i].status \in {cars[i].status, "archived"}
            /\ [cars'[i] EXCEPT !.cols = {}, !.status = "draft"]
                  = [cars[i] EXCEPT !.cols = {}, !.status = "draft"]]_vars

(* An import log with archived or added cars belongs to a request that has *)
(* told the admins or is still on its way to (excel_sync.py:7-9: "notify   *)
(* admins", "warn admins").                                                *)
AdminsWarned ==
    \A e \in DOMAIN importLog :
        \/ \E s \in Session : outcome[s] = e
        \/ /\ e.removed > 0 => <<"removed", e>> \in sent
           /\ e.added > 0 => <<"added", e>> \in sent

(* Conversely no notification reports an apply that was rolled back.       *)
SentAreLogged == \A n \in sent : n[2] \in DOMAIN importLog

(* A token stays applicable only until the apply that used it has cleared  *)
(* it: no finished request leaves its own token behind (excel_sync.py:484).*)
UsedTokensAreCleared ==
    \A e \in DOMAIN importLog :
        staged[e.token] # None =>
            \E s \in Session : pc[s] = "committed" /\ outcome[s] = e

(* Every apply that archived cars is followed by the notification of it.   *)
RemovalsAnnounced ==
    \A s \in Session, t \in Token :
        pc[s] = "committed" /\ outcome[s].token = t /\ outcome[s].removed > 0
            ~> \E n \in sent : n[1] = "removed" /\ n[2].token = t

(***************************************************************************)
(* The apply is one step to those outside when it commits: a token that is *)
(* in the hands of a request before its commit is still offered, whatever  *)
(* Redis does, and is used up from the commit on; the notifications that   *)
(* the request has ahead of it count as sent.                              *)
(***************************************************************************)
Holding(t) == {s \in Session : pc[s] \in {"diffLoaded", "applying"}
                                  /\ payload[s].token = t}
Clearing(t) == {s \in Session : pc[s] = "committed" /\ payload[s].token = t}
OneOf(S) == CHOOSE s \in S : TRUE
OfferedFile(t) ==
    IF Holding(t) # {} THEN payload[OneOf(Holding(t))].file
    ELSE IF Clearing(t) # {} \/ staged[t] = None THEN None
    ELSE staged[t].file
Ahead(s) ==
    (IF pc[s] \in {"committed", "cleared", "invalidated"} /\ outcome[s].added > 0
     THEN {<<"added", outcome[s]>>} ELSE {})
    \cup (IF pc[s] \in {"committed", "cleared", "invalidated", "notifying"}
             /\ outcome[s].removed > 0
          THEN {<<"removed", outcome[s]>>} ELSE {})

Atomic == INSTANCE AtomicSync WITH
    Content <- [f \in File |-> Rows(f)],
    offered <- [t \in Token |-> OfferedFile(t)],
    importLog <- DOMAIN importLog,
    sent <- sent \cup UNION {Ahead(s) : s \in Session}

(* Uploads and a TTL that runs out come between the awaits of an apply,    *)
(* and still, for one who works alone, "apply with a single click"         *)
(* (README.md:11-12) is one step: each token is applied at most once, by   *)
(* the file that was uploaded under it, the import log counts what has     *)
(* happened to the table and the admins hear of just that                  *)
(* (excel_sync.py:337-503).                                                *)
AppliesAtOnce == Atomic!Spec

-----------------------------------------------------------------------------
(* What the documentation says of the synchronisation and the code does    *)
(* not do.  Each is checked by a run of its own that ends in a violation.  *)

(* The matching key identifies a car (README.md:119): there is at most one *)
(* pending or published Excel car for it.                                  *)
OneCarPerKey == KeysUnique(cars)

(* "new rows -> insert with status=pending" (excel_sync.py:8): an apply    *)
(* whose token was found is carried out, not refused.                      *)
NewRowsAreInserted ==
    [][\A s \in Session :
        pc[s] = "applying" /\ ~NoRoom(DOMAIN Rows(payload[s].file))
            => pc'[s] # "idle"]_vars

=============================================================================
