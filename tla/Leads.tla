------------------------------- MODULE Leads -------------------------------
(***************************************************************************)
(* Consultation and sell requests: the hourly limit kept in Redis, the     *)
(* images of a sell request, the lead and its announcement to the staff by *)
(* the Celery task notify_task.                                            *)
(*                                                                         *)
(* A counter stands for the Redis key rl:lead:<kind>:<ip>.  INCR and       *)
(* EXPIRE are two commands.  The files of a sell request have fresh names  *)
(* and are read by no other step, so only the outcome of saving them is    *)
(* kept.                                                                   *)
(***************************************************************************)
EXTENDS Integers, FiniteSets

CONSTANTS
    Client,    \* IP addresses
    Key,       \* the counters in use: kinds of request and clients
    Limit,     \* PUBLIC_LEAD_RATE_PER_HOUR
    MaxLead,   \* bound on the leads
    User,      \* rows of users
    RoleOf,    \* the role of each of them
    Session,   \* requests that may be in progress at the same time
    MayCrash,  \* TRUE: a request or a task may die
    None

Kind == {"consultation", "sell"}
Role == {"admin", "operator", "viewer"}
LeadId == 1..MaxLead
MaxCount == Limit + 1   \* all larger values are alike

ASSUME LeadsAssumption ==
    /\ Limit \in Nat \ {0} /\ MaxLead \in Nat
    /\ RoleOf \in [User -> Role]
    /\ Key \subseteq Kind \X Client /\ None \notin Key
    /\ IsFiniteSet(Session) /\ MayCrash \in BOOLEAN

VARIABLES
    counter,   \* the value of each counter, 0 when there is none
    ttl,       \* the counters that will expire
    pc, req,   \* where each request stands; its counter, what INCR returned, its lead
    leads,     \* the committed leads, by their counter
    lastLead,  \* the latest id of the sequence
    queue,     \* leads whose notify_task is queued
    selected,  \* the users that a running notify_task has read
    inbox,     \* the leads that each user has a notification of
    active,    \* users with is_active
    current,   \* history: requests counted in the window that still lasts
    admitted,  \* history: requests let through in that window
    orphaned,  \* history: counters with a request that died before EXPIRE
    lost,      \* history: leads whose request or task died
    steady     \* history: staff active ever since each lead was committed

limitVars == <<counter, ttl, current, admitted, orphaned>>
leadVars == <<leads, lastLead>>
taskVars == <<queue, selected, inbox, lost>>
userVars == <<active, steady>>
vars == <<limitVars, pc, req, leadVars, taskVars, userVars>>

NoReq == [key |-> None, n |-> 0, lead |-> None]

Init ==
    /\ counter = [k \in Key |-> 0] /\ ttl = {}
    /\ pc = [s \in Session |-> "idle"]
    /\ req = [s \in Session |-> NoReq]
    /\ leads = [i \in LeadId |-> None] /\ lastLead = 0
    /\ queue = {} /\ selected = [i \in LeadId |-> None]
    /\ inbox = [u \in User |-> {}]
    /\ active = User
    /\ current = {} /\ admitted = [k \in Key |-> 0]
    /\ orphaned = {} /\ lost = {}
    /\ steady = [i \in LeadId |-> {}]

Staff == {u \in active : RoleOf[u] \in {"admin", "operator"}}

Goto(s, label) == pc' = [pc EXCEPT ![s] = label]

(* The end of a request, answered or not; what it flushed is rolled back.  *)
End(s) ==
    /\ Goto(s, "idle")
    /\ req' = [req EXCEPT ![s] = NoReq]
    /\ current' = current \ {s}

-----------------------------------------------------------------------------
(* _rate_limit                                                             *)

(* Mutant: INCR is taken to return the old value.                          *)
CountFromZero(s, k) ==
    /\ pc[s] = "idle"
    /\ counter' = [counter EXCEPT ![k] = IF @ < MaxCount THEN @ + 1 ELSE @]
    /\ req' = [req EXCEPT ![s] = [key |-> k, n |-> counter'[k], lead |-> None]]
    /\ current' = current \cup {s}
    /\ Goto(s, IF counter[k] = 1 THEN "first" ELSE "counted")
    /\ UNCHANGED <<ttl, admitted, orphaned, leadVars, taskVars, userVars>>

Count(s, k) ==
    /\ pc[s] = "idle"
    /\ counter' = [counter EXCEPT ![k] = IF @ < MaxCount THEN @ + 1 ELSE @]
    /\ req' = [req EXCEPT ![s] = [key |-> k, n |-> counter'[k], lead |-> None]]
    /\ current' = current \cup {s}
    /\ Goto(s, IF counter'[k] = 1 THEN "first" ELSE "counted")
    /\ UNCHANGED <<ttl, admitted, orphaned, leadVars, taskVars, userVars>>

SetExpire(s) ==
    /\ pc[s] = "first"
    /\ ttl' = IF counter[req[s].key] > 0 THEN ttl \cup {req[s].key} ELSE ttl
    /\ Goto(s, "counted")
    /\ UNCHANGED <<counter, current, admitted, orphaned, req, leadVars, taskVars, userVars>>

(* Mutant: >= for >, the other way round.                                  *)
AdmitOneMore(s) ==
    /\ pc[s] = "counted" /\ req[s].n - 1 <= Limit
    /\ admitted' = IF s \in current
                   THEN [admitted EXCEPT ![req[s].key] = @ + 1] ELSE admitted
    /\ current' = current \ {s}
    /\ Goto(s, "admitted")
    /\ UNCHANGED <<counter, ttl, orphaned, req, leadVars, taskVars, userVars>>

Admit(s) ==
    /\ pc[s] = "counted" /\ req[s].n <= Limit
    /\ admitted' = IF s \in current
                   THEN [admitted EXCEPT ![req[s].key] = @ + 1] ELSE admitted
    /\ current' = current \ {s}
    /\ Goto(s, "admitted")
    /\ UNCHANGED <<counter, ttl, orphaned, req, leadVars, taskVars, userVars>>

(* 429                                                                     *)
Refuse(s) ==
    /\ pc[s] = "counted" /\ req[s].n > Limit
    /\ End(s)
    /\ UNCHANGED <<counter, ttl, admitted, orphaned, leadVars, taskVars, userVars>>

(* Redis drops a key, and the window of the counter ends.                  *)
Drop(k) ==
    /\ counter' = [counter EXCEPT ![k] = 0]
    /\ ttl' = ttl \ {k}
    /\ current' = {s \in current : req[s].key # k}
    /\ admitted' = [admitted EXCEPT ![k] = 0]
    /\ orphaned' = orphaned \ {k}
    /\ UNCHANGED <<pc, req, leadVars, taskVars, userVars>>

(* The hour is over.                                                       *)
ExpireCounter(k) == k \in ttl /\ Drop(k)

(* Memory is short: allkeys-lru takes any key, with or without a TTL.      *)
EvictCounter(k) == counter[k] > 0 /\ Drop(k)

-----------------------------------------------------------------------------
(* The rest of create_consultation and create_sell_request                 *)

(* A sell request is validated only now, and its images may be too many,   *)
(* too large or of another type (save_lead_images).                        *)
RejectSell(s) ==
    /\ pc[s] = "admitted" /\ req[s].key[1] = "sell"
    /\ End(s)
    /\ UNCHANGED <<counter, ttl, admitted, orphaned, leadVars, taskVars, userVars>>

(* Mutant: notify_task.delay before the commit.                            *)
CreateLeadAndNotify(s) ==
    /\ pc[s] = "admitted" /\ lastLead < MaxLead
    /\ lastLead' = lastLead + 1
    /\ req' = [req EXCEPT ![s].lead = lastLead']
    /\ queue' = queue \cup {lastLead'}
    /\ Goto(s, "flushed")
    /\ UNCHANGED <<limitVars, leads, selected, inbox, lost, userVars>>

(* create_lead: the INSERT is flushed and has an id.                       *)
CreateLead(s) ==
    /\ pc[s] = "admitted" /\ lastLead < MaxLead
    /\ lastLead' = lastLead + 1
    /\ req' = [req EXCEPT ![s].lead = lastLead']
    /\ Goto(s, "flushed")
    /\ UNCHANGED <<limitVars, leads, taskVars, userVars>>

(* Mutant: the flushed row does not know its type.                         *)
CommitUntyped(s) ==
    /\ pc[s] = "flushed"
    /\ leads' = [leads EXCEPT ![req[s].lead] = req[s].key[1]]
    /\ steady' = [steady EXCEPT ![req[s].lead] = Staff]
    /\ Goto(s, "committed")
    /\ UNCHANGED <<limitVars, req, lastLead, taskVars, active>>

CommitLead(s) ==
    /\ pc[s] = "flushed"
    /\ leads' = [leads EXCEPT ![req[s].lead] = req[s].key]
    /\ steady' = [steady EXCEPT ![req[s].lead] = Staff]
    /\ Goto(s, "committed")
    /\ UNCHANGED <<limitVars, req, lastLead, taskVars, active>>

(* Mutant: the task has one key, and replaces the one that is queued.      *)
AnswerWithOneTask(s) ==
    /\ pc[s] = "committed"
    /\ queue' = {req[s].lead}
    /\ End(s)
    /\ UNCHANGED <<counter, ttl, admitted, orphaned, leadVars, selected, inbox, lost, userVars>>

(* notify_task.delay and the answer.                                       *)
Answer(s) ==
    /\ pc[s] = "committed"
    /\ queue' = queue \cup {req[s].lead}
    /\ End(s)
    /\ UNCHANGED <<counter, ttl, admitted, orphaned, leadVars, selected, inbox, lost, userVars>>

CrashInRequest(s) ==
    /\ MayCrash /\ pc[s] # "idle"
    /\ orphaned' = IF pc[s] = "first" THEN orphaned \cup {req[s].key} ELSE orphaned
    /\ lost' = IF pc[s] = "committed" THEN lost \cup {req[s].lead} ELSE lost
    /\ End(s)
    /\ UNCHANGED <<counter, ttl, admitted, leadVars, queue, selected, inbox, userVars>>

-----------------------------------------------------------------------------
(* notify_task: the queue forgets a task when a worker takes it, and the   *)
(* task is not retried.                                                    *)

(* Mutant: operators are forgotten.                                        *)
SelectAdmins(i) ==
    /\ i \in queue
    /\ queue' = queue \ {i}
    /\ selected' = [selected EXCEPT ![i] = {u \in active : RoleOf[u] = "admin"}]
    /\ UNCHANGED <<limitVars, pc, req, leadVars, inbox, lost, userVars>>

SelectStaff(i) ==
    /\ i \in queue
    /\ queue' = queue \ {i}
    /\ selected' = [selected EXCEPT ![i] = Staff]
    /\ UNCHANGED <<limitVars, pc, req, leadVars, inbox, lost, userVars>>

CommitNotifications(i) ==
    /\ selected[i] # None
    /\ inbox' = [u \in User |-> IF u \in selected[i] THEN inbox[u] \cup {i} ELSE inbox[u]]
    /\ selected' = [selected EXCEPT ![i] = None]
    /\ UNCHANGED <<limitVars, pc, req, leadVars, queue, lost, userVars>>

CrashInTask(i) ==
    /\ MayCrash /\ selected[i] # None
    /\ selected' = [selected EXCEPT ![i] = None]
    /\ lost' = lost \cup {i}
    /\ UNCHANGED <<limitVars, pc, req, leadVars, queue, inbox, userVars>>

(* toggle_user, by an active admin; he may switch himself off.             *)
ToggleUser(u) ==
    /\ \E a \in active : RoleOf[a] = "admin"
    /\ active' = IF u \in active THEN active \ {u} ELSE active \cup {u}
    /\ steady' = [i \in LeadId |-> steady[i] \ {u}]
    /\ UNCHANGED <<limitVars, pc, req, leadVars, taskVars>>

Respond(s) ==
    \/ SetExpire(s) \/ Admit(s) \/ Refuse(s) \/ RejectSell(s)
    \/ CreateLead(s) \/ CommitLead(s) \/ Answer(s)

Notify(i) == SelectStaff(i) \/ CommitNotifications(i)

Next == \/ \E s \in Session : Respond(s) \/ CrashInRequest(s)
        \/ \E s \in Session, k \in Key : Count(s, k)
        \/ \E i \in LeadId : Notify(i) \/ CrashInTask(i)
        \/ \E k \in Key : ExpireCounter(k) \/ EvictCounter(k)
        \/ \E u \in User : ToggleUser(u)

Spec == Init /\ [][Next]_vars

(* Redis expires keys and need not evict any, handlers that wait for Redis *)
(* or the broker only run on, and the worker serves its queue.  The commit *)
(* is not forced.                                                          *)
FairLeads == /\ Spec
             /\ \A s \in Session : WF_vars(SetExpire(s)) /\ WF_vars(Answer(s))
             /\ \A k \in Key : WF_vars(ExpireCounter(k))
             /\ \A i \in LeadId : WF_vars(Notify(i))

-----------------------------------------------------------------------------

LeadsTypeOK ==
    /\ counter \in [Key -> 0..MaxCount] /\ \A k \in ttl : counter[k] > 0
    /\ leads \in [LeadId -> Key \cup {None}] /\ lastLead \in 0..MaxLead
    /\ queue \subseteq LeadId /\ lost \subseteq LeadId
    /\ \A i \in LeadId : selected[i] = None \/ selected[i] \subseteq User
    /\ inbox \in [User -> SUBSET LeadId] /\ active \subseteq User
    /\ \A s \in Session : (pc[s] = "idle") = (req[s] = NoReq)

(* Both endpoints "are limited to `PUBLIC_LEAD_RATE_PER_HOUR=10` per IP    *)
(* via Redis" (README.md:127-128), by a counter for each kind of request   *)
(* and address (leads.py:26): whatever requests overlap, no more than that *)
(* pass in one window, a window lasting until the key ends.                *)
WithinLimit == \A k \in Key : admitted[k] <= Limit

(* Every counter comes to its end, unless the request that had to give it  *)
(* a TTL died between the two commands (leads.py:27-29).                   *)
CountersEnd == \A k \in Key : counter[k] > 0 ~> counter[k] = 0 \/ k \in orphaned

(* Nothing is announced that is not in the table, crashes included: the    *)
(* call of delay comes after the commit (leads.py:48-53, 85-90).           *)
AnnouncedAreCommitted ==
    \A i \in LeadId : i \in queue \/ selected[i] # None \/ (\E u \in User : i \in inbox[u])
                         => leads[i] # None

(* When the task of a lead is over, whoever was an active admin or         *)
(* operator from the commit of the lead on has a notification of it, even  *)
(* while others are switched on and off (tasks.py:68-87).                  *)
StaffInformed ==
    [][\A i \in LeadId : selected[i] # None /\ selected'[i] = None /\ i \notin lost'
          => \A u \in steady[i] : i \in inbox'[u]]_vars

(* Every lead that is committed gets its fan-out, unless its request or    *)
(* its task dies: somebody is informed as long as somebody stays active    *)
(* (leads.py:49, 86).                                                      *)
LeadsAnnounced ==
    \A i \in LeadId : leads[i] # None ~>
        i \in lost \/ \A u \in steady[i] : i \in inbox[u]

(***************************************************************************)
(* The promise that this module keeps.  A place is taken by INCR, not by   *)
(* the comparison that comes after it: a request counted within the limit  *)
(* holds its place until its lead is committed or it ends.                 *)
(***************************************************************************)
Promise == INSTANCE LeadPromise WITH
    used <- [k \in Key |-> IF counter[k] <= Limit THEN counter[k] ELSE Limit],
    holder <- [s \in Session |->
                  IF pc[s] \in {"first", "counted", "admitted", "flushed"}
                     /\ req[s].n <= Limit
                  THEN req[s].key ELSE None],
    informed <- inbox

(* Whatever overlaps, dies or is counted in a window that ends before the  *)
(* request does: leads come one for one from the places of some window,    *)
(* exist before they are announced, and are announced to nobody twice      *)
(* (leads.py:23-53, tasks.py:64-91).                                       *)
KeepsPromise == Promise!Spec

=============================================================================
