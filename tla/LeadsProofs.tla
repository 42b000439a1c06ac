---------------------------- MODULE LeadsProofs ----------------------------
(***************************************************************************)
(* For any limit, any clients, users and crashes, and any finite set of    *)
(* requests in progress: the limit on leads, the order of commit and       *)
(* announcement, that the staff is informed, and that Leads implements     *)
(* LeadPromise.                                                            *)
(***************************************************************************)
EXTENDS Leads, FiniteSetTheorems, TLAPS

Label == {"idle", "first", "counted", "admitted", "flushed", "committed"}

Req == [key : Key \cup {None}, n : Nat, lead : LeadId \cup {None}]

(* What each request holds at its place in the handler.                    *)
ReqOK(s) ==
    /\ IF pc[s] = "idle" THEN req[s] = NoReq ELSE req[s].key \in Key
    /\ pc[s] \in {"flushed", "committed"} => req[s].lead \in LeadId
    /\ pc[s] = "committed" => leads[req[s].lead] # None

LimitTypeOK ==
    /\ counter \in [Key -> 0..MaxCount] /\ admitted \in [Key -> Nat]
    /\ ttl \subseteq Key /\ \A k \in ttl : counter[k] > 0
    /\ current \subseteq Session
    /\ \A s \in current : pc[s] \in {"first", "counted"}

LeadTypeOK ==
    /\ pc \in [Session -> Label] /\ req \in [Session -> Req]
    /\ leads \in [LeadId -> Key \cup {None}] /\ lastLead \in 0..MaxLead
    /\ \A s \in Session : ReqOK(s)

TaskTypeOK ==
    /\ queue \subseteq LeadId /\ lost \subseteq LeadId
    /\ selected \in [LeadId -> (SUBSET User) \cup {None}]
    /\ inbox \in [User -> SUBSET LeadId] /\ active \subseteq User

(* Requests of the running window that are counted within the limit and    *)
(* not yet let through.                                                    *)
Pending(k) == {s \in current : req[s].key = k /\ req[s].n <= Limit}

(* The slots of a window, those of pending requests included, are at most  *)
(* the requests counted, and at most the limit.                            *)
SlotsOK ==
    \A k \in Key : LET slots == admitted[k] + Cardinality(Pending(k))
                   IN slots <= counter[k] /\ slots <= Limit

IInv == LimitTypeOK /\ LeadTypeOK /\ TaskTypeOK /\ SlotsOK /\ AnnouncedAreCommitted

-----------------------------------------------------------------------------

LEMMA PendingFinite ==
    ASSUME LimitTypeOK, NEW k
    PROVE  IsFiniteSet(Pending(k)) /\ Cardinality(Pending(k)) \in Nat
<1>1. Pending(k) \subseteq Session
  BY DEF Pending, LimitTypeOK
<1>. QED BY <1>1, LeadsAssumption, FS_Subset, FS_CardinalityType

(* A step that neither counts nor admits nor ends a window keeps the slots *)
(* as long as no pending request is added.                                 *)
LEMMA FewerPending ==
    ASSUME IInv, counter' = counter, admitted' = admitted,
           \A k \in Key : Pending(k)' \subseteq Pending(k)
    PROVE  SlotsOK'
<1>. SUFFICES ASSUME NEW k \in Key
     PROVE  /\ admitted[k] + Cardinality(Pending(k)') <= counter[k]
            /\ admitted[k] + Cardinality(Pending(k)') <= Limit
  BY DEF SlotsOK
<1>1. /\ IsFiniteSet(Pending(k)) /\ Cardinality(Pending(k)) \in Nat
  BY PendingFinite DEF IInv
<1>2. /\ Cardinality(Pending(k)') <= Cardinality(Pending(k))
      /\ Cardinality(Pending(k)') \in Nat
  BY <1>1, FS_Subset, FS_CardinalityType
<1>3. /\ admitted[k] + Cardinality(Pending(k)) <= counter[k]
      /\ admitted[k] + Cardinality(Pending(k)) <= Limit
  BY DEF IInv, SlotsOK
<1>4. admitted[k] \in Nat /\ counter[k] \in Nat /\ Limit \in Nat
  BY LeadsAssumption DEF IInv, LimitTypeOK, MaxCount
<1>. QED BY <1>1, <1>2, <1>3, <1>4
(* What ends a request gives up at most a pending slot.                    *)
LEMMA EndIInv ==
    ASSUME IInv, NEW s \in Session, pc[s] # "idle", End(s),
           UNCHANGED <<counter, ttl, admitted, leads, lastLead>>
    PROVE  LimitTypeOK' /\ LeadTypeOK' /\ SlotsOK'
<1>1. /\ pc' = [pc EXCEPT ![s] = "idle"] /\ req' = [req EXCEPT ![s] = NoReq]
      /\ current' = current \ {s}
  BY DEF End, Goto
<1>2. LimitTypeOK'
  BY <1>1 DEF IInv, LimitTypeOK, LeadTypeOK
<1>3. LeadTypeOK'
  <2>1. NoReq \in Req
    BY DEF NoReq, Req
  <2>2. pc' \in [Session -> Label] /\ req' \in [Session -> Req]
    BY <1>1, <2>1 DEF IInv, LeadTypeOK, Label
  <2>3. \A t \in Session : ReqOK(t)'
    BY <1>1 DEF IInv, LeadTypeOK, ReqOK, Label
  <2>. QED BY <2>2, <2>3 DEF IInv, LeadTypeOK
<1>4. SlotsOK'
  <2>1. ASSUME NEW k \in Key PROVE Pending(k)' \subseteq Pending(k)
    BY <1>1 DEF Pending, IInv, LimitTypeOK, LeadTypeOK
  <2>. QED BY <2>1, FewerPending
<1>. QED BY <1>2, <1>3, <1>4

LEMMA CountIInv ==
    ASSUME IInv, NEW s \in Session, NEW k \in Key, Count(s, k) PROVE IInv'
<1>1. /\ pc[s] = "idle" /\ s \notin current
      /\ counter[k] \in 0..MaxCount /\ Limit \in Nat /\ MaxCount = Limit + 1
  BY LeadsAssumption DEF Count, IInv, LimitTypeOK, MaxCount
<1> DEFINE n == IF counter[k] < MaxCount THEN counter[k] + 1 ELSE counter[k]
<1>2. /\ n \in 1..MaxCount /\ n >= counter[k]
      /\ n <= Limit => n = counter[k] + 1
  BY <1>1
<1>3. /\ counter' = [counter EXCEPT ![k] = n]
      /\ req' = [req EXCEPT ![s] = [key |-> k, n |-> n, lead |-> None]]
      /\ current' = current \cup {s}
      /\ pc' = [pc EXCEPT ![s] = IF n = 1 THEN "first" ELSE "counted"]
      /\ UNCHANGED <<ttl, admitted, leads, lastLead, queue, selected, inbox, lost, active>>
  BY DEF Count, Goto, IInv, LimitTypeOK, leadVars, taskVars, userVars
<1> HIDE DEF n
<1>4. LimitTypeOK'
  <2>1. counter' \in [Key -> 0..MaxCount] /\ \A j \in Key : counter'[j] >= counter[j]
    BY <1>1, <1>2, <1>3 DEF IInv, LimitTypeOK
  <2>2. \A j \in ttl' : counter'[j] > 0
    BY <2>1, <1>3, <1>1 DEF IInv, LimitTypeOK
  <2>3. current' \subseteq Session /\ \A t \in current' : pc'[t] \in {"first", "counted"}
    BY <1>3 DEF IInv, LimitTypeOK, LeadTypeOK
  <2>. QED BY <2>1, <2>2, <2>3, <1>3 DEF IInv, LimitTypeOK, MaxCount
<1>5. LeadTypeOK'
  <2>1. [key |-> k, n |-> n, lead |-> None] \in Req
    BY <1>1, <1>2 DEF NoReq, Req
  <2>2. pc' \in [Session -> Label] /\ req' \in [Session -> Req]
    BY <1>3, <2>1 DEF IInv, LeadTypeOK, Label
  <2>3. \A t \in Session : ReqOK(t)'
    BY <1>1, <1>3 DEF IInv, LeadTypeOK, ReqOK, NoReq
  <2>. QED BY <2>2, <2>3, <1>3 DEF IInv, LeadTypeOK
<1>6. TaskTypeOK' /\ AnnouncedAreCommitted'
  BY <1>3 DEF IInv, TaskTypeOK, AnnouncedAreCommitted
<1>7. SlotsOK'
  <2>1. SUFFICES ASSUME NEW j \in Key
        PROVE  /\ admitted[j] + Cardinality(Pending(j)') <= counter'[j]
               /\ admitted[j] + Cardinality(Pending(j)') <= Limit
    BY <1>3 DEF SlotsOK
  <2>2. /\ IsFiniteSet(Pending(j)) /\ Cardinality(Pending(j)) \in Nat
        /\ admitted[j] + Cardinality(Pending(j)) <= counter[j]
        /\ admitted[j] + Cardinality(Pending(j)) <= Limit
        /\ admitted[j] \in Nat /\ counter[j] \in Nat
    BY PendingFinite DEF IInv, SlotsOK, LimitTypeOK, MaxCount
  <2>3. /\ req'[s].key = k /\ req'[s].n = n
        /\ \A t \in current : req'[t] = req[t]
    BY <1>1, <1>3 DEF IInv, LimitTypeOK, LeadTypeOK, NoReq
  <2>4. CASE j = k /\ n <= Limit
    <3>1. Pending(j)' = Pending(j) \cup {s}
      BY <2>3, <2>4, <1>3 DEF Pending
    <3>2. s \notin Pending(j)
      BY <1>1 DEF Pending
    <3>3. Cardinality(Pending(j)') = Cardinality(Pending(j)) + 1
      BY <3>1, <3>2, <2>2, FS_AddElement
    <3>4. counter'[j] = counter[j] + 1 /\ counter'[j] <= Limit
      BY <2>4, <1>2, <1>3 DEF IInv, LimitTypeOK
    <3>. QED BY <3>3, <3>4, <2>2, <1>1
  <2>5. CASE ~(j = k /\ n <= Limit)
    <3>1. Pending(j)' = Pending(j)
      BY <2>3, <2>5, <1>1, <1>3 DEF Pending
    <3>2. counter'[j] >= counter[j] /\ counter'[j] \in Nat
      BY <1>1, <1>2, <1>3, <2>2 DEF IInv, LimitTypeOK
    <3>. QED BY <3>1, <3>2, <2>2, <1>1
  <2>. QED BY <2>4, <2>5
<1>. QED BY <1>4, <1>5, <1>6, <1>7 DEF IInv

LEMMA AdmitIInv ==
    ASSUME IInv, NEW s \in Session, Admit(s) PROVE IInv'
<1>1. /\ pc[s] = "counted" /\ req[s].n <= Limit /\ req[s].key \in Key
      /\ admitted' = IF s \in current
                     THEN [admitted EXCEPT ![req[s].key] = @ + 1] ELSE admitted
      /\ current' = current \ {s}
      /\ pc' = [pc EXCEPT ![s] = "admitted"]
      /\ UNCHANGED <<counter, ttl, req, leads, lastLead, queue, selected, inbox, lost, active>>
  BY DEF Admit, Goto, IInv, LeadTypeOK, ReqOK, leadVars, taskVars, userVars
<1>2. LimitTypeOK'
  <2>1. admitted' \in [Key -> Nat]
    BY <1>1 DEF IInv, LimitTypeOK
  <2>. QED BY <2>1, <1>1 DEF IInv, LimitTypeOK, LeadTypeOK, MaxCount
<1>3. LeadTypeOK'
  <2>1. \A t \in Session : ReqOK(t)'
    BY <1>1 DEF IInv, LeadTypeOK, ReqOK
  <2>. QED BY <2>1, <1>1 DEF IInv, LeadTypeOK, Label
<1>4. TaskTypeOK' /\ AnnouncedAreCommitted'
  BY <1>1 DEF IInv, TaskTypeOK, AnnouncedAreCommitted
<1>5. SlotsOK'
  <2>1. SUFFICES ASSUME NEW k \in Key
        PROVE  /\ admitted'[k] + Cardinality(Pending(k)') <= counter[k]
               /\ admitted'[k] + Cardinality(Pending(k)') <= Limit
    BY <1>1 DEF SlotsOK
  <2>2. /\ IsFiniteSet(Pending(k)) /\ Cardinality(Pending(k)) \in Nat
        /\ admitted[k] + Cardinality(Pending(k)) <= counter[k]
        /\ admitted[k] + Cardinality(Pending(k)) <= Limit
        /\ admitted[k] \in Nat /\ counter[k] \in Nat /\ Limit \in Nat
    BY PendingFinite, LeadsAssumption DEF IInv, SlotsOK, LimitTypeOK, MaxCount
  <2>3. Pending(k)' = Pending(k) \ {s}
    BY <1>1 DEF Pending
  <2>4. CASE s \in Pending(k)
    <3>1. s \in current /\ k = req[s].key
      BY <2>4 DEF Pending
    <3>2. admitted'[k] = admitted[k] + 1
      BY <3>1, <1>1 DEF IInv, LimitTypeOK
    <3>3. Cardinality(Pending(k)') = Cardinality(Pending(k)) - 1
      BY <2>2, <2>3, <2>4, FS_RemoveElement
    <3>. QED BY <3>2, <3>3, <2>2
  <2>5. CASE s \notin Pending(k)
    <3>1. admitted'[k] = admitted[k]
      BY <2>5, <1>1 DEF Pending, IInv, LimitTypeOK
    <3>2. Pending(k)' = Pending(k)
      BY <2>3, <2>5
    <3>. QED BY <3>1, <3>2, <2>2
  <2>. QED BY <2>4, <2>5
<1>. QED BY <1>2, <1>3, <1>4, <1>5 DEF IInv

LEMMA ExpireIInv ==
    ASSUME IInv, NEW k \in Key, Drop(k) PROVE IInv'
<1>1. /\ counter' = [counter EXCEPT ![k] = 0] /\ ttl' = ttl \ {k}
      /\ current' = {s \in current : req[s].key # k}
      /\ admitted' = [admitted EXCEPT ![k] = 0]
      /\ UNCHANGED <<pc, req, leads, lastLead, queue, selected, inbox, lost, active>>
  BY DEF Drop, leadVars, taskVars, userVars
<1>2. LimitTypeOK'
  <2>1. MaxCount \in Nat
    BY LeadsAssumption DEF MaxCount
  <2>2. counter' \in [Key -> 0..MaxCount] /\ admitted' \in [Key -> Nat]
    BY <1>1, <2>1 DEF IInv, LimitTypeOK
  <2>3. \A j \in ttl' : counter'[j] > 0
    BY <1>1 DEF IInv, LimitTypeOK
  <2>. QED BY <1>1, <2>2, <2>3 DEF IInv, LimitTypeOK, MaxCount
<1>3. LeadTypeOK'
  BY <1>1 DEF IInv, LeadTypeOK, ReqOK
<1>4. TaskTypeOK' /\ AnnouncedAreCommitted'
  BY <1>1 DEF IInv, TaskTypeOK, AnnouncedAreCommitted
<1>5. SlotsOK'
  <2>1. SUFFICES ASSUME NEW j \in Key
        PROVE  /\ admitted'[j] + Cardinality(Pending(j)') <= counter'[j]
               /\ admitted'[j] + Cardinality(Pending(j)') <= Limit
    BY DEF SlotsOK
  <2>2. CASE j = k
    <3>1. Pending(j)' = {}
      BY <2>2, <1>1 DEF Pending
    <3>2. admitted'[j] = 0 /\ counter'[j] = 0
      BY <2>2, <1>1 DEF IInv, LimitTypeOK
    <3>. QED BY <3>1, <3>2, FS_EmptySet, LeadsAssumption
  <2>3. CASE j # k
    <3>1. Pending(j)' = Pending(j)
      BY <2>3, <1>1 DEF Pending
    <3>2. admitted'[j] = admitted[j] /\ counter'[j] = counter[j]
      BY <2>3, <1>1 DEF IInv, LimitTypeOK
    <3>. QED BY <3>1, <3>2 DEF IInv, SlotsOK
  <2>. QED BY <2>2, <2>3
<1>. QED BY <1>2, <1>3, <1>4, <1>5 DEF IInv

LEMMA RespondIInv ==
    ASSUME IInv, NEW s \in Session,
           \/ SetExpire(s) \/ Refuse(s) \/ RejectSell(s)
           \/ CreateLead(s) \/ CommitLead(s) \/ Answer(s) \/ CrashInRequest(s)
    PROVE  IInv'
<1>1. CASE SetExpire(s)
  <2>1. LimitTypeOK'
    BY <1>1 DEF SetExpire, Goto, IInv, LimitTypeOK, LeadTypeOK, ReqOK, MaxCount
  <2>2. LeadTypeOK'
    BY <1>1 DEF SetExpire, Goto, IInv, LeadTypeOK, ReqOK, leadVars, Label
  <2>3. TaskTypeOK' /\ AnnouncedAreCommitted'
    BY <1>1 DEF SetExpire, IInv, TaskTypeOK, AnnouncedAreCommitted, leadVars, taskVars, userVars
  <2>4. SlotsOK'
    BY <1>1, FewerPending DEF SetExpire, Pending
  <2>. QED BY <2>1, <2>2, <2>3, <2>4 DEF IInv
<1>2. CASE Refuse(s) \/ RejectSell(s)
  <2>1. LimitTypeOK' /\ LeadTypeOK' /\ SlotsOK'
    BY <1>2, EndIInv DEF Refuse, RejectSell, leadVars
  <2>2. TaskTypeOK' /\ AnnouncedAreCommitted'
    BY <1>2 DEF Refuse, RejectSell, IInv, TaskTypeOK, AnnouncedAreCommitted,
                leadVars, taskVars, userVars
  <2>. QED BY <2>1, <2>2 DEF IInv
<1>3. CASE CreateLead(s)
  <2>1. /\ lastLead' \in LeadId /\ lastLead' \in 0..MaxLead
        /\ pc[s] = "admitted" /\ req[s].key \in Key
    BY <1>3, LeadsAssumption DEF CreateLead, IInv, LeadTypeOK, ReqOK, LeadId
  <2>2. /\ req' = [req EXCEPT ![s].lead = lastLead']
        /\ pc' = [pc EXCEPT ![s] = "flushed"]
        /\ UNCHANGED <<limitVars, leads, taskVars, userVars>>
    BY <1>3 DEF CreateLead, Goto
  <2>3. LimitTypeOK'
    BY <2>1, <2>2 DEF IInv, LimitTypeOK, LeadTypeOK, limitVars, MaxCount
  <2>4. LeadTypeOK'
    <3>1. req' \in [Session -> Req]
      BY <2>1, <2>2 DEF IInv, LeadTypeOK, Req
    <3>2. \A t \in Session : ReqOK(t)'
      BY <2>1, <2>2 DEF IInv, LeadTypeOK, ReqOK, Req
    <3>. QED BY <3>1, <3>2, <2>1, <2>2 DEF IInv, LeadTypeOK, Label
  <2>5. TaskTypeOK' /\ AnnouncedAreCommitted'
    BY <2>2 DEF IInv, TaskTypeOK, AnnouncedAreCommitted, taskVars, userVars
  <2>6. ASSUME NEW k \in Key PROVE Pending(k)' \subseteq Pending(k)
    BY <2>1, <2>2 DEF Pending, limitVars, IInv, LimitTypeOK, LeadTypeOK
  <2>7. SlotsOK'
    BY <2>2, <2>6, FewerPending DEF limitVars
  <2>. QED BY <2>3, <2>4, <2>5, <2>7 DEF IInv
<1>4. CASE CommitLead(s)
  <2>1. /\ pc[s] = "flushed" /\ req[s].key \in Key /\ req[s].lead \in LeadId
        /\ leads' = [leads EXCEPT ![req[s].lead] = req[s].key]
        /\ pc' = [pc EXCEPT ![s] = "committed"]
        /\ UNCHANGED <<limitVars, req, lastLead, taskVars, active>>
    BY <1>4 DEF CommitLead, Goto, IInv, LeadTypeOK, ReqOK
  <2>2. /\ leads' \in [LeadId -> Key \cup {None}]
        /\ leads'[req[s].lead] # None
        /\ \A i \in LeadId : leads[i] # None => leads'[i] # None
    BY <2>1, LeadsAssumption DEF IInv, LeadTypeOK
  <2>3. LimitTypeOK'
    BY <2>1 DEF IInv, LimitTypeOK, LeadTypeOK, limitVars, MaxCount
  <2>4. LeadTypeOK'
    <3>1. \A t \in Session : ReqOK(t)'
      BY <2>1, <2>2 DEF IInv, LeadTypeOK, ReqOK
    <3>. QED BY <3>1, <2>1, <2>2 DEF IInv, LeadTypeOK, Label
  <2>5. TaskTypeOK' /\ AnnouncedAreCommitted'
    BY <2>1, <2>2 DEF IInv, TaskTypeOK, AnnouncedAreCommitted, taskVars
  <2>6. SlotsOK'
    BY <2>1, FewerPending DEF limitVars, Pending
  <2>. QED BY <2>3, <2>4, <2>5, <2>6 DEF IInv
<1>5. CASE Answer(s)
  <2>1. /\ pc[s] = "committed" /\ req[s].lead \in LeadId
        /\ leads[req[s].lead] # None
    BY <1>5 DEF Answer, IInv, LeadTypeOK, ReqOK
  <2>2. LimitTypeOK' /\ LeadTypeOK' /\ SlotsOK'
    BY <1>5, EndIInv DEF Answer, leadVars
  <2>3. TaskTypeOK' /\ AnnouncedAreCommitted'
    BY <1>5, <2>1 DEF Answer, IInv, TaskTypeOK, AnnouncedAreCommitted, leadVars, userVars
  <2>. QED BY <2>2, <2>3 DEF IInv
<1>6. CASE CrashInRequest(s)
  <2>1. LimitTypeOK' /\ LeadTypeOK' /\ SlotsOK'
    BY <1>6, EndIInv DEF CrashInRequest, leadVars
  <2>2. TaskTypeOK' /\ AnnouncedAreCommitted'
    BY <1>6 DEF CrashInRequest, IInv, TaskTypeOK, AnnouncedAreCommitted,
                LeadTypeOK, ReqOK, leadVars, userVars
  <2>. QED BY <2>1, <2>2 DEF IInv
<1>. QED BY <1>1, <1>2, <1>3, <1>4, <1>5, <1>6

(* The task and the users touch neither the limit nor the requests.        *)
LEMMA TaskIInv ==
    ASSUME IInv,
           \/ \E i \in LeadId : Notify(i) \/ CrashInTask(i)
           \/ \E u \in User : ToggleUser(u)
    PROVE  IInv'
<1>1. /\ UNCHANGED <<limitVars, pc, req, leadVars>>
      /\ TaskTypeOK' /\ AnnouncedAreCommitted'
  <2>1. ASSUME NEW i \in LeadId, SelectStaff(i)
        PROVE  /\ UNCHANGED <<limitVars, pc, req, leadVars>>
               /\ TaskTypeOK' /\ AnnouncedAreCommitted'
    <3>1. Staff \subseteq User
      BY DEF Staff, IInv, TaskTypeOK
    <3>2. /\ i \in queue /\ queue' = queue \ {i}
          /\ selected' = [selected EXCEPT ![i] = Staff]
          /\ UNCHANGED <<limitVars, pc, req, leadVars, inbox, lost, active>>
      BY <2>1 DEF SelectStaff, userVars
    <3>3. TaskTypeOK'
      BY <3>1, <3>2 DEF IInv, TaskTypeOK
    <3>4. \A j \in LeadId : selected'[j] # None => selected[j] # None \/ j = i
      BY <3>2 DEF IInv, TaskTypeOK
    <3>5. AnnouncedAreCommitted'
      BY <3>2, <3>4 DEF IInv, AnnouncedAreCommitted, leadVars
    <3>. QED BY <3>2, <3>3, <3>5
  <2>2. ASSUME NEW i \in LeadId, CommitNotifications(i)
        PROVE  /\ UNCHANGED <<limitVars, pc, req, leadVars>>
               /\ TaskTypeOK' /\ AnnouncedAreCommitted'
    <3>1. inbox' \in [User -> SUBSET LeadId]
      BY <2>2 DEF CommitNotifications, IInv, TaskTypeOK
    <3>2. /\ selected[i] # None /\ selected' = [selected EXCEPT ![i] = None]
          /\ UNCHANGED <<limitVars, pc, req, leadVars, queue, lost, active>>
      BY <2>2 DEF CommitNotifications, userVars
    <3>3. TaskTypeOK'
      BY <3>1, <3>2 DEF IInv, TaskTypeOK
    <3>4. /\ \A j \in LeadId : selected'[j] # None => selected[j] # None
          /\ \A j \in LeadId, u \in User : j \in inbox'[u] => j \in inbox[u] \/ j = i
      BY <2>2 DEF CommitNotifications, IInv, TaskTypeOK
    <3>5. AnnouncedAreCommitted'
      BY <3>2, <3>4 DEF IInv, AnnouncedAreCommitted, leadVars
    <3>. QED BY <3>2, <3>3, <3>5
  <2>3. ASSUME NEW i \in LeadId, CrashInTask(i)
        PROVE  /\ UNCHANGED <<limitVars, pc, req, leadVars>>
               /\ TaskTypeOK' /\ AnnouncedAreCommitted'
    <3>1. /\ selected' = [selected EXCEPT ![i] = None] /\ lost' = lost \cup {i}
          /\ UNCHANGED <<limitVars, pc, req, leadVars, queue, inbox, active>>
      BY <2>3 DEF CrashInTask, userVars
    <3>2. TaskTypeOK'
      BY <3>1 DEF IInv, TaskTypeOK
    <3>3. \A j \in LeadId : selected'[j] # None => selected[j] # None
      BY <3>1 DEF IInv, TaskTypeOK
    <3>4. AnnouncedAreCommitted'
      BY <3>1, <3>3 DEF IInv, AnnouncedAreCommitted, leadVars
    <3>. QED BY <3>1, <3>2, <3>4
  <2>4. ASSUME NEW u \in User, ToggleUser(u)
        PROVE  /\ UNCHANGED <<limitVars, pc, req, leadVars>>
               /\ TaskTypeOK' /\ AnnouncedAreCommitted'
    BY <2>4 DEF ToggleUser, IInv, TaskTypeOK, AnnouncedAreCommitted, leadVars, taskVars
  <2>. QED BY <2>1, <2>2, <2>3, <2>4 DEF Notify
<1>2. LimitTypeOK' /\ LeadTypeOK'
  BY <1>1 DEF IInv, LimitTypeOK, LeadTypeOK, ReqOK, limitVars, leadVars, MaxCount
<1>3. SlotsOK'
  BY <1>1, FewerPending DEF limitVars, Pending
<1>. QED BY <1>1, <1>2, <1>3 DEF IInv

LEMMA StutterIInv == ASSUME IInv, UNCHANGED vars PROVE IInv'
<1>1. LimitTypeOK' /\ LeadTypeOK'
  BY DEF vars, IInv, LimitTypeOK, LeadTypeOK, ReqOK, limitVars, leadVars, MaxCount
<1>2. TaskTypeOK' /\ AnnouncedAreCommitted'
  BY DEF vars, IInv, TaskTypeOK, AnnouncedAreCommitted, leadVars, taskVars, userVars
<1>3. SlotsOK'
  BY FewerPending DEF vars, limitVars, Pending
<1>. QED BY <1>1, <1>2, <1>3 DEF IInv

LEMMA InitIInv == Init => IInv
<1>. SUFFICES ASSUME Init PROVE IInv
  OBVIOUS
<1>1. LimitTypeOK
  BY LeadsAssumption DEF Init, LimitTypeOK, MaxCount
<1>2. LeadTypeOK
  BY LeadsAssumption DEF Init, LeadTypeOK, ReqOK, Label, Req, NoReq
<1>3. TaskTypeOK /\ AnnouncedAreCommitted
  BY DEF Init, TaskTypeOK, AnnouncedAreCommitted
<1>4. SlotsOK
  <2>1. ASSUME NEW k \in Key PROVE Pending(k) = {}
    BY DEF Init, Pending
  <2>2. Cardinality({}) = 0
    BY FS_EmptySet
  <2>3. \A k \in Key : /\ admitted[k] + Cardinality(Pending(k)) <= counter[k]
                       /\ admitted[k] + Cardinality(Pending(k)) <= Limit
    <3>. SUFFICES ASSUME NEW k \in Key
         PROVE  /\ admitted[k] + Cardinality(Pending(k)) <= counter[k]
                /\ admitted[k] + Cardinality(Pending(k)) <= Limit
      OBVIOUS
    <3>1. admitted[k] = 0 /\ counter[k] = 0
      BY DEF Init
    <3>2. Cardinality(Pending(k)) = 0
      BY <2>1, <2>2
    <3>. QED BY <3>1, <3>2, LeadsAssumption
  <2>. QED BY <2>3 DEF SlotsOK
<1>. QED BY <1>1, <1>2, <1>3, <1>4 DEF IInv

LEMMA NextIInv == IInv /\ [Next]_vars => IInv'
<1>. SUFFICES ASSUME IInv, [Next]_vars PROVE IInv'
  OBVIOUS
<1>1. ASSUME NEW s \in Session, Respond(s) \/ CrashInRequest(s) PROVE IInv'
  BY <1>1, RespondIInv, AdmitIInv DEF Respond
<1>2. ASSUME NEW s \in Session, NEW k \in Key, Count(s, k) PROVE IInv'
  BY <1>2, CountIInv
<1>3. CASE \/ \E i \in LeadId : Notify(i) \/ CrashInTask(i)
           \/ \E u \in User : ToggleUser(u)
  BY <1>3, TaskIInv
<1>4. ASSUME NEW k \in Key, ExpireCounter(k) \/ EvictCounter(k) PROVE IInv'
  BY <1>4, ExpireIInv DEF ExpireCounter, EvictCounter
<1>5. CASE UNCHANGED vars
  BY <1>5, StutterIInv
<1>. QED BY <1>1, <1>2, <1>3, <1>4, <1>5 DEF Next

LEMMA SpecIInv == Spec => []IInv
BY InitIInv, NextIInv, PTL DEF Spec

-----------------------------------------------------------------------------

(* Type correctness, with what a request holds at each place (leads.py).   *)
THEOREM SpecLeadsTypeOK == Spec => []LeadsTypeOK
<1>1. IInv => LeadsTypeOK
  <2>. SUFFICES ASSUME IInv PROVE LeadsTypeOK
    OBVIOUS
  <2>1. ASSUME NEW s \in Session PROVE (pc[s] = "idle") <=> (req[s] = NoReq)
    BY LeadsAssumption DEF IInv, LeadTypeOK, ReqOK, NoReq
  <2>2. \A s \in Session : (pc[s] = "idle") = (req[s] = NoReq)
    BY <2>1
  <2>3. \A i \in LeadId : selected[i] = None \/ selected[i] \subseteq User
    BY DEF IInv, TaskTypeOK
  <2>. QED BY <2>2, <2>3 DEF IInv, LimitTypeOK, LeadTypeOK, TaskTypeOK, LeadsTypeOK
<1>. QED BY <1>1, SpecIInv, PTL

(* The rate limit (leads.py:23-31): in one window no more than Limit       *)
(* requests pass, however many overlap or die.                             *)
THEOREM SpecWithinLimit == Spec => []WithinLimit
<1>1. IInv => WithinLimit
  <2>. SUFFICES ASSUME IInv, NEW k \in Key PROVE admitted[k] <= Limit
    BY DEF WithinLimit
  <2>1. Cardinality(Pending(k)) \in Nat
    BY PendingFinite DEF IInv
  <2>. QED BY <2>1, LeadsAssumption DEF IInv, SlotsOK, LimitTypeOK
<1>. QED BY <1>1, SpecIInv, PTL

(* A lead is announced only once it is committed (leads.py:48-53, 85-90),  *)
(* crashes included.                                                       *)
THEOREM SpecAnnounced == Spec => []AnnouncedAreCommitted
<1>1. IInv => AnnouncedAreCommitted
  BY DEF IInv
<1>. QED BY <1>1, SpecIInv, PTL

-----------------------------------------------------------------------------

Untold(i) == \A u \in User : i \notin inbox[u]
HasLead(s) == pc[s] \in {"flushed", "committed"}

(* A lead is flushed by one request, committed once, queued once, read by  *)
(* one task, and told once.                                                *)
LeadIdsOK ==
    /\ \A i \in LeadId : i > lastLead => leads[i] = None
    /\ \A s \in Session : HasLead(s) => req[s].lead <= lastLead
    /\ \A s \in Session : pc[s] = "flushed" => leads[req[s].lead] = None
    /\ \A s, t \in Session : HasLead(s) /\ HasLead(t) /\ s # t
                                => req[s].lead # req[t].lead

TasksOK ==
    /\ \A s \in Session : pc[s] = "committed" =>
          /\ req[s].lead \notin queue /\ selected[req[s].lead] = None
          /\ Untold(req[s].lead)
    /\ \A i \in queue : selected[i] = None /\ Untold(i)
    /\ \A i \in LeadId : selected[i] # None => Untold(i)

(* Who has been on the staff since the commit is on it, and is among those *)
(* that a running task has read.                                           *)
SteadyOK ==
    /\ steady \in [LeadId -> SUBSET User]
    /\ \A i \in LeadId : steady[i] \subseteq Staff
    /\ \A i \in LeadId : selected[i] # None => steady[i] \subseteq selected[i]

OnceInv == IInv /\ LeadIdsOK /\ TasksOK /\ SteadyOK

-----------------------------------------------------------------------------

LEMMA InitOnce == Init => OnceInv
<1>. SUFFICES ASSUME Init PROVE OnceInv
  OBVIOUS
<1>1. IInv
  BY InitIInv
<1>2. LeadIdsOK /\ TasksOK
  BY DEF Init, LeadIdsOK, TasksOK, HasLead, Untold
<1>3. SteadyOK
  BY DEF Init, SteadyOK
<1>. QED BY <1>1, <1>2, <1>3 DEF OnceInv

(* Steps that leave the leads, the tasks and the users alone, and give no  *)
(* request a lead.                                                         *)
LEMMA QuietOnce ==
    ASSUME OnceInv, IInv', UNCHANGED <<leads, lastLead, taskVars, userVars>>,
           \A s \in Session : HasLead(s)' => pc'[s] = pc[s] /\ req'[s] = req[s]
    PROVE  OnceInv'
<1>1. LeadIdsOK'
  BY DEF OnceInv, LeadIdsOK, HasLead
<1>2. TasksOK'
  BY DEF OnceInv, TasksOK, HasLead, Untold, taskVars
<1>3. SteadyOK'
  BY DEF OnceInv, SteadyOK, Staff, taskVars, userVars
<1>. QED BY <1>1, <1>2, <1>3 DEF OnceInv

LEMMA LimitOnce ==
    ASSUME OnceInv, IInv', NEW s \in Session,
           \/ SetExpire(s) \/ Admit(s) \/ Refuse(s) \/ RejectSell(s)
           \/ \E k \in Key : Count(s, k)
    PROVE  OnceInv'
<1>1. pc \in [Session -> Label] /\ req \in [Session -> Req]
  BY DEF OnceInv, IInv, LeadTypeOK
<1>2. /\ UNCHANGED <<leads, lastLead, taskVars, userVars>>
      /\ \A t \in Session : HasLead(t)' => pc'[t] = pc[t] /\ req'[t] = req[t]
  BY <1>1 DEF SetExpire, Admit, Refuse, RejectSell, Count, End, Goto, HasLead,
              leadVars, Label
<1>. QED BY <1>2, QuietOnce

LEMMA WindowOnce ==
    ASSUME OnceInv, IInv', NEW k \in Key, Drop(k) PROVE OnceInv'
BY QuietOnce DEF Drop, leadVars, HasLead

LEMMA CreateOnce ==
    ASSUME OnceInv, IInv', NEW s \in Session, CreateLead(s) PROVE OnceInv'
<1>1. /\ pc[s] = "admitted" /\ lastLead' = lastLead + 1
      /\ lastLead' \in LeadId /\ lastLead \in Nat
      /\ req' = [req EXCEPT ![s].lead = lastLead']
      /\ pc' = [pc EXCEPT ![s] = "flushed"]
      /\ UNCHANGED <<leads, taskVars, userVars>>
      /\ pc \in [Session -> Label] /\ req \in [Session -> Req]
  BY LeadsAssumption DEF CreateLead, Goto, OnceInv, IInv, LeadTypeOK, LeadId
<1>2. /\ pc'[s] = "flushed" /\ req'[s].lead = lastLead + 1
      /\ \A t \in Session \ {s} : pc'[t] = pc[t] /\ req'[t] = req[t]
  BY <1>1 DEF Req
<1>3. /\ \A t \in Session : HasLead(t) => req[t].lead <= lastLead
      /\ \A t \in Session : HasLead(t) => req[t].lead \in LeadId
      /\ leads[lastLead + 1] = None
  BY <1>1 DEF OnceInv, LeadIdsOK, HasLead, IInv, LeadTypeOK, ReqOK, LeadId
<1>4. LeadIdsOK'
  <2>1. \A i \in LeadId : i > lastLead' => leads'[i] = None
    BY <1>1 DEF OnceInv, LeadIdsOK, LeadId
  <2>2. \A t \in Session : HasLead(t)' => req'[t].lead <= lastLead'
    BY <1>1, <1>2, <1>3 DEF HasLead, LeadId
  <2>3. \A t \in Session : pc'[t] = "flushed" => leads'[req'[t].lead] = None
    BY <1>1, <1>2, <1>3 DEF OnceInv, LeadIdsOK
  <2>4. \A t, u \in Session : HasLead(t)' /\ HasLead(u)' /\ t # u
                                 => req'[t].lead # req'[u].lead
    BY <1>1, <1>2, <1>3 DEF OnceInv, LeadIdsOK, HasLead, LeadId
  <2>. QED BY <2>1, <2>2, <2>3, <2>4 DEF LeadIdsOK
<1>5. TasksOK'
  BY <1>1, <1>2 DEF OnceInv, TasksOK, Untold, taskVars
<1>6. SteadyOK'
  BY <1>1 DEF OnceInv, SteadyOK, Staff, taskVars, userVars
<1>. QED BY <1>4, <1>5, <1>6 DEF OnceInv

LEMMA CommitOnce ==
    ASSUME OnceInv, IInv', NEW s \in Session, CommitLead(s) PROVE OnceInv'
<1> DEFINE i == req[s].lead
<1>1. /\ pc[s] = "flushed" /\ i \in LeadId /\ req[s].key \in Key
      /\ leads' = [leads EXCEPT ![i] = req[s].key]
      /\ steady' = [steady EXCEPT ![i] = Staff]
      /\ pc' = [pc EXCEPT ![s] = "committed"]
      /\ UNCHANGED <<req, lastLead, taskVars, active>>
      /\ pc \in [Session -> Label] /\ leads \in [LeadId -> Key \cup {None}]
  BY DEF CommitLead, Goto, OnceInv, IInv, LeadTypeOK, ReqOK
<1>2. leads[i] = None /\ i <= lastLead
  BY <1>1 DEF OnceInv, LeadIdsOK, HasLead
<1>3. i \notin queue /\ selected[i] = None /\ Untold(i)
  BY <1>1, <1>2 DEF OnceInv, IInv, AnnouncedAreCommitted, Untold
<1>4. \A t \in Session : HasLead(t)' <=> HasLead(t)
  BY <1>1 DEF HasLead
<1>. HIDE DEF i
<1>5. LeadIdsOK'
  <2>1. \A j \in LeadId : j > lastLead' => leads'[j] = None
    BY <1>1, <1>2 DEF OnceInv, LeadIdsOK, LeadId, IInv, LeadTypeOK
  <2>2. \A t \in Session : HasLead(t)' => req'[t].lead <= lastLead'
    BY <1>1, <1>4 DEF OnceInv, LeadIdsOK
  <2>3. ASSUME NEW t \in Session, pc'[t] = "flushed"
        PROVE  leads'[req'[t].lead] = None
    <3>1. t # s /\ pc[t] = "flushed"
      BY <1>1, <2>3
    <3>2. req[t].lead # i /\ leads[req[t].lead] = None
      BY <1>1, <3>1 DEF OnceInv, LeadIdsOK, HasLead, i
    <3>. QED BY <1>1, <3>2
  <2>4. \A t, u \in Session : HasLead(t)' /\ HasLead(u)' /\ t # u
                                 => req'[t].lead # req'[u].lead
    BY <1>1, <1>4 DEF OnceInv, LeadIdsOK
  <2>. QED BY <2>1, <2>2, <2>3, <2>4 DEF LeadIdsOK
<1>6. TasksOK'
  <2>1. \A t \in Session : pc'[t] = "committed" => t = s \/ pc[t] = "committed"
    BY <1>1
  <2>2. UNCHANGED <<req, queue, selected, inbox>>
    BY <1>1 DEF taskVars
  <2>3. ASSUME NEW t \in Session, pc'[t] = "committed"
        PROVE  req[t].lead \notin queue /\ selected[req[t].lead] = None /\ Untold(req[t].lead)
    <3>1. CASE t = s
      BY <1>3, <3>1 DEF i
    <3>2. CASE pc[t] = "committed"
      BY <3>2 DEF OnceInv, TasksOK
    <3>. QED BY <2>1, <2>3, <3>1, <3>2
  <2>. QED BY <2>2, <2>3 DEF OnceInv, TasksOK, Untold
<1>7. SteadyOK'
  <2>1. Staff \subseteq User
    BY DEF OnceInv, IInv, TaskTypeOK, Staff
  <2>. QED BY <1>1, <1>3, <2>1 DEF OnceInv, SteadyOK, Staff, taskVars
<1>. QED BY <1>5, <1>6, <1>7 DEF OnceInv

LEMMA AnswerOnce ==
    ASSUME OnceInv, IInv', NEW s \in Session, Answer(s) PROVE OnceInv'
<1> DEFINE i == req[s].lead
<1>1. /\ pc[s] = "committed" /\ i \in LeadId
      /\ queue' = queue \cup {i}
      /\ pc' = [pc EXCEPT ![s] = "idle"] /\ req' = [req EXCEPT ![s] = NoReq]
      /\ UNCHANGED <<leads, lastLead, selected, inbox, userVars>>
      /\ pc \in [Session -> Label] /\ req \in [Session -> Req]
  BY DEF Answer, End, Goto, leadVars, OnceInv, IInv, LeadTypeOK, ReqOK
<1>2. /\ ~HasLead(s)'
      /\ \A t \in Session \ {s} : pc'[t] = pc[t] /\ req'[t] = req[t]
  BY <1>1 DEF HasLead
<1>3. selected[i] = None /\ Untold(i)
  BY <1>1 DEF OnceInv, TasksOK
<1>4. \A t \in Session \ {s} : pc[t] = "committed" => req[t].lead # i
  BY <1>1 DEF OnceInv, LeadIdsOK, HasLead
<1>. HIDE DEF i
<1>5. LeadIdsOK'
  BY <1>1, <1>2 DEF OnceInv, LeadIdsOK, HasLead
<1>6. TasksOK'
  <2>1. \A t \in Session : pc'[t] = "committed" => t # s /\ pc[t] = "committed"
    BY <1>1
  <2>. QED BY <1>1, <1>2, <1>3, <1>4, <2>1 DEF OnceInv, TasksOK, Untold
<1>7. SteadyOK'
  BY <1>1 DEF OnceInv, SteadyOK, Staff, userVars
<1>. QED BY <1>5, <1>6, <1>7 DEF OnceInv

LEMMA CrashOnce ==
    ASSUME OnceInv, IInv', NEW s \in Session, CrashInRequest(s) PROVE OnceInv'
<1>1. /\ pc' = [pc EXCEPT ![s] = "idle"] /\ req' = [req EXCEPT ![s] = NoReq]
      /\ UNCHANGED <<leads, lastLead, queue, selected, inbox, userVars>>
      /\ pc \in [Session -> Label] /\ req \in [Session -> Req]
  BY DEF CrashInRequest, End, Goto, leadVars, OnceInv, IInv, LeadTypeOK
<1>2. \A t \in Session : HasLead(t)' =>
         t # s /\ pc'[t] = pc[t] /\ req'[t] = req[t]
  BY <1>1 DEF HasLead
<1>3. LeadIdsOK'
  BY <1>1, <1>2 DEF OnceInv, LeadIdsOK, HasLead
<1>4. TasksOK'
  BY <1>1, <1>2 DEF OnceInv, TasksOK, HasLead, Untold
<1>5. SteadyOK'
  BY <1>1 DEF OnceInv, SteadyOK, Staff, userVars
<1>. QED BY <1>3, <1>4, <1>5 DEF OnceInv

LEMMA TaskOnce ==
    ASSUME OnceInv, IInv', NEW i \in LeadId, Notify(i) \/ CrashInTask(i)
    PROVE  OnceInv'
<1>1. /\ UNCHANGED <<pc, req, leads, lastLead, userVars>>
      /\ selected \in [LeadId -> (SUBSET User) \cup {None}]
      /\ inbox \in [User -> SUBSET LeadId]
      /\ \A s \in Session : pc[s] = "committed" => req[s].lead \in LeadId
      /\ queue \subseteq LeadId
  BY DEF Notify, SelectStaff, CommitNotifications, CrashInTask, leadVars, userVars,
         OnceInv, IInv, TaskTypeOK, LeadTypeOK, ReqOK
<1>2. LeadIdsOK'
  BY <1>1 DEF OnceInv, LeadIdsOK, HasLead
<1>3. CASE SelectStaff(i)
  <2>1. /\ i \in queue /\ queue' = queue \ {i}
        /\ selected' = [selected EXCEPT ![i] = Staff] /\ inbox' = inbox
    BY <1>3 DEF SelectStaff
  <2>2. \A s \in Session : pc[s] = "committed" => req[s].lead # i
    BY <2>1 DEF OnceInv, TasksOK
  <2>3. TasksOK'
    BY <1>1, <2>1, <2>2 DEF OnceInv, TasksOK, Untold
  <2>4. SteadyOK'
    BY <1>1, <2>1 DEF OnceInv, SteadyOK, Staff, userVars
  <2>. QED BY <1>2, <2>3, <2>4 DEF OnceInv
<1>4. CASE CommitNotifications(i)
  <2>1. /\ selected[i] # None /\ selected' = [selected EXCEPT ![i] = None]
        /\ queue' = queue
        /\ \A u \in User, j \in LeadId : j # i /\ j \in inbox'[u] => j \in inbox[u]
    BY <1>1, <1>4 DEF CommitNotifications
  <2>2. i \notin queue /\ \A s \in Session : pc[s] = "committed" => req[s].lead # i
    BY <2>1 DEF OnceInv, TasksOK
  <2>3. TasksOK'
    <3>0. \A j \in LeadId : j # i => selected'[j] = selected[j] /\ (Untold(j) => Untold(j)')
      BY <1>1, <2>1 DEF Untold
    <3>1. \A s \in Session : pc'[s] = "committed" =>
             /\ req'[s].lead \notin queue' /\ selected'[req'[s].lead] = None
             /\ Untold(req[s].lead)'
      BY <1>1, <2>1, <2>2, <3>0 DEF OnceInv, TasksOK
    <3>2. \A j \in queue' : selected'[j] = None /\ Untold(j)'
      BY <1>1, <2>1, <2>2, <3>0 DEF OnceInv, TasksOK
    <3>3. \A j \in LeadId : selected'[j] # None => Untold(j)'
      BY <1>1, <2>1, <3>0 DEF OnceInv, TasksOK
    <3>. QED BY <3>1, <3>2, <3>3 DEF TasksOK
  <2>4. SteadyOK'
    BY <1>1, <2>1 DEF OnceInv, SteadyOK, Staff, userVars
  <2>. QED BY <1>2, <2>3, <2>4 DEF OnceInv
<1>5. CASE CrashInTask(i)
  <2>1. selected' = [selected EXCEPT ![i] = None] /\ UNCHANGED <<queue, inbox>>
    BY <1>5 DEF CrashInTask
  <2>2. TasksOK'
    BY <1>1, <2>1 DEF OnceInv, TasksOK, Untold
  <2>3. SteadyOK'
    BY <1>1, <2>1 DEF OnceInv, SteadyOK, Staff, userVars
  <2>. QED BY <1>2, <2>2, <2>3 DEF OnceInv
<1>. QED BY <1>3, <1>4, <1>5 DEF Notify

LEMMA ToggleOnce ==
    ASSUME OnceInv, IInv', NEW u \in User, ToggleUser(u) PROVE OnceInv'
<1>1. /\ UNCHANGED <<pc, req, leads, lastLead, taskVars>>
      /\ active \ {u} \subseteq active'
      /\ steady' = [i \in LeadId |-> steady[i] \ {u}]
  BY DEF ToggleUser, leadVars
<1>2. LeadIdsOK' /\ TasksOK'
  BY <1>1 DEF OnceInv, LeadIdsOK, TasksOK, HasLead, Untold, taskVars
<1>3. SteadyOK'
  BY <1>1 DEF OnceInv, SteadyOK, Staff, taskVars
<1>. QED BY <1>2, <1>3 DEF OnceInv

LEMMA NextOnce == OnceInv /\ [Next]_vars => OnceInv'
<1>. SUFFICES ASSUME OnceInv, [Next]_vars PROVE OnceInv'
  OBVIOUS
<1>1. IInv'
  BY NextIInv DEF OnceInv
<1>2. ASSUME NEW s \in Session, Respond(s) \/ CrashInRequest(s) PROVE OnceInv'
  BY <1>1, <1>2, LimitOnce, CreateOnce, CommitOnce, AnswerOnce, CrashOnce DEF Respond
<1>3. ASSUME NEW s \in Session, NEW k \in Key, Count(s, k) PROVE OnceInv'
  BY <1>1, <1>3, LimitOnce
<1>4. ASSUME NEW i \in LeadId, Notify(i) \/ CrashInTask(i) PROVE OnceInv'
  BY <1>1, <1>4, TaskOnce
<1>5. ASSUME NEW k \in Key, ExpireCounter(k) \/ EvictCounter(k) PROVE OnceInv'
  BY <1>1, <1>5, WindowOnce DEF ExpireCounter, EvictCounter
<1>6. ASSUME NEW u \in User, ToggleUser(u) PROVE OnceInv'
  BY <1>1, <1>6, ToggleOnce
<1>7. CASE UNCHANGED vars
  BY <1>1, <1>7, QuietOnce DEF vars, leadVars, HasLead
<1>. QED BY <1>2, <1>3, <1>4, <1>5, <1>6, <1>7 DEF Next

LEMMA SpecOnce == Spec => []OnceInv
BY InitOnce, NextOnce, PTL DEF Spec

-----------------------------------------------------------------------------

(* When the task of a lead is over, whoever was staff from the commit on   *)
(* has a notification, or the task died (tasks.py:68-87).                  *)
THEOREM SpecStaffInformed == Spec => StaffInformed
<1> DEFINE Step == \A i \in LeadId :
          selected[i] # None /\ selected'[i] = None /\ i \notin lost'
            => \A u \in steady[i] : i \in inbox'[u]
<1>1. OnceInv /\ [Next]_vars => Step
  <2>. SUFFICES ASSUME OnceInv, [Next]_vars, NEW i \in LeadId,
                       selected[i] # None, selected'[i] = None, i \notin lost',
                       NEW u \in steady[i]
                PROVE  i \in inbox'[u]
    OBVIOUS
  <2>1. /\ u \in User /\ u \in selected[i]
        /\ selected \in [LeadId -> (SUBSET User) \cup {None}] /\ Staff \subseteq User
    BY DEF OnceInv, SteadyOK, IInv, TaskTypeOK, Staff
  <2>2. \E j \in LeadId : Notify(j) \/ CrashInTask(j)
    BY DEF Next, Respond, SetExpire, Admit, Refuse, RejectSell, CreateLead, CommitLead,
           Answer, CrashInRequest, Count, ExpireCounter, EvictCounter, Drop, ToggleUser, taskVars, vars
  <2>3. PICK j \in LeadId : Notify(j) \/ CrashInTask(j)
    BY <2>2
  <2>4. CASE SelectStaff(j)
    <3>1. selected[j] = None
      BY <2>4 DEF SelectStaff, OnceInv, TasksOK
    <3>. QED BY <2>1, <2>4, <3>1 DEF SelectStaff
  <2>5. CASE CommitNotifications(j)
    BY <2>1, <2>5 DEF CommitNotifications
  <2>6. CASE CrashInTask(j)
    BY <2>1, <2>6 DEF CrashInTask
  <2>. QED BY <2>3, <2>4, <2>5, <2>6 DEF Notify
<1>2. OnceInv /\ [Next]_vars => [Step]_vars
  BY <1>1
<1>. QED BY <1>2, SpecOnce, PTL DEF Spec, StaffInformed

-----------------------------------------------------------------------------
(* The refinement.                                                         *)

Used == [k \in Key |-> IF counter[k] <= Limit THEN counter[k] ELSE Limit]
Holder == [s \in Session |->
             IF pc[s] \in {"first", "counted", "admitted", "flushed"} /\ req[s].n <= Limit
             THEN req[s].key ELSE None]

(* Only requests that hold a place are let through.                        *)
PlaceOK == \A s \in Session : pc[s] \in {"admitted", "flushed"} => req[s].n <= Limit

PromiseInv == OnceInv /\ PlaceOK

LEMMA NextPlace == OnceInv /\ PlaceOK /\ [Next]_vars => PlaceOK'
<1>. SUFFICES ASSUME OnceInv, PlaceOK, [Next]_vars,
                     NEW s \in Session, pc'[s] \in {"admitted", "flushed"}
              PROVE  req'[s].n <= Limit
  BY DEF PlaceOK
<1>1. pc \in [Session -> Label] /\ req \in [Session -> Req]
  BY DEF OnceInv, IInv, LeadTypeOK
<1>2. CASE UNCHANGED <<pc, req>>
  BY <1>2 DEF PlaceOK
<1>3. ASSUME NEW t \in Session, Admit(t) PROVE req'[s].n <= Limit
  BY <1>1, <1>3 DEF Admit, Goto, PlaceOK
<1>4. ASSUME NEW t \in Session, CreateLead(t) PROVE req'[s].n <= Limit
  BY <1>1, <1>4 DEF CreateLead, Goto, PlaceOK, Req
<1>5. ASSUME NEW t \in Session,
             \/ SetExpire(t) \/ CommitLead(t) \/ Refuse(t) \/ RejectSell(t)
             \/ Answer(t) \/ CrashInRequest(t) \/ \E k \in Key : Count(t, k)
      PROVE  req'[s].n <= Limit
  <2>1. pc'[s] = pc[s] /\ req'[s] = req[s]
    BY <1>1, <1>5 DEF SetExpire, CommitLead, Refuse, RejectSell, Answer, CrashInRequest,
                      Count, End, Goto
  <2>. QED BY <2>1 DEF PlaceOK
<1>. QED BY <1>2, <1>3, <1>4, <1>5
         DEF Next, Respond, Notify, SelectStaff, CommitNotifications, CrashInTask,
             ExpireCounter, EvictCounter, Drop, ToggleUser, vars

(* A step that takes no place, adds no lead and tells nobody.              *)
LEMMA StutterPromise ==
    ASSUME Used' = Used, Holder' = Holder, UNCHANGED <<leads, inbox>>
    PROVE  UNCHANGED Promise!promiseVars
BY DEF Used, Holder, Promise!promiseVars

LEMMA CountPromise ==
    ASSUME PromiseInv, NEW s \in Session, NEW k \in Key, Count(s, k)
    PROVE  Promise!Grant(s, k) \/ UNCHANGED Promise!promiseVars
<1> DEFINE n == IF counter[k] < MaxCount THEN counter[k] + 1 ELSE counter[k]
<1>1. /\ pc \in [Session -> Label] /\ req \in [Session -> Req]
      /\ counter \in [Key -> 0..MaxCount] /\ Limit \in Nat /\ MaxCount = Limit + 1
  BY LeadsAssumption DEF PromiseInv, OnceInv, IInv, LeadTypeOK, LimitTypeOK, MaxCount
<1>2. /\ n \in 1..MaxCount
      /\ n <= Limit => n = counter[k] + 1 /\ counter[k] < Limit
      /\ n > Limit => counter[k] >= Limit
  BY <1>1
<1>3. /\ counter' = [counter EXCEPT ![k] = n]
      /\ req' = [req EXCEPT ![s] = [key |-> k, n |-> n, lead |-> None]]
      /\ pc' = [pc EXCEPT ![s] = IF n = 1 THEN "first" ELSE "counted"]
      /\ pc[s] = "idle" /\ UNCHANGED <<leads, inbox>>
  BY <1>1 DEF Count, Goto, leadVars, taskVars
<1>. HIDE DEF n
<1>4. /\ Holder[s] = None /\ Holder'[s] = IF n <= Limit THEN k ELSE None
      /\ \A t \in Session \ {s} : Holder'[t] = Holder[t]
  BY <1>1, <1>3 DEF Holder
<1>5. CASE n <= Limit
  <2>1. Used[k] < Limit /\ Used' = [Used EXCEPT ![k] = @ + 1]
    <3>1. counter[k] \in 0..Limit /\ n = counter[k] + 1 /\ counter[k] < Limit
      BY <1>1, <1>2, <1>5
    <3>2. counter'[k] = n /\ \A j \in Key \ {k} : counter'[j] = counter[j]
      BY <1>1, <1>3
    <3>3. Used[k] = counter[k] /\ Used'[k] = n
      BY <1>1, <1>5, <3>1, <3>2 DEF Used
    <3>4. \A j \in Key \ {k} : Used'[j] = Used[j]
      BY <3>2 DEF Used
    <3>5. \A j \in Key : Used'[j] = IF j = k THEN Used[j] + 1 ELSE Used[j]
      BY <3>1, <3>3, <3>4
    <3>. QED BY <3>1, <3>3, <3>5 DEF Used
  <2>2. Holder' = [Holder EXCEPT ![s] = k]
    BY <1>4, <1>5 DEF Holder
  <2>. QED BY <1>3, <1>4, <2>1, <2>2 DEF Promise!Grant, Used, Holder
<1>6. CASE ~ (n <= Limit)
  <2>1. Used' = Used
    <3>1. n > Limit /\ counter[k] >= Limit
      BY <1>1, <1>2, <1>6
    <3>2. counter'[k] = n /\ \A j \in Key \ {k} : counter'[j] = counter[j]
      BY <1>1, <1>3
    <3>3. Used[k] = Limit /\ Used'[k] = Limit
      BY <1>1, <1>2, <3>1, <3>2 DEF Used
    <3>4. \A j \in Key : Used'[j] = Used[j]
      BY <3>2, <3>3 DEF Used
    <3>. QED BY <3>4 DEF Used
  <2>2. Holder' = Holder
    BY <1>4, <1>6 DEF Holder
  <2>. QED BY <1>3, <2>1, <2>2, StutterPromise
<1>. QED BY <1>5, <1>6

(* A request that ends gives its place up, if it still has one.            *)
LEMMA EndPromise ==
    ASSUME PromiseInv, NEW s \in Session, pc[s] # "idle", End(s),
           UNCHANGED <<counter, leads, inbox>>
    PROVE  Promise!GiveUp(s)
<1>1. /\ pc \in [Session -> Label] /\ req \in [Session -> Req]
      /\ pc' = [pc EXCEPT ![s] = "idle"] /\ req' = [req EXCEPT ![s] = NoReq]
  BY DEF End, Goto, PromiseInv, OnceInv, IInv, LeadTypeOK
<1>2. Holder' = [Holder EXCEPT ![s] = None]
  BY <1>1 DEF Holder
<1>3. Used' = Used
  BY DEF Used
<1>. QED BY <1>2, <1>3 DEF Promise!GiveUp, Used, Holder

LEMMA RespondPromise ==
    ASSUME PromiseInv, NEW s \in Session,
           SetExpire(s) \/ Admit(s) \/ CreateLead(s)
    PROVE  UNCHANGED Promise!promiseVars
<1>1. /\ pc \in [Session -> Label] /\ req \in [Session -> Req]
  BY DEF PromiseInv, OnceInv, IInv, LeadTypeOK
<1>2. /\ UNCHANGED <<counter, leads, inbox>>
      /\ pc[s] \in {"first", "counted", "admitted"}
      /\ pc'[s] \in {"counted", "admitted", "flushed"}
      /\ \A t \in Session \ {s} : pc'[t] = pc[t]
  BY <1>1 DEF SetExpire, Admit, CreateLead, Goto, leadVars, taskVars, limitVars
<1>3. \A t \in Session : req'[t].n = req[t].n /\ req'[t].key = req[t].key
  BY <1>1 DEF SetExpire, Admit, CreateLead, Req
<1>4. Holder' = Holder
  BY <1>1, <1>2, <1>3 DEF Holder
<1>5. Used' = Used
  BY <1>2 DEF Used
<1>. QED BY <1>2, <1>4, <1>5, StutterPromise

LEMMA CommitPromise ==
    ASSUME PromiseInv, NEW s \in Session, CommitLead(s)
    PROVE  \E i \in LeadId : Promise!Accept(s, i)
<1>1. /\ pc \in [Session -> Label] /\ pc[s] = "flushed"
      /\ req[s].lead \in LeadId /\ req[s].key \in Key /\ req[s].n <= Limit
      /\ leads[req[s].lead] = None
  BY DEF CommitLead, PromiseInv, OnceInv, IInv, LeadTypeOK, ReqOK, PlaceOK, LeadIdsOK
<1>2. /\ leads' = [leads EXCEPT ![req[s].lead] = req[s].key]
      /\ pc' = [pc EXCEPT ![s] = "committed"]
      /\ UNCHANGED <<counter, req, inbox>>
  BY DEF CommitLead, Goto, limitVars, taskVars
<1>3. /\ Holder[s] = req[s].key /\ Holder[s] # None
      /\ Holder' = [Holder EXCEPT ![s] = None]
  BY <1>1, <1>2, LeadsAssumption DEF Holder
<1>4. Used' = Used
  BY <1>2 DEF Used
<1>. QED BY <1>1, <1>2, <1>3, <1>4 DEF Promise!Accept, Used, Holder

LEMMA WindowPromise ==
    ASSUME PromiseInv, NEW k \in Key, Drop(k) PROVE Promise!NewWindow(k)
<1>1. /\ counter' = [counter EXCEPT ![k] = 0] /\ UNCHANGED <<pc, req, leads, inbox>>
      /\ counter \in [Key -> 0..MaxCount] /\ Limit \in Nat
  BY LeadsAssumption DEF Drop, leadVars, taskVars,
                         PromiseInv, OnceInv, IInv, LimitTypeOK
<1>2. Used' = [Used EXCEPT ![k] = 0]
  <2>1. Used'[k] = 0
    BY <1>1 DEF Used
  <2>2. \A j \in Key \ {k} : Used'[j] = Used[j]
    BY <1>1 DEF Used
  <2>. QED BY <2>1, <2>2 DEF Used
<1>3. Holder' = Holder
  BY <1>1 DEF Holder
<1>. QED BY <1>1, <1>2, <1>3 DEF Promise!NewWindow, Used, Holder

LEMMA TaskPromise ==
    ASSUME PromiseInv, NEW i \in LeadId, Notify(i) \/ CrashInTask(i)
    PROVE  \/ \E staff \in SUBSET User : Promise!Tell(i, staff)
           \/ UNCHANGED Promise!promiseVars
<1>1. UNCHANGED <<counter, pc, req, leads>> /\ Used' = Used /\ Holder' = Holder
  BY DEF Notify, SelectStaff, CommitNotifications, CrashInTask, limitVars, leadVars,
         Used, Holder
<1>2. CASE SelectStaff(i) \/ CrashInTask(i)
  <2>1. inbox' = inbox
    BY <1>2 DEF SelectStaff, CrashInTask
  <2>. QED BY <1>1, <2>1, StutterPromise
<1>3. CASE CommitNotifications(i)
  <2>1. /\ selected[i] # None /\ selected[i] \in SUBSET User /\ Untold(i)
        /\ leads[i] # None
    BY <1>3 DEF CommitNotifications, PromiseInv, OnceInv, TasksOK, IInv, TaskTypeOK,
                AnnouncedAreCommitted
  <2>2. inbox' = [u \in User |-> IF u \in selected[i] THEN inbox[u] \cup {i} ELSE inbox[u]]
    BY <1>3 DEF CommitNotifications
  <2>3. Promise!Tell(i, selected[i])
    BY <1>1, <2>1, <2>2 DEF Promise!Tell, Untold, Used, Holder
  <2>. QED BY <2>1, <2>3
<1>. QED BY <1>2, <1>3 DEF Notify

(* Every step of Leads is a step of the promise, or leaves it alone.       *)
LEMMA NextPromise ==
    ASSUME PromiseInv, [Next]_vars PROVE [Promise!Next]_(Promise!promiseVars)
<1>1. ASSUME NEW s \in Session, Refuse(s) \/ RejectSell(s) \/ CrashInRequest(s) \/ Answer(s)
      PROVE  Promise!Next
  <2>1. pc[s] # "idle" /\ End(s) /\ UNCHANGED <<counter, leads, inbox>>
    BY <1>1 DEF Refuse, RejectSell, CrashInRequest, Answer, leadVars, taskVars
  <2>. QED BY <2>1, EndPromise DEF Promise!Next
<1>2. ASSUME NEW s \in Session, CommitLead(s) PROVE Promise!Next
  BY <1>2, CommitPromise DEF Promise!Next
<1>3. ASSUME NEW s \in Session, NEW k \in Key, Count(s, k)
      PROVE  [Promise!Next]_(Promise!promiseVars)
  BY <1>3, CountPromise DEF Promise!Next
<1>4. ASSUME NEW s \in Session, SetExpire(s) \/ Admit(s) \/ CreateLead(s)
      PROVE  UNCHANGED Promise!promiseVars
  BY <1>4, RespondPromise
<1>5. ASSUME NEW k \in Key, ExpireCounter(k) \/ EvictCounter(k) PROVE Promise!Next
  BY <1>5, WindowPromise DEF ExpireCounter, EvictCounter, Promise!Next
<1>6. ASSUME NEW i \in LeadId, Notify(i) \/ CrashInTask(i)
      PROVE  [Promise!Next]_(Promise!promiseVars)
  BY <1>6, TaskPromise DEF Promise!Next
<1>7. CASE UNCHANGED vars \/ \E u \in User : ToggleUser(u)
  <2>1. UNCHANGED <<counter, pc, req, leads, inbox>>
    BY <1>7 DEF vars, ToggleUser, limitVars, leadVars, taskVars
  <2>. QED BY <2>1, StutterPromise DEF Used, Holder
<1>. QED BY <1>1, <1>2, <1>3, <1>4, <1>5, <1>6, <1>7 DEF Next, Respond

LEMMA InitPromise == Init => Promise!Init /\ PlaceOK
<1>. SUFFICES ASSUME Init PROVE Promise!Init /\ PlaceOK
  OBVIOUS
<1>1. PlaceOK
  BY DEF Init, PlaceOK
<1>2. Promise!Init
  BY LeadsAssumption DEF Init, Promise!Init
<1>. QED BY <1>1, <1>2

(* Whatever overlaps, expires or dies: the leads come one for one from the *)
(* places of some window, and each is told at most once, after it exists   *)
(* (leads.py:23-53, tasks.py:64-91).                                       *)
THEOREM SpecKeepsPromise == Spec => KeepsPromise
<1>1. Init => PlaceOK /\ Promise!Init
  BY InitPromise
<1>2. OnceInv /\ PlaceOK /\ [Next]_vars => PlaceOK'
  BY NextPlace
<1>3. OnceInv /\ PlaceOK /\ [Next]_vars => [Promise!Next]_(Promise!promiseVars)
  BY NextPromise DEF PromiseInv
<1>. QED BY <1>1, <1>2, <1>3, SpecOnce, PTL DEF Spec, KeepsPromise, Promise!Spec
=============================================================================
