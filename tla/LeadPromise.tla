---------------------------- MODULE LeadPromise ----------------------------
(***************************************************************************)
(* What the public lead endpoints promise, without counters, TTLs, tasks   *)
(* or crashes: a window has Limit places; a request that gets one may turn *)
(* it into one lead, or give it up; a lead is announced after it exists    *)
(* and nobody hears of it twice.  Module Leads implements this.            *)
(***************************************************************************)
EXTENDS Naturals

CONSTANTS Key, Limit, LeadId, Session, User, None

VARIABLES
    used,     \* places taken in the present window of each key
    holder,   \* the place that each request holds, of this or an old window
    leads,    \* the leads there are, by their key
    informed  \* the leads that each user has been told of

promiseVars == <<used, holder, leads, informed>>

Init == /\ used = [k \in Key |-> 0]
        /\ holder = [s \in Session |-> None]
        /\ leads = [i \in LeadId |-> None]
        /\ informed = [u \in User |-> {}]

Grant(s, k) ==
    /\ holder[s] = None /\ used[k] < Limit
    /\ used' = [used EXCEPT ![k] = @ + 1]
    /\ holder' = [holder EXCEPT ![s] = k]
    /\ UNCHANGED <<leads, informed>>

GiveUp(s) ==
    /\ holder' = [holder EXCEPT ![s] = None]
    /\ UNCHANGED <<used, leads, informed>>

NewWindow(k) ==
    /\ used' = [used EXCEPT ![k] = 0]
    /\ UNCHANGED <<holder, leads, informed>>

Accept(s, i) ==
    /\ holder[s] # None /\ leads[i] = None
    /\ leads' = [leads EXCEPT ![i] = holder[s]]
    /\ holder' = [holder EXCEPT ![s] = None]
    /\ UNCHANGED <<used, informed>>

Tell(i, staff) ==
    /\ leads[i] # None /\ \A u \in User : i \notin informed[u]
    /\ informed' = [u \in User |-> IF u \in staff THEN informed[u] \cup {i}
                                                  ELSE informed[u]]
    /\ UNCHANGED <<used, holder, leads>>

Next == \/ \E s \in Session, k \in Key : Grant(s, k)
        \/ \E s \in Session : GiveUp(s)
        \/ \E k \in Key : NewWindow(k)
        \/ \E s \in Session, i \in LeadId : Accept(s, i)
        \/ \E i \in LeadId, staff \in SUBSET User : Tell(i, staff)

Spec == Init /\ [][Next]_promiseVars
=============================================================================
