--------------------------- MODULE AccountsProofs ---------------------------
(***************************************************************************)
(* The accounts of the panel for any users, sessions and bootstrap         *)
(* settings.  IInv adds to the types what the row that a session has       *)
(* loaded may still be trusted for.                                        *)
(***************************************************************************)
EXTENDS Accounts, TLAPS

(* The row of the admin who entered, and the one that he is to toggle, are *)
(* as they were loaded, unless somebody has switched them since.           *)
LoadedOK(s) ==
    /\ pc[s] = "entered" => users[req[s].me].active = TRUE \/ req[s].me \in switched[s]
    /\ pc[s] = "toggling" =>
          \/ users[req[s].target].active = req[s].value
          \/ req[s].target \in switched[s]

SwitchOK == \A s \in Session : LoadedOK(s)

IInv == AccountsTypeOK /\ NamesUnique /\ SwitchOK

-----------------------------------------------------------------------------

(* Moving one session: what it holds must fit its new place.               *)
LEMMA MoveOK ==
    ASSUME IInv, NEW s \in Session, NEW label \in Label, NEW r \in Req,
           Goto(s, label, r), users' = users,
           switched' \in [Session -> SUBSET UserId],
           \A t \in Session \ {s} : switched'[t] = switched[t],
           Held(s)', LoadedOK(s)'
    PROVE  /\ pc' \in [Session -> Label] /\ req' \in [Session -> Req]
           /\ \A t \in Session : Held(t)'
           /\ SwitchOK' /\ Users' = Users /\ NamesUnique'
<1>1. /\ pc' = [pc EXCEPT ![s] = label] /\ req' = [req EXCEPT ![s] = r]
      /\ pc \in [Session -> Label] /\ req \in [Session -> Req]
  BY DEF Goto, IInv, AccountsTypeOK
<1>2. Users' = Users
  BY DEF Users
<1>3. ASSUME NEW t \in Session \ {s} PROVE Held(t)' /\ LoadedOK(t)'
  <2>1. pc'[t] = pc[t] /\ req'[t] = req[t] /\ switched'[t] = switched[t]
    BY <1>1
  <2>2. Held(t) /\ LoadedOK(t)
    BY DEF IInv, AccountsTypeOK, SwitchOK
  <2>. QED BY <1>2, <2>1, <2>2 DEF Held, LoadedOK
<1>4. NamesUnique'
  BY <1>2 DEF NamesUnique, IInv
<1>. QED BY <1>1, <1>2, <1>3, <1>4 DEF SwitchOK

LEMMA NoReqType == NoReq \in Req /\ "idle" \in Label
BY DEF NoReq, Request, Req, Label

(* A request that ends without a commit, or with one of a login.           *)
LEMMA EndOK ==
    ASSUME IInv, NEW s \in Session, End(s), users' = users
    PROVE  /\ pc' \in [Session -> Label] /\ req' \in [Session -> Req]
           /\ switched' \in [Session -> SUBSET UserId]
           /\ \A t \in Session : Held(t)'
           /\ SwitchOK' /\ Users' = Users /\ NamesUnique'
<1>1. /\ Goto(s, "idle", NoReq) /\ switched' = [switched EXCEPT ![s] = {}]
      /\ pc \in [Session -> Label] /\ req \in [Session -> Req]
      /\ switched \in [Session -> SUBSET UserId]
  BY DEF End, IInv, AccountsTypeOK
<1>2. /\ switched' \in [Session -> SUBSET UserId]
      /\ \A t \in Session \ {s} : switched'[t] = switched[t]
  BY <1>1
<1>3. pc'[s] = "idle" /\ req'[s] = NoReq
  BY <1>1 DEF Goto
<1>4. Held(s)' /\ LoadedOK(s)'
  BY <1>3 DEF Held, LoadedOK, NoReq, Request
<1>. QED BY <1>1, <1>2, <1>4, NoReqType, MoveOK

(* A request that moves on with switched as it is.                         *)
LEMMA BeginOK ==
    ASSUME IInv, NEW s \in Session, NEW label \in Label, NEW r \in Req,
           Begin(s, label, r), UNCHANGED <<users, env, tokens, aged>>,
           Held(s)', LoadedOK(s)'
    PROVE  IInv'
<1>1. /\ Goto(s, label, r) /\ switched' = switched
      /\ switched \in [Session -> SUBSET UserId]
  BY DEF Begin, IInv, AccountsTypeOK
<1>2. /\ switched' \in [Session -> SUBSET UserId]
      /\ \A t \in Session \ {s} : switched'[t] = switched[t]
  BY <1>1
<1>3. /\ pc' \in [Session -> Label] /\ req' \in [Session -> Req]
      /\ \A t \in Session : Held(t)'
      /\ SwitchOK' /\ Users' = Users /\ NamesUnique'
  BY <1>1, <1>2, MoveOK
<1>4. AccountsTypeOK'
  BY <1>2, <1>3 DEF AccountsTypeOK, IInv
<1>. QED BY <1>3, <1>4 DEF IInv

LEMMA MintType ==
    ASSUME IInv, NEW u \in Users, NEW types \in SUBSET {"access", "refresh"},
           Mint(u, types)
    PROVE  /\ tokens' \subseteq Users \X {"access", "refresh"}
           /\ aged' \subseteq {t[1] : t \in tokens'}
BY DEF Mint, IInv, AccountsTypeOK

LEMMA DropType ==
    ASSUME IInv, NEW t, Drop(t)
    PROVE  /\ tokens' \subseteq Users \X {"access", "refresh"}
           /\ aged' \subseteq {x[1] : x \in tokens'}
BY DEF Drop, IInv, AccountsTypeOK

(* Only tokens change.                                                     *)
LEMMA TokensOK ==
    ASSUME IInv, UNCHANGED <<users, env, pc, req, switched>>,
           tokens' \subseteq Users \X {"access", "refresh"},
           aged' \subseteq {t[1] : t \in tokens'}
    PROVE  IInv'
<1>1. Users' = Users
  BY DEF Users
<1>2. \A t \in Session : Held(t)' /\ LoadedOK(t)'
  BY <1>1 DEF IInv, AccountsTypeOK, SwitchOK, Held, LoadedOK
<1>3. NamesUnique'
  BY <1>1 DEF NamesUnique, IInv
<1>. QED BY <1>1, <1>2, <1>3 DEF IInv, AccountsTypeOK, SwitchOK

-----------------------------------------------------------------------------

LEMMA TokenSteps ==
    ASSUME IInv, NEW u, NEW t,
           PanelLogin(u) \/ Refresh(u) \/ Logout(u) \/ Age(u) \/ ExpireToken(t)
    PROVE  IInv'
<1>1. CASE PanelLogin(u) \/ Refresh(u)
  <2>1. u \in Users /\ \E types \in SUBSET {"access", "refresh"} : Mint(u, types)
    BY <1>1 DEF PanelLogin, Refresh, Active
  <2>2. UNCHANGED <<users, env, pc, req, switched>>
    BY <1>1 DEF PanelLogin, Refresh
  <2>. QED BY <2>1, <2>2, MintType, TokensOK
<1>2. CASE Logout(u) \/ ExpireToken(t)
  <2>1. \E x : Drop(x)
    BY <1>2 DEF Logout, ExpireToken
  <2>2. UNCHANGED <<users, env, pc, req, switched>>
    BY <1>2 DEF Logout, ExpireToken
  <2>. QED BY <2>1, <2>2, DropType, TokensOK
<1>3. CASE Age(u)
  BY <1>3, TokensOK DEF Age, IInv, AccountsTypeOK
<1>. QED BY <1>1, <1>2, <1>3

LEMMA LoadSteps ==
    ASSUME IInv, NEW s \in Session, NEW u, NEW row,
           \/ Login(s, u) \/ Enter(s, u) \/ LoadTarget(s, u) \/ Seed(s)
           \/ row \in NewUser /\ LookForUser(s, row) /\ ~Taken(row)
    PROVE  IInv'
<1>1. /\ pc \in [Session -> Label] /\ req \in [Session -> Req]
      /\ users \in [UserId -> User \cup {None}] /\ Held(s) /\ LoadedOK(s)
      /\ switched \in [Session -> SUBSET UserId]
  BY DEF IInv, AccountsTypeOK, SwitchOK
<1>2. CASE Login(s, u) \/ Enter(s, u)
  <2> DEFINE r == [me |-> u, target |-> None, value |-> FALSE, row |-> None]
  <2>1. PICK label \in {"loggingIn", "entered"} :
           /\ Begin(s, label, r) /\ Active(u)
           /\ UNCHANGED <<users, env, tokens, aged>>
    BY <1>2 DEF Login, Enter, Request
  <2>2. pc'[s] = label /\ req'[s] = r /\ Users' = Users
    BY <1>1, <2>1 DEF Begin, Goto, Users
  <2>3. r \in Req /\ label \in Label
    BY <2>1 DEF Req, Label, Active, Users
  <2>4. Held(s)'
    BY <2>1, <2>2 DEF Held, Active
  <2>5. users'[u].active = TRUE
    <3>1. users[u] \in User
      BY <1>1, <2>1 DEF Active, Users
    <3>. QED BY <2>1, <3>1 DEF Active, User
  <2>6. LoadedOK(s)'
    <3>1. label # "toggling" /\ r.me = u
      BY <2>1
    <3>. QED BY <2>2, <2>5, <3>1 DEF LoadedOK
  <2> HIDE DEF r
  <2>. QED BY <2>1, <2>3, <2>4, <2>6, BeginOK
<1>3. CASE LoadTarget(s, u)
  <2> DEFINE value == IF u = req[s].me THEN TRUE ELSE users[u].active
             r == [me |-> req[s].me, target |-> u, row |-> None, value |-> value]
  <2>1. /\ pc[s] = "entered" /\ u \in Users /\ Goto(s, "toggling", r)
        /\ switched' = [switched EXCEPT ![s] = IF u = req[s].me THEN @ ELSE @ \ {u}]
        /\ UNCHANGED <<users, env, tokens, aged>>
    BY <1>3 DEF LoadTarget
  <2>2. users[u] \in User /\ req[s].me \in Users /\ Users \subseteq UserId
    BY <1>1, <2>1 DEF Users, Held
  <2>3. r \in Req /\ "toggling" \in Label
    BY <2>1, <2>2 DEF Req, Label, User
  <2>4. pc'[s] = "toggling" /\ req'[s] = r /\ Users' = Users
    BY <1>1, <2>1 DEF Goto, Users
  <2>5. Held(s)'
    BY <2>1, <2>2, <2>4 DEF Held
  <2>6. LoadedOK(s)'
    <3>1. users'[u].active = value \/ u \in switched'[s]
      <4>1. CASE u = req[s].me
        <5>1. users[u].active = TRUE \/ u \in switched[s]
          BY <1>1, <2>1, <4>1 DEF LoadedOK
        <5>2. switched'[s] = switched[s] /\ value = TRUE
          BY <1>1, <2>1, <4>1
        <5>. QED BY <2>1, <5>1, <5>2
      <4>2. CASE u # req[s].me
        BY <2>1, <4>2
      <4>. QED BY <4>1, <4>2
    <3>2. r.target = u /\ r.value = value
      OBVIOUS
    <3>. QED BY <2>4, <3>1, <3>2 DEF LoadedOK
  <2>7. /\ switched' \in [Session -> SUBSET UserId]
        /\ \A t \in Session \ {s} : switched'[t] = switched[t]
    BY <1>1, <2>1
  <2> HIDE DEF r
  <2>8. /\ pc' \in [Session -> Label] /\ req' \in [Session -> Req]
        /\ \A t \in Session : Held(t)'
        /\ SwitchOK' /\ Users' = Users /\ NamesUnique'
    BY <2>1, <2>3, <2>5, <2>6, <2>7, MoveOK
  <2>9. AccountsTypeOK'
    BY <2>1, <2>7, <2>8 DEF AccountsTypeOK, IInv
  <2>. QED BY <2>8, <2>9 DEF IInv
<1>4. CASE Seed(s)
  <2> DEFINE row1 == [name |-> env.name, email |-> env.email,
                      role |-> "admin", active |-> TRUE]
             r == [me |-> None, target |-> None, value |-> FALSE, row |-> row1]
  <2>1. Begin(s, "seeding", r) /\ UNCHANGED <<users, env, tokens, aged>>
    BY <1>4 DEF Seed, Request
  <2>2. row1 \in User
    BY AccountsAssumption DEF IInv, AccountsTypeOK, User
  <2>3. r \in Req /\ "seeding" \in Label
    BY <2>2 DEF Req, Label
  <2>4. pc'[s] = "seeding" /\ req'[s] = r
    BY <1>1, <2>1 DEF Begin, Goto
  <2>5. Held(s)' /\ LoadedOK(s)'
    BY <2>2, <2>4 DEF Held, LoadedOK
  <2> HIDE DEF r
  <2>. QED BY <2>1, <2>3, <2>5, BeginOK
<1>5. CASE row \in NewUser /\ LookForUser(s, row) /\ ~Taken(row)
  <2> DEFINE r == Request(req[s].me, row)
  <2>1. pc[s] = "entered" /\ Begin(s, "creating", r) /\ UNCHANGED <<users, env, tokens, aged>>
    BY <1>5 DEF LookForUser
  <2>2. row \in User /\ req[s] \in Req
    BY <1>1, <1>5 DEF NewUser
  <2>3. r \in Req /\ "creating" \in Label /\ r.me = req[s].me /\ r.target = None /\ r.row = row
    BY <1>1, <2>1, <2>2 DEF Request, Req, Label, Held
  <2>4. pc'[s] = "creating" /\ req'[s] = r /\ Users' = Users
    BY <1>1, <2>1 DEF Begin, Goto, Users
  <2>5. Held(s)' /\ LoadedOK(s)'
    BY <1>1, <2>1, <2>2, <2>3, <2>4 DEF Held, LoadedOK
  <2> HIDE DEF r
  <2>. QED BY <2>1, <2>3, <2>5, BeginOK
<1>. QED BY <1>2, <1>3, <1>4, <1>5

LEMMA EndSteps ==
    ASSUME IInv, NEW s \in Session, NEW row,
           FinishLogin(s) \/ InsertFails(s) \/ (LookForUser(s, row) /\ Taken(row))
    PROVE  IInv'
<1>1. End(s) /\ UNCHANGED <<users, env>>
  BY DEF FinishLogin, InsertFails, LookForUser
<1>2. /\ pc' \in [Session -> Label] /\ req' \in [Session -> Req]
      /\ switched' \in [Session -> SUBSET UserId]
      /\ \A t \in Session : Held(t)'
      /\ SwitchOK' /\ Users' = Users /\ NamesUnique'
  BY <1>1, EndOK
<1>3. /\ tokens' \subseteq Users \X {"access", "refresh"}
      /\ aged' \subseteq {t[1] : t \in tokens'}
  <2>1. CASE FinishLogin(s)
    <3>1. req[s].me \in Users
      BY <2>1 DEF FinishLogin, IInv, AccountsTypeOK, Held
    <3>. QED BY <2>1, <3>1, MintType DEF FinishLogin
  <2>2. CASE ~FinishLogin(s)
    BY <2>2 DEF InsertFails, LookForUser, IInv, AccountsTypeOK
  <2>. QED BY <2>1, <2>2
<1>4. AccountsTypeOK'
  BY <1>1, <1>2, <1>3 DEF AccountsTypeOK, IInv
<1>. QED BY <1>2, <1>4 DEF IInv

LEMMA InsertOK ==
    ASSUME IInv, NEW s \in Session, NEW u \in UserId, InsertUser(s, u)
    PROVE  IInv'
<1>1. /\ users \in [UserId -> User \cup {None}] /\ req \in [Session -> Req]
      /\ pc \in [Session -> Label] /\ switched \in [Session -> SUBSET UserId]
      /\ \A t \in Session : Held(t) /\ LoadedOK(t)
  BY DEF IInv, AccountsTypeOK, SwitchOK
<1> DEFINE row == req[s].row
<1>2. /\ row \in User /\ u \notin Users /\ ~Taken(row)
      /\ users' = [users EXCEPT ![u] = row]
      /\ pc' = [pc EXCEPT ![s] = "idle"] /\ req' = [req EXCEPT ![s] = NoReq]
      /\ switched' = [switched EXCEPT ![s] = {}]
      /\ UNCHANGED <<env, tokens, aged>>
  BY <1>1 DEF InsertUser, Held, End, Goto
<1> HIDE DEF row
<1>3. /\ users' \in [UserId -> User \cup {None}] /\ users'[u] = row
      /\ \A v \in UserId \ {u} : users'[v] = users[v]
  BY <1>1, <1>2
<1>4. Users' = Users \cup {u}
  BY <1>2, <1>3, AccountsAssumption DEF Users
<1>5. ASSUME NEW t \in Session PROVE Held(t)' /\ LoadedOK(t)'
  <2>1. CASE t = s
    <3>1. pc'[s] = "idle" /\ req'[s] = NoReq
      BY <1>1, <1>2
    <3>. QED BY <2>1, <3>1 DEF Held, LoadedOK, NoReq, Request
  <2>2. CASE t # s
    <3>1. pc'[t] = pc[t] /\ req'[t] = req[t] /\ switched'[t] = switched[t]
      BY <1>1, <1>2, <2>2
    <3>2. Held(t)'
      BY <1>1, <1>4, <3>1 DEF Held
    <3>3. /\ pc[t] = "entered" => req[t].me \in Users
          /\ pc[t] = "toggling" => req[t].target \in Users
      BY <1>1 DEF Held
    <3>4. LoadedOK(t)'
      BY <1>1, <1>2, <1>3, <3>1, <3>3 DEF LoadedOK, Users
    <3>. QED BY <3>2, <3>4
  <2>. QED BY <2>1, <2>2
<1>6. NamesUnique'
  BY <1>2, <1>3, <1>4 DEF NamesUnique, Taken, IInv, Users
<1>7. pc' \in [Session -> Label] /\ req' \in [Session -> Req] /\ switched' \in [Session -> SUBSET UserId]
  BY <1>1, <1>2, NoReqType
<1>8. AccountsTypeOK'
  BY <1>2, <1>3, <1>4, <1>5, <1>7 DEF AccountsTypeOK, IInv
<1>. QED BY <1>5, <1>6, <1>8 DEF IInv, SwitchOK

LEMMA ToggleOK ==
    ASSUME IInv, NEW s \in Session, ToggleUser(s)
    PROVE  IInv'
<1>1. /\ users \in [UserId -> User \cup {None}] /\ req \in [Session -> Req]
      /\ pc \in [Session -> Label] /\ switched \in [Session -> SUBSET UserId]
      /\ \A t \in Session : Held(t) /\ LoadedOK(t)
  BY DEF IInv, AccountsTypeOK, SwitchOK
<1> DEFINE u == req[s].target
           value == ~req[s].value
<1>2. /\ pc[s] = "toggling" /\ users' = [users EXCEPT ![u].active = value]
      /\ pc' = [pc EXCEPT ![s] = "idle"] /\ req' = [req EXCEPT ![s] = NoReq]
      /\ switched' = [t \in Session |-> IF t = s \/ pc[t] = "idle" THEN {}
                                        ELSE switched[t] \cup {u}]
      /\ UNCHANGED <<env, tokens, aged>>
  BY DEF ToggleUser, Switch, Goto
<1>3. u \in Users /\ u \in UserId /\ users[u] \in User /\ value \in BOOLEAN
  BY <1>1, <1>2 DEF Held, Users
<1> HIDE DEF u, value
<1>4. /\ users' \in [UserId -> User \cup {None}]
      /\ users'[u] \in User /\ users'[u].name = users[u].name /\ users'[u].email = users[u].email
      /\ \A v \in UserId \ {u} : users'[v] = users[v]
  BY <1>1, <1>2, <1>3 DEF User
<1>5. Users' = Users
  BY <1>3, <1>4, AccountsAssumption DEF Users
<1>6. ASSUME NEW t \in Session PROVE Held(t)' /\ LoadedOK(t)'
  <2>1. CASE t = s
    <3>1. pc'[s] = "idle" /\ req'[s] = NoReq
      BY <1>1, <1>2
    <3>. QED BY <2>1, <3>1 DEF Held, LoadedOK, NoReq, Request
  <2>2. CASE t # s
    <3>1. /\ pc'[t] = pc[t] /\ req'[t] = req[t]
          /\ pc[t] # "idle" => switched'[t] = switched[t] \cup {u}
      BY <1>1, <1>2, <2>2
    <3>2. Held(t)'
      BY <1>1, <1>5, <3>1 DEF Held
    <3>3. LoadedOK(t)
      BY <1>1
    <3>4. /\ pc[t] = "entered" => req[t].me \in UserId
          /\ pc[t] = "toggling" => req[t].target \in UserId
      BY <1>1 DEF Held, Users
    <3>5. LoadedOK(t)'
      BY <1>4, <3>1, <3>3, <3>4 DEF LoadedOK
    <3>. QED BY <3>2, <3>5
  <2>. QED BY <2>1, <2>2
<1>7. NamesUnique'
  BY <1>3, <1>4, <1>5 DEF NamesUnique, IInv, Users
<1>8. pc' \in [Session -> Label] /\ req' \in [Session -> Req] /\ switched' \in [Session -> SUBSET UserId]
  BY <1>1, <1>2, <1>3, NoReqType
<1>9. AccountsTypeOK'
  BY <1>2, <1>4, <1>5, <1>6, <1>8 DEF AccountsTypeOK, IInv
<1>. QED BY <1>6, <1>7, <1>9 DEF IInv, SwitchOK

-----------------------------------------------------------------------------

LEMMA InitIInv == Init => IInv
<1>. SUFFICES ASSUME Init PROVE IInv
  OBVIOUS
<1>1. Users = {}
  BY DEF Init, Users
<1>2. \A s \in Session : pc[s] = "idle" /\ req[s] = NoReq
  BY DEF Init
<1>3. \A s \in Session : Held(s) /\ LoadedOK(s)
  BY <1>2 DEF Held, LoadedOK, NoReq, Request
<1>4. AccountsTypeOK
  BY <1>1, <1>3, NoReqType DEF Init, AccountsTypeOK
<1>. QED BY <1>1, <1>3, <1>4 DEF IInv, NamesUnique, SwitchOK

LEMMA NextIInv == IInv /\ [Next]_vars => IInv'
<1>. SUFFICES ASSUME IInv, [Next]_vars PROVE IInv'
  OBVIOUS
<1>1. ASSUME NEW s \in Session, FinishLogin(s) \/ InsertFails(s) PROVE IInv'
  BY <1>1, EndSteps
<1>2. ASSUME NEW s \in Session, ToggleUser(s) PROVE IInv'
  BY <1>2, ToggleOK
<1>3. ASSUME NEW s \in Session, NEW u \in UserId,
             Seed(s) \/ Login(s, u) \/ Enter(s, u) \/ LoadTarget(s, u)
      PROVE  IInv'
  BY <1>3, LoadSteps
<1>4. ASSUME NEW s \in Session, Seed(s) PROVE IInv'
  BY <1>4, LoadSteps
<1>5. ASSUME NEW s \in Session, NEW u \in UserId, InsertUser(s, u) PROVE IInv'
  BY <1>5, InsertOK
<1>6. ASSUME NEW s \in Session, NEW r \in NewUser, LookForUser(s, r) PROVE IInv'
  <2>1. CASE Taken(r)
    BY <1>6, <2>1, EndSteps
  <2>2. CASE ~Taken(r)
    BY <1>6, <2>2, LoadSteps
  <2>. QED BY <2>1, <2>2
<1>7. ASSUME NEW u \in UserId, PanelLogin(u) \/ Refresh(u) \/ Logout(u) \/ Age(u)
      PROVE  IInv'
  BY <1>7, TokenSteps
<1>8. ASSUME NEW t \in UserId \X {"access", "refresh"}, ExpireToken(t) PROVE IInv'
  BY <1>8, TokenSteps
<1>9. ASSUME NEW e \in Bootstrap, ChangeEnv(e) PROVE IInv'
  <2>1. UNCHANGED <<users, tokens, aged, pc, req, switched>> /\ env' \in Bootstrap
    BY <1>9 DEF ChangeEnv
  <2>. QED BY <2>1 DEF IInv, AccountsTypeOK, NamesUnique, SwitchOK, Held, LoadedOK, Users
<1>10. CASE UNCHANGED vars
  BY <1>10 DEF vars, IInv, AccountsTypeOK, NamesUnique, SwitchOK, Held, LoadedOK, Users
<1>. QED BY <1>1, <1>2, <1>3, <1>4, <1>5, <1>6, <1>7, <1>8, <1>9, <1>10 DEF Next

LEMMA SpecIInv == Spec => []IInv
BY InitIInv, NextIInv, PTL DEF Spec

(* Type correctness of the table, the tokens and what each request holds,  *)
(* for any users and sessions (settings.py, auth.py, seed_admin.py).       *)
THEOREM SpecAccountsTypeOK == Spec => []AccountsTypeOK
<1>1. IInv => AccountsTypeOK
  BY DEF IInv
<1>. QED BY <1>1, SpecIInv, PTL

(* However many requests and seed scripts create users at once after       *)
(* having looked, no name and no e-mail is given twice (settings.py:50-64, *)
(* seed_admin.py:14-28).                                                   *)
THEOREM SpecNamesUnique == Spec => []NamesUnique
<1>1. IInv => NamesUnique
  BY DEF IInv
<1>. QED BY <1>1, SpecIInv, PTL

-----------------------------------------------------------------------------
(* Action properties                                                       *)

LEMMA LockedOutStays ==
    ASSUME IInv, [Next]_vars, LockedOut, NEW v \in Users, users[v].name = env.name
    PROVE  LockedOut'
<1>1. \A s \in Session : pc[s] \in {"idle", "loggingIn"}
  BY DEF LockedOut
<1>2. \A u \in Users : users[u] \in User
  BY DEF IInv, AccountsTypeOK, Users
<1>3. ASSUME users' = users, pc \in [Session -> Label], NEW s, NEW label, NEW r,
             label \in {"idle", "loggingIn"}, Goto(s, label, r)
      PROVE  LockedOut'
  BY <1>3 DEF LockedOut, Goto, Users
<1>4. pc \in [Session -> Label]
  BY DEF IInv, AccountsTypeOK
<1>5. ASSUME UNCHANGED <<users, pc>> PROVE LockedOut'
  BY <1>5 DEF LockedOut, Users
<1>6. ASSUME NEW s \in Session, FinishLogin(s) PROVE LockedOut'
  BY <1>3, <1>4, <1>6 DEF FinishLogin, End
<1>7. ASSUME NEW s \in Session, InsertFails(s) \/ ToggleUser(s) \/ Seed(s) PROVE FALSE
  BY <1>1, <1>7 DEF InsertFails, ToggleUser, Switch, Seed
<1>8. ASSUME NEW s \in Session, NEW u \in UserId, Login(s, u) PROVE LockedOut'
  BY <1>3, <1>4, <1>8 DEF Login, Begin
<1>9. ASSUME NEW s \in Session, NEW u \in UserId,
             Enter(s, u) \/ InsertUser(s, u) \/ LoadTarget(s, u)
      PROVE  FALSE
  <2>1. ~Enter(s, u)
    BY <1>2 DEF Enter, Active, LockedOut, User
  <2>. QED BY <1>1, <1>9, <2>1 DEF InsertUser, LoadTarget
<1>10. ASSUME NEW s \in Session, NEW r \in NewUser, LookForUser(s, r) PROVE FALSE
  BY <1>1, <1>10 DEF LookForUser
<1>11. ASSUME NEW u \in UserId, PanelLogin(u) \/ Refresh(u) \/ Logout(u) \/ Age(u)
       PROVE  UNCHANGED <<users, pc>>
  BY <1>11 DEF PanelLogin, Refresh, Logout, Age
<1>12. ASSUME NEW t \in UserId \X {"access", "refresh"}, ExpireToken(t)
       PROVE  UNCHANGED <<users, pc>>
  BY <1>12 DEF ExpireToken
<1>13. ASSUME NEW e \in Bootstrap, ChangeEnv(e) PROVE UNCHANGED <<users, pc>>
  BY <1>13 DEF ChangeEnv
<1>14. CASE UNCHANGED vars
  BY <1>5, <1>14 DEF vars
<1>. QED BY <1>5, <1>6, <1>7, <1>8, <1>9, <1>10, <1>11, <1>12, <1>13, <1>14 DEF Next

(* A panel whose admins are all switched off stays closed whatever tokens  *)
(* are still held, while the seed script finds the name it is to create    *)
(* (settings.py:68-83, seed_admin.py:14-19).                               *)
THEOREM SpecLockoutIsFinal == Spec => LockoutIsFinal
<1>1. IInv /\ [Next]_vars =>
         [LockedOut /\ (\E u \in Users : users[u].name = env.name) => LockedOut']_vars
  BY LockedOutStays
<1>. QED BY <1>1, SpecIInv, PTL DEF Spec, LockoutIsFinal

LEMMA ToggleCounts ==
    ASSUME IInv, [Next]_vars, NEW s \in Session,
           pc[s] = "toggling", pc'[s] = "idle", users' = users
    PROVE  req[s].target \in switched[s]
<1>1. pc \in [Session -> Label] /\ LoadedOK(s) /\ Held(s) /\ req \in [Session -> Req]
      /\ users \in [UserId -> User \cup {None}]
  BY DEF IInv, AccountsTypeOK, SwitchOK
<1>2. ASSUME NEW t \in Session, NEW label, NEW r, Goto(t, label, r), label # "idle" \/ pc[t] # "toggling"
      PROVE  FALSE
  BY <1>1, <1>2 DEF Goto
<1>3. ToggleUser(s)
  <2>1. ASSUME NEW t \in Session, ToggleUser(t) PROVE t = s
    BY <1>1, <2>1 DEF ToggleUser, Switch, Goto
  <2>2. ASSUME NEW t \in Session, FinishLogin(t) \/ InsertFails(t) \/ Seed(t) PROVE FALSE
    BY <1>2, <2>2 DEF FinishLogin, InsertFails, Seed, End, Begin
  <2>3. ASSUME NEW t \in Session, NEW u \in UserId,
               Login(t, u) \/ Enter(t, u) \/ InsertUser(t, u) \/ LoadTarget(t, u)
        PROVE  FALSE
    BY <1>2, <2>3 DEF Login, Enter, InsertUser, LoadTarget, End, Begin
  <2>4. ASSUME NEW t \in Session, NEW r \in NewUser, LookForUser(t, r) PROVE FALSE
    BY <1>2, <2>4 DEF LookForUser, End, Begin
  <2>5. pc' # pc
    OBVIOUS
  <2>6. ASSUME NEW u \in UserId, PanelLogin(u) \/ Refresh(u) \/ Logout(u) \/ Age(u) PROVE FALSE
    BY <2>5, <2>6 DEF PanelLogin, Refresh, Logout, Age
  <2>7. ASSUME NEW t \in UserId \X {"access", "refresh"}, ExpireToken(t) PROVE FALSE
    BY <2>5, <2>7 DEF ExpireToken
  <2>8. ASSUME NEW e \in Bootstrap, ChangeEnv(e) PROVE FALSE
    BY <2>5, <2>8 DEF ChangeEnv
  <2>9. ~UNCHANGED vars
    BY <2>5 DEF vars
  <2>. QED BY <2>1, <2>2, <2>3, <2>4, <2>6, <2>7, <2>8, <2>9 DEF Next
<1> DEFINE u == req[s].target
<1>4. /\ users' = [users EXCEPT ![u].active = ~req[s].value]
      /\ u \in UserId /\ users[u] \in User /\ req[s].value \in BOOLEAN
  BY <1>1, <1>3 DEF ToggleUser, Switch, Held, Users, Req
<1>5. users'[u].active = ~req[s].value
  BY <1>1, <1>4 DEF User
<1>6. users[u].active = req[s].value \/ u \in switched[s]
  BY <1>1 DEF LoadedOK
<1>. QED BY <1>4, <1>5, <1>6

(* A click on the button is lost only to another click on the same user    *)
(* (settings.py:78-82).                                                    *)
THEOREM SpecLostOnlyToAnother == Spec => LostOnlyToAnother
<1>1. IInv /\ [Next]_vars =>
         [\A s \in Session : pc[s] = "toggling" /\ pc'[s] = "idle" /\ users' = users
                                => req[s].target \in switched[s]]_vars
  BY ToggleCounts
<1>. QED BY <1>1, SpecIInv, PTL DEF Spec, LostOnlyToAnother
=============================================================================
