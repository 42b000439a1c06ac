------------------------------ MODULE Accounts ------------------------------
(***************************************************************************)
(* The accounts of the panel: logins and their tokens, the two requests of *)
(* the settings page, and the seed script.  A session is one of those at a *)
(* time: it loads rows, and some awaits later commits what it made of      *)
(* them.  A request that is turned away (no token, not active, not an      *)
(* admin: a redirect, 401 or 403) changes nothing and has no action.       *)
(***************************************************************************)
EXTENDS FiniteSets

CONSTANTS
    UserId,    \* primary keys of users (bounds the table)
    UserName, Email,
    Bootstrap, \* the BOOTSTRAP_ADMIN_USERNAME and _EMAIL there may be in .env
    Role,      \* of user.role: these handlers tell "admin" from the others
    Session,
    None

User == [name : UserName, email : Email, role : Role, active : BOOLEAN]

ASSUME AccountsAssumption ==
    /\ Bootstrap \subseteq [name : UserName, email : Email] /\ Bootstrap # {}
    /\ "admin" \in Role
    /\ None \notin User /\ None \notin UserId

VARIABLES
    users,   \* the table
    env,     \* the bootstrap settings in force
    tokens,  \* <<user, type>>: unexpired tokens that somebody holds
    aged,    \* the users whose newest tokens are about to expire
    pc, req, \* where each session stands, and what it has loaded
    switched \* history: the users switched since each request loaded them

vars == <<users, env, tokens, aged, pc, req, switched>>

Request(me, row) == [me |-> me, target |-> None, value |-> FALSE, row |-> row]
NoReq == Request(None, None)

Init == /\ users = [u \in UserId |-> None]
        /\ env \in Bootstrap
        /\ tokens = {} /\ aged = {}
        /\ pc = [s \in Session |-> "idle"]
        /\ req = [s \in Session |-> NoReq]
        /\ switched = [s \in Session |-> {}]

Users == {u \in UserId : users[u] # None}
Active(u) == u \in Users /\ users[u].active

(* Mutant: only the name is unique.                                        *)
NameTaken(row) == \E u \in Users : users[u].name = row.name

(* The unique constraints on username and email.                           *)
Taken(row) == \E u \in Users : users[u].name = row.name \/ users[u].email = row.email

Goto(s, label, r) ==
    /\ pc' = [pc EXCEPT ![s] = label]
    /\ req' = [req EXCEPT ![s] = r]

(* A request begins to load rows.                                          *)
Begin(s, label, r) == Goto(s, label, r) /\ UNCHANGED switched

(* Mutant: what a request has loaded outlives it.                          *)
EndOnly(s) == /\ Goto(s, "idle", req[s])
              /\ switched' = [switched EXCEPT ![s] = {}]

(* It ends, and its database session with it.                              *)
End(s) == /\ Goto(s, "idle", NoReq)
          /\ switched' = [switched EXCEPT ![s] = {}]

Mint(u, types) == /\ tokens' = tokens \cup ({u} \X types)
                  /\ aged' = aged \ {u}

Drop(t) == /\ tokens' = tokens \ {t}
           /\ aged' = {u \in aged : \E x \in tokens' : x[1] = u}

-----------------------------------------------------------------------------
(* Tokens                                                                  *)

(* POST /api/auth/login: the user is loaded, the password right ...        *)
Login(s, u) ==
    /\ pc[s] = "idle" /\ Active(u)
    /\ Begin(s, "loggingIn", Request(u, None))
    /\ UNCHANGED <<users, env, tokens, aged>>

(* ... the login is committed and both tokens are made.                    *)
FinishLogin(s) ==
    /\ pc[s] = "loggingIn"
    /\ Mint(req[s].me, {"access", "refresh"})
    /\ End(s)
    /\ UNCHANGED <<users, env>>

(* The login form of the panel: one query, one token.                      *)
PanelLogin(u) ==
    /\ Active(u)
    /\ Mint(u, {"access"})
    /\ UNCHANGED <<users, env, pc, req, switched>>

(* Mutant: the row need only be there.                                     *)
RefreshAnyway(u) ==
    /\ <<u, "refresh">> \in tokens /\ u \in Users
    /\ Mint(u, {"access", "refresh"})
    /\ UNCHANGED <<users, env, pc, req, switched>>

Refresh(u) ==
    /\ <<u, "refresh">> \in tokens /\ Active(u)
    /\ Mint(u, {"access", "refresh"})
    /\ UNCHANGED <<users, env, pc, req, switched>>

(* The browser drops the cookie.                                           *)
Logout(u) ==
    /\ <<u, "access">> \in tokens
    /\ Drop(<<u, "access">>)
    /\ UNCHANGED <<users, env, pc, req, switched>>

(* Time passes for the tokens of a user; nothing renews them meanwhile.    *)
Age(u) ==
    /\ u \notin aged /\ \E t \in tokens : t[1] = u
    /\ aged' = aged \cup {u}
    /\ UNCHANGED <<users, env, tokens, pc, req, switched>>

ExpireToken(t) ==
    /\ t \in tokens /\ t[1] \in aged
    /\ Drop(t)
    /\ UNCHANGED <<users, env, pc, req, switched>>

-----------------------------------------------------------------------------
(* The settings page                                                       *)

(* Mutant: the row is found by the token, and nothing is asked of it.      *)
EnterAnyway(s, u) ==
    /\ pc[s] = "idle"
    /\ <<u, "access">> \in tokens /\ u \in Users /\ users[u].role = "admin"
    /\ Begin(s, "entered", Request(u, None))
    /\ UNCHANGED <<users, env, tokens, aged>>

(* get_current_user and the comparison of the role.                        *)
Enter(s, u) ==
    /\ pc[s] = "idle"
    /\ <<u, "access">> \in tokens /\ Active(u) /\ users[u].role = "admin"
    /\ Begin(s, "entered", Request(u, None))
    /\ UNCHANGED <<users, env, tokens, aged>>

(* create_user asks for a row with the name or the e-mail: 400 when there  *)
(* is one, an exception when there are two.                                *)
LookForUser(s, row) ==
    /\ pc[s] = "entered"
    /\ IF Taken(row) THEN End(s)
                     ELSE Begin(s, "creating", Request(req[s].me, row))
    /\ UNCHANGED <<users, env, tokens, aged>>

(* The commit of create_user, and of the seed script.                      *)
InsertUser(s, u) ==
    /\ pc[s] \in {"creating", "seeding"} /\ u \notin Users
    /\ ~Taken(req[s].row)
    /\ users' = [users EXCEPT ![u] = req[s].row]
    /\ End(s)
    /\ UNCHANGED <<env, tokens, aged>>

(* IntegrityError, or the bound on the table.                              *)
InsertFails(s) ==
    /\ pc[s] \in {"creating", "seeding"}
    /\ Taken(req[s].row) \/ Users = UserId
    /\ End(s)
    /\ UNCHANGED <<users, env, tokens, aged>>

(* toggle_user loads the target, unless it is the one who asks: his row is *)
(* in the session since Enter, and the query does not refresh it.          *)
LoadTarget(s, u) ==
    /\ pc[s] = "entered" /\ u \in Users
    /\ Goto(s, "toggling",
            [me |-> req[s].me, target |-> u, row |-> None,
             value |-> IF u = req[s].me THEN TRUE ELSE users[u].active])
    /\ switched' = [switched EXCEPT ![s] = IF u = req[s].me THEN @ ELSE @ \ {u}]
    /\ UNCHANGED <<users, env, tokens, aged>>

Switch(s, value) ==
    LET u == req[s].target
    IN /\ pc[s] = "toggling"
       /\ users' = [users EXCEPT ![u].active = value]
       /\ Goto(s, "idle", NoReq)
       /\ switched' = [t \in Session |-> IF t = s \/ pc[t] = "idle" THEN {}
                                         ELSE switched[t] \cup {u}]
       /\ UNCHANGED <<env, tokens, aged>>

(* Mutant: the button can only switch off.                                 *)
SwitchOff(s) == Switch(s, FALSE)

(* The commit.                                                             *)
ToggleUser(s) == Switch(s, ~req[s].value)

-----------------------------------------------------------------------------
(* scripts/seed_admin.py                                                   *)

Seed(s) ==
    /\ pc[s] = "idle"
    /\ ~ \E u \in Users : users[u].name = env.name
    /\ Begin(s, "seeding",
             Request(None, [name |-> env.name, email |-> env.email,
                            role |-> "admin", active |-> TRUE]))
    /\ UNCHANGED <<users, env, tokens, aged>>

(* .env is edited.                                                         *)
ChangeEnv(e) == /\ env' = e
                /\ UNCHANGED <<users, tokens, aged, pc, req, switched>>

NewUser == {r \in User : r.active}

Next ==
    \/ \E s \in Session :
          \/ FinishLogin(s) \/ InsertFails(s) \/ ToggleUser(s) \/ Seed(s)
          \/ \E u \in UserId : \/ Login(s, u) \/ Enter(s, u)
                               \/ InsertUser(s, u) \/ LoadTarget(s, u)
          \/ \E r \in NewUser : LookForUser(s, r)
    \/ \E u \in UserId : PanelLogin(u) \/ Refresh(u) \/ Logout(u) \/ Age(u)
    \/ \E t \in UserId \X {"access", "refresh"} : ExpireToken(t)
    \/ \E e \in Bootstrap : ChangeEnv(e)

Spec == Init /\ [][Next]_vars

(* Tokens carry their expiry: one that is not renewed expires.             *)
FairAccounts ==
    /\ Spec
    /\ \A u \in UserId : WF_vars(Age(u))
    /\ \A t \in UserId \X {"access", "refresh"} : WF_vars(ExpireToken(t))

-----------------------------------------------------------------------------

Label == {"idle", "loggingIn", "entered", "creating", "toggling", "seeding"}
Req == [me : UserId \cup {None}, target : UserId \cup {None},
        value : BOOLEAN, row : User \cup {None}]

(* What a session holds is what its place in the handler calls for.        *)
Held(s) ==
    /\ req[s].me \in IF pc[s] \in {"idle", "seeding"} THEN {None} ELSE Users
    /\ req[s].target \in IF pc[s] = "toggling" THEN Users ELSE {None}
    /\ req[s].row \in IF pc[s] \in {"creating", "seeding"} THEN User ELSE {None}

AccountsTypeOK ==
    /\ users \in [UserId -> User \cup {None}] /\ env \in Bootstrap
    /\ tokens \subseteq Users \X {"access", "refresh"} /\ aged \subseteq {t[1] : t \in tokens}
    /\ pc \in [Session -> Label] /\ req \in [Session -> Req]
    /\ switched \in [Session -> SUBSET UserId]
    /\ \A s \in Session : Held(s)

(* Names and e-mails identify users, whatever requests and seed scripts    *)
(* create them at once after having looked (settings.py:50-64,             *)
(* seed_admin.py:14-28).                                                   *)
NamesUnique ==
    \A u, v \in Users : users[u].name = users[v].name \/ users[u].email = users[v].email
                           => u = v

(* Nobody stops the last active admin from switching himself off.  From    *)
(* then on nothing lets anyone in again, tokens still held included, as    *)
(* long as the seed script finds the name it is to create (settings.py:    *)
(* 68-83, seed_admin.py:14-19).                                            *)
LockedOut ==
    /\ \A u \in Users : users[u].role = "admin" => ~users[u].active
    /\ \A s \in Session : pc[s] \in {"idle", "loggingIn"}
LockoutIsFinal ==
    [][LockedOut /\ (\E u \in Users : users[u].name = env.name) => LockedOut']_vars

(* A click on the button is lost only to another one: a toggle that leaves *)
(* the user as he was has been overtaken by a toggle of the same user      *)
(* since it loaded him (settings.py:78-82).                                *)
LostOnlyToAnother ==
    [][\A s \in Session :
        pc[s] = "toggling" /\ pc'[s] = "idle" /\ users' = users
            => req[s].target \in switched[s]]_vars

(* Tokens cannot be revoked, but who stays switched off is out in the end, *)
(* refresh tokens and a login under way when he was switched off           *)
(* notwithstanding (auth.py:33-36, 62-66).                                 *)
OffMeansOut ==
    \A u \in UserId :
        <>[](u \in Users /\ ~Active(u)) => <>[](<<u, "access">> \notin tokens
                                                 /\ <<u, "refresh">> \notin tokens)
=============================================================================
