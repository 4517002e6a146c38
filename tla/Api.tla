--------------------------------- MODULE Api ---------------------------------
(***************************************************************************)
(* The running application: clients call the endpoints of api/v1/endpoints *)
(* at any moment, the requests' statements interleave in any order, and    *)
(* the database or the process may fail.                                   *)
(***************************************************************************)
EXTENDS UserService

CONSTANTS
  Seed,          \* requests answered before the behaviour starts, each of
                 \* which registered an account
  SeedEmail,     \* the address each of them registered
  SeedAdmin,     \* seed accounts that are administrators
  SeedInactive,  \* seed accounts that have been deactivated
  Ops,           \* endpoints that the clients of this instance call
  Roles,         \* values they put in the field role, Null for an absent one
  Actives,       \* the same for is_active
  Faults         \* whether the database and the process fail

ASSUME SeedAssumption ==
  /\ Seed \subseteq Req
  /\ SeedEmail \in [Seed -> Email]
  /\ \A a, b \in Seed : SeedEmail[a] = SeedEmail[b] => a = b
  /\ SeedAdmin \subseteq Seed
  /\ SeedInactive \subseteq Seed
  /\ Ops \subseteq Op
  /\ Roles \subseteq Role \cup {Null}
  /\ Actives \subseteq BOOLEAN \cup {Null}
  /\ Faults \in BOOLEAN

ASSUME NullAssumption ==
  /\ Null \notin Req /\ Null \notin Email /\ Null \notin Token /\ Null \notin UserRow
  /\ Null \notin Op /\ Null \notin Role /\ Null \notin BOOLEAN

vars == <<now, users, tokens, tx, pc, req, actor, mem, resp>>

TypeOK == StoreTypeOK /\ RequestsTypeOK /\ now \in Nat

-----------------------------------------------------------------------------
(* A state the application reaches by registering the seed accounts,       *)
(* promoting SeedAdmin and deactivating SeedInactive, all at time 0.       *)

SeedRow(s) ==
  [id |-> s, email |-> SeedEmail[s],
   role |-> IF s \in SeedAdmin THEN "ADMIN" ELSE "USER",
   active |-> s \notin SeedInactive, createdBy |-> s]

SeedToken(s, type, ttl) == [by |-> s, type |-> type, sub |-> s, exp |-> ttl]
SeedRefresh(s) == SeedToken(s, "refresh", RefreshTTL)

Init ==
  /\ now = 0
  /\ users = {SeedRow(s) : s \in Seed}
  /\ tokens = {[hash |-> SeedRefresh(s), user |-> s, expires |-> RefreshTTL] :
                 s \in Seed \ SeedInactive}
  /\ tx = [r \in Req |-> NoWrites(IF r \in Seed THEN "committed" ELSE "open")]
  /\ pc = [r \in Req |-> IF r \in Seed THEN "done" ELSE "idle"]
  /\ req = [r \in Req |->
       IF r \in Seed THEN [Blank EXCEPT !.op = "register", !.email = SeedEmail[r]]
       ELSE Blank]
  /\ actor = [r \in Req |-> Null]
  /\ mem = [r \in Req |-> NoMemory]
  /\ resp = [r \in Req |->
       IF r \in Seed
       THEN [status |-> "ok",
             tokens |-> {SeedToken(r, "access", AccessTTL), SeedRefresh(r)}]
       ELSE NoResponse]

-----------------------------------------------------------------------------
(* The endpoints.  A client presents any token it was ever given, fresh or *)
(* expired, of the right type or not, or none.                             *)

Presentable == Delivered \cup {Null}

\* Ids a client can name: those of the accounts, or an id of no account.
Target == {u.id : u \in users} \cup {Null}

PostRegister(r) ==
  /\ "register" \in Ops
  /\ \E e \in Email :
       Begin(r, [Blank EXCEPT !.op = "register", !.email = e], "register.get_by_email")

PostLogin(r) ==
  /\ "login" \in Ops
  /\ \E e \in Email, ok \in BOOLEAN :
       Begin(r, [Blank EXCEPT !.op = "login", !.email = e, !.passwordOk = ok],
             "login.get_by_email")

PostRefresh(r) ==
  /\ "refresh" \in Ops
  /\ \E t \in Presentable :
       LET input == [Blank EXCEPT !.op = "refresh", !.token = t]
       IN  IF Decodes(t, "refresh")
           THEN Begin(r, input, "refresh.get_by_user_and_hash")
           ELSE Refuse(r, input)

PostLogout(r) ==
  /\ "logout" \in Ops
  /\ \E t \in Presentable :
       LET input == [Blank EXCEPT !.op = "logout", !.token = t]
       IN  IF t # Null
           THEN Begin(r, input, "logout.delete_by_hash")
           ELSE Refuse(r, input)

\* get_current_user: the Authorization header carries an access token.
BeginAuthenticated(r, body) ==
  /\ body.op \in Ops
  /\ \E t \in Presentable :
       LET input == [body EXCEPT !.token = t]
       IN  IF Decodes(t, "access")
           THEN Begin(r, input, "verify.get_by_id")
           ELSE Refuse(r, input)

PostUsers(r) ==
  \E e \in Email, role \in Roles \ {Null}, active \in Actives \ {Null} :
    BeginAuthenticated(r, [Blank EXCEPT !.op = "create", !.email = e,
                                        !.role = role, !.active = active])

\* PUT /users/{user_id}, and PUT /users/me where the target is the caller.
PutUser(r) ==
  \E id \in Target, role \in Roles, active \in Actives :
    BeginAuthenticated(r, [Blank EXCEPT !.op = "update", !.target = id,
                                        !.role = role, !.active = active])

DeleteUser(r) ==
  \E id \in Target :
    BeginAuthenticated(r, [Blank EXCEPT !.op = "deactivate", !.target = id])

Call(r) ==
  \/ PostRegister(r) \/ PostLogin(r) \/ PostRefresh(r) \/ PostLogout(r)
  \/ PostUsers(r) \/ PutUser(r) \/ DeleteUser(r)

-----------------------------------------------------------------------------

\* What the application does for a request it has accepted.
Step(r) == AuthStep(r) \/ UserStep(r) \/ Finish(r)

Fault(r) == Faults /\ (DatabaseError(r) \/ AnswerLost(r))

Tick == ClockTick /\ UNCHANGED <<users, tokens, tx, pc, req, actor, mem, resp>>

Next ==
  \/ \E r \in Req : Call(r) \/ Step(r) \/ Fault(r)
  \/ Faults /\ Crash
  \/ Tick

Spec == Init /\ [][Next]_vars

\* The event loop resumes every handler whose statement PostgreSQL has
\* answered.  Clients need not call, time need not pass, faults need not occur.
Fairness == \A r \in Req : WF_vars(Step(r))

FairSpec == Spec /\ Fairness
=============================================================================
