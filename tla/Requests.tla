------------------------------ MODULE Requests ------------------------------
(***************************************************************************)
(* A request and the one UnitOfWork block its service method runs in.      *)
(*                                                                         *)
(* The application is one asyncio process: a handler runs without          *)
(* interruption from one await to the next, and every await that matters   *)
(* is a database statement.  pc[r] names the statement request r is about  *)
(* to execute; an action is that statement and the Python up to the next.  *)
(* A request is handled once; its slot is not used again, which keeps what *)
(* it asked for and what it was told available to the properties.          *)
(***************************************************************************)
EXTENDS Store

VARIABLES
  pc,     \* the statement each request executes next
  req,    \* what the client asked for
  actor,  \* the UserData that get_current_user returned
  mem,    \* the handler's other local variables
  resp    \* the answer the client received

Op == {"register", "login", "refresh", "logout", "create", "update", "deactivate"}

Statement ==
  {"register.get_by_email", "register.add", "register.update",
   "login.get_by_email", "issue.add",
   "refresh.get_by_user_and_hash", "refresh.get_by_id",
   "refresh.delete_by_hash", "refresh.add",
   "logout.delete_by_hash",
   "verify.get_by_id",
   "create.get_by_email", "create.add", "create.update",
   "update.get_by_id", "update.update",
   "deactivate.get_by_id", "deactivate.deactivate",
   "revoke.snapshot", "revoke.delete",
   "commit"}

Input ==
  [op: Op \cup {Null},
   email: Email \cup {Null},
   passwordOk: BOOLEAN,              \* verify_password would accept it
   token: Token \cup {Null},         \* the bearer token or the cookie
   target: User \cup {Null},         \* {user_id}; Null is an id of no account
   role: Role \cup {Null},
   active: BOOLEAN \cup {Null}]

Blank ==
  [op |-> Null, email |-> Null, passwordOk |-> TRUE, token |-> Null,
   target |-> Null, role |-> Null, active |-> Null]

Memory ==
  [user: UserRow \cup {Null},        \* the row a get_by_* returned
   pair: SUBSET Token,               \* tokens minted for the response
   victims: SUBSET Token]            \* rows a DELETE statement selected

NoMemory == [user |-> Null, pair |-> {}, victims |-> {}]

\* The API errors of exc_map.py; 500 is an exception that no handler maps;
\* "lost" is a request whose client never hears back.
DomainError == {"401", "403", "404", "409", "423"}
Status == DomainError \cup {"none", "ok", "500", "lost"}

Response == [status: Status, tokens: SUBSET Token]
NoResponse == [status |-> "none", tokens |-> {}]

RequestsTypeOK ==
  /\ pc \in [Req -> Statement \cup {"idle", "done"}]
  /\ req \in [Req -> Input]
  /\ actor \in [Req -> UserRow \cup {Null}]
  /\ mem \in [Req -> Memory]
  /\ resp \in [Req -> Response]

Running(r) == pc[r] \in Statement

\* Every token some client has been given.
Delivered == UNION {resp[r].tokens : r \in Req}

-----------------------------------------------------------------------------

Goto(r, statement) == pc' = [pc EXCEPT ![r] = statement]

\* The request ends; its session and its locals go away.
Answer(r, status, given) ==
  /\ Goto(r, "done")
  /\ resp' = [resp EXCEPT ![r] = [status |-> status, tokens |-> given]]
  /\ mem' = [mem EXCEPT ![r] = NoMemory]

\* Client input arrives and reaches the handler's first statement.
Begin(r, input, statement) ==
  /\ pc[r] = "idle"
  /\ req' = [req EXCEPT ![r] = input]
  /\ Goto(r, statement)
  /\ UNCHANGED <<now, users, tokens, tx, actor, mem, resp>>

\* InvalidCredentialsError before any statement.
Refuse(r, input) ==
  /\ pc[r] = "idle"
  /\ req' = [req EXCEPT ![r] = input]
  /\ Answer(r, "401", {})
  /\ UNCHANGED <<now, users, tokens, tx, actor>>

\* UnitOfWork.__aexit__ with an exception, which the handlers map to status.
Raise(r, status) ==
  /\ Rollback(r)
  /\ Answer(r, status, {})
  /\ UNCHANGED <<now, req, actor>>

\* UnitOfWork.__aexit__ without one.
Finish(r) ==
  /\ pc[r] = "commit"
  /\ Commit(r)
  /\ Answer(r, "ok", mem[r].pair)
  /\ UNCHANGED <<now, req, actor>>

\* A read that only stores its result.
Read(r, locals, statement) ==
  /\ mem' = [mem EXCEPT ![r] = locals]
  /\ Goto(r, statement)
  /\ UNCHANGED <<now, users, tokens, tx, req, actor, resp>>

\* A write whose effect on tx is stated next to this.
Wrote(r, statement) ==
  /\ Goto(r, statement)
  /\ UNCHANGED <<now, users, tokens, req, actor, resp>>

-----------------------------------------------------------------------------
(* Faults.                                                                 *)

\* A statement fails (connection lost, pool timeout, server error): the
\* repository raises RepositoryError, which no exception handler maps.
DatabaseError(r) == Running(r) /\ Raise(r, "500")

\* COMMIT takes effect, but its acknowledgement is lost, which the client sees
\* as a 500, or the response is.
AnswerLost(r) ==
  /\ pc[r] = "commit"
  /\ Commit(r)
  /\ \E status \in {"500", "lost"} : Answer(r, status, {})
  /\ UNCHANGED <<now, req, actor>>

\* The process dies: PostgreSQL rolls back every open transaction.
Crash ==
  /\ \E r \in Req : Running(r)
  /\ pc' = [r \in Req |-> IF Running(r) THEN "done" ELSE pc[r]]
  /\ resp' = [r \in Req |->
       IF Running(r) THEN [status |-> "lost", tokens |-> {}] ELSE resp[r]]
  /\ mem' = [r \in Req |-> IF Running(r) THEN NoMemory ELSE mem[r]]
  /\ tx' = [r \in Req |-> IF Running(r) THEN NoWrites("rolledback") ELSE tx[r]]
  /\ UNCHANGED <<now, users, tokens, req, actor>>
=============================================================================
