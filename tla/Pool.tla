-------------------------------- MODULE Pool --------------------------------
(***************************************************************************)
(* The connection pool between the requests and PostgreSQL                 *)
(* (infrastructure/database/db_helper.py), a PostgreSQL that ends          *)
(* connections, and the readiness probe (api/endpoints/health.py).         *)
(*                                                                         *)
(* A session takes a connection from the pool at its first statement and   *)
(* gives it back when its unit of work ends.  The pool does not test a     *)
(* connection before it lends it (no pool_pre_ping): one that PostgreSQL   *)
(* has closed is noticed by the statement that fails on it.                *)
(***************************************************************************)
EXTENDS ApiSafety

CONSTANTS
  Conn,           \* slots of the pool: pool_size + max_overflow
  Probe,          \* calls of GET /health/readiness
  MaxDisconnects  \* bound on the connections that PostgreSQL closes

ASSUME PoolAssumption ==
  /\ Probe \cap Req = {}
  /\ Null \notin Probe
  /\ MaxDisconnects \in Nat

VARIABLES
  lent,     \* the request or probe that has each slot, or Null
  stale,    \* slots whose connection PostgreSQL has closed
  probe,    \* each probe: its progress, its answer, whether a disconnect met it
  disconnects

poolVars == <<lent, stale, probe, disconnects>>

PoolInit ==
  /\ Init
  /\ lent = [c \in Conn |-> Null]
  /\ stale = {}
  /\ probe = [p \in Probe |-> [stage |-> "idle", answer |-> "none", shaken |-> FALSE]]
  /\ disconnects = 0

Holds(x, c) == lent[c] = x
Free == {c \in Conn : Holds(Null, c)}

Working(x) == IF x \in Req THEN Running(x) ELSE probe[x].stage = "select"

\* Mutant: the session of the service is connected already when
\* verify_access_token connects its own.
WaitingForTwo(x) ==
  /\ Working(x)
  /\ \A c \in Conn : Holds(x, c) =>
       x \in Req /\ pc[x] = "verify.get_by_id" /\ \A d \in Conn \ {c} : ~Holds(x, d)

Waiting(x) == Working(x) /\ ~ \E c \in Conn : Holds(x, c)
Cut(x) == \E c \in stale : Holds(x, c)

-----------------------------------------------------------------------------
(* The pool.                                                               *)

\* The first statement of a session checks a connection out.
Connect(x) ==
  /\ Waiting(x)
  /\ \E c \in Free : lent' = [lent EXCEPT ![c] = x]
  /\ UNCHANGED <<vars, stale, probe, disconnects>>

Return(c) == lent' = [lent EXCEPT ![c] = Null]

\* A statement fails on a closed connection: the pool replaces it, and every
\* other one that is not lent at the moment.
Discard(c) ==
  /\ Return(c)
  /\ stale' = {d \in stale \ {c} : d \notin Free}

-----------------------------------------------------------------------------
(* Requests.                                                               *)

\* Mutant: the session is closed only behind a commit.
ClosesAfterCommit(r) == pc[r] \in {"commit", "verify.get_by_id"}

\* UnitOfWork.__aexit__ closes the session.  verify_access_token has a unit of
\* work of its own: the request takes a connection a second time.
Closes(r) == pc'[r] = "done" \/ pc[r] = "verify.get_by_id"

PooledStep(r) ==
  /\ \E c \in Conn \ stale :
       /\ Holds(r, c)
       /\ Step(r)
       /\ IF Closes(r) THEN Return(c) ELSE lent' = lent
  /\ UNCHANGED <<stale, probe, disconnects>>

\* Mutant: the statement is tried again on a new connection.
Reconnect(r) ==
  /\ Running(r)
  /\ \E c \in stale : Holds(r, c) /\ stale' = stale \ {c}
  /\ UNCHANGED <<vars, lent, probe, disconnects>>

\* Mutant: the exception is swallowed.
BrokenSwallowed(r) ==
  /\ Running(r)
  /\ \E c \in stale : Holds(r, c) /\ Discard(c)
  /\ Rollback(r)
  /\ Answer(r, "ok", {})
  /\ UNCHANGED <<now, req, actor, probe, disconnects>>

BrokenConnection(r) ==
  /\ Running(r)
  /\ \E c \in stale : Holds(r, c) /\ Discard(c)
  /\ Raise(r, "500")
  /\ UNCHANGED <<probe, disconnects>>

\* QueuePool gives up after 30 seconds.
PoolTimeout(r) ==
  /\ Running(r) /\ Waiting(r) /\ Free = {}
  /\ Raise(r, "500")
  /\ UNCHANGED poolVars

-----------------------------------------------------------------------------
(* The readiness probe.                                                    *)

Proceed(p, stage, answer) ==
  probe' = [probe EXCEPT ![p].stage = stage, ![p].answer = answer]

GetReadiness(p) ==
  /\ probe[p].stage = "idle"
  /\ Proceed(p, "select", "none")
  /\ UNCHANGED <<vars, lent, stale, disconnects>>

\* The loop is left by break while the generator still has the session open.
SelectOne(p) ==
  /\ probe[p].stage = "select"
  /\ \E c \in Conn \ stale : Holds(p, c)
  /\ Proceed(p, "left", "200")
  /\ UNCHANGED <<vars, lent, stale, disconnects>>

\* except Exception: a statement that fails, or no connection to be had.
NotReady(p) ==
  /\ probe[p].stage = "select"
  /\ Proceed(p, "closed", "503")
  /\ UNCHANGED <<vars, disconnects>>

ProbeBroken(p) == NotReady(p) /\ \E c \in stale : Holds(p, c) /\ Discard(c)

ProbeTimeout(p) ==
  NotReady(p) /\ Waiting(p) /\ Free = {} /\ UNCHANGED <<lent, stale>>

\* Mutant: something keeps a reference to the generator.
FinaliseNever(p) == FALSE

\* The event loop closes the abandoned generator, and with it the session.  A
\* connection that cannot be rolled back any more is replaced.
Finalise(p) ==
  /\ probe[p].stage = "left"
  /\ probe' = [probe EXCEPT ![p].stage = "closed"]
  /\ \E c \in Conn : Holds(p, c) /\ Return(c) /\ stale' = stale \ {c}
  /\ UNCHANGED <<vars, disconnects>>

-----------------------------------------------------------------------------

\* PostgreSQL ends a session: its transaction is rolled back and its locks are
\* free at once, but a handler learns of it only from its next statement.  A
\* restart ends all of them, one after the other.  A slot that is not lent may
\* or may not have been connected before.
Disconnect(c) ==
  /\ disconnects < MaxDisconnects
  /\ disconnects' = disconnects + 1
  /\ c \notin stale /\ stale' = stale \cup {c}
  /\ tx' = [r \in Req |-> IF Holds(r, c) THEN NoWrites("open") ELSE tx[r]]
  /\ probe' = [p \in Probe |-> [probe[p] EXCEPT !.shaken = @ \/ Working(p)]]
  /\ UNCHANGED <<now, users, tokens, pc, req, actor, mem, resp, lent>>

\* It ends between a COMMIT and its acknowledgement.
CommitCutOff(r) ==
  /\ disconnects < MaxDisconnects
  /\ disconnects' = disconnects + 1
  /\ pc[r] = "commit"
  /\ \E c \in Conn \ stale : Holds(r, c) /\ Discard(c)
  /\ Commit(r)
  /\ Answer(r, "500", {})
  /\ UNCHANGED <<now, req, actor, probe>>

RequestStep(r) == PooledStep(r) \/ BrokenConnection(r)
ProbeStep(p) == SelectOne(p) \/ ProbeBroken(p) \/ Finalise(p)

PoolNext ==
  \/ \E r \in Req :
       \/ Call(r) /\ UNCHANGED poolVars
       \/ RequestStep(r) \/ PoolTimeout(r) \/ Connect(r) \/ CommitCutOff(r)
  \/ \E p \in Probe : GetReadiness(p) \/ ProbeStep(p) \/ ProbeTimeout(p) \/ Connect(p)
  \/ \E c \in Conn : Disconnect(c)

\* The pool serves whoever waits, and the event loop resumes every handler.
\* Timeouts are not relied upon, disconnects and calls need not happen.
PoolSpec ==
  /\ PoolInit /\ [][PoolNext]_<<vars, poolVars>>
  /\ \A r \in Req :
       WF_<<vars, poolVars>>(Connect(r)) /\ WF_<<vars, poolVars>>(RequestStep(r))
  /\ \A p \in Probe :
       WF_<<vars, poolVars>>(Connect(p)) /\ WF_<<vars, poolVars>>(ProbeStep(p))

-----------------------------------------------------------------------------

\* With more callers than connections, row locks between those who have one,
\* and connections that end at any moment, every request and every probe is answered
\* without anybody having to time out: nobody waits for a connection while
\* holding one, or a row (uow.py:22-32, auth_service.py:145-149,
\* health.py:19-22).
EveryCallAnswered ==
  /\ \A r \in Req : Running(r) ~> pc[r] = "done"
  /\ \A p \in Probe : probe[p].stage = "select" ~> probe[p].answer # "none"

\* A connection that is lent comes back, on the error paths too, and although
\* the probe leaves its loop with the session open (uow.py:32,
\* db_helper.py:40-42, health.py:19-22).
ConnectionsReturned == \A c \in Conn : ~Holds(Null, c) ~> Holds(Null, c)

\* README.md: readiness answers "200 if the database is reachable, else 503".
ReadyWhenReachable == \A p \in Probe : probe[p].answer = "503" => probe[p].shaken

\* Those that x must wait for: who has locked a row of its next statement, and,
\* when every connection is lent, everyone who has one.
Awaits(x) ==
  {y \in (Req \cup Probe) \ {x} :
     \/ Waiting(x) /\ Free = {} /\ \E c \in Conn : Holds(y, c)
     \/ ~Waiting(x) /\ x \in Req /\ ~Cut(x) /\ y \in WaitsFor(x)}

\* Requests and probes never wait in a circle through row locks and connections
\* together, which PostgreSQL could not see and only the 30 seconds of the pool
\* would end: whoever waits for a connection has no row locked (uow.py:22-32,
\* auth_service.py:145-149, health.py:19-22).
NoPoolDeadlock ==
  ~ \E S \in (SUBSET (Req \cup Probe)) \ {{}} : \A x \in S : Awaits(x) \cap S # {}

-----------------------------------------------------------------------------
(* Who has which connection.                                               *)

PoolTypeOK ==
  /\ lent \in [Conn -> Req \cup Probe \cup {Null}]
  /\ stale \subseteq Conn
  /\ probe \in [Probe -> [stage : {"idle", "select", "left", "closed"},
                          answer : {"none", "200", "503"}, shaken : BOOLEAN]]
  /\ disconnects \in 0 .. MaxDisconnects

\* A request between its first statement and its end, or a probe whose generator
\* is open.
InUse(x) == IF x \in Req THEN Running(x) ELSE probe[x].stage \in {"select", "left"}

\* A connection is lent to somebody who is at work, and nobody has two: a
\* session that is closed has given its connection back.
LentFits(c) ==
  ~Holds(Null, c) =>
    /\ InUse(lent[c])
    /\ \A d \in Conn : Holds(lent[c], d) => d = c

\* A request that has written something, and so locked a row, has a live
\* connection: it waits for none, and what it wrote on a connection that was cut
\* off is gone.  It has written nothing when it gives back its first connection.
WorkFits(r) ==
  pc[r] # "done" =>
    /\ resp[r] = NoResponse
    /\ tx[r] = NoWrites("open") \/ \E c \in Conn \ stale : Holds(r, c)
    /\ pc[r] = "verify.get_by_id" => tx[r] = NoWrites("open")

\* Nobody takes a second connection, or waits for one with a row locked, on any
\* path through the unit of work (uow.py:14-40, current_user.py:15-28,
\* auth_service.py:145-149).
PoolInv ==
  /\ PoolTypeOK
  /\ \A c \in Conn : LentFits(c)
  /\ \A r \in Req : WorkFits(r)
  /\ \A p \in Probe : probe[p].stage = "left" => \E c \in Conn : Holds(p, c)

-----------------------------------------------------------------------------
(* The pool implements the core with its faults: a request whose connection *)
(* was cut off has failed, although it has not noticed yet.                *)

CoreTx == [r \in Req |-> IF Cut(r) THEN NoWrites("rolledback") ELSE tx[r]]
CorePc == [r \in Req |-> IF Cut(r) THEN "done" ELSE pc[r]]
CoreMem == [r \in Req |-> IF Cut(r) THEN NoMemory ELSE mem[r]]
CoreResp ==
  [r \in Req |-> IF Cut(r) THEN [status |-> "500", tokens |-> {}] ELSE resp[r]]

C == INSTANCE Api WITH
       tx <- CoreTx, pc <- CorePc, mem <- CoreMem, resp <- CoreResp, Faults <- TRUE

\* Whatever is lent, timed out, cut off and replaced underneath, the requests
\* do what the core says they do, each failure being that of one statement
\* (db_helper.py:22-42, uow.py:14-40).
ImplementsCore == C!Spec
=============================================================================
