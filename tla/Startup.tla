------------------------------- MODULE Startup -------------------------------
(***************************************************************************)
(* Start-up: entrypoint.sh waits for PostgreSQL and runs the migration,    *)
(* main.py's lifespan creates the bootstrap administrator, then the        *)
(* application serves.  actions/run.py is a script that creates the        *)
(* administrator too, at any time and without the migration.  Containers   *)
(* are restarted by docker-compose.yml, the script is not.                 *)
(*                                                                         *)
(* stage[p] names the database statement process p is suspended at, as pc  *)
(* does in Requests.                                                       *)
(***************************************************************************)
EXTENDS Naturals

CONSTANTS
  Container,   \* processes started by the entrypoint
  Script,      \* runs of actions/run.py
  Null,        \* None
  MaxFaults    \* bound: crashes, failed statements and database outages

Process == Container \cup Script

ASSUME StartupAssumption ==
  /\ Container \cap Script = {}
  /\ Null \notin Process
  /\ MaxFaults \in Nat

VARIABLES
  dbUp,      \* PostgreSQL accepts connections
  migrated,  \* revision 0001 is committed
  accounts,  \* committed rows of users with the address APP_ADMIN_EMAIL
  pending,   \* the row each process has inserted and not committed
  stage,
  faults     \* crashes and outages so far

vars == <<dbUp, migrated, accounts, pending, stage, faults>>

\* A row: the process that inserted it, its creator, and what administrators
\* can change later.
Account == [by: Process, createdBy: Process \cup {Null}, admin: BOOLEAN]

\* Stages in which a process is suspended at a statement.
Statement ==
  {"migrate.check", "migrate.create", "migrate.commit",
   "admin.lookup", "admin.insert", "admin.update", "admin.commit", "admin.refresh"}

Stage == Statement \cup {"idle", "down", "waiting", "serving", "exited"}

TypeOK ==
  /\ dbUp \in BOOLEAN
  /\ migrated \in BOOLEAN
  /\ accounts \subseteq Account
  /\ pending \in [Process -> SUBSET Account]
  /\ stage \in [Process -> Stage]
  /\ faults \in 0..MaxFaults

\* A fresh volume, nothing started.
Init ==
  /\ dbUp = FALSE
  /\ migrated = FALSE
  /\ accounts = {}
  /\ pending = [p \in Process |-> {}]
  /\ stage = [p \in Process |-> IF p \in Container THEN "down" ELSE "idle"]
  /\ faults = 0

-----------------------------------------------------------------------------

Goto(p, next) == stage' = [stage EXCEPT ![p] = next]

\* What a process that fails becomes.
Stopped(p) == IF p \in Container THEN "down" ELSE "exited"

\* set -e, or an exception that leaves lifespan or run(): the process ends and
\* PostgreSQL rolls its transaction back.
Stop(p) ==
  /\ Goto(p, Stopped(p))
  /\ pending' = [pending EXCEPT ![p] = {}]
  /\ UNCHANGED <<dbUp, migrated, accounts>>

\* A step that moves on.
Advance(p, here, next) ==
  /\ stage[p] = here
  /\ Goto(p, next)
  /\ UNCHANGED <<dbUp, faults>>

Others(p) == Process \ {p}

-----------------------------------------------------------------------------
(* entrypoint.sh                                                           *)

\* Docker starts a stopped container.
StartContainer(p) ==
  /\ p \in Container
  /\ Advance(p, "down", "waiting")
  /\ UNCHANGED <<migrated, accounts, pending>>

\* until pg_isready
WaitForPostgres(p) ==
  /\ dbUp
  /\ Advance(p, "waiting", "migrate.check")
  /\ UNCHANGED <<migrated, accounts, pending>>

\* alembic upgrade head reads the revision it is at,
MigrateCheck(p) ==
  /\ Advance(p, "migrate.check", IF migrated THEN "admin.lookup" ELSE "migrate.create")
  /\ UNCHANGED <<migrated, accounts, pending>>

\* creates the tables, waiting for another process that is creating them and
\* failing on those it finds,
MigrateCreate(p) ==
  /\ stage[p] = "migrate.create"
  /\ \A q \in Others(p) : stage[q] # "migrate.commit"
  /\ IF migrated
     THEN Stop(p) /\ UNCHANGED faults
     ELSE Advance(p, "migrate.create", "migrate.commit")
          /\ UNCHANGED <<migrated, accounts, pending>>

\* and commits.
MigrateCommit(p) ==
  /\ Advance(p, "migrate.commit", "admin.lookup")
  /\ migrated' = TRUE
  /\ UNCHANGED <<accounts, pending>>

-----------------------------------------------------------------------------
(* create_admin                                                            *)

StartScript(p) ==
  /\ p \in Script
  /\ Advance(p, "idle", IF dbUp THEN "admin.lookup" ELSE "exited")
  /\ UNCHANGED <<migrated, accounts, pending>>

\* The application starts to serve; the script is done.
Done(p) == IF p \in Container THEN "serving" ELSE "exited"

\* Mutant: an account that exists is not noticed.
AdminLookupBlind(p) ==
  /\ stage[p] = "admin.lookup"
  /\ IF migrated
     THEN Advance(p, "admin.lookup", "admin.insert")
          /\ UNCHANGED <<migrated, accounts, pending>>
     ELSE Stop(p) /\ UNCHANGED faults

\* An account with the address is left as it is, whatever its role by now.
AdminLookup(p) ==
  /\ stage[p] = "admin.lookup"
  /\ IF migrated
     THEN Advance(p, "admin.lookup", IF accounts # {} THEN Done(p) ELSE "admin.insert")
          /\ UNCHANGED <<migrated, accounts, pending>>
     ELSE Stop(p) /\ UNCHANGED faults

\* Mutant: no unique constraint.
AdminInsertUnchecked(p) ==
  /\ Advance(p, "admin.insert", "admin.update")
  /\ pending' = [pending EXCEPT ![p] = {[by |-> p, createdBy |-> Null, admin |-> TRUE]}]
  /\ UNCHANGED <<migrated, accounts>>

\* session.flush: waits for another process that has inserted the address;
\* IntegrityError is not caught.
AdminInsert(p) ==
  /\ stage[p] = "admin.insert"
  /\ \A q \in Others(p) : pending[q] = {}
  /\ IF accounts # {}
     THEN Stop(p) /\ UNCHANGED faults
     ELSE /\ Advance(p, "admin.insert", "admin.update")
          /\ pending' = [pending EXCEPT ![p] = {[by |-> p, createdBy |-> Null, admin |-> TRUE]}]
          /\ UNCHANGED <<migrated, accounts>>

\* created_by, flushed by session.commit,
AdminUpdate(p) ==
  /\ Advance(p, "admin.update", "admin.commit")
  /\ pending' = [pending EXCEPT ![p] = {[a EXCEPT !.createdBy = p] : a \in @}]
  /\ UNCHANGED <<migrated, accounts>>

\* Mutant: the session is closed without a commit.
AdminCommitForgotten(p) ==
  /\ Advance(p, "admin.commit", "admin.refresh")
  /\ pending' = [pending EXCEPT ![p] = {}]
  /\ UNCHANGED <<migrated, accounts>>

\* and the commit itself.
AdminCommit(p) ==
  /\ Advance(p, "admin.commit", "admin.refresh")
  /\ accounts' = accounts \cup pending[p]
  /\ pending' = [pending EXCEPT ![p] = {}]
  /\ UNCHANGED migrated

\* session.refresh, then lifespan yields.
AdminRefresh(p) ==
  /\ Advance(p, "admin.refresh", Done(p))
  /\ UNCHANGED <<migrated, accounts, pending>>

-----------------------------------------------------------------------------
(* What happens meanwhile.                                                 *)

\* PUT and DELETE /users/{id} by an administrator, in an application that
\* serves.
ChangeAccount ==
  /\ \E p \in Container : stage[p] = "serving"
  /\ \E a \in accounts, admin \in BOOLEAN :
       accounts' = (accounts \ {a}) \cup {[a EXCEPT !.admin = admin]}
  /\ UNCHANGED <<dbUp, migrated, pending, stage, faults>>

Fault == faults < MaxFaults /\ faults' = faults + 1

\* A process dies, or its statement fails.
Fail(p) ==
  /\ stage[p] \in Statement \cup {"waiting", "serving"}
  /\ Fault
  /\ Stop(p)

\* A COMMIT takes effect and its acknowledgement is lost.
CommitUnacknowledged(p) ==
  /\ Fault
  /\ \/ /\ stage[p] = "migrate.commit"
        /\ migrated' = TRUE
        /\ UNCHANGED <<accounts, pending>>
     \/ /\ stage[p] = "admin.commit"
        /\ accounts' = accounts \cup pending[p]
        /\ pending' = [pending EXCEPT ![p] = {}]
        /\ UNCHANGED migrated
  /\ Goto(p, Stopped(p))
  /\ UNCHANGED dbUp

\* PostgreSQL stops: every statement under way fails.
DatabaseStops ==
  /\ dbUp
  /\ Fault
  /\ dbUp' = FALSE
  /\ stage' = [p \in Process |-> IF stage[p] \in Statement THEN Stopped(p) ELSE stage[p]]
  /\ pending' = [p \in Process |-> {}]
  /\ UNCHANGED <<migrated, accounts>>

DatabaseStarts ==
  /\ ~dbUp
  /\ dbUp' = TRUE
  /\ UNCHANGED <<migrated, accounts, pending, stage, faults>>

-----------------------------------------------------------------------------

Step(p) ==
  \/ WaitForPostgres(p) \/ MigrateCheck(p) \/ MigrateCreate(p) \/ MigrateCommit(p)
  \/ AdminLookup(p) \/ AdminInsert(p) \/ AdminUpdate(p) \/ AdminCommit(p)
  \/ AdminRefresh(p)

Next ==
  \/ \E p \in Process :
       Step(p) \/ StartContainer(p) \/ StartScript(p) \/ Fail(p) \/ CommitUnacknowledged(p)
  \/ ChangeAccount \/ DatabaseStops \/ DatabaseStarts

Spec == Init /\ [][Next]_vars

\* restart: unless-stopped brings every container and PostgreSQL back.
FairSpec ==
  /\ Spec
  /\ WF_vars(DatabaseStarts)
  /\ \A p \in Process : WF_vars(Step(p)) /\ WF_vars(StartContainer(p))

-----------------------------------------------------------------------------

\* However containers and scripts that start at the same time race for the
\* bootstrap administrator, one account is created, complete with its creator
\* (first_admin.py:15-34).
OneBootstrapAccount ==
  /\ \A a, b \in accounts : a = b
  /\ \A a \in accounts : a.createdBy = a.by

\* No client can ever find the bootstrap address free: where an application
\* serves, the tables and the account exist, whatever failed on the way
\* (main.py:17-22, entrypoint.sh:24-32).
ServingIsBootstrapped ==
  \A p \in Container : stage[p] = "serving" => migrated /\ accounts # {}

\* What a process has established when it reaches a statement.
StageFits(p) ==
  /\ stage[p] \in {"down", "waiting", "migrate.check", "migrate.create",
                   "migrate.commit", "serving"} => p \in Container
  /\ stage[p] \in {"admin.insert", "admin.update", "admin.commit", "admin.refresh",
                   "serving"} => migrated
  /\ stage[p] \in {"admin.refresh", "serving"} => accounts # {}
  /\ pending[p] # {} <=> stage[p] \in {"admin.update", "admin.commit"}
  /\ \A a \in pending[p] : a.by = p /\ (stage[p] = "admin.commit" => a.createdBy = p)
  /\ \A a, b \in pending[p] : a = b

\* Only one process has the account inserted and not committed, and only as
\* long as none is committed.
OnePending ==
  \A p \in Process : pending[p] # {} =>
    accounts = {} /\ \A q \in Others(p) : pending[q] = {}

\* Inductive: at every statement of every process, what went before it at that
\* process and at the others still holds, whatever has failed in between
\* (first_admin.py:15-35).
StartupInv ==
  /\ TypeOK
  /\ OneBootstrapAccount
  /\ OnePending
  /\ \A p \in Process : StageFits(p)

\* Every container serves in the end, and again after every crash: the loser
\* of a race for the tables or for the account succeeds when it is restarted
\* (entrypoint.sh:2, 15-32, first_admin.py:15-21).
EveryContainerServes ==
  \A p \in Container : stage[p] # "serving" ~> stage[p] = "serving"
=============================================================================
