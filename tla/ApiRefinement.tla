---------------------------- MODULE ApiRefinement ----------------------------
(***************************************************************************)
(* The application implements Service: each request's statements, spread   *)
(* over time and mixed with those of others, amount to one step at its     *)
(* commit, or to none.                                                     *)
(***************************************************************************)
EXTENDS ApiSafety

AccountOf(u) == [id |-> u.id, email |-> u.email, role |-> u.role, active |-> u.active]
SessionOf(row) == [by |-> row.hash.by, user |-> row.user]

Asked == [r \in Req |-> req[r].op]
Accounts == {AccountOf(u) : u \in users}
Sessions == {SessionOf(row) : row \in tokens}
Over == {r \in Req : tx[r].fate # "open"}

S == INSTANCE Service WITH
       asked <- Asked, accounts <- Accounts, sessions <- Sessions, over <- Over

\* A registration shows its account and its session in one step, a refresh
\* never ends a session without opening the next, only an account that is left
\* inactive loses sessions it did not give up itself, and a request that fails
\* or dies with the process shows nothing (uow.py:22-40 around every method of
\* the two services).
ImplementsService == S!Spec
=============================================================================
