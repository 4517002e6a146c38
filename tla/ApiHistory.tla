----------------------------- MODULE ApiHistory -----------------------------
(***************************************************************************)
(* Api with history variables, for properties about requests that follow   *)
(* one another and about what a request overtook: before[r] is the set of  *)
(* requests that had been answered when request r began, settled[r] that   *)
(* of the requests that had committed when r wrote the account it is to    *)
(* change.                                                                 *)
(***************************************************************************)
EXTENDS ApiSafety

VARIABLES before, settled

Answered == {q \in Req : pc[q] = "done"}

\* The UPDATE statements on the account that an endpoint names.
WritesTarget == {"update.update", "deactivate.deactivate"}

historyVars == <<before, settled>>

HistoryInit ==
  /\ Init
  /\ before = [r \in Req |-> {}]
  /\ settled = [r \in Req |-> {}]

HistoryNext ==
  /\ Next
  /\ before' = [r \in Req |->
       IF pc[r] = "idle" /\ pc'[r] # "idle" THEN Answered ELSE before[r]]
  /\ settled' = [r \in Req |->
       IF pc[r] \in WritesTarget /\ pc'[r] # pc[r]
       THEN {q \in Req : Committed(q)} ELSE settled[r]]

HistorySpec == HistoryInit /\ [][HistoryNext]_<<vars, historyVars>>

\* With the fairness of FairSpec.
FairHistorySpec == HistorySpec /\ Fairness

-----------------------------------------------------------------------------

\* A refresh token that an answered /refresh or /logout has used up is
\* refused ever after: the reuse check works between requests that do not
\* overlap (auth_service.py:111-119, 139-142).
ReuseRefused ==
  \A q, r \in Req :
    /\ q \in before[r]
    /\ req[q].op \in {"refresh", "logout"} /\ resp[q].status = "ok"
    /\ req[r].op = "refresh" /\ req[r].token = req[q].token
    => resp[r].status # "ok"

\* The account a request acts for: by its token, or by its address.
ActsFor(r, u) ==
  \/ /\ req[r].op \in {"refresh", "create", "update", "deactivate"}
     /\ req[r].token # Null /\ req[r].token.sub = u.id
  \/ req[r].op = "login" /\ req[r].email = u.email

\* Another PUT of account id has committed since q began, or it was not answered
\* when q began and may have.
PutSince(q, id) ==
  \E p \in Req \ (before[q] \cup {q}) :
    Committed(p) /\ req[p].op = "update" /\ req[p].target = id

\* q has deactivated account id, or has made it an ordinary one, for good.
Deactivated(q, id) ==
  /\ Committed(q) /\ req[q].target = id /\ ~PutSince(q, id)
  /\ req[q].op = "deactivate" \/ (req[q].op = "update" /\ req[q].active = FALSE)

Demoted(q, id) ==
  /\ Committed(q) /\ req[q].target = id /\ ~PutSince(q, id)
  /\ req[q].op = "update" /\ req[q].role = "USER"

\* After a DELETE or a PUT that deactivates an account has been answered, and as
\* long as no other PUT of that account commits, no request that follows
\* succeeds in its name, although access tokens are not revoked
\* (user_service.py:74-104, auth_service.py:44-56, 115-117, 144-160).
DeactivatedIsLockedOut ==
  \A q, r \in Req : \A u \in users :
    q \in before[r] /\ Deactivated(q, u.id) /\ ActsFor(r, u) => resp[r].status # "ok"

\* r asks in the name of account id for what only an administrator may do.
ActsAsAdmin(r, id) ==
  /\ req[r].op \in {"create", "update", "deactivate"}
  /\ req[r].token # Null /\ req[r].token.sub = id
  /\ req[r].op = "update" => req[r].target # id

\* The role that get_current_user returns is not read again, so an overlapping
\* request may still act on one that is gone; but once the PUT that takes it
\* away has been answered, nothing that begins is done by right of it, although
\* the access tokens stay valid (current_user.py:11-31, auth_service.py:144-160).
DemotedIsNoAdmin ==
  \A q, r \in Req :
    q \in before[r] /\ Demoted(q, req[q].target) /\ ActsAsAdmin(r, req[q].target)
    => resp[r].status # "ok"

-----------------------------------------------------------------------------
(* What is visible of a deactivation.                                      *)

Commits(r) == ~Committed(r) /\ Committed(r)'

TurnsInactive(id) ==
  \E u \in users, w \in users' : u.id = id /\ w.id = id /\ u.active /\ ~w.active

\* After the step, r's target has no session that was there when r wrote it.
RevokesAll(r) ==
  \A row \in tokens' : row.user = req[r].target => row.hash.by \notin settled[r]

\* q is a PUT of r's target that does not deactivate it.
LeavesActive(q, r) ==
  req[q].op = "update" /\ req[q].target = req[r].target /\ req[q].active # FALSE

\* One committed between the arrival of r and its UPDATE: r may have read the
\* account as inactive.
Overtaken(r) == \E q \in settled[r] \ before[r] : LeavesActive(q, r)

\* An account becomes inactive in the step in which a request that deactivates
\* it commits, and in that step, if at all, all the sessions disappear that were
\* committed before its row was locked: never the one without the other,
\* whatever refreshes meanwhile and whichever statement fails
\* (user_service.py:87-93, 103-104, uow.py:22-40).  A DELETE always does so.  A
\* PUT decides by was_active, which it read before the UPDATE, and can miss
\* only the sessions of an account that a PUT it overlaps has re-activated.
DeactivationRevokes ==
  [][/\ \A id \in User : TurnsInactive(id) =>
          \E r \in Req :
            /\ Commits(r) /\ req[r].target = id
            /\ \/ RevokesAll(r)
               \/ req[r].op = "update" /\ Overtaken(r)
     /\ \A r \in Req : Commits(r) /\ req[r].op = "deactivate" => RevokesAll(r)
    ]_<<vars, historyVars>>

-----------------------------------------------------------------------------
(* The inductive invariant behind the theorems of ClientProofs.            *)

\* Requests q and r present the same refresh token, and q has used it up.
Reuses(r, q) ==
  /\ Committed(q) /\ req[q].op \in {"refresh", "logout"}
  /\ req[r].op = "refresh" /\ req[r].token = req[q].token

\* The statements that a handler executes before it has seen is_active.
Unverified == {"login.get_by_email", "refresh.get_by_user_and_hash", "refresh.get_by_id",
               "verify.get_by_id"}

\* Where request r is that follows q.
FollowFits(r, q) ==
  /\ q \in Req /\ pc[q] = "done"
  /\ Reuses(r, q) =>
       pc[r] \in {"refresh.get_by_user_and_hash", "done"} /\ resp[r].status # "ok"
  /\ \A u \in users : Deactivated(q, u.id) /\ ActsFor(r, u) =>
       pc[r] \in Unverified \cup {"done"} /\ resp[r].status # "ok"
  /\ Demoted(q, req[q].target) /\ ActsAsAdmin(r, req[q].target) =>
       pc[r] \in {"verify.get_by_id", "done"} /\ resp[r].status # "ok"

\* A PUT writes what its body asks for.
PutFits(r) ==
  req[r].op = "update" =>
    \A w \in tx[r].users :
      /\ req[r].role # Null => w.role = req[r].role
      /\ req[r].active # Null => w.active = req[r].active

\* An account that r has read as inactive still is, or a request has committed
\* meanwhile that explains why not.
ReadFits(r) ==
  pc[r] = "update.update" /\ ~mem[r].user.active =>
    \/ \A u \in users : u.id = req[r].target => ~u.active
    \/ \E q \in Req \ before[r] : Committed(q) /\ LeavesActive(q, r)

\* The commit of r is about to deactivate an account.
Deactivates(r) ==
  /\ pc[r] = "commit"
  /\ \/ req[r].op = "deactivate"
     \/ /\ req[r].op = "update"
        /\ \E u \in users, w \in tx[r].users : u.id = w.id /\ u.active /\ ~w.active

\* The rows that a deactivation by r is to delete.
Earlier(r) == {row \in tokens : row.user = req[r].target /\ row.hash.by \in settled[r]}

\* They are selected, then deleted.
RevokeFits(r) ==
  /\ pc[r] = "revoke.delete" => \A row \in Earlier(r) : row.hash \in mem[r].victims
  /\ Deactivates(r) =>
       \/ \A row \in Earlier(r) : row.hash \in tx[r].dels
       \/ req[r].op = "update" /\ Overtaken(r)

HistoryFits(r) ==
  /\ pc[r] = "idle" => before[r] = {}
  /\ resp[r].status = "ok" => Committed(r)
  /\ \A q \in before[r] : FollowFits(r, q)
  /\ \A q \in settled[r] : q \in Req /\ Committed(q)
  /\ PutFits(r)
  /\ ReadFits(r)
  /\ RevokeFits(r)

\* The account that q has changed is there, and what q has taken from it is gone
\* for good, if it is.
ChangeStays(q) ==
  Committed(q) /\ req[q].op \in {"update", "deactivate"} =>
    \E u \in users :
      /\ u.id = req[q].target
      /\ Deactivated(q, u.id) => ~u.active
      /\ Demoted(q, u.id) => u.role = "USER"

\* What a request has undone stays undone, so that a request which follows gets
\* no further than the statement that finds out; a deactivation has found all
\* the sessions that there were when it wrote the account.
HistoryInv ==
  /\ \A q \in Req : ChangeStays(q)
  /\ \A r \in Req : HistoryFits(r)
=============================================================================
