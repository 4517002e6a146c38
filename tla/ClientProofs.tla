---------------------------- MODULE ClientProofs -----------------------------
(***************************************************************************)
(* What a client meets.  First, requests that follow one another: what a   *)
(* committed request has undone, a session or an account, the next one     *)
(* finds undone at the statement that looks for it; HistoryInv says how    *)
(* far it gets.  Then cookies and rows: a cookie is the token of an answer *)
(* that arrived, and no two answers carry the same token, so an answer     *)
(* that arrives late cannot bring back what another one has used up.       *)
(***************************************************************************)
EXTENDS RefinementProofs, ApiHistory, Browser

\* The requests that r follows are those that had ended when it began, and those
\* that had committed when it wrote its target are the ones that it left behind.
Follows ==
  /\ before' = [r \in Req |->
       IF pc[r] = "idle" /\ pc'[r] # "idle" THEN Answered ELSE before[r]]
  /\ settled' = [r \in Req |->
       IF pc[r] \in WritesTarget /\ pc'[r] # pc[r]
       THEN {q \in Req : Committed(q)} ELSE settled[r]]

\* A PUT that has committed has done so for good.
LEMMA PutSinceKept ==
  ASSUME TypeInv, LockOrder, NEW r \in Req, Call(r) \/ Step(r) \/ Fault(r), Follows,
         NEW q \in Req, Committed(q), NEW id, PutSince(q, id)
  PROVE  PutSince(q, id)'
<1>1. before'[q] = before[q]
  BY DEF Follows, LockOrder, LockFits
<1>2. ASSUME NEW p \in Req, Committed(p) PROVE Committed(p)' /\ req'[p] = req[p]
  BY <1>2, CommittedKept, OneRequest DEF MovesOnly, Others
<1> QED
  BY <1>1, <1>2 DEF PutSince

\* What a request has done for good after a step, and not in it, it had done
\* before.
LEMMA DoneBefore ==
  ASSUME TypeInv, LockOrder, NEW r \in Req, Call(r) \/ Step(r) \/ Fault(r), Follows,
         NEW q \in Req, Committed(q), NEW id
  PROVE  /\ Deactivated(q, id)' => Deactivated(q, id)
         /\ Demoted(q, id)' => Demoted(q, id)
<1>1. req'[q] = req[q]
  BY CommittedKept, OneRequest DEF MovesOnly, Others
<1>2. PutSince(q, id) => PutSince(q, id)'
  BY PutSinceKept
<1> QED
  BY <1>1, <1>2 DEF Deactivated, Demoted

-----------------------------------------------------------------------------
(* Accounts that a request has changed.                                    *)

\* What a commit writes into an account that is there, it writes for an endpoint
\* that changes accounts.
LEMMA WritesAccount ==
  ASSUME CommitInv, NEW r \in Req, Publishes(r), NEW u \in users, NEW w \in tx[r].users,
         w.id = u.id
  PROVE  /\ req[r].op \in {"update", "deactivate"} /\ w.id = req[r].target
         /\ req[r].op = "deactivate" => ~w.active /\ u.role = w.role
<1> USE DEF CommitInv
<1>1. /\ pc[r] = "commit" /\ ~Committed(r) /\ AccountFits(r) /\ EffectFits(r)
  BY DEF Publishes, LockOrder, LockFits, AccountInv, EffectInv
<1>2. WriteFits(r, w)
  BY <1>1 DEF EffectFits
<1>3. ~MakesAccount(r)
  <2>1. u.id # r
    BY <1>1 DEF AccountInv
  <2> QED
    BY <1>1, <2>1 DEF AccountFits
<1> QED
  BY <1>2, <1>3 DEF WriteFits, MakesAccount

\* The account that a committed request has changed stays changed.
LEMMA ChangeKept ==
  ASSUME CommitInv, HistoryInv, NEW r \in Req, Call(r) \/ Step(r) \/ Fault(r), Follows,
         NEW q \in Req
  PROVE  ChangeStays(q)'
<1> SUFFICES ASSUME Committed(q)', req'[q].op \in {"update", "deactivate"}
             PROVE  \E u \in users' : /\ u.id = req'[q].target
                                      /\ Deactivated(q, u.id)' => ~u.active
                                      /\ Demoted(q, u.id)' => u.role = "USER"
  BY DEF ChangeStays
<1> USE DEF CommitInv
<1>1. req'[q] = req[q] /\ (q # r => Committed(q)) /\ (q = r => Publishes(r))
  BY OnlyCommitCommits
<1>2. q # r => \E u \in users : /\ u.id = req[q].target
                                /\ Deactivated(q, u.id)' => ~u.active
                                /\ Demoted(q, u.id)' => u.role = "USER"
  <2> SUFFICES ASSUME q # r
               PROVE  \E u \in users : /\ u.id = req[q].target
                                       /\ Deactivated(q, u.id)' => ~u.active
                                       /\ Demoted(q, u.id)' => u.role = "USER"
    OBVIOUS
  <2>1. ChangeStays(q)
    BY DEF HistoryInv
  <2>2. PICK u \in users : /\ u.id = req[q].target
                           /\ Deactivated(q, u.id) => ~u.active
                           /\ Demoted(q, u.id) => u.role = "USER"
    BY <1>1, <2>1 DEF ChangeStays
  <2>3. /\ Deactivated(q, u.id)' => Deactivated(q, u.id)
        /\ Demoted(q, u.id)' => Demoted(q, u.id)
    BY <1>1, DoneBefore
  <2> QED
    BY <2>2, <2>3
<1>3. CASE ~Publishes(r)
  <2>1. users' = users
    BY <1>3, OnlyCommitPublishes DEF Publishes
  <2> QED
    BY <1>1, <1>2, <1>3, <2>1
<1>4. CASE Publishes(r)
  <2>1. /\ users' = SeenUsers(r) /\ pc[r] = "commit" /\ ~Committed(r) /\ Committed(r)'
        /\ tx[r].users \subseteq users' /\ req'[r] = req[r] /\ EffectFits(r)
    BY <1>4, PublishedRows DEF Publishes, Commit, LockOrder, LockFits, EffectInv
  <2>2. CASE q = r
    <3>1. PICK w \in tx[r].users : TRUE
      BY <1>1, <2>1, <2>2 DEF EffectFits
    <3>2. WriteFits(r, w) /\ PutFits(r)
      BY <2>1 DEF EffectFits, HistoryInv, HistoryFits
    <3>3. w.id = req[r].target
      BY <1>1, <2>1, <2>2, <3>2 DEF WriteFits
    <3>4. Deactivated(r, w.id)' => ~w.active
      BY <2>1, <3>2, NullAssumption DEF Deactivated, WriteFits, PutFits
    <3>5. Demoted(r, w.id)' => w.role = "USER"
      BY <2>1, <3>2, NullAssumption DEF Demoted, PutFits, Role
    <3> QED
      BY <1>1, <2>1, <2>2, <3>3, <3>4, <3>5
  <2>3. CASE q # r
    <3>1. PICK u \in users : /\ u.id = req[q].target
                             /\ Deactivated(q, u.id)' => ~u.active
                             /\ Demoted(q, u.id)' => u.role = "USER"
      BY <1>2, <2>3
    <3>2. CASE \A w \in tx[r].users : w.id # u.id
      BY <1>1, <2>1, <3>1, <3>2 DEF SeenUsers, Overlay
    <3>3. ASSUME NEW w \in tx[r].users, w.id = u.id
          PROVE  /\ Deactivated(q, w.id)' => ~w.active
                 /\ Demoted(q, w.id)' => w.role = "USER"
      <4>1. /\ req[r].op \in {"update", "deactivate"} /\ w.id = req[r].target
            /\ req[r].op = "deactivate" => ~w.active /\ u.role = w.role
        BY <1>4, <3>3, WritesAccount
      <4>2. CASE req[r].op = "update"
        <5>1. before'[q] = before[q] /\ r \notin before[q]
          BY <1>1, <2>1, <2>3 DEF Follows, LockOrder, LockFits, HistoryInv, HistoryFits, FollowFits
        <5>2. PutSince(q, w.id)'
          BY <2>1, <2>3, <4>1, <4>2, <5>1 DEF PutSince
        <5> QED
          BY <5>2 DEF Deactivated, Demoted
      <4>3. CASE req[r].op = "deactivate"
        BY <3>1, <3>3, <4>1, <4>3
      <4> QED
        BY <4>1, <4>2, <4>3
    <3> QED
      BY <1>1, <2>1, <3>1, <3>2, <3>3
  <2> QED
    BY <2>2, <2>3
<1> QED
  BY <1>3, <1>4

\* An account that is deactivated after a step was so before, under the same
\* address, if it is not the step that deactivates it.
LEMMA DeactivatedBefore ==
  ASSUME CommitInv, HistoryInv, NEW r \in Req, Call(r) \/ Step(r) \/ Fault(r), Follows,
         NEW q \in Req, pc[q] = "done", NEW u \in users', Deactivated(q, u.id)'
  PROVE  /\ Deactivated(q, u.id)
         /\ \E v \in users : v.id = u.id /\ v.email = u.email /\ ~v.active
<1> USE DEF CommitInv
<1>1. Committed(q)
  BY EndedStays DEF Deactivated, Committed
<1>2. Deactivated(q, u.id)
  BY <1>1, DoneBefore
<1>3. PICK v \in users : v.id = u.id /\ ~v.active
  <2>1. ChangeStays(q)
    BY DEF HistoryInv
  <2> QED
    BY <1>2, <2>1 DEF Deactivated, ChangeStays
<1>4. v.email = u.email
  <2>1. CASE Publishes(r)
    <3>1. ~Committed(r) /\ Committed(v.id)
      BY <2>1 DEF Publishes, LockOrder, LockFits, AccountInv
    <3>2. PICK x \in users : u.id = x.id /\ u.email = x.email
      BY <1>3, <2>1, <3>1, PublishedRows
    <3> QED
      BY <1>3, <3>2 DEF AccountInv
  <2>2. CASE ~Publishes(r)
    BY <1>3, <2>2, OnlyCommitPublishes DEF AccountInv, Publishes
  <2> QED
    BY <2>1, <2>2
<1> QED
  BY <1>2, <1>3, <1>4

-----------------------------------------------------------------------------
(* The statements that find out.                                           *)

\* A used token is not found.
LEMMA ReuseStops ==
  ASSUME CommitInv, NEW r \in Req, Step(r) \/ Fault(r), NEW q \in Req, Reuses(r, q),
         pc[r] = "refresh.get_by_user_and_hash"
  PROVE  pc'[r] = "done"
<1> USE DEF CommitInv
<1>1. GetByUserAndHash(r, Presented(r).sub, Presented(r)) = {}
  <2>1. HasConsumed(q) /\ pc[q] = "done" /\ tx[q].dels = {} /\ tx[r].adds = {}
    BY DEF HasConsumed, Reuses, LockOrder, LockFits
  <2>2. \A row \in tokens : row.hash # req[q].token
    BY <2>1 DEF SessionInv, SessionFits
  <2> QED
    BY <2>1, <2>2 DEF GetByUserAndHash, SeenTokens, Presented, Reuses
<1>2. ASSUME NEW status, Raise(r, status) PROVE pc'[r] = "done"
  BY <1>2 DEF Raise, Answer, Goto, TypeInv, TypeOK, RequestsTypeOK
<1>3. RefreshGetToken(r) \/ DatabaseError(r)
  BY DEF Step, AuthStep, UserStep, Fault, AnswerLost, Finish, RegisterLookup, RegisterAdd,
         RegisterUpdate, LookupNewEmail, AddUser, SetCreatedBy, IssueTokenPair, RefreshIssue,
         MintPair, LoginAuthenticate, RefreshGetUser, RefreshDelete, LogoutDelete, DeleteByHash,
         VerifyAccessToken, CreateLookup, CreateAdd, CreateUpdate, UpdateLoad, UpdateWrite,
         DeactivateLoad, DeactivateWrite, RevokeSnapshot, RevokeDelete
<1> QED
  BY <1>1, <1>2, <1>3 DEF RefreshGetToken, DatabaseError

\* A deactivated account is found to be.
LEMMA InactiveStops ==
  ASSUME CommitInv, NEW r \in Req, Step(r) \/ Fault(r), NEW v \in users, ~v.active,
         ActsFor(r, v), pc[r] \in Unverified
  PROVE  pc'[r] \in {"refresh.get_by_id", "done"}
<1> USE DEF CommitInv
<1>1. SeenUsers(r) = users /\ users \subseteq UserRow
  BY DEF Unverified, LockOrder, LockFits, SeenUsers, Overlay, TypeInv, TypeOK, StoreTypeOK
<1>2. ASSUME NEW status, Raise(r, status) PROVE pc'[r] = "done"
  BY <1>2 DEF Raise, Answer, Goto, TypeInv, TypeOK, RequestsTypeOK
<1>3. pc[r] = "login.get_by_email" => GetByEmail(r, req[r].email) = {v}
  <2> SUFFICES ASSUME pc[r] = "login.get_by_email" PROVE GetByEmail(r, req[r].email) = {v}
    OBVIOUS
  <2>1. req[r].op = "login"
    BY PartsType DEF Fits, StatementFits
  <2>2. req[r].email = v.email
    BY <2>1 DEF ActsFor
  <2> QED
    BY <1>1, <2>2 DEF GetByEmail, AccountInv
<1>4. pc[r] \in {"refresh.get_by_id", "verify.get_by_id"} =>
        GetById(r, Presented(r).sub) = {v}
  <2> SUFFICES ASSUME pc[r] \in {"refresh.get_by_id", "verify.get_by_id"}
               PROVE  GetById(r, Presented(r).sub) = {v}
    OBVIOUS
  <2>1. req[r].op # "login"
    BY PartsType DEF Fits, StatementFits
  <2>2. Presented(r).sub = v.id
    BY <2>1 DEF ActsFor, Presented
  <2> QED
    BY <1>1, <2>2 DEF GetById, AccountInv
<1>5. \/ LoginAuthenticate(r) \/ RefreshGetToken(r) \/ RefreshGetUser(r)
      \/ VerifyAccessToken(r) \/ DatabaseError(r)
  BY DEF Unverified, Step, AuthStep, UserStep, Fault, AnswerLost, Finish, RegisterLookup,
         RegisterAdd, RegisterUpdate, LookupNewEmail, AddUser, SetCreatedBy, IssueTokenPair,
         RefreshIssue, MintPair, RefreshDelete, LogoutDelete, DeleteByHash, CreateLookup,
         CreateAdd, CreateUpdate, UpdateLoad, UpdateWrite, DeactivateLoad, DeactivateWrite,
         RevokeSnapshot, RevokeDelete
<1>6. CASE LoginAuthenticate(r)
  BY <1>2, <1>3, <1>6 DEF LoginAuthenticate
<1>7. CASE RefreshGetToken(r)
  BY <1>2, <1>7 DEF RefreshGetToken, Read, Goto, TypeInv, TypeOK, RequestsTypeOK
<1>8. CASE RefreshGetUser(r) \/ VerifyAccessToken(r)
  <2>1. GetById(r, Presented(r).sub) = {v}
    BY <1>4, <1>8 DEF RefreshGetUser, VerifyAccessToken
  <2> QED
    BY <1>2, <1>8, <2>1 DEF RefreshGetUser, VerifyAccessToken, Usable
<1> QED
  BY <1>2, <1>5, <1>6, <1>7, <1>8 DEF DatabaseError


\* An account that is no administrator is found to be none.
LEMMA DemotedStops ==
  ASSUME CommitInv, NEW r \in Req, Step(r) \/ Fault(r), NEW v \in users, v.role = "USER",
         ActsAsAdmin(r, v.id), pc[r] = "verify.get_by_id"
  PROVE  pc'[r] = "done"
<1> USE DEF CommitInv
<1>1. GetById(r, Presented(r).sub) = {v}
  <2>1. SeenUsers(r) = users
    BY DEF LockOrder, LockFits, SeenUsers, Overlay
  <2> QED
    BY <2>1 DEF ActsAsAdmin, Presented, GetById, AccountInv
<1>2. ~Allowed(v, req[r])
  BY DEF Allowed, ActsAsAdmin
<1>3. ASSUME NEW status, Raise(r, status) PROVE pc'[r] = "done"
  BY <1>3 DEF Raise, Answer, Goto, TypeInv, TypeOK, RequestsTypeOK
<1>4. VerifyAccessToken(r) \/ DatabaseError(r)
  BY DEF Step, AuthStep, UserStep, Fault, AnswerLost, Finish, RegisterLookup, RegisterAdd,
         RegisterUpdate, LookupNewEmail, AddUser, SetCreatedBy, IssueTokenPair, RefreshIssue,
         MintPair, LoginAuthenticate, RefreshGetToken, RefreshGetUser, RefreshDelete,
         LogoutDelete, DeleteByHash, CreateLookup, CreateAdd, CreateUpdate, UpdateLoad,
         UpdateWrite, DeactivateLoad, DeactivateWrite, RevokeSnapshot, RevokeDelete
<1> QED
  BY <1>1, <1>2, <1>3, <1>4 DEF VerifyAccessToken, DatabaseError

-----------------------------------------------------------------------------
(* How an account is changed.                                              *)

\* The steps of a PUT and a DELETE.
LEMMA ChangeSteps ==
  ASSUME TypeInv, NEW r \in Req, Step(r) \/ Fault(r), req[r].op \in {"update", "deactivate"}
  PROVE  \/ VerifyAccessToken(r)
         \/ req[r].op = "update" /\ (UpdateLoad(r) \/ UpdateWrite(r))
         \/ req[r].op = "deactivate" /\ (DeactivateLoad(r) \/ DeactivateWrite(r))
         \/ RevokeSnapshot(r) \/ RevokeDelete(r) \/ Finish(r) \/ Fault(r)
<1>1. StatementFits(pc[r], req[r].op)
  BY DEF TypeInv, Fits
<1>2. ~RegisterLookup(r) /\ ~RegisterAdd(r) /\ ~RegisterUpdate(r)
  BY <1>1 DEF StatementFits, RegisterLookup, RegisterAdd, RegisterUpdate, LookupNewEmail,
              AddUser, SetCreatedBy
<1>3. ~CreateLookup(r) /\ ~CreateAdd(r) /\ ~CreateUpdate(r)
  BY <1>1 DEF StatementFits, CreateLookup, CreateAdd, CreateUpdate, LookupNewEmail, AddUser,
              SetCreatedBy
<1>4. /\ ~IssueTokenPair(r) /\ ~LoginAuthenticate(r) /\ ~RefreshGetToken(r)
      /\ ~RefreshGetUser(r) /\ ~RefreshDelete(r) /\ ~RefreshIssue(r) /\ ~LogoutDelete(r)
  BY <1>1 DEF StatementFits, IssueTokenPair, LoginAuthenticate, RefreshGetToken,
              RefreshGetUser, RefreshDelete, RefreshIssue, LogoutDelete, MintPair, DeleteByHash
<1>5. /\ UpdateLoad(r) \/ UpdateWrite(r) => req[r].op = "update"
      /\ DeactivateLoad(r) \/ DeactivateWrite(r) => req[r].op = "deactivate"
  BY <1>1 DEF StatementFits, UpdateLoad, UpdateWrite, DeactivateLoad, DeactivateWrite
<1> QED
  BY <1>2, <1>3, <1>4, <1>5 DEF Step, AuthStep, UserStep

\* Where the steps of a PUT and a DELETE lead.
LEMMA WaysToChange ==
  ASSUME TypeInv, NEW r \in Req, Step(r) \/ Fault(r)
  PROVE  /\ pc'[r] = "update.update" => UpdateLoad(r)
         /\ pc'[r] = "revoke.delete" => RevokeSnapshot(r)
         /\ Deactivates(r)' => RevokeDelete(r) \/ (UpdateWrite(r) /\ ~MustRevoke(r))
<1>1. req' = req /\ Fits(pc[r], req[r], actor[r], mem[r])
  BY RunningSteps DEF TypeInv
<1>2. CASE req[r].op \notin {"update", "deactivate"}
  <2>1. TypeInv'
    BY NextType DEF Next
  <2>2. StatementFits(pc'[r], req'[r].op)
    BY <2>1 DEF TypeInv, Fits
  <2> QED
    BY <1>1, <1>2, <2>2 DEF StatementFits, Deactivates
<1>3. CASE req[r].op \in {"update", "deactivate"}
  <2>1. ASSUME NEW statement, Goto(r, statement) PROVE pc'[r] = statement
    BY <2>1 DEF Goto, TypeInv, TypeOK, RequestsTypeOK
  <2>2. ASSUME NEW status, Raise(r, status) PROVE pc'[r] = "done"
    BY <2>1, <2>2 DEF Raise, Answer
  <2>3. CASE VerifyAccessToken(r)
    <3>1. pc'[r] \in {"done", ServiceEntry[req[r].op]}
      BY <2>1, <2>2, <2>3 DEF VerifyAccessToken
    <3> QED
      BY <1>3, <3>1 DEF ServiceEntry, Deactivates
  <2>4. CASE UpdateLoad(r)
    <3>1. pc'[r] \in {"done", "update.update"}
      BY <2>1, <2>2, <2>4 DEF UpdateLoad, Read
    <3> QED
      BY <2>4, <3>1 DEF Deactivates
  <2>5. CASE UpdateWrite(r)
    <3>1. pc'[r] = IF MustRevoke(r) THEN "revoke.snapshot" ELSE "commit"
      BY <2>1, <2>5 DEF UpdateWrite, Wrote
    <3> QED
      BY <2>5, <3>1 DEF Deactivates
  <2>6. CASE DeactivateLoad(r) \/ DeactivateWrite(r)
    <3>1. pc'[r] \in {"done", "deactivate.deactivate", "revoke.snapshot"}
      BY <2>1, <2>2, <2>6 DEF DeactivateLoad, DeactivateWrite, Read, Wrote
    <3> QED
      BY <3>1 DEF Deactivates
  <2>7. CASE RevokeSnapshot(r) \/ RevokeDelete(r)
    BY <2>1, <2>7 DEF RevokeSnapshot, RevokeDelete, Read, Wrote, Deactivates
  <2>8. CASE Finish(r) \/ Fault(r)
    <3>1. pc'[r] = "done"
      BY <2>1, <2>2, <2>8 DEF Finish, Fault, DatabaseError, AnswerLost, Answer
    <3> QED
      BY <3>1 DEF Deactivates
  <2> QED
    BY <1>3, <2>3, <2>4, <2>5, <2>6, <2>7, <2>8, ChangeSteps
<1> QED
  BY <1>2, <1>3

\* What the UPDATE of a PUT writes.
LEMMA PutRows ==
  ASSUME TypeInv, LockOrder, NEW r \in Req, UpdateWrite(r)
  PROVE  tx'[r].users = {UpdatedRow(r, u) : u \in GetById(r, req[r].target)}
<1>1. tx[r].users = {}
  BY DEF UpdateWrite, LockOrder, LockFits
<1> QED
  BY <1>1 DEF UpdateWrite, WriteUsers, Overlay, Transaction, TypeInv, TypeOK, StoreTypeOK

\* A PUT writes what its body asks for.
LEMMA PutStep ==
  ASSUME TypeInv, LockOrder, NEW r \in Req, Step(r) \/ Fault(r), PutFits(r)
  PROVE  PutFits(r)'
<1> SUFFICES ASSUME req[r].op = "update"
             PROVE  \A w \in tx'[r].users :
                      /\ req[r].role # Null => w.role = req[r].role
                      /\ req[r].active # Null => w.active = req[r].active
  BY RunningSteps DEF PutFits
<1>1. CASE UpdateWrite(r)
  <2>1. users \subseteq UserRow /\ tx[r].users \subseteq UserRow
    BY DEF TypeInv, TypeOK, StoreTypeOK, Transaction
  <2> SUFFICES ASSUME NEW u \in GetById(r, req[r].target)
               PROVE  /\ req[r].role # Null => UpdatedRow(r, u).role = req[r].role
                      /\ req[r].active # Null => UpdatedRow(r, u).active = req[r].active
    BY <1>1, PutRows
  <2>2. u \in UserRow
    BY <2>1 DEF GetById, SeenUsers, Overlay
  <2> QED
    BY <2>2 DEF UpdatedRow, UserRow, NewRole, NewActive, Given
<1>2. CASE tx' = tx
  BY <1>2 DEF PutFits
<1>3. CASE RevokeDelete(r)
  <2>1. tx'[r].users = tx[r].users
    BY <1>3 DEF RevokeDelete, DeleteTokens, Transaction, TypeInv, TypeOK, StoreTypeOK
  <2> QED
    BY <2>1 DEF PutFits
<1>4. ASSUME NEW fate, tx' = [tx EXCEPT ![r] = NoWrites(fate)] PROVE tx'[r].users = {}
  BY <1>4 DEF NoWrites, TypeInv, TypeOK, StoreTypeOK
<1>5. ASSUME NEW status, Raise(r, status) PROVE tx'[r].users = {}
  BY <1>4, <1>5 DEF Raise, Rollback
<1>6. CASE VerifyAccessToken(r) \/ UpdateLoad(r) \/ RevokeSnapshot(r)
  BY <1>2, <1>5, <1>6 DEF VerifyAccessToken, UpdateLoad, RevokeSnapshot, Read
<1>7. CASE Finish(r) \/ Fault(r)
  BY <1>4, <1>5, <1>7 DEF Finish, Fault, DatabaseError, AnswerLost, Commit
<1> QED
  BY <1>1, <1>3, <1>6, <1>7, ChangeSteps

\* An account read as inactive is so when it is read.
LEMMA ReadStep ==
  ASSUME CommitInv, NEW r \in Req, Step(r) \/ Fault(r)
  PROVE  ReadFits(r)'
<1> USE DEF CommitInv
<1> SUFFICES ASSUME pc'[r] = "update.update", ~mem'[r].user.active
             PROVE  \A u \in users' : u.id = req'[r].target => ~u.active
  BY DEF ReadFits
<1>1. UpdateLoad(r) /\ req' = req
  BY WaysToChange, RunningSteps
<1>2. SeenUsers(r) = users
  BY <1>1 DEF UpdateLoad, LockOrder, LockFits, SeenUsers, Overlay
<1>3. ASSUME NEW status, Raise(r, status) PROVE FALSE
  BY <1>3 DEF Raise, Answer, Goto, TypeInv, TypeOK, RequestsTypeOK
<1>4. PICK u \in GetById(r, req[r].target) :
        Read(r, [mem[r] EXCEPT !.user = u], "update.update")
  BY <1>1, <1>3 DEF UpdateLoad
<1>5. mem'[r].user = u /\ users' = users
  BY <1>4, PartsType DEF Read, Memory, TypeInv, TypeOK, RequestsTypeOK
<1> QED
  BY <1>1, <1>2, <1>4, <1>5 DEF GetById, AccountInv

-----------------------------------------------------------------------------
(* What a deactivation deletes.                                            *)

\* A request whose UPDATE revokes nothing deactivates an account only if it was
\* overtaken.
LEMMA UnrevokedPut ==
  ASSUME CommitInv, NEW r \in Req, HistoryFits(r), UpdateWrite(r), ~MustRevoke(r), Follows,
         Deactivates(r)', req' = req, users' = users
  PROVE  Overtaken(r)' /\ req'[r].op = "update"
<1> USE DEF CommitInv
<1>1. pc[r] = "update.update" /\ pc'[r] = "commit" /\ req[r].op = "update"
  BY PartsType DEF UpdateWrite, Wrote, Goto, TypeInv, TypeOK, RequestsTypeOK, Fits, StatementFits
<1>2. PICK u \in users, w \in tx'[r].users : u.id = w.id /\ u.active /\ ~w.active
  BY <1>1 DEF Deactivates
<1>3. /\ SeenUsers(r) = users /\ users \subseteq UserRow
      /\ tx'[r].users = {UpdatedRow(r, x) : x \in GetById(r, req[r].target)}
  BY <1>1, PutRows DEF LockOrder, LockFits, SeenUsers, Overlay, TypeInv, TypeOK, StoreTypeOK
<1>4. w.id = req[r].target /\ ~NewActive(r, mem[r].user)
  <2>1. PICK x \in GetById(r, req[r].target) : w = UpdatedRow(r, x)
    BY <1>2, <1>3
  <2>2. x \in UserRow /\ x.id = req[r].target
    BY <1>3, <2>1 DEF GetById
  <2> QED
    BY <1>2, <2>1, <2>2 DEF UpdatedRow, UserRow
<1>5. \E q \in Req \ before[r] : Committed(q) /\ LeavesActive(q, r)
  BY <1>1, <1>2, <1>4 DEF MustRevoke, HistoryFits, ReadFits
<1>6. before'[r] = before[r] /\ settled'[r] = {q \in Req : Committed(q)}
  BY <1>1 DEF Follows, WritesTarget
<1> QED
  BY <1>1, <1>5, <1>6 DEF Overtaken, LeavesActive

\* The rows of earlier requests are selected, then deleted.
LEMMA RevokeStep ==
  ASSUME CommitInv, NEW r \in Req, HistoryFits(r), Step(r) \/ Fault(r), Follows, ~Publishes(r)
  PROVE  RevokeFits(r)'
<1> USE DEF CommitInv
<1>1. tokens' = tokens /\ users' = users /\ req' = req
  BY OnlyCommitPublishes, RunningSteps DEF Publishes
<1>2. CASE RevokeSnapshot(r)
  <2>1. /\ pc[r] = "revoke.snapshot" /\ pc'[r] = "revoke.delete"
        /\ mem'[r].victims = {t.hash : t \in {s \in SeenTokens(r) : s.user = req[r].target}}
        /\ tx[r].dels = {}
    BY <1>2, PartsType DEF RevokeSnapshot, Read, Goto, Memory, TypeInv, TypeOK, RequestsTypeOK,
                           LockOrder, LockFits
  <2>2. Earlier(r)' = Earlier(r)
    BY <1>1, <2>1 DEF Earlier, Follows, WritesTarget
  <2> QED
    BY <2>1, <2>2 DEF RevokeFits, Deactivates, Earlier, SeenTokens
<1>3. CASE RevokeDelete(r)
  <2>1. /\ pc[r] = "revoke.delete" /\ pc'[r] = "commit"
        /\ tx'[r].dels = tx[r].dels \cup
             {t.hash : t \in {s \in tokens : s.hash \in mem[r].victims}}
    BY <1>3 DEF RevokeDelete, DeleteTokens, Wrote, Goto, Transaction, TypeInv, TypeOK,
                StoreTypeOK, RequestsTypeOK
  <2>2. Earlier(r)' = Earlier(r)
    BY <1>1, <2>1 DEF Earlier, Follows, WritesTarget
  <2>3. \A row \in Earlier(r) : row \in tokens /\ row.hash \in mem[r].victims
    BY <2>1 DEF HistoryFits, RevokeFits, Earlier
  <2> QED
    BY <2>1, <2>2, <2>3 DEF RevokeFits
<1>4. CASE UpdateWrite(r) /\ ~MustRevoke(r)
  <2>1. pc'[r] = "commit"
    BY <1>4 DEF UpdateWrite, Wrote, Goto, TypeInv, TypeOK, RequestsTypeOK
  <2>2. Deactivates(r)' => req'[r].op = "update" /\ Overtaken(r)'
    BY <1>1, <1>4, UnrevokedPut
  <2> QED
    BY <2>1, <2>2 DEF RevokeFits
<1> QED
  BY <1>2, <1>3, <1>4, WaysToChange DEF RevokeFits

\* What r read of its target, another request may have changed only as a PUT
\* that leaves it active.
LEMMA OthersRead ==
  ASSUME CommitInv, HistoryInv, NEW p \in Req, Call(p) \/ Step(p) \/ Fault(p), Follows,
         NEW r \in Others(p)
  PROVE  ReadFits(r)'
<1> USE DEF CommitInv
<1>1. /\ r \in Req /\ HistoryFits(r) /\ HistoryFits(p) /\ pc'[r] = pc[r] /\ req'[r] = req[r]
      /\ mem'[r] = mem[r]
  BY OneRequest DEF HistoryInv, MovesOnly, Others
<1> SUFFICES ASSUME pc[r] = "update.update", ~mem[r].user.active
             PROVE  \/ \A u \in users' : u.id = req[r].target => ~u.active
                    \/ \E q \in Req \ before'[r] : Committed(q)' /\ LeavesActive(q, r)'
  BY <1>1 DEF ReadFits
<1>2. before'[r] = before[r]
  BY <1>1 DEF Follows
<1>3. CASE \E q \in Req \ before[r] : Committed(q) /\ LeavesActive(q, r)
  <2>1. PICK q \in Req \ before[r] : Committed(q) /\ LeavesActive(q, r)
    BY <1>3
  <2>2. Committed(q)' /\ req'[q] = req[q]
    BY <2>1, CommittedKept, OneRequest DEF MovesOnly, Others
  <2> QED
    BY <1>1, <1>2, <2>1, <2>2 DEF LeavesActive
<1>4. CASE \A u \in users : u.id = req[r].target => ~u.active
  <2>1. CASE ~Publishes(p)
    BY <1>4, <2>1, OnlyCommitPublishes DEF Publishes
  <2>2. CASE Publishes(p)
    <3>1. /\ users' = SeenUsers(p) /\ pc[p] = "commit" /\ Committed(p)' /\ req' = req
      BY <2>2, PublishedRows DEF Publishes, Commit
    <3> SUFFICES ASSUME NEW w \in users', w.id = req[r].target, w.active
                 PROVE  p \in Req \ before[r] /\ LeavesActive(p, r)
      BY <1>2, <3>1 DEF LeavesActive
    <3>2. w \in tx[p].users
      BY <1>4, <3>1 DEF SeenUsers, Overlay
    <3>3. PICK u \in users : u.id = w.id
      BY <1>1 DEF EffectInv, EffectFits
    <3>4. req[p].op = "update" /\ w.id = req[p].target
      BY <2>2, <3>2, <3>3, WritesAccount
    <3>5. req[p].active # FALSE
      BY <1>1, <3>2, <3>4, NullAssumption DEF HistoryFits, PutFits
    <3>6. p \notin before[r]
      BY <1>1, <3>1 DEF HistoryFits, FollowFits
    <3> QED
      BY <3>4, <3>5, <3>6 DEF LeavesActive
  <2> QED
    BY <2>1, <2>2
<1> QED
  BY <1>1, <1>3, <1>4 DEF HistoryFits, ReadFits

\* Nor does another request add to the rows that r is to delete, or turn its
\* commit into a deactivation.
LEMMA OthersRevoke ==
  ASSUME CommitInv, HistoryInv, NEW p \in Req, Call(p) \/ Step(p) \/ Fault(p), Follows,
         NEW r \in Others(p)
  PROVE  RevokeFits(r)'
<1> USE DEF CommitInv
<1>1. /\ r \in Req /\ HistoryFits(r) /\ EffectFits(r) /\ pc'[r] = pc[r] /\ req'[r] = req[r]
      /\ mem'[r] = mem[r] /\ tx'[r] = tx[r]
  BY OneRequest DEF HistoryInv, EffectInv, MovesOnly, Others
<1>2. before'[r] = before[r] /\ settled'[r] = settled[r]
  BY <1>1 DEF Follows
<1>3. Earlier(r)' \subseteq Earlier(r)
  <2>1. p \notin settled[r]
    BY <1>1, CommittedKept DEF HistoryFits
  <2>2. \A row \in tokens' : row \in tokens \/ row.hash.by = p
    BY OnlyCommitPublishes DEF Commit, SeenTokens, SessionInv, SessionFits
  <2> QED
    BY <1>1, <1>2, <2>1, <2>2 DEF Earlier
<1>4. Deactivates(r)' => Deactivates(r)
  <2> SUFFICES ASSUME pc[r] = "commit", req[r].op = "update", NEW u \in users',
                      NEW w \in tx[r].users, u.id = w.id, u.active, ~w.active
               PROVE  u \in users
    BY <1>1 DEF Deactivates
  <2>1. ~HoldsUser(p, w.id)
    BY <1>1 DEF EffectFits, WriteFits, Others
  <2> QED
    BY <2>1, OnlyCommitPublishes DEF Commit, SeenUsers, Overlay, HoldsUser
<1>5. Overtaken(r) => Overtaken(r)'
  <2> SUFFICES ASSUME NEW q \in settled[r] \ before[r], LeavesActive(q, r)
               PROVE  LeavesActive(q, r)'
    BY <1>2 DEF Overtaken
  <2>1. Committed(q) /\ q \in Req
    BY <1>1 DEF HistoryFits
  <2>2. req'[q] = req[q]
    BY <2>1, CommittedKept, OneRequest DEF MovesOnly, Others
  <2> QED
    BY <1>1, <2>2 DEF LeavesActive
<1> QED
  BY <1>1, <1>3, <1>4, <1>5 DEF HistoryFits, RevokeFits

-----------------------------------------------------------------------------
(* Every step keeps HistoryInv.                                            *)

\* The requests that had committed when r wrote its target still have.
LEMMA SettledStay ==
  ASSUME TypeInv, LockOrder, NEW p \in Req, Call(p) \/ Step(p) \/ Fault(p), Follows,
         NEW r \in Req, HistoryFits(r)
  PROVE  \A q \in settled'[r] : q \in Req /\ Committed(q)'
<1> SUFFICES ASSUME NEW q \in settled'[r] PROVE q \in Req /\ Committed(q)
  BY CommittedKept
<1> QED
  BY DEF Follows, HistoryFits

\* A request that begins follows those that have ended.
LEMMA CallFollows ==
  ASSUME CommitInv, NEW r \in Req, Call(r), HistoryFits(r), Follows
  PROVE  HistoryFits(r)'
<1> USE DEF CommitInv
<1>1. PICK input : input.op \in Op /\ Asks(r, input)
  BY CallAsks
<1>2. /\ pc[r] = "idle" /\ req'[r] = input /\ pc'[r] \in {FirstStatement[input.op], "done"}
      /\ tx' = tx
  BY <1>1 DEF Asks, Begin, Refuse, Answer, Goto, TypeInv, TypeOK, RequestsTypeOK
<1>3. ~Committed(r)' /\ resp'[r].status # "ok"
  BY <1>2, OkIsCommitted DEF LockOrder, LockFits, Committed, HistoryFits
<1>4. pc'[r] \notin {"idle", "update.update", "revoke.delete", "commit"}
  BY <1>1, <1>2 DEF FirstStatement, Op
<1>5. before'[r] = Answered
  BY <1>2, <1>4 DEF Follows
<1>6. ASSUME NEW q \in Answered PROVE FollowFits(r, q)'
  <2>1. q \in Req /\ pc'[q] = "done"
    BY <1>6, EndedStays DEF Answered
  <2>2. Reuses(r, q)' => pc'[r] \in {"refresh.get_by_user_and_hash", "done"}
    BY <1>2 DEF Reuses, FirstStatement
  <2>3. \A u : ActsFor(r, u)' => pc'[r] \in Unverified \cup {"done"}
    BY <1>2 DEF ActsFor, FirstStatement, Unverified
  <2>4. \A id : ActsAsAdmin(r, id)' => pc'[r] \in {"verify.get_by_id", "done"}
    BY <1>2 DEF ActsAsAdmin, FirstStatement
  <2> QED
    BY <1>3, <2>1, <2>2, <2>3, <2>4 DEF FollowFits
<1>7. tx'[r].users = {}
  BY <1>2 DEF LockOrder, LockFits
<1>8. PutFits(r)' /\ ReadFits(r)' /\ RevokeFits(r)'
  BY <1>4, <1>7 DEF PutFits, ReadFits, RevokeFits, Deactivates
<1>9. \A q \in settled'[r] : q \in Req /\ Committed(q)'
  BY SettledStay
<1> QED
  BY <1>3, <1>4, <1>5, <1>6, <1>8, <1>9 DEF HistoryFits

\* A request that runs gets no further than the statement that finds out.
LEMMA StepFollows ==
  ASSUME CommitInv, HistoryInv, NEW r \in Req, Step(r) \/ Fault(r), Follows
  PROVE  HistoryFits(r)'
<1> USE DEF CommitInv
<1>1. /\ HistoryFits(r) /\ pc[r] \notin {"idle", "done"} /\ req' = req
      /\ \A q \in Req : ChangeStays(q)
  BY RunningSteps, OneRequest DEF HistoryInv, MovesOnly
<1>2. before'[r] = before[r]
  BY <1>1 DEF Follows
<1>3. /\ resp'[r].status = "ok" => Committed(r)'
      /\ pc'[r] # "done" => resp'[r].status # "ok"
  BY <1>1, OkIsCommitted, LockStep DEF HistoryFits, LockFits
<1>4. pc'[r] # "idle"
  BY <1>1, EffectNext DEF EffectInv, EffectFits, Next
<1>5. pc[r] # "commit" => ~Committed(r)'
  BY OnlyCommitCommits DEF Publishes
<1>6. ASSUME NEW q \in before[r] PROVE FollowFits(r, q)'
  <2>1. q \in Req /\ pc[q] = "done" /\ pc'[q] = "done" /\ tx'[q] = tx[q] /\ FollowFits(r, q)
    BY <1>1, <1>6, EndedStays DEF HistoryFits, FollowFits
  <2>2. ASSUME Reuses(r, q)' PROVE pc'[r] = "done" /\ resp'[r].status # "ok"
    <3>1. Reuses(r, q)
      BY <1>1, <2>1, <2>2 DEF Reuses, Committed
    <3>2. pc[r] = "refresh.get_by_user_and_hash"
      BY <1>1, <2>1, <3>1 DEF FollowFits
    <3> QED
      BY <1>3, <1>5, <2>1, <3>1, <3>2, ReuseStops
  <2>3. ASSUME NEW u \in users', Deactivated(q, u.id)', ActsFor(r, u)'
        PROVE  pc'[r] \in Unverified \cup {"done"} /\ resp'[r].status # "ok"
    <3>1. PICK v \in users : /\ v.id = u.id /\ v.email = u.email /\ ~v.active
                             /\ Deactivated(q, u.id)
      BY <2>1, <2>3, DeactivatedBefore
    <3>2. ActsFor(r, v)
      BY <1>1, <2>3, <3>1 DEF ActsFor
    <3>3. pc[r] \in Unverified
      BY <1>1, <2>1, <3>1, <3>2 DEF FollowFits
    <3>4. pc'[r] \in {"refresh.get_by_id", "done"}
      BY <3>1, <3>2, <3>3, InactiveStops
    <3> QED
      BY <1>3, <1>5, <3>3, <3>4 DEF Unverified
  <2>4. ASSUME Demoted(q, req[q].target)', ActsAsAdmin(r, req[q].target)'
        PROVE  pc'[r] = "done" /\ resp'[r].status # "ok"
    <3>1. Committed(q)
      BY <2>1, <2>4 DEF Demoted, Committed
    <3>2. Demoted(q, req[q].target) /\ ActsAsAdmin(r, req[q].target)
      BY <1>1, <2>1, <2>4, <3>1, DoneBefore DEF ActsAsAdmin
    <3>3. pc[r] = "verify.get_by_id"
      BY <1>1, <2>1, <3>2 DEF FollowFits
    <3>4. PICK v \in users : v.id = req[q].target /\ v.role = "USER"
      BY <1>1, <2>1, <3>1, <3>2 DEF Demoted, ChangeStays
    <3>5. pc'[r] = "done"
      BY <3>2, <3>3, <3>4, DemotedStops
    <3> QED
      BY <1>3, <1>5, <3>3, <3>5
  <2> QED
    BY <1>1, <2>1, <2>2, <2>3, <2>4 DEF FollowFits
<1>7. RevokeFits(r)'
  <2>1. CASE Publishes(r)
    BY <2>1 DEF Publishes, RevokeFits, Deactivates
  <2>2. CASE ~Publishes(r)
    BY <1>1, <2>2, RevokeStep
  <2> QED
    BY <2>1, <2>2
<1>8. PutFits(r)' /\ ReadFits(r)' /\ \A q \in settled'[r] : q \in Req /\ Committed(q)'
  BY <1>1, PutStep, ReadStep, SettledStay DEF HistoryFits
<1> QED
  BY <1>2, <1>3, <1>4, <1>6, <1>7, <1>8 DEF HistoryFits

\* What r knows of the requests before it does not change when another moves.
LEMMA OthersFollow ==
  ASSUME CommitInv, HistoryInv, NEW p \in Req, Call(p) \/ Step(p) \/ Fault(p), Follows,
         NEW r \in Others(p)
  PROVE  HistoryFits(r)'
<1> USE DEF CommitInv
<1>1. /\ r \in Req /\ HistoryFits(r) /\ pc[p] # "done" /\ pc'[r] = pc[r] /\ req'[r] = req[r]
      /\ resp'[r] = resp[r] /\ tx'[r] = tx[r]
  BY OneRequest DEF HistoryInv, MovesOnly, Others
<1>2. before'[r] = before[r]
  BY <1>1 DEF Follows
<1>3. ASSUME NEW q \in before[r] PROVE FollowFits(r, q)'
  <2>1. /\ q \in Req /\ pc[q] = "done" /\ pc'[q] = "done" /\ tx'[q] = tx[q]
        /\ req'[q] = req[q] /\ FollowFits(r, q)
    BY <1>1, <1>3, EndedStays DEF HistoryFits, FollowFits
  <2>2. Reuses(r, q)' => Reuses(r, q)
    BY <1>1, <2>1 DEF Reuses, Committed
  <2>3. ASSUME NEW u \in users', Deactivated(q, u.id)', ActsFor(r, u)'
        PROVE  pc'[r] \in Unverified \cup {"done"} /\ resp'[r].status # "ok"
    <3>1. PICK v \in users : /\ v.id = u.id /\ v.email = u.email /\ Deactivated(q, u.id)
      BY <2>1, <2>3, DeactivatedBefore
    <3>2. ActsFor(r, v)
      BY <1>1, <2>3, <3>1 DEF ActsFor
    <3> QED
      BY <1>1, <2>1, <3>1, <3>2 DEF FollowFits
  <2>4. Demoted(q, req[q].target)' => Demoted(q, req[q].target)
    <3>1. Demoted(q, req[q].target)' => Committed(q)
      BY <2>1 DEF Demoted, Committed
    <3> QED
      BY <2>1, <3>1, DoneBefore
  <2>5. ActsAsAdmin(r, req[q].target)' => ActsAsAdmin(r, req[q].target)
    BY <1>1, <2>1 DEF ActsAsAdmin
  <2> QED
    BY <1>1, <2>1, <2>2, <2>3, <2>4, <2>5 DEF FollowFits
<1>4. \A q \in settled'[r] : q \in Req /\ Committed(q)'
  BY <1>1, SettledStay
<1>5. PutFits(r)' /\ ReadFits(r)' /\ RevokeFits(r)'
  BY <1>1, OthersRead, OthersRevoke DEF HistoryFits, PutFits
<1> QED
  BY <1>1, <1>2, <1>3, <1>4, <1>5 DEF HistoryFits, Committed

\* A crash undoes nothing that was answered.
LEMMA CrashFollows ==
  ASSUME CommitInv, HistoryInv, Crash, Follows
  PROVE  HistoryInv'
<1> USE DEF CommitInv
<1>1. UNCHANGED <<users, tokens, req>>
  BY DEF Crash
<1>2. ASSUME NEW q \in Req
      PROVE  /\ Committed(q)' <=> Committed(q)
             /\ before'[q] = before[q]
  BY <1>2 DEF Crash, Committed, Running, NoWrites, LockOrder, LockFits, Statement, Follows
<1>3. ASSUME NEW q \in Req, NEW id PROVE PutSince(q, id)' <=> PutSince(q, id)
  BY <1>1, <1>2 DEF PutSince
<1>4. ASSUME NEW q \in Req, NEW id
      PROVE  /\ Deactivated(q, id)' <=> Deactivated(q, id)
             /\ Demoted(q, id)' <=> Demoted(q, id)
  BY <1>1, <1>2, <1>3 DEF Deactivated, Demoted
<1>5. ASSUME NEW q \in Req PROVE ChangeStays(q)'
  BY <1>1, <1>2, <1>4 DEF HistoryInv, ChangeStays
<1>6. ASSUME NEW r \in Req PROVE HistoryFits(r)'
  <2>1. HistoryFits(r) /\ before'[r] = before[r] /\ \A q \in before[r] : q \in Req
    BY <1>2 DEF HistoryInv, HistoryFits, FollowFits
  <2>2. \A q \in settled'[r] : q \in Req /\ Committed(q)'
    BY <1>2, <2>1 DEF Follows, HistoryFits
  <2>3. CASE Running(r)
    <3>1. pc'[r] = "done" /\ resp'[r].status = "lost" /\ tx'[r].users = {}
      BY <2>3 DEF Crash, NoWrites
    <3>2. \A q \in before[r] : FollowFits(r, q)'
      BY <2>1, <3>1 DEF HistoryFits, FollowFits, Crash
    <3>3. PutFits(r)' /\ ReadFits(r)' /\ RevokeFits(r)'
      BY <3>1 DEF PutFits, ReadFits, RevokeFits, Deactivates
    <3> QED
      BY <2>1, <2>2, <3>1, <3>2, <3>3 DEF HistoryFits
  <2>4. CASE ~Running(r)
    <3>1. /\ pc'[r] = pc[r] /\ pc[r] \in {"idle", "done"}
          /\ resp'[r] = resp[r] /\ mem'[r] = mem[r] /\ tx'[r] = tx[r]
      BY <2>4 DEF Crash, Running, TypeInv, TypeOK, RequestsTypeOK
    <3>2. ASSUME NEW q \in before[r] PROVE FollowFits(r, q)'
      <4>1. q \in Req /\ pc'[q] = "done" /\ FollowFits(r, q)
        BY <2>1 DEF HistoryFits, FollowFits, Crash
      <4>2. Reuses(r, q)' => Reuses(r, q)
        BY <1>1, <1>2, <4>1 DEF Reuses
      <4>3. \A u \in users : ActsFor(r, u)' <=> ActsFor(r, u)
        BY <1>1 DEF ActsFor
      <4>4. ActsAsAdmin(r, req[q].target)' <=> ActsAsAdmin(r, req[q].target)
        BY <1>1 DEF ActsAsAdmin
      <4> QED
        BY <1>1, <1>4, <3>1, <4>1, <4>2, <4>3, <4>4 DEF FollowFits
    <3>3. PutFits(r)' /\ ReadFits(r)' /\ RevokeFits(r)'
      BY <1>1, <2>1, <3>1 DEF HistoryFits, PutFits, ReadFits, RevokeFits, Deactivates
    <3> QED
      BY <1>2, <2>1, <2>2, <3>1, <3>2, <3>3 DEF HistoryFits
  <2> QED
    BY <2>3, <2>4
<1> QED
  BY <1>5, <1>6 DEF HistoryInv

\* Every step keeps HistoryInv.
LEMMA HistoryStep ==
  CommitInv /\ HistoryInv /\ [HistoryNext]_<<vars, historyVars>> => HistoryInv'
<1> SUFFICES ASSUME CommitInv, HistoryInv, [HistoryNext]_<<vars, historyVars>>
             PROVE  HistoryInv'
  OBVIOUS
<1>1. ASSUME NEW r \in Req, Call(r) \/ Step(r) \/ Fault(r), Follows PROVE HistoryInv'
  <2>1. \A q \in Req : ChangeStays(q)'
    BY <1>1, ChangeKept
  <2>2. HistoryFits(r)'
    BY <1>1, CallFollows, StepFollows DEF HistoryInv
  <2>3. \A q \in Others(r) : HistoryFits(q)'
    BY <1>1, OthersFollow
  <2> QED
    BY <2>1, <2>2, <2>3 DEF HistoryInv, Others
<1>2. CASE UNCHANGED <<vars, historyVars>> \/ (Tick /\ Follows)
  <2>1. UNCHANGED <<users, tokens, tx, pc, req, mem, resp>>
    BY <1>2 DEF Tick, vars
  <2>2. \A r \in Req : before'[r] = before[r] /\ settled'[r] = settled[r]
    BY <1>2, <2>1 DEF Follows, historyVars
  <2>3. ASSUME NEW q \in Req, NEW id
        PROVE  /\ Deactivated(q, id)' <=> Deactivated(q, id)
               /\ Demoted(q, id)' <=> Demoted(q, id)
    BY <2>1, <2>2 DEF Deactivated, Demoted, PutSince, Committed
  <2>4. ASSUME NEW q \in Req PROVE ChangeStays(q)'
    BY <2>1, <2>3 DEF HistoryInv, ChangeStays, Committed
  <2>5. ASSUME NEW r \in Req PROVE HistoryFits(r)'
    <3>1. HistoryFits(r) /\ before'[r] = before[r] /\ settled'[r] = settled[r]
      BY <2>2 DEF HistoryInv
    <3>2. ASSUME NEW q \in before[r] PROVE FollowFits(r, q)'
      <4>1. FollowFits(r, q) /\ q \in Req
        BY <3>1 DEF HistoryFits, FollowFits
      <4> QED
        BY <2>1, <2>3, <4>1 DEF FollowFits, Reuses, ActsFor, ActsAsAdmin, Committed
    <3>3. PutFits(r)' /\ ReadFits(r)' /\ RevokeFits(r)'
      BY <2>1, <3>1 DEF HistoryFits, PutFits, ReadFits, RevokeFits, Earlier, Deactivates,
                        Overtaken, LeavesActive, Committed
    <3> QED
      BY <2>1, <3>1, <3>2, <3>3 DEF HistoryFits, Committed
  <2> QED
    BY <2>4, <2>5 DEF HistoryInv
<1> QED
  BY <1>1, <1>2, CrashFollows DEF HistoryNext, Next, Follows

-----------------------------------------------------------------------------
(* Every behaviour.                                                        *)

\* The history variables take nothing away from the invariants of Spec.
LEMMA HistoryCommits == HistorySpec => []CommitInv
<1>1. HistoryInit => Init
  BY DEF HistoryInit
<1>2. [HistoryNext]_<<vars, historyVars>> => [Next]_vars
  BY DEF HistoryNext
<1>3. HistorySpec => Spec
  BY <1>1, <1>2, PTL DEF HistorySpec, Spec
<1>4. Spec => [](TypeInv /\ LockOrder /\ SessionInv /\ AccountInv /\ TokenInv /\ KeepInv /\ EffectInv)
  BY TypeCorrect, LocksInOrder, SessionsFit, AccountsFit, TokensFit, DeletionsFit, EffectsFit,
     PTL
<1> QED
  BY <1>3, <1>4, PTL DEF CommitInv

\* HistoryInv holds in every behaviour.
LEMMA HistoryFit == HistorySpec => []HistoryInv
<1>1. HistoryInit => HistoryInv
  <2> SUFFICES ASSUME HistoryInit, NEW r \in Req
               PROVE  ChangeStays(r) /\ HistoryFits(r)
    BY DEF HistoryInv
  <2>1. /\ before[r] = {} /\ settled[r] = {} /\ tx[r].users = {}
        /\ pc[r] \in {"idle", "done"}
    BY SeedsCommitted DEF HistoryInit
  <2>2. resp[r].status = "ok" => Committed(r)
    <3>1. CASE r \in Seed
      BY <3>1, SeedsCommitted DEF HistoryInit, Committed
    <3>2. CASE r \notin Seed
      BY <3>2 DEF HistoryInit, Init, NoResponse
    <3> QED
      BY <3>1, <3>2
  <2>3. req[r].op \notin {"update", "deactivate"}
    BY NullAssumption DEF HistoryInit, Init, Blank, Op
  <2>4. PutFits(r) /\ ReadFits(r) /\ RevokeFits(r)
    BY <2>1 DEF PutFits, ReadFits, RevokeFits, Deactivates
  <2> QED
    BY <2>1, <2>2, <2>3, <2>4 DEF HistoryFits, ChangeStays
<1> QED
  BY <1>1, HistoryCommits, HistoryStep, PTL DEF HistorySpec

\* Whatever else goes on, a refresh token that an answered /refresh or /logout
\* has used up is refused in every request that begins afterwards.
THEOREM UsedTokensAreRefused == HistorySpec => []ReuseRefused
<1>1. HistoryInv => ReuseRefused
  <2> SUFFICES ASSUME HistoryInv, NEW q \in Req, NEW r \in Req, q \in before[r],
                      req[q].op \in {"refresh", "logout"}, resp[q].status = "ok",
                      req[r].op = "refresh", req[r].token = req[q].token
               PROVE  resp[r].status # "ok"
    BY DEF ReuseRefused
  <2> QED
    BY DEF HistoryInv, HistoryFits, FollowFits, Reuses
<1> QED
  BY <1>1, HistoryFit, PTL

\* Nobody gets anything in the name of an account after the DELETE of it, or the
\* PUT that deactivates it, has been answered, if no other PUT of the account
\* commits since.
THEOREM LockedOut == HistorySpec => []DeactivatedIsLockedOut
<1>1. HistoryInv => DeactivatedIsLockedOut
  BY DEF HistoryInv, HistoryFits, FollowFits, DeactivatedIsLockedOut
<1> QED
  BY <1>1, HistoryFit, PTL

\* Nor does anybody do what only an administrator may with a token of an account
\* after the PUT that makes it an ordinary one has been answered.
THEOREM RightsEnd == HistorySpec => []DemotedIsNoAdmin
<1>1. HistoryInv => DemotedIsNoAdmin
  BY DEF HistoryInv, HistoryFits, FollowFits, DemotedIsNoAdmin
<1> QED
  BY <1>1, HistoryFit, PTL

\* The COMMIT that makes an account inactive is that of a request which
\* deactivates it, and leaves none of the sessions that were there when the
\* request wrote the account, however many there are and whoever uses them
\* meanwhile; except that of a PUT which another PUT has overtaken.
THEOREM SessionsAreRevoked == HistorySpec => DeactivationRevokes
<1> DEFINE Revokes ==
             /\ \A id \in User : TurnsInactive(id) =>
                  \E r \in Req :
                    /\ Commits(r) /\ req[r].target = id
                    /\ \/ RevokesAll(r)
                       \/ req[r].op = "update" /\ Overtaken(r)
             /\ \A r \in Req : Commits(r) /\ req[r].op = "deactivate" => RevokesAll(r)
<1>1. ASSUME CommitInv, HistoryInv, HistoryNext PROVE Revokes
  <2> USE <1>1 DEF CommitInv
  <2>1. ASSUME NEW p \in Req, Call(p) \/ Step(p) \/ Fault(p), Publishes(p), Deactivates(p)
        PROVE  RevokesAll(p) \/ (req[p].op = "update" /\ Overtaken(p))
    <3>1. tx[p].adds = {}
      BY <2>1 DEF EffectInv, EffectFits, OwnerFits, Deactivates
    <3>2. \A row \in tokens' : row \in tokens /\ row.hash \notin tx[p].dels
      BY <2>1, <3>1 DEF Publishes, Commit, SeenTokens
    <3>3. \/ \A row \in Earlier(p) : row.hash \in tx[p].dels
          \/ req[p].op = "update" /\ Overtaken(p)
      BY <2>1 DEF HistoryInv, HistoryFits, RevokeFits
    <3> QED
      BY <3>2, <3>3 DEF RevokesAll, Earlier
  <2>2. ASSUME NEW p \in Req, Call(p) \/ Step(p) \/ Fault(p) PROVE Revokes
    <3>1. ASSUME NEW r \in Req, Commits(r), req[r].op = "deactivate" PROVE RevokesAll(r)
      <4>1. r = p /\ Publishes(p) /\ Deactivates(p)
        BY <2>2, <3>1, OnlyCommitCommits DEF Commits, Publishes, Deactivates
      <4> QED
        BY <2>1, <2>2, <3>1, <4>1
    <3>2. ASSUME NEW u \in users, NEW w \in users', w.id = u.id, u.active, ~w.active
          PROVE  /\ Commits(p) /\ req[p].target = u.id
                 /\ RevokesAll(p) \/ (req[p].op = "update" /\ Overtaken(p))
      <4>1. Publishes(p)
        BY <2>2, <3>2, OnlyCommitPublishes DEF AccountInv, Publishes
      <4>2. pc[p] = "commit" /\ Commits(p)
        BY <4>1, PublishedRows DEF Publishes, Commits, LockOrder, LockFits
      <4>3. w \in tx[p].users
        BY <3>2, <4>1 DEF Publishes, Commit, SeenUsers, Overlay, AccountInv
      <4>4. req[p].op \in {"update", "deactivate"} /\ w.id = req[p].target
        BY <3>2, <4>1, <4>3, WritesAccount
      <4>5. Deactivates(p)
        BY <3>2, <4>2, <4>3, <4>4 DEF Deactivates
      <4> QED
        BY <2>1, <2>2, <3>2, <4>1, <4>2, <4>4, <4>5
    <3> QED
      BY <3>1, <3>2 DEF TurnsInactive
  <2>3. CASE users' = users /\ \A r \in Req : Committed(r)' => Committed(r)
    BY <2>3 DEF TurnsInactive, Commits, AccountInv
  <2>4. CASE Crash \/ Tick
    BY <2>3, <2>4 DEF Crash, Tick, Running, Statement, NoWrites, Committed
  <2> QED
    BY <2>2, <2>4 DEF HistoryNext, Next
<1>2. CommitInv /\ HistoryInv /\ [HistoryNext]_<<vars, historyVars>>
        => [Revokes]_<<vars, historyVars>>
  BY <1>1
<1> QED
  BY <1>2, HistoryCommits, HistoryFit, PTL DEF HistorySpec, DeactivationRevokes

-----------------------------------------------------------------------------
(* The pair of an answer.                                                  *)

Mints(r) == IssueTokenPair(r) \/ RefreshIssue(r)

\* A request that owes its client a pair has minted it when it commits.
LEMMA WaysToMint ==
  ASSUME TypeInv, NEW r \in Req, Step(r) \/ Fault(r), pc'[r] = "commit",
         req[r].op \in {"register", "login", "refresh"}
  PROVE  Mints(r)
<1>1. Fits(pc[r], req[r], actor[r], mem[r])
  BY DEF TypeInv
<1>2. ASSUME NEW status, NEW given, Answer(r, status, given) PROVE FALSE
  BY <1>2 DEF Answer, Goto, TypeInv, TypeOK, RequestsTypeOK
<1>3. ASSUME NEW statement, Goto(r, statement) PROVE statement = "commit"
  BY <1>3 DEF Goto, TypeInv, TypeOK, RequestsTypeOK
<1>4. CASE AuthStep(r)
  <2>1. ~RegisterLookup(r) /\ ~RegisterAdd(r) /\ ~RegisterUpdate(r)
    BY <1>2, <1>3 DEF RegisterLookup, RegisterAdd, RegisterUpdate, LookupNewEmail, AddUser,
                      SetCreatedBy, Read, Raise, Wrote
  <2>2. ~LoginAuthenticate(r) /\ ~RefreshGetToken(r) /\ ~RefreshGetUser(r) /\ ~RefreshDelete(r)
    BY <1>2, <1>3 DEF LoginAuthenticate, RefreshGetToken, RefreshGetUser, RefreshDelete,
                      DeleteByHash, Read, Raise, Wrote
  <2>3. ~LogoutDelete(r) /\ ~VerifyAccessToken(r)
    BY <1>1 DEF LogoutDelete, DeleteByHash, VerifyAccessToken, Fits, StatementFits
  <2> QED
    BY <1>4, <2>1, <2>2, <2>3 DEF AuthStep, Mints
<1>5. ~UserStep(r)
  BY <1>1 DEF UserStep, CreateLookup, CreateAdd, CreateUpdate, LookupNewEmail, AddUser,
              SetCreatedBy, UpdateLoad, UpdateWrite, DeactivateLoad, DeactivateWrite,
              RevokeSnapshot, RevokeDelete, Fits, StatementFits
<1>6. ~Finish(r) /\ ~Fault(r)
  BY <1>2 DEF Finish, Fault, DatabaseError, AnswerLost, Raise
<1> QED
  BY <1>4, <1>5, <1>6 DEF Step

\* The answer to a request that has just committed.
LEMMA CommitAnswers ==
  ASSUME TypeInv, NEW r \in Req, Step(r) \/ Fault(r), pc[r] = "commit", Committed(r)'
  PROVE  \/ resp'[r].status = "ok" /\ resp'[r].tokens = mem[r].pair
         \/ resp'[r].status \in {"500", "lost"}
<1>1. Finish(r) \/ Fault(r)
  BY DEF Step, AuthStep, UserStep, RegisterLookup, RegisterAdd, RegisterUpdate, LookupNewEmail,
         AddUser, SetCreatedBy, IssueTokenPair, RefreshIssue, MintPair, LoginAuthenticate,
         RefreshGetToken, RefreshGetUser, RefreshDelete, LogoutDelete, DeleteByHash,
         VerifyAccessToken, CreateLookup, CreateAdd, CreateUpdate, UpdateLoad, UpdateWrite,
         DeactivateLoad, DeactivateWrite, RevokeSnapshot, RevokeDelete
<1>2. ASSUME NEW status, NEW given, Answer(r, status, given)
      PROVE  resp'[r].status = status /\ resp'[r].tokens = given
  BY <1>2 DEF Answer, TypeInv, TypeOK, RequestsTypeOK
<1>3. ~DatabaseError(r)
  BY DEF DatabaseError, Raise, Rollback, NoWrites, Committed, TypeInv, TypeOK, StoreTypeOK
<1>4. CASE Finish(r)
  BY <1>2, <1>4 DEF Finish
<1>5. CASE AnswerLost(r)
  BY <1>2, <1>5 DEF AnswerLost
<1> QED
  BY <1>1, <1>3, <1>4, <1>5 DEF Fault

-----------------------------------------------------------------------------
(* The moves of the application.                                           *)

\* A cookie stays what an answer that has arrived said, whatever runs.
LEMMA JarStays ==
  ASSUME TypeInv, BrowserInv, NEW r \in Req, Call(r) \/ Step(r) \/ Fault(r),
         jar' = jar, landed' = landed, \A q \in landed : owner'[q] = owner[q]
  PROVE  \A b \in Browser : JarFits(b)'
<1> SUFFICES ASSUME NEW b \in Browser, jar[b] # Null PROVE JarFits(b)'
  BY DEF JarFits
<1> DEFINE id == jar[b].by
<1>1. /\ id \in landed \ SeedInactive /\ owner[id] = b /\ id \in Req
      /\ jar[b] \in RefreshTokensOf(id)
  BY DEF BrowserInv, JarFits, BrowserTypeOK
<1>2. pc[id] = "done"
  BY <1>1 DEF BrowserInv, CookieFits
<1>3. resp'[id] = resp[id]
  BY <1>1, <1>2, EndedStays
<1> QED
  BY <1>1, <1>3 DEF JarFits, RefreshTokensOf

\* What another request knows of its cookie does not change.
LEMMA OthersCookies ==
  ASSUME TypeInv, BrowserInv, NEW r \in Req, Call(r) \/ Step(r) \/ Fault(r),
         jar' = jar, landed' = landed, \A q \in Others(r) : owner'[q] = owner[q],
         owner'[r] = owner[r] \/ r \notin landed, NEW q \in Others(r)
  PROVE  PairFits(q)' /\ CookieFits(q)'
<1>1. /\ q \in Req /\ PairFits(q) /\ CookieFits(q)
      /\ pc'[q] = pc[q] /\ req'[q] = req[q] /\ mem'[q] = mem[q]
      /\ resp'[q] = resp[q] /\ tx'[q] = tx[q]
  BY OneRequest DEF BrowserInv, MovesOnly, Others
<1>2. owner'[q] = owner[q]
  OBVIOUS
<1>3. \A p \in landed : owner'[p] = owner[p]
  BY DEF BrowserInv, BrowserTypeOK, Others
<1>4. PairFits(q)'
  BY <1>1 DEF PairFits, RefreshTokensOf
<1>5. CookieFits(q)'
  BY <1>1, <1>2, <1>3 DEF CookieFits, Committed
<1> QED
  BY <1>4, <1>5

\* A request presents the cookie that its browser has at that moment.
LEMMA SendFits ==
  ASSUME CommitInv, BrowserInv, NEW r \in Req, NEW b \in Browser, Send(b, r)
  PROVE  BrowserInv'
<1> USE DEF CommitInv
<1>1. PICK input : input.op \in Op /\ Asks(r, input)
  BY CallAsks DEF Send
<1>2. /\ pc[r] = "idle" /\ req'[r] = input /\ pc'[r] \in {FirstStatement[input.op], "done"}
      /\ tx' = tx
  BY <1>1 DEF Asks, Begin, Refuse, Answer, Goto, TypeInv, TypeOK, RequestsTypeOK
<1>3. ~Committed(r) /\ ~Committed(r)'
  BY <1>2 DEF LockOrder, LockFits, Committed
<1>4. CookieFits(r) /\ BrowserTypeOK
  BY DEF BrowserInv
<1>5. resp'[r].status # "ok"
  BY <1>3, <1>4, OkIsCommitted DEF Send, CookieFits
<1>6. pc'[r] # "commit"
  BY <1>1, <1>2 DEF FirstStatement, Op
<1>7. r \notin landed /\ r \notin Seed
  BY <1>2, <1>4 DEF CookieFits, BrowserTypeOK
<1>8. /\ jar' = jar /\ landed' = landed /\ owner'[r] = b
      /\ \A q \in Others(r) : owner'[q] = owner[q]
  BY <1>4 DEF Send, BrowserTypeOK, Others
<1>9. BrowserTypeOK'
  BY <1>4 DEF Send, BrowserTypeOK, Browser
<1>10. \A c \in Browser : JarFits(c)'
  BY <1>4, <1>7, <1>8, JarStays DEF Send, BrowserTypeOK, Others
<1>11. \A q \in Others(r) : PairFits(q)' /\ CookieFits(q)'
  BY <1>7, <1>8, OthersCookies DEF Send
<1>12. PairFits(r)'
  BY <1>5, <1>6 DEF PairFits
<1>13. CookieFits(r)'
  <2>1. ASSUME req'[r].op \in {"refresh", "logout"}, req'[r].token # Null
        PROVE  req'[r].token.by \in landed /\ owner'[req'[r].token.by] = b
    <3>1. req'[r].token = jar[b] /\ jar[b] # Null
      BY <2>1 DEF Send
    <3>2. jar[b].by \in landed /\ owner[jar[b].by] = b
      BY <3>1 DEF BrowserInv, JarFits
    <3>3. jar[b].by \in Others(r)
      BY <1>4, <1>7, <3>2 DEF BrowserTypeOK, Others
    <3> QED
      BY <1>8, <3>1, <3>2, <3>3
  <2> QED
    BY <1>3, <1>5, <1>7, <1>8, <2>1 DEF CookieFits
<1> QED
  BY <1>9, <1>10, <1>11, <1>12, <1>13 DEF BrowserInv, Others

\* A request that runs mints the pair that its answer needs.
LEMMA StepFits ==
  ASSUME CommitInv, BrowserInv, NEW r \in Req, Step(r) \/ Fault(r), UNCHANGED browserVars
  PROVE  BrowserInv'
<1> USE DEF CommitInv
<1>1. /\ jar' = jar /\ landed' = landed /\ owner' = owner
  BY DEF browserVars
<1>2. /\ pc[r] \notin {"idle", "done"} /\ req' = req /\ PairFits(r) /\ CookieFits(r)
  BY RunningSteps, OneRequest DEF MovesOnly, BrowserInv
<1>3. r \notin landed
  BY <1>2 DEF CookieFits
<1>4. BrowserTypeOK'
  BY <1>1 DEF BrowserInv, BrowserTypeOK
<1>5. \A b \in Browser : JarFits(b)'
  BY <1>1, JarStays
<1>6. \A q \in Others(r) : PairFits(q)' /\ CookieFits(q)'
  BY <1>1, OthersCookies
<1>7. resp'[r].status = "ok" => Committed(r)'
  BY <1>2, OkIsCommitted DEF CookieFits
<1>8. Committed(r)' => pc[r] = "commit"
  BY OnlyCommitCommits DEF Publishes
<1>9. PairFits(r)'
  <2>1. ASSUME req'[r].op \in {"register", "login", "refresh"}, pc'[r] = "commit"
        PROVE  \E t \in mem'[r].pair : t.type = "refresh"
    <3>1. Mints(r)
      BY <1>2, <2>1, WaysToMint
    <3> DEFINE id == mem[r].user.id
               t == CreateRefreshToken(r, id)
    <3>2. mem' = [mem EXCEPT ![r].pair = {CreateAccessToken(r, id), t}]
      BY <3>1 DEF Mints, IssueTokenPair, RefreshIssue, MintPair
    <3>3. t.type = "refresh"
      BY DEF CreateRefreshToken, CreateToken
    <3>4. mem'[r].pair = {CreateAccessToken(r, id), t}
      BY <3>2 DEF Memory, TypeInv, TypeOK, RequestsTypeOK
    <3> QED
      BY <3>3, <3>4
  <2>2. ASSUME req'[r].op \in {"register", "login", "refresh"}, resp'[r].status = "ok"
        PROVE  RefreshTokensOf(r)' # {}
    <3>1. pc[r] = "commit" /\ Committed(r)'
      BY <1>7, <1>8, <2>2
    <3>2. resp'[r].tokens = mem[r].pair
      BY <2>2, <3>1, CommitAnswers
    <3>3. \E t \in mem[r].pair : t.type = "refresh"
      BY <1>2, <2>2, <3>1 DEF PairFits
    <3> QED
      BY <3>2, <3>3 DEF RefreshTokensOf
  <2> QED
    BY <2>1, <2>2 DEF PairFits
<1>10. CookieFits(r)'
  <2>1. Committed(r)' => resp'[r].status \in {"ok", "500", "lost"}
    BY <1>8, CommitAnswers
  <2> QED
    BY <1>1, <1>2, <1>3, <1>7, <2>1 DEF CookieFits
<1> QED
  BY <1>4, <1>5, <1>6, <1>9, <1>10 DEF BrowserInv, Others

\* A crash ends only requests whose answer no browser has.
LEMMA CrashFits ==
  ASSUME CommitInv, BrowserInv, Crash, UNCHANGED browserVars
  PROVE  BrowserInv'
<1> USE DEF CommitInv
<1>1. /\ jar' = jar /\ landed' = landed /\ owner' = owner /\ req' = req
  BY DEF browserVars, Crash
<1>2. ASSUME NEW r \in Req
      PROVE  /\ Running(r) => /\ r \notin landed /\ pc[r] # "idle" /\ pc'[r] = "done"
                              /\ resp'[r].status = "lost" /\ ~Committed(r)'
             /\ ~Running(r) => /\ pc'[r] = pc[r] /\ resp'[r] = resp[r] /\ mem'[r] = mem[r]
                               /\ tx'[r] = tx[r]
  BY DEF Crash, Running, Statement, NoWrites, Committed, BrowserInv, CookieFits
<1>3. BrowserTypeOK'
  BY <1>1 DEF BrowserInv, BrowserTypeOK
<1>4. ASSUME NEW b \in Browser PROVE JarFits(b)'
  <2> SUFFICES ASSUME jar[b] # Null PROVE JarFits(b)'
    BY <1>1 DEF JarFits
  <2>1. jar[b].by \in landed /\ jar[b].by \in Req /\ JarFits(b)
    BY DEF BrowserInv, JarFits, BrowserTypeOK
  <2>2. resp'[jar[b].by] = resp[jar[b].by]
    BY <1>2, <2>1
  <2> QED
    BY <1>1, <2>1, <2>2 DEF JarFits, RefreshTokensOf
<1>5. ASSUME NEW r \in Req PROVE PairFits(r)' /\ CookieFits(r)'
  <2>1. PairFits(r) /\ CookieFits(r)
    BY DEF BrowserInv
  <2>2. CASE Running(r)
    BY <1>1, <1>2, <2>1, <2>2 DEF PairFits, CookieFits
  <2>3. CASE ~Running(r)
    BY <1>1, <1>2, <2>1, <2>3 DEF PairFits, CookieFits, RefreshTokensOf, Committed
  <2> QED
    BY <2>2, <2>3
<1> QED
  BY <1>3, <1>4, <1>5 DEF BrowserInv

-----------------------------------------------------------------------------
(* The moves of the browsers.                                              *)

\* What an answer leaves in the jar: the cookie that was there, none, or a
\* token that only this answer carries.
LEMMA CookieWays ==
  ASSUME CommitInv, BrowserInv, NEW r \in Req, NEW current
  PROVE  /\ \/ Cookie(r, current) = current
            \/ Cookie(r, current) = Null
            \/ Cookie(r, current) \in RefreshTokensOf(r) /\ Cookie(r, current).by = r
         /\ resp[r].status = "ok" /\ req[r].op \in {"refresh", "logout"} =>
              \/ Cookie(r, current) = Null
              \/ Cookie(r, current) \in RefreshTokensOf(r) /\ Cookie(r, current).by = r
<1> DEFINE some == CHOOSE t \in RefreshTokensOf(r) : TRUE
<1>1. ASSUME RefreshTokensOf(r) # {}
      PROVE  some \in RefreshTokensOf(r) /\ some.by = r
  <2>1. some \in RefreshTokensOf(r)
    BY <1>1
  <2>2. some \in resp[r].tokens
    BY <2>1 DEF RefreshTokensOf
  <2> QED
    BY <2>1, <2>2 DEF CommitInv, SessionInv, SessionFits
<1> HIDE DEF some
<1>2. CASE resp[r].status = "ok" /\ req[r].op \in {"register", "login", "refresh"}
  <2>1. Cookie(r, current) = some /\ RefreshTokensOf(r) # {}
    BY <1>2 DEF Cookie, some, BrowserInv, PairFits
  <2> QED
    BY <1>1, <2>1
<1>3. CASE resp[r].status # "ok" \/ req[r].op \notin {"register", "login", "refresh"}
  BY <1>3 DEF Cookie
<1> QED
  BY <1>2, <1>3

\* An answer that arrives takes away the cookie that its request presented, and
\* brings back none that another has taken away.
LEMMA ReceiveFits ==
  ASSUME CommitInv, BrowserInv, NEW r \in Req, Receive(r)
  PROVE  BrowserInv'
<1> USE DEF CommitInv
<1> DEFINE b == owner[r]
           cookie == Cookie(r, jar[b])
<1>1. /\ UNCHANGED <<pc, req, mem, resp, tx>> /\ owner' = owner /\ r \notin landed
      /\ landed' = landed \cup {r} /\ pc[r] = "done" /\ resp[r].status # "lost"
  BY DEF Receive, vars
<1>2. BrowserTypeOK /\ CookieFits(r)
  BY DEF BrowserInv
<1>3. b \in Browser /\ r \notin Seed /\ r \notin SeedInactive
  BY <1>1, <1>2, SeedAssumption DEF BrowserTypeOK, CookieFits
<1>4. jar'[b] = cookie /\ \A c \in Browser \ {b} : jar'[c] = jar[c]
  BY <1>2, <1>3 DEF Receive, BrowserTypeOK
<1>5. /\ \/ cookie = jar[b] \/ cookie = Null
         \/ cookie \in RefreshTokensOf(r) /\ cookie.by = r
      /\ resp[r].status = "ok" /\ req[r].op \in {"refresh", "logout"} =>
           \/ cookie = Null
           \/ cookie \in RefreshTokensOf(r) /\ cookie.by = r
  BY CookieWays
<1> HIDE DEF cookie, b
<1>6. cookie \in Token \cup {Null}
  <2>1. RefreshTokensOf(r) \subseteq Token
    BY DEF RefreshTokensOf, TypeInv, TypeOK, RequestsTypeOK, Response
  <2> QED
    BY <1>2, <1>3, <1>5, <2>1 DEF BrowserTypeOK
<1>7. BrowserTypeOK'
  <2>1. jar' = [jar EXCEPT ![b] = cookie]
    BY <1>2, <1>3, <1>4 DEF Receive, BrowserTypeOK, b, cookie
  <2> QED
    BY <1>1, <1>2, <1>6, <2>1 DEF BrowserTypeOK
<1>8. ASSUME NEW c \in Browser PROVE JarFits(c)'
  <2>1. JarFits(c)
    BY DEF BrowserInv
  <2>2. CASE jar'[c] = jar[c]
    BY <1>1, <2>1, <2>2 DEF JarFits, RefreshTokensOf
  <2>3. CASE jar'[c] # jar[c]
    BY <1>1, <1>3, <1>4, <1>5, <2>3 DEF JarFits, RefreshTokensOf, b
  <2> QED
    BY <2>2, <2>3
<1>9. ASSUME NEW q \in Req PROVE CookieFits(q)'
  <2>1. CookieFits(q)
    BY DEF BrowserInv
  <2>2. ASSUME req[q].op \in {"refresh", "logout"}, req[q].token # Null, q \in landed',
               resp[q].status = "ok"
        PROVE  jar'[owner[q]] # req[q].token
    <3>1. req[q].token.by \in landed /\ req[q].token.by # r
      BY <1>1, <2>1, <2>2 DEF CookieFits
    <3>2. CASE q = r
      BY <1>4, <1>5, <2>2, <3>1, <3>2 DEF b
    <3>3. CASE q # r /\ owner[q] = b
      <4>1. jar[b] # req[q].token
        BY <1>1, <2>1, <2>2, <3>3 DEF CookieFits
      <4> QED
        BY <1>4, <1>5, <2>2, <3>1, <3>3, <4>1
    <3>4. CASE q # r /\ owner[q] # b
      <4>1. jar[owner[q]] # req[q].token
        BY <1>1, <2>1, <2>2, <3>4 DEF CookieFits
      <4>2. jar'[owner[q]] = jar[owner[q]]
        BY <1>2, <3>4 DEF Receive, BrowserTypeOK, b
      <4> QED
        BY <4>1, <4>2
    <3> QED
      BY <3>2, <3>3, <3>4
  <2> QED
    BY <1>1, <2>1, <2>2 DEF CookieFits, Committed
<1>10. ASSUME NEW q \in Req PROVE PairFits(q)'
  BY <1>1 DEF BrowserInv, PairFits, RefreshTokensOf
<1> QED
  BY <1>7, <1>8, <1>9, <1>10 DEF BrowserInv

\* A cookie that expires leaves nothing behind.
LEMMA ExpireFits ==
  ASSUME BrowserInv, NEW b \in Browser, Expire(b)
  PROVE  BrowserInv'
<1>1. /\ UNCHANGED <<pc, req, mem, resp, tx, owner, landed>>
      /\ \A c \in Browser : jar'[c] \in {jar[c], Null}
  BY DEF Expire, vars, BrowserInv, BrowserTypeOK
<1>2. BrowserTypeOK'
  BY <1>1 DEF Expire, BrowserInv, BrowserTypeOK
<1>3. ASSUME NEW c \in Browser PROVE JarFits(c)'
  BY <1>1 DEF BrowserInv, JarFits, RefreshTokensOf
<1>4. ASSUME NEW q \in Req PROVE CookieFits(q)'
  <2>1. CookieFits(q)
    BY DEF BrowserInv
  <2>2. ASSUME q \in landed, req[q].op \in {"refresh", "logout"}
        PROVE  jar'[owner[q]] \in {jar[owner[q]], Null}
    BY DEF Expire, BrowserInv, BrowserTypeOK
  <2> QED
    BY <1>1, <2>1, <2>2 DEF CookieFits, Committed
<1>5. ASSUME NEW q \in Req PROVE PairFits(q)'
  BY <1>1 DEF BrowserInv, PairFits, RefreshTokensOf
<1> QED
  BY <1>2, <1>3, <1>4, <1>5 DEF BrowserInv

-----------------------------------------------------------------------------
(* Every behaviour.                                                        *)

\* Every step keeps BrowserInv.
LEMMA BrowserStep ==
  CommitInv /\ BrowserInv /\ [BrowserNext]_<<vars, browserVars>> => BrowserInv'
<1> SUFFICES ASSUME CommitInv, BrowserInv, [BrowserNext]_<<vars, browserVars>>
             PROVE  BrowserInv'
  OBVIOUS
<1>1. CASE UNCHANGED <<vars, browserVars>>
  BY <1>1 DEF vars, browserVars, BrowserInv, BrowserTypeOK, JarFits, PairFits, CookieFits,
              RefreshTokensOf, Committed
<1>2. CASE Tick /\ UNCHANGED browserVars
  BY <1>2 DEF Tick, browserVars, BrowserInv, BrowserTypeOK, JarFits, PairFits, CookieFits,
              RefreshTokensOf, Committed
<1> QED
  BY <1>1, <1>2, SendFits, StepFits, ReceiveFits, ExpireFits, CrashFits DEF BrowserNext

\* Browsers are clients of the application, which behaves as it does for any.
LEMMA BrowserCommits == BrowserSpec => []CommitInv
<1>1. BrowserInit => Init
  BY DEF BrowserInit
<1>2. [BrowserNext]_<<vars, browserVars>> => [Next]_vars
  BY DEF BrowserNext, Send, Receive, Expire, Next
<1>3. BrowserSpec => Spec
  BY <1>1, <1>2, PTL DEF BrowserSpec, Spec
<1>4. Spec => [](TypeInv /\ LockOrder /\ SessionInv /\ AccountInv /\ TokenInv /\ KeepInv /\ EffectInv)
  BY TypeCorrect, LocksInOrder, SessionsFit, AccountsFit, TokensFit, DeletionsFit, EffectsFit,
     PTL
<1> QED
  BY <1>3, <1>4, PTL DEF CommitInv

\* BrowserInv holds in every behaviour.
LEMMA BrowsersFit == BrowserSpec => []BrowserInv
<1>1. BrowserInit => BrowserInv
  <2> SUFFICES ASSUME BrowserInit PROVE BrowserInv
    OBVIOUS
  <2>1. Init /\ Browser \subseteq Seed /\ Seed \subseteq Req
    BY SeedAssumption DEF BrowserInit, Browser
  <2>2. TypeInv
    BY <2>1, InitType
  <2>3. ASSUME NEW r \in Seed
        PROVE  SeedRefresh(r) \in RefreshTokensOf(r) /\ SeedRefresh(r).by = r
    BY <2>1, <2>3 DEF Init, RefreshTokensOf, SeedRefresh, SeedToken
  <2>4. ASSUME NEW r \in Req PROVE RefreshTokensOf(r) \subseteq Token
    BY <2>2 DEF RefreshTokensOf, TypeInv, TypeOK, RequestsTypeOK, Response
  <2>5. BrowserTypeOK
    BY <2>1, <2>3, <2>4 DEF BrowserInit, BrowserTypeOK
  <2>6. ASSUME NEW b \in Browser PROVE JarFits(b)
    BY <2>1, <2>3 DEF BrowserInit, JarFits, Browser
  <2>7. ASSUME NEW r \in Seed PROVE PairFits(r) /\ CookieFits(r)
    <3>1. /\ pc[r] = "done" /\ resp[r].status = "ok" /\ Committed(r)
          /\ req[r].op = "register"
      BY <2>1, <2>7 DEF Init, NoWrites, Committed, Blank
    <3> QED
      BY <2>3, <3>1 DEF PairFits, CookieFits
  <2>8. ASSUME NEW r \in Req \ Seed PROVE PairFits(r) /\ CookieFits(r)
    <3>1. pc[r] = "idle" /\ ~Committed(r)
      BY <2>1, <2>8, SeedsCommitted DEF Committed
    <3>2. req[r] = Blank /\ resp[r] = NoResponse /\ r \notin landed
      BY <2>1, <2>8 DEF BrowserInit, Init
    <3>3. req[r].op = Null /\ resp[r].status = "none"
      BY <3>2 DEF Blank, NoResponse
    <3> QED
      BY <3>1, <3>2, <3>3, NullAssumption DEF PairFits, CookieFits, Op
  <2> QED
    BY <2>5, <2>6, <2>7, <2>8 DEF BrowserInv
<1> QED
  BY <1>1, BrowserCommits, BrowserStep, PTL DEF BrowserSpec

\* A browser whose cookie is good for nothing is still to hear of the request
\* that used it up, was told of a failure, or has lost its account: its own
\* answers never undo one another, in whatever order they arrive.
THEOREM JarsFollow == BrowserSpec => []JarFollowsStore
<1>1. CommitInv /\ BrowserInv => JarFollowsStore
  <2> SUFFICES ASSUME CommitInv, BrowserInv, NEW b \in Browser, jar[b] # Null,
                      \A row \in tokens : row.hash # jar[b]
               PROVE  \E q \in Req :
                        /\ Committed(q)
                        /\ MayEnd(q, jar[b])
                        /\ req[q].op \in {"refresh", "logout"} =>
                             owner[q] = b /\ (q \notin landed \/ resp[q].status = "500")
    BY DEF JarFollowsStore
  <2>1. /\ jar[b].by \in Req \ SeedInactive /\ jar[b] \in RefreshTokensOf(jar[b].by)
        /\ owner[jar[b].by] = b
    BY DEF BrowserInv, JarFits, BrowserTypeOK
  <2>2. PICK q \in Req : Committed(q) /\ MayEnd(q, jar[b])
    BY <2>1 DEF CommitInv, KeepInv, NoSessionLost
  <2>3. ASSUME req[q].op \in {"refresh", "logout"}
        PROVE  owner[q] = b /\ (q \notin landed \/ resp[q].status = "500")
    <3>1. req[q].token = jar[b]
      BY <2>2, <2>3 DEF MayEnd
    <3>2. CookieFits(q)
      BY DEF BrowserInv
    <3> QED
      BY <2>1, <2>2, <2>3, <3>1, <3>2 DEF CookieFits
  <2> QED
    BY <2>2, <2>3
<1> QED
  BY <1>1, BrowserCommits, BrowsersFit, PTL
=============================================================================
