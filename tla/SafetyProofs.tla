---------------------------- MODULE SafetyProofs ----------------------------
(***************************************************************************)
(* Safety theorems about the running application: locks, roles, the        *)
(* sessions that refreshes and logouts use up, and what the two tables     *)
(* hold.  Each rests on TypeInv and on an invariant of ApiInvariant that   *)
(* says what one request between two statements may hold or know.          *)
(*                                                                         *)
(* The proofs about the tables follow the rows that a transaction has      *)
(* written: at most one account, which is a new version of one that is     *)
(* there or the request's own under an address that is free and that no    *)
(* other transaction is inserting; token rows that agree with their token; *)
(* and deletions that the request is entitled to.                          *)
(***************************************************************************)
EXTENDS ApiProofs

\* A step of request r that moves nobody else.
MovesOnly(r) ==
  /\ pc[r] # "done"
  /\ \A q \in Others(r) :
       /\ pc'[q] = pc[q] /\ req'[q] = req[q] /\ actor'[q] = actor[q]
       /\ mem'[q] = mem[q] /\ resp'[q] = resp[q] /\ tx'[q] = tx[q]

\* Whatever happens to one request happens to no other.
LEMMA OneRequest ==
  ASSUME TypeInv, NEW r \in Req, Call(r) \/ Step(r) \/ Fault(r)
  PROVE  MovesOnly(r)
<1> USE DEF TypeInv, TypeOK, StoreTypeOK, RequestsTypeOK, MovesOnly, Others
<1>1. ASSUME NEW input, NEW statement, Begin(r, input, statement) PROVE MovesOnly(r)
  BY <1>1 DEF Begin, Goto
<1>2. ASSUME NEW input, Refuse(r, input) PROVE MovesOnly(r)
  BY <1>2 DEF Refuse, Answer, Goto
<1>3. ASSUME NEW status, pc[r] # "done", Raise(r, status) PROVE MovesOnly(r)
  BY <1>3 DEF Raise, Rollback, Answer, Goto
<1>4. ASSUME NEW locals, NEW statement, pc[r] # "done", Read(r, locals, statement)
      PROVE  MovesOnly(r)
  BY <1>4 DEF Read, Goto
<1>5. ASSUME NEW rows, NEW locals, NEW statement, pc[r] # "done", WriteUsers(r, rows),
             mem' = [mem EXCEPT ![r] = locals], Wrote(r, statement)
      PROVE  MovesOnly(r)
  BY <1>5 DEF WriteUsers, Wrote, Goto
<1>6. ASSUME NEW row, NEW locals, NEW statement, pc[r] # "done", InsertToken(r, row),
             mem' = [mem EXCEPT ![r] = locals], Wrote(r, statement)
      PROVE  MovesOnly(r)
  BY <1>6 DEF InsertToken, Wrote, Goto
<1>7. ASSUME NEW hashes, NEW statement, pc[r] # "done", DeleteTokens(r, hashes),
             mem' = mem, Wrote(r, statement)
      PROVE  MovesOnly(r)
  BY <1>7 DEF DeleteTokens, Wrote, Goto
<1>8. ASSUME NEW status, NEW given, pc[r] # "done", Commit(r), Answer(r, status, given),
             UNCHANGED <<req, actor>>
      PROVE  MovesOnly(r)
  BY <1>8 DEF Commit, Answer, Goto
<1> HIDE DEF MovesOnly, TypeInv, TypeOK, StoreTypeOK, RequestsTypeOK, Others
<1>9. CASE Call(r)
  BY <1>1, <1>2, <1>9
     DEF Call, PostRegister, PostLogin, PostRefresh, PostLogout, BeginAuthenticated,
         PostUsers, PutUser, DeleteUser
<1>10. CASE AuthStep(r)
  <2>1. CASE RegisterLookup(r) \/ RegisterAdd(r) \/ RegisterUpdate(r)
    BY <1>3, <1>4, <1>5, <2>1, PartsType
       DEF RegisterLookup, RegisterAdd, RegisterUpdate, LookupNewEmail, AddUser, SetCreatedBy
  <2>2. CASE IssueTokenPair(r) \/ RefreshIssue(r)
    BY <1>6, <2>2 DEF IssueTokenPair, RefreshIssue, MintPair
  <2>3. CASE LoginAuthenticate(r) \/ RefreshGetToken(r) \/ RefreshGetUser(r)
    BY <1>3, <1>4, <2>3 DEF LoginAuthenticate, RefreshGetToken, RefreshGetUser
  <2>4. CASE RefreshDelete(r) \/ LogoutDelete(r)
    BY <1>7, <2>4 DEF RefreshDelete, LogoutDelete, DeleteByHash
  <2>5. CASE VerifyAccessToken(r)
    BY <1>3, <2>5 DEF VerifyAccessToken, Goto, MovesOnly, Others, TypeInv, TypeOK, RequestsTypeOK
  <2> QED
    BY <1>10, <2>1, <2>2, <2>3, <2>4, <2>5 DEF AuthStep
<1>11. CASE UserStep(r)
  <2>1. CASE CreateLookup(r) \/ CreateAdd(r) \/ CreateUpdate(r)
    BY <1>3, <1>4, <1>5, <2>1, PartsType
       DEF CreateLookup, CreateAdd, CreateUpdate, LookupNewEmail, AddUser, SetCreatedBy
  <2>2. CASE UpdateLoad(r) \/ DeactivateLoad(r) \/ RevokeSnapshot(r)
    BY <1>3, <1>4, <2>2 DEF UpdateLoad, DeactivateLoad, RevokeSnapshot
  <2>3. CASE UpdateWrite(r) \/ DeactivateWrite(r)
    BY <1>5, <2>3, PartsType DEF UpdateWrite, DeactivateWrite
  <2>4. CASE RevokeDelete(r)
    BY <1>7, <2>4 DEF RevokeDelete
  <2> QED
    BY <1>11, <2>1, <2>2, <2>3, <2>4 DEF UserStep
<1>12. CASE Finish(r) \/ Fault(r)
  BY <1>3, <1>8, <1>12 DEF Finish, Fault, DatabaseError, AnswerLost, Running, Statement
<1> QED
  BY <1>9, <1>10, <1>11, <1>12 DEF Step

\* What a request that has ended did and was told stays as it is.
LEMMA EndedStays ==
  ASSUME TypeInv, NEW r \in Req, Call(r) \/ Step(r) \/ Fault(r), NEW q \in Req, pc[q] = "done"
  PROVE  /\ q # r /\ pc'[q] = "done" /\ req'[q] = req[q] /\ resp'[q] = resp[q]
         /\ tx'[q] = tx[q]
BY OneRequest DEF MovesOnly, Others

\* At the start no transaction is open, and only those of the seed requests
\* have committed.
LEMMA SeedsCommitted ==
  ASSUME Init, NEW r \in Req
  PROVE  /\ tx[r].users = {} /\ tx[r].dels = {} /\ tx[r].adds = {}
         /\ r \in Seed => pc[r] = "done" /\ tx[r].fate = "committed"
         /\ r \notin Seed => pc[r] = "idle" /\ tx[r].fate = "open"
<1>1. CASE r \in Seed
  BY <1>1 DEF Init, NoWrites
<1>2. CASE r \notin Seed
  BY <1>2 DEF Init, NoWrites
<1> QED
  BY <1>1, <1>2

-----------------------------------------------------------------------------
(* Locks.                                                                  *)

\* A step of request r keeps r within the lock order.
LEMMA LockStep ==
  ASSUME TypeInv, LockOrder, NEW r \in Req, Call(r) \/ Step(r) \/ Fault(r)
  PROVE  LockFits(r)'
<1> USE DEF LockFits, Committed, TypeInv, TypeOK, StoreTypeOK, RequestsTypeOK
<1>1. LockFits(r)
  BY DEF LockOrder
<1>2. ASSUME NEW input, NEW statement, Begin(r, input, statement) PROVE LockFits(r)'
  BY <1>1, <1>2 DEF Begin, Goto
<1>3. ASSUME NEW input, Refuse(r, input) PROVE LockFits(r)'
  BY <1>1, <1>3 DEF Refuse, Answer, Goto
<1>4. ASSUME NEW status, Raise(r, status) PROVE LockFits(r)'
  BY <1>4 DEF Raise, Rollback, NoWrites, Answer, Goto
<1>5. ASSUME NEW locals, NEW statement, Read(r, locals, statement),
             tx[r].users = {} \/ statement = "revoke.delete",
             tx[r].dels = {} /\ tx[r].adds = {}, pc[r] # "done"
      PROVE  LockFits(r)'
  BY <1>1, <1>5 DEF Read, Goto
<1>6. ASSUME NEW rows, NEW statement, WriteUsers(r, rows), Wrote(r, statement),
             statement \in {"register.update", "issue.add", "create.update",
                           "revoke.snapshot", "commit"},
             tx[r].dels = {} /\ tx[r].adds = {}, pc[r] # "done"
      PROVE  LockFits(r)'
  BY <1>1, <1>6 DEF WriteUsers, Wrote, Goto, Transaction
<1>7. ASSUME NEW row, InsertToken(r, row), Wrote(r, "commit"), pc[r] # "done"
      PROVE  LockFits(r)'
  BY <1>1, <1>7 DEF InsertToken, Wrote, Goto, Transaction
<1>8. ASSUME NEW hashes, DeleteTokens(r, hashes), pc[r] # "done",
             \/ Wrote(r, "commit")
             \/ Wrote(r, "refresh.add") /\ tx[r].users = {},
             tx[r].adds = {}
      PROVE  LockFits(r)'
  BY <1>1, <1>8 DEF DeleteTokens, Wrote, Goto, Transaction
<1>9. ASSUME NEW status, NEW given, Commit(r), Answer(r, status, given)
      PROVE  LockFits(r)'
  BY <1>9 DEF Commit, NoWrites, Answer, Goto
<1> HIDE DEF TypeInv, TypeOK, StoreTypeOK, RequestsTypeOK
<1>10. CASE Call(r)
  <2> HIDE DEF LockFits
  <2> QED
    BY <1>2, <1>3, <1>10
       DEF Call, PostRegister, PostLogin, PostRefresh, PostLogout, BeginAuthenticated,
           PostUsers, PutUser, DeleteUser
<1>11. CASE AuthStep(r)
  <2>1. CASE RegisterLookup(r) \/ RegisterAdd(r) \/ RegisterUpdate(r)
    BY <1>1, <1>4, <1>5, <1>6, <2>1
       DEF RegisterLookup, RegisterAdd, RegisterUpdate, LookupNewEmail, AddUser, SetCreatedBy
  <2>2. CASE IssueTokenPair(r) \/ RefreshIssue(r)
    BY <1>7, <2>2 DEF IssueTokenPair, RefreshIssue, MintPair
  <2>3. CASE LoginAuthenticate(r) \/ RefreshGetToken(r) \/ RefreshGetUser(r)
    BY <1>1, <1>4, <1>5, <2>3 DEF LoginAuthenticate, RefreshGetToken, RefreshGetUser
  <2>4. CASE RefreshDelete(r) \/ LogoutDelete(r)
    BY <1>1, <1>8, <2>4 DEF RefreshDelete, LogoutDelete, DeleteByHash
  <2>5. CASE VerifyAccessToken(r)
    BY <1>1, <1>4, <2>5 DEF VerifyAccessToken, Goto, TypeInv, TypeOK, RequestsTypeOK
  <2> QED
    BY <1>11, <2>1, <2>2, <2>3, <2>4, <2>5 DEF AuthStep
<1>12. CASE UserStep(r)
  <2>1. CASE CreateLookup(r) \/ CreateAdd(r) \/ CreateUpdate(r)
    BY <1>1, <1>4, <1>5, <1>6, <2>1
       DEF CreateLookup, CreateAdd, CreateUpdate, LookupNewEmail, AddUser, SetCreatedBy
  <2>2. CASE UpdateLoad(r) \/ DeactivateLoad(r) \/ RevokeSnapshot(r)
    BY <1>1, <1>4, <1>5, <2>2 DEF UpdateLoad, DeactivateLoad, RevokeSnapshot
  <2>3. CASE UpdateWrite(r) \/ DeactivateWrite(r)
    BY <1>1, <1>6, <2>3 DEF UpdateWrite, DeactivateWrite
  <2>4. CASE RevokeDelete(r)
    BY <1>1, <1>8, <2>4 DEF RevokeDelete
  <2> QED
    BY <1>12, <2>1, <2>2, <2>3, <2>4 DEF UserStep
<1>13. CASE Finish(r) \/ Fault(r)
  BY <1>4, <1>9, <1>13 DEF Finish, Fault, DatabaseError, AnswerLost
<1> QED
  BY <1>10, <1>11, <1>12, <1>13 DEF Step

\* The lock order is inductive.
LEMMA LockNext == TypeInv /\ LockOrder /\ [Next]_vars => LockOrder'
<1> SUFFICES ASSUME TypeInv, LockOrder, [Next]_vars PROVE LockOrder'
  OBVIOUS
<1>1. ASSUME NEW r \in Req, Call(r) \/ Step(r) \/ Fault(r) PROVE LockOrder'
  <2>1. LockFits(r)'
    BY <1>1, LockStep
  <2>2. \A q \in Others(r) : LockFits(q)'
    BY <1>1, OneRequest DEF MovesOnly, LockOrder, LockFits, Committed, Others
  <2> QED
    BY <2>1, <2>2 DEF LockOrder, Others
<1>2. CASE Crash
  BY <1>2 DEF Crash, NoWrites, LockOrder, LockFits, Committed, Running,
              TypeInv, TypeOK, StoreTypeOK, RequestsTypeOK
<1>3. CASE Tick \/ UNCHANGED vars
  BY <1>3 DEF Tick, vars, LockOrder, LockFits, Committed
<1> QED
  BY <1>1, <1>2, <1>3 DEF Next

\* Row locks are taken in one order by every request: addresses and account
\* rows first, then refresh token rows.
THEOREM LocksInOrder == Spec => []LockOrder
<1>1. Init => LockOrder
  BY SeedsCommitted DEF LockOrder, LockFits, Committed
<1> QED
  BY <1>1, TypeCorrect, LockNext, PTL DEF Spec

\* A circle would need a request that waits for an account row, or holds token
\* rows, and is waited for.
LEMMA OrderBreaksCircles ==
  ASSUME LockOrder
  PROVE  NoCircularWait
<1> SUFFICES ASSUME NEW S \in SUBSET Req, S # {},
                    \A r \in S : WaitsFor(r) \cap S # {}
             PROVE  FALSE
  BY DEF NoCircularWait
<1>1. ASSUME NEW q \in S PROVE tx[q].dels = {}
  BY <1>1 DEF LockOrder, LockFits, WaitsFor
<1>2. ASSUME NEW q \in S PROVE pc[q] # "revoke.delete"
  BY <1>1, <1>2 DEF WaitsFor, HoldsToken, Others
<1>3. ASSUME NEW q \in S PROVE tx[q].users = {}
  BY <1>2, <1>3 DEF LockOrder, LockFits, WaitsFor
<1>4. PICK r \in S : TRUE
  OBVIOUS
<1>5. PICK q \in S : q \in WaitsFor(r)
  BY <1>4
<1> QED
  BY <1>1, <1>3, <1>5 DEF WaitsFor, HoldsEmail, HoldsUser, HoldsToken

\* So no set of requests, whatever their number, waits in a circle, and
\* PostgreSQL never has to abort one of them to resolve a deadlock.
THEOREM DeadlockFree == Spec => []NoCircularWait
<1> QED
  BY OrderBreaksCircles, LocksInOrder, PTL

-----------------------------------------------------------------------------
(* Roles.                                                                  *)

\* A grant is never taken back from the record: its request has ended.
LEMMA GrantsKept ==
  ASSUME TypeInv, LockOrder, NEW r \in Req, Call(r) \/ Step(r) \/ Fault(r), NEW id,
         GrantedTo(id)
  PROVE  GrantedTo(id)'
<1>1. MovesOnly(r)
  BY OneRequest
<1>2. ASSUME NEW q \in Req, Committed(q), Grants(q, id)
      PROVE  Committed(q)' /\ Grants(q, id)'
  <2>1. q # r
    BY <1>1, <1>2 DEF MovesOnly, LockOrder, LockFits
  <2> QED
    BY <1>1, <1>2, <2>1 DEF MovesOnly, Others, Committed, Grants
<1> QED
  BY <1>2 DEF GrantedTo

\* A request that keeps its input and its actor keeps its rights.
LEMMA RightsKept ==
  ASSUME TypeInv, LockOrder, NEW r \in Req, Call(r) \/ Step(r) \/ Fault(r), NEW id,
         NEW q \in Req, ByRightOf(q, id), req'[q] = req[q], actor'[q] = actor[q]
  PROVE  ByRightOf(q, id)'
BY GrantsKept DEF ByRightOf, Grants

\* The rows a request sees with the role ADMIN have it by right.
LEMMA SeenAdmins ==
  ASSUME RoleInv, NEW r \in Req, NEW u \in SeenUsers(r), u.role = "ADMIN"
  PROVE  ByRightOf(r, u.id)
BY DEF RoleInv, RoleFits, NoSelfPromotion, SeenUsers, Overlay, ByRightOf

\* A step of request r writes ADMIN by right only.
LEMMA RoleStep ==
  ASSUME TypeInv, LockOrder, RoleInv, NEW r \in Req, Call(r) \/ Step(r) \/ Fault(r)
  PROVE  RoleFits(r)'
<1> DEFINE Privileged == {"create.get_by_email", "create.add", "update.update"}
           Kept == req'[r] = req[r] /\ actor'[r] = actor[r]
<1>1. RoleFits(r) /\ LockFits(r)
  BY DEF RoleInv, LockOrder
<1>2. ASSUME tx'[r].users = {}, pc'[r] \notin Privileged
      PROVE  RoleFits(r)'
  BY <1>2 DEF RoleFits
<1>3. ASSUME Kept, \A w \in tx'[r].users : w \in tx[r].users \/ (w.role = "ADMIN" => ByRightOf(r, w.id)),
             pc'[r] \notin Privileged
      PROVE  RoleFits(r)'
  BY <1>1, <1>3, RightsKept DEF RoleFits
<1>4. ASSUME NEW input, NEW statement, Begin(r, input, statement),
             statement \notin Privileged
      PROVE  RoleFits(r)'
  BY <1>1, <1>2, <1>4 DEF Begin, Goto, LockFits, TypeInv, TypeOK, RequestsTypeOK
<1>5. ASSUME NEW input, Refuse(r, input) PROVE RoleFits(r)'
  BY <1>1, <1>2, <1>5 DEF Refuse, Answer, Goto, LockFits, TypeInv, TypeOK, RequestsTypeOK
<1>6. ASSUME NEW status, Raise(r, status) PROVE RoleFits(r)'
  BY <1>2, <1>6 DEF Raise, Rollback, NoWrites, Answer, Goto, TypeInv, TypeOK, StoreTypeOK, RequestsTypeOK
<1>7. ASSUME NEW status, NEW given, Commit(r), Answer(r, status, given) PROVE RoleFits(r)'
  BY <1>2, <1>7 DEF Commit, NoWrites, Answer, Goto, TypeInv, TypeOK, StoreTypeOK, RequestsTypeOK
<1>8. ASSUME NEW locals, NEW statement, Read(r, locals, statement),
             statement \notin Privileged
      PROVE  RoleFits(r)'
  BY <1>3, <1>8 DEF Read, Goto, TypeInv, TypeOK, RequestsTypeOK
<1>9. ASSUME NEW rows, NEW statement, WriteUsers(r, rows), Wrote(r, statement),
             statement \notin Privileged,
             \A w \in rows : w.role = "ADMIN" => ByRightOf(r, w.id)
      PROVE  RoleFits(r)'
  BY <1>3, <1>9 DEF WriteUsers, Overlay, Wrote, Goto, Transaction, TypeInv, TypeOK,
                    StoreTypeOK, RequestsTypeOK
<1>10. ASSUME NEW row, InsertToken(r, row), Wrote(r, "commit") PROVE RoleFits(r)'
  BY <1>3, <1>10 DEF InsertToken, Wrote, Goto, Transaction, TypeInv, TypeOK, StoreTypeOK,
                     RequestsTypeOK
<1>11. ASSUME NEW hashes, NEW statement, DeleteTokens(r, hashes), Wrote(r, statement),
              statement \notin Privileged
       PROVE  RoleFits(r)'
  BY <1>3, <1>11 DEF DeleteTokens, Wrote, Goto, Transaction, TypeInv, TypeOK, StoreTypeOK,
                     RequestsTypeOK
<1>0. /\ "register.get_by_email" \notin Privileged /\ "login.get_by_email" \notin Privileged
      /\ "refresh.get_by_user_and_hash" \notin Privileged
      /\ "logout.delete_by_hash" \notin Privileged /\ "verify.get_by_id" \notin Privileged
      /\ "register.add" \notin Privileged /\ "register.update" \notin Privileged
      /\ "issue.add" \notin Privileged /\ "refresh.get_by_id" \notin Privileged
      /\ "refresh.delete_by_hash" \notin Privileged /\ "refresh.add" \notin Privileged
      /\ "create.update" \notin Privileged /\ "deactivate.deactivate" \notin Privileged
      /\ "revoke.snapshot" \notin Privileged /\ "revoke.delete" \notin Privileged
      /\ "commit" \notin Privileged
  OBVIOUS
<1> HIDE DEF Kept, Privileged
<1>12. CASE Call(r)
  BY <1>0, <1>4, <1>5, <1>12
     DEF Call, PostRegister, PostLogin, PostRefresh, PostLogout, BeginAuthenticated,
         PostUsers, PutUser, DeleteUser
<1>13. CASE SetCreatedBy(r, pc[r], "issue.add") \/ SetCreatedBy(r, pc[r], "commit")
  <2>1. PICK u \in GetById(r, r), statement \in {"issue.add", "commit"} :
          WriteUsers(r, {[u EXCEPT !.createdBy = r]}) /\ Wrote(r, statement)
    BY <1>13 DEF SetCreatedBy
  <2> DEFINE row == [u EXCEPT !.createdBy = r]
  <2>2. u \in UserRow /\ u \in SeenUsers(r)
    BY SeenUsersType DEF GetById, TypeInv, TypeOK
  <2>3. row.role = u.role /\ row.id = u.id
    BY <2>2 DEF UserRow
  <2>4. row.role = "ADMIN" => ByRightOf(r, row.id)
    BY <2>2, <2>3, SeenAdmins
  <2>5. WriteUsers(r, {row}) /\ Wrote(r, statement) /\ statement \notin Privileged
    BY <1>0, <2>1
  <2>6. \A w \in {row} : w.role = "ADMIN" => ByRightOf(r, w.id)
    BY <2>4
  <2> HIDE DEF row
  <2> QED
    BY <1>9, <2>5, <2>6
<1>14. CASE AuthStep(r)
  <2>1. CASE RegisterLookup(r)
    BY <1>0, <1>6, <1>8, <2>1 DEF RegisterLookup, LookupNewEmail
  <2>2. CASE RegisterAdd(r)
    <3> DEFINE row == NewAccount(r, "USER", TRUE)
    <3>1. \A w \in {row} : w.role = "ADMIN" => ByRightOf(r, w.id)
      BY DEF NewAccount
    <3>2. Raise(r, "409") \/ (WriteUsers(r, {row}) /\ Wrote(r, "register.update"))
      BY <2>2 DEF RegisterAdd, AddUser
    <3> HIDE DEF row
    <3> QED
      BY <1>0, <1>6, <1>9, <3>1, <3>2
  <2>3. CASE RegisterUpdate(r)
    BY <1>13, <2>3 DEF RegisterUpdate, SetCreatedBy
  <2>4. CASE IssueTokenPair(r) \/ RefreshIssue(r)
    BY <1>10, <2>4 DEF IssueTokenPair, RefreshIssue, MintPair
  <2>5. CASE LoginAuthenticate(r) \/ RefreshGetToken(r) \/ RefreshGetUser(r)
    BY <1>0, <1>6, <1>8, <2>5 DEF LoginAuthenticate, RefreshGetToken, RefreshGetUser
  <2>6. CASE RefreshDelete(r) \/ LogoutDelete(r)
    BY <1>0, <1>11, <2>6 DEF RefreshDelete, LogoutDelete, DeleteByHash
  <2>7. CASE VerifyAccessToken(r)
    <3>1. ASSUME NEW u, Allowed(u, req[r]), actor' = [actor EXCEPT ![r] = u],
                 Goto(r, ServiceEntry[req[r].op]),
                 UNCHANGED <<now, users, tokens, tx, req, mem, resp>>
          PROVE  RoleFits(r)'
      <4>1. tx'[r].users = {} /\ actor'[r] = u /\ pc'[r] = ServiceEntry[req[r].op]
        BY <1>1, <2>7, <3>1 DEF VerifyAccessToken, LockFits, Goto, TypeInv, TypeOK, RequestsTypeOK
      <4>2. req[r].op \in {"create", "update", "deactivate"}
        BY <2>7, PartsType DEF VerifyAccessToken, Fits, StatementFits
      <4>3. /\ pc'[r] \notin {"create.add", "update.update"}
            /\ pc'[r] = "create.get_by_email" => req[r].op = "create"
        BY <4>1, <4>2 DEF ServiceEntry
      <4>4. pc'[r] = "create.get_by_email" => actor'[r].role = "ADMIN"
        BY <3>1, <4>1, <4>3 DEF Allowed
      <4> QED
        BY <4>1, <4>3, <4>4 DEF RoleFits
    <3> QED
      BY <1>6, <2>7, <3>1 DEF VerifyAccessToken
  <2> QED
    BY <1>14, <2>1, <2>2, <2>3, <2>4, <2>5, <2>6, <2>7 DEF AuthStep
<1>15. CASE UserStep(r)
  <2>1. CASE CreateLookup(r)
    <3>1. CASE Read(r, mem[r], "create.add")
      BY <1>1, <2>1, <3>1
         DEF CreateLookup, LookupNewEmail, Read, Goto, RoleFits, LockFits, TypeInv, TypeOK,
             RequestsTypeOK
    <3> QED
      BY <1>6, <2>1, <3>1 DEF CreateLookup, LookupNewEmail
  <2>2. CASE CreateAdd(r)
    <3>1. req[r].op = "create" /\ actor[r] \in UserRow /\ actor[r].role = "ADMIN"
      BY <1>1, <2>2, PartsType
         DEF CreateAdd, AddUser, Fits, StatementFits, LocalsFit, UsesActor, RoleFits
    <3>2. req[r].role = "ADMIN" => ByRightOf(r, r)
      BY <3>1, NullAssumption DEF ByRightOf, Grants
    <3> QED
      BY <1>0, <1>6, <1>9, <2>2, <3>2 DEF CreateAdd, AddUser, NewAccount
  <2>3. CASE CreateUpdate(r)
    BY <1>13, <2>3 DEF CreateUpdate, SetCreatedBy
  <2>4. CASE UpdateLoad(r)
    <3>1. ASSUME NEW u \in GetById(r, req[r].target), MayChange(r, u),
                 Read(r, [mem[r] EXCEPT !.user = u], "update.update")
          PROVE  RoleFits(r)'
      <4>1. mem'[r].user = u /\ pc'[r] = "update.update" /\ tx'[r].users = {}
        BY <1>1, <2>4, <3>1, PartsType
           DEF UpdateLoad, Read, Goto, LockFits, Memory, TypeInv, TypeOK, RequestsTypeOK
      <4>2. u \in users /\ u.id = req[r].target
        BY <1>1, <2>4 DEF UpdateLoad, GetById, SeenUsers, Overlay, LockFits
      <4>3. u.role = "ADMIN" => GrantedTo(u.id)'
        BY <4>2, GrantsKept DEF RoleInv, NoSelfPromotion
      <4>4. MayChange(r, mem[r].user)'
        BY <3>1, <4>1 DEF Read, MayChange, NewRole, NewActive, Given
      <4>5. req'[r].target = u.id
        BY <3>1, <4>2 DEF Read
      <4> QED
        BY <4>1, <4>3, <4>4, <4>5 DEF RoleFits, GrantedTo, Grants
    <3> QED
      BY <1>6, <2>4, <3>1 DEF UpdateLoad
  <2>5. CASE DeactivateLoad(r) \/ RevokeSnapshot(r)
    BY <1>0, <1>6, <1>8, <2>5 DEF DeactivateLoad, RevokeSnapshot
  <2>6. CASE UpdateWrite(r)
    <3>1. /\ req[r].op = "update" /\ mem[r].user \in UserRow /\ actor[r] \in UserRow
          /\ req[r].role \in Role \cup {Null}
      BY <2>6, PartsType
         DEF UpdateWrite, Fits, StatementFits, LocalsFit, UsesUser, UsesActor, Input
    <3>2. NewRole(r, mem[r].user) = "ADMIN" => ByRightOf(r, req[r].target)
      BY <1>1, <2>6, <3>1, NullAssumption
         DEF UpdateWrite, RoleFits, MayChange, NewRole, Given, ByRightOf, Grants
    <3>3. ASSUME NEW u \in GetById(r, req[r].target)
          PROVE  /\ UpdatedRow(r, u).role = NewRole(r, mem[r].user)
                 /\ UpdatedRow(r, u).id = req[r].target
      BY SeenUsersType DEF GetById, UpdatedRow, UserRow, TypeInv, TypeOK
    <3>4. \A w \in {UpdatedRow(r, u) : u \in GetById(r, req[r].target)} :
            w.role = "ADMIN" => ByRightOf(r, w.id)
      BY <3>2, <3>3
    <3>5. (IF MustRevoke(r) THEN "revoke.snapshot" ELSE "commit") \in {"revoke.snapshot", "commit"}
      OBVIOUS
    <3> QED
      BY <1>0, <1>9, <2>6, <3>4, <3>5 DEF UpdateWrite
  <2>7. CASE DeactivateWrite(r)
    <3>1. ASSUME NEW u \in GetById(r, req[r].target)
          PROVE  LET w == [u EXCEPT !.active = FALSE]
                 IN  w.role = "ADMIN" => ByRightOf(r, w.id)
      <4>1. u \in UserRow /\ u \in SeenUsers(r)
        BY SeenUsersType DEF GetById, TypeInv, TypeOK
      <4> QED
        BY <4>1, SeenAdmins DEF UserRow
    <3> DEFINE rows == {[u EXCEPT !.active = FALSE] : u \in GetById(r, req[r].target)}
    <3>2. \A w \in rows : w.role = "ADMIN" => ByRightOf(r, w.id)
      BY <3>1
    <3>3. WriteUsers(r, rows) /\ Wrote(r, "revoke.snapshot")
      BY <2>7 DEF DeactivateWrite
    <3> HIDE DEF rows
    <3> QED
      BY <1>0, <1>9, <3>2, <3>3
  <2>8. CASE RevokeDelete(r)
    BY <1>0, <1>11, <2>8 DEF RevokeDelete
  <2> QED
    BY <1>15, <2>1, <2>2, <2>3, <2>4, <2>5, <2>6, <2>7, <2>8 DEF UserStep
<1>16. CASE Finish(r) \/ Fault(r)
  BY <1>6, <1>7, <1>16 DEF Finish, Fault, DatabaseError, AnswerLost
<1> QED
  BY <1>12, <1>14, <1>15, <1>16 DEF Step

\* The tables change by a COMMIT only.
LEMMA OnlyCommitPublishes ==
  ASSUME TypeInv, NEW r \in Req, Call(r) \/ Step(r) \/ Fault(r)
  PROVE  \/ UNCHANGED <<users, tokens>>
         \/ /\ Commit(r) /\ UNCHANGED <<req, actor>>
            /\ pc[r] = "commit" /\ pc'[r] = "done"
<1>1. CASE Call(r)
  BY <1>1 DEF Call, PostRegister, PostLogin, PostRefresh, PostLogout, BeginAuthenticated,
              PostUsers, PutUser, DeleteUser, Begin, Refuse
<1>2. CASE AuthStep(r)
  BY <1>2 DEF AuthStep, RegisterLookup, RegisterAdd, RegisterUpdate, LookupNewEmail, AddUser,
              SetCreatedBy, IssueTokenPair, RefreshIssue, MintPair, LoginAuthenticate,
              RefreshGetToken, RefreshGetUser, RefreshDelete, LogoutDelete, DeleteByHash,
              VerifyAccessToken, Read, Wrote, Raise, Rollback
<1>3. CASE UserStep(r)
  BY <1>3 DEF UserStep, CreateLookup, CreateAdd, CreateUpdate, LookupNewEmail, AddUser,
              SetCreatedBy, UpdateLoad, UpdateWrite, DeactivateLoad, DeactivateWrite,
              RevokeSnapshot, RevokeDelete, Read, Wrote, Raise, Rollback
<1>4. CASE Finish(r) \/ Fault(r)
  BY <1>4 DEF Finish, Fault, DatabaseError, AnswerLost, Raise, Rollback, Answer, Goto,
              TypeInv, TypeOK, RequestsTypeOK
<1> QED
  BY <1>1, <1>2, <1>3, <1>4 DEF Step

\* Every step keeps RoleInv.
LEMMA RoleNext == TypeInv /\ LockOrder /\ RoleInv /\ [Next]_vars => RoleInv'
<1> SUFFICES ASSUME TypeInv, LockOrder, RoleInv, [Next]_vars PROVE RoleInv'
  OBVIOUS
<1>1. ASSUME NEW r \in Req, Call(r) \/ Step(r) \/ Fault(r) PROVE RoleInv'
  <2>1. RoleFits(r)'
    BY <1>1, RoleStep
  <2>2. ASSUME NEW q \in Others(r) PROVE RoleFits(q)'
    <3>1. RoleFits(q) /\ q \in Req
      BY DEF RoleInv, Others
    <3>2. /\ pc'[q] = pc[q] /\ req'[q] = req[q] /\ actor'[q] = actor[q]
          /\ mem'[q] = mem[q] /\ tx'[q] = tx[q]
      BY <1>1, OneRequest DEF MovesOnly
    <3>3. \A w \in tx'[q].users : w.role = "ADMIN" => ByRightOf(q, w.id)'
      BY <1>1, <3>1, <3>2, RightsKept DEF RoleFits
    <3>4. ASSUME pc'[q] = "update.update"
          PROVE  /\ MayChange(q, mem[q].user)'
                 /\ mem'[q].user.role = "ADMIN" => GrantedTo(req[q].target)'
      <4>1. MayChange(q, mem[q].user)
        BY <3>1, <3>2, <3>4 DEF RoleFits
      <4>2. MayChange(q, mem[q].user)'
        BY <3>2, <4>1 DEF MayChange, NewRole, NewActive, Given
      <4>3. PICK id : id = req[q].target
        OBVIOUS
      <4>4. mem[q].user.role = "ADMIN" => GrantedTo(id)
        BY <3>1, <3>2, <3>4, <4>3 DEF RoleFits
      <4>5. mem[q].user.role = "ADMIN" => GrantedTo(id)'
        BY <1>1, <4>4, GrantsKept
      <4> QED
        BY <3>2, <4>2, <4>3, <4>5 DEF GrantedTo, Grants
    <3> QED
      BY <3>1, <3>2, <3>3, <3>4 DEF RoleFits
  <2>3. NoSelfPromotion'
    <3>1. CASE UNCHANGED users
      BY <1>1, <3>1, GrantsKept DEF RoleInv, NoSelfPromotion
    <3>2. CASE Commit(r) /\ UNCHANGED <<req, actor>>
      <4>1. Committed(r)' /\ users' = SeenUsers(r)
        BY <3>2 DEF Commit, Committed, NoWrites, TypeInv, TypeOK, StoreTypeOK
      <4>2. ASSUME NEW u \in SeenUsers(r), u.role = "ADMIN" PROVE GrantedTo(u.id)'
        <5>1. GrantedTo(u.id) \/ Grants(r, u.id)
          BY <4>2, SeenAdmins DEF ByRightOf
        <5>2. CASE GrantedTo(u.id)
          BY <1>1, <5>2, GrantsKept
        <5>3. CASE Grants(r, u.id)
          BY <3>2, <4>1, <5>3 DEF GrantedTo, Grants
        <5> QED
          BY <5>1, <5>2, <5>3
      <4> QED
        BY <4>1, <4>2 DEF NoSelfPromotion
    <3> QED
      BY <1>1, <3>1, <3>2, OnlyCommitPublishes
  <2> QED
    BY <2>1, <2>2, <2>3 DEF RoleInv, Others
<1>2. CASE Crash
  <2>1. ASSUME NEW id, GrantedTo(id) PROVE GrantedTo(id)'
    BY <1>2, <2>1 DEF Crash, GrantedTo, Grants, Committed, LockOrder, LockFits, Running,
                      Statement, TypeInv, TypeOK, StoreTypeOK
  <2>2. NoSelfPromotion'
    BY <1>2, <2>1 DEF Crash, RoleInv, NoSelfPromotion
  <2>3. ASSUME NEW q \in Req PROVE RoleFits(q)'
    <3>1. tx'[q].users = {}
      BY <1>2 DEF Crash, NoWrites, Running, Statement, LockOrder, LockFits, TypeInv, TypeOK,
                  StoreTypeOK
    <3>2. pc'[q] \notin {"create.get_by_email", "create.add", "update.update"}
      BY <1>2 DEF Crash, Running, Statement, TypeInv, TypeOK, RequestsTypeOK
    <3> QED
      BY <3>1, <3>2 DEF RoleFits
  <2> QED
    BY <2>2, <2>3 DEF RoleInv
<1>3. CASE Tick \/ UNCHANGED vars
  BY <1>3 DEF Tick, vars, RoleInv, RoleFits, NoSelfPromotion, ByRightOf, GrantedTo, Grants,
              Committed, MayChange, NewRole, NewActive, Given
<1> QED
  BY <1>1, <1>2, <1>3 DEF Next

\* Every ADMIN row that is stored, about to be stored or held in a local
\* variable goes back to a grant by an administrator.
THEOREM RolesFit == Spec => []RoleInv
<1>1. Init => RoleInv
  <2> SUFFICES ASSUME Init PROVE RoleInv
    OBVIOUS
  <2>1. NoSelfPromotion
    <3>1. \A s \in Seed : SeedRow(s).role = "ADMIN" => SeedRow(s).id \in SeedAdmin
      BY DEF SeedRow
    <3> QED
      BY <3>1 DEF Init, NoSelfPromotion, GrantedTo
  <2>2. \A r \in Req : RoleFits(r)
    BY SeedsCommitted DEF RoleFits
  <2> QED
    BY <2>1, <2>2 DEF RoleInv
<1> QED
  BY <1>1, TypeCorrect, LocksInOrder, RoleNext, PTL DEF Spec

\* Whatever the number of concurrent updates, every administrator is a seed
\* one or owes the role to a committed request of an administrator.
THEOREM AdminsAreGranted == Spec => []NoSelfPromotion
<1>1. RoleInv => NoSelfPromotion
  BY DEF RoleInv
<1> QED
  BY <1>1, RolesFit, PTL

-----------------------------------------------------------------------------
(* Sessions.  The proof follows the tokens: a token is stored by the       *)
(* transaction that minted it and reaches a client after that transaction  *)
(* has committed, so no later transaction can store it again.              *)

\* A committed request stays committed.
LEMMA CommittedKept ==
  ASSUME TypeInv, LockOrder, NEW r \in Req, Call(r) \/ Step(r) \/ Fault(r),
         NEW q \in Req, Committed(q)
  PROVE  Committed(q)' /\ q # r
BY OneRequest DEF MovesOnly, Others, LockOrder, LockFits, Committed

\* What clients present was delivered by a committed request.
LEMMA PresentedIsCommitted ==
  ASSUME SessionInv, NEW t \in Presentable, t # Null
  PROVE  t.by \in Req /\ Committed(t.by)
<1>1. PICK q \in Req : t \in resp[q].tokens
  BY DEF Presentable, Delivered
<1> QED
  BY <1>1 DEF SessionInv, SessionFits

\* The facts of one request that a step of another does not change.
OwnTokens(r) ==
  /\ \A t \in mem[r].pair : t.by = r
  /\ \A row \in tx[r].adds : row.hash.by = r
  /\ \A t \in resp[r].tokens : t.by = r /\ Committed(r)
  /\ pc[r] # "idle" /\ req[r].op \in {"refresh", "logout"} /\ req[r].token # Null =>
       Committed(req[r].token.by)

\* A step of request r names only its own tokens.
LEMMA OwnTokensStep ==
  ASSUME TypeInv, LockOrder, SessionInv, NEW r \in Req, Call(r) \/ Step(r) \/ Fault(r)
  PROVE  OwnTokens(r)'
<1> DEFINE SameInput == req'[r] = req[r] /\ pc[r] # "idle"
           Known(input) == input.op \in {"refresh", "logout"} /\ input.token # Null =>
                             input.token \in Presentable
<1>1. OwnTokens(r) /\ LockFits(r)
  BY DEF SessionInv, SessionFits, OwnTokens, LockOrder
<1>2. ASSUME SameInput, req[r].op \in {"refresh", "logout"}, req[r].token # Null,
             req[r].token.by \in Req
      PROVE  Committed(req[r].token.by)'
  <2>1. PICK id \in Req : id = req[r].token.by
    BY <1>2
  <2>2. Committed(id)
    BY <1>1, <1>2, <2>1 DEF OwnTokens
  <2>3. Committed(id)'
    BY <2>2, CommittedKept
  <2> QED
    BY <1>2, <2>1, <2>3 DEF Committed
<1>3. ASSUME SameInput,
             \A t \in mem'[r].pair : t.by = r,
             \A row \in tx'[r].adds : row.hash.by = r,
             \A t \in resp'[r].tokens : t.by = r /\ Committed(r)'
      PROVE  OwnTokens(r)'
  <2>1. req[r].token # Null => req[r].token.by \in Req
    BY PartsType DEF Input, Token
  <2> QED
    BY <1>2, <1>3, <2>1 DEF OwnTokens
<1>4. ASSUME NEW input, Known(input), req'[r] = input,
             mem'[r].pair \subseteq mem[r].pair, tx'[r].adds \subseteq tx[r].adds,
             resp'[r].tokens = {}
      PROVE  OwnTokens(r)'
  <2>1. ASSUME input.op \in {"refresh", "logout"}, input.token # Null
        PROVE  Committed(input.token.by)'
    <3>1. PICK t \in Presentable : t = input.token
      BY <1>4, <2>1
    <3>2. Committed(t.by)'
      BY <2>1, <3>1, PresentedIsCommitted, CommittedKept
    <3> QED
      BY <3>1, <3>2 DEF Committed
  <2> QED
    BY <1>1, <1>4, <2>1 DEF OwnTokens, Committed
<1>5. ASSUME pc[r] = "idle" PROVE resp[r].tokens = {}
  BY <1>1, <1>5 DEF OwnTokens, LockFits, Response, TypeInv, TypeOK, RequestsTypeOK
<1>6. ASSUME pc[r] # "done" PROVE resp[r].tokens = {}
  BY <1>1, <1>6 DEF OwnTokens, LockFits, Response, TypeInv, TypeOK, RequestsTypeOK
<1>7. ASSUME NEW input, NEW statement, Begin(r, input, statement), Known(input)
      PROVE  OwnTokens(r)'
  BY <1>4, <1>5, <1>7 DEF Begin, TypeInv, TypeOK, StoreTypeOK, RequestsTypeOK
<1>8. ASSUME NEW input, Refuse(r, input), Known(input) PROVE OwnTokens(r)'
  BY <1>4, <1>8 DEF Refuse, Answer, NoMemory, TypeInv, TypeOK, StoreTypeOK, RequestsTypeOK
<1>9. ASSUME NEW status, pc[r] # "idle", Raise(r, status) PROVE OwnTokens(r)'
  BY <1>3, <1>9 DEF Raise, Rollback, NoWrites, Answer, NoMemory, TypeInv, TypeOK, StoreTypeOK,
                    RequestsTypeOK
<1>10. ASSUME NEW locals, NEW statement, pc[r] \notin {"idle", "done"},
              Read(r, locals, statement), locals.pair = mem[r].pair
       PROVE  OwnTokens(r)'
  BY <1>1, <1>3, <1>6, <1>10 DEF Read, OwnTokens, TypeInv, TypeOK, StoreTypeOK, RequestsTypeOK
<1>11. ASSUME NEW rows, NEW locals, NEW statement, pc[r] \notin {"idle", "done"},
              WriteUsers(r, rows), mem' = [mem EXCEPT ![r] = locals],
              locals.pair = mem[r].pair, Wrote(r, statement)
       PROVE  OwnTokens(r)'
  BY <1>1, <1>3, <1>6, <1>11 DEF WriteUsers, Wrote, OwnTokens, Transaction, TypeInv, TypeOK,
                                 StoreTypeOK, RequestsTypeOK
<1>12. ASSUME NEW hashes, NEW statement, pc[r] \notin {"idle", "done"},
              DeleteTokens(r, hashes), mem' = mem, Wrote(r, statement)
       PROVE  OwnTokens(r)'
  BY <1>1, <1>3, <1>6, <1>12 DEF DeleteTokens, Wrote, OwnTokens, Transaction, TypeInv, TypeOK,
                                 StoreTypeOK, RequestsTypeOK
<1>13. ASSUME NEW here, pc[r] \notin {"idle", "done"}, MintPair(r, here) PROVE OwnTokens(r)'
  <2>1. /\ \A t \in mem'[r].pair : t.by = r
        /\ \A row \in tx'[r].adds : row \in tx[r].adds \/ row.hash.by = r
    BY <1>13 DEF MintPair, InsertToken, CreateAccessToken, CreateRefreshToken, CreateToken,
                 Memory, Transaction, TypeInv, TypeOK, StoreTypeOK, RequestsTypeOK
  <2>2. req' = req /\ resp' = resp
    BY <1>13 DEF MintPair, Wrote
  <2> QED
    BY <1>1, <1>3, <1>6, <1>13, <2>1, <2>2 DEF OwnTokens
<1>14. ASSUME pc[r] = "commit", Commit(r), UNCHANGED req, NEW status, NEW given,
              given \subseteq mem[r].pair, Answer(r, status, given)
       PROVE  OwnTokens(r)'
  BY <1>1, <1>3, <1>14 DEF Commit, Committed, NoWrites, Answer, NoMemory, OwnTokens, TypeInv,
                           TypeOK, StoreTypeOK, RequestsTypeOK
<1> HIDE DEF SameInput
<1>15. CASE Call(r)
  <2>1. \A e \in Email, ok \in BOOLEAN :
          /\ Known([Blank EXCEPT !.op = "register", !.email = e])
          /\ Known([Blank EXCEPT !.op = "login", !.email = e, !.passwordOk = ok])
    BY DEF Blank
  <2>2. \A t \in Presentable :
          /\ Known([Blank EXCEPT !.op = "refresh", !.token = t])
          /\ Known([Blank EXCEPT !.op = "logout", !.token = t])
    BY DEF Blank
  <2>3. \A body, t : body.op \in {"create", "update", "deactivate"} /\ body \in Input =>
          Known([body EXCEPT !.token = t])
    BY DEF Input
  <2>4. \A e \in Email, role \in Roles \ {Null}, active \in Actives \ {Null} :
          LET body == [Blank EXCEPT !.op = "create", !.email = e, !.role = role, !.active = active]
          IN  body.op = "create" /\ body \in Input
    BY ClientType DEF Blank, Input, Op
  <2>5. \A id \in Target, role \in Roles, active \in Actives :
          LET body == [Blank EXCEPT !.op = "update", !.target = id, !.role = role, !.active = active]
          IN  body.op = "update" /\ body \in Input
    BY ClientType DEF Blank, Input, Op
  <2>6. \A id \in Target :
          LET body == [Blank EXCEPT !.op = "deactivate", !.target = id]
          IN  body.op = "deactivate" /\ body \in Input
    BY ClientType DEF Blank, Input, Op
  <2> HIDE DEF Known
  <2>7. ASSUME NEW body, body.op \in {"create", "update", "deactivate"}, body \in Input,
               BeginAuthenticated(r, body)
        PROVE  OwnTokens(r)'
    <3>1. PICK t \in Presentable :
            \/ Begin(r, [body EXCEPT !.token = t], "verify.get_by_id")
            \/ Refuse(r, [body EXCEPT !.token = t])
      BY <2>7 DEF BeginAuthenticated
    <3>2. Known([body EXCEPT !.token = t])
      BY <2>3, <2>7
    <3> QED
      BY <1>7, <1>8, <3>1, <3>2
  <2>8. CASE PostRegister(r) \/ PostLogin(r)
    BY <1>7, <2>1, <2>8 DEF PostRegister, PostLogin
  <2>9. CASE PostRefresh(r) \/ PostLogout(r)
    BY <1>7, <1>8, <2>2, <2>9 DEF PostRefresh, PostLogout
  <2>10. CASE PostUsers(r)
    <3>1. PICK e \in Email, role \in Roles \ {Null}, active \in Actives \ {Null} :
            BeginAuthenticated(r, [Blank EXCEPT !.op = "create", !.email = e, !.role = role, !.active = active])
      BY <2>10 DEF PostUsers
    <3> DEFINE body == [Blank EXCEPT !.op = "create", !.email = e, !.role = role, !.active = active]
    <3>2. body.op \in {"create", "update", "deactivate"} /\ body \in Input
      BY <2>4
    <3>3. BeginAuthenticated(r, body)
      BY <3>1
    <3> HIDE DEF body
    <3> QED
      BY <2>7, <3>2, <3>3
  <2>11. CASE PutUser(r)
    <3>1. PICK id \in Target, role \in Roles, active \in Actives :
            BeginAuthenticated(r, [Blank EXCEPT !.op = "update", !.target = id, !.role = role, !.active = active])
      BY <2>11 DEF PutUser
    <3> DEFINE body == [Blank EXCEPT !.op = "update", !.target = id, !.role = role, !.active = active]
    <3>2. body.op \in {"create", "update", "deactivate"} /\ body \in Input
      BY <2>5
    <3>3. BeginAuthenticated(r, body)
      BY <3>1
    <3> HIDE DEF body
    <3> QED
      BY <2>7, <3>2, <3>3
  <2>12. CASE DeleteUser(r)
    <3>1. PICK id \in Target :
            BeginAuthenticated(r, [Blank EXCEPT !.op = "deactivate", !.target = id])
      BY <2>12 DEF DeleteUser
    <3> DEFINE body == [Blank EXCEPT !.op = "deactivate", !.target = id]
    <3>2. body.op \in {"create", "update", "deactivate"} /\ body \in Input
      BY <2>6
    <3>3. BeginAuthenticated(r, body)
      BY <3>1
    <3> HIDE DEF body
    <3> QED
      BY <2>7, <3>2, <3>3
  <2> QED
    BY <1>15, <2>8, <2>9, <2>10, <2>11, <2>12 DEF Call
<1> HIDE DEF Known
<1>16. ASSUME NEW u, NEW statement, pc[r] \notin {"idle", "done"},
              Read(r, [mem[r] EXCEPT !.user = u], statement)
       PROVE  OwnTokens(r)'
  <2> DEFINE locals == [mem[r] EXCEPT !.user = u]
  <2>1. locals.pair = mem[r].pair
    BY PartsType DEF Memory
  <2>2. Read(r, locals, statement)
    BY <1>16
  <2> HIDE DEF locals
  <2> QED
    BY <1>10, <1>16, <2>1, <2>2
<1>17. ASSUME NEW here, NEW next, pc[r] \notin {"idle", "done"}, SetCreatedBy(r, here, next)
       PROVE  OwnTokens(r)'
  <2>1. PICK row : /\ WriteUsers(r, {row}) /\ Wrote(r, next)
                   /\ mem' = [mem EXCEPT ![r].user = row]
    BY <1>17 DEF SetCreatedBy
  <2> DEFINE locals == [mem[r] EXCEPT !.user = row]
  <2>2. locals.pair = mem[r].pair /\ mem' = [mem EXCEPT ![r] = locals]
    BY <2>1, PartsType DEF Memory
  <2> HIDE DEF locals
  <2> QED
    BY <1>11, <1>17, <2>1, <2>2
<1>18. CASE AuthStep(r)
  <2>1. CASE RegisterLookup(r) \/ RegisterAdd(r)
    BY <1>9, <1>10, <1>11, <2>1, PartsType DEF RegisterLookup, RegisterAdd, LookupNewEmail, AddUser
  <2>2. CASE RegisterUpdate(r)
    BY <1>17, <2>2 DEF RegisterUpdate, SetCreatedBy
  <2>3. CASE IssueTokenPair(r) \/ RefreshIssue(r)
    BY <1>13, <2>3 DEF IssueTokenPair, RefreshIssue, MintPair
  <2>4. CASE LoginAuthenticate(r) \/ RefreshGetToken(r) \/ RefreshGetUser(r)
    BY <1>9, <1>10, <1>16, <2>4 DEF LoginAuthenticate, RefreshGetToken, RefreshGetUser
  <2>5. CASE RefreshDelete(r) \/ LogoutDelete(r)
    BY <1>12, <2>5 DEF RefreshDelete, LogoutDelete, DeleteByHash
  <2>6. CASE VerifyAccessToken(r)
    <3>1. ASSUME UNCHANGED <<now, users, tokens, tx, req, mem, resp>> PROVE OwnTokens(r)'
      BY <1>1, <1>3, <1>6, <2>6, <3>1 DEF VerifyAccessToken, OwnTokens, SameInput
    <3> QED
      BY <1>9, <2>6, <3>1 DEF VerifyAccessToken
  <2> QED
    BY <1>18, <2>1, <2>2, <2>3, <2>4, <2>5, <2>6 DEF AuthStep
<1>19. CASE UserStep(r)
  <2>1. CASE CreateLookup(r) \/ CreateAdd(r)
    BY <1>9, <1>10, <1>11, <2>1, PartsType DEF CreateLookup, CreateAdd, LookupNewEmail, AddUser
  <2>2. CASE CreateUpdate(r)
    BY <1>17, <2>2 DEF CreateUpdate, SetCreatedBy
  <2>3. CASE UpdateLoad(r) \/ DeactivateLoad(r)
    BY <1>9, <1>16, <2>3 DEF UpdateLoad, DeactivateLoad
  <2>4. CASE UpdateWrite(r) \/ DeactivateWrite(r)
    BY <1>11, <2>4, PartsType DEF UpdateWrite, DeactivateWrite
  <2>5. CASE RevokeSnapshot(r)
    <3>1. PICK victims : Read(r, [mem[r] EXCEPT !.victims = victims], "revoke.delete")
      BY <2>5 DEF RevokeSnapshot
    <3> DEFINE locals == [mem[r] EXCEPT !.victims = victims]
    <3>2. locals.pair = mem[r].pair
      BY PartsType DEF Memory
    <3>3. Read(r, locals, "revoke.delete")
      BY <3>1
    <3> HIDE DEF locals
    <3> QED
      BY <1>10, <2>5, <3>2, <3>3 DEF RevokeSnapshot
  <2>6. CASE RevokeDelete(r)
    BY <1>12, <2>6 DEF RevokeDelete
  <2> QED
    BY <1>19, <2>1, <2>2, <2>3, <2>4, <2>5, <2>6 DEF UserStep
<1>20. CASE Finish(r) \/ Fault(r)
  BY <1>9, <1>14, <1>20 DEF Finish, Fault, DatabaseError, AnswerLost, Running, Statement
<1> QED
  BY <1>15, <1>18, <1>19, <1>20 DEF Step

-----------------------------------------------------------------------------
(* Deleted rows.                                                           *)

\* The steps after which request r has deleted the row it presented.
LEMMA WaysToConsume ==
  ASSUME TypeInv, LockOrder, NEW r \in Req, Call(r) \/ Step(r) \/ Fault(r), HasConsumed(r)'
  PROVE  \/ RefreshDelete(r) \/ RefreshIssue(r) \/ LogoutDelete(r)
         \/ Commit(r) /\ UNCHANGED req /\ pc[r] = "commit" /\ pc'[r] = "done"
<1> DEFINE Between(statement) == statement \notin {"refresh.add", "commit", "done"}
           NotSession == req'[r].op \notin {"refresh", "logout"}
<1>1. LockFits(r)'
  BY LockStep
<1>2. ~Between(pc'[r]) /\ ~NotSession
  BY <1>1 DEF HasConsumed, LockFits
<1>3. pc'[r] = "done" => Committed(r)'
  BY DEF HasConsumed
<1>4. ASSUME NEW input, NEW statement, Begin(r, input, statement) PROVE pc'[r] = statement
  BY <1>4 DEF Begin, Goto, TypeInv, TypeOK, RequestsTypeOK
<1>5. ASSUME NEW input, Refuse(r, input) PROVE FALSE
  BY <1>3, <1>5 DEF Refuse, Answer, Goto, LockOrder, LockFits, Committed, TypeInv, TypeOK,
                    RequestsTypeOK
<1>6. ASSUME NEW status, Raise(r, status) PROVE FALSE
  BY <1>3, <1>6 DEF Raise, Rollback, NoWrites, Answer, Goto, Committed, TypeInv, TypeOK,
                    StoreTypeOK, RequestsTypeOK
<1>7. ASSUME NEW locals, NEW statement, Read(r, locals, statement) PROVE pc'[r] = statement
  BY <1>7 DEF Read, Goto, TypeInv, TypeOK, RequestsTypeOK
<1>8. ASSUME NEW statement, Wrote(r, statement) PROVE pc'[r] = statement /\ req' = req
  BY <1>8 DEF Wrote, Goto, TypeInv, TypeOK, RequestsTypeOK
<1>9. CASE Call(r)
  <2>1. CASE PostRegister(r) \/ PostLogin(r) \/ PostRefresh(r) \/ PostLogout(r)
    BY <1>2, <1>4, <1>5, <2>1 DEF PostRegister, PostLogin, PostRefresh, PostLogout
  <2>2. ASSUME NEW body, BeginAuthenticated(r, body) PROVE FALSE
    BY <1>2, <1>4, <1>5, <2>2 DEF BeginAuthenticated
  <2> QED
    BY <1>9, <2>1, <2>2 DEF Call, PostUsers, PutUser, DeleteUser
<1>10. CASE AuthStep(r)
  <2>1. CASE RegisterLookup(r) \/ RegisterAdd(r) \/ RegisterUpdate(r)
    <3>1. req[r].op = "register"
      BY <2>1, PartsType DEF RegisterLookup, RegisterAdd, RegisterUpdate, LookupNewEmail,
                             AddUser, SetCreatedBy, Fits, StatementFits
    <3>2. req' = req
      BY <2>1 DEF RegisterLookup, RegisterAdd, RegisterUpdate, LookupNewEmail, AddUser,
                  SetCreatedBy, Read, Raise, Wrote
    <3> QED
      BY <1>2, <3>1, <3>2
  <2>2. CASE IssueTokenPair(r)
    <3>1. req[r].op \in {"register", "login"} /\ req' = req
      BY <1>8, <2>2, PartsType DEF IssueTokenPair, MintPair, Fits, StatementFits
    <3> QED
      BY <1>2, <3>1
  <2>3. CASE LoginAuthenticate(r) \/ RefreshGetToken(r) \/ RefreshGetUser(r)
    BY <1>2, <1>6, <1>7, <2>3 DEF LoginAuthenticate, RefreshGetToken, RefreshGetUser
  <2>4. CASE VerifyAccessToken(r)
    <3>1. ASSUME Goto(r, ServiceEntry[req[r].op]) PROVE FALSE
      <4>1. req[r].op \in {"create", "update", "deactivate"}
        BY <2>4, PartsType DEF VerifyAccessToken, Fits, StatementFits
      <4>2. pc'[r] = ServiceEntry[req[r].op]
        BY <3>1 DEF Goto, TypeInv, TypeOK, RequestsTypeOK
      <4> QED
        BY <1>2, <4>1, <4>2 DEF ServiceEntry
    <3> QED
      BY <1>6, <2>4, <3>1 DEF VerifyAccessToken
  <2> QED
    BY <1>10, <2>1, <2>2, <2>3, <2>4 DEF AuthStep
<1>11. CASE UserStep(r)
  <2>1. req[r].op \in {"create", "update", "deactivate"}
    BY <1>11, PartsType
       DEF UserStep, CreateLookup, CreateAdd, CreateUpdate, LookupNewEmail, AddUser, SetCreatedBy,
           UpdateLoad, UpdateWrite, DeactivateLoad, DeactivateWrite, RevokeSnapshot, RevokeDelete,
           Fits, StatementFits
  <2>2. req' = req
    BY <1>11
       DEF UserStep, CreateLookup, CreateAdd, CreateUpdate, LookupNewEmail, AddUser, SetCreatedBy,
           UpdateLoad, UpdateWrite, DeactivateLoad, DeactivateWrite, RevokeSnapshot, RevokeDelete,
           Read, Raise, Wrote
  <2> QED
    BY <1>2, <2>1, <2>2
<1>12. CASE Finish(r) \/ Fault(r)
  BY <1>6, <1>12 DEF Finish, Fault, DatabaseError, AnswerLost, Answer, Goto, TypeInv, TypeOK,
                     RequestsTypeOK
<1> QED
  BY <1>9, <1>10, <1>11, <1>12 DEF Step

Gone(r) ==
  HasConsumed(r) => \A row \in tokens : row.hash = req[r].token => row.hash \in tx[r].dels

\* A row that becomes visible is not one that some client has presented.
LEMMA NewRowsUnknown ==
  ASSUME TypeInv, LockOrder, SessionInv, NEW r \in Req, pc[r] = "commit",
         NEW row \in tx[r].adds, NEW q \in Req, HasConsumed(q)
  PROVE  row.hash # req[q].token
<1>1. row.hash \in Token /\ row.hash.by = r /\ ~Committed(r)
  BY DEF SessionInv, SessionFits, LockOrder, LockFits, Transaction, TokenRow, TypeInv, TypeOK,
         StoreTypeOK
<1>2. pc[q] # "idle" /\ req[q].op \in {"refresh", "logout"}
  BY DEF HasConsumed, LockOrder, LockFits
<1>3. req[q].token # Null => Committed(req[q].token.by)
  BY <1>2 DEF SessionInv, SessionFits
<1> QED
  BY <1>1, <1>3, NullAssumption

\* What request r has deleted stays deleted when r moves.
LEMMA GoneStep ==
  ASSUME TypeInv, LockOrder, SessionInv, NEW r \in Req, Call(r) \/ Step(r) \/ Fault(r)
  PROVE  Gone(r)'
<1> SUFFICES ASSUME HasConsumed(r)' PROVE Gone(r)'
  BY DEF Gone
<1>1. CASE RefreshDelete(r) \/ LogoutDelete(r)
  BY <1>1 DEF RefreshDelete, LogoutDelete, DeleteByHash, DeleteTokens, Wrote, Presented, Gone,
              Transaction, TypeInv, TypeOK, StoreTypeOK
<1>2. CASE RefreshIssue(r)
  <2>1. HasConsumed(r)
    BY <1>2, PartsType DEF RefreshIssue, MintPair, Fits, StatementFits, HasConsumed
  <2>2. tx'[r].dels = tx[r].dels /\ tokens' = tokens /\ req' = req
    BY <1>2 DEF RefreshIssue, MintPair, InsertToken, Wrote, Transaction, TypeInv, TypeOK, StoreTypeOK
  <2> QED
    BY <2>1, <2>2 DEF Gone, SessionInv, SessionFits
<1>3. CASE Commit(r) /\ UNCHANGED req /\ pc[r] = "commit" /\ pc'[r] = "done"
  <2>1. HasConsumed(r)
    BY <1>3 DEF HasConsumed
  <2>2. \A row \in tokens' : row.hash # req[r].token
    BY <1>3, <2>1, NewRowsUnknown DEF Commit, SeenTokens, SessionInv, SessionFits
  <2> QED
    BY <1>3, <2>2 DEF Gone
<1> QED
  BY <1>1, <1>2, <1>3, WaysToConsume

\* Every step keeps SessionInv.
LEMMA SessionNext == TypeInv /\ LockOrder /\ SessionInv /\ [Next]_vars => SessionInv'
<1> SUFFICES ASSUME TypeInv, LockOrder, SessionInv, [Next]_vars PROVE SessionInv'
  OBVIOUS
<1>1. ASSUME NEW r \in Req, Call(r) \/ Step(r) \/ Fault(r) PROVE SessionInv'
  <2>1. SessionFits(r)'
    BY <1>1, OwnTokensStep, GoneStep DEF OwnTokens, Gone, SessionFits
  <2>2. \/ UNCHANGED tokens
        \/ /\ pc[r] = "commit" /\ Committed(r)'
           /\ tokens' \subseteq tokens \cup tx[r].adds
    BY <1>1, OnlyCommitPublishes
       DEF Commit, SeenTokens, Committed, NoWrites, TypeInv, TypeOK, StoreTypeOK
  <2>3. ASSUME NEW row \in tokens' PROVE Committed(row.hash.by)'
    <3>1. CASE row \in tokens
      <4>1. Committed(row.hash.by) /\ row.hash.by \in Req
        BY <3>1 DEF SessionInv, TypeInv, TypeOK, StoreTypeOK, TokenRow, Token
      <4> QED
        BY <1>1, <4>1, CommittedKept
    <3>2. CASE row \notin tokens
      BY <2>2, <2>3, <3>2 DEF SessionInv, SessionFits
    <3> QED
      BY <3>1, <3>2
  <2>4. ASSUME NEW q \in Others(r) PROVE SessionFits(q)'
    <3>1. SessionFits(q) /\ q \in Req
      BY DEF SessionInv, Others
    <3>2. /\ pc'[q] = pc[q] /\ req'[q] = req[q] /\ mem'[q] = mem[q]
          /\ resp'[q] = resp[q] /\ tx'[q] = tx[q]
      BY <1>1, OneRequest DEF MovesOnly
    <3>3. ASSUME NEW t \in resp'[q].tokens PROVE t.by = q /\ Committed(q)'
      BY <3>1, <3>2, <3>3 DEF SessionFits, Committed
    <3>4. ASSUME pc'[q] # "idle", req'[q].op \in {"refresh", "logout"}, req'[q].token # Null
          PROVE  Committed(req[q].token.by)'
      <4>1. req[q].token.by \in Req
        BY <3>1, <3>2, <3>4, PartsType DEF Input, Token
      <4>2. PICK id \in Req : id = req[q].token.by
        BY <4>1
      <4>3. Committed(id)
        BY <3>1, <3>2, <3>4, <4>2 DEF SessionFits
      <4>4. Committed(id)'
        BY <1>1, <4>3, CommittedKept
      <4> QED
        BY <3>2, <4>2, <4>4 DEF Committed
    <3>5. ASSUME HasConsumed(q)', NEW row \in tokens', row.hash = req'[q].token
          PROVE  row.hash \in tx'[q].dels
      <4>1. HasConsumed(q)
        BY <3>2, <3>5 DEF HasConsumed, Committed
      <4>2. row \in tokens
        BY <1>1, <2>2, <3>1, <3>2, <3>5, <4>1, NewRowsUnknown
      <4> QED
        BY <3>1, <3>2, <3>5, <4>1, <4>2 DEF SessionFits
    <3> QED
      BY <3>1, <3>2, <3>3, <3>4, <3>5 DEF SessionFits
  <2> QED
    BY <2>1, <2>3, <2>4 DEF SessionInv, Others
<1>2. CASE Crash
  <2>1. ASSUME NEW q \in Req
        PROVE  /\ Committed(q)' <=> Committed(q)
               /\ mem'[q].pair \subseteq mem[q].pair
               /\ tx'[q].adds \subseteq tx[q].adds
               /\ resp'[q].tokens \subseteq resp[q].tokens
               /\ pc'[q] # "idle" => pc[q] # "idle"
               /\ HasConsumed(q)' => HasConsumed(q) /\ tx'[q].dels = tx[q].dels
    <3>1. CASE Running(q)
      BY <1>2, <3>1 DEF Crash, NoWrites, NoMemory, Committed, HasConsumed, Running, Statement,
                        LockOrder, LockFits, TypeInv, TypeOK, StoreTypeOK, RequestsTypeOK
    <3>2. CASE ~Running(q)
      BY <1>2, <3>2 DEF Crash, Committed, HasConsumed, TypeInv, TypeOK, StoreTypeOK, RequestsTypeOK
    <3> QED
      BY <3>1, <3>2
  <2>2. req' = req /\ tokens' = tokens
    BY <1>2 DEF Crash
  <2>3. \A row \in tokens : row.hash.by \in Req
    BY DEF TypeInv, TypeOK, StoreTypeOK, TokenRow, Token
  <2>4. \A r \in Req : req[r].token # Null => req[r].token.by \in Req
    BY PartsType DEF Input, Token
  <2>5. \A row \in tokens' : Committed(row.hash.by)'
    BY <2>1, <2>2, <2>3 DEF SessionInv
  <2>6. ASSUME NEW q \in Req PROVE SessionFits(q)'
    <3>1. ASSUME pc'[q] # "idle", req'[q].op \in {"refresh", "logout"}, req'[q].token # Null
          PROVE  Committed(req[q].token.by)'
      <4>1. PICK id \in Req : id = req[q].token.by
        BY <2>2, <2>4, <3>1
      <4>2. Committed(id)
        BY <2>1, <2>2, <3>1, <4>1 DEF SessionInv, SessionFits
      <4> QED
        BY <2>1, <2>2, <4>1, <4>2 DEF Committed
    <3> QED
      BY <2>1, <2>2, <3>1 DEF SessionInv, SessionFits
  <2> QED
    BY <2>5, <2>6 DEF SessionInv
<1>3. CASE Tick \/ UNCHANGED vars
  BY <1>3 DEF Tick, vars, SessionInv, SessionFits, HasConsumed, Committed
<1> QED
  BY <1>1, <1>2, <1>3 DEF Next

\* Every stored or delivered token is one that its committed request minted,
\* and what a request has deleted stays deleted.
THEOREM SessionsFit == Spec => []SessionInv
<1>1. Init => SessionInv
  <2> SUFFICES ASSUME Init PROVE SessionInv
    OBVIOUS
  <2>1. \A s \in Seed : s \in Req /\ Committed(s)
    BY SeedsCommitted, SeedAssumption DEF Committed
  <2>2. \A s \in Seed : SeedRefresh(s).by = s /\ SeedToken(s, "access", AccessTTL).by = s
    BY DEF SeedRefresh, SeedToken
  <2>3. \A row \in tokens : Committed(row.hash.by)
    <3> SUFFICES ASSUME NEW row \in tokens PROVE Committed(row.hash.by)
      OBVIOUS
    <3>1. PICK s \in Seed : row = [hash |-> SeedRefresh(s), user |-> s, expires |-> RefreshTTL]
      BY DEF Init
    <3>2. row.hash = SeedRefresh(s)
      BY <3>1
    <3>3. row.hash.by = s
      BY <2>2, <3>2
    <3> QED
      BY <2>1, <3>3
  <2>4. ASSUME NEW r \in Req PROVE SessionFits(r)
    <3>1. mem[r].pair = {} /\ req[r].op \notin {"refresh", "logout"}
      BY NullAssumption DEF Init, NoMemory, Blank, Op
    <3>2. tx[r].adds = {}
      BY DEF Init, NoWrites
    <3>3. ASSUME NEW t \in resp[r].tokens PROVE t.by = r /\ Committed(r)
      <4>1. CASE r \in Seed
        <5>1. resp[r].tokens = {SeedToken(r, "access", AccessTTL), SeedRefresh(r)}
          BY <4>1 DEF Init
        <5> QED
          BY <2>1, <2>2, <3>3, <4>1, <5>1
      <4>2. CASE r \notin Seed
        BY <3>3, <4>2 DEF Init, NoResponse
      <4> QED
        BY <4>1, <4>2
    <3>4. ~HasConsumed(r)
      BY <3>1 DEF HasConsumed
    <3> QED
      BY <3>1, <3>2, <3>3, <3>4 DEF SessionFits
  <2> QED
    BY <2>3, <2>4 DEF SessionInv
<1> QED
  BY <1>1, TypeCorrect, LocksInOrder, SessionNext, PTL DEF Spec

\* In every run, with any number of concurrent requests, crashes and lost
\* answers, a refresh token that a committed /refresh or /logout presented is
\* not stored and never will be again.
THEOREM ConsumedStaysGone == Spec => []ConsumedTokenGone
<1>1. TypeInv /\ LockOrder /\ SessionInv => ConsumedTokenGone
  <2> SUFFICES ASSUME TypeInv, LockOrder, SessionInv, NEW r \in Req, Committed(r),
                      req[r].op \in {"refresh", "logout"}, NEW q \in Req,
                      NEW row \in tokens \cup tx[q].adds, row.hash = req[r].token
               PROVE  FALSE
    BY DEF ConsumedTokenGone
  <2>1. HasConsumed(r) /\ pc[r] = "done" /\ tx[r].dels = {}
    BY DEF HasConsumed, LockOrder, LockFits
  <2>2. CASE row \in tokens
    BY <2>1, <2>2 DEF SessionInv, SessionFits
  <2>3. CASE row \in tx[q].adds
    <3>1. pc[q] = "commit"
      BY <2>3 DEF LockOrder, LockFits
    <3> QED
      BY <2>1, <2>3, <3>1, NewRowsUnknown
  <2> QED
    BY <2>2, <2>3
<1> QED
  BY <1>1, TypeCorrect, LocksInOrder, SessionsFit, PTL

-----------------------------------------------------------------------------
(* Accounts.                                                               *)

\* Request r publishes what its transaction has written.
Publishes(r) ==
  /\ Commit(r) /\ UNCHANGED <<req, actor>>
  /\ pc[r] = "commit" /\ pc'[r] = "done"

\* The transaction of r takes no address that another one has taken.
KeepsOff(r) ==
  \A w \in tx'[r].users :
    \/ HoldsEmail(r, w.email)
    \/ \E u \in users : u.email = w.email
    \/ \A q \in Others(r) : ~HoldsEmail(q, w.email)

\* What a step of request r writes into the users table fits.
LEMMA AccountStep ==
  ASSUME TypeInv, LockOrder, AccountInv, NEW r \in Req, Call(r) \/ Step(r) \/ Fault(r),
         ~Publishes(r)
  PROVE  AccountFits(r)' /\ KeepsOff(r)
<1> DEFINE Goal == AccountFits(r)' /\ KeepsOff(r)
           Makes(statement) == statement \in {"issue.add", "commit"}
<1>1. AccountFits(r) /\ LockFits(r)
  BY DEF AccountInv, LockOrder
<1>2. MovesOnly(r) /\ pc[r] # "done" /\ ~Committed(r)
  BY <1>1, OneRequest DEF MovesOnly, LockFits
<1>3. \A q \in Others(r) : tx'[q] = tx[q]
  BY <1>2 DEF MovesOnly
<1>0. users' = users
  BY OnlyCommitPublishes DEF Publishes
<1>4. ASSUME tx'[r].users = {}, ~Committed(r)', ~Makes(pc'[r]) PROVE Goal
  BY <1>4 DEF AccountFits, KeepsOff, Committed
<1>5. ASSUME tx'[r].users = tx[r].users, ~Committed(r)', req'[r] = req[r],
             Makes(pc'[r]) /\ MakesAccount(r) => pc[r] = "issue.add"
      PROVE  Goal
  <2>1. MakesAccount(r)' <=> MakesAccount(r)
    BY <1>5 DEF MakesAccount
  <2>2. ASSUME MakesAccount(r), Makes(pc'[r])
        PROVE  \E w \in tx'[r].users : w.id = r /\ w.createdBy = r
    BY <1>1, <1>5, <2>2 DEF AccountFits
  <2>3. \A w \in tx'[r].users :
          \/ Updates(w)'
          \/ /\ w.id = r
             /\ \A u \in users' : u.email # w.email
             /\ \A q \in Others(r) : ~HoldsEmail(q, w.email)'
    BY <1>0, <1>1, <1>3, <1>5 DEF AccountFits, Updates, HoldsEmail
  <2>4. KeepsOff(r)
    BY <1>5 DEF KeepsOff, HoldsEmail
  <2> QED
    BY <1>1, <1>5, <2>1, <2>2, <2>3, <2>4 DEF AccountFits, Committed
<1>6. ASSUME NEW input, NEW statement, Begin(r, input, statement), ~Makes(statement)
      PROVE  Goal
  BY <1>1, <1>2, <1>4, <1>6 DEF Begin, Goto, Committed, LockFits, TypeInv, TypeOK, RequestsTypeOK
<1>7. ASSUME NEW input, Refuse(r, input) PROVE Goal
  BY <1>1, <1>2, <1>4, <1>7 DEF Refuse, Answer, Goto, Committed, LockFits, TypeInv, TypeOK,
                                RequestsTypeOK
<1>8. ASSUME NEW status, Raise(r, status) PROVE Goal
  BY <1>4, <1>8 DEF Raise, Rollback, NoWrites, Answer, Goto, Committed, TypeInv, TypeOK,
                    StoreTypeOK, RequestsTypeOK
<1>9. ASSUME NEW locals, NEW statement, Read(r, locals, statement),
             ~Makes(statement) \/ ~MakesAccount(r)
      PROVE  Goal
  BY <1>2, <1>5, <1>9 DEF Read, Goto, Committed, TypeInv, TypeOK, RequestsTypeOK
<1>10. ASSUME NEW row, InsertToken(r, row), Wrote(r, "commit"),
              pc[r] = "issue.add" \/ ~MakesAccount(r)
       PROVE  Goal
  BY <1>2, <1>5, <1>10 DEF InsertToken, Wrote, Goto, Committed, Transaction, TypeInv, TypeOK,
                           StoreTypeOK, RequestsTypeOK
<1>11. ASSUME NEW hashes, NEW statement, DeleteTokens(r, hashes), Wrote(r, statement),
              ~MakesAccount(r)
       PROVE  Goal
  BY <1>2, <1>5, <1>11 DEF DeleteTokens, Wrote, Goto, Committed, Transaction, TypeInv, TypeOK,
                           StoreTypeOK, RequestsTypeOK
<1>12. ASSUME NEW rows, NEW statement, WriteUsers(r, rows), Wrote(r, statement)
       PROVE  /\ tx'[r].users = Overlay(tx[r].users, rows) /\ ~Committed(r)'
              /\ pc'[r] = statement /\ req' = req
  BY <1>2, <1>12 DEF WriteUsers, Wrote, Goto, Committed, Transaction, TypeInv, TypeOK,
                     StoreTypeOK, RequestsTypeOK
<1> SUFFICES Goal
  OBVIOUS
<1> HIDE DEF Goal
<1>13. ASSUME NEW row \in UserRow, NEW here, NEW next, AddUser(r, here, row, next),
              row.id = r, tx[r].users = {}, ~Makes(next)
       PROVE  Goal
  <2>1. CASE EmailTaken(r, row.email)
    BY <1>8, <1>13, <2>1 DEF AddUser
  <2>2. CASE ~EmailTaken(r, row.email)
    <3>1. /\ tx'[r].users = {row} /\ ~Committed(r)' /\ pc'[r] = next /\ req' = req
      BY <1>12, <1>13, <2>2 DEF AddUser, Overlay
    <3>2. \A q \in Others(r) : ~HoldsEmail(q, row.email) /\ ~HoldsEmail(q, row.email)'
      BY <1>3, <1>13 DEF AddUser, HoldsEmail
    <3>3. \A u \in users : u.email # row.email
      BY <1>13, <2>2 DEF EmailTaken, GetByEmail, SeenUsers, Overlay
    <3> QED
      BY <1>0, <1>13, <3>1, <3>2, <3>3 DEF Goal, AccountFits, KeepsOff, Committed
  <2> QED
    BY <2>1, <2>2
<1>14. ASSUME NEW here, NEW next, SetCreatedBy(r, here, next) PROVE Goal
  <2>1. PICK u \in GetById(r, r) :
          WriteUsers(r, {[u EXCEPT !.createdBy = r]}) /\ Wrote(r, next)
    BY <1>14 DEF SetCreatedBy
  <2> DEFINE row == [u EXCEPT !.createdBy = r]
  <2>2. u \in UserRow /\ u \in SeenUsers(r) /\ u.id = r
    BY SeenUsersType DEF GetById, TypeInv, TypeOK
  <2>3. row.id = r /\ row.email = u.email /\ row.createdBy = r
    BY <2>2 DEF UserRow
  <2>4. \A v \in users : v.id # r
    BY <1>2 DEF AccountInv
  <2>5. u \in tx[r].users /\ ~Updates(u)
    BY <2>2, <2>4 DEF SeenUsers, Overlay, Updates
  <2>6. /\ \A v \in users : v.email # u.email
        /\ \A q \in Others(r) : ~HoldsEmail(q, u.email)
        /\ \A v \in tx[r].users : v.id = r
    BY <1>1, <2>2, <2>5 DEF AccountFits
  <2>7. WriteUsers(r, {row}) /\ Wrote(r, next)
    BY <2>1
  <2> HIDE DEF row
  <2>8. /\ tx'[r].users = {row} /\ ~Committed(r)' /\ pc'[r] = next /\ req' = req
    BY <1>12, <2>3, <2>6, <2>7 DEF Overlay
  <2>9. \A q \in Others(r) : ~HoldsEmail(q, row.email) /\ ~HoldsEmail(q, row.email)'
    BY <1>3, <2>3, <2>6 DEF HoldsEmail
  <2> QED
    BY <1>0, <2>3, <2>6, <2>8, <2>9 DEF Goal, AccountFits, KeepsOff, Committed
<1>15. ASSUME NEW rows, NEW next, tx[r].users = {}, ~MakesAccount(r),
              \A w, v \in rows : w = v, \A w \in rows : Updates(w),
              WriteUsers(r, rows), Wrote(r, next)
       PROVE  Goal
  <2>1. /\ tx'[r].users = rows /\ ~Committed(r)' /\ req' = req
    BY <1>12, <1>15 DEF Overlay
  <2>2. \A w \in rows : Updates(w)'
    BY <1>0, <1>15 DEF Updates
  <2> QED
    BY <1>15, <2>1, <2>2 DEF Goal, AccountFits, KeepsOff, Committed, Updates, MakesAccount
<1>16. CASE Call(r)
  <2>1. \A statement \in {"register.get_by_email", "login.get_by_email",
                          "refresh.get_by_user_and_hash", "logout.delete_by_hash",
                          "verify.get_by_id"} : ~Makes(statement)
    OBVIOUS
  <2> HIDE DEF Makes
  <2> QED
    BY <1>6, <1>7, <1>16, <2>1
       DEF Call, PostRegister, PostLogin, PostRefresh, PostLogout, BeginAuthenticated,
           PostUsers, PutUser, DeleteUser
<1>17. CASE AuthStep(r)
  <2>1. CASE RegisterLookup(r)
    BY <1>8, <1>9, <2>1 DEF RegisterLookup, LookupNewEmail
  <2>2. CASE RegisterAdd(r)
    <3> DEFINE row == NewAccount(r, "USER", TRUE)
    <3>1. row \in UserRow /\ row.id = r
      BY <2>2, PartsType DEF RegisterAdd, AddUser, NewAccount, UserRow, User, Role, Fits,
                             StatementFits, InputFits
    <3>2. AddUser(r, "register.add", row, "register.update") /\ tx[r].users = {}
      BY <1>1, <2>2 DEF RegisterAdd, AddUser, LockFits
    <3> HIDE DEF row
    <3> QED
      BY <1>13, <3>1, <3>2
  <2>3. CASE RegisterUpdate(r)
    BY <1>14, <2>3 DEF RegisterUpdate
  <2>4. CASE IssueTokenPair(r) \/ RefreshIssue(r)
    BY <1>10, <2>4, PartsType
       DEF IssueTokenPair, RefreshIssue, MintPair, Fits, StatementFits, MakesAccount
  <2>5. CASE LoginAuthenticate(r) \/ RefreshGetToken(r) \/ RefreshGetUser(r)
    BY <1>8, <1>9, <2>5, PartsType
       DEF LoginAuthenticate, RefreshGetToken, RefreshGetUser, Fits, StatementFits, MakesAccount
  <2>6. CASE RefreshDelete(r) \/ LogoutDelete(r)
    BY <1>11, <2>6, PartsType
       DEF RefreshDelete, LogoutDelete, DeleteByHash, Fits, StatementFits, MakesAccount
  <2>7. CASE VerifyAccessToken(r)
    <3>1. ASSUME UNCHANGED <<tx, req>>, Goto(r, ServiceEntry[req[r].op]) PROVE Goal
      <4>1. req[r].op \in {"create", "update", "deactivate"}
        BY <2>7, PartsType DEF VerifyAccessToken, Fits, StatementFits
      <4>2. ~Makes(pc'[r])
        BY <3>1, <4>1 DEF Goto, ServiceEntry, TypeInv, TypeOK, RequestsTypeOK
      <4> QED
        BY <1>2, <1>5, <3>1, <4>2 DEF Committed
    <3> QED
      BY <1>8, <2>7, <3>1 DEF VerifyAccessToken
  <2> QED
    BY <1>17, <2>1, <2>2, <2>3, <2>4, <2>5, <2>6, <2>7 DEF AuthStep
<1>18. CASE UserStep(r)
  <2>1. CASE CreateLookup(r)
    BY <1>8, <1>9, <2>1 DEF CreateLookup, LookupNewEmail
  <2>2. CASE CreateAdd(r)
    <3> DEFINE row == NewAccount(r, req[r].role, req[r].active)
    <3>1. row \in UserRow /\ row.id = r
      BY <2>2, PartsType DEF CreateAdd, AddUser, NewAccount, UserRow, User, Fits,
                             StatementFits, InputFits
    <3>2. AddUser(r, "create.add", row, "create.update") /\ tx[r].users = {}
      BY <1>1, <2>2 DEF CreateAdd, AddUser, LockFits
    <3> HIDE DEF row
    <3> QED
      BY <1>13, <3>1, <3>2
  <2>3. CASE CreateUpdate(r)
    BY <1>14, <2>3 DEF CreateUpdate
  <2>4. CASE UpdateLoad(r) \/ DeactivateLoad(r) \/ RevokeSnapshot(r)
    <3>1. ~MakesAccount(r)
      BY <2>4, PartsType DEF UpdateLoad, DeactivateLoad, RevokeSnapshot, Fits, StatementFits,
                             MakesAccount
    <3> QED
      BY <1>8, <1>9, <2>4, <3>1 DEF UpdateLoad, DeactivateLoad, RevokeSnapshot
  <2>5. CASE UpdateWrite(r) \/ DeactivateWrite(r)
    <3> DEFINE found == GetById(r, req[r].target)
    <3>1. tx[r].users = {} /\ ~MakesAccount(r)
      BY <1>1, <2>5, PartsType DEF UpdateWrite, DeactivateWrite, LockFits, Fits, StatementFits,
                                   MakesAccount
    <3>2. found \subseteq users /\ found \subseteq UserRow /\ \A u, v \in found : u = v
      BY <3>1 DEF GetById, SeenUsers, Overlay, AccountInv, TypeInv, TypeOK, StoreTypeOK
    <3> HIDE DEF found
    <3>3. CASE UpdateWrite(r)
      <4> DEFINE rows == {UpdatedRow(r, u) : u \in found}
      <4>1. (\A w, v \in rows : w = v) /\ (\A w \in rows : Updates(w))
        BY <3>2 DEF Updates, UpdatedRow, UserRow
      <4>2. PICK next : WriteUsers(r, rows) /\ Wrote(r, next)
        BY <3>3 DEF UpdateWrite, found
      <4> HIDE DEF rows
      <4> QED
        BY <1>15, <3>1, <4>1, <4>2
    <3>4. CASE DeactivateWrite(r)
      <4> DEFINE rows == {[u EXCEPT !.active = FALSE] : u \in found}
      <4>1. (\A w, v \in rows : w = v) /\ (\A w \in rows : Updates(w))
        BY <3>2 DEF Updates, UserRow
      <4>2. WriteUsers(r, rows) /\ Wrote(r, "revoke.snapshot")
        BY <3>4 DEF DeactivateWrite, found
      <4> HIDE DEF rows
      <4> QED
        BY <1>15, <3>1, <4>1, <4>2
    <3> QED
      BY <2>5, <3>3, <3>4
  <2>6. CASE RevokeDelete(r)
    BY <1>11, <2>6, PartsType DEF RevokeDelete, Fits, StatementFits, MakesAccount
  <2> QED
    BY <1>18, <2>1, <2>2, <2>3, <2>4, <2>5, <2>6 DEF UserStep
<1>19. CASE Finish(r) \/ Fault(r)
  <2>1. ASSUME NEW status, NEW given, Commit(r), pc[r] = "commit", UNCHANGED <<req, actor>>,
               Answer(r, status, given)
        PROVE  FALSE
    BY <2>1 DEF Publishes, Answer, Goto, TypeInv, TypeOK, RequestsTypeOK
  <2> QED
    BY <1>8, <1>19, <2>1 DEF Finish, Fault, DatabaseError, AnswerLost
<1> QED
  BY <1>16, <1>17, <1>18, <1>19 DEF Step

\* COMMIT replaces a row by its new version or adds an account of its own.
LEMMA PublishedRows ==
  ASSUME TypeInv, LockOrder, AccountInv, NEW r \in Req, Publishes(r)
  PROVE  /\ Committed(r)' /\ tx'[r].users = {}
         /\ \A u \in users : \E v \in users' :
              v.id = u.id /\ v.email = u.email /\ v.createdBy = u.createdBy
         /\ \A v \in users' :
              \/ \E u \in users :
                   v.id = u.id /\ v.email = u.email /\ v.createdBy = u.createdBy
              \/ v \in tx[r].users /\ v.id = r /\ \A u \in users : u.email # v.email
         /\ tx[r].users \subseteq users'
         /\ \A a, b \in users' : (a.id = b.id \/ a.email = b.email) => a = b
<1>1. /\ users' = SeenUsers(r) /\ Committed(r)' /\ tx'[r].users = {}
      /\ users \subseteq UserRow
  BY DEF Publishes, Commit, Committed, NoWrites, TypeInv, TypeOK, StoreTypeOK
<1>2. /\ AccountFits(r)
      /\ \A a, b \in users : (a.id = b.id \/ a.email = b.email) => a = b
  BY DEF AccountInv
<1>3. ~Committed(r)
  BY DEF Publishes, LockOrder, LockFits
<1>4. \A u \in users : u.id # r
  BY <1>3 DEF AccountInv
<1>5. ASSUME NEW w \in tx[r].users
      PROVE  \/ \E u \in users : w.id = u.id /\ w.email = u.email /\ w.createdBy = u.createdBy
             \/ w.id = r /\ \A u \in users : u.email # w.email
  BY <1>2 DEF AccountFits, Updates
<1>6. \A w, v \in tx[r].users : w = v
  BY <1>2 DEF AccountFits
<1>7. /\ \A v \in users' : v \in tx[r].users \/ (v \in users /\ \A w \in tx[r].users : w.id # v.id)
      /\ \A u \in users : u \in users' \/ \E w \in tx[r].users : w.id = u.id
      /\ tx[r].users \subseteq users'
  BY <1>1 DEF SeenUsers, Overlay
<1>8. ASSUME NEW u \in users
      PROVE  \E v \in users' : v.id = u.id /\ v.email = u.email /\ v.createdBy = u.createdBy
  BY <1>2, <1>4, <1>5, <1>7
<1>9. ASSUME NEW v \in users'
      PROVE  \/ \E u \in users :
                  v.id = u.id /\ v.email = u.email /\ v.createdBy = u.createdBy
             \/ v \in tx[r].users /\ v.id = r /\ \A u \in users : u.email # v.email
  BY <1>5, <1>7
<1>10. ASSUME NEW a \in users', NEW b \in users', a.id = b.id \/ a.email = b.email
       PROVE  a = b
  <2>1. ASSUME NEW w \in tx[r].users, NEW v \in users, \A x \in tx[r].users : x.id # v.id
        PROVE  w.id # v.id /\ w.email # v.email
    BY <1>2, <1>5, <2>1
  <2> QED
    BY <1>2, <1>6, <1>7, <1>10, <2>1
<1> QED
  BY <1>1, <1>7, <1>8, <1>9, <1>10

\* Every step keeps AccountInv.
LEMMA AccountNext == TypeInv /\ LockOrder /\ AccountInv /\ [Next]_vars => AccountInv'
<1> SUFFICES ASSUME TypeInv, LockOrder, AccountInv, [Next]_vars PROVE AccountInv'
  OBVIOUS
<1>0. \A u \in users : u.id \in Req
  BY DEF TypeInv, TypeOK, StoreTypeOK, UserRow, User
<1>1. ASSUME NEW r \in Req, Call(r) \/ Step(r) \/ Fault(r), ~Publishes(r) PROVE AccountInv'
  <2>1. users' = users
    BY <1>1, OnlyCommitPublishes DEF Publishes
  <2>2. AccountFits(r)' /\ KeepsOff(r)
    BY <1>1, AccountStep
  <2>3. ASSUME NEW q \in Others(r) PROVE AccountFits(q)'
    <3>1. AccountFits(q) /\ q \in Req /\ r \in Others(q)
      BY DEF AccountInv, Others
    <3>2. pc'[q] = pc[q] /\ req'[q] = req[q] /\ \A p \in Others(r) : tx'[p] = tx[p]
      BY <1>1, OneRequest DEF MovesOnly
    <3>3. ASSUME NEW w \in tx[q].users, w.id = q, \A u \in users : u.email # w.email,
                 \A p \in Others(q) : ~HoldsEmail(p, w.email), NEW p \in Others(q)
          PROVE  ~HoldsEmail(p, w.email)'
      <4>1. CASE p = r
        <5>1. ASSUME NEW v \in tx'[r].users PROVE v.email # w.email
          BY <2>2, <3>1, <3>3, <5>1 DEF KeepsOff, HoldsEmail
        <5> QED
          BY <4>1, <5>1 DEF HoldsEmail
      <4>2. CASE p # r
        BY <3>2, <3>3, <4>2 DEF HoldsEmail, Others
      <4> QED
        BY <4>1, <4>2
    <3>4. \A w \in tx'[q].users :
            \/ Updates(w)'
            \/ /\ w.id = q
               /\ \A u \in users' : u.email # w.email
               /\ \A p \in Others(q) : ~HoldsEmail(p, w.email)'
      BY <2>1, <3>1, <3>2, <3>3 DEF AccountFits, Updates
    <3> QED
      BY <2>1, <3>1, <3>2, <3>4 DEF AccountFits, Committed, MakesAccount
  <2>4. \A u \in users' : Committed(u.id)'
    <3> SUFFICES ASSUME NEW u \in users PROVE Committed(u.id)'
      BY <2>1
    <3>1. PICK id \in Req : id = u.id
      BY <1>0
    <3>2. Committed(id)'
      BY <1>1, <3>1, CommittedKept DEF AccountInv
    <3> QED
      BY <3>1, <3>2 DEF Committed
  <2> QED
    BY <2>1, <2>2, <2>3, <2>4 DEF AccountInv, Others
<1>2. ASSUME NEW r \in Req, Call(r) \/ Step(r) \/ Fault(r), Publishes(r) PROVE AccountInv'
  <2>1. \A u \in users' : Committed(u.id)'
    <3> SUFFICES ASSUME NEW u \in users' PROVE Committed(u.id)'
      OBVIOUS
    <3>1. u.id = r \/ \E id \in Req : id = u.id /\ Committed(id)
      BY <1>0, <1>2, PublishedRows DEF AccountInv
    <3>2. Committed(r)'
      BY <1>2, PublishedRows
    <3> QED
      BY <1>2, <3>1, <3>2, CommittedKept DEF Committed
  <2>2. AccountFits(r)'
    <3>1. pc'[r] = "done" /\ tx'[r].users = {} /\ req'[r] = req[r] /\ pc[r] = "commit"
      BY <1>2, PublishedRows DEF Publishes
    <3>2. ASSUME MakesAccount(r) PROVE \E u \in users' : u.id = r /\ u.createdBy = r
      BY <1>2, <3>1, <3>2, PublishedRows DEF AccountInv, AccountFits
    <3> QED
      BY <3>1, <3>2 DEF AccountFits, MakesAccount
  <2>3. ASSUME NEW q \in Others(r) PROVE AccountFits(q)'
    <3>1. AccountFits(q) /\ q \in Req /\ q # r /\ r \in Others(q)
      BY DEF AccountInv, Others
    <3>2. /\ pc'[q] = pc[q] /\ req'[q] = req[q] /\ \A p \in Others(r) : tx'[p] = tx[p]
          /\ tx'[r].users = {}
      BY <1>2, OneRequest, PublishedRows DEF MovesOnly
    <3>3. ASSUME NEW w \in tx[q].users, Updates(w) PROVE Updates(w)'
      BY <1>2, <3>3, PublishedRows DEF Updates
    <3>4. ASSUME NEW w \in tx[q].users, w.id = q, \A u \in users : u.email # w.email,
                 \A p \in Others(q) : ~HoldsEmail(p, w.email)
          PROVE  /\ \A u \in users' : u.email # w.email
                 /\ \A p \in Others(q) : ~HoldsEmail(p, w.email)'
      <4>1. \A u \in users' : u.email # w.email
        BY <1>2, <3>1, <3>4, PublishedRows DEF HoldsEmail
      <4>2. \A p \in Others(q) : ~HoldsEmail(p, w.email)'
        BY <3>2, <3>4 DEF HoldsEmail, Others
      <4> QED
        BY <4>1, <4>2
    <3>5. ASSUME MakesAccount(q), Committed(q)
          PROVE  \E u \in users' : u.id = q /\ u.createdBy = q
      BY <1>2, <3>1, <3>5, PublishedRows DEF AccountFits
    <3>6. \A w \in tx'[q].users :
            \/ Updates(w)'
            \/ /\ w.id = q
               /\ \A u \in users' : u.email # w.email
               /\ \A p \in Others(q) : ~HoldsEmail(p, w.email)'
      BY <3>1, <3>2, <3>3, <3>4 DEF AccountFits
    <3> QED
      BY <3>1, <3>2, <3>5, <3>6 DEF AccountFits, Committed, MakesAccount
  <2> QED
    BY <1>2, <2>1, <2>2, <2>3, PublishedRows DEF AccountInv, Others
<1>3. CASE Crash
  <2>1. users' = users /\ req' = req
    BY <1>3 DEF Crash
  <2>2. ASSUME NEW q \in Req
        PROVE  /\ Committed(q)' <=> Committed(q)
               /\ tx'[q].users = {}
               /\ pc'[q] \notin {"issue.add", "commit"}
    BY <1>3 DEF Crash, NoWrites, Committed, Running, Statement, LockOrder, LockFits, TypeInv,
                TypeOK, StoreTypeOK, RequestsTypeOK
  <2>3. \A u \in users' : Committed(u.id)'
    BY <1>0, <2>1, <2>2 DEF AccountInv
  <2> QED
    BY <2>1, <2>2, <2>3 DEF AccountInv, AccountFits, MakesAccount
<1>4. CASE Tick \/ UNCHANGED vars
  BY <1>4 DEF Tick, vars, AccountInv, AccountFits, Updates, MakesAccount, HoldsEmail, Committed
<1> QED
  BY <1>1, <1>2, <1>3, <1>4 DEF Next

\* Every behaviour keeps AccountInv.
LEMMA AccountsFit == Spec => []AccountInv
<1>1. Init => AccountInv
  <2> SUFFICES ASSUME Init PROVE AccountInv
    OBVIOUS
  <2>1. users = {SeedRow(s) : s \in Seed}
    BY DEF Init
  <2>2. \A s \in Seed : /\ SeedRow(s).id = s /\ SeedRow(s).createdBy = s
                        /\ SeedRow(s).email = SeedEmail[s] /\ s \in Req /\ Committed(s)
    BY SeedsCommitted, SeedAssumption DEF SeedRow, Committed
  <2>3. \A a, b \in users : (a.id = b.id \/ a.email = b.email) => a = b
    BY <2>1, <2>2, SeedAssumption
  <2>4. ASSUME NEW r \in Req PROVE AccountFits(r)
    <3>1. Committed(r) => r \in Seed
      BY SeedsCommitted DEF Committed
    <3> QED
      BY <2>1, <2>2, <3>1, SeedsCommitted DEF AccountFits
  <2>5. \A u \in users : Committed(u.id)
    BY <2>1, <2>2
  <2> QED
    BY <2>3, <2>4, <2>5 DEF AccountInv
<1> QED
  BY <1>1, TypeCorrect, LocksInOrder, AccountNext, PTL DEF Spec

\* However many registrations and creations of one address meet, one account
\* at most has it.
THEOREM EmailsAreUnique == Spec => []UniqueEmail
<1>1. AccountInv => UniqueEmail
  BY DEF AccountInv, UniqueEmail
<1> QED
  BY <1>1, AccountsFit, PTL

\* With statements failing, acknowledgements lost and the process dying at any
\* point, a request leaves all of its writes or none.
THEOREM WritesAreAtomic == Spec => []AllOrNothing
<1>1. ASSUME AccountInv, SessionInv, NEW r \in Req
      PROVE  /\ Committed(r) /\ MakesAccount(r) => \E u \in users : u.id = r /\ u.createdBy = r
             /\ ~Committed(r) => /\ \A u \in users : u.id # r
                                 /\ \A row \in tokens : row.hash.by # r
  BY <1>1 DEF AccountInv, AccountFits, SessionInv, Committed
<1>2. AccountInv /\ SessionInv => AllOrNothing
  BY <1>1 DEF AllOrNothing, MakesAccount
<1> QED
  BY <1>2, AccountsFit, SessionsFit, PTL

-----------------------------------------------------------------------------
(* Tokens.  A row is right from the moment it is inserted, because the     *)
(* account it belongs to never goes away; and a transaction deletes only   *)
(* rows that its request may end.                                          *)

\* The statements that use the account a pair is minted for.
UsesAccount == {"issue.add", "refresh.delete_by_hash", "refresh.add"}

\* The accounts a transaction sees are those committed and its own.
LEMMA SeenIds ==
  ASSUME NEW r \in Req, NEW id
  PROVE  (\E u \in SeenUsers(r) : u.id = id) <=> (\E u \in users \cup tx[r].users : u.id = id)
BY DEF SeenUsers, Overlay

\* No step makes an account go away.
LEMMA AccountsKept ==
  ASSUME TypeInv, LockOrder, AccountInv, NEW r \in Req, Call(r) \/ Step(r) \/ Fault(r),
         NEW u \in users
  PROVE  \E v \in users' : v.id = u.id
BY OnlyCommitPublishes, PublishedRows DEF Publishes

\* A refresh token's expiry is not after that of its row.
LEMMA RowOutlivesToken ==
  ASSUME now \in Nat, NEW r \in Req, NEW id
  PROVE  CreateRefreshToken(r, id).exp <= RowExpiry
<1>1. now % Second \in Nat
  BY TimeAssumption
<1> QED
  BY <1>1, TimeAssumption DEF CreateRefreshToken, CreateToken, WholeSeconds, RowExpiry

\* The rows request r is about to store are right.
LEMMA TokenStep ==
  ASSUME TypeInv, LockOrder, AccountInv, TokenInv, NEW r \in Req,
         Call(r) \/ Step(r) \/ Fault(r)
  PROVE  TokenFits(r)'
<1>1. TokenFits(r) /\ LockFits(r) /\ pc[r] # "done"
  BY OneRequest DEF TokenInv, LockOrder, MovesOnly
<1>2. pc[r] # "commit" => tx[r].adds = {}
  BY <1>1 DEF LockFits
<1>3. ASSUME tx'[r].adds = {}, pc'[r] \notin UsesAccount PROVE TokenFits(r)'
  BY <1>3 DEF TokenFits, UsesAccount
<1>4. ASSUME tx'[r].adds = {}, \E u \in users' \cup tx'[r].users : u.id = mem'[r].user.id
      PROVE  TokenFits(r)'
  BY <1>4, SeenIds DEF TokenFits, SeenUsers, Overlay
<1>5. ASSUME NEW input, NEW statement, Begin(r, input, statement), statement \notin UsesAccount
      PROVE  TokenFits(r)'
  BY <1>2, <1>3, <1>5 DEF Begin, Goto, TypeInv, TypeOK, RequestsTypeOK
<1>6. ASSUME NEW input, Refuse(r, input) PROVE TokenFits(r)'
  BY <1>2, <1>3, <1>6 DEF Refuse, Answer, Goto, UsesAccount, TypeInv, TypeOK, RequestsTypeOK
<1>7. ASSUME NEW status, Raise(r, status) PROVE TokenFits(r)'
  BY <1>3, <1>7 DEF Raise, Rollback, NoWrites, Answer, Goto, UsesAccount, TypeInv, TypeOK,
                    StoreTypeOK, RequestsTypeOK
<1>8. ASSUME NEW locals, NEW statement, Read(r, locals, statement), statement \notin UsesAccount,
             pc[r] # "commit"
      PROVE  TokenFits(r)'
  BY <1>2, <1>3, <1>8 DEF Read, Goto, TypeInv, TypeOK, RequestsTypeOK
<1>9. ASSUME NEW u \in SeenUsers(r), NEW statement, pc[r] # "commit",
             Read(r, [mem[r] EXCEPT !.user = u], statement)
      PROVE  TokenFits(r)'
  <2>1. mem'[r].user = u /\ users' = users /\ tx' = tx
    BY <1>9 DEF Read, Memory, TypeInv, TypeOK, RequestsTypeOK
  <2>2. u \in users \cup tx[r].users
    BY DEF SeenUsers, Overlay
  <2> QED
    BY <1>2, <1>4, <1>9, <2>1, <2>2
<1>10. ASSUME NEW rows, NEW statement, WriteUsers(r, rows), Wrote(r, statement), pc[r] # "commit"
       PROVE  /\ tx'[r].adds = {} /\ pc'[r] = statement
              /\ rows \subseteq tx'[r].users
  BY <1>2, <1>10 DEF WriteUsers, Overlay, Wrote, Goto, Transaction, TypeInv, TypeOK,
                     StoreTypeOK, RequestsTypeOK
<1>11. ASSUME NEW hashes, NEW statement, DeleteTokens(r, hashes), Wrote(r, statement),
              pc[r] # "commit"
       PROVE  /\ tx'[r].adds = {} /\ pc'[r] = statement /\ users' = users
              /\ tx'[r].users = tx[r].users
  BY <1>2, <1>11 DEF DeleteTokens, Wrote, Goto, Transaction, TypeInv, TypeOK,
                     StoreTypeOK, RequestsTypeOK
<1>12. ASSUME NEW here \in {"issue.add", "refresh.add"}, MintPair(r, here) PROVE TokenFits(r)'
  <2> DEFINE id == mem[r].user.id
             row == [hash |-> CreateRefreshToken(r, id), user |-> id, expires |-> RowExpiry]
  <2>1. tx' = [tx EXCEPT ![r].adds = tx[r].adds \cup {row}] /\ users' = users
    BY <1>12 DEF MintPair, InsertToken, Wrote, TypeInv, TypeOK, StoreTypeOK
  <2>2. tx'[r].adds = {row} /\ tx'[r].users = tx[r].users /\ pc'[r] = "commit"
    BY <1>2, <1>12, <2>1 DEF MintPair, Wrote, Goto, Transaction, TypeInv, TypeOK, StoreTypeOK,
                             RequestsTypeOK
  <2>3. \E u \in SeenUsers(r) : u.id = id
    BY <1>1, <1>12 DEF MintPair, TokenFits
  <2>4. RowFits(row, SeenUsers(r))
    BY <2>3, RowOutlivesToken DEF RowFits, CreateRefreshToken, CreateToken, TypeInv, TypeOK
  <2>5. SeenUsers(r)' = SeenUsers(r)
    BY <2>1, <2>2 DEF SeenUsers
  <2> HIDE DEF row
  <2> QED
    BY <2>2, <2>4, <2>5 DEF TokenFits
<1>13. ASSUME NEW next, NEW here, here # "commit", SetCreatedBy(r, here, next)
       PROVE  TokenFits(r)'
  <2>1. PICK u \in GetById(r, r) :
          /\ WriteUsers(r, {[u EXCEPT !.createdBy = r]})
          /\ mem' = [mem EXCEPT ![r].user = [u EXCEPT !.createdBy = r]]
    BY <1>13 DEF SetCreatedBy
  <2> DEFINE row == [u EXCEPT !.createdBy = r]
  <2>2. mem'[r].user = row
    BY <2>1 DEF Memory, TypeInv, TypeOK, RequestsTypeOK
  <2>3. WriteUsers(r, {row}) /\ Wrote(r, next) /\ pc[r] # "commit"
    BY <1>13, <2>1 DEF SetCreatedBy
  <2> HIDE DEF row
  <2>4. tx'[r].adds = {} /\ row \in tx'[r].users
    BY <1>10, <2>3
  <2> QED
    BY <1>4, <2>2, <2>4
<1>0. \A statement \in {"register.get_by_email", "login.get_by_email",
                        "refresh.get_by_user_and_hash", "logout.delete_by_hash",
                        "verify.get_by_id", "register.add", "register.update",
                        "refresh.get_by_id", "create.get_by_email", "create.add",
                        "create.update", "update.get_by_id", "update.update",
                        "deactivate.get_by_id", "deactivate.deactivate",
                        "revoke.snapshot", "revoke.delete", "commit"} :
        statement \notin UsesAccount
  BY DEF UsesAccount
<1>14. CASE Call(r)
  BY <1>0, <1>5, <1>6, <1>14
     DEF Call, PostRegister, PostLogin, PostRefresh, PostLogout, BeginAuthenticated,
         PostUsers, PutUser, DeleteUser
<1>15. CASE AuthStep(r)
  <2>1. CASE RegisterLookup(r) \/ RegisterAdd(r)
    BY <1>0, <1>3, <1>7, <1>8, <1>10, <2>1 DEF RegisterLookup, RegisterAdd, LookupNewEmail, AddUser
  <2>2. CASE RegisterUpdate(r)
    BY <1>13, <2>2 DEF RegisterUpdate
  <2>3. CASE IssueTokenPair(r) \/ RefreshIssue(r)
    BY <1>12, <2>3 DEF IssueTokenPair, RefreshIssue
  <2>4. CASE LoginAuthenticate(r) \/ RefreshGetUser(r)
    BY <1>7, <1>9, <2>4 DEF LoginAuthenticate, RefreshGetUser, GetByEmail, GetById
  <2>5. CASE RefreshGetToken(r)
    BY <1>0, <1>7, <1>8, <2>5 DEF RefreshGetToken
  <2>6. CASE RefreshDelete(r)
    <3>1. \E u \in users \cup tx[r].users : u.id = mem[r].user.id
      BY <1>1, <2>6, SeenIds DEF RefreshDelete, DeleteByHash, TokenFits
    <3>2. /\ DeleteTokens(r, {Presented(r)}) /\ Wrote(r, "refresh.add") /\ mem' = mem
          /\ pc[r] # "commit"
      BY <2>6 DEF RefreshDelete, DeleteByHash
    <3> QED
      BY <1>4, <1>11, <3>1, <3>2
  <2>7. CASE LogoutDelete(r)
    BY <1>0, <1>3, <1>11, <2>7 DEF LogoutDelete, DeleteByHash
  <2>8. CASE VerifyAccessToken(r)
    <3>1. ASSUME UNCHANGED tx, Goto(r, ServiceEntry[req[r].op]) PROVE TokenFits(r)'
      <4>1. req[r].op \in {"create", "update", "deactivate"} /\ pc[r] # "commit"
        BY <2>8, PartsType DEF VerifyAccessToken, Fits, StatementFits
      <4>2. pc'[r] \notin UsesAccount
        BY <3>1, <4>1 DEF Goto, ServiceEntry, UsesAccount, TypeInv, TypeOK, RequestsTypeOK
      <4> QED
        BY <1>2, <1>3, <3>1, <4>1, <4>2
    <3> QED
      BY <1>7, <2>8, <3>1 DEF VerifyAccessToken
  <2> QED
    BY <1>15, <2>1, <2>2, <2>3, <2>4, <2>5, <2>6, <2>7, <2>8 DEF AuthStep
<1>16. CASE UserStep(r)
  <2>1. CASE CreateLookup(r) \/ CreateAdd(r)
    BY <1>0, <1>3, <1>7, <1>8, <1>10, <2>1 DEF CreateLookup, CreateAdd, LookupNewEmail, AddUser
  <2>2. CASE CreateUpdate(r)
    BY <1>13, <2>2 DEF CreateUpdate
  <2>3. CASE UpdateLoad(r) \/ DeactivateLoad(r) \/ RevokeSnapshot(r)
    BY <1>0, <1>7, <1>8, <2>3 DEF UpdateLoad, DeactivateLoad, RevokeSnapshot
  <2>4. CASE UpdateWrite(r) \/ DeactivateWrite(r)
    BY <1>0, <1>3, <1>10, <2>4 DEF UpdateWrite, DeactivateWrite
  <2>5. CASE RevokeDelete(r)
    BY <1>0, <1>3, <1>11, <2>5 DEF RevokeDelete
  <2> QED
    BY <1>16, <2>1, <2>2, <2>3, <2>4, <2>5 DEF UserStep
<1>17. CASE Finish(r) \/ Fault(r)
  <2>1. ASSUME NEW status, NEW given, Commit(r), Answer(r, status, given) PROVE TokenFits(r)'
    BY <1>3, <2>1 DEF Commit, NoWrites, Answer, Goto, UsesAccount, TypeInv, TypeOK, StoreTypeOK,
                      RequestsTypeOK
  <2> QED
    BY <1>7, <1>17, <2>1 DEF Finish, Fault, DatabaseError, AnswerLost
<1> QED
  BY <1>14, <1>15, <1>16, <1>17 DEF Step

\* Every step keeps TokenInv.
LEMMA TokenNext ==
  TypeInv /\ LockOrder /\ AccountInv /\ TokenInv /\ [Next]_vars => TokenInv'
<1> SUFFICES ASSUME TypeInv, LockOrder, AccountInv, TokenInv, [Next]_vars PROVE TokenInv'
  OBVIOUS
<1>1. ASSUME NEW r \in Req, Call(r) \/ Step(r) \/ Fault(r) PROVE TokenInv'
  <2>1. ASSUME NEW id, \E u \in users : u.id = id PROVE \E v \in users' : v.id = id
    BY <1>1, <2>1, AccountsKept
  <2>2. ASSUME NEW row, RowFits(row, users) PROVE RowFits(row, users')
    BY <2>1, <2>2 DEF RowFits
  <2>3. RowMatchesToken'
    <3>1. CASE UNCHANGED <<users, tokens>>
      BY <3>1 DEF TokenInv, RowMatchesToken
    <3>2. CASE Commit(r)
      <4>1. users' = SeenUsers(r) /\ tokens' \subseteq tokens \cup tx[r].adds
        BY <3>2 DEF Commit, SeenTokens
      <4>2. \A row \in tokens' : RowFits(row, users')
        BY <2>2, <4>1 DEF TokenInv, TokenFits, RowMatchesToken, RowFits
      <4> QED
        BY <4>2 DEF RowMatchesToken, RowFits
    <3> QED
      BY <1>1, <3>1, <3>2, OnlyCommitPublishes
  <2>4. TokenFits(r)'
    BY <1>1, TokenStep
  <2>5. ASSUME NEW q \in Others(r) PROVE TokenFits(q)'
    <3>1. TokenFits(q) /\ q \in Req
      BY DEF TokenInv, Others
    <3>2. pc'[q] = pc[q] /\ mem'[q] = mem[q] /\ tx'[q] = tx[q]
      BY <1>1, OneRequest DEF MovesOnly
    <3>3. ASSUME NEW id, \E u \in SeenUsers(q) : u.id = id
          PROVE  \E u \in SeenUsers(q)' : u.id = id
      <4>1. \E u \in users' \cup tx'[q].users : u.id = id
        BY <2>1, <3>1, <3>2, <3>3, SeenIds
      <4> QED
        BY <4>1 DEF SeenUsers, Overlay
    <3>4. ASSUME NEW row, RowFits(row, SeenUsers(q)) PROVE RowFits(row, SeenUsers(q)')
      BY <3>3, <3>4 DEF RowFits
    <3> QED
      BY <3>1, <3>2, <3>3, <3>4 DEF TokenFits, RowFits
  <2> QED
    BY <2>3, <2>4, <2>5 DEF TokenInv, Others
<1>2. CASE Crash
  <2>1. ASSUME NEW q \in Req
        PROVE  tx'[q].adds = {} /\ pc'[q] \notin UsesAccount
    BY <1>2 DEF Crash, NoWrites, UsesAccount, Running, Statement, LockOrder, LockFits, TypeInv,
                TypeOK, StoreTypeOK, RequestsTypeOK
  <2>2. users' = users /\ tokens' = tokens
    BY <1>2 DEF Crash
  <2> QED
    BY <2>1, <2>2 DEF TokenInv, TokenFits, RowMatchesToken, UsesAccount
<1>3. CASE Tick \/ UNCHANGED vars
  <2>1. UNCHANGED <<users, tokens, tx, pc, mem>>
    BY <1>3 DEF Tick, vars
  <2>2. \A r \in Req : SeenUsers(r)' = SeenUsers(r)
    BY <2>1 DEF SeenUsers
  <2> QED
    BY <2>1, <2>2 DEF TokenInv, TokenFits, RowMatchesToken
<1> QED
  BY <1>1, <1>2, <1>3 DEF Next

\* Every behaviour keeps TokenInv.
LEMMA TokensFit == Spec => []TokenInv
<1>1. Init => TokenInv
  <2> SUFFICES ASSUME Init PROVE TokenInv
    OBVIOUS
  <2>1. \A s \in Seed : /\ SeedRefresh(s).type = "refresh" /\ SeedRefresh(s).sub = s
                        /\ SeedRefresh(s).exp = RefreshTTL
                        /\ SeedRow(s) \in users /\ SeedRow(s).id = s
    BY DEF Init, SeedRefresh, SeedToken, SeedRow
  <2>2. ASSUME NEW row \in tokens PROVE RowFits(row, users)
    <3>1. PICK s \in Seed : row = [hash |-> SeedRefresh(s), user |-> s, expires |-> RefreshTTL]
      BY DEF Init
    <3>2. row.hash = SeedRefresh(s) /\ row.user = s /\ row.expires = RefreshTTL
      BY <3>1
    <3> QED
      BY <2>1, <3>2, TimeAssumption DEF RowFits
  <2>3. \A r \in Req : TokenFits(r)
    BY SeedsCommitted DEF TokenFits
  <2> QED
    BY <2>2, <2>3 DEF TokenInv, RowMatchesToken, RowFits
<1> QED
  BY <1>1, TypeCorrect, LocksInOrder, AccountsFit, TokenNext, PTL DEF Spec

\* Every stored row belongs to an account that is there and is not outlived by
\* the signed token, whatever the clock, the two lifetimes and their truncation.
THEOREM RowsMatchTokens == Spec => []RowMatchesToken
<1>1. TokenInv => RowMatchesToken
  BY DEF TokenInv
<1> QED
  BY <1>1, TokensFit, PTL

-----------------------------------------------------------------------------
(* Deletions.                                                              *)

\* A client receives the pair of a request that has just committed.
LEMMA AnswerTokens ==
  ASSUME TypeInv, NEW r \in Req, Call(r) \/ Step(r) \/ Fault(r)
  PROVE  \/ resp'[r].tokens \subseteq resp[r].tokens
         \/ Finish(r) /\ resp'[r].tokens = mem[r].pair
<1> DEFINE Less == resp'[r].tokens \subseteq resp[r].tokens
<1>1. ASSUME resp' = resp PROVE Less
  BY <1>1
<1>2. ASSUME NEW status, NEW given, Answer(r, status, given) PROVE resp'[r].tokens = given
  BY <1>2 DEF Answer, TypeInv, TypeOK, RequestsTypeOK
<1>3. ASSUME NEW status, Answer(r, status, {}) PROVE Less
  BY <1>2, <1>3
<1> SUFFICES Less \/ (Finish(r) /\ resp'[r].tokens = mem[r].pair)
  OBVIOUS
<1> HIDE DEF Less
<1>4. CASE Call(r)
  BY <1>1, <1>3, <1>4
     DEF Call, PostRegister, PostLogin, PostRefresh, PostLogout, BeginAuthenticated,
         PostUsers, PutUser, DeleteUser, Begin, Refuse
<1>5. CASE AuthStep(r)
  BY <1>1, <1>3, <1>5
     DEF AuthStep, RegisterLookup, RegisterAdd, RegisterUpdate, LookupNewEmail, AddUser,
         SetCreatedBy, IssueTokenPair, RefreshIssue, MintPair, LoginAuthenticate,
         RefreshGetToken, RefreshGetUser, RefreshDelete, LogoutDelete, DeleteByHash,
         VerifyAccessToken, Read, Wrote, Raise
<1>6. CASE UserStep(r)
  BY <1>1, <1>3, <1>6
     DEF UserStep, CreateLookup, CreateAdd, CreateUpdate, LookupNewEmail, AddUser,
         SetCreatedBy, UpdateLoad, UpdateWrite, DeactivateLoad, DeactivateWrite,
         RevokeSnapshot, RevokeDelete, Read, Wrote, Raise
<1>7. CASE Finish(r)
  BY <1>2, <1>7 DEF Finish
<1>8. CASE Fault(r)
  BY <1>3, <1>8 DEF Fault, DatabaseError, AnswerLost, Raise
<1> QED
  BY <1>4, <1>5, <1>6, <1>7, <1>8 DEF Step

\* What request r has deleted, or selected to delete, it may end.
LEMMA DeletionStep ==
  ASSUME TypeInv, LockOrder, TokenInv, KeepInv, NEW r \in Req,
         Call(r) \/ Step(r) \/ Fault(r)
  PROVE  DeletionFits(r)'
<1> DEFINE Kept == req'[r] = req[r]
           Revokes(statement) == statement \in {"revoke.snapshot", "revoke.delete"}
           Entitled == \/ req[r].op = "deactivate"
                       \/ req[r].op = "update" /\ req[r].active = FALSE
           Stored(pair, adds) ==
             \A t \in pair : t.type = "refresh" => \E row \in adds : row.hash = t
<1>1. DeletionFits(r) /\ LockFits(r)
  BY DEF KeepInv, LockOrder
<1>2. ASSUME tx'[r].dels = {}, ~Revokes(pc'[r]), Stored(mem'[r].pair, tx'[r].adds)
      PROVE  DeletionFits(r)'
  BY <1>2 DEF DeletionFits
<1>3. ASSUME Kept, \A t \in tx'[r].dels : MayEnd(r, t), Revokes(pc'[r]) => Entitled,
             pc'[r] = "revoke.delete" => \A t \in mem'[r].victims : t.sub = req[r].target,
             Stored(mem'[r].pair, tx'[r].adds)
      PROVE  DeletionFits(r)'
  BY <1>3 DEF DeletionFits, MayEnd
<1>4. Stored(mem[r].pair, tx[r].adds) /\ \A t \in tx[r].dels : MayEnd(r, t)
  BY <1>1 DEF DeletionFits
<1>5. ASSUME NEW input, NEW statement, Begin(r, input, statement), ~Revokes(statement)
      PROVE  DeletionFits(r)'
  <2>1. /\ tx'[r].dels = {} /\ pc'[r] = statement
        /\ mem'[r].pair = mem[r].pair /\ tx'[r].adds = tx[r].adds
    BY <1>1, <1>5 DEF Begin, Goto, LockFits, TypeInv, TypeOK, RequestsTypeOK
  <2> QED
    BY <1>2, <1>4, <1>5, <2>1
<1>6. ASSUME NEW input, Refuse(r, input) PROVE DeletionFits(r)'
  BY <1>1, <1>2, <1>6 DEF Refuse, Answer, NoMemory, Goto, LockFits, TypeInv, TypeOK,
                          RequestsTypeOK
<1>7. ASSUME NEW status, Raise(r, status) PROVE DeletionFits(r)'
  BY <1>2, <1>7 DEF Raise, Rollback, NoWrites, Answer, NoMemory, Goto, TypeInv, TypeOK,
                    StoreTypeOK, RequestsTypeOK
<1>8. ASSUME NEW locals, NEW statement, Read(r, locals, statement), ~Revokes(statement),
             locals.pair = mem[r].pair
      PROVE  DeletionFits(r)'
  <2>1. /\ tx'[r] = tx[r] /\ pc'[r] = statement /\ Kept /\ mem'[r].pair = mem[r].pair
    BY <1>8 DEF Read, Goto, TypeInv, TypeOK, RequestsTypeOK
  <2> QED
    BY <1>3, <1>4, <1>8, <2>1
<1>9. ASSUME NEW rows, NEW locals, NEW statement, WriteUsers(r, rows), Wrote(r, statement),
             mem' = [mem EXCEPT ![r] = locals], locals.pair = mem[r].pair,
             statement # "revoke.delete", Revokes(statement) => Entitled
      PROVE  DeletionFits(r)'
  <2>1. /\ tx'[r].dels = tx[r].dels /\ tx'[r].adds = tx[r].adds /\ pc'[r] = statement /\ Kept
        /\ mem'[r].pair = mem[r].pair
    BY <1>9 DEF WriteUsers, Wrote, Goto, Transaction, TypeInv, TypeOK, StoreTypeOK,
                RequestsTypeOK
  <2> QED
    BY <1>3, <1>4, <1>9, <2>1
<1>10. ASSUME NEW hashes, NEW statement, DeleteTokens(r, hashes), Wrote(r, statement),
              mem' = mem, ~Revokes(statement), \A t \in hashes : MayEnd(r, t)
       PROVE  DeletionFits(r)'
  <2>1. /\ \A t \in tx'[r].dels : t \in tx[r].dels \/ t \in hashes
        /\ tx'[r].adds = tx[r].adds /\ pc'[r] = statement /\ Kept
    BY <1>10 DEF DeleteTokens, Wrote, Goto, Transaction, TypeInv, TypeOK, StoreTypeOK,
                 RequestsTypeOK
  <2> QED
    BY <1>3, <1>4, <1>10, <2>1
<1> HIDE DEF Kept, Revokes, Entitled, Stored
<1>0. \A statement \in {"register.get_by_email", "login.get_by_email",
                        "refresh.get_by_user_and_hash", "logout.delete_by_hash",
                        "verify.get_by_id", "register.add", "register.update", "issue.add",
                        "refresh.get_by_id", "refresh.delete_by_hash", "refresh.add",
                        "create.get_by_email", "create.add",
                        "create.update", "update.get_by_id", "update.update",
                        "deactivate.get_by_id", "deactivate.deactivate", "commit"} :
        ~Revokes(statement)
  BY DEF Revokes
<1>11. ASSUME NEW here, MintPair(r, here) PROVE DeletionFits(r)'
  <2> DEFINE id == mem[r].user.id
             access == CreateAccessToken(r, id)
             refresh == CreateRefreshToken(r, id)
             row == [hash |-> refresh, user |-> id, expires |-> RowExpiry]
  <2>1. /\ mem'[r].pair = {access, refresh} /\ row \in tx'[r].adds
        /\ tx'[r].dels = tx[r].dels /\ pc'[r] = "commit" /\ Kept
    BY <1>11 DEF MintPair, InsertToken, Wrote, Goto, Memory, Transaction, Kept, TypeInv, TypeOK,
                 StoreTypeOK, RequestsTypeOK
  <2>2. access.type = "access" /\ row.hash = refresh
    BY DEF CreateAccessToken, CreateToken
  <2> HIDE DEF access, refresh, row
  <2> QED
    BY <1>0, <1>3, <1>4, <2>1, <2>2 DEF Stored
<1>12. CASE Call(r)
  BY <1>0, <1>5, <1>6, <1>12
     DEF Call, PostRegister, PostLogin, PostRefresh, PostLogout, BeginAuthenticated,
         PostUsers, PutUser, DeleteUser
<1>13. ASSUME NEW u, NEW statement, Read(r, [mem[r] EXCEPT !.user = u], statement),
              ~Revokes(statement)
       PROVE  DeletionFits(r)'
  <2> DEFINE locals == [mem[r] EXCEPT !.user = u]
  <2>1. locals.pair = mem[r].pair /\ Read(r, locals, statement)
    BY <1>13, PartsType DEF Memory
  <2> HIDE DEF locals
  <2> QED
    BY <1>8, <1>13, <2>1
<1>14. ASSUME NEW here, NEW next, SetCreatedBy(r, here, next), ~Revokes(next)
       PROVE  DeletionFits(r)'
  <2>1. PICK u \in GetById(r, r) :
          /\ WriteUsers(r, {[u EXCEPT !.createdBy = r]})
          /\ mem' = [mem EXCEPT ![r].user = [u EXCEPT !.createdBy = r]]
    BY <1>14 DEF SetCreatedBy
  <2> DEFINE locals == [mem[r] EXCEPT !.user = [u EXCEPT !.createdBy = r]]
  <2>2. locals.pair = mem[r].pair /\ mem' = [mem EXCEPT ![r] = locals]
    BY <2>1, PartsType DEF Memory
  <2>3. next # "revoke.delete" /\ Wrote(r, next)
    BY <1>14 DEF SetCreatedBy, Revokes
  <2> HIDE DEF locals
  <2> QED
    BY <1>9, <1>14, <2>1, <2>2, <2>3
<1>15. CASE AuthStep(r)
  <2>1. CASE RegisterLookup(r) \/ RegisterAdd(r)
    BY <1>0, <1>7, <1>8, <1>9, <2>1, PartsType
       DEF RegisterLookup, RegisterAdd, LookupNewEmail, AddUser
  <2>2. CASE RegisterUpdate(r)
    BY <1>0, <1>14, <2>2 DEF RegisterUpdate
  <2>3. CASE IssueTokenPair(r) \/ RefreshIssue(r)
    BY <1>11, <2>3 DEF IssueTokenPair, RefreshIssue
  <2>4. CASE LoginAuthenticate(r) \/ RefreshGetToken(r) \/ RefreshGetUser(r)
    BY <1>0, <1>7, <1>8, <1>13, <2>4 DEF LoginAuthenticate, RefreshGetToken, RefreshGetUser
  <2>5. CASE RefreshDelete(r) \/ LogoutDelete(r)
    <3>1. \A t \in {Presented(r)} : MayEnd(r, t)
      BY <2>5, PartsType DEF RefreshDelete, LogoutDelete, DeleteByHash, Fits, StatementFits,
                             Presented, MayEnd
    <3> QED
      BY <1>0, <1>10, <2>5, <3>1 DEF RefreshDelete, LogoutDelete, DeleteByHash
  <2>6. CASE VerifyAccessToken(r)
    <3>1. ASSUME UNCHANGED <<tx, req, mem>>, Goto(r, ServiceEntry[req[r].op])
          PROVE  DeletionFits(r)'
      <4>1. req[r].op \in {"create", "update", "deactivate"}
        BY <2>6, PartsType DEF VerifyAccessToken, Fits, StatementFits
      <4>2. ~Revokes(pc'[r]) /\ pc'[r] # "revoke.delete"
        BY <3>1, <4>1 DEF Goto, ServiceEntry, Revokes, TypeInv, TypeOK, RequestsTypeOK
      <4> QED
        BY <1>3, <1>4, <3>1, <4>2 DEF Kept
    <3> QED
      BY <1>7, <2>6, <3>1 DEF VerifyAccessToken
  <2> QED
    BY <1>15, <2>1, <2>2, <2>3, <2>4, <2>5, <2>6 DEF AuthStep
<1>16. CASE UserStep(r)
  <2>1. CASE CreateLookup(r) \/ CreateAdd(r)
    BY <1>0, <1>7, <1>8, <1>9, <2>1, PartsType DEF CreateLookup, CreateAdd, LookupNewEmail, AddUser
  <2>2. CASE CreateUpdate(r)
    BY <1>0, <1>14, <2>2 DEF CreateUpdate
  <2>3. CASE UpdateLoad(r) \/ DeactivateLoad(r)
    BY <1>0, <1>7, <1>13, <2>3 DEF UpdateLoad, DeactivateLoad
  <2>4. CASE UpdateWrite(r)
    <3>1. /\ req[r].op = "update" /\ mem[r].user \in UserRow
          /\ req[r].active \in BOOLEAN \cup {Null}
      BY <2>4, PartsType DEF UpdateWrite, Fits, StatementFits, LocalsFit, UsesUser, Input
    <3>2. ASSUME MustRevoke(r) PROVE Entitled
      <4>1. req[r].active # Null
        BY <3>2 DEF MustRevoke, NewActive, Given
      <4>2. ~req[r].active
        BY <3>2, <4>1 DEF MustRevoke, NewActive, Given
      <4>3. req[r].active = FALSE
        BY <3>1, <4>1, <4>2
      <4> QED
        BY <3>1, <4>3 DEF Entitled
    <3> DEFINE next == IF MustRevoke(r) THEN "revoke.snapshot" ELSE "commit"
    <3>3. PICK rows : WriteUsers(r, rows) /\ Wrote(r, next) /\ mem' = mem
      BY <2>4 DEF UpdateWrite
    <3>4. next # "revoke.delete" /\ (Revokes(next) => Entitled)
      BY <1>0, <3>2
    <3> HIDE DEF next
    <3> QED
      BY <1>9, <3>3, <3>4, PartsType
  <2>5. CASE DeactivateWrite(r)
    <3>1. Entitled
      BY <2>5, PartsType DEF DeactivateWrite, Fits, StatementFits, Entitled
    <3> QED
      BY <1>9, <2>5, <3>1, PartsType DEF DeactivateWrite
  <2>6. CASE RevokeSnapshot(r)
    <3> DEFINE victims == {t.hash : t \in {s \in SeenTokens(r) : s.user = req[r].target}}
    <3>1. \A s \in SeenTokens(r) : s.hash.sub = s.user
      BY <1>1, <2>6 DEF RevokeSnapshot, SeenTokens, LockFits, TokenInv, RowMatchesToken
    <3>2. \A t \in victims : t.sub = req[r].target
      BY <3>1
    <3> HIDE DEF victims
    <3>3. /\ mem'[r].victims = victims /\ mem'[r].pair = mem[r].pair
          /\ tx' = tx /\ Kept
      BY <2>6 DEF RevokeSnapshot, Read, Memory, Kept, victims, TypeInv, TypeOK, RequestsTypeOK
    <3>4. Entitled
      BY <1>1, <2>6 DEF RevokeSnapshot, DeletionFits, Entitled
    <3> QED
      BY <1>3, <1>4, <3>2, <3>3, <3>4
  <2>7. CASE RevokeDelete(r)
    <3>1. \A t \in mem[r].victims : MayEnd(r, t)
      BY <1>1, <2>7 DEF RevokeDelete, DeletionFits, MayEnd
    <3> QED
      BY <1>0, <1>10, <2>7, <3>1 DEF RevokeDelete
  <2> QED
    BY <1>16, <2>1, <2>2, <2>3, <2>4, <2>5, <2>6, <2>7 DEF UserStep
<1>17. CASE Finish(r) \/ Fault(r)
  <2>1. ASSUME NEW status, NEW given, Commit(r), Answer(r, status, given) PROVE DeletionFits(r)'
    BY <1>2, <2>1 DEF Commit, NoWrites, Answer, NoMemory, Goto, Revokes, Stored, TypeInv, TypeOK,
                      StoreTypeOK, RequestsTypeOK
  <2> QED
    BY <1>7, <1>17, <2>1 DEF Finish, Fault, DatabaseError, AnswerLost
<1> QED
  BY <1>12, <1>15, <1>16, <1>17 DEF Step

\* Every step keeps KeepInv.
LEMMA KeepNext == TypeInv /\ LockOrder /\ TokenInv /\ KeepInv /\ [Next]_vars => KeepInv'
<1> SUFFICES ASSUME TypeInv, LockOrder, TokenInv, KeepInv, [Next]_vars PROVE KeepInv'
  OBVIOUS
<1> DEFINE Safe(t) == \/ \E row \in tokens : row.hash = t
                      \/ \E q \in Req : Committed(q) /\ MayEnd(q, t)
<1>0. \A r \in Req \ SeedInactive : \A t \in RefreshTokensOf(r) : Safe(t)
  BY DEF KeepInv, NoSessionLost
<1>1. ASSUME NEW r \in Req, Call(r) \/ Step(r) \/ Fault(r) PROVE KeepInv'
  <2>1. ASSUME NEW t, Safe(t) PROVE Safe(t)'
    <3>1. ASSUME NEW q \in Req, Committed(q), MayEnd(q, t) PROVE Committed(q)' /\ MayEnd(q, t)'
      BY <1>1, <3>1, OneRequest, CommittedKept DEF MovesOnly, Others, MayEnd
    <3>2. CASE tokens' = tokens
      BY <2>1, <3>1, <3>2
    <3>3. CASE Commit(r) /\ req' = req
      <4>1. Committed(r)' /\ tokens' = SeenTokens(r)
        BY <3>3 DEF Commit, Committed, NoWrites, TypeInv, TypeOK, StoreTypeOK
      <4>2. \A d \in tx[r].dels : MayEnd(r, d)'
        BY <3>3 DEF KeepInv, DeletionFits, MayEnd
      <4> QED
        BY <2>1, <3>1, <4>1, <4>2 DEF SeenTokens
    <3> QED
      BY <1>1, <3>2, <3>3, OnlyCommitPublishes
  <2>2. ASSUME r \notin SeedInactive, NEW t \in resp'[r].tokens, t.type = "refresh"
        PROVE  Safe(t)'
    <3>1. \/ t \in resp[r].tokens
          \/ Finish(r) /\ t \in mem[r].pair
      <4>1. \/ resp'[r].tokens \subseteq resp[r].tokens
            \/ Finish(r) /\ resp'[r].tokens = mem[r].pair
        BY <1>1, AnswerTokens
      <4> QED
        BY <2>2, <4>1
    <3>2. CASE t \in resp[r].tokens
      BY <1>0, <2>1, <2>2, <3>2 DEF RefreshTokensOf
    <3>3. CASE Finish(r) /\ t \in mem[r].pair
      BY <2>2, <3>3 DEF Finish, Commit, SeenTokens, KeepInv, DeletionFits
    <3> QED
      BY <3>1, <3>2, <3>3
  <2>3. ASSUME NEW q \in Others(r) \ SeedInactive, NEW t \in resp'[q].tokens, t.type = "refresh"
        PROVE  Safe(t)'
    <3>1. t \in RefreshTokensOf(q) /\ q \in Req \ SeedInactive
      BY <1>1, <2>3, OneRequest DEF MovesOnly, Others, RefreshTokensOf
    <3> QED
      BY <1>0, <2>1, <3>1
  <2>4. NoSessionLost'
    BY <2>2, <2>3 DEF NoSessionLost, RefreshTokensOf, Others
  <2>5. DeletionFits(r)'
    BY <1>1, DeletionStep
  <2>6. ASSUME NEW q \in Others(r) PROVE DeletionFits(q)'
    BY <1>1, OneRequest DEF MovesOnly, KeepInv, DeletionFits, MayEnd, Others
  <2> QED
    BY <2>4, <2>5, <2>6 DEF KeepInv, Others
<1>2. CASE Crash
  <2>1. ASSUME NEW q \in Req
        PROVE  /\ Committed(q)' <=> Committed(q)
               /\ tx'[q].dels = {} /\ mem'[q].pair \subseteq mem[q].pair
               /\ (mem'[q].pair = {} \/ tx'[q] = tx[q])
               /\ resp'[q].tokens \subseteq resp[q].tokens
               /\ pc'[q] \notin {"revoke.snapshot", "revoke.delete"}
    <3>1. CASE Running(q)
      BY <1>2, <3>1 DEF Crash, NoWrites, NoMemory, Committed, Running, Statement, LockOrder,
                        LockFits, TypeInv, TypeOK, StoreTypeOK, RequestsTypeOK
    <3>2. CASE ~Running(q)
      BY <1>2, <3>2 DEF Crash, Committed, Running, Statement, LockOrder, LockFits, TypeInv,
                        TypeOK, StoreTypeOK, RequestsTypeOK
    <3> QED
      BY <3>1, <3>2
  <2>2. tokens' = tokens /\ req' = req
    BY <1>2 DEF Crash
  <2>3. NoSessionLost'
    BY <1>0, <2>1, <2>2 DEF NoSessionLost, RefreshTokensOf, MayEnd
  <2>4. \A q \in Req : DeletionFits(q)'
    BY <2>1 DEF KeepInv, DeletionFits
  <2> QED
    BY <2>3, <2>4 DEF KeepInv
<1>3. CASE Tick \/ UNCHANGED vars
  BY <1>3 DEF Tick, vars, KeepInv, NoSessionLost, DeletionFits, RefreshTokensOf, MayEnd, Committed
<1> QED
  BY <1>1, <1>2, <1>3 DEF Next

\* Every behaviour keeps KeepInv.
LEMMA DeletionsFit == Spec => []KeepInv
<1>1. Init => KeepInv
  <2> SUFFICES ASSUME Init PROVE KeepInv
    OBVIOUS
  <2>1. ASSUME NEW r \in Req PROVE DeletionFits(r)
    <3>1. mem[r].pair = {} /\ tx[r].dels = {} /\ pc[r] \in {"idle", "done"}
      BY SeedsCommitted DEF Init, NoMemory
    <3> QED
      BY <3>1 DEF DeletionFits
  <2>2. NoSessionLost
    <3> SUFFICES ASSUME NEW r \in Req \ SeedInactive, NEW t \in RefreshTokensOf(r)
                 PROVE  \E row \in tokens : row.hash = t
      BY DEF NoSessionLost
    <3>1. r \in Seed
      BY DEF Init, NoResponse, RefreshTokensOf
    <3>2. t \in {SeedToken(r, "access", AccessTTL), SeedRefresh(r)} /\ t.type = "refresh"
      BY <3>1 DEF Init, RefreshTokensOf
    <3>3. t = SeedRefresh(r)
      BY <3>2 DEF SeedToken
    <3> DEFINE row == [hash |-> SeedRefresh(r), user |-> r, expires |-> RefreshTTL]
    <3>4. row \in tokens /\ row.hash = t
      BY <3>1, <3>3 DEF Init
    <3> QED
      BY <3>4
  <2> QED
    BY <2>1, <2>2 DEF KeepInv
<1> QED
  BY <1>1, TypeCorrect, LocksInOrder, TokensFit, KeepNext, PTL DEF Spec

\* A refresh token that a client was given stays stored until a request that
\* may end its session commits: nothing that fails, is rolled back or concerns
\* another account logs anyone out.
THEOREM SessionsAreKept == Spec => []NoSessionLost
<1>1. KeepInv => NoSessionLost
  BY DEF KeepInv
<1> QED
  BY <1>1, DeletionsFit, PTL
=============================================================================
