--------------------------- MODULE RefinementProofs ---------------------------
(***************************************************************************)
(* The application implements Service: EffectInv says what the writes of a *)
(* request that is about to commit amount to, and the COMMIT is the        *)
(* abstract step.                                                          *)
(***************************************************************************)
EXTENDS SafetyProofs, ApiRefinement

\* Nobody else has written an account that the transaction of r writes next.
KeepsRows(r) ==
  \A w \in tx'[r].users :
    HoldsUser(r, w.id) \/ \A q \in Others(r) : ~HoldsUser(q, w.id)

\* The statements that say something of what was written or found before.
Charged == UsesAccount \cup {"update.update", "deactivate.deactivate", "revoke.snapshot",
                             "revoke.delete", "commit"}

\* The statement that each endpoint starts with.
FirstStatement ==
  [register |-> "register.get_by_email", login |-> "login.get_by_email",
   refresh |-> "refresh.get_by_user_and_hash", logout |-> "logout.delete_by_hash",
   create |-> "verify.get_by_id", update |-> "verify.get_by_id",
   deactivate |-> "verify.get_by_id"]

Asks(r, input) == Refuse(r, input) \/ Begin(r, input, FirstStatement[input.op])

\* A call says what it is for.
LEMMA CallAsks ==
  ASSUME NEW r \in Req, Call(r)
  PROVE  \E input : input.op \in Op /\ Asks(r, input)
<1> DEFINE Goal == \E input : input.op \in Op /\ Asks(r, input)
           Authenticated == {"create", "update", "deactivate"}
<1> SUFFICES Goal
  OBVIOUS
<1>1. ASSUME NEW input, input.op \in Op,
             Refuse(r, input) \/ Begin(r, input, FirstStatement[input.op])
      PROVE  Goal
  BY <1>1 DEF Asks
<1> HIDE DEF Goal
<1>2. CASE PostRegister(r)
  <2>1. PICK e \in Email :
          Begin(r, [Blank EXCEPT !.op = "register", !.email = e], "register.get_by_email")
    BY <1>2 DEF PostRegister
  <2> DEFINE input == [Blank EXCEPT !.op = "register", !.email = e]
  <2>2. input.op \in Op /\ FirstStatement[input.op] = "register.get_by_email"
    BY DEF Blank, Op, FirstStatement
  <2> HIDE DEF input
  <2> QED
    BY <1>1, <2>1, <2>2 DEF input
<1>3. CASE PostLogin(r)
  <2>1. PICK e \in Email, ok \in BOOLEAN :
          Begin(r, [Blank EXCEPT !.op = "login", !.email = e, !.passwordOk = ok],
                "login.get_by_email")
    BY <1>3 DEF PostLogin
  <2> DEFINE input == [Blank EXCEPT !.op = "login", !.email = e, !.passwordOk = ok]
  <2>2. input.op \in Op /\ FirstStatement[input.op] = "login.get_by_email"
    BY DEF Blank, Op, FirstStatement
  <2> HIDE DEF input
  <2> QED
    BY <1>1, <2>1, <2>2 DEF input
<1>4. CASE PostRefresh(r)
  <2>1. PICK t :
          \/ Begin(r, [Blank EXCEPT !.op = "refresh", !.token = t],
                   "refresh.get_by_user_and_hash")
          \/ Refuse(r, [Blank EXCEPT !.op = "refresh", !.token = t])
    BY <1>4 DEF PostRefresh
  <2> DEFINE input == [Blank EXCEPT !.op = "refresh", !.token = t]
  <2>2. input.op \in Op /\ FirstStatement[input.op] = "refresh.get_by_user_and_hash"
    BY DEF Blank, Op, FirstStatement
  <2> HIDE DEF input
  <2> QED
    BY <1>1, <2>1, <2>2 DEF input
<1>5. CASE PostLogout(r)
  <2>1. PICK t :
          \/ Begin(r, [Blank EXCEPT !.op = "logout", !.token = t], "logout.delete_by_hash")
          \/ Refuse(r, [Blank EXCEPT !.op = "logout", !.token = t])
    BY <1>5 DEF PostLogout
  <2> DEFINE input == [Blank EXCEPT !.op = "logout", !.token = t]
  <2>2. input.op \in Op /\ FirstStatement[input.op] = "logout.delete_by_hash"
    BY DEF Blank, Op, FirstStatement
  <2> HIDE DEF input
  <2> QED
    BY <1>1, <2>1, <2>2 DEF input
<1>6. ASSUME NEW body, BeginAuthenticated(r, body), body.op \in Authenticated,
             \A t : [body EXCEPT !.token = t].op = body.op
      PROVE  Goal
  <2>1. PICK t : \/ Begin(r, [body EXCEPT !.token = t], "verify.get_by_id")
                 \/ Refuse(r, [body EXCEPT !.token = t])
    BY <1>6 DEF BeginAuthenticated
  <2> DEFINE input == [body EXCEPT !.token = t]
  <2>2. input.op \in Op /\ FirstStatement[input.op] = "verify.get_by_id"
    BY <1>6 DEF Op, FirstStatement
  <2> HIDE DEF input
  <2> QED
    BY <1>1, <2>1, <2>2 DEF input
<1>7. CASE PostUsers(r)
  <2>1. PICK e \in Email, role \in Roles \ {Null}, active \in Actives \ {Null} :
          BeginAuthenticated(r, [Blank EXCEPT !.op = "create", !.email = e,
                                              !.role = role, !.active = active])
    BY <1>7 DEF PostUsers
  <2> DEFINE body == [Blank EXCEPT !.op = "create", !.email = e,
                                   !.role = role, !.active = active]
  <2>2. body.op \in Authenticated /\ \A t : [body EXCEPT !.token = t].op = body.op
    BY DEF Blank
  <2> HIDE DEF body
  <2> QED
    BY <1>6, <2>1, <2>2 DEF body
<1>8. CASE PutUser(r)
  <2>1. PICK id \in Target, role \in Roles, active \in Actives :
          BeginAuthenticated(r, [Blank EXCEPT !.op = "update", !.target = id,
                                              !.role = role, !.active = active])
    BY <1>8 DEF PutUser
  <2> DEFINE body == [Blank EXCEPT !.op = "update", !.target = id,
                                   !.role = role, !.active = active]
  <2>2. body.op \in Authenticated /\ \A t : [body EXCEPT !.token = t].op = body.op
    BY DEF Blank
  <2> HIDE DEF body
  <2> QED
    BY <1>6, <2>1, <2>2 DEF body
<1>9. CASE DeleteUser(r)
  <2>1. PICK id \in Target :
          BeginAuthenticated(r, [Blank EXCEPT !.op = "deactivate", !.target = id])
    BY <1>9 DEF DeleteUser
  <2> DEFINE body == [Blank EXCEPT !.op = "deactivate", !.target = id]
  <2>2. body.op \in Authenticated /\ \A t : [body EXCEPT !.token = t].op = body.op
    BY DEF Blank
  <2> HIDE DEF body
  <2> QED
    BY <1>6, <2>1, <2>2 DEF body
<1> QED
  BY <1>2, <1>3, <1>4, <1>5, <1>7, <1>8, <1>9 DEF Call

\* What request r has found and written is what its endpoint is for.
LEMMA EffectStep ==
  ASSUME TypeInv, LockOrder, AccountInv, EffectInv, NEW r \in Req,
         Call(r) \/ Step(r) \/ Fault(r), ~Publishes(r)
  PROVE  EffectFits(r)' /\ KeepsRows(r)
<1> DEFINE Goal == EffectFits(r)' /\ KeepsRows(r)
<1>1. EffectFits(r) /\ LockFits(r) /\ AccountFits(r) /\ pc[r] # "done"
  BY OneRequest DEF EffectInv, LockOrder, AccountInv, MovesOnly
<1>2. \A q \in Others(r) : tx'[q] = tx[q]
  BY OneRequest DEF MovesOnly
<1>3. users' = users
  BY OnlyCommitPublishes DEF Publishes
<1>4. tx[r].fate = "open" /\ Null \notin Op
  BY <1>1, NullAssumption DEF EffectFits
<1>5. ASSUME tx'[r].users = {}, tx'[r].adds = {}, req'[r].op # Null, pc'[r] # "idle",
             pc'[r] # "done" => tx'[r].fate = "open", pc'[r] \notin Charged
      PROVE  Goal
  BY <1>5 DEF EffectFits, KeepsRows, Charged, UsesAccount
<1>6. ASSUME tx'[r].users = {}, tx'[r].adds = {}, req'[r] = req[r], req[r].op # Null,
             tx'[r].fate = "open", pc'[r] \in Statement,
             pc'[r] \in UsesAccount => OwnerFits(r, mem'[r].user.id),
             pc'[r] \in {"update.update", "deactivate.deactivate"} =>
               \E u \in users : u.id = req[r].target,
             pc'[r] = "commit" => req[r].op = "logout",
             pc'[r] \notin {"revoke.snapshot", "revoke.delete"}
      PROVE  Goal
  BY <1>3, <1>6 DEF EffectFits, KeepsRows, OwnerFits, UsesAccount, Statement
<1>7. ASSUME NEW input, NEW statement, Begin(r, input, statement), input.op \in Op,
             statement \in Statement \ Charged
      PROVE  Goal
  <2>1. tx'[r].users = {} /\ tx'[r].adds = {} /\ req'[r] = input /\ pc'[r] = statement
        /\ tx'[r].fate = "open"
    BY <1>1, <1>4, <1>7 DEF Begin, Goto, LockFits, TypeInv, TypeOK, RequestsTypeOK
  <2> QED
    BY <1>4, <1>5, <1>7, <2>1 DEF Statement
<1>8. ASSUME NEW input, Refuse(r, input), input.op \in Op PROVE Goal
  <2>1. tx'[r].users = {} /\ tx'[r].adds = {} /\ req'[r] = input /\ pc'[r] = "done"
    BY <1>1, <1>8 DEF Refuse, Answer, Goto, LockFits, TypeInv, TypeOK, RequestsTypeOK
  <2> QED
    BY <1>4, <1>5, <1>8, <2>1 DEF Charged, UsesAccount
<1>9. ASSUME NEW status, Raise(r, status), pc[r] # "idle" PROVE Goal
  <2>1. tx'[r].users = {} /\ tx'[r].adds = {} /\ req' = req /\ pc'[r] = "done"
    BY <1>9 DEF Raise, Rollback, NoWrites, Answer, Goto, TypeInv, TypeOK, StoreTypeOK,
                RequestsTypeOK
  <2> QED
    BY <1>1, <1>5, <1>9, <2>1 DEF EffectFits, Charged, UsesAccount
<1>10. ASSUME NEW locals, NEW statement \in Statement \ Charged, Read(r, locals, statement),
              pc[r] \notin {"idle", "commit"}, tx[r].users = {}
       PROVE  Goal
  <2>1. tx'[r].users = {} /\ tx'[r].adds = {} /\ req' = req /\ pc'[r] = statement
        /\ tx'[r].fate = "open"
    BY <1>1, <1>4, <1>10 DEF Read, Goto, LockFits, TypeInv, TypeOK, RequestsTypeOK
  <2> QED
    BY <1>1, <1>5, <1>10, <2>1 DEF EffectFits, Statement
<1>11. ASSUME NEW u, NEW statement \in Statement,
              Read(r, [mem[r] EXCEPT !.user = u], statement),
              pc[r] \notin {"idle", "commit"}, tx[r].users = {},
              statement \notin {"commit", "revoke.snapshot", "revoke.delete"},
              statement \in UsesAccount => OwnerFits(r, u.id),
              statement \in {"update.update", "deactivate.deactivate"} =>
                \E v \in users : v.id = req[r].target
       PROVE  Goal
  <2>1. tx'[r].users = {} /\ tx'[r].adds = {} /\ req' = req /\ pc'[r] = statement
        /\ tx'[r].fate = "open" /\ mem'[r].user = u
    BY <1>1, <1>4, <1>11, PartsType DEF Read, Goto, LockFits, Memory, TypeInv, TypeOK,
                                        RequestsTypeOK
  <2>2. req[r].op # Null
    BY <1>1, <1>11 DEF EffectFits
  <2> QED
    BY <1>6, <1>11, <2>1, <2>2
<1>12. ASSUME NEW hashes, NEW statement, DeleteTokens(r, hashes), Wrote(r, statement)
       PROVE  /\ tx'[r].users = tx[r].users /\ tx'[r].adds = tx[r].adds
              /\ tx'[r].fate = "open" /\ req' = req /\ pc'[r] = statement
  BY <1>4, <1>12 DEF DeleteTokens, Wrote, Goto, Transaction, TypeInv, TypeOK, StoreTypeOK,
                     RequestsTypeOK
<1>13. ASSUME NEW rows, NEW statement, WriteUsers(r, rows), Wrote(r, statement)
       PROVE  /\ tx'[r].users = Overlay(tx[r].users, rows) /\ tx'[r].adds = tx[r].adds
              /\ tx'[r].dels = tx[r].dels
              /\ tx'[r].fate = "open" /\ req' = req /\ pc'[r] = statement
  BY <1>4, <1>13 DEF WriteUsers, Wrote, Goto, Transaction, TypeInv, TypeOK, StoreTypeOK,
                     RequestsTypeOK
<1> SUFFICES Goal
  OBVIOUS
<1> HIDE DEF Goal
\* A request that makes an account has it as the one row it wrote.
<1>14. ASSUME NEW row, NEW rows, NEW statement, WriteUsers(r, rows), Wrote(r, statement),
              tx'[r].users = {row}, row.id = r, tx[r].dels = {},
              req[r].op \in {"register", "create"},
              req[r].op = "register" => row.role = "USER" /\ row.active,
              statement \in {"register.update", "create.update", "issue.add", "commit"},
              statement = "issue.add" => req[r].op = "register" /\ mem'[r].user.id = r,
              statement = "commit" => req[r].op = "create", pc[r] # "commit"
       PROVE  Goal
  <2>1. \A q \in Others(r) : ~HoldsUser(q, r) /\ ~HoldsUser(q, r)'
    <3>1. ASSUME NEW q \in Others(r), NEW w \in tx[q].users PROVE w.id # r
      <4>1. AccountFits(q) /\ q # r
        BY DEF AccountInv, Others
      <4>2. ~Committed(r)
        BY <1>1 DEF LockFits
      <4> QED
        BY <4>1, <4>2 DEF AccountFits, Updates, AccountInv
    <3> QED
      BY <1>2, <3>1 DEF HoldsUser
  <2>2. KeepsRows(r)
    BY <1>14, <2>1 DEF KeepsRows
  <2>3. /\ tx'[r].adds = {} /\ tx'[r].dels = {} /\ tx'[r].fate = "open"
        /\ req' = req /\ pc'[r] = statement
    BY <1>1, <1>13, <1>14 DEF LockFits
  <2>4. WriteFits(r, row)'
    BY <1>14, <2>1, <2>3 DEF WriteFits
  <2>5. statement = "issue.add" => OwnerFits(r, mem[r].user.id)'
    BY <1>14, <2>3 DEF OwnerFits
  <2>6. req[r].op # Null
    BY <1>14, <1>4 DEF Op
  <2> QED
    BY <1>14, <2>2, <2>3, <2>4, <2>5, <2>6 DEF EffectFits, Goal
<1>15. ASSUME NEW here, here # "idle", NEW next, NEW row, AddUser(r, here, row, next), row.id = r,
              tx[r].users = {}, tx[r].dels = {},
              req[r].op \in {"register", "create"},
              req[r].op = "register" => row.role = "USER" /\ row.active,
              next \in {"register.update", "create.update"}, here # "commit"
       PROVE  Goal
  <2>1. CASE EmailTaken(r, row.email)
    BY <1>9, <1>15, <2>1 DEF AddUser
  <2>2. CASE ~EmailTaken(r, row.email)
    <3>1. WriteUsers(r, {row}) /\ Wrote(r, next) /\ pc[r] # "commit"
      BY <1>15, <2>2 DEF AddUser
    <3>2. tx'[r].users = {row}
      BY <1>13, <1>15, <3>1 DEF Overlay
    <3> QED
      BY <1>14, <1>15, <3>1, <3>2
  <2> QED
    BY <2>1, <2>2
<1>16. ASSUME NEW here, NEW next, SetCreatedBy(r, here, next), here # "commit",
              tx[r].dels = {}, req[r].op \in {"register", "create"},
              next \in {"issue.add", "commit"},
              next = "issue.add" <=> req[r].op = "register"
       PROVE  Goal
  <2>1. PICK u \in GetById(r, r) :
          /\ WriteUsers(r, {[u EXCEPT !.createdBy = r]})
          /\ mem' = [mem EXCEPT ![r].user = [u EXCEPT !.createdBy = r]]
          /\ Wrote(r, next)
    BY <1>16 DEF SetCreatedBy
  <2> DEFINE row == [u EXCEPT !.createdBy = r]
  <2>2. u \in UserRow /\ u \in SeenUsers(r) /\ u.id = r
    BY SeenUsersType DEF GetById, TypeInv, TypeOK
  <2>3. row.id = r /\ row.role = u.role /\ row.active = u.active
    BY <2>2 DEF UserRow
  <2>4. u \in tx[r].users
    BY <1>1, <2>2 DEF SeenUsers, Overlay, AccountInv, LockFits
  <2>5. (\A w \in tx[r].users : w.id = r) /\ WriteFits(r, u)
    BY <1>1, <2>2, <2>4 DEF AccountFits, EffectFits
  <2>6. mem'[r].user = row
    BY <2>1, PartsType DEF Memory, TypeInv, TypeOK, RequestsTypeOK
  <2>7. WriteUsers(r, {row}) /\ Wrote(r, next) /\ pc[r] # "commit"
    BY <1>16, <2>1 DEF SetCreatedBy
  <2> HIDE DEF row
  <2>8. tx'[r].users = {row}
    BY <1>13, <2>3, <2>5, <2>7 DEF Overlay
  <2> QED
    BY <1>14, <1>16, <2>3, <2>5, <2>6, <2>7, <2>8 DEF WriteFits
\* A request that changes an account has locked it.
<1>17. ASSUME NEW row, NEW next, WriteUsers(r, {row}), Wrote(r, next),
              pc[r] \in {"update.update", "deactivate.deactivate"},
              req[r].op \in {"update", "deactivate"}, row.id = req[r].target,
              \A q \in Others(r) : ~HoldsUser(q, req[r].target),
              \E u \in users : u.id = row.id,
              req[r].op = "deactivate" =>
                ~row.active /\ \A u \in users : u.id = row.id => u.role = row.role,
              next \in {"revoke.snapshot", "commit"},
              next = "revoke.snapshot" => ~row.active
       PROVE  Goal
  <2>1. tx[r].users = {} /\ tx[r].adds = {} /\ tx[r].dels = {}
    BY <1>1, <1>17 DEF LockFits
  <2>2. /\ tx'[r].users = {row} /\ tx'[r].adds = {} /\ tx'[r].dels = {}
        /\ tx'[r].fate = "open" /\ req' = req /\ pc'[r] = next
    BY <1>13, <1>17, <2>1 DEF Overlay
  <2>3. \A q \in Others(r) : ~HoldsUser(q, row.id) /\ ~HoldsUser(q, row.id)'
    BY <1>2, <1>17 DEF HoldsUser
  <2>4. WriteFits(r, row)'
    BY <1>3, <1>17, <2>2, <2>3 DEF WriteFits
  <2>5. req[r].op # Null
    BY <1>17, <1>4 DEF Op
  <2> QED
    BY <1>17, <2>2, <2>3, <2>4, <2>5 DEF EffectFits, KeepsRows, Goal, UsesAccount
<1>18. ASSUME NEW here \in {"issue.add", "refresh.add"}, MintPair(r, here) PROVE Goal
  <2> DEFINE id == mem[r].user.id
             row == [hash |-> CreateRefreshToken(r, id), user |-> id, expires |-> RowExpiry]
  <2>1. OwnerFits(r, row.user) /\ tx[r].adds = {} /\ pc[r] \notin {"idle", "commit"}
    BY <1>1, <1>18 DEF MintPair, EffectFits, LockFits
  <2>2. /\ tx'[r].adds = {row} /\ tx'[r].users = tx[r].users /\ tx'[r].dels = tx[r].dels
        /\ tx'[r].fate = "open" /\ req' = req /\ pc'[r] = "commit"
    BY <1>4, <1>18, <2>1 DEF MintPair, InsertToken, Wrote, Goto, Transaction, TypeInv, TypeOK,
                             StoreTypeOK, RequestsTypeOK
  <2> HIDE DEF row
  <2>3. ASSUME NEW owner, OwnerFits(r, owner) PROVE OwnerFits(r, owner)'
    BY <2>2, <2>3 DEF OwnerFits
  <2>4. ASSUME NEW w \in tx'[r].users PROVE WriteFits(r, w)' /\ HoldsUser(r, w.id)
    BY <1>1, <1>2, <1>3, <2>2, <2>4 DEF EffectFits, WriteFits, HoldsUser
  <2>5. req[r].op # Null /\ req[r].op \notin {"update", "deactivate"}
    BY <1>1, <2>1 DEF EffectFits, OwnerFits
  <2> QED
    BY <2>1, <2>2, <2>3, <2>4, <2>5 DEF EffectFits, KeepsRows, Goal
\* A transaction that revokes has deactivated its account.
<1>19. ASSUME pc[r] \in {"revoke.snapshot", "revoke.delete"},
              req[r].op \in {"update", "deactivate"}, tx'[r].users = tx[r].users,
              tx'[r].adds = tx[r].adds, tx'[r].fate = "open", req' = req,
              pc'[r] \in {"revoke.delete", "commit"}
       PROVE  Goal
  <2>1. tx[r].users # {} /\ tx[r].adds = {} /\ req[r].op # Null
    BY <1>1, <1>19 DEF EffectFits, LockFits
  <2>2. ASSUME NEW w \in tx'[r].users PROVE WriteFits(r, w)' /\ HoldsUser(r, w.id)
    BY <1>1, <1>2, <1>3, <1>19, <2>2 DEF EffectFits, WriteFits, HoldsUser
  <2> QED
    BY <1>19, <2>1, <2>2 DEF EffectFits, KeepsRows, Goal
<1>0. \A statement \in {"register.get_by_email", "login.get_by_email",
                        "refresh.get_by_user_and_hash", "logout.delete_by_hash",
                        "verify.get_by_id", "register.add", "register.update",
                        "refresh.get_by_id", "create.get_by_email", "create.add",
                        "create.update", "update.get_by_id", "deactivate.get_by_id"} :
        statement \in Statement \ Charged
  BY DEF Charged, UsesAccount, Statement
<1>20. CASE Call(r)
  <2>1. \A op \in Op : FirstStatement[op] \in Statement \ Charged
    BY <1>0 DEF FirstStatement, Op
  <2> QED
    BY <1>7, <1>8, <1>20, <2>1, CallAsks DEF Asks
<1>21. CASE AuthStep(r)
  <2>1. CASE RegisterLookup(r)
    BY <1>0, <1>1, <1>9, <1>10, <2>1 DEF RegisterLookup, LookupNewEmail, LockFits
  <2>2. CASE RegisterAdd(r)
    <3> DEFINE row == NewAccount(r, "USER", TRUE)
    <3>1. row.id = r /\ row.role = "USER" /\ row.active
      BY DEF NewAccount
    <3>2. AddUser(r, "register.add", row, "register.update") /\ tx[r].users = {}
          /\ tx[r].dels = {} /\ req[r].op = "register"
      BY <1>1, <2>2, PartsType DEF RegisterAdd, AddUser, LockFits, Fits, StatementFits
    <3> HIDE DEF row
    <3> QED
      BY <1>15, <3>1, <3>2
  <2>3. CASE RegisterUpdate(r)
    <3>1. SetCreatedBy(r, "register.update", "issue.add") /\ tx[r].dels = {}
          /\ req[r].op = "register"
      BY <1>1, <2>3, PartsType DEF RegisterUpdate, SetCreatedBy, LockFits, Fits, StatementFits
    <3> QED
      BY <1>16, <3>1
  <2>4. CASE IssueTokenPair(r) \/ RefreshIssue(r)
    BY <1>18, <2>4 DEF IssueTokenPair, RefreshIssue
  <2>5. CASE LoginAuthenticate(r)
    <3>1. tx[r].users = {} /\ pc[r] = "login.get_by_email" /\ req[r].op = "login"
      BY <1>1, <2>5, PartsType DEF LoginAuthenticate, LockFits, Fits, StatementFits
    <3>2. \A u : OwnerFits(r, u.id)
      BY <3>1 DEF OwnerFits
    <3> QED
      BY <1>9, <1>11, <2>5, <3>1, <3>2 DEF LoginAuthenticate, Statement
  <2>6. CASE RefreshGetToken(r)
    BY <1>0, <1>1, <1>9, <1>10, <2>6 DEF RefreshGetToken, LockFits
  <2>7. CASE RefreshGetUser(r)
    <3>1. tx[r].users = {} /\ pc[r] = "refresh.get_by_id" /\ req[r].op = "refresh"
      BY <1>1, <2>7, PartsType DEF RefreshGetUser, LockFits, Fits, StatementFits
    <3>2. \A u \in GetById(r, Presented(r).sub) : OwnerFits(r, u.id)
      BY <3>1 DEF OwnerFits, GetById, Presented
    <3> QED
      BY <1>9, <1>11, <2>7, <3>1, <3>2 DEF RefreshGetUser, Statement
  <2>8. CASE RefreshDelete(r)
    <3>1. /\ tx[r].users = {} /\ tx[r].adds = {} /\ req[r].op # Null
          /\ OwnerFits(r, mem[r].user.id)
      BY <1>1, <2>8 DEF RefreshDelete, DeleteByHash, LockFits, EffectFits
    <3>2. /\ DeleteTokens(r, {Presented(r)}) /\ Wrote(r, "refresh.add") /\ mem' = mem
      BY <2>8 DEF RefreshDelete, DeleteByHash
    <3> QED
      BY <1>6, <1>12, <3>1, <3>2 DEF Statement
  <2>9. CASE LogoutDelete(r)
    <3>1. tx[r].users = {} /\ tx[r].adds = {} /\ req[r].op = "logout" /\ req[r].op # Null
      BY <1>1, <2>9, PartsType DEF LogoutDelete, DeleteByHash, LockFits, EffectFits, Fits,
                                   StatementFits
    <3>2. /\ DeleteTokens(r, {Presented(r)}) /\ Wrote(r, "commit") /\ mem' = mem
      BY <2>9 DEF LogoutDelete, DeleteByHash
    <3> QED
      BY <1>6, <1>12, <3>1, <3>2 DEF Statement, UsesAccount
  <2>10. CASE VerifyAccessToken(r)
    <3>1. ASSUME UNCHANGED <<tx, req, mem>>, Goto(r, ServiceEntry[req[r].op]) PROVE Goal
      <4>1. /\ req[r].op \in {"create", "update", "deactivate"}
            /\ tx[r].users = {} /\ tx[r].adds = {} /\ req[r].op # Null
        BY <1>1, <2>10, PartsType DEF VerifyAccessToken, Fits, StatementFits, LockFits, EffectFits
      <4>2. pc'[r] \in {"create.get_by_email", "update.get_by_id", "deactivate.get_by_id"}
        BY <3>1, <4>1 DEF Goto, ServiceEntry, TypeInv, TypeOK, RequestsTypeOK
      <4> QED
        BY <1>0, <1>4, <1>5, <3>1, <4>1, <4>2
    <3> QED
      BY <1>9, <2>10, <3>1 DEF VerifyAccessToken
  <2> QED
    BY <1>21, <2>1, <2>2, <2>3, <2>4, <2>5, <2>6, <2>7, <2>8, <2>9, <2>10 DEF AuthStep
<1>22. CASE UserStep(r)
  <2>1. CASE CreateLookup(r)
    BY <1>0, <1>1, <1>9, <1>10, <2>1 DEF CreateLookup, LookupNewEmail, LockFits
  <2>2. CASE CreateAdd(r)
    <3> DEFINE row == NewAccount(r, req[r].role, req[r].active)
    <3>1. row.id = r
      BY DEF NewAccount
    <3>2. AddUser(r, "create.add", row, "create.update") /\ tx[r].users = {}
          /\ tx[r].dels = {} /\ req[r].op = "create"
      BY <1>1, <2>2, PartsType DEF CreateAdd, AddUser, LockFits, Fits, StatementFits
    <3> HIDE DEF row
    <3> QED
      BY <1>15, <3>1, <3>2
  <2>3. CASE CreateUpdate(r)
    <3>1. SetCreatedBy(r, "create.update", "commit") /\ tx[r].dels = {}
          /\ req[r].op = "create"
      BY <1>1, <2>3, PartsType DEF CreateUpdate, SetCreatedBy, LockFits, Fits, StatementFits
    <3> QED
      BY <1>16, <3>1
  <2>4. CASE UpdateLoad(r) \/ DeactivateLoad(r)
    <3>1. tx[r].users = {} /\ pc[r] \in {"update.get_by_id", "deactivate.get_by_id"}
      BY <1>1, <2>4 DEF UpdateLoad, DeactivateLoad, LockFits
    <3>2. \A u \in GetById(r, req[r].target) : \E v \in users : v.id = req[r].target
      BY <3>1 DEF GetById, SeenUsers, Overlay
    <3>3. /\ "update.update" \in Statement \ UsesAccount
          /\ "deactivate.deactivate" \in Statement \ UsesAccount
      BY DEF Statement, UsesAccount
    <3> QED
      BY <1>9, <1>11, <2>4, <3>1, <3>2, <3>3 DEF UpdateLoad, DeactivateLoad
  <2>5. CASE UpdateWrite(r) \/ DeactivateWrite(r)
    <3>1. /\ tx[r].users = {}
          /\ pc[r] \in {"update.update", "deactivate.deactivate"}
          /\ req[r].op \in {"update", "deactivate"}
          /\ req[r].op = "update" <=> pc[r] = "update.update"
      BY <1>1, <2>5, PartsType DEF UpdateWrite, DeactivateWrite, LockFits, Fits, StatementFits
    <3>2. PICK u \in users : u.id = req[r].target
      BY <1>1, <3>1 DEF EffectFits
    <3>3. u \in UserRow /\ \A v \in users : v.id = u.id => v = u
      BY DEF AccountInv, TypeInv, TypeOK, StoreTypeOK
    <3>4. GetById(r, req[r].target) = {u}
      BY <3>1, <3>2, <3>3 DEF GetById, SeenUsers, Overlay
    <3>5. CASE UpdateWrite(r)
      <4> DEFINE row == UpdatedRow(r, u)
                 next == IF MustRevoke(r) THEN "revoke.snapshot" ELSE "commit"
      <4>1. row.id = u.id /\ (MustRevoke(r) => ~row.active)
        BY <3>3 DEF UpdatedRow, UserRow, MustRevoke
      <4>2. /\ WriteUsers(r, {row}) /\ Wrote(r, next)
            /\ \A q \in Others(r) : ~HoldsUser(q, req[r].target)
        BY <3>4, <3>5 DEF UpdateWrite
      <4>3. /\ next \in {"revoke.snapshot", "commit"}
            /\ next = "revoke.snapshot" => ~row.active
        BY <4>1
      <4>4. req[r].op # "deactivate"
        BY <3>1, <3>5 DEF UpdateWrite
      <4> HIDE DEF row, next
      <4> QED
        BY <1>17, <3>1, <3>2, <4>1, <4>2, <4>3, <4>4
    <3>6. CASE DeactivateWrite(r)
      <4> DEFINE row == [u EXCEPT !.active = FALSE]
      <4>1. row.id = u.id /\ ~row.active /\ row.role = u.role
        BY <3>3 DEF UserRow
      <4>2. /\ WriteUsers(r, {row}) /\ Wrote(r, "revoke.snapshot")
            /\ \A q \in Others(r) : ~HoldsUser(q, req[r].target)
        BY <3>4, <3>6 DEF DeactivateWrite
      <4> HIDE DEF row
      <4> QED
        BY <1>17, <3>1, <3>2, <3>3, <4>1, <4>2
    <3> QED
      BY <2>5, <3>5, <3>6
  <2>6. CASE RevokeSnapshot(r)
    <3>1. tx' = tx /\ req' = req /\ pc'[r] = "revoke.delete" /\ pc[r] = "revoke.snapshot"
      BY <2>6 DEF RevokeSnapshot, Read, Goto, TypeInv, TypeOK, RequestsTypeOK
    <3>2. req[r].op \in {"update", "deactivate"}
      BY <2>6, PartsType DEF RevokeSnapshot, Fits, StatementFits
    <3> QED
      BY <1>4, <1>19, <3>1, <3>2
  <2>7. CASE RevokeDelete(r)
    <3>1. /\ DeleteTokens(r, mem[r].victims) /\ Wrote(r, "commit") /\ pc[r] = "revoke.delete"
          /\ req[r].op \in {"update", "deactivate"}
      BY <2>7, PartsType DEF RevokeDelete, Fits, StatementFits
    <3> QED
      BY <1>12, <1>19, <3>1
  <2> QED
    BY <1>22, <2>1, <2>2, <2>3, <2>4, <2>5, <2>6, <2>7 DEF UserStep
<1>23. CASE Finish(r) \/ Fault(r)
  <2>1. ASSUME NEW status, NEW given, Commit(r), pc[r] = "commit", UNCHANGED <<req, actor>>,
               Answer(r, status, given)
        PROVE  FALSE
    BY <2>1 DEF Publishes, Answer, Goto, TypeInv, TypeOK, RequestsTypeOK
  <2> QED
    BY <1>9, <1>23, <2>1 DEF Finish, Fault, DatabaseError, AnswerLost, Running, Statement
<1> QED
  BY <1>20, <1>21, <1>22, <1>23 DEF Step

\* Every step keeps EffectInv.
LEMMA EffectNext ==
  TypeInv /\ LockOrder /\ SessionInv /\ AccountInv /\ EffectInv /\ [Next]_vars => EffectInv'
<1> SUFFICES ASSUME TypeInv, LockOrder, SessionInv, AccountInv, EffectInv, [Next]_vars
             PROVE  EffectInv'
  OBVIOUS
<1>1. ASSUME NEW r \in Req, Call(r) \/ Step(r) \/ Fault(r), ~Publishes(r) PROVE EffectInv'
  <2>1. users' = users /\ tokens' = tokens
    BY <1>1, OnlyCommitPublishes DEF Publishes
  <2>2. EffectFits(r)' /\ KeepsRows(r)
    BY <1>1, EffectStep
  <2>3. ASSUME NEW q \in Others(r) PROVE EffectFits(q)'
    <3>1. EffectFits(q) /\ q \in Req /\ r \in Others(q)
      BY DEF EffectInv, Others
    <3>2. /\ pc'[q] = pc[q] /\ req'[q] = req[q] /\ mem'[q] = mem[q]
          /\ \A p \in Others(r) : tx'[p] = tx[p]
      BY <1>1, OneRequest DEF MovesOnly
    <3>3. ASSUME NEW w \in tx[q].users PROVE WriteFits(q, w)'
      <4>1. WriteFits(q, w) /\ HoldsUser(q, w.id)
        BY <3>1, <3>3 DEF EffectFits, HoldsUser
      <4>2. ~HoldsUser(r, w.id)'
        <5>1. ASSUME NEW v \in tx'[r].users PROVE v.id # w.id
          BY <2>2, <3>1, <4>1, <5>1 DEF KeepsRows, WriteFits
        <5> QED
          BY <5>1 DEF HoldsUser
      <4>3. \A p \in Others(q) : ~HoldsUser(p, w.id)'
        BY <3>2, <4>1, <4>2 DEF WriteFits, HoldsUser, Others
      <4> QED
        BY <2>1, <3>2, <4>1, <4>3 DEF WriteFits
    <3>4. ASSUME NEW id, OwnerFits(q, id) PROVE OwnerFits(q, id)'
      BY <3>2, <3>4 DEF OwnerFits
    <3>5. mem'[q].user.id = mem[q].user.id
      BY <3>2
    <3> QED
      BY <2>1, <3>1, <3>2, <3>3, <3>4, <3>5 DEF EffectFits
  <2> QED
    BY <2>1, <2>2, <2>3 DEF EffectInv, Others
<1>2. ASSUME NEW r \in Req, Call(r) \/ Step(r) \/ Fault(r), Publishes(r) PROVE EffectInv'
  <2>1. /\ pc'[r] = "done" /\ pc[r] = "commit" /\ req'[r] = req[r]
        /\ tx'[r].users = {} /\ tx'[r].adds = {}
        /\ users' = SeenUsers(r) /\ tokens' = SeenTokens(r)
    BY <1>2 DEF Publishes, Commit, NoWrites, TypeInv, TypeOK, StoreTypeOK
  <2>2. EffectFits(r) /\ ~Committed(r)
    BY <2>1 DEF EffectInv, LockOrder, LockFits
  <2>3. EffectFits(r)'
    BY <2>1, <2>2 DEF EffectFits
  <2>4. ASSUME NEW q \in Others(r) PROVE EffectFits(q)'
    <3>1. EffectFits(q) /\ q \in Req /\ r \in Others(q)
      BY DEF EffectInv, Others
    <3>2. /\ pc'[q] = pc[q] /\ req'[q] = req[q] /\ mem'[q] = mem[q]
          /\ \A p \in Others(r) : tx'[p] = tx[p]
      BY <1>2, OneRequest DEF MovesOnly
    <3>3. ASSUME NEW w \in tx[q].users PROVE WriteFits(q, w)'
      <4>1. WriteFits(q, w)
        BY <3>1, <3>3 DEF EffectFits
      <4>2. \A p \in Others(q) : ~HoldsUser(p, w.id)'
        BY <2>1, <3>2, <4>1 DEF WriteFits, HoldsUser, Others
      <4>3. ASSUME NEW u PROVE (u \in users' /\ u.id = w.id) <=> (u \in users /\ u.id = w.id)
        BY <2>1, <3>1, <4>1 DEF SeenUsers, Overlay, WriteFits, HoldsUser
      <4> QED
        BY <3>2, <4>1, <4>2, <4>3 DEF WriteFits
    <3>4. ASSUME NEW id, OwnerFits(q, id) PROVE OwnerFits(q, id)'
      BY <3>2, <3>4 DEF OwnerFits
    <3>5. mem'[q].user.id = mem[q].user.id
      BY <3>2
    <3>6. ASSUME NEW id, \E u \in users : u.id = id PROVE \E u \in users' : u.id = id
      BY <1>2, <3>6, AccountsKept
    <3> QED
      BY <3>1, <3>2, <3>3, <3>4, <3>5, <3>6 DEF EffectFits
  <2>5. ASSUME NEW a \in tokens', NEW b \in tokens', a.hash.by = b.hash.by PROVE a = b
    <3>1. ASSUME NEW t \in tokens PROVE t.hash.by # r
      BY <2>2 DEF SessionInv, Committed
    <3>2. ASSUME NEW t \in tx[r].adds PROVE t.hash.by = r /\ \A s \in tx[r].adds : s = t
      BY <2>2 DEF SessionInv, SessionFits, EffectFits
    <3>3. a \in tokens \cup tx[r].adds /\ b \in tokens \cup tx[r].adds
      BY <2>1 DEF SeenTokens
    <3> QED
      BY <2>5, <3>1, <3>2, <3>3 DEF EffectInv
  <2> QED
    BY <2>3, <2>4, <2>5 DEF EffectInv, Others
<1>3. CASE Crash
  <2>1. UNCHANGED <<users, tokens, req>>
    BY <1>3 DEF Crash
  <2>2. ASSUME NEW q \in Req PROVE EffectFits(q)'
    <3>1. CASE Running(q)
      <4>1. pc'[q] = "done" /\ tx'[q].users = {} /\ tx'[q].adds = {}
            /\ pc[q] \notin {"idle", "done"}
        BY <1>3, <3>1 DEF Crash, NoWrites, Running, Statement, TypeInv, TypeOK, StoreTypeOK,
                          RequestsTypeOK
      <4> QED
        BY <2>1, <4>1 DEF EffectInv, EffectFits
    <3>2. CASE ~Running(q)
      <4>1. pc'[q] = pc[q] /\ tx'[q] = tx[q] /\ pc[q] \in {"idle", "done"}
        BY <1>3, <3>2 DEF Crash, Running, TypeInv, TypeOK, StoreTypeOK, RequestsTypeOK
      <4>2. tx[q].users = {} /\ tx[q].adds = {}
        BY <4>1 DEF LockOrder, LockFits
      <4> QED
        BY <2>1, <4>1, <4>2 DEF EffectInv, EffectFits
    <3> QED
      BY <3>1, <3>2
  <2> QED
    BY <2>1, <2>2 DEF EffectInv
<1>4. CASE Tick \/ UNCHANGED vars
  BY <1>4 DEF Tick, vars, EffectInv, EffectFits, WriteFits, OwnerFits, HoldsUser
<1> QED
  BY <1>1, <1>2, <1>3, <1>4 DEF Next

\* Every behaviour keeps EffectInv.
LEMMA EffectsFit == Spec => []EffectInv
<1>1. Init => EffectInv
  <2> SUFFICES ASSUME Init PROVE EffectInv
    OBVIOUS
  <2>1. ASSUME NEW a \in tokens, NEW b \in tokens, a.hash.by = b.hash.by PROVE a = b
    <3>1. \A s \in Seed : SeedRefresh(s).by = s
      BY DEF SeedRefresh, SeedToken
    <3>2. PICK s \in Seed : a = [hash |-> SeedRefresh(s), user |-> s, expires |-> RefreshTTL]
      BY DEF Init
    <3>3. PICK t \in Seed : b = [hash |-> SeedRefresh(t), user |-> t, expires |-> RefreshTTL]
      BY DEF Init
    <3>4. a.hash.by = s /\ b.hash.by = t
      BY <3>1, <3>2, <3>3
    <3> QED
      BY <2>1, <3>2, <3>3, <3>4
  <2>2. ASSUME NEW r \in Req PROVE EffectFits(r)
    <3>1. pc[r] = "idle" <=> req[r].op = Null
      <4>1. CASE r \in Seed
        BY <4>1, SeedsCommitted, NullAssumption DEF Init, Blank, Op
      <4>2. CASE r \notin Seed
        BY <4>2, SeedsCommitted DEF Init, Blank
      <4> QED
        BY <4>1, <4>2
    <3> QED
      BY <3>1, SeedsCommitted DEF EffectFits
  <2> QED
    BY <2>1, <2>2 DEF EffectInv
<1> QED
  BY <1>1, TypeCorrect, LocksInOrder, SessionsFit, AccountsFit, EffectNext, PTL DEF Spec

-----------------------------------------------------------------------------
(* The steps of Service.                                                   *)

\* The sessions that the transaction of r leaves.
KeptSessions(r) == {SessionOf(t) : t \in {s \in tokens : s.hash \notin tx[r].dels}}

\* A stored row is the only one of its session.
LEMMA SessionsDistinct ==
  ASSUME EffectInv, NEW s \in tokens, NEW t \in tokens, SessionOf(s) = SessionOf(t)
  PROVE  s = t
<1>1. s.hash.by = t.hash.by
  BY DEF SessionOf
<1> QED
  BY <1>1 DEF EffectInv

\* The mapping takes states to states of Service.
LEMMA MappedTypes ==
  ASSUME TypeInv
  PROVE  S!ServiceTypeOK
<1>1. Asked \in [Req -> Op \cup {Null}]
  BY PartsType DEF Asked, Input
<1>2. Accounts \subseteq S!Account
  BY DEF Accounts, AccountOf, S!Account, UserRow, User, TypeInv, TypeOK, StoreTypeOK
<1>3. Sessions \subseteq S!Session
  BY DEF Sessions, SessionOf, S!Session, TokenRow, Token, User, TypeInv, TypeOK, StoreTypeOK
<1>4. Over \subseteq Req
  BY DEF Over
<1> QED
  BY <1>1, <1>2, <1>3, <1>4 DEF S!ServiceTypeOK

\* A row belongs to a committed request and to an account.
LEMMA MappedSound ==
  ASSUME TypeInv, SessionInv, AccountInv, TokenInv, EffectInv
  PROVE  S!Sound
<1>1. ASSUME NEW a \in Accounts, NEW b \in Accounts, a.id = b.id \/ a.email = b.email
      PROVE  a = b
  <2>1. PICK u \in users : a = AccountOf(u)
    BY DEF Accounts
  <2>2. PICK v \in users : b = AccountOf(v)
    BY DEF Accounts
  <2>3. u.id = v.id \/ u.email = v.email
    BY <1>1, <2>1, <2>2 DEF AccountOf
  <2> QED
    BY <2>1, <2>2, <2>3 DEF AccountInv
<1>2. ASSUME NEW s \in Sessions, NEW t \in Sessions, s.by = t.by PROVE s = t
  BY <1>2 DEF Sessions, SessionOf, EffectInv
<1>3. ASSUME NEW s \in Sessions PROVE s.by \in Over /\ \E a \in Accounts : a.id = s.user
  <2>1. PICK row \in tokens : s = SessionOf(row)
    BY DEF Sessions
  <2>2. s.by = row.hash.by /\ s.user = row.user
    BY <2>1 DEF SessionOf
  <2>3. row.hash.by \in Over
    BY DEF SessionInv, Committed, Over, TokenRow, Token, TypeInv, TypeOK, StoreTypeOK
  <2>4. PICK u \in users : u.id = row.user
    BY DEF TokenInv, RowMatchesToken
  <2>5. AccountOf(u) \in Accounts /\ AccountOf(u).id = row.user
    BY <2>4 DEF Accounts, AccountOf
  <2> QED
    BY <2>2, <2>3, <2>5
<1>4. ASSUME NEW a \in Accounts PROVE a.id \in Over
  BY DEF Accounts, AccountOf, AccountInv, Committed, Over, UserRow, User, TypeInv, TypeOK,
         StoreTypeOK
<1> QED
  BY <1>1, <1>2, <1>3, <1>4 DEF S!Sound

\* What a step of request r does that does not publish: the call is made, the
\* transaction goes on, or it is rolled back.
Asking(r) == pc[r] = "idle" /\ req'[r].op \in Op /\ tx'[r].fate = tx[r].fate
Goes(r) == req' = req /\ tx'[r].fate = tx[r].fate
Ends(r) == req' = req /\ tx'[r].fate = "rolledback"
Quiet(r) == Asking(r) \/ Goes(r) \/ Ends(r)

LEMMA QuietWays ==
  ASSUME TypeInv, NEW r \in Req, Call(r) \/ Step(r) \/ Fault(r), ~Publishes(r)
  PROVE  Quiet(r)
<1>1. ASSUME NEW input, input.op \in Op, Asks(r, input) PROVE Quiet(r)
  BY <1>1 DEF Quiet, Asking, Asks, Begin, Refuse, TypeInv, TypeOK, RequestsTypeOK
<1>2. ASSUME NEW status, Raise(r, status) PROVE Quiet(r)
  BY <1>2 DEF Quiet, Ends, Raise, Rollback, NoWrites, TypeInv, TypeOK, StoreTypeOK
<1>3. ASSUME UNCHANGED <<req, tx>> PROVE Quiet(r)
  BY <1>3 DEF Quiet, Goes
<1>4. ASSUME NEW locals, NEW statement, Read(r, locals, statement) PROVE Quiet(r)
  BY <1>4 DEF Quiet, Goes, Read
<1>5. ASSUME NEW rows, NEW statement, WriteUsers(r, rows), Wrote(r, statement) PROVE Quiet(r)
  BY <1>5 DEF Quiet, Goes, WriteUsers, Wrote, Transaction, TypeInv, TypeOK, StoreTypeOK
<1>6. ASSUME NEW hashes, NEW statement, DeleteTokens(r, hashes), Wrote(r, statement)
      PROVE  Quiet(r)
  BY <1>6 DEF Quiet, Goes, DeleteTokens, Wrote, Transaction, TypeInv, TypeOK, StoreTypeOK
<1>7. ASSUME NEW row, NEW statement, InsertToken(r, row), Wrote(r, statement) PROVE Quiet(r)
  BY <1>7 DEF Quiet, Goes, InsertToken, Wrote, Transaction, TypeInv, TypeOK, StoreTypeOK
<1>8. ASSUME NEW status, NEW given, Commit(r), pc[r] = "commit", UNCHANGED <<req, actor>>,
             Answer(r, status, given)
      PROVE  FALSE
  BY <1>8 DEF Publishes, Answer, Goto, TypeInv, TypeOK, RequestsTypeOK
<1>9. CASE Call(r)
  BY <1>1, <1>9, CallAsks
<1>10. CASE AuthStep(r)
  BY <1>2, <1>3, <1>4, <1>5, <1>6, <1>7, <1>10
     DEF AuthStep, RegisterLookup, RegisterAdd, RegisterUpdate, LookupNewEmail, AddUser,
         SetCreatedBy, IssueTokenPair, RefreshIssue, MintPair, LoginAuthenticate,
         RefreshGetToken, RefreshGetUser, RefreshDelete, LogoutDelete, DeleteByHash,
         VerifyAccessToken
<1>11. CASE UserStep(r)
  BY <1>2, <1>4, <1>5, <1>6, <1>11
     DEF UserStep, CreateLookup, CreateAdd, CreateUpdate, LookupNewEmail, AddUser,
         SetCreatedBy, UpdateLoad, UpdateWrite, DeactivateLoad, DeactivateWrite,
         RevokeSnapshot, RevokeDelete
<1>12. CASE Finish(r) \/ Fault(r)
  BY <1>2, <1>8, <1>12 DEF Finish, Fault, DatabaseError, AnswerLost
<1> QED
  BY <1>9, <1>10, <1>11, <1>12 DEF Step

\* Only the COMMIT of a request makes it committed.
LEMMA OnlyCommitCommits ==
  ASSUME TypeInv, LockOrder, NEW r \in Req, Call(r) \/ Step(r) \/ Fault(r), NEW q \in Req,
         Committed(q)'
  PROVE  /\ req'[q] = req[q]
         /\ q # r => Committed(q)
         /\ q = r => Publishes(r)
<1>1. CASE q # r
  BY <1>1, OneRequest DEF MovesOnly, Others, Committed
<1>2. CASE q = r
  <2>1. ~Committed(r)
    BY OneRequest DEF MovesOnly, LockOrder, LockFits
  <2>2. Publishes(r)
    BY <1>2, <2>1, QuietWays DEF Quiet, Asking, Goes, Ends, Committed
  <2> QED
    BY <1>2, <2>2 DEF Publishes
<1> QED
  BY <1>1, <1>2

\* A request that runs has begun, and says the same as before.
LEMMA RunningSteps ==
  ASSUME TypeInv, NEW r \in Req, Step(r) \/ Fault(r)
  PROVE  pc[r] # "idle" /\ req' = req
<1>1. CASE AuthStep(r)
  BY <1>1 DEF AuthStep, RegisterLookup, RegisterAdd, RegisterUpdate, LookupNewEmail, AddUser,
              SetCreatedBy, IssueTokenPair, RefreshIssue, MintPair, LoginAuthenticate,
              RefreshGetToken, RefreshGetUser, RefreshDelete, LogoutDelete, DeleteByHash,
              VerifyAccessToken, Read, Wrote, Raise
<1>2. CASE UserStep(r)
  BY <1>2 DEF UserStep, CreateLookup, CreateAdd, CreateUpdate, LookupNewEmail, AddUser,
              SetCreatedBy, UpdateLoad, UpdateWrite, DeactivateLoad, DeactivateWrite,
              RevokeSnapshot, RevokeDelete, Read, Wrote, Raise
<1>3. CASE Finish(r) \/ Fault(r)
  BY <1>3 DEF Finish, Fault, DatabaseError, AnswerLost, Running, Statement, Raise
<1> QED
  BY <1>1, <1>2, <1>3 DEF Step

\* A request is told that it has succeeded after its COMMIT.
LEMMA OkIsCommitted ==
  ASSUME TypeInv, LockOrder, NEW r \in Req, resp[r].status = "ok" => Committed(r),
         Call(r) \/ Step(r) \/ Fault(r), resp'[r].status = "ok"
  PROVE  Committed(r)'
<1>1. ~Committed(r)
  BY OneRequest DEF MovesOnly, LockOrder, LockFits
<1>2. ASSUME resp' = resp PROVE FALSE
  BY <1>1, <1>2
<1>3. ASSUME NEW status, NEW given, Answer(r, status, given) PROVE status = "ok"
  BY <1>3 DEF Answer, TypeInv, TypeOK, RequestsTypeOK
<1>4. CASE Call(r)
  BY <1>2, <1>3, <1>4
     DEF Call, PostRegister, PostLogin, PostRefresh, PostLogout, BeginAuthenticated,
         PostUsers, PutUser, DeleteUser, Begin, Refuse
<1>5. CASE AuthStep(r)
  BY <1>2, <1>3, <1>5
     DEF AuthStep, RegisterLookup, RegisterAdd, RegisterUpdate, LookupNewEmail, AddUser,
         SetCreatedBy, IssueTokenPair, RefreshIssue, MintPair, LoginAuthenticate,
         RefreshGetToken, RefreshGetUser, RefreshDelete, LogoutDelete, DeleteByHash,
         VerifyAccessToken, Read, Wrote, Raise
<1>6. CASE UserStep(r)
  BY <1>2, <1>3, <1>6
     DEF UserStep, CreateLookup, CreateAdd, CreateUpdate, LookupNewEmail, AddUser,
         SetCreatedBy, UpdateLoad, UpdateWrite, DeactivateLoad, DeactivateWrite,
         RevokeSnapshot, RevokeDelete, Read, Wrote, Raise
<1>7. CASE Finish(r)
  BY <1>7 DEF Finish, Commit, NoWrites, Committed, TypeInv, TypeOK, StoreTypeOK
<1>8. CASE Fault(r)
  BY <1>3, <1>8 DEF Fault, DatabaseError, AnswerLost, Raise
<1> QED
  BY <1>4, <1>5, <1>6, <1>7, <1>8 DEF Step

\* Between its call and its commit a request shows nothing; a rollback ends it.
LEMMA QuietStep ==
  ASSUME TypeInv, EffectInv, NEW r \in Req, Call(r) \/ Step(r) \/ Fault(r),
         ~Publishes(r)
  PROVE  \/ S!Next
         \/ UNCHANGED <<Asked, Accounts, Sessions, Over>>
<1>1. UNCHANGED <<users, tokens>>
  BY OnlyCommitPublishes DEF Publishes
<1>2. /\ EffectFits(r) /\ pc[r] # "done"
      /\ \A q \in Others(r) : req'[q] = req[q] /\ tx'[q] = tx[q]
  BY OneRequest DEF EffectInv, MovesOnly
<1>3. tx[r].fate = "open"
  BY <1>2 DEF EffectFits
<1>4. UNCHANGED <<Accounts, Sessions>>
  BY <1>1 DEF Accounts, Sessions
<1>5. CASE Asking(r)
  <2>1. Asked[r] = Null /\ Asked' = [Asked EXCEPT ![r] = req'[r].op]
    BY <1>2, <1>5 DEF Asking, Asked, EffectFits, Others
  <2>2. Over' = Over
    BY <1>2, <1>5 DEF Asking, Over, Others
  <2>3. S!Ask(r)
    BY <1>4, <1>5, <2>1, <2>2 DEF Asking, S!Ask
  <2> QED
    BY <2>3 DEF S!Next
<1>6. CASE Goes(r)
  BY <1>2, <1>4, <1>6 DEF Goes, Asked, Over, Others
<1>7. CASE Ends(r)
  <2>1. Asked' = Asked /\ Over' = Over \cup {r} /\ {r} \in (SUBSET (Req \ Over)) \ {{}}
    BY <1>2, <1>3, <1>7 DEF Ends, Asked, Over, Others
  <2>2. S!Abandon
    BY <1>4, <2>1 DEF S!Abandon
  <2> QED
    BY <2>2 DEF S!Next
<1> QED
  BY <1>5, <1>6, <1>7, QuietWays DEF Quiet

\* A crash ends every request that runs.
LEMMA CrashAbandons ==
  ASSUME TypeInv, EffectInv, Crash
  PROVE  S!Abandon
<1> DEFINE R == {r \in Req : Running(r)}
<1>1. \A r \in R : tx[r].fate = "open" /\ tx'[r].fate = "rolledback"
  BY DEF Crash, NoWrites, Running, Statement, EffectInv, EffectFits
<1>2. \A r \in Req \ R : tx'[r] = tx[r]
  BY DEF Crash
<1>3. R \in (SUBSET (Req \ Over)) \ {{}} /\ Over' = Over \cup R
  BY <1>1, <1>2 DEF Crash, Over
<1>4. UNCHANGED <<Asked, Accounts, Sessions>>
  BY DEF Crash, Asked, Accounts, Sessions
<1> HIDE DEF R
<1> QED
  BY <1>3, <1>4 DEF S!Abandon

\* All that is known of a request when it commits.
CommitInv == /\ TypeInv /\ LockOrder /\ SessionInv /\ AccountInv
             /\ TokenInv /\ KeepInv /\ EffectInv

\* The COMMIT of r is what makes it act, and makes its writes visible.
LEMMA CommitActs ==
  ASSUME CommitInv, NEW r \in Req, Publishes(r), MovesOnly(r)
  PROVE  /\ S!Acts(r, req[r].op) /\ req[r].op \in Op
         /\ users' = SeenUsers(r)
         /\ Sessions' = KeptSessions(r) \cup {SessionOf(row) : row \in tx[r].adds}
         /\ ~Committed(r)
<1>1. pc[r] = "commit" /\ req' = req /\ Commit(r)
  BY DEF Publishes
<1>2. tx[r].fate = "open" /\ req[r].op \in Op
  BY <1>1, PartsType DEF CommitInv, EffectInv, EffectFits, Input
<1>3. tx'[r].fate = "committed" /\ \A q \in Others(r) : tx'[q] = tx[q]
  BY <1>1 DEF Commit, NoWrites, MovesOnly, CommitInv, TypeInv, TypeOK, StoreTypeOK
<1>4. r \notin Over /\ Over' = Over \cup {r}
  BY <1>2, <1>3 DEF Over, Others
<1>5. Asked[r] = req[r].op /\ Asked' = Asked
  BY <1>1 DEF Asked
<1>6. users' = SeenUsers(r) /\ tokens' = SeenTokens(r)
  BY <1>1 DEF Commit
<1>7. Sessions' = KeptSessions(r) \cup {SessionOf(row) : row \in tx[r].adds}
  BY <1>6 DEF Sessions, KeptSessions, SeenTokens
<1> QED
  BY <1>2, <1>4, <1>5, <1>6, <1>7 DEF S!Acts, Committed

\* No session is that of a request which has not committed.
LEMMA SessionsOfOthers ==
  ASSUME CommitInv, NEW r \in Req, ~Committed(r), NEW id
  PROVE  [by |-> r, user |-> id] \notin Sessions
BY DEF CommitInv, SessionInv, Committed, Sessions, SessionOf

\* Only a refresh, a logout or a deactivation deletes.
LEMMA NothingEnds ==
  ASSUME CommitInv, NEW r \in Req, req[r].op \in {"register", "create", "login"}
  PROVE  KeptSessions(r) = Sessions
<1>1. tx[r].dels = {}
  BY DEF CommitInv, KeepInv, DeletionFits, MayEnd
<1> QED
  BY <1>1 DEF KeptSessions, Sessions

\* A refresh or a logout ends the session whose token it presented, if that is
\* still there.
LEMMA OneEnds ==
  ASSUME CommitInv, NEW r \in Req, req[r].op \in {"refresh", "logout"}
  PROVE  \/ KeptSessions(r) = Sessions
         \/ \E row \in tokens : row.hash = req[r].token
                               /\ KeptSessions(r) = Sessions \ {SessionOf(row)}
<1>1. \A t \in tx[r].dels : t = req[r].token
  BY DEF CommitInv, KeepInv, DeletionFits, MayEnd
<1>2. CASE \A row \in tokens : row.hash \notin tx[r].dels
  BY <1>2 DEF KeptSessions, Sessions
<1>3. ASSUME NEW row \in tokens, row.hash \in tx[r].dels
      PROVE  row.hash = req[r].token /\ KeptSessions(r) = Sessions \ {SessionOf(row)}
  <2>1. row.hash = req[r].token
    BY <1>1, <1>3
  <2>2. \A t \in tokens : t.hash \in tx[r].dels => t = row
    BY <1>1, <1>3 DEF CommitInv, EffectInv
  <2>3. \A t \in tokens : SessionOf(t) = SessionOf(row) => t = row
    BY SessionsDistinct DEF CommitInv
  <2> QED
    BY <1>3, <2>1, <2>2, <2>3 DEF KeptSessions, Sessions
<1> QED
  BY <1>2, <1>3

\* The session that a request opens.
LEMMA OneOpens ==
  ASSUME CommitInv, NEW r \in Req, pc[r] = "commit",
         req[r].op \in {"register", "login", "refresh"}
  PROVE  \E id \in Req :
           /\ {SessionOf(row) : row \in tx[r].adds} = {[by |-> r, user |-> id]}
           /\ OwnerFits(r, id) /\ \E u \in SeenUsers(r) : u.id = id
<1>1. EffectFits(r) /\ TokenFits(r) /\ SessionFits(r)
  BY DEF CommitInv, EffectInv, TokenInv, SessionInv
<1>2. PICK row \in tx[r].adds : \A other \in tx[r].adds : other = row
  BY <1>1 DEF EffectFits
<1>3. row.hash.by = r /\ OwnerFits(r, row.user) /\ \E u \in SeenUsers(r) : u.id = row.user
  BY <1>1 DEF SessionFits, EffectFits, TokenFits, RowFits
<1>4. row.user \in Req
  BY DEF CommitInv, Transaction, TokenRow, User, TypeInv, TypeOK, StoreTypeOK
<1>5. {SessionOf(x) : x \in tx[r].adds} = {[by |-> r, user |-> row.user]}
  BY <1>2, <1>3 DEF SessionOf
<1> QED
  BY <1>3, <1>4, <1>5

\* Nobody else opens one.
LEMMA NothingOpens ==
  ASSUME CommitInv, NEW r \in Req, req[r].op \notin {"register", "login", "refresh"}
  PROVE  {SessionOf(row) : row \in tx[r].adds} = {}
BY DEF CommitInv, EffectInv, EffectFits, OwnerFits

\* A request for no account leaves the accounts alone.
LEMMA AccountsStay ==
  ASSUME CommitInv, NEW r \in Req, users' = SeenUsers(r),
         req[r].op \in {"login", "refresh", "logout"}
  PROVE  users' = users /\ Accounts' = Accounts
<1>1. tx[r].users = {}
  BY DEF CommitInv, EffectInv, EffectFits, WriteFits
<1>2. users' = users
  BY <1>1 DEF SeenUsers, Overlay
<1> QED
  BY <1>2 DEF Accounts

\* A request that makes an account makes one, under a free address.
LEMMA AccountMade ==
  ASSUME CommitInv, NEW r \in Req, pc[r] = "commit", users' = SeenUsers(r), ~Committed(r),
         req[r].op \in {"register", "create"}
  PROVE  \E role \in Role, active \in BOOLEAN :
           /\ S!NewAccount(r, role, active)
           /\ req[r].op = "register" => role = "USER" /\ active
<1>1. AccountFits(r) /\ EffectFits(r)
  BY DEF CommitInv, AccountInv, EffectInv
<1>2. PICK w \in tx[r].users : w.id = r
  BY <1>1 DEF AccountFits, MakesAccount
<1>3. tx[r].users = {w} /\ w \in UserRow /\ WriteFits(r, w)
  BY <1>1 DEF AccountFits, EffectFits, CommitInv, Transaction, TypeInv, TypeOK, StoreTypeOK
<1>4. \A u \in users : u.id # r
  BY DEF CommitInv, AccountInv
<1>5. \A u \in users : u.email # w.email
  BY <1>1, <1>2, <1>4 DEF AccountFits, Updates
<1>6. users' = users \cup {w}
  BY <1>2, <1>3, <1>4 DEF SeenUsers, Overlay
<1> DEFINE a == [id |-> r, email |-> w.email, role |-> w.role, active |-> w.active]
<1>7. Accounts' = Accounts \cup {a}
  BY <1>2, <1>6 DEF Accounts, AccountOf
<1>8. \A b \in Accounts : b.email # w.email
  BY <1>5 DEF Accounts, AccountOf
<1>9. w.email \in Email /\ w.role \in Role /\ w.active \in BOOLEAN
  BY <1>3 DEF UserRow
<1>10. S!NewAccount(r, w.role, w.active)
  BY <1>7, <1>8, <1>9 DEF S!NewAccount
<1>11. req[r].op = "register" => w.role = "USER" /\ w.active
  BY <1>3 DEF WriteFits
<1> QED
  BY <1>9, <1>10, <1>11

\* A request that changes an account changes one, and ends sessions of that one
\* only, if it is left inactive.
LEMMA AccountChanged ==
  ASSUME CommitInv, NEW r \in Req, pc[r] = "commit", users' = SeenUsers(r), ~Committed(r),
         Sessions' = KeptSessions(r), req[r].op \in {"update", "deactivate"}
  PROVE  \E a \in Accounts, role \in Role, active \in BOOLEAN :
           /\ S!Change(a, role, active)
           /\ req[r].op = "deactivate" => role = a.role /\ ~active
<1>1. AccountFits(r) /\ EffectFits(r)
  BY DEF CommitInv, AccountInv, EffectInv
<1>2. PICK w \in tx[r].users : TRUE
  BY <1>1 DEF EffectFits
<1>3. tx[r].users = {w} /\ w \in UserRow /\ WriteFits(r, w)
  BY <1>1 DEF AccountFits, EffectFits, CommitInv, Transaction, TypeInv, TypeOK, StoreTypeOK
<1>4. PICK u \in users : u.id = w.id
  BY <1>3 DEF WriteFits
<1>5. \A v \in users : v.id = u.id => v = u
  BY DEF CommitInv, AccountInv
<1>6. u.id # r
  BY DEF CommitInv, AccountInv
<1>7. u.email = w.email
  BY <1>1, <1>4, <1>5, <1>6 DEF AccountFits, Updates
<1>8. users' = (users \ {u}) \cup {w}
  BY <1>3, <1>4, <1>5 DEF SeenUsers, Overlay
<1>9. u \in UserRow
  BY DEF CommitInv, TypeInv, TypeOK, StoreTypeOK
<1> DEFINE a == AccountOf(u)
<1>10. /\ a \in Accounts /\ a.id = u.id /\ a.role = u.role
       /\ AccountOf(w) = [id |-> a.id, email |-> a.email, role |-> w.role, active |-> w.active]
  <2>1. a \in Accounts
    BY DEF Accounts
  <2>2. a.id = w.id /\ a.email = w.email /\ a.role = u.role
    BY <1>4, <1>7 DEF AccountOf
  <2> HIDE DEF a
  <2> QED
    BY <1>4, <2>1, <2>2 DEF AccountOf
<1>11. \A v \in users : AccountOf(v) = a => v = u
  BY <1>5 DEF AccountOf
<1>12. Accounts' = (Accounts \ {a}) \cup {AccountOf(w)}
  BY <1>8, <1>11 DEF Accounts
<1> HIDE DEF a
<1> DEFINE ended == {SessionOf(t) : t \in {s \in tokens : s.hash \in tx[r].dels}}
<1>13. \A s, t \in tokens : SessionOf(s) = SessionOf(t) => s = t
  BY SessionsDistinct DEF CommitInv
<1>14. Sessions' = Sessions \ ended
  BY <1>13 DEF KeptSessions, Sessions
<1>15. ASSUME NEW t \in tokens, t.hash \in tx[r].dels PROVE SessionOf(t).user = a.id
  <2>1. t.hash.sub = req[r].target
    BY <1>15 DEF CommitInv, KeepInv, DeletionFits, MayEnd
  <2> QED
    BY <1>3, <1>4, <1>10, <2>1 DEF SessionOf, WriteFits, CommitInv, TokenInv, RowMatchesToken
<1>16. ended \in SUBSET S!SessionsOf(a)
  BY <1>15 DEF S!SessionsOf, Sessions
<1>17. ended # {} => ~w.active
  BY <1>3 DEF WriteFits
<1> HIDE DEF ended
<1>18. S!Change(a, w.role, w.active)
  BY <1>10, <1>12, <1>14, <1>16, <1>17 DEF S!Change
<1>19. w.role \in Role /\ w.active \in BOOLEAN
  BY <1>3 DEF UserRow
<1>20. req[r].op = "deactivate" => w.role = a.role /\ ~w.active
  BY <1>3, <1>4, <1>10 DEF WriteFits
<1> QED
  BY <1>10, <1>18, <1>19, <1>20

\* The COMMIT of a request is the step of Service that it is for.
LEMMA CommitStep ==
  ASSUME CommitInv, NEW r \in Req, Publishes(r), MovesOnly(r)
  PROVE  S!Next
<1>1. /\ S!Acts(r, req[r].op) /\ req[r].op \in Op
      /\ users' = SeenUsers(r) /\ ~Committed(r) /\ pc[r] = "commit"
      /\ Sessions' = KeptSessions(r) \cup {SessionOf(row) : row \in tx[r].adds}
  BY CommitActs DEF Publishes
<1>2. \A id \in Req : [by |-> r, user |-> id] \in S!Session
  BY DEF S!Session
<1>3. CASE req[r].op = "register"
  <2>1. S!NewAccount(r, "USER", TRUE)
    <3>1. PICK role \in Role, active \in BOOLEAN :
            S!NewAccount(r, role, active) /\ role = "USER" /\ active
      BY <1>1, <1>3, AccountMade
    <3>2. active = TRUE
      BY <3>1
    <3> QED
      BY <3>1, <3>2
  <2>2. Sessions' = Sessions \cup {[by |-> r, user |-> r]}
    <3>1. {SessionOf(row) : row \in tx[r].adds} = {[by |-> r, user |-> r]}
      BY <1>1, <1>3, OneOpens DEF OwnerFits
    <3> QED
      BY <1>1, <1>3, <3>1, NothingEnds
  <2>3. S!Register(r)
    BY <1>1, <1>3, <2>1, <2>2 DEF S!Register
  <2> QED
    BY <2>3 DEF S!Next
<1>4. CASE req[r].op = "create"
  <2>1. PICK role \in Role, active \in BOOLEAN : S!NewAccount(r, role, active)
    BY <1>1, <1>4, AccountMade
  <2>2. Sessions' = Sessions
    BY <1>1, <1>4, NothingEnds, NothingOpens
  <2>3. S!Create(r)
    BY <1>1, <1>4, <2>1, <2>2 DEF S!Create
  <2> QED
    BY <2>3 DEF S!Next
<1>5. ASSUME req[r].op \in {"login", "refresh"}
      PROVE  \E a \in Accounts :
               /\ {SessionOf(row) : row \in tx[r].adds} = {[by |-> r, user |-> a.id]}
               /\ a.id \in Req /\ OwnerFits(r, a.id)
  <2>1. PICK id \in Req :
          /\ {SessionOf(row) : row \in tx[r].adds} = {[by |-> r, user |-> id]}
          /\ OwnerFits(r, id) /\ \E u \in SeenUsers(r) : u.id = id
    BY <1>1, <1>5, OneOpens
  <2>2. PICK u \in users : u.id = id
    BY <1>1, <1>5, <2>1, AccountsStay
  <2>3. AccountOf(u) \in Accounts /\ AccountOf(u).id = id
    BY <2>2 DEF Accounts, AccountOf
  <2> QED
    BY <2>1, <2>3
<1>6. CASE req[r].op = "login"
  <2>1. PICK a \in Accounts : Sessions' = Sessions \cup {[by |-> r, user |-> a.id]}
    BY <1>1, <1>5, <1>6, NothingEnds
  <2>2. S!Login(r)
    BY <1>1, <1>6, <2>1, AccountsStay DEF S!Login
  <2> QED
    BY <2>2 DEF S!Next
<1>7. CASE req[r].op = "refresh"
  <2>1. PICK a \in Accounts :
          /\ Sessions' = KeptSessions(r) \cup {[by |-> r, user |-> a.id]}
          /\ a.id \in Req /\ OwnerFits(r, a.id)
    BY <1>1, <1>5, <1>7
  <2> DEFINE new == [by |-> r, user |-> a.id]
  <2>2. \E old \in S!Session : old.user = a.id /\ Sessions' = (Sessions \ {old}) \cup {new}
    <3>1. CASE KeptSessions(r) = Sessions
      <4>1. new \in S!Session /\ new.user = a.id
        BY <1>2, <2>1
      <4> HIDE DEF new
      <4> QED
        BY <2>1, <3>1, <4>1 DEF new
    <3>2. ASSUME NEW row \in tokens, row.hash = req[r].token,
                 KeptSessions(r) = Sessions \ {SessionOf(row)}
          PROVE  \E old \in S!Session : old.user = a.id
                                       /\ Sessions' = (Sessions \ {old}) \cup {new}
      <4>1. SessionOf(row) \in S!Session
        BY MappedTypes DEF Sessions, S!ServiceTypeOK, CommitInv
      <4>2. SessionOf(row).user = a.id
        BY <1>7, <2>1, <3>2 DEF SessionOf, OwnerFits, CommitInv, TokenInv, RowMatchesToken
      <4> QED
        BY <2>1, <3>2, <4>1, <4>2
    <3> QED
      BY <1>7, <3>1, <3>2, OneEnds
  <2>3. S!Refresh(r)
    BY <1>1, <1>7, <2>2, AccountsStay DEF S!Refresh
  <2> QED
    BY <2>3 DEF S!Next
<1>8. CASE req[r].op = "logout"
  <2>1. Sessions' = KeptSessions(r)
    BY <1>1, <1>8, NothingOpens
  <2>2. \E s \in S!Session : Sessions' = Sessions \ {s}
    <3>1. CASE KeptSessions(r) = Sessions
      <4> DEFINE none == [by |-> r, user |-> r]
      <4>1. none \in S!Session /\ none \notin Sessions
        BY <1>1, <1>2, SessionsOfOthers
      <4> HIDE DEF none
      <4> QED
        BY <2>1, <3>1, <4>1
    <3>2. ASSUME NEW row \in tokens, KeptSessions(r) = Sessions \ {SessionOf(row)}
          PROVE  \E s \in S!Session : Sessions' = Sessions \ {s}
      <4>1. SessionOf(row) \in S!Session
        BY MappedTypes DEF Sessions, S!ServiceTypeOK, CommitInv
      <4> QED
        BY <2>1, <3>2, <4>1
    <3> QED
      BY <1>8, <3>1, <3>2, OneEnds
  <2>3. S!Logout(r)
    BY <1>1, <1>8, <2>2, AccountsStay DEF S!Logout
  <2> QED
    BY <2>3 DEF S!Next
<1>9. CASE req[r].op \in {"update", "deactivate"}
  <2>1. Sessions' = KeptSessions(r)
    BY <1>1, <1>9, NothingOpens
  <2>2. PICK a \in Accounts, role \in Role, active \in BOOLEAN :
          /\ S!Change(a, role, active)
          /\ req[r].op = "deactivate" => role = a.role /\ active = FALSE
    BY <1>1, <1>9, <2>1, AccountChanged
  <2>3. S!Update(r) \/ S!Deactivate(r)
    BY <1>1, <1>9, <2>2 DEF S!Update, S!Deactivate
  <2> QED
    BY <2>3 DEF S!Next
<1> QED
  BY <1>1, <1>3, <1>4, <1>6, <1>7, <1>8, <1>9 DEF Op

\* A step of the application is a step of Service or shows nothing.
LEMMA StepRefines ==
  CommitInv /\ [Next]_vars => [S!Next]_<<Asked, Accounts, Sessions, Over>>
<1> SUFFICES ASSUME CommitInv, [Next]_vars
             PROVE  S!Next \/ UNCHANGED <<Asked, Accounts, Sessions, Over>>
  OBVIOUS
<1>1. ASSUME NEW r \in Req, Call(r) \/ Step(r) \/ Fault(r)
      PROVE  S!Next \/ UNCHANGED <<Asked, Accounts, Sessions, Over>>
  BY <1>1, QuietStep, CommitStep, OneRequest DEF CommitInv
<1>2. CASE Crash
  BY <1>2, CrashAbandons DEF S!Next, CommitInv
<1>3. CASE Tick \/ UNCHANGED vars
  BY <1>3 DEF Tick, vars, Asked, Accounts, Sessions, Over
<1> QED
  BY <1>1, <1>2, <1>3 DEF Next

\* With any number of clients, whatever overlaps and fails, what the clients can
\* observe of accounts and sessions is what Service allows.
THEOREM ServiceIsImplemented == Spec => ImplementsService
<1>1. TypeInv /\ SessionInv /\ AccountInv /\ TokenInv /\ EffectInv => S!Init
  BY MappedTypes, MappedSound DEF S!Init
<1>2. Spec => [](CommitInv)
  BY TypeCorrect, LocksInOrder, SessionsFit, AccountsFit, TokensFit, DeletionsFit, EffectsFit,
     PTL DEF CommitInv
<1>3. CommitInv => S!Init
  BY <1>1 DEF CommitInv
<1> QED
  BY <1>2, <1>3, StepRefines, PTL DEF Spec, ImplementsService, S!Spec
=============================================================================
