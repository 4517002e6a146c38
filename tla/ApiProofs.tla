------------------------------ MODULE ApiProofs ------------------------------
(***************************************************************************)
(* Theorems about the running application, for every number of requests,   *)
(* addresses and seed accounts.                                            *)
(***************************************************************************)
EXTENDS ApiInvariant, TLAPS

-----------------------------------------------------------------------------
(* The operators of Store.                                                 *)

\* What a transaction sees of the users table is made of user rows.
LEMMA SeenUsersType ==
  ASSUME StoreTypeOK, NEW r \in Req
  PROVE  SeenUsers(r) \in SUBSET UserRow
BY DEF StoreTypeOK, SeenUsers, Overlay, Transaction

\* What a transaction sees of the refresh_tokens table is made of token rows.
LEMMA SeenTokensType ==
  ASSUME StoreTypeOK, NEW r \in Req
  PROVE  SeenTokens(r) \in SUBSET TokenRow
BY DEF StoreTypeOK, SeenTokens, Transaction

\* Writing user rows keeps the store well typed.
LEMMA WriteUsersType ==
  ASSUME StoreTypeOK, NEW r \in Req, NEW rows \in SUBSET UserRow,
         WriteUsers(r, rows), UNCHANGED <<users, tokens>>
  PROVE  StoreTypeOK'
<1>1. Overlay(tx[r].users, rows) \in SUBSET UserRow
  BY DEF StoreTypeOK, Overlay, Transaction
<1>2. [tx[r] EXCEPT !.users = Overlay(tx[r].users, rows)] \in Transaction
  BY <1>1 DEF StoreTypeOK, Transaction
<1> QED
  BY <1>2 DEF StoreTypeOK, WriteUsers

\* So does storing a refresh token.
LEMMA InsertTokenType ==
  ASSUME StoreTypeOK, NEW r \in Req, NEW row \in TokenRow,
         InsertToken(r, row), UNCHANGED <<users, tokens>>
  PROVE  StoreTypeOK'
<1>1. [tx[r] EXCEPT !.adds = tx[r].adds \cup {row}] \in Transaction
  BY DEF StoreTypeOK, Transaction
<1> QED
  BY <1>1 DEF StoreTypeOK, InsertToken

\* So does deleting refresh tokens.
LEMMA DeleteTokensType ==
  ASSUME StoreTypeOK, NEW r \in Req, NEW hashes,
         DeleteTokens(r, hashes), UNCHANGED <<users, tokens>>
  PROVE  StoreTypeOK'
<1>1. {t.hash : t \in {s \in tokens : s.hash \in hashes}} \in SUBSET Token
  BY DEF StoreTypeOK, TokenRow
<1>2. [tx[r] EXCEPT !.dels = tx[r].dels \cup
         {t.hash : t \in {s \in tokens : s.hash \in hashes}}] \in Transaction
  BY <1>1 DEF StoreTypeOK, Transaction
<1> QED
  BY <1>2 DEF StoreTypeOK, DeleteTokens

\* A transaction without writes is one.
LEMMA NoWritesType ==
  ASSUME NEW fate \in Fate
  PROVE  NoWrites(fate) \in Transaction
BY DEF NoWrites, Transaction

\* COMMIT keeps the store well typed.
LEMMA CommitType ==
  ASSUME StoreTypeOK, NEW r \in Req, Commit(r)
  PROVE  StoreTypeOK'
<1>1. NoWrites("committed") \in Transaction
  BY NoWritesType DEF Fate
<1>2. users' \in SUBSET UserRow /\ tokens' \in SUBSET TokenRow
  BY SeenUsersType, SeenTokensType DEF Commit
<1> QED
  BY <1>1, <1>2 DEF StoreTypeOK, Commit

\* So does ROLLBACK.
LEMMA RollbackType ==
  ASSUME StoreTypeOK, NEW r \in Req, Rollback(r)
  PROVE  StoreTypeOK'
<1>1. NoWrites("rolledback") \in Transaction
  BY NoWritesType DEF Fate
<1> QED
  BY <1>1 DEF StoreTypeOK, Rollback

-----------------------------------------------------------------------------
(* One request moves; its new statement, input, actor, locals and response *)
(* fit together and the others keep theirs.                                *)

LEMMA OneMoves ==
  ASSUME TypeInv, NEW r \in Req,
         NEW statement \in Statement \cup {"done"}, NEW input \in Input,
         NEW who \in UserRow \cup {Null}, NEW locals \in Memory, NEW answer \in Response,
         pc' = [pc EXCEPT ![r] = statement],
         req' = [req EXCEPT ![r] = input],
         actor' = [actor EXCEPT ![r] = who],
         mem' = [mem EXCEPT ![r] = locals],
         resp' = [resp EXCEPT ![r] = answer],
         Fits(statement, input, who, locals),
         StoreTypeOK', now' \in Nat
  PROVE  TypeInv'
<1>1. RequestsTypeOK'
  BY DEF TypeInv, TypeOK, RequestsTypeOK
<1>2. ASSUME NEW q \in Req
      PROVE  Fits(pc'[q], req'[q], actor'[q], mem'[q])
  <2>1. CASE q = r
    BY <2>1 DEF TypeInv, TypeOK, RequestsTypeOK
  <2>2. CASE q # r
    BY <2>2 DEF TypeInv, TypeOK, RequestsTypeOK
  <2> QED
    BY <2>1, <2>2
<1> QED
  BY <1>1, <1>2 DEF TypeInv, TypeOK, Fits, InputFits, StatementFits, LocalsFit

-----------------------------------------------------------------------------
(* The operators of Requests.                                              *)

\* The parts of a request between its steps.
LEMMA PartsType ==
  ASSUME TypeInv, NEW r \in Req
  PROVE  /\ req[r] \in Input
         /\ actor[r] \in UserRow \cup {Null}
         /\ mem[r] \in Memory
         /\ resp[r] \in Response
         /\ mem[r].pair \in SUBSET Token
         /\ Fits(pc[r], req[r], actor[r], mem[r])
         /\ req = [req EXCEPT ![r] = req[r]]
         /\ actor = [actor EXCEPT ![r] = actor[r]]
         /\ mem = [mem EXCEPT ![r] = mem[r]]
         /\ resp = [resp EXCEPT ![r] = resp[r]]
BY DEF TypeInv, TypeOK, RequestsTypeOK, Memory

\* A handler that has ended needs nothing.
LEMMA DoneFits ==
  ASSUME NEW input, InputFits(input), NEW who
  PROVE  Fits("done", input, who, NoMemory)
BY DEF Fits, StatementFits, LocalsFit, UsesUser, UsesActor

\* An answer ends the request.
LEMMA AnswerType ==
  ASSUME TypeInv, NEW r \in Req, NEW status \in Status, NEW given \in SUBSET Token,
         NEW input \in Input, InputFits(input), req' = [req EXCEPT ![r] = input],
         Answer(r, status, given), UNCHANGED <<actor, now>>, StoreTypeOK'
  PROVE  TypeInv'
<1>1. [status |-> status, tokens |-> given] \in Response /\ NoMemory \in Memory
  BY DEF Response, NoMemory, Memory
<1>2. Fits("done", input, actor[r], NoMemory)
  BY DoneFits
<1>3. now' \in Nat /\ actor' = [actor EXCEPT ![r] = actor[r]] /\ actor[r] \in UserRow \cup {Null}
  BY PartsType DEF TypeInv, TypeOK
<1> QED
  BY <1>1, <1>2, <1>3, OneMoves DEF Answer, Goto

\* An exception ends the request.
LEMMA RaiseType ==
  ASSUME TypeInv, NEW r \in Req, NEW status \in Status, Raise(r, status)
  PROVE  TypeInv'
<1>1. StoreTypeOK'
  BY RollbackType DEF Raise, TypeInv, TypeOK
<1>2. req' = [req EXCEPT ![r] = req[r]] /\ req[r] \in Input /\ InputFits(req[r])
  BY PartsType DEF Raise, Fits
<1> QED
  BY <1>1, <1>2, AnswerType DEF Raise

\* A read moves the request on with new locals.
LEMMA ReadType ==
  ASSUME TypeInv, NEW r \in Req, NEW locals \in Memory, NEW statement \in Statement,
         Read(r, locals, statement), Fits(statement, req[r], actor[r], locals)
  PROVE  TypeInv'
<1>1. StoreTypeOK' /\ now' \in Nat
  BY DEF Read, TypeInv, TypeOK, StoreTypeOK
<1>2. /\ req' = [req EXCEPT ![r] = req[r]]
      /\ actor' = [actor EXCEPT ![r] = actor[r]]
      /\ resp' = [resp EXCEPT ![r] = resp[r]]
  BY PartsType DEF Read
<1>3. /\ req[r] \in Input /\ actor[r] \in UserRow \cup {Null} /\ resp[r] \in Response
      /\ statement \in Statement \cup {"done"}
  BY PartsType
<1>4. pc' = [pc EXCEPT ![r] = statement] /\ mem' = [mem EXCEPT ![r] = locals]
  BY DEF Read, Goto
<1> QED
  BY <1>1, <1>2, <1>3, <1>4, OneMoves

\* A write moves the request on.
LEMMA WroteType ==
  ASSUME TypeInv, NEW r \in Req, NEW locals \in Memory, NEW statement \in Statement,
         Wrote(r, statement), mem' = [mem EXCEPT ![r] = locals],
         Fits(statement, req[r], actor[r], locals), StoreTypeOK'
  PROVE  TypeInv'
<1>1. now' \in Nat
  BY DEF Wrote, TypeInv, TypeOK
<1>2. /\ req' = [req EXCEPT ![r] = req[r]]
      /\ actor' = [actor EXCEPT ![r] = actor[r]]
      /\ resp' = [resp EXCEPT ![r] = resp[r]]
  BY PartsType DEF Wrote
<1>3. /\ req[r] \in Input /\ actor[r] \in UserRow \cup {Null} /\ resp[r] \in Response
      /\ statement \in Statement \cup {"done"}
  BY PartsType
<1>4. pc' = [pc EXCEPT ![r] = statement]
  BY DEF Wrote, Goto
<1> QED
  BY <1>1, <1>2, <1>3, <1>4, OneMoves

\* A request arrives.
LEMMA BeginType ==
  ASSUME TypeInv, NEW r \in Req, NEW input \in Input, NEW statement \in Statement,
         Begin(r, input, statement), InputFits(input), StatementFits(statement, input.op),
         statement \notin UsesUser \cup UsesActor
  PROVE  TypeInv'
<1>1. StoreTypeOK' /\ now' \in Nat
  BY DEF Begin, TypeInv, TypeOK, StoreTypeOK
<1>2. /\ mem' = [mem EXCEPT ![r] = mem[r]]
      /\ actor' = [actor EXCEPT ![r] = actor[r]]
      /\ resp' = [resp EXCEPT ![r] = resp[r]]
  BY PartsType DEF Begin
<1>3. Fits(statement, input, actor[r], mem[r])
  BY DEF Fits, LocalsFit
<1>4. /\ mem[r] \in Memory /\ actor[r] \in UserRow \cup {Null} /\ resp[r] \in Response
      /\ statement \in Statement \cup {"done"}
  BY PartsType
<1>5. pc' = [pc EXCEPT ![r] = statement] /\ req' = [req EXCEPT ![r] = input]
  BY DEF Begin, Goto
<1> QED
  BY <1>1, <1>2, <1>3, <1>4, <1>5, OneMoves

\* A request is refused.
LEMMA RefuseType ==
  ASSUME TypeInv, NEW r \in Req, NEW input \in Input, Refuse(r, input), InputFits(input)
  PROVE  TypeInv'
<1>1. StoreTypeOK'
  BY DEF Refuse, TypeInv, TypeOK, StoreTypeOK
<1>2. "401" \in Status /\ {} \in SUBSET Token
  BY DEF Status, DomainError
<1> QED
  BY <1>1, <1>2, AnswerType DEF Refuse

-----------------------------------------------------------------------------
(* Account creation.                                                       *)

\* get_by_email before an INSERT.
LEMMA LookupNewEmailType ==
  ASSUME TypeInv, NEW r \in Req, NEW here, NEW next \in Statement,
         LookupNewEmail(r, here, next), Fits(next, req[r], actor[r], mem[r])
  PROVE  TypeInv'
<1>1. CASE Raise(r, "409")
  BY <1>1, RaiseType DEF Status, DomainError
<1>2. CASE Read(r, mem[r], next)
  BY <1>2, PartsType, ReadType
<1> QED
  BY <1>1, <1>2 DEF LookupNewEmail

\* INSERT of an account.
LEMMA AddUserType ==
  ASSUME TypeInv, NEW r \in Req, NEW here, NEW row \in UserRow, NEW next \in Statement,
         AddUser(r, here, row, next), Fits(next, req[r], actor[r], mem[r])
  PROVE  TypeInv'
<1>1. CASE Raise(r, "409")
  BY <1>1, RaiseType DEF Status, DomainError
<1>2. CASE WriteUsers(r, {row}) /\ mem' = mem /\ Wrote(r, next)
  <2>1. StoreTypeOK'
    BY <1>2, WriteUsersType DEF Wrote, TypeInv, TypeOK
  <2>2. mem' = [mem EXCEPT ![r] = mem[r]] /\ mem[r] \in Memory
    BY <1>2, PartsType
  <2> QED
    BY <1>2, <2>1, <2>2, WroteType
<1> QED
  BY <1>1, <1>2 DEF AddUser

\* UPDATE of the new account's created_by.
LEMMA SetCreatedByType ==
  ASSUME TypeInv, NEW r \in Req, NEW here, NEW next \in Statement,
         SetCreatedBy(r, here, next),
         next \in UsesActor => actor[r] \in UserRow,
         StatementFits(next, req[r].op)
  PROVE  TypeInv'
<1>1. PICK u \in GetById(r, r) :
        /\ WriteUsers(r, {[u EXCEPT !.createdBy = r]})
        /\ mem' = [mem EXCEPT ![r].user = [u EXCEPT !.createdBy = r]]
  BY DEF SetCreatedBy
<1>2. u \in UserRow
  BY SeenUsersType DEF GetById, TypeInv, TypeOK
<1> DEFINE row == [u EXCEPT !.createdBy = r]
           locals == [mem[r] EXCEPT !.user = row]
<1>3. row \in UserRow
  BY <1>2 DEF UserRow, User
<1>4. locals \in Memory /\ locals.user = row /\ mem' = [mem EXCEPT ![r] = locals]
  BY <1>1, <1>3, PartsType DEF Memory
<1>5. StoreTypeOK'
  BY <1>1, <1>3, WriteUsersType DEF SetCreatedBy, Wrote, TypeInv, TypeOK
<1>6. Fits(next, req[r], actor[r], locals)
  BY <1>3, <1>4, PartsType DEF Fits, LocalsFit
<1> HIDE DEF locals
<1> QED
  BY <1>4, <1>5, <1>6, WroteType DEF SetCreatedBy

-----------------------------------------------------------------------------
(* Sessions.                                                               *)

\* What JWTService mints is a token.
LEMMA CreateTokenType ==
  ASSUME now \in Nat, NEW r \in Req, NEW u \in User, NEW type \in TokenType, NEW ttl \in Nat
  PROVE  CreateToken(r, u, type, ttl) \in Token
<1>1. now % Second \in Int
  BY TimeAssumption
<1>2. WholeSeconds(now) + ttl \in Int
  BY <1>1 DEF WholeSeconds
<1> QED
  BY <1>2 DEF CreateToken, Token

\* _issue_token_pair.
LEMMA MintPairType ==
  ASSUME TypeInv, NEW r \in Req, NEW here \in {"issue.add", "refresh.add"}, MintPair(r, here)
  PROVE  TypeInv'
<1> DEFINE id == mem[r].user.id
           access == CreateAccessToken(r, id)
           refresh == CreateRefreshToken(r, id)
           row == [hash |-> refresh, user |-> id, expires |-> RowExpiry]
           locals == [mem[r] EXCEPT !.pair = {access, refresh}]
<1>1. mem[r] \in Memory /\ mem[r].user \in UserRow
  BY PartsType DEF MintPair, Fits, LocalsFit, UsesUser
<1>2. id \in User /\ now \in Nat
  BY <1>1 DEF UserRow, TypeInv, TypeOK
<1>3. access \in Token /\ refresh \in Token
  BY <1>2, CreateTokenType, TimeAssumption DEF CreateAccessToken, CreateRefreshToken, TokenType
<1>4. RowExpiry \in Nat
  BY <1>2, TimeAssumption DEF RowExpiry
<1>5. row \in TokenRow
  BY <1>2, <1>3, <1>4 DEF TokenRow
<1>6. locals \in Memory
  BY <1>1, <1>3 DEF Memory
<1>7. InsertToken(r, row) /\ mem' = [mem EXCEPT ![r] = locals] /\ Wrote(r, "commit")
  BY DEF MintPair, TypeInv, TypeOK, RequestsTypeOK
<1>8. StoreTypeOK'
  BY <1>5, <1>7, InsertTokenType DEF Wrote, TypeInv, TypeOK
<1>9. Fits("commit", req[r], actor[r], locals)
  BY PartsType DEF Fits, StatementFits, LocalsFit, UsesUser, UsesActor
<1> HIDE DEF locals
<1> QED
  BY <1>6, <1>7, <1>8, <1>9, WroteType DEF Statement

\* A read that keeps the account it found, for a statement that uses it.
LEMMA FoundUserType ==
  ASSUME TypeInv, NEW r \in Req, NEW u \in SeenUsers(r), NEW statement \in Statement,
         Read(r, [mem[r] EXCEPT !.user = u], statement),
         statement \in UsesActor => actor[r] \in UserRow,
         StatementFits(statement, req[r].op)
  PROVE  TypeInv'
<1> DEFINE locals == [mem[r] EXCEPT !.user = u]
<1>1. u \in UserRow
  BY SeenUsersType DEF TypeInv, TypeOK
<1>2. locals \in Memory /\ locals.user = u
  BY <1>1, PartsType DEF Memory
<1>3. Fits(statement, req[r], actor[r], locals)
  BY <1>1, <1>2, PartsType DEF Fits, LocalsFit
<1>4. Read(r, locals, statement)
  OBVIOUS
<1> HIDE DEF locals
<1> QED
  BY <1>2, <1>3, <1>4, ReadType

\* login_user up to the INSERT.
LEMMA LoginType ==
  ASSUME TypeInv, NEW r \in Req, LoginAuthenticate(r)
  PROVE  TypeInv'
<1>1. ASSUME NEW status \in {"401", "423"}, Raise(r, status)
      PROVE  TypeInv'
  BY <1>1, RaiseType DEF Status, DomainError
<1>2. ASSUME NEW u \in GetByEmail(r, req[r].email),
             Read(r, [mem[r] EXCEPT !.user = u], "issue.add")
      PROVE  TypeInv'
  <2>1. StatementFits("issue.add", req[r].op)
    BY PartsType DEF LoginAuthenticate, Fits, StatementFits
  <2> QED
    BY <1>2, <2>1, FoundUserType DEF GetByEmail, Statement, UsesActor
<1> QED
  BY <1>1, <1>2 DEF LoginAuthenticate

\* refresh_tokens up to the DELETE.
LEMMA RefreshReadsType ==
  ASSUME TypeInv, NEW r \in Req, RefreshGetToken(r) \/ RefreshGetUser(r)
  PROVE  TypeInv'
<1>1. CASE Raise(r, "401")
  BY <1>1, RaiseType DEF Status, DomainError
<1>2. CASE /\ pc[r] = "refresh.get_by_user_and_hash"
           /\ Read(r, mem[r], "refresh.get_by_id")
  <2>1. Fits("refresh.get_by_id", req[r], actor[r], mem[r])
    BY <1>2, PartsType DEF Fits, StatementFits, LocalsFit, UsesUser, UsesActor
  <2> QED
    BY <1>2, <2>1, PartsType, ReadType DEF Statement
<1>3. ASSUME NEW u \in GetById(r, Presented(r).sub),
             pc[r] = "refresh.get_by_id",
             Read(r, [mem[r] EXCEPT !.user = u], "refresh.delete_by_hash")
      PROVE  TypeInv'
  <2>1. StatementFits("refresh.delete_by_hash", req[r].op)
    BY <1>3, PartsType DEF Fits, StatementFits
  <2> QED
    BY <1>3, <2>1, FoundUserType DEF GetById, Statement, UsesActor
<1> QED
  BY <1>1, <1>2, <1>3 DEF RefreshGetToken, RefreshGetUser

\* A DELETE of refresh tokens.
LEMMA DeleteType ==
  ASSUME TypeInv, NEW r \in Req, NEW hashes, NEW next \in Statement,
         DeleteTokens(r, hashes), mem' = mem, Wrote(r, next),
         Fits(next, req[r], actor[r], mem[r])
  PROVE  TypeInv'
<1>1. StoreTypeOK'
  BY DeleteTokensType DEF Wrote, TypeInv, TypeOK
<1>2. mem' = [mem EXCEPT ![r] = mem[r]] /\ mem[r] \in Memory
  BY PartsType
<1> QED
  BY <1>1, <1>2, WroteType

\* DELETE by hash, of /refresh and of /logout.
LEMMA DeleteByHashType ==
  ASSUME TypeInv, NEW r \in Req, RefreshDelete(r) \/ LogoutDelete(r)
  PROVE  TypeInv'
<1>1. CASE RefreshDelete(r)
  <2>1. Fits("refresh.add", req[r], actor[r], mem[r])
    BY <1>1, PartsType DEF RefreshDelete, DeleteByHash, Fits, StatementFits, LocalsFit,
                           UsesUser, UsesActor
  <2> QED
    BY <1>1, <2>1, DeleteType DEF RefreshDelete, DeleteByHash, Statement
<1>2. CASE LogoutDelete(r)
  <2>1. Fits("commit", req[r], actor[r], mem[r])
    BY PartsType DEF Fits, StatementFits, LocalsFit, UsesUser, UsesActor
  <2> QED
    BY <1>2, <2>1, DeleteType DEF LogoutDelete, DeleteByHash, Statement
<1> QED
  BY <1>1, <1>2

\* verify_access_token and the role check.
LEMMA VerifyType ==
  ASSUME TypeInv, NEW r \in Req, VerifyAccessToken(r)
  PROVE  TypeInv'
<1>1. ASSUME NEW status \in {"401", "403"}, Raise(r, status)
      PROVE  TypeInv'
  BY <1>1, RaiseType DEF Status, DomainError
<1>2. ASSUME NEW u \in GetById(r, Presented(r).sub),
             actor' = [actor EXCEPT ![r] = u],
             Goto(r, ServiceEntry[req[r].op]),
             UNCHANGED <<now, users, tokens, tx, req, mem, resp>>
      PROVE  TypeInv'
  <2> DEFINE next == ServiceEntry[req[r].op]
  <2>1. req[r].op \in {"create", "update", "deactivate"}
    BY PartsType DEF VerifyAccessToken, Fits, StatementFits
  <2>2. /\ req[r].op = "create" => next = "create.get_by_email"
        /\ req[r].op = "update" => next = "update.get_by_id"
        /\ req[r].op = "deactivate" => next = "deactivate.get_by_id"
    BY DEF ServiceEntry
  <2>3. u \in UserRow
    BY SeenUsersType DEF GetById, TypeInv, TypeOK
  <2>4. Fits(next, req[r], u, mem[r])
    BY <2>1, <2>2, <2>3, PartsType DEF Fits, StatementFits, LocalsFit, UsesUser
  <2>5. /\ next \in Statement \cup {"done"}
        /\ pc' = [pc EXCEPT ![r] = next]
    BY <1>2, <2>1, <2>2 DEF Statement, Goto
  <2>6. /\ req' = [req EXCEPT ![r] = req[r]]
        /\ mem' = [mem EXCEPT ![r] = mem[r]]
        /\ resp' = [resp EXCEPT ![r] = resp[r]]
        /\ req[r] \in Input /\ mem[r] \in Memory /\ resp[r] \in Response
    BY <1>2, PartsType
  <2>7. StoreTypeOK' /\ now' \in Nat
    BY <1>2 DEF TypeInv, TypeOK, StoreTypeOK
  <2> HIDE DEF next
  <2> QED
    BY <1>2, <2>3, <2>4, <2>5, <2>6, <2>7, OneMoves
<1> QED
  BY <1>1, <1>2 DEF VerifyAccessToken

-----------------------------------------------------------------------------
(* The actions of register and of UserService.                             *)

\* register up to the token pair.
LEMMA RegisterType ==
  ASSUME TypeInv, NEW r \in Req,
         RegisterLookup(r) \/ RegisterAdd(r) \/ RegisterUpdate(r)
  PROVE  TypeInv'
<1>1. CASE RegisterLookup(r)
  <2>1. Fits("register.add", req[r], actor[r], mem[r])
    BY <1>1, PartsType DEF RegisterLookup, LookupNewEmail, Fits, StatementFits, LocalsFit,
                           UsesUser, UsesActor
  <2> QED
    BY <1>1, <2>1, LookupNewEmailType DEF RegisterLookup, Statement
<1>2. CASE RegisterAdd(r)
  <2>1. req[r].op = "register"
    BY <1>2, PartsType DEF RegisterAdd, AddUser, Fits, StatementFits
  <2>2. NewAccount(r, "USER", TRUE) \in UserRow
    BY <2>1, PartsType DEF NewAccount, UserRow, User, Role, Fits, InputFits
  <2>3. Fits("register.update", req[r], actor[r], mem[r])
    BY <2>1, PartsType DEF Fits, StatementFits, LocalsFit, UsesUser, UsesActor
  <2> QED
    BY <1>2, <2>2, <2>3, AddUserType DEF RegisterAdd, Statement
<1>3. CASE RegisterUpdate(r)
  <2>1. StatementFits("issue.add", req[r].op)
    BY <1>3, PartsType DEF RegisterUpdate, SetCreatedBy, Fits, StatementFits
  <2> QED
    BY <1>3, <2>1, SetCreatedByType DEF RegisterUpdate, Statement, UsesActor
<1> QED
  BY <1>1, <1>2, <1>3

\* create_user.
LEMMA CreateType ==
  ASSUME TypeInv, NEW r \in Req,
         CreateLookup(r) \/ CreateAdd(r) \/ CreateUpdate(r)
  PROVE  TypeInv'
<1>1. CASE CreateLookup(r)
  <2>1. Fits("create.add", req[r], actor[r], mem[r])
    BY <1>1, PartsType DEF CreateLookup, LookupNewEmail, Fits, StatementFits, LocalsFit,
                           UsesUser, UsesActor
  <2> QED
    BY <1>1, <2>1, LookupNewEmailType DEF CreateLookup, Statement
<1>2. CASE CreateAdd(r)
  <2>1. req[r].op = "create" /\ actor[r] \in UserRow
    BY <1>2, PartsType DEF CreateAdd, AddUser, Fits, StatementFits, LocalsFit, UsesActor
  <2>2. NewAccount(r, req[r].role, req[r].active) \in UserRow
    BY <2>1, PartsType DEF NewAccount, UserRow, User, Fits, InputFits
  <2>3. Fits("create.update", req[r], actor[r], mem[r])
    BY <2>1, PartsType DEF Fits, StatementFits, LocalsFit, UsesUser, UsesActor
  <2> QED
    BY <1>2, <2>2, <2>3, AddUserType DEF CreateAdd, Statement
<1>3. CASE CreateUpdate(r)
  BY <1>3, SetCreatedByType DEF CreateUpdate, Statement, StatementFits, UsesActor
<1> QED
  BY <1>1, <1>2, <1>3

\* The SELECT of update_user and of deactivate_by_id.
LEMMA LoadType ==
  ASSUME TypeInv, NEW r \in Req, UpdateLoad(r) \/ DeactivateLoad(r)
  PROVE  TypeInv'
<1>1. ASSUME NEW status \in {"403", "404"}, Raise(r, status)
      PROVE  TypeInv'
  BY <1>1, RaiseType DEF Status, DomainError
<1>2. ASSUME NEW u \in GetById(r, req[r].target), NEW here, NEW next \in Statement,
             pc[r] = here, Read(r, [mem[r] EXCEPT !.user = u], next),
             \/ here = "update.get_by_id" /\ next = "update.update"
             \/ here = "deactivate.get_by_id" /\ next = "deactivate.deactivate"
      PROVE  TypeInv'
  <2>1. actor[r] \in UserRow /\ StatementFits(next, req[r].op)
    BY <1>2, PartsType DEF Fits, StatementFits, LocalsFit, UsesActor
  <2> QED
    BY <1>2, <2>1, FoundUserType DEF GetById
<1> QED
  BY <1>1, <1>2 DEF UpdateLoad, DeactivateLoad, Statement

\* The UPDATE of update_user and of deactivate_by_id.
LEMMA WriteType ==
  ASSUME TypeInv, NEW r \in Req, UpdateWrite(r) \/ DeactivateWrite(r)
  PROVE  TypeInv'
<1>1. ASSUME NEW rows \in SUBSET UserRow, WriteUsers(r, rows), mem' = mem,
             NEW next \in {"revoke.snapshot", "commit"}, Wrote(r, next)
      PROVE  TypeInv'
  <2>1. StoreTypeOK'
    BY <1>1, WriteUsersType DEF Wrote, TypeInv, TypeOK
  <2>2. mem' = [mem EXCEPT ![r] = mem[r]] /\ mem[r] \in Memory
    BY <1>1, PartsType
  <2>3. Fits(next, req[r], actor[r], mem[r])
    BY PartsType DEF UpdateWrite, DeactivateWrite, Fits, StatementFits, LocalsFit,
                     UsesUser, UsesActor
  <2> QED
    BY <1>1, <2>1, <2>2, <2>3, WroteType DEF Statement
<1>2. GetById(r, req[r].target) \in SUBSET UserRow
  BY SeenUsersType DEF GetById, TypeInv, TypeOK
<1>3. CASE UpdateWrite(r)
  <2>1. req[r].op = "update" /\ mem[r].user \in UserRow
    BY <1>3, PartsType DEF UpdateWrite, Fits, StatementFits, LocalsFit, UsesUser
  <2>2. NewRole(r, mem[r].user) \in Role /\ NewActive(r, mem[r].user) \in BOOLEAN
    BY <2>1, PartsType, NullAssumption DEF NewRole, NewActive, Given, UserRow, Input
  <2>3. \A u \in UserRow : UpdatedRow(r, u) \in UserRow
    BY <2>2 DEF UpdatedRow, UserRow
  <2> DEFINE rows == {UpdatedRow(r, u) : u \in GetById(r, req[r].target)}
             next == IF MustRevoke(r) THEN "revoke.snapshot" ELSE "commit"
  <2>4. rows \in SUBSET UserRow
    BY <1>2, <2>3
  <2>5. WriteUsers(r, rows) /\ mem' = mem /\ Wrote(r, next)
    BY <1>3 DEF UpdateWrite
  <2>6. next \in {"revoke.snapshot", "commit"}
    OBVIOUS
  <2> HIDE DEF rows, next
  <2> QED
    BY <1>1, <2>4, <2>5, <2>6
<1>4. CASE DeactivateWrite(r)
  <2> DEFINE rows == {[u EXCEPT !.active = FALSE] : u \in GetById(r, req[r].target)}
  <2>1. rows \in SUBSET UserRow
    BY <1>2 DEF UserRow
  <2>2. WriteUsers(r, rows) /\ mem' = mem /\ Wrote(r, "revoke.snapshot")
    BY <1>4 DEF DeactivateWrite
  <2> HIDE DEF rows
  <2> QED
    BY <1>1, <2>1, <2>2
<1> QED
  BY <1>3, <1>4

\* delete_all_for_user.
LEMMA RevokeType ==
  ASSUME TypeInv, NEW r \in Req, RevokeSnapshot(r) \/ RevokeDelete(r)
  PROVE  TypeInv'
<1>1. CASE RevokeSnapshot(r)
  <2> DEFINE victims == {t.hash : t \in {s \in SeenTokens(r) : s.user = req[r].target}}
             locals == [mem[r] EXCEPT !.victims = victims]
  <2>1. victims \in SUBSET Token
    BY SeenTokensType DEF TypeInv, TypeOK, TokenRow
  <2>2. locals \in Memory
    BY <2>1, PartsType DEF Memory
  <2>3. Fits("revoke.delete", req[r], actor[r], locals)
    BY <1>1, PartsType DEF RevokeSnapshot, Fits, StatementFits, LocalsFit, UsesUser, UsesActor
  <2>4. Read(r, locals, "revoke.delete")
    BY <1>1 DEF RevokeSnapshot
  <2> HIDE DEF locals
  <2> QED
    BY <2>2, <2>3, <2>4, ReadType DEF Statement
<1>2. CASE RevokeDelete(r)
  <2>1. Fits("commit", req[r], actor[r], mem[r])
    BY PartsType DEF Fits, StatementFits, LocalsFit, UsesUser, UsesActor
  <2> QED
    BY <1>2, <2>1, DeleteType DEF RevokeDelete, Statement
<1> QED
  BY <1>1, <1>2

-----------------------------------------------------------------------------
(* The end of a request, and faults.                                       *)

\* COMMIT, acknowledged or not.
LEMMA CommittedType ==
  ASSUME TypeInv, NEW r \in Req, Finish(r) \/ AnswerLost(r)
  PROVE  TypeInv'
<1>1. ASSUME NEW status \in Status, NEW given \in SUBSET Token, Commit(r),
             Answer(r, status, given), UNCHANGED <<now, req, actor>>
      PROVE  TypeInv'
  <2>1. StoreTypeOK'
    BY <1>1, CommitType DEF TypeInv, TypeOK
  <2>2. req' = [req EXCEPT ![r] = req[r]] /\ req[r] \in Input /\ InputFits(req[r])
    BY <1>1, PartsType DEF Fits
  <2> QED
    BY <1>1, <2>1, <2>2, AnswerType
<1> QED
  BY <1>1, PartsType DEF Finish, AnswerLost, Status

\* The process dies.
LEMMA CrashType ==
  ASSUME TypeInv, Crash
  PROVE  TypeInv'
<1>1. StoreTypeOK' /\ now' \in Nat
  BY NoWritesType DEF Crash, TypeInv, TypeOK, StoreTypeOK, Fate
<1>2. NoMemory \in Memory /\ [status |-> "lost", tokens |-> {}] \in Response
  BY DEF NoMemory, Memory, Response, Status
<1>3. RequestsTypeOK'
  BY <1>2 DEF Crash, TypeInv, TypeOK, RequestsTypeOK
<1>4. ASSUME NEW q \in Req
      PROVE  Fits(pc'[q], req'[q], actor'[q], mem'[q])
  <2>1. CASE Running(q)
    BY <2>1, PartsType, DoneFits DEF Crash, Fits
  <2>2. CASE ~Running(q)
    BY <2>2, PartsType DEF Crash
  <2> QED
    BY <2>1, <2>2
<1> QED
  BY <1>1, <1>3, <1>4 DEF TypeInv, TypeOK, Fits, InputFits, StatementFits, LocalsFit

-----------------------------------------------------------------------------
(* The endpoints.                                                          *)

\* What clients can present and name.
LEMMA ClientType ==
  ASSUME TypeInv
  PROVE  /\ Presentable \in SUBSET (Token \cup {Null})
         /\ Target \in SUBSET (User \cup {Null})
         /\ Roles \in SUBSET (Role \cup {Null})
         /\ Actives \in SUBSET (BOOLEAN \cup {Null})
BY SeedAssumption
   DEF TypeInv, TypeOK, StoreTypeOK, RequestsTypeOK, Presentable, Delivered, Response,
       Target, UserRow

\* The requests that need no authentication.
LEMMA AnonymousCallType ==
  ASSUME TypeInv, NEW r \in Req,
         PostRegister(r) \/ PostLogin(r) \/ PostRefresh(r) \/ PostLogout(r)
  PROVE  TypeInv'
<1>1. ASSUME NEW input \in Input,
             NEW statement \in {"register.get_by_email", "login.get_by_email",
                                "refresh.get_by_user_and_hash", "logout.delete_by_hash"},
             InputFits(input), StatementFits(statement, input.op),
             Begin(r, input, statement)
      PROVE  TypeInv'
  <2>1. statement \in Statement
    BY DEF Statement
  <2>2. statement \notin UsesUser \cup UsesActor
    BY DEF UsesUser, UsesActor
  <2> QED
    BY <1>1, <2>1, <2>2, BeginType
<1>2. CASE PostRegister(r)
  <2>1. PICK e \in Email :
          Begin(r, [Blank EXCEPT !.op = "register", !.email = e], "register.get_by_email")
    BY <1>2 DEF PostRegister
  <2> DEFINE input == [Blank EXCEPT !.op = "register", !.email = e]
  <2>2. input \in Input /\ InputFits(input) /\ StatementFits("register.get_by_email", input.op)
    BY DEF Blank, Input, InputFits, StatementFits, Op
  <2> HIDE DEF input
  <2> QED
    BY <1>1, <2>1, <2>2 DEF input
<1>3. CASE PostLogin(r)
  <2>1. PICK e \in Email, ok \in BOOLEAN :
          Begin(r, [Blank EXCEPT !.op = "login", !.email = e, !.passwordOk = ok],
                "login.get_by_email")
    BY <1>3 DEF PostLogin
  <2> DEFINE input == [Blank EXCEPT !.op = "login", !.email = e, !.passwordOk = ok]
  <2>2. input \in Input /\ InputFits(input) /\ StatementFits("login.get_by_email", input.op)
    BY DEF Blank, Input, InputFits, StatementFits, Op
  <2> HIDE DEF input
  <2> QED
    BY <1>1, <2>1, <2>2 DEF input
<1>4. CASE PostRefresh(r)
  <2>1. PICK t \in Presentable :
          LET input == [Blank EXCEPT !.op = "refresh", !.token = t]
          IN  \/ Begin(r, input, "refresh.get_by_user_and_hash")
              \/ Refuse(r, input)
    BY <1>4 DEF PostRefresh
  <2> DEFINE input == [Blank EXCEPT !.op = "refresh", !.token = t]
  <2>2. /\ input \in Input /\ InputFits(input)
        /\ StatementFits("refresh.get_by_user_and_hash", input.op)
    BY ClientType DEF Blank, Input, InputFits, StatementFits, Op
  <2>3. Begin(r, input, "refresh.get_by_user_and_hash") \/ Refuse(r, input)
    BY <2>1
  <2> HIDE DEF input
  <2> QED
    BY <1>1, <2>2, <2>3, RefuseType
<1>5. CASE PostLogout(r)
  <2>1. PICK t \in Presentable :
          LET input == [Blank EXCEPT !.op = "logout", !.token = t]
          IN  Begin(r, input, "logout.delete_by_hash") \/ Refuse(r, input)
    BY <1>5 DEF PostLogout
  <2> DEFINE input == [Blank EXCEPT !.op = "logout", !.token = t]
  <2>2. /\ input \in Input /\ InputFits(input)
        /\ StatementFits("logout.delete_by_hash", input.op)
    BY ClientType DEF Blank, Input, InputFits, StatementFits, Op
  <2>3. Begin(r, input, "logout.delete_by_hash") \/ Refuse(r, input)
    BY <2>1
  <2> HIDE DEF input
  <2> QED
    BY <1>1, <2>2, <2>3, RefuseType
<1> QED
  BY <1>2, <1>3, <1>4, <1>5

\* The requests that carry an access token.
LEMMA AuthenticatedCallType ==
  ASSUME TypeInv, NEW r \in Req, PostUsers(r) \/ PutUser(r) \/ DeleteUser(r)
  PROVE  TypeInv'
<1>1. ASSUME NEW body \in Input, InputFits(body),
             body.op \in {"create", "update", "deactivate"},
             BeginAuthenticated(r, body)
      PROVE  TypeInv'
  <2>1. PICK t \in Presentable :
          \/ Begin(r, [body EXCEPT !.token = t], "verify.get_by_id")
          \/ Refuse(r, [body EXCEPT !.token = t])
    BY <1>1 DEF BeginAuthenticated
  <2> DEFINE input == [body EXCEPT !.token = t]
  <2>2. input \in Input /\ InputFits(input) /\ input.op = body.op
    BY <1>1, ClientType DEF Input, InputFits
  <2>3. StatementFits("verify.get_by_id", input.op)
    BY <1>1, <2>2 DEF StatementFits
  <2>4. "verify.get_by_id" \in Statement \ (UsesUser \cup UsesActor)
    BY DEF Statement, UsesUser, UsesActor
  <2>5. Begin(r, input, "verify.get_by_id") \/ Refuse(r, input)
    BY <2>1
  <2> HIDE DEF input
  <2> QED
    BY <2>2, <2>3, <2>4, <2>5, BeginType, RefuseType
<1>2. CASE PostUsers(r)
  <2>1. PICK e \in Email, role \in Roles \ {Null}, active \in Actives \ {Null} :
          BeginAuthenticated(r, [Blank EXCEPT !.op = "create", !.email = e,
                                              !.role = role, !.active = active])
    BY <1>2 DEF PostUsers
  <2> DEFINE body == [Blank EXCEPT !.op = "create", !.email = e,
                                   !.role = role, !.active = active]
  <2>2. role \in Role /\ active \in BOOLEAN
    BY ClientType
  <2>3. body \in Input /\ body.op = "create" /\ InputFits(body)
    BY <2>2 DEF Blank, Input, InputFits, Op
  <2> HIDE DEF body
  <2> QED
    BY <1>1, <2>1, <2>3 DEF body
<1>3. CASE PutUser(r)
  <2>1. PICK id \in Target, role \in Roles, active \in Actives :
          BeginAuthenticated(r, [Blank EXCEPT !.op = "update", !.target = id,
                                              !.role = role, !.active = active])
    BY <1>3 DEF PutUser
  <2> DEFINE body == [Blank EXCEPT !.op = "update", !.target = id,
                                   !.role = role, !.active = active]
  <2>2. body \in Input /\ body.op = "update" /\ InputFits(body)
    BY ClientType DEF Blank, Input, InputFits, Op
  <2> HIDE DEF body
  <2> QED
    BY <1>1, <2>1, <2>2 DEF body
<1>4. CASE DeleteUser(r)
  <2>1. PICK id \in Target :
          BeginAuthenticated(r, [Blank EXCEPT !.op = "deactivate", !.target = id])
    BY <1>4 DEF DeleteUser
  <2> DEFINE body == [Blank EXCEPT !.op = "deactivate", !.target = id]
  <2>2. body \in Input /\ body.op = "deactivate" /\ InputFits(body)
    BY ClientType DEF Blank, Input, InputFits, Op
  <2> HIDE DEF body
  <2> QED
    BY <1>1, <2>1, <2>2 DEF body
<1> QED
  BY <1>2, <1>3, <1>4

-----------------------------------------------------------------------------
(* Type correctness.                                                       *)

\* The state the application starts in fits.
LEMMA InitType == Init => TypeInv
<1> SUFFICES ASSUME Init PROVE TypeInv
  OBVIOUS
<1>1. \A s \in Seed : SeedRow(s) \in UserRow
  BY SeedAssumption DEF SeedRow, UserRow, User, Role
<1>2. \A s \in Seed :
        SeedRefresh(s) \in Token /\ SeedToken(s, "access", AccessTTL) \in Token
  BY SeedAssumption, TimeAssumption DEF SeedRefresh, SeedToken, Token, User, TokenType
<1>3. StoreTypeOK
  <2>1. users \in SUBSET UserRow
    BY <1>1 DEF Init
  <2>2. tokens \in SUBSET TokenRow
    <3>1. \A s \in Seed :
            [hash |-> SeedRefresh(s), user |-> s, expires |-> RefreshTTL] \in TokenRow
      BY <1>2, SeedAssumption, TimeAssumption DEF TokenRow, User
    <3> QED
      BY <3>1 DEF Init
  <2>3. tx \in [Req -> Transaction]
    BY NoWritesType DEF Init, Fate
  <2> QED
    BY <2>1, <2>2, <2>3 DEF StoreTypeOK
<1>4. RequestsTypeOK
  <2>1. Blank \in Input
    BY DEF Blank, Input
  <2>2. \A s \in Seed : [Blank EXCEPT !.op = "register", !.email = SeedEmail[s]] \in Input
    BY SeedAssumption DEF Blank, Input, Op
  <2>3. NoMemory \in Memory /\ NoResponse \in Response
    BY DEF NoMemory, Memory, NoResponse, Response, Status
  <2>4. \A s \in Seed :
          [status |-> "ok",
           tokens |-> {SeedToken(s, "access", AccessTTL), SeedRefresh(s)}] \in Response
    BY <1>2 DEF Response, Status
  <2> QED
    BY <2>1, <2>2, <2>3, <2>4 DEF Init, RequestsTypeOK
<1>5. ASSUME NEW r \in Req
      PROVE  Fits(pc[r], req[r], actor[r], mem[r])
  <2>1. InputFits(req[r])
    BY NullAssumption, SeedAssumption DEF Init, Blank, InputFits, Op
  <2>2. pc[r] \in {"idle", "done"}
    BY DEF Init
  <2> QED
    BY <2>1, <2>2 DEF Fits, StatementFits, LocalsFit, UsesUser, UsesActor
<1> QED
  BY <1>3, <1>4, <1>5 DEF TypeInv, TypeOK, Init

\* Every step keeps TypeInv.
LEMMA NextType == TypeInv /\ [Next]_vars => TypeInv'
<1> SUFFICES ASSUME TypeInv, [Next]_vars PROVE TypeInv'
  OBVIOUS
<1>1. ASSUME NEW r \in Req, Call(r) PROVE TypeInv'
  BY <1>1, AnonymousCallType, AuthenticatedCallType DEF Call
<1>2. ASSUME NEW r \in Req, AuthStep(r) PROVE TypeInv'
  BY <1>2, RegisterType, MintPairType, LoginType, RefreshReadsType, DeleteByHashType,
     VerifyType DEF AuthStep, IssueTokenPair, RefreshIssue
<1>3. ASSUME NEW r \in Req, UserStep(r) PROVE TypeInv'
  BY <1>3, CreateType, LoadType, WriteType, RevokeType DEF UserStep
<1>4. ASSUME NEW r \in Req, Finish(r) \/ Fault(r) PROVE TypeInv'
  BY <1>4, CommittedType, RaiseType DEF Fault, DatabaseError, Status
<1>5. CASE Crash
  BY <1>5, CrashType
<1>6. CASE Tick
  BY <1>6 DEF Tick, ClockTick, TypeInv, TypeOK, StoreTypeOK, RequestsTypeOK,
              Fits, InputFits, StatementFits, LocalsFit
<1>7. CASE UNCHANGED vars
  BY <1>7 DEF vars, TypeInv, TypeOK, StoreTypeOK, RequestsTypeOK,
              Fits, InputFits, StatementFits, LocalsFit
<1> QED
  BY <1>1, <1>2, <1>3, <1>4, <1>5, <1>6, <1>7 DEF Next, Step

\* Every variable keeps its type, and a handler never uses a local variable or
\* a request field that it has not got.
THEOREM TypeCorrect == Spec => []TypeInv
<1> QED
  BY InitType, NextType, PTL DEF Spec

\* In particular the type invariant holds.
THEOREM TypesHold == Spec => []TypeOK
<1>1. TypeInv => TypeOK
  BY DEF TypeInv
<1> QED
  BY <1>1, TypeCorrect, PTL
=============================================================================
