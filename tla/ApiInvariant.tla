---------------------------- MODULE ApiInvariant ----------------------------
(***************************************************************************)
(* The inductive invariants behind the theorems of ApiProofs: what holds   *)
(* of a request between any two of its statements.                         *)
(***************************************************************************)
EXTENDS ApiSafety

\* The body has the fields that its endpoint requires.
InputFits(input) ==
  /\ input.op \in {"register", "create"} => input.email \in Email
  /\ input.op = "create" => input.role \in Role /\ input.active \in BOOLEAN

\* A handler executes the statements of the endpoint that was called.
StatementFits(statement, op) ==
  /\ statement \in {"register.get_by_email", "register.add", "register.update"} =>
       op = "register"
  /\ statement \in {"create.get_by_email", "create.add", "create.update"} =>
       op = "create"
  /\ statement \in {"update.get_by_id", "update.update"} => op = "update"
  /\ statement \in {"deactivate.get_by_id", "deactivate.deactivate"} =>
       op = "deactivate"
  /\ statement = "verify.get_by_id" => op \in {"create", "update", "deactivate"}
  /\ statement \in {"revoke.snapshot", "revoke.delete"} => op \in {"update", "deactivate"}
  /\ statement = "login.get_by_email" => op = "login"
  /\ statement = "issue.add" => op \in {"register", "login"}
  /\ statement \in {"refresh.get_by_user_and_hash", "refresh.get_by_id",
                    "refresh.delete_by_hash", "refresh.add"} => op = "refresh"
  /\ statement = "logout.delete_by_hash" => op = "logout"

\* The statements that use the local variable user, or acting_user.
UsesUser == {"issue.add", "refresh.delete_by_hash", "refresh.add",
             "update.update", "deactivate.deactivate"}
UsesActor == {"create.get_by_email", "create.add", "create.update",
              "update.get_by_id", "update.update",
              "deactivate.get_by_id", "deactivate.deactivate"}

\* A local variable has been assigned wherever it is used.
LocalsFit(statement, who, locals) ==
  /\ statement \in UsesUser => locals.user \in UserRow
  /\ statement \in UsesActor => who \in UserRow

Fits(statement, input, who, locals) ==
  /\ InputFits(input)
  /\ StatementFits(statement, input.op)
  /\ LocalsFit(statement, who, locals)

\* Types, and the facts about control that keep them.
TypeInv == TypeOK /\ \A r \in Req : Fits(pc[r], req[r], actor[r], mem[r])
-----------------------------------------------------------------------------
(* Locks: where a transaction may hold what.                               *)

LockFits(r) ==
  /\ tx[r].users # {} =>
       pc[r] \in {"register.update", "issue.add", "create.update",
                 "revoke.snapshot", "revoke.delete", "commit"}
  /\ tx[r].dels # {} => pc[r] \in {"refresh.add", "commit"}
  /\ tx[r].adds # {} => pc[r] = "commit"
  /\ Committed(r) => pc[r] = "done"

\* A request that waits for an account row holds nothing; one that waits for a
\* token row holds at most account rows; one that holds token rows waits for
\* nothing.
LockOrder == \A r \in Req : LockFits(r)

-----------------------------------------------------------------------------
(* Roles: why a request may write an ADMIN row.                            *)

\* Request r writes ADMIN into account id by its own right or repeats it.
ByRightOf(r, id) == GrantedTo(id) \/ Grants(r, id)

RoleFits(r) ==
  /\ pc[r] \in {"create.get_by_email", "create.add"} => actor[r].role = "ADMIN"
  /\ pc[r] = "update.update" =>
       /\ MayChange(r, mem[r].user)
       /\ mem[r].user.role = "ADMIN" => GrantedTo(req[r].target)
  /\ \A w \in tx[r].users : w.role = "ADMIN" => ByRightOf(r, w.id)

\* Administrators, and the ADMIN rows and locals of running requests, all go
\* back to a grant by an administrator.
RoleInv == NoSelfPromotion /\ \A r \in Req : RoleFits(r)

-----------------------------------------------------------------------------
(* Sessions: who may still store which token.                              *)

\* r has deleted the row of the token it presented.
HasConsumed(r) ==
  \/ Committed(r) /\ req[r].op \in {"refresh", "logout"}
  \/ req[r].op = "refresh" /\ pc[r] \in {"refresh.add", "commit"}
  \/ req[r].op = "logout" /\ pc[r] = "commit"

SessionFits(r) ==
  /\ \A t \in mem[r].pair : t.by = r
  /\ \A row \in tx[r].adds : row.hash.by = r
  /\ \A t \in resp[r].tokens : t.by = r /\ Committed(r)
  /\ pc[r] # "idle" /\ req[r].op \in {"refresh", "logout"} /\ req[r].token # Null =>
       Committed(req[r].token.by)
  /\ HasConsumed(r) =>
       \A row \in tokens : row.hash = req[r].token => row.hash \in tx[r].dels

\* A token is stored by the request that minted it, before any client knows
\* it, and never by another; what a request has deleted stays deleted.
SessionInv ==
  /\ \A row \in tokens : Committed(row.hash.by)
  /\ \A r \in Req : SessionFits(r)

-----------------------------------------------------------------------------
(* Accounts: what a transaction may write into the users table.            *)

\* w is a new version of an account that is there.
Updates(w) ==
  \E u \in users : u.id = w.id /\ u.email = w.email /\ u.createdBy = w.createdBy

MakesAccount(r) == req[r].op \in {"register", "create"}

AccountFits(r) ==
  /\ \A w, v \in tx[r].users : w = v
  /\ \A w \in tx[r].users :
       \/ Updates(w)
       \/ /\ w.id = r
          /\ \A u \in users : u.email # w.email
          /\ \A q \in Others(r) : ~HoldsEmail(q, w.email)
  /\ MakesAccount(r) /\ pc[r] \in {"issue.add", "commit"} =>
       \E w \in tx[r].users : w.id = r /\ w.createdBy = r
  /\ MakesAccount(r) /\ Committed(r) =>
       \E u \in users : u.id = r /\ u.createdBy = r

\* An account is there once, was made by a committed request and keeps its
\* address and its creator; an address that is being inserted is free, and
\* nobody else inserts it.
AccountInv ==
  /\ \A a, b \in users : (a.id = b.id \/ a.email = b.email) => a = b
  /\ \A u \in users : Committed(u.id)
  /\ \A r \in Req : AccountFits(r)

-----------------------------------------------------------------------------
(* Tokens: what a stored row says of the token and of its account.         *)

RowFits(row, rows) ==
  /\ row.hash.type = "refresh"
  /\ row.hash.sub = row.user
  /\ row.hash.exp <= row.expires
  /\ \E u \in rows : u.id = row.user

TokenFits(r) ==
  /\ \A row \in tx[r].adds : RowFits(row, SeenUsers(r))
  /\ pc[r] \in {"issue.add", "refresh.delete_by_hash", "refresh.add"} =>
       \E u \in SeenUsers(r) : u.id = mem[r].user.id

\* Rows are right before they are committed, and the account a pair is minted
\* for is there.
TokenInv == RowMatchesToken /\ \A r \in Req : TokenFits(r)

-----------------------------------------------------------------------------
(* Deletions: a transaction deletes only what its request may end.         *)

DeletionFits(r) ==
  /\ \A t \in tx[r].dels : MayEnd(r, t)
  /\ pc[r] \in {"revoke.snapshot", "revoke.delete"} =>
       \/ req[r].op = "deactivate"
       \/ req[r].op = "update" /\ req[r].active = FALSE
  /\ pc[r] = "revoke.delete" => \A t \in mem[r].victims : t.sub = req[r].target
  /\ \A t \in mem[r].pair :
       t.type = "refresh" => \E row \in tx[r].adds : row.hash = t

KeepInv == NoSessionLost /\ \A r \in Req : DeletionFits(r)

-----------------------------------------------------------------------------
(* Effects: what the writes of a request amount to.                        *)

\* Nobody else writes the account row w, which is what the endpoint makes.
WriteFits(r, w) ==
  /\ \A q \in Others(r) : ~HoldsUser(q, w.id)
  /\ req[r].op \in {"register", "create", "update", "deactivate"}
  /\ req[r].op = "register" => w.role = "USER" /\ w.active
  /\ req[r].op \in {"update", "deactivate"} =>
       w.id = req[r].target /\ \E u \in users : u.id = w.id
  /\ req[r].op = "deactivate" =>
       ~w.active /\ \A u \in users : u.id = w.id => u.role = w.role
  /\ tx[r].dels # {} \/ pc[r] \in {"revoke.snapshot", "revoke.delete"} => ~w.active

\* The account a pair is minted for is that of the session.
OwnerFits(r, id) ==
  /\ req[r].op \in {"register", "login", "refresh"}
  /\ req[r].op = "register" => id = r
  /\ req[r].op = "refresh" => id = req[r].token.sub

EffectFits(r) ==
  /\ pc[r] # "done" => tx[r].fate = "open"
  /\ pc[r] = "idle" <=> req[r].op = Null
  /\ \A x, y \in tx[r].adds : x = y
  /\ \A row \in tx[r].adds : OwnerFits(r, row.user)
  /\ pc[r] \in {"issue.add", "refresh.delete_by_hash", "refresh.add"} =>
       OwnerFits(r, mem[r].user.id)
  /\ pc[r] \in {"update.update", "deactivate.deactivate"} =>
       \E u \in users : u.id = req[r].target
  /\ \A w \in tx[r].users : WriteFits(r, w)
  /\ pc[r] = "commit" /\ req[r].op \in {"register", "login", "refresh"} => tx[r].adds # {}
  /\ pc[r] \in {"revoke.snapshot", "revoke.delete", "commit"}
       /\ req[r].op \in {"update", "deactivate"} => tx[r].users # {}

\* A request that is about to commit has done all that its endpoint is for,
\* and a stored session is the only one of its request.
EffectInv ==
  /\ \A a, b \in tokens : a.hash.by = b.hash.by => a = b
  /\ \A r \in Req : EffectFits(r)
=============================================================================
