-------------------------------- MODULE Store --------------------------------
(***************************************************************************)
(* The two tables, the transactions on them and the repositories           *)
(* (infrastructure/models, /repositories, /unit_of_work).                  *)
(*                                                                         *)
(* A request works on one session, and the session on one PostgreSQL       *)
(* transaction at READ COMMITTED, the default that db_helper.py leaves in  *)
(* place.  A statement therefore sees the rows committed when it starts    *)
(* and its own transaction's writes; a written row stays locked until the  *)
(* end of the transaction; a statement that meets a row locked by another  *)
(* transaction waits, then acts on the newest committed version.           *)
(*                                                                         *)
(* tx[r] holds what the transaction of request r has written and not yet   *)
(* committed, so it is also the set of row locks r holds.                  *)
(***************************************************************************)
EXTENDS JWTService

CONSTANT Email

VARIABLES users, tokens, tx

Role == {"USER", "ADMIN"}

UserRow ==
  [id: User, email: Email, role: Role, active: BOOLEAN, createdBy: User \cup {Null}]

TokenRow == [hash: Token, user: User, expires: Nat]

\* open also stands for a transaction that has not begun (autobegin).
Fate == {"open", "committed", "rolledback"}

Transaction ==
  [fate: Fate, users: SUBSET UserRow, dels: SUBSET Token, adds: SUBSET TokenRow]

NoWrites(fate) == [fate |-> fate, users |-> {}, dels |-> {}, adds |-> {}]

StoreTypeOK ==
  /\ users \subseteq UserRow
  /\ tokens \subseteq TokenRow
  /\ tx \in [Req -> Transaction]

-----------------------------------------------------------------------------
(* What a statement of request r sees.                                     *)

Overlay(rows, written) ==
  {u \in rows : \A w \in written : w.id # u.id} \cup written

SeenUsers(r) == Overlay(users, tx[r].users)

SeenTokens(r) == {t \in tokens : t.hash \notin tx[r].dels} \cup tx[r].adds

\* UserRepository.get_by_email, BaseRepository.get_by_id and
\* RefreshTokenRepository.get_by_user_and_hash: the empty set is None.
GetByEmail(r, email) == {u \in SeenUsers(r) : u.email = email}
GetById(r, id) == {u \in SeenUsers(r) : u.id = id}
GetByUserAndHash(r, id, hash) ==
  {t \in SeenTokens(r) : t.user = id /\ t.hash = hash}

-----------------------------------------------------------------------------
(* Row locks held by the other transactions.                               *)

HoldsEmail(q, email) == \E w \in tx[q].users : w.email = email
HoldsUser(q, id) == \E w \in tx[q].users : w.id = id
HoldsToken(q, hashes) == tx[q].dels \cap hashes # {}

Others(r) == Req \ {r}

-----------------------------------------------------------------------------
(* Writes.  Each changes tx alone; the other variables are the caller's.   *)

\* Mutant: the migration does not create the constraint.
EmailNeverTaken(r, email) == FALSE

\* uq_users_email: an INSERT of this address would violate the constraint.
EmailTaken(r, email) == GetByEmail(r, email) # {}

\* BaseRepository.add(User), .update and .deactivate put new versions of user
\* rows in the transaction.
WriteUsers(r, rows) == tx' = [tx EXCEPT ![r].users = Overlay(@, rows)]

\* BaseRepository.add(RefreshToken).
InsertToken(r, row) == tx' = [tx EXCEPT ![r].adds = @ \cup {row}]

\* RefreshTokenRepository.delete_by_hash, and the second half of
\* delete_all_for_user.  Rows that are gone by now are skipped, and no
\* caller looks at the number of rows deleted.
DeleteTokens(r, hashes) ==
  tx' = [tx EXCEPT ![r].dels = @ \cup {t.hash : t \in {s \in tokens : s.hash \in hashes}}]

\* Mutant: the transaction stays open after its writes are applied.
CommitHoldingLocks(r) ==
  /\ users' = SeenUsers(r)
  /\ tokens' = SeenTokens(r)
  /\ tx' = [tx EXCEPT ![r].fate = "committed"]

\* UnitOfWork.commit and .rollback.
Commit(r) ==
  /\ users' = SeenUsers(r)
  /\ tokens' = SeenTokens(r)
  /\ tx' = [tx EXCEPT ![r] = NoWrites("committed")]

\* Mutant: what was executed before the exception is kept.
RollbackKeepingWrites(r) ==
  /\ users' = SeenUsers(r)
  /\ tokens' = SeenTokens(r)
  /\ tx' = [tx EXCEPT ![r] = NoWrites("rolledback")]

Rollback(r) ==
  /\ tx' = [tx EXCEPT ![r] = NoWrites("rolledback")]
  /\ UNCHANGED <<users, tokens>>
=============================================================================
