---------------------------- MODULE AuthService ----------------------------
(***************************************************************************)
(* services/auth_service.py: one action per database statement of          *)
(* register, login_user, refresh_tokens, logout and verify_access_token.   *)
(***************************************************************************)
EXTENDS Requests

-----------------------------------------------------------------------------
(* Account creation, in the shape register and create_user share.  The     *)
(* address is looked up, then inserted later: another request can insert   *)
(* it in between.                                                          *)

LookupNewEmail(r, here, next) ==
  /\ pc[r] = here
  /\ IF GetByEmail(r, req[r].email) # {}
     THEN Raise(r, "409")
     ELSE Read(r, mem[r], next)

\* UserRepository.add.  The INSERT waits for a transaction that is inserting
\* the address; a duplicate becomes DuplicateError, then a 409.
AddUser(r, here, row, next) ==
  /\ pc[r] = here
  /\ \A q \in Others(r) : ~HoldsEmail(q, row.email)
  /\ IF EmailTaken(r, row.email)
     THEN Raise(r, "409")
     ELSE WriteUsers(r, {row}) /\ mem' = mem /\ Wrote(r, next)

\* user_repo.update(user.id, {"created_by": user.id}); user is the result.
SetCreatedBy(r, here, next) ==
  /\ pc[r] = here
  /\ \E u \in GetById(r, r) :
       LET row == [u EXCEPT !.createdBy = r]
       IN  /\ WriteUsers(r, {row})
           /\ mem' = [mem EXCEPT ![r].user = row]
  /\ Wrote(r, next)

NewAccount(r, role, active) ==
  [id |-> r, email |-> req[r].email, role |-> role, active |-> active,
   createdBy |-> Null]

-----------------------------------------------------------------------------
(* register                                                                *)

RegisterLookup(r) == LookupNewEmail(r, "register.get_by_email", "register.add")

RegisterAdd(r) ==
  AddUser(r, "register.add", NewAccount(r, "USER", TRUE), "register.update")

RegisterUpdate(r) == SetCreatedBy(r, "register.update", "issue.add")

-----------------------------------------------------------------------------
(* _issue_token_pair, and the same lines inlined in refresh_tokens: mint   *)
(* both tokens and store the hash of the refresh token.                    *)

MintPair(r, here) ==
  /\ pc[r] = here
  /\ LET id == mem[r].user.id
         refreshToken == CreateRefreshToken(r, id)
     IN  /\ InsertToken(r, [hash |-> refreshToken, user |-> id, expires |-> RowExpiry])
         /\ mem' = [mem EXCEPT ![r].pair = {CreateAccessToken(r, id), refreshToken}]
  /\ Wrote(r, "commit")

IssueTokenPair(r) == MintPair(r, "issue.add")

-----------------------------------------------------------------------------
(* login_user: _authenticate_user, then _issue_token_pair.                 *)

LoginAuthenticate(r) ==
  /\ pc[r] = "login.get_by_email"
  /\ \/ /\ GetByEmail(r, req[r].email) = {} \/ ~req[r].passwordOk
        /\ Raise(r, "401")
     \/ \E u \in GetByEmail(r, req[r].email) :
          /\ req[r].passwordOk
          /\ IF u.active
             THEN Read(r, [mem[r] EXCEPT !.user = u], "issue.add")
             ELSE Raise(r, "423")

-----------------------------------------------------------------------------
(* refresh_tokens: the cookie was decoded when the request began.          *)

Presented(r) == req[r].token

\* Mutant: a deleted account counts, a deactivated one does not.
UsableIfPresent(u) == TRUE

\* An account that refresh_tokens and verify_access_token accept.
Usable(u) == u.active

\* Mutant: the signature is trusted and the stored row is not consulted.
RefreshGetTokenStateless(r) ==
  /\ pc[r] = "refresh.get_by_user_and_hash"
  /\ Read(r, mem[r], "refresh.get_by_id")

RefreshGetToken(r) ==
  /\ pc[r] = "refresh.get_by_user_and_hash"
  /\ IF \E t \in GetByUserAndHash(r, Presented(r).sub, Presented(r)) : t.expires >= now
     THEN Read(r, mem[r], "refresh.get_by_id")
     ELSE Raise(r, "401")

RefreshGetUser(r) ==
  /\ pc[r] = "refresh.get_by_id"
  /\ \/ /\ \A u \in GetById(r, Presented(r).sub) : ~Usable(u)
        /\ Raise(r, "401")
     \/ \E u \in GetById(r, Presented(r).sub) :
          /\ Usable(u)
          /\ Read(r, [mem[r] EXCEPT !.user = u], "refresh.delete_by_hash")

\* DELETE .. WHERE hashed_token = ..: waits for a transaction that has
\* deleted the row and has not committed.
DeleteByHash(r, here, next) ==
  /\ pc[r] = here
  /\ \A q \in Others(r) : ~HoldsToken(q, {Presented(r)})
  /\ DeleteTokens(r, {Presented(r)})
  /\ mem' = mem
  /\ Wrote(r, next)

\* Mutant: the old token is left to expire.
RefreshKeepsOld(r) ==
  /\ pc[r] = "refresh.delete_by_hash"
  /\ Read(r, mem[r], "refresh.add")

RefreshDelete(r) == DeleteByHash(r, "refresh.delete_by_hash", "refresh.add")

RefreshIssue(r) == MintPair(r, "refresh.add")

-----------------------------------------------------------------------------
(* logout: neither decodes the token nor looks at the account.             *)

\* Mutant: log out everywhere.
LogoutEverywhere(r) ==
  /\ pc[r] = "logout.delete_by_hash"
  /\ \A q \in Others(r) : tx[q].dels = {}
  /\ DeleteTokens(r, {t.hash : t \in {s \in tokens : s.user = Presented(r).sub}})
  /\ mem' = mem
  /\ Wrote(r, "commit")

LogoutDelete(r) == DeleteByHash(r, "logout.delete_by_hash", "commit")

-----------------------------------------------------------------------------
(* verify_access_token, in a UnitOfWork of its own that only reads, then   *)
(* the role check of dependencies/current_user.py.  What it returns is     *)
(* used for the rest of the request without being read again.              *)

\* get_admin_user for POST and DELETE, get_admin_or_self_user for PUT (which
\* PUT /me passes by construction).
Allowed(u, input) ==
  \/ u.role = "ADMIN"
  \/ input.op = "update" /\ u.id = input.target

ServiceEntry ==
  [create |-> "create.get_by_email", update |-> "update.get_by_id",
   deactivate |-> "deactivate.get_by_id"]

\* Mutant: what an earlier request looked up is kept and used again.
VerifyFromCache(r) ==
  /\ pc[r] = "verify.get_by_id"
  /\ LET sub == Presented(r).sub
         cached == {actor[q] : q \in {p \in Others(r) : actor[p] # Null /\ actor[p].id = sub}}
     IN  \E u \in IF cached = {} THEN GetById(r, sub) ELSE cached :
           /\ u.active /\ Allowed(u, req[r])
           /\ actor' = [actor EXCEPT ![r] = u]
  /\ Goto(r, ServiceEntry[req[r].op])
  /\ UNCHANGED <<now, users, tokens, tx, req, mem, resp>>

VerifyAccessToken(r) ==
  /\ pc[r] = "verify.get_by_id"
  /\ \/ /\ \A u \in GetById(r, Presented(r).sub) : ~Usable(u)
        /\ Raise(r, "401")
     \/ \E u \in GetById(r, Presented(r).sub) :
          /\ Usable(u)
          /\ IF Allowed(u, req[r])
             THEN /\ actor' = [actor EXCEPT ![r] = u]
                  /\ Goto(r, ServiceEntry[req[r].op])
                  /\ UNCHANGED <<now, users, tokens, tx, req, mem, resp>>
             ELSE Raise(r, "403")

-----------------------------------------------------------------------------

AuthStep(r) ==
  \/ RegisterLookup(r) \/ RegisterAdd(r) \/ RegisterUpdate(r)
  \/ IssueTokenPair(r)
  \/ LoginAuthenticate(r)
  \/ RefreshGetToken(r) \/ RefreshGetUser(r) \/ RefreshDelete(r) \/ RefreshIssue(r)
  \/ LogoutDelete(r)
  \/ VerifyAccessToken(r)
=============================================================================
