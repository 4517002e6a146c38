---------------------------- MODULE UserService ----------------------------
(***************************************************************************)
(* services/user_service.py: create_user, update_user, deactivate_by_id.   *)
(* Each starts after verify_access_token has returned actor[r] and its     *)
(* transaction has ended, so actor[r] may be out of date.                  *)
(***************************************************************************)
EXTENDS AuthService

-----------------------------------------------------------------------------
(* create_user: the new account is recorded as its own creator.            *)

CreateLookup(r) == LookupNewEmail(r, "create.get_by_email", "create.add")

CreateAdd(r) ==
  AddUser(r, "create.add", NewAccount(r, req[r].role, req[r].active), "create.update")

CreateUpdate(r) == SetCreatedBy(r, "create.update", "commit")

-----------------------------------------------------------------------------
(* update_user.  The UPDATE sets role and is_active even when the body has *)
(* neither: then to the values that the earlier SELECT returned.           *)

Given(field, current) == IF field # Null THEN field ELSE current

\* Mutant: an absent role is written as it is.
NewRoleAsSent(r, u) == req[r].role

NewRole(r, u) == Given(req[r].role, u.role)
NewActive(r, u) == Given(req[r].active, u.active)

\* Mutant: only the activity is compared.
MayChangeRole(r, u) ==
  \/ actor[r].role = "ADMIN"
  \/ NewActive(r, u) = u.active

MayChange(r, u) ==
  \/ actor[r].role = "ADMIN"
  \/ NewRole(r, u) = u.role /\ NewActive(r, u) = u.active

UpdateLoad(r) ==
  /\ pc[r] = "update.get_by_id"
  /\ \/ /\ GetById(r, req[r].target) = {}
        /\ Raise(r, "404")
     \/ \E u \in GetById(r, req[r].target) :
          IF MayChange(r, u)
          THEN Read(r, [mem[r] EXCEPT !.user = u], "update.update")
          ELSE Raise(r, "403")

UpdatedRow(r, u) ==
  [u EXCEPT !.role = NewRole(r, mem[r].user), !.active = NewActive(r, mem[r].user)]

\* Mutant: was_active is read from the row the UPDATE returned.
MustRevokeLate(r) == NewActive(r, mem[r].user) /\ ~NewActive(r, mem[r].user)

\* was_active and not new_is_active
MustRevoke(r) == mem[r].user.active /\ ~NewActive(r, mem[r].user)

UpdateWrite(r) ==
  /\ pc[r] = "update.update"
  /\ \A q \in Others(r) : ~HoldsUser(q, req[r].target)
  /\ WriteUsers(r, {UpdatedRow(r, u) : u \in GetById(r, req[r].target)})
  /\ mem' = mem
  /\ Wrote(r, IF MustRevoke(r) THEN "revoke.snapshot" ELSE "commit")

-----------------------------------------------------------------------------
(* deactivate_by_id                                                        *)

\* Mutant: tokens are deleted before the account row is written.
DeactivateRevokingFirst(r) ==
  /\ pc[r] = "deactivate.get_by_id"
  /\ LET hashes == {t.hash : t \in {s \in tokens : s.user = req[r].target}}
     IN  /\ \A q \in Others(r) : ~HoldsToken(q, hashes)
         /\ DeleteTokens(r, hashes)
  /\ mem' = mem
  /\ Wrote(r, "deactivate.deactivate")

DeactivateLoad(r) ==
  /\ pc[r] = "deactivate.get_by_id"
  /\ \/ /\ GetById(r, req[r].target) = {}
        /\ Raise(r, "404")
     \/ \E u \in GetById(r, req[r].target) :
          Read(r, [mem[r] EXCEPT !.user = u], "deactivate.deactivate")

DeactivateWrite(r) ==
  /\ pc[r] = "deactivate.deactivate"
  /\ \A q \in Others(r) : ~HoldsUser(q, req[r].target)
  /\ WriteUsers(r, {[u EXCEPT !.active = FALSE] : u \in GetById(r, req[r].target)})
  /\ mem' = mem
  /\ Wrote(r, "revoke.snapshot")

-----------------------------------------------------------------------------
(* delete_all_for_user: DELETE .. WHERE user_id = ..  The statement deletes*)
(* among the rows committed when it starts; if it must wait for a row, the *)
(* rows committed meanwhile are not in its snapshot.                       *)

RevokeSnapshot(r) ==
  /\ pc[r] = "revoke.snapshot"
  /\ Read(r, [mem[r] EXCEPT !.victims =
                {t.hash : t \in {s \in SeenTokens(r) : s.user = req[r].target}}],
          "revoke.delete")

RevokeDelete(r) ==
  /\ pc[r] = "revoke.delete"
  /\ \A q \in Others(r) : ~HoldsToken(q, mem[r].victims)
  /\ DeleteTokens(r, mem[r].victims)
  /\ mem' = mem
  /\ Wrote(r, "commit")

-----------------------------------------------------------------------------

UserStep(r) ==
  \/ CreateLookup(r) \/ CreateAdd(r) \/ CreateUpdate(r)
  \/ UpdateLoad(r) \/ UpdateWrite(r)
  \/ DeactivateLoad(r) \/ DeactivateWrite(r)
  \/ RevokeSnapshot(r) \/ RevokeDelete(r)
=============================================================================
