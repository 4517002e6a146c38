------------------------------ MODULE ApiSafety ------------------------------
(***************************************************************************)
(* What the running application guarantees, and two statements of the      *)
(* repository's docs and tests that it does not keep when requests meet.   *)
(***************************************************************************)
EXTENDS Api

Committed(r) == tx[r].fate = "committed"

RefreshTokensOf(r) == {t \in resp[r].tokens : t.type = "refresh"}

-----------------------------------------------------------------------------
(* The store.                                                              *)

\* Two requests that register or create the same address at the same moment,
\* both past their get_by_email, never both succeed (auth_service.py:80-96,
\* user_service.py:53-68): the constraint turns the loser into a 409.
UniqueEmail ==
  \A a, b \in users : a.email = b.email => a.id = b.id /\ a = b

\* Every stored row stands for a refresh token of an existing account, under
\* that account's id, and the signed token never outlives the row although
\* the two expiries are computed separately and one of them is truncated
\* (jwt_service.py:35-44 and auth_service.py:69-75).
RowMatchesToken ==
  \A row \in tokens :
    /\ row.hash.type = "refresh"
    /\ row.hash.sub = row.user
    /\ row.hash.exp <= row.expires
    /\ \E u \in users : u.id = row.user

\* A request leaves all of its writes or none, whichever of its statements
\* fails, whether the process dies or the acknowledgement of COMMIT is lost
\* (uow.py:22-40): no account without its creator, and no account or session
\* of a request that did not commit.
AllOrNothing ==
  \A r \in Req :
    /\ Committed(r) /\ req[r].op \in {"register", "create"} =>
         \E u \in users : u.id = r /\ u.createdBy = r
    /\ ~Committed(r) =>
         /\ \A u \in users : u.id # r
         /\ \A row \in tokens : row.hash.by # r

-----------------------------------------------------------------------------
(* Sessions.                                                               *)

\* The requests that may end the session of refresh token t: those that
\* presented it to /refresh or /logout, and those that could deactivate its
\* account.
MayEnd(q, t) ==
  \/ req[q].op \in {"refresh", "logout"} /\ req[q].token = t
  \/ req[q].op = "deactivate" /\ req[q].target = t.sub
  \/ req[q].op = "update" /\ req[q].target = t.sub /\ req[q].active = FALSE

\* A refresh token that a client was given stays usable until a request
\* entitled to end that session commits, or has before the behaviour starts:
\* no failed, rolled back or unrelated request logs anyone out, and no token is
\* handed out unstored (auth_service.py:105-142, uow.py:22-32).
NoSessionLost ==
  \A r \in Req \ SeedInactive : \A t \in RefreshTokensOf(r) :
    \/ \E row \in tokens : row.hash = t
    \/ \E q \in Req : Committed(q) /\ MayEnd(q, t)

\* Once a refresh or a logout has committed, the token it presented is not
\* stored and no transaction is about to store it again: a late or repeated
\* request never resurrects it (auth_service.py:119-142).
ConsumedTokenGone ==
  \A r \in Req :
    Committed(r) /\ req[r].op \in {"refresh", "logout"} =>
      \A q \in Req : \A row \in tokens \cup tx[q].adds : row.hash # req[r].token

-----------------------------------------------------------------------------
(* Roles.                                                                  *)

\* Request r, sent by an administrator, asks to make account id one.
Grants(r, id) ==
  /\ actor[r] # Null
  /\ actor[r].role = "ADMIN"
  /\ req[r].role = "ADMIN"
  /\ \/ req[r].op = "create" /\ r = id
     \/ req[r].op = "update" /\ req[r].target = id

\* Account id was an administrator's from the start, or a committed request
\* made it one.
GrantedTo(id) == id \in SeedAdmin \/ \E r \in Req : Committed(r) /\ Grants(r, id)

\* Every administrator was one from the start or was made one by a committed
\* request that an administrator sent.  The role check of update_user
\* compares with a row read one statement before the UPDATE that rewrites the
\* role (user_service.py:76-90); interleaved updates never add up to a
\* promotion that nobody granted.
NoSelfPromotion ==
  \A u \in users : u.role = "ADMIN" => GrantedTo(u.id)

-----------------------------------------------------------------------------
(* Waiting.                                                                *)

\* The transactions whose row locks the next statement of r waits for.
WaitsFor(r) ==
  {q \in Others(r) :
     \/ pc[r] \in {"register.add", "create.add"} /\ HoldsEmail(q, req[r].email)
     \/ pc[r] \in {"update.update", "deactivate.deactivate"}
        /\ HoldsUser(q, req[r].target)
     \/ pc[r] \in {"refresh.delete_by_hash", "logout.delete_by_hash"}
        /\ HoldsToken(q, {Presented(r)})
     \/ pc[r] = "revoke.delete" /\ HoldsToken(q, mem[r].victims)}

\* Transactions never wait for each other in a circle: user rows are locked
\* before token rows everywhere (user_service.py:88-93, 99-104), so PostgreSQL
\* has no deadlock to resolve by aborting a request.
NoCircularWait ==
  ~ \E S \in (SUBSET Req) \ {{}} : \A r \in S : WaitsFor(r) \cap S # {}

\* Every request that reaches the application is answered or ends with the
\* process, whatever the other requests do and whatever fails on the way: no
\* transaction leaves a row locked (uow.py:22-40), no endless wait.
EveryRequestAnswered == \A r \in Req : Running(r) ~> pc[r] = "done"

-----------------------------------------------------------------------------
(* Stated by the repository, not kept by the code.                         *)

\* README.md: /refresh "rotates the refresh token", and the test
\* test_refresh_rotates_cookie_and_invalidates_previous_refresh_token: a
\* refresh token is accepted once.
RefreshTokenUsedOnce ==
  \A a, b \in Req :
    /\ req[a].op = "refresh" /\ req[b].op = "refresh"
    /\ resp[a].status = "ok" /\ resp[b].status = "ok"
    /\ req[a].token = req[b].token
    => a = b

\* test_deactivate_revokes_all_refresh_tokens: a deactivated account has no
\* stored refresh token.
InactiveHasNoSession ==
  \A u \in users : ~u.active => \A row \in tokens : row.user # u.id
=============================================================================
