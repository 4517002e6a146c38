------------------------------- MODULE Service -------------------------------
(***************************************************************************)
(* What the application promises its clients, without statements, locks,   *)
(* transactions, tokens or failures: accounts and sessions, on which each  *)
(* request acts at most once, in one step.  A session is named after the   *)
(* request that opened it.                                                 *)
(***************************************************************************)
CONSTANTS Req, Null, Email, Role, Op

VARIABLES
  asked,     \* what each request is for, Null before it is sent
  accounts,  \* one record per account, named after the request that made it
  sessions,  \* the sessions that can be refreshed
  over       \* requests that have acted, or never will

Account == [id: Req, email: Email, role: Role, active: BOOLEAN]
Session == [by: Req, user: Req]

ServiceTypeOK ==
  /\ asked \in [Req -> Op \cup {Null}]
  /\ accounts \subseteq Account
  /\ sessions \subseteq Session
  /\ over \subseteq Req

\* Whatever holds an id or an address of its own, and who owns a session.
Sound ==
  /\ \A a, b \in accounts : a.id = b.id \/ a.email = b.email => a = b
  /\ \A s, t \in sessions : s.by = t.by => s = t
  /\ \A s \in sessions : s.by \in over /\ \E a \in accounts : a.id = s.user
  /\ \A a \in accounts : a.id \in over

Init == ServiceTypeOK /\ Sound

-----------------------------------------------------------------------------

SessionsOf(a) == {s \in sessions : s.user = a.id}

Ask(r) ==
  /\ asked[r] = Null
  /\ \E op \in Op : asked' = [asked EXCEPT ![r] = op]
  /\ UNCHANGED <<accounts, sessions, over>>

\* A request does what it is for, and is over.
Acts(r, op) ==
  /\ asked[r] = op /\ r \notin over
  /\ over' = over \cup {r}
  /\ asked' = asked

NewAccount(r, role, active) ==
  \E e \in Email :
    /\ \A a \in accounts : a.email # e
    /\ accounts' =
         accounts \cup {[id |-> r, email |-> e, role |-> role, active |-> active]}

\* The account is active and an ordinary one, and its owner is logged in.
Register(r) ==
  /\ Acts(r, "register")
  /\ NewAccount(r, "USER", TRUE)
  /\ sessions' = sessions \cup {[by |-> r, user |-> r]}

Create(r) ==
  /\ Acts(r, "create")
  /\ \E role \in Role, active \in BOOLEAN : NewAccount(r, role, active)
  /\ UNCHANGED sessions

Login(r) ==
  /\ Acts(r, "login")
  /\ \E a \in accounts : sessions' = sessions \cup {[by |-> r, user |-> a.id]}
  /\ UNCHANGED accounts

\* One session gives way to another of the same account.  It may be gone
\* already: overlapping refreshes of one session open one each.
Refresh(r) ==
  /\ Acts(r, "refresh")
  /\ \E a \in accounts, old \in Session :
       /\ old.user = a.id
       /\ sessions' = (sessions \ {old}) \cup {[by |-> r, user |-> a.id]}
  /\ UNCHANGED accounts

Logout(r) ==
  /\ Acts(r, "logout")
  /\ \E s \in Session : sessions' = sessions \ {s}
  /\ UNCHANGED accounts

\* Only an account that is left inactive loses sessions, and only its own.
\* Those that are opened meanwhile may stay.
Change(a, role, active) ==
  /\ accounts' =
       (accounts \ {a})
         \cup {[id |-> a.id, email |-> a.email, role |-> role, active |-> active]}
  /\ \E ended \in SUBSET SessionsOf(a) :
       /\ ended # {} => ~active
       /\ sessions' = sessions \ ended

Update(r) ==
  /\ Acts(r, "update")
  /\ \E a \in accounts, role \in Role, active \in BOOLEAN : Change(a, role, active)

Deactivate(r) ==
  /\ Acts(r, "deactivate")
  /\ \E a \in accounts : Change(a, a.role, FALSE)

\* Refused, failed, or cut off: nothing happens.  A crash ends several.
Abandon ==
  /\ \E R \in (SUBSET (Req \ over)) \ {{}} : over' = over \cup R
  /\ UNCHANGED <<asked, accounts, sessions>>

Next ==
  \/ \E r \in Req :
       \/ Ask(r) \/ Register(r) \/ Create(r) \/ Login(r) \/ Refresh(r)
       \/ Logout(r) \/ Update(r) \/ Deactivate(r)
  \/ Abandon

Spec == Init /\ [][Next]_<<asked, accounts, sessions, over>>
=============================================================================
