------------------------------- MODULE Browser -------------------------------
(***************************************************************************)
(* Browsers in front of the application.  The refresh token lives in a     *)
(* cookie (api/v1/utils/cookies.py): a browser sends whatever its jar      *)
(* holds, has any number of requests under way (tabs, timers, retries),    *)
(* and gets their answers in any order, or not at all.                     *)
(***************************************************************************)
EXTENDS ApiSafety

VARIABLES
  jar,     \* the cookie "refreshToken" of each browser
  owner,   \* the browser that sent a request
  landed   \* requests whose answer has reached their browser

\* A browser for each active seed account, logged in with it.
Browser == Seed \ SeedInactive

browserVars == <<jar, owner, landed>>

BrowserInit ==
  /\ Init
  /\ jar = [b \in Browser |-> SeedRefresh(b)]
  /\ owner = [r \in Req |-> IF r \in Seed THEN r ELSE Null]
  /\ landed = Seed

\* Access tokens are in the bodies; the page keeps those it was sent.
Kept(b) == UNION {resp[q].tokens : q \in {q \in landed : owner[q] = b}}

Send(b, r) ==
  /\ Call(r)
  /\ req'[r].op \in {"refresh", "logout"} => req'[r].token = jar[b]
  /\ req'[r].op \notin {"refresh", "logout"} => req'[r].token \in Kept(b) \cup {Null}
  /\ owner' = [owner EXCEPT ![r] = b]
  /\ UNCHANGED <<jar, landed>>

\* Mutant: /refresh returns the access token and leaves the cookie as it is.
CookieOfLoginOnly(r, current) ==
  IF resp[r].status # "ok" THEN current
  ELSE IF req[r].op = "logout" THEN Null
  ELSE IF req[r].op = "refresh" THEN current
  ELSE CHOOSE t \in RefreshTokensOf(r) : TRUE

\* set_refresh_cookie and delete_refresh_cookie.  An error response is built
\* by the exception handler and carries no cookie.
Cookie(r, current) ==
  IF resp[r].status # "ok" THEN current
  ELSE IF req[r].op \in {"register", "login", "refresh"}
       THEN CHOOSE t \in RefreshTokensOf(r) : TRUE
       ELSE IF req[r].op = "logout" THEN Null ELSE current

Receive(r) ==
  /\ pc[r] = "done" /\ resp[r].status # "lost"
  /\ r \notin landed
  /\ landed' = landed \cup {r}
  /\ jar' = [jar EXCEPT ![owner[r]] = Cookie(r, @)]
  /\ UNCHANGED <<vars, owner>>

\* Max-Age: the lifetime of the token, counted from the answer's arrival.
Expire(b) ==
  /\ jar[b] # Null /\ jar[b].exp <= now
  /\ jar' = [jar EXCEPT ![b] = Null]
  /\ UNCHANGED <<vars, owner, landed>>

BrowserNext ==
  \/ \E r \in Req :
       \/ \E b \in Browser : Send(b, r)
       \/ (Step(r) \/ Fault(r)) /\ UNCHANGED browserVars
       \/ Receive(r)
  \/ \E b \in Browser : Expire(b)
  \/ Faults /\ Crash /\ UNCHANGED browserVars
  \/ Tick /\ UNCHANGED browserVars

BrowserSpec == BrowserInit /\ [][BrowserNext]_<<vars, browserVars>>

-----------------------------------------------------------------------------

\* A browser never keeps a cookie that is good for nothing because its own
\* answers came late, came in another order, or crossed each other: a dead
\* cookie means that the answer to the request that used it up is still under
\* way, or failed, or that the account was deactivated (endpoints/auth.py:18-60,
\* auth_service.py:105-142).
JarFollowsStore ==
  \A b \in Browser :
    \/ jar[b] = Null
    \/ \E row \in tokens : row.hash = jar[b]
    \/ \E q \in Req :
         /\ Committed(q)
         /\ MayEnd(q, jar[b])
         /\ req[q].op \in {"refresh", "logout"} =>
              owner[q] = b /\ (q \notin landed \/ resp[q].status = "500")

-----------------------------------------------------------------------------
(* The inductive invariant behind the theorem of ClientProofs.             *)

BrowserTypeOK ==
  /\ jar \in [Browser -> Token \cup {Null}]
  /\ owner \in [Req -> Req \cup {Null}]
  /\ Seed \subseteq landed /\ landed \subseteq Req

\* A cookie is the token of an answer that this browser has received.
JarFits(b) ==
  jar[b] # Null =>
    /\ jar[b].by \in landed \ SeedInactive /\ owner[jar[b].by] = b
    /\ jar[b] \in RefreshTokensOf(jar[b].by)

\* A request that needs a cookie for its answer has one.
PairFits(r) ==
  req[r].op \in {"register", "login", "refresh"} =>
    /\ pc[r] = "commit" => \E t \in mem[r].pair : t.type = "refresh"
    /\ resp[r].status = "ok" => RefreshTokensOf(r) # {}

\* A request presents the cookie of its browser, and takes it away when its
\* answer arrives.
CookieFits(r) ==
  /\ pc[r] # "idle" /\ r \notin Seed => owner[r] \in Browser
  /\ r \in landed => pc[r] = "done" /\ resp[r].status # "lost"
  /\ resp[r].status = "ok" => Committed(r)
  /\ Committed(r) => resp[r].status \in {"ok", "500", "lost"}
  /\ req[r].op \in {"refresh", "logout"} /\ req[r].token # Null =>
       /\ req[r].token.by \in landed /\ owner[req[r].token.by] = owner[r]
       /\ r \in landed /\ resp[r].status = "ok" => jar[owner[r]] # req[r].token

BrowserInv ==
  /\ BrowserTypeOK
  /\ \A b \in Browser : JarFits(b)
  /\ \A r \in Req : PairFits(r) /\ CookieFits(r)
=============================================================================
