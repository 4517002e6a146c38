----------------------------- MODULE JWTService -----------------------------
(***************************************************************************)
(* The clock and the signed tokens (services/jwt_service.py,               *)
(* core/utils/time_helper.py).                                             *)
(*                                                                         *)
(* A JWT is the record of its claims.  Its "jti" is a fresh uuid4, so no   *)
(* two JWTs are equal: the model names a JWT after the request that minted *)
(* it (field by).  hash_token is SHA-256, taken to be injective, so a      *)
(* stored hash is represented by the token it is the hash of.  Account ids *)
(* are uuid4s too and are named after the request that created the         *)
(* account, which is why User is the set Req.                              *)
(***************************************************************************)
EXTENDS Integers

CONSTANTS
  Req,         \* HTTP requests, each handled once
  Null,        \* None
  AccessTTL,   \* APP_SECURITY_ACCESS_TOKEN_EXPIRATION, in clock ticks
  RefreshTTL,  \* APP_SECURITY_REFRESH_TOKEN_EXPIRATION, in clock ticks
  Second,      \* clock ticks per second
  MaxTime      \* bound: the clock of a checked instance stops here

ASSUME TimeAssumption ==
  /\ AccessTTL \in Nat
  /\ RefreshTTL \in Nat
  /\ Second \in Nat \ {0}
  /\ MaxTime \in Nat

VARIABLE now   \* TimeHelper.now_utc(), in ticks

User == Req
TokenType == {"access", "refresh"}
Token == [by: Req, type: TokenType, sub: User, exp: Int]

\* Mutant: the nearest second above instead of int().
WholeSecondsUp(t) == t - (t % Second) + Second

\* int(now.timestamp()): the claims keep whole seconds only.
WholeSeconds(t) == t - (t % Second)

\* JWTService._create_token, called by request r for account u.
CreateToken(r, u, type, ttl) ==
  [by |-> r, type |-> type, sub |-> u, exp |-> WholeSeconds(now) + ttl]

CreateAccessToken(r, u) == CreateToken(r, u, "access", AccessTTL)
CreateRefreshToken(r, u) == CreateToken(r, u, "refresh", RefreshTTL)

\* TimeHelper.after(refresh_expire_seconds): full precision, no truncation.
RowExpiry == now + RefreshTTL

\* JWTService.decode_token succeeds.  A missing cookie or header is Null.
Decodes(t, expectedType) ==
  /\ t # Null
  /\ t.type = expectedType
  /\ t.exp > now

\* Wall-clock time passes, whatever the requests are doing.
ClockTick == now < MaxTime /\ now' = now + 1
=============================================================================
