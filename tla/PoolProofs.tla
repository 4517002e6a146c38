------------------------------ MODULE PoolProofs ------------------------------
(***************************************************************************)
(* The core on its connection pool: who has which connection, and why the  *)
(* pool is one of the core's failing databases.                            *)
(***************************************************************************)
EXTENDS Pool, RefinementProofs

-----------------------------------------------------------------------------
(* Who has which connection.                                               *)

\* What a step of x must leave alone of the others, and what it must see to
\* itself.
Minds(x) ==
  /\ \A q \in Req \ {x} : pc'[q] = pc[q] /\ tx'[q] = tx[q] /\ resp'[q] = resp[q]
  /\ \A p \in Probe \ {x} : probe'[p].stage = probe[p].stage
  /\ \A d \in Conn :
       /\ lent'[d] \in {lent[d], x, Null}
       /\ lent[d] \notin {x, Null} => lent'[d] = lent[d] /\ (d \in stale' => d \in stale)
  /\ \A d, e \in Conn : lent'[d] = x /\ lent'[e] = x => d = e
  /\ (\E d \in Conn : lent'[d] = x) => InUse(x)'
  /\ x \in Req => WorkFits(x)'
  /\ x \in Probe /\ probe'[x].stage = "left" => \E d \in Conn : lent'[d] = x

\* The others are served as before.
LEMMA MindsOthers ==
  ASSUME PoolInv, PoolTypeOK', NEW x \in Req \cup Probe, Minds(x)
  PROVE  PoolInv'
<1>1. x # Null /\ \A r \in Req : r # Null /\ r \notin Probe
  BY NullAssumption, PoolAssumption
<1>2. ASSUME NEW c \in Conn, NEW y, lent'[c] = y, y # Null
      PROVE  InUse(y)' /\ \A d \in Conn : lent'[d] = y => d = c
  <2>1. CASE y = x
    BY <1>2, <2>1 DEF Minds
  <2>2. CASE y # x
    <3>1. lent[c] = y
      BY <1>2, <2>2 DEF Minds
    <3>2. InUse(y) /\ \A d \in Conn : lent[d] = y => d = c
      BY <1>2, <3>1 DEF PoolInv, LentFits, Holds
    <3>3. y \in Req \cup Probe
      BY <1>2, <3>1 DEF PoolInv, PoolTypeOK
    <3>4. InUse(y)'
      BY <2>2, <3>2, <3>3 DEF Minds, InUse, Running
    <3>5. \A d \in Conn : lent'[d] = y => lent[d] = y
      BY <1>2, <2>2 DEF Minds
    <3> QED
      BY <3>2, <3>4, <3>5
  <2> QED
    BY <2>1, <2>2
<1>3. ASSUME NEW q \in Req, q # x
      PROVE  WorkFits(q)'
  <2>1. \A c \in Conn \ stale : Holds(q, c) => c \in Conn \ stale' /\ lent'[c] = q
    BY <1>1, <1>3 DEF Minds, Holds
  <2>2. WorkFits(q)
    BY DEF PoolInv
  <2>3. pc'[q] = pc[q] /\ tx'[q] = tx[q] /\ resp'[q] = resp[q]
    BY <1>3 DEF Minds
  <2> QED
    BY <2>1, <2>2, <2>3 DEF WorkFits, Holds
<1>4. ASSUME NEW p \in Probe, p # x, probe'[p].stage = "left"
      PROVE  \E c \in Conn : lent'[c] = p
  <2>1. PICK c \in Conn : lent[c] = p
    BY <1>4 DEF Minds, PoolInv, Holds
  <2> QED
    BY <1>4, <2>1, PoolAssumption DEF Minds
<1>5. \A c \in Conn : LentFits(c)'
  BY <1>2 DEF LentFits, Holds
<1>6. \A r \in Req : WorkFits(r)'
  BY <1>3 DEF Minds
<1>7. \A p \in Probe : probe'[p].stage = "left" => \E c \in Conn : lent'[c] = p
  BY <1>4 DEF Minds
<1> QED
  BY <1>5, <1>6, <1>7 DEF PoolInv, Holds

\* One connection comes back: that of x.
LEMMA ReturnFits ==
  ASSUME PoolInv, NEW x \in Req \cup Probe, NEW c \in Conn, Holds(x, c), Return(c)
  PROVE  /\ lent' \in [Conn -> Req \cup Probe \cup {Null}]
         /\ \A d \in Conn : lent'[d] # x /\ lent'[d] \in {lent[d], Null}
         /\ \A d \in Conn : lent[d] \notin {x, Null} => lent'[d] = lent[d]
<1>1. x # Null
  BY NullAssumption, PoolAssumption
<1>2. \A d \in Conn : lent[d] = x => d = c
  BY <1>1 DEF PoolInv, LentFits, Holds
<1>3. lent \in [Conn -> Req \cup Probe \cup {Null}]
  BY DEF PoolInv, PoolTypeOK
<1> QED
  BY <1>1, <1>2, <1>3 DEF Return, Holds

\* x gives its connection back and has finished.
LEMMA FinishFits ==
  ASSUME PoolInv, NEW x \in Req \cup Probe, NEW c \in Conn, Holds(x, c), Return(c),
         \A d \in Conn : d \in stale' => d \in stale,
         disconnects' \in 0 .. MaxDisconnects,
         probe' \in [Probe -> [stage : {"idle", "select", "left", "closed"},
                               answer : {"none", "200", "503"}, shaken : BOOLEAN]],
         stale' \subseteq Conn,
         \A q \in Req \ {x} : pc'[q] = pc[q] /\ tx'[q] = tx[q] /\ resp'[q] = resp[q],
         \A p \in Probe \ {x} : probe'[p].stage = probe[p].stage,
         x \in Req => WorkFits(x)',
         x \in Probe => probe'[x].stage # "left"
  PROVE  PoolInv'
<1>1. /\ lent' \in [Conn -> Req \cup Probe \cup {Null}]
      /\ \A d \in Conn : lent'[d] # x /\ lent'[d] \in {lent[d], Null}
      /\ \A d \in Conn : lent[d] \notin {x, Null} => lent'[d] = lent[d]
  BY ReturnFits
<1>2. Minds(x)
  BY <1>1 DEF Minds
<1>3. PoolTypeOK'
  BY <1>1 DEF PoolTypeOK
<1> QED
  BY <1>2, <1>3, MindsOthers

\* A call begins with nothing, or ends at once.
LEMMA CallGoes ==
  ASSUME TypeInv, NEW r \in Req, Call(r)
  PROVE  /\ pc[r] = "idle"
         /\ \/ pc'[r] = "done"
            \/ pc'[r] # "done" /\ tx'[r] = tx[r] /\ resp'[r] = resp[r]
<1>1. PICK input : Asks(r, input)
  BY CallAsks
<1> QED
  BY <1>1 DEF Asks, Begin, Refuse, Answer, Goto, TypeInv, TypeOK, RequestsTypeOK

\* A statement leads to another one of the same session, or to the end.
LEMMA StepGoes ==
  ASSUME TypeInv, NEW r \in Req, Step(r)
  PROVE  /\ Running(r)
         /\ \/ pc'[r] = "done"
            \/ /\ pc'[r] \in Statement \ {"verify.get_by_id"} /\ resp'[r] = resp[r]
               /\ pc[r] = "verify.get_by_id" => tx'[r] = tx[r]
<1> DEFINE Goal ==
             \/ pc'[r] = "done"
             \/ /\ pc'[r] \in Statement \ {"verify.get_by_id"} /\ resp'[r] = resp[r]
                /\ pc[r] = "verify.get_by_id" => tx'[r] = tx[r]
<1> SUFFICES Running(r) /\ Goal
  OBVIOUS
<1>1. pc \in [Req -> Statement \cup {"idle", "done"}]
  BY DEF TypeInv, TypeOK, RequestsTypeOK
<1>2. ASSUME NEW status, Raise(r, status) PROVE Goal
  BY <1>1, <1>2 DEF Raise, Answer, Goto
<1>3. ASSUME NEW locals, NEW next \in Statement \ {"verify.get_by_id"},
             Read(r, locals, next)
      PROVE  Goal
  BY <1>1, <1>3 DEF Read, Goto
<1>4. ASSUME NEW next \in Statement \ {"verify.get_by_id"}, pc[r] # "verify.get_by_id",
             Wrote(r, next)
      PROVE  Goal
  BY <1>1, <1>4 DEF Wrote, Goto
<1> HIDE DEF Goal
<1>5. CASE RegisterLookup(r) \/ CreateLookup(r)
  BY <1>5, <1>2, <1>3 DEF RegisterLookup, CreateLookup, LookupNewEmail, Statement, Running
<1>6. CASE RegisterAdd(r) \/ CreateAdd(r)
  BY <1>6, <1>2, <1>4 DEF RegisterAdd, CreateAdd, AddUser, Statement, Running
<1>7. CASE RegisterUpdate(r) \/ CreateUpdate(r)
  BY <1>7, <1>4 DEF RegisterUpdate, CreateUpdate, SetCreatedBy, Statement, Running
<1>8. CASE IssueTokenPair(r) \/ RefreshIssue(r)
  BY <1>8, <1>4 DEF IssueTokenPair, RefreshIssue, MintPair, Statement, Running
<1>9. CASE LoginAuthenticate(r) \/ RefreshGetToken(r) \/ RefreshGetUser(r)
  BY <1>9, <1>2, <1>3 DEF LoginAuthenticate, RefreshGetToken, RefreshGetUser, Statement,
                          Running
<1>10. CASE RefreshDelete(r) \/ LogoutDelete(r)
  BY <1>10, <1>4 DEF RefreshDelete, LogoutDelete, DeleteByHash, Statement, Running
<1>11. CASE VerifyAccessToken(r)
  <2>1. ASSUME Goto(r, ServiceEntry[req[r].op]),
               UNCHANGED <<now, users, tokens, tx, req, mem, resp>>
        PROVE  Goal
    <3>1. req[r].op \in {"create", "update", "deactivate"}
      BY <1>11, PartsType DEF VerifyAccessToken, Fits, StatementFits
    <3>2. ServiceEntry[req[r].op] \in Statement \ {"verify.get_by_id"}
      BY <3>1 DEF ServiceEntry, Statement
    <3> QED
      BY <1>1, <2>1, <3>2 DEF Goto, Goal
  <2> QED
    BY <1>11, <1>2, <2>1 DEF VerifyAccessToken, Statement, Running
<1>12. CASE UpdateLoad(r) \/ DeactivateLoad(r) \/ RevokeSnapshot(r)
  BY <1>12, <1>2, <1>3 DEF UpdateLoad, DeactivateLoad, RevokeSnapshot, Statement, Running
<1>13. CASE UpdateWrite(r) \/ DeactivateWrite(r) \/ RevokeDelete(r)
  BY <1>13, <1>4 DEF UpdateWrite, DeactivateWrite, RevokeDelete, Statement, Running
<1>14. CASE Finish(r)
  BY <1>14, <1>1 DEF Finish, Answer, Goto, Statement, Running, Goal
<1> QED
  BY <1>5, <1>6, <1>7, <1>8, <1>9, <1>10, <1>11, <1>12, <1>13, <1>14
  DEF Step, AuthStep, UserStep, Goal

\* Types of the pool's own variables, where probes keep theirs.
LEMMA ProbeTypes ==
  ASSUME PoolInv
  PROVE  /\ \A p \in Probe : probe[p].stage \in {"idle", "select", "left", "closed"}
         /\ \A p \in Probe, stage \in {"idle", "select", "left", "closed"},
              answer \in {"none", "200", "503"} :
              Proceed(p, stage, answer) =>
                /\ probe' \in [Probe -> [stage : {"idle", "select", "left", "closed"},
                                         answer : {"none", "200", "503"},
                                         shaken : BOOLEAN]]
                /\ probe'[p].stage = stage
                /\ \A q \in Probe \ {p} : probe'[q] = probe[q]
BY DEF PoolInv, PoolTypeOK, Proceed

LEMMA CallKeeps ==
  ASSUME TypeInv, PoolInv, NEW r \in Req, Call(r), UNCHANGED poolVars
  PROVE  PoolInv'
<1>1. \A q \in Req \ {r} : pc'[q] = pc[q] /\ tx'[q] = tx[q] /\ resp'[q] = resp[q]
  BY OneRequest DEF MovesOnly, Others
<1>2. pc[r] = "idle" /\ WorkFits(r)
  BY CallGoes DEF PoolInv
<1>3. \A c \in Conn : lent[c] # r
  <2>1. r # Null /\ ~Running(r)
    BY <1>2, NullAssumption DEF Running, Statement
  <2> QED
    BY <2>1 DEF PoolInv, LentFits, InUse, Holds
<1>4. WorkFits(r)'
  BY <1>2, <1>3, CallGoes DEF WorkFits, Holds
<1>5. Minds(r)
  BY <1>1, <1>3, <1>4, PoolAssumption DEF Minds, poolVars
<1>6. PoolTypeOK'
  BY DEF PoolInv, PoolTypeOK, poolVars
<1> QED
  BY <1>5, <1>6, MindsOthers

LEMMA ConnectKeeps ==
  ASSUME PoolInv, NEW x \in Req \cup Probe, Connect(x)
  PROVE  PoolInv'
<1>1. PICK c \in Free : lent' = [lent EXCEPT ![c] = x]
  BY DEF Connect
<1>2. /\ lent \in [Conn -> Req \cup Probe \cup {Null}] /\ c \in Conn /\ lent[c] = Null
      /\ x # Null
  BY <1>1, NullAssumption, PoolAssumption DEF PoolInv, PoolTypeOK, Free, Holds
<1>3. /\ \A d \in Conn : lent[d] # x
      /\ InUse(x)'
  BY DEF Connect, Waiting, Working, InUse, Holds, Running, vars
<1>4. x \in Req => WorkFits(x)'
  <2>1. ASSUME x \in Req
        PROVE  WorkFits(x) /\ pc[x] # "done"
    BY <2>1 DEF PoolInv, Connect, Waiting, Working, Running, Statement
  <2> QED
    BY <1>3, <2>1 DEF WorkFits, Holds, Connect, vars
<1>5. x \in Probe => probe[x].stage = "select"
  BY PoolAssumption DEF Connect, Waiting, Working
<1>6. Minds(x)
  BY <1>1, <1>2, <1>3, <1>4, <1>5 DEF Minds, Connect, vars
<1>7. PoolTypeOK'
  BY <1>1, <1>2 DEF PoolInv, PoolTypeOK, Connect
<1> QED
  BY <1>6, <1>7, MindsOthers

\* The pool may replace connections, but none that somebody else has.
LEMMA DiscardShrinks ==
  ASSUME PoolInv, NEW c \in Conn, Discard(c)
  PROVE  /\ stale' \subseteq Conn /\ Return(c) /\ c \notin stale'
         /\ \A d \in Conn : d \in stale' => d \in stale
BY DEF PoolInv, PoolTypeOK, Discard

LEMMA PooledKeeps ==
  ASSUME TypeInv, PoolInv, NEW r \in Req, PooledStep(r)
  PROVE  PoolInv'
<1>1. PICK c \in Conn \ stale :
        /\ Holds(r, c) /\ Step(r)
        /\ IF Closes(r) THEN Return(c) ELSE lent' = lent
  BY DEF PooledStep
<1>2. \A q \in Req \ {r} : pc'[q] = pc[q] /\ tx'[q] = tx[q] /\ resp'[q] = resp[q]
  BY <1>1, OneRequest DEF MovesOnly, Others
<1>3. WorkFits(r) /\ Running(r) /\ pc[r] # "done"
  BY <1>1, StepGoes DEF PoolInv, Running, Statement
<1>4. UNCHANGED <<stale, probe, disconnects>>
  BY DEF PooledStep
<1>5. CASE Closes(r)
  <2>1. WorkFits(r)'
    BY <1>1, <1>3, <1>5, StepGoes DEF WorkFits, Closes
  <2>2. PoolTypeOK
    BY DEF PoolInv
  <2> QED
    BY <1>1, <1>2, <1>4, <1>5, <2>1, <2>2, FinishFits, PoolAssumption DEF PoolTypeOK
<1>6. CASE ~Closes(r)
  <2>1. pc'[r] \in Statement \ {"verify.get_by_id"} /\ resp'[r] = resp[r] /\ lent' = lent
    BY <1>1, <1>6, StepGoes DEF Closes
  <2>2. WorkFits(r)'
    BY <1>1, <1>3, <1>4, <2>1 DEF WorkFits, Holds
  <2>3. InUse(r)'
    BY <2>1 DEF InUse, Running
  <2>4. \A d, e \in Conn : lent[d] = r /\ lent[e] = r => d = e
    BY NullAssumption DEF PoolInv, LentFits, Holds
  <2>5. Minds(r)
    BY <1>2, <1>4, <2>1, <2>2, <2>3, <2>4, PoolAssumption DEF Minds
  <2>6. PoolTypeOK'
    BY <1>4, <2>1 DEF PoolInv, PoolTypeOK
  <2> QED
    BY <2>5, <2>6, MindsOthers
<1> QED
  BY <1>5, <1>6

\* A request ends on its connection, or without one.
LEMMA EndKeeps ==
  ASSUME TypeInv, PoolInv, NEW r \in Req, pc' = [pc EXCEPT ![r] = "done"],
         \A q \in Req \ {r} : tx'[q] = tx[q] /\ resp'[q] = resp[q],
         probe' = probe, disconnects' \in 0 .. MaxDisconnects,
         \/ \E c \in Conn : Holds(r, c) /\ Discard(c)
         \/ UNCHANGED <<lent, stale>> /\ \A c \in Conn : ~Holds(r, c)
  PROVE  PoolInv'
<1>1. pc'[r] = "done" /\ \A q \in Req \ {r} : pc'[q] = pc[q]
  BY DEF TypeInv, TypeOK, RequestsTypeOK
<1>2. WorkFits(r)'
  BY <1>1 DEF WorkFits
<1>3. PoolTypeOK
  BY DEF PoolInv
<1>4. CASE \E c \in Conn : Holds(r, c) /\ Discard(c)
  <2>1. PICK c \in Conn : Holds(r, c) /\ Discard(c)
    BY <1>4
  <2>2. stale' \subseteq Conn /\ Return(c) /\ \A d \in Conn : d \in stale' => d \in stale
    BY <2>1, DiscardShrinks
  <2> QED
    BY <1>1, <1>2, <1>3, <2>1, <2>2, FinishFits, PoolAssumption DEF PoolTypeOK
<1>5. CASE UNCHANGED <<lent, stale>> /\ \A c \in Conn : ~Holds(r, c)
  <2>1. Minds(r)
    BY <1>1, <1>2, <1>5, PoolAssumption DEF Minds, Holds
  <2>2. PoolTypeOK'
    BY <1>3, <1>5 DEF PoolTypeOK
  <2> QED
    BY <2>1, <2>2, MindsOthers
<1> QED
  BY <1>4, <1>5

LEMMA FailureKeeps ==
  ASSUME TypeInv, PoolInv, NEW r \in Req,
         BrokenConnection(r) \/ PoolTimeout(r) \/ CommitCutOff(r)
  PROVE  PoolInv'
<1>1. pc' = [pc EXCEPT ![r] = "done"]
  BY DEF BrokenConnection, PoolTimeout, CommitCutOff, Raise, Answer, Goto
<1>2. \A q \in Req \ {r} : tx'[q] = tx[q] /\ resp'[q] = resp[q]
  BY DEF BrokenConnection, PoolTimeout, CommitCutOff, Raise, Rollback, Commit, Answer,
         TypeInv, TypeOK, StoreTypeOK, RequestsTypeOK
<1>3. probe' = probe /\ disconnects' \in 0 .. MaxDisconnects
  BY PoolAssumption DEF BrokenConnection, PoolTimeout, CommitCutOff, poolVars, PoolInv,
                        PoolTypeOK
<1>4. \/ \E c \in Conn : Holds(r, c) /\ Discard(c)
      \/ UNCHANGED <<lent, stale>> /\ \A c \in Conn : ~Holds(r, c)
  BY DEF BrokenConnection, PoolTimeout, CommitCutOff, Waiting, poolVars, PoolInv, PoolTypeOK
<1> QED
  BY <1>1, <1>2, <1>3, <1>4, EndKeeps

LEMMA ProbeKeeps ==
  ASSUME PoolInv, NEW p \in Probe, GetReadiness(p) \/ ProbeStep(p) \/ ProbeTimeout(p)
  PROVE  PoolInv'
<1> USE PoolAssumption
<1>1. UNCHANGED vars /\ UNCHANGED disconnects /\ p \notin Req
  BY DEF GetReadiness, ProbeStep, SelectOne, ProbeBroken, Finalise, ProbeTimeout, NotReady
<1>2. PoolTypeOK /\ \A q \in Req \ {p} : pc'[q] = pc[q] /\ tx'[q] = tx[q] /\ resp'[q] = resp[q]
  BY <1>1 DEF PoolInv, vars
<1>3. \A d, e \in Conn : lent[d] = p /\ lent[e] = p => d = e
  BY DEF PoolInv, LentFits, Holds
<1>4. \A c \in Conn : lent[c] = p => probe[p].stage \in {"select", "left"}
  BY DEF PoolInv, LentFits, InUse, Holds
<1>5. CASE GetReadiness(p)
  <2>1. /\ probe'[p].stage = "select" /\ \A q \in Probe \ {p} : probe'[q] = probe[q]
        /\ probe' \in [Probe -> [stage : {"idle", "select", "left", "closed"},
                                 answer : {"none", "200", "503"}, shaken : BOOLEAN]]
        /\ UNCHANGED <<lent, stale>>
    BY <1>5, ProbeTypes DEF GetReadiness
  <2>2. Minds(p)
    BY <1>1, <1>2, <1>3, <2>1 DEF Minds, InUse
  <2> QED
    BY <1>1, <1>2, <2>1, <2>2, MindsOthers DEF PoolTypeOK
<1>6. CASE SelectOne(p)
  <2>1. /\ probe'[p].stage = "left" /\ \A q \in Probe \ {p} : probe'[q] = probe[q]
        /\ probe' \in [Probe -> [stage : {"idle", "select", "left", "closed"},
                                 answer : {"none", "200", "503"}, shaken : BOOLEAN]]
        /\ UNCHANGED <<lent, stale>> /\ \E c \in Conn : lent[c] = p
    BY <1>6, ProbeTypes DEF SelectOne, Holds
  <2>2. Minds(p)
    BY <1>1, <1>2, <1>3, <2>1 DEF Minds, InUse
  <2> QED
    BY <1>1, <1>2, <2>1, <2>2, MindsOthers DEF PoolTypeOK
<1>7. CASE ProbeBroken(p)
  <2>1. PICK c \in stale : Holds(p, c) /\ Discard(c)
    BY <1>7 DEF ProbeBroken
  <2>2. /\ probe'[p].stage = "closed" /\ \A q \in Probe \ {p} : probe'[q] = probe[q]
        /\ probe' \in [Probe -> [stage : {"idle", "select", "left", "closed"},
                                 answer : {"none", "200", "503"}, shaken : BOOLEAN]]
    BY <1>7, ProbeTypes DEF ProbeBroken, NotReady
  <2>3. /\ c \in Conn /\ stale' \subseteq Conn /\ Return(c)
        /\ \A d \in Conn : d \in stale' => d \in stale
    BY <1>2, <2>1, DiscardShrinks DEF PoolTypeOK
  <2> QED
    BY <1>1, <1>2, <2>1, <2>2, <2>3, FinishFits DEF PoolTypeOK
<1>8. CASE ProbeTimeout(p)
  <2>1. /\ probe'[p].stage = "closed" /\ \A q \in Probe \ {p} : probe'[q] = probe[q]
        /\ probe' \in [Probe -> [stage : {"idle", "select", "left", "closed"},
                                 answer : {"none", "200", "503"}, shaken : BOOLEAN]]
        /\ UNCHANGED <<lent, stale>> /\ \A c \in Conn : lent[c] # p
    BY <1>8, ProbeTypes DEF ProbeTimeout, NotReady, Waiting, Holds
  <2>2. Minds(p)
    BY <1>1, <1>2, <1>3, <2>1 DEF Minds, InUse
  <2> QED
    BY <1>1, <1>2, <2>1, <2>2, MindsOthers DEF PoolTypeOK
<1>9. CASE Finalise(p)
  <2>1. PICK c \in Conn : Holds(p, c) /\ Return(c) /\ stale' = stale \ {c}
    BY <1>9 DEF Finalise
  <2>2. /\ probe'[p].stage = "closed" /\ \A q \in Probe \ {p} : probe'[q] = probe[q]
        /\ probe' \in [Probe -> [stage : {"idle", "select", "left", "closed"},
                                 answer : {"none", "200", "503"}, shaken : BOOLEAN]]
    BY <1>2, <1>9 DEF Finalise, PoolTypeOK
  <2> QED
    BY <1>1, <1>2, <2>1, <2>2, FinishFits DEF PoolTypeOK
<1> QED
  BY <1>5, <1>6, <1>7, <1>8, <1>9 DEF ProbeStep

\* PostgreSQL ends a connection: what was written on it is gone with it.
LEMMA DisconnectKeeps ==
  ASSUME TypeInv, PoolInv, NEW c \in Conn, Disconnect(c)
  PROVE  PoolInv'
<1>1. PoolTypeOK /\ tx \in [Req -> Transaction]
  BY DEF PoolInv, TypeInv, TypeOK, StoreTypeOK
<1>2. /\ probe' \in [Probe -> [stage : {"idle", "select", "left", "closed"},
                               answer : {"none", "200", "503"}, shaken : BOOLEAN]]
      /\ \A p \in Probe : probe'[p].stage = probe[p].stage
  <2>1. \A p \in Probe : (probe[p].shaken \/ Working(p)) \in BOOLEAN
    BY <1>1, PoolAssumption DEF PoolTypeOK, Working
  <2> QED
    BY <1>1, <2>1 DEF PoolTypeOK, Disconnect
<1>3. PoolTypeOK'
  BY <1>1, <1>2, PoolAssumption DEF PoolTypeOK, Disconnect
<1>4. ASSUME NEW d \in Conn PROVE LentFits(d)'
  <2>1. LentFits(d) /\ lent[d] \in Req \cup Probe \cup {Null} /\ pc' = pc /\ lent' = lent
    BY <1>1 DEF PoolInv, PoolTypeOK, Disconnect
  <2> QED
    BY <1>2, <2>1 DEF LentFits, InUse, Running, Holds
<1>5. ASSUME NEW r \in Req PROVE WorkFits(r)'
  <2>1. WorkFits(r) /\ pc' = pc /\ resp' = resp /\ lent' = lent /\ stale' = stale \cup {c}
    BY DEF PoolInv, Disconnect
  <2>2. tx'[r] = IF Holds(r, c) THEN NoWrites("open") ELSE tx[r]
    BY DEF Disconnect
  <2> QED
    BY <2>1, <2>2 DEF WorkFits, Holds
<1>6. \A p \in Probe : probe'[p].stage = "left" => \E d \in Conn : Holds(p, d)'
  BY <1>2 DEF PoolInv, Disconnect, Holds
<1> QED
  BY <1>3, <1>4, <1>5, <1>6 DEF PoolInv

\* The core's own types hold too.
LEMMA CoreTypes ==
  ASSUME TypeInv, PoolInv, [PoolNext]_<<vars, poolVars>>
  PROVE  TypeInv'
<1>1. ASSUME NEW r \in Req, Call(r) \/ Step(r) PROVE TypeInv'
  BY <1>1, NextType DEF Next
<1>2. ASSUME NEW r \in Req, Raise(r, "500") PROVE TypeInv'
  BY <1>2, RaiseType DEF Status
<1>3. ASSUME NEW r \in Req, CommitCutOff(r) PROVE TypeInv'
  BY <1>3, CommittedType DEF CommitCutOff, AnswerLost
<1>4. ASSUME NEW c \in Conn, Disconnect(c) PROVE TypeInv'
  <2>1. tx' \in [Req -> Transaction]
    BY <1>4, NoWritesType DEF Disconnect, TypeInv, TypeOK, StoreTypeOK, Fate
  <2> QED
    BY <1>4, <2>1 DEF Disconnect, TypeInv, TypeOK, StoreTypeOK, RequestsTypeOK, Fits,
                      InputFits, StatementFits, LocalsFit
<1>5. UNCHANGED vars => TypeInv'
  BY NextType
<1>6. CASE UNCHANGED <<vars, poolVars>>
  BY <1>5, <1>6
<1>7. ASSUME NEW r \in Req, Connect(r) \/ RequestStep(r) \/ PoolTimeout(r) PROVE TypeInv'
  BY <1>1, <1>2, <1>5, <1>7 DEF Connect, RequestStep, PooledStep, BrokenConnection, PoolTimeout
<1>8. ASSUME NEW p \in Probe,
             GetReadiness(p) \/ ProbeStep(p) \/ ProbeTimeout(p) \/ Connect(p)
      PROVE  TypeInv'
  BY <1>5, <1>8 DEF Connect, GetReadiness, ProbeStep, SelectOne, ProbeBroken, Finalise,
                    ProbeTimeout, NotReady
<1> QED
  BY <1>1, <1>3, <1>4, <1>6, <1>7, <1>8 DEF PoolNext

LEMMA PoolKeeps ==
  ASSUME TypeInv, PoolInv, [PoolNext]_<<vars, poolVars>>
  PROVE  PoolInv'
<1>1. CASE UNCHANGED <<vars, poolVars>>
  BY <1>1 DEF vars, poolVars, PoolInv, PoolTypeOK, LentFits, WorkFits, InUse, Holds, Running
<1>2. CASE PoolNext
  BY <1>2, CallKeeps, ConnectKeeps, PooledKeeps, FailureKeeps, ProbeKeeps, DisconnectKeeps
  DEF PoolNext, RequestStep
<1> QED
  BY <1>1, <1>2

LEMMA PoolBegins == PoolInit => TypeInv /\ PoolInv
<1> SUFFICES ASSUME PoolInit PROVE TypeInv /\ PoolInv
  OBVIOUS
<1>1. TypeInv /\ Init
  BY InitType DEF PoolInit
<1>2. PoolTypeOK /\ \A c \in Conn : lent[c] = Null
  BY PoolAssumption DEF PoolInit, PoolTypeOK
<1>3. ASSUME NEW r \in Req PROVE WorkFits(r)
  BY <1>1 DEF Init, WorkFits
<1> QED
  BY <1>1, <1>2, <1>3 DEF PoolInit, PoolInv, LentFits, Holds

\* With any number of requests, probes and connections, and however connections
\* end, nobody has two, and nobody waits for one with a row locked
\* (uow.py:14-40, auth_service.py:145-149, health.py:19-22).
THEOREM ConnectionsFit == PoolSpec => []PoolInv
<1>1. TypeInv /\ PoolInv /\ [PoolNext]_<<vars, poolVars>> => (TypeInv /\ PoolInv)'
  BY CoreTypes, PoolKeeps
<1> QED
  BY <1>1, PoolBegins, PTL DEF PoolSpec

-----------------------------------------------------------------------------
(* What the core sees of the pool.                                         *)

\* A request whose connection was cut off is at work, and has written nothing.
LEMMA CutFits ==
  ASSUME PoolInv, NEW r \in Req, Cut(r)
  PROVE  Running(r) /\ tx[r] = NoWrites("open") /\ resp[r] = NoResponse
<1>1. PICK c \in stale : Holds(r, c)
  BY DEF Cut
<1>2. c \in Conn /\ LentFits(c) /\ ~Holds(Null, c)
  BY <1>1, NullAssumption DEF PoolInv, PoolTypeOK, Holds
<1>3. Running(r) /\ \A d \in Conn : Holds(r, d) => d = c
  BY <1>1, <1>2 DEF LentFits, InUse, Holds
<1>4. WorkFits(r) /\ pc[r] # "done"
  BY <1>3 DEF PoolInv, Running, Statement
<1> QED
  BY <1>1, <1>3, <1>4 DEF WorkFits

\* Row locks are the same in both.
LEMMA CoreLocks ==
  ASSUME TypeInv, PoolInv, NEW q \in Req
  PROVE  /\ CoreTx[q].users = tx[q].users /\ CoreTx[q].dels = tx[q].dels
         /\ CoreTx[q].adds = tx[q].adds /\ CoreResp[q].tokens = resp[q].tokens
         /\ \A e : C!HoldsEmail(q, e) <=> HoldsEmail(q, e)
         /\ \A id : C!HoldsUser(q, id) <=> HoldsUser(q, id)
         /\ \A hashes : C!HoldsToken(q, hashes) <=> HoldsToken(q, hashes)
<1>1. /\ CoreTx[q].users = tx[q].users /\ CoreTx[q].dels = tx[q].dels
      /\ CoreTx[q].adds = tx[q].adds /\ CoreResp[q].tokens = resp[q].tokens
  BY CutFits DEF CoreTx, CoreResp, NoWrites, NoResponse
<1> QED
  BY <1>1 DEF C!HoldsEmail, HoldsEmail, C!HoldsUser, HoldsUser, C!HoldsToken, HoldsToken

\* What a statement sees is the same in both.
LEMMA CoreSees ==
  ASSUME TypeInv, PoolInv, NEW r \in Req
  PROVE  /\ C!SeenUsers(r) = SeenUsers(r) /\ C!SeenTokens(r) = SeenTokens(r)
         /\ \A e : C!GetByEmail(r, e) = GetByEmail(r, e)
         /\ \A id : C!GetById(r, id) = GetById(r, id)
         /\ \A id, hash : C!GetByUserAndHash(r, id, hash) = GetByUserAndHash(r, id, hash)
         /\ \A e : C!EmailTaken(r, e) <=> EmailTaken(r, e)
<1>1. C!SeenUsers(r) = SeenUsers(r) /\ C!SeenTokens(r) = SeenTokens(r)
  BY CoreLocks DEF C!SeenUsers, SeenUsers, C!SeenTokens, SeenTokens, C!Overlay, Overlay
<1>2. /\ \A e : C!GetByEmail(r, e) = GetByEmail(r, e)
      /\ \A id : C!GetById(r, id) = GetById(r, id)
      /\ \A id, hash : C!GetByUserAndHash(r, id, hash) = GetByUserAndHash(r, id, hash)
  BY <1>1 DEF C!GetByEmail, GetByEmail, C!GetById, GetById, C!GetByUserAndHash,
              GetByUserAndHash
<1> QED
  BY <1>1, <1>2 DEF C!EmailTaken, EmailTaken

\* Request r is not cut off, and no connection is cut off or replaced in use.
LiveStep(r) == ~Cut(r) /\ \A q \in Req : Cut(q)' <=> Cut(q)

\* The core has the locals of a request that is not cut off.
LEMMA CoreLocals ==
  ASSUME NEW r \in Req, ~Cut(r)
  PROVE  CorePc[r] = pc[r] /\ CoreTx[r] = tx[r] /\ CoreMem[r] = mem[r] /\ CoreResp[r] = resp[r]
BY DEF CorePc, CoreTx, CoreMem, CoreResp

\* A change of one request's entry is the same change in the core.
LEMMA CoreEntry ==
  ASSUME TypeInv, NEW r \in Req, LiveStep(r)
  PROVE  /\ \A x : pc' = [pc EXCEPT ![r] = x] => CorePc' = [CorePc EXCEPT ![r] = x]
         /\ \A x : tx' = [tx EXCEPT ![r] = x] => CoreTx' = [CoreTx EXCEPT ![r] = x]
         /\ \A x : mem' = [mem EXCEPT ![r] = x] => CoreMem' = [CoreMem EXCEPT ![r] = x]
         /\ \A x : resp' = [resp EXCEPT ![r] = x] => CoreResp' = [CoreResp EXCEPT ![r] = x]
         /\ tx' = tx => CoreTx' = CoreTx
         /\ mem' = mem => CoreMem' = CoreMem
         /\ resp' = resp => CoreResp' = CoreResp
<1> USE DEF TypeInv, TypeOK, StoreTypeOK, RequestsTypeOK, LiveStep
<1>1. ASSUME NEW x, pc' = [pc EXCEPT ![r] = x]
      PROVE  CorePc' = [CorePc EXCEPT ![r] = x]
  BY <1>1 DEF CorePc
<1>2. ASSUME NEW x, tx' = [tx EXCEPT ![r] = x]
      PROVE  CoreTx' = [CoreTx EXCEPT ![r] = x]
  BY <1>2 DEF CoreTx
<1>3. ASSUME NEW x, mem' = [mem EXCEPT ![r] = x]
      PROVE  CoreMem' = [CoreMem EXCEPT ![r] = x]
  BY <1>3 DEF CoreMem
<1>4. ASSUME NEW x, resp' = [resp EXCEPT ![r] = x]
      PROVE  CoreResp' = [CoreResp EXCEPT ![r] = x]
  BY <1>4 DEF CoreResp
<1>5. tx' = tx => CoreTx' = CoreTx
  BY DEF CoreTx
<1>6. mem' = mem => CoreMem' = CoreMem
  BY DEF CoreMem
<1>7. resp' = resp => CoreResp' = CoreResp
  BY DEF CoreResp
<1> QED
  BY <1>1, <1>2, <1>3, <1>4, <1>5, <1>6, <1>7

\* The parts that statements are made of.
LEMMA CoreParts ==
  ASSUME TypeInv, PoolInv, NEW r \in Req, LiveStep(r)
  PROVE  /\ \A x : Goto(r, x) => C!Goto(r, x)
         /\ \A status : Raise(r, status) => C!Raise(r, status)
         /\ \A x, y : Read(r, x, y) => C!Read(r, x, y)
         /\ \A x : Wrote(r, x) => C!Wrote(r, x)
         /\ \A rows : WriteUsers(r, rows) => C!WriteUsers(r, rows)
         /\ \A row : InsertToken(r, row) => C!InsertToken(r, row)
         /\ \A hashes : DeleteTokens(r, hashes) => C!DeleteTokens(r, hashes)
         /\ Commit(r) => C!Commit(r)
         /\ \A status, given : Answer(r, status, given) => C!Answer(r, status, given)
         /\ \A x, y : Begin(r, x, y) => C!Begin(r, x, y)
         /\ \A x : Refuse(r, x) => C!Refuse(r, x)
<1>0. CoreTx[r] = tx[r] /\ CorePc[r] = pc[r] /\ CoreMem[r] = mem[r]
  BY CoreLocals DEF LiveStep
<1>1. \A x : Goto(r, x) => C!Goto(r, x)
  BY CoreEntry DEF Goto, C!Goto
<1>2. ASSUME NEW status, NEW given, Answer(r, status, given)
      PROVE  C!Answer(r, status, given)
  <2> DEFINE x == [status |-> status, tokens |-> given]
  <2>1. resp' = [resp EXCEPT ![r] = x] /\ mem' = [mem EXCEPT ![r] = NoMemory] /\ Goto(r, "done")
    BY <1>2 DEF Answer
  <2> HIDE DEF x
  <2>2. CoreResp' = [CoreResp EXCEPT ![r] = x]
    BY <2>1, CoreEntry
  <2>3. CoreMem' = [CoreMem EXCEPT ![r] = NoMemory] /\ NoMemory = C!NoMemory
    BY <2>1, CoreEntry DEF NoMemory, C!NoMemory
  <2>4. C!Goto(r, "done")
    BY <1>1, <2>1
  <2> QED
    BY <2>2, <2>3, <2>4 DEF C!Answer, x
<1>3. \A status : Raise(r, status) => C!Raise(r, status)
  BY <1>2, CoreEntry DEF Raise, C!Raise, Rollback, C!Rollback, NoWrites, C!NoWrites
<1>4. \A x, y : Read(r, x, y) => C!Read(r, x, y)
  BY <1>1, CoreEntry DEF Read, C!Read
<1>5. \A x : Wrote(r, x) => C!Wrote(r, x)
  BY <1>1, CoreEntry DEF Wrote, C!Wrote
<1>6. \A rows : WriteUsers(r, rows) => C!WriteUsers(r, rows)
  BY <1>0, CoreEntry DEF WriteUsers, C!WriteUsers, Overlay, C!Overlay
<1>7. ASSUME NEW row, InsertToken(r, row)
      PROVE  C!InsertToken(r, row)
  <2> DEFINE x == [tx[r] EXCEPT !.adds = @ \cup {row}]
  <2>1. tx' = [tx EXCEPT ![r] = x]
    BY <1>7 DEF InsertToken
  <2> HIDE DEF x
  <2>2. CoreTx' = [CoreTx EXCEPT ![r] = x]
    BY <2>1, CoreEntry
  <2> QED
    BY <1>0, <2>2 DEF C!InsertToken, x
<1>8. \A hashes : DeleteTokens(r, hashes) => C!DeleteTokens(r, hashes)
  BY <1>0, CoreEntry DEF DeleteTokens, C!DeleteTokens
<1>9. Commit(r) => C!Commit(r)
  BY CoreSees, CoreEntry DEF Commit, C!Commit, NoWrites, C!NoWrites
<1>10. \A x, y : Begin(r, x, y) => C!Begin(r, x, y)
  BY <1>0, <1>1, CoreEntry DEF Begin, C!Begin
<1>11. \A x : Refuse(r, x) => C!Refuse(r, x)
  BY <1>0, <1>2, CoreEntry DEF Refuse, C!Refuse
<1> QED
  BY <1>1, <1>2, <1>3, <1>4, <1>5, <1>6, <1>7, <1>8, <1>9, <1>10, <1>11

-----------------------------------------------------------------------------
(* The endpoints and the statements.                                       *)

\* A client presents, and names, the same to both.
LEMMA CoreInput ==
  ASSUME TypeInv, PoolInv
  PROVE  /\ C!Presentable = Presentable /\ C!Target = Target /\ C!Blank = Blank
         /\ \A t, type : C!Decodes(t, type) <=> Decodes(t, type)
<1>1. C!Delivered = Delivered
  BY CoreLocks DEF C!Delivered, Delivered
<1> QED
  BY <1>1 DEF C!Presentable, Presentable, C!Target, Target, C!Blank, Blank, C!Decodes, Decodes

LEMMA CoreCall ==
  ASSUME TypeInv, PoolInv, NEW r \in Req, LiveStep(r), Call(r)
  PROVE  C!Call(r)
<1> USE CoreParts, CoreInput
<1>1. CASE PostRegister(r)
  BY <1>1 DEF PostRegister, C!PostRegister, C!Call
<1>2. CASE PostLogin(r)
  BY <1>2 DEF PostLogin, C!PostLogin, C!Call
<1>3. CASE PostRefresh(r)
  BY <1>3 DEF PostRefresh, C!PostRefresh, C!Call
<1>4. CASE PostLogout(r)
  BY <1>4 DEF PostLogout, C!PostLogout, C!Call
<1>5. \A body : BeginAuthenticated(r, body) => C!BeginAuthenticated(r, body)
  BY DEF BeginAuthenticated, C!BeginAuthenticated
<1>6. CASE PostUsers(r)
  BY <1>5, <1>6 DEF PostUsers, C!PostUsers, C!Call
<1>7. CASE PutUser(r)
  BY <1>5, <1>7 DEF PutUser, C!PutUser, C!Call
<1>8. CASE DeleteUser(r)
  BY <1>5, <1>8 DEF DeleteUser, C!DeleteUser, C!Call
<1> QED
  BY <1>1, <1>2, <1>3, <1>4, <1>6, <1>7, <1>8 DEF Call

\* What the statements compute from their row and their locals.
LEMMA CoreValues ==
  ASSUME NEW r \in Req, ~Cut(r)
  PROVE  /\ C!Presented(r) = Presented(r) /\ C!RowExpiry = RowExpiry
         /\ \A id : C!CreateRefreshToken(r, id) = CreateRefreshToken(r, id)
         /\ \A id : C!CreateAccessToken(r, id) = CreateAccessToken(r, id)
         /\ \A role, active : C!NewAccount(r, role, active) = NewAccount(r, role, active)
         /\ \A u : C!Usable(u) <=> Usable(u)
         /\ \A u, input : C!Allowed(u, input) <=> Allowed(u, input)
         /\ C!ServiceEntry = ServiceEntry
         /\ \A u : C!MayChange(r, u) <=> MayChange(r, u)
         /\ \A u : C!UpdatedRow(r, u) = UpdatedRow(r, u)
         /\ C!MustRevoke(r) <=> MustRevoke(r)
<1>1. CoreMem[r] = mem[r]
  BY CoreLocals
<1>2. \A u : C!NewRole(r, u) = NewRole(r, u) /\ C!NewActive(r, u) = NewActive(r, u)
  BY DEF C!NewRole, NewRole, C!NewActive, NewActive, C!Given, Given
<1>3. /\ C!RowExpiry = RowExpiry
      /\ \A id : C!CreateRefreshToken(r, id) = CreateRefreshToken(r, id)
      /\ \A id : C!CreateAccessToken(r, id) = CreateAccessToken(r, id)
  BY DEF C!RowExpiry, RowExpiry, C!CreateRefreshToken, CreateRefreshToken,
         C!CreateAccessToken, CreateAccessToken, C!CreateToken, CreateToken,
         C!WholeSeconds, WholeSeconds
<1>4. /\ C!Presented(r) = Presented(r)
      /\ \A role, active : C!NewAccount(r, role, active) = NewAccount(r, role, active)
      /\ \A u : C!Usable(u) <=> Usable(u)
      /\ \A u, input : C!Allowed(u, input) <=> Allowed(u, input)
      /\ C!ServiceEntry = ServiceEntry
  BY DEF C!Presented, Presented, C!NewAccount, NewAccount, C!Usable, Usable,
         C!Allowed, Allowed, C!ServiceEntry, ServiceEntry
<1>5. \A u : C!MayChange(r, u) <=> MayChange(r, u)
  BY <1>2 DEF C!MayChange, MayChange
<1>6. /\ \A u : C!UpdatedRow(r, u) = UpdatedRow(r, u)
      /\ C!MustRevoke(r) <=> MustRevoke(r)
  BY <1>1, <1>2 DEF C!UpdatedRow, UpdatedRow, C!MustRevoke, MustRevoke
<1> QED
  BY <1>3, <1>4, <1>5, <1>6

\* A row lock that the pool's request need not wait for is none in the core.
LEMMA CoreWaits ==
  ASSUME TypeInv, PoolInv, NEW r \in Req
  PROVE  /\ C!Others(r) = Others(r)
         /\ \A e : (\A q \in Others(r) : ~HoldsEmail(q, e)) =>
                     \A q \in C!Others(r) : ~C!HoldsEmail(q, e)
         /\ \A id : (\A q \in Others(r) : ~HoldsUser(q, id)) =>
                      \A q \in C!Others(r) : ~C!HoldsUser(q, id)
         /\ \A hashes : (\A q \in Others(r) : ~HoldsToken(q, hashes)) =>
                          \A q \in C!Others(r) : ~C!HoldsToken(q, hashes)
BY CoreLocks DEF C!Others, Others

\* The forms that several statements share.
LEMMA CoreForms ==
  ASSUME TypeInv, PoolInv, NEW r \in Req, LiveStep(r)
  PROVE  /\ \A here, next : LookupNewEmail(r, here, next) => C!LookupNewEmail(r, here, next)
         /\ \A here, row, next : AddUser(r, here, row, next) => C!AddUser(r, here, row, next)
         /\ \A here, next : SetCreatedBy(r, here, next) => C!SetCreatedBy(r, here, next)
         /\ \A here : MintPair(r, here) => C!MintPair(r, here)
         /\ \A here, next : DeleteByHash(r, here, next) => C!DeleteByHash(r, here, next)
<1>0. /\ ~Cut(r) /\ CorePc[r] = pc[r] /\ CoreMem[r] = mem[r]
  BY CoreLocals DEF LiveStep
<1>1. \A here, next : LookupNewEmail(r, here, next) => C!LookupNewEmail(r, here, next)
  BY <1>0, CoreSees, CoreParts DEF LookupNewEmail, C!LookupNewEmail
<1>2. \A here, row, next : AddUser(r, here, row, next) => C!AddUser(r, here, row, next)
  BY <1>0, CoreSees, CoreParts, CoreEntry, CoreWaits DEF AddUser, C!AddUser
<1>3. ASSUME NEW here, NEW next, SetCreatedBy(r, here, next)
      PROVE  C!SetCreatedBy(r, here, next)
  <2>1. PICK u \in GetById(r, r) :
          /\ WriteUsers(r, {[u EXCEPT !.createdBy = r]})
          /\ mem' = [mem EXCEPT ![r] = [mem[r] EXCEPT !.user = [u EXCEPT !.createdBy = r]]]
    BY <1>3 DEF SetCreatedBy
  <2> DEFINE row == [u EXCEPT !.createdBy = r]
             locals == [mem[r] EXCEPT !.user = row]
  <2>2. C!WriteUsers(r, {row}) /\ u \in C!GetById(r, r)
    BY <2>1, CoreParts, CoreSees
  <2>3. mem' = [mem EXCEPT ![r] = locals]
    BY <2>1
  <2> HIDE DEF locals
  <2>4. CoreMem' = [CoreMem EXCEPT ![r] = locals]
    BY <2>3, CoreEntry
  <2>5. C!Wrote(r, next) /\ CorePc[r] = here
    BY <1>0, <1>3, CoreParts DEF SetCreatedBy
  <2> QED
    BY <1>0, <2>2, <2>4, <2>5 DEF C!SetCreatedBy, locals
<1>4. ASSUME NEW here, MintPair(r, here)
      PROVE  C!MintPair(r, here)
  <2> DEFINE id == mem[r].user.id
             refreshToken == CreateRefreshToken(r, id)
             row == [hash |-> refreshToken, user |-> id, expires |-> RowExpiry]
             locals == [mem[r] EXCEPT !.pair = {CreateAccessToken(r, id), refreshToken}]
  <2>1. InsertToken(r, row) /\ mem' = [mem EXCEPT ![r] = locals] /\ pc[r] = here
        /\ Wrote(r, "commit")
    BY <1>4 DEF MintPair
  <2>2. C!InsertToken(r, row) /\ C!Wrote(r, "commit")
    BY <2>1, CoreParts
  <2> HIDE DEF locals
  <2>3. CoreMem' = [CoreMem EXCEPT ![r] = locals]
    BY <2>1, CoreEntry
  <2> QED
    BY <1>0, <2>1, <2>2, <2>3, CoreValues DEF C!MintPair, locals
<1>5. \A here, next : DeleteByHash(r, here, next) => C!DeleteByHash(r, here, next)
  BY <1>0, CoreValues, CoreParts, CoreEntry, CoreWaits DEF DeleteByHash, C!DeleteByHash
<1> QED
  BY <1>1, <1>2, <1>3, <1>4, <1>5

\* Every statement is the same statement of the core.
LEMMA CoreStep ==
  ASSUME TypeInv, PoolInv, NEW r \in Req, LiveStep(r), Step(r)
  PROVE  C!Step(r)
<1>0. ~Cut(r) /\ CorePc[r] = pc[r] /\ CoreMem[r] = mem[r]
  BY CoreLocals DEF LiveStep
<1> USE <1>0, CoreForms, CoreParts, CoreSees, CoreValues, CoreWaits, CoreEntry
        DEF C!Step, C!AuthStep, C!UserStep
<1>1. CASE RegisterLookup(r)
  BY <1>1 DEF RegisterLookup, C!RegisterLookup
<1>2. CASE RegisterAdd(r)
  BY <1>2 DEF RegisterAdd, C!RegisterAdd
<1>3. CASE RegisterUpdate(r)
  BY <1>3 DEF RegisterUpdate, C!RegisterUpdate
<1>4. CASE IssueTokenPair(r)
  BY <1>4 DEF IssueTokenPair, C!IssueTokenPair
<1>5. CASE LoginAuthenticate(r)
  BY <1>5 DEF LoginAuthenticate, C!LoginAuthenticate
<1>6. CASE RefreshGetToken(r)
  BY <1>6 DEF RefreshGetToken, C!RefreshGetToken
<1>7. CASE RefreshGetUser(r)
  <2>1. CASE \A u \in GetById(r, Presented(r).sub) : ~Usable(u)
    BY <1>7, <2>1 DEF RefreshGetUser, C!RefreshGetUser
  <2>2. CASE \E u \in GetById(r, Presented(r).sub) :
               /\ Usable(u)
               /\ Read(r, [mem[r] EXCEPT !.user = u], "refresh.delete_by_hash")
    <3>1. PICK u \in C!GetById(r, C!Presented(r).sub) :
            /\ C!Usable(u)
            /\ C!Read(r, [mem[r] EXCEPT !.user = u], "refresh.delete_by_hash")
      BY <2>2
    <3>2. CorePc[r] = "refresh.get_by_id"
      BY <1>7 DEF RefreshGetUser
    <3> QED
      BY <3>1, <3>2 DEF C!RefreshGetUser
  <2> QED
    BY <1>7, <2>1, <2>2 DEF RefreshGetUser
<1>8. CASE RefreshDelete(r)
  BY <1>8 DEF RefreshDelete, C!RefreshDelete
<1>9. CASE RefreshIssue(r)
  BY <1>9 DEF RefreshIssue, C!RefreshIssue
<1>10. CASE LogoutDelete(r)
  BY <1>10 DEF LogoutDelete, C!LogoutDelete
<1>11. CASE VerifyAccessToken(r)
  BY <1>11 DEF VerifyAccessToken, C!VerifyAccessToken
<1>12. CASE CreateLookup(r)
  BY <1>12 DEF CreateLookup, C!CreateLookup
<1>13. CASE CreateAdd(r)
  BY <1>13 DEF CreateAdd, C!CreateAdd
<1>14. CASE CreateUpdate(r)
  BY <1>14 DEF CreateUpdate, C!CreateUpdate
<1>15. CASE UpdateLoad(r)
  BY <1>15 DEF UpdateLoad, C!UpdateLoad
<1>16. CASE UpdateWrite(r)
  BY <1>16 DEF UpdateWrite, C!UpdateWrite
<1>17. CASE DeactivateLoad(r)
  BY <1>17 DEF DeactivateLoad, C!DeactivateLoad
<1>18. CASE DeactivateWrite(r)
  BY <1>18 DEF DeactivateWrite, C!DeactivateWrite
<1>19. CASE RevokeSnapshot(r)
  BY <1>19 DEF RevokeSnapshot, C!RevokeSnapshot
<1>20. CASE RevokeDelete(r)
  BY <1>20 DEF RevokeDelete, C!RevokeDelete
<1>21. CASE Finish(r)
  BY <1>21 DEF Finish, C!Finish
<1> QED
  BY <1>1, <1>2, <1>3, <1>4, <1>5, <1>6, <1>7, <1>8, <1>9, <1>10, <1>11, <1>12, <1>13,
     <1>14, <1>15, <1>16, <1>17, <1>18, <1>19, <1>20, <1>21 DEF Step, AuthStep, UserStep

-----------------------------------------------------------------------------
(* The steps of the pool.                                                  *)

\* A connection that is cut off is the one that a request has.
LEMMA CutIs ==
  ASSUME PoolInv, NEW r \in Req, NEW c \in Conn, Holds(r, c)
  PROVE  Cut(r) <=> c \in stale
<1>1. \A d \in Conn : Holds(r, d) => d = c
  BY NullAssumption DEF PoolInv, LentFits, Holds
<1> QED
  BY <1>1 DEF Cut, PoolInv, PoolTypeOK

\* Nothing is seen of a step on connections alone.
LEMMA Unseen ==
  ASSUME UNCHANGED vars, \A q \in Req : Cut(q)' <=> Cut(q)
  PROVE  UNCHANGED C!vars
BY DEF vars, C!vars, CoreTx, CorePc, CoreMem, CoreResp

\* A request that gets, or has, a connection that is cut off has failed.
LEMMA Fails ==
  ASSUME TypeInv, NEW r \in Req, Running(r), ~Cut(r), Cut(r)',
         \A q \in Req \ {r} : (Cut(q)' <=> Cut(q)) /\ tx'[q] = tx[q],
         UNCHANGED <<now, users, tokens, pc, req, actor, mem, resp>>
  PROVE  C!DatabaseError(r)
<1>1. CoreTx' = [CoreTx EXCEPT ![r] = NoWrites("rolledback")]
  BY DEF CoreTx
<1>2. CorePc' = [CorePc EXCEPT ![r] = "done"]
  BY DEF CorePc
<1>3. CoreMem' = [CoreMem EXCEPT ![r] = NoMemory]
  BY DEF CoreMem
<1>4. CoreResp' = [CoreResp EXCEPT ![r] = [status |-> "500", tokens |-> {}]]
  BY DEF CoreResp
<1>5. C!Running(r)
  BY CoreLocals DEF C!Running, Running, C!Statement, Statement
<1>6. C!Answer(r, "500", {})
  BY <1>2, <1>3, <1>4 DEF C!Answer, C!Goto, C!NoMemory, NoMemory
<1>7. C!Rollback(r)
  BY <1>1 DEF C!Rollback, C!NoWrites, NoWrites
<1> QED
  BY <1>5, <1>6, <1>7 DEF C!DatabaseError, C!Raise

\* What the pool does when it discards a connection, others do not notice.
LEMMA DiscardUnseen ==
  ASSUME PoolInv, NEW x \in Req \cup Probe, NEW c \in Conn, Holds(x, c), Discard(c),
         NEW q \in Req, q # x
  PROVE  Cut(q)' <=> Cut(q)
<1>1. /\ x # Null /\ q # Null
      /\ lent \in [Conn -> Req \cup Probe \cup {Null}] /\ stale \subseteq Conn
  BY NullAssumption, PoolAssumption DEF PoolInv, PoolTypeOK
<1> QED
  BY <1>1 DEF Discard, Return, Free, Cut, Holds

LEMMA CallMaps ==
  ASSUME TypeInv, PoolInv, NEW r \in Req, Call(r), UNCHANGED poolVars
  PROVE  C!Call(r)
<1>1. ~Cut(r)
  BY CallGoes, CutFits DEF Running, Statement
<1>2. LiveStep(r)
  BY <1>1 DEF LiveStep, Cut, Holds, poolVars
<1> QED
  BY <1>2, CoreCall

LEMMA PooledMaps ==
  ASSUME TypeInv, PoolInv, NEW r \in Req, PooledStep(r)
  PROVE  C!Step(r)
<1>1. PICK c \in Conn \ stale :
        /\ Holds(r, c) /\ Step(r)
        /\ IF Closes(r) THEN Return(c) ELSE lent' = lent
  BY DEF PooledStep
<1>2. ~Cut(r) /\ r # Null
  BY <1>1, CutIs, NullAssumption
<1>3. stale \subseteq Conn /\ stale' = stale /\ \A d \in stale : lent'[d] = lent[d]
  BY <1>1 DEF PooledStep, PoolInv, PoolTypeOK, Return
<1>4. LiveStep(r)
  BY <1>2, <1>3 DEF LiveStep, Cut, Holds
<1> QED
  BY <1>1, <1>4, CoreStep

LEMMA BrokenMaps ==
  ASSUME TypeInv, PoolInv, NEW r \in Req, BrokenConnection(r)
  PROVE  UNCHANGED C!vars
<1> USE DEF TypeInv, TypeOK, StoreTypeOK, RequestsTypeOK
<1>1. PICK c \in stale : Holds(r, c) /\ Discard(c)
  BY DEF BrokenConnection
<1>2. c \in Conn /\ Cut(r)
  BY <1>1 DEF PoolInv, PoolTypeOK, Cut
<1>3. ~Cut(r)'
  <2>1. Return(c) /\ stale' \subseteq Conn
    BY <1>1, <1>2, DiscardShrinks
  <2>2. \A d \in Conn : lent'[d] # r
    BY <1>1, <1>2, <2>1, ReturnFits
  <2> QED
    BY <2>1, <2>2 DEF Cut, Holds
<1>4. \A q \in Req : q # r => (Cut(q)' <=> Cut(q))
  BY <1>1, <1>2, DiscardUnseen
<1>5. CoreTx' = CoreTx
  BY <1>2, <1>3, <1>4 DEF BrokenConnection, Raise, Rollback, CoreTx
<1>6. CorePc' = CorePc
  BY <1>2, <1>3, <1>4 DEF BrokenConnection, Raise, Answer, Goto, CorePc
<1>7. CoreMem' = CoreMem
  BY <1>2, <1>3, <1>4 DEF BrokenConnection, Raise, Answer, CoreMem
<1>8. CoreResp' = CoreResp
  BY <1>2, <1>3, <1>4 DEF BrokenConnection, Raise, Answer, CoreResp
<1> QED
  BY <1>5, <1>6, <1>7, <1>8 DEF BrokenConnection, Raise, Rollback, C!vars

LEMMA TimeoutMaps ==
  ASSUME TypeInv, PoolInv, NEW r \in Req, PoolTimeout(r)
  PROVE  C!DatabaseError(r)
<1>1. ~Cut(r) /\ Raise(r, "500") /\ Running(r)
  BY DEF PoolTimeout, Waiting, Cut, PoolInv, PoolTypeOK
<1>2. LiveStep(r)
  BY <1>1 DEF LiveStep, Cut, Holds, PoolTimeout, poolVars
<1>3. C!Running(r)
  BY <1>1, CoreLocals DEF C!Running, Running, C!Statement, Statement
<1> QED
  BY <1>1, <1>2, <1>3, CoreParts DEF C!DatabaseError

LEMMA CutOffMaps ==
  ASSUME TypeInv, PoolInv, NEW r \in Req, CommitCutOff(r)
  PROVE  C!AnswerLost(r)
<1>1. PICK c \in Conn \ stale : Holds(r, c) /\ Discard(c)
  BY DEF CommitCutOff
<1>2. ~Cut(r)
  BY <1>1, CutIs
<1>3. ~Cut(r)'
  <2>1. Return(c) /\ stale' \subseteq Conn
    BY <1>1, DiscardShrinks
  <2>2. \A d \in Conn : lent'[d] # r
    BY <1>1, <2>1, ReturnFits
  <2> QED
    BY <2>1, <2>2 DEF Cut, Holds
<1>4. LiveStep(r)
  BY <1>1, <1>2, <1>3, DiscardUnseen DEF LiveStep
<1>5. C!Commit(r) /\ C!Answer(r, "500", {})
  BY <1>4, CoreParts DEF CommitCutOff
<1>6. CorePc[r] = "commit"
  BY <1>2, CoreLocals DEF CommitCutOff
<1> QED
  BY <1>5, <1>6 DEF CommitCutOff, C!AnswerLost

LEMMA ConnectMaps ==
  ASSUME TypeInv, PoolInv, NEW x \in Req \cup Probe, Connect(x)
  PROVE  UNCHANGED C!vars \/ (x \in Req /\ C!DatabaseError(x))
<1>1. PICK c \in Free : lent' = [lent EXCEPT ![c] = x]
  BY DEF Connect
<1>2. /\ lent \in [Conn -> Req \cup Probe \cup {Null}] /\ c \in Conn /\ lent[c] = Null
      /\ stale \subseteq Conn /\ stale' = stale /\ UNCHANGED vars /\ x # Null
  BY <1>1, NullAssumption, PoolAssumption DEF PoolInv, PoolTypeOK, Free, Holds, Connect
<1>3. \A q \in Req : q # x => (Cut(q)' <=> Cut(q))
  BY <1>1, <1>2, NullAssumption DEF Cut, Holds
<1>4. ~Cut(x)
  BY <1>2 DEF Connect, Waiting, Cut
<1>5. CASE x \in Req /\ c \in stale
  <2>1. Cut(x)' /\ Running(x)
    BY <1>1, <1>2, <1>5 DEF Cut, Holds, Connect, Waiting, Working
  <2> QED
    BY <1>2, <1>3, <1>4, <1>5, <2>1, Fails DEF vars
<1>6. CASE x \notin Req \/ c \notin stale
  <2>1. x \in Req => ~Cut(x)'
    BY <1>1, <1>2, <1>4, <1>6 DEF Cut, Holds
  <2> QED
    BY <1>2, <1>3, <1>4, <2>1, Unseen
<1> QED
  BY <1>5, <1>6

LEMMA ProbeMaps ==
  ASSUME TypeInv, PoolInv, NEW p \in Probe,
         GetReadiness(p) \/ ProbeStep(p) \/ ProbeTimeout(p)
  PROVE  UNCHANGED C!vars
<1>1. UNCHANGED vars /\ \A q \in Req : q # p
  BY PoolAssumption
  DEF GetReadiness, ProbeStep, SelectOne, ProbeBroken, Finalise, ProbeTimeout, NotReady
<1>2. CASE UNCHANGED <<lent, stale>>
  BY <1>1, <1>2, Unseen DEF Cut, Holds
<1>3. CASE \E c \in stale : Holds(p, c) /\ Discard(c)
  BY <1>1, <1>3, DiscardUnseen, Unseen DEF PoolInv, PoolTypeOK
<1>4. CASE \E c \in Conn : Holds(p, c) /\ Return(c) /\ stale' = stale \ {c}
  <2>1. lent \in [Conn -> Req \cup Probe \cup {Null}] /\ stale \subseteq Conn
    BY DEF PoolInv, PoolTypeOK
  <2>2. \A q \in Req : Cut(q)' <=> Cut(q)
    BY <1>1, <1>4, <2>1, NullAssumption DEF Cut, Holds, Return
  <2> QED
    BY <1>1, <2>2, Unseen
<1> QED
  BY <1>2, <1>3, <1>4
  DEF GetReadiness, ProbeStep, SelectOne, ProbeBroken, Finalise, ProbeTimeout

LEMMA DisconnectMaps ==
  ASSUME TypeInv, PoolInv, NEW c \in Conn, Disconnect(c)
  PROVE  UNCHANGED C!vars \/ \E r \in Req : C!DatabaseError(r)
<1>1. /\ c \notin stale /\ stale' = stale \cup {c} /\ lent' = lent
      /\ tx' = [r \in Req |-> IF Holds(r, c) THEN NoWrites("open") ELSE tx[r]]
      /\ UNCHANGED <<now, users, tokens, pc, req, actor, mem, resp>>
  BY DEF Disconnect
<1>2. \A q \in Req : ~Holds(q, c) => (Cut(q)' <=> Cut(q)) /\ tx'[q] = tx[q]
  BY <1>1 DEF Cut, Holds
<1>3. CASE \E r \in Req : Holds(r, c)
  <2>1. PICK r \in Req : Holds(r, c)
    BY <1>3
  <2>2. Running(r) /\ ~Cut(r)
    BY <1>1, <2>1, CutIs, NullAssumption DEF PoolInv, LentFits, InUse, Holds
  <2>3. Cut(r)'
    BY <1>1, <2>1 DEF Cut, Holds
  <2>4. \A q \in Req \ {r} : ~Holds(q, c)
    BY <2>1 DEF Holds
  <2> QED
    BY <1>1, <1>2, <2>2, <2>3, <2>4, Fails
<1>4. CASE \A r \in Req : ~Holds(r, c)
  <2>1. tx' = tx
    BY <1>1, <1>4 DEF TypeInv, TypeOK, StoreTypeOK
  <2> QED
    BY <1>1, <1>2, <1>4, <2>1, Unseen DEF vars
<1> QED
  BY <1>3, <1>4

-----------------------------------------------------------------------------
(* The pool implements the core.                                           *)

LEMMA PoolInitMaps == PoolInit => C!Init
<1> SUFFICES ASSUME PoolInit PROVE C!Init
  OBVIOUS
<1>1. \A r \in Req : ~Cut(r)
  BY DEF PoolInit, Cut
<1>2. Init /\ CoreTx = tx /\ CorePc = pc /\ CoreMem = mem /\ CoreResp = resp
  BY <1>1, InitType DEF PoolInit, CoreTx, CorePc, CoreMem, CoreResp, TypeInv, TypeOK,
                        StoreTypeOK, RequestsTypeOK
<1> QED
  BY <1>2 DEF Init, C!Init, NoWrites, C!NoWrites, NoMemory, C!NoMemory, NoResponse,
              C!NoResponse, Blank, C!Blank, SeedRow, C!SeedRow, SeedToken, C!SeedToken,
              SeedRefresh, C!SeedRefresh

LEMMA PoolStepMaps ==
  ASSUME TypeInv, PoolInv, [PoolNext]_<<vars, poolVars>>
  PROVE  [C!Next]_C!vars
<1>1. ASSUME NEW r \in Req, C!Call(r) \/ C!Step(r) \/ C!DatabaseError(r) \/ C!AnswerLost(r)
      PROVE  C!Next
  BY <1>1 DEF C!Next, C!Fault
<1>2. CASE UNCHANGED <<vars, poolVars>>
  BY <1>2, Unseen DEF poolVars, Cut, Holds
<1>3. ASSUME NEW r \in Req,
             \/ Call(r) /\ UNCHANGED poolVars
             \/ RequestStep(r) \/ PoolTimeout(r) \/ Connect(r) \/ CommitCutOff(r)
      PROVE  [C!Next]_C!vars
  BY <1>1, <1>3, CallMaps, PooledMaps, BrokenMaps, TimeoutMaps, ConnectMaps, CutOffMaps
  DEF RequestStep
<1>4. ASSUME NEW p \in Probe,
             GetReadiness(p) \/ ProbeStep(p) \/ ProbeTimeout(p) \/ Connect(p)
      PROVE  [C!Next]_C!vars
  BY <1>1, <1>4, ProbeMaps, ConnectMaps
<1>5. ASSUME NEW c \in Conn, Disconnect(c)
      PROVE  [C!Next]_C!vars
  BY <1>1, <1>5, DisconnectMaps
<1> QED
  BY <1>2, <1>3, <1>4, <1>5 DEF PoolNext

\* Under any number of connections, the requests do what the core says: a
\* connection that is closed, missing or lost behind a COMMIT is one of the
\* core's own faults (db_helper.py:22-42, uow.py:14-40).
THEOREM PoolImplementsCore == PoolSpec => ImplementsCore
<1>1. TypeInv /\ PoolInv /\ [PoolNext]_<<vars, poolVars>> => (TypeInv /\ PoolInv)'
  BY CoreTypes, PoolKeeps
<1>2. TypeInv /\ PoolInv /\ [PoolNext]_<<vars, poolVars>> => [C!Next]_C!vars
  BY PoolStepMaps
<1> QED
  BY <1>1, <1>2, PoolBegins, PoolInitMaps, PTL DEF PoolSpec, ImplementsCore, C!Spec

-----------------------------------------------------------------------------
(* What holds of the core holds on the pool.                               *)

D == INSTANCE RefinementProofs WITH
       tx <- CoreTx, pc <- CorePc, mem <- CoreMem, resp <- CoreResp, Faults <- TRUE

\* The theorems about the core are about the core that the pool implements.
LEMMA SameCore == (C!Init <=> D!Init) /\ (C!Next <=> D!Next)
BY
  DEF C!User, D!User, C!TokenType, D!TokenType, C!Token, D!Token, C!WholeSeconds,
      D!WholeSeconds, C!CreateToken, D!CreateToken, C!CreateAccessToken,
      D!CreateAccessToken, C!CreateRefreshToken, D!CreateRefreshToken, C!RowExpiry,
      D!RowExpiry, C!Decodes, D!Decodes, C!ClockTick, D!ClockTick, C!Role, D!Role,
      C!UserRow, D!UserRow, C!TokenRow, D!TokenRow, C!Fate, D!Fate, C!Transaction,
      D!Transaction, C!NoWrites, D!NoWrites, C!Overlay, D!Overlay, C!SeenUsers,
      D!SeenUsers, C!SeenTokens, D!SeenTokens, C!GetByEmail, D!GetByEmail, C!GetById,
      D!GetById, C!GetByUserAndHash, D!GetByUserAndHash, C!HoldsEmail, D!HoldsEmail,
      C!HoldsUser, D!HoldsUser, C!HoldsToken, D!HoldsToken, C!Others, D!Others,
      C!EmailTaken, D!EmailTaken, C!WriteUsers, D!WriteUsers, C!InsertToken,
      D!InsertToken, C!DeleteTokens, D!DeleteTokens, C!Commit, D!Commit, C!Rollback,
      D!Rollback, C!Op, D!Op, C!Statement, D!Statement, C!Input, D!Input, C!Blank,
      D!Blank, C!Memory, D!Memory, C!NoMemory, D!NoMemory, C!DomainError, D!DomainError,
      C!Status, D!Status, C!Response, D!Response, C!NoResponse, D!NoResponse, C!Running,
      D!Running, C!Delivered, D!Delivered, C!Goto, D!Goto, C!Answer, D!Answer, C!Begin,
      D!Begin, C!Refuse, D!Refuse, C!Raise, D!Raise, C!Finish, D!Finish, C!Read, D!Read,
      C!Wrote, D!Wrote, C!DatabaseError, D!DatabaseError, C!AnswerLost, D!AnswerLost,
      C!Crash, D!Crash, C!LookupNewEmail, D!LookupNewEmail, C!AddUser, D!AddUser,
      C!SetCreatedBy, D!SetCreatedBy, C!NewAccount, D!NewAccount, C!RegisterLookup,
      D!RegisterLookup, C!RegisterAdd, D!RegisterAdd, C!RegisterUpdate,
      D!RegisterUpdate, C!MintPair, D!MintPair, C!IssueTokenPair, D!IssueTokenPair,
      C!LoginAuthenticate, D!LoginAuthenticate, C!Presented, D!Presented, C!Usable,
      D!Usable, C!RefreshGetToken, D!RefreshGetToken, C!RefreshGetUser,
      D!RefreshGetUser, C!DeleteByHash, D!DeleteByHash, C!RefreshDelete,
      D!RefreshDelete, C!RefreshIssue, D!RefreshIssue, C!LogoutDelete, D!LogoutDelete,
      C!Allowed, D!Allowed, C!ServiceEntry, D!ServiceEntry, C!VerifyAccessToken,
      D!VerifyAccessToken, C!AuthStep, D!AuthStep, C!CreateLookup, D!CreateLookup,
      C!CreateAdd, D!CreateAdd, C!CreateUpdate, D!CreateUpdate, C!Given, D!Given,
      C!NewRole, D!NewRole, C!NewActive, D!NewActive, C!MayChange, D!MayChange,
      C!UpdateLoad, D!UpdateLoad, C!UpdatedRow, D!UpdatedRow, C!MustRevoke,
      D!MustRevoke, C!UpdateWrite, D!UpdateWrite, C!DeactivateLoad, D!DeactivateLoad,
      C!DeactivateWrite, D!DeactivateWrite, C!RevokeSnapshot, D!RevokeSnapshot,
      C!RevokeDelete, D!RevokeDelete, C!UserStep, D!UserStep, C!vars, D!vars, C!SeedRow,
      D!SeedRow, C!SeedToken, D!SeedToken, C!SeedRefresh, D!SeedRefresh, C!Init, D!Init,
      C!Presentable, D!Presentable, C!Target, D!Target, C!PostRegister, D!PostRegister,
      C!PostLogin, D!PostLogin, C!PostRefresh, D!PostRefresh, C!PostLogout,
      D!PostLogout, C!BeginAuthenticated, D!BeginAuthenticated, C!PostUsers,
      D!PostUsers, C!PutUser, D!PutUser, C!DeleteUser, D!DeleteUser, C!Call, D!Call,
      C!Step, D!Step, C!Fault, D!Fault, C!Tick, D!Tick, C!Next, D!Next

LEMMA CoreAssumptions == D!TimeAssumption /\ D!SeedAssumption /\ D!NullAssumption
<1>1. D!TimeAssumption
  BY TimeAssumption DEF TimeAssumption, D!TimeAssumption
<1>2. D!SeedAssumption
  BY SeedAssumption DEF SeedAssumption, D!SeedAssumption, D!Op, Op, D!Role, Role
<1>3. D!NullAssumption
  BY NullAssumption DEF NullAssumption, D!NullAssumption, D!Token, Token, D!User, User,
     D!TokenType, TokenType, D!UserRow, UserRow, D!Op, Op, D!Role, Role
<1> QED
  BY <1>1, <1>2, <1>3

\* The pool is a run of the core.
LEMMA PoolRunsCore == PoolSpec => D!Spec
<1>1. C!Init <=> D!Init
  BY SameCore
<1>2. C!Next <=> D!Next
  BY SameCore
<1>3. [C!Next]_C!vars => [D!Next]_D!vars
  BY <1>2 DEF C!vars, D!vars
<1> QED
  BY <1>1, <1>3, PoolImplementsCore, PTL DEF ImplementsCore, C!Spec, D!Spec

\* So every theorem about the core is one about what the pool shows of it.
LEMMA CoreIsSafe ==
  PoolSpec => [](D!AllOrNothing /\ D!LockOrder /\ D!UniqueEmail /\ D!NoSelfPromotion)
<1>1. D!TimeAssumption
  BY CoreAssumptions
<1>2. D!SeedAssumption
  BY CoreAssumptions
<1>3. D!NullAssumption
  BY CoreAssumptions
<1>4. D!Spec => []D!AllOrNothing
  BY <1>1, <1>2, <1>3, D!WritesAreAtomic
<1>5. D!Spec => []D!LockOrder
  BY <1>1, <1>2, <1>3, D!LocksInOrder
<1>6. D!Spec => []D!UniqueEmail
  BY <1>1, <1>2, <1>3, D!EmailsAreUnique
<1>7. D!Spec => []D!NoSelfPromotion
  BY <1>1, <1>2, <1>3, D!AdminsAreGranted
<1> QED
  BY <1>4, <1>5, <1>6, <1>7, PoolRunsCore, PTL

\* The core knows which requests have committed.
LEMMA SameCommits ==
  ASSUME PoolInv, NEW r \in Req
  PROVE  Committed(r) <=> D!Committed(r)
BY CutFits DEF Committed, D!Committed, CoreTx, NoWrites

\* Whichever connections end, and whenever: a request on the pool leaves all of its
\* writes or none, although one that is cut off goes on to its next statement
\* before it fails (uow.py:22-40, db_helper.py:22-42).
THEOREM AtomicOnPool == PoolSpec => []AllOrNothing
<1>1. D!AllOrNothing /\ PoolInv => AllOrNothing
  BY SameCommits DEF D!AllOrNothing, AllOrNothing
<1> QED
  BY <1>1, CoreIsSafe, ConnectionsFit, PTL

\* Nor do cut connections open a way to a second account under one address, or to
\* a role that no administrator granted.
THEOREM SafeOnPool == PoolSpec => [](UniqueEmail /\ NoSelfPromotion)
<1>1. D!UniqueEmail => UniqueEmail
  BY DEF D!UniqueEmail, UniqueEmail
<1>2. D!NoSelfPromotion /\ PoolInv => NoSelfPromotion
  BY SameCommits
  DEF D!NoSelfPromotion, NoSelfPromotion, D!GrantedTo, GrantedTo, D!Grants, Grants
<1> QED
  BY <1>1, <1>2, CoreIsSafe, ConnectionsFit, PTL

\* And what the service promises it also promises on the pool: whatever becomes of
\* connections, each request amounts to one step of Service, or to none.
THEOREM PoolImplementsService == PoolSpec => D!ImplementsService
<1>1. D!TimeAssumption
  BY CoreAssumptions
<1>2. D!SeedAssumption
  BY CoreAssumptions
<1>3. D!NullAssumption
  BY CoreAssumptions
<1> QED
  BY <1>1, <1>2, <1>3, D!ServiceIsImplemented, PoolRunsCore, PTL

-----------------------------------------------------------------------------
(* Rows and connections together.                                          *)

\* A request that is waited for, for a row, has a connection.
LEMMA LockersAreConnected ==
  ASSUME PoolInv, LockOrder, NEW r \in Req, NEW q \in WaitsFor(r)
  PROVE  q \in Req /\ \E c \in Conn : Holds(q, c)
<1>1. q \in Req /\ (tx[q].users # {} \/ tx[q].dels # {})
  BY DEF WaitsFor, Others, HoldsEmail, HoldsUser, HoldsToken
<1>2. pc[q] # "done" /\ tx[q] # NoWrites("open")
  BY <1>1 DEF LockOrder, LockFits, NoWrites
<1> QED
  BY <1>1, <1>2 DEF PoolInv, WorkFits

\* For any number of requests, probes and connections: those who have a connection
\* wait at most for rows, and never in a circle; those who have none are not
\* waited for.
THEOREM PoolDeadlockFree == PoolSpec => []NoPoolDeadlock
<1>1. ASSUME D!LockOrder, PoolInv
      PROVE  LockOrder
  <2>1. ASSUME NEW r \in Req, Cut(r) PROVE LockFits(r)
    BY <1>1, <2>1, CutFits DEF LockFits, NoWrites, Committed
  <2>2. ASSUME NEW r \in Req, ~Cut(r) PROVE LockFits(r)
    BY <1>1, <2>2, CoreLocals
    DEF D!LockOrder, D!LockFits, LockFits, Committed, D!Committed
  <2> QED
    BY <2>1, <2>2 DEF LockOrder
<1>2. ASSUME LockOrder, PoolInv
      PROVE  NoPoolDeadlock
  <2> SUFFICES ASSUME NEW Circle \in SUBSET (Req \cup Probe), Circle # {},
                      \A x \in Circle : Awaits(x) \cap Circle # {}
               PROVE  FALSE
    BY DEF NoPoolDeadlock
  <2> DEFINE Connected == {x \in Circle : \E c \in Conn : Holds(x, c)}
  <2>1. \A x \in Circle : ~Waiting(x) => x \in Req /\ WaitsFor(x) \cap Circle # {}
    BY DEF Awaits
  <2>2. \A x \in Circle : Waiting(x) => Connected # {}
    BY DEF Awaits
  <2>3. \A x \in Circle : ~Waiting(x) => WaitsFor(x) \cap Connected # {}
    BY <1>2, <2>1, LockersAreConnected
  <2>4. \A x \in Connected : ~Waiting(x)
    BY DEF Waiting
  <2>5. Connected \in SUBSET Req /\ Connected # {}
    BY <2>1, <2>2, <2>3, <2>4
  <2> QED
    BY <1>2, <2>3, <2>4, <2>5, OrderBreaksCircles DEF NoCircularWait
<1> QED
  BY <1>1, <1>2, CoreIsSafe, ConnectionsFit, PTL
=============================================================================
