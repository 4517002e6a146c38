--------------------------- MODULE StartupProofs ---------------------------
(***************************************************************************)
(* StartupInv is inductive, for any number of containers, scripts and      *)
(* faults, and gives the two safety properties of start-up.                *)
(***************************************************************************)
EXTENDS Startup, TLAPS

\* A process that stops gives up its row and disturbs no other process.
LEMMA StopKeeps ==
  ASSUME StartupInv, NEW p \in Process, Stop(p), faults' \in 0..MaxFaults
  PROVE  StartupInv'
<1> USE DEF StartupInv
<1>1. TypeOK'
  BY DEF TypeOK, Stop, Goto, Stopped, Stage
<1>2. OneBootstrapAccount'
  BY DEF OneBootstrapAccount, Stop
<1>3. OnePending'
  BY DEF OnePending, Others, Stop, TypeOK
<1>4. ASSUME NEW q \in Process PROVE StageFits(q)'
  <2>1. CASE q = p
    BY <2>1, StartupAssumption DEF StageFits, Stop, Goto, Stopped, TypeOK
  <2>2. CASE q # p
    BY <2>2 DEF StageFits, Stop, Goto, TypeOK
  <2> QED
    BY <2>1, <2>2
<1> QED
  BY <1>1, <1>2, <1>3, <1>4

\* A step that changes the stage of one process only.
LEMMA AdvanceKeeps ==
  ASSUME StartupInv, NEW p \in Process, NEW here \in Stage, NEW next \in Stage,
         Advance(p, here, next), UNCHANGED <<migrated, accounts, pending>>,
         StageFits(p)'
  PROVE  StartupInv'
<1> USE DEF StartupInv
<1>1. TypeOK'
  BY DEF TypeOK, Advance, Goto
<1>2. OneBootstrapAccount' /\ OnePending'
  BY DEF OneBootstrapAccount, OnePending
<1>3. ASSUME NEW q \in Process PROVE StageFits(q)'
  <2>1. CASE q # p
    BY <2>1 DEF StageFits, Advance, Goto, TypeOK
  <2> QED
    BY <2>1
<1> QED
  BY <1>1, <1>2, <1>3

\* The tables, once created, stay.
LEMMA MigratingKeeps ==
  ASSUME StartupInv, NEW p \in Process, stage[p] = "migrate.commit",
         NEW next \in {"admin.lookup", Stopped(p)}, Goto(p, next),
         migrated' = TRUE, UNCHANGED <<dbUp, accounts, pending>>, faults' \in 0..MaxFaults
  PROVE  StartupInv'
<1> USE DEF StartupInv
<1>1. next \in {"admin.lookup", "down", "exited"}
  BY DEF Stopped
<1>2. TypeOK'
  BY <1>1 DEF TypeOK, Goto, Stage, Statement
<1>3. OneBootstrapAccount' /\ OnePending'
  BY DEF OneBootstrapAccount, OnePending
<1>4. ASSUME NEW q \in Process PROVE StageFits(q)'
  <2>1. CASE q = p
    BY <1>1, <2>1 DEF StageFits, Goto, TypeOK
  <2>2. CASE q # p
    BY <2>2 DEF StageFits, Goto, TypeOK
  <2> QED
    BY <2>1, <2>2
<1> QED
  BY <1>2, <1>3, <1>4

\* The commit of the administrator: the only pending row becomes the account.
LEMMA CreatingKeeps ==
  ASSUME StartupInv, NEW p \in Process, stage[p] = "admin.commit",
         NEW next \in {"admin.refresh", Stopped(p)}, Goto(p, next),
         accounts' = accounts \cup pending[p],
         pending' = [pending EXCEPT ![p] = {}],
         UNCHANGED <<dbUp, migrated>>, faults' \in 0..MaxFaults
  PROVE  StartupInv'
<1> USE DEF StartupInv
<1>1. next \in {"admin.refresh", "exited"} \/ (next = "down" /\ p \in Container)
  BY DEF Stopped
<1>2. pending[p] # {} /\ StageFits(p) /\ migrated
  BY DEF StageFits
<1>3. accounts = {} /\ accounts' = pending[p]
       /\ \A q \in Others(p) : pending[q] = {}
  BY <1>2 DEF OnePending
<1>4. TypeOK'
  BY <1>1 DEF TypeOK, Goto, Stage, Statement
<1>5. OneBootstrapAccount'
  BY <1>2, <1>3 DEF OneBootstrapAccount, StageFits
<1>6. \A q \in Process : pending'[q] = {}
  BY <1>3 DEF Others, TypeOK
<1>7. OnePending'
  BY <1>6 DEF OnePending
<1>8. ASSUME NEW q \in Process PROVE StageFits(q)'
  <2>1. CASE q = p
    BY <1>1, <1>2, <1>3, <1>6, <2>1 DEF StageFits, Goto, TypeOK
  <2>2. CASE q # p
    <3>1. StageFits(q) /\ pending[q] = {} /\ stage'[q] = stage[q]
      BY <1>3, <2>2 DEF Others, Goto, TypeOK
    <3>2. pending'[q] = {} /\ accounts' # {} /\ migrated'
      BY <1>2, <1>3, <1>6
    <3> QED
      BY <3>1, <3>2 DEF StageFits
  <2> QED
    BY <2>1, <2>2
<1> QED
  BY <1>4, <1>5, <1>7, <1>8

LEMMA StartupNext == StartupInv /\ [Next]_vars => StartupInv'
<1> SUFFICES ASSUME StartupInv, [Next]_vars PROVE StartupInv'
  OBVIOUS
<1> USE DEF StartupInv
<1>1. ASSUME NEW p \in Process, Step(p) PROVE StartupInv'
  <2>0. StageFits(p) /\ TypeOK /\ faults \in 0..MaxFaults
    BY DEF TypeOK
  <2>1. CASE WaitForPostgres(p)
    <3>1. Advance(p, "waiting", "migrate.check") /\ UNCHANGED <<migrated, accounts, pending>>
      BY <2>1 DEF WaitForPostgres
    <3>2. StageFits(p)'
      BY <2>0, <3>1 DEF StageFits, Advance, Goto, TypeOK
    <3> QED
      BY <3>1, <3>2, AdvanceKeeps DEF Stage, Statement
  <2>2. CASE MigrateCheck(p)
    <3> DEFINE next == IF migrated THEN "admin.lookup" ELSE "migrate.create"
    <3>1. Advance(p, "migrate.check", next) /\ UNCHANGED <<migrated, accounts, pending>>
      BY <2>2 DEF MigrateCheck
    <3>2. StageFits(p)'
      BY <2>0, <3>1 DEF StageFits, Advance, Goto, TypeOK
    <3> QED
      BY <3>1, <3>2, AdvanceKeeps DEF Stage, Statement
  <2>3. CASE MigrateCreate(p)
    <3>1. CASE migrated
      BY <2>0, <2>3, <3>1, StopKeeps DEF MigrateCreate
    <3>2. CASE ~migrated
      BY <2>0, <2>3, <3>2, AdvanceKeeps
         DEF MigrateCreate, StageFits, Advance, Goto, TypeOK, Stage, Statement
    <3> QED
      BY <3>1, <3>2
  <2>4. CASE MigrateCommit(p)
    BY <2>0, <2>4, MigratingKeeps DEF MigrateCommit, Advance
  <2>5. CASE AdminLookup(p)
    <3>1. CASE ~migrated
      BY <2>0, <2>5, <3>1, StopKeeps DEF AdminLookup
    <3>2. CASE migrated
      BY <2>0, <2>5, <3>2, AdvanceKeeps
         DEF AdminLookup, Done, StageFits, Advance, Goto, TypeOK, Stage, Statement
    <3> QED
      BY <3>1, <3>2
  <2>6. CASE AdminInsert(p)
    <3>1. CASE accounts # {}
      BY <2>0, <2>6, <3>1, StopKeeps DEF AdminInsert
    <3>2. CASE accounts = {}
      <4> DEFINE row == [by |-> p, createdBy |-> Null, admin |-> TRUE]
      <4>1. row \in Account /\ row.by = p
        BY DEF Account
      <4> HIDE DEF row
      <4>2. /\ stage[p] = "admin.insert" /\ stage' = [stage EXCEPT ![p] = "admin.update"]
            /\ pending' = [pending EXCEPT ![p] = {row}]
            /\ UNCHANGED <<dbUp, migrated, accounts, faults>>
            /\ \A q \in Others(p) : pending[q] = {}
        BY <2>6, <3>2 DEF AdminInsert, Advance, Goto, row
      <4>3. TypeOK'
        BY <4>1, <4>2 DEF TypeOK, Stage, Statement
      <4>4. OneBootstrapAccount'
        BY <4>2 DEF OneBootstrapAccount
      <4>5. OnePending'
        BY <3>2, <4>2 DEF OnePending, Others, TypeOK
      <4>6. ASSUME NEW q \in Process PROVE StageFits(q)'
        <5>1. CASE q = p
          BY <2>0, <4>1, <4>2, <5>1 DEF StageFits, TypeOK
        <5>2. CASE q # p
          BY <4>2, <5>2 DEF StageFits, TypeOK
        <5> QED
          BY <5>1, <5>2
      <4> QED
        BY <4>3, <4>4, <4>5, <4>6
    <3> QED
      BY <3>1, <3>2
  <2>7. CASE AdminUpdate(p)
    <3>1. /\ stage[p] = "admin.update" /\ stage' = [stage EXCEPT ![p] = "admin.commit"]
          /\ pending' = [pending EXCEPT ![p] = {[a EXCEPT !.createdBy = p] : a \in pending[p]}]
          /\ UNCHANGED <<dbUp, migrated, accounts, faults>>
      BY <2>7 DEF AdminUpdate, Advance, Goto
    <3>2. PICK a \in Account : pending[p] = {a} /\ a.by = p
      BY <2>0, <3>1 DEF StageFits, TypeOK
    <3> DEFINE row == [a EXCEPT !.createdBy = p]
    <3>3. row \in Account /\ row.by = p /\ row.createdBy = p
      BY <3>2 DEF Account
    <3>4. pending' = [pending EXCEPT ![p] = {row}]
      BY <3>1, <3>2
    <3> HIDE DEF row
    <3>5. TypeOK'
      BY <3>1, <3>3, <3>4 DEF TypeOK, Stage, Statement
    <3>6. OneBootstrapAccount'
      BY <3>1 DEF OneBootstrapAccount
    <3>7. OnePending'
      BY <3>1, <3>2, <3>4 DEF OnePending, Others, TypeOK
    <3>8. ASSUME NEW q \in Process PROVE StageFits(q)'
      <4>1. CASE q = p
        BY <2>0, <3>1, <3>3, <3>4, <4>1 DEF StageFits, TypeOK
      <4>2. CASE q # p
        BY <3>1, <3>4, <4>2 DEF StageFits, TypeOK
      <4> QED
        BY <4>1, <4>2
    <3> QED
      BY <3>5, <3>6, <3>7, <3>8
  <2>8. CASE AdminCommit(p)
    BY <2>0, <2>8, CreatingKeeps DEF AdminCommit, Advance
  <2>9. CASE AdminRefresh(p)
    <3> DEFINE next == Done(p)
    <3>1. Advance(p, "admin.refresh", next) /\ UNCHANGED <<migrated, accounts, pending>>
      BY <2>9 DEF AdminRefresh
    <3>2. StageFits(p)'
      BY <2>0, <3>1 DEF StageFits, Done, Advance, Goto, TypeOK
    <3> QED
      BY <3>1, <3>2, AdvanceKeeps DEF Stage, Statement, Done
  <2> QED
    BY <1>1, <2>1, <2>2, <2>3, <2>4, <2>5, <2>6, <2>7, <2>8, <2>9 DEF Step
<1>2. ASSUME NEW p \in Process, StartContainer(p) \/ StartScript(p) PROVE StartupInv'
  <2>0. StageFits(p) /\ TypeOK
    OBVIOUS
  <2>1. CASE StartContainer(p)
    <3>1. Advance(p, "down", "waiting") /\ UNCHANGED <<migrated, accounts, pending>>
      BY <2>1 DEF StartContainer
    <3>2. StageFits(p)'
      BY <2>0, <3>1 DEF StageFits, Advance, Goto, TypeOK
    <3> QED
      BY <3>1, <3>2, AdvanceKeeps DEF Stage, Statement
  <2>2. CASE StartScript(p)
    <3> DEFINE next == IF dbUp THEN "admin.lookup" ELSE "exited"
    <3>1. Advance(p, "idle", next) /\ UNCHANGED <<migrated, accounts, pending>>
      BY <2>2 DEF StartScript
    <3>2. StageFits(p)'
      BY <2>0, <3>1 DEF StageFits, Advance, Goto, TypeOK
    <3> QED
      BY <3>1, <3>2, AdvanceKeeps DEF Stage, Statement
  <2> QED
    BY <1>2, <2>1, <2>2
<1>3. ASSUME NEW p \in Process, Fail(p) \/ CommitUnacknowledged(p) PROVE StartupInv'
  <2>0. faults' \in 0..MaxFaults
    BY <1>3, StartupAssumption DEF Fail, CommitUnacknowledged, Fault, TypeOK
  <2>1. CASE Fail(p)
    BY <2>0, <2>1, StopKeeps DEF Fail
  <2>2. CASE CommitUnacknowledged(p)
    BY <2>0, <2>2, MigratingKeeps, CreatingKeeps DEF CommitUnacknowledged
  <2> QED
    BY <1>3, <2>1, <2>2
<1>4. CASE ChangeAccount
  <2>1. PICK a \in accounts, admin \in BOOLEAN :
          accounts' = (accounts \ {a}) \cup {[a EXCEPT !.admin = admin]}
    BY <1>4 DEF ChangeAccount
  <2> DEFINE row == [a EXCEPT !.admin = admin]
  <2>2. a \in Account /\ row \in Account /\ row.by = a.by /\ row.createdBy = a.createdBy
    BY DEF TypeOK, Account
  <2>3. accounts' = {row}
    BY <2>1 DEF OneBootstrapAccount
  <2> HIDE DEF row
  <2>4. UNCHANGED <<dbUp, migrated, pending, stage, faults>>
    BY <1>4 DEF ChangeAccount
  <2>5. TypeOK'
    BY <2>2, <2>3, <2>4 DEF TypeOK
  <2>6. OneBootstrapAccount'
    BY <2>2, <2>3 DEF OneBootstrapAccount
  <2>7. OnePending' /\ \A p \in Process : StageFits(p)'
    BY <2>1, <2>3, <2>4 DEF OnePending, StageFits
  <2> QED
    BY <2>5, <2>6, <2>7
<1>5. CASE DatabaseStops
  <2>1. /\ stage' = [p \in Process |-> IF stage[p] \in Statement THEN Stopped(p) ELSE stage[p]]
        /\ pending' = [p \in Process |-> {}]
        /\ dbUp' = FALSE /\ UNCHANGED <<migrated, accounts>>
    BY <1>5 DEF DatabaseStops
  <2>2. faults' \in 0..MaxFaults
    BY <1>5, StartupAssumption DEF DatabaseStops, Fault, TypeOK
  <2>3. TypeOK'
    BY <2>1, <2>2 DEF TypeOK, Stopped, Stage
  <2>4. OneBootstrapAccount' /\ OnePending'
    BY <2>1 DEF OneBootstrapAccount, OnePending
  <2>5. ASSUME NEW p \in Process PROVE StageFits(p)'
    <3>1. stage'[p] \notin {"admin.update", "admin.commit"} /\ pending'[p] = {}
      BY <2>1 DEF Stopped, Statement
    <3>2. \/ stage'[p] = stage[p]
          \/ stage'[p] = "exited"
          \/ (stage'[p] = "down" /\ p \in Container)
      BY <2>1 DEF Stopped
    <3>3. StageFits(p)
      OBVIOUS
    <3> QED
      BY <2>1, <3>1, <3>2, <3>3 DEF StageFits
  <2> QED
    BY <2>3, <2>4, <2>5
<1>6. CASE DatabaseStarts \/ UNCHANGED vars
  <2>1. dbUp' \in BOOLEAN /\ UNCHANGED <<migrated, accounts, pending, stage, faults>>
    BY <1>6 DEF DatabaseStarts, vars, TypeOK
  <2>2. TypeOK' /\ OneBootstrapAccount' /\ OnePending'
    BY <2>1 DEF TypeOK, OneBootstrapAccount, OnePending
  <2>3. \A p \in Process : StageFits(p)'
    BY <2>1 DEF StageFits
  <2> QED
    BY <2>2, <2>3
<1> QED
  BY <1>1, <1>2, <1>3, <1>4, <1>5, <1>6 DEF Next

-----------------------------------------------------------------------------

\* In every run of start-up, however many processes race and fail, what each
\* of them has established at its statement stays true.
THEOREM StartupCorrect == Spec => []StartupInv
<1>1. Init => StartupInv
  <2> SUFFICES ASSUME Init PROVE StartupInv
    OBVIOUS
  <2>1. TypeOK
    <3>1. stage \in [Process -> Stage]
      BY DEF Init, Stage
    <3>2. pending \in [Process -> SUBSET Account] /\ accounts \subseteq Account
      BY DEF Init
    <3>3. dbUp \in BOOLEAN /\ migrated \in BOOLEAN
      BY DEF Init
    <3>4. faults \in 0..MaxFaults
      BY StartupAssumption DEF Init
    <3> QED
      BY <3>1, <3>2, <3>3, <3>4 DEF TypeOK
  <2>2. OneBootstrapAccount /\ OnePending
    BY DEF Init, OneBootstrapAccount, OnePending
  <2>3. ASSUME NEW p \in Process PROVE StageFits(p)
    BY DEF Init, StageFits
  <2> QED
    BY <2>1, <2>2, <2>3 DEF StartupInv
<1> QED
  BY <1>1, StartupNext, PTL DEF Spec

\* The race for the bootstrap administrator has one winner, for any number of
\* containers and scripts.
THEOREM OneAccount == Spec => []OneBootstrapAccount
<1>1. StartupInv => OneBootstrapAccount
  BY DEF StartupInv
<1> QED
  BY <1>1, StartupCorrect, PTL

\* No application ever serves before the tables and the account exist.
THEOREM ServesBootstrapped == Spec => []ServingIsBootstrapped
<1>1. StartupInv => ServingIsBootstrapped
  BY DEF StartupInv, ServingIsBootstrapped, StageFits, Process
<1> QED
  BY <1>1, StartupCorrect, PTL
=============================================================================
