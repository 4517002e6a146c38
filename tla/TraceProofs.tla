----------------------------- MODULE TraceProofs -----------------------------
(***************************************************************************)
(* Every error body carries the id of its own request, for any number of   *)
(* requests that are served at a time and any context they start in.       *)
(***************************************************************************)
EXTENDS TraceId, TLAPS

\* Two requests have the same id only if a client sent it.
LEMMA OwnIsOwn ==
  ASSUME TypeOK, NEW r \in Request, NEW q \in Request \ {r}, sent[r] = Empty, Own(q) = Own(r)
  PROVE  sent[q] = Own(r)
BY DEF Own, Fresh

\* An id is one that a client sent or that was made for a request.
LEMMA OwnType ==
  ASSUME TypeOK, NEW r \in Request
  PROVE  Own(r) \in Trace
BY DEF Own, Fresh, Place, Trace, TypeOK

LEMMA TypeStep ==
  ASSUME TypeOK, NEW r \in Request, Step(r)
  PROVE  TypeOK'
<1> USE DEF TypeOK, Goto, Stage
<1>1. CASE Accept(r)
  <2>1. Ambient \subseteq Trace \cup {Empty}
    BY DEF Ambient
  <2>2. Received \subseteq Trace \cup {Empty} /\ ClientId \subseteq Trace
    BY DEF Received, Trace
  <2> QED
    BY <1>1, <2>1, <2>2 DEF Accept
<1>2. CASE Dispatch(r)
  <2>1. /\ traceId' = [traceId EXCEPT ![r] = Own(r)] /\ ctx' = [ctx EXCEPT ![r] = Own(r)]
        /\ Own(r) \in Trace
    BY <1>2, OwnType DEF Dispatch, Own
  <2> QED
    BY <1>2, <2>1 DEF Dispatch
<1>3. CASE CallNext(r)
  BY <1>3 DEF CallNext
<1>4. CASE Endpoint(r)
  BY <1>4 DEF Endpoint
<1>5. CASE Handle(r)
  <2>1. Fresh(r, "body") \in Trace
    BY DEF Fresh, Place, Trace
  <2> QED
    BY <1>5, <2>1 DEF Handle
<1>6. CASE Finally(r)
  BY <1>6 DEF Finally
<1> QED
  BY <1>1, <1>2, <1>3, <1>4, <1>5, <1>6 DEF Step

\* A step of request r gives r its own id and leaves the others alone.
LEMMA FitStep ==
  ASSUME TraceInv, NEW r \in Request, Step(r), NEW q \in Request
  PROVE  TraceFits(q)'
<1> USE DEF TraceInv, TypeOK, Goto
<1>1. TraceFits(q) /\ TraceFits(r)
  BY DEF TraceInv
<1>2. CASE q # r
  BY <1>1, <1>2 DEF Step, Accept, Dispatch, CallNext, Endpoint, Handle, Finally, TraceFits, Own
<1>3. CASE q = r
  <2>1. CASE Accept(r)
    BY <1>1, <1>3, <2>1 DEF Accept, TraceFits
  <2>2. CASE Dispatch(r)
    BY <1>1, <1>3, <2>2 DEF Dispatch, TraceFits, Own
  <2>3. CASE CallNext(r)
    BY <1>1, <1>3, <2>3 DEF CallNext, TraceFits, Own
  <2>4. CASE Endpoint(r)
    BY <1>1, <1>3, <2>4 DEF Endpoint, TraceFits, Own, Outcome
  <2>5. CASE Handle(r)
    <3>1. Own(r) # Empty
      BY TraceAssumption, OwnType
    <3>2. body'[r] = Own(r)
      BY <1>1, <2>5, <3>1 DEF Handle, TraceFits
    <3> QED
      BY <1>1, <1>3, <2>5, <3>2 DEF Handle, TraceFits, Own
  <2>6. CASE Finally(r)
    BY <1>1, <1>3, <2>6 DEF Finally, TraceFits, Own
  <2> QED
    BY <2>1, <2>2, <2>3, <2>4, <2>5, <2>6 DEF Step
<1> QED
  BY <1>2, <1>3

LEMMA TracesFit == Spec => []TraceInv
<1>1. Init => TraceInv
  BY DEF Init, TraceInv, TypeOK, TraceFits, Stage
<1>2. TraceInv /\ [Next]_vars => TraceInv'
  <2> SUFFICES ASSUME TraceInv, [Next]_vars PROVE TraceInv'
    OBVIOUS
  <2>1. CASE Next
    BY <2>1, TypeStep, FitStep DEF Next, TraceInv
  <2>2. CASE UNCHANGED vars
    BY <2>2 DEF vars, TraceInv, TypeOK, TraceFits, Own
  <2> QED
    BY <2>1, <2>2
<1> QED
  BY <1>1, <1>2, PTL DEF Spec

\* However many requests overlap, and whatever context a request is started in,
\* the traceId of an error body is the id of the request it answers and, if the
\* application made it up, of no other.
THEOREM TracesAreOwn == Spec => []ReportedTraceIsOwn
<1>1. TraceInv => ReportedTraceIsOwn
  <2> SUFFICES ASSUME TraceInv, NEW r \in Request, Answered(r), body[r] # Empty
               PROVE  /\ body[r] = header[r]
                      /\ sent[r] # Empty => body[r] = sent[r]
                      /\ sent[r] = Empty =>
                           \A q \in Request \ {r} : traceId[q] = body[r] => sent[q] = body[r]
    BY DEF ReportedTraceIsOwn
  <2>1. body[r] = Own(r) /\ header[r] = Own(r)
    BY DEF TraceInv, TraceFits, Answered
  <2>2. ASSUME sent[r] = Empty, NEW q \in Request \ {r}, traceId[q] = body[r]
        PROVE  sent[q] = body[r]
    <3>1. Own(r) # Empty
      BY TraceAssumption, OwnType DEF TraceInv
    <3>2. Own(q) = Own(r)
      BY <2>1, <2>2, <3>1 DEF TraceInv, TraceFits
    <3> QED
      BY <2>1, <2>2, <3>2, OwnIsOwn DEF TraceInv
  <2> QED
    BY <2>1, <2>2 DEF Own
<1> QED
  BY <1>1, TracesFit, PTL
=============================================================================
