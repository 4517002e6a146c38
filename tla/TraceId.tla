------------------------------ MODULE TraceId ------------------------------
(***************************************************************************)
(* The X-Trace-Id middleware, the exception handlers and the context       *)
(* variable that connects them (core/middleware/trace_id.py,               *)
(* api/v1/exceptions).                                                     *)
(*                                                                         *)
(* A request is served by two asyncio tasks: the one that runs dispatch,   *)
(* and the one in which call_next runs the application.  A task starts     *)
(* with a copy of its creator's context.  The server may start the next    *)
(* request of a connection from the task of an earlier one, so a request   *)
(* may find any value in the variable when it begins.                      *)
(***************************************************************************)

CONSTANTS
  Request,
  ClientId,   \* values clients send in the header
  Empty       \* "", also a header that is absent

\* str(uuid4()), called for request r by the middleware or by an error body.
Fresh(r, place) == <<r, place>>
Place == {"middleware", "body"}
Trace == ClientId \cup (Request \X Place)

ASSUME TraceAssumption == Empty \notin Trace

Outcome == {"ok", "domain", "validation", "unmapped"}

VARIABLES
  stage,     \* where each request is
  sent,      \* its X-Trace-Id header
  traceId,   \* the local trace_id of dispatch
  ctx,       \* _trace_id_ctx in dispatch's task
  appCtx,    \* _trace_id_ctx in the application's task
  token,     \* what reset will restore
  outcome,   \* what the endpoint did
  header,    \* X-Trace-Id of the response
  body       \* traceId in the error body of the response

vars == <<stage, sent, traceId, ctx, appCtx, token, outcome, header, body>>

Stage == {"new", "dispatch", "call_next", "endpoint", "handler", "finally", "answered"}

TypeOK ==
  /\ stage \in [Request -> Stage]
  /\ \A f \in {sent, traceId, ctx, appCtx, token, header, body} :
       f \in [Request -> Trace \cup {Empty}]
  /\ outcome \in [Request -> Outcome \cup {Empty}]

Init ==
  /\ stage = [r \in Request |-> "new"]
  /\ \E nothing \in {[r \in Request |-> Empty]} :
       /\ sent = nothing /\ traceId = nothing /\ ctx = nothing /\ appCtx = nothing
       /\ token = nothing /\ outcome = nothing /\ header = nothing /\ body = nothing

-----------------------------------------------------------------------------

Goto(r, next) == stage' = [stage EXCEPT ![r] = next]

\* Contexts in which the server may start a request: an empty one, or that of
\* a request it is serving.
Ambient == {Empty} \cup {ctx[q] : q \in {p \in Request : stage[p] # "new"}}

\* Ids that clients were given, with which they may name later requests.
Received == {header[q] : q \in Request}

Accept(r) ==
  /\ stage[r] = "new"
  /\ \E h \in ClientId \cup Received \cup {Empty}, c \in Ambient :
       /\ sent' = [sent EXCEPT ![r] = h]
       /\ ctx' = [ctx EXCEPT ![r] = c]
  /\ Goto(r, "dispatch")
  /\ UNCHANGED <<traceId, appCtx, token, outcome, header, body>>

\* Mutant: the variable is only set when the client sends no id.
DispatchKeeping(r) ==
  /\ stage[r] = "dispatch"
  /\ LET id == IF sent[r] # Empty THEN sent[r] ELSE Fresh(r, "middleware")
     IN  /\ traceId' = [traceId EXCEPT ![r] = id]
         /\ ctx' = [ctx EXCEPT ![r] = IF sent[r] # Empty THEN @ ELSE id]
  /\ token' = [token EXCEPT ![r] = ctx[r]]
  /\ Goto(r, "call_next")
  /\ UNCHANGED <<sent, appCtx, outcome, header, body>>

\* trace_id = header or uuid4; token = _trace_id_ctx.set(trace_id)
Dispatch(r) ==
  /\ stage[r] = "dispatch"
  /\ LET id == IF sent[r] # Empty THEN sent[r] ELSE Fresh(r, "middleware")
     IN  /\ traceId' = [traceId EXCEPT ![r] = id]
         /\ ctx' = [ctx EXCEPT ![r] = id]
  /\ token' = [token EXCEPT ![r] = ctx[r]]
  /\ Goto(r, "call_next")
  /\ UNCHANGED <<sent, appCtx, outcome, header, body>>

CallNext(r) ==
  /\ stage[r] = "call_next"
  /\ appCtx' = [appCtx EXCEPT ![r] = ctx[r]]
  /\ Goto(r, "endpoint")
  /\ UNCHANGED <<sent, traceId, ctx, token, outcome, header, body>>

\* The endpoint returns, or raises an EntityError, a validation error or
\* something else.
Endpoint(r) ==
  /\ stage[r] = "endpoint"
  /\ \E o \in Outcome : outcome' = [outcome EXCEPT ![r] = o]
  /\ Goto(r, IF outcome'[r] \in {"domain", "validation"} THEN "handler" ELSE "finally")
  /\ UNCHANGED <<sent, traceId, ctx, appCtx, token, header, body>>

\* get_trace_id() or str(uuid4()), in both handlers.
Handle(r) ==
  /\ stage[r] = "handler"
  /\ body' = [body EXCEPT ![r] = IF appCtx[r] # Empty THEN appCtx[r] ELSE Fresh(r, "body")]
  /\ Goto(r, "finally")
  /\ UNCHANGED <<sent, traceId, ctx, appCtx, token, outcome, header>>

\* reset(token).  A response gets the header; an exception that no handler
\* maps goes on to the server's error page, which has neither id.
Finally(r) ==
  /\ stage[r] = "finally"
  /\ ctx' = [ctx EXCEPT ![r] = token[r]]
  /\ header' = [header EXCEPT ![r] = IF outcome[r] = "unmapped" THEN Empty ELSE traceId[r]]
  /\ Goto(r, "answered")
  /\ UNCHANGED <<sent, traceId, appCtx, token, outcome, body>>

Step(r) ==
  \/ Accept(r) \/ Dispatch(r) \/ CallNext(r) \/ Endpoint(r) \/ Handle(r) \/ Finally(r)

Next == \E r \in Request : Step(r)

Spec == Init /\ [][Next]_vars

-----------------------------------------------------------------------------

Answered(r) == stage[r] = "answered"

\* A client that reports the traceId of an error body reports the id of its
\* own request: the one it sent, or one that no other request has, unless it
\* was sent with that one (trace_id.py:17-26, handlers.py:49-53, base.py:26).
ReportedTraceIsOwn ==
  \A r \in Request : Answered(r) /\ body[r] # Empty =>
    /\ body[r] = header[r]
    /\ sent[r] # Empty => body[r] = sent[r]
    /\ sent[r] = Empty => \A q \in Request \ {r} : traceId[q] = body[r] => sent[q] = body[r]

\* README.md: "Every response carries an X-Trace-Id header".
EveryResponseTraced == \A r \in Request : Answered(r) => header[r] # Empty

-----------------------------------------------------------------------------
(* The inductive invariant behind the theorem of TraceProofs.              *)

\* The id of request r.
Own(r) == IF sent[r] # Empty THEN sent[r] ELSE Fresh(r, "middleware")

\* dispatch has the id of its own request from the moment it has set it, and so
\* has the context in which the application runs, whatever the variable held
\* before; the error body takes it from there.
TraceFits(r) ==
  /\ traceId[r] = IF stage[r] \in {"new", "dispatch"} THEN Empty ELSE Own(r)
  /\ stage[r] = "call_next" => ctx[r] = Own(r)
  /\ stage[r] \in {"endpoint", "handler"} => appCtx[r] = Own(r)
  /\ body[r] # Empty =>
       /\ stage[r] \in {"finally", "answered"}
       /\ body[r] = Own(r) /\ outcome[r] # "unmapped"
  /\ stage[r] = "handler" => outcome[r] # "unmapped"
  /\ stage[r] = "answered" /\ outcome[r] # "unmapped" => header[r] = Own(r)

TraceInv == TypeOK /\ \A r \in Request : TraceFits(r)
=============================================================================
