---------------------------- MODULE ModelRequest ----------------------------
(***************************************************************************)
(* One request to the model at a time: the HTTP client with its retries      *)
(* (provider/openaicompat/client.go), the decoder of the streamed answer     *)
(* (stream.go, sse.go), the observer that shows the answer while it comes    *)
(* (agent/runtime.go), and the accounting of its usage (cost/cost.go,        *)
(* agent/state.go) as far as session/view.go, which sums the facts again.    *)
(*                                                                           *)
(* A chunk of the stream with several parts is several chunks in the order   *)
(* the decoder takes the parts.  A fragment of text or of a tool call is     *)
(* one byte long, and what it says does not matter.                          *)
(***************************************************************************)
EXTENDS Integers, Sequences, FiniteSets, Sums

CONSTANTS
  MaxAttempts,   \* attempts of one request
  MaxResponse,   \* bytes an answer may have (4 * MaxEventBytes)
  WireUsage,     \* usage a chunk may report: [input, output, cached]
  Price,         \* of a token: [input, cached, output]
  MaxCount,      \* the largest counter (2^63 - 1)
  MaxChunks,     \* bound: chunks of one attempt
  MaxRequests    \* bound: requests of the run

ASSUME RequestBounds ==
  /\ {MaxAttempts, MaxResponse, MaxCount, MaxChunks, MaxRequests} \subseteq Nat
  /\ \A f \in {"input", "cached", "output"} : Price[f] \in Nat
  /\ LET Counter == -MaxCount - 1..MaxCount
     IN  WireUsage \subseteq [input : Counter, output : Counter, cached : Counter]

VARIABLES
  request,       \* where the request is: [at, purpose, attempt, chunks]
  deadline,      \* "live", "cancelled" (the run) or "late" (the request)
  heard,         \* the accumulator of the attempt
  failure,       \* of the attempt: [category, retryable]
  observed,      \* the usage the observer remembers
  shown,         \* text deltas emitted for the request
  facts,         \* usage facts of the run
  totals,        \* sums in the state of the run
  outcome        \* how the run ended

requestVars == <<request, deadline, heard, failure, observed, shown, facts, totals, outcome>>

NoFailure  == [category |-> "none", retryable |-> FALSE]
Zero       == [input |-> 0, output |-> 0, cached |-> 0]
Unreported == [usage |-> Zero, seen |-> FALSE]
Unheard    == [content |-> <<>>, calls |-> [i \in {} |-> 0], size |-> 0, finish |-> "none", usage |-> Zero,
               visible |-> FALSE]

Failed(category)    == [category |-> category, retryable |-> FALSE]
Transient(category) == [category |-> category, retryable |-> TRUE]

Idle == [at |-> "idle", purpose |-> "agent", attempt |-> 0, chunks |-> 0]

RequestInit ==
  /\ request = Idle
  /\ deadline = "live"
  /\ heard = Unheard /\ failure = NoFailure /\ observed = Unreported
  /\ shown = <<>> /\ facts = <<>>
  /\ totals = [usage |-> Zero, cost |-> 0, requests |-> 0]
  /\ outcome = "none"

RequestAt(step) == request.at = step
RequestGoes(step) == request' = [request EXCEPT !.at = step]

\* The run goes on; every request has an accumulator and an observer of its own.
GoesOn ==
  /\ request' = Idle /\ heard' = Unheard /\ observed' = Unreported /\ shown' = <<>>
  /\ UNCHANGED outcome

-----------------------------------------------------------------------------
(***************************************************************************)
(* Stream: the attempts of a request.                                        *)
(***************************************************************************)

BeginRequest(purpose) ==
  /\ RequestAt("idle") /\ deadline = "live" /\ Len(facts) < MaxRequests
  /\ request' = [at |-> "sending", purpose |-> purpose, attempt |-> 1, chunks |-> 0]
  /\ UNCHANGED <<deadline, heard, failure, observed, shown, facts, totals, outcome>>

\* contextProviderError
ContextFailure == Failed(IF deadline = "cancelled" THEN "canceled" ELSE "timeout")

Ends(step, because) ==
  /\ RequestGoes(step) /\ failure' = because
  /\ UNCHANGED <<deadline, heard, observed, shown, facts, totals, outcome>>

\* The request is not one the configured model can take.
RefuseRequest == RequestAt("sending") /\ request.attempt = 1 /\ Ends("returned", Failed("invalid_request"))

\* classifyRequestError
TransportError ==
  /\ RequestAt("sending")
  /\ \E because \in IF deadline = "live" THEN {Transient("timeout"), Transient("network")} ELSE {ContextFailure} :
       Ends("attempted", because)

\* classifyHTTPStatus; 501 stands for the server errors that are not retried.
OfStatus(status) ==
  CASE status = 401 -> Failed("authentication")
    [] status = 403 -> Failed("permission")
    [] status = 408 -> Transient("timeout")
    [] status = 429 -> Transient("rate_limit")
    [] status \in {500, 502, 503, 504} -> Transient("server")
    [] status \in 400..499 \ {401, 403, 408, 429} -> Failed("invalid_request")
    [] status \in 500..599 \ {500, 502, 503, 504} -> Failed("server")
    [] OTHER -> Failed("protocol")

RefusedByServer ==
  /\ RequestAt("sending") /\ deadline = "live"
  /\ \E status \in {302, 400, 401, 403, 408, 429, 501, 503} : Ends("closing", OfStatus(status))

\* A page that is not an event stream, or one.
OpenStream ==
  /\ RequestAt("sending") /\ deadline = "live"
  /\ \/ Ends("closing", Failed("protocol"))
     \/ /\ request' = [request EXCEPT !.at = "streaming", !.chunks = 0]
        /\ heard' = Unheard
        /\ UNCHANGED <<deadline, failure, observed, shown, facts, totals, outcome>>

\* The deferred close: a failure of its own makes a good answer none.
CloseBody ==
  /\ RequestAt("closing")
  /\ \E because \in {failure} \cup (IF failure = NoFailure THEN {Failed("network")} ELSE {}) :
       Ends("attempted", because)

RetriesTransient == failure.retryable /\ request.attempt < MaxAttempts    \* mutant: whatever was shown

Retries ==
  /\ failure.retryable
  /\ ~heard.visible
  /\ request.attempt < MaxAttempts

Judge ==
  /\ RequestAt("attempted")
  /\ RequestGoes(IF Retries THEN "retrying" ELSE "returned")
  /\ UNCHANGED <<deadline, heard, failure, observed, shown, facts, totals, outcome>>

\* The warning that there is a retry.
AnnounceRetry ==
  /\ RequestAt("retrying")
  /\ \/ deadline = "live" /\ Ends("waiting", NoFailure)
     \/ deadline = "live" /\ Ends("returned", Failed("sink"))
     \/ deadline # "live" /\ Ends("returned", ContextFailure)

SleepBeforeRetry ==
  /\ RequestAt("waiting")
  /\ IF deadline = "live"
     THEN /\ request' = [request EXCEPT !.at = "sending", !.attempt = @ + 1]
          /\ heard' = Unheard
          /\ UNCHANGED <<deadline, failure, observed, shown, facts, totals, outcome>>
     ELSE Ends("returned", ContextFailure)

-----------------------------------------------------------------------------
(***************************************************************************)
(* decodeStream: one part of the answer after the other.                     *)
(***************************************************************************)

Streaming == RequestAt("streaming") /\ deadline = "live"
Hears     == Streaming /\ request.chunks < MaxChunks

\* The part is taken in, and what it shows reaches the sink or does not.
Takes(next, display, seen) ==
  /\ heard' = next
  /\ \/ /\ request' = [request EXCEPT !.chunks = @ + 1]
        /\ shown' = display /\ observed' = seen /\ failure' = failure
     \/ /\ RequestGoes("closing") /\ failure' = Failed("sink")
        /\ UNCHANGED <<shown, observed>>
  /\ UNCHANGED <<deadline, facts, totals, outcome>>

HearText ==
  /\ Hears
  /\ IF heard.finish # "none" \/ heard.size >= MaxResponse
     THEN Ends("closing", Failed("protocol"))
     ELSE Takes([heard EXCEPT !.content = Append(@, "text"), !.size = @ + 1, !.visible = TRUE],
                IF request.purpose = "agent" THEN Append(shown, "text") ELSE shown, observed)

\* The parts of a call: its identifier, and its name with its arguments.
Blank == [ids |-> <<>>, bodies |-> 0]
Builder(index) == IF index \in DOMAIN heard.calls THEN heard.calls[index] ELSE Blank

Added(index, id, body) ==
  LET built == [ids |-> Builder(index).ids \o id, bodies |-> Builder(index).bodies + body]
  IN  [i \in DOMAIN heard.calls \cup {index} |-> IF i = index THEN built ELSE heard.calls[i]]

\* consumeToolDelta; a delta with nothing in it only opens the call.
HearToolDelta ==
  /\ Hears
  /\ \E index \in {-1, 0, 1}, id \in {<<>>, <<"i">>}, body \in {0, 1} :
       LET size == Len(id) + body
       IN  IF heard.finish # "none" \/ index < 0 \/ heard.size + size > MaxResponse
           THEN Ends("closing", Failed("protocol"))
           ELSE Takes([heard EXCEPT !.calls = Added(index, id, body), !.size = @ + size,
                                    !.visible = @ \/ size > 0], shown, observed)

HearFinish ==
  /\ Hears
  /\ \E reason \in {"", "stop", "tool_calls"} :
       IF heard.finish # "none" \/ reason = "" THEN Ends("closing", Failed("protocol"))
       ELSE Takes([heard EXCEPT !.finish = reason], shown, observed)

HearUsage ==
  /\ Hears
  /\ \E usage \in WireUsage :
       IF \E field \in DOMAIN usage : usage[field] < 0 THEN Ends("closing", Failed("protocol"))
       ELSE Takes([heard EXCEPT !.usage = usage], shown, [usage |-> usage, seen |-> TRUE])

\* What is no chunk, belongs to another answer, or is too large.
HearGarbage == Streaming /\ Ends("closing", Failed("protocol"))

\* classifyStreamError: the connection is lost, or the deadline passes.
StreamBreaks ==
  /\ RequestAt("streaming")
  /\ Ends("closing", IF deadline = "live" THEN Transient("network") ELSE ContextFailure)

Whole(built) == built.ids # <<>> /\ built.bodies = 1

\* finalize
Finalized(done) ==
  IF heard.finish = "none" THEN (IF done THEN Failed("protocol") ELSE Transient("network"))
  ELSE IF \/ \E i \in DOMAIN heard.calls : ~Whole(heard.calls[i])
          \/ \E i, j \in DOMAIN heard.calls : i # j /\ heard.calls[i].ids = heard.calls[j].ids
          \/ (DOMAIN heard.calls # {}) # (heard.finish = "tool_calls")
       THEN Failed("protocol")
  ELSE NoFailure

EndOfStream == Streaming /\ \E done \in BOOLEAN : Ends("closing", Finalized(done))

-----------------------------------------------------------------------------
(***************************************************************************)
(* Accounting.                                                               *)
(***************************************************************************)

\* addNonNegative and multiplyAdd; -1 stands for "does not fit".
Plus(left, right) == IF left < 0 \/ right < 0 \/ left + right > MaxCount THEN -1 ELSE left + right
MultiplyAdd(total, count, price) ==
  IF total < 0 \/ count * price > MaxCount THEN -1 ELSE Plus(total, count * price)

Amount(usage) ==
  MultiplyAdd(MultiplyAdd(MultiplyAdd(0, usage.input - usage.cached, Price.input), usage.cached, Price.cached),
              usage.output, Price.output)

\* EstimateForModel, with or without a price for the model.
Estimate(usage, reported, priced) ==
  LET unknown == CASE ~reported -> "usage_unreported"
                   [] reported /\ usage.cached > usage.input -> "invalid_usage"
                   [] reported /\ usage.cached <= usage.input /\ ~priced -> "price_unavailable"
                   [] OTHER -> IF Amount(usage) < 0 THEN "cost_overflow" ELSE "none"
  IN  [cost |-> IF unknown = "none" THEN Amount(usage) ELSE 0, unknown |-> unknown]

AsReported(usage, estimate) == usage    \* mutant: what the provider said
Accounted(usage, estimate)  == IF estimate.unknown = "invalid_usage" THEN Zero ELSE usage

\* recordUsageCall: the fact of a request.
UsageFact(purpose, usage, reported, priced) ==
  LET estimate == Estimate(usage, reported, priced)
  IN  [purpose |-> purpose, usage |-> Accounted(usage, estimate), reported |-> reported,
       cost |-> estimate.cost, unknown |-> estimate.unknown]

\* observedUsage: the answer's own, else the last that any attempt reported.
Reported == IF failure = NoFailure /\ heard.usage # Zero THEN [usage |-> heard.usage, seen |-> TRUE] ELSE observed

\* addUsage
Sum(sums, fact) ==
  [usage |-> [f \in DOMAIN Zero |-> Plus(sums.usage[f], fact.usage[f])],
   cost  |-> Plus(sums.cost, fact.cost), requests |-> sums.requests + 1]

Overflows(sums) == sums.cost < 0 \/ \E f \in DOMAIN Zero : sums.usage[f] < 0

\* The fact is emitted before it is added: a total that does not fit ends the run without a word.
RecordUsage ==
  /\ RequestAt("returned")
  /\ deadline' = IF deadline = "late" THEN "live" ELSE deadline
  /\ \E priced \in BOOLEAN :
       LET fact == UsageFact(request.purpose, Reported.usage, Reported.seen, priced)
           sums == Sum(totals, fact)
       IN  \/ /\ facts' = Append(facts, fact)
              /\ IF Overflows(sums) THEN RequestGoes("over") /\ outcome' = "silent" /\ UNCHANGED totals
                 ELSE RequestGoes("recorded") /\ totals' = sums /\ UNCHANGED outcome
           \/ RequestGoes("over") /\ outcome' = "silent" /\ UNCHANGED <<facts, totals>>
  /\ UNCHANGED <<heard, failure, observed, shown>>

-----------------------------------------------------------------------------
(***************************************************************************)
(* What the run makes of the answer.                                         *)
(***************************************************************************)

\* finishError
Stops(because) ==
  /\ RequestGoes("over")
  /\ outcome' = IF because.category \in {"canceled", "timeout"} THEN "cancelled" ELSE "failed"
  /\ UNCHANGED <<deadline, heard, failure, observed, shown, facts, totals>>

Answered == RequestAt("recorded") /\ failure = NoFailure

StopsOnFailure == RequestAt("recorded") /\ failure # NoFailure /\ Stops(failure)

\* The turn's answer is recorded and ends the run, or asks for tools.
AcceptAnswer ==
  /\ Answered /\ request.purpose = "agent"
  /\ \/ /\ deadline = "live"
        /\ IF DOMAIN heard.calls = {}
           THEN RequestGoes("over") /\ outcome' = "completed" /\ UNCHANGED <<heard, observed, shown>>
           ELSE GoesOn
        /\ UNCHANGED <<deadline, failure, facts, totals>>
     \/ deadline = "cancelled" /\ Stops(ContextFailure)

\* compactContext: a summary that follows the protocol.
AcceptSummary ==
  /\ Answered /\ request.purpose = "context_summary"
  /\ \/ /\ DOMAIN heard.calls = {} /\ heard.content # <<>> /\ GoesOn
        /\ UNCHANGED <<deadline, failure, facts, totals>>
     \/ Stops(Failed("provider_protocol"))

StopBetweenRequests == RequestAt("idle") /\ deadline # "live" /\ Stops(ContextFailure)

DeadlinePasses ==
  /\ deadline = "live" /\ ~RequestAt("over")
  /\ \/ deadline' = "cancelled"
     \/ deadline' = "late" /\ request.at \in {"sending", "streaming", "retrying", "waiting"}
  /\ UNCHANGED <<request, heard, failure, observed, shown, facts, totals, outcome>>

RequestNext ==
  \/ \E purpose \in {"agent", "context_summary"} : BeginRequest(purpose)
  \/ RefuseRequest \/ TransportError \/ RefusedByServer \/ OpenStream \/ CloseBody
  \/ Judge \/ AnnounceRetry \/ SleepBeforeRetry
  \/ HearText \/ HearToolDelta \/ HearFinish \/ HearUsage \/ HearGarbage \/ StreamBreaks \/ EndOfStream
  \/ RecordUsage \/ StopsOnFailure \/ AcceptAnswer \/ AcceptSummary \/ StopBetweenRequests
  \/ DeadlinePasses

RequestSpec == RequestInit /\ [][RequestNext]_requestVars

-----------------------------------------------------------------------------
(***************************************************************************)
(* The text of an answer that is accepted is exactly what was shown while    *)
(* it came: nothing twice, and nothing of an attempt that was given up.      *)
(* A summary is not shown at all.                                            *)
(***************************************************************************)
AnswerIsWhatWasShown ==
  Answered => shown = IF request.purpose = "agent" THEN heard.content ELSE <<>>

\* reduceUsage of the view, without the sums.
Reducible(fact) ==
  /\ fact.usage.cached <= fact.usage.input
  /\ \A f \in DOMAIN Zero : fact.usage[f] \in 0..MaxCount
  /\ IF fact.unknown = "none" THEN fact.reported /\ fact.cost \in 0..MaxCount ELSE fact.cost = 0
  /\ ~fact.reported => fact.usage = Zero

(***************************************************************************)
(* Whatever the model server reports, the session's view can reduce every    *)
(* usage fact, and the totals of the run are the exact sums that the view    *)
(* comes to from the facts, until a sum that does not fit ends the run.      *)
(***************************************************************************)
UsageFactsReduce ==
  /\ \A i \in DOMAIN facts : Reducible(facts[i])
  /\ outcome # "silent" =>
       /\ \A f \in DOMAIN Zero : totals.usage[f] = Total([i \in DOMAIN facts |-> facts[i].usage[f]])
       /\ totals.cost = Total([i \in DOMAIN facts |-> facts[i].cost])
       /\ totals.requests = Len(facts)
=============================================================================
