----------------------------- MODULE StreamProbe -----------------------------
(***************************************************************************)
(* One run of the streaming probe (performance_probe): the warm-up phase   *)
(* and then the measured phase, each a pool of at most Concurrency worker  *)
(* threads taking the attempts in order; an attempt sends a request, reads *)
(* the event stream until its terminal marker, closes the response and     *)
(* leaves one terminal record.  When both phases are over the records are  *)
(* validated, a receipt binds them, and the verdict is authorised          *)
(* (PerformanceDecision).                                                  *)
(*                                                                         *)
(* The endpoint is external: a response has any status, the stream any     *)
(* events and any end, and send, read and close may each raise any of the  *)
(* errors the code tells apart.  A chunk carries one event.  Somebody may  *)
(* set the cancellation event at any moment.                               *)
(***************************************************************************)
EXTENDS PerformanceDecision, FiniteSetsExt

CONSTANTS
  Warmups, Requests, Concurrency,
  Timeout,         \* ticks an attempt may take
  MaxClock,        \* bound on the clock
  Criterion        \* the frozen criterion

ASSUME StreamProbeAssumption ==
  /\ Warmups \in Nat /\ Requests \in Nat \ {0} /\ Concurrency \in Nat \ {0}
  /\ Timeout \in Nat /\ MaxClock \in Nat
  /\ {Criterion.ttft, Criterion.minSuccesses} \subseteq Nat /\ Criterion.strict \in BOOLEAN

VARIABLES
  clock,
  cancelled,       \* the cancellation event
  stage,           \* "WARMUP", "MEASURED", "validated", "rejected", "decided"
  att,             \* attempt -> its worker's locals, its record at the end
  heard,           \* history: attempt -> ticks from its start to its first content
  verdict          \* what was authorised

probeVars == <<clock, cancelled, stage, att, heard, verdict>>

AttemptsOf(phase) ==
  {phase} \X (1 .. IF phase = "WARMUP" THEN Warmups ELSE Requests)
Attempts == AttemptsOf("WARMUP") \cup AttemptsOf("MEASURED")

Attempt(at, started) ==
  [at |-> at, started |-> started, status |-> <<>>, first |-> <<>>,
   outcome |-> "TRANSPORT_ERROR", ttft |-> <<>>, duration |-> 0]

ProbeInit ==
  /\ clock = 0 /\ cancelled = FALSE
  /\ stage = IF Warmups = 0 THEN "MEASURED" ELSE "WARMUP"
  /\ att = [a \in Attempts |-> Attempt("queued", 0)]
  /\ heard = [a \in Attempts |-> <<>>]
  /\ verdict = <<>>

ProbeTick == clock < MaxClock /\ clock' = clock + 1 /\ UNCHANGED <<cancelled, stage, att, heard, verdict>>

ProbeCancel == ~cancelled /\ cancelled' = TRUE /\ UNCHANGED <<clock, stage, att, heard, verdict>>

-----------------------------------------------------------------------------
(* _execute_phase: a free worker takes the next attempt of the phase. *)
Working == {a \in Attempts : att[a].at \notin {"queued", "recorded"}}

NextAttempt(a) ==
  /\ a[1] = stage /\ att[a].at = "queued"
  /\ \A b \in AttemptsOf(stage) : att[b].at = "queued" => a[2] <= b[2]
  /\ Cardinality(Working) < Concurrency

Becomes(a, locals) ==
  /\ att' = [att EXCEPT ![a] = locals]
  /\ UNCHANGED <<clock, cancelled, stage, verdict>>

Expired(a) == clock > att[a].started + Timeout

(* The ends of an attempt: an outcome with the http status kept or dropped.
   The record is complete once the response, if there was one, is closed. *)
Ended(locals, outcome) ==
  [locals EXCEPT !.outcome = outcome, !.duration = clock - locals.started, !.at = "closing"]

(* The ProbeRecord: of the locals, only the outcome, the status and the two
   intervals are left. *)
Recorded(locals) == [locals EXCEPT !.at = "recorded", !.started = 0, !.first = <<>>]

EndedWithout(locals, outcome) ==
  [Ended(locals, outcome) EXCEPT !.status = <<>>, !.ttft = <<>>]

(* _execute_attempt, up to transport.send: an attempt that finds the run
   cancelled is recorded without a request. *)
Begin(a) ==
  /\ NextAttempt(a)
  /\ Becomes(a, IF cancelled THEN Recorded(Ended(Attempt("sending", clock), "CANCELLED"))
                             ELSE Attempt("sending", clock))
  /\ UNCHANGED heard

(* OpenAIHTTPTransport.send and the checks on what it returns.  (A status that is
   no HTTP status never gets here: send has raised, a PROTOCOL_ERROR.) *)
Respond(a, status, isStream) ==
  LET got == [att[a] EXCEPT !.status = <<status>>] IN
  /\ att[a].at = "sending"
  /\ Becomes(a, IF ~Is2xx(status) THEN Ended(got, "HTTP_ERROR")
                ELSE IF ~isStream THEN Ended(got, "PROTOCOL_ERROR")
                ELSE [got EXCEPT !.at = "reading"])
  /\ UNCHANGED heard

(* send raises, InterruptedError included: it has closed what it opened, there is
   no response to close. *)
SendFails(a, outcome) ==
  /\ att[a].at = "sending"
  /\ Becomes(a, Recorded(Ended(att[a], outcome)))
  /\ UNCHANGED heard

(* A plausible slip: the first event of the stream stops the TTFT clock,
   whether or not it carries content. *)
FirstTokenOnAnyEvent(a, event) ==
  IF att[a].first = <<>> /\ event \in {"role", "content"} THEN <<clock>>
  ELSE att[a].first

(* _process_sse_event: the first non-empty content. *)
FirstToken(a, event) ==
  IF att[a].first = <<>> /\ event = "content" THEN <<clock>> ELSE att[a].first

(* _consume_openai_sse, one turn of its loop and of _process_sse_line: the
   cancellation and the deadline are looked at before the chunk; the terminal
   marker ends a stream that had content and is an error in any other. *)
Consumed(a, event) ==
  LET got == [att[a] EXCEPT !.first = FirstToken(a, event)] IN
  IF cancelled THEN EndedWithout(got, "CANCELLED")
  ELSE IF Expired(a) THEN EndedWithout(got, "TIMEOUT")
  ELSE IF event = "malformed" \/ (event = "[DONE]" /\ got.first = <<>>)
       THEN Ended(got, "PROTOCOL_ERROR")
  ELSE IF event = "[DONE]"
       THEN [Ended(got, "SUCCESS") EXCEPT !.ttft = <<got.first[1] - got.started>>]
  ELSE got

Read(a, event) ==
  /\ att[a].at = "reading"
  /\ Becomes(a, Consumed(a, event))
  /\ heard' = IF event = "content" /\ heard[a] = <<>>
              THEN [heard EXCEPT ![a] = <<clock - att[a].started>>] ELSE heard

(* The stream ends without its marker. *)
Dropped(a) ==
  /\ att[a].at = "reading"
  /\ Becomes(a, IF cancelled THEN EndedWithout(att[a], "CANCELLED")
                ELSE IF Expired(a) THEN EndedWithout(att[a], "TIMEOUT")
                ELSE Ended(att[a], "PROTOCOL_ERROR"))
  /\ UNCHANGED heard

(* Reading raises: TimeoutError and InterruptedError forget the status, the others
   keep it. *)
ReadFails(a, outcome) ==
  /\ att[a].at = "reading"
  /\ Becomes(a, IF outcome \in {"TIMEOUT", "CANCELLED"} THEN EndedWithout(att[a], outcome)
                                                      ELSE Ended(att[a], outcome))
  /\ UNCHANGED heard

(* StreamResponse.close and _HTTPResponseOwner.close *)
Close(a) ==
  /\ att[a].at = "closing"
  /\ Becomes(a, Recorded(att[a]))
  /\ UNCHANGED heard

(* close raises: its outcome replaces the one the attempt had, and the http
   status stays. *)
CloseFails(a, outcome) ==
  /\ att[a].at = "closing"
  /\ Becomes(a, Recorded([Ended(att[a], outcome) EXCEPT !.ttft = <<>>]))
  /\ UNCHANGED heard

-----------------------------------------------------------------------------
(* _run_probe: the phases in order, then the validation of all records. *)
Manifest ==
  [endpoint |-> "endpoint", requests |-> Requests, warmups |-> Warmups,
   policy |-> Criterion.policy, prompts |-> <<"prompt">>]

RecordOf(a) ==
  [phase |-> a[1], ordinal |-> a[2], included |-> a[1] = "MEASURED",
   execution |-> "this", manifest |-> Manifest, prompt |-> "prompt",
   outcome |-> att[a].outcome, status |-> att[a].status, ttft |-> att[a].ttft,
   duration |-> att[a].duration]

(* The records sorted by phase and ordinal. *)
Records ==
  [i \in 1 .. Warmups + Requests |->
     RecordOf(IF i <= Warmups THEN <<"WARMUP", i>> ELSE <<"MEASURED", i - Warmups>>)]

PhaseOver == \A a \in AttemptsOf(stage) : att[a].at = "recorded"

StartMeasured ==
  /\ stage = "WARMUP" /\ PhaseOver
  /\ stage' = "MEASURED"
  /\ UNCHANGED <<clock, cancelled, att, heard, verdict>>

ValidateRun ==
  /\ stage = "MEASURED" /\ PhaseOver
  /\ stage' = IF ValidRecords(Manifest, Records, "this") THEN "validated" ELSE "rejected"
  /\ UNCHANGED <<clock, cancelled, att, heard, verdict>>

(* The receipt is issued and the decision authorised. *)
Decide ==
  LET run == [execution |-> "this", manifest |-> Manifest, records |-> Records,
              digest |-> Records] IN
  /\ stage = "validated"
  /\ stage' = "decided"
  /\ verdict' = <<EvaluatePerformance(Criterion, run)>>
  /\ UNCHANGED <<clock, cancelled, att, heard>>

ProbeNext ==
  \/ ProbeTick \/ ProbeCancel \/ StartMeasured \/ ValidateRun \/ Decide
  \/ \E a \in Attempts :
       \/ Begin(a) \/ Dropped(a) \/ Close(a)
       \/ \E status \in {200, 500}, isStream \in BOOLEAN : Respond(a, status, isStream)
       \/ \E event \in {"role", "content", "[DONE]", "malformed"} : Read(a, event)
       \/ \E outcome \in {"CANCELLED", "TIMEOUT", "TRANSPORT_ERROR", "INTERNAL_ERROR", "PROTOCOL_ERROR"} :
            SendFails(a, outcome)
       \/ \E outcome \in {"CANCELLED", "TIMEOUT", "TRANSPORT_ERROR", "INTERNAL_ERROR"} :
            ReadFails(a, outcome)
       \/ \E outcome \in {"TRANSPORT_ERROR", "INTERNAL_ERROR"} : CloseFails(a, outcome)

ProbeSpec == ProbeInit /\ [][ProbeNext]_probeVars

-----------------------------------------------------------------------------
Delivered == {a \in AttemptsOf("MEASURED") : att[a].outcome = "SUCCESS"}

LateFirstToken ==
  {a \in Delivered : heard[a] = <<>> \/ ~InTime(Criterion, heard[a][1])}

(* A PASS says what the endpoint did: enough measured attempts delivered, of
   which at most one in twenty had its first content later after its own start
   than agreed or never, the others are under the agreed error rate, and no
   warm-up request is part of it, whatever was cancelled, timed out or failed
   while the workers overlapped (measure_performance). *)
PassIsMeasured ==
  verdict = <<"PASS">> =>
    /\ Cardinality(Delivered) >= Criterion.minSuccesses
    /\ 20 * Cardinality(LateFirstToken) <= Cardinality(Delivered)
    /\ Cardinality(AttemptsOf("MEASURED") \ Delivered) * Criterion.errorDen
         < Criterion.errorNum * Requests

(* "The adapter records one sanitized terminal record per attempt"
   (docs/MEASUREMENT_SPEC.md): when both phases are over, the records the
   attempts left are the evidence of the run. *)
AttemptsAreRecorded == stage # "rejected"
=============================================================================
