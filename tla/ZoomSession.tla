---------------------------- MODULE ZoomSession ----------------------------
(***************************************************************************)
(* One bounded Zoom session: its state machine with idempotency records,   *)
(* a checkpoint from which it is recovered after a crash, and the bridge    *)
(* that attaches the stopped transcript to a POC and completes the session. *)
(* The intake outlives the session, and one lock makes each call atomic.    *)
(* And the authenticator of the deliveries that announce sessions.          *)
(***************************************************************************)
EXTENDS Naturals, Sequences, FiniteSets

CONSTANTS
    SPackets,      \* packets, by digest
    Contents,      \* what a packet can decode to
    MaxCalls,      \* bound: idempotency keys one process records
    NoValue,       \* no value
    MaxReconnects, \* reconnects a snapshot can show, 64 in the code
    MaxDuplicates  \* duplicate deliveries a snapshot can show

ASSUME ZoomSessionAssumption == {MaxReconnects, MaxDuplicates, MaxCalls} \subseteq Nat

VARIABLES
    ses,     \* the session of the running process
    saved,   \* the last checkpoint, or NoValue
    intake   \* the source the intake holds under the session's stable key

sessionVars == <<ses, saved, intake>>

Segments == [packet : SPackets, content : Contents]

ASSUME TranscriptAssumption == \A content \in SUBSET Segments : content # NoValue

New == [state |-> "STARTING", segs |-> {}, dups |-> 0, reconnects |-> 0, stop |-> FALSE,
        input |-> NoValue, result |-> NoValue, failure |-> NoValue, ops |-> <<>>]

SessionInit ==
    /\ ses = New
    /\ saved = NoValue
    /\ intake = NoValue

Capturing == {"LISTENING", "INTERRUPTED", "RECONNECTING"}
----------------------------------------------------------------------------
(* What each operation does to the record s: Allowed or refused, and then   *)
(* the new record.  An operation that finds its effect done suppresses      *)
(* itself and leaves the record alone.                                      *)

MarkListening(s) ==
    IF s.state = "LISTENING" THEN {s}
    ELSE IF s.state = "STARTING" THEN {[s EXCEPT !.state = "LISTENING"]} ELSE {}

Interrupt(s) ==
    IF s.state \in {"INTERRUPTED", "RECONNECTING"} THEN {s}
    ELSE IF s.state = "LISTENING" THEN {[s EXCEPT !.state = "INTERRUPTED"]} ELSE {}

BeginReconnect(s) ==
    IF s.state = "RECONNECTING" THEN {s}
    ELSE IF s.state = "INTERRUPTED" THEN {[s EXCEPT !.state = "RECONNECTING"]} ELSE {}

MarkReconnected(s) ==
    IF s.state = "LISTENING" THEN {s}
    ELSE IF s.state # "RECONNECTING" THEN {}
    ELSE {[s EXCEPT !.state = "LISTENING", !.reconnects = @ + 1]}

Failed(s, why) ==
    IF s.state \in {"FAILED", "DRAFT_READY"} THEN s
    ELSE [s EXCEPT !.state = "FAILED", !.failure = why]

ReconnectFailed(s) ==
    IF s.state \in {"FAILED", "INTERRUPTED", "RECONNECTING"}
    THEN {Failed(s, "RECONNECT_FAILED")} ELSE {}

Timeout(s) == {Failed(s, "TIMEOUT")}

ProcessingFailed(s) ==
    IF s.state \in {"PROCESSING", "DRAFT_READY"} THEN {Failed(s, "PROCESSING_FAILED")} ELSE {}

\* A packet seen before must decode to the same content; after the stop it
\* is suppressed.
AppendTranscript(s, seg) ==
    IF \E t \in s.segs : t.packet = seg.packet
    THEN IF seg \notin s.segs THEN {}
         ELSE IF s.stop \/ s.state = "FAILED" THEN {s}
         ELSE IF s.state \in Capturing THEN {[s EXCEPT !.dups = @ + 1]} ELSE {}
    ELSE IF s.state \in Capturing THEN {[s EXCEPT !.segs = @ \cup {seg}]} ELSE {}

\* The first stop fixes the input of processing; a session without
\* transcript fails.
Stopping(s) ==
    IF s.stop \/ s.state = "FAILED" THEN {s}
    ELSE IF s.state \notin Capturing THEN {}
    ELSE IF s.segs = {}
    THEN {[s EXCEPT !.stop = TRUE, !.state = "FAILED", !.failure = "NO_TRANSCRIPT"]}
    ELSE {[s EXCEPT !.stop = TRUE, !.state = "PROCESSING", !.input = s.segs]}

\* processing_input: the transcript the stop fixed, checked against the record.
Ready(s) == s.state \in {"PROCESSING", "DRAFT_READY"} /\ s.stop /\ s.input = s.segs

ProcessingSucceeded(s, result) ==
    IF s.state = "DRAFT_READY" THEN IF s.result = result THEN {s} ELSE {}
    ELSE IF s.state = "PROCESSING" /\ Ready(s)
    THEN {[s EXCEPT !.state = "DRAFT_READY", !.result = result]} ELSE {}

\* What the snapshot model admits; it is built after the record changed.
SnapshotFits(s) == s.reconnects <= MaxReconnects /\ s.dups <= MaxDuplicates

----------------------------------------------------------------------------
\* One call under an idempotency key; keys are numbered as they are recorded.
\* A key of another request is refused, a repeated one is answered with the
\* recorded result; a mutation whose snapshot cannot be built stays without
\* a record, and the calls after it, which all fail the same way, are left out.
Mutate(key, action, outcome) ==
    /\ \/ /\ key <= Len(ses.ops)
          /\ ses.ops[key] = action
          /\ UNCHANGED ses
       \/ /\ key = Len(ses.ops) + 1
          /\ SnapshotFits(ses)
          /\ \E s \in outcome :
                ses' = IF SnapshotFits(s) THEN [s EXCEPT !.ops = Append(@, action)] ELSE s
    /\ UNCHANGED <<saved, intake>>

Deliver(key, seg) == Mutate(key, <<"TRANSCRIPT", seg>>, AppendTranscript(ses, seg))

Control(key, action) ==
    Mutate(key, <<action>>,
           CASE action = "LISTENING" -> MarkListening(ses)
             [] action = "INTERRUPTED" -> Interrupt(ses)
             [] action = "RECONNECT_STARTED" -> BeginReconnect(ses)
             [] action = "RECONNECTED" -> MarkReconnected(ses)
             [] action = "RECONNECT_FAILED" -> ReconnectFailed(ses)
             [] action = "TIMEOUT" -> Timeout(ses)
             [] action = "STOPPED" -> Stopping(ses)
             [] OTHER -> ProcessingFailed(ses))

\* A fault: the intake answers the stable key without comparing the content.
AttachAnything(content) == IF intake = NoValue THEN {content} ELSE {intake}

\* The intake attaches once under the session's stable key and answers a
\* repetition only for the same content.
Attach(content) == IF intake = NoValue THEN {content} ELSE {intake} \cap {content}

\* process: the bridge attaches the input and completes the session under a
\* key of its own; a part that fails fails the session and keeps what is done.
Bridge(attached, completed) ==
    /\ Ready(ses)
    /\ ses.state = "PROCESSING"
    /\ \/ /\ attached
          /\ \E held \in Attach(ses.input) :
                /\ intake' = held
                /\ IF completed
                   THEN \E s \in ProcessingSucceeded(ses, held) : ses' = s
                   ELSE ses' = Failed(ses, "PROCESSING_FAILED")
       \/ /\ ~attached \/ Attach(ses.input) = {}
          /\ ses' = Failed(ses, "PROCESSING_FAILED")
          /\ UNCHANGED intake
    /\ UNCHANGED saved

Checkpoint ==
    /\ SnapshotFits(ses)
    /\ saved' = ses
    /\ UNCHANGED <<ses, intake>>

\* The process ends and another recovers the session from its checkpoint,
\* which must fit the snapshot and the transcript digest; what came after the
\* checkpoint is forgotten.
Recover ==
    /\ saved # NoValue
    /\ SnapshotFits(saved)
    /\ saved.input # NoValue => saved.input = saved.segs
    /\ ses' = saved
    /\ UNCHANGED <<saved, intake>>

Actions == {"LISTENING", "INTERRUPTED", "RECONNECT_STARTED", "RECONNECTED", "RECONNECT_FAILED",
            "TIMEOUT", "STOPPED", "PROCESSING_FAILED"}

SessionNext ==
    \/ \E key \in 1..MaxCalls, seg \in Segments : Deliver(key, seg)
    \/ \E key \in 1..MaxCalls, action \in Actions : Control(key, action)
    \/ \E attached, completed \in BOOLEAN : Bridge(attached, completed)
    \/ Checkpoint
    \/ Recover

SessionSpec == SessionInit /\ [][SessionNext]_sessionVars

----------------------------------------------------------------------------
\* A session that shows a draft shows the draft of its own transcript: the
\* source the intake holds is the input that the stop fixed, also when the
\* session was recovered from before the stop and heard something else.
DraftIsTheTranscript ==
    ses.state = "DRAFT_READY" => intake = ses.input /\ ses.result = intake /\ ses.input = ses.segs

----------------------------------------------------------------------------
(***************************************************************************)
(* The authenticator of Zoom's webhook deliveries.  A request thread reads  *)
(* the clock, checks policy, body, signature and time window without the    *)
(* lock, and takes the lock to look the delivery up among those it has      *)
(* seen; entries whose window is over are pruned.  A delivery may be        *)
(* repeated by anyone, at any time.                                         *)
(***************************************************************************)

CONSTANTS
    Requests,      \* request threads
    WebhookDeliveries,    \* signed deliveries, each the number of its timestamp
    PastAge,       \* max_past_age_seconds
    FutureSkew,    \* max_future_skew_seconds
    MaxReplays,    \* max_replay_records
    Horizon        \* bound: the clock, and the policy's expiry

ASSUME WebhookAssumption ==
    /\ {PastAge, FutureSkew, MaxReplays, Horizon} \subseteq Nat
    /\ WebhookDeliveries \subseteq Nat

VARIABLES
    time,     \* the wall clock
    asking,   \* request thread |-> what it read, or an idle thread
    replay,   \* deliveries remembered
    lastNow,  \* the latest clock value a request used, 0 for none
    firsts,   \* ghost: delivery |-> times it was called a first observation
    ended     \* the authenticator is closed

webhookVars == <<time, asking, replay, lastNow, firsts, ended>>

WebhookIdle == [delivery |-> 0, now |-> 0]

WebhookInit ==
    /\ time = 1
    /\ asking = [r \in Requests |-> WebhookIdle]
    /\ replay = {}
    /\ lastNow = 0
    /\ firsts = [d \in WebhookDeliveries |-> 0]
    /\ ended = FALSE

ClockTicks ==
    /\ time < Horizon
    /\ time' = time + 1
    /\ UNCHANGED <<asking, replay, lastNow, firsts, ended>>

\* The clock is set back, as an operator or a time service may do.
ClockStepsBack ==
    /\ time > 1
    /\ time' = time - 1
    /\ UNCHANGED <<asking, replay, lastNow, firsts, ended>>

Expires(d) == d + PastAge

InWindow(d, now) == now <= Expires(d) /\ d <= now + FutureSkew

\* Everything authenticate checks before it takes the lock for the record: an
\* active policy, the signature over the exact body and timestamp, the window.
Authenticate(r, d) ==
    /\ asking[r] = WebhookIdle
    /\ ~ended
    /\ time < Horizon
    /\ InWindow(d, time)
    /\ asking' = [asking EXCEPT ![r] = [delivery |-> d, now |-> time]]
    /\ UNCHANGED <<time, replay, lastNow, firsts, ended>>

\* A fault: entries are pruned and the delivery recorded whatever the clock of
\* a request that came in between was.
InOrderAlways(now) == TRUE

\* A clock value older than one already used is refused.
WebhookInOrder(now) == now >= lastNow

Prune(now) == {d \in replay : Expires(d) >= now}

\* Under the lock: a known delivery is an exact replay, a new one is recorded
\* unless the records are full.
Observe(r) ==
    LET d == asking[r].delivery
        now == asking[r].now
    IN
    /\ asking[r] # WebhookIdle
    /\ asking' = [asking EXCEPT ![r] = WebhookIdle]
    /\ IF ended \/ ~WebhookInOrder(now)
       THEN UNCHANGED <<lastNow, replay, firsts>>
       ELSE /\ lastNow' = now
            /\ IF d \in Prune(now) \/ Cardinality(Prune(now)) >= MaxReplays
               THEN replay' = Prune(now) /\ UNCHANGED firsts
               ELSE /\ replay' = Prune(now) \cup {d}
                    /\ firsts' = [firsts EXCEPT ![d] = @ + 1]
    /\ UNCHANGED <<time, ended>>

CloseWebhook ==
    /\ ~ended
    /\ ended' = TRUE
    /\ replay' = {}
    /\ lastNow' = 0
    /\ UNCHANGED <<time, asking, firsts>>

WebhookNext ==
    \/ ClockTicks
    \/ ClockStepsBack
    \/ \E r \in Requests, d \in WebhookDeliveries : Authenticate(r, d)
    \/ \E r \in Requests : Observe(r)
    \/ CloseWebhook

WebhookSpec == WebhookInit /\ [][WebhookNext]_webhookVars

\* A delivery is a first observation at most once, whatever is repeated, in
\* whichever order the threads reach the lock and wherever the clock goes: an
\* entry is pruned only when no request may still be inside its window.
FirstOnce == \A d \in WebhookDeliveries : firsts[d] <= 1
=============================================================================
