--------------------------- MODULE MeetingSession ---------------------------
(***************************************************************************)
(* Guided meeting sessions (ProcessLocalMeetingSessionRuntime) over the    *)
(* durable inbox, and the finalization that recovers, seals and hands off  *)
(* a stream as a source (MeetingInboxSourceOrchestrationService,           *)
(* MeetingTranscriptSourceHandoffService).                                 *)
(*                                                                         *)
(* Several processes share one inbox.  Each has one runtime lock, so one   *)
(* call at a time; a call is one step per clock reading, transaction and   *)
(* SELECT.  Sessions and sources are process-local and are lost with their *)
(* process: a lost process takes no further step, and one that is started  *)
(* again is another process, which may create the same sessions again.     *)
(* The adapter behind the runtime is any adapter: it answers with one of   *)
(* Scripts.  A repeated idempotency key returns the stored result or       *)
(* refuses, and a fresh key is always at hand, so the keys of the          *)
(* runtime's own operations are left out; the key that created a session   *)
(* is part of its identity.  A call for a draft that is archived or is no  *)
(* meeting draft changes nothing; an archive during a call is a refusal of *)
(* the source intake.                                                      *)
(***************************************************************************)
EXTENDS Integers, FiniteSets, Sequences, SequencesExt, Dicts

-----------------------------------------------------------------------------
(***************************************************************************)
(* The durable inbox of meeting transcript events (SQLiteMeetingEventInbox) *)
(* and the sealer that turns a recovered stream into one transcript        *)
(* (seal_meeting_transcript_window).                                       *)
(*                                                                         *)
(* Every operator below is one SQL transaction or one SELECT: what happens *)
(* between two of them belongs to other callers of the same database.      *)
(* The transcript text of an event is told apart by its length, `body`,    *)
(* which is 0 for the events that carry none.                              *)
(***************************************************************************)

CONSTANTS
    Retention,      \* raw_payload_retention_seconds
    MaxIngress,     \* max_ingress_receipts
    MaxCharacters,  \* max_transcript_characters of an authorization
    BindingTTL      \* how long a transport binding accepts events

ASSUME InboxAssumption ==
    /\ Retention \in Nat \ {0}
    /\ MaxIngress \in Nat /\ MaxIngress >= 3
    /\ MaxCharacters \in Nat \ {0}
    /\ BindingTTL \in Nat

VARIABLES
    streams,   \* meeting_event_inbox_streams: identity -> [binding, created]
    events,    \* meeting_event_inbox_events
    payloads,  \* meeting_event_inbox_payloads: the events whose text is kept
    receipts,  \* meeting_event_inbox_ingress_receipts: key -> receipt
    taints     \* meeting_event_inbox_markers: binding -> kind

inbox == <<streams, events, payloads, receipts, taints>>

InboxInit ==
    /\ streams = EmptyDict
    /\ events = {}
    /\ payloads = {}
    /\ receipts = EmptyDict
    /\ taints = EmptyDict

\* A stream binding digests the whole authorization and transport binding:
\* the session, when its participants consented, when it was started, and
\* the event limit of its policy.  The limit is no part of the authorization
\* id, so two bindings can share the identity of a stream.
Identity(b) == <<b.session, b.consented, b.started>>

\* A row of the events table and its immutable persistence time.
Row(b, e, at) == [binding |-> b, event |-> e, at |-> at]

RowsOf(b) == {r \in events : r.binding = b}
ReceiptsOf(b) == {k \in DOMAIN receipts : receipts[k].binding = b}

\* the row with the identity of event e, if any
SameId(b, e) == {r \in RowsOf(b) : r.event.id = e.id}

\* validate_meeting_event_envelope: what an append refuses before it looks at
\* any stored state
EnvelopeOk(b, e) ==
    /\ e.n <= b.limit
    /\ b.started <= e.at /\ e.at <= b.started + BindingTTL

-----------------------------------------------------------------------------
(***************************************************************************)
(* Retention.                                                              *)
(***************************************************************************)

\* raw_payload_expires_at: from the time an event was first persisted
Expired(at) == {r \in payloads : r.at + Retention <= at}

\* purge_expired_payloads: receipts stay, text goes
Purge(at) ==
    /\ payloads' = payloads \ Expired(at)
    /\ UNCHANGED <<streams, events, receipts, taints>>

-----------------------------------------------------------------------------
(***************************************************************************)
(* append: one immediate transaction, after the checks on the envelope.    *)
(* `at` is the clock reading the caller made before.                       *)
(***************************************************************************)

Input(b, e) == <<b, e>>

\* _ensure_stream_locked
StreamsWith(b, at) ==
    IF Identity(b) \in DOMAIN streams THEN streams
    ELSE Put(streams, Identity(b), [binding |-> b, created |-> at])

Stored(b) == StreamsWith(b, 0)[Identity(b)].binding

\* _taint_stream_locked: the first marker of a stream stays
Tainted(b, kind) == IF b \in DOMAIN taints THEN taints ELSE Put(taints, b, kind)

\* Mutant: one delivery more than the limit.
FullPastTheLimit(b) ==
    \/ Cardinality(DOMAIN receipts) > MaxIngress
    \/ Cardinality(ReceiptsOf(b)) > b.limit

\* _require_capacity_locked
Full(b) ==
    \/ Cardinality(DOMAIN receipts) >= MaxIngress
    \/ Cardinality(ReceiptsOf(b)) >= b.limit

Characters(b) ==
    SumFunctionOnSet([r \in RowsOf(b) |-> r.event.body], RowsOf(b))

\* the clock stands before the stream, or before the event it repeats
TooEarly(b, e, at) ==
    \/ at < StreamsWith(b, at)[Identity(b)].created
    \/ \E r \in SameId(b, e) : at < r.at

\* changed content under one event identity, or an occupied sequence number
Contradicts(b, e) == \E r \in RowsOf(b) :
    /\ r.event # e
    /\ r.event.id = e.id \/ r.event.n = e.n

\* the transcript would outgrow the authorization
TooLong(b, e) == SameId(b, e) = {} /\ Characters(b) + e.body > MaxCharacters

\* Mutant: a marker does not stop a stream.
OutcomeOfUnmarked(k, b, e, at) ==
    IF Stored(b) # b THEN "FOREIGN"
    ELSE IF k \in DOMAIN receipts THEN
        IF receipts[k].input = Input(b, e) THEN "REPLAY" ELSE "CONFLICT"
    ELSE IF TooEarly(b, e, at) THEN "TIMELINE"
    ELSE IF Contradicts(b, e) THEN "CONFLICT"
    ELSE IF Full(b) \/ TooLong(b, e) THEN "CAPACITY"
    ELSE IF SameId(b, e) # {} THEN "EXACT_DUPLICATE"
    ELSE "ACCEPTED"

\* what the transaction comes to, in the order of its checks
Outcome(k, b, e, at) ==
    IF Stored(b) # b THEN "FOREIGN"
    ELSE IF b \in DOMAIN taints THEN "TAINTED"
    ELSE IF k \in DOMAIN receipts THEN
        IF receipts[k].input = Input(b, e) THEN "REPLAY" ELSE "CONFLICT"
    ELSE IF TooEarly(b, e, at) THEN "TIMELINE"
    ELSE IF Contradicts(b, e) THEN "CONFLICT"
    ELSE IF Full(b) \/ TooLong(b, e) THEN "CAPACITY"
    ELSE IF SameId(b, e) # {} THEN "EXACT_DUPLICATE"
    ELSE "ACCEPTED"

\* Mutant: the error of a conflict is not raised.
SucceedsUnlessFull(outcome) == outcome # "CAPACITY"

\* What a caller is told: a receipt, or an exception.
Succeeds(outcome) == outcome \in {"ACCEPTED", "EXACT_DUPLICATE", "REPLAY"}

\* the receipt an append leaves
Receipt(b, e, outcome) ==
    [binding |-> b, input |-> Input(b, e), disposition |-> outcome]

AppendEvent(k, b, e, at, outcome) ==
    /\ outcome = Outcome(k, b, e, at)
    /\ streams' = StreamsWith(b, at)
    /\ taints' = CASE outcome = "FOREIGN" -> Tainted(Stored(b), "CONFLICT")
                   [] outcome \in {"CONFLICT", "CAPACITY"} -> Tainted(b, outcome)
                   [] OTHER -> taints
    /\ receipts' = IF outcome \in {"ACCEPTED", "EXACT_DUPLICATE"}
                   THEN Put(receipts, k, Receipt(b, e, outcome))
                   ELSE receipts
    /\ LET new == IF outcome = "ACCEPTED" THEN {Row(b, e, at)} ELSE {} IN
       /\ events' = events \cup new
       /\ payloads' = payloads \cup new

-----------------------------------------------------------------------------
(***************************************************************************)
(* recover_stream reads outside a transaction: the marker, then the rows   *)
(* of the events, then the receipts, then the payloads.                    *)
(***************************************************************************)

\* the receipts of a stream for one row
For(b, r, disposition) ==
    {k \in ReceiptsOf(b) : /\ receipts[k].input = Input(b, r.event)
                           /\ receipts[k].disposition = disposition}

\* Mutant: receipts of events that were not read are skipped.
HistoryOfTheRows(b, rows) ==
    \A r \in rows : Cardinality(For(b, r, "ACCEPTED")) = 1

\* _validate_ingress_history: every receipt is for a row that was read, and
\* every row was accepted once
HistoryMatches(b, rows) ==
    /\ \A k \in ReceiptsOf(b) : \E r \in rows : receipts[k].input = Input(b, r.event)
    /\ \A r \in rows : Cardinality(For(b, r, "ACCEPTED")) = 1

\* how many deliveries a recovery returns, duplicates included
Deliveries(b, rows) ==
    Cardinality(rows) + Cardinality(UNION {For(b, r, "EXACT_DUPLICATE") : r \in rows})

-----------------------------------------------------------------------------
(***************************************************************************)
(* seal_meeting_transcript_window.                                         *)
(***************************************************************************)

Numbers(rows) == {r.event.n : r \in rows}
At(rows, n) == (CHOOSE r \in rows : r.event.n = n).event

\* Mutant: a stream is complete when its numbers are.
CompleteNumbers(rows) == Numbers(rows) = 1 .. Cardinality(rows) /\ Cardinality(rows) >= 3

\* sequences 1..n, one start first, one stop last, nobody joined or left
Complete(rows) ==
    LET last == Cardinality(rows) IN
    /\ last >= 3
    /\ Numbers(rows) = 1 .. last
    /\ \A n \in 1 .. last :
          /\ (At(rows, n).kind = "STARTED") <=> (n = 1)
          /\ (At(rows, n).kind = "STOPPED") <=> (n = last)
          /\ At(rows, n).kind # "JOINED"

\* received in the order of their numbers, and stopped by the time of sealing
InOrder(rows, now) ==
    LET last == Cardinality(rows) IN
    /\ \A n \in 1 .. last - 1 : At(rows, n).at <= At(rows, n + 1).at
    /\ At(rows, last).at <= now

Sealable(b, rows, deliveries, now) ==
    /\ deliveries <= b.limit
    /\ Complete(rows)
    /\ InOrder(rows, now)

\* the segments in their order: what is redacted and handed off
Transcript(rows) ==
    [i \in 1 .. Cardinality(rows) - 2 |-> At(rows, i + 1).body]

-----------------------------------------------------------------------------
(* The sessions.                                                           *)

CONSTANTS
    Processes,    \* runtimes over one database
    Sessions,     \* session ids: a POC and the key of its creation
    PocOf,        \* the POC of a session
    Scripts,      \* what an adapter may answer: the events of start and draft,
                  \* and the max_event_count of its policy
    MaxSessions,  \* max_sessions
    MaxTime,      \* bound: the last clock reading
    None

Times == 0 .. MaxTime

\* An event of an adapter: its id, its number, and how long its text is.
ScriptEvents ==
    [id : Nat, n : Nat, kind : {"STARTED", "TRANSCRIPT", "STOPPED", "JOINED"}, body : Nat]

\* The adapter starts with an event of the start; an empty draft is refused.
ASSUME SessionAssumption ==
    /\ MaxSessions \in Nat \ {0}
    /\ MaxTime \in Nat
    /\ None \notin Times /\ None \notin Scripts
    /\ \A script \in Scripts :
          /\ script.initial \in Seq(ScriptEvents) \ {<<>>}
          /\ script.draft \in Seq(ScriptEvents) \ {<<>>}
          /\ script.limit \in Nat

VARIABLES
    now,       \* the wall clock
    sessions,  \* per process, _sessions
    sources,   \* per process, the attached sources, by session
    call       \* per process, the call that holds the runtime lock

vars == <<streams, events, payloads, receipts, taints,
          now, sessions, sources, call>>

\* A session record: its state and what its attempts have cached.
Session(state, consented) ==
    [state |-> state, consented |-> consented, started |-> None,
     script |-> None, drafted |-> None]

\* A call: what it does, its next step, the event it is at, the last clock
\* reading, and what a recovery has read.
Called(op, s, step, i) ==
    [op |-> op, s |-> s, step |-> step, i |-> i, at |-> 0, rows |-> {}, deliveries |-> 0]

Idle == Called(None, None, "idle", 0)

Init ==
    /\ InboxInit
    /\ now = 0
    /\ sessions = [p \in Processes |-> EmptyDict]
    /\ sources = [p \in Processes |-> EmptyDict]
    /\ call = [p \in Processes |-> Idle]

Free(p) == call[p] = Idle

Binding(p, s) == LET r == sessions[p][s] IN
    [session |-> s, consented |-> r.consented, started |-> r.started,
     limit |-> r.script.limit]

Remember(p, s, r) == sessions' = [sessions EXCEPT ![p] = Put(@, s, r)]

-----------------------------------------------------------------------------
(***************************************************************************)
(* Calls that are done in one step.                                        *)
(***************************************************************************)

Create(p, s) ==
    /\ Free(p)
    /\ \A t \in DOMAIN sessions[p] : PocOf[t] # PocOf[s]
    /\ Cardinality(DOMAIN sessions[p]) < MaxSessions
    /\ Remember(p, s, Session("SETUP", None))
    /\ UNCHANGED <<inbox, now, sources, call>>

\* record_consent, with every box ticked: otherwise it is refused
RecordConsent(p, s) ==
    /\ Free(p)
    /\ s \in DOMAIN sessions[p] /\ sessions[p][s].state = "SETUP"
    /\ Remember(p, s, Session("READY", now))
    /\ UNCHANGED <<inbox, now, sources, call>>

-----------------------------------------------------------------------------
(***************************************************************************)
(* start and draft_now: the time and the events of the first attempt are   *)
(* cached, so that a retry delivers the same events again.                 *)
(***************************************************************************)

Begin(p, s, op) == call' = [call EXCEPT ![p] = Called(op, s, "clock", 1)]

\* authorize_meeting_capture: consent cannot follow the request
Authorized(r) == r.consented <= r.started

\* The adapter may fail: then only the time of the attempt stays.
Start(p, s) ==
    /\ Free(p)
    /\ s \in DOMAIN sessions[p] /\ sessions[p][s].state = "READY"
    /\ LET r == sessions[p][s]
           timed == IF r.started = None THEN [r EXCEPT !.started = now] ELSE r
       IN \/ /\ r.script = None
             /\ r.started = None
             /\ Remember(p, s, timed)
             /\ UNCHANGED call
          \/ /\ r.script = None
             /\ Authorized(timed)
             /\ \E script \in Scripts :
                   Remember(p, s, [timed EXCEPT !.script = script])
             /\ Begin(p, s, "START")
          \/ /\ r.script # None
             /\ Begin(p, s, "START")
             /\ UNCHANGED sessions
    /\ UNCHANGED <<inbox, now, sources>>

DraftNow(p, s) ==
    /\ Free(p)
    /\ s \in DOMAIN sessions[p] /\ sessions[p][s].state = "LIVE"
    /\ LET r == sessions[p][s] IN
       Remember(p, s, IF r.drafted = None THEN [r EXCEPT !.drafted = now] ELSE r)
    /\ Begin(p, s, "DRAFT")
    /\ UNCHANGED <<inbox, now, sources>>

Stamped(e, at) == [at |-> at, id |-> e.id, n |-> e.n, kind |-> e.kind, body |-> e.body]

\* the events of the attempt, stamped with its cached time
Attempt(p) ==
    LET c == call[p]
        r == sessions[p][c.s]
    IN IF c.op = "START"
       THEN [i \in DOMAIN r.script.initial |-> Stamped(r.script.initial[i], r.started)]
       ELSE [i \in DOMAIN r.script.draft |-> Stamped(r.script.draft[i], r.drafted)]

\* Mutant: the key tells two starts of a session apart.
IngressKeyOfTheStart(p) ==
    <<call[p].s, call[p].op, call[p].i, sessions[p][call[p].s].started>>

\* "meeting-session:<id>:start:<i>": the same after a restart
IngressKey(p) == <<call[p].s, call[p].op, call[p].i>>

Goto(p, c) == call' = [call EXCEPT ![p] = c]
Release(p) == call' = [call EXCEPT ![p] = Idle]

\* append reads the clock and refuses an envelope before it looks at the
\* database, then purges in a transaction of its own.  Erasure can fail after
\* the rows are gone.
ReadClock(p) ==
    /\ call[p].step = "clock"
    /\ LET c == call[p]
           e == Attempt(p)[c.i]
       IN IF EnvelopeOk(Binding(p, c.s), e) /\ e.at <= now
          THEN /\ Purge(now)
               /\ \/ Goto(p, [c EXCEPT !.step = "append", !.at = now])
                  \/ Expired(now) # {} /\ Release(p)
          ELSE Release(p) /\ UNCHANGED inbox
    /\ UNCHANGED <<now, sessions, sources>>

\* the append itself; after the last event a start is done and a draft goes on
AppendNext(p) ==
    /\ call[p].step = "append"
    /\ LET c == call[p]
           outcome == Outcome(IngressKey(p), Binding(p, c.s), Attempt(p)[c.i], c.at)
       IN /\ AppendEvent(IngressKey(p), Binding(p, c.s), Attempt(p)[c.i], c.at, outcome)
          /\ IF ~Succeeds(outcome) THEN Release(p) /\ UNCHANGED sessions
             ELSE IF c.i < Len(Attempt(p)) THEN
                Goto(p, [c EXCEPT !.step = "clock", !.i = @ + 1]) /\ UNCHANGED sessions
             ELSE IF c.op = "START" THEN
                /\ Release(p)
                /\ Remember(p, c.s, [sessions[p][c.s] EXCEPT !.state = "LIVE"])
             ELSE Goto(p, [c EXCEPT !.step = "finalize"]) /\ UNCHANGED sessions
    /\ UNCHANGED <<now, sources>>

-----------------------------------------------------------------------------
(***************************************************************************)
(* finalize_source.                                                        *)
(***************************************************************************)

\* completed_at is read before anything else; recovery purges first
Finalize(p) ==
    /\ call[p].step = "finalize"
    /\ Goto(p, [call[p] EXCEPT !.step = "retain", !.at = now])
    /\ UNCHANGED <<inbox, now, sessions, sources>>

Retain(p) ==
    /\ call[p].step = "retain"
    /\ Purge(now)
    /\ \/ Goto(p, [call[p] EXCEPT !.step = "marker"])
       \/ Expired(now) # {} /\ Release(p)
    /\ UNCHANGED <<now, sessions, sources>>

\* _load_taint_locked and the row of the stream, which never changes
ReadMarker(p) ==
    /\ call[p].step = "marker"
    /\ IF Binding(p, call[p].s) \in DOMAIN taints THEN Release(p)
       ELSE Goto(p, [call[p] EXCEPT !.step = "rows"])
    /\ UNCHANGED <<inbox, now, sessions, sources>>

ReadRows(p) ==
    /\ call[p].step = "rows"
    /\ Goto(p, [call[p] EXCEPT !.step = "history",
                               !.rows = RowsOf(Binding(p, call[p].s))])
    /\ UNCHANGED <<inbox, now, sessions, sources>>

ReadHistory(p) ==
    /\ call[p].step = "history"
    /\ LET c == call[p]
           b == Binding(p, c.s)
       IN IF HistoryMatches(b, c.rows)
          THEN Goto(p, [c EXCEPT !.step = "payloads", !.deliveries = Deliveries(b, c.rows)])
          ELSE Release(p)
    /\ UNCHANGED <<inbox, now, sessions, sources>>

ReadPayloads(p) ==
    /\ call[p].step = "payloads"
    /\ IF call[p].rows \subseteq payloads
       THEN Goto(p, [call[p] EXCEPT !.step = "seal"])
       ELSE Release(p)
    /\ UNCHANGED <<inbox, now, sessions, sources>>

\* A source is found again under the identity of its stream.
Source(b, transcript) == [binding |-> b, transcript |-> transcript]

\* capture_meeting_connector_transcript: a second attachment of the stream
\* returns the first, and is refused when the text changed.
Attachable(p, s, transcript) ==
    s \in DOMAIN sources[p] => sources[p][s].transcript = transcript

\* The sealer, the handoff and the source intake touch nothing another process
\* shares, so they are one step.  The intake may refuse: the draft was archived
\* during the call, or the source store is full.
SealAndHandOff(p) ==
    /\ call[p].step = "seal"
    /\ LET c == call[p]
           b == Binding(p, c.s)
           text == Transcript(c.rows)
       IN \/ /\ Sealable(b, c.rows, c.deliveries, c.at)
             /\ Attachable(p, c.s, text)
             /\ sources' = [sources EXCEPT ![p] =
                    IF c.s \in DOMAIN @ THEN @ ELSE Put(@, c.s, Source(b, text))]
             /\ Remember(p, c.s, [sessions[p][c.s] EXCEPT !.state = "DRAFT_READY"])
          \/ UNCHANGED <<sources, sessions>>
    /\ Release(p)
    /\ UNCHANGED <<inbox, now>>

-----------------------------------------------------------------------------
(***************************************************************************)
(* The environment.                                                        *)
(***************************************************************************)

\* The wall clock moves, and may be set back.
Tick ==
    /\ now' \in Times
    /\ now' # now
    /\ UNCHANGED <<inbox, sessions, sources, call>>

Step(p) ==
    \/ ReadClock(p) \/ AppendNext(p)
    \/ Finalize(p) \/ Retain(p) \/ ReadMarker(p) \/ ReadRows(p)
    \/ ReadHistory(p) \/ ReadPayloads(p) \/ SealAndHandOff(p)

Next ==
    \/ \E p \in Processes :
          \/ Step(p)
          \/ \E s \in Sessions :
                \/ Create(p, s) \/ RecordConsent(p, s)
                \/ Start(p, s) \/ DraftNow(p, s)
    \/ Tick

Spec == Init /\ [][Next]_vars
-----------------------------------------------------------------------------
(***************************************************************************)
(* Properties.                                                             *)
(***************************************************************************)

\* The keys a session delivers under do not change when its process is lost,
\* but the time it starts at does, and with it the stream.  However processes
\* race and restart, the events of a session are all in one stream: a second
\* capture of the session meets the keys of the first and is tainted before
\* anything of it is accepted (append, _start).
OneStreamPerSession ==
    \A r1, r2 \in events :
        r1.binding.session = r2.binding.session => r1.binding = r2.binding

\* Recovery reads rows and receipts one after the other without a
\* transaction.  When the receipts match the rows, the rows are the whole
\* stream at that moment: a read torn by an append is refused
\* (recover_stream, _validate_ingress_history).
TornReadIsRefused ==
    [][\A p \in Processes :
          /\ call[p].step = "history"
          /\ call'[p].step = "payloads"
          => call[p].rows = RowsOf(Binding(p, call[p].s))]_vars

\* A source is text of events that one stream accepted: its numbers run from
\* 1 without a gap, it starts once and stops once, and nothing that was
\* delivered twice is in it twice, whatever was appended to the stream since
\* (seal_meeting_transcript_window, handoff).
SourceIsTheStream ==
    \A p \in Processes : \A s \in DOMAIN sources[p] :
        LET source == sources[p][s]
            rows == RowsOf(source.binding)
            stop == Len(source.transcript) + 2
        IN /\ 1 .. stop \subseteq Numbers(rows)
           /\ \A n \in 1 .. stop :
                 At(rows, n).kind = IF n = 1 THEN "STARTED"
                                    ELSE IF n = stop THEN "STOPPED" ELSE "TRANSCRIPT"
           /\ \A i \in 1 .. stop - 2 : source.transcript[i] = At(rows, i + 1).body

\* A marker is never lifted or replaced, and nothing is accepted into, or
\* removed from the receipts of, a marked stream (_taint_stream_locked).
TaintIsFinal ==
    [][\A b \in DOMAIN taints :
          /\ b \in DOMAIN taints' /\ taints'[b] = taints[b]
          /\ RowsOf(b)' = RowsOf(b)
          /\ ReceiptsOf(b)' = ReceiptsOf(b)]_vars

\* A session is shown LIVE only when the events of its start are in the
\* durable inbox, and DRAFT_READY only when its source is attached, also
\* after failed attempts, a clock set back, and a shared database
\* (_start, _draft_now).
ShownIsDurable ==
    \A p \in Processes : \A s \in DOMAIN sessions[p] :
        LET r == sessions[p][s] IN
        /\ r.state \in {"LIVE", "DRAFT_READY"} =>
              \A i \in DOMAIN r.script.initial :
                 \E row \in RowsOf(Binding(p, s)) :
                    row.event.id = r.script.initial[i].id /\ row.event.at = r.started
        /\ r.state = "DRAFT_READY" =>
              s \in DOMAIN sources[p] /\ sources[p][s].binding = Binding(p, s)

\* The limits hold with duplicates counted, across processes, and every
\* stored event has exactly one accepting receipt, so a stream that is
\* neither marked nor being read can always be recovered
\* (_require_capacity_locked, append).
HistoryIsWhole ==
    /\ Cardinality(DOMAIN receipts) <= MaxIngress
    /\ \A i \in DOMAIN streams : LET b == streams[i].binding IN
          /\ HistoryMatches(b, RowsOf(b))
          /\ Deliveries(b, RowsOf(b)) <= b.limit
          /\ Characters(b) <= MaxCharacters
=============================================================================
