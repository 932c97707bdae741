----------------------------- MODULE ZoomLive -----------------------------
(***************************************************************************)
(* The private runtime of one live Zoom capture.  An operator pairs a POC  *)
(* with a meeting, directly or by enrolling its two participants; a child  *)
(* process opens the stream and reports events; the browser starts, stops, *)
(* processes and resets; the watcher enforces the deadlines.  Only one     *)
(* capture is current.  Every call holds the lock of the runtime; a launch *)
(* builds its child between two transactions, and children are closed      *)
(* after the transaction that gave them up.                                *)
(***************************************************************************)
EXTENDS Naturals, Sequences, FiniteSets, SequencesExt

CONSTANTS
    Captures,     \* the generations, numbered
    People,       \* numeric participants
    Packets,      \* transcript packets, by digest
    Keys,         \* idempotency keys of the browser, numbered
    NoLive        \* no value

States == {"ENROLLING", "PAIRED", "WAITING", "LISTENING", "INTERRUPTED", "RECONNECTING",
           "STOP_REQUESTED", "DRAINING", "CAPTURE_READY", "DRAFT_READY", "FAILED", "REVOKED"}
Enrollments ==
    [ready : BOOLEAN, nonce : BOOLEAN, armed : BOOLEAN, candidate : People \cup {NoLive},
     confirming : BOOLEAN, confirmed : Seq(People), observed : SUBSET People]
LiveSources == [name : Captures, gen : Captures, packets : SUBSET Packets]

\* What the record of a capture may be
LiveCaptures ==
    [gen : Captures, state : States, ids : SUBSET People, enroll : Enrollments \cup {NoLive},
     enrolled : BOOLEAN, consent : BOOLEAN, child : BOOLEAN, bound : BOOLEAN,
     packets : SUBSET Packets, ops : SUBSET Keys, late : SUBSET {"enroll", "run", "stop"},
     stopping : BOOLEAN, source : LiveSources \cup {NoLive}]

ASSUME ZoomAssumption ==
    /\ Captures \cup Keys \subseteq Nat
    /\ NoLive \notin Captures \cup People
    /\ NoLive \notin LiveCaptures

VARIABLES
    rec,       \* the current capture, or NoLive
    used,      \* generations already given out
    launching, \* generation |-> where its launch thread is
    procs,     \* generations whose child process runs
    pending,   \* children given up and not closed yet
    failing,   \* generations with a refused event, before they are failed
    shut,      \* the runtime takes no more calls
    open,      \* the draft is an active meeting draft and the POC is not closed
    liveSources \* sources the intake holds for these captures

zoomVars == <<rec, used, launching, procs, pending, failing, shut, open, liveSources>>

Final == {"FAILED", "REVOKED", "DRAFT_READY"}

Enrolling == [ready |-> FALSE, nonce |-> FALSE, armed |-> FALSE, candidate |-> NoLive,
              confirming |-> FALSE, confirmed |-> <<>>, observed |-> {}]

\* A capture as pair and begin_enrollment create it.
Capture(g, state, ids, enrollment) ==
    [gen |-> g, state |-> state, ids |-> ids, enroll |-> enrollment, enrolled |-> FALSE,
     consent |-> FALSE, child |-> FALSE, bound |-> FALSE, packets |-> {},
     ops |-> {}, late |-> {}, stopping |-> FALSE, source |-> NoLive]

ZoomInit ==
    /\ rec = NoLive
    /\ used = {}
    /\ launching = [g \in Captures |-> "no"]
    /\ procs = {}
    /\ pending = {}
    /\ failing = {}
    /\ shut = FALSE
    /\ open = TRUE
    /\ liveSources = {}

Current(g) == rec # NoLive /\ rec.gen = g

----------------------------------------------------------------------------
(* What a failure does to the record and its child.                        *)

FailRecord(r, state) ==
    [r EXCEPT !.state = state, !.child = FALSE, !.packets = {}, !.ids = {}, !.enroll = NoLive]

GivenUp(r) == IF r # NoLive /\ r.child THEN {r.gen} ELSE {}

\* _fail_locked and _revoke_locked on the current record.
FailLocked(state) ==
    /\ rec' = IF rec = NoLive THEN NoLive ELSE FailRecord(rec, state)
    /\ pending' = pending \cup GivenUp(rec)

\* A message for the child: without a child, or with a full queue, the capture fails.
Sent(r, ok) == IF r.child /\ ok THEN r ELSE FailRecord(r, "FAILED")

\* Install a record; a child the record no longer holds is to be closed.
Install(r) ==
    /\ rec' = r
    /\ pending' = pending \cup (IF rec.child /\ ~r.child THEN {rec.gen} ELSE {})

----------------------------------------------------------------------------
(* Pairing and enrolment                                                    *)

Pair(g, ids) ==
    /\ open /\ ~shut
    /\ g \in Captures \ used
    /\ used' = used \cup {g}
    /\ rec' = Capture(g, "PAIRED", ids, NoLive)
    /\ pending' = pending \cup GivenUp(rec)
    /\ UNCHANGED <<launching, procs, failing, shut, open, liveSources>>

BeginEnrollment(g) ==
    /\ open /\ ~shut
    /\ g \in Captures \ used
    /\ used' = used \cup {g}
    /\ rec' = Capture(g, "ENROLLING", {}, Enrolling)
    /\ pending' = pending \cup GivenUp(rec)
    /\ launching' = [launching EXCEPT ![g] = "asked"]
    /\ UNCHANGED <<procs, failing, shut, open, liveSources>>

\* An operation of the operator under the handle of an enrolment.  A refusal
\* revokes exactly the enrolment the handle names.
Admitted(r) == open /\ ~shut /\ r.state = "ENROLLING" /\ r.late \cap {"enroll", "run"} = {}

EnrollmentCall(allowed, next) ==
    /\ rec # NoLive
    /\ rec.enroll # NoLive
    /\ IF Admitted(rec) /\ allowed /\ next.state \notin {"FAILED", "REVOKED"}
       THEN Install(next)
       ELSE FailLocked("REVOKED")
    /\ UNCHANGED <<used, launching, procs, failing, shut, open, liveSources>>

ArmEnrollment(ok) ==
    EnrollmentCall(rec.enroll.ready /\ ~rec.enroll.nonce /\ Len(rec.enroll.confirmed) < 2,
                   Sent([rec EXCEPT !.enroll.nonce = TRUE], ok))

ConfirmEnrollment(p, ok) ==
    EnrollmentCall(rec.enroll.armed /\ ~rec.enroll.confirming /\ p = rec.enroll.candidate,
                   Sent([rec EXCEPT !.enroll.confirming = TRUE], ok))

\* The same record, child and deadline continue as an ordinary pairing.
AdoptEnrollment(ok) ==
    EnrollmentCall(Len(rec.enroll.confirmed) = 2 /\ ~rec.enroll.nonce /\ ~rec.enroll.confirming,
                   IF Sent(rec, ok).state # "ENROLLING" THEN Sent(rec, ok)
                   ELSE [rec EXCEPT !.ids = ToSet(rec.enroll.confirmed), !.enrolled = TRUE,
                                    !.enroll = NoLive, !.state = "PAIRED"])

CancelEnrollment ==
    /\ rec # NoLive
    /\ rec.enroll # NoLive
    /\ FailLocked("REVOKED")
    /\ UNCHANGED <<used, launching, procs, failing, shut, open, liveSources>>

----------------------------------------------------------------------------
(* The launch thread: admission, the child's construction, its publication *)

LaunchAdmit(g) ==
    /\ launching[g] = "asked"
    /\ launching' = [launching EXCEPT ![g] =
           IF /\ open /\ ~shut
              /\ Current(g)
              /\ rec.state \in {"WAITING", "ENROLLING"}
              /\ "run" \notin rec.late
              /\ rec.enroll # NoLive => "enroll" \notin rec.late
           THEN "building" ELSE "no"]
    /\ UNCHANGED <<rec, used, procs, pending, failing, shut, open, liveSources>>

LaunchBuild(g, ok) ==
    /\ launching[g] = "building"
    /\ IF ok
       THEN /\ procs' = procs \cup {g}
            /\ launching' = [launching EXCEPT ![g] = "built"]
            /\ UNCHANGED <<rec, pending>>
       ELSE /\ IF Current(g) /\ rec.state \notin {"CAPTURE_READY", "DRAFT_READY", "REVOKED"}
               THEN FailLocked("FAILED") ELSE UNCHANGED <<rec, pending>>
            /\ launching' = [launching EXCEPT ![g] = "no"]
            /\ UNCHANGED procs
    /\ UNCHANGED <<used, failing, shut, open, liveSources>>

\* A fault: the launch publishes its child without looking at the capture again.
LaunchPublishUnchecked(g) ==
    /\ launching[g] = "built"
    /\ launching' = [launching EXCEPT ![g] = "no"]
    /\ IF Current(g) THEN rec' = [rec EXCEPT !.child = TRUE] ELSE UNCHANGED rec
    /\ UNCHANGED <<used, procs, pending, failing, shut, open, liveSources>>

\* The child belongs to the capture that asked for it, or to the closing queue.
LaunchPublish(g) ==
    /\ launching[g] = "built"
    /\ launching' = [launching EXCEPT ![g] = "no"]
    /\ IF shut \/ ~Current(g) \/ rec.state \in {"FAILED", "REVOKED"}
       THEN pending' = pending \cup {g} /\ UNCHANGED rec
       ELSE rec' = [rec EXCEPT !.child = TRUE] /\ UNCHANGED pending
    /\ UNCHANGED <<used, procs, failing, shut, open, liveSources>>

----------------------------------------------------------------------------
(* Events of the child.  An event is [kind, fits, bound, who, packet]: fits *)
(* is its envelope (generation, the next sequence number within the limit,  *)
(* shape and sizes), bound says that it names the stream of the offer.      *)

Observed(e, p) == Cardinality(e.observed \cup {p}) <= 2

\* A fault: a confirmed participant may be the candidate again.
EnrollmentFitsAgain(r, ev) ==
    LET e == r.enroll IN
    /\ "enroll" \notin r.late
    /\ ev.bound
    /\ \/ ev.kind = "enrollment_ready" /\ ~e.ready
       \/ ev.kind = "enrollment_armed" /\ e.nonce /\ ~e.armed
       \/ ev.kind = "enrollment_candidate" /\ e.armed /\ e.candidate = NoLive
       \/ ev.kind = "enrollment_confirmed" /\ e.confirming /\ ev.who = e.candidate

\* _receive_enrollment_locked: what each event needs and what it does.
EnrollmentFits(r, ev) ==
    LET e == r.enroll IN
    /\ "enroll" \notin r.late
    /\ ev.bound
    /\ \/ ev.kind = "failed"
       \/ ev.kind = "enrollment_ready" /\ ~e.ready
       \/ ev.kind = "participant" /\ Observed(e, ev.who)
       \/ ev.kind = "enrollment_armed" /\ e.nonce /\ ~e.armed
       \/ /\ ev.kind = "enrollment_candidate"
          /\ e.armed /\ ~e.confirming /\ e.candidate = NoLive
          /\ Observed(e, ev.who) /\ ev.who \notin ToSet(e.confirmed)
       \/ ev.kind = "enrollment_confirmed" /\ e.confirming /\ ev.who = e.candidate

EnrollmentStep(r, ev) ==
    CASE ev.kind = "enrollment_ready" -> [r EXCEPT !.enroll.ready = TRUE]
      [] ev.kind = "participant" -> [r EXCEPT !.enroll.observed = @ \cup {ev.who}]
      [] ev.kind = "enrollment_armed" -> [r EXCEPT !.enroll.armed = TRUE]
      [] ev.kind = "enrollment_candidate" ->
            [r EXCEPT !.enroll.observed = @ \cup {ev.who}, !.enroll.candidate = ev.who]
      [] OTHER -> [r EXCEPT !.enroll = [@ EXCEPT !.confirmed = Append(r.enroll.confirmed, ev.who),
                       !.nonce = FALSE, !.armed = FALSE, !.confirming = FALSE, !.candidate = NoLive]]

\* The native decoder: a well-formed packet of one of the two participants.
Decodes(r, ev) == ev.who \in r.ids

\* _receive on a paired capture.
CaptureFits(r, ev) ==
    /\ ev.bound /\ r.bound
    /\ \/ ev.kind = "failed"
       \/ ev.kind = "participant" /\ ev.who \in r.ids
       \/ ev.kind = "listening" /\ r.state \in {"WAITING", "RECONNECTING", "INTERRUPTED"}
       \/ /\ ev.kind \in {"INTERRUPTED", "RECONNECTING"}
          /\ r.state \in {"LISTENING", "INTERRUPTED", "RECONNECTING"}
       \/ /\ ev.kind = "transcript"
          /\ r.state \in {"LISTENING", "STOP_REQUESTED", "DRAINING"}
          /\ ev.packet \in r.packets \/ Decodes(r, ev)
       \/ ev.kind = "stop_ack" /\ r.state = "STOP_REQUESTED"
       \/ ev.kind = "drained" /\ r.state = "DRAINING" /\ r.packets # {}

CaptureStep(r, ev) ==
    CASE ev.kind = "participant" -> r
      [] ev.kind = "listening" -> [r EXCEPT !.state = "LISTENING"]
      [] ev.kind \in {"INTERRUPTED", "RECONNECTING"} -> [r EXCEPT !.state = ev.kind]
      [] ev.kind = "transcript" -> [r EXCEPT !.packets = @ \cup {ev.packet}]
      [] ev.kind = "stop_ack" -> [r EXCEPT !.state = "DRAINING"]
      [] OTHER -> [r EXCEPT !.state = "CAPTURE_READY", !.stopping = FALSE, !.ids = {},
                            !.child = FALSE]

\* The offer binds the stream and is answered; a failure may come before it.
OfferFits(r) == r.state \in {"WAITING", "ENROLLING"} /\ ~r.bound

Fits(r, ev) ==
    /\ open
    /\ ev.fits
    /\ "run" \notin r.late
    /\ \/ ev.kind = "failed" /\ r.state \in {"WAITING", "ENROLLING"} /\ ~ev.bound
       \/ ev.kind = "offer" /\ OfferFits(r)
       \/ r.enroll # NoLive /\ EnrollmentFits(r, ev)
       \/ r.enroll = NoLive /\ CaptureFits(r, ev)

EventStep(r, ev, ok) ==
    CASE ev.kind = "failed" -> FailRecord(r, "FAILED")
      [] ev.kind = "offer" -> Sent([r EXCEPT !.bound = TRUE], ok)
      [] OTHER -> IF r.enroll # NoLive THEN EnrollmentStep(r, ev) ELSE CaptureStep(r, ev)

\* An event of a child that was built; the ones it sent before it was
\* published wait for the publication.
Receive(g, ev, ok) ==
    /\ g \in procs
    /\ launching[g] = "no"
    /\ Current(g)
    /\ rec.state \notin Final
    /\ IF Fits(rec, ev)
       THEN Install(EventStep(rec, ev, ok)) /\ UNCHANGED failing
       ELSE failing' = failing \cup {g} /\ UNCHANGED <<rec, pending>>
    /\ UNCHANGED <<used, launching, procs, shut, open, liveSources>>

\* The refused event fails the capture in a transaction of its own.
FailInvalid(g) ==
    /\ g \in failing
    /\ failing' = failing \ {g}
    /\ IF Current(g) /\ rec.state \notin {"REVOKED", "DRAFT_READY"}
       THEN FailLocked("FAILED") ELSE UNCHANGED <<rec, pending>>
    /\ UNCHANGED <<used, launching, procs, shut, open, liveSources>>

\* The child ends by itself: its reader reports the failure and closes it.
ChildExits(g) ==
    /\ g \in procs
    /\ launching[g] = "no"
    /\ procs' = procs \ {g}
    /\ IF Current(g) /\ rec.state \notin {"CAPTURE_READY", "DRAFT_READY", "REVOKED"}
       THEN FailLocked("FAILED") ELSE UNCHANGED <<rec, pending>>
    /\ UNCHANGED <<used, launching, failing, shut, open, liveSources>>

----------------------------------------------------------------------------
(* The browser's actions under a session and an idempotency key             *)

\* A call on the current session with a new key.  A key of another call is
\* refused and a repeated one is answered with the snapshot: neither changes
\* anything.
Acting(key) ==
    /\ open /\ ~shut
    /\ rec # NoLive
    /\ "run" \notin rec.late
    /\ key \notin rec.ops

Recorded(r, key) == [r EXCEPT !.ops = @ \cup {key}]

\* The lock holds until the answer, so a refusal keeps what it wrote before it.
StartLive(key, ok) ==
    /\ Acting(key)
    /\ rec.state = "PAIRED"
    /\ LET r == [rec EXCEPT !.consent = TRUE, !.state = "WAITING"] IN
       IF ~rec.enrolled
       THEN Install(Recorded(r, key)) /\ launching' = [launching EXCEPT ![rec.gen] = "asked"]
       ELSE /\ UNCHANGED launching
            /\ Install(IF ~rec.child \/ ~rec.bound THEN r ELSE Recorded(Sent(r, ok), key))
    /\ UNCHANGED <<used, procs, failing, shut, open, liveSources>>

Stop(key, ok) ==
    /\ Acting(key)
    /\ rec.state \in {"LISTENING", "INTERRUPTED", "RECONNECTING"}
    /\ Install(Recorded(Sent([rec EXCEPT !.state = "STOP_REQUESTED", !.stopping = TRUE], ok), key))
    /\ UNCHANGED <<used, launching, procs, failing, shut, open, liveSources>>

Reset(key) ==
    /\ Acting(key)
    /\ Install(Recorded(FailRecord(rec, "REVOKED"), key))
    /\ UNCHANGED <<used, launching, procs, failing, shut, open, liveSources>>

\* A fault: a source is named after the call that asked for it.
SourceNameOfCall(key) == key

\* The name under which the intake keeps a capture's source.
SourceName(key) == rec.gen

\* The intake attaches once for a name and answers a repetition of the same
\* content with the receipt it gave; the read that follows may fail, and then
\* the capture is as it was.
Process(key, read) ==
    /\ Acting(key)
    /\ rec.state = "CAPTURE_READY"
    /\ rec.packets # {}
    /\ \A s \in liveSources : s.name = SourceName(key) => s.packets = rec.packets
    /\ LET s == [name |-> SourceName(key), gen |-> rec.gen, packets |-> rec.packets] IN
       /\ liveSources' = liveSources \cup {s}
       /\ IF read
          THEN Install(Recorded([rec EXCEPT !.source = s, !.packets = {},
                                            !.state = "DRAFT_READY"], key))
          ELSE UNCHANGED <<rec, pending>>
    /\ UNCHANGED <<used, launching, procs, failing, shut, open>>

----------------------------------------------------------------------------
(* Deadlines, revocation, cleanup and shutdown                              *)

\* A deadline of the current capture passes.
TimePasses(d) ==
    /\ rec # NoLive
    /\ d \in {"enroll", "run", "stop"} \ rec.late
    /\ rec.state \notin Final
    /\ d = "stop" => rec.stopping
    /\ d = "enroll" => rec.enroll # NoLive
    /\ rec' = [rec EXCEPT !.late = @ \cup {d}]
    /\ UNCHANGED <<used, launching, procs, pending, failing, shut, open, liveSources>>

Overdue(r) ==
    \/ r.enroll # NoLive /\ "enroll" \in r.late
    \/ "run" \in r.late
    \/ r.stopping /\ "stop" \in r.late

\* tick, of the watcher or of a reader; an action past the deadline does the same.
LiveTick ==
    /\ rec # NoLive
    /\ rec.state \notin Final
    /\ Overdue(rec) \/ ~open
    /\ FailLocked("REVOKED")
    /\ UNCHANGED <<used, launching, procs, failing, shut, open, liveSources>>

\* The draft is archived or the POC closes, which revokes its capture.
DraftCloses ==
    /\ open
    /\ open' = FALSE
    /\ UNCHANGED <<rec, used, launching, procs, pending, failing, shut, liveSources>>

Revoke ==
    /\ rec # NoLive
    /\ ~open
    /\ FailLocked("REVOKED")
    /\ UNCHANGED <<used, launching, procs, failing, shut, open, liveSources>>

\* Children given up are closed outside the lock; one that cannot be closed
\* is kept and the runtime takes no more calls.
DrainCleanup(stuck) ==
    /\ pending # {}
    /\ stuck \subseteq pending
    /\ procs' = procs \ (pending \ stuck)
    /\ pending' = stuck
    /\ shut' = (shut \/ stuck # {})
    /\ UNCHANGED <<rec, used, launching, failing, open, liveSources>>

Close ==
    /\ ~shut
    /\ shut' = TRUE
    /\ FailLocked("REVOKED")
    /\ UNCHANGED <<used, launching, procs, failing, open, liveSources>>

----------------------------------------------------------------------------
Kinds == {"offer", "failed", "participant", "participant_left", "listening", "INTERRUPTED",
          "RECONNECTING", "transcript", "stop_ack", "drained", "enrollment_ready",
          "enrollment_armed", "enrollment_candidate", "enrollment_confirmed"}

\* One event for each kind, with what can differ in it.
Events ==
    {ev \in [kind : Kinds, fits : BOOLEAN, bound : BOOLEAN, who : People, packet : Packets] :
       /\ ~ev.fits => ev.kind = "participant_left" /\ ev.bound
       /\ ~ev.bound => ev.kind \in {"failed", "drained"}
       /\ ev.kind # "transcript" => \A p \in Packets : ev.packet = (CHOOSE q \in Packets : TRUE)
       /\ ev.kind \notin {"participant", "transcript", "enrollment_candidate",
                          "enrollment_confirmed"} => ev.who = (CHOOSE p \in People : TRUE)}

\* Unused keys are alike, and so are unused generations: the least ones stand
\* for all.  A repetition of a call that failed may have its key or another.
FreshKeys(n) ==
    IF rec = NoLive THEN {}
    ELSE {k \in Keys \ rec.ops : Cardinality({j \in Keys \ rec.ops : j < k}) < n}
NextCapture == {g \in Captures \ used : \A h \in Captures \ used : g <= h}

ZoomNext ==
    \/ \E g \in NextCapture :
          \/ \E ids \in {s \in SUBSET People : Cardinality(s) = 2} : Pair(g, ids)
          \/ BeginEnrollment(g)
    \/ \E g \in Captures :
          \/ LaunchAdmit(g)
          \/ \E ok \in BOOLEAN : LaunchBuild(g, ok)
          \/ LaunchPublish(g)
          \/ \E ev \in Events, ok \in BOOLEAN : (ok \/ ev.kind = "offer") /\ Receive(g, ev, ok)
          \/ FailInvalid(g)
          \/ ChildExits(g)
    \/ \E ok \in BOOLEAN : ArmEnrollment(ok)
    \/ \E p \in People, ok \in BOOLEAN : ConfirmEnrollment(p, ok)
    \/ \E ok \in BOOLEAN : AdoptEnrollment(ok)
    \/ CancelEnrollment
    \/ \E key \in FreshKeys(1) :
          \/ \E ok \in BOOLEAN : StartLive(key, ok)
          \/ \E ok \in BOOLEAN : Stop(key, ok)
          \/ Reset(key)
    \/ \E key \in FreshKeys(2), read \in BOOLEAN : Process(key, read)
    \/ \E d \in {"enroll", "run", "stop"} : TimePasses(d)
    \/ LiveTick
    \/ DraftCloses
    \/ Revoke
    \/ \E stuck \in SUBSET pending : DrainCleanup(stuck)
    \/ Close

ZoomSpec == ZoomInit /\ [][ZoomNext]_zoomVars

----------------------------------------------------------------------------
(* Properties                                                               *)

\* A child that runs belongs to someone: to the current capture while that is
\* neither failed nor revoked, to the queue of children to close, or to the
\* launch that is building it.  Launch, replacement, revocation and shutdown
\* may come in any order around the construction of the child.
NoOrphanChild ==
    \A g \in procs :
        \/ Current(g) /\ rec.child /\ rec.state \notin {"FAILED", "REVOKED"}
        \/ g \in pending
        \/ launching[g] = "built"

\* A capture leaves at most one source, whatever failed between the attachment
\* and its record and however often processing is asked again.
OneSourcePerCapture ==
    \A s, t \in liveSources : s.gen = t.gen => s = t

\* A stream is opened for transcript only after the consent of the browser and
\* between exactly two people: of those an enrolment adopts, the operator has
\* confirmed each one separately.
TwoPeopleConsented ==
    rec # NoLive =>
        /\ rec.packets # {} => rec.consent
        /\ rec.enrolled /\ rec.ids # {} => Cardinality(rec.ids) = 2

=============================================================================
