--------------------------- MODULE CaptureProofs ---------------------------
(***************************************************************************)
(* Proofs about how a meeting becomes a source: the authenticator of       *)
(* deliveries, the custody of a fixture capture, the session and its       *)
(* bridge, the live runtime, and the durable inbox with its sessions.      *)
(***************************************************************************)
EXTENDS MCCapture, FiniteSetTheorems, TLAPS

-----------------------------------------------------------------------------
(* Deliveries of a webhook.                                                 *)

WebhookTypeOK ==
    /\ time \in Nat /\ lastNow \in Nat /\ ended \in BOOLEAN
    /\ replay \subseteq WebhookDeliveries
    /\ firsts \in [WebhookDeliveries -> Nat]
    /\ asking \in [Requests -> [delivery : Nat, now : Nat]]
    /\ \A r \in Requests : asking[r] # WebhookIdle =>
        asking[r].delivery \in WebhookDeliveries /\ asking[r].now <= Expires(asking[r].delivery)

\* A delivery that was a first observation is remembered, or its window closed
\* before the latest clock value that any request may still use.
FirstIsRemembered == ~ended => \A d \in WebhookDeliveries :
    firsts[d] > 0 => d \in replay \/ Expires(d) < lastNow

WebhookInv == WebhookTypeOK /\ FirstOnce /\ FirstIsRemembered

LEMMA WebhookStarts == ASSUME WebhookInit PROVE WebhookInv
<1>1. time \in Nat /\ lastNow \in Nat /\ ended \in BOOLEAN /\ replay \subseteq WebhookDeliveries
    BY DEF WebhookInit
<1>2. asking \in [Requests -> [delivery : Nat, now : Nat]]
      /\ \A r \in Requests : asking[r] = WebhookIdle
    BY DEF WebhookInit, WebhookIdle
<1>3. firsts \in [WebhookDeliveries -> Nat] /\ \A d \in WebhookDeliveries : firsts[d] = 0
    BY DEF WebhookInit
<1> QED BY <1>1, <1>2, <1>3 DEF WebhookInv, WebhookTypeOK, FirstOnce, FirstIsRemembered

LEMMA ObserveStep ==
    ASSUME WebhookInv, NEW r \in Requests, Observe(r) PROVE WebhookInv'
<1> DEFINE d == asking[r].delivery
           asked == asking[r].now
<1>1. d \in WebhookDeliveries /\ d \in Nat /\ asked \in Nat /\ asked <= Expires(d) /\ PastAge \in Nat
    BY WebhookAssumption DEF WebhookInv, WebhookTypeOK, Observe
<1>2. asking' \in [Requests -> [delivery : Nat, now : Nat]] /\ time' = time /\ ended' = ended
      /\ \A q \in Requests : asking'[q] # WebhookIdle => asking'[q] = asking[q]
    BY DEF WebhookInv, WebhookTypeOK, Observe, WebhookIdle
<1>3. CASE ended \/ ~WebhookInOrder(asked)
    BY <1>2, <1>3 DEF Observe, WebhookInv, WebhookTypeOK, FirstOnce, FirstIsRemembered, Expires
<1>4. CASE ~ended /\ WebhookInOrder(asked)
    <2>1. lastNow' = asked /\ asked >= lastNow BY <1>4 DEF Observe, WebhookInOrder
    <2>2. \A e \in WebhookDeliveries : e \in Nat /\ Expires(e) \in Nat
        BY WebhookAssumption DEF Expires
    <2>3. \A e \in WebhookDeliveries : firsts[e] > 0 => e \in Prune(asked) \/ Expires(e) < asked
        BY <1>1, <1>4, <2>1, <2>2 DEF WebhookInv, WebhookTypeOK, FirstIsRemembered, Prune
    <2>4. CASE d \in Prune(asked) \/ Cardinality(Prune(asked)) >= MaxReplays
        <3>1. replay' = Prune(asked) /\ firsts' = firsts BY <1>4, <2>4 DEF Observe
        <3> QED BY <1>1, <1>2, <2>1, <2>3, <3>1
            DEF WebhookInv, WebhookTypeOK, FirstOnce, FirstIsRemembered, Prune, Expires
    <2>5. CASE ~(d \in Prune(asked) \/ Cardinality(Prune(asked)) >= MaxReplays)
        <3>1. replay' = Prune(asked) \cup {d} /\ firsts' = [firsts EXCEPT ![d] = @ + 1]
            BY <1>4, <2>5 DEF Observe
        <3>2. firsts[d] = 0 /\ firsts' \in [WebhookDeliveries -> Nat] /\ firsts'[d] = 1
              /\ \A e \in WebhookDeliveries \ {d} : firsts'[e] = firsts[e]
            BY <1>1, <2>2, <2>3, <2>5, <3>1 DEF WebhookInv, WebhookTypeOK
        <3> QED BY <1>1, <1>2, <2>1, <2>3, <3>1, <3>2
            DEF WebhookInv, WebhookTypeOK, FirstOnce, FirstIsRemembered, Prune, Expires
    <2> QED BY <2>4, <2>5
<1> QED BY <1>3, <1>4 DEF WebhookInv, WebhookTypeOK

LEMMA WebhookStep == ASSUME WebhookInv, [WebhookNext]_webhookVars PROVE WebhookInv'
<1>1. CASE UNCHANGED webhookVars
    BY <1>1 DEF webhookVars, WebhookInv, WebhookTypeOK, FirstOnce, FirstIsRemembered
<1>2. CASE ClockTicks \/ ClockStepsBack
    <2>1. time' \in Nat BY <1>2 DEF ClockTicks, ClockStepsBack, WebhookInv, WebhookTypeOK
    <2> QED BY <1>2, <2>1 DEF ClockTicks, ClockStepsBack, WebhookInv, WebhookTypeOK, FirstOnce, FirstIsRemembered
<1>3. CASE CloseWebhook
    BY <1>3 DEF CloseWebhook, WebhookInv, WebhookTypeOK, FirstOnce, FirstIsRemembered
<1>4. ASSUME NEW r \in Requests, NEW d \in WebhookDeliveries, Authenticate(r, d) PROVE WebhookInv'
    <2>1. d \in Nat /\ time \in Nat /\ time <= Expires(d)
        BY <1>4, WebhookAssumption DEF Authenticate, InWindow, WebhookInv, WebhookTypeOK
    <2>2. asking' = [asking EXCEPT ![r] = [delivery |-> d, now |-> time]] BY <1>4 DEF Authenticate
    <2> QED BY <1>4, <2>1, <2>2 DEF Authenticate, WebhookInv, WebhookTypeOK, FirstOnce, FirstIsRemembered
<1> QED BY <1>1, <1>2, <1>3, <1>4, ObserveStep DEF WebhookNext

-----------------------------------------------------------------------------
(* Custody of a fixture capture.                                            *)

Manifests == [plan : Plans, inventory : Raws, at : Nat]
PrivacyReviews == [review : Reviews, of : Manifests]

CustodyTypeOK ==
    /\ raw \in Raws /\ frozen \in BOOLEAN /\ clock \in Nat
    /\ files \in [Files -> {Absent} \cup Plans \cup Manifests \cup PrivacyReviews]
    /\ files["plan"] \in {Absent} \cup Plans
    /\ files["manifest"] \in {Absent} \cup Manifests
    /\ files["review"] \in {Absent} \cup PrivacyReviews
    /\ files["receipt"] \in {Absent} \cup PrivacyReviews
    /\ step = Waiting \/ step \in [do : {"preflight"}, plan : Plans]
       \/ step \in [do : {"freeze", "manifest"}, manifest : Manifests]
       \/ step \in [do : {"receipt"}, review : PrivacyReviews]

\* A review that is written is of the seal that stands.
ReviewOfTheSeal(v) ==
    /\ v \in PrivacyReviews /\ frozen
    /\ files["manifest"] = v.of /\ v.of.inventory = raw

CustodyInv ==
    /\ CustodyTypeOK
    /\ files["review"] # Absent => ReviewOfTheSeal(files["review"])
    /\ step.do = "receipt" => files["review"] = step.review
    /\ files["receipt"] \in {Absent, files["review"]}
    /\ \A a \in answers : a.receipt = files["review"] /\ files["review"] # Absent

LEMMA CustodyStarts == ASSUME CustodyInit PROVE CustodyInv
<1>1. \A f \in Files : files[f] = Absent BY DEF CustodyInit
<1>2. files \in [Files -> {Absent} \cup Plans \cup Manifests \cup PrivacyReviews]
    BY DEF CustodyInit
<1>3. {"plan", "manifest", "review", "receipt"} \subseteq Files BY DEF Files
<1> QED BY <1>1, <1>2, <1>3 DEF CustodyInit, CustodyInv, CustodyTypeOK, Waiting

LEMMA WrittenIsThere ==
    /\ \A m \in Manifests : m # Absent
    /\ \A v \in PrivacyReviews : v # Absent /\ v.of \in Manifests
<1>1. Absent \notin Manifests /\ Absent \notin PrivacyReviews
    BY CustodyAssumption DEF Manifests, PrivacyReviews
<1> QED BY <1>1 DEF PrivacyReviews

\* A control file is written once.
LEMMA WrittenOnce ==
    ASSUME NEW f \in Files, NEW bytes, NEW next, WriteThen(f, bytes, next),
           files \in [Files -> {Absent} \cup Plans \cup Manifests \cup PrivacyReviews],
           bytes \in Plans \cup Manifests \cup PrivacyReviews
    PROVE  /\ files' \in [Files -> {Absent} \cup Plans \cup Manifests \cup PrivacyReviews]
           /\ \A g \in Files \ {f} : files'[g] = files[g]
           /\ \/ files'[f] = bytes /\ step' = next
              \/ files'[f] = files[f] /\ step' = Waiting
           /\ files[f] # Absent => files'[f] = files[f]
BY DEF WriteThen, Writable

LEMMA CustodyStep == ASSUME CustodyInv, [CustodyNext]_custodyVars PROVE CustodyInv'
<1> USE DEF CustodyInv, CustodyTypeOK
<1>0. {"plan", "preflight", "template", "manifest", "review", "receipt"} = Files BY DEF Files
<1>1. CASE UNCHANGED custodyVars
    BY <1>1 DEF custodyVars, ReviewOfTheSeal
<1>2. ASSUME NEW r \in Raws, RawChanges(r) PROVE CustodyInv'
    BY <1>2 DEF RawChanges, ReviewOfTheSeal
<1>3. ASSUME NEW p \in Plans, Initialize(p) PROVE CustodyInv'
    <2>1. CASE WriteThen("plan", p, [do |-> "preflight", plan |-> p])
        BY <1>0, <1>3, <2>1, WrittenOnce DEF Initialize, ReviewOfTheSeal, Waiting
    <2>2. CASE UNCHANGED <<files, step>>
        BY <1>3, <2>2 DEF Initialize, ReviewOfTheSeal
    <2> QED BY <1>3, <2>1, <2>2 DEF Initialize
<1>4. CASE WritePreflight
    <2>1. step.plan \in Plans BY <1>4 DEF WritePreflight, Waiting
    <2> QED BY <1>0, <1>4, <2>1, WrittenOnce DEF WritePreflight, ReviewOfTheSeal, Waiting
<1>5. CASE Seal
    <2>1. Manifest \in Manifests BY <1>5 DEF Seal, Prepared, Manifest, Manifests
    <2> QED BY <1>0, <1>5, <2>1, WrittenOnce DEF Seal, ReviewOfTheSeal, Waiting
<1>6. CASE MakeReadOnly
    <2>1. step \in [do : {"freeze", "manifest"}, manifest : Manifests] BY <1>6 DEF MakeReadOnly, Waiting
    <2> QED BY <1>6, <2>1 DEF MakeReadOnly, ReviewOfTheSeal
<1>7. CASE WriteManifest
    <2>1. step.manifest \in Manifests BY <1>7 DEF WriteManifest, Waiting
    <2>2. files["review"] # Absent => files["manifest"] # Absent
        BY WrittenIsThere DEF ReviewOfTheSeal
    <2> QED BY <1>0, <1>7, <2>1, <2>2, WrittenOnce DEF WriteManifest, ReviewOfTheSeal, Waiting
<1>8. ASSUME NEW r \in Reviews, Review(r) PROVE CustodyInv'
    <2> DEFINE v == [review |-> r, of |-> files["manifest"]]
    <2>1. v \in PrivacyReviews /\ v.of = files["manifest"] /\ frozen /\ v.of.inventory = raw
        BY <1>8 DEF Review, Verified, PrivacyReviews
    <2>2. WriteThen("review", v, [do |-> "receipt", review |-> v]) /\ step = Waiting
          /\ UNCHANGED <<raw, frozen, clock, answers>>
        BY <1>8 DEF Review
    <2>3. files["receipt"] = Absent \/ files["review"] # Absent OBVIOUS
    <2> QED BY <1>0, <2>1, <2>2, <2>3, WrittenOnce DEF ReviewOfTheSeal, Waiting
<1>9. CASE WriteReceipt
    <2>1. step.review \in PrivacyReviews /\ step.review = files["review"]
        BY <1>9 DEF WriteReceipt, Waiting
    <2>2. files["review"] # Absent BY <2>1, WrittenIsThere
    <2> QED BY <1>0, <1>9, <2>1, <2>2, WrittenOnce DEF WriteReceipt, ReviewOfTheSeal, Waiting
<1>10. CASE CommandDies \/ TimeGoesOn
    BY <1>10 DEF CommandDies, TimeGoesOn, ReviewOfTheSeal, Waiting
<1> QED BY <1>1, <1>2, <1>3, <1>4, <1>5, <1>6, <1>7, <1>8, <1>9, <1>10 DEF CustodyNext

\* A delivery is a first observation once, and a privacy review speaks of the
\* files that were sealed, however requests and commands are overtaken or stop.
THEOREM ProvenanceStays == WebhookSpec /\ CustodySpec => []ProvenanceHolds
<1>1. CustodyInv => ReviewedIsSealed
    BY DEF CustodyInv, ReviewOfTheSeal, ReviewedIsSealed
<1>2. WebhookInv /\ CustodyInv => ProvenanceHolds BY <1>1 DEF WebhookInv, ProvenanceHolds
<1> QED BY <1>2, WebhookStarts, WebhookStep, CustodyStarts, CustodyStep, PTL DEF WebhookSpec, CustodySpec

-----------------------------------------------------------------------------
(* The session and its bridge.                                              *)

Contexts == (SUBSET Segments) \cup {NoValue}
Requested == ({"TRANSCRIPT"} \X Segments) \cup {<<a>> : a \in Actions}
Records ==
    [state : {"STARTING", "LISTENING", "INTERRUPTED", "RECONNECTING", "PROCESSING",
              "DRAFT_READY", "FAILED"},
     segs : SUBSET Segments, dups : Nat, reconnects : Nat, stop : BOOLEAN,
     input : Contexts, result : Contexts,
     failure : {NoValue, "RECONNECT_FAILED", "TIMEOUT", "PROCESSING_FAILED", "NO_TRANSCRIPT"},
     ops : Seq(Requested)]

\* A session with a draft shows what the intake holds.
ShowsTheDraft(s) ==
    /\ s \in Records
    /\ s.state = "DRAFT_READY" =>
        intake # NoValue /\ intake = s.input /\ s.result = intake /\ s.input = s.segs

DraftInv ==
    /\ intake \in Contexts
    /\ ShowsTheDraft(ses)
    /\ saved # NoValue => ShowsTheDraft(saved)

\* What a call makes of a record: never a draft, and a draft stays as it is.
NoDraftOf(s, t) ==
    /\ t \in Records
    /\ t.state = "DRAFT_READY" => s.state = "DRAFT_READY" /\ t.segs = s.segs
                                   /\ t.input = s.input /\ t.result = s.result

LEMMA FailedKeeps ==
    ASSUME NEW s \in Records,
           NEW why \in {"RECONNECT_FAILED", "TIMEOUT", "PROCESSING_FAILED"}
    PROVE  NoDraftOf(s, Failed(s, why))
<1>1. CASE s.state \in {"FAILED", "DRAFT_READY"} BY <1>1 DEF Failed, NoDraftOf
<1>2. CASE s.state \notin {"FAILED", "DRAFT_READY"}
    <2>1. Failed(s, why) = [s EXCEPT !.state = "FAILED", !.failure = why] BY <1>2 DEF Failed
    <2> QED BY <2>1 DEF NoDraftOf, Records
<1> QED BY <1>1, <1>2

LEMMA HeardKeeps ==
    ASSUME NEW s \in Records, NEW seg \in Segments, NEW t \in AppendTranscript(s, seg)
    PROVE  NoDraftOf(s, t)
<1>1. \/ t = s
      \/ s.state \in Capturing /\ t \in {[s EXCEPT !.dups = @ + 1], [s EXCEPT !.segs = @ \cup {seg}]}
    BY DEF AppendTranscript
<1> QED BY <1>1 DEF NoDraftOf, Records, Capturing

LEMMA StopKeeps == ASSUME NEW s \in Records, NEW t \in Stopping(s) PROVE NoDraftOf(s, t)
<1>1. \/ t = s
      \/ t = [s EXCEPT !.stop = TRUE, !.state = "FAILED", !.failure = "NO_TRANSCRIPT"]
      \/ t = [s EXCEPT !.stop = TRUE, !.state = "PROCESSING", !.input = s.segs]
    BY DEF Stopping
<1> QED BY <1>1 DEF NoDraftOf, Records, Contexts

LEMMA ReconnectKeeps ==
    ASSUME NEW s \in Records,
           NEW t \in MarkListening(s) \cup Interrupt(s) \cup BeginReconnect(s) \cup MarkReconnected(s)
    PROVE  NoDraftOf(s, t)
<1>1. \/ t = s
      \/ \E x \in {"LISTENING", "INTERRUPTED", "RECONNECTING"} : t = [s EXCEPT !.state = x]
      \/ t = [s EXCEPT !.state = "LISTENING", !.reconnects = @ + 1]
    BY DEF MarkListening, Interrupt, BeginReconnect, MarkReconnected
<1>2. CASE t = s BY <1>2 DEF NoDraftOf
<1>3. ASSUME NEW x \in {"LISTENING", "INTERRUPTED", "RECONNECTING"}, t = [s EXCEPT !.state = x]
      PROVE  NoDraftOf(s, t)
    BY <1>3 DEF NoDraftOf, Records
<1>4. CASE t = [s EXCEPT !.state = "LISTENING", !.reconnects = @ + 1]
    <2>1. s.reconnects + 1 \in Nat BY DEF Records
    <2>2. t \in Records BY <1>4, <2>1 DEF Records
    <2>3. t.state = "LISTENING" BY <1>4 DEF Records
    <2> QED BY <2>2, <2>3 DEF NoDraftOf
<1> QED BY <1>1, <1>2, <1>3, <1>4

LEMMA EndKeeps ==
    ASSUME NEW s \in Records,
           NEW t \in ReconnectFailed(s) \cup Timeout(s) \cup ProcessingFailed(s)
    PROVE  NoDraftOf(s, t)
<1>1. \E why \in {"RECONNECT_FAILED", "TIMEOUT", "PROCESSING_FAILED"} : t = Failed(s, why)
    BY DEF ReconnectFailed, Timeout, ProcessingFailed
<1> QED BY <1>1, FailedKeeps

LEMMA MutateStep ==
    ASSUME DraftInv, NEW key \in 1 .. MaxCalls, NEW action \in Requested, NEW outcome,
           \A t \in outcome : NoDraftOf(ses, t),
           Mutate(key, action, outcome)
    PROVE  DraftInv'
<1>1. CASE UNCHANGED ses BY <1>1 DEF Mutate, DraftInv, ShowsTheDraft
<1>2. CASE \E s \in outcome : ses' = IF SnapshotFits(s) THEN [s EXCEPT !.ops = Append(@, action)] ELSE s
    <2>1. PICK s \in outcome : ses' = IF SnapshotFits(s) THEN [s EXCEPT !.ops = Append(@, action)] ELSE s
        BY <1>2
    <2>2. NoDraftOf(ses, s) OBVIOUS
    <2>3. Append(s.ops, action) \in Seq(Requested) BY <2>2 DEF NoDraftOf, Records
    <2>4. NoDraftOf(ses, ses') BY <2>1, <2>2, <2>3 DEF NoDraftOf, Records
    <2> QED BY <2>4 DEF NoDraftOf, DraftInv, ShowsTheDraft, Mutate
<1> QED BY <1>1, <1>2 DEF Mutate

LEMMA BridgeStep ==
    ASSUME DraftInv, NEW attached \in BOOLEAN, NEW completed \in BOOLEAN, Bridge(attached, completed)
    PROVE  DraftInv'
<1>1. ses \in Records /\ ses.state = "PROCESSING" /\ ses.input = ses.segs /\ saved' = saved
      /\ ses.input \in SUBSET Segments /\ ses.input # NoValue
    BY TranscriptAssumption DEF Bridge, Ready, DraftInv, ShowsTheDraft, Records
<1>2. NoDraftOf(ses, Failed(ses, "PROCESSING_FAILED")) BY <1>1, FailedKeeps
<1>3. CASE UNCHANGED intake /\ ses' = Failed(ses, "PROCESSING_FAILED")
    BY <1>1, <1>2, <1>3 DEF DraftInv, ShowsTheDraft, NoDraftOf
<1>4. ASSUME NEW held \in Attach(ses.input), intake' = held,
             IF completed THEN \E s \in ProcessingSucceeded(ses, held) : ses' = s
             ELSE ses' = Failed(ses, "PROCESSING_FAILED")
      PROVE  DraftInv'
    <2>1. held = ses.input /\ (intake # NoValue => intake' = intake) BY <1>4 DEF Attach
    <2>2. saved # NoValue => ShowsTheDraft(saved)' BY <1>1, <2>1 DEF DraftInv, ShowsTheDraft
    <2>3. CASE completed
        <3>1. ses' = [ses EXCEPT !.state = "DRAFT_READY", !.result = held]
            BY <1>1, <1>4, <2>3 DEF ProcessingSucceeded
        <3> QED BY <1>1, <1>4, <2>1, <2>2, <3>1 DEF DraftInv, ShowsTheDraft, Records, Contexts
    <2>4. CASE ~completed
        BY <1>1, <1>2, <1>4, <2>1, <2>2, <2>4 DEF DraftInv, ShowsTheDraft, NoDraftOf, Contexts
    <2> QED BY <2>3, <2>4
<1> QED BY <1>3, <1>4 DEF Bridge

LEMMA DraftStarts == ASSUME SessionInit PROVE DraftInv
<1>1. <<>> \in Seq(Requested) /\ {} \in SUBSET Segments OBVIOUS
<1> QED BY <1>1 DEF SessionInit, New, DraftInv, ShowsTheDraft, Records, Contexts

LEMMA DraftStep == ASSUME DraftInv, [SessionNext]_sessionVars PROVE DraftInv'
<1>1. CASE UNCHANGED sessionVars BY <1>1 DEF sessionVars, DraftInv, ShowsTheDraft
<1>2. CASE Checkpoint \/ Recover BY <1>2 DEF Checkpoint, Recover, DraftInv, ShowsTheDraft
<1>3. ASSUME NEW key \in 1 .. MaxCalls, NEW seg \in Segments, Deliver(key, seg) PROVE DraftInv'
    <2>1. ses \in Records /\ <<"TRANSCRIPT", seg>> \in Requested BY DEF DraftInv, ShowsTheDraft, Requested
    <2>2. \A t \in AppendTranscript(ses, seg) : NoDraftOf(ses, t) BY <2>1, HeardKeeps
    <2> QED BY <1>3, <2>1, <2>2, MutateStep DEF Deliver
<1>4. ASSUME NEW key \in 1 .. MaxCalls, NEW action \in Actions, Control(key, action) PROVE DraftInv'
    <2>1. ses \in Records /\ <<action>> \in Requested BY DEF DraftInv, ShowsTheDraft, Requested
    <2>2. PICK outcome \in {MarkListening(ses), Interrupt(ses), BeginReconnect(ses), MarkReconnected(ses),
                            ReconnectFailed(ses), Timeout(ses), Stopping(ses), ProcessingFailed(ses)} :
              Mutate(key, <<action>>, outcome)
        BY <1>4 DEF Control, Actions
    <2>3. \A t \in outcome : NoDraftOf(ses, t) BY <2>1, <2>2, ReconnectKeeps, EndKeeps, StopKeeps
    <2> QED BY <2>1, <2>2, <2>3, MutateStep
<1> QED BY <1>1, <1>2, <1>3, <1>4, BridgeStep DEF SessionNext

-----------------------------------------------------------------------------
(* The live runtime.                                                        *)

Started == {"WAITING", "LISTENING", "INTERRUPTED", "RECONNECTING", "STOP_REQUESTED",
            "DRAINING", "CAPTURE_READY", "DRAFT_READY"}

\* The people an enrolment has confirmed differ, and from the candidate.
Separately(e) ==
    /\ \A i, j \in DOMAIN e.confirmed : e.confirmed[i] = e.confirmed[j] => i = j
    /\ \A i \in DOMAIN e.confirmed : e.confirmed[i] # e.candidate

\* A capture that was started has the browser's consent, one that has ended
\* has no child, and an adopted one its two people.
Rightful(r) ==
    /\ r \in LiveCaptures
    /\ r.state \in Started \/ r.packets # {} => r.consent
    /\ r.child => r.state \notin {"FAILED", "REVOKED"}
    /\ r.enrolled /\ r.ids # {} => Cardinality(r.ids) = 2
    /\ r.enroll # NoLive => r.state = "ENROLLING" /\ Separately(r.enroll)

LiveTypeOK ==
    /\ used \subseteq Captures /\ pending \subseteq Captures /\ procs \subseteq Captures
    /\ launching \in [Captures -> {"no", "asked", "building", "built"}]

\* A generation that was not given out, and a pairing that was not started,
\* have no launch.
LaunchIsAsked ==
    /\ \A g \in Captures \ used : launching[g] = "no"
    /\ rec # NoLive => /\ Rightful(rec)
                       /\ rec.gen \in used
                       /\ rec.state = "PAIRED" /\ ~rec.enrolled => launching[rec.gen] = "no"

SourcesAreNamed ==
    \A s \in liveSources : s.name = s.gen /\ s = [name |-> s.name, gen |-> s.gen, packets |-> s.packets]

LiveInv == LiveTypeOK /\ LaunchIsAsked /\ SourcesAreNamed /\ OneSourcePerCapture /\ NoOrphanChild

LEMMA FailedIsRightful ==
    ASSUME NEW r, Rightful(r), NEW state \in {"FAILED", "REVOKED"}
    PROVE  Rightful(FailRecord(r, state)) /\ FailRecord(r, state).gen = r.gen
           /\ FailRecord(r, state).state = state /\ ~FailRecord(r, state).child
<1> DEFINE f == FailRecord(r, state)
<1>1. f = [r EXCEPT !.state = state, !.child = FALSE, !.packets = {}, !.ids = {}, !.enroll = NoLive]
    BY DEF FailRecord
<1>2. f \in LiveCaptures BY <1>1 DEF Rightful, LiveCaptures, States
<1>3. f.gen = r.gen /\ f.state = state /\ f.child = FALSE /\ f.packets = {} /\ f.ids = {} /\ f.enroll = NoLive
    BY <1>1 DEF Rightful, LiveCaptures
<1> QED BY <1>2, <1>3 DEF Rightful, Started

\* What the next record of the same capture is, after any call but the first.
Follows(r) == /\ rec # NoLive /\ Rightful(r) /\ r.gen = rec.gen
              /\ r.state = "PAIRED" /\ ~r.enrolled => rec.state = "PAIRED" /\ ~rec.enrolled

LEMMA FailureFollows ==
    ASSUME LiveInv, rec # NoLive, NEW r, Rightful(r), r.gen = rec.gen, NEW state \in {"FAILED", "REVOKED"}
    PROVE  Follows(FailRecord(r, state)) /\ ~FailRecord(r, state).child
BY FailedIsRightful DEF Follows

LEMMA SentFollows ==
    ASSUME LiveInv, NEW r, Follows(r), NEW ok \in BOOLEAN PROVE Follows(Sent(r, ok))
<1>1. CASE r.child /\ ok BY <1>1 DEF Sent
<1>2. CASE ~(r.child /\ ok)
    <2>1. Sent(r, ok) = FailRecord(r, "FAILED") BY <1>2 DEF Sent
    <2> QED BY <2>1, FailureFollows DEF Follows
<1> QED BY <1>1, <1>2

\* A record that replaces the one of the same capture, and a launch that goes on.
LEMMA ReplacedLive ==
    ASSUME LiveInv, NEW r, Follows(r), Install(r), procs' \subseteq procs,
           launching' \in [Captures -> {"no", "asked", "building", "built"}],
           \A g \in Captures : launching[g] = "built" => launching'[g] = "built",
           \A g \in Captures : launching'[g] = launching[g] \/ g \in used,
           r.state = "PAIRED" /\ ~r.enrolled => launching' = launching,
           used' = used
    PROVE  LiveTypeOK' /\ LaunchIsAsked' /\ NoOrphanChild'
<1>1. rec \in LiveCaptures /\ rec.gen \in Captures BY DEF LiveInv, LaunchIsAsked, Rightful, LiveCaptures, Follows
<1>2. rec' = r /\ rec' # NoLive /\ pending' \subseteq pending \cup {rec.gen} /\ pending \subseteq pending'
      /\ (rec.child /\ ~r.child => rec.gen \in pending')
    BY ZoomAssumption DEF Install, Follows, Rightful
<1>3. LiveTypeOK' BY <1>1, <1>2 DEF LiveInv, LiveTypeOK
<1>4. LaunchIsAsked' BY <1>2 DEF LiveInv, LaunchIsAsked, Follows
<1>5. NoOrphanChild'
    <2> SUFFICES ASSUME NEW g \in procs PROVE (Current(g) /\ rec.child /\ rec.state \notin {"FAILED", "REVOKED"})'
                            \/ g \in pending' \/ launching'[g] = "built"
        BY DEF NoOrphanChild
    <2>1. (rec.gen = g /\ rec.child) \/ g \in pending \/ launching[g] = "built"
        BY DEF LiveInv, NoOrphanChild, Current
    <2>2. g \in Captures BY DEF LiveInv, LiveTypeOK
    <2> QED BY <1>2, <2>1, <2>2 DEF Current, Follows, Rightful
<1> QED BY <1>3, <1>4, <1>5

LEMMA InstallLive ==
    ASSUME LiveInv, NEW r, Follows(r), Install(r), procs' \subseteq procs,
           launching' \in [Captures -> {"no", "asked", "building", "built"}],
           \A g \in Captures : launching[g] = "built" => launching'[g] = "built",
           \A g \in Captures : launching'[g] = launching[g] \/ g \in used,
           r.state = "PAIRED" /\ ~r.enrolled => launching' = launching,
           used' = used, liveSources' = liveSources
    PROVE  LiveInv'
BY ReplacedLive DEF LiveInv, SourcesAreNamed, OneSourcePerCapture

LEMMA FailLive ==
    ASSUME LiveInv, NEW state \in {"FAILED", "REVOKED"}, FailLocked(state), procs' \subseteq procs,
           launching' \in [Captures -> {"no", "asked", "building", "built"}],
           \A g \in Captures : launching[g] = "built" => launching'[g] = "built",
           \A g \in Captures : launching'[g] = launching[g] \/ g \in used,
           used' = used, liveSources' = liveSources
    PROVE  LiveInv'
<1>1. CASE rec = NoLive
    <2>1. rec' = NoLive /\ pending' = pending BY <1>1 DEF FailLocked, GivenUp
    <2> QED BY <1>1, <2>1 DEF LiveInv, LiveTypeOK, LaunchIsAsked, SourcesAreNamed, OneSourcePerCapture,
            NoOrphanChild, Current
<1>2. CASE rec # NoLive
    <2> DEFINE r == FailRecord(rec, state)
    <2>1. Rightful(rec) BY <1>2 DEF LiveInv, LaunchIsAsked
    <2>2. Follows(r) /\ ~r.child /\ r.state = state BY <1>2, <2>1, FailureFollows, FailedIsRightful
    <2>3. Install(r) BY <1>2, <2>2 DEF FailLocked, GivenUp, Install
    <2>4. r.state # "PAIRED" BY <2>2
    <2> HIDE DEF r
    <2> QED BY <2>2, <2>3, <2>4, InstallLive
<1> QED BY <1>1, <1>2

\* A new capture gives the child of the old one up.
LEMMA ReplaceLive ==
    ASSUME LiveInv, NEW g \in Captures \ used, NEW r, Rightful(r), r.gen = g, ~r.child,
           rec' = r, used' = used \cup {g}, pending' = pending \cup GivenUp(rec),
           launching' \in [Captures -> {"no", "asked", "building", "built"}],
           \A h \in Captures \ {g} : launching'[h] = launching[h],
           r.state = "PAIRED" => launching'[g] = "no",
           procs' = procs, liveSources' = liveSources
    PROVE  LiveInv'
<1>1. GivenUp(rec) \subseteq Captures
    BY DEF GivenUp, LiveInv, LaunchIsAsked, Rightful, LiveCaptures
<1>2. LiveTypeOK' /\ LaunchIsAsked' BY <1>1 DEF LiveInv, LiveTypeOK, LaunchIsAsked
<1>3. NoOrphanChild'
    <2> SUFFICES ASSUME NEW h \in procs PROVE h \in pending' \/ launching'[h] = "built"
        BY DEF NoOrphanChild
    <2>1. h \in Captures /\ launching[g] = "no" BY DEF LiveInv, LiveTypeOK, LaunchIsAsked
    <2>2. Current(h) /\ rec.child => h \in GivenUp(rec) BY DEF Current, GivenUp
    <2> QED BY <2>1, <2>2 DEF LiveInv, NoOrphanChild
<1> QED BY <1>2, <1>3 DEF LiveInv, SourcesAreNamed, OneSourcePerCapture

LEMMA PairStep ==
    ASSUME LiveInv, NEW g \in Captures, NEW ids \in SUBSET People, Pair(g, ids) PROVE LiveInv'
<1> DEFINE r == Capture(g, "PAIRED", ids, NoLive)
<1>1. g \in Captures \ used BY DEF Pair
<1>2. Rightful(r) /\ r.gen = g /\ ~r.child /\ r.state = "PAIRED"
    BY DEF Capture, Rightful, LiveCaptures, States, Started
<1>3. launching[g] = "no" BY <1>1 DEF LiveInv, LaunchIsAsked
<1> HIDE DEF r
<1>4. rec' = r BY DEF Pair, r
<1> QED BY <1>1, <1>2, <1>3, <1>4, ReplaceLive DEF Pair, LiveInv, LiveTypeOK

LEMMA BeginEnrollmentStep ==
    ASSUME LiveInv, NEW g \in Captures, BeginEnrollment(g) PROVE LiveInv'
<1> DEFINE r == Capture(g, "ENROLLING", {}, Enrolling)
<1>1. g \in Captures \ used BY DEF BeginEnrollment
<1>2. Enrolling \in Enrollments /\ Separately(Enrolling)
    <2>1. <<>> \in Seq(People) OBVIOUS
    <2> QED BY <2>1 DEF Enrolling, Enrollments, Separately
<1>3. Rightful(r) /\ r.gen = g /\ ~r.child /\ r.state = "ENROLLING"
    BY <1>2 DEF Capture, Rightful, LiveCaptures, States, Started
<1> HIDE DEF r
<1>4. rec' = r BY DEF BeginEnrollment, r
<1> QED BY <1>1, <1>3, <1>4, ReplaceLive DEF BeginEnrollment, LiveInv, LiveTypeOK

\* What a change of an enrolment's own record leaves.
LEMMA EnrolledFollows ==
    ASSUME LiveInv, rec # NoLive, rec.state = "ENROLLING", rec.enroll # NoLive,
           NEW e \in Enrollments, Separately(e)
    PROVE  Follows([rec EXCEPT !.enroll = e])
<1>1. Rightful(rec) BY DEF LiveInv, LaunchIsAsked
<1> DEFINE r == [rec EXCEPT !.enroll = e]
<1>2. r \in LiveCaptures BY <1>1 DEF Rightful, LiveCaptures
<1>3. r.gen = rec.gen /\ r.state = rec.state /\ r.ids = rec.ids /\ r.enrolled = rec.enrolled
      /\ r.consent = rec.consent /\ r.child = rec.child /\ r.packets = rec.packets /\ r.enroll = e
    BY <1>1 DEF Rightful, LiveCaptures
<1> QED BY <1>1, <1>2, <1>3 DEF Follows, Rightful

LEMMA EnrollmentCallStep ==
    ASSUME LiveInv, NEW allowed, NEW next, EnrollmentCall(allowed, next),
           Admitted(rec) /\ allowed => Follows(next) /\ (next.state = "PAIRED" => next.enrolled)
    PROVE  LiveInv'
<1>1. CASE FailLocked("REVOKED") BY <1>1, FailLive DEF EnrollmentCall, LiveInv, LiveTypeOK
<1>2. CASE Admitted(rec) /\ allowed /\ Install(next)
    BY <1>2, InstallLive DEF EnrollmentCall, LiveInv, LiveTypeOK
<1> QED BY <1>1, <1>2 DEF EnrollmentCall

LEMMA EnrollmentSteps ==
    ASSUME LiveInv,
           \/ \E ok \in BOOLEAN : ArmEnrollment(ok) \/ AdoptEnrollment(ok)
           \/ \E p \in People, ok \in BOOLEAN : ConfirmEnrollment(p, ok)
           \/ CancelEnrollment
    PROVE  LiveInv'
<1>1. rec # NoLive /\ rec.enroll # NoLive
    BY DEF ArmEnrollment, AdoptEnrollment, ConfirmEnrollment, CancelEnrollment, EnrollmentCall
<1>2. Rightful(rec) /\ rec.enroll \in Enrollments /\ Separately(rec.enroll)
    BY <1>1 DEF LiveInv, LaunchIsAsked, Rightful, LiveCaptures
<1>3. ASSUME NEW ok \in BOOLEAN, ArmEnrollment(ok) PROVE LiveInv'
    <2> DEFINE e == [rec.enroll EXCEPT !.nonce = TRUE]
               r == [rec EXCEPT !.enroll = e]
    <2>1. e \in Enrollments /\ Separately(e) BY <1>2 DEF Enrollments, Separately
    <2>2. Admitted(rec) => rec.state = "ENROLLING" BY DEF Admitted
    <2>3. Admitted(rec) => Follows(r) BY <1>1, <2>1, <2>2, EnrolledFollows
    <2>4. Admitted(rec) => Follows(Sent(r, ok)) BY <2>3, SentFollows
    <2>5. Admitted(rec) => Sent(r, ok).state # "PAIRED"
        BY <1>2, <2>2, <2>3, FailedIsRightful DEF Sent, Follows, Rightful, LiveCaptures
    <2>6. [rec EXCEPT !.enroll.nonce = TRUE] = r BY <1>2 DEF Rightful, LiveCaptures
    <2> HIDE DEF r
    <2> QED BY <1>3, <2>4, <2>5, <2>6, EnrollmentCallStep DEF ArmEnrollment
<1>4. ASSUME NEW p \in People, NEW ok \in BOOLEAN, ConfirmEnrollment(p, ok) PROVE LiveInv'
    <2> DEFINE e == [rec.enroll EXCEPT !.confirming = TRUE]
               r == [rec EXCEPT !.enroll = e]
    <2>1. e \in Enrollments /\ Separately(e) BY <1>2 DEF Enrollments, Separately
    <2>2. Admitted(rec) => rec.state = "ENROLLING" BY DEF Admitted
    <2>3. Admitted(rec) => Follows(r) BY <1>1, <2>1, <2>2, EnrolledFollows
    <2>4. Admitted(rec) => Follows(Sent(r, ok)) BY <2>3, SentFollows
    <2>5. Admitted(rec) => Sent(r, ok).state # "PAIRED"
        BY <1>2, <2>2, <2>3, FailedIsRightful DEF Sent, Follows, Rightful, LiveCaptures
    <2>6. [rec EXCEPT !.enroll.confirming = TRUE] = r BY <1>2 DEF Rightful, LiveCaptures
    <2> HIDE DEF r
    <2> QED BY <1>4, <2>4, <2>5, <2>6, EnrollmentCallStep DEF ConfirmEnrollment
<1>5. ASSUME NEW ok \in BOOLEAN, AdoptEnrollment(ok) PROVE LiveInv'
    <2> DEFINE two == ToSet(rec.enroll.confirmed)
               allowed == Len(rec.enroll.confirmed) = 2 /\ ~rec.enroll.nonce /\ ~rec.enroll.confirming
               r == [rec EXCEPT !.ids = two, !.enrolled = TRUE, !.enroll = NoLive, !.state = "PAIRED"]
               next == IF Sent(rec, ok).state # "ENROLLING" THEN Sent(rec, ok) ELSE r
    <2>1. Follows(rec) BY <1>1, <1>2 DEF Follows
    <2>2. Follows(Sent(rec, ok)) BY <2>1, SentFollows
    <2>3. Admitted(rec) => Sent(rec, ok).state # "PAIRED"
        BY <1>2, FailedIsRightful DEF Sent, Admitted
    <2>4. ASSUME allowed PROVE two \subseteq People /\ Cardinality(two) = 2
        <3>1. rec.enroll.confirmed \in Seq(People) /\ Len(rec.enroll.confirmed) = 2 BY <1>2, <2>4 DEF Enrollments
        <3>2. rec.enroll.confirmed[1] \in People /\ rec.enroll.confirmed[2] \in People
              /\ rec.enroll.confirmed[1] # rec.enroll.confirmed[2] /\ DOMAIN rec.enroll.confirmed = 1 .. 2
            BY <1>2, <3>1 DEF Separately
        <3>3. two = {rec.enroll.confirmed[1], rec.enroll.confirmed[2]} BY <3>2 DEF ToSet
        <3>4. Cardinality({rec.enroll.confirmed[1]}) = 1 /\ IsFiniteSet({rec.enroll.confirmed[1]})
            BY FS_Singleton
        <3>5. Cardinality({rec.enroll.confirmed[1]} \cup {rec.enroll.confirmed[2]}) = 1 + 1
            BY <3>2, <3>4, FS_AddElement
        <3> QED BY <3>2, <3>3, <3>5
    <2>5. ASSUME allowed PROVE Follows(r) /\ r.enrolled
        <3>1. r \in LiveCaptures BY <1>2, <2>4, <2>5 DEF Rightful, LiveCaptures, States
        <3>2. r.gen = rec.gen /\ r.state = "PAIRED" /\ r.ids = two /\ r.enrolled = TRUE
              /\ r.consent = rec.consent /\ r.packets = rec.packets /\ r.enroll = NoLive
            BY <1>2 DEF Rightful, LiveCaptures
        <3> QED BY <1>1, <1>2, <2>4, <2>5, <3>1, <3>2 DEF Follows, Rightful, Started
    <2>6. Admitted(rec) /\ allowed => Follows(next) /\ (next.state = "PAIRED" => next.enrolled)
        BY <2>2, <2>3, <2>5
    <2>7. EnrollmentCall(allowed, next) BY <1>5 DEF AdoptEnrollment
    <2> HIDE DEF allowed, next
    <2> QED BY <2>6, <2>7, EnrollmentCallStep
<1>6. CASE CancelEnrollment
    BY <1>6, FailLive DEF CancelEnrollment, LiveInv, LiveTypeOK
<1> QED BY <1>3, <1>4, <1>5, <1>6

-----------------------------------------------------------------------------
LEMMA LaunchSteps ==
    ASSUME LiveInv, NEW g \in Captures,
           LaunchAdmit(g) \/ LaunchPublish(g) \/ \E ok \in BOOLEAN : LaunchBuild(g, ok)
    PROVE  LiveInv'
<1>1. launching[g] # "no" /\ g \in used
    BY DEF LaunchAdmit, LaunchPublish, LaunchBuild, LiveInv, LaunchIsAsked
<1>2. launching' \in [Captures -> {"no", "asked", "building", "built"}]
      /\ \A h \in Captures \ {g} : launching'[h] = launching[h]
    BY DEF LaunchAdmit, LaunchPublish, LaunchBuild, LiveInv, LiveTypeOK
<1>3. rec # NoLive /\ rec.state = "PAIRED" /\ ~rec.enrolled => rec.gen # g /\ rec.gen \in Captures
    BY <1>1 DEF LiveInv, LaunchIsAsked, Rightful, LiveCaptures
<1>4. CASE LaunchAdmit(g)
    BY <1>1, <1>2, <1>3, <1>4 DEF LaunchAdmit, LiveInv, LiveTypeOK, LaunchIsAsked, SourcesAreNamed,
        OneSourcePerCapture, NoOrphanChild, Current
<1>5. ASSUME NEW ok \in BOOLEAN, LaunchBuild(g, ok) PROVE LiveInv'
    <2>1. CASE ok
        <3>1. launching'[g] = "built" /\ procs' = procs \cup {g} BY <1>5, <2>1 DEF LaunchBuild, LiveInv, LiveTypeOK
        <3> QED BY <1>1, <1>2, <1>3, <1>5, <2>1, <3>1 DEF LaunchBuild, LiveInv, LiveTypeOK, LaunchIsAsked,
                SourcesAreNamed, OneSourcePerCapture, NoOrphanChild, Current
    <2>2. CASE ~ok /\ FailLocked("FAILED")
        BY <1>1, <1>2, <1>5, <2>2, FailLive DEF LaunchBuild
    <2>3. CASE ~ok /\ UNCHANGED <<rec, pending>>
        BY <1>1, <1>2, <1>3, <1>5, <2>3 DEF LaunchBuild, LiveInv, LiveTypeOK, LaunchIsAsked, SourcesAreNamed,
            OneSourcePerCapture, NoOrphanChild, Current
    <2> QED BY <1>5, <2>1, <2>2, <2>3 DEF LaunchBuild
<1>6. CASE LaunchPublish(g)
    <2>1. CASE pending' = pending \cup {g} /\ UNCHANGED rec
        BY <1>1, <1>2, <1>3, <1>6, <2>1 DEF LaunchPublish, LiveInv, LiveTypeOK, LaunchIsAsked, SourcesAreNamed,
            OneSourcePerCapture, NoOrphanChild, Current
    <2>2. CASE /\ Current(g) /\ rec.state \notin {"FAILED", "REVOKED"}
               /\ rec' = [rec EXCEPT !.child = TRUE] /\ UNCHANGED pending
        <3>1. rec # NoLive /\ rec.gen = g /\ Rightful(rec) BY <2>2 DEF Current, LiveInv, LaunchIsAsked
        <3>2. rec' \in LiveCaptures BY <2>2, <3>1 DEF Rightful, LiveCaptures
        <3>3. rec'.gen = g /\ rec'.state = rec.state /\ rec'.ids = rec.ids /\ rec'.enrolled = rec.enrolled
              /\ rec'.consent = rec.consent /\ rec'.child = TRUE /\ rec'.packets = rec.packets
              /\ rec'.enroll = rec.enroll
            BY <2>2, <3>1 DEF Rightful, LiveCaptures
        <3>4. rec' # NoLive BY <3>2, ZoomAssumption
        <3>5. Rightful(rec)' BY <2>2, <3>1, <3>2, <3>3 DEF Rightful, Separately
        <3>6. LaunchIsAsked' BY <1>1, <1>2, <1>3, <1>6, <3>1, <3>3, <3>5 DEF LaunchPublish, LiveInv, LaunchIsAsked
        <3>7. NoOrphanChild'
            BY <1>2, <1>6, <2>2, <3>1, <3>3, <3>4 DEF LaunchPublish, LiveInv, LiveTypeOK, NoOrphanChild, Current
        <3> QED BY <1>2, <1>6, <2>2, <3>6, <3>7 DEF LaunchPublish, LiveInv, LiveTypeOK, SourcesAreNamed,
                OneSourcePerCapture
    <2> QED BY <1>6, <2>1, <2>2 DEF LaunchPublish
<1> QED BY <1>4, <1>5, <1>6

-----------------------------------------------------------------------------
(* Events of the child.                                                     *)

LEMMA EnrollmentEvent ==
    ASSUME LiveInv, rec # NoLive, rec.state = "ENROLLING", rec.enroll # NoLive, NEW ev \in Events,
           EnrollmentFits(rec, ev), ev.kind \notin {"failed", "offer"}
    PROVE  Follows(EnrollmentStep(rec, ev)) /\ EnrollmentStep(rec, ev).state = "ENROLLING"
<1> DEFINE e == rec.enroll
<1>1. Rightful(rec) /\ e \in Enrollments /\ Separately(e) /\ ev.who \in People
    BY DEF LiveInv, LaunchIsAsked, Rightful, LiveCaptures, Events
<1>2. PICK f : /\ f \in Enrollments /\ Separately(f)
              /\ EnrollmentStep(rec, ev) = [rec EXCEPT !.enroll = f]
    <2>1. CASE ev.kind = "enrollment_ready"
        <3> DEFINE f == [e EXCEPT !.ready = TRUE]
        <3>1. f \in Enrollments /\ Separately(f) BY <1>1 DEF Enrollments, Separately
        <3>2. EnrollmentStep(rec, ev) = [rec EXCEPT !.enroll = f]
            BY <1>1, <2>1 DEF EnrollmentStep, Rightful, LiveCaptures
        <3> QED BY <3>1, <3>2
    <2>2. CASE ev.kind = "participant"
        <3> DEFINE f == [e EXCEPT !.observed = @ \cup {ev.who}]
        <3>1. f \in Enrollments /\ Separately(f) BY <1>1 DEF Enrollments, Separately
        <3>2. EnrollmentStep(rec, ev) = [rec EXCEPT !.enroll = f]
            BY <1>1, <2>2 DEF EnrollmentStep, Rightful, LiveCaptures
        <3> QED BY <3>1, <3>2
    <2>3. CASE ev.kind = "enrollment_armed"
        <3> DEFINE f == [e EXCEPT !.armed = TRUE]
        <3>1. f \in Enrollments /\ Separately(f) BY <1>1 DEF Enrollments, Separately
        <3>2. EnrollmentStep(rec, ev) = [rec EXCEPT !.enroll = f]
            BY <1>1, <2>3 DEF EnrollmentStep, Rightful, LiveCaptures
        <3> QED BY <3>1, <3>2
    <2>4. CASE ev.kind = "enrollment_candidate"
        <3> DEFINE f == [e EXCEPT !.observed = @ \cup {ev.who}, !.candidate = ev.who]
        <3>1. \A i \in DOMAIN e.confirmed : e.confirmed[i] # ev.who
            BY <2>4 DEF EnrollmentFits, ToSet
        <3>2. f \in Enrollments /\ Separately(f) BY <1>1, <3>1 DEF Enrollments, Separately
        <3>3. EnrollmentStep(rec, ev) = [rec EXCEPT !.enroll = f]
            BY <1>1, <2>4 DEF EnrollmentStep, Rightful, LiveCaptures
        <3> QED BY <3>2, <3>3
    <2>5. CASE ev.kind = "enrollment_confirmed"
        <3> DEFINE c == Append(e.confirmed, ev.who)
                   f == [e EXCEPT !.confirmed = c,
                         !.nonce = FALSE, !.armed = FALSE, !.confirming = FALSE, !.candidate = NoLive]
        <3>1. e.confirmed \in Seq(People) /\ ev.who = e.candidate
            BY <1>1, <2>5 DEF EnrollmentFits, Enrollments
        <3>2. c \in Seq(People) /\ DOMAIN c = 1 .. Len(e.confirmed) + 1
              /\ DOMAIN e.confirmed = 1 .. Len(e.confirmed) /\ Len(e.confirmed) \in Nat
              /\ c[Len(e.confirmed) + 1] = e.candidate
              /\ \A i \in DOMAIN e.confirmed : c[i] = e.confirmed[i]
            BY <1>1, <3>1
        <3>3. \A i \in DOMAIN c : c[i] \in People /\ c[i] # NoLive
            BY <3>2, ZoomAssumption
        <3> HIDE DEF c
        <3>4. ASSUME NEW i \in DOMAIN c, NEW j \in DOMAIN c, c[i] = c[j] PROVE i = j
            <4>1. CASE i \in DOMAIN e.confirmed /\ j \in DOMAIN e.confirmed
                BY <1>1, <3>2, <3>4, <4>1 DEF Separately
            <4>2. CASE i \notin DOMAIN e.confirmed
                BY <1>1, <3>2, <3>4, <4>2 DEF Separately
            <4>3. CASE j \notin DOMAIN e.confirmed
                BY <1>1, <3>2, <3>4, <4>3 DEF Separately
            <4> QED BY <4>1, <4>2, <4>3
        <3>5. f \in Enrollments BY <1>1, <3>2 DEF Enrollments
        <3>6. f.confirmed = c /\ f.candidate = NoLive BY <1>1 DEF Enrollments
        <3>7. EnrollmentStep(rec, ev) = [rec EXCEPT !.enroll = f] BY <2>5 DEF EnrollmentStep, c
        <3> HIDE DEF f
        <3>8. Separately(f) BY <3>3, <3>4, <3>6 DEF Separately
        <3> QED BY <3>5, <3>7, <3>8
    <2> QED BY <2>1, <2>2, <2>3, <2>4, <2>5 DEF EnrollmentFits
<1>3. [rec EXCEPT !.enroll = f].state = "ENROLLING" BY <1>1 DEF Rightful, LiveCaptures
<1> QED BY <1>2, <1>3, EnrolledFollows

LEMMA CaptureEvent ==
    ASSUME LiveInv, rec # NoLive, rec.enroll = NoLive, NEW ev \in Events, CaptureFits(rec, ev), ev.kind \notin {"failed", "offer"}
    PROVE  Follows(CaptureStep(rec, ev))
<1>1. Rightful(rec) /\ ev.packet \in Packets BY DEF LiveInv, LaunchIsAsked, Events
<1> DEFINE r == CaptureStep(rec, ev)
<1>2. CASE ev.kind = "participant"
    <2>1. r = rec BY <1>2 DEF CaptureStep
    <2> QED BY <1>1, <2>1 DEF Follows
<1>3. CASE ev.kind \in {"listening", "INTERRUPTED", "RECONNECTING", "stop_ack"}
    <2>1. PICK x \in {"LISTENING", "INTERRUPTED", "RECONNECTING", "DRAINING"} : r = [rec EXCEPT !.state = x]
        BY <1>3 DEF CaptureStep
    <2>2. rec.state \in Started BY <1>3 DEF CaptureFits, Started
    <2>3. r \in LiveCaptures BY <1>1, <2>1 DEF Rightful, LiveCaptures, States
    <2>4. r.gen = rec.gen /\ r.state = x /\ r.ids = rec.ids /\ r.enrolled = rec.enrolled
          /\ r.consent = rec.consent /\ r.packets = rec.packets /\ r.enroll = rec.enroll
        BY <1>1, <2>1 DEF Rightful, LiveCaptures
    <2> HIDE DEF r
    <2>5. Follows(r) BY <1>1, <2>2, <2>3, <2>4 DEF Follows, Rightful
    <2> QED BY <2>5 DEF r
<1>4. CASE ev.kind = "transcript"
    <2>1. r = [rec EXCEPT !.packets = @ \cup {ev.packet}] BY <1>4 DEF CaptureStep
    <2>2. rec.state \in Started /\ rec.state # "PAIRED" BY <1>4 DEF CaptureFits, Started
    <2>3. r \in LiveCaptures BY <1>1, <2>1 DEF Rightful, LiveCaptures
    <2>4. r.gen = rec.gen /\ r.state = rec.state /\ r.ids = rec.ids /\ r.enrolled = rec.enrolled
          /\ r.consent = rec.consent /\ r.child = rec.child /\ r.enroll = rec.enroll
        BY <1>1, <2>1 DEF Rightful, LiveCaptures
    <2> HIDE DEF r
    <2>5. Follows(r) BY <1>1, <2>2, <2>3, <2>4 DEF Follows, Rightful
    <2> QED BY <2>5 DEF r
<1>5. CASE ev.kind = "drained"
    <2>1. r = [rec EXCEPT !.state = "CAPTURE_READY", !.stopping = FALSE, !.ids = {}, !.child = FALSE]
        BY <1>5 DEF CaptureStep
    <2>2. rec.state \in Started BY <1>5 DEF CaptureFits, Started
    <2>3. r \in LiveCaptures BY <1>1, <2>1 DEF Rightful, LiveCaptures, States
    <2>4. r.gen = rec.gen /\ r.state = "CAPTURE_READY" /\ r.ids = {}
          /\ r.consent = rec.consent /\ r.child = FALSE /\ r.enroll = rec.enroll
        BY <1>1, <2>1 DEF Rightful, LiveCaptures
    <2> HIDE DEF r
    <2>5. Follows(r) BY <1>1, <2>2, <2>3, <2>4 DEF Follows, Rightful
    <2> QED BY <2>5 DEF r
<1> QED BY <1>2, <1>3, <1>4, <1>5 DEF CaptureFits

LEMMA ReceiveStep ==
    ASSUME LiveInv, NEW g \in Captures, NEW ev \in Events, NEW ok \in BOOLEAN, Receive(g, ev, ok)
    PROVE  LiveInv'
<1>1. CASE Fits(rec, ev) /\ Install(EventStep(rec, ev, ok))
    <2>1. rec # NoLive /\ Rightful(rec) /\ rec.state \notin Final
        BY DEF Receive, Current, LiveInv, LaunchIsAsked
    <2>2. CASE ev.kind = "failed"
        <3>1. EventStep(rec, ev, ok) = FailRecord(rec, "FAILED") BY <2>2 DEF EventStep
        <3>2. Follows(FailRecord(rec, "FAILED")) /\ FailRecord(rec, "FAILED").state # "PAIRED"
            BY <2>1, FailureFollows, FailedIsRightful
        <3> QED BY <1>1, <3>1, <3>2, InstallLive DEF Receive, LiveInv, LiveTypeOK
    <2>3. CASE ev.kind = "offer"
        <3> DEFINE r == [rec EXCEPT !.bound = TRUE]
        <3>1. rec.state \in {"WAITING", "ENROLLING"}
            BY <1>1, <2>3 DEF Fits, OfferFits, EnrollmentFits, CaptureFits
        <3>2. r \in LiveCaptures BY <2>1 DEF Rightful, LiveCaptures
        <3>3. r.gen = rec.gen /\ r.state = rec.state /\ r.ids = rec.ids /\ r.enrolled = rec.enrolled
              /\ r.consent = rec.consent /\ r.child = rec.child /\ r.packets = rec.packets
              /\ r.enroll = rec.enroll
            BY <2>1 DEF Rightful, LiveCaptures
        <3> HIDE DEF r
        <3>4. Follows(r) BY <2>1, <3>2, <3>3 DEF Follows, Rightful
        <3>5. Follows(Sent(r, ok)) /\ Sent(r, ok).state # "PAIRED"
            BY <3>1, <3>3, <3>4, SentFollows, FailedIsRightful DEF Sent, Follows
        <3>6. EventStep(rec, ev, ok) = Sent(r, ok) BY <2>3 DEF EventStep, r
        <3> QED BY <1>1, <3>5, <3>6, InstallLive DEF Receive, LiveInv, LiveTypeOK
    <2>4. CASE ev.kind \notin {"failed", "offer"} /\ rec.enroll # NoLive
        <3>1. EnrollmentFits(rec, ev) BY <1>1, <2>4 DEF Fits
        <3>2. EventStep(rec, ev, ok) = EnrollmentStep(rec, ev) BY <2>4 DEF EventStep
        <3>3. rec.state = "ENROLLING" BY <2>1, <2>4 DEF Rightful
        <3> QED BY <1>1, <2>1, <2>4, <3>1, <3>2, <3>3, EnrollmentEvent, InstallLive
                DEF Receive, LiveInv, LiveTypeOK
    <2>5. CASE ev.kind \notin {"failed", "offer"} /\ rec.enroll = NoLive
        <3>1. CaptureFits(rec, ev) BY <1>1, <2>5 DEF Fits
        <3>2. EventStep(rec, ev, ok) = CaptureStep(rec, ev) BY <2>5 DEF EventStep
        <3>3. Follows(CaptureStep(rec, ev)) BY <2>1, <2>5, <3>1, CaptureEvent
        <3> QED BY <1>1, <3>2, <3>3, InstallLive DEF Receive, LiveInv, LiveTypeOK
    <2> QED BY <2>2, <2>3, <2>4, <2>5
<1>2. CASE UNCHANGED <<rec, pending>>
    BY <1>2 DEF Receive, LiveInv, LiveTypeOK, LaunchIsAsked, SourcesAreNamed, OneSourcePerCapture,
        NoOrphanChild, Current
<1> QED BY <1>1, <1>2 DEF Receive

LEMMA ChildEndSteps ==
    ASSUME LiveInv, NEW g \in Captures, FailInvalid(g) \/ ChildExits(g) PROVE LiveInv'
<1>1. CASE FailLocked("FAILED")
    BY <1>1, FailLive DEF FailInvalid, ChildExits, LiveInv, LiveTypeOK
<1>2. CASE UNCHANGED <<rec, pending>>
    BY <1>2 DEF FailInvalid, ChildExits, LiveInv, LiveTypeOK, LaunchIsAsked, SourcesAreNamed,
        OneSourcePerCapture, NoOrphanChild, Current
<1> QED BY <1>1, <1>2 DEF FailInvalid, ChildExits

-----------------------------------------------------------------------------
(* Actions of the browser, deadlines and cleanup.                           *)

LEMMA RecordedFollows ==
    ASSUME LiveInv, NEW r, Follows(r), NEW key \in Keys
    PROVE  Follows(Recorded(r, key)) /\ Recorded(r, key).state = r.state
           /\ Recorded(r, key).enrolled = r.enrolled
<1> DEFINE q == Recorded(r, key)
<1>1. q = [r EXCEPT !.ops = @ \cup {key}] /\ Rightful(r) BY DEF Recorded, Follows
<1>2. q \in LiveCaptures BY <1>1 DEF Rightful, LiveCaptures
<1>3. q.gen = r.gen /\ q.state = r.state /\ q.ids = r.ids /\ q.enrolled = r.enrolled
      /\ q.consent = r.consent /\ q.child = r.child /\ q.packets = r.packets /\ q.enroll = r.enroll
    BY <1>1 DEF Rightful, LiveCaptures
<1> HIDE DEF q
<1>4. Follows(q) /\ q.state = r.state /\ q.enrolled = r.enrolled BY <1>1, <1>2, <1>3 DEF Follows, Rightful
<1> QED BY <1>4 DEF q

LEMMA StartLiveStep ==
    ASSUME LiveInv, NEW key \in Keys, NEW ok \in BOOLEAN, StartLive(key, ok) PROVE LiveInv'
<1> DEFINE r == [rec EXCEPT !.consent = TRUE, !.state = "WAITING"]
<1>1. rec # NoLive /\ Rightful(rec) /\ rec.state = "PAIRED" /\ rec.gen \in Captures
    BY DEF StartLive, Acting, LiveInv, LaunchIsAsked, Rightful, LiveCaptures
<1>2. r \in LiveCaptures BY <1>1 DEF Rightful, LiveCaptures, States
<1>3. r.gen = rec.gen /\ r.state = "WAITING" /\ r.ids = rec.ids /\ r.enrolled = rec.enrolled
      /\ r.consent = TRUE /\ r.child = rec.child /\ r.packets = rec.packets /\ r.enroll = rec.enroll
    BY <1>1 DEF Rightful, LiveCaptures
<1>4. CASE ~rec.enrolled /\ Install(Recorded(r, key)) /\ launching' = [launching EXCEPT ![rec.gen] = "asked"]
    <2> HIDE DEF r
    <2>1. Follows(r) BY <1>1, <1>2, <1>3 DEF Follows, Rightful
    <2>2. Follows(Recorded(r, key)) /\ Recorded(r, key).state = "WAITING" BY <1>3, <2>1, RecordedFollows
    <2>3. launching[rec.gen] = "no" BY <1>1, <1>4 DEF LiveInv, LaunchIsAsked
    <2>4. rec.gen \in used BY <1>1 DEF LiveInv, LaunchIsAsked
    <2> QED BY <1>1, <1>4, <2>2, <2>3, <2>4, InstallLive DEF StartLive, LiveInv, LiveTypeOK
<1>5. CASE rec.enrolled /\ UNCHANGED launching
           /\ Install(IF ~rec.child \/ ~rec.bound THEN r ELSE Recorded(Sent(r, ok), key))
    <2> HIDE DEF r
    <2>1. Follows(r) BY <1>1, <1>2, <1>3 DEF Follows, Rightful
    <2>2. Follows(Sent(r, ok)) /\ Sent(r, ok).state # "PAIRED"
        BY <1>3, <2>1, SentFollows, FailedIsRightful DEF Sent, Follows
    <2>3. Follows(Recorded(Sent(r, ok), key)) /\ Recorded(Sent(r, ok), key).state # "PAIRED"
        BY <2>2, RecordedFollows
    <2> DEFINE q == IF ~rec.child \/ ~rec.bound THEN r ELSE Recorded(Sent(r, ok), key)
    <2>4. Follows(q) /\ Install(q) /\ q.state # "PAIRED" BY <1>3, <1>5, <2>1, <2>3
    <2> HIDE DEF q
    <2> QED BY <1>5, <2>4, InstallLive DEF StartLive, LiveInv, LiveTypeOK
<1> QED BY <1>4, <1>5 DEF StartLive

LEMMA StopResetSteps ==
    ASSUME LiveInv, NEW key \in Keys, Reset(key) \/ \E ok \in BOOLEAN : Stop(key, ok) PROVE LiveInv'
<1>1. rec # NoLive /\ Rightful(rec) BY DEF Stop, Reset, Acting, LiveInv, LaunchIsAsked
<1>2. ASSUME NEW ok \in BOOLEAN, Stop(key, ok) PROVE LiveInv'
    <2> DEFINE r == [rec EXCEPT !.state = "STOP_REQUESTED", !.stopping = TRUE]
    <2>1. r \in LiveCaptures BY <1>1 DEF Rightful, LiveCaptures, States
    <2>2. r.gen = rec.gen /\ r.state = "STOP_REQUESTED" /\ r.ids = rec.ids /\ r.enrolled = rec.enrolled
          /\ r.consent = rec.consent /\ r.child = rec.child /\ r.packets = rec.packets
          /\ r.enroll = rec.enroll
        BY <1>1 DEF Rightful, LiveCaptures
    <2>3. rec.state \in Started /\ rec.state # "ENROLLING" BY <1>2 DEF Stop, Started
    <2> HIDE DEF r
    <2>4. Follows(r) BY <1>1, <2>1, <2>2, <2>3 DEF Follows, Rightful
    <2>5. Follows(Sent(r, ok)) /\ Sent(r, ok).state # "PAIRED"
        BY <2>2, <2>4, SentFollows, FailedIsRightful DEF Sent, Follows
    <2>6. Follows(Recorded(Sent(r, ok), key)) /\ Recorded(Sent(r, ok), key).state # "PAIRED"
        BY <2>5, RecordedFollows
    <2>7. Install(Recorded(Sent(r, ok), key)) BY <1>2 DEF Stop, r
    <2> QED BY <1>2, <2>6, <2>7, InstallLive DEF Stop, LiveInv, LiveTypeOK
<1>3. CASE Reset(key)
    <2> DEFINE f == FailRecord(rec, "REVOKED")
    <2>1. Follows(f) /\ f.state = "REVOKED" BY <1>1, FailureFollows, FailedIsRightful
    <2> HIDE DEF f
    <2>2. Follows(Recorded(f, key)) /\ Recorded(f, key).state = "REVOKED" BY <2>1, RecordedFollows
    <2>3. Install(Recorded(f, key)) BY <1>3 DEF Reset, f
    <2> QED BY <1>3, <2>2, <2>3, InstallLive DEF Reset, LiveInv, LiveTypeOK
<1> QED BY <1>2, <1>3

\* The intake keeps one source under the name of a capture.
LEMMA ProcessStep ==
    ASSUME LiveInv, NEW key \in Keys, NEW read \in BOOLEAN, Process(key, read) PROVE LiveInv'
<1> DEFINE s == [name |-> rec.gen, gen |-> rec.gen, packets |-> rec.packets]
<1>1. rec # NoLive /\ Rightful(rec) /\ rec.state = "CAPTURE_READY"
    BY DEF Process, Acting, LiveInv, LaunchIsAsked
<1>2. liveSources' = liveSources \cup {s} BY DEF Process, SourceName
<1>3. SourcesAreNamed' BY <1>2 DEF LiveInv, SourcesAreNamed
<1>4. \A q \in liveSources : q.gen = rec.gen => q = s
    BY DEF Process, SourceName, LiveInv, SourcesAreNamed
<1>5. OneSourcePerCapture' BY <1>2, <1>4 DEF LiveInv, OneSourcePerCapture
<1>6. CASE UNCHANGED <<rec, pending>>
    BY <1>3, <1>5, <1>6 DEF Process, LiveInv, LiveTypeOK, LaunchIsAsked, NoOrphanChild, Current
<1>7. CASE Install(Recorded([rec EXCEPT !.source = s, !.packets = {}, !.state = "DRAFT_READY"], key))
    <2> DEFINE r == [rec EXCEPT !.source = s, !.packets = {}, !.state = "DRAFT_READY"]
    <2>1. s \in LiveSources BY <1>1 DEF Rightful, LiveCaptures, LiveSources
    <2>2. r \in LiveCaptures BY <1>1, <2>1 DEF Rightful, LiveCaptures, States
    <2>3. r.gen = rec.gen /\ r.state = "DRAFT_READY" /\ r.ids = rec.ids /\ r.enrolled = rec.enrolled
          /\ r.consent = rec.consent /\ r.child = rec.child /\ r.packets = {} /\ r.enroll = rec.enroll
        BY <1>1 DEF Rightful, LiveCaptures
    <2> HIDE DEF r
    <2>4. Follows(r) BY <1>1, <2>2, <2>3 DEF Follows, Rightful, Started
    <2> DEFINE q == Recorded(r, key)
    <2>5. Follows(q) /\ q.state = "DRAFT_READY" BY <2>3, <2>4, RecordedFollows
    <2>6. Install(q) BY <1>7 DEF r
    <2> HIDE DEF q
    <2>7. LiveTypeOK' /\ LaunchIsAsked' /\ NoOrphanChild'
        BY <2>5, <2>6, ReplacedLive DEF Process, LiveInv, LiveTypeOK
    <2> QED BY <1>3, <1>5, <2>7 DEF LiveInv
<1> QED BY <1>6, <1>7 DEF Process, SourceName

LEMMA OtherLiveSteps ==
    ASSUME LiveInv,
           \/ \E d \in {"enroll", "run", "stop"} : TimePasses(d)
           \/ LiveTick \/ DraftCloses \/ Revoke \/ Close
           \/ \E stuck \in SUBSET pending : DrainCleanup(stuck)
    PROVE  LiveInv'
<1>1. CASE LiveTick \/ Revoke \/ Close
    BY <1>1, FailLive DEF LiveTick, Revoke, Close, LiveInv, LiveTypeOK
<1>2. CASE DraftCloses
    BY <1>2 DEF DraftCloses, LiveInv, LiveTypeOK, LaunchIsAsked, SourcesAreNamed, OneSourcePerCapture,
        NoOrphanChild, Current
<1>3. ASSUME NEW stuck \in SUBSET pending, DrainCleanup(stuck) PROVE LiveInv'
    BY <1>3 DEF DrainCleanup, LiveInv, LiveTypeOK, LaunchIsAsked, SourcesAreNamed, OneSourcePerCapture,
        NoOrphanChild, Current
<1>4. ASSUME NEW d \in {"enroll", "run", "stop"}, TimePasses(d) PROVE LiveInv'
    <2> DEFINE r == [rec EXCEPT !.late = @ \cup {d}]
    <2>1. rec # NoLive /\ Rightful(rec) /\ rec' = r BY <1>4 DEF TimePasses, LiveInv, LaunchIsAsked
    <2>2. r \in LiveCaptures BY <2>1 DEF Rightful, LiveCaptures
    <2>3. r.gen = rec.gen /\ r.state = rec.state /\ r.ids = rec.ids /\ r.enrolled = rec.enrolled
          /\ r.consent = rec.consent /\ r.child = rec.child /\ r.packets = rec.packets
          /\ r.enroll = rec.enroll
        BY <2>1 DEF Rightful, LiveCaptures
    <2> HIDE DEF r
    <2>4. Follows(r) BY <2>1, <2>2, <2>3 DEF Follows, Rightful
    <2>5. Install(r) BY <1>4, <2>1, <2>3 DEF Install, TimePasses
    <2> QED BY <1>4, <2>4, <2>5, InstallLive DEF TimePasses, LiveInv, LiveTypeOK
<1> QED BY <1>1, <1>2, <1>3, <1>4

LEMMA LiveStarts == ASSUME ZoomInit PROVE LiveInv
BY DEF ZoomInit, LiveInv, LiveTypeOK, LaunchIsAsked, SourcesAreNamed, OneSourcePerCapture, NoOrphanChild

LEMMA LiveStep == ASSUME LiveInv, [ZoomNext]_zoomVars PROVE LiveInv'
<1>1. CASE UNCHANGED zoomVars
    BY <1>1 DEF zoomVars, LiveInv, LiveTypeOK, LaunchIsAsked, SourcesAreNamed, OneSourcePerCapture,
        NoOrphanChild, Current
<1>2. CASE \E g \in NextCapture :
               \/ \E ids \in {s \in SUBSET People : Cardinality(s) = 2} : Pair(g, ids)
               \/ BeginEnrollment(g)
    BY <1>2, PairStep, BeginEnrollmentStep DEF NextCapture
<1>3. CASE \E g \in Captures :
               \/ LaunchAdmit(g) \/ LaunchPublish(g) \/ \E ok \in BOOLEAN : LaunchBuild(g, ok)
    BY <1>3, LaunchSteps
<1>4. CASE \E g \in Captures : \/ \E ev \in Events, ok \in BOOLEAN : Receive(g, ev, ok)
                              \/ FailInvalid(g) \/ ChildExits(g)
    BY <1>4, ReceiveStep, ChildEndSteps
<1>5. CASE \/ \E ok \in BOOLEAN : ArmEnrollment(ok) \/ AdoptEnrollment(ok)
           \/ \E p \in People, ok \in BOOLEAN : ConfirmEnrollment(p, ok)
           \/ CancelEnrollment
    BY <1>5, EnrollmentSteps
<1>6. FreshKeys(1) \subseteq Keys /\ FreshKeys(2) \subseteq Keys BY DEF FreshKeys
<1>7. CASE \E key \in Keys :
               \/ \E ok \in BOOLEAN : StartLive(key, ok) \/ Stop(key, ok)
               \/ Reset(key)
               \/ \E read \in BOOLEAN : Process(key, read)
    BY <1>7, StartLiveStep, StopResetSteps, ProcessStep
<1>8. CASE \/ \E d \in {"enroll", "run", "stop"} : TimePasses(d)
           \/ LiveTick \/ DraftCloses \/ Revoke \/ Close
           \/ \E stuck \in SUBSET pending : DrainCleanup(stuck)
    BY <1>8, OtherLiveSteps
<1> QED BY <1>1, <1>2, <1>3, <1>4, <1>5, <1>6, <1>7, <1>8 DEF ZoomNext

\* No child outlives its capture, a capture has at most one source and two
\* people who consented, and its draft is the transcript that was decoded, for
\* any number of captures, people, packets, keys and calls.
THEOREM CaptureStaysConsented == ZoomSpec /\ SessionSpec => []CaptureIsConsented
<1>1. LiveInv => NoOrphanChild /\ OneSourcePerCapture /\ TwoPeopleConsented
    BY DEF LiveInv, LaunchIsAsked, Rightful, TwoPeopleConsented
<1>2. DraftInv => DraftIsTheTranscript BY DEF DraftInv, ShowsTheDraft, DraftIsTheTranscript
<1>3. LiveInv /\ DraftInv => CaptureIsConsented BY <1>1, <1>2 DEF CaptureIsConsented
<1> QED BY <1>3, LiveStarts, LiveStep, DraftStarts, DraftStep, PTL DEF ZoomSpec, SessionSpec

-----------------------------------------------------------------------------
(* The durable inbox.                                                       *)

Bindings == [session : Sessions, consented : Times, started : Times, limit : Nat]
MeetingEvents ==
    [at : Times, id : Nat, n : Nat, kind : {"STARTED", "TRANSCRIPT", "STOPPED", "JOINED"}, body : Nat]
Rows == [binding : Bindings, event : MeetingEvents, at : Times]
InboxReceipts == [binding : Bindings, input : Bindings \X MeetingEvents,
                  disposition : {"ACCEPTED", "EXACT_DUPLICATE"}]

InboxTypeOK ==
    /\ \A i \in DOMAIN streams : streams[i].binding \in Bindings
    /\ events \subseteq Rows /\ IsFiniteSet(events)
    /\ IsFiniteSet(DOMAIN receipts)
    /\ \A k \in DOMAIN receipts : receipts[k] \in InboxReceipts

\* Id and number name a row of a stream.
RowsAreUnique == \A r1, r2 \in events :
    /\ r1.binding = r2.binding
    /\ r1.event.id = r2.event.id \/ r1.event.n = r2.event.n
    => r1 = r2

\* A receipt is for the row r.
IsFor(k, r) == receipts[k].binding = r.binding /\ receipts[k].input = Input(r.binding, r.event)

ReceiptsHaveRows == \A k \in DOMAIN receipts : \E r \in events : IsFor(k, r)

Accepting(r) == {k \in DOMAIN receipts : IsFor(k, r) /\ receipts[k].disposition = "ACCEPTED"}
AcceptedOnce == \A r \in events : \E k : Accepting(r) = {k}

Duplicates(b) == {k \in ReceiptsOf(b) : receipts[k].disposition = "EXACT_DUPLICATE"}

\* Every delivery is an accepted event or a duplicate, and the limits hold.
WithinLimits == \A b \in Bindings :
    /\ Cardinality(RowsOf(b)) + Cardinality(Duplicates(b)) = Cardinality(ReceiptsOf(b))
    /\ Cardinality(ReceiptsOf(b)) <= b.limit
    /\ Characters(b) <= MaxCharacters

InboxInv ==
    /\ InboxTypeOK
    /\ RowsAreUnique /\ ReceiptsHaveRows /\ AcceptedOnce
    /\ WithinLimits
    /\ Cardinality(DOMAIN receipts) <= MaxIngress

\* The inbox is finite, so its limits are of numbers.
LEMMA InboxIsFinite ==
    ASSUME InboxInv, NEW b \in Bindings
    PROVE  /\ IsFiniteSet(RowsOf(b)) /\ IsFiniteSet(ReceiptsOf(b)) /\ IsFiniteSet(Duplicates(b))
           /\ Cardinality(RowsOf(b)) \in Nat /\ Cardinality(Duplicates(b)) \in Nat
           /\ Cardinality(ReceiptsOf(b)) \in Nat /\ Cardinality(DOMAIN receipts) \in Nat
<1>1. /\ RowsOf(b) \in SUBSET events
      /\ ReceiptsOf(b) \in SUBSET (DOMAIN receipts)
      /\ Duplicates(b) \in SUBSET (DOMAIN receipts)
    BY DEF RowsOf, ReceiptsOf, Duplicates
<1>2. IsFiniteSet(RowsOf(b)) /\ IsFiniteSet(ReceiptsOf(b)) /\ IsFiniteSet(Duplicates(b))
    BY <1>1, FS_Subset DEF InboxInv, InboxTypeOK
<1> QED BY <1>2, FS_CardinalityType DEF InboxInv, InboxTypeOK

\* How much text a stream has grown by.
LEMMA TextOfRows ==
    ASSUME NEW R, IsFiniteSet(R), R \subseteq Rows
    PROVE  SumFunctionOnSet([r \in R |-> r.event.body], R) \in Nat
<1>1. \A r \in R : [q \in R |-> q.event.body][r] \in Nat BY DEF Rows, MeetingEvents
<1> HIDE DEF Rows
<1> QED BY <1>1, SumIsNat

\* A new row adds the text of its event.
LEMMA LongerBy ==
    ASSUME NEW R, IsFiniteSet(R), R \subseteq Rows, NEW x \in Rows, x \notin R
    PROVE  SumFunctionOnSet([r \in R \cup {x} |-> r.event.body], R \cup {x})
           = x.event.body + SumFunctionOnSet([r \in R |-> r.event.body], R)
<1> DEFINE f == [r \in R \cup {x} |-> r.event.body]
           g == [r \in R |-> r.event.body]
<1>1. \A r \in R \cup {x} : f[r] \in Nat BY DEF Rows, MeetingEvents
<1>2. IsFiniteSet(R \cup {x}) /\ (R \cup {x}) \ {x} = R BY FS_AddElement
<1>3. f[x] = x.event.body /\ \A r \in R : f[r] = g[r] OBVIOUS
<1> HIDE DEF f, g
<1>4. SumFunctionOnSet(f, R \cup {x}) = f[x] + SumFunctionOnSet(f, (R \cup {x}) \ {x})
    BY <1>1, <1>2, SumWithout
<1>5. SumFunctionOnSet(f, R) = SumFunctionOnSet(g, R) BY <1>3, SumOfSame
<1>6. SumFunctionOnSet(f, R \cup {x}) = x.event.body + SumFunctionOnSet(g, R)
    BY <1>2, <1>3, <1>4, <1>5
<1> QED BY <1>6 DEF f, g

\* An empty inbox.
LEMMA InboxStarts == ASSUME InboxInit PROVE InboxInv
<1>1. events = {} /\ DOMAIN receipts = {} /\ DOMAIN streams = {} BY DEF InboxInit, EmptyDict
<1>2. IsFiniteSet({}) /\ Cardinality({}) = 0 BY FS_EmptySet
<1>3. InboxTypeOK /\ RowsAreUnique /\ ReceiptsHaveRows /\ AcceptedOnce
    BY <1>1, <1>2 DEF InboxTypeOK, RowsAreUnique, ReceiptsHaveRows, AcceptedOnce
<1>4. ASSUME NEW b \in Bindings
      PROVE  RowsOf(b) = {} /\ ReceiptsOf(b) = {} /\ Duplicates(b) = {} /\ Characters(b) = 0 /\ b.limit \in Nat
    <2>1. RowsOf(b) = {} /\ ReceiptsOf(b) = {} BY <1>1 DEF RowsOf, ReceiptsOf
    <2>2. Characters(b) = 0 BY <2>1, SumOfNone DEF Characters
    <2> QED BY <2>1, <2>2 DEF Duplicates, Bindings
<1>5. WithinLimits BY <1>2, <1>4, InboxAssumption DEF WithinLimits
<1> QED BY <1>1, <1>2, <1>3, <1>5, InboxAssumption DEF InboxInv

-----------------------------------------------------------------------------
(* An append.                                                               *)

\* What an append finds when it goes through.
LEMMA AppendIsAllowed ==
    ASSUME NEW k, NEW b, NEW e, NEW at, NEW outcome, AppendEvent(k, b, e, at, outcome),
           outcome \in {"ACCEPTED", "EXACT_DUPLICATE"}
    PROVE  /\ Stored(b) = b /\ b \notin DOMAIN taints /\ k \notin DOMAIN receipts
           /\ ~Contradicts(b, e) /\ ~Full(b) /\ ~TooLong(b, e)
           /\ outcome = "ACCEPTED" <=> SameId(b, e) = {}
BY DEF AppendEvent, Outcome

\* A stream is entered under its own binding.
LEMMA StreamsGrow ==
    ASSUME InboxInv, NEW b \in Bindings, NEW at
    PROVE  \A i \in DOMAIN StreamsWith(b, at) : StreamsWith(b, at)[i].binding \in Bindings
<1>1. CASE Identity(b) \in DOMAIN streams BY <1>1 DEF StreamsWith, InboxInv, InboxTypeOK
<1>2. CASE Identity(b) \notin DOMAIN streams
    <2>1. StreamsWith(b, at) = Put(streams, Identity(b), [binding |-> b, created |-> at])
        BY <1>2 DEF StreamsWith
    <2> QED BY <2>1 DEF Put, InboxInv, InboxTypeOK
<1> QED BY <1>1, <1>2

\* The receipt of an append, and the ones that were there.
LEMMA NewReceipt ==
    ASSUME InboxInv, NEW k, k \notin DOMAIN receipts, NEW b \in Bindings, NEW e \in MeetingEvents,
           NEW how \in {"ACCEPTED", "EXACT_DUPLICATE"},
           receipts' = Put(receipts, k, Receipt(b, e, how)), ~Full(b)
    PROVE  /\ DOMAIN receipts' = DOMAIN receipts \cup {k}
           /\ \A q \in DOMAIN receipts : receipts'[q] = receipts[q]
           /\ receipts'[k] = [binding |-> b, input |-> Input(b, e), disposition |-> how]
           /\ receipts'[k] \in InboxReceipts
           /\ IsFiniteSet(DOMAIN receipts') /\ Cardinality(DOMAIN receipts') <= MaxIngress
           /\ \A d \in Bindings :
                Cardinality(ReceiptsOf(d)') = Cardinality(ReceiptsOf(d)) + (IF d = b THEN 1 ELSE 0)
           /\ \A d \in Bindings :
                Cardinality(Duplicates(d)') = Cardinality(Duplicates(d))
                                       + (IF d = b /\ how = "EXACT_DUPLICATE" THEN 1 ELSE 0)
           /\ Cardinality(ReceiptsOf(b)') <= b.limit
<1>1. /\ DOMAIN receipts' = DOMAIN receipts \cup {k}
      /\ \A q \in DOMAIN receipts : receipts'[q] = receipts[q]
      /\ receipts'[k] = [binding |-> b, input |-> Input(b, e), disposition |-> how]
    BY DEF Receipt, Put
<1>2. receipts'[k] \in InboxReceipts BY <1>1 DEF InboxReceipts, Input
<1>3. Cardinality(DOMAIN receipts) < MaxIngress /\ Cardinality(ReceiptsOf(b)) < b.limit
      /\ b.limit \in Nat /\ MaxIngress \in Nat
    BY InboxIsFinite, InboxAssumption DEF Full, Bindings
<1>4. IsFiniteSet(DOMAIN receipts') /\ Cardinality(DOMAIN receipts') <= MaxIngress
    <2>1. IsFiniteSet(DOMAIN receipts) /\ Cardinality(DOMAIN receipts) \in Nat
        BY InboxIsFinite DEF InboxInv, InboxTypeOK
    <2>2. IsFiniteSet(DOMAIN receipts \cup {k})
          /\ Cardinality(DOMAIN receipts \cup {k}) = Cardinality(DOMAIN receipts) + 1
        BY <2>1, FS_AddElement
    <2> QED BY <1>1, <1>3, <2>1, <2>2
<1>5. ASSUME NEW d \in Bindings
      PROVE  Cardinality(ReceiptsOf(d)') = Cardinality(ReceiptsOf(d)) + (IF d = b THEN 1 ELSE 0)
    <2>1. ReceiptsOf(d)' = IF d = b THEN ReceiptsOf(d) \cup {k} ELSE ReceiptsOf(d)
        BY <1>1 DEF ReceiptsOf
    <2>2. k \notin ReceiptsOf(d) BY DEF ReceiptsOf
    <2>3. IsFiniteSet(ReceiptsOf(d)) /\ Cardinality(ReceiptsOf(d)) \in Nat BY InboxIsFinite
    <2>4. Cardinality(ReceiptsOf(d) \cup {k}) = Cardinality(ReceiptsOf(d)) + 1
        BY <2>2, <2>3, FS_AddElement
    <2> QED BY <2>1, <2>3, <2>4
<1>6. ASSUME NEW d \in Bindings
      PROVE  Cardinality(Duplicates(d)') = Cardinality(Duplicates(d))
                                       + (IF d = b /\ how = "EXACT_DUPLICATE" THEN 1 ELSE 0)
    <2>1. Duplicates(d)' = IF d = b /\ how = "EXACT_DUPLICATE" THEN Duplicates(d) \cup {k} ELSE Duplicates(d)
        BY <1>1 DEF ReceiptsOf, Duplicates
    <2>2. k \notin Duplicates(d) BY DEF Duplicates, ReceiptsOf
    <2>3. IsFiniteSet(Duplicates(d)) /\ Cardinality(Duplicates(d)) \in Nat BY InboxIsFinite
    <2>4. Cardinality(Duplicates(d) \cup {k}) = Cardinality(Duplicates(d)) + 1
        BY <2>2, <2>3, FS_AddElement
    <2> QED BY <2>1, <2>3, <2>4
<1>7. Cardinality(ReceiptsOf(b)') <= b.limit BY <1>3, <1>5, InboxIsFinite
<1> QED BY <1>1, <1>2, <1>4, <1>5, <1>6, <1>7

\* An event that is accepted.
LEMMA AcceptKeeps ==
    ASSUME InboxInv, NEW k, NEW b \in Bindings, NEW e \in MeetingEvents, NEW at \in Times,
           AppendEvent(k, b, e, at, "ACCEPTED")
    PROVE  InboxInv'
<1> DEFINE x == Row(b, e, at)
<1>1. /\ k \notin DOMAIN receipts /\ SameId(b, e) = {} /\ ~Contradicts(b, e)
      /\ ~Full(b) /\ ~TooLong(b, e)
    BY AppendIsAllowed
<1>2. events' = events \cup {x} /\ receipts' = Put(receipts, k, Receipt(b, e, "ACCEPTED"))
      /\ streams' = StreamsWith(b, at)
    BY DEF AppendEvent
<1>3. x \in Rows /\ x.binding = b /\ x.event = e BY DEF Row, Rows
<1>4. \A r \in events : r.binding = b => r.event.id # e.id /\ r.event.n # e.n /\ r.event # e
    BY <1>1 DEF SameId, RowsOf, Contradicts
<1>5. x \notin events BY <1>3, <1>4
<1>6. /\ DOMAIN receipts' = DOMAIN receipts \cup {k}
      /\ \A q \in DOMAIN receipts : receipts'[q] = receipts[q]
      /\ receipts'[k] = [binding |-> b, input |-> Input(b, e), disposition |-> "ACCEPTED"]
      /\ receipts'[k] \in InboxReceipts
      /\ IsFiniteSet(DOMAIN receipts') /\ Cardinality(DOMAIN receipts') <= MaxIngress
      /\ \A d \in Bindings :
            Cardinality(ReceiptsOf(d)') = Cardinality(ReceiptsOf(d)) + (IF d = b THEN 1 ELSE 0)
      /\ \A d \in Bindings : Cardinality(Duplicates(d)') = Cardinality(Duplicates(d))
      /\ Cardinality(ReceiptsOf(b)') <= b.limit
    <2>1. \A d \in Bindings : Cardinality(Duplicates(d)) \in Nat BY InboxIsFinite
    <2> DEFINE how == "ACCEPTED"
    <2>2. how \in {"ACCEPTED", "EXACT_DUPLICATE"} /\ receipts' = Put(receipts, k, Receipt(b, e, how))
          /\ how = "ACCEPTED" /\ how # "EXACT_DUPLICATE"
        BY <1>2
    <2> HIDE DEF x, how
    <2>3. /\ DOMAIN receipts' = DOMAIN receipts \cup {k}
          /\ \A q \in DOMAIN receipts : receipts'[q] = receipts[q]
          /\ receipts'[k] = [binding |-> b, input |-> Input(b, e), disposition |-> how]
          /\ receipts'[k] \in InboxReceipts
          /\ IsFiniteSet(DOMAIN receipts') /\ Cardinality(DOMAIN receipts') <= MaxIngress
          /\ \A d \in Bindings :
                Cardinality(ReceiptsOf(d)') = Cardinality(ReceiptsOf(d)) + (IF d = b THEN 1 ELSE 0)
          /\ \A d \in Bindings :
                Cardinality(Duplicates(d)') = Cardinality(Duplicates(d))
                                       + (IF d = b /\ how = "EXACT_DUPLICATE" THEN 1 ELSE 0)
          /\ Cardinality(ReceiptsOf(b)') <= b.limit
        BY <1>1, <2>2, NewReceipt
    <2> QED BY <2>1, <2>2, <2>3
<1> HIDE DEF x
<1>7. InboxTypeOK'
    <2>1. IsFiniteSet(events') BY <1>2, FS_AddElement DEF InboxInv, InboxTypeOK
    <2> QED BY <1>2, <1>3, <1>6, <2>1, StreamsGrow DEF InboxInv, InboxTypeOK
<1>8. RowsAreUnique' BY <1>2, <1>3, <1>4 DEF InboxInv, RowsAreUnique
<1>9. ReceiptsHaveRows'
    <2> SUFFICES ASSUME NEW q \in DOMAIN receipts' PROVE \E r \in events' : IsFor(q, r)'
        BY DEF ReceiptsHaveRows
    <2>1. CASE q = k BY <1>2, <1>3, <1>6, <2>1 DEF IsFor
    <2>2. CASE q \in DOMAIN receipts
        BY <1>2, <1>6, <2>2 DEF InboxInv, ReceiptsHaveRows, IsFor
    <2> QED BY <1>6, <2>1, <2>2
<1>10. AcceptedOnce'
    <2> SUFFICES ASSUME NEW r \in events' PROVE \E q : Accepting(r)' = {q}
        BY DEF AcceptedOnce
    <2>1. CASE r = x
        <3>1. \A q \in DOMAIN receipts : ~IsFor(q, x)
            <4> SUFFICES ASSUME NEW q \in DOMAIN receipts, IsFor(q, x) PROVE FALSE OBVIOUS
            <4>1. PICK y \in events : IsFor(q, y) BY DEF InboxInv, ReceiptsHaveRows
            <4>2. y.binding = b /\ y.event = e BY <1>3, <4>1 DEF IsFor, Input
            <4> QED BY <1>4, <4>2
        <3>2. Accepting(r)' = {k} BY <1>3, <1>6, <2>1, <3>1 DEF Accepting, IsFor
        <3> QED BY <3>2
    <2>2. CASE r \in events
        <3>1. ~(r.binding = b /\ r.event = e) BY <1>4, <2>2
        <3>2. Accepting(r)' = Accepting(r) BY <1>6, <3>1 DEF Accepting, IsFor, Input
        <3> QED BY <2>2, <3>2 DEF InboxInv, AcceptedOnce
    <2> QED BY <1>2, <2>1, <2>2
<1>11. WithinLimits'
    <2> SUFFICES ASSUME NEW d \in Bindings
                 PROVE  /\ Cardinality(RowsOf(d)') + Cardinality(Duplicates(d)') = Cardinality(ReceiptsOf(d)')
                        /\ Cardinality(ReceiptsOf(d)') <= d.limit
                        /\ Characters(d)' <= MaxCharacters
        BY DEF WithinLimits
    <2>1. CASE d = b
        <3>1. RowsOf(b)' = RowsOf(b) \cup {x} /\ x \notin RowsOf(b) BY <1>2, <1>3, <1>5 DEF RowsOf
        <3>2. Cardinality(RowsOf(b)') = Cardinality(RowsOf(b)) + 1 BY <3>1, FS_AddElement, InboxIsFinite
        <3>3. Characters(b)' = x.event.body + Characters(b)
            BY <1>3, <3>1, LongerBy, InboxIsFinite DEF Characters, InboxInv, InboxTypeOK, RowsOf
        <3>4. Characters(b) \in Nat BY InboxIsFinite, TextOfRows DEF Characters, InboxInv, InboxTypeOK, RowsOf
        <3>5. Characters(b) + e.body <= MaxCharacters /\ e.body \in Nat
            BY <1>1, <3>4, InboxAssumption DEF TooLong, MeetingEvents
        <3> QED BY <1>3, <1>6, <2>1, <3>2, <3>3, <3>4, <3>5, InboxIsFinite DEF InboxInv, WithinLimits
    <2>2. CASE d # b
        <3>1. RowsOf(d)' = RowsOf(d) BY <1>2, <1>3, <2>2 DEF RowsOf
        <3>2. Characters(d)' = Characters(d) BY <3>1 DEF Characters
        <3> QED BY <1>6, <2>2, <3>1, <3>2, InboxIsFinite DEF InboxInv, WithinLimits
    <2> QED BY <2>1, <2>2
<1> QED BY <1>6, <1>7, <1>8, <1>9, <1>10, <1>11 DEF InboxInv

\* An event that was there.
LEMMA RepeatKeeps ==
    ASSUME InboxInv, NEW k, NEW b \in Bindings, NEW e \in MeetingEvents, NEW at \in Times,
           AppendEvent(k, b, e, at, "EXACT_DUPLICATE")
    PROVE  InboxInv' /\ \E r \in events : r.binding = b /\ r.event = e
<1>1. k \notin DOMAIN receipts /\ SameId(b, e) # {} /\ ~Contradicts(b, e) /\ ~Full(b)
    BY AppendIsAllowed
<1>2. events' = events /\ receipts' = Put(receipts, k, Receipt(b, e, "EXACT_DUPLICATE"))
      /\ streams' = StreamsWith(b, at)
    BY DEF AppendEvent
<1>3. PICK y \in events : y.binding = b /\ y.event = e
    BY <1>1 DEF SameId, RowsOf, Contradicts
<1>4. /\ DOMAIN receipts' = DOMAIN receipts \cup {k}
      /\ \A q \in DOMAIN receipts : receipts'[q] = receipts[q]
      /\ receipts'[k] = [binding |-> b, input |-> Input(b, e), disposition |-> "EXACT_DUPLICATE"]
      /\ receipts'[k] \in InboxReceipts
      /\ IsFiniteSet(DOMAIN receipts') /\ Cardinality(DOMAIN receipts') <= MaxIngress
      /\ \A d \in Bindings :
            Cardinality(ReceiptsOf(d)') = Cardinality(ReceiptsOf(d)) + (IF d = b THEN 1 ELSE 0)
      /\ \A d \in Bindings :
            Cardinality(Duplicates(d)') = Cardinality(Duplicates(d)) + (IF d = b THEN 1 ELSE 0)
      /\ Cardinality(ReceiptsOf(b)') <= b.limit
    BY <1>1, <1>2, NewReceipt
<1>5. InboxTypeOK' BY <1>2, <1>4, StreamsGrow DEF InboxInv, InboxTypeOK
<1>6. RowsAreUnique' BY <1>2 DEF InboxInv, RowsAreUnique
<1>7. ReceiptsHaveRows'
    <2> SUFFICES ASSUME NEW q \in DOMAIN receipts' PROVE \E r \in events' : IsFor(q, r)'
        BY DEF ReceiptsHaveRows
    <2>1. CASE q = k BY <1>2, <1>3, <1>4, <2>1 DEF IsFor
    <2>2. CASE q \in DOMAIN receipts
        BY <1>2, <1>4, <2>2 DEF InboxInv, ReceiptsHaveRows, IsFor
    <2> QED BY <1>4, <2>1, <2>2
<1>8. AcceptedOnce'
    <2>1. \A r \in events : Accepting(r)' = Accepting(r) BY <1>4 DEF Accepting, IsFor
    <2> QED BY <1>2, <2>1 DEF InboxInv, AcceptedOnce
<1>9. WithinLimits'
    <2> SUFFICES ASSUME NEW d \in Bindings
                 PROVE  /\ Cardinality(RowsOf(d)') + Cardinality(Duplicates(d)') = Cardinality(ReceiptsOf(d)')
                        /\ Cardinality(ReceiptsOf(d)') <= d.limit
                        /\ Characters(d)' <= MaxCharacters
        BY DEF WithinLimits
    <2>1. RowsOf(d)' = RowsOf(d) BY <1>2 DEF RowsOf
    <2>2. Characters(d)' = Characters(d) BY <2>1 DEF Characters
    <2>3. CASE d = b BY <1>4, <2>1, <2>2, <2>3, InboxIsFinite DEF InboxInv, WithinLimits
    <2>4. CASE d # b BY <1>4, <2>1, <2>2, <2>4, InboxIsFinite DEF InboxInv, WithinLimits
    <2> QED BY <2>3, <2>4
<1> QED BY <1>3, <1>4, <1>5, <1>6, <1>7, <1>8, <1>9 DEF InboxInv

\* Every append.
LEMMA AppendKeeps ==
    ASSUME InboxInv, NEW k, NEW b \in Bindings, NEW e \in MeetingEvents, NEW at \in Times, NEW outcome,
           AppendEvent(k, b, e, at, outcome)
    PROVE  /\ InboxInv'
           /\ events \subseteq events'
           /\ \A q \in DOMAIN receipts : q \in DOMAIN receipts' /\ receipts'[q] = receipts[q]
           /\ \A r \in events' \ events : r.binding = b /\ Succeeds(outcome)
           /\ Succeeds(outcome) =>
                /\ \E r \in events' : r.binding = b /\ r.event = e
                /\ k \in DOMAIN receipts' /\ receipts'[k].binding = b
<1>1. CASE outcome = "ACCEPTED"
    <2>1. k \notin DOMAIN receipts /\ events' = events \cup {Row(b, e, at)}
          /\ receipts' = Put(receipts, k, Receipt(b, e, outcome))
        BY <1>1, AppendIsAllowed DEF AppendEvent
    <2>2. Row(b, e, at).binding = b /\ Row(b, e, at).event = e BY DEF Row
    <2>3. InboxInv' BY <1>1, AcceptKeeps
    <2>4. /\ \A q \in DOMAIN receipts : q \in DOMAIN receipts' /\ receipts'[q] = receipts[q]
          /\ k \in DOMAIN receipts' /\ receipts'[k].binding = b
        BY <2>1 DEF Put, Receipt
    <2> QED BY <1>1, <2>1, <2>2, <2>3, <2>4 DEF Succeeds
<1>2. CASE outcome = "EXACT_DUPLICATE"
    <2>1. k \notin DOMAIN receipts /\ events' = events
          /\ receipts' = Put(receipts, k, Receipt(b, e, outcome))
        BY <1>2, AppendIsAllowed DEF AppendEvent
    <2>2. InboxInv' /\ \E r \in events : r.binding = b /\ r.event = e BY <1>2, RepeatKeeps
    <2>3. /\ \A q \in DOMAIN receipts : q \in DOMAIN receipts' /\ receipts'[q] = receipts[q]
          /\ k \in DOMAIN receipts' /\ receipts'[k].binding = b
        BY <2>1 DEF Put, Receipt
    <2> QED BY <1>2, <2>1, <2>2, <2>3 DEF Succeeds
<1>3. CASE outcome \notin {"ACCEPTED", "EXACT_DUPLICATE"}
    <2>1. events' = events /\ receipts' = receipts /\ streams' = StreamsWith(b, at)
        BY <1>3 DEF AppendEvent
    <2>2. InboxInv'
        <3>1. InboxTypeOK' BY <2>1, StreamsGrow DEF InboxInv, InboxTypeOK
        <3>2. RowsAreUnique' /\ ReceiptsHaveRows' /\ AcceptedOnce'
            <4>1. \A r \in events : Accepting(r)' = Accepting(r) BY <2>1 DEF Accepting, IsFor
            <4>2. AcceptedOnce' BY <2>1, <4>1 DEF InboxInv, AcceptedOnce
            <4>3. RowsAreUnique' BY <2>1 DEF InboxInv, RowsAreUnique
            <4>4. ReceiptsHaveRows' BY <2>1 DEF InboxInv, ReceiptsHaveRows, IsFor
            <4> QED BY <4>2, <4>3, <4>4
        <3>3. \A d \in Bindings : RowsOf(d)' = RowsOf(d) /\ ReceiptsOf(d)' = ReceiptsOf(d)
                /\ Duplicates(d)' = Duplicates(d)
            BY <2>1 DEF RowsOf, ReceiptsOf, Duplicates
        <3>4. \A d \in Bindings : Characters(d)' = Characters(d) BY <3>3 DEF Characters
        <3>5. WithinLimits' BY <3>3, <3>4 DEF InboxInv, WithinLimits
        <3> QED BY <2>1, <3>1, <3>2, <3>5 DEF InboxInv
    <2>3. CASE outcome = "REPLAY"
        <3>1. k \in DOMAIN receipts /\ receipts[k].input = Input(b, e) BY <2>3 DEF AppendEvent, Outcome
        <3>2. PICK r \in events : IsFor(k, r) BY <3>1 DEF InboxInv, ReceiptsHaveRows
        <3>3. r.binding = b /\ r.event = e /\ receipts[k].binding = b BY <3>1, <3>2 DEF IsFor, Input
        <3> QED BY <2>1, <2>2, <3>1, <3>2, <3>3
    <2>4. CASE outcome # "REPLAY"
        <3>1. ~Succeeds(outcome) BY <1>3, <2>4 DEF Succeeds
        <3> QED BY <2>1, <2>2, <3>1
    <2> QED BY <2>3, <2>4
<1> QED BY <1>1, <1>2, <1>3

-----------------------------------------------------------------------------
(* The sessions.  The operators take the rows ev and the receipts rc of an   *)
(* inbox, and ss, so and c, what a process has of sessions, sources and its  *)
(* call.                                                                     *)

SessionRecords ==
    [state : {"SETUP", "READY", "LIVE", "DRAFT_READY"}, consented : Times \cup {None},
     started : Times \cup {None}, script : Scripts \cup {None}, drafted : Times \cup {None}]

BindingOf(s, r) ==
    [session |-> s, consented |-> r.consented, started |-> r.started, limit |-> r.script.limit]

\* The first event of a session was delivered to the stream b.
Begun(rc, b) == LET k == <<b.session, "START", 1>> IN k \in DOMAIN rc /\ rc[k].binding = b

\* The first n events of the start are in the stream of the session.
Delivered(ev, rc, s, r, n) ==
    /\ \A i \in 1 .. n : \E row \in ev :
        row.binding = BindingOf(s, r) /\ row.event = Stamped(r.script.initial[i], r.started)
    /\ n > 0 => Begun(rc, BindingOf(s, r))

SessionOK(ev, rc, s, r) ==
    /\ s \in Sessions /\ r \in SessionRecords
    /\ r.state # "SETUP" => r.consented \in Times
    /\ r.script # None => r.started \in Times /\ r.state # "SETUP"
    /\ r.state \in {"LIVE", "DRAFT_READY"} =>
        r.script # None /\ Delivered(ev, rc, s, r, Len(r.script.initial))

\* A source is the text of its stream.
SourceOK(ev, source) ==
    LET rows == {r \in ev : r.binding = source.binding}
        stop == Len(source.transcript) + 2
    IN /\ stop \in Nat
       /\ 1 .. stop \subseteq Numbers(rows)
       /\ \A n \in 1 .. stop :
             At(rows, n).kind = IF n = 1 THEN "STARTED"
                                ELSE IF n = stop THEN "STOPPED" ELSE "TRANSCRIPT"
       /\ \A i \in 1 .. stop - 2 : source.transcript[i] = At(rows, i + 1).body

SourcesOK(ss, so) ==
    /\ \A s \in DOMAIN so :
        s \in DOMAIN ss /\ ss[s].state = "DRAFT_READY" /\ so[s].binding = BindingOf(s, ss[s])
    /\ \A s \in DOMAIN ss : ss[s].state = "DRAFT_READY" => s \in DOMAIN so

\* The steps of a finalization.
Finalizing == {"finalize", "retain", "marker", "rows", "history", "payloads", "seal"}

Calls(ev, ss) ==
    [op : {"START", "DRAFT"}, s : DOMAIN ss, step : {"clock", "append"} \cup Finalizing,
     i : Nat, at : Times, rows : SUBSET ev, deliveries : Nat]

\* A start is at an event before which all were delivered; a draft is at one of
\* its events, or has read rows of its stream.
CallOK(ev, rc, c, ss) == c = Idle \/
    LET r == ss[c.s] IN
    /\ c \in Calls(ev, ss)
    /\ r.script # None
    /\ c.op = "START" => /\ r.state = "READY" /\ c.step \in {"clock", "append"}
                         /\ c.i \in 1 .. Len(r.script.initial)
                         /\ Delivered(ev, rc, c.s, r, c.i - 1)
    /\ c.op = "DRAFT" => /\ r.state = "LIVE" /\ r.drafted \in Times
                         /\ c.i \in 1 .. Len(r.script.draft)
    /\ \A row \in c.rows : row.binding = BindingOf(c.s, r)

ProcessOK(ev, rc, ss, so, c) ==
    /\ \A s \in DOMAIN ss : SessionOK(ev, rc, s, ss[s])
    /\ SourcesOK(ss, so)
    /\ \A s \in DOMAIN so : SourceOK(ev, so[s])
    /\ CallOK(ev, rc, c, ss)

MeetingInv ==
    /\ InboxInv
    /\ now \in Times
    /\ DOMAIN sessions = Processes /\ DOMAIN sources = Processes /\ DOMAIN call = Processes
    /\ \A row \in events : Begun(receipts, row.binding)
    /\ \A p \in Processes : ProcessOK(events, receipts, sessions[p], sources[p], call[p])

\* What is read of a stream stays in it, whatever is appended.
LEMMA SameEvents ==
    ASSUME NEW rows, NEW more, rows \subseteq more,
           \A r1, r2 \in more : r1.event.n = r2.event.n => r1 = r2,
           NEW n \in Numbers(rows)
    PROVE  n \in Numbers(more) /\ At(more, n) = At(rows, n)
<1>1. PICK r \in rows : r.event.n = n BY DEF Numbers
<1>2. \A q \in more : q.event.n = n <=> q = r BY <1>1
<1>3. (CHOOSE q \in more : q.event.n = n) = r /\ (CHOOSE q \in rows : q.event.n = n) = r
    BY <1>1, <1>2
<1> QED BY <1>1, <1>3 DEF Numbers, At

\* An inbox only grows, and what was true of it stays.
LEMMA GrowthKeeps ==
    ASSUME NEW ev, NEW rc, NEW en, NEW rn, ev \subseteq en,
           \A k \in DOMAIN rc : k \in DOMAIN rn /\ rn[k] = rc[k],
           \A r1, r2 \in en : r1.binding = r2.binding /\ r1.event.n = r2.event.n => r1 = r2,
           NEW ss, NEW so, NEW c, ProcessOK(ev, rc, ss, so, c)
    PROVE  ProcessOK(en, rn, ss, so, c)
<1>1. \A s, r, n : Delivered(ev, rc, s, r, n) => Delivered(en, rn, s, r, n) BY DEF Delivered, Begun
<1>2. \A s \in DOMAIN ss : SessionOK(en, rn, s, ss[s]) BY <1>1 DEF ProcessOK, SessionOK
<1>3. CallOK(en, rn, c, ss)
    <2>1. c \in Calls(ev, ss) => c \in Calls(en, ss) BY DEF Calls
    <2> QED BY <1>1, <2>1 DEF ProcessOK, CallOK
<1>4. ASSUME NEW s \in DOMAIN so PROVE SourceOK(en, so[s])
    <2> DEFINE rows == {r \in ev : r.binding = so[s].binding}
               more == {r \in en : r.binding = so[s].binding}
               stop == Len(so[s].transcript) + 2
    <2>1. /\ stop \in Nat /\ 1 .. stop \subseteq Numbers(rows)
          /\ \A n \in 1 .. stop :
                At(rows, n).kind = IF n = 1 THEN "STARTED"
                                   ELSE IF n = stop THEN "STOPPED" ELSE "TRANSCRIPT"
          /\ \A i \in 1 .. stop - 2 : so[s].transcript[i] = At(rows, i + 1).body
        BY DEF ProcessOK, SourceOK
    <2>2. rows \subseteq more /\ \A r1, r2 \in more : r1.event.n = r2.event.n => r1 = r2 OBVIOUS
    <2> HIDE DEF rows, more
    <2>3. \A n \in Numbers(rows) : n \in Numbers(more) /\ At(more, n) = At(rows, n) BY <2>2, SameEvents
    <2> HIDE DEF stop
    <2>4. 1 .. stop \subseteq Numbers(more) BY <2>1, <2>3
    <2>5. \A n \in 1 .. stop : At(more, n) = At(rows, n) BY <2>1, <2>3
    <2>6. \A i \in 1 .. stop - 2 : i + 1 \in 1 .. stop BY <2>1
    <2>7. /\ stop \in Nat /\ 1 .. stop \subseteq Numbers(more)
          /\ \A n \in 1 .. stop :
                At(more, n).kind = IF n = 1 THEN "STARTED"
                                   ELSE IF n = stop THEN "STOPPED" ELSE "TRANSCRIPT"
          /\ \A i \in 1 .. stop - 2 : so[s].transcript[i] = At(more, i + 1).body
        BY <2>1, <2>4, <2>5, <2>6
    <2> QED BY <2>7 DEF SourceOK, more, stop
<1> QED BY <1>2, <1>3, <1>4 DEF ProcessOK

\* A record that is remembered, short of a draft, and the call that goes with it.
LEMMA RememberKeeps ==
    ASSUME NEW ev, NEW rc, NEW ss, NEW so, NEW c, ProcessOK(ev, rc, ss, so, c),
           NEW s, s \in DOMAIN ss => ss[s].state # "DRAFT_READY",
           NEW r, SessionOK(ev, rc, s, r), r.state # "DRAFT_READY",
           NEW d, CallOK(ev, rc, d, Put(ss, s, r))
    PROVE  ProcessOK(ev, rc, Put(ss, s, r), so, d)
<1> DEFINE st == Put(ss, s, r)
<1>1. DOMAIN st = DOMAIN ss \cup {s} /\ st[s] = r /\ \A t \in DOMAIN ss : t # s => st[t] = ss[t]
    BY DEF Put
<1> HIDE DEF st
<1>2. \A t \in DOMAIN st : SessionOK(ev, rc, t, st[t]) BY <1>1 DEF ProcessOK
<1>3. s \notin DOMAIN so BY DEF ProcessOK, SourcesOK
<1>4. SourcesOK(st, so) BY <1>1, <1>3 DEF ProcessOK, SourcesOK
<1> QED BY <1>2, <1>4 DEF ProcessOK, st

\* A process whose call is another one that is right.
LEMMA CallKeeps ==
    ASSUME NEW ev, NEW rc, NEW ss, NEW so, NEW c, ProcessOK(ev, rc, ss, so, c),
           NEW d, CallOK(ev, rc, d, ss)
    PROVE  ProcessOK(ev, rc, ss, so, d)
BY DEF ProcessOK

\* Text that is erased and markers change nothing of this.
LEMMA InboxStays == ASSUME InboxInv, UNCHANGED <<streams, events, receipts>> PROVE InboxInv'
<1>1. InboxTypeOK' BY DEF InboxInv, InboxTypeOK
<1>2. \A r \in events : Accepting(r)' = Accepting(r) BY DEF Accepting, IsFor
<1>3. RowsAreUnique' /\ ReceiptsHaveRows' BY DEF InboxInv, RowsAreUnique, ReceiptsHaveRows, IsFor
<1>4. AcceptedOnce' BY <1>2 DEF InboxInv, AcceptedOnce
<1>5. \A d \in Bindings : RowsOf(d)' = RowsOf(d) /\ ReceiptsOf(d)' = ReceiptsOf(d)
        /\ Duplicates(d)' = Duplicates(d)
    BY DEF RowsOf, ReceiptsOf, Duplicates
<1>6. \A d \in Bindings : Characters(d)' = Characters(d) BY <1>5 DEF Characters
<1>7. WithinLimits' BY <1>5, <1>6 DEF InboxInv, WithinLimits
<1> QED BY <1>1, <1>3, <1>4, <1>7 DEF InboxInv

\* One process moves, over an inbox whose rows and receipts stay.
LEMMA OneMoves ==
    ASSUME MeetingInv, NEW p \in Processes, UNCHANGED <<streams, events, receipts>>, now' \in Times,
           NEW ss, (sessions' = [sessions EXCEPT ![p] = ss]) \/ (sessions' = sessions /\ ss = sessions[p]),
           NEW so, (sources' = [sources EXCEPT ![p] = so]) \/ (sources' = sources /\ so = sources[p]),
           NEW c, (call' = [call EXCEPT ![p] = c]) \/ (call' = call /\ c = call[p]),
           ProcessOK(events, receipts, ss, so, c)
    PROVE  MeetingInv'
<1>1. InboxInv' BY InboxStays DEF MeetingInv
<1>2. \A q \in Processes : sessions'[q] = (IF q = p THEN ss ELSE sessions[q])
        /\ sources'[q] = (IF q = p THEN so ELSE sources[q]) /\ call'[q] = (IF q = p THEN c ELSE call[q])
    BY DEF MeetingInv
<1>3. ASSUME NEW q \in Processes PROVE ProcessOK(events', receipts', sessions'[q], sources'[q], call'[q])
    BY <1>2 DEF MeetingInv
<1>4. \A row \in events' : Begun(receipts', row.binding) BY DEF MeetingInv
<1>5. DOMAIN sessions' = Processes /\ DOMAIN sources' = Processes /\ DOMAIN call' = Processes
    BY DEF MeetingInv
<1> QED BY <1>1, <1>3, <1>4, <1>5 DEF MeetingInv

\* The stream of a session with an attempt.
LEMMA StreamOfSession ==
    ASSUME NEW ev, NEW rc, NEW s, NEW r, SessionOK(ev, rc, s, r), r.script # None
    PROVE  BindingOf(s, r) \in Bindings /\ BindingOf(s, r).session = s
           /\ r.script \in Scripts /\ r.started \in Times
           /\ r.script.initial \in Seq(ScriptEvents) /\ r.script.initial # <<>>
           /\ r.script.draft \in Seq(ScriptEvents) /\ r.script.draft # <<>>
<1>1. r.script \in Scripts /\ r.consented \in Times /\ r.started \in Times /\ s \in Sessions
    BY DEF SessionOK, SessionRecords
<1>2. r.script.limit \in Nat BY <1>1, SessionAssumption
<1>3. BindingOf(s, r) \in Bindings /\ BindingOf(s, r).session = s BY <1>1, <1>2 DEF BindingOf, Bindings
<1>4. r.script.initial \in Seq(ScriptEvents) \ {<<>>} /\ r.script.draft \in Seq(ScriptEvents) \ {<<>>}
    BY <1>1, SessionAssumption
<1> QED BY <1>1, <1>3, <1>4

\* A new session of a POC that has none.
LEMMA CreateStep == ASSUME MeetingInv, NEW p \in Processes, NEW s \in Sessions, Create(p, s) PROVE MeetingInv'
<1> DEFINE r == Session("SETUP", None)
<1>1. ProcessOK(events, receipts, sessions[p], sources[p], call[p]) BY DEF MeetingInv
<1>2. call[p] = Idle /\ s \notin DOMAIN sessions[p] BY DEF Create, Free
<1>3. SessionOK(events, receipts, s, r) /\ r.state # "DRAFT_READY"
    BY SessionAssumption DEF SessionOK, SessionRecords, Session
<1>4. CallOK(events, receipts, call[p], Put(sessions[p], s, r)) BY <1>2 DEF CallOK
<1> HIDE DEF r
<1>5. ProcessOK(events, receipts, Put(sessions[p], s, r), sources[p], call[p])
    BY <1>1, <1>2, <1>3, <1>4, RememberKeeps
<1>6. sessions' = [sessions EXCEPT ![p] = Put(sessions[p], s, r)] BY DEF Create, Remember, r
<1>7. UNCHANGED <<streams, events, receipts>> /\ now' \in Times /\ sources' = sources /\ call' = call
    BY DEF Create, inbox, MeetingInv
<1> QED BY <1>5, <1>6, <1>7, OneMoves

\* The session of a recorded consent has no attempt yet.
LEMMA ConsentStep ==
    ASSUME MeetingInv, NEW p \in Processes, NEW s \in Sessions, RecordConsent(p, s) PROVE MeetingInv'
<1> DEFINE r == Session("READY", now)
<1>1. ProcessOK(events, receipts, sessions[p], sources[p], call[p]) /\ now \in Times BY DEF MeetingInv
<1>2. call[p] = Idle /\ sessions[p][s].state # "DRAFT_READY" BY DEF RecordConsent, Free
<1>3. SessionOK(events, receipts, s, r) /\ r.state # "DRAFT_READY"
    BY <1>1, SessionAssumption DEF SessionOK, SessionRecords, Session
<1>4. CallOK(events, receipts, call[p], Put(sessions[p], s, r)) BY <1>2 DEF CallOK
<1> HIDE DEF r
<1>5. ProcessOK(events, receipts, Put(sessions[p], s, r), sources[p], call[p])
    BY <1>1, <1>2, <1>3, <1>4, RememberKeeps
<1>6. sessions' = [sessions EXCEPT ![p] = Put(sessions[p], s, r)] BY DEF RecordConsent, Remember, r
<1>7. UNCHANGED <<streams, events, receipts>> /\ now' \in Times /\ sources' = sources /\ call' = call
    BY DEF RecordConsent, inbox, MeetingInv
<1> QED BY <1>5, <1>6, <1>7, OneMoves

\* A start keeps the time of its first attempt, and delivers from the first event.
LEMMA StartStep ==
    ASSUME MeetingInv, NEW p \in Processes, NEW s \in Sessions, Start(p, s) PROVE MeetingInv'
<1> DEFINE r == sessions[p][s]
           timed == IF r.started = None THEN [r EXCEPT !.started = now] ELSE r
           begun == Called("START", s, "clock", 1)
<1>1. ProcessOK(events, receipts, sessions[p], sources[p], call[p]) /\ now \in Times BY DEF MeetingInv
<1>2. call[p] = Idle /\ s \in DOMAIN sessions[p] /\ r.state = "READY" BY DEF Start, Free
<1>3. SessionOK(events, receipts, s, r) BY <1>1, <1>2 DEF ProcessOK
<1>4. timed \in SessionRecords /\ timed.state = "READY" /\ timed.started \in Times /\ timed.consented \in Times
      /\ timed.script = r.script
    BY <1>1, <1>2, <1>3 DEF SessionOK, SessionRecords
<1>5. UNCHANGED <<streams, events, receipts>> /\ now' \in Times /\ sources' = sources
    BY DEF Start, inbox, MeetingInv
<1>6. ASSUME NEW ss, s \in DOMAIN ss, SessionOK(events, receipts, s, ss[s]),
             ss[s].state = "READY", ss[s].script # None
      PROVE  CallOK(events, receipts, begun, ss)
    <2>1. begun = [op |-> "START", s |-> s, step |-> "clock", i |-> 1, at |-> 0, rows |-> {}, deliveries |-> 0]
        BY DEF Called
    <2>2. 1 \in 1 .. Len(ss[s].script.initial) BY <1>6, StreamOfSession
    <2>3. Delivered(events, receipts, s, ss[s], 1 - 1) BY DEF Delivered
    <2> HIDE DEF begun
    <2>4. 0 \in Times BY SessionAssumption DEF Times
    <2> QED BY <1>6, <2>1, <2>2, <2>3, <2>4 DEF CallOK, Calls
<1>7. CASE r.script = None /\ Remember(p, s, timed) /\ UNCHANGED call
    <2>1. SessionOK(events, receipts, s, timed) BY <1>3, <1>4, <1>7 DEF SessionOK
    <2>2. sessions' = [sessions EXCEPT ![p] = Put(sessions[p], s, timed)] BY <1>7 DEF Remember
    <2>3. CallOK(events, receipts, call[p], Put(sessions[p], s, timed)) BY <1>2 DEF CallOK
    <2> HIDE DEF timed
    <2>4. ProcessOK(events, receipts, Put(sessions[p], s, timed), sources[p], call[p])
        BY <1>1, <1>2, <1>4, <2>1, <2>3, RememberKeeps
    <2> QED BY <1>5, <1>7, <2>2, <2>4, OneMoves
<1>8. ASSUME NEW script \in Scripts, Remember(p, s, [timed EXCEPT !.script = script]), Begin(p, s, "START"),
             r.script = None
      PROVE  MeetingInv'
    <2> DEFINE q == [timed EXCEPT !.script = script]
    <2>1. q \in SessionRecords /\ q.state = "READY" /\ q.script # None /\ q.started \in Times /\ q.consented \in Times
        BY <1>4, SessionAssumption DEF SessionRecords
    <2>2. sessions' = [sessions EXCEPT ![p] = Put(sessions[p], s, q)] BY <1>8 DEF Remember
    <2> HIDE DEF q, begun, timed
    <2>3. SessionOK(events, receipts, s, q) BY <1>3, <2>1 DEF SessionOK
    <2>4. CallOK(events, receipts, begun, Put(sessions[p], s, q))
        <3>1. s \in DOMAIN Put(sessions[p], s, q) /\ Put(sessions[p], s, q)[s] = q BY DEF Put
        <3> QED BY <1>6, <2>1, <2>3, <3>1
    <2>5. ProcessOK(events, receipts, Put(sessions[p], s, q), sources[p], begun)
        BY <1>1, <1>2, <2>1, <2>3, <2>4, RememberKeeps
    <2>6. call' = [call EXCEPT ![p] = begun] BY <1>8 DEF Begin, begun
    <2> QED BY <1>5, <2>2, <2>5, <2>6, OneMoves
<1>9. CASE r.script # None /\ Begin(p, s, "START") /\ UNCHANGED sessions
    <2>1. call' = [call EXCEPT ![p] = begun] BY <1>9 DEF Begin
    <2>2. CallOK(events, receipts, begun, sessions[p]) BY <1>2, <1>3, <1>6, <1>9
    <2> HIDE DEF begun
    <2>3. ProcessOK(events, receipts, sessions[p], sources[p], begun) BY <1>1, <2>2, CallKeeps
    <2> QED BY <1>5, <1>9, <2>1, <2>3, OneMoves
<1> QED BY <1>7, <1>8, <1>9 DEF Start

\* A draft keeps the time of its first attempt.
LEMMA DraftNowStep ==
    ASSUME MeetingInv, NEW p \in Processes, NEW s \in Sessions, DraftNow(p, s) PROVE MeetingInv'
<1> DEFINE r == sessions[p][s]
           q == IF r.drafted = None THEN [r EXCEPT !.drafted = now] ELSE r
           begun == Called("DRAFT", s, "clock", 1)
<1>1. ProcessOK(events, receipts, sessions[p], sources[p], call[p]) /\ now \in Times BY DEF MeetingInv
<1>2. call[p] = Idle /\ s \in DOMAIN sessions[p] /\ r.state = "LIVE" BY DEF DraftNow, Free
<1>3. SessionOK(events, receipts, s, r) BY <1>1, <1>2 DEF ProcessOK
<1>4. q \in SessionRecords /\ q.state = "LIVE" /\ q.started = r.started /\ q.consented = r.consented
      /\ q.script = r.script /\ q.drafted \in Times
    BY <1>1, <1>2, <1>3 DEF SessionOK, SessionRecords
<1>5. sessions' = [sessions EXCEPT ![p] = Put(sessions[p], s, q)] /\ call' = [call EXCEPT ![p] = begun]
    BY DEF DraftNow, Remember, Begin
<1>6. begun = [op |-> "DRAFT", s |-> s, step |-> "clock", i |-> 1, at |-> 0, rows |-> {}, deliveries |-> 0]
    BY DEF Called
<1> HIDE DEF q, begun
<1>7. SessionOK(events, receipts, s, q) BY <1>2, <1>3, <1>4 DEF SessionOK, Delivered, BindingOf
<1>8. 1 \in 1 .. Len(q.script.draft) /\ q.script # None
    <2>1. q.script # None BY <1>4, <1>7 DEF SessionOK
    <2> QED BY <1>7, <2>1, StreamOfSession
<1>9. CallOK(events, receipts, begun, Put(sessions[p], s, q))
    <2>1. s \in DOMAIN Put(sessions[p], s, q) /\ Put(sessions[p], s, q)[s] = q BY DEF Put
    <2>2. 0 \in Times BY SessionAssumption DEF Times
    <2> QED BY <1>4, <1>6, <1>8, <2>1, <2>2 DEF CallOK, Calls
<1>10. ProcessOK(events, receipts, Put(sessions[p], s, q), sources[p], begun)
    BY <1>1, <1>2, <1>4, <1>7, <1>9, RememberKeeps
<1>11. UNCHANGED <<streams, events, receipts>> /\ now' \in Times /\ sources' = sources
    BY DEF DraftNow, inbox, MeetingInv
<1> QED BY <1>5, <1>10, <1>11, OneMoves

\* The clock is no part of what is kept.
LEMMA TickStep == ASSUME MeetingInv, Tick PROVE MeetingInv'
<1>1. UNCHANGED <<streams, events, receipts>> /\ now' \in Times /\ UNCHANGED <<sessions, sources, call>>
    BY DEF Tick, inbox
<1> QED BY <1>1, InboxStays DEF MeetingInv

\* A process that goes on with another call.
LEMMA CallMoves ==
    ASSUME MeetingInv, NEW p \in Processes, UNCHANGED <<streams, events, receipts>>, now' = now,
           sessions' = sessions, sources' = sources,
           NEW d, call' = [call EXCEPT ![p] = d], CallOK(events, receipts, d, sessions[p])
    PROVE  MeetingInv'
<1>1. ProcessOK(events, receipts, sessions[p], sources[p], d) /\ now' \in Times
    BY CallKeeps DEF MeetingInv
<1> QED BY <1>1, OneMoves

\* What holds during a call.
LEMMA DuringCall ==
    ASSUME MeetingInv, NEW p \in Processes, call[p] # Idle
    PROVE  LET c == call[p]
               r == sessions[p][c.s]
           IN /\ c \in Calls(events, sessions[p]) /\ c.s \in DOMAIN sessions[p]
              /\ SessionOK(events, receipts, c.s, r) /\ r.script # None
              /\ Binding(p, c.s) = BindingOf(c.s, r) /\ Binding(p, c.s) \in Bindings
              /\ (c.op = "START" => /\ r.state = "READY" /\ c.step \in {"clock", "append"}
                                    /\ c.i \in 1 .. Len(r.script.initial)
                                    /\ Delivered(events, receipts, c.s, r, c.i - 1))
              /\ (c.op = "DRAFT" => /\ r.state = "LIVE" /\ r.drafted \in Times
                                    /\ c.i \in 1 .. Len(r.script.draft))
              /\ \A row \in c.rows : row.binding = Binding(p, c.s)
<1> DEFINE c == call[p]
           r == sessions[p][c.s]
<1>1. ProcessOK(events, receipts, sessions[p], sources[p], c) BY DEF MeetingInv
<1>2. /\ c \in Calls(events, sessions[p]) /\ r.script # None
      /\ c.op = "START" => /\ r.state = "READY" /\ c.step \in {"clock", "append"}
                           /\ c.i \in 1 .. Len(r.script.initial)
                           /\ Delivered(events, receipts, c.s, r, c.i - 1)
      /\ c.op = "DRAFT" => /\ r.state = "LIVE" /\ r.drafted \in Times
                           /\ c.i \in 1 .. Len(r.script.draft)
      /\ \A row \in c.rows : row.binding = BindingOf(c.s, r)
    BY <1>1 DEF ProcessOK, CallOK
<1>3. c.s \in DOMAIN sessions[p] BY <1>2 DEF Calls
<1>4. SessionOK(events, receipts, c.s, r) BY <1>1, <1>3 DEF ProcessOK
<1>5. Binding(p, c.s) = BindingOf(c.s, r) BY DEF Binding, BindingOf
<1>6. BindingOf(c.s, r) \in Bindings BY <1>2, <1>4, StreamOfSession
<1> QED BY <1>2, <1>3, <1>4, <1>5, <1>6

\* A call at its next step.
LEMMA NextOfCall ==
    ASSUME MeetingInv, NEW p \in Processes, call[p] # Idle,
           NEW d \in Calls(events, sessions[p]),
           d.op = call[p].op /\ d.s = call[p].s /\ d.i = call[p].i,
           d.op = "START" => d.step \in {"clock", "append"},
           \A row \in d.rows : row.binding = Binding(p, call[p].s)
    PROVE  CallOK(events, receipts, d, sessions[p])
BY DuringCall DEF CallOK

\* Reading the clock leaves the rows and receipts of the inbox.
LEMMA ReadClockStep == ASSUME MeetingInv, NEW p \in Processes, ReadClock(p) PROVE MeetingInv'
<1> DEFINE d == [call[p] EXCEPT !.step = "append", !.at = now]
<1>1. call[p] # Idle BY DEF ReadClock, Idle, Called
<1>2. call[p] \in Calls(events, sessions[p]) /\ now \in Times
      /\ \A row \in call[p].rows : row.binding = Binding(p, call[p].s)
    BY <1>1, DuringCall DEF MeetingInv
<1>3. d \in Calls(events, sessions[p]) /\ d.op = call[p].op /\ d.s = call[p].s /\ d.i = call[p].i
      /\ d.step = "append" /\ d.rows = call[p].rows
    BY <1>2 DEF Calls
<1> HIDE DEF d
<1>4. CallOK(events, receipts, d, sessions[p]) BY <1>1, <1>2, <1>3, NextOfCall
<1>5. CallOK(events, receipts, Idle, sessions[p]) BY DEF CallOK
<1>6. UNCHANGED <<streams, events, receipts>> /\ now' = now /\ sessions' = sessions /\ sources' = sources
    BY DEF ReadClock, Purge, inbox
<1>7. call' = [call EXCEPT ![p] = d] \/ call' = [call EXCEPT ![p] = Idle]
    BY DEF ReadClock, Goto, Release, d
<1> QED BY <1>4, <1>5, <1>6, <1>7, CallMoves

\* A finalization up to the rows, which are rows of its own stream.
LEMMA FinalizeStep ==
    ASSUME MeetingInv, NEW p \in Processes, Finalize(p) \/ Retain(p) \/ ReadMarker(p) \/ ReadRows(p)
    PROVE  MeetingInv'
<1>1. call[p] # Idle /\ call[p].step \in Finalizing
    BY DEF Finalize, Retain, ReadMarker, ReadRows, Idle, Called, Finalizing
<1>2. call[p] \in Calls(events, sessions[p]) /\ now \in Times
      /\ call[p].op # "START"
      /\ \A row \in call[p].rows : row.binding = Binding(p, call[p].s)
    BY <1>1, DuringCall DEF MeetingInv, Finalizing
<1>3. ASSUME NEW d \in Calls(events, sessions[p]), d.op = call[p].op /\ d.s = call[p].s /\ d.i = call[p].i,
             \A row \in d.rows : row.binding = Binding(p, call[p].s)
      PROVE  CallOK(events, receipts, d, sessions[p])
    BY <1>1, <1>2, <1>3, NextOfCall
<1>4. CallOK(events, receipts, Idle, sessions[p]) BY DEF CallOK
<1>5. UNCHANGED <<streams, events, receipts>> /\ now' = now /\ sessions' = sessions /\ sources' = sources
    BY DEF Finalize, Retain, ReadMarker, ReadRows, Purge, inbox
<1>6. CASE Finalize(p)
    <2> DEFINE d == [call[p] EXCEPT !.step = "retain", !.at = now]
    <2>1. d \in Calls(events, sessions[p]) /\ d.op = call[p].op /\ d.s = call[p].s /\ d.i = call[p].i
          /\ d.rows = call[p].rows
        BY <1>2 DEF Calls, Finalizing
    <2>2. call' = [call EXCEPT ![p] = d] BY <1>6 DEF Finalize, Goto
    <2> HIDE DEF d
    <2> QED BY <1>2, <1>3, <1>5, <2>1, <2>2, CallMoves
<1>7. CASE Retain(p)
    <2> DEFINE d == [call[p] EXCEPT !.step = "marker"]
    <2>1. d \in Calls(events, sessions[p]) /\ d.op = call[p].op /\ d.s = call[p].s /\ d.i = call[p].i
          /\ d.rows = call[p].rows
        BY <1>2 DEF Calls, Finalizing
    <2>2. call' = [call EXCEPT ![p] = d] \/ call' = [call EXCEPT ![p] = Idle]
        BY <1>7 DEF Retain, Goto, Release
    <2> HIDE DEF d
    <2> QED BY <1>2, <1>3, <1>4, <1>5, <2>1, <2>2, CallMoves
<1>8. CASE ReadMarker(p)
    <2> DEFINE d == [call[p] EXCEPT !.step = "rows"]
    <2>1. d \in Calls(events, sessions[p]) /\ d.op = call[p].op /\ d.s = call[p].s /\ d.i = call[p].i
          /\ d.rows = call[p].rows
        BY <1>2 DEF Calls, Finalizing
    <2>2. call' = [call EXCEPT ![p] = d] \/ call' = [call EXCEPT ![p] = Idle]
        BY <1>8 DEF ReadMarker, Goto, Release
    <2> HIDE DEF d
    <2> QED BY <1>2, <1>3, <1>4, <1>5, <2>1, <2>2, CallMoves
<1>9. CASE ReadRows(p)
    <2> DEFINE d == [call[p] EXCEPT !.step = "history", !.rows = RowsOf(Binding(p, call[p].s))]
    <2>1. RowsOf(Binding(p, call[p].s)) \in SUBSET events
          /\ \A row \in RowsOf(Binding(p, call[p].s)) : row.binding = Binding(p, call[p].s)
        BY DEF RowsOf
    <2>2. d \in Calls(events, sessions[p]) /\ d.op = call[p].op /\ d.s = call[p].s /\ d.i = call[p].i
          /\ d.rows = RowsOf(Binding(p, call[p].s))
        BY <1>2, <2>1 DEF Calls, Finalizing
    <2>3. call' = [call EXCEPT ![p] = d] BY <1>9 DEF ReadRows, Goto
    <2> HIDE DEF d
    <2> QED BY <1>3, <1>5, <2>1, <2>2, <2>3, CallMoves
<1> QED BY <1>6, <1>7, <1>8, <1>9

\* A finalization up to the payloads.
LEMMA HistoryStep ==
    ASSUME MeetingInv, NEW p \in Processes, ReadHistory(p) \/ ReadPayloads(p) PROVE MeetingInv'
<1> DEFINE b == Binding(p, call[p].s)
           n == Deliveries(b, call[p].rows)
<1>1. call[p] # Idle /\ call[p].step \in Finalizing
    BY DEF ReadHistory, ReadPayloads, Idle, Called, Finalizing
<1>2. call[p] \in Calls(events, sessions[p]) /\ b \in Bindings
      /\ call[p].op # "START"
      /\ \A row \in call[p].rows : row.binding = b
    BY <1>1, DuringCall DEF Finalizing
<1>3. n \in Nat
    <2>1. call[p].rows \subseteq events BY <1>2 DEF Calls
    <2>2. UNION {For(b, r, "EXACT_DUPLICATE") : r \in call[p].rows} \subseteq DOMAIN receipts
        BY DEF For, ReceiptsOf
    <2>3. IsFiniteSet(call[p].rows)
          /\ IsFiniteSet(UNION {For(b, r, "EXACT_DUPLICATE") : r \in call[p].rows})
        BY <2>1, <2>2, FS_Subset DEF MeetingInv, InboxInv, InboxTypeOK
    <2> QED BY <2>3, FS_CardinalityType DEF Deliveries
<1>4. CallOK(events, receipts, Idle, sessions[p]) BY DEF CallOK
<1>5. UNCHANGED <<streams, events, receipts>> /\ now' = now /\ sessions' = sessions /\ sources' = sources
    BY DEF ReadHistory, ReadPayloads, inbox
<1>6. CASE ReadHistory(p)
    <2> DEFINE d == [call[p] EXCEPT !.step = "payloads", !.deliveries = n]
    <2>1. call' = [call EXCEPT ![p] = d] \/ call' = [call EXCEPT ![p] = Idle]
        BY <1>6 DEF ReadHistory, Goto, Release
    <2> HIDE DEF n
    <2>2. d \in Calls(events, sessions[p]) /\ d.op = call[p].op /\ d.s = call[p].s /\ d.i = call[p].i
          /\ d.rows = call[p].rows
        BY <1>2, <1>3 DEF Calls, Finalizing
    <2> HIDE DEF d
    <2>3. CallOK(events, receipts, d, sessions[p]) BY <1>1, <1>2, <2>2, NextOfCall
    <2> QED BY <1>4, <1>5, <2>1, <2>3, CallMoves
<1>7. CASE ReadPayloads(p)
    <2> DEFINE d == [call[p] EXCEPT !.step = "seal"]
    <2>1. call' = [call EXCEPT ![p] = d] \/ call' = [call EXCEPT ![p] = Idle]
        BY <1>7 DEF ReadPayloads, Goto, Release
    <2>2. d \in Calls(events, sessions[p]) /\ d.op = call[p].op /\ d.s = call[p].s /\ d.i = call[p].i
          /\ d.rows = call[p].rows
        BY <1>2 DEF Calls, Finalizing
    <2> HIDE DEF d
    <2>3. CallOK(events, receipts, d, sessions[p]) BY <1>1, <1>2, <2>2, NextOfCall
    <2> QED BY <1>4, <1>5, <2>1, <2>3, CallMoves
<1> QED BY <1>6, <1>7

\* The text that is sealed is the stream it was read from.
LEMMA SealedIsTheStream ==
    ASSUME InboxInv, NEW b, NEW rows, rows \subseteq events, \A row \in rows : row.binding = b,
           Complete(rows)
    PROVE  SourceOK(events, Source(b, Transcript(rows)))
<1> DEFINE last == Cardinality(rows)
           text == Transcript(rows)
           all == {r \in events : r.binding = b}
<1>1. IsFiniteSet(rows) /\ last \in Nat
    BY FS_Subset, FS_CardinalityType DEF InboxInv, InboxTypeOK
<1>2. /\ last >= 3
      /\ Numbers(rows) = 1 .. last
      /\ \A n \in 1 .. last :
            /\ (At(rows, n).kind = "STARTED") <=> (n = 1)
            /\ (At(rows, n).kind = "STOPPED") <=> (n = last)
            /\ At(rows, n).kind # "JOINED"
    BY DEF Complete
<1>3. text = [i \in 1 .. last - 2 |-> At(rows, i + 1).body] BY DEF Transcript
<1>4. \A n \in 1 .. last : At(rows, n).kind \in {"STARTED", "TRANSCRIPT", "STOPPED", "JOINED"}
    <2> SUFFICES ASSUME NEW n \in 1 .. last
                 PROVE  At(rows, n).kind \in {"STARTED", "TRANSCRIPT", "STOPPED", "JOINED"}
        OBVIOUS
    <2>1. PICK r \in rows : r.event.n = n BY <1>2 DEF Numbers
    <2>2. (CHOOSE q \in rows : q.event.n = n) \in rows BY <2>1
    <2>3. (CHOOSE q \in rows : q.event.n = n) \in Rows BY <2>2 DEF InboxInv, InboxTypeOK
    <2> QED BY <2>3 DEF At, Rows, MeetingEvents
<1>5. rows \subseteq all /\ \A r1, r2 \in all : r1.event.n = r2.event.n => r1 = r2
    BY DEF InboxInv, RowsAreUnique
<1> HIDE DEF last, text, all
<1>6. Len(text) = last - 2 BY <1>1, <1>2, <1>3
<1>7. \A n \in 1 .. last : n \in Numbers(all) /\ At(all, n) = At(rows, n)
    <2>1. \A n \in Numbers(rows) : n \in Numbers(all) /\ At(all, n) = At(rows, n)
        BY <1>5, SameEvents
    <2> QED BY <1>2, <2>1
<1>8. \A i \in 1 .. last - 2 : i + 1 \in 1 .. last /\ text[i] = At(rows, i + 1).body
    BY <1>1, <1>3
<1>9. /\ last \in Nat
      /\ 1 .. last \subseteq Numbers(all)
      /\ \A n \in 1 .. last :
            At(all, n).kind = IF n = 1 THEN "STARTED" ELSE IF n = last THEN "STOPPED" ELSE "TRANSCRIPT"
      /\ \A i \in 1 .. last - 2 : text[i] = At(all, i + 1).body
    BY <1>1, <1>2, <1>4, <1>7, <1>8
<1>10. Len(text) + 2 = last BY <1>1, <1>6
<1>11. Source(b, text).binding = b /\ Source(b, text).transcript = text BY DEF Source
<1>12. SourceOK(events, Source(b, text)) BY <1>9, <1>10, <1>11 DEF SourceOK, all
<1> QED BY <1>12 DEF text

\* A draft is ready together with its source.
LEMMA HandoffKeeps ==
    ASSUME NEW ev, NEW rc, NEW ss, NEW so, NEW c, ProcessOK(ev, rc, ss, so, c),
           NEW s \in DOMAIN ss, ss[s].state = "LIVE",
           NEW r, r = [ss[s] EXCEPT !.state = "DRAFT_READY"],
           NEW source, source.binding = BindingOf(s, ss[s]), SourceOK(ev, source)
    PROVE  ProcessOK(ev, rc, Put(ss, s, r), Put(so, s, source), Idle)
<1> DEFINE st == Put(ss, s, r)
           sr == Put(so, s, source)
<1>1. DOMAIN st = DOMAIN ss /\ st[s] = r /\ \A t \in DOMAIN ss : t # s => st[t] = ss[t]
    BY DEF Put
<1>2. DOMAIN sr = DOMAIN so \cup {s} /\ sr[s] = source /\ \A t \in DOMAIN so : t # s => sr[t] = so[t]
    BY DEF Put
<1> HIDE DEF st, sr
<1>3. SessionOK(ev, rc, s, ss[s]) BY DEF ProcessOK
<1>4. r \in SessionRecords /\ r.state = "DRAFT_READY" /\ r.consented = ss[s].consented
      /\ r.started = ss[s].started /\ r.script = ss[s].script
    BY <1>3 DEF SessionOK, SessionRecords
<1>5. BindingOf(s, r) = BindingOf(s, ss[s]) BY <1>4 DEF BindingOf
<1>6. SessionOK(ev, rc, s, r) BY <1>3, <1>4, <1>5 DEF SessionOK, Delivered
<1>7. \A t \in DOMAIN st : SessionOK(ev, rc, t, st[t]) BY <1>1, <1>6 DEF ProcessOK
<1>8. SourcesOK(st, sr) BY <1>1, <1>2, <1>4, <1>5 DEF ProcessOK, SourcesOK
<1>9. \A t \in DOMAIN sr : SourceOK(ev, sr[t]) BY <1>2 DEF ProcessOK
<1>10. CallOK(ev, rc, Idle, st) BY DEF CallOK
<1> QED BY <1>7, <1>8, <1>9, <1>10 DEF ProcessOK, st, sr

\* A sealed stream becomes the source of its session.
LEMMA SealStep == ASSUME MeetingInv, NEW p \in Processes, SealAndHandOff(p) PROVE MeetingInv'
<1> DEFINE s == call[p].s
           b == Binding(p, s)
           source == Source(b, Transcript(call[p].rows))
           r == [sessions[p][s] EXCEPT !.state = "DRAFT_READY"]
<1>1. call[p] # Idle /\ call[p].step = "seal" BY DEF SealAndHandOff, Idle, Called
<1>2. call[p] \in Calls(events, sessions[p]) /\ s \in DOMAIN sessions[p]
      /\ b = BindingOf(s, sessions[p][s])
      /\ (call[p].op = "START" => call[p].step \in {"clock", "append"})
      /\ (call[p].op = "DRAFT" => sessions[p][s].state = "LIVE")
    BY <1>1, DuringCall
<1>3. sessions[p][s].state = "LIVE" BY <1>1, <1>2 DEF Calls
<1>4. \A row \in call[p].rows : row.binding = b BY <1>1, DuringCall
<1>5. ProcessOK(events, receipts, sessions[p], sources[p], call[p]) BY DEF MeetingInv
<1>6. UNCHANGED <<streams, events, receipts>> /\ now' = now /\ call' = [call EXCEPT ![p] = Idle]
    BY DEF SealAndHandOff, Release, inbox
<1>7. CASE UNCHANGED <<sources, sessions>>
    <2>1. CallOK(events, receipts, Idle, sessions[p]) BY DEF CallOK
    <2> QED BY <1>6, <1>7, <2>1, CallMoves
<1>8. CASE /\ Sealable(b, call[p].rows, call[p].deliveries, call[p].at)
           /\ sources' = [sources EXCEPT ![p] = IF s \in DOMAIN @ THEN @ ELSE Put(@, s, source)]
           /\ Remember(p, s, r)
    <2>1. s \notin DOMAIN sources[p] BY <1>3, <1>5 DEF ProcessOK, SourcesOK
    <2>2. sources' = [sources EXCEPT ![p] = Put(sources[p], s, source)] BY <1>8, <2>1
    <2>3. sessions' = [sessions EXCEPT ![p] = Put(sessions[p], s, r)] BY <1>8 DEF Remember
    <2>4. SourceOK(events, source)
        BY <1>2, <1>4, <1>8, SealedIsTheStream DEF MeetingInv, Calls, Sealable
    <2>5. source.binding = BindingOf(s, sessions[p][s]) BY <1>2 DEF Source
    <2>6. r = [sessions[p][s] EXCEPT !.state = "DRAFT_READY"] OBVIOUS
    <2> HIDE DEF source, r
    <2>7. ProcessOK(events, receipts, Put(sessions[p], s, r), Put(sources[p], s, source), Idle)
        BY <1>2, <1>3, <1>5, <2>4, <2>5, <2>6, HandoffKeeps
    <2>8. now' \in Times BY <1>6 DEF MeetingInv
    <2> QED BY <1>6, <2>2, <2>3, <2>7, <2>8, OneMoves
<1> QED BY <1>7, <1>8 DEF SealAndHandOff

\* What an attempt delivers next.
LEMMA AttemptIs ==
    ASSUME MeetingInv, NEW p \in Processes, call[p] # Idle
    PROVE  LET c == call[p]
               r == sessions[p][c.s]
           IN /\ Attempt(p)[c.i] \in MeetingEvents
              /\ c.op = "START" => /\ Attempt(p)[c.i] = Stamped(r.script.initial[c.i], r.started)
                                   /\ Len(Attempt(p)) = Len(r.script.initial)
              /\ c.op = "DRAFT" => Len(Attempt(p)) = Len(r.script.draft)
<1> DEFINE c == call[p]
           r == sessions[p][c.s]
<1>1. /\ SessionOK(events, receipts, c.s, r) /\ r.script # None
      /\ c \in Calls(events, sessions[p])
      /\ (c.op = "START" => c.i \in 1 .. Len(r.script.initial))
      /\ (c.op = "DRAFT" => r.drafted \in Times /\ c.i \in 1 .. Len(r.script.draft))
    BY DuringCall
<1>2. /\ r.started \in Times
      /\ r.script.initial \in Seq(ScriptEvents) /\ r.script.draft \in Seq(ScriptEvents)
    BY <1>1, StreamOfSession
<1>3. c.op \in {"START", "DRAFT"} BY <1>1 DEF Calls
<1>4. ASSUME NEW x \in ScriptEvents, NEW at \in Times PROVE Stamped(x, at) \in MeetingEvents
    BY <1>4 DEF Stamped, ScriptEvents, MeetingEvents
<1>5. CASE c.op = "START"
    <2>1. Attempt(p) = [i \in DOMAIN r.script.initial |-> Stamped(r.script.initial[i], r.started)]
        BY <1>5 DEF Attempt
    <2> HIDE DEF c, r
    <2>2. c.i \in DOMAIN r.script.initial /\ r.script.initial[c.i] \in ScriptEvents
          /\ DOMAIN r.script.initial = 1 .. Len(r.script.initial) /\ Len(r.script.initial) \in Nat
        BY <1>1, <1>2, <1>5
    <2>3. Attempt(p)[c.i] = Stamped(r.script.initial[c.i], r.started) /\ Len(Attempt(p)) = Len(r.script.initial)
        BY <2>1, <2>2
    <2> QED BY <1>2, <1>4, <1>5, <2>2, <2>3 DEF c, r
<1>6. CASE c.op = "DRAFT"
    <2>1. Attempt(p) = [i \in DOMAIN r.script.draft |-> Stamped(r.script.draft[i], r.drafted)]
        BY <1>6 DEF Attempt
    <2> HIDE DEF c, r
    <2>2. c.i \in DOMAIN r.script.draft /\ r.script.draft[c.i] \in ScriptEvents
          /\ DOMAIN r.script.draft = 1 .. Len(r.script.draft) /\ Len(r.script.draft) \in Nat
        BY <1>1, <1>2, <1>6
    <2>3. Attempt(p)[c.i] = Stamped(r.script.draft[c.i], r.drafted) /\ Len(Attempt(p)) = Len(r.script.draft)
        BY <2>1, <2>2
    <2> QED BY <1>1, <1>4, <1>6, <2>2, <2>3 DEF c, r
<1> QED BY <1>3, <1>5, <1>6

\* The inbox grows by one delivery, and one process moves.
LEMMA DeliveryMoves ==
    ASSUME MeetingInv, NEW p \in Processes, InboxInv', events \subseteq events',
           \A k \in DOMAIN receipts : k \in DOMAIN receipts' /\ receipts'[k] = receipts[k],
           \A row \in events' \ events : Begun(receipts', row.binding),
           now' = now, sources' = sources,
           NEW ss, (sessions' = [sessions EXCEPT ![p] = ss]) \/ (sessions' = sessions /\ ss = sessions[p]),
           NEW c, call' = [call EXCEPT ![p] = c],
           ProcessOK(events', receipts', sessions[p], sources[p], call[p])
               => ProcessOK(events', receipts', ss, sources[p], c)
    PROVE  MeetingInv'
<1>1. \A r1, r2 \in events' : r1.binding = r2.binding /\ r1.event.n = r2.event.n => r1 = r2
    BY DEF InboxInv, RowsAreUnique
<1>2. ASSUME NEW q \in Processes
      PROVE  ProcessOK(events', receipts', sessions[q], sources[q], call[q])
    <2>1. ProcessOK(events, receipts, sessions[q], sources[q], call[q]) BY DEF MeetingInv
    <2> QED BY <1>1, <2>1, GrowthKeeps
<1>3. ASSUME NEW q \in Processes
      PROVE  ProcessOK(events', receipts', sessions'[q], sources'[q], call'[q])
    <2>1. CASE q = p
        <3>1. ProcessOK(events', receipts', ss, sources[p], c) BY <1>2
        <3>2. sessions'[p] = ss /\ call'[p] = c BY DEF MeetingInv
        <3> QED BY <2>1, <3>1, <3>2
    <2>2. CASE q # p
        <3>1. sessions'[q] = sessions[q] /\ call'[q] = call[q] BY <2>2 DEF MeetingInv
        <3> QED BY <1>2, <3>1
    <2> QED BY <2>1, <2>2
<1>4. \A row \in events' : Begun(receipts', row.binding)
    <2>1. \A b : Begun(receipts, b) => Begun(receipts', b) BY DEF Begun
    <2>2. \A row \in events : Begun(receipts, row.binding) BY DEF MeetingInv
    <2> QED BY <2>1, <2>2
<1>5. DOMAIN sessions' = Processes /\ DOMAIN sources' = Processes /\ DOMAIN call' = Processes
    BY DEF MeetingInv
<1>6. now' \in Times BY DEF MeetingInv
<1> QED BY <1>3, <1>4, <1>5, <1>6 DEF MeetingInv

\* A delivery: the next event of the attempt is in, or the call ends.
LEMMA AppendStep == ASSUME MeetingInv, NEW p \in Processes, AppendNext(p) PROVE MeetingInv'
<1> DEFINE c == call[p]
           r == sessions[p][c.s]
           b == Binding(p, c.s)
           k == IngressKey(p)
           e == Attempt(p)[c.i]
           outcome == Outcome(k, b, e, c.at)
           more == [c EXCEPT !.step = "clock", !.i = @ + 1]
           done == [c EXCEPT !.step = "finalize"]
           live == [r EXCEPT !.state = "LIVE"]
<1>1. c # Idle /\ c.step = "append" BY DEF AppendNext, Idle, Called
<1>2. /\ c \in Calls(events, sessions[p]) /\ c.s \in DOMAIN sessions[p]
      /\ SessionOK(events, receipts, c.s, r) /\ r.script # None
      /\ b = BindingOf(c.s, r) /\ b \in Bindings
      /\ (c.op = "START" => /\ r.state = "READY" /\ c.i \in 1 .. Len(r.script.initial)
                            /\ Delivered(events, receipts, c.s, r, c.i - 1))
      /\ (c.op = "DRAFT" => /\ r.state = "LIVE" /\ r.drafted \in Times
                            /\ c.i \in 1 .. Len(r.script.draft))
      /\ \A row \in c.rows : row.binding = b
    BY <1>1, DuringCall
<1>3. /\ e \in MeetingEvents
      /\ (c.op = "START" => /\ e = Stamped(r.script.initial[c.i], r.started)
                            /\ Len(Attempt(p)) = Len(r.script.initial))
      /\ (c.op = "DRAFT" => Len(Attempt(p)) = Len(r.script.draft))
    BY <1>1, AttemptIs
<1>4. /\ AppendEvent(k, b, e, c.at, outcome)
      /\ \/ ~Succeeds(outcome) /\ Release(p) /\ UNCHANGED sessions
         \/ Succeeds(outcome) /\ c.i < Len(Attempt(p)) /\ Goto(p, more) /\ UNCHANGED sessions
         \/ /\ Succeeds(outcome) /\ ~(c.i < Len(Attempt(p))) /\ c.op = "START"
            /\ Release(p) /\ Remember(p, c.s, live)
         \/ /\ Succeeds(outcome) /\ ~(c.i < Len(Attempt(p))) /\ c.op # "START"
            /\ Goto(p, done) /\ UNCHANGED sessions
      /\ UNCHANGED <<now, sources>>
    BY DEF AppendNext
<1> HIDE DEF e, outcome
<1>5. c.at \in Times /\ c.i \in Nat /\ c.op \in {"START", "DRAFT"} /\ c.rows \subseteq events BY <1>2 DEF Calls
<1>6. k = <<c.s, c.op, c.i>> /\ b.session = c.s BY <1>2, StreamOfSession DEF IngressKey
<1>7. InboxInv BY DEF MeetingInv
<1> HIDE DEF b, k, c
<1>8. /\ InboxInv'
      /\ events \subseteq events'
      /\ \A q \in DOMAIN receipts : q \in DOMAIN receipts' /\ receipts'[q] = receipts[q]
      /\ \A x \in events' \ events : x.binding = b /\ Succeeds(outcome)
      /\ (Succeeds(outcome) =>
            /\ \E x \in events' : x.binding = b /\ x.event = e
            /\ k \in DOMAIN receipts' /\ receipts'[k].binding = b)
    <2>1. AppendEvent(k, b, e, c.at, outcome) BY <1>4
    <2>2. b \in Bindings BY <1>2
    <2>3. e \in MeetingEvents BY <1>3
    <2>4. c.at \in Times BY <1>5
    <2> HIDE <1>2, <1>3, <1>4, <1>5
    <2> QED BY <1>7, <2>1, <2>2, <2>3, <2>4, AppendKeeps
<1>9. r.script.initial # <<>> /\ Len(r.script.initial) \in Nat /\ Len(r.script.initial) >= 1
      /\ Len(r.script.draft) \in Nat
    BY <1>2, StreamOfSession
\* The stream has begun when the event is in.
<1>10. Succeeds(outcome) => Begun(receipts', b)
    <2> SUFFICES ASSUME Succeeds(outcome) PROVE Begun(receipts', b) OBVIOUS
    <2>1. \A d : Begun(receipts, d) => Begun(receipts', d) BY <1>8 DEF Begun
    <2>2. CASE c.op = "START" /\ c.i = 1 BY <1>6, <1>8, <2>2 DEF Begun
    <2>3. CASE c.op = "START" /\ c.i # 1
        <3>1. c.i - 1 > 0 BY <1>2, <1>5, <2>3
        <3>2. Begun(receipts, b) BY <1>2, <2>3, <3>1 DEF Delivered
        <3> QED BY <2>1, <3>2
    <2>4. CASE c.op = "DRAFT"
        <3>1. Delivered(events, receipts, c.s, r, Len(r.script.initial)) BY <1>2, <2>4 DEF SessionOK
        <3>2. Begun(receipts, b) BY <1>2, <1>9, <3>1 DEF Delivered
        <3> QED BY <2>1, <3>2
    <2> QED BY <1>5, <2>2, <2>3, <2>4
<1>11. \A x \in events' \ events : Begun(receipts', x.binding) BY <1>8, <1>10
\* One more event of the start is in.
<1>12. Succeeds(outcome) /\ c.op = "START" => Delivered(events', receipts', c.s, r, c.i)
    <2> SUFFICES ASSUME Succeeds(outcome), c.op = "START"
                 PROVE  Delivered(events', receipts', c.s, r, c.i)
        OBVIOUS
    <2>1. ASSUME NEW i \in 1 .. c.i
          PROVE  \E x \in events' : x.binding = b /\ x.event = Stamped(r.script.initial[i], r.started)
        <3>1. CASE i = c.i BY <1>3, <1>8, <3>1
        <3>2. CASE i # c.i
            <4>1. i \in 1 .. c.i - 1 BY <1>5, <3>2
            <4> QED BY <1>2, <1>8, <4>1 DEF Delivered
        <3> QED BY <3>1, <3>2
    <2> QED BY <1>2, <1>10, <2>1 DEF Delivered
<1> DEFINE Kept(ss, d) ==
        ProcessOK(events', receipts', sessions[p], sources[p], c)
            => ProcessOK(events', receipts', ss, sources[p], d)
<1>13. /\ c = call[p] /\ now' = now /\ sources' = sources BY <1>4 DEF c
<1>14. ASSUME NEW ss, (sessions' = [sessions EXCEPT ![p] = ss]) \/ (sessions' = sessions /\ ss = sessions[p]),
              NEW d, call' = [call EXCEPT ![p] = d], Kept(ss, d)
       PROVE  MeetingInv'
    <2> HIDE <1>2, <1>3, <1>4
    <2> QED BY <1>8, <1>11, <1>13, <1>14, DeliveryMoves
\* The call goes on, or ends.
<1>15. ASSUME NEW d, call' = [call EXCEPT ![p] = d], sessions' = sessions,
              CallOK(events', receipts', d, sessions[p])
       PROVE  MeetingInv'
    <2>1. Kept(sessions[p], d) BY <1>15, CallKeeps
    <2> HIDE DEF Kept
    <2> QED BY <1>14, <1>15, <2>1
<1>16. CASE ~Succeeds(outcome) /\ Release(p) /\ UNCHANGED sessions
    <2>1. CallOK(events', receipts', Idle, sessions[p]) BY DEF CallOK
    <2> QED BY <1>15, <1>16, <2>1 DEF Release
<1>17. c.rows \in SUBSET events' BY <1>5, <1>8
<1>18. CASE Succeeds(outcome) /\ c.i < Len(Attempt(p)) /\ Goto(p, more) /\ UNCHANGED sessions
    <2>1. more \in Calls(events', sessions[p]) /\ more.op = c.op /\ more.s = c.s /\ more.i = c.i + 1
          /\ more.rows = c.rows /\ more.step = "clock"
        <3>1. c \in Calls(events', sessions[p]) BY <1>2, <1>17 DEF Calls
        <3>2. c.i + 1 \in Nat BY <1>5
        <3> DEFINE n == c.i + 1
                   half == [c EXCEPT !.step = "clock"]
        <3>3. half \in Calls(events', sessions[p]) /\ half.step = "clock" /\ half.op = c.op
              /\ half.s = c.s /\ half.rows = c.rows
            BY <3>1 DEF Calls
        <3>4. more = [half EXCEPT !.i = n] OBVIOUS
        <3> HIDE DEF more, half, n
        <3>5. n \in Nat BY <3>2 DEF n
        <3>6. more \in Calls(events', sessions[p]) /\ more.op = half.op /\ more.s = half.s
              /\ more.rows = half.rows /\ more.i = n /\ more.step = half.step
            BY <3>3, <3>4, <3>5 DEF Calls
        <3> QED BY <3>3, <3>6 DEF n
    <2>2. call' = [call EXCEPT ![p] = more] BY <1>18 DEF Goto
    <2> HIDE DEF more, r
    <2>3. CASE c.op = "START"
        <3>1. c.i + 1 \in 1 .. Len(r.script.initial) /\ c.i + 1 - 1 = c.i
            BY <1>3, <1>5, <1>9, <1>18, <2>3
        <3>2. Delivered(events', receipts', c.s, r, c.i) BY <1>12, <1>18, <2>3
        <3>3. CallOK(events', receipts', more, sessions[p]) BY <1>2, <2>1, <2>3, <3>1, <3>2 DEF CallOK, r
        <3> QED BY <1>15, <1>18, <2>2, <3>3
    <2>4. CASE c.op = "DRAFT"
        <3>1. c.i + 1 \in 1 .. Len(r.script.draft) BY <1>3, <1>5, <1>9, <1>18, <2>4
        <3>2. CallOK(events', receipts', more, sessions[p]) BY <1>2, <2>1, <2>4, <3>1 DEF CallOK, r
        <3> QED BY <1>15, <1>18, <2>2, <3>2
    <2> QED BY <1>5, <2>3, <2>4
<1>19. CASE /\ Succeeds(outcome) /\ ~(c.i < Len(Attempt(p))) /\ c.op # "START"
            /\ Goto(p, done) /\ UNCHANGED sessions
    <2>1. done \in Calls(events', sessions[p]) /\ done.op = c.op /\ done.s = c.s /\ done.i = c.i
          /\ done.rows = c.rows /\ c.op = "DRAFT"
        BY <1>2, <1>5, <1>17, <1>19 DEF Calls, Finalizing
    <2>2. call' = [call EXCEPT ![p] = done] BY <1>19 DEF Goto
    <2> HIDE DEF done
    <2>3. CallOK(events', receipts', done, sessions[p]) BY <1>2, <2>1 DEF CallOK
    <2> QED BY <1>15, <1>19, <2>2, <2>3
<1>20. CASE /\ Succeeds(outcome) /\ ~(c.i < Len(Attempt(p))) /\ c.op = "START"
            /\ Release(p) /\ Remember(p, c.s, live)
    <2>1. c.i = Len(r.script.initial) BY <1>2, <1>3, <1>5, <1>9, <1>20
    <2>2. Delivered(events', receipts', c.s, r, Len(r.script.initial)) BY <1>12, <1>20, <2>1
    <2>3. live \in SessionRecords /\ live.state = "LIVE" /\ live.consented = r.consented
          /\ live.started = r.started /\ live.script = r.script
        BY <1>2 DEF SessionOK, SessionRecords
    <2>4. sessions' = [sessions EXCEPT ![p] = Put(sessions[p], c.s, live)] BY <1>20 DEF Remember
    <2>5. call' = [call EXCEPT ![p] = Idle] BY <1>20 DEF Release
    <2> HIDE DEF live
    <2>6. SessionOK(events', receipts', c.s, live)
        <3>1. BindingOf(c.s, live) = BindingOf(c.s, r) BY <2>3 DEF BindingOf
        <3>2. Delivered(events', receipts', c.s, live, Len(r.script.initial)) BY <2>2, <2>3, <3>1 DEF Delivered
        <3>3. c.s \in Sessions /\ r.consented \in Times /\ r.started \in Times
            BY <1>2, <1>20 DEF SessionOK
        <3> QED BY <1>2, <2>3, <3>2, <3>3 DEF SessionOK
    <2>7. CallOK(events', receipts', Idle, Put(sessions[p], c.s, live)) BY DEF CallOK
    <2>8. r.state # "DRAFT_READY" BY <1>2, <1>20
    <2>9. Kept(Put(sessions[p], c.s, live), Idle) BY <2>3, <2>6, <2>7, <2>8, RememberKeeps
    <2> HIDE DEF Kept
    <2> QED BY <1>14, <2>4, <2>5, <2>9
<1> QED BY <1>4, <1>16, <1>18, <1>19, <1>20

\* Every process starts with nothing.
LEMMA MeetingStarts == ASSUME Init PROVE MeetingInv
<1>1. InboxInv /\ events = {} BY InboxStarts DEF Init, InboxInit
<1>2. ASSUME NEW p \in Processes
      PROVE  ProcessOK(events, receipts, sessions[p], sources[p], call[p])
    <2>1. sessions[p] = EmptyDict /\ sources[p] = EmptyDict /\ call[p] = Idle BY DEF Init
    <2>2. DOMAIN EmptyDict = {} BY DEF EmptyDict
    <2> QED BY <2>1, <2>2 DEF ProcessOK, SourcesOK, CallOK
<1>3. now \in Times BY SessionAssumption DEF Init, Times
<1>4. DOMAIN sessions = Processes /\ DOMAIN sources = Processes /\ DOMAIN call = Processes BY DEF Init
<1> QED BY <1>1, <1>2, <1>3, <1>4 DEF MeetingInv

\* Every step of a process keeps the inbox and what each process rests on it.
LEMMA MeetingStep == ASSUME MeetingInv, [Next]_vars PROVE MeetingInv'
<1>1. ASSUME NEW p \in Processes, Step(p) PROVE MeetingInv'
    BY <1>1, ReadClockStep, AppendStep, FinalizeStep, HistoryStep, SealStep DEF Step
<1>2. ASSUME NEW p \in Processes, NEW s \in Sessions,
             Create(p, s) \/ RecordConsent(p, s) \/ Start(p, s) \/ DraftNow(p, s)
      PROVE  MeetingInv'
    BY <1>2, CreateStep, ConsentStep, StartStep, DraftNowStep
<1>3. CASE UNCHANGED vars
    <2>1. UNCHANGED <<streams, events, receipts>> /\ now' = now /\ UNCHANGED <<sessions, sources, call>>
        BY <1>3 DEF vars
    <2> QED BY <2>1, InboxStays DEF MeetingInv
<1> QED BY <1>1, <1>2, <1>3, TickStep DEF Next

-----------------------------------------------------------------------------
\* Of a meeting: its session is one stream, its source is text of that stream,
\* what is shown is durable, and every stream can be recovered within its
\* limits.
THEOREM MeetingStaysDurable == Spec => []MeetingIsDurable
<1>1. ASSUME MeetingInv PROVE OneStreamPerSession
    BY <1>1 DEF MeetingInv, Begun, OneStreamPerSession
<1>2. ASSUME MeetingInv PROVE SourceIsTheStream
    <2> SUFFICES ASSUME NEW p \in Processes, NEW s \in DOMAIN sources[p]
                 PROVE  SourceOK(events, sources[p][s])
        BY DEF SourceIsTheStream, SourceOK, RowsOf
    <2> QED BY <1>2 DEF MeetingInv, ProcessOK
<1>3. ASSUME MeetingInv PROVE ShownIsDurable
    <2> SUFFICES ASSUME NEW p \in Processes, NEW s \in DOMAIN sessions[p]
                 PROVE  LET r == sessions[p][s] IN
                        /\ r.state \in {"LIVE", "DRAFT_READY"} =>
                              \A i \in DOMAIN r.script.initial :
                                 \E row \in RowsOf(Binding(p, s)) :
                                    row.event.id = r.script.initial[i].id /\ row.event.at = r.started
                        /\ r.state = "DRAFT_READY" =>
                              s \in DOMAIN sources[p] /\ sources[p][s].binding = Binding(p, s)
        BY DEF ShownIsDurable
    <2> DEFINE r == sessions[p][s]
    <2>1. ProcessOK(events, receipts, sessions[p], sources[p], call[p]) BY <1>3 DEF MeetingInv
    <2>2. SessionOK(events, receipts, s, r) /\ SourcesOK(sessions[p], sources[p]) BY <2>1 DEF ProcessOK
    <2>3. Binding(p, s) = BindingOf(s, r) BY DEF Binding, BindingOf
    <2>4. ASSUME r.state \in {"LIVE", "DRAFT_READY"}, NEW i \in DOMAIN r.script.initial
          PROVE  \E row \in RowsOf(Binding(p, s)) :
                    row.event.id = r.script.initial[i].id /\ row.event.at = r.started
        <3>1. r.script # None /\ Delivered(events, receipts, s, r, Len(r.script.initial))
            BY <2>2, <2>4 DEF SessionOK
        <3>2. i \in 1 .. Len(r.script.initial) BY <2>2, <2>4, <3>1, StreamOfSession
        <3>3. PICK row \in events : /\ row.binding = BindingOf(s, r)
                                    /\ row.event = Stamped(r.script.initial[i], r.started)
            BY <3>1, <3>2 DEF Delivered
        <3> QED BY <2>3, <3>3 DEF RowsOf, Stamped
    <2>5. r.state = "DRAFT_READY" => s \in DOMAIN sources[p] /\ sources[p][s].binding = Binding(p, s)
        BY <2>2, <2>3 DEF SourcesOK
    <2> QED BY <2>4, <2>5
<1>4. ASSUME MeetingInv PROVE HistoryIsWhole
    <2> SUFFICES ASSUME NEW j \in DOMAIN streams
                 PROVE  /\ HistoryMatches(streams[j].binding, RowsOf(streams[j].binding))
                        /\ Deliveries(streams[j].binding, RowsOf(streams[j].binding)) <= streams[j].binding.limit
                        /\ Characters(streams[j].binding) <= MaxCharacters
        BY <1>4 DEF HistoryIsWhole, MeetingInv, InboxInv
    <2> DEFINE b == streams[j].binding
    <2>1. InboxInv /\ b \in Bindings BY <1>4 DEF MeetingInv, InboxInv, InboxTypeOK
    <2> HIDE DEF b
    <2>2. \A k \in ReceiptsOf(b) : \E r \in RowsOf(b) : receipts[k].input = Input(b, r.event)
        BY <2>1 DEF InboxInv, ReceiptsHaveRows, ReceiptsOf, RowsOf, IsFor
    <2>3. ASSUME NEW r \in RowsOf(b) PROVE Cardinality(For(b, r, "ACCEPTED")) = 1
        <3>1. r \in events /\ r.binding = b BY DEF RowsOf
        <3>2. For(b, r, "ACCEPTED") = Accepting(r) BY <3>1 DEF For, ReceiptsOf, Accepting, IsFor
        <3>3. PICK k : Accepting(r) = {k} BY <2>1, <3>1 DEF InboxInv, AcceptedOnce
        <3> QED BY <3>2, <3>3, FS_Singleton
    <2>4. UNION {For(b, r, "EXACT_DUPLICATE") : r \in RowsOf(b)} = Duplicates(b)
        <3>1. \A r \in RowsOf(b) : For(b, r, "EXACT_DUPLICATE") \subseteq Duplicates(b)
            BY DEF For, Duplicates
        <3>2. \A k \in Duplicates(b) : \E r \in RowsOf(b) : k \in For(b, r, "EXACT_DUPLICATE")
            BY <2>2 DEF For, Duplicates
        <3> QED BY <3>1, <3>2
    <2>5. Deliveries(b, RowsOf(b)) <= b.limit /\ Characters(b) <= MaxCharacters
        BY <2>1, <2>4 DEF Deliveries, InboxInv, WithinLimits
    <2>6. HistoryMatches(b, RowsOf(b)) BY <2>2, <2>3 DEF HistoryMatches
    <2> QED BY <2>5, <2>6 DEF b
<1>5. MeetingInv => MeetingIsDurable BY <1>1, <1>2, <1>3, <1>4 DEF MeetingIsDurable
<1> QED BY <1>5, MeetingStarts, MeetingStep, PTL DEF Spec

-----------------------------------------------------------------------------
\* When the receipts match the rows that were read, the rows are the stream:
\* every row has the receipt that accepted it.
LEMMA MatchedIsWhole ==
    ASSUME InboxInv, NEW b, NEW rows, rows \subseteq events, \A row \in rows : row.binding = b,
           HistoryMatches(b, rows)
    PROVE  rows = RowsOf(b)
<1>1. rows \subseteq RowsOf(b) BY DEF RowsOf
<1>2. ASSUME NEW r \in RowsOf(b) PROVE r \in rows
    <2>1. r \in events /\ r.binding = b BY DEF RowsOf
    <2>2. PICK k : Accepting(r) = {k} BY <2>1 DEF InboxInv, AcceptedOnce
    <2>3. k \in ReceiptsOf(b) /\ receipts[k].input = Input(b, r.event)
        BY <2>1, <2>2 DEF Accepting, IsFor, ReceiptsOf
    <2>4. PICK q \in rows : receipts[k].input = Input(b, q.event) BY <2>3 DEF HistoryMatches
    <2>5. q \in events /\ q.binding = b /\ q.event = r.event BY <2>3, <2>4 DEF Input
    <2>6. q = r BY <2>1, <2>5 DEF InboxInv, RowsAreUnique
    <2> QED BY <2>4, <2>6
<1> QED BY <1>1, <1>2

\* A step of another process, or of another kind, does not leave the history.
LEMMA OnlyHistoryMatches ==
    ASSUME MeetingInv, [Next]_vars, NEW p \in Processes,
           call[p].step = "history", call'[p].step = "payloads"
    PROVE  ReadHistory(p)
<1> DEFINE Elsewhere(q) == q # p /\ \E d : call' = [call EXCEPT ![q] = d]
<1>1. DOMAIN call = Processes /\ call'[p] # call[p] BY DEF MeetingInv
<1>2. ASSUME NEW q, Elsewhere(q) PROVE FALSE BY <1>1, <1>2
<1>3. ASSUME NEW q \in Processes, NEW s \in Sessions,
             Create(q, s) \/ RecordConsent(q, s) \/ Start(q, s) \/ DraftNow(q, s)
      PROVE  FALSE
    <2>1. call[q].step = "idle" BY <1>3 DEF Create, RecordConsent, Start, DraftNow, Free, Idle, Called
    <2>2. q # p BY <2>1
    <2>3. call' = call \/ \E d : call' = [call EXCEPT ![q] = d]
        BY <1>3 DEF Create, RecordConsent, Start, DraftNow, Begin
    <2> QED BY <1>1, <1>2, <2>2, <2>3
<1>4. ASSUME NEW q \in Processes, Step(q) PROVE q = p /\ ReadHistory(p)
    <2>1. \E d : call' = [call EXCEPT ![q] = d]
        <3>1. CASE ReadClock(q) BY <3>1 DEF ReadClock, Goto, Release
        <3>2. CASE AppendNext(q) BY <3>2 DEF AppendNext, Goto, Release
        <3>3. CASE Finalize(q) \/ Retain(q) \/ ReadMarker(q) \/ ReadRows(q)
            BY <3>3 DEF Finalize, Retain, ReadMarker, ReadRows, Goto, Release
        <3>4. CASE ReadHistory(q) \/ ReadPayloads(q) \/ SealAndHandOff(q)
            BY <3>4 DEF ReadHistory, ReadPayloads, SealAndHandOff, Goto, Release
        <3> QED BY <1>4, <3>1, <3>2, <3>3, <3>4 DEF Step
    <2>2. q = p BY <1>2, <2>1
    <2> QED BY <1>4, <2>2 DEF Step, ReadClock, AppendNext, Finalize, Retain, ReadMarker, ReadRows,
                              ReadPayloads, SealAndHandOff
<1>5. CASE Tick BY <1>1, <1>5 DEF Tick
<1>6. CASE UNCHANGED vars BY <1>1, <1>6 DEF vars
<1> QED BY <1>3, <1>4, <1>5, <1>6 DEF Next

\* An append leaves a marked stream alone.
LEMMA MarkedStays ==
    ASSUME NEW k, NEW d, NEW e, NEW at, NEW outcome, AppendEvent(k, d, e, at, outcome),
           NEW b \in DOMAIN taints
    PROVE  /\ b \in DOMAIN taints' /\ taints'[b] = taints[b]
           /\ RowsOf(b)' = RowsOf(b) /\ ReceiptsOf(b)' = ReceiptsOf(b)
<1>1. \A x, kind : b \in DOMAIN Tainted(x, kind) /\ Tainted(x, kind)[b] = taints[b]
    BY DEF Tainted, Put
<1>2. b \in DOMAIN taints' /\ taints'[b] = taints[b] BY <1>1 DEF AppendEvent
<1>3. CASE outcome \in {"ACCEPTED", "EXACT_DUPLICATE"}
    <2>1. d # b /\ k \notin DOMAIN receipts BY <1>3, AppendIsAllowed
    <2>2. receipts' = Put(receipts, k, Receipt(d, e, outcome))
          /\ (events' = events \/ events' = events \cup {Row(d, e, at)})
        BY <1>3 DEF AppendEvent
    <2>3. ReceiptsOf(b)' = ReceiptsOf(b) BY <2>1, <2>2 DEF ReceiptsOf, Put, Receipt
    <2>4. RowsOf(b)' = RowsOf(b) BY <2>1, <2>2 DEF RowsOf, Row
    <2> QED BY <1>2, <2>3, <2>4
<1>4. CASE outcome \notin {"ACCEPTED", "EXACT_DUPLICATE"}
    <2>1. receipts' = receipts /\ events' = events BY <1>4 DEF AppendEvent
    <2> QED BY <1>2, <2>1 DEF RowsOf, ReceiptsOf
<1> QED BY <1>3, <1>4

\* Every other step leaves the rows, the receipts and the markers alone.
LEMMA OnlyAppends ==
    ASSUME [Next]_vars
    PROVE  \/ UNCHANGED <<events, receipts, taints>>
           \/ \E k, d, e, at, outcome : AppendEvent(k, d, e, at, outcome)
<1>1. ASSUME NEW p \in Processes, Step(p)
      PROVE  \/ UNCHANGED <<events, receipts, taints>>
             \/ \E k, d, e, at, outcome : AppendEvent(k, d, e, at, outcome)
    <2>1. CASE AppendNext(p) BY <2>1 DEF AppendNext
    <2>2. CASE ReadClock(p) \/ Retain(p) BY <2>2 DEF ReadClock, Retain, Purge, inbox
    <2>3. CASE Finalize(p) \/ ReadMarker(p) \/ ReadRows(p) \/ ReadHistory(p) \/ ReadPayloads(p)
               \/ SealAndHandOff(p)
        BY <2>3 DEF Finalize, ReadMarker, ReadRows, ReadHistory, ReadPayloads, SealAndHandOff, inbox
    <2> QED BY <1>1, <2>1, <2>2, <2>3 DEF Step
<1>2. ASSUME NEW p \in Processes, NEW s \in Sessions,
             Create(p, s) \/ RecordConsent(p, s) \/ Start(p, s) \/ DraftNow(p, s)
      PROVE  UNCHANGED <<events, receipts, taints>>
    BY <1>2 DEF Create, RecordConsent, Start, DraftNow, inbox
<1>3. CASE Tick BY <1>3 DEF Tick, inbox
<1>4. CASE UNCHANGED vars BY <1>4 DEF vars
<1> QED BY <1>1, <1>2, <1>3, <1>4 DEF Next

\* A recovery goes on only with the whole stream, and a marker is final.
THEOREM TaintStaysFinal == Spec => TaintHolds
<1>1. ASSUME MeetingInv, [Next]_vars, NEW p \in Processes,
             call[p].step = "history", call'[p].step = "payloads"
      PROVE  call[p].rows = RowsOf(Binding(p, call[p].s))
    <2>1. ReadHistory(p) BY <1>1, OnlyHistoryMatches
    <2>2. HistoryMatches(Binding(p, call[p].s), call[p].rows)
        <3>1. CASE ~HistoryMatches(Binding(p, call[p].s), call[p].rows)
            <4>1. call'[p].step = "idle" BY <1>1, <2>1, <3>1 DEF ReadHistory, Release, MeetingInv, Idle, Called
            <4> QED BY <1>1, <4>1
        <3> QED BY <3>1
    <2>3. call[p] # Idle BY <1>1 DEF Idle, Called
    <2>4. call[p].rows \subseteq events /\ \A row \in call[p].rows : row.binding = Binding(p, call[p].s)
        BY <1>1, <2>3, DuringCall DEF Calls
    <2>5. InboxInv BY <1>1 DEF MeetingInv
    <2> QED BY <2>2, <2>4, <2>5, MatchedIsWhole
<1>2. ASSUME [Next]_vars, NEW b \in DOMAIN taints
      PROVE  /\ b \in DOMAIN taints' /\ taints'[b] = taints[b]
             /\ RowsOf(b)' = RowsOf(b) /\ ReceiptsOf(b)' = ReceiptsOf(b)
    <2>1. CASE UNCHANGED <<events, receipts, taints>> BY <2>1 DEF RowsOf, ReceiptsOf
    <2>2. CASE \E k, d, e, at, outcome : AppendEvent(k, d, e, at, outcome) BY <2>2, MarkedStays
    <2> QED BY <1>2, <2>1, <2>2, OnlyAppends
<1>3. MeetingInv /\ [Next]_vars =>
        [\A p \in Processes :
            /\ call[p].step = "history"
            /\ call'[p].step = "payloads"
            => call[p].rows = RowsOf(Binding(p, call[p].s))]_vars
    BY <1>1
<1>4. [Next]_vars =>
        [\A b \in DOMAIN taints :
            /\ b \in DOMAIN taints' /\ taints'[b] = taints[b]
            /\ RowsOf(b)' = RowsOf(b)
            /\ ReceiptsOf(b)' = ReceiptsOf(b)]_vars
    BY <1>2
<1> QED BY <1>3, <1>4, MeetingStarts, MeetingStep, PTL DEF Spec, TaintHolds, TornReadIsRefused, TaintIsFinal
=============================================================================
