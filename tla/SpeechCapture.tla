---------------------------- MODULE SpeechCapture ----------------------------
(***************************************************************************)
(* Consent, the one clip a consent allows, its one-use permit, the         *)
(* transcription and the attachment of the redacted transcript             *)
(* (ProcessLocalSTTDemoRuntime, STTAudioPermitIssuer, STTAudioPermit,      *)
(* STTOperationExecutor, STTTranscriptHandoffService).                     *)
(*                                                                         *)
(* A capture is named by the digest of its consent, so by the key the      *)
(* consent was recorded with.  The lock of the runtime is held by the      *)
(* claim and by the end of a capture, not between them.                    *)
(***************************************************************************)
EXTENDS ProviderEgress

CONSTANTS
    SpeechThreads,
    ConsentKeys,   \* idempotency keys of consents
    Clips,         \* audio, with the key it was posted under
    MaxSessions,   \* bound on the consents recorded
    ConsentTtl,    \* life of a consent
    PermitTtl,     \* life of a permit
    MaxSpoken,     \* bound on the transcripts a POC can hold
    NoClip

ASSUME SpeechAssumption == PermitTtl \in Nat /\ ConsentTtl \in Nat /\ NoClip \notin Clips

VARIABLES
    draft,     \* archive state of the POC
    speech,    \* _sessions, by the key of their consent
    issuedPermits,    \* _issued of the permit issuer
    capture,   \* per thread, the step of its capture
    heard,     \* per consent, the clips that reached the transport
    spoken     \* the transcripts attached, with the consent they come from

speechVars == <<draft, speech, issuedPermits, capture, heard, spoken>>

Listening == [step |-> "idle"]

SpeechInit ==
    /\ draft = "ACTIVE"
    /\ speech = EmptyDict
    /\ issuedPermits = {}
    /\ capture = [t \in SpeechThreads |-> Listening]
    /\ heard = [k \in ConsentKeys |-> 0]
    /\ spoken = {}

CaptureAt(t, step) == capture[t].step = step
CaptureGoes(t, call) == capture' = [capture EXCEPT ![t] = call]

\* The draft may be archived at any time.
ArchiveDraft ==
    /\ draft = "ACTIVE"
    /\ draft' = "ARCHIVED"
    /\ UNCHANGED <<now, speech, issuedPermits, capture, heard, spoken>>

\* record_consent; a repeated key returns the receipt it has.
RecordConsent(k) ==
    /\ draft = "ACTIVE"
    /\ k \notin DOMAIN speech
    /\ Cardinality(DOMAIN speech) < MaxSessions
    /\ speech' = Put(speech, k, [state |-> "CONSENTED", clip |-> NoClip,
                                 attested |-> now, expires |-> now + ConsentTtl])
    /\ UNCHANGED <<now, draft, issuedPermits, capture, heard, spoken>>

\* capture up to its lock: the draft is active, the clip is what it says
CaptureChecked(t, k, clip) ==
    /\ CaptureAt(t, "idle")
    /\ draft = "ACTIVE"
    /\ CaptureGoes(t, [step |-> "claim", key |-> k, clip |-> clip])
    /\ UNCHANGED <<now, draft, speech, issuedPermits, heard, spoken>>

\* A session after an update of its state and clip.
Update(k, state, clip) ==
    speech' = Put(speech, k, [state |-> state, clip |-> clip,
                              attested |-> speech[k].attested, expires |-> speech[k].expires])

\* Mutant: what failed may be tried again.
ClaimFailedAgain(t) ==
    LET c == capture[t] IN
    /\ CaptureAt(t, "claim")
    /\ IF /\ c.key \in DOMAIN speech
          /\ speech[c.key].clip = NoClip \/ speech[c.key].state = "FAILED"
          /\ now < speech[c.key].expires
       THEN /\ Update(c.key, "PROCESSING", c.clip)
            /\ CaptureGoes(t, [c EXCEPT !.step = "issue"])
       ELSE speech' = speech /\ CaptureGoes(t, Listening)
    /\ UNCHANGED <<now, draft, issuedPermits, heard, spoken>>

\* capture under its lock: the first clip takes the consent, whatever becomes
\* of it.  The same request again is told the outcome, another one refused.
CaptureClaim(t) ==
    LET c == capture[t] IN
    /\ CaptureAt(t, "claim")
    /\ IF /\ c.key \in DOMAIN speech
          /\ speech[c.key].clip = NoClip
          /\ now < speech[c.key].expires
       THEN /\ Update(c.key, "PROCESSING", c.clip)
            /\ CaptureGoes(t, [c EXCEPT !.step = "issue"])
       ELSE speech' = speech /\ CaptureGoes(t, Listening)
    /\ UNCHANGED <<now, draft, issuedPermits, heard, spoken>>

\* The times of an intent read from the clock at requested, and judged now.
InOrder(k, requested) ==
    /\ speech[k].attested <= requested
    /\ requested <= now
    /\ now - requested <= PermitTtl

CaptureFails(t) == CaptureGoes(t, [capture[t] EXCEPT !.step = "failed"])

\* The intent takes the clock for the times of clip and request.
Intend(t) ==
    /\ CaptureAt(t, "issue")
    /\ CaptureGoes(t, [step |-> "authorize", key |-> capture[t].key,
                       clip |-> capture[t].clip, requested |-> now])
    /\ UNCHANGED <<now, draft, speech, issuedPermits, heard, spoken>>

\* issue over authorize_stt_egress: one permit for an intent, which is its
\* consent, its clip and its times
IssuePermit(t) ==
    LET c == capture[t]
        intent == <<c.key, c.clip, c.requested>> IN
    /\ CaptureAt(t, "authorize")
    /\ IF /\ InOrder(c.key, c.requested)
          /\ intent \notin issuedPermits
          /\ Cardinality(issuedPermits) < MaxSessions
       THEN /\ issuedPermits' = issuedPermits \cup {intent}
            /\ CaptureGoes(t, [step |-> "take", key |-> c.key, clip |-> c.clip,
                               authorized |-> now, expires |-> now + PermitTtl])
       ELSE issuedPermits' = issuedPermits /\ CaptureFails(t)
    /\ UNCHANGED <<now, draft, speech, heard, spoken>>

\* Mutant: only the expiry is looked at.
TakeBeforeItsTime(t) ==
    LET c == capture[t] IN
    /\ CaptureAt(t, "take")
    /\ IF now < c.expires
       THEN /\ heard' = [heard EXCEPT ![c.key] = @ + 1]
            /\ CaptureGoes(t, [c EXCEPT !.step = "transcribe"])
       ELSE heard' = heard /\ CaptureFails(t)
    /\ UNCHANGED <<now, draft, speech, issuedPermits, spoken>>

\* _take_for_transport, and the clip leaves
TakeClip(t) ==
    LET c == capture[t] IN
    /\ CaptureAt(t, "take")
    /\ IF c.authorized <= now /\ now < c.expires
       THEN /\ heard' = [heard EXCEPT ![c.key] = @ + 1]
            /\ CaptureGoes(t, [c EXCEPT !.step = "transcribe"])
       ELSE heard' = heard /\ CaptureFails(t)
    /\ UNCHANGED <<now, draft, speech, issuedPermits, spoken>>

\* The transport answers, or not: a failure, a timeout and an answer that is
\* not a transcript are one; so is a clock that was set back meanwhile.
Transcribe(t) ==
    LET c == capture[t] IN
    /\ CaptureAt(t, "transcribe")
    /\ \/ /\ c.authorized <= now
          /\ CaptureGoes(t, [step |-> "handoff", key |-> c.key, clip |-> c.clip, completed |-> now])
       \/ CaptureFails(t)
    /\ UNCHANGED <<now, draft, speech, issuedPermits, heard, spoken>>

\* handoff: redaction may refuse the text and the intake its attachment; the
\* projection of the receipts may still fail once the source is attached.
HandOffTranscript(t) ==
    LET c == capture[t] IN
    /\ CaptureAt(t, "handoff")
    /\ \/ /\ c.completed <= now
          /\ draft = "ACTIVE"
          /\ Cardinality(spoken) < MaxSpoken
          /\ spoken' = spoken \cup {<<c.key, c.clip>>}
          /\ \E step \in {"done", "failed"} : CaptureGoes(t, [c EXCEPT !.step = step])
       \/ spoken' = spoken /\ CaptureFails(t)
    /\ UNCHANGED <<now, draft, speech, issuedPermits, heard>>

\* Mutant: the state of the session is not set when the capture failed.
FinishComplete(t) ==
    /\ capture[t].step \in {"done", "failed"}
    /\ LET k == capture[t].key
       IN Update(k, IF CaptureAt(t, "done") THEN "COMPLETE" ELSE speech[k].state, speech[k].clip)
    /\ CaptureGoes(t, Listening)
    /\ UNCHANGED <<now, draft, issuedPermits, heard, spoken>>

\* The end of capture, under the lock
FinishCapture(t) ==
    /\ capture[t].step \in {"done", "failed"}
    /\ LET k == capture[t].key
       IN Update(k, IF CaptureAt(t, "done") THEN "COMPLETE" ELSE "FAILED", speech[k].clip)
    /\ CaptureGoes(t, Listening)
    /\ UNCHANGED <<now, draft, issuedPermits, heard, spoken>>

CaptureStep(t) ==
    \/ CaptureClaim(t)
    \/ Intend(t)
    \/ IssuePermit(t)
    \/ TakeClip(t)
    \/ Transcribe(t)
    \/ HandOffTranscript(t)
    \/ FinishCapture(t)

SpeechNext ==
    \/ \E k \in ConsentKeys : RecordConsent(k)
    \/ \E t \in SpeechThreads, k \in ConsentKeys, clip \in Clips : CaptureChecked(t, k, clip)
    \/ \E t \in SpeechThreads : CaptureStep(t)
    \/ ArchiveDraft
    \/ ClockStep /\ UNCHANGED speechVars

SpeechSpec == ClockInit /\ SpeechInit /\ [][SpeechNext]_<<now, speechVars>>

-----------------------------------------------------------------------------

\* One consent releases one clip: whatever is retried, by whichever thread,
\* after a failure, an expiry or a success, the transport hears at most one
\* clip under it, and at most one transcript is attached.
OneClipPerConsent == \A k \in ConsentKeys :
    /\ heard[k] <= 1
    /\ Cardinality({s \in spoken : s[1] = k}) <= 1

\* A clip leaves only while its permit holds, whatever the clock did after
\* the permit was issued.
HeardInTime == [][
    \A t \in SpeechThreads : CaptureAt(t, "take") /\ heard' # heard /\ capture'[t] # capture[t] =>
        capture[t].authorized <= now /\ now < capture[t].expires
    ]_<<now, speechVars>>

\* A capture that has begun ends, and what is called complete is attached.
CaptureEnds == \A k \in ConsentKeys :
    /\ (k \in DOMAIN speech /\ speech[k].state = "PROCESSING") ~>
       (k \in DOMAIN speech /\ speech[k].state \in {"COMPLETE", "FAILED"})
    /\ [](k \in DOMAIN speech /\ speech[k].state = "COMPLETE" => <<k, speech[k].clip>> \in spoken)
=============================================================================
