----------------------------- MODULE MCCapture -----------------------------
(***************************************************************************)
(* How a meeting becomes a source, for TLC: the meeting runtime with its   *)
(* durable inbox (MeetingSession) and the parts of the Zoom path, the live *)
(* runtime, the session with its bridge and the authenticator, and the     *)
(* custody of a fixture capture.  A behaviour is one of a single part.     *)
(***************************************************************************)
EXTENDS MeetingSession, ZoomLive, ZoomSession, ZoomCustody

CONSTANTS m1, m2, s1
VARIABLE part

zoomParts == <<zoomVars, sessionVars, webhookVars, custodyVars>>
allVars == <<part, vars, zoomParts>>

-----------------------------------------------------------------------------
(* What the recorded meetings deliver. *)

MCPocOf == [s \in Sessions |-> "poc"]

Ev(id, n, kind, body) == [id |-> id, n |-> n, kind |-> kind, body |-> body]

First == <<Ev(1, 1, "STARTED", 0)>>
Said == Ev(2, 2, "TRANSCRIPT", 1)
Stopped(n) == Ev(3, n, "STOPPED", 0)

Script(limit, draft) == [initial |-> First, draft |-> draft, limit |-> limit]

\* In order; out of order with a duplicate; somebody joins after the stop; a
\* gap; too much text; more deliveries than the stream takes, and than the
\* inbox takes.
MCScripts ==
    {Script(4, <<Said, Stopped(3)>>),
     Script(4, <<Stopped(3), Said, Said>>),
     Script(4, <<Said, Stopped(3), Ev(4, 4, "JOINED", 0)>>),
     Script(4, <<Said, Stopped(4)>>),
     Script(4, <<[Said EXCEPT !.body = 2], Stopped(3)>>),
     Script(3, <<Said, Said, Stopped(3)>>),
     Script(5, <<Stopped(3), Stopped(3), Stopped(3), Said>>)}

\* The two processes of the meeting runtime are alike.
MCSymmetry == Permutations(Processes)

\* The people on a call are alike: pairs are of the first two, and enrolment
\* confirms the first before the second.
PeopleInOrder ==
    /\ used' # used => rec'.ids \in {{}, {1, 2}}
    /\ rec' # NoLive /\ rec'.enroll # NoLive =>
        \A i \in DOMAIN rec'.enroll.confirmed : rec'.enroll.confirmed[i] <= i

-----------------------------------------------------------------------------
MCInit ==
    /\ part \in {"meeting", "live", "session", "webhook", "custody"}
    /\ Init /\ ZoomInit /\ SessionInit /\ WebhookInit /\ CustodyInit
    /\ part # "custody" => raw = (CHOOSE r \in Raws : TRUE)

MCNext ==
    /\ UNCHANGED part
    /\ \/ part = "meeting" /\ Next /\ UNCHANGED zoomParts
       \/ /\ part = "live" /\ ZoomNext /\ PeopleInOrder
          /\ UNCHANGED <<vars, sessionVars, webhookVars, custodyVars>>
       \/ /\ part = "session" /\ SessionNext
          /\ UNCHANGED <<vars, zoomVars, webhookVars, custodyVars>>
       \/ /\ part = "webhook" /\ WebhookNext
          /\ UNCHANGED <<vars, zoomVars, sessionVars, custodyVars>>
       \/ /\ part = "custody" /\ CustodyNext
          /\ UNCHANGED <<vars, zoomVars, sessionVars, webhookVars>>

MCSpec == MCInit /\ [][MCNext]_allVars

-----------------------------------------------------------------------------
\* A meeting's source is one stream, whole and as delivered, and a session is
\* shown no further than what is durable, across processes and restarts.
MeetingIsDurable ==
    /\ OneStreamPerSession
    /\ SourceIsTheStream
    /\ ShownIsDurable
    /\ HistoryIsWhole

\* A recovery never goes on with a torn read, and a taint is never lifted.
TaintHolds == TornReadIsRefused /\ TaintIsFinal

\* No child process outlives the capture it was started for; a capture has at
\* most one source, two people consented to it, and its draft is the transcript
\* that was decoded, across reconnects and restarts.
CaptureIsConsented ==
    /\ NoOrphanChild
    /\ OneSourcePerCapture
    /\ TwoPeopleConsented
    /\ DraftIsTheTranscript

\* A signed delivery is accepted first once, and what was reviewed is what was
\* sealed, wherever a request or a command is overtaken or stops.
ProvenanceHolds == FirstOnce /\ ReviewedIsSealed
=============================================================================
