---------------------------- MODULE MCPerformance ----------------------------
(***************************************************************************)
(* The three services that spend what a person allowed once, for TLC: the  *)
(* durable performance run (PerformanceRun), the provider request behind   *)
(* an acknowledgement (ProviderEgress) and the clip behind a consent       *)
(* (SpeechCapture).  They share no state but the wall clock of the last    *)
(* two, so a behaviour is one of a single part.                            *)
(***************************************************************************)
EXTENDS PerformanceRun, SpeechCapture

VARIABLE part

allVars == <<part, vars, now, egressVars, speechVars>>

MCInit ==
    /\ part \in {"run", "egress", "speech"}
    /\ Init /\ ClockInit /\ EgressInit /\ SpeechInit

MCNext ==
    /\ UNCHANGED part
    /\ \/ part = "run" /\ Next /\ UNCHANGED <<now, egressVars, speechVars>>
       \/ part = "egress" /\ EgressNext /\ UNCHANGED <<vars, speechVars>>
       \/ part = "speech" /\ SpeechNext /\ UNCHANGED <<vars, egressVars>>

\* A run's worker and a call of capture keep running to their end.
MCSpec ==
    /\ MCInit /\ [][MCNext]_allVars
    /\ \A c \in Coordinators : WF_vars(\E k \in Keys : Run(c, k))
    /\ \A t \in SpeechThreads : WF_speechVars(CaptureStep(t))

-----------------------------------------------------------------------------
\* One acknowledgement is one execution and one consent one clip, each released
\* only while it is valid, although clock, session and permit are checked and
\* used under different locks.
PermitsAreSpentOnce ==
    /\ []OneExecutionPerAcknowledgement
    /\ []OneClipPerConsent
    /\ ReleasedInTime
    /\ HeardInTime

\* A flight of a coordinator and a capture that has begun both end.
CallsEnd == FlightEnds /\ CaptureEnds

=============================================================================
