----------------------------- MODULE MCEvidence -----------------------------
(***************************************************************************)
(* The three services that turn a frozen agreement into evidence, for TLC: *)
(* attempts and closure (Evidence), the single-criterion service           *)
(* (ExecutableEvidence) and the publication of a pack (EvidencePack).      *)
(*                                                                         *)
(* They share no state here, so a behaviour is one of a single part; the   *)
(* parts that are not playing stay in their initial state.                 *)
(***************************************************************************)
EXTENDS Evidence, ExecutableEvidence, EvidencePack

VARIABLE part

allVars == <<part, vars, execVars, packVars>>

MCOrder == <<"contract.json", "evidence.json", "artifact-hashes.json">>

MCInit ==
    /\ part \in {"evidence", "executable", "pack"}
    /\ Init /\ ExecInit /\ PackInit

MCNext ==
    /\ UNCHANGED part
    /\ \/ part = "evidence" /\ Next /\ UNCHANGED <<execVars, packVars>>
       \/ part = "executable" /\ ExecNext /\ UNCHANGED <<vars, packVars>>
       \/ part = "pack" /\ PackNext /\ UNCHANGED <<vars, execVars>>

\* Every part under the fairness of its own specification.
MCSpec ==
    /\ MCInit /\ [][MCNext]_allVars
    /\ Fairness
    /\ \A w \in Publishers : WF_packVars(part = "pack" /\ (Publish(w) \/ Cleanup(w)))

-----------------------------------------------------------------------------
\* What the two evidence services show of an attempt is consistent: one
\* attempt per key and one current attempt per POC, the one its pointer names;
\* a verdict only where an evaluation ended; a replayed closure answered with
\* the closure it recorded.
AttemptsAreCoherent ==
    /\ PointerIsTheFlag
    /\ NoVerdictWithoutEvidence
    /\ KeyNamesOneAttempt
    /\ ClosureReplay
    /\ CurrentIsFresh

\* A closure is final, and so is the end of an attempt, whatever was under way.
ClosureIsFinal == NothingAfterClosure /\ EndIsFinal

\* Every attempt that runs ends, no mutation blocks a closure for good, and
\* every publication ends unless its process is killed.
WorkEnds ==
    /\ RunsEnd
    /\ MutationsDrain
    /\ part = "pack" => CallsEnd

=============================================================================
