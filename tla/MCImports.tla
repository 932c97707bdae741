----------------------------- MODULE MCImports -----------------------------
(***************************************************************************)
(* How measurements come to be and come in, for TLC: the performance       *)
(* agreement (PerformanceLifecycle) and the probe that measures it         *)
(* (StreamProbe); the producer of another tool's run (InferdromeDispatch), *)
(* the reader of its bundle (BundleReader) and its import into a POC       *)
(* (PocImport); and the reports on whether a goal can be proved at all     *)
(* (ProofabilityWorkspace).  A behaviour is one of a single part.          *)
(***************************************************************************)
EXTENDS PerformanceLifecycle, StreamProbe, InferdromeDispatch, BundleReader, PocImport,
        ProofabilityWorkspace

CONSTANT perfPoc
VARIABLE part

measuring == <<lifecycleVars, probeVars>>
importing == <<dispatchVars, bundleVars, importVars>>
allVars == <<part, measuring, importing, workspaceVars>>

-----------------------------------------------------------------------------
MCPOCOf == [q \in Proposals |-> perfPoc]
MCShape == [q \in Proposals |-> 1]

MCCriterion ==
    [policy |-> <<>>, minSuccesses |-> 1, strict |-> TRUE, ttft |-> 1,
     attempts |-> 2, errorNum |-> 1, errorDen |-> 1]

\* Two POCs of two stripes, two authorities whose reports differ in size.
MCStripeOf == [p \in WPocs |-> IF p = "w3" THEN 2 ELSE 1]
MCReportBytes == [r \in Authorities |-> IF r = "a1" THEN 1 ELSE 2]

-----------------------------------------------------------------------------
(* Of inputs that the code treats alike, one is tried. *)

\* Proposals arrive in order, half of them on each metric; keys are used in
\* order.
Proposed ==
    /\ \A q, r \in Proposals : q < r /\ prop'[q] = "absent" => prop'[r] = "absent"
    /\ \A q \in Proposals : prop'[q] # (IF q % 2 = 1 THEN "errors" ELSE "ttft")
    /\ \A o \in LifecycleOps, k, l \in LKeys : k < l /\ l \in DOMAIN idem'[o] => k \in DOMAIN idem'[o]

\* A producer that fails, is cancelled, times out or writes too much has failed,
\* a bundle is refused for one reason, and the last attempt, which is not
\* retried, is admitted or has failed and leaves a sound bundle, received at
\* one time.
ProducerEnds ==
    /\ MaxOps \in DOMAIN dirs' /\ "intent" \in DOMAIN dirs'[MaxOps] => dirs'[MaxOps]["intent"] = 1
    /\ MaxOps \in DOMAIN bundle' => bundle'[MaxOps] = "PASS"
    /\ \A o \in DOMAIN dirs' : "e2" \in DOMAIN dirs'[o] =>
        dirs'[o]["e2"] \in {"FAILED", "AWAITING_ADMISSION"} \cup
            (IF o = MaxOps THEN {} ELSE {"RESULT_INVALID", "PROCESS_CONTROL_FAILED"})

\* The warmup takes no time; it succeeds or fails in one way.
WarmedUp ==
    /\ stage = "WARMUP" => clock' = 0
    /\ att'[<<"WARMUP", 1>>].outcome \in {"SUCCESS", "TRANSPORT_ERROR"}

\* Of two entries of the runs root the first is the first bundle, if any is.
Sorted ==
    /\ runsRoot["l1"].digest = "d1"
    /\ runsRoot["l1"].kind = "other" => runsRoot["l2"].kind = "other"

\* Nothing changes before a contract is frozen, the keys are used in order, and
\* a link is as good as anything else that is no bundle.  What happens to the
\* pack of a completed import is tried for the first one when nothing else is at
\* work: starts and other imports neither read nor write it.
Imported ==
    /\ \A l \in Labels : runsRoot'[l].kind # "link"
    /\ rootSteps' # rootSteps => \E p \in ImportPocs : frozenAt[p].state # "none"
    /\ packSteps' > 0 \/ verifying' # [v \in PackReaders |-> <<>>] =>
        /\ callers' = [c \in ImportCallers |-> <<>>] /\ UNCHANGED runsRoot
        /\ Len(imports') = 1 /\ busy' = {}
    /\ \A c \in ImportCallers : callers[c] = <<>> /\ callers'[c] # <<>> =>
        \/ callers'[c][1].key = "k1"
        \/ keyed["k1"] # 0
        \/ \E d \in ImportCallers : callers[d] # <<>> /\ callers[d][1].key = "k1"

-----------------------------------------------------------------------------
\* A part that does not move stays at one of its initial states.
MCInit ==
    /\ part \in {"agreement", "probe", "dispatch", "reader", "import", "workspace"}
    /\ LifecycleInit /\ ProbeInit /\ DispatchInit /\ ReaderInit /\ PocImportInit /\ WorkspaceInit
    /\ part # "reader" => disk = [p \in BundlePaths |-> Node(0, "file", "a")]
    /\ Sorted
    /\ part # "import" => runsRoot = [l \in Labels |-> Bundle("r1", "d1", TRUE)]
    /\ part # "workspace" => authority = "a1"

MCNext ==
    /\ UNCHANGED part
    /\ \/ /\ part = "agreement" /\ LifecycleNext /\ Proposed
          /\ UNCHANGED <<probeVars, importing, workspaceVars>>
       \/ /\ part = "probe" /\ ProbeNext /\ WarmedUp
          /\ UNCHANGED <<lifecycleVars, importing, workspaceVars>>
       \/ /\ part = "dispatch" /\ DispatchNext /\ ProducerEnds
          /\ UNCHANGED <<measuring, bundleVars, importVars, workspaceVars>>
       \/ /\ part = "reader" /\ ReaderNext
          /\ UNCHANGED <<measuring, dispatchVars, importVars, workspaceVars>>
       \/ /\ part = "import" /\ PocImportNext /\ Imported
          /\ UNCHANGED <<measuring, dispatchVars, bundleVars, workspaceVars>>
       \/ /\ part = "workspace" /\ WorkspaceNext
          /\ UNCHANGED <<measuring, importing>>

MCSpec == MCInit /\ [][MCNext]_allVars

-----------------------------------------------------------------------------
\* What runs is what was confirmed, under a version nobody has seen before, a
\* repeated request is answered as it was, and a PASS was measured attempt by
\* attempt.
MeasuredAsAgreed ==
    /\ RunsWhatWasConfirmed
    /\ VersionsAreFresh
    /\ RepeatsTheGrant
    /\ PassIsMeasured

\* While no power was lost one producer at a time writes a run; its answers
\* hold, a bundle is verified as one state of its files, a POC imports one
\* selected bundle at a time, and a pack is handed out only when each part of it
\* was as written at some moment since it was asked for.
ImportIsWhole ==
    /\ OneProducerAtATime
    /\ AnswersHold
    /\ VerifiedTogether
    /\ ActiveIsImporting
    /\ OfferedIsSelected

\* No schedule of creates breaks the bounds of the store, and the report that is
\* returned is the one of the authority in force.
ReportsHold == StoreStaysCoherent /\ ReportIsCurrent
=============================================================================
