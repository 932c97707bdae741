------------------------------ MODULE Workspace ------------------------------
(***************************************************************************)
(* What the dashboard and the Evidence Pack library show of a POC: phase,  *)
(* blockers and the one next human action, derived from the facts of the   *)
(* services and from nothing else.                                         *)
(*                                                                         *)
(* Facts are a record; "none" stands for a fact that is absent.  A row is  *)
(* [archive, blocked, action, attention, evidence].  A binding is empty or *)
(* <<kind, run>>, a closure is empty or <<[binding, decision]>>.  Labels,  *)
(* texts and times are left out.                                           *)
(***************************************************************************)
EXTENDS Naturals, FiniteSets, TLC

RunsInProgress == {"QUEUED", "VALIDATING", "RUNNING", "AGGREGATING"}
RunsEnded == {"COMPLETED", "BLOCKED", "FAILED_INTERNAL", "CANCELLED"}
WaitActions == {"WAIT_FOR_CUSTOMER", "WAIT_FOR_PROOF", "NONE"}

\* The part of the facts that a draft POC leaves empty.
NoAgreement == [named |-> 0, status |-> "none", approved |-> 0, issued |-> FALSE,
                decision |-> "none", matches |-> "none", revision |-> FALSE]
NoProof == [run |-> "none", verdict |-> "none", reason |-> FALSE, pack |-> "none"]

-----------------------------------------------------------------------------
(* Facts that contradict each other; a POC that has any shows no action. *)

\* Mutant: the run of an agreement that is not frozen is taken as it is.
AgreementBlockersAnyRun(f) ==
    LET contract == f.named = 2 /\ f.status # "none"
        customer == f.issued \/ f.decision # "none" \/ f.matches # "none" IN
    \/ f.sources < f.types
    \/ (f.named > 0 \/ f.status # "none") /\ ~contract
    \/ customer /\ ~contract
    \/ f.matches # "none" /\ f.decision = "none"
    \/ f.decision # "none" /\ ~f.issued
    \/ f.decision = "CONFIRM" /\ f.matches # "TRUE"
    \/ f.status = "FROZEN" /\ (f.decision # "CONFIRM" \/ f.revision \/ f.pending > 0)
    \/ f.status = "SUPERSEDED"
    \/ f.status \in {"APPROVED", "FROZEN"} /\ f.approved = 0

AgreementBlockers(f) ==
    LET contract == f.named = 2 /\ f.status # "none"
        customer == f.issued \/ f.decision # "none" \/ f.matches # "none" IN
    \/ f.sources < f.types
    \/ (f.named > 0 \/ f.status # "none") /\ ~contract
    \/ customer /\ ~contract
    \/ f.matches # "none" /\ f.decision = "none"
    \/ f.decision # "none" /\ ~f.issued
    \/ f.decision = "CONFIRM" /\ f.matches # "TRUE"
    \/ f.status = "FROZEN" /\ (f.decision # "CONFIRM" \/ f.revision \/ f.pending > 0)
    \/ f.status = "SUPERSEDED"
    \/ f.status \in {"APPROVED", "FROZEN"} /\ f.approved = 0
    \/ f.run # "none" /\ f.status # "FROZEN"

ProofBlockers(f) ==
    \/ f.verdict # "none" /\ f.run \notin RunsEnded
    \/ (f.pack = "none") # (f.verdict = "none")
    \/ f.pack = "outside"
    \/ f.run \in RunsEnded \ {"CANCELLED"} /\ f.verdict = "none"
    \/ f.verdict # "none" /\ ~f.reason
    \/ f.run = "BLOCKED" /\ f.verdict \notin {"none", "BLOCKED"}
    \/ f.run = "FAILED_INTERNAL" /\ f.verdict \notin {"none", "NOT_PROVEN"}

\* _state_blockers, and the two rules project_poc adds
Blocked(archive, f) ==
    \/ ~f.available
    \/ AgreementBlockers(f)
    \/ ProofBlockers(f)
    \/ archive = "COMPLETED" /\ f.verdict = "none"

-----------------------------------------------------------------------------
(* The next human action. *)

\* Mutant: an issued link is waited for even when it is decided.
AgreementActionWaitFirst(f) ==
    CASE f.issued -> "WAIT_FOR_CUSTOMER"
      [] f.decision = "CONFIRM" /\ ~f.issued -> "FREEZE_CONFIRMED_CONTRACT"
      [] OTHER -> "CREATE_CUSTOMER_REVIEW"

AgreementAction(f) ==
    CASE f.decision = "CONFIRM" -> "FREEZE_CONFIRMED_CONTRACT"
      [] f.decision # "CONFIRM" /\ f.issued -> "WAIT_FOR_CUSTOMER"
      [] OTHER -> "CREATE_CUSTOMER_REVIEW"

ProofAction(f) ==
    CASE f.run \in RunsInProgress -> "WAIT_FOR_PROOF"
      [] f.run \in {"CANCELLED", "FAILED_INTERNAL"} -> "RERUN_POC"
      [] OTHER -> "RUN_POC"

\* What is left to define, when there is no approved contract
DefineAction(f) ==
    IF f.pending > 0 THEN "REVIEW_PROPOSALS"
    ELSE IF f.kept > f.defined THEN "DEFINE_CRITERIA"
    ELSE IF \/ f.status \in {"DRAFT", "IN_REVIEW"}
            \/ f.approved > 0 \/ f.defined > 0 \/ f.sources > 0 THEN "PREPARE_AGREEMENT"
    ELSE "ADD_SOURCE"

DeriveAction(archive, f) ==
    IF archive # "ACTIVE" THEN "NONE"
    ELSE IF f.verdict # "none" THEN "RECORD_DECISION_HANDOFF"
    ELSE IF f.status = "FROZEN" THEN ProofAction(f)
    ELSE IF f.revision \/ f.decision = "REQUEST_CHANGES" THEN "START_REVISION"
    ELSE IF f.status = "APPROVED" THEN AgreementAction(f)
    ELSE DefineAction(f)

ProjectPoc(archive, f) ==
    LET blocked == Blocked(archive, f)
        action == IF blocked THEN "RESOLVE_BLOCKER" ELSE DeriveAction(archive, f) IN
    [archive |-> archive, blocked |-> blocked, action |-> action,
     attention |-> blocked \/ action \notin WaitActions,
     evidence |-> IF f.verdict = "none" THEN "NOT_RUN" ELSE f.verdict]

\* project_dashboard: the row to go on with, of rows in order of attention;
\* `since` orders rows of one kind.
Precedes(a, b) ==
    \/ a.own /\ ~b.own
    \/ a.own = b.own /\ a.row.attention /\ ~b.row.attention
    \/ a.own = b.own /\ a.row.attention = b.row.attention /\ a.since < b.since

ContinueWorking(entries) ==
    LET active == {e \in entries : e.row.archive = "ACTIVE"} IN
    {e \in active : \A o \in active : ~Precedes(o, e)}

Visible(row, filter) ==
    CASE filter = "COMPLETED" -> row.archive = "COMPLETED"
      [] filter = "NEEDS_ATTENTION" -> row.archive = "ACTIVE" /\ row.attention
      [] OTHER -> row.archive = "ACTIVE"

-----------------------------------------------------------------------------
(***************************************************************************)
(* A POC of the workspace: its draft, its agreement and its proof are      *)
(* asked in turn.                                                          *)
(***************************************************************************)

\* draft_workspace_record_and_facts: counts that do not fit are an error.
CountsFit(total, d) ==
    /\ d.pending + d.kept <= total
    /\ d.defined <= d.kept

DraftFacts(d) ==
    [available |-> TRUE, sources |-> d.sources, types |-> IF d.sources = 0 THEN 0 ELSE 1,
     pending |-> d.pending, kept |-> d.kept, defined |-> d.defined] @@ NoAgreement @@ NoProof

Unavailable(row) ==
    [row EXCEPT !.blocked = TRUE, !.action = "RESOLVE_BLOCKER", !.attention = TRUE]

\* The state of the proof, over the state of the agreement
ProofAware(row, proof, verdict) ==
    CASE proof = "RUNNING" -> [row EXCEPT !.action = "WAIT_FOR_PROOF"]
      [] proof \in {"BLOCKED", "NOT_PROVEN"} ->
            [row EXCEPT !.action = "RERUN_POC", !.evidence = proof, !.attention = TRUE]
      [] proof = "COMPLETED" ->
            [row EXCEPT !.action = "RECORD_DECISION_HANDOFF", !.evidence = verdict, !.attention = TRUE]
      [] OTHER -> row

\* _agreement_aware_workspace_projection; the attention of a row whose
\* agreement is prepared is still the draft's.
AgreementAware(row, d, a) ==
    IF ~a.prepared
    THEN IF a.revision /\ d.pending + d.kept = 0
         THEN [row EXCEPT !.action = "ADD_SOURCE", !.attention = TRUE] ELSE row
    ELSE LET agreed ==
               CASE a.frozen /\ a.external -> "SELECT_EXTERNAL_EVIDENCE"
                 [] a.frozen /\ ~a.external -> "RUN_POC"
                 [] ~a.frozen /\ a.decision = "REQUEST_CHANGES" -> "START_REVISION"
                 [] ~a.frozen /\ a.decision = "CONFIRM" -> "FREEZE_CONFIRMED_CONTRACT"
                 [] OTHER -> IF a.link = "live" THEN "WAIT_FOR_CUSTOMER" ELSE "CREATE_CUSTOMER_REVIEW"
         IN ProofAware([row EXCEPT !.action = agreed], IF a.frozen THEN a.proof ELSE "none", a.verdict)

\* _terminal_evidence_binding: the pack of a completed proof that verifies,
\* or the receipt of a blocked run of the own runner.
TerminalBinding(archive, a, run) ==
    IF archive # "ACTIVE" \/ ~a.prepared \/ ~a.frozen THEN <<>>
    ELSE CASE a.proof = "COMPLETED" /\ a.intact -> <<"pack", run>>
           [] a.proof = "BLOCKED" /\ ~a.external -> <<"receipt", run>>
           [] OTHER -> <<>>

\* Mutant: a closure is shown whatever it was bound to.
ClosureAwareUnbound(row, closure, binding) ==
    IF closure = <<>> THEN row
    ELSE IF row.blocked
    THEN [row EXCEPT !.archive = "COMPLETED", !.action = "RESOLVE_BLOCKER", !.attention = TRUE]
    ELSE [row EXCEPT !.archive = "COMPLETED", !.action = "NONE", !.attention = FALSE]

\* _closure_aware_workspace_projection
ClosureAware(row, closure, binding) ==
    IF closure = <<>> THEN row
    ELSE IF closure[1].binding # binding
    THEN [Unavailable(row) EXCEPT !.archive = "COMPLETED"]
    ELSE IF row.blocked
    THEN [row EXCEPT !.archive = "COMPLETED", !.action = "RESOLVE_BLOCKER", !.attention = TRUE]
    ELSE [row EXCEPT !.archive = "COMPLETED", !.action = "NONE", !.attention = FALSE]

\* workspace_payload of the server, for one POC: a service that fails makes
\* the row a blocker, whatever is known of it.
WorkspaceRow(archive, d, a, run, closure, failing) ==
    LET row == ProjectPoc(archive, DraftFacts(d)) IN
    IF failing \/ ~CountsFit(d.pending + d.kept + d.rejected, d) THEN Unavailable(row)
    ELSE ClosureAware(AgreementAware(row, d, a), closure, TerminalBinding(archive, a, run))

\* _evidence_pack_handoff_state of one pack
HandoffState(pack, binding, closure) ==
    IF closure # <<>> /\ closure[1].binding = pack
    THEN IF closure[1].decision = "HANDOFF_COMPLETED" THEN "HANDOFF_COMPLETED" ELSE "POC_STOPPED"
    ELSE IF binding # pack THEN "HISTORICAL"
    ELSE IF closure = <<>> THEN "READY_FOR_HANDOFF" ELSE "REVIEW_REQUIRED"

\* evidence_pack_library_payload of one POC: the packs of its completed runs,
\* or no library when one of them does not verify
PackLibrary(archive, a, completed, run, closure) ==
    [r \in completed |->
        HandoffState(<<"pack", r>>, TerminalBinding(archive, a, run), closure)]

-----------------------------------------------------------------------------
(* Properties, for all facts and for all states of a POC. *)

\* An action of the later phases is shown only of facts that carry the whole
\* chain up to it: a decision on evidence needs a verdict of an ended run of
\* the frozen contract that the customer confirmed in exactly that version.
ActionIsEarned(f) ==
    LET row == ProjectPoc("ACTIVE", f)
        confirmed == /\ f.issued /\ f.decision = "CONFIRM" /\ f.matches = "TRUE"
                     /\ f.named = 2 /\ f.approved > 0 IN
    /\ row.action = "FREEZE_CONFIRMED_CONTRACT" => f.status = "APPROVED" /\ confirmed /\ f.run = "none"
    /\ row.action \in {"RUN_POC", "RERUN_POC", "WAIT_FOR_PROOF"} =>
          f.status = "FROZEN" /\ confirmed /\ f.pending = 0
    /\ row.action = "RECORD_DECISION_HANDOFF" =>
          f.status = "FROZEN" /\ confirmed /\ f.run \in RunsEnded /\ f.pack = "inside"
    /\ row.evidence = "PASS" /\ ~row.blocked => f.run \in {"COMPLETED", "CANCELLED"}

\* Of the rows of a dashboard one is offered to go on with, and it is one that
\* the list of active POCs shows; each POC is in one of the two lists, and what
\* needs attention is in the first.
ListsAgree(entries) ==
    LET active == {e \in entries : Visible(e.row, "ALL")} IN
    /\ Cardinality(ContinueWorking(entries)) = IF active = {} THEN 0 ELSE 1
    /\ ContinueWorking(entries) \subseteq active
    /\ {e \in entries : Visible(e.row, "COMPLETED")} = entries \ active
    /\ {e \in entries : Visible(e.row, "NEEDS_ATTENTION")} \subseteq active

\* The dashboard and the library agree: a handoff is asked for exactly where a
\* pack is ready for it, and a pack that must be looked at again, because the
\* POC was closed on another one, shows as a blocker of the POC.
ViewsAgree(archive, d, a, completed, run, closure) ==
    LET row == WorkspaceRow(archive, d, a, run, closure, FALSE)
        packs == PackLibrary(archive, a, completed, run, closure)
        states == {packs[r] : r \in completed} IN
    archive = "ACTIVE" /\ a.intact =>
        /\ row.action = "RECORD_DECISION_HANDOFF" <=> "READY_FOR_HANDOFF" \in states
        /\ "REVIEW_REQUIRED" \in states => row.action = "RESOLVE_BLOCKER"
        /\ closure # <<>> => row.action \in {"NONE", "RESOLVE_BLOCKER"}
=============================================================================
