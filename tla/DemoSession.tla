----------------------------- MODULE DemoSession -----------------------------
(***************************************************************************)
(* The browser session of the guided demo (DemoSession): criteria, the     *)
(* assembled contract, the customer's review link and decision, freeze and *)
(* proof, guided sources, and the provider assist whose call runs outside  *)
(* the lock of the session.                                                *)
(*                                                                         *)
(* Every other method holds the lock and is one step.  Texts, titles and   *)
(* receipts are left out: a rule is its identity, an agreement the version *)
(* and the rules a customer confirms.                                      *)
(***************************************************************************)
EXTENDS Dicts, Workspace

CONSTANTS
    Nothing,
    DraftIds,      \* candidates of a discovery pack
    Rules,         \* structured rules a human may enter
    Fixtures,      \* guided source fixtures
    DecisionKeys,  \* idempotency keys of customer confirmations
    ExecKeys,      \* idempotency keys of provider executions
    MaxVersion,    \* bound on the contract versions
    MaxEpoch,      \* bound on the workflow changes
    MaxRuns,       \* MAX_DEMO_RUN_HISTORY
    MaxAuths,      \* MAX_WAVE1_PROVIDER_AUTHORIZATION_OPERATIONS
    SpendLimit     \* executions the spend ceiling has room for

\* The rules a contract may carry, and the contracts and decisions there may be
Terms == SUBSET (DraftIds \X (Rules \cup {Nothing}))
Contracts == [version : 1 .. MaxVersion, parent : 1 .. MaxVersion \cup {Nothing}, rules : Terms]
Rulings == [contract : Contracts, decision : {"CONFIRM", "REQUEST_CHANGES"}]

ASSUME DemoAssumption ==
    /\ IsFiniteSet(DraftIds) /\ Rules # {}
    /\ MaxVersion \in Nat \ {0} /\ SpendLimit \in Nat
    /\ Nothing \notin Contracts \cup Rulings

VARIABLES
    criteria,      \* reviewed_drafts
    seed,        \* version of the contract seed
    parent,      \* revision_parent_version; Nothing unless a revision is active
    source,      \* fixture of the guided source, if any
    reviewed,    \* reviewed_contract, filled by whoever asks first
    invitation,  \* the contract the review link is for
    confirmations,   \* confirmation_operations, by key
    decided,     \* customer_confirmation
    frozen,      \* frozen_contract
    lastRun,     \* the contract of the current proof
    runs,        \* length of the run history
    epoch,       \* _wave1_workflow_epoch
    auth,        \* the active authorization, by number
    auths,       \* number of authorizations recorded
    execs,       \* the provider executions, by key
    flight,      \* the execution whose provider call is out
    spend        \* executions reserved against the ceiling

pack == <<criteria, seed, parent, source>>
agreement == <<reviewed, invitation, confirmations, decided, frozen, lastRun>>
assist == <<auths, execs, flight, spend>>
demoVars == <<pack, agreement, runs, epoch, auth, assist>>

Draft(rule) == [status |-> "NEEDS_REVIEW", rule |-> rule, question |-> rule = Nothing]

\* The built-in pack: one candidate has a complete rule.
Sample == [d \in DraftIds |-> Draft(IF d = CHOOSE x \in DraftIds : TRUE
                                    THEN CHOOSE r \in Rules : TRUE ELSE Nothing)]

\* Candidates captured from a text have no rule.
Captured == [d \in DraftIds |-> Draft(Nothing)]

DemoInit ==
    /\ criteria = Sample
    /\ seed = 1
    /\ parent = Nothing
    /\ source = Nothing
    /\ reviewed = Nothing /\ invitation = Nothing /\ decided = Nothing /\ frozen = Nothing /\ lastRun = Nothing
    /\ confirmations = EmptyDict
    /\ runs = 0
    /\ epoch = 0
    /\ auth = Nothing
    /\ auths = 0
    /\ execs = EmptyDict
    /\ flight = Nothing
    /\ spend = 0

ApprovedDrafts == {d \in DraftIds : criteria[d].status = "APPROVED"}
Pending == {d \in DraftIds : criteria[d].status = "NEEDS_REVIEW"}
Assembled == [version |-> seed, parent |-> parent, rules |-> {<<d, criteria[d].rule>> : d \in ApprovedDrafts}]

\* approved_contract: whoever needs the contract first assembles and keeps it.
ApprovedContract ==
    IF Pending # {} \/ ApprovedDrafts = {} THEN Nothing
    ELSE IF reviewed = Nothing THEN Assembled ELSE reviewed

ClearAuthorization ==
    /\ epoch < MaxEpoch
    /\ epoch' = epoch + 1
    /\ auth' = Nothing

\* _invalidate_customer_agreement
Invalidate ==
    /\ ClearAuthorization
    /\ reviewed' = Nothing /\ invitation' = Nothing /\ decided' = Nothing /\ frozen' = Nothing /\ lastRun' = Nothing
    /\ confirmations' = EmptyDict

\* Drafts of another pack: no revision is active any more.
NewPack(ds) ==
    /\ criteria' = ds
    /\ parent' = Nothing
    /\ Invalidate

-----------------------------------------------------------------------------
(***************************************************************************)
(* Sources and criteria.                                                   *)
(***************************************************************************)

\* _guided_source_import_locked
ImportLocked == invitation # Nothing \/ decided # Nothing \/ frozen # Nothing \/ lastRun # Nothing \/ parent # Nothing

\* import_guided_source_fixture; the same fixture again is a replay
ImportFixture(f) ==
    /\ ~ImportLocked
    /\ source = Nothing
    /\ source' = f
    /\ NewPack(Captured)
    /\ UNCHANGED <<seed, runs, assist>>

\* intake: pasted notes
PasteNotes ==
    /\ NewPack(Captured)
    /\ source' = Nothing
    /\ UNCHANGED <<seed, runs, assist>>

\* assisted_intake: the local adapter proposes rules too.
PasteAssisted ==
    /\ NewPack(Sample)
    /\ source' = Nothing
    /\ UNCHANGED <<seed, runs, assist>>

ResetToSample ==
    /\ NewPack(Sample)
    /\ seed' = 1
    /\ source' = Nothing
    /\ UNCHANGED <<runs, assist>>

\* review by way of approve_draft and reject_draft
ReviewDraft(d, decision) ==
    /\ d \in Pending
    /\ decision = "APPROVED" => criteria[d].rule # Nothing /\ ~criteria[d].question
    /\ criteria' = [criteria EXCEPT ![d].status = decision]
    /\ Invalidate
    /\ UNCHANGED <<seed, parent, source, runs, assist>>

\* define_draft_rule and edit_revision over _apply_structured_rule: one
\* executable rule is supported.  A guided source refuses some candidates.
DefineRule(d, rule) ==
    /\ d \in Pending
    /\ criteria[d].rule = Nothing =>
          \A e \in DraftIds \ {d} : criteria[e].status = "REJECTED" \/ criteria[e].rule = Nothing
    /\ criteria' = [criteria EXCEPT ![d].rule = rule, ![d].question = FALSE]
    /\ Invalidate
    /\ UNCHANGED <<seed, parent, source, runs, assist>>

\* start_revision: approved criteria reopen with a question, under a new version.
StartRevision ==
    LET contract == ApprovedContract IN
    /\ decided # Nothing /\ decided.decision = "REQUEST_CHANGES"
    /\ contract # Nothing
    /\ seed < MaxVersion
    /\ criteria' = [d \in DraftIds |->
                    IF d \in ApprovedDrafts
                    THEN [criteria[d] EXCEPT !.status = "NEEDS_REVIEW", !.question = TRUE]
                    ELSE criteria[d]]
    /\ seed' = seed + 1
    /\ parent' = contract.version
    /\ Invalidate
    /\ UNCHANGED <<source, runs, assist>>

-----------------------------------------------------------------------------
(***************************************************************************)
(* Agreement and proof.                                                    *)
(***************************************************************************)

\* state_payload: a read, but for the contract it keeps
ReadState ==
    /\ reviewed' = ApprovedContract
    /\ UNCHANGED <<pack, invitation, confirmations, decided, frozen, lastRun, runs, epoch, auth, assist>>

\* create_customer_draft.  An undecided link is kept while it is valid, and
\* replaced once it has expired; a decided one is kept.
CreateCustomerDraft ==
    LET contract == ApprovedContract IN
    /\ contract # Nothing
    /\ reviewed' = contract
    /\ ~(invitation = contract /\ decided # Nothing)
    /\ invitation' = contract
    /\ decided' = Nothing /\ frozen' = Nothing /\ lastRun' = Nothing
    /\ confirmations' = EmptyDict
    /\ ClearAuthorization
    /\ UNCHANGED <<pack, runs, assist>>

\* customer_review_payload: the link is for the contract as it is now.
LinkHolds == invitation # Nothing /\ ApprovedContract # Nothing /\ invitation = ApprovedContract

\* record_customer_decision for a key that is new
RecordDecision(key, decision) ==
    LET record == [contract |-> ApprovedContract, decision |-> decision] IN
    /\ LinkHolds
    /\ decided = Nothing
    /\ key \notin DOMAIN confirmations
    /\ confirmations' = Put(confirmations, key, record)
    /\ decided' = record
    /\ reviewed' = ApprovedContract
    /\ frozen' = Nothing /\ lastRun' = Nothing
    /\ ClearAuthorization
    /\ UNCHANGED <<pack, invitation, runs, assist>>

\* record_customer_decision for a key and a decision that are recorded
ReplayDecision(key) ==
    /\ LinkHolds
    /\ key \in DOMAIN confirmations
    /\ decided' = confirmations[key]
    /\ reviewed' = ApprovedContract
    /\ frozen' = Nothing /\ lastRun' = Nothing
    /\ UNCHANGED <<pack, invitation, confirmations, runs, epoch, auth, assist>>

\* freeze over freeze_confirmed_contract
FreezeAgreement ==
    /\ frozen = Nothing
    /\ ApprovedContract # Nothing
    /\ decided # Nothing /\ decided = [contract |-> ApprovedContract, decision |-> "CONFIRM"]
    /\ reviewed' = ApprovedContract
    /\ frozen' = ApprovedContract
    /\ lastRun' = Nothing
    /\ ClearAuthorization
    /\ UNCHANGED <<pack, invitation, confirmations, decided, runs, assist>>

\* prove: with a full history the authorization is cleared all the same, and
\* a run that fails leaves no current proof.
Prove ==
    /\ frozen # Nothing
    /\ ClearAuthorization
    /\ IF runs >= MaxRuns THEN UNCHANGED <<lastRun, runs>>
       ELSE \/ lastRun' = frozen /\ runs' = runs + 1
            \/ lastRun' = Nothing /\ runs' = runs
    /\ UNCHANGED <<pack, reviewed, invitation, confirmations, decided, frozen, assist>>

-----------------------------------------------------------------------------
(***************************************************************************)
(* The provider assist.                                                    *)
(***************************************************************************)

\* authorize_wave1_provider_egress for a new key; it replaces the active one
AuthorizeAssist ==
    /\ auths < MaxAuths
    /\ auths' = auths + 1
    /\ auth' = auths + 1
    /\ UNCHANGED <<pack, agreement, runs, epoch, execs, flight, spend>>

\* Mutant: what the workflow looks like, not that it was left.
GuardOnContent == <<criteria, reviewed, frozen, invitation, decided, parent, lastRun, source>>

\* _wave1_workflow_publication_guard
PublicationGuard == <<epoch, criteria, reviewed, frozen, invitation, decided, parent, lastRun, source>>

Running(key) == key \in DOMAIN execs /\ execs[key].status = "running"

\* Mutant: a call in progress is not looked for.
ClaimAlongside(key) ==
    /\ key \notin DOMAIN execs
    /\ auth # Nothing
    /\ \/ /\ execs' = Put(execs, key, [ack |-> auth, status |-> "failed", reserved |-> FALSE])
          /\ reviewed' = ApprovedContract
          /\ UNCHANGED <<auth, flight, spend>>
       \/ /\ spend < SpendLimit
          /\ execs' = Put(execs, key, [ack |-> auth, status |-> "running", reserved |-> TRUE])
          /\ spend' = spend + 1
          /\ flight' = [key |-> key, guard |-> PublicationGuard, epoch |-> epoch]
          /\ auth' = Nothing
          /\ UNCHANGED reviewed
    /\ UNCHANGED <<pack, invitation, confirmations, decided, frozen, lastRun, runs, epoch, auths>>

\* execute_wave1_provider_assist under its first lock: the claim ends at once
\* on a configuration or budget error and keeps the authorization, or it
\* reserves its cost, takes the authorization and notes the workflow.
ClaimExecution(key) ==
    /\ key \notin DOMAIN execs
    /\ \A k \in DOMAIN execs : ~Running(k)
    /\ auth # Nothing
    /\ \/ /\ execs' = Put(execs, key, [ack |-> auth, status |-> "failed", reserved |-> FALSE])
          /\ reviewed' = ApprovedContract
          /\ UNCHANGED <<auth, flight, spend>>
       \/ /\ spend < SpendLimit
          /\ execs' = Put(execs, key, [ack |-> auth, status |-> "running", reserved |-> TRUE])
          /\ spend' = spend + 1
          /\ flight' = [key |-> key, guard |-> PublicationGuard, epoch |-> epoch]
          /\ auth' = Nothing
          /\ UNCHANGED reviewed
    /\ UNCHANGED <<pack, invitation, confirmations, decided, frozen, lastRun, runs, epoch, auths>>

\* Mutant: only the criteria are replaced.
PublishDrafts ==
    /\ criteria' = Sample
    /\ parent' = Nothing
    /\ ClearAuthorization
    /\ reviewed' = Nothing
    /\ UNCHANGED <<invitation, decided, frozen, lastRun, confirmations>>

\* The criteria of the provider replace the pack and everything built on it.
PublishResult == NewPack(Sample)

\* execute_wave1_provider_assist under its second lock: the call failed, its
\* result is stale, or it is published.
FinishExecution ==
    /\ flight # Nothing
    /\ flight' = Nothing
    /\ \/ /\ execs' = [execs EXCEPT ![flight.key].status = "failed"]
          /\ reviewed' = ApprovedContract
          /\ UNCHANGED <<pack, invitation, confirmations, decided, frozen, lastRun, epoch, auth>>
       \/ /\ flight.guard = PublicationGuard
          /\ execs' = [execs EXCEPT ![flight.key].status = "success"]
          /\ source' = Nothing
          /\ PublishResult
          /\ UNCHANGED seed
    /\ UNCHANGED <<runs, auths, spend>>

DemoNext ==
    \/ \E f \in Fixtures : ImportFixture(f)
    \/ PasteNotes
    \/ PasteAssisted
    \/ ResetToSample
    \/ \E d \in DraftIds, s \in {"APPROVED", "REJECTED"} : ReviewDraft(d, s)
    \/ \E d \in DraftIds, r \in Rules : DefineRule(d, r)
    \/ StartRevision
    \/ ReadState
    \/ CreateCustomerDraft
    \/ \E k \in DecisionKeys, c \in {"CONFIRM", "REQUEST_CHANGES"} : RecordDecision(k, c)
    \/ \E k \in DecisionKeys : ReplayDecision(k)
    \/ FreezeAgreement
    \/ Prove
    \/ AuthorizeAssist
    \/ \E k \in ExecKeys : ClaimExecution(k)
    \/ FinishExecution

DemoSpec == DemoInit /\ [][DemoNext]_demoVars

-----------------------------------------------------------------------------

\* The proof on display is a run of the frozen contract, that contract is what
\* the customer confirmed through the link made for it, and it is still what
\* the approved criteria say: no intake, edit, reset or late provider result
\* leaves an agreement, a freeze or a proof behind that belongs to other
\* criteria.
ProofIsOfTheAgreement ==
    /\ lastRun # Nothing => lastRun = frozen
    /\ frozen # Nothing => decided = [contract |-> frozen, decision |-> "CONFIRM"]
    /\ decided # Nothing => decided.contract = invitation
    /\ invitation # Nothing => invitation = reviewed
    /\ reviewed # Nothing => Pending = {} /\ ApprovedDrafts # {} /\ reviewed = Assembled

\* At most one provider call is out, every reserved execution used an
\* acknowledgement of its own, and what is reserved stays under the ceiling,
\* whichever keys are retried while a call is out.
OneCallPerAcknowledgement ==
    LET reserved == {k \in DOMAIN execs : execs[k].reserved} IN
    /\ Cardinality({k \in DOMAIN execs : Running(k)}) <= 1
    /\ \A k, l \in reserved : execs[k].ack = execs[l].ack => k = l
    /\ Cardinality(reserved) = spend /\ spend <= SpendLimit

\* A provider result is published only if nobody has changed the workflow
\* since its call was claimed, not even back to what it was.
PublishedOnTheSameWorkflow ==
    [][flight # Nothing /\ flight' = Nothing /\ criteria' # criteria => epoch = flight.epoch]_demoVars

\* "Record one terminal customer decision with idempotent retry behavior": a
\* repeated decision leaves the session as it is.
RetryChangesNothing ==
    [][(\E k \in DecisionKeys : ReplayDecision(k)) => UNCHANGED <<decided, frozen, lastRun>>]_demoVars

-----------------------------------------------------------------------------
(* The dashboard row of the guided demo: the facts of its session, projected. *)

\* _workspace_projection_snapshot, taken under the lock of the session
SessionFacts ==
    LET contract == IF frozen # Nothing THEN frozen ELSE ApprovedContract IN
    [available |-> TRUE, sources |-> 1, types |-> 1,
     pending |-> Cardinality(Pending), kept |-> 0, defined |-> 0,
     approved |-> Cardinality(ApprovedDrafts),
     named |-> IF contract = Nothing THEN 0 ELSE 2,
     status |-> IF frozen # Nothing THEN "FROZEN" ELSE IF contract = Nothing THEN "none" ELSE "APPROVED",
     issued |-> invitation # Nothing,
     decision |-> IF decided = Nothing THEN "none" ELSE decided.decision,
     matches |-> IF decided = Nothing THEN "none"
                 ELSE IF contract # Nothing /\ decided.contract = contract THEN "TRUE" ELSE "FALSE",
     revision |-> parent # Nothing,
     run |-> IF lastRun = Nothing THEN "none" ELSE "COMPLETED",
     verdict |-> IF lastRun = Nothing THEN "none" ELSE "PASS",
     reason |-> lastRun # Nothing,
     pack |-> IF lastRun = Nothing THEN "none" ELSE "inside"]

SessionAction == ProjectPoc("ACTIVE", SessionFacts).action

\* What the session does when the human takes the action it shows
Accepts(action) ==
    CASE action = "REVIEW_PROPOSALS" -> Pending # {}
      [] action = "CREATE_CUSTOMER_REVIEW" -> ApprovedContract # Nothing /\ invitation = Nothing
      [] action = "WAIT_FOR_CUSTOMER" -> LinkHolds /\ decided = Nothing
      [] action = "START_REVISION" -> decided # Nothing /\ decided.decision = "REQUEST_CHANGES"
      [] action = "FREEZE_CONFIRMED_CONTRACT" ->
            /\ frozen = Nothing /\ decided # Nothing
            /\ decided = [contract |-> ApprovedContract, decision |-> "CONFIRM"]
      [] action = "RUN_POC" -> frozen # Nothing /\ lastRun = Nothing
      [] action = "RECORD_DECISION_HANDOFF" -> lastRun # Nothing
      [] action = "PREPARE_AGREEMENT" -> Pending = {} /\ ApprovedDrafts = {}
      [] OTHER -> FALSE

\* Until a revision was asked for, the dashboard shows no blocker and the one
\* action it shows is one the session accepts, through edits, resets, late
\* provider results and repeated confirmations.
ActionIsPossible == parent = Nothing => Accepts(SessionAction)

\* "resume the exact next human action without reconstructing state": the
\* action of the row is one the session accepts, always.
NextActionIsExact == Accepts(SessionAction)
=============================================================================
