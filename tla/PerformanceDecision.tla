------------------------- MODULE PerformanceDecision -------------------------
(***************************************************************************)
(* What a finished streaming probe proves: the terminal records it is made *)
(* of, the measurement taken from them, the composite verdict, and the     *)
(* chain contract - confirmation - workload - prompts - manifest - run -   *)
(* receipt that has to join before a verdict is authorised, both when the  *)
(* run is decided and when a stored pack is read back (performance_probe,  *)
(* performance_verdicts, performance_evidence, performance_receipts,       *)
(* performance_decision, performance_runner).                              *)
(*                                                                         *)
(* SHA-256 is taken to be injective: a digest is the value it digests.     *)
(* Optional values are <<>> or <<v>>.  Times are integer ticks.            *)
(***************************************************************************)
EXTENDS Naturals, Sequences, FiniteSets, SequencesExt

LOCAL IsSome(opt) == Len(opt) = 1

Outcomes == {"SUCCESS", "HTTP_ERROR", "TIMEOUT", "PROTOCOL_ERROR",
             "TRANSPORT_ERROR", "CANCELLED", "INTERNAL_ERROR"}

(* The failures that count against the endpoint. *)
ExternalErrors == {"HTTP_ERROR", "TIMEOUT", "PROTOCOL_ERROR", "TRANSPORT_ERROR"}

Is2xx(status) == status \in 200 .. 299

-----------------------------------------------------------------------------
(* Terminal records *)

(* _validate_terminal_record: which fields each outcome may carry. *)
WellFormed(record) ==
  LET noTtft == record.ttft = <<>>
      noStatus == record.status = <<>>
      good == IsSome(record.status) /\ Is2xx(record.status[1]) IN
  CASE record.outcome = "SUCCESS" ->
         good /\ IsSome(record.ttft) /\ record.ttft[1] <= record.duration
    [] record.outcome = "HTTP_ERROR" ->
         noTtft /\ ~noStatus /\ ~Is2xx(record.status[1])
    [] record.outcome \in {"TIMEOUT", "CANCELLED"} -> noTtft /\ noStatus
    [] OTHER -> noTtft /\ (noStatus \/ good)

(* _validate_probe_records: one well-formed record for every ordinal of both
   phases, all of one execution and of this manifest, each with the prompt the
   manifest gives its ordinal. *)
ValidRecords(manifest, records, execution) ==
  LET expected == ({"WARMUP"} \X (1 .. manifest.warmups))
                    \cup ({"MEASURED"} \X (1 .. manifest.requests)) IN
  /\ {<<r.phase, r.ordinal>> : r \in ToSet(records)} = expected
  /\ Len(records) = Cardinality(expected)
  /\ \A r \in ToSet(records) :
       /\ r.execution = execution
       /\ r.manifest = manifest
       /\ r.included <=> r.phase = "MEASURED"
       /\ r.prompt = manifest.prompts[((r.ordinal - 1) % Len(manifest.prompts)) + 1]
       /\ r.outcome \in Outcomes /\ WellFormed(r)

(* validate_probe_run: the records hash as well. *)
ValidRun(run) ==
  ValidRecords(run.manifest, run.records, run.execution) /\ run.digest = run.records

(* build_manifest: the identity of the requests a configuration sends. *)
BuildManifest(config, prompts) ==
  [endpoint |-> config.endpoint, requests |-> config.requests,
   warmups |-> config.warmups, policy |-> config.policy, prompts |-> prompts]

-----------------------------------------------------------------------------
(* Measurement and verdict *)

(* _measured_records and _count_outcomes, by their positions in the evidence. *)
MeasuredRecords(records) == {i \in DOMAIN records : records[i].phase = "MEASURED"}

EndedIn(records, outcomes) ==
  {i \in MeasuredRecords(records) : records[i].outcome \in outcomes}

CountOutcomes(records, outcomes) == Cardinality(EndedIn(records, outcomes))

(* nearest_rank_p95_ns: the value of rank ceil(95 n / 100) in sorted order is
   the least that so many of the values do not exceed. *)
NearestRankP95(values) ==
  LET rank == (95 * Cardinality(DOMAIN values) + 99) \div 100
      Reaches(v) == rank <= Cardinality({i \in DOMAIN values : values[i] <= v}) IN
  CHOOSE v \in Range(values) : Reaches(v) /\ \A w \in Range(values) : Reaches(w) => v <= w

(* measure_performance: a cancelled or internally failed request, or records
   that do not verify, leave the counts and no percentile. *)
MeasurePerformance(run) ==
  LET successes == EndedIn(run.records, {"SUCCESS"})
      ttfts == [i \in successes |-> run.records[i].ttft[1]]
      issue == \/ CountOutcomes(run.records, {"CANCELLED", "INTERNAL_ERROR"}) > 0
               \/ ~ValidRun(run) IN
  [attempted |-> Cardinality(MeasuredRecords(run.records)),
   successful |-> Cardinality(successes),
   errors |-> CountOutcomes(run.records, ExternalErrors), issue |-> issue,
   p95 |-> IF issue \/ successes = {} THEN <<>> ELSE <<NearestRankP95(ttfts)>>]

(* _population_binding_issue: a version 2 criterion freezes its population. *)
PopulationIssue(criterion, manifest) ==
  /\ criterion.policy # <<>>
  /\ manifest.policy # criterion.policy \/ manifest.requests # criterion.policy[1]

(* _evaluate_ttft_rule, by its comparison operator *)
InTime(criterion, ttft) ==
  IF criterion.strict THEN ttft < criterion.ttft ELSE ttft <= criterion.ttft

TtftRule(criterion, m) ==
  IF m.successful < criterion.minSuccesses \/ m.p95 = <<>> THEN "NOT_PROVEN"
  ELSE IF InTime(criterion, m.p95[1]) THEN "PASS" ELSE "FAIL"

(* _evaluate_error_rate_rule: errors / attempts < num / den, in integers. *)
ErrorRateRule(criterion, m) ==
  IF m.attempted # criterion.attempts THEN "NOT_PROVEN"
  ELSE IF m.errors * criterion.errorDen < criterion.errorNum * m.attempted
       THEN "PASS" ELSE "FAIL"

(* _composite_verdict: FAIL before NOT_PROVEN before PASS. *)
CompositeVerdict(statuses) ==
  IF "FAIL" \in statuses THEN "FAIL"
  ELSE IF "NOT_PROVEN" \in statuses THEN "NOT_PROVEN" ELSE "PASS"

(* evaluate_performance_criterion: an evidence issue makes both rules
   NOT_PROVEN. *)
EvaluatePerformance(criterion, run) ==
  LET m == MeasurePerformance(run)
      unproven == m.issue \/ PopulationIssue(criterion, run.manifest) IN
  IF unproven THEN CompositeVerdict({"NOT_PROVEN"})
  ELSE CompositeVerdict({TtftRule(criterion, m), ErrorRateRule(criterion, m)})

-----------------------------------------------------------------------------
(* The chain that authorises a verdict *)

ConfigOf(workload, criterion) ==
  [endpoint |-> workload.endpoint, requests |-> workload.requests,
   warmups |-> workload.warmups, policy |-> criterion.policy]

(* _validate_alignment *)
Aligned(contract, workload) ==
  LET criterion == contract.criterion IN
  /\ workload.slice = criterion.slice
  /\ workload.model = contract.model
  /\ workload.requests = criterion.attempts
  /\ criterion.minSuccesses <= workload.requests

(* _build_validated_context: <<>> when a digest or an alignment fails. *)
ValidatedContext(contract, workload, prompts) ==
  IF /\ contract.workload = workload
     /\ Aligned(contract, workload)
     /\ workload.prompts = prompts
  THEN <<[contract |-> contract, criterion |-> contract.criterion,
          workload |-> workload, prompts |-> prompts,
          config |-> ConfigOf(workload, contract.criterion),
          manifest |-> BuildManifest(ConfigOf(workload, contract.criterion), prompts)]>>
  ELSE <<>>

(* require_frozen_confirmed with require_affirmative_confirmation. *)
FrozenConfirmed(contract, confirmation) ==
  /\ contract.status = "FROZEN" /\ contract.digest = contract.terms
  /\ contract.confirmation = <<confirmation.id>>
  /\ confirmation.decision = "CONFIRM" /\ confirmation.acknowledged
  /\ confirmation.terms = contract.terms

(* performance_request_digest, performance_operation_id, performance_receipt_id
   and record_receipt on an empty store: a receipt names all it binds. *)
IssueReceipt(context, run, key) ==
  [contract |-> context.contract.digest, criterion |-> context.criterion,
   manifest |-> context.manifest, execution |-> run.execution,
   records |-> run.digest, key |-> key]

(* _require_context_is_self_consistent *)
SelfConsistent(context) ==
  /\ context.criterion = context.contract.criterion
  /\ context.workload = context.contract.workload
  /\ context.prompts = context.workload.prompts
  /\ context.config = ConfigOf(context.workload, context.criterion)
  /\ context.manifest = BuildManifest(context.config, context.prompts)

(* _require_exact_cross_bindings *)
CrossBound(context, run, receipt) ==
  /\ run.manifest = context.manifest
  /\ receipt.contract = context.contract.digest
  /\ receipt.criterion = context.criterion
  /\ receipt.manifest = context.manifest
  /\ receipt.execution = run.execution
  /\ receipt.records = run.digest

(* authorize_performance_decision: the decision, or nothing when the chain breaks. *)
Authorize(context, confirmation, run, receipt) ==
  IF /\ FrozenConfirmed(context.contract, confirmation)
     /\ ValidRun(run)
     /\ SelfConsistent(context)
     /\ CrossBound(context, run, receipt)
  THEN <<EvaluatePerformance(context.criterion, run)>>
  ELSE <<>>

(* _preflight_config and _require_successful_preflight *)
PreflightConfig(context) ==
  [endpoint |-> context.config.endpoint, requests |-> 1, warmups |-> 0, policy |-> <<>>]

SuccessfulPreflight(context, preflight) ==
  /\ preflight.manifest = BuildManifest(PreflightConfig(context), <<context.prompts[1]>>)
  /\ Cardinality(MeasuredRecords(preflight.records)) = 1
  /\ CountOutcomes(preflight.records, {"SUCCESS"}) = 1

(* _run_preflight: what the readiness request lets the runner do. *)
PreflightStatus(preflight) ==
  IF Cardinality(MeasuredRecords(preflight.records)) # 1 THEN "NOT_PROVEN"
  ELSE IF CountOutcomes(preflight.records, {"SUCCESS"}) = 1 THEN "READY"
  ELSE IF CountOutcomes(preflight.records, ExternalErrors) = 1 THEN "BLOCKED" ELSE "NOT_PROVEN"

(* _require_execution_authority: a remote or credentialed run needs the exact
   planned number of requests authorised. *)
ExecutionAuthorized(workload, grant) ==
  /\ grant.credential => grant.credentialEndpoint = workload.endpoint
  /\ \/ ~(grant.credential \/ grant.remote) /\ grant.requests = <<>>
     \/ grant.requests = <<1 + workload.warmups + workload.requests>>

(* _publish_decision: the documents of one decided run. *)
PublishDecision(context, confirmation, preflight, run, receipt, verdict) ==
  [contract |-> context.contract, confirmation |-> confirmation,
   workload |-> context.workload, prompts |-> context.prompts,
   preflight |-> preflight, manifest |-> run.manifest, records |-> run.records,
   receipt |-> receipt, calculations |-> verdict, verdicts |-> verdict,
   report |-> <<receipt, run.records, verdict>>]

(* persist_performance_artifacts: the directory, with a registry of every
   document and an inventory of those and of the registry. *)
StoredPack(run, pack) ==
  LET registry == [run |-> run, entries |-> pack] IN
  [run |-> run, files |-> pack, registry |-> registry,
   hashes |-> [run |-> run, entries |-> pack, registry |-> registry]]

(* read_and_verify_performance_artifacts with _validate_registry,
   _validate_hash_inventory and _validate_entries. *)
ArtifactsVerify(dir) ==
  /\ dir.registry.run = dir.run /\ dir.hashes.run = dir.run
  /\ DOMAIN dir.registry.entries = DOMAIN dir.files
  /\ dir.hashes.entries = dir.registry.entries
  /\ dir.hashes.registry = dir.registry
  /\ \A path \in DOMAIN dir.files : dir.files[path] = dir.hashes.entries[path]

(* _reconstruct_decision: the verdict a stored pack still supports, or <<>>. *)
ReconstructDecision(pack) ==
  LET opt == ValidatedContext(pack.contract, pack.workload, pack.prompts)
      run == [execution |-> pack.receipt.execution, manifest |-> pack.manifest,
              records |-> pack.records, digest |-> pack.receipt.records]
      verdict == Authorize(opt[1], pack.confirmation, run, pack.receipt) IN
  IF /\ opt # <<>>
     /\ FrozenConfirmed(pack.contract, pack.confirmation)
     /\ ValidRun(pack.preflight) /\ SuccessfulPreflight(opt[1], pack.preflight)
     /\ verdict # <<>>
     /\ pack.calculations = verdict[1] /\ pack.verdicts = verdict[1]
     /\ pack.report = <<pack.receipt, pack.records, verdict[1]>>
  THEN verdict
  ELSE <<>>
=============================================================================
