--------------------------- MODULE RoutingCampaign ---------------------------
(***************************************************************************)
(* The deterministic reduction of a routing campaign                       *)
(* (routing_campaign_verifier): evidence of independent runs is bound to   *)
(* the frozen contract, each policy of each run is evaluated over the      *)
(* frozen population of assignments, the runs are reduced to one verdict,  *)
(* and the receipt and the pack made from it recompute that verdict        *)
(* (routing_qualification_receipts, routing_evidence_pack).                *)
(*                                                                         *)
(* A contract is [hash, candidate, baseline, trials, requests, rules,      *)
(* maxAge, repetitions, ...], where rules gives each role its envelope and *)
(* its confidence rule, [policy, latency, minimum, rate]; a run is         *)
(* [repetition, id, class, contract, telemetry, resets, assignments, ...], *)
(* with the assignments a sequence of route receipts.  An identity and its *)
(* digest are one value; a digest is the value it digests.  Rates are      *)
(* numerators over Scale; the formatting of a probability to twelve        *)
(* decimals and the limits of the parsers (100 runs, 1000 resets) are left *)
(* out.                                                                    *)
(***************************************************************************)
EXTENDS Verdicts, SequencesExt

NotProvenOutcomes == {"MISSING", "INVALID", "INTERNAL", "CANCELLED"}

PolicyRoles == <<"candidate", "baseline">>

MaxCampaignAssignments == 200000

LOCAL Flat(seqs) == FlattenSeq(seqs)
LOCAL Distinct(seq) == Cardinality(ToSet(seq)) = Len(seq)

-----------------------------------------------------------------------------
(* The contract *)

(* require_traceability_and_bindings: of the two policies of the SLO criterion
   each has its own envelope and confidence rule, the candidate first. *)
SloRulesBound(contract) ==
  /\ contract.sloPolicies[1] # contract.sloPolicies[2]
  /\ \A i \in 1 .. 2 : contract.rules[PolicyRoles[i]].policy = contract.sloPolicies[i]

(* validate_routing_slo_attainment_bindings: the SLO criterion names the
   policies of the criterion before it, and no confidence rule asks for more
   samples than the frozen population of its policy holds. *)
SloBound(contract) ==
  /\ SloRulesBound(contract)
  /\ contract.sloPolicies = <<contract.candidate, contract.baseline>>
  /\ \A role \in ToSet(PolicyRoles) :
       contract.rules[role].minimum <= contract.trials * contract.requests

(* validate_routing_campaign_reduction_bindings: the third criterion names the
   same policies and requires every repetition of the run policy. *)
ReductionBound(contract) ==
  /\ contract.reductionPolicies = <<contract.candidate, contract.baseline>>
  /\ contract.repetitions = 1 .. contract.repetitionCount
  /\ contract.trials * contract.requests * Len(PolicyRoles) <= MaxCampaignAssignments

(* _validated_contract: three criteria that were frozen and not touched since *)
ValidContract(contract) ==
  /\ contract.status = "FROZEN" /\ contract.digest = contract.hash
  /\ SloBound(contract) /\ ReductionBound(contract)

(* _validated_confirmed_contract with require_affirmative_confirmation; the
   terms are what contract_confirmation_fingerprint digests. *)
Confirmed(contract, confirmation) ==
  /\ ValidContract(contract)
  /\ contract.confirmation = confirmation.id
  /\ confirmation.decision = "CONFIRM" /\ confirmation.acknowledged
  /\ confirmation.terms = contract.terms

-----------------------------------------------------------------------------
(* The evidence *)

(* require_b10_latency_shape *)
LatencyFits(receipt) ==
  /\ receipt.outcome = "SUCCESS" => receipt.latency # <<>>
  /\ receipt.outcome \in NotProvenOutcomes => receipt.latency = <<>>

(* _receipt_coordinate, and the order of two coordinates as tuples *)
Coordinate(receipt) ==
  <<receipt.trial, receipt.request, IF receipt.role = "candidate" THEN 0 ELSE 1>>

CoordinateBefore(x, y) ==
  \E k \in 1 .. 3 : x[k] < y[k] /\ \A j \in 1 .. k - 1 : x[j] = y[j]

(* require_run_local_canonical_records: every record of a run carries the
   identity of the run, of its producer and of the policy its role names, no
   record occurs twice, resets are in order of trials and receipts in strict
   order of coordinates, so that no assignment has two. *)
RunIsLocal(run) ==
  LET resets == run.resets
      receipts == run.assignments
      Mine(record) == /\ record.run = run.id /\ record.repetition = run.repetition
                      /\ record.producer = run.producer IN
  /\ run.candidate # run.baseline
  /\ run.telemetry.run = run.id /\ run.telemetry.producer = run.producer
  /\ run.telemetry.at <= run.observed
  /\ Distinct([i \in 1 .. Len(resets) |-> resets[i].id])
  /\ \A i \in 2 .. Len(resets) : resets[i - 1].trial <= resets[i].trial
  /\ \A reset \in ToSet(resets) : Mine(reset)
  /\ Distinct([i \in 1 .. Len(receipts) |-> receipts[i].receipt])
  /\ \A i \in 2 .. Len(receipts) :
       CoordinateBefore(Coordinate(receipts[i - 1]), Coordinate(receipts[i]))
  /\ \A a \in ToSet(receipts) :
       /\ Mine(a) /\ a.contract = run.contract /\ a.configuration = run.configuration
       /\ a.policy = IF a.role = "candidate" THEN run.candidate ELSE run.baseline
       /\ LatencyFits(a)

(* _bind_run: the run is one of the frozen campaign, and no record is of a
   trial or a request outside its population or out of order in time. *)
BindRun(contract, run) ==
  /\ RunIsLocal(run)
  /\ run.contract = contract.hash
  /\ run.candidate = contract.candidate /\ run.baseline = contract.baseline
  /\ run.configuration = contract.configuration
  /\ run.trace = contract.trace /\ run.injection = contract.injection
  /\ run.serving = contract.serving
  /\ run.telemetry.environment = contract.serving
  /\ Len(run.resets) <= contract.trials
  /\ Len(run.assignments) <= 2 * contract.trials * contract.requests
  /\ \A reset \in ToSet(run.resets) : reset.trial < contract.trials
  /\ Distinct([i \in 1 .. Len(run.resets) |-> run.resets[i].trial])
  /\ Len(run.resets) = contract.trials =>
       \A i \in 1 .. Len(run.resets) : run.resets[i].trial = i - 1
  /\ \A a \in ToSet(run.assignments) :
       /\ a.trial < contract.trials /\ a.request < contract.requests
       /\ a.at <= run.observed
  /\ \A reset \in ToSet(run.resets) :
       /\ reset.at <= run.observed
       /\ \A a \in ToSet(run.assignments) : a.trial = reset.trial => reset.at <= a.at

(* require_independent_canonical_runs and the checks of reduce_routing_campaign:
   runs in repetition order, one class of evidence, nothing shared. *)
IndependentRuns(contract, runs) ==
  LET Of(field) == [i \in 1 .. Len(runs) |-> runs[i][field]] IN
  /\ \A i \in 2 .. Len(runs) : runs[i - 1].repetition < runs[i].repetition
  /\ Cardinality(ToSet(Of("class"))) <= 1
  /\ Distinct(Of("id"))
  /\ ToSet(Of("repetition")) \subseteq contract.repetitions
  /\ Distinct([i \in 1 .. Len(runs) |-> runs[i].telemetry.id])
  /\ Distinct(Flat([i \in 1 .. Len(runs) |->
                      [j \in 1 .. Len(runs[i].assignments) |-> runs[i].assignments[j].receipt]]))
  /\ Distinct(Flat([i \in 1 .. Len(runs) |->
                      [j \in 1 .. Len(runs[i].resets) |-> runs[i].resets[j].id]]))

-----------------------------------------------------------------------------
(* The evaluation *)

(* _run_issues *)
RunIssues(contract, run) ==
  {issue \in {"STALE_TELEMETRY", "CACHE_RESET_EVIDENCE_INCOMPLETE",
              "CACHE_RESET_NOT_CONFIRMED"} :
     CASE issue = "STALE_TELEMETRY" ->
            run.observed - run.telemetry.at > contract.maxAge
       [] issue = "CACHE_RESET_EVIDENCE_INCOMPLETE" -> Len(run.resets) # contract.trials
       [] OTHER -> \E reset \in ToSet(run.resets) : reset.status # "RESET_CONFIRMED"}

ReceiptsOf(run, role) == {a \in ToSet(run.assignments) : a.role = role}

(* Within the threshold of the policy's own envelope *)
Attained(contract, a) ==
  a.outcome = "SUCCESS" /\ a.latency[1] <= contract.rules[a.role].latency

(* A plausible slip: the population of a policy is what the run reports of it. *)
PopulationSeen(contract, run, role) == Cardinality(ReceiptsOf(run, role))

(* The assignments the contract froze, whatever the run reports. *)
Population(contract, run, role) == contract.trials * contract.requests

(* _policy_result: a receipt that is missing counts as not proven. *)
PolicyResult(contract, run, role) ==
  LET receipts == ReceiptsOf(run, role)
      rule == contract.rules[role]
      expected == Population(contract, run, role)
      attained == Cardinality({a \in receipts : Attained(contract, a)})
      unproven == (expected - Cardinality(receipts))
                    + Cardinality({a \in receipts : a.outcome \in NotProvenOutcomes})
      incomplete ==
        RunIssues(contract, run)
          \cup (IF expected # Cardinality(receipts) THEN {"MISSING_ASSIGNMENT"} ELSE {})
          \cup (IF unproven > 0 THEN {"NOT_PROVEN_ASSIGNMENT"} ELSE {})
          \cup (IF expected < rule.minimum THEN {"INSUFFICIENT_SAMPLE_COUNT"} ELSE {})
      verdict == IF incomplete # {} THEN "NOT_PROVEN"
                 ELSE IF LowerBoundMeets(rule.rate, attained, expected) THEN "PASS"
                 ELSE IF ~Below(rule.rate, attained, expected) THEN "NOT_PROVEN"
                 ELSE "FAIL" IN
  [role |-> role, eligible |-> expected, attained |-> attained, unproven |-> unproven,
   missed |-> expected - attained - unproven, rate |-> rule.rate,
   verdict |-> verdict,
   issues |-> IF incomplete = {} /\ verdict = "NOT_PROVEN"
              THEN {"WILSON_CONFIDENCE_INSUFFICIENT"} ELSE incomplete]

Incompleteness ==
  {"MISSING_ASSIGNMENT", "NOT_PROVEN_ASSIGNMENT", "STALE_TELEMETRY",
   "CACHE_RESET_EVIDENCE_INCOMPLETE", "CACHE_RESET_NOT_CONFIRMED",
   "INSUFFICIENT_SAMPLE_COUNT"}

(* The verdict of a campaign from the results of its runs: any incompleteness,
   of the baseline too, comes before a failure of the candidate. *)
CampaignVerdict(required, results) ==
  LET candidate(r) == r.policies[1]
      incomplete ==
        \/ required \ {r.repetition : r \in results} # {}
        \/ \E r \in results :
             \/ candidate(r).verdict = "NOT_PROVEN"
             \/ r.policies[2].issues \cap Incompleteness # {}
             \/ r.issues \cap Incompleteness # {} IN
  IF incomplete THEN "NOT_PROVEN"
  ELSE IF \E r \in results : candidate(r).verdict = "FAIL" THEN "FAIL"
  ELSE IF \A r \in results : candidate(r).verdict = "PASS" THEN "PASS" ELSE "NOT_PROVEN"

(* reduce_routing_campaign: <<>> is a rejection. *)
ReduceRoutingCampaign(contract, confirmation, runs) ==
  IF /\ Confirmed(contract, confirmation)
     /\ \A i \in 1 .. Len(runs) : BindRun(contract, runs[i])
     /\ IndependentRuns(contract, runs)
  THEN LET results == {[id |-> run.id, repetition |-> run.repetition,
                        issues |-> RunIssues(contract, run),
                        policies |-> <<PolicyResult(contract, run, "candidate"),
                                       PolicyResult(contract, run, "baseline")>>]
                       : run \in ToSet(runs)} IN
       <<[contract |-> contract.hash, required |-> contract.repetitions,
          missing |-> contract.repetitions \ {r.repetition : r \in results},
          results |-> results,
          verdict |-> CampaignVerdict(contract.repetitions, results)]>>
  ELSE <<>>

(* require_count_conservation *)
CountsConserved(p) == p.attained + p.missed + p.unproven = p.eligible

(* _validate_policy_result_semantics: the verdict a policy's own counts and
   issues imply. *)
PolicyResultHolds(p) ==
  LET others == p.issues \ {"WILSON_CONFIDENCE_INSUFFICIENT"} IN
  /\ CountsConserved(p) /\ p.eligible > 0
  /\ IF others # {}
     THEN others = p.issues /\ p.verdict = "NOT_PROVEN"
     ELSE IF LowerBoundMeets(p.rate, p.attained, p.eligible) THEN p.verdict = "PASS"
     ELSE IF ~Below(p.rate, p.attained, p.eligible)
          THEN p.issues # {} /\ p.verdict = "NOT_PROVEN"
          ELSE p.issues = {} /\ p.verdict = "FAIL"

(* _validate_result_semantics: a result judged from what it says itself. *)
ResultHolds(result) ==
  LET actual == {r.repetition : r \in result.results} IN
  /\ result.required = 1 .. Cardinality(result.required)
  /\ actual \subseteq result.required /\ result.missing = result.required \ actual
  /\ \A r \in result.results :
       /\ r.policies[1].role = "candidate" /\ r.policies[2].role = "baseline"
       /\ \A i \in 1 .. 2 : PolicyResultHolds(r.policies[i])
  /\ result.verdict = CampaignVerdict(result.required, result.results)

(* validate_routing_campaign_reduction_result: a result that holds by itself
   and that the evidence gives again. *)
Recomputed(contract, confirmation, runs, reduced) ==
  /\ ResultHolds(reduced)
  /\ ReduceRoutingCampaign(contract, confirmation, runs) = <<reduced>>

(* issue_routing_qualification_receipt: only for a bundle, which has a run, and
   a recomputed result. *)
IssueRoutingReceipt(contract, confirmation, runs, reduced) ==
  IF runs # <<>> /\ Recomputed(contract, confirmation, runs, reduced)
  THEN <<[contract |-> contract.hash, confirmation |-> confirmation,
          policies |-> <<contract.candidate, contract.baseline>>, result |-> reduced,
          verdict |-> reduced.verdict, required |-> reduced.required,
          missing |-> reduced.missing, class |-> runs[1].class,
          use |-> IF runs[1].class = "SYNTHETIC_FIXTURE" THEN "TEST_ONLY"
                  ELSE "EXTERNAL_EVIDENCE",
          runs |-> runs]>>
  ELSE <<>>

(* _context_artifacts: the documents of a pack give its receipt again, and they
   are the frozen ones that the code names by digest (the constants
   EXPECTED_B11 and EXPECTED_B12). *)
PackIsContextBound(frozen, files) ==
  /\ <<files.receipt>> =
       IssueRoutingReceipt(files.contract, files.confirmation, files.evidence, files.result)
  /\ \A name \in {"contract", "confirmation", "evidence", "receipt"} :
       files[name] = frozen[name]

(* _summary, without its wording, which is chosen by these *)
RoutingSummary(contract, result, receipt) ==
  [verdict |-> receipt.verdict, class |-> receipt.class, use |-> receipt.use,
   policies |-> <<contract.candidate, contract.baseline>>,
   required |-> receipt.required, missing |-> receipt.missing,
   observed |-> {r.repetition : r \in result.results},
   counts |-> {<<r.repetition, r.policies>> : r \in result.results}]

(* _verify_pack_contents: the stored documents hash to the manifest, are bound
   to the frozen campaign and give the summary again. *)
RoutingPackVerifies(frozen, pack) ==
  /\ pack.complete
  /\ pack.manifest = pack.files
  /\ PackIsContextBound(frozen, pack.files)
  /\ pack.files.summary =
       RoutingSummary(pack.files.contract, pack.files.result, pack.files.receipt)

-----------------------------------------------------------------------------
(* A campaign qualifies a policy only on complete evidence: whatever one run,
   one route receipt or one cache reset is withheld from a set of evidence, the
   rest is never a PASS and never a FAIL, each result is one its own reader
   accepts, and a PASS has every required repetition with every frozen
   assignment of both policies settled and the candidate above the agreed rate
   in each of them on its own (no pooling).  The pack of the result verifies as
   the pack of that campaign and of no other; with one of its runs withheld and
   everything hashed anew it does not, not even for a campaign frozen that way. *)
CampaignIsEarned(contract, confirmation, runs) ==
  LET result == ReduceRoutingCampaign(contract, confirmation, runs)
      VerdictOf(evidence) ==
        LET r == ReduceRoutingCampaign(contract, confirmation, evidence) IN
        IF r = <<>> THEN "REJECTED" ELSE r[1].verdict
      Without(i, field, j) ==
        [runs EXCEPT ![i] = [@ EXCEPT ![field] = RemoveAt(@, j)]]
      Files(evidence) ==
        LET receipt == IssueRoutingReceipt(contract, confirmation, runs, result[1])[1] IN
        [contract |-> contract, confirmation |-> confirmation, evidence |-> evidence,
         result |-> result[1], receipt |-> receipt,
         summary |-> RoutingSummary(contract, result[1], receipt)]
      PackOf(evidence) ==
        [complete |-> TRUE, manifest |-> Files(evidence), files |-> Files(evidence)] IN
  result # <<>> =>
    /\ ResultHolds(result[1])
    /\ RoutingPackVerifies(Files(runs), PackOf(runs))
    /\ \A i \in 1 .. Len(runs) :
         /\ VerdictOf(RemoveAt(runs, i)) = "NOT_PROVEN"
         /\ \A frozen \in {Files(runs), Files(RemoveAt(runs, i))} :
              ~RoutingPackVerifies(frozen, PackOf(RemoveAt(runs, i)))
         /\ ~RoutingPackVerifies(Files(RemoveAt(runs, i)), PackOf(runs))
         /\ \A j \in 1 .. Len(runs[i].assignments) :
              VerdictOf(Without(i, "assignments", j)) = "NOT_PROVEN"
         /\ \A j \in 1 .. Len(runs[i].resets) :
              VerdictOf(Without(i, "resets", j)) = "NOT_PROVEN"
    /\ result[1].verdict = "PASS" =>
         /\ {runs[i].repetition : i \in 1 .. Len(runs)} = contract.repetitions
         /\ \A i \in 1 .. Len(runs) :
              LET mine == {a \in ToSet(runs[i].assignments) : a.role = "candidate"} IN
              Cardinality({a \in mine : Attained(contract, a)}) * Scale
                >= contract.rules["candidate"].rate * contract.trials * contract.requests
=============================================================================
