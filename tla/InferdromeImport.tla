--------------------------- MODULE InferdromeImport ---------------------------
(***************************************************************************)
(* What a verified bundle says of a frozen contract: whether it applies,   *)
(* the verdict, and the receipt, on the three ways evidence comes in: the  *)
(* import of a linked bundle, the retrospective import of the one managed  *)
(* bundle, and the prospective admission against a handed-over case.       *)
(*                                                                         *)
(* A measurement is what Recalculated yields.  Thresholds of error rates   *)
(* are in units of 1 / RatioUnit.  A set of issues stands for the codes, which *)
(* are always reported in one order.                                       *)
(***************************************************************************)
EXTENDS InferdromeBundle

\* The precedence of a verdict of two rules
Overall(statuses) ==
    CASE "FAIL" \in statuses -> "FAIL"
      [] "FAIL" \notin statuses /\ "NOT_PROVEN" \in statuses -> "NOT_PROVEN"
      [] OTHER -> "PASS"

Issues(tests) == {t[1] : t \in {t \in tests : t[2]}}

-----------------------------------------------------------------------------
(***************************************************************************)
(* The import of a bundle that names the contract.                         *)
(***************************************************************************)

\* The prompts the context would send, one after the other and again
ExpectedPrompts(c) == [i \in 1..c.requests |-> c.prompts[((i - 1) % Len(c.prompts)) + 1]]

\* _evaluate_applicability
Applicability(b, c, measured) ==
    LET t == b.resolved_spec.traffic
        planned == b.request_plan.requests IN
    Issues({<<"CONTRACT_LINK", b.bundle_descriptor.contract # c.contract>>,
            <<"TARGET_MODEL", b.resolved_spec.model # c.model>>,
            <<"ENDPOINT", b.resolved_spec.endpoint # c.endpoint>>,
            <<"ADAPTER", b.resolved_spec.producer # c.producer>>,
            <<"REQUEST_POPULATION", {t.measured, measured.attempted} # {c.requests}>>,
            <<"TRAFFIC", t.kind # "concurrent" \/ t.level # c.concurrency
                            \/ t.warmup # c.warmup \/ c.retries # 0>>,
            <<"SAMPLING", b.resolved_spec.sampling # c.sampling>>,
            <<"WORKLOAD_PROMPT", [i \in DOMAIN planned |-> planned[i].prompt] # ExpectedPrompts(c)>>,
            <<"ENVIRONMENT_INCOMPLETE", b.bundle_descriptor.completeness # "COMPLETE">>,
            <<"ANOMALOUS_RECORD", measured.anomalous > 0>>,
            <<"TTFT_DEFINITION", b.resolved_spec.measurement # c.definition>>,
            <<"RELIABILITY_CLASSIFICATION", c.classified /\ measured.failed > 0>>})

General(issues) == issues \ {"ANOMALOUS_RECORD", "TTFT_DEFINITION"}

Meets(value, threshold, operator) ==
    IF operator = "lt" THEN value < threshold ELSE value <= threshold

\* The rule on the 95th percentile; a threshold that is no whole number of
\* nanoseconds is Absent.
TtftTarget(measured, c, issues) ==
    IF \/ General(issues) # {} \/ "TTFT_DEFINITION" \in issues
       \/ c.threshold = Absent
       \/ measured.successful < c.minimumSamples
       \/ measured.p95 = Absent
    THEN "NOT_PROVEN"
    ELSE IF Meets(measured.p95, c.threshold, c.operator) THEN "PASS" ELSE "FAIL"

\* The rule on the error rate
ErrorRule(measured, c, issues) ==
    IF General(issues) # {} \/ measured.attempted # c.minimumAttempts THEN "NOT_PROVEN"
    ELSE IF RatioUnit * measured.failed < c.errorThreshold * measured.attempted THEN "PASS" ELSE "FAIL"

\* Mutant: the better of the two rules decides.
EvaluateContractOptimist(measured, c, issues) ==
    LET statuses == {TtftTarget(measured, c, issues), ErrorRule(measured, c, issues)} IN
    IF "PASS" \in statuses THEN "PASS" ELSE Overall(statuses)

\* _evaluate_contract
EvaluateContract(measured, c, issues) ==
    Overall({TtftTarget(measured, c, issues), ErrorRule(measured, c, issues)})

\* import_inferdrome_bundle: the verdict and what the receipt is bound to, or
\* nothing for a bundle or a contract that is refused.
Import(b, c, confirmed, retained) ==
    IF ~confirmed \/ ~Verifies(b, "none", retained) THEN <<>>
    ELSE LET measured == Recalculated(b.request_records)
             issues == Applicability(b, c, measured) IN
         <<[verdict |-> EvaluateContract(measured, c, issues), issues |-> issues,
            measured |-> measured, contract |-> c.contract]>>

-----------------------------------------------------------------------------
(***************************************************************************)
(* The retrospective import: the contract is younger than the measurement, *)
(* so the bundle names none and the receipt binds the two.                 *)
(***************************************************************************)

TtftOnly == {"METRIC_DEFINITION", "REDUCER", "LATENCY_POPULATION", "SUCCESSFUL_SAMPLE"}

\* _require_exact_retrospective_binding
RetrospectiveBinding(b, id) ==
    /\ b.producer_invocation.proof # <<>>
    /\ id.mode = "EXTERNAL_RECEIPT" /\ id.chronology = "RETROSPECTIVE"
    /\ b.bundle_descriptor.contract = "none" /\ b.resolved_spec.contract = "none"

\* _evaluate_applicability of the managed import
ManagedIssues(b, id, measured) ==
    LET t == b.resolved_spec.traffic IN
    Issues({<<"EVIDENCE_PROFILE", id.producer # b.bundle_descriptor.producer \/ id.producer # b.resolved_spec.producer>>,
            <<"TARGET_MODEL", b.resolved_spec.model # id.model>>,
            <<"MODEL_REVISION", b.resolved_spec.revision # id.revision>>,
            <<"ENDPOINT", b.resolved_spec.endpoint # id.endpoint>>,
            <<"REQUEST_PLAN", b.bundle_descriptor.plan.requests # id.plan>>,
            <<"WORKLOAD", b.resolved_spec.workload # id.workload>>,
            <<"CONFIGURED_CONCURRENCY", t.kind # "concurrent" \/ t.level # id.concurrency>>,
            <<"REQUEST_POPULATION", {t.measured, measured.attempted} # {id.attempts}>>,
            <<"WARMUP_POPULATION", t.warmup # id.warmup>>,
            <<"METRIC_DEFINITION", b.resolved_spec.measurement # id.definition>>,
            <<"REDUCER", id.reducer # "nearest_rank">>,
            <<"LATENCY_POPULATION", id.population # "successful">>,
            <<"SUCCESSFUL_SAMPLE", measured.successful < id.samples>>})

\* _evaluate_managed_verdict; errors are compared before latencies.
ManagedVerdict(measured, id, issues) ==
    LET population == /\ measured.attempted = id.attempts
                      /\ measured.successful + measured.failed = measured.attempted
                      /\ measured.anomalous <= measured.failed IN
    IF issues \ TtftOnly # {} \/ ~population THEN "NOT_PROVEN"
    ELSE IF RatioUnit * measured.failed >= id.errorThreshold * measured.attempted THEN "FAIL"
    ELSE IF issues # {} \/ measured.p95 = Absent THEN "NOT_PROVEN"
    ELSE IF measured.p95 < id.threshold THEN "PASS" ELSE "FAIL"

\* The facts the receipt shows: for every code it can check, whether requested
\* and observed differ.
ReceiptFacts(b, id, measured) ==
    [issues |-> ManagedIssues(b, id, measured), attempted |-> measured.attempted,
     failed |-> measured.failed, successful |-> measured.successful, p95 |-> measured.p95,
     errorThreshold |-> id.errorThreshold, threshold |-> id.threshold,
     attempts |-> id.attempts, samples |-> id.samples]

\* Mutant: latency is looked at first.
ReceiptVerdictLatencyFirst(r) ==
    IF r.issues \ TtftOnly # {} THEN {"NOT_PROVEN"}
    ELSE IF r.issues # {} THEN {"NOT_PROVEN"}
    ELSE IF RatioUnit * r.failed >= r.errorThreshold * r.attempted THEN {"FAIL"}
    ELSE IF r.p95 = Absent THEN {}
    ELSE {IF r.p95 < r.threshold THEN "PASS" ELSE "FAIL"}

\* require_semantic_consistency: the verdicts a receipt with these facts may
\* carry; there is none when a latency is needed that was not calculated.
ReceiptVerdict(r) ==
    IF r.issues \ TtftOnly # {} THEN {"NOT_PROVEN"}
    ELSE IF RatioUnit * r.failed >= r.errorThreshold * r.attempted THEN {"FAIL"}
    ELSE IF r.issues # {} THEN {"NOT_PROVEN"}
    ELSE IF r.p95 = Absent THEN {}
    ELSE {IF r.p95 < r.threshold THEN "PASS" ELSE "FAIL"}

\* ... and the codes agree with the facts.
ReceiptConsistent(r, verdict) ==
    /\ verdict \in ReceiptVerdict(r)
    /\ ("REQUEST_POPULATION" \in r.issues) = (r.attempted # r.attempts)
    /\ ("SUCCESSFUL_SAMPLE" \in r.issues) = (r.successful < r.samples)
    /\ r.successful + r.failed = r.attempted

\* import_managed_inferdrome_bundle
ManagedImport(b, id, confirmed, retained) ==
    IF ~confirmed \/ ~Verifies(b, "none", retained) \/ ~RetrospectiveBinding(b, id) THEN <<>>
    ELSE LET measured == Recalculated(b.request_records)
             verdict == ManagedVerdict(measured, id, ManagedIssues(b, id, measured))
             facts == ReceiptFacts(b, id, measured) IN
         <<[verdict |-> verdict, facts |-> facts, measured |-> measured,
            valid |-> ReceiptConsistent(facts, verdict)]>>

-----------------------------------------------------------------------------
(***************************************************************************)
(* Prospective admission: the contract was frozen and handed over first.   *)
(***************************************************************************)

\* _methodology: every fact of the case is the bundle's; nothing is left to a
\* verdict.
Methodology(b, case) ==
    /\ b.bundle_descriptor.eligible /\ b.bundle_descriptor.schema = "v1"
    /\ {b.bundle_descriptor.producer, b.resolved_spec.producer} = {case.producer}
    /\ b.resolved_spec.mode = "attached_endpoint" /\ b.resolved_spec.limit = case.limit
    /\ b.resolved_spec.engine = case.producer
    /\ b.resolved_spec.model = case.model /\ b.resolved_spec.revision = case.revision
    /\ b.resolved_spec.endpoint = case.endpoint
    /\ b.resolved_spec.traffic = case.traffic
    /\ b.request_plan.traffic = case.traffic /\ b.execution.traffic = case.traffic
    /\ b.resolved_spec.workload = case.workload /\ b.resolved_spec.sampling = case.sampling
    /\ b.resolved_spec.measurement = case.definition
    /\ b.resolved_spec.prompts = "include" /\ b.resolved_spec.responses = case.responses
    /\ b.producer_invocation.proof # <<>>
    /\ b.bundle_descriptor.fingerprint = case.fingerprint
    /\ b.bundle_descriptor.source = case.source
    /\ b.resolved_spec.experiment = case.experiment
    /\ Len(b.request_records) = case.traffic.measured

\* _ordered_plan: the rows of the workload, in their order, under the run's name
OrderedPlan(b, case) ==
    LET planned == b.request_plan.requests IN
    /\ Len(planned) = Len(case.rows)
    /\ b.request_plan.prefix = b.bundle_descriptor.run
    /\ \A i \in DOMAIN planned :
          planned[i] = [index |-> i, id |-> <<b.bundle_descriptor.run, i>>, kind |-> "inline",
                        text |-> case.rows[i], prompt |-> case.rows[i], sampling |-> case.sampling]

\* created <= approved <= decided <= frozen <= started <= ended <= received
Chronology(b, case, received) ==
    LET times == case.times \o <<b.execution.started, b.execution.ended, received>> IN
    \A i, j \in DOMAIN times : i < j => times[i] <= times[j]

\* _decision of the admission and of its receipt
Decision(measured, case, issues) ==
    IF RatioUnit * measured.failed >= case.errorThreshold * measured.attempted THEN "FAIL"
    ELSE IF issues # {} \/ measured.p95 = Absent THEN "NOT_PROVEN"
    ELSE IF measured.p95 < case.threshold THEN "PASS" ELSE "FAIL"

DecisionIssues(measured, case) ==
    Issues({<<"METRIC_DEFINITION", case.requested # case.definition>>,
            <<"SUCCESSFUL_SAMPLE", measured.successful < case.traffic.measured>>})

\* admit_prospective_bundle, for a handoff whose pins held; a refusal is empty.
Admit(b, case, expectedRun, retained, received) ==
    LET measured == Recalculated(b.request_records) IN
    IF \/ ~Verifies(b, "none", retained)
       \/ b.bundle_descriptor.run # expectedRun
       \/ {b.bundle_descriptor.contract, b.resolved_spec.contract} # {case.link}
       \/ ~Methodology(b, case) \/ ~OrderedPlan(b, case)
       \/ ~Chronology(b, case, received)
       \/ measured.attempted # case.traffic.measured
       \/ measured.anomalous > measured.failed
    THEN <<>>
    ELSE <<[verdict |-> Decision(measured, case, DecisionIssues(measured, case)),
            issues |-> DecisionIssues(measured, case), measured |-> measured,
            run |-> expectedRun, contract |-> case.link, received |-> received,
            started |-> b.execution.started, frozen |-> case.times[4]]>>

\* verify_prospective_receipt: the admission is done again as of the time the
\* receipt gives, and must yield the receipt.
VerifyReceipt(receipt, b, case, expectedRun, retained) ==
    Admit(b, case, expectedRun, retained, receipt.received) = <<receipt>>

-----------------------------------------------------------------------------
(***************************************************************************)
(* The gate of the external campaign archive.                              *)
(***************************************************************************)

\* Each document states the pinned facts of the one reviewed run, and nothing
\* else: its keys are exact, and so are the values that are compared.
ProfileDocument(doc) == doc.keys /\ doc.digest = "pinned" /\ doc.facts = "pinned"

\* _validate_handoff: where the archive comes from, and what it may be used for
HandoffOrigin(doc, expected) ==
    /\ doc.keys /\ doc.verdict = "none"
    /\ doc.archive = expected.archive /\ doc.delivery = expected.archive
    /\ doc.profile = "pinned" /\ doc.chronology = "RETROSPECTIVE"
    /\ doc.completed

\* ... and the run it describes, its population and its measurement
HandoffRun(doc, expected) ==
    /\ doc.run = expected.run /\ doc.bundle = expected.bundle
    /\ doc.population = expected.population
    /\ doc.p95 = expected.p95

\* ... on hardware that was observed, not attested
Handoff(doc, expected) ==
    HandoffOrigin(doc, expected) /\ HandoffRun(doc, expected) /\ ~doc.attested

PublicationReview(doc, expected) ==
    doc.keys /\ doc.status = "EXTERNAL_ONLY" /\ ~doc.modified /\ doc.archive = expected.archive
OperationalSummary(doc, expected) ==
    /\ doc.keys /\ doc.terminated
    /\ doc.archive = expected.archive /\ doc.bundle = expected.bundle /\ doc.run = expected.run

\* Mutant: anomalous records are counted as the failures they are.
AdmittedBundleAnomalous(b, expected) ==
    LET measured == Recalculated(b.request_records) IN
    /\ b.bundle_descriptor.run = expected.run
    /\ b.bundle_descriptor.eligible
    /\ [attempted |-> measured.attempted, failed |-> measured.failed] = expected.population
    /\ measured.p95 = expected.p95

\* _validate_admitted_bundle and the comparison of the recalculation
AdmittedBundle(b, expected) ==
    LET measured == Recalculated(b.request_records) IN
    /\ b.bundle_descriptor.run = expected.run
    /\ b.bundle_descriptor.eligible
    /\ [attempted |-> measured.attempted, failed |-> measured.failed] = expected.population
    /\ measured.anomalous = 0
    /\ measured.p95 = expected.p95

\* admit_a100_qwen3_retrospective: what is answered, and whether the extracted
\* bundle stays on disk.
Gate(docs, archive, b, expected) ==
    IF \/ ~ProfileDocument(docs.profile) \/ ~Handoff(docs.handoff, expected)
       \/ ~PublicationReview(docs.review, expected)
       \/ ~OperationalSummary(docs.summary, expected)
       \/ archive # expected.archive
       \/ ~Verifies(b, "a100", <<expected.bundle>>)
       \/ ~AdmittedBundle(b, expected)
    THEN [admitted |-> FALSE, kept |-> FALSE]
    ELSE [admitted |-> TRUE, kept |-> TRUE]
=============================================================================
