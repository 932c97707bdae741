---------------------------- MODULE MCAlgorithms ----------------------------
(***************************************************************************)
(* The pure algorithms, for TLC: one state per input.  A topic is chosen,  *)
(* then one of its inputs, and the properties compare what the algorithm   *)
(* computes of it with a definition of what it should.                     *)
(***************************************************************************)
EXTENDS Verdicts, RoutingCampaign, Workspace, WebApi, InferdromeImport, Proofability,
        PerformanceDecision, FiniteSetsExt, TLC

VARIABLES topic, input

-----------------------------------------------------------------------------
(***************************************************************************)
(* Bundles for the verifier: a run of two measured requests, written down  *)
(* by one of three producers (an attached endpoint, the managed legacy     *)
(* profile, the managed campaign profile), with up to two faults.  A fault *)
(* happens before the digests are taken, as one of the producer does, or   *)
(* after, as one of the storage does.                                      *)
(***************************************************************************)

Producers == {"attached", "legacy", "a100"}
ProfileOf(producer) == IF producer = "a100" THEN "a100" ELSE "none"

Entry(error, text, output, ttft, itl, start) ==
    [error |-> error, text |-> text, output |-> output, ttft |-> ttft, itl |-> itl, start |-> start]

\* What happens to a request; times are in half nanoseconds.
Entries ==
    [fast |-> Entry("", "t", 2, 4, <<3>>, 0), odd |-> Entry("", "t", 1, 5, <<>>, 0),
     slow |-> Entry("", "t", 3, 12, <<2, 2>>, 0), empty |-> Entry("", "", 0, 0, <<>>, 0),
     error |-> Entry("reset", "", 0, 0, <<>>, 0)]

Natives(kinds) == [i \in DOMAIN kinds |-> [Entries[kinds[i]] EXCEPT !.start = 10 + 7 * i]]

Traffic == [kind |-> "concurrent", level |-> 1, warmup |-> 1, measured |-> 2]
Rows == <<"p1", "p2">>

\* The canonical record the producer makes of a native entry
RecordOf(e, i) ==
    LET ok == NativeStatus(e) = "SUCCESS" IN
    [run |-> "run", index |-> i, id |-> <<"run", i>>, producer |-> PinnedProducer, source |-> i,
     prompt |-> Rows[i], status |-> NativeStatus(e), error |-> e.error,
     ttft |-> IF ok THEN SecondsToNs(e.ttft) ELSE Absent,
     itl |-> IF ok THEN [j \in DOMAIN e.itl |-> SecondsToNs(e.itl[j])] ELSE <<>>,
     output |-> e.output, offset |-> SecondsToNs(e.start - 17), response |-> e.text, content |-> "none"]

GpuProof(profile) ==
    [run |-> "run", selected |-> <<0>>, gpus |-> <<[index |-> 0, model |-> Pinned(profile).gpu, uuid |-> "u"]>>,
     devices |-> 1, queried |-> <<0>>, inventoryRows |-> <<[index |-> 0, model |-> Pinned(profile).gpu, uuid |-> "u"]>>,
     processes |-> <<[pid |-> 7, uuid |-> "u", group |-> 6]>>, processRows |-> <<[pid |-> 7, uuid |-> "u"]>>,
     pid |-> 6, group |-> 6, started |-> 1, ready |-> 2, captured |-> 3,
     snapshots |-> <<"model", "tokenizer">>, wheel |-> "wheel", boundary |-> "loopback_only",
     loopback |-> TRUE, executable |-> "bin", version |-> PinnedProducer, tokenizer |-> "tok",
     endpoint |-> "e", revision |-> "rev",
     argv |-> [executable |-> "bin", model |-> "qwen", seed |-> "0.7", endpoint |-> "e", gpu |-> 0,
               options |-> Pinned(profile).options]]

RoleOrder ==
    <<"bundle_descriptor", "original_spec", "resolved_spec", "request_plan", "environment", "execution",
      "producer_invocation", "producer_version", "producer_exit_status", "native_result", "native_stdout",
      "native_stderr", "request_records", "metric_definitions", "measurements", "integrity_manifest">>

Field(name, value, provenance, path) ==
    [name |-> name, value |-> value, provenance |-> provenance, path |-> path]

\* The artifacts, without the digests of one another.
Artifacts(producer, kinds, link) ==
    LET natives == Natives(kinds)
        sum == Sum([i \in DOMAIN natives |-> natives[i].output])
        errors == Cardinality({i \in DOMAIN natives : natives[i].error # ""})
        proof == IF producer = "attached" THEN <<>>
                 ELSE <<GpuProof(IF producer = "a100" THEN "a100" ELSE LegacyProfile)>>
        local == IF proof = <<>> THEN "CONFIGURED" ELSE "LOCALLY_VERIFIED" IN
    [bundle_descriptor |->
        [schema |-> "v1", eligible |-> TRUE, run |-> "run", experiment |-> "x",
         inventory |-> [i \in DOMAIN RoleOrder |->
                          [role |-> RoleOrder[i], path |-> RoleOrder[i], typed |-> TRUE,
                           sensitivity |-> Sensitivity([prompts |-> TRUE, responses |-> FALSE], RoleOrder[i])]],
         manifest |-> "integrity_manifest", prompts |-> TRUE, responses |-> FALSE,
         completeness |-> "COMPLETE", replay |-> "FULL", producer |-> PinnedProducer, contract |-> link],
     original_spec |-> "spec",
     resolved_spec |->
        [experiment |-> "x", producer |-> PinnedProducer, mode |-> "attached_endpoint",
         engine |-> PinnedProducer, model |-> "qwen", revision |-> "rev", endpoint |-> "e",
         workload |-> "prompts", sampling |-> "0.7", traffic |-> Traffic, measurement |-> "first_choices",
         prompts |-> "include", responses |-> "exclude", limit |-> 4, contract |-> link],
     request_plan |->
        [run |-> "run", experiment |-> "x", traffic |-> Traffic, prefix |-> "run", replay |-> "FULL",
         requests |-> [i \in 1..2 |-> [index |-> i, id |-> <<"run", i>>, kind |-> "inline",
                                       text |-> Rows[i], prompt |-> Rows[i], sampling |-> "0.7"]]],
     environment |->
        [run |-> "run", completeness |-> "COMPLETE", captured |-> 20,
         fields |-> <<Field("producer.version", PinnedProducer, "LOCALLY_VERIFIED", "producer_version"),
                      Field("server.model_id", "qwen", "SERVER_REPORTED", "producer_invocation"),
                      Field("gpu.model", IF producer = "a100" THEN "A100" ELSE "A10", local, "producer_invocation"),
                      Field("target.engine_version", PinnedProducer, local, "producer_invocation"),
                      Field("target.model_revision", "rev", "CONFIGURED", "producer_invocation")>>],
     execution |->
        [run |-> "run", terminal |-> "COMPLETE", exit |-> 0, started |-> 5, ended |-> 15, clock |-> "run",
         window |-> 20, traffic |-> Traffic,
         phases |-> <<[phase |-> "PREFLIGHT", count |-> 1, observed |-> TRUE, start |-> 5, end |-> 6],
                      [phase |-> "WARMUP", count |-> 1, observed |-> FALSE, start |-> Absent, end |-> Absent],
                      [phase |-> "MEASURING", count |-> 2, observed |-> TRUE, start |-> 6, end |-> 14],
                      [phase |-> "FINALIZING", count |-> Absent, observed |-> TRUE, start |-> 14, end |-> 15]>>],
     producer_invocation |->
        [extra |-> {}, proof |-> proof, campaign |-> ProfileOf(producer),
         argv |-> [executable |-> IF proof = <<>> THEN "vllm" ELSE "bin", model |-> "qwen", endpoint |-> "e",
                   tokenizer |-> "tok", traffic |-> Traffic, sampling |-> "0.7",
                   arguments |-> IF producer = "a100" THEN "extended" ELSE "none", prefix |-> "run"],
         preflight |-> [status |-> 200, target |-> "qwen", models |-> <<"qwen">>, response |-> <<"qwen">>]],
     producer_version |-> PinnedProducer, producer_exit_status |-> "0",
     native_result |->
        [model |-> "qwen", tokenizer |-> "tok", prompts |-> 2, traffic |-> Traffic,
         completed |-> 2 - errors, failed |-> errors, output |-> sum, duration |-> 40, entries |-> natives],
     native_stdout |-> "", native_stderr |-> "",
     request_records |-> [i \in 1..2 |-> RecordOf(natives[i], i)],
     metric_definitions |-> "v1",
     measurements |-> [run |-> "run", reducer |-> "1.0.0"],
     integrity_manifest |-> [run |-> "run", ordered |-> TRUE]]

\* The digests, from the innermost out, and the measurements of the records.
Seal(a) ==
    LET plan == [source |-> a.original_spec] @@ a.request_plan
        partial == [source |-> a.original_spec, plan |-> plan, definitions |-> a.metric_definitions,
                    fingerprint |-> Fingerprint(a.resolved_spec)] @@ a.bundle_descriptor
        metadata == [run |-> partial.run, fingerprint |-> partial.fingerprint,
                     workload |-> a.resolved_spec.workload, producer |-> partial.producer]
        native == [metadata |-> metadata] @@ a.native_result
        execution == [native |-> native] @@ a.execution
        measured == [definitions |-> a.metric_definitions, records |-> a.request_records, execution |-> execution,
                     values |-> Measured(a.request_records, a.execution.window)] @@ a.measurements
        sealed == [bundle_descriptor |-> partial, request_plan |-> plan, native_result |-> native,
                   execution |-> execution, measurements |-> measured,
                   producer_invocation |-> [metadata |-> metadata,
                        argv |-> [metadata |-> metadata] @@ a.producer_invocation.argv] @@ a.producer_invocation] @@ a IN
    [sealed EXCEPT !.integrity_manifest =
        [entries |-> [r \in ArtifactRoles \ {"integrity_manifest"} |-> sealed[r]]] @@ @]

-----------------------------------------------------------------------------
(* Faults. *)

Faults ==
    {"run_plan", "run_environment", "run_record", "traffic_execution", "traffic_resolved", "experiment",
     "contract", "model", "endpoint", "workload", "sampling", "window", "phase_overlap", "phase_outside",
     "record_status", "record_ttft", "record_swap", "record_offset", "native_ttft", "native_failed", "native_swap",
     "environment_value", "environment_unknown", "preflight", "argv", "tokenizer", "exit",
     "sensitivity", "ineligible", "prompt_text", "replay", "ended", "values"}
ProofFaults == {"gpu", "group", "late_proof", "process_row", "revision", "options", "loopback", "no_proof"}

SetProof(b, proof) == [b EXCEPT !.producer_invocation.proof = <<proof>>]

Break(b, fault) ==
    CASE fault = "run_plan" -> [b EXCEPT !.request_plan.run = "other"]
      [] fault = "run_environment" -> [b EXCEPT !.environment.run = "other"]
      [] fault = "run_record" -> [b EXCEPT !.request_records[1].run = "other"]
      [] fault = "traffic_execution" -> [b EXCEPT !.execution.traffic.level = 2]
      [] fault = "traffic_resolved" -> [b EXCEPT !.resolved_spec.traffic.level = 2]
      [] fault = "experiment" -> [b EXCEPT !.request_plan.experiment = "y"]
      [] fault = "contract" -> [b EXCEPT !.resolved_spec.contract = "other"]
      [] fault = "model" -> [b EXCEPT !.resolved_spec.model = "llama"]
      [] fault = "endpoint" -> [b EXCEPT !.resolved_spec.endpoint = "e2"]
      [] fault = "workload" -> [b EXCEPT !.resolved_spec.workload = "w2"]
      [] fault = "sampling" -> [b EXCEPT !.resolved_spec.sampling = "1.0"]
      [] fault = "window" -> [b EXCEPT !.execution.window = 10]
      [] fault = "phase_overlap" -> [b EXCEPT !.execution.phases[3].start = 5]
      [] fault = "phase_outside" -> [b EXCEPT !.execution.phases[4].end = 16]
      [] fault = "record_status" -> [b EXCEPT !.request_records[1].status = "SUCCESS", !.request_records[1].error = ""]
      [] fault = "record_ttft" -> [b EXCEPT !.request_records[2].ttft = 1]
      [] fault = "record_swap" -> [b EXCEPT !.request_records = <<@[2], @[1]>>]
      [] fault = "record_offset" -> [b EXCEPT !.request_records[2].offset = 0]
      [] fault = "native_ttft" -> [b EXCEPT !.native_result.entries[2].ttft = 9]
      [] fault = "native_failed" -> [b EXCEPT !.native_result.failed = 0, !.native_result.completed = 2]
      [] fault = "native_swap" -> [b EXCEPT !.native_result.entries = <<@[2], @[1]>>]
      [] fault = "environment_value" -> [b EXCEPT !.environment.fields[3].value = "H100"]
      [] fault = "environment_unknown" -> [b EXCEPT !.environment.fields[3] = Field("gpu.model", "none", "UNKNOWN", "none"),
                                                    !.environment.completeness = "PARTIAL",
                                                    !.bundle_descriptor.completeness = "PARTIAL"]
      [] fault = "preflight" -> [b EXCEPT !.producer_invocation.preflight.models = <<"llama">>]
      [] fault = "argv" -> [b EXCEPT !.producer_invocation.argv.traffic.warmup = 0]
      [] fault = "tokenizer" -> [b EXCEPT !.producer_invocation.argv.tokenizer = "other"]
      [] fault = "exit" -> [b EXCEPT !.producer_exit_status = "1"]
      [] fault = "sensitivity" -> [b EXCEPT !.bundle_descriptor.responses = TRUE]
      [] fault = "ineligible" -> [b EXCEPT !.bundle_descriptor.eligible = FALSE]
      [] fault = "prompt_text" -> [b EXCEPT !.request_plan.requests[1].text = "p9"]
      [] fault = "replay" -> [b EXCEPT !.request_plan.requests[1].kind = "digest_only"]
      [] fault = "ended" -> [b EXCEPT !.execution.ended = 25]
      [] fault = "values" -> [b EXCEPT !.measurements.reducer = "0.9"]
      [] fault = "no_proof" -> [b EXCEPT !.producer_invocation.proof = <<>>]
      [] b.producer_invocation.proof = <<>> -> b
      [] fault = "gpu" -> SetProof(b, [b.producer_invocation.proof[1] EXCEPT !.gpus[1].model = "T4", !.inventoryRows[1].model = "T4"])
      [] fault = "group" -> SetProof(b, [b.producer_invocation.proof[1] EXCEPT !.processes[1].group = 9])
      [] fault = "late_proof" -> SetProof(b, [b.producer_invocation.proof[1] EXCEPT !.captured = 9])
      [] fault = "process_row" -> SetProof(b, [b.producer_invocation.proof[1] EXCEPT !.processRows = <<>>])
      [] fault = "revision" -> SetProof(b, [b.producer_invocation.proof[1] EXCEPT !.revision = "rev2"])
      [] fault = "options" -> SetProof(b, [b.producer_invocation.proof[1] EXCEPT !.argv.options = "other"])
      [] fault = "loopback" -> SetProof(b, [b.producer_invocation.proof[1] EXCEPT !.loopback = FALSE])
      [] OTHER -> b

\* A case is [producer, kinds, link, faults, early]; early faults are sealed.
Faulty(b, faults) == FoldSet(LAMBDA f, x : Break(x, f), b, faults)

BundleOf(case) ==
    IF case.early THEN Seal(Faulty(Artifacts(case.producer, case.kinds, case.link), case.faults))
    ELSE Faulty(Seal(Artifacts(case.producer, case.kinds, case.link)), case.faults)

Kinds == {<<a, b>> : a \in DOMAIN Entries, b \in DOMAIN Entries}

BundleCases ==
    {[producer |-> p, kinds |-> k, link |-> l, faults |-> f, early |-> e] :
        p \in Producers, k \in Kinds, l \in {"none", "c1"},
        f \in {{x} : x \in Faults \cup ProofFaults} \cup {{}}, e \in BOOLEAN}
    \cup
    {[producer |-> p, kinds |-> k, link |-> "none", faults |-> f, early |-> TRUE] :
        p \in {"legacy", "a100"}, k \in {<<"slow", "error">>},
        f \in {{x, y} : x \in Faults, y \in ProofFaults \cup Faults}}

-----------------------------------------------------------------------------
(* Properties. *)

\* The 95th percentile by its definition: the least value that at least 95 of
\* 100 of the successes do not exceed.
Percentile95(values) ==
    LET all == {values[i] : i \in DOMAIN values}
        upTo(v) == Cardinality({i \in DOMAIN values : values[i] <= v})
        enough == {v \in all : 100 * upTo(v) >= 95 * Len(values)} IN
    CHOOSE v \in enough : \A w \in enough : v <= w

\* verify_inferdrome_bundle accepts what was recorded and only that: a run
\* without a fault verifies, and in a bundle that verifies everything speaks of
\* one run, one target and one traffic; in a managed one the proof of the GPU
\* was taken before the run by the server's own processes, and the measurement
\* that the import goes on with is the one the native output yields, although
\* records, digests and measurements are recomputed by the same producer.
EvidenceIsCoherent(case, b) ==
    LET inv == b.producer_invocation
        native == SelectSeq(b.native_result.entries, LAMBDA e : e.error = "" /\ ~(e.text = "" /\ e.output = 0))
        measured == Recalculated(b.request_records) IN
    /\ case.faults = {} => Verifies(b, ProfileOf(case.producer), <<b.integrity_manifest>>)
    /\ Verifies(b, ProfileOf(case.producer), <<>>) =>
        /\ {b.request_plan.run, b.environment.run, b.execution.run, inv.metadata.run, b.native_result.metadata.run}
              = {b.integrity_manifest.run}
        /\ {b.request_plan.traffic, b.execution.traffic, inv.argv.traffic} = {b.resolved_spec.traffic}
        /\ {inv.argv.model, inv.preflight.target} = {b.resolved_spec.model}
        /\ case.producer = "a100" => inv.proof # <<>>
        /\ inv.proof # <<>> =>
            /\ inv.proof[1].captured <= b.execution.started
            /\ \A i \in DOMAIN inv.proof[1].processes : inv.proof[1].processes[i].group = inv.proof[1].pid
            /\ inv.proof[1].endpoint = inv.argv.endpoint
            /\ measured.failed = Len(b.native_result.entries) - Len(native)
            /\ native = <<>> => measured.p95 = Absent
            /\ native # <<>> => measured.p95 = SecondsToNs(Percentile95([i \in DOMAIN native |-> native[i].ttft]))

\* The documents of the external campaign, of the run as it was reviewed; a
\* flaw makes one of them speak of another run.
Documents(b, flaw) ==
    LET measured == Recalculated(b.request_records)
        population == [attempted |-> measured.attempted, failed |-> measured.failed]
        run == IF flaw = "run" THEN "other" ELSE "run" IN
    [profile |-> [keys |-> TRUE, digest |-> "pinned", facts |-> "pinned"],
     handoff |-> [keys |-> TRUE, verdict |-> IF flaw = "verdict" THEN "PASS" ELSE "none",
                  chronology |-> "RETROSPECTIVE", archive |-> "tar", delivery |-> "tar", run |-> run,
                  profile |-> "pinned", completed |-> TRUE, attested |-> flaw = "attested",
                  bundle |-> b.integrity_manifest, population |-> population,
                  p95 |-> IF flaw = "p95" THEN 1 ELSE measured.p95],
     review |-> [keys |-> TRUE, status |-> "EXTERNAL_ONLY", modified |-> flaw = "modified", archive |-> "tar"],
     summary |-> [keys |-> TRUE, terminated |-> flaw # "running", archive |-> "tar",
                  bundle |-> b.integrity_manifest, run |-> run]]

DocumentFlaws == {"none", "run", "verdict", "p95", "modified", "running", "attested"}

\* The gate of the external campaign keeps an extracted bundle exactly if it is
\* the reviewed one, without an anomalous record, and if the documents state
\* its measurement: one document that speaks of another run refuses it.
GateKeepsTheReviewed(case, b, reviewed) ==
    case.producer = "a100" =>
        LET measured == Recalculated(reviewed.request_records)
            expected == [archive |-> "tar", run |-> "run", bundle |-> reviewed.integrity_manifest, p95 |-> measured.p95,
                         population |-> [attempted |-> measured.attempted, failed |-> measured.failed]] IN
        \A flaw \in DocumentFlaws :
            LET answer == Gate(Documents(reviewed, flaw), "tar", b, expected) IN
            answer.kept = (b = reviewed /\ "empty" \notin {case.kinds[1], case.kinds[2]} /\ flaw = "none")

\* What is asked of a run: limits on its latency and its errors.
Limits == [threshold : {3, 6}, errorThreshold : {1, 500}]

CaseOf(l, source) ==
    [producer |-> PinnedProducer, limit |-> 4, model |-> "qwen", revision |-> "rev", endpoint |-> "e",
     traffic |-> Traffic, workload |-> "prompts", sampling |-> "0.7", definition |-> "first_choices",
     requested |-> "first_choices", responses |-> "exclude", fingerprint |-> source.fingerprint,
     source |-> "spec", experiment |-> "x", link |-> "c1", rows |-> Rows, times |-> <<1, 2, 3, 4>>,
     threshold |-> l.threshold, errorThreshold |-> l.errorThreshold]

ContextOf(l) ==
    [contract |-> "c1", model |-> "qwen", endpoint |-> "e", producer |-> PinnedProducer, requests |-> 2,
     concurrency |-> 1, warmup |-> 1, retries |-> 0, sampling |-> "0.7", prompts |-> Rows,
     definition |-> "first_choices", classified |-> FALSE, threshold |-> l.threshold, operator |-> "lt",
     minimumSamples |-> 2, minimumAttempts |-> 2, errorThreshold |-> l.errorThreshold]

IdentityOf(l, plan) ==
    [mode |-> "EXTERNAL_RECEIPT", chronology |-> "RETROSPECTIVE", producer |-> PinnedProducer, model |-> "qwen",
     revision |-> "rev", endpoint |-> "e", plan |-> plan, workload |-> "prompts", concurrency |-> 1,
     attempts |-> 2, warmup |-> 1, definition |-> "first_choices", reducer |-> "nearest_rank",
     population |-> "successful", samples |-> 2, errorThreshold |-> l.errorThreshold, threshold |-> l.threshold]

\* Evidence has one verdict, whichever way it comes in: the same run, imported
\* under a linked contract, imported in retrospect, and admitted prospectively,
\* under the same limits, is judged alike by three reductions that compare
\* errors and latencies in different orders; and the receipt of the import in
\* retrospect passes the validation of its own model, that of the admission
\* the admission done again.
OneVerdict(case, free, linked) ==
    \A l \in Limits :
        LET admitted == Admit(linked, CaseOf(l, linked.bundle_descriptor), "run", <<>>, 30)
            imported == Import(linked, ContextOf(l), TRUE, <<>>)
            managed == ManagedImport(free, IdentityOf(l, Artifacts(case.producer, case.kinds, "none").request_plan.requests), TRUE, <<>>) IN
        /\ case.faults = {} /\ case.producer = "legacy" => admitted # <<>> /\ imported # <<>> /\ managed # <<>>
        /\ admitted # <<>> /\ imported # <<>> => admitted[1].verdict = imported[1].verdict
        /\ managed # <<>> => managed[1].valid
        /\ admitted # <<>> =>
            VerifyReceipt(admitted[1], linked, CaseOf(l, linked.bundle_descriptor), "run", <<>>)
        /\ managed # <<>> /\ admitted # <<>> => managed[1].verdict = admitted[1].verdict

-----------------------------------------------------------------------------
(* Verdicts: two criteria, and up to three results, some of another one. *)

Criterion(must, excluded, disposition) ==
    [must |-> must, excluded |-> excluded, disposition |-> disposition]

CriterionShapes ==
    {Criterion(TRUE, FALSE, "EVIDENCE_IMPORT"), Criterion(TRUE, FALSE, "UNSUPPORTED"),
     Criterion(TRUE, TRUE, "EVIDENCE_IMPORT"), Criterion(FALSE, FALSE, "EXECUTABLE"),
     Criterion(FALSE, FALSE, "UNSUPPORTED")}

\* A result that disagrees with the plan need only be a passing one.
ResultShapes ==
    [id : {"c1", "c2", "other"}, verdict : VerdictStatuses \cup {NoVerdict}, agrees : {TRUE}]
    \cup [id : {"c1", "c2", "other"}, verdict : {"PASS"}, agrees : {FALSE}]

VerdictInput ==
    \E crit \in [{"c1", "c2"} -> CriterionShapes], n \in 0..3 :
        \E res \in [1..n -> ResultShapes] : input' = <<crit, res>>

MaxSamples == 20

ProportionInput ==
    \E threshold \in 0..Scale, minimum \in {1, 5}, flaw \in Flaws, n \in 0..MaxSamples :
        \E s \in 0..n :
            input' = <<[threshold |-> threshold, minimum |-> minimum], flaw, n, s>>

-----------------------------------------------------------------------------
(* Routing: two repetitions of two requests for each of the two policies. *)

CampaignContract ==
    [hash |-> "h", digest |-> "h", terms |-> "w", status |-> "FROZEN", confirmation |-> 1,
     candidate |-> "p", baseline |-> "q", sloPolicies |-> <<"p", "q">>,
     rules |-> [candidate |-> [policy |-> "p", latency |-> 1, minimum |-> 2, rate |-> 3],
                baseline |-> [policy |-> "q", latency |-> 2, minimum |-> 1, rate |-> 9]],
     reductionPolicies |-> <<"p", "q">>, trials |-> 1, requests |-> 2,
     configuration |-> "c", trace |-> "t", injection |-> "i",
     maxAge |-> 1, serving |-> "s", repetitionCount |-> 2, repetitions |-> {1, 2}]

CampaignConfirmation == [id |-> 1, decision |-> "CONFIRM", acknowledged |-> TRUE, terms |-> "w"]

RequestEnds == {"absent", "quick", "slow", "TIMEOUT", "CANCELLED"}

RequestReceipts(rep, role, request, end) ==
    IF end = "absent" THEN <<>> ELSE
    <<[receipt |-> <<rep, role, request>>, run |-> rep, repetition |-> rep, contract |-> "h",
       producer |-> "m", configuration |-> "c", at |-> 2, trial |-> 0, request |-> request,
       role |-> role, policy |-> IF role = "candidate" THEN "p" ELSE "q",
       outcome |-> IF end \in {"quick", "slow"} THEN "SUCCESS" ELSE end,
       latency |-> IF end = "quick" THEN <<1>> ELSE IF end = "slow" THEN <<2>> ELSE <<>>]>>

\* The receipts in the order of their coordinates
CampaignRun(rep, ends, base, stale, reset) ==
    [id |-> rep, repetition |-> rep, class |-> "EXTERNAL_SEALED_EVIDENCE", contract |-> "h",
     producer |-> "m", candidate |-> "p", baseline |-> "q", configuration |-> "c", trace |-> "t",
     injection |-> "i", serving |-> "s", observed |-> 3,
     telemetry |-> [id |-> rep, run |-> rep, producer |-> "m", environment |-> "s",
                    at |-> IF stale THEN 1 ELSE 2],
     resets |-> IF reset = "none" THEN <<>>
                ELSE <<[id |-> rep, run |-> rep, repetition |-> rep, producer |-> "m",
                        trial |-> 0, at |-> 1, status |-> reset]>>,
     assignments |-> FlattenSeq([n \in 1..2 |-> RequestReceipts(rep, "candidate", n - 1, ends[n])
                                                 \o RequestReceipts(rep, "baseline", n - 1, base)])]

CampaignFlaws == {"none", "one", "swapped", "twice", "copied", "mixed", "other", "unordered"}

Flawed(a, b, flaw) ==
    CASE flaw = "none" -> <<a, b>>
      [] flaw = "one" -> <<a>>
      [] flaw = "swapped" -> <<b, a>>
      [] flaw = "twice" -> <<a, a>>
      [] flaw = "copied" -> <<a, [b EXCEPT !.telemetry.id = 1]>>
      [] flaw = "mixed" -> <<a, [b EXCEPT !.class = "SYNTHETIC_FIXTURE"]>>
      [] flaw = "other" -> <<a, [b EXCEPT !.contract = "g"]>>
      [] flaw = "unordered" -> <<a, [b EXCEPT !.assignments = Reverse(@)]>>

CampaignInput ==
    \E e, f \in RequestEnds \X RequestEnds, base \in {"absent", "quick", "CANCELLED"},
       stale \in BOOLEAN, reset \in {"none", "RESET_CONFIRMED", "RESET_FAILED"}, flaw \in CampaignFlaws :
        /\ flaw # "none" => ~stale /\ reset = "RESET_CONFIRMED"
        /\ input' = Flawed(CampaignRun(1, e, base, stale, reset),
                           CampaignRun(2, f, "quick", FALSE, "RESET_CONFIRMED"), flaw)

-----------------------------------------------------------------------------
(* Workspace: what the dashboard is told of a POC. *)

Counts == {0, 1}
CustomerDecisions == {"none", "CONFIRM", "REQUEST_CHANGES"}

\* Facts of a POC before its proof, and of one with a proof.
EarlyFacts ==
    [available : {TRUE}, sources : Counts, types : Counts, pending : Counts, kept : Counts,
     defined : Counts, named : 0..2, approved : Counts, issued : BOOLEAN,
     status : {"none", "DRAFT", "APPROVED", "FROZEN", "SUPERSEDED"}, decision : CustomerDecisions,
     matches : {"none", "TRUE", "FALSE"}, revision : BOOLEAN, run : {"none"}, verdict : {"none"},
     reason : {FALSE}, pack : {"none"}]
LateFacts ==
    [available : {TRUE}, sources : {1}, types : {1}, pending : Counts, kept : {1}, defined : {1},
     named : {2}, approved : {1}, issued : BOOLEAN, status : {"none", "APPROVED", "FROZEN"},
     decision : CustomerDecisions, matches : {"none", "TRUE", "FALSE"}, revision : {FALSE},
     run : {"none", "RUNNING"} \cup RunsEnded, verdict : {"none", "PASS", "NOT_PROVEN", "BLOCKED"},
     reason : BOOLEAN, pack : {"none", "inside", "outside"}]

DraftCounts ==
    [sources : Counts, pending : Counts, kept : Counts, rejected : Counts, defined : Counts]

\* An agreement as its service leaves it (FrozenIsConfirmed of Agreement).
AgreementFacts ==
    {a \in [prepared : BOOLEAN, revision : BOOLEAN, link : {"live", "none"},
            decision : CustomerDecisions, frozen : BOOLEAN, external : BOOLEAN,
            proof : {"none", "RUNNING", "BLOCKED", "NOT_PROVEN", "COMPLETED"},
            verdict : {"PASS"}, intact : BOOLEAN] :
        /\ a.frozen => a.decision = "CONFIRM" /\ a.prepared
        /\ a.proof # "none" => a.frozen
        /\ ~a.prepared => a.decision = "none" /\ ~a.external /\ a.link = "none"}

ClosureFacts ==
    {<<>>} \cup {<<[binding |-> b, decision |-> d]>> :
                   b \in {<<"pack", 1>>, <<"pack", 2>>, <<"receipt", 2>>},
                   d \in {"HANDOFF_COMPLETED", "POC_STOPPED"}}

\* The POC on a dashboard with a completed one and one of somebody else.
Board(archive, d, a, run, closure) ==
    LET row == WorkspaceRow(archive, d, a, run, closure, FALSE) IN
    {[row |-> row, own |-> TRUE, since |-> 1],
     [row |-> [row EXCEPT !.archive = "COMPLETED"], own |-> TRUE, since |-> 2],
     [row |-> row, own |-> FALSE, since |-> 3]}

\* The current attempt is 2, and its proof is complete exactly if it is.
ViewInput ==
    \E d \in {x \in DraftCounts : CountsFit(x.pending + x.kept + x.rejected, x)},
       a \in AgreementFacts, c \in ClosureFacts, completed \in SUBSET {1, 2} :
        /\ a.proof = "COMPLETED" <=> 2 \in completed
        /\ input' = <<"ACTIVE", d, a, completed, 2, c>>

-----------------------------------------------------------------------------
(* Requests of the browser server and of the proofability listener. *)

Apis == {"performance", "source", "stt", "meeting", "proposal", "definition", "authoring",
         "planner", "agreement", "review", "evidence", "zoom_live", "reference", "page"}
ApiRoutes ==
    {"readiness", "latest", "operation", "runs", "collection", "sources", "disclosure", "captures",
     "consents", "consent", "start", "draft", "session", "decision", "definitions", "authoring",
     "retained", "freeze", "revision", "review", "pack", "handoff", "stop", "receipt", "proof",
     "agreement", "closure"}

RequestInput ==
    \E api \in Apis, method \in {"GET", "POST", "PUT"}, route \in ApiRoutes,
       fields, current, kept, own, known \in BOOLEAN :
        input' = <<api, [method |-> method, route |-> route, fields |-> fields,
                         current |-> current, kept |-> kept, own |-> own, known |-> known,
                         active |-> known, frozen |-> current]>>

LengthTokens == {"zero", "some", "huge", "bad"}

ListenerInput ==
    \E form \in {"origin", "absolute", "other"}, target \in {"api", "page", "none"},
       method \in {"GET", "POST", "PUT"}, exact, encoding, keyHeader, media, origin \in BOOLEAN,
       lengths \in {<<>>} \cup {<<t>> : t \in LengthTokens} \cup {<<"some", t>> : t \in LengthTokens},
       body \in {"short", "deep", "bad", "other fields", "fields"} :
        input' = <<[form |-> form, target |-> target, exact |-> exact, method |-> method,
                    encoding |-> encoding, keyHeader |-> keyHeader, lengths |-> lengths,
                    media |-> media, origin |-> origin, body |-> body]>>

-----------------------------------------------------------------------------
(* Bundles: a case, with its bundle, the one as it was reviewed, and the one   *)
(* under a linked contract.                                                    *)

BundleInput ==
    \E case \in BundleCases :
        input' = <<case>> \o
            [i \in 1..3 |-> BundleOf(<<case, [case EXCEPT !.faults = {}], [case EXCEPT !.link = "c1"]>>[i])]

-----------------------------------------------------------------------------
(* Proofability: reports of a criterion, and questions with their links. *)

PairReasons ==
    {"INCOMPATIBLE_RELIABILITY_BINDING", "INCOMPATIBLE_METRIC_DEFINITION",
     "INCOMPATIBLE_SOURCE_FIELD"}

IncompatibleSets ==
    {{Incompatible(a, b, c)} : a, b \in Observations, c \in PairReasons}
    \cup {{Incompatible(a, b, c) : c \in IncompatibilityReasons(a, b)} : a, b \in Observations}

ReasonSets(missing, incompatible) ==
    {{AllAvailable}, {Unmappable},
     {i.reason : i \in incompatible} \cup (IF missing = {} THEN {} ELSE {MissingObservation})}

Remediations == {NoRemediation, DeclareObservation, FreezeSchema}

ReportInput ==
    \E required, missing \in SUBSET Observations,
       available \in {{Native, Reliability}, {Native}, {}, Observations},
       incompatible \in IncompatibleSets,
       disposition \in {"PROVABLE", "NOT_PROVABLE", "CLARIFICATION_REQUIRED"} :
        \E reasons \in ReasonSets(missing, incompatible),
           remediation \in IF missing = {} THEN Remediations ELSE {DeclareObservation} :
            input' = <<[id |-> "c", disposition |-> disposition, required |-> required,
                        available |-> available, missing |-> missing,
                        incompatible |-> incompatible, reasons |-> reasons,
                        remediation |-> {remediation}]>>

QuestionKinds == {"native", "semantic", "legacy"}
QuestionCriteria ==
    {<<[id |-> "c1", kind |-> k]>> : k \in QuestionKinds}
    \cup {<<[id |-> "c1", kind |-> k], [id |-> "c2", kind |-> l]>> : k, l \in QuestionKinds}

\* The serving subject, with its context, is of one engine or another; a
\* descriptor is the registered one or one that is not registered.
Question(subject, scope, engine, contract, producer, criteria) ==
    [subject |-> [id |-> <<subject, engine>>, engine |-> engine],
     scope |-> [id |-> scope, contract |-> "q1"],
     context |-> [id |-> <<"x1", engine>>, subject |-> <<"s1", engine>>, scope |-> "sc1",
                  protocol |-> "supported"],
     contract |-> [id |-> contract, frozen |-> TRUE, criteria |-> criteria],
     descriptor |-> [id |-> producer, engine |-> "e1", registered |-> producer = "d1"]]

QuestionInput ==
    \E s, s2 \in {"s1", "s2"}, sc, sc2 \in {"sc1", "sc2"}, e, e2 \in {"e1", "e2"},
       k, k2 \in {"q1", "q2"}, d, d2 \in {"d1", "d2"}, criteria \in QuestionCriteria :
        input' = <<Question(s, sc, e, k, d, criteria), Question(s2, sc2, e2, k2, d2, criteria)>>

-----------------------------------------------------------------------------
(* Performance packs: two runs of an agreement, and packs that mix their       *)
(* documents.                                                                  *)

ProbeWorkload(model) ==
    [endpoint |-> "endpoint", requests |-> 2, warmups |-> 1, slice |-> "chat", model |-> model,
     prompts |-> <<"p1", "p2">>]

PackContract(model) ==
    [status |-> "FROZEN", terms |-> model, digest |-> model, confirmation |-> <<model>>,
     model |-> model, workload |-> ProbeWorkload(model),
     criterion |-> [slice |-> "chat", policy |-> <<>>, minSuccesses |-> 1, strict |-> TRUE,
                    ttft |-> 2, attempts |-> 2, errorNum |-> 1, errorDen |-> 2]]

PackConfirmation(model) ==
    [id |-> model, decision |-> "CONFIRM", acknowledged |-> TRUE, terms |-> model]

Probed(manifest, execution, phase, ordinal, end) ==
    [phase |-> phase, ordinal |-> ordinal, included |-> phase = "MEASURED",
     execution |-> execution, manifest |-> manifest,
     prompt |-> manifest.prompts[((ordinal - 1) % Len(manifest.prompts)) + 1],
     outcome |-> IF end \in {"quick", "slow"} THEN "SUCCESS" ELSE end,
     status |-> IF end \in {"quick", "slow"} THEN <<200>> ELSE <<>>,
     ttft |-> IF end = "quick" THEN <<1>> ELSE IF end = "slow" THEN <<2>> ELSE <<>>,
     duration |-> 3]

PackContext(model) ==
    ValidatedContext(PackContract(model), ProbeWorkload(model), <<"p1", "p2">>)[1]

ProbeRun(manifest, execution, warmups, ends) ==
    LET records == [i \in 1 .. warmups |-> Probed(manifest, execution, "WARMUP", i, "quick")]
                   \o [i \in 1 .. Len(ends) |-> Probed(manifest, execution, "MEASURED", i, ends[i])] IN
    [execution |-> execution, manifest |-> manifest, records |-> records, digest |-> records]

Preflight(model, end) ==
    LET context == PackContext(model) IN
    ProbeRun(BuildManifest(PreflightConfig(context), <<context.prompts[1]>>), "preflight", 0, <<end>>)

DecidedPack(model, execution, ends, preflight) ==
    LET context == PackContext(model)
        run == ProbeRun(context.manifest, execution, 1, ends)
        receipt == IssueReceipt(context, run, execution)
        verdict == Authorize(context, PackConfirmation(model), run, receipt) IN
    PublishDecision(context, PackConfirmation(model), preflight, run, receipt, verdict[1])

PackDocuments ==
    {"contract", "confirmation", "workload", "prompts", "manifest", "records", "receipt",
     "calculations", "verdicts", "report"}

ProbeEnds == {"quick", "slow", "TIMEOUT", "CANCELLED"}

\* The second run is of the same agreement or of another; its documents are
\* exchanged for those of the first one by one.
PackInput ==
    \E ends \in ProbeEnds \X ProbeEnds, other \in {<<"quick", "quick">>, <<"slow", "TIMEOUT">>},
       model \in {"m1", "m2"}, ready \in {"quick", "TIMEOUT", "CANCELLED"},
       kept \in SUBSET PackDocuments :
        /\ ready # "quick" => kept = PackDocuments
        /\ input' = <<DecidedPack("m1", "x1", ends, Preflight("m1", ready)),
                      DecidedPack(model, "x2", other, Preflight(model, "quick")), kept>>

Mixed(pack, other, kept) ==
    [d \in DOMAIN pack |-> IF d \in kept \cup {"preflight"} THEN pack[d] ELSE other[d]]

Same(pack, other) == \A d \in PackDocuments : pack[d] = other[d]

\* A stored pack gives its verdict again exactly if its preflight let the run
\* begin; documents of another run are noticed, by their hashes when they come
\* into the directory and by their bindings when all is hashed anew; and the
\* requests that were authorised are those that left a record.
PackIsOneRun(pack, other, kept) ==
    LET mixed == Mixed(pack, other, kept)
        stored == StoredPack("run", pack)
        sent == Len(pack.preflight.records) + Len(pack.records) IN
    /\ ArtifactsVerify(stored)
    /\ ArtifactsVerify([stored EXCEPT !.files = mixed]) => mixed = pack
    /\ ReconstructDecision(pack) =
          IF PreflightStatus(pack.preflight) = "READY" THEN <<pack.verdicts>> ELSE <<>>
    /\ ReconstructDecision(mixed) # <<>> => Same(mixed, pack) \/ Same(mixed, other)
    /\ ExecutionAuthorized(pack.workload, [credential |-> TRUE, credentialEndpoint |-> "endpoint",
                                           remote |-> TRUE, requests |-> <<sent>>])

-----------------------------------------------------------------------------
Topics == {"verdicts", "proportion", "campaign", "facts", "view", "request", "listener",
           "bundle", "report", "question", "pack"}

MCInit == topic \in Topics /\ input = <<>>

MCNext ==
    /\ input = <<>>
    /\ UNCHANGED topic
    /\ \/ topic = "verdicts" /\ VerdictInput
       \/ topic = "proportion" /\ ProportionInput
       \/ topic = "campaign" /\ CampaignInput
       \/ topic = "facts" /\ \E f \in EarlyFacts \cup LateFacts : input' = <<f>>
       \/ topic = "view" /\ ViewInput
       \/ topic = "request" /\ RequestInput
       \/ topic = "listener" /\ ListenerInput
       \/ topic = "bundle" /\ BundleInput
       \/ topic = "report" /\ ReportInput
       \/ topic = "question" /\ QuestionInput
       \/ topic = "pack" /\ PackInput

Given(t) == topic = t /\ input # <<>>

MCSpec == MCInit /\ [][MCNext]_<<topic, input>>

-----------------------------------------------------------------------------
\* Whatever results come in, in whatever order, PASS is earned by every
\* must-have criterion, and the two reductions of the repository agree.
VerdictsAreEarned ==
    Given("verdicts") =>
        /\ VerdictIsEarned(input[1], input[2])
        /\ ReductionsConsistent(input[1], input[2])

\* The verdict of a proportion is that of the score test, and monotone.
ProportionVerdicts ==
    Given("proportion") => ProportionIsTheScoreTest(input[1], input[2], input[3], input[4])

\* A routing campaign qualifies only on whole, fresh and independent runs.
CampaignVerdicts ==
    Given("campaign") => CampaignIsEarned(CampaignContract, CampaignConfirmation, input)

\* The dashboard asks for an action only where the facts call for it, and its
\* independent projections of the same POC never contradict one another.
DashboardIsTrue ==
    /\ Given("facts") => ActionIsEarned(input[1])
    /\ Given("view") =>
        /\ ViewsAgree(input[1], input[2], input[3], input[4], input[5], input[6])
        /\ ListsAgree(Board(input[1], input[2], input[3], input[5], input[6]))

\* A request changes state only if it may, and a refused one leaves nothing of
\* itself behind on a connection that is kept.
RequestsAreGuarded ==
    /\ Given("request") => DispatchOwns(input[1], input[2])
    /\ Given("listener") => NextRequestIsWhole(input[1])

\* A bundle verifies only if its parts speak of one run; its verdict does not
\* depend on the way it is imported; the campaign's gate keeps only what was
\* reviewed.  (Verdicts are compared of bundles with at most one fault.)
BundlesAreJudgedOnce ==
    Given("bundle") =>
        /\ EvidenceIsCoherent(input[1], input[2])
        /\ GateKeepsTheReviewed(input[1], input[2], input[3])
        /\ Cardinality(input[1].faults) < 2 /\ input[1].link = "none" =>
            OneVerdict(input[1], input[2], input[4])

\* A criterion is called provable only if what it needs is there, a report
\* answers only the question whose inputs it was made of, and a stored pack of
\* a performance run is read back as the decision of one run or not at all.
ReportsAreEarned ==
    /\ Given("report") => DispositionIsEarned(input[1])
    /\ Given("question") => ReportIsOfTheQuestion(input[1], input[2])
    /\ Given("pack") => PackIsOneRun(input[1], input[2], input[3])
=============================================================================
