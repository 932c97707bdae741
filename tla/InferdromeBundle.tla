--------------------------- MODULE InferdromeBundle ---------------------------
(***************************************************************************)
(* What the verifier of an Inferdrome bundle accepts: the declared         *)
(* inventory, the integrity manifest, the identities and digests by which  *)
(* the artifacts refer to each other, the canonical records, the binding   *)
(* of managed records to the native output, and the measurements, which    *)
(* are calculated again.                                                   *)
(*                                                                         *)
(* A bundle is a record with one field per role.  The digest of an         *)
(* artifact is the artifact itself: digests are equal exactly if contents  *)
(* are.  Native times are in half nanoseconds, so that rounding happens;   *)
(* Absent is a number that was not observed.  JSON syntax, schemas and     *)
(* size limits are left out.                                               *)
(***************************************************************************)
EXTENDS Integers, Sequences, FiniteSets, SequencesExt

-----------------------------------------------------------------------------
(***************************************************************************)
(* The pinned profiles of managed Inferdrome evidence: what the proof of a *)
(* local GPU must say of itself, of the command lines of the producer, and *)
(* of the other artifacts of its bundle.                                   *)
(*                                                                         *)
(* An absent object is the empty sequence, a present one a sequence of one *)
(* record.  Paths, digests and texts are values that are equal or not; the *)
(* CSV a query printed is the sequence of its rows.                        *)
(***************************************************************************)

PinnedProducer == "vllm-0.26.0"
LegacyProfile == "a10"
CampaignProfiles == {"a100"}

\* What a profile pins; the two differ in hardware, model and server options.
Pinned(profile) ==
    [gpu |-> IF profile = "a100" THEN "A100" ELSE "A10",
     model |-> "qwen", revision |-> "rev",
     workload |-> "prompts", traffic |-> [kind |-> "concurrent", level |-> 1, warmup |-> 1, measured |-> 2],
     sampling |-> "0.7", measurement |-> "first_choices",
     wheel |-> "wheel", boundary |-> "loopback_only",
     options |-> IF profile = "a100" THEN "bfloat16" ELSE "template"]

-----------------------------------------------------------------------------
(* The proof by itself. *)

\* The rows that the inventory and process queries printed are the inventory
\* and the processes, and both are queries of the one selected GPU.
Replayed(proof) ==
    /\ proof.queried = proof.selected
    /\ proof.inventoryRows = proof.gpus
    /\ proof.processRows = [i \in DOMAIN proof.processes |->
                               [pid |-> proof.processes[i].pid, uuid |-> proof.processes[i].uuid]]

\* Mutant: processes of any group may hold the GPU.
CoveredByAnyone(proof) ==
    /\ proof.processes # <<>>
    /\ {proof.processes[i].uuid : i \in DOMAIN proof.processes} = {proof.gpus[1].uuid}

\* The processes on the GPU are of the server's group, and on every GPU.
Covered(proof) ==
    /\ proof.processes # <<>>
    /\ \A i, j \in DOMAIN proof.processes : proof.processes[i].pid = proof.processes[j].pid => i = j
    /\ {proof.processes[i].uuid : i \in DOMAIN proof.processes} = {proof.gpus[1].uuid}
    /\ \A i \in DOMAIN proof.processes : proof.processes[i].group = proof.group

\* validate_managed_local_gpu_proof
LocalGpuProof(proof, pins) ==
    /\ Len(proof.selected) = 1 /\ Len(proof.gpus) = 1
    /\ proof.selected[1] = proof.gpus[1].index
    /\ proof.devices > proof.selected[1]
    /\ Replayed(proof)
    /\ proof.pid = proof.group
    /\ Covered(proof)
    /\ proof.started <= proof.ready /\ proof.ready <= proof.captured
    /\ proof.snapshots = <<"model", "tokenizer">>
    /\ proof.wheel = pins.wheel
    /\ proof.boundary = pins.boundary
    /\ proof.loopback

-----------------------------------------------------------------------------
(* The proof and the command lines. *)

\* _expected_server_argv: the template, with the proof's values put in
ServerArgv(proof, argv, pins) ==
    [executable |-> proof.executable, model |-> argv.model, seed |-> argv.sampling,
     endpoint |-> proof.endpoint, gpu |-> proof.selected[1], options |-> pins.options]

\* The root fields of a producer invocation
RootFields(inv) ==
    {"argv", "endpoint_preflight", "metadata", "schema_version"} \cup inv.extra
        \cup (IF inv.proof = <<>> THEN {} ELSE {"local_gpu_proof"})
        \cup (IF inv.campaign = "none" THEN {} ELSE {"campaign_profile"})

\* validate_managed_invocation_profile
ManagedInvocation(inv, more, pins) ==
    /\ RootFields(inv) = {"argv", "endpoint_preflight", "metadata", "schema_version", "local_gpu_proof"} \cup more
    /\ LET proof == inv.proof[1] IN
       /\ LocalGpuProof(proof, pins)
       /\ inv.argv.executable = proof.executable
       /\ inv.metadata.run = proof.run
       /\ inv.metadata.producer = proof.version
       /\ inv.argv.tokenizer = proof.tokenizer
       /\ inv.argv.endpoint = proof.endpoint
       /\ proof.argv = ServerArgv(proof, inv.argv, pins)
       /\ inv.argv.metadata = inv.metadata

\* The field of the environment has the value, and was observed as it had to be.
Observed(environment, name, value, provenance) ==
    \E i \in DOMAIN environment.fields :
        environment.fields[i] =
            [name |-> name, value |-> value, provenance |-> provenance, path |-> "producer_invocation"]

\* _validate_bundle_bindings: the proof was captured before the benchmark ran,
\* of the server, model and producer that the bundle froze.
BundleBindings(b) ==
    LET inv == b.producer_invocation
        proof == inv.proof[1]
        resolved == b.resolved_spec
        env == b.environment IN
    /\ b.bundle_descriptor.producer = PinnedProducer
    /\ {proof.run, inv.metadata.run} = {b.bundle_descriptor.run}
    /\ inv.metadata.fingerprint = b.bundle_descriptor.fingerprint
    /\ inv.metadata.workload = resolved.workload
    /\ proof.revision = resolved.revision
    /\ proof.version = resolved.engine
    /\ proof.endpoint = resolved.endpoint
    /\ inv.argv.model = resolved.model
    /\ inv.argv.sampling = resolved.sampling
    /\ Observed(env, "gpu.model", proof.gpus[1].model, "LOCALLY_VERIFIED")
    /\ Observed(env, "target.engine_version", proof.version, "LOCALLY_VERIFIED")
    /\ Observed(env, "target.model_revision", proof.revision, "CONFIGURED")
    /\ proof.captured <= b.execution.started
    /\ b.execution.started <= b.execution.ended
    /\ b.execution.ended <= env.captured

ManagedProfile(b, more, pins) ==
    ManagedInvocation(b.producer_invocation, more, pins) /\ BundleBindings(b)

-----------------------------------------------------------------------------
(* The profiles of the registry. *)

\* _validate_profile_specific_local_gpu_proof
ProfileGpuProof(proof, pins) ==
    /\ Len(proof.selected) = 1 /\ Len(proof.gpus) = 1
    /\ proof.gpus[1].model = pins.gpu
    /\ proof.devices = 1
    /\ proof.snapshots = <<"model", "tokenizer">> /\ proof.revision = pins.revision
    /\ proof.version = PinnedProducer
    /\ proof.boundary = pins.boundary
    /\ proof.loopback
    /\ proof.argv.options = pins.options

\* What a campaign profile pins of the specification, the plan and the run
ProfileFacts(b, pins) ==
    LET resolved == b.resolved_spec IN
    /\ b.bundle_descriptor.schema = "v1"
    /\ b.bundle_descriptor.producer = PinnedProducer
    /\ resolved.producer = PinnedProducer /\ resolved.engine = PinnedProducer
    /\ resolved.model = pins.model /\ resolved.revision = pins.revision
    /\ resolved.workload = pins.workload /\ resolved.sampling = pins.sampling
    /\ resolved.prompts = "include"
    /\ resolved.traffic = pins.traffic
    /\ b.request_plan.traffic = resolved.traffic
    /\ b.execution.traffic = resolved.traffic
    /\ resolved.measurement = pins.measurement
    /\ b.metric_definitions = "v1"
    /\ Observed(b.environment, "gpu.model", pins.gpu, "LOCALLY_VERIFIED")
    /\ Observed(b.environment, "target.engine_version", PinnedProducer, "LOCALLY_VERIFIED")
    /\ Observed(b.environment, "target.model_revision", pins.revision, "CONFIGURED")
    /\ b.environment.completeness = "COMPLETE"

\* validate_managed_evidence_profile: the legacy profile has a validator of its
\* own, and the selected profile must be the registry's.
CampaignProfile(b, profile) ==
    /\ profile \in CampaignProfiles
    /\ b.producer_invocation.campaign = profile
    /\ b.producer_invocation.proof # <<>>
    /\ ProfileGpuProof(b.producer_invocation.proof[1], Pinned(profile))
    /\ ProfileFacts(b, Pinned(profile))
    /\ ManagedProfile(b, {"campaign_profile"}, Pinned(profile))

-----------------------------------------------------------------------------
(* The bundle.                                                             *)

Absent == -1
RatioUnit == 1000       \* one, in units of the last decimal of a ratio

ArtifactRoles == {"bundle_descriptor", "original_spec", "resolved_spec", "request_plan",
          "environment", "execution", "producer_invocation", "producer_version",
          "producer_exit_status", "native_result", "native_stdout", "native_stderr",
          "request_records", "metric_definitions", "measurements", "integrity_manifest"}
Diagnostics == {"environment", "producer_invocation", "native_stdout", "native_stderr"}

-----------------------------------------------------------------------------
(* Inventory and manifest. *)

Sensitivity(d, role) ==
    CASE role \in Diagnostics -> "INTERNAL_DIAGNOSTIC"
      [] role \in {"original_spec", "request_plan"} /\ d.prompts -> "PROMPT_CONTENT"
      [] role = "native_result" \/ (role = "request_records" /\ d.responses) -> "RESPONSE_CONTENT"
      [] OTHER -> "PUBLIC"

\* _validate_descriptor; an entry's path is given as the role that owns it.
DescriptorValid(d) ==
    LET items == d.inventory IN
    /\ d.schema = "v1"
    /\ {items[i].role : i \in DOMAIN items} = ArtifactRoles
    /\ \A i, j \in DOMAIN items :
          items[i].role = items[j].role \/ items[i].path = items[j].path => i = j
    /\ \A i \in DOMAIN items :
          /\ items[i].role = "bundle_descriptor" => items[i].path = "bundle_descriptor"
          /\ items[i].role = "integrity_manifest" => d.manifest = items[i].path
          /\ items[i].typed
          /\ items[i].sensitivity = Sensitivity(d, items[i].role)

\* _verify_manifest: one entry for every other artifact, in the order of their
\* paths, with its content.
ManifestHolds(b) ==
    LET entries == b.integrity_manifest.entries IN
    /\ b.integrity_manifest.run = b.bundle_descriptor.run
    /\ DOMAIN entries = ArtifactRoles \ {"integrity_manifest"}
    /\ b.integrity_manifest.ordered
    /\ \A r \in DOMAIN entries : entries[r] = b[r]

Eligible(d) == d.eligible /\ d.producer = PinnedProducer

\* _validate_text_artifacts
TextArtifacts(b) == b.producer_version = PinnedProducer /\ b.producer_exit_status = "0"

-----------------------------------------------------------------------------
(* Identities and digests across the artifacts. *)

\* _execution_fingerprint: policies and links are not part of it.
Fingerprint(resolved) ==
    <<resolved.producer, resolved.engine, resolved.model, resolved.revision, resolved.endpoint,
      resolved.workload, resolved.sampling, resolved.traffic, resolved.measurement>>

RunAgrees(b) ==
    /\ {b.request_plan.run, b.environment.run, b.execution.run, b.measurements.run}
           = {b.bundle_descriptor.run}
    /\ \A i \in DOMAIN b.request_records : b.request_records[i].run = b.bundle_descriptor.run

DigestsAgree(b) ==
    LET d == b.bundle_descriptor
        m == b.measurements IN
    /\ {d.experiment, b.request_plan.experiment} = {b.resolved_spec.experiment}
    /\ b.request_plan.traffic = b.resolved_spec.traffic
    /\ b.execution.traffic = b.resolved_spec.traffic
    /\ d.source = b.original_spec /\ b.request_plan.source = b.original_spec
    /\ d.fingerprint = Fingerprint(b.resolved_spec)
    /\ d.plan = b.request_plan
    /\ {d.definitions, m.definitions} = {b.metric_definitions}
    /\ d.contract = b.resolved_spec.contract
    /\ m.records = b.request_records
    /\ m.execution = b.execution
    /\ b.execution.native = b.native_result

ProducerAgrees(b) ==
    /\ b.bundle_descriptor.producer = PinnedProducer
    /\ b.resolved_spec.producer = PinnedProducer
    /\ b.resolved_spec.mode = "attached_endpoint"
    /\ b.resolved_spec.traffic.measured <= b.resolved_spec.limit

-----------------------------------------------------------------------------
(* The execution, the plan and the canonical records. *)

\* The observed phases do not overlap, also across one that was not observed.
PhasesInOrder(e) ==
    LET seen == SelectSeq(e.phases, LAMBDA p : p.observed) IN
    /\ \A i \in DOMAIN seen :
          e.started <= seen[i].start /\ seen[i].start <= seen[i].end /\ seen[i].end <= e.ended
    /\ \A i, j \in DOMAIN seen : i < j => seen[i].end <= seen[j].start

\* _validate_execution
ExecutionHolds(e, run, traffic) ==
    /\ e.started <= e.ended /\ e.terminal = "COMPLETE" /\ e.exit = 0
    /\ e.clock = run
    /\ [i \in DOMAIN e.phases |-> e.phases[i].phase] = <<"PREFLIGHT", "WARMUP", "MEASURING", "FINALIZING">>
    /\ [i \in DOMAIN e.phases |-> e.phases[i].count] = <<1, traffic.warmup, traffic.measured, Absent>>
    /\ \A i \in DOMAIN e.phases :
          ~e.phases[i].observed => e.phases[i].start = Absent /\ e.phases[i].end = Absent
    /\ PhasesInOrder(e)

\* _validate_record_observations
ObservationHolds(r) ==
    /\ r.ttft = Absent => r.itl = <<>>
    /\ CASE r.status = "SUCCESS" -> r.error = "" /\ r.ttft # Absent
         [] r.status = "FAILED" -> r.error # ""
         [] r.status = "ANOMALOUS_EMPTY_STREAM" ->
               r.error = "" /\ r.ttft = Absent /\ r.output = 0 /\ r.response = ""
         [] OTHER -> FALSE
    /\ r.content \in {"none", r.response}

\* _validate_plan_and_records: request i of the plan, record i and entry i of
\* the native arrays are the same request.
PlanAndRecords(b) ==
    LET planned == b.request_plan.requests
        records == b.request_records IN
    /\ Len(planned) = b.request_plan.traffic.measured
    /\ Len(records) = b.request_plan.traffic.measured /\ records # <<>>
    /\ \A i \in DOMAIN planned :
          /\ planned[i].index = i /\ planned[i].id = <<b.request_plan.prefix, i>>
          /\ planned[i].sampling = b.resolved_spec.sampling
          /\ planned[i].kind = "inline" => planned[i].text = planned[i].prompt
          /\ records[i].index = i /\ records[i].id = <<b.request_plan.prefix, i>>
          /\ records[i].source = i
          /\ records[i].prompt = planned[i].prompt
          /\ records[i].producer = b.bundle_descriptor.producer
          /\ ObservationHolds(records[i])

\* _validate_bundle_semantics: what is said of replay and of content in the
\* bundle is what the plan and the records hold.
BundleSemantics(b) ==
    LET d == b.bundle_descriptor
        kinds == {b.request_plan.requests[i].kind : i \in DOMAIN b.request_plan.requests}
        replay == IF "digest_only" \in kinds THEN "LIMITED" ELSE "FULL"
        responses == b.resolved_spec.responses = "include" IN
    /\ d.completeness = b.environment.completeness
    /\ {b.request_plan.replay, d.replay} = {replay}
    /\ ("inline" \in kinds) = (b.resolved_spec.prompts = "include")
    /\ d.prompts = (b.resolved_spec.prompts = "include")
    /\ d.responses = responses
    /\ \A i \in DOMAIN b.request_records : (b.request_records[i].content # "none") = responses

\* _validate_environment
EnvironmentHolds(b) ==
    LET fields == b.environment.fields
        unknown == {i \in DOMAIN fields : fields[i].provenance = "UNKNOWN"}
        of(name) == fields[CHOOSE i \in DOMAIN fields : fields[i].name = name] IN
    /\ \A i, j \in DOMAIN fields : fields[i].name = fields[j].name => i = j
    /\ \A i \in DOMAIN fields :
          IF i \in unknown THEN fields[i].value = "none" /\ fields[i].path = "none"
          ELSE fields[i].value # "none" /\ fields[i].path \in ArtifactRoles \cup {"none"}
    /\ {fields[i].name : i \in DOMAIN fields} =
          {"producer.version", "server.model_id", "gpu.model", "target.engine_version", "target.model_revision"}
    /\ b.environment.completeness =
          IF unknown = {} THEN "COMPLETE" ELSE IF unknown = DOMAIN fields THEN "UNKNOWN" ELSE "PARTIAL"
    /\ of("producer.version").value = b.bundle_descriptor.producer
    /\ of("producer.version").path = "producer_version"
    /\ of("server.model_id").value = b.resolved_spec.model
    /\ of("server.model_id").provenance = "SERVER_REPORTED"
    /\ of("server.model_id").path = "producer_invocation"
    /\ of("target.engine_version").value \in {"none", b.resolved_spec.engine}
    /\ of("target.model_revision").value \in {"none", b.resolved_spec.revision}

-----------------------------------------------------------------------------
(* The invocation of the producer and its native output. *)

Metadata(b) ==
    [run |-> b.bundle_descriptor.run, fingerprint |-> b.bundle_descriptor.fingerprint,
     workload |-> b.resolved_spec.workload, producer |-> b.bundle_descriptor.producer]

\* expected_argv; the tokenizer is whatever path the arguments name.
Argv(b, executable, arguments) ==
    [executable |-> executable, model |-> b.resolved_spec.model,
     endpoint |-> b.resolved_spec.endpoint, tokenizer |-> b.producer_invocation.argv.tokenizer,
     traffic |-> b.resolved_spec.traffic, sampling |-> b.resolved_spec.sampling,
     arguments |-> arguments, prefix |-> b.request_plan.prefix, metadata |-> Metadata(b)]

\* The endpoint listed the target model before the run.
PreflightHolds(p, model) ==
    /\ p.status = 200 /\ p.target = model
    /\ p.models = p.response
    /\ \A i, j \in DOMAIN p.models : p.models[i] = p.models[j] => i = j
    /\ \E i \in DOMAIN p.models : p.models[i] = model

\* _validate_invocation
InvocationHolds(b, profile) ==
    LET inv == b.producer_invocation
        managed == inv.proof # <<>>
        legacy == managed /\ profile = "none" IN
    /\ legacy => ManagedProfile(b, {}, Pinned(LegacyProfile))
    /\ RootFields(inv) =
          {"argv", "endpoint_preflight", "metadata", "schema_version"}
             \cup (IF managed THEN {"local_gpu_proof"} ELSE {})
             \cup (IF profile # "none" THEN {"campaign_profile"} ELSE {})
    /\ inv.metadata = Metadata(b)
    /\ inv.argv = Argv(b, CASE legacy -> inv.proof[1].executable
                            [] profile # "none" -> inv.argv.executable
                            [] OTHER -> "vllm",
                       IF profile # "none" THEN "extended" ELSE "none")
    /\ PreflightHolds(inv.preflight, b.resolved_spec.model)

\* Round to even.
HalfEven(n, d) ==
    LET q == n \div d
        r == 2 * (n % d) IN
    IF r < d \/ (r = d /\ q % 2 = 0) THEN q ELSE q + 1

SecondsToNs(half) == HalfEven(half, 2)
DecimalRatio(n, d) == HalfEven(n * RatioUnit, d)

Sum(s) == FoldSeq(LAMBDA x, y : x + y, 0, s)

\* Mutant: what was not an error succeeded.
NativeStatusNoEmpty(e) == IF e.error # "" THEN "FAILED" ELSE "SUCCESS"

NativeStatus(e) ==
    CASE e.error # "" -> "FAILED"
      [] e.error = "" /\ e.output = 0 /\ e.text = "" -> "ANOMALOUS_EMPTY_STREAM"
      [] OTHER -> "SUCCESS"

\* Record r is entry e of the native arrays.
BoundTo(r, e, first) ==
    LET ok == NativeStatus(e) = "SUCCESS" IN
    /\ r.status = NativeStatus(e)
    /\ r.error = e.error
    /\ r.offset = SecondsToNs(e.start - first)
    /\ r.ttft = IF ok THEN SecondsToNs(e.ttft) ELSE Absent
    /\ r.itl = IF ok THEN [i \in DOMAIN e.itl |-> SecondsToNs(e.itl[i])] ELSE <<>>
    /\ r.output = e.output
    /\ r.response = e.text

\* The native output is of this run, at this target, under this traffic.
NativeIdentity(b) ==
    LET n == b.native_result IN
    /\ n.model = b.resolved_spec.model
    /\ n.tokenizer = b.producer_invocation.argv.tokenizer
    /\ n.prompts = Len(b.request_records)
    /\ n.metadata = Metadata(b) /\ n.metadata = b.producer_invocation.metadata
    /\ n.traffic = b.resolved_spec.traffic

\* _validate_native_record_bindings
NativeBindings(b) ==
    LET n == b.native_result
        entries == n.entries
        failed == Cardinality({i \in DOMAIN entries : entries[i].error # ""})
        starts == {entries[i].start : i \in DOMAIN entries} IN
    /\ Len(entries) = Len(b.request_records)
    /\ NativeIdentity(b)
    /\ n.failed = failed /\ n.completed = Len(entries) - failed
    /\ n.output = Sum([i \in DOMAIN entries |-> entries[i].output])
    /\ SecondsToNs(n.duration) = b.execution.window
    /\ \A i \in DOMAIN entries :
          BoundTo(b.request_records[i], entries[i], CHOOSE s \in starts : \A t \in starts : s <= t)

-----------------------------------------------------------------------------
(* The measurements, calculated again from the records. *)

\* Mutant: the rank is rounded down.
NearestRankBelow(values, percent) ==
    LET rank == IF (percent * Len(values)) \div 100 = 0 THEN 1 ELSE (percent * Len(values)) \div 100
        below(v) == Cardinality({i \in DOMAIN values : values[i] < v}) IN
    CHOOSE v \in {values[i] : i \in DOMAIN values} :
        below(v) < rank /\ Cardinality({i \in DOMAIN values : values[i] <= v}) >= rank

NearestRank(values, percent) ==
    LET rank == (percent * Len(values) + 99) \div 100
        below(v) == Cardinality({i \in DOMAIN values : values[i] < v}) IN
    CHOOSE v \in {values[i] : i \in DOMAIN values} :
        below(v) < rank /\ Cardinality({i \in DOMAIN values : values[i] <= v}) >= rank

Successful(records) == SelectSeq(records, LAMBDA r : r.status = "SUCCESS")

\* _latency_measurements: mean and percentiles, of a population that has any
Latencies(values) ==
    IF values = <<>> THEN <<>>
    ELSE <<DecimalRatio(Sum(values), Len(values)), NearestRank(values, 50),
           NearestRank(values, 95), NearestRank(values, 99)>>

\* expected_measurements
Measured(records, window) ==
    LET ok == Successful(records)
        ttfts == [i \in DOMAIN ok |-> ok[i].ttft]
        spans == [i \in DOMAIN ok |-> ok[i].ttft + Sum(ok[i].itl)]
        n == Len(records)
        k == Len(ok) IN
    [attempted |-> n, successful |-> k, failed |-> n - k,
     errorRate |-> DecimalRatio(n - k, n),
     ttft |-> Latencies(ttfts), span |-> Latencies(spans),
     attemptedRate |-> DecimalRatio(n, window), successfulRate |-> DecimalRatio(k, window),
     outputRate |-> DecimalRatio(Sum([i \in DOMAIN ok |-> ok[i].output]), window)]

\* _recalculate_and_compare: what the import goes on with
Recalculated(records) ==
    LET ok == Successful(records) IN
    [attempted |-> Len(records), successful |-> Len(ok), failed |-> Len(records) - Len(ok),
     anomalous |-> Len(SelectSeq(records, LAMBDA r : r.status = "ANOMALOUS_EMPTY_STREAM")),
     p95 |-> IF ok = <<>> THEN Absent ELSE NearestRank([i \in DOMAIN ok |-> ok[i].ttft], 95)]

MeasurementsHold(b) ==
    /\ b.metric_definitions = "v1"
    /\ b.execution.window > 0
    /\ b.measurements.reducer = "1.0.0"
    /\ b.measurements.values = Measured(b.request_records, b.execution.window)

\* _verify_cross_artifact_semantics
SemanticsHold(b, profile) ==
    /\ profile # "none" => CampaignProfile(b, profile)
    /\ RunAgrees(b)
    /\ DigestsAgree(b)
    /\ ExecutionHolds(b.execution, b.bundle_descriptor.run, b.resolved_spec.traffic)
    /\ ProducerAgrees(b)
    /\ PlanAndRecords(b)
    /\ BundleSemantics(b)
    /\ EnvironmentHolds(b)
    /\ InvocationHolds(b, profile)
    /\ b.producer_invocation.proof # <<>> \/ profile # "none" => NativeBindings(b)
    /\ MeasurementsHold(b)

\* verify_inferdrome_bundle of what was read; `retained` is the digest the
\* caller expects, if it has one.
Verifies(b, profile, retained) ==
    /\ DescriptorValid(b.bundle_descriptor)
    /\ retained = <<>> \/ retained = <<b.integrity_manifest>>
    /\ ManifestHolds(b)
    /\ Eligible(b.bundle_descriptor)
    /\ TextArtifacts(b)
    /\ SemanticsHold(b, profile)
=============================================================================
