# ExitSpec in TLA+

ExitSpec turns a customer's proof-of-concept (POC) into a frozen acceptance
contract, gathers evidence against it, and closes the POC with a human decision.
The implementation is `src/src/exitspec`: one Python server process per operator,
whose services keep their records in memory under locks, plus SQLite databases
and published directories that outlive the process. This directory holds TLA+
models of its services, TLC configurations that check them on small instances,
and TLAPS proofs of the properties that matter most for every instance.

File names below are relative to `src/src/exitspec`.

## 1. Inventory

### The path of a POC

1. A draft POC is created, sources (e-mail, meeting, transcript) are attached and
   turned into proposals, which a reviewer keeps or drops.
2. The capability planner says which criteria can be measured, and how.
3. The agreement lifecycle assembles a contract from these inputs, sends the
   customer a review link, records a decision, revises, and freezes.
4. Evidence is gathered against the frozen contract: local fixtures, imported
   Inferdrome bundles, or a paid performance measurement.
5. Results are reduced to one verdict, a pack of files is published, and a human
   closes the POC by handoff or stop.

Everything a model asks "what if" about comes from four sources: request threads
that interleave wherever a service releases its lock to consult another one;
clients that repeat requests with the same idempotency key; processes and
machines that stop between two durable steps; and steps that raise.

### Components

| Component (main files) | State | Operations | Interacts with | What is hard | What makes it correct |
|---|---|---|---|---|---|
| Customer agreement (`poc_agreement.py`) | preparations, review links, confirmations, frozen contracts, history, five idempotency dictionaries, set of POCs in flight | prepare, record_customer_review_decision, start_revision, reissue_customer_review, freeze | reads draft, retained proposals, plan and clock with its lock released | inputs that move between two reads; replays long after; expiry | a frozen contract is confirmed and never moves; decisions are on what was shown; versions form a chain |
| Evidence orchestration (`poc_evidence_orchestration.py`, class ProcessLocalEvidenceOrchestrationService) | attempts, idempotency map, current attempt per POC | reserve, execute, cancel, fail, publish_evidence_pack, handoff, stop | closure guard, pack publisher, catalogs, frozen agreement | results that come back after cancellation or replacement | a verdict is backed by a pack; the end of an attempt is final |
| Human closure (`workspace_closure.py`) | closures, idempotency map, count of mutations per POC | record, run_if_open | calls the evidence resolver under its lock | closing against a mutation in progress | closes on the current attempt, once, and nothing is installed afterwards |
| Executable evidence (same file, class ProcessLocalExecutableEvidenceService) | attempts, current attempt | reserve, execute, cancel, fail | fixture runner | the same, without closure | cancelled means no verdict |
| Verdict rules (`poc_evidence_orchestration.py`, `verdicts.py`, `statistics.py`) | none | reduction of results; proportion verdict by Wilson interval | used by both services and reports | repeated, missing, foreign results; boundaries | PASS is earned |
| Evidence Pack (`generic_evidence_pack.py`) | temporary and final directories | publish, verify | orchestration | crash or error between two file operations; racing publishers | a reported pack verifies for ever |
| Performance runs (`poc_performance_run.py`, `performance_web_runtime.py`, `performance_runner.py`, `performance_operations.py`, `performance_artifacts.py`) | coordinator records, SQLite ledger, run directories | start, readiness refresh, reserve, mark_terminal, publish, replay | several coordinators and processes share ledger and output root | restart between payment and result; retry elsewhere | a key is paid for once and has one answer |
| POC creation (`poc_creation.py`) | drafts, idempotency map | create, archive | everything reads drafts | replay against archive | archive is terminal |
| Sources (`poc_sources.py`, `poc_source_intake.py`, `source_store.py`) | attachments, versions | attach, publish | drafts, meeting and speech handoffs | version allocation, replay | one identity per source |
| Proposals (`poc_proposal_review.py`) and planner (`poc_capability_planner.py`) | triage decisions, plans | decide, plan, clarify | sources, agreement | projections that are read again | a plan names the inputs it was made from |
| Performance agreement (`poc_performance_lifecycle.py`, `poc_contract_definition.py`) | as the customer agreement | as the customer agreement | performance runs | as the customer agreement | as the customer agreement |
| Confirmation ledger (`confirmation_*.py`) | SQLite rows | bootstrap, migrate, append | agreement | crash between bootstrap steps | append-only, digest-only |
| Meeting inbox and sessions (`meeting_*.py`) | SQLite events, taints, payloads | ingest, seal, recover, purge, hand off | connector, sources | duplicate and reordered delivery, retention | tainted streams are never handed off |
| Source authoring (`source_authoring_*.py`) | records, one worker slot, leases | register, claim, dispatch, finish, revoke, shut down | five owners in a lock order, worker process | expiry or revocation between claim and dispatch | a dispatched request is never sent twice |
| Provider egress, speech (`provider_egress.py`, `stt_*.py`) | one-use permits | authorize, take | HTTP transports | two takers of one permit | a permit is used once, before expiry |
| Zoom capture (`zoom_*.py`) | sessions | start, ingest, stop, hand off | inbox | lifecycle and idempotency | one handoff per session |
| Inferdrome dispatch and import (`inferdrome_*.py`, `poc_inferdrome_import.py`) | operation directories, receipts, imports | dispatch, worker cleanup, receipt, import | worker processes | crash with a worker group alive | receipts are immutable |
| Qualification, routing (`proofability*.py`, `qualification_*.py`, `routing_*.py`) | mostly none | validation and reduction of records | packs | boundaries | - |
| Web server, command line, models (`web.py`, `cli.py`, `models.py`, ...) | none of their own | routing, projection, parsing, formatting | services above | - | - |

`PROJECT.json` lists every component with its files and status, and under
`hazards` the places where this code is hard to test, each with the properties
that would catch it going wrong.

## 2. Modules

Component modules, grouped by the part of the path they model. The names of
variables follow the attributes of the Python classes; a variable's comment names
the attribute where the names differ.

| Module | Models | Actions or operators |
|---|---|---|
| `Dicts` | Python dictionaries as functions with a growing domain | `Put`, `Drop`, `EmptyDict`, `IsDict` |
| **Sources and review** | | |
| `ProposalReview` | draft POCs, attachment of sources, review of proposals, assisted drafts, contract definition | `CreateDraft`, `ArchiveDraft`, `AttachCheck`/`AttachReturns`, decide, define, assisted reserve/publish/fail |
| `SourceAuthoring` (extends it) | the engine that sends a redacted source to a provider, its supervisor, child process and demo files | `Prepare`, `Authorize`, `Claim`, `RunStep`, `Revoke`, `Child*`, `Shutdown`, `Restart` |
| `MeetingSession` | meeting runtime, durable event inbox, sealing, recovery, handoff | one step per clock reading, transaction and SELECT (`Step`) |
| `ZoomLive`, `ZoomSession`, `ZoomCustody` | live capture with its child process; session with checkpoints and bridge, and the webhook authenticator; custody of fixture captures | one action per call, plus children that exit, deadlines, crashes |
| `ProviderEgress`, `SpeechCapture` | acknowledgements and one-use permits; consent, clip and transcript | read-clock and locked halves of every call |
| **Agreement** | | |
| `Agreement` | customer agreement lifecycle | section 3.1 |
| `AgreementPromise` | what the lifecycle promises, without guards, links, keys, clock and inputs | `Offer`, `Decide`, `Revise`, `Sign` |
| `PerformanceLifecycle` | the same for performance POCs | prepare, decide, reissue, revise, freeze, moving proposals |
| `ConfirmationStore`, `ConfirmationLedger` | reference adapter and SQLite ledger of customer confirmations | issue, decide; open, migrate, issue, audit, disconnect |
| **Evidence** | | |
| `Evidence` | evidence orchestration composed with human closure | section 3.2 |
| `ExecutableEvidence` | the older single-criterion service | section 3.3 |
| `EvidencePack` | publication of a pack on disk | section 3.5 |
| `PerformanceRun` | coordinators, runner, durable ledger, run directories | section 3.6 |
| `StreamProbe` | the measurement itself: worker pools, streams, clocks, cancellation | `Begin`, `Respond`, `Read`, `Close`, failures of each |
| `InferdromeDispatch`, `BundleReader`, `PocImport` | producer of an external run; reader of a bundle that changes; import into a POC | one step per durable write, locked block or file read, with the exceptions section 3.7 names |
| `ProofabilityWorkspace` | bounded store of proofability reports | create and get under stripes and a global lock |
| **Rules** (operators, no state) | | |
| `Verdicts` | proportion rule; reduction of criteria | section 3.4 |
| `PerformanceDecision` | records, population, percentile, verdict and chain of a performance run | used by `StreamProbe`; packs in `MCAlgorithms` |
| `InferdromeBundle`, `InferdromeImport` | verifier of a bundle; verdict and receipt of each import path | |
| `RoutingCampaign`, `Proofability` | binding and reduction of a routing campaign, its receipt and the pack of the one campaign the code names by digest; planning before a run | |
| `Workspace`, `WebApi` | what dashboard and library show; checks and answers of every POST route | |
| **Browser** | | |
| `WebGateway` (extends `WebApi`) | request threads, the closure guard, archive | `Receive`, `ReadBody`, `Reserve`, `Mutate`, `Release`, `RecordClosure` |
| `DemoSession` | the guided demo with provider calls outside its lock | one action per method |
| **Checking** | | |
| `AgreementProofs`, `EvidenceProofs`, `PerformanceProofs`, `ReviewProofs`, `DeskProofs`, `CaptureProofs`, `ImportProofs` | lemmas and theorems | section 6 |
| `MCEvidence`, `MCPerformance`, `MCCapture`, `MCDesk`, `MCImports`, `MCAlgorithms` | several components put together for one run; `MCAlgorithms` holds the inputs of the algorithms, bundles with faults among them | section 4 |

How they fit: `Agreement` shows that a frozen contract never changes
(`FreezeIsFinal`), which `Evidence` uses as its interface (`Freeze` is its only
view of agreements) and `PerformanceRun` as the reason why a request is told apart
by its input digest. `Evidence` takes the outcome of an evaluation from a set;
which outcomes there are, and what one criterion comes to, is `Verdicts`, and the
pack that is published in one step of `Evidence` is taken apart in `EvidencePack`. `SourceAuthoring` runs on the owners of `ProposalReview`
and shares their locks. `StreamProbe` ends in the validation and the verdict of
`PerformanceDecision`. `WebGateway` reduces every service to the stage it moves and
keeps what `WebApi` says of each route.

## 3. How the models correspond to the code

### 3.1 Agreement

`prep`, `invit`, `conf`, `frozen`, `hist` are `_preparations`, `_invitations`,
`_confirmations`, `_frozen`, `_history`; `idem` stands for the five idempotency
dictionaries, with the operation in the key; `inflight` is `_inflight_pocs`
together with the progress of the call that holds the POC. `inputs` is everything
read through other services (draft, retained proposals, capability plan): a
version and whether it can be read at all.

A call takes the per-POC guard and reads the inputs (`Begin`), reads them again
and is rejected, replayed or granted (`Validate`), and publishes under the lock
(`Publish`). Between these steps the code holds only the guard, so inputs, clock
and calls of other POCs move. `Fail` is an exception on the way; like the code's
`finally` it releases the guard. A call that is rejected before it reads anything
changes nothing and is not a step.

Contract contents are abstracted to version, input version and approval text; the
fingerprint a confirmation is bound to covers these and not the time.

### 3.2 Evidence

`att` is `_records` in order of reservation, `cur` is `_current_by_poc`, `idem`
the idempotency map; `closed`, `cidem`, `active` are the three dictionaries of
the closure service; `thr` is what each request thread is doing. `reserve` takes
four steps, because it looks its key up under one acquisition of the lock and
installs the attempt under another, inside `run_if_open`. `handoff` and `stop`
take two: the binding is read, the lock released, then recorded by the closure
service. `execute` is `ExecuteBegin` and one of the ends of `Evaluate`, which
`Cancel`, `Fail` and a new reservation may precede.

### 3.3 ExecutableEvidence

The same without closure; one action per lock acquisition. The difference that
matters is how a replaced attempt is marked: here `reserve` overwrites any status
with `STALE` (finding 1).

### 3.4 Verdicts

Pure rules over lists of results with repeated, missing, foreign and disagreeing
members. The proportion rule compares the code's order of conditions, and the algebra of
the Wilson lower end with its denominators multiplied out, with a reference
definition (the one-sided score test). Floating-point rounding is left out.

### 3.5 EvidencePack

One step per file operation of `publish_generic_evidence_pack`: stage into a
temporary directory, claim the final name with `mkdir`, link the files in order,
write the completion marker, sync, remove the temporary directory, sync the root.
Every step may raise (`Raise`, `Cleanup`), a process may be killed (`Kill`), the
machine may crash (`Crash`, which loses entries that were not synced), and two
publishers race for one name. Verification is a predicate of the directory.

### 3.6 PerformanceRun

`rec`, `active`, `refreshing` are the memory of a coordinator
(`ProcessLocalPOCPerformanceRunService`, or `PerformanceWebRuntime` for members
of `Browsers`), `work` its worker thread, `ledger` the SQLite table, `dirs` and
`rooted` the published run directories and which of them survive a machine crash.
A worker takes one step per transaction, network call and durable file operation:
`Reserve` or `Replay`, `Preflight`, `Probe`, `Publish`, `Sync`, `Complete`,
`Verify`, and `Raise` followed by `Fail` from any of them. `Kill` ends the
process of one coordinator and `Crash` the machine; both forget all memory, and
the crash also takes directories that were not synced.

A worker whose thread cannot be started ends at its first step (`LaunchFails`).
One abstraction makes the model more permissive than the code: a restarted
browser runtime may send any input, while the code fixes it per process. `paid` and
`told` are history variables: how often network work began for a key, and what
was reported as completed.

### 3.7 The other state machines

- `ProposalReview`: a call is the step that looks proposals or drafts up and the
  step that writes, since the lookups take the locks of other services and give
  them back. Idempotency keys of intake are left out, because a repeated key
  writes nothing.
- `SourceAuthoring`: steps that need the owners' locks wait for them and are
  atomic. The copy-and-swap commit of the engine is two steps in the synthetic
  realm, whose clock can call back into the engine. The parent's pipe (`wire`),
  the child's fence files (`disk`) and what left the machine (`sent`) are separate
  state, so that a process that dies between two of them is a state.
- `MeetingSession`: several processes over one database; each transaction and
  SELECT is a step, so a recovery can read half of a purge.
- `ZoomLive`: the launch thread builds a child between two transactions, and
  children are closed after the transaction that gave them up. `ZoomSession` is
  recovered from any old checkpoint while the intake remembers. The webhook
  authenticator reads the clock before its lock, under a clock that may be set back.
  `ZoomCustody` is one step per file a command writes.
- `ProviderEgress`, `SpeechCapture`: the clock is read outside the lock and used
  inside; permits are taken by racing threads.
- `ConfirmationLedger`: a transaction is a step; any number of processes migrate,
  and a process may disconnect between any two. Revocation, reissue and decision
  have tables, triggers and checks but no writer in the code yet, so the model
  inserts what schema and checks allow. Its refinement of `ConfirmationStore`
  covers issuance (`LedgerImplementsStore`).
- `InferdromeDispatch`: a file becomes visible in one step and durable in a later
  one; processes die and the power goes between any two. The directory of a new
  operation is made and synced in two steps (`MakeDirectory`, `SyncRoot`), so a loss
  of power may take it; the lock file has no sync of its own and becomes durable
  with the event published after it (`TouchLock`). A process that reads an event or
  a reservation another one has not synced yet relies on it, as the code does.
- `BundleReader` reads a directory whose nodes are renewed at any moment: every
  listing and every file is a step.
- `PerformanceLifecycle`: a revision excludes proposals and definitions by their own
  identities. A definition that is made after a revision for a proposal from before it
  is therefore in scope alone, and no version can be prepared (`ScopedDefinitions`).
  Proposals and definitions move at any moment, by `InputChanges`, the transitions
  their own services allow.
- `PocImport` releases its lock between the lookup of a key, the resolution in the
  catalog, the record of the import (from then on the POC is active) and the launch of
  its worker (`StartLookup`, `StartResolve`, `StartAdmit`, `StartLaunch`). The
  verification of a written pack holds no lock after it copied the record: the manifest is
  read (`VerifyManifest`), each listed file is read and hashed (`VerifyFile`), and the
  packet is read once more for the hash that is answered (`VerifyAnswer`), while parts
  of the pack are exchanged or put back between any two of these (`ChangePack`).
  `OfferedIsSelected` says that a pack is handed out only if every part of it was as
  written at some moment since it was asked for. It does not say that the answered
  hash is of the written packet, and the code does not ensure it: nothing compares the
  second reading (`poc_inferdrome_import.py:395`), so a packet exchanged between the
  two readings is answered for (section 5). The pack is the manifest, the packet and
  one file for the four others, which are treated alike.
  Merged into one step each: the frozen contract is read together with the first
  locked block of a start, and with the answer of a snapshot; the catalog is refreshed
  in the step that resolves; the worker reads the bundle in one step, which
  `BundleReader` takes apart; the pack is staged and renamed in one step, because a
  stage is invisible until then; the answer of a start is formed with the launch.
- `StreamProbe`: the endpoint is external, so a response has any status, any events
  and any end, and send, read and close each raise any error the code tells apart.
  A status outside 100 to 599 never reaches the attempt, since the HTTP transport
  raises on it (`performance_probe.py:536`); a transport injected by a test that returns
  one is not modelled. Its record would be refused by the validation, as in finding 4.
- `WebGateway`: a thread between its checks, its body, its reservation, the service
  call and its answer; closures are recorded by other threads.

## 4. Runs

Several components share a run where they share no state: the MC module chooses one
part, and the others stay in their initial state. The parts of `MCAlgorithms` are
topics; a state is one input.

| Run | Module and parts | Distinct states | Shows |
|---|---|---|---|
| `agreement` | `Agreement` | 89 758 | decisions on what was shown, checks that still hold at publication, history and replays, finality of a freeze, refinement of `AgreementPromise`, release of the guard |
| `evidence` | `MCEvidence`: attempts and closure, single criterion, pack | 371 562 | coherence of attempts, pointers and keys; closures rest on current evidence and end everything; published packs survive crashes; work ends |
| `performance` | `MCPerformance`: runs, egress, speech | 30 187 | paid once, one answer, backed by a directory, one flight; permits spent once and in time; calls end |
| `algorithms` | `MCAlgorithms`: eleven topics | 548 631 | the pure rules against reference definitions |
| `capture` | `MCCapture`: meetings and the four Zoom parts | 1 028 866 | one whole stream per source, consent, provenance, taint |
| `review` | `ProposalReview` | 256 641 | no decision or definition on what was replaced; assisted results only for current sources; reservations end |
| `desk` | `MCDesk`: authoring, both confirmation stores, demo, six subjects of the web server | 502 875 | one send per consent, closure guard, ledger implements its port, nothing written late |
| `imports` | `MCImports`: performance agreement, probe, dispatch, reader, import, report store | 2 221 859 | what runs was confirmed; a bundle is read as one state; the report store keeps its bounds |
| `executable_cancel` | `ExecutableEvidence` | violation | finding 1 |
| `demo_session_retry` | `DemoSession` | violation | finding 2 |
| `poc_import_key` | `PocImport` | violation | finding 3 |
| `stream_probe` | `MCImports` | violation | finding 4 |

Properties worth naming:

- *Agreement.* `GrantHolds`: what a call checked before the lock was released is
  still true when it publishes. `HistoryIsFaithful`: versions follow each other
  without gaps, each ended by a request for changes, and a retry gets the answer
  that was given however far the agreement has moved on. `KeepsPromise`: every step
  is a step or a stutter of `AgreementPromise`.
- *Evidence.* `AttemptsAreCoherent` (pointer and flag agree, a verdict has its
  evaluation, a key names one attempt, a replayed closure is the recorded one),
  `ClosedOnCurrent`, and `ClosureIsFinal`: a reservation that passed its checks
  before the closure cannot install its attempt after it.
- *Performance.* `PaidOnce`, `OneAnswer` across coordinators and restarts;
  `CompletedIsBacked` across machine crashes; `PermitsAreSpentOnce` under clocks
  that are read outside the lock.
- *Capture.* `MeetingIsDurable` and `TaintHolds` over duplicated, reordered and torn
  deliveries; `CaptureIsConsented` over lost children and old checkpoints;
  `ProvenanceHolds`.
- *Desk.* `AuthoringIsOwned` and `NothingChangesLate` relate operations, child
  processes, permits and closures; `LedgerIsFaithful` and `LedgerImplementsStore`
  relate the SQLite ledger to the reference adapter; `ClosureIsGuarded`.
- *Imports.* `MeasuredAsAgreed`, `ImportIsWhole`, `ReportsHold`.

Every property is known to fail for at least one plausible change of the code; the
changes are the `Mutant` operators of the modules, listed in `PROJECT.json`.

### Bounds and why they are enough

- *Agreement.* One POC: the only state shared between POCs is the capacity, and the
  proofs cover any number. Two revisions give three versions, enough for a replay
  from two versions back; two input changes let inputs move before and after the
  first read; one tick past a lifetime of one tick expires a link.
- *Evidence.* Two threads and two attempts are what every race needs: one that has
  checked and one that acts in between, one attempt and its successor. Two POCs
  cover keys sent for another POC and closures of one during mutations of the
  other. Two publishers with three files meet at every file operation.
- *Performance.* Three coordinators give the first worker, a retry while it runs,
  and a retry after a restart; one key is enough because the ledger treats keys
  independently, and the proofs cover any number. Two threads race for one
  acknowledgement, with time for it to expire and be set back.
- *Algorithms.* Three results for two criteria give every combination of missing,
  repeated and foreign. Twenty samples cross every threshold in both directions.
  Two repetitions of two requests for each policy, whose latency limits, rates and
  minimum samples differ; two faults in a bundle.
- *Capture.* Two processes over one inbox, seven scripted deliveries (in order, out
  of order, duplicated, after the stop, with a gap, too long, too many); two
  captures, one replacing the other; three webhook deliveries for two places.
- *Review, desk.* Two versions of one source and two threads; two authoring
  operations for the one worker slot in each of the three realms; two processes
  migrate and write the ledger; two web threads with the routes of one subject.
- *Imports.* Two versions and two keys of the performance agreement; two measured
  attempts with two workers; two operators, one loss of power; three changes of
  a two-file bundle; two callers, one reader of packs, one change of the runs root and two
  of a pack for one POC, which is enough to exchange a part between two readings and put
  it back; two workers and three keys at a store
  with room for two.

Action constraints of the MC modules name inputs the code treats alike only once:
sessions, keys and participants are used in order (`SessionsInOrder`,
`KeysInOrder`, `PeopleInOrder`), proposals arrive in order, a web behaviour has the
routes of one subject. Others leave out what shows nothing new: `WhileOpen` lets
the clock of the authoring desk stand still while no operation is open, `Imported`
changes no bundle before a contract is frozen and exchanges and verifies the pack of a
first import only while no start and no other import is under way (they share no state
with it), and `ProducerEnds` names one of the
ways in which a producer fails or its last attempt ends.

### Fairness

- `Agreement`: weak fairness of `Validate` or `Publish` for every POC. A call
  that holds the guard computes locally and releases the guard in a `finally`.
- `Evidence`: weak fairness of the steps of a thread inside an operation and of
  the end of every evaluation, which runs a bounded local fixture or verifies a
  local bundle. Starting an evaluation is not fair: `start` may be split by its
  caller into `reserve` and never `execute`.
- `EvidencePack`: weak fairness of a publisher's next step; a killed publisher
  has none.
- `PerformanceRun`: weak fairness of the worker of every coordinator; network
  requests have timeouts and transactions a busy timeout. `SpeechCapture`: weak
  fairness of a capture that has begun, whose transport has a timeout.
- `ProposalReview`: weak fairness of a call that has begun; its steps are local,
  and the provider call of an assisted draft is bounded by a timeout.

Clients, cancellations, input changes, clocks, kills and crashes are never fair.

Deadlock is not checked where the model ends by its bounds (attempts, results,
samples and operations are used up, and every publisher is done): the system
really has nothing left to do there. `Agreement` and `PocImport` are checked for
deadlock.

## 5. Findings

1. **A cancelled attempt gets a verdict** (`executable_cancel`).
   `ProcessLocalExecutableEvidenceService.reserve` overwrites `CANCELLED` with
   `STALE`; the late result no longer sees that the attempt had ended and stores
   its verdict. The newer service in `Evidence` does not have this (`EndIsFinal`).
2. **A repeated confirmation undoes a freeze** (`demo_session_retry`).
   `record_customer_decision` of the demo answers a repeated key with the recorded
   confirmation but clears `frozen_contract` and `last_run` on that path too.
3. **One key, two imports** (`poc_import_key`). `start` looks its key up under one
   acquisition of the lock and records the import under another that does not look
   again.
4. **One failed close spoils a measurement** (`stream_probe`). A response that was
   not 2xx and whose `close` raises keeps its `http_status` next to a transport
   outcome; the validation refuses the record, and with it the run.

Further places where code and text disagree, met while modelling. The first two
are stated at the end of `Agreement.tla`; no run is kept for these:

- `poc_agreement.py:937`: `prepare` checks the capacity, releases the lock and
  publishes without checking again, so two POCs that prepare at once exceed
  `max_agreements` by one (`CapacityHolds`).
- `poc_agreement.py:1316`: an active link is refused before the idempotency lookup,
  so the retry of a reissue that succeeded is rejected while its own link lives
  (`ReissueObservesResult`).
- `generic_evidence_pack.py:142`: when the last sync raises, the complete pack
  stays although the caller is told that publication failed safely, and every
  retry finds the name taken.
- `web.py:6974`: the revision route of an agreement is not recognised as POC-scoped,
  so a repeated revision key of a closed POC is answered 200 instead of 409.
- `inferdrome_dispatch.py:390`: `retry` takes up a reservation that may not be
  durable yet, so a loss of power can lead to a second successor.
- `poc_inferdrome_import.py:395`: `verified_evidence_pack_sha256` answers with the hash
  of a second reading of `decision-packet.html`, which is not the reading that was
  compared with the manifest; a file exchanged between the two is answered for. The
  model takes the step (`VerifyAnswer`); what the property says instead is in
  section 3.7.

## 6. Proofs

All theorems hold for every value of the constants, from the named assumptions of
`AgreementAssumption`, `PerformanceAssumption`, `EvidenceAssumption`,
`ExecutableAssumption`, `EvidencePackAssumption`, `EgressAssumption`,
`SpeechAssumption`, `ClockAssumption`, `ReviewAssumption`, `WebAssumption`,
`LedgerAssumption`, `CommandAssumption`, `DemoAssumption`, `AuthoringAssumption`,
`ZoomAssumption`, `TranscriptAssumption`, `WebhookAssumption`, `CustodyAssumption`,
`InboxAssumption`, `SessionAssumption`, `WorkspaceAssumption`, `DispatchAssumption`, `LifecycleAssumption` and
`StreamProbeAssumption` (sizes, thresholds, durations and instants are natural numbers, the server has finitely many
threads and its draft POCs are not the built-in ones, the pack has finitely many
criteria and a contract at least one rule to choose from, the placeholders are not
keys, inputs, verdicts, clips, publishers, commands, contracts, operations, instants or
scripts, an adapter starts with an event and drafts at least one, a report is not empty and
there is a key for it, no worker or operator is called by the word for nobody, no
invitation is called by the word that marks a corrupt one, and a result is told apart
from the proposal a source came with).

**Agreement** (`AgreementProofs`): `TypeCorrect`, `ChecksStillHold`,
`DecisionsAreOnWhatWasShown`, `FrozenOnlyIfConfirmed`, `FreezeIsFinal`,
`HistoryStaysFaithful`, `KeepsThePromise`.

The first inductive invariant, `Inv`, is `TypeOK /\ GrantHolds /\
DecisionOnWhatWasShown /\ FrozenIsConfirmed`. `FrozenIsConfirmed` alone is not
inductive: a freeze publishes in a later step than the one that saw the
confirmation, so it needs `GrantHolds` to know that the confirmation is still the
one that was checked; and `GrantHolds` survives only because the guard admits one
call per POC, so no other call changes that POC's dictionaries meanwhile. There is
one lemma per action and property; `FreezeIsFinal` is an action property derived
from the same invariant.

`HistoryStaysFaithful` needs more, `FullInv`, stated POC by POC. `ChainAt` is the
chain of versions. It is not inductive: a revision publishes the inputs it has
read in an earlier step, so `SeenAt` says that what a call in flight has read is
no newer than the inputs and no older than the version it works on. `AnswersAt`
says of every remembered answer that it is still the current value or that its
request has been overtaken by a later version, in terms of quantities that only
grow: input versions for `prepare`, contract versions for decisions and freezes.
A step for one POC leaves the conjuncts of the others alone (`Untouched`,
`PublishFullElsewhere`), so each publication is argued for its own POC
(`PrepareFull`, `DecisionFull`, `RevisionFull`, `ReissueFull`, `FreezeFull`).

`KeepsThePromise` is the refinement of `AgreementPromise`. `FullInv` gives what a
step alone does not know: that the decided version exists, that the new terms of a
revision differ from the old ones because their version does, and that a POC that
is revised is not frozen. Publication changes the four mapped functions at one POC
(`PromiseChanges`); each publication is then one step of the promise
(`PrepareOffers`, `DecisionDecides`, `RevisionRevises`, `FreezeSigns`) or, like a
reissue and everything else, invisible.

**PerformanceRun** (`PerformanceProofs`): `PaysOnce`, `CompletedStaysBacked`,
`AnswersAgree`, `OneFlightAtATime`.

`PaidOnce` says nothing of who may still pay. The inductive invariant ties every
worker that holds a reservation to its row (`Bound`: the row is `RUNNING` under
the worker's run, and there is one such worker per key, `OnePayer`), every row
without network work to its counter (`Unpaid`), completed rows to synced
directories with the verdict reported (`RowsBacked`, `Shown`, `ToldBacked`). Most
steps touch one operation only; lemma `LocalStep` says that a step which keeps the
invariant at its own operation keeps it everywhere, so each action is argued
locally. `OneFlightAtATime` has an inductive invariant of its own, `OneFlight` and
the types of the two flags.

**Evidence** (`EvidenceProofs`): `EvidenceTypes`, `ClosureStaysCurrent`,
`EndsAreFinal`, `AttemptsStayCoherent`, `PublishedPackStays`.

`ClosedOnCurrent` is not inductive: a reservation that has passed its checks would
replace the current attempt of a POC that was closed meanwhile, and a late result
would change the attempt a closure is bound to. `EvidenceInv` therefore says that a
closed POC has no mutation under way and that its current attempt is settled
(`ClosedIsQuiet`); that the counter is exactly the number of threads inside
`run_if_open` (`MutationsAreCounted`, by cardinalities of sets of threads, which is
why `Threads` is assumed finite), so that a thread inside keeps its POC open
(`InsideIsOpen`); and that an evaluation under way has not stored an outcome
(`WorkIsOpen`), so that what it stores later is not settled (`StoreStep`). A step
that stores one unsettled attempt keeps the invariant (`OneAttempt`), as does one
that only moves threads (`QuietEvidence`); installing an attempt is the one step
that touches two (`InstalledAttempts`, `InstallStep`). `EndsAreFinal` is the action
property derived from the same invariant (`StepKeeps`).

`RunInv` adds to `CurrentIsFresh` that every run's POC has a current run of its own.
`PackInv` says what a publisher knows at each of its steps: it made the directory
it holds, files are in the temporary or the final directory, the entries are
complete, synced, rooted. Two publishers never hold at once because holding
implies being the owner (`HolderStep`), and a step that leaves the disk alone
cannot hurt another publisher (`OffDiskStep`).

**Permits** (`PerformanceProofs`): `SpentOnce`, the property `PermitsAreSpentOnce` of
`ProviderEgress` and `SpeechCapture`, each under a specification of its own
(`EgressSpec`, `SpeechSpec`).

That an acknowledgement is one execution rests on three sets and on what threads
hold: a consumed acknowledgement has at most one permit (`OnePermit`), a thread that
sends holds the permit it took, alone (`OneExecution`), and nothing was sent before
the permit was taken (`SentIsTaken`). The clock may go back between any two steps,
so nothing in the invariant compares times; the window is the guard of the very step
that releases the body (`ReleaseInWindow`) or hands the clip to the transport
(`HeardInWindow`). A consent that is taken stays taken: the captures that run have
different consents, the consent has the clip of its capture (`OneCapture`), the
transport has not heard a clip that was not taken from its permit (`HeardOnce`), and
the transcripts of a consent are of its clip (`SpokenOnce`). Only the claim, the
transport and the handoff disturb these (`ClaimStep`, `TakeClipStep`,
`HandOffStep`); a step that moves one capture on keeps them (`OneCallFollows`).

**Review** (`ReviewProofs`): `ReviewStaysCoherent`, `PublishesOnCurrent`.

Neither part of `ReviewIsCoherent` is inductive: `decide` and `define` write on what
they looked up before, and a publication on a reservation made before the provider
was called. `ReviewInv` says what makes the old knowledge harmless. What was looked
up was shown once (`Knows`), so at the write it is either what the source came with
or the attempt that stands, and `_current_locked` tells the two apart
(`DecideStep`). What was decided is what is shown (`DecidedIsShown`), hence a
publication that finds the shown proposal undecided finds nothing of its source
decided. And a thread between reservation and end holds its key and its source
alone, of a source without an attempt (`OneReservation`), which is why a publication
never replaces another (`CommitStep`, `AttemptsMove`) and why a reservation that is
given back is one's own (`DroppedElsewhere`).

**Server threads** (`DeskProofs`): `ClosureStaysGuarded` (the property
`ClosureIsGuarded`) and `NothingAfterClose` (`NoWriteAfterClose`, one of the four
parts of `NothingChangesLate`).

`WebInv` adds to the balance of the reservations that a closed POC has none and has
reached its end (`ClosedAtRest`). Reservations are a cardinality, so a thread that
enters or leaves the services of a POC changes the set of its holders by one element
(`HoldersCount`, `ThreadEnters`, `ThreadLeaves`); whoever is inside holds a
reservation, hence nobody is inside a closed POC (`HolderIsOpen`) and the service that
acts is that of an open one (`MutateSpares`). The routes that reserve nothing cannot
write a closed POC for reasons of their own: a revision needs an agreement that was
sent back, and the performance POC is never closed.

**Confirmation ledger** (`DeskProofs`): `LedgerStaysValid`, `LedgerIsTheStore`,
`LedgerStaysFaithful` (the property `LedgerIsFaithful`).

The ledger validates all of its rows before it answers, so `OwnLedgerIsValid` says
that what the code writes passes what the code checks. `LedgerInv` states the
validator row by row: bindings that agree on the print of a version
(`OnePrintPerVersion`), at most one revocation per invitation (`RevokedOnce`), rows
and events that mention only each other (`RowsAgree`, `EventsAgree`), exactly one
creation per invitation (`CreatedOnce`), a reissue that matches one revocation of its
own instant (`ReissuesMatch`), and decisions on rows that stand (`DecisionsStand`).
The validator counts and `LedgerInv` names the one element instead
(`InvariantIsValid`): counting is the last step of the argument, not part of every
one. The attempt to prove it showed what `ReissuesMatch` depends on: the validator
recognises the source of a reissue by its instant alone, so a contract with two
reissues at one instant would be called corrupt. The source holds the port and the
contract of a reissue, and no writer of it; `Reissue` carries that condition as a guard
(`InstantIsTaken`), which whoever writes reissues has to meet. `LedgerIsTheStore` is
the refinement of
`ConfirmationStore`: a transaction that commits maps to the one step of the store, a
busy, refused, rolled back or killed one to a stutter. `ReferenceInv` is the
invariant of the reference itself: invitations differ in their tokens, and
operations and verdicts are the same records under two keys, which the property now
says directly where it once compared sizes.

**Guided demo** (`DeskProofs`): `DemoStaysTrue` (the property `DemoIsTrue`) and
`LateResultsAreDropped`.

`PackInv` adds to `ProofIsOfTheAgreement` the types of the pack and that a decision
belongs to the link that is out (`DecidedOfTheLink`): a proof is compared with the
assembled contract, which the decision reaches only through the link.
`AssistInv` says that the acknowledgement that is held has paid for nothing, that
reserved executions have different acknowledgements and are counted by `spend`, that
one execution runs, and that a call in flight was claimed on the workflow its guard
names; so a publication, whose guard compares the whole of it, is on that workflow.
That the dashboard offers only what can be done (`ActionIsPossible`) is argued by cases
over the projection: each offered action is shown to have its handler's guard true.

**Source authoring** (`DeskProofs`): `AuthoringStaysOwned` (the property
`AuthoringIsOwned`) and `FirstEndIsFinal`.

None of the five parts is inductive. `SlotInv` says that a claimed or dispatched
operation is the one of the slot, at the point of the run where it can be, and that
from dispatch on a live operation is still one that may send; without it
`RevokedIsUnsent` would not survive the write on the wire. `CopyInv` says that what a
commit has copied is dispatched and of a source without an attempt, which is what
`OneSuccessPerAttempt` needs of the write that follows. `ChildInv` places processes,
wires and what was sent with the slot and, in the demonstration, with the file that
records the consumption across restarts. `SuccessInv` pairs attempts and operations
that succeeded. Owner, timers and failures change operations in one of three ways
(`Settles`), proved harmless once (`SettlingKeeps`, `FailKeeps`); steps of the run are
argued by what they change (`RunKeeps`).

`NothingComesLate` joins four of these results into the property
`NothingChangesLate`, from the conjunction of the four specifications.

**Capture** (`CaptureProofs`): `ProvenanceStays` (the property `ProvenanceHolds`)
and `CaptureStaysConsented` (the property `CaptureIsConsented`).

`WebhookInv` says of the authenticator that a delivery observed first is remembered,
or its window closed before the last clock value that was used (`FirstIsRemembered`):
a request that read the clock earlier is refused for going back, so pruning loses
nothing that could come again. `CustodyInv` rests on control files being written once:
a review is of the seal that stands (`ReviewOfTheSeal`), and only a mode change that
preceded the seal makes that last. `DraftInv` of the session carries its claim over
the recovered checkpoint too, and holds because the intake keeps one transcript for
good. `LiveInv` of the runtime says what a record may be (`Rightful`: a started capture
has the browser's consent, one that ended has no child, people confirmed differ from
each other and from the candidate), that a pairing nobody started has no launch
(`LaunchIsAsked`, without which a child could be published into it) and that a child
given up is pending until it is closed, which is `NoOrphanChild` over every
interleaving of the launch thread with replacement, revocation and shutdown.

**Meetings** (`CaptureProofs`): `MeetingStaysDurable` (the property
`MeetingIsDurable`) and `TaintStaysFinal` (the property `TaintHolds`).

`InboxInv` says what the tables of the inbox owe each other: id and number name a row
of a stream (`RowsAreUnique`), a receipt is for a row (`ReceiptsHaveRows`), a row has
one accepting receipt (`AcceptedOnce`), and rows and duplicates add up to receipts
within the limits (`WithinLimits`, which needs the sums of `Dicts` for the text of a
stream). An accepted event (`AcceptKeeps`), a repeated one (`RepeatKeeps`) and every
other outcome keep it. `MeetingInv` adds what each process rests on it. That the events
of a session are in one stream is carried by one receipt: the key of the first event of
its start is the same in every process and after every restart, and who delivers to a
stream has that receipt (`Begun`), so a second capture of the session, which has
another binding, never gets past it. A start is at an event before which all were
delivered (`Delivered`), a finalization holds rows of its own stream, and a source is
the text of its stream (`SourceOK`), which later appends cannot change because numbers
are unique (`SameEvents`). What is said of one process is stated over the rows and
receipts as arguments, so that an append by another process keeps it by growth alone
(`GrowthKeeps`). The recovery reads without a transaction; that it cannot go on with a
torn read follows from `AcceptedOnce`: a row that was missed has a receipt that matches
no row that was read (`MatchedIsWhole`).


**Reports** (`ImportProofs`): `ReportsStayCurrent` (the property `ReportsHold`).

`StoreCoherent` says that counters are sums: the bytes and slots of the report store
are those of the operations and reservations it holds. `WorkspaceInv` adds who owns
what: a create between its decision and its end holds the write stripe of its POC
(`Fits`), and every reservation is of a create that is still going to release it
(`IsOwned`), so a release finds its own reservation and a counter never goes below
what is left. Sums over dictionaries move by one entry (`BytesMore`, `BytesLess`,
`SlotsMore`, `SlotsLess`); publication is the step that turns a reservation into an
operation and drops the one it displaces (`PublishedStore`).

**Imports** (`ImportProofs`): `ImportStaysWhole`, the property `ImportIsWhole` of
`InferdromeDispatch`, `BundleReader` and `PocImport`, each under its own specification.

The reader compares identities, not contents. `ReaderInv` says that every identity it
remembers was given before now (`IdentitiesKnown`), hence a file that has the identity
it had has the content it had (`SameContent`), and a directory that has its identity
has the names it had (`SameNames`); the second scan then covers the interval of all the
reads (`ScannedAgain`). `ImportInv` ties each import to the contract and selection it
began with, and the slot of a POC to the one import that runs; of a verification it says
that the parts compared so far have been as written since the call began, which is
history the model keeps (`intact`): the manifest that matched the recorded hash lists
the files of its own import, and a file that matched the list is one of them.

`DispatchInv` has three parts. `Placed` is where each process stands and which lock it
holds there. `ResultsKept` is the order of the `fsync`s: a receipt is durable before a
result names it and a result before it is answered, so a power loss, which takes back
any set of pending files, takes neither back. `Chain` is the argument for one producer:
while no power was lost the operations are one chain of retries, each over before the
next was reserved, and the producer that runs is that of the last. It is stated under
`losses = 0`, as the property is: one producer at a time is a result about kills, not
about losses of power. `retry` relies on an event and a reservation that it sees and
does not sync again, so a loss of power may take both back after the successor was made,
and the operation can be retried once more (section 5). That answers stay what they were
is proved through both.

**Performance agreement and probe** (`ImportProofs`): `RunsAsAgreed`,
`MeasuredIsAgreed` (the property `MeasuredAsAgreed`) and `ReceiptNamesOneVerdict`.

`LifecycleInv` is a chain per POC (`VersionChain`): versions are numbered, no two share a
proposal, and the baseline of an open revision covers all that the superseded versions
were made of, which is why a new version cannot take up an old proposal again. A step
moves one POC (`OneVersionMoves`), and an answer given under a key stays what it was
because every number it names is one that was given before (`AnswersRepeat`).

`ProbeInv` ties the locals of each attempt to what was heard of its stream (`Hears`):
while a stream is read the two agree on the first content, so a success is recorded with
the time to it. The verdict then is arithmetic over sets of records: a record's position
in the evidence is its attempt's (`PositionsCount`, by a bijection), and the percentile,
for any number of values, is one of them with at most one in twenty above it
(`PercentileFacts`, from the least-number principle), so a percentile in time leaves at
most one late success in twenty. A PASS excludes cancelled and internally failed
requests, so what is not delivered is what the error rate counts.

`ReceiptNamesOneVerdict` is about stored packs: a receipt names the records, the manifest
and the criterion, so packs that read back as decided and share a receipt agree.
**Dictionaries** (`Dicts`): what `Put`, `Drop` and lookup do to domain,
values and type, and what a sum over a finite set (`SumFunctionOnSet` of the community
modules) is: a number, of the values over its set only, and any one value plus the sum
of the others. The induction these need is over subsets, with a set of subsets in the
place of a predicate (`SubsetInduction`), from the well-foundedness of the numbers.

Only model-checked: liveness (`GuardIsReleased`, `WorkEnds`, `CallsEnd`,
`ReservationEnds`), which with fairness and `ENABLED` is outside this prover's
reach; and what the `RECURSIVE` operators and folds over sequences compute for every
input, so all of `algorithms`.

## 7. Not modelled

Reading operations (snapshots, histories) change no state and appear only where a
property is about what they show (`Workspace`). Parsing, canonical JSON, digests,
redaction, signatures and file formats are values that are equal or not.
Floating-point rounding is left out of `Verdicts`. Sockets and HTTP framing,
archives, JSON schemas, report texts and static pages are left out. The command
line, the fixtures and the operator's terminal prompts are sequential programs
without shared state. The capability planner is seen as the agreement sees it: a
plan that changes version or becomes unavailable at any moment. `PROJECT.json`
lists every component with what is left out of it and why.

## 8. Plan

Models: the capability planner's own records, and the publication of a routing pack. Proofs:
every safety invariant and action property of the runs over state is proved; what is left
are the algorithms, which need induction over data.
