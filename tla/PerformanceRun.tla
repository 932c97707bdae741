--------------------------- MODULE PerformanceRun ---------------------------
(***************************************************************************)
(* One paid measurement per idempotency key: the coordinators of a server  *)
(* (ProcessLocalPOCPerformanceRunService, PerformanceWebRuntime), the      *)
(* runner (run_performance_proof), its durable SQLite ledger               *)
(* (SQLitePerformanceOperationLedger) and the published run directories    *)
(* (persist_performance_artifacts).                                        *)
(*                                                                         *)
(* Coordinators keep their records in memory and lose them with their      *)
(* process.  Several of them, in one or in several processes, share the    *)
(* ledger and the output root.  A worker takes one step per transaction,   *)
(* network call and durable file operation.  A frozen contract does not    *)
(* change, so a request is told apart by its input digest alone.           *)
(***************************************************************************)
EXTENDS Integers, FiniteSets, Dicts

CONSTANTS
    Coordinators,   \* single-flight coordinators
    Browsers,       \* those that have a readiness check as well
    Keys,           \* idempotency keys
    Inputs,         \* digests of frozen inputs
    Verdicts,       \* what a completed measurement may come to
    MaxOperations,  \* max_operations of a coordinator
    None

ASSUME PerformanceAssumption ==
    /\ Browsers \subseteq Coordinators
    /\ MaxOperations \in Nat \ {0}
    /\ None \notin Keys \cup Inputs \cup Verdicts

VARIABLES
    ledger,     \* performance_operations: key -> [input, run, status]
    runs,       \* how many run identities were allocated
    dirs,       \* published run directories: run -> verdict
    rooted,     \* runs whose directory entry is synced
    rec,        \* records of the coordinators, by operation
    active,     \* _active_operation_id
    refreshing, \* _readiness_refreshing
    work,       \* the worker of every operation
    paid,       \* history: how often network work began for a key
    told        \* history: what was reported as completed

durable == <<ledger, runs, dirs, rooted>>
vars == <<ledger, runs, dirs, rooted, rec, active, refreshing, work, paid, told>>

Operations == Coordinators \X Keys

Reasons == {"BLOCKED", "NOT_PROVEN", "FAILED"}
Statuses == Reasons \cup {"RUNNING", "COMPLETED"}

Record(input, status, verdict) ==
    [input |-> input, status |-> status, verdict |-> verdict]
NoRecord == Record(None, "NONE", None)

\* A worker: its next step, its run, and the verdict or status it carries.
Worker(step, run, carry) == [step |-> step, run |-> run, carry |-> carry]
NoWorker == Worker("none", 0, None)

Init ==
    /\ ledger = EmptyDict /\ runs = 0
    /\ dirs = EmptyDict /\ rooted = {}
    /\ rec = [o \in Operations |-> NoRecord]
    /\ active = [c \in Coordinators |-> None]
    /\ refreshing = [c \in Coordinators |-> FALSE]
    /\ work = [o \in Operations |-> NoWorker]
    /\ paid = [k \in Keys |-> 0]
    /\ told = {}

-----------------------------------------------------------------------------
(***************************************************************************)
(* The coordinator.                                                        *)
(***************************************************************************)

Held(c) == {k \in Keys : rec[<<c, k>>] # NoRecord}

\* Mutant: a run may start while readiness is being checked.
FreeOfRuns(c) == active[c] = None

\* start: nothing else is in flight
Free(c) == active[c] = None /\ ~refreshing[c]

FirstStep(c) == IF c \in Browsers THEN "begin" ELSE "reserve"

\* The browser runtime first shows VALIDATING; its worker turns that to RUNNING.
Start(c, k, i) ==
    /\ rec[<<c, k>>] = NoRecord
    /\ Free(c)
    /\ Cardinality(Held(c)) < MaxOperations
    /\ rec' = [rec EXCEPT ![<<c, k>>] =
                Record(i, IF c \in Browsers THEN "VALIDATING" ELSE "RUNNING", None)]
    /\ active' = [active EXCEPT ![c] = k]
    /\ work' = [work EXCEPT ![<<c, k>>] = Worker(FirstStep(c), 0, None)]
    /\ UNCHANGED <<durable, refreshing, paid, told>>

ExecuteBegin(c, k) ==
    /\ work[<<c, k>>].step = "begin"
    /\ rec' = [rec EXCEPT ![<<c, k>>] = Record(@.input, "RUNNING", None)]
    /\ work' = [work EXCEPT ![<<c, k>>] = Worker("reserve", 0, None)]
    /\ UNCHANGED <<durable, active, refreshing, paid, told>>

\* refresh_readiness, before and after its probe
RefreshBegin(c) ==
    /\ c \in Browsers
    /\ active[c] = None /\ ~refreshing[c]
    /\ refreshing' = [refreshing EXCEPT ![c] = TRUE]
    /\ UNCHANGED <<durable, rec, active, work, paid, told>>

RefreshEnd(c) ==
    /\ refreshing[c]
    /\ refreshing' = [refreshing EXCEPT ![c] = FALSE]
    /\ UNCHANGED <<durable, rec, active, work, paid, told>>

\* The terminal result is stored and the flight is over.
Store(c, k, status, verdict) ==
    /\ rec' = [rec EXCEPT ![<<c, k>>] = Record(@.input, status, verdict)]
    /\ active' = [active EXCEPT ![c] = IF @ = k THEN None ELSE @]
    /\ work' = [work EXCEPT ![<<c, k>>] = NoWorker]
    /\ UNCHANGED refreshing

\* A result without evidence: FAILED and RUNNING rows and exceptions of the
\* runner are all shown as NOT_PROVEN.
StoreReason(c, k, status) ==
    Store(c, k, IF status = "BLOCKED" THEN "BLOCKED" ELSE "NOT_PROVEN", None)

\* The thread that was to take the first step could not be started.
LaunchFails(c, k) ==
    /\ work[<<c, k>>].step = FirstStep(c)
    /\ StoreReason(c, k, "NOT_PROVEN")
    /\ UNCHANGED <<durable, paid, told>>

-----------------------------------------------------------------------------
(***************************************************************************)
(* The runner.                                                             *)
(***************************************************************************)

At(c, k, step) == work[<<c, k>>].step = step

Goto(c, k, step, carry) ==
    work' = [work EXCEPT ![<<c, k>>] = Worker(step, @.run, carry)]

Known(k) == k \in DOMAIN ledger

\* Mutant: the inputs bound to the key are not compared.
AnyInput(c, k) == Known(k)

SameInput(c, k) == Known(k) /\ ledger[k].input = rec[<<c, k>>].input

\* Mutant: an interrupted operation is executed again.
ShouldExecuteAgain(k) == Known(k) => ledger[k].status = "RUNNING"

\* Only a newly created reservation may start network work.
ShouldExecute(k) == ~Known(k)

\* reserve inserts the row RUNNING in one transaction, before any network work.
Reserve(c, k) ==
    /\ At(c, k, "reserve")
    /\ ShouldExecute(k)
    /\ runs' = runs + 1
    /\ ledger' = Put(ledger, k, [input |-> rec[<<c, k>>].input, run |-> runs + 1,
                                 status |-> "RUNNING"])
    /\ work' = [work EXCEPT ![<<c, k>>] = Worker("preflight", runs + 1, None)]
    /\ UNCHANGED <<dirs, rooted, rec, active, refreshing, paid, told>>

\* _replay_operation: a completed row is verified again, any other row is
\* reported as it is.
Replay(c, k) ==
    /\ At(c, k, "reserve")
    /\ ~ShouldExecute(k)
    /\ SameInput(c, k)
    /\ IF ledger[k].status = "COMPLETED"
       THEN /\ work' = [work EXCEPT ![<<c, k>>] = Worker("verify", ledger[k].run, None)]
            /\ UNCHANGED <<rec, active, refreshing>>
       ELSE StoreReason(c, k, ledger[k].status)
    /\ UNCHANGED <<durable, paid, told>>

\* The inputs or the credentials are refused, the database cannot be opened, or
\* the key is bound to other inputs: nothing is reserved.
ReserveRaises(c, k) ==
    /\ At(c, k, "reserve")
    /\ StoreReason(c, k, "NOT_PROVEN")
    /\ UNCHANGED <<durable, paid, told>>

\* _run_preflight: the first request of the measurement
Preflight(c, k) ==
    /\ At(c, k, "preflight")
    /\ paid' = [paid EXCEPT ![k] = @ + 1]
    /\ \/ Goto(c, k, "probe", None)
       \/ \E status \in {"BLOCKED", "NOT_PROVEN"} : Goto(c, k, "mark", status)
    /\ UNCHANGED <<durable, rec, active, refreshing, told>>

\* mark_terminal: RUNNING to one terminal status, once
MarkTerminal(k, run, status) ==
    /\ Known(k) /\ ledger[k].run = run
    /\ ledger[k].status = "RUNNING"
    /\ ledger' = Put(ledger, k, [input |-> ledger[k].input, run |-> run,
                                 status |-> status])

Mark(c, k) ==
    /\ At(c, k, "mark")
    /\ MarkTerminal(k, work[<<c, k>>].run, work[<<c, k>>].carry)
    /\ StoreReason(c, k, work[<<c, k>>].carry)
    /\ UNCHANGED <<runs, dirs, rooted, paid, told>>

\* run_probe, the receipt and the authorized decision
Probe(c, k, v) ==
    /\ At(c, k, "probe")
    /\ Goto(c, k, "publish", v)
    /\ UNCHANGED <<durable, rec, active, refreshing, paid, told>>

\* persist_performance_artifacts: the finished directory is renamed ...
Publish(c, k) ==
    /\ At(c, k, "publish")
    /\ work[<<c, k>>].run \notin DOMAIN dirs
    /\ dirs' = Put(dirs, work[<<c, k>>].run, work[<<c, k>>].carry)
    /\ Goto(c, k, "sync", work[<<c, k>>].carry)
    /\ UNCHANGED <<ledger, runs, rooted, rec, active, refreshing, paid, told>>

\* Mutant: the renamed directory is not synced.
NotRooted(run) == UNCHANGED rooted

\* _fsync_directory(root)
Rooted(run) == rooted' = rooted \cup {run}

\* ... and its new name is synced.
Sync(c, k) ==
    /\ At(c, k, "sync")
    /\ Rooted(work[<<c, k>>].run)
    /\ Goto(c, k, "complete", None)
    /\ UNCHANGED <<ledger, runs, dirs, rec, active, refreshing, paid, told>>

Complete(c, k) ==
    /\ At(c, k, "complete")
    /\ MarkTerminal(k, work[<<c, k>>].run, "COMPLETED")
    /\ Goto(c, k, "verify", None)
    /\ UNCHANGED <<runs, dirs, rooted, rec, active, refreshing, paid, told>>

\* _replay_completed and the coordinator's verification of the pack
Verify(c, k) ==
    /\ At(c, k, "verify")
    /\ work[<<c, k>>].run \in DOMAIN dirs
    /\ Store(c, k, "COMPLETED", dirs[work[<<c, k>>].run])
    /\ told' = told \cup {[key |-> k, input |-> rec[<<c, k>>].input,
                           verdict |-> dirs[work[<<c, k>>].run]]}
    /\ UNCHANGED <<durable, paid>>

\* A step after the reservation raises.
Raise(c, k) ==
    /\ \E step \in {"preflight", "mark", "probe", "publish", "sync", "complete", "verify"} :
        At(c, k, step)
    /\ Goto(c, k, "fail", None)
    /\ UNCHANGED <<durable, rec, active, refreshing, paid, told>>

\* Mutant: a failure that cannot be marked never returns.
FailMarked(c, k) ==
    /\ At(c, k, "fail")
    /\ work[<<c, k>>].run \notin DOMAIN dirs
    /\ MarkTerminal(k, work[<<c, k>>].run, "FAILED")
    /\ StoreReason(c, k, "NOT_PROVEN")
    /\ UNCHANGED <<runs, dirs, rooted, paid, told>>

\* The runner's except clause: without a published directory the row becomes
\* FAILED, unless that raises too; with one it is left as it is.
Fail(c, k) ==
    /\ At(c, k, "fail")
    /\ \/ UNCHANGED ledger
       \/ /\ work[<<c, k>>].run \notin DOMAIN dirs
          /\ MarkTerminal(k, work[<<c, k>>].run, "FAILED")
    /\ StoreReason(c, k, "NOT_PROVEN")
    /\ UNCHANGED <<runs, dirs, rooted, paid, told>>

-----------------------------------------------------------------------------
(***************************************************************************)
(* Processes and machines stop; what they kept in memory is lost.          *)
(***************************************************************************)

Forget(C) ==
    /\ rec' = [o \in Operations |-> IF o[1] \in C THEN NoRecord ELSE rec[o]]
    /\ active' = [c \in Coordinators |-> IF c \in C THEN None ELSE active[c]]
    /\ refreshing' = [c \in Coordinators |-> c \notin C /\ refreshing[c]]
    /\ work' = [o \in Operations |-> IF o[1] \in C THEN NoWorker ELSE work[o]]
    /\ UNCHANGED <<paid, told>>

Kill(c) ==
    /\ Held(c) # {} \/ refreshing[c]
    /\ Forget({c})
    /\ UNCHANGED durable

\* A renamed directory survives only if its name was synced.
Crash ==
    /\ \E run \in DOMAIN dirs : run \notin rooted
    /\ \E lost \in SUBSET (DOMAIN dirs \ rooted) :
        dirs' = [run \in DOMAIN dirs \ lost |-> dirs[run]]
    /\ Forget(Coordinators)
    /\ UNCHANGED <<ledger, runs, rooted>>

Run(c, k) ==
    \/ ExecuteBegin(c, k) \/ LaunchFails(c, k)
    \/ Reserve(c, k) \/ Replay(c, k) \/ ReserveRaises(c, k)
    \/ Preflight(c, k) \/ Mark(c, k)
    \/ \E v \in Verdicts : Probe(c, k, v)
    \/ Publish(c, k) \/ Sync(c, k) \/ Complete(c, k) \/ Verify(c, k)
    \/ Raise(c, k) \/ Fail(c, k)

Next ==
    \/ \E c \in Coordinators :
        \/ \E k \in Keys, i \in Inputs : Start(c, k, i)
        \/ \E k \in Keys : Run(c, k)
        \/ RefreshBegin(c) \/ RefreshEnd(c) \/ Kill(c)
    \/ Crash

\* Requests have timeouts and transactions a busy timeout: a worker that is not
\* killed comes to its end.
Spec ==
    /\ Init /\ [][Next]_vars
    /\ \A c \in Coordinators : WF_vars(\E k \in Keys : Run(c, k))

-----------------------------------------------------------------------------
(***************************************************************************)
(* Properties.                                                             *)
(***************************************************************************)

\* A key buys one measurement: whatever is retried, on whatever coordinator, and
\* whoever is killed at whatever moment, network work begins at most once.
PaidOnce == \A k \in Keys : paid[k] <= 1

\* A completed row names a directory that is there for good, even if the machine
\* crashes, and whoever shows a result as completed shows the verdict of it.
CompletedIsBacked ==
    /\ \A k \in DOMAIN ledger :
        ledger[k].status = "COMPLETED" => ledger[k].run \in DOMAIN dirs
    /\ \A c \in Coordinators, k \in Keys :
        rec[<<c, k>>].status = "COMPLETED" =>
            /\ k \in DOMAIN ledger /\ ledger[k].status = "COMPLETED"
            /\ rec[<<c, k>>].verdict = dirs[ledger[k].run]

\* A key has one answer: every completed report under it, before and after
\* restarts, is for the same inputs and has the same verdict.
OneAnswer == \A a, b \in told : a.key = b.key => a = b

\* A coordinator has one flight: one worker or one readiness check, and the
\* worker belongs to the operation it shows as active.
OneFlight ==
    \A c \in Coordinators :
        /\ \A k \in Keys : work[<<c, k>>] # NoWorker <=> active[c] = k
        /\ refreshing[c] => active[c] = None

\* A flight ends, and the next one can start.
FlightEnds == \A c \in Coordinators : active[c] # None ~> active[c] = None

=============================================================================
