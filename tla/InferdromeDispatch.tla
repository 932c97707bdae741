------------------------- MODULE InferdromeDispatch -------------------------
(***************************************************************************)
(* The operator's local transport to the producer and the bridge from its  *)
(* result to an immutable receipt (inferdrome_dispatch,                    *)
(* inferdrome_dispatch_worker, inferdrome_receipt_bridge).                 *)
(*                                                                         *)
(* Every operation is a directory of files that are written once.  A file  *)
(* is published by one step that makes it visible and is durable only      *)
(* after the directory is synced by a later step: between the two, and     *)
(* everywhere else, the process may die or the machine lose power.         *)
(***************************************************************************)
EXTENDS Naturals, FiniteSets, Sequences, Dicts

CONSTANTS
    None,
    Operators,    \* processes of the command line
    MaxOps,       \* bound on the operations; the first is not a retry
    MaxAttempts,  \* attempts of one plan
    MaxLosses     \* bound on the losses of power

ASSUME DispatchAssumption ==
    /\ MaxOps \in Nat \ {0} /\ MaxAttempts \in Nat /\ MaxLosses \in Nat
    /\ None \notin Operators

VARIABLES
    dirs,      \* operation -> the files of its directory, by name
    pending,   \* operation -> the files that are visible but not durable; and 0 ->
               \* the operations whose directory is not
    held,      \* operation -> who holds dispatch.lock
    procs,     \* process -> [at, op, then]
    alive,     \* operations whose producer group runs
    bundle,    \* operation -> what its producer left: "PASS", "FAIL", "BAD"
    reserved,  \* identities chosen so far
    answers,   \* what run_operation returned: <<operation, result>>
    losses     \* how often the power went

dispatchVars == <<dirs, pending, held, procs, alive, bundle, reserved, answers, losses>>

Ops == 1 .. MaxOps
Idle == [at |-> "idle", op |-> None, then |-> None]
Refusals == {"REFUSED", "FAILED", "TIMED_OUT", "CANCELLED", "OUTPUT_LIMIT", "RESULT_INVALID",
             "INGESTION_REJECTED", "PROCESS_CONTROL_FAILED"}

DispatchInit ==
    /\ dirs = EmptyDict
    /\ pending = [o \in Ops \cup {0} |-> {}]
    /\ held = [o \in Ops |-> None]
    /\ procs = [p \in Operators |-> Idle]
    /\ alive = {} /\ bundle = EmptyDict
    /\ reserved = 0
    /\ answers = {} /\ losses = 0

Has(o, name) == o \in DOMAIN dirs /\ name \in DOMAIN dirs[o]

\* status: the state of a complete history; an incomplete one is refused.
Status(o) ==
    IF ~(Has(o, "plan") /\ Has(o, "lock") /\ Has(o, "e0")) THEN "INVALID"
    ELSE IF Has(o, "e2") THEN dirs[o]["e2"]
    ELSE IF Has(o, "e1") THEN dirs[o]["e1"] ELSE "PREPARED"

At(p, where) == procs[p].at = where
Goes(p, where) == procs' = [procs EXCEPT ![p].at = where]
Opened(p, o, where) == procs' = [procs EXCEPT ![p] = [at |-> where, op |-> o, then |-> None]]

\* _write and publish, up to the sync of the directory; never over a file
Publish(p, o, name, content, then) ==
    /\ ~Has(o, name)
    /\ dirs' = Put(dirs, o, Put(dirs[o], name, content))
    /\ pending' = [pending EXCEPT ![o] = @ \cup {name}]
    /\ procs' = [procs EXCEPT ![p].at = "sync", ![p].then = then]

\* Mutant: what another process left visible is taken for durable.
KeptAsSeen(p, then) == Goes(p, then) /\ UNCHANGED <<dirs, pending>>

\* barrier: what is there already is synced again before it is relied on.
Kept(p, then) ==
    /\ procs' = [procs EXCEPT ![p].at = "sync", ![p].then = then]
    /\ UNCHANGED <<dirs, pending>>

\* The lock is taken without waiting; the caller is refused when it is held.
Lock(p, o) == held[o] = None /\ held' = [held EXCEPT ![o] = p]
Unlocked(p) == [o \in Ops |-> IF held[o] = p THEN None ELSE held[o]]

\* The sync that ends a publication or a barrier; dispatch, when it has a
\* result to admit, gives up its lock before the bridge takes it again.
SyncDirectory(p) ==
    /\ At(p, "sync")
    /\ pending' = [pending EXCEPT ![procs[p].op] = {}]
    /\ held' = IF procs[p].then = "finalize" THEN Unlocked(p) ELSE held
    /\ Goes(p, procs[p].then)
    /\ UNCHANGED <<dirs, alive, bundle, reserved, answers, losses>>

-----------------------------------------------------------------------------
(***************************************************************************)
(* Preparation and retry.                                                  *)
(***************************************************************************)

\* The directory of a new operation is made, and durable with the sync that follows.
MakeDirectory(p, o) ==
    /\ dirs' = Put(dirs, o, EmptyDict)
    /\ pending' = [pending EXCEPT ![0] = @ \cup {o}]
    /\ Opened(p, o, "root")

SyncRoot(p) ==
    /\ At(p, "root")
    /\ pending' = [pending EXCEPT ![0] = {}]
    /\ Goes(p, "materialize")
    /\ UNCHANGED <<dirs, held, alive, bundle, reserved, answers, losses>>

\* prepare, up to the directory of the new operation
Prepare(p) ==
    /\ At(p, "idle") /\ reserved = 0
    /\ reserved' = 1
    /\ MakeDirectory(p, 1)
    /\ UNCHANGED <<held, alive, bundle, answers, losses>>

\* The lock file is touched only; it is durable with the event that follows.
TouchLock(p, o) ==
    /\ dirs' = Put(dirs, o, Put(dirs[o], "lock", None))
    /\ pending' = [pending EXCEPT ![o] = @ \cup {"lock"}]
    /\ UNCHANGED procs

\* _prepare_plan: plan, lock file, PREPARED, in this order.  The process that
\* prepares a retry holds the lock of its parent.
Materialize(p) ==
    /\ At(p, "materialize")
    /\ LET o == procs[p].op
           parents == {q \in DOMAIN dirs : Has(q, "retry") /\ dirs[q]["retry"] = o}
           plan == [parent |-> IF parents = {} THEN None ELSE CHOOSE q \in parents : TRUE,
                    attempt |-> IF parents = {} THEN 1 ELSE
                        dirs[CHOOSE q \in parents : TRUE]["plan"].attempt + 1] IN
       \/ ~Has(o, "plan") /\ Publish(p, o, "plan", plan, "materialize")
       \/ Has(o, "plan") /\ ~Has(o, "lock") /\ TouchLock(p, o)
       \/ Has(o, "lock") /\ ~Has(o, "e0") /\ Publish(p, o, "e0", "PREPARED", "done")
    /\ UNCHANGED <<held, alive, bundle, reserved, answers, losses>>

\* Mutant: the reason of a failure is not looked at.
RetryAnything(p, o) ==
    /\ At(p, "idle")
    /\ Status(o) \in Refusals
    /\ dirs[o]["plan"].attempt < MaxAttempts
    /\ Lock(p, o)
    /\ Opened(p, o, "reserve")
    /\ UNCHANGED <<dirs, pending, alive, bundle, reserved, answers, losses>>

\* retry, up to its reservation
Retry(p, o) ==
    /\ At(p, "idle")
    /\ Status(o) \in Refusals \ {"PROCESS_CONTROL_FAILED"}
    /\ dirs[o]["plan"].attempt < MaxAttempts
    /\ Lock(p, o)
    /\ Opened(p, o, "reserve")
    /\ UNCHANGED <<dirs, pending, alive, bundle, reserved, answers, losses>>

\* The one successor is reserved before its directory is made.
Reserve(p) ==
    /\ At(p, "reserve")
    /\ LET o == procs[p].op IN
       \/ Has(o, "retry") /\ Goes(p, "spawn") /\ UNCHANGED <<dirs, pending, reserved>>
       \/ /\ ~Has(o, "retry") /\ reserved < MaxOps
          /\ reserved' = reserved + 1
          /\ Publish(p, o, "retry", reserved + 1, "spawn")
    /\ UNCHANGED <<held, alive, bundle, answers, losses>>

\* A directory that is there is never completed or replaced.
Spawn(p) ==
    /\ At(p, "spawn")
    /\ LET c == dirs[procs[p].op]["retry"] IN
       IF c \in DOMAIN dirs THEN Goes(p, "done") /\ UNCHANGED <<dirs, pending>>
       ELSE MakeDirectory(p, c)
    /\ UNCHANGED <<held, alive, bundle, reserved, answers, losses>>

\* The end of a call that has nothing to answer for
Return(p) ==
    /\ At(p, "done")
    /\ held' = Unlocked(p)
    /\ procs' = [procs EXCEPT ![p] = Idle]
    /\ UNCHANGED <<dirs, pending, alive, bundle, reserved, answers, losses>>

-----------------------------------------------------------------------------
(***************************************************************************)
(* Dispatch.                                                               *)
(***************************************************************************)

\* The first half of run_operation
RunOperation(p, o) ==
    /\ At(p, "idle")
    /\ held[o] = None
    /\ \/ /\ Status(o) = "PREPARED"
          /\ \A f \in {"intent", "receipt", "result"} : ~Has(o, f)
          /\ Opened(p, o, "dispatch")
       \/ Status(o) = "AWAITING_ADMISSION" /\ Opened(p, o, "finalize")
    /\ UNCHANGED <<dirs, pending, held, alive, bundle, reserved, answers, losses>>

\* _preflight: the inputs are as planned and no run has the identity.
MayRun(o) == o \notin DOMAIN bundle

\* dispatch up to its first event
Dispatch(p) ==
    /\ At(p, "dispatch")
    /\ LET o == procs[p].op IN
       /\ Lock(p, o)
       /\ Status(o) = "PREPARED"
       /\ \/ Publish(p, o, "e1", "REFUSED", "done")
          \/ MayRun(o) /\ Publish(p, o, "e1", "RUNNING", "launch")
    /\ UNCHANGED <<alive, bundle, reserved, answers, losses>>

\* _execute: cancelled already, not to be started, or the group runs
Launch(p) ==
    /\ At(p, "launch")
    /\ LET o == procs[p].op IN
       \/ \E state \in {"CANCELLED", "FAILED"} : Publish(p, o, "e2", state, "done") /\ UNCHANGED alive
       \/ alive' = alive \cup {o} /\ Goes(p, "wait") /\ UNCHANGED <<dirs, pending>>
    /\ UNCHANGED <<held, bundle, reserved, answers, losses>>

\* The producer leaves its bundle; its group stays until it is stopped.
Produce(o, left) ==
    /\ o \in alive /\ o \notin DOMAIN bundle
    /\ bundle' = Put(bundle, o, left)
    /\ UNCHANGED <<dirs, pending, held, procs, alive, reserved, answers, losses>>

\* _stop, when _group_is_stopped proves it, and when it cannot
Stopped(o) == alive' = alive \ {o}
Uncertain(o) == alive' \in {alive, alive \ {o}}

\* _returned_bundle, verified against the plan
AfterReturn(o) ==
    IF bundle[o] = "BAD" THEN {"RESULT_INVALID", "INGESTION_REJECTED"} ELSE {"AWAITING_ADMISSION"}

\* The end of _execute and the terminal event: the group is stopped before the event says
\* anything else than that its control failed.
Collect(p) ==
    /\ At(p, "wait")
    /\ LET o == procs[p].op IN
       \/ /\ \E state \in {"FAILED", "TIMED_OUT", "CANCELLED", "OUTPUT_LIMIT"} :
                Publish(p, o, "e2", state, "done")
          /\ Stopped(o)
       \/ /\ o \in DOMAIN bundle
          /\ \E state \in AfterReturn(o) :
                Publish(p, o, "e2", state, IF state = "AWAITING_ADMISSION" THEN "finalize" ELSE "done")
          /\ Stopped(o)
       \/ Publish(p, o, "e2", "PROCESS_CONTROL_FAILED", "done") /\ Uncertain(o)
    /\ UNCHANGED <<held, bundle, reserved, answers, losses>>

\* The worker ends its group when the pipe of its owner is closed.
OwnerLost(o) ==
    /\ o \in alive
    /\ ~\E p \in Operators : At(p, "wait") /\ procs[p].op = o
    /\ alive' = alive \ {o}
    /\ UNCHANGED <<dirs, pending, held, procs, bundle, reserved, answers, losses>>

-----------------------------------------------------------------------------
(***************************************************************************)
(* The receipt.                                                            *)
(***************************************************************************)

\* The second half of run_operation: _finalize reads the operation again.
Finalize(p) ==
    /\ At(p, "finalize")
    /\ Lock(p, procs[p].op)
    /\ Status(procs[p].op) = "AWAITING_ADMISSION"
    /\ Goes(p, "intent")
    /\ UNCHANGED <<dirs, pending, alive, bundle, reserved, answers, losses>>

\* _intent: the time of receipt is chosen once.
Intent(p, time) ==
    /\ At(p, "intent")
    /\ LET o == procs[p].op IN
       \/ Has(o, "intent") /\ Kept(p, "admit")
       \/ /\ ~Has(o, "receipt") /\ ~Has(o, "result")
          /\ Publish(p, o, "intent", time, "admit")
    /\ UNCHANGED <<held, alive, bundle, reserved, answers, losses>>

Rejection == [status |-> "ADMISSION_REJECTED", receipt |-> None]
ReceiptOf(o) == [time |-> dirs[o]["intent"], verdict |-> bundle[o]]

\* _finalize: what is there already is taken up, never replaced.
Admit(p) ==
    /\ At(p, "admit")
    /\ LET o == procs[p].op IN
       \/ /\ Has(o, "result") /\ dirs[o]["result"] = Rejection /\ ~Has(o, "receipt")
          /\ Kept(p, "answer")
       \/ /\ ~Has(o, "result") /\ ~Has(o, "receipt")
          /\ \/ bundle[o] = "BAD" /\ Publish(p, o, "result", Rejection, "answer")
             \/ bundle[o] # "BAD" /\ Publish(p, o, "receipt", ReceiptOf(o), "save")
       \/ Has(o, "receipt") /\ Kept(p, "save")
    /\ UNCHANGED <<held, alive, bundle, reserved, answers, losses>>

\* The receipt is verified against the bundle as it is now, then the result
\* is written, or the one that is there must say the same.
Save(p) ==
    /\ At(p, "save")
    /\ LET o == procs[p].op
           saved == [status |-> "RECEIPT_SAVED", receipt |-> dirs[o]["receipt"]] IN
       /\ dirs[o]["receipt"] = ReceiptOf(o)
       /\ \/ Has(o, "result") /\ dirs[o]["result"] = saved /\ Kept(p, "answer")
          \/ ~Has(o, "result") /\ Publish(p, o, "result", saved, "answer")
    /\ UNCHANGED <<held, alive, bundle, reserved, answers, losses>>

Answer(p) ==
    /\ At(p, "answer")
    /\ answers' = answers \cup {<<procs[p].op, dirs[procs[p].op]["result"]>>}
    /\ held' = Unlocked(p)
    /\ procs' = [procs EXCEPT ![p] = Idle]
    /\ UNCHANGED <<dirs, pending, alive, bundle, reserved, losses>>

-----------------------------------------------------------------------------
(***************************************************************************)
(* Faults.                                                                 *)
(***************************************************************************)

\* The process dies, is cancelled or raises; its locks go with it, its
\* producer follows later.
Die(p) ==
    /\ ~At(p, "idle")
    /\ held' = Unlocked(p)
    /\ procs' = [procs EXCEPT ![p] = Idle]
    /\ UNCHANGED <<dirs, pending, alive, bundle, reserved, answers, losses>>

\* Everything stops; what was not durable may be gone.
LosePower ==
    /\ losses < MaxLosses /\ losses' = losses + 1
    /\ \E lost \in [Ops -> SUBSET UNION {pending[o] : o \in Ops}], gone \in SUBSET pending[0] :
          /\ \A o \in Ops : lost[o] \subseteq pending[o]
          /\ dirs' = [o \in DOMAIN dirs \ gone |->
                [name \in DOMAIN dirs[o] \ lost[o] |-> dirs[o][name]]]
    /\ pending' = [o \in Ops \cup {0} |-> {}]
    /\ held' = [o \in Ops |-> None]
    /\ procs' = [p \in Operators |-> Idle]
    /\ alive' = {}
    /\ UNCHANGED <<bundle, reserved, answers>>

\* The files of a bundle are damaged after the run.
Damage(o) ==
    /\ o \in DOMAIN bundle /\ o \notin alive
    /\ bundle' = Put(bundle, o, "BAD")
    /\ UNCHANGED <<dirs, pending, held, procs, alive, reserved, answers, losses>>

DispatchNext ==
    \/ \E p \in Operators :
          \/ Prepare(p) \/ SyncRoot(p) \/ Materialize(p) \/ Reserve(p) \/ Spawn(p) \/ Return(p)
          \/ SyncDirectory(p) \/ Dispatch(p) \/ Launch(p) \/ Collect(p)
          \/ Finalize(p) \/ Admit(p) \/ Save(p) \/ Answer(p) \/ Die(p)
          \/ \E o \in DOMAIN dirs : Retry(p, o) \/ RunOperation(p, o)
          \/ \E time \in 1 .. 2 : Intent(p, time)
    \/ \E o \in Ops : OwnerLost(o) \/ Damage(o) \/ \E left \in {"PASS", "BAD"} : Produce(o, left)
    \/ LosePower

DispatchSpec == DispatchInit /\ [][DispatchNext]_dispatchVars

-----------------------------------------------------------------------------

\* While no power was lost at most one producer runs at a time, of an operation
\* and its retries and whatever process dies: an operation that died, or whose
\* group may be alive, is never retried.  (retry relies on an event and a
\* reservation that it sees and does not sync again: a loss of power may take both
\* back after the successor was made.)
OneProducerAtATime == losses = 0 => Cardinality(alive) <= 1

\* What run_operation answered stays on disk whatever dies or loses power, and
\* every later answer for the operation is the same.
AnswersHold ==
    \A a \in answers : Has(a[1], "result") /\ dirs[a[1]]["result"] = a[2]
        /\ (a[2] # Rejection => Has(a[1], "receipt") /\ dirs[a[1]]["receipt"] = a[2].receipt)

\* The comment in retry: the one successor of an operation is durably reserved
\* before its directory is made.
SuccessorIsReserved ==
    \A c \in DOMAIN dirs : Has(c, "plan") /\ dirs[c]["plan"].parent # None =>
        Has(dirs[c]["plan"].parent, "retry") /\ dirs[dirs[c]["plan"].parent]["retry"] = c
=============================================================================
