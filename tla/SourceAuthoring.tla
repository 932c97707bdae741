-------------------------- MODULE SourceAuthoring --------------------------
(***************************************************************************)
(* Operations that send one redacted source to a provider and publish what *)
(* comes back (ProcessLocalSourceAuthoringOperations), with the launch     *)
(* lease, the one worker slot (SyntheticSourceAuthoringSupervisor and      *)
(* _BoundedLiveSupervisor), the child process and the two files of a demo  *)
(* run.                                                                    *)
(*                                                                         *)
(* A step that holds the owner locks waits for them (SourceLockFree) and   *)
(* is atomic; cancellation of the worker follows a revocation only after   *)
(* the lock is released.  Only the clock of the synthetic realm can call   *)
(* back into the engine: a commit is a copy and a swap, with the callback  *)
(* between them.  A closed POC refuses the owner guard as an archived one  *)
(* does.  Aliases of a permit, which only return it again, and the limits  *)
(* on sessions and records are left out.                                   *)
(***************************************************************************)
EXTENDS ProposalReview, SequencesExt

CONSTANTS
    Realms,         \* subset of {"SYNTHETIC", "LIVE", "DEMO"}
    Sessions,       \* browser sessions
    MaxOps,         \* bound on the operations prepared
    Consent,        \* life of a consent
    RunTime,        \* longest run of a worker
    ClaimInterval,  \* shortest time between two claims
    MaxClaims,      \* claims of a grant
    MaxTime         \* bound on the clock: a claim leaves its run the time it may take

ASSUME AuthoringAssumption ==
    /\ Realms \subseteq {"SYNTHETIC", "LIVE", "DEMO"}
    /\ {MaxOps, Consent, RunTime, ClaimInterval, MaxClaims, MaxTime} \subseteq Nat
    /\ None \notin Nat /\ None \notin {"invalidated", "launch", "expired", "timeout", "owner"}

VARIABLES
    realm,      \* which composition runs
    lease,      \* state of the launch record
    shut,       \* _closed
    now,        \* the monotonic clock
    ops,        \* _records, in the order of preparation
    claims,     \* _claims
    lastClaim,  \* _last_claim
    active,     \* _active
    run,        \* the step of _execute for the active operation
    copy,       \* the copy of _records a commit has made
    worker,     \* the supervisor: its state, and whether a cancel is on its way
    child,      \* the process of each operation
    wire,       \* what its parent has written to it
    observed,   \* operations whose child's exit was observed
    disk,       \* consumed.json and dispatch.json of the demo run
    sent        \* the requests that left a child

engine == <<lease, shut, ops, claims, lastClaim, active, run, copy>>
process == <<worker, child, wire, observed, sent>>
authoringVars == <<reviewVars, realm, now, engine, process, disk>>

Ops == 1 .. MaxOps
Terminal == {"SUCCEEDED", "FAILED", "OUTCOME_UNKNOWN", "STALE", "EXPIRED", "REVOKED"}
NoWorker == [state |-> "NEW", cancel |-> FALSE]

AuthoringInit ==
    /\ ReviewInit
    /\ realm \in Realms
    /\ now = 0
    /\ shut = FALSE
    /\ lease = "BOUND"
    /\ ops = <<>>
    /\ claims = 0
    /\ lastClaim = None
    /\ active = None
    /\ run = "idle"
    /\ copy = None
    /\ worker = NoWorker
    /\ child = [o \in Ops |-> "none"]
    /\ wire = [o \in Ops |-> {}]
    /\ observed = {}
    /\ disk = [consumed |-> None, dispatched |-> FALSE]
    /\ sent = {}

Live == realm # "SYNTHETIC"
LeaseHolds == lease = "BOUND"
Known(o) == o \in DOMAIN ops
Is(o, state) == Known(o) /\ ops[o].state = state

\* No commit is between its copy and its swap.
EngineFree == run # "copied"

\* Mutant: any admission may publish for the source again.
GuardTwice(s) ==
    /\ Current(s)
    /\ Undecided(s)
    /\ s \notin Reserved

\* The guards of run_guarded: current owners, nothing decided, no attempt
\* published or in flight, and room for one.
OwnerGuard(s) ==
    /\ Current(s)
    /\ Undecided(s)
    /\ s \notin DOMAIN attempts
    /\ s \notin Reserved
    /\ Cardinality(DOMAIN attempts \cup Reserved) < MaxAttempts

\* Mutant: the file of an earlier process is not looked at.
NeverConsumed == TRUE

\* consumed.json does not exist: what consumed() asks and O_EXCL demands
Unconsumed == disk.consumed = None

\* _demo_admission
Admitted == realm = "DEMO" => claims < 1 /\ Unconsumed

-----------------------------------------------------------------------------
(***************************************************************************)
(* Ends of an operation.                                                   *)
(***************************************************************************)

\* Mutant: a revocation is a revocation.
EndPlainly(o, state) ==
    IF ops[o].state \in Terminal THEN ops ELSE [ops EXCEPT ![o].state = state]

\* _terminal: the first end stays; a live operation that may have been sent
\* is not called revoked.
End(o, state) ==
    IF ops[o].state \in Terminal THEN ops
    ELSE [ops EXCEPT ![o].state =
            IF Live /\ state = "REVOKED" /\ ops[o].state = "DISPATCH_AUTHORIZED"
            THEN "OUTCOME_UNKNOWN" ELSE state]

\* _check_pending, in its order
PendingError(o, expected) ==
    CASE shut \/ ops[o].state # expected -> "invalidated"
      [] ~LeaseHolds -> "launch"
      [] now >= ops[o].expires -> "expired"
      [] ops[o].deadline # None /\ now >= ops[o].deadline -> "timeout"
      [] OTHER -> None

GuardedError(o, expected) ==
    IF ~OwnerGuard(ops[o].source) THEN "owner" ELSE PendingError(o, expected)

\* Mutant: a worker error is left to the caller.
KeepOnWorkerError(o, error) ==
    CASE error = "worker" -> ops[o].state
      [] error = "expired" -> "EXPIRED"
      [] error = "timeout" -> "OUTCOME_UNKNOWN"
      [] error = "owner" -> "STALE"
      [] error = "launch" -> "REVOKED"
      [] OTHER -> "FAILED"

\* The receipt a failed run leaves.
FailureState(o, error) ==
    LET dispatched == ops[o].state = "DISPATCH_AUTHORIZED" IN
    CASE error = "expired" -> "EXPIRED"
      [] error = "timeout" -> "OUTCOME_UNKNOWN"
      [] error = "owner" -> "STALE"
      [] error = "launch" -> IF dispatched THEN "OUTCOME_UNKNOWN" ELSE "REVOKED"
      [] error = "worker" -> IF dispatched THEN "OUTCOME_UNKNOWN" ELSE "FAILED"
      [] OTHER -> "FAILED"

\* cancel of the worker, if it runs o, once the lock is released
CancelLater(o) == worker' = [worker EXCEPT !.cancel = @ \/ active = o]

-----------------------------------------------------------------------------
(***************************************************************************)
(* Consent.                                                                *)
(***************************************************************************)

Open(s, session) ==
    {o \in DOMAIN ops : ops[o].session = session /\ ops[o].source = s
                        /\ ops[o].state \notin Terminal}

\* One consent of a session and source at a time; an expired one makes way.
Prepare(session, s) ==
    /\ EngineFree /\ SourceLockFree
    /\ ~shut /\ LeaseHolds /\ Admitted
    /\ OwnerGuard(s)
    /\ \A o \in Open(s, session) : now >= ops[o].expires
    /\ Len(ops) < MaxOps
    /\ LET kept == [o \in DOMAIN ops |->
                      IF o \in Open(s, session) THEN [ops[o] EXCEPT !.state = "EXPIRED"]
                      ELSE ops[o]]
       IN ops' = Append(kept, [session |-> session, source |-> s, state |-> "PREPARED",
                               expires |-> now + Consent, deadline |-> None])
    /\ UNCHANGED <<reviewVars, realm, now, lease, shut, claims, lastClaim, active, run, copy,
                   process, disk>>

\* A late acknowledgement ends the consent without asking the owners.
Authorize(o) ==
    /\ EngineFree
    /\ ~shut /\ LeaseHolds
    /\ Is(o, "PREPARED")
    /\ IF now >= ops[o].expires
       THEN ops' = End(o, "EXPIRED")
       ELSE /\ SourceLockFree /\ OwnerGuard(ops[o].source) /\ Admitted
            /\ ops' = [ops EXCEPT ![o].state = "AUTHORIZED"]
    /\ UNCHANGED <<reviewVars, realm, now, lease, shut, claims, lastClaim, active, run, copy,
                   process, disk>>

\* inspect_disclosure: what is no longer valid ends here.
Inspect(o) ==
    /\ EngineFree /\ SourceLockFree
    /\ ~shut /\ LeaseHolds
    /\ Known(o) /\ ops[o].state \notin Terminal
    /\ LET error == GuardedError(o, ops[o].state) IN
       /\ error # None
       /\ ops' = End(o, CASE error = "owner" -> "STALE"
                          [] error = "expired" -> "EXPIRED"
                          [] OTHER -> "OUTCOME_UNKNOWN")
    /\ CancelLater(o)
    /\ UNCHANGED <<reviewVars, realm, now, lease, shut, claims, lastClaim, active, run, copy,
                   child, wire, observed, sent, disk>>

\* revoke and revoke_disclosure; the clock may call them back in a commit.
Revoke(o) ==
    /\ EngineFree \/ realm = "SYNTHETIC"
    /\ ~shut /\ LeaseHolds
    /\ Known(o)
    /\ ops' = End(o, "REVOKED")
    /\ CancelLater(o)
    /\ UNCHANGED <<reviewVars, realm, now, lease, shut, claims, lastClaim, active, run, copy,
                   child, wire, observed, sent, disk>>

\* The issuer revokes the launch; its callback is shutdown.
RevokeLaunch ==
    /\ Live /\ EngineFree /\ LeaseHolds
    /\ lease' = "REVOKED"
    /\ UNCHANGED <<reviewVars, realm, now, shut, ops, claims, lastClaim, active, run, copy,
                   process, disk>>

Shutdown ==
    /\ EngineFree
    /\ ~shut \/ LeaseHolds
    /\ shut' = TRUE
    /\ ops' = [o \in DOMAIN ops |-> End(o, "REVOKED")[o]]
    /\ worker' = [worker EXCEPT !.cancel = @ \/ active # None]
    /\ lease' = IF Live THEN "REVOKED" ELSE lease
    /\ UNCHANGED <<reviewVars, realm, now, claims, lastClaim, active, run, copy,
                   child, wire, observed, sent, disk>>

-----------------------------------------------------------------------------
(***************************************************************************)
(* Execution.                                                              *)
(***************************************************************************)

\* The claim consumes the permit, the slot and, in a demo, the run.  A demo
\* file may be left behind by a claim that fails.
Claim(o) ==
    /\ EngineFree /\ (Live => SourceLockFree)
    /\ ~shut /\ LeaseHolds
    /\ Is(o, "AUTHORIZED")
    /\ IF Live /\ ~OwnerGuard(ops[o].source)
       THEN /\ ops' = End(o, "STALE")
            /\ UNCHANGED <<claims, lastClaim, active, run, worker, disk>>
       ELSE IF now >= ops[o].expires
       THEN /\ ops' = End(o, "EXPIRED")
            /\ UNCHANGED <<claims, lastClaim, active, run, worker, disk>>
       ELSE /\ active = None
            /\ claims < MaxClaims
            /\ now + RunTime <= MaxTime
            /\ lastClaim # None => now - lastClaim >= ClaimInterval
            /\ Admitted
            /\ IF realm = "DEMO" THEN disk' = [disk EXCEPT !.consumed = o]
               ELSE UNCHANGED disk
            /\ \/ /\ ops' = [ops EXCEPT ![o].state = "CLAIMED",
                                        ![o].deadline = IF now + RunTime < ops[o].expires
                                                        THEN now + RunTime ELSE ops[o].expires]
                  /\ claims' = claims + 1
                  /\ lastClaim' = now
                  /\ active' = o
                  /\ run' = "claimed"
                  /\ worker' = NoWorker
               \/ /\ realm = "DEMO"
                  /\ UNCHANGED <<ops, claims, lastClaim, active, run, worker>>
    /\ UNCHANGED <<reviewVars, realm, now, lease, shut, copy, child, wire, observed, sent>>

\* The except and finally blocks of _execute.
Fail(o, error) ==
    /\ ops' = End(o, FailureState(o, error))
    /\ run' = "cleanup"
    /\ worker' = [state |-> "CANCELLED", cancel |-> FALSE]

\* prepare starts the child and prepare_ticket the ticket; preparation may
\* fail with or without a child.
StartWorker(o) ==
    /\ run = "claimed" /\ active = o /\ EngineFree
    /\ LET error == PendingError(o, "CLAIMED") IN
       \/ /\ error # None
          /\ Fail(o, error)
          /\ UNCHANGED child
       \/ /\ error = None
          /\ child' \in {child, [child EXCEPT ![o] = "waiting"]}
          /\ Fail(o, "worker")
       \/ /\ error = None /\ ~worker.cancel
          /\ child' = [child EXCEPT ![o] = "waiting"]
          /\ worker' = [worker EXCEPT !.state = "READY_NO_SEND"]
          /\ run' = "ready"
          /\ UNCHANGED ops
    /\ UNCHANGED <<reviewVars, realm, now, lease, shut, claims, lastClaim, active, copy,
                   wire, observed, sent, disk>>

\* D: under the owner, operation, issuer and supervisor locks
DispatchOp(o) ==
    /\ run = "ready" /\ active = o /\ EngineFree /\ SourceLockFree
    /\ LET error == GuardedError(o, "CLAIMED")
           ready == worker.state = "READY_NO_SEND" /\ o \notin observed
       IN \/ /\ error # None
             /\ Fail(o, error)
          \/ /\ error = None /\ ~ready
             /\ Fail(o, "worker")
          \/ /\ error = None /\ ready
             /\ ops' = [ops EXCEPT ![o].state = "DISPATCH_AUTHORIZED"]
             /\ worker' = [worker EXCEPT !.state = "DISPATCH_AUTHORIZED"]
             /\ run' = "dispatched"
    /\ UNCHANGED <<reviewVars, realm, now, lease, shut, claims, lastClaim, active, copy,
                   child, wire, observed, sent, disk>>

\* handoff writes the ticket; a live child waits for the credential too.
Handoff(o) ==
    /\ run = "dispatched" /\ active = o
    /\ LET ready == worker.state = "DISPATCH_AUTHORIZED" /\ LeaseHolds IN
       \/ /\ Fail(o, "worker")
          /\ UNCHANGED wire
       \/ /\ ready
          /\ wire' = [wire EXCEPT ![o] = {"ticket"}]
          /\ worker' = [worker EXCEPT !.state = "HANDED_OFF"]
          /\ run' = IF Live THEN "credential" ELSE "collect"
          /\ UNCHANGED ops
    /\ UNCHANGED <<reviewVars, realm, now, lease, shut, claims, lastClaim, active, copy,
                   child, observed, sent, disk>>

HandoffCredential(o) ==
    /\ run = "credential" /\ active = o
    /\ \/ /\ Fail(o, "worker")
          /\ UNCHANGED wire
       \/ /\ worker.state = "HANDED_OFF" /\ LeaseHolds
          /\ wire' = [wire EXCEPT ![o] = @ \cup {"credential"}]
          /\ run' = "collect"
          /\ UNCHANGED <<ops, worker>>
    /\ UNCHANGED <<reviewVars, realm, now, lease, shut, claims, lastClaim, active, copy,
                   child, observed, sent, disk>>

\* collect: a result counts with the observed exit of the child, in time
Collect(o) ==
    /\ run = "collect" /\ active = o
    /\ LET cancelled == worker.state # "HANDED_OFF" \/ (Live /\ ~LeaseHolds) IN
       \/ /\ ~cancelled /\ child[o] = "replied" /\ o \in observed /\ now < ops[o].deadline
          /\ worker' = [worker EXCEPT !.state = "RESULT_READY"]
          /\ run' = "commit"
          /\ UNCHANGED ops
       \/ /\ cancelled \/ now >= ops[o].deadline \/ child[o] = "exited"
          /\ Fail(o, "worker")
    /\ UNCHANGED <<reviewVars, realm, now, lease, shut, claims, lastClaim, active, copy,
                   child, wire, observed, sent, disk>>

\* The output is invalid, or the observation of a demo cannot be written.
RejectResult(o) ==
    /\ run = "commit" /\ active = o
    /\ Fail(o, "policy")
    /\ UNCHANGED <<reviewVars, realm, now, lease, shut, claims, lastClaim, active, copy,
                   child, wire, observed, sent, disk>>

\* The commit takes all locks and copies the records.
CopyRecords(o) ==
    /\ run = "commit" /\ active = o /\ SourceLockFree
    /\ LET error == GuardedError(o, "DISPATCH_AUTHORIZED") IN
       \/ /\ error # None
          /\ Fail(o, error)
          /\ UNCHANGED copy
       \/ /\ error = None
          /\ copy' = ops
          /\ run' = "copied"
          /\ UNCHANGED <<ops, worker>>
    /\ UNCHANGED <<reviewVars, realm, now, lease, shut, claims, lastClaim, active,
                   child, wire, observed, sent, disk>>

\* Mutant: only this operation is looked at after the callback.
SwapRegardless(o, result) ==
    /\ run = "copied" /\ active = o
    /\ IF Is(o, "DISPATCH_AUTHORIZED")
       THEN /\ ops' = [copy EXCEPT ![o].state = "SUCCEEDED"]
            /\ run' = "cleanup"
            /\ worker' = [worker EXCEPT !.cancel = FALSE]
            /\ Publish(ops[o].source, [by |-> "AUTHORING", result |-> result])
       ELSE Fail(o, "conflict") /\ UNCHANGED <<attempts, registered>>
    /\ copy' = None
    /\ UNCHANGED <<intake, call, decisions, definitions, keyed, inflight, realm, now, lease,
                   shut, claims, lastClaim, active, child, wire, observed, sent, disk>>

\* F: the copy is swapped in if no record has changed since it was made; the
\* owners' pointers and the records change together.
Commit(o, result) ==
    /\ run = "copied" /\ active = o
    /\ IF ops = copy
       THEN /\ ops' = [copy EXCEPT ![o].state = "SUCCEEDED"]
            /\ run' = "cleanup"
            /\ worker' = [worker EXCEPT !.cancel = FALSE]
            /\ Publish(ops[o].source, [by |-> "AUTHORING", result |-> result])
       ELSE Fail(o, "conflict") /\ UNCHANGED <<attempts, registered>>
    /\ copy' = None
    /\ UNCHANGED <<intake, call, decisions, definitions, keyed, inflight, realm, now, lease,
                   shut, claims, lastClaim, active, child, wire, observed, sent, disk>>

\* Mutant: the slot is given up with the operation.
FreeSlot(o) ==
    /\ run = "cleanup" /\ active = o
    /\ active' = None
    /\ run' = "idle"
    /\ worker' = NoWorker
    /\ UNCHANGED <<reviewVars, realm, now, lease, shut, ops, claims, lastClaim, copy,
                   child, wire, observed, sent, disk>>

\* reap waits a second for the exit and closes the pipes; the supervisor is
\* dropped.  A slot that stays occupied is never given to another operation:
\* the engine closes.
Reap(o) ==
    /\ run = "cleanup" /\ active = o
    /\ run' = "idle"
    /\ \/ /\ child[o] = "none" \/ o \in observed
          /\ active' = None
          /\ worker' = NoWorker
          /\ child' = [child EXCEPT ![o] = "none"]
          /\ wire' = [wire EXCEPT ![o] = {}]
          /\ observed' = observed \ {o}
          /\ UNCHANGED shut
       \/ /\ child[o] # "none" /\ o \notin observed
          /\ shut' = TRUE
          /\ UNCHANGED <<active, worker, child, wire, observed>>
    /\ UNCHANGED <<reviewVars, realm, now, lease, ops, claims, lastClaim, copy, sent, disk>>

-----------------------------------------------------------------------------
(***************************************************************************)
(* The supervisor's watch and the child.                                   *)
(***************************************************************************)

Alive(o) == child[o] \in {"waiting", "fenced", "sent"}

\* The cancel of a revocation reaches the supervisor.  A synthetic result
\* that is ready stays ready.
Cancel ==
    /\ worker.cancel
    /\ worker' = [cancel |-> FALSE,
                  state |-> IF ~Live /\ worker.state = "RESULT_READY" THEN "RESULT_READY"
                            ELSE "CANCELLED"]
    /\ UNCHANGED <<reviewVars, realm, now, engine, child, wire, observed, sent, disk>>

\* The watch sees the exit, or kills the child when cancelled or late.
Watch(o) ==
    /\ active = o /\ child[o] # "none" /\ o \notin observed
    /\ \/ /\ ~Alive(o)
          /\ UNCHANGED <<child, worker>>
       \/ /\ Alive(o)
          /\ worker.state = "CANCELLED" \/ now >= ops[o].deadline
          /\ child' = [child EXCEPT ![o] = "exited"]
          /\ worker' = [worker EXCEPT !.state = "CANCELLED"]
    /\ observed' = observed \cup {o}
    /\ UNCHANGED <<reviewVars, realm, now, engine, wire, sent, disk>>

\* The child reads its ticket; in a demo it writes dispatch.json, once, for
\* the operation that was consumed.
ChildFence(o) ==
    /\ child[o] = "waiting" /\ "ticket" \in wire[o]
    /\ IF realm = "DEMO"
       THEN IF disk.consumed = o /\ ~disk.dispatched
            THEN disk' = [disk EXCEPT !.dispatched = TRUE] /\ child' = [child EXCEPT ![o] = "fenced"]
            ELSE child' = [child EXCEPT ![o] = "exited"] /\ UNCHANGED disk
       ELSE child' = [child EXCEPT ![o] = "fenced"] /\ UNCHANGED disk
    /\ UNCHANGED <<reviewVars, realm, now, engine, worker, wire, observed, sent>>

ChildSend(o) ==
    /\ child[o] = "fenced"
    /\ Live => "credential" \in wire[o]
    /\ child' = [child EXCEPT ![o] = "sent"]
    /\ sent' = sent \cup {o}
    /\ UNCHANGED <<reviewVars, realm, now, engine, worker, wire, observed, disk>>

\* The child exits after its reply, or without one at any time.
ChildExit(o) ==
    /\ Alive(o)
    /\ child' \in {[child EXCEPT ![o] = "exited"]} \cup
                  (IF child[o] = "sent" THEN {[child EXCEPT ![o] = "replied"]} ELSE {})
    /\ UNCHANGED <<reviewVars, realm, now, engine, worker, wire, observed, sent, disk>>

\* The process of a demo dies and another is started on the same run, which
\* is admitted only if it is not consumed.  A child that has been written to
\* lives on.
Restart ==
    /\ realm = "DEMO" /\ EngineFree
    /\ Unconsumed
    /\ shut' = FALSE /\ lease' = "BOUND" /\ ops' = <<>>
    /\ claims' = 0 /\ lastClaim' = None
    /\ active' = None /\ run' = "idle" /\ copy' = None /\ worker' = NoWorker
    /\ drafts' = EmptyDict
    /\ sources' = [p \in Pocs |-> <<>>]
    /\ call' = [t \in Threads |-> Idle]
    /\ decisions' = EmptyDict /\ registered' = EmptyDict /\ definitions' = EmptyDict
    /\ attempts' = EmptyDict /\ keyed' = EmptyDict /\ inflight' = EmptyDict
    /\ UNCHANGED <<realm, now, child, wire, observed, sent, disk>>

Tick ==
    /\ now < MaxTime
    /\ EngineFree /\ ~shut
    /\ now' = now + 1
    /\ UNCHANGED <<reviewVars, realm, engine, process, disk>>

-----------------------------------------------------------------------------

\* What the owners of the source may do meanwhile: revise it or archive its
\* draft.  The guard takes a decision or another attempt for no more than
\* that.  An attach that finds no room changes nothing and is left out; an
\* engine that is shut reads neither the owners nor the clock again.
OwnerNext ==
    /\ EngineFree /\ ~shut
    /\ \/ \E p \in Pocs : CreateDraft(p) \/ ArchiveDraft(p)
       \/ \E t \in Threads, p \in Pocs : Len(sources[p]) < MaxSources /\ AttachCheck(t, p)
       \/ \E t \in Threads : AttachReturns(t)
    /\ UNCHANGED <<review, assisted, realm, now, engine, process, disk>>

RunStep(o) ==
    \/ StartWorker(o)
    \/ DispatchOp(o)
    \/ Handoff(o)
    \/ HandoffCredential(o)
    \/ Collect(o)
    \/ RejectResult(o)
    \/ CopyRecords(o)
    \/ \E r \in Results : Commit(o, r)
    \/ Reap(o)

AuthoringNext ==
    \/ OwnerNext
    \/ \E session \in Sessions, s \in SourceIds : Prepare(session, s)
    \/ \E o \in Ops :
          \/ Authorize(o) \/ Inspect(o) \/ Revoke(o) \/ Claim(o)
          \/ RunStep(o)
          \/ Watch(o) \/ ChildFence(o) \/ ChildSend(o) \/ ChildExit(o)
    \/ RevokeLaunch
    \/ Shutdown
    \/ Cancel
    \/ Restart
    \/ Tick

AuthoringSpec == AuthoringInit /\ [][AuthoringNext]_authoringVars

-----------------------------------------------------------------------------
(***************************************************************************)
(* Properties.                                                             *)
(***************************************************************************)

\* What a live operation calls revoked was never sent and will never be: the
\* ticket is staged only under the lock the revocation takes.
RevokedIsUnsent == \A o \in DOMAIN ops :
    Live /\ ops[o].state = "REVOKED" => o \notin sent

\* The first end of an operation is its last, whatever a commit of another
\* operation copies and swaps back.
TerminalIsFinal == [][
    \A o \in DOMAIN ops : ops[o].state \in Terminal /\ o \in DOMAIN ops' =>
        ops'[o].state = ops[o].state
    ]_authoringVars

\* A source has a published attempt exactly if one operation on it succeeded,
\* and then only one.
OneSuccessPerAttempt == \A s \in SourceIds :
    LET succeeded == {o \in DOMAIN ops : ops[o].source = s /\ ops[o].state = "SUCCEEDED"}
    IN Cardinality(succeeded) = IF s \in DOMAIN attempts THEN 1 ELSE 0

\* No two children of the engine are ever alive, not even when the exit of
\* one is never seen.
OneChild == Cardinality({o \in Ops : Alive(o)}) <= 1

\* A demo run sends at most the operation its file names, across restarts.
SentIsConsumed == realm = "DEMO" => \A o \in sent : disk.consumed = o

\* A run leaves no operation claimed behind, however it fails: without an
\* active run every operation waits for its owner or has ended.
NoneLeftClaimed == active = None => \A o \in DOMAIN ops :
    ops[o].state \notin {"CLAIMED", "DISPATCH_AUTHORIZED"}
=============================================================================
