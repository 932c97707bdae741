------------------------------ MODULE Agreement ------------------------------
(***************************************************************************)
(* The generic agreement lifecycle (ProcessLocalAgreementLifecycleService  *)
(* of poc_agreement.py): prepare, customer decision, revision, reissue of  *)
(* the review link, freeze.                                                *)
(*                                                                         *)
(* Every operation holds a per-POC guard, but the service lock is released *)
(* while the dependencies (draft, retained proposals, capability plan,     *)
(* clock) are consulted.  An operation therefore takes three steps here:   *)
(*   Begin     the guard is taken and the inputs are read a first time;    *)
(*   Validate  the inputs are read again and the request is checked, which *)
(*             ends in a rejection, a replay or permission to publish;     *)
(*   Publish   the result is stored under the service lock.                *)
(* The inputs, the clock and the operations of other POCs move in between. *)
(* A call rejected before its first read of the inputs leaves no trace and *)
(* is not a step.                                                          *)
(***************************************************************************)
EXTENDS Integers, Sequences, FiniteSets, Dicts

CONSTANTS
    Pocs,           \* POC identifiers
    Keys,           \* idempotency keys a caller may send
    Bodies,         \* reviewer and rationale texts
    MaxAgreements,  \* max_agreements: capacity of the service
    MaxRevisions,   \* MAX_REVISIONS_PER_POC
    ReviewTTL,      \* life of a review link, in ticks of the clock
    MaxInput,       \* bound: how often the inputs of a POC change
    MaxTime         \* bound: how far the clock advances

ASSUME AgreementAssumption ==
    /\ MaxAgreements \in Nat /\ MaxRevisions \in Nat
    /\ ReviewTTL \in Nat \ {0}
    /\ MaxInput \in Nat /\ MaxTime \in Nat

Decisions == {"CONFIRM", "REQUEST_CHANGES"}

VARIABLES
    inputs,     \* draft + retained proposals + plan: [ver, ok] per POC
    now,        \* the clock
    prep,       \* _preparations
    invit,      \* _invitations
    conf,       \* _confirmations
    frozen,     \* _frozen
    hist,       \* _history
    idem,       \* the five idempotency dictionaries, keyed by operation_key
    inflight,   \* _inflight_pocs, with the progress of the operation
    issued,     \* number of review links ever issued (fresh identities)
    reply       \* how the operation that ended last ended

svcVars == <<prep, invit, conf, frozen, hist, idem, issued>>
vars == <<inputs, now, prep, invit, conf, frozen, hist, idem, inflight,
          issued, reply>>

-----------------------------------------------------------------------------
(***************************************************************************)
(* Values.  A preparation is identified by its contract version, the       *)
(* version of the inputs it was assembled from, the approval text and the  *)
(* time.  The confirmation fingerprint covers all of it but the time.      *)
(***************************************************************************)

Preparations == [version : Nat, input : Nat, body : Bodies, at : Nat]

Fingerprint(x) == [version |-> x.version, input |-> x.input, body |-> x.body]

Fingerprints == [version : Nat, input : Nat, body : Bodies]

Invitations == [id : Nat, fp : Fingerprints, expires : Nat]

Confirmations ==
    [fp : Fingerprints, decision : Decisions, key : Keys, body : Bodies,
     link : Nat, at : Nat]

FrozenContracts == [contract : Preparations, confirmation : Confirmations]

VersionRecords == [contract : Preparations, confirmation : Confirmations]

Calls ==
    [op : {"PREPARE", "START_REVISION"}, key : Keys, body : Bodies]
    \cup [op : {"DECISION"}, key : Keys, body : Bodies,
          decision : Decisions, link : Nat]
    \cup [op : {"REISSUE", "FREEZE"}, key : Keys]

Operations == {"PREPARE", "START_REVISION", "DECISION", "REISSUE", "FREEZE"}

\* _request_digest of each operation: what a replay must repeat.  A replayed
\* revision is compared under the parent its first call recorded, so only the
\* current inputs and the text can differ.
AssemblyRequest(c, input) == [input |-> input, body |-> c.body]
DecisionRequest(c, x) ==
    [fp |-> Fingerprint(x), decision |-> c.decision, body |-> c.body]
ReissueRequest(x) == [fp |-> Fingerprint(x)]
FreezeRequest(x) == [draft |-> x]

Request(c, p, input) ==
    CASE c.op \in {"PREPARE", "START_REVISION"} -> AssemblyRequest(c, input)
      [] c.op = "DECISION" -> DecisionRequest(c, prep[p])
      [] c.op = "REISSUE" -> ReissueRequest(prep[p])
      [] c.op = "FREEZE" -> FreezeRequest(prep[p])

OpKey(p, c) == <<p, c.op, c.key>>

-----------------------------------------------------------------------------
Init ==
    /\ inputs = [p \in Pocs |-> [ver |-> 0, ok |-> FALSE]]
    /\ now = 0
    /\ prep = EmptyDict
    /\ invit = EmptyDict
    /\ conf = EmptyDict
    /\ frozen = EmptyDict
    /\ hist = [p \in Pocs |-> <<>>]
    /\ idem = EmptyDict
    /\ inflight = EmptyDict
    /\ issued = 0
    /\ reply = "none"

(***************************************************************************)
(* The environment.  A new capability plan gives the inputs a new version  *)
(* (plan versions only grow); a retained set that no longer matches the    *)
(* plan, a plan that is not ready or an archived draft makes the inputs    *)
(* unavailable, and they may become available again.                       *)
(***************************************************************************)
NewPlan(p) ==
    /\ inputs[p].ver < MaxInput
    /\ \E b \in BOOLEAN :
        inputs' = [inputs EXCEPT ![p] = [ver |-> @.ver + 1, ok |-> b]]
    /\ UNCHANGED <<now, svcVars, inflight, reply>>

ToggleInputs(p) ==
    /\ inputs[p].ver > 0
    /\ inputs' = [inputs EXCEPT ![p] = [ver |-> @.ver, ok |-> ~@.ok]]
    /\ UNCHANGED <<now, svcVars, inflight, reply>>

Tick ==
    /\ now < MaxTime
    /\ now' = now + 1
    /\ UNCHANGED <<inputs, svcVars, inflight, reply>>

-----------------------------------------------------------------------------
(***************************************************************************)
(* The guard.                                                              *)
(***************************************************************************)

\* _mutation_guard: wait for the POC, then become its owner.
GuardFree(p) == p \notin DOMAIN inflight

Begin(p, c) ==
    /\ GuardFree(p)
    /\ inputs[p].ok
    /\ c.op = "DECISION" => p \in DOMAIN invit /\ invit[p].id = c.link
    /\ c.op # "PREPARE" => p \in DOMAIN prep
    /\ inflight' = Put(inflight, p, [call |-> c, seen |-> inputs[p].ver,
                                     phase |-> "read", at |-> 0])
    /\ UNCHANGED <<inputs, now, svcVars, reply>>

\* Mutant: the guard is never popped.
KeepGuard(p) == inflight' = [inflight EXCEPT ![p].phase = "read"]

\* The finally clause of the guard.
Release(p) == inflight' = Drop(inflight, p)

Finish(p, outcome) ==
    /\ Release(p)
    /\ reply' = outcome
    /\ UNCHANGED <<inputs, now, svcVars>>

\* A dependency raises while the operation runs.
Fail(p) ==
    /\ p \in DOMAIN inflight
    /\ Finish(p, "unavailable")

-----------------------------------------------------------------------------
(***************************************************************************)
(* The checks between the second read and publication.                     *)
(***************************************************************************)

\* _stable_current_inputs
Stable(p) == inputs[p].ok /\ inputs[p].ver = inflight[p].seen

\* _require_current_preparation: PREPARE and START_REVISION do not require it.
Current(p, c) ==
    c.op \in {"DECISION", "REISSUE", "FREEZE"} => prep[p].input = inputs[p].ver

\* What is checked before the idempotency record is looked up.
Admissible(p, c) ==
    /\ Stable(p)
    /\ Current(p, c)
    /\ c.op = "DECISION" =>
        /\ p \in DOMAIN invit /\ invit[p].id = c.link
        /\ now < invit[p].expires
        /\ invit[p].fp = Fingerprint(prep[p])
    /\ c.op = "REISSUE" => p \notin DOMAIN conf /\ now >= invit[p].expires
    /\ c.op = "FREEZE" => p \in DOMAIN conf

\* How many POCs hold an agreement, the ones with history included.
Held == {p \in Pocs : p \in DOMAIN prep \/ hist[p] # <<>>}

HasCapacity(p) == hist[p] = <<>> => Cardinality(Held) < MaxAgreements

\* Mutant: the decision itself is not looked at.
MatchesAnyDecision(p) == conf[p].fp = Fingerprint(prep[p])

\* confirmation_matches_contract
Matches(p) ==
    /\ conf[p].decision = "CONFIRM"
    /\ conf[p].fp = Fingerprint(prep[p])

\* Mutant: any decision opens a revision.
AnyDecision(p) == p \in DOMAIN conf

RevisionRequested(p) ==
    p \in DOMAIN conf /\ conf[p].decision = "REQUEST_CHANGES"

\* Mutant: a revision of unchanged inputs is allowed.
NotChanged(p) == p \in DOMAIN prep

MateriallyChanged(p) == inputs[p].ver # prep[p].input

\* Mutant: a decided version accepts another decision.
DecideAgain(p) == p \in DOMAIN prep

Undecided(p) == p \notin DOMAIN conf

\* What is checked after the idempotency record was found absent.
Permitted(p, c) ==
    /\ c.op = "PREPARE" => p \notin DOMAIN prep /\ HasCapacity(p)
    /\ c.op = "DECISION" => Undecided(p)
    /\ c.op = "START_REVISION" =>
        /\ RevisionRequested(p)
        /\ Len(hist[p]) < MaxRevisions
        /\ MateriallyChanged(p)
    /\ c.op = "FREEZE" => p \notin DOMAIN frozen /\ Matches(p)

Known(p, c) == OpKey(p, c) \in DOMAIN idem

SameRequest(p, c) == idem[OpKey(p, c)].req = Request(c, p, inputs[p].ver)

\* The request passes every check.
Granted(p, c) ==
    /\ Admissible(p, c)
    /\ IF Known(p, c) THEN SameRequest(p, c) ELSE Permitted(p, c)

Reading(p) == p \in DOMAIN inflight /\ inflight[p].phase = "read"

Reject(p) ==
    /\ Reading(p)
    /\ ~Granted(p, inflight[p].call)
    /\ Finish(p, "rejected")

Replay(p) ==
    /\ Reading(p)
    /\ Known(p, inflight[p].call) /\ Granted(p, inflight[p].call)
    /\ Finish(p, "replayed")

Accept(p) ==
    /\ Reading(p)
    /\ ~Known(p, inflight[p].call) /\ Granted(p, inflight[p].call)
    /\ inflight' = [inflight EXCEPT ![p] =
                        [call |-> @.call, seen |-> @.seen, phase |-> "publish",
                         at |-> now]]
    /\ UNCHANGED <<inputs, now, svcVars, reply>>

Validate(p) == Reject(p) \/ Replay(p) \/ Accept(p)

-----------------------------------------------------------------------------
(***************************************************************************)
(* Publication, one action per operation.                                  *)
(***************************************************************************)

Publishing(p, op) ==
    /\ p \in DOMAIN inflight
    /\ inflight[p].phase = "publish"
    /\ inflight[p].call.op = op

\* Record the idempotency key with its request and what was published (the
\* code keeps the result itself only for revisions and otherwise reads the
\* current value of the POC again).
Remember(p, req, result) ==
    idem' = Put(idem, OpKey(p, inflight[p].call),
                [req |-> req, result |-> result])

\* Mutant: the link of the first version is reused for its successors.
StaleInvitation(x, at) ==
    [id |-> issued + 1, fp |-> [Fingerprint(x) EXCEPT !.version = 1],
     expires |-> at + ReviewTTL]

\* Mutant: the life of the link is subtracted.
PastInvitation(x, at) ==
    [id |-> issued + 1, fp |-> Fingerprint(x), expires |-> at - ReviewTTL]

NewInvitation(x, at) ==
    [id |-> issued + 1, fp |-> Fingerprint(x), expires |-> at + ReviewTTL]

PublishPrepare(p) ==
    /\ Publishing(p, "PREPARE")
    /\ LET c == inflight[p].call
           x == [version |-> 1, input |-> inflight[p].seen, body |-> c.body,
                 at |-> now]
       IN /\ prep' = Put(prep, p, x)
          /\ invit' = Put(invit, p, NewInvitation(x, now))
          /\ Remember(p, AssemblyRequest(c, inflight[p].seen), x)
    /\ issued' = issued + 1
    /\ Release(p) /\ reply' = "created"
    /\ UNCHANGED <<inputs, now, conf, frozen, hist>>

\* record_confirmation and its publication
PublishDecision(p) ==
    /\ Publishing(p, "DECISION")
    /\ LET c == inflight[p].call
           x == [fp |-> Fingerprint(prep[p]), decision |-> c.decision,
                 key |-> c.key, body |-> c.body, link |-> c.link, at |-> now]
       IN /\ conf' = Put(conf, p, x)
          /\ Remember(p, DecisionRequest(c, prep[p]), x)
    /\ Release(p) /\ reply' = "created"
    /\ UNCHANGED <<inputs, now, prep, invit, frozen, hist, issued>>

PublishRevision(p) ==
    /\ Publishing(p, "START_REVISION")
    /\ LET c == inflight[p].call
           x == [version |-> prep[p].version + 1, input |-> inflight[p].seen,
                 body |-> c.body, at |-> now]
       IN /\ hist' = [hist EXCEPT ![p] =
                        Append(@, [contract |-> prep[p],
                                   confirmation |-> conf[p]])]
          /\ prep' = Put(prep, p, x)
          /\ invit' = Put(invit, p, NewInvitation(x, now))
          /\ conf' = Drop(conf, p)
          /\ frozen' = Drop(frozen, p)
          /\ Remember(p, AssemblyRequest(c, inflight[p].seen), x)
    /\ issued' = issued + 1
    /\ Release(p) /\ reply' = "created"
    /\ UNCHANGED <<inputs, now>>

PublishReissue(p) ==
    /\ Publishing(p, "REISSUE")
    /\ LET x == NewInvitation(prep[p], inflight[p].at)
       IN /\ invit' = Put(invit, p, x)
          /\ Remember(p, ReissueRequest(prep[p]), x)
    /\ issued' = issued + 1
    /\ Release(p) /\ reply' = "created"
    /\ UNCHANGED <<inputs, now, prep, conf, frozen, hist>>

\* freeze_confirmed_contract and its publication
PublishFreeze(p) ==
    /\ Publishing(p, "FREEZE")
    /\ LET x == [contract |-> prep[p], confirmation |-> conf[p]]
       IN /\ frozen' = Put(frozen, p, x)
          /\ Remember(p, FreezeRequest(prep[p]), x)
    /\ Release(p) /\ reply' = "created"
    /\ UNCHANGED <<inputs, now, prep, invit, conf, hist, issued>>

Publish(p) ==
    \/ PublishPrepare(p)
    \/ PublishDecision(p)
    \/ PublishRevision(p)
    \/ PublishReissue(p)
    \/ PublishFreeze(p)

-----------------------------------------------------------------------------
\* The calls a client can make now: it only knows links that were issued.
Prepare(p, k, b) == Begin(p, [op |-> "PREPARE", key |-> k, body |-> b])
StartRevision(p, k, b) ==
    Begin(p, [op |-> "START_REVISION", key |-> k, body |-> b])
Decide(p, k, b, d, l) ==
    Begin(p, [op |-> "DECISION", key |-> k, body |-> b, decision |-> d,
              link |-> l])
Reissue(p, k) == Begin(p, [op |-> "REISSUE", key |-> k])
Freeze(p, k) == Begin(p, [op |-> "FREEZE", key |-> k])

Call(p, k) ==
    \/ \E b \in Bodies : Prepare(p, k, b) \/ StartRevision(p, k, b)
    \/ \E b \in Bodies, d \in Decisions, l \in 1..issued : Decide(p, k, b, d, l)
    \/ Reissue(p, k)
    \/ Freeze(p, k)

Environment == Tick \/ \E p \in Pocs : NewPlan(p) \/ ToggleInputs(p)

Next ==
    \/ Environment
    \/ \E p \in Pocs :
        \/ \E k \in Keys : Call(p, k)
        \/ Validate(p) \/ Publish(p) \/ Fail(p)

\* The thread that owns the guard keeps running: the dependencies return or
\* raise, and the guard is released by a finally clause.
Fairness == \A p \in Pocs : WF_vars(Validate(p) \/ Publish(p))

Spec == Init /\ [][Next]_vars /\ Fairness

-----------------------------------------------------------------------------
(***************************************************************************)
(* Properties.                                                             *)
(***************************************************************************)

Requests ==
    [input : Nat, body : Bodies]
    \cup [fp : Fingerprints, decision : Decisions, body : Bodies]
    \cup [fp : Fingerprints]
    \cup [draft : Preparations]

Results == Preparations \cup Confirmations \cup Invitations \cup FrozenContracts

\* The type of every dictionary of the service.
TypeOK ==
    /\ inputs \in [Pocs -> [ver : Nat, ok : BOOLEAN]]
    /\ now \in Nat
    /\ IsDict(prep, Pocs, Preparations)
    /\ IsDict(invit, Pocs, Invitations)
    /\ IsDict(conf, Pocs, Confirmations)
    /\ IsDict(frozen, Pocs, FrozenContracts)
    /\ hist \in [Pocs -> Seq(VersionRecords)]
    /\ IsDict(idem, Pocs \X Operations \X Keys,
              [req : Requests, result : Results])
    /\ IsDict(inflight, Pocs, [call : Calls, seen : Nat, at : Nat,
                               phase : {"read", "publish"}])
    /\ issued \in Nat
    /\ reply \in {"none", "created", "replayed", "rejected", "unavailable"}

\* A frozen contract is the current preparation of its POC and carries the
\* customer's CONFIRM decision on exactly that contract (freeze,
\* freeze_confirmed_contract), whatever changed between check and publication.
FrozenIsConfirmed ==
    \A p \in DOMAIN frozen :
        /\ p \in DOMAIN prep /\ frozen[p].contract = prep[p]
        /\ p \in DOMAIN conf /\ frozen[p].confirmation = conf[p]
        /\ conf[p].decision = "CONFIRM"
        /\ conf[p].fp = Fingerprint(prep[p])

\* Once a contract is frozen no operation changes it, its preparation, its
\* confirmation or its link: start_revision pops _frozen, but can never be
\* reached for a frozen POC.
FrozenStays ==
    \A p \in DOMAIN frozen :
        /\ p \in DOMAIN frozen' /\ frozen'[p] = frozen[p]
        /\ p \in DOMAIN prep' /\ prep'[p] = prep[p]
        /\ p \in DOMAIN conf' /\ conf'[p] = conf[p]
        /\ p \in DOMAIN invit' /\ invit'[p] = invit[p]

\* No step of poc_agreement.py undoes or alters a freeze.
FrozenIsForever == [][FrozenStays]_vars

\* The review link, the decision and the prepared contract of a POC always
\* belong together: the live link is for the current version, and a decision
\* was made through the live link on the current version.  In particular a
\* decision cannot land on a version the customer was not shown.
DecisionOnWhatWasShown ==
    /\ DOMAIN invit = DOMAIN prep
    /\ \A p \in DOMAIN prep : invit[p].fp = Fingerprint(prep[p])
    /\ \A p \in DOMAIN conf :
        /\ p \in DOMAIN prep
        /\ conf[p].link = invit[p].id
        /\ conf[p].fp = Fingerprint(prep[p])

\* What an operation checked is still so when it publishes, although the lock
\* was released and the inputs, the clock and other POCs moved in between (the
\* capacity of the service is the exception, see CapacityHolds).
GrantHolds ==
    \A p \in DOMAIN inflight :
        LET c == inflight[p].call IN
        /\ c.op # "PREPARE" => p \in DOMAIN prep
        /\ inflight[p].phase = "publish" =>
            /\ c.op = "PREPARE" => p \notin DOMAIN prep
            /\ c.op = "DECISION" => p \notin DOMAIN conf /\ invit[p].id = c.link
            /\ c.op = "START_REVISION" =>
                RevisionRequested(p) /\ prep[p].input # inflight[p].seen
            /\ c.op = "REISSUE" => p \notin DOMAIN conf
            /\ c.op = "FREEZE" =>
                p \in DOMAIN conf /\ p \notin DOMAIN frozen /\ Matches(p)

\* The versions of an agreement form one chain: version n has n - 1
\* predecessors, each ended by a REQUEST_CHANGES decision on itself, each
\* assembled from older inputs than its successor.
VersionChain ==
    \A p \in Pocs :
        /\ \A i \in DOMAIN hist[p] :
            /\ hist[p][i].contract.version = i
            /\ hist[p][i].confirmation.decision = "REQUEST_CHANGES"
            /\ hist[p][i].confirmation.fp = Fingerprint(hist[p][i].contract)
            /\ i > 1 => hist[p][i-1].contract.input < hist[p][i].contract.input
        /\ hist[p] # <<>> =>
            /\ p \in DOMAIN prep
            /\ hist[p][Len(hist[p])].contract.input < prep[p].input
        /\ p \in DOMAIN prep =>
            /\ prep[p].version = Len(hist[p]) + 1
            /\ prep[p].input <= inputs[p].ver

\* What a replay of operation op answers for POC p now.  The code keeps the
\* result of a revision only; every other replay reads the current value.
HasAnswer(p, op, r) ==
    /\ op = "PREPARE" => p \in DOMAIN prep /\ prep[p] = r
    /\ op = "DECISION" => p \in DOMAIN conf /\ conf[p] = r
    /\ op = "FREEZE" => p \in DOMAIN frozen /\ frozen[p] = r

\* Whether the stored request of an operation is the one a retry sends now.
StillRequested(p, op, req) ==
    \/ op = "PREPARE" /\ req.input = inputs[p].ver
    \/ op = "DECISION" /\ req.fp = Fingerprint(prep[p])
    \/ op = "FREEZE" /\ req.draft = prep[p]

\* A retried prepare, decision or freeze that passes the request comparison is
\* answered with the very value its first call published, although the code
\* looks that value up again; in particular the lookup never misses a key that
\* start_revision popped in between.
ReplayIsFaithful ==
    \A k \in DOMAIN idem :
        StillRequested(k[1], k[2], idem[k].req) =>
            HasAnswer(k[1], k[2], idem[k].result)

\* Across revisions the history is one chain and every retry is answered with
\* what its first call published.
HistoryIsFaithful == VersionChain /\ ReplayIsFaithful

\* The per-POC guard is always released again: no caller waits forever.
GuardIsReleased ==
    \A p \in Pocs : p \in DOMAIN inflight ~> p \notin DOMAIN inflight

(***************************************************************************)
(* The lifecycle keeps the promise of AgreementPromise.                    *)
(***************************************************************************)
OfferedTerms ==
    [p \in Pocs |-> IF p \in DOMAIN prep THEN Fingerprint(prep[p]) ELSE [none |-> TRUE]]
OfferedVersion == [p \in Pocs |-> IF p \in DOMAIN prep THEN prep[p].version ELSE 0]
OfferedDecision ==
    [p \in Pocs |-> IF p \in DOMAIN conf THEN conf[p].decision ELSE "UNDECIDED"]
OfferSigned == [p \in Pocs |-> p \in DOMAIN frozen]

Promise == INSTANCE AgreementPromise WITH
    Terms <- Fingerprints, terms <- OfferedTerms, version <- OfferedVersion,
    decision <- OfferedDecision, signed <- OfferSigned

\* Every operation of poc_agreement.py is one step of the promise or invisible.
KeepsPromise == Promise!Spec

(***************************************************************************)
(* Statements of the source that the code does not keep.                   *)
(***************************************************************************)

\* AgreementCapacityExceeded: "The bounded process-local lifecycle reached
\* capacity".  prepare checks the capacity and publishes under two separate
\* acquisitions of the lock.
CapacityHolds == Cardinality(Held) <= MaxAgreements

\* _mutation_guard: "Concurrent callers wait and then observe the published
\* idempotent result".  A repeated reissue whose inputs are stable and current
\* should not be rejected.
ReissueObservesResult ==
    [][\A p \in DOMAIN inflight :
        LET c == inflight[p].call IN
        /\ c.op = "REISSUE" /\ Stable(p) /\ Current(p, c)
        /\ Known(p, c) /\ SameRequest(p, c)
        /\ p \notin DOMAIN inflight'
        => reply' # "rejected"]_vars

=============================================================================
