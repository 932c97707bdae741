------------------------------ MODULE Evidence ------------------------------
(***************************************************************************)
(* Evidence attempts and human closure of a POC                            *)
(* (ProcessLocalEvidenceOrchestrationService of poc_evidence_orchestration *)
(* and ProcessLocalPOCClosureService of workspace_closure).                *)
(*                                                                         *)
(* A request thread takes several steps where the code releases a lock:    *)
(*   reserve  look up the key / enter run_if_open / install the attempt /  *)
(*            leave run_if_open;                                           *)
(*   execute  mark the attempt running / evaluate / store the outcome;     *)
(*   handoff and stop  read the binding of the attempt / record it.        *)
(* The closure service calls the resolver of the evidence service under    *)
(* its own lock, so recording is one step of both.                         *)
(* A POC's contract is frozen once and for good (FreezeIsFinal of          *)
(* AgreementProofs), so all attempts of a POC have the same contract.      *)
(***************************************************************************)
EXTENDS Integers, Sequences, FiniteSets, Dicts

CONSTANTS
    Pocs,           \* POC identifiers
    Threads,        \* request threads of the server
    Keys,           \* idempotency keys of evidence requests
    CloseKeys,      \* idempotency keys of closure requests
    Refs,           \* catalog references a request may select
    Verdicts,       \* what the reduction of admitted results may come to
    MaxRecords,     \* max_records of the closure service
    MaxAttempts     \* bound: how many attempts are ever reserved

ASSUME EvidenceAssumption ==
    /\ MaxRecords \in Nat \ {0} /\ MaxAttempts \in Nat
    /\ IsFiniteSet(Threads)

CONSTANT NoVerdict
ASSUME NoVerdictAssumption == NoVerdict \notin Verdicts

VARIABLES
    frozen,     \* POCs whose customer agreement is frozen
    att,        \* _records, in order of reservation
    idem,       \* _idempotency: key -> attempt
    cur,        \* _current_by_poc
    work,       \* attempts whose evaluation is under way
    closed,     \* _closures
    cidem,      \* _idempotency of the closure service
    active,     \* _active_mutations
    thr         \* what every thread is doing

svcVars == <<att, idem, cur, work>>
closeVars == <<closed, cidem>>
vars == <<frozen, att, idem, cur, work, closed, cidem, active, thr>>

Idle == [step |-> "idle"]

Closable == {"CANCELLED", "FAILED_INTERNAL", "INGESTION_REJECTED"}
Statuses == Closable \cup {"RESERVED", "RUNNING", "COMPLETED", "STALE"}

Ids == 1..Len(att)

-----------------------------------------------------------------------------
Init ==
    /\ frozen = {}
    /\ att = <<>>
    /\ idem = EmptyDict
    /\ cur = EmptyDict
    /\ work = {}
    /\ closed = EmptyDict
    /\ cidem = EmptyDict
    /\ active = [p \in Pocs |-> 0]
    /\ thr = [t \in Threads |-> Idle]

\* The agreement of a POC is frozen (Agreement).
Freeze(p) ==
    /\ p \notin frozen
    /\ frozen' = frozen \cup {p}
    /\ UNCHANGED <<svcVars, closeVars, active, thr>>

-----------------------------------------------------------------------------
(***************************************************************************)
(* reserve                                                                 *)
(***************************************************************************)

\* _validated_inputs passed and the key is new; a known key is answered (or
\* refused) at once and leaves no trace.
ReserveCall(t, p, k, r) ==
    /\ thr[t] = Idle
    /\ p \in frozen
    /\ k \notin DOMAIN idem
    /\ thr' = [thr EXCEPT ![t] = [step |-> "enter", poc |-> p, key |-> k, ref |-> r]]
    /\ UNCHANGED <<frozen, svcVars, closeVars, active>>

\* The call x, gone on to another step.
AtStep(x, step) == [step |-> step, poc |-> x.poc, key |-> x.key, ref |-> x.ref]

\* run_if_open: count the mutation, or refuse it when the POC is closed.
ReserveEnter(t) ==
    /\ thr[t].step = "enter"
    /\ IF thr[t].poc \in DOMAIN closed
       THEN /\ thr' = [thr EXCEPT ![t] = Idle]
            /\ UNCHANGED active
       ELSE /\ thr' = [thr EXCEPT ![t] = AtStep(thr[t], "install")]
            /\ active' = [active EXCEPT ![thr[t].poc] = @ + 1]
    /\ UNCHANGED <<frozen, svcVars, closeVars>>

\* An attempt before and after an update of its snapshot (model_copy).
Snapshot(a, status, verdict, pack, current) ==
    [poc |-> a.poc, key |-> a.key, ref |-> a.ref, status |-> status,
     verdict |-> verdict, pack |-> pack, current |-> current]

NewAttempt(x) == Snapshot(x, "RESERVED", NoVerdict, FALSE, TRUE)

Live == {"RESERVED", "RUNNING"}

\* Mutant: the attempt that is replaced keeps its flag.
SupersedePointer(a) == a

\* The attempt that is replaced is no longer current; it is stale if it had
\* not ended.
Supersede(a) ==
    Snapshot(a, IF a.status \in Live THEN "STALE" ELSE a.status,
             a.verdict, a.pack, FALSE)

\* Mutant: the key is not looked up again under the lock.
StillNewAssumed(k) == k \in Keys

\* The key is looked up again under the lock that installs the attempt.
StillNew(k) == k \notin DOMAIN idem

\* reserve_open_mutation
ReserveInstall(t) ==
    /\ thr[t].step = "install"
    /\ LET x == thr[t]
           n == Len(att) + 1
           old == [i \in Ids |-> IF x.poc \in DOMAIN cur /\ cur[x.poc] = i
                                 THEN Supersede(att[i]) ELSE att[i]]
       IN IF StillNew(x.key)
          THEN /\ n <= MaxAttempts
               /\ att' = Append(old, NewAttempt(x))
               /\ idem' = Put(idem, x.key, n)
               /\ cur' = Put(cur, x.poc, n)
          ELSE UNCHANGED <<att, idem, cur>>
    /\ thr' = [thr EXCEPT ![t] = AtStep(thr[t], "leave")]
    /\ UNCHANGED <<frozen, work, closeVars, active>>

\* Mutant: the counter of the mutation is forgotten.
NoDecrement(p) == UNCHANGED active

\* Mutant: the counter is decremented by the mutation and by the guard.
DecrementTwice(p) == active' = [active EXCEPT ![p] = @ - 2]

\* The finally clause of run_if_open.
Decrement(p) == active' = [active EXCEPT ![p] = @ - 1]

ReserveLeave(t) ==
    /\ thr[t].step = "leave"
    /\ Decrement(thr[t].poc)
    /\ thr' = [thr EXCEPT ![t] = Idle]
    /\ UNCHANGED <<frozen, svcVars, closeVars>>

-----------------------------------------------------------------------------
(***************************************************************************)
(* execute, cancel, fail                                                   *)
(***************************************************************************)

ExecuteBegin(a) ==
    /\ att[a].status = "RESERVED"
    /\ att' = [att EXCEPT ![a] =
            Snapshot(att[a], "RUNNING", att[a].verdict, att[a].pack, att[a].current)]
    /\ work' = work \cup {a}
    /\ UNCHANGED <<frozen, idem, cur, closeVars, active, thr>>

\* Mutant: only an attempt that has not started is ended.
TerminalizeReserved(a, status) ==
    att' = IF att[a].status = "RESERVED"
           THEN [att EXCEPT ![a] =
                    Snapshot(att[a], status, NoVerdict, att[a].pack, att[a].current)]
           ELSE att

\* _terminalize: only an attempt that has not ended is ended.
Terminalize(a, status) ==
    att' = IF att[a].status \in Live
           THEN [att EXCEPT ![a] =
                    Snapshot(att[a], status, NoVerdict, att[a].pack, att[a].current)]
           ELSE att

\* Mutant: an attempt that was ended from outside is overwritten.
NeverEnded(a) == FALSE

\* A cancelled or failed attempt keeps that status.
EndedFromOutside(a) == att[a].status \in {"CANCELLED", "FAILED_INTERNAL"}

IsCurrent(a) == att[a].poc \in DOMAIN cur /\ cur[att[a].poc] = a

\* Whether the attempt is still the one the POC points to.
CurrentNow(a) == IsCurrent(a)

\* Evaluation raised: fail(attempt_id).
ExecuteRaise(a) ==
    /\ a \in work
    /\ work' = work \ {a}
    /\ Terminalize(a, "FAILED_INTERNAL")
    /\ UNCHANGED <<frozen, idem, cur, closeVars, active, thr>>

\* A criterion's evidence was rejected at ingestion: no reduction.
ExecuteReject(a) ==
    /\ a \in work
    /\ work' = work \ {a}
    /\ att' = IF EndedFromOutside(a) THEN att
              ELSE [att EXCEPT ![a] =
                        Snapshot(att[a],
                                 IF CurrentNow(a) THEN "INGESTION_REJECTED" ELSE "STALE",
                                 NoVerdict, att[a].pack, CurrentNow(a))]
    /\ UNCHANGED <<frozen, idem, cur, closeVars, active, thr>>

\* Every result was admitted and reduced to v.  A current attempt is published
\* at once.  Publication succeeds or fails with the pack error; without an
\* output root, or when another error is raised out of execute, the attempt is
\* left completed and without a pack.
Publications == {"published", "pack_error", "none"}

\* Mutant: a failed publication leaves the verdict in place.
OutcomeKeptOnError(a, v, pub) ==
    IF ~CurrentNow(a) THEN Snapshot(att[a], "STALE", v, att[a].pack, FALSE)
    ELSE Snapshot(att[a], IF pub = "pack_error" THEN "FAILED_INTERNAL" ELSE "COMPLETED",
                  v, pub = "published", TRUE)

Outcome(a, v, pub) ==
    IF ~CurrentNow(a) THEN Snapshot(att[a], "STALE", v, att[a].pack, FALSE)
    ELSE IF pub = "pack_error"
    THEN Snapshot(att[a], "FAILED_INTERNAL", NoVerdict, FALSE, TRUE)
    ELSE Snapshot(att[a], "COMPLETED", v, pub = "published", TRUE)

ExecuteComplete(a, v, pub) ==
    /\ a \in work
    /\ work' = work \ {a}
    /\ att' = IF EndedFromOutside(a) THEN att
              ELSE [att EXCEPT ![a] = Outcome(a, v, pub)]
    /\ UNCHANGED <<frozen, idem, cur, closeVars, active, thr>>

Cancel(a) ==
    /\ att[a].status \in Live
    /\ Terminalize(a, "CANCELLED")
    /\ UNCHANGED <<frozen, idem, cur, work, closeVars, active, thr>>

Fail(a) ==
    /\ att[a].status \in Live
    /\ Terminalize(a, "FAILED_INTERNAL")
    /\ UNCHANGED <<frozen, idem, cur, work, closeVars, active, thr>>

\* publish_evidence_pack of an attempt that has none yet
PublishPack(a) ==
    /\ att[a].status = "COMPLETED" /\ att[a].verdict # NoVerdict
    /\ att[a].current /\ IsCurrent(a)
    /\ ~att[a].pack
    /\ att' = [att EXCEPT ![a] =
            Snapshot(att[a], "COMPLETED", att[a].verdict, TRUE, TRUE)]
    /\ UNCHANGED <<frozen, idem, cur, work, closeVars, active, thr>>

-----------------------------------------------------------------------------
(***************************************************************************)
(* handoff and stop                                                        *)
(***************************************************************************)

NoBinding == [kind |-> "NONE"]

\* _binding_for_record_locked: the pack of a completed attempt, or the receipt
\* of the whole record of one that ended without evidence.
Binding(a) ==
    IF att[a].status = "COMPLETED" /\ att[a].verdict # NoVerdict /\ att[a].pack
    THEN [kind |-> "EVIDENCE", run |-> a, verdict |-> att[a].verdict]
    ELSE IF att[a].status \in Closable
    THEN [kind |-> "RUN", run |-> a, record |-> att[a]]
    ELSE NoBinding

\* _evidence_binding_for_attempt and _closure_binding_for_attempt
CloseCall(t, a, d, k) ==
    /\ thr[t] = Idle
    /\ IsCurrent(a)
    /\ Binding(a) # NoBinding
    /\ d = "HANDOFF_COMPLETED" => Binding(a).kind = "EVIDENCE"
    /\ thr' = [thr EXCEPT ![t] = [step |-> "record", poc |-> att[a].poc, key |-> k,
                                  decision |-> d, binding |-> Binding(a)]]
    /\ UNCHANGED <<frozen, svcVars, closeVars, active>>

\* _closure_binding_for_poc
Authoritative(p) == IF p \in DOMAIN cur THEN Binding(cur[p]) ELSE NoBinding

\* Mutant: closure does not wait for reservations under way.
NoMutationsAssumed(p) == p \in Pocs

NoMutations(p) == active[p] = 0

HasRoom == Cardinality(DOMAIN closed) < MaxRecords

\* Mutant: the binding the caller read is not compared again.
TrustCaller(x) == Authoritative(x.poc) # NoBinding

\* The binding read by the caller is compared with the present one.
BindingMatches(x) == Authoritative(x.poc) = x.binding

\* Mutant: a second decision replaces the first.
ReplaceClosure(p) == p \in Pocs

StillOpen(p) == p \notin DOMAIN closed

\* What record checks of a request whose key is new.
Closes(x) ==
    /\ StillOpen(x.poc)
    /\ NoMutations(x.poc)
    /\ HasRoom
    /\ Authoritative(x.poc) # NoBinding
    /\ x.decision = "HANDOFF_COMPLETED" => Authoritative(x.poc).kind = "EVIDENCE"
    /\ BindingMatches(x)

Record(t) ==
    /\ thr[t].step = "record"
    /\ LET x == thr[t]
           req == [decision |-> x.decision, binding |-> x.binding]
       IN IF x.key \notin DOMAIN cidem /\ Closes(x)
          THEN /\ closed' = Put(closed, x.poc, req)
               /\ cidem' = Put(cidem, x.key, [poc |-> x.poc, req |-> req])
          ELSE UNCHANGED closeVars
    /\ thr' = [thr EXCEPT ![t] = Idle]
    /\ UNCHANGED <<frozen, svcVars, active>>

-----------------------------------------------------------------------------
Decisions == {"HANDOFF_COMPLETED", "POC_STOPPED"}

Reserve(t) ==
    \/ \E p \in Pocs, k \in Keys, r \in Refs : ReserveCall(t, p, k, r)
    \/ ReserveEnter(t) \/ ReserveInstall(t) \/ ReserveLeave(t)

Close(t) ==
    \/ \E a \in Ids, d \in Decisions, k \in CloseKeys : CloseCall(t, a, d, k)
    \/ Record(t)

Evaluate(a) ==
    \/ ExecuteRaise(a) \/ ExecuteReject(a)
    \/ \E v \in Verdicts, pub \in Publications : ExecuteComplete(a, v, pub)

Next ==
    \/ \E p \in Pocs : Freeze(p)
    \/ \E t \in Threads : Reserve(t) \/ Close(t)
    \/ \E a \in Ids :
        ExecuteBegin(a) \/ Evaluate(a) \/ Cancel(a) \/ Fail(a) \/ PublishPack(a)

\* A thread inside an operation keeps running, and every evaluation ends: it
\* runs a bounded local fixture or verifies a local bundle.
Fairness ==
    /\ \A t \in Threads :
        WF_vars(ReserveEnter(t) \/ ReserveInstall(t) \/ ReserveLeave(t) \/ Record(t))
    /\ \A a \in 1..MaxAttempts : WF_vars(a \in Ids /\ Evaluate(a))

Spec == Init /\ [][Next]_vars /\ Fairness

-----------------------------------------------------------------------------
(***************************************************************************)
(* Properties.                                                             *)
(***************************************************************************)

Attempts ==
    [poc : Pocs, key : Keys, ref : Refs, status : Statuses,
     verdict : Verdicts \cup {NoVerdict}, pack : BOOLEAN, current : BOOLEAN]

Bindings ==
    [kind : {"EVIDENCE"}, run : Nat, verdict : Verdicts]
    \cup [kind : {"RUN"}, run : Nat, record : Attempts]

Closures == [decision : Decisions, binding : Bindings]

ReserveCalls ==
    [step : {"enter", "install", "leave"}, poc : Pocs, key : Keys, ref : Refs]
CloseCalls ==
    [step : {"record"}, poc : Pocs, key : CloseKeys, decision : Decisions, binding : Bindings]

\* The type of every dictionary of the two services, and of what threads do.
TypeOK ==
    /\ frozen \subseteq Pocs
    /\ att \in Seq(Attempts)
    /\ IsDict(idem, Keys, Ids)
    /\ IsDict(cur, Pocs, Ids)
    /\ work \subseteq Ids
    /\ IsDict(closed, Pocs, Closures)
    /\ IsDict(cidem, CloseKeys, [poc : Pocs, req : Closures])
    /\ active \in [Pocs -> Nat]
    /\ thr \in [Threads -> {Idle} \cup ReserveCalls \cup CloseCalls]

\* Exactly the attempt _current_by_poc points to is flagged current, whatever
\* reservations, late results and cancellations did in between.
PointerIsTheFlag ==
    \A a \in Ids : att[a].current <=> IsCurrent(a)

\* A verdict belongs to an attempt that was evaluated to its end: a cancelled,
\* failed or rejected attempt never carries one, even when its evaluation
\* comes back later; a pack needs a verdict.
NoVerdictWithoutEvidence ==
    \A a \in Ids :
        /\ att[a].verdict # NoVerdict => att[a].status \in {"COMPLETED", "STALE"}
        /\ att[a].pack => att[a].status = "COMPLETED" /\ att[a].verdict # NoVerdict

\* An attempt that ended keeps its status and its verdict, and an attempt that
\* lost its place never becomes current again.
Ended == Closable \cup {"COMPLETED"}

EndIsFinal ==
    [][\A a \in Ids :
        /\ att[a].status \in Ended =>
            att'[a].status = att[a].status /\ att'[a].verdict = att[a].verdict
        /\ ~att[a].current => ~att'[a].current]_vars

\* A closed POC is bound to its current attempt as it is: nothing that runs on
\* after the closure (an evaluation, a cancellation, a reservation that had
\* passed its first checks) changes what the closure refers to.  A handoff was
\* recorded only over published evidence.
ClosedOnCurrent ==
    \A p \in DOMAIN closed :
        /\ p \in DOMAIN cur
        /\ closed[p].binding = Binding(cur[p])
        /\ closed[p].decision = "HANDOFF_COMPLETED" =>
            att[cur[p]].status = "COMPLETED" /\ att[cur[p]].pack

\* No attempt is reserved for a closed POC, and no closure is replaced.
NothingAfterClosure ==
    [][\A p \in DOMAIN closed :
        /\ p \in DOMAIN closed' /\ closed'[p] = closed[p]
        /\ \A a \in Ids' \ Ids : att'[a].poc # p]_vars

\* One idempotency key reserves one attempt, although the key is looked up, the
\* lock released, and the attempt installed later.
KeyNamesOneAttempt ==
    /\ \A a, b \in Ids : att[a].key = att[b].key => a = b
    /\ \A k \in DOMAIN idem : att[idem[k]].key = k

\* A replayed closure request is answered with the closure it recorded, and
\* every closure can be replayed with its key.
ClosureReplay ==
    /\ \A k \in DOMAIN cidem :
        /\ cidem[k].poc \in DOMAIN closed
        /\ closed[cidem[k].poc] = cidem[k].req
    /\ \A p \in DOMAIN closed : \E k \in DOMAIN cidem : cidem[k].poc = p

\* Every attempt that starts running ends.
RunsEnd ==
    \A a \in 1..MaxAttempts :
        (a \in Ids /\ att[a].status = "RUNNING")
            ~> (a \in Ids /\ att[a].status # "RUNNING")

\* Mutations never block the closure of a POC for good.
MutationsDrain == \A p \in Pocs : []<>(active[p] = 0)

=============================================================================
