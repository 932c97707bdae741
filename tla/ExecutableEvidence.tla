------------------------- MODULE ExecutableEvidence -------------------------
(***************************************************************************)
(* Execution of one frozen executable criterion                            *)
(* (ProcessLocalExecutableEvidenceService of poc_evidence_orchestration).  *)
(*                                                                         *)
(* It is the older sibling of the service of module Evidence: reserve is   *)
(* one step under the service's lock, there is no closure and no pack, and *)
(* a reservation marks the attempt it replaces STALE whatever that attempt *)
(* had come to.  execute releases the lock while the fixture runs.         *)
(***************************************************************************)
EXTENDS Integers, Sequences, Dicts

CONSTANTS
    RunPocs,        \* POC identifiers with a frozen executable criterion
    RunKeys,        \* idempotency keys
    Results,        \* what the criterion's rule may say of the measurement
    NoResult,
    MaxRuns         \* bound: how many attempts are ever reserved

ASSUME ExecutableAssumption == MaxRuns \in Nat /\ NoResult \notin Results

VARIABLES
    exec,       \* _records, in order of reservation
    keyedRun,   \* _idempotency
    currentRun, \* _current_by_poc
    running,    \* attempts whose fixture is running
    told        \* history: attempts reported as cancelled or failed

execVars == <<exec, keyedRun, currentRun, running, told>>

RunIds == 1..Len(exec)

Unended == {"RESERVED", "RUNNING"}
Dead == {"CANCELLED", "FAILED_INTERNAL"}

\* An attempt after an update of its status (model_copy).
RunSnapshot(a, status, verdict, current) ==
    [poc |-> a.poc, status |-> status, verdict |-> verdict, current |-> current]

-----------------------------------------------------------------------------
ExecInit ==
    /\ exec = <<>>
    /\ keyedRun = EmptyDict
    /\ currentRun = EmptyDict
    /\ running = {}
    /\ told = {}

\* Mutant: the attempt that is replaced stays as it is.
KeepReplaced(a) == a

\* Mutant: the replaced attempt gets a status of its own (model_copy does not
\* validate an update).
UnknownStatus(a) == RunSnapshot(a, "SUPERSEDED", a.verdict, FALSE)

\* The attempt that is replaced is STALE from now on.
Replaced(a) == RunSnapshot(a, "STALE", a.verdict, FALSE)

\* reserve with a key that is new; a known key is answered without a change.
ReserveRun(p, k) ==
    /\ k \notin DOMAIN keyedRun
    /\ Len(exec) < MaxRuns
    /\ LET n == Len(exec) + 1
           old == [i \in RunIds |-> IF p \in DOMAIN currentRun /\ currentRun[p] = i
                                 THEN Replaced(exec[i]) ELSE exec[i]]
       IN /\ exec' = Append(old, [poc |-> p, status |-> "RESERVED",
                                 verdict |-> NoResult, current |-> TRUE])
          /\ keyedRun' = Put(keyedRun, k, n)
          /\ currentRun' = Put(currentRun, p, n)
    /\ UNCHANGED <<running, told>>

\* execute of an attempt that is not RESERVED returns it unchanged.
RunBegin(a) ==
    /\ exec[a].status = "RESERVED"
    /\ exec' = [exec EXCEPT ![a] =
            RunSnapshot(exec[a], "RUNNING", exec[a].verdict, exec[a].current)]
    /\ running' = running \cup {a}
    /\ UNCHANGED <<keyedRun, currentRun, told>>

\* _terminalize
EndRun(a, status) ==
    IF exec[a].status \in Unended
    THEN /\ exec' = [exec EXCEPT ![a] = RunSnapshot(exec[a], status, NoResult, exec[a].current)]
         /\ told' = told \cup {a}
    ELSE UNCHANGED <<exec, told>>

\* The fixture raised.
RunRaise(a) ==
    /\ a \in running
    /\ running' = running \ {a}
    /\ EndRun(a, "FAILED_INTERNAL")
    /\ UNCHANGED <<keyedRun, currentRun>>

IsCurrentRun(a) == currentRun[exec[a].poc] = a

\* The fixture's result is stored unless the attempt is cancelled or failed.
RunComplete(a, v) ==
    /\ a \in running
    /\ running' = running \ {a}
    /\ exec' = IF exec[a].status \in Dead THEN exec
              ELSE [exec EXCEPT ![a] =
                        RunSnapshot(exec[a], IF IsCurrentRun(a) THEN "COMPLETED" ELSE "STALE",
                                 v, IsCurrentRun(a))]
    /\ UNCHANGED <<keyedRun, currentRun, told>>

\* cancel and fail, called by anyone who knows the attempt
End(a, status) ==
    /\ exec[a].status \in Unended
    /\ EndRun(a, status)
    /\ UNCHANGED <<keyedRun, currentRun, running>>

Finish(a) == RunRaise(a) \/ \E v \in Results : RunComplete(a, v)

ExecNext ==
    \/ \E p \in RunPocs, k \in RunKeys : ReserveRun(p, k)
    \/ \E a \in RunIds :
        \/ RunBegin(a) \/ Finish(a)
        \/ \E status \in Dead : End(a, status)

ExecSpec == ExecInit /\ [][ExecNext]_execVars

-----------------------------------------------------------------------------
(***************************************************************************)
(* Properties.                                                             *)
(***************************************************************************)

\* What current(poc_id) returns is never stale, and shows a verdict only as the
\* completed outcome of that very attempt; every other attempt is STALE.  A late
\* result of a replaced attempt does not change that.
CurrentIsFresh ==
    \A a \in RunIds :
        IF IsCurrentRun(a)
        THEN /\ exec[a].current /\ exec[a].status # "STALE"
             /\ exec[a].verdict # NoResult <=> exec[a].status = "COMPLETED"
        ELSE ~exec[a].current /\ exec[a].status = "STALE"

\* What the reason of a cancelled or failed attempt promises: it ended before
\* an acceptance verdict, and never gets one.  The code breaks it: a successor
\* turns CANCELLED into STALE, which execute does not recognize as ended.
CancelledHasNoVerdict ==
    \A a \in told : exec[a].verdict = NoResult

=============================================================================
