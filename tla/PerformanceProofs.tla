-------------------------- MODULE PerformanceProofs --------------------------
(***************************************************************************)
(* What holds of PerformanceRun for any number of coordinators, keys,      *)
(* inputs and verdicts, and wherever processes and machines stop; and of   *)
(* acknowledgements, consents and their one-use permits, however the clock *)
(* that dates them moves.                                                  *)
(***************************************************************************)
EXTENDS MCPerformance, FiniteSetTheorems

\* Steps of a worker that holds a reservation.
Holding == {"preflight", "mark", "probe", "publish", "sync", "complete", "verify"}
Steps == Holding \cup {"none", "begin", "reserve", "fail"}

Carries == Verdicts \cup Reasons \cup {None}

Rows == [input : Inputs \cup {None}, run : Nat, status : Statuses]
Records == [input : Inputs \cup {None}, verdict : Carries,
            status : Statuses \cup {"NONE", "VALIDATING"}]
Reports == [key : Keys, input : Inputs \cup {None}, verdict : Carries]
Workers == [step : Steps, run : Nat, carry : Carries]

-----------------------------------------------------------------------------
(***************************************************************************)
(* Types.                                                                  *)
(***************************************************************************)

Types ==
    /\ IsDict(ledger, Keys, Rows)
    /\ runs \in Nat
    /\ IsDict(dirs, Nat, Carries)
    /\ rec \in [Operations -> Records]
    /\ work \in [Operations -> Workers]
    /\ paid \in [Keys -> Nat]
    /\ told \subseteq Reports

\* The initial state is well typed.
LEMMA TypesInit == Init => Types
<1> SUFFICES ASSUME Init PROVE Types
    OBVIOUS
<1>1. IsDict(ledger, Keys, Rows) /\ IsDict(dirs, Nat, Carries)
    BY EmptyType DEF Init
<1>2. NoRecord \in Records /\ NoWorker \in Workers
    BY DEF NoRecord, Record, Records, NoWorker, Worker, Workers, Steps, Carries
<1> QED BY <1>1, <1>2 DEF Init, Types

\* Storing a result keeps the types.
LEMMA StoreType ==
    ASSUME Types, NEW c \in Coordinators, NEW k \in Keys,
           NEW status \in Statuses, NEW verdict \in Carries,
           Store(c, k, status, verdict)
    PROVE  rec' \in [Operations -> Records] /\ work' \in [Operations -> Workers]
<1>1. <<c, k>> \in Operations BY DEF Operations
<1>2. NoWorker \in Workers
    BY DEF NoWorker, Worker, Workers, Steps, Carries
<1>3. rec[<<c, k>>] \in Records BY <1>1 DEF Types
<1>4. Record(rec[<<c, k>>].input, status, verdict) \in Records
    BY <1>3 DEF Record, Records
<1> QED BY <1>1, <1>2, <1>4 DEF Types, Store

\* Marking a row keeps the type of the ledger.
LEMMA MarkType ==
    ASSUME Types, NEW k \in Keys, NEW run, NEW status \in Statuses,
           MarkTerminal(k, run, status)
    PROVE  IsDict(ledger', Keys, Rows)
<1>1. IsDict(ledger, Keys, Rows) BY DEF Types
<1>2. k \in DOMAIN ledger /\ ledger[k].run = run BY DEF MarkTerminal, Known
<1>3. ledger[k] \in Rows BY <1>1, <1>2, GetType
<1>4. [input |-> ledger[k].input, run |-> run, status |-> status] \in Rows
    BY <1>2, <1>3 DEF Rows
<1> QED BY <1>1, <1>4, PutType DEF MarkTerminal

\* Moving a worker on keeps the types.
LEMMA GotoType ==
    ASSUME Types, NEW c \in Coordinators, NEW k \in Keys,
           NEW step \in Steps, NEW carry \in Carries,
           Goto(c, k, step, carry)
    PROVE  work' \in [Operations -> Workers]
<1>1. <<c, k>> \in Operations BY DEF Operations
<1>2. work[<<c, k>>] \in Workers BY <1>1 DEF Types
<1>3. Worker(step, work[<<c, k>>].run, carry) \in Workers
    BY <1>2 DEF Worker, Workers
<1> QED BY <1>1, <1>3 DEF Types, Goto

\* Every step of a worker keeps the types.
LEMMA RunType ==
    ASSUME Types, NEW c \in Coordinators, NEW k \in Keys, Run(c, k),
           At(c, k, "mark") => work[<<c, k>>].carry \in Reasons
    PROVE  Types'
<1> DEFINE o == <<c, k>>
<1>1. o \in Operations BY DEF Operations
<1>2. rec[o] \in Records /\ work[o] \in Workers BY <1>1 DEF Types
<1>3. rec[o].input \in Inputs \cup {None} BY <1>2 DEF Records
<1>4. work[o].run \in Nat /\ work[o].carry \in Carries BY <1>2 DEF Workers
<1>5. /\ None \in Carries /\ Verdicts \subseteq Carries
      /\ "BLOCKED" \in Carries /\ "NOT_PROVEN" \in Carries
    BY DEF Carries, Reasons
<1>6. /\ "BLOCKED" \in Statuses /\ "NOT_PROVEN" \in Statuses /\ "FAILED" \in Statuses
      /\ "RUNNING" \in Statuses /\ "COMPLETED" \in Statuses
    BY DEF Statuses, Reasons
<1>7. IsDict(ledger, Keys, Rows) /\ IsDict(dirs, Nat, Carries) BY DEF Types
<1>8. ASSUME NEW status, StoreReason(c, k, status)
      PROVE  rec' \in [Operations -> Records] /\ work' \in [Operations -> Workers]
    BY <1>5, <1>6, <1>8, StoreType DEF StoreReason
<1>10. CASE ExecuteBegin(c, k)
  <2>1. Record(rec[o].input, "RUNNING", None) \in Records
    BY <1>3, <1>5, <1>6 DEF Record, Records
  <2>2. Worker("reserve", 0, None) \in Workers
    BY <1>5 DEF Worker, Workers, Steps
  <2> QED BY <1>1, <1>10, <2>1, <2>2 DEF ExecuteBegin, Types, durable
<1>11. CASE Reserve(c, k)
  <2> DEFINE row == [input |-> rec[o].input, run |-> runs + 1, status |-> "RUNNING"]
  <2>1. runs + 1 \in Nat BY DEF Types
  <2>2. row \in Rows BY <1>3, <1>6, <2>1 DEF Rows
  <2>3. IsDict(Put(ledger, k, row), Keys, Rows) BY <1>7, <2>2, PutType
  <2>4. Worker("preflight", runs + 1, None) \in Workers
    BY <1>5, <2>1 DEF Worker, Workers, Steps, Holding
  <2> QED BY <1>1, <1>11, <2>1, <2>3, <2>4 DEF Reserve, Types
<1>12. CASE Replay(c, k)
  <2>1. k \in DOMAIN ledger BY <1>12 DEF Replay, SameInput, Known
  <2>2. ledger[k] \in Rows BY <1>7, <2>1, GetType
  <2>3. Worker("verify", ledger[k].run, None) \in Workers
    BY <1>5, <2>2 DEF Worker, Workers, Steps, Holding, Rows
  <2>4. rec' \in [Operations -> Records] /\ work' \in [Operations -> Workers]
    <3>1. CASE ledger[k].status = "COMPLETED"
        BY <1>1, <1>12, <2>3, <3>1 DEF Replay, Types
    <3>2. CASE ledger[k].status # "COMPLETED"
        BY <1>8, <1>12, <3>2 DEF Replay
    <3> QED BY <3>1, <3>2
  <2> QED BY <1>12, <2>4 DEF Replay, Types, durable
<1>13. CASE LaunchFails(c, k) \/ ReserveRaises(c, k)
    BY <1>8, <1>13 DEF LaunchFails, ReserveRaises, Types, durable
<1>14. CASE Preflight(c, k)
  <2>1. work' \in [Operations -> Workers]
    BY <1>5, <1>14, GotoType DEF Preflight, Steps, Holding
  <2> QED BY <1>14, <2>1 DEF Preflight, Types, durable
<1>15. CASE Mark(c, k)
  <2>1. work[o].carry \in Statuses BY <1>15 DEF Mark, Statuses
  <2>2. IsDict(ledger', Keys, Rows) BY <1>15, <2>1, MarkType DEF Mark
  <2> QED BY <1>8, <1>15, <2>2 DEF Mark, Types
<1>16. ASSUME NEW v \in Verdicts, Probe(c, k, v) PROVE Types'
  <2>1. work' \in [Operations -> Workers]
    BY <1>5, <1>16, GotoType DEF Probe, Steps, Holding
  <2> QED BY <1>16, <2>1 DEF Probe, Types, durable
<1>17. CASE Publish(c, k)
  <2>1. IsDict(dirs', Nat, Carries)
    BY <1>4, <1>7, <1>17, PutType DEF Publish
  <2>2. work' \in [Operations -> Workers]
    BY <1>4, <1>17, GotoType DEF Publish, Steps, Holding
  <2> QED BY <1>17, <2>1, <2>2 DEF Publish, Types
<1>18. CASE Sync(c, k)
  <2>1. work' \in [Operations -> Workers]
    BY <1>5, <1>18, GotoType DEF Sync, Steps, Holding
  <2> QED BY <1>18, <2>1 DEF Sync, Types
<1>19. CASE Complete(c, k)
  <2>1. IsDict(ledger', Keys, Rows) BY <1>6, <1>19, MarkType DEF Complete
  <2>2. work' \in [Operations -> Workers]
    BY <1>5, <1>19, GotoType DEF Complete, Steps, Holding
  <2> QED BY <1>19, <2>1, <2>2 DEF Complete, Types
<1>20. CASE Verify(c, k)
  <2>1. dirs[work[o].run] \in Carries BY <1>7, <1>20, GetType DEF Verify
  <2>2. rec' \in [Operations -> Records] /\ work' \in [Operations -> Workers]
    BY <1>6, <1>20, <2>1, StoreType DEF Verify
  <2>3. told' \subseteq Reports BY <1>3, <1>20, <2>1 DEF Verify, Types, Reports
  <2> QED BY <1>20, <2>2, <2>3 DEF Verify, Types, durable
<1>21. CASE Raise(c, k)
  <2>1. work' \in [Operations -> Workers]
    BY <1>5, <1>21, GotoType DEF Raise, Steps
  <2> QED BY <1>21, <2>1 DEF Raise, Types, durable
<1>22. CASE Fail(c, k)
  <2>1. IsDict(ledger', Keys, Rows) BY <1>6, <1>7, <1>22, MarkType DEF Fail
  <2> QED BY <1>8, <1>22, <2>1 DEF Fail, Types
<1> QED
    BY <1>10, <1>11, <1>12, <1>13, <1>14, <1>15, <1>16, <1>17, <1>18, <1>19,
       <1>20, <1>21, <1>22 DEF Run

-----------------------------------------------------------------------------
(***************************************************************************)
(* The inductive invariant.  A worker that holds a reservation has its row *)
(* in the ledger, with the inputs of its record; how far the worker is     *)
(* says what is durable already.                                           *)
(***************************************************************************)

RowsBacked ==
    \A k \in DOMAIN ledger :
        ledger[k].status = "COMPLETED" =>
            ledger[k].run \in DOMAIN dirs /\ ledger[k].run \in rooted

Bound(c, k) ==
    LET w == work[<<c, k>>] IN
        /\ w.step # "none" => rec[<<c, k>>].status # "NONE"
        /\ w.step \in Holding =>
            /\ k \in DOMAIN ledger
            /\ ledger[k].run = w.run
            /\ ledger[k].input = rec[<<c, k>>].input
        /\ w.step = "preflight" => paid[k] = 0
        /\ w.step = "mark" => w.carry \in Reasons
        /\ w.step \in {"sync", "complete"} => w.run \in DOMAIN dirs
        /\ w.step = "complete" => w.run \in rooted
        /\ w.step = "verify" => ledger[k].status = "COMPLETED"

Shown(c, k) ==
    rec[<<c, k>>].status = "COMPLETED" =>
        /\ k \in DOMAIN ledger
        /\ ledger[k].status = "COMPLETED"
        /\ rec[<<c, k>>].verdict = dirs[ledger[k].run]

ToldBacked ==
    \A t \in told :
        /\ t.key \in DOMAIN ledger
        /\ ledger[t.key].status = "COMPLETED"
        /\ t.input = ledger[t.key].input
        /\ t.verdict = dirs[ledger[t.key].run]

Unpaid == \A k \in Keys : paid[k] <= 1 /\ (k \notin DOMAIN ledger => paid[k] = 0)

OnePayer ==
    \A c, d \in Coordinators, k \in Keys :
        At(c, k, "preflight") /\ At(d, k, "preflight") => c = d

Inv ==
    /\ Types
    /\ RowsBacked
    /\ \A c \in Coordinators, k \in Keys : Bound(c, k) /\ Shown(c, k)
    /\ ToldBacked
    /\ Unpaid
    /\ OnePayer

\* The initial state satisfies the invariant.
LEMMA InvInit == Init => Inv
<1> SUFFICES ASSUME Init PROVE Inv
    OBVIOUS
<1>1. Types BY TypesInit
<1>2. DOMAIN ledger = {} /\ told = {} /\ \A k \in Keys : paid[k] = 0
    BY EmptyType DEF Init
<1>3. \A c \in Coordinators, k \in Keys :
        rec[<<c, k>>].status = "NONE" /\ work[<<c, k>>].step = "none"
    BY DEF Init, Operations, NoRecord, Record, NoWorker, Worker
<1> QED
    BY <1>1, <1>2, <1>3
    DEF Inv, RowsBacked, Bound, Shown, ToldBacked, Unpaid, OnePayer, Holding, At

-----------------------------------------------------------------------------
(***************************************************************************)
(* What a step of one worker leaves alone.                                 *)
(***************************************************************************)

\* Rows keep their inputs and runs, a completed row stays completed.
LedgerGrows ==
    \A k \in DOMAIN ledger :
        /\ k \in DOMAIN ledger'
        /\ ledger'[k].run = ledger[k].run
        /\ ledger'[k].input = ledger[k].input
        /\ ledger[k].status = "COMPLETED" => ledger'[k].status = "COMPLETED"

\* What is published stays as it is.
DirsGrow ==
    /\ rooted \subseteq rooted'
    /\ \A run \in DOMAIN dirs : run \in DOMAIN dirs' /\ dirs'[run] = dirs[run]

\* Only the operation of c and k changes.
Local(c, k) ==
    \A d \in Coordinators, j \in Keys :
        <<d, j>> # <<c, k>> =>
            rec'[<<d, j>>] = rec[<<d, j>>] /\ work'[<<d, j>>] = work[<<d, j>>]

\* Network work begins at most for k, and then by the worker of c.
Pays(c, k) ==
    \/ paid' = paid
    \/ /\ At(c, k, "preflight") /\ ~At(c, k, "preflight")'
       /\ paid' = [paid EXCEPT ![k] = @ + 1]

\* A worker is about to pay only if the row is its own, new one.
FirstPayer(c, k) == At(c, k, "preflight")' => k \notin DOMAIN ledger

\* A step of one operation that keeps the invariant there keeps it everywhere.
LEMMA LocalStep ==
    ASSUME Inv, Types', NEW c \in Coordinators, NEW k \in Keys,
           LedgerGrows, DirsGrow, Local(c, k), Pays(c, k), FirstPayer(c, k),
           RowsBacked', Bound(c, k)', Shown(c, k)', ToldBacked'
    PROVE  Inv'
<1>1. paid \in [Keys -> Nat] /\ paid' \in [Keys -> Nat] BY DEF Inv, Types
<1>2. ASSUME NEW d \in Coordinators, NEW j \in Keys, <<d, j>> # <<c, k>>
      PROVE  Bound(d, j)' /\ Shown(d, j)'
  <2>1. rec'[<<d, j>>] = rec[<<d, j>>] /\ work'[<<d, j>>] = work[<<d, j>>]
    BY <1>2 DEF Local
  <2>2. Bound(d, j) /\ Shown(d, j) BY DEF Inv
  <2>3. At(d, j, "preflight") => paid'[j] = paid[j]
    BY <1>1, <1>2 DEF Pays, Inv, OnePayer
  <2>4. Bound(d, j)'
    BY <2>1, <2>2, <2>3 DEF Bound, LedgerGrows, DirsGrow, Holding, At
  <2>5. Shown(d, j)'
    BY <2>1, <2>2 DEF Shown, LedgerGrows, DirsGrow, Inv, RowsBacked
  <2> QED BY <2>4, <2>5
<1>3. Unpaid'
  <2>1. At(c, k, "preflight") => k \in DOMAIN ledger /\ paid[k] = 0
    BY DEF Inv, Bound, At, Holding
  <2> QED BY <1>1, <2>1 DEF Unpaid, Inv, Pays, LedgerGrows
<1>4. OnePayer'
  <2> SUFFICES ASSUME NEW d \in Coordinators, NEW e \in Coordinators, NEW j \in Keys,
                      At(d, j, "preflight")', At(e, j, "preflight")'
               PROVE  d = e
    BY DEF OnePayer
  <2>1. ASSUME NEW x \in Coordinators, At(x, j, "preflight")', <<x, j>> # <<c, k>>
        PROVE  At(x, j, "preflight") /\ j \in DOMAIN ledger
    BY <2>1 DEF Local, At, Inv, Bound, Holding
  <2> QED BY <2>1 DEF FirstPayer, Inv, OnePayer
<1> QED BY <1>2, <1>3, <1>4 DEF Inv

\* A ledger that is not touched grows, and so do untouched directories.
LEMMA SameGrows ==
    /\ UNCHANGED ledger => LedgerGrows
    /\ UNCHANGED <<dirs, rooted>> => DirsGrow
BY DEF LedgerGrows, DirsGrow

\* What was backed stays backed while the ledger and the directories grow.
LEMMA BackedLater ==
    ASSUME RowsBacked, ToldBacked, LedgerGrows, DirsGrow
    PROVE  /\ UNCHANGED told => ToldBacked'
           /\ UNCHANGED ledger => RowsBacked'
BY DEF RowsBacked, ToldBacked, LedgerGrows, DirsGrow

\* Marking a row changes its status only, and never that of a completed row.
LEMMA MarkGrows ==
    ASSUME NEW k, NEW run, NEW status, MarkTerminal(k, run, status)
    PROVE  /\ LedgerGrows
           /\ DOMAIN ledger' = DOMAIN ledger
           /\ ledger'[k].status = status
           /\ \A j \in DOMAIN ledger : j # k => ledger'[j] = ledger[j]
<1> DEFINE row == [input |-> ledger[k].input, run |-> run, status |-> status]
<1>1. /\ k \in DOMAIN ledger /\ ledger[k].run = run
      /\ ledger[k].status = "RUNNING" /\ ledger' = Put(ledger, k, row)
    BY DEF MarkTerminal, Known
<1>2. row.input = ledger[k].input /\ row.run = run /\ row.status = status
    OBVIOUS
<1> HIDE DEF row
<1>3. /\ DOMAIN ledger' = DOMAIN ledger
      /\ ledger'[k] = row
      /\ \A j \in DOMAIN ledger : j # k => ledger'[j] = ledger[j]
    BY ONLY <1>1 DEF Put
<1> QED BY <1>1, <1>2, <1>3 DEF LedgerGrows

\* A result that is not a completed one may be stored at any time.
LEMMA ReasonKept ==
    ASSUME Types, NEW c \in Coordinators, NEW k \in Keys, NEW status,
           StoreReason(c, k, status)
    PROVE  Local(c, k) /\ FirstPayer(c, k) /\ Bound(c, k)' /\ Shown(c, k)'
<1>1. <<c, k>> \in Operations BY DEF Operations
<1>2. work'[<<c, k>>].step = "none" /\ rec'[<<c, k>>].status # "COMPLETED"
    BY <1>1 DEF StoreReason, Store, Record, NoWorker, Worker, Types
<1>3. Local(c, k)
    BY DEF StoreReason, Store, Local, Types, Operations
<1> QED BY <1>2, <1>3 DEF FirstPayer, At, Bound, Shown, Holding

\* What Goto does to its worker, and to no other.
LEMMA GotoFacts ==
    ASSUME Types, NEW c \in Coordinators, NEW k \in Keys, NEW step, NEW carry,
           Goto(c, k, step, carry), UNCHANGED rec
    PROVE  /\ Local(c, k)
           /\ work'[<<c, k>>].step = step
           /\ work'[<<c, k>>].carry = carry
           /\ work'[<<c, k>>].run = work[<<c, k>>].run
<1>1. <<c, k>> \in Operations BY DEF Operations
<1>2. work'[<<c, k>>] = Worker(step, work[<<c, k>>].run, carry)
    BY <1>1 DEF Goto, Types
<1>3. Local(c, k) BY DEF Goto, Local, Types, Operations
<1> QED BY <1>2, <1>3 DEF Worker

-----------------------------------------------------------------------------
(***************************************************************************)
(* Every step keeps the invariant.                                         *)
(***************************************************************************)

\* A step that only stores a reason, or moves a worker without any durable effect.
LEMMA QuietStep ==
    ASSUME Inv, Types', NEW c \in Coordinators, NEW k \in Keys,
           UNCHANGED <<durable, told>>, Local(c, k), Pays(c, k), FirstPayer(c, k),
           Bound(c, k)', Shown(c, k)'
    PROVE  Inv'
<1>1. LedgerGrows /\ DirsGrow BY SameGrows DEF durable
<1>2. RowsBacked' /\ ToldBacked' BY <1>1, BackedLater DEF Inv, durable
<1> QED BY <1>1, <1>2, LocalStep

\* Every step of a worker keeps the invariant.
LEMMA RunInv ==
    ASSUME Inv, NEW c \in Coordinators, NEW k \in Keys, Run(c, k)
    PROVE  Inv'
<1> DEFINE o == <<c, k>>
<1>1. o \in Operations BY DEF Operations
<1>2. Types /\ RowsBacked /\ ToldBacked /\ Bound(c, k) /\ Shown(c, k) BY DEF Inv
<1>3. Types' BY <1>2, RunType DEF Bound, At
<1>4. rec \in [Operations -> Records] /\ work \in [Operations -> Workers]
    BY <1>2 DEF Types
<1>5. UNCHANGED paid => Pays(c, k) BY DEF Pays
<1>6. ASSUME NEW step, At(c, k, step), step # "none" PROVE rec[o].status # "NONE"
    BY <1>2, <1>6 DEF Bound, At
<1>10. CASE ExecuteBegin(c, k)
  <2>1. work'[o].step = "reserve" /\ rec'[o].status = "RUNNING"
    BY <1>1, <1>4, <1>10 DEF ExecuteBegin, Worker, Record
  <2>2. Local(c, k) BY <1>4, <1>10 DEF ExecuteBegin, Local, Operations
  <2>3. FirstPayer(c, k) /\ Bound(c, k)' /\ Shown(c, k)'
    BY <2>1 DEF FirstPayer, At, Bound, Shown, Holding
  <2> QED BY <1>3, <1>5, <1>10, <2>2, <2>3, QuietStep DEF ExecuteBegin
<1>11. CASE Reserve(c, k)
  <2> DEFINE row == [input |-> rec[o].input, run |-> runs + 1, status |-> "RUNNING"]
  <2>1. row.input = rec[o].input /\ row.run = runs + 1 /\ row.status = "RUNNING"
    OBVIOUS
  <2>2. k \notin DOMAIN ledger /\ ledger' = Put(ledger, k, row)
    BY <1>11 DEF Reserve, ShouldExecute, Known
  <2> HIDE DEF row
  <2>3. /\ DOMAIN ledger' = DOMAIN ledger \cup {k}
        /\ ledger'[k] = row
        /\ \A j \in DOMAIN ledger : ledger'[j] = ledger[j]
    BY ONLY <2>2 DEF Put
  <2>4. LedgerGrows /\ DirsGrow BY <1>11, <2>3, SameGrows DEF LedgerGrows, Reserve
  <2>5. RowsBacked'
    BY <1>2, <1>11, <2>1, <2>3 DEF RowsBacked, Reserve
  <2>6. ToldBacked' BY <1>2, <1>11, <2>4, BackedLater DEF Reserve
  <2>7. work'[o].step = "preflight" /\ work'[o].run = runs + 1
    BY <1>1, <1>4, <1>11 DEF Reserve, Worker
  <2>8. paid[k] = 0 BY <2>2 DEF Inv, Unpaid
  <2>9. Local(c, k) BY <1>4, <1>11 DEF Reserve, Local, Operations
  <2>10. Bound(c, k)'
    BY <1>6, <1>11, <2>1, <2>3, <2>7, <2>8 DEF Bound, Reserve, Holding
  <2>11. Shown(c, k)' BY <1>2, <1>11, <2>2 DEF Shown, Reserve
  <2>12. FirstPayer(c, k) /\ Pays(c, k)
    BY <1>5, <1>11, <2>2 DEF FirstPayer, Reserve
  <2> QED BY <1>3, <2>4, <2>5, <2>6, <2>9, <2>10, <2>11, <2>12, LocalStep
<1>12. CASE Replay(c, k)
  <2>1. k \in DOMAIN ledger /\ ledger[k].input = rec[o].input
    BY <1>12 DEF Replay, SameInput, Known
  <2>2. CASE ledger[k].status = "COMPLETED"
    <3>1. work'[o] = Worker("verify", ledger[k].run, None) /\ UNCHANGED rec
        BY <1>1, <1>4, <1>12, <2>2 DEF Replay
    <3>2. work'[o].step = "verify" /\ work'[o].run = ledger[k].run
        BY <3>1 DEF Worker
    <3>3. Local(c, k) BY <1>4, <1>12, <2>2 DEF Replay, Local, Operations
    <3>4. Bound(c, k)'
        BY <1>6, <1>12, <2>1, <2>2, <3>1, <3>2 DEF Bound, Replay, durable, Holding
    <3>5. Shown(c, k)' BY <1>2, <1>12, <3>1 DEF Shown, Replay, durable
    <3>6. FirstPayer(c, k) BY <3>2 DEF FirstPayer, At
    <3> QED BY <1>3, <1>5, <1>12, <3>3, <3>4, <3>5, <3>6, QuietStep DEF Replay
  <2>3. CASE ledger[k].status # "COMPLETED"
    <3>1. StoreReason(c, k, ledger[k].status) BY <1>12, <2>3 DEF Replay
    <3> QED BY <1>2, <1>3, <1>5, <1>12, <3>1, ReasonKept, QuietStep DEF Replay
  <2> QED BY <2>2, <2>3
<1>13. CASE LaunchFails(c, k) \/ ReserveRaises(c, k)
    BY <1>2, <1>3, <1>5, <1>13, ReasonKept, QuietStep DEF LaunchFails, ReserveRaises
<1>14. CASE Preflight(c, k)
  <2>1. PICK step \in {"probe", "mark"}, carry \in {None} \cup Reasons :
            Goto(c, k, step, carry) /\ (step = "mark" => carry \in Reasons)
    BY <1>14 DEF Preflight, Reasons
  <2>2. /\ Local(c, k) /\ work'[o].step = step /\ work'[o].carry = carry
        /\ work'[o].run = work[o].run
    BY <1>2, <1>14, <2>1, GotoFacts DEF Preflight
  <2>3. Bound(c, k)'
    BY <1>2, <1>14, <2>1, <2>2 DEF Bound, Preflight, At, durable, Holding
  <2>4. Shown(c, k)' BY <1>2, <1>14 DEF Shown, Preflight, durable
  <2>5. FirstPayer(c, k) BY <2>2 DEF FirstPayer, At
  <2>6. Pays(c, k) BY <1>14, <2>2 DEF Pays, Preflight, At
  <2> QED BY <1>3, <1>14, <2>2, <2>3, <2>4, <2>5, <2>6, QuietStep DEF Preflight
<1>15. CASE Mark(c, k)
  <2>1. work[o].carry \in Reasons BY <1>2, <1>15 DEF Mark, At, Bound
  <2>2. /\ LedgerGrows /\ DOMAIN ledger' = DOMAIN ledger
        /\ ledger'[k].status = work[o].carry
        /\ \A j \in DOMAIN ledger : j # k => ledger'[j] = ledger[j]
    BY <1>15, MarkGrows DEF Mark
  <2>3. DirsGrow BY <1>15, SameGrows DEF Mark
  <2>4. RowsBacked'
    BY <1>2, <1>15, <2>1, <2>2 DEF RowsBacked, Mark, Reasons
  <2>5. ToldBacked' BY <1>2, <1>15, <2>2, <2>3, BackedLater DEF Mark
  <2> QED
    BY <1>2, <1>3, <1>5, <1>15, <2>2, <2>3, <2>4, <2>5, ReasonKept, LocalStep DEF Mark
<1>16. ASSUME NEW v \in Verdicts, Probe(c, k, v) PROVE Inv'
  <2>1. Local(c, k) /\ work'[o].step = "publish" /\ work'[o].run = work[o].run
    BY <1>2, <1>16, GotoFacts DEF Probe
  <2>2. Bound(c, k)' BY <1>2, <1>16, <2>1 DEF Bound, Probe, At, durable, Holding
  <2>3. Shown(c, k)' BY <1>2, <1>16 DEF Shown, Probe, durable
  <2>4. FirstPayer(c, k) BY <2>1 DEF FirstPayer, At
  <2> QED BY <1>3, <1>5, <1>16, <2>1, <2>2, <2>3, <2>4, QuietStep DEF Probe
<1>17. CASE Publish(c, k)
  <2> DEFINE w == work[o]
  <2>1. /\ Local(c, k) /\ work'[o].step = "sync" /\ work'[o].run = w.run
    BY <1>2, <1>17, GotoFacts DEF Publish
  <2>2. w.run \notin DOMAIN dirs /\ dirs' = Put(dirs, w.run, w.carry)
    BY <1>17 DEF Publish
  <2>3. /\ DOMAIN dirs' = DOMAIN dirs \cup {w.run}
        /\ \A run \in DOMAIN dirs : dirs'[run] = dirs[run]
    BY ONLY <2>2 DEF Put
  <2>4. LedgerGrows /\ DirsGrow
    BY <1>17, <2>3, SameGrows DEF DirsGrow, Publish
  <2>5. RowsBacked' /\ ToldBacked' BY <1>2, <1>17, <2>4, BackedLater DEF Publish
  <2>6. Bound(c, k)'
    BY <1>2, <1>17, <2>1, <2>3 DEF Bound, Publish, At, Holding
  <2>7. Shown(c, k)'
    BY <1>2, <1>17, <2>3 DEF Shown, Publish, RowsBacked
  <2>8. FirstPayer(c, k) /\ Pays(c, k)
    BY <1>5, <1>17, <2>1 DEF FirstPayer, At, Publish
  <2> QED BY <1>3, <2>1, <2>4, <2>5, <2>6, <2>7, <2>8, LocalStep
<1>18. CASE Sync(c, k)
  <2>1. /\ Local(c, k) /\ work'[o].step = "complete" /\ work'[o].run = work[o].run
    BY <1>2, <1>18, GotoFacts DEF Sync
  <2>2. LedgerGrows /\ DirsGrow
    BY <1>18, SameGrows DEF DirsGrow, Sync, Rooted
  <2>3. RowsBacked' /\ ToldBacked' BY <1>2, <1>18, <2>2, BackedLater DEF Sync
  <2>4. Bound(c, k)'
    BY <1>2, <1>18, <2>1 DEF Bound, Sync, Rooted, At, Holding
  <2>5. Shown(c, k)' BY <1>2, <1>18 DEF Shown, Sync
  <2>6. FirstPayer(c, k) /\ Pays(c, k)
    BY <1>5, <1>18, <2>1 DEF FirstPayer, At, Sync
  <2> QED BY <1>3, <2>1, <2>2, <2>3, <2>4, <2>5, <2>6, LocalStep
<1>19. CASE Complete(c, k)
  <2>1. /\ Local(c, k) /\ work'[o].step = "verify" /\ work'[o].run = work[o].run
    BY <1>2, <1>19, GotoFacts DEF Complete
  <2>2. /\ LedgerGrows /\ DOMAIN ledger' = DOMAIN ledger
        /\ ledger'[k].status = "COMPLETED"
        /\ \A j \in DOMAIN ledger : j # k => ledger'[j] = ledger[j]
    BY <1>19, MarkGrows DEF Complete
  <2>3. DirsGrow BY <1>19, SameGrows DEF Complete
  <2>4. /\ k \in DOMAIN ledger /\ ledger[k].run = work[o].run
        /\ ledger[k].input = rec[o].input
        /\ work[o].run \in DOMAIN dirs /\ work[o].run \in rooted
    BY <1>2, <1>19 DEF Complete, At, Bound, Holding
  <2>5. ledger'[k].run = work[o].run /\ ledger'[k].input = rec[o].input
    BY <2>2, <2>4 DEF LedgerGrows
  <2>6. RowsBacked'
    BY <1>2, <1>19, <2>2, <2>4, <2>5 DEF RowsBacked, Complete
  <2>7. ToldBacked' BY <1>2, <1>19, <2>2, <2>3, BackedLater DEF Complete
  <2>8. Bound(c, k)'
    BY <1>6, <1>19, <2>1, <2>2, <2>4, <2>5 DEF Bound, Complete, Holding
  <2>9. Shown(c, k)'
    BY <1>2, <1>19, <2>2 DEF Shown, Complete, LedgerGrows
  <2>10. FirstPayer(c, k) /\ Pays(c, k)
    BY <1>5, <1>19, <2>1 DEF FirstPayer, At, Complete
  <2> QED BY <1>3, <2>1, <2>2, <2>3, <2>6, <2>7, <2>8, <2>9, <2>10, LocalStep
<1>20. CASE Verify(c, k)
  <2> DEFINE v == dirs[work[o].run]
             t == [key |-> k, input |-> rec[o].input, verdict |-> v]
  <2>1. /\ k \in DOMAIN ledger /\ ledger[k].run = work[o].run
        /\ ledger[k].input = rec[o].input /\ ledger[k].status = "COMPLETED"
    BY <1>2, <1>20 DEF Verify, At, Bound, Holding
  <2>2. work'[o].step = "none" /\ rec'[o].status = "COMPLETED" /\ rec'[o].verdict = v
    BY <1>1, <1>4, <1>20 DEF Verify, Store, Record, NoWorker, Worker
  <2>3. Local(c, k) BY <1>4, <1>20 DEF Verify, Store, Local, Operations
  <2>4. LedgerGrows /\ DirsGrow BY <1>20, SameGrows DEF Verify, durable
  <2>5. RowsBacked' BY <1>2, <1>20, <2>4, BackedLater DEF Verify, durable
  <2>6. ToldBacked'
    <3>1. told' = told \cup {t} /\ ledger' = ledger /\ dirs' = dirs
        BY <1>20 DEF Verify, durable
    <3>2. t.key = k /\ t.input = ledger[k].input /\ t.verdict = dirs[ledger[k].run]
        BY <2>1
    <3> HIDE DEF t
    <3> QED BY <1>2, <2>1, <3>1, <3>2 DEF ToldBacked
  <2>7. Bound(c, k)' /\ FirstPayer(c, k)
    BY <2>2 DEF Bound, FirstPayer, At, Holding
  <2>8. Shown(c, k)' BY <1>20, <2>1, <2>2 DEF Shown, Verify, durable
  <2>9. Pays(c, k) BY <1>5, <1>20 DEF Verify
  <2> QED BY <1>3, <2>3, <2>4, <2>5, <2>6, <2>7, <2>8, <2>9, LocalStep
<1>21. CASE Raise(c, k)
  <2>1. Local(c, k) /\ work'[o].step = "fail"
    BY <1>2, <1>21, GotoFacts DEF Raise
  <2>2. Bound(c, k)' /\ FirstPayer(c, k)
    BY <1>6, <1>21, <2>1 DEF Bound, FirstPayer, At, Holding, Raise
  <2>3. Shown(c, k)' BY <1>2, <1>21 DEF Shown, Raise, durable
  <2> QED BY <1>3, <1>5, <1>21, <2>1, <2>2, <2>3, QuietStep DEF Raise
<1>22. CASE Fail(c, k)
  <2>1. DirsGrow BY <1>22, SameGrows DEF Fail
  <2>2. LedgerGrows /\ RowsBacked'
    <3>1. CASE UNCHANGED ledger
        BY <1>2, <2>1, <3>1, SameGrows, BackedLater
    <3>2. CASE MarkTerminal(k, work[o].run, "FAILED")
      <4>1. /\ LedgerGrows /\ DOMAIN ledger' = DOMAIN ledger
            /\ ledger'[k].status = "FAILED"
            /\ \A j \in DOMAIN ledger : j # k => ledger'[j] = ledger[j]
        BY <3>2, MarkGrows
      <4> QED BY <1>2, <1>22, <4>1 DEF RowsBacked, Fail
    <3> QED BY <1>22, <3>1, <3>2 DEF Fail
  <2>3. ToldBacked' BY <1>2, <1>22, <2>1, <2>2, BackedLater DEF Fail
  <2> QED
    BY <1>2, <1>3, <1>5, <1>22, <2>1, <2>2, <2>3, ReasonKept, LocalStep DEF Fail
<1> QED
    BY <1>10, <1>11, <1>12, <1>13, <1>14, <1>15, <1>16, <1>17, <1>18, <1>19,
       <1>20, <1>21, <1>22 DEF Run

\* A new record and its worker keep the invariant.
LEMMA StartInv ==
    ASSUME Inv, NEW c \in Coordinators, NEW k \in Keys, NEW i \in Inputs,
           Start(c, k, i)
    PROVE  Inv'
<1> DEFINE o == <<c, k>>
<1>1. o \in Operations BY DEF Operations
<1>2. Types /\ Bound(c, k) BY DEF Inv
<1>3. rec \in [Operations -> Records] /\ work \in [Operations -> Workers]
    BY <1>2 DEF Types
<1>4. work[o].step = "none"
    BY <1>2 DEF Start, NoRecord, Record, Bound
<1>5. /\ rec'[o] \in Records /\ rec'[o].status \notin {"NONE", "COMPLETED"}
      /\ rec' \in [Operations -> Records]
  <2> DEFINE new(status) == Record(i, status, None)
  <2>1. PICK status \in {"VALIDATING", "RUNNING"} :
            rec' = [rec EXCEPT ![o] = new(status)]
    BY DEF Start
  <2>2. new(status) \in Records /\ new(status).status = status
    BY DEF Record, Records, Statuses, Reasons, Carries
  <2> HIDE DEF new
  <2> QED BY <1>1, <1>3, <2>1, <2>2
<1>6. /\ work'[o].step \in {"begin", "reserve"}
      /\ work' \in [Operations -> Workers]
  <2> DEFINE new(step) == Worker(step, 0, None)
  <2>1. PICK step \in {"begin", "reserve"} : work' = [work EXCEPT ![o] = new(step)]
    BY DEF Start, FirstStep
  <2>2. new(step) \in Workers /\ new(step).step = step
    BY DEF Worker, Workers, Steps, Carries
  <2> HIDE DEF new
  <2> QED BY <1>1, <1>3, <2>1, <2>2
<1>7. UNCHANGED <<durable, paid, told>> BY DEF Start
<1>8. Types' BY <1>2, <1>5, <1>6, <1>7 DEF Types, durable
<1>9. Local(c, k) BY <1>3 DEF Start, Local, Operations
<1>10. Bound(c, k)' /\ Shown(c, k)' /\ FirstPayer(c, k)
    BY <1>5, <1>6 DEF Bound, Shown, FirstPayer, At, Holding
<1> QED BY <1>7, <1>8, <1>9, <1>10, QuietStep DEF Pays

\* Losing what coordinators kept in memory, and directories that were not
\* synced, keeps the invariant; a directory a worker counts on is lost only
\* together with that worker.
LEMMA ForgetInv ==
    ASSUME Inv, NEW C, Forget(C), UNCHANGED <<ledger, runs, rooted>>,
           IsDict(dirs', Nat, Carries),
           \A run \in DOMAIN dirs :
                (run \in rooted \/ Coordinators \ C # {}) =>
                    run \in DOMAIN dirs' /\ dirs'[run] = dirs[run]
    PROVE  Inv'
<1>1. Types /\ RowsBacked /\ ToldBacked /\ Unpaid /\ OnePayer BY DEF Inv
<1>2. rec \in [Operations -> Records] /\ work \in [Operations -> Workers]
    BY <1>1 DEF Types
<1>3. /\ NoRecord \in Records /\ NoRecord.status = "NONE"
      /\ NoWorker \in Workers /\ NoWorker.step = "none"
    BY DEF NoRecord, Record, Records, NoWorker, Worker, Workers, Steps, Carries
<1>4. ASSUME NEW c \in Coordinators, NEW k \in Keys
      PROVE  /\ c \in C => rec'[<<c, k>>] = NoRecord /\ work'[<<c, k>>] = NoWorker
             /\ c \notin C => /\ rec'[<<c, k>>] = rec[<<c, k>>]
                              /\ work'[<<c, k>>] = work[<<c, k>>]
    BY DEF Forget, Operations
<1>5. Types' BY <1>1, <1>2, <1>3 DEF Types, Forget
<1>6. RowsBacked' /\ ToldBacked' BY <1>1 DEF RowsBacked, ToldBacked, Forget
<1>7. Unpaid' BY <1>1 DEF Unpaid, Forget
<1>8. OnePayer' BY <1>1, <1>3, <1>4 DEF OnePayer, At
<1>9. ASSUME NEW c \in Coordinators, NEW k \in Keys
      PROVE  Bound(c, k)' /\ Shown(c, k)'
  <2>1. CASE c \in C BY <1>3, <1>4, <2>1 DEF Bound, Shown, Holding
  <2>2. CASE c \notin C
    <3>1. Bound(c, k) /\ Shown(c, k) BY DEF Inv
    <3>2. \A run \in DOMAIN dirs : run \in DOMAIN dirs' BY <2>2
    <3>3. UNCHANGED <<ledger, rooted, paid, rec[<<c, k>>], work[<<c, k>>]>>
        BY <1>4, <2>2 DEF Forget
    <3>4. Bound(c, k)' BY <3>1, <3>2, <3>3 DEF Bound
    <3>5. Shown(c, k)' BY <1>1, <1>4, <2>2, <3>1 DEF Shown, RowsBacked
    <3> QED BY <3>4, <3>5
  <2> QED BY <2>1, <2>2
<1> QED BY <1>5, <1>6, <1>7, <1>8, <1>9 DEF Inv

\* Every step keeps the invariant.
LEMMA InvNext == Inv /\ [Next]_vars => Inv'
<1> SUFFICES ASSUME Inv, [Next]_vars PROVE Inv'
    OBVIOUS
<1>1. IsDict(dirs, Nat, Carries) BY DEF Inv, Types
<1>2. ASSUME NEW c \in Coordinators, NEW k \in Keys, NEW i \in Inputs,
             Start(c, k, i)
      PROVE  Inv'
    BY <1>2, StartInv
<1>3. ASSUME NEW c \in Coordinators, NEW k \in Keys, Run(c, k) PROVE Inv'
    BY <1>3, RunInv
<1>4. ASSUME NEW c \in Coordinators, Kill(c) PROVE Inv'
    BY <1>1, <1>4, ForgetInv DEF Kill, durable
<1>5. CASE Crash
  <2>1. PICK lost \in SUBSET (DOMAIN dirs \ rooted) :
            dirs' = [run \in DOMAIN dirs \ lost |-> dirs[run]]
    BY <1>5 DEF Crash
  <2>2. IsDict(dirs', Nat, Carries) BY <1>1, <2>1 DEF IsDict
  <2>3. \A run \in DOMAIN dirs : run \in rooted =>
            run \in DOMAIN dirs' /\ dirs'[run] = dirs[run]
    BY <2>1
  <2> QED BY <1>5, <2>2, <2>3, ForgetInv DEF Crash
<1>6. CASE UNCHANGED <<durable, rec, work, paid, told>>
  <2>1. UNCHANGED Types BY <1>6 DEF Types, durable
  <2> QED
    BY <1>6, <2>1
    DEF Inv, RowsBacked, Bound, Shown, ToldBacked, Unpaid, OnePayer, At, durable
<1>7. ASSUME NEW c \in Coordinators, RefreshBegin(c) \/ RefreshEnd(c)
      PROVE  UNCHANGED <<durable, rec, work, paid, told>>
    BY <1>7 DEF RefreshBegin, RefreshEnd
<1> QED BY <1>2, <1>3, <1>4, <1>5, <1>6, <1>7 DEF Next, vars, durable

\* The invariant holds in every reachable state.
THEOREM Invariant == Spec => []Inv
BY InvInit, InvNext, PTL DEF Spec

\* Whatever is retried and whatever stops, network work begins at most once for
\* a key (run_performance_proof, reserve).
THEOREM PaysOnce == Spec => []PaidOnce
<1>1. Inv => PaidOnce BY DEF Inv, Unpaid, PaidOnce
<1> QED BY <1>1, Invariant, PTL

\* A row is completed only over a synced directory, and every completed result
\* shown is the one in it (persist_performance_artifacts, mark_terminal).
THEOREM CompletedStaysBacked == Spec => []CompletedIsBacked
<1>1. Inv => CompletedIsBacked
    BY DEF Inv, RowsBacked, Shown, CompletedIsBacked
<1> QED BY <1>1, Invariant, PTL

\* All completed reports of a key agree, across restarts and coordinators
\* (_replay_operation, _replay_completed).
THEOREM AnswersAgree == Spec => []OneAnswer
<1>1. ASSUME Inv PROVE OneAnswer
  <2> SUFFICES ASSUME NEW a \in told, NEW b \in told, a.key = b.key PROVE a = b
    BY DEF OneAnswer
  <2>1. a \in Reports /\ b \in Reports BY <1>1 DEF Inv, Types
  <2>2. a.input = b.input /\ a.verdict = b.verdict BY <1>1 DEF Inv, ToldBacked
  <2> QED BY <2>1, <2>2 DEF Reports
<1> QED BY <1>1, Invariant, PTL

-----------------------------------------------------------------------------
(***************************************************************************)
(* One flight per coordinator.  With the types of the two flags OneFlight  *)
(* is inductive.                                                           *)
(***************************************************************************)

Flags ==
    /\ active \in [Coordinators -> Keys \cup {None}]
    /\ refreshing \in [Coordinators -> BOOLEAN]

Flights == Flags /\ OneFlight

\* At the start nobody is in flight.
LEMMA FlightsInit == Init => Flights
<1> SUFFICES ASSUME Init PROVE Flights
    OBVIOUS
<1>1. Flags BY DEF Init, Flags
<1>2. OneFlight
    BY PerformanceAssumption DEF Init, OneFlight, Operations
<1> QED BY <1>1, <1>2 DEF Flights

\* A worker of c that goes on stays the one flight of c.
LEMMA FlightGoesOn ==
    ASSUME Types, Flights, NEW c \in Coordinators, NEW k \in Keys, NEW w,
           work[<<c, k>>].step # "none", w.step # "none",
           work' = [work EXCEPT ![<<c, k>>] = w], UNCHANGED <<active, refreshing>>
    PROVE  Flights'
<1>1. work \in [Operations -> Workers] /\ <<c, k>> \in Operations
    BY DEF Types, Operations
<1>2. work[<<c, k>>] # NoWorker /\ w # NoWorker BY DEF NoWorker, Worker
<1>3. \A d \in Coordinators, j \in Keys :
        work'[<<d, j>>] # NoWorker <=> work[<<d, j>>] # NoWorker
    BY <1>1, <1>2 DEF Operations
<1> QED BY <1>3 DEF Flights, Flags, OneFlight

\* A worker of c that ends leaves c without a flight.
LEMMA FlightEndsHere ==
    ASSUME Types, Flights, NEW c \in Coordinators, NEW k \in Keys,
           NEW status, NEW verdict,
           work[<<c, k>>].step # "none", Store(c, k, status, verdict)
    PROVE  Flights'
<1>1. work \in [Operations -> Workers] /\ <<c, k>> \in Operations
    BY DEF Types, Operations
<1>2. active[c] = k BY DEF Flights, OneFlight, NoWorker, Worker
<1>3. /\ active' = [active EXCEPT ![c] = None]
      /\ work' = [work EXCEPT ![<<c, k>>] = NoWorker]
      /\ UNCHANGED refreshing
    BY <1>2 DEF Store
<1>4. Flags' BY <1>3 DEF Flights, Flags
<1>5. ASSUME NEW d \in Coordinators
      PROVE  /\ \A j \in Keys : work'[<<d, j>>] # NoWorker <=> active'[d] = j
             /\ refreshing'[d] => active'[d] = None
  <2>1. CASE d = c
    <3>1. \A j \in Keys : work'[<<c, j>>] = NoWorker
        BY <1>1, <1>2, <1>3 DEF Flights, OneFlight, Operations
    <3>2. active'[c] = None BY <1>3 DEF Flights, Flags
    <3> QED BY <2>1, <3>1, <3>2, PerformanceAssumption
  <2>2. CASE d # c
    <3>1. /\ active'[d] = active[d] /\ refreshing'[d] = refreshing[d]
          /\ \A j \in Keys : work'[<<d, j>>] = work[<<d, j>>]
        BY <1>1, <1>3, <2>2 DEF Flights, Flags, Operations
    <3> QED BY <3>1 DEF Flights, OneFlight
  <2> QED BY <2>1, <2>2
<1> QED BY <1>4, <1>5 DEF Flights, OneFlight

\* Every step of a worker keeps one flight.
LEMMA RunFlights ==
    ASSUME Types, Flights, NEW c \in Coordinators, NEW k \in Keys, Run(c, k)
    PROVE  Flights'
<1> DEFINE o == <<c, k>>
<1>0. o \in Operations /\ work \in [Operations -> Workers] BY DEF Types, Operations
<1>1. ASSUME NEW step, NEW run, NEW carry, work[o].step # "none", step # "none",
             work' = [work EXCEPT ![o] = Worker(step, run, carry)],
             UNCHANGED <<active, refreshing>>
      PROVE  Flights'
  <2>1. Worker(step, run, carry).step # "none" BY <1>1 DEF Worker
  <2> QED BY <1>1, <2>1, FlightGoesOn
<1>2. ASSUME NEW step, NEW carry, work[o].step # "none", step # "none",
             Goto(c, k, step, carry), UNCHANGED <<active, refreshing>>
      PROVE  Flights'
  <2>1. work' = [work EXCEPT ![o] = Worker(step, work[o].run, carry)]
    BY <1>0, <1>2 DEF Goto
  <2> QED BY <1>1, <1>2, <2>1
<1>3. ASSUME NEW status, work[o].step # "none", StoreReason(c, k, status)
      PROVE  Flights'
    BY <1>3, FlightEndsHere DEF StoreReason
<1>10. CASE ExecuteBegin(c, k) BY <1>1, <1>10 DEF ExecuteBegin
<1>11. CASE Reserve(c, k) BY <1>1, <1>11 DEF Reserve, At
<1>12. CASE Replay(c, k)
  <2>1. CASE ledger[k].status = "COMPLETED"
    BY <1>1, <1>12, <2>1 DEF Replay, At
  <2>2. CASE ledger[k].status # "COMPLETED"
    BY <1>3, <1>12, <2>2 DEF Replay, At
  <2> QED BY <2>1, <2>2
<1>13. CASE LaunchFails(c, k) \/ ReserveRaises(c, k)
    BY <1>3, <1>13 DEF LaunchFails, FirstStep, ReserveRaises, At
<1>14. CASE Preflight(c, k) BY <1>2, <1>14 DEF Preflight, At
<1>15. CASE Mark(c, k) BY <1>3, <1>15 DEF Mark, At
<1>16. ASSUME NEW v \in Verdicts, Probe(c, k, v) PROVE Flights'
    BY <1>2, <1>16 DEF Probe, At
<1>17. CASE Publish(c, k) BY <1>2, <1>17 DEF Publish, At
<1>18. CASE Sync(c, k) BY <1>2, <1>18 DEF Sync, At
<1>19. CASE Complete(c, k) BY <1>2, <1>19 DEF Complete, At
<1>20. CASE Verify(c, k) BY <1>20, FlightEndsHere DEF Verify, At
<1>21. CASE Raise(c, k) BY <1>2, <1>21 DEF Raise, At
<1>22. CASE Fail(c, k) BY <1>3, <1>22 DEF Fail, At
<1> QED
    BY <1>10, <1>11, <1>12, <1>13, <1>14, <1>15, <1>16, <1>17, <1>18, <1>19,
       <1>20, <1>21, <1>22 DEF Run

\* Starting an operation takes the one flight of a free coordinator.
LEMMA StartFlights ==
    ASSUME Types, Flights, NEW c \in Coordinators, NEW k \in Keys, NEW i \in Inputs,
           Start(c, k, i)
    PROVE  Flights'
<1> DEFINE o == <<c, k>>
<1>1. o \in Operations /\ work \in [Operations -> Workers] BY DEF Types, Operations
<1>2. active[c] = None /\ ~refreshing[c] BY DEF Start, Free
<1>3. PICK w : work' = [work EXCEPT ![o] = w] /\ w.step # "none"
  <2> DEFINE new(step) == Worker(step, 0, None)
  <2>1. \E step \in {"begin", "reserve"} : work' = [work EXCEPT ![o] = new(step)]
    BY DEF Start, FirstStep
  <2>2. \A step \in {"begin", "reserve"} : new(step).step # "none" BY DEF Worker
  <2> HIDE DEF new
  <2> QED BY <2>1, <2>2
<1>4. w # NoWorker BY <1>3 DEF NoWorker, Worker
<1>5. active' = [active EXCEPT ![c] = k] /\ UNCHANGED refreshing BY DEF Start
<1>6. Flags' BY <1>5 DEF Flights, Flags
<1>7. ASSUME NEW d \in Coordinators
      PROVE  /\ \A j \in Keys : work'[<<d, j>>] # NoWorker <=> active'[d] = j
             /\ refreshing'[d] => active'[d] = None
  <2>1. CASE d = c
    <3>1. active'[c] = k /\ ~refreshing'[c] BY <1>2, <1>5 DEF Flights, Flags
    <3>2. \A j \in Keys : work'[<<c, j>>] # NoWorker <=> j = k
        BY <1>1, <1>2, <1>3, <1>4, PerformanceAssumption
        DEF Flights, OneFlight, Operations
    <3> QED BY <2>1, <3>1, <3>2
  <2>2. CASE d # c
    <3>1. /\ active'[d] = active[d] /\ refreshing'[d] = refreshing[d]
          /\ \A j \in Keys : work'[<<d, j>>] = work[<<d, j>>]
        BY <1>1, <1>3, <1>5, <2>2 DEF Flights, Flags, Operations
    <3> QED BY <3>1 DEF Flights, OneFlight
  <2> QED BY <2>1, <2>2
<1> QED BY <1>6, <1>7 DEF Flights, OneFlight

\* Every step keeps one flight per coordinator.
LEMMA FlightsNext == Types /\ Flights /\ [Next]_vars => Flights'
<1> SUFFICES ASSUME Types, Flights, [Next]_vars PROVE Flights'
    OBVIOUS
<1>1. ASSUME NEW c \in Coordinators, NEW k \in Keys, NEW i \in Inputs, Start(c, k, i)
      PROVE  Flights'
    BY <1>1, StartFlights
<1>2. ASSUME NEW c \in Coordinators, NEW k \in Keys, Run(c, k) PROVE Flights'
    BY <1>2, RunFlights
<1>3. CASE UNCHANGED <<active, refreshing, work>>
    BY <1>3 DEF Flights, Flags, OneFlight
<1>4. ASSUME NEW c \in Coordinators, RefreshBegin(c) \/ RefreshEnd(c) PROVE Flights'
  <2>1. UNCHANGED <<active, work>> BY <1>4 DEF RefreshBegin, RefreshEnd
  <2>2. Flags' BY <1>4 DEF RefreshBegin, RefreshEnd, Flights, Flags
  <2>3. \A d \in Coordinators : refreshing'[d] => refreshing[d] \/ active[d] = None
    BY <1>4 DEF RefreshBegin, RefreshEnd, Flights, Flags
  <2> QED BY <2>1, <2>2, <2>3 DEF Flights, OneFlight
<1>5. ASSUME NEW C, Forget(C) PROVE Flights'
  <2>1. Flags' BY <1>5 DEF Forget, Flights, Flags
  <2>2. ASSUME NEW d \in Coordinators
        PROVE  /\ \A j \in Keys : work'[<<d, j>>] # NoWorker <=> active'[d] = j
               /\ refreshing'[d] => active'[d] = None
    <3>1. CASE d \in C
        BY <1>5, <3>1, PerformanceAssumption DEF Forget, Operations
    <3>2. CASE d \notin C
        BY <1>5, <3>2 DEF Forget, Operations, Flights, OneFlight
    <3> QED BY <3>1, <3>2
  <2> QED BY <2>1, <2>2 DEF Flights, OneFlight
<1> QED
    BY <1>1, <1>2, <1>3, <1>4, <1>5
    DEF Next, vars, Kill, Crash

\* A coordinator never has two workers, or a worker and a readiness check
\* (start, refresh_readiness).
THEOREM OneFlightAtATime == Spec => []OneFlight
<1>1. Inv => Types BY DEF Inv
<1>2. Flights => OneFlight BY DEF Flights
<1>3. Init /\ [][Next]_vars /\ []Inv => []Flights
    BY FlightsInit, FlightsNext, <1>1, PTL
<1> QED BY <1>2, <1>3, Invariant, PTL DEF Spec

-----------------------------------------------------------------------------
(***************************************************************************)
(* ProviderEgress.                                                         *)
(***************************************************************************)

EgressCalls ==
    {AtRest}
    \cup [step : {"issue"}, issued : Nat]
    \cup [step : {"authorize"}, ack : Acks, body : Bodies, checked : Nat]
    \cup [step : {"send"}, ack : Acks, attempt : 1..MaxAttempts]

EgressTypeOK ==
    /\ now \in Nat
    /\ consumed \subseteq Acks
    /\ taken \subseteq permits
    /\ sends \in [Acks -> Nat]
    /\ egress \in [EgressThreads -> EgressCalls]

\* A consumed acknowledgement has one permit at most.
OnePermit ==
    /\ \A p \in permits : p.ack \in consumed
    /\ \A p, q \in permits : p.ack = q.ack => p = q

\* An execution holds the permit it has taken, alone, and has sent less than the
\* attempt it is at.
OneExecution ==
    /\ \A t \in EgressThreads : EgressAt(t, "send") =>
        /\ \E p \in taken : p.ack = egress[t].ack
        /\ sends[egress[t].ack] < egress[t].attempt
    /\ \A t, u \in EgressThreads :
        EgressAt(t, "send") /\ EgressAt(u, "send") /\ egress[t].ack = egress[u].ack => t = u

\* Nothing is sent before the permit is taken.
SentIsTaken == \A a \in Acks : sends[a] # 0 => \E p \in taken : p.ack = a

EgressInv ==
    /\ EgressTypeOK /\ OnePermit /\ OneExecution /\ SentIsTaken
    /\ OneExecutionPerAcknowledgement

\* What the steps of a thread are made of.
LEMMA EgressCallTypes ==
    ASSUME EgressTypeOK, NEW t \in EgressThreads
    PROVE  /\ EgressAt(t, "issue") => egress[t] \in [step : {"issue"}, issued : Nat]
           /\ EgressAt(t, "authorize") =>
                egress[t] \in [step : {"authorize"}, ack : Acks, body : Bodies, checked : Nat]
           /\ EgressAt(t, "send") =>
                egress[t] \in [step : {"send"}, ack : Acks, attempt : 1..MaxAttempts]
BY DEF EgressTypeOK, EgressCalls, EgressAt, AtRest

\* A thread that is not sending moves to a step that is not sending.
LEMMA QuietCall ==
    ASSUME EgressInv, NEW t \in EgressThreads, NEW c \in EgressCalls, c.step # "send",
           ~EgressAt(t, "send") \/ sends' = sends,
           Step(t, c), now' = now, taken' = taken, permits \subseteq permits',
           sends' = sends, consumed' \subseteq Acks, OnePermit'
    PROVE  EgressInv'
<1>1. /\ egress' \in [EgressThreads -> EgressCalls] /\ egress'[t] = c
      /\ \A u \in EgressThreads : u # t => egress'[u] = egress[u]
    BY DEF EgressInv, EgressTypeOK, Step
<1>2. EgressTypeOK' BY <1>1 DEF EgressInv, EgressTypeOK
<1>3. OneExecution' BY <1>1 DEF EgressInv, OneExecution, EgressAt
<1>4. SentIsTaken' /\ OneExecutionPerAcknowledgement'
    BY DEF EgressInv, SentIsTaken, OneExecutionPerAcknowledgement
<1> QED BY <1>2, <1>3, <1>4 DEF EgressInv

\* issue and authorize read the clock; an acknowledgement is stored.
LEMMA ReadStep ==
    ASSUME EgressInv, NEW t \in EgressThreads,
           \/ \E b \in Bodies : IssueRead(t, b)
           \/ \E a \in Acks : IssueStore(t, a)
           \/ \E a \in Acks, b \in Bodies : AuthorizeRead(t, a, b)
    PROVE  EgressInv'
<1>1. PICK c \in EgressCalls : c.step # "send" /\ Step(t, c)
    BY DEF EgressInv, EgressTypeOK, IssueRead, IssueStore, AuthorizeRead, EgressCalls, AtRest
<1>2. UNCHANGED <<now, consumed, permits, taken, sends>>
    BY DEF IssueRead, IssueStore, AuthorizeRead
<1>3. OnePermit' BY <1>2 DEF EgressInv, OnePermit
<1>4. consumed' \subseteq Acks BY <1>2 DEF EgressInv, EgressTypeOK
<1> QED BY <1>1, <1>2, <1>3, <1>4, QuietCall

\* authorize consumes an acknowledgement once, and hands out one permit for it.
LEMMA ConsumeStep ==
    ASSUME EgressInv, NEW t \in EgressThreads, Consume(t)
    PROVE  EgressInv'
<1>1. EgressAt(t, "authorize") /\ Step(t, AtRest) /\ UNCHANGED <<now, acks, taken, sends>>
    BY DEF Consume
<1>2. egress[t].ack \in Acks BY <1>1, EgressCallTypes DEF EgressInv
<1>3. AtRest \in EgressCalls /\ AtRest.step # "send" BY DEF EgressCalls, AtRest
<1>4. permits \subseteq permits' /\ consumed' \subseteq Acks
    BY <1>2 DEF Consume, EgressInv, EgressTypeOK
<1>5. OnePermit' BY DEF EgressInv, OnePermit, Consume
<1> QED BY <1>1, <1>3, <1>4, <1>5, QuietCall

\* A permit is gone once it is taken: nothing was sent for its acknowledgement
\* before, and nobody else sends for it.
LEMMA TakeStep ==
    ASSUME EgressInv, NEW t \in EgressThreads, NEW p \in permits, Take(t, p)
    PROVE  EgressInv'
<1>1. /\ EgressAt(t, "idle") /\ p \notin taken /\ taken' = taken \cup {p}
      /\ UNCHANGED <<now, acks, consumed, permits, sends>>
    BY DEF Take
<1>2. p.ack \in Acks /\ \A q \in taken : q.ack # p.ack
    BY <1>1 DEF EgressInv, EgressTypeOK, OnePermit
<1>3. sends[p.ack] = 0 /\ \A u \in EgressThreads : EgressAt(u, "send") => egress[u].ack # p.ack
    BY <1>2 DEF EgressInv, SentIsTaken, OneExecution
<1>4. PICK c \in EgressCalls :
        /\ Step(t, c)
        /\ c = AtRest \/ c = [step |-> "send", ack |-> p.ack, attempt |-> 1]
    BY <1>2, EgressAssumption DEF Take, EgressCalls
<1>5. /\ egress' \in [EgressThreads -> EgressCalls] /\ egress'[t] = c
      /\ \A u \in EgressThreads : u # t => egress'[u] = egress[u]
    BY <1>4 DEF EgressInv, EgressTypeOK, Step
<1>6. EgressTypeOK' BY <1>1, <1>5 DEF EgressInv, EgressTypeOK
<1>7. OneExecution'
    BY <1>1, <1>3, <1>4, <1>5 DEF EgressInv, OneExecution, EgressAt, AtRest
<1>8. OnePermit' BY <1>1 DEF EgressInv, OnePermit
<1>9. SentIsTaken' /\ OneExecutionPerAcknowledgement'
    BY <1>1 DEF EgressInv, SentIsTaken, OneExecutionPerAcknowledgement
<1> QED BY <1>6, <1>7, <1>8, <1>9 DEF EgressInv

\* A request leaves: the execution is at a later attempt, or at its end.
LEMMA SendStep ==
    ASSUME EgressInv, NEW t \in EgressThreads, Send(t)
    PROVE  EgressInv'
<1>1. EgressAt(t, "send") /\ UNCHANGED <<now, acks, consumed, permits, taken>> BY DEF Send
<1>2. egress[t] \in [step : {"send"}, ack : Acks, attempt : 1..MaxAttempts]
    BY <1>1, EgressCallTypes DEF EgressInv
<1>3. PICK a \in Acks : a = egress[t].ack BY <1>2
<1>4. PICK n \in 1..MaxAttempts : n = egress[t].attempt BY <1>2
<1>5. sends' = [sends EXCEPT ![a] = @ + 1] BY <1>3 DEF Send
<1>6. sends \in [Acks -> Nat] /\ sends[a] < n /\ \E p \in taken : p.ack = a
    BY <1>1, <1>3, <1>4 DEF EgressInv, EgressTypeOK, OneExecution
<1>7. /\ sends' \in [Acks -> Nat] /\ sends'[a] = sends[a] + 1 /\ sends'[a] <= MaxAttempts
      /\ \A b \in Acks : b # a => sends'[b] = sends[b]
    BY <1>4, <1>5, <1>6, EgressAssumption
<1>8. PICK c \in EgressCalls :
        /\ Step(t, c)
        /\ c = AtRest \/ (c.step = "send" /\ c.ack = a /\ c.attempt = n + 1)
    <2>1. CASE Step(t, AtRest) BY <2>1 DEF EgressCalls
    <2>2. CASE n < MaxAttempts /\ Step(t, [egress[t] EXCEPT !.attempt = @ + 1])
        <3> DEFINE c == [egress[t] EXCEPT !.attempt = @ + 1]
        <3>1. c = [step |-> "send", ack |-> a, attempt |-> n + 1] BY <1>2, <1>3, <1>4
        <3>2. n + 1 \in 1..MaxAttempts BY <1>4, <2>2, EgressAssumption
        <3>3. c \in EgressCalls BY <3>1, <3>2 DEF EgressCalls
        <3> QED BY <2>2, <3>1, <3>3
    <2> QED BY <1>4, <2>1, <2>2 DEF Send
<1>9. /\ egress' \in [EgressThreads -> EgressCalls] /\ egress'[t] = c
      /\ \A u \in EgressThreads : u # t => egress'[u] = egress[u]
    BY <1>8 DEF EgressInv, EgressTypeOK, Step
<1>10. EgressTypeOK' BY <1>1, <1>7, <1>9 DEF EgressInv, EgressTypeOK
<1>11. OnePermit' BY <1>1 DEF EgressInv, OnePermit
<1>12. \A u \in EgressThreads : u # t /\ EgressAt(u, "send") => egress[u].ack # a
    BY <1>1, <1>3 DEF EgressInv, OneExecution
<1>13. \A u \in EgressThreads : EgressAt(u, "send") => egress[u].ack \in Acks
    BY EgressCallTypes DEF EgressInv
<1>14. OneExecution'
    <2>1. ASSUME NEW u \in EgressThreads, EgressAt(u, "send")'
          PROVE  /\ \E p \in taken' : p.ack = egress'[u].ack
                 /\ sends'[egress'[u].ack] < egress'[u].attempt
        <3>1. CASE u = t
            <4>1. c.step = "send" /\ c.ack = a /\ c.attempt = n + 1
                BY <1>8, <1>9, <2>1, <3>1 DEF EgressAt, AtRest
            <4> QED BY <1>1, <1>4, <1>6, <1>7, <1>9, <3>1, <4>1
        <3>2. CASE u # t
            <4>1. EgressAt(u, "send") /\ egress'[u] = egress[u]
                BY <1>9, <2>1, <3>2 DEF EgressAt
            <4>2. egress[u].ack \in Acks /\ egress[u].ack # a BY <1>12, <1>13, <3>2, <4>1
            <4> QED BY <1>1, <1>7, <4>1, <4>2 DEF EgressInv, OneExecution
        <3> QED BY <3>1, <3>2
    <2>2. ASSUME NEW u \in EgressThreads, NEW v \in EgressThreads,
                 EgressAt(u, "send")', EgressAt(v, "send")', egress'[u].ack = egress'[v].ack
          PROVE  u = v
        BY <1>8, <1>9, <1>12, <2>2 DEF EgressInv, OneExecution, EgressAt, AtRest
    <2> QED BY <2>1, <2>2 DEF OneExecution
<1>15. SentIsTaken' BY <1>1, <1>6, <1>7 DEF EgressInv, SentIsTaken
<1>16. OneExecutionPerAcknowledgement'
    BY <1>7 DEF EgressInv, OneExecutionPerAcknowledgement
<1> QED BY <1>10, <1>11, <1>14, <1>15, <1>16 DEF EgressInv

\* The clock may only move within its bound.
LEMMA ClockType == ASSUME ClockStep PROVE now' \in Nat
BY ClockAssumption DEF ClockStep

LEMMA EgressKeeps == EgressInv /\ [EgressNext]_<<now, egressVars>> => EgressInv'
<1> SUFFICES ASSUME EgressInv, [EgressNext]_<<now, egressVars>> PROVE EgressInv' OBVIOUS
<1>1. ASSUME UNCHANGED egressVars, now' \in Nat PROVE EgressInv'
    BY <1>1 DEF egressVars, EgressInv, EgressTypeOK, OnePermit, OneExecution, SentIsTaken,
                OneExecutionPerAcknowledgement, EgressAt
<1>2. CASE UNCHANGED <<now, egressVars>>
    BY <1>1, <1>2 DEF EgressInv, EgressTypeOK
<1> QED BY <1>1, <1>2, ReadStep, ConsumeStep, TakeStep, SendStep, ClockType DEF EgressNext

LEMMA EgressStarts == ClockInit /\ EgressInit => EgressInv
BY EgressAssumption
DEF ClockInit, EgressInit, EgressInv, EgressTypeOK, OnePermit, OneExecution, SentIsTaken,
    OneExecutionPerAcknowledgement, EgressAt, EgressCalls, AtRest

\* A thread starts to send only by taking a permit in its window.
LEMMA ReleaseInWindow ==
    ASSUME EgressInv, [EgressNext]_<<now, egressVars>>, NEW t \in EgressThreads,
           ~EgressAt(t, "send"), egress'[t].step = "send"
    PROVE  InWindow(egress'[t].ack, now)
<1>1. egress' # egress BY DEF EgressAt
<1>2. EgressNext BY <1>1 DEF egressVars
<1>3. PICK u \in EgressThreads :
        \/ \E b \in Bodies : IssueRead(u, b)
        \/ \E a \in Acks : IssueStore(u, a)
        \/ \E a \in Acks, b \in Bodies : AuthorizeRead(u, a, b)
        \/ Consume(u)
        \/ \E p \in permits : Take(u, p)
        \/ Send(u)
    BY <1>1, <1>2 DEF EgressNext, egressVars
<1>4. egress \in [EgressThreads -> EgressCalls] BY DEF EgressInv, EgressTypeOK
<1>5. \E c : Step(u, c)
    BY <1>3 DEF IssueRead, IssueStore, AuthorizeRead, Consume, Take, Send
<1>6. u = t BY <1>4, <1>5 DEF Step, EgressAt
<1>7. \A c : Step(t, c) => egress'[t] = c BY <1>4 DEF Step
<1>8. \A c : Step(t, c) => c.step = "send" BY <1>7
<1>9. PICK p \in permits : Take(t, p)
    <2>1. ASSUME NEW b, IssueRead(t, b) PROVE FALSE
        <3>1. Step(t, [step |-> "issue", issued |-> now]) BY <2>1 DEF IssueRead
        <3>2. [step |-> "issue", issued |-> now].step = "send" BY <1>8, <3>1
        <3> QED BY <3>2
    <2>2. ~\E a \in Acks : IssueStore(t, a) BY <1>8 DEF IssueStore, AtRest
    <2>3. ASSUME NEW a, NEW b, AuthorizeRead(t, a, b) PROVE FALSE
        <3> DEFINE c == [step |-> "authorize", ack |-> a, body |-> b, checked |-> now]
        <3>1. Step(t, c) BY <2>3 DEF AuthorizeRead
        <3>2. c.step = "send" BY <1>8, <3>1
        <3> QED BY <3>2
    <2>4. ~Consume(t) BY <1>8 DEF Consume, AtRest
    <2>5. ~Send(t) BY DEF Send
    <2> QED BY <1>3, <1>6, <2>1, <2>2, <2>3, <2>4, <2>5
<1> QED BY <1>7, <1>8, <1>9 DEF Take, AtRest

-----------------------------------------------------------------------------
(***************************************************************************)
(* SpeechCapture.                                                          *)
(***************************************************************************)

Sessions ==
    [state : {"CONSENTED", "PROCESSING", "COMPLETE", "FAILED"}, clip : Clips \cup {NoClip},
     attested : Nat, expires : Nat]

SpeechCalls ==
    {Listening}
    \cup [step : {"claim", "issue"}, key : ConsentKeys, clip : Clips]
    \cup [step : {"authorize", "failed"}, key : ConsentKeys, clip : Clips, requested : Nat]
    \cup [step : {"take", "transcribe", "failed"}, key : ConsentKeys, clip : Clips,
          authorized : Nat, expires : Nat]
    \cup [step : {"handoff", "done", "failed"}, key : ConsentKeys, clip : Clips,
          completed : Nat]

SpeechTypeOK ==
    /\ now \in Nat
    /\ IsDict(speech, ConsentKeys, Sessions)
    /\ capture \in [SpeechThreads -> SpeechCalls]
    /\ heard \in [ConsentKeys -> Nat]

\* A capture that has claimed its consent, before its clip leaves, and before
\* its transcript is attached.
Unheard == {"issue", "authorize", "take"}
Unspoken == Unheard \cup {"transcribe", "handoff"}
Busy == Unspoken \cup {"done", "failed"}

\* A consent is taken by one clip and one capture.
Claimed(k) == k \in DOMAIN speech /\ speech[k].clip # NoClip

OneCapture ==
    /\ \A t \in SpeechThreads : capture[t].step \in Busy =>
        Claimed(capture[t].key) /\ speech[capture[t].key].clip = capture[t].clip
    /\ \A t, u \in SpeechThreads :
        capture[t].step \in Busy /\ capture[u].step \in Busy
            /\ capture[t].key = capture[u].key => t = u

\* What left the machine and what was attached is of the clip that took the
\* consent, and comes after the steps that allow it.
HeardOnce ==
    /\ \A k \in ConsentKeys : heard[k] <= 1 /\ (~Claimed(k) => heard[k] = 0)
    /\ \A t \in SpeechThreads : capture[t].step \in Unheard => heard[capture[t].key] = 0

SpokenOnce ==
    /\ \A s \in spoken : Claimed(s[1]) /\ s = <<s[1], speech[s[1]].clip>>
    /\ \A t \in SpeechThreads : capture[t].step \in Unspoken =>
        \A s \in spoken : s[1] # capture[t].key

SpeechInv == SpeechTypeOK /\ OneCapture /\ HeardOnce /\ SpokenOnce

\* What the steps of a capture are made of.
LEMMA SpeechCallTypes ==
    ASSUME SpeechTypeOK, NEW t \in SpeechThreads
    PROVE  /\ capture[t].step # "idle" => capture[t].key \in ConsentKeys /\ capture[t].clip \in Clips
           /\ capture[t].step = "claim" =>
                capture[t] \in [step : {"claim"}, key : ConsentKeys, clip : Clips]
           /\ capture[t].step \in {"take", "transcribe"} =>
                capture[t] \in [step : {"take", "transcribe"}, key : ConsentKeys, clip : Clips,
                               authorized : Nat, expires : Nat]
           /\ capture[t].step = "handoff" =>
                capture[t] \in [step : {"handoff"}, key : ConsentKeys, clip : Clips, completed : Nat]
BY DEF SpeechTypeOK, SpeechCalls, Listening

\* The sessions keep the clips that have taken them.
ClipsKept ==
    /\ IsDict(speech', ConsentKeys, Sessions)
    /\ \A k \in ConsentKeys :
        /\ Claimed(k)' <=> Claimed(k)
        /\ Claimed(k) => speech'[k].clip = speech[k].clip

LEMMA SameClips == SpeechInv /\ speech' = speech => ClipsKept
BY DEF SpeechInv, SpeechTypeOK, ClipsKept, Claimed

\* Calls do not run ahead: whoever is at a step now was at or before it.
CallsFollow ==
    /\ capture' \in [SpeechThreads -> SpeechCalls]
    /\ \A t \in SpeechThreads :
        /\ capture'[t].step \in Busy =>
            /\ capture[t].step \in Busy
            /\ capture'[t].key = capture[t].key /\ capture'[t].clip = capture[t].clip
        /\ capture'[t].step \in Unheard => capture[t].step \in Unheard
        /\ capture'[t].step \in Unspoken => capture[t].step \in Unspoken

\* No clip leaves, no transcript is attached, no consent is claimed.
LEMMA QuietSpeech ==
    ASSUME SpeechInv, ClipsKept, CallsFollow, now' \in Nat, heard' = heard, spoken' = spoken
    PROVE  SpeechInv'
<1>1. Unheard \subseteq Unspoken /\ Unspoken \subseteq Busy BY DEF Unspoken, Busy
<1>2. \A k : Claimed(k) => k \in ConsentKeys BY DEF Claimed, SpeechInv, SpeechTypeOK, IsDict
<1>3. \A t \in SpeechThreads : capture[t].step \in Busy => capture[t].key \in ConsentKeys
    BY <1>2 DEF SpeechInv, OneCapture
<1>4. SpeechTypeOK' BY DEF SpeechInv, SpeechTypeOK, ClipsKept, CallsFollow
<1>5. OneCapture'
    BY <1>3 DEF SpeechInv, OneCapture, ClipsKept, CallsFollow
<1>6. HeardOnce'
    BY <1>1, <1>3 DEF SpeechInv, HeardOnce, ClipsKept, CallsFollow
<1>7. SpokenOnce'
    <2>1. \A s \in spoken : Claimed(s[1])' /\ s = <<s[1], speech'[s[1]].clip>>
        BY <1>2 DEF SpeechInv, SpokenOnce, ClipsKept
    <2>2. \A t \in SpeechThreads : capture'[t].step \in Unspoken =>
            \A s \in spoken : s[1] # capture'[t].key
        BY <1>1 DEF SpeechInv, SpokenOnce, CallsFollow
    <2> QED BY <2>1, <2>2 DEF SpokenOnce
<1> QED BY <1>4, <1>5, <1>6, <1>7 DEF SpeechInv

\* One call moves and the others stay.
LEMMA OneCallFollows ==
    ASSUME SpeechInv, NEW t \in SpeechThreads, NEW c \in SpeechCalls, CaptureGoes(t, c),
           c.step \in Busy => capture[t].step \in Busy /\ c.key = capture[t].key
                               /\ c.clip = capture[t].clip,
           c.step \in Unheard => capture[t].step \in Unheard,
           c.step \in Unspoken => capture[t].step \in Unspoken
    PROVE  CallsFollow
<1>1. /\ capture' \in [SpeechThreads -> SpeechCalls] /\ capture'[t] = c
      /\ \A u \in SpeechThreads : u # t => capture'[u] = capture[u]
    BY DEF SpeechInv, SpeechTypeOK, CaptureGoes
<1> QED BY <1>1 DEF CallsFollow

\* A capture that fails keeps its consent until it finishes.
LEMMA FailFollows ==
    ASSUME SpeechInv, NEW t \in SpeechThreads, CaptureFails(t),
           capture[t].step \in {"authorize", "take", "transcribe", "handoff"}
    PROVE  CallsFollow
<1> DEFINE c == [capture[t] EXCEPT !.step = "failed"]
<1>1. /\ c \in SpeechCalls /\ c.step = "failed"
      /\ c.key = capture[t].key /\ c.clip = capture[t].clip
    BY DEF SpeechInv, SpeechTypeOK, SpeechCalls, Listening
<1>2. CaptureGoes(t, c) BY DEF CaptureFails
<1> HIDE DEF c
<1>3. capture[t].step \in Busy BY DEF Busy, Unspoken, Unheard
<1>4. c.step \notin Unheard /\ c.step \notin Unspoken BY <1>1 DEF Unspoken, Unheard
<1> QED BY <1>1, <1>2, <1>3, <1>4, OneCallFollows

LEMMA CheckedStep ==
    ASSUME SpeechInv, NEW t \in SpeechThreads, NEW k \in ConsentKeys, NEW clip \in Clips,
           CaptureChecked(t, k, clip)
    PROVE  SpeechInv'
<1> DEFINE c == [step |-> "claim", key |-> k, clip |-> clip]
<1>1. /\ CaptureGoes(t, c) /\ UNCHANGED <<now, draft, speech, issuedPermits, heard, spoken>>
    BY DEF CaptureChecked
<1>2. c \in SpeechCalls /\ c.step = "claim" BY DEF SpeechCalls
<1> HIDE DEF c
<1>3. CallsFollow BY <1>1, <1>2, OneCallFollows DEF Busy, Unspoken, Unheard
<1> QED BY <1>1, <1>3, SameClips, QuietSpeech DEF SpeechInv, SpeechTypeOK

LEMMA IntendStep == ASSUME SpeechInv, NEW t \in SpeechThreads, Intend(t) PROVE SpeechInv'
<1> DEFINE c == [step |-> "authorize", key |-> capture[t].key, clip |-> capture[t].clip,
                 requested |-> now]
<1>1. /\ capture[t].step = "issue" /\ CaptureGoes(t, c)
      /\ UNCHANGED <<now, draft, speech, issuedPermits, heard, spoken>>
    BY DEF Intend, CaptureAt
<1>2. /\ c \in SpeechCalls /\ c.step = "authorize"
      /\ c.key = capture[t].key /\ c.clip = capture[t].clip
    BY <1>1, SpeechCallTypes DEF SpeechInv, SpeechTypeOK, SpeechCalls
<1> HIDE DEF c
<1>3. CallsFollow BY <1>1, <1>2, OneCallFollows DEF Busy, Unspoken, Unheard
<1> QED BY <1>1, <1>3, SameClips, QuietSpeech DEF SpeechInv, SpeechTypeOK

LEMMA IssuePermitStep == ASSUME SpeechInv, NEW t \in SpeechThreads, IssuePermit(t) PROVE SpeechInv'
<1> DEFINE c == [step |-> "take", key |-> capture[t].key, clip |-> capture[t].clip,
                 authorized |-> now, expires |-> now + PermitTtl]
<1>1. /\ capture[t].step = "authorize"
      /\ UNCHANGED <<now, draft, speech, heard, spoken>>
      /\ CaptureGoes(t, c) \/ CaptureFails(t)
    BY DEF IssuePermit, CaptureAt
<1>2. /\ c \in SpeechCalls /\ c.step = "take"
      /\ c.key = capture[t].key /\ c.clip = capture[t].clip
    BY <1>1, SpeechCallTypes, SpeechAssumption DEF SpeechInv, SpeechTypeOK, SpeechCalls
<1> HIDE DEF c
<1>3. ASSUME CaptureGoes(t, c) PROVE CallsFollow
    BY <1>1, <1>2, <1>3, OneCallFollows DEF Busy, Unspoken, Unheard
<1>4. CallsFollow BY <1>1, <1>3, FailFollows
<1> QED BY <1>1, <1>4, SameClips, QuietSpeech DEF SpeechInv, SpeechTypeOK

LEMMA TranscribeStep == ASSUME SpeechInv, NEW t \in SpeechThreads, Transcribe(t) PROVE SpeechInv'
<1> DEFINE c == [step |-> "handoff", key |-> capture[t].key, clip |-> capture[t].clip,
                 completed |-> now]
<1>1. /\ capture[t].step = "transcribe"
      /\ UNCHANGED <<now, draft, speech, issuedPermits, heard, spoken>>
      /\ CaptureGoes(t, c) \/ CaptureFails(t)
    BY DEF Transcribe, CaptureAt
<1>2. /\ c \in SpeechCalls /\ c.step = "handoff"
      /\ c.key = capture[t].key /\ c.clip = capture[t].clip
    BY <1>1, SpeechCallTypes DEF SpeechInv, SpeechTypeOK, SpeechCalls
<1> HIDE DEF c
<1>3. ASSUME CaptureGoes(t, c) PROVE CallsFollow
    BY <1>1, <1>2, <1>3, OneCallFollows DEF Busy, Unspoken, Unheard
<1>4. CallsFollow BY <1>1, <1>3, FailFollows
<1> QED BY <1>1, <1>4, SameClips, QuietSpeech DEF SpeechInv, SpeechTypeOK

\* The first clip takes the consent: no capture holds it, nothing was heard or
\* attached under it.
LEMMA ClaimStep == ASSUME SpeechInv, NEW t \in SpeechThreads, CaptureClaim(t) PROVE SpeechInv'
<1>1. capture[t].step = "claim" /\ UNCHANGED <<now, draft, issuedPermits, heard, spoken>>
    BY DEF CaptureClaim, CaptureAt
<1>2. PICK c \in [step : {"claim"}, key : ConsentKeys, clip : Clips] : c = capture[t]
    BY <1>1, SpeechCallTypes DEF SpeechInv
<1>3. CASE CaptureGoes(t, Listening) /\ speech' = speech
    <2>1. Listening \in SpeechCalls /\ Listening.step = "idle" BY DEF SpeechCalls, Listening
    <2>2. CallsFollow BY <1>3, <2>1, OneCallFollows DEF Busy, Unspoken, Unheard
    <2> QED BY <1>1, <1>3, <2>2, SameClips, QuietSpeech DEF SpeechInv, SpeechTypeOK
<1>4. CASE /\ c.key \in DOMAIN speech /\ speech[c.key].clip = NoClip
           /\ Update(c.key, "PROCESSING", c.clip)
           /\ CaptureGoes(t, [c EXCEPT !.step = "issue"])
    <2> DEFINE d == [c EXCEPT !.step = "issue"]
               s == [state |-> "PROCESSING", clip |-> c.clip,
                     attested |-> speech[c.key].attested, expires |-> speech[c.key].expires]
    <2>1. d \in SpeechCalls /\ d.step = "issue" /\ d.key = c.key /\ d.clip = c.clip
        BY DEF SpeechCalls
    <2>2. s \in Sessions /\ s.clip = c.clip
        <3>1. speech[c.key] \in Sessions BY <1>4 DEF SpeechInv, SpeechTypeOK, IsDict
        <3> QED BY <3>1 DEF Sessions
    <2>3. speech' = Put(speech, c.key, s) BY <1>4 DEF Update
    <2>4. CaptureGoes(t, d) BY <1>4
    <2> HIDE DEF d, s
    <2>5. /\ capture' \in [SpeechThreads -> SpeechCalls] /\ capture'[t] = d
          /\ \A u \in SpeechThreads : u # t => capture'[u] = capture[u]
        BY <2>1, <2>4 DEF SpeechInv, SpeechTypeOK, CaptureGoes
    <2>6. /\ DOMAIN speech' = DOMAIN speech \cup {c.key} /\ speech'[c.key] = s
          /\ \A k \in DOMAIN speech : k # c.key => speech'[k] = speech[k]
        BY <2>3 DEF Put
    <2>7. IsDict(speech', ConsentKeys, Sessions)
        BY <2>2, <2>3, PutType DEF SpeechInv, SpeechTypeOK
    <2>8. /\ ~Claimed(c.key) /\ Claimed(c.key)'
          /\ \A k : k # c.key => (Claimed(k)' <=> Claimed(k))
        BY <1>4, <2>2, <2>6, SpeechAssumption DEF Claimed
    <2>9. SpeechTypeOK' BY <1>1, <2>5, <2>7 DEF SpeechInv, SpeechTypeOK
    <2>10. \A u \in SpeechThreads : capture[u].step \in Busy => capture[u].key # c.key
        BY <2>8 DEF SpeechInv, OneCapture
    <2>11. heard[c.key] = 0 /\ \A x \in spoken : x[1] # c.key
        BY <2>8 DEF SpeechInv, HeardOnce, SpokenOnce
    <2>12. OneCapture'
        <3>1. ASSUME NEW u \in SpeechThreads, capture'[u].step \in Busy
              PROVE  Claimed(capture[u].key)' /\ speech'[capture'[u].key].clip = capture'[u].clip
            <4>1. CASE u = t BY <2>1, <2>2, <2>5, <2>6, <2>8, <4>1
            <4>2. CASE u # t
                BY <2>5, <2>6, <2>8, <2>10, <3>1, <4>2 DEF SpeechInv, OneCapture, Claimed
            <4> QED BY <4>1, <4>2
        <3>2. ASSUME NEW u \in SpeechThreads, NEW v \in SpeechThreads,
                     capture'[u].step \in Busy, capture'[v].step \in Busy,
                     capture'[u].key = capture'[v].key
              PROVE  u = v
            BY <2>1, <2>5, <2>10, <3>2 DEF SpeechInv, OneCapture
        <3> QED BY <3>1, <3>2 DEF OneCapture
    <2>13. HeardOnce'
        BY <1>1, <2>1, <2>5, <2>8, <2>11 DEF SpeechInv, HeardOnce
    <2>14. SpokenOnce'
        <3>1. \A x \in spoken : Claimed(x[1])' /\ x = <<x[1], speech'[x[1]].clip>>
            BY <2>6, <2>8, <2>11 DEF SpeechInv, SpokenOnce, Claimed
        <3>2. \A u \in SpeechThreads : capture'[u].step \in Unspoken =>
                \A x \in spoken : x[1] # capture'[u].key
            BY <2>1, <2>5, <2>11 DEF SpeechInv, SpokenOnce
        <3> QED BY <1>1, <3>1, <3>2 DEF SpokenOnce
    <2> QED BY <2>9, <2>12, <2>13, <2>14 DEF SpeechInv
<1> QED BY <1>2, <1>3, <1>4 DEF CaptureClaim

\* A clip leaves once: its capture is the only one of its consent.
LEMMA TakeClipStep == ASSUME SpeechInv, NEW t \in SpeechThreads, TakeClip(t) PROVE SpeechInv'
<1>1. capture[t].step = "take" /\ UNCHANGED <<now, draft, speech, issuedPermits, spoken>>
    BY DEF TakeClip, CaptureAt
<1>2. CASE CaptureFails(t) /\ heard' = heard
    <2>1. CallsFollow BY <1>1, <1>2, FailFollows
    <2> QED BY <1>1, <1>2, <2>1, SameClips, QuietSpeech DEF SpeechInv, SpeechTypeOK
<1>3. CASE /\ heard' = [heard EXCEPT ![capture[t].key] = @ + 1]
           /\ CaptureGoes(t, [capture[t] EXCEPT !.step = "transcribe"])
    <2> DEFINE d == [capture[t] EXCEPT !.step = "transcribe"]
    <2>1. PICK k \in ConsentKeys : k = capture[t].key
        BY <1>1, SpeechCallTypes DEF SpeechInv
    <2>2. d \in SpeechCalls /\ d.step = "transcribe" /\ d.key = k /\ d.clip = capture[t].clip
        BY <1>1, <2>1, SpeechCallTypes DEF SpeechInv, SpeechCalls
    <2>3. CaptureGoes(t, d) BY <1>3
    <2> HIDE DEF d
    <2>4. /\ capture' \in [SpeechThreads -> SpeechCalls] /\ capture'[t] = d
          /\ \A u \in SpeechThreads : u # t => capture'[u] = capture[u]
        BY <2>2, <2>3 DEF SpeechInv, SpeechTypeOK, CaptureGoes
    <2>5. capture[t].step \in Unheard /\ capture[t].step \in Unspoken /\ capture[t].step \in Busy
        BY <1>1 DEF Unheard, Unspoken, Busy
    <2>6. heard[k] = 0 /\ heard \in [ConsentKeys -> Nat] /\ Claimed(k)
        BY <2>1, <2>5 DEF SpeechInv, SpeechTypeOK, HeardOnce, OneCapture
    <2>7. /\ heard' \in [ConsentKeys -> Nat] /\ heard'[k] = 1
          /\ \A j \in ConsentKeys : j # k => heard'[j] = heard[j]
        BY <1>3, <2>1, <2>6
    <2>8. \A u \in SpeechThreads : u # t /\ capture[u].step \in Busy => capture[u].key # k
        BY <2>1, <2>5 DEF SpeechInv, OneCapture
    <2>9. d.step \notin Unheard /\ d.step \in Unspoken BY <2>2 DEF Unheard, Unspoken
    <2>10. \A j : Claimed(j)' <=> Claimed(j) BY <1>1 DEF Claimed
    <2>11. SpeechTypeOK' BY <1>1, <2>4, <2>7 DEF SpeechInv, SpeechTypeOK
    <2>12. OneCapture' BY <1>1, <2>1, <2>2, <2>4, <2>5, <2>10 DEF SpeechInv, OneCapture
    <2>13. HeardOnce'
        <3>1. \A j \in ConsentKeys : heard'[j] <= 1 /\ (~Claimed(j)' => heard'[j] = 0)
            BY <2>6, <2>7, <2>10 DEF SpeechInv, HeardOnce
        <3>2. ASSUME NEW u \in SpeechThreads, capture'[u].step \in Unheard
              PROVE  heard'[capture'[u].key] = 0
            <4>1. u # t /\ capture'[u] = capture[u] BY <2>4, <2>9, <3>2
            <4>2. capture[u].step \in Busy BY <3>2, <4>1 DEF Busy, Unspoken
            <4>3. capture[u].key \in ConsentKeys
                BY <4>2 DEF SpeechInv, OneCapture, Claimed, SpeechTypeOK, IsDict
            <4>4. heard[capture[u].key] = 0 BY <3>2, <4>1 DEF SpeechInv, HeardOnce
            <4> QED BY <2>7, <2>8, <4>1, <4>2, <4>3, <4>4
        <3> QED BY <3>1, <3>2 DEF HeardOnce
    <2>14. SpokenOnce'
        BY <1>1, <2>1, <2>2, <2>4, <2>5, <2>10 DEF SpeechInv, SpokenOnce
    <2> QED BY <2>11, <2>12, <2>13, <2>14 DEF SpeechInv
<1> QED BY <1>2, <1>3 DEF TakeClip

\* The transcript is attached once, and is of the clip that took the consent.
LEMMA HandOffStep == ASSUME SpeechInv, NEW t \in SpeechThreads, HandOffTranscript(t) PROVE SpeechInv'
<1>1. /\ capture[t].step = "handoff"
      /\ UNCHANGED <<now, draft, speech, issuedPermits, heard>>
    BY DEF HandOffTranscript, CaptureAt
<1>2. CASE CaptureFails(t) /\ spoken' = spoken
    <2>1. CallsFollow BY <1>1, <1>2, FailFollows
    <2> QED BY <1>1, <1>2, <2>1, SameClips, QuietSpeech DEF SpeechInv, SpeechTypeOK
<1>3. ASSUME NEW step \in {"done", "failed"},
             spoken' = spoken \cup {<<capture[t].key, capture[t].clip>>},
             CaptureGoes(t, [capture[t] EXCEPT !.step = step])
      PROVE  SpeechInv'
    <2> DEFINE d == [capture[t] EXCEPT !.step = step]
    <2>1. PICK k \in ConsentKeys : k = capture[t].key
        BY <1>1, SpeechCallTypes DEF SpeechInv
    <2>2. d \in SpeechCalls /\ d.step = step /\ d.key = k /\ d.clip = capture[t].clip
        BY <1>1, <2>1, SpeechCallTypes DEF SpeechInv, SpeechCalls
    <2>3. CaptureGoes(t, d) BY <1>3
    <2> HIDE DEF d
    <2>4. /\ capture' \in [SpeechThreads -> SpeechCalls] /\ capture'[t] = d
          /\ \A u \in SpeechThreads : u # t => capture'[u] = capture[u]
        BY <2>2, <2>3 DEF SpeechInv, SpeechTypeOK, CaptureGoes
    <2>5. capture[t].step \in Unspoken /\ capture[t].step \in Busy
        BY <1>1 DEF Unheard, Unspoken, Busy
    <2>6. d.step \notin Unheard /\ d.step \notin Unspoken BY <2>2 DEF Unheard, Unspoken
    <2>7. Claimed(k) /\ speech[k].clip = capture[t].clip
        BY <2>1, <2>5 DEF SpeechInv, OneCapture
    <2>8. \A u \in SpeechThreads : u # t /\ capture[u].step \in Busy => capture[u].key # k
        BY <2>1, <2>5 DEF SpeechInv, OneCapture
    <2>9. \A j : Claimed(j)' <=> Claimed(j) BY <1>1 DEF Claimed
    <2>10. SpeechTypeOK' BY <1>1, <2>4 DEF SpeechInv, SpeechTypeOK
    <2>11. OneCapture' BY <1>1, <2>1, <2>2, <2>4, <2>5, <2>9 DEF SpeechInv, OneCapture
    <2>12. HeardOnce' BY <1>1, <2>4, <2>6, <2>9 DEF SpeechInv, HeardOnce
    <2>13. SpokenOnce'
        <3>1. ASSUME NEW x \in spoken' PROVE Claimed(x[1])' /\ x = <<x[1], speech'[x[1]].clip>>
            <4>1. CASE x \in spoken BY <1>1, <2>9, <4>1 DEF SpeechInv, SpokenOnce
            <4>2. CASE x = <<k, capture[t].clip>> BY <1>1, <2>7, <2>9, <4>2
            <4> QED BY <1>3, <2>1, <4>1, <4>2
        <3>2. ASSUME NEW u \in SpeechThreads, capture'[u].step \in Unspoken, NEW x \in spoken'
              PROVE  x[1] # capture'[u].key
            <4>1. u # t /\ capture'[u] = capture[u] BY <2>4, <2>6, <3>2
            <4>2. capture[u].key # k BY <2>8, <3>2, <4>1 DEF Busy
            <4>3. CASE x \in spoken BY <3>2, <4>1, <4>3 DEF SpeechInv, SpokenOnce
            <4>4. CASE x = <<k, capture[t].clip>> BY <4>1, <4>2, <4>4
            <4> QED BY <1>3, <2>1, <4>3, <4>4
        <3> QED BY <3>1, <3>2 DEF SpokenOnce
    <2> QED BY <2>10, <2>11, <2>12, <2>13 DEF SpeechInv
<1> QED BY <1>2, <1>3 DEF HandOffTranscript

\* The end of a capture changes the state of its session, not its clip.
LEMMA FinishStep == ASSUME SpeechInv, NEW t \in SpeechThreads, FinishCapture(t) PROVE SpeechInv'
<1>1. /\ capture[t].step \in {"done", "failed"} /\ CaptureGoes(t, Listening)
      /\ UNCHANGED <<now, draft, issuedPermits, heard, spoken>>
    BY DEF FinishCapture
<1>2. PICK k : k = capture[t].key OBVIOUS
<1>3. Claimed(k) BY <1>1, <1>2 DEF SpeechInv, OneCapture, Busy
<1>4. PICK st \in {"COMPLETE", "FAILED"} : Update(k, st, speech[k].clip)
    BY <1>2 DEF FinishCapture
<1> DEFINE s == [state |-> st, clip |-> speech[k].clip,
                 attested |-> speech[k].attested, expires |-> speech[k].expires]
<1>5. speech' = Put(speech, k, s) BY <1>4 DEF Update
<1>6. s \in Sessions /\ s.clip = speech[k].clip /\ k \in ConsentKeys
    <2>1. speech[k] \in Sessions /\ k \in ConsentKeys
        BY <1>3 DEF Claimed, SpeechInv, SpeechTypeOK, IsDict
    <2> QED BY <2>1 DEF Sessions
<1> HIDE DEF s
<1>7. ClipsKept
    <2>1. IsDict(speech', ConsentKeys, Sessions)
        BY <1>5, <1>6, PutType DEF SpeechInv, SpeechTypeOK
    <2> QED BY <1>3, <1>5, <1>6, <2>1 DEF ClipsKept, Claimed, Put
<1>8. Listening \in SpeechCalls /\ Listening.step = "idle" BY DEF SpeechCalls, Listening
<1>9. CallsFollow BY <1>1, <1>8, OneCallFollows DEF Busy, Unspoken, Unheard
<1> QED BY <1>1, <1>7, <1>9, QuietSpeech DEF SpeechInv, SpeechTypeOK

\* No call moves.
LEMMA CallsStay == SpeechInv /\ capture' = capture => CallsFollow
BY DEF SpeechInv, SpeechTypeOK, CallsFollow

\* A consent is recorded with no clip.
LEMMA ConsentStep == ASSUME SpeechInv, NEW k \in ConsentKeys, RecordConsent(k) PROVE SpeechInv'
<1> DEFINE s == [state |-> "CONSENTED", clip |-> NoClip, attested |-> now, expires |-> now + ConsentTtl]
<1>1. /\ k \notin DOMAIN speech /\ speech' = Put(speech, k, s)
      /\ UNCHANGED <<now, draft, issuedPermits, capture, heard, spoken>>
    BY DEF RecordConsent
<1>2. s \in Sessions /\ s.clip = NoClip
    BY SpeechAssumption DEF Sessions, SpeechInv, SpeechTypeOK
<1> HIDE DEF s
<1>3. IsDict(speech', ConsentKeys, Sessions)
    BY <1>1, <1>2, PutType DEF SpeechInv, SpeechTypeOK
<1>4. ClipsKept BY <1>1, <1>2, <1>3 DEF ClipsKept, Claimed, Put
<1> QED BY <1>1, <1>4, CallsStay, QuietSpeech DEF SpeechInv, SpeechTypeOK

LEMMA SpeechKeeps == SpeechInv /\ [SpeechNext]_<<now, speechVars>> => SpeechInv'
<1> SUFFICES ASSUME SpeechInv, [SpeechNext]_<<now, speechVars>> PROVE SpeechInv' OBVIOUS
<1>1. ASSUME UNCHANGED <<speech, capture, heard, spoken>>, now' \in Nat PROVE SpeechInv'
    BY <1>1, SameClips, CallsStay, QuietSpeech
<1>2. CASE UNCHANGED <<now, speechVars>>
    BY <1>1, <1>2 DEF speechVars, SpeechInv, SpeechTypeOK
<1>3. CASE ArchiveDraft
    BY <1>1, <1>3 DEF ArchiveDraft, SpeechInv, SpeechTypeOK
<1>4. CASE ClockStep /\ UNCHANGED speechVars
    BY <1>1, <1>4, ClockType DEF speechVars
<1>5. ASSUME NEW t \in SpeechThreads, CaptureStep(t) PROVE SpeechInv'
    BY <1>5, ClaimStep, IntendStep, IssuePermitStep, TakeClipStep, TranscribeStep, HandOffStep,
       FinishStep
    DEF CaptureStep
<1> QED BY <1>2, <1>3, <1>4, <1>5, ConsentStep, CheckedStep DEF SpeechNext

LEMMA SpeechStarts == ClockInit /\ SpeechInit => SpeechInv
<1> SUFFICES ASSUME ClockInit, SpeechInit PROVE SpeechInv OBVIOUS
<1>1. IsDict(speech, ConsentKeys, Sessions) BY EmptyType DEF SpeechInit
<1>2. SpeechTypeOK BY <1>1 DEF ClockInit, SpeechInit, SpeechTypeOK, SpeechCalls
<1> QED BY <1>2 DEF SpeechInit, SpeechInv, OneCapture, HeardOnce, SpokenOnce, Listening,
                    Busy, Unspoken, Unheard

\* At most one transcript is of a consent.
LEMMA OneTranscript ==
    ASSUME SpeechInv, NEW k \in ConsentKeys
    PROVE  Cardinality({s \in spoken : s[1] = k}) <= 1
<1> DEFINE T == {s \in spoken : s[1] = k}
           one == <<k, speech[k].clip>>
<1>1. T \subseteq {one} BY DEF SpeechInv, SpokenOnce
<1>2. IsFiniteSet({one}) /\ Cardinality({one}) = 1 BY FS_Singleton
<1>3. IsFiniteSet(T) /\ Cardinality(T) <= 1 BY <1>1, <1>2, FS_Subset
<1> QED BY <1>3

\* The transport hears a clip only within the window of its permit.
LEMMA HeardInWindow ==
    ASSUME SpeechInv, [SpeechNext]_<<now, speechVars>>, NEW t \in SpeechThreads,
           CaptureAt(t, "take"), heard' # heard, capture'[t] # capture[t]
    PROVE  capture[t].authorized <= now /\ now < capture[t].expires
<1>1. SpeechNext BY DEF speechVars
<1>2. PICK u \in SpeechThreads : TakeClip(u)
    BY <1>1 DEF SpeechNext, RecordConsent, CaptureChecked, CaptureStep, CaptureClaim, Intend,
                IssuePermit, Transcribe, HandOffTranscript, FinishCapture, ArchiveDraft, speechVars
<1>3. \E c : CaptureGoes(u, c) BY <1>2 DEF TakeClip, CaptureFails
<1>4. u = t BY <1>3 DEF CaptureGoes, SpeechInv, SpeechTypeOK
<1> QED BY <1>2, <1>4 DEF TakeClip

\* One acknowledgement is one execution and one consent one clip and one
\* transcript, each released only in the window of its permit, for any number of
\* threads and however the clock that dates both services is set.
THEOREM SpentOnce == EgressSpec /\ SpeechSpec => PermitsAreSpentOnce
<1>1. EgressSpec => []EgressInv BY EgressStarts, EgressKeeps, PTL DEF EgressSpec
<1>2. SpeechSpec => []SpeechInv BY SpeechStarts, SpeechKeeps, PTL DEF SpeechSpec
<1>3. EgressInv => OneExecutionPerAcknowledgement BY DEF EgressInv
<1>4. SpeechInv => OneClipPerConsent
    BY OneTranscript DEF SpeechInv, HeardOnce, OneClipPerConsent
<1>5. EgressSpec => ReleasedInTime
    <2> DEFINE A == \A t \in EgressThreads : ~EgressAt(t, "send") /\ egress'[t].step = "send" =>
                        InWindow(egress'[t].ack, now)
    <2>1. EgressInv /\ [EgressNext]_<<now, egressVars>> => [A]_<<now, egressVars>>
        BY ReleaseInWindow
    <2>2. EgressSpec => [][A]_<<now, egressVars>> BY <1>1, <2>1, PTL DEF EgressSpec
    <2> QED BY <2>2 DEF ReleasedInTime
<1>6. SpeechSpec => HeardInTime
    <2> DEFINE A == \A t \in SpeechThreads :
                        CaptureAt(t, "take") /\ heard' # heard /\ capture'[t] # capture[t] =>
                            capture[t].authorized <= now /\ now < capture[t].expires
    <2>1. SpeechInv /\ [SpeechNext]_<<now, speechVars>> => [A]_<<now, speechVars>>
        BY HeardInWindow
    <2>2. SpeechSpec => [][A]_<<now, speechVars>> BY <1>2, <2>1, PTL DEF SpeechSpec
    <2> QED BY <2>2 DEF HeardInTime
<1> QED BY <1>1, <1>2, <1>3, <1>4, <1>5, <1>6, PTL DEF PermitsAreSpentOnce

=============================================================================
