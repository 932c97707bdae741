--------------------------- MODULE EvidenceProofs ---------------------------
(***************************************************************************)
(* What holds of the evidence services for any number of POCs, threads,    *)
(* keys, attempts and publishers.                                          *)
(***************************************************************************)
EXTENDS MCEvidence, FiniteSetTheorems

-----------------------------------------------------------------------------
(***************************************************************************)
(* Attempts and closure.  The inductive invariant.                         *)
(***************************************************************************)

\* _current_by_poc points to an attempt of the POC.
PointersAreOwn == \A p \in DOMAIN cur : att[cur[p]].poc = p

\* _idempotency has every attempt under the key that reserved it.
KeysAreKept ==
    /\ \A a \in Ids : att[a].key \in DOMAIN idem /\ idem[att[a].key] = a
    /\ \A k \in DOMAIN idem : att[idem[k]].key = k

\* An evaluation under way has not stored an outcome.
WorkIsOpen ==
    \A a \in work : att[a].status \in {"RUNNING", "STALE", "CANCELLED", "FAILED_INTERNAL"}

\* Only an attempt that was replaced is stale.
StaleIsReplaced == \A a \in Ids : att[a].status = "STALE" => ~att[a].current

\* The threads that run_if_open counts for a POC.
Inside(p) == {t \in Threads : thr[t].step \in {"install", "leave"} /\ thr[t].poc = p}

MutationsAreCounted == \A p \in Pocs : active[p] = Cardinality(Inside(p))

\* What a closure may be bound to: nothing changes such an attempt any more.
Settled(a) ==
    \/ att[a].status \in Closable
    \/ att[a].status = "COMPLETED" /\ att[a].verdict # NoVerdict /\ att[a].pack

\* A closed POC has no mutation under way and a settled current attempt.
ClosedIsQuiet ==
    \A p \in DOMAIN closed : active[p] = 0 /\ p \in DOMAIN cur /\ Settled(cur[p])

EvidenceInv ==
    /\ TypeOK
    /\ PointerIsTheFlag /\ PointersAreOwn /\ StaleIsReplaced
    /\ NoVerdictWithoutEvidence /\ WorkIsOpen
    /\ KeysAreKept
    /\ MutationsAreCounted /\ ClosedIsQuiet /\ ClosedOnCurrent
    /\ ClosureReplay

\* What the calls of threads are made of.
LEMMA ReserveType ==
    ASSUME TypeOK, NEW t \in Threads, thr[t].step \in {"enter", "install", "leave"}
    PROVE  thr[t] \in ReserveCalls
BY DEF TypeOK, Idle, CloseCalls

LEMMA CloseType ==
    ASSUME TypeOK, NEW t \in Threads, thr[t].step = "record"
    PROVE  thr[t] \in CloseCalls
BY DEF TypeOK, Idle, ReserveCalls

\* What an attempt is made of.
LEMMA AttemptType ==
    ASSUME TypeOK, NEW a \in Ids
    PROVE  att[a] \in Attempts
BY DEF TypeOK, Ids

\* The state of the services before the first call.
LEMMA EvidenceInit == Init => EvidenceInv
<1> SUFFICES ASSUME Init PROVE EvidenceInv OBVIOUS
<1>1. /\ Ids = {} /\ DOMAIN idem = {} /\ DOMAIN cur = {}
      /\ DOMAIN closed = {} /\ DOMAIN cidem = {}
    BY EmptyType DEF Init, Ids
<1>2. TypeOK
    <2>1. /\ IsDict(idem, Keys, Ids) /\ IsDict(cur, Pocs, Ids)
          /\ IsDict(closed, Pocs, Closures)
          /\ IsDict(cidem, CloseKeys, [poc : Pocs, req : Closures])
        BY EmptyType DEF Init
    <2>2. att \in Seq(Attempts) BY DEF Init
    <2> QED BY <2>1, <2>2 DEF Init, TypeOK
<1>3. MutationsAreCounted
    <2>1. \A p \in Pocs : Inside(p) = {} BY DEF Init, Inside, Idle
    <2> QED BY <2>1, FS_EmptySet DEF MutationsAreCounted, Init
<1> QED
    BY <1>1, <1>2, <1>3
    DEF Init, EvidenceInv, PointerIsTheFlag, PointersAreOwn, StaleIsReplaced,
        NoVerdictWithoutEvidence, WorkIsOpen, KeysAreKept, ClosedIsQuiet,
        ClosedOnCurrent, ClosureReplay

\* The part of the invariant that is about attempts, and the part about threads
\* and closures.
AttemptsInv ==
    /\ PointerIsTheFlag /\ PointersAreOwn /\ StaleIsReplaced
    /\ NoVerdictWithoutEvidence /\ WorkIsOpen /\ KeysAreKept

\* A step that leaves attempts, keys, pointers and closures alone.
LEMMA SameAttempts ==
    ASSUME EvidenceInv, UNCHANGED <<att, idem, cur>>, work' \subseteq work
    PROVE  /\ AttemptsInv'
           /\ Ids' = Ids
           /\ \A a : Binding(a)' = Binding(a) /\ Settled(a)' = Settled(a)
BY DEF EvidenceInv, AttemptsInv, PointerIsTheFlag, PointersAreOwn, StaleIsReplaced,
       NoVerdictWithoutEvidence, WorkIsOpen, KeysAreKept, Ids, IsCurrent, Binding,
       NoBinding, Settled

\* Only an open attempt changes, and it keeps its POC, key and flag.
LEMMA OneAttempt ==
    ASSUME EvidenceInv, NEW a \in Ids, NEW s \in Attempts,
           s.poc = att[a].poc, s.key = att[a].key, s.current = att[a].current,
           ~Settled(a),
           s.status = "STALE" => ~s.current,
           s.verdict # NoVerdict => s.status \in {"COMPLETED", "STALE"},
           s.pack => s.status = "COMPLETED" /\ s.verdict # NoVerdict,
           att' = [att EXCEPT ![a] = s],
           work' \subseteq work \cup {a},
           a \in work' => s.status \in {"RUNNING", "STALE", "CANCELLED", "FAILED_INTERNAL"},
           UNCHANGED <<frozen, idem, cur, closeVars, active, thr>>
    PROVE  EvidenceInv'
<1>1. /\ Ids' = Ids /\ a \in 1..Len(att) /\ att' \in Seq(Attempts)
      /\ att'[a] = s /\ \A b \in Ids : b # a => att'[b] = att[b]
    BY DEF Ids, EvidenceInv, TypeOK
<1>2. /\ idem' = idem /\ cur' = cur /\ closed' = closed /\ cidem' = cidem
      /\ active' = active /\ thr' = thr /\ frozen' = frozen
    BY DEF closeVars
<1>3. TypeOK' BY <1>1, <1>2 DEF EvidenceInv, TypeOK
<1>4. \A b \in Ids : att'[b].poc = att[b].poc /\ att'[b].key = att[b].key
                     /\ att'[b].current = att[b].current
    BY <1>1
<1>5. PointerIsTheFlag' /\ PointersAreOwn'
    <2>1. \A p \in DOMAIN cur : cur[p] \in Ids
        BY DEF EvidenceInv, TypeOK, IsDict
    <2> QED
        BY <1>1, <1>2, <1>4, <2>1 DEF EvidenceInv, PointerIsTheFlag, PointersAreOwn, IsCurrent
<1>6. StaleIsReplaced' BY <1>1, <1>4 DEF EvidenceInv, StaleIsReplaced
<1>7. NoVerdictWithoutEvidence' BY <1>1 DEF EvidenceInv, NoVerdictWithoutEvidence
<1>8. WorkIsOpen'
    <2>1. work \subseteq Ids BY DEF EvidenceInv, TypeOK
    <2> QED BY <1>1, <2>1 DEF EvidenceInv, WorkIsOpen
<1>9. KeysAreKept'
    <2>1. \A k \in DOMAIN idem : idem[k] \in Ids BY DEF EvidenceInv, TypeOK, IsDict
    <2> QED BY <1>1, <1>2, <1>4, <2>1 DEF EvidenceInv, KeysAreKept
<1>10. MutationsAreCounted' BY <1>2 DEF EvidenceInv, MutationsAreCounted, Inside
<1>11. ClosureReplay' BY <1>2 DEF EvidenceInv, ClosureReplay
<1>12. ASSUME NEW p \in DOMAIN closed
       PROVE  cur[p] \in Ids /\ att'[cur[p]] = att[cur[p]]
    <2>1. p \in DOMAIN cur /\ Settled(cur[p]) BY DEF EvidenceInv, ClosedIsQuiet
    <2>2. cur[p] \in Ids BY <2>1 DEF EvidenceInv, TypeOK, IsDict
    <2> QED BY <1>1, <2>1, <2>2
<1>13. ClosedIsQuiet' BY <1>2, <1>12 DEF EvidenceInv, ClosedIsQuiet, Settled
<1>14. ClosedOnCurrent' BY <1>2, <1>12 DEF EvidenceInv, ClosedOnCurrent, Binding
<1> QED BY <1>3, <1>5, <1>6, <1>7, <1>8, <1>9, <1>10, <1>11, <1>13, <1>14 DEF EvidenceInv

\* A step that changes no attempt, no closure and no count.
LEMMA QuietEvidence ==
    ASSUME EvidenceInv, UNCHANGED <<att, idem, cur, closeVars, active>>,
           work' \subseteq work, frozen' \subseteq Pocs,
           thr' \in [Threads -> {Idle} \cup ReserveCalls \cup CloseCalls],
           \A p \in Pocs : Inside(p)' = Inside(p)
    PROVE  EvidenceInv'
<1>1. closed' = closed /\ cidem' = cidem /\ active' = active /\ cur' = cur BY DEF closeVars
<1>2. AttemptsInv' /\ Ids' = Ids
      /\ \A a : Binding(a)' = Binding(a) /\ Settled(a)' = Settled(a)
    BY SameAttempts
<1>3. TypeOK' BY <1>1, <1>2 DEF EvidenceInv, TypeOK
<1>4. MutationsAreCounted' BY <1>1 DEF EvidenceInv, MutationsAreCounted
<1>5. ClosureReplay' BY <1>1 DEF EvidenceInv, ClosureReplay
<1>6. ClosedIsQuiet' BY <1>1, <1>2 DEF EvidenceInv, ClosedIsQuiet
<1>7. ClosedOnCurrent' BY <1>1, <1>2 DEF EvidenceInv, ClosedOnCurrent
<1> QED BY <1>2, <1>3, <1>4, <1>5, <1>6, <1>7 DEF EvidenceInv, AttemptsInv

\* A snapshot keeps POC and key and has the given status, verdict, pack, flag.
LEMMA SnapshotType ==
    ASSUME TypeOK, NEW a \in Ids, NEW st \in Statuses, NEW v \in Verdicts \cup {NoVerdict},
           NEW k \in BOOLEAN, NEW c \in BOOLEAN
    PROVE  LET s == Snapshot(att[a], st, v, k, c) IN
           /\ s \in Attempts
           /\ s.poc = att[a].poc /\ s.key = att[a].key
           /\ s.status = st /\ s.verdict = v /\ s.pack = k /\ s.current = c
<1>1. att[a] \in Attempts BY AttemptType
<1> QED BY <1>1 DEF Snapshot, Attempts

\* An attempt that has not ended is not settled, and neither is one whose
\* evaluation may still store its outcome.
LEMMA OpenAttempt ==
    ASSUME EvidenceInv, NEW a \in Ids
    PROVE  /\ att[a].status \in Live => ~Settled(a)
           /\ a \in work /\ ~EndedFromOutside(a) =>
                ~Settled(a) /\ att[a].status \in {"RUNNING", "STALE"}
           /\ att[a].verdict \in Verdicts \cup {NoVerdict}
           /\ att[a].pack \in BOOLEAN /\ att[a].current \in BOOLEAN
           /\ att[a].status \in Statuses
           /\ att[a].pack => att[a].status = "COMPLETED"
           /\ att[a].current <=> IsCurrent(a)
<1>1. att[a] \in Attempts BY AttemptType DEF EvidenceInv
<1>2. WorkIsOpen /\ NoVerdictWithoutEvidence /\ PointerIsTheFlag BY DEF EvidenceInv
<1>3. /\ att[a].verdict \in Verdicts \cup {NoVerdict}
      /\ att[a].pack \in BOOLEAN /\ att[a].current \in BOOLEAN
      /\ att[a].status \in Statuses
    BY <1>1 DEF Attempts
<1>4. att[a].pack => att[a].status = "COMPLETED" BY <1>2 DEF NoVerdictWithoutEvidence
<1>5. att[a].current <=> IsCurrent(a) BY <1>2 DEF PointerIsTheFlag
<1>6. att[a].status \in Live => ~Settled(a) BY DEF Live, Settled, Closable
<1>7. a \in work /\ ~EndedFromOutside(a) =>
        ~Settled(a) /\ att[a].status \in {"RUNNING", "STALE"}
    BY <1>2 DEF WorkIsOpen, EndedFromOutside, Settled, Closable
<1> QED BY <1>3, <1>4, <1>5, <1>6, <1>7

\* Cancellation, failure and an evaluation that raised end an open attempt.
LEMMA TerminalizeStep ==
    ASSUME EvidenceInv, NEW a \in Ids, NEW st \in {"CANCELLED", "FAILED_INTERNAL"},
           Terminalize(a, st), work' \subseteq work,
           UNCHANGED <<frozen, idem, cur, closeVars, active, thr>>
    PROVE  EvidenceInv'
<1>1. CASE att[a].status \in Live
    <2> DEFINE s == Snapshot(att[a], st, NoVerdict, att[a].pack, att[a].current)
    <2>1. ~Settled(a) /\ ~att[a].pack /\ att[a].current \in BOOLEAN /\ att[a].pack \in BOOLEAN
        BY <1>1, OpenAttempt DEF Live
    <2>2. /\ s \in Attempts /\ s.poc = att[a].poc /\ s.key = att[a].key
          /\ s.status = st /\ s.verdict = NoVerdict /\ s.pack = att[a].pack
          /\ s.current = att[a].current
        BY <2>1, SnapshotType DEF EvidenceInv, Statuses, Closable
    <2>3. att' = [att EXCEPT ![a] = s] BY <1>1 DEF Terminalize
    <2> HIDE DEF s
    <2> QED BY <2>1, <2>2, <2>3, OneAttempt
<1>2. CASE att[a].status \notin Live
    <2>1. att' = att BY <1>2 DEF Terminalize
    <2>2. \A p \in Pocs : Inside(p)' = Inside(p) BY DEF Inside
    <2>3. /\ frozen' \subseteq Pocs
          /\ thr' \in [Threads -> {Idle} \cup ReserveCalls \cup CloseCalls]
        BY DEF EvidenceInv, TypeOK
    <2> QED BY <2>1, <2>2, <2>3, QuietEvidence
<1> QED BY <1>1, <1>2

\* execute marks a reserved attempt running.
LEMMA BeginStep ==
    ASSUME EvidenceInv, NEW a \in Ids, ExecuteBegin(a)
    PROVE  EvidenceInv'
<1> DEFINE s == Snapshot(att[a], "RUNNING", att[a].verdict, att[a].pack, att[a].current)
<1>1. /\ att[a].status = "RESERVED" /\ ~Settled(a) /\ ~att[a].pack
      /\ att[a].pack \in BOOLEAN /\ att[a].current \in BOOLEAN
      /\ att[a].verdict \in Verdicts \cup {NoVerdict}
    BY OpenAttempt DEF ExecuteBegin, Live
<1>2. att[a].verdict = NoVerdict BY <1>1 DEF EvidenceInv, NoVerdictWithoutEvidence
<1>3. /\ s \in Attempts /\ s.poc = att[a].poc /\ s.key = att[a].key
      /\ s.status = "RUNNING" /\ s.verdict = NoVerdict /\ s.pack = att[a].pack
      /\ s.current = att[a].current
    BY <1>1, <1>2, SnapshotType DEF EvidenceInv, Statuses
<1>4. att' = [att EXCEPT ![a] = s] /\ work' \subseteq work \cup {a}
    BY DEF ExecuteBegin
<1>5. UNCHANGED <<frozen, idem, cur, closeVars, active, thr>> BY DEF ExecuteBegin
<1> HIDE DEF s
<1> QED BY <1>1, <1>3, <1>4, <1>5, OneAttempt

\* The pack of a completed attempt is published later.
LEMMA PackStep ==
    ASSUME EvidenceInv, NEW a \in Ids, PublishPack(a)
    PROVE  EvidenceInv'
<1> DEFINE s == Snapshot(att[a], "COMPLETED", att[a].verdict, TRUE, TRUE)
<1>1. /\ att[a].status = "COMPLETED" /\ att[a].verdict # NoVerdict /\ att[a].current
      /\ ~att[a].pack /\ att[a].verdict \in Verdicts \cup {NoVerdict}
      /\ att[a].current \in BOOLEAN
    BY OpenAttempt DEF PublishPack
<1>2. /\ ~Settled(a) /\ a \notin work
    BY <1>1 DEF Settled, Closable, EvidenceInv, WorkIsOpen
<1>3. /\ s \in Attempts /\ s.poc = att[a].poc /\ s.key = att[a].key
      /\ s.status = "COMPLETED" /\ s.verdict = att[a].verdict /\ s.pack = TRUE
      /\ s.current = TRUE
    <2>1. att[a] \in Attempts BY AttemptType DEF EvidenceInv
    <2> QED BY <1>1, <2>1 DEF Snapshot, Attempts, Statuses
<1>4. att' = [att EXCEPT ![a] = s] /\ work' = work BY DEF PublishPack
<1>5. UNCHANGED <<frozen, idem, cur, closeVars, active, thr>> BY DEF PublishPack
<1>6. s.current = att[a].current BY <1>1, <1>3
<1> HIDE DEF s
<1> QED BY <1>1, <1>2, <1>3, <1>4, <1>5, <1>6, OneAttempt

\* The outcome of an evaluation is stored.
LEMMA StoreStep ==
    ASSUME EvidenceInv, NEW a \in Ids, a \in work, ~EndedFromOutside(a),
           NEW s \in Attempts, s.poc = att[a].poc, s.key = att[a].key,
           s.current = att[a].current, s.status = "STALE" => ~s.current,
           s.verdict # NoVerdict => s.status \in {"COMPLETED", "STALE"},
           s.pack => s.status = "COMPLETED" /\ s.verdict # NoVerdict,
           att' = [att EXCEPT ![a] = s], work' = work \ {a},
           UNCHANGED <<frozen, idem, cur, closeVars, active, thr>>
    PROVE  EvidenceInv'
<1>1. ~Settled(a) BY OpenAttempt
<1> QED BY <1>1, OneAttempt

\* A step that only takes an evaluation away.
LEMMA WorkShrinks ==
    ASSUME EvidenceInv, att' = att, work' \subseteq work,
           UNCHANGED <<frozen, idem, cur, closeVars, active, thr>>
    PROVE  EvidenceInv'
<1>1. \A p \in Pocs : Inside(p)' = Inside(p) BY DEF Inside
<1>2. /\ frozen' \subseteq Pocs
      /\ thr' \in [Threads -> {Idle} \cup ReserveCalls \cup CloseCalls]
    BY DEF EvidenceInv, TypeOK
<1> QED BY <1>1, <1>2, QuietEvidence

\* The evidence of an attempt is rejected at ingestion.
LEMMA RejectStep ==
    ASSUME EvidenceInv, NEW a \in Ids, ExecuteReject(a)
    PROVE  EvidenceInv'
<1>1. /\ a \in work /\ work' = work \ {a}
      /\ UNCHANGED <<frozen, idem, cur, closeVars, active, thr>>
    BY DEF ExecuteReject
<1>2. CASE EndedFromOutside(a)
    <2>1. att' = att BY <1>2 DEF ExecuteReject
    <2> QED BY <1>1, <2>1, WorkShrinks
<1>3. CASE ~EndedFromOutside(a)
    <2> DEFINE st == IF CurrentNow(a) THEN "INGESTION_REJECTED" ELSE "STALE"
               s == Snapshot(att[a], st, NoVerdict, att[a].pack, CurrentNow(a))
    <2>1. /\ att[a].pack = FALSE /\ CurrentNow(a) \in BOOLEAN
          /\ CurrentNow(a) = att[a].current
        <3>1. /\ att[a].status \in {"RUNNING", "STALE"} /\ att[a].pack \in BOOLEAN
              /\ att[a].pack => att[a].status = "COMPLETED"
              /\ att[a].current \in BOOLEAN /\ (att[a].current <=> IsCurrent(a))
            BY <1>1, <1>3, OpenAttempt
        <3> QED BY <3>1, Zenon DEF CurrentNow, IsCurrent
    <2>2. st \in Statuses /\ NoVerdict \in Verdicts \cup {NoVerdict} /\ att[a].pack \in BOOLEAN
        BY <2>1 DEF Statuses, Closable
    <2>3. /\ s \in Attempts /\ s.poc = att[a].poc /\ s.key = att[a].key
          /\ s.status = st /\ s.verdict = NoVerdict /\ s.pack = att[a].pack
          /\ s.current = CurrentNow(a)
        <3>1. att[a] \in Attempts BY AttemptType DEF EvidenceInv
        <3> HIDE DEF st
        <3> QED BY <2>1, <2>2, <3>1 DEF Snapshot, Attempts
    <2>4. att' = [att EXCEPT ![a] = s] BY <1>3 DEF ExecuteReject
    <2>5. s.status = "STALE" => ~s.current BY <2>3
    <2>6. s.current = att[a].current /\ s.pack = FALSE BY <2>1, <2>3
    <2> HIDE DEF s
    <2> QED BY <1>1, <1>3, <2>3, <2>4, <2>5, <2>6, StoreStep
<1> QED BY <1>2, <1>3

\* The reduction of an attempt is stored, with its pack if it is current.
LEMMA CompleteStep ==
    ASSUME EvidenceInv, NEW a \in Ids, NEW v \in Verdicts, NEW pub \in Publications,
           ExecuteComplete(a, v, pub)
    PROVE  EvidenceInv'
<1>1. /\ a \in work /\ work' = work \ {a}
      /\ UNCHANGED <<frozen, idem, cur, closeVars, active, thr>>
    BY DEF ExecuteComplete
<1>2. CASE EndedFromOutside(a)
    <2>1. att' = att BY <1>2 DEF ExecuteComplete
    <2> QED BY <1>1, <2>1, WorkShrinks
<1>3. CASE ~EndedFromOutside(a)
    <2> DEFINE s == Outcome(a, v, pub)
    <2>1. att' = [att EXCEPT ![a] = s] BY <1>3 DEF ExecuteComplete
    <2>2. /\ att[a].status \in {"RUNNING", "STALE"} /\ att[a].pack \in BOOLEAN
          /\ att[a].pack => att[a].status = "COMPLETED"
          /\ att[a].current \in BOOLEAN /\ (att[a].current <=> CurrentNow(a))
        BY <1>1, <1>3, OpenAttempt DEF CurrentNow
    <2>3. att[a].pack = FALSE BY <2>2
    <2>4. v # NoVerdict /\ v \in Verdicts \cup {NoVerdict} BY NoVerdictAssumption
    <2>8. att[a] \in Attempts BY AttemptType DEF EvidenceInv
    <2>5. CASE ~CurrentNow(a)
        <3>1. s = Snapshot(att[a], "STALE", v, att[a].pack, FALSE) BY <2>5 DEF Outcome
        <3>2. /\ s \in Attempts /\ s.poc = att[a].poc /\ s.key = att[a].key
              /\ s.status = "STALE" /\ s.verdict = v /\ s.pack = FALSE /\ s.current = FALSE
            BY <2>3, <2>4, <2>8, <3>1 DEF Snapshot, Attempts, Statuses
        <3>3. s.current = att[a].current BY <2>2, <2>5, <3>2
        <3> HIDE DEF s
        <3> QED BY <1>1, <1>3, <2>1, <3>2, <3>3, StoreStep
    <2>6. CASE CurrentNow(a) /\ pub = "pack_error"
        <3>1. s = Snapshot(att[a], "FAILED_INTERNAL", NoVerdict, FALSE, TRUE) BY <2>6 DEF Outcome
        <3>2. /\ s \in Attempts /\ s.poc = att[a].poc /\ s.key = att[a].key
              /\ s.status = "FAILED_INTERNAL" /\ s.verdict = NoVerdict /\ s.pack = FALSE
              /\ s.current = TRUE
            BY <2>8, <3>1 DEF Snapshot, Attempts, Statuses, Closable
        <3>3. s.current = att[a].current BY <2>2, <2>6, <3>2
        <3> HIDE DEF s
        <3> QED BY <1>1, <1>3, <2>1, <3>2, <3>3, StoreStep
    <2>7. CASE CurrentNow(a) /\ pub # "pack_error"
        <3> DEFINE k == pub = "published"
        <3>1. s = Snapshot(att[a], "COMPLETED", v, k, TRUE) BY <2>7 DEF Outcome
        <3>2. /\ s \in Attempts /\ s.poc = att[a].poc /\ s.key = att[a].key
              /\ s.status = "COMPLETED" /\ s.verdict = v /\ s.current = TRUE
            BY <2>4, <2>8, <3>1 DEF Snapshot, Attempts, Statuses
        <3>3. s.current = att[a].current BY <2>2, <2>7, <3>2
        <3> HIDE DEF s
        <3> QED BY <1>1, <1>3, <2>1, <2>4, <3>2, <3>3, StoreStep
    <2> QED BY <2>5, <2>6, <2>7
<1> QED BY <1>2, <1>3

-----------------------------------------------------------------------------
(***************************************************************************)
(* Reservation: the mutations that run_if_open counts.                     *)
(***************************************************************************)

\* The threads inside run_if_open can be counted.
LEMMA InsideCounts ==
    ASSUME EvidenceInv, NEW p \in Pocs
    PROVE  /\ IsFiniteSet(Inside(p))
           /\ active[p] = Cardinality(Inside(p)) /\ active[p] \in Nat
           /\ active[p] = 0 <=> Inside(p) = {}
<1>1. Inside(p) \subseteq Threads BY DEF Inside
<1>2. IsFiniteSet(Inside(p)) BY <1>1, EvidenceAssumption, FS_Subset
<1>3. active[p] = Cardinality(Inside(p)) /\ active[p] \in Nat
    BY DEF EvidenceInv, MutationsAreCounted, TypeOK
<1> QED BY <1>2, <1>3, FS_EmptySet

\* A thread inside run_if_open keeps the POC open.
LEMMA InsideIsOpen ==
    ASSUME EvidenceInv, NEW t \in Threads, thr[t].step \in {"install", "leave"}
    PROVE  thr[t].poc \in Pocs /\ thr[t].poc \notin DOMAIN closed
<1>1. thr[t] \in ReserveCalls BY ReserveType DEF EvidenceInv
<1>2. thr[t].poc \in Pocs BY <1>1 DEF ReserveCalls
<1>3. Inside(thr[t].poc) # {} BY DEF Inside
<1>4. active[thr[t].poc] # 0 BY <1>2, <1>3, InsideCounts
<1> QED BY <1>2, <1>4 DEF EvidenceInv, ClosedIsQuiet

\* A thread moves in or out of run_if_open.
LEMMA CountEvidence ==
    ASSUME EvidenceInv, UNCHANGED <<frozen, svcVars, closeVars>>,
           thr' \in [Threads -> {Idle} \cup ReserveCalls \cup CloseCalls],
           active' \in [Pocs -> Nat],
           \A p \in Pocs : active'[p] = Cardinality(Inside(p)'),
           \A p \in DOMAIN closed : active'[p] = 0
    PROVE  EvidenceInv'
<1>1. /\ closed' = closed /\ cidem' = cidem /\ att' = att /\ idem' = idem
      /\ cur' = cur /\ work' = work /\ frozen' = frozen
    BY DEF closeVars, svcVars
<1>2. AttemptsInv' /\ Ids' = Ids
      /\ \A a : Binding(a)' = Binding(a) /\ Settled(a)' = Settled(a)
    BY <1>1, SameAttempts
<1>3. TypeOK' BY <1>1, <1>2 DEF EvidenceInv, TypeOK
<1>4. MutationsAreCounted' BY DEF MutationsAreCounted
<1>5. ClosureReplay' BY <1>1 DEF EvidenceInv, ClosureReplay
<1>6. ClosedIsQuiet' BY <1>1, <1>2 DEF EvidenceInv, ClosedIsQuiet
<1>7. ClosedOnCurrent' BY <1>1, <1>2 DEF EvidenceInv, ClosedOnCurrent
<1> QED BY <1>2, <1>3, <1>4, <1>5, <1>6, <1>7 DEF EvidenceInv, AttemptsInv

\* reserve passes its first checks: nothing is counted yet.
LEMMA ReserveCallStep ==
    ASSUME EvidenceInv, NEW t \in Threads, NEW p \in Pocs, NEW k \in Keys, NEW r \in Refs,
           ReserveCall(t, p, k, r)
    PROVE  EvidenceInv'
<1> DEFINE x == [step |-> "enter", poc |-> p, key |-> k, ref |-> r]
<1>1. /\ thr[t] = Idle /\ thr' = [thr EXCEPT ![t] = x]
      /\ UNCHANGED <<frozen, svcVars, closeVars, active>>
    BY DEF ReserveCall
<1>2. x \in ReserveCalls /\ x.step = "enter" BY DEF ReserveCalls
<1> HIDE DEF x
<1>3. /\ thr \in [Threads -> {Idle} \cup ReserveCalls \cup CloseCalls] /\ frozen \subseteq Pocs
    BY DEF EvidenceInv, TypeOK
<1>4. thr' \in [Threads -> {Idle} \cup ReserveCalls \cup CloseCalls] BY <1>1, <1>2, <1>3
<1>5. \A q \in Pocs : Inside(q)' = Inside(q) BY <1>1, <1>2, <1>3 DEF Inside, Idle
<1> QED BY <1>1, <1>3, <1>4, <1>5, QuietEvidence DEF svcVars

\* run_if_open refuses the mutation of a closed POC and counts any other.
LEMMA EnterStep ==
    ASSUME EvidenceInv, NEW t \in Threads, ReserveEnter(t)
    PROVE  EvidenceInv'
<1>1. thr[t].step = "enter" /\ thr[t] \in ReserveCalls
    BY ReserveType DEF ReserveEnter, EvidenceInv
<1>2. /\ thr \in [Threads -> {Idle} \cup ReserveCalls \cup CloseCalls] /\ frozen \subseteq Pocs
      /\ active \in [Pocs -> Nat]
    BY DEF EvidenceInv, TypeOK
<1>3. UNCHANGED <<frozen, svcVars, closeVars>> BY DEF ReserveEnter
<1>4. CASE thr[t].poc \in DOMAIN closed
    <2>1. thr' = [thr EXCEPT ![t] = Idle] /\ active' = active BY <1>4 DEF ReserveEnter
    <2>2. thr' \in [Threads -> {Idle} \cup ReserveCalls \cup CloseCalls] BY <1>2, <2>1
    <2>3. \A q \in Pocs : Inside(q)' = Inside(q) BY <1>1, <1>2, <2>1 DEF Inside, Idle
    <2> QED BY <1>2, <1>3, <2>1, <2>2, <2>3, QuietEvidence DEF svcVars
<1>5. CASE thr[t].poc \notin DOMAIN closed
    <2> DEFINE x == AtStep(thr[t], "install")
    <2>0. PICK p \in Pocs : p = thr[t].poc BY <1>1 DEF ReserveCalls
    <2>1. thr' = [thr EXCEPT ![t] = x] /\ active' = [active EXCEPT ![p] = @ + 1]
        BY <1>5, <2>0 DEF ReserveEnter
    <2>2. x \in ReserveCalls /\ x.step = "install" /\ x.poc = p
        BY <1>1, <2>0 DEF ReserveCalls, AtStep
    <2> HIDE DEF x
    <2>3. thr' \in [Threads -> {Idle} \cup ReserveCalls \cup CloseCalls] BY <1>2, <2>1, <2>2
    <2>4. t \notin Inside(p) /\ Inside(p)' = Inside(p) \cup {t}
          /\ \A q \in Pocs : q # p => Inside(q)' = Inside(q)
        BY <1>1, <1>2, <2>0, <2>1, <2>2 DEF Inside
    <2>5. Cardinality(Inside(p)') = active[p] + 1
        <3>1. IsFiniteSet(Inside(p)) /\ active[p] = Cardinality(Inside(p)) BY <2>2, InsideCounts
        <3> QED BY <2>4, <3>1, FS_AddElement
    <2>6. \A q \in Pocs : active[q] = Cardinality(Inside(q)) BY InsideCounts
    <2>7. /\ active' \in [Pocs -> Nat]
          /\ \A q \in Pocs : active'[q] = Cardinality(Inside(q)')
        <3>1. active' \in [Pocs -> Nat] BY <1>2, <2>1
        <3>2. active'[p] = Cardinality(Inside(p)') BY <1>2, <2>1, <2>5
        <3>3. ASSUME NEW q \in Pocs, q # p PROVE active'[q] = Cardinality(Inside(q)')
            <4>1. active'[q] = active[q] BY <1>2, <2>1, <3>3
            <4>2. Inside(q)' = Inside(q) BY <2>4, <3>3
            <4> QED BY <2>6, <4>1, <4>2
        <3> QED BY <3>1, <3>2, <3>3
    <2>8. \A q \in DOMAIN closed : active'[q] = 0
        <3>1. \A q \in DOMAIN closed : q \in Pocs /\ active[q] = 0
            BY DEF EvidenceInv, ClosedIsQuiet, TypeOK, IsDict
        <3> QED BY <1>2, <1>5, <2>0, <2>1, <3>1
    <2> QED BY <1>3, <2>3, <2>7, <2>8, CountEvidence
<1> QED BY <1>4, <1>5

\* The finally clause of run_if_open takes its own mutation back.
LEMMA LeaveStep ==
    ASSUME EvidenceInv, NEW t \in Threads, ReserveLeave(t)
    PROVE  EvidenceInv'
<1>1. thr[t].step = "leave" BY DEF ReserveLeave
<1>2. /\ thr \in [Threads -> {Idle} \cup ReserveCalls \cup CloseCalls]
      /\ active \in [Pocs -> Nat]
    BY DEF EvidenceInv, TypeOK
<1>3. PICK p \in Pocs : p = thr[t].poc /\ p \notin DOMAIN closed BY <1>1, InsideIsOpen
<1>4. /\ thr' = [thr EXCEPT ![t] = Idle] /\ active' = [active EXCEPT ![p] = @ - 1]
      /\ UNCHANGED <<frozen, svcVars, closeVars>>
    BY <1>3 DEF ReserveLeave, Decrement
<1>5. thr' \in [Threads -> {Idle} \cup ReserveCalls \cup CloseCalls] BY <1>2, <1>4
<1>6. t \in Inside(p) /\ Inside(p)' = Inside(p) \ {t}
      /\ \A q \in Pocs : q # p => Inside(q)' = Inside(q)
    BY <1>1, <1>2, <1>3, <1>4 DEF Inside, Idle
<1>7. Cardinality(Inside(p)') = active[p] - 1 /\ active[p] - 1 \in Nat
    <2>1. /\ IsFiniteSet(Inside(p)) /\ active[p] = Cardinality(Inside(p))
          /\ active[p] \in Nat /\ active[p] # 0
        BY <1>3, <1>6, InsideCounts
    <2>2. Cardinality(Inside(p) \ {t}) = Cardinality(Inside(p)) - 1
        BY <1>6, <2>1, FS_RemoveElement
    <2> QED BY <1>6, <2>1, <2>2
<1>8. \A q \in Pocs : active[q] = Cardinality(Inside(q)) BY InsideCounts
<1>9. /\ active' \in [Pocs -> Nat]
      /\ \A q \in Pocs : active'[q] = Cardinality(Inside(q)')
    BY <1>2, <1>3, <1>4, <1>6, <1>7, <1>8
<1>10. \A q \in DOMAIN closed : active'[q] = 0
    <2>1. \A q \in DOMAIN closed : q \in Pocs /\ active[q] = 0
        BY DEF EvidenceInv, ClosedIsQuiet, TypeOK, IsDict
    <2> QED BY <1>2, <1>3, <1>4, <2>1
<1> QED BY <1>4, <1>5, <1>9, <1>10, CountEvidence

\* What superseding changes of an attempt.
LEMMA SupersedeFacts ==
    ASSUME NEW a \in Attempts
    PROVE  LET s == Supersede(a) IN
           /\ s.poc = a.poc /\ s.key = a.key /\ s.verdict = a.verdict /\ s.pack = a.pack
           /\ s.current = FALSE
           /\ a.status \in Live => s.status = "STALE"
           /\ a.status \notin Live => s.status = a.status
BY DEF Supersede, Snapshot

\* Installing an attempt appends it, and takes the flag from the attempt that
\* was current; nothing else of an earlier attempt changes but that a live one
\* becomes stale.
LEMMA InstalledAttempts ==
    ASSUME EvidenceInv, NEW t \in Threads, ReserveInstall(t), StillNew(thr[t].key)
    PROVE  LET n == Len(att) + 1
               x == thr[t]
           IN /\ n \notin Ids /\ Ids' = Ids \cup {n} /\ att' \in Seq(Attempts)
              /\ idem' = Put(idem, x.key, n) /\ cur' = Put(cur, x.poc, n)
              /\ att'[n] = NewAttempt(x)
              /\ \A i \in Ids :
                    att'[i] = IF x.poc \in DOMAIN cur /\ cur[x.poc] = i
                              THEN Supersede(att[i]) ELSE att[i]
<1> DEFINE n == Len(att) + 1
           x == thr[t]
           old == [i \in Ids |-> IF x.poc \in DOMAIN cur /\ cur[x.poc] = i
                                 THEN Supersede(att[i]) ELSE att[i]]
<1>1. x \in ReserveCalls BY ReserveType DEF ReserveInstall, EvidenceInv
<1>2. /\ att' = Append(old, NewAttempt(x))
      /\ idem' = Put(idem, x.key, n) /\ cur' = Put(cur, x.poc, n)
    BY DEF ReserveInstall
<1>3. NewAttempt(x) \in Attempts
    BY <1>1 DEF ReserveCalls, NewAttempt, Snapshot, Attempts, Statuses
<1>4. ASSUME NEW a \in Attempts PROVE Supersede(a) \in Attempts
    BY DEF Supersede, Snapshot, Attempts, Statuses
<1>5. att \in Seq(Attempts) /\ Len(att) \in Nat BY DEF EvidenceInv, TypeOK
<1>6. \A i \in Ids : att[i] \in Attempts BY AttemptType DEF EvidenceInv
<1>7. old \in [1..Len(att) -> Attempts] BY <1>4, <1>6 DEF Ids
<1>8. \A i \in Ids : old[i] = IF x.poc \in DOMAIN cur /\ cur[x.poc] = i
                              THEN Supersede(att[i]) ELSE att[i]
    OBVIOUS
<1> HIDE DEF old, x
<1>9. old \in Seq(Attempts) /\ Len(old) = Len(att)
    BY <1>5, <1>7
<1>10. att' \in Seq(Attempts) /\ Len(att') = n /\ att'[n] = NewAttempt(x)
       /\ \A i \in 1..Len(att) : att'[i] = old[i]
    BY <1>2, <1>3, <1>5, <1>9
<1>11. n \notin Ids /\ Ids' = Ids \cup {n} BY <1>5, <1>10 DEF Ids
<1> QED BY <1>2, <1>8, <1>10, <1>11 DEF x, Ids

\* Installing an attempt keeps the invariant.
LEMMA InstallStep ==
    ASSUME EvidenceInv, NEW t \in Threads, ReserveInstall(t)
    PROVE  EvidenceInv'
<1>1. thr[t].step = "install" BY DEF ReserveInstall
<1>2. /\ thr \in [Threads -> {Idle} \cup ReserveCalls \cup CloseCalls] /\ frozen \subseteq Pocs
      /\ active \in [Pocs -> Nat] /\ work \subseteq Ids
    BY DEF EvidenceInv, TypeOK
<1>3. PICK x \in ReserveCalls : x = thr[t]
    BY <1>1, ReserveType DEF EvidenceInv
<1>4. /\ x.poc \in Pocs /\ x.key \in Keys /\ x.poc \notin DOMAIN closed
    BY <1>1, <1>3, InsideIsOpen DEF ReserveCalls
<1>5. /\ frozen' = frozen /\ work' = work /\ closed' = closed /\ cidem' = cidem
      /\ active' = active /\ thr' = [thr EXCEPT ![t] = AtStep(x, "leave")]
    BY <1>3 DEF ReserveInstall, closeVars
<1>6. AtStep(x, "leave") \in ReserveCalls /\ AtStep(x, "leave").step = "leave"
      /\ AtStep(x, "leave").poc = x.poc
    BY DEF AtStep, ReserveCalls
<1>7. thr' \in [Threads -> {Idle} \cup ReserveCalls \cup CloseCalls] BY <1>2, <1>5, <1>6
<1>8. \A q \in Pocs : Inside(q)' = Inside(q)
    BY <1>1, <1>2, <1>3, <1>5, <1>6 DEF Inside
<1>9. CASE ~StillNew(x.key)
    <2>1. UNCHANGED <<att, idem, cur>> BY <1>3, <1>9 DEF ReserveInstall
    <2> QED BY <1>2, <1>5, <1>7, <1>8, <2>1, QuietEvidence DEF closeVars
<1>10. CASE StillNew(x.key)
    <2>1. PICK n : /\ n = Len(att) + 1
                   /\ n \notin Ids /\ Ids' = Ids \cup {n} /\ att' \in Seq(Attempts)
                   /\ idem' = Put(idem, x.key, n) /\ cur' = Put(cur, x.poc, n)
                   /\ att'[n] = NewAttempt(x)
                   /\ \A i \in Ids :
                        att'[i] = IF x.poc \in DOMAIN cur /\ cur[x.poc] = i
                                  THEN Supersede(att[i]) ELSE att[i]
        BY <1>3, <1>10, InstalledAttempts
    <2>2. x.key \notin DOMAIN idem BY <1>10 DEF StillNew
    <2>3. /\ att'[n].poc = x.poc /\ att'[n].key = x.key /\ att'[n].status = "RESERVED"
          /\ att'[n].verdict = NoVerdict /\ att'[n].pack = FALSE /\ att'[n].current = TRUE
        BY <2>1 DEF NewAttempt, Snapshot
    <2>0. ASSUME NEW i \in Ids
          PROVE  /\ att'[i].poc = att[i].poc /\ att'[i].key = att[i].key
                 /\ att'[i].verdict = att[i].verdict /\ att'[i].pack = att[i].pack
                 /\ att[i].status \notin Live => att'[i].status = att[i].status
                 /\ att[i].status \in Live =>
                        att'[i].status = att[i].status \/ att'[i].status = "STALE"
                 /\ x.poc \in DOMAIN cur /\ cur[x.poc] = i => att'[i].current = FALSE
        <3>1. att[i] \in Attempts BY AttemptType DEF EvidenceInv
        <3>2. CASE x.poc \in DOMAIN cur /\ cur[x.poc] = i
            <4>1. att'[i] = Supersede(att[i]) BY <2>1, <3>2
            <4> QED BY <3>1, <4>1, SupersedeFacts
        <3>3. CASE ~(x.poc \in DOMAIN cur /\ cur[x.poc] = i)
            <4>1. att'[i] = att[i] BY <2>1, <3>3
            <4> QED BY <3>3, <4>1
        <3> QED BY <3>2, <3>3
    <2>4. \A i \in Ids : att'[i].poc = att[i].poc /\ att'[i].key = att[i].key
                         /\ att'[i].verdict = att[i].verdict /\ att'[i].pack = att[i].pack
        BY <2>0
    <2>5. \A i \in Ids : att[i].status \notin Live => att'[i].status = att[i].status
        BY <2>0
    <2>6. \A i \in Ids : att[i].status \in Live =>
            att'[i].status = att[i].status \/ att'[i].status = "STALE"
        BY <2>0
    <2>7. \A i \in Ids : ~(x.poc \in DOMAIN cur /\ cur[x.poc] = i) => att'[i] = att[i]
        BY <2>1
    <2>8. \A i \in Ids : x.poc \in DOMAIN cur /\ cur[x.poc] = i => att'[i].current = FALSE
        BY <2>0
    <2>9. /\ DOMAIN cur' = DOMAIN cur \cup {x.poc} /\ cur'[x.poc] = n
          /\ \A p \in DOMAIN cur : p # x.poc => cur'[p] = cur[p]
        BY <2>1 DEF Put
    <2>10. /\ DOMAIN idem' = DOMAIN idem \cup {x.key} /\ idem'[x.key] = n
           /\ \A k \in DOMAIN idem : k # x.key => idem'[k] = idem[k]
        BY <2>1 DEF Put
    <2>11. /\ \A p \in DOMAIN cur : p \in Pocs /\ cur[p] \in Ids
           /\ \A k \in DOMAIN idem : k \in Keys /\ idem[k] \in Ids
        BY DEF EvidenceInv, TypeOK, IsDict
    <2>12. PointerIsTheFlag /\ PointersAreOwn /\ StaleIsReplaced /\ NoVerdictWithoutEvidence
           /\ WorkIsOpen /\ KeysAreKept /\ ClosedIsQuiet /\ ClosedOnCurrent
        BY DEF EvidenceInv
    <2>13. TypeOK'
        <3>1. IsDict(idem, Keys, Ids \cup {n}) /\ IsDict(cur, Pocs, Ids \cup {n})
            BY DEF EvidenceInv, TypeOK, IsDict
        <3>2. IsDict(idem', Keys, Ids') /\ IsDict(cur', Pocs, Ids')
            BY <1>4, <2>1, <3>1, PutType
        <3>3. IsDict(closed, Pocs, Closures)
              /\ IsDict(cidem, CloseKeys, [poc : Pocs, req : Closures])
            BY DEF EvidenceInv, TypeOK
        <3> QED BY <1>2, <1>5, <1>7, <2>1, <3>2, <3>3 DEF TypeOK
    <2>14. PointersAreOwn'
        BY <2>3, <2>4, <2>9, <2>11, <2>12 DEF PointersAreOwn
    <2>15. PointerIsTheFlag'
        <3>1. att'[n].current <=> IsCurrent(n)' BY <2>3, <2>9 DEF IsCurrent
        <3>2. ASSUME NEW i \in Ids PROVE att'[i].current <=> IsCurrent(i)'
            <4>1. CASE x.poc \in DOMAIN cur /\ cur[x.poc] = i
                <5>1. att[i].poc = x.poc BY <2>12, <4>1 DEF PointersAreOwn
                <5>2. ~IsCurrent(i)' BY <2>1, <2>4, <2>9, <5>1 DEF IsCurrent
                <5> QED BY <2>8, <4>1, <5>2
            <4>2. CASE ~(x.poc \in DOMAIN cur /\ cur[x.poc] = i)
                <5>1. att'[i] = att[i] BY <2>7, <4>2
                <5>2. IsCurrent(i)' <=> IsCurrent(i)
                    BY <2>1, <2>9, <4>2, <5>1 DEF IsCurrent
                <5> QED BY <2>12, <5>1, <5>2 DEF PointerIsTheFlag
            <4> QED BY <4>1, <4>2
        <3> QED BY <2>1, <3>1, <3>2 DEF PointerIsTheFlag
    <2>16. StaleIsReplaced'
        <3>1. ASSUME NEW i \in Ids, att'[i].status = "STALE" PROVE ~att'[i].current
            <4>1. CASE x.poc \in DOMAIN cur /\ cur[x.poc] = i BY <2>8, <4>1
            <4>2. CASE ~(x.poc \in DOMAIN cur /\ cur[x.poc] = i)
                BY <2>7, <2>12, <3>1, <4>2 DEF StaleIsReplaced
            <4> QED BY <4>1, <4>2
        <3> QED BY <2>1, <2>3, <3>1 DEF StaleIsReplaced
    <2>17. NoVerdictWithoutEvidence'
        BY <2>1, <2>3, <2>4, <2>5, <2>12 DEF NoVerdictWithoutEvidence, Live
    <2>18. WorkIsOpen'
        BY <1>2, <1>5, <2>5, <2>6, <2>12 DEF WorkIsOpen, Live
    <2>19. KeysAreKept'
        BY <2>1, <2>2, <2>3, <2>4, <2>10, <2>11, <2>12 DEF KeysAreKept
    <2>20. MutationsAreCounted'
        BY <1>5, <1>8 DEF MutationsAreCounted, EvidenceInv
    <2>21. ASSUME NEW p \in DOMAIN closed
           PROVE  /\ p \in DOMAIN cur /\ p \in DOMAIN cur' /\ cur'[p] = cur[p]
                  /\ att'[cur[p]] = att[cur[p]]
        <3>1. p \in DOMAIN cur /\ p # x.poc BY <1>4, <2>12 DEF ClosedIsQuiet
        <3>2. cur[p] \in Ids /\ att[cur[p]].poc = p
            BY <2>11, <2>12, <3>1 DEF PointersAreOwn
        <3>3. ~(x.poc \in DOMAIN cur /\ cur[x.poc] = cur[p])
            BY <2>12, <3>1, <3>2 DEF PointersAreOwn
        <3> QED BY <2>7, <2>9, <3>1, <3>2, <3>3
    <2>22. ClosedIsQuiet' BY <1>5, <2>12, <2>21 DEF ClosedIsQuiet, Settled
    <2>23. ClosedOnCurrent' BY <1>5, <2>12, <2>21 DEF ClosedOnCurrent, Binding
    <2>24. ClosureReplay' BY <1>5 DEF EvidenceInv, ClosureReplay
    <2> QED
        BY <2>13, <2>14, <2>15, <2>16, <2>17, <2>18, <2>19, <2>20, <2>22, <2>23, <2>24
        DEF EvidenceInv
<1> QED BY <1>9, <1>10

-----------------------------------------------------------------------------
(***************************************************************************)
(* Closure.                                                                *)
(***************************************************************************)

\* What a closure can be bound to is typed, and it is there only for an attempt
\* that has settled.
LEMMA BindingType ==
    ASSUME TypeOK, NEW a \in Ids, Binding(a) # NoBinding
    PROVE  Binding(a) \in Bindings /\ Settled(a)
<1>1. att[a] \in Attempts /\ a \in Nat BY AttemptType DEF Ids
<1>2. CASE att[a].status = "COMPLETED" /\ att[a].verdict # NoVerdict /\ att[a].pack
    <2>1. Binding(a) = [kind |-> "EVIDENCE", run |-> a, verdict |-> att[a].verdict]
        BY <1>2 DEF Binding
    <2>2. att[a].verdict \in Verdicts BY <1>1, <1>2 DEF Attempts
    <2> QED BY <1>1, <1>2, <2>1, <2>2 DEF Bindings, Settled
<1>3. CASE ~(att[a].status = "COMPLETED" /\ att[a].verdict # NoVerdict /\ att[a].pack)
    <2>1. att[a].status \in Closable BY <1>3 DEF Binding
    <2>2. Binding(a) = [kind |-> "RUN", run |-> a, record |-> att[a]]
        BY <1>3, <2>1 DEF Binding
    <2> QED BY <1>1, <2>1, <2>2 DEF Bindings, Settled
<1> QED BY <1>2, <1>3

\* handoff and stop read the binding.
LEMMA CloseCallStep ==
    ASSUME EvidenceInv, NEW t \in Threads, NEW a \in Ids, NEW d \in Decisions,
           NEW k \in CloseKeys, CloseCall(t, a, d, k)
    PROVE  EvidenceInv'
<1> DEFINE x == [step |-> "record", poc |-> att[a].poc, key |-> k,
                 decision |-> d, binding |-> Binding(a)]
<1>1. /\ thr[t] = Idle /\ thr' = [thr EXCEPT ![t] = x] /\ Binding(a) # NoBinding
      /\ UNCHANGED <<frozen, svcVars, closeVars, active>>
    BY DEF CloseCall
<1>2. x \in CloseCalls /\ x.step = "record"
    <2>1. att[a] \in Attempts /\ Binding(a) \in Bindings
        BY <1>1, AttemptType, BindingType DEF EvidenceInv
    <2>2. att[a].poc \in Pocs BY <2>1 DEF Attempts
    <2> QED BY <2>1, <2>2 DEF CloseCalls
<1> HIDE DEF x
<1>3. /\ thr \in [Threads -> {Idle} \cup ReserveCalls \cup CloseCalls] /\ frozen \subseteq Pocs
    BY DEF EvidenceInv, TypeOK
<1>4. thr' \in [Threads -> {Idle} \cup ReserveCalls \cup CloseCalls] BY <1>1, <1>2, <1>3
<1>5. \A q \in Pocs : Inside(q)' = Inside(q) BY <1>1, <1>2, <1>3 DEF Inside, Idle
<1> QED BY <1>1, <1>3, <1>4, <1>5, QuietEvidence DEF svcVars

\* record stores a closure over the binding that is authoritative at that moment.
LEMMA RecordStep ==
    ASSUME EvidenceInv, NEW t \in Threads, Record(t)
    PROVE  EvidenceInv'
<1>1. thr[t].step = "record" BY DEF Record
<1>2. PICK x \in CloseCalls : x = thr[t] BY <1>1, CloseType DEF EvidenceInv
<1>3. /\ thr \in [Threads -> {Idle} \cup ReserveCalls \cup CloseCalls] /\ frozen \subseteq Pocs
      /\ active \in [Pocs -> Nat]
    BY DEF EvidenceInv, TypeOK
<1>4. /\ frozen' = frozen /\ att' = att /\ idem' = idem /\ cur' = cur /\ work' = work
      /\ active' = active /\ thr' = [thr EXCEPT ![t] = Idle]
    BY DEF Record, svcVars
<1>5. thr' \in [Threads -> {Idle} \cup ReserveCalls \cup CloseCalls] BY <1>3, <1>4
<1>6. \A q \in Pocs : Inside(q)' = Inside(q) BY <1>1, <1>3, <1>4 DEF Inside, Idle
<1>7. CASE ~(x.key \notin DOMAIN cidem /\ Closes(x))
    <2>1. UNCHANGED closeVars BY <1>2, <1>7 DEF Record
    <2> QED BY <1>3, <1>4, <1>5, <1>6, <2>1, QuietEvidence
<1>8. CASE x.key \notin DOMAIN cidem /\ Closes(x)
    <2> DEFINE req == [decision |-> x.decision, binding |-> x.binding]
               p == x.poc
    <2>1. /\ closed' = Put(closed, p, req)
          /\ cidem' = Put(cidem, x.key, [poc |-> p, req |-> req])
        BY <1>2, <1>8 DEF Record
    <2>2. /\ p \notin DOMAIN closed /\ active[p] = 0
          /\ Authoritative(p) # NoBinding /\ Authoritative(p) = x.binding
          /\ x.decision = "HANDOFF_COMPLETED" => Authoritative(p).kind = "EVIDENCE"
        BY <1>8 DEF Closes, StillOpen, NoMutations, BindingMatches
    <2>3. /\ p \in Pocs /\ x.key \in CloseKeys /\ req \in Closures
          /\ req.decision = x.decision /\ req.binding = x.binding
        BY DEF CloseCalls, Closures
    <2> HIDE DEF req
    <2>4. p \in DOMAIN cur /\ Authoritative(p) = Binding(cur[p])
        BY <2>2 DEF Authoritative
    <2>5. cur[p] \in Ids BY <2>4 DEF EvidenceInv, TypeOK, IsDict
    <2>6. Settled(cur[p]) BY <2>2, <2>4, <2>5, BindingType DEF EvidenceInv
    <2>7. x.decision = "HANDOFF_COMPLETED" => att[cur[p]].status = "COMPLETED" /\ att[cur[p]].pack
        BY <2>2, <2>4 DEF Binding
    <2>8. /\ DOMAIN closed' = DOMAIN closed \cup {p} /\ closed'[p] = req
          /\ \A q \in DOMAIN closed : q # p /\ closed'[q] = closed[q]
        BY <2>1, <2>2 DEF Put
    <2>9. /\ DOMAIN cidem' = DOMAIN cidem \cup {x.key}
          /\ cidem'[x.key] = [poc |-> p, req |-> req]
          /\ \A k \in DOMAIN cidem : k # x.key /\ cidem'[k] = cidem[k]
        BY <1>8, <2>1 DEF Put
    <2>10. AttemptsInv' /\ Ids' = Ids
           /\ \A a : Binding(a)' = Binding(a) /\ Settled(a)' = Settled(a)
        BY <1>4, SameAttempts
    <2>11. TypeOK'
        <3>1. [poc |-> p, req |-> req] \in [poc : Pocs, req : Closures] BY <2>3
        <3>2. IsDict(closed', Pocs, Closures)
            BY <2>1, <2>3, PutType DEF EvidenceInv, TypeOK
        <3>3. IsDict(cidem', CloseKeys, [poc : Pocs, req : Closures])
            BY <2>1, <2>3, <3>1, PutType DEF EvidenceInv, TypeOK
        <3> QED BY <1>4, <1>5, <2>10, <3>2, <3>3 DEF EvidenceInv, TypeOK
    <2>12. MutationsAreCounted' BY <1>4, <1>6 DEF EvidenceInv, MutationsAreCounted
    <2>13. ClosedIsQuiet'
        BY <1>4, <2>2, <2>4, <2>6, <2>8, <2>10 DEF EvidenceInv, ClosedIsQuiet
    <2>14. ClosedOnCurrent'
        <3>1. ASSUME NEW q \in DOMAIN closed
              PROVE  /\ q \in DOMAIN cur' /\ closed'[q].binding = Binding(cur[q])'
                     /\ closed'[q].decision = "HANDOFF_COMPLETED" =>
                            att'[cur'[q]].status = "COMPLETED" /\ att'[cur'[q]].pack
            BY <1>4, <2>8, <2>10 DEF EvidenceInv, ClosedOnCurrent
        <3>2. /\ p \in DOMAIN cur' /\ closed'[p].binding = Binding(cur[p])'
              /\ closed'[p].decision = "HANDOFF_COMPLETED" =>
                     att'[cur'[p]].status = "COMPLETED" /\ att'[cur'[p]].pack
            BY <1>4, <2>2, <2>3, <2>4, <2>7, <2>8, <2>10
        <3> QED BY <2>8, <3>1, <3>2 DEF ClosedOnCurrent
    <2>15. ClosureReplay'
        <3>1. ClosureReplay BY DEF EvidenceInv
        <3>2. ASSUME NEW k \in DOMAIN cidem'
              PROVE  cidem'[k].poc \in DOMAIN closed' /\ closed'[cidem'[k].poc] = cidem'[k].req
            <4>1. CASE k = x.key BY <2>8, <2>9, <4>1
            <4>2. CASE k # x.key
                <5>1. k \in DOMAIN cidem BY <2>9, <4>2
                <5> QED BY <2>8, <2>9, <3>1, <5>1 DEF ClosureReplay
            <4> QED BY <4>1, <4>2
        <3>3. ASSUME NEW q \in DOMAIN closed'
              PROVE  \E k \in DOMAIN cidem' : cidem'[k].poc = q
            <4>1. CASE q = p BY <2>9, <4>1
            <4>2. CASE q # p
                <5>1. q \in DOMAIN closed BY <2>8, <4>2
                <5>2. PICK k \in DOMAIN cidem : cidem[k].poc = q
                    BY <3>1, <5>1 DEF ClosureReplay
                <5> QED BY <2>9, <5>2
            <4> QED BY <4>1, <4>2
        <3> QED BY <3>2, <3>3 DEF ClosureReplay
    <2> QED
        BY <2>10, <2>11, <2>12, <2>13, <2>14, <2>15 DEF EvidenceInv, AttemptsInv
<1> QED BY <1>7, <1>8

\* The agreement of a POC is frozen.
LEMMA FreezeStep ==
    ASSUME EvidenceInv, NEW p \in Pocs, Freeze(p)
    PROVE  EvidenceInv'
<1>1. /\ frozen' \subseteq Pocs /\ UNCHANGED <<att, idem, cur, closeVars, active>>
      /\ work' \subseteq work /\ thr' = thr
    BY DEF Freeze, EvidenceInv, TypeOK, svcVars
<1>2. thr' \in [Threads -> {Idle} \cup ReserveCalls \cup CloseCalls]
    BY <1>1 DEF EvidenceInv, TypeOK
<1>3. \A q \in Pocs : Inside(q)' = Inside(q) BY <1>1 DEF Inside
<1> QED BY <1>1, <1>2, <1>3, QuietEvidence

\* Every step of the two services keeps the invariant.
LEMMA EvidenceNext == EvidenceInv /\ [Next]_vars => EvidenceInv'
<1> SUFFICES ASSUME EvidenceInv, [Next]_vars PROVE EvidenceInv' OBVIOUS
<1>1. ASSUME NEW p \in Pocs, Freeze(p) PROVE EvidenceInv' BY <1>1, FreezeStep
<1>2. ASSUME NEW t \in Threads, Reserve(t) PROVE EvidenceInv'
    BY <1>2, ReserveCallStep, EnterStep, InstallStep, LeaveStep DEF Reserve
<1>3. ASSUME NEW t \in Threads, Close(t) PROVE EvidenceInv'
    BY <1>3, CloseCallStep, RecordStep DEF Close
<1>4. ASSUME NEW a \in Ids, ExecuteBegin(a) \/ PublishPack(a) PROVE EvidenceInv'
    BY <1>4, BeginStep, PackStep
<1>5. ASSUME NEW a \in Ids, Evaluate(a) PROVE EvidenceInv'
    <2>1. ASSUME ExecuteRaise(a) PROVE EvidenceInv'
        <3>1. /\ Terminalize(a, "FAILED_INTERNAL") /\ work' \subseteq work
              /\ UNCHANGED <<frozen, idem, cur, closeVars, active, thr>>
            BY <2>1 DEF ExecuteRaise
        <3> QED BY <3>1, TerminalizeStep
    <2> QED BY <1>5, <2>1, RejectStep, CompleteStep DEF Evaluate
<1>6. ASSUME NEW a \in Ids, Cancel(a) PROVE EvidenceInv'
    <2>1. /\ Terminalize(a, "CANCELLED") /\ work' \subseteq work
          /\ UNCHANGED <<frozen, idem, cur, closeVars, active, thr>>
        BY <1>6 DEF Cancel
    <2> QED BY <2>1, TerminalizeStep
<1>7. ASSUME NEW a \in Ids, Fail(a) PROVE EvidenceInv'
    <2>1. /\ Terminalize(a, "FAILED_INTERNAL") /\ work' \subseteq work
          /\ UNCHANGED <<frozen, idem, cur, closeVars, active, thr>>
        BY <1>7 DEF Fail
    <2> QED BY <2>1, TerminalizeStep
<1>8. CASE UNCHANGED vars
    <2>1. att' = att /\ work' \subseteq work
          /\ UNCHANGED <<frozen, idem, cur, closeVars, active, thr>>
        BY <1>8 DEF vars, svcVars, closeVars
    <2> QED BY <2>1, WorkShrinks
<1> QED BY <1>1, <1>2, <1>3, <1>4, <1>5, <1>6, <1>7, <1>8 DEF Next

\* Every reachable state of the evidence and closure services satisfies the
\* inductive invariant, whatever is reserved, run, cancelled and closed at once.
THEOREM EvidenceInvariant == Spec => []EvidenceInv
BY EvidenceInit, EvidenceNext, PTL DEF Spec

\* The services' dictionaries and the calls of threads keep their types.
THEOREM EvidenceTypes == Spec => []TypeOK
<1>1. EvidenceInv => TypeOK BY DEF EvidenceInv
<1> QED BY <1>1, EvidenceInvariant, PTL

\* A closed POC stays bound to its current attempt as it is: record checked the
\* binding under its lock and nothing that runs on changes it; a handoff is
\* recorded only over a published pack.
THEOREM ClosureStaysCurrent == Spec => []ClosedOnCurrent
<1>1. EvidenceInv => ClosedOnCurrent BY DEF EvidenceInv
<1> QED BY <1>1, EvidenceInvariant, PTL

-----------------------------------------------------------------------------
(***************************************************************************)
(* What a step may never do.                                               *)
(***************************************************************************)

\* What a step of the services keeps of an attempt that ended, and of the flag.
EndKept ==
    \A a \in Ids :
        /\ att[a].status \in Ended =>
            att'[a].status = att[a].status /\ att'[a].verdict = att[a].verdict
        /\ ~att[a].current => ~att'[a].current

\* What a step of the services keeps of the closures.
ClosedKept ==
    \A p \in DOMAIN closed :
        /\ p \in DOMAIN closed' /\ closed'[p] = closed[p]
        /\ \A a \in Ids' \ Ids : att'[a].poc # p

\* A step that touches no attempt and only adds closures.
LEMMA NoAttemptTouched ==
    ASSUME att' = att, \A p \in DOMAIN closed : p \in DOMAIN closed' /\ closed'[p] = closed[p]
    PROVE  EndKept /\ ClosedKept
BY DEF EndKept, ClosedKept, Ids

\* A step that stores one attempt keeps it as it ended.
LEMMA OneAttemptTouched ==
    ASSUME EvidenceInv, NEW a \in Ids, NEW s, att' = [att EXCEPT ![a] = s], closed' = closed,
           att[a].status \in Ended => s.status = att[a].status /\ s.verdict = att[a].verdict,
           ~att[a].current => ~s.current
    PROVE  EndKept /\ ClosedKept
<1>1. att \in Seq(Attempts) /\ a \in 1..Len(att) BY DEF EvidenceInv, TypeOK, Ids
<1>2. Ids' = Ids /\ att'[a] = s /\ \A b \in Ids : b # a => att'[b] = att[b]
    BY <1>1 DEF Ids
<1>3. EndKept BY <1>2 DEF EndKept
<1>4. ClosedKept BY <1>2 DEF ClosedKept
<1> QED BY <1>3, <1>4

\* An attempt is installed only for an open POC, and superseding an attempt that
\* ended takes nothing but its flag.
LEMMA InstallKeeps ==
    ASSUME EvidenceInv, NEW t \in Threads, ReserveInstall(t)
    PROVE  EndKept /\ ClosedKept
<1>1. thr[t].step = "install" /\ closed' = closed BY DEF ReserveInstall, closeVars
<1>2. CASE ~StillNew(thr[t].key)
    <2>1. att' = att BY <1>2 DEF ReserveInstall
    <2> QED BY <1>1, <2>1, NoAttemptTouched
<1>3. CASE StillNew(thr[t].key)
    <2>1. PICK x \in ReserveCalls : x = thr[t] BY <1>1, ReserveType DEF EvidenceInv
    <2>2. x.poc \notin DOMAIN closed BY <1>1, <2>1, InsideIsOpen
    <2>3. PICK n : /\ n \notin Ids /\ Ids' = Ids \cup {n} /\ att'[n] = NewAttempt(x)
                   /\ \A i \in Ids :
                        att'[i] = IF x.poc \in DOMAIN cur /\ cur[x.poc] = i
                                  THEN Supersede(att[i]) ELSE att[i]
        BY <1>3, <2>1, InstalledAttempts
    <2>4. att'[n].poc = x.poc BY <2>3 DEF NewAttempt, Snapshot
    <2>5. ClosedKept BY <1>1, <2>2, <2>3, <2>4 DEF ClosedKept
    <2>6. ASSUME NEW i \in Ids
          PROVE  /\ att[i].status \in Ended =>
                        att'[i].status = att[i].status /\ att'[i].verdict = att[i].verdict
                 /\ ~att[i].current => ~att'[i].current
        <3>1. att[i] \in Attempts BY AttemptType DEF EvidenceInv
        <3>2. CASE x.poc \in DOMAIN cur /\ cur[x.poc] = i
            <4>1. att'[i] = Supersede(att[i]) BY <2>3, <3>2
            <4>2. att[i].status \in Ended => att[i].status \notin Live
                BY DEF Ended, Closable, Live
            <4> QED BY <3>1, <4>1, <4>2, SupersedeFacts
        <3>3. CASE ~(x.poc \in DOMAIN cur /\ cur[x.poc] = i)
            <4>1. att'[i] = att[i] BY <2>3, <3>3
            <4> QED BY <4>1
        <3> QED BY <3>2, <3>3
    <2>7. EndKept BY <2>6 DEF EndKept
    <2> QED BY <2>5, <2>7
<1> QED BY <1>2, <1>3

\* Ending an attempt from outside leaves one that has ended alone.
LEMMA TerminalizeKeeps ==
    ASSUME EvidenceInv, NEW a \in Ids, NEW st, Terminalize(a, st), closed' = closed
    PROVE  EndKept /\ ClosedKept
<1>1. CASE att[a].status \in Live
    <2> DEFINE s == Snapshot(att[a], st, NoVerdict, att[a].pack, att[a].current)
    <2>1. att' = [att EXCEPT ![a] = s] BY <1>1 DEF Terminalize
    <2>2. s.current = att[a].current BY DEF Snapshot
    <2>3. att[a].status \notin Ended BY <1>1 DEF Live, Ended, Closable
    <2> HIDE DEF s
    <2> QED BY <2>1, <2>2, <2>3, OneAttemptTouched
<1>2. CASE att[a].status \notin Live
    <2>1. att' = att BY <1>2 DEF Terminalize
    <2> QED BY <2>1, NoAttemptTouched
<1> QED BY <1>1, <1>2

\* An evaluation that comes back leaves one that was ended from outside alone,
\* and gives nobody the flag.
LEMMA EvaluateKeeps ==
    ASSUME EvidenceInv, NEW a \in Ids, Evaluate(a)
    PROVE  EndKept /\ ClosedKept
<1>0. closed' = closed
    BY DEF Evaluate, ExecuteRaise, ExecuteReject, ExecuteComplete, closeVars
<1>1. CASE ExecuteRaise(a)
    BY <1>0, <1>1, TerminalizeKeeps DEF ExecuteRaise
<1>2. CASE a \in work /\ EndedFromOutside(a) /\ ~ExecuteRaise(a)
    <2>1. att' = att BY <1>2 DEF Evaluate, ExecuteReject, ExecuteComplete
    <2> QED BY <1>0, <2>1, NoAttemptTouched
<1>3. ASSUME a \in work, ~EndedFromOutside(a)
      PROVE  att[a].status \notin Ended /\ (att[a].current <=> CurrentNow(a))
    <2>1. att[a].status \in {"RUNNING", "STALE"} /\ (att[a].current <=> IsCurrent(a))
        BY <1>3, OpenAttempt
    <2> QED BY <2>1 DEF Ended, Closable, CurrentNow
<1>4. CASE ExecuteReject(a) /\ ~EndedFromOutside(a)
    <2> DEFINE s == Snapshot(att[a],
                             IF CurrentNow(a) THEN "INGESTION_REJECTED" ELSE "STALE",
                             NoVerdict, att[a].pack, CurrentNow(a))
    <2>1. a \in work /\ att' = [att EXCEPT ![a] = s] BY <1>4 DEF ExecuteReject
    <2>2. s.current = CurrentNow(a) BY DEF Snapshot
    <2>3. att[a].status \notin Ended /\ (att[a].current <=> CurrentNow(a)) BY <1>3, <1>4, <2>1
    <2>4. ~att[a].current => ~s.current BY <2>2, <2>3
    <2> HIDE DEF s
    <2> QED BY <1>0, <2>1, <2>3, <2>4, OneAttemptTouched
<1>5. ASSUME NEW v \in Verdicts, NEW pub \in Publications,
             ExecuteComplete(a, v, pub), ~EndedFromOutside(a)
      PROVE  EndKept /\ ClosedKept
    <2> DEFINE s == Outcome(a, v, pub)
    <2>1. a \in work /\ att' = [att EXCEPT ![a] = s] BY <1>5 DEF ExecuteComplete
    <2>2. att[a].status \notin Ended /\ (att[a].current <=> CurrentNow(a)) BY <1>3, <1>5, <2>1
    <2>3. ~CurrentNow(a) => ~s.current BY DEF Outcome, Snapshot
    <2>4. ~att[a].current => ~s.current BY <2>2, <2>3
    <2> HIDE DEF s
    <2> QED BY <1>0, <2>1, <2>2, <2>4, OneAttemptTouched
<1> QED BY <1>1, <1>2, <1>4, <1>5 DEF Evaluate, ExecuteReject, ExecuteComplete

\* No step of the services undoes an end or a closure.
LEMMA StepKeeps == EvidenceInv /\ [Next]_vars => EndKept /\ ClosedKept
<1> SUFFICES ASSUME EvidenceInv, [Next]_vars PROVE EndKept /\ ClosedKept OBVIOUS
<1>1. ASSUME NEW p \in Pocs, Freeze(p) PROVE EndKept /\ ClosedKept
    <2>1. att' = att /\ closed' = closed BY <1>1 DEF Freeze, svcVars, closeVars
    <2> QED BY <2>1, NoAttemptTouched
<1>2. ASSUME NEW t \in Threads, Reserve(t), ~ReserveInstall(t) PROVE EndKept /\ ClosedKept
    <2>1. att' = att /\ closed' = closed
        BY <1>2 DEF Reserve, ReserveCall, ReserveEnter, ReserveLeave, svcVars, closeVars
    <2> QED BY <2>1, NoAttemptTouched
<1>3. ASSUME NEW t \in Threads, Close(t) PROVE EndKept /\ ClosedKept
    <2>1. att' = att BY <1>3 DEF Close, CloseCall, Record, svcVars
    <2>2. ASSUME NEW p \in DOMAIN closed PROVE p \in DOMAIN closed' /\ closed'[p] = closed[p]
        BY <1>3 DEF Close, CloseCall, Record, closeVars, Closes, StillOpen, Put
    <2> QED BY <2>1, <2>2, NoAttemptTouched
<1>4. ASSUME NEW a \in Ids, ExecuteBegin(a) PROVE EndKept /\ ClosedKept
    <2> DEFINE s == Snapshot(att[a], "RUNNING", att[a].verdict, att[a].pack, att[a].current)
    <2>1. att' = [att EXCEPT ![a] = s] /\ closed' = closed /\ att[a].status \notin Ended
        BY <1>4 DEF ExecuteBegin, closeVars, Ended, Closable
    <2>2. s.current = att[a].current BY DEF Snapshot
    <2> HIDE DEF s
    <2> QED BY <2>1, <2>2, OneAttemptTouched
<1>5. ASSUME NEW a \in Ids, PublishPack(a) PROVE EndKept /\ ClosedKept
    <2> DEFINE s == Snapshot(att[a], "COMPLETED", att[a].verdict, TRUE, TRUE)
    <2>1. att' = [att EXCEPT ![a] = s] /\ closed' = closed
          /\ att[a].status = "COMPLETED" /\ att[a].current
        BY <1>5 DEF PublishPack, closeVars
    <2>2. s.status = "COMPLETED" /\ s.verdict = att[a].verdict BY DEF Snapshot
    <2> HIDE DEF s
    <2> QED BY <2>1, <2>2, OneAttemptTouched
<1>6. ASSUME NEW a \in Ids, Cancel(a) \/ Fail(a) PROVE EndKept /\ ClosedKept
    BY <1>6, TerminalizeKeeps DEF Cancel, Fail, closeVars
<1>7. CASE UNCHANGED vars
    <2>1. att' = att /\ closed' = closed BY <1>7 DEF vars, svcVars, closeVars
    <2> QED BY <2>1, NoAttemptTouched
<1> QED
    BY <1>1, <1>2, <1>3, <1>4, <1>5, <1>6, <1>7, InstallKeeps, EvaluateKeeps DEF Next, Reserve

\* A closure is never replaced and no attempt is reserved after it; an attempt
\* that ended keeps its status and verdict, whatever was under way.
THEOREM EndsAreFinal == Spec => ClosureIsFinal
<1>1. EvidenceInv /\ [Next]_vars => [EndKept]_vars /\ [ClosedKept]_vars BY StepKeeps
<1>2. Spec => [][EndKept]_vars /\ [][ClosedKept]_vars
    BY <1>1, EvidenceInvariant, PTL DEF Spec
<1> QED BY <1>2 DEF ClosureIsFinal, NothingAfterClosure, EndIsFinal, EndKept, ClosedKept

-----------------------------------------------------------------------------
(***************************************************************************)
(* The single-criterion service (ExecutableEvidence).                      *)
(***************************************************************************)

Runs ==
    [poc : RunPocs, status : Unended \cup Dead \cup {"COMPLETED", "STALE"},
     verdict : Results \cup {NoResult}, current : BOOLEAN]

\* The type of the service's dictionaries; _current_by_poc has a run of every
\* POC that has one, and a fixture under way has not stored its result.
RunInv ==
    /\ exec \in Seq(Runs)
    /\ IsDict(currentRun, RunPocs, RunIds)
    /\ running \subseteq RunIds
    /\ \A a \in RunIds : exec[a].poc \in DOMAIN currentRun
    /\ \A p \in DOMAIN currentRun : exec[currentRun[p]].poc = p
    /\ \A a \in running : exec[a].status \in Dead \cup {"RUNNING", "STALE"}
    /\ CurrentIsFresh

\* What the invariant asks of one run, current or not.
Fresh(s, isCurrent) ==
    IF isCurrent
    THEN /\ s.current /\ s.status # "STALE"
         /\ s.verdict # NoResult <=> s.status = "COMPLETED"
    ELSE ~s.current /\ s.status = "STALE"

\* One run is stored, of the same POC and as fresh as before.
LEMMA OneRun ==
    ASSUME RunInv, NEW a \in RunIds, NEW s \in Runs, s.poc = exec[a].poc,
           Fresh(s, IsCurrentRun(a)),
           exec' = [exec EXCEPT ![a] = s], currentRun' = currentRun,
           running' \subseteq running \cup {a},
           a \in running' => s.status \in Dead \cup {"RUNNING", "STALE"}
    PROVE  RunInv'
<1>1. /\ RunIds' = RunIds /\ exec' \in Seq(Runs) /\ exec'[a] = s
      /\ \A b \in RunIds : b # a => exec'[b] = exec[b]
    BY DEF RunInv, RunIds
<1>2. \A b \in RunIds : exec'[b].poc = exec[b].poc BY <1>1
<1>3. \A b \in RunIds : IsCurrentRun(b)' <=> IsCurrentRun(b) BY <1>2 DEF IsCurrentRun
<1>4. CurrentIsFresh'
    <2>1. ASSUME NEW b \in RunIds PROVE Fresh(exec'[b], IsCurrentRun(b)')
        <3>1. CASE b = a BY <1>1, <1>3, <3>1 DEF Fresh
        <3>2. CASE b # a
            <4>1. Fresh(exec[b], IsCurrentRun(b)) BY DEF RunInv, CurrentIsFresh, Fresh
            <4> QED BY <1>1, <1>3, <3>2, <4>1 DEF Fresh
        <3> QED BY <3>1, <3>2
    <2> QED BY <1>1, <2>1 DEF CurrentIsFresh, Fresh
<1>5. \A p \in DOMAIN currentRun : currentRun[p] \in RunIds BY DEF RunInv, IsDict
<1>6. running' \subseteq RunIds
      /\ \A b \in running' : exec'[b].status \in Dead \cup {"RUNNING", "STALE"}
    BY <1>1 DEF RunInv
<1>7. /\ IsDict(currentRun', RunPocs, RunIds')
      /\ \A b \in RunIds' : exec'[b].poc \in DOMAIN currentRun'
      /\ \A p \in DOMAIN currentRun' : exec'[currentRun'[p]].poc = p
    BY <1>1, <1>2, <1>5 DEF RunInv
<1> QED BY <1>1, <1>4, <1>6, <1>7 DEF RunInv

\* No run changes.
LEMMA SameRuns ==
    ASSUME RunInv, exec' = exec, currentRun' = currentRun, running' \subseteq running
    PROVE  RunInv'
BY DEF RunInv, RunIds, CurrentIsFresh, IsCurrentRun

\* What a run is made of, and what the invariant says of it.
LEMMA RunFacts ==
    ASSUME RunInv, NEW a \in RunIds
    PROVE  exec[a] \in Runs /\ Fresh(exec[a], IsCurrentRun(a))
BY DEF RunInv, RunIds, CurrentIsFresh, Fresh

\* A run that is cancelled or fails, whoever says so.
LEMMA EndRunStep ==
    ASSUME RunInv, NEW a \in RunIds, NEW st \in Dead, EndRun(a, st),
           currentRun' = currentRun, running' \subseteq running
    PROVE  RunInv'
<1>1. CASE exec[a].status \in Unended
    <2> DEFINE s == RunSnapshot(exec[a], st, NoResult, exec[a].current)
    <2>1. exec' = [exec EXCEPT ![a] = s] BY <1>1 DEF EndRun
    <2>2. exec[a] \in Runs /\ Fresh(exec[a], IsCurrentRun(a)) BY RunFacts
    <2>3. s \in Runs /\ s.poc = exec[a].poc /\ s.status = st /\ s.verdict = NoResult
          /\ s.current = exec[a].current
        BY <2>2 DEF RunSnapshot, Runs
    <2> HIDE DEF s
    <2>4. Fresh(s, IsCurrentRun(a)) BY <1>1, <2>2, <2>3 DEF Fresh, Unended, Dead
    <2> QED BY <2>1, <2>3, <2>4, OneRun
<1>2. CASE exec[a].status \notin Unended
    <2>1. exec' = exec BY <1>2 DEF EndRun
    <2> QED BY <2>1, SameRuns
<1> QED BY <1>1, <1>2

\* The result of a fixture is stored.
LEMMA RunCompleteStep ==
    ASSUME RunInv, NEW a \in RunIds, NEW v \in Results, RunComplete(a, v)
    PROVE  RunInv'
<1>1. a \in running /\ running' = running \ {a} /\ currentRun' = currentRun BY DEF RunComplete
<1>2. CASE exec[a].status \in Dead
    <2>1. exec' = exec BY <1>2 DEF RunComplete
    <2> QED BY <1>1, <2>1, SameRuns
<1>3. CASE exec[a].status \notin Dead
    <2>1. exec[a] \in Runs /\ v # NoResult BY RunFacts, ExecutableAssumption
    <2>2. CASE IsCurrentRun(a)
        <3> DEFINE s == RunSnapshot(exec[a], "COMPLETED", v, TRUE)
        <3>1. exec' = [exec EXCEPT ![a] = s] BY <1>3, <2>2 DEF RunComplete
        <3>2. s \in Runs /\ s.poc = exec[a].poc BY <2>1 DEF RunSnapshot, Runs
        <3>3. Fresh(s, IsCurrentRun(a)) BY <2>1, <2>2 DEF Fresh, RunSnapshot
        <3> HIDE DEF s
        <3> QED BY <1>1, <3>1, <3>2, <3>3, OneRun
    <2>3. CASE ~IsCurrentRun(a)
        <3> DEFINE s == RunSnapshot(exec[a], "STALE", v, IsCurrentRun(a))
        <3>1. exec' = [exec EXCEPT ![a] = s] BY <1>3, <2>3 DEF RunComplete
        <3>2. s \in Runs /\ s.poc = exec[a].poc
            <4>1. IsCurrentRun(a) \in BOOLEAN BY DEF IsCurrentRun
            <4> QED BY <2>1, <4>1 DEF RunSnapshot, Runs
        <3>3. Fresh(s, IsCurrentRun(a)) BY <2>3 DEF Fresh, RunSnapshot
        <3> HIDE DEF s
        <3> QED BY <1>1, <3>1, <3>2, <3>3, OneRun
    <2> QED BY <2>2, <2>3
<1> QED BY <1>2, <1>3

\* execute marks a reserved run running.
LEMMA RunBeginStep ==
    ASSUME RunInv, NEW a \in RunIds, RunBegin(a)
    PROVE  RunInv'
<1> DEFINE s == RunSnapshot(exec[a], "RUNNING", exec[a].verdict, exec[a].current)
<1>1. /\ exec[a].status = "RESERVED" /\ exec' = [exec EXCEPT ![a] = s]
      /\ currentRun' = currentRun /\ running' = running \cup {a}
    BY DEF RunBegin
<1>2. exec[a] \in Runs /\ Fresh(exec[a], IsCurrentRun(a)) BY RunFacts
<1>3. s \in Runs /\ s.poc = exec[a].poc /\ s.status = "RUNNING" /\ s.verdict = exec[a].verdict
      /\ s.current = exec[a].current
    BY <1>2 DEF RunSnapshot, Runs, Unended
<1> HIDE DEF s
<1>4. Fresh(s, IsCurrentRun(a)) BY <1>1, <1>2, <1>3 DEF Fresh
<1> QED BY <1>1, <1>3, <1>4, OneRun

\* A reservation takes the place of the current run of its POC.
LEMMA ReserveRunStep ==
    ASSUME RunInv, NEW p \in RunPocs, NEW k \in RunKeys, ReserveRun(p, k)
    PROVE  RunInv'
<1>0. PICK n : n = Len(exec) + 1 OBVIOUS
<1> DEFINE new == [poc |-> p, status |-> "RESERVED", verdict |-> NoResult, current |-> TRUE]
           Old(i) == IF p \in DOMAIN currentRun /\ currentRun[p] = i
                     THEN Replaced(exec[i]) ELSE exec[i]
           old == [i \in RunIds |-> Old(i)]
<1>1. /\ exec' = Append(old, new) /\ currentRun' = Put(currentRun, p, n)
      /\ running' = running
    BY <1>0 DEF ReserveRun
<1>2. exec \in Seq(Runs) /\ Len(exec) \in Nat BY DEF RunInv
<1>3. \A i \in RunIds : Old(i) \in Runs
    <2>1. \A i \in RunIds : exec[i] \in Runs BY RunFacts
    <2> QED BY <2>1 DEF Replaced, RunSnapshot, Runs
<1>4. new \in Runs BY DEF Runs, Unended
<1> HIDE DEF Old, new
<1>5. old \in Seq(Runs) /\ Len(old) = Len(exec) /\ \A i \in RunIds : old[i] = Old(i)
    BY <1>2, <1>3 DEF RunIds
<1> HIDE DEF old
<1>6. /\ exec' \in Seq(Runs) /\ n \notin RunIds /\ RunIds' = RunIds \cup {n}
      /\ exec'[n] = new /\ \A i \in RunIds : exec'[i] = Old(i)
    BY <1>0, <1>1, <1>2, <1>4, <1>5 DEF RunIds
<1>7. /\ DOMAIN currentRun' = DOMAIN currentRun \cup {p} /\ currentRun'[p] = n
      /\ \A q \in DOMAIN currentRun : q # p => currentRun'[q] = currentRun[q]
    BY <1>1 DEF Put
<1>8. \A q \in DOMAIN currentRun : q \in RunPocs /\ currentRun[q] \in RunIds
    BY DEF RunInv, IsDict
<1>9. IsDict(currentRun', RunPocs, RunIds')
    <2>1. IsDict(currentRun, RunPocs, RunIds') BY <1>6 DEF RunInv, IsDict
    <2> QED BY <1>1, <1>6, <2>1, PutType
<1>10. \A i \in RunIds : Old(i).poc = exec[i].poc BY DEF Old, Replaced, RunSnapshot
<1>11. new.poc = p /\ new.status = "RESERVED" /\ new.verdict = NoResult /\ new.current
    BY DEF new
<1>12. \A i \in RunIds' : exec'[i].poc \in DOMAIN currentRun'
    BY <1>6, <1>7, <1>10, <1>11 DEF RunInv
<1>13. \A q \in DOMAIN currentRun' : exec'[currentRun'[q]].poc = q
    BY <1>6, <1>7, <1>8, <1>10, <1>11 DEF RunInv
<1>14. /\ running' \subseteq RunIds'
       /\ \A i \in running' : exec'[i].status \in Dead \cup {"RUNNING", "STALE"}
    <2>1. running \subseteq RunIds
          /\ \A i \in running : exec[i].status \in Dead \cup {"RUNNING", "STALE"}
        BY DEF RunInv
    <2>2. \A i \in RunIds : Old(i).status = "STALE" \/ Old(i).status = exec[i].status
        BY DEF Old, Replaced, RunSnapshot
    <2> QED BY <1>1, <1>6, <2>1, <2>2
<1>15. ASSUME NEW i \in RunIds PROVE Fresh(exec'[i], IsCurrentRun(i)')
    <2>1. exec'[i] = Old(i) /\ exec'[i].poc = exec[i].poc BY <1>6, <1>10
    <2>2. Fresh(exec[i], IsCurrentRun(i)) /\ exec[i].poc \in DOMAIN currentRun
        BY RunFacts DEF RunInv
    <2>3. CASE p \in DOMAIN currentRun /\ currentRun[p] = i
        <3>1. exec[i].poc = p BY <2>3 DEF RunInv
        <3>2. ~IsCurrentRun(i)' BY <1>6, <1>7, <2>1, <3>1 DEF IsCurrentRun
        <3> QED BY <2>1, <2>3, <3>2 DEF Fresh, Old, Replaced, RunSnapshot
    <2>4. CASE ~(p \in DOMAIN currentRun /\ currentRun[p] = i)
        <3>1. exec'[i] = exec[i] BY <2>1, <2>4 DEF Old
        <3>2. CASE exec[i].poc = p
            <4>1. ~IsCurrentRun(i)' BY <1>6, <1>7, <3>1, <3>2 DEF IsCurrentRun
            <4>2. ~IsCurrentRun(i) BY <2>2, <2>4, <3>2 DEF IsCurrentRun
            <4> QED BY <2>2, <3>1, <4>1, <4>2 DEF Fresh
        <3>3. CASE exec[i].poc # p
            <4>1. IsCurrentRun(i)' <=> IsCurrentRun(i)
                BY <1>7, <2>2, <3>1, <3>3 DEF IsCurrentRun
            <4> QED BY <2>2, <3>1, <4>1 DEF Fresh
        <3> QED BY <3>2, <3>3
    <2> QED BY <2>3, <2>4
<1>16. Fresh(exec'[n], IsCurrentRun(n)') BY <1>6, <1>7, <1>11 DEF Fresh, IsCurrentRun
<1>17. CurrentIsFresh' BY <1>6, <1>15, <1>16 DEF CurrentIsFresh, Fresh
<1> QED BY <1>6, <1>9, <1>12, <1>13, <1>14, <1>17 DEF RunInv

\* Every reachable state of the single-criterion service satisfies its invariant.
THEOREM RunsStayFresh == ExecSpec => []RunInv
<1>1. ExecInit => RunInv
    BY EmptyType DEF ExecInit, RunInv, RunIds, CurrentIsFresh, Runs
<1>2. RunInv /\ [ExecNext]_execVars => RunInv'
    <2> SUFFICES ASSUME RunInv, [ExecNext]_execVars PROVE RunInv' OBVIOUS
    <2>1. ASSUME NEW a \in RunIds, Finish(a) PROVE RunInv'
        <3>1. ASSUME RunRaise(a) PROVE RunInv'
            <4>1. /\ EndRun(a, "FAILED_INTERNAL") /\ currentRun' = currentRun
                  /\ running' \subseteq running
                BY <3>1 DEF RunRaise
            <4> QED BY <4>1, EndRunStep DEF Dead
        <3> QED BY <2>1, <3>1, RunCompleteStep DEF Finish
    <2>2. ASSUME NEW a \in RunIds, NEW st \in Dead, End(a, st) PROVE RunInv'
        BY <2>2, EndRunStep DEF End
    <2>3. CASE UNCHANGED execVars BY <2>3, SameRuns DEF execVars
    <2> QED BY <2>1, <2>2, <2>3, ReserveRunStep, RunBeginStep DEF ExecNext
<1> QED BY <1>1, <1>2, PTL DEF ExecSpec

\* What the two evidence services show of attempts is consistent: one current
\* attempt per POC, the one its pointer names, one attempt per key, verdicts only
\* where an evaluation ended, replays answered with the recorded closure, and a
\* current run that is never stale.
THEOREM AttemptsStayCoherent == Spec /\ ExecSpec => []AttemptsAreCoherent
<1>1. EvidenceInv => KeyNamesOneAttempt
    <2> SUFFICES ASSUME EvidenceInv PROVE KeyNamesOneAttempt OBVIOUS
    <2>1. KeysAreKept BY DEF EvidenceInv
    <2> QED BY <2>1 DEF KeysAreKept, KeyNamesOneAttempt
<1>2. EvidenceInv /\ RunInv => AttemptsAreCoherent
    BY <1>1 DEF EvidenceInv, RunInv, AttemptsAreCoherent
<1> QED BY <1>2, EvidenceInvariant, RunsStayFresh, PTL

-----------------------------------------------------------------------------
(***************************************************************************)
(* The published pack (EvidencePack).                                      *)
(***************************************************************************)

\* The steps at which a publisher holds the final directory.
Holding == {"link", "sync", "remove_tmp", "sync_root", "drop_both"}

Steps == Holding \cup {"stage", "claim", "drop_tmp", "done", "dead"}

PackTypeOK ==
    /\ tmp \in [Publishers -> SUBSET Files]
    /\ owner \in Publishers \cup {Nobody}
    /\ dest \subseteq Entries /\ safe \subseteq Entries
    /\ rooted \in BOOLEAN
    /\ pc \in [Publishers -> Steps]
    /\ outcome \in [Publishers -> {"none", "published", "error"}]

\* A publisher that holds the directory made it, and nothing of the pack is lost
\* between the temporary directory and the final one.
HolderIsOwner(w) ==
    /\ pc[w] \in Holding => owner = w
    /\ pc[w] = "claim" => tmp[w] = Files
    /\ pc[w] = "link" => Files \subseteq dest \cup tmp[w]
    /\ pc[w] \in {"sync", "remove_tmp", "sync_root"} => Verifies
    /\ pc[w] \in {"remove_tmp", "sync_root"} => safe = Entries

\* A published pack is complete on the disk, and its publisher has nothing to do.
PublishedIsSafe(w) ==
    outcome[w] = "published" =>
        /\ pc[w] \in {"done", "dead"}
        /\ owner = w /\ Verifies /\ safe = Entries /\ rooted

PackInv ==
    /\ PackTypeOK
    /\ \A w \in Publishers : HolderIsOwner(w) /\ PublishedIsSafe(w)

\* A step of the publisher that holds the directory: the others hold nothing.
LEMMA HolderStep ==
    ASSUME PackInv, NEW w \in Publishers, pc[w] \in Holding, PackTypeOK',
           \A v \in Publishers : v # w =>
                pc'[v] = pc[v] /\ tmp'[v] = tmp[v] /\ outcome'[v] = outcome[v],
           HolderIsOwner(w)', PublishedIsSafe(w)'
    PROVE  PackInv'
<1>1. owner = w BY DEF PackInv, HolderIsOwner
<1>2. ASSUME NEW v \in Publishers, v # w PROVE HolderIsOwner(v)' /\ PublishedIsSafe(v)'
    <2>1. pc[v] \notin Holding /\ outcome[v] # "published"
        BY <1>1, <1>2 DEF PackInv, HolderIsOwner, PublishedIsSafe
    <2>2. pc'[v] = pc[v] /\ tmp'[v] = tmp[v] /\ outcome'[v] = outcome[v] BY <1>2
    <2>3. pc[v] = "claim" => tmp[v] = Files BY DEF PackInv, HolderIsOwner
    <2> QED BY <2>1, <2>2, <2>3 DEF HolderIsOwner, PublishedIsSafe, Holding
<1> QED BY <1>2 DEF PackInv

\* A step of one publisher that leaves the disk alone.
LEMMA OffDiskStep ==
    ASSUME PackInv, NEW w \in Publishers, UNCHANGED diskVars, PackTypeOK',
           \A v \in Publishers : v # w =>
                pc'[v] = pc[v] /\ tmp'[v] = tmp[v] /\ outcome'[v] = outcome[v],
           HolderIsOwner(w)', PublishedIsSafe(w)'
    PROVE  PackInv'
<1>1. ASSUME NEW v \in Publishers, v # w PROVE HolderIsOwner(v)' /\ PublishedIsSafe(v)'
    <2>1. pc'[v] = pc[v] /\ tmp'[v] = tmp[v] /\ outcome'[v] = outcome[v] BY <1>1
    <2>2. HolderIsOwner(v) /\ PublishedIsSafe(v) BY DEF PackInv
    <2> QED BY <2>1, <2>2 DEF HolderIsOwner, PublishedIsSafe, diskVars, Verifies
<1> QED BY <1>1 DEF PackInv

\* Staging: no file is on the disk yet.
LEMMA StageStep == ASSUME PackInv, NEW w \in Publishers, Stage(w) PROVE PackInv'
<1>1. PackTypeOK' BY DEF PackInv, PackTypeOK, Stage, Goto, Steps, Holding, diskVars
<1>2. /\ pc'[w] = "claim" /\ tmp'[w] = Files /\ outcome'[w] = outcome[w]
      /\ \A v \in Publishers : v # w =>
            pc'[v] = pc[v] /\ tmp'[v] = tmp[v] /\ outcome'[v] = outcome[v]
    BY DEF PackInv, PackTypeOK, Stage, Goto
<1>3. outcome[w] # "published" BY DEF Stage, PackInv, PublishedIsSafe
<1>4. HolderIsOwner(w)' /\ PublishedIsSafe(w)'
    BY <1>2, <1>3 DEF HolderIsOwner, PublishedIsSafe, Holding
<1> QED BY <1>1, <1>2, <1>4, OffDiskStep DEF Stage

\* Claiming: the name is free only when nobody holds or published the pack.
LEMMA ClaimStep == ASSUME PackInv, NEW w \in Publishers, Claim(w) PROVE PackInv'
<1>1. PackTypeOK'
    BY DEF PackInv, PackTypeOK, Claim, NameTaken, Goto, Steps, Holding, diskVars
<1>2. /\ tmp'[w] = Files /\ outcome'[w] = outcome[w] /\ outcome[w] # "published"
      /\ \A v \in Publishers : v # w =>
            pc'[v] = pc[v] /\ tmp'[v] = tmp[v] /\ outcome'[v] = outcome[v]
    BY DEF PackInv, PackTypeOK, HolderIsOwner, PublishedIsSafe, Claim, NameTaken, Goto
<1>3. CASE NameFree
    <2>1. owner = Nobody /\ owner' = w /\ pc'[w] = "link"
        BY <1>3 DEF Claim, NameFree, Goto, PackInv, PackTypeOK
    <2>2. ASSUME NEW v \in Publishers, v # w PROVE HolderIsOwner(v)' /\ PublishedIsSafe(v)'
        <3>1. owner # v BY <2>1, EvidencePackAssumption
        <3>2. pc[v] \notin Holding /\ outcome[v] # "published" /\ (pc[v] = "claim" => tmp[v] = Files)
            BY <3>1 DEF PackInv, HolderIsOwner, PublishedIsSafe
        <3> QED BY <1>2, <2>2, <3>2 DEF HolderIsOwner, PublishedIsSafe, Holding
    <2>3. HolderIsOwner(w)' /\ PublishedIsSafe(w)'
        BY <1>2, <2>1 DEF HolderIsOwner, PublishedIsSafe
    <2> QED BY <1>1, <2>2, <2>3 DEF PackInv
<1>4. CASE ~NameFree
    <2>1. pc'[w] = "drop_tmp" /\ UNCHANGED diskVars
        BY <1>4 DEF Claim, NameTaken, Goto, PackInv, PackTypeOK
    <2>2. HolderIsOwner(w)' /\ PublishedIsSafe(w)'
        BY <1>2, <2>1 DEF HolderIsOwner, PublishedIsSafe, Holding
    <2> QED BY <1>1, <1>2, <2>1, <2>2, OffDiskStep
<1> QED BY <1>3, <1>4

\* A file moves from the temporary directory into the final one.
LEMMA LinkStep == ASSUME PackInv, NEW w \in Publishers, Link(w) PROVE PackInv'
<1>1. PICK f \in Files : /\ dest' = dest \cup {f} /\ tmp' = [tmp EXCEPT ![w] = @ \ {f}]
    BY DEF Link, Files, Range
<1>2. PackTypeOK' BY <1>1 DEF PackInv, PackTypeOK, Link, Entries
<1>3. /\ pc[w] = "link" /\ pc' = pc /\ outcome' = outcome /\ owner' = owner
      /\ tmp'[w] = tmp[w] \ {f} /\ \A v \in Publishers : v # w => tmp'[v] = tmp[v]
    BY <1>1 DEF PackInv, PackTypeOK, Link
<1>4. HolderIsOwner(w) /\ PublishedIsSafe(w) BY DEF PackInv
<1>5. HolderIsOwner(w)' /\ PublishedIsSafe(w)'
    BY <1>1, <1>3, <1>4 DEF HolderIsOwner, PublishedIsSafe
<1> QED BY <1>2, <1>3, <1>5, HolderStep DEF Holding

\* The marker comes last: the entries are complete.
LEMMA MarkStep == ASSUME PackInv, NEW w \in Publishers, Mark(w) PROVE PackInv'
<1>1. PackTypeOK' BY DEF PackInv, PackTypeOK, Mark, Entries, Goto, Steps, Holding
<1>2. /\ pc[w] = "link" /\ pc'[w] = "sync" /\ tmp[w] = {} /\ dest' = dest \cup {Marker}
      /\ outcome' = outcome /\ owner' = owner /\ tmp' = tmp
      /\ \A v \in Publishers : v # w => pc'[v] = pc[v]
    BY DEF PackInv, PackTypeOK, Mark, Goto
<1>3. HolderIsOwner(w) /\ PublishedIsSafe(w) /\ dest \subseteq Entries
    BY DEF PackInv, PackTypeOK
<1>4. owner = w /\ Files \subseteq dest /\ outcome[w] # "published"
    BY <1>2, <1>3 DEF HolderIsOwner, PublishedIsSafe, Holding
<1>5. Verifies' BY <1>2, <1>3, <1>4 DEF Verifies, Entries
<1>6. HolderIsOwner(w)' /\ PublishedIsSafe(w)'
    BY <1>2, <1>4, <1>5 DEF HolderIsOwner, PublishedIsSafe
<1> QED BY <1>1, <1>2, <1>6, HolderStep DEF Holding

\* After the directory is synced its entries survive a crash.
LEMMA SyncStep == ASSUME PackInv, NEW w \in Publishers, Sync(w) PROVE PackInv'
<1>1. PackTypeOK' BY DEF PackInv, PackTypeOK, Sync, SyncEntries, Goto, Steps, Holding
<1>2. /\ pc[w] = "sync" /\ pc'[w] = "remove_tmp" /\ dest' = dest /\ safe' = dest
      /\ outcome' = outcome /\ owner' = owner /\ tmp' = tmp
      /\ \A v \in Publishers : v # w => pc'[v] = pc[v]
    BY DEF PackInv, PackTypeOK, Sync, SyncEntries, Goto
<1>3. HolderIsOwner(w) /\ PublishedIsSafe(w) BY DEF PackInv
<1>4. HolderIsOwner(w)' /\ PublishedIsSafe(w)'
    BY <1>2, <1>3 DEF HolderIsOwner, PublishedIsSafe, Holding, Verifies
<1> QED BY <1>1, <1>2, <1>4, HolderStep DEF Holding

LEMMA RemoveTmpStep == ASSUME PackInv, NEW w \in Publishers, RemoveTmp(w) PROVE PackInv'
<1>1. PackTypeOK' BY DEF PackInv, PackTypeOK, RemoveTmp, diskVars, Goto, Steps, Holding
<1>2. /\ pc[w] = "remove_tmp" /\ pc'[w] = "sync_root" /\ UNCHANGED diskVars
      /\ outcome' = outcome
      /\ \A v \in Publishers : v # w => pc'[v] = pc[v] /\ tmp'[v] = tmp[v]
    BY DEF PackInv, PackTypeOK, RemoveTmp, Goto
<1>3. HolderIsOwner(w) /\ PublishedIsSafe(w) BY DEF PackInv
<1>4. HolderIsOwner(w)' /\ PublishedIsSafe(w)'
    BY <1>2, <1>3 DEF HolderIsOwner, PublishedIsSafe, Holding, Verifies, diskVars
<1> QED BY <1>1, <1>2, <1>4, OffDiskStep

\* The call reports success when nothing of the pack can be lost any more.
LEMMA SyncRootStep == ASSUME PackInv, NEW w \in Publishers, SyncRoot(w) PROVE PackInv'
<1>1. PackTypeOK' BY DEF PackInv, PackTypeOK, SyncRoot, Goto, Steps, Holding
<1>2. /\ pc[w] = "sync_root" /\ pc'[w] = "done" /\ outcome'[w] = "published" /\ rooted' = TRUE
      /\ dest' = dest /\ safe' = safe /\ owner' = owner /\ tmp' = tmp
      /\ \A v \in Publishers : v # w => pc'[v] = pc[v] /\ outcome'[v] = outcome[v]
    BY DEF PackInv, PackTypeOK, SyncRoot, Goto
<1>3. owner = w /\ Verifies /\ safe = Entries
    BY <1>2 DEF PackInv, HolderIsOwner, Holding
<1>4. HolderIsOwner(w)' /\ PublishedIsSafe(w)'
    BY <1>2, <1>3 DEF HolderIsOwner, PublishedIsSafe, Holding, Verifies
<1> QED BY <1>1, <1>2, <1>4, HolderStep DEF Holding

\* The steps at which nothing is known of the disk but its owner.
Moves == {"stage", "drop_tmp", "drop_both", "done", "dead"}

\* A failing step, a retry and a kill move one publisher and leave the disk alone.
LEMMA MoveStep ==
    ASSUME PackInv, NEW w \in Publishers, NEW step \in Moves,
           Goto(w, step), UNCHANGED <<tmp, diskVars>>,
           NEW o \in {"none", "published", "error"}, outcome' = [outcome EXCEPT ![w] = o],
           o = "published" => outcome[w] = "published" /\ step \in {"done", "dead"},
           step = "drop_both" => owner = w
    PROVE  PackInv'
<1>1. PackTypeOK' BY DEF PackInv, PackTypeOK, Goto, diskVars, Moves, Steps, Holding
<1>2. /\ pc'[w] = step /\ outcome'[w] = o /\ tmp' = tmp
      /\ \A v \in Publishers : v # w => pc'[v] = pc[v] /\ outcome'[v] = outcome[v]
    BY DEF PackInv, PackTypeOK, Goto
<1>3. PublishedIsSafe(w) BY DEF PackInv
<1>4. HolderIsOwner(w)' /\ PublishedIsSafe(w)'
    BY <1>2, <1>3 DEF HolderIsOwner, PublishedIsSafe, Holding, Verifies, diskVars, Moves
<1> QED BY <1>1, <1>2, <1>4, OffDiskStep

LEMMA RaiseStep == ASSUME PackInv, NEW w \in Publishers, Raise(w) PROVE PackInv'
<1>1. /\ pc[w] \in {"stage", "claim", "link", "sync", "remove_tmp", "sync_root"}
      /\ UNCHANGED <<tmp, diskVars>>
    BY DEF Raise
<1>2. outcome[w] \in {"none", "error"} /\ outcome = [outcome EXCEPT ![w] = outcome[w]]
    BY <1>1 DEF PackInv, PackTypeOK, PublishedIsSafe
<1>3. CASE pc[w] = "sync_root"
    <2>1. Goto(w, "done") /\ outcome' = [outcome EXCEPT ![w] = "error"] BY <1>3 DEF Raise
    <2>2. "done" \in Moves /\ "done" # "drop_both" /\ "error" # "published" BY DEF Moves
    <2> QED BY <1>1, <2>1, <2>2, MoveStep
<1>4. CASE pc[w] \in {"stage", "claim"}
    <2>1. Goto(w, "drop_tmp") /\ outcome' = [outcome EXCEPT ![w] = outcome[w]]
        BY <1>2, <1>4 DEF Raise
    <2> QED BY <1>1, <1>2, <2>1, MoveStep DEF Moves
<1>5. CASE pc[w] \in {"link", "sync", "remove_tmp"}
    <2>1. Goto(w, "drop_both") /\ outcome' = [outcome EXCEPT ![w] = outcome[w]] /\ owner = w
        BY <1>2, <1>5 DEF Raise, PackInv, HolderIsOwner, Holding
    <2> QED BY <1>1, <1>2, <2>1, MoveStep DEF Moves
<1> QED BY <1>1, <1>3, <1>4, <1>5

\* The finally clause removes only what its own call made.
LEMMA CleanupStep == ASSUME PackInv, NEW w \in Publishers, Cleanup(w) PROVE PackInv'
<1>1. /\ pc[w] \in {"drop_tmp", "drop_both"} /\ pc'[w] = "done" /\ outcome'[w] = "error"
      /\ \A v \in Publishers : v # w =>
            pc'[v] = pc[v] /\ tmp'[v] = tmp[v] /\ outcome'[v] = outcome[v]
    BY DEF PackInv, PackTypeOK, Cleanup, Goto
<1>2. HolderIsOwner(w)' /\ PublishedIsSafe(w)'
    BY <1>1 DEF HolderIsOwner, PublishedIsSafe, Holding
<1>3. PICK rest \in SUBSET Entries : Leftovers(w, rest) BY DEF Cleanup
<1>4. /\ owner' \in Publishers \cup {Nobody} /\ dest' \subseteq Entries
      /\ safe' \subseteq Entries /\ rooted' \in BOOLEAN
    BY <1>3 DEF Leftovers, PackInv, PackTypeOK, diskVars
<1>5. PackTypeOK' BY <1>4 DEF PackInv, PackTypeOK, Cleanup, Goto, Steps
<1>6. CASE pc[w] = "drop_tmp"
    <2>1. UNCHANGED diskVars BY <1>3, <1>6 DEF Leftovers
    <2> QED BY <1>1, <1>2, <1>5, <2>1, OffDiskStep
<1>7. CASE pc[w] = "drop_both"
    BY <1>1, <1>2, <1>5, <1>7, HolderStep DEF Holding
<1> QED BY <1>1, <1>6, <1>7

\* A crash takes only what was not synced, and leaves no process behind.
LEMMA CrashStep == ASSUME PackInv, Crash PROVE PackInv'
<1>1. pc' = [w \in Publishers |-> "dead"] /\ tmp' = tmp /\ outcome' = outcome BY DEF Crash
<1>2. PackTypeOK' BY <1>1 DEF PackInv, PackTypeOK, Crash, Steps
<1>3. ASSUME NEW w \in Publishers PROVE HolderIsOwner(w)'
    BY <1>1 DEF HolderIsOwner, Holding
<1>4. ASSUME NEW w \in Publishers, outcome[w] = "published"
      PROVE  owner' = w /\ Verifies' /\ safe' = Entries /\ rooted'
    <2>1. owner = w /\ dest = Entries /\ safe = Entries /\ rooted
        BY <1>4 DEF PackInv, PublishedIsSafe, Verifies
    <2> QED BY <2>1 DEF Crash, Verifies
<1>5. \A w \in Publishers : PublishedIsSafe(w)' BY <1>1, <1>4 DEF PublishedIsSafe
<1> QED BY <1>2, <1>3, <1>5 DEF PackInv

\* No publisher, failure, kill or crash breaks the invariant of the disk.
THEOREM PackInvariant == PackSpec => []PackInv
<1>1. PackInit => PackInv
    BY DEF PackInit, PackInv, PackTypeOK, HolderIsOwner, PublishedIsSafe, Steps, Holding
<1>2. PackInv /\ [PackNext]_packVars => PackInv'
    <2> SUFFICES ASSUME PackInv, [PackNext]_packVars PROVE PackInv' OBVIOUS
    <2>1. ASSUME NEW w \in Publishers, Publish(w) PROVE PackInv'
        BY <2>1, StageStep, ClaimStep, LinkStep, MarkStep, SyncStep, RemoveTmpStep, SyncRootStep
        DEF Publish
    <2>2. ASSUME NEW w \in Publishers, Retry(w) PROVE PackInv'
        <3>1. /\ Goto(w, "stage") /\ UNCHANGED <<tmp, diskVars>>
              /\ outcome' = [outcome EXCEPT ![w] = "error"]
            BY <2>2 DEF Retry, PackInv, PackTypeOK
        <3>2. "stage" \in Moves /\ "stage" # "drop_both" /\ "error" # "published" BY DEF Moves
        <3> QED BY <3>1, <3>2, MoveStep
    <2>3. ASSUME NEW w \in Publishers, Kill(w) PROVE PackInv'
        <3>1. /\ Goto(w, "dead") /\ UNCHANGED <<tmp, diskVars>>
              /\ outcome' = [outcome EXCEPT ![w] = outcome[w]]
              /\ outcome[w] \in {"none", "published", "error"}
            BY <2>3 DEF Kill, PackInv, PackTypeOK
        <3>2. "dead" \in Moves /\ "dead" # "drop_both" /\ "dead" \in {"done", "dead"} BY DEF Moves
        <3> QED BY <3>1, <3>2, MoveStep
    <2>4. CASE UNCHANGED packVars
        BY <2>4 DEF packVars, PackInv, PackTypeOK, HolderIsOwner, PublishedIsSafe, Verifies
    <2> QED BY <2>1, <2>2, <2>3, <2>4, RaiseStep, CleanupStep, CrashStep DEF PackNext
<1> QED BY <1>1, <1>2, PTL DEF PackSpec

\* A pack whose call reported success verifies for ever, whatever other
\* publishers, failures, kills and crashes do.
THEOREM PublishedPackStays == PackSpec => []PublishedStays
<1>1. PackInv => PublishedStays BY DEF PackInv, PublishedIsSafe, PublishedStays
<1> QED BY <1>1, PackInvariant, PTL

=============================================================================
