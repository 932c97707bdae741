----------------------------- MODULE ReviewProofs -----------------------------
(***************************************************************************)
(* What holds of proposals, their review, their replacement and the        *)
(* criteria defined on them, for any number of drafts, sources, threads    *)
(* and keys.                                                               *)
(***************************************************************************)
EXTENDS ProposalReview

AttachCalls == [op : {"ATTACH"}, step : {"write"}, poc : Pocs]
LookupCalls ==
    [op : {"DECIDE", "DEFINE"}, step : {"sources"}, poc : Pocs, replaced : SUBSET SourceIds]
SeenCalls == [op : {"DECIDE", "DEFINE"}, step : {"looked up"}, seen : SUBSET Proposals]
KeptCalls == [op : {"DEFINE"}, step : {"listed"}, kept : SUBSET Proposals]
AssistCalls ==
    [op : {"ASSIST"}, step : {"reserve", "wait", "execute"}, source : SourceIds, key : Keys]
CommitCalls ==
    [op : {"ASSIST"}, step : {"commit"}, source : SourceIds, key : Keys, result : Results]

ReviewCalls ==
    {Idle} \cup AttachCalls \cup LookupCalls \cup SeenCalls \cup KeptCalls
           \cup AssistCalls \cup CommitCalls

Attempts == [by : {"ASSIST"}, result : Results]

ReviewTypeOK ==
    /\ IsDict(drafts, Pocs, {"ACTIVE", "ARCHIVED"})
    /\ call \in [Threads -> ReviewCalls]
    /\ IsDict(decisions, Proposals, Decisions)
    /\ IsDict(registered, SourceIds, SUBSET Proposals)
    /\ IsDict(definitions, Proposals, Criteria)
    /\ IsDict(attempts, SourceIds, Attempts)
    /\ IsDict(keyed, Keys, SourceIds)
    /\ IsDict(inflight, Keys, SourceIds)

\* A thread between its reservation and its end holds the reservation, alone, of
\* a source without an attempt.
Working(t) == call[t].step \in {"execute", "commit"}

OneReservation ==
    /\ \A t \in Threads : Working(t) =>
        /\ call[t].source \notin DOMAIN attempts
        /\ call[t].key \in DOMAIN inflight /\ inflight[call[t].key] = call[t].source
    /\ \A t, u \in Threads : Working(t) /\ Working(u) /\ t # u =>
        call[t].source # call[u].source /\ call[t].key # call[u].key

\* Proposals of a source: its own, or the one of its attempt.
Shown(q) == q = A2(q[1]) \/ (q[1] \in DOMAIN attempts /\ q = Replacement(q[1]))

\* What was decided is what the review shows.
DecidedIsShown == \A q \in DOMAIN decisions :
    /\ q[1] \in DOMAIN attempts => q = Replacement(q[1])
    /\ q[1] \notin DOMAIN attempts => q = A2(q[1])

IsKept(q) == q \in DOMAIN decisions /\ decisions[q] = "KEEP"

\* What a call has looked up may be stale, but was shown once.
Knows(c) ==
    /\ c.step = "sources" => c.replaced \subseteq DOMAIN attempts
    /\ c.step = "looked up" => \A q \in c.seen : Shown(q)
    /\ c.step = "listed" => \A q \in c.kept : IsKept(q)

ReviewInv ==
    /\ ReviewTypeOK
    /\ OneReservation
    /\ DecidedIsShown
    /\ RegistrationIsTheAttempt
    /\ \A t \in Threads : Knows(call[t])
    /\ \A q \in DOMAIN definitions : IsKept(q)

-----------------------------------------------------------------------------
(***************************************************************************)
(* Calls.                                                                  *)
(***************************************************************************)

\* What a call holds at each of its steps.
LEMMA ReviewCallTypes ==
    ASSUME NEW c \in ReviewCalls
    PROVE  /\ c.step = "sources" => c \in LookupCalls
           /\ c.step = "looked up" => c \in SeenCalls
           /\ c.step = "listed" => c \in KeptCalls
           /\ c.step \in {"reserve", "wait", "execute"} => c \in AssistCalls
           /\ c.step = "commit" => c \in CommitCalls
<1>1. CASE c = Idle BY <1>1 DEF Idle
<1>2. CASE c \in AttachCalls BY <1>2 DEF AttachCalls
<1>3. CASE c \in LookupCalls BY <1>3 DEF LookupCalls
<1>4. CASE c \in SeenCalls BY <1>4 DEF SeenCalls
<1>5. CASE c \in KeptCalls BY <1>5 DEF KeptCalls
<1>6. CASE c \in AssistCalls BY <1>6 DEF AssistCalls
<1>7. CASE c \in CommitCalls BY <1>7 DEF CommitCalls
<1> QED BY <1>1, <1>2, <1>3, <1>4, <1>5, <1>6, <1>7 DEF ReviewCalls

\* A call that returns knows nothing and holds nothing.
LEMMA IdleIsQuiet == Idle \in ReviewCalls /\ Idle.step = "idle"
BY DEF ReviewCalls, Idle

\* A thread whose call moves on.
LEMMA CallMoves ==
    ASSUME call \in [Threads -> ReviewCalls], NEW t \in Threads, NEW c \in ReviewCalls, Goto(t, c)
    PROVE  /\ call' \in [Threads -> ReviewCalls] /\ call'[t] = c
           /\ \A u \in Threads : u # t => call'[u] = call[u]
BY DEF Goto

\* The proposals of a source are of this source.
LEMMA ProposalTypes ==
    /\ \A s \in SourceIds : A2(s) \in Proposals /\ A2(s)[1] = s
    /\ \A s \in SourceIds, r \in Results :
        A3(s, r) \in Proposals /\ A3(s, r)[1] = s /\ A3(s, r) # A2(s)
    /\ \A q \in Proposals : q[1] \in SourceIds
BY ReviewAssumption DEF Proposals, ProposalsOf, A2, A3

\* The replacement of a source is a proposal of it, and not its own.
LEMMA ReplacementType ==
    ASSUME ReviewTypeOK, NEW s \in DOMAIN attempts
    PROVE  /\ s \in SourceIds /\ attempts[s] \in Attempts /\ Replacement(s) \in Proposals
           /\ Replacement(s)[1] = s /\ Replacement(s) # A2(s)
<1>1. s \in SourceIds /\ attempts[s] \in Attempts BY DEF ReviewTypeOK, IsDict
<1> QED BY <1>1, ProposalTypes DEF Attempts, Replacement

\* A step that moves one call, takes no reservation and writes nothing.
LEMMA QuietReview ==
    ASSUME ReviewInv, UNCHANGED <<review, assisted>>,
           IsDict(drafts', Pocs, {"ACTIVE", "ARCHIVED"}),
           NEW t \in Threads, NEW c \in ReviewCalls, Goto(t, c), Knows(c),
           c.step \in {"execute", "commit"} =>
             Working(t) /\ c.source = call[t].source /\ c.key = call[t].key
    PROVE  ReviewInv'
<1>1. /\ call' \in [Threads -> ReviewCalls] /\ call'[t] = c
      /\ \A u \in Threads : u # t => call'[u] = call[u]
    BY CallMoves DEF ReviewInv, ReviewTypeOK
<1>2. UNCHANGED <<decisions, registered, definitions, attempts, keyed, inflight>>
    BY DEF review, assisted
<1>3. ReviewTypeOK' BY <1>1, <1>2 DEF ReviewInv, ReviewTypeOK
<1>4. \A u \in Threads : Working(u)' =>
        Working(u) /\ call'[u].source = call[u].source /\ call'[u].key = call[u].key
    BY <1>1 DEF Working
<1>5. OneReservation' BY <1>2, <1>4 DEF ReviewInv, OneReservation
<1>6. DecidedIsShown' BY <1>2 DEF ReviewInv, DecidedIsShown, Replacement
<1>7. RegistrationIsTheAttempt' BY <1>2 DEF ReviewInv, RegistrationIsTheAttempt, Replacement
<1>8. \A u \in Threads : Knows(call[u])'
    BY <1>1, <1>2 DEF ReviewInv, Knows, Shown, Replacement, IsKept
<1>9. \A q \in DOMAIN definitions' : IsKept(q)' BY <1>2 DEF ReviewInv, IsKept
<1> QED BY <1>3, <1>5, <1>6, <1>7, <1>8, <1>9 DEF ReviewInv

\* A call that only returns.
LEMMA QuietReturn ==
    ASSUME ReviewInv, UNCHANGED <<review, assisted>>,
           IsDict(drafts', Pocs, {"ACTIVE", "ARCHIVED"}), NEW t \in Threads, Return(t)
    PROVE  ReviewInv'
<1>1. Knows(Idle) BY IdleIsQuiet DEF Knows
<1> QED BY <1>1, IdleIsQuiet, QuietReview DEF Return

-----------------------------------------------------------------------------
(***************************************************************************)
(* Steps that write nothing.                                               *)
(***************************************************************************)

LEMMA DraftStep ==
    ASSUME ReviewInv, NEW p \in Pocs, CreateDraft(p) \/ ArchiveDraft(p), UNCHANGED <<review, assisted>>
    PROVE  ReviewInv'
<1>1. IsDict(drafts', Pocs, {"ACTIVE", "ARCHIVED"})
    BY PutType DEF CreateDraft, ArchiveDraft, ReviewInv, ReviewTypeOK
<1>2. UNCHANGED <<call, decisions, registered, definitions, attempts, keyed, inflight>>
    BY DEF CreateDraft, ArchiveDraft, review, assisted
<1> QED BY <1>1, <1>2 DEF ReviewInv, ReviewTypeOK, OneReservation, Working, DecidedIsShown,
        RegistrationIsTheAttempt, Replacement, Knows, Shown, IsKept

LEMMA AttachStep ==
    ASSUME ReviewInv, NEW t \in Threads, UNCHANGED <<review, assisted>>,
           (\E p \in Pocs : AttachCheck(t, p)) \/ AttachReturns(t)
    PROVE  ReviewInv'
<1>1. drafts' = drafts BY DEF AttachCheck, AttachReturns, AttachWrite, intake
<1>2. IsDict(drafts', Pocs, {"ACTIVE", "ARCHIVED"}) BY <1>1 DEF ReviewInv, ReviewTypeOK
<1>3. ASSUME NEW p \in Pocs, AttachCheck(t, p) PROVE ReviewInv'
    <2> DEFINE c == [op |-> "ATTACH", step |-> "write", poc |-> p]
    <2>1. c \in ReviewCalls /\ c.step = "write" BY DEF ReviewCalls, AttachCalls
    <2>2. Goto(t, c) BY <1>3 DEF AttachCheck
    <2> HIDE DEF c
    <2>3. Knows(c) BY <2>1 DEF Knows
    <2> QED BY <1>2, <2>1, <2>2, <2>3, QuietReview
<1>4. ASSUME AttachReturns(t) PROVE ReviewInv'
    BY <1>2, <1>4, QuietReturn DEF AttachReturns, AttachWrite
<1> QED BY <1>3, <1>4

LEMMA LookupStep ==
    ASSUME ReviewInv, NEW t \in Threads,
           (\E p \in Pocs, op \in {"DECIDE", "DEFINE"} : LookupReplacements(t, p, op)) \/ LookupSources(t)
    PROVE  ReviewInv'
<1>1. UNCHANGED <<review, assisted>> BY DEF LookupReplacements, LookupSources
<1>2. IsDict(drafts', Pocs, {"ACTIVE", "ARCHIVED"})
    BY DEF ReviewInv, ReviewTypeOK, LookupReplacements, LookupSources, intake
<1>3. ASSUME NEW p \in Pocs, NEW op \in {"DECIDE", "DEFINE"}, LookupReplacements(t, p, op)
      PROVE  ReviewInv'
    <2> DEFINE c == [op |-> op, step |-> "sources", poc |-> p, replaced |-> Replacements(p)]
    <2>1. Replacements(p) \subseteq DOMAIN attempts /\ DOMAIN attempts \subseteq SourceIds
        BY DEF Replacements, ReviewInv, ReviewTypeOK, IsDict
    <2>2. c \in ReviewCalls /\ c.step = "sources" /\ c.replaced = Replacements(p)
        BY <2>1 DEF ReviewCalls, LookupCalls
    <2>3. Goto(t, c) BY <1>3 DEF LookupReplacements
    <2> HIDE DEF c
    <2>4. Knows(c) BY <2>1, <2>2 DEF Knows
    <2> QED BY <1>1, <1>2, <2>2, <2>3, <2>4, QuietReview
<1>4. ASSUME LookupSources(t) PROVE ReviewInv'
    <2>1. CASE Return(t) BY <1>1, <1>2, <2>1, QuietReturn
    <2>2. CASE Goto(t, [op |-> call[t].op, step |-> "looked up",
                        seen |-> Inputs(call[t].poc, call[t].replaced)])
        <3>1. /\ call[t] \in LookupCalls
              /\ call[t].replaced \subseteq DOMAIN attempts
            BY <1>4, ReviewCallTypes DEF LookupSources, ReviewInv, ReviewTypeOK, Knows
        <3>2. PICK seen : seen = Inputs(call[t].poc, call[t].replaced) OBVIOUS
        <3>3. \A q \in seen : q \in Proposals /\ Shown(q)
            <4>1. \A s \in call[t].replaced : Replacement(s) \in Proposals /\ Shown(Replacement(s))
                BY <3>1, ReplacementType DEF ReviewInv, Shown
            <4>2. \A s \in SourceIds : A2(s) \in Proposals /\ Shown(A2(s))
                BY ProposalTypes DEF Shown
            <4> QED BY <3>2, <4>1, <4>2 DEF Inputs, SourcesOf
        <3> DEFINE c == [op |-> call[t].op, step |-> "looked up", seen |-> seen]
        <3>4. c \in ReviewCalls /\ c.step = "looked up" /\ c.seen = seen
            BY <3>1, <3>3 DEF ReviewCalls, SeenCalls, LookupCalls
        <3>5. Goto(t, c) BY <2>2, <3>2
        <3> HIDE DEF c
        <3>6. Knows(c) BY <3>3, <3>4 DEF Knows
        <3> QED BY <1>1, <1>2, <3>4, <3>5, <3>6, QuietReview
    <2> QED BY <1>4, <2>1, <2>2 DEF LookupSources
<1> QED BY <1>3, <1>4

LEMMA ListStep == ASSUME ReviewInv, NEW t \in Threads, ListKept(t) PROVE ReviewInv'
<1>1. UNCHANGED <<review, assisted>> BY DEF ListKept
<1>2. IsDict(drafts', Pocs, {"ACTIVE", "ARCHIVED"}) BY DEF ReviewInv, ReviewTypeOK, ListKept, intake
<1>3. PICK kept : kept = {q \in call[t].seen \cap DOMAIN decisions : decisions[q] = "KEEP"} OBVIOUS
<1> DEFINE c == [op |-> "DEFINE", step |-> "listed", kept |-> kept]
<1>4. kept \subseteq Proposals /\ \A q \in kept : IsKept(q)
    BY <1>3 DEF ReviewInv, ReviewTypeOK, IsDict, IsKept
<1>5. c \in ReviewCalls /\ c.step = "listed" /\ c.kept = kept BY <1>4 DEF ReviewCalls, KeptCalls
<1>6. Goto(t, c) BY <1>3 DEF ListKept
<1> HIDE DEF c
<1>7. Knows(c) BY <1>4, <1>5 DEF Knows
<1> QED BY <1>1, <1>2, <1>5, <1>6, <1>7, QuietReview

LEMMA AssistQuietStep ==
    ASSUME ReviewInv, NEW t \in Threads,
           \/ \E s \in SourceIds, k \in Keys : AssistRead(t, s, k)
           \/ AssistWait(t) \/ AssistWake(t) \/ AssistRefused(t) \/ AssistExecute(t)
    PROVE  ReviewInv'
<1>1. UNCHANGED <<review, assisted>> /\ UNCHANGED intake
    BY DEF AssistRead, AssistWait, AssistWake, AssistRefused, AssistExecute
<1>2. IsDict(drafts', Pocs, {"ACTIVE", "ARCHIVED"}) BY <1>1 DEF ReviewInv, ReviewTypeOK, intake
<1>3. ASSUME NEW s \in SourceIds, NEW k \in Keys, AssistRead(t, s, k) PROVE ReviewInv'
    <2> DEFINE c == [op |-> "ASSIST", step |-> "reserve", source |-> s, key |-> k]
    <2>1. c \in ReviewCalls /\ c.step = "reserve" BY DEF ReviewCalls, AssistCalls
    <2>2. Goto(t, c) BY <1>3 DEF AssistRead
    <2> HIDE DEF c
    <2>3. Knows(c) BY <2>1 DEF Knows
    <2> QED BY <1>1, <1>2, <2>1, <2>2, <2>3, QuietReview
<1>4. ASSUME NEW step \in {"reserve", "wait"},
             call[t].step \in {"reserve", "wait"}, Goto(t, [call[t] EXCEPT !.step = step])
      PROVE  ReviewInv'
    <2> DEFINE c == [call[t] EXCEPT !.step = step]
    <2>1. call[t] \in AssistCalls
        BY <1>4, ReviewCallTypes DEF ReviewInv, ReviewTypeOK
    <2>2. c \in ReviewCalls /\ c.step = step BY <2>1 DEF ReviewCalls, AssistCalls
    <2>3. Goto(t, c) BY <1>4
    <2> HIDE DEF c
    <2>4. Knows(c) BY <2>2 DEF Knows
    <2> QED BY <1>1, <1>2, <2>2, <2>3, <2>4, QuietReview
<1>5. ASSUME AssistExecute(t) PROVE ReviewInv'
    <2>1. PICK result \in Results :
            Goto(t, [op |-> "ASSIST", step |-> "commit", source |-> call[t].source,
                     key |-> call[t].key, result |-> result])
        BY <1>5 DEF AssistExecute
    <2> DEFINE c == [op |-> "ASSIST", step |-> "commit", source |-> call[t].source,
                     key |-> call[t].key, result |-> result]
    <2>2. call[t].step = "execute" BY <1>5 DEF AssistExecute, Assisting
    <2>3. call[t].source \in SourceIds /\ call[t].key \in Keys
        <3>1. call[t] \in AssistCalls BY <2>2, ReviewCallTypes DEF ReviewInv, ReviewTypeOK
        <3> QED BY <3>1 DEF AssistCalls
    <2>4. /\ c \in ReviewCalls /\ c.step = "commit"
          /\ c.source = call[t].source /\ c.key = call[t].key
        BY <2>3 DEF ReviewCalls, CommitCalls
    <2>5. Goto(t, c) BY <2>1
    <2> HIDE DEF c
    <2>6. Knows(c) BY <2>4 DEF Knows
    <2>7. Working(t) BY <2>2 DEF Working
    <2> QED BY <1>1, <1>2, <2>4, <2>5, <2>6, <2>7, QuietReview
<1>6. CASE Return(t) BY <1>1, <1>2, <1>6, QuietReturn
<1> QED BY <1>3, <1>4, <1>5, <1>6 DEF AssistWait, AssistWake, AssistRefused, Assisting
-----------------------------------------------------------------------------
(***************************************************************************)
(* Steps that write.                                                       *)
(***************************************************************************)

\* A decision is on what is shown, although it may have been looked up before.
LEMMA DecideStep ==
    ASSUME ReviewInv, NEW t \in Threads, NEW q \in Proposals, NEW d \in Decisions, Decide(t, q, d)
    PROVE  ReviewInv'
<1>1. call[t].step = "looked up" /\ Return(t) BY DEF Decide
<1>2. UNCHANGED <<drafts, registered, definitions, attempts, keyed, inflight>>
    BY DEF Decide, intake, assisted
<1>3. CASE decisions' = decisions
    <2>1. UNCHANGED <<review, assisted>> /\ IsDict(drafts', Pocs, {"ACTIVE", "ARCHIVED"})
        BY <1>2, <1>3 DEF review, assisted, ReviewInv, ReviewTypeOK
    <2> QED BY <1>1, <2>1, QuietReturn
<1>4. CASE /\ IsCurrent(call[t].seen, q) /\ q \notin DOMAIN decisions
           /\ decisions' = Put(decisions, q, d)
    <2>1. /\ call' \in [Threads -> ReviewCalls] /\ call'[t] = Idle
          /\ \A u \in Threads : u # t => call'[u] = call[u]
        BY <1>1, IdleIsQuiet, CallMoves DEF Return, ReviewInv, ReviewTypeOK
    <2>2. /\ DOMAIN decisions' = DOMAIN decisions \cup {q} /\ decisions'[q] = d
          /\ \A p \in DOMAIN decisions : decisions'[p] = decisions[p]
        BY <1>4 DEF Put
    <2>3. IsDict(decisions', Proposals, Decisions)
        BY <1>4, PutType DEF ReviewInv, ReviewTypeOK
    <2>4. ReviewTypeOK' BY <1>2, <2>1, <2>3 DEF ReviewInv, ReviewTypeOK
    <2>5. \A u \in Threads : Working(u)' => Working(u) /\ call'[u] = call[u]
        BY <2>1, IdleIsQuiet DEF Working
    <2>6. OneReservation' BY <1>2, <2>5 DEF ReviewInv, OneReservation
    <2>7. DecidedIsShown'
        <3>1. Shown(q) /\ (q[1] \in DOMAIN registered => q \in registered[q[1]])
            BY <1>1, <1>4 DEF ReviewInv, Knows, IsCurrent
        <3>2. q[1] \in DOMAIN attempts => q = Replacement(q[1])
            BY <3>1 DEF ReviewInv, RegistrationIsTheAttempt
        <3>3. q[1] \notin DOMAIN attempts => q = A2(q[1]) BY <3>1 DEF Shown
        <3> QED BY <1>2, <2>2, <3>2, <3>3 DEF ReviewInv, DecidedIsShown, Replacement
    <2>8. RegistrationIsTheAttempt' BY <1>2 DEF ReviewInv, RegistrationIsTheAttempt, Replacement
    <2>9. \A p : IsKept(p) => IsKept(p)' BY <2>2 DEF IsKept
    <2>10. \A u \in Threads : Knows(call[u])'
        BY <1>2, <2>1, <2>9, IdleIsQuiet DEF ReviewInv, Knows, Shown, Replacement
    <2>11. \A p \in DOMAIN definitions' : IsKept(p)' BY <1>2, <2>9 DEF ReviewInv
    <2> QED BY <2>4, <2>6, <2>7, <2>8, <2>10, <2>11 DEF ReviewInv
<1> QED BY <1>3, <1>4 DEF Decide

\* A criterion is defined on what was kept.
LEMMA DefineStep ==
    ASSUME ReviewInv, NEW t \in Threads, NEW q \in Proposals, NEW d \in Criteria, Define(t, q, d)
    PROVE  ReviewInv'
<1>1. call[t].step = "listed" /\ Return(t) BY DEF Define
<1>2. UNCHANGED <<drafts, decisions, registered, attempts, keyed, inflight>>
    BY DEF Define, intake, assisted
<1>3. CASE definitions' = definitions
    <2>1. UNCHANGED <<review, assisted>> /\ IsDict(drafts', Pocs, {"ACTIVE", "ARCHIVED"})
        BY <1>2, <1>3 DEF review, assisted, ReviewInv, ReviewTypeOK
    <2> QED BY <1>1, <2>1, QuietReturn
<1>4. CASE q \in call[t].kept /\ definitions' = Put(definitions, q, d)
    <2>1. /\ call' \in [Threads -> ReviewCalls] /\ call'[t] = Idle
          /\ \A u \in Threads : u # t => call'[u] = call[u]
        BY <1>1, IdleIsQuiet, CallMoves DEF Return, ReviewInv, ReviewTypeOK
    <2>2. IsDict(definitions', Proposals, Criteria) /\ DOMAIN definitions' = DOMAIN definitions \cup {q}
        BY <1>4, PutType, PutFacts DEF ReviewInv, ReviewTypeOK
    <2>3. ReviewTypeOK' BY <1>2, <2>1, <2>2 DEF ReviewInv, ReviewTypeOK
    <2>4. \A u \in Threads : Working(u)' => Working(u) /\ call'[u] = call[u]
        BY <2>1, IdleIsQuiet DEF Working
    <2>5. OneReservation' BY <1>2, <2>4 DEF ReviewInv, OneReservation
    <2>6. DecidedIsShown' BY <1>2 DEF ReviewInv, DecidedIsShown, Replacement
    <2>7. RegistrationIsTheAttempt' BY <1>2 DEF ReviewInv, RegistrationIsTheAttempt, Replacement
    <2>8. \A u \in Threads : Knows(call[u])'
        BY <1>2, <2>1, IdleIsQuiet DEF ReviewInv, Knows, Shown, Replacement, IsKept
    <2>9. \A p \in DOMAIN definitions' : IsKept(p)'
        BY <1>1, <1>2, <1>4, <2>2 DEF ReviewInv, IsKept, Knows
    <2> QED BY <2>3, <2>5, <2>6, <2>7, <2>8, <2>9 DEF ReviewInv
<1> QED BY <1>3, <1>4 DEF Define

\* A reservation is of a key and a source nobody else holds.
LEMMA ReserveStep == ASSUME ReviewInv, NEW t \in Threads, AssistReserve(t) PROVE ReviewInv'
<1> DEFINE c == [call[t] EXCEPT !.step = "execute"]
<1>1. /\ call[t].step = "reserve" /\ Goto(t, c)
      /\ ~Conflicts(call[t]) /\ ~MustWait(call[t])
      /\ call[t].key \notin DOMAIN keyed /\ call[t].source \notin DOMAIN attempts
      /\ inflight' = Put(inflight, call[t].key, call[t].source)
      /\ UNCHANGED <<drafts, decisions, registered, definitions, attempts, keyed>>
    BY DEF AssistReserve, Assisting, intake, review
<1>2. call[t] \in AssistCalls BY <1>1, ReviewCallTypes DEF ReviewInv, ReviewTypeOK
<1>3. PICK s \in SourceIds, k \in Keys : s = call[t].source /\ k = call[t].key
    BY <1>2 DEF AssistCalls
<1>4. c \in ReviewCalls /\ c.step = "execute" /\ c.source = s /\ c.key = k
    BY <1>2, <1>3 DEF ReviewCalls, AssistCalls
<1>5. Goto(t, c) BY <1>1
<1> HIDE DEF c
<1>6. /\ call' \in [Threads -> ReviewCalls] /\ call'[t] = c
      /\ \A u \in Threads : u # t => call'[u] = call[u]
    BY <1>4, <1>5, CallMoves DEF ReviewInv, ReviewTypeOK
<1>7. k \notin DOMAIN inflight /\ \A j \in DOMAIN inflight : inflight[j] # s
    BY <1>1, <1>3 DEF Conflicts, MustWait, Reserved
<1>8. /\ DOMAIN inflight' = DOMAIN inflight \cup {k} /\ inflight'[k] = s
      /\ \A j \in DOMAIN inflight : inflight'[j] = inflight[j]
    BY <1>1, <1>3, <1>7 DEF Put
<1>9. IsDict(inflight', Keys, SourceIds) BY <1>1, <1>3, PutType DEF ReviewInv, ReviewTypeOK
<1>10. ReviewTypeOK' BY <1>1, <1>6, <1>9 DEF ReviewInv, ReviewTypeOK
<1>11. \A u \in Threads : u # t /\ Working(u)' =>
        Working(u) /\ call'[u] = call[u] /\ call[u].source # s /\ call[u].key # k
    BY <1>6, <1>7 DEF Working, ReviewInv, OneReservation
<1>12. OneReservation'
    <2>1. ASSUME NEW u \in Threads, Working(u)'
          PROVE  /\ call'[u].source \notin DOMAIN attempts'
                 /\ call'[u].key \in DOMAIN inflight' /\ inflight'[call'[u].key] = call'[u].source
        <3>1. CASE u = t BY <1>1, <1>3, <1>4, <1>6, <1>8, <3>1
        <3>2. CASE u # t BY <1>1, <1>8, <1>11, <2>1, <3>2 DEF ReviewInv, OneReservation
        <3> QED BY <3>1, <3>2
    <2>2. ASSUME NEW u \in Threads, NEW v \in Threads, Working(u)', Working(v)', u # v
          PROVE  call'[u].source # call'[v].source /\ call'[u].key # call'[v].key
        BY <1>4, <1>6, <1>11, <2>2 DEF ReviewInv, OneReservation
    <2> QED BY <2>1, <2>2 DEF OneReservation
<1>13. DecidedIsShown' BY <1>1 DEF ReviewInv, DecidedIsShown, Replacement
<1>14. RegistrationIsTheAttempt' BY <1>1 DEF ReviewInv, RegistrationIsTheAttempt, Replacement
<1>15. \A u \in Threads : Knows(call[u])'
    BY <1>1, <1>4, <1>6 DEF ReviewInv, Knows, Shown, Replacement, IsKept
<1>16. \A p \in DOMAIN definitions' : IsKept(p)' BY <1>1 DEF ReviewInv, IsKept
<1> QED BY <1>10, <1>12, <1>13, <1>14, <1>15, <1>16 DEF ReviewInv

\* A reservation that is given back was held by nobody else.
LEMMA DroppedElsewhere ==
    ASSUME ReviewInv, NEW t \in Threads, Working(t), Return(t),
           inflight' = Drop(inflight, call[t].key)
    PROVE  /\ call' \in [Threads -> ReviewCalls] /\ call'[t] = Idle
           /\ \A u \in Threads : u # t => call'[u] = call[u]
           /\ IsDict(inflight', Keys, SourceIds)
           /\ \A u \in Threads : Working(u)' =>
                /\ u # t /\ Working(u) /\ call'[u] = call[u]
                /\ call[u].source # call[t].source
                /\ call'[u].key \in DOMAIN inflight' /\ inflight'[call'[u].key] = call'[u].source
<1>1. /\ call' \in [Threads -> ReviewCalls] /\ call'[t] = Idle
      /\ \A u \in Threads : u # t => call'[u] = call[u]
    BY IdleIsQuiet, CallMoves DEF Return, ReviewInv, ReviewTypeOK
<1>2. IsDict(inflight', Keys, SourceIds) BY DropType DEF ReviewInv, ReviewTypeOK
<1>3. ASSUME NEW u \in Threads, Working(u)'
      PROVE  /\ u # t /\ Working(u) /\ call'[u] = call[u]
             /\ call[u].source # call[t].source
             /\ call'[u].key \in DOMAIN inflight' /\ inflight'[call'[u].key] = call'[u].source
    <2>1. u # t /\ Working(u) /\ call'[u] = call[u] BY <1>1, <1>3, IdleIsQuiet DEF Working
    <2>2. /\ call[u].source # call[t].source /\ call[u].key # call[t].key
          /\ call[u].key \in DOMAIN inflight /\ inflight[call[u].key] = call[u].source
        BY <2>1 DEF ReviewInv, OneReservation
    <2> QED BY <2>1, <2>2 DEF Drop
<1> QED BY <1>1, <1>2, <1>3

LEMMA FailStep == ASSUME ReviewInv, NEW t \in Threads, AssistFail(t) PROVE ReviewInv'
<1>1. /\ Working(t) /\ Return(t) /\ inflight' = Drop(inflight, call[t].key)
      /\ UNCHANGED <<drafts, decisions, registered, definitions, attempts, keyed>>
    BY DEF AssistFail, Assisting, Working, intake, review
<1>2. ReviewTypeOK' BY <1>1, DroppedElsewhere DEF ReviewInv, ReviewTypeOK
<1>3. OneReservation' BY <1>1, DroppedElsewhere DEF ReviewInv, OneReservation
<1>4. DecidedIsShown' BY <1>1 DEF ReviewInv, DecidedIsShown, Replacement
<1>5. RegistrationIsTheAttempt' BY <1>1 DEF ReviewInv, RegistrationIsTheAttempt, Replacement
<1>6. \A u \in Threads : Knows(call[u])'
    <2> SUFFICES ASSUME NEW u \in Threads PROVE Knows(call[u])' OBVIOUS
    <2>1. Knows(call[u]) /\ Knows(Idle) BY IdleIsQuiet DEF ReviewInv, Knows
    <2>2. call'[u] = call[u] \/ call'[u] = Idle BY <1>1, DroppedElsewhere
    <2> QED BY <1>1, <2>1, <2>2 DEF Knows, Shown, Replacement, IsKept
<1>7. \A p \in DOMAIN definitions' : IsKept(p)' BY <1>1 DEF ReviewInv, IsKept
<1> QED BY <1>2, <1>3, <1>4, <1>5, <1>6, <1>7 DEF ReviewInv

\* What a publication of attempt a for source s leaves, of an attempt that is
\* new and undecided or was there already.
LEMMA PublishFacts ==
    ASSUME ReviewInv, NEW s \in SourceIds, NEW a \in Attempts, Publish(s, a),
           UNCHANGED <<decisions, definitions>>,
           \/ s \notin DOMAIN attempts /\ A2(s) \notin DOMAIN decisions
           \/ s \in DOMAIN attempts /\ a = attempts[s]
    PROVE  /\ IsDict(attempts', SourceIds, Attempts) /\ IsDict(registered', SourceIds, SUBSET Proposals)
           /\ DOMAIN attempts' = DOMAIN attempts \cup {s}
           /\ \A r \in DOMAIN attempts : attempts'[r] = attempts[r]
           /\ DecidedIsShown' /\ RegistrationIsTheAttempt'
           /\ \A c : Knows(c) => Knows(c)'
<1>1. /\ A3(s, a.result) \in Proposals /\ {A3(s, a.result)} \in SUBSET Proposals
    BY ProposalTypes DEF Attempts
<1>2. IsDict(attempts', SourceIds, Attempts) BY PutType DEF Publish, ReviewInv, ReviewTypeOK
<1>3. IsDict(registered', SourceIds, SUBSET Proposals)
    BY <1>1, PutType DEF Publish, ReviewInv, ReviewTypeOK
<1>4. /\ DOMAIN attempts' = DOMAIN attempts \cup {s} /\ attempts'[s] = a
      /\ \A r \in DOMAIN attempts : attempts'[r] = attempts[r]
    BY DEF Publish, Put
<1>5. /\ DOMAIN registered' = DOMAIN registered \cup {s}
      /\ registered'[s] = {A3(s, a.result)}
      /\ \A r \in DOMAIN registered : r # s => registered'[r] = registered[r]
    BY PutFacts DEF Publish
<1>6. /\ Replacement(s)' = A3(s, a.result)
      /\ \A r \in DOMAIN attempts : Replacement(r)' = Replacement(r)
    BY <1>4 DEF Replacement
<1>7. RegistrationIsTheAttempt'
    BY <1>4, <1>5, <1>6 DEF ReviewInv, RegistrationIsTheAttempt
<1>8. DecidedIsShown'
    <2>1. ASSUME NEW q \in DOMAIN decisions, s \notin DOMAIN attempts PROVE q[1] # s
        BY <2>1 DEF ReviewInv, DecidedIsShown
    <2> QED BY <1>4, <1>6, <2>1 DEF ReviewInv, DecidedIsShown
<1>9. \A q : Shown(q) => Shown(q)' BY <1>4, <1>6 DEF Shown
<1>10. \A c : Knows(c) => Knows(c)' BY <1>4, <1>9 DEF Knows, IsKept
<1> QED BY <1>2, <1>3, <1>4, <1>7, <1>8, <1>10

\* A new key of a request that was answered: the attempt stands.
LEMMA ReplayStep == ASSUME ReviewInv, NEW t \in Threads, AssistReplay(t) PROVE ReviewInv'
<1>1. /\ call[t].step = "reserve" /\ Return(t) /\ call[t].source \in DOMAIN attempts
      /\ UNCHANGED drafts
    BY DEF AssistReplay, Assisting, IsReplay, intake
<1>2. call[t] \in AssistCalls BY <1>1, ReviewCallTypes DEF ReviewInv, ReviewTypeOK
<1>3. PICK s \in SourceIds, k \in Keys : s = call[t].source /\ k = call[t].key
    BY <1>2 DEF AssistCalls
<1>4. CASE UNCHANGED <<review, assisted>>
    BY <1>1, <1>4, QuietReturn DEF ReviewInv, ReviewTypeOK
<1>5. CASE /\ Publish(s, attempts[s]) /\ keyed' = Put(keyed, k, s)
           /\ UNCHANGED <<decisions, definitions, inflight>>
    <2>1. attempts[s] \in Attempts BY <1>1, <1>3, ReplacementType DEF ReviewInv
    <2>2. /\ IsDict(attempts', SourceIds, Attempts) /\ IsDict(registered', SourceIds, SUBSET Proposals)
          /\ DOMAIN attempts' = DOMAIN attempts
          /\ DecidedIsShown' /\ RegistrationIsTheAttempt'
          /\ \A c : Knows(c) => Knows(c)'
        BY <1>1, <1>3, <1>5, <2>1, PublishFacts
    <2>3. /\ call' \in [Threads -> ReviewCalls] /\ call'[t] = Idle
          /\ \A u \in Threads : u # t => call'[u] = call[u]
        BY <1>1, IdleIsQuiet, CallMoves DEF Return, ReviewInv, ReviewTypeOK
    <2>4. IsDict(keyed', Keys, SourceIds) BY <1>5, PutType DEF ReviewInv, ReviewTypeOK
    <2>5. ReviewTypeOK' BY <1>1, <1>5, <2>2, <2>3, <2>4 DEF ReviewInv, ReviewTypeOK
    <2>6. \A u \in Threads : Working(u)' => Working(u) /\ call'[u] = call[u]
        BY <2>3, IdleIsQuiet DEF Working
    <2>7. OneReservation' BY <1>5, <2>2, <2>6 DEF ReviewInv, OneReservation
    <2>8. Knows(Idle) BY IdleIsQuiet DEF Knows
    <2>9. \A u \in Threads : Knows(call[u])'
        <3> SUFFICES ASSUME NEW u \in Threads PROVE Knows(call[u])' OBVIOUS
        <3>1. Knows(call[u]) BY DEF ReviewInv
        <3> QED BY <2>2, <2>3, <2>8, <3>1 DEF Knows, Shown, IsKept, Replacement
    <2>10. \A p \in DOMAIN definitions' : IsKept(p)' BY <1>5 DEF ReviewInv, IsKept
    <2> QED BY <2>2, <2>5, <2>7, <2>9, <2>10 DEF ReviewInv
<1> QED BY <1>3, <1>4, <1>5 DEF AssistReplay

\* The publication of an attempt: its source had none, and nothing of it is
\* decided.
LEMMA CommitStep == ASSUME ReviewInv, NEW t \in Threads, AssistCommit(t) PROVE ReviewInv'
<1>1. /\ call[t].step = "commit" /\ Working(t) /\ Return(t)
      /\ inflight' = Drop(inflight, call[t].key)
      /\ UNCHANGED <<drafts, decisions, definitions>>
    BY DEF AssistCommit, Assisting, Working, intake
<1>2. call[t] \in CommitCalls BY <1>1, ReviewCallTypes DEF ReviewInv, ReviewTypeOK
<1>3. PICK s \in SourceIds, k \in Keys, r \in Results :
        s = call[t].source /\ k = call[t].key /\ r = call[t].result
    BY <1>2 DEF CommitCalls
<1>4. PICK a \in Attempts : a = [by |-> "ASSIST", result |-> r] BY DEF Attempts
<1>5. Publish(s, a) /\ keyed' = Put(keyed, k, s) /\ Undecided(s)
    BY <1>3, <1>4 DEF AssistCommit
<1>6. s \notin DOMAIN attempts BY <1>1, <1>3 DEF ReviewInv, OneReservation
<1>7. A2(s) \notin DOMAIN decisions BY <1>5, <1>6 DEF Undecided
<1>8. /\ IsDict(attempts', SourceIds, Attempts) /\ IsDict(registered', SourceIds, SUBSET Proposals)
      /\ DOMAIN attempts' = DOMAIN attempts \cup {s}
      /\ DecidedIsShown' /\ RegistrationIsTheAttempt'
      /\ \A c : Knows(c) => Knows(c)'
    BY <1>1, <1>5, <1>6, <1>7, PublishFacts
<1>9. IsDict(keyed', Keys, SourceIds) BY <1>5, PutType DEF ReviewInv, ReviewTypeOK
<1>10. ReviewTypeOK' BY <1>1, <1>8, <1>9, DroppedElsewhere DEF ReviewInv, ReviewTypeOK
<1>11. OneReservation'
    BY <1>1, <1>3, <1>8, DroppedElsewhere DEF ReviewInv, OneReservation
<1>12. Knows(Idle) BY IdleIsQuiet DEF Knows
<1>13. \A u \in Threads : Knows(call[u])'
    <2> SUFFICES ASSUME NEW u \in Threads PROVE Knows(call[u])' OBVIOUS
    <2>1. Knows(call[u]) BY DEF ReviewInv
    <2>2. call'[u] = call[u] \/ call'[u] = Idle BY <1>1, DroppedElsewhere
    <2> QED BY <1>8, <1>12, <2>1, <2>2 DEF Knows, Shown, IsKept, Replacement
<1>14. \A p \in DOMAIN definitions' : IsKept(p)' BY <1>1 DEF ReviewInv, IsKept
<1> QED BY <1>8, <1>10, <1>11, <1>13, <1>14 DEF ReviewInv

-----------------------------------------------------------------------------

LEMMA ReviewStarts == ReviewInit => ReviewInv
<1> SUFFICES ASSUME ReviewInit PROVE ReviewInv OBVIOUS
<1>1. ReviewTypeOK BY EmptyType, IdleIsQuiet DEF ReviewInit, IntakeInit, ReviewTypeOK
<1>2. \A t \in Threads : call[t] = Idle BY DEF ReviewInit, IntakeInit
<1>3. /\ DOMAIN decisions = {} /\ DOMAIN attempts = {} /\ DOMAIN registered = {}
      /\ DOMAIN definitions = {}
    BY EmptyType DEF ReviewInit
<1> QED BY <1>1, <1>2, <1>3, IdleIsQuiet
        DEF ReviewInv, OneReservation, Working, DecidedIsShown, RegistrationIsTheAttempt, Knows

LEMMA ReviewKeeps == ReviewInv /\ [ReviewNext]_reviewVars => ReviewInv'
<1> SUFFICES ASSUME ReviewInv, [ReviewNext]_reviewVars PROVE ReviewInv' OBVIOUS
<1>1. CASE UNCHANGED reviewVars
    BY <1>1 DEF reviewVars, intake, review, assisted, ReviewInv, ReviewTypeOK, OneReservation, Working,
        DecidedIsShown, RegistrationIsTheAttempt, Replacement, Knows, Shown, IsKept
<1>2. CASE IntakeNext /\ UNCHANGED <<review, assisted>>
    BY <1>2, DraftStep, AttachStep DEF IntakeNext
<1>3. ASSUME NEW t \in Threads, ReviewStep(t) PROVE ReviewInv'
    BY <1>3, LookupStep, DecideStep, ListStep, DefineStep, AssistQuietStep, ReplayStep, ReserveStep,
       FailStep, CommitStep
    DEF ReviewStep
<1>4. ASSUME NEW t \in Threads, ReviewCall(t) PROVE ReviewInv'
    BY <1>4, LookupStep, AssistQuietStep DEF ReviewCall
<1> QED BY <1>1, <1>2, <1>3, <1>4 DEF ReviewNext

\* The inductive invariant holds throughout.
THEOREM ReviewInvariant == ReviewSpec => []ReviewInv
BY ReviewStarts, ReviewKeeps, PTL DEF ReviewSpec

LEMMA CoherentNow == ReviewInv => ReviewIsCoherent
<1> SUFFICES ASSUME ReviewInv PROVE ReviewIsCoherent OBVIOUS
<1>1. ReplacedIsUndecided
    <2> SUFFICES ASSUME NEW s \in DOMAIN attempts, A2(s) \in DOMAIN decisions PROVE FALSE
        BY DEF ReplacedIsUndecided
    <2>1. s \in SourceIds /\ A2(s)[1] = s /\ Replacement(s) # A2(s)
        BY ReplacementType, ProposalTypes DEF ReviewInv
    <2> QED BY <2>1 DEF ReviewInv, DecidedIsShown
<1>2. DefinitionRestsOnReview BY DEF ReviewInv, DecidedIsShown, IsKept, DefinitionRestsOnReview
<1> QED BY <1>1, <1>2 DEF ReviewInv, ReviewIsCoherent

\* Whatever decisions, definitions and publications overtake one another, what
\* was replaced is undecided, the review holds exactly the attempt that stands,
\* and criteria rest on kept proposals that are still shown.
THEOREM ReviewStaysCoherent == ReviewSpec => []ReviewIsCoherent
BY ReviewInvariant, CoherentNow, PTL

\* Only the publication of a new attempt touches the attempts.
LEMMA AttemptsMove ==
    ASSUME ReviewInv, [ReviewNext]_reviewVars
    PROVE  /\ \A s \in DOMAIN attempts' \ DOMAIN attempts : Current(s)
           /\ \A s \in DOMAIN attempts : s \in DOMAIN attempts' /\ attempts'[s] = attempts[s]
<1>1. CASE attempts' = attempts BY <1>1
<1>2. ASSUME NEW s, NEW a, attempts' = Put(attempts, s, a), Current(s),
             s \in DOMAIN attempts => a = attempts[s]
      PROVE  /\ \A r \in DOMAIN attempts' \ DOMAIN attempts : Current(r)
             /\ \A r \in DOMAIN attempts : r \in DOMAIN attempts' /\ attempts'[r] = attempts[r]
    BY <1>2 DEF Put
<1>3. ASSUME NEW t \in Threads, AssistReplay(t)
      PROVE  \/ attempts' = attempts
             \/ \E s, a : /\ attempts' = Put(attempts, s, a) /\ Current(s)
                          /\ s \in DOMAIN attempts => a = attempts[s]
    BY <1>3 DEF AssistReplay, Publish, OwnersHold, assisted
<1>4. ASSUME NEW t \in Threads, AssistCommit(t)
      PROVE  \E s, a : /\ attempts' = Put(attempts, s, a) /\ Current(s)
                       /\ s \in DOMAIN attempts => a = attempts[s]
    <2>1. call[t].source \notin DOMAIN attempts
        BY <1>4 DEF AssistCommit, Assisting, ReviewInv, OneReservation, Working
    <2> QED BY <1>4, <2>1 DEF AssistCommit, Publish, OwnersHold
<1>5. ASSUME NEW t \in Threads, ReviewStep(t) \/ ReviewCall(t)
      PROVE  attempts' = attempts \/ AssistReplay(t) \/ AssistCommit(t)
    BY <1>5 DEF ReviewStep, ReviewCall, LookupReplacements, LookupSources, Decide, ListKept, Define,
        AssistRead, AssistWait, AssistWake, AssistRefused, AssistReserve, AssistExecute, AssistFail,
        assisted
<1>6. CASE IntakeNext /\ UNCHANGED <<review, assisted>> BY <1>1, <1>6 DEF assisted
<1>7. CASE UNCHANGED reviewVars BY <1>1, <1>7 DEF reviewVars, assisted
<1>8. ASSUME NEW t \in Threads, ReviewStep(t) \/ ReviewCall(t)
      PROVE  /\ \A s \in DOMAIN attempts' \ DOMAIN attempts : Current(s)
             /\ \A s \in DOMAIN attempts : s \in DOMAIN attempts' /\ attempts'[s] = attempts[s]
    <2>1. CASE attempts' = attempts BY <1>1, <2>1
    <2>2. CASE \E s, a : /\ attempts' = Put(attempts, s, a) /\ Current(s)
                         /\ s \in DOMAIN attempts => a = attempts[s]
        BY <1>2, <2>2
    <2> QED BY <1>3, <1>4, <1>5, <1>8, <2>1, <2>2
<1> QED BY <1>6, <1>7, <1>8 DEF ReviewNext

\* Attempts are published on current sources and stay, for any number of
\* threads, keys, sources and results.
THEOREM PublishesOnCurrent == ReviewSpec => PublishedOnCurrent
<1>1. ReviewInv /\ [ReviewNext]_reviewVars =>
        [/\ \A s \in DOMAIN attempts' \ DOMAIN attempts : Current(s)
         /\ \A s \in DOMAIN attempts : s \in DOMAIN attempts' /\ attempts'[s] = attempts[s]]_reviewVars
    BY AttemptsMove
<1> QED BY <1>1, ReviewInvariant, PTL DEF ReviewSpec, PublishedOnCurrent

=============================================================================
