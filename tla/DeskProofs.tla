------------------------------ MODULE DeskProofs ------------------------------
(***************************************************************************)
(* What holds of the server's threads, the confirmation stores, the guided *)
(* demonstration and assisted authoring, for any number of threads, POCs,  *)
(* processes, invitations, drafts and operations.                          *)
(***************************************************************************)
EXTENDS MCDesk, FiniteSetTheorems, SequenceTheorems

-----------------------------------------------------------------------------
(***************************************************************************)
(* WebGateway.                                                             *)
(***************************************************************************)

Phases == {"idle", "precheck", "body", "ready", "mutating", "mutated", "revoking"}

Stages == {"drafting", "review", "confirmed", "changes", "frozen", "running", "terminal"}

\* A request is told apart by its route and its POC.
Serving(t) ==
    /\ wreq[t].route \in DOMAIN Routes /\ wreq[t].poc \in POCsOf(wreq[t].route)
    /\ wphase[t] = "mutating" => wreq[t].route # "closure"

WebTypeOK ==
    /\ wphase \in [WThreads -> Phases]
    /\ DOMAIN wreq = WThreads
    /\ \A t \in WThreads : wphase[t] # "idle" => Serving(t)
    /\ reserved \in [WPOCs -> Nat]
    /\ stage \in [WPOCs -> Stages]
    /\ writes \in [WPOCs -> Nat]
    /\ wclosed \subseteq WPOCs

\* The handlers that are inside the services of p
Holds(t, p) ==
    \/ wphase[t] = "precheck" /\ wreq[t].poc = p
    \/ /\ wphase[t] \in {"mutating", "mutated"}
       /\ wreq[t].route \in ScopedRoutes /\ wreq[t].poc = p

Holders(p) == {t \in WThreads : Holds(t, p)}

\* A closed POC has no handler inside and stays where it was closed.
ClosedAtRest == \A p \in wclosed : reserved[p] = 0 /\ stage[p] = "terminal" /\ p # Performance

WebInv == WebTypeOK /\ ReservationsBalance /\ ClosedAtRest /\ ClosureEndsCapture

LEMMA RouteFacts ==
    /\ \A r \in DOMAIN Routes : POCsOf(r) \subseteq WPOCs
    /\ \A r \in DOMAIN Routes \ ScopedRoutes :
        r = "closure" \/ r = "revision" \/ POCsOf(r) = {Performance}
    /\ "meeting" \in ScopedRoutes
<1>1. \A r : POCsOf(r) \subseteq WPOCs
    BY DEF POCsOf, WPOCs, SessionRoutes, UnscopedRoutes
<1>2. \A r \in DOMAIN Routes \ ScopedRoutes : r \in {"closure", "revision", "performance", "create"}
    BY DEF Routes, ScopedRoutes, AgreementScope, AgreementRoutes
<1>3. POCsOf("performance") = {Performance} /\ POCsOf("create") = {Performance}
    BY DEF POCsOf, SessionRoutes, UnscopedRoutes
<1>4. "meeting" \in ScopedRoutes BY DEF ScopedRoutes
<1> QED BY <1>1, <1>2, <1>3, <1>4

\* The thread t moves; nobody else does.
OthersWait(t) == \A u \in WThreads : u # t => wphase'[u] = wphase[u] /\ wreq'[u] = wreq[u]

\* One thread comes in or goes out.
LEMMA HoldersCount ==
    ASSUME WebInv, NEW t \in WThreads, OthersWait(t), NEW p \in WPOCs
    PROVE  /\ (Holds(t, p)' <=> Holds(t, p)) => Cardinality(Holders(p)') = reserved[p]
           /\ ~Holds(t, p) /\ Holds(t, p)' => Cardinality(Holders(p)') = reserved[p] + 1
           /\ Holds(t, p) => reserved[p] > 0
           /\ Holds(t, p) /\ ~Holds(t, p)' => Cardinality(Holders(p)') = reserved[p] - 1
<1>1. IsFiniteSet(Holders(p)) BY WebAssumption, FS_Subset DEF Holders
<1>2. reserved[p] = Cardinality(Holders(p)) /\ reserved[p] \in Nat
    BY DEF WebInv, WebTypeOK, ReservationsBalance, Holders, Holds
<1>3. \A u \in WThreads : u # t => (Holds(u, p)' <=> Holds(u, p)) BY DEF OthersWait, Holds
<1>4. CASE Holds(t, p)' <=> Holds(t, p)
    <2>1. Holders(p)' = Holders(p) BY <1>3, <1>4 DEF Holders
    <2>2. Holds(t, p) => Holders(p) # {} BY DEF Holders
    <2> QED BY <1>1, <1>2, <1>4, <2>1, <2>2, FS_EmptySet
<1>5. CASE ~Holds(t, p) /\ Holds(t, p)'
    <2>1. Holders(p)' = Holders(p) \cup {t} /\ t \notin Holders(p) BY <1>3, <1>5 DEF Holders
    <2> QED BY <1>1, <1>2, <1>5, <2>1, FS_AddElement
<1>6. CASE Holds(t, p) /\ ~Holds(t, p)'
    <2>1. Holders(p)' = Holders(p) \ {t} /\ t \in Holders(p) BY <1>3, <1>6 DEF Holders
    <2> QED BY <1>1, <1>2, <1>6, <2>1, FS_RemoveElement, FS_EmptySet
<1> QED BY <1>4, <1>5, <1>6

\* A step of one thread that leaves the services alone.
LEMMA ThreadKeeps ==
    ASSUME WebInv, NEW t \in WThreads, OthersWait(t), wphase[t] # "revoking",
           wphase' \in [WThreads -> Phases], DOMAIN wreq' = WThreads,
           wphase'[t] # "idle" => Serving(t)',
           UNCHANGED <<wclosed, stage, writes, capturing>>,
           reserved' \in [WPOCs -> Nat],
           \A p \in WPOCs : reserved'[p] = Cardinality(Holders(p)'),
           \A p \in wclosed : reserved'[p] = 0
    PROVE  WebInv'
<1>1. \A u \in WThreads : wphase'[u] # "idle" => Serving(u)'
    BY DEF OthersWait, WebInv, WebTypeOK, Serving
<1>2. WebTypeOK' BY <1>1 DEF WebInv, WebTypeOK
<1>3. ReservationsBalance' BY DEF ReservationsBalance, Holders, Holds
<1>4. ClosedAtRest' BY DEF WebInv, ClosedAtRest
<1>5. ClosureEndsCapture' BY DEF WebInv, ClosureEndsCapture, OthersWait
<1> QED BY <1>2, <1>3, <1>4, <1>5 DEF WebInv

\* ... and holds what it held.
LEMMA ThreadStays ==
    ASSUME WebInv, NEW t \in WThreads, OthersWait(t), wphase[t] # "revoking",
           wphase' \in [WThreads -> Phases], DOMAIN wreq' = WThreads,
           wphase'[t] # "idle" => Serving(t)',
           UNCHANGED <<reserved, wclosed, stage, writes, capturing>>,
           \A p \in WPOCs : Holds(t, p)' <=> Holds(t, p)
    PROVE  WebInv'
<1>1. reserved' \in [WPOCs -> Nat] BY DEF WebInv, WebTypeOK
<1>2. \A p \in WPOCs : reserved'[p] = Cardinality(Holders(p)') BY HoldersCount
<1>3. \A p \in wclosed : reserved'[p] = 0 BY DEF WebInv, ClosedAtRest
<1> QED BY <1>1, <1>2, <1>3, ThreadKeeps

\* The thread t enters the services of q, or leaves them.
LEMMA ThreadEnters ==
    ASSUME WebInv, NEW t \in WThreads, OthersWait(t), wphase[t] # "revoking",
           wphase' \in [WThreads -> Phases], DOMAIN wreq' = WThreads,
           wphase'[t] # "idle" => Serving(t)',
           UNCHANGED <<wclosed, stage, writes, capturing>>,
           NEW q \in WPOCs, q \notin wclosed,
           reserved' = [reserved EXCEPT ![q] = @ + 1],
           \A p \in WPOCs : ~Holds(t, p) /\ (Holds(t, p)' <=> p = q)
    PROVE  WebInv'
<1>1. reserved \in [WPOCs -> Nat] BY DEF WebInv, WebTypeOK
<1>2. reserved' \in [WPOCs -> Nat] BY <1>1
<1>3. \A p \in WPOCs : reserved'[p] = Cardinality(Holders(p)')
    <2> SUFFICES ASSUME NEW p \in WPOCs PROVE reserved'[p] = Cardinality(Holders(p)') OBVIOUS
    <2>1. CASE p = q BY <1>1, <2>1, HoldersCount
    <2>2. CASE p # q BY <1>1, <2>2, HoldersCount
    <2> QED BY <2>1, <2>2
<1>4. \A p \in wclosed : reserved'[p] = 0 BY <1>1 DEF WebInv, ClosedAtRest, WebTypeOK
<1> QED BY <1>2, <1>3, <1>4, ThreadKeeps

LEMMA ThreadLeaves ==
    ASSUME WebInv, NEW t \in WThreads, OthersWait(t), wphase[t] # "revoking",
           wphase' \in [WThreads -> Phases], DOMAIN wreq' = WThreads,
           wphase'[t] # "idle" => Serving(t)',
           UNCHANGED <<wclosed, stage, writes, capturing>>,
           NEW q \in WPOCs, reserved' = [reserved EXCEPT ![q] = @ - 1],
           \A p \in WPOCs : ~Holds(t, p)' /\ (Holds(t, p) <=> p = q)
    PROVE  WebInv'
<1>1. reserved \in [WPOCs -> Nat] /\ reserved[q] > 0
    BY HoldersCount DEF WebInv, WebTypeOK
<1>2. reserved' \in [WPOCs -> Nat]
    BY <1>1
<1>3. \A p \in WPOCs : reserved'[p] = Cardinality(Holders(p)')
    <2> SUFFICES ASSUME NEW p \in WPOCs PROVE reserved'[p] = Cardinality(Holders(p)') OBVIOUS
    <2>1. CASE p = q BY <1>1, <2>1, HoldersCount
    <2>2. CASE p # q BY <1>1, <2>2, HoldersCount
    <2> QED BY <2>1, <2>2
<1>4. \A p \in wclosed : reserved'[p] = 0 BY <1>1 DEF WebInv, ClosedAtRest, WebTypeOK
<1> QED BY <1>2, <1>3, <1>4, ThreadKeeps

\* A handler inside the services of its POC keeps the POC open.
LEMMA HolderIsOpen ==
    ASSUME WebInv, NEW t \in WThreads, NEW p \in WPOCs, Holds(t, p)
    PROVE  p \notin wclosed
<1>1. IsFiniteSet(Holders(p)) BY WebAssumption, FS_Subset DEF Holders
<1>2. Holders(p) # {} BY DEF Holders
<1>3. reserved[p] # 0
    BY <1>1, <1>2, FS_EmptySet DEF WebInv, ReservationsBalance, Holders, Holds
<1> QED BY <1>3 DEF WebInv, ClosedAtRest
-----------------------------------------------------------------------------

\* What a thread that moves does to the two functions.
LEMMA ThreadMoves ==
    ASSUME WebTypeOK, NEW t \in WThreads, NEW ph \in Phases, GoOn(t, ph)
    PROVE  /\ wphase' \in [WThreads -> Phases] /\ wphase'[t] = ph
           /\ \A u \in WThreads : u # t => wphase'[u] = wphase[u]
           /\ UNCHANGED wreq => OthersWait(t)
BY DEF GoOn, WebTypeOK, OthersWait

LEMMA ThreadTakes ==
    ASSUME WebTypeOK, NEW t \in WThreads, NEW ph \in Phases, GoOn(t, ph),
           NEW r, wreq' = [wreq EXCEPT ![t] = r]
    PROVE  /\ wphase' \in [WThreads -> Phases] /\ wphase'[t] = ph
           /\ DOMAIN wreq' = WThreads /\ wreq'[t] = r
           /\ OthersWait(t)
BY ThreadMoves DEF WebTypeOK, OthersWait

\* An answer ends the request.
LEMMA AnswerEnds ==
    ASSUME WebTypeOK, NEW t \in WThreads, NEW s, Answer(t, s)
    PROVE  /\ wphase' \in [WThreads -> Phases] /\ wphase'[t] = "idle"
           /\ DOMAIN wreq' = WThreads
           /\ OthersWait(t)
           /\ \A p \in WPOCs : ~Holds(t, p)'
<1>1. GoOn(t, "idle") /\ wreq' = [wreq EXCEPT ![t] = NoRequest] BY DEF Answer, GoOn
<1>2. "idle" \in Phases BY DEF Phases
<1> QED BY <1>1, <1>2, ThreadTakes DEF Holds

LEMMA ReceiveStep ==
    ASSUME WebInv, NEW t \in WThreads, NEW r \in Requests, Receive(t, r) PROVE WebInv'
<1>1. /\ wphase[t] = "idle"
      /\ UNCHANGED <<wclosed, stage, writes, used, capturing, warchived>>
    BY DEF Receive
<1>2. r.route \in DOMAIN Routes /\ r.poc \in POCsOf(r.route) /\ r.poc \in WPOCs
    BY DEF Requests
<1>3. CASE Early(r) # {}
    <2>1. UNCHANGED <<wphase, wreq, reserved>> BY <1>3 DEF Receive
    <2> QED BY <1>1, <2>1 DEF WebInv, WebTypeOK, Serving, ReservationsBalance, ClosedAtRest,
                              ClosureEndsCapture
<1>4. CASE Early(r) = {}
    <2> DEFINE q == [route |-> r.route, poc |-> r.poc, defect |-> r.defect, late |-> Late(r)]
               ph == IF HasPrecheck(r) THEN "precheck" ELSE "body"
    <2>1. /\ wreq' = [wreq EXCEPT ![t] = q] /\ GoOn(t, ph)
          /\ reserved' = IF HasPrecheck(r) THEN [reserved EXCEPT ![r.poc] = @ + 1] ELSE reserved
        BY <1>4 DEF Receive
    <2>2. q.route = r.route /\ q.poc = r.poc OBVIOUS
    <2>3. ph \in Phases /\ ph \in {"precheck", "body"} BY DEF Phases
    <2> HIDE DEF q
    <2>4. /\ wphase' \in [WThreads -> Phases] /\ wphase'[t] = ph
          /\ DOMAIN wreq' = WThreads /\ wreq'[t] = q /\ OthersWait(t)
        BY <2>1, <2>3, ThreadTakes DEF WebInv
    <2>5. Serving(t)' BY <1>2, <2>2, <2>3, <2>4 DEF Serving
    <2>6. \A p \in WPOCs : ~Holds(t, p) BY <1>1 DEF Holds
    <2>7. CASE HasPrecheck(r)
        <3>1. r.poc \notin wclosed
            <4>1. PICK i \in 1 .. Len(Routes[r.route].checks) : Routes[r.route].checks[i] = "open"
                BY <2>7 DEF HasPrecheck
            <4>2. Passes(r, "open") BY <1>4, <4>1 DEF Early
            <4> QED BY <4>2 DEF Passes
        <3>2. \A p \in WPOCs : Holds(t, p)' <=> p = r.poc BY <2>2, <2>4, <2>7 DEF Holds
        <3> QED BY <1>1, <1>2, <2>1, <2>4, <2>5, <2>6, <2>7, <3>1, <3>2, ThreadEnters
    <2>8. CASE ~HasPrecheck(r)
        <3>1. \A p \in WPOCs : ~Holds(t, p)' BY <2>4, <2>8 DEF Holds
        <3> QED BY <1>1, <2>1, <2>4, <2>5, <2>6, <2>8, <3>1, ThreadStays
    <2> QED BY <2>7, <2>8
<1> QED BY <1>3, <1>4

LEMMA EndPrecheckStep == ASSUME WebInv, NEW t \in WThreads, EndPrecheck(t) PROVE WebInv'
<1>1. /\ wphase[t] = "precheck" /\ GoOn(t, "body")
      /\ reserved' = [reserved EXCEPT ![wreq[t].poc] = @ - 1]
      /\ UNCHANGED <<wreq, wclosed, stage, writes, capturing>>
    BY DEF EndPrecheck
<1>2. Serving(t) BY <1>1 DEF WebInv, WebTypeOK
<1>3. PICK q \in WPOCs : q = wreq[t].poc BY <1>2, RouteFacts DEF Serving
<1>4. wphase' \in [WThreads -> Phases] /\ wphase'[t] = "body" /\ OthersWait(t)
    BY <1>1, ThreadMoves DEF WebInv, Phases
<1>5. DOMAIN wreq' = WThreads /\ Serving(t)' BY <1>1, <1>2, <1>4 DEF WebInv, WebTypeOK, Serving
<1>6. \A p \in WPOCs : ~Holds(t, p)' /\ (Holds(t, p) <=> p = q)
    BY <1>1, <1>3, <1>4 DEF Holds
<1> QED BY <1>1, <1>3, <1>4, <1>5, <1>6, ThreadLeaves

LEMMA ReadBodyStep == ASSUME WebInv, NEW t \in WThreads, ReadBody(t) PROVE WebInv'
<1>1. wphase[t] = "body" /\ UNCHANGED <<reserved, wclosed, stage, writes, capturing>>
    BY DEF ReadBody
<1>2. \A p \in WPOCs : ~Holds(t, p) BY <1>1 DEF Holds
<1>3. CASE Answer(t, 400)
    BY <1>1, <1>2, <1>3, AnswerEnds, ThreadStays DEF WebInv
<1>4. CASE Proceed(t, "ready")
    <2>1. GoOn(t, "ready") /\ wreq' = wreq BY <1>4 DEF Proceed
    <2>2. wphase' \in [WThreads -> Phases] /\ wphase'[t] = "ready" /\ OthersWait(t)
        BY <2>1, ThreadMoves DEF WebInv, Phases
    <2>3. Serving(t) BY <1>1 DEF WebInv, WebTypeOK
    <2>4. DOMAIN wreq' = WThreads /\ Serving(t)' BY <2>1, <2>2, <2>3 DEF WebInv, WebTypeOK, Serving
    <2>5. \A p \in WPOCs : ~Holds(t, p)' BY <2>2 DEF Holds
    <2> QED BY <1>1, <1>2, <2>2, <2>4, <2>5, ThreadStays
<1> QED BY <1>3, <1>4 DEF ReadBody

LEMMA ReserveThreadStep == ASSUME WebInv, NEW t \in WThreads, Reserve(t) PROVE WebInv'
<1>1. /\ wphase[t] = "ready" /\ wreq[t].route # "closure"
      /\ UNCHANGED <<wclosed, stage, writes, capturing>>
    BY DEF Reserve
<1>2. Serving(t) BY <1>1 DEF WebInv, WebTypeOK
<1>3. PICK q \in WPOCs : q = wreq[t].poc BY <1>2, RouteFacts DEF Serving
<1>4. \A p \in WPOCs : ~Holds(t, p) BY <1>1 DEF Holds
<1>5. CASE Answer(t, 409) /\ reserved' = reserved
    BY <1>1, <1>4, <1>5, AnswerEnds, ThreadStays DEF WebInv
<1>6. CASE /\ Proceed(t, "mutating") /\ ~(wreq[t].route \in ScopedRoutes /\ q \in wclosed)
           /\ reserved' = IF wreq[t].route \in ScopedRoutes
                          THEN [reserved EXCEPT ![q] = @ + 1] ELSE reserved
    <2>1. GoOn(t, "mutating") /\ wreq' = wreq BY <1>6 DEF Proceed
    <2>2. wphase' \in [WThreads -> Phases] /\ wphase'[t] = "mutating" /\ OthersWait(t)
        BY <2>1, ThreadMoves DEF WebInv, Phases
    <2>3. DOMAIN wreq' = WThreads /\ Serving(t)'
        BY <1>1, <1>2, <2>1, <2>2 DEF WebInv, WebTypeOK, Serving
    <2>4. CASE wreq[t].route \in ScopedRoutes
        <3>1. \A p \in WPOCs : Holds(t, p)' <=> p = q BY <1>3, <2>1, <2>2, <2>4 DEF Holds
        <3> QED BY <1>1, <1>4, <1>6, <2>2, <2>3, <2>4, <3>1, ThreadEnters
    <2>5. CASE wreq[t].route \notin ScopedRoutes
        <3>1. \A p \in WPOCs : ~Holds(t, p)' BY <2>1, <2>2, <2>5 DEF Holds
        <3> QED BY <1>1, <1>4, <1>6, <2>2, <2>3, <2>5, <3>1, ThreadStays
    <2> QED BY <2>4, <2>5
<1> QED BY <1>3, <1>5, <1>6 DEF Reserve

LEMMA ReleaseStep == ASSUME WebInv, NEW t \in WThreads, Release(t) PROVE WebInv'
<1>1. /\ wphase[t] = "mutated" /\ UNCHANGED <<wclosed, stage, writes, capturing>>
      /\ Answer(t, Routes[wreq[t].route].status[wreq[t].outcome])
      /\ reserved' = IF wreq[t].route \in ScopedRoutes
                     THEN [reserved EXCEPT ![wreq[t].poc] = @ - 1] ELSE reserved
    BY DEF Release
<1>2. Serving(t) BY <1>1 DEF WebInv, WebTypeOK
<1>3. PICK q \in WPOCs : q = wreq[t].poc BY <1>2, RouteFacts DEF Serving
<1>4. /\ wphase' \in [WThreads -> Phases] /\ wphase'[t] = "idle"
      /\ DOMAIN wreq' = WThreads /\ OthersWait(t) /\ \A p \in WPOCs : ~Holds(t, p)'
    BY <1>1, AnswerEnds DEF WebInv
<1>5. CASE wreq[t].route \in ScopedRoutes
    <2>1. \A p \in WPOCs : Holds(t, p) <=> p = q BY <1>1, <1>3, <1>5 DEF Holds
    <2> QED BY <1>1, <1>3, <1>4, <1>5, <2>1, ThreadLeaves
<1>6. CASE wreq[t].route \notin ScopedRoutes
    <2>1. \A p \in WPOCs : ~Holds(t, p) BY <1>1, <1>6 DEF Holds
    <2> QED BY <1>1, <1>4, <1>6, <2>1, ThreadStays
<1> QED BY <1>5, <1>6

\* A service never acts on a closed POC: the handler holds the POC open, or its
\* route is about another one or needs a stage a closed POC is not at.
LEMMA MutateSpares ==
    ASSUME WebInv, NEW t \in WThreads, NEW o, Mutate(t, o)
    PROVE  /\ stage' \in [WPOCs -> Stages] /\ writes' \in [WPOCs -> Nat]
           /\ \A p \in wclosed : stage'[p] = stage[p] /\ writes'[p] = writes[p]
           /\ wclosed \cap capturing' \subseteq capturing
<1>1. wphase[t] = "mutating" BY DEF Mutate
<1>2. Serving(t) BY <1>1 DEF WebInv, WebTypeOK
<1>3. PICK q \in WPOCs : q = wreq[t].poc BY <1>2, RouteFacts DEF Serving
<1>4. PICK route \in DOMAIN Routes : route = wreq[t].route BY <1>2 DEF Serving
<1>5. stage \in [WPOCs -> Stages] /\ writes \in [WPOCs -> Nat] /\ wclosed \subseteq WPOCs
    BY DEF WebInv, WebTypeOK
<1>6. \/ UNCHANGED <<stage, writes, capturing>>
      \/ \E m \in Moves : /\ m[1] = route /\ m[2] = stage[q]
                          /\ stage' = [stage EXCEPT ![q] = m[3]]
                          /\ UNCHANGED <<writes, capturing>>
      \/ /\ route \notin MovingRoutes /\ writes' = [writes EXCEPT ![q] = @ + 1]
         /\ capturing' = IF route = "meeting" THEN capturing \cup {q} ELSE capturing
         /\ UNCHANGED stage
    BY <1>3, <1>4 DEF Mutate
<1>7. q \in wclosed => route = "revision"
    <2>1. SUFFICES ASSUME q \in wclosed PROVE route = "revision" OBVIOUS
    <2>2. route \notin ScopedRoutes BY <1>1, <1>3, <1>4, <2>1, HolderIsOpen DEF Holds
    <2>3. route # "closure" /\ q \in POCsOf(route) /\ q # Performance
        BY <1>1, <1>2, <1>3, <1>4, <2>1 DEF Serving, WebInv, ClosedAtRest
    <2> QED BY <2>2, <2>3, RouteFacts
<1>8. CASE UNCHANGED <<stage, writes, capturing>> BY <1>5, <1>8
<1>9. ASSUME NEW m \in Moves, m[1] = route, m[2] = stage[q], stage' = [stage EXCEPT ![q] = m[3]],
             UNCHANGED <<writes, capturing>>
      PROVE  /\ stage' \in [WPOCs -> Stages] /\ writes' \in [WPOCs -> Nat]
             /\ \A p \in wclosed : stage'[p] = stage[p] /\ writes'[p] = writes[p]
             /\ wclosed \cap capturing' \subseteq capturing
    <2>1. m[3] \in Stages BY DEF Moves, Stages
    <2>2. m[1] = "revision" => m[2] = "changes" BY DEF Moves
    <2>3. q \notin wclosed BY <1>7, <1>9, <2>2 DEF WebInv, ClosedAtRest
    <2> QED BY <1>5, <1>9, <2>1, <2>3
<1>10. CASE /\ route \notin MovingRoutes /\ writes' = [writes EXCEPT ![q] = @ + 1]
            /\ capturing' = IF route = "meeting" THEN capturing \cup {q} ELSE capturing
            /\ UNCHANGED stage
    <2>1. q \notin wclosed BY <1>7, <1>10 DEF MovingRoutes
    <2> QED BY <1>5, <1>10, <2>1
<1> QED BY <1>6, <1>8, <1>9, <1>10

LEMMA MutateStep == ASSUME WebInv, NEW t \in WThreads, NEW o, Mutate(t, o) PROVE WebInv'
<1>1. wphase[t] = "mutating" /\ GoOn(t, "mutated") /\ UNCHANGED <<reserved, wclosed>>
    BY DEF Mutate
<1>2. Serving(t) BY <1>1 DEF WebInv, WebTypeOK
<1> DEFINE r == [route |-> wreq[t].route, poc |-> wreq[t].poc, late |-> wreq[t].late, outcome |-> o]
<1>3. wreq' = [wreq EXCEPT ![t] = r] BY DEF Mutate
<1>4. r.route = wreq[t].route /\ r.poc = wreq[t].poc OBVIOUS
<1> HIDE DEF r
<1>5. /\ wphase' \in [WThreads -> Phases] /\ wphase'[t] = "mutated"
      /\ DOMAIN wreq' = WThreads /\ wreq'[t] = r /\ OthersWait(t)
    BY <1>1, <1>3, ThreadTakes DEF WebInv, Phases
<1>6. Serving(t)' BY <1>2, <1>4, <1>5 DEF Serving
<1>7. \A u \in WThreads : wphase'[u] # "idle" => Serving(u)'
    BY <1>5, <1>6 DEF OthersWait, WebInv, WebTypeOK, Serving
<1>8. WebTypeOK' BY <1>1, <1>5, <1>7, MutateSpares DEF WebInv, WebTypeOK
<1>9. ReservationsBalance'
    <2>1. \A p \in WPOCs : Holds(t, p)' <=> Holds(t, p) BY <1>1, <1>4, <1>5 DEF Holds
    <2>2. \A p \in WPOCs : reserved'[p] = Cardinality(Holders(p)') BY <1>1, <1>5, <2>1, HoldersCount
    <2> QED BY <2>2 DEF ReservationsBalance, Holders, Holds
<1>10. ClosedAtRest' BY <1>1, MutateSpares DEF WebInv, ClosedAtRest
<1>11. ClosureEndsCapture'
    <2> SUFFICES ASSUME NEW p \in wclosed' \cap capturing'
                 PROVE  \E u \in WThreads : wphase'[u] = "revoking" /\ wreq'[u].poc = p
        BY DEF ClosureEndsCapture
    <2>1. p \in wclosed \cap capturing BY <1>1, MutateSpares
    <2>2. PICK u \in WThreads : wphase[u] = "revoking" /\ wreq[u].poc = p
        BY <2>1 DEF WebInv, ClosureEndsCapture
    <2> QED BY <1>1, <1>5, <2>2 DEF OthersWait
<1> QED BY <1>8, <1>9, <1>10, <1>11 DEF WebInv

\* A closure is recorded for a POC without a handler inside.
LEMMA RecordClosureStep ==
    ASSUME WebInv, NEW t \in WThreads, NEW o, RecordClosure(t, o) PROVE WebInv'
<1>1. /\ wphase[t] = "ready" /\ wreq[t].route = "closure"
      /\ UNCHANGED <<reserved, stage, writes, capturing>>
    BY DEF RecordClosure
<1>2. Serving(t) BY <1>1 DEF WebInv, WebTypeOK
<1>3. PICK q \in WPOCs : q = wreq[t].poc BY <1>2, RouteFacts DEF Serving
<1>4. \A p \in WPOCs : ~Holds(t, p) BY <1>1 DEF Holds
<1>5. CASE Answer(t, ClosureStatus[o]) /\ wclosed' = wclosed
    BY <1>1, <1>4, <1>5, AnswerEnds, ThreadStays DEF WebInv
<1> DEFINE r == [route |-> "closure", poc |-> q, late |-> FALSE, outcome |-> o]
<1>6. CASE /\ \/ q \in wclosed
              \/ q \notin wclosed /\ reserved[q] = 0 /\ AtTerminalStage(q)
           /\ wclosed' = wclosed \cup {q} /\ wreq' = [wreq EXCEPT ![t] = r] /\ GoOn(t, "revoking")
    <2>1. r.route = "closure" /\ r.poc = q OBVIOUS
    <2>2. wreq' = [wreq EXCEPT ![t] = r] BY <1>6
    <2> HIDE DEF r
    <2>3. /\ wphase' \in [WThreads -> Phases] /\ wphase'[t] = "revoking"
          /\ DOMAIN wreq' = WThreads /\ wreq'[t] = r /\ OthersWait(t)
        BY <1>6, <2>2, ThreadTakes DEF WebInv, Phases
    <2>4. Serving(t)' BY <1>1, <1>2, <1>3, <2>1, <2>3 DEF Serving
    <2>5. \A u \in WThreads : wphase'[u] # "idle" => Serving(u)'
        BY <2>3, <2>4 DEF OthersWait, WebInv, WebTypeOK, Serving
    <2>6. WebTypeOK' BY <1>1, <1>6, <2>3, <2>5 DEF WebInv, WebTypeOK
    <2>7. ReservationsBalance'
        <3>1. \A p \in WPOCs : ~Holds(t, p)' BY <2>3 DEF Holds
        <3>2. \A p \in WPOCs : reserved'[p] = Cardinality(Holders(p)')
            BY <1>1, <1>4, <2>3, <3>1, HoldersCount
        <3> QED BY <3>2 DEF ReservationsBalance, Holders, Holds
    <2>8. ClosedAtRest' BY <1>1, <1>6 DEF WebInv, ClosedAtRest, AtTerminalStage
    <2>9. ClosureEndsCapture'
        <3> SUFFICES ASSUME NEW p \in wclosed' \cap capturing'
                     PROVE  \E u \in WThreads : wphase'[u] = "revoking" /\ wreq'[u].poc = p
            BY DEF ClosureEndsCapture
        <3>1. CASE p = q BY <2>1, <2>3, <3>1
        <3>2. CASE p # q
            <4>1. PICK u \in WThreads : wphase[u] = "revoking" /\ wreq[u].poc = p
                BY <1>1, <1>6, <3>2 DEF WebInv, ClosureEndsCapture
            <4> QED BY <1>1, <2>3, <4>1 DEF OthersWait
        <3> QED BY <3>1, <3>2
    <2> QED BY <2>6, <2>7, <2>8, <2>9 DEF WebInv
<1> QED BY <1>3, <1>5, <1>6 DEF RecordClosure

LEMMA RevokeStep == ASSUME WebInv, NEW t \in WThreads, RevokeCapture(t) PROVE WebInv'
<1>1. /\ wphase[t] = "revoking" /\ capturing' = capturing \ {wreq[t].poc}
      /\ Answer(t, ClosureStatus[wreq[t].outcome])
      /\ UNCHANGED <<reserved, wclosed, stage, writes>>
    BY DEF RevokeCapture
<1>2. /\ wphase' \in [WThreads -> Phases] /\ wphase'[t] = "idle"
      /\ DOMAIN wreq' = WThreads /\ OthersWait(t) /\ \A p \in WPOCs : ~Holds(t, p)'
    BY <1>1, AnswerEnds DEF WebInv
<1>3. \A u \in WThreads : wphase'[u] # "idle" => Serving(u)'
    BY <1>2 DEF OthersWait, WebInv, WebTypeOK, Serving
<1>4. WebTypeOK' BY <1>1, <1>2, <1>3 DEF WebInv, WebTypeOK
<1>5. ReservationsBalance'
    <2>1. \A p \in WPOCs : ~Holds(t, p) BY <1>1 DEF Holds
    <2>2. \A p \in WPOCs : reserved'[p] = Cardinality(Holders(p)') BY <1>1, <1>2, <2>1, HoldersCount
    <2> QED BY <2>2 DEF ReservationsBalance, Holders, Holds
<1>6. ClosedAtRest' BY <1>1 DEF WebInv, ClosedAtRest
<1>7. ClosureEndsCapture'
    <2> SUFFICES ASSUME NEW p \in wclosed' \cap capturing'
                 PROVE  \E u \in WThreads : wphase'[u] = "revoking" /\ wreq'[u].poc = p
        BY DEF ClosureEndsCapture
    <2>1. PICK u \in WThreads : wphase[u] = "revoking" /\ wreq[u].poc = p
        BY <1>1 DEF WebInv, ClosureEndsCapture
    <2> QED BY <1>1, <1>2, <2>1 DEF OthersWait
<1> QED BY <1>4, <1>5, <1>6, <1>7 DEF WebInv

LEMMA OutsideStep ==
    ASSUME WebInv, NEW p \in Drafts, RunEnds(p) \/ GatewayArchive(p)
    PROVE  WebInv' /\ \A q \in wclosed : stage'[q] = stage[q] /\ writes'[q] = writes[q]
<1>1. UNCHANGED <<wphase, wreq, reserved, wclosed, writes, capturing>> BY DEF RunEnds, GatewayArchive
<1>2. stage \in [WPOCs -> Stages] /\ p \in WPOCs /\ wclosed \subseteq WPOCs
    BY DEF WebInv, WebTypeOK, WPOCs
<1>3. /\ stage' \in [WPOCs -> Stages]
      /\ \A q \in wclosed : stage'[q] = stage[q]
    BY <1>2 DEF RunEnds, GatewayArchive, Stages, WebInv, ClosedAtRest
<1>4. WebTypeOK' BY <1>1, <1>3 DEF WebInv, WebTypeOK, Serving
<1>5. ReservationsBalance' BY <1>1 DEF WebInv, ReservationsBalance
<1>6. ClosedAtRest' BY <1>1, <1>3 DEF WebInv, ClosedAtRest
<1>7. ClosureEndsCapture' BY <1>1 DEF WebInv, ClosureEndsCapture
<1> QED BY <1>1, <1>3, <1>4, <1>5, <1>6, <1>7 DEF WebInv

LEMMA WebKeeps == WebInv /\ [WebNext]_webVars => WebInv'
<1> SUFFICES ASSUME WebInv, [WebNext]_webVars PROVE WebInv' OBVIOUS
<1>1. CASE UNCHANGED webVars
    BY <1>1 DEF webVars, WebInv, WebTypeOK, Serving, ReservationsBalance, ClosedAtRest, ClosureEndsCapture
<1>2. ASSUME NEW t \in WThreads,
             \/ \E r \in Requests : Receive(t, r)
             \/ EndPrecheck(t) \/ ReadBody(t) \/ Reserve(t)
             \/ \E o : Mutate(t, o)
             \/ Release(t)
             \/ \E o : RecordClosure(t, o)
             \/ RevokeCapture(t)
      PROVE  WebInv'
    BY <1>2, ReceiveStep, EndPrecheckStep, ReadBodyStep, ReserveThreadStep, MutateStep, ReleaseStep,
       RecordClosureStep, RevokeStep
<1> QED BY <1>1, <1>2, OutsideStep DEF WebNext

LEMMA WebStarts == WebInit => WebInv
<1> SUFFICES ASSUME WebInit PROVE WebInv OBVIOUS
<1>1. WebTypeOK BY DEF WebInit, WebTypeOK, Phases, Stages
<1>2. \A p \in WPOCs : Holders(p) = {} BY DEF WebInit, Holders, Holds
<1>3. ReservationsBalance
    BY <1>2, FS_EmptySet DEF WebInit, ReservationsBalance, Holders, Holds
<1> QED BY <1>1, <1>3 DEF WebInit, WebInv, ClosedAtRest, ClosureEndsCapture

\* Reservations are the handlers inside the services and a closed POC captures
\* nothing, for any number of threads and POCs.
THEOREM ClosureStaysGuarded == WebSpec => []ClosureIsGuarded
<1>1. WebInv => ClosureIsGuarded BY DEF WebInv, ClosureIsGuarded
<1> QED BY <1>1, WebStarts, WebKeeps, PTL DEF WebSpec

\* Nothing of a POC changes once its closure is recorded, whichever handlers
\* were past their checks.
THEOREM NothingAfterClose == WebSpec => NoWriteAfterClose
<1>1. WebInv /\ [WebNext]_webVars =>
        [\A p \in wclosed : stage'[p] = stage[p] /\ writes'[p] = writes[p]]_webVars
    <2> SUFFICES ASSUME WebInv, WebNext
                 PROVE  \A p \in wclosed : stage'[p] = stage[p] /\ writes'[p] = writes[p]
        OBVIOUS
    <2>1. CASE UNCHANGED <<stage, writes>> BY <2>1
    <2>2. ASSUME NEW t \in WThreads, NEW o, Mutate(t, o)
          PROVE  \A p \in wclosed : stage'[p] = stage[p] /\ writes'[p] = writes[p]
        BY <2>2, MutateSpares
    <2>3. ASSUME NEW t \in WThreads,
                 \/ \E r \in Requests : Receive(t, r)
                 \/ EndPrecheck(t) \/ ReadBody(t) \/ Reserve(t)
                 \/ Release(t)
                 \/ \E o : RecordClosure(t, o)
                 \/ RevokeCapture(t)
          PROVE  UNCHANGED <<stage, writes>>
        BY <2>3 DEF Receive, EndPrecheck, ReadBody, Reserve, Release, RecordClosure, RevokeCapture
    <2> QED BY <2>1, <2>2, <2>3, OutsideStep DEF WebNext
<1> QED BY <1>1, WebStarts, WebKeeps, PTL DEF WebSpec, NoWriteAfterClose

-----------------------------------------------------------------------------
(***************************************************************************)
(* ConfirmationLedger.                                                     *)
(***************************************************************************)

Entries ==
    [type : {"ISSUED", "REISSUED", "REVOKED", "REJECTED"},
     id : {i.id : i \in Capabilities}, version : {i.version : i \in Capabilities},
     print : {i.print : i \in Capabilities}, at : Nat,
     reason : {Missing, "MANUAL", "REISSUED"}]

LedgerTypeOK ==
    /\ rows \subseteq Capabilities /\ IsFiniteSet(rows)
    /\ audit \in Seq(Entries)

Revocations(r) == {n \in DOMAIN audit : audit[n].type = "REVOKED" /\ audit[n].id = r.id}

\* RevocationsAudited and CreationsAudited, without cardinalities
RevokedOnce ==
    /\ \A r \in revoked : \E n : Revocations(r) = {n}
    /\ \A e \in Events : e.type = "REVOKED" =>
            \E r \in revoked : r.id = e.id /\ r.at = e.at /\ r.reason = e.reason

Reissued == {i \in rows : \E n \in Creations(i) : audit[n].type = "REISSUED"}

CreatedOnce == \A i \in rows : \E n : Creations(i) = {n} /\ audit[n].at = i.issued

ReissuesMatch ==
    /\ \A i \in Reissued : \E s : ReissueSources(i) = {s}
    /\ \A i, j \in Reissued : i # j => ReissueSources(i) # ReissueSources(j)
    /\ \A r \in revoked : r.reason = "REISSUED" =>
            \E i \in Reissued : \E s \in ReissueSources(i) : s.id = r.id

\* A decision was made through a row that is not revoked.
DecisionsStand ==
    \A v \in DOMAIN ruled : \E i \in rows :
        /\ i.version = v /\ i.issued < i.expires /\ RevocationOf(i.id) = {}
        /\ ruled[v] = [id |-> i.id, print |-> i.print, at |-> i.issued]

LedgerInv ==
    /\ LedgerTypeOK
    /\ OnePrintPerVersion /\ RowsAgree /\ EventsAgree
    /\ RevokedOnce /\ CreatedOnce /\ ReissuesMatch
    /\ DecisionsStand

\* The audit log is a sequence, so sets of its events are finite.
LEMMA AuditFacts ==
    ASSUME LedgerTypeOK
    PROVE  /\ DOMAIN audit = 1 .. Len(audit) /\ Len(audit) \in Nat
           /\ \A n \in DOMAIN audit : audit[n] \in Entries
           /\ \A S \in SUBSET DOMAIN audit : IsFiniteSet(S) /\ (Cardinality(S) = 1 <=> \E n : S = {n})
<1>1. DOMAIN audit = 1 .. Len(audit) /\ Len(audit) \in Nat /\ \A n \in DOMAIN audit : audit[n] \in Entries
    BY DEF LedgerTypeOK
<1>2. IsFiniteSet(1 .. Len(audit)) BY <1>1, FS_Interval
<1> QED BY <1>1, <1>2, FS_Subset, FS_Singleton

LEMMA ValidIsInvariant ==
    ASSUME LedgerTypeOK
    PROVE  /\ RevocationsAudited <=> RevokedOnce
           /\ CreationsAudited <=> CreatedOnce /\ ReissuesMatch
<1>1. \A r \in revoked : Revocations(r) \in SUBSET DOMAIN audit BY DEF Revocations
<1>2. \A i \in rows : Creations(i) \in SUBSET DOMAIN audit BY DEF Creations
<1>3. \A i \in rows : IsFiniteSet(ReissueSources(i))
    BY FS_Subset DEF ReissueSources, LedgerTypeOK
<1>4. \A i \in rows : Cardinality(ReissueSources(i)) = 1 <=> \E s : ReissueSources(i) = {s}
    BY <1>3, FS_Singleton
<1>5. \A r \in revoked : Cardinality(Revocations(r)) = 1 <=> \E n : Revocations(r) = {n}
    BY <1>1, AuditFacts
<1>6. \A i \in rows : Cardinality(Creations(i)) = 1 <=> \E n : Creations(i) = {n}
    BY <1>2, AuditFacts
<1>7. RevocationsAudited <=> RevokedOnce
    BY <1>5 DEF RevocationsAudited, RevokedOnce, Revocations
<1>8. (\A i \in rows : Cardinality(Creations(i)) = 1 /\ \A n \in Creations(i) : audit[n].at = i.issued)
        <=> CreatedOnce
    BY <1>6 DEF CreatedOnce
<1>9. (\A i \in Reissued : Cardinality(ReissueSources(i)) = 1) <=> \A i \in Reissued : \E s : ReissueSources(i) = {s}
    BY <1>4 DEF Reissued
<1>10. CreationsAudited <=> CreatedOnce /\ ReissuesMatch
    <2> HIDE DEF CreatedOnce
    <2> QED BY <1>8, <1>9 DEF CreationsAudited, ReissuesMatch, Reissued
<1> QED BY <1>7, <1>10

\* What one more event does to the log.
LEMMA OneEvent ==
    ASSUME LedgerTypeOK, NEW e \in Entries, audit' = audit \o <<e>>
    PROVE  \E n : /\ n \notin DOMAIN audit /\ DOMAIN audit' = DOMAIN audit \cup {n}
                  /\ audit'[n] = e /\ \A k \in DOMAIN audit : audit'[k] = audit[k]
                  /\ audit' \in Seq(Entries) /\ Events' = Events \cup {e}
<1>1. audit \in Seq(Entries) BY DEF LedgerTypeOK
<1>2. audit' = Append(audit, e) BY <1>1
<1>3. PICK n : n = Len(audit) + 1 OBVIOUS
<1>4. /\ n \notin DOMAIN audit /\ DOMAIN audit' = DOMAIN audit \cup {n}
      /\ audit'[n] = e /\ \A k \in DOMAIN audit : audit'[k] = audit[k]
      /\ audit' \in Seq(Entries)
    BY <1>1, <1>2, <1>3
<1>5. Events' = Events \cup {e} BY <1>4 DEF Events
<1> QED BY <1>4, <1>5

\* What two more events do to the log.
LEMMA TwoEvents ==
    ASSUME LedgerTypeOK, NEW e \in Entries, NEW f \in Entries, audit' = audit \o <<e, f>>
    PROVE  \E n, m : /\ n \notin DOMAIN audit /\ m \notin DOMAIN audit /\ n # m
                     /\ DOMAIN audit' = DOMAIN audit \cup {n, m}
                     /\ audit'[n] = e /\ audit'[m] = f
                     /\ \A k \in DOMAIN audit : audit'[k] = audit[k]
                     /\ audit' \in Seq(Entries) /\ Events' = Events \cup {e, f}
<1>1. audit \in Seq(Entries) BY DEF LedgerTypeOK
<1>2. audit' = Append(Append(audit, e), f) BY <1>1
<1>3. PICK n, m : n = Len(audit) + 1 /\ m = Len(audit) + 2 OBVIOUS
<1>4. /\ n \notin DOMAIN audit /\ m \notin DOMAIN audit /\ n # m
      /\ DOMAIN audit' = DOMAIN audit \cup {n, m}
      /\ audit'[n] = e /\ audit'[m] = f /\ \A k \in DOMAIN audit : audit'[k] = audit[k]
      /\ audit' \in Seq(Entries)
    BY <1>1, <1>2, <1>3
<1>5. Events' = Events \cup {e, f} BY <1>4 DEF Events
<1> QED BY <1>4, <1>5

LEMMA EventType ==
    ASSUME NEW i \in Capabilities, NEW type \in {"ISSUED", "REISSUED", "REVOKED", "REJECTED"},
           NEW at \in Nat, NEW reason \in {Missing, "MANUAL", "REISSUED"}
    PROVE  /\ Event(type, i, at, reason) \in Entries
           /\ Event(type, i, at, reason).type = type /\ Event(type, i, at, reason).id = i.id
           /\ Event(type, i, at, reason).version = i.version
           /\ Event(type, i, at, reason).print = i.print
           /\ Event(type, i, at, reason).at = at /\ Event(type, i, at, reason).reason = reason
BY DEF Event, Entries

\* Rows whose events are not added to keep theirs.
LEMMA CreationsStay ==
    ASSUME CreatedOnce, rows' = rows, \A i \in rows : Creations(i)' = Creations(i),
           \A k \in DOMAIN audit : audit'[k] = audit[k]
    PROVE  CreatedOnce'
<1> SUFFICES ASSUME NEW i \in rows PROVE \E n : Creations(i)' = {n} /\ audit'[n].at = i.issued
    BY DEF CreatedOnce
<1>1. PICK n : Creations(i) = {n} /\ audit[n].at = i.issued BY DEF CreatedOnce
<1>2. n \in DOMAIN audit BY <1>1 DEF Creations
<1> QED BY <1>1, <1>2

\* ... and a new row gets its own.
LEMMA CreationsGrow ==
    ASSUME CreatedOnce, NEW inv, rows' = rows \cup {inv},
           \A i \in rows : Creations(i)' = Creations(i),
           NEW n, Creations(inv)' = {n}, audit'[n].at = inv.issued,
           \A k \in DOMAIN audit : audit'[k] = audit[k]
    PROVE  CreatedOnce'
<1> SUFFICES ASSUME NEW i \in rows PROVE \E k : Creations(i)' = {k} /\ audit'[k].at = i.issued
    BY DEF CreatedOnce
<1>1. PICK k : Creations(i) = {k} /\ audit[k].at = i.issued BY DEF CreatedOnce
<1>2. k \in DOMAIN audit BY <1>1 DEF Creations
<1> QED BY <1>1, <1>2

\* A version that was decided is not revoked any more.
LEMMA DecisionsStay ==
    ASSUME DecisionsStand, ruled' = ruled, rows \subseteq rows',
           \A j \in rows : j.version \in DOMAIN ruled => RevocationOf(j.id)' = RevocationOf(j.id)
    PROVE  DecisionsStand'
BY DEF DecisionsStand

\* A rejection is about no row, or about a row as it is.
LEMMA AuditRejectionStep ==
    ASSUME LedgerInv, NEW p, NEW inv \in Capabilities, AuditRejection(p, inv) PROVE LedgerInv'
<1>1. /\ PrintFits(inv) /\ EventFits("REJECTED", inv)
      /\ \A e \in Events : e.id # inv.id
      /\ UNCHANGED <<rows, revoked, ruled>>
    BY DEF AuditRejection
<1>2. inv.issued \in Nat BY LedgerAssumption
<1>3. PICK e \in Entries :
        /\ e = Event("REJECTED", inv, inv.issued, Missing)
        /\ e.type = "REJECTED" /\ e.id = inv.id /\ e.version = inv.version /\ e.print = inv.print
    BY <1>2, EventType
<1>4. audit' = audit \o <<e>> BY <1>3 DEF AuditRejection, Log
<1>5. LedgerTypeOK BY DEF LedgerInv
<1>6. PICK n : /\ n \notin DOMAIN audit /\ DOMAIN audit' = DOMAIN audit \cup {n}
               /\ audit'[n] = e /\ \A k \in DOMAIN audit : audit'[k] = audit[k]
               /\ audit' \in Seq(Entries) /\ Events' = Events \cup {e}
    BY <1>4, <1>5, OneEvent
<1>7. LedgerTypeOK' BY <1>1, <1>5, <1>6 DEF LedgerTypeOK
<1>8. OnePrintPerVersion' BY <1>1, <1>3, <1>6 DEF LedgerInv, OnePrintPerVersion, PrintFits
<1>9. RowsAgree' BY <1>1 DEF LedgerInv, RowsAgree
<1>10. EventsAgree' BY <1>1, <1>3, <1>6 DEF LedgerInv, EventsAgree, EventFits
<1>11. \A r \in revoked : Revocations(r)' = Revocations(r) BY <1>3, <1>6 DEF Revocations
<1>12. RevokedOnce' BY <1>1, <1>3, <1>6, <1>11 DEF LedgerInv, RevokedOnce
<1>13. \A i \in rows : Creations(i)' = Creations(i) BY <1>3, <1>6 DEF Creations
<1>14. CreatedOnce' BY <1>1, <1>6, <1>13, CreationsStay DEF LedgerInv
<1>15. \A i : ReissueSources(i)' = ReissueSources(i) BY <1>1 DEF ReissueSources, RevocationOf
<1>16. Reissued' = Reissued BY <1>1, <1>6, <1>13 DEF Reissued, Creations
<1>17. ReissuesMatch' BY <1>1, <1>15, <1>16 DEF LedgerInv, ReissuesMatch
<1>18. DecisionsStand' BY <1>1 DEF LedgerInv, DecisionsStand, RevocationOf
<1> QED BY <1>7, <1>8, <1>9, <1>10, <1>12, <1>14, <1>17, <1>18 DEF LedgerInv

\* A new row has no event of its own yet, and no revocation.
LEMMA NewRow ==
    ASSUME LedgerInv, NEW inv \in Capabilities, ~IssuanceRefused(inv)
    PROVE  /\ Creations(inv) = {} /\ RevocationOf(inv.id) = {} /\ inv \notin rows
           /\ \A i \in rows : i.id # inv.id /\ i.token # inv.token
           /\ \A e \in Events : e.id = inv.id => Bound(e) = Bound(inv)
           /\ \A x \in rows \cup Events : x.version = inv.version => x.print = inv.print
<1>1. /\ \A i \in rows : i.id # inv.id /\ i.token # inv.token
      /\ \A e \in Events : e.id = inv.id => Bound(e) = Bound(inv)
      /\ \A x \in rows \cup Events : x.version = inv.version => x.print = inv.print
    BY DEF IssuanceRefused, IdentityConflict
<1>2. Creations(inv) = {} BY <1>1 DEF LedgerInv, EventsAgree, Creations, Events
<1>3. RevocationOf(inv.id) = {} BY <1>1 DEF LedgerInv, RowsAgree, RevocationOf
<1> QED BY <1>1, <1>2, <1>3

LEMMA IssueInvitationStep ==
    ASSUME LedgerInv, NEW p, NEW inv \in Capabilities, IssueInvitation(p, inv) PROVE LedgerInv'
<1>1. ~IssuanceRefused(inv) /\ rows' = rows \cup {inv} /\ UNCHANGED <<revoked, ruled>>
    BY DEF IssueInvitation
<1>2. inv.issued \in Nat BY LedgerAssumption
<1>3. PICK e \in Entries :
        /\ e = Event("ISSUED", inv, inv.issued, Missing) /\ e.at = inv.issued
        /\ e.type = "ISSUED" /\ e.id = inv.id /\ e.version = inv.version /\ e.print = inv.print
    BY <1>2, EventType
<1>4. audit' = audit \o <<e>> BY <1>3 DEF IssueInvitation, Log
<1>5. LedgerTypeOK BY DEF LedgerInv
<1>6. PICK n : /\ n \notin DOMAIN audit /\ DOMAIN audit' = DOMAIN audit \cup {n}
               /\ audit'[n] = e /\ \A k \in DOMAIN audit : audit'[k] = audit[k]
               /\ audit' \in Seq(Entries) /\ Events' = Events \cup {e}
    BY <1>4, <1>5, OneEvent
<1>7. LedgerTypeOK' BY <1>1, <1>5, <1>6, FS_AddElement DEF LedgerTypeOK
<1>8. OnePrintPerVersion' BY <1>1, <1>3, <1>6, NewRow DEF LedgerInv, OnePrintPerVersion
<1>9. RowsAgree' BY <1>1, NewRow DEF LedgerInv, RowsAgree
<1>10. EventsAgree' BY <1>1, <1>3, <1>6, NewRow DEF LedgerInv, EventsAgree, Bound
<1>11. \A r \in revoked : Revocations(r)' = Revocations(r) BY <1>3, <1>6 DEF Revocations
<1>12. RevokedOnce' BY <1>1, <1>3, <1>6, <1>11 DEF LedgerInv, RevokedOnce
<1>13. \A i \in rows : Creations(i)' = Creations(i) BY <1>1, <1>3, <1>6, NewRow DEF Creations
<1>14. Creations(inv)' = {n} BY <1>1, <1>3, <1>6, NewRow DEF Creations
<1>15. CreatedOnce' BY <1>1, <1>3, <1>6, <1>13, <1>14, CreationsGrow DEF LedgerInv
<1>16. \A i \in rows : ReissueSources(i)' = ReissueSources(i)
    BY <1>1, NewRow DEF ReissueSources, RevocationOf
<1>17. Reissued' = Reissued BY <1>1, <1>3, <1>6, <1>13, <1>14 DEF Reissued, Creations
<1>18. Reissued \subseteq rows BY DEF Reissued
<1>19. ReissuesMatch' BY <1>1, <1>16, <1>17, <1>18 DEF LedgerInv, ReissuesMatch
<1>20. DecisionsStand' BY <1>1 DEF LedgerInv, DecisionsStand, RevocationOf
<1> QED BY <1>7, <1>8, <1>9, <1>10, <1>12, <1>15, <1>19, <1>20 DEF LedgerInv

LEMMA RevokeRowStep ==
    ASSUME LedgerInv, NEW p, NEW i \in rows, RevokeRow(p, i) PROVE LedgerInv'
<1>1. PICK r : r = [id |-> i.id, at |-> i.issued, reason |-> "MANUAL"] OBVIOUS
<1>2. /\ RevocationOf(i.id) = {} /\ i.version \notin DOMAIN ruled
      /\ revoked' = revoked \cup {r} /\ UNCHANGED <<rows, ruled>>
    BY <1>1 DEF RevokeRow, RevocationFits
<1>3. LedgerTypeOK /\ i \in Capabilities /\ i.issued \in Nat
    BY LedgerAssumption DEF LedgerInv, LedgerTypeOK
<1>4. r.id = i.id /\ r.at = i.issued /\ r.reason = "MANUAL" BY <1>1
<1>5. PICK e \in Entries :
        /\ e = Event("REVOKED", i, i.issued, "MANUAL") /\ e.at = r.at /\ e.reason = r.reason
        /\ e.type = "REVOKED" /\ e.id = i.id /\ e.version = i.version /\ e.print = i.print
    BY <1>3, <1>4, EventType
<1> HIDE <1>1
<1>6. audit' = audit \o <<e>> BY <1>5 DEF RevokeRow, Log
<1>7. PICK n : /\ n \notin DOMAIN audit /\ DOMAIN audit' = DOMAIN audit \cup {n}
               /\ audit'[n] = e /\ \A k \in DOMAIN audit : audit'[k] = audit[k]
               /\ audit' \in Seq(Entries) /\ Events' = Events \cup {e}
    BY <1>3, <1>6, OneEvent
<1>8. LedgerTypeOK' BY <1>2, <1>3, <1>7 DEF LedgerTypeOK
<1>9. OnePrintPerVersion' BY <1>2, <1>5, <1>7 DEF LedgerInv, OnePrintPerVersion
<1>10. RowsAgree' BY <1>2, <1>3, <1>4 DEF LedgerInv, RowsAgree, RevocationOf
<1>11. EventsAgree' BY <1>2, <1>5, <1>7 DEF LedgerInv, EventsAgree, Bound
<1>12. \A s \in revoked : Revocations(s)' = Revocations(s)
    BY <1>2, <1>5, <1>7 DEF Revocations, RevocationOf
<1>13. Revocations(r)' = {n}
    <2>1. \A k \in DOMAIN audit : audit[k].type = "REVOKED" => audit[k].id # i.id
        BY <1>2 DEF LedgerInv, RevokedOnce, Events, RevocationOf
    <2> QED BY <1>4, <1>5, <1>7, <2>1 DEF Revocations
<1>14. RevokedOnce' BY <1>2, <1>4, <1>5, <1>7, <1>12, <1>13 DEF LedgerInv, RevokedOnce
<1>15. \A j \in rows : Creations(j)' = Creations(j) BY <1>5, <1>7 DEF Creations
<1>16. CreatedOnce' BY <1>2, <1>7, <1>15, CreationsStay DEF LedgerInv
<1>17. \A j \in rows : ReissueSources(j)' = ReissueSources(j)
    BY <1>2, <1>4 DEF ReissueSources, RevocationOf
<1>18. Reissued' = Reissued /\ Reissued \subseteq rows BY <1>2, <1>7, <1>15 DEF Reissued, Creations
<1>19. ReissuesMatch'
    <2>1. \A j \in Reissued : ReissueSources(j)' = ReissueSources(j) BY <1>17, <1>18
    <2>2. \A q \in revoked' : q.reason = "REISSUED" => q \in revoked BY <1>2, <1>4
    <2>3. \A j \in Reissued' : \E s : ReissueSources(j)' = {s}
        BY <1>18, <2>1 DEF LedgerInv, ReissuesMatch
    <2>4. \A j, k \in Reissued' : j # k => ReissueSources(j)' # ReissueSources(k)'
        BY <1>18, <2>1 DEF LedgerInv, ReissuesMatch
    <2>5. \A q \in revoked' : q.reason = "REISSUED" =>
            \E j \in Reissued' : \E s \in ReissueSources(j)' : s.id = q.id
        BY <1>18, <2>1, <2>2 DEF LedgerInv, ReissuesMatch
    <2> QED BY <2>3, <2>4, <2>5 DEF ReissuesMatch
<1>20. \A j \in rows : j.version \in DOMAIN ruled => RevocationOf(j.id)' = RevocationOf(j.id)
    BY <1>2, <1>4 DEF LedgerInv, RowsAgree, RevocationOf
<1>21. DecisionsStand' BY <1>2, <1>20, DecisionsStay DEF LedgerInv
<1> QED BY <1>8, <1>9, <1>10, <1>11, <1>14, <1>16, <1>19, <1>21 DEF LedgerInv

LEMMA ReissueStep ==
    ASSUME LedgerInv, NEW p, NEW i \in rows, NEW inv \in Capabilities, Reissue(p, i, inv)
    PROVE  LedgerInv'
<1>1. PICK r : r = [id |-> i.id, at |-> inv.issued, reason |-> "REISSUED"] OBVIOUS
<1>2. /\ RevocationOf(i.id) = {} /\ i.version \notin DOMAIN ruled
      /\ ~IssuanceRefused(inv) /\ Bound(inv) = Bound(i) /\ i.issued < inv.issued
      /\ ~InstantIsTaken(inv)
      /\ rows' = rows \cup {inv} /\ revoked' = revoked \cup {r} /\ ruled' = ruled
    BY <1>1 DEF Reissue, RevocationFits
<1>3. LedgerTypeOK /\ i \in Capabilities /\ i.issued \in Nat /\ inv.issued \in Nat
    BY LedgerAssumption DEF LedgerInv, LedgerTypeOK
<1>4. r.id = i.id /\ r.at = inv.issued /\ r.reason = "REISSUED" BY <1>1
<1>5. PICK e \in Entries :
        /\ e = Event("REVOKED", i, inv.issued, "REISSUED") /\ e.at = r.at /\ e.reason = r.reason
        /\ e.type = "REVOKED" /\ e.id = i.id /\ e.version = i.version /\ e.print = i.print
    BY <1>3, <1>4, EventType
<1>6. PICK f \in Entries :
        /\ f = Event("REISSUED", inv, inv.issued, "REISSUED") /\ f.at = inv.issued
        /\ f.type = "REISSUED" /\ f.id = inv.id /\ f.version = inv.version /\ f.print = inv.print
    BY <1>3, EventType
<1> HIDE <1>1
<1>7. audit' = audit \o <<e, f>> BY <1>5, <1>6 DEF Reissue, Log
<1>8. PICK n, m :
        /\ n \notin DOMAIN audit /\ m \notin DOMAIN audit /\ n # m
        /\ DOMAIN audit' = DOMAIN audit \cup {n, m}
        /\ audit'[n] = e /\ audit'[m] = f
        /\ \A k \in DOMAIN audit : audit'[k] = audit[k]
        /\ audit' \in Seq(Entries) /\ Events' = Events \cup {e, f}
    BY <1>3, <1>7, TwoEvents
<1>9. i.version = inv.version /\ i.print = inv.print /\ i # inv /\ i.id # inv.id
    BY <1>2, NewRow DEF Bound
<1>10. LedgerTypeOK' BY <1>2, <1>3, <1>8, FS_AddElement DEF LedgerTypeOK
<1>11. OnePrintPerVersion' BY <1>2, <1>5, <1>6, <1>8, <1>9, NewRow DEF LedgerInv, OnePrintPerVersion
<1>12. RowsAgree'
    <2>1. \A j, k \in rows' : j # k => j.id # k.id /\ j.token # k.token
        BY <1>2, NewRow DEF LedgerInv, RowsAgree
    <2>2. \A q \in revoked' : \E j \in rows' : j.id = q.id /\ j.issued <= q.at
        BY <1>2, <1>3, <1>4 DEF LedgerInv, RowsAgree
    <2>3. \A q, s \in revoked' : q.id = s.id => q = s
        BY <1>2, <1>4 DEF LedgerInv, RowsAgree, RevocationOf
    <2> QED BY <2>1, <2>2, <2>3 DEF RowsAgree
<1>13. EventsAgree' BY <1>2, <1>5, <1>6, <1>8, <1>9, NewRow DEF LedgerInv, EventsAgree, Bound
<1>14. \A s \in revoked : Revocations(s)' = Revocations(s)
    BY <1>2, <1>5, <1>6, <1>8 DEF Revocations, RevocationOf
<1>15. Revocations(r)' = {n}
    <2>1. \A k \in DOMAIN audit : audit[k].type = "REVOKED" => audit[k].id # i.id
        BY <1>2 DEF LedgerInv, RevokedOnce, Events, RevocationOf
    <2> QED BY <1>4, <1>5, <1>6, <1>8, <2>1 DEF Revocations
<1>16. RevokedOnce'
    <2>1. \A s \in revoked' : \E k : Revocations(s)' = {k}
        BY <1>2, <1>14, <1>15 DEF LedgerInv, RevokedOnce
    <2>2. \A g \in Events' : g.type = "REVOKED" =>
            \E s \in revoked' : s.id = g.id /\ s.at = g.at /\ s.reason = g.reason
        BY <1>2, <1>4, <1>5, <1>6, <1>8 DEF LedgerInv, RevokedOnce
    <2> QED BY <2>1, <2>2 DEF RevokedOnce
<1>17. \A j \in rows : Creations(j)' = Creations(j)
    BY <1>2, <1>5, <1>6, <1>8, NewRow DEF Creations
<1>18. Creations(inv)' = {m} BY <1>2, <1>5, <1>6, <1>8, NewRow DEF Creations
<1>19. CreatedOnce' BY <1>2, <1>6, <1>8, <1>17, <1>18, CreationsGrow DEF LedgerInv
<1>20. Reissued' = Reissued \cup {inv} /\ Reissued \subseteq rows /\ inv \notin Reissued
    BY <1>2, <1>6, <1>8, <1>17, <1>18, NewRow DEF Reissued, Creations
<1>21. ReissueSources(inv)' = {i}
    <2>1. i \in ReissueSources(inv)' BY <1>2, <1>3, <1>4, <1>9 DEF ReissueSources, RevocationOf
    <2>2. ASSUME NEW s \in ReissueSources(inv)' PROVE s = i
        <3>1. /\ s \in rows /\ Bound(s) = Bound(inv)
              /\ \E q \in revoked' : q.id = s.id /\ q.at = inv.issued /\ q.reason = "REISSUED"
            BY <1>2 DEF ReissueSources, RevocationOf
        <3>2. s.id = i.id BY <1>2, <1>4, <3>1 DEF InstantIsTaken, RevocationOf
        <3> QED BY <3>1, <3>2 DEF LedgerInv, RowsAgree
    <2> QED BY <2>1, <2>2
<1>22. \A j \in Reissued : ReissueSources(j)' = ReissueSources(j) /\ i \notin ReissueSources(j)
    <2> SUFFICES ASSUME NEW j \in Reissued
                 PROVE  ReissueSources(j)' = ReissueSources(j) /\ i \notin ReissueSources(j)
        OBVIOUS
    <2>1. PICK s : ReissueSources(j) = {s} BY DEF LedgerInv, ReissuesMatch
    <2>2. s \in rows /\ Bound(s) = Bound(j)
          /\ \E q \in RevocationOf(s.id) : q.at = j.issued /\ q.reason = "REISSUED"
        BY <2>1 DEF ReissueSources
    <2>3. Bound(j) # Bound(i) \/ j.issued # inv.issued BY <1>2, <2>2 DEF InstantIsTaken
    <2>4. i \notin ReissueSources(j) BY <1>2 DEF ReissueSources
    <2>5. \A x \in rows : x \in ReissueSources(j)' <=> x \in ReissueSources(j)
        BY <1>2, <1>4, <2>3 DEF ReissueSources, RevocationOf, LedgerInv, RowsAgree
    <2>6. inv \notin ReissueSources(j)' BY <1>2, <1>4, <1>9, NewRow DEF ReissueSources, RevocationOf
    <2>7. ReissueSources(j) \subseteq rows /\ ReissueSources(j)' \subseteq rows \cup {inv}
        BY <1>2 DEF ReissueSources
    <2> QED BY <2>4, <2>5, <2>6, <2>7, <1>2, NewRow
<1>23. ReissuesMatch'
    <2>1. \A j \in Reissued' : \E s : ReissueSources(j)' = {s}
        BY <1>20, <1>21, <1>22 DEF LedgerInv, ReissuesMatch
    <2>2. \A j, k \in Reissued' : j # k => ReissueSources(j)' # ReissueSources(k)'
        BY <1>20, <1>21, <1>22 DEF LedgerInv, ReissuesMatch
    <2>3. \A q \in revoked' : q.reason = "REISSUED" =>
            \E j \in Reissued' : \E s \in ReissueSources(j)' : s.id = q.id
        BY <1>2, <1>4, <1>20, <1>21, <1>22 DEF LedgerInv, ReissuesMatch
    <2> QED BY <2>1, <2>2, <2>3 DEF ReissuesMatch
<1>24. \A j \in rows : j.version \in DOMAIN ruled => RevocationOf(j.id)' = RevocationOf(j.id)
    BY <1>2, <1>4 DEF LedgerInv, RowsAgree, RevocationOf
<1>25. DecisionsStand' BY <1>2, <1>24, DecisionsStay DEF LedgerInv
<1> QED BY <1>10, <1>11, <1>12, <1>13, <1>16, <1>19, <1>23, <1>25 DEF LedgerInv

\* A decision leaves rows, revocations and events alone.
LEMMA QuietLedger ==
    ASSUME LedgerInv, UNCHANGED <<rows, revoked, audit>>, DecisionsStand' PROVE LedgerInv'
<1>1. LedgerTypeOK' BY DEF LedgerInv, LedgerTypeOK
<1>2. Events' = Events BY DEF Events
<1>3. OnePrintPerVersion' /\ RowsAgree' /\ EventsAgree'
    BY <1>2 DEF LedgerInv, OnePrintPerVersion, RowsAgree, EventsAgree
<1>4. RevokedOnce' BY <1>2 DEF LedgerInv, RevokedOnce, Revocations
<1>5. CreatedOnce' BY DEF LedgerInv, CreatedOnce, Creations
<1>6. Reissued' = Reissued BY DEF Reissued, Creations
<1>7. \A i : ReissueSources(i)' = ReissueSources(i) BY DEF ReissueSources, RevocationOf
<1>8. ReissuesMatch' BY <1>6, <1>7 DEF LedgerInv, ReissuesMatch
<1> QED BY <1>1, <1>3, <1>4, <1>5, <1>8 DEF LedgerInv

LEMMA RuleStep ==
    ASSUME LedgerInv, NEW p, NEW i \in rows, Rule(p, i) PROVE LedgerInv'
<1>1. PICK d : d = [id |-> i.id, print |-> i.print, at |-> i.issued] OBVIOUS
<1>2. /\ i.issued < i.expires /\ RevocationOf(i.id) = {}
      /\ ruled' = Put(ruled, i.version, d) /\ UNCHANGED <<rows, revoked, audit>>
    BY <1>1 DEF Rule, DecisionFits
<1>3. DecisionsStand'
    <2> SUFFICES ASSUME NEW v \in DOMAIN ruled'
                 PROVE \E j \in rows :
                    /\ j.version = v /\ j.issued < j.expires /\ RevocationOf(j.id) = {}
                    /\ ruled'[v] = [id |-> j.id, print |-> j.print, at |-> j.issued]
        BY <1>2 DEF DecisionsStand, RevocationOf
    <2>1. CASE v = i.version BY <1>1, <1>2, <2>1 DEF Put
    <2>2. CASE v # i.version
        <3>1. v \in DOMAIN ruled /\ ruled'[v] = ruled[v] BY <1>2, <2>2 DEF Put
        <3> QED BY <3>1 DEF LedgerInv, DecisionsStand
    <2> QED BY <2>1, <2>2
<1> QED BY <1>2, <1>3, QuietLedger

\* Statements cannot touch what is stored.
LEMMA StatementsAreHarmless ==
    ASSUME NEW p, NEW verb \in {"select", "update", "delete", "drop"},
           NEW table \in {"history", "domain"}, Statement(p, verb, table)
    PROVE  UNCHANGED <<history, schema, contents>>
BY DEF Statement, Authorized, AppendOnly, contents

LEMMA LedgerKeeps == LedgerInv /\ [LedgerNext]_ledgerVars => LedgerInv'
<1> SUFFICES ASSUME LedgerInv, [LedgerNext]_ledgerVars PROVE LedgerInv' OBVIOUS
<1>1. CASE UNCHANGED contents
    <2>1. DecisionsStand' BY <1>1 DEF contents, LedgerInv, DecisionsStand, RevocationOf
    <2> QED BY <1>1, <2>1, QuietLedger DEF contents
<1>2. CASE UNCHANGED ledgerVars BY <1>1, <1>2 DEF ledgerVars, contents
<1>3. ASSUME NEW p \in Processes, NEW inv \in Capabilities, IssueInvitation(p, inv) PROVE LedgerInv'
    BY <1>3, IssueInvitationStep
<1>4. ASSUME NEW p \in Processes, NEW inv \in Capabilities, AuditRejection(p, inv) PROVE LedgerInv'
    BY <1>4, AuditRejectionStep
<1>5. ASSUME NEW p \in Processes, NEW i \in rows, RevokeRow(p, i) PROVE LedgerInv'
    BY <1>5, RevokeRowStep
<1>6. ASSUME NEW p \in Processes, NEW i \in rows, Rule(p, i) PROVE LedgerInv'
    BY <1>6, RuleStep
<1>7. ASSUME NEW p \in Processes, NEW i \in rows, NEW inv \in Capabilities, Reissue(p, i, inv)
      PROVE LedgerInv'
    BY <1>7, ReissueStep
<1>8. ASSUME NEW p \in Processes,
             OpenDatabase(p) \/ Migrate(p) \/ Bootstrapped(p) \/ OpenExisting(p) \/ Disconnect(p)
      PROVE UNCHANGED contents
    BY <1>8 DEF OpenDatabase, Migrate, Bootstrapped, OpenExisting, Disconnect
<1> QED BY <1>1, <1>2, <1>3, <1>4, <1>5, <1>6, <1>7, <1>8, StatementsAreHarmless DEF LedgerNext

LEMMA LedgerStarts == LedgerInit => LedgerInv
<1> SUFFICES ASSUME LedgerInit PROVE LedgerInv OBVIOUS
<1>1. rows = {} /\ revoked = {} /\ ruled = EmptyDict /\ audit = <<>> BY DEF LedgerInit
<1>2. LedgerTypeOK BY <1>1, FS_EmptySet DEF LedgerTypeOK
<1>3. Events = {} BY <1>1 DEF Events
<1>4. Reissued = {} BY <1>1 DEF Reissued
<1>5. OnePrintPerVersion /\ RowsAgree /\ EventsAgree /\ RevokedOnce /\ CreatedOnce
    BY <1>1, <1>3 DEF OnePrintPerVersion, RowsAgree, EventsAgree, RevokedOnce, CreatedOnce
<1>6. ReissuesMatch BY <1>1, <1>4 DEF ReissuesMatch
<1>7. DecisionsStand BY <1>1 DEF DecisionsStand, EmptyDict
<1> QED BY <1>2, <1>5, <1>6, <1>7 DEF LedgerInv

\* The checks of writer and reader accept the ledger.
LEMMA InvariantIsValid == LedgerInv => OwnLedgerIsValid
<1> SUFFICES ASSUME LedgerInv PROVE OwnLedgerIsValid OBVIOUS
<1>1. WriteStateIsValid BY ValidIsInvariant DEF LedgerInv, WriteStateIsValid
<1>2. ASSUME NEW i \in rows PROVE Resolve(i.token, i.issued) # "CORRUPT"
    <2>1. PICK owners : owners = {j \in rows : j.token = i.token} OBVIOUS
    <2>2. owners = {i} BY <2>1 DEF LedgerInv, RowsAgree
    <2>3. Cardinality(owners) = 1 BY <2>2, FS_Singleton
    <2>4. \A j, k \in rows : j.version = k.version => j.print = k.print
        BY DEF LedgerInv, OnePrintPerVersion
    <2>5. DecisionIsSound(i.version)
        <3> SUFFICES ASSUME i.version \in DOMAIN ruled PROVE DecisionIsSound(i.version)
            BY DEF DecisionIsSound
        <3>1. PICK j \in rows :
                /\ j.issued < j.expires /\ RevocationOf(j.id) = {}
                /\ ruled[i.version] = [id |-> j.id, print |-> j.print, at |-> j.issued]
            BY DEF LedgerInv, DecisionsStand
        <3>2. j.issued \in Nat BY LedgerAssumption DEF LedgerInv, LedgerTypeOK
        <3> QED BY <3>1, <3>2 DEF DecisionIsSound
    <2>6. i.id # "CORRUPT" BY LedgerAssumption DEF LedgerInv, LedgerTypeOK
    <2>7. Missing # "CORRUPT" \/ owners # {} BY <2>2
    <2> QED BY <2>1, <2>2, <2>3, <2>4, <2>5, <2>6 DEF Resolve
<1> QED BY <1>1, <1>2 DEF OwnLedgerIsValid

LEMMA HistoryGrows ==
    ASSUME HistoryIsPrefix, Len(history) # Len(Plan),
           history' = Append(history, Plan[Len(history) + 1])
    PROVE  HistoryIsPrefix'
<1>1. PICK S : Plan \in Seq(S) BY LedgerAssumption
<1>2. PICK n : n = Len(history) OBVIOUS
<1>3. n \in Nat /\ n < Len(Plan) /\ history = SubSeq(Plan, 1, n) /\ Len(Plan) \in Nat
    BY <1>1, <1>2 DEF HistoryIsPrefix
<1>4. SubSeq(Plan, 1, n) \in Seq(S) /\ Plan[n + 1] \in S BY <1>1, <1>3
<1>5. Append(SubSeq(Plan, 1, n), Plan[n + 1]) = SubSeq(Plan, 1, n + 1) BY <1>1, <1>3, <1>4
<1>6. history' = SubSeq(Plan, 1, n + 1) /\ Len(history') = n + 1 BY <1>1, <1>2, <1>3, <1>5
<1> QED BY <1>3, <1>6 DEF HistoryIsPrefix

LEMMA MigrationKeeps == MigratedOnce /\ [LedgerNext]_ledgerVars => MigratedOnce'
<1> SUFFICES ASSUME MigratedOnce, [LedgerNext]_ledgerVars PROVE MigratedOnce' OBVIOUS
<1>1. CASE UNCHANGED <<history, schema>> BY <1>1 DEF MigratedOnce, HistoryIsPrefix
<1>2. ASSUME NEW p, Migrate(p) PROVE MigratedOnce'
    BY <1>1, <1>2, HistoryGrows DEF Migrate, MigratedOnce
<1>3. CASE UNCHANGED ledgerVars BY <1>1, <1>3 DEF ledgerVars
<1>4. ASSUME NEW p,
             \/ OpenDatabase(p) \/ Bootstrapped(p) \/ OpenExisting(p) \/ Disconnect(p)
             \/ \E inv \in Capabilities : IssueInvitation(p, inv) \/ AuditRejection(p, inv)
             \/ \E i \in rows : RevokeRow(p, i) \/ Rule(p, i)
             \/ \E i \in rows, inv \in Capabilities : Reissue(p, i, inv)
      PROVE UNCHANGED <<history, schema>>
    BY <1>4 DEF OpenDatabase, Bootstrapped, OpenExisting, Disconnect, IssueInvitation,
                AuditRejection, RevokeRow, Rule, Reissue
<1> QED BY <1>1, <1>2, <1>3, <1>4, StatementsAreHarmless DEF LedgerNext

LEMMA MigrationStarts == LedgerInit => MigratedOnce
<1> SUFFICES ASSUME LedgerInit PROVE MigratedOnce OBVIOUS
<1>1. PICK S : Plan \in Seq(S) BY LedgerAssumption
<1>2. SubSeq(Plan, 1, 0) = <<>> /\ Len(Plan) \in Nat BY <1>1
<1> QED BY <1>2 DEF LedgerInit, MigratedOnce, HistoryIsPrefix

\* The durable ledger is migrated once and passes its own validation after every
\* step of every process: it never calls itself corrupt.
THEOREM LedgerStaysValid == LedgerSpec => [](OwnLedgerIsValid /\ MigratedOnce)
BY LedgerStarts, LedgerKeeps, InvariantIsValid, MigrationStarts, MigrationKeeps, PTL DEF LedgerSpec

-----------------------------------------------------------------------------
(* The ledger issues as the reference does. *)

Stored == [id \in {i.id : i \in rows} |-> CHOOSE i \in rows : i.id = id]

LEMMA StoredFacts ==
    ASSUME LedgerInv
    PROVE  /\ DOMAIN Stored = {i.id : i \in rows}
           /\ \A i \in rows : Stored[i.id] = i
           /\ {Stored[k] : k \in DOMAIN Stored} = rows
<1>1. \A i, j \in rows : i.id = j.id => i = j BY DEF LedgerInv, RowsAgree
<1>2. PICK d : d = Stored OBVIOUS
<1>3. DOMAIN d = {i.id : i \in rows} /\ \A i \in rows : d[i.id] = i BY <1>1, <1>2 DEF Stored
<1>4. {d[k] : k \in DOMAIN d} = rows BY <1>3
<1> QED BY <1>2, <1>3, <1>4

LEMMA IssueIsIssue ==
    ASSUME LedgerInv, LedgerInv', NEW inv \in Capabilities, ~IssuanceRefused(inv),
           rows' = rows \cup {inv}
    PROVE  Store!StoreIssue(inv)
<1>1. PICK d : d = Stored OBVIOUS
<1>2. /\ DOMAIN d = {i.id : i \in rows} /\ \A i \in rows : d[i.id] = i
      /\ {d[k] : k \in DOMAIN d} = rows
    BY <1>1, StoredFacts
<1>3. /\ DOMAIN Stored' = {i.id : i \in rows'} /\ \A i \in rows' : Stored'[i.id] = i
    <2>1. \A i, j \in rows' : i.id = j.id => i = j BY DEF LedgerInv, RowsAgree
    <2> QED BY <2>1 DEF Stored
<1>4. \A i \in rows : i.id # inv.id /\ i.token # inv.token BY NewRow
<1>5. Stored' = Put(d, inv.id, inv) BY <1>2, <1>3, <1>4 DEF Put, Stored
<1>6. inv.id \notin DOMAIN d BY <1>2, <1>4
<1>7. \A i \in rows : i.version = inv.version => i.print = inv.print BY NewRow
<1>8. Store!Issued = rows
    <2>1. Store!Issued = {Stored[k] : k \in DOMAIN Stored} BY DEF Store!Issued, Stored
    <2> QED BY <1>1, <1>2, <2>1
<1>9. Store!ConsistentBinding(Store!Binding(inv))
    BY <1>7, <1>8 DEF Store!ConsistentBinding, Store!Binding
<1>10. Stored' = Store!Put(Stored, inv.id, inv) BY <1>1, <1>5 DEF Store!Put, Put
<1>11. inv.id \notin DOMAIN Stored /\ \A i \in Store!Issued : i.token # inv.token
    BY <1>1, <1>4, <1>6, <1>8
<1>12. UNCHANGED <<EmptyDict, EmptyDict>> BY DEF EmptyDict
<1> QED BY <1>9, <1>10, <1>11, <1>12 DEF Store!StoreIssue, Stored

LEMMA StoreStep ==
    LedgerInv /\ LedgerInv' /\ [LedgerNext]_ledgerVars => [Store!StoreNext]_(Store!storeVars)
<1> SUFFICES ASSUME LedgerInv, LedgerInv', [LedgerNext]_ledgerVars
             PROVE  [Store!StoreNext]_(Store!storeVars)
    OBVIOUS
<1>1. CASE UNCHANGED rows BY <1>1 DEF Store!storeVars
<1>2. ASSUME NEW inv \in Capabilities, ~IssuanceRefused(inv), rows' = rows \cup {inv}
      PROVE  Store!StoreNext
    BY <1>2, IssueIsIssue DEF Store!StoreNext
<1>3. CASE UNCHANGED ledgerVars BY <1>1, <1>3 DEF ledgerVars
<1>4. ASSUME NEW p,
             \/ OpenDatabase(p) \/ Migrate(p) \/ Bootstrapped(p) \/ OpenExisting(p) \/ Disconnect(p)
             \/ \E inv \in Capabilities : AuditRejection(p, inv)
             \/ \E i \in rows : RevokeRow(p, i) \/ Rule(p, i)
      PROVE UNCHANGED rows
    BY <1>4 DEF OpenDatabase, Migrate, Bootstrapped, OpenExisting, Disconnect, AuditRejection,
                RevokeRow, Rule, contents
<1>5. ASSUME NEW p, NEW inv \in Capabilities, IssueInvitation(p, inv) PROVE Store!StoreNext
    BY <1>2, <1>5 DEF IssueInvitation
<1>6. ASSUME NEW p, NEW i \in rows, NEW inv \in Capabilities, Reissue(p, i, inv) PROVE Store!StoreNext
    BY <1>2, <1>6 DEF Reissue
<1>7. ASSUME NEW p, NEW verb \in {"select", "update", "delete", "drop"},
             NEW table \in {"history", "domain"}, Statement(p, verb, table)
      PROVE UNCHANGED rows
    BY <1>7, StatementsAreHarmless DEF contents
<1> QED BY <1>1, <1>3, <1>4, <1>5, <1>6, <1>7 DEF LedgerNext

LEMMA StoreStart == LedgerInit => Store!StoreInit
<1> SUFFICES ASSUME LedgerInit PROVE Store!StoreInit OBVIOUS
<1>1. rows = {} BY DEF LedgerInit
<1>2. Stored = EmptyDict BY <1>1 DEF Stored, EmptyDict
<1> QED BY <1>2 DEF Store!StoreInit, Store!EmptyDict, EmptyDict, Stored

\* The ledger implements the reference store: what any of its processes issues,
\* decides or replays is a step of the store, and everything else is invisible.
THEOREM LedgerIsTheStore == LedgerSpec => LedgerImplementsStore
BY LedgerStarts, LedgerKeeps, StoreStart, StoreStep, PTL DEF LedgerSpec, LedgerImplementsStore, Store!StoreSpec

-----------------------------------------------------------------------------
(***************************************************************************)
(* ConfirmationStore.                                                      *)
(***************************************************************************)

InvitationsDiffer ==
    \A i, j \in DOMAIN invitations :
        /\ invitations[i].token = invitations[j].token => i = j
        /\ invitations[i].version = invitations[j].version =>
                invitations[i].print = invitations[j].print

\* A decision and the operation that made it point to each other.
VerdictsInvited ==
    \A v \in DOMAIN verdicts :
        LET d == verdicts[v] IN
        /\ d \in Commands /\ d.version = v
        /\ d.op \in DOMAIN operations /\ operations[d.op] = d
        /\ d.id \in DOMAIN invitations
        /\ invitations[d.id].version = d.version /\ invitations[d.id].print = d.print
        /\ d.at < invitations[d.id].expires

OperationsDecided ==
    \A o \in DOMAIN operations :
        /\ operations[o] \in Commands /\ operations[o].op = o
        /\ operations[o].version \in DOMAIN verdicts
        /\ verdicts[operations[o].version] = operations[o]

ReferenceInv == InvitationsDiffer /\ VerdictsInvited /\ OperationsDecided

LEMMA ReferenceIssues ==
    ASSUME ReferenceInv, NEW inv \in Capabilities, Reference!StoreIssue(inv) PROVE ReferenceInv'
<1>1. /\ inv.id \notin DOMAIN invitations
      /\ \A i \in DOMAIN invitations : /\ invitations[i].token # inv.token
                                       /\ invitations[i].version = inv.version =>
                                              invitations[i].print = inv.print
      /\ UNCHANGED <<verdicts, operations>>
    BY DEF Reference!StoreIssue, Reference!Issued, Reference!ConsistentBinding, Reference!Binding
<1>2. /\ DOMAIN invitations' = DOMAIN invitations \cup {inv.id}
      /\ invitations'[inv.id] = inv
      /\ \A i \in DOMAIN invitations : invitations'[i] = invitations[i]
    BY <1>1 DEF Reference!StoreIssue, Reference!Put
<1>3. InvitationsDiffer' BY <1>1, <1>2 DEF ReferenceInv, InvitationsDiffer
<1>4. VerdictsInvited' BY <1>1, <1>2 DEF ReferenceInv, VerdictsInvited
<1>5. OperationsDecided' BY <1>1 DEF ReferenceInv, OperationsDecided
<1> QED BY <1>3, <1>4, <1>5 DEF ReferenceInv

LEMMA ReferenceDecides ==
    ASSUME ReferenceInv, NEW c \in Commands, Reference!StoreDecide(c) PROVE ReferenceInv'
<1>1. /\ c.op \notin DOMAIN operations /\ c.version \notin DOMAIN verdicts
      /\ c.id \in DOMAIN invitations /\ c.at < invitations[c.id].expires
      /\ invitations[c.id].version = c.version /\ invitations[c.id].print = c.print
      /\ invitations' = invitations
    BY DEF Reference!StoreDecide, Reference!Binding
<1>2. /\ DOMAIN verdicts' = DOMAIN verdicts \cup {c.version}
      /\ verdicts'[c.version] = c
      /\ \A v \in DOMAIN verdicts : verdicts'[v] = verdicts[v]
    BY <1>1 DEF Reference!StoreDecide, Reference!Put
<1>3. /\ DOMAIN operations' = DOMAIN operations \cup {c.op}
      /\ operations'[c.op] = c
      /\ \A o \in DOMAIN operations : operations'[o] = operations[o]
    BY <1>1 DEF Reference!StoreDecide, Reference!Put
<1>4. InvitationsDiffer' BY <1>1 DEF ReferenceInv, InvitationsDiffer
<1>5. VerdictsInvited' BY <1>1, <1>2, <1>3 DEF ReferenceInv, VerdictsInvited
<1>6. OperationsDecided' BY <1>1, <1>2, <1>3 DEF ReferenceInv, OperationsDecided
<1> QED BY <1>4, <1>5, <1>6 DEF ReferenceInv

LEMMA ReferenceKeeps == ReferenceInv /\ [Reference!StoreNext]_(Reference!storeVars) => ReferenceInv'
<1> SUFFICES ASSUME ReferenceInv, [Reference!StoreNext]_(Reference!storeVars) PROVE ReferenceInv'
    OBVIOUS
<1>1. CASE UNCHANGED <<invitations, verdicts, operations>>
    BY <1>1 DEF ReferenceInv, InvitationsDiffer, VerdictsInvited, OperationsDecided
<1> QED BY <1>1, ReferenceIssues, ReferenceDecides DEF Reference!StoreNext, Reference!storeVars

LEMMA ReferenceStarts == Reference!StoreInit => ReferenceInv
<1> SUFFICES ASSUME Reference!StoreInit PROVE ReferenceInv OBVIOUS
<1>1. DOMAIN invitations = {} /\ DOMAIN verdicts = {} /\ DOMAIN operations = {}
    BY DEF Reference!StoreInit, Reference!EmptyDict
<1> QED BY <1>1
    DEF ReferenceInv, InvitationsDiffer, VerdictsInvited, OperationsDecided

\* Only the operation that made a decision returns it.
LEMMA ReplayedByItsOwn ==
    ASSUME ReferenceInv, NEW v \in DOMAIN verdicts, NEW c \in Commands,
           Reference!Replayed(c) = verdicts[v]
    PROVE  c.op = verdicts[v].op /\ c.answer = verdicts[v].answer
<1>1. PICK d : d = verdicts[v] OBVIOUS
<1>2. d \in Commands /\ d # Missing BY <1>1, CommandAssumption DEF ReferenceInv, VerdictsInvited
<1>3. /\ c.op \in DOMAIN operations /\ [operations[c.op] EXCEPT !.at = c.at] = c
      /\ verdicts[c.version] = d
    BY <1>1, <1>2 DEF Reference!Replayed
<1>4. PICK o : o = operations[c.op] OBVIOUS
<1>5. o \in Commands /\ o.op = c.op /\ verdicts[o.version] = o
    BY <1>3, <1>4 DEF ReferenceInv, OperationsDecided
<1>6. o = [op |-> o.op, key |-> o.key, id |-> o.id, token |-> o.token, version |-> o.version,
           print |-> o.print, answer |-> o.answer, at |-> o.at]
    BY <1>5, CommandAssumption
<1>7. [o EXCEPT !.at = c.at].version = o.version /\ [o EXCEPT !.at = c.at].answer = o.answer
    BY <1>6
<1>8. c.version = o.version /\ c.answer = o.answer BY <1>3, <1>4, <1>7
<1> QED BY <1>1, <1>3, <1>5, <1>8

LEMMA InvitedDecisions == ReferenceInv => Reference!DecisionsAreInvited
<1> SUFFICES ASSUME ReferenceInv PROVE Reference!DecisionsAreInvited OBVIOUS
<1>1. ASSUME NEW v \in DOMAIN verdicts, NEW k \in DOMAIN invitations, invitations[k].version = v
      PROVE  Reference!StoreResolve(invitations[k].token, 0) = "CONSUMED"
    <2>1. PICK i : i = invitations[k] OBVIOUS
    <2>2. PICK owners : owners = {j \in Reference!Issued : j.token = i.token} OBVIOUS
    <2>3. owners = {i} BY <2>1, <2>2 DEF Reference!Issued, ReferenceInv, InvitationsDiffer
    <2>4. verdicts[v].id \in DOMAIN invitations /\ verdicts[v].version = v
          /\ invitations[verdicts[v].id].version = verdicts[v].version
          /\ invitations[verdicts[v].id].print = verdicts[v].print
        BY DEF ReferenceInv, VerdictsInvited
    <2>5. i.version \in DOMAIN verdicts /\ verdicts[i.version].print = i.print
        BY <1>1, <2>1, <2>4 DEF ReferenceInv, InvitationsDiffer
    <2> QED BY <2>1, <2>2, <2>3, <2>5 DEF Reference!StoreResolve
<1>2. \A v \in DOMAIN verdicts : \A i \in Reference!Issued :
        i.version = v => Reference!StoreResolve(i.token, 0) = "CONSUMED"
    BY <1>1 DEF Reference!Issued
<1>3. \A v \in DOMAIN verdicts :
        /\ verdicts[v].id \in DOMAIN invitations
        /\ Reference!Binding(invitations[verdicts[v].id]) = Reference!Binding(verdicts[v])
        /\ verdicts[v].at < invitations[verdicts[v].id].expires
        /\ verdicts[v].op \in DOMAIN operations /\ operations[verdicts[v].op] = verdicts[v]
    BY DEF ReferenceInv, VerdictsInvited, Reference!Binding
<1>4. \A o \in DOMAIN operations : /\ operations[o].version \in DOMAIN verdicts
                                   /\ verdicts[operations[o].version] = operations[o]
    BY DEF ReferenceInv, OperationsDecided
<1> QED BY <1>2, <1>3, <1>4, ReplayedByItsOwn DEF Reference!DecisionsAreInvited

\* The ledger stays valid and migrated, and the decisions of the reference all
\* answer a live invitation.
THEOREM LedgerStaysFaithful == LedgerSpec /\ Reference!StoreSpec => []LedgerIsFaithful
<1>1. OwnLedgerIsValid /\ MigratedOnce /\ Reference!DecisionsAreInvited => LedgerIsFaithful
    BY DEF LedgerIsFaithful
<1> QED BY <1>1, LedgerStaysValid, ReferenceStarts, ReferenceKeeps, InvitedDecisions, PTL
    DEF Reference!StoreSpec

-----------------------------------------------------------------------------
(***************************************************************************)
(* DemoSession.                                                            *)
(***************************************************************************)

CandidateDrafts == [status : {"NEEDS_REVIEW", "APPROVED", "REJECTED"},
             rule : Rules \cup {Nothing}, question : BOOLEAN]

PackTypeOK ==
    /\ criteria \in [DraftIds -> CandidateDrafts]
    /\ seed \in 1 .. MaxVersion
    /\ parent \in 1 .. MaxVersion \cup {Nothing}

\* Whatever was decided was decided of the contract of the link.
DecidedOfTheLink ==
    /\ decided # Nothing => decided \in Rulings
    /\ decided # Nothing => invitation # Nothing
    /\ frozen # Nothing => decided # Nothing
    /\ \A k \in DOMAIN confirmations :
        confirmations[k] \in Rulings /\ confirmations[k].contract = invitation

PackInv == PackTypeOK /\ DecidedOfTheLink /\ ProofIsOfTheAgreement

LEMMA AssembledType == ASSUME PackTypeOK PROVE Assembled \in Contracts /\ Assembled # Nothing
<1>1. \A d \in DraftIds : criteria[d].rule \in Rules \cup {Nothing} BY DEF PackTypeOK, CandidateDrafts
<1>2. {<<d, criteria[d].rule>> : d \in ApprovedDrafts} \in Terms
    BY <1>1 DEF Terms, ApprovedDrafts
<1>3. Assembled \in Contracts BY <1>2 DEF Assembled, Contracts, PackTypeOK
<1> QED BY <1>3, DemoAssumption

\* What is kept, or would be, is the contract the criteria make.
LEMMA ApprovedIsAssembled ==
    ASSUME PackInv
    PROVE  /\ ApprovedContract # Nothing => /\ ApprovedContract = Assembled
                                            /\ Pending = {} /\ ApprovedDrafts # {}
           /\ Pending = {} /\ ApprovedDrafts # {} => ApprovedContract # Nothing
           /\ reviewed # Nothing => ApprovedContract = reviewed
BY AssembledType DEF PackInv, ProofIsOfTheAgreement, ApprovedContract

\* Nothing is left of an agreement once it is invalidated.
LEMMA InvalidatePacks == ASSUME Invalidate, PackTypeOK' PROVE PackInv'
<1>1. /\ reviewed' = Nothing /\ invitation' = Nothing /\ decided' = Nothing
      /\ frozen' = Nothing /\ lastRun' = Nothing /\ DOMAIN confirmations' = {}
    BY DEF Invalidate, EmptyDict
<1> QED BY <1>1 DEF PackInv, DecidedOfTheLink, ProofIsOfTheAgreement

\* The criteria stay as they are; what was kept of the contract stays or is kept now.
LEMMA SameCriteria ==
    ASSUME PackInv, UNCHANGED pack, reviewed' \in {reviewed, ApprovedContract},
           invitation' = invitation \/ invitation' = reviewed', decided' = decided \/ decided' \in Rulings \/ decided' = Nothing
    PROVE  /\ PackTypeOK' /\ Pending' = Pending /\ ApprovedDrafts' = ApprovedDrafts
           /\ reviewed' # Nothing => Pending' = {} /\ ApprovedDrafts' # {} /\ reviewed' = Assembled'
           /\ reviewed # Nothing => reviewed' = reviewed
<1>1. UNCHANGED <<criteria, seed, parent>> BY DEF pack
<1>2. PackTypeOK' BY <1>1 DEF PackInv, PackTypeOK
<1>3. Pending' = Pending /\ ApprovedDrafts' = ApprovedDrafts /\ Assembled' = Assembled
    BY <1>1 DEF Pending, ApprovedDrafts, Assembled
<1>4. reviewed # Nothing => Pending = {} /\ ApprovedDrafts # {} /\ reviewed = Assembled
    BY DEF PackInv, ProofIsOfTheAgreement
<1> QED BY <1>2, <1>3, <1>4, ApprovedIsAssembled

LEMMA SampleType == Sample \in [DraftIds -> CandidateDrafts] /\ Captured \in [DraftIds -> CandidateDrafts]
<1>1. (CHOOSE r \in Rules : TRUE) \in Rules BY DemoAssumption
<1> QED BY <1>1 DEF Sample, Captured, Draft, CandidateDrafts

\* A pack of other drafts, or of the same drafts under review.
LEMMA NewPackPacks ==
    ASSUME PackInv, NEW ds \in [DraftIds -> CandidateDrafts], NewPack(ds), seed' \in {seed, 1}
    PROVE  PackInv'
<1>1. PackTypeOK' BY DemoAssumption DEF PackInv, PackTypeOK, NewPack
<1> QED BY <1>1, InvalidatePacks DEF NewPack

LEMMA ReviewPacks ==
    ASSUME PackInv, NEW d \in DraftIds, NEW s \in {"APPROVED", "REJECTED"}, ReviewDraft(d, s)
    PROVE  PackInv'
<1>1. criteria' \in [DraftIds -> CandidateDrafts] BY DEF PackInv, PackTypeOK, ReviewDraft, CandidateDrafts
<1>2. PackTypeOK' BY <1>1 DEF PackInv, PackTypeOK, ReviewDraft
<1> QED BY <1>2, InvalidatePacks DEF ReviewDraft

LEMMA DefinePacks ==
    ASSUME PackInv, NEW d \in DraftIds, NEW r \in Rules, DefineRule(d, r)
    PROVE  PackInv'
<1>1. criteria' = [criteria EXCEPT ![d] = [criteria[d] EXCEPT !.rule = r, !.question = FALSE]]
    BY DEF PackInv, PackTypeOK, DefineRule, CandidateDrafts
<1>2. [criteria[d] EXCEPT !.rule = r, !.question = FALSE] \in CandidateDrafts
    BY DEF PackInv, PackTypeOK, CandidateDrafts
<1>3. criteria' \in [DraftIds -> CandidateDrafts] BY <1>1, <1>2 DEF PackInv, PackTypeOK
<1>4. PackTypeOK' BY <1>3 DEF PackInv, PackTypeOK, DefineRule
<1> QED BY <1>4, InvalidatePacks DEF DefineRule

LEMMA RevisionPacks == ASSUME PackInv, StartRevision PROVE PackInv'
<1> DEFINE reopened(d) == [criteria[d] EXCEPT !.status = "NEEDS_REVIEW", !.question = TRUE]
<1>1. /\ ApprovedContract # Nothing /\ Invalidate
      /\ seed < MaxVersion /\ seed' = seed + 1 /\ parent' = ApprovedContract.version
      /\ criteria' = [d \in DraftIds |-> IF d \in ApprovedDrafts THEN reopened(d) ELSE criteria[d]]
    BY Zenon DEF StartRevision
<1>2. \A d \in DraftIds : criteria[d] \in CandidateDrafts BY DEF PackInv, PackTypeOK
<1>3. \A d \in DraftIds : reopened(d) \in CandidateDrafts BY <1>2 DEF CandidateDrafts
<1> HIDE DEF reopened
<1>4. criteria' \in [DraftIds -> CandidateDrafts] BY <1>1, <1>2, <1>3
<1>5. ApprovedContract.version = seed BY <1>1, ApprovedIsAssembled DEF Assembled
<1>6. seed' \in 1 .. MaxVersion /\ parent' = seed
    BY <1>1, <1>5, DemoAssumption DEF PackInv, PackTypeOK
<1>7. PackTypeOK' BY <1>4, <1>6 DEF PackInv, PackTypeOK
<1> QED BY <1>1, <1>7, InvalidatePacks

LEMMA ReadPacks == ASSUME PackInv, ReadState PROVE PackInv'
<1>1. UNCHANGED <<pack, invitation, confirmations, decided, frozen, lastRun>> /\ reviewed' = ApprovedContract
    BY DEF ReadState
<1>2. /\ PackTypeOK' /\ (reviewed' # Nothing => Pending' = {} /\ ApprovedDrafts' # {} /\ reviewed' = Assembled')
      /\ (reviewed # Nothing => reviewed' = reviewed)
    BY <1>1, SameCriteria
<1>3. DecidedOfTheLink' BY <1>1 DEF PackInv, DecidedOfTheLink
<1>4. ProofIsOfTheAgreement' BY <1>1, <1>2 DEF PackInv, ProofIsOfTheAgreement
<1> QED BY <1>2, <1>3, <1>4 DEF PackInv

LEMMA LinkPacks == ASSUME PackInv, CreateCustomerDraft PROVE PackInv'
<1>1. /\ UNCHANGED pack /\ reviewed' = ApprovedContract /\ invitation' = ApprovedContract
      /\ ApprovedContract # Nothing
      /\ decided' = Nothing /\ frozen' = Nothing /\ lastRun' = Nothing /\ DOMAIN confirmations' = {}
    BY DEF CreateCustomerDraft, EmptyDict
<1>2. /\ PackTypeOK' /\ (reviewed' # Nothing => Pending' = {} /\ ApprovedDrafts' # {} /\ reviewed' = Assembled')
    BY <1>1, SameCriteria
<1> QED BY <1>1, <1>2 DEF PackInv, DecidedOfTheLink, ProofIsOfTheAgreement

LEMMA DecisionPacks ==
    ASSUME PackInv, NEW k \in DecisionKeys, NEW c \in {"CONFIRM", "REQUEST_CHANGES"}, RecordDecision(k, c)
    PROVE  PackInv'
<1> DEFINE record == [contract |-> ApprovedContract, decision |-> c]
<1>1. /\ UNCHANGED pack /\ reviewed' = ApprovedContract /\ invitation' = invitation
      /\ ApprovedContract # Nothing /\ invitation = ApprovedContract
      /\ decided' = record /\ frozen' = Nothing /\ lastRun' = Nothing
      /\ confirmations' = Put(confirmations, k, record)
    BY DEF RecordDecision, LinkHolds
<1>2. ApprovedContract \in Contracts BY <1>1, ApprovedIsAssembled, AssembledType DEF PackInv
<1>3. record \in Rulings /\ record # Nothing /\ record.contract = invitation
    BY <1>1, <1>2, DemoAssumption DEF Rulings
<1> HIDE DEF record
<1>4. /\ PackTypeOK' /\ (reviewed' # Nothing => Pending' = {} /\ ApprovedDrafts' # {} /\ reviewed' = Assembled')
    BY <1>1, <1>3, SameCriteria
<1>5. \A j \in DOMAIN confirmations' :
        confirmations'[j] \in Rulings /\ confirmations'[j].contract = invitation'
    BY <1>1, <1>3 DEF Put, PackInv, DecidedOfTheLink
<1>6. DecidedOfTheLink' BY <1>1, <1>3, <1>5 DEF DecidedOfTheLink
<1>7. ProofIsOfTheAgreement' BY <1>1, <1>3, <1>4 DEF ProofIsOfTheAgreement
<1> QED BY <1>4, <1>6, <1>7 DEF PackInv

LEMMA ReplayPacks == ASSUME PackInv, NEW k \in DecisionKeys, ReplayDecision(k) PROVE PackInv'
<1>1. /\ UNCHANGED <<pack, invitation, confirmations>> /\ reviewed' = ApprovedContract
      /\ ApprovedContract # Nothing /\ invitation = ApprovedContract
      /\ k \in DOMAIN confirmations /\ decided' = confirmations[k] /\ frozen' = Nothing /\ lastRun' = Nothing
    BY DEF ReplayDecision, LinkHolds
<1>2. decided' \in Rulings /\ decided'.contract = invitation
    BY <1>1 DEF PackInv, DecidedOfTheLink
<1>3. /\ PackTypeOK' /\ (reviewed' # Nothing => Pending' = {} /\ ApprovedDrafts' # {} /\ reviewed' = Assembled')
    BY <1>1, <1>2, SameCriteria
<1>4. DecidedOfTheLink' BY <1>1, <1>2 DEF PackInv, DecidedOfTheLink
<1>5. ProofIsOfTheAgreement' BY <1>1, <1>2, <1>3 DEF ProofIsOfTheAgreement
<1> QED BY <1>3, <1>4, <1>5 DEF PackInv

LEMMA FreezePacks == ASSUME PackInv, FreezeAgreement PROVE PackInv'
<1>1. /\ UNCHANGED <<pack, invitation, confirmations, decided>> /\ reviewed' = ApprovedContract
      /\ frozen' = ApprovedContract /\ lastRun' = Nothing /\ ApprovedContract # Nothing
      /\ decided = [contract |-> ApprovedContract, decision |-> "CONFIRM"] /\ decided # Nothing
    BY DEF FreezeAgreement
<1>2. /\ PackTypeOK' /\ (reviewed' # Nothing => Pending' = {} /\ ApprovedDrafts' # {} /\ reviewed' = Assembled')
      /\ (reviewed # Nothing => reviewed' = reviewed)
    BY <1>1, SameCriteria
<1>3. DecidedOfTheLink' BY <1>1 DEF PackInv, DecidedOfTheLink
<1>4. ProofIsOfTheAgreement' BY <1>1, <1>2 DEF PackInv, ProofIsOfTheAgreement
<1> QED BY <1>2, <1>3, <1>4 DEF PackInv

LEMMA ProvePacks == ASSUME PackInv, Prove PROVE PackInv'
<1>1. UNCHANGED <<pack, reviewed, invitation, confirmations, decided, frozen>> /\ lastRun' \in {lastRun, frozen, Nothing}
    BY DEF Prove
<1>2. /\ PackTypeOK' /\ (reviewed' # Nothing => Pending' = {} /\ ApprovedDrafts' # {} /\ reviewed' = Assembled')
    BY <1>1, SameCriteria
<1>3. DecidedOfTheLink' BY <1>1 DEF PackInv, DecidedOfTheLink
<1>4. ProofIsOfTheAgreement' BY <1>1, <1>2 DEF PackInv, ProofIsOfTheAgreement
<1> QED BY <1>2, <1>3, <1>4 DEF PackInv

\* What keeps the pack and the agreement, but for the contract it may keep.
LEMMA AssistPacks ==
    ASSUME PackInv, UNCHANGED <<pack, invitation, confirmations, decided, frozen, lastRun>>,
           reviewed' \in {reviewed, ApprovedContract}
    PROVE  PackInv'
<1>2. /\ PackTypeOK' /\ (reviewed' # Nothing => Pending' = {} /\ ApprovedDrafts' # {} /\ reviewed' = Assembled')
      /\ (reviewed # Nothing => reviewed' = reviewed)
    BY SameCriteria
<1>3. DecidedOfTheLink' BY DEF PackInv, DecidedOfTheLink
<1>4. ProofIsOfTheAgreement' BY <1>2 DEF PackInv, ProofIsOfTheAgreement
<1> QED BY <1>2, <1>3, <1>4 DEF PackInv

LEMMA PackStep == ASSUME PackInv, DemoNext PROVE PackInv'
<1>1. ASSUME NEW f \in Fixtures, ImportFixture(f) PROVE PackInv'
    BY <1>1, SampleType, NewPackPacks DEF ImportFixture
<1>2. CASE PasteNotes BY <1>2, SampleType, NewPackPacks DEF PasteNotes
<1>3. CASE PasteAssisted BY <1>3, SampleType, NewPackPacks DEF PasteAssisted
<1>4. CASE ResetToSample BY <1>4, SampleType, NewPackPacks DEF ResetToSample
<1>5. CASE AuthorizeAssist BY <1>5, AssistPacks DEF AuthorizeAssist, agreement
<1>6. ASSUME NEW k \in ExecKeys, ClaimExecution(k) PROVE PackInv'
    BY <1>6, AssistPacks DEF ClaimExecution
<1>7. CASE FinishExecution
  <2>1. \/ UNCHANGED <<pack, invitation, confirmations, decided, frozen, lastRun>> /\ reviewed' = ApprovedContract
        \/ NewPack(Sample) /\ seed' = seed
    BY <1>7 DEF FinishExecution, PublishResult
  <2> QED BY <2>1, AssistPacks, SampleType, NewPackPacks
<1> QED
    BY <1>1, <1>2, <1>3, <1>4, <1>5, <1>6, <1>7, ReviewPacks, DefinePacks, RevisionPacks, ReadPacks, LinkPacks,
       DecisionPacks, ReplayPacks, FreezePacks, ProvePacks DEF DemoNext

LEMMA PackBegins == ASSUME DemoInit PROVE PackInv
<1>1. PackTypeOK BY SampleType, DemoAssumption DEF DemoInit, PackTypeOK
<1>2. DOMAIN confirmations = {} BY DEF DemoInit, EmptyDict
<1> QED BY <1>1, <1>2 DEF DemoInit, PackInv, DecidedOfTheLink, ProofIsOfTheAgreement

-----------------------------------------------------------------------------
(* The provider assist. *)

Executions == [ack : 1 .. auths, status : {"running", "failed", "success"}, reserved : BOOLEAN]
ReservedExecutions == {k \in DOMAIN execs : execs[k].reserved}

AssistTypeOK ==
    /\ auths \in Nat
    /\ IsFiniteSet(DOMAIN execs) /\ execs \in [DOMAIN execs -> Executions]
    /\ auth # Nothing => auth \in 1 .. auths

\* An acknowledgement is used up by the execution that reserves on it, and the
\* one call that is out is the one that runs.
AssistInv ==
    /\ AssistTypeOK
    /\ \A k \in ReservedExecutions : auth # Nothing => execs[k].ack # auth
    /\ \A k, l \in ReservedExecutions : execs[k].ack = execs[l].ack => k = l
    /\ \A k, l \in DOMAIN execs : Running(k) /\ Running(l) => k = l
    /\ Cardinality(ReservedExecutions) = spend /\ spend <= SpendLimit
    /\ flight # Nothing => flight.key \in DOMAIN execs /\ flight.guard[1] = flight.epoch

LEMMA AssistBegins == ASSUME DemoInit PROVE AssistInv
<1>1. DOMAIN execs = {} /\ execs \in [DOMAIN execs -> Executions] BY DEF DemoInit, EmptyDict
<1>2. ReservedExecutions = {} BY <1>1 DEF ReservedExecutions
<1>3. IsFiniteSet({}) /\ Cardinality({}) = 0 BY FS_EmptySet
<1> QED BY <1>1, <1>2, <1>3, DemoAssumption DEF DemoInit, AssistInv, AssistTypeOK

\* A step that leaves the executions alone may only take the authorization away.
LEMMA AssistStays ==
    ASSUME AssistInv, UNCHANGED assist, auth' \in {auth, Nothing}
    PROVE  AssistInv'
<1>1. UNCHANGED <<auths, execs, flight, spend>> BY DEF assist
<1>2. ReservedExecutions' = ReservedExecutions BY <1>1 DEF ReservedExecutions
<1>3. \A k \in DOMAIN execs : Running(k)' <=> Running(k) BY <1>1 DEF Running
<1>4. AssistTypeOK' BY <1>1 DEF AssistInv, AssistTypeOK, Executions
<1> QED BY <1>1, <1>2, <1>3, <1>4 DEF AssistInv

LEMMA AuthorizeAssists == ASSUME AssistInv, AuthorizeAssist PROVE AssistInv'
<1>1. UNCHANGED <<execs, flight, spend>> /\ auths' = auths + 1 /\ auth' = auths + 1
    BY DEF AuthorizeAssist
<1>2. ReservedExecutions' = ReservedExecutions BY <1>1 DEF ReservedExecutions
<1>3. \A k \in DOMAIN execs : Running(k)' <=> Running(k) BY <1>1 DEF Running
<1>4. \A k \in DOMAIN execs : execs[k] \in Executions BY DEF AssistInv, AssistTypeOK
<1>5. \A k \in DOMAIN execs : execs[k].ack \in 1 .. auths BY <1>4 DEF Executions
<1>6. \A x \in Executions : x \in Executions' BY <1>1 DEF AssistInv, AssistTypeOK, Executions
<1>7. AssistTypeOK' BY <1>1, <1>4, <1>6 DEF AssistInv, AssistTypeOK
<1>8. \A k \in ReservedExecutions : execs[k].ack # auths + 1 BY <1>5 DEF ReservedExecutions, AssistInv, AssistTypeOK
<1> QED BY <1>1, <1>2, <1>3, <1>7, <1>8 DEF AssistInv

LEMMA ClaimAssists == ASSUME AssistInv, NEW key \in ExecKeys, ClaimExecution(key) PROVE AssistInv'
<1>1. /\ key \notin DOMAIN execs /\ (\A k \in DOMAIN execs : ~Running(k))
      /\ auth # Nothing /\ auth \in 1 .. auths /\ auths' = auths
    BY DEF ClaimExecution, AssistInv, AssistTypeOK
<1>2. IsFiniteSet(DOMAIN execs \cup {key}) BY FS_AddElement DEF AssistInv, AssistTypeOK
<1>3. IsFiniteSet(ReservedExecutions) BY FS_Subset DEF ReservedExecutions, AssistInv, AssistTypeOK
<1>4. \A k \in DOMAIN execs : execs[k] \in Executions BY DEF AssistInv, AssistTypeOK
<1>5. CASE execs' = Put(execs, key, [ack |-> auth, status |-> "failed", reserved |-> FALSE])
           /\ UNCHANGED <<auth, flight, spend>>
  <2> DEFINE x == [ack |-> auth, status |-> "failed", reserved |-> FALSE]
  <2>1. x \in Executions /\ ~x.reserved /\ x.status # "running" BY <1>1 DEF Executions
  <2> HIDE DEF x
  <2>2. /\ DOMAIN execs' = DOMAIN execs \cup {key} /\ execs' \in [DOMAIN execs' -> Executions]
        /\ execs'[key] = x /\ \A k \in DOMAIN execs : execs'[k] = execs[k]
    <3>1. execs' = Put(execs, key, x) BY <1>5 DEF x
    <3> QED BY <1>1, <1>4, <2>1, <3>1 DEF Put
  <2>3. ReservedExecutions' = ReservedExecutions BY <1>1, <2>1, <2>2 DEF ReservedExecutions
  <2>4. \A k \in DOMAIN execs' : ~Running(k)' BY <1>1, <2>1, <2>2 DEF Running
  <2>5. AssistTypeOK' BY <1>1, <1>2, <1>5, <2>2 DEF AssistInv, AssistTypeOK, Executions
  <2>6. \A k \in ReservedExecutions : execs'[k].ack = execs[k].ack BY <2>2 DEF ReservedExecutions
  <2>7. /\ \A k \in ReservedExecutions : auth # Nothing => execs[k].ack # auth
        /\ \A k, l \in ReservedExecutions : execs[k].ack = execs[l].ack => k = l
      BY DEF AssistInv
  <2>10. /\ \A k \in ReservedExecutions : auth' # Nothing => execs'[k].ack # auth'
         /\ \A k, l \in ReservedExecutions : execs'[k].ack = execs'[l].ack => k = l
    <3> HIDE DEF ReservedExecutions
    <3>1. auth' = auth BY <1>5
    <3> QED BY <2>6, <2>7, <3>1
  <2>8. Cardinality(ReservedExecutions)' = spend' /\ spend' <= SpendLimit BY <1>5, <2>3 DEF AssistInv
  <2>9. flight' # Nothing => flight'.key \in DOMAIN execs' /\ flight'.guard[1] = flight'.epoch
      BY <1>5, <2>2 DEF AssistInv
  <2> QED BY <2>3, <2>4, <2>5, <2>10, <2>8, <2>9 DEF AssistInv
<1>6. CASE /\ spend < SpendLimit /\ spend' = spend + 1 /\ auth' = Nothing
           /\ execs' = Put(execs, key, [ack |-> auth, status |-> "running", reserved |-> TRUE])
           /\ flight' = [key |-> key, guard |-> PublicationGuard, epoch |-> epoch]
  <2> DEFINE x == [ack |-> auth, status |-> "running", reserved |-> TRUE]
  <2>1. x \in Executions /\ x.reserved /\ x.ack = auth BY <1>1 DEF Executions
  <2> HIDE DEF x
  <2>2. /\ DOMAIN execs' = DOMAIN execs \cup {key} /\ execs' \in [DOMAIN execs' -> Executions]
        /\ execs'[key] = x /\ \A k \in DOMAIN execs : execs'[k] = execs[k]
    <3>1. execs' = Put(execs, key, x) BY <1>6 DEF x
    <3> QED BY <1>1, <1>4, <2>1, <3>1 DEF Put
  <2>3. ReservedExecutions' = ReservedExecutions \cup {key} /\ key \notin ReservedExecutions BY <1>1, <2>1, <2>2 DEF ReservedExecutions
  <2>4. \A k \in DOMAIN execs' : Running(k)' => k = key BY <1>1, <2>2 DEF Running
  <2>5. AssistTypeOK' BY <1>1, <1>2, <1>6, <2>2 DEF AssistInv, AssistTypeOK, Executions
  <2>6. \A k \in ReservedExecutions : execs'[k].ack = execs[k].ack BY <2>2 DEF ReservedExecutions
  <2>7. \A k, l \in ReservedExecutions' : execs'[k].ack = execs'[l].ack => k = l
      BY <1>1, <2>1, <2>2, <2>3, <2>6 DEF AssistInv
  <2>8. Cardinality(ReservedExecutions') = Cardinality(ReservedExecutions) + 1 BY <1>3, <2>3, FS_AddElement
  <2>9. Cardinality(ReservedExecutions) \in Nat BY <1>3, FS_CardinalityType
  <2>10. Cardinality(ReservedExecutions)' = spend' /\ spend' <= SpendLimit
      BY <1>6, <2>8, <2>9, DemoAssumption DEF AssistInv
  <2>11. flight'.key \in DOMAIN execs' /\ flight'.guard[1] = flight'.epoch
      BY <1>6, <2>2 DEF PublicationGuard
  <2> QED BY <1>6, <2>4, <2>5, <2>7, <2>10, <2>11 DEF AssistInv
<1> QED BY <1>5, <1>6 DEF ClaimExecution

LEMMA FinishAssists == ASSUME AssistInv, FinishExecution PROVE AssistInv'
<1>1. /\ flight # Nothing /\ flight' = Nothing /\ flight.key \in DOMAIN execs
      /\ UNCHANGED <<auths, spend>> /\ auth' \in {auth, Nothing}
    BY DEF FinishExecution, PublishResult, NewPack, Invalidate, ClearAuthorization, AssistInv
<1>2. PICK s \in {"failed", "success"} : execs' = [execs EXCEPT ![flight.key].status = s]
    BY DEF FinishExecution
<1>3. \A k \in DOMAIN execs : execs[k] \in Executions BY DEF AssistInv, AssistTypeOK
<1>4. /\ DOMAIN execs' = DOMAIN execs
      /\ \A k \in DOMAIN execs : /\ execs'[k] \in Executions
                                 /\ execs'[k].ack = execs[k].ack /\ execs'[k].reserved = execs[k].reserved
                                 /\ (execs'[k].status = "running" => execs[k].status = "running")
    BY <1>1, <1>2, <1>3 DEF Executions
<1>5. execs' \in [DOMAIN execs' -> Executions'] BY <1>1, <1>2, <1>4 DEF Executions
<1>6. ReservedExecutions' = ReservedExecutions BY <1>4 DEF ReservedExecutions
<1>7. \A k, l \in DOMAIN execs' : Running(k)' /\ Running(l)' => k = l
    BY <1>4 DEF Running, AssistInv
<1>8. AssistTypeOK' BY <1>1, <1>4, <1>5 DEF AssistInv, AssistTypeOK
<1>9. \A k \in ReservedExecutions : execs'[k].ack = execs[k].ack BY <1>4 DEF ReservedExecutions
<1> QED BY <1>1, <1>6, <1>7, <1>8, <1>9 DEF AssistInv

\* Nobody else touches the executions.
LEMMA OthersLeaveAssist ==
    ASSUME DemoNext
    PROVE  \/ AuthorizeAssist \/ (\E k \in ExecKeys : ClaimExecution(k)) \/ FinishExecution
           \/ UNCHANGED assist /\ auth' \in {auth, Nothing}
<1>1. \A ds : NewPack(ds) => auth' = Nothing BY DEF NewPack, Invalidate, ClearAuthorization
<1>2. CASE \/ \E f \in Fixtures : ImportFixture(f)
           \/ PasteNotes \/ PasteAssisted \/ ResetToSample
    BY <1>1, <1>2 DEF ImportFixture, PasteNotes, PasteAssisted, ResetToSample
<1>3. CASE \/ \E d \in DraftIds, s \in {"APPROVED", "REJECTED"} : ReviewDraft(d, s)
           \/ \E d \in DraftIds, r \in Rules : DefineRule(d, r)
    BY <1>3 DEF ReviewDraft, DefineRule, Invalidate, ClearAuthorization
<1>4. CASE StartRevision BY <1>4, Zenon DEF StartRevision, Invalidate, ClearAuthorization
<1>5. CASE ReadState BY <1>5 DEF ReadState
<1>6. CASE CreateCustomerDraft BY <1>6 DEF CreateCustomerDraft, ClearAuthorization
<1>7. CASE \/ \E k \in DecisionKeys, c \in {"CONFIRM", "REQUEST_CHANGES"} : RecordDecision(k, c)
           \/ \E k \in DecisionKeys : ReplayDecision(k)
    BY <1>7 DEF RecordDecision, ReplayDecision, ClearAuthorization
<1>8. CASE FreezeAgreement BY <1>8 DEF FreezeAgreement, ClearAuthorization
<1>9. CASE Prove BY <1>9 DEF Prove, ClearAuthorization
<1> QED BY <1>2, <1>3, <1>4, <1>5, <1>6, <1>7, <1>8, <1>9 DEF DemoNext

LEMMA AssistStep == ASSUME AssistInv, DemoNext PROVE AssistInv'
BY OthersLeaveAssist, AssistStays, AuthorizeAssists, ClaimAssists, FinishAssists

\* At most one execution runs, in the words of the property.
LEMMA AssistHolds == ASSUME AssistInv PROVE OneCallPerAcknowledgement
<1> DEFINE running == {k \in DOMAIN execs : Running(k)}
<1>1. IsFiniteSet(running) BY FS_Subset DEF AssistInv, AssistTypeOK
<1>2. Cardinality(running) <= 1
  <2>1. CASE running = {} BY <2>1, FS_EmptySet
  <2>2. CASE running # {}
    <3>1. PICK k : k \in running BY <2>2
    <3>2. running = {k} BY <3>1 DEF AssistInv
    <3> HIDE DEF running
    <3>3. Cardinality({k}) = 1 BY FS_Singleton
    <3> QED BY <3>2, <3>3
  <2> QED BY <2>1, <2>2
<1> QED BY <1>2 DEF AssistInv, OneCallPerAcknowledgement, ReservedExecutions

-----------------------------------------------------------------------------
(* The dashboard row of the demo. *)

\* The facts of a session contradict each other nowhere, unless it revises.
LEMMA NothingBlocks ==
    ASSUME PackInv, parent = Nothing
    PROVE  ~Blocked("ACTIVE", SessionFacts)
<1>1. IsFiniteSet(ApprovedDrafts) /\ IsFiniteSet(Pending)
    BY FS_Subset, DemoAssumption DEF ApprovedDrafts, Pending
<1>2. /\ ApprovedDrafts # {} => Cardinality(ApprovedDrafts) # 0
      /\ Pending = {} => Cardinality(Pending) = 0
    BY <1>1, FS_EmptySet
<1>11. /\ lastRun # Nothing => frozen # Nothing
       /\ frozen # Nothing => decided # Nothing /\ decided = [contract |-> frozen, decision |-> "CONFIRM"]
       /\ decided # Nothing => invitation # Nothing /\ decided.contract = invitation /\ decided \in Rulings
       /\ invitation # Nothing => reviewed # Nothing /\ invitation = reviewed
       /\ reviewed # Nothing => Pending = {}
    BY DEF PackInv, DecidedOfTheLink, ProofIsOfTheAgreement
<1>12. /\ reviewed # Nothing => ApprovedContract = reviewed
       /\ ApprovedContract # Nothing => ApprovedDrafts # {}
    BY ApprovedIsAssembled
<1>3. /\ lastRun # Nothing => frozen # Nothing
      /\ frozen # Nothing => decided # Nothing /\ decided.contract = frozen /\ decided.decision = "CONFIRM"
      /\ decided # Nothing => /\ invitation # Nothing /\ decided.contract = invitation
                              /\ decided.decision \in {"CONFIRM", "REQUEST_CHANGES"}
      /\ invitation # Nothing => reviewed # Nothing /\ invitation = reviewed
      /\ reviewed # Nothing => Pending = {} /\ ApprovedContract = reviewed
      /\ ApprovedContract # Nothing => ApprovedDrafts # {}
    BY <1>11, <1>12 DEF Rulings
<1> DEFINE contract == IF frozen # Nothing THEN frozen ELSE ApprovedContract
<1>4. PICK f : f = SessionFacts OBVIOUS
<1>5. /\ f.available = TRUE /\ f.sources = 1 /\ f.types = 1
      /\ f.pending = Cardinality(Pending) /\ f.approved = Cardinality(ApprovedDrafts)
      /\ f.named = (IF contract = Nothing THEN 0 ELSE 2)
      /\ f.status = (IF frozen # Nothing THEN "FROZEN" ELSE IF contract = Nothing THEN "none" ELSE "APPROVED")
      /\ f.issued = (invitation # Nothing)
      /\ f.decision = (IF decided = Nothing THEN "none" ELSE decided.decision)
      /\ f.matches = (IF decided = Nothing THEN "none"
                      ELSE IF contract # Nothing /\ decided.contract = contract THEN "TRUE" ELSE "FALSE")
      /\ f.revision = (parent # Nothing)
      /\ f.run = (IF lastRun = Nothing THEN "none" ELSE "COMPLETED")
      /\ f.verdict = (IF lastRun = Nothing THEN "none" ELSE "PASS")
      /\ f.reason = (lastRun # Nothing)
      /\ f.pack = (IF lastRun = Nothing THEN "none" ELSE "inside")
    BY <1>4 DEF SessionFacts
<1>8. /\ contract # Nothing => f.named = 2 /\ f.status # "none" /\ f.approved # 0
      /\ contract = Nothing => f.named = 0 /\ f.status = "none"
      /\ decided # Nothing \/ invitation # Nothing => contract # Nothing
      /\ f.status # "SUPERSEDED"
    BY <1>2, <1>3, <1>5
<1>9. /\ decided # Nothing => /\ f.decision = decided.decision /\ f.decision # "none"
                              /\ f.matches = "TRUE" /\ f.issued
      /\ decided = Nothing => f.decision = "none" /\ f.matches = "none"
      /\ f.issued => invitation # Nothing
    BY <1>3, <1>5
<1>10. /\ f.status = "FROZEN" => f.decision = "CONFIRM" /\ ~f.revision /\ f.pending = 0
       /\ f.run # "none" => f.status = "FROZEN"
    BY <1>2, <1>3, <1>5, <1>9
<1>6. ~AgreementBlockers(f)
  <2> HIDE DEF contract
  <2> QED BY <1>5, <1>8, <1>9, <1>10 DEF AgreementBlockers
<1>7. ~ProofBlockers(f) BY <1>5 DEF ProofBlockers, RunsEnded
<1> QED BY <1>4, <1>5, <1>6, <1>7 DEF Blocked

\* The action the row shows is one the session takes.
LEMMA ActionHolds == ASSUME PackInv PROVE ActionIsPossible
<1> SUFFICES ASSUME parent = Nothing PROVE Accepts(SessionAction) BY DEF ActionIsPossible
<1>1. PICK f : f = SessionFacts OBVIOUS
<1>2. SessionAction = DeriveAction("ACTIVE", f)
    BY <1>1, NothingBlocks DEF SessionAction, ProjectPoc
<1>3. /\ Pending # {} => Cardinality(Pending) > 0
      /\ Pending = {} => Cardinality(Pending) = 0
  <2>1. IsFiniteSet(Pending) BY FS_Subset, DemoAssumption DEF Pending
  <2> QED BY <2>1, FS_EmptySet, FS_CardinalityType
<1>4. /\ frozen # Nothing => decided # Nothing /\ decided = [contract |-> frozen, decision |-> "CONFIRM"]
      /\ decided # Nothing => invitation # Nothing /\ decided.contract = invitation /\ decided \in Rulings
      /\ invitation # Nothing => reviewed # Nothing /\ invitation = reviewed
      /\ lastRun # Nothing => lastRun = frozen
    BY DEF PackInv, DecidedOfTheLink, ProofIsOfTheAgreement
<1>5. /\ reviewed # Nothing => ApprovedContract = reviewed
      /\ Pending = {} /\ ApprovedContract = Nothing => ApprovedDrafts = {}
    BY ApprovedIsAssembled
<1>6. /\ f.sources = 1 /\ f.pending = Cardinality(Pending) /\ f.kept = 0 /\ f.defined = 0
      /\ f.revision = FALSE
      /\ f.verdict = (IF lastRun = Nothing THEN "none" ELSE "PASS")
      /\ f.run = (IF lastRun = Nothing THEN "none" ELSE "COMPLETED")
      /\ f.issued = (invitation # Nothing)
      /\ f.decision = (IF decided = Nothing THEN "none" ELSE decided.decision)
    BY <1>1 DEF SessionFacts
<1>7. /\ frozen # Nothing => f.status = "FROZEN"
      /\ frozen = Nothing /\ ApprovedContract # Nothing => f.status = "APPROVED"
      /\ frozen = Nothing /\ ApprovedContract = Nothing => f.status = "none"
    BY <1>1 DEF SessionFacts
<1>8. CASE lastRun # Nothing
  <2>1. SessionAction = "RECORD_DECISION_HANDOFF" BY <1>2, <1>6, <1>8 DEF DeriveAction
  <2> QED BY <1>8, <2>1 DEF Accepts
<1>9. CASE lastRun = Nothing /\ frozen # Nothing
  <2>1. SessionAction = "RUN_POC"
      BY <1>2, <1>6, <1>7, <1>9 DEF DeriveAction, ProofAction, RunsInProgress
  <2> QED BY <1>9, <2>1 DEF Accepts
<1>10. CASE lastRun = Nothing /\ frozen = Nothing /\ ApprovedContract = Nothing
  <2>1. decided = Nothing /\ f.decision = "none" /\ f.status = "none" BY <1>4, <1>5, <1>6, <1>7, <1>10
  <2>2. SessionAction = DefineAction(f) BY <1>2, <1>6, <1>10, <2>1 DEF DeriveAction
  <2>3. CASE Pending # {}
    <3>1. SessionAction = "REVIEW_PROPOSALS" BY <1>3, <1>6, <2>2, <2>3 DEF DefineAction
    <3> QED BY <2>3, <3>1 DEF Accepts
  <2>4. CASE Pending = {}
    <3>1. SessionAction = "PREPARE_AGREEMENT" BY <1>3, <1>6, <2>2, <2>4 DEF DefineAction
    <3> QED BY <1>5, <1>10, <2>4, <3>1 DEF Accepts
  <2> QED BY <2>3, <2>4
<1>11. CASE lastRun = Nothing /\ frozen = Nothing /\ ApprovedContract # Nothing
  <2>1. f.status = "APPROVED" BY <1>7, <1>11
  <2>2. CASE decided = Nothing
    <3>1. f.decision = "none" BY <1>6, <2>2
    <3>2. SessionAction = AgreementAction(f) BY <1>2, <1>6, <1>11, <2>1, <3>1 DEF DeriveAction
    <3>3. CASE invitation = Nothing
      <4>1. SessionAction = "CREATE_CUSTOMER_REVIEW" BY <1>6, <3>1, <3>2, <3>3 DEF AgreementAction
      <4> QED BY <1>11, <3>3, <4>1 DEF Accepts
    <3>4. CASE invitation # Nothing
      <4>1. SessionAction = "WAIT_FOR_CUSTOMER" BY <1>6, <3>1, <3>2, <3>4 DEF AgreementAction
      <4>2. LinkHolds BY <1>4, <1>5, <1>11, <3>4 DEF LinkHolds
      <4> QED BY <2>2, <4>1, <4>2 DEF Accepts
    <3> QED BY <3>3, <3>4
  <2>3. CASE decided # Nothing
    <3>1. PICK c \in Contracts, d \in {"CONFIRM", "REQUEST_CHANGES"} : decided = [contract |-> c, decision |-> d]
        BY <1>4, <2>3 DEF Rulings
    <3>2. decided.contract = ApprovedContract /\ f.decision = d BY <1>4, <1>5, <1>6, <2>3, <3>1
    <3>3. CASE d = "CONFIRM"
      <4>1. SessionAction = "FREEZE_CONFIRMED_CONTRACT"
          BY <1>2, <1>6, <1>11, <2>1, <3>2, <3>3 DEF DeriveAction, AgreementAction
      <4>2. decided = [contract |-> ApprovedContract, decision |-> "CONFIRM"] BY <3>1, <3>2, <3>3
      <4> QED BY <1>11, <2>3, <4>1, <4>2 DEF Accepts
    <3>4. CASE d = "REQUEST_CHANGES"
      <4>1. SessionAction = "START_REVISION"
          BY <1>2, <1>6, <1>11, <2>1, <3>2, <3>4 DEF DeriveAction
      <4> QED BY <2>3, <3>1, <3>4, <4>1 DEF Accepts
    <3> QED BY <3>3, <3>4
  <2> QED BY <2>2, <2>3
<1> QED BY <1>8, <1>9, <1>10, <1>11

-----------------------------------------------------------------------------
LEMMA SessionStutters ==
    ASSUME PackInv, AssistInv, UNCHANGED demoVars PROVE PackInv' /\ AssistInv'
<1>1. UNCHANGED <<criteria, seed, parent, reviewed, invitation, confirmations, decided, frozen, lastRun>>
    BY DEF demoVars, pack, agreement
<1>2. PackInv'
  <2>1. PackTypeOK' BY <1>1 DEF PackInv, PackTypeOK
  <2>2. DecidedOfTheLink' BY <1>1 DEF PackInv, DecidedOfTheLink
  <2>3. Pending' = Pending /\ ApprovedDrafts' = ApprovedDrafts /\ Assembled' = Assembled
      BY <1>1 DEF Pending, ApprovedDrafts, Assembled
  <2>4. ProofIsOfTheAgreement' BY <1>1, <2>3 DEF PackInv, ProofIsOfTheAgreement
  <2> QED BY <2>1, <2>2, <2>4 DEF PackInv
<1>3. AssistInv' BY AssistStays DEF demoVars
<1> QED BY <1>2, <1>3

\* What the demonstration proves is the agreement it shows, each acknowledgement
\* pays for one provider call, and the action the dashboard offers is one the
\* session takes.
THEOREM DemoStaysTrue == DemoSpec => []DemoIsTrue
<1>1. DemoInit => PackInv /\ AssistInv BY PackBegins, AssistBegins
<1>2. PackInv /\ AssistInv /\ [DemoNext]_demoVars => (PackInv /\ AssistInv)'
    BY PackStep, AssistStep, SessionStutters
<1>3. PackInv /\ AssistInv => DemoIsTrue
    BY AssistHolds, ActionHolds DEF DemoIsTrue, PackInv
<1> QED BY <1>1, <1>2, <1>3, PTL DEF DemoSpec

\* A result of the provider is published only on the workflow its call was
\* claimed on: whatever happened meanwhile, even if undone, keeps it out.
THEOREM LateResultsAreDropped == DemoSpec => PublishedOnTheSameWorkflow
<1>1. AssistInv /\ [DemoNext]_demoVars =>
        [flight # Nothing /\ flight' = Nothing /\ criteria' # criteria => epoch = flight.epoch]_demoVars
  <2> SUFFICES ASSUME AssistInv, DemoNext, flight # Nothing, flight' = Nothing, criteria' # criteria
               PROVE  epoch = flight.epoch
      BY DEF demoVars, pack
  <2>1. flight.guard[1] = flight.epoch BY DEF AssistInv
  <2>2. CASE AuthorizeAssist BY <2>2 DEF AuthorizeAssist, pack
  <2>3. CASE \E k \in ExecKeys : ClaimExecution(k) BY <2>3 DEF ClaimExecution, pack
  <2>4. CASE FinishExecution
    <3>1. flight.guard = PublicationGuard BY <2>4 DEF FinishExecution, pack
    <3> QED BY <2>1, <3>1 DEF PublicationGuard
  <2>5. CASE UNCHANGED assist BY <2>5 DEF assist
  <2> QED BY OthersLeaveAssist, <2>2, <2>3, <2>4, <2>5
<1>2. DemoInit => AssistInv BY AssistBegins
<1>3. AssistInv /\ [DemoNext]_demoVars => AssistInv'
  <2>1. ASSUME AssistInv, UNCHANGED demoVars PROVE AssistInv' BY <2>1, AssistStays DEF demoVars
  <2> QED BY <2>1, AssistStep
<1> QED BY <1>1, <1>2, <1>3, PTL DEF DemoSpec, PublishedOnTheSameWorkflow

-----------------------------------------------------------------------------
(***************************************************************************)
(* SourceAuthoring.                                                        *)
(***************************************************************************)

\* The states in which a consent still waits for its owner.
Waiting == {"PREPARED", "AUTHORIZED"}

Operations == [session : Sessions, source : SourceIds,
               state : Waiting \cup {"CLAIMED", "DISPATCH_AUTHORIZED"} \cup Terminal,
               expires : Nat, deadline : Nat \cup {None}]

\* The steps of a run before and after its request may have left.
Before == {"claimed", "ready"}
After == {"dispatched", "credential", "collect", "commit", "copied"}

\* A live operation whose request may have left is never called revoked again.
Sendable == {"DISPATCH_AUTHORIZED"} \cup (Terminal \ {"REVOKED"})

OpsTypeOK == \E n \in 0 .. MaxOps : ops \in [1 .. n -> Operations]

AuthoringTypeOK ==
    /\ OpsTypeOK
    /\ realm \in {"SYNTHETIC", "LIVE", "DEMO"}
    /\ now \in Nat
    /\ active \in Ops \cup {None}
    /\ run \in {"idle", "cleanup"} \cup Before \cup After
    /\ child \in [Ops -> {"none", "waiting", "fenced", "sent", "replied", "exited"}]
    /\ wire \in [Ops -> SUBSET {"ticket", "credential"}]
    /\ sent \subseteq Ops
    /\ disk \in [consumed : Ops \cup {None}, dispatched : BOOLEAN]

\* The operation of the slot is the only one that is claimed.
SlotInv ==
    /\ active # None => active \in DOMAIN ops
    /\ run # "idle" => active # None
    /\ \A o \in DOMAIN ops :
        /\ ops[o].state = "CLAIMED" => active = o /\ run \in Before
        /\ ops[o].state = "DISPATCH_AUTHORIZED" => active = o /\ run \in After
    /\ Live /\ run \in After => ops[active].state \in Sendable

\* What a commit has copied lets the operation succeed, once for its source.
CopyInv == run = "copied" =>
    /\ copy[active].state = "DISPATCH_AUTHORIZED"
    /\ ops[active].source \notin DOMAIN attempts

\* The processes are the one of the slot, and a request leaves on its wire.
ChildInv ==
    /\ \A o \in Ops : child[o] # "none" \/ wire[o] # {} => active = o
    /\ Live => \A o \in Ops : wire[o] # {} \/ o \in sent =>
        o \in DOMAIN ops /\ ops[o].state \in Sendable
    /\ realm = "DEMO" =>
        /\ active # None => disk.consumed = active
        /\ \A o \in sent : disk.consumed = o

\* Attempts are published by the operations that succeeded, one for each.
Succeeded(o) == ops[o].state = "SUCCEEDED"
SuccessInv ==
    /\ \A o \in DOMAIN ops : Succeeded(o) => ops[o].source \in DOMAIN attempts
    /\ \A s \in DOMAIN attempts : \E o \in DOMAIN ops : Succeeded(o) /\ ops[o].source = s
    /\ \A o, q \in DOMAIN ops : Succeeded(o) /\ Succeeded(q) /\ ops[o].source = ops[q].source => o = q

AuthoringInv == AuthoringTypeOK /\ SlotInv /\ CopyInv /\ ChildInv /\ SuccessInv

\* The first end of an operation is its last.
Final == \A o \in DOMAIN ops : ops[o].state \in Terminal /\ o \in DOMAIN ops' => ops'[o].state = ops[o].state

\* What may become of an operation outside its run: it may be acknowledged, and
\* end, but a live one whose request may have left is not called revoked.
Settles(o) ==
    \/ ops'[o] = ops[o]
    \/ ops[o].state = "PREPARED" /\ ops'[o] = [ops[o] EXCEPT !.state = "AUTHORIZED"]
    \/ /\ ops[o].state \notin Terminal
       /\ \E x \in Terminal \ {"SUCCEEDED"} :
            /\ Live /\ ops[o].state = "DISPATCH_AUTHORIZED" => x # "REVOKED"
            /\ ops'[o] = [ops[o] EXCEPT !.state = x]

\* The operations are settled; new ones are prepared.
OpsSettle ==
    /\ OpsTypeOK'
    /\ DOMAIN ops \subseteq DOMAIN ops'
    /\ \A o \in DOMAIN ops : Settles(o)
    /\ \A o \in DOMAIN ops' \ DOMAIN ops : ops'[o].state = "PREPARED"

LEMMA OpsKnown ==
    ASSUME OpsTypeOK
    PROVE  /\ DOMAIN ops \subseteq Ops /\ IsFiniteSet(DOMAIN ops)
           /\ ops \in [DOMAIN ops -> Operations]
           /\ \A o \in DOMAIN ops : o # None /\ ops[o] \in Operations
           /\ \E n \in 0 .. MaxOps : DOMAIN ops = 1 .. n
<1>1. PICK n \in 0 .. MaxOps : ops \in [1 .. n -> Operations] BY DEF OpsTypeOK
<1>2. MaxOps \in Nat /\ None \notin Nat BY AuthoringAssumption
<1>3. DOMAIN ops = 1 .. n BY <1>1
<1>4. IsFiniteSet(1 .. n) BY FS_Interval
<1> QED BY <1>1, <1>2, <1>3, <1>4 DEF Ops

\* Of a settled operation, what matters to the others.
LEMMA SettledFacts ==
    ASSUME OpsTypeOK, OpsSettle, UNCHANGED realm
    PROVE  /\ Final
           /\ \A o \in DOMAIN ops :
                /\ ops'[o].source = ops[o].source
                /\ Succeeded(o)' <=> Succeeded(o)
                /\ ops'[o].state \in {"CLAIMED", "DISPATCH_AUTHORIZED"} => ops'[o].state = ops[o].state
                /\ Live /\ ops[o].state \in Sendable => ops'[o].state \in Sendable
           /\ \A o \in DOMAIN ops' \ DOMAIN ops : ops'[o].state = "PREPARED"
<1>1. \A o \in DOMAIN ops : ops[o] \in Operations /\ Settles(o) BY OpsKnown DEF OpsSettle
<1>2. ASSUME NEW o \in DOMAIN ops
      PROVE  /\ ops'[o].source = ops[o].source
             /\ ops[o].state \in Terminal => ops'[o].state = ops[o].state
             /\ ops'[o].state \in {"CLAIMED", "DISPATCH_AUTHORIZED"} => ops'[o].state = ops[o].state
             /\ (ops'[o].state = "SUCCEEDED") <=> (ops[o].state = "SUCCEEDED")
             /\ Live /\ ops[o].state \in Sendable => ops'[o].state \in Sendable
    BY <1>1, <1>2 DEF Settles, Terminal, Sendable, Operations
<1> QED BY <1>2 DEF Final, Succeeded, OpsSettle

\* Operations settle while the run goes on, or fails with its operation.
LEMMA SettlingKeeps ==
    ASSUME AuthoringInv, OpsSettle, UNCHANGED <<realm, active, attempts, wire, sent>>,
           AuthoringTypeOK', disk'.consumed = disk.consumed,
           UNCHANGED <<run, copy>> \/ (run # "idle" /\ run' = "cleanup" /\ ops'[active].state \in Terminal),
           \A o \in Ops : child'[o] # "none" => child[o] # "none" \/ o = active
    PROVE  AuthoringInv' /\ Final
<1>1. OpsTypeOK /\ (\A o \in DOMAIN ops : o \in Ops /\ o # None) BY OpsKnown DEF AuthoringInv, AuthoringTypeOK
<1>2. /\ Final
      /\ \A o \in DOMAIN ops :
            /\ ops'[o].source = ops[o].source
            /\ Succeeded(o)' <=> Succeeded(o)
            /\ ops'[o].state \in {"CLAIMED", "DISPATCH_AUTHORIZED"} => ops'[o].state = ops[o].state
            /\ Live /\ ops[o].state \in Sendable => ops'[o].state \in Sendable
      /\ \A o \in DOMAIN ops' \ DOMAIN ops : ops'[o].state = "PREPARED"
    BY <1>1, SettledFacts
<1>3. DOMAIN ops \subseteq DOMAIN ops' BY DEF OpsSettle
<1>4. SlotInv'
  <2>1. \A o \in DOMAIN ops' : ops'[o].state \in {"CLAIMED", "DISPATCH_AUTHORIZED"} =>
            o \in DOMAIN ops /\ ops'[o].state = ops[o].state
      BY <1>2
  <2>2. /\ active # None => active \in DOMAIN ops
        /\ run # "idle" => active # None
        /\ \A o \in DOMAIN ops : /\ ops[o].state = "CLAIMED" => active = o /\ run \in Before
                                 /\ ops[o].state = "DISPATCH_AUTHORIZED" => active = o /\ run \in After
        /\ Live /\ run \in After => ops[active].state \in Sendable
      BY DEF AuthoringInv, SlotInv
  <2>3. \A o \in DOMAIN ops' : /\ ops'[o].state = "CLAIMED" => active = o /\ run' \in Before
                               /\ ops'[o].state = "DISPATCH_AUTHORIZED" => active = o /\ run' \in After
      BY <2>1, <2>2 DEF Terminal
  <2>4. Live /\ run' \in After => ops'[active].state \in Sendable
    <3>1. SUFFICES ASSUME Live, run' \in After PROVE ops'[active].state \in Sendable OBVIOUS
    <3>2. run' = run /\ run # "idle" BY <3>1 DEF After
    <3> QED BY <1>2, <2>2, <3>1, <3>2
  <2>5. (run' # "idle" => active # None) /\ (active # None => active \in DOMAIN ops') BY <1>3, <2>2
  <2> QED BY <2>3, <2>4, <2>5 DEF SlotInv, Live
<1>5. CopyInv' BY <1>2 DEF AuthoringInv, CopyInv, SlotInv
<1>6. ChildInv' BY <1>2, <1>3 DEF AuthoringInv, ChildInv, Live
<1>7. SuccessInv'
  <2>1. \A o \in DOMAIN ops' : Succeeded(o)' => o \in DOMAIN ops /\ Succeeded(o) /\ ops'[o].source = ops[o].source
      BY <1>2 DEF Succeeded
  <2> QED BY <1>2, <1>3, <2>1 DEF AuthoringInv, SuccessInv
<1> QED BY <1>2, <1>4, <1>5, <1>6, <1>7 DEF AuthoringInv

\* An operation that is ended has ended, and no other is touched.
LEMMA EndSettles ==
    ASSUME OpsTypeOK, NEW o \in DOMAIN ops, NEW x \in Terminal \ {"SUCCEEDED"}, ops' = End(o, x)
    PROVE  OpsSettle /\ ops'[o].state \in Terminal
<1>1. PICK n \in 0 .. MaxOps : ops \in [1 .. n -> Operations] BY DEF OpsTypeOK
<1>2. ops[o] \in Operations BY <1>1
<1>3. CASE ops[o].state \in Terminal
    BY <1>1, <1>3 DEF End, OpsSettle, OpsTypeOK, Settles
<1>4. CASE ops[o].state \notin Terminal
  <2> DEFINE y == IF Live /\ x = "REVOKED" /\ ops[o].state = "DISPATCH_AUTHORIZED"
                  THEN "OUTCOME_UNKNOWN" ELSE x
  <2>9. y \in Terminal \ {"SUCCEEDED"} /\ (Live /\ ops[o].state = "DISPATCH_AUTHORIZED" => y # "REVOKED")
      BY DEF Terminal
  <2>1. ops' = [ops EXCEPT ![o].state = y] BY <1>4 DEF End
  <2> HIDE DEF y
  <2>2. ops' = [ops EXCEPT ![o] = [ops[o] EXCEPT !.state = y]] BY <1>1, <2>1
  <2>3. [ops[o] EXCEPT !.state = y] \in Operations BY <1>2, <2>9 DEF Operations
  <2>4. ops' \in [1 .. n -> Operations] BY <1>1, <2>2, <2>3
  <2>5. OpsTypeOK' BY <2>4 DEF OpsTypeOK
  <2>6. ops'[o] = [ops[o] EXCEPT !.state = y] /\ \A q \in DOMAIN ops : q # o => ops'[q] = ops[q]
      BY <1>1, <2>2
  <2>7. \A q \in DOMAIN ops : Settles(q) BY <1>4, <2>6, <2>9 DEF Settles
  <2>8. ops'[o].state = y BY <1>2, <2>6 DEF Operations
  <2> QED BY <1>1, <2>4, <2>5, <2>7, <2>8, <2>9 DEF OpsSettle
<1> QED BY <1>3, <1>4

LEMMA Unsettled == ASSUME OpsTypeOK, UNCHANGED ops PROVE OpsSettle
BY DEF OpsSettle, OpsTypeOK, Settles

LEMMA TypesStay ==
    ASSUME AuthoringTypeOK, OpsTypeOK', UNCHANGED <<realm, now, active, wire, sent, disk>>,
           run' \in {run, "cleanup"}, child' \in [Ops -> {"none", "waiting", "fenced", "sent", "replied", "exited"}]
    PROVE  AuthoringTypeOK'
BY DEF AuthoringTypeOK, Ops

LEMMA PrepareSettles ==
    ASSUME AuthoringInv, NEW session \in Sessions, NEW s \in SourceIds, Prepare(session, s)
    PROVE  AuthoringInv' /\ Final
<1> DEFINE expired(o) == [ops[o] EXCEPT !.state = "EXPIRED"]
           kept == [o \in DOMAIN ops |-> IF o \in Open(s, session) THEN expired(o) ELSE ops[o]]
           new == [session |-> session, source |-> s, state |-> "PREPARED",
                   expires |-> now + Consent, deadline |-> None]
<1>1. PICK n \in 0 .. MaxOps : ops \in [1 .. n -> Operations]
    BY DEF AuthoringInv, AuthoringTypeOK, OpsTypeOK
<1>2. /\ ops' = Append(kept, new) /\ Len(ops) < MaxOps /\ EngineFree
      /\ \A o \in Open(s, session) : now >= ops[o].expires
    BY Zenon DEF Prepare
<1>3. new \in Operations BY AuthoringAssumption DEF Operations, Waiting, AuthoringInv, AuthoringTypeOK
<1>4. \A o \in DOMAIN ops : ops[o] \in Operations BY <1>1
<1>5. \A o \in DOMAIN ops : expired(o) \in Operations /\ expired(o).state = "EXPIRED"
    BY <1>4 DEF Operations, Terminal
<1>6. \A o \in Open(s, session) : o \in DOMAIN ops /\ ops[o].state \notin Terminal BY DEF Open
<1>7. kept \in [1 .. n -> Operations]
  <2> HIDE DEF expired
  <2> QED BY <1>1, <1>4, <1>5
<1>8. Len(ops) = n
  <2>1. ops \in Seq(Operations) BY <1>1, SeqDef
  <2> QED BY <1>1, <2>1, LenProperties
<1>9. \A o \in DOMAIN ops : kept[o] = ops[o] \/ (o \in Open(s, session) /\ kept[o] = expired(o)) OBVIOUS
<1>10. new.state = "PREPARED" OBVIOUS
<1>11. DOMAIN ops = 1 .. n BY <1>1
<1> HIDE DEF kept, new
<1>12. /\ ops' \in [1 .. n + 1 -> Operations]
       /\ \A o \in 1 .. n : ops'[o] = kept[o]
       /\ ops'[n + 1] = new
  <2>1. kept \in Seq(Operations) BY <1>7, SeqDef
  <2>2. Len(kept) = n BY <1>7, <2>1, LenProperties
  <2>3. Append(kept, new) \in Seq(Operations) /\ Len(Append(kept, new)) = n + 1
      BY <1>3, <2>1, <2>2, AppendProperties
  <2>4. Append(kept, new) \in [1 .. n + 1 -> Operations] BY <2>3, LenProperties
  <2>5. (\A o \in 1 .. n : Append(kept, new)[o] = kept[o]) /\ Append(kept, new)[n + 1] = new
      BY <1>3, <2>1, <2>2, AppendProperties
  <2> QED BY <1>2, <2>4, <2>5
<1>13. n + 1 \in 0 .. MaxOps BY <1>2, <1>8, AuthoringAssumption
<1>14. OpsSettle
  <2>1. OpsTypeOK' BY <1>12, <1>13 DEF OpsTypeOK
  <2>2. ASSUME NEW o \in DOMAIN ops PROVE Settles(o)
    <3>1. CASE kept[o] = ops[o] BY <1>11, <1>12, <3>1 DEF Settles
    <3>2. CASE o \in Open(s, session) /\ kept[o] = expired(o)
      <4>1. ops'[o] = [ops[o] EXCEPT !.state = "EXPIRED"] /\ ops[o].state \notin Terminal
          BY <1>6, <1>11, <1>12, <3>2
      <4> QED BY <4>1 DEF Settles, Terminal
    <3> QED BY <1>9, <3>1, <3>2
  <2>3. \A o \in DOMAIN ops' \ DOMAIN ops : ops'[o].state = "PREPARED" BY <1>10, <1>11, <1>12
  <2> QED BY <1>11, <1>12, <2>1, <2>2, <2>3 DEF OpsSettle
<1>15. UNCHANGED <<attempts, realm, now, active, run, copy, child, wire, sent, disk>>
    BY Zenon DEF Prepare, reviewVars, assisted, process
<1>16. AuthoringTypeOK' BY <1>14, <1>15, TypesStay DEF AuthoringInv, AuthoringTypeOK, OpsSettle
<1> QED BY <1>14, <1>15, <1>16, SettlingKeeps

\* An operation ends while no run is concerned, or while its run goes on.
LEMMA EndKeeps ==
    ASSUME AuthoringInv, NEW o \in DOMAIN ops, NEW x \in Terminal \ {"SUCCEEDED"}, ops' = End(o, x),
           UNCHANGED <<attempts, realm, now, active, run, copy, child, wire, sent, disk>>
    PROVE  AuthoringInv' /\ Final
<1>1. OpsSettle BY EndSettles DEF AuthoringInv, AuthoringTypeOK
<1>2. AuthoringTypeOK' BY <1>1, TypesStay DEF AuthoringInv, AuthoringTypeOK, OpsSettle
<1> QED BY <1>1, <1>2, SettlingKeeps

LEMMA AuthorizeKeeps == ASSUME AuthoringInv, NEW o \in Ops, Authorize(o) PROVE AuthoringInv' /\ Final
<1>1. /\ UNCHANGED <<attempts, realm, now, active, run, copy, child, wire, sent, disk>>
      /\ o \in DOMAIN ops /\ ops[o].state = "PREPARED"
      /\ ops' = End(o, "EXPIRED") \/ ops' = [ops EXCEPT ![o].state = "AUTHORIZED"]
    BY DEF Authorize, reviewVars, assisted, process, Is, Known
<1>2. CASE ops' = End(o, "EXPIRED") BY <1>1, <1>2, EndKeeps DEF Terminal
<1>3. CASE ops' = [ops EXCEPT ![o].state = "AUTHORIZED"]
  <2>1. PICK n \in 0 .. MaxOps : ops \in [1 .. n -> Operations] BY DEF AuthoringInv, AuthoringTypeOK, OpsTypeOK
  <2>2. ops' = [ops EXCEPT ![o] = [ops[o] EXCEPT !.state = "AUTHORIZED"]] BY <1>1, <1>3, <2>1
  <2>3. [ops[o] EXCEPT !.state = "AUTHORIZED"] \in Operations BY <1>1, <2>1 DEF Operations, Waiting
  <2>4. ops' \in [1 .. n -> Operations] BY <2>1, <2>2, <2>3
  <2>5. \A q \in DOMAIN ops : Settles(q) BY <1>1, <2>1, <2>2 DEF Settles
  <2>6. OpsSettle BY <2>1, <2>4, <2>5 DEF OpsSettle, OpsTypeOK
  <2>7. AuthoringTypeOK' BY <1>1, <2>6, TypesStay DEF AuthoringInv, AuthoringTypeOK, OpsSettle
  <2> QED BY <1>1, <2>6, <2>7, SettlingKeeps
<1> QED BY <1>1, <1>2, <1>3

LEMMA InspectKeeps == ASSUME AuthoringInv, NEW o \in Ops, Inspect(o) PROVE AuthoringInv' /\ Final
<1>1. UNCHANGED <<attempts, realm, now, active, run, copy, child, wire, sent, disk>> /\ o \in DOMAIN ops
    BY DEF Inspect, reviewVars, assisted, Known
<1>2. PICK x \in {"STALE", "EXPIRED", "OUTCOME_UNKNOWN"} : ops' = End(o, x)
    BY DEF Inspect
<1> QED BY <1>1, <1>2, EndKeeps DEF Terminal

LEMMA RevokeKeeps == ASSUME AuthoringInv, NEW o \in Ops, Revoke(o) PROVE AuthoringInv' /\ Final
<1>1. /\ UNCHANGED <<attempts, realm, now, active, run, copy, child, wire, sent, disk>>
      /\ o \in DOMAIN ops /\ ops' = End(o, "REVOKED")
    BY DEF Revoke, reviewVars, assisted, Known
<1> QED BY <1>1, EndKeeps DEF Terminal

LEMMA ShutdownKeeps == ASSUME AuthoringInv, Shutdown PROVE AuthoringInv' /\ Final
<1>1. /\ UNCHANGED <<attempts, realm, now, active, run, copy, child, wire, sent, disk>>
      /\ ops' = [o \in DOMAIN ops |-> End(o, "REVOKED")[o]]
    BY Zenon DEF Shutdown, reviewVars, assisted
<1>2. PICK n \in 0 .. MaxOps : ops \in [1 .. n -> Operations]
    BY DEF AuthoringInv, AuthoringTypeOK, OpsTypeOK
<1>3. ASSUME NEW o \in DOMAIN ops
      PROVE  ops'[o] \in Operations /\ Settles(o)
  <2>1. ops'[o] = End(o, "REVOKED")[o] BY <1>1
  <2>2. ops[o] \in Operations BY <1>2
  <2>3. CASE ops[o].state \in Terminal BY <2>1, <2>2, <2>3 DEF End, Settles
  <2>4. CASE ops[o].state \notin Terminal
    <3> DEFINE y == IF Live /\ "REVOKED" = "REVOKED" /\ ops[o].state = "DISPATCH_AUTHORIZED"
                    THEN "OUTCOME_UNKNOWN" ELSE "REVOKED"
    <3>1. y \in Terminal \ {"SUCCEEDED"} /\ (Live /\ ops[o].state = "DISPATCH_AUTHORIZED" => y # "REVOKED")
        BY DEF Terminal
    <3>2. ops'[o] = [ops EXCEPT ![o].state = y][o] BY <2>1, <2>4 DEF End
    <3> HIDE DEF y
    <3>3. ops'[o] = [ops[o] EXCEPT !.state = y] BY <1>2, <3>2
    <3>4. [ops[o] EXCEPT !.state = y] \in Operations BY <2>2, <3>1 DEF Operations
    <3> QED BY <2>4, <3>1, <3>3, <3>4 DEF Settles
  <2> QED BY <2>3, <2>4
<1>4. DOMAIN ops' = DOMAIN ops BY <1>1
<1>5. ops' \in [1 .. n -> Operations] BY <1>1, <1>2, <1>3, <1>4
<1>6. OpsSettle BY <1>2, <1>3, <1>4, <1>5 DEF OpsSettle, OpsTypeOK
<1>7. AuthoringTypeOK' BY <1>1, <1>6, TypesStay DEF AuthoringInv, AuthoringTypeOK, OpsSettle
<1> QED BY <1>1, <1>6, <1>7, SettlingKeeps

\* Steps that leave the operations alone.
LEMMA QuietKeeps ==
    ASSUME AuthoringInv, UNCHANGED <<ops, attempts, realm, active, run, copy, wire, sent>>,
           now' \in Nat, disk'.consumed = disk.consumed, disk' \in [consumed : Ops \cup {None}, dispatched : BOOLEAN],
           child' \in [Ops -> {"none", "waiting", "fenced", "sent", "replied", "exited"}],
           \A o \in Ops : child'[o] # "none" => child[o] # "none"
    PROVE  AuthoringInv' /\ Final
<1>1. OpsSettle BY Unsettled DEF AuthoringInv, AuthoringTypeOK
<1>2. AuthoringTypeOK' BY <1>1 DEF AuthoringInv, AuthoringTypeOK, OpsSettle
<1> QED BY <1>1, <1>2, SettlingKeeps

LEMMA OutsideKeeps ==
    ASSUME AuthoringInv, OwnerNext \/ RevokeLaunch \/ Cancel \/ Tick
    PROVE  AuthoringInv' /\ Final
<1>1. UNCHANGED <<ops, attempts, realm, active, run, copy, child, wire, sent, disk>> /\ now' \in {now, now + 1}
    BY DEF OwnerNext, RevokeLaunch, Cancel, Tick, reviewVars, assisted, engine, process
<1>2. /\ now' \in Nat /\ disk \in [consumed : Ops \cup {None}, dispatched : BOOLEAN]
      /\ child \in [Ops -> {"none", "waiting", "fenced", "sent", "replied", "exited"}]
    BY <1>1 DEF AuthoringInv, AuthoringTypeOK
<1> QED BY <1>1, <1>2, QuietKeeps

LEMMA ProcessKeeps ==
    ASSUME AuthoringInv, NEW o \in Ops, Watch(o) \/ ChildFence(o) \/ ChildExit(o)
    PROVE  AuthoringInv' /\ Final
<1>1. /\ child \in [Ops -> {"none", "waiting", "fenced", "sent", "replied", "exited"}]
      /\ disk \in [consumed : Ops \cup {None}, dispatched : BOOLEAN] /\ now \in Nat
    BY DEF AuthoringInv, AuthoringTypeOK
<1>2. UNCHANGED <<ops, attempts, realm, now, active, run, copy, wire, sent>>
    BY DEF Watch, ChildFence, ChildExit, reviewVars, assisted, engine
<1>3. child[o] # "none" /\ \E c \in {"fenced", "replied", "exited"} : child' \in {child, [child EXCEPT ![o] = c]}
    BY DEF Watch, ChildFence, ChildExit, Alive
<1>4. /\ child' \in [Ops -> {"none", "waiting", "fenced", "sent", "replied", "exited"}]
      /\ \A q \in Ops : child'[q] # "none" => child[q] # "none"
    BY <1>1, <1>3
<1>5. disk' \in {disk, [disk EXCEPT !.dispatched = TRUE]} BY DEF Watch, ChildFence, ChildExit
<1>6. disk'.consumed = disk.consumed /\ disk' \in [consumed : Ops \cup {None}, dispatched : BOOLEAN]
    BY <1>1, <1>5
<1> QED BY <1>1, <1>2, <1>4, <1>6, QuietKeeps

LEMMA SendKeeps == ASSUME AuthoringInv, NEW o \in Ops, ChildSend(o) PROVE AuthoringInv' /\ Final
<1>1. /\ UNCHANGED <<ops, attempts, realm, now, active, run, copy, wire, disk>>
      /\ child[o] # "none" /\ child' = [child EXCEPT ![o] = "sent"] /\ sent' = sent \cup {o}
      /\ Live => wire[o] # {}
    BY DEF ChildSend, reviewVars, assisted, engine
<1>2. AuthoringTypeOK'
  <2>1. OpsTypeOK' BY <1>1 DEF AuthoringInv, AuthoringTypeOK, OpsTypeOK
  <2> QED BY <1>1, <2>1 DEF AuthoringInv, AuthoringTypeOK, Ops
<1>3. SlotInv' /\ CopyInv' /\ SuccessInv' /\ Final
    BY <1>1 DEF AuthoringInv, SlotInv, CopyInv, SuccessInv, Succeeded, Final, Live
<1>4. ChildInv'
  <2>1. \A q \in Ops : child'[q] # "none" => child[q] # "none" BY <1>1 DEF AuthoringInv, AuthoringTypeOK
  <2>2. o # None /\ active = o BY <1>1, AuthoringAssumption DEF AuthoringInv, ChildInv, Ops
  <2> QED BY <1>1, <2>1, <2>2 DEF AuthoringInv, ChildInv, Live
<1> QED BY <1>2, <1>3, <1>4 DEF AuthoringInv

LEMMA FailureEnds == ASSUME NEW o, NEW error PROVE FailureState(o, error) \in Terminal \ {"SUCCEEDED"}
BY DEF FailureState, Terminal

\* A run that fails ends its operation.
LEMMA FailKeeps ==
    ASSUME AuthoringInv, NEW o \in Ops, NEW error, active = o, run # "idle", Fail(o, error),
           UNCHANGED <<attempts, realm, now, active, wire, sent, disk>>,
           child' \in {child, [child EXCEPT ![o] = "waiting"]}
    PROVE  AuthoringInv' /\ Final
<1>1. o \in DOMAIN ops /\ OpsTypeOK
    BY AuthoringAssumption DEF AuthoringInv, AuthoringTypeOK, SlotInv, Ops
<1>2. ops' = End(o, FailureState(o, error)) /\ run' = "cleanup" BY DEF Fail
<1>3. OpsSettle /\ ops'[o].state \in Terminal BY <1>1, <1>2, FailureEnds, EndSettles
<1>4. /\ child' \in [Ops -> {"none", "waiting", "fenced", "sent", "replied", "exited"}]
      /\ \A q \in Ops : child'[q] # "none" => child[q] # "none" \/ q = active
    BY DEF AuthoringInv, AuthoringTypeOK
<1>5. AuthoringTypeOK' BY <1>2, <1>3, <1>4, TypesStay DEF AuthoringInv, OpsSettle
<1> QED BY <1>2, <1>3, <1>4, <1>5, SettlingKeeps

\* A run goes on without touching its operation.
LEMMA RunKeeps ==
    ASSUME AuthoringInv, NEW o \in Ops, active = o,
           (run \in Before /\ run' \in Before) \/ (run \in After /\ run' \in After),
           UNCHANGED <<ops, attempts, realm, now, active, sent, disk>>,
           child' \in {child, [child EXCEPT ![o] = "waiting"]},
           wire' = wire \/ (run \in After /\ \E w \in SUBSET {"ticket", "credential"} : wire' = [wire EXCEPT ![o] = w]),
           CopyInv'
    PROVE  AuthoringInv' /\ Final
<1>1. o # None /\ o \in DOMAIN ops BY AuthoringAssumption DEF AuthoringInv, SlotInv, Ops
<1>2. AuthoringTypeOK'
  <2>1. OpsTypeOK' BY DEF AuthoringInv, AuthoringTypeOK, OpsTypeOK
  <2>2. child' \in [Ops -> {"none", "waiting", "fenced", "sent", "replied", "exited"}]
      BY DEF AuthoringInv, AuthoringTypeOK
  <2>3. wire' \in [Ops -> SUBSET {"ticket", "credential"}]
      BY DEF AuthoringInv, AuthoringTypeOK
  <2> QED BY <2>1, <2>2, <2>3 DEF AuthoringInv, AuthoringTypeOK, Ops
<1>3. SlotInv'
  <2>1. /\ active # None => active \in DOMAIN ops
        /\ \A q \in DOMAIN ops : /\ ops[q].state = "CLAIMED" => active = q /\ run \in Before
                                 /\ ops[q].state = "DISPATCH_AUTHORIZED" => active = q /\ run \in After
        /\ Live /\ run \in After => ops[active].state \in Sendable
      BY DEF AuthoringInv, SlotInv
  <2>2. Before \cap After = {} BY DEF Before, After
  <2>3. \A q \in DOMAIN ops' : /\ ops'[q].state = "CLAIMED" => active' = q /\ run' \in Before
                               /\ ops'[q].state = "DISPATCH_AUTHORIZED" => active' = q /\ run' \in After
      BY <2>1, <2>2
  <2>4. Live' /\ run' \in After => ops'[active'].state \in Sendable BY <2>1, <2>2 DEF Live
  <2> QED BY <1>1, <2>3, <2>4 DEF SlotInv
<1>4. ChildInv'
  <2>1. \A q \in Ops : child'[q] # "none" => child[q] # "none" \/ q = o BY DEF AuthoringInv, AuthoringTypeOK
  <2>2. \A q \in Ops : q # o => wire'[q] = wire[q] BY DEF AuthoringInv, AuthoringTypeOK
  <2>3. \A q \in Ops : child'[q] # "none" \/ wire'[q] # {} => active' = q
      BY <2>1, <2>2 DEF AuthoringInv, ChildInv
  <2>4. Live /\ wire'[o] # wire[o] => ops[o].state \in Sendable BY DEF AuthoringInv, SlotInv
  <2>5. Live' => \A q \in Ops : wire'[q] # {} \/ q \in sent' => q \in DOMAIN ops' /\ ops'[q].state \in Sendable
      BY <1>1, <2>2, <2>4 DEF AuthoringInv, ChildInv, Live
  <2> QED BY <2>3, <2>5 DEF AuthoringInv, ChildInv
<1>5. SuccessInv' /\ Final BY DEF AuthoringInv, SuccessInv, Succeeded, Final
<1> QED BY <1>2, <1>3, <1>4, <1>5 DEF AuthoringInv

LEMMA StartKeeps == ASSUME AuthoringInv, NEW o \in Ops, StartWorker(o) PROVE AuthoringInv' /\ Final
<1>1. /\ run = "claimed" /\ active = o
      /\ UNCHANGED <<attempts, realm, now, active, copy, wire, sent, disk>>
      /\ child' \in {child, [child EXCEPT ![o] = "waiting"]}
      /\ (\E error : Fail(o, error)) \/ (run' = "ready" /\ ops' = ops)
    BY DEF StartWorker, reviewVars, assisted
<1>2. CASE \E error : Fail(o, error) BY <1>1, <1>2, FailKeeps
<1>3. CASE run' = "ready" /\ ops' = ops
  <2>1. run \in Before /\ run' \in Before /\ CopyInv' BY <1>1, <1>3 DEF Before, CopyInv
  <2> QED BY <1>1, <1>3, <2>1, RunKeeps
<1> QED BY <1>1, <1>2, <1>3

LEMMA HandoffKeeps ==
    ASSUME AuthoringInv, NEW o \in Ops, Handoff(o) \/ HandoffCredential(o) PROVE AuthoringInv' /\ Final
<1>1. /\ run \in {"dispatched", "credential"} /\ active = o
      /\ UNCHANGED <<attempts, realm, now, active, copy, child, sent, disk>>
      /\ \/ (\E error : Fail(o, error)) /\ wire' = wire
         \/ /\ run' \in {"credential", "collect"} /\ ops' = ops
            /\ wire' \in {[wire EXCEPT ![o] = {"ticket"}], [wire EXCEPT ![o] = @ \cup {"credential"}]}
    BY DEF Handoff, HandoffCredential, reviewVars, assisted
<1>2. CASE (\E error : Fail(o, error)) /\ wire' = wire BY <1>1, <1>2, FailKeeps
<1>3. CASE /\ run' \in {"credential", "collect"} /\ ops' = ops
           /\ wire' \in {[wire EXCEPT ![o] = {"ticket"}], [wire EXCEPT ![o] = @ \cup {"credential"}]}
  <2>1. run \in After /\ run' \in After /\ CopyInv' BY <1>1, <1>3 DEF After, CopyInv
  <2>2. \E w \in SUBSET {"ticket", "credential"} : wire' = [wire EXCEPT ![o] = w]
      BY <1>3 DEF AuthoringInv, AuthoringTypeOK
  <2> QED BY <1>1, <1>3, <2>1, <2>2, RunKeeps
<1> QED BY <1>1, <1>2, <1>3

LEMMA CollectKeeps ==
    ASSUME AuthoringInv, NEW o \in Ops, Collect(o) \/ RejectResult(o) PROVE AuthoringInv' /\ Final
<1>1. /\ run \in {"collect", "commit"} /\ active = o
      /\ UNCHANGED <<attempts, realm, now, active, copy, child, wire, sent, disk>>
      /\ (\E error : Fail(o, error)) \/ (run' = "commit" /\ ops' = ops)
    BY DEF Collect, RejectResult, reviewVars, assisted
<1>2. CASE \E error : Fail(o, error) BY <1>1, <1>2, FailKeeps
<1>3. CASE run' = "commit" /\ ops' = ops
  <2>1. run \in After /\ run' \in After /\ CopyInv' BY <1>1, <1>3 DEF After, CopyInv
  <2> QED BY <1>1, <1>3, <2>1, RunKeeps
<1> QED BY <1>1, <1>2, <1>3

\* The guard finds no error where the operation is in the state it expects.
LEMMA NoErrorIsExpected ==
    ASSUME NEW o, NEW expected, GuardedError(o, expected) = None
    PROVE  ops[o].state = expected /\ OwnerGuard(ops[o].source)
BY AuthoringAssumption DEF GuardedError, PendingError

LEMMA CopyKeeps == ASSUME AuthoringInv, NEW o \in Ops, CopyRecords(o) PROVE AuthoringInv' /\ Final
<1>1. /\ run = "commit" /\ active = o
      /\ UNCHANGED <<attempts, realm, now, active, child, wire, sent, disk>>
      /\ \/ \E error : Fail(o, error)
         \/ run' = "copied" /\ ops' = ops /\ copy' = ops /\ GuardedError(o, "DISPATCH_AUTHORIZED") = None
    BY DEF CopyRecords, reviewVars, assisted
<1>2. CASE \E error : Fail(o, error) BY <1>1, <1>2, FailKeeps
<1>3. CASE run' = "copied" /\ ops' = ops /\ copy' = ops /\ GuardedError(o, "DISPATCH_AUTHORIZED") = None
  <2>1. ops[o].state = "DISPATCH_AUTHORIZED" /\ ops[o].source \notin DOMAIN attempts
      BY <1>3, NoErrorIsExpected DEF OwnerGuard
  <2>2. run \in After /\ run' \in After /\ CopyInv' BY <1>1, <1>3, <2>1 DEF After, CopyInv
  <2> QED BY <1>1, <1>3, <2>2, RunKeeps
<1> QED BY <1>1, <1>2, <1>3

\* The claim takes the slot, which no operation and no process holds.
LEMMA ClaimKeeps == ASSUME AuthoringInv, NEW o \in Ops, Claim(o) PROVE AuthoringInv' /\ Final
<1> DEFINE deadline == IF now + RunTime < ops[o].expires THEN now + RunTime ELSE ops[o].expires
           claimed == /\ ops' = [ops EXCEPT ![o].state = "CLAIMED", ![o].deadline = deadline]
                      /\ active = None /\ active' = o /\ run' = "claimed" /\ Admitted
                      /\ (IF realm = "DEMO" THEN disk' = [disk EXCEPT !.consumed = o] ELSE UNCHANGED disk)
           kept == UNCHANGED <<active, run>>
<1>1. /\ o \in DOMAIN ops /\ ops[o].state = "AUTHORIZED"
      /\ UNCHANGED <<attempts, realm, now, copy, child, wire, sent>>
    BY Zenon DEF Claim, reviewVars, assisted, Is, Known
<1>2. \/ (\E x \in {"STALE", "EXPIRED"} : ops' = End(o, x)) /\ kept /\ UNCHANGED disk
      \/ claimed
      \/ /\ kept /\ UNCHANGED ops /\ realm = "DEMO" /\ active = None /\ Admitted
         /\ disk' = [disk EXCEPT !.consumed = o]
    BY Zenon DEF Claim
<1>3. /\ active = None => run = "idle" /\ \A q \in Ops : child[q] = "none" /\ wire[q] = {}
      /\ realm = "DEMO" /\ Admitted => disk.consumed = None
    BY AuthoringAssumption DEF AuthoringInv, SlotInv, ChildInv, Ops, Admitted, Unconsumed
<1>4. realm = "DEMO" /\ Admitted => sent = {}
    BY <1>3, AuthoringAssumption DEF AuthoringInv, AuthoringTypeOK, ChildInv, Ops
<1>5. disk' = [disk EXCEPT !.consumed = o] => disk' \in [consumed : Ops \cup {None}, dispatched : BOOLEAN] /\ disk'.consumed = o
    BY DEF AuthoringInv, AuthoringTypeOK
<1>6. CASE (\E x \in {"STALE", "EXPIRED"} : ops' = End(o, x)) /\ kept /\ UNCHANGED disk
    BY <1>1, <1>6, EndKeeps DEF Terminal
<1>7. CASE claimed
  <2>1. PICK n \in 0 .. MaxOps : ops \in [1 .. n -> Operations] BY DEF AuthoringInv, AuthoringTypeOK, OpsTypeOK
  <2>2. ops[o] \in Operations /\ now \in Nat BY <1>1, <2>1 DEF AuthoringInv, AuthoringTypeOK
  <2>3. deadline \in Nat BY <2>2, AuthoringAssumption DEF Operations
  <2>4. PICK c : c = [ops[o] EXCEPT !.state = "CLAIMED", !.deadline = deadline] OBVIOUS
  <2> HIDE DEF deadline
  <2>5. c \in Operations /\ c.state = "CLAIMED" /\ c.source = ops[o].source BY <2>2, <2>3, <2>4 DEF Operations
  <2>6. ops' = [ops EXCEPT ![o] = c] BY <1>1, <1>7, <2>1, <2>4
  <2>7. /\ ops' \in [1 .. n -> Operations] /\ DOMAIN ops' = DOMAIN ops /\ ops'[o] = c
        /\ \A q \in DOMAIN ops : q # o => ops'[q] = ops[q]
      BY <1>1, <2>1, <2>5, <2>6
  <2>8. AuthoringTypeOK'
    <3>1. OpsTypeOK' BY <2>7 DEF OpsTypeOK
    <3>2. disk' \in [consumed : Ops \cup {None}, dispatched : BOOLEAN]
        BY <1>5, <1>7 DEF AuthoringInv, AuthoringTypeOK
    <3> QED BY <1>1, <1>7, <3>1, <3>2 DEF AuthoringInv, AuthoringTypeOK, Ops, Before
  <2>9. \A q \in DOMAIN ops : ops[q].state \notin {"CLAIMED", "DISPATCH_AUTHORIZED"}
    <3>1. active = None /\ run = "idle" BY <1>3, <1>7
    <3> QED BY <3>1 DEF AuthoringInv, SlotInv, Before, After
  <2>10. SlotInv'
    <3>1. run' \in Before /\ run' \notin After /\ run' # "idle" BY <1>7 DEF Before, After
    <3>2. o # None BY AuthoringAssumption DEF Ops
    <3> QED BY <1>1, <1>7, <2>5, <2>7, <2>9, <3>1, <3>2 DEF SlotInv
  <2>11. ChildInv'
    <3>1. \A q \in Ops : child'[q] = "none" /\ wire'[q] = {} BY <1>1, <1>3, <1>7
    <3>2. realm' = "DEMO" => disk'.consumed = o /\ sent' = {} BY <1>1, <1>4, <1>5, <1>7
    <3>3. Live' => \A q \in sent' : q \in DOMAIN ops' /\ ops'[q].state \in Sendable
      <4>1. ops[o].state \notin Sendable BY <1>1 DEF Sendable, Terminal
      <4> QED BY <1>1, <2>7, <4>1 DEF AuthoringInv, AuthoringTypeOK, ChildInv, Live
    <3> QED BY <1>7, <3>1, <3>2, <3>3 DEF ChildInv
  <2>12. SuccessInv' /\ Final
    <3>1. \A q \in DOMAIN ops : /\ ops'[q].source = ops[q].source
                                /\ (ops'[q].state = "SUCCEEDED") <=> (ops[q].state = "SUCCEEDED")
                                /\ ops[q].state \in Terminal => ops'[q].state = ops[q].state
        BY <1>1, <2>5, <2>7 DEF Terminal
    <3> QED BY <1>1, <2>7, <3>1 DEF AuthoringInv, SuccessInv, Succeeded, Final
  <2>13. CopyInv' BY <1>7 DEF CopyInv
  <2> QED BY <2>8, <2>10, <2>11, <2>12, <2>13 DEF AuthoringInv
<1>8. CASE /\ kept /\ UNCHANGED ops /\ realm = "DEMO" /\ active = None /\ Admitted
           /\ disk' = [disk EXCEPT !.consumed = o]
  <2>1. AuthoringTypeOK'
    <3>1. OpsTypeOK' BY <1>8 DEF AuthoringInv, AuthoringTypeOK, OpsTypeOK
    <3> QED BY <1>1, <1>5, <1>8, <3>1 DEF AuthoringInv, AuthoringTypeOK, Ops
  <2>2. SlotInv' /\ CopyInv' /\ SuccessInv' /\ Final
      BY <1>1, <1>8 DEF AuthoringInv, SlotInv, CopyInv, SuccessInv, Succeeded, Final, Live
  <2>3. ChildInv'
    <3>1. \A q \in Ops : child'[q] = "none" /\ wire'[q] = {} BY <1>1, <1>3, <1>8
    <3>2. sent' = {} BY <1>1, <1>4, <1>8
    <3> QED BY <1>8, <3>1, <3>2 DEF ChildInv
  <2> QED BY <2>1, <2>2, <2>3 DEF AuthoringInv
<1> QED BY <1>2, <1>6, <1>7, <1>8

LEMMA DispatchKeeps == ASSUME AuthoringInv, NEW o \in Ops, DispatchOp(o) PROVE AuthoringInv' /\ Final
<1>1. /\ run = "ready" /\ active = o
      /\ UNCHANGED <<attempts, realm, now, active, copy, child, wire, sent, disk>>
      /\ \/ \E error : Fail(o, error)
         \/ /\ GuardedError(o, "CLAIMED") = None
            /\ ops' = [ops EXCEPT ![o].state = "DISPATCH_AUTHORIZED"]
            /\ run' = "dispatched"
    BY DEF DispatchOp, reviewVars, assisted
<1>2. CASE \E error : Fail(o, error) BY <1>1, <1>2, FailKeeps
<1>3. CASE /\ GuardedError(o, "CLAIMED") = None
           /\ ops' = [ops EXCEPT ![o].state = "DISPATCH_AUTHORIZED"]
           /\ run' = "dispatched"
  <2>1. PICK n \in 0 .. MaxOps : ops \in [1 .. n -> Operations] BY DEF AuthoringInv, AuthoringTypeOK, OpsTypeOK
  <2>2. o # None /\ o \in DOMAIN ops /\ ops[o].state = "CLAIMED"
      BY <1>1, <1>3, NoErrorIsExpected, AuthoringAssumption DEF AuthoringInv, SlotInv, Ops
  <2>3. PICK c : c = [ops[o] EXCEPT !.state = "DISPATCH_AUTHORIZED"] OBVIOUS
  <2>4. c \in Operations /\ c.state = "DISPATCH_AUTHORIZED" /\ c.source = ops[o].source
      BY <2>1, <2>2, <2>3 DEF Operations
  <2>5. ops' = [ops EXCEPT ![o] = c] BY <1>3, <2>1, <2>2, <2>3
  <2>6. /\ ops' \in [1 .. n -> Operations] /\ DOMAIN ops' = DOMAIN ops /\ ops'[o] = c
        /\ \A q \in DOMAIN ops : q # o => ops'[q] = ops[q]
      BY <2>1, <2>2, <2>4, <2>5
  <2>7. AuthoringTypeOK'
    <3>1. OpsTypeOK' BY <2>6 DEF OpsTypeOK
    <3> QED BY <1>1, <1>3, <3>1 DEF AuthoringInv, AuthoringTypeOK, Ops, After
  <2>8. SlotInv'
    <3>1. run' \in After /\ run' \notin Before /\ run' # "idle" BY <1>3 DEF Before, After
    <3>2. \A q \in DOMAIN ops : q # o => ops[q].state \notin {"CLAIMED", "DISPATCH_AUTHORIZED"}
        BY <1>1 DEF AuthoringInv, SlotInv
    <3> QED BY <1>1, <2>2, <2>4, <2>6, <3>1, <3>2 DEF SlotInv, Sendable
  <2>9. ChildInv'
    <3>1. Live' => \A q \in Ops : wire'[q] # {} \/ q \in sent' => q \in DOMAIN ops' /\ ops'[q].state \in Sendable
        BY <1>1, <2>4, <2>6 DEF AuthoringInv, ChildInv, Live, Sendable
    <3> QED BY <1>1, <3>1 DEF AuthoringInv, ChildInv
  <2>10. SuccessInv' /\ Final
    <3>1. \A q \in DOMAIN ops : /\ ops'[q].source = ops[q].source
                                /\ (ops'[q].state = "SUCCEEDED") <=> (ops[q].state = "SUCCEEDED")
                                /\ ops[q].state \in Terminal => ops'[q].state = ops[q].state
        BY <2>2, <2>4, <2>6 DEF Terminal
    <3> QED BY <1>1, <2>6, <3>1 DEF AuthoringInv, SuccessInv, Succeeded, Final
  <2>11. CopyInv' BY <1>3 DEF CopyInv
  <2> QED BY <2>7, <2>8, <2>9, <2>10, <2>11 DEF AuthoringInv
<1> QED BY <1>1, <1>2, <1>3

\* The swap publishes the first success of its source.
LEMMA CommitKeeps ==
    ASSUME AuthoringInv, NEW o \in Ops, NEW result \in Results, Commit(o, result)
    PROVE  AuthoringInv' /\ Final
<1>5. \A s, a : DOMAIN Put(attempts, s, a) = DOMAIN attempts \cup {s} BY DEF Put
<1>1. /\ run = "copied" /\ active = o
      /\ UNCHANGED <<realm, now, active, child, wire, sent, disk>>
      /\ \/ UNCHANGED attempts /\ \E error : Fail(o, error)
         \/ /\ ops = copy /\ ops' = [ops EXCEPT ![o].state = "SUCCEEDED"] /\ run' = "cleanup"
            /\ DOMAIN attempts' = DOMAIN attempts \cup {ops[o].source}
  <2>1. CASE ops = copy
    <3>1. /\ ops' = [ops EXCEPT ![o].state = "SUCCEEDED"] /\ run' = "cleanup"
          /\ Publish(ops[o].source, [by |-> "AUTHORING", result |-> result])
        BY <2>1 DEF Commit
    <3>2. DOMAIN attempts' = DOMAIN attempts \cup {ops[o].source} BY <1>5, <3>1 DEF Publish
    <3> QED BY <2>1, <3>1, <3>2 DEF Commit
  <2>2. CASE ops # copy BY <2>2 DEF Commit
  <2> QED BY <2>1, <2>2
<1>2. CASE UNCHANGED attempts /\ \E error : Fail(o, error) BY <1>1, <1>2, FailKeeps
<1>3. CASE /\ ops = copy /\ ops' = [ops EXCEPT ![o].state = "SUCCEEDED"] /\ run' = "cleanup"
           /\ DOMAIN attempts' = DOMAIN attempts \cup {ops[o].source}
  <2>1. PICK n \in 0 .. MaxOps : ops \in [1 .. n -> Operations] BY DEF AuthoringInv, AuthoringTypeOK, OpsTypeOK
  <2>2. /\ o # None /\ o \in DOMAIN ops
        /\ ops[o].state = "DISPATCH_AUTHORIZED" /\ ops[o].source \notin DOMAIN attempts
      BY <1>1, <1>3, AuthoringAssumption DEF AuthoringInv, SlotInv, CopyInv, Ops
  <2>3. PICK c : c = [ops[o] EXCEPT !.state = "SUCCEEDED"] OBVIOUS
  <2>4. c \in Operations /\ c.state = "SUCCEEDED" /\ c.source = ops[o].source
      BY <2>1, <2>2, <2>3 DEF Operations, Terminal
  <2>5. ops' = [ops EXCEPT ![o] = c] BY <1>3, <2>1, <2>2, <2>3
  <2>6. /\ ops' \in [1 .. n -> Operations] /\ DOMAIN ops' = DOMAIN ops /\ ops'[o] = c
        /\ \A q \in DOMAIN ops : q # o => ops'[q] = ops[q]
      BY <2>1, <2>2, <2>4, <2>5
  <2>7. AuthoringTypeOK'
    <3>1. OpsTypeOK' BY <2>6 DEF OpsTypeOK
    <3> QED BY <1>1, <1>3, <3>1 DEF AuthoringInv, AuthoringTypeOK, Ops
  <2>8. SlotInv'
    <3>1. run' \notin After BY <1>3 DEF After
    <3>2. \A q \in DOMAIN ops : q # o => ops[q].state \notin {"CLAIMED", "DISPATCH_AUTHORIZED"}
        BY <1>1 DEF AuthoringInv, SlotInv
    <3> QED BY <1>1, <2>2, <2>4, <2>6, <3>1, <3>2 DEF SlotInv
  <2>9. ChildInv'
    <3>1. Live' => \A q \in Ops : wire'[q] # {} \/ q \in sent' => q \in DOMAIN ops' /\ ops'[q].state \in Sendable
        BY <1>1, <2>4, <2>6 DEF AuthoringInv, ChildInv, Live, Sendable, Terminal
    <3> QED BY <1>1, <3>1 DEF AuthoringInv, ChildInv
  <2>10. Final BY <2>2, <2>6 DEF Final, Terminal
  <2>11. SuccessInv'
    <3>1. \A q \in DOMAIN ops : ops'[q].source = ops[q].source BY <2>4, <2>6
    <3>2. \A q \in DOMAIN ops : (ops'[q].state = "SUCCEEDED") <=> (q = o \/ ops[q].state = "SUCCEEDED")
        BY <2>4, <2>6
    <3>3. \A q \in DOMAIN ops : ops[q].state = "SUCCEEDED" => ops[q].source # ops[o].source
        BY <2>2 DEF AuthoringInv, SuccessInv, Succeeded
    <3> QED BY <1>3, <2>2, <2>6, <3>1, <3>2, <3>3 DEF AuthoringInv, SuccessInv, Succeeded
  <2>12. CopyInv' BY <1>3 DEF CopyInv
  <2> QED BY <2>7, <2>8, <2>9, <2>10, <2>11, <2>12 DEF AuthoringInv
<1> QED BY <1>1, <1>2, <1>3

\* The slot is given up with its process, or kept by the engine that closes.
LEMMA ReapKeeps == ASSUME AuthoringInv, NEW o \in Ops, Reap(o) PROVE AuthoringInv' /\ Final
<1>1. /\ run = "cleanup" /\ active = o /\ run' = "idle"
      /\ UNCHANGED <<ops, attempts, realm, now, copy, sent, disk>>
      /\ \/ active' = None /\ child' = [child EXCEPT ![o] = "none"] /\ wire' = [wire EXCEPT ![o] = {}]
         \/ UNCHANGED <<active, child, wire>>
    BY DEF Reap, reviewVars, assisted
<1>2. AuthoringTypeOK'
  <2>1. OpsTypeOK' BY <1>1 DEF AuthoringInv, AuthoringTypeOK, OpsTypeOK
  <2>2. child' \in [Ops -> {"none", "waiting", "fenced", "sent", "replied", "exited"}]
      BY <1>1 DEF AuthoringInv, AuthoringTypeOK
  <2>3. wire' \in [Ops -> SUBSET {"ticket", "credential"}] BY <1>1 DEF AuthoringInv, AuthoringTypeOK
  <2> QED BY <1>1, <2>1, <2>2, <2>3 DEF AuthoringInv, AuthoringTypeOK, Ops
<1>3. SlotInv'
  <2>1. run \notin Before /\ run \notin After /\ run' \notin After BY <1>1 DEF Before, After
  <2>2. \A q \in DOMAIN ops : ops[q].state \notin {"CLAIMED", "DISPATCH_AUTHORIZED"}
      BY <2>1 DEF AuthoringInv, SlotInv
  <2> QED BY <1>1, <2>1, <2>2 DEF AuthoringInv, SlotInv
<1>4. ChildInv'
  <2>1. \A q \in Ops : child'[q] # "none" => child[q] # "none" /\ active' = active
      BY <1>1 DEF AuthoringInv, AuthoringTypeOK, ChildInv
  <2>2. \A q \in Ops : wire'[q] # {} => wire[q] # {} /\ active' = active
      BY <1>1 DEF AuthoringInv, AuthoringTypeOK, ChildInv
  <2> QED BY <1>1, <2>1, <2>2 DEF AuthoringInv, ChildInv, Live
<1>5. SuccessInv' /\ Final /\ CopyInv' BY <1>1 DEF AuthoringInv, SuccessInv, Succeeded, Final, CopyInv
<1> QED BY <1>2, <1>3, <1>4, <1>5 DEF AuthoringInv

\* A run that is started again was not consumed: nothing was ever claimed.
LEMMA RestartKeeps == ASSUME AuthoringInv, Restart PROVE AuthoringInv' /\ Final
<1>1. /\ realm = "DEMO" /\ disk.consumed = None
      /\ ops' = <<>> /\ active' = None /\ run' = "idle" /\ DOMAIN attempts' = {}
      /\ UNCHANGED <<realm, now, child, wire, sent, disk>>
    BY DEF Restart, Unconsumed, EmptyDict
<1>2. active = None BY <1>1 DEF AuthoringInv, ChildInv
<1>3. sent = {} BY <1>1, AuthoringAssumption DEF AuthoringInv, AuthoringTypeOK, ChildInv, Ops
<1>4. ops' \in [1 .. 0 -> Operations] /\ DOMAIN ops' = {}
  <2>1. <<>> \in Seq(Operations) /\ Len(<<>>) = 0 BY EmptySeq
  <2>2. <<>> \in [1 .. 0 -> Operations] BY <2>1, LenProperties
  <2> QED BY <1>1, <2>2
<1>5. OpsTypeOK' BY <1>4, AuthoringAssumption DEF OpsTypeOK
<1>6. AuthoringTypeOK' BY <1>1, <1>5 DEF AuthoringInv, AuthoringTypeOK, Ops
<1>7. SlotInv' /\ CopyInv' /\ SuccessInv' /\ Final
    BY <1>1, <1>4 DEF SlotInv, CopyInv, SuccessInv, Final, After
<1>8. ChildInv'
  <2>1. \A q \in Ops : child[q] = "none" /\ wire[q] = {}
      BY <1>2, AuthoringAssumption DEF AuthoringInv, ChildInv, Ops
  <2> QED BY <1>1, <1>3, <2>1 DEF ChildInv
<1> QED BY <1>6, <1>7, <1>8 DEF AuthoringInv

LEMMA AuthoringStep == ASSUME AuthoringInv, AuthoringNext PROVE AuthoringInv' /\ Final
BY OutsideKeeps, PrepareSettles, AuthorizeKeeps, InspectKeeps, RevokeKeeps, ClaimKeeps, ShutdownKeeps, RestartKeeps,
   ProcessKeeps, SendKeeps, StartKeeps, DispatchKeeps, HandoffKeeps, CollectKeeps, CopyKeeps, CommitKeeps, ReapKeeps
   DEF AuthoringNext, RunStep

LEMMA AuthoringBegins == ASSUME AuthoringInit PROVE AuthoringInv
<1>1. ops \in [1 .. 0 -> Operations] /\ DOMAIN ops = {}
  <2>1. <<>> \in Seq(Operations) /\ Len(<<>>) = 0 BY EmptySeq
  <2>2. <<>> \in [1 .. 0 -> Operations] BY <2>1, LenProperties
  <2> QED BY <2>2 DEF AuthoringInit
<1>2. DOMAIN attempts = {} BY DEF AuthoringInit, ReviewInit, EmptyDict
<1>3. OpsTypeOK BY <1>1, AuthoringAssumption DEF OpsTypeOK
<1>4. AuthoringTypeOK BY <1>3, AuthoringAssumption DEF AuthoringInit, AuthoringTypeOK, Ops
<1>5. SlotInv /\ CopyInv /\ SuccessInv BY <1>1, <1>2 DEF AuthoringInit, SlotInv, CopyInv, SuccessInv, After
<1>6. ChildInv BY DEF AuthoringInit, ChildInv
<1> QED BY <1>4, <1>5, <1>6 DEF AuthoringInv

LEMMA AuthoringStutters == ASSUME AuthoringInv, UNCHANGED authoringVars PROVE AuthoringInv'
<1>1. UNCHANGED <<ops, attempts, realm, now, active, run, copy, child, wire, sent, disk>>
    BY DEF authoringVars, reviewVars, assisted, engine, process
<1> QED BY <1>1, QuietKeeps DEF AuthoringInv, AuthoringTypeOK

\* The sets of the properties have one element at most.
LEMMA AtMostOne ==
    ASSUME NEW S, IsFiniteSet(S), \A x, y \in S : x = y
    PROVE  Cardinality(S) = IF S = {} THEN 0 ELSE 1
<1>1. CASE S = {} BY <1>1, FS_EmptySet
<1>2. CASE S # {}
  <2>1. PICK x : x \in S BY <1>2
  <2>2. S = {x} BY <2>1
  <2> QED BY <1>2, <2>2, FS_Singleton
<1> QED BY <1>1, <1>2

LEMMA AuthoringHolds == ASSUME AuthoringInv PROVE AuthoringIsOwned
<1>1. /\ IsFiniteSet(DOMAIN ops) /\ \A o \in DOMAIN ops : o \in Ops
    BY OpsKnown DEF AuthoringInv, AuthoringTypeOK
<1>2. RevokedIsUnsent
    BY <1>1 DEF AuthoringInv, ChildInv, RevokedIsUnsent, Sendable, Terminal
<1>3. ASSUME NEW s \in SourceIds
      PROVE  Cardinality({o \in DOMAIN ops : ops[o].source = s /\ ops[o].state = "SUCCEEDED"})
             = IF s \in DOMAIN attempts THEN 1 ELSE 0
  <2>1. PICK S : S = {o \in DOMAIN ops : ops[o].source = s /\ ops[o].state = "SUCCEEDED"} OBVIOUS
  <2>2. IsFiniteSet(S) BY <1>1, <2>1, FS_Subset
  <2>3. (\A x, y \in S : x = y) /\ (S = {} <=> s \notin DOMAIN attempts)
      BY <2>1 DEF AuthoringInv, SuccessInv, Succeeded
  <2>4. Cardinality(S) = IF S = {} THEN 0 ELSE 1 BY <2>2, <2>3, AtMostOne
  <2> QED BY <2>1, <2>3, <2>4
<1>4. OneChild
  <2>1. PICK S : S = {o \in Ops : Alive(o)} OBVIOUS
  <2>2. IsFiniteSet(Ops) BY FS_Interval, AuthoringAssumption DEF Ops
  <2>3. IsFiniteSet(S) BY <2>1, <2>2, FS_Subset
  <2>4. \A x, y \in S : x = y BY <2>1 DEF AuthoringInv, ChildInv, Alive
  <2>5. Cardinality(S) <= 1 BY <2>3, <2>4, AtMostOne
  <2> QED BY <2>1, <2>5 DEF OneChild
<1>5. SentIsConsumed BY DEF AuthoringInv, ChildInv, SentIsConsumed
<1>6. NoneLeftClaimed BY <1>1, AuthoringAssumption DEF AuthoringInv, SlotInv, NoneLeftClaimed, Ops
<1> QED BY <1>2, <1>3, <1>4, <1>5, <1>6 DEF AuthoringIsOwned, OneSuccessPerAttempt

\* A draft leaves for a provider on a live acknowledgement or not at all, once,
\* through the one worker slot; a restart or a failed run leaves no claim.
THEOREM AuthoringStaysOwned == AuthoringSpec => []AuthoringIsOwned
<1>1. AuthoringInit => AuthoringInv BY AuthoringBegins
<1>2. AuthoringInv /\ [AuthoringNext]_authoringVars => AuthoringInv'
    BY AuthoringStep, AuthoringStutters
<1>3. AuthoringInv => AuthoringIsOwned BY AuthoringHolds
<1> QED BY <1>1, <1>2, <1>3, PTL DEF AuthoringSpec

\* The first end of an operation is its last, whatever a commit of another
\* operation copies and swaps back.
THEOREM FirstEndIsFinal == AuthoringSpec => TerminalIsFinal
<1>1. AuthoringInit => AuthoringInv BY AuthoringBegins
<1>2. AuthoringInv /\ [AuthoringNext]_authoringVars => AuthoringInv'
    BY AuthoringStep, AuthoringStutters
<1>3. AuthoringInv /\ [AuthoringNext]_authoringVars => [
        \A o \in DOMAIN ops : ops[o].state \in Terminal /\ o \in DOMAIN ops' =>
            ops'[o].state = ops[o].state]_authoringVars
    BY AuthoringStep DEF Final
<1> QED BY <1>1, <1>2, <1>3, PTL DEF AuthoringSpec, TerminalIsFinal

-----------------------------------------------------------------------------
\* The ledger issues as the reference does, an operation that ended stays as it
\* ended, a result is published only on the workflow it was started on, and
\* nothing of a POC is written after its closure.
THEOREM NothingComesLate == LedgerSpec /\ AuthoringSpec /\ DemoSpec /\ WebSpec => NothingChangesLate
BY LedgerIsTheStore, FirstEndIsFinal, LateResultsAreDropped, NothingAfterClose, PTL DEF NothingChangesLate

=============================================================================
