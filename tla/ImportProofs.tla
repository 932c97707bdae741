----------------------------- MODULE ImportProofs -----------------------------
(***************************************************************************)
(* What holds of the measurements of a POC, of the reports on it and of    *)
(* the evidence brought in from Inferdrome, for any number of POCs, keys,  *)
(* requests and workers and whatever the limits of the store: the report   *)
(* store, the reader of a bundle whose files are exchanged meanwhile, the  *)
(* import service, the dispatch of a run by processes that may be killed   *)
(* between any two of its files, the performance agreement, the percentile *)
(* and the streaming probe a PASS rests on.                                *)
(***************************************************************************)
EXTENDS MCImports, FiniteSetTheorems, TLAPS

-----------------------------------------------------------------------------
(***************************************************************************)
(* ProofabilityWorkspace.                                                  *)
(***************************************************************************)

BoundTo == WPocs \X Authorities
Accepted == [poc : WPocs, binding : BoundTo, bytes : Nat]
Reservations ==
    [owner : Workers, poc : WPocs, binding : BoundTo, bytes : Nat, latestSlots : {0, 1}]
WorkCalls ==
    {c \in [pc : {"decide", "evaluate", "publish", "replay", "get"}, poc : WPocs, key : WKeys,
            authority : Authorities, binding : BoundTo] : c.binding = <<c.poc, c.authority>>}

StoreTypes ==
    /\ IsDict(operations, WKeys, Accepted) /\ IsFiniteSet(DOMAIN operations)
    /\ IsDict(latest, WPocs, WKeys) /\ IsFiniteSet(DOMAIN latest)
    /\ IsDict(holding, WKeys, Reservations) /\ IsFiniteSet(DOMAIN holding)

StoreInv == StoreTypes /\ StoreCoherent

WorkTypes ==
    /\ calls \in [Workers -> {NoCall} \cup WorkCalls]
    /\ stripes \in [Stripes -> Workers \cup {"free"}]
    /\ authority \in Authorities

\* A create holds the stripe of its POC, the one that found its key taken still
\* finds it there, and the one that evaluates or publishes has reserved its place.
Fits(w) ==
    LET c == calls[w] IN
    /\ c.pc \in {"decide", "evaluate", "publish", "replay"} => stripes[StripeOf[c.poc]] = w
    /\ c.pc = "replay" => c.key \in DOMAIN operations /\ operations[c.key].binding = c.binding
    /\ c.pc \in {"evaluate", "publish"} => c.key \in DOMAIN holding /\ holding[c.key].owner = w

\* A reservation is of the create that is going to release it.
IsOwned(k) ==
    LET c == calls[holding[k].owner] IN
    c.pc \in {"evaluate", "publish"} /\ c.key = k /\ c.poc = holding[k].poc

WorkspaceInv ==
    /\ StoreInv
    /\ WorkTypes
    /\ \A w \in Workers : Fits(w)
    /\ \A k \in DOMAIN holding : IsOwned(k)
    /\ ReportIsCurrent

\* What a worker does not reserve or release.
OthersHold(w) ==
    \A k \in WKeys :
        (k \in DOMAIN holding /\ holding[k].owner # w) \/ (k \in DOMAIN holding' /\ holding'[k].owner # w)
            => k \in DOMAIN holding /\ k \in DOMAIN holding' /\ holding'[k] = holding[k]

\* What has been accepted.
AcceptedStay ==
    \A k \in DOMAIN operations : k \in DOMAIN operations' /\ operations'[k] = operations[k]

\* A worker that is in a call.
LEMMA InCall ==
    ASSUME WorkspaceInv, NEW w \in Workers, calls[w].pc # "idle"
    PROVE  calls[w] \in WorkCalls
BY DEF WorkspaceInv, WorkTypes, NoCall

\* A step of one worker leaves the calls of the others as they fit.
LEMMA OneWorkerMoves ==
    ASSUME WorkspaceInv, NEW w \in Workers, NEW c \in {NoCall} \cup WorkCalls,
           calls' = [calls EXCEPT ![w] = c],
           stripes' \in [Stripes -> Workers \cup {"free"}],
           \A s \in Stripes : stripes[s] \in Workers \ {w} => stripes'[s] = stripes[s],
           OthersHold(w), AcceptedStay, StoreInv', authority' \in Authorities,
           Fits(w)', \A k \in DOMAIN holding' : holding'[k].owner = w => IsOwned(k)',
           ReportIsCurrent'
    PROVE  WorkspaceInv'
<1>1. calls'[w] = c /\ \A v \in Workers \ {w} : calls'[v] = calls[v]
    BY DEF WorkspaceInv, WorkTypes
<1>2. WorkTypes' BY DEF WorkspaceInv, WorkTypes
<1>3. ASSUME NEW v \in Workers \ {w} PROVE Fits(v)'
    <2>0. Fits(v) BY DEF WorkspaceInv
    <2>1. CASE calls[v].pc = "idle" BY <1>1, <2>1 DEF Fits
    <2>2. CASE calls[v].pc # "idle"
        <3>1. calls[v] \in WorkCalls BY <2>2, InCall
        <3>2. StripeOf[calls[v].poc] \in Stripes BY <3>1 DEF WorkCalls, Stripes
        <3>3. calls[v].pc \in {"decide", "evaluate", "publish", "replay"}
              => stripes'[StripeOf[calls[v].poc]] = v
            BY <2>0, <3>2 DEF Fits
        <3>4. calls[v].key \in WKeys BY <3>1 DEF WorkCalls
        <3>5. calls[v].pc \in {"evaluate", "publish"} =>
                calls[v].key \in DOMAIN holding' /\ holding'[calls[v].key].owner = v
            BY <2>0, <3>4 DEF Fits, OthersHold
        <3> QED BY <1>1, <2>0, <3>3, <3>5 DEF Fits, AcceptedStay
    <2> QED BY <2>1, <2>2
<1>4. ASSUME NEW k \in DOMAIN holding', holding'[k].owner # w PROVE IsOwned(k)'
    <2>1. k \in WKeys BY DEF StoreInv, StoreTypes, IsDict
    <2>2. k \in DOMAIN holding /\ holding'[k] = holding[k] BY <1>4, <2>1 DEF OthersHold
    <2>3. holding[k].owner \in Workers \ {w}
        BY <1>4, <2>2 DEF WorkspaceInv, StoreInv, StoreTypes, IsDict, Reservations
    <2> QED BY <1>1, <2>2, <2>3 DEF WorkspaceInv, IsOwned
<1> QED BY <1>2, <1>3, <1>4 DEF WorkspaceInv

\* The store is as it was.
LEMMA StoreStays ==
    ASSUME WorkspaceInv, UNCHANGED store
    PROVE  /\ StoreInv' /\ AcceptedStay
           /\ \A w \in Workers : OthersHold(w)
           /\ \A k \in DOMAIN holding : holding'[k] = holding[k]
BY DEF store, WorkspaceInv, StoreInv, StoreTypes, StoreCoherent, AcceptedStay, OthersHold, BytesOf,
       LatestSlotsOf, LatestSlots

\* A worker whose call returns has no stripe left, and nothing else of its own.
LEMMA ReturnLeaves ==
    ASSUME WorkspaceInv, NEW w \in Workers, NEW kind, NEW op, ReturnCall(w, kind, op)
    PROVE  /\ calls' = [calls EXCEPT ![w] = NoCall]
           /\ stripes' \in [Stripes -> Workers \cup {"free"}]
           /\ \A s \in Stripes : stripes[s] \in Workers \ {w} => stripes'[s] = stripes[s]
           /\ Fits(w)'
<1>1. calls' = [calls EXCEPT ![w] = NoCall] /\ calls'[w] = NoCall
    BY DEF ReturnCall, WorkspaceInv, WorkTypes
<1>2. stripes' = [s \in Stripes |-> IF stripes[s] = w THEN "free" ELSE stripes[s]]
    BY DEF ReturnCall
<1>3. Fits(w)' BY <1>1 DEF Fits, NoCall
<1> QED BY <1>1, <1>2, <1>3 DEF WorkspaceInv, WorkTypes

\* A call that returns without a change of the store.
LEMMA ReturnStep ==
    ASSUME WorkspaceInv, NEW w \in Workers, NEW kind, NEW op, ReturnCall(w, kind, op),
           UNCHANGED <<openDrafts, authority, draftSteps, store>>, w \notin {holding[k].owner : k \in DOMAIN holding},
           ReportIsCurrent'
    PROVE  WorkspaceInv'
<1>1. /\ calls' = [calls EXCEPT ![w] = NoCall]
      /\ stripes' \in [Stripes -> Workers \cup {"free"}]
      /\ \A s \in Stripes : stripes[s] \in Workers \ {w} => stripes'[s] = stripes[s]
      /\ Fits(w)'
    BY ReturnLeaves
<1>2. StoreInv' /\ AcceptedStay /\ OthersHold(w) BY StoreStays
<1>3. authority' \in Authorities BY DEF WorkspaceInv, WorkTypes
<1>4. \A k \in DOMAIN holding' : holding'[k].owner = w => IsOwned(k)' BY DEF store
<1> QED BY <1>1, <1>2, <1>3, <1>4, OneWorkerMoves

\* A worker that is not between reserving and releasing has no reservation.
LEMMA HoldsNothing ==
    ASSUME WorkspaceInv, NEW w \in Workers, calls[w].pc \notin {"evaluate", "publish"}
    PROVE  w \notin {holding[k].owner : k \in DOMAIN holding}
BY DEF WorkspaceInv, IsOwned

\* A refusal answers with no report.
LEMMA RefusalIsCurrent == ASSUME NEW w \in Workers, NEW kind, Refused(w, kind) PROVE ReportIsCurrent'
BY DEF Refused, ReturnCall, ReportIsCurrent

\* So does a step in the middle of a call.
LEMMA SilenceIsCurrent == ASSUME answer' = <<>> PROVE ReportIsCurrent'
BY DEF ReportIsCurrent

\* Drafts and authority change, and drafts are not found, outside the store.
LEMMA OutsideStep ==
    ASSUME WorkspaceInv,
           \/ \E p \in WPocs : ArchiveDraft(p)
           \/ \E a \in Authorities : ChangeAuthority(a)
           \/ \E w \in Workers, p \in WPocs : DraftNotFound(w, p)
    PROVE  WorkspaceInv'
<1>1. UNCHANGED <<store, stripes, calls>> /\ authority' \in Authorities
    BY DEF ArchiveDraft, ChangeAuthority, DraftNotFound, WorkspaceInv, WorkTypes
<1>2. ReportIsCurrent' BY DEF ArchiveDraft, ChangeAuthority, DraftNotFound, ReportIsCurrent
<1>3. StoreInv' BY <1>1, StoreStays
<1>4. WorkTypes' BY <1>1 DEF WorkspaceInv, WorkTypes
<1>5. (\A w \in Workers : Fits(w)') /\ (\A k \in DOMAIN holding' : IsOwned(k)')
    BY <1>1 DEF WorkspaceInv, Fits, IsOwned, store
<1> QED BY <1>2, <1>3, <1>4, <1>5 DEF WorkspaceInv

\* A call is what its draft and the authority were.
LEMMA NewCall ==
    ASSUME WorkspaceInv, NEW p \in WPocs, NEW k \in WKeys, NEW pc \in {"decide", "get"}
    PROVE  Call(pc, p, k) \in WorkCalls
BY DEF Call, WorkCalls, BoundTo, WorkspaceInv, WorkTypes

LEMMA CreateBeginStep ==
    ASSUME WorkspaceInv, NEW w \in Workers, NEW p \in WPocs, NEW k \in WKeys, CreateBegin(w, p, k)
    PROVE  WorkspaceInv'
<1> DEFINE c == Call("decide", p, k)
<1>1. /\ calls[w] = NoCall /\ stripes[StripeOf[p]] = "free"
      /\ calls' = [calls EXCEPT ![w] = c] /\ stripes' = [stripes EXCEPT ![StripeOf[p]] = w]
      /\ answer' = <<>> /\ UNCHANGED <<openDrafts, authority, draftSteps, store>>
    BY DEF CreateBegin
<1>2. c \in WorkCalls /\ c.pc = "decide" /\ c.poc = p BY NewCall DEF Call
<1> HIDE DEF c
<1>3. StoreInv' /\ AcceptedStay /\ OthersHold(w) BY <1>1, StoreStays
<1>4. StripeOf[p] \in Stripes BY DEF Stripes
<1>5. /\ stripes' \in [Stripes -> Workers \cup {"free"}]
      /\ \A s \in Stripes : stripes[s] \in Workers \ {w} => stripes'[s] = stripes[s]
    BY <1>1, <1>4, WorkspaceAssumption DEF WorkspaceInv, WorkTypes
<1>6. calls'[w] = c /\ stripes'[StripeOf[p]] = w BY <1>1, <1>4 DEF WorkspaceInv, WorkTypes
<1>7. Fits(w)' BY <1>2, <1>6 DEF Fits
<1>8. \A j \in DOMAIN holding' : holding'[j].owner = w => IsOwned(j)'
    BY <1>1, HoldsNothing DEF NoCall, store
<1>9. authority' \in Authorities /\ ReportIsCurrent'
    BY <1>1, SilenceIsCurrent DEF WorkspaceInv, WorkTypes
<1> QED BY <1>1, <1>2, <1>3, <1>5, <1>7, <1>8, <1>9, OneWorkerMoves

LEMMA GetBeginStep ==
    ASSUME WorkspaceInv, NEW w \in Workers, NEW p \in WPocs, NEW k \in WKeys, GetBegin(w, p, k)
    PROVE  WorkspaceInv'
<1> DEFINE c == Call("get", p, k)
<1>1. /\ calls[w] = NoCall /\ calls' = [calls EXCEPT ![w] = c]
      /\ answer' = <<>> /\ UNCHANGED <<openDrafts, authority, draftSteps, store, stripes>>
    BY DEF GetBegin
<1>2. c \in WorkCalls /\ c.pc = "get" BY NewCall DEF Call
<1> HIDE DEF c
<1>3. StoreInv' /\ AcceptedStay /\ OthersHold(w) BY <1>1, StoreStays
<1>4. Fits(w)' BY <1>1, <1>2 DEF Fits, WorkspaceInv, WorkTypes
<1>5. \A j \in DOMAIN holding' : holding'[j].owner = w => IsOwned(j)'
    BY <1>1, HoldsNothing DEF NoCall, store
<1>6. /\ stripes' \in [Stripes -> Workers \cup {"free"}]
      /\ \A s \in Stripes : stripes[s] \in Workers \ {w} => stripes'[s] = stripes[s]
      /\ authority' \in Authorities
    BY <1>1 DEF WorkspaceInv, WorkTypes
<1>7. ReportIsCurrent' BY <1>1, SilenceIsCurrent
<1> QED BY <1>1, <1>2, <1>3, <1>4, <1>5, <1>6, <1>7, OneWorkerMoves

\* What a get returns is the latest operation of its POC.
LEMMA GetLatestStep == ASSUME WorkspaceInv, NEW w \in Workers, GetLatest(w) PROVE WorkspaceInv'
<1> DEFINE c == calls[w]
<1>1. c.pc = "get" /\ UNCHANGED <<openDrafts, authority, draftSteps, store>> BY DEF GetLatest
<1>2. c \in WorkCalls BY <1>1, InCall
<1>3. w \notin {holding[k].owner : k \in DOMAIN holding} BY <1>1, HoldsNothing
<1>4. ASSUME NEW kind, NEW op, ReturnCall(w, kind, op), op = {} PROVE WorkspaceInv'
    <2>1. ReportIsCurrent' BY <1>4 DEF ReturnCall, ReportIsCurrent
    <2> QED BY <1>1, <1>3, <1>4, <2>1, ReturnStep
<1>5. ASSUME Guarded(w), c.poc \in DOMAIN latest, operations[latest[c.poc]].binding = c.binding,
             ReturnCall(w, "report", {latest[c.poc]})
      PROVE  WorkspaceInv'
    <2>1. answer' = <<[kind |-> "report", call |-> c, op |-> {latest[c.poc]}]>>
        BY <1>5 DEF ReturnCall
    <2>2. c.binding = <<c.poc, c.authority>> BY <1>2 DEF WorkCalls
    <2>3. ReportIsCurrent' BY <1>1, <1>5, <2>1, <2>2 DEF ReportIsCurrent, Guarded, store
    <2> QED BY <1>1, <1>3, <1>5, <2>3, ReturnStep
<1> QED BY <1>4, <1>5 DEF GetLatest, Refused

\* What a replay returns is the operation of its key.
LEMMA CreateReplayStep == ASSUME WorkspaceInv, NEW w \in Workers, CreateReplay(w) PROVE WorkspaceInv'
<1> DEFINE c == calls[w]
<1>1. c.pc = "replay" /\ UNCHANGED <<openDrafts, authority, draftSteps, store>> BY DEF CreateReplay
<1>2. c \in WorkCalls BY <1>1, InCall
<1>3. w \notin {holding[k].owner : k \in DOMAIN holding} BY <1>1, HoldsNothing
<1>4. ASSUME Refused(w, "unavailable") PROVE WorkspaceInv'
    <2>1. ReturnCall(w, "unavailable", {}) BY <1>4 DEF Refused
    <2> QED BY <1>1, <1>3, <1>4, <2>1, RefusalIsCurrent, ReturnStep
<1>5. ASSUME Guarded(w), ReturnCall(w, "replayed", {c.key}) PROVE  WorkspaceInv'
    <2>1. answer' = <<[kind |-> "replayed", call |-> c, op |-> {c.key}]>> BY <1>5 DEF ReturnCall
    <2>2. c.binding = <<c.poc, c.authority>> BY <1>2 DEF WorkCalls
    <2>3. c.key \in DOMAIN operations /\ operations[c.key].binding = c.binding
        BY <1>1 DEF WorkspaceInv, Fits
    <2>4. ReportIsCurrent' BY <1>1, <1>5, <2>1, <2>2, <2>3 DEF ReportIsCurrent, Guarded, store
    <2> QED BY <1>1, <1>3, <1>5, <2>4, ReturnStep
<1> QED BY <1>4, <1>5 DEF CreateReplay

-----------------------------------------------------------------------------
(* The counters of the store. *)

\* A key more, or less, in a dictionary.
LEMMA OneKeyMore ==
    ASSUME NEW d, IsFiniteSet(DOMAIN d), NEW k, NEW v, k \notin DOMAIN d
    PROVE  /\ DOMAIN Put(d, k, v) = DOMAIN d \cup {k}
           /\ IsFiniteSet(DOMAIN Put(d, k, v))
           /\ Cardinality(DOMAIN d) \in Nat
           /\ Cardinality(DOMAIN Put(d, k, v)) = Cardinality(DOMAIN d) + 1
<1>1. DOMAIN Put(d, k, v) = DOMAIN d \cup {k} BY DEF Put
<1>2. Cardinality(DOMAIN d) \in Nat BY FS_CardinalityType
<1>3. IsFiniteSet(DOMAIN d \cup {k}) /\ Cardinality(DOMAIN d \cup {k}) = Cardinality(DOMAIN d) + 1
    BY FS_AddElement
<1> QED BY <1>1, <1>2, <1>3

LEMMA OneKeyLess ==
    ASSUME NEW d, IsFiniteSet(DOMAIN d), NEW k \in DOMAIN d
    PROVE  /\ DOMAIN Drop(d, k) = DOMAIN d \ {k}
           /\ IsFiniteSet(DOMAIN Drop(d, k))
           /\ Cardinality(DOMAIN d) \in Nat /\ Cardinality(DOMAIN Drop(d, k)) \in Nat
           /\ Cardinality(DOMAIN d) = Cardinality(DOMAIN Drop(d, k)) + 1
<1>1. DOMAIN Drop(d, k) = DOMAIN d \ {k} BY DEF Drop
<1>2. IsFiniteSet(DOMAIN d \ {k}) /\ Cardinality(DOMAIN d \ {k}) = Cardinality(DOMAIN d) - 1
    BY FS_RemoveElement
<1>3. Cardinality(DOMAIN d) \in Nat /\ Cardinality(DOMAIN d \ {k}) \in Nat BY <1>2, FS_CardinalityType
<1> QED BY <1>1, <1>2, <1>3

\* Its bytes more, or less.
LEMMA BytesMore ==
    ASSUME NEW d, IsFiniteSet(DOMAIN d), \A x \in DOMAIN d : d[x].bytes \in Nat,
           NEW k, k \notin DOMAIN d, NEW v, v.bytes \in Nat
    PROVE  /\ BytesOf(d) \in Nat
           /\ BytesOf(Put(d, k, v)) = BytesOf(d) + v.bytes
<1> DEFINE S == DOMAIN d
           f == [x \in S |-> d[x].bytes]
           e == [x \in DOMAIN Put(d, k, v) |-> Put(d, k, v)[x].bytes]
<1>1. DOMAIN Put(d, k, v) = S \cup {k} BY DEF Put
<1>2. (\A x \in S : f[x] \in Nat) /\ \A x \in S : e[x] = f[x] BY DEF Put
<1>3. e[k] = v.bytes /\ e[k] \in Nat BY DEF Put
<1>4. BytesOf(d) = SumFunctionOnSet(f, S) /\ BytesOf(Put(d, k, v)) = SumFunctionOnSet(e, DOMAIN Put(d, k, v))
    BY DEF BytesOf
<1> HIDE DEF f, e, S
<1>5. IsFiniteSet(S) /\ k \notin S BY DEF S
<1> DEFINE T == S \cup {k}
<1>6. IsFiniteSet(T) /\ k \in T /\ T \ {k} = S BY <1>5, FS_AddElement
<1>7. (\A x \in T : e[x] \in Nat) /\ \A x \in T \ {k} : f[x] = e[x] BY <1>2, <1>3
<1>8. DOMAIN Put(d, k, v) = T BY <1>1
<1> HIDE DEF T
<1>9. /\ SumFunctionOnSet(f, T \ {k}) \in Nat
      /\ SumFunctionOnSet(e, T) = e[k] + SumFunctionOnSet(f, T \ {k})
    BY <1>6, <1>7, SumShrinks
<1>10. /\ SumFunctionOnSet(f, S) \in Nat
       /\ SumFunctionOnSet(e, T) = e[k] + SumFunctionOnSet(f, S)
    BY <1>6, <1>9, Zenon
<1> QED BY <1>3, <1>4, <1>8, <1>10

LEMMA BytesIsNat ==
    ASSUME NEW d, IsFiniteSet(DOMAIN d), \A x \in DOMAIN d : d[x].bytes \in Nat
    PROVE  BytesOf(d) \in Nat
<1> DEFINE f == [x \in DOMAIN d |-> d[x].bytes]
<1>1. \A x \in DOMAIN d : f[x] \in Nat OBVIOUS
<1>2. BytesOf(d) = SumFunctionOnSet(f, DOMAIN d) BY DEF BytesOf
<1> HIDE DEF f
<1> QED BY <1>1, <1>2, SumIsNat

LEMMA BytesLess ==
    ASSUME NEW d, IsFiniteSet(DOMAIN d), \A x \in DOMAIN d : d[x].bytes \in Nat, NEW k \in DOMAIN d
    PROVE  /\ BytesOf(Drop(d, k)) \in Nat
           /\ BytesOf(d) = d[k].bytes + BytesOf(Drop(d, k))
<1> DEFINE S == DOMAIN d
           f == [x \in S |-> d[x].bytes]
           e == [x \in DOMAIN Drop(d, k) |-> Drop(d, k)[x].bytes]
<1>1. DOMAIN Drop(d, k) = S \ {k} BY DEF Drop
<1>2. (\A x \in S : f[x] \in Nat) /\ \A x \in S \ {k} : e[x] = f[x] BY DEF Drop
<1>3. f[k] = d[k].bytes OBVIOUS
<1>4. BytesOf(d) = SumFunctionOnSet(f, S) /\ BytesOf(Drop(d, k)) = SumFunctionOnSet(e, S \ {k})
    BY <1>1 DEF BytesOf
<1> HIDE DEF f, e, S
<1>5. IsFiniteSet(S) /\ k \in S BY DEF S
<1>6. /\ SumFunctionOnSet(e, S \ {k}) \in Nat
      /\ SumFunctionOnSet(f, S) = f[k] + SumFunctionOnSet(e, S \ {k})
    BY <1>2, <1>5, SumShrinks
<1> QED BY <1>3, <1>4, <1>6

\* Its slots under the latest reports more, or less.
LEMMA SlotsMore ==
    ASSUME NEW d, IsFiniteSet(DOMAIN d), \A x \in DOMAIN d : d[x].latestSlots \in Nat,
           NEW k, k \notin DOMAIN d, NEW v, v.latestSlots \in Nat
    PROVE  /\ LatestSlotsOf(d) \in Nat
           /\ LatestSlotsOf(Put(d, k, v)) = LatestSlotsOf(d) + v.latestSlots
<1> DEFINE S == DOMAIN d
           f == [x \in S |-> d[x].latestSlots]
           e == [x \in DOMAIN Put(d, k, v) |-> Put(d, k, v)[x].latestSlots]
<1>1. DOMAIN Put(d, k, v) = S \cup {k} BY DEF Put
<1>2. (\A x \in S : f[x] \in Nat) /\ \A x \in S : e[x] = f[x] BY DEF Put
<1>3. e[k] = v.latestSlots /\ e[k] \in Nat BY DEF Put
<1>4. /\ LatestSlotsOf(d) = SumFunctionOnSet(f, S)
      /\ LatestSlotsOf(Put(d, k, v)) = SumFunctionOnSet(e, DOMAIN Put(d, k, v))
    BY DEF LatestSlotsOf
<1> HIDE DEF f, e, S
<1>5. IsFiniteSet(S) /\ k \notin S BY DEF S
<1> DEFINE T == S \cup {k}
<1>6. IsFiniteSet(T) /\ k \in T /\ T \ {k} = S BY <1>5, FS_AddElement
<1>7. (\A x \in T : e[x] \in Nat) /\ \A x \in T \ {k} : f[x] = e[x] BY <1>2, <1>3
<1>8. DOMAIN Put(d, k, v) = T BY <1>1
<1> HIDE DEF T
<1>9. /\ SumFunctionOnSet(f, T \ {k}) \in Nat
      /\ SumFunctionOnSet(e, T) = e[k] + SumFunctionOnSet(f, T \ {k})
    BY <1>6, <1>7, SumShrinks
<1>10. /\ SumFunctionOnSet(f, S) \in Nat
       /\ SumFunctionOnSet(e, T) = e[k] + SumFunctionOnSet(f, S)
    BY <1>6, <1>9, Zenon
<1> QED BY <1>3, <1>4, <1>8, <1>10

LEMMA SlotsLess ==
    ASSUME NEW d, IsFiniteSet(DOMAIN d), \A x \in DOMAIN d : d[x].latestSlots \in Nat, NEW k \in DOMAIN d
    PROVE  /\ LatestSlotsOf(Drop(d, k)) \in Nat
           /\ LatestSlotsOf(d) = d[k].latestSlots + LatestSlotsOf(Drop(d, k))
<1> DEFINE S == DOMAIN d
           f == [x \in S |-> d[x].latestSlots]
           e == [x \in DOMAIN Drop(d, k) |-> Drop(d, k)[x].latestSlots]
<1>1. DOMAIN Drop(d, k) = S \ {k} BY DEF Drop
<1>2. (\A x \in S : f[x] \in Nat) /\ \A x \in S \ {k} : e[x] = f[x] BY DEF Drop
<1>3. f[k] = d[k].latestSlots OBVIOUS
<1>4. /\ LatestSlotsOf(d) = SumFunctionOnSet(f, S)
      /\ LatestSlotsOf(Drop(d, k)) = SumFunctionOnSet(e, S \ {k})
    BY <1>1 DEF LatestSlotsOf
<1> HIDE DEF f, e, S
<1>5. IsFiniteSet(S) /\ k \in S BY DEF S
<1>6. /\ SumFunctionOnSet(e, S \ {k}) \in Nat
      /\ SumFunctionOnSet(f, S) = f[k] + SumFunctionOnSet(e, S \ {k})
    BY <1>2, <1>5, SumShrinks
<1> QED BY <1>3, <1>4, <1>6

-----------------------------------------------------------------------------
(* Reserving, releasing and publishing. *)

\* What the limits and counters are.
LEMMA CountersAreNat ==
    ASSUME WorkspaceInv
    PROVE  /\ MaxLatest \in Nat /\ MaxOperations \in Nat /\ MaxPending \in Nat
           /\ MaxReport \in Nat /\ MaxTotal \in Nat
           /\ \A k \in DOMAIN operations : operations[k] \in Accepted /\ operations[k].bytes \in Nat
           /\ \A k \in DOMAIN holding :
                k \in WKeys /\ holding[k] \in Reservations /\ holding[k].bytes \in Nat
                /\ holding[k].latestSlots \in Nat
<1>1. \A k \in DOMAIN operations : operations[k] \in Accepted
    BY DEF WorkspaceInv, StoreInv, StoreTypes, IsDict
<1>2. \A k \in DOMAIN holding : k \in WKeys /\ holding[k] \in Reservations
    BY DEF WorkspaceInv, StoreInv, StoreTypes, IsDict
<1> QED BY <1>1, <1>2, WorkspaceAssumption DEF Accepted, Reservations

\* A reservation within the capacity that is left keeps the store coherent.
LEMMA ReservedStore ==
    ASSUME WorkspaceInv, NEW w \in Workers, calls[w].pc = "decide",
           calls[w].key \notin DOMAIN operations, calls[w].key \notin DOMAIN holding,
           CapacityLeft(calls[w].poc, ReportBytes[calls[w].authority]),
           ReserveSlots(w), UNCHANGED <<operations, latest, acceptedBytes>>
    PROVE  /\ StoreInv'
           /\ DOMAIN holding' = DOMAIN holding \cup {calls[w].key}
           /\ \A k \in DOMAIN holding : holding'[k] = holding[k]
           /\ holding'[calls[w].key].owner = w /\ holding'[calls[w].key].poc = calls[w].poc
<1> DEFINE c == calls[w]
           k == c.key
           r == [owner |-> w, poc |-> c.poc, binding |-> c.binding,
                 bytes |-> ReportBytes[c.authority], latestSlots |-> LatestSlots(c.poc)]
<1>1. c \in WorkCalls BY InCall
<1>2. r \in Reservations /\ r.bytes \in 1..MaxReport /\ k \in WKeys
    <2>1. ReportBytes[c.authority] \in Nat \ {0} /\ ReportBytes[c.authority] <= MaxReport
        BY <1>1, WorkspaceAssumption DEF WorkCalls, CapacityLeft
    <2>2. ReportBytes[c.authority] \in 1..MaxReport BY <2>1, CountersAreNat
    <2> QED BY <1>1, <2>1, <2>2 DEF WorkCalls, Reservations, LatestSlots
<1>3. /\ holding' = Put(holding, k, r) /\ reservedSlots' = reservedSlots + 1
      /\ reservedLatest' = reservedLatest + r.latestSlots /\ reservedBytes' = reservedBytes + r.bytes
    BY DEF ReserveSlots
<1>4. r.owner = w /\ r.poc = c.poc /\ r.latestSlots = LatestSlots(c.poc) /\ r.bytes = ReportBytes[c.authority]
      /\ r.bytes \in Nat /\ r.latestSlots \in Nat
    BY <1>2 DEF Reservations
<1> HIDE DEF r
<1>5. /\ DOMAIN holding' = DOMAIN holding \cup {k} /\ holding'[k] = r
      /\ \A j \in DOMAIN holding : holding'[j] = holding[j]
    BY <1>3 DEF Put
<1>6. IsFiniteSet(DOMAIN holding) BY DEF WorkspaceInv, StoreInv, StoreTypes
<1>7. IsFiniteSet(DOMAIN holding') /\ Cardinality(DOMAIN holding) \in Nat
      /\ Cardinality(DOMAIN holding') = Cardinality(DOMAIN holding) + 1
    BY <1>3, <1>6, OneKeyMore
<1>8. BytesOf(holding) \in Nat /\ BytesOf(holding') = BytesOf(holding) + r.bytes
    BY <1>3, <1>4, <1>6, BytesMore, CountersAreNat
<1>9. LatestSlotsOf(holding) \in Nat /\ LatestSlotsOf(holding') = LatestSlotsOf(holding) + r.latestSlots
    BY <1>3, <1>4, <1>6, SlotsMore, CountersAreNat
<1>10. StoreTypes'
    <2>1. IsDict(holding', WKeys, Reservations)
        BY <1>2, <1>3, PutType DEF WorkspaceInv, StoreInv, StoreTypes
    <2> QED BY <1>7, <2>1 DEF WorkspaceInv, StoreInv, StoreTypes
<1>11. \A j \in DOMAIN holding' :
         /\ holding'[j].bytes \in 1..MaxReport
         /\ j \notin DOMAIN operations'
         /\ holding'[j].latestSlots = IF holding'[j].poc \in DOMAIN latest' THEN 0 ELSE 1
    BY <1>2, <1>4, <1>5 DEF WorkspaceInv, StoreInv, StoreCoherent, LatestSlots
<1>12. /\ reservedSlots' = Cardinality(DOMAIN holding')
       /\ reservedLatest' = LatestSlotsOf(holding')
       /\ reservedBytes' = BytesOf(holding')
    BY <1>3, <1>7, <1>8, <1>9 DEF WorkspaceInv, StoreInv, StoreCoherent
<1>13. /\ Cardinality(DOMAIN operations) \in Nat /\ Cardinality(DOMAIN latest) \in Nat
       /\ BytesOf(operations) \in Nat
    <2>1. IsFiniteSet(DOMAIN operations) /\ IsFiniteSet(DOMAIN latest)
        BY DEF WorkspaceInv, StoreInv, StoreTypes
    <2> QED BY <2>1, FS_CardinalityType, BytesIsNat, CountersAreNat
<1>14. /\ Cardinality(DOMAIN holding') <= MaxPending
       /\ Cardinality(DOMAIN operations) + reservedSlots' <= MaxOperations
       /\ Cardinality(DOMAIN latest) + reservedLatest' <= MaxLatest
       /\ acceptedBytes + reservedBytes' <= MaxTotal
    BY <1>3, <1>4, <1>7, <1>8, <1>9, <1>13, CountersAreNat
    DEF WorkspaceInv, StoreInv, StoreCoherent, CapacityLeft
<1>15. StoreCoherent' BY <1>11, <1>12, <1>14 DEF WorkspaceInv, StoreInv, StoreCoherent, BytesOf
<1> QED BY <1>4, <1>5, <1>10, <1>15 DEF StoreInv

\* The reservation of a worker, the only one for its POC.
LEMMA ItsReservation ==
    ASSUME WorkspaceInv, NEW w \in Workers, calls[w].pc \in {"evaluate", "publish"}
    PROVE  LET k == calls[w].key IN
           /\ k \in DOMAIN holding /\ holding[k].owner = w /\ holding[k].poc = calls[w].poc
           /\ \A j \in DOMAIN holding : j # k => holding[j].owner # w /\ holding[j].poc # calls[w].poc
<1> DEFINE k == calls[w].key
<1>1. k \in DOMAIN holding /\ holding[k].owner = w BY DEF WorkspaceInv, Fits
<1>2. holding[k].poc = calls[w].poc BY <1>1 DEF WorkspaceInv, IsOwned
<1>3. stripes[StripeOf[calls[w].poc]] = w BY DEF WorkspaceInv, Fits
<1>4. ASSUME NEW j \in DOMAIN holding, j # k PROVE holding[j].owner # w /\ holding[j].poc # calls[w].poc
    <2> DEFINE v == holding[j].owner
    <2>1. v \in Workers BY CountersAreNat DEF Reservations
    <2>2. calls[v].pc \in {"evaluate", "publish"} /\ calls[v].key = j /\ calls[v].poc = holding[j].poc
        BY DEF WorkspaceInv, IsOwned
    <2>3. stripes[StripeOf[holding[j].poc]] = v BY <2>1, <2>2 DEF WorkspaceInv, Fits
    <2> HIDE DEF v
    <2>4. v # w BY <1>4, <2>2
    <2> QED BY <1>3, <2>3, <2>4 DEF v
<1> QED BY <1>1, <1>2, <1>4

\* What is left of the reservations when a worker releases its own.
LEMMA ReleasedHolding ==
    ASSUME WorkspaceInv, NEW w \in Workers, calls[w].pc \in {"evaluate", "publish"},
           ReleaseReservation(w)
    PROVE  LET k == calls[w].key IN
           /\ IsDict(holding', WKeys, Reservations) /\ IsFiniteSet(DOMAIN holding')
           /\ DOMAIN holding' = DOMAIN holding \ {k}
           /\ \A j \in DOMAIN holding' : holding'[j] = holding[j]
           /\ Cardinality(DOMAIN holding') \in Nat
           /\ Cardinality(DOMAIN holding) = Cardinality(DOMAIN holding') + 1
           /\ reservedSlots' = Cardinality(DOMAIN holding')
           /\ reservedLatest' = LatestSlotsOf(holding') /\ reservedBytes' = BytesOf(holding')
           /\ reservedLatest' \in Nat /\ reservedBytes' \in Nat
           /\ reservedLatest = reservedLatest' + holding[k].latestSlots
           /\ reservedBytes = reservedBytes' + holding[k].bytes
<1> DEFINE k == calls[w].key
<1>1. k \in DOMAIN holding BY ItsReservation
<1>2. holding[k].bytes \in Nat /\ holding[k].latestSlots \in Nat BY <1>1, CountersAreNat
<1>3. /\ holding' = Drop(holding, k) /\ reservedSlots' = reservedSlots - 1
      /\ reservedLatest' = reservedLatest - holding[k].latestSlots
      /\ reservedBytes' = reservedBytes - holding[k].bytes
    BY DEF ReleaseReservation
<1> HIDE DEF k
<1>4. IsDict(holding, WKeys, Reservations) /\ IsFiniteSet(DOMAIN holding)
    BY DEF WorkspaceInv, StoreInv, StoreTypes
<1>5. IsDict(holding', WKeys, Reservations) BY <1>3, <1>4, DropType
<1>6. /\ IsFiniteSet(DOMAIN holding')
      /\ DOMAIN holding' = DOMAIN holding \ {k}
      /\ Cardinality(DOMAIN holding') \in Nat
      /\ Cardinality(DOMAIN holding) = Cardinality(DOMAIN holding') + 1
    BY <1>1, <1>3, <1>4, OneKeyLess
<1>7. \A j \in DOMAIN holding' : holding'[j] = holding[j] BY <1>3 DEF Drop
<1>8. BytesOf(holding') \in Nat /\ BytesOf(holding) = holding[k].bytes + BytesOf(holding')
    BY <1>1, <1>3, <1>4, BytesLess, CountersAreNat
<1>9. /\ LatestSlotsOf(holding') \in Nat
      /\ LatestSlotsOf(holding) = holding[k].latestSlots + LatestSlotsOf(holding')
    BY <1>1, <1>3, <1>4, SlotsLess, CountersAreNat
<1>10. /\ reservedSlots = Cardinality(DOMAIN holding) /\ reservedLatest = LatestSlotsOf(holding)
       /\ reservedBytes = BytesOf(holding)
    BY DEF WorkspaceInv, StoreInv, StoreCoherent
<1>11. /\ reservedSlots' = Cardinality(DOMAIN holding')
       /\ reservedLatest' = LatestSlotsOf(holding') /\ reservedBytes' = BytesOf(holding')
    BY <1>2, <1>3, <1>6, <1>8, <1>9, <1>10
<1> QED BY <1>2, <1>5, <1>6, <1>7, <1>8, <1>9, <1>10, <1>11 DEF k

\* What the store holds without its reservations.
LEMMA StoreSizes ==
    ASSUME WorkspaceInv
    PROVE  /\ IsFiniteSet(DOMAIN operations) /\ IsFiniteSet(DOMAIN latest)
           /\ Cardinality(DOMAIN operations) \in Nat /\ Cardinality(DOMAIN latest) \in Nat
           /\ acceptedBytes = BytesOf(operations) /\ acceptedBytes \in Nat
<1>1. IsFiniteSet(DOMAIN operations) /\ IsFiniteSet(DOMAIN latest)
    BY DEF WorkspaceInv, StoreInv, StoreTypes
<1>2. acceptedBytes = BytesOf(operations) BY DEF WorkspaceInv, StoreInv, StoreCoherent
<1> QED BY <1>1, <1>2, FS_CardinalityType, BytesIsNat, CountersAreNat

\* A reservation that is released leaves the store coherent.
LEMMA ReleasedStore ==
    ASSUME WorkspaceInv, NEW w \in Workers, calls[w].pc \in {"evaluate", "publish"},
           ReleaseReservation(w), UNCHANGED <<operations, latest, acceptedBytes>>
    PROVE  StoreInv'
<1> DEFINE k == calls[w].key
<1>1. /\ IsDict(holding', WKeys, Reservations) /\ IsFiniteSet(DOMAIN holding')
      /\ DOMAIN holding' = DOMAIN holding \ {k}
      /\ \A j \in DOMAIN holding' : holding'[j] = holding[j]
      /\ Cardinality(DOMAIN holding') \in Nat
      /\ Cardinality(DOMAIN holding) = Cardinality(DOMAIN holding') + 1
      /\ reservedSlots' = Cardinality(DOMAIN holding')
      /\ reservedLatest' = LatestSlotsOf(holding') /\ reservedBytes' = BytesOf(holding')
      /\ reservedLatest' \in Nat /\ reservedBytes' \in Nat
      /\ reservedLatest = reservedLatest' + holding[k].latestSlots
      /\ reservedBytes = reservedBytes' + holding[k].bytes
    BY ReleasedHolding
<1>2. holding[k].bytes \in Nat /\ holding[k].latestSlots \in Nat BY ItsReservation, CountersAreNat
<1> HIDE DEF k
<1>3. StoreTypes' BY <1>1 DEF WorkspaceInv, StoreInv, StoreTypes
<1>4. \A j \in DOMAIN holding' :
        /\ holding'[j].bytes \in 1..MaxReport
        /\ j \notin DOMAIN operations'
        /\ holding'[j].latestSlots = IF holding'[j].poc \in DOMAIN latest' THEN 0 ELSE 1
    BY <1>1 DEF WorkspaceInv, StoreInv, StoreCoherent
<1>5. /\ Cardinality(DOMAIN holding') <= MaxPending
      /\ Cardinality(DOMAIN operations) + reservedSlots' <= MaxOperations
      /\ Cardinality(DOMAIN latest) + reservedLatest' <= MaxLatest
      /\ acceptedBytes + reservedBytes' <= MaxTotal
    BY <1>1, <1>2, StoreSizes, CountersAreNat DEF WorkspaceInv, StoreInv, StoreCoherent
<1>6. StoreCoherent' BY <1>1, <1>4, <1>5 DEF WorkspaceInv, StoreInv, StoreCoherent, BytesOf
<1> QED BY <1>3, <1>6 DEF StoreInv

\* What publication writes.
Publishes(w) ==
    LET c == calls[w] IN
    /\ operations' = Put(operations, c.key,
                         [poc |-> c.poc, binding |-> c.binding, bytes |-> holding[c.key].bytes])
    /\ latest' = Put(latest, c.poc, c.key)
    /\ acceptedBytes' = acceptedBytes + holding[c.key].bytes
    /\ ReleaseReservation(w)

\* Publication moves what was reserved to what is accepted.
LEMMA PublishedStore ==
    ASSUME WorkspaceInv, NEW w \in Workers, calls[w].pc = "publish", Publishes(w)
    PROVE  /\ StoreInv' /\ AcceptedStay
           /\ calls[w].key \in DOMAIN operations'
           /\ operations'[calls[w].key].binding = calls[w].binding
<1> DEFINE c == calls[w]
           k == c.key
           b == holding[k].bytes
           n == holding[k].latestSlots
           o == [poc |-> c.poc, binding |-> c.binding, bytes |-> b]
<1>0. /\ operations' = Put(operations, k, o) /\ latest' = Put(latest, c.poc, k)
      /\ acceptedBytes' = acceptedBytes + b /\ ReleaseReservation(w)
    BY DEF Publishes
<1>1. /\ IsDict(holding', WKeys, Reservations) /\ IsFiniteSet(DOMAIN holding')
      /\ DOMAIN holding' = DOMAIN holding \ {k}
      /\ \A j \in DOMAIN holding' : holding'[j] = holding[j]
      /\ Cardinality(DOMAIN holding') \in Nat
      /\ Cardinality(DOMAIN holding) = Cardinality(DOMAIN holding') + 1
      /\ reservedSlots' = Cardinality(DOMAIN holding')
      /\ reservedLatest' = LatestSlotsOf(holding') /\ reservedBytes' = BytesOf(holding')
      /\ reservedLatest' \in Nat /\ reservedBytes' \in Nat
      /\ reservedLatest = reservedLatest' + n
      /\ reservedBytes = reservedBytes' + b
    BY <1>0, ReleasedHolding
<1>2. /\ k \in DOMAIN holding /\ holding[k].poc = c.poc
      /\ \A j \in DOMAIN holding : j # k => holding[j].poc # c.poc
    BY ItsReservation
<1>3. c \in WorkCalls /\ k \in WKeys /\ c.poc \in WPocs /\ c.binding \in BoundTo BY InCall DEF WorkCalls
<1>4. /\ b \in 1..MaxReport /\ k \notin DOMAIN operations
      /\ n = IF c.poc \in DOMAIN latest THEN 0 ELSE 1
    BY <1>2 DEF WorkspaceInv, StoreInv, StoreCoherent
<1>5. b \in Nat /\ n \in Nat BY <1>2, CountersAreNat
<1>6. o \in Accepted /\ o.poc = c.poc /\ o.binding = c.binding /\ o.bytes = b
    BY <1>3, <1>5 DEF Accepted
<1> HIDE DEF o, b, n, k, c
<1>7. /\ IsFiniteSet(DOMAIN operations) /\ IsFiniteSet(DOMAIN latest)
      /\ Cardinality(DOMAIN operations) \in Nat /\ Cardinality(DOMAIN latest) \in Nat
      /\ acceptedBytes = BytesOf(operations) /\ acceptedBytes \in Nat
    BY StoreSizes
<1>8. /\ DOMAIN operations' = DOMAIN operations \cup {k} /\ operations'[k] = o
      /\ \A j \in DOMAIN operations : operations'[j] = operations[j]
    BY <1>0, <1>4 DEF Put
<1>9. /\ IsFiniteSet(DOMAIN operations')
      /\ Cardinality(DOMAIN operations') = Cardinality(DOMAIN operations) + 1
    BY <1>0, <1>4, <1>7, OneKeyMore
<1>10. acceptedBytes' = BytesOf(operations')
    <2>1. BytesOf(operations') = BytesOf(operations) + o.bytes
        BY <1>0, <1>4, <1>5, <1>6, <1>7, BytesMore, CountersAreNat
    <2> QED BY <1>0, <1>6, <1>7, <2>1
<1>11. /\ DOMAIN latest' = DOMAIN latest \cup {c.poc} /\ latest'[c.poc] = k
       /\ \A p \in DOMAIN latest : p # c.poc => latest'[p] = latest[p]
    BY <1>0 DEF Put
<1>12. IsFiniteSet(DOMAIN latest') /\ Cardinality(DOMAIN latest') = Cardinality(DOMAIN latest) + n
    <2>1. CASE c.poc \in DOMAIN latest
        <3>1. DOMAIN latest' = DOMAIN latest BY <1>11, <2>1
        <3> QED BY <1>4, <1>7, <2>1, <3>1
    <2>2. CASE c.poc \notin DOMAIN latest
        <3>1. IsFiniteSet(DOMAIN latest') /\ Cardinality(DOMAIN latest') = Cardinality(DOMAIN latest) + 1
            BY <1>0, <1>7, <2>2, OneKeyMore
        <3> QED BY <1>4, <2>2, <3>1
    <2> QED BY <2>1, <2>2
<1>13. StoreTypes'
    <2>1. IsDict(operations', WKeys, Accepted)
        BY <1>0, <1>3, <1>6, PutType DEF WorkspaceInv, StoreInv, StoreTypes, c, k
    <2>2. IsDict(latest', WPocs, WKeys)
        BY <1>0, <1>3, PutType DEF WorkspaceInv, StoreInv, StoreTypes
    <2> QED BY <1>1, <1>9, <1>12, <2>1, <2>2 DEF StoreTypes
<1>14. ASSUME NEW p \in DOMAIN latest'
       PROVE  latest'[p] \in DOMAIN operations' /\ operations'[latest'[p]].poc = p
    <2>1. CASE p = c.poc BY <1>6, <1>8, <1>11, <2>1
    <2>2. CASE p # c.poc
        <3>1. latest[p] \in DOMAIN operations /\ operations[latest[p]].poc = p /\ latest'[p] = latest[p]
            BY <1>11, <2>2 DEF WorkspaceInv, StoreInv, StoreCoherent
        <3> QED BY <1>8, <3>1
    <2> QED BY <2>1, <2>2
<1>15. ASSUME NEW j \in DOMAIN holding'
       PROVE  /\ holding'[j].bytes \in 1..MaxReport
              /\ j \notin DOMAIN operations'
              /\ holding'[j].latestSlots = IF holding'[j].poc \in DOMAIN latest' THEN 0 ELSE 1
    <2>1. j \in DOMAIN holding /\ j # k /\ holding'[j] = holding[j] /\ holding[j].poc # c.poc
        BY <1>1, <1>2
    <2>2. /\ holding[j].bytes \in 1..MaxReport
          /\ j \notin DOMAIN operations
          /\ holding[j].latestSlots = IF holding[j].poc \in DOMAIN latest THEN 0 ELSE 1
        BY <2>1 DEF WorkspaceInv, StoreInv, StoreCoherent
    <2> QED BY <1>8, <1>11, <2>1, <2>2
<1>16. \A j \in DOMAIN operations' : operations'[j].bytes <= MaxReport
    BY <1>4, <1>6, <1>8, CountersAreNat DEF WorkspaceInv, StoreInv, StoreCoherent
<1>17. /\ Cardinality(DOMAIN operations) + reservedSlots <= MaxOperations
       /\ Cardinality(DOMAIN latest) + reservedLatest <= MaxLatest
       /\ Cardinality(DOMAIN holding) <= MaxPending
       /\ acceptedBytes + reservedBytes <= MaxTotal
       /\ reservedSlots = Cardinality(DOMAIN holding)
    BY DEF WorkspaceInv, StoreInv, StoreCoherent
<1>18. /\ Cardinality(DOMAIN latest') <= MaxLatest /\ Cardinality(DOMAIN operations') <= MaxOperations
       /\ Cardinality(DOMAIN holding') <= MaxPending
       /\ Cardinality(DOMAIN operations') + reservedSlots' <= MaxOperations
       /\ Cardinality(DOMAIN latest') + reservedLatest' <= MaxLatest
       /\ acceptedBytes' + reservedBytes' <= MaxTotal
    BY <1>0, <1>1, <1>5, <1>7, <1>9, <1>12, <1>17, CountersAreNat
<1>19. StoreCoherent' BY <1>1, <1>10, <1>14, <1>15, <1>16, <1>18 DEF StoreCoherent, BytesOf
<1> QED BY <1>6, <1>8, <1>13, <1>19 DEF StoreInv, AcceptedStay, c, k

\* The lookup of a create: a refusal, a replay or a reservation.
LEMMA CreateDecideStep == ASSUME WorkspaceInv, NEW w \in Workers, CreateDecide(w) PROVE WorkspaceInv'
<1> DEFINE c == calls[w]
<1>1. c.pc = "decide" /\ UNCHANGED <<openDrafts, authority, draftSteps>> BY DEF CreateDecide
<1>2. c \in WorkCalls BY <1>1, InCall
<1>3. w \notin {holding[k].owner : k \in DOMAIN holding} BY <1>1, HoldsNothing
<1>4. stripes[StripeOf[c.poc]] = w /\ authority' \in Authorities
    BY <1>1 DEF WorkspaceInv, Fits, WorkTypes
<1>5. ASSUME NEW kind, Refused(w, kind), UNCHANGED store PROVE WorkspaceInv'
    <2>1. ReturnCall(w, kind, {}) BY <1>5 DEF Refused
    <2> QED BY <1>1, <1>3, <1>5, <2>1, RefusalIsCurrent, ReturnStep
<1>6. ASSUME c.key \in DOMAIN operations, operations[c.key].binding = c.binding,
             calls' = [calls EXCEPT ![w].pc = "replay"], answer' = <<>>, UNCHANGED <<store, stripes>>
      PROVE  WorkspaceInv'
    <2> DEFINE d == [c EXCEPT !.pc = "replay"]
    <2>1. d \in WorkCalls /\ d.pc = "replay" /\ d.poc = c.poc /\ d.key = c.key /\ d.binding = c.binding
        BY <1>2 DEF WorkCalls
    <2>2. calls' = [calls EXCEPT ![w] = d] /\ calls'[w] = d BY <1>6 DEF WorkspaceInv, WorkTypes
    <2> HIDE DEF d
    <2>3. StoreInv' /\ AcceptedStay /\ OthersHold(w) BY <1>6, StoreStays
    <2>4. Fits(w)' BY <1>4, <1>6, <2>1, <2>2 DEF Fits, store
    <2>5. \A j \in DOMAIN holding' : holding'[j].owner = w => IsOwned(j)' BY <1>3, <1>6 DEF store
    <2>6. /\ stripes' \in [Stripes -> Workers \cup {"free"}]
          /\ \A s \in Stripes : stripes[s] \in Workers \ {w} => stripes'[s] = stripes[s]
        BY <1>6 DEF WorkspaceInv, WorkTypes
    <2>7. ReportIsCurrent' BY <1>6, SilenceIsCurrent
    <2> QED BY <1>4, <2>1, <2>2, <2>3, <2>4, <2>5, <2>6, <2>7, OneWorkerMoves
<1>7. ASSUME c.key \notin DOMAIN operations, c.key \notin DOMAIN holding,
             CapacityLeft(c.poc, ReportBytes[c.authority]), ReserveSlots(w),
             calls' = [calls EXCEPT ![w].pc = "evaluate"], answer' = <<>>,
             UNCHANGED <<operations, latest, acceptedBytes, stripes>>
      PROVE  WorkspaceInv'
    <2> DEFINE d == [c EXCEPT !.pc = "evaluate"]
    <2>1. d \in WorkCalls /\ d.pc = "evaluate" /\ d.poc = c.poc /\ d.key = c.key
        BY <1>2 DEF WorkCalls
    <2>2. calls' = [calls EXCEPT ![w] = d] /\ calls'[w] = d BY <1>7 DEF WorkspaceInv, WorkTypes
    <2>3. /\ StoreInv'
          /\ DOMAIN holding' = DOMAIN holding \cup {c.key}
          /\ \A k \in DOMAIN holding : holding'[k] = holding[k]
          /\ holding'[c.key].owner = w /\ holding'[c.key].poc = c.poc
        BY <1>1, <1>7, ReservedStore
    <2> HIDE DEF d
    <2>4. Fits(w)' BY <1>4, <1>7, <2>1, <2>2, <2>3 DEF Fits
    <2>5. ASSUME NEW j \in DOMAIN holding', holding'[j].owner = w PROVE IsOwned(j)'
        <3>1. j = c.key BY <1>3, <2>3, <2>5
        <3> QED BY <2>1, <2>2, <2>3, <3>1 DEF IsOwned
    <2>6. /\ stripes' \in [Stripes -> Workers \cup {"free"}]
          /\ \A s \in Stripes : stripes[s] \in Workers \ {w} => stripes'[s] = stripes[s]
        BY <1>7 DEF WorkspaceInv, WorkTypes
    <2>7. AcceptedStay BY <1>7 DEF AcceptedStay
    <2>8. OthersHold(w) BY <2>3 DEF OthersHold
    <2>9. ReportIsCurrent' BY <1>7, SilenceIsCurrent
    <2> QED BY <1>4, <2>1, <2>2, <2>3, <2>4, <2>5, <2>6, <2>7, <2>8, <2>9, OneWorkerMoves
<1> QED BY <1>5, <1>6, <1>7 DEF CreateDecide

\* A call that returns and releases its reservation.
LEMMA ReleaseStep ==
    ASSUME WorkspaceInv, NEW w \in Workers, calls[w].pc \in {"evaluate", "publish"},
           NEW kind, NEW op, ReturnCall(w, kind, op), ReleaseReservation(w),
           StoreInv', AcceptedStay, authority' = authority, ReportIsCurrent'
    PROVE  WorkspaceInv'
<1>1. /\ calls' = [calls EXCEPT ![w] = NoCall]
      /\ stripes' \in [Stripes -> Workers \cup {"free"}]
      /\ \A s \in Stripes : stripes[s] \in Workers \ {w} => stripes'[s] = stripes[s]
      /\ Fits(w)'
    BY ReturnLeaves
<1>2. /\ DOMAIN holding' = DOMAIN holding \ {calls[w].key}
      /\ \A j \in DOMAIN holding' : holding'[j] = holding[j]
    BY ReleasedHolding
<1>3. /\ holding[calls[w].key].owner = w
      /\ \A j \in DOMAIN holding : j # calls[w].key => holding[j].owner # w
    BY ItsReservation
<1>4. OthersHold(w) BY <1>2, <1>3 DEF OthersHold
<1>5. \A j \in DOMAIN holding' : holding'[j].owner = w => IsOwned(j)' BY <1>2, <1>3
<1>6. authority' \in Authorities BY DEF WorkspaceInv, WorkTypes
<1> QED BY <1>1, <1>4, <1>5, <1>6, OneWorkerMoves

\* A call that fails gives back what it had reserved.
LEMMA CleanupStep ==
    ASSUME WorkspaceInv, NEW w \in Workers, calls[w].pc \in {"evaluate", "publish"},
           Refused(w, "unavailable"), Cleanup(w), UNCHANGED <<openDrafts, authority, draftSteps>>
    PROVE  WorkspaceInv'
<1>1. StoreCoherent BY DEF WorkspaceInv, StoreInv
<1>2. ReleaseReservation(w) /\ UNCHANGED <<operations, latest, acceptedBytes>> BY <1>1 DEF Cleanup
<1>3. StoreInv' BY <1>2, ReleasedStore
<1>4. AcceptedStay BY <1>2 DEF AcceptedStay
<1>5. ReturnCall(w, "unavailable", {}) BY DEF Refused
<1>6. ReportIsCurrent' BY RefusalIsCurrent
<1> QED BY <1>2, <1>3, <1>4, <1>5, <1>6, ReleaseStep

\* The evaluation, with the stripe held.
LEMMA CreateEvaluateStep ==
    ASSUME WorkspaceInv, NEW w \in Workers, NEW verified \in BOOLEAN, CreateEvaluate(w, verified)
    PROVE  WorkspaceInv'
<1> DEFINE c == calls[w]
           d == [c EXCEPT !.pc = "publish"]
<1>1. c.pc = "evaluate" /\ UNCHANGED <<openDrafts, authority, draftSteps>> BY DEF CreateEvaluate
<1>2. CASE ~verified BY <1>1, <1>2, CleanupStep DEF CreateEvaluate
<1>3. CASE verified
    <2>1. /\ calls' = [calls EXCEPT ![w].pc = "publish"] /\ answer' = <<>>
          /\ UNCHANGED <<store, stripes>>
        BY <1>3 DEF CreateEvaluate
    <2>2. c \in WorkCalls BY <1>1, InCall
    <2>3. d \in WorkCalls /\ d.pc = "publish" /\ d.poc = c.poc /\ d.key = c.key BY <2>2 DEF WorkCalls
    <2>4. calls' = [calls EXCEPT ![w] = d] /\ calls'[w] = d BY <2>1 DEF WorkspaceInv, WorkTypes
    <2> HIDE DEF d
    <2>5. StoreInv' /\ AcceptedStay /\ OthersHold(w) BY <2>1, StoreStays
    <2>6. Fits(w) BY DEF WorkspaceInv
    <2>7. Fits(w)' BY <1>1, <2>1, <2>3, <2>4, <2>6 DEF Fits, store
    <2>8. ASSUME NEW j \in DOMAIN holding', holding'[j].owner = w PROVE IsOwned(j)'
        <3>1. holding' = holding BY <2>1 DEF store
        <3>2. IsOwned(j) BY <3>1 DEF WorkspaceInv
        <3> QED BY <2>3, <2>4, <2>8, <3>1, <3>2 DEF IsOwned
    <2>9. /\ stripes' \in [Stripes -> Workers \cup {"free"}]
          /\ \A s \in Stripes : stripes[s] \in Workers \ {w} => stripes'[s] = stripes[s]
          /\ authority' \in Authorities
        BY <1>1, <2>1 DEF WorkspaceInv, WorkTypes
    <2>10. ReportIsCurrent' BY <2>1, SilenceIsCurrent
    <2> QED BY <2>3, <2>4, <2>5, <2>7, <2>8, <2>9, <2>10, OneWorkerMoves
<1> QED BY <1>2, <1>3

\* The publication, under the draft guard.
LEMMA CreatePublishStep == ASSUME WorkspaceInv, NEW w \in Workers, CreatePublish(w) PROVE WorkspaceInv'
<1> DEFINE c == calls[w]
<1>1. c.pc = "publish" /\ UNCHANGED <<openDrafts, authority, draftSteps>> BY DEF CreatePublish
<1>2. CASE ~(Guarded(w) /\ StoreCoherent) BY <1>1, <1>2, CleanupStep DEF CreatePublish
<1>3. CASE Guarded(w) /\ StoreCoherent
    <2>1. Publishes(w) /\ ReturnCall(w, "created", {c.key})
        BY <1>3 DEF CreatePublish, Publishes
    <2>2. /\ StoreInv' /\ AcceptedStay
          /\ c.key \in DOMAIN operations' /\ operations'[c.key].binding = c.binding
        BY <1>1, <2>1, PublishedStore
    <2>3. c.binding = <<c.poc, c.authority>> BY <1>1, InCall DEF WorkCalls
    <2>4. answer' = <<[kind |-> "created", call |-> c, op |-> {c.key}]>> BY <2>1 DEF ReturnCall
    <2>5. ReportIsCurrent' BY <1>1, <1>3, <2>2, <2>3, <2>4 DEF ReportIsCurrent, Guarded
    <2>6. ReleaseReservation(w) BY <2>1 DEF Publishes
    <2> QED BY <1>1, <2>1, <2>2, <2>5, <2>6, ReleaseStep
<1> QED BY <1>2, <1>3

\* An empty store, of which nothing is held.
LEMMA WorkspaceStarts == WorkspaceInit => WorkspaceInv
<1> SUFFICES ASSUME WorkspaceInit PROVE WorkspaceInv OBVIOUS
<1>1. IsFiniteSet({}) /\ Cardinality({}) = 0 BY FS_EmptySet
<1>2. DOMAIN operations = {} /\ DOMAIN latest = {} /\ DOMAIN holding = {}
    BY DEF WorkspaceInit, EmptyDict
<1>3. StoreTypes BY <1>1, <1>2, EmptyType DEF StoreTypes, WorkspaceInit
<1>4. BytesOf(operations) = 0 /\ BytesOf(holding) = 0 /\ LatestSlotsOf(holding) = 0
    BY <1>2, SumOfNone DEF BytesOf, LatestSlotsOf
<1>5. StoreCoherent BY <1>1, <1>2, <1>4, WorkspaceAssumption DEF StoreCoherent, WorkspaceInit
<1>6. calls \in [Workers -> {NoCall} \cup WorkCalls] /\ stripes \in [Stripes -> Workers \cup {"free"}]
    BY DEF WorkspaceInit
<1>7. WorkTypes BY <1>6 DEF WorkTypes, WorkspaceInit
<1>8. \A w \in Workers : Fits(w) BY DEF WorkspaceInit, Fits, NoCall
<1>9. ReportIsCurrent BY DEF WorkspaceInit, ReportIsCurrent
<1> QED BY <1>2, <1>3, <1>5, <1>7, <1>8, <1>9 DEF WorkspaceInv, StoreInv

LEMMA WorkspaceKeeps == WorkspaceInv /\ [WorkspaceNext]_workspaceVars => WorkspaceInv'
<1> SUFFICES ASSUME WorkspaceInv, [WorkspaceNext]_workspaceVars PROVE WorkspaceInv' OBVIOUS
<1>1. CASE UNCHANGED workspaceVars
    <2>1. UNCHANGED <<openDrafts, authority, store, stripes, calls, answer>> BY <1>1 DEF workspaceVars
    <2>2. StoreInv' BY <2>1, StoreStays
    <2>3. WorkTypes' BY <2>1 DEF WorkspaceInv, WorkTypes
    <2>4. (\A w \in Workers : Fits(w)') /\ (\A k \in DOMAIN holding' : IsOwned(k)') /\ ReportIsCurrent'
        BY <2>1 DEF WorkspaceInv, Fits, IsOwned, ReportIsCurrent, store
    <2> QED BY <2>2, <2>3, <2>4 DEF WorkspaceInv
<1>2. ASSUME NEW w \in Workers, NEW p \in WPocs, GetBegin(w, p, CHOOSE k \in WKeys : TRUE)
      PROVE  WorkspaceInv'
    <2>1. (CHOOSE k \in WKeys : TRUE) \in WKeys BY WorkspaceAssumption
    <2> QED BY <1>2, <2>1, GetBeginStep
<1>3. ASSUME NEW w \in Workers, WorkerStep(w) PROVE WorkspaceInv'
    BY <1>3, CreateDecideStep, CreateEvaluateStep, CreatePublishStep, CreateReplayStep, GetLatestStep
    DEF WorkerStep
<1> QED BY <1>1, <1>2, <1>3, OutsideStep, CreateBeginStep DEF WorkspaceNext

\* The bounds, counters and reservations of the store agree at every lock, and
\* the report that is returned is the one of the draft and authority of the call,
\* for any number of workers, POCs and keys and whatever the limits.
THEOREM ReportsStayCurrent == WorkspaceSpec => []ReportsHold
<1>1. WorkspaceInv => ReportsHold
    BY DEF WorkspaceInv, StoreInv, IsOwned, StoreStaysCoherent, ReportsHold
<1> QED BY <1>1, WorkspaceStarts, WorkspaceKeeps, PTL DEF WorkspaceSpec

-----------------------------------------------------------------------------
(***************************************************************************)
(* BundleReader.                                                           *)
(***************************************************************************)

\* Identities are renewed by every change: they are numbers up to that of the
\* changes so far.
IdentitiesKnown ==
    /\ changes \in Nat /\ root \in 0..changes /\ rootSeen \in 0..changes
    /\ \A p \in DOMAIN disk : disk[p].id \in 0..changes
    /\ \A p \in DOMAIN seen : seen[p] \in 0..changes

\* How far the reader has come.
ReaderPhase ==
    /\ rpc \in {"open", "scan", "read", "rescan", "accepted", "rejected"}
    /\ rpc = "open" => DOMAIN seen = {}
    /\ rpc \in {"open", "scan"} => DOMAIN cache = {}
    /\ rpc \in {"open", "scan", "read"} => DOMAIN again = {}
    /\ DOMAIN cache \subseteq DOMAIN seen
    /\ rpc = "rescan" => DOMAIN cache = DOMAIN seen

\* A file that still has the identity it was scanned with is as it was scanned,
\* read and verified.
SameIdentity(p) == p \in DOMAIN disk /\ disk[p].id = seen[p]
SameContent ==
    /\ \A p \in DOMAIN seen : SameIdentity(p) => disk[p].kind = "file"
    /\ \A p \in DOMAIN cache : SameIdentity(p) => disk[p].content = cache[p]
    /\ rpc = "rescan" => \A p \in DOMAIN seen : SameIdentity(p) =>
            p \in DOMAIN frozenDisk /\ frozenDisk[p] = disk[p]

\* A file that had it in the second scan was so when the second scan began.
ScannedAgain ==
    rpc = "rescan" => \A p \in DOMAIN again : p \in DOMAIN seen /\ again[p] = seen[p] =>
        p \in DOMAIN frozenDisk /\ frozenDisk[p].content = cache[p] /\ frozenDisk[p].kind = "file"

\* While the directory has the identity it was opened with it has the same names.
SameNames ==
    root = rootSeen =>
        /\ rpc = "scan" => DOMAIN seen \subseteq DOMAIN disk
        /\ rpc \in {"read", "rescan"} => DOMAIN disk = DOMAIN seen
        /\ rpc = "rescan" => DOMAIN frozenDisk = DOMAIN seen

ReaderInv ==
    /\ IdentitiesKnown /\ ReaderPhase /\ SameContent /\ ScannedAgain /\ SameNames
    /\ VerifiedTogether

LEMMA ReaderStarts == ReaderInit => ReaderInv
BY DEF ReaderInit, ReaderInv, IdentitiesKnown, ReaderPhase, SameContent, SameIdentity, ScannedAgain,
       SameNames, VerifiedTogether, Nothing, Node

\* A change renews the identity of its file, and that of the directory if a name
\* comes or goes.
LEMMA ChangeDiskStep == ASSUME ReaderInv, NEW p, ChangeDisk(p) PROVE ReaderInv'
<1>1. /\ rpc \notin {"accepted", "rejected"} /\ changes' = changes + 1
      /\ UNCHANGED <<rpc, rootSeen, seen, again, cache, frozenDisk>>
    BY DEF ChangeDisk
<1>2. /\ \A q \in DOMAIN disk' : q # p => q \in DOMAIN disk /\ disk'[q] = disk[q]
      /\ p \in DOMAIN disk' => disk'[p].id = changes + 1
      /\ (root' = root /\ DOMAIN disk' = DOMAIN disk) \/ root' = changes + 1
    BY DEF ChangeDisk, Node
<1>3. IdentitiesKnown' BY <1>1, <1>2 DEF ReaderInv, IdentitiesKnown
<1>4. ReaderPhase' BY <1>1 DEF ReaderInv, ReaderPhase
<1>5. ASSUME NEW q \in DOMAIN seen, SameIdentity(q)' PROVE SameIdentity(q) /\ disk'[q] = disk[q]
    <2>1. seen[q] # changes + 1 BY DEF ReaderInv, IdentitiesKnown
    <2> QED BY <1>1, <1>2, <1>5, <2>1 DEF SameIdentity
<1>6. SameContent' BY <1>1, <1>5 DEF ReaderInv, SameContent, ReaderPhase
<1>7. ScannedAgain' BY <1>1 DEF ReaderInv, ScannedAgain
<1>8. SameNames'
    <2>1. root' = rootSeen' => root = rootSeen /\ DOMAIN disk' = DOMAIN disk
        BY <1>1, <1>2 DEF ReaderInv, IdentitiesKnown
    <2> QED BY <1>1, <2>1 DEF ReaderInv, SameNames
<1>9. VerifiedTogether' BY <1>1 DEF VerifiedTogether
<1> QED BY <1>3, <1>4, <1>6, <1>7, <1>8, <1>9 DEF ReaderInv

LEMMA OpenStep == ASSUME ReaderInv, OpenBundle PROVE ReaderInv'
BY DEF OpenBundle, disks, ReaderInv, IdentitiesKnown, ReaderPhase, SameContent, SameIdentity,
       ScannedAgain, SameNames, VerifiedTogether

\* A reader that gives up keeps what it knows.
LEMMA RejectStep ==
    ASSUME ReaderInv, rpc' = "rejected", UNCHANGED <<disks, rootSeen, seen, again, cache, frozenDisk>>
    PROVE  ReaderInv'
BY DEF disks, ReaderInv, IdentitiesKnown, ReaderPhase, SameContent, SameIdentity, ScannedAgain,
       SameNames, VerifiedTogether

LEMMA ScanStep == ASSUME ReaderInv, Scan PROVE ReaderInv'
<1>1. rpc = "scan" /\ UNCHANGED <<disks, rootSeen, again, cache, frozenDisk>> BY DEF Scan
<1>2. ASSUME NEW p \in DOMAIN disk \ DOMAIN seen, Safe(p), UNCHANGED rpc,
             seen' = [q \in DOMAIN seen \cup {p} |-> IF q = p THEN disk[p].id ELSE seen[q]]
      PROVE  ReaderInv'
    <2>1. /\ DOMAIN seen' = DOMAIN seen \cup {p} /\ seen'[p] = disk[p].id
          /\ \A q \in DOMAIN seen : seen'[q] = seen[q]
        BY <1>2
    <2>2. DOMAIN cache = {} /\ DOMAIN again = {} BY <1>1 DEF ReaderInv, ReaderPhase
    <2>3. IdentitiesKnown' BY <1>1, <2>1 DEF disks, ReaderInv, IdentitiesKnown
    <2>4. ReaderPhase' BY <1>1, <1>2, <2>2 DEF ReaderInv, ReaderPhase
    <2>5. SameContent' BY <1>1, <1>2, <2>1, <2>2 DEF disks, ReaderInv, SameContent, SameIdentity, Safe
    <2>6. ScannedAgain' /\ VerifiedTogether' BY <1>1, <1>2 DEF ScannedAgain, VerifiedTogether
    <2>7. SameNames' BY <1>1, <1>2, <2>1 DEF disks, ReaderInv, SameNames
    <2> QED BY <2>3, <2>4, <2>5, <2>6, <2>7 DEF ReaderInv
<1>3. ASSUME DOMAIN disk \subseteq DOMAIN seen, root = rootSeen, rpc' = "read", UNCHANGED seen
      PROVE  ReaderInv'
    BY <1>1, <1>3 DEF disks, ReaderInv, IdentitiesKnown, ReaderPhase, SameContent, SameIdentity,
                      ScannedAgain, SameNames, VerifiedTogether
<1> QED BY <1>1, <1>2, <1>3, RejectStep DEF Scan

LEMMA ReadStep == ASSUME ReaderInv, NEW p, ReadBytes(p) PROVE ReaderInv'
<1>1. rpc = "read" /\ UNCHANGED <<disks, rootSeen, seen, again, frozenDisk>> BY DEF ReadBytes
<1>2. ASSUME p \in DOMAIN seen \ DOMAIN cache, p \in DOMAIN disk, disk[p].id = seen[p], UNCHANGED rpc,
             cache' = [q \in DOMAIN cache \cup {p} |-> IF q = p THEN disk[p].content ELSE cache[q]]
      PROVE  ReaderInv'
    <2>1. /\ DOMAIN cache' = DOMAIN cache \cup {p} /\ cache'[p] = disk[p].content
          /\ \A q \in DOMAIN cache : cache'[q] = cache[q]
        BY <1>2
    <2>2. IdentitiesKnown' /\ SameNames' BY <1>1, <1>2 DEF disks, ReaderInv, IdentitiesKnown, SameNames
    <2>3. ReaderPhase' BY <1>1, <1>2, <2>1 DEF ReaderInv, ReaderPhase
    <2>4. SameContent' BY <1>1, <1>2, <2>1 DEF disks, ReaderInv, SameContent, SameIdentity
    <2>5. ScannedAgain' /\ VerifiedTogether' BY <1>1, <1>2 DEF ScannedAgain, VerifiedTogether
    <2> QED BY <2>2, <2>3, <2>4, <2>5 DEF ReaderInv
<1> QED BY <1>1, <1>2, RejectStep DEF ReadBytes

LEMMA VerifyStep == ASSUME ReaderInv, NEW holds, VerifyRead(holds) PROVE ReaderInv'
<1>1. /\ rpc = "read" /\ DOMAIN cache = DOMAIN seen /\ frozenDisk' = disk
      /\ rpc' = (IF holds THEN "rescan" ELSE "rejected")
      /\ UNCHANGED <<disks, rootSeen, seen, again, cache>>
    BY DEF VerifyRead
<1>2. IdentitiesKnown' BY <1>1 DEF disks, ReaderInv, IdentitiesKnown
<1>3. ReaderPhase' BY <1>1 DEF ReaderInv, ReaderPhase
<1>4. SameContent' BY <1>1 DEF disks, ReaderInv, SameContent, SameIdentity
<1>5. ScannedAgain' BY <1>1 DEF ReaderInv, ReaderPhase, ScannedAgain
<1>6. SameNames' BY <1>1 DEF disks, ReaderInv, SameNames
<1>7. VerifiedTogether' BY <1>1 DEF VerifiedTogether
<1> QED BY <1>2, <1>3, <1>4, <1>5, <1>6, <1>7 DEF ReaderInv

LEMMA RescanStep == ASSUME ReaderInv, Rescan PROVE ReaderInv'
<1>1. rpc = "rescan" /\ UNCHANGED <<disks, rootSeen, seen, cache, frozenDisk>> BY DEF Rescan
<1>2. DOMAIN cache = DOMAIN seen BY <1>1 DEF ReaderInv, ReaderPhase
<1>3. ASSUME NEW p \in DOMAIN disk \ DOMAIN again, UNCHANGED rpc,
             again' = [q \in DOMAIN again \cup {p} |-> IF q = p THEN disk[p].id ELSE again[q]]
      PROVE  ReaderInv'
    <2>1. /\ DOMAIN again' = DOMAIN again \cup {p} /\ again'[p] = disk[p].id
          /\ \A q \in DOMAIN again : again'[q] = again[q]
        BY <1>3
    <2>2. IdentitiesKnown' /\ SameNames' /\ SameContent'
        BY <1>1, <1>3 DEF disks, ReaderInv, IdentitiesKnown, SameNames, SameContent, SameIdentity
    <2>3. ReaderPhase' BY <1>1, <1>3 DEF ReaderInv, ReaderPhase
    <2>4. p \in DOMAIN seen /\ disk[p].id = seen[p] =>
            p \in DOMAIN frozenDisk /\ frozenDisk[p].content = cache[p] /\ frozenDisk[p].kind = "file"
        BY <1>1, <1>2, <1>3 DEF ReaderInv, SameContent, SameIdentity
    <2>5. ScannedAgain' BY <1>1, <1>3, <2>1, <2>4 DEF ReaderInv, ScannedAgain
    <2>6. VerifiedTogether' BY <1>1, <1>3 DEF VerifiedTogether
    <2> QED BY <2>2, <2>3, <2>4, <2>5, <2>6 DEF ReaderInv
<1>4. ASSUME root = rootSeen, again = seen, rpc' = "accepted", UNCHANGED again PROVE ReaderInv'
    <2>1. DOMAIN frozenDisk = DOMAIN cache BY <1>1, <1>2, <1>4 DEF ReaderInv, SameNames
    <2>2. \A p \in DOMAIN cache : frozenDisk[p].content = cache[p] /\ frozenDisk[p].kind = "file"
        BY <1>1, <1>2, <1>4 DEF ReaderInv, ScannedAgain
    <2>3. VerifiedTogether' BY <1>1, <2>1, <2>2 DEF VerifiedTogether
    <2> QED BY <1>1, <1>4, <2>3 DEF disks, ReaderInv, IdentitiesKnown, ReaderPhase, SameContent,
                                    SameIdentity, ScannedAgain, SameNames
<1> QED BY <1>1, <1>3, <1>4, RejectStep DEF Rescan

LEMMA ReaderKeeps == ReaderInv /\ [ReaderNext]_bundleVars => ReaderInv'
<1> SUFFICES ASSUME ReaderInv, [ReaderNext]_bundleVars PROVE ReaderInv' OBVIOUS
<1>1. CASE UNCHANGED bundleVars
    BY <1>1 DEF bundleVars, disks, ReaderInv, IdentitiesKnown, ReaderPhase, SameContent, SameIdentity,
                ScannedAgain, SameNames, VerifiedTogether
<1> QED BY <1>1, ChangeDiskStep, OpenStep, ScanStep, ReadStep, VerifyStep, RescanStep DEF ReaderNext

-----------------------------------------------------------------------------
(***************************************************************************)
(* PocImport.                                                              *)
(***************************************************************************)

Contracts == {f \in [state : {"none", "frozen", "lapsed"}, pinned : SUBSET Selections] :
                f.pinned = {} \/ \E sel \in Selections : f.pinned = {sel}}
ImportStatuses == {"IMPORTING", "COMPLETED", "INGESTION_REJECTED", "FAILED_CLOSED"}
Fingerprints == ImportPocs \X (SUBSET Selections) \X Selections

Starts ==
    [poc : ImportPocs, fp : Fingerprints, sel : Selections, key : ImportKeys, at : SUBSET Labels,
     import : Nat]
ImportRecords ==
    [poc : ImportPocs, fp : Fingerprints, sel : Selections, key : ImportKeys, at : SUBSET Labels,
     status : ImportStatuses, result : SUBSET Selections, manifest : Nat, launched : BOOLEAN]
Verifications ==
    [import : Nat, expected : Nat, listing : SUBSET Nat, checked : SUBSET PackFiles,
     intact : SUBSET PackParts]

\* A start and its import are of a selection that the contract of the POC, which
\* is frozen once, allows.
BindsSelection(r) ==
    /\ frozenAt[r.poc].state # "none"
    /\ frozenAt[r.poc].pinned \in {{}, {r.sel}}

\* An import has the selected result or none, and a completed one has a pack.
ImportFits(i) ==
    LET r == imports[i] IN
    /\ r \in ImportRecords /\ BindsSelection(r)
    /\ r.result \in {{}, {r.sel}}
    /\ i \in DOMAIN packs => r.result = {r.sel}
    /\ r.status = "COMPLETED" => i \in DOMAIN packs /\ r.manifest = i

Waits(i) == Running(i) /\ ~imports[i].launched

\* The import a start has recorded waits for the start to launch its worker.
StartHolds(h) ==
    /\ h \in Starts /\ BindsSelection(h)
    /\ h.import # 0 => Waits(h.import)

StartFits(c) == callers[c] # <<>> => \E h : callers[c] = <<h>> /\ StartHolds(h)

Launches(c, i) == callers[c] # <<>> /\ callers[c][1].import = i /\ i # 0

OneLauncher == \A c, d \in ImportCallers, i \in Nat : Launches(c, i) /\ Launches(d, i) => c = d

\* What a verification has read was there since it began, and was as written.
VerifierHolds(h) ==
    /\ h \in Verifications
    /\ h.import \in DOMAIN imports /\ imports[h.import].status = "COMPLETED"
    /\ h.expected = h.import
    /\ AsWritten(h.import) \subseteq h.intact
    /\ h.listing # {} => h.listing = {h.import} /\ "manifest" \in h.intact
    /\ h.checked \subseteq h.intact
    /\ h.checked # {} => h.listing # {}

VerifierFits(v) == verifying[v] # <<>> => \E h : verifying[v] = <<h>> /\ VerifierHolds(h)

ImportTypes ==
    /\ frozenAt \in [ImportPocs -> Contracts]
    /\ imports \in Seq(ImportRecords)
    /\ latestOf \in [ImportPocs -> Nat]
    /\ DOMAIN callers = ImportCallers
    /\ DOMAIN verifying = PackReaders
    /\ DOMAIN packs \subseteq DOMAIN imports

\* The active POCs are those of the running imports, one each.
BusyIsRunning ==
    /\ \A p \in ImportPocs : p \in busy <=> \E i \in DOMAIN imports : Running(i) /\ imports[i].poc = p
    /\ \A i, j \in DOMAIN imports : Running(i) /\ Running(j) /\ imports[i].poc = imports[j].poc => i = j

LatestIsOfThePoc ==
    \A p \in ImportPocs : latestOf[p] # 0 =>
        latestOf[p] \in DOMAIN imports /\ imports[latestOf[p]].poc = p

ImportInv ==
    /\ ImportTypes
    /\ \A i \in DOMAIN imports : ImportFits(i)
    /\ \A c \in ImportCallers : StartFits(c)
    /\ OneLauncher
    /\ \A v \in PackReaders : VerifierFits(v)
    /\ BusyIsRunning
    /\ LatestIsOfThePoc
    /\ OfferedIsSelected

LEMMA ImportStarts == PocImportInit => ImportInv
<1> SUFFICES ASSUME PocImportInit PROVE ImportInv OBVIOUS
<1>1. DOMAIN imports = {} /\ DOMAIN packs = {} /\ imports \in Seq(ImportRecords)
    BY DEF PocImportInit
<1>2. frozenAt \in [ImportPocs -> Contracts] BY DEF PocImportInit, Contracts
<1>3. ImportTypes BY <1>1, <1>2 DEF PocImportInit, ImportTypes
<1>4. BusyIsRunning BY <1>1 DEF PocImportInit, BusyIsRunning
<1>5. OfferedIsSelected BY DEF PocImportInit, OfferedIsSelected
<1>6. OneLauncher /\ \A v \in PackReaders : VerifierFits(v)
    BY DEF PocImportInit, OneLauncher, Launches, VerifierFits
<1> QED BY <1>1, <1>3, <1>4, <1>5, <1>6 DEF PocImportInit, ImportInv, StartFits, LatestIsOfThePoc

\* A frozen contract stays what it is.
ContractsStay ==
    /\ frozenAt' \in [ImportPocs -> Contracts]
    /\ \A p \in ImportPocs : frozenAt[p].state # "none" =>
        frozenAt'[p].state # "none" /\ frozenAt'[p].pinned = frozenAt[p].pinned

LEMMA StillBinds ==
    ASSUME ContractsStay, NEW r, r.poc \in ImportPocs, BindsSelection(r) PROVE BindsSelection(r)'
BY DEF ContractsStay, BindsSelection

LEMMA SameContracts == ASSUME ImportInv, UNCHANGED frozenAt PROVE ContractsStay
BY DEF ImportInv, ImportTypes, ContractsStay

\* An answer of another kind offers nothing.
LEMMA NoOffer ==
    ASSUME \/ reply' = <<>>
           \/ \E kind, i : kind \notin {"pack", "latest"} /\ reply' = ImportAnswer(kind, i)
    PROVE  OfferedIsSelected'
BY DEF ImportAnswer, OfferedIsSelected

\* Imports and packs stay as they are.
LEMMA ImportsStay ==
    ASSUME ImportInv, UNCHANGED <<imports, latestOf, busy, packs, verifying>>, ContractsStay,
           DOMAIN callers' = ImportCallers, \A c \in ImportCallers : StartFits(c)', OneLauncher',
           OfferedIsSelected'
    PROVE  ImportInv'
<1>1. ImportTypes' BY DEF ImportInv, ImportTypes, ContractsStay
<1>2. ASSUME NEW i \in DOMAIN imports' PROVE ImportFits(i)'
    <2>1. ImportFits(i) BY DEF ImportInv
    <2>2. BindsSelection(imports[i])' BY <2>1, StillBinds DEF ImportFits, ImportRecords
    <2> QED BY <2>1, <2>2 DEF ImportFits
<1>3. BusyIsRunning' BY DEF ImportInv, BusyIsRunning, Running
<1>4. LatestIsOfThePoc' BY DEF ImportInv, LatestIsOfThePoc
<1>5. \A v \in PackReaders : VerifierFits(v)'
    BY DEF ImportInv, VerifierFits, VerifierHolds, AsWritten
<1> QED BY <1>1, <1>2, <1>3, <1>4, <1>5 DEF ImportInv

\* The callers of another start, which holds nothing now or what it may hold.
LEMMA CallersStay ==
    ASSUME ImportInv, NEW c \in ImportCallers, NEW u, callers' = [callers EXCEPT ![c] = u],
           UNCHANGED frozenAt,
           \A d \in ImportCallers, i \in Nat : d # c /\ Launches(d, i) => Waits(i)',
           u # <<>> => \E h : /\ u = <<h>> /\ StartHolds(h)'
                              /\ \A d \in ImportCallers : d # c => ~Launches(d, h.import)
    PROVE  DOMAIN callers' = ImportCallers /\ (\A d \in ImportCallers : StartFits(d)') /\ OneLauncher'
<1>1. /\ DOMAIN callers' = ImportCallers /\ callers'[c] = u
      /\ \A d \in ImportCallers : d # c => callers'[d] = callers[d]
    BY DEF ImportInv, ImportTypes
<1>2. ASSUME NEW d \in ImportCallers PROVE StartFits(d)'
    <2>1. CASE d = c BY <1>1, <2>1 DEF StartFits
    <2>2. CASE d # c /\ callers[d] # <<>>
        <3>1. PICK h : callers[d] = <<h>> /\ StartHolds(h) BY <2>2 DEF ImportInv, StartFits
        <3>2. h.import # 0 => Launches(d, h.import) /\ h.import \in Nat
            BY <2>2, <3>1 DEF Launches, StartHolds, Starts
        <3>3. StartHolds(h)' BY <2>2, <3>1, <3>2 DEF StartHolds, BindsSelection
        <3> QED BY <1>1, <2>2, <3>1, <3>3 DEF StartFits
    <2> QED BY <1>1, <2>1, <2>2 DEF StartFits
<1>3. OneLauncher'
    <2> SUFFICES ASSUME NEW d \in ImportCallers, NEW e \in ImportCallers, NEW i \in Nat,
                        Launches(d, i)', Launches(e, i)'
                 PROVE  d = e
        BY DEF OneLauncher
    <2>1. \A x \in ImportCallers : x # c /\ Launches(x, i)' => Launches(x, i) BY <1>1 DEF Launches
    <2>2. Launches(c, i)' => \A x \in ImportCallers : x # c => ~Launches(x, i)
        BY <1>1 DEF Launches
    <2> QED BY <2>1, <2>2 DEF ImportInv, OneLauncher
<1> QED BY <1>1, <1>2, <1>3

\* Nobody's import moves.
LEMMA StartsStay ==
    ASSUME ImportInv, UNCHANGED <<imports, callers>>, ContractsStay
    PROVE  DOMAIN callers' = ImportCallers /\ (\A d \in ImportCallers : StartFits(d)') /\ OneLauncher'
<1>1. ASSUME NEW d \in ImportCallers, callers[d] # <<>> PROVE StartFits(d)'
    <2>1. PICK h : callers[d] = <<h>> /\ StartHolds(h) BY <1>1 DEF ImportInv, StartFits
    <2>2. BindsSelection(h)' BY <2>1, StillBinds DEF StartHolds, Starts
    <2>3. StartHolds(h)' BY <2>1, <2>2 DEF StartHolds, Waits, Running
    <2> QED BY <2>1, <2>3 DEF StartFits
<1> QED BY <1>1 DEF ImportInv, ImportTypes, OneLauncher, Launches, StartFits

\* Neither do the imports of the other starts.
LEMMA OthersWait ==
    ASSUME ImportInv, NEW d \in ImportCallers, NEW i, Launches(d, i) PROVE Waits(i)
<1>1. PICK h : callers[d] = <<h>> /\ StartHolds(h) BY DEF ImportInv, StartFits, Launches
<1> QED BY <1>1 DEF StartHolds, Launches

\* Nothing else than the roots or the contracts.
LEMMA FreezeExternalStep ==
    ASSUME ImportInv, NEW p \in ImportPocs, FreezeExternal(p) \/ LapseExternal(p) PROVE ImportInv'
<1>1. /\ reply' = <<>> /\ UNCHANGED <<serviceState, packs, callers, verifying>>
    BY DEF FreezeExternal, LapseExternal, importDisks
<1>2. frozenAt[p] \in Contracts BY DEF ImportInv, ImportTypes
<1>3. CASE FreezeExternal(p)
    <2>1. PICK pinned : /\ pinned \in {{}} \cup {{sel} : sel \in Selections}
                        /\ frozenAt' = [frozenAt EXCEPT ![p] = [state |-> "frozen", pinned |-> pinned]]
        BY <1>3 DEF FreezeExternal
    <2>2. [state |-> "frozen", pinned |-> pinned] \in Contracts BY <2>1 DEF Contracts
    <2>3. ContractsStay
        BY <1>3, <2>1, <2>2 DEF FreezeExternal, ContractsStay, ImportInv, ImportTypes
    <2> QED BY <1>1, <2>3, ImportsStay, StartsStay, NoOffer DEF serviceState
<1>4. CASE LapseExternal(p)
    <2>1. frozenAt' = [frozenAt EXCEPT ![p] = [frozenAt[p] EXCEPT !.state = "lapsed"]]
        BY <1>4 DEF LapseExternal
    <2>2. /\ [frozenAt[p] EXCEPT !.state = "lapsed"] \in Contracts
          /\ [frozenAt[p] EXCEPT !.state = "lapsed"].pinned = frozenAt[p].pinned
          /\ [frozenAt[p] EXCEPT !.state = "lapsed"].state = "lapsed"
        BY <1>2 DEF Contracts
    <2>3. ContractsStay BY <2>1, <2>2 DEF ContractsStay, ImportInv, ImportTypes
    <2> QED BY <1>1, <2>3, ImportsStay, StartsStay, NoOffer DEF serviceState
<1> QED BY <1>3, <1>4

LEMMA ChangeRootStep == ASSUME ImportInv, NEW l, NEW n, ChangeRoot(l, n) PROVE ImportInv'
<1>1. /\ reply' = <<>> /\ UNCHANGED <<frozenAt, serviceState, packs, callers, verifying>>
    BY DEF ChangeRoot
<1> QED BY <1>1, SameContracts, ImportsStay, StartsStay, NoOffer DEF serviceState

\* A start whose selection the contract allows is held.
LEMMA StartLookupStep ==
    ASSUME ImportInv, NEW c \in ImportCallers, NEW p \in ImportPocs, NEW sel \in Selections,
           NEW key \in ImportKeys, StartLookup(c, p, sel, key)
    PROVE  ImportInv'
<1>0. PICK f, h : /\ f = frozenAt[p]
                  /\ h = [poc |-> p, fp |-> Fingerprint(p, f, sel), sel |-> sel, key |-> key,
                          at |-> {}, import |-> 0]
    OBVIOUS
<1>1. UNCHANGED <<frozenAt, imports, latestOf, busy, packs, verifying>>
    BY DEF StartLookup, Refuse, importDisks, serviceState
<1>2. f \in Contracts BY <1>0 DEF ImportInv, ImportTypes
<1>3. CASE callers' = callers
    <2>1. reply' = <<>> \/ \E kind, i : kind \notin {"pack", "latest"} /\ reply' = ImportAnswer(kind, i)
        BY DEF StartLookup, Refuse
    <2> QED BY <1>1, <1>3, <2>1, SameContracts, StartsStay, ImportsStay, NoOffer
<1>4. CASE callers' # callers
    <2>1. /\ callers' = [callers EXCEPT ![c] = <<h>>] /\ reply' = <<>>
          /\ f.state = "frozen" /\ ~(f.pinned # {} /\ sel \notin f.pinned)
        BY <1>0, <1>4 DEF StartLookup, Refuse
    <2>2. f.pinned \in {{}, {sel}} BY <1>2, <2>1 DEF Contracts
    <2>3. h.poc = p /\ h.sel = sel /\ h.import = 0 BY <1>0
    <2>4. BindsSelection(h)' BY <1>0, <1>1, <2>1, <2>2, <2>3 DEF BindsSelection
    <2>5. h \in Starts BY <1>0, <1>2 DEF Starts, Fingerprints, Fingerprint, Contracts
    <2>6. StartHolds(h)' BY <2>3, <2>4, <2>5 DEF StartHolds
    <2>7. \A d \in ImportCallers, i \in Nat : d # c /\ Launches(d, i) => Waits(i)'
        BY <1>1, OthersWait DEF Waits, Running
    <2>8. \A d \in ImportCallers : d # c => ~Launches(d, h.import) BY <2>3 DEF Launches
    <2>9. DOMAIN callers' = ImportCallers /\ (\A d \in ImportCallers : StartFits(d)') /\ OneLauncher'
        BY <1>1, <2>1, <2>6, <2>7, <2>8, CallersStay
    <2> QED BY <1>1, <2>1, <2>9, SameContracts, ImportsStay, NoOffer
<1> QED BY <1>3, <1>4

LEMMA StartResolveStep ==
    ASSUME ImportInv, NEW c \in ImportCallers, StartResolve(c) PROVE ImportInv'
<1>1. /\ callers[c] # <<>> /\ UNCHANGED <<frozenAt, imports, latestOf, busy, packs, verifying>>
      /\ reply' = <<>> \/ reply' = ImportAnswer("not_found", 0)
    BY DEF StartResolve, Refuse, importDisks, serviceState
<1>2. PICK h : callers[c] = <<h>> /\ StartHolds(h) BY <1>1 DEF ImportInv, StartFits
<1>3. callers[c][1] = h BY <1>2
<1>0. PICK found, g : found = Resolve(runsRoot, h.sel) /\ g = [h EXCEPT !.at = found] OBVIOUS
<1>4. \/ callers' = [callers EXCEPT ![c] = <<>>]
      \/ callers' = [callers EXCEPT ![c] = [callers[c] EXCEPT ![1] = g]]
    BY <1>0, <1>3 DEF StartResolve
<1>5. [callers[c] EXCEPT ![1] = g] = <<g>> BY <1>2
<1>6. found \subseteq Labels BY <1>0 DEF Resolve, Catalog, Verified, Candidates
<1>7. g \in Starts /\ g.poc = h.poc /\ g.sel = h.sel /\ g.import = h.import
    BY <1>0, <1>2, <1>6 DEF StartHolds, Starts
<1>8. StartHolds(g)' BY <1>1, <1>2, <1>7 DEF StartHolds, BindsSelection, Waits, Running
<1>9. \A d \in ImportCallers, i \in Nat : d # c /\ Launches(d, i) => Waits(i)'
    BY <1>1, OthersWait DEF Waits, Running
<1>10. \A d \in ImportCallers : d # c => ~Launches(d, g.import)
    BY <1>1, <1>3, <1>7 DEF ImportInv, OneLauncher, Launches, Starts
<1>11. DOMAIN callers' = ImportCallers /\ (\A d \in ImportCallers : StartFits(d)') /\ OneLauncher'
    <2>1. CASE callers' = [callers EXCEPT ![c] = <<>>] BY <1>1, <1>9, <2>1, CallersStay
    <2>2. CASE callers' = [callers EXCEPT ![c] = <<g>>] BY <1>1, <1>8, <1>9, <1>10, <2>2, CallersStay
    <2> QED BY <1>4, <1>5, <2>1, <2>2
<1> QED BY <1>1, <1>11, SameContracts, ImportsStay, NoOffer

\* A verification reads what is or was there of a completed import.
LEMMA VerifiersStay ==
    ASSUME ImportInv, UNCHANGED verifying,
           \A j \in DOMAIN imports : imports[j].status = "COMPLETED" =>
               /\ j \in DOMAIN imports' /\ imports'[j] = imports[j]
               /\ j \in DOMAIN packs => packs'[j] = packs[j]
    PROVE  \A v \in PackReaders : VerifierFits(v)'
<1> SUFFICES ASSUME NEW v \in PackReaders, verifying[v] # <<>> PROVE VerifierFits(v)'
    BY DEF VerifierFits
<1>1. PICK h : verifying[v] = <<h>> /\ VerifierHolds(h) BY DEF ImportInv, VerifierFits
<1>2. h.import \in DOMAIN packs BY <1>1 DEF VerifierHolds, ImportInv, ImportFits
<1>3. AsWritten(h.import)' = AsWritten(h.import) BY <1>1, <1>2 DEF VerifierHolds, AsWritten
<1>4. VerifierHolds(h)' BY <1>1, <1>3 DEF VerifierHolds
<1> QED BY <1>1, <1>4 DEF VerifierFits

\* A new import runs, and its start is the one to launch it.
LEMMA StartAdmitStep ==
    ASSUME ImportInv, NEW c \in ImportCallers, StartAdmit(c) PROVE ImportInv'
<1>0. PICK i : i = Len(imports) + 1 OBVIOUS
<1>1. callers[c] # <<>> /\ UNCHANGED <<frozenAt, packs, verifying>> BY DEF StartAdmit, importDisks
<1>2. PICK h : callers[c] = <<h>> /\ StartHolds(h) BY <1>1 DEF ImportInv, StartFits
<1>3. callers[c][1] = h BY <1>2
<1> DEFINE r == Record(h)
           g == [h EXCEPT !.import = i]
<1>4. CASE ~Admissible(h)
    <2>1. /\ reply' = ImportAnswer("refused", 0) /\ UNCHANGED serviceState
          /\ callers' = [callers EXCEPT ![c] = <<>>]
        BY <1>3, <1>4 DEF StartAdmit, Refuse
    <2>2. UNCHANGED <<imports, latestOf, busy>> BY <2>1 DEF serviceState
    <2>3. \A d \in ImportCallers, j \in Nat : d # c /\ Launches(d, j) => Waits(j)'
        BY <2>2, OthersWait DEF Waits, Running
    <2>4. DOMAIN callers' = ImportCallers /\ (\A d \in ImportCallers : StartFits(d)') /\ OneLauncher'
        BY <1>1, <2>1, <2>3, CallersStay
    <2> QED BY <1>1, <2>1, <2>2, <2>4, SameContracts, ImportsStay, NoOffer
<1>5. CASE Admissible(h)
    <2>1. /\ imports' = Append(imports, r) /\ latestOf' = [latestOf EXCEPT ![h.poc] = i]
          /\ busy' = busy \cup {h.poc} /\ reply' = <<>>
          /\ callers' = [callers EXCEPT ![c] = [callers[c] EXCEPT ![1] = g]]
        BY <1>0, <1>3, <1>5 DEF StartAdmit
    <2>2. h.poc \notin busy BY <1>5 DEF Admissible
    <2>3. h \in Starts /\ BindsSelection(h) BY <1>2 DEF StartHolds
    <2>4. /\ r.poc = h.poc /\ r.sel = h.sel /\ r.status = "IMPORTING" /\ r.result = {}
          /\ ~r.launched
        BY DEF Record
    <2>5. r \in ImportRecords BY <2>3 DEF Record, Starts, ImportRecords, ImportStatuses
    <2>6. h.poc \in ImportPocs BY <2>3 DEF Starts
    <2>7. imports \in Seq(ImportRecords) BY DEF ImportInv, ImportTypes
    <2> HIDE DEF r
    <2>8. /\ imports' \in Seq(ImportRecords) /\ i \in Nat \ {0} /\ i \notin DOMAIN imports
          /\ DOMAIN imports' = DOMAIN imports \cup {i} /\ imports'[i] = r
          /\ \A j \in DOMAIN imports : imports'[j] = imports[j]
        BY <1>0, <2>1, <2>5, <2>7
    <2>9. /\ [callers[c] EXCEPT ![1] = g] = <<g>>
          /\ g \in Starts /\ g.poc = h.poc /\ g.sel = h.sel /\ g.import = i
        BY <1>2, <2>3, <2>8 DEF Starts
    <2> HIDE DEF g
    <2>10. StartHolds(g)'
        <3>1. BindsSelection(g)' BY <1>1, <2>3, <2>9 DEF BindsSelection
        <3>2. Waits(i)' BY <2>4, <2>8 DEF Waits, Running
        <3> QED BY <2>9, <3>1, <3>2 DEF StartHolds
    <2>11. ASSUME NEW d \in ImportCallers, NEW j, Launches(d, j) PROVE j # i /\ Waits(j)'
        <3>1. Waits(j) BY <2>11, OthersWait
        <3> QED BY <2>8, <3>1 DEF Waits, Running
    <2>12. DOMAIN callers' = ImportCallers /\ (\A d \in ImportCallers : StartFits(d)') /\ OneLauncher'
        <3>1. \A d \in ImportCallers : d # c => ~Launches(d, g.import) BY <2>9, <2>11
        <3> QED BY <1>1, <2>1, <2>9, <2>10, <2>11, <3>1, CallersStay
    <2>13. ImportTypes'
        <3>1. latestOf' \in [ImportPocs -> Nat] BY <2>1, <2>8 DEF ImportInv, ImportTypes
        <3> QED BY <1>1, <2>8, <2>12, <3>1 DEF ImportInv, ImportTypes
    <2>14. ASSUME NEW j \in DOMAIN imports' PROVE ImportFits(j)'
        <3>1. CASE j \in DOMAIN imports
            BY <1>1, <2>8, <3>1 DEF ImportInv, ImportFits, BindsSelection
        <3>2. CASE j = i
            <4>1. i \notin DOMAIN packs BY <2>8 DEF ImportInv, ImportTypes
            <4>2. BindsSelection(r)' BY <1>1, <2>3, <2>4 DEF BindsSelection
            <4> QED BY <1>1, <2>4, <2>5, <2>8, <3>2, <4>1, <4>2 DEF ImportFits
        <3> QED BY <2>8, <3>1, <3>2
    <2>15. BusyIsRunning'
        <3>1. Running(i)' BY <2>4, <2>8 DEF Running
        <3>2. \A j \in DOMAIN imports : Running(j)' <=> Running(j) BY <2>8 DEF Running
        <3>3. \A j \in DOMAIN imports : Running(j) => imports[j].poc # h.poc
            BY <2>2, <2>6 DEF ImportInv, BusyIsRunning
        <3>4. ASSUME NEW q \in ImportPocs
              PROVE  q \in busy' <=> \E j \in DOMAIN imports' : Running(j)' /\ imports'[j].poc = q
            <4>1. q \in busy <=> \E j \in DOMAIN imports : Running(j) /\ imports[j].poc = q
                BY DEF ImportInv, BusyIsRunning
            <4> QED BY <2>1, <2>4, <2>8, <3>1, <3>2, <4>1
        <3>5. ASSUME NEW j \in DOMAIN imports', NEW k \in DOMAIN imports', Running(j)', Running(k)',
                     imports'[j].poc = imports'[k].poc
              PROVE  j = k
            BY <2>4, <2>8, <3>2, <3>3, <3>5 DEF ImportInv, BusyIsRunning
        <3> QED BY <3>4, <3>5 DEF BusyIsRunning
    <2>16. LatestIsOfThePoc'
        BY <2>1, <2>4, <2>6, <2>8 DEF ImportInv, ImportTypes, LatestIsOfThePoc
    <2>17. \A v \in PackReaders : VerifierFits(v)' BY <1>1, <2>8, VerifiersStay
    <2>18. OfferedIsSelected' BY <2>1, NoOffer
    <2> QED BY <2>12, <2>13, <2>14, <2>15, <2>16, <2>17, <2>18 DEF ImportInv
<1> QED BY <1>4, <1>5

\* A running import goes on, or ends and frees its POC.
LEMMA ImportMoves ==
    ASSUME ImportInv, NEW i, Running(i), NEW r \in ImportRecords,
           imports' = [imports EXCEPT ![i] = r],
           r.poc = imports[i].poc, r.sel = imports[i].sel,
           busy' = IF r.status = "IMPORTING" THEN busy ELSE busy \ {imports[i].poc},
           DOMAIN packs' \subseteq DOMAIN packs \cup {i},
           \A j \in DOMAIN packs : j \in DOMAIN packs' /\ packs'[j] = packs[j],
           r.result \in {{}, {r.sel}}, i \in DOMAIN packs' => r.result = {r.sel},
           r.status = "COMPLETED" => i \in DOMAIN packs' /\ r.manifest = i,
           UNCHANGED <<frozenAt, latestOf, verifying>>,
           DOMAIN callers' = ImportCallers, \A c \in ImportCallers : StartFits(c)', OneLauncher',
           OfferedIsSelected'
    PROVE  ImportInv'
<1>1. i \in DOMAIN imports BY DEF Running
<1>2. imports \in Seq(ImportRecords) BY DEF ImportInv, ImportTypes
<1>3. /\ imports' \in Seq(ImportRecords) /\ DOMAIN imports' = DOMAIN imports /\ imports'[i] = r
      /\ \A j \in DOMAIN imports : j # i => imports'[j] = imports[j]
    BY <1>1, <1>2
<1>4. ImportTypes' BY <1>1, <1>3 DEF ImportInv, ImportTypes
<1>5. ASSUME NEW j \in DOMAIN imports' PROVE ImportFits(j)'
    <2>1. CASE j = i
        <3>1. BindsSelection(imports[i]) BY <1>1 DEF ImportInv, ImportFits
        <3>2. BindsSelection(r)' BY <3>1 DEF BindsSelection
        <3> QED BY <1>3, <2>1, <3>2 DEF ImportFits
    <2>2. CASE j # i
        <3>1. j \in DOMAIN imports /\ imports'[j] = imports[j] /\ ImportFits(j)
            BY <1>3, <2>2 DEF ImportInv
        <3> QED BY <2>2, <3>1 DEF ImportFits, BindsSelection
    <2> QED BY <2>1, <2>2
<1>6. BusyIsRunning'
    <2>1. Running(i)' <=> r.status = "IMPORTING" BY <1>1, <1>3 DEF Running
    <2>2. \A j \in DOMAIN imports : j # i => (Running(j)' <=> Running(j)) BY <1>3 DEF Running
    <2>3. \A j \in DOMAIN imports : imports'[j].poc = imports[j].poc BY <1>3
    <2> QED BY <1>1, <1>3, <2>1, <2>2, <2>3 DEF ImportInv, BusyIsRunning
<1>7. LatestIsOfThePoc' BY <1>3 DEF ImportInv, LatestIsOfThePoc
<1>8. \A v \in PackReaders : VerifierFits(v)'
    <2>1. imports[i].status # "COMPLETED" BY DEF Running
    <2> QED BY <1>3, <2>1, VerifiersStay
<1> QED BY <1>4, <1>5, <1>6, <1>7, <1>8 DEF ImportInv

\* The worker of one import touches that of no start.
LEMMA StartsWait ==
    ASSUME ImportInv, NEW i, AtImport(i), UNCHANGED <<frozenAt, callers>>,
           NEW r, imports' = [imports EXCEPT ![i] = r]
    PROVE  DOMAIN callers' = ImportCallers /\ (\A d \in ImportCallers : StartFits(d)') /\ OneLauncher'
<1>1. imports \in Seq(ImportRecords) /\ i \in DOMAIN imports
    BY DEF ImportInv, ImportTypes, AtImport, Running
<1>2. DOMAIN imports' = DOMAIN imports /\ \A j \in DOMAIN imports : j # i => imports'[j] = imports[j]
    BY <1>1
<1>3. ASSUME NEW d \in ImportCallers, callers[d] # <<>> PROVE StartFits(d)'
    <2>1. PICK h : callers[d] = <<h>> /\ StartHolds(h) BY <1>3 DEF ImportInv, StartFits
    <2>2. h.import # 0 => h.import # i BY <2>1 DEF StartHolds, Waits, AtImport
    <2>3. StartHolds(h)' BY <1>2, <2>1, <2>2 DEF StartHolds, BindsSelection, Waits, Running
    <2> QED BY <2>1, <2>3 DEF StartFits
<1> QED BY <1>3 DEF ImportInv, ImportTypes, OneLauncher, Launches, StartFits

\* The import ends, with no pack of its own.
LEMMA SettleStep ==
    ASSUME ImportInv, NEW i, Running(i), NEW status \in ImportStatuses \ {"IMPORTING", "COMPLETED"},
           Settle(i, status), UNCHANGED <<frozenAt, latestOf, packs, verifying>>,
           DOMAIN callers' = ImportCallers, \A c \in ImportCallers : StartFits(c)', OneLauncher',
           OfferedIsSelected'
    PROVE  ImportInv'
<1> DEFINE r == [imports[i] EXCEPT !.status = status]
<1>1. i \in DOMAIN imports BY DEF Running
<1>2. /\ ImportFits(i) /\ imports[i] \in ImportRecords BY <1>1 DEF ImportInv, ImportFits
<1>3. /\ r \in ImportRecords /\ r.status = status /\ r.result = imports[i].result
      /\ r.poc = imports[i].poc /\ r.sel = imports[i].sel
    BY <1>2 DEF ImportRecords
<1>4. imports' = [imports EXCEPT ![i] = r] /\ busy' = busy \ {imports[i].poc} BY DEF Settle
<1> HIDE DEF r
<1> QED BY <1>2, <1>3, <1>4, ImportMoves DEF ImportFits

\* A launched import is left to its worker, one that cannot be has failed.
LEMMA StartLaunchStep ==
    ASSUME ImportInv, NEW c \in ImportCallers, NEW launched \in BOOLEAN, StartLaunch(c, launched)
    PROVE  ImportInv'
<1>1. /\ callers[c] # <<>> /\ callers[c][1].import # 0
      /\ callers' = [callers EXCEPT ![c] = <<>>]
      /\ UNCHANGED <<frozenAt, latestOf, packs, verifying>>
    BY DEF StartLaunch, importDisks
<1>0. PICK i : i = callers[c][1].import OBVIOUS
<1>2. Running(i) /\ Launches(c, i) BY <1>0, <1>1, OthersWait DEF Launches, Waits
<1>3. i \in DOMAIN imports /\ imports[i].status = "IMPORTING" BY <1>2 DEF Running
<1>4. ImportFits(i) /\ imports[i] \in ImportRecords BY <1>3 DEF ImportInv, ImportFits
<1>5. imports \in Seq(ImportRecords) BY DEF ImportInv, ImportTypes
<1>6. i \in Nat /\ \A d \in ImportCallers : d # c => ~Launches(d, i)
    BY <1>2, <1>3, <1>5 DEF ImportInv, OneLauncher
<1>7. ASSUME NEW r, imports' = [imports EXCEPT ![i] = r]
      PROVE  DOMAIN callers' = ImportCallers /\ (\A d \in ImportCallers : StartFits(d)') /\ OneLauncher'
    <2>1. DOMAIN imports' = DOMAIN imports /\ \A j \in DOMAIN imports : j # i => imports'[j] = imports[j]
        BY <1>3, <1>5, <1>7
    <2>2. \A d \in ImportCallers, j \in Nat : d # c /\ Launches(d, j) => Waits(j)'
        BY <1>6, <2>1, OthersWait DEF Waits, Running
    <2> QED BY <1>1, <2>2, CallersStay
<1>8. CASE ~launched
    <2>1. Settle(i, "FAILED_CLOSED") /\ reply' = ImportAnswer("error", i)
        BY <1>0, <1>8 DEF StartLaunch
    <2>2. imports' = [imports EXCEPT ![i] = [imports[i] EXCEPT !.status = "FAILED_CLOSED"]]
        BY <2>1 DEF Settle
    <2>3. DOMAIN callers' = ImportCallers /\ (\A d \in ImportCallers : StartFits(d)') /\ OneLauncher'
        BY <1>7, <2>2
    <2>4. OfferedIsSelected' BY <2>1, NoOffer
    <2> QED BY <1>1, <1>2, <2>1, <2>3, <2>4, SettleStep DEF ImportStatuses
<1>9. CASE launched
    <2> DEFINE r == [imports[i] EXCEPT !.launched = TRUE]
    <2>1. imports' = [imports EXCEPT ![i] = r] /\ UNCHANGED busy /\ reply' = ImportAnswer("started", i)
        BY <1>0, <1>9 DEF StartLaunch
    <2>2. /\ r \in ImportRecords /\ r.status = "IMPORTING" /\ r.result = imports[i].result
          /\ r.poc = imports[i].poc /\ r.sel = imports[i].sel
        BY <1>3, <1>4 DEF ImportRecords
    <2> HIDE DEF r
    <2>3. DOMAIN callers' = ImportCallers /\ (\A d \in ImportCallers : StartFits(d)') /\ OneLauncher'
        BY <1>7, <2>1
    <2>4. OfferedIsSelected' BY <2>1, NoOffer
    <2> QED BY <1>1, <1>2, <1>4, <2>1, <2>2, <2>3, <2>4, ImportMoves DEF ImportFits
<1> QED BY <1>8, <1>9

LEMMA ImportBundleStep ==
    ASSUME ImportInv, NEW i, NEW works, ImportBundle(i, works) PROVE ImportInv'
<1>1. /\ AtImport(i) /\ Running(i) /\ imports[i].result = {} /\ reply' = <<>>
      /\ UNCHANGED <<frozenAt, latestOf, packs, callers, verifying>>
    BY DEF ImportBundle, AtImport, importDisks
<1>2. OfferedIsSelected' BY <1>1, NoOffer
<1>3. ASSUME NEW status \in {"FAILED_CLOSED", "INGESTION_REJECTED"}, Settle(i, status) PROVE ImportInv'
    <2>1. imports' = [imports EXCEPT ![i] = [imports[i] EXCEPT !.status = status]] BY <1>3 DEF Settle
    <2> QED BY <1>1, <1>2, <1>3, <2>1, StartsWait, SettleStep DEF ImportStatuses
<1>4. ASSUME NEW res, res = {imports[i].sel}, imports' = [imports EXCEPT ![i].result = res], UNCHANGED busy
      PROVE  ImportInv'
    <2> DEFINE r == [imports[i] EXCEPT !.result = res]
    <2>1. i \in DOMAIN imports /\ imports[i].status = "IMPORTING" BY <1>1 DEF Running
    <2>2. ImportFits(i) /\ imports[i] \in ImportRecords BY <2>1 DEF ImportInv, ImportFits
    <2>3. i \notin DOMAIN packs BY <1>1, <2>2 DEF ImportFits
    <2>4. res \subseteq Selections BY <1>4, <2>2 DEF ImportRecords
    <2>5. /\ r \in ImportRecords /\ r.status = "IMPORTING" /\ r.result = res
          /\ r.poc = imports[i].poc /\ r.sel = imports[i].sel
        BY <2>1, <2>2, <2>4 DEF ImportRecords
    <2>6. imports' = [imports EXCEPT ![i] = r] BY <1>4
    <2> HIDE DEF r
    <2>7. DOMAIN callers' = ImportCallers /\ (\A d \in ImportCallers : StartFits(d)') /\ OneLauncher'
        BY <1>1, <2>6, StartsWait
    <2> QED BY <1>1, <1>2, <1>4, <2>3, <2>5, <2>6, <2>7, ImportMoves
<1>5. ASSUME NEW l \in imports[i].at, <<runsRoot[l].run, runsRoot[l].digest>> = imports[i].sel,
             imports' = [imports EXCEPT ![i].result = {<<runsRoot[l].run, runsRoot[l].digest>>}],
             UNCHANGED busy
      PROVE  ImportInv'
    <2>1. PICK res : res = {<<runsRoot[l].run, runsRoot[l].digest>>} OBVIOUS
    <2> QED BY <1>4, <1>5, <2>1
<1> QED BY <1>3, <1>5 DEF ImportBundle

LEMMA WritePackStep ==
    ASSUME ImportInv, NEW i \in DOMAIN imports, NEW works, WritePack(i, works) PROVE ImportInv'
<1>1. /\ AtImport(i) /\ Running(i) /\ imports[i].result # {} /\ i \notin DOMAIN packs /\ reply' = <<>>
      /\ UNCHANGED <<frozenAt, latestOf, callers, verifying>>
    BY DEF WritePack, AtImport
<1>2. OfferedIsSelected' BY <1>1, NoOffer
<1>3. CASE ~works
    <2>1. Settle(i, "FAILED_CLOSED") /\ UNCHANGED packs BY <1>3 DEF WritePack
    <2>2. imports' = [imports EXCEPT ![i] = [imports[i] EXCEPT !.status = "FAILED_CLOSED"]]
        BY <2>1 DEF Settle
    <2> QED BY <1>1, <1>2, <2>1, <2>2, StartsWait, SettleStep DEF ImportStatuses
<1>4. CASE works
    <2>1. /\ packs' = [j \in DOMAIN packs \cup {i} |->
                        IF j = i THEN [q \in PackParts |-> i] ELSE packs[j]]
          /\ UNCHANGED <<imports, busy>>
        BY <1>4 DEF WritePack
    <2>2. ImportFits(i) /\ imports[i] \in ImportRecords /\ imports[i].status = "IMPORTING"
        BY <1>1 DEF ImportInv, ImportFits, Running
    <2>3. imports[i].result = {imports[i].sel} BY <1>1, <2>2 DEF ImportFits
    <2>4. imports \in Seq(ImportRecords) BY DEF ImportInv, ImportTypes
    <2>5. imports' = [imports EXCEPT ![i] = imports[i]] BY <2>1, <2>4
    <2>6. /\ DOMAIN packs' = DOMAIN packs \cup {i}
          /\ \A j \in DOMAIN packs : packs'[j] = packs[j]
        BY <1>1, <2>1
    <2>7. DOMAIN callers' = ImportCallers /\ (\A d \in ImportCallers : StartFits(d)') /\ OneLauncher'
        BY <1>1, <2>5, StartsWait
    <2> QED BY <1>1, <1>2, <2>1, <2>2, <2>3, <2>5, <2>6, <2>7, ImportMoves
<1> QED BY <1>3, <1>4

LEMMA CompleteStep ==
    ASSUME ImportInv, NEW i \in DOMAIN imports, CompleteImport(i) PROVE ImportInv'
<1> DEFINE r == [imports[i] EXCEPT !.status = "COMPLETED", !.manifest = i]
<1>1. /\ AtImport(i) /\ Running(i) /\ i \in DOMAIN packs /\ reply' = <<>>
      /\ imports' = [imports EXCEPT ![i] = r] /\ busy' = busy \ {imports[i].poc}
      /\ UNCHANGED <<frozenAt, latestOf, packs, callers, verifying>>
    BY DEF CompleteImport, AtImport, importDisks
<1>2. ImportFits(i) /\ imports[i] \in ImportRecords BY DEF ImportInv, ImportFits
<1>3. i \in Nat BY DEF ImportInv, ImportTypes
<1>4. /\ r \in ImportRecords /\ r.status = "COMPLETED" /\ r.manifest = i /\ r.result = imports[i].result
      /\ r.poc = imports[i].poc /\ r.sel = imports[i].sel
    BY <1>2, <1>3 DEF ImportRecords, ImportStatuses
<1> HIDE DEF r
<1>5. OfferedIsSelected' BY <1>1, NoOffer
<1>6. DOMAIN callers' = ImportCallers /\ (\A d \in ImportCallers : StartFits(d)') /\ OneLauncher'
    BY <1>1, StartsWait
<1> QED BY <1>1, <1>2, <1>4, <1>5, <1>6, ImportMoves DEF ImportFits

\* What becomes as written again is seen by the verifications under way.
LEMMA ChangePackStep ==
    ASSUME ImportInv, NEW i, NEW parts, NEW content, ChangePack(i, parts, content) PROVE ImportInv'
<1>1. /\ i \in DOMAIN packs /\ reply' = <<>> /\ UNCHANGED <<frozenAt, serviceState, callers>>
      /\ packs' = [packs EXCEPT ![i] = [q \in PackParts |-> IF q \in parts THEN content ELSE packs[i][q]]]
      /\ verifying' = [v \in PackReaders |->
                       IF verifying[v] # <<>> /\ verifying[v][1].import = i
                       THEN <<[verifying[v][1] EXCEPT !.intact = @ \cup AsWritten(i)']>>
                       ELSE verifying[v]]
    BY DEF ChangePack
<1>2. /\ DOMAIN packs' = DOMAIN packs
      /\ \A j \in DOMAIN packs : j # i => packs'[j] = packs[j]
    BY <1>1
<1>3. ImportTypes' BY <1>1, <1>2 DEF ImportInv, ImportTypes, serviceState
<1>4. \A j \in DOMAIN imports' : ImportFits(j)'
    BY <1>1, <1>2 DEF ImportInv, ImportFits, BindsSelection, serviceState
<1>5. BusyIsRunning' /\ LatestIsOfThePoc'
    BY <1>1 DEF ImportInv, BusyIsRunning, Running, LatestIsOfThePoc, serviceState
<1>6. (\A c \in ImportCallers : StartFits(c)') /\ OneLauncher'
    BY <1>1, SameContracts, StartsStay DEF serviceState
<1>7. ASSUME NEW v \in PackReaders, verifying[v] # <<>> PROVE VerifierFits(v)'
    <2>1. PICK h : verifying[v] = <<h>> /\ VerifierHolds(h) BY <1>7 DEF ImportInv, VerifierFits
    <2>2. verifying[v][1] = h BY <2>1
    <2>3. CASE h.import # i
        <3>1. h.import \in DOMAIN packs BY <2>1 DEF VerifierHolds, ImportInv, ImportFits
        <3>2. AsWritten(h.import)' = AsWritten(h.import) BY <1>2, <2>3, <3>1 DEF AsWritten
        <3>3. VerifierHolds(h)' BY <1>1, <2>1, <3>2 DEF VerifierHolds, serviceState
        <3> QED BY <1>1, <2>1, <2>2, <2>3, <3>3 DEF VerifierFits
    <2>4. CASE h.import = i
        <3>1. PICK written : written = AsWritten(i)' OBVIOUS
        <3> DEFINE g == [h EXCEPT !.intact = @ \cup written]
        <3>2. verifying'[v] = <<g>> BY <1>1, <1>7, <2>2, <2>4, <3>1
        <3>3. written \subseteq PackParts BY <3>1 DEF AsWritten
        <3>4. /\ g \in Verifications /\ g.import = h.import /\ g.expected = h.expected
              /\ g.listing = h.listing /\ g.checked = h.checked /\ g.intact = h.intact \cup written
            BY <2>1, <3>3 DEF VerifierHolds, Verifications
        <3> HIDE DEF g
        <3>5. VerifierHolds(g)' BY <1>1, <2>1, <2>4, <3>1, <3>4 DEF VerifierHolds, serviceState
        <3> QED BY <3>2, <3>5 DEF VerifierFits
    <2> QED BY <2>3, <2>4
<1>8. \A v \in PackReaders : VerifierFits(v)' BY <1>1, <1>7 DEF VerifierFits
<1>9. OfferedIsSelected' BY <1>1, NoOffer
<1> QED BY <1>3, <1>4, <1>5, <1>6, <1>8, <1>9 DEF ImportInv

\* An import is of a selection its contract allows, and has a pack once it is
\* completed.
LEMMA ImportIsSelected ==
    ASSUME ImportInv, NEW i \in DOMAIN imports
    PROVE  /\ frozenAt[imports[i].poc].pinned \in {{}, {imports[i].sel}}
           /\ imports[i].status = "COMPLETED" =>
                /\ imports[i].result = {imports[i].sel} /\ i \in DOMAIN packs /\ imports[i].manifest = i
BY DEF ImportInv, ImportFits, BindsSelection

\* The latest import is offered for the contract it was started for.
LEMMA SnapshotStep ==
    ASSUME ImportInv, NEW p \in ImportPocs, ImportSnapshot(p) PROVE ImportInv'
<1>1. UNCHANGED <<frozenAt, imports, latestOf, busy, packs, callers, verifying>>
    BY DEF ImportSnapshot, importDisks, serviceState
<1>2. OfferedIsSelected'
    <2>1. CASE reply' = ImportAnswer("empty", 0) BY <2>1, NoOffer
    <2>2. CASE latestOf[p] # 0 /\ reply' = ImportAnswer("latest", latestOf[p])
        <3>1. PICK i \in DOMAIN imports : i = latestOf[p] BY <2>2 DEF ImportInv, LatestIsOfThePoc
        <3>2. reply'[1].kind = "latest" /\ reply'[1].import = i BY <2>2, <3>1 DEF ImportAnswer
        <3> QED BY <1>1, <3>2, ImportIsSelected DEF OfferedIsSelected
    <2> QED BY <2>1, <2>2 DEF ImportSnapshot
<1> QED BY <1>1, <1>2, SameContracts, StartsStay, ImportsStay

\* A verification moves on, or gives up.
LEMMA VerifierMoves ==
    ASSUME ImportInv, NEW v \in PackReaders, NEW u, verifying' = [verifying EXCEPT ![v] = u],
           u # <<>> => \E h : u = <<h>> /\ VerifierHolds(h),
           UNCHANGED <<frozenAt, imports, latestOf, busy, packs, callers>>, OfferedIsSelected'
    PROVE  ImportInv'
<1>1. /\ DOMAIN verifying' = PackReaders /\ verifying'[v] = u
      /\ \A w \in PackReaders : w # v => verifying'[w] = verifying[w]
    BY DEF ImportInv, ImportTypes
<1>2. \A h : VerifierHolds(h)' <=> VerifierHolds(h) BY DEF VerifierHolds, AsWritten
<1>3. \A w \in PackReaders : VerifierFits(w)' BY <1>1, <1>2 DEF ImportInv, VerifierFits
<1>4. ImportTypes' BY <1>1 DEF ImportInv, ImportTypes
<1>5. \A j \in DOMAIN imports' : ImportFits(j)' BY DEF ImportInv, ImportFits, BindsSelection
<1>6. BusyIsRunning' /\ LatestIsOfThePoc'
    BY DEF ImportInv, BusyIsRunning, Running, LatestIsOfThePoc
<1>7. (\A c \in ImportCallers : StartFits(c)') /\ OneLauncher' BY SameContracts, StartsStay
<1> QED BY <1>3, <1>4, <1>5, <1>6, <1>7 DEF ImportInv

LEMMA WithheldStep ==
    ASSUME ImportInv, NEW v \in PackReaders, Withheld(v),
           UNCHANGED <<importDisks, frozenAt, serviceState, callers>>
    PROVE  ImportInv'
<1>1. verifying' = [verifying EXCEPT ![v] = <<>>] /\ OfferedIsSelected' BY NoOffer DEF Withheld
<1> QED BY <1>1, VerifierMoves DEF importDisks, serviceState

LEMMA VerifyBeginStep ==
    ASSUME ImportInv, NEW v \in PackReaders, NEW p \in ImportPocs, NEW i \in DOMAIN imports,
           VerifyBegin(v, p, i)
    PROVE  ImportInv'
<1> DEFINE h == [import |-> i, expected |-> imports[i].manifest, listing |-> {}, checked |-> {},
                 intact |-> AsWritten(i)]
<1>1. UNCHANGED <<importDisks, frozenAt, serviceState, callers>> BY DEF VerifyBegin
<1>2. CASE i \in CompletedSnapshots(p)
    <2>1. verifying' = [verifying EXCEPT ![v] = <<h>>] /\ reply' = <<>> BY <1>2 DEF VerifyBegin
    <2>2. imports[i].status = "COMPLETED" BY <1>2 DEF CompletedSnapshots
    <2>3. imports[i].manifest = i BY <2>2, ImportIsSelected
    <2>4. i \in Nat BY DEF ImportInv, ImportTypes
    <2>5. AsWritten(i) \subseteq PackParts BY DEF AsWritten
    <2>6. VerifierHolds(h) BY <2>2, <2>3, <2>4, <2>5 DEF VerifierHolds, Verifications
    <2> HIDE DEF h
    <2> QED BY <1>1, <2>1, <2>6, VerifierMoves, NoOffer DEF importDisks, serviceState
<1>3. CASE i \notin CompletedSnapshots(p)
    BY <1>1, <1>3, WithheldStep DEF VerifyBegin
<1> QED BY <1>2, <1>3

\* A part that is read as its import expects it is as written.
LEMMA VerifyReadStep ==
    ASSUME ImportInv, NEW v \in PackReaders, NEW file \in PackFiles,
           VerifyManifest(v) \/ VerifyFile(v, file)
    PROVE  ImportInv'
<1>1. verifying[v] # <<>> /\ UNCHANGED <<importDisks, frozenAt, serviceState, callers>>
    BY DEF VerifyManifest, VerifyFile
<1>2. PICK h : verifying[v] = <<h>> /\ VerifierHolds(h) BY <1>1 DEF ImportInv, VerifierFits
<1>3. verifying[v][1] = h BY <1>2
<1>4. ASSUME NEW g, VerifierHolds(g), reply' = <<>>,
             verifying' = [verifying EXCEPT ![v] = [verifying[v] EXCEPT ![1] = g]]
      PROVE  ImportInv'
    <2>1. [verifying[v] EXCEPT ![1] = g] = <<g>> BY <1>2
    <2> QED BY <1>1, <1>4, <2>1, VerifierMoves, NoOffer DEF importDisks, serviceState
<1>5. CASE VerifyManifest(v) /\ ~Withheld(v)
    <2> DEFINE m == packs[h.import]["manifest"]
               g == [h EXCEPT !.listing = {m}]
    <2>1. /\ m = h.expected /\ reply' = <<>>
          /\ verifying' = [verifying EXCEPT ![v] = [verifying[v] EXCEPT ![1] = g]]
        BY <1>3, <1>5 DEF VerifyManifest, RecordedManifest
    <2>2. m = h.import BY <1>2, <2>1 DEF VerifierHolds
    <2>3. "manifest" \in h.intact BY <1>2, <2>2 DEF VerifierHolds, AsWritten, PackParts
    <2> HIDE DEF m
    <2>4. /\ g \in Verifications /\ g.import = h.import /\ g.expected = h.expected
          /\ g.listing = {h.import} /\ g.checked = h.checked /\ g.intact = h.intact
        BY <1>2, <2>2 DEF VerifierHolds, Verifications
    <2> HIDE DEF g
    <2>5. VerifierHolds(g) BY <1>2, <2>3, <2>4 DEF VerifierHolds
    <2> QED BY <1>4, <2>1, <2>5
<1>6. CASE VerifyFile(v, file) /\ ~Withheld(v)
    <2> DEFINE g == [h EXCEPT !.checked = @ \cup {file}]
    <2>1. /\ h.listing # {} /\ packs[h.import][file] \in h.listing /\ reply' = <<>>
          /\ verifying' = [verifying EXCEPT ![v] = [verifying[v] EXCEPT ![1] = g]]
        BY <1>3, <1>6 DEF VerifyFile
    <2>2. packs[h.import][file] = h.import BY <1>2, <2>1 DEF VerifierHolds
    <2>3. file \in h.intact BY <1>2, <2>2 DEF VerifierHolds, AsWritten, PackParts
    <2>4. /\ g \in Verifications /\ g.import = h.import /\ g.expected = h.expected
          /\ g.listing = h.listing /\ g.checked = h.checked \cup {file} /\ g.intact = h.intact
        BY <1>2 DEF VerifierHolds, Verifications
    <2> HIDE DEF g
    <2>5. VerifierHolds(g) BY <1>2, <2>1, <2>3, <2>4 DEF VerifierHolds
    <2> QED BY <1>4, <2>1, <2>5
<1> QED BY <1>1, <1>5, <1>6, WithheldStep

\* A pack is answered for when all of its parts have been as written.
LEMMA VerifyAnswerStep ==
    ASSUME ImportInv, NEW v \in PackReaders, VerifyAnswer(v) PROVE ImportInv'
<1>1. /\ verifying[v] # <<>> /\ verifying' = [verifying EXCEPT ![v] = <<>>]
      /\ UNCHANGED <<importDisks, frozenAt, serviceState, callers>>
    BY DEF VerifyAnswer
<1>2. PICK h : verifying[v] = <<h>> /\ VerifierHolds(h) BY <1>1 DEF ImportInv, VerifierFits
<1>3. verifying[v][1] = h BY <1>2
<1>4. /\ h.checked = PackFiles
      /\ reply' = <<[kind |-> "pack", import |-> h.import, packet |-> packs[h.import]["packet"],
                     intact |-> h.intact]>>
    BY <1>3 DEF VerifyAnswer
<1>5. h.intact = PackParts
    BY <1>2, <1>4 DEF VerifierHolds, Verifications, PackParts, PackFiles
<1>6. h.import \in DOMAIN imports /\ imports[h.import].status = "COMPLETED" BY <1>2 DEF VerifierHolds
<1>7. reply'[1].kind = "pack" /\ reply'[1].import = h.import /\ reply'[1].intact = h.intact
    BY <1>4
<1>8. OfferedIsSelected'
    BY <1>1, <1>5, <1>6, <1>7, ImportIsSelected DEF OfferedIsSelected, importDisks, serviceState
<1> QED BY <1>1, <1>8, VerifierMoves DEF importDisks, serviceState

LEMMA ImportKeeps == ImportInv /\ [PocImportNext]_importVars => ImportInv'
<1> SUFFICES ASSUME ImportInv, [PocImportNext]_importVars PROVE ImportInv' OBVIOUS
<1>1. CASE UNCHANGED importVars
    <2>1. UNCHANGED <<frozenAt, imports, latestOf, busy, packs, callers, verifying, reply>>
        BY <1>1 DEF importVars, importDisks, serviceState
    <2>2. OfferedIsSelected' BY <2>1 DEF ImportInv, OfferedIsSelected
    <2> QED BY <2>1, <2>2, SameContracts, StartsStay, ImportsStay
<1>2. CASE PocImportNext
    <2>1. ASSUME NEW v \in PackReaders, VerifyFails(v) PROVE ImportInv'
        BY <2>1, WithheldStep DEF VerifyFails
    <2>2. ASSUME NEW v \in PackReaders, VerifyManifest(v) PROVE ImportInv'
        BY <2>2, VerifyReadStep DEF PackFiles
    <2> QED BY <1>2, <2>1, <2>2, FreezeExternalStep, SnapshotStep, ChangeRootStep, StartLookupStep,
               StartResolveStep, StartAdmitStep, StartLaunchStep, ImportBundleStep, WritePackStep,
               CompleteStep, ChangePackStep, VerifyBeginStep, VerifyReadStep, VerifyAnswerStep
            DEF PocImportNext
<1> QED BY <1>1, <1>2

\* One running import of a POC, and as many as its being active says.
LEMMA OneImport == ImportInv => ActiveIsImporting
<1> SUFFICES ASSUME ImportInv, NEW p \in ImportPocs
             PROVE  LET running == {i \in DOMAIN imports : imports[i].poc = p /\ imports[i].status = "IMPORTING"}
                    IN Cardinality(running) <= 1 /\ (p \in busy <=> running # {})
    BY DEF ActiveIsImporting
<1> DEFINE running == {i \in DOMAIN imports : imports[i].poc = p /\ imports[i].status = "IMPORTING"}
<1>1. p \in busy <=> running # {} BY DEF ImportInv, BusyIsRunning, Running
<1>2. \A i, j \in running : i = j BY DEF ImportInv, BusyIsRunning, Running
<1> HIDE DEF running
<1>3. Cardinality(running) <= 1
    <2>1. CASE running = {} BY <2>1, FS_EmptySet
    <2>2. CASE running # {}
        <3>1. PICK i : running = {i} BY <1>2, <2>2
        <3> QED BY <3>1, FS_Singleton
    <2> QED BY <2>1, <2>2
<1> QED BY <1>1, <1>3 DEF running

-----------------------------------------------------------------------------
(***************************************************************************)
(* InferdromeDispatch.                                                     *)
(***************************************************************************)

\* What a process may be at, and what it goes to when its directory is synced.
Going == {"root", "materialize", "done", "reserve", "spawn", "dispatch", "launch", "wait", "finalize",
          "intent", "admit", "save", "answer"}
ProcTypes ==
    [Operators -> [at : Going \cup {"idle", "sync"}, op : Ops \cup {None}, then : Going \cup {None}]]
Where(p) == IF At(p, "sync") THEN procs[p].then ELSE procs[p].at

\* Where a process holds the lock of its operation.
Locking == {"reserve", "spawn", "launch", "wait", "intent", "admit", "save", "answer"}

InPlace(p) ==
    /\ At(p, "sync") => procs[p].then \in Going
    /\ Where(p) # "idle" => procs[p].op \in DOMAIN dirs
    /\ Where(p) \notin {"idle", "root"} => procs[p].op \notin pending[0]
    /\ Where(p) = "spawn" => Has(procs[p].op, "retry")
    /\ Where(p) \in Locking => held[procs[p].op] = p

\* A directory that may be lost is empty.
Stores ==
    /\ reserved \in 0..MaxOps
    /\ DOMAIN pending = Ops \cup {0}
    /\ DOMAIN dirs \subseteq 1..reserved
    /\ \A o, name : Has(o, name) => o \notin pending[0]
    /\ \A o \in DOMAIN dirs : Has(o, "retry") => dirs[o]["retry"] \in 1..reserved

Placed ==
    /\ Stores
    /\ procs \in ProcTypes
    /\ held \in [Ops -> Operators \cup {None}]
    /\ \A p \in Operators : InPlace(p)

\* A file that is there whatever loses power.
Durable(o, name) == Has(o, name) /\ name \notin pending[o]

\* A receipt is durable before a result names it, and a result before it is the answer.
Durably(p) ==
    LET o == procs[p].op IN
    /\ Where(p) = "save" => Has(o, "receipt")
    /\ At(p, "save") => Durable(o, "receipt")
    /\ Where(p) = "answer" => Has(o, "result")
    /\ At(p, "answer") => Durable(o, "result")

NamesReceipt(o) ==
    Has(o, "result") /\ dirs[o]["result"] # Rejection =>
        Durable(o, "receipt") /\ dirs[o]["receipt"] = dirs[o]["result"].receipt

ResultsKept ==
    /\ \A o \in DOMAIN dirs : NamesReceipt(o)
    /\ \A p \in Operators : Durably(p)
    /\ \A a \in answers : Durable(a[1], "result") /\ dirs[a[1]]["result"] = a[2]

\* An operation that ended with no producer left.
Settled == Refusals \ {"PROCESS_CONTROL_FAILED"}
Over(o) ==
    IF Has(o, "e2") THEN dirs[o]["e2"] \in Settled ELSE Has(o, "e1") /\ dirs[o]["e1"] \in Settled

\* What a process that retries, or runs the producer, has found.
Follows(p) ==
    LET o == procs[p].op IN
    /\ Where(p) = "reserve" => Over(o)
    /\ Where(p) \in {"launch", "wait"} =>
            Has(o, "e1") /\ dirs[o]["e1"] = "RUNNING" /\ ~Has(o, "e2")
    /\ Where(p) = "launch" => o \notin alive

\* While no power was lost the operations are one chain of retries, each over
\* before the next, and the producer that runs is of the last.
Chain ==
    losses = 0 =>
        /\ \A o \in 1..(reserved - 1) : Has(o, "retry")
        /\ \A o \in DOMAIN dirs : Has(o, "retry") =>
                dirs[o]["retry"] = o + 1 /\ o + 1 <= reserved /\ Over(o)
        /\ \A o \in DOMAIN dirs : Has(o, "e2") => Has(o, "e1")
        /\ \A p \in Operators : Follows(p)
        /\ \A o \in alive : Has(o, "e1") /\ ~Over(o)

DispatchInv == Placed /\ ResultsKept /\ Chain

-----------------------------------------------------------------------------
(* What a step does to the processes, the locks and the files. *)

ProcMoves(p) == procs' \in ProcTypes /\ \A q \in Operators \ {p} : procs'[q] = procs[q]

LocksKept(p) ==
    /\ held' \in [Ops -> Operators \cup {None}]
    /\ \A q \in Operators \ {p}, o \in Ops : held[o] = q => held'[o] = q

\* Nothing goes or changes, and nothing that was durable is pending again.
Growth ==
    /\ DOMAIN dirs \subseteq DOMAIN dirs' /\ DOMAIN pending' = Ops \cup {0}
    /\ \A o \in DOMAIN dirs : o \in pending'[0] => o \in pending[0]
    /\ \A o, name : Has(o, name) =>
        /\ Has(o, name)' /\ dirs'[o][name] = dirs[o][name]
        /\ name \in pending'[o] => name \in pending[o]

\* No name but this comes to a directory.
NoOther(o, name) == \A x, n : x # o \/ n # name => (Has(x, n)' <=> Has(x, n))
NoFile == \A x, n : Has(x, n)' <=> Has(x, n)

LEMMA GoesEffect ==
    ASSUME Placed, NEW p \in Operators, NEW w \in Going, Goes(p, w)
    PROVE  /\ ProcMoves(p) /\ procs'[p].at = w /\ procs'[p].op = procs[p].op
           /\ Where(p)' = w /\ ~At(p, "sync")' /\ \A v : At(p, v)' <=> v = w
<1>1. procs' = [procs EXCEPT ![p] = [procs[p] EXCEPT !.at = w]] BY DEF Goes
<1>2. procs[p] \in [at : Going \cup {"idle", "sync"}, op : Ops \cup {None}, then : Going \cup {None}]
    BY DEF Placed, ProcTypes
<1>3. w # "sync" BY DEF Going
<1> QED BY <1>1, <1>2, <1>3 DEF Placed, ProcTypes, ProcMoves, Where, At

LEMMA OpenedEffect ==
    ASSUME Placed, NEW p \in Operators, NEW o \in Ops, NEW w \in Going, Opened(p, o, w)
    PROVE  /\ ProcMoves(p) /\ procs'[p].at = w /\ procs'[p].op = o
           /\ Where(p)' = w /\ ~At(p, "sync")' /\ \A v : At(p, v)' <=> v = w
<1>1. procs' = [procs EXCEPT ![p] = [at |-> w, op |-> o, then |-> None]] BY DEF Opened
<1>2. w # "sync" BY DEF Going
<1> QED BY <1>1, <1>2 DEF Placed, ProcTypes, ProcMoves, Where, At

LEMMA SyncsEffect ==
    ASSUME Placed, NEW p \in Operators, NEW w \in Going,
           procs' = [procs EXCEPT ![p].at = "sync", ![p].then = w]
    PROVE  /\ ProcMoves(p) /\ procs'[p].then = w /\ procs'[p].op = procs[p].op
           /\ Where(p)' = w /\ At(p, "sync")' /\ \A v : At(p, v)' <=> v = "sync"
<1>1. procs' = [procs EXCEPT ![p] = [procs[p] EXCEPT !.at = "sync", !.then = w]] OBVIOUS
<1>2. procs[p] \in [at : Going \cup {"idle", "sync"}, op : Ops \cup {None}, then : Going \cup {None}]
    BY DEF Placed, ProcTypes
<1> QED BY <1>1, <1>2 DEF Placed, ProcTypes, ProcMoves, Where, At

LEMMA IdleEffect ==
    ASSUME Placed, NEW p \in Operators, procs' = [procs EXCEPT ![p] = Idle]
    PROVE  ProcMoves(p) /\ Where(p)' = "idle" /\ \A v : At(p, v)' <=> v = "idle"
BY DEF Placed, ProcTypes, ProcMoves, Where, At, Idle

LEMMA UnlockEffect ==
    ASSUME Placed, NEW p \in Operators, held' = Unlocked(p) PROVE LocksKept(p)
BY DEF Placed, LocksKept, Unlocked

LEMMA LockEffect ==
    ASSUME Placed, NEW p \in Operators, NEW o \in Ops, Lock(p, o) PROVE LocksKept(p) /\ held'[o] = p
BY DispatchAssumption DEF Placed, LocksKept, Lock

LEMMA HeldStays == ASSUME Placed, NEW p \in Operators, UNCHANGED held PROVE LocksKept(p)
BY DEF Placed, LocksKept

LEMMA FileAdded ==
    ASSUME Placed, NEW o \in DOMAIN dirs, NEW name, NEW content, ~Has(o, name),
           dirs' = Put(dirs, o, Put(dirs[o], name, content)),
           pending' = [pending EXCEPT ![o] = pending[o] \cup {name}]
    PROVE  /\ Growth /\ NoOther(o, name) /\ Has(o, name)' /\ pending'[0] = pending[0]
           /\ dirs'[o][name] = content /\ DOMAIN dirs' = DOMAIN dirs
           /\ \A n : Durable(o, n) => Durable(o, n)'
<1>1. o # 0 /\ DOMAIN pending = Ops \cup {0} BY DEF Placed, Stores
<1>2. /\ DOMAIN dirs' = DOMAIN dirs /\ \A x \in DOMAIN dirs : x # o => dirs'[x] = dirs[x]
      /\ dirs'[o] = Put(dirs[o], name, content)
    BY DEF Put
<1>3. /\ DOMAIN dirs'[o] = DOMAIN dirs[o] \cup {name} /\ dirs'[o][name] = content
      /\ \A n \in DOMAIN dirs[o] : n # name => dirs'[o][n] = dirs[o][n]
    BY <1>2 DEF Put
<1>4. \A x, n : Has(x, n)' <=> Has(x, n) \/ (x = o /\ n = name) BY <1>2, <1>3 DEF Has
<1>5. \A x, n : Has(x, n) => dirs'[x][n] = dirs[x][n] BY <1>2, <1>3 DEF Has
<1>6. /\ DOMAIN pending' = Ops \cup {0} /\ pending'[0] = pending[0]
      /\ \A x, n : Has(x, n) /\ n \in pending'[x] => n \in pending[x]
    BY <1>1 DEF Has
<1>7. Growth /\ NoOther(o, name) BY <1>2, <1>4, <1>5, <1>6 DEF Growth, NoOther
<1> QED BY <1>2, <1>3, <1>4, <1>6, <1>7 DEF Growth, Durable

LEMMA PublishEffect ==
    ASSUME Placed, NEW p \in Operators, NEW o \in DOMAIN dirs, NEW name, NEW content, NEW w \in Going,
           Publish(p, o, name, content, w)
    PROVE  /\ Growth /\ NoOther(o, name) /\ ~Has(o, name) /\ Has(o, name)'
           /\ dirs'[o][name] = content /\ DOMAIN dirs' = DOMAIN dirs /\ pending'[0] = pending[0]
           /\ \A n : Durable(o, n) => Durable(o, n)'
<1>1. /\ ~Has(o, name) /\ pending' = [pending EXCEPT ![o] = pending[o] \cup {name}]
      /\ dirs' = Put(dirs, o, Put(dirs[o], name, content))
    BY DEF Publish
<1> QED BY <1>1, FileAdded

LEMMA FilesStay == ASSUME Placed, UNCHANGED <<dirs, pending>> PROVE Growth /\ NoFile
BY DEF Placed, Stores, Growth, NoFile, Has

LEMMA NewDirectory ==
    ASSUME Placed, NEW o, o \notin DOMAIN dirs, NEW p, MakeDirectory(p, o)
    PROVE  /\ Growth /\ NoFile /\ DOMAIN dirs' = DOMAIN dirs \cup {o}
           /\ \A x, n : Has(x, n)' => x \notin pending'[0]
<1>1. /\ DOMAIN dirs' = DOMAIN dirs \cup {o} /\ dirs'[o] = EmptyDict
      /\ \A x \in DOMAIN dirs : dirs'[x] = dirs[x]
    BY DEF MakeDirectory, Put
<1>2. DOMAIN EmptyDict = {} BY DEF EmptyDict
<1>3. \A x, n : (Has(x, n)' <=> Has(x, n)) /\ (Has(x, n) => dirs'[x] = dirs[x] /\ x # o /\ x # 0)
    BY <1>1, <1>2 DEF Has, Placed, Stores
<1>4. /\ pending' = [pending EXCEPT ![0] = pending[0] \cup {o}]
      /\ DOMAIN pending = Ops \cup {0}
    BY DEF MakeDirectory, Placed, Stores
<1>5. /\ DOMAIN pending' = Ops \cup {0} /\ pending'[0] = pending[0] \cup {o}
      /\ \A x : x # 0 => pending'[x] = pending[x]
    BY <1>4
<1>6. Growth BY <1>1, <1>3, <1>5 DEF Growth
<1>7. \A x, n : Has(x, n)' => x \notin pending'[0] BY <1>3, <1>5 DEF Placed, Stores
<1> QED BY <1>1, <1>3, <1>6, <1>7 DEF NoFile

-----------------------------------------------------------------------------
(* What is left to show of a step. *)

LEMMA OperationsOnly == ASSUME Stores PROVE DOMAIN dirs \subseteq Ops
BY DispatchAssumption DEF Stores, Ops

LEMMA PlacedStays ==
    ASSUME Placed, NEW p \in Operators, ProcMoves(p), LocksKept(p), Growth, InPlace(p)', Stores'
    PROVE  Placed'
<1>1. ASSUME NEW q \in Operators \ {p} PROVE InPlace(q)'
    <2>1. procs'[q] = procs[q] /\ InPlace(q) BY DEF ProcMoves, Placed
    <2>2. DOMAIN dirs \subseteq Ops BY OperationsOnly DEF Placed
    <2>3. Where(q) \in Locking => Where(q) # "idle" BY DEF Locking
    <2> QED BY <2>1, <2>2, <2>3 DEF InPlace, At, Where, Growth, LocksKept
<1> QED BY <1>1 DEF Placed, ProcMoves, LocksKept

LEMMA ResultsStay ==
    ASSUME Placed, ResultsKept, NEW p \in Operators, ProcMoves(p), Growth, Durably(p)',
           \A o \in DOMAIN dirs' : Has(o, "result")' => Has(o, "result") \/ NamesReceipt(o)',
           \A a \in answers' : a \in answers \/ (Durable(a[1], "result")' /\ dirs'[a[1]]["result"] = a[2])
    PROVE  ResultsKept'
<1>1. \A o, n : Durable(o, n) => Durable(o, n)' BY DEF Durable, Growth
<1>2. ASSUME NEW o \in DOMAIN dirs' PROVE NamesReceipt(o)'
    <2>1. CASE Has(o, "result")
        <3>1. o \in DOMAIN dirs BY <2>1 DEF Has
        <3>2. NamesReceipt(o) BY <3>1 DEF ResultsKept
        <3> QED BY <1>1, <2>1, <3>2 DEF NamesReceipt, Growth, Durable
    <2>2. CASE ~Has(o, "result") BY <2>2 DEF NamesReceipt
    <2> QED BY <2>1, <2>2
<1>3. ASSUME NEW q \in Operators \ {p} PROVE Durably(q)'
    <2>1. procs'[q] = procs[q] /\ Durably(q) BY DEF ProcMoves, ResultsKept
    <2> QED BY <1>1, <2>1 DEF Durably, At, Where, Growth
<1>4. ASSUME NEW a \in answers' PROVE Durable(a[1], "result")' /\ dirs'[a[1]]["result"] = a[2]
    BY <1>1, <1>4 DEF ResultsKept, Durable, Growth
<1> QED BY <1>2, <1>3, <1>4 DEF ResultsKept

LEMMA ChainStays ==
    ASSUME Placed, Chain, NEW p \in Operators, ProcMoves(p), Growth, losses = 0 => Follows(p)',
           losses' = losses, reserved' = reserved, alive' \subseteq alive,
           \A o : \A n \in {"e1", "e2", "retry"} : Has(o, n)' <=> Has(o, n)
    PROVE  Chain'
<1> SUFFICES ASSUME losses = 0 PROVE Chain' BY DEF Chain
<1>1. \A o : Over(o)' <=> Over(o) BY DEF Over, Growth
<1>2. ASSUME NEW q \in Operators \ {p} PROVE Follows(q)'
    <2>1. procs'[q] = procs[q] /\ Follows(q) BY DEF ProcMoves, Chain
    <2> QED BY <1>1, <2>1 DEF Follows, At, Where, Growth
<1>3. \A o \in 1..(reserved' - 1) : Has(o, "retry")' BY DEF Chain
<1>4. ASSUME NEW o \in DOMAIN dirs', Has(o, "retry")'
      PROVE  dirs'[o]["retry"] = o + 1 /\ o + 1 <= reserved' /\ Over(o)'
    <2>1. Has(o, "retry") /\ o \in DOMAIN dirs BY <1>4 DEF Has
    <2> QED BY <1>1, <2>1 DEF Chain, Growth
<1>5. \A o \in alive' : Has(o, "e1")' /\ ~Over(o)' BY <1>1 DEF Chain
<1>6. \A o \in DOMAIN dirs' : Has(o, "e2")' => Has(o, "e1")' BY DEF Chain, Has
<1> QED BY <1>2, <1>3, <1>4, <1>5, <1>6 DEF Chain


LEMMA StoresStay ==
    ASSUME Placed, Growth, DOMAIN dirs' = DOMAIN dirs, reserved' = reserved,
           \A o : Has(o, "retry")' <=> Has(o, "retry"),
           \A o, n : Has(o, n)' => Has(o, n) \/ o \notin pending[0]
    PROVE  Stores'
<1>1. \A o \in DOMAIN dirs' : Has(o, "retry")' => dirs'[o]["retry"] \in 1..reserved'
    BY DEF Placed, Stores, Growth
<1>2. \A o, n : Has(o, n)' => o \in DOMAIN dirs /\ o \notin pending[0]
    BY DEF Placed, Stores, Has
<1>3. \A o, n : Has(o, n)' => o \notin pending'[0] BY <1>2 DEF Growth
<1> QED BY <1>1, <1>3 DEF Placed, Stores, Growth

LEMMA AtWork ==
    ASSUME Placed, NEW p \in Operators, Where(p) # "idle"
    PROVE  /\ procs[p].op \in DOMAIN dirs /\ procs[p].op \in Ops
           /\ Where(p) # "root" => procs[p].op \notin pending[0]
BY OperationsOnly DEF Placed, InPlace

LEMMA WhereIs == ASSUME NEW p, NEW w \in Going \cup {"idle"}, At(p, w) PROVE Where(p) = w /\ ~At(p, "sync")
BY DEF Where, At, Going

\* What a process writes leaves the places and the results as they should be.
LEMMA Written ==
    ASSUME Placed, ResultsKept, NEW p \in Operators, NEW o \in DOMAIN dirs, o = procs[p].op,
           NEW name, NEW content, NEW w \in Going, Publish(p, o, name, content, w),
           Where(p) \notin {"idle", "root"},
           LocksKept(p), w \in Locking => held'[o] = p, Stores', answers' = answers,
           w = "spawn" => name = "retry", w = "save" => name = "receipt", w = "answer" => name = "result",
           name = "result" => content = Rejection \/
                (Durable(o, "receipt") /\ content.receipt = dirs[o]["receipt"])
    PROVE  Placed' /\ ResultsKept'
<1>1. o \in Ops BY OperationsOnly DEF Placed
<1>2. /\ Growth /\ NoOther(o, name) /\ ~Has(o, name) /\ Has(o, name)'
      /\ dirs'[o][name] = content /\ DOMAIN dirs' = DOMAIN dirs /\ pending'[0] = pending[0]
      /\ \A n : Durable(o, n) => Durable(o, n)'
    BY <1>1, PublishEffect
<1>3. procs' = [procs EXCEPT ![p].at = "sync", ![p].then = w] BY DEF Publish
<1>4. /\ ProcMoves(p) /\ procs'[p].then = w /\ procs'[p].op = o
      /\ Where(p)' = w /\ \A v : At(p, v)' <=> v = "sync"
    BY <1>3, SyncsEffect
<1>5. InPlace(p)' BY <1>2, <1>4, AtWork DEF InPlace
<1>6. Placed' BY <1>2, <1>4, <1>5, PlacedStays
<1>7. Durably(p)' BY <1>2, <1>4 DEF Durably
<1>8. \A x \in DOMAIN dirs' : Has(x, "result")' => Has(x, "result") \/ NamesReceipt(x)'
    <2> SUFFICES ASSUME NEW x \in DOMAIN dirs', Has(x, "result")', ~Has(x, "result") PROVE NamesReceipt(x)'
        OBVIOUS
    <2>1. x = o /\ name = "result" BY <1>2 DEF NoOther
    <2>2. CASE content = Rejection BY <1>2, <2>1, <2>2 DEF NamesReceipt, Rejection
    <2>3. CASE content # Rejection
        <3>1. Durable(o, "receipt")' /\ dirs'[o]["receipt"] = dirs[o]["receipt"]
            BY <1>2, <2>1, <2>3 DEF Durable, Growth
        <3> QED BY <1>2, <2>1, <2>3, <3>1 DEF NamesReceipt
    <2> QED BY <2>2, <2>3
<1>9. ResultsKept' BY <1>2, <1>4, <1>7, <1>8, ResultsStay
<1> QED BY <1>6, <1>9

\* A process writes a file that says nothing of a run or a retry.
LEMMA WritesFile ==
    ASSUME DispatchInv, NEW p \in Operators, NEW name, NEW content,
           NEW w \in Going \ {"reserve", "spawn", "launch", "wait"}, Where(p) \notin {"idle", "root"},
           Publish(p, procs[p].op, name, content, w), name \notin {"e1", "e2", "retry"},
           UNCHANGED <<held, alive, reserved, answers, losses>>,
           w \in Locking => Where(p) \in Locking,
           w = "save" => name = "receipt", w = "answer" => name = "result",
           name = "result" => content = Rejection \/
                (Durable(procs[p].op, "receipt") /\ content.receipt = dirs[procs[p].op]["receipt"])
    PROVE  DispatchInv'
<1> PICK o : o = procs[p].op OBVIOUS
<1>0. Placed /\ ResultsKept /\ Chain BY DEF DispatchInv
<1>1. o \in DOMAIN dirs /\ o \in Ops /\ o \notin pending[0] BY <1>0, AtWork
<1>2. Growth /\ NoOther(o, name) /\ DOMAIN dirs' = DOMAIN dirs BY <1>0, <1>1, PublishEffect
<1>3. procs' = [procs EXCEPT ![p].at = "sync", ![p].then = w] BY DEF Publish
<1>4. ProcMoves(p) /\ Where(p)' = w BY <1>0, <1>3, SyncsEffect
<1>5. LocksKept(p) BY <1>0, HeldStays
<1>6. \A x : \A n \in {"e1", "e2", "retry"} : Has(x, n)' <=> Has(x, n) BY <1>2 DEF NoOther
<1>7. w \in Locking => held'[o] = p BY <1>0 DEF Placed, InPlace
<1>8. Stores' BY <1>0, <1>1, <1>2, <1>6, StoresStay DEF NoOther
<1>9. Placed' /\ ResultsKept' BY <1>0, <1>1, <1>5, <1>7, <1>8, Written
<1>10. Follows(p)' BY <1>4 DEF Follows
<1>11. Chain' BY <1>0, <1>2, <1>4, <1>6, <1>10, ChainStays
<1> QED BY <1>9, <1>11 DEF DispatchInv

\* A process relies on files that are there.
LEMMA KeepsFile ==
    ASSUME DispatchInv, NEW p \in Operators, NEW w \in {"admit", "save", "answer"}, Where(p) \in Locking,
           Kept(p, w), UNCHANGED <<held, alive, reserved, answers, losses>>,
           w = "save" => Has(procs[p].op, "receipt"), w = "answer" => Has(procs[p].op, "result")
    PROVE  DispatchInv'
<1> PICK o : o = procs[p].op OBVIOUS
<1>0. Placed /\ ResultsKept /\ Chain BY DEF DispatchInv
<1>1. Where(p) \notin {"idle", "root"} BY DEF Locking
<1>2. o \in DOMAIN dirs /\ o \notin pending[0] BY <1>0, <1>1, AtWork
<1>3. UNCHANGED <<dirs, pending>> /\ procs' = [procs EXCEPT ![p].at = "sync", ![p].then = w] BY DEF Kept
<1>4. Growth /\ NoFile BY <1>0, <1>3, FilesStay
<1>5. w \in Going BY DEF Going
<1>6. /\ ProcMoves(p) /\ procs'[p].then = w /\ procs'[p].op = o
      /\ Where(p)' = w /\ \A v : At(p, v)' <=> v = "sync"
    BY <1>0, <1>3, <1>5, SyncsEffect
<1>7. LocksKept(p) BY <1>0, HeldStays
<1>8. InPlace(p)'
    <2>1. held'[o] = p BY <1>0 DEF Placed, InPlace
    <2> QED BY <1>2, <1>3, <1>5, <1>6, <2>1 DEF InPlace
<1>9. Stores' BY <1>0, <1>3, <1>4, StoresStay DEF NoFile
<1>10. Placed' BY <1>0, <1>4, <1>6, <1>7, <1>8, <1>9, PlacedStays
<1>11. Durably(p)' BY <1>4, <1>6 DEF Durably, NoFile
<1>12. ResultsKept' BY <1>0, <1>4, <1>6, <1>11, ResultsStay DEF NoFile
<1>13. Follows(p)' BY <1>6 DEF Follows
<1>14. Chain' BY <1>0, <1>4, <1>6, <1>13, ChainStays DEF NoFile
<1> QED BY <1>10, <1>12, <1>14 DEF DispatchInv

\* A process only moves: no file, lock or producer changes but by what it gives up.
LEMMA MovesOnly ==
    ASSUME DispatchInv, NEW p \in Operators, ProcMoves(p), LocksKept(p), Growth, NoFile,
           DOMAIN dirs' = DOMAIN dirs, UNCHANGED <<reserved, answers, losses>>, alive' \subseteq alive,
           InPlace(p)', Durably(p)', losses = 0 => Follows(p)'
    PROVE  DispatchInv'
<1>0. Placed /\ ResultsKept /\ Chain BY DEF DispatchInv
<1>1. \A x, n : Has(x, n)' <=> Has(x, n) BY DEF NoFile
<1>2. Stores' BY <1>0, <1>1, StoresStay
<1>3. Placed' BY <1>0, <1>2, PlacedStays
<1>4. ResultsKept' BY <1>0, <1>1, ResultsStay
<1>5. Chain' BY <1>0, <1>1, ChainStays
<1> QED BY <1>3, <1>4, <1>5 DEF DispatchInv

LEMMA GoesIdle ==
    ASSUME DispatchInv, NEW p \in Operators, LocksKept(p), procs' = [procs EXCEPT ![p] = Idle],
           UNCHANGED <<dirs, pending, reserved, answers, losses>>, alive' \subseteq alive
    PROVE  DispatchInv'
<1>0. Placed BY DEF DispatchInv
<1>1. ProcMoves(p) /\ Where(p)' = "idle" /\ \A v : At(p, v)' <=> v = "idle" BY <1>0, IdleEffect
<1>2. Growth /\ NoFile BY <1>0, FilesStay
<1>3. InPlace(p)' BY <1>1 DEF InPlace, Locking
<1>4. Durably(p)' BY <1>1 DEF Durably
<1>5. Follows(p)' BY <1>1 DEF Follows
<1> QED BY <1>1, <1>2, <1>3, <1>4, <1>5, MovesOnly

LEMMA DieStep == ASSUME DispatchInv, NEW p \in Operators, Die(p) PROVE DispatchInv'
<1>1. LocksKept(p) BY UnlockEffect DEF DispatchInv, Die
<1> QED BY <1>1, GoesIdle DEF Die

LEMMA CallEndsStep == ASSUME DispatchInv, NEW p \in Operators, Return(p) PROVE DispatchInv'
<1>1. LocksKept(p) BY UnlockEffect DEF DispatchInv, Return
<1>2. /\ procs' = [procs EXCEPT ![p] = Idle] /\ alive' \subseteq alive
      /\ UNCHANGED <<dirs, pending, reserved, answers, losses>>
    BY DEF Return
<1> QED BY <1>1, <1>2, GoesIdle

\* The answer is a result that no loss of power takes away.
LEMMA AnswerStep == ASSUME DispatchInv, NEW p \in Operators, Answer(p) PROVE DispatchInv'
<1>0. Placed /\ ResultsKept /\ Chain BY DEF DispatchInv
<1>1. ProcMoves(p) /\ Where(p)' = "idle" /\ \A v : At(p, v)' <=> v = "idle"
    BY <1>0, IdleEffect DEF Answer
<1>2. LocksKept(p) BY <1>0, UnlockEffect DEF Answer
<1>3. Growth /\ NoFile /\ UNCHANGED <<dirs, pending, alive, bundle, reserved, losses>>
    BY <1>0, FilesStay DEF Answer
<1>4. InPlace(p)' BY <1>1 DEF InPlace, Locking
<1>5. Durably(p)' BY <1>1 DEF Durably
<1>6. Follows(p)' BY <1>1 DEF Follows
<1>7. \A x, n : Has(x, n)' <=> Has(x, n) BY <1>3 DEF NoFile
<1>8. Stores' BY <1>0, <1>3, <1>7, StoresStay
<1>9. Placed' BY <1>0, <1>1, <1>2, <1>3, <1>4, <1>8, PlacedStays
<1>10. \A a \in answers' : a \in answers \/ (Durable(a[1], "result")' /\ dirs'[a[1]]["result"] = a[2])
    <2>1. answers' = answers \cup {<<procs[p].op, dirs[procs[p].op]["result"]>>} /\ At(p, "answer")
        BY DEF Answer
    <2>2. Durable(procs[p].op, "result") BY <1>0, <2>1 DEF ResultsKept, Durably
    <2>3. \A o, n : Durable(o, n) => Durable(o, n)' BY <1>3 DEF Durable, Has
    <2>4. PICK o : o = procs[p].op OBVIOUS
    <2>5. Durable(o, "result")' BY <2>2, <2>3, <2>4
    <2>6. \A a \in answers' : a \in answers \/ (a[1] = o /\ a[2] = dirs[o]["result"]) BY <2>1, <2>4
    <2>7. dirs' = dirs BY <1>3
    <2> QED BY <2>5, <2>6, <2>7
<1>11. ResultsKept' BY <1>0, <1>1, <1>3, <1>5, <1>7, <1>10, ResultsStay
<1>12. Chain' BY <1>0, <1>1, <1>3, <1>6, <1>7, ChainStays
<1> QED BY <1>9, <1>11, <1>12 DEF DispatchInv

LEMMA SyncDirectoryStep ==
    ASSUME DispatchInv, NEW p \in Operators, SyncDirectory(p) PROVE DispatchInv'
<1>0. Placed /\ ResultsKept /\ Chain BY DEF DispatchInv
<1> PICK o : o = procs[p].op OBVIOUS
<1> PICK w : w = procs[p].then OBVIOUS
<1>1. /\ At(p, "sync") /\ pending' = [pending EXCEPT ![o] = {}]
      /\ held' = IF w = "finalize" THEN Unlocked(p) ELSE held
      /\ Goes(p, w) /\ UNCHANGED <<dirs, alive, bundle, reserved, answers, losses>>
    BY DEF SyncDirectory
<1>2. w \in Going /\ Where(p) = w BY <1>0, <1>1 DEF Placed, InPlace, Where
<1>3. w # "idle" /\ w # "sync" BY <1>2 DEF Going
<1>4. o \in DOMAIN dirs /\ o \in Ops /\ o # 0 /\ (w # "root" => o \notin pending[0])
    BY <1>0, <1>2, <1>3, AtWork DEF Ops
<1>5. /\ ProcMoves(p) /\ procs'[p].at = w /\ procs'[p].op = o
      /\ Where(p)' = w /\ ~At(p, "sync")' /\ \A v : At(p, v)' <=> v = w
    BY <1>0, <1>1, <1>2, GoesEffect
<1>6. LocksKept(p) BY <1>0, <1>1, UnlockEffect, HeldStays
<1>7. Growth /\ NoFile /\ pending'[o] = {} /\ pending'[0] = pending[0]
    BY <1>0, <1>1, <1>4 DEF Placed, Stores, Growth, NoFile, Has
<1>8. InPlace(p)'
    <2>1. w \in Locking => held'[o] = p BY <1>0, <1>1, <1>2 DEF Placed, InPlace, Locking
    <2>2. w = "spawn" => Has(o, "retry") BY <1>0, <1>2 DEF Placed, InPlace
    <2> QED BY <1>1, <1>4, <1>5, <1>7, <2>1, <2>2 DEF InPlace, NoFile
<1>9. Durably(p)'
    <2>1. (w = "save" => Has(o, "receipt")) /\ (w = "answer" => Has(o, "result"))
        BY <1>0, <1>2 DEF ResultsKept, Durably
    <2> QED BY <1>5, <1>7, <2>1 DEF Durably, Durable, NoFile
<1>10. losses = 0 => Follows(p)'
    <2> SUFFICES ASSUME losses = 0 PROVE Follows(p)' OBVIOUS
    <2>1. w = "reserve" => Over(o) BY <1>0, <1>2 DEF Chain, Follows
    <2>2. Over(o)' <=> Over(o) BY <1>1 DEF Over, Has
    <2>3. w \in {"launch", "wait"} => Has(o, "e1") /\ dirs[o]["e1"] = "RUNNING" /\ ~Has(o, "e2")
        BY <1>0, <1>2 DEF Chain, Follows
    <2>4. w = "launch" => o \notin alive BY <1>0, <1>2 DEF Chain, Follows
    <2> QED BY <1>1, <1>5, <1>7, <2>1, <2>2, <2>3, <2>4 DEF Follows, NoFile
<1>11. UNCHANGED <<reserved, answers, losses>> /\ DOMAIN dirs' = DOMAIN dirs /\ alive' \subseteq alive
    BY <1>1
<1> QED BY <1>5, <1>6, <1>7, <1>8, <1>9, <1>10, <1>11, MovesOnly

LEMMA SyncRootStep ==
    ASSUME DispatchInv, NEW p \in Operators, SyncRoot(p) PROVE DispatchInv'
<1>0. Placed BY DEF DispatchInv
<1> PICK o : o = procs[p].op OBVIOUS
<1>1. /\ At(p, "root") /\ pending' = [pending EXCEPT ![0] = {}] /\ Goes(p, "materialize")
      /\ UNCHANGED <<dirs, held, alive, bundle, reserved, answers, losses>>
    BY DEF SyncRoot
<1>2. Where(p) = "root" /\ "materialize" \in Going BY <1>1, WhereIs DEF Going
<1>3. o \in DOMAIN dirs BY <1>0, <1>2, AtWork
<1>4. /\ ProcMoves(p) /\ procs'[p].op = o
      /\ Where(p)' = "materialize" /\ ~At(p, "sync")' /\ \A v : At(p, v)' <=> v = "materialize"
    BY <1>0, <1>1, <1>2, GoesEffect
<1>5. LocksKept(p) BY <1>0, <1>1, HeldStays
<1>6. Growth /\ NoFile /\ pending'[0] = {}
    <2>1. DOMAIN pending = Ops \cup {0} /\ \A x, n : Has(x, n) => x # 0 BY <1>0 DEF Placed, Stores, Has
    <2> QED BY <1>1, <2>1 DEF Growth, NoFile, Has
<1>7. InPlace(p)' BY <1>1, <1>3, <1>4, <1>6 DEF InPlace, Locking
<1>8. Durably(p)' /\ Follows(p)' BY <1>4 DEF Durably, Follows
<1>9. UNCHANGED <<reserved, answers, losses>> /\ DOMAIN dirs' = DOMAIN dirs /\ alive' \subseteq alive
    BY <1>1
<1> QED BY <1>4, <1>5, <1>6, <1>7, <1>8, <1>9, MovesOnly

\* The lock file says nothing of a run, a retry or a result.
LEMMA TouchLockStep ==
    ASSUME DispatchInv, NEW p \in Operators, Where(p) = "materialize", ~Has(procs[p].op, "lock"),
           TouchLock(p, procs[p].op), UNCHANGED <<held, alive, bundle, reserved, answers, losses>>
    PROVE  DispatchInv'
<1>0. Placed /\ ResultsKept /\ Chain BY DEF DispatchInv
<1> PICK o : o = procs[p].op OBVIOUS
<1>1. o \in DOMAIN dirs /\ o \notin pending[0] BY <1>0, AtWork
<1>2. Growth /\ NoOther(o, "lock") /\ pending'[0] = pending[0] /\ DOMAIN dirs' = DOMAIN dirs
    BY <1>0, <1>1, FileAdded DEF TouchLock
<1>3. ProcMoves(p) /\ Where(p)' = "materialize" /\ procs' = procs
    BY <1>0 DEF TouchLock, ProcMoves, Placed, Where, At
<1>4. LocksKept(p) BY <1>0, HeldStays
<1>5. \A x : \A n \in {"e1", "e2", "retry", "result"} : Has(x, n)' <=> Has(x, n) BY <1>2 DEF NoOther
<1>6. Stores' BY <1>0, <1>1, <1>2, <1>5, StoresStay DEF NoOther
<1>7. InPlace(p)'
    <2>1. InPlace(p) BY <1>0 DEF Placed
    <2> QED BY <1>1, <1>2, <1>3, <2>1 DEF InPlace, At, Locking
<1>8. Placed' BY <1>0, <1>2, <1>3, <1>4, <1>6, <1>7, PlacedStays
<1>9. Durably(p)' /\ Follows(p)' BY <1>3 DEF Durably, Follows, At, Where
<1>10. ResultsKept' BY <1>0, <1>2, <1>3, <1>5, <1>9, ResultsStay
<1>11. Chain' BY <1>0, <1>2, <1>3, <1>5, <1>9, ChainStays
<1> QED BY <1>8, <1>10, <1>11 DEF DispatchInv

LEMMA MaterializeStep ==
    ASSUME DispatchInv, NEW p \in Operators, Materialize(p) PROVE DispatchInv'
<1>1. At(p, "materialize") /\ UNCHANGED <<held, alive, bundle, reserved, answers, losses>>
    BY DEF Materialize
<1>2. Where(p) = "materialize" BY <1>1, WhereIs DEF Going
<1>3. ASSUME NEW name \in {"plan", "e0"}, NEW content, NEW w \in {"materialize", "done"},
             Publish(p, procs[p].op, name, content, w)
      PROVE  DispatchInv'
    <2>1. w \in Going \ {"reserve", "spawn", "launch", "wait"} /\ w \notin Locking BY DEF Going, Locking
    <2> QED BY <1>1, <1>2, <1>3, <2>1, WritesFile
<1>4. \/ \E plan : Publish(p, procs[p].op, "plan", plan, "materialize")
      \/ ~Has(procs[p].op, "lock") /\ TouchLock(p, procs[p].op)
      \/ Publish(p, procs[p].op, "e0", "PREPARED", "done")
    <2> DEFINE parents == {q \in DOMAIN dirs : Has(q, "retry") /\ dirs[q]["retry"] = procs[p].op}
    <2> DEFINE plan == [parent |-> IF parents = {} THEN None ELSE CHOOSE q \in parents : TRUE,
                        attempt |-> IF parents = {} THEN 1 ELSE
                            dirs[CHOOSE q \in parents : TRUE]["plan"].attempt + 1]
    <2>1. \/ Publish(p, procs[p].op, "plan", plan, "materialize")
          \/ ~Has(procs[p].op, "lock") /\ TouchLock(p, procs[p].op)
          \/ Publish(p, procs[p].op, "e0", "PREPARED", "done")
        BY Zenon DEF Materialize
    <2> HIDE DEF plan
    <2> QED BY <2>1
<1>5. CASE ~Has(procs[p].op, "lock") /\ TouchLock(p, procs[p].op) BY <1>1, <1>2, <1>5, TouchLockStep
<1> QED BY <1>3, <1>4, <1>5

LEMMA IntentStep ==
    ASSUME DispatchInv, NEW p \in Operators, NEW when, Intent(p, when) PROVE DispatchInv'
<1>1. At(p, "intent") /\ UNCHANGED <<held, alive, bundle, reserved, answers, losses>> BY DEF Intent
<1>2. Where(p) = "intent" /\ Where(p) \in Locking BY <1>1, WhereIs DEF Going, Locking
<1>3. CASE Kept(p, "admit") BY <1>1, <1>2, <1>3, KeepsFile
<1>4. CASE Publish(p, procs[p].op, "intent", when, "admit")
    <2>1. "admit" \in Going \ {"reserve", "spawn", "launch", "wait"} BY DEF Going
    <2> QED BY <1>1, <1>2, <1>4, <2>1, WritesFile
<1> QED BY <1>3, <1>4 DEF Intent

LEMMA AdmitStep == ASSUME DispatchInv, NEW p \in Operators, Admit(p) PROVE DispatchInv'
<1> PICK o : o = procs[p].op OBVIOUS
<1>1. At(p, "admit") /\ UNCHANGED <<held, alive, bundle, reserved, answers, losses>> BY DEF Admit
<1>2. Where(p) = "admit" /\ Where(p) \in Locking BY <1>1, WhereIs DEF Going, Locking
<1>3. {"save", "answer"} \subseteq Going \ {"reserve", "spawn", "launch", "wait"} BY DEF Going
<1>4. CASE Has(o, "result") /\ Kept(p, "answer") BY <1>1, <1>2, <1>4, KeepsFile
<1>5. CASE Has(o, "receipt") /\ Kept(p, "save") BY <1>1, <1>2, <1>5, KeepsFile
<1>6. CASE Publish(p, o, "result", Rejection, "answer")
    BY <1>1, <1>2, <1>3, <1>6, WritesFile
<1>7. CASE Publish(p, o, "receipt", ReceiptOf(o), "save")
    BY <1>1, <1>2, <1>3, <1>7, WritesFile
<1> QED BY <1>4, <1>5, <1>6, <1>7 DEF Admit

\* The receipt a result names was durable before.
LEMMA SaveStep == ASSUME DispatchInv, NEW p \in Operators, Save(p) PROVE DispatchInv'
<1> PICK o : o = procs[p].op OBVIOUS
<1> PICK saved : saved = [status |-> "RECEIPT_SAVED", receipt |-> dirs[o]["receipt"]] OBVIOUS
<1>1. At(p, "save") /\ UNCHANGED <<held, alive, bundle, reserved, answers, losses>> BY DEF Save
<1>2. Where(p) = "save" /\ Where(p) \in Locking BY <1>1, WhereIs DEF Going, Locking
<1>3. "answer" \in Going \ {"reserve", "spawn", "launch", "wait"} BY DEF Going
<1>4. CASE Has(o, "result") /\ Kept(p, "answer") BY <1>1, <1>2, <1>4, KeepsFile
<1>5. CASE Publish(p, o, "result", saved, "answer")
    <2>1. Durable(o, "receipt") BY <1>1 DEF DispatchInv, ResultsKept, Durably
    <2>2. saved.receipt = dirs[o]["receipt"] OBVIOUS
    <2> QED BY <1>1, <1>2, <1>3, <1>5, <2>1, <2>2, WritesFile
<1> QED BY <1>4, <1>5 DEF Save

LEMMA FinalizeStep == ASSUME DispatchInv, NEW p \in Operators, Finalize(p) PROVE DispatchInv'
<1> PICK o : o = procs[p].op OBVIOUS
<1>0. Placed BY DEF DispatchInv
<1>1. /\ At(p, "finalize") /\ Lock(p, o) /\ Goes(p, "intent")
      /\ UNCHANGED <<dirs, pending, alive, bundle, reserved, answers, losses>>
    BY DEF Finalize
<1>2. Where(p) = "finalize" /\ "intent" \in Going BY <1>1, WhereIs DEF Going
<1>3. o \in DOMAIN dirs /\ o \in Ops /\ o \notin pending[0] BY <1>0, <1>2, AtWork
<1>4. LocksKept(p) /\ held'[o] = p BY <1>0, <1>1, <1>3, LockEffect
<1>5. /\ ProcMoves(p) /\ procs'[p].op = o
      /\ Where(p)' = "intent" /\ ~At(p, "sync")' /\ \A v : At(p, v)' <=> v = "intent"
    BY <1>0, <1>1, <1>2, GoesEffect
<1>6. Growth /\ NoFile BY <1>0, <1>1, FilesStay
<1>7. InPlace(p)' BY <1>1, <1>3, <1>4, <1>5 DEF InPlace
<1>8. Durably(p)' BY <1>5 DEF Durably
<1>9. Follows(p)' BY <1>5 DEF Follows
<1>10. UNCHANGED <<reserved, answers, losses>> /\ DOMAIN dirs' = DOMAIN dirs /\ alive' \subseteq alive
    BY <1>1
<1> QED BY <1>4, <1>5, <1>6, <1>7, <1>8, <1>9, <1>10, MovesOnly

LEMMA RunOperationStep ==
    ASSUME DispatchInv, NEW p \in Operators, NEW o \in DOMAIN dirs, RunOperation(p, o)
    PROVE  DispatchInv'
<1>0. Placed BY DEF DispatchInv
<1>1. PICK w \in {"dispatch", "finalize"} : Opened(p, o, w) BY DEF RunOperation
<1>2. w \in Going /\ w \notin Locking BY DEF Going, Locking
<1>3. o \in Ops BY <1>0, OperationsOnly DEF Placed
<1>4. /\ ProcMoves(p) /\ procs'[p].op = o
      /\ Where(p)' = w /\ ~At(p, "sync")' /\ \A v : At(p, v)' <=> v = w
    BY <1>0, <1>1, <1>2, <1>3, OpenedEffect
<1>5. UNCHANGED <<dirs, pending, held, alive, bundle, reserved, answers, losses>> BY DEF RunOperation
<1>6. LocksKept(p) /\ Growth /\ NoFile BY <1>0, <1>5, FilesStay, HeldStays
<1>7. InPlace(p)'
    <2>1. Has(o, "plan") BY DEF RunOperation, Status
    <2>2. o \notin pending[0] BY <1>0, <2>1 DEF Placed, Stores
    <2> QED BY <1>2, <1>4, <1>5, <2>2 DEF InPlace
<1>8. Durably(p)' BY <1>4 DEF Durably
<1>9. Follows(p)' BY <1>4 DEF Follows
<1>10. DOMAIN dirs' = DOMAIN dirs /\ alive' \subseteq alive BY <1>5
<1> QED BY <1>4, <1>5, <1>6, <1>7, <1>8, <1>9, <1>10, MovesOnly

\* The producer, and what it leaves, change on their own.
LEMMA ProducerStep ==
    ASSUME DispatchInv, UNCHANGED <<dirs, pending, held, procs, reserved, answers, losses>>,
           alive' \subseteq alive
    PROVE  DispatchInv'
<1>1. Placed' BY DEF DispatchInv, Placed, Stores, InPlace, Where, At, Has
<1>2. \A o, n : (Durable(o, n)' <=> Durable(o, n)) /\ (Has(o, n)' <=> Has(o, n)) BY DEF Durable, Has
<1>3. ResultsKept'
    <2>1. \A o \in DOMAIN dirs' : NamesReceipt(o)' BY <1>2 DEF DispatchInv, ResultsKept, NamesReceipt
    <2>2. \A p \in Operators : Durably(p)'
        BY <1>2 DEF DispatchInv, ResultsKept, Durably, Where, At
    <2> QED BY <1>2, <2>1, <2>2 DEF DispatchInv, ResultsKept
<1>4. \A o : Over(o)' <=> Over(o) BY <1>2 DEF Over
<1>5. losses = 0 => \A p \in Operators : Follows(p)'
    BY <1>2, <1>4 DEF DispatchInv, Chain, Follows, Where, At
<1>6. Chain' BY <1>2, <1>4, <1>5 DEF DispatchInv, Chain
<1> QED BY <1>1, <1>3, <1>6 DEF DispatchInv

LEMMA PrepareStep == ASSUME DispatchInv, NEW p \in Operators, Prepare(p) PROVE DispatchInv'
<1>0. Placed /\ ResultsKept /\ Chain BY DEF DispatchInv
<1>1. /\ reserved = 0 /\ reserved' = 1 /\ MakeDirectory(p, 1) /\ Opened(p, 1, "root")
      /\ UNCHANGED <<held, alive, bundle, answers, losses>>
    BY DEF Prepare, MakeDirectory
<1>2. DOMAIN dirs = {}
    <2>1. DOMAIN dirs \subseteq 1..0 BY <1>0, <1>1 DEF Placed, Stores
    <2>2. 1..0 = {} OBVIOUS
    <2> QED BY <2>1, <2>2
<1>3. Growth /\ NoFile /\ DOMAIN dirs' = {1} BY <1>0, <1>1, <1>2, NewDirectory
<1>4. 1 \in Ops BY DispatchAssumption DEF Ops
<1>5. "root" \in Going BY DEF Going
<1>6. /\ ProcMoves(p) /\ procs'[p].op = 1
      /\ Where(p)' = "root" /\ ~At(p, "sync")' /\ \A v : At(p, v)' <=> v = "root"
    BY <1>0, <1>1, <1>4, <1>5, OpenedEffect
<1>7. \A x, n : ~Has(x, n) /\ ~Has(x, n)' BY <1>2, <1>3 DEF NoFile, Has
<1>8. Stores' BY <1>0, <1>1, <1>3, <1>7, DispatchAssumption DEF Placed, Stores, Growth
<1>9. InPlace(p)' BY <1>3, <1>6 DEF InPlace, Locking
<1>10. LocksKept(p) BY <1>0, <1>1, HeldStays
<1>11. Placed' BY <1>0, <1>3, <1>6, <1>8, <1>9, <1>10, PlacedStays
<1>12. Durably(p)' BY <1>6 DEF Durably
<1>13. ResultsKept' BY <1>0, <1>1, <1>3, <1>6, <1>7, <1>12, ResultsStay
<1>14. Chain'
    <2> SUFFICES ASSUME losses = 0 PROVE Chain' BY <1>1 DEF Chain
    <2>1. alive' = {} BY <1>0, <1>1, <1>7 DEF Chain
    <2>2. \A q \in Operators : Where(q) \notin {"reserve", "launch", "wait"}
        <3>1. \A q \in Operators : Where(q) # "idle" => procs[q].op \in {}
            BY <1>0, <1>2 DEF Placed, InPlace
        <3> QED BY <3>1
    <2>3. ASSUME NEW q \in Operators PROVE Where(q)' \notin {"reserve", "launch", "wait"}
        <3>1. CASE q = p BY <1>6, <3>1
        <3>2. CASE q # p BY <1>6, <2>2, <3>2 DEF ProcMoves, Where, At
        <3> QED BY <3>1, <3>2
    <2>4. \A q \in Operators : Follows(q)' BY <2>3 DEF Follows
    <2>5. \A o \in 1..(reserved' - 1) : Has(o, "retry")' BY <1>1
    <2> QED BY <1>7, <2>1, <2>4, <2>5 DEF Chain
<1> QED BY <1>11, <1>13, <1>14 DEF DispatchInv

LEMMA SpawnStep == ASSUME DispatchInv, NEW p \in Operators, Spawn(p) PROVE DispatchInv'
<1>0. Placed /\ ResultsKept /\ Chain BY DEF DispatchInv
<1> PICK o : o = procs[p].op OBVIOUS
<1> PICK c : c = dirs[o]["retry"] OBVIOUS
<1>1. /\ At(p, "spawn") /\ UNCHANGED <<held, alive, bundle, reserved, answers, losses>>
      /\ IF c \in DOMAIN dirs THEN Goes(p, "done") /\ UNCHANGED <<dirs, pending>>
         ELSE MakeDirectory(p, c) /\ Opened(p, c, "root")
    BY DEF Spawn, MakeDirectory
<1>2. Where(p) = "spawn" BY <1>1, WhereIs DEF Going
<1>3. o \in DOMAIN dirs /\ Has(o, "retry") /\ o \notin pending[0]
    BY <1>0, <1>2 DEF Placed, InPlace
<1>4. LocksKept(p) BY <1>0, <1>1, HeldStays
<1>5. CASE c \in DOMAIN dirs
    <2>1. Growth /\ NoFile BY <1>0, <1>1, <1>5, FilesStay
    <2>2. "done" \in Going BY DEF Going
    <2>3. /\ ProcMoves(p) /\ procs'[p].op = o
          /\ Where(p)' = "done" /\ ~At(p, "sync")' /\ \A v : At(p, v)' <=> v = "done"
        BY <1>0, <1>1, <1>5, <2>2, GoesEffect
    <2>4. InPlace(p)' BY <1>1, <1>3, <1>5, <2>3 DEF InPlace, Locking
    <2>5. Durably(p)' /\ Follows(p)' BY <2>3 DEF Durably, Follows
    <2>6. UNCHANGED <<reserved, answers, losses>> /\ DOMAIN dirs' = DOMAIN dirs /\ alive' \subseteq alive
        BY <1>1, <1>5
    <2> QED BY <1>4, <2>1, <2>3, <2>4, <2>5, <2>6, MovesOnly
<1>6. CASE c \notin DOMAIN dirs
    <2>1. /\ Growth /\ NoFile /\ DOMAIN dirs' = DOMAIN dirs \cup {c}
          /\ \A x, n : Has(x, n)' => x \notin pending'[0]
        BY <1>0, <1>1, <1>6, NewDirectory
    <2>2. c \in 1..reserved /\ reserved \in 0..MaxOps BY <1>0, <1>3 DEF Placed, Stores
    <2>3. c \in Ops BY <2>2, DispatchAssumption DEF Ops
    <2>4. "root" \in Going BY DEF Going
    <2>5. /\ ProcMoves(p) /\ procs'[p].op = c
          /\ Where(p)' = "root" /\ ~At(p, "sync")' /\ \A v : At(p, v)' <=> v = "root"
        BY <1>0, <1>1, <1>6, <2>3, <2>4, OpenedEffect
    <2>6. InPlace(p)' BY <2>1, <2>5 DEF InPlace, Locking
    <2>7. Durably(p)' /\ Follows(p)' BY <2>5 DEF Durably, Follows
    <2>8. \A x, n : Has(x, n)' <=> Has(x, n) BY <2>1 DEF NoFile
    <2>9. Stores'
        <3>1. \A x \in DOMAIN dirs' : Has(x, "retry")' => dirs'[x]["retry"] \in 1..reserved'
            <4> SUFFICES ASSUME NEW x, Has(x, "retry")' PROVE dirs'[x]["retry"] \in 1..reserved'
                OBVIOUS
            <4>1. Has(x, "retry") /\ x \in DOMAIN dirs BY <2>8 DEF Has
            <4> QED BY <1>0, <1>1, <2>1, <4>1 DEF Placed, Stores, Growth
        <3> QED BY <1>0, <1>1, <2>1, <2>2, <3>1 DEF Placed, Stores, Growth
    <2>10. Placed' BY <1>0, <1>4, <2>1, <2>5, <2>6, <2>9, PlacedStays
    <2>11. ResultsKept' BY <1>0, <1>1, <2>1, <2>5, <2>7, <2>8, ResultsStay
    <2>12. Chain' BY <1>0, <1>1, <2>1, <2>5, <2>7, <2>8, ChainStays
    <2> QED BY <2>10, <2>11, <2>12 DEF DispatchInv
<1> QED BY <1>5, <1>6

\* What a process finds ended before it retries it, no producer is left of.
LEMMA RetryStep ==
    ASSUME DispatchInv, NEW p \in Operators, NEW o \in DOMAIN dirs, Retry(p, o) PROVE DispatchInv'
<1>0. Placed /\ ResultsKept /\ Chain BY DEF DispatchInv
<1>1. /\ Status(o) \in Settled /\ Lock(p, o) /\ Opened(p, o, "reserve")
      /\ UNCHANGED <<dirs, pending, alive, bundle, reserved, answers, losses>>
    BY DEF Retry, Settled
<1>2. o \in Ops /\ "reserve" \in Going BY <1>0, OperationsOnly DEF Placed, Going
<1>3. /\ ProcMoves(p) /\ procs'[p].op = o
      /\ Where(p)' = "reserve" /\ ~At(p, "sync")' /\ \A v : At(p, v)' <=> v = "reserve"
    BY <1>0, <1>1, <1>2, OpenedEffect
<1>4. LocksKept(p) /\ held'[o] = p BY <1>0, <1>1, <1>2, LockEffect
<1>5. Growth /\ NoFile BY <1>0, <1>1, FilesStay
<1>6. Over(o)
    <2>1. "PREPARED" \notin Settled /\ "INVALID" \notin Settled BY DEF Settled, Refusals
    <2> QED BY <1>1, <2>1 DEF Status, Over
<1>7. InPlace(p)'
    <2>1. Has(o, "plan") BY <1>1 DEF Status, Settled, Refusals
    <2>2. o \notin pending[0] BY <1>0, <2>1 DEF Placed, Stores
    <2> QED BY <1>1, <1>3, <1>4, <2>2 DEF InPlace
<1>8. Durably(p)' BY <1>3 DEF Durably
<1>9. Follows(p)'
    <2>1. Over(o)' BY <1>1, <1>6 DEF Over, Has
    <2> QED BY <1>3, <2>1 DEF Follows
<1>10. UNCHANGED <<reserved, answers, losses>> /\ DOMAIN dirs' = DOMAIN dirs /\ alive' \subseteq alive
    BY <1>1
<1> QED BY <1>3, <1>4, <1>5, <1>7, <1>8, <1>9, <1>10, MovesOnly

\* The one successor comes after the last operation of the chain.
LEMMA ReserveStep == ASSUME DispatchInv, NEW p \in Operators, Reserve(p) PROVE DispatchInv'
<1>0. Placed /\ ResultsKept /\ Chain BY DEF DispatchInv
<1> PICK o : o = procs[p].op OBVIOUS
<1>1. At(p, "reserve") /\ UNCHANGED <<held, alive, bundle, answers, losses>> BY DEF Reserve
<1>2. Where(p) = "reserve" BY <1>1, WhereIs DEF Going
<1>3. o \in DOMAIN dirs /\ o \in Ops /\ o \notin pending[0] BY <1>0, <1>2, AtWork
<1>4. held[o] = p BY <1>0, <1>2 DEF Placed, InPlace, Locking
<1>5. LocksKept(p) BY <1>0, <1>1, HeldStays
<1>6. "spawn" \in Going BY DEF Going
<1>7. CASE Has(o, "retry") /\ Goes(p, "spawn") /\ UNCHANGED <<dirs, pending, reserved>>
    <2>1. Growth /\ NoFile BY <1>0, <1>7, FilesStay
    <2>2. /\ ProcMoves(p) /\ procs'[p].op = o
          /\ Where(p)' = "spawn" /\ ~At(p, "sync")' /\ \A v : At(p, v)' <=> v = "spawn"
        BY <1>0, <1>6, <1>7, GoesEffect
    <2>3. InPlace(p)' BY <1>1, <1>3, <1>4, <1>7, <2>1, <2>2 DEF InPlace, NoFile
    <2>4. Durably(p)' /\ Follows(p)' BY <2>2 DEF Durably, Follows
    <2>5. UNCHANGED <<reserved, answers, losses>> /\ DOMAIN dirs' = DOMAIN dirs /\ alive' \subseteq alive
        BY <1>1, <1>7
    <2> QED BY <1>5, <2>1, <2>2, <2>3, <2>4, <2>5, MovesOnly
<1>8. CASE /\ ~Has(o, "retry") /\ reserved < MaxOps /\ reserved' = reserved + 1
           /\ Publish(p, o, "retry", reserved + 1, "spawn")
    <2> PICK c : c = reserved + 1 OBVIOUS
    <2>1. /\ Growth /\ NoOther(o, "retry") /\ Has(o, "retry")'
          /\ dirs'[o]["retry"] = c /\ DOMAIN dirs' = DOMAIN dirs /\ pending'[0] = pending[0]
        BY <1>0, <1>3, <1>8, PublishEffect, <1>6
    <2>2. procs' = [procs EXCEPT ![p].at = "sync", ![p].then = "spawn"] BY <1>8 DEF Publish
    <2>3. ProcMoves(p) /\ Where(p)' = "spawn" BY <1>0, <1>6, <2>2, SyncsEffect
    <2>4. reserved \in 0..MaxOps /\ MaxOps \in Nat BY <1>0, DispatchAssumption DEF Placed, Stores
    <2>5. \A x : Has(x, "retry")' => (x = o /\ dirs'[x]["retry"] = c)
                    \/ (x \in DOMAIN dirs /\ Has(x, "retry") /\ dirs'[x]["retry"] = dirs[x]["retry"])
        <3> SUFFICES ASSUME NEW x, Has(x, "retry")', x # o
                     PROVE  x \in DOMAIN dirs /\ Has(x, "retry") /\ dirs'[x]["retry"] = dirs[x]["retry"]
            BY <2>1
        <3>1. Has(x, "retry") BY <2>1 DEF NoOther
        <3> QED BY <2>1, <3>1 DEF Growth, Has
    <2>6. Stores'
        <3>1. \A x \in DOMAIN dirs' : Has(x, "retry")' => dirs'[x]["retry"] \in 1..reserved'
            BY <1>0, <1>8, <2>4, <2>5 DEF Placed, Stores
        <3>2. DOMAIN pending' = Ops \cup {0} /\ \A x, n : Has(x, n)' => x \notin pending'[0]
            BY <1>0, <1>3, <2>1 DEF Growth, Placed, Stores, NoOther
        <3>3. DOMAIN dirs' \subseteq 1..reserved' BY <1>0, <1>8, <2>1, <2>4 DEF Placed, Stores
        <3>4. reserved' \in 0..MaxOps BY <1>8, <2>4
        <3> QED BY <3>1, <3>2, <3>3, <3>4 DEF Stores
    <2>7. Placed' /\ ResultsKept' BY <1>0, <1>1, <1>2, <1>3, <1>4, <1>5, <1>6, <1>8, <2>6, Written
    <2>8. Chain'
        <3> SUFFICES ASSUME losses = 0 PROVE Chain' BY <1>1 DEF Chain
        <3>1. \A x, n : n # "retry" => (Has(x, n)' <=> Has(x, n)) BY <2>1 DEF NoOther
        <3>2. \A x : Over(x)' <=> Over(x) BY <2>1, <3>1 DEF Over, Growth
        <3>3. Over(o) BY <1>0, <1>2 DEF Chain, Follows
        <3>4. o = reserved
            <4>1. o \in 1..reserved BY <1>0, <1>3 DEF Placed, Stores
            <4>2. o \notin 1..(reserved - 1) BY <1>0, <1>8 DEF Chain
            <4> QED BY <2>4, <4>1, <4>2
        <3>5. \A x \in 1..(reserved' - 1) : Has(x, "retry")'
            <4> SUFFICES ASSUME NEW x \in 1..(reserved' - 1) PROVE Has(x, "retry")' OBVIOUS
            <4>1. x = o \/ x \in 1..(reserved - 1) BY <1>8, <2>4, <3>4
            <4> QED BY <1>0, <2>1, <4>1 DEF Chain, Growth
        <3>6. ASSUME NEW x \in DOMAIN dirs', Has(x, "retry")'
              PROVE  dirs'[x]["retry"] = x + 1 /\ x + 1 <= reserved' /\ Over(x)'
            <4>1. CASE x = o /\ dirs'[x]["retry"] = c BY <1>8, <2>4, <3>2, <3>3, <3>4, <4>1
            <4>2. CASE x \in DOMAIN dirs /\ Has(x, "retry") /\ dirs'[x]["retry"] = dirs[x]["retry"]
                <5>1. x \in 1..reserved BY <1>0, <4>2 DEF Placed, Stores
                <5>2. dirs[x]["retry"] = x + 1 /\ x + 1 <= reserved /\ Over(x) BY <1>0, <4>2 DEF Chain
                <5> QED BY <1>8, <2>4, <3>2, <4>2, <5>1, <5>2
            <4> QED BY <2>5, <3>6, <4>1, <4>2
        <3>7. \A x \in DOMAIN dirs' : Has(x, "e2")' => Has(x, "e1")' BY <1>0, <2>1, <3>1 DEF Chain
        <3>8. ASSUME NEW q \in Operators PROVE Follows(q)'
            <4>1. CASE q = p BY <2>3, <4>1 DEF Follows
            <4>2. CASE q # p
                <5>1. procs'[q] = procs[q] /\ Follows(q) BY <1>0, <2>3, <4>2 DEF ProcMoves, Chain
                <5> QED BY <1>1, <2>1, <3>1, <3>2, <5>1 DEF Follows, At, Where, Growth
            <4> QED BY <4>1, <4>2
        <3>9. \A x \in alive' : Has(x, "e1")' /\ ~Over(x)' BY <1>0, <1>1, <3>1, <3>2 DEF Chain
        <3> QED BY <3>5, <3>6, <3>7, <3>8, <3>9 DEF Chain
    <2> QED BY <2>7, <2>8 DEF DispatchInv
<1> QED BY <1>7, <1>8 DEF Reserve

\* What an event leaves: places, results, and the chain when it is of an
\* operation not over that no other process retries or runs.
Begun(p) == Where(p) \notin {"idle", "root"}

LEMMA EventWritten ==
    ASSUME DispatchInv, NEW p \in Operators, NEW o \in DOMAIN dirs, o = procs[p].op,
           Begun(p), NEW name \in {"e1", "e2"}, NEW state, NEW w \in {"done", "launch", "finalize"},
           Publish(p, o, name, state, w), LocksKept(p), w = "launch" => held'[o] = p,
           UNCHANGED <<reserved, answers, losses>>
    PROVE  /\ Placed' /\ ResultsKept' /\ Growth /\ NoOther(o, name) /\ ~Has(o, name) /\ Has(o, name)'
           /\ dirs'[o][name] = state /\ DOMAIN dirs' = DOMAIN dirs
           /\ ProcMoves(p) /\ Where(p)' = w /\ procs'[p].op = o
<1>0. Placed /\ ResultsKept /\ Chain /\ Where(p) \notin {"idle", "root"} BY DEF DispatchInv, Begun
<1>1. w \in Going /\ (w \in Locking => w = "launch") BY DEF Going, Locking
<1>2. /\ Growth /\ NoOther(o, name) /\ ~Has(o, name) /\ Has(o, name)'
      /\ dirs'[o][name] = state /\ DOMAIN dirs' = DOMAIN dirs
    BY <1>0, <1>1, PublishEffect, OperationsOnly DEF Placed
<1>3. procs' = [procs EXCEPT ![p].at = "sync", ![p].then = w] BY DEF Publish
<1>4. ProcMoves(p) /\ Where(p)' = w /\ procs'[p].op = o BY <1>0, <1>1, <1>3, SyncsEffect
<1>5. \A x : Has(x, "retry")' <=> Has(x, "retry") BY <1>2 DEF NoOther
<1>6. Stores'
    <2>1. o \notin pending[0] BY <1>0, AtWork
    <2> QED BY <1>0, <1>2, <1>5, <2>1, StoresStay DEF NoOther
<1>7. Placed' /\ ResultsKept' BY <1>0, <1>1, <1>6, Written
<1> QED BY <1>2, <1>4, <1>7

LEMMA EventChain ==
    ASSUME Placed, Chain, losses = 0, NEW p \in Operators, NEW o \in DOMAIN dirs, NEW name \in {"e1", "e2"},
           Growth, NoOther(o, name), DOMAIN dirs' = DOMAIN dirs, ProcMoves(p),
           UNCHANGED <<reserved, losses>>, alive' \subseteq alive,
           ~Over(o), Has(o, "e1")', o \notin alive' \/ ~Over(o)', Follows(p)',
           \A q \in Operators \ {p} : procs[q].op = o => Where(q) \notin {"reserve", "launch", "wait"}
    PROVE  Chain'
<1>1. \A x : x # o => (Over(x)' <=> Over(x))
    <2> SUFFICES ASSUME NEW x, x # o PROVE Over(x)' <=> Over(x) OBVIOUS
    <2>1. \A n : Has(x, n)' <=> Has(x, n) BY DEF NoOther
    <2> QED BY <2>1 DEF Over, Growth
<1>2. \A x : Has(x, "retry")' <=> Has(x, "retry") BY DEF NoOther
<1>3. \A x \in 1..(reserved' - 1) : Has(x, "retry")' BY <1>2 DEF Chain
<1>4. ASSUME NEW x \in DOMAIN dirs', Has(x, "retry")'
      PROVE  dirs'[x]["retry"] = x + 1 /\ x + 1 <= reserved' /\ Over(x)'
    <2>1. Has(x, "retry") /\ dirs'[x]["retry"] = dirs[x]["retry"] BY <1>2, <1>4 DEF Growth
    <2>2. dirs[x]["retry"] = x + 1 /\ x + 1 <= reserved /\ Over(x) BY <2>1 DEF Chain
    <2>3. x # o BY <2>2
    <2> QED BY <1>1, <2>1, <2>2, <2>3
<1>5. ASSUME NEW x \in DOMAIN dirs', Has(x, "e2")' PROVE Has(x, "e1")'
    <2>1. CASE x = o BY <2>1
    <2>2. CASE x # o BY <1>5, <2>2 DEF NoOther, Chain
    <2> QED BY <2>1, <2>2
<1>6. ASSUME NEW q \in Operators PROVE Follows(q)'
    <2>1. CASE q # p
        <3> PICK x : x = procs[q].op OBVIOUS
        <3>1. procs'[q] = procs[q] /\ Follows(q) BY <2>1 DEF ProcMoves, Chain
        <3>2. Where(q)' = Where(q) BY <3>1 DEF Where, At
        <3>3. CASE x = o BY <2>1, <3>1, <3>2, <3>3 DEF Follows
        <3>4. CASE x # o
            <4>1. \A n : Has(x, n)' <=> Has(x, n) BY <3>4 DEF NoOther
            <4> QED BY <1>1, <3>1, <3>2, <3>4, <4>1 DEF Follows, Growth
        <3> QED BY <3>3, <3>4
    <2> QED BY <2>1
<1>7. ASSUME NEW x \in alive' PROVE Has(x, "e1")' /\ ~Over(x)'
    <2>1. CASE x = o BY <1>7, <2>1
    <2>2. CASE x # o BY <1>1, <1>7, <2>2 DEF NoOther, Chain
    <2> QED BY <2>1, <2>2
<1> QED BY <1>3, <1>4, <1>5, <1>6, <1>7 DEF Chain

\* The first event of an operation that nobody ran.
LEMMA DispatchStep == ASSUME DispatchInv, NEW p \in Operators, Dispatch(p) PROVE DispatchInv'
<1>0. Placed /\ ResultsKept /\ Chain BY DEF DispatchInv
<1> PICK o : o = procs[p].op OBVIOUS
<1>1. At(p, "dispatch") /\ Lock(p, o) /\ UNCHANGED <<alive, bundle, reserved, answers, losses>>
    BY DEF Dispatch
<1>2. \E state, w : /\ Publish(p, o, "e1", state, w)
                    /\ (state = "REFUSED" /\ w = "done") \/ (state = "RUNNING" /\ w = "launch")
    <2>1. Publish(p, o, "e1", "REFUSED", "done") \/ Publish(p, o, "e1", "RUNNING", "launch")
        BY DEF Dispatch
    <2> QED BY <2>1
<1>3. PICK state, w : /\ Publish(p, o, "e1", state, w)
                      /\ (state = "REFUSED" /\ w = "done") \/ (state = "RUNNING" /\ w = "launch")
    BY <1>2
<1>4. Where(p) = "dispatch" BY <1>1, WhereIs DEF Going
<1>5. o \in DOMAIN dirs /\ o \in Ops BY <1>0, <1>4, AtWork
<1>6. LocksKept(p) /\ held'[o] = p BY <1>0, <1>1, <1>5, LockEffect
<1>7. /\ Placed' /\ ResultsKept' /\ Growth /\ NoOther(o, "e1") /\ ~Has(o, "e1") /\ Has(o, "e1")'
      /\ dirs'[o]["e1"] = state /\ DOMAIN dirs' = DOMAIN dirs
      /\ ProcMoves(p) /\ Where(p)' = w /\ procs'[p].op = o
    <2>1. Publish(p, o, "e1", state, w) /\ w \in {"done", "launch", "finalize"} /\ "e1" \in {"e1", "e2"}
        BY <1>3
    <2>2. UNCHANGED <<reserved, answers, losses>> BY <1>1
    <2>3. Begun(p) BY <1>4 DEF Begun
    <2> QED BY <1>5, <1>6, <2>1, <2>2, <2>3, EventWritten
<1>8. ASSUME losses = 0 PROVE Chain'
    <2>1. ~Has(o, "e2") /\ ~Has(o, "e2")' BY <1>0, <1>5, <1>7, <1>8 DEF Chain, NoOther
    <2>2. ~Over(o) BY <1>7, <2>1 DEF Over
    <2>3. o \notin alive' BY <1>0, <1>1, <1>7, <1>8 DEF Chain
    <2>4. Follows(p)' BY <1>1, <1>3, <1>7, <2>1, <2>3 DEF Follows
    <2>5. ASSUME NEW q \in Operators \ {p}, procs[q].op = o
          PROVE  Where(q) \notin {"reserve", "launch", "wait"}
        BY <1>0, <1>7, <1>8, <2>2, <2>5 DEF Chain, Follows
    <2> QED BY <1>0, <1>1, <1>5, <1>7, <1>8, <2>2, <2>3, <2>4, <2>5, EventChain
<1>9. Chain' BY <1>1, <1>8 DEF Chain
<1> QED BY <1>7, <1>9 DEF DispatchInv

\* The last event of an operation its process has launched: no producer of an
\* operation that ended runs.
LEMMA EndStep ==
    ASSUME DispatchInv, NEW p \in Operators, NEW o, o = procs[p].op, Where(p) \in {"launch", "wait"},
           NEW state, NEW w \in {"done", "finalize"}, Publish(p, o, "e2", state, w),
           UNCHANGED <<held, reserved, answers, losses>>, alive' \subseteq alive,
           losses = 0 => o \notin alive' \/ state \notin Settled
    PROVE  DispatchInv'
<1>0. Placed /\ ResultsKept /\ Chain BY DEF DispatchInv
<1>1. o \in DOMAIN dirs /\ o \in Ops BY <1>0, AtWork
<1>2. LocksKept(p) BY <1>0, HeldStays
<1>3. /\ Placed' /\ ResultsKept' /\ Growth /\ NoOther(o, "e2") /\ ~Has(o, "e2") /\ Has(o, "e2")'
      /\ dirs'[o]["e2"] = state /\ DOMAIN dirs' = DOMAIN dirs
      /\ ProcMoves(p) /\ Where(p)' = w /\ procs'[p].op = o
    <2>1. w \in {"done", "launch", "finalize"} /\ (w = "launch" => held'[o] = p) OBVIOUS
    <2>2. Begun(p) BY DEF Begun
    <2>3. "e2" \in {"e1", "e2"} OBVIOUS
    <2>4. UNCHANGED <<reserved, answers, losses>> OBVIOUS
    <2> QED BY <1>1, <1>2, <2>1, <2>2, <2>3, <2>4, EventWritten
<1>4. ASSUME losses = 0 PROVE Chain'
    <2>1. Has(o, "e1") /\ dirs[o]["e1"] = "RUNNING" BY <1>0, <1>4 DEF Chain, Follows
    <2>2. ~Over(o) BY <1>3, <2>1 DEF Over, Settled, Refusals
    <2>3. Has(o, "e1")' BY <1>3, <2>1 DEF Growth
    <2>4. o \notin alive' \/ ~Over(o)' BY <1>3, <1>4 DEF Over
    <2>5. Follows(p)' BY <1>3 DEF Follows
    <2>6. ASSUME NEW q \in Operators \ {p}, procs[q].op = o
          PROVE  Where(q) \notin {"reserve", "launch", "wait"}
        <3>1. held[o] = p BY <1>0 DEF Placed, InPlace, Locking
        <3> QED BY <1>0, <2>6, <3>1 DEF Placed, InPlace, Locking
    <2> QED BY <1>0, <1>1, <1>3, <1>4, <2>2, <2>3, <2>4, <2>5, <2>6, EventChain
<1>5. Chain' BY <1>4 DEF Chain
<1> QED BY <1>3, <1>5 DEF DispatchInv

\* Only the process that holds the lock starts the producer.
LEMMA LaunchStep == ASSUME DispatchInv, NEW p \in Operators, Launch(p) PROVE DispatchInv'
<1>0. Placed /\ ResultsKept /\ Chain BY DEF DispatchInv
<1> PICK o : o = procs[p].op OBVIOUS
<1>1. At(p, "launch") /\ UNCHANGED <<held, bundle, reserved, answers, losses>> BY DEF Launch
<1>2. Where(p) = "launch" BY <1>1, WhereIs DEF Going
<1>3. CASE \E state \in {"CANCELLED", "FAILED"} : Publish(p, o, "e2", state, "done") /\ UNCHANGED alive
    <2>1. PICK state \in {"CANCELLED", "FAILED"} : Publish(p, o, "e2", state, "done") BY <1>3
    <2>2. losses = 0 => o \notin alive' BY <1>0, <1>2, <1>3 DEF Chain, Follows
    <2>3. alive' \subseteq alive BY <1>3
    <2> QED BY <1>1, <1>2, <2>1, <2>2, <2>3, EndStep
<1>4. CASE alive' = alive \cup {o} /\ Goes(p, "wait") /\ UNCHANGED <<dirs, pending>>
    <2>1. Growth /\ NoFile BY <1>0, <1>4, FilesStay
    <2>2. "wait" \in Going BY DEF Going
    <2>3. /\ ProcMoves(p) /\ procs'[p].op = o
          /\ Where(p)' = "wait" /\ ~At(p, "sync")' /\ \A v : At(p, v)' <=> v = "wait"
        BY <1>0, <1>4, <2>2, GoesEffect
    <2>4. o \in DOMAIN dirs /\ o \notin pending[0] BY <1>0, <1>2, AtWork
    <2>5. held[o] = p BY <1>0, <1>2 DEF Placed, InPlace, Locking
    <2>6. LocksKept(p) BY <1>0, <1>1, HeldStays
    <2>7. InPlace(p)' BY <1>1, <1>4, <2>3, <2>4, <2>5 DEF InPlace
    <2>8. \A x, n : Has(x, n)' <=> Has(x, n) BY <2>1 DEF NoFile
    <2>9. Stores' BY <1>0, <1>1, <1>4, <2>1, <2>8, StoresStay
    <2>10. Placed' BY <1>0, <2>1, <2>3, <2>6, <2>7, <2>9, PlacedStays
    <2>11. Durably(p)' BY <2>3 DEF Durably
    <2>12. ResultsKept' BY <1>0, <1>1, <2>1, <2>3, <2>8, <2>11, ResultsStay
    <2>13. ASSUME losses = 0 PROVE Chain'
        <3>1. Has(o, "e1") /\ dirs[o]["e1"] = "RUNNING" /\ ~Has(o, "e2")
            BY <1>0, <1>2, <2>13 DEF Chain, Follows
        <3>2. ~Over(o) BY <3>1 DEF Over, Settled, Refusals
        <3>3. \A x : Over(x)' <=> Over(x) BY <1>4, <2>8 DEF Over
        <3>4. ASSUME NEW q \in Operators PROVE Follows(q)'
            <4>1. CASE q = p BY <1>4, <2>3, <2>8, <3>1, <4>1 DEF Follows
            <4>2. CASE q # p
                <5>1. procs'[q] = procs[q] /\ Follows(q) BY <1>0, <2>3, <2>13, <4>2 DEF ProcMoves, Chain
                <5>2. Where(q)' = Where(q) BY <5>1 DEF Where, At
                <5>3. Where(q) = "launch" => procs[q].op # o
                    BY <1>0, <2>5, <4>2 DEF Placed, InPlace, Locking
                <5> QED BY <1>4, <2>8, <3>3, <5>1, <5>2, <5>3 DEF Follows
            <4> QED BY <4>1, <4>2
        <3>5. \A x \in alive' : Has(x, "e1")' /\ ~Over(x)'
            BY <1>0, <1>4, <2>8, <2>13, <3>1, <3>2, <3>3 DEF Chain
        <3> QED BY <1>0, <1>1, <1>4, <2>8, <2>13, <3>3, <3>4, <3>5 DEF Chain
    <2>14. Chain' BY <1>1, <2>13 DEF Chain
    <2> QED BY <2>10, <2>12, <2>14 DEF DispatchInv
<1> QED BY <1>3, <1>4 DEF Launch

\* The group is stopped before an event says that the operation ended.
LEMMA CollectStep == ASSUME DispatchInv, NEW p \in Operators, Collect(p) PROVE DispatchInv'
<1> PICK o : o = procs[p].op OBVIOUS
<1>1. At(p, "wait") /\ UNCHANGED <<held, bundle, reserved, answers, losses>> BY DEF Collect
<1>2. Where(p) = "wait" BY <1>1, WhereIs DEF Going
<1>3. CASE \E state : \E w \in {"done", "finalize"} : Publish(p, o, "e2", state, w) /\ alive' = alive \ {o}
    <2>1. PICK state : \E w \in {"done", "finalize"} : Publish(p, o, "e2", state, w) /\ alive' = alive \ {o}
        BY <1>3
    <2>2. PICK w \in {"done", "finalize"} : Publish(p, o, "e2", state, w) /\ alive' = alive \ {o} BY <2>1
    <2>3. alive' \subseteq alive /\ o \notin alive' BY <2>2
    <2> QED BY <1>1, <1>2, <2>2, <2>3, EndStep
<1>4. CASE Publish(p, o, "e2", "PROCESS_CONTROL_FAILED", "done") /\ Uncertain(o)
    <2>1. alive' \subseteq alive BY <1>4 DEF Uncertain
    <2>2. "PROCESS_CONTROL_FAILED" \notin Settled BY DEF Settled
    <2> QED BY <1>1, <1>2, <1>4, <2>1, <2>2, EndStep
<1>5. \/ \E state \in {"FAILED", "TIMED_OUT", "CANCELLED", "OUTPUT_LIMIT"} :
            Publish(p, o, "e2", state, "done") /\ Stopped(o)
      \/ \E state \in AfterReturn(o) :
            /\ Publish(p, o, "e2", state, IF state = "AWAITING_ADMISSION" THEN "finalize" ELSE "done")
            /\ Stopped(o)
      \/ Publish(p, o, "e2", "PROCESS_CONTROL_FAILED", "done") /\ Uncertain(o)
    BY DEF Collect
<1>6. CASE \E state \in {"FAILED", "TIMED_OUT", "CANCELLED", "OUTPUT_LIMIT"} :
            Publish(p, o, "e2", state, "done") /\ Stopped(o)
    BY <1>3, <1>6 DEF Stopped
<1>7. CASE \E state \in AfterReturn(o) :
            /\ Publish(p, o, "e2", state, IF state = "AWAITING_ADMISSION" THEN "finalize" ELSE "done")
            /\ Stopped(o)
    <2>1. PICK state \in AfterReturn(o) :
            /\ Publish(p, o, "e2", state, IF state = "AWAITING_ADMISSION" THEN "finalize" ELSE "done")
            /\ Stopped(o)
        BY <1>7
    <2>2. CASE state = "AWAITING_ADMISSION" BY <1>3, <2>1, <2>2 DEF Stopped
    <2>3. CASE state # "AWAITING_ADMISSION" BY <1>3, <2>1, <2>3 DEF Stopped
    <2> QED BY <2>2, <2>3
<1> QED BY <1>4, <1>5, <1>6, <1>7

\* What is durable is left when everything else is gone.
LEMMA LosePowerStep == ASSUME DispatchInv, losses \in Nat, LosePower PROVE DispatchInv'
<1>0. Placed /\ ResultsKept /\ Chain BY DEF DispatchInv
<1>1. PICK lost \in [Ops -> SUBSET UNION {pending[o] : o \in Ops}], gone \in SUBSET pending[0] :
        /\ \A o \in Ops : lost[o] \subseteq pending[o]
        /\ dirs' = [o \in DOMAIN dirs \ gone |-> [name \in DOMAIN dirs[o] \ lost[o] |-> dirs[o][name]]]
    BY DEF LosePower
<1>2. /\ losses < MaxLosses /\ losses' = losses + 1 /\ pending' = [o \in Ops \cup {0} |-> {}]
      /\ held' = [o \in Ops |-> None] /\ procs' = [p \in Operators |-> Idle]
      /\ UNCHANGED <<bundle, reserved, answers>>
    BY DEF LosePower
<1>3. DOMAIN dirs' = DOMAIN dirs \ gone /\ DOMAIN dirs \subseteq Ops
    BY <1>0, <1>1, OperationsOnly DEF Placed
<1>4. \A o, n : Has(o, n)' => Has(o, n) /\ dirs'[o][n] = dirs[o][n] BY <1>1 DEF Has
<1>5. ASSUME NEW o, NEW n, Durable(o, n) PROVE Durable(o, n)'
    <2>1. o \in DOMAIN dirs /\ n \in DOMAIN dirs[o] /\ n \notin pending[o] /\ o \notin gone
        BY <1>0, <1>1, <1>5 DEF Durable, Has, Placed, Stores
    <2>2. o \in Ops /\ n \notin lost[o] BY <1>1, <1>3, <2>1
    <2>3. n \in DOMAIN dirs'[o] BY <1>1, <2>1, <2>2
    <2> QED BY <1>2, <1>3, <2>1, <2>2, <2>3 DEF Durable, Has
<1>6. \A p \in Operators : Where(p)' = "idle" /\ \A v : At(p, v)' <=> v = "idle"
    BY <1>2 DEF Where, At, Idle
<1>7. Placed'
    <2>1. Stores' BY <1>0, <1>2, <1>3, <1>4 DEF Placed, Stores
    <2>2. procs' \in ProcTypes /\ held' \in [Ops -> Operators \cup {None}] BY <1>2 DEF ProcTypes, Idle
    <2>3. \A p \in Operators : InPlace(p)' BY <1>6 DEF InPlace, Locking
    <2> QED BY <2>1, <2>2, <2>3 DEF Placed
<1>8. ResultsKept'
    <2>1. ASSUME NEW o \in DOMAIN dirs' PROVE NamesReceipt(o)'
        <3>1. NamesReceipt(o) BY <1>0, <1>3 DEF ResultsKept
        <3> SUFFICES ASSUME Has(o, "result")', dirs'[o]["result"] # Rejection
                     PROVE  Durable(o, "receipt")' /\ dirs'[o]["receipt"] = dirs'[o]["result"].receipt
            BY DEF NamesReceipt, Rejection
        <3>2. Has(o, "result") /\ dirs'[o]["result"] = dirs[o]["result"] BY <1>4
        <3>3. Durable(o, "receipt") /\ dirs[o]["receipt"] = dirs[o]["result"].receipt
            BY <3>1, <3>2 DEF NamesReceipt
        <3>4. Durable(o, "receipt")' BY <1>5, <3>3
        <3>5. dirs'[o]["receipt"] = dirs[o]["receipt"] BY <1>4, <3>4 DEF Durable
        <3> QED BY <3>2, <3>3, <3>4, <3>5
    <2>2. \A p \in Operators : Durably(p)' BY <1>6 DEF Durably
    <2>3. ASSUME NEW a \in answers' PROVE Durable(a[1], "result")' /\ dirs'[a[1]]["result"] = a[2]
        <3>1. Durable(a[1], "result") /\ dirs[a[1]]["result"] = a[2] BY <1>0, <1>2 DEF ResultsKept
        <3>2. Durable(a[1], "result")' BY <1>5, <3>1
        <3> QED BY <1>4, <3>1, <3>2 DEF Durable
    <2> QED BY <2>1, <2>2, <2>3 DEF ResultsKept
<1>9. Chain' BY <1>2 DEF Chain
<1> QED BY <1>7, <1>8, <1>9 DEF DispatchInv

LEMMA DispatchStarts == DispatchInit => DispatchInv /\ losses \in Nat
<1> SUFFICES ASSUME DispatchInit PROVE DispatchInv /\ losses \in Nat OBVIOUS
<1>1. DOMAIN dirs = {} BY DEF DispatchInit, EmptyDict
<1>2. \A p \in Operators : Where(p) = "idle" /\ \A v : At(p, v) <=> v = "idle"
    BY DEF DispatchInit, Where, At, Idle
<1>3. Placed
    <2>1. Stores BY <1>1, DispatchAssumption DEF DispatchInit, Stores
    <2>2. procs \in ProcTypes /\ held \in [Ops -> Operators \cup {None}]
        BY DEF DispatchInit, ProcTypes, Idle
    <2>3. \A p \in Operators : InPlace(p) BY <1>2 DEF InPlace, Locking
    <2> QED BY <2>1, <2>2, <2>3 DEF Placed
<1>4. ResultsKept
    <2>1. \A p \in Operators : Durably(p) BY <1>2 DEF Durably
    <2> QED BY <1>1, <2>1 DEF DispatchInit, ResultsKept
<1>5. Chain
    <2>1. \A p \in Operators : Follows(p) BY <1>2 DEF Follows
    <2>2. \A o \in 1..(reserved - 1) : Has(o, "retry") BY DEF DispatchInit
    <2> QED BY <1>1, <2>1, <2>2 DEF DispatchInit, Chain
<1> QED BY <1>3, <1>4, <1>5 DEF DispatchInv, DispatchInit

LEMMA LossesCounted ==
    ASSUME losses \in Nat, [DispatchNext]_dispatchVars PROVE losses' \in Nat
<1>1. ASSUME NEW p, Prepare(p) \/ Materialize(p) \/ Reserve(p) \/ Spawn(p) \/ Return(p) PROVE losses' = losses
    BY <1>1, Zenon DEF Prepare, Materialize, Reserve, Spawn, Return
<1>8. ASSUME NEW p, SyncRoot(p) PROVE losses' = losses BY <1>8, Zenon DEF SyncRoot
<1>2. ASSUME NEW p, SyncDirectory(p) \/ Dispatch(p) \/ Launch(p) \/ Collect(p) PROVE losses' = losses
    BY <1>2, Zenon DEF SyncDirectory, Dispatch, Launch, Collect
<1>3. ASSUME NEW p, Finalize(p) \/ Admit(p) \/ Save(p) \/ Answer(p) \/ Die(p) PROVE losses' = losses
    BY <1>3, Zenon DEF Finalize, Admit, Save, Answer, Die
<1>4. ASSUME NEW p, NEW o, Retry(p, o) \/ RunOperation(p, o) \/ Intent(p, o) PROVE losses' = losses
    BY <1>4, Zenon DEF Retry, RunOperation, Intent
<1>5. ASSUME NEW o, NEW left, OwnerLost(o) \/ Damage(o) \/ Produce(o, left) PROVE losses' = losses
    BY <1>5, Zenon DEF OwnerLost, Damage, Produce
<1>6. CASE LosePower BY <1>6 DEF LosePower
<1>7. CASE UNCHANGED dispatchVars BY <1>7 DEF dispatchVars
<1> QED BY <1>1, <1>2, <1>3, <1>4, <1>5, <1>6, <1>7, <1>8 DEF DispatchNext

LEMMA DispatchKeeps ==
    DispatchInv /\ losses \in Nat /\ [DispatchNext]_dispatchVars => DispatchInv' /\ losses' \in Nat
<1> SUFFICES ASSUME DispatchInv, losses \in Nat, [DispatchNext]_dispatchVars
             PROVE  DispatchInv'
    BY LossesCounted
<1>1. CASE UNCHANGED dispatchVars BY <1>1, ProducerStep DEF dispatchVars
<1>2. ASSUME NEW p \in Operators,
             \/ Prepare(p) \/ SyncRoot(p) \/ Materialize(p) \/ Reserve(p) \/ Spawn(p) \/ Return(p)
             \/ SyncDirectory(p) \/ Dispatch(p) \/ Launch(p) \/ Collect(p)
             \/ Finalize(p) \/ Admit(p) \/ Save(p) \/ Answer(p) \/ Die(p)
      PROVE  DispatchInv'
    BY <1>2, PrepareStep, SyncRootStep, MaterializeStep, ReserveStep, SpawnStep, CallEndsStep, SyncDirectoryStep,
       DispatchStep, LaunchStep, CollectStep, FinalizeStep, AdmitStep, SaveStep, AnswerStep, DieStep
<1>3. ASSUME NEW p \in Operators, NEW o \in DOMAIN dirs, Retry(p, o) \/ RunOperation(p, o)
      PROVE  DispatchInv'
    BY <1>3, RetryStep, RunOperationStep
<1>4. ASSUME NEW o \in Ops, OwnerLost(o) PROVE DispatchInv'
    <2>1. UNCHANGED <<dirs, pending, held, procs, reserved, answers, losses>> /\ alive' \subseteq alive
        BY <1>4 DEF OwnerLost
    <2> QED BY <2>1, ProducerStep
<1>5. ASSUME NEW o \in Ops, Damage(o) PROVE DispatchInv'
    <2>1. UNCHANGED <<dirs, pending, held, procs, reserved, answers, losses>> /\ alive' \subseteq alive
        BY <1>5 DEF Damage
    <2> QED BY <2>1, ProducerStep
<1>6. ASSUME NEW o \in Ops, NEW left, Produce(o, left) PROVE DispatchInv'
    <2>1. UNCHANGED <<dirs, pending, held, procs, reserved, answers, losses>> /\ alive' \subseteq alive
        BY <1>6 DEF Produce
    <2> QED BY <2>1, ProducerStep
<1> QED BY <1>1, <1>2, <1>3, <1>4, <1>5, <1>6, IntentStep, LosePowerStep DEF DispatchNext

\* The producer that runs is of the last operation.
LEMMA OneProducer == DispatchInv => OneProducerAtATime
<1> SUFFICES ASSUME DispatchInv, losses = 0 PROVE Cardinality(alive) <= 1 BY DEF OneProducerAtATime
<1>1. alive \subseteq {reserved}
    <2> SUFFICES ASSUME NEW o \in alive, o # reserved PROVE FALSE OBVIOUS
    <2>1. Has(o, "e1") /\ ~Over(o) BY DEF DispatchInv, Chain
    <2>2. o \in 1..reserved /\ reserved \in Nat BY <2>1 DEF Has, DispatchInv, Placed, Stores
    <2>3. o \in 1..(reserved - 1) BY <2>2
    <2>4. Over(o) BY <2>1, <2>3 DEF Has, DispatchInv, Chain
    <2> QED BY <2>1, <2>4
<1>2. CASE alive = {} BY <1>2, FS_EmptySet
<1>3. CASE alive = {reserved} BY <1>3, FS_Singleton
<1> QED BY <1>1, <1>2, <1>3

LEMMA AnswersStay == DispatchInv => AnswersHold
<1> SUFFICES ASSUME DispatchInv, NEW a \in answers
             PROVE  /\ Has(a[1], "result") /\ dirs[a[1]]["result"] = a[2]
                    /\ a[2] # Rejection => Has(a[1], "receipt") /\ dirs[a[1]]["receipt"] = a[2].receipt
    BY DEF AnswersHold
<1>1. Has(a[1], "result") /\ dirs[a[1]]["result"] = a[2] BY DEF DispatchInv, ResultsKept, Durable
<1>2. NamesReceipt(a[1]) BY <1>1 DEF DispatchInv, ResultsKept, Has
<1> QED BY <1>1, <1>2 DEF NamesReceipt, Durable

-----------------------------------------------------------------------------
\* Of an operation and its retries one producer runs at a time, whatever process
\* is killed, while no power was lost, and an answer stays what it was through kills
\* and losses of power; a bundle is accepted as one state of its files, whoever
\* exchanges them; a POC imports one selected bundle at a time, and a pack is handed
\* out only if each of its parts was as written at some time since it was asked
\* for: for any number of operators, operations, files, POCs, callers and readers.
THEOREM ImportStaysWhole == DispatchSpec /\ ReaderSpec /\ PocImportSpec => []ImportIsWhole
<1>1. DispatchInv /\ ReaderInv /\ ImportInv => ImportIsWhole
    BY OneProducer, AnswersStay, OneImport DEF ReaderInv, ImportInv, ImportIsWhole
<1>2. DispatchSpec => []DispatchInv
    <2>1. (DispatchInv /\ losses \in Nat) /\ [DispatchNext]_dispatchVars
            => (DispatchInv /\ losses \in Nat)'
        BY DispatchKeeps
    <2> QED BY <2>1, DispatchStarts, PTL DEF DispatchSpec
<1>3. ReaderSpec => []ReaderInv BY ReaderStarts, ReaderKeeps, PTL DEF ReaderSpec
<1>4. PocImportSpec => []ImportInv BY ImportStarts, ImportKeeps, PTL DEF PocImportSpec
<1> QED BY <1>1, <1>2, <1>3, <1>4, PTL

-----------------------------------------------------------------------------
(***************************************************************************)
(* PerformanceLifecycle.                                                   *)
(***************************************************************************)

ReviewStates == {"absent", "new", "kept", "discarded"} \cup Metrics
Scopes == UNION {[D -> ReviewStates] : D \in SUBSET Proposals}
Prepared == [number : Nat, scope : Scopes, target : Targets]

LifecycleTypes ==
    /\ prop \in [Proposals -> ReviewStates]
    /\ IsDict(prep, POCs, Prepared)
    /\ hist \in [POCs -> Seq(Prepared)]
    /\ DOMAIN idem = LifecycleOps

\* The versions of a POC are numbered, no two share a proposal, and the baseline
\* of the open revision is at least what the superseded ones were made of.
VersionChain(p) ==
    /\ \A i \in 1..Len(hist[p]) :
        /\ hist[p][i].number = i
        /\ \A j \in 1..(i - 1) : DOMAIN hist[p][i].scope \cap DOMAIN hist[p][j].scope = {}
    /\ p \in DOMAIN rev =>
        /\ rev[p].number = Len(hist[p])
        /\ \A i \in 1..Len(hist[p]) : DOMAIN hist[p][i].scope \subseteq rev[p].baseline
    /\ p \notin DOMAIN rev => Len(hist[p]) = 0
    /\ p \in DOMAIN prep =>
        /\ prep[p].number = Len(hist[p]) + 1
        /\ \A i \in 1..Len(hist[p]) : DOMAIN prep[p].scope \cap DOMAIN hist[p][i].scope = {}

\* What is decided is the prepared version, what is frozen was confirmed.
IsDecided(p) ==
    /\ p \in DOMAIN conf => p \in DOMAIN prep /\ conf[p].version = prep[p]
    /\ p \in DOMAIN frozen =>
        p \in DOMAIN conf /\ frozen[p] = conf[p] /\ conf[p].decision = "confirm"

LastNumber(p) == Len(hist[p]) + (IF p \in DOMAIN prep THEN 1 ELSE 0)
IsPrepared(p, n) == p \in DOMAIN prep /\ prep[p].number = n

\* A key that was granted is remembered with its answer, and while the version
\* its request names is the prepared one, that answer is what a repetition reads.
KnownKeys == \A o \in LifecycleOps : \A k \in DOMAIN idem[o] : <<o, k>> \in DOMAIN grants
PrepareRepeats ==
    \A k \in DOMAIN idem["prepare"], p \in POCs, n \in Nat, t \in Targets :
        idem["prepare"][k] = <<p, n, t>> =>
            n <= LastNumber(p) /\ (IsPrepared(p, n) => prep[p] = grants[<<"prepare", k>>])
DecideRepeats ==
    \A k \in DOMAIN idem["decide"], p \in POCs, n \in Nat, d \in {"confirm", "changes"} :
        idem["decide"][k] = <<p, n, d>> =>
            /\ n <= LastNumber(p)
            /\ IsPrepared(p, n) => p \in DOMAIN conf /\ conf[p] = grants[<<"decide", k>>]
FreezeRepeats ==
    \A k \in DOMAIN idem["freeze"], p \in POCs, n \in Nat :
        idem["freeze"][k] = <<p, n>> =>
            /\ n <= LastNumber(p)
            /\ IsPrepared(p, n) => p \in DOMAIN frozen /\ frozen[p] = grants[<<"freeze", k>>]
ResultsRetained ==
    \A o \in {"reissue", "revise"} : \A k \in DOMAIN idem[o] :
        <<o, k>> \in DOMAIN results /\ results[<<o, k>>] = grants[<<o, k>>]

AnswersRepeat ==
    KnownKeys /\ PrepareRepeats /\ DecideRepeats /\ FreezeRepeats /\ ResultsRetained

LifecycleInv ==
    /\ LifecycleTypes
    /\ \A p \in POCs : VersionChain(p) /\ IsDecided(p)
    /\ AnswersRepeat
    /\ RunsWhatWasConfirmed
    /\ RepeatsTheGrant

LEMMA LifecycleStarts == LifecycleInit => LifecycleInv
<1> SUFFICES ASSUME LifecycleInit PROVE LifecycleInv OBVIOUS
<1>1. LifecycleTypes
    BY EmptyType DEF LifecycleInit, LifecycleTypes, ReviewStates
<1>2. \A p \in POCs : VersionChain(p) /\ IsDecided(p)
    BY DEF LifecycleInit, VersionChain, IsDecided, EmptyDict
<1>3. AnswersRepeat
    BY DEF LifecycleInit, AnswersRepeat, KnownKeys, PrepareRepeats, DecideRepeats, FreezeRepeats,
           ResultsRetained, EmptyDict, LifecycleOps
<1>4. RunsWhatWasConfirmed /\ RepeatsTheGrant
    BY DEF LifecycleInit, RunsWhatWasConfirmed, RepeatsTheGrant
<1> QED BY <1>1, <1>2, <1>3, <1>4 DEF LifecycleInv

\* Versions, decisions and histories are as they were.
AgreementStays == UNCHANGED <<prep, conf, frozen, rev, hist>>

LEMMA AgreementKept ==
    ASSUME LifecycleInv, AgreementStays
    PROVE  \A p \in POCs : VersionChain(p)' /\ IsDecided(p)'
<1> TAKE p \in POCs
<1>1. VersionChain(p) /\ IsDecided(p) BY DEF LifecycleInv
<1>2. VersionChain(p)' BY <1>1 DEF AgreementStays, VersionChain
<1>3. IsDecided(p)' BY <1>1 DEF AgreementStays, IsDecided
<1> QED BY <1>2, <1>3

LEMMA RepeatsStay ==
    ASSUME AnswersRepeat, UNCHANGED <<prep, conf, frozen, hist, idem, results, grants>>
    PROVE  AnswersRepeat'
<1>1. KnownKeys' /\ ResultsRetained' BY DEF AnswersRepeat, KnownKeys, ResultsRetained
<1>2. \A p, n : LastNumber(p)' = LastNumber(p) /\ (IsPrepared(p, n)' <=> IsPrepared(p, n))
    BY DEF LastNumber, IsPrepared
<1>3. PrepareRepeats' BY <1>2 DEF AnswersRepeat, PrepareRepeats
<1>4. DecideRepeats' BY <1>2 DEF AnswersRepeat, DecideRepeats
<1>5. FreezeRepeats' BY <1>2 DEF AnswersRepeat, FreezeRepeats
<1> QED BY <1>1, <1>3, <1>4, <1>5 DEF AnswersRepeat

\* A repeated request changes no more than the answer.
LEMMA ReplayKeeps ==
    ASSUME LifecycleInv, NEW o \in LifecycleOps, NEW k \in DOMAIN idem[o], NEW v,
           v = grants[<<o, k>>], ReplayGrant(o, k, v)
    PROVE  LifecycleInv'
<1>1. RepeatsTheGrant' BY DEF ReplayGrant, RepeatsTheGrant
<1>2. AnswersRepeat' BY RepeatsStay DEF ReplayGrant, LifecycleInv
<1> QED BY <1>1, <1>2, AgreementKept
    DEF ReplayGrant, LifecycleInv, AgreementStays, LifecycleTypes, RunsWhatWasConfirmed

\* A grant adds one key, and what was granted before stays.
LEMMA GrantEffect ==
    ASSUME LifecycleInv, NEW op \in LifecycleOps, NEW k, NEW digest, NEW value,
           Fresh(op, k), Grant(op, k, digest, value)
    PROVE  /\ DOMAIN idem' = LifecycleOps /\ KnownKeys' /\ RepeatsTheGrant'
           /\ \A o \in LifecycleOps \ {op} : idem'[o] = idem[o]
           /\ DOMAIN idem'[op] = DOMAIN idem[op] \cup {k} /\ idem'[op][k] = digest
           /\ \A x \in DOMAIN idem[op] : idem'[op][x] = idem[op][x]
           /\ \A o \in LifecycleOps : \A x \in DOMAIN idem[o] : grants'[<<o, x>>] = grants[<<o, x>>]
           /\ grants'[<<op, k>>] = value
<1>1. idem' = [idem EXCEPT ![op] = Put(idem[op], k, digest)] /\ grants' = Put(grants, <<op, k>>, value)
      /\ granted' = [op |-> op, key |-> k, value |-> value]
    BY DEF Grant
<1>2. DOMAIN idem = LifecycleOps BY DEF LifecycleInv, LifecycleTypes
<1>3. /\ idem'[op] = Put(idem[op], k, digest) /\ DOMAIN idem' = LifecycleOps
      /\ \A o \in LifecycleOps \ {op} : idem'[o] = idem[o]
    BY <1>1, <1>2, SMT
<1>4. /\ DOMAIN idem'[op] = DOMAIN idem[op] \cup {k} /\ idem'[op][k] = digest
      /\ \A x \in DOMAIN idem[op] : idem'[op][x] = idem[op][x]
    BY <1>3 DEF Fresh, Put
<1>5. /\ DOMAIN grants' = DOMAIN grants \cup {<<op, k>>} /\ grants'[<<op, k>>] = value
      /\ \A x \in DOMAIN grants : x # <<op, k>> => grants'[x] = grants[x]
    BY <1>1 DEF Put
<1>6. \A o \in LifecycleOps : \A x \in DOMAIN idem[o] :
        <<o, x>> \in DOMAIN grants /\ <<o, x>> # <<op, k>>
    BY DEF LifecycleInv, AnswersRepeat, KnownKeys, Fresh
<1>7. KnownKeys' BY <1>3, <1>4, <1>5, <1>6 DEF KnownKeys
<1>8. RepeatsTheGrant' BY <1>1, <1>5 DEF RepeatsTheGrant
<1> QED BY <1>3, <1>4, <1>5, <1>6, <1>7, <1>8

\* Versions only go up, and the one that is prepared keeps its decision and freeze.
Advances ==
    \A p \in POCs, n \in Nat : n <= LastNumber(p) =>
        /\ n <= LastNumber(p)'
        /\ IsPrepared(p, n)' =>
            /\ IsPrepared(p, n) /\ prep'[p] = prep[p]
            /\ p \in DOMAIN conf => p \in DOMAIN conf' /\ conf'[p] = conf[p]
            /\ p \in DOMAIN frozen => p \in DOMAIN frozen' /\ frozen'[p] = frozen[p]

\* What the answer to a new key has to be.
AnswersNow(op, digest, value) ==
    /\ op = "prepare" => \A p \in POCs, n \in Nat, t \in Targets : digest = <<p, n, t>> =>
            n <= LastNumber(p)' /\ (IsPrepared(p, n)' => prep'[p] = value)
    /\ op = "decide" => \A p \in POCs, n \in Nat, d \in {"confirm", "changes"} : digest = <<p, n, d>> =>
            n <= LastNumber(p)' /\ (IsPrepared(p, n)' => p \in DOMAIN conf' /\ conf'[p] = value)
    /\ op = "freeze" => \A p \in POCs, n \in Nat : digest = <<p, n>> =>
            n <= LastNumber(p)' /\ (IsPrepared(p, n)' => p \in DOMAIN frozen' /\ frozen'[p] = value)

LEMMA GrantKeeps ==
    ASSUME LifecycleInv, NEW op \in LifecycleOps, NEW k, NEW digest, NEW value,
           Fresh(op, k), Grant(op, k, digest, value), Advances, AnswersNow(op, digest, value),
           IF op \in {"reissue", "revise"} THEN results' = Put(results, <<op, k>>, value)
                                         ELSE results' = results
    PROVE  AnswersRepeat' /\ RepeatsTheGrant' /\ DOMAIN idem' = LifecycleOps
<1>1. /\ DOMAIN idem' = LifecycleOps /\ KnownKeys' /\ RepeatsTheGrant'
      /\ \A o \in LifecycleOps \ {op} : idem'[o] = idem[o]
      /\ DOMAIN idem'[op] = DOMAIN idem[op] \cup {k} /\ idem'[op][k] = digest
      /\ \A x \in DOMAIN idem[op] : idem'[op][x] = idem[op][x]
      /\ \A o \in LifecycleOps : \A x \in DOMAIN idem[o] : grants'[<<o, x>>] = grants[<<o, x>>]
      /\ grants'[<<op, k>>] = value
    BY GrantEffect
<1>2. AnswersRepeat BY DEF LifecycleInv
<1>3. \A o \in LifecycleOps : \A x \in DOMAIN idem'[o] :
        \/ x \in DOMAIN idem[o] /\ idem'[o][x] = idem[o][x] /\ grants'[<<o, x>>] = grants[<<o, x>>]
        \/ o = op /\ x = k /\ idem'[o][x] = digest /\ grants'[<<o, x>>] = value
    <2> TAKE o \in LifecycleOps
    <2>1. CASE o = op BY <1>1, <2>1
    <2>2. CASE o # op BY <1>1, <2>2
    <2> QED BY <2>1, <2>2
<1>4. PrepareRepeats'
    <2> SUFFICES ASSUME NEW x \in DOMAIN idem'["prepare"], NEW p \in POCs, NEW n \in Nat, NEW t \in Targets,
                        idem'["prepare"][x] = <<p, n, t>>
                 PROVE  n <= LastNumber(p)' /\ (IsPrepared(p, n)' => prep'[p] = grants'[<<"prepare", x>>])
        BY DEF PrepareRepeats
    <2>1. CASE /\ x \in DOMAIN idem["prepare"] /\ idem'["prepare"][x] = idem["prepare"][x]
               /\ grants'[<<"prepare", x>>] = grants[<<"prepare", x>>]
        <3>1. n <= LastNumber(p) /\ (IsPrepared(p, n) => prep[p] = grants[<<"prepare", x>>])
            BY <1>2, <2>1 DEF AnswersRepeat, PrepareRepeats
        <3> QED BY <2>1, <3>1 DEF Advances
    <2>2. CASE /\ "prepare" = op /\ x = k /\ idem'["prepare"][x] = digest
               /\ grants'[<<"prepare", x>>] = value
        BY <2>2 DEF AnswersNow
    <2> QED BY <1>3, <2>1, <2>2 DEF LifecycleOps
<1>5. DecideRepeats'
    <2> SUFFICES ASSUME NEW x \in DOMAIN idem'["decide"], NEW p \in POCs, NEW n \in Nat,
                        NEW d \in {"confirm", "changes"}, idem'["decide"][x] = <<p, n, d>>
                 PROVE  /\ n <= LastNumber(p)'
                        /\ IsPrepared(p, n)' => p \in DOMAIN conf' /\ conf'[p] = grants'[<<"decide", x>>]
        BY DEF DecideRepeats
    <2>1. CASE /\ x \in DOMAIN idem["decide"] /\ idem'["decide"][x] = idem["decide"][x]
               /\ grants'[<<"decide", x>>] = grants[<<"decide", x>>]
        <3>1. /\ n <= LastNumber(p)
              /\ IsPrepared(p, n) => p \in DOMAIN conf /\ conf[p] = grants[<<"decide", x>>]
            BY <1>2, <2>1 DEF AnswersRepeat, DecideRepeats
        <3> QED BY <2>1, <3>1 DEF Advances
    <2>2. CASE /\ "decide" = op /\ x = k /\ idem'["decide"][x] = digest
               /\ grants'[<<"decide", x>>] = value
        BY <2>2 DEF AnswersNow
    <2> QED BY <1>3, <2>1, <2>2 DEF LifecycleOps
<1>6. FreezeRepeats'
    <2> SUFFICES ASSUME NEW x \in DOMAIN idem'["freeze"], NEW p \in POCs, NEW n \in Nat,
                        idem'["freeze"][x] = <<p, n>>
                 PROVE  /\ n <= LastNumber(p)'
                        /\ IsPrepared(p, n)' => p \in DOMAIN frozen' /\ frozen'[p] = grants'[<<"freeze", x>>]
        BY DEF FreezeRepeats
    <2>1. CASE /\ x \in DOMAIN idem["freeze"] /\ idem'["freeze"][x] = idem["freeze"][x]
               /\ grants'[<<"freeze", x>>] = grants[<<"freeze", x>>]
        <3>1. /\ n <= LastNumber(p)
              /\ IsPrepared(p, n) => p \in DOMAIN frozen /\ frozen[p] = grants[<<"freeze", x>>]
            BY <1>2, <2>1 DEF AnswersRepeat, FreezeRepeats
        <3> QED BY <2>1, <3>1 DEF Advances
    <2>2. CASE /\ "freeze" = op /\ x = k /\ idem'["freeze"][x] = digest
               /\ grants'[<<"freeze", x>>] = value
        BY <2>2 DEF AnswersNow
    <2> QED BY <1>3, <2>1, <2>2 DEF LifecycleOps
<1>7. ResultsRetained'
    <2> SUFFICES ASSUME NEW o \in {"reissue", "revise"}, NEW x \in DOMAIN idem'[o]
                 PROVE  <<o, x>> \in DOMAIN results' /\ results'[<<o, x>>] = grants'[<<o, x>>]
        BY DEF ResultsRetained
    <2>1. \A y \in DOMAIN results : y # <<op, k>> => y \in DOMAIN results' /\ results'[y] = results[y]
        BY DEF Put
    <2>2. CASE o = op /\ x = k /\ idem'[o][x] = digest /\ grants'[<<o, x>>] = value
        BY <2>2 DEF Put
    <2>3. CASE /\ x \in DOMAIN idem[o] /\ idem'[o][x] = idem[o][x]
               /\ grants'[<<o, x>>] = grants[<<o, x>>]
        <3>1. <<o, x>> \in DOMAIN results /\ results[<<o, x>>] = grants[<<o, x>>]
            BY <1>2, <2>3 DEF AnswersRepeat, ResultsRetained
        <3>2. <<o, x>> # <<op, k>> BY <2>3 DEF Fresh
        <3> QED BY <2>1, <2>3, <3>1, <3>2
    <2> QED BY <1>3, <2>2, <2>3 DEF LifecycleOps
<1> QED BY <1>1, <1>4, <1>5, <1>6, <1>7 DEF AnswersRepeat

\* The dictionaries of the agreement have at one POC what they had.
KeepsAt(d, e, p) == (p \in DOMAIN d <=> p \in DOMAIN e) /\ (p \in DOMAIN d => e[p] = d[p])
SameAt(p) ==
    /\ KeepsAt(prep, prep', p) /\ KeepsAt(conf, conf', p) /\ KeepsAt(frozen, frozen', p)
    /\ KeepsAt(rev, rev', p) /\ hist'[p] = hist[p]

LEMMA OneVersionMoves ==
    ASSUME LifecycleInv, NEW p \in POCs, \A q \in POCs \ {p} : SameAt(q), VersionChain(p)', IsDecided(p)'
    PROVE  \A q \in POCs : VersionChain(q)' /\ IsDecided(q)'
<1> SUFFICES ASSUME NEW q \in POCs \ {p} PROVE VersionChain(q)' /\ IsDecided(q)' OBVIOUS
<1>1. VersionChain(q) /\ IsDecided(q) BY DEF LifecycleInv
<1>2. VersionChain(q)' BY <1>1 DEF VersionChain, SameAt, KeepsAt
<1>3. IsDecided(q)' BY <1>1 DEF IsDecided, SameAt, KeepsAt
<1> QED BY <1>2, <1>3

\* What the number of a version is.
LEMMA VersionIs ==
    ASSUME LifecycleInv, NEW p \in POCs
    PROVE  /\ Len(hist[p]) \in Nat /\ hist[p] \in Seq(Prepared)
           /\ Version(p) = Len(hist[p]) + 1 /\ Version(p) \in Nat
           /\ LastNumber(p) = Len(hist[p]) + (IF p \in DOMAIN prep THEN 1 ELSE 0)
           /\ p \in DOMAIN prep => prep[p].number = Len(hist[p]) + 1 /\ prep[p] \in Prepared
<1>1. hist[p] \in Seq(Prepared) BY DEF LifecycleInv, LifecycleTypes
<1>2. Len(hist[p]) \in Nat BY <1>1
<1>3. VersionChain(p) BY DEF LifecycleInv
<1>4. p \in DOMAIN prep => prep[p] \in Prepared BY DEF LifecycleInv, LifecycleTypes, IsDict
<1> QED BY <1>1, <1>2, <1>3, <1>4 DEF VersionChain, Version, Revised, LastNumber

\* A version that is prepared is made of proposals no other was made of.
LEMMA ScopedIsFresh ==
    ASSUME LifecycleInv, NEW p \in POCs
    PROVE  /\ Scoped(p) \in Scopes
           /\ \A i \in 1..Len(hist[p]) : DOMAIN Scoped(p) \cap DOMAIN hist[p][i].scope = {}
<1> DEFINE baseline == Revised(p).baseline
           D == {r \in Proposals : POCOf[r] = p /\ prop[r] # "absent" /\ r \notin baseline}
<1>1. Scoped(p) = [q \in D |-> prop[q]] BY DEF Scoped
<1>2. Scoped(p) \in [D -> ReviewStates]
    BY <1>1 DEF LifecycleInv, LifecycleTypes
<1>3. D \in SUBSET Proposals OBVIOUS
<1>4. DOMAIN Scoped(p) = D BY <1>1
<1>5. VersionChain(p) BY DEF LifecycleInv
<1>6. \A i \in 1..Len(hist[p]) : DOMAIN hist[p][i].scope \subseteq baseline
    BY <1>5, VersionIs DEF VersionChain, Revised
<1>7. \A i \in 1..Len(hist[p]) : D \cap DOMAIN hist[p][i].scope = {} BY <1>6
<1> HIDE DEF D
<1> QED BY <1>2, <1>3, <1>4, <1>7 DEF Scopes

LEMMA PrepareVersionStep ==
    ASSUME LifecycleInv, NEW p \in POCs, NEW t \in Targets, NEW k \in LKeys, PrepareVersion(p, t, k)
    PROVE  LifecycleInv'
<1>0. /\ Len(hist[p]) \in Nat /\ Version(p) = Len(hist[p]) + 1 /\ Version(p) \in Nat
      /\ p \in DOMAIN prep => prep[p].number = Len(hist[p]) + 1
    BY VersionIs
<1>1. CASE /\ SameRequest("prepare", k, PrepareDigest(p, t)) /\ IsCurrent(p)
           /\ ReplayGrant("prepare", k, prep[p])
    <2>1. k \in DOMAIN idem["prepare"] /\ idem["prepare"][k] = <<p, Version(p), t>> /\ p \in DOMAIN prep
        BY <1>1 DEF SameRequest, PrepareDigest, IsCurrent
    <2>2. IsPrepared(p, Version(p)) BY <1>0, <2>1 DEF IsPrepared
    <2>3. PrepareRepeats BY DEF LifecycleInv, AnswersRepeat
    <2>4. prep[p] = grants[<<"prepare", k>>] BY <1>0, <2>1, <2>2, <2>3 DEF PrepareRepeats
    <2> QED BY <1>1, <2>1, <2>4, ReplayKeeps DEF LifecycleOps
<1>2. CASE ~(/\ SameRequest("prepare", k, PrepareDigest(p, t)) /\ IsCurrent(p)
             /\ ReplayGrant("prepare", k, prep[p]))
    <2> DEFINE version == [number |-> Version(p), scope |-> Scoped(p), target |-> t]
    <2>1. /\ Fresh("prepare", k) /\ p \notin DOMAIN prep /\ prep' = Put(prep, p, version)
          /\ Grant("prepare", k, PrepareDigest(p, t), version)
          /\ UNCHANGED <<prop, conf, frozen, rev, hist, results, started>>
        BY <1>2 DEF PrepareVersion
    <2>2. version \in Prepared BY <1>0, ScopedIsFresh DEF Prepared
    <2>3. /\ DOMAIN prep' = DOMAIN prep \cup {p} /\ prep'[p] = version
          /\ \A q \in DOMAIN prep : q # p => prep'[q] = prep[q]
        BY <2>1 DEF Put
    <2>4. version.number = Version(p) /\ version.scope = Scoped(p) OBVIOUS
    <2> HIDE DEF version
    <2>5. \A q \in POCs \ {p} : SameAt(q) BY <2>1, <2>3 DEF SameAt, KeepsAt
    <2>6. VersionChain(p)'
        <3>1. VersionChain(p) BY DEF LifecycleInv
        <3>2. \A i \in 1..Len(hist[p]) : DOMAIN prep'[p].scope \cap DOMAIN hist[p][i].scope = {}
            BY <2>3, <2>4, ScopedIsFresh
        <3>3. hist' = hist /\ rev' = rev /\ prep'[p].number = Len(hist[p]) + 1
            BY <1>0, <2>1, <2>3, <2>4
        <3> QED BY <3>1, <3>2, <3>3 DEF VersionChain
    <2>7. IsDecided(p)' BY <2>1 DEF LifecycleInv, IsDecided
    <2>8. LifecycleTypes'
        <3>1. IsDict(prep', POCs, Prepared)
            BY <2>1, <2>2, PutType DEF LifecycleInv, LifecycleTypes
        <3>2. DOMAIN idem' = LifecycleOps
            BY <2>1, GrantEffect DEF LifecycleOps
        <3> QED BY <2>1, <3>1, <3>2 DEF LifecycleInv, LifecycleTypes
    <2>9. Advances
        <3> SUFFICES ASSUME NEW q \in POCs, NEW n \in Nat, n <= LastNumber(q)
                     PROVE  /\ n <= LastNumber(q)'
                            /\ IsPrepared(q, n)' => IsPrepared(q, n) /\ prep'[q] = prep[q]
            BY <2>1 DEF Advances
        <3>1. CASE q = p
            <4>1. n <= Len(hist[p]) /\ n <= LastNumber(q)'
                BY <1>0, <2>1, <2>3, <3>1 DEF LastNumber
            <4>2. prep'[p].number = Len(hist[p]) + 1 BY <1>0, <2>3, <2>4
            <4> QED BY <1>0, <3>1, <4>1, <4>2 DEF IsPrepared
        <3>2. CASE q # p BY <2>1, <2>3, <3>2 DEF LastNumber, IsPrepared
        <3> QED BY <3>1, <3>2
    <2>10. AnswersNow("prepare", PrepareDigest(p, t), version)
        <3>1. LastNumber(p)' = Version(p) BY <1>0, <2>1, <2>3 DEF LastNumber
        <3>2. Version(p) <= LastNumber(p)' /\ prep'[p] = version BY <1>0, <2>3, <3>1
        <3> QED BY <3>2 DEF AnswersNow, PrepareDigest
    <2>11. AnswersRepeat' /\ RepeatsTheGrant'
        BY <2>1, <2>9, <2>10, GrantKeeps DEF LifecycleOps
    <2>12. RunsWhatWasConfirmed' BY <2>1 DEF LifecycleInv, RunsWhatWasConfirmed
    <2> QED BY <2>5, <2>6, <2>7, <2>8, <2>11, <2>12, OneVersionMoves DEF LifecycleInv
<1> QED BY <1>1, <1>2

\* The version of a POC stays; its decision or its freeze may come.
LEMMA VersionStays ==
    ASSUME LifecycleInv, UNCHANGED <<prep, hist>>,
           \A p \in DOMAIN conf : p \in DOMAIN conf' /\ conf'[p] = conf[p],
           \A p \in DOMAIN frozen : p \in DOMAIN frozen' /\ frozen'[p] = frozen[p]
    PROVE  /\ Advances
           /\ \A p \in POCs : LastNumber(p)' = LastNumber(p)
           /\ \A p \in POCs : VersionChain(p) /\ rev' = rev => VersionChain(p)'
<1>1. \A p \in POCs : LastNumber(p)' = LastNumber(p) BY DEF LastNumber
<1>2. Advances BY <1>1 DEF Advances, IsPrepared
<1>3. \A p \in POCs : VersionChain(p) /\ rev' = rev => VersionChain(p)' BY DEF VersionChain
<1> QED BY <1>1, <1>2, <1>3

LEMMA LifecycleReissueStep ==
    ASSUME LifecycleInv, NEW p \in POCs, NEW k \in LKeys, Reissue(p, k)
    PROVE  LifecycleInv'
<1>1. CASE /\ SameRequest("reissue", k, <<p, prep[p].number>>)
           /\ results[<<"reissue", k>>] = inv[p] /\ ReplayGrant("reissue", k, inv[p])
    <2>1. k \in DOMAIN idem["reissue"] BY <1>1 DEF SameRequest
    <2>2. inv[p] = grants[<<"reissue", k>>]
        BY <1>1, <2>1 DEF LifecycleInv, AnswersRepeat, ResultsRetained
    <2> QED BY <1>1, <2>1, <2>2, ReplayKeeps DEF LifecycleOps
<1>2. CASE ~(/\ SameRequest("reissue", k, <<p, prep[p].number>>)
             /\ results[<<"reissue", k>>] = inv[p] /\ ReplayGrant("reissue", k, inv[p]))
    <2>1. /\ Fresh("reissue", k) /\ results' = Put(results, <<"reissue", k>>, inv'[p])
          /\ Grant("reissue", k, <<p, prep[p].number>>, inv'[p])
          /\ UNCHANGED <<prop, prep, conf, frozen, rev, hist, started>>
        BY <1>2 DEF Reissue
    <2>2. Advances BY <2>1, VersionStays
    <2>3. AnswersNow("reissue", <<p, prep[p].number>>, inv'[p]) BY DEF AnswersNow
    <2>4. AnswersRepeat' /\ RepeatsTheGrant' /\ DOMAIN idem' = LifecycleOps
        BY <2>1, <2>2, <2>3, GrantKeeps DEF LifecycleOps
    <2>5. \A q \in POCs : VersionChain(q)' /\ IsDecided(q)' BY <2>1, AgreementKept DEF AgreementStays
    <2> QED BY <2>1, <2>4, <2>5 DEF LifecycleInv, LifecycleTypes, RunsWhatWasConfirmed
<1> QED BY <1>1, <1>2

LEMMA DecideVersionStep ==
    ASSUME LifecycleInv, NEW token, NEW p \in POCs, NEW d \in {"confirm", "changes"}, NEW k \in LKeys,
           DecideVersion(token, p, d, k)
    PROVE  LifecycleInv'
<1>0. /\ p \in DOMAIN prep /\ prep[p].number = Len(hist[p]) + 1 /\ Len(hist[p]) \in Nat
      /\ prep[p].number \in Nat
    BY VersionIs DEF DecideVersion, IsCurrent
<1> DEFINE digest == <<p, prep[p].number, d>>
<1>1. CASE SameRequest("decide", k, digest) /\ ReplayGrant("decide", k, conf[p])
    <2>1. k \in DOMAIN idem["decide"] /\ idem["decide"][k] = <<p, prep[p].number, d>>
        BY <1>1 DEF SameRequest
    <2>2. DecideRepeats BY DEF LifecycleInv, AnswersRepeat
    <2>3. conf[p] = grants[<<"decide", k>>] BY <1>0, <2>1, <2>2 DEF DecideRepeats, IsPrepared
    <2> QED BY <1>1, <2>1, <2>3, ReplayKeeps DEF LifecycleOps
<1>2. CASE ~(SameRequest("decide", k, digest) /\ ReplayGrant("decide", k, conf[p]))
    <2> DEFINE decision == [version |-> prep[p], decision |-> d]
    <2>1. /\ Fresh("decide", k) /\ p \notin DOMAIN conf /\ conf' = Put(conf, p, decision)
          /\ Grant("decide", k, digest, conf'[p])
          /\ UNCHANGED <<prop, prep, frozen, rev, hist, results, started>>
        BY <1>2 DEF DecideVersion
    <2>2. decision.version = prep[p] OBVIOUS
    <2> HIDE DEF decision
    <2>3. /\ DOMAIN conf' = DOMAIN conf \cup {p} /\ conf'[p] = decision
          /\ \A q \in DOMAIN conf : q # p => conf'[q] = conf[q]
        BY <2>1 DEF Put
    <2>4. Advances BY <2>1, <2>3, VersionStays
    <2>5. AnswersNow("decide", digest, conf'[p])
        <3>1. prep[p].number <= LastNumber(p)'
            BY <1>0, <2>1 DEF LastNumber
        <3> QED BY <2>3, <3>1 DEF AnswersNow
    <2>6. AnswersRepeat' /\ RepeatsTheGrant' /\ DOMAIN idem' = LifecycleOps
        BY <2>1, <2>4, <2>5, GrantKeeps DEF LifecycleOps
    <2>7. \A q \in POCs \ {p} : SameAt(q) BY <2>1, <2>3 DEF SameAt, KeepsAt
    <2>8. VersionChain(p)' BY <2>1, <2>3, VersionStays DEF LifecycleInv
    <2>9. IsDecided(p) BY DEF LifecycleInv
    <2>10. IsDecided(p)' BY <1>0, <2>1, <2>2, <2>3, <2>9 DEF IsDecided
    <2> QED BY <2>1, <2>6, <2>7, <2>8, <2>10, OneVersionMoves
        DEF LifecycleInv, LifecycleTypes, RunsWhatWasConfirmed
<1> QED BY <1>1, <1>2

LEMMA FreezeVersionStep ==
    ASSUME LifecycleInv, NEW p \in POCs, NEW k \in LKeys, Freeze(p, k)
    PROVE  LifecycleInv'
<1>0. /\ p \in DOMAIN prep /\ prep[p].number = Len(hist[p]) + 1 /\ Len(hist[p]) \in Nat
      /\ prep[p].number \in Nat /\ p \in DOMAIN conf /\ conf[p].decision = "confirm"
    BY VersionIs DEF Freeze, IsCurrent
<1> DEFINE digest == <<p, prep[p].number>>
<1>1. CASE SameRequest("freeze", k, digest) /\ ReplayGrant("freeze", k, frozen[p])
    <2>1. k \in DOMAIN idem["freeze"] /\ idem["freeze"][k] = <<p, prep[p].number>>
        BY <1>1 DEF SameRequest
    <2>2. FreezeRepeats BY DEF LifecycleInv, AnswersRepeat
    <2>3. frozen[p] = grants[<<"freeze", k>>] BY <1>0, <2>1, <2>2 DEF FreezeRepeats, IsPrepared
    <2> QED BY <1>1, <2>1, <2>3, ReplayKeeps DEF LifecycleOps
<1>2. CASE ~(SameRequest("freeze", k, digest) /\ ReplayGrant("freeze", k, frozen[p]))
    <2>1. /\ Fresh("freeze", k) /\ p \notin DOMAIN frozen /\ frozen' = Put(frozen, p, conf[p])
          /\ Grant("freeze", k, digest, conf[p])
          /\ UNCHANGED <<prop, prep, conf, rev, hist, results, started>>
        BY <1>2 DEF Freeze
    <2>3. /\ DOMAIN frozen' = DOMAIN frozen \cup {p} /\ frozen'[p] = conf[p]
          /\ \A q \in DOMAIN frozen : q # p => frozen'[q] = frozen[q]
        BY <2>1 DEF Put
    <2>4. Advances BY <2>1, <2>3, VersionStays
    <2>5. AnswersNow("freeze", digest, conf[p])
        <3>1. prep[p].number <= LastNumber(p)'
            BY <1>0, <2>1 DEF LastNumber
        <3> QED BY <2>3, <3>1 DEF AnswersNow
    <2>6. AnswersRepeat' /\ RepeatsTheGrant' /\ DOMAIN idem' = LifecycleOps
        BY <2>1, <2>4, <2>5, GrantKeeps DEF LifecycleOps
    <2>7. \A q \in POCs \ {p} : SameAt(q) BY <2>1, <2>3 DEF SameAt, KeepsAt
    <2>8. VersionChain(p)' BY <2>1, <2>3, VersionStays DEF LifecycleInv
    <2>9. IsDecided(p) BY DEF LifecycleInv
    <2>10. IsDecided(p)' BY <1>0, <2>1, <2>3, <2>9 DEF IsDecided
    <2> QED BY <2>1, <2>6, <2>7, <2>8, <2>10, OneVersionMoves
        DEF LifecycleInv, LifecycleTypes, RunsWhatWasConfirmed
<1> QED BY <1>1, <1>2

LEMMA FrozenBundleStep ==
    ASSUME LifecycleInv, NEW p \in POCs, FrozenBundle(p)
    PROVE  LifecycleInv'
<1>1. /\ p \in DOMAIN frozen /\ prep[p].scope = Scoped(p)
      /\ started' = started \cup {[version |-> prep[p], confirmed |-> frozen[p], at |-> Scoped(p)]}
      /\ UNCHANGED <<prop, prep, conf, frozen, rev, hist, idem, results, grants, granted>>
    BY DEF FrozenBundle, IsCurrent
<1>2. frozen[p].decision = "confirm" /\ frozen[p].version = prep[p]
    BY <1>1 DEF LifecycleInv, IsDecided
<1>3. RunsWhatWasConfirmed' BY <1>1, <1>2 DEF LifecycleInv, RunsWhatWasConfirmed
<1>4. \A q \in POCs : VersionChain(q)' /\ IsDecided(q)' BY <1>1, AgreementKept DEF AgreementStays
<1>6. AnswersRepeat' BY <1>1, RepeatsStay DEF LifecycleInv
<1> QED BY <1>1, <1>3, <1>4, <1>6 DEF LifecycleInv, LifecycleTypes, RepeatsTheGrant

LEMMA StartRevisionStep ==
    ASSUME LifecycleInv, NEW p \in POCs, NEW k \in LKeys, StartRevision(p, k)
    PROVE  LifecycleInv'
<1>1. CASE /\ SameRequest("revise", k, p) /\ rev[p] = results[<<"revise", k>>]
           /\ ReplayGrant("revise", k, rev[p])
    <2>1. k \in DOMAIN idem["revise"] BY <1>1 DEF SameRequest
    <2>2. rev[p] = grants[<<"revise", k>>]
        BY <1>1, <2>1 DEF LifecycleInv, AnswersRepeat, ResultsRetained
    <2> QED BY <1>1, <2>1, <2>2, ReplayKeeps DEF LifecycleOps
<1>2. CASE ~(/\ SameRequest("revise", k, p) /\ rev[p] = results[<<"revise", k>>]
             /\ ReplayGrant("revise", k, rev[p]))
    <2> DEFINE before == Revised(p).baseline
               revision == [number |-> prep[p].number, baseline |-> DOMAIN prep[p].scope \cup before,
                            defined |-> KeptReviews(prep[p].scope) \cup Revised(p).defined]
    <2>1. /\ Fresh("revise", k) /\ p \in DOMAIN prep
          /\ rev' = Put(rev, p, revision) /\ results' = Put(results, <<"revise", k>>, revision)
          /\ Grant("revise", k, p, revision)
          /\ hist' = [hist EXCEPT ![p] = Append(hist[p], prep[p])]
          /\ prep' = Drop(prep, p) /\ conf' = Drop(conf, p) /\ frozen' = Drop(frozen, p)
          /\ UNCHANGED <<prop, started>>
        BY <1>2 DEF StartRevision
    <2>2. /\ revision.number = prep[p].number
          /\ revision.baseline = DOMAIN prep[p].scope \cup before
        OBVIOUS
    <2> HIDE DEF revision
    <2>3. /\ hist[p] \in Seq(Prepared) /\ Len(hist[p]) \in Nat /\ prep[p] \in Prepared
          /\ prep[p].number = Len(hist[p]) + 1
        BY <2>1, VersionIs
    <2>4. /\ p \notin DOMAIN prep' /\ p \notin DOMAIN conf' /\ p \notin DOMAIN frozen'
          /\ p \in DOMAIN rev' /\ rev'[p] = revision
          /\ hist'[p] = Append(hist[p], prep[p])
        BY <2>1 DEF Put, Drop, LifecycleInv, LifecycleTypes
    <2>5. /\ Len(hist'[p]) = Len(hist[p]) + 1 /\ hist'[p][Len(hist[p]) + 1] = prep[p]
          /\ \A i \in 1..Len(hist[p]) : hist'[p][i] = hist[p][i]
        BY <2>3, <2>4
    <2>6. VersionChain(p) BY DEF LifecycleInv
    <2>7. VersionChain(p)'
        <3>1. ASSUME NEW i \in 1..Len(hist'[p])
              PROVE  /\ hist'[p][i].number = i
                     /\ \A j \in 1..(i - 1) :
                            DOMAIN hist'[p][i].scope \cap DOMAIN hist'[p][j].scope = {}
                     /\ DOMAIN hist'[p][i].scope \subseteq revision.baseline
            <4>1. CASE i \in 1..Len(hist[p])
                <5>1. p \in DOMAIN rev BY <2>3, <2>6, <4>1 DEF VersionChain
                <5>2. DOMAIN hist[p][i].scope \subseteq before
                    BY <2>6, <4>1, <5>1 DEF VersionChain, Revised
                <5>3. \A j \in 1..(i - 1) : j \in 1..Len(hist[p]) BY <2>3, <4>1
                <5>4. /\ hist[p][i].number = i
                      /\ \A j \in 1..(i - 1) : DOMAIN hist[p][i].scope \cap DOMAIN hist[p][j].scope = {}
                    BY <2>6, <4>1 DEF VersionChain
                <5> HIDE DEF before
                <5> QED BY <2>2, <2>5, <4>1, <5>2, <5>3, <5>4
            <4>2. CASE i = Len(hist[p]) + 1
                <5>1. 1..(i - 1) = 1..Len(hist[p]) BY <2>3, <4>2
                <5>2. \A j \in 1..Len(hist[p]) : DOMAIN prep[p].scope \cap DOMAIN hist[p][j].scope = {}
                    BY <2>1, <2>6 DEF VersionChain
                <5> HIDE DEF before
                <5> QED BY <2>2, <2>3, <2>5, <4>2, <5>1, <5>2
            <4> QED BY <2>3, <2>5, <4>1, <4>2
        <3>2. revision.number = Len(hist'[p]) BY <2>2, <2>3, <2>5
        <3> QED BY <2>4, <3>1, <3>2 DEF VersionChain
    <2>8. IsDecided(p)' BY <2>4 DEF IsDecided
    <2>9. \A q \in POCs \ {p} : SameAt(q)
        BY <2>1 DEF SameAt, KeepsAt, Put, Drop, LifecycleInv, LifecycleTypes
    <2>10. Advances
        <3> SUFFICES ASSUME NEW q \in POCs, NEW n \in Nat, n <= LastNumber(q)
                     PROVE  /\ n <= LastNumber(q)'
                            /\ IsPrepared(q, n)' =>
                                /\ IsPrepared(q, n) /\ prep'[q] = prep[q]
                                /\ q \in DOMAIN conf => q \in DOMAIN conf' /\ conf'[q] = conf[q]
                                /\ q \in DOMAIN frozen => q \in DOMAIN frozen' /\ frozen'[q] = frozen[q]
            BY DEF Advances
        <3>1. CASE q = p BY <2>1, <2>3, <2>4, <2>5, <3>1 DEF LastNumber, IsPrepared
        <3>2. CASE q # p
            <4>1. SameAt(q) BY <2>9, <3>2
            <4> QED BY <4>1 DEF SameAt, KeepsAt, LastNumber, IsPrepared
        <3> QED BY <3>1, <3>2
    <2>11. AnswersNow("revise", p, revision) BY DEF AnswersNow
    <2>12. AnswersRepeat' /\ RepeatsTheGrant' /\ DOMAIN idem' = LifecycleOps
        BY <2>1, <2>10, <2>11, GrantKeeps DEF LifecycleOps
    <2>13. LifecycleTypes'
        <3>1. IsDict(prep', POCs, Prepared) BY <2>1, DropType DEF LifecycleInv, LifecycleTypes
        <3>2. Append(hist[p], prep[p]) \in Seq(Prepared) BY <2>3
        <3>3. hist' \in [POCs -> Seq(Prepared)] BY <2>1, <3>2 DEF LifecycleInv, LifecycleTypes
        <3> QED BY <2>1, <2>12, <3>1, <3>3 DEF LifecycleInv, LifecycleTypes
    <2> QED BY <2>1, <2>7, <2>8, <2>9, <2>12, <2>13, OneVersionMoves
        DEF LifecycleInv, RunsWhatWasConfirmed
<1> QED BY <1>1, <1>2

\* Proposals, the archive and the clock: nothing that was agreed or answered.
LEMMA InputsStep ==
    ASSUME LifecycleInv, prop' \in [Proposals -> ReviewStates],
           UNCHANGED <<prep, conf, frozen, rev, hist, idem, results, grants, granted, started>>
    PROVE  LifecycleInv'
<1>1. AnswersRepeat' BY RepeatsStay DEF LifecycleInv
<1>2. \A q \in POCs : VersionChain(q)' /\ IsDecided(q)' BY AgreementKept DEF AgreementStays
<1> QED BY <1>1, <1>2 DEF LifecycleInv, LifecycleTypes, RunsWhatWasConfirmed, RepeatsTheGrant

LEMMA LifecycleKeeps == LifecycleInv /\ [LifecycleNext]_lifecycleVars => LifecycleInv'
<1> SUFFICES ASSUME LifecycleInv, [LifecycleNext]_lifecycleVars PROVE LifecycleInv' OBVIOUS
<1>1. CASE UNCHANGED lifecycleVars
    BY <1>1, InputsStep DEF lifecycleVars, LifecycleInv, LifecycleTypes
<1>2. ASSUME NEW p \in POCs, NEW k \in LKeys, NEW t \in Targets, PrepareVersion(p, t, k)
      PROVE LifecycleInv'
    BY <1>2, PrepareVersionStep
<1>3. ASSUME NEW p \in POCs, NEW k \in LKeys, Reissue(p, k) PROVE LifecycleInv'
    BY <1>3, LifecycleReissueStep
<1>4. ASSUME NEW p \in POCs, NEW k \in LKeys, NEW token \in 1..issued,
             NEW d \in {"confirm", "changes"}, DecideVersion(token, p, d, k)
      PROVE LifecycleInv'
    BY <1>4, DecideVersionStep
<1>5. ASSUME NEW p \in POCs, NEW k \in LKeys, StartRevision(p, k) PROVE LifecycleInv'
    BY <1>5, StartRevisionStep
<1>6. ASSUME NEW p \in POCs, NEW k \in LKeys, Freeze(p, k) PROVE LifecycleInv'
    BY <1>6, FreezeVersionStep
<1>7. ASSUME NEW p \in POCs, FrozenBundle(p) PROVE LifecycleInv' BY <1>7, FrozenBundleStep
<1>8. ASSUME NEW p \in POCs, Archive(p) PROVE LifecycleInv'
    BY <1>8, InputsStep DEF Archive, LifecycleInv, LifecycleTypes
<1>9. ASSUME NEW q \in Proposals, NEW s \in {"new", "kept", "discarded"} \cup Metrics, InputChanges(q, s)
      PROVE LifecycleInv'
    <2>1. s \in ReviewStates BY DEF ReviewStates
    <2>2. prop' \in [Proposals -> ReviewStates]
        BY <1>9, <2>1 DEF InputChanges, LifecycleInv, LifecycleTypes
    <2> QED BY <1>9, <2>2, InputsStep DEF InputChanges
<1>10. CASE Tick BY <1>10, InputsStep DEF Tick, LifecycleInv, LifecycleTypes
<1> QED BY <1>1, <1>2, <1>3, <1>4, <1>5, <1>6, <1>7, <1>8, <1>9, <1>10 DEF LifecycleNext

\* The chain of versions is what VersionsAreFresh says of it.
LEMMA ChainIsFresh == LifecycleInv => VersionsAreFresh
<1> SUFFICES ASSUME LifecycleInv, NEW p \in DOMAIN prep,
                    NEW i \in 1..Len(Append(hist[p], prep[p]))
             PROVE  LET versions == Append(hist[p], prep[p]) IN
                    /\ versions[i].number = i
                    /\ \A j \in 1..(i - 1) : DOMAIN versions[i].scope \cap DOMAIN versions[j].scope = {}
    BY DEF VersionsAreFresh
<1>1. p \in POCs BY DEF LifecycleInv, LifecycleTypes, IsDict
<1>2. /\ hist[p] \in Seq(Prepared) /\ Len(hist[p]) \in Nat /\ prep[p] \in Prepared
      /\ prep[p].number = Len(hist[p]) + 1
    BY <1>1, VersionIs
<1>3. PICK v : v = Append(hist[p], prep[p]) OBVIOUS
<1>4. /\ Len(v) = Len(hist[p]) + 1 /\ v[Len(hist[p]) + 1] = prep[p]
      /\ \A j \in 1..Len(hist[p]) : v[j] = hist[p][j]
    BY <1>2, <1>3
<1>5. VersionChain(p) BY <1>1 DEF LifecycleInv
<1>6. v[i].number = i /\ \A j \in 1..(i - 1) : DOMAIN v[i].scope \cap DOMAIN v[j].scope = {}
    <2>1. CASE i \in 1..Len(hist[p])
        <3>1. \A j \in 1..(i - 1) : j \in 1..Len(hist[p]) BY <1>2, <2>1
        <3>2. /\ hist[p][i].number = i
              /\ \A j \in 1..(i - 1) : DOMAIN hist[p][i].scope \cap DOMAIN hist[p][j].scope = {}
            BY <1>5, <2>1 DEF VersionChain
        <3> QED BY <1>4, <2>1, <3>1, <3>2
    <2>2. CASE i = Len(hist[p]) + 1
        <3>1. 1..(i - 1) = 1..Len(hist[p]) BY <1>2, <2>2
        <3>2. \A j \in 1..Len(hist[p]) : DOMAIN prep[p].scope \cap DOMAIN hist[p][j].scope = {}
            BY <1>5 DEF VersionChain
        <3> QED BY <1>2, <1>4, <2>2, <3>1, <3>2
    <2> QED BY <1>2, <1>3, <1>4, <2>1, <2>2
<1> QED BY <1>3, <1>6

\* What runs is what was confirmed, versions share no proposal, and a repeated
\* request is answered as it was, for any number of POCs, proposals and keys.
THEOREM RunsAsAgreed ==
    LifecycleSpec => [](RunsWhatWasConfirmed /\ VersionsAreFresh /\ RepeatsTheGrant)
<1>1. LifecycleInit => LifecycleInv BY LifecycleStarts
<1>2. LifecycleInv /\ [LifecycleNext]_lifecycleVars => LifecycleInv' BY LifecycleKeeps
<1>3. LifecycleInv => RunsWhatWasConfirmed /\ VersionsAreFresh /\ RepeatsTheGrant
    BY ChainIsFresh DEF LifecycleInv
<1> QED BY <1>1, <1>2, <1>3, PTL DEF LifecycleSpec

-----------------------------------------------------------------------------
(***************************************************************************)
(* PerformanceDecision: the percentile.                                    *)
(***************************************************************************)

\* A set of numbers that is not empty has a least one.
LEMMA LeastOf == ASSUME NEW T \in SUBSET Nat, T # {} PROVE \E x \in T : \A y \in T : x <= y
<1> SUFFICES ASSUME \A x \in T : \E y \in T : ~(x <= y) PROVE FALSE OBVIOUS
<1> DEFINE N == {n \in Nat : \A m \in T : n < m}
<1>1. 0 \in N
    <2> SUFFICES ASSUME NEW m \in T PROVE 0 < m OBVIOUS
    <2>1. PICK y \in T : ~(m <= y) OBVIOUS
    <2> QED BY <2>1
<1>2. ASSUME NEW n \in Nat, n \in N PROVE n + 1 \in N
    <2> SUFFICES ASSUME NEW m \in T PROVE n + 1 < m OBVIOUS
    <2>1. PICK y \in T : ~(m <= y) OBVIOUS
    <2>2. n < y /\ n < m BY <1>2
    <2> QED BY <2>1, <2>2
<1> HIDE DEF N
<1>3. Nat \subseteq N BY <1>1, <1>2, NatSetInduction
<1>4. PICK x \in T : TRUE OBVIOUS
<1>5. x \in N BY <1>3
<1> QED BY <1>5 DEF N

\* The percentile is one of the values, and at most one in twenty is above it.
LEMMA PercentileFacts ==
    ASSUME NEW D, IsFiniteSet(D), D # {}, NEW f \in [D -> Nat]
    PROVE  /\ NearestRankP95(f) \in Nat
           /\ 20 * Cardinality({i \in D : f[i] > NearestRankP95(f)}) <= Cardinality(D)
<1> DEFINE n == Cardinality(D)
           rank == (95 * n + 99) \div 100
           Below(v) == {i \in D : f[i] <= v}
           Values == {f[i] : i \in D}
           Good == {v \in Values : rank <= Cardinality(Below(v))}
<1>1. n \in Nat /\ n # 0 BY FS_CardinalityType, FS_EmptySet
<1>2. rank \in Nat /\ rank <= n /\ 20 * (n - rank) <= n BY <1>1
<1>3. Values \in SUBSET Nat /\ Values # {} OBVIOUS
<1>4. \A v : IsFiniteSet(Below(v)) /\ Cardinality(Below(v)) \in Nat /\ Cardinality(Below(v)) <= n
    <2> TAKE v
    <2>1. Below(v) \in SUBSET D OBVIOUS
    <2> QED BY <2>1, FS_Subset, FS_CardinalityType
<1>5. \E w \in Values : Cardinality(Below(w)) = n
    <2> DEFINE Missing == {n - Cardinality(Below(v)) : v \in Values}
    <2>1. Missing \in SUBSET Nat /\ Missing # {}
        <3> HIDE DEF n, Below, Values
        <3>1. \A v \in Values : n - Cardinality(Below(v)) \in Nat BY <1>1, <1>4
        <3> QED BY <1>3, <3>1
    <2>2. PICK m \in Missing : \A k \in Missing : m <= k BY <2>1, LeastOf
    <2>3. PICK w \in Values : m = n - Cardinality(Below(w)) BY <2>2
    <2>4. ASSUME NEW i \in D, ~(f[i] <= w) PROVE FALSE
        <3>1. f[i] \in Values /\ f[i] \in Nat /\ w \in Nat BY <1>3
        <3>2. Below(w) \in SUBSET Below(f[i]) /\ i \in Below(f[i]) /\ i \notin Below(w) BY <2>4, <3>1
        <3>3. Below(w) # Below(f[i]) BY <3>2, Zenon
        <3>4. Cardinality(Below(w)) <= Cardinality(Below(f[i]))
              /\ Cardinality(Below(w)) # Cardinality(Below(f[i]))
            BY <1>4, <3>2, <3>3, FS_Subset
        <3>5. n - Cardinality(Below(f[i])) \in Missing BY <3>1
        <3>6. m <= n - Cardinality(Below(f[i])) BY <2>2, <3>5
        <3> QED BY <1>1, <1>4, <2>3, <3>4, <3>6
    <2>5. Below(w) = D BY <2>4
    <2> QED BY <2>5
<1>6. PICK v \in Good : \A w \in Good : v <= w
    <2>1. Good \in SUBSET Nat /\ Good # {} BY <1>2, <1>3, <1>5
    <2> QED BY <2>1, LeastOf
<1>7. DOMAIN f = D /\ Range(f) = Values BY DEF Range
<1>8. NearestRankP95(f) \in Good
    <2>1. NearestRankP95(f) =
            CHOOSE x \in Values : rank <= Cardinality(Below(x))
                    /\ \A w \in Values : rank <= Cardinality(Below(w)) => x <= w
        BY <1>7 DEF NearestRankP95
    <2>2. v \in Values /\ rank <= Cardinality(Below(v))
          /\ \A w \in Values : rank <= Cardinality(Below(w)) => v <= w
        BY <1>6
    <2> HIDE DEF Values, rank, Below
    <2> QED BY <2>1, <2>2
<1> DEFINE p == NearestRankP95(f)
<1>9. p \in Nat /\ rank <= Cardinality(Below(p)) BY <1>3, <1>8
<1>10. {i \in D : f[i] > p} = D \ Below(p) BY <1>9
<1>11. Cardinality(D \ Below(p)) = n - Cardinality(Below(p))
    <2>1. D \cap Below(p) = Below(p) OBVIOUS
    <2> QED BY <2>1, FS_Difference
<1>12. Cardinality(Below(p)) \in Nat BY <1>4
<1> HIDE DEF n, rank, Below
<1>13. 20 * (n - Cardinality(Below(p))) <= n BY <1>1, <1>2, <1>9, <1>12
<1> QED BY <1>9, <1>10, <1>11, <1>13 DEF n

\* What a PASS has measured.
LEMMA PassMeans ==
    ASSUME NEW c, NEW run, EvaluatePerformance(c, run) = "PASS"
    PROVE  LET m == MeasurePerformance(run) IN
           /\ ~m.issue /\ ~(m.successful < c.minSuccesses)
           /\ m.p95 # <<>> /\ InTime(c, m.p95[1]) /\ m.attempted = c.attempts
           /\ m.errors * c.errorDen < c.errorNum * m.attempted
<1> DEFINE m == MeasurePerformance(run)
<1>1. ~m.issue /\ CompositeVerdict({TtftRule(c, m), ErrorRateRule(c, m)}) = "PASS"
    BY DEF EvaluatePerformance, CompositeVerdict
<1> HIDE DEF m
<1>2. TtftRule(c, m) \in {"PASS", "FAIL", "NOT_PROVEN"} /\ ErrorRateRule(c, m) \in {"PASS", "FAIL", "NOT_PROVEN"}
    BY DEF TtftRule, ErrorRateRule
<1>3. TtftRule(c, m) = "PASS" /\ ErrorRateRule(c, m) = "PASS" BY <1>1, <1>2 DEF CompositeVerdict
<1>4. ~(m.successful < c.minSuccesses) /\ m.p95 # <<>> /\ InTime(c, m.p95[1])
    BY <1>3 DEF TtftRule
<1>5. m.attempted = c.attempts /\ m.errors * c.errorDen < c.errorNum * m.attempted
    BY <1>3 DEF ErrorRateRule
<1> QED BY <1>1, <1>4, <1>5 DEF m

-----------------------------------------------------------------------------
(***************************************************************************)
(* StreamProbe.                                                            *)
(***************************************************************************)

Opt == {<<>>} \cup {<<n>> : n \in Nat}
Places == {"queued", "sending", "reading", "closing", "recorded"}
Locals ==
    [at : Places, started : Nat, status : Opt, first : Opt, outcome : Outcomes, ttft : Opt,
     duration : Nat]

\* The locals of an attempt and what was heard of its stream: while it is read
\* they agree on the first content, and the record of a success has it.
Hears(l, h, now) ==
    /\ l.started <= now
    /\ l.at \in {"queued", "sending"} => h = <<>> /\ l.first = <<>>
    /\ l.at = "reading" /\ l.first = <<>> => h = <<>>
    /\ l.at = "reading" /\ l.first # <<>> =>
        l.started <= l.first[1] /\ h = <<l.first[1] - l.started>>
    /\ l.at \in {"closing", "recorded"} /\ l.outcome = "SUCCESS" => l.ttft # <<>> /\ h = l.ttft

ProbeTypes ==
    /\ clock \in Nat
    /\ att \in [Attempts -> Locals]
    /\ DOMAIN heard = Attempts

ProbeInv ==
    /\ ProbeTypes
    /\ \A a \in Attempts : Hears(att[a], heard[a], clock)
    /\ stage \notin {"WARMUP", "MEASURED"} => \A a \in AttemptsOf("MEASURED") : att[a].at = "recorded"
    /\ verdict # <<>> => stage = "decided"
    /\ PassIsMeasured

LEMMA ProbeStarts == ProbeInit => ProbeInv
<1> SUFFICES ASSUME ProbeInit PROVE ProbeInv OBVIOUS
<1>1. Attempt("queued", 0) \in Locals
    BY DEF Attempt, Locals, Places, Opt, Outcomes
<1>2. ProbeTypes BY <1>1 DEF ProbeInit, ProbeTypes
<1>3. Hears(Attempt("queued", 0), <<>>, 0) BY DEF Attempt, Hears
<1>4. PassIsMeasured BY DEF ProbeInit, PassIsMeasured
<1> QED BY <1>2, <1>3, <1>4 DEF ProbeInit, ProbeInv

\* What a PASS is about stays.
LEMMA PassStays ==
    ASSUME PassIsMeasured, verdict' = verdict,
           verdict # <<>> => \A a \in AttemptsOf("MEASURED") : att'[a] = att[a] /\ heard'[a] = heard[a]
    PROVE  PassIsMeasured'
<1>1. CASE verdict # <<"PASS">> BY <1>1 DEF PassIsMeasured
<1>2. CASE verdict = <<"PASS">>
    <2>1. \A a \in AttemptsOf("MEASURED") : att'[a] = att[a] /\ heard'[a] = heard[a] BY <1>2
    <2>2. Delivered' = Delivered BY <2>1 DEF Delivered, AttemptsOf
    <2>3. \A a \in Delivered : heard'[a] = heard[a] BY <2>1 DEF Delivered
    <2>4. LateFirstToken' = LateFirstToken BY <2>2, <2>3 DEF LateFirstToken, InTime
    <2>5. AttemptsOf("MEASURED")' = AttemptsOf("MEASURED") BY DEF AttemptsOf
    <2> QED BY <1>2, <2>2, <2>4, <2>5 DEF PassIsMeasured
<1> QED BY <1>1, <1>2

\* A step of one attempt that was not recorded.
LEMMA OneAttemptMoves ==
    ASSUME ProbeInv, NEW a \in Attempts, att[a].at # "recorded", NEW l \in Locals, Becomes(a, l),
           DOMAIN heard' = Attempts, \A b \in Attempts \ {a} : heard'[b] = heard[b],
           Hears(l, heard'[a], clock)
    PROVE  ProbeInv'
<1>1. /\ att' = [att EXCEPT ![a] = l] /\ UNCHANGED <<clock, stage, verdict>> BY DEF Becomes
<1>2. /\ att'[a] = l /\ \A b \in Attempts \ {a} : att'[b] = att[b]
      /\ att' \in [Attempts -> Locals]
    BY <1>1 DEF ProbeInv, ProbeTypes
<1>3. ProbeTypes' BY <1>1, <1>2 DEF ProbeInv, ProbeTypes, Attempts, AttemptsOf
<1>4. \A b \in Attempts : Hears(att'[b], heard'[b], clock') BY <1>1, <1>2 DEF ProbeInv
<1>5. AttemptsOf("MEASURED") \subseteq Attempts BY DEF Attempts
<1>6. stage \notin {"WARMUP", "MEASURED"} => \A b \in AttemptsOf("MEASURED") : b # a
    BY DEF ProbeInv
<1>7. verdict # <<>> => \A b \in AttemptsOf("MEASURED") : att'[b] = att[b] /\ heard'[b] = heard[b]
    BY <1>2, <1>5, <1>6 DEF ProbeInv
<1>8. PassIsMeasured' BY <1>1, <1>7, PassStays DEF ProbeInv
<1>9. stage' \notin {"WARMUP", "MEASURED"} => \A b \in AttemptsOf("MEASURED")' : att'[b].at = "recorded"
    <2>1. AttemptsOf("MEASURED")' = AttemptsOf("MEASURED") BY DEF AttemptsOf
    <2> QED BY <1>1, <1>2, <1>5, <1>6, <2>1 DEF ProbeInv
<1>10. Attempts' = Attempts BY DEF Attempts, AttemptsOf
<1> QED BY <1>1, <1>3, <1>4, <1>8, <1>9, <1>10 DEF ProbeInv

\* The end of an attempt that is no success may have heard anything.
LEMMA EndedFits ==
    ASSUME NEW l \in Locals, NEW h, NEW o \in Outcomes \ {"SUCCESS"}, clock \in Nat, l.started <= clock
    PROVE  /\ Ended(l, o) \in Locals /\ EndedWithout(l, o) \in Locals
           /\ Ended(l, o).outcome = o /\ EndedWithout(l, o).outcome = o
           /\ Hears(Ended(l, o), h, clock) /\ Hears(EndedWithout(l, o), h, clock)
<1>1. clock - l.started \in Nat /\ <<>> \in Opt BY DEF Locals, Opt
<1>2. PICK e : e = Ended(l, o) OBVIOUS
<1>3. e = [l EXCEPT !.outcome = o, !.duration = clock - l.started, !.at = "closing"]
    BY <1>2 DEF Ended
<1>4. e \in Locals /\ e.outcome = o /\ e.at = "closing" /\ e.started = l.started
    BY <1>1, <1>3 DEF Locals, Places
<1>5. PICK w : w = EndedWithout(l, o) OBVIOUS
<1>6. w = [e EXCEPT !.status = <<>>, !.ttft = <<>>] BY <1>2, <1>5 DEF EndedWithout
<1>7. w \in Locals /\ w.outcome = o /\ w.at = "closing" /\ w.started = l.started
    BY <1>1, <1>4, <1>6 DEF Locals
<1>8. Hears(e, h, clock) /\ Hears(w, h, clock) BY <1>4, <1>7 DEF Hears
<1> QED BY <1>2, <1>4, <1>5, <1>7, <1>8

\* The record of an attempt keeps its outcome and its interval.
LEMMA RecordedFits ==
    ASSUME NEW l \in Locals, NEW h, NEW now \in Nat,
           l.outcome = "SUCCESS" => l.ttft # <<>> /\ h = l.ttft
    PROVE  Recorded(l) \in Locals /\ Hears(Recorded(l), h, now)
<1>1. PICK r : r = Recorded(l) OBVIOUS
<1>2. r = [l EXCEPT !.at = "recorded", !.started = 0, !.first = <<>>] BY <1>1 DEF Recorded
<1>3. <<>> \in Opt BY DEF Opt
<1>4. r \in Locals /\ r.at = "recorded" /\ r.started = 0 /\ r.outcome = l.outcome /\ r.ttft = l.ttft
    BY <1>2, <1>3 DEF Locals, Places
<1>5. Hears(r, h, now) BY <1>4 DEF Hears
<1> QED BY <1>1, <1>4, <1>5

LEMMA AttemptIs ==
    ASSUME ProbeInv, NEW a \in Attempts
    PROVE  /\ att[a] \in Locals /\ Hears(att[a], heard[a], clock)
           /\ att[a].started <= clock /\ clock \in Nat /\ DOMAIN heard = Attempts
<1>1. att[a] \in Locals /\ Hears(att[a], heard[a], clock) /\ clock \in Nat /\ DOMAIN heard = Attempts
    BY DEF ProbeInv, ProbeTypes
<1>3. att[a].started <= clock BY <1>1 DEF Hears
<1> QED BY <1>1, <1>3

LEMMA BeginStep == ASSUME ProbeInv, NEW a \in Attempts, Begin(a) PROVE ProbeInv'
<1>1. att[a].at # "recorded" /\ heard' = heard BY DEF Begin, NextAttempt
<1>2. /\ clock \in Nat /\ heard[a] = <<>> /\ DOMAIN heard = Attempts
    BY AttemptIs DEF Begin, NextAttempt, Hears
<1>3. PICK n : n = Attempt("sending", clock) OBVIOUS
<1>4. n \in Locals /\ n.at = "sending" /\ n.first = <<>> /\ n.started = clock
    BY <1>2, <1>3 DEF Attempt, Locals, Places, Opt, Outcomes
<1>5. Hears(n, heard[a], clock) BY <1>2, <1>4 DEF Hears
<1>6. PICK e : e = Ended(n, "CANCELLED") OBVIOUS
<1>7. e \in Locals /\ e.outcome = "CANCELLED"
    <2>1. "CANCELLED" \in Outcomes \ {"SUCCESS"} BY DEF Outcomes
    <2>2. n.started <= clock BY <1>2, <1>4
    <2> QED BY <1>2, <1>4, <1>6, <2>1, <2>2, EndedFits
<1>8. Recorded(e) \in Locals /\ Hears(Recorded(e), heard[a], clock)
    BY <1>2, <1>7, RecordedFits
<1>9. PICK l : l = IF cancelled THEN Recorded(e) ELSE n OBVIOUS
<1>10. Becomes(a, l) BY <1>3, <1>6, <1>9 DEF Begin
<1>11. l \in Locals /\ Hears(l, heard[a], clock) BY <1>4, <1>5, <1>8, <1>9
<1> QED BY <1>1, <1>2, <1>10, <1>11, OneAttemptMoves

LEMMA RespondStep ==
    ASSUME ProbeInv, NEW a \in Attempts, NEW status \in {200, 500}, NEW isStream \in BOOLEAN,
           Respond(a, status, isStream)
    PROVE  ProbeInv'
<1>1. att[a].at = "sending" /\ heard' = heard BY DEF Respond
<1>2. PICK got : got = [att[a] EXCEPT !.status = <<status>>] OBVIOUS
<1>3. /\ got \in Locals /\ got.at = "sending" /\ got.started = att[a].started
      /\ got.first = <<>> /\ heard[a] = <<>>
    <2>1. <<status>> \in Opt BY DEF Opt
    <2>2. att[a].first = <<>> /\ heard[a] = <<>> BY <1>1, AttemptIs DEF Hears
    <2> QED BY <1>1, <1>2, <2>1, <2>2, AttemptIs DEF Locals, Places
<1>4. clock \in Nat /\ got.started <= clock /\ DOMAIN heard = Attempts BY <1>3, AttemptIs
<1>5. PICK l : l = IF ~Is2xx(status) THEN Ended(got, "HTTP_ERROR")
                   ELSE IF ~isStream THEN Ended(got, "PROTOCOL_ERROR")
                   ELSE [got EXCEPT !.at = "reading"]
    OBVIOUS
<1>6. Becomes(a, l) BY <1>2, <1>5 DEF Respond
<1>7. \A o \in {"HTTP_ERROR", "PROTOCOL_ERROR"} :
        Ended(got, o) \in Locals /\ Hears(Ended(got, o), heard[a], clock)
    BY <1>3, <1>4, EndedFits DEF Outcomes
<1>8. [got EXCEPT !.at = "reading"] \in Locals /\ Hears([got EXCEPT !.at = "reading"], heard[a], clock)
    BY <1>3, <1>4 DEF Locals, Places, Hears
<1>9. l \in Locals /\ Hears(l, heard[a], clock) BY <1>5, <1>7, <1>8
<1> QED BY <1>1, <1>4, <1>6, <1>9, OneAttemptMoves

LEMMA SendFailsStep ==
    ASSUME ProbeInv, NEW a \in Attempts, NEW o \in Outcomes \ {"SUCCESS"}, SendFails(a, o)
    PROVE  ProbeInv'
<1>1. att[a].at # "recorded" /\ heard' = heard BY DEF SendFails
<1>2. PICK e : e = Ended(att[a], o) OBVIOUS
<1>3. e \in Locals /\ e.outcome = o BY <1>2, AttemptIs, EndedFits
<1>4. Recorded(e) \in Locals /\ Hears(Recorded(e), heard[a], clock) BY <1>3, AttemptIs, RecordedFits
<1>5. Becomes(a, Recorded(e)) BY <1>2 DEF SendFails
<1> QED BY <1>1, <1>4, <1>5, AttemptIs, OneAttemptMoves

LEMMA DroppedStep == ASSUME ProbeInv, NEW a \in Attempts, Dropped(a) PROVE ProbeInv'
<1>1. att[a].at # "recorded" /\ heard' = heard BY DEF Dropped
<1>2. PICK l : l = IF cancelled THEN EndedWithout(att[a], "CANCELLED")
                   ELSE IF Expired(a) THEN EndedWithout(att[a], "TIMEOUT")
                   ELSE Ended(att[a], "PROTOCOL_ERROR")
    OBVIOUS
<1>3. \A o \in {"CANCELLED", "TIMEOUT", "PROTOCOL_ERROR"} :
        /\ Ended(att[a], o) \in Locals /\ Hears(Ended(att[a], o), heard[a], clock)
        /\ EndedWithout(att[a], o) \in Locals
        /\ Hears(EndedWithout(att[a], o), heard[a], clock)
    BY AttemptIs, EndedFits DEF Outcomes
<1>4. l \in Locals /\ Hears(l, heard[a], clock) BY <1>2, <1>3
<1>5. Becomes(a, l) BY <1>2 DEF Dropped
<1> QED BY <1>1, <1>4, <1>5, AttemptIs, OneAttemptMoves

LEMMA ReadFailsStep ==
    ASSUME ProbeInv, NEW a \in Attempts, NEW o \in Outcomes \ {"SUCCESS"}, ReadFails(a, o)
    PROVE  ProbeInv'
<1>1. att[a].at # "recorded" /\ heard' = heard BY DEF ReadFails
<1>2. PICK l : l = IF o \in {"TIMEOUT", "CANCELLED"} THEN EndedWithout(att[a], o)
                                                  ELSE Ended(att[a], o)
    OBVIOUS
<1>3. l \in Locals /\ Hears(l, heard[a], clock) BY <1>2, AttemptIs, EndedFits
<1>4. Becomes(a, l) BY <1>2 DEF ReadFails
<1> QED BY <1>1, <1>3, <1>4, AttemptIs, OneAttemptMoves

LEMMA CloseStep == ASSUME ProbeInv, NEW a \in Attempts, Close(a) PROVE ProbeInv'
<1>1. att[a].at = "closing" /\ heard' = heard /\ Becomes(a, Recorded(att[a])) BY DEF Close
<1>2. att[a].outcome = "SUCCESS" => att[a].ttft # <<>> /\ heard[a] = att[a].ttft
    BY <1>1, AttemptIs DEF Hears
<1>3. Recorded(att[a]) \in Locals /\ Hears(Recorded(att[a]), heard[a], clock)
    BY <1>2, AttemptIs, RecordedFits
<1> QED BY <1>1, <1>3, AttemptIs, OneAttemptMoves

LEMMA CloseFailsStep ==
    ASSUME ProbeInv, NEW a \in Attempts, NEW o \in Outcomes \ {"SUCCESS"}, CloseFails(a, o)
    PROVE  ProbeInv'
<1>1. att[a].at # "recorded" /\ heard' = heard BY DEF CloseFails
<1>2. PICK e : e = Ended(att[a], o) OBVIOUS
<1>3. e \in Locals /\ e.outcome = o BY <1>2, AttemptIs, EndedFits
<1>4. PICK w : w = [e EXCEPT !.ttft = <<>>] OBVIOUS
<1>5. w \in Locals /\ w.outcome = o BY <1>3, <1>4 DEF Locals, Opt
<1>6. Recorded(w) \in Locals /\ Hears(Recorded(w), heard[a], clock) BY <1>5, AttemptIs, RecordedFits
<1>7. Becomes(a, Recorded(w)) BY <1>2, <1>4 DEF CloseFails
<1> QED BY <1>1, <1>6, <1>7, AttemptIs, OneAttemptMoves

\* A success is recorded with what was heard.
LEMMA ProbeReadStep ==
    ASSUME ProbeInv, NEW a \in Attempts,
           NEW event \in {"role", "content", "[DONE]", "malformed"}, Read(a, event)
    PROVE  ProbeInv'
<1>1. att[a].at = "reading" BY DEF Read
<1>2. /\ att[a] \in Locals /\ Hears(att[a], heard[a], clock)
      /\ att[a].started <= clock /\ clock \in Nat /\ DOMAIN heard = Attempts
    BY AttemptIs
<1>3. PICK h : h = IF event = "content" /\ heard[a] = <<>> THEN <<clock - att[a].started>>
                   ELSE heard[a]
    OBVIOUS
<1>4. DOMAIN heard' = Attempts /\ heard'[a] = h /\ \A b \in Attempts \ {a} : heard'[b] = heard[b]
    BY <1>2, <1>3 DEF Read
<1>5. PICK first : first = FirstToken(a, event) OBVIOUS
<1>6. /\ first \in Opt
      /\ first = <<>> => h = <<>>
      /\ first # <<>> => att[a].started <= first[1] /\ h = <<first[1] - att[a].started>>
    <2>1. att[a].first \in Opt /\ att[a].started \in Nat BY <1>2 DEF Locals
    <2>2. att[a].first = <<>> => heard[a] = <<>> BY <1>1, <1>2 DEF Hears
    <2>3. att[a].first # <<>> =>
            /\ att[a].started <= att[a].first[1]
            /\ heard[a] = <<att[a].first[1] - att[a].started>>
        BY <1>1, <1>2 DEF Hears
    <2>4. CASE att[a].first # <<>>
        <3>1. first = att[a].first BY <1>5, <2>4 DEF FirstToken
        <3>2. heard[a] # <<>>
            <4>1. PICK d : d = att[a].first[1] - att[a].started OBVIOUS
            <4>2. heard[a] = <<d>> BY <2>3, <2>4, <4>1
            <4> QED BY <4>2
        <3> QED BY <1>3, <2>1, <2>3, <2>4, <3>1, <3>2
    <2>5. CASE att[a].first = <<>> /\ event = "content"
        <3>1. first = <<clock>> BY <1>5, <2>5 DEF FirstToken
        <3>2. h = <<clock - att[a].started>> BY <1>3, <2>2, <2>5
        <3> QED BY <1>2, <3>1, <3>2 DEF Opt
    <2>6. CASE att[a].first = <<>> /\ event # "content"
        BY <1>3, <1>5, <2>2, <2>6 DEF FirstToken, Opt
    <2> QED BY <2>4, <2>5, <2>6
<1>7. PICK got : got = [att[a] EXCEPT !.first = first] OBVIOUS
<1>8. /\ got \in Locals /\ got.at = "reading" /\ got.started = att[a].started
      /\ got.first = first /\ got.started <= clock
    BY <1>1, <1>2, <1>6, <1>7 DEF Locals
<1>9. Hears(got, h, clock) BY <1>6, <1>8 DEF Hears
<1>10. \A o \in {"CANCELLED", "TIMEOUT", "PROTOCOL_ERROR"} :
        /\ Ended(got, o) \in Locals /\ Hears(Ended(got, o), h, clock)
        /\ EndedWithout(got, o) \in Locals /\ Hears(EndedWithout(got, o), h, clock)
    <2> SUFFICES ASSUME NEW o \in {"CANCELLED", "TIMEOUT", "PROTOCOL_ERROR"}
                 PROVE  /\ Ended(got, o) \in Locals /\ Hears(Ended(got, o), h, clock)
                        /\ EndedWithout(got, o) \in Locals /\ Hears(EndedWithout(got, o), h, clock)
        OBVIOUS
    <2>1. o \in Outcomes \ {"SUCCESS"} BY DEF Outcomes
    <2> QED BY <1>2, <1>8, <2>1, EndedFits
<1>11. PICK won : won = [Ended(got, "SUCCESS") EXCEPT !.ttft = <<first[1] - got.started>>] OBVIOUS
<1>12. first # <<>> => won \in Locals /\ Hears(won, h, clock)
    <2>1. SUFFICES ASSUME first # <<>> PROVE won \in Locals /\ Hears(won, h, clock) OBVIOUS
    <2>2. PICK e : e = Ended(got, "SUCCESS") OBVIOUS
    <2>3. e = [got EXCEPT !.outcome = "SUCCESS", !.duration = clock - got.started, !.at = "closing"]
        BY <2>2 DEF Ended
    <2>4. clock - got.started \in Nat /\ first[1] - got.started \in Nat
        BY <1>2, <1>6, <1>8, <2>1 DEF Locals, Opt
    <2>5. e \in Locals /\ e.outcome = "SUCCESS" /\ e.at = "closing" /\ e.started = got.started
        BY <1>8, <2>3, <2>4 DEF Locals, Places, Outcomes
    <2>6. won = [e EXCEPT !.ttft = <<first[1] - got.started>>] BY <1>11, <2>2
    <2>7. /\ won \in Locals /\ won.ttft = <<first[1] - got.started>> /\ won.at = "closing"
          /\ won.started = got.started
        <3>1. <<first[1] - got.started>> \in Opt BY <2>4 DEF Opt
        <3> QED BY <2>5, <2>6, <3>1 DEF Locals
    <2> QED BY <1>6, <1>8, <2>1, <2>7 DEF Hears
<1>13. PICK l : l = Consumed(a, event) OBVIOUS
<1>14. l = IF cancelled THEN EndedWithout(got, "CANCELLED")
           ELSE IF Expired(a) THEN EndedWithout(got, "TIMEOUT")
           ELSE IF event = "malformed" \/ (event = "[DONE]" /\ first = <<>>)
                THEN Ended(got, "PROTOCOL_ERROR")
           ELSE IF event = "[DONE]" THEN won ELSE got
    BY <1>5, <1>7, <1>8, <1>11, <1>13 DEF Consumed
<1>15. l \in Locals /\ Hears(l, h, clock) BY <1>8, <1>9, <1>10, <1>12, <1>14
<1>16. Becomes(a, l) BY <1>13 DEF Read
<1>17. att[a].at # "recorded" BY <1>1
<1> QED BY <1>4, <1>15, <1>16, <1>17, OneAttemptMoves

\* Nothing of the attempts moves, and a verdict, if there was one, stays.
LEMMA AttemptsStay ==
    ASSUME ProbeInv, UNCHANGED <<att, heard, verdict>>, clock' \in Nat, clock <= clock',
           stage' \notin {"WARMUP", "MEASURED"} =>
             \A a \in AttemptsOf("MEASURED") : att[a].at = "recorded",
           verdict # <<>> => stage' = "decided"
    PROVE  ProbeInv'
<1>1. AttemptsOf("MEASURED")' = AttemptsOf("MEASURED") /\ Attempts' = Attempts
    BY DEF Attempts, AttemptsOf
<1>2. ProbeTypes' BY <1>1 DEF ProbeInv, ProbeTypes
<1>3. \A a \in Attempts : Hears(att[a], heard[a], clock')
    <2> TAKE a \in Attempts
    <2>1. att[a].started \in Nat /\ att[a].started <= clock /\ Hears(att[a], heard[a], clock) /\ clock \in Nat
        BY AttemptIs DEF Locals
    <2>2. att[a].started <= clock' BY <2>1
    <2> QED BY <2>1, <2>2 DEF Hears
<1>4. PassIsMeasured' BY PassStays DEF ProbeInv
<1> QED BY <1>1, <1>2, <1>3, <1>4 DEF ProbeInv

LEMMA ValidateRunStep == ASSUME ProbeInv, ValidateRun PROVE ProbeInv'
<1>1. /\ stage = "MEASURED" /\ \A a \in AttemptsOf("MEASURED") : att[a].at = "recorded"
      /\ UNCHANGED <<clock, att, heard, verdict>>
    BY DEF ValidateRun, PhaseOver
<1>2. verdict = <<>> /\ clock' \in Nat /\ clock <= clock' BY <1>1 DEF ProbeInv, ProbeTypes
<1> QED BY <1>1, <1>2, AttemptsStay

LEMMA StartMeasuredStep == ASSUME ProbeInv, StartMeasured PROVE ProbeInv'
<1>1. stage = "WARMUP" /\ stage' = "MEASURED" /\ UNCHANGED <<clock, att, heard, verdict>>
    BY DEF StartMeasured
<1>2. verdict = <<>> /\ clock' \in Nat /\ clock <= clock' BY <1>1 DEF ProbeInv, ProbeTypes
<1> QED BY <1>1, <1>2, AttemptsStay

LEMMA ProbeTickStep == ASSUME ProbeInv, ProbeTick PROVE ProbeInv'
<1>1. clock' = clock + 1 /\ UNCHANGED <<stage, att, heard, verdict>> BY DEF ProbeTick
<1>2. clock' \in Nat /\ clock <= clock' BY <1>1 DEF ProbeInv, ProbeTypes
<1> QED BY <1>1, <1>2, AttemptsStay DEF ProbeInv

LEMMA ProbeCancelStep == ASSUME ProbeInv, ProbeCancel PROVE ProbeInv'
<1>1. UNCHANGED <<clock, stage, att, heard, verdict>> BY DEF ProbeCancel
<1>2. clock' \in Nat /\ clock <= clock' BY <1>1 DEF ProbeInv, ProbeTypes
<1> QED BY <1>1, <1>2, AttemptsStay DEF ProbeInv

\* The position of an attempt's record in the evidence of the run.
PositionsOf(S) == {i \in 1 .. Warmups + Requests : i > Warmups /\ <<"MEASURED", i - Warmups>> \in S}

LEMMA PositionsCount ==
    ASSUME NEW S \in SUBSET AttemptsOf("MEASURED")
    PROVE  /\ IsFiniteSet(PositionsOf(S)) /\ Cardinality(PositionsOf(S)) = Cardinality(S)
           /\ IsFiniteSet(S) /\ Cardinality(S) \in Nat
<1>1. Warmups \in Nat /\ Requests \in Nat BY StreamProbeAssumption
<1>2. IsFiniteSet(1 .. Warmups + Requests) BY <1>1, FS_Interval
<1>3. IsFiniteSet(PositionsOf(S)) BY <1>2, FS_Subset DEF PositionsOf
<1> DEFINE f == [i \in PositionsOf(S) |-> <<"MEASURED", i - Warmups>>]
<1>4. f \in [PositionsOf(S) -> S] BY DEF PositionsOf
<1>5. ASSUME NEW i \in PositionsOf(S), NEW j \in PositionsOf(S), f[i] = f[j] PROVE i = j
    <2>1. i - Warmups = j - Warmups /\ i \in Nat /\ j \in Nat BY <1>1, <1>5 DEF PositionsOf
    <2> QED BY <1>1, <2>1
<1>6. ASSUME NEW s \in S PROVE \E i \in PositionsOf(S) : f[i] = s
    <2>1. PICK n \in 1 .. Requests : s = <<"MEASURED", n>> BY DEF AttemptsOf
    <2>2. n + Warmups \in PositionsOf(S) /\ (n + Warmups) - Warmups = n
        BY <1>1, <2>1 DEF PositionsOf
    <2> QED BY <2>1, <2>2
<1>7. ExistsBijection(PositionsOf(S), S)
    <2> HIDE DEF f
    <2>1. f \in Injection(PositionsOf(S), S)
        BY <1>4, <1>5 DEF Injection, IsInjective
    <2>2. f \in Surjection(PositionsOf(S), S) BY <1>4, <1>6 DEF Surjection
    <2> QED BY <2>1, <2>2 DEF ExistsBijection, Bijection
<1> QED BY <1>3, <1>7, FS_Bijection, FS_CardinalityType

\* The records of the measured attempts, by their outcomes.
LEMMA RecordsSay ==
    ASSUME NEW outcomes
    PROVE  /\ EndedIn(Records, outcomes) =
                PositionsOf({a \in AttemptsOf("MEASURED") : att[a].outcome \in outcomes})
           /\ \A i \in EndedIn(Records, outcomes) : Records[i].ttft = att[<<"MEASURED", i - Warmups>>].ttft
           /\ MeasuredRecords(Records) = PositionsOf(AttemptsOf("MEASURED"))
<1>1. Warmups \in Nat /\ Requests \in Nat BY StreamProbeAssumption
<1>2. DOMAIN Records = 1 .. Warmups + Requests BY DEF Records
<1>3. ASSUME NEW i \in 1 .. Warmups + Requests
      PROVE  /\ Records[i].phase = "MEASURED" <=> i > Warmups
             /\ i > Warmups => /\ <<"MEASURED", i - Warmups>> \in AttemptsOf("MEASURED")
                               /\ Records[i].outcome = att[<<"MEASURED", i - Warmups>>].outcome
                               /\ Records[i].ttft = att[<<"MEASURED", i - Warmups>>].ttft
    <2>1. CASE i <= Warmups
        <3>1. Records[i] = RecordOf(<<"WARMUP", i>>) BY <2>1 DEF Records
        <3> QED BY <1>1, <2>1, <3>1 DEF RecordOf
    <2>2. CASE i > Warmups
        <3>1. Records[i] = RecordOf(<<"MEASURED", i - Warmups>>) BY <1>1, <2>2 DEF Records
        <3>2. i - Warmups \in 1 .. Requests BY <1>1, <2>2
        <3> QED BY <2>2, <3>1, <3>2 DEF RecordOf, AttemptsOf
    <2> QED BY <1>1, <2>1, <2>2
<1>4. MeasuredRecords(Records) = PositionsOf(AttemptsOf("MEASURED"))
    BY <1>2, <1>3 DEF MeasuredRecords, PositionsOf
<1>5. EndedIn(Records, outcomes) =
        PositionsOf({a \in AttemptsOf("MEASURED") : att[a].outcome \in outcomes})
    BY <1>2, <1>3, <1>4 DEF EndedIn, PositionsOf
<1>6. \A i \in EndedIn(Records, outcomes) : Records[i].ttft = att[<<"MEASURED", i - Warmups>>].ttft
    BY <1>3, <1>5 DEF PositionsOf
<1> QED BY <1>4, <1>5, <1>6

LEMMA MeasuredCount ==
    /\ Cardinality(AttemptsOf("MEASURED")) = Requests
    /\ Cardinality(MeasuredRecords(Records)) = Requests
<1>1. Warmups \in Nat /\ Requests \in Nat BY StreamProbeAssumption
<1>2. PositionsOf(AttemptsOf("MEASURED")) = (Warmups + 1) .. (Warmups + Requests)
    <2>1. \A i \in (Warmups + 1) .. (Warmups + Requests) : i - Warmups \in 1 .. Requests BY <1>1
    <2> QED BY <1>1, <2>1 DEF PositionsOf, AttemptsOf
<1>3. Cardinality((Warmups + 1) .. (Warmups + Requests)) = Requests BY <1>1, FS_Interval
<1> QED BY <1>2, <1>3, PositionsCount, RecordsSay

\* What is in time stays so when it is less.
LEMMA SoonerIsInTime ==
    ASSUME NEW t \in Nat, NEW v \in Nat, t <= v, InTime(Criterion, v) PROVE InTime(Criterion, t)
BY StreamProbeAssumption DEF InTime

\* The verdict PASS of a validated run is about what its attempts heard.
LEMMA DecideStep == ASSUME ProbeInv, Decide PROVE ProbeInv'
<1> DEFINE run == [execution |-> "this", manifest |-> Manifest, records |-> Records,
                   digest |-> Records]
           m == MeasurePerformance(run)
           M == AttemptsOf("MEASURED")
           successes == EndedIn(Records, {"SUCCESS"})
           ttfts == [i \in successes |-> Records[i].ttft[1]]
           p95 == NearestRankP95(ttfts)
<1>1. /\ stage = "validated" /\ stage' = "decided" /\ UNCHANGED <<clock, cancelled, att, heard>>
      /\ verdict' = <<EvaluatePerformance(Criterion, run)>>
    BY DEF Decide
<1>2. ASSUME verdict' = <<"PASS">>
      PROVE  /\ Cardinality(Delivered) >= Criterion.minSuccesses
             /\ 20 * Cardinality(LateFirstToken) <= Cardinality(Delivered)
             /\ Cardinality(M \ Delivered) * Criterion.errorDen < Criterion.errorNum * Requests
    <2>1. EvaluatePerformance(Criterion, run) = "PASS" BY <1>1, <1>2
    <2>2. /\ ~m.issue /\ ~(m.successful < Criterion.minSuccesses)
          /\ m.p95 # <<>> /\ InTime(Criterion, m.p95[1])
          /\ m.errors * Criterion.errorDen < Criterion.errorNum * m.attempted
        BY <2>1, PassMeans
    <2>3. run.records = Records OBVIOUS
    <2> HIDE DEF run
    <2>4. /\ m.issue = (\/ CountOutcomes(Records, {"CANCELLED", "INTERNAL_ERROR"}) > 0
                        \/ ~ValidRun(run))
          /\ m.attempted = Cardinality(MeasuredRecords(Records))
          /\ m.successful = Cardinality(successes)
          /\ m.errors = CountOutcomes(Records, ExternalErrors)
          /\ m.p95 = IF m.issue \/ successes = {} THEN <<>> ELSE <<p95>>
        BY <2>3 DEF MeasurePerformance
    <2> HIDE DEF m, ttfts
    <2>5. successes # {} /\ m.p95 = <<p95>> /\ InTime(Criterion, p95) BY <2>2, <2>4
    <2>6. /\ successes = PositionsOf(Delivered) /\ Delivered \in SUBSET M
          /\ \A i \in successes : Records[i].ttft = att[<<"MEASURED", i - Warmups>>].ttft
        <3>1. Delivered = {a \in M : att[a].outcome \in {"SUCCESS"}} BY DEF Delivered
        <3> QED BY <3>1, RecordsSay
    <2>7. \A a \in Delivered :
            heard[a] = att[a].ttft /\ att[a].ttft # <<>> /\ att[a].ttft \in Opt
        <3> TAKE a \in Delivered
        <3>1. a \in M /\ a \in Attempts /\ att[a].outcome = "SUCCESS" BY DEF Delivered, Attempts
        <3>2. att[a].at = "recorded" BY <1>1, <3>1 DEF ProbeInv
        <3> QED BY <3>1, <3>2, AttemptIs DEF Hears, Locals
    <2>8. ttfts \in [successes -> Nat]
        <3> SUFFICES ASSUME NEW i \in successes PROVE Records[i].ttft[1] \in Nat BY DEF ttfts
        <3>1. <<"MEASURED", i - Warmups>> \in Delivered BY <2>6 DEF PositionsOf
        <3> QED BY <2>6, <2>7, <3>1 DEF Opt
    <2>9. /\ IsFiniteSet(successes) /\ Cardinality(successes) = Cardinality(Delivered)
          /\ Cardinality(Delivered) \in Nat
        BY <2>6, PositionsCount
    <2> DEFINE slow == {i \in successes : ttfts[i] > p95}
    <2>10. p95 \in Nat /\ 20 * Cardinality(slow) <= Cardinality(successes)
        <3> HIDE DEF successes
        <3> QED BY <2>5, <2>8, <2>9, PercentileFacts
    <2> HIDE DEF p95
    <2>11. PositionsOf(LateFirstToken) \in SUBSET slow
        <3> SUFFICES ASSUME NEW i \in PositionsOf(LateFirstToken) PROVE i \in slow OBVIOUS
        <3>1. PICK a : a = <<"MEASURED", i - Warmups>> OBVIOUS
        <3>2. a \in LateFirstToken /\ a \in Delivered BY <3>1 DEF PositionsOf, LateFirstToken
        <3>3. i \in successes BY <2>6, <3>1, <3>2 DEF PositionsOf
        <3>4. ttfts[i] = heard[a][1] /\ ttfts[i] \in Nat BY <2>6, <2>7, <2>8, <3>1, <3>2, <3>3 DEF ttfts
        <3>5. ~InTime(Criterion, ttfts[i]) BY <2>7, <3>2, <3>4 DEF LateFirstToken
        <3>6. ttfts[i] > p95 BY <2>5, <2>10, <3>4, <3>5, SoonerIsInTime
        <3> QED BY <3>3, <3>6
    <2>12. /\ Cardinality(LateFirstToken) = Cardinality(PositionsOf(LateFirstToken))
           /\ Cardinality(LateFirstToken) \in Nat
        <3>1. LateFirstToken \in SUBSET M BY DEF LateFirstToken, Delivered
        <3> QED BY <3>1, PositionsCount
    <2>13. /\ Cardinality(slow) \in Nat
           /\ Cardinality(PositionsOf(LateFirstToken)) <= Cardinality(slow)
        <3>1. slow \in SUBSET successes OBVIOUS
        <3>2. IsFiniteSet(slow) BY <2>9, <3>1, FS_Subset
        <3> QED BY <2>11, <3>2, FS_Subset, FS_CardinalityType
    <2>14. 20 * Cardinality(LateFirstToken) <= Cardinality(Delivered)
        BY <2>9, <2>10, <2>12, <2>13
    <2>15. m.attempted = Requests BY <2>4, MeasuredCount
    <2>16. m.errors = Cardinality(M \ Delivered)
        <3> DEFINE void == {a \in M : att[a].outcome \in {"CANCELLED", "INTERNAL_ERROR"}}
                   failed == {a \in M : att[a].outcome \in ExternalErrors}
        <3>1. CountOutcomes(Records, {"CANCELLED", "INTERNAL_ERROR"}) = Cardinality(void)
            BY RecordsSay, PositionsCount DEF CountOutcomes
        <3>2. IsFiniteSet(void) /\ Cardinality(void) \in Nat BY PositionsCount
        <3>3. Cardinality(void) = 0 BY <2>2, <2>4, <3>1, <3>2
        <3>4. void = {} BY <3>2, <3>3, FS_EmptySet
        <3>5. M \ Delivered = failed
            <4>1. \A a \in M : att[a].outcome \in Outcomes
                BY AttemptIs DEF Attempts, Locals
            <4> QED BY <3>4, <4>1 DEF Delivered, Outcomes, ExternalErrors
        <3>6. CountOutcomes(Records, ExternalErrors) = Cardinality(failed)
            BY RecordsSay, PositionsCount DEF CountOutcomes
        <3> QED BY <2>4, <3>5, <3>6
    <2>17. Cardinality(Delivered) >= Criterion.minSuccesses
        BY <2>2, <2>4, <2>9, StreamProbeAssumption
    <2> QED BY <2>2, <2>14, <2>15, <2>16, <2>17
<1>3. /\ Delivered' = Delivered /\ LateFirstToken' = LateFirstToken /\ M' = M
      /\ Attempts' = Attempts
    BY <1>1 DEF Delivered, LateFirstToken, InTime, Attempts, AttemptsOf
<1>4. PassIsMeasured' BY <1>2, <1>3 DEF PassIsMeasured
<1>5. ProbeTypes' /\ \A a \in Attempts : Hears(att'[a], heard'[a], clock')
    BY <1>1, <1>3 DEF ProbeInv, ProbeTypes
<1> QED BY <1>1, <1>3, <1>4, <1>5 DEF ProbeInv

LEMMA ProbeKeeps == ProbeInv /\ [ProbeNext]_probeVars => ProbeInv'
<1> SUFFICES ASSUME ProbeInv, [ProbeNext]_probeVars PROVE ProbeInv' OBVIOUS
<1>1. CASE UNCHANGED probeVars
    <2>1. UNCHANGED <<clock, stage, att, heard, verdict>> BY <1>1 DEF probeVars
    <2>2. clock' \in Nat /\ clock <= clock' BY <2>1 DEF ProbeInv, ProbeTypes
    <2> QED BY <2>1, <2>2, AttemptsStay DEF ProbeInv
<1>2. CASE ProbeTick BY <1>2, ProbeTickStep
<1>3. CASE ProbeCancel BY <1>3, ProbeCancelStep
<1>4. CASE StartMeasured BY <1>4, StartMeasuredStep
<1>5. CASE ValidateRun BY <1>5, ValidateRunStep
<1>6. CASE Decide BY <1>6, DecideStep
<1>7. ASSUME NEW a \in Attempts, Begin(a) \/ Dropped(a) \/ Close(a) PROVE ProbeInv'
    BY <1>7, BeginStep, DroppedStep, CloseStep
<1>8. ASSUME NEW a \in Attempts, NEW status \in {200, 500}, NEW isStream \in BOOLEAN,
             Respond(a, status, isStream)
      PROVE  ProbeInv'
    BY <1>8, RespondStep
<1>9. ASSUME NEW a \in Attempts, NEW event \in {"role", "content", "[DONE]", "malformed"}, Read(a, event)
      PROVE  ProbeInv'
    BY <1>9, ProbeReadStep
<1>10. {"CANCELLED", "TIMEOUT", "TRANSPORT_ERROR", "INTERNAL_ERROR", "PROTOCOL_ERROR"}
           \subseteq Outcomes \ {"SUCCESS"}
    BY DEF Outcomes
<1>11. ASSUME NEW a \in Attempts,
              NEW o \in {"CANCELLED", "TIMEOUT", "TRANSPORT_ERROR", "INTERNAL_ERROR", "PROTOCOL_ERROR"},
              SendFails(a, o) \/ ReadFails(a, o) \/ CloseFails(a, o)
       PROVE  ProbeInv'
    BY <1>10, <1>11, SendFailsStep, ReadFailsStep, CloseFailsStep
<1> QED BY <1>1, <1>2, <1>3, <1>4, <1>5, <1>6, <1>7, <1>8, <1>9, <1>11 DEF ProbeNext

\* What runs is what was confirmed, and a PASS was measured: of the attempts of
\* the measured phase alone, enough succeeded, at most one in twenty of them had
\* its first content later than agreed, and the others are under the agreed error
\* rate, for any numbers of requests and workers and whatever the endpoint does.
THEOREM MeasuredIsAgreed == LifecycleSpec /\ ProbeSpec => []MeasuredAsAgreed
<1>1. RunsWhatWasConfirmed /\ VersionsAreFresh /\ RepeatsTheGrant /\ PassIsMeasured
        => MeasuredAsAgreed
    BY DEF MeasuredAsAgreed
<1>2. ProbeInv => PassIsMeasured BY DEF ProbeInv
<1>3. ProbeSpec => []PassIsMeasured BY <1>2, ProbeStarts, ProbeKeeps, PTL DEF ProbeSpec
<1> QED BY <1>1, <1>3, RunsAsAgreed, PTL

\* Two stored packs that read back as decided (_reconstruct_decision) and share a
\* receipt have the same verdict: the receipt names all that it rests on.
THEOREM ReceiptNamesOneVerdict ==
    ASSUME NEW pack, NEW other, pack.receipt = other.receipt,
           ReconstructDecision(pack) # <<>>, ReconstructDecision(other) # <<>>
    PROVE  ReconstructDecision(pack) = ReconstructDecision(other)
<1> DEFINE Opt1(q) == ValidatedContext(q.contract, q.workload, q.prompts)
           RunOf(q) == [execution |-> q.receipt.execution, manifest |-> q.manifest,
                        records |-> q.records, digest |-> q.receipt.records]
<1>1. ASSUME NEW q, ReconstructDecision(q) # <<>>
      PROVE  /\ ReconstructDecision(q) = <<EvaluatePerformance(Opt1(q)[1].criterion, RunOf(q))>>
             /\ RunOf(q).digest = RunOf(q).records
             /\ RunOf(q).manifest = q.receipt.manifest
             /\ Opt1(q)[1].criterion = q.receipt.criterion
    <2>1. PICK context : context = Opt1(q)[1] OBVIOUS
    <2>2. PICK run : run = RunOf(q) OBVIOUS
    <2>3. /\ ReconstructDecision(q) = Authorize(context, q.confirmation, run, q.receipt)
          /\ Authorize(context, q.confirmation, run, q.receipt) # <<>>
        BY <1>1, <2>1, <2>2, Zenon DEF ReconstructDecision
    <2>4. /\ ValidRun(run) /\ SelfConsistent(context) /\ CrossBound(context, run, q.receipt)
          /\ ReconstructDecision(q) = <<EvaluatePerformance(context.criterion, run)>>
        BY <2>3, Zenon DEF Authorize
    <2>5. run.digest = run.records BY <2>4 DEF ValidRun
    <2>6. run.manifest = q.receipt.manifest /\ context.criterion = q.receipt.criterion
        BY <2>4 DEF CrossBound
    <2> QED BY <2>1, <2>2, <2>4, <2>5, <2>6
<1>2. RunOf(pack) = RunOf(other)
    <2>1. /\ pack.receipt.records = pack.records /\ pack.manifest = pack.receipt.manifest
          /\ other.receipt.records = other.records /\ other.manifest = other.receipt.manifest
        BY <1>1
    <2> QED BY <2>1
<1> HIDE DEF Opt1, RunOf
<1> QED BY <1>1, <1>2

=============================================================================
