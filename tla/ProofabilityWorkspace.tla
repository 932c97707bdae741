------------------------ MODULE ProofabilityWorkspace ------------------------
(***************************************************************************)
(* The process-local store of proofability reports                         *)
(* (proofability_workspace.py).                                            *)
(*                                                                         *)
(* A create runs under the write stripe of its POC: it looks its key up    *)
(* and reserves capacity under the global lock, evaluates with only the    *)
(* stripe held, and publishes under the draft guard and the global lock.   *)
(* Every locked section begins with a check of the whole store, and a      *)
(* store that fails it refuses everything from then on.                    *)
(*                                                                         *)
(* The two dictionaries _operations and _idempotency are written together  *)
(* and hold one another's values; they are one function here.  A binding   *)
(* is the pair of POC and fixture authority it is the digest of; it stands *)
(* for the request too, whose other fields have one legal value.           *)
(***************************************************************************)
EXTENDS Naturals, FiniteSets, Dicts

CONSTANTS
    WPocs, WKeys, Workers,
    StripeOf,       \* POC -> write stripe
    Authorities,    \* fixture authorities; production has one
    ReportBytes,    \* authority -> size of its canonical report
    MaxLatest, MaxOperations, MaxPending, MaxReport, MaxTotal,  \* _WorkspaceLimits
    MaxDraftSteps   \* bound on the changes of the authority

\* Keys, a report is not empty, and "free" is no worker.
ASSUME WorkspaceAssumption ==
    /\ WKeys # {}
    /\ ReportBytes \in [Authorities -> Nat \ {0}]
    /\ {MaxLatest, MaxOperations, MaxPending, MaxReport, MaxTotal, MaxDraftSteps} \subseteq Nat
    /\ "free" \notin Workers

VARIABLES
    openDrafts,  \* POCs whose draft is not archived
    authority,   \* what the fixture resolver returns
    draftSteps,
    operations,  \* key -> [poc, binding, bytes]
    latest,      \* POC -> key
    holding,     \* key -> reservation
    acceptedBytes, reservedSlots, reservedLatest, reservedBytes,
    stripes,     \* stripe -> worker that holds it, or "free"
    calls,       \* worker -> its call
    answer       \* what the step just taken returned, <<>> if nothing

store == <<operations, latest, holding, acceptedBytes,
           reservedSlots, reservedLatest, reservedBytes>>
workspaceVars == <<openDrafts, authority, draftSteps, store, stripes, calls, answer>>

Stripes == {StripeOf[p] : p \in WPocs}
BytesOf(d) == SumFunctionOnSet([k \in DOMAIN d |-> d[k].bytes], DOMAIN d)
LatestSlotsOf(d) == SumFunctionOnSet([k \in DOMAIN d |-> d[k].latestSlots], DOMAIN d)
NoCall == [pc |-> "idle"]

WorkspaceInit ==
    /\ openDrafts = WPocs
    /\ authority \in Authorities
    /\ draftSteps = 0
    /\ operations = EmptyDict /\ latest = EmptyDict /\ holding = EmptyDict
    /\ acceptedBytes = 0 /\ reservedSlots = 0 /\ reservedLatest = 0 /\ reservedBytes = 0
    /\ stripes = [s \in Stripes |-> "free"]
    /\ calls = [w \in Workers |-> NoCall]
    /\ answer = <<>>

\* Another request archives the draft; nothing else changes one.
ArchiveDraft(p) ==
    /\ p \in openDrafts
    /\ openDrafts' = openDrafts \ {p}
    /\ answer' = <<>>
    /\ UNCHANGED <<authority, draftSteps, store, stripes, calls>>

\* The fixture resolver is given another authority.
ChangeAuthority(a) ==
    /\ draftSteps < MaxDraftSteps
    /\ draftSteps' = draftSteps + 1
    /\ authority' = a
    /\ answer' = <<>>
    /\ UNCHANGED <<openDrafts, store, stripes, calls>>

\* _require_invariants_locked
StoreCoherent ==
    /\ Cardinality(DOMAIN latest) <= MaxLatest
    /\ Cardinality(DOMAIN operations) <= MaxOperations
    /\ Cardinality(DOMAIN holding) <= MaxPending
    /\ \A k \in DOMAIN operations : operations[k].bytes <= MaxReport
    /\ \A p \in DOMAIN latest : latest[p] \in DOMAIN operations /\ operations[latest[p]].poc = p
    /\ \A k \in DOMAIN holding :
         /\ holding[k].bytes \in 1..MaxReport
         /\ k \notin DOMAIN operations
         /\ holding[k].latestSlots = IF holding[k].poc \in DOMAIN latest THEN 0 ELSE 1
    /\ acceptedBytes = BytesOf(operations)
    /\ reservedSlots = Cardinality(DOMAIN holding)
    /\ reservedLatest = LatestSlotsOf(holding)
    /\ reservedBytes = BytesOf(holding)
    /\ Cardinality(DOMAIN operations) + reservedSlots <= MaxOperations
    /\ Cardinality(DOMAIN latest) + reservedLatest <= MaxLatest
    /\ acceptedBytes + reservedBytes <= MaxTotal

ReturnCall(w, kind, op) ==
    /\ calls' = [calls EXCEPT ![w] = NoCall]
    /\ answer' = <<[kind |-> kind, call |-> calls[w], op |-> op]>>
    /\ stripes' = [s \in Stripes |-> IF stripes[s] = w THEN "free" ELSE stripes[s]]

Refused(w, kind) == ReturnCall(w, kind, {})

Call(pc, p, k) ==
    [pc |-> pc, poc |-> p, key |-> k, authority |-> authority, binding |-> <<p, authority>>]

\* Mutant: the stripe is not awaited.
CreateBeginAnyStripe(w, p, k) ==
    /\ calls[w] = NoCall
    /\ p \in openDrafts
    /\ calls' = [calls EXCEPT ![w] = Call("decide", p, k)]
    /\ stripes' = [stripes EXCEPT ![StripeOf[p]] = w]
    /\ answer' = <<>>
    /\ UNCHANGED <<openDrafts, authority, draftSteps, store>>

\* create: the stripe is taken, then draft and authority are read.
CreateBegin(w, p, k) ==
    /\ calls[w] = NoCall
    /\ p \in openDrafts
    /\ stripes[StripeOf[p]] = "free"
    /\ calls' = [calls EXCEPT ![w] = Call("decide", p, k)]
    /\ stripes' = [stripes EXCEPT ![StripeOf[p]] = w]
    /\ answer' = <<>>
    /\ UNCHANGED <<openDrafts, authority, draftSteps, store>>

\* _resolve_active: an archived draft is not found, whatever the call.
DraftNotFound(w, p) ==
    /\ calls[w] = NoCall
    /\ p \notin openDrafts
    /\ answer' = <<[kind |-> "not_found", call |-> NoCall, op |-> {}]>>
    /\ UNCHANGED <<openDrafts, authority, draftSteps, store, stripes, calls>>

LatestSlots(p) == IF p \in DOMAIN latest THEN 0 ELSE 1

\* Mutant: what others have reserved is forgotten.
CapacityLeftNow(p, bytes) ==
    /\ bytes <= MaxReport
    /\ Cardinality(DOMAIN operations) + 1 <= MaxOperations
    /\ Cardinality(DOMAIN holding) + 1 <= MaxPending
    /\ Cardinality(DOMAIN latest) + LatestSlots(p) <= MaxLatest
    /\ acceptedBytes + bytes <= MaxTotal

CapacityLeft(p, bytes) ==
    /\ bytes <= MaxReport
    /\ Cardinality(DOMAIN operations) + reservedSlots + 1 <= MaxOperations
    /\ Cardinality(DOMAIN holding) + 1 <= MaxPending
    /\ Cardinality(DOMAIN latest) + reservedLatest + LatestSlots(p) <= MaxLatest
    /\ acceptedBytes + reservedBytes + bytes <= MaxTotal

\* _reserve_locked
ReserveSlots(w) ==
    LET c == calls[w]
        r == [owner |-> w, poc |-> c.poc, binding |-> c.binding,
              bytes |-> ReportBytes[c.authority], latestSlots |-> LatestSlots(c.poc)]
    IN /\ holding' = Put(holding, c.key, r)
       /\ reservedSlots' = reservedSlots + 1
       /\ reservedLatest' = reservedLatest + r.latestSlots
       /\ reservedBytes' = reservedBytes + r.bytes

\* create, under the global lock: replay, conflict, or a reservation.
CreateDecide(w) ==
    /\ calls[w].pc = "decide"
    /\ LET c == calls[w] IN
       IF ~StoreCoherent THEN Refused(w, "unavailable") /\ UNCHANGED store
       ELSE IF c.key \in DOMAIN operations
       THEN IF operations[c.key].binding # c.binding THEN Refused(w, "conflict") /\ UNCHANGED store
            ELSE /\ calls' = [calls EXCEPT ![w].pc = "replay"]
                 /\ answer' = <<>>
                 /\ UNCHANGED <<store, stripes>>
       ELSE IF c.key \in DOMAIN holding
       THEN /\ Refused(w, IF holding[c.key].binding # c.binding THEN "conflict" ELSE "unavailable")
            /\ UNCHANGED store
       ELSE IF ~CapacityLeft(c.poc, ReportBytes[c.authority])
       THEN Refused(w, "capacity") /\ UNCHANGED store
       ELSE /\ ReserveSlots(w)
            /\ calls' = [calls EXCEPT ![w].pc = "evaluate"]
            /\ answer' = <<>>
            /\ UNCHANGED <<operations, latest, acceptedBytes, stripes>>
    /\ UNCHANGED <<openDrafts, authority, draftSteps>>

\* Mutant: the reservation goes and its place under the latest reports stays.
ReleaseReservationKeepsLatest(w) ==
    LET r == holding[calls[w].key] IN
    /\ holding' = Drop(holding, calls[w].key)
    /\ reservedSlots' = reservedSlots - 1
    /\ reservedBytes' = reservedBytes - r.bytes
    /\ UNCHANGED reservedLatest

\* _remove_reservation_locked
ReleaseReservation(w) ==
    LET r == holding[calls[w].key] IN
    /\ holding' = Drop(holding, calls[w].key)
    /\ reservedSlots' = reservedSlots - 1
    /\ reservedLatest' = reservedLatest - r.latestSlots
    /\ reservedBytes' = reservedBytes - r.bytes

\* _cleanup_owned_reservation: a reservation in an incoherent store is left.
Cleanup(w) ==
    IF StoreCoherent THEN ReleaseReservation(w) /\ UNCHANGED <<operations, latest, acceptedBytes>>
    ELSE UNCHANGED store

\* _fresh: evaluator, verifier and the golden report, with the stripe held.
CreateEvaluate(w, verified) ==
    /\ calls[w].pc = "evaluate"
    /\ IF verified
       THEN /\ calls' = [calls EXCEPT ![w].pc = "publish"]
            /\ answer' = <<>>
            /\ UNCHANGED <<store, stripes>>
       ELSE Refused(w, "unavailable") /\ Cleanup(w)
    /\ UNCHANGED <<openDrafts, authority, draftSteps>>

\* Mutant: the guard trusts that the draft was active when the call read it.
GuardedAtRead(w) == calls[w] # NoCall

\* authoring_commit_guard: the draft is still the one the call read.
Guarded(w) == calls[w].poc \in openDrafts

\* _fresh: publication.
CreatePublish(w) ==
    /\ calls[w].pc = "publish"
    /\ LET c == calls[w]
           r == holding[c.key]
       IN IF Guarded(w) /\ StoreCoherent
          THEN /\ operations' = Put(operations, c.key, [poc |-> c.poc, binding |-> c.binding, bytes |-> r.bytes])
               /\ latest' = Put(latest, c.poc, c.key)
               /\ acceptedBytes' = acceptedBytes + r.bytes
               /\ ReleaseReservation(w)
               /\ ReturnCall(w, "created", {c.key})
          ELSE Refused(w, "unavailable") /\ Cleanup(w)
    /\ UNCHANGED <<openDrafts, authority, draftSteps>>

\* _accepted_replay and _validate_operation
CreateReplay(w) ==
    /\ calls[w].pc = "replay"
    /\ LET c == calls[w] IN
       IF /\ Guarded(w)
          /\ StoreCoherent
          /\ operations[c.key].poc = c.poc
       THEN ReturnCall(w, "replayed", {c.key})
       ELSE Refused(w, "unavailable")
    /\ UNCHANGED <<openDrafts, authority, draftSteps, store>>

\* get: draft and authority first, the store under the guard.
GetBegin(w, p, k) ==
    /\ calls[w] = NoCall
    /\ p \in openDrafts
    /\ calls' = [calls EXCEPT ![w] = Call("get", p, k)]
    /\ answer' = <<>>
    /\ UNCHANGED <<openDrafts, authority, draftSteps, store, stripes>>

GetLatest(w) ==
    /\ calls[w].pc = "get"
    /\ LET c == calls[w] IN
       IF ~(Guarded(w) /\ StoreCoherent) THEN Refused(w, "unavailable")
       ELSE IF c.poc \notin DOMAIN latest THEN ReturnCall(w, "none", {})
       ELSE IF operations[latest[c.poc]].binding # c.binding THEN ReturnCall(w, "replan", {})
       ELSE ReturnCall(w, "report", {latest[c.poc]})
    /\ UNCHANGED <<openDrafts, authority, draftSteps, store>>

WorkerStep(w) ==
    \/ CreateDecide(w)
    \/ \E verified \in BOOLEAN : CreateEvaluate(w, verified)
    \/ CreatePublish(w)
    \/ CreateReplay(w)
    \/ GetLatest(w)

WorkspaceNext ==
    \/ \E p \in WPocs : ArchiveDraft(p)
    \/ \E a \in Authorities : ChangeAuthority(a)
    \/ \E w \in Workers, p \in WPocs, k \in WKeys : CreateBegin(w, p, k)
    \/ \E w \in Workers, p \in WPocs : GetBegin(w, p, CHOOSE k \in WKeys : TRUE)
    \/ \E w \in Workers, p \in WPocs : DraftNotFound(w, p)
    \/ \E w \in Workers : WorkerStep(w)

WorkspaceSpec == WorkspaceInit /\ [][WorkspaceNext]_workspaceVars

\* The store passes its own check at every lock: no schedule of creates that
\* fail, replay, publish or meet an archived draft ever leaves a counter, a slot
\* or a reservation behind, which would make the workspace refuse for good.
\* Between two locked sections every reservation belongs to a worker
\* that is still going to release it.
StoreStaysCoherent ==
    /\ StoreCoherent
    /\ \A k \in DOMAIN holding :
         LET w == holding[k].owner IN
         calls[w].pc \in {"evaluate", "publish"} /\ calls[w].key = k

\* A report is returned while the draft the caller read is still active, and
\* for the authority read then; a create answers with the operation of its key
\* and a get with the latest one.
ReportIsCurrent ==
    answer # <<>> => LET a == answer[1] IN
        \A k \in a.op :
            /\ a.call.poc \in openDrafts
            /\ operations[k].binding = <<a.call.poc, a.call.authority>>
            /\ IF a.kind = "report" THEN latest[a.call.poc] = k ELSE a.call.key = k
=============================================================================
