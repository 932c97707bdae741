--------------------------- MODULE ProviderEgress ---------------------------
(***************************************************************************)
(* Acknowledgements, one-use permits and their execution                   *)
(* (InMemoryProviderEgressAuthorizer, AuthorizedProviderRequest,           *)
(* AuthorizedFireworksExecutor over FireworksProvider).                    *)
(*                                                                         *)
(* issue and authorize read the clock before they take the lock, so the    *)
(* time they check may be old; take_request reads it under the lock of the *)
(* permit.  The policy pins one request, so a request is either approved   *)
(* or refused; tokens and digests are the identity of an acknowledgement.  *)
(***************************************************************************)
EXTENDS Naturals, Dicts, FiniteSets

-----------------------------------------------------------------------------
(* The wall clock (datetime.now) that permits, consents and leases are     *)
(* dated with.  Unlike the monotonic clock it may be set back.             *)

CONSTANTS MaxTime   \* bound on the clock

ASSUME ClockAssumption == MaxTime \in Nat

VARIABLES now

ClockInit == now = 0

ClockStep == now' \in {t \in 0 .. MaxTime : t = now + 1 \/ t + 1 = now}

-----------------------------------------------------------------------------

CONSTANTS
    EgressThreads,
    Acks,          \* acknowledgement ids
    Bodies,        \* requests
    Approved,      \* the one request of the frozen policy
    Ttl,           \* life of an acknowledgement
    MaxAttempts    \* sends of one execution

ASSUME EgressAssumption == MaxAttempts \in Nat \ {0}

VARIABLES
    acks,      \* _records: the window of each acknowledgement
    consumed,  \* _consumed
    permits,   \* the permits handed out
    taken,     \* the permits whose request is gone
    egress,    \* per thread, the step of its call
    sends      \* per acknowledgement, the requests that reached the transport

egressVars == <<acks, consumed, permits, taken, egress, sends>>

AtRest == [step |-> "idle"]

EgressInit ==
    /\ acks = EmptyDict
    /\ consumed = {}
    /\ permits = {}
    /\ taken = {}
    /\ egress = [t \in EgressThreads |-> AtRest]
    /\ sends = [a \in Acks |-> 0]

EgressAt(t, step) == egress[t].step = step
Step(t, call) == egress' = [egress EXCEPT ![t] = call]

\* build_provider_egress_intent: only the approved request has an intent.
HasIntent(body) == body = Approved

IssueRead(t, body) ==
    /\ EgressAt(t, "idle")
    /\ HasIntent(body)
    /\ Step(t, [step |-> "issue", issued |-> now])
    /\ UNCHANGED <<now, acks, consumed, permits, taken, sends>>

IssueStore(t, a) ==
    /\ EgressAt(t, "issue")
    /\ a \notin DOMAIN acks
    /\ acks' = Put(acks, a, [issued |-> egress[t].issued, expires |-> egress[t].issued + Ttl])
    /\ Step(t, AtRest)
    /\ UNCHANGED <<now, consumed, permits, taken, sends>>

\* authorize up to its lock: the token names an acknowledgement, the request
\* is detached from its caller, the clock is read.
AuthorizeRead(t, a, body) ==
    /\ EgressAt(t, "idle")
    /\ a \in DOMAIN acks
    /\ HasIntent(body)
    /\ Step(t, [step |-> "authorize", ack |-> a, body |-> body, checked |-> now])
    /\ UNCHANGED <<now, acks, consumed, permits, taken, sends>>

InWindow(a, time) == acks[a].issued <= time /\ time < acks[a].expires

\* Mutant: the acknowledgement is marked, but not looked up.
ConsumeAgain(t) ==
    LET c == egress[t] IN
    /\ EgressAt(t, "authorize")
    /\ IF InWindow(c.ack, c.checked)
       THEN /\ consumed' = consumed \cup {c.ack}
            /\ permits' = permits \cup {[ack |-> c.ack, body |-> c.body, by |-> t]}
       ELSE UNCHANGED <<consumed, permits>>
    /\ Step(t, AtRest)
    /\ UNCHANGED <<now, acks, taken, sends>>

\* authorize under its lock: consume, then a permit of one use
Consume(t) ==
    LET c == egress[t] IN
    /\ EgressAt(t, "authorize")
    /\ IF InWindow(c.ack, c.checked) /\ c.ack \notin consumed
       THEN /\ consumed' = consumed \cup {c.ack}
            /\ permits' = permits \cup {[ack |-> c.ack, body |-> c.body, by |-> t]}
       ELSE UNCHANGED <<consumed, permits>>
    /\ Step(t, AtRest)
    /\ UNCHANGED <<now, acks, taken, sends>>

\* Mutant: the time authorize has checked is good enough.
TakeUnchecked(t, p) ==
    /\ EgressAt(t, "idle")
    /\ p \in permits \ taken
    /\ taken' = taken \cup {p}
    /\ \/ HasIntent(p.body) /\ Step(t, [step |-> "send", ack |-> p.ack, attempt |-> 1])
       \/ Step(t, AtRest)
    /\ UNCHANGED <<now, acks, consumed, permits, sends>>

\* take_request: the permit is gone whether its time is right, wrong or
\* unreadable; the executor validates what it took once more.
Take(t, p) ==
    /\ EgressAt(t, "idle")
    /\ p \in permits \ taken
    /\ taken' = taken \cup {p}
    /\ \/ /\ InWindow(p.ack, now) /\ HasIntent(p.body)
          /\ Step(t, [step |-> "send", ack |-> p.ack, attempt |-> 1])
       \/ Step(t, AtRest)
    /\ UNCHANGED <<now, acks, consumed, permits, sends>>

\* One attempt of FireworksProvider.execute.  A timeout and the statuses 429
\* and 503 are tried again, after a pause; everything else ends the call.
Send(t) ==
    LET c == egress[t] IN
    /\ EgressAt(t, "send")
    /\ sends' = [sends EXCEPT ![c.ack] = @ + 1]
    /\ \/ c.attempt < MaxAttempts /\ Step(t, [c EXCEPT !.attempt = @ + 1])
       \/ Step(t, AtRest)
    /\ UNCHANGED <<now, acks, consumed, permits, taken>>

EgressNext ==
    \/ \E t \in EgressThreads :
          \/ \E b \in Bodies : IssueRead(t, b)
          \/ \E a \in Acks : IssueStore(t, a)
          \/ \E a \in Acks, b \in Bodies : AuthorizeRead(t, a, b)
          \/ Consume(t)
          \/ \E p \in permits : Take(t, p)
          \/ Send(t)
    \/ ClockStep /\ UNCHANGED egressVars

EgressSpec == ClockInit /\ EgressInit /\ [][EgressNext]_<<now, egressVars>>

-----------------------------------------------------------------------------

\* One acknowledgement is one execution: however many threads authorize it or
\* take its permit, and however the clock moves between their checks, no more
\* requests leave than one execution may send.
OneExecutionPerAcknowledgement == \A a \in Acks : sends[a] <= MaxAttempts

\* A request is released for sending only at a time its acknowledgement is
\* valid, although the clock was last checked before the lock and may have
\* been set back or have run out since.
ReleasedInTime == [][
    \A t \in EgressThreads : ~EgressAt(t, "send") /\ egress'[t].step = "send" =>
        InWindow(egress'[t].ack, now)
    ]_<<now, egressVars>>
=============================================================================
