-------------------------- MODULE ConfirmationStore --------------------------
(***************************************************************************)
(* What the port for durable confirmations promises, as its in-memory      *)
(* reference adapter keeps it (InMemoryConfirmationStore).  Every method   *)
(* holds the lock; one that raises changes nothing.                        *)
(***************************************************************************)
EXTENDS Naturals, Dicts

CONSTANTS
    Missing,
    Capabilities,  \* the invitation records that may be issued:
                   \* [id, token, version, print, issued, expires]
    Commands       \* the decision commands that may arrive:
                   \* [op, key, id, token, version, print, answer, at]

VARIABLES
    invitations,  \* _invitations, by id
    verdicts,     \* _decisions_by_binding, by contract version
    operations    \* _operations_by_digest

storeVars == <<invitations, verdicts, operations>>

StoreInit ==
    /\ invitations = EmptyDict
    /\ verdicts = EmptyDict
    /\ operations = EmptyDict

Issued == {invitations[i] : i \in DOMAIN invitations}
Binding(x) == <<x.version, x.print>>

\* _require_consistent_binding
ConsistentBinding(b) == \A i \in Issued : i.version = b[1] => Binding(i) = b

\* issue_invitation; the same record again returns what is stored
StoreIssue(inv) ==
    /\ inv.id \notin DOMAIN invitations
    /\ \A i \in Issued : i.token # inv.token
    /\ ConsistentBinding(Binding(inv))
    /\ invitations' = Put(invitations, inv.id, inv)
    /\ UNCHANGED <<verdicts, operations>>

\* resolve_invitation, at a time
StoreResolve(token, time) ==
    LET owners == {i \in Issued : i.token = token} IN
    IF owners = {} THEN Missing
    ELSE LET i == CHOOSE x \in owners : TRUE IN
         IF i.version \in DOMAIN verdicts /\ verdicts[i.version].print = i.print THEN "CONSUMED"
         ELSE IF time >= i.expires THEN "EXPIRED"
         ELSE i.id

\* Mutant: the time of the decision is not compared.
DecideLate(c) ==
    /\ c.op \notin DOMAIN operations
    /\ \A o \in DOMAIN operations : <<operations[o].version, operations[o].key>> # <<c.version, c.key>>
    /\ c.id \in DOMAIN invitations /\ invitations[c.id].token = c.token
    /\ Binding(invitations[c.id]) = Binding(c)
    /\ c.version \notin DOMAIN verdicts
    /\ verdicts' = Put(verdicts, c.version, c)
    /\ operations' = Put(operations, c.op, c)
    /\ UNCHANGED invitations

\* record_decision for an operation that is new
StoreDecide(c) ==
    /\ c.op \notin DOMAIN operations
    /\ \A o \in DOMAIN operations : <<operations[o].version, operations[o].key>> # <<c.version, c.key>>
    /\ c.id \in DOMAIN invitations /\ invitations[c.id].token = c.token
    /\ c.at < invitations[c.id].expires
    /\ Binding(invitations[c.id]) = Binding(c)
    /\ c.version \notin DOMAIN verdicts
    /\ verdicts' = Put(verdicts, c.version, c)
    /\ operations' = Put(operations, c.op, c)
    /\ UNCHANGED invitations

\* _replay_or_conflict: the decision an operation returns again
Replayed(c) ==
    IF /\ c.op \in DOMAIN operations
       /\ [operations[c.op] EXCEPT !.at = c.at] = c
    THEN verdicts[c.version] ELSE Missing

StoreNext ==
    \/ \E inv \in Capabilities : StoreIssue(inv)
    \/ \E c \in Commands : StoreDecide(c)

StoreSpec == StoreInit /\ [][StoreNext]_storeVars

-----------------------------------------------------------------------------

\* A decision was made through an invitation for its very contract while the
\* invitation was open; the operation that made it, and no other, returns it;
\* and from then on no token resolves to an open invitation of that contract.
DecisionsAreInvited ==
    /\ \A v \in DOMAIN verdicts :
          LET d == verdicts[v] IN
          /\ d.id \in DOMAIN invitations
          /\ Binding(invitations[d.id]) = Binding(d)
          /\ d.at < invitations[d.id].expires
          /\ \A c \in Commands : Replayed(c) = d => c.op = d.op /\ c.answer = d.answer
          /\ \A i \in Issued : i.version = v => StoreResolve(i.token, 0) = "CONSUMED"
          /\ d.op \in DOMAIN operations /\ operations[d.op] = d
    /\ \A o \in DOMAIN operations :
          LET v == operations[o].version IN v \in DOMAIN verdicts /\ verdicts[v] = operations[o]
=============================================================================
