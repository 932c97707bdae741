-------------------------- MODULE AgreementPromise --------------------------
(***************************************************************************)
(* What the agreement lifecycle promises its clients, POC by POC, without  *)
(* guards, links, idempotency keys, clocks or changing inputs:             *)
(*   - terms are offered, and replaced only by a later version after the   *)
(*     customer asked for changes;                                         *)
(*   - the customer decides once per version;                              *)
(*   - terms are signed only when confirmed, and then nothing moves.       *)
(***************************************************************************)
EXTENDS Integers

CONSTANTS Pocs, Terms

VARIABLES
    terms,      \* the terms on the table, or None
    version,    \* their version, 0 when there are none
    decision,   \* the customer's decision on them
    signed      \* are they frozen?

vars == <<terms, version, decision, signed>>

None == [none |-> TRUE]

Init ==
    /\ terms = [p \in Pocs |-> None]
    /\ version = [p \in Pocs |-> 0]
    /\ decision = [p \in Pocs |-> "UNDECIDED"]
    /\ signed = [p \in Pocs |-> FALSE]

\* New terms for p, and for p only.
NewTerms(p) ==
    /\ terms'[p] \in Terms \ {terms[p]}
    /\ terms' = [terms EXCEPT ![p] = terms'[p]]

\* The first version (prepare).
Offer(p) ==
    /\ version[p] = 0
    /\ NewTerms(p)
    /\ version' = [version EXCEPT ![p] = 1]
    /\ UNCHANGED <<decision, signed>>

\* record_customer_review_decision
Decide(p, d) ==
    /\ version[p] > 0
    /\ decision[p] = "UNDECIDED"
    /\ decision' = [decision EXCEPT ![p] = d]
    /\ UNCHANGED <<terms, version, signed>>

\* start_revision
Revise(p) ==
    /\ decision[p] = "REQUEST_CHANGES"
    /\ NewTerms(p)
    /\ version' = [version EXCEPT ![p] = @ + 1]
    /\ decision' = [decision EXCEPT ![p] = "UNDECIDED"]
    /\ UNCHANGED signed

\* freeze
Sign(p) ==
    /\ decision[p] = "CONFIRM"
    /\ ~signed[p]
    /\ signed' = [signed EXCEPT ![p] = TRUE]
    /\ UNCHANGED <<terms, version, decision>>

Next ==
    \E p \in Pocs :
        \/ Offer(p) \/ Revise(p)
        \/ \E d \in {"CONFIRM", "REQUEST_CHANGES"} : Decide(p, d)
        \/ Sign(p)

Spec == Init /\ [][Next]_vars

=============================================================================
