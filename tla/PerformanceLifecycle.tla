------------------------ MODULE PerformanceLifecycle ------------------------
(***************************************************************************)
(* The agreement of a performance POC in the browser server: proposals are  *)
(* reviewed and defined, a version is prepared from those in scope, a       *)
(* customer decides it through a review link that expires, a confirmed      *)
(* version is frozen, and a rejected one is superseded by a revision whose  *)
(* scope excludes everything before it.  Every operation holds one lock and *)
(* is replayed by its idempotency key.  A refused call changes nothing and  *)
(* is a stuttering step.                                                    *)
(***************************************************************************)
EXTENDS Naturals, FiniteSets, Sequences, Dicts

CONSTANTS
    POCs,           \* draft POCs
    Proposals,      \* proposals that may arrive
    POCOf,          \* proposal |-> its POC
    Shape,          \* proposal |-> workload shape of its definition
    Targets,        \* targets an operator may name
    LKeys,          \* idempotency keys
    MaxRevisions,   \* MAX_REVISIONS_PER_POC
    MaxAgreements,  \* max_agreements
    Lifetime,       \* ticks until a review link expires
    LHorizon        \* bound on the clock

ASSUME LifecycleAssumption ==
    /\ POCOf \in [Proposals -> POCs]
    /\ {MaxRevisions, MaxAgreements, Lifetime, LHorizon} \subseteq Nat

VARIABLES
    prop,      \* proposal |-> its review state, or its metric once defined
    prep,      \* POC |-> the prepared version
    inv,       \* POC |-> the review invitation in force
    conf,      \* POC |-> the customer's decision
    frozen,    \* POC |-> the frozen version
    rev,       \* POC |-> the open revision
    hist,      \* POC |-> superseded versions
    idem,      \* operation |-> (key |-> request digest)
    results,   \* (operation, key) |-> retained result of a reissue or revision
    issued,    \* invitations issued so far
    time,      \* the service's clock
    archived,  \* POCs whose draft is archived
    grants,    \* ghost: (operation, key) |-> first answer under that key
    granted,     \* ghost: the last answer
    started       \* ghost: versions handed to a run, with their confirmation

lifecycleVars == <<prop, prep, inv, conf, frozen, rev, hist, idem, results, issued,
                   time, archived, grants, granted, started>>

LifecycleOps == {"prepare", "reissue", "decide", "revise", "freeze"}

NoReply == [op |-> "none"]

LifecycleInit ==
    /\ prop = [q \in Proposals |-> "absent"]
    /\ prep = EmptyDict
    /\ inv = EmptyDict
    /\ conf = EmptyDict
    /\ frozen = EmptyDict
    /\ rev = EmptyDict
    /\ hist = [p \in POCs |-> <<>>]
    /\ idem = [o \in LifecycleOps |-> EmptyDict]
    /\ results = EmptyDict
    /\ issued = 0
    /\ time = 0
    /\ archived = {}
    /\ grants = EmptyDict
    /\ granted = NoReply
    /\ started = {}

-----------------------------------------------------------------------------
(* What a version is made of. *)

Metrics == {"ttft", "errors"}

\* The open revision, or one that excludes nothing.
Revised(p) ==
    IF p \in DOMAIN rev THEN rev[p] ELSE [number |-> 0, baseline |-> {}, defined |-> {}]

\* _scoped_inputs, the proposals: those of the POC that no earlier version was
\* prepared from.
Scoped(p) ==
    [q \in {r \in Proposals : /\ POCOf[r] = p
                              /\ prop[r] # "absent"
                              /\ r \notin Revised(p).baseline} |-> prop[q]]

\* _scoped_inputs, the definitions: excluded by their own identities, so that one
\* made after the revision is in scope although its proposal is not.
ScopedDefinitions(p) ==
    {q \in Proposals : POCOf[q] = p /\ prop[q] \in Metrics /\ q \notin Revised(p).defined}

\* _contract_identity
Version(p) == Revised(p).number + 1

\* _kept_proposals
KeptReviews(scope) == {q \in DOMAIN scope : scope[q] \in Metrics \cup {"kept"}}

\* _definition_pair: exactly two definitions, of different metrics, of the two
\* proposals that were kept.
DefinitionPair(scope, definitions) ==
    /\ Cardinality(KeptReviews(scope)) = 2
    /\ definitions = KeptReviews(scope)
    /\ {scope[q] : q \in definitions} = Metrics

\* _require_matching_workload
MatchingWorkload(definitions) == \A q, r \in definitions : Shape[q] = Shape[r]

\* prepare_performance_bundle, of an active draft only
Assembles(p) ==
    /\ p \notin archived
    /\ DefinitionPair(Scoped(p), ScopedDefinitions(p))
    /\ MatchingWorkload(ScopedDefinitions(p))

\* _current_preparation: assembled again from the inputs of now, it is the same.
\* (The definitions of a version are those of its kept proposals.)
IsCurrent(p) ==
    /\ p \in DOMAIN prep
    /\ Assembles(p)
    /\ prep[p].scope = Scoped(p)

-----------------------------------------------------------------------------
(* Idempotency. *)

Fresh(op, k) == k \notin DOMAIN idem[op]

SameRequest(op, k, digest) == k \in DOMAIN idem[op] /\ idem[op][k] = digest

Grant(op, k, digest, value) ==
    /\ idem' = [idem EXCEPT ![op] = Put(@, k, digest)]
    /\ grants' = Put(grants, <<op, k>>, value)
    /\ granted' = [op |-> op, key |-> k, value |-> value]

ReplayGrant(op, k, value) ==
    /\ granted' = [op |-> op, key |-> k, value |-> value]
    /\ UNCHANGED <<prop, prep, inv, conf, frozen, rev, hist, idem, results, issued,
                   time, archived, grants, started>>

-----------------------------------------------------------------------------
(* LifecycleOps. *)

\* The request digest of a preparation names the version it is for.
PrepareDigest(p, t) == <<p, Version(p), t>>

Agreed == DOMAIN prep \cup {p \in POCs : hist[p] # <<>>}

\* prepare
PrepareVersion(p, t, k) ==
    \/ /\ SameRequest("prepare", k, PrepareDigest(p, t))
       /\ IsCurrent(p)
       /\ ReplayGrant("prepare", k, prep[p])
    \/ /\ Fresh("prepare", k)
       /\ p \notin DOMAIN prep
       /\ p \in Agreed \/ Cardinality(Agreed) < MaxAgreements
       /\ Assembles(p)
       /\ LET version == [number |-> Version(p), scope |-> Scoped(p), target |-> t]
          IN  /\ prep' = Put(prep, p, version)
              /\ Grant("prepare", k, PrepareDigest(p, t), version)
       /\ issued' = issued + 1
       /\ inv' = Put(inv, p, [id |-> issued', expires |-> time + Lifetime])
       /\ UNCHANGED <<prop, conf, frozen, rev, hist, results, time, archived, started>>

\* reissue_customer_review: only for an expired link that nobody decided.
Reissue(p, k) ==
    /\ IsCurrent(p)
    /\ LET digest == <<p, prep[p].number>>
       IN  \/ /\ SameRequest("reissue", k, digest)
              /\ results[<<"reissue", k>>] = inv[p]
              /\ time < inv[p].expires
              /\ ReplayGrant("reissue", k, inv[p])
           \/ /\ Fresh("reissue", k)
              /\ p \notin DOMAIN conf \cup DOMAIN frozen
              /\ time >= inv[p].expires
              /\ issued' = issued + 1
              /\ inv' = Put(inv, p, [id |-> issued', expires |-> time + Lifetime])
              /\ results' = Put(results, <<"reissue", k>>, inv'[p])
              /\ Grant("reissue", k, digest, inv'[p])
              /\ UNCHANGED <<prop, prep, conf, frozen, rev, hist, time, archived, started>>

\* customer_review_poc_id: a token names the POC whose invitation it is.
TokenNames(token, p) == p \in DOMAIN inv /\ inv[p].id = token

\* record_customer_review_decision
DecideVersion(token, p, decision, k) ==
    /\ TokenNames(token, p)
    /\ IsCurrent(p)
    /\ time < inv[p].expires
    /\ LET digest == <<p, prep[p].number, decision>>
       IN  \/ /\ SameRequest("decide", k, digest)
              /\ ReplayGrant("decide", k, conf[p])
           \/ /\ Fresh("decide", k)
              /\ p \notin DOMAIN conf
              /\ conf' = Put(conf, p, [version |-> prep[p], decision |-> decision])
              /\ Grant("decide", k, digest, conf'[p])
              /\ UNCHANGED <<prop, prep, inv, frozen, rev, hist, results, issued, time,
                             archived, started>>

\* start_revision: a rejected version is superseded; the proposals and the
\* definitions it was made of join the two baselines.
StartRevision(p, k) ==
    \/ /\ SameRequest("revise", k, p)
       /\ p \in DOMAIN rev
       /\ rev[p] = results[<<"revise", k>>]
       /\ ReplayGrant("revise", k, rev[p])
    \/ /\ Fresh("revise", k)
       /\ p \in DOMAIN prep \cap DOMAIN inv \cap DOMAIN conf
       /\ conf[p].decision = "changes"
       /\ p \notin DOMAIN frozen
       /\ Len(hist[p]) < MaxRevisions
       /\ LET revision == [number |-> prep[p].number,
                           baseline |-> DOMAIN prep[p].scope \cup Revised(p).baseline,
                           defined |-> KeptReviews(prep[p].scope) \cup Revised(p).defined]
          IN  /\ rev' = Put(rev, p, revision)
              /\ results' = Put(results, <<"revise", k>>, revision)
              /\ Grant("revise", k, p, revision)
       /\ hist' = [hist EXCEPT ![p] = Append(@, prep[p])]
       /\ prep' = Drop(prep, p)
       /\ inv' = Drop(inv, p)
       /\ conf' = Drop(conf, p)
       /\ frozen' = Drop(frozen, p)
       /\ UNCHANGED <<prop, issued, time, archived, started>>

\* freeze
FreezeDecided(p, k) ==
    /\ IsCurrent(p)
    /\ p \in DOMAIN conf
    /\ Fresh("freeze", k)
    /\ p \notin DOMAIN frozen
    /\ frozen' = Put(frozen, p, conf[p])
    /\ Grant("freeze", k, <<p, prep[p].number>>, conf[p])
    /\ UNCHANGED <<prop, prep, inv, conf, rev, hist, results, issued, time, archived, started>>

Freeze(p, k) ==
    /\ IsCurrent(p)
    /\ p \in DOMAIN conf
    /\ conf[p].decision = "confirm"
    /\ LET digest == <<p, prep[p].number>>
       IN  \/ /\ SameRequest("freeze", k, digest)
              /\ ReplayGrant("freeze", k, frozen[p])
           \/ /\ Fresh("freeze", k)
              /\ p \notin DOMAIN frozen
              /\ frozen' = Put(frozen, p, conf[p])
              /\ Grant("freeze", k, digest, conf[p])
              /\ UNCHANGED <<prop, prep, inv, conf, rev, hist, results, issued, time,
                             archived, started>>

\* frozen_bundle: what a run is given.
FrozenBundle(p) ==
    /\ IsCurrent(p)
    /\ p \in DOMAIN conf \cap DOMAIN frozen
    /\ frozen[p] = conf[p]
    /\ started' = started \cup {[version |-> prep[p], confirmed |-> frozen[p], at |-> Scoped(p)]}
    /\ UNCHANGED <<prop, prep, inv, conf, frozen, rev, hist, idem, results, issued, time,
                   archived, grants, granted>>

-----------------------------------------------------------------------------
(* What the other services do to the inputs, at any time. *)

InputChanges(q, state) ==
    /\ <<prop[q], state>> \in {<<"absent", "new">>, <<"new", "kept">>, <<"new", "discarded">>}
                              \cup {<<"kept", m>> : m \in Metrics}
    /\ prop' = [prop EXCEPT ![q] = state]
    /\ UNCHANGED <<prep, inv, conf, frozen, rev, hist, idem, results, issued, time, archived,
                   grants, granted, started>>

Archive(p) ==
    /\ archived' = archived \cup {p}
    /\ UNCHANGED <<prop, prep, inv, conf, frozen, rev, hist, idem, results, issued, time,
                   grants, granted, started>>

Tick ==
    /\ time < LHorizon
    /\ time' = time + 1
    /\ UNCHANGED <<prop, prep, inv, conf, frozen, rev, hist, idem, results, issued, archived,
                   grants, granted, started>>

LifecycleNext ==
    \/ \E p \in POCs, k \in LKeys :
          \/ \E t \in Targets : PrepareVersion(p, t, k)
          \/ Reissue(p, k)
          \/ \E token \in 1 .. issued, d \in {"confirm", "changes"} : DecideVersion(token, p, d, k)
          \/ StartRevision(p, k)
          \/ Freeze(p, k)
    \/ \E p \in POCs : FrozenBundle(p) \/ Archive(p)
    \/ \E q \in Proposals, s \in {"new", "kept", "discarded"} \cup Metrics : InputChanges(q, s)
    \/ Tick

LifecycleSpec == LifecycleInit /\ [][LifecycleNext]_lifecycleVars

-----------------------------------------------------------------------------
(* Properties. *)

\* A run is only ever given the version a customer confirmed, made of exactly
\* the inputs that are in scope when it is given, although proposals, links and
\* versions change between the two (frozen_bundle).
RunsWhatWasConfirmed ==
    \A r \in started : /\ r.confirmed.decision = "confirm"
                    /\ r.confirmed.version = r.version
                    /\ r.version.scope = r.at

\* Versions of a POC are numbered without gaps, and none is prepared from a
\* proposal that an earlier version already used (start_revision's baseline).
VersionsAreFresh ==
    \A p \in DOMAIN prep :
        LET versions == Append(hist[p], prep[p])
        IN  \A i \in 1 .. Len(versions) :
               /\ versions[i].number = i
               /\ \A j \in 1 .. i - 1 :
                     DOMAIN versions[i].scope \cap DOMAIN versions[j].scope = {}

\* A repeated key is answered with what the key was first granted, or refused;
\* it is never answered with a later version's value.
RepeatsTheGrant ==
    granted # NoReply => granted.value = grants[<<granted.op, granted.key>>]
=============================================================================
