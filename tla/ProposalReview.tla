--------------------------- MODULE ProposalReview ---------------------------
(***************************************************************************)
(* Draft POCs (ProcessLocalDraftPOCService), the sources attached to them  *)
(* (ProcessLocalPOCSourceService, behind ProcessLocalPOCSourceIntake), the *)
(* human review of their proposals (ProcessLocalProposalReviewService),    *)
(* their assisted replacement (ProcessLocalAssistedAuthoringService) and   *)
(* the criteria defined on the kept ones                                   *)
(* (ProcessLocalContractDefinitionService).                                *)
(*                                                                         *)
(* Intake.  attach holds the source lock and looks the draft up under a    *)
(* lock of its own: a draft may be archived between the check and the      *)
(* write, so attach is two steps.  The four source maps are replaced       *)
(* together under the lock and are one sequence here: the id of a source   *)
(* is its POC and its place.  A repeated idempotency key returns the       *)
(* stored result or is refused, and a fresh key is always at hand: the     *)
(* keys are left out, as are the refusals of the capacity checks that only *)
(* they can meet.                                                          *)
(*                                                                         *)
(* Review.  Every source brings one proposal of its own (A2); a published  *)
(* attempt of assisted authoring replaces it by another (A3).  decide and  *)
(* define look the proposals up before they take their lock, so what they  *)
(* looked up may be stale when they write.  A publication holds the        *)
(* source, draft, review and assisted locks together and is one step; the  *)
(* review's lookup inside it cannot be stale, as a second publication      *)
(* needs the source lock.  The fingerprints and owners the review          *)
(* remembers of a proposal follow from its id and only refuse what no      *)
(* caller here sends.                                                      *)
(***************************************************************************)
EXTENDS Naturals, Sequences, FiniteSets, Dicts

CONSTANTS
    Pocs,         \* POC ids
    Identities,   \* source identities: a kind and an external id
    Contents,     \* redacted texts
    Threads,      \* request threads
    MaxDrafts,    \* capacity of the draft store, archived drafts included
    MaxSources,   \* max_sources_per_poc
    None,
    Results,      \* validated outputs of a provider
    Keys,         \* idempotency keys of the assisted action
    MaxAttempts,  \* max_attempts
    Decisions,    \* {"KEEP", "DISCARD"}
    Criteria      \* criterion definitions

ASSUME IntakeAssumption == MaxDrafts \in Nat /\ MaxSources \in Nat

\* A result is told apart from the proposal a source came with.
ASSUME ReviewAssumption == "A2" \notin Results

VARIABLES
    drafts,       \* _records: the archive state of each draft
    sources,      \* _sources_by_poc
    call,         \* per thread, the call it is in
    decisions,    \* _decisions
    registered,   \* _authoring_current_proposals
    definitions,  \* _definitions, by proposal
    attempts,     \* _source_attempts
    keyed,        \* the assisted _idempotency: the source of a key's attempt
    inflight      \* _inflight: the source of a key's reservation

intake == <<drafts, sources>>

Idle == [op |-> None, step |-> "idle"]

IntakeInit ==
    /\ drafts = EmptyDict
    /\ sources = [p \in Pocs |-> <<>>]
    /\ call = [t \in Threads |-> Idle]

Free(t) == call[t] = Idle
Goto(t, c) == call' = [call EXCEPT ![t] = c]
Return(t) == Goto(t, Idle)

Active(p) == p \in DOMAIN drafts /\ drafts[p] = "ACTIVE"

SourceIds == {<<p, n>> : p \in Pocs, n \in 1 .. MaxSources}

Attached(s) == s[2] \in 1 .. Len(sources[s[1]])
SourcesOf(p) == {s \in SourceIds : s[1] = p /\ Attached(s)}
Source(s) == sources[s[1]][s[2]]

\* _identity_latest: the last source of an identity, None before the first
Latest(p, i) ==
    LET all == {s \in SourcesOf(p) : Source(s).identity = i} IN
    IF all = {} THEN None
    ELSE CHOOSE s \in all : \A r \in all : r[2] <= s[2]

\* source_snapshot: an active draft, and no later revision
Current(s) == Active(s[1]) /\ Attached(s) /\ Latest(s[1], Source(s).identity) = s

\* No thread is between the two steps of attach.
SourceLockFree == \A t \in Threads : call[t].op # "ATTACH"

-----------------------------------------------------------------------------
(***************************************************************************)
(* Drafts and their sources.                                               *)
(***************************************************************************)

CreateDraft(p) ==
    /\ p \notin DOMAIN drafts
    /\ Cardinality(DOMAIN drafts) < MaxDrafts
    /\ drafts' = Put(drafts, p, "ACTIVE")
    /\ UNCHANGED <<sources, call>>

\* An archived draft keeps its record and its place.
ArchiveDraft(p) ==
    /\ Active(p)
    /\ drafts' = Put(drafts, p, "ARCHIVED")
    /\ UNCHANGED <<sources, call>>

\* attach takes the source lock and finds the draft active.  What is attached
\* matters only to the next step, which chooses it.
AttachCheck(t, p) ==
    /\ Free(t) /\ SourceLockFree
    /\ Active(p)
    /\ Goto(t, [op |-> "ATTACH", step |-> "write", poc |-> p])
    /\ UNCHANGED intake

\* Equal content of an identity is a replay and adds nothing.  Changed content
\* names the latest source, which it revises; a new identity names none.
AttachWrite(t, i, content, revises) ==
    /\ call[t].op = "ATTACH"
    /\ LET p == call[t].poc
           latest == Latest(p, i)
           new == latest = None \/ Source(latest).content # content
       IN IF new /\ revises = latest /\ Len(sources[p]) < MaxSources
          THEN sources' = [sources EXCEPT ![p] = Append(@,
                 [identity |-> i, content |-> content,
                  revision |-> IF latest = None THEN 1 ELSE Source(latest).revision + 1])]
          ELSE UNCHANGED sources
    /\ Return(t)
    /\ UNCHANGED drafts

AttachReturns(t) == \E i \in Identities, c \in Contents, r \in SourceIds \cup {None} :
    AttachWrite(t, i, c, r)

IntakeNext ==
    \/ \E p \in Pocs : CreateDraft(p) \/ ArchiveDraft(p)
    \/ \E t \in Threads, p \in Pocs : AttachCheck(t, p)
    \/ \E t \in Threads : AttachReturns(t)

-----------------------------------------------------------------------------

review == <<decisions, registered, definitions>>
assisted == <<attempts, keyed, inflight>>
reviewVars == <<intake, call, review, assisted>>

ReviewInit ==
    /\ IntakeInit
    /\ decisions = EmptyDict
    /\ registered = EmptyDict
    /\ definitions = EmptyDict
    /\ attempts = EmptyDict
    /\ keyed = EmptyDict
    /\ inflight = EmptyDict

\* derive_proposal_id: of the source and the candidate or the result
A2(s) == <<s, "A2">>
A3(s, result) == <<s, result>>
ProposalsOf(s) == {A2(s)} \cup {A3(s, r) : r \in Results}

Replacement(s) == A3(s, attempts[s].result)

\* review_inputs reads the current replacements first and the sources later.
Replacements(p) == {s \in DOMAIN attempts : s[1] = p /\ Current(s)}
Inputs(p, replaced) ==
    {Replacement(s) : s \in replaced} \cup {A2(s) : s \in SourcesOf(p) \ replaced}

Reserved == {inflight[k] : k \in DOMAIN inflight}

-----------------------------------------------------------------------------
(***************************************************************************)
(* decide and define.                                                      *)
(***************************************************************************)

\* The lookup of the replacements.  The proposal matters only to the write,
\* which chooses it.
LookupReplacements(t, p, op) ==
    /\ Free(t)
    /\ Active(p)
    /\ Goto(t, [op |-> op, step |-> "sources", poc |-> p, replaced |-> Replacements(p)])
    /\ UNCHANGED <<intake, review, assisted>>

\* The lookup of the sources' own proposals: refused once archived.
LookupSources(t) ==
    /\ call[t].op \in {"DECIDE", "DEFINE"} /\ call[t].step = "sources"
    /\ IF Active(call[t].poc)
       THEN Goto(t, [op |-> call[t].op, step |-> "looked up",
                     seen |-> Inputs(call[t].poc, call[t].replaced)])
       ELSE Return(t)
    /\ UNCHANGED <<intake, review, assisted>>

\* Mutant: what was looked up is taken to be current.
SeenIsCurrent(seen, proposal) == proposal \in seen

\* _current_locked: looked up, and not replaced since
IsCurrent(seen, proposal) ==
    /\ proposal \in seen
    /\ proposal[1] \in DOMAIN registered => proposal \in registered[proposal[1]]

\* A decision is written once; the same decision again is a replay.
Decide(t, proposal, decision) ==
    /\ call[t].op = "DECIDE" /\ call[t].step = "looked up"
    /\ IF IsCurrent(call[t].seen, proposal) /\ proposal \notin DOMAIN decisions
       THEN decisions' = Put(decisions, proposal, decision)
       ELSE UNCHANGED decisions
    /\ Return(t)
    /\ UNCHANGED <<intake, registered, definitions, assisted>>

\* list_proposals overlays the decisions on what was looked up.
ListKept(t) ==
    /\ call[t].op = "DEFINE" /\ call[t].step = "looked up"
    /\ Goto(t, [op |-> "DEFINE", step |-> "listed",
                kept |-> {q \in call[t].seen \cap DOMAIN decisions : decisions[q] = "KEEP"}])
    /\ UNCHANGED <<intake, review, assisted>>

\* Mutant: a proposal need not have been kept.
DefineAnything(t, proposal, criterion) ==
    /\ call[t].op = "DEFINE" /\ call[t].step = "listed"
    /\ IF proposal \notin DOMAIN definitions
       THEN definitions' = Put(definitions, proposal, criterion)
       ELSE UNCHANGED definitions
    /\ Return(t)
    /\ UNCHANGED <<intake, decisions, registered, assisted>>

\* One immutable definition for a proposal that was kept.
Define(t, proposal, criterion) ==
    /\ call[t].op = "DEFINE" /\ call[t].step = "listed"
    /\ IF proposal \in call[t].kept /\ proposal \notin DOMAIN definitions
       THEN definitions' = Put(definitions, proposal, criterion)
       ELSE UNCHANGED definitions
    /\ Return(t)
    /\ UNCHANGED <<intake, decisions, registered, assisted>>

-----------------------------------------------------------------------------
(***************************************************************************)
(* The guards of a publication.                                            *)
(***************************************************************************)

\* Mutant: the source guard takes a source that was current once.
AnyRevision(s) == SourceLockFree /\ Active(s[1]) /\ Attached(s)

\* authoring_commit_guard of the sources and the drafts
OwnersHold(s) == SourceLockFree /\ Current(s)

\* Mutant: decisions are not looked at.
AnyReview(s) == TRUE

\* authoring_commit_guard of the review: no proposal shown of s is decided
Undecided(s) ==
    LET shown == IF s \in DOMAIN attempts /\ Current(s) THEN Replacement(s) ELSE A2(s)
    IN shown \notin DOMAIN decisions

\* Mutant: the review is not told.
PublishUnregistered(s, attempt) ==
    /\ attempts' = Put(attempts, s, attempt)
    /\ UNCHANGED registered

\* The pointer swaps of a publication.
Publish(s, attempt) ==
    /\ attempts' = Put(attempts, s, attempt)
    /\ registered' = Put(registered, s, {A3(s, attempt.result)})

-----------------------------------------------------------------------------
(***************************************************************************)
(* create_assisted_draft.                                                  *)
(***************************************************************************)

Assisting(t, step) == call[t].op = "ASSIST" /\ call[t].step = step

\* The draft and the source are read, each under its own lock.
AssistRead(t, s, k) ==
    /\ Free(t) /\ SourceLockFree
    /\ Current(s)
    /\ Goto(t, [op |-> "ASSIST", step |-> "reserve", source |-> s, key |-> k])
    /\ UNCHANGED <<intake, review, assisted>>

\* The key or the source is in flight: wait until notified, then read again.
MustWait(c) == c.key \notin DOMAIN keyed /\ c.source \in Reserved

Conflicts(c) ==
    \/ c.key \in DOMAIN keyed /\ keyed[c.key] # c.source
    \/ c.key \notin DOMAIN keyed /\ c.key \in DOMAIN inflight /\ inflight[c.key] # c.source

\* Only an attempt of the assisted action has the request of the assisted action.
IsReplay(c) == c.source \in DOMAIN attempts /\ attempts[c.source].by = "ASSIST"

\* The wait ends when the attempt does, or at the deadline of the call.
AssistWait(t) ==
    /\ Assisting(t, "reserve")
    /\ ~Conflicts(call[t]) /\ MustWait(call[t])
    /\ Goto(t, [call[t] EXCEPT !.step = "wait"])
    /\ UNCHANGED <<intake, review, assisted>>

\* The draft and the source are read again.
AssistWake(t) ==
    /\ Assisting(t, "wait") /\ SourceLockFree
    /\ \/ ~MustWait(call[t]) /\ Current(call[t].source)
          /\ Goto(t, [call[t] EXCEPT !.step = "reserve"])
       \/ ~Current(call[t].source) /\ Return(t)
       \/ MustWait(call[t]) /\ Return(t)
    /\ UNCHANGED <<intake, review, assisted>>

AssistFull(c) ==
    /\ c.source \notin DOMAIN attempts
    /\ Cardinality(DOMAIN attempts \cup Reserved) >= MaxAttempts

AssistRefused(t) ==
    /\ Assisting(t, "reserve")
    /\ LET c == call[t] IN
       \/ Conflicts(c)
       \/ /\ ~MustWait(c)
          /\ \/ c.source \in DOMAIN attempts /\ ~IsReplay(c)
             \/ IsReplay(c) /\ ~Current(c.source)
             \/ IsReplay(c) /\ c.key \notin DOMAIN keyed /\ ~Undecided(c.source)
             \/ AssistFull(c)
    /\ Return(t)
    /\ UNCHANGED <<intake, review, assisted>>

\* An exact replay writes nothing; a new key of the same request is stored
\* under the guards, which publish the same proposals again.
AssistReplay(t) ==
    /\ Assisting(t, "reserve")
    /\ LET c == call[t] IN
       /\ ~Conflicts(c) /\ ~MustWait(c) /\ IsReplay(c)
       /\ OwnersHold(c.source)
       /\ IF c.key \in DOMAIN keyed
          THEN UNCHANGED <<review, assisted>>
          ELSE /\ Undecided(c.source)
               /\ Publish(c.source, attempts[c.source])
               /\ keyed' = Put(keyed, c.key, c.source)
               /\ UNCHANGED <<decisions, definitions, inflight>>
    /\ Return(t)
    /\ UNCHANGED intake

AssistReserve(t) ==
    /\ Assisting(t, "reserve")
    /\ LET c == call[t] IN
       /\ ~Conflicts(c) /\ ~MustWait(c)
       /\ c.key \notin DOMAIN keyed
       /\ c.source \notin DOMAIN attempts
       /\ ~AssistFull(c)
       /\ inflight' = Put(inflight, c.key, c.source)
       /\ Goto(t, [c EXCEPT !.step = "execute"])
    /\ UNCHANGED <<intake, review, attempts, keyed>>

\* No decision is found, and the provider answers with a valid output.
AssistExecute(t) ==
    /\ Assisting(t, "execute")
    /\ Active(call[t].source[1]) /\ Undecided(call[t].source)
    /\ \E result \in Results :
          Goto(t, [op |-> "ASSIST", step |-> "commit", source |-> call[t].source,
                   key |-> call[t].key, result |-> result])
    /\ UNCHANGED <<intake, review, assisted>>

\* Mutant: a failed attempt keeps its reservation.
AssistForgets(t) ==
    /\ Assisting(t, "execute") \/ Assisting(t, "commit")
    /\ Return(t)
    /\ UNCHANGED <<intake, review, assisted>>

\* Any failure gives the reservation back.
AssistFail(t) ==
    /\ Assisting(t, "execute") \/ Assisting(t, "commit")
    /\ inflight' = Drop(inflight, call[t].key)
    /\ Return(t)
    /\ UNCHANGED <<intake, review, attempts, keyed>>

AssistCommit(t) ==
    /\ Assisting(t, "commit")
    /\ LET c == call[t] IN
       /\ OwnersHold(c.source)
       /\ Undecided(c.source)
       /\ Publish(c.source, [by |-> "ASSIST", result |-> c.result])
       /\ keyed' = Put(keyed, c.key, c.source)
       /\ inflight' = Drop(inflight, c.key)
    /\ Return(t)
    /\ UNCHANGED <<intake, decisions, definitions>>

-----------------------------------------------------------------------------

Proposals == UNION {ProposalsOf(s) : s \in SourceIds}

ReviewStep(t) ==
    \/ LookupSources(t)
    \/ \E q \in Proposals, d \in Decisions : Decide(t, q, d)
    \/ ListKept(t)
    \/ \E q \in Proposals, d \in Criteria : Define(t, q, d)
    \/ AssistWait(t)
    \/ AssistWake(t)
    \/ AssistRefused(t)
    \/ AssistReplay(t)
    \/ AssistReserve(t)
    \/ AssistExecute(t)
    \/ AssistFail(t)
    \/ AssistCommit(t)

ReviewCall(t) ==
    \/ \E p \in Pocs : LookupReplacements(t, p, "DECIDE")
    \/ \E p \in Pocs : LookupReplacements(t, p, "DEFINE")
    \/ \E s \in SourceIds, k \in Keys : AssistRead(t, s, k)

ReviewNext ==
    \/ IntakeNext /\ UNCHANGED <<review, assisted>>
    \/ \E t \in Threads : ReviewStep(t) \/ ReviewCall(t)

\* A call that has begun goes on: nothing it waits for is held for ever.
ReviewFairness == \A t \in Threads :
    /\ WF_reviewVars(ReviewStep(t))
    /\ WF_reviewVars(AttachReturns(t) /\ UNCHANGED <<review, assisted>>)

ReviewSpec == ReviewInit /\ [][ReviewNext]_reviewVars /\ ReviewFairness

-----------------------------------------------------------------------------
(***************************************************************************)
(* Properties.                                                             *)
(***************************************************************************)

\* A proposal that assisted authoring has replaced was never decided and never
\* will be: a decision that looked up the old queue cannot land after the
\* publication, and a publication cannot pass a decision it did not see.
ReplacedIsUndecided == \A s \in DOMAIN attempts : A2(s) \notin DOMAIN decisions

\* The review holds current, source by source, exactly the proposals of the
\* published attempt, whichever of its writers published it.
RegistrationIsTheAttempt ==
    /\ DOMAIN registered = DOMAIN attempts
    /\ \A s \in DOMAIN attempts : registered[s] = {Replacement(s)}

\* A criterion is only ever defined on a proposal a human has kept, and that
\* proposal is still the one the review shows for its source.
DefinitionRestsOnReview == \A q \in DOMAIN definitions :
    /\ q \in DOMAIN decisions /\ decisions[q] = "KEEP"
    /\ q[1] \in DOMAIN attempts => q = Replacement(q[1])

\* What the review holds is decided, registered and defined on the attempt
\* that stands, whichever writers overtook one another.
ReviewIsCoherent == ReplacedIsUndecided /\ RegistrationIsTheAttempt /\ DefinitionRestsOnReview

\* An attempt is published for the latest revision of a source of an active
\* draft, and none is ever replaced by another.
PublishedOnCurrent == [][
    /\ \A s \in DOMAIN attempts' \ DOMAIN attempts : Current(s)
    /\ \A s \in DOMAIN attempts : s \in DOMAIN attempts' /\ attempts'[s] = attempts[s]
    ]_reviewVars

\* A reservation is given back, so that who waits for it does not wait for ever.
ReservationEnds == \A k \in Keys :
    k \in DOMAIN inflight ~> k \notin DOMAIN inflight
=============================================================================
