--------------------------- MODULE AgreementProofs ---------------------------
(***************************************************************************)
(* What holds of Agreement for every set of POCs, keys and texts and every *)
(* capacity, link life and bound.                                          *)
(***************************************************************************)
EXTENDS Agreement

USE AgreementAssumption

InFlight == [call : Calls, seen : Nat, at : Nat, phase : {"read", "publish"}]

IdemRecords == [req : Requests, result : Results]

-----------------------------------------------------------------------------
(***************************************************************************)
(* Type correctness.                                                       *)
(***************************************************************************)

\* The fingerprint of a preparation has the type of fingerprints.
LEMMA FingerprintType ==
    ASSUME NEW x \in Preparations
    PROVE  Fingerprint(x) \in Fingerprints
BY DEF Preparations, Fingerprint, Fingerprints

\* A new review link for a preparation has the type of links.
LEMMA NewInvitationType ==
    ASSUME TypeOK, NEW x \in Preparations, NEW at \in Nat
    PROVE  NewInvitation(x, at) \in Invitations
<1>1. Fingerprint(x) \in Fingerprints BY FingerprintType
<1>2. issued \in Nat BY DEF TypeOK
<1> QED BY <1>1, <1>2 DEF NewInvitation, Invitations

\* The operation key and the record remembered under it have their types.
LEMMA RememberType ==
    ASSUME TypeOK, NEW p \in DOMAIN inflight, NEW req \in Requests,
           NEW result \in Results, Remember(p, req, result)
    PROVE  IsDict(idem', Pocs \X Operations \X Keys, IdemRecords)
<1>a. IsDict(inflight, Pocs, InFlight) BY DEF TypeOK, InFlight
<1>0. p \in Pocs /\ inflight[p] \in InFlight BY <1>a, GetType
<1>1. inflight[p].call \in Calls BY <1>0 DEF InFlight
<1>2. OpKey(p, inflight[p].call) \in Pocs \X Operations \X Keys
    BY <1>0, <1>1 DEF OpKey, Calls, Operations
<1>3. [req |-> req, result |-> result] \in IdemRecords BY DEF IdemRecords
<1>4. IsDict(idem, Pocs \X Operations \X Keys, IdemRecords)
    BY DEF TypeOK, IdemRecords
<1> QED BY <1>2, <1>3, <1>4, PutType DEF Remember

\* Every call of a client begins an operation of the right type.
LEMMA CallBegins ==
    ASSUME TypeOK, NEW p \in Pocs, NEW k \in Keys, Call(p, k)
    PROVE  \E c \in Calls : Begin(p, c)
<1>1. CASE \E b \in Bodies : Prepare(p, k, b)
    <2>1. PICK b \in Bodies : Prepare(p, k, b) BY <1>1
    <2>2. [op |-> "PREPARE", key |-> k, body |-> b] \in Calls BY DEF Calls
    <2> QED BY <2>1, <2>2 DEF Prepare
<1>2. CASE \E b \in Bodies : StartRevision(p, k, b)
    <2>1. PICK b \in Bodies : StartRevision(p, k, b) BY <1>2
    <2>2. [op |-> "START_REVISION", key |-> k, body |-> b] \in Calls
        BY DEF Calls
    <2> QED BY <2>1, <2>2 DEF StartRevision
<1>3. CASE \E b \in Bodies, d \in Decisions, l \in 1..issued :
            Decide(p, k, b, d, l)
    <2>1. PICK b \in Bodies, d \in Decisions, l \in 1..issued :
            Decide(p, k, b, d, l)
        BY <1>3
    <2>2. l \in Nat BY DEF TypeOK
    <2>3. [op |-> "DECISION", key |-> k, body |-> b, decision |-> d, link |-> l]
          \in Calls
        BY <2>2 DEF Calls
    <2> QED BY <2>1, <2>3 DEF Decide
<1>4. CASE Reissue(p, k)
    <2>1. [op |-> "REISSUE", key |-> k] \in Calls BY DEF Calls
    <2> QED BY <1>4, <2>1 DEF Reissue
<1>5. CASE Freeze(p, k)
    <2>1. [op |-> "FREEZE", key |-> k] \in Calls BY DEF Calls
    <2> QED BY <1>5, <2>1 DEF Freeze
<1> QED BY <1>1, <1>2, <1>3, <1>4, <1>5 DEF Call

\* Init has the types.
LEMMA TypeInit == Init => TypeOK
BY EmptyType DEF Init, TypeOK, VersionRecords

\* Every step keeps the types.  Publication reads the dictionaries at the POC
\* of the operation, so the types depend on GrantHolds.
LEMMA TypeNext == TypeOK /\ GrantHolds /\ [Next]_vars => TypeOK'
<1> SUFFICES ASSUME TypeOK, GrantHolds, [Next]_vars PROVE TypeOK'
    OBVIOUS
<1>d. IsDict(inflight, Pocs, InFlight) BY DEF TypeOK, InFlight
<1>t. \A p \in DOMAIN inflight : p \in Pocs /\ inflight[p] \in InFlight
    BY <1>d, GetType
<1>f. \A p : TypeOK /\ inputs' = inputs /\ now' = now /\ UNCHANGED svcVars
             /\ Release(p) /\ reply' \in {"rejected", "replayed", "unavailable"}
             => TypeOK'
    BY DropType DEF TypeOK, svcVars, Release
<1>1. CASE UNCHANGED vars
    BY <1>1 DEF vars, TypeOK
<1>2. CASE Environment
    <2>1. CASE Tick BY <2>1 DEF Tick, svcVars, TypeOK
    <2>2. ASSUME NEW p \in Pocs, NewPlan(p) \/ ToggleInputs(p) PROVE TypeOK'
        <3>1. PICK i \in [ver : Nat, ok : BOOLEAN] :
                inputs' = [inputs EXCEPT ![p] = i]
            <4>1. CASE NewPlan(p)
                <5>1. PICK b \in BOOLEAN :
                    inputs' = [inputs EXCEPT ![p] = [ver |-> inputs[p].ver + 1, ok |-> b]]
                    BY <4>1 DEF NewPlan
                <5>2. [ver |-> inputs[p].ver + 1, ok |-> b] \in [ver : Nat, ok : BOOLEAN]
                    BY DEF TypeOK
                <5> QED BY <5>1, <5>2
            <4>2. CASE ToggleInputs(p)
                <5>1. [ver |-> inputs[p].ver, ok |-> ~inputs[p].ok]
                      \in [ver : Nat, ok : BOOLEAN]
                    BY DEF TypeOK
                <5>2. inputs' = [inputs EXCEPT ![p] =
                                    [ver |-> inputs[p].ver, ok |-> ~inputs[p].ok]]
                    BY <4>2 DEF ToggleInputs
                <5> QED BY <5>1, <5>2
            <4> QED BY <2>2, <4>1, <4>2
        <3>2. inputs' \in [Pocs -> [ver : Nat, ok : BOOLEAN]]
            BY <3>1 DEF TypeOK
        <3> QED BY <2>2, <3>2 DEF NewPlan, ToggleInputs, svcVars, TypeOK
    <2> QED BY <1>2, <2>1, <2>2 DEF Environment
<1>3. ASSUME NEW p \in Pocs, NEW k \in Keys, Call(p, k) PROVE TypeOK'
    <2>1. PICK c \in Calls : Begin(p, c)
        BY <1>3, CallBegins
    <2>2. [call |-> c, seen |-> inputs[p].ver, phase |-> "read", at |-> 0]
          \in InFlight
        BY DEF InFlight, TypeOK
    <2>3. IsDict(inflight', Pocs, InFlight)
        BY <2>1, <2>2, PutType DEF Begin, TypeOK, InFlight
    <2> QED BY <2>1, <2>3 DEF Begin, TypeOK, svcVars, InFlight
<1>4. ASSUME NEW p \in Pocs, Validate(p) PROVE TypeOK'
    <2>1. CASE Reject(p) \/ Replay(p)
        BY <2>1, <1>f DEF Reject, Replay, Finish
    <2>2. CASE Accept(p)
        <3>1. IsDict(inflight', Pocs, InFlight)
            BY <2>2 DEF Accept, Reading, TypeOK, InFlight, IsDict
        <3> QED BY <2>2, <3>1 DEF Accept, TypeOK, svcVars, InFlight
    <2> QED BY <1>4, <2>1, <2>2 DEF Validate
<1>5. ASSUME NEW p \in Pocs, Fail(p) PROVE TypeOK'
    BY <1>5, <1>f DEF Fail, Finish
<1>6. ASSUME NEW p \in Pocs, PublishPrepare(p) PROVE TypeOK'
    <2> DEFINE c == inflight[p].call
               x == [version |-> 1, input |-> inflight[p].seen,
                     body |-> c.body, at |-> now]
    <2>1. p \in DOMAIN inflight /\ c \in Calls /\ c.op = "PREPARE"
          /\ c.body \in Bodies /\ inflight[p].seen \in Nat
        BY <1>6, <1>t DEF PublishPrepare, Publishing, InFlight, Calls
    <2>2. x \in Preparations
        BY <2>1 DEF Preparations, TypeOK
    <2>3. IsDict(prep', Pocs, Preparations)
        BY <1>6, <2>2, PutType DEF PublishPrepare, TypeOK
    <2>4. NewInvitation(x, now) \in Invitations
        BY <2>2, NewInvitationType DEF TypeOK
    <2>5. IsDict(invit', Pocs, Invitations)
        BY <1>6, <2>4, PutType DEF PublishPrepare, TypeOK
    <2>6. AssemblyRequest(c, inflight[p].seen) \in Requests
        BY <2>1 DEF AssemblyRequest, Requests
    <2>7. IsDict(idem', Pocs \X Operations \X Keys, IdemRecords)
        BY <1>6, <2>1, <2>2, <2>6, RememberType DEF PublishPrepare, Results
    <2>8. IsDict(inflight', Pocs, InFlight)
        BY <1>6, DropType DEF PublishPrepare, Release, TypeOK, InFlight
    <2> QED
        BY <1>6, <2>3, <2>5, <2>7, <2>8 DEF PublishPrepare, TypeOK, InFlight, IdemRecords
<1>7. ASSUME NEW p \in Pocs, PublishDecision(p) PROVE TypeOK'
    <2> DEFINE c == inflight[p].call
               x == [fp |-> Fingerprint(prep[p]), decision |-> c.decision,
                     key |-> c.key, body |-> c.body, link |-> c.link, at |-> now]
    <2>1. p \in DOMAIN inflight /\ c \in Calls /\ c.op = "DECISION"
        BY <1>7, <1>t DEF PublishDecision, Publishing, InFlight
    <2>2. /\ c.body \in Bodies /\ c.decision \in Decisions
          /\ c.key \in Keys /\ c.link \in Nat
        BY <2>1 DEF Calls
    <2>3. prep[p] \in Preparations
        BY <2>1, GetType DEF TypeOK, GrantHolds
    <2>4. Fingerprint(prep[p]) \in Fingerprints BY <2>3, FingerprintType
    <2>5. x \in Confirmations BY <2>2, <2>4 DEF Confirmations, TypeOK
    <2>6. IsDict(conf', Pocs, Confirmations)
        BY <1>7, <2>5, PutType DEF PublishDecision, TypeOK
    <2>7. DecisionRequest(c, prep[p]) \in Requests
        BY <2>2, <2>4 DEF DecisionRequest, Requests
    <2>8. IsDict(idem', Pocs \X Operations \X Keys, IdemRecords)
        BY <1>7, <2>1, <2>5, <2>7, RememberType DEF PublishDecision, Results
    <2>9. IsDict(inflight', Pocs, InFlight)
        BY <1>7, DropType DEF PublishDecision, Release, TypeOK, InFlight
    <2> QED
        BY <1>7, <2>6, <2>8, <2>9
        DEF PublishDecision, TypeOK, InFlight, IdemRecords
<1>8. ASSUME NEW p \in Pocs, PublishRevision(p) PROVE TypeOK'
    <2> DEFINE c == inflight[p].call
               x == [version |-> prep[p].version + 1,
                     input |-> inflight[p].seen, body |-> c.body, at |-> now]
               r == [contract |-> prep[p], confirmation |-> conf[p]]
    <2>1. p \in DOMAIN inflight /\ c \in Calls /\ c.op = "START_REVISION"
          /\ inflight[p].seen \in Nat
        BY <1>8, <1>t DEF PublishRevision, Publishing, InFlight
    <2>2. c.body \in Bodies BY <2>1 DEF Calls
    <2>3. prep[p] \in Preparations
        BY <2>1, GetType DEF TypeOK, GrantHolds
    <2>4. conf[p] \in Confirmations
        <3>1. p \in DOMAIN conf
            BY <1>8, <2>1 DEF PublishRevision, Publishing, GrantHolds, RevisionRequested
        <3> QED BY <3>1, GetType DEF TypeOK
    <2>5. x \in Preparations BY <2>1, <2>2, <2>3 DEF Preparations, TypeOK
    <2>6. r \in VersionRecords BY <2>3, <2>4 DEF VersionRecords
    <2>7. hist' \in [Pocs -> Seq(VersionRecords)]
        <3>1. Append(hist[p], r) \in Seq(VersionRecords)
            BY <2>6 DEF TypeOK
        <3> QED BY <1>8, <3>1 DEF PublishRevision, TypeOK
    <2>8. IsDict(prep', Pocs, Preparations)
        BY <1>8, <2>5, PutType DEF PublishRevision, TypeOK
    <2>9. NewInvitation(x, now) \in Invitations
        BY <2>5, NewInvitationType DEF TypeOK
    <2>10. IsDict(invit', Pocs, Invitations)
        BY <1>8, <2>9, PutType DEF PublishRevision, TypeOK
    <2>11. IsDict(conf', Pocs, Confirmations) /\ IsDict(frozen', Pocs, FrozenContracts)
        BY <1>8, DropType DEF PublishRevision, TypeOK
    <2>12. AssemblyRequest(c, inflight[p].seen) \in Requests
        BY <2>1, <2>2 DEF AssemblyRequest, Requests
    <2>13. IsDict(idem', Pocs \X Operations \X Keys, IdemRecords)
        BY <1>8, <2>1, <2>5, <2>12, RememberType DEF PublishRevision, Results
    <2>14. IsDict(inflight', Pocs, InFlight)
        BY <1>8, DropType DEF PublishRevision, Release, TypeOK, InFlight
    <2> QED
        BY <1>8, <2>7, <2>8, <2>10, <2>11, <2>13, <2>14
        DEF PublishRevision, TypeOK, InFlight, IdemRecords
<1>9. ASSUME NEW p \in Pocs, PublishReissue(p) PROVE TypeOK'
    <2> DEFINE x == NewInvitation(prep[p], inflight[p].at)
    <2>1. p \in DOMAIN inflight /\ inflight[p].call.op = "REISSUE"
          /\ inflight[p].at \in Nat
        BY <1>9, <1>t DEF PublishReissue, Publishing, InFlight
    <2>2. prep[p] \in Preparations
        BY <2>1, GetType DEF TypeOK, GrantHolds
    <2>3. x \in Invitations BY <2>1, <2>2, NewInvitationType
    <2>4. IsDict(invit', Pocs, Invitations)
        BY <1>9, <2>3, PutType DEF PublishReissue, TypeOK
    <2>5. ReissueRequest(prep[p]) \in Requests
        BY <2>2, FingerprintType DEF ReissueRequest, Requests
    <2>6. IsDict(idem', Pocs \X Operations \X Keys, IdemRecords)
        BY <1>9, <2>1, <2>3, <2>5, RememberType DEF PublishReissue, Results
    <2>7. IsDict(inflight', Pocs, InFlight)
        BY <1>9, DropType DEF PublishReissue, Release, TypeOK, InFlight
    <2> QED
        BY <1>9, <2>4, <2>6, <2>7
        DEF PublishReissue, TypeOK, InFlight, IdemRecords
<1>10. ASSUME NEW p \in Pocs, PublishFreeze(p) PROVE TypeOK'
    <2> DEFINE x == [contract |-> prep[p], confirmation |-> conf[p]]
    <2>1. p \in DOMAIN inflight /\ inflight[p].call.op = "FREEZE"
          /\ inflight[p].phase = "publish"
        BY <1>10 DEF PublishFreeze, Publishing
    <2>2. prep[p] \in Preparations
        BY <2>1, GetType DEF TypeOK, GrantHolds
    <2>3. conf[p] \in Confirmations
        BY <2>1, GetType DEF TypeOK, GrantHolds
    <2>4. x \in FrozenContracts BY <2>2, <2>3 DEF FrozenContracts
    <2>5. IsDict(frozen', Pocs, FrozenContracts)
        BY <1>10, <2>4, PutType DEF PublishFreeze, TypeOK
    <2>6. FreezeRequest(prep[p]) \in Requests
        BY <2>2 DEF FreezeRequest, Requests
    <2>7. IsDict(idem', Pocs \X Operations \X Keys, IdemRecords)
        BY <1>10, <2>1, <2>4, <2>6, RememberType DEF PublishFreeze, Results
    <2>8. IsDict(inflight', Pocs, InFlight)
        BY <1>10, DropType DEF PublishFreeze, Release, TypeOK, InFlight
    <2> QED
        BY <1>10, <2>5, <2>7, <2>8
        DEF PublishFreeze, TypeOK, InFlight, IdemRecords
<1> QED
    BY <1>1, <1>2, <1>3, <1>4, <1>5, <1>6, <1>7, <1>8, <1>9, <1>10
    DEF Next, Publish

-----------------------------------------------------------------------------
(***************************************************************************)
(* The safety invariants.  None is inductive alone: publication relies on  *)
(* what Accept checked (GrantHolds), which relies on no other operation of *)
(* the POC being in flight and on decisions, links and preparations moving *)
(* together.                                                               *)
(***************************************************************************)
Inv ==
    /\ TypeOK
    /\ GrantHolds
    /\ DecisionOnWhatWasShown
    /\ FrozenIsConfirmed

\* The invariant holds when the service starts.
LEMMA InvInit == Init => Inv
<1> SUFFICES ASSUME Init PROVE Inv OBVIOUS
<1>1. TypeOK BY TypeInit
<1>2. /\ DOMAIN inflight = {} /\ DOMAIN prep = {} /\ DOMAIN invit = {}
      /\ DOMAIN conf = {} /\ DOMAIN frozen = {}
    BY EmptyType DEF Init
<1> QED
    BY <1>1, <1>2
    DEF Inv, GrantHolds, DecisionOnWhatWasShown, FrozenIsConfirmed

\* A step that leaves the dictionaries alone and adds nothing to the operations
\* in flight keeps the invariant.
LEMMA QuietStep ==
    ASSUME Inv, UNCHANGED svcVars,
           DOMAIN inflight' \subseteq DOMAIN inflight,
           \A p \in DOMAIN inflight' : inflight'[p] = inflight[p]
    PROVE  GrantHolds' /\ DecisionOnWhatWasShown' /\ FrozenIsConfirmed'
<1>1. /\ prep' = prep /\ invit' = invit /\ conf' = conf /\ frozen' = frozen
    BY DEF svcVars
<1>2. GrantHolds'
    BY <1>1 DEF Inv, GrantHolds, RevisionRequested, Matches
<1>3. DecisionOnWhatWasShown' BY <1>1 DEF Inv, DecisionOnWhatWasShown
<1>4. FrozenIsConfirmed' BY <1>1 DEF Inv, FrozenIsConfirmed
<1> QED BY <1>2, <1>3, <1>4

\* Beginning an operation keeps the invariant.
LEMMA BeginStep ==
    ASSUME Inv, NEW p \in Pocs, NEW c \in Calls, Begin(p, c)
    PROVE  GrantHolds' /\ DecisionOnWhatWasShown' /\ FrozenIsConfirmed'
<1>1. /\ prep' = prep /\ invit' = invit /\ conf' = conf /\ frozen' = frozen
    BY DEF Begin, svcVars
<1>2. DecisionOnWhatWasShown' BY <1>1 DEF Inv, DecisionOnWhatWasShown
<1>3. FrozenIsConfirmed' BY <1>1 DEF Inv, FrozenIsConfirmed
<1>4. GrantHolds'
    <2> DEFINE r == [call |-> c, seen |-> inputs[p].ver, phase |-> "read",
                     at |-> 0]
    <2>0. inflight' = Put(inflight, p, r) BY DEF Begin
    <2>3. r.phase = "read" /\ r.call = c OBVIOUS
    <2> HIDE DEF r
    <2>4. /\ DOMAIN Put(inflight, p, r) = DOMAIN inflight \cup {p}
          /\ Put(inflight, p, r)[p] = r
          /\ \A q \in DOMAIN inflight :
                q # p => Put(inflight, p, r)[q] = inflight[q]
        BY ONLY DEF Put
    <2>1. /\ DOMAIN inflight' = DOMAIN inflight \cup {p}
          /\ inflight'[p] = r
          /\ \A q \in DOMAIN inflight : q # p => inflight'[q] = inflight[q]
        BY <2>0, <2>4
    <2>2. c.op # "PREPARE" => p \in DOMAIN prep BY DEF Begin
    <2> QED
        BY <1>1, <2>1, <2>2, <2>3 DEF Inv, GrantHolds, RevisionRequested, Matches
<1> QED BY <1>2, <1>3, <1>4

\* Passing every check establishes what publication relies on.
LEMMA AcceptStep ==
    ASSUME Inv, NEW p \in Pocs, Accept(p)
    PROVE  GrantHolds' /\ DecisionOnWhatWasShown' /\ FrozenIsConfirmed'
<1>1. /\ prep' = prep /\ invit' = invit /\ conf' = conf /\ frozen' = frozen
    BY DEF Accept, svcVars
<1>2. DecisionOnWhatWasShown' BY <1>1 DEF Inv, DecisionOnWhatWasShown
<1>3. FrozenIsConfirmed' BY <1>1 DEF Inv, FrozenIsConfirmed
<1>4. GrantHolds'
    <2> DEFINE c == inflight[p].call
    <2>1. /\ p \in DOMAIN inflight
          /\ DOMAIN inflight' = DOMAIN inflight
          /\ inflight'[p].call = c /\ inflight'[p].seen = inflight[p].seen
          /\ \A q \in DOMAIN inflight : q # p => inflight'[q] = inflight[q]
        BY DEF Accept, Reading
    <2>2. Admissible(p, c) /\ Permitted(p, c) BY DEF Accept, Granted
    <2>3. /\ c.op = "PREPARE" => p \notin DOMAIN prep
          /\ c.op = "DECISION" => p \notin DOMAIN conf /\ invit[p].id = c.link
          /\ c.op = "START_REVISION" =>
                RevisionRequested(p) /\ prep[p].input # inflight[p].seen
          /\ c.op = "REISSUE" => p \notin DOMAIN conf
          /\ c.op = "FREEZE" =>
                p \in DOMAIN conf /\ p \notin DOMAIN frozen /\ Matches(p)
        BY <2>2 DEF Admissible, Permitted, Stable, Undecided, MateriallyChanged
    <2>4. c.op # "PREPARE" => p \in DOMAIN prep
        BY <2>1 DEF Inv, GrantHolds
    <2> QED
        BY <1>1, <2>1, <2>3, <2>4 DEF Inv, GrantHolds, RevisionRequested, Matches
<1> QED BY <1>2, <1>3, <1>4

\* Publication for p releases the guard of p and touches no other POC, so only
\* the entries of p have to be looked at.
LEMMA PublishStep ==
    ASSUME Inv, NEW p \in Pocs,
           inflight' = Drop(inflight, p),
           AgreeBut(prep, prep', p), AgreeBut(invit, invit', p),
           AgreeBut(conf, conf', p), AgreeBut(frozen, frozen', p),
           p \in DOMAIN prep' /\ p \in DOMAIN invit',
           invit'[p].fp = Fingerprint(prep'[p]),
           p \in DOMAIN conf' =>
                /\ conf'[p].link = invit'[p].id
                /\ conf'[p].fp = Fingerprint(prep'[p]),
           p \in DOMAIN frozen' =>
                /\ p \in DOMAIN conf' /\ conf'[p].decision = "CONFIRM"
                /\ frozen'[p].contract = prep'[p]
                /\ frozen'[p].confirmation = conf'[p]
    PROVE  GrantHolds' /\ DecisionOnWhatWasShown' /\ FrozenIsConfirmed'
<1>1. GrantHolds'
    <2>1. /\ DOMAIN Drop(inflight, p) = DOMAIN inflight \ {p}
          /\ \A q \in DOMAIN inflight :
                q # p => Drop(inflight, p)[q] = inflight[q]
        BY ONLY DropFacts
    <2> QED
        BY <2>1
        DEF AgreeBut, Inv, DecisionOnWhatWasShown, GrantHolds, RevisionRequested, Matches
<1>2. DecisionOnWhatWasShown'
    BY DEF AgreeBut, Inv, DecisionOnWhatWasShown
<1>3. FrozenIsConfirmed'
    BY DEF AgreeBut, Inv, FrozenIsConfirmed
<1> QED BY <1>1, <1>2, <1>3

\* Publishing the first version keeps the invariant.
LEMMA PrepareStep ==
    ASSUME Inv, NEW p \in Pocs, PublishPrepare(p)
    PROVE  GrantHolds' /\ DecisionOnWhatWasShown' /\ FrozenIsConfirmed'
<1> DEFINE x == [version |-> 1, input |-> inflight[p].seen,
                 body |-> inflight[p].call.body, at |-> now]
           v == NewInvitation(x, now)
<1>1. /\ prep' = Put(prep, p, x) /\ invit' = Put(invit, p, v)
      /\ conf' = conf /\ frozen' = frozen /\ inflight' = Drop(inflight, p)
    BY DEF PublishPrepare, Release
<1>2. v.fp = Fingerprint(x) BY DEF NewInvitation
<1> HIDE DEF x, v
<1>3. p \in DOMAIN prep' /\ prep'[p] = x /\ p \in DOMAIN invit' /\ invit'[p] = v
    BY <1>1 DEF Put
<1>4. AgreeBut(prep, prep', p) /\ AgreeBut(invit, invit', p)
    BY <1>1, PutElsewhere
<1>5. AgreeBut(conf, conf', p) /\ AgreeBut(frozen, frozen', p)
    BY <1>1, SameElsewhere
<1>6. p \notin DOMAIN prep
    BY DEF PublishPrepare, Publishing, Inv, GrantHolds
<1>7. p \notin DOMAIN conf /\ p \notin DOMAIN frozen
    BY <1>6 DEF Inv, DecisionOnWhatWasShown, FrozenIsConfirmed
<1> QED BY <1>1, <1>2, <1>3, <1>4, <1>5, <1>7, PublishStep

\* Publishing a decision keeps the invariant.
LEMMA DecisionStep ==
    ASSUME Inv, NEW p \in Pocs, PublishDecision(p)
    PROVE  GrantHolds' /\ DecisionOnWhatWasShown' /\ FrozenIsConfirmed'
<1> DEFINE c == inflight[p].call
           x == [fp |-> Fingerprint(prep[p]), decision |-> c.decision,
                 key |-> c.key, body |-> c.body, link |-> c.link, at |-> now]
<1>1. /\ prep' = prep /\ invit' = invit /\ conf' = Put(conf, p, x)
      /\ frozen' = frozen /\ inflight' = Drop(inflight, p)
    BY DEF PublishDecision, Release
<1>2. x.fp = Fingerprint(prep[p]) /\ x.link = c.link OBVIOUS
<1> HIDE DEF x
<1>3. /\ p \in DOMAIN prep /\ p \notin DOMAIN conf /\ invit[p].id = c.link
    BY DEF PublishDecision, Publishing, Inv, GrantHolds
<1>4. p \in DOMAIN invit /\ invit[p].fp = Fingerprint(prep[p])
    BY <1>3 DEF Inv, DecisionOnWhatWasShown
<1>5. p \notin DOMAIN frozen
    BY <1>3 DEF Inv, FrozenIsConfirmed
<1>6. p \in DOMAIN conf' /\ conf'[p] = x
    BY <1>1 DEF Put
<1>7. /\ AgreeBut(conf, conf', p) /\ AgreeBut(prep, prep', p)
      /\ AgreeBut(invit, invit', p) /\ AgreeBut(frozen, frozen', p)
    BY <1>1, PutElsewhere, SameElsewhere
<1> QED BY <1>1, <1>2, <1>3, <1>4, <1>5, <1>6, <1>7, PublishStep

\* Publishing a revision keeps the invariant.
LEMMA RevisionStep ==
    ASSUME Inv, NEW p \in Pocs, PublishRevision(p)
    PROVE  GrantHolds' /\ DecisionOnWhatWasShown' /\ FrozenIsConfirmed'
<1> DEFINE x == [version |-> prep[p].version + 1, input |-> inflight[p].seen,
                 body |-> inflight[p].call.body, at |-> now]
           v == NewInvitation(x, now)
<1>1. /\ prep' = Put(prep, p, x) /\ invit' = Put(invit, p, v)
      /\ conf' = Drop(conf, p) /\ frozen' = Drop(frozen, p)
      /\ inflight' = Drop(inflight, p)
    BY DEF PublishRevision, Release
<1>2. v.fp = Fingerprint(x) BY DEF NewInvitation
<1> HIDE DEF x, v
<1>3. p \in DOMAIN prep' /\ prep'[p] = x /\ p \in DOMAIN invit' /\ invit'[p] = v
    BY <1>1 DEF Put
<1>4. p \notin DOMAIN conf' /\ p \notin DOMAIN frozen'
    BY <1>1 DEF Drop
<1>5. /\ AgreeBut(prep, prep', p) /\ AgreeBut(invit, invit', p)
    BY <1>1, PutElsewhere
<1>6. /\ AgreeBut(conf, conf', p) /\ AgreeBut(frozen, frozen', p)
    BY <1>1, DropElsewhere
<1> QED BY <1>1, <1>2, <1>3, <1>4, <1>5, <1>6, PublishStep

\* Publishing a fresh link keeps the invariant.
LEMMA ReissueStep ==
    ASSUME Inv, NEW p \in Pocs, PublishReissue(p)
    PROVE  GrantHolds' /\ DecisionOnWhatWasShown' /\ FrozenIsConfirmed'
<1> DEFINE v == NewInvitation(prep[p], inflight[p].at)
<1>1. /\ prep' = prep /\ invit' = Put(invit, p, v)
      /\ conf' = conf /\ frozen' = frozen /\ inflight' = Drop(inflight, p)
    BY DEF PublishReissue, Release
<1>2. v.fp = Fingerprint(prep[p]) BY DEF NewInvitation
<1> HIDE DEF v
<1>3. p \in DOMAIN prep /\ p \notin DOMAIN conf
    BY DEF PublishReissue, Publishing, Inv, GrantHolds
<1>4. p \notin DOMAIN frozen BY <1>3 DEF Inv, FrozenIsConfirmed
<1>5. p \in DOMAIN invit' /\ invit'[p] = v BY <1>1 DEF Put
<1>6. /\ AgreeBut(invit, invit', p) /\ AgreeBut(prep, prep', p)
      /\ AgreeBut(conf, conf', p) /\ AgreeBut(frozen, frozen', p)
    BY <1>1, PutElsewhere, SameElsewhere
<1> QED BY <1>1, <1>2, <1>3, <1>4, <1>5, <1>6, PublishStep

\* Publishing a frozen contract keeps the invariant.
LEMMA FreezeStep ==
    ASSUME Inv, NEW p \in Pocs, PublishFreeze(p)
    PROVE  GrantHolds' /\ DecisionOnWhatWasShown' /\ FrozenIsConfirmed'
<1> DEFINE x == [contract |-> prep[p], confirmation |-> conf[p]]
<1>1. /\ prep' = prep /\ invit' = invit /\ conf' = conf
      /\ frozen' = Put(frozen, p, x) /\ inflight' = Drop(inflight, p)
    BY DEF PublishFreeze, Release
<1>2. x.contract = prep[p] /\ x.confirmation = conf[p] OBVIOUS
<1> HIDE DEF x
<1>3. p \in DOMAIN prep /\ p \in DOMAIN conf /\ Matches(p)
    BY DEF PublishFreeze, Publishing, Inv, GrantHolds
<1>4. /\ p \in DOMAIN invit /\ invit[p].fp = Fingerprint(prep[p])
      /\ conf[p].link = invit[p].id /\ conf[p].fp = Fingerprint(prep[p])
    BY <1>3 DEF Inv, DecisionOnWhatWasShown
<1>5. p \in DOMAIN frozen' /\ frozen'[p] = x BY <1>1 DEF Put
<1>6. /\ AgreeBut(invit, invit', p) /\ AgreeBut(prep, prep', p)
      /\ AgreeBut(conf, conf', p) /\ AgreeBut(frozen, frozen', p)
    BY <1>1, PutElsewhere, SameElsewhere
<1> QED BY <1>1, <1>2, <1>3, <1>4, <1>5, <1>6, PublishStep DEF Matches

-----------------------------------------------------------------------------
\* Every step keeps the invariant.
LEMMA InvNext == Inv /\ [Next]_vars => Inv'
<1> SUFFICES ASSUME Inv, [Next]_vars PROVE Inv'
    OBVIOUS
<1>t. TypeOK' BY TypeNext DEF Inv
<1>s. SUFFICES GrantHolds' /\ DecisionOnWhatWasShown' /\ FrozenIsConfirmed'
    BY <1>t DEF Inv
<1>1. CASE UNCHANGED vars
    BY <1>1, QuietStep DEF vars, svcVars
<1>2. CASE Environment
    BY <1>2, QuietStep DEF Environment, Tick, NewPlan, ToggleInputs
<1>3. ASSUME NEW p \in Pocs, NEW k \in Keys, Call(p, k)
      PROVE  GrantHolds' /\ DecisionOnWhatWasShown' /\ FrozenIsConfirmed'
    BY <1>3, CallBegins, BeginStep DEF Inv
<1>4. ASSUME NEW p \in Pocs, Fail(p) \/ Reject(p) \/ Replay(p)
      PROVE  GrantHolds' /\ DecisionOnWhatWasShown' /\ FrozenIsConfirmed'
    <2>1. UNCHANGED svcVars /\ inflight' = Drop(inflight, p)
        BY <1>4 DEF Fail, Reject, Replay, Finish, Release
    <2>2. /\ DOMAIN inflight' \subseteq DOMAIN inflight
          /\ \A q \in DOMAIN inflight' : inflight'[q] = inflight[q]
        BY <2>1 DEF Drop
    <2> QED BY <2>1, <2>2, QuietStep
<1>5. ASSUME NEW p \in Pocs, Accept(p)
      PROVE  GrantHolds' /\ DecisionOnWhatWasShown' /\ FrozenIsConfirmed'
    BY <1>5, AcceptStep
<1>6. ASSUME NEW p \in Pocs, Publish(p)
      PROVE  GrantHolds' /\ DecisionOnWhatWasShown' /\ FrozenIsConfirmed'
    BY <1>6, PrepareStep, DecisionStep, RevisionStep, ReissueStep, FreezeStep
    DEF Publish
<1> QED BY <1>1, <1>2, <1>3, <1>4, <1>5, <1>6 DEF Next, Validate

\* The invariant holds throughout every behaviour of the service.
THEOREM Invariant == Spec => []Inv
BY InvInit, InvNext, PTL DEF Spec

\* Type correctness of every dictionary of the service.
THEOREM TypeCorrect == Spec => []TypeOK
<1>1. Inv => TypeOK BY DEF Inv
<1> QED BY Invariant, <1>1, PTL

\* What an operation checked before it released the lock still holds when it
\* publishes.
THEOREM ChecksStillHold == Spec => []GrantHolds
<1>1. Inv => GrantHolds BY DEF Inv
<1> QED BY Invariant, <1>1, PTL

\* The link, the decision and the contract of a POC always belong together.
THEOREM DecisionsAreOnWhatWasShown == Spec => []DecisionOnWhatWasShown
<1>1. Inv => DecisionOnWhatWasShown BY DEF Inv
<1> QED BY Invariant, <1>1, PTL

\* No contract is frozen without the customer's confirmation of exactly it.
THEOREM FrozenOnlyIfConfirmed == Spec => []FrozenIsConfirmed
<1>1. Inv => FrozenIsConfirmed BY DEF Inv
<1> QED BY Invariant, <1>1, PTL

-----------------------------------------------------------------------------
\* No operation publishes for a frozen POC, and publication for one POC does
\* not touch another.
LEMMA PublishesElsewhere ==
    ASSUME Inv, NEW p \in Pocs, Publish(p)
    PROVE  /\ p \notin DOMAIN frozen
           /\ AgreeBut(prep, prep', p) /\ AgreeBut(invit, invit', p)
           /\ AgreeBut(conf, conf', p) /\ AgreeBut(frozen, frozen', p)
<1>1. p \notin DOMAIN frozen
    <2>1. p \in DOMAIN inflight /\ inflight[p].phase = "publish"
          /\ inflight[p].call.op \in Operations
        BY DEF Publish, PublishPrepare, PublishDecision, PublishRevision,
               PublishReissue, PublishFreeze, Publishing, Operations
    <2> QED
        BY <2>1
        DEF Inv, GrantHolds, FrozenIsConfirmed, RevisionRequested, Operations
<1>2. CASE PublishPrepare(p)
    BY <1>1, <1>2, PutElsewhere, SameElsewhere DEF PublishPrepare
<1>3. CASE PublishDecision(p)
    BY <1>1, <1>3, PutElsewhere, SameElsewhere DEF PublishDecision
<1>4. CASE PublishRevision(p)
    BY <1>1, <1>4, PutElsewhere, DropElsewhere DEF PublishRevision
<1>5. CASE PublishReissue(p)
    BY <1>1, <1>5, PutElsewhere, SameElsewhere DEF PublishReissue
<1>6. CASE PublishFreeze(p)
    BY <1>1, <1>6, PutElsewhere, SameElsewhere DEF PublishFreeze
<1> QED BY <1>2, <1>3, <1>4, <1>5, <1>6 DEF Publish

\* A step changes nothing of a frozen POC.
LEMMA FrozenStep == Inv /\ [Next]_vars => FrozenStays
<1> SUFFICES ASSUME Inv, [Next]_vars, NEW q \in DOMAIN frozen
             PROVE  /\ q \in DOMAIN frozen' /\ frozen'[q] = frozen[q]
                    /\ q \in DOMAIN prep' /\ prep'[q] = prep[q]
                    /\ q \in DOMAIN conf' /\ conf'[q] = conf[q]
                    /\ q \in DOMAIN invit' /\ invit'[q] = invit[q]
    BY DEF FrozenStays
<1>1. q \in DOMAIN prep /\ q \in DOMAIN conf /\ q \in DOMAIN invit
    BY DEF Inv, FrozenIsConfirmed, DecisionOnWhatWasShown
<1>2. CASE UNCHANGED <<prep, invit, conf, frozen>>
    BY <1>1, <1>2
<1>3. ASSUME NEW p \in Pocs, Publish(p)
      PROVE  /\ q \in DOMAIN frozen' /\ frozen'[q] = frozen[q]
             /\ q \in DOMAIN prep' /\ prep'[q] = prep[q]
             /\ q \in DOMAIN conf' /\ conf'[q] = conf[q]
             /\ q \in DOMAIN invit' /\ invit'[q] = invit[q]
    BY <1>1, <1>3, PublishesElsewhere DEF AgreeBut
<1>4. CASE Environment
    BY <1>2, <1>4 DEF Environment, Tick, NewPlan, ToggleInputs, svcVars
<1>5. ASSUME NEW p \in Pocs, NEW k \in Keys, Call(p, k)
      PROVE  UNCHANGED <<prep, invit, conf, frozen>>
    BY <1>5, CallBegins DEF Begin, svcVars, Inv
<1>6. ASSUME NEW p \in Pocs, Validate(p) \/ Fail(p)
      PROVE  UNCHANGED <<prep, invit, conf, frozen>>
    BY <1>6 DEF Validate, Reject, Replay, Accept, Fail, Finish, svcVars
<1> QED BY <1>2, <1>3, <1>4, <1>5, <1>6 DEF Next, vars

\* A freeze is final: no operation alters a frozen contract, its confirmation,
\* its preparation or its link.
THEOREM FreezeIsFinal == Spec => FrozenIsForever
BY Invariant, FrozenStep, PTL DEF Spec, FrozenIsForever

-----------------------------------------------------------------------------
(***************************************************************************)
(* History and replays.  Both are invariants of one POC at a time: the     *)
(* chain of its versions, what the call in flight has read, and what its   *)
(* remembered answers still stand for.  The last two are the strengthening *)
(* that HistoryIsFaithful needs: a revision publishes what an earlier step *)
(* read, and a stored answer is compared with inputs that have moved on.   *)
(***************************************************************************)
ChainAt(p) ==
    /\ \A i \in DOMAIN hist[p] :
        /\ hist[p][i].contract.version = i
        /\ hist[p][i].confirmation.decision = "REQUEST_CHANGES"
        /\ hist[p][i].confirmation.fp = Fingerprint(hist[p][i].contract)
        /\ i > 1 => hist[p][i-1].contract.input < hist[p][i].contract.input
    /\ hist[p] # <<>> =>
        /\ p \in DOMAIN prep
        /\ hist[p][Len(hist[p])].contract.input < prep[p].input
    /\ p \in DOMAIN prep =>
        /\ prep[p].version = Len(hist[p]) + 1
        /\ prep[p].input <= inputs[p].ver

\* The inputs a call has read are no newer than the inputs, and no older than
\* the version it works on.
SeenAt(p) ==
    p \in DOMAIN inflight =>
        /\ inflight[p].seen <= inputs[p].ver
        /\ inflight[p].call.op # "PREPARE" => prep[p].input <= inflight[p].seen

\* An answer is the current value, or its request has been overtaken.
AnswerAt(k, p) ==
    /\ p \in DOMAIN prep
    /\ k[2] = "PREPARE" =>
        /\ idem[k].req.input \in Nat
        /\ \/ idem[k].req.input < prep[p].input
           \/ idem[k].req.input = prep[p].input /\ prep[p] = idem[k].result
    /\ k[2] = "DECISION" =>
        /\ idem[k].req.fp.version \in Nat
        /\ idem[k].req.fp.version <= prep[p].version
        /\ idem[k].req.fp = Fingerprint(prep[p]) =>
              p \in DOMAIN conf /\ conf[p] = idem[k].result
    /\ k[2] = "FREEZE" =>
        /\ idem[k].req.draft.version \in Nat
        /\ idem[k].req.draft.version <= prep[p].version
        /\ idem[k].req.draft = prep[p] =>
              p \in DOMAIN frozen /\ frozen[p] = idem[k].result

AnswersAt(p) == \A k \in DOMAIN idem : k[1] = p => AnswerAt(k, p)

FullInv == Inv /\ \A p \in Pocs : ChainAt(p) /\ SeenAt(p) /\ AnswersAt(p)

\* What a preparation is made of.
LEMMA PrepType ==
    ASSUME TypeOK, NEW p \in DOMAIN prep
    PROVE  p \in Pocs /\ prep[p] \in Preparations
           /\ prep[p].version \in Nat /\ prep[p].input \in Nat
<1>1. IsDict(prep, Pocs, Preparations) BY DEF TypeOK
<1>2. p \in Pocs /\ prep[p] \in Preparations BY <1>1, GetType
<1> QED BY <1>2 DEF Preparations

\* What a call in flight is made of.
LEMMA FlightType ==
    ASSUME TypeOK, NEW p \in DOMAIN inflight
    PROVE  p \in Pocs /\ inflight[p].seen \in Nat /\ inflight[p].call \in Calls
<1>1. IsDict(inflight, Pocs, InFlight) BY DEF TypeOK, InFlight
<1>2. p \in Pocs /\ inflight[p] \in InFlight BY <1>1, GetType
<1> QED BY <1>2 DEF InFlight

\* The full invariant holds when the service starts.
LEMMA FullInit == Init => FullInv
<1> SUFFICES ASSUME Init PROVE FullInv OBVIOUS
<1>1. Inv BY InvInit
<1>2. /\ DOMAIN inflight = {} /\ DOMAIN prep = {} /\ DOMAIN idem = {}
    BY EmptyType DEF Init
<1>3. ASSUME NEW p \in Pocs PROVE ChainAt(p) /\ SeenAt(p) /\ AnswersAt(p)
    <2>1. hist[p] = <<>> BY DEF Init
    <2> QED BY <1>2, <2>1 DEF ChainAt, SeenAt, AnswersAt
<1> QED BY <1>1, <1>3 DEF FullInv

\* A step that leaves the dictionaries of a POC alone keeps its history and its
\* answers, however its inputs move on.
LEMMA Untouched ==
    ASSUME FullInv, NEW q \in Pocs,
           q \in DOMAIN prep' <=> q \in DOMAIN prep,
           q \in DOMAIN prep => prep'[q] = prep[q],
           q \in DOMAIN conf => q \in DOMAIN conf' /\ conf'[q] = conf[q],
           q \in DOMAIN frozen => q \in DOMAIN frozen' /\ frozen'[q] = frozen[q],
           hist'[q] = hist[q],
           inputs[q].ver <= inputs'[q].ver, inputs'[q].ver \in Nat,
           \A k \in DOMAIN idem' : k[1] = q => k \in DOMAIN idem /\ idem'[k] = idem[k]
    PROVE  ChainAt(q)' /\ AnswersAt(q)'
<1>1. TypeOK /\ ChainAt(q) /\ AnswersAt(q) BY DEF FullInv, Inv
<1>2. inputs[q].ver \in Nat BY <1>1 DEF TypeOK
<1>3. ChainAt(q)' BY <1>1, <1>2, PrepType DEF ChainAt
<1>4. ASSUME NEW k \in DOMAIN idem', k[1] = q PROVE AnswerAt(k, q)'
    <2>1. k \in DOMAIN idem /\ idem'[k] = idem[k] /\ AnswerAt(k, q)
        BY <1>1, <1>4 DEF AnswersAt
    <2>2. q \in DOMAIN prep /\ q \in DOMAIN prep' /\ prep'[q] = prep[q]
        BY <2>1 DEF AnswerAt
    <2> QED BY <2>1, <2>2 DEF AnswerAt
<1> QED BY <1>3, <1>4 DEF AnswersAt

\* A step that publishes nothing keeps history and answers of every POC.
LEMMA QuietFull ==
    ASSUME FullInv, UNCHANGED svcVars, TypeOK',
           \A q \in Pocs : inputs[q].ver <= inputs'[q].ver,
           NEW q \in Pocs
    PROVE  ChainAt(q)' /\ AnswersAt(q)'
<1>1. /\ prep' = prep /\ conf' = conf /\ frozen' = frozen
      /\ hist' = hist /\ idem' = idem
    BY DEF svcVars
<1>2. inputs'[q].ver \in Nat BY DEF TypeOK
<1> QED BY <1>1, <1>2, Untouched

\* A call that was in flight before the step has read what it had read.
LEMMA SeenStays ==
    ASSUME FullInv, TypeOK', NEW q \in Pocs, inputs[q].ver <= inputs'[q].ver,
           q \in DOMAIN inflight' =>
                /\ q \in DOMAIN inflight
                /\ inflight'[q].seen = inflight[q].seen
                /\ inflight'[q].call = inflight[q].call,
           q \in DOMAIN prep => prep'[q] = prep[q]
    PROVE  SeenAt(q)'
<1> SUFFICES ASSUME q \in DOMAIN inflight'
             PROVE  /\ inflight'[q].seen <= inputs'[q].ver
                    /\ inflight'[q].call.op # "PREPARE" => prep'[q].input <= inflight'[q].seen
    BY DEF SeenAt
<1>1. TypeOK /\ SeenAt(q) /\ GrantHolds BY DEF FullInv, Inv
<1>2. inflight[q].seen \in Nat BY <1>1, FlightType
<1>3. inputs[q].ver \in Nat /\ inputs'[q].ver \in Nat BY <1>1 DEF TypeOK
<1>4. inflight[q].call.op # "PREPARE" => q \in DOMAIN prep BY <1>1 DEF GrantHolds
<1> QED BY <1>1, <1>2, <1>3, <1>4 DEF SeenAt

\* Publication for p keeps what the other POCs have.
LEMMA PublishFullElsewhere ==
    ASSUME FullInv, TypeOK', NEW p \in Pocs, Publish(p), NEW q \in Pocs, q # p
    PROVE  ChainAt(q)' /\ SeenAt(q)' /\ AnswersAt(q)'
<1>1. Inv BY DEF FullInv
<1>2. /\ AgreeBut(prep, prep', p) /\ AgreeBut(conf, conf', p)
      /\ AgreeBut(frozen, frozen', p)
    BY <1>1, PublishesElsewhere
<1>3. inputs' = inputs /\ inflight' = Drop(inflight, p)
    BY DEF Publish, PublishPrepare, PublishDecision, PublishRevision,
           PublishReissue, PublishFreeze, Release
<1>4. PICK r : idem' = Put(idem, OpKey(p, inflight[p].call), r)
    BY DEF Publish, PublishPrepare, PublishDecision, PublishRevision,
           PublishReissue, PublishFreeze, Remember
<1>5. hist'[q] = hist[q]
    BY <1>1 DEF Publish, PublishPrepare, PublishDecision, PublishRevision,
           PublishReissue, PublishFreeze, Inv, TypeOK
<1>6. inputs[q].ver \in Nat BY <1>1 DEF Inv, TypeOK
<1>7. \A k \in DOMAIN idem' : k[1] = q => k \in DOMAIN idem /\ idem'[k] = idem[k]
    <2>1. OpKey(p, inflight[p].call)[1] = p BY DEF OpKey
    <2> QED BY <1>4, <2>1 DEF Put
<1>8. ChainAt(q)' /\ AnswersAt(q)'
    BY <1>2, <1>3, <1>5, <1>6, <1>7, Untouched DEF AgreeBut
<1>9. q \in DOMAIN inflight' => q \in DOMAIN inflight /\ inflight'[q] = inflight[q]
    BY <1>3, DropFacts
<1>10. SeenAt(q)'
    BY <1>2, <1>3, <1>6, <1>9, SeenStays DEF AgreeBut
<1> QED BY <1>8, <1>10

\* What was published for p is remembered under the key of its call; the other
\* answers are the ones there were.
LEMMA Remembered ==
    ASSUME NEW p, NEW req, NEW x, Remember(p, req, x),
           NEW k \in DOMAIN idem', k[1] = p
    PROVE  \/ /\ k = OpKey(p, inflight[p].call) /\ k[2] = inflight[p].call.op
              /\ idem'[k].req = req /\ idem'[k].result = x
           \/ k \in DOMAIN idem /\ idem'[k] = idem[k]
<1> DEFINE r == [req |-> req, result |-> x]
           o == OpKey(p, inflight[p].call)
<1>1. idem' = Put(idem, o, r) BY DEF Remember
<1>2. r.req = req /\ r.result = x OBVIOUS
<1>3. o[2] = inflight[p].call.op BY DEF OpKey
<1> HIDE DEF r, o
<1>4. k = o => idem'[k] = r BY <1>1 DEF Put
<1>5. k # o => k \in DOMAIN idem /\ idem'[k] = idem[k] BY <1>1 DEF Put
<1> QED BY <1>2, <1>3, <1>4, <1>5 DEF o

\* Publishing the first version: there is no history and no answer yet.
LEMMA PrepareFull ==
    ASSUME FullInv, TypeOK', NEW p \in Pocs, PublishPrepare(p)
    PROVE  ChainAt(p)' /\ AnswersAt(p)'
<1> DEFINE x == [version |-> 1, input |-> inflight[p].seen,
                 body |-> inflight[p].call.body, at |-> now]
           req == AssemblyRequest(inflight[p].call, inflight[p].seen)
<1>1. /\ TypeOK /\ GrantHolds /\ ChainAt(p) /\ SeenAt(p) /\ AnswersAt(p)
    BY DEF FullInv, Inv
<1>2. /\ p \in DOMAIN inflight /\ inflight[p].call.op = "PREPARE"
      /\ p \notin DOMAIN prep /\ prep' = Put(prep, p, x)
      /\ hist' = hist /\ inputs' = inputs /\ Remember(p, req, x)
    BY <1>1 DEF PublishPrepare, Publishing, GrantHolds
<1>3. /\ x.version = 1 /\ x.input = inflight[p].seen /\ req.input = inflight[p].seen
    BY DEF AssemblyRequest
<1>4. inflight[p].seen \in Nat /\ inflight[p].seen <= inputs[p].ver
    BY <1>1, <1>2, FlightType DEF SeenAt
<1> HIDE DEF x, req
<1>5. p \in DOMAIN prep' /\ prep'[p] = x BY <1>2 DEF Put
<1>6. hist[p] = <<>> BY <1>1, <1>2 DEF ChainAt
<1>7. ChainAt(p)' BY <1>2, <1>3, <1>4, <1>5, <1>6 DEF ChainAt
<1>8. ASSUME NEW k \in DOMAIN idem', k[1] = p PROVE AnswerAt(k, p)'
    <2>1. k \notin DOMAIN idem BY <1>1, <1>2, <1>8 DEF AnswersAt, AnswerAt
    <2>2. k[2] = "PREPARE" /\ idem'[k].req = req /\ idem'[k].result = x
        BY <1>2, <1>8, <2>1, Remembered
    <2> QED BY <1>3, <1>4, <1>5, <2>2 DEF AnswerAt
<1> QED BY <1>7, <1>8 DEF AnswersAt

\* Publishing a decision: no earlier answer was a decision on this version.
LEMMA DecisionFull ==
    ASSUME FullInv, TypeOK', NEW p \in Pocs, PublishDecision(p)
    PROVE  ChainAt(p)' /\ AnswersAt(p)'
<1> DEFINE c == inflight[p].call
           x == [fp |-> Fingerprint(prep[p]), decision |-> c.decision,
                 key |-> c.key, body |-> c.body, link |-> c.link, at |-> now]
           req == DecisionRequest(c, prep[p])
<1>1. /\ TypeOK /\ GrantHolds /\ ChainAt(p) /\ AnswersAt(p)
    BY DEF FullInv, Inv
<1>2. /\ p \in DOMAIN prep /\ p \notin DOMAIN conf /\ c.op = "DECISION"
      /\ conf' = Put(conf, p, x) /\ prep' = prep /\ frozen' = frozen
      /\ hist' = hist /\ inputs' = inputs /\ Remember(p, req, x)
    BY <1>1 DEF PublishDecision, Publishing, GrantHolds
<1>3. req.fp = Fingerprint(prep[p]) /\ req.fp.version = prep[p].version
    BY DEF DecisionRequest, Fingerprint
<1> HIDE DEF x, req
<1>4. p \in DOMAIN conf' /\ conf'[p] = x BY <1>2 DEF Put
<1>5. prep[p].version \in Nat BY <1>1, <1>2, PrepType
<1>6. ChainAt(p)' BY <1>1, <1>2 DEF ChainAt
<1>7. ASSUME NEW k \in DOMAIN idem', k[1] = p PROVE AnswerAt(k, p)'
    <2>1. CASE k \in DOMAIN idem /\ idem'[k] = idem[k]
        BY <1>1, <1>2, <1>7, <2>1 DEF AnswersAt, AnswerAt
    <2>2. CASE k[2] = "DECISION" /\ idem'[k].req = req /\ idem'[k].result = x
        BY <1>2, <1>3, <1>4, <1>5, <2>2 DEF AnswerAt
    <2> QED BY <1>2, <1>7, <2>1, <2>2, Remembered
<1> QED BY <1>6, <1>7 DEF AnswersAt

\* Publishing a link: nothing an answer stands for changes.
LEMMA ReissueFull ==
    ASSUME FullInv, TypeOK', NEW p \in Pocs, PublishReissue(p)
    PROVE  ChainAt(p)' /\ AnswersAt(p)'
<1> DEFINE x == NewInvitation(prep[p], inflight[p].at)
           req == ReissueRequest(prep[p])
<1>1. /\ GrantHolds /\ ChainAt(p) /\ AnswersAt(p) BY DEF FullInv, Inv
<1>2. /\ p \in DOMAIN prep /\ inflight[p].call.op = "REISSUE"
      /\ conf' = conf /\ prep' = prep /\ frozen' = frozen
      /\ hist' = hist /\ inputs' = inputs /\ Remember(p, req, x)
    BY <1>1 DEF PublishReissue, Publishing, GrantHolds
<1> HIDE DEF x, req
<1>3. ChainAt(p)' BY <1>1, <1>2 DEF ChainAt
<1>4. ASSUME NEW k \in DOMAIN idem', k[1] = p PROVE AnswerAt(k, p)'
    <2>1. CASE k \in DOMAIN idem /\ idem'[k] = idem[k]
        BY <1>1, <1>2, <1>4, <2>1 DEF AnswersAt, AnswerAt
    <2>2. CASE k[2] = "REISSUE"
        BY <1>2, <2>2 DEF AnswerAt
    <2> QED BY <1>2, <1>4, <2>1, <2>2, Remembered
<1> QED BY <1>3, <1>4 DEF AnswersAt

\* Publishing a frozen contract: no earlier answer was a freeze of this version.
LEMMA FreezeFull ==
    ASSUME FullInv, TypeOK', NEW p \in Pocs, PublishFreeze(p)
    PROVE  ChainAt(p)' /\ AnswersAt(p)'
<1> DEFINE x == [contract |-> prep[p], confirmation |-> conf[p]]
           req == FreezeRequest(prep[p])
<1>1. /\ TypeOK /\ GrantHolds /\ ChainAt(p) /\ AnswersAt(p)
    BY DEF FullInv, Inv
<1>2. /\ p \in DOMAIN prep /\ p \notin DOMAIN frozen /\ inflight[p].call.op = "FREEZE"
      /\ frozen' = Put(frozen, p, x) /\ prep' = prep /\ conf' = conf
      /\ hist' = hist /\ inputs' = inputs /\ Remember(p, req, x)
    BY <1>1 DEF PublishFreeze, Publishing, GrantHolds
<1>3. req.draft = prep[p] BY DEF FreezeRequest
<1> HIDE DEF x, req
<1>4. p \in DOMAIN frozen' /\ frozen'[p] = x BY <1>2 DEF Put
<1>5. prep[p].version \in Nat BY <1>1, <1>2, PrepType
<1>6. ChainAt(p)' BY <1>1, <1>2 DEF ChainAt
<1>7. ASSUME NEW k \in DOMAIN idem', k[1] = p PROVE AnswerAt(k, p)'
    <2>1. CASE k \in DOMAIN idem /\ idem'[k] = idem[k]
        BY <1>1, <1>2, <1>7, <2>1 DEF AnswersAt, AnswerAt
    <2>2. CASE k[2] = "FREEZE" /\ idem'[k].req = req /\ idem'[k].result = x
        BY <1>2, <1>3, <1>4, <1>5, <2>2 DEF AnswerAt
    <2> QED BY <1>2, <1>7, <2>1, <2>2, Remembered
<1> QED BY <1>6, <1>7 DEF AnswersAt

\* Publishing a revision: the chain grows by the version that the customer sent
\* back, and every answer about it is overtaken.
LEMMA RevisionFull ==
    ASSUME FullInv, TypeOK', NEW p \in Pocs, PublishRevision(p)
    PROVE  ChainAt(p)' /\ AnswersAt(p)'
<1> DEFINE x == [version |-> prep[p].version + 1, input |-> inflight[p].seen,
                 body |-> inflight[p].call.body, at |-> now]
           old == [contract |-> prep[p], confirmation |-> conf[p]]
           req == AssemblyRequest(inflight[p].call, inflight[p].seen)
<1>1. /\ TypeOK /\ GrantHolds /\ DecisionOnWhatWasShown
      /\ ChainAt(p) /\ SeenAt(p) /\ AnswersAt(p)
    BY DEF FullInv, Inv
<1>2. /\ p \in DOMAIN inflight /\ p \in DOMAIN prep
      /\ inflight[p].call.op = "START_REVISION"
      /\ RevisionRequested(p) /\ prep[p].input # inflight[p].seen
      /\ prep' = Put(prep, p, x) /\ inputs' = inputs /\ Remember(p, req, x)
      /\ hist' = [hist EXCEPT ![p] = Append(@, old)]
    BY <1>1 DEF PublishRevision, Publishing, GrantHolds
<1>3. /\ inflight[p].seen \in Nat /\ inputs[p].ver \in Nat
      /\ prep[p].version \in Nat /\ prep[p].input \in Nat
    BY <1>1, <1>2, FlightType, PrepType DEF TypeOK
<1>4. prep[p].input < inflight[p].seen /\ inflight[p].seen <= inputs[p].ver
    BY <1>1, <1>2, <1>3 DEF SeenAt
<1>5. /\ x.version = prep[p].version + 1 /\ x.input = inflight[p].seen
      /\ old.contract = prep[p] /\ old.confirmation = conf[p]
    OBVIOUS
<1>6. hist[p] \in Seq(VersionRecords) /\ hist'[p] = Append(hist[p], old)
    BY <1>1, <1>2 DEF TypeOK
<1> HIDE DEF x, old, req
<1>7. p \in DOMAIN prep' /\ prep'[p] = x BY <1>2 DEF Put
<1>8. /\ old.confirmation.decision = "REQUEST_CHANGES"
      /\ old.confirmation.fp = Fingerprint(old.contract)
    BY <1>1, <1>2, <1>5 DEF RevisionRequested, DecisionOnWhatWasShown
<1>9. ChainAt(p)'
    <2> DEFINE h == hist[p]
               n == Len(h)
    <2>1. /\ n \in Nat /\ DOMAIN h = 1 .. n
          /\ Len(hist'[p]) = n + 1 /\ DOMAIN hist'[p] = 1 .. n + 1
          /\ hist'[p][n + 1] = old /\ \A i \in 1 .. n : hist'[p][i] = h[i]
        BY <1>6
    <2>2. old.contract.version = n + 1 /\ x.version = n + 2
        BY <1>1, <1>2, <1>5, <2>1 DEF ChainAt
    <2>3. n # 0 => h[n].contract.input < old.contract.input
        BY <1>1, <1>5, <2>1 DEF ChainAt
    <2>4. ASSUME NEW i \in DOMAIN hist'[p]
          PROVE  /\ hist'[p][i].contract.version = i
                 /\ hist'[p][i].confirmation.decision = "REQUEST_CHANGES"
                 /\ hist'[p][i].confirmation.fp = Fingerprint(hist'[p][i].contract)
                 /\ i > 1 => hist'[p][i-1].contract.input < hist'[p][i].contract.input
        <3>1. CASE i \in 1 .. n
            <4>1. hist'[p][i] = h[i] /\ i \in DOMAIN hist[p] BY <2>1, <3>1
            <4>2. i > 1 => hist'[p][i-1] = h[i-1] BY <2>1, <3>1
            <4> QED BY <1>1, <4>1, <4>2 DEF ChainAt
        <3>2. CASE i = n + 1
            <4>1. hist'[p][i] = old BY <2>1, <3>2
            <4>2. i > 1 => n # 0 /\ hist'[p][i-1] = h[n] BY <2>1, <3>2
            <4> QED BY <1>8, <2>2, <2>3, <3>2, <4>1, <4>2
        <3> QED BY <2>1, <3>1, <3>2
    <2>5. hist'[p][Len(hist'[p])].contract.input < prep'[p].input
        BY <1>4, <1>5, <1>7, <2>1
    <2>6. /\ prep'[p].version = Len(hist'[p]) + 1
          /\ prep'[p].input <= inputs'[p].ver
        BY <1>2, <1>4, <1>5, <1>7, <2>1, <2>2
    <2> QED BY <1>7, <2>4, <2>5, <2>6 DEF ChainAt
<1>10. ASSUME NEW k \in DOMAIN idem', k[1] = p PROVE AnswerAt(k, p)'
    <2>1. CASE k \in DOMAIN idem /\ idem'[k] = idem[k]
        <3>1. AnswerAt(k, p) BY <1>1, <1>10, <2>1 DEF AnswersAt
        <3>2. k[2] = "PREPARE" => idem'[k].req.input \in Nat
                                  /\ idem'[k].req.input < prep'[p].input
            BY <1>3, <1>4, <1>5, <1>7, <2>1, <3>1 DEF AnswerAt
        <3>3. k[2] = "DECISION" =>
                /\ idem'[k].req.fp.version \in Nat
                /\ idem'[k].req.fp.version < prep'[p].version
            BY <1>3, <1>5, <1>7, <2>1, <3>1 DEF AnswerAt
        <3>4. k[2] = "FREEZE" =>
                /\ idem'[k].req.draft.version \in Nat
                /\ idem'[k].req.draft.version < prep'[p].version
            BY <1>3, <1>5, <1>7, <2>1, <3>1 DEF AnswerAt
        <3>5. prep'[p].version \in Nat /\ Fingerprint(prep'[p]).version = prep'[p].version
            BY <1>3, <1>5, <1>7 DEF Fingerprint
        <3> QED BY <1>7, <3>2, <3>3, <3>4, <3>5 DEF AnswerAt
    <2>2. CASE k[2] = "START_REVISION"
        BY <1>7, <2>2 DEF AnswerAt
    <2> QED BY <1>2, <1>10, <2>1, <2>2, Remembered
<1> QED BY <1>9, <1>10 DEF AnswersAt

\* Beginning a call reads the current inputs.
LEMMA BeginSeen ==
    ASSUME FullInv, NEW p \in Pocs, NEW c \in Calls, Begin(p, c), NEW q \in Pocs, TypeOK'
    PROVE  SeenAt(q)'
<1>0. TypeOK /\ ChainAt(p) BY DEF FullInv, Inv
<1>1. prep' = prep /\ inputs' = inputs BY DEF Begin, svcVars
<1> DEFINE r == [call |-> c, seen |-> inputs[p].ver, phase |-> "read", at |-> 0]
<1>2. inflight' = Put(inflight, p, r) BY DEF Begin
<1>3. r.call = c /\ r.seen = inputs[p].ver OBVIOUS
<1>4. c.op # "PREPARE" => p \in DOMAIN prep BY DEF Begin
<1>5. inputs[p].ver \in Nat /\ inputs[q].ver \in Nat BY <1>0 DEF TypeOK
<1> HIDE DEF r
<1>6. CASE q = p
    <2>1. inflight'[p] = r BY <1>2 DEF Put
    <2>2. c.op # "PREPARE" => prep[p].input <= inputs[p].ver
        BY <1>0, <1>4 DEF ChainAt
    <2> QED BY <1>1, <1>3, <1>5, <1>6, <2>1, <2>2 DEF SeenAt
<1>7. CASE q # p
    <2>1. q \in DOMAIN inflight' => q \in DOMAIN inflight /\ inflight'[q] = inflight[q]
        BY <1>2, <1>7 DEF Put
    <2> QED BY <1>1, <1>5, <2>1, SeenStays
<1> QED BY <1>6, <1>7

\* Every step keeps the full invariant.
LEMMA FullNext == FullInv /\ [Next]_vars => FullInv'
<1> SUFFICES ASSUME FullInv, [Next]_vars PROVE FullInv'
    OBVIOUS
<1>i. Inv /\ TypeOK BY DEF FullInv, Inv
<1>t. Inv' /\ TypeOK' BY <1>i, InvNext DEF Inv
<1>n. \A r \in Pocs : inputs[r].ver \in Nat BY <1>i DEF TypeOK
<1> SUFFICES ASSUME NEW q \in Pocs PROVE (ChainAt(q) /\ SeenAt(q) /\ AnswersAt(q))'
    BY <1>t DEF FullInv
<1>1. CASE UNCHANGED vars
    <2>1. UNCHANGED svcVars /\ inputs' = inputs /\ inflight' = inflight /\ prep' = prep
        BY <1>1 DEF vars, svcVars
    <2> QED BY <1>n, <1>t, <2>1, QuietFull, SeenStays
<1>2. CASE Environment
    <2>1. UNCHANGED svcVars /\ inflight' = inflight /\ prep' = prep
        BY <1>2 DEF Environment, Tick, NewPlan, ToggleInputs, svcVars
    <2>2. ASSUME NEW r \in Pocs PROVE inputs[r].ver <= inputs'[r].ver
        <3>0. inputs \in [Pocs -> [ver : Nat, ok : BOOLEAN]] BY <1>i DEF TypeOK
        <3>1. CASE Tick BY <1>n, <3>1 DEF Tick
        <3>2. ASSUME NEW s \in Pocs, NEW v \in Nat, NEW b, inputs[s].ver <= v,
                     inputs' = [inputs EXCEPT ![s] = [ver |-> v, ok |-> b]]
              PROVE  inputs[r].ver <= inputs'[r].ver
            BY <1>n, <3>0, <3>2
        <3>3. ASSUME NEW s \in Pocs, NewPlan(s) PROVE inputs[r].ver <= inputs'[r].ver
            <4>1. PICK b \in BOOLEAN :
                    inputs' = [inputs EXCEPT ![s] = [ver |-> inputs[s].ver + 1, ok |-> b]]
                BY <3>0, <3>3 DEF NewPlan
            <4> QED BY <1>n, <3>2, <4>1
        <3>4. ASSUME NEW s \in Pocs, ToggleInputs(s) PROVE inputs[r].ver <= inputs'[r].ver
            <4>1. inputs' = [inputs EXCEPT ![s] = [ver |-> inputs[s].ver, ok |-> ~inputs[s].ok]]
                BY <3>0, <3>4 DEF ToggleInputs
            <4> QED BY <1>n, <3>2, <4>1
        <3> QED BY <1>2, <3>1, <3>3, <3>4 DEF Environment
    <2> QED BY <1>t, <2>1, <2>2, QuietFull, SeenStays
<1>3. ASSUME NEW p \in Pocs, NEW k \in Keys, Call(p, k)
      PROVE  (ChainAt(q) /\ SeenAt(q) /\ AnswersAt(q))'
    <2>1. PICK c \in Calls : Begin(p, c) BY <1>i, <1>3, CallBegins
    <2>2. UNCHANGED svcVars /\ inputs' = inputs BY <2>1 DEF Begin
    <2> QED BY <1>n, <1>t, <2>1, <2>2, QuietFull, BeginSeen
<1>4. ASSUME NEW p \in Pocs, Fail(p) \/ Reject(p) \/ Replay(p)
      PROVE  (ChainAt(q) /\ SeenAt(q) /\ AnswersAt(q))'
    <2>1. UNCHANGED svcVars /\ inputs' = inputs /\ inflight' = Drop(inflight, p)
        BY <1>4 DEF Fail, Reject, Replay, Finish, Release
    <2>2. q \in DOMAIN inflight' => q \in DOMAIN inflight /\ inflight'[q] = inflight[q]
        BY <2>1 DEF Drop
    <2>3. prep' = prep BY <2>1 DEF svcVars
    <2> QED BY <1>n, <1>t, <2>1, <2>2, <2>3, QuietFull, SeenStays
<1>5. ASSUME NEW p \in Pocs, Accept(p)
      PROVE  (ChainAt(q) /\ SeenAt(q) /\ AnswersAt(q))'
    <2>1. UNCHANGED svcVars /\ inputs' = inputs BY <1>5 DEF Accept
    <2>2. q \in DOMAIN inflight' => /\ q \in DOMAIN inflight
                                    /\ inflight'[q].seen = inflight[q].seen
                                    /\ inflight'[q].call = inflight[q].call
        BY <1>5 DEF Accept, Reading
    <2>3. prep' = prep BY <2>1 DEF svcVars
    <2> QED BY <1>n, <1>t, <2>1, <2>2, <2>3, QuietFull, SeenStays
<1>6. ASSUME NEW p \in Pocs, Publish(p)
      PROVE  (ChainAt(q) /\ SeenAt(q) /\ AnswersAt(q))'
    <2>1. CASE q = p
        <3>1. ChainAt(p)' /\ AnswersAt(p)'
            BY <1>t, <1>6, PrepareFull, DecisionFull, RevisionFull, ReissueFull, FreezeFull
            DEF Publish
        <3>2. inflight' = Drop(inflight, p)
            BY <1>6 DEF Publish, PublishPrepare, PublishDecision, PublishRevision,
                        PublishReissue, PublishFreeze, Release
        <3>3. p \notin DOMAIN inflight' BY <3>2 DEF Drop
        <3> QED BY <2>1, <3>1, <3>3 DEF SeenAt
    <2>2. CASE q # p
        BY <1>t, <1>6, <2>2, PublishFullElsewhere
    <2> QED BY <2>1, <2>2
<1> QED BY <1>1, <1>2, <1>3, <1>4, <1>5, <1>6 DEF Next, Validate

\* The full invariant holds throughout every behaviour of the service.
THEOREM FullInvariant == Spec => []FullInv
BY FullInit, FullNext, PTL DEF Spec

\* Versions form one chain, each sent back by the customer before the next, and
\* a retry that passes the request comparison is answered with the value its
\* first call published, however many revisions, freezes and changes of the
\* inputs lie between (start_revision, _idempotent results).
THEOREM HistoryStaysFaithful == Spec => []HistoryIsFaithful
<1>1. FullInv => VersionChain BY DEF FullInv, ChainAt, VersionChain
<1>2. FullInv => ReplayIsFaithful
    <2> SUFFICES ASSUME FullInv, NEW k \in DOMAIN idem,
                        StillRequested(k[1], k[2], idem[k].req)
                 PROVE  HasAnswer(k[1], k[2], idem[k].result)
        BY DEF ReplayIsFaithful
    <2> DEFINE p == k[1]
    <2>1. TypeOK BY DEF FullInv, Inv
    <2>2. p \in Pocs BY <2>1 DEF TypeOK, IsDict
    <2>3. AnswerAt(k, p) /\ ChainAt(p) BY <2>2 DEF FullInv, AnswersAt
    <2>4. p \in DOMAIN prep BY <2>3 DEF AnswerAt
    <2>5. prep[p].input <= inputs[p].ver /\ inputs[p].ver \in Nat /\ prep[p].input \in Nat
        BY <2>1, <2>2, <2>3, <2>4, PrepType DEF ChainAt, TypeOK
    <2> QED BY <2>3, <2>4, <2>5 DEF StillRequested, HasAnswer, AnswerAt
<1>3. FullInv => HistoryIsFaithful BY <1>1, <1>2 DEF HistoryIsFaithful
<1> QED BY FullInvariant, <1>3, PTL

-----------------------------------------------------------------------------
(***************************************************************************)
(* The refinement of AgreementPromise.                                     *)
(***************************************************************************)

\* The service starts with nothing on the table.
LEMMA PromiseInit == Init => Promise!Init
<1> SUFFICES ASSUME Init PROVE Promise!Init OBVIOUS
<1>1. DOMAIN prep = {} /\ DOMAIN conf = {} /\ DOMAIN frozen = {}
    BY EmptyType DEF Init
<1>2. OfferedTerms = [p \in Pocs |-> Promise!None]
    BY <1>1 DEF Promise!None, OfferedTerms
<1>3. OfferedVersion = [p \in Pocs |-> 0] BY <1>1 DEF OfferedVersion
<1>4. OfferedDecision = [p \in Pocs |-> "UNDECIDED"] BY <1>1 DEF OfferedDecision
<1>5. OfferSigned = [p \in Pocs |-> FALSE]
    <2>1. \A p \in Pocs : (p \in DOMAIN frozen) = FALSE BY <1>1
    <2> QED BY <2>1, Zenon DEF OfferSigned
<1> QED BY <1>2, <1>3, <1>4, <1>5 DEF Promise!Init

\* A step that leaves preparations, decisions and freezes alone is invisible.
LEMMA Invisible ==
    ASSUME prep' = prep, conf' = conf, frozen' = frozen
    PROVE  UNCHANGED Promise!vars
BY DEF Promise!vars, OfferedTerms, OfferedVersion, OfferedDecision, OfferSigned

\* Publication for p changes the promise for p only.
LEMMA PromiseElsewhere ==
    ASSUME FullInv, NEW p \in Pocs, Publish(p), NEW q \in Pocs, q # p
    PROVE  /\ OfferedTerms'[q] = OfferedTerms[q]
           /\ OfferedVersion'[q] = OfferedVersion[q]
           /\ OfferedDecision'[q] = OfferedDecision[q]
           /\ OfferSigned'[q] = OfferSigned[q]
<1>1. /\ AgreeBut(prep, prep', p) /\ AgreeBut(conf, conf', p)
      /\ AgreeBut(frozen, frozen', p)
    BY PublishesElsewhere DEF FullInv
<1> QED
    BY <1>1 DEF AgreeBut, OfferedTerms, OfferedVersion, OfferedDecision, OfferSigned

\* What the promise says of p, before and after a step.
LEMMA PromiseAt ==
    ASSUME NEW p \in Pocs
    PROVE  /\ OfferedTerms[p] = IF p \in DOMAIN prep THEN Fingerprint(prep[p]) ELSE [none |-> TRUE]
           /\ OfferedTerms'[p] = IF p \in DOMAIN prep' THEN Fingerprint(prep'[p]) ELSE [none |-> TRUE]
           /\ OfferedVersion[p] = IF p \in DOMAIN prep THEN prep[p].version ELSE 0
           /\ OfferedVersion'[p] = IF p \in DOMAIN prep' THEN prep'[p].version ELSE 0
           /\ OfferedDecision[p] = IF p \in DOMAIN conf THEN conf[p].decision ELSE "UNDECIDED"
           /\ OfferedDecision'[p] = IF p \in DOMAIN conf' THEN conf'[p].decision ELSE "UNDECIDED"
           /\ OfferSigned[p] = (p \in DOMAIN frozen)
           /\ OfferSigned'[p] = (p \in DOMAIN frozen')
BY DEF OfferedTerms, OfferedVersion, OfferedDecision, OfferSigned

\* A function on the POCs that changes at p at most.
LEMMA ChangesAt ==
    ASSUME NEW f, NEW g, f = [q \in Pocs |-> f[q]], g = [q \in Pocs |-> g[q]],
           NEW p \in Pocs, \A q \in Pocs : q # p => g[q] = f[q]
    PROVE  g = [f EXCEPT ![p] = g[p]]
OBVIOUS

\* Publication for p, seen through the promise: four functions change at p at
\* most.
LEMMA PromiseChanges ==
    ASSUME FullInv, NEW p \in Pocs, Publish(p)
    PROVE  /\ OfferedTerms' = [OfferedTerms EXCEPT ![p] = OfferedTerms'[p]]
           /\ OfferedVersion' = [OfferedVersion EXCEPT ![p] = OfferedVersion'[p]]
           /\ OfferedDecision' = [OfferedDecision EXCEPT ![p] = OfferedDecision'[p]]
           /\ OfferSigned' = [OfferSigned EXCEPT ![p] = OfferSigned'[p]]
<1>1. \A q \in Pocs : q # p =>
        /\ OfferedTerms'[q] = OfferedTerms[q]
        /\ OfferedVersion'[q] = OfferedVersion[q]
        /\ OfferedDecision'[q] = OfferedDecision[q]
        /\ OfferSigned'[q] = OfferSigned[q]
    BY PromiseElsewhere
<1>2. /\ OfferedTerms = [q \in Pocs |-> OfferedTerms[q]]
      /\ OfferedTerms' = [q \in Pocs |-> OfferedTerms'[q]]
    BY DEF OfferedTerms
<1>3. /\ OfferedVersion = [q \in Pocs |-> OfferedVersion[q]]
      /\ OfferedVersion' = [q \in Pocs |-> OfferedVersion'[q]]
    BY DEF OfferedVersion
<1>4. /\ OfferedDecision = [q \in Pocs |-> OfferedDecision[q]]
      /\ OfferedDecision' = [q \in Pocs |-> OfferedDecision'[q]]
    BY DEF OfferedDecision
<1>5. /\ OfferSigned = [q \in Pocs |-> OfferSigned[q]]
      /\ OfferSigned' = [q \in Pocs |-> OfferSigned'[q]]
    BY DEF OfferSigned
<1> QED BY <1>1, <1>2, <1>3, <1>4, <1>5, ChangesAt

\* A function that does not change at p does not change.
LEMMA Stays ==
    ASSUME NEW f, NEW g, NEW p \in Pocs, f = [q \in Pocs |-> f[q]],
           g = [f EXCEPT ![p] = g[p]], g[p] = f[p]
    PROVE  g = f
OBVIOUS

\* prepare offers the first version.
LEMMA PrepareOffers ==
    ASSUME FullInv, NEW p \in Pocs, PublishPrepare(p), FullInv'
    PROVE  Promise!Offer(p)
<1>1. p \notin DOMAIN prep /\ prep' = Put(prep, p, prep'[p])
      /\ p \in DOMAIN prep' /\ prep'[p].version = 1
    BY DEF FullInv, Inv, GrantHolds, PublishPrepare, Publishing, Put
<1>2. Publish(p) /\ conf' = conf /\ frozen' = frozen BY DEF Publish, PublishPrepare
<1>3. Fingerprint(prep'[p]) \in Fingerprints
    <2>1. prep'[p] \in Preparations BY <1>1 DEF FullInv, Inv, TypeOK, IsDict
    <2> QED BY <2>1, FingerprintType
<1>4. Fingerprint(prep'[p]) # [none |-> TRUE] BY DEF Fingerprint
<1>5. OfferedTerms'[p] \in Fingerprints \ {OfferedTerms[p]}
    BY <1>1, <1>3, <1>4, PromiseAt
<1>6. OfferedVersion[p] = 0 /\ OfferedVersion'[p] = 1 BY <1>1, PromiseAt
<1>7. UNCHANGED <<OfferedDecision, OfferSigned>>
    BY <1>2 DEF OfferedDecision, OfferSigned
<1> QED BY <1>2, <1>5, <1>6, <1>7, PromiseChanges
        DEF Promise!Offer, Promise!NewTerms

\* A published decision is the customer's decision on the terms on the table.
LEMMA DecisionDecides ==
    ASSUME FullInv, NEW p \in Pocs, PublishDecision(p)
    PROVE  \E d \in {"CONFIRM", "REQUEST_CHANGES"} : Promise!Decide(p, d)
<1> DEFINE d == inflight[p].call.decision
<1>1. /\ p \in DOMAIN inflight /\ inflight[p].call.op = "DECISION"
      /\ inflight[p].phase = "publish"
    BY DEF PublishDecision, Publishing
<1>2. d \in {"CONFIRM", "REQUEST_CHANGES"}
    <2>1. inflight[p].call \in Calls BY <1>1, FlightType DEF FullInv, Inv
    <2> QED BY <1>1, <2>1 DEF Calls, Decisions
<1>3. p \in DOMAIN prep /\ p \notin DOMAIN conf
    BY <1>1 DEF FullInv, Inv, GrantHolds
<1>4. prep[p].version > 0
    <2>1. prep[p].version = Len(hist[p]) + 1 BY <1>3 DEF FullInv, ChainAt
    <2>2. hist[p] \in Seq(VersionRecords) BY DEF FullInv, Inv, TypeOK
    <2> QED BY <2>1, <2>2
<1>5. p \in DOMAIN conf' /\ conf'[p].decision = d
    BY DEF PublishDecision, Put
<1>6. Publish(p) /\ prep' = prep /\ frozen' = frozen BY DEF Publish, PublishDecision
<1>7. OfferedVersion[p] > 0 /\ OfferedDecision[p] = "UNDECIDED" /\ OfferedDecision'[p] = d
    BY <1>3, <1>4, <1>5, PromiseAt
<1>8. UNCHANGED <<OfferedTerms, OfferedVersion, OfferSigned>>
    BY <1>6 DEF OfferedTerms, OfferedVersion, OfferSigned
<1>9. Promise!Decide(p, d) BY <1>6, <1>7, <1>8, PromiseChanges DEF Promise!Decide
<1> QED BY <1>2, <1>9

\* A revision replaces terms that were sent back by other, later ones.
LEMMA RevisionRevises ==
    ASSUME FullInv, NEW p \in Pocs, PublishRevision(p), FullInv'
    PROVE  Promise!Revise(p)
<1>1. /\ p \in DOMAIN inflight /\ inflight[p].call.op = "START_REVISION"
      /\ inflight[p].phase = "publish"
    BY DEF PublishRevision, Publishing
<1>2. p \in DOMAIN prep /\ p \in DOMAIN conf /\ conf[p].decision = "REQUEST_CHANGES"
    BY <1>1 DEF FullInv, Inv, GrantHolds, RevisionRequested
<1>3. Publish(p) BY DEF Publish
<1>4. p \notin DOMAIN frozen BY <1>3, PublishesElsewhere DEF FullInv
<1>5. /\ p \in DOMAIN prep' /\ prep'[p].version = prep[p].version + 1
      /\ p \notin DOMAIN conf' /\ p \notin DOMAIN frozen'
    BY DEF PublishRevision, Put, Drop
<1>6. prep[p].version \in Nat BY <1>2, PrepType DEF FullInv, Inv
<1>7. Fingerprint(prep'[p]) \in Fingerprints
    <2>1. prep'[p] \in Preparations BY <1>5 DEF FullInv, Inv, TypeOK, IsDict
    <2> QED BY <2>1, FingerprintType
<1>8. Fingerprint(prep'[p]) # Fingerprint(prep[p])
    <2>1. prep'[p].version # prep[p].version BY <1>5, <1>6
    <2>2. /\ Fingerprint(prep'[p]).version = prep'[p].version
          /\ Fingerprint(prep[p]).version = prep[p].version
        BY DEF Fingerprint
    <2> QED BY <2>1, <2>2
<1>9. OfferedTerms'[p] \in Fingerprints \ {OfferedTerms[p]}
    BY <1>2, <1>5, <1>7, <1>8, PromiseAt
<1>10. OfferedVersion'[p] = OfferedVersion[p] + 1 BY <1>2, <1>5, PromiseAt
<1>11. OfferedDecision[p] = "REQUEST_CHANGES" /\ OfferedDecision'[p] = "UNDECIDED"
    BY <1>2, <1>5, PromiseAt
<1>12. OfferSigned'[p] = OfferSigned[p] BY <1>4, <1>5, PromiseAt
<1>13. OfferSigned' = OfferSigned
    <2>1. OfferSigned = [q \in Pocs |-> OfferSigned[q]] BY DEF OfferSigned
    <2> QED BY <1>3, <1>12, <2>1, PromiseChanges, Stays
<1> QED BY <1>3, <1>9, <1>10, <1>11, <1>13, PromiseChanges
        DEF Promise!Revise, Promise!NewTerms

\* A freeze signs confirmed terms, once.
LEMMA FreezeSigns ==
    ASSUME FullInv, NEW p \in Pocs, PublishFreeze(p)
    PROVE  Promise!Sign(p)
<1>1. /\ p \in DOMAIN inflight /\ inflight[p].call.op = "FREEZE"
      /\ inflight[p].phase = "publish"
    BY DEF PublishFreeze, Publishing
<1>2. p \in DOMAIN conf /\ conf[p].decision = "CONFIRM" /\ p \notin DOMAIN frozen
    BY <1>1 DEF FullInv, Inv, GrantHolds, Matches
<1>3. p \in DOMAIN frozen' BY DEF PublishFreeze, Put
<1>4. Publish(p) /\ prep' = prep /\ conf' = conf BY DEF Publish, PublishFreeze
<1>5. OfferedDecision[p] = "CONFIRM" BY <1>2, PromiseAt
<1>6. OfferSigned[p] = FALSE /\ OfferSigned'[p] = TRUE
    <2>1. (p \in DOMAIN frozen) = FALSE /\ (p \in DOMAIN frozen') = TRUE
        BY <1>2, <1>3
    <2>2. OfferSigned[p] = (p \in DOMAIN frozen) BY Zenon DEF OfferSigned
    <2>3. OfferSigned'[p] = (p \in DOMAIN frozen') BY Zenon DEF OfferSigned
    <2> QED BY <2>1, <2>2, <2>3, Zenon
<1>7. UNCHANGED <<OfferedTerms, OfferedVersion, OfferedDecision>>
    BY <1>4 DEF OfferedTerms, OfferedVersion, OfferedDecision
<1>8. OfferSigned' = [OfferSigned EXCEPT ![p] = OfferSigned'[p]]
    BY <1>4, PromiseChanges
<1> QED BY <1>5, <1>6, <1>7, <1>8 DEF Promise!Sign

\* Every step of the service is a step of the promise, or invisible.
LEMMA PromiseStep == FullInv /\ FullInv' /\ [Next]_vars => [Promise!Next]_(Promise!vars)
<1> SUFFICES ASSUME FullInv, FullInv', [Next]_vars
             PROVE  [Promise!Next]_(Promise!vars)
    OBVIOUS
<1>1. CASE UNCHANGED <<prep, conf, frozen>> BY <1>1, Invisible
<1>2. CASE Environment
    BY <1>1, <1>2 DEF Environment, Tick, NewPlan, ToggleInputs, svcVars
<1>3. ASSUME NEW p \in Pocs, NEW k \in Keys, Call(p, k)
      PROVE  UNCHANGED <<prep, conf, frozen>>
    BY <1>3, CallBegins DEF Begin, svcVars, FullInv, Inv
<1>4. ASSUME NEW p \in Pocs, Validate(p) \/ Fail(p)
      PROVE  UNCHANGED <<prep, conf, frozen>>
    BY <1>4 DEF Validate, Reject, Replay, Accept, Fail, Finish, svcVars
<1>5. ASSUME NEW p \in Pocs, Publish(p)
      PROVE  Promise!Next \/ UNCHANGED <<prep, conf, frozen>>
    <2>1. CASE PublishPrepare(p) BY <2>1, PrepareOffers DEF Promise!Next
    <2>2. CASE PublishDecision(p) BY <2>2, DecisionDecides DEF Promise!Next
    <2>3. CASE PublishRevision(p) BY <2>3, RevisionRevises DEF Promise!Next
    <2>4. CASE PublishReissue(p) BY <2>4 DEF PublishReissue
    <2>5. CASE PublishFreeze(p) BY <2>5, FreezeSigns DEF Promise!Next
    <2> QED BY <1>5, <2>1, <2>2, <2>3, <2>4, <2>5 DEF Publish
<1> QED BY <1>1, <1>2, <1>3, <1>4, <1>5 DEF Next, vars

\* The lifecycle implements its promise: terms are replaced only by a later
\* version after REQUEST_CHANGES, each version is decided once, only confirmed
\* terms are frozen and nothing moves afterwards (poc_agreement.py).
THEOREM KeepsThePromise == Spec => KeepsPromise
BY PromiseInit, PromiseStep, FullInvariant, PTL DEF Spec, KeepsPromise, Promise!Spec

=============================================================================
