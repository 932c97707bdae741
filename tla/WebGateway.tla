----------------------------- MODULE WebGateway -----------------------------
(***************************************************************************)
(* The threads of the browser server.  A POST passes the checks of its      *)
(* route, reads its body at the pace of the client, reserves its POC with   *)
(* the closure service, lets the service behind the route act without any   *)
(* lock of the server, gives the reservation back and is answered.  A human *)
(* closure of the POC is recorded by another such thread.  The services are *)
(* reduced to the stage of the agreement they move.                         *)
(***************************************************************************)
EXTENDS Naturals, FiniteSets, WebApi, Dicts

CONSTANTS
    WThreads,    \* threads of the server
    Drafts,      \* draft POCs
    Support,     \* SYNTHETIC_SUPPORT_AGENT_POC_ID
    Performance, \* PERFORMANCE_POC_ID
    MaxWrites    \* bound on the writes counted per POC

ASSUME WebAssumption ==
    MaxWrites \in Nat /\ IsFiniteSet(WThreads) /\ {Support, Performance} \cap Drafts = {}

VARIABLES
    wphase,     \* thread |-> where it is in its request
    wreq,       \* thread |-> the request it handles
    answer,     \* the answer given in the last step
    reserved,   \* POC |-> reservations held (run_if_open's active count)
    wclosed,    \* POCs with a recorded closure
    stage,      \* POC |-> stage of its agreement
    writes,     \* POC |-> writes made that do not move the stage
    used,       \* POC |-> routes of its agreement whose key was granted
    capturing,  \* POCs with a live Zoom capture
    warchived   \* archived drafts

webVars == <<wphase, wreq, answer, reserved, wclosed, stage, writes, used, capturing, warchived>>

WPOCs == Drafts \cup {Support, Performance}

NoRequest == [route |-> "none"]

NoAnswer == [status |-> 0, late |-> FALSE]

WebInit ==
    /\ wphase = [t \in WThreads |-> "idle"]
    /\ wreq = [t \in WThreads |-> NoRequest]
    /\ answer = NoAnswer
    /\ reserved = [p \in WPOCs |-> 0]
    /\ wclosed = {}
    /\ stage = [p \in WPOCs |-> "drafting"]
    /\ writes = [p \in WPOCs |-> 0]
    /\ used = [p \in WPOCs |-> {}]
    /\ capturing = {}
    /\ warchived = {}

-----------------------------------------------------------------------------
(* What a request is, and what the checks of its route say of it. *)

SessionRoutes == {"session", "provider"}
UnscopedRoutes == {"performance", "create"}

\* The POCs a route may be about; a new draft is counted with the performance POC.
POCsOf(route) ==
    CASE route = "closure" -> WPOCs
      [] route \in SessionRoutes -> {Support}
      [] route \in UnscopedRoutes -> {Performance}
      [] OTHER -> Drafts

\* A request with at most one defect of its own.
Requests ==
    {r \in [route : DOMAIN Routes, poc : WPOCs, defect : {"none", "target", "origin", "body"}] :
        r.poc \in POCsOf(r.route)}

\* _allow_active_*_poc; the route of a revision names no POC to look up.
Passes(r, check) ==
    CASE check = "active" -> r.route \in ScopedRoutes => r.poc \notin warchived
      [] check = "known" -> r.poc \in WPOCs
      [] check = "open" -> r.poc \notin wclosed
      [] OTHER -> r.defect # check

\* The checks before the body.
Early(r) ==
    LET checks == Routes[r.route].checks
    IN  {i \in 1 .. Len(checks) : checks[i] # "body" /\ ~Passes(r, checks[i])}

FirstFailed(r) ==
    Routes[r.route].checks[CHOOSE i \in Early(r) : \A j \in Early(r) : i <= j]

\* A request that finds its POC closed when it arrives, and has no defect.
Late(r) ==
    r.poc \in wclosed /\ r.route # "closure" /\ r.defect = "none" /\ r.poc \notin warchived

Answer(t, s) ==
    /\ answer' = [status |-> s, late |-> wreq[t].late]
    /\ wphase' = [wphase EXCEPT ![t] = "idle"]
    /\ wreq' = [wreq EXCEPT ![t] = NoRequest]

GoOn(t, where) == wphase' = [wphase EXCEPT ![t] = where]

Proceed(t, where) == GoOn(t, where) /\ answer' = NoAnswer /\ UNCHANGED wreq

HasPrecheck(r) == \E i \in 1 .. Len(Routes[r.route].checks) : Routes[r.route].checks[i] = "open"

-----------------------------------------------------------------------------
(* One request. *)

\* do_POST and the dispatcher of the route, up to the body.  The three routes
\* that check for a closure first hold a reservation while they do.
Receive(t, r) ==
    /\ wphase[t] = "idle"
    /\ IF Early(r) # {}
       THEN /\ answer' = [status |-> CheckStatus(FirstFailed(r)), late |-> Late(r)]
            /\ UNCHANGED <<wphase, wreq, reserved>>
       ELSE /\ wreq' = [wreq EXCEPT ![t] = [route |-> r.route, poc |-> r.poc,
                                            defect |-> r.defect, late |-> Late(r)]]
            /\ GoOn(t, IF HasPrecheck(r) THEN "precheck" ELSE "body")
            /\ reserved' = IF HasPrecheck(r) THEN [reserved EXCEPT ![r.poc] = @ + 1] ELSE reserved
            /\ answer' = NoAnswer
    /\ UNCHANGED <<wclosed, stage, writes, used, capturing, warchived>>

EndPrecheck(t) ==
    /\ wphase[t] = "precheck"
    /\ reserved' = [reserved EXCEPT ![wreq[t].poc] = @ - 1]
    /\ GoOn(t, "body")
    /\ answer' = NoAnswer
    /\ UNCHANGED <<wreq, wclosed, stage, writes, used, capturing, warchived>>

\* _read_json and _read_poc_source_json
ReadBody(t) ==
    /\ wphase[t] = "body"
    /\ IF wreq[t].defect = "body"
       THEN Answer(t, 400)
       ELSE Proceed(t, "ready")
    /\ UNCHANGED <<reserved, wclosed, stage, writes, used, capturing, warchived>>

\* run_if_open through _run_unclosed_poc_mutation; a request that names no POC
\* is let through.
ReserveUncounted(t) ==
    /\ wphase[t] = "ready"
    /\ wreq[t].route # "closure"
    /\ IF wreq[t].route \in ScopedRoutes /\ wreq[t].poc \in wclosed
       THEN Answer(t, 409)
       ELSE Proceed(t, "mutating")
    /\ UNCHANGED <<reserved, wclosed, stage, writes, used, capturing, warchived>>

Reserve(t) ==
    /\ wphase[t] = "ready"
    /\ wreq[t].route # "closure"
    /\ LET p == wreq[t].poc
           scoped == wreq[t].route \in ScopedRoutes
       IN  IF scoped /\ p \in wclosed
           THEN Answer(t, 409) /\ UNCHANGED reserved
           ELSE /\ Proceed(t, "mutating")
                /\ reserved' = IF scoped THEN [reserved EXCEPT ![p] = @ + 1] ELSE reserved
    /\ UNCHANGED <<wclosed, stage, writes, used, capturing, warchived>>

-----------------------------------------------------------------------------
(* The services behind the routes. *)

\* Stages an agreement route leads from and to.
Moves ==
    {<<"prepare", "drafting", "review">>, <<"reissue", "review", "review">>,
     <<"decision", "review", "confirmed">>, <<"decision", "review", "changes">>,
     <<"revision", "changes", "drafting">>, <<"freeze", "confirmed", "frozen">>,
     <<"run", "frozen", "running">>, <<"import", "frozen", "running">>,
     <<"session", "drafting", "terminal">>, <<"session", "terminal", "drafting">>}

MovingRoutes == {"prepare", "reissue", "decision", "revision", "freeze", "run", "import"}

\* The service acts: it writes, recognises its key, or refuses.
Mutate(t, outcome) ==
    /\ wphase[t] = "mutating"
    /\ LET route == wreq[t].route
           p == wreq[t].poc
       IN  /\ outcome \in DOMAIN Routes[route].status
           /\ outcome = "unread" => route = "freeze"
           /\ CASE outcome = "replayed" ->
                     /\ route \in used[p] \/ (route \notin MovingRoutes /\ writes[p] > 0)
                     /\ UNCHANGED <<stage, writes, used, capturing>>
                [] outcome \in {"done", "unread"} ->
                     /\ used' = [used EXCEPT ![p] = @ \cup ({route} \cap MovingRoutes)]
                     /\ \/ \E m \in Moves : /\ m[1] = route /\ m[2] = stage[p]
                                            /\ stage' = [stage EXCEPT ![p] = m[3]]
                                            /\ UNCHANGED <<writes, capturing>>
                        \/ /\ route \notin MovingRoutes
                           /\ writes[p] < MaxWrites
                           /\ writes' = [writes EXCEPT ![p] = @ + 1]
                           /\ capturing' = IF route = "meeting" THEN capturing \cup {p}
                                           ELSE capturing
                           /\ UNCHANGED stage
                [] OTHER -> UNCHANGED <<stage, writes, used, capturing>>
       /\ wreq' = [wreq EXCEPT ![t] = [route |-> route, poc |-> p, late |-> wreq[t].late,
                                           outcome |-> outcome]]
    /\ GoOn(t, "mutated")
    /\ answer' = NoAnswer
    /\ UNCHANGED <<reserved, wclosed, warchived>>

\* run_if_open's finally, and the answer
ReleaseOnSuccess(t) ==
    /\ wphase[t] = "mutated"
    /\ LET r == wreq[t]
       IN  /\ reserved' = IF r.route \in ScopedRoutes /\ r.outcome \in {"done", "replayed"}
                          THEN [reserved EXCEPT ![r.poc] = @ - 1] ELSE reserved
           /\ Answer(t, Routes[r.route].status[r.outcome])
    /\ UNCHANGED <<wclosed, stage, writes, used, capturing, warchived>>

Release(t) ==
    /\ wphase[t] = "mutated"
    /\ LET r == wreq[t]
       IN  /\ reserved' = IF r.route \in ScopedRoutes
                          THEN [reserved EXCEPT ![r.poc] = @ - 1] ELSE reserved
           /\ Answer(t, Routes[r.route].status[r.outcome])
    /\ UNCHANGED <<wclosed, stage, writes, used, capturing, warchived>>

-----------------------------------------------------------------------------
(* Closure. *)

\* _terminal_evidence_binding
AtTerminalStage(p) == stage[p] = "terminal" /\ p # Performance /\ p \notin warchived

\* record, under the closure service's lock: a repeated key is recognised, and
\* an open POC is closed unless a handler is inside its services.
RecordClosure(t, outcome) ==
    /\ wphase[t] = "ready"
    /\ wreq[t].route = "closure"
    /\ LET p == wreq[t].poc
       IN  \/ /\ outcome \in DOMAIN ClosureStatus \ {"done", "replayed"}
              /\ outcome = "conflict" => p \in wclosed \/ reserved[p] > 0 \/ ~AtTerminalStage(p)
              /\ Answer(t, ClosureStatus[outcome])
              /\ UNCHANGED wclosed
           \/ /\ \/ outcome = "replayed" /\ p \in wclosed
                 \/ outcome = "done" /\ p \notin wclosed /\ reserved[p] = 0 /\ AtTerminalStage(p)
              /\ wclosed' = wclosed \cup {p}
              /\ wreq' = [wreq EXCEPT ![t] = [route |-> "closure", poc |-> p, late |-> FALSE,
                                              outcome |-> outcome]]
              /\ GoOn(t, "revoking")
              /\ answer' = NoAnswer
    /\ UNCHANGED <<reserved, stage, writes, used, capturing, warchived>>

\* _record_workspace_closure's second half: the live capture is revoked.
RevokeNothing(t) ==
    /\ wphase[t] = "revoking"
    /\ Answer(t, ClosureStatus[wreq[t].outcome])
    /\ UNCHANGED <<reserved, wclosed, stage, writes, used, capturing, warchived>>

RevokeCapture(t) ==
    /\ wphase[t] = "revoking"
    /\ capturing' = capturing \ {wreq[t].poc}
    /\ Answer(t, ClosureStatus[wreq[t].outcome])
    /\ UNCHANGED <<reserved, wclosed, stage, writes, used, warchived>>

-----------------------------------------------------------------------------
(* Outside the handlers. *)

\* The worker of a run or of an import ends.
RunEnds(p) ==
    /\ stage[p] = "running"
    /\ stage' = [stage EXCEPT ![p] = "terminal"]
    /\ answer' = NoAnswer
    /\ UNCHANGED <<wphase, wreq, reserved, wclosed, writes, used, capturing, warchived>>

\* ProcessLocalDraftPOCService.archive
GatewayArchive(p) ==
    /\ p \in Drafts \ warchived
    /\ warchived' = warchived \cup {p}
    /\ answer' = NoAnswer
    /\ UNCHANGED <<wphase, wreq, reserved, wclosed, stage, writes, used, capturing>>

WebNext ==
    \/ \E t \in WThreads :
          \/ \E r \in Requests : Receive(t, r)
          \/ EndPrecheck(t)
          \/ ReadBody(t)
          \/ Reserve(t)
          \/ wphase[t] = "mutating"
             /\ \E o \in DOMAIN Routes[wreq[t].route].status : Mutate(t, o)
          \/ Release(t)
          \/ \E o \in DOMAIN ClosureStatus : RecordClosure(t, o)
          \/ RevokeCapture(t)
    \/ \E p \in Drafts : RunEnds(p) \/ GatewayArchive(p)

WebSpec == WebInit /\ [][WebNext]_webVars

-----------------------------------------------------------------------------
(* Properties. *)

\* Nothing of a POC changes once its closure is recorded, whichever handlers
\* were already past their checks (run_if_open against record; the revision
\* route relies on the agreement being frozen).
NoWriteAfterClose ==
    [][\A p \in wclosed : stage'[p] = stage[p] /\ writes'[p] = writes[p]]_webVars

\* The reservations of a POC are those of the handlers that are inside its
\* services: none is lost when a service refuses, so a closure is not blocked
\* for ever.
ReservationsBalance ==
    \A p \in WPOCs :
        reserved[p] = Cardinality({t \in WThreads :
                          \/ wphase[t] = "precheck" /\ wreq[t].poc = p
                          \/ /\ wphase[t] \in {"mutating", "mutated"}
                             /\ wreq[t].route \in ScopedRoutes /\ wreq[t].poc = p})

\* A capture of a closed POC has ended by the time the closure is answered.
ClosureEndsCapture ==
    \A p \in wclosed \cap capturing :
        \E t \in WThreads : wphase[t] = "revoking" /\ wreq[t].poc = p

\* No write that arrives for a closed POC is answered with success; all are
\* answered as closed (docs/LOCAL_E2E_CONTRACT.md, POC coordination).
ClosedAnswers == answer.late => answer.status \notin 200 .. 299
=============================================================================
