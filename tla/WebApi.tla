------------------------------- MODULE WebApi -------------------------------
(***************************************************************************)
(* The POST routes of the browser server: which checks a request passes and *)
(* in which order, which POC a path names, and the status each outcome of   *)
(* the service behind the route is answered with.  Outcomes:                *)
(*   done      the write was made          replayed  the key had made it    *)
(*   invalid   refused as malformed        missing   no such POC or object  *)
(*   conflict  refused by current state    full      refused by capacity    *)
(*   failed    the service is unavailable                                   *)
(*   unread    the write was made, and reading it back failed               *)
(* and those of the speech service.                                         *)
(***************************************************************************)
EXTENDS Naturals, Sequences, FiniteSets

-----------------------------------------------------------------------------
(* Checks before the body is acted on, in the order of the handlers. *)

PerformanceWrite == <<"target", "media", "origin", "body">>

ZoomGuidedWrite == <<"target", "media", "origin", "noHeaderKey", "open", "body">>
MeetingWrite == <<"target", "media", "origin", "noHeaderKey", "open", "body">>
SttWrite == <<"target", "media", "origin", "noHeaderKey", "open", "body">>

SourceWrite == <<"target", "media", "origin", "noHeaderKey", "body">>

ProposalWrite == <<"target", "active", "media", "origin", "noHeaderKey", "body">>
DefinitionWrite == <<"target", "active", "media", "origin", "noHeaderKey", "body">>
AgreementWrite == <<"target", "active", "media", "origin", "noHeaderKey", "body">>
RunWrite == <<"target", "active", "media", "origin", "noHeaderKey", "body">>
ImportWrite == <<"target", "active", "media", "origin", "noHeaderKey", "body">>

\* do_POST, of the routes of the support session and of customer review
SessionWrite == <<"media", "origin", "body">>
ProviderWrite == <<"target", "media", "origin", "body">>

CreateWrite == <<"target", "media", "origin", "body">>
ClosureWrite == <<"target", "known", "media", "origin", "body">>

\* The status a failed check is answered with.
CheckStatus(check) ==
    CASE check = "media" -> 415
      [] check = "origin" -> 403
      [] check \in {"active", "known"} -> 404
      [] check = "open" -> 409
      [] OTHER -> 400

-----------------------------------------------------------------------------
(* Statuses of the services' outcomes. *)

PerformanceStatus ==
    [done |-> 202, replayed |-> 200, invalid |-> 400, missing |-> 404, conflict |-> 409,
     full |-> 429, failed |-> 503]

SourceStatus ==
    [done |-> 201, replayed |-> 200, invalid |-> 422, missing |-> 404, conflict |-> 409,
     full |-> 503, failed |-> 503]

\* _runtime_error, with what an audio file or its provider is refused for
SttStatus ==
    [done |-> 201, replayed |-> 200, invalid |-> 400, missing |-> 404, conflict |-> 409,
     full |-> 503, failed |-> 503, unprocessable |-> 422, too_large |-> 413, format |-> 415,
     provider |-> 502, billing |-> 424, rate_limited |-> 429, timeout |-> 504]

MeetingStatus ==
    [done |-> 201, replayed |-> 200, invalid |-> 400, missing |-> 404, conflict |-> 409,
     full |-> 503, failed |-> 503]

ZoomGuidedStatus ==
    [done |-> 201, replayed |-> 200, invalid |-> 400, missing |-> 404, conflict |-> 409,
     full |-> 503, failed |-> 503]

ProposalStatus ==
    [done |-> 201, replayed |-> 200, invalid |-> 400, missing |-> 404, conflict |-> 409,
     full |-> 503, failed |-> 503]

DefinitionStatus ==
    [done |-> 201, replayed |-> 200, invalid |-> 400, missing |-> 404, conflict |-> 409,
     full |-> 503, failed |-> 503]

\* A freeze reads the agreement back, and answers the error of that read.
AgreementStatus ==
    [done |-> 201, replayed |-> 200, invalid |-> 400, missing |-> 404, conflict |-> 409,
     full |-> 503, failed |-> 503, unread |-> 409]

RunStatus ==
    [done |-> 202, replayed |-> 200, invalid |-> 400, missing |-> 404, conflict |-> 409,
     full |-> 429, failed |-> 503]

ImportStatus ==
    [done |-> 202, replayed |-> 200, invalid |-> 400, missing |-> 404, conflict |-> 409,
     full |-> 429, failed |-> 503]

\* do_POST answers a repetition like the first time; a link that has expired is
\* missing here.
SessionStatus ==
    [done |-> 200, replayed |-> 200, invalid |-> 400, missing |-> 404, conflict |-> 409,
     failed |-> 503]

CreateStatus ==
    [done |-> 201, replayed |-> 200, invalid |-> 400, conflict |-> 409, full |-> 503]

ClosureStatus ==
    [done |-> 201, replayed |-> 200, invalid |-> 400, conflict |-> 409, full |-> 503]

-----------------------------------------------------------------------------
(* Routes. *)

Routes ==
    [performance |-> [checks |-> PerformanceWrite, status |-> PerformanceStatus],
     zoom_guided |-> [checks |-> ZoomGuidedWrite, status |-> ZoomGuidedStatus],
     meeting     |-> [checks |-> MeetingWrite, status |-> MeetingStatus],
     stt         |-> [checks |-> SttWrite, status |-> SttStatus],
     source      |-> [checks |-> SourceWrite, status |-> SourceStatus],
     proposal    |-> [checks |-> ProposalWrite, status |-> ProposalStatus],
     definition  |-> [checks |-> DefinitionWrite, status |-> DefinitionStatus],
     prepare     |-> [checks |-> AgreementWrite, status |-> AgreementStatus],
     reissue     |-> [checks |-> AgreementWrite, status |-> AgreementStatus],
     freeze      |-> [checks |-> AgreementWrite, status |-> AgreementStatus],
     revision    |-> [checks |-> AgreementWrite, status |-> AgreementStatus],
     decision    |-> [checks |-> SessionWrite, status |-> SessionStatus],
     session     |-> [checks |-> SessionWrite, status |-> SessionStatus],
     provider    |-> [checks |-> ProviderWrite, status |-> SessionStatus],
     run         |-> [checks |-> RunWrite, status |-> RunStatus],
     import      |-> [checks |-> ImportWrite, status |-> ImportStatus],
     create      |-> [checks |-> CreateWrite, status |-> CreateStatus],
     closure     |-> [checks |-> ClosureWrite, status |-> ClosureStatus]]

AgreementRoutes == {"prepare", "reissue", "freeze", "revision"}

\* _performance_agreement_api_poc_id: the revision route names no POC.
AgreementScope == AgreementRoutes \ {"revision"}

\* The other parsers of paths name the POC of every write of theirs.
ScopedRoutes ==
    AgreementScope \cup {"zoom_guided", "meeting", "stt", "source", "proposal", "definition",
                         "run", "import", "decision", "session", "provider"}

-----------------------------------------------------------------------------
(***************************************************************************)
(* The tables by which the web APIs turn a method and a route into one      *)
(* operation of a service.                                                  *)
(* A request has a method, a route, a body that has the fields the route    *)
(* wants or not, and may name an object (a session, an attempt, a proposal) *)
(* of another POC than its path.  A dispatch yields [op, status]: op is     *)
(* "none" for a refusal.                                                    *)
(***************************************************************************)

Op(name) == [op |-> name, status |-> 200]
Refused(code) == [op |-> "none", status |-> code]

\* A body is for POST only, and of exactly the wanted fields.
Body(req, result) == IF req.fields THEN result ELSE Refused(400)
NoBody(req, result) == IF req.fields THEN Refused(400) ELSE result

ReadOps == {"read", "read_artifact", "page"}

-----------------------------------------------------------------------------
(* The APIs. *)

PerformanceDispatch(req) ==
    CASE req.method = "GET" /\ req.route \in {"readiness", "latest", "evidence", "operation"} ->
            NoBody(req, Op("read"))
      [] req.method = "POST" /\ req.route = "readiness" -> Body(req, Op("refresh_readiness"))
      [] req.method = "POST" /\ req.route = "runs" -> Body(req, Op("performance_start"))
      [] req.method \in {"GET", "POST"} -> Refused(404)
      [] OTHER -> Refused(405)

SourceDispatch(req) ==
    CASE req.method = "GET" /\ req.route = "collection" -> NoBody(req, Op("read"))
      [] req.method = "POST" /\ req.route = "sources" -> Body(req, Op("capture_source"))
      [] req.method \in {"GET", "POST"} -> Refused(404)
      [] OTHER -> Refused(405)

SttDispatch(req) ==
    CASE req.method = "GET" /\ req.route \in {"disclosure", "captures"} -> NoBody(req, Op("read"))
      [] req.method = "POST" /\ req.route = "consents" -> Body(req, Op("stt_consent"))
      [] req.method = "POST" /\ req.route = "captures" -> Body(req, Op("stt_capture"))
      [] req.method \in {"GET", "POST"} -> Refused(404)
      [] OTHER -> Refused(405)

MeetingDispatch(req) ==
    CASE req.method = "GET" /\ req.route \in {"disclosure", "current", "session"} ->
            NoBody(req, Op("read"))
      [] req.method = "POST" /\ req.route = "collection" -> Body(req, Op("meeting_create"))
      [] req.method = "POST" /\ req.route = "consent" -> Body(req, Op("meeting_consent"))
      [] req.method = "POST" /\ req.route = "start" -> Body(req, Op("meeting_start"))
      [] req.method = "POST" /\ req.route = "draft" -> Body(req, Op("meeting_draft"))
      [] OTHER -> Refused(405)

\* A proposal outside the agreement's current scope is not decided, although a
\* decision of it may be on record.
ProposalDispatch(req) ==
    CASE req.method = "GET" -> NoBody(req, Op("read"))
      [] req.method = "POST" /\ req.route # "decision" -> Refused(404)
      [] req.method = "POST" ->
            Body(req, IF req.current THEN Op("decide_proposal") ELSE Refused(404))
      [] OTHER -> Refused(405)

\* ... nor one defined that was not kept.
DefinitionDispatch(req) ==
    CASE req.route # "definitions" -> Refused(404)
      [] req.method = "GET" -> NoBody(req, Op("read"))
      [] req.method = "POST" ->
            Body(req, IF ~req.current THEN Refused(404)
                      ELSE IF ~req.kept THEN Refused(409)
                      ELSE Op("define"))
      [] OTHER -> Refused(405)

AuthoringDispatch(req) ==
    CASE req.route = "authoring" ->
            IF req.method = "POST" THEN Body(req, Op("create_assisted_draft")) ELSE Refused(405)
      [] req.route \in {"retained", "collection", "current_sources", "current_review"} ->
            IF req.method = "GET" THEN NoBody(req, Op("read")) ELSE Refused(405)
      [] OTHER -> Refused(400)

PlannerDispatch(req) ==
    CASE req.method = "GET" -> NoBody(req, Op("read"))
      [] req.method = "POST" -> Body(req, Op("plan"))
      [] OTHER -> Refused(405)

AgreementDispatch(req) ==
    CASE req.method = "GET" ->
            IF req.route = "collection" THEN NoBody(req, Op("read")) ELSE Refused(400)
      [] req.method = "POST" /\ req.route = "collection" -> Body(req, Op("agreement_prepare"))
      [] req.method = "POST" /\ req.route = "freeze" -> Body(req, Op("agreement_freeze"))
      [] req.method = "POST" /\ req.route = "revision" -> Body(req, Op("agreement_revise"))
      [] req.method = "POST" /\ req.route = "review" -> Body(req, Op("agreement_reissue"))
      [] OTHER -> Refused(405)

\* The review payload is read first, so a decision meets a link that was valid.
ReviewDispatch(req) ==
    CASE ~req.current -> Refused(404)
      [] req.method = "GET" -> NoBody(req, Op("read"))
      [] req.method = "POST" -> Body(req, Op("agreement_decide"))
      [] OTHER -> Refused(405)

\* Mutant: an attempt is found by its identity alone.
EvidenceDispatchAnyOwner(req) ==
    CASE req.method = "GET" /\ req.route \in {"collection", "pack"} -> NoBody(req, Op("read"))
      [] req.method = "POST" /\ req.route = "collection" -> Body(req, Op("evidence_start"))
      [] req.method = "POST" /\ req.route = "handoff" -> Body(req, Op("evidence_handoff"))
      [] req.method = "POST" /\ req.route = "stop" -> Body(req, Op("evidence_stop"))
      [] req.method \in {"GET", "POST"} -> Refused(400)
      [] OTHER -> Refused(405)

\* An attempt is found by its own identity, so its POC is compared.
EvidenceDispatch(req) ==
    CASE req.method = "GET" /\ req.route = "collection" -> NoBody(req, Op("read"))
      [] req.method = "GET" /\ req.route = "pack" ->
            NoBody(req, IF req.own THEN Op("read") ELSE Refused(404))
      [] req.method = "POST" /\ req.route = "collection" -> Body(req, Op("evidence_start"))
      [] req.method = "POST" /\ req.route = "handoff" ->
            Body(req, IF req.own THEN Op("evidence_handoff") ELSE Refused(404))
      [] req.method = "POST" /\ req.route = "stop" ->
            Body(req, IF req.own THEN Op("evidence_stop") ELSE Refused(404))
      [] req.method \in {"GET", "POST"} -> Refused(400)
      [] OTHER -> Refused(405)

\* Every refusal of the live Zoom service is a conflict; a receipt is only read.
ZoomLiveDispatch(req) ==
    CASE req.method = "GET" -> Op("read")
      [] req.method = "POST" /\ req.route = "receipt" -> Refused(405)
      [] req.method = "POST" -> Body(req, Op("zoom_action"))
      [] OTHER -> Refused(405)

ReferenceDispatch(req) ==
    IF req.method = "POST" THEN Body(req, Op("read")) ELSE Refused(405)

-----------------------------------------------------------------------------
(* Pages and projections of the browser server. *)

\* do_GET of web.py: pages of a POC need it to exist, some need it active, and
\* the proof page needs a frozen agreement.
PageDispatch(req) ==
    CASE req.method # "GET" -> Refused(405)
      [] req.route \in {"sources", "proposals"} -> IF req.known THEN Op("page") ELSE Refused(404)
      [] req.route \in {"definitions", "agreement"} ->
            IF req.known /\ req.active THEN Op("page") ELSE Refused(404)
      [] req.route = "proof" ->
            IF ~(req.known /\ req.active) THEN Refused(404)
            ELSE IF req.frozen THEN Op("page") ELSE Refused(409)
      [] req.route = "closure" -> IF req.known THEN Op("read") ELSE Refused(404)
      [] OTHER -> Op("read")

-----------------------------------------------------------------------------
(* The API of a path answers it. *)

Dispatch(api, req) ==
    CASE api = "performance" -> PerformanceDispatch(req)
      [] api = "source" -> SourceDispatch(req)
      [] api = "stt" -> SttDispatch(req)
      [] api = "meeting" -> MeetingDispatch(req)
      [] api = "proposal" -> ProposalDispatch(req)
      [] api = "definition" -> DefinitionDispatch(req)
      [] api = "authoring" -> AuthoringDispatch(req)
      [] api = "planner" -> PlannerDispatch(req)
      [] api = "agreement" -> AgreementDispatch(req)
      [] api = "review" -> ReviewDispatch(req)
      [] api = "evidence" -> EvidenceDispatch(req)
      [] api = "zoom_live" -> ZoomLiveDispatch(req)
      [] api = "reference" -> ReferenceDispatch(req)
      [] OTHER -> PageDispatch(req)

-----------------------------------------------------------------------------
(* Properties. *)

\* Whatever the API, state changes only for a POST with exactly the wanted
\* fields, on an object of the POC the path names that is in the current scope
\* of its agreement.
DispatchOwns(api, req) ==
    LET op == Dispatch(api, req).op IN
    op \notin ReadOps \cup {"none"} =>
        /\ req.method = "POST" /\ req.fields
        /\ api \in {"proposal", "definition", "review"} => req.current
        /\ api = "definition" => req.kept
        /\ op \in {"evidence_handoff", "evidence_stop"} => req.own
=============================================================================
