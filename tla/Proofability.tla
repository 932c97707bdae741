----------------------------- MODULE Proofability -----------------------------
(***************************************************************************)
(* Planning before a run (proofability.py): which criteria of a frozen     *)
(* contract the observations a producer declares could prove.              *)
(*                                                                         *)
(* An observation reference is an element of a closed set; a document is a *)
(* record of its identity and of the identities it links to; an identity   *)
(* is the digest of the document, and one that is not is refused earlier.  *)
(* The sorted tuples of a report are sets here: the validator refuses      *)
(* repeats and any other order.                                            *)
(***************************************************************************)
EXTENDS Naturals, Sequences, FiniteSets

Native == "NATIVE_TTFT"
Semantic == "SEMANTIC_FIRST_NONEMPTY_TTFT"
Reliability == "MEASURED_ATTEMPT_RELIABILITY"
Observations == {Native, Semantic, Reliability}

MissingObservation == "MISSING_OBSERVATION"
AllAvailable == "ALL_REQUIRED_OBSERVATIONS_AVAILABLE"
Unmappable == "UNMAPPABLE_FROZEN_CRITERION_SCHEMA"

NoRemediation == "NO_REMEDIATION_REQUIRED"
DeclareObservation == "DECLARE_REQUIRED_OBSERVATION"
FreezeSchema == "FREEZE_PROVIDER_NEUTRAL_CRITERION_SCHEMA"

MaxCodes == 3       \* mismatches of a result, and its reasons
MaxResults == 64    \* criteria of a report

\* _incompatibility_reason_codes: the two latency references differ in their
\* definition and in their source field; a latency and a reliability reference
\* share no leaf but their kind.
IncompatibilityReasons(required, available) ==
    IF required = available THEN {}
    ELSE IF Reliability \in {required, available} THEN {"INCOMPATIBLE_RELIABILITY_BINDING"}
    ELSE {"INCOMPATIBLE_METRIC_DEFINITION", "INCOMPATIBLE_SOURCE_FIELD"}

Incompatible(required, available, reason) == [required |-> required, available |-> available, reason |-> reason]

\* Mutant: an observation counted twice is still counted.
PartitionExactAtLeast(r) ==
    \A o \in r.required :
        \/ o \in r.available
        \/ o \in r.missing
        \/ \E i \in r.incompatible : i.required = o

\* Every required observation is available, missing or incompatible, and one of them only.
PartitionExact(r) ==
    \A o \in r.required :
        Cardinality({s \in {"available", "missing"} : o \in r[s]}
                    \cup {"incompatible" : i \in {j \in r.incompatible : j.required = o}}) = 1

\* The reasons of a declared mismatch are the ones the two references have.
MismatchesExact(r) ==
    \A i \in r.incompatible :
        /\ i.required \in r.required
        /\ i.available \in r.available
        /\ i.required # i.available
        /\ {j.reason : j \in {k \in r.incompatible : k.required = i.required /\ k.available = i.available}}
             = IncompatibilityReasons(i.required, i.available)

\* require_canonical_tuple_order, within the limits of the fields
CriterionCoherent(r) ==
    /\ Cardinality(r.incompatible) <= MaxCodes
    /\ Cardinality(r.reasons) <= MaxCodes
    /\ \/ /\ r.disposition = "PROVABLE"
          /\ r.required # {} /\ r.required = r.available
          /\ r.missing = {} /\ r.incompatible = {}
          /\ r.reasons = {AllAvailable} /\ r.remediation = {NoRemediation}
       \/ /\ r.disposition = "CLARIFICATION_REQUIRED"
          /\ r.required = {} /\ r.missing = {} /\ r.incompatible = {}
          /\ r.reasons = {Unmappable} /\ r.remediation = {FreezeSchema}
       \/ /\ r.disposition = "NOT_PROVABLE"
          /\ r.required # {}
          /\ r.missing # {} \/ r.incompatible # {}
          /\ r.missing \subseteq r.required
          /\ r.missing \cap r.available = {}
          /\ MismatchesExact(r)
          /\ PartitionExact(r)
          /\ r.reasons = {i.reason : i \in r.incompatible}
                           \cup (IF r.missing # {} THEN {MissingObservation} ELSE {})
          /\ r.remediation = {DeclareObservation}
          /\ r.required # r.available

\* _available_observations: a descriptor has exactly these two fields, of one
\* observation each.
Available == {Native, Reliability}

Result(id, disposition, required, missing, reason, remediation) ==
    [id |-> id, disposition |-> disposition, required |-> required, available |-> Available,
     missing |-> missing, incompatible |-> {}, reasons |-> {reason}, remediation |-> {remediation}]

NativeResult(id) ==
    Result(id, "PROVABLE", {Native, Reliability}, {}, AllAvailable, NoRemediation)
SemanticResult(id) ==
    Result(id, "NOT_PROVABLE", {Semantic, Reliability}, {Semantic}, MissingObservation, DeclareObservation)
LegacyResult(id) == Result(id, "CLARIFICATION_REQUIRED", {}, {}, Unmappable, FreezeSchema)

\* _overall_disposition, over the dispositions of the criteria
OverallDisposition(ds) ==
    IF ds \subseteq {"PROVABLE"} THEN "PROVABLE"
    ELSE IF "PROVABLE" \in ds THEN "PARTIALLY_PROVABLE"
    ELSE IF "NOT_PROVABLE" \in ds THEN "NOT_PROVABLE"
    ELSE "CLARIFICATION_REQUIRED"

\* Mutant: the scope is taken to name the contract it was given with.
InputsLinkedLoosely(q) ==
    /\ q.context.protocol = "supported"
    /\ q.context.subject = q.subject.id
    /\ q.context.scope = q.scope.id
    /\ q.contract.frozen
    /\ q.descriptor.registered
    /\ q.descriptor.engine = q.subject.engine

\* _validated_inputs: the five documents are one question, of a frozen contract
\* and of a producer that is registered as it is.
InputsLinked(q) ==
    /\ q.context.protocol = "supported"
    /\ q.context.subject = q.subject.id
    /\ q.context.scope = q.scope.id
    /\ q.contract.frozen
    /\ q.scope.contract = q.contract.id
    /\ q.descriptor.registered
    /\ q.descriptor.engine = q.subject.engine

CriterionResult(criterion) ==
    CASE criterion.kind = "native" -> NativeResult(criterion.id)
      [] criterion.kind = "semantic" -> SemanticResult(criterion.id)
      [] OTHER -> LegacyResult(criterion.id)

\* _create_report
Report(q, results) ==
    [subject |-> q.subject.id, scope |-> q.scope.id, context |-> q.context.id, contract |-> q.contract.id,
     capability |-> q.descriptor.id, engine |-> q.descriptor.engine, results |-> results,
     overall |-> OverallDisposition({results[i].disposition : i \in DOMAIN results})]

\* The validators of a report.
ReportCoherent(r) ==
    /\ Len(r.results) \in 1 .. MaxResults
    /\ \A i, j \in DOMAIN r.results : r.results[i].id = r.results[j].id => i = j
    /\ \A i \in DOMAIN r.results : CriterionCoherent(r.results[i])
    /\ r.overall = OverallDisposition({r.results[i].disposition : i \in DOMAIN r.results})

\* evaluate_proofability; <<>> when the inputs or the report are refused
EvaluateProofability(q) ==
    LET results == [i \in DOMAIN q.contract.criteria |-> CriterionResult(q.contract.criteria[i])]
        report == Report(q, results)
    IN IF InputsLinked(q) /\ ReportCoherent(report) THEN <<report>> ELSE <<>>

\* verify_proofability_report
VerifyReport(report, q) == ReportCoherent(report) /\ EvaluateProofability(q) = <<report>>

\* A result that passes the validator says what its observations say: provable
\* exactly when all it requires is available, and an unavailable one is named
\* as missing or as mismatched, whoever wrote the report.
DispositionIsEarned(r) ==
    CriterionCoherent(r) =>
        /\ r.disposition = "PROVABLE" <=> (r.required # {} /\ r.required \subseteq r.available)
        /\ r.disposition = "NOT_PROVABLE" =>
              r.missing \cup {i.required : i \in r.incompatible} = r.required \ r.available

\* A report of one question verifies for that question only: with a document
\* of another question in the place of one of the five it is refused, and what
\* is evaluated is never refused by its own validators.
ReportIsOfTheQuestion(q, other) ==
    LET report == EvaluateProofability(q) IN
    /\ InputsLinked(q) => report # <<>>
    /\ report # <<>> =>
          /\ q.scope.contract = q.contract.id
          /\ VerifyReport(report[1], other) <=> other = q

-----------------------------------------------------------------------------
(***************************************************************************)
(* One request to the proofability workspace over a connection that may be *)
(* kept alive (proofability_workspace_web.py).  A request is a record:     *)
(*   form    "origin", "absolute" or "other" request target                *)
(*   target  "api", "page" or "none"; exact: the path and nothing else     *)
(*   method, encoding and keyHeader (Transfer-Encoding, Idempotency-Key)   *)
(*   lengths the Content-Length tokens: "zero", "some", "huge", "bad"      *)
(*   media, origin: accepted or not                                        *)
(*   body    "short", "deep", "bad", "list", "other fields" or "fields"    *)
(* An answer has the status "ok" if the workspace is called, whatever it   *)
(* answers: from then on no answer closes the connection.                  *)
(***************************************************************************)

Http(handled, status, closed, unread, calls) ==
    [handled |-> handled, status |-> status, closed |-> closed, unread |-> unread, calls |-> calls]

HasBody(q) == \E i \in DOMAIN q.lengths : q.lengths[i] # "zero"
Unread(q, status, closed) == Http(TRUE, status, closed, HasBody(q) \/ q.encoding, "none")
AfterBody(status, closed) == Http(TRUE, status, closed, FALSE, "none")

\* _classify_target
Claimed(q) == q.form \in {"origin", "absolute"} /\ q.target # "none"
ExactTarget(q) == q.form = "origin" /\ q.exact

ConsumesBody(q) == q.target = "api" /\ q.method = "POST"

\* _framing: the status of the refusal, "ok" if there is none
Framing(q) ==
    IF q.encoding \/ q.keyHeader THEN "INVALID_REQUEST"
    ELSE IF Len(q.lengths) > 1 \/ (ConsumesBody(q) /\ Len(q.lengths) # 1) THEN "INVALID_REQUEST"
    ELSE IF q.lengths = <<>> THEN "ok"
    ELSE IF q.lengths[1] = "bad" \/ (~ConsumesBody(q) /\ q.lengths[1] # "zero") THEN "INVALID_REQUEST"
    ELSE IF q.lengths[1] = "huge" THEN "PAYLOAD_TOO_LARGE"
    ELSE "ok"

\* Mutant: a refusal of the media type keeps the connection.
RefuseUnreadKeeping(q, status) == Unread(q, status, FALSE)

\* A refusal before the body is read closes the connection if there is one.
RefuseUnread(q, status) == Unread(q, status, HasBody(q))

\* _read_json and the exact fields
ReadFields(q) ==
    IF q.lengths[1] = "zero" THEN AfterBody("INVALID_REQUEST", FALSE)
    ELSE CASE q.body = "short" -> AfterBody("INVALID_REQUEST", TRUE)
           [] q.body = "deep" -> AfterBody("PAYLOAD_TOO_LARGE", FALSE)
           [] q.body \in {"bad", "list", "other fields"} -> AfterBody("INVALID_REQUEST", FALSE)
           [] OTHER -> Http(TRUE, "ok", FALSE, FALSE, "create")

\* handle_proofability_workspace_http
Handle(q) ==
    IF ~Claimed(q) THEN Http(FALSE, "none", FALSE, HasBody(q), "none")
    ELSE IF Framing(q) # "ok" THEN Unread(q, Framing(q), TRUE)
    ELSE IF ~ExactTarget(q) THEN RefuseUnread(q, "INVALID_REQUEST")
    ELSE IF (q.target = "api" /\ q.method \notin {"GET", "POST"}) \/ (q.target = "page" /\ q.method # "GET")
    THEN Unread(q, "METHOD_NOT_ALLOWED", FALSE)
    ELSE IF q.target = "page" THEN Http(TRUE, "ok", FALSE, HasBody(q), "require_active_poc")
    ELSE IF q.method = "GET" THEN Http(TRUE, "ok", FALSE, HasBody(q), "get")
    ELSE IF ~q.media THEN RefuseUnread(q, "UNSUPPORTED_MEDIA_TYPE")
    ELSE IF ~q.origin THEN RefuseUnread(q, "ORIGIN_FORBIDDEN")
    ELSE ReadFields(q)

\* Whatever is refused, and at which check, the next request of the connection
\* does not begin inside the body of this one: it was read, or the connection
\* is closed.  And only a complete, exact POST from this page reaches create.
NextRequestIsWhole(q) ==
    LET r == Handle(q) IN
    /\ r.handled /\ ~r.closed => ~r.unread
    /\ r.calls = "create" =>
          /\ ExactTarget(q) /\ ConsumesBody(q) /\ q.media /\ q.origin /\ q.body = "fields"
          /\ ~q.encoding /\ Len(q.lengths) = 1
    /\ q.method \notin {"GET", "POST"} => r.calls = "none"
=============================================================================
