------------------------------ MODULE Verdicts ------------------------------
(***************************************************************************)
(* The verdict of one proportion criterion (evaluate_proportion_criterion  *)
(* of verdicts, wilson_interval of statistics), and how the results of     *)
(* criteria come to one verdict (reduce_criterion_results and              *)
(* _evaluate_record of poc_evidence_orchestration, aggregate_overall_      *)
(* verdict of verdicts).                                                   *)
(*                                                                         *)
(* Proportions: the threshold is a / Scale, and z squared, the square of   *)
(* the normal quantile of the confidence level, is ZNum / ZDen.  The       *)
(* code's floating-point formula for the lower end of the Wilson interval  *)
(* is compared with the threshold exactly, after multiplying out its       *)
(* denominators; rounding is left out.                                     *)
(*                                                                         *)
(* Results: criteria are a function from the identifiers of the frozen     *)
(* contract; identifiers are unique in a contract.  Of a result only its   *)
(* identifier, its verdict and whether its scope, disposition and          *)
(* exclusion equal the criterion's are kept.  Reasons and limitation texts *)
(* are left out; which criteria the reduction lists is kept.               *)
(***************************************************************************)
EXTENDS Integers, Sequences, FiniteSets

CONSTANTS
    Scale,          \* denominator of thresholds
    ZNum, ZDen,     \* z squared
    NoVerdict       \* verdict None of a result rejected at ingestion

VerdictStatuses == {"PASS", "NOT_PROVEN", "BLOCKED", "FAIL"}

Supported == {"EXECUTABLE", "EVIDENCE_IMPORT"}

ASSUME ProportionAssumption ==
    /\ Scale \in Nat \ {0} /\ ZNum \in Nat \ {0} /\ ZDen \in Nat \ {0}

ASSUME VerdictsAssumption == NoVerdict \notin VerdictStatuses

-----------------------------------------------------------------------------
(***************************************************************************)
(* One proportion criterion.                                               *)
(***************************************************************************)

\* external_blocked_reason, internal_error, missing references, and metadata,
\* workload hash or artifact integrity that is not as required
Flaws == {"none", "blocked", "internal", "no_refs", "invalid"}

\* center - margin >= threshold, multiplied by twice all denominators

Square(x) == x * x

\* Mutant: the continuity term of the center is dropped.
CenterPlain(a, k, m) ==
    2 * Scale * ZDen * k - 2 * a * (m * ZDen + ZNum)

\* center - threshold
CenterGap(a, k, m) ==
    2 * Scale * ZDen * k + Scale * ZNum - 2 * a * (m * ZDen + ZNum)

\* The square of the gap is at least the square of the margin.
MarginMet(gap, k, m) ==
    (Square(gap) - Square(Scale * ZNum)) * m
        >= 4 * Square(Scale) * ZDen * ZNum * k * (m - k)

\* wilson_lower_bound >= threshold; the bound is never negative.
LowerBoundMeets(a, k, m) ==
    \/ a = 0
    \/ CenterGap(a, k, m) >= 0 /\ MarginMet(CenterGap(a, k, m), k, m)

\* observed_rate < threshold
Below(a, k, m) == Scale * k < a * m

\* evaluate_proportion_criterion, its early returns in order, of k successes
\* in m samples
EvaluateProportion(rule, flaw, m, k) ==
    IF flaw = "blocked" THEN "BLOCKED"
    ELSE IF flaw = "internal" THEN "NOT_PROVEN"
    ELSE IF flaw = "no_refs" /\ m > 0 THEN "NOT_PROVEN"
    ELSE IF flaw = "invalid" THEN "NOT_PROVEN"
    ELSE IF m < rule.minimum THEN "NOT_PROVEN"
    ELSE IF Below(rule.threshold, k, m) THEN "FAIL"
    ELSE IF LowerBoundMeets(rule.threshold, k, m) THEN "PASS"
    ELSE "NOT_PROVEN"

\* The reference: the threshold lies at or below the Wilson interval exactly if
\* the score test rejects it, that is if the observed rate is above it by at
\* least z standard errors taken at the threshold itself.  A threshold of one is
\* the upper end of the interval when every sample succeeds, and is never met.
ScoreTest(a, k, m) ==
    /\ a < Scale
    /\ Scale * k >= a * m
    /\ ZDen * Square(Scale * k - a * m) >= ZNum * a * (Scale - a) * m

LOCAL Rank(v) == IF v = "PASS" THEN 0 ELSE IF v = "FAIL" THEN 2 ELSE 1

\* A measurement without a flaw and with enough samples passes exactly if the
\* score test does and fails exactly if its rate is below the threshold; any
\* other measurement is no evidence, neither for the claim nor against it.
\* Once there are enough samples, a further success never worsens the verdict
\* and a further miss never improves it.
ProportionIsTheScoreTest(rule, flaw, n, s) ==
    LET verdict == EvaluateProportion(rule, flaw, n, s) IN
    /\ IF flaw = "none" /\ n >= rule.minimum
       THEN /\ verdict = "PASS" <=> ScoreTest(rule.threshold, s, n)
            /\ verdict = "FAIL" <=> Scale * s < rule.threshold * n
       ELSE verdict \notin {"PASS", "FAIL"}
    /\ n >= rule.minimum =>
         /\ Rank(EvaluateProportion(rule, flaw, n + 1, s + 1)) <= Rank(verdict)
         /\ Rank(EvaluateProportion(rule, flaw, n + 1, s)) >= Rank(verdict)

-----------------------------------------------------------------------------
(***************************************************************************)
(* The reduction.                                                          *)
(***************************************************************************)

Retained(crit) == {c \in DOMAIN crit : ~crit[c].excluded}
MustHave(crit) == {c \in Retained(crit) : crit[c].must}

ActualIds(res) == {res[i].id : i \in DOMAIN res}

\* Mutant: a repeated identifier is not noticed.
RepeatsIgnored(res) == {}

\* duplicate_ids
Duplicates(res) ==
    {c \in ActualIds(res) : \E i, j \in DOMAIN res : i # j /\ res[i].id = c /\ res[j].id = c}

\* Mutant: results of other criteria are ignored.
ExtrasIgnored(crit, res) ==
    Duplicates(res) = {} /\ Retained(crit) \subseteq ActualIds(res)

\* Every retained criterion has exactly one result, and no other is there.
CriteriaCovered(crit, res) ==
    /\ Duplicates(res) = {}
    /\ ActualIds(res) \subseteq DOMAIN crit
    /\ Retained(crit) \subseteq ActualIds(res)

\* by_id: the last result of an identifier
ById(res, c) ==
    res[CHOOSE i \in DOMAIN res :
            res[i].id = c /\ \A j \in DOMAIN res : res[j].id = c => j <= i]

\* mismatched_ids is empty.
Agrees(crit, res) ==
    \A c \in DOMAIN crit \cap ActualIds(res) : ById(res, c).agrees

OrNotProven(v) == IF v = NoVerdict THEN "NOT_PROVEN" ELSE v

\* The precedence of the legacy runner: nothing to establish passes.
LegacyPrecedence(statuses) ==
    IF "FAIL" \in statuses THEN "FAIL"
    ELSE IF "BLOCKED" \in statuses THEN "BLOCKED"
    ELSE IF "NOT_PROVEN" \in statuses THEN "NOT_PROVEN" ELSE "PASS"

\* Mutant: an external block hides a failure.
BlockedFirst(statuses) ==
    IF statuses = {} THEN "NOT_PROVEN"
    ELSE IF "BLOCKED" \in statuses THEN "BLOCKED"
    ELSE IF "FAIL" \in statuses THEN "FAIL"
    ELSE IF "NOT_PROVEN" \in statuses THEN "NOT_PROVEN" ELSE "PASS"

\* FAIL before BLOCKED before NOT_PROVEN; nothing to establish is NOT_PROVEN.
Precedence(statuses) ==
    IF statuses = {} THEN "NOT_PROVEN"
    ELSE IF "FAIL" \in statuses THEN "FAIL"
    ELSE IF "BLOCKED" \in statuses THEN "BLOCKED"
    ELSE IF "NOT_PROVEN" \in statuses THEN "NOT_PROVEN" ELSE "PASS"

\* Mutant: advisory criteria count as well.
GatingAll(crit) == Retained(crit)

\* The criteria whose verdicts are reduced.
Gating(crit) == MustHave(crit)

\* advisory_non_pass
AdvisoryNonPass(crit, res) ==
    {c \in (Retained(crit) \ MustHave(crit)) \cap ActualIds(res) :
        ById(res, c).verdict # "PASS"}

ReducedVerdict(crit, res) ==
    IF CriteriaCovered(crit, res) /\ Agrees(crit, res)
    THEN Precedence({OrNotProven(ById(res, c).verdict) : c \in Gating(crit)})
    ELSE "NOT_PROVEN"

Reduce(crit, res) ==
    [verdict |-> ReducedVerdict(crit, res),
     advisory |-> AdvisoryNonPass(crit, res),
     exclusions |-> DOMAIN crit \ Retained(crit),
     unsupported |-> {c \in Retained(crit) : crit[c].disposition \notin Supported}]

\* aggregate_overall_verdict of the legacy runner: no exclusions, results that
\* are missing make NOT_PROVEN, a criterion set without a must-have passes.
Aggregate(crit, res) ==
    LET must == {c \in DOMAIN crit : crit[c].must}
    IN IF ~(must \subseteq ActualIds(res)) THEN "NOT_PROVEN"
       ELSE LegacyPrecedence({ById(res, c).verdict : c \in must})

-----------------------------------------------------------------------------
(***************************************************************************)
(* The evaluation loop, one criterion after the other.                     *)
(***************************************************************************)

\* What _evaluate_record may say of criterion k: an excluded or unsupported one
\* is NOT_PROVEN, the fixture's rule gives a verdict, an import gives a verdict
\* or is rejected.
Evaluations(k) ==
    IF k.excluded \/ k.disposition \notin Supported THEN {"NOT_PROVEN"}
    ELSE IF k.disposition = "EXECUTABLE" THEN VerdictStatuses
    ELSE VerdictStatuses \cup {NoVerdict}

\* The results are those of the loop.
FromLoop(crit, res) ==
    /\ ActualIds(res) = DOMAIN crit /\ Len(res) = Cardinality(DOMAIN crit)
    /\ \A i \in DOMAIN res : res[i].agrees /\ res[i].verdict \in Evaluations(crit[res[i].id])

-----------------------------------------------------------------------------
(***************************************************************************)
(* Properties.                                                             *)
(***************************************************************************)

\* PASS is earned: there is a must-have criterion, each of them is spoken for by
\* exactly one result, which passed and agrees with the plan, no result speaks
\* for a criterion the contract does not have, and every result that did not
\* pass is listed by the reduction as advisory or excluded.  The evaluation loop
\* never runs into the identity checks, and a must-have criterion the plan could
\* not support never passes.
VerdictIsEarned(crit, res) ==
    LET r == Reduce(crit, res)
        speaking(c) == {i \in DOMAIN res : res[i].id = c}
    IN  /\ r.verdict = "PASS" =>
             /\ MustHave(crit) # {}
             /\ \A c \in MustHave(crit) :
                  /\ Cardinality(speaking(c)) = 1
                  /\ \A i \in speaking(c) : res[i].verdict = "PASS" /\ res[i].agrees
             /\ \A i \in DOMAIN res :
                  /\ res[i].id \in DOMAIN crit
                  /\ res[i].verdict # "PASS" => res[i].id \in r.advisory \cup r.exclusions
        /\ FromLoop(crit, res) =>
             /\ CriteriaCovered(crit, res) /\ Agrees(crit, res)
             /\ (\E c \in MustHave(crit) : crit[c].disposition \notin Supported)
                  => r.verdict # "PASS"

\* The reduction depends on what the results say and not on how they come: their
\* order does not matter although by_id keeps the last one of an identifier, an
\* advisory or excluded result never gates, and on complete results of a
\* contract with a must-have criterion and without exclusions it agrees with the
\* reduction of the older runner.
ReductionsConsistent(crit, res) ==
    LET verdict == ReducedVerdict(crit, res) IN
    /\ \A i, j \in DOMAIN res :
         ReducedVerdict(crit, [res EXCEPT ![i] = res[j], ![j] = res[i]]) = verdict
    /\ \A i \in DOMAIN res, v \in VerdictStatuses :
         res[i].id \notin MustHave(crit) =>
            ReducedVerdict(crit, [res EXCEPT ![i].verdict = v]) = verdict
    /\ (/\ CriteriaCovered(crit, res) /\ Agrees(crit, res)
        /\ Retained(crit) = DOMAIN crit /\ MustHave(crit) # {}
        /\ \A i \in DOMAIN res : res[i].verdict # NoVerdict) =>
            Aggregate(crit, res) = verdict

=============================================================================
