--------------------------- MODULE CompletionPolicy --------------------------
(***************************************************************************)
(* When an assignment of questions is complete, and with which score       *)
(* (assignmentCompletionPolicy). A question's latest attempt counts, with  *)
(* the grade of the instructor in place of its own score if it has one.    *)
(***************************************************************************)
EXTENDS Integers, FiniteSets

CONSTANTS
    Questions,  \* the questions of one content item
    Optional,   \* scoring.optional
    Manual,     \* scoring.gradingMode = "manual"
    MustPass,   \* scoring.mustPass
    Limit,      \* scoring.maxAttempts, of the questions that have one
    Points,     \* scoring.points
    None        \* "no document"

\* An attempt as it counts: PactQuestionAttempt with its grade.
Effective == [number : Nat, score : Nat, correct : BOOLEAN, graded : BOOLEAN]

ASSUME PolicyAssumption ==
    /\ Optional \subseteq Questions /\ Manual \subseteq Questions
    /\ MustPass \subseteq Questions
    /\ DOMAIN Limit \subseteq Questions /\ \A q \in DOMAIN Limit : Limit[q] \in Nat
    /\ Points \in [Questions -> Nat]
    /\ IsFiniteSet(Questions) /\ None \notin Effective

\* Mutant: one attempt too many.
AllowedOffByOne(q, count) == q \in DOMAIN Limit => count <= Limit[q]

\* assertQuestionAttemptAllowed.
Allowed(q, count) == q \in DOMAIN Limit => count < Limit[q]

Required == Questions \ Optional

\* In the following, latest[q] is the effective latest attempt of q or None.
Answered(latest) == {q \in Required : latest[q] # None}
PendingManual(latest) == {q \in Answered(latest) \cap Manual : ~latest[q].graded}
FailedMustPass(latest) == {q \in Answered(latest) \cap MustPass : ~latest[q].correct}
Exhausted(latest) == {q \in Answered(latest) \cap DOMAIN Limit : latest[q].number >= Limit[q]}

\* The sum of the scores, and of the points, as the number of single points: a sum
\* that needs no recursion.
PointsOf(q, n) == {q} \X (1..n)
Total(latest) == Cardinality(UNION {PointsOf(q, latest[q].score) : q \in Answered(latest)})
MaxTotal == Cardinality(UNION {PointsOf(q, Points[q]) : q \in Required})

\* Mutant: an ungraded manual answer does not hold the assignment back.
EvaluateIgnoringManual(latest) ==
    CASE Answered(latest) # Required -> "in_progress"
      [] Answered(latest) = Required /\ FailedMustPass(latest) # {} -> "failed_must_pass"
      [] OTHER -> "complete"

\* evaluateAssignmentCompletion.
Evaluate(latest) ==
    CASE Answered(latest) # Required -> "in_progress"
      [] Answered(latest) = Required /\ PendingManual(latest) # {} -> "pending_manual"
      [] Answered(latest) = Required /\ PendingManual(latest) = {}
            /\ FailedMustPass(latest) # {} -> "failed_must_pass"
      [] OTHER -> "complete"
=============================================================================
