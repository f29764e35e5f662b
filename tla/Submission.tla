------------------------------ MODULE Submission ------------------------------
(***************************************************************************)
(* The work of one learner on one individually scored content item: answers *)
(* to its questions, saved progress, direct scores and the grades of        *)
(* instructors, each a request of several awaits on the database, and the   *)
(* score that a completed assignment gets.                                 *)
(*                                                                         *)
(* The publish of the score, before the saves, has no step of its own here: *)
(* it may fail the request. AgsPublish models it in detail.                *)
(***************************************************************************)
EXTENDS CompletionPolicy

CONSTANTS
    Requests,   \* concurrent requests of the learner and of instructors
    Kinds,      \* the kinds of request these make
    Assessing,  \* whether the content may be an assessment: in BOOLEAN
    Scores,     \* the scores that clients send
    Sent,       \* the sets of answers that clients send when they save
    SentStatus, \* the statuses that they send
    Pool,       \* bound: question attempts over a behaviour
    MaxFaults   \* bound: failed calls in a behaviour

Times == 1..Pool
RequestKinds == {"answer", "autosave", "direct", "grade", "instructor"}
Statuses == {"not_started", "in_progress", "submitted"}

Attempt == [question : Questions, number : Nat, score : Nat, correct : BOOLEAN]
Grade == [score : Nat, correct : BOOLEAN]
Progress == [status : Statuses, answers : SUBSET Questions, started : BOOLEAN]
Score == [total : Nat, origin : {"questions", "direct", "instructor"}]
Writes == {"score", "find", "progress"}

\* A running request: what it is about, what it has read, what it will write.
Request == [kind : RequestKinds,
            pc : {"count", "number", "insert", "merge", "grade", "latest", "grades",
                  "save"},
            question : Questions \cup {None}, at : Times \cup {None},
            number : Nat, score : Nat,
            answers : SUBSET Questions, keep : BOOLEAN, status : Statuses \cup {None},
            start : BOOLEAN,
            seen : Progress \cup {None}, latest : [Questions -> Times \cup {None}],
            todo : SUBSET Writes]

ASSUME SubmissionAssumption ==
    /\ Pool \in Nat /\ MaxFaults \in Nat
    /\ Kinds \subseteq RequestKinds /\ Assessing \subseteq BOOLEAN
    /\ Scores \subseteq Nat
    /\ Sent \subseteq SUBSET Questions /\ SentStatus \subseteq Statuses
    /\ IsFiniteSet(Requests) /\ Requests # {}
ASSUME NoDocumentAssumption ==
    /\ None \notin Attempt /\ None \notin Grade /\ None \notin Score
    /\ None \notin Request /\ None \notin Progress
    /\ None \notin Nat /\ None \notin Questions /\ None \notin Statuses

VARIABLES
    assessment,  \* whether the content is an assessment
    attempts,    \* pactQuestionAttempts, by submittedAt
    grades,      \* pactQuestionGrades, by attempt
    clock,       \* the next submittedAt
    progress,    \* the learner's pactContentProgress
    score,       \* the learner's pactScores
    req,         \* the running requests
    faults       \* how many calls have failed

documents == <<attempts, grades, progress, score>>
vars == <<assessment, documents, clock, req, faults>>

-----------------------------------------------------------------------------
(* What the documents say.                                                 *)

AttemptsOf(q) == {t \in Times : attempts[t] # None /\ attempts[t].question = q}

LatestId(q) == IF AttemptsOf(q) = {} THEN None
               ELSE CHOOSE t \in AttemptsOf(q) : \A u \in AttemptsOf(q) : u <= t

LatestIds == [q \in Questions |-> LatestId(q)]

\* An attempt with its grade.
Effectively(t) ==
    IF grades[t] # None
    THEN [number |-> attempts[t].number, score |-> grades[t].score,
          correct |-> grades[t].correct, graded |-> TRUE]
    ELSE [number |-> attempts[t].number, score |-> attempts[t].score,
          correct |-> attempts[t].correct, graded |-> FALSE]

\* effectiveLatestQuestionAttempts, from the attempts that were listed.
EffectiveLatest(ids) ==
    [q \in Questions |-> IF ids[q] = None THEN None ELSE Effectively(ids[q])]

\* Mutant: that the assessment was submitted is not looked at.
CanSubmitAgain == assessment => progress.started

\* assertAssessmentCanSubmit.
CanSubmit == assessment => progress.status # "submitted" /\ progress.started

-----------------------------------------------------------------------------
(* Requests. Begin reads what the handler reads before its first write.    *)

NewRequest(kind, pc) ==
    [kind |-> kind, pc |-> pc, question |-> None, at |-> None, number |-> 0,
     score |-> 0, answers |-> {}, keep |-> TRUE, status |-> None, start |-> FALSE, seen |-> None,
     latest |-> [q \in Questions |-> None], todo |-> {}]

Begin(r, rec) ==
    /\ req[r] = None /\ rec.kind \in Kinds
    /\ req' = [req EXCEPT ![r] = rec]
    /\ UNCHANGED <<assessment, documents, clock, faults>>

Room == clock + Cardinality({r \in Requests : req[r] # None}) <= Pool

\* submitQuestionAttempt; the answers to save are those seen now and this one.
Answer(r, q) ==
    /\ CanSubmit /\ Room
    /\ Begin(r, [NewRequest("answer", "count") EXCEPT
                   !.question = q, !.answers = progress.answers \cup {q},
                   !.keep = FALSE])

\* updateContentProgress: answers that are sent replace the saved ones, and the
\* status is the client's if it sends one.
Autosave(r, answers, keep, status, start) ==
    /\ assessment => progress.status # "submitted"
    /\ Begin(r, [NewRequest("autosave", "save") EXCEPT
                   !.answers = answers, !.keep = keep,
                   !.status = status, !.start = start,
                   !.todo = {"find"}])

\* submitScore, complete or not.
SubmitScore(r, n, complete) ==
    /\ CanSubmit
    /\ Begin(r, [NewRequest("direct", "save") EXCEPT
                   !.score = n, !.todo = {"score", "find"},
                   !.status = IF complete THEN "submitted" ELSE "in_progress"])

\* gradeContentSubmission.
GradeContent(r, n) ==
    Begin(r, [NewRequest("instructor", "save") EXCEPT
                !.score = n, !.todo = {"score", "find"}, !.status = "submitted"])

\* Mutant: the instructor's score is not checked.
GradeAttemptUnbounded(r, t, n) ==
    /\ attempts[t] # None
    /\ attempts[t].question \in Manual
    /\ Begin(r, [NewRequest("grade", "grade") EXCEPT !.at = t, !.score = n])

\* gradeManualQuestionAttempt: the grade is at most the question's points.
GradeAttempt(r, t, n) ==
    /\ attempts[t] # None
    /\ attempts[t].question \in Manual
    /\ n <= Points[attempts[t].question]
    /\ Begin(r, [NewRequest("grade", "grade") EXCEPT !.at = t, !.score = n])

Step(r, pc) == req[r] # None /\ req[r].pc = pc

\* The limit is checked on a count; recordQuestionAttempt then takes the time ...
Count(r) ==
    /\ Step(r, "count")
    /\ IF Allowed(req[r].question, Cardinality(AttemptsOf(req[r].question)))
       THEN /\ req' = [req EXCEPT ![r].pc = "number", ![r].at = clock]
            /\ clock' = clock + 1
       ELSE /\ req' = [req EXCEPT ![r] = None]
            /\ UNCHANGED clock
    /\ UNCHANGED <<assessment, documents, faults>>

\* ... counts again for the attempt's number ...
Number(r) ==
    /\ Step(r, "number")
    /\ req' = [req EXCEPT ![r].pc = "insert",
                          ![r].number = Cardinality(AttemptsOf(req[r].question)) + 1]
    /\ UNCHANGED <<assessment, documents, clock, faults>>

\* ... and inserts it. A manual question scores nothing by itself.
Insert(r) ==
    /\ Step(r, "insert")
    /\ LET q == req[r].question
       IN \E n \in 0..Points[q] :
          /\ q \in Manual => n = 0
          /\ attempts' = [attempts EXCEPT ![req[r].at] =
                            [question |-> q, number |-> req[r].number, score |-> n,
                             correct |-> q \notin Manual /\ n >= Points[q]]]
    /\ req' = [req EXCEPT ![r].pc = "merge", ![r].todo = {"find"}, ![r].at = None,
                          ![r].number = 0]
    /\ UNCHANGED <<assessment, grades, progress, score, clock, faults>>

\* Mutant: grading does not evaluate the assignment.
UpsertGradeOnly(r) ==
    /\ Step(r, "grade")
    /\ LET t == req[r].at
       IN grades' = [grades EXCEPT ![t] =
            [score |-> req[r].score,
             correct |-> req[r].score >= Points[attempts[t].question]]]
    /\ req' = [req EXCEPT ![r] = None]
    /\ UNCHANGED <<assessment, attempts, progress, score, clock, faults>>

\* upsertQuestionGrade: a new grade replaces an older one.
UpsertGrade(r) ==
    /\ Step(r, "grade")
    /\ LET t == req[r].at
       IN grades' = [grades EXCEPT ![t] =
            [score |-> req[r].score,
             correct |-> req[r].score >= Points[attempts[t].question]]]
    /\ req' = [req EXCEPT ![r].pc = "latest", ![r].at = None]
    /\ UNCHANGED <<assessment, attempts, progress, score, clock, faults>>

\* A request whose writes are done goes on to the evaluation or answers.
Continue(rec, written) ==
    IF rec.todo # {written} THEN [rec EXCEPT !.todo = @ \ {written}]
    ELSE IF rec.pc = "merge" THEN NewRequest(rec.kind, "latest")
    ELSE None

\* upsertContentProgress reads the record and writes it back whole. submitScore
\* saves the score first, the others save both at once.
FindProgress(r) ==
    /\ req[r] # None /\ req[r].pc \in {"merge", "save"} /\ "find" \in req[r].todo
    /\ req[r].kind = "direct" => "score" \notin req[r].todo
    /\ req' = [req EXCEPT ![r].seen = progress,
                          ![r].todo = (@ \ {"find"}) \cup {"progress"}]
    /\ UNCHANGED <<assessment, documents, clock, faults>>

\* Mutant: no status is derived.
NewProgressUnderived(rec) ==
    [status |-> rec.status, started |-> rec.seen.started \/ rec.start,
     answers |-> IF rec.keep THEN rec.seen.answers ELSE rec.answers]

\* Without a status from the caller, any answer means in progress.
NewProgress(rec) ==
    LET answers == IF rec.keep THEN rec.seen.answers ELSE rec.answers
    IN [status |-> IF rec.status # None THEN rec.status
                   ELSE IF answers = {} THEN "not_started" ELSE "in_progress",
        answers |-> answers,
        started |-> rec.seen.started \/ rec.start]

WriteProgress(r) ==
    /\ req[r] # None /\ "progress" \in req[r].todo
    /\ progress' = NewProgress(req[r])
    /\ req' = [req EXCEPT ![r] = Continue(req[r], "progress")]
    /\ UNCHANGED <<assessment, attempts, grades, score, clock, faults>>

\* finalizeCompletedQuestionContent lists the latest attempts ...
ListLatest(r) ==
    /\ Step(r, "latest")
    /\ req' = [req EXCEPT ![r].pc = "grades", ![r].latest = LatestIds]
    /\ UNCHANGED <<assessment, documents, clock, faults>>

\* ... then their grades, and goes on if the assignment is complete.
ListGrades(r) ==
    /\ Step(r, "grades")
    /\ LET latest == EffectiveLatest(req[r].latest)
       IN req' = [req EXCEPT ![r] =
            IF Evaluate(latest) # "complete" THEN None
            ELSE [NewRequest(req[r].kind, "save") EXCEPT
                    !.score = Total(latest), !.todo = {"score", "find"},
                    !.status = "submitted"]]
    /\ UNCHANGED <<assessment, documents, clock, faults>>

Origin(kind) == IF kind \in {"answer", "grade"} THEN "questions" ELSE kind

\* Mutant: a score is never replaced.
SaveScoreOnce(r) ==
    /\ Step(r, "save") /\ "score" \in req[r].todo
    /\ score' = IF score # None THEN score
                ELSE [total |-> req[r].score, origin |-> Origin(req[r].kind)]
    /\ req' = [req EXCEPT ![r] = Continue(req[r], "score")]
    /\ UNCHANGED <<assessment, attempts, grades, progress, clock, faults>>

SaveScore(r) ==
    /\ Step(r, "save") /\ "score" \in req[r].todo
    /\ score' = [total |-> req[r].score, origin |-> Origin(req[r].kind)]
    /\ req' = [req EXCEPT ![r] = Continue(req[r], "score")]
    /\ UNCHANGED <<assessment, attempts, grades, progress, clock, faults>>

\* A call fails or the process dies and the request ends; of two saves at once the
\* other one goes on.
Fail(r) ==
    /\ faults < MaxFaults /\ faults' = faults + 1
    /\ req[r] # None
    /\ \/ req' = [req EXCEPT ![r] = None]
       \/ /\ req[r].pc = "save" /\ req[r].kind # "direct"
          /\ \E w \in req[r].todo :
               req' = [req EXCEPT ![r] = Continue(req[r], w)]
    /\ UNCHANGED <<assessment, documents, clock>>

-----------------------------------------------------------------------------
Init ==
    /\ assessment \in Assessing
    /\ attempts = [t \in Times |-> None]
    /\ grades = [t \in Times |-> None]
    /\ clock = 1
    /\ progress = [status |-> "not_started", answers |-> {}, started |-> FALSE]
    /\ score = None
    /\ req = [r \in Requests |-> None]
    /\ faults = 0

Start(r) ==
    \/ \E q \in Questions : Answer(r, q)
    \/ \E status \in SentStatus \cup {None}, start \in BOOLEAN :
          \/ Autosave(r, {}, TRUE, status, start)
          \/ \E answers \in Sent : Autosave(r, answers, FALSE, status, start)
    \/ \E n \in Scores : \/ GradeContent(r, n)
                         \/ \E complete \in BOOLEAN : SubmitScore(r, n, complete)
                         \/ \E t \in Times : GradeAttempt(r, t, n)

Proceed(r) ==
    \/ Count(r)
    \/ Number(r)
    \/ Insert(r)
    \/ UpsertGrade(r)
    \/ FindProgress(r)
    \/ WriteProgress(r)
    \/ ListLatest(r)
    \/ ListGrades(r)
    \/ SaveScore(r)

Next == \E r \in Requests : Start(r) \/ Proceed(r) \/ Fail(r)

Spec == Init /\ [][Next]_vars

-----------------------------------------------------------------------------
(* Properties                                                              *)

TypeOK ==
    /\ assessment \in BOOLEAN
    /\ attempts \in [Times -> Attempt \cup {None}]
    /\ grades \in [Times -> Grade \cup {None}]
    /\ clock \in 1..(Pool + 1)
    /\ progress \in Progress
    /\ score \in Score \cup {None}
    /\ req \in [Requests -> Request \cup {None}]
    /\ faults \in 0..MaxFaults

Quiet == \A r \in Requests : req[r] = None
Complete == Evaluate(EffectiveLatest(LatestIds)) = "complete"

\* A score that an assignment got by its questions stands for work: each required
\* question was answered, each manual one of them graded, and an automatic
\* must-pass one answered correctly, whatever requests ran at once or failed.
ScoreNeedsWork ==
    score # None /\ score.origin = "questions" =>
       \A q \in Required :
          /\ AttemptsOf(q) # {}
          /\ q \in Manual => \E t \in AttemptsOf(q) : grades[t] # None
          /\ q \in MustPass \ Manual => \E t \in AttemptsOf(q) : attempts[t].correct

\* Whoever does the last piece of work, the learner in one of two tabs or an
\* instructor in between, somebody notices: when nothing runs any more and no
\* call failed, a complete assignment has its score.
CompleteIsScored == Quiet /\ faults = 0 /\ Complete => score # None

\* The limit of attempts is checked before the insert, so concurrent requests may
\* exceed it, but by no more than one attempt each beyond the first.
AttemptsWithinSlack ==
    \A q \in DOMAIN Limit :
       Cardinality(AttemptsOf(q)) + 1 <= Limit[q] + Cardinality(Requests)

\* A score that an assignment got by its questions is at most the sum of the
\* points, with attempts and grades read at different times.
ScoreWithinMaximum ==
    score # None /\ score.origin = "questions" => score.total <= MaxTotal

\* With one request at a time: when none is running and no call failed, the score
\* that the questions gave is that of the latest attempts and grades.
ScoreIsCurrent ==
    faults = 0 /\ Quiet /\ Complete /\ score # None /\ score.origin = "questions"
     => score.total = Total(EffectiveLatest(LatestIds))

\* With one request at a time, a submitted assessment is never opened again,
\* neither by answers and saves nor by a partial score or a failed call.
AssessmentStaysSubmitted ==
    [][assessment /\ progress.status = "submitted"
          => progress'.status = "submitted"]_vars

\* docs/assignment-scoring-and-ags-policy.md, "Attempt Limits": "A learner cannot
\* bypass attempt limits by resubmitting from the frontend".
AttemptLimitEnforced ==
    \A q \in DOMAIN Limit : Cardinality(AttemptsOf(q)) <= Limit[q]

\* The same section: "Exhausted required questions block completion when they are
\* not correct".
ExhaustedBlocksCompletion ==
    \A r \in Requests :
       req[r] # None /\ req[r].pc = "save" /\ req[r].kind \in {"answer", "grade"} =>
          LET latest == EffectiveLatest(LatestIds)
          IN \A q \in Exhausted(latest) : latest[q].correct
=============================================================================
