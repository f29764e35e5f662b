-------------------------- MODULE Submission_proofs --------------------------
(***************************************************************************)
(* Proofs about Submission, for every set of questions and requests, every  *)
(* policy and every number of attempts and failed calls.                   *)
(***************************************************************************)
EXTENDS Submission, FiniteSetTheorems, TLAPS

(* What a running request holds, by the place it is in. *)
RequestOK(rec) ==
    /\ rec.pc \in {"count", "number", "insert"} =>
          rec.kind = "answer" /\ rec.question \in Questions
    /\ rec.pc \in {"number", "insert"} => rec.at \in Times
    /\ rec.pc = "grade" => /\ rec.kind = "grade"
                           /\ rec.at \in Times /\ attempts[rec.at] # None
                           /\ attempts[rec.at].question \in Manual
                           /\ rec.score <= Points[attempts[rec.at].question]
    /\ rec.pc = "merge" => rec.kind = "answer"
    /\ rec.pc \in {"latest", "grades"} => rec.kind \in {"answer", "grade"}
    /\ "progress" \in rec.todo => rec.seen \in Progress /\ rec.pc \in {"merge", "save"}
    /\ "score" \in rec.todo => rec.kind # "autosave" /\ rec.pc = "save"
    /\ rec.pc = "grades" =>
          \A q \in Questions : rec.latest[q] # None =>
             /\ attempts[rec.latest[q]] # None
             /\ attempts[rec.latest[q]].question = q

Counting == {r \in Requests : req[r] # None /\ req[r].pc = "count"}

(* Every request that has yet to take a time will find one. *)
TimeLeft == clock + Cardinality(Counting) <= Pool + 1

(* Times are taken once; an attempt is inserted at a time nobody else has. *)
TimesOK ==
    /\ \A t \in Times : t >= clock => attempts[t] = None
    /\ \A r \in Requests : req[r] # None /\ req[r].pc \in {"number", "insert"} =>
          /\ req[r].at < clock /\ attempts[req[r].at] = None
          /\ \A x \in Requests \ {r} :
                req[x] # None /\ req[x].pc \in {"number", "insert"} => req[x].at # req[r].at

(* Grades are given to answered manual questions, within their points. *)
GradesOK ==
    \A t \in Times :
       /\ attempts[t] # None => attempts[t].score <= Points[attempts[t].question]
       /\ grades[t] # None =>
          /\ attempts[t] # None /\ attempts[t].question \in Manual
          /\ grades[t].score <= Points[attempts[t].question]

TypeInv ==
    /\ TypeOK
    /\ \A r \in Requests : req[r] # None => RequestOK(req[r])
    /\ TimeLeft /\ TimesOK /\ GradesOK

-----------------------------------------------------------------------------
LEMMA AttemptsFinite ==
  ASSUME NEW q
  PROVE  IsFiniteSet(AttemptsOf(q)) /\ Cardinality(AttemptsOf(q)) \in Nat
<1>1. IsFiniteSet(Times)
  BY FS_Interval, SubmissionAssumption DEF Times
<1>2. AttemptsOf(q) \in SUBSET Times
  BY DEF AttemptsOf
<1> QED BY <1>1, <1>2, FS_Subset, FS_CardinalityType

LEMMA RequestsFinite ==
  ASSUME NEW S \in SUBSET Requests
  PROVE  IsFiniteSet(S) /\ Cardinality(S) \in Nat /\ Cardinality(S) <= Cardinality(Requests)
         /\ Cardinality(Requests) \in Nat
  BY SubmissionAssumption, FS_Subset, FS_CardinalityType

LEMMA PointsFinite ==
  ASSUME NEW S \in SUBSET Questions, NEW f \in [S -> Nat]
  PROVE  IsFiniteSet(UNION {PointsOf(q, f[q]) : q \in S})
<1> DEFINE F == {PointsOf(q, f[q]) : q \in S}
<1>1. IsFiniteSet(F)
  <2> DEFINE g == [q \in S |-> PointsOf(q, f[q])]
  <2>1. g \in Surjection(S, F)
    BY DEF Surjection
  <2> QED BY <2>1, FS_Surjection, FS_Subset, PolicyAssumption
<1>2. \A T \in F : IsFiniteSet(T)
  <2> SUFFICES ASSUME NEW q \in S
               PROVE  IsFiniteSet(PointsOf(q, f[q]))
    OBVIOUS
  <2>1. f[q] \in Int
    OBVIOUS
  <2>2. IsFiniteSet(1..f[q])
    BY <2>1, FS_Interval
  <2>3. IsFiniteSet({q})
    BY FS_Singleton
  <2> QED BY <2>2, <2>3, FS_Product DEF PointsOf
<1> QED BY <1>1, <1>2, FS_UNION

LEMMA TotalFinite ==
  ASSUME NEW latest \in [Questions -> Effective \cup {None}]
  PROVE  IsFiniteSet(UNION {PointsOf(q, latest[q].score) : q \in Answered(latest)})
<1> DEFINE S == Answered(latest)
           f == [q \in S |-> latest[q].score]
<1>1. S \in SUBSET Questions /\ f \in [S -> Nat]
  BY DEF Answered, Required, Effective
<1>2. {PointsOf(q, f[q]) : q \in S} = {PointsOf(q, latest[q].score) : q \in S}
  OBVIOUS
<1>3. IsFiniteSet(UNION {PointsOf(q, f[q]) : q \in S})
  BY <1>1, PointsFinite
<1> QED BY <1>2, <1>3

LEMMA TotalType ==
  ASSUME NEW latest \in [Questions -> Effective \cup {None}]
  PROVE  Total(latest) \in Nat
  BY TotalFinite, FS_CardinalityType DEF Total

(* Questions that score at most their points total at most the maximum. *)
LEMMA TotalBound ==
  ASSUME NEW latest \in [Questions -> Effective \cup {None}],
         \A q \in Questions : latest[q] # None => latest[q].score <= Points[q]
  PROVE  Total(latest) <= MaxTotal
<1> DEFINE Scored == UNION {PointsOf(q, latest[q].score) : q \in Answered(latest)}
           Full == UNION {PointsOf(q, Points[q]) : q \in Required}
<1>1. IsFiniteSet(Full)
  <2> DEFINE f == [q \in Required |-> Points[q]]
  <2>1. Required \in SUBSET Questions /\ f \in [Required -> Nat]
    BY PolicyAssumption DEF Required
  <2>2. {PointsOf(q, f[q]) : q \in Required} = {PointsOf(q, Points[q]) : q \in Required}
    OBVIOUS
  <2>3. IsFiniteSet(UNION {PointsOf(q, f[q]) : q \in Required})
    BY <2>1, PointsFinite
  <2> QED BY <2>2, <2>3
<1>2. \A q \in Answered(latest) : q \in Required /\ PointsOf(q, latest[q].score) \subseteq PointsOf(q, Points[q])
  <2> SUFFICES ASSUME NEW q \in Answered(latest)
               PROVE  q \in Required /\ PointsOf(q, latest[q].score) \subseteq PointsOf(q, Points[q])
    OBVIOUS
  <2>1. q \in Required /\ q \in Questions /\ latest[q] # None
    BY DEF Answered, Required
  <2>2. latest[q].score \in Nat /\ Points[q] \in Nat /\ latest[q].score <= Points[q]
    BY <2>1, PolicyAssumption DEF Effective
  <2>3. 1..latest[q].score \subseteq 1..Points[q]
    BY <2>2
  <2> QED BY <2>1, <2>3 DEF PointsOf
<1>3. Scored \subseteq Full
  BY <1>2
<1> QED BY <1>1, <1>3, FS_Subset DEF Total, MaxTotal

-----------------------------------------------------------------------------
(* How requests begin: all of them with a record of this shape. *)
Begun(rec) ==
    /\ rec \in Request /\ rec.pc \in {"count", "grade", "save"}
    /\ RequestOK(rec)
    /\ rec.kind \in {"answer", "grade"} => rec.pc # "save"

LEMMA NewRequestType ==
  ASSUME NEW kind \in RequestKinds,
         NEW pc \in {"count", "number", "insert", "merge", "grade", "latest", "grades", "save"}
  PROVE  NewRequest(kind, pc) \in Request
  BY DEF NewRequest, Request, Statuses, Writes

LEMMA StartShape ==
  ASSUME TypeInv, NEW r \in Requests, Start(r)
  PROVE  \E rec : /\ Begun(rec) /\ req[r] = None
                  /\ req' = [req EXCEPT ![r] = rec]
                  /\ rec.pc = "count" => Room
                  /\ UNCHANGED <<assessment, documents, clock, faults>>
<1> USE DEF Begin, Begun, RequestOK
<1>1. CASE \E q \in Questions : Answer(r, q)
  <2> PICK q \in Questions : Answer(r, q)
    BY <1>1
  <2> DEFINE rec == [NewRequest("answer", "count") EXCEPT
                       !.question = q, !.answers = progress.answers \cup {q},
                       !.keep = FALSE]
  <2>1. rec \in Request
    BY DEF TypeInv, TypeOK, Progress, NewRequest, Request, RequestKinds, Statuses, Writes
  <2>2. Begun(rec)
    BY <2>1 DEF NewRequest
  <2> QED BY <2>2 DEF Answer
<1>2. CASE \E answers \in SUBSET Questions, keep \in BOOLEAN,
             status \in Statuses \cup {None}, start \in BOOLEAN :
                Autosave(r, answers, keep, status, start)
  <2> PICK answers \in SUBSET Questions, keep \in BOOLEAN,
           status \in Statuses \cup {None}, start \in BOOLEAN :
              Autosave(r, answers, keep, status, start)
    BY <1>2
  <2> DEFINE rec == [NewRequest("autosave", "save") EXCEPT
                       !.answers = answers, !.keep = keep,
                       !.status = status, !.start = start, !.todo = {"find"}]
  <2>1. rec \in Request
    BY DEF NewRequest, Request, RequestKinds, Writes
  <2>2. Begun(rec)
    BY <2>1 DEF NewRequest
  <2> QED BY <2>2 DEF Autosave, NewRequest
<1>3. CASE \E n \in Scores : GradeContent(r, n)
  <2> PICK n \in Scores : GradeContent(r, n)
    BY <1>3
  <2> DEFINE rec == [NewRequest("instructor", "save") EXCEPT
                       !.score = n, !.todo = {"score", "find"}, !.status = "submitted"]
  <2>1. rec \in Request
    BY SubmissionAssumption DEF NewRequest, Request, RequestKinds, Statuses, Writes
  <2>2. Begun(rec)
    BY <2>1 DEF NewRequest
  <2> QED BY <2>2 DEF GradeContent, NewRequest
<1>4. CASE \E n \in Scores, complete \in BOOLEAN : SubmitScore(r, n, complete)
  <2> PICK n \in Scores, complete \in BOOLEAN : SubmitScore(r, n, complete)
    BY <1>4
  <2> DEFINE rec == [NewRequest("direct", "save") EXCEPT
                       !.score = n, !.todo = {"score", "find"},
                       !.status = IF complete THEN "submitted" ELSE "in_progress"]
  <2>1. rec \in Request
    BY SubmissionAssumption DEF NewRequest, Request, RequestKinds, Statuses, Writes
  <2>2. Begun(rec)
    BY <2>1 DEF NewRequest
  <2> QED BY <2>2 DEF SubmitScore, NewRequest
<1>5. CASE \E n \in Scores, t \in Times : GradeAttempt(r, t, n)
  <2> PICK n \in Scores, t \in Times : GradeAttempt(r, t, n)
    BY <1>5
  <2> DEFINE rec == [NewRequest("grade", "grade") EXCEPT !.at = t, !.score = n]
  <2>1. rec \in Request
    BY SubmissionAssumption DEF NewRequest, Request, RequestKinds, Statuses, Writes
  <2>2. Begun(rec)
    BY <2>1 DEF NewRequest, GradeAttempt
  <2> QED BY <2>2 DEF GradeAttempt, NewRequest
<1> QED
  BY <1>1, <1>2, <1>3, <1>4, <1>5, SubmissionAssumption DEF Start

-----------------------------------------------------------------------------
(* Requests that move on without taking a time or inserting an attempt. *)
Moves(r, rec) ==
    /\ rec \in Request \cup {None}
    /\ req' = [req EXCEPT ![r] = rec]
    /\ rec # None => /\ RequestOK(rec) /\ rec.pc # "count"
                     /\ rec.pc \in {"number", "insert"} =>
                           /\ req[r] # None /\ req[r].pc \in {"number", "insert"}
                           /\ rec.at = req[r].at

RequestsOK ==
    /\ req \in [Requests -> Request \cup {None}]
    /\ \A r \in Requests : req[r] # None => RequestOK(req[r])

LEMMA QuietMove ==
  ASSUME TypeInv, NEW r \in Requests, NEW rec, Moves(r, rec), UNCHANGED <<attempts, clock>>
  PROVE  RequestsOK' /\ TimeLeft' /\ TimesOK'
<1>1. RequestsOK'
  BY DEF RequestsOK, TypeInv, TypeOK, Moves, RequestOK
<1>2. TimeLeft'
  <2>1. Counting' \subseteq Counting
    BY DEF Counting, Moves, TypeInv, TypeOK
  <2>2. Counting \subseteq Requests
    BY DEF Counting
  <2>3. IsFiniteSet(Counting) /\ Cardinality(Counting) \in Nat
    BY <2>2, RequestsFinite
  <2>4. Cardinality(Counting') <= Cardinality(Counting) /\ Cardinality(Counting') \in Nat
    BY <2>1, <2>3, FS_Subset, FS_CardinalityType
  <2> QED BY <2>3, <2>4, SubmissionAssumption DEF TimeLeft, TypeInv, TypeOK
<1>3. TimesOK'
  BY DEF TimesOK, TypeInv, TypeOK, Moves
<1> QED BY <1>1, <1>2, <1>3

LEMMA StartTypeInv ==
  ASSUME TypeInv, NEW r \in Requests, Start(r)
  PROVE  TypeInv'
<1> PICK rec : /\ Begun(rec) /\ req[r] = None
               /\ req' = [req EXCEPT ![r] = rec]
               /\ rec.pc = "count" => Room
               /\ UNCHANGED <<assessment, documents, clock, faults>>
  BY StartShape
<1>0. RequestsOK' /\ TimeLeft' /\ TimesOK'
  <2>1. CASE rec.pc # "count"
    <3>1. Moves(r, rec)
      BY <2>1 DEF Moves, Begun
    <3> QED BY <3>1, QuietMove DEF documents
  <2>2. CASE rec.pc = "count"
    <3>1. RequestsOK'
      BY DEF RequestsOK, TypeInv, TypeOK, Begun, RequestOK, documents
    <3>2. TimeLeft'
      <4> DEFINE Running == {x \in Requests : req[x] # None}
      <4>1. Running \in SUBSET Requests
        OBVIOUS
      <4>2. IsFiniteSet(Running) /\ Cardinality(Running) \in Nat
        BY <4>1, RequestsFinite
      <4>3. IsFiniteSet(Running \cup {r}) /\ Cardinality(Running \cup {r}) <= Cardinality(Running) + 1
        BY <4>2, FS_AddElement
      <4>4. Counting' \in SUBSET (Running \cup {r})
        BY DEF Counting, TypeInv, TypeOK
      <4>5. Cardinality(Counting') <= Cardinality(Running \cup {r})
            /\ Cardinality(Counting') \in Nat /\ Cardinality(Running \cup {r}) \in Nat
        BY <4>3, <4>4, FS_Subset, FS_CardinalityType
      <4>6. clock + Cardinality(Running) <= Pool
        BY <2>2 DEF Room
      <4> HIDE DEF Running
      <4> QED
        BY <4>2, <4>3, <4>5, <4>6, SubmissionAssumption DEF TimeLeft, TypeInv, TypeOK
    <3>3. TimesOK'
      BY <2>2 DEF TimesOK, TypeInv, TypeOK, documents
    <3> QED BY <3>1, <3>2, <3>3
  <2> QED BY <2>1, <2>2
<1> QED
  BY <1>0 DEF TypeInv, TypeOK, RequestsOK, GradesOK, documents

(* A counted attempt takes a time: there is one left, and it is nobody else's. *)
LEMMA CountTypeInv ==
  ASSUME TypeInv, NEW r \in Requests, Count(r)
  PROVE  TypeInv'
<1>1. CASE Allowed(req[r].question, Cardinality(AttemptsOf(req[r].question)))
  <2> DEFINE rec == [req[r] EXCEPT !.pc = "number", !.at = clock]
  <2>1. /\ req[r] \in Request /\ req[r].pc = "count" /\ RequestOK(req[r])
        /\ req' = [req EXCEPT ![r] = rec] /\ clock' = clock + 1
        /\ UNCHANGED <<assessment, attempts, grades, progress, score, faults>>
    BY <1>1 DEF Count, Step, TypeInv, TypeOK, documents
  <2>2. /\ IsFiniteSet(Counting) /\ Cardinality(Counting) \in Nat
        /\ r \in Counting /\ Counting' = Counting \ {r}
    <3>1. Counting \in SUBSET Requests
      BY DEF Counting
    <3>2. rec.pc = "number"
      BY <2>1 DEF Request
    <3>3. r \in Counting /\ Counting' = Counting \ {r}
      BY <2>1, <3>2, NoDocumentAssumption DEF Counting, TypeInv, TypeOK
    <3> QED BY <3>1, <3>3, RequestsFinite
  <2>3. Cardinality(Counting') = Cardinality(Counting) - 1 /\ Cardinality(Counting') \in Nat
    BY <2>2, FS_RemoveElement, FS_CardinalityType
  <2>4. clock \in Times /\ clock' \in 1..(Pool + 1) /\ TimeLeft'
    BY <2>1, <2>2, <2>3, SubmissionAssumption DEF TimeLeft, TypeInv, TypeOK, Times
  <2>5. rec \in Request
    BY <2>1, <2>4 DEF Request
  <2>6. RequestOK(rec)
    BY <2>1, <2>4 DEF RequestOK
  <2>7. RequestsOK'
    BY <2>1, <2>5, <2>6 DEF RequestsOK, RequestOK, TypeInv, TypeOK
  <2>8. TimesOK'
    <3>1. \A t \in Times : t >= clock' => attempts'[t] = None
      BY <2>1, <2>4 DEF TimesOK, TypeInv, TypeOK, Times
    <3>2. \A x \in Requests : req[x] # None /\ req[x].pc \in {"number", "insert"} =>
             req[x].at \in Times /\ req[x].at < clock
      BY DEF TypeInv, TimesOK, RequestOK
    <3> QED BY <2>1, <2>4, <3>1, <3>2 DEF TimesOK, TypeInv, TypeOK, Times
  <2> QED
    BY <2>1, <2>4, <2>7, <2>8 DEF TypeInv, TypeOK, RequestsOK, GradesOK
<1>2. CASE ~Allowed(req[r].question, Cardinality(AttemptsOf(req[r].question)))
  <2>1. Moves(r, None) /\ UNCHANGED <<assessment, attempts, grades, progress, score, faults, clock>>
    BY <1>2 DEF Count, Moves, documents
  <2> QED BY <2>1, QuietMove DEF TypeInv, TypeOK, RequestsOK, GradesOK
<1> QED BY <1>1, <1>2

LEMMA NumberTypeInv ==
  ASSUME TypeInv, NEW r \in Requests, Number(r)
  PROVE  TypeInv'
<1> DEFINE n == Cardinality(AttemptsOf(req[r].question)) + 1
           rec == [req[r] EXCEPT !.pc = "insert", !.number = n]
<1>1. /\ req[r] \in Request /\ req[r].pc = "number" /\ RequestOK(req[r])
      /\ req' = [req EXCEPT ![r] = rec]
      /\ UNCHANGED <<assessment, attempts, grades, progress, score, faults, clock>>
  BY DEF Number, Step, TypeInv, TypeOK, documents
<1>2. n \in Nat
  BY AttemptsFinite
<1> HIDE DEF n
<1>3. rec \in Request
  BY <1>1, <1>2 DEF Request
<1>4. rec.pc = "insert" /\ rec.at = req[r].at /\ RequestOK(rec)
  BY <1>1 DEF RequestOK, Request
<1>5. Moves(r, rec)
  BY <1>1, <1>3, <1>4, NoDocumentAssumption DEF Moves
<1> QED BY <1>1, <1>5, QuietMove DEF TypeInv, TypeOK, RequestsOK, GradesOK

(* An attempt is inserted where there is none. *)
LEMMA InsertShape ==
  ASSUME TypeInv, NEW r \in Requests, Insert(r)
  PROVE  \E a \in Attempt :
            /\ a.question = req[r].question /\ a.score <= Points[a.question]
            /\ req[r].at \in Times /\ attempts[req[r].at] = None
            /\ attempts' = [attempts EXCEPT ![req[r].at] = a]
<1>1. /\ req[r] \in Request /\ req[r].pc = "insert" /\ RequestOK(req[r])
      /\ req[r].at \in Times /\ attempts[req[r].at] = None
      /\ req[r].question \in Questions /\ req[r].number \in Nat
  BY DEF Insert, Step, TypeInv, TypeOK, RequestOK, TimesOK, Request
<1>2. PICK n \in 0..Points[req[r].question] :
         attempts' = [attempts EXCEPT ![req[r].at] =
            [question |-> req[r].question, number |-> req[r].number, score |-> n,
             correct |-> req[r].question \notin Manual /\ n >= Points[req[r].question]]]
  BY DEF Insert
<1>3. n \in Nat /\ n <= Points[req[r].question]
  BY <1>1, <1>2, PolicyAssumption
<1> DEFINE a == [question |-> req[r].question, number |-> req[r].number, score |-> n,
                 correct |-> req[r].question \notin Manual /\ n >= Points[req[r].question]]
<1>4. (req[r].question \notin Manual /\ n >= Points[req[r].question]) \in BOOLEAN
  OBVIOUS
<1>5. a \in Attempt
  BY <1>1, <1>3, <1>4 DEF Attempt
<1> QED BY <1>1, <1>2, <1>3, <1>5

LEMMA InsertTypeInv ==
  ASSUME TypeInv, NEW r \in Requests, Insert(r)
  PROVE  TypeInv'
<1> PICK a \in Attempt :
            /\ a.question = req[r].question /\ a.score <= Points[a.question]
            /\ req[r].at \in Times /\ attempts[req[r].at] = None
            /\ attempts' = [attempts EXCEPT ![req[r].at] = a]
  BY InsertShape
<1> DEFINE rec == [req[r] EXCEPT !.pc = "merge", !.todo = {"find"}, !.at = None, !.number = 0]
<1>1. /\ req[r] \in Request /\ req[r].pc = "insert" /\ RequestOK(req[r]) /\ req[r].at < clock
      /\ req' = [req EXCEPT ![r] = rec]
      /\ UNCHANGED <<assessment, grades, progress, score, faults, clock>>
  BY DEF Insert, Step, TypeInv, TypeOK, TimesOK
<1>2. rec \in Request /\ RequestOK(rec)
  BY <1>1 DEF Request, RequestOK, Writes
<1>3. a # None
  BY NoDocumentAssumption
<1>4. \A t \in Times : attempts[t] # None => attempts'[t] = attempts[t]
  BY DEF TypeInv, TypeOK
<1>5. \A x \in Requests : req[x] # None => req[x] \in Request /\ RequestOK(req[x])
  BY DEF TypeInv, TypeOK
<1>6. RequestsOK'
  <2>1. \A x \in Requests \ {r} : req[x] # None => RequestOK(req[x])'
    <3> SUFFICES ASSUME NEW x \in Requests \ {r}, req[x] # None
                 PROVE  RequestOK(req[x])'
      OBVIOUS
    <3>1. req'[x] = req[x]
      BY <1>1 DEF TypeInv, TypeOK
    <3>2. \A q \in Questions : req[x].latest[q] \in Times \cup {None}
      BY <1>5 DEF Request
    <3> QED BY <1>4, <1>5, <3>1, <3>2 DEF RequestOK
  <2>2. RequestOK(rec)'
    BY <1>1, <1>2 DEF RequestOK
  <2> QED BY <1>1, <1>2, <2>1, <2>2 DEF RequestsOK, TypeInv, TypeOK
<1>7. TimeLeft'
  <2>1. Counting' = Counting
    BY <1>1 DEF Counting, TypeInv, TypeOK
  <2> QED BY <1>1, <2>1 DEF TimeLeft, TypeInv
<1>8. TimesOK'
  <2>1. rec.pc = "merge"
    BY <1>1 DEF Request
  <2>2. \A t \in Times : t >= clock => attempts'[t] = None
    BY <1>1 DEF TimesOK, TypeInv, TypeOK, Times
  <2>3. \A x \in Requests \ {r} : req'[x] = req[x]
    BY <1>1 DEF TypeInv, TypeOK
  <2>4. \A x \in Requests \ {r} : req[x] # None /\ req[x].pc \in {"number", "insert"} =>
           req[x].at # req[r].at /\ req[x].at \in Times
    <3> SUFFICES ASSUME NEW x \in Requests \ {r}, req[x] # None,
                        req[x].pc \in {"number", "insert"}
                 PROVE  req[x].at # req[r].at /\ req[x].at \in Times
      OBVIOUS
    <3>1. req[x].at \in Times
      BY <1>5 DEF RequestOK
    <3>2. req[r] # None
      BY <1>1, NoDocumentAssumption
    <3>3. req[x].at # req[r].at
      BY <1>1, <3>2 DEF TimesOK, TypeInv
    <3> QED BY <3>1, <3>3
  <2> QED BY <1>1, <2>1, <2>2, <2>3, <2>4 DEF TimesOK, TypeInv, TypeOK
<1>9. GradesOK'
  BY <1>1, <1>3, <1>4 DEF GradesOK, TypeInv, TypeOK
<1> QED
  BY <1>1, <1>6, <1>7, <1>8, <1>9 DEF TypeInv, TypeOK, RequestsOK

LEMMA GradeTypeInv ==
  ASSUME TypeInv, NEW r \in Requests, UpsertGrade(r)
  PROVE  TypeInv'
<1> DEFINE t == req[r].at
           g == [score |-> req[r].score, correct |-> req[r].score >= Points[attempts[t].question]]
           rec == [req[r] EXCEPT !.pc = "latest", !.at = None]
<1>1. /\ req[r] \in Request /\ req[r].pc = "grade" /\ RequestOK(req[r])
      /\ req' = [req EXCEPT ![r] = rec] /\ grades' = [grades EXCEPT ![t] = g]
      /\ UNCHANGED <<assessment, attempts, progress, score, faults, clock>>
  BY DEF UpsertGrade, Step, TypeInv, TypeOK
<1>2. /\ t \in Times /\ attempts[t] # None /\ attempts[t].question \in Manual
      /\ req[r].score \in Nat /\ req[r].score <= Points[attempts[t].question]
  BY <1>1 DEF RequestOK, Request
<1>3. g \in Grade
  BY <1>2 DEF Grade
<1>4. rec \in Request /\ rec.pc = "latest" /\ RequestOK(rec)
  BY <1>1 DEF Request, RequestOK
<1>5. Moves(r, rec)
  BY <1>1, <1>4 DEF Moves
<1>6. GradesOK'
  BY <1>1, <1>2 DEF GradesOK, TypeInv, TypeOK
<1> QED BY <1>1, <1>2, <1>3, <1>5, <1>6, QuietMove DEF TypeInv, TypeOK, RequestsOK

(* A request whose writes are done goes on to the evaluation or is over. *)
LEMMA ContinueMoves ==
  ASSUME TypeInv, NEW r \in Requests, req[r] # None, req[r].pc \in {"merge", "save"},
         NEW w, req' = [req EXCEPT ![r] = Continue(req[r], w)]
  PROVE  Moves(r, Continue(req[r], w))
<1>1. req[r] \in Request /\ RequestOK(req[r])
  BY DEF TypeInv, TypeOK
<1>2. CASE req[r].todo # {w}
  <2> DEFINE rec == [req[r] EXCEPT !.todo = @ \ {w}]
  <2>1. /\ rec \in Request /\ rec.pc = req[r].pc /\ rec.kind = req[r].kind
        /\ rec.seen = req[r].seen /\ rec.todo \subseteq req[r].todo
    BY <1>1 DEF Request
  <2>2. RequestOK(rec)
    BY <1>1, <2>1 DEF RequestOK
  <2>3. Continue(req[r], w) = rec
    BY <1>2 DEF Continue
  <2> QED BY <2>1, <2>2, <2>3 DEF Moves
<1>3. CASE req[r].todo = {w} /\ req[r].pc = "merge"
  <2>1. Continue(req[r], w) = NewRequest("answer", "latest")
    BY <1>1, <1>3 DEF Continue, RequestOK
  <2>2. NewRequest("answer", "latest") \in Request
    BY NewRequestType DEF RequestKinds
  <2>3. RequestOK(NewRequest("answer", "latest")) /\ NewRequest("answer", "latest").pc = "latest"
    BY DEF RequestOK, NewRequest
  <2> QED BY <2>1, <2>2, <2>3 DEF Moves
<1>4. CASE req[r].todo = {w} /\ req[r].pc # "merge"
  <2>1. Continue(req[r], w) = None
    BY <1>4 DEF Continue
  <2> QED BY <2>1 DEF Moves
<1> QED BY <1>2, <1>3, <1>4

LEMMA FindTypeInv ==
  ASSUME TypeInv, NEW r \in Requests, FindProgress(r)
  PROVE  TypeInv'
<1> DEFINE rec == [req[r] EXCEPT !.seen = progress, !.todo = (@ \ {"find"}) \cup {"progress"}]
<1>1. /\ req[r] \in Request /\ req[r].pc \in {"merge", "save"} /\ RequestOK(req[r])
      /\ req' = [req EXCEPT ![r] = rec] /\ progress \in Progress
      /\ UNCHANGED <<assessment, documents, faults, clock>>
  BY DEF FindProgress, TypeInv, TypeOK
<1>2. /\ rec \in Request /\ rec.pc = req[r].pc /\ rec.kind = req[r].kind
      /\ rec.seen = progress /\ rec.todo \subseteq req[r].todo \cup {"progress"}
  BY <1>1 DEF Request, Writes
<1>3. RequestOK(rec)
  BY <1>1, <1>2 DEF RequestOK
<1>4. Moves(r, rec)
  BY <1>1, <1>2, <1>3 DEF Moves
<1> QED BY <1>1, <1>4, QuietMove DEF TypeInv, TypeOK, RequestsOK, GradesOK, documents

LEMMA WriteTypeInv ==
  ASSUME TypeInv, NEW r \in Requests, WriteProgress(r)
  PROVE  TypeInv'
<1>1. /\ req[r] \in Request /\ req[r] # None /\ req[r].pc \in {"merge", "save"}
      /\ req[r].seen \in Progress
      /\ req' = [req EXCEPT ![r] = Continue(req[r], "progress")]
      /\ progress' = NewProgress(req[r])
      /\ UNCHANGED <<assessment, attempts, grades, score, faults, clock>>
  BY DEF WriteProgress, TypeInv, TypeOK, RequestOK
<1>2. NewProgress(req[r]) \in Progress
  BY <1>1 DEF NewProgress, Progress, Request, Statuses
<1>3. Moves(r, Continue(req[r], "progress"))
  BY <1>1, ContinueMoves
<1> QED BY <1>1, <1>2, <1>3, QuietMove DEF TypeInv, TypeOK, RequestsOK, GradesOK

LEMMA SaveTypeInv ==
  ASSUME TypeInv, NEW r \in Requests, SaveScore(r)
  PROVE  TypeInv'
<1>1. /\ req[r] \in Request /\ req[r] # None /\ req[r].pc = "save" /\ req[r].kind # "autosave"
      /\ req' = [req EXCEPT ![r] = Continue(req[r], "score")]
      /\ score' = [total |-> req[r].score, origin |-> Origin(req[r].kind)]
      /\ UNCHANGED <<assessment, attempts, grades, progress, faults, clock>>
  BY DEF SaveScore, Step, TypeInv, TypeOK, RequestOK
<1>2. score' \in Score
  BY <1>1 DEF Origin, Score, Request, RequestKinds
<1>3. Moves(r, Continue(req[r], "score"))
  BY <1>1, ContinueMoves
<1> QED BY <1>1, <1>2, <1>3, QuietMove DEF TypeInv, TypeOK, RequestsOK, GradesOK

(* A set of times that is not empty has a last one: if every time had a later   *)
(* one, adding one would map the numbers up to some time into themselves, so    *)
(* onto themselves, and nothing is mapped to 0.                                 *)
LEMMA LastTime ==
  ASSUME NEW n \in Nat, NEW S \in SUBSET (1..n), S # {}
  PROVE  \E t \in S : \A u \in S : u <= t
<1> SUFFICES ASSUME \A t \in S : \E u \in S : u > t
             PROVE  FALSE
  OBVIOUS
<1> DEFINE D == {m \in Nat : \E t \in S : m <= t}
           f == [m \in D |-> m + 1]
<1>1. 0 \in D /\ D \in SUBSET Nat /\ \A m \in D : m <= n
  <2>1. \A t \in S : t \in Nat /\ 0 <= t /\ t <= n
    OBVIOUS
  <2>2. PICK t : t \in S
    OBVIOUS
  <2>3. 0 \in D
    BY <2>1, <2>2
  <2>4. \A m \in D : m \in Nat /\ m <= n
    BY <2>1
  <2> QED BY <2>3, <2>4
<1>2. IsFiniteSet(D)
  BY <1>1, FS_BoundedSetOfNaturals
<1>3. \A m \in D : m + 1 \in D
  <2> SUFFICES ASSUME NEW m \in Nat, NEW t \in S, m <= t
               PROVE  \E u \in S : m + 1 <= u
    OBVIOUS
  <2>1. PICK u \in S : u > t
    OBVIOUS
  <2> QED BY <2>1
<1> HIDE DEF D
<1>4. f \in Injection(D, D)
  BY <1>1, <1>3 DEF Injection, IsInjective
<1>5. f \in Surjection(D, D)
  BY <1>2, <1>4, FS_Injection
<1>6. PICK m \in D : f[m] = 0
  BY <1>1, <1>5 DEF Surjection
<1> QED BY <1>1, <1>6

LEMMA LatestChosen ==
  ASSUME NEW q \in Questions, LatestId(q) # None
  PROVE  LatestId(q) \in AttemptsOf(q)
<1>1. AttemptsOf(q) \in SUBSET (1..Pool) /\ AttemptsOf(q) # {}
  BY DEF LatestId, AttemptsOf, Times
<1>2. \E t \in AttemptsOf(q) : \A u \in AttemptsOf(q) : u <= t
  BY <1>1, LastTime, SubmissionAssumption
<1> QED BY <1>1, <1>2 DEF LatestId

LEMMA EffectiveType ==
  ASSUME TypeInv, NEW rec \in Request, RequestOK(rec), rec.pc = "grades"
  PROVE  EffectiveLatest(rec.latest) \in [Questions -> Effective \cup {None}]
<1> SUFFICES ASSUME NEW q \in Questions, rec.latest[q] # None
             PROVE  Effectively(rec.latest[q]) \in Effective
  BY DEF EffectiveLatest
<1>1. rec.latest[q] \in Times /\ attempts[rec.latest[q]] # None
  BY DEF Request, RequestOK
<1> QED BY <1>1 DEF TypeInv, TypeOK, Effectively, Effective, Attempt, Grade

LEMMA ListLatestTypeInv ==
  ASSUME TypeInv, NEW r \in Requests, ListLatest(r)
  PROVE  TypeInv'
<1> DEFINE rec == [req[r] EXCEPT !.pc = "grades", !.latest = LatestIds]
<1>1. /\ req[r] \in Request /\ req[r].pc = "latest" /\ RequestOK(req[r])
      /\ req' = [req EXCEPT ![r] = rec]
      /\ UNCHANGED <<assessment, documents, faults, clock>>
  BY DEF ListLatest, Step, TypeInv, TypeOK
<1>2. \A q \in Questions : LatestId(q) # None => LatestId(q) \in AttemptsOf(q)
  BY LatestChosen
<1>3. /\ LatestIds \in [Questions -> Times \cup {None}]
      /\ \A q \in Questions : LatestIds[q] # None =>
            attempts[LatestIds[q]] # None /\ attempts[LatestIds[q]].question = q
  BY <1>2 DEF LatestIds, AttemptsOf
<1> HIDE DEF LatestIds
<1>4. /\ rec \in Request /\ rec.pc = "grades" /\ rec.kind = req[r].kind
      /\ rec.todo = req[r].todo /\ rec.latest = LatestIds
  BY <1>1, <1>3 DEF Request
<1>5. RequestOK(rec)
  BY <1>1, <1>3, <1>4 DEF RequestOK
<1>6. Moves(r, rec)
  BY <1>1, <1>4, <1>5 DEF Moves
<1> QED BY <1>1, <1>6, QuietMove DEF TypeInv, TypeOK, RequestsOK, GradesOK, documents

LEMMA ListGradesTypeInv ==
  ASSUME TypeInv, NEW r \in Requests, ListGrades(r)
  PROVE  TypeInv'
<1> DEFINE latest == EffectiveLatest(req[r].latest)
           saving == [NewRequest(req[r].kind, "save") EXCEPT
                        !.score = Total(latest), !.todo = {"score", "find"},
                        !.status = "submitted"]
           rec == IF Evaluate(latest) # "complete" THEN None ELSE saving
<1>1. /\ req[r] \in Request /\ req[r].pc = "grades" /\ RequestOK(req[r])
      /\ req' = [req EXCEPT ![r] = rec]
      /\ UNCHANGED <<assessment, documents, faults, clock>>
  BY DEF ListGrades, Step, TypeInv, TypeOK
<1>2. latest \in [Questions -> Effective \cup {None}]
  BY <1>1, EffectiveType
<1>3. Total(latest) \in Nat
  BY <1>2, TotalType
<1> HIDE DEF latest
<1>4. req[r].kind \in {"answer", "grade"}
  BY <1>1 DEF RequestOK
<1>5. saving \in Request /\ saving.pc = "save" /\ saving.kind = req[r].kind
      /\ saving.todo = {"score", "find"}
  BY <1>3, <1>4 DEF NewRequest, Request, RequestKinds, Statuses, Writes
<1>6. RequestOK(saving)
  BY <1>4, <1>5 DEF RequestOK
<1>7. Moves(r, rec)
  BY <1>1, <1>5, <1>6 DEF Moves
<1> QED BY <1>1, <1>7, QuietMove DEF TypeInv, TypeOK, RequestsOK, GradesOK, documents

LEMMA FailTypeInv ==
  ASSUME TypeInv, NEW r \in Requests, Fail(r)
  PROVE  TypeInv'
<1>1. /\ UNCHANGED <<assessment, documents, clock>>
      /\ faults' \in 0..MaxFaults /\ req[r] # None
  BY SubmissionAssumption DEF Fail, TypeInv, TypeOK
<1>2. \E rec : Moves(r, rec)
  <2>1. CASE req' = [req EXCEPT ![r] = None]
    BY <2>1 DEF Moves
  <2>2. CASE req[r].pc = "save" /\ \E w \in req[r].todo : req' = [req EXCEPT ![r] = Continue(req[r], w)]
    BY <1>1, <2>2, ContinueMoves
  <2> QED BY <2>1, <2>2 DEF Fail
<1> QED BY <1>1, <1>2, QuietMove DEF TypeInv, TypeOK, RequestsOK, GradesOK, documents

-----------------------------------------------------------------------------
LEMMA TypeInvInit ==
  ASSUME Init
  PROVE  TypeInv
<1>1. Counting = {} /\ Cardinality({}) = 0
  BY FS_EmptySet DEF Init, Counting
<1>2. TimeLeft
  BY <1>1, SubmissionAssumption DEF TimeLeft, Init
<1>3. TypeOK
  BY SubmissionAssumption DEF Init, TypeOK, Progress, Statuses
<1> QED BY <1>2, <1>3 DEF Init, TypeInv, TimesOK, GradesOK

LEMMA TypeInvStep ==
  ASSUME TypeInv, [Next]_vars
  PROVE  TypeInv'
<1>1. CASE UNCHANGED vars
  BY <1>1 DEF vars, documents, TypeInv, TypeOK, RequestOK, TimeLeft, Counting, TimesOK, GradesOK
<1>2. ASSUME NEW r \in Requests, Start(r) \/ Proceed(r) \/ Fail(r)
      PROVE  TypeInv'
  BY <1>2, StartTypeInv, CountTypeInv, NumberTypeInv, InsertTypeInv, GradeTypeInv, FindTypeInv,
     WriteTypeInv, ListLatestTypeInv, ListGradesTypeInv, SaveTypeInv, FailTypeInv DEF Proceed
<1> QED BY <1>1, <1>2 DEF Next

(* Every document and every running request is always of its type, a time is   *)
(* taken by one attempt only (so that no insert overwrites an attempt), and a  *)
(* request that writes progress has read it. Code: the handlers of pactService *)
(* and the records that they pass to pactRepository.                           *)
THEOREM SubmissionTypeCorrect == Spec => []TypeOK
<1>1. Init => TypeInv
  BY TypeInvInit
<1>2. TypeInv /\ [Next]_vars => TypeInv'
  BY TypeInvStep
<1>3. TypeInv => TypeOK
  BY DEF TypeInv
<1> QED BY <1>1, <1>2, <1>3, PTL DEF Spec

-----------------------------------------------------------------------------
(* The requests that have counted the attempts and are about to insert one. *)
Inserting(q) ==
    {r \in Requests : /\ req[r] # None /\ req[r].pc \in {"number", "insert"}
                      /\ req[r].question = q}

(* Who counts finds less than the limit, and with the others that are about to *)
(* insert there are at most as many as requests.                               *)
SlackInv ==
    \A q \in DOMAIN Limit :
       Cardinality(AttemptsOf(q)) + Cardinality(Inserting(q)) + 1
          <= Limit[q] + Cardinality(Requests)

LEMMA InsertingFinite ==
  ASSUME NEW q
  PROVE  /\ IsFiniteSet(Inserting(q)) /\ Cardinality(Inserting(q)) \in Nat
         /\ Cardinality(Inserting(q)) <= Cardinality(Requests)
         /\ Cardinality(Requests) \in Nat
<1>1. Inserting(q) \in SUBSET Requests
  BY DEF Inserting
<1> QED BY <1>1, RequestsFinite

(* Nobody new is about to insert. *)
LEMMA SlackQuiet ==
  ASSUME SlackInv, UNCHANGED attempts,
         \A x \in Requests : req'[x] # None /\ req'[x].pc \in {"number", "insert"} =>
            /\ req[x] # None /\ req[x].pc \in {"number", "insert"}
            /\ req'[x].question = req[x].question
  PROVE  SlackInv'
<1> SUFFICES ASSUME NEW q \in DOMAIN Limit
             PROVE  Cardinality(AttemptsOf(q))' + Cardinality(Inserting(q))' + 1
                       <= Limit[q] + Cardinality(Requests)
  BY DEF SlackInv
<1>1. AttemptsOf(q)' = AttemptsOf(q)
  BY DEF AttemptsOf
<1>2. Inserting(q)' \subseteq Inserting(q)
  BY DEF Inserting
<1>3. Cardinality(Inserting(q)') <= Cardinality(Inserting(q)) /\ Cardinality(Inserting(q)') \in Nat
  BY <1>2, InsertingFinite, FS_Subset, FS_CardinalityType
<1>4. Cardinality(AttemptsOf(q)) + Cardinality(Inserting(q)) + 1 <= Limit[q] + Cardinality(Requests)
  BY DEF SlackInv
<1>5. Limit[q] \in Nat /\ Cardinality(AttemptsOf(q)) \in Nat /\ Cardinality(Inserting(q)) \in Nat
      /\ Cardinality(Requests) \in Nat
  BY PolicyAssumption, AttemptsFinite, InsertingFinite
<1> QED BY <1>1, <1>3, <1>4, <1>5

LEMMA SlackCount ==
  ASSUME TypeInv, SlackInv, NEW r \in Requests, Count(r)
  PROVE  SlackInv'
<1> DEFINE p == req[r].question
<1>1. CASE Allowed(p, Cardinality(AttemptsOf(p)))
  <2>1. /\ req[r] \in Request /\ req[r].pc = "count"
        /\ req' = [req EXCEPT ![r] = [@ EXCEPT !.pc = "number", !.at = clock]]
        /\ UNCHANGED attempts
    BY <1>1 DEF Count, Step, TypeInv, TypeOK, documents
  <2> SUFFICES ASSUME NEW q \in DOMAIN Limit
               PROVE  Cardinality(AttemptsOf(q))' + Cardinality(Inserting(q))' + 1
                         <= Limit[q] + Cardinality(Requests)
    BY DEF SlackInv
  <2>2. AttemptsOf(q)' = AttemptsOf(q)
    BY <2>1 DEF AttemptsOf
  <2>3. Inserting(q)' \in SUBSET Requests
    BY DEF Inserting
  <2>4. Cardinality(Inserting(q)') \in Nat /\ Cardinality(Inserting(q)') <= Cardinality(Requests)
    BY <2>3, RequestsFinite
  <2>5. Limit[q] \in Nat /\ Cardinality(AttemptsOf(q)) \in Nat /\ Cardinality(Inserting(q)) \in Nat
        /\ Cardinality(Requests) \in Nat
    BY PolicyAssumption, AttemptsFinite, InsertingFinite
  <2>6. CASE q = p
    <3>1. Cardinality(AttemptsOf(q)) < Limit[q]
      BY <1>1, <2>6 DEF Allowed
    <3> QED BY <2>2, <2>4, <2>5, <3>1
  <2>7. CASE q # p
    <3>1. Inserting(q)' = Inserting(q)
      BY <2>1, <2>7 DEF Inserting, TypeInv, TypeOK, Request
    <3>2. Cardinality(AttemptsOf(q)) + Cardinality(Inserting(q)) + 1
             <= Limit[q] + Cardinality(Requests)
      BY DEF SlackInv
    <3> QED BY <2>2, <3>1, <3>2
  <2> QED BY <2>6, <2>7
<1>2. CASE ~Allowed(p, Cardinality(AttemptsOf(p)))
  <2>1. req' = [req EXCEPT ![r] = None] /\ UNCHANGED attempts
    BY <1>2 DEF Count, documents
  <2> QED BY <2>1, SlackQuiet DEF TypeInv, TypeOK
<1> QED BY <1>1, <1>2

LEMMA SlackInsert ==
  ASSUME TypeInv, SlackInv, NEW r \in Requests, Insert(r)
  PROVE  SlackInv'
<1> PICK a \in Attempt :
            /\ a.question = req[r].question /\ a.score <= Points[a.question]
            /\ req[r].at \in Times /\ attempts[req[r].at] = None
            /\ attempts' = [attempts EXCEPT ![req[r].at] = a]
  BY InsertShape
<1>1. /\ req[r] \in Request /\ req[r] # None /\ req[r].pc = "insert" /\ a # None
      /\ req' = [req EXCEPT ![r] = [@ EXCEPT !.pc = "merge", !.todo = {"find"}, !.at = None,
                                             !.number = 0]]
  BY NoDocumentAssumption DEF Insert, Step, TypeInv, TypeOK
<1>2. req'[r].pc = "merge" /\ \A x \in Requests \ {r} : req'[x] = req[x]
  BY <1>1 DEF TypeInv, TypeOK, Request
<1> SUFFICES ASSUME NEW q \in DOMAIN Limit
             PROVE  Cardinality(AttemptsOf(q))' + Cardinality(Inserting(q))' + 1
                       <= Limit[q] + Cardinality(Requests)
  BY DEF SlackInv
<1>3. Cardinality(AttemptsOf(q)) + Cardinality(Inserting(q)) + 1 <= Limit[q] + Cardinality(Requests)
  BY DEF SlackInv
<1>4. /\ IsFiniteSet(AttemptsOf(q)) /\ Cardinality(AttemptsOf(q)) \in Nat
      /\ IsFiniteSet(Inserting(q)) /\ Cardinality(Inserting(q)) \in Nat
  BY AttemptsFinite, InsertingFinite
<1>5. CASE q = req[r].question
  <2>1. AttemptsOf(q)' = AttemptsOf(q) \cup {req[r].at} /\ req[r].at \notin AttemptsOf(q)
    BY <1>1, <1>5 DEF AttemptsOf, TypeInv, TypeOK
  <2>2. Cardinality(AttemptsOf(q)') = Cardinality(AttemptsOf(q)) + 1
    BY <1>4, <2>1, FS_AddElement
  <2>3. r \in Inserting(q) /\ Inserting(q)' = Inserting(q) \ {r}
    BY <1>1, <1>2, <1>5 DEF Inserting
  <2>4. Cardinality(Inserting(q)') = Cardinality(Inserting(q)) - 1
    BY <1>4, <2>3, FS_RemoveElement
  <2> QED BY <1>3, <1>4, <2>2, <2>4
<1>6. CASE q # req[r].question
  <2>1. AttemptsOf(q)' = AttemptsOf(q)
    BY <1>1, <1>6 DEF AttemptsOf, TypeInv, TypeOK
  <2>2. Inserting(q)' = Inserting(q)
    BY <1>1, <1>2, <1>6 DEF Inserting
  <2> QED BY <1>3, <2>1, <2>2
<1> QED BY <1>5, <1>6

LEMMA SlackInit ==
  ASSUME Init
  PROVE  SlackInv
<1> SUFFICES ASSUME NEW q \in DOMAIN Limit
             PROVE  Cardinality(AttemptsOf(q)) + Cardinality(Inserting(q)) + 1
                       <= Limit[q] + Cardinality(Requests)
  BY DEF SlackInv
<1>1. AttemptsOf(q) = {} /\ Inserting(q) = {}
  BY DEF Init, AttemptsOf, Inserting
<1>2. Cardinality({}) = 0 /\ Cardinality(Requests) \in Nat /\ Cardinality(Requests) # 0
  BY SubmissionAssumption, FS_EmptySet, FS_CardinalityType
<1>3. Limit[q] \in Nat
  BY PolicyAssumption
<1> QED BY <1>1, <1>2, <1>3

LEMMA SlackStep ==
  ASSUME TypeInv, SlackInv, [Next]_vars
  PROVE  SlackInv'
<1>1. CASE UNCHANGED vars
  BY <1>1, SlackQuiet DEF vars, documents
<1>2. ASSUME NEW r \in Requests, Start(r)
      PROVE  SlackInv'
  <2> PICK rec : /\ Begun(rec) /\ req[r] = None
                 /\ req' = [req EXCEPT ![r] = rec]
                 /\ rec.pc = "count" => Room
                 /\ UNCHANGED <<assessment, documents, clock, faults>>
    BY <1>2, StartShape
  <2> QED BY SlackQuiet DEF Begun, documents, TypeInv, TypeOK
<1>3. ASSUME NEW r \in Requests, Number(r)
      PROVE  SlackInv'
  <2>1. /\ req[r] # None /\ req[r] \in Request /\ req[r].pc = "number" /\ UNCHANGED attempts
        /\ \E n : req' = [req EXCEPT ![r] = [@ EXCEPT !.pc = "insert", !.number = n]]
    BY <1>3 DEF Number, Step, TypeInv, TypeOK, documents
  <2>2. req'[r].question = req[r].question /\ \A x \in Requests \ {r} : req'[x] = req[x]
    BY <2>1 DEF TypeInv, TypeOK, Request
  <2> QED BY <2>1, <2>2, SlackQuiet
<1>4. ASSUME NEW r \in Requests, UpsertGrade(r) \/ FindProgress(r) \/ WriteProgress(r)
                    \/ ListLatest(r) \/ ListGrades(r) \/ SaveScore(r) \/ Fail(r)
      PROVE  SlackInv'
  <2>1. UNCHANGED attempts /\ \A x \in Requests \ {r} : req'[x] = req[x]
    BY <1>4 DEF UpsertGrade, FindProgress, WriteProgress, ListLatest, ListGrades, SaveScore, Fail,
                documents, TypeInv, TypeOK
  <2>2. req'[r] # None => req'[r].pc \notin {"number", "insert"}
    <3>1. CASE UpsertGrade(r) \/ FindProgress(r) \/ ListLatest(r)
      BY <3>1 DEF UpsertGrade, FindProgress, ListLatest, Step, TypeInv, TypeOK, Request
    <3>2. CASE ListGrades(r)
      BY <3>2 DEF ListGrades, NewRequest, TypeInv, TypeOK
    <3>3. ASSUME NEW w, req[r] \in Request, req[r].pc \in {"merge", "save"}
          PROVE  Continue(req[r], w) # None => Continue(req[r], w).pc \notin {"number", "insert"}
      BY <3>3 DEF Continue, NewRequest, Request
    <3>4. CASE WriteProgress(r) \/ SaveScore(r) \/ Fail(r)
      <4>1. req[r] \in Request /\ RequestOK(req[r])
        BY <3>4 DEF WriteProgress, SaveScore, Fail, Step, TypeInv, TypeOK
      <4>2. \/ req'[r] = None
            \/ req[r].pc \in {"merge", "save"} /\ \E w : req'[r] = Continue(req[r], w)
        BY <3>4, <4>1 DEF WriteProgress, SaveScore, Fail, Step, TypeInv, TypeOK, RequestOK
      <4> QED BY <3>3, <4>1, <4>2
    <3> QED BY <1>4, <3>1, <3>2, <3>4
  <2> QED BY <2>1, <2>2, SlackQuiet
<1> QED
  BY <1>1, <1>2, <1>3, <1>4, SlackCount, SlackInsert DEF Next, Proceed

(* However many requests count the attempts of a question at once, there are at *)
(* most as many more than its limit as other requests. Code: the check of the   *)
(* limit in submitQuestionAttempt and the insert in recordQuestionAttempt.      *)
THEOREM AttemptsSlack == Spec => []AttemptsWithinSlack
<1>1. Init => TypeInv /\ SlackInv
  BY TypeInvInit, SlackInit
<1>2. TypeInv /\ SlackInv /\ [Next]_vars => TypeInv' /\ SlackInv'
  BY TypeInvStep, SlackStep
<1>3. SlackInv => AttemptsWithinSlack
  <2> SUFFICES ASSUME SlackInv, NEW q \in DOMAIN Limit
               PROVE  Cardinality(AttemptsOf(q)) + 1 <= Limit[q] + Cardinality(Requests)
    BY DEF AttemptsWithinSlack
  <2>1. Limit[q] \in Nat /\ Cardinality(AttemptsOf(q)) \in Nat /\ Cardinality(Inserting(q)) \in Nat
        /\ Cardinality(Requests) \in Nat
    BY PolicyAssumption, AttemptsFinite, InsertingFinite
  <2>2. Cardinality(AttemptsOf(q)) + Cardinality(Inserting(q)) + 1
           <= Limit[q] + Cardinality(Requests)
    BY DEF SlackInv
  <2> QED BY <2>1, <2>2
<1> QED BY <1>1, <1>2, <1>3, PTL DEF Spec

-----------------------------------------------------------------------------
(* What a score that the questions gave stands for. *)
WorkDone ==
    \A q \in Required :
       /\ AttemptsOf(q) # {}
       /\ q \in Manual => \E t \in AttemptsOf(q) : grades[t] # None
       /\ q \in MustPass \ Manual => \E t \in AttemptsOf(q) : attempts[t].correct

(* The score, and every score that a request has yet to save. *)
WorkInv ==
    /\ score # None /\ score.origin = "questions" => WorkDone /\ score.total <= MaxTotal
    /\ \A r \in Requests :
         req[r] # None /\ req[r].pc = "save" /\ req[r].kind \in {"answer", "grade"} =>
            WorkDone /\ req[r].score <= MaxTotal

(* Attempts are never changed and grades never withdrawn. *)
Grown ==
    \A t \in Times : /\ attempts[t] # None => attempts'[t] = attempts[t]
                     /\ grades[t] # None => grades'[t] # None

LEMMA WorkGrows ==
  ASSUME TypeInv, [Next]_vars
  PROVE  Grown
<1>1. ASSUME UNCHANGED <<attempts, grades>>
      PROVE  Grown
  BY <1>1 DEF Grown
<1>2. ASSUME NEW r \in Requests, Insert(r)
      PROVE  Grown
  <2>1. UNCHANGED grades
    BY <1>2 DEF Insert
  <2> QED BY <1>2, <2>1, InsertShape DEF Grown, TypeInv, TypeOK
<1>3. ASSUME NEW r \in Requests, UpsertGrade(r)
      PROVE  Grown
  <2>1. /\ req[r] \in Request /\ RequestOK(req[r]) /\ req[r].pc = "grade" /\ UNCHANGED attempts
        /\ grades' = [grades EXCEPT ![req[r].at] =
             [score |-> req[r].score,
              correct |-> req[r].score >= Points[attempts[req[r].at].question]]]
    BY <1>3 DEF UpsertGrade, Step, TypeInv, TypeOK
  <2>2. [score |-> req[r].score,
         correct |-> req[r].score >= Points[attempts[req[r].at].question]] \in Grade
    BY <2>1 DEF Request, Grade
  <2>3. [score |-> req[r].score,
         correct |-> req[r].score >= Points[attempts[req[r].at].question]] # None
    BY <2>2, NoDocumentAssumption
  <2> QED BY <2>1, <2>3 DEF Grown, TypeInv, TypeOK
<1>4. ASSUME NEW r \in Requests, Start(r) \/ Fail(r) \/ Count(r) \/ Number(r) \/ FindProgress(r)
                    \/ WriteProgress(r) \/ ListLatest(r) \/ ListGrades(r) \/ SaveScore(r)
      PROVE  UNCHANGED <<attempts, grades>>
  <2>1. CASE Start(r)
    BY <2>1, StartShape DEF documents
  <2> QED BY <1>4, <2>1 DEF Fail, Count, Number, FindProgress, WriteProgress, ListLatest,
                            ListGrades, SaveScore, documents
<1> QED BY <1>1, <1>2, <1>3, <1>4 DEF Next, Proceed, vars, documents

LEMMA WorkKept ==
  ASSUME TypeInv, Grown, WorkDone
  PROVE  WorkDone'
<1>1. \A q, t : t \in AttemptsOf(q) =>
         t \in AttemptsOf(q)' /\ attempts'[t] = attempts[t] /\ (grades[t] # None => grades'[t] # None)
  <2> SUFFICES ASSUME NEW q, NEW t \in AttemptsOf(q)
               PROVE  /\ t \in AttemptsOf(q)' /\ attempts'[t] = attempts[t]
                      /\ grades[t] # None => grades'[t] # None
    OBVIOUS
  <2>1. t \in Times /\ attempts[t] # None /\ attempts[t].question = q
    BY DEF AttemptsOf
  <2>2. attempts'[t] = attempts[t]
    BY <2>1 DEF Grown
  <2>3. grades[t] # None => grades'[t] # None
    BY <2>1 DEF Grown
  <2> QED BY <2>1, <2>2, <2>3 DEF AttemptsOf
<1> SUFFICES ASSUME NEW q \in Required
             PROVE  /\ AttemptsOf(q)' # {}
                    /\ q \in Manual => \E t \in AttemptsOf(q)' : grades'[t] # None
                    /\ q \in MustPass \ Manual => \E t \in AttemptsOf(q)' : attempts'[t].correct
  BY DEF WorkDone
<1>2. AttemptsOf(q)' # {}
  <2>1. PICK t : t \in AttemptsOf(q)
    BY DEF WorkDone
  <2> QED BY <1>1, <2>1
<1>3. ASSUME q \in Manual
      PROVE  \E t \in AttemptsOf(q)' : grades'[t] # None
  <2>1. PICK t \in AttemptsOf(q) : grades[t] # None
    BY <1>3 DEF WorkDone
  <2> QED BY <1>1, <2>1
<1>4. ASSUME q \in MustPass \ Manual
      PROVE  \E t \in AttemptsOf(q)' : attempts'[t].correct
  <2>1. PICK t \in AttemptsOf(q) : attempts[t].correct
    BY <1>4 DEF WorkDone
  <2> QED BY <1>1, <2>1
<1> QED BY <1>2, <1>3, <1>4

(* The evaluation finds the assignment complete only when the work is done, even *)
(* though it reads the grades after the attempts.                                *)
LEMMA CompleteMeansWork ==
  ASSUME TypeInv, NEW rec \in Request, RequestOK(rec), rec.pc = "grades",
         Evaluate(EffectiveLatest(rec.latest)) = "complete"
  PROVE  WorkDone /\ Total(EffectiveLatest(rec.latest)) <= MaxTotal
<1> DEFINE latest == EffectiveLatest(rec.latest)
<1>1. latest \in [Questions -> Effective \cup {None}]
  BY EffectiveType
<1>2. \A q \in Questions : latest[q] # None =>
         /\ rec.latest[q] \in AttemptsOf(q)
         /\ latest[q] = Effectively(rec.latest[q])
  BY DEF EffectiveLatest, RequestOK, AttemptsOf, Request
<1>3. \A q \in Questions : latest[q] # None => latest[q].score <= Points[q]
  <2> SUFFICES ASSUME NEW q \in Questions, latest[q] # None
               PROVE  latest[q].score <= Points[q]
    OBVIOUS
  <2>1. rec.latest[q] \in Times /\ attempts[rec.latest[q]] # None /\ attempts[rec.latest[q]].question = q
    BY <1>2 DEF AttemptsOf
  <2>2. latest[q] = Effectively(rec.latest[q])
    BY <1>2
  <2> HIDE DEF latest
  <2>3. CASE grades[rec.latest[q]] # None
    BY <2>1, <2>2, <2>3 DEF Effectively, TypeInv, GradesOK
  <2>4. CASE grades[rec.latest[q]] = None
    BY <2>1, <2>2, <2>4 DEF Effectively, TypeInv, GradesOK
  <2> QED BY <2>3, <2>4
<1>4. Answered(latest) = Required /\ PendingManual(latest) = {} /\ FailedMustPass(latest) = {}
  BY DEF Evaluate
<1>5. WorkDone
  <2> SUFFICES ASSUME NEW q \in Required
               PROVE  /\ AttemptsOf(q) # {}
                      /\ q \in Manual => \E t \in AttemptsOf(q) : grades[t] # None
                      /\ q \in MustPass \ Manual => \E t \in AttemptsOf(q) : attempts[t].correct
    BY DEF WorkDone
  <2> DEFINE t == rec.latest[q]
  <2>1. q \in Questions /\ latest[q] # None /\ q \in Answered(latest)
    BY <1>4 DEF Answered, Required
  <2>2. t \in AttemptsOf(q) /\ latest[q] = Effectively(t)
    BY <1>2, <2>1
  <2> HIDE DEF latest, t
  <2>3. t \in Times /\ attempts[t] # None /\ attempts[t].question = q
    BY <2>2 DEF AttemptsOf
  <2>4. q \in Manual => latest[q].graded
    BY <1>4, <2>1 DEF PendingManual
  <2>5. q \in MustPass => latest[q].correct
    BY <1>4, <2>1 DEF FailedMustPass
  <2>6. q \in Manual => grades[t] # None
    BY <2>2, <2>4 DEF Effectively
  <2>7. q \notin Manual => grades[t] = None
    BY <2>3 DEF TypeInv, GradesOK
  <2>8. q \in MustPass \ Manual => attempts[t].correct
    BY <2>2, <2>5, <2>7 DEF Effectively
  <2> QED BY <2>2, <2>6, <2>8
<1> HIDE DEF latest
<1>6. Total(latest) <= MaxTotal
  BY <1>1, <1>3, TotalBound
<1> QED BY <1>5, <1>6 DEF latest

LEMMA WorkInvStep ==
  ASSUME TypeInv, WorkInv, [Next]_vars
  PROVE  WorkInv'
<1>0. WorkDone => WorkDone'
  BY WorkGrows, WorkKept
<1> DEFINE Saving(rec) == rec # None /\ rec.pc = "save" /\ rec.kind \in {"answer", "grade"}
(* A step that neither saves a score nor readies one to be saved. *)
<1>1. ASSUME UNCHANGED score,
             \A x \in Requests : Saving(req'[x]) => Saving(req[x]) /\ req'[x].score = req[x].score
      PROVE  WorkInv'
  BY <1>0, <1>1 DEF WorkInv
<1>2. CASE UNCHANGED vars
  BY <1>1, <1>2 DEF vars, documents
<1>3. ASSUME NEW r \in Requests, Start(r)
      PROVE  WorkInv'
  <2> PICK rec : /\ Begun(rec) /\ req[r] = None
                 /\ req' = [req EXCEPT ![r] = rec]
                 /\ rec.pc = "count" => Room
                 /\ UNCHANGED <<assessment, documents, clock, faults>>
    BY <1>3, StartShape
  <2>1. ~Saving(rec)
    BY DEF Begun
  <2> QED BY <1>1, <2>1 DEF documents, TypeInv, TypeOK
<1>4. ASSUME NEW r \in Requests,
             Count(r) \/ Number(r) \/ Insert(r) \/ UpsertGrade(r) \/ ListLatest(r)
      PROVE  WorkInv'
  <2>1. UNCHANGED score /\ \A x \in Requests \ {r} : req'[x] = req[x]
    BY <1>4 DEF Count, Number, Insert, UpsertGrade, ListLatest, documents, TypeInv, TypeOK
  <2>2. ~Saving(req'[r])
    BY <1>4 DEF Count, Number, Insert, UpsertGrade, ListLatest, Step, TypeInv, TypeOK, Request
  <2> QED BY <1>1, <2>1, <2>2
<1>5. ASSUME NEW r \in Requests, FindProgress(r)
      PROVE  WorkInv'
  <2>1. /\ UNCHANGED score /\ req[r] \in Request /\ req[r] # None
        /\ \A x \in Requests \ {r} : req'[x] = req[x]
        /\ req'[r] = [req[r] EXCEPT !.seen = progress, !.todo = (@ \ {"find"}) \cup {"progress"}]
    BY <1>5 DEF FindProgress, documents, TypeInv, TypeOK
  <2>2. /\ req'[r].pc = req[r].pc /\ req'[r].kind = req[r].kind
        /\ req'[r].score = req[r].score
    BY <2>1 DEF Request
  <2> QED BY <1>1, <2>1, <2>2
<1>6. ASSUME NEW r \in Requests, NEW w, req[r] \in Request
      PROVE  Saving(Continue(req[r], w)) => Saving(req[r]) /\ Continue(req[r], w).score = req[r].score
  <2>1. CASE req[r].todo # {w}
    <3>1. /\ Continue(req[r], w).pc = req[r].pc /\ Continue(req[r], w).kind = req[r].kind
          /\ Continue(req[r], w).score = req[r].score
      BY <1>6, <2>1 DEF Continue, Request
    <3> QED BY <1>6, <3>1, NoDocumentAssumption
  <2>2. CASE req[r].todo = {w}
    BY <2>2 DEF Continue, NewRequest
  <2> QED BY <2>1, <2>2
<1>7. ASSUME NEW r \in Requests, WriteProgress(r) \/ Fail(r)
      PROVE  WorkInv'
  <2>1. /\ UNCHANGED score /\ req[r] \in Request
        /\ \A x \in Requests \ {r} : req'[x] = req[x]
        /\ req'[r] = None \/ \E w : req'[r] = Continue(req[r], w)
    BY <1>7 DEF WriteProgress, Fail, documents, TypeInv, TypeOK
  <2> QED BY <1>1, <1>6, <2>1
<1>8. ASSUME NEW r \in Requests, ListGrades(r)
      PROVE  WorkInv'
  <2> DEFINE latest == EffectiveLatest(req[r].latest)
  <2>1. /\ UNCHANGED score /\ req[r] \in Request /\ RequestOK(req[r]) /\ req[r].pc = "grades"
        /\ \A x \in Requests \ {r} : req'[x] = req[x]
        /\ req'[r] = IF Evaluate(latest) # "complete" THEN None
                     ELSE [NewRequest(req[r].kind, "save") EXCEPT
                             !.score = Total(latest), !.todo = {"score", "find"},
                             !.status = "submitted"]
    BY <1>8 DEF ListGrades, Step, documents, TypeInv, TypeOK
  <2>2. CASE Evaluate(latest) # "complete"
    BY <1>1, <2>1, <2>2
  <2>3. CASE Evaluate(latest) = "complete"
    <3>1. WorkDone /\ Total(latest) <= MaxTotal
      BY <2>1, <2>3, CompleteMeansWork
    <3> HIDE DEF latest
    <3>2. req'[r].score = Total(latest)
      BY <2>1, <2>3 DEF NewRequest
    <3> QED BY <1>0, <2>1, <3>1, <3>2 DEF WorkInv
  <2> QED BY <2>2, <2>3
<1>9. ASSUME NEW r \in Requests, SaveScore(r)
      PROVE  WorkInv'
  <2>1. /\ req[r] \in Request /\ req[r] # None /\ req[r].pc = "save" /\ RequestOK(req[r])
        /\ req'[r] = Continue(req[r], "score") /\ \A x \in Requests \ {r} : req'[x] = req[x]
        /\ score' = [total |-> req[r].score, origin |-> Origin(req[r].kind)]
    BY <1>9 DEF SaveScore, Step, TypeInv, TypeOK
  <2>2. \A x \in Requests : Saving(req'[x]) => WorkDone' /\ req'[x].score <= MaxTotal
    BY <1>0, <1>6, <2>1 DEF WorkInv
  <2>3. score'.origin = "questions" => req[r].kind \in {"answer", "grade"}
    BY <2>1 DEF Origin, Request, RequestKinds
  <2>4. score'.origin = "questions" => WorkDone' /\ score'.total <= MaxTotal
    BY <1>0, <2>1, <2>3 DEF WorkInv
  <2> QED BY <2>2, <2>4 DEF WorkInv
<1> QED BY <1>2, <1>3, <1>4, <1>5, <1>7, <1>8, <1>9 DEF Next, Proceed

LEMMA WorkInvariant == Spec => [](TypeInv /\ WorkInv)
<1>1. Init => TypeInv /\ WorkInv
  BY TypeInvInit DEF Init, WorkInv
<1>2. TypeInv /\ WorkInv /\ [Next]_vars => TypeInv' /\ WorkInv'
  BY TypeInvStep, WorkInvStep
<1> QED BY <1>1, <1>2, PTL DEF Spec

(* No score of the questions without the work: whatever requests run at once,  *)
(* fail, or read attempts and grades that others are writing. Code: the listing *)
(* and evaluation in finalizeCompletedQuestionContent and the score it saves.   *)
THEOREM ScoreEarned == Spec => []ScoreNeedsWork
<1>1. WorkInv => ScoreNeedsWork
  BY DEF WorkInv, WorkDone, ScoreNeedsWork
<1> QED BY <1>1, WorkInvariant, PTL

(* No score of the questions above their points. Code: the bound on the grade in *)
(* gradeManualQuestionAttempt and the sum in evaluateAssignmentCompletion.       *)
THEOREM ScoreBounded == Spec => []ScoreWithinMaximum
<1>1. WorkInv => ScoreWithinMaximum
  BY DEF WorkInv, ScoreWithinMaximum
<1> QED BY <1>1, WorkInvariant, PTL

-----------------------------------------------------------------------------
(* A request that will see all of the work, or is about to save a score. *)
Notices(rec) ==
    /\ rec # None
    /\ \/ rec.pc \in {"merge", "latest"}
       \/ rec.pc = "grades" /\ rec.latest = LatestIds
       \/ "score" \in rec.todo

(* As long as nothing failed, somebody does until there is a score. *)
NoticeInv == faults = 0 /\ Complete /\ score = None => \E r \in Requests : Notices(req[r])

LEMMA SameWork ==
  ASSUME UNCHANGED <<attempts, grades>>
  PROVE  LatestIds' = LatestIds /\ Complete' = Complete
<1>1. LatestIds' = LatestIds
  BY DEF LatestIds, LatestId, AttemptsOf
<1>2. EffectiveLatest(LatestIds)' = EffectiveLatest(LatestIds)
  BY <1>1 DEF EffectiveLatest, Effectively
<1> QED BY <1>1, <1>2 DEF Complete

(* A request that writes its progress and notices goes on doing so. *)
LEMMA NoticesOn ==
  ASSUME NEW rec \in Request, RequestOK(rec), Notices(rec), "progress" \in rec.todo
  PROVE  Notices(Continue(rec, "progress"))
<1>1. rec.pc = "merge" \/ "score" \in rec.todo
  BY DEF Notices, RequestOK
<1>2. CASE rec.todo # {"progress"}
  <2> DEFINE on == [rec EXCEPT !.todo = @ \ {"progress"}]
  <2>1. on \in Request /\ on.pc = rec.pc /\ on.todo = rec.todo \ {"progress"}
    BY DEF Request
  <2>2. Continue(rec, "progress") = on /\ on # None
    BY <1>2, <2>1, NoDocumentAssumption DEF Continue
  <2> QED BY <1>1, <2>1, <2>2 DEF Notices
<1>3. CASE rec.todo = {"progress"}
  <2>1. rec.pc = "merge" /\ Continue(rec, "progress") = NewRequest(rec.kind, "latest")
    BY <1>1, <1>3 DEF Continue
  <2>2. NewRequest(rec.kind, "latest") \in Request /\ NewRequest(rec.kind, "latest").pc = "latest"
    BY NewRequestType DEF Request, NewRequest
  <2> QED BY <2>1, <2>2, NoDocumentAssumption DEF Notices
<1> QED BY <1>2, <1>3

LEMMA NoticeInvStep ==
  ASSUME TypeInv, NoticeInv, [Next]_vars
  PROVE  NoticeInv'
(* A step that adds no work and after which those who noticed still do. *)
<1>1. ASSUME UNCHANGED <<attempts, grades, score, faults>>,
             \A x \in Requests : Complete /\ Notices(req[x]) => Notices(req[x])'
      PROVE  NoticeInv'
  BY <1>1, SameWork DEF NoticeInv
<1>2. CASE UNCHANGED vars
  <2>1. UNCHANGED <<attempts, grades, score, faults, req>>
    BY <1>2 DEF vars, documents
  <2>2. \A x \in Requests : Notices(req[x]) => Notices(req[x])'
    BY <2>1, SameWork DEF Notices
  <2> QED BY <1>1, <2>1, <2>2
<1>3. ASSUME NEW r \in Requests, UNCHANGED <<attempts, grades, score, faults>>,
             \A x \in Requests \ {r} : req'[x] = req[x],
             Complete /\ Notices(req[r]) => Notices(req[r])'
      PROVE  NoticeInv'
  <2>1. \A x \in Requests \ {r} : Notices(req[x]) => Notices(req[x])'
    BY <1>3, SameWork DEF Notices
  <2> QED BY <1>1, <1>3, <2>1
<1>4. ASSUME NEW r \in Requests, Start(r)
      PROVE  NoticeInv'
  <2> PICK rec : /\ Begun(rec) /\ req[r] = None
                 /\ req' = [req EXCEPT ![r] = rec]
                 /\ rec.pc = "count" => Room
                 /\ UNCHANGED <<assessment, documents, clock, faults>>
    BY <1>4, StartShape
  <2> QED BY <1>3 DEF Notices, documents, TypeInv, TypeOK
(* Who counts or takes a number has noticed nothing yet. *)
<1>5. ASSUME NEW r \in Requests, Count(r) \/ Number(r)
      PROVE  NoticeInv'
  <2>1. /\ req[r].pc \in {"count", "number"} /\ req[r] # None /\ RequestOK(req[r])
        /\ UNCHANGED <<attempts, grades, score, faults>>
        /\ \A x \in Requests \ {r} : req'[x] = req[x]
    BY <1>5 DEF Count, Number, Step, documents, TypeInv, TypeOK
  <2>2. ~Notices(req[r])
    BY <2>1 DEF Notices, RequestOK
  <2> QED BY <1>3, <2>1, <2>2
(* New work makes a request that will see it. *)
<1>6. ASSUME NEW r \in Requests, Insert(r) \/ UpsertGrade(r)
      PROVE  NoticeInv'
  <2>1. req[r] \in Request /\ req' \in [Requests -> Request \cup {None}]
    BY <1>6, TypeInvStep DEF Insert, UpsertGrade, Step, TypeInv, TypeOK
  <2>2. req'[r].pc \in {"merge", "latest"} /\ req'[r] \in Request
    <3>1. CASE Insert(r)
      <4> DEFINE rec == [req[r] EXCEPT !.pc = "merge", !.todo = {"find"}, !.at = None, !.number = 0]
      <4>1. rec \in Request /\ rec.pc = "merge"
        BY <2>1 DEF Request, Writes
      <4>2. req'[r] = rec
        BY <3>1, <2>1 DEF Insert, TypeInv, TypeOK
      <4> QED BY <4>1, <4>2
    <3>2. CASE UpsertGrade(r)
      <4> DEFINE rec == [req[r] EXCEPT !.pc = "latest", !.at = None]
      <4>1. rec \in Request /\ rec.pc = "latest"
        BY <2>1 DEF Request
      <4>2. req'[r] = rec
        BY <3>2, <2>1 DEF UpsertGrade, TypeInv, TypeOK
      <4> QED BY <4>1, <4>2
    <3> QED BY <1>6, <3>1, <3>2
  <2> QED BY <2>2, NoDocumentAssumption DEF NoticeInv, Notices
<1>7. ASSUME NEW r \in Requests, FindProgress(r)
      PROVE  NoticeInv'
  <2> DEFINE rec == [req[r] EXCEPT !.seen = progress, !.todo = (@ \ {"find"}) \cup {"progress"}]
  <2>1. /\ UNCHANGED <<attempts, grades, score, faults>>
        /\ \A x \in Requests \ {r} : req'[x] = req[x]
        /\ req[r] \in Request /\ req'[r] = rec /\ progress \in Progress
        /\ req[r].pc \in {"merge", "save"}
    BY <1>7 DEF FindProgress, documents, TypeInv, TypeOK
  <2>2. /\ rec \in Request /\ rec.pc = req[r].pc
        /\ "score" \in req[r].todo => "score" \in rec.todo
    BY <2>1 DEF Request, Writes
  <2>3. Notices(req[r]) => Notices(req[r])'
    BY <2>1, <2>2, NoDocumentAssumption DEF Notices
  <2> QED BY <1>3, <2>1, <2>3
<1>8. ASSUME NEW r \in Requests, WriteProgress(r)
      PROVE  NoticeInv'
  <2>1. /\ UNCHANGED <<attempts, grades, score, faults>>
        /\ \A x \in Requests \ {r} : req'[x] = req[x]
        /\ req[r] \in Request /\ RequestOK(req[r]) /\ "progress" \in req[r].todo
        /\ req'[r] = Continue(req[r], "progress")
    BY <1>8 DEF WriteProgress, documents, TypeInv, TypeOK
  <2>2. Notices(req[r]) => Notices(Continue(req[r], "progress"))
    BY <2>1, NoticesOn
  <2>3. Notices(Continue(req[r], "progress")) => Notices(req[r])'
    BY <2>1, SameWork DEF Notices
  <2> QED BY <1>3, <2>1, <2>2, <2>3
(* Who lists the attempts sees the latest, and so does who then lists grades. *)
<1>9. ASSUME NEW r \in Requests, ListLatest(r)
      PROVE  NoticeInv'
  <2> DEFINE rec == [req[r] EXCEPT !.pc = "grades", !.latest = LatestIds]
  <2>1. /\ UNCHANGED <<attempts, grades, score, faults>>
        /\ \A x \in Requests \ {r} : req'[x] = req[x]
        /\ req[r] \in Request /\ req'[r] = rec
    BY <1>9 DEF ListLatest, Step, documents, TypeInv, TypeOK
  <2>2. LatestIds \in [Questions -> Times \cup {None}]
    BY LatestChosen DEF LatestIds, AttemptsOf
  <2>3. rec \in Request /\ rec.pc = "grades" /\ rec.latest = LatestIds
    <3> HIDE DEF LatestIds
    <3> QED BY <2>1, <2>2 DEF Request
  <2> HIDE DEF rec
  <2>4. LatestIds' = LatestIds
    BY <2>1, SameWork
  <2>5. Notices(req[r])'
    BY <2>1, <2>3, <2>4, NoDocumentAssumption DEF Notices
  <2> QED BY <1>3, <2>1, <2>5
<1>10. ASSUME NEW r \in Requests, ListGrades(r)
       PROVE  NoticeInv'
  <2> DEFINE latest == EffectiveLatest(req[r].latest)
             saving == [NewRequest(req[r].kind, "save") EXCEPT
                          !.score = Total(latest), !.todo = {"score", "find"},
                          !.status = "submitted"]
  <2>1. /\ UNCHANGED <<attempts, grades, score, faults>>
        /\ \A x \in Requests \ {r} : req'[x] = req[x]
        /\ req[r] \in Request /\ RequestOK(req[r]) /\ req[r].pc = "grades"
        /\ req'[r] = IF Evaluate(latest) # "complete" THEN None ELSE saving
    BY <1>10 DEF ListGrades, Step, documents, TypeInv, TypeOK
  <2>2. ASSUME Complete, Notices(req[r])
        PROVE  Notices(req[r])'
    <3>1. req[r].latest = LatestIds
      BY <2>1, <2>2 DEF Notices, RequestOK
    <3>2. Evaluate(latest) = "complete"
      BY <2>2, <3>1 DEF Complete
    <3>3. latest \in [Questions -> Effective \cup {None}]
      BY <2>1, EffectiveType
    <3>4. Total(latest) \in Nat
      BY <3>3, TotalType
    <3> HIDE DEF latest
    <3>5. req[r].kind \in {"answer", "grade"}
      BY <2>1 DEF RequestOK
    <3>6. saving \in Request /\ saving.todo = {"score", "find"}
      BY <3>4, <3>5 DEF NewRequest, Request, RequestKinds, Statuses, Writes
    <3>7. req'[r] = saving
      BY <2>1, <3>2
    <3> QED BY <3>6, <3>7, NoDocumentAssumption DEF Notices
  <2> QED BY <1>3, <2>1, <2>2
<1>11. ASSUME NEW r \in Requests, SaveScore(r)
       PROVE  NoticeInv'
  <2>1. /\ score' = [total |-> req[r].score, origin |-> Origin(req[r].kind)]
        /\ req[r] \in Request /\ RequestOK(req[r]) /\ "score" \in req[r].todo
    BY <1>11 DEF SaveScore, Step, TypeInv, TypeOK
  <2>2. score' \in Score
    BY <2>1 DEF Origin, Score, Request, RequestKinds, RequestOK
  <2> QED BY <2>2, NoDocumentAssumption DEF NoticeInv
<1>12. ASSUME NEW r \in Requests, Fail(r)
       PROVE  NoticeInv'
  <2>1. faults \in Nat /\ faults' = faults + 1
    BY <1>12, SubmissionAssumption DEF Fail, TypeInv, TypeOK
  <2> QED BY <2>1 DEF NoticeInv
<1> QED
  BY <1>2, <1>4, <1>5, <1>6, <1>7, <1>8, <1>9, <1>10, <1>11, <1>12 DEF Next, Proceed

(* Complete work never lacks its score, whoever finished last and whatever else *)
(* ran, unless a call failed. With no required question the assignment is       *)
(* complete before anybody has done anything, so there must be one. Code: every *)
(* insert and every grade is followed by finalizeCompletedQuestionContent.      *)
THEOREM CompletedIsScored ==
  ASSUME Required # {}
  PROVE  Spec => []CompleteIsScored
<1>1. Init => TypeInv /\ NoticeInv
  <2> SUFFICES ASSUME Init
               PROVE  TypeInv /\ NoticeInv
    OBVIOUS
  <2>1. \A q \in Questions : EffectiveLatest(LatestIds)[q] = None
    BY DEF Init, EffectiveLatest, LatestIds, LatestId, AttemptsOf
  <2>2. Answered(EffectiveLatest(LatestIds)) = {}
    BY <2>1 DEF Answered, Required
  <2>3. ~Complete
    BY <2>2 DEF Complete, Evaluate
  <2> QED BY <2>3, TypeInvInit DEF NoticeInv
<1>2. TypeInv /\ NoticeInv /\ [Next]_vars => TypeInv' /\ NoticeInv'
  BY TypeInvStep, NoticeInvStep
<1>3. NoticeInv => CompleteIsScored
  BY DEF NoticeInv, Notices, CompleteIsScored, Quiet
<1> QED BY <1>1, <1>2, <1>3, PTL DEF Spec

-----------------------------------------------------------------------------
(* One request at a time.                                                  *)

OneAtATime == \A r, x \in Requests : r = x

(* What is left of a request after one of its writes. *)
LEMMA ContinueShape ==
  ASSUME NEW rec \in Request, NEW w
  PROVE  \E new : /\ new = Continue(rec, w)
                  /\ \/ new = None
                     \/ new \in Request /\ new.pc = "latest" /\ rec.pc = "merge"
                     \/ /\ new \in Request /\ new.pc = rec.pc /\ new.kind = rec.kind
                        /\ new.score = rec.score /\ new.status = rec.status
                        /\ new.latest = rec.latest /\ new.todo = rec.todo \ {w}
<1>1. CASE rec.todo # {w}
  <2> DEFINE on == [rec EXCEPT !.todo = @ \ {w}]
  <2>1. /\ on \in Request /\ on.pc = rec.pc /\ on.kind = rec.kind
        /\ on.score = rec.score /\ on.status = rec.status
        /\ on.latest = rec.latest /\ on.todo = rec.todo \ {w}
    BY DEF Request
  <2>2. Continue(rec, w) = on
    BY <1>1 DEF Continue
  <2> QED BY <2>1, <2>2
<1>2. CASE rec.todo = {w} /\ rec.pc = "merge"
  <2> DEFINE on == NewRequest(rec.kind, "latest")
  <2>1. on \in Request
    BY NewRequestType DEF Request
  <2>2. on.pc = "latest"
    BY DEF NewRequest
  <2>3. Continue(rec, w) = on
    BY <1>2 DEF Continue
  <2> QED BY <1>2, <2>1, <2>2, <2>3
<1>3. CASE rec.todo = {w} /\ rec.pc # "merge"
  BY <1>3 DEF Continue
<1> QED BY <1>1, <1>2, <1>3

(* A request that will only write a submitted progress. *)
Harmless(rec) ==
    \/ rec.pc \in {"grade", "latest", "grades"}
    \/ /\ rec.pc \in {"merge", "save"}
       /\ rec.todo \cap {"find", "progress"} # {} => rec.status = "submitted"

(* Once an assessment is submitted, no other request runs. *)
SubmittedInv ==
    assessment /\ progress.status = "submitted" =>
       \A r \in Requests : req[r] # None => Harmless(req[r])

LEMMA StartHarmless ==
  ASSUME TypeInv, NEW r \in Requests, Start(r), assessment, progress.status = "submitted"
  PROVE  Harmless(req'[r]) /\ UNCHANGED <<assessment, documents>>
<1>1. (\E n \in Scores : GradeContent(r, n)) \/ (\E n \in Scores, t \in Times : GradeAttempt(r, t, n))
  BY DEF Start, Answer, Autosave, SubmitScore, CanSubmit
<1>2. ASSUME NEW n \in Scores, GradeContent(r, n)
      PROVE  Harmless(req'[r]) /\ UNCHANGED <<assessment, documents>>
  <2> DEFINE rec == [NewRequest("instructor", "save") EXCEPT
                       !.score = n, !.todo = {"score", "find"}, !.status = "submitted"]
  <2>1. req'[r] = rec /\ UNCHANGED <<assessment, documents>>
    BY <1>2 DEF GradeContent, Begin, TypeInv, TypeOK
  <2>2. rec.pc = "save" /\ rec.status = "submitted"
    BY DEF NewRequest
  <2> QED BY <2>1, <2>2 DEF Harmless
<1>3. ASSUME NEW n \in Scores, NEW t \in Times, GradeAttempt(r, t, n)
      PROVE  Harmless(req'[r]) /\ UNCHANGED <<assessment, documents>>
  <2> DEFINE rec == [NewRequest("grade", "grade") EXCEPT !.at = t, !.score = n]
  <2>1. req'[r] = rec /\ UNCHANGED <<assessment, documents>>
    BY <1>3 DEF GradeAttempt, Begin, TypeInv, TypeOK
  <2>2. rec.pc = "grade"
    BY DEF NewRequest
  <2> QED BY <2>1, <2>2 DEF Harmless
<1> QED BY <1>1, <1>2, <1>3

LEMMA SubmittedStep ==
  ASSUME OneAtATime, TypeInv, SubmittedInv, [Next]_vars
  PROVE  /\ SubmittedInv'
         /\ assessment /\ progress.status = "submitted" => progress'.status = "submitted"
<1>1. CASE UNCHANGED vars
  BY <1>1 DEF vars, documents, SubmittedInv
(* A step that leaves the progress as it is. *)
<1>2. ASSUME NEW r \in Requests, UNCHANGED <<assessment, progress>>,
             assessment /\ progress.status = "submitted" /\ req'[r] # None
                => Harmless(req'[r])
      PROVE  /\ SubmittedInv'
             /\ assessment /\ progress.status = "submitted" => progress'.status = "submitted"
  BY <1>2 DEF SubmittedInv, OneAtATime
<1>3. ASSUME NEW r \in Requests, Start(r)
      PROVE  /\ SubmittedInv'
             /\ assessment /\ progress.status = "submitted" => progress'.status = "submitted"
  <2>1. UNCHANGED <<assessment, progress>>
    BY <1>3, StartShape DEF documents
  <2> QED BY <1>2, <1>3, <2>1, StartHarmless
<1>4. ASSUME NEW r \in Requests, req[r] # None, assessment, progress.status = "submitted"
      PROVE  Harmless(req[r])
  BY <1>4 DEF SubmittedInv
<1>5. ASSUME NEW r \in Requests, Count(r) \/ Number(r) \/ Insert(r)
      PROVE  /\ SubmittedInv'
             /\ assessment /\ progress.status = "submitted" => progress'.status = "submitted"
  <2>1. /\ req[r] # None /\ req[r].pc \in {"count", "number", "insert"}
        /\ UNCHANGED <<assessment, progress>>
    BY <1>5 DEF Count, Number, Insert, Step, documents
  <2> QED BY <1>2, <1>4, <2>1 DEF Harmless
<1>6. ASSUME NEW r \in Requests, UpsertGrade(r) \/ ListLatest(r)
      PROVE  /\ SubmittedInv'
             /\ assessment /\ progress.status = "submitted" => progress'.status = "submitted"
  <2>1. UNCHANGED <<assessment, progress>> /\ req[r] \in Request
    BY <1>6 DEF UpsertGrade, ListLatest, Step, documents, TypeInv, TypeOK
  <2>2. req'[r].pc \in {"latest", "grades"}
    BY <1>6, <2>1 DEF UpsertGrade, ListLatest, Request, TypeInv, TypeOK
  <2> QED BY <1>2, <2>1, <2>2 DEF Harmless
<1>7. ASSUME NEW r \in Requests, FindProgress(r)
      PROVE  /\ SubmittedInv'
             /\ assessment /\ progress.status = "submitted" => progress'.status = "submitted"
  <2> DEFINE rec == [req[r] EXCEPT !.seen = progress, !.todo = (@ \ {"find"}) \cup {"progress"}]
  <2>1. /\ UNCHANGED <<assessment, progress>> /\ req[r] \in Request /\ req[r] # None
        /\ req[r].pc \in {"merge", "save"} /\ "find" \in req[r].todo /\ req'[r] = rec
    BY <1>7 DEF FindProgress, documents, TypeInv, TypeOK
  <2>2. rec.pc = req[r].pc /\ rec.status = req[r].status
    BY <2>1 DEF Request
  <2> HIDE DEF rec
  <2> QED BY <1>2, <1>4, <2>1, <2>2 DEF Harmless
<1>8. ASSUME NEW r \in Requests, ListGrades(r)
      PROVE  /\ SubmittedInv'
             /\ assessment /\ progress.status = "submitted" => progress'.status = "submitted"
  <2> DEFINE total == Total(EffectiveLatest(req[r].latest))
             rec == [NewRequest(req[r].kind, "save") EXCEPT
                       !.score = total, !.todo = {"score", "find"}, !.status = "submitted"]
  <2>1. UNCHANGED <<assessment, progress>> /\ req'[r] \in {None, rec}
    BY <1>8 DEF ListGrades, documents, TypeInv, TypeOK
  <2> HIDE DEF total
  <2>2. rec.pc = "save" /\ rec.status = "submitted"
    BY DEF NewRequest
  <2> HIDE DEF rec
  <2> QED BY <1>2, <2>1, <2>2 DEF Harmless
(* What a request still writes is what it was to write. *)
<1>9. ASSUME NEW r \in Requests, req[r] # None, NEW w, req'[r] = Continue(req[r], w),
             req'[r] # None, Harmless(req[r])
      PROVE  Harmless(req'[r])
  <2>1. req[r] \in Request
    BY <1>9 DEF TypeInv, TypeOK
  <2>2. PICK new : /\ new = Continue(req[r], w)
                   /\ \/ new = None
                      \/ new \in Request /\ new.pc = "latest" /\ req[r].pc = "merge"
                      \/ /\ new \in Request /\ new.pc = req[r].pc /\ new.kind = req[r].kind
                         /\ new.score = req[r].score /\ new.status = req[r].status
                         /\ new.latest = req[r].latest /\ new.todo = req[r].todo \ {w}
    BY <2>1, ContinueShape
  <2> QED BY <1>9, <2>2 DEF Harmless
<1>10. ASSUME NEW r \in Requests, SaveScore(r) \/ Fail(r)
       PROVE  /\ SubmittedInv'
              /\ assessment /\ progress.status = "submitted" => progress'.status = "submitted"
  <2>1. /\ UNCHANGED <<assessment, progress>> /\ req[r] # None
        /\ req'[r] = None \/ \E w : req'[r] = Continue(req[r], w)
    BY <1>10 DEF SaveScore, Fail, Step, documents, TypeInv, TypeOK
  <2> QED BY <1>2, <1>4, <1>9, <2>1
<1>11. ASSUME NEW r \in Requests, WriteProgress(r)
       PROVE  /\ SubmittedInv'
              /\ assessment /\ progress.status = "submitted" => progress'.status = "submitted"
  <2>1. /\ req[r] \in Request /\ req[r] # None /\ "progress" \in req[r].todo
        /\ req[r].pc \in {"merge", "save"} /\ UNCHANGED assessment
        /\ progress' = NewProgress(req[r]) /\ req'[r] = Continue(req[r], "progress")
    BY <1>11 DEF WriteProgress, TypeInv, TypeOK, RequestOK
  <2>2. progress'.status = "submitted" <=> req[r].status = "submitted"
    <3>1. None # "submitted"
      BY NoDocumentAssumption DEF Statuses
    <3> DEFINE answers == IF req[r].keep THEN req[r].seen.answers ELSE req[r].answers
    <3>2. progress'.status = IF req[r].status # None THEN req[r].status
                             ELSE IF answers = {} THEN "not_started" ELSE "in_progress"
      BY <2>1 DEF NewProgress
    <3> HIDE DEF answers
    <3> QED BY <3>1, <3>2
  <2>3. req[r].status = "submitted" => Harmless(req[r])
    BY <2>1 DEF Harmless
  <2>4. SubmittedInv'
    BY <1>9, <2>1, <2>2, <2>3 DEF SubmittedInv, OneAtATime
  <2>5. assessment /\ progress.status = "submitted" => req[r].status = "submitted"
    BY <1>4, <2>1 DEF Harmless
  <2> QED BY <2>2, <2>4, <2>5
<1> QED
  BY <1>1, <1>3, <1>5, <1>6, <1>7, <1>8, <1>10, <1>11 DEF Next, Proceed

(* With one request at a time, no request that a learner sends, no partial score and *)
(* no failed call takes a submitted assessment back. Code: the check in              *)
(* assertAssessmentCanSubmit and the statuses that upsertContentProgress is given.   *)
THEOREM AssessmentsStaySubmitted ==
  ASSUME OneAtATime
  PROVE  Spec => AssessmentStaysSubmitted
<1>1. Init => TypeInv /\ SubmittedInv
  BY TypeInvInit DEF Init, SubmittedInv
<1>2. TypeInv /\ SubmittedInv /\ [Next]_vars => TypeInv' /\ SubmittedInv'
  BY TypeInvStep, SubmittedStep
<1>3. TypeInv /\ SubmittedInv /\ [Next]_vars
         => [assessment /\ progress.status = "submitted"
                => progress'.status = "submitted"]_vars
  BY SubmittedStep
<1> QED BY <1>1, <1>2, <1>3, PTL DEF Spec, AssessmentStaysSubmitted

(* The score that the latest attempts and grades give. *)
Current == Total(EffectiveLatest(LatestIds))

SavesScore(rec) ==
    rec.pc = "save" /\ rec.kind \in {"answer", "grade"} /\ "score" \in rec.todo

(* A request that has yet to find the score, or has found it and not saved it. *)
Renews(rec) == rec.pc \in {"merge", "latest", "grades"} \/ SavesScore(rec)

(* What a request has listed, and the score it will save, are the latest ones. *)
UpToDate(rec) ==
    /\ rec.pc = "grades" => rec.latest = LatestIds
    /\ SavesScore(rec) => rec.score = Current

(* As long as nothing failed, the score of a complete assignment is current or the *)
(* running request will renew it.                                                 *)
CurrentInv ==
    faults = 0 =>
       /\ \A r \in Requests : req[r] # None => UpToDate(req[r])
       /\ Complete /\ score # None /\ score.origin = "questions" =>
             \/ score.total = Current
             \/ \E r \in Requests : req[r] # None /\ Renews(req[r])

LEMMA SameCurrent ==
  ASSUME UNCHANGED <<attempts, grades>>
  PROVE  Current' = Current /\ LatestIds' = LatestIds /\ Complete' = Complete
<1>1. LatestIds' = LatestIds /\ Complete' = Complete
  BY SameWork
<1>2. EffectiveLatest(LatestIds)' = EffectiveLatest(LatestIds)
  BY <1>1 DEF EffectiveLatest, Effectively
<1> QED BY <1>1, <1>2 DEF Current

(* A step that changes neither the work nor the score. *)
LEMMA QuietCurrent ==
  ASSUME OneAtATime, CurrentInv, NEW r \in Requests, NEW new, req'[r] = new,
         UNCHANGED <<attempts, grades, score, faults>>,
         faults = 0 /\ new # None => UpToDate(new),
         faults = 0 /\ Complete /\ req[r] # None /\ Renews(req[r]) => new # None /\ Renews(new)
  PROVE  CurrentInv'
<1>1. Current' = Current /\ LatestIds' = LatestIds /\ Complete' = Complete
  BY SameCurrent
<1> SUFFICES ASSUME faults = 0
             PROVE  CurrentInv'
  BY DEF CurrentInv
<1>2. \A x \in Requests : req'[x] = new
  BY DEF OneAtATime
<1>3. new # None => UpToDate(new)'
  BY <1>1 DEF UpToDate
<1>4. ASSUME Complete, score # None, score.origin = "questions"
      PROVE  score.total = Current \/ (new # None /\ Renews(new))
  BY <1>4 DEF CurrentInv, OneAtATime
<1>5. \A x \in Requests : req'[x] # None => UpToDate(req[x])'
  BY <1>2, <1>3 DEF UpToDate, SavesScore
<1>6. Complete' /\ score' # None /\ score'.origin = "questions" =>
         score'.total = Current' \/ \E x \in Requests : req'[x] # None /\ Renews(req'[x])
  BY <1>1, <1>4
<1> HIDE DEF Current, Complete
<1> QED BY <1>5, <1>6 DEF CurrentInv

(* A step that adds work, in a request that will see it. *)
LEMMA NewCurrent ==
  ASSUME OneAtATime, NEW r \in Requests, NEW new \in Request, req'[r] = new,
         new.pc \in {"merge", "latest"}
  PROVE  CurrentInv'
<1>1. \A x \in Requests : req'[x] = new
  BY DEF OneAtATime
<1>2. new # None /\ Renews(new)
  BY NoDocumentAssumption DEF Renews
<1>3. UpToDate(new)'
  BY DEF UpToDate, SavesScore
<1>4. \A x \in Requests : UpToDate(req[x])'
  BY <1>1, <1>3 DEF UpToDate, SavesScore
<1> QED BY <1>1, <1>2, <1>4 DEF CurrentInv

LEMMA CurrentStep ==
  ASSUME OneAtATime, TypeInv, CurrentInv, [Next]_vars
  PROVE  CurrentInv'
<1>1. CASE UNCHANGED vars
  <2>1. UNCHANGED <<attempts, grades, score, faults, req>>
    BY <1>1 DEF vars, documents
  <2>2. PICK r : r \in Requests
    BY SubmissionAssumption
  <2>3. faults = 0 /\ req[r] # None => UpToDate(req[r])
    BY <2>2 DEF CurrentInv
  <2> QED BY <2>1, <2>2, <2>3, QuietCurrent
<1>2. ASSUME NEW r \in Requests, Start(r)
      PROVE  CurrentInv'
  <2> PICK rec : /\ Begun(rec) /\ req[r] = None
                 /\ req' = [req EXCEPT ![r] = rec]
                 /\ rec.pc = "count" => Room
                 /\ UNCHANGED <<assessment, documents, clock, faults>>
    BY <1>2, StartShape
  <2>1. req'[r] = rec /\ UNCHANGED <<attempts, grades, score, faults>>
    BY DEF documents, TypeInv, TypeOK
  <2>2. UpToDate(rec)
    BY DEF Begun, UpToDate, SavesScore
  <2> QED BY <2>1, <2>2, QuietCurrent
<1>3. ASSUME NEW r \in Requests, Count(r) \/ Number(r)
      PROVE  CurrentInv'
  <2> PICK new : new = req'[r]
    OBVIOUS
  <2>1. /\ req[r].pc \in {"count", "number"} /\ req[r] \in Request
        /\ UNCHANGED <<attempts, grades, score, faults>>
    BY <1>3 DEF Count, Number, Step, documents, TypeInv, TypeOK
  <2>2. new # None => new.pc \in {"number", "insert"}
    BY <1>3, <2>1 DEF Count, Number, Request, TypeInv, TypeOK
  <2>3. ~Renews(req[r]) /\ (new # None => UpToDate(new))
    BY <2>1, <2>2 DEF Renews, UpToDate, SavesScore
  <2> QED BY <2>1, <2>3, QuietCurrent
<1>4. ASSUME NEW r \in Requests, Insert(r)
      PROVE  CurrentInv'
  <2> DEFINE rec == [req[r] EXCEPT !.pc = "merge", !.todo = {"find"}, !.at = None, !.number = 0]
  <2>1. req[r] \in Request /\ req'[r] = rec
    BY <1>4 DEF Insert, Step, TypeInv, TypeOK
  <2>2. rec \in Request /\ rec.pc = "merge"
    BY <2>1 DEF Request, Writes
  <2> HIDE DEF rec
  <2> QED BY <2>1, <2>2, NewCurrent
<1>5. ASSUME NEW r \in Requests, UpsertGrade(r)
      PROVE  CurrentInv'
  <2> DEFINE rec == [req[r] EXCEPT !.pc = "latest", !.at = None]
  <2>1. req[r] \in Request /\ req'[r] = rec
    BY <1>5 DEF UpsertGrade, Step, TypeInv, TypeOK
  <2>2. rec \in Request /\ rec.pc = "latest"
    BY <2>1 DEF Request
  <2> HIDE DEF rec
  <2> QED BY <2>1, <2>2, NewCurrent
(* A request that goes on as it was, but for a write that is not the score's. *)
<1>6. ASSUME NEW r \in Requests, UNCHANGED <<attempts, grades, score, faults>>, req[r] # None,
             NEW new \in Request, req'[r] = new, new.pc = req[r].pc, new.kind = req[r].kind,
             new.score = req[r].score, new.latest = req[r].latest,
             "score" \in new.todo <=> "score" \in req[r].todo
      PROVE  CurrentInv'
  <2>1. faults = 0 => UpToDate(req[r])
    BY <1>6 DEF CurrentInv
  <2>2. faults = 0 => UpToDate(new)
    BY <1>6, <2>1 DEF UpToDate, SavesScore
  <2>3. Renews(req[r]) => Renews(new)
    BY <1>6 DEF Renews, SavesScore
  <2>4. new # None
    BY NoDocumentAssumption
  <2> QED BY <1>6, <2>2, <2>3, <2>4, QuietCurrent
<1>7. ASSUME NEW r \in Requests, FindProgress(r)
      PROVE  CurrentInv'
  <2> DEFINE rec == [req[r] EXCEPT !.seen = progress, !.todo = (@ \ {"find"}) \cup {"progress"}]
  <2>1. /\ UNCHANGED <<attempts, grades, score, faults>> /\ req[r] # None
        /\ req[r] \in Request /\ req'[r] = rec /\ progress \in Progress
    BY <1>7 DEF FindProgress, documents, TypeInv, TypeOK
  <2>2. /\ rec \in Request /\ rec.pc = req[r].pc /\ rec.kind = req[r].kind
        /\ rec.score = req[r].score /\ rec.latest = req[r].latest
        /\ "score" \in rec.todo <=> "score" \in req[r].todo
    BY <2>1 DEF Request, Writes
  <2> HIDE DEF rec
  <2> QED BY <1>6, <2>1, <2>2
<1>8. ASSUME NEW r \in Requests, WriteProgress(r)
      PROVE  CurrentInv'
  <2>1. /\ UNCHANGED <<attempts, grades, score, faults>> /\ req[r] # None
        /\ req[r] \in Request /\ RequestOK(req[r]) /\ "progress" \in req[r].todo
        /\ req'[r] = Continue(req[r], "progress")
    BY <1>8 DEF WriteProgress, documents, TypeInv, TypeOK
  <2>2. PICK new : /\ new = Continue(req[r], "progress")
                   /\ \/ new = None
                      \/ new \in Request /\ new.pc = "latest" /\ req[r].pc = "merge"
                      \/ /\ new \in Request /\ new.pc = req[r].pc /\ new.kind = req[r].kind
                         /\ new.score = req[r].score /\ new.status = req[r].status
                         /\ new.latest = req[r].latest /\ new.todo = req[r].todo \ {"progress"}
    BY <2>1, ContinueShape
  <2>3. CASE new = None
    <3>1. ~Renews(req[r])
      <4>1. req[r].todo = {"progress"} /\ req[r].pc # "merge"
        <5>1. ASSUME req[r].todo # {"progress"}
              PROVE  FALSE
          <6> DEFINE on == [req[r] EXCEPT !.todo = @ \ {"progress"}]
          <6>1. on \in Request
            BY <2>1 DEF Request
          <6>2. Continue(req[r], "progress") = on
            BY <5>1 DEF Continue
          <6> QED BY <2>2, <2>3, <6>1, <6>2, NoDocumentAssumption
        <5>2. ASSUME req[r].todo = {"progress"}, req[r].pc = "merge"
              PROVE  FALSE
          <6>1. Continue(req[r], "progress") = NewRequest(req[r].kind, "latest")
            BY <5>2 DEF Continue
          <6>2. NewRequest(req[r].kind, "latest") \in Request
            BY <2>1, NewRequestType DEF Request
          <6> QED BY <2>2, <2>3, <6>1, <6>2, NoDocumentAssumption
        <5> QED BY <5>1, <5>2
      <4> QED BY <2>1, <4>1 DEF Renews, SavesScore, RequestOK
    <3> QED BY <2>1, <2>2, <2>3, <3>1, QuietCurrent
  <2>4. CASE new \in Request /\ new.pc = "latest"
    BY <2>1, <2>2, <2>4, NewCurrent
  <2>5. CASE /\ new \in Request /\ new.pc = req[r].pc /\ new.kind = req[r].kind
             /\ new.score = req[r].score /\ new.latest = req[r].latest
             /\ new.todo = req[r].todo \ {"progress"}
    BY <1>6, <2>1, <2>2, <2>5
  <2> QED BY <2>2, <2>3, <2>4, <2>5
<1>9. ASSUME NEW r \in Requests, ListLatest(r)
      PROVE  CurrentInv'
  <2> DEFINE rec == [req[r] EXCEPT !.pc = "grades", !.latest = LatestIds]
  <2>1. /\ UNCHANGED <<attempts, grades, score, faults>>
        /\ req[r] \in Request /\ req'[r] = rec
    BY <1>9 DEF ListLatest, Step, documents, TypeInv, TypeOK
  <2>2. LatestIds \in [Questions -> Times \cup {None}]
    BY LatestChosen DEF LatestIds, AttemptsOf
  <2>3. rec \in Request /\ rec.pc = "grades" /\ rec.latest = LatestIds
    <3> HIDE DEF LatestIds
    <3> QED BY <2>1, <2>2 DEF Request
  <2> HIDE DEF rec
  <2>4. rec # None /\ UpToDate(rec) /\ Renews(rec)
    BY <2>3, NoDocumentAssumption DEF UpToDate, Renews, SavesScore
  <2> QED BY <2>1, <2>4, QuietCurrent
<1>10. ASSUME NEW r \in Requests, ListGrades(r)
       PROVE  CurrentInv'
  <2> DEFINE latest == EffectiveLatest(req[r].latest)
             saving == [NewRequest(req[r].kind, "save") EXCEPT
                          !.score = Total(latest), !.todo = {"score", "find"},
                          !.status = "submitted"]
  <2>1. /\ UNCHANGED <<attempts, grades, score, faults>> /\ req[r] # None
        /\ req[r] \in Request /\ RequestOK(req[r]) /\ req[r].pc = "grades"
        /\ req'[r] = IF Evaluate(latest) # "complete" THEN None ELSE saving
    BY <1>10 DEF ListGrades, Step, documents, TypeInv, TypeOK
  <2>2. faults = 0 => req[r].latest = LatestIds
    BY <2>1 DEF CurrentInv, UpToDate
  <2>3. latest \in [Questions -> Effective \cup {None}]
    BY <2>1, EffectiveType
  <2>4. Total(latest) \in Nat
    BY <2>3, TotalType
  <2>5. faults = 0 => Total(latest) = Current /\ (Complete => Evaluate(latest) = "complete")
    BY <2>2 DEF Current, Complete
  <2> HIDE DEF latest
  <2>6. req[r].kind \in {"answer", "grade"}
    BY <2>1 DEF RequestOK
  <2>7. /\ saving \in Request /\ saving.todo = {"score", "find"} /\ saving.pc = "save"
        /\ saving.score = Total(latest) /\ saving.kind = req[r].kind
    BY <2>4, <2>6 DEF NewRequest, Request, RequestKinds, Statuses, Writes
  <2> HIDE DEF saving
  <2>8. faults = 0 => UpToDate(saving)
    BY <2>5, <2>7 DEF UpToDate, SavesScore
  <2>9. saving # None /\ Renews(saving)
    BY <2>6, <2>7, NoDocumentAssumption DEF Renews, SavesScore
  <2> QED BY <2>1, <2>5, <2>8, <2>9, QuietCurrent
<1>11. ASSUME NEW r \in Requests, SaveScore(r)
       PROVE  CurrentInv'
  <2>1. /\ UNCHANGED <<attempts, grades, faults>> /\ req[r] # None
        /\ req[r] \in Request /\ RequestOK(req[r]) /\ "score" \in req[r].todo
        /\ req[r].pc = "save"
        /\ score' = [total |-> req[r].score, origin |-> Origin(req[r].kind)]
        /\ req'[r] = Continue(req[r], "score")
    BY <1>11 DEF SaveScore, Step, TypeInv, TypeOK
  <2>2. PICK new : /\ new = Continue(req[r], "score")
                   /\ \/ new = None
                      \/ new \in Request /\ new.pc = "latest" /\ req[r].pc = "merge"
                      \/ /\ new \in Request /\ new.pc = req[r].pc /\ new.kind = req[r].kind
                         /\ new.score = req[r].score /\ new.status = req[r].status
                         /\ new.latest = req[r].latest /\ new.todo = req[r].todo \ {"score"}
    BY <2>1, ContinueShape
  <2>3. Current' = Current
    BY <2>1, SameCurrent
  <2>4. new # None => UpToDate(new)'
    BY <2>1, <2>2 DEF UpToDate, SavesScore
  <2>5. \A x \in Requests : req'[x] = new
    BY <2>1, <2>2 DEF OneAtATime
  <2>6. \A x \in Requests : req'[x] # None => UpToDate(req[x])'
    BY <2>4, <2>5 DEF UpToDate, SavesScore
  <2>7. ASSUME faults = 0, score'.origin = "questions"
        PROVE  score'.total = Current
    <3>1. req[r].kind \in {"answer", "grade"}
      BY <2>1, <2>7 DEF Origin, Request, RequestKinds, RequestOK
    <3>2. UpToDate(req[r])
      BY <2>1, <2>7 DEF CurrentInv
    <3> QED BY <2>1, <3>1, <3>2 DEF UpToDate, SavesScore
  <2> QED BY <2>1, <2>3, <2>6, <2>7 DEF CurrentInv
<1>12. ASSUME NEW r \in Requests, Fail(r)
       PROVE  CurrentInv'
  <2>1. faults \in Nat /\ faults' = faults + 1
    BY <1>12, SubmissionAssumption DEF Fail, TypeInv, TypeOK
  <2> QED BY <2>1 DEF CurrentInv
<1> QED
  BY <1>1, <1>2, <1>3, <1>4, <1>5, <1>7, <1>8, <1>9, <1>10, <1>11, <1>12 DEF Next, Proceed

(* With one request at a time, a complete assignment whose questions gave it a score *)
(* shows the score of its latest attempts and grades: none is summed from a list that *)
(* a later attempt or grade has outdated. Code: finalizeCompletedQuestionContent,     *)
(* which evaluates and then saves after every insert and every grade.                 *)
THEOREM ScoresAreCurrent ==
  ASSUME OneAtATime
  PROVE  Spec => []ScoreIsCurrent
<1>1. Init => TypeInv /\ CurrentInv
  BY TypeInvInit DEF Init, CurrentInv
<1>2. TypeInv /\ CurrentInv /\ [Next]_vars => TypeInv' /\ CurrentInv'
  BY TypeInvStep, CurrentStep
<1>3. CurrentInv => ScoreIsCurrent
  BY DEF CurrentInv, Current, ScoreIsCurrent, Quiet
<1> QED BY <1>1, <1>2, <1>3, PTL DEF Spec
=============================================================================
