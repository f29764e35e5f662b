------------------------------- MODULE Squads -------------------------------
(***************************************************************************)
(* Squads: how learners get into one, and the work of a squad on one content *)
(* item that is scored for all members together.                            *)
(*                                                                         *)
(* Launches and roster syncs write a learner's record back as they read it;  *)
(* an assignment writes the squad and carries the learner's history along;   *)
(* a squad's answers, saves and scores each read and write several records.  *)
(* The questions that count are those of the releases an instructor has      *)
(* unlocked. The publish of a member's score stands in Submission and         *)
(* AgsPublish; here it may fail that member.                                *)
(***************************************************************************)
EXTENDS Documents, Integers, FiniteSets

CONSTANTS
    Users,           \* the learners of a cohort
    Names,           \* the squads they may get, by name: Squad 1, Squad 2, ...
    Questions,       \* the questions of the item; each is worth one point
    SquadRequests,   \* requests that run at the same time
    Pool,            \* bound: attempts in a behaviour
    Mixes            \* bounds: which requests a behaviour may have

Times == 1..Pool
AllKinds == {"launch", "roster", "assign", "answer", "save", "score", "squad", "release"}

\* The kinds of request in a behaviour, how many requests and failed calls, and
\* whether the requests overlap.
Mix == [kinds : SUBSET AllKinds, requests : Nat, faults : Nat, overlap : BOOLEAN]

\* What carryLearnerSquadHistory updates.
Collections == {"scores", "progress", "attempts", "publishes"}

SquadAttempt == [question : Questions, squad : Names, by : Users, correct : BOOLEAN]
ProgressStatuses == {"not_started", "in_progress", "submitted"}
SquadProgress == [status : ProgressStatuses, answers : SUBSET Questions]
MemberScore == [total : Nat, max : Nat, squad : Names]

\* A running request: whose it is, what it read, and what it is to write.
SquadRequest ==
    [kind : AllKinds,
     pc : {"next", "user", "squad", "create", "carry", "insert", "find", "merge", "latest",
           "members", "save"},
     user : Users, seen : Names \cup {None}, squad : Names \cup {None}, numbered : BOOLEAN,
     question : Questions \cup {None}, visible : SUBSET Questions,
     answers : SUBSET Questions, keep : BOOLEAN, status : ProgressStatuses \cup {None},
     found : SquadProgress \cup {None}, total : Nat, max : Nat,
     todo : SUBSET (Collections \cup Users)]

ASSUME SquadsAssumption ==
    /\ Pool \in Nat /\ Mixes \subseteq Mix
    /\ None \notin Names /\ None \notin Questions /\ None \notin SquadProgress
    /\ None \notin SquadAttempt /\ None \notin MemberScore /\ None \notin SquadRequest
    /\ None \notin ProgressStatuses
    /\ IsFiniteSet(Questions) /\ IsFiniteSet(Users)

VARIABLES
    member,     \* pactUsers: each learner's squadId
    squads,     \* pactSquads: "absent", "plain" (no number) or "numbered"
    attempts,   \* pactQuestionAttempts, by submittedAt
    clock,      \* the next submittedAt
    progress,   \* the squads' pactContentProgress
    score,      \* the learners' pactScores
    tag,        \* the squadId in a learner's own progress and publish records
    released,   \* the questions in learners' views of the item
    request,    \* the running requests
    given,      \* the squads that each learner was ever assigned to
    stirred,    \* the squads that members joined or left, or for all that releases were locked
    begun, failed, \* requests begun and calls failed so far
    mix         \* the mix of this behaviour; never changes

records == <<member, squads, attempts, progress, score, tag>>
ghosts == <<given, stirred, begun, failed, mix>>
squadVars == <<records, clock, released, request, ghosts>>

-----------------------------------------------------------------------------
(* What the records say.                                                   *)

AttemptsOf(s, q) ==
    {t \in Times : attempts[t] # None /\ attempts[t].squad = s /\ attempts[t].question = q}

\* listLatestQuestionAttemptsForSquadContent, for one question.
Latest(s, q) == CHOOSE t \in AttemptsOf(s, q) : \A u \in AttemptsOf(s, q) : u <= t

Answered(s) == {q \in Questions : AttemptsOf(s, q) # {}}

\* The completion of an item whose questions are Q and are all required: see
\* CompletionPolicy, which has the questions of other kinds.
Complete(s, Q) == Q # {} /\ Q \subseteq Answered(s)
TotalOf(s, Q) == Cardinality({q \in Q : attempts[Latest(s, q)].correct})

\* listProgressForSquad: the answers that are saved. (As a mutant of the next: the
\* attempts are left out of the view.)
SavedAnswers(s) == IF progress[s] = None THEN {} ELSE progress[s].answers

\* hydrateSquadProgressFromAttempts: the answers in a member's view of the progress.
ViewedAnswers(s) == IF progress[s] = None THEN {} ELSE SavedAnswers(s) \cup Answered(s)

-----------------------------------------------------------------------------
(* Requests in general.                                                    *)

NewRequest(kind, u, pc) ==
    [kind |-> kind, pc |-> pc, user |-> u, seen |-> member[u], squad |-> member[u],
     numbered |-> FALSE, question |-> None, visible |-> released, answers |-> {},
     keep |-> TRUE, status |-> None, found |-> None, total |-> 0, max |-> 0, todo |-> {}]

Room(kind) ==
    /\ kind \in mix.kinds
    /\ begun < mix.requests
    /\ mix.overlap \/ \A r \in SquadRequests : request[r] = None
    /\ begun' = begun + 1
    /\ UNCHANGED <<given, failed, mix>>

Begin(r, rec) ==
    /\ Room(rec.kind)
    /\ request[r] = None
    /\ request' = [request EXCEPT ![r] = rec]
    /\ UNCHANGED <<records, clock, released, stirred>>

At(r, pc) == request[r] # None /\ request[r].pc = pc

Goto(r, pc) == request' = [request EXCEPT ![r].pc = pc]
End(r) == request' = [request EXCEPT ![r] = None]

\* The request without one of what it has to do, or its end.
Without(rec, x) == IF rec.todo = {x} THEN None ELSE [rec EXCEPT !.todo = @ \ {x}]

Moved(u, s) == IF member[u] = s THEN stirred
               ELSE stirred \cup ({member[u], s} \ {None})

-----------------------------------------------------------------------------
(* Launches, roster syncs and assignments.                                 *)

\* handleLaunch: upsertUser reads the learner's record ...
Launch(r, u) == Begin(r, NewRequest("launch", u, "user"))

\* syncCourseRoster has listed the enrollments of the course, the users who are
\* enabled among them, ...
SyncRoster(r, u, U) ==
    /\ u \in U
    /\ Begin(r, [NewRequest("roster", u, "next") EXCEPT !.todo = U])

\* ... and for one after the other upsertUser reads the record ...
TakeEnrollment(r) ==
    /\ At(r, "next")
    /\ \E u \in request[r].todo :
         request' = [request EXCEPT ![r].pc = "user", ![r].user = u, ![r].seen = member[u]]
    /\ UNCHANGED <<records, clock, released, ghosts>>

\* Mutant: the squad is not taken over from the record that was read.
UpsertedFresh(rec) == None

\* The squad that upsertUser writes: neither caller has one of its own.
Upserted(rec) == rec.seen

\* ... and written back.
WriteUser(r) ==
    /\ At(r, "user") /\ request[r].kind \in {"launch", "roster"}
    /\ LET u == request[r].user IN
         /\ member' = [member EXCEPT ![u] = Upserted(request[r])]
         /\ stirred' = Moved(u, Upserted(request[r]))
         /\ request' = [request EXCEPT ![r] =
                          IF @.kind = "launch" THEN None ELSE Without([@ EXCEPT !.pc = "next"], u)]
    /\ UNCHANGED <<squads, attempts, progress, score, tag, clock, released, given, begun,
                   failed, mix>>

\* createSquad: find, else insert. Names are unique, so that a second insert fails
\* and the squad is there all the same.
CreateSquad(s) ==
    /\ Room("squad")
    /\ squads' = [squads EXCEPT ![s] = IF @ = "absent" THEN "plain" ELSE @]
    /\ UNCHANGED <<member, attempts, progress, score, tag, clock, released, request, stirred>>

\* assignSquadForAdmin has read the learner.
Assign(r, u, s, numbered) ==
    Begin(r, [NewRequest("assign", u, "squad") EXCEPT !.squad = s, !.numbered = numbered])

\* Mutant: the squad is not looked up.
ExistsAny(s) == TRUE

Exists(s) == squads[s] # "absent"

\* It finds the squad by its id, or by its number ...
FindSquad(r) ==
    /\ At(r, "squad")
    /\ LET s == request[r].squad IN
         IF request[r].numbered
         THEN Goto(r, IF squads[s] = "numbered" THEN "user" ELSE "create")
         ELSE IF Exists(s) THEN Goto(r, "user") ELSE End(r)
    /\ UNCHANGED <<records, clock, released, ghosts>>

\* ... and ensureNumberedSquad inserts it. Its name may be taken, by a squad without
\* a number or by one inserted since: the insert fails.
CreateNumbered(r) ==
    /\ At(r, "create")
    /\ LET s == request[r].squad IN
         IF squads[s] = "absent"
         THEN squads' = [squads EXCEPT ![s] = "numbered"] /\ Goto(r, "user")
         ELSE End(r) /\ UNCHANGED squads
    /\ UNCHANGED <<member, attempts, progress, score, tag, clock, released, ghosts>>

WriteSquad(r) ==
    /\ At(r, "user") /\ request[r].kind = "assign"
    /\ LET u == request[r].user
           s == request[r].squad
       IN /\ member' = [member EXCEPT ![u] = s]
          /\ given' = [given EXCEPT ![u] = @ \cup {s}]
          /\ stirred' = Moved(u, s)
          /\ request' = [request EXCEPT ![r] =
                           IF request[r].seen = s THEN None
                           ELSE [request[r] EXCEPT !.pc = "carry", !.todo = Collections]]
    /\ UNCHANGED <<squads, attempts, progress, score, tag, clock, released, begun, failed,
                   mix>>

\* Four updates at the same time. The audit event that follows has no state here.
Carry(r, c) ==
    /\ At(r, "carry") /\ c \in request[r].todo
    /\ LET u == request[r].user
           s == request[r].squad
       IN /\ score' = IF c = "scores" /\ score[u] # None
                      THEN [score EXCEPT ![u].squad = s] ELSE score
          /\ attempts' = [t \in Times |->
                            IF c = "attempts" /\ attempts[t] # None /\ attempts[t].by = u
                            THEN [attempts[t] EXCEPT !.squad = s] ELSE attempts[t]]
          /\ tag' = IF c \in {"progress", "publishes"}
                    THEN [tag EXCEPT ![u][c] = s] ELSE tag
    /\ request' = [request EXCEPT ![r] = Without(@, c)]
    /\ UNCHANGED <<member, squads, progress, clock, released, ghosts>>

\* Releases of the item are unlocked or locked.
Release(Q) ==
    /\ Room("release")
    /\ released' = Q
    /\ stirred' = IF released \subseteq Q THEN stirred ELSE Names
    /\ UNCHANGED <<records, clock, request>>

-----------------------------------------------------------------------------
(* The squad's work.                                                       *)

\* submitQuestionAttempt of a member, up to the insert; limits are in Submission.
Answer(r, u, q) ==
    /\ member[u] # None /\ q \in released
    /\ clock + Cardinality({x \in SquadRequests : At(x, "insert")}) <= Pool
    /\ Begin(r, [NewRequest("answer", u, "insert") EXCEPT
                   !.question = q, !.keep = FALSE,
                   !.answers = SavedAnswers(member[u]) \cup {q}])

\* updateSquadContentProgress: answers that are sent replace the saved ones. A
\* percentage that is sent decides the status, as a status does that is sent.
Save(r, u, answers, keep, status) ==
    /\ member[u] # None
    /\ Begin(r, [NewRequest("save", u, "find") EXCEPT
                   !.answers = answers, !.keep = keep, !.status = status])

\* submitSquadScore, complete or not.
SubmitScore(r, u, n, complete) ==
    /\ member[u] # None
    /\ Begin(r, [NewRequest("score", u, "find") EXCEPT
                   !.total = n, !.max = Cardinality(Questions),
                   !.status = IF complete THEN "submitted" ELSE "in_progress"])

\* recordQuestionAttempt
Insert(r) ==
    /\ At(r, "insert")
    /\ \E correct \in BOOLEAN :
         attempts' = [attempts EXCEPT ![clock] =
                        [question |-> request[r].question, squad |-> request[r].squad,
                         by |-> request[r].user, correct |-> correct]]
    /\ clock' = clock + 1
    /\ Goto(r, "find")
    /\ UNCHANGED <<member, squads, progress, score, tag, released, ghosts>>

\* upsertSquadContentProgress reads the squad's record ...
FindProgress(r) ==
    /\ At(r, "find")
    /\ request' = [request EXCEPT ![r].pc = "merge", ![r].found = progress[request[r].squad]]
    /\ UNCHANGED <<records, clock, released, ghosts>>

\* Mutant: no status is derived.
MergedUnderived(rec) ==
    [status |-> rec.status, answers |-> IF rec.keep THEN {} ELSE rec.answers]

\* The record it computes. Without a status, any answer means in progress.
MergedProgress(rec) ==
    LET answers == IF ~rec.keep THEN rec.answers
                   ELSE IF rec.found = None THEN {} ELSE rec.found.answers
    IN [status |-> IF rec.status # None THEN rec.status
                   ELSE IF answers = {} THEN "not_started" ELSE "in_progress",
        answers |-> answers]

\* isSquadProgressAutosaveNoop may hold: the same answers, which may have changed in
\* content. A status must be the saved one when it was sent, but not when a percentage
\* decides it: that may be the saved percentage of a record in any status.
MayBeNoop(rec) ==
    /\ rec.found # None /\ rec.kind # "score" /\ rec.status # "submitted"
    /\ MergedProgress(rec).answers = rec.found.answers

\* Mutant: an answer that does not change the progress does not evaluate.
AfterMergeEager(rec) ==
    CASE rec.kind \in {"answer", "score"} /\ rec.status = "submitted" ->
             [rec EXCEPT !.pc = "members"]
      [] rec.kind = "answer" /\ rec.status = None /\ rec.found = None ->
             [rec EXCEPT !.pc = "latest", !.found = None]
      [] OTHER -> None

\* What follows the progress: the members' scores once it is submitted with a score,
\* the evaluation after an answer, nothing else.
AfterMerge(rec) ==
    CASE rec.kind \in {"answer", "score"} /\ rec.status = "submitted" ->
             [rec EXCEPT !.pc = "members"]
      [] rec.kind = "answer" /\ rec.status = None ->
             [rec EXCEPT !.pc = "latest", !.found = None]
      [] OTHER -> None

\* ... and writes it.
WriteProgress(r) ==
    /\ At(r, "merge")
    /\ \/ progress' = [progress EXCEPT ![request[r].squad] = MergedProgress(request[r])]
       \/ MayBeNoop(request[r]) /\ UNCHANGED progress
    /\ request' = [request EXCEPT ![r] = AfterMerge(@)]
    /\ UNCHANGED <<member, squads, attempts, score, tag, clock, released, ghosts>>

\* finalizeCompletedQuestionContent: the evaluation of the questions that were visible
\* when the request began, and the second save of the progress.
EvaluateSquad(r) ==
    /\ At(r, "latest")
    /\ LET s == request[r].squad
           Q == request[r].visible
       IN request' = [request EXCEPT ![r] =
            IF ~Complete(s, Q) THEN None
            ELSE [request[r] EXCEPT !.pc = "find", !.keep = TRUE, !.answers = {},
                                    !.status = "submitted",
                                    !.total = TotalOf(s, Q), !.max = Cardinality(Q)]]
    /\ UNCHANGED <<records, clock, released, ghosts>>

\* Mutant: only the member who answered gets the score.
MembersSelf(rec) == {rec.user}

\* listUsersForSquad
Members(rec) == {u \in Users : member[u] = rec.squad}

\* propagateSquadScoreToMembers lists the members ...
ListMembers(r) ==
    /\ At(r, "members")
    /\ request' = [request EXCEPT ![r] =
                     IF Members(@) = {} THEN None
                     ELSE [request[r] EXCEPT !.pc = "save", !.todo = Members(request[r])]]
    /\ UNCHANGED <<records, clock, released, ghosts>>

\* ... and saves the score of each, all at the same time; one that has been
\* published with the same values is left alone.
SaveMember(r, u) ==
    /\ At(r, "save") /\ u \in request[r].todo
    /\ LET new == [total |-> request[r].total, max |-> request[r].max,
                   squad |-> request[r].squad]
       IN \/ score' = [score EXCEPT ![u] = new]
          \/ /\ score[u] # None /\ score[u].total = new.total /\ score[u].max = new.max
             /\ UNCHANGED score
    /\ request' = [request EXCEPT ![r] = Without(@, u)]
    /\ UNCHANGED <<member, squads, attempts, progress, tag, clock, released, ghosts>>

\* A call rejects and ends the request; of several at the same time (the members'
\* publishes and saves, the updates of a history) the others go on.
Fail(r) ==
    /\ failed < mix.faults
    /\ request[r] # None
    /\ \/ End(r)
       \/ /\ request[r].kind # "roster"
          /\ \E x \in request[r].todo : request' = [request EXCEPT ![r] = Without(@, x)]
    /\ failed' = failed + 1
    /\ UNCHANGED <<records, clock, released, given, stirred, begun, mix>>

-----------------------------------------------------------------------------
SquadsInit ==
    /\ member \in [Users -> Names \cup {None}]
    /\ squads = [s \in Names |-> IF \E u \in Users : member[u] = s THEN "numbered" ELSE "absent"]
    /\ attempts = [t \in Times |-> None] /\ clock = 1
    /\ progress = [s \in Names |-> None] /\ score = [u \in Users |-> None]
    /\ tag = [u \in Users |-> [c \in {"progress", "publishes"} |-> member[u]]]
    /\ released \in (SUBSET Questions) \ {{}}
    /\ request = [r \in SquadRequests |-> None]
    /\ given = [u \in Users |-> {member[u]} \ {None}]
    /\ stirred = {} /\ begun = 0 /\ failed = 0
    /\ mix \in Mixes

BeginRequest(r, u) ==
    \/ Launch(r, u)
    \/ \E U \in SUBSET Users : SyncRoster(r, u, U)
    \/ \E s \in Names, numbered \in BOOLEAN : Assign(r, u, s, numbered)
    \/ \E q \in Questions : Answer(r, u, q)
    \/ \E status \in ProgressStatuses \cup {None} :
         \/ Save(r, u, {}, TRUE, status)
         \/ \E answers \in SUBSET released : Save(r, u, answers, FALSE, status)
    \/ \E n \in 0..Cardinality(Questions), complete \in BOOLEAN : SubmitScore(r, u, n, complete)

Proceed(r) ==
    \/ TakeEnrollment(r) \/ WriteUser(r) \/ FindSquad(r) \/ CreateNumbered(r) \/ WriteSquad(r)
    \/ \E c \in Collections : Carry(r, c)
    \/ Insert(r) \/ FindProgress(r) \/ WriteProgress(r) \/ EvaluateSquad(r)
    \/ ListMembers(r) \/ \E u \in Users : SaveMember(r, u)

SquadsNext ==
    \/ \E r \in SquadRequests, u \in Users : BeginRequest(r, u)
    \/ \E r \in SquadRequests : Proceed(r) \/ Fail(r)
    \/ \E s \in Names : CreateSquad(s)
    \/ \E Q \in SUBSET Questions : Release(Q)

SquadsSpec == SquadsInit /\ [][SquadsNext]_squadVars

-----------------------------------------------------------------------------
(* Properties.                                                             *)

\* Every variable has its type: the records have the fields of the code's types, with
\* a status that is one of the three.
SquadsTypeOK ==
    /\ member \in [Users -> Names \cup {None}]
    /\ squads \in [Names -> {"absent", "plain", "numbered"}]
    /\ attempts \in [Times -> SquadAttempt \cup {None}] /\ clock \in 1..(Pool + 1)
    /\ progress \in [Names -> SquadProgress \cup {None}]
    /\ score \in [Users -> MemberScore \cup {None}]
    /\ tag \in [Users -> [{"progress", "publishes"} -> Names \cup {None}]]
    /\ released \subseteq Questions
    /\ request \in [SquadRequests -> SquadRequest \cup {None}]
    /\ given \in [Users -> SUBSET Names] /\ stirred \subseteq Names
    /\ mix \in Mixes /\ begun \in 0..mix.requests /\ failed \in 0..mix.faults

AtRest == \A r \in SquadRequests : request[r] = None

\* Whatever launches, roster syncs and assignments overlap, a learner is only ever in
\* a squad that exists and that an assignment gave, and an answer counts for such a
\* squad of its author.
SquadWasAssigned ==
    /\ \A u \in Users : member[u] # None =>
          member[u] \in given[u] /\ squads[member[u]] # "absent"
    /\ \A t \in Times : attempts[t] # None => attempts[t].squad \in given[attempts[t].by]

\* Whichever members answer at the same time, somebody notices: when nothing runs any
\* more, no call failed, and nobody joined or left, each member of a squad that has
\* answered all released questions has a score.
SquadCompleteIsScored ==
    AtRest /\ failed = 0 =>
        \A u \in Users :
            member[u] # None /\ member[u] \notin stirred /\ Complete(member[u], released)
                => score[u] # None

\* One request at a time: the members of a squad that nobody joined or left have the
\* same score.
SquadSharesScore ==
    AtRest /\ failed = 0 /\ ~mix.overlap =>
        \A u, v \in Users :
            member[u] # None /\ member[u] = member[v] /\ member[u] \notin stirred
                => score[u] = score[v]

\* One request at a time: a learner's records are all under the learner's squad.
HistoryFollows ==
    AtRest /\ failed = 0 /\ ~mix.overlap =>
        \A u \in Users :
            /\ \A c \in {"progress", "publishes"} : tag[u][c] = member[u]
            /\ score[u] # None => score[u].squad = member[u]
            /\ \A t \in Times : attempts[t] # None /\ attempts[t].by = u
                                   => attempts[t].squad = member[u]

\* Saves that overwrite each other's answers lose none: what a squad has answered is
\* in its members' view, unless a call failed or somebody joined or left.
AnswersShown ==
    AtRest /\ failed = 0 =>
        \A s \in Names \ stirred : Answered(s) \subseteq ViewedAnswers(s)
=============================================================================
