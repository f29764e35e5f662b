----------------------------- MODULE AgsPublish -----------------------------
(***************************************************************************)
(* Grade passback from PACT to the LMS (AGS): the requests that produce a  *)
(* final score, the durable queue of publish attempts with its processors, *)
(* the in-memory retry timers, retention cleanup, process crashes and the  *)
(* LMS that accepts the posts.                                             *)
(*                                                                         *)
(* Every await on MongoDB or on the LMS is a step of its own, so requests, *)
(* processors and timers interleave between them as they do on the event   *)
(* loop and across processes.                                              *)
(***************************************************************************)
EXTENDS Integers, FiniteSets

CONSTANTS
    Subjects,     \* the (user, content) pairs; each has one score record
    Assessments,  \* the subjects whose content type is "assessment"
    Payloads,     \* the (score, maxScore, progressPercent) triples to publish
    Requests,     \* concurrent HTTP requests that finalize or submit scores
    Workers,      \* concurrent processors of the queue: timer, ops, admin
    Kinds,        \* the kinds of request these make
    Tokens,       \* whether callers bring AGS access of their own: in BOOLEAN
    Grants,       \* what a launch may bring: sets of "line", "score", "create"
    Launchers,    \* the subjects whose learner launches again during the behaviour
    Movers,       \* the subjects whose learner may move to another course
    JobSlots,     \* bound: in-memory retry jobs alive at once
    RowPool,      \* bound: attempt rows inserted over a behaviour
    RetryCap,     \* bound: an operator retries no row beyond this retryCount
    MaxCrashes,   \* bound: process crashes in a behaviour
    MaxFaults,    \* bound: failed database calls in a behaviour
    AutoRetry,    \* config.agsAutoRetryEnabled
    MaxAttempts,  \* config.agsAutoRetryMaxAttempts
    None          \* "no document", "nothing running"

RowIds == 1..RowPool

\* What the launch context stored for a subject's learner may give: a line item,
\* the score scope, and the line items service with its scope.
Granted == {"line", "score", "create"}

\* The same with "item": the content has a line item of its own.
Access == Granted \cup {"item"}

RowStatuses == {"pending", "published", "failed", "retry_exhausted",
                "not_applicable", "skipped_duplicate"}
ScoreStatuses == {"pending", "published", "failed", "not_applicable", "not_ready"}
Outcomes == {"published", "not_applicable", "error"}

Row == [subject : Subjects, payload : Payloads, status : RowStatuses,
        retryCount : Nat, next : {"unset", "waiting", "due"}, line : BOOLEAN]
Score == [payload : Payloads, status : ScoreStatuses]
Snapshot == [id : RowIds, row : Row]

RequestKinds == {"finalize", "submit", "partial", "propagate", "backfill"}
Request == [kind : RequestKinds,
            pc : {"check", "skip", "route", "find", "insert", "send", "record",
                  "save", "rejected"},
            subject : Subjects, payload : Payloads, token : BOOLEAN, line : BOOLEAN,
            out : Outcomes, status : ScoreStatuses,
            saves : SUBSET {"score", "progress"}]
Processor == [pc : {"next", "send", "outcome", "score", "echo"},
              batch : SUBSET Snapshot, cur : Snapshot \cup {None},
              token : BOOLEAN, single : BOOLEAN, out : Outcomes]
Job == [pc : {"timer", "record", "save"}, subject : Subjects, payload : Payloads,
        count : Nat, line : BOOLEAN, out : Outcomes]

ASSUME BoundsAssumption ==
    /\ RowPool \in Nat /\ RetryCap \in Nat /\ MaxCrashes \in Nat /\ MaxFaults \in Nat
ASSUME ConfigAssumption == AutoRetry \in BOOLEAN /\ MaxAttempts \in Nat
ASSUME ScopeAssumption ==
    /\ Assessments \subseteq Subjects
    /\ Grants \subseteq SUBSET Granted
    /\ Launchers \subseteq Subjects
    /\ Movers \subseteq Subjects
    /\ Kinds \subseteq RequestKinds
    /\ Tokens \subseteq BOOLEAN
ASSUME NoneAssumption ==
    None \notin Row /\ None \notin Score /\ None \notin Snapshot
    /\ None \notin Request /\ None \notin Processor /\ None \notin Job
    /\ None \notin Payloads

VARIABLES
    access,    \* what the stored launch context and the content offer for posts
    enrolled,  \* whether the user still belongs to the course of its attempts
    rows,      \* pactAgsPublishAttempts, by createdAt order
    nextRow,   \* the id of the next attempt row
    scores,    \* pactScores
    progress,  \* the payload of the subject's submitted progress record
    posts,     \* how often the LMS accepted each payload (saturating)
    req,       \* the running requests
    worker,    \* the running queue processors
    job,       \* the in-memory retry jobs (agsRetryQueue)
    purged,    \* history: the (subject, payload) pairs retention has deleted
    crashes,   \* how many crashes have happened
    faults     \* how many database calls have failed

context == <<access, enrolled>>
queue == <<rows, nextRow, purged>>
records == <<scores, progress>>
processes == <<req, worker, job>>
budget == <<crashes, faults>>
vars == <<context, queue, records, posts, processes, budget>>

-----------------------------------------------------------------------------
(* Rows of the queue, and what the configuration says about a retry.       *)

\* Mutant: one retry too many.
RetryableOffByOne(n) == AutoRetry /\ n <= MaxAttempts

Retryable(n) == AutoRetry /\ n < MaxAttempts
Exhausted(n) == AutoRetry /\ MaxAttempts > 0 /\ n >= MaxAttempts
FailureStatus(n) == IF Exhausted(n) THEN "retry_exhausted" ELSE "failed"
NextRetryAt(n) == IF Retryable(n) THEN "waiting" ELSE "unset"

NewRow(s, p, st, n, at, line) ==
    [subject |-> s, payload |-> p, status |-> st, retryCount |-> n, next |-> at,
     line |-> line]

\* Mutant: the outcome of a failed call is stored as it is.
OutcomeRowRaw(s, p, out, n, failure, line) == NewRow(s, p, out, n, NextRetryAt(n), line)

\* The row recorded for the outcome of a post; a failure is retried if it may be.
OutcomeRow(s, p, out, n, failure, line) ==
    IF out = "error" THEN NewRow(s, p, failure, n, NextRetryAt(n), line)
                     ELSE NewRow(s, p, out, n, "unset", line)

Insert(row) ==
    /\ nextRow <= RowPool
    /\ rows' = [rows EXCEPT ![nextRow] = row]
    /\ nextRow' = nextRow + 1
    /\ UNCHANGED purged

HasRow(s, p, sts) ==
    \E i \in RowIds : /\ rows[i] # None
                      /\ rows[i].subject = s
                      /\ rows[i].payload = p
                      /\ rows[i].status \in sts

\* Mutant: pending rows are not listed.
DueFailedOnly == {i \in RowIds : /\ rows[i] # None
                                 /\ rows[i].status = "failed"
                                 /\ rows[i].next = "due"}

Due == {i \in RowIds : /\ rows[i] # None
                       /\ rows[i].status \in {"failed", "pending"}
                       /\ rows[i].next = "due"}

\* Mutant: any published score counts as the same.
SamePublishedAnyPayload(s, p) == scores[s] # None /\ scores[s].status = "published"

SamePublished(s, p) == scores[s] = [payload |-> p, status |-> "published"]

UpsertScore(s, p, st) ==
    scores' = [scores EXCEPT ![s] = [payload |-> p, status |-> st]]

-----------------------------------------------------------------------------
(* The post of one score. "lost" is a post the LMS accepted whose answer   *)
(* never arrived; the caller sees an error.                                *)

\* resolveLineItemUrl: the content's line item, else the launch context's.
HasLine(s) == access[s] \cap {"item", "line"} # {}

\* Without a line item one is created; without a caller's token that takes the
\* score scope too (hasWritableAgsContext).
Creates(s, token) == "create" \in access[s] /\ (token \/ "score" \in access[s])

\* sendScoreToAgs: "line" says that the caller passes a line item.
SendOutcomes(s, token, line) ==
    LET known == line \/ HasLine(s)
        sent == IF known THEN token \/ "score" \in access[s] ELSE Creates(s, token)
    IN IF sent THEN {"published", "lost", "error"}
       ELSE IF known THEN {"error"} ELSE {"not_applicable"}

\* Mutant: response.ok is not looked at.
SeenUnchecked(out) == IF out \in {"lost", "error"} THEN "published" ELSE out

Seen(out) == IF out = "lost" THEN "error" ELSE out

Deliver(s, p, out) ==
    posts' = IF out \in {"published", "lost"}
             THEN [posts EXCEPT ![s][p] = IF @ < 2 THEN @ + 1 ELSE 2]
             ELSE posts

\* resolveOrCreateLineItemUrl: a line item is created before the post, stored in the
\* content, and stays when the post fails.
CreateLineItem(s, token, line, out) ==
    \/ /\ ~line /\ ~HasLine(s) /\ Creates(s, token)
       /\ access' = [access EXCEPT ![s] = @ \cup {"item"}]
    \/ /\ line \/ HasLine(s) \/ ~Creates(s, token) \/ out = "error"
       /\ UNCHANGED access

Send(s, p, token, line, out) ==
    /\ out \in SendOutcomes(s, token, line)
    /\ Deliver(s, p, out)
    /\ CreateLineItem(s, token, line, out)
    /\ UNCHANGED enrolled

-----------------------------------------------------------------------------
(* In-memory retry jobs: agsRetryQueue.scheduleAgsRetry.                   *)

TimerSet(s, p, n) ==
    \E j \in JobSlots : /\ job[j] # None
                        /\ job[j].pc = "timer" /\ job[j].subject = s
                        /\ job[j].payload = p /\ job[j].count = n

NextJob(s, p, n, line) ==
    IF Retryable(n) /\ ~TimerSet(s, p, n)
    THEN [pc |-> "timer", subject |-> s, payload |-> p, count |-> n,
          line |-> line, out |-> "error"]
    ELSE None

Schedule(s, p, n, line) ==
    IF NextJob(s, p, n, line) = None THEN UNCHANGED job
    ELSE \E j \in JobSlots : /\ job[j] = None
                             /\ job' = [job EXCEPT ![j] = NextJob(s, p, n, line)]

-----------------------------------------------------------------------------
(* Requests. Begin reads what the handler reads before its first decision. *)

Room == nextRow + Cardinality({r \in Requests : req[r] # None}) <= RowPool

Begin(r, kind, s, p, token, pc, status, saves) ==
    /\ req[r] = None
    /\ kind \in Kinds
    /\ Room
    /\ req' = [req EXCEPT ![r] =
                 [kind |-> kind, pc |-> pc, subject |-> s, payload |-> p,
                  token |-> token, line |-> FALSE, out |-> "error", status |-> status,
                  saves |-> saves]]
    /\ UNCHANGED <<context, queue, records, posts, worker, job, budget>>

\* finalizeCompletedQuestionContent for individual content, gradeContentSubmission.
Finalize(r, s, p) ==
    /\ enrolled[s]
    /\ Begin(r, "finalize", s, p, FALSE,
             IF SamePublished(s, p) THEN "skip" ELSE "route",
             "pending", {"score", "progress"})

\* assertAssessmentCanSubmit: an assessment is submitted once.
CanSubmit(s) == s \in Assessments => progress[s] = None

\* submitScore at 100 percent, with or without the learner's own AGS token.
SubmitScore(r, s, p, token) ==
    /\ enrolled[s] /\ CanSubmit(s)
    /\ Begin(r, "submit", s, p, token,
             IF SamePublished(s, p) THEN "skip" ELSE "send",
             "pending", {"score", "progress"})

\* submitScore below 100 percent: saved, never published.
SubmitPartial(r, s, p) ==
    /\ enrolled[s] /\ CanSubmit(s)
    /\ Begin(r, "partial", s, p, FALSE, "save", "not_ready", {"score", "progress"})

\* propagateSquadScoreToMembers, for one member.
PropagateToMember(r, s, p) ==
    /\ enrolled[s]
    /\ ~SamePublished(s, p)
    /\ Begin(r, "propagate", s, p, FALSE, "route", "pending", {"score"})

\* backfillCompletedAgsSubmissions: list a candidate without a pending or a
\* published attempt ...
BackfillList(r, s, p, token) ==
    /\ progress[s] = p \/ HasRow(s, p, {"not_applicable"})
    /\ ~HasRow(s, p, {"pending", "published"})
    /\ Begin(r, "backfill", s, p, token, "check", "pending", {"score"})

Goto(r, pc) == req' = [req EXCEPT ![r].pc = pc]

\* ... and backfillAgsCandidate looks again before it enqueues it.
BackfillCheck(r) ==
    /\ req[r] # None /\ req[r].pc = "check"
    /\ LET s == req[r].subject
           p == req[r].payload
       IN IF ~enrolled[s] \/ HasRow(s, p, {"pending", "published"})
          THEN req' = [req EXCEPT ![r] = None]
          ELSE Goto(r, "route")
    /\ UNCHANGED <<context, queue, records, posts, worker, job, budget>>

\* recordSkippedDuplicateAgsAttempt.
RecordSkip(r) ==
    /\ req[r] # None /\ req[r].pc = "skip"
    /\ Insert(NewRow(req[r].subject, req[r].payload, "skipped_duplicate", 0, "unset",
                     HasLine(req[r].subject)))
    /\ req' = [req EXCEPT ![r].pc = "save", ![r].status = "published"]
    /\ UNCHANGED <<context, records, posts, worker, job, budget>>

\* enqueueFinalAgsPublish: publish now, or queue when there is a line item but no
\* launch context to publish with. The operator of a backfill (its "token") may
\* bring a line item and a context; the post is then made with the operator's
\* context alone, and fails at once when that lacks the scope.
Route(r) ==
    /\ req[r] # None /\ req[r].pc = "route"
    /\ \E line \in BOOLEAN, usable \in BOOLEAN :
         LET s == req[r].subject
             operator == req[r].token
             known == HasLine(s) \/ line
             queued == known /\ ~usable /\ "score" \notin access[s]
             refused == known /\ operator /\ ~usable
         IN /\ line \/ usable => operator
            /\ req' = [req EXCEPT ![r].pc = IF queued THEN "find"
                                            ELSE IF refused THEN "record" ELSE "send",
                                  ![r].line = known,
                                  ![r].token = known /\ usable,
                                  ![r].out = "error"]
    /\ UNCHANGED <<context, queue, records, posts, worker, job, budget>>

\* Mutant: a pending attempt of another score is taken for this one's.
FindPendingAnyPayload(r) ==
    /\ req[r] # None /\ req[r].pc = "find"
    /\ Goto(r, IF \E p \in Payloads : HasRow(req[r].subject, p, {"pending"})
               THEN "save" ELSE "insert")
    /\ UNCHANGED <<context, queue, records, posts, worker, job, budget>>

FindPending(r) ==
    /\ req[r] # None /\ req[r].pc = "find"
    /\ Goto(r, IF HasRow(req[r].subject, req[r].payload, {"pending"})
               THEN "save" ELSE "insert")
    /\ UNCHANGED <<context, queue, records, posts, worker, job, budget>>

InsertPending(r) ==
    /\ req[r] # None /\ req[r].pc = "insert"
    /\ Insert(NewRow(req[r].subject, req[r].payload, "pending", 0, "due", TRUE))
    /\ Goto(r, "save")
    /\ UNCHANGED <<context, records, posts, worker, job, budget>>

\* Mutant: only failures and queued scores are recorded.
PublishSendUnrecorded(r, out) ==
    /\ req[r] # None /\ req[r].pc = "send"
    /\ Send(req[r].subject, req[r].payload, req[r].token, req[r].line, out)
    /\ req' = [req EXCEPT ![r].pc = IF Seen(out) = "error" THEN "record" ELSE "save",
                          ![r].out = Seen(out),
                          ![r].status = IF out \in ScoreStatuses THEN out ELSE @]
    /\ UNCHANGED <<queue, records, worker, job, budget>>

\* publishScoreToAgs, the call of sendScoreToAgs ...
PublishSend(r, out) ==
    /\ req[r] # None /\ req[r].pc = "send"
    /\ Send(req[r].subject, req[r].payload, req[r].token, req[r].line, out)
    /\ req' = [req EXCEPT ![r].pc = "record", ![r].out = Seen(out)]
    /\ UNCHANGED <<queue, records, worker, job, budget>>

\* recordAgsAttempt: the line item the caller passed, which a failure does not, or
\* the one known by now.
RecordedLine(r) == HasLine(req[r].subject) \/ (req[r].out # "error" /\ req[r].line)

\* ... and the record of its outcome; a failure rejects the whole request.
PublishRecord(r) ==
    /\ req[r] # None /\ req[r].pc = "record"
    /\ LET s == req[r].subject
           p == req[r].payload
           out == req[r].out
       IN /\ Insert(OutcomeRow(s, p, out, 0, FailureStatus(0), RecordedLine(r)))
          /\ \/ /\ out = "error"
                /\ Goto(r, "rejected")
                /\ IF req[r].kind = "submit" /\ req[r].token
                   THEN \E item \in BOOLEAN :
                           (item => "item" \in access[s]) /\ Schedule(s, p, 0, item)
                   ELSE UNCHANGED job
             \/ /\ out # "error"
                /\ req' = [req EXCEPT ![r].pc = "save", ![r].status = out]
                /\ UNCHANGED job
    /\ UNCHANGED <<context, records, posts, worker, budget>>

SaveScore(r) ==
    /\ req[r] # None /\ req[r].pc = "save" /\ "score" \in req[r].saves
    /\ UpsertScore(req[r].subject, req[r].payload, req[r].status)
    /\ req' = [req EXCEPT ![r].saves = @ \ {"score"}]
    /\ UNCHANGED <<context, queue, progress, posts, worker, job, budget>>

\* upsertContentProgress: finalization writes it beside the score, in either
\* order; submitScore after the score.
SaveProgress(r) ==
    /\ req[r] # None /\ req[r].pc = "save" /\ "progress" \in req[r].saves
    /\ req[r].kind # "finalize" => "score" \notin req[r].saves
    /\ progress' = [progress EXCEPT ![req[r].subject] =
                      IF req[r].kind = "partial" THEN None ELSE req[r].payload]
    /\ req' = [req EXCEPT ![r].saves = @ \ {"progress"}]
    /\ UNCHANGED <<context, queue, scores, posts, worker, job, budget>>

Respond(r) ==
    /\ req[r] # None
    /\ req[r].pc = "rejected" \/ (req[r].pc = "save" /\ req[r].saves = {})
    /\ req' = [req EXCEPT ![r] = None]
    /\ UNCHANGED <<context, queue, records, posts, worker, job, budget>>

-----------------------------------------------------------------------------
(* In-memory retry jobs: runRetry, with the content and the token captured *)
(* when the job was scheduled.                                             *)

JobSend(j, out) ==
    /\ job[j] # None /\ job[j].pc = "timer"
    /\ out \in IF job[j].line THEN {"published", "lost", "error"} ELSE {"not_applicable"}
    /\ Deliver(job[j].subject, job[j].payload, out)
    /\ job' = [job EXCEPT ![j].pc = "record", ![j].count = @ + 1, ![j].out = Seen(out)]
    /\ UNCHANGED <<context, queue, records, req, worker, budget>>

JobRecord(j) ==
    /\ job[j] # None /\ job[j].pc = "record"
    /\ LET s == job[j].subject
           p == job[j].payload
           n == job[j].count
       IN /\ Insert(OutcomeRow(s, p, job[j].out, n, "failed", job[j].line))
          /\ job' = [job EXCEPT ![j] =
                       IF job[j].out = "error" THEN NextJob(s, p, n, job[j].line)
                       ELSE [@ EXCEPT !.pc = "save"]]
    /\ UNCHANGED <<context, records, posts, req, worker, budget>>

JobSave(j) ==
    /\ job[j] # None /\ job[j].pc = "save"
    /\ UpsertScore(job[j].subject, job[j].payload, job[j].out)
    /\ job' = [job EXCEPT ![j] = None]
    /\ UNCHANGED <<context, queue, progress, posts, req, worker, budget>>

-----------------------------------------------------------------------------
(* Processors of the queue. A pass works through the rows as they were     *)
(* when it listed them; nothing claims a row.                              *)

\* retryDueAgsPublishAttempts: the maintenance timer, the scheduler endpoint or
\* the instructor's process-due endpoint lists the due rows.
ListDue(w) ==
    /\ worker[w] = None
    /\ Due # {}
    /\ worker' = [worker EXCEPT ![w] =
                    [pc |-> "next", batch |-> {[id |-> i, row |-> rows[i]] : i \in Due},
                     cur |-> None, token |-> FALSE, single |-> FALSE, out |-> "error"]]
    /\ UNCHANGED <<context, queue, records, posts, req, job, budget>>

\* The next attempt of the pass. An attempt of a user who has moved to another
\* course throws before anything is written, and stays due.
TakeNext(w) ==
    /\ worker[w] # None /\ worker[w].pc = "next"
    /\ \E b \in worker[w].batch :
         worker' = [worker EXCEPT ![w].batch = @ \ {b},
                                  ![w].cur = IF enrolled[b.row.subject] THEN b ELSE None,
                                  ![w].pc = IF enrolled[b.row.subject] THEN "send" ELSE "next"]
    /\ UNCHANGED <<context, queue, records, posts, req, job, budget>>

EndPass(w) ==
    /\ worker[w] # None /\ worker[w].pc = "next" /\ worker[w].batch = {}
    /\ worker' = [worker EXCEPT ![w] = None]
    /\ UNCHANGED <<context, queue, records, posts, req, job, budget>>

\* Mutant: an instructor may retry any row.
RetryOneAnyStatus(w, i, token) ==
    /\ worker[w] = None
    /\ rows[i] # None
    /\ rows[i].retryCount <= RetryCap
    /\ enrolled[rows[i].subject]
    /\ worker' = [worker EXCEPT ![w] =
                    [pc |-> "send", batch |-> {}, cur |-> [id |-> i, row |-> rows[i]],
                     token |-> token, single |-> TRUE, out |-> "error"]]
    /\ UNCHANGED <<context, queue, records, posts, req, job, budget>>

\* retryAgsPublishAttempt: an instructor retries one row, with a token or without.
RetryOne(w, i, token) ==
    /\ worker[w] = None
    /\ rows[i] # None
    /\ rows[i].status \in {"failed", "pending", "retry_exhausted"}
    /\ rows[i].retryCount <= RetryCap
    /\ enrolled[rows[i].subject]
    /\ worker' = [worker EXCEPT ![w] =
                    [pc |-> "send", batch |-> {}, cur |-> [id |-> i, row |-> rows[i]],
                     token |-> token, single |-> TRUE, out |-> "error"]]
    /\ UNCHANGED <<context, queue, records, posts, req, job, budget>>

\* publishQueuedAgsAttempt: the post, the row's outcome, the score record.
AttemptSend(w, out) ==
    /\ worker[w] # None /\ worker[w].pc = "send"
    /\ Send(worker[w].cur.row.subject, worker[w].cur.row.payload, worker[w].token,
            worker[w].cur.row.line, out)
    /\ worker' = [worker EXCEPT ![w].pc = "outcome", ![w].out = Seen(out)]
    /\ UNCHANGED <<queue, records, req, job, budget>>

\* Mutant: a successful retry leaves nextRetryAt behind.
AttemptOutcomeKeepsDate(row, out, n) ==
    IF out = "error"
    THEN [row EXCEPT !.status = FailureStatus(n), !.retryCount = n, !.next = NextRetryAt(n)]
    ELSE [row EXCEPT !.status = out, !.retryCount = n]

\* The retry count written is that of the row as it was listed, plus one.
AttemptOutcome(row, out, n) ==
    IF out = "error"
    THEN [row EXCEPT !.status = FailureStatus(n), !.retryCount = n, !.next = NextRetryAt(n)]
    ELSE [row EXCEPT !.status = out, !.retryCount = n, !.next = "unset"]

WriteOutcome(w) ==
    /\ worker[w] # None /\ worker[w].pc = "outcome"
    /\ LET i == worker[w].cur.id
           n == worker[w].cur.row.retryCount + 1
       IN rows' = IF rows[i] = None THEN rows
                  ELSE [rows EXCEPT ![i] = AttemptOutcome(@, worker[w].out, n)]
    /\ worker' = [worker EXCEPT ![w].pc = "score"]
    /\ UNCHANGED <<context, nextRow, purged, records, posts, req, job, budget>>

\* An error ends the row: a pass goes on with the next one, a single retry rejects.
Abandon(wk) == IF wk.single THEN None ELSE [wk EXCEPT !.pc = "next", !.cur = None]

\* After a success retryAgsPublishAttempt saves the score once more.
AfterScore(wk) ==
    IF wk.single /\ wk.out # "error" THEN [wk EXCEPT !.pc = "echo"] ELSE Abandon(wk)

WriteScore(w) ==
    /\ worker[w] # None /\ worker[w].pc = "score"
    /\ UpsertScore(worker[w].cur.row.subject, worker[w].cur.row.payload,
                   IF worker[w].out = "error" THEN "failed" ELSE worker[w].out)
    /\ worker' = [worker EXCEPT ![w] = AfterScore(@)]
    /\ UNCHANGED <<context, queue, progress, posts, req, job, budget>>

EchoScore(w) ==
    /\ worker[w] # None /\ worker[w].pc = "echo"
    /\ UpsertScore(worker[w].cur.row.subject, worker[w].cur.row.payload, worker[w].out)
    /\ worker' = [worker EXCEPT ![w] = None]
    /\ UNCHANGED <<context, queue, progress, posts, req, job, budget>>

-----------------------------------------------------------------------------
(* The environment: time, retention, launches, transfers, faults, crashes. *)

\* A row's nextRetryAt passes.
Elapse(i) ==
    /\ rows[i] # None /\ rows[i].next = "waiting"
    /\ rows' = [rows EXCEPT ![i].next = "due"]
    /\ UNCHANGED <<context, nextRow, purged, records, posts, processes, budget>>

\* cleanupOldAttempts deletes by age alone, whatever the status.
Cleanup(k) ==
    /\ \E i \in 1..k : rows[i] # None
    /\ purged' = purged \cup {<<rows[i].subject, rows[i].payload>> :
                               i \in {x \in 1..k : rows[x] # None}}
    /\ rows' = [i \in RowIds |-> IF i <= k THEN None ELSE rows[i]]
    /\ UNCHANGED <<context, nextRow, records, posts, processes, budget>>

\* upsertAgsContext on a launch: the newest launch decides what is granted; a line
\* item stored in the content stays.
Launch(s, granted) ==
    /\ access' = [access EXCEPT ![s] = granted \cup (@ \cap {"item"})]
    /\ UNCHANGED <<enrolled, queue, records, posts, processes, budget>>

\* The user record moves to another course (launch or roster sync elsewhere).
Transfer(s) ==
    /\ enrolled[s]
    /\ enrolled' = [enrolled EXCEPT ![s] = FALSE]
    /\ UNCHANGED <<access, queue, records, posts, processes, budget>>

\* A failed database call of a request ends it; inside publishScoreToAgs' try
\* block the handler takes it for a failed post.
RequestFault(r) ==
    /\ faults < MaxFaults /\ faults' = faults + 1
    /\ req[r] # None /\ req[r].pc # "rejected"
    /\ req' = IF req[r].pc = "send" \/ (req[r].pc = "record" /\ req[r].out # "error")
              THEN [req EXCEPT ![r].pc = "record", ![r].out = "error"]
              ELSE [req EXCEPT ![r] = None]
    /\ UNCHANGED <<context, queue, records, posts, worker, job, crashes>>

\* The same in publishQueuedAgsAttempt: the try block covers the post and, when
\* it went well, the outcome and the score. The reads before it abandon the row,
\* and so does a fault on the failure path; one in the last save of
\* retryAgsPublishAttempt ends the call.
Faulted(wk) ==
    CASE wk.pc = "send" -> {[wk EXCEPT !.pc = "outcome", !.out = "error"], Abandon(wk)}
      [] wk.pc \in {"outcome", "score"} ->
           {IF wk.out # "error" THEN [wk EXCEPT !.pc = "outcome", !.out = "error"]
                                ELSE Abandon(wk)}
      [] wk.pc = "echo" -> {None}

WorkerFault(w) ==
    /\ faults < MaxFaults /\ faults' = faults + 1
    /\ worker[w] # None /\ worker[w].pc # "next"
    /\ \E wk \in Faulted(worker[w]) : worker' = [worker EXCEPT ![w] = wk]
    /\ UNCHANGED <<context, queue, records, posts, req, job, crashes>>

\* And in runRetry, whose catch block records a failed attempt; nothing catches a
\* fault of that record.
JobFault(j) ==
    /\ faults < MaxFaults /\ faults' = faults + 1
    /\ job[j] # None /\ job[j].pc \in {"record", "save"}
    /\ job' = IF job[j].out # "error"
              THEN [job EXCEPT ![j].pc = "record", ![j].out = "error"]
              ELSE [job EXCEPT ![j] = None]
    /\ UNCHANGED <<context, queue, records, posts, req, worker, crashes>>

\* The process dies: requests, passes and timers are gone, documents stay.
Crash ==
    /\ crashes < MaxCrashes /\ crashes' = crashes + 1
    /\ req' = [r \in Requests |-> None]
    /\ worker' = [w \in Workers |-> None]
    /\ job' = [j \in JobSlots |-> None]
    /\ UNCHANGED <<context, queue, records, posts, faults>>

-----------------------------------------------------------------------------
Init ==
    /\ access \in [Subjects -> {g \cup i : g \in Grants, i \in {{}, {"item"}}}]
    /\ enrolled = [s \in Subjects |-> TRUE]
    /\ rows = [i \in RowIds |-> None]
    /\ nextRow = 1
    /\ scores = [s \in Subjects |-> None]
    /\ progress = [s \in Subjects |-> None]
    /\ posts = [s \in Subjects |-> [p \in Payloads |-> 0]]
    /\ req = [r \in Requests |-> None]
    /\ worker = [w \in Workers |-> None]
    /\ job = [j \in JobSlots |-> None]
    /\ purged = {}
    /\ crashes = 0
    /\ faults = 0

Start(r) ==
    \E s \in Subjects, p \in Payloads :
       \/ Finalize(r, s, p)
       \/ SubmitPartial(r, s, p)
       \/ PropagateToMember(r, s, p)
       \/ \E t \in Tokens : SubmitScore(r, s, p, t) \/ BackfillList(r, s, p, t)

Posted == {"published", "lost", "not_applicable", "error"}

RequestStep(r) ==
    \/ BackfillCheck(r)
    \/ RecordSkip(r)
    \/ Route(r)
    \/ FindPending(r)
    \/ InsertPending(r)
    \/ \E out \in Posted : PublishSend(r, out)
    \/ PublishRecord(r)
    \/ SaveScore(r)
    \/ SaveProgress(r)
    \/ Respond(r)

WorkerStep(w) ==
    \/ ListDue(w)
    \/ TakeNext(w)
    \/ EndPass(w)
    \/ \E out \in Posted : AttemptSend(w, out)
    \/ WriteOutcome(w)
    \/ WriteScore(w)
    \/ EchoScore(w)

JobStep(j) ==
    \/ \E out \in Posted : JobSend(j, out)
    \/ JobRecord(j)
    \/ JobSave(j)

Environment ==
    \/ \E i \in RowIds : Elapse(i)
    \/ \E k \in RowIds : Cleanup(k)
    \/ \E s \in Movers : Transfer(s)
    \/ \E s \in Launchers, granted \in Grants : Launch(s, granted)
    \/ \E r \in Requests : RequestFault(r)
    \/ \E w \in Workers : WorkerFault(w)
    \/ \E j \in JobSlots : JobFault(j)
    \/ Crash

Next ==
    \/ \E r \in Requests : Start(r) \/ RequestStep(r)
    \/ \E w \in Workers : \/ WorkerStep(w)
                          \/ \E i \in RowIds, t \in Tokens : RetryOne(w, i, t)
    \/ \E j \in JobSlots : JobStep(j)
    \/ Environment

Spec == Init /\ [][Next]_vars

\* Every await returns (a call answers or times out), the maintenance timer and
\* the schedulers keep firing, and time passes. Nobody has to start a request,
\* launch, or retry by hand.
Fairness ==
    /\ \A r \in Requests : WF_vars(RequestStep(r))
    /\ \A w \in Workers : WF_vars(WorkerStep(w))
    /\ \A j \in JobSlots : WF_vars(JobStep(j))
    /\ \A i \in RowIds : WF_vars(Elapse(i))

FairSpec == Spec /\ Fairness

-----------------------------------------------------------------------------
(* Properties                                                              *)

TypeOK ==
    /\ access \in [Subjects -> SUBSET Access]
    /\ enrolled \in [Subjects -> BOOLEAN]
    /\ rows \in [RowIds -> Row \cup {None}]
    /\ nextRow \in 1..(RowPool + 1)
    /\ scores \in [Subjects -> Score \cup {None}]
    /\ progress \in [Subjects -> Payloads \cup {None}]
    /\ posts \in [Subjects -> [Payloads -> 0..2]]
    /\ req \in [Requests -> Request \cup {None}]
    /\ worker \in [Workers -> Processor \cup {None}]
    /\ job \in [JobSlots -> Job \cup {None}]
    /\ purged \subseteq Subjects \X Payloads
    /\ crashes \in 0..MaxCrashes
    /\ faults \in 0..MaxFaults

Delivered(s, p) == posts[s][p] > 0
Logged(s, p) == HasRow(s, p, RowStatuses) \/ <<s, p>> \in purged

\* AgsPublish implements GradeSync: rows come and go, the log of handled
\* payloads does not.
Abstract == INSTANCE GradeSync WITH
    Statuses <- ScoreStatuses,
    lms <- [s \in Subjects |-> {p \in Payloads : Delivered(s, p)}],
    log <- {sp \in Subjects \X Payloads : Logged(sp[1], sp[2])},
    shown <- scores

\* No interleaving, lost answer, fault, crash or cleanup makes PACT show a grade
\* status that the LMS or the attempt log does not bear out.
ImplementsGradeSync == Abstract!Spec

\* PACT never claims a grade the LMS does not have: a score or an attempt that
\* reads "published" (or was skipped as a duplicate of one) was accepted by the
\* LMS with exactly that payload, whatever raced, failed or crashed.
PublishedWasDelivered ==
    /\ \A s \in Subjects :
         scores[s] # None /\ scores[s].status = "published"
            => Delivered(s, scores[s].payload)
    /\ \A i \in RowIds :
         rows[i] # None /\ rows[i].status \in {"published", "skipped_duplicate"}
            => Delivered(rows[i].subject, rows[i].payload)

WithinBudget(row) ==
    /\ row.status = "pending" => row.next = "due"
    /\ row.status = "failed" => (row.next # "unset" <=> Retryable(row.retryCount))
    /\ row.status = "retry_exhausted" => row.next = "unset" /\ Exhausted(row.retryCount)
    /\ row.status \notin {"pending", "failed"} => row.next = "unset"

\* No attempt is abandoned with retries left and none is retried beyond them:
\* pending rows are always scheduled, a failed row is scheduled exactly while
\* its retryCount allows another automatic try, and a finished one never is.
QueueWithinBudget == \A i \in RowIds : rows[i] # None => WithinBudget(rows[i])

\* README: "each publish, pending/not-applicable outcome, failure, duplicate skip
\* ... is recorded in pactAgsPublishAttempts". A score record never shows an AGS
\* status without an attempt for that very payload, unless retention deleted it:
\* the attempt is always written before the score.
ScoreOutcomeRecorded ==
    \A s \in Subjects :
       scores[s] # None /\ scores[s].status # "not_ready"
          => Logged(s, scores[s].payload)

\* With a single processor (and no failed database call) a published attempt is
\* never reopened and no retry is forgotten.
PublishedNotReopened ==
    [][\A i \in RowIds :
         rows[i] # None /\ rows'[i] # None =>
            /\ rows[i].status = "published" => rows'[i].status = "published"
            /\ rows'[i].retryCount >= rows[i].retryCount]_vars

Queued(i) == /\ rows[i] # None
             /\ rows[i].status \in {"pending", "failed"}
             /\ rows[i].next # "unset"

\* Every queued attempt is settled: published, not applicable or exhausted,
\* unless it is deleted or its user has left the course, in which case it stays
\* due for ever.
QueuedEventuallySettles ==
    \A i \in RowIds :
       Queued(i) ~> \/ rows[i] = None
                    \/ ~enrolled[rows[i].subject]
                    \/ rows[i].status \in {"published", "not_applicable", "retry_exhausted"}

\* docs/assignment-scoring-and-ags-policy.md, "Final Score and AGS Timing": the
\* finalization path records the PACT score whether or not the LMS takes it.
FinalizationRecordsScore ==
    \A r \in Requests :
       req[r] # None /\ req[r].kind = "finalize" /\ req[r].pc = "rejected"
          => scores[req[r].subject] # None

\* README: "Identical already-published scores are not reposted".
NoRepost ==
    [][\A s \in Subjects, p \in Payloads :
         SamePublished(s, p) => posts'[s][p] = posts[s][p]]_vars
=============================================================================
