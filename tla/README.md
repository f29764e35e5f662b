# PACT backend: specifications, model checking and proofs

PACT is an LTI tool. Learners work through modules, assessments and squad
challenges; the backend scores the work, decides when an assignment is complete
and passes the final score back to the LMS (AGS). It runs as a Node server and
as a serverless worker, keeps everything in MongoDB without transactions, and
talks to the LMS over HTTP. Several processes, timers and operators work on the
same documents, and every `await` is a point where another one may run.

This directory holds TLA+ modules translated from the code in `src/`, TLC
configurations that check them on small instances, and TLAPS proofs of the main
results for every instance. `PROJECT.json` maps each definition to the lines it
models, and each property to a mutation of the model that breaks it.

## 1. Inventory

| Component | State | Operations | Talks to |
|---|---|---|---|
| Grade passback (`pactService`, `agsRetryQueue`, `agsMaintenanceService`, `lmsAgsClient`) | `pactAgsPublishAttempts`, `pactScores`, `pactAgsContexts`, timers in memory | publish inline, enqueue, retry one, retry due, backfill, retention cleanup | LMS over HTTP; submissions call it; the scheduler and instructors drive it |
| Submissions (`pactService`) | `pactQuestionAttempts`, `pactQuestionGrades`, `pactContentProgress` | answer a question, save progress, submit a score, grade manually, grade content | completion policy, grade passback, squads |
| Completion policy (`assignmentCompletionPolicy`) | none | may this question be attempted, is the assignment complete | pure, called by submissions |
| Notifications (`agsMaintenanceService`) | `pactNotifications` | enqueue an exhaustion alert, deliver, back off, dead-letter | webhook sinks; fed by the results of retry passes |
| Squads (`pactService`, `pactRepository`) | `pactSquads`, `squadId` on users, squad progress | join, assign, carry history, squad progress, propagate a score | submissions, grade passback |
| Identity (`ltiLaunchService`, `lmsRosterSyncService`) | `pactUsers` | launch, roster sync | LMS; rewrites the course and squad of a user |
| Content (`r2ContentSyncService`, `deckImportService`, `releaseImportService`) | `pactContent` with its decks and releases | lock, unlock, import, sync | R2 storage |
| Bug reports (`bugReportService`, `ops-webhook-worker`) | `pactBugReports` | report, link to Linear, follow webhooks | Linear |
| Sessions, keys, tokens, deep linking | none | sign, verify, fetch a token | LMS |
| HTTP surface, configuration, analytics, imports, migrations | none of its own | dispatch, parse, read, seed | everything |

What is hard here:

* **Nothing claims a queue row.** The maintenance timer, the scheduler endpoint
  and an instructor may process the same attempts at once.
* **Every decision is read, await, write.** Published scores, pending attempts,
  attempt limits and squad answers are looked up before an await and used after it.
* **A post and the record of it are separate steps.** An answer may be lost
  after the LMS accepted the score; a database write may fail after the post; the
  process may die in between.
* **Two retry mechanisms** work on a failed direct submission, one in memory.
* **The last piece of work** of an assignment may be done by the learner in
  either of two tabs or by an instructor; each request decides alone, from two
  reads, whether the assignment is complete.
* **Retention** deletes attempts by age whatever their status.
* **Maintenance passes overlap**, each with its own list of due notifications,
  and overwrite each other's counts.
* **Records are written back whole**: a user by launches and roster syncs, a
  deck and the releases of a challenge by imports, the answers of a squad by
  every member, each from a copy that was read before other awaits.
* **Linear's webhook** may come before the report is linked, late, twice or in
  another order.

What makes each part correct, in one line each: PACT never claims a grade the
LMS does not have, and every grade status has an attempt behind it (passback);
each queued attempt settles (queue); a learner submits an assessment once and
never exceeds an attempt limit (submissions); an assignment is complete exactly
when its required work is (policy); every exhausted attempt is announced, and a
delivered alert was stored by its sink (notifications); no member's answer is
lost, and complete work is scored for every member (squads); a learner is only
ever in a squad that somebody assigned (identity); learners see only what was
opened by hand (content); a linked report follows its issue (bug reports).

## 2. Modules

| Module | What it is |
|---|---|
| `AgsPublish` | grade passback in detail: requests, queue processors, in-memory jobs, LMS, time, retention, launches, faults, crashes |
| `GradeSync` | what passback promises: payloads the LMS accepted, a log of handled payloads, the status shown |
| `MCAgsPublish` | symmetry for TLC |
| `CompletionPolicy` | pure: may a question be attempted, is an assignment complete, with which score |
| `Submission` | EXTENDS it: answers, saved progress, direct scores, grades and finalization of one learner's individually scored content |
| `MCSubmission` | points, limits and symmetry for TLC |
| `Documents` | what the following have in common: the absent document |
| `Notifications` | the maintenance timer: exhaustion, stored notifications per sink, delivery by overlapping passes, restarts |
| `BugReports` | a report, its issue in Linear (external), the link, the webhook |
| `DueQueue` | which due attempts a pass takes: oldest date first, a batch at a time, and attempts that throw |
| `MCOperations` | these three for TLC |
| `ContentGate` | locks, publication, cohort and role, releases and decks; imports and syncs from the bucket as jobs |
| `Squads` | launches, roster syncs and assignments on user records; a squad's answers, saves, scores and their fan-out |
| `MCCourse` | both for TLC: seeds, edits, mixes of requests, symmetry |
| `AgsPublish_proofs` | types, frame lemmas (what each group of steps leaves alone), published means delivered, retry budget, attempt log, refinement of `GradeSync`, published stays published |
| `Submission_proofs` | types, attempt limit, score earned, bounded and current, complete work scored, an assessment stays submitted |
| `Queue_proofs` | facts about queues as sequences: removing and appending, order, no repetitions |
| `DueQueue_proofs` | types, dates, retries and order of the due attempts |
| `Notifications_proofs` | types, dead letters, deliveries, announcements, the budget of posts |
| `BugReports_proofs` | types, links, convergence with Linear |
| `ContentGate_proofs` | types, agreement of the three gates, what is shown, what stays hidden, what imports keep |
| `Squads_proofs` | types, assigned squads, complete work scored, answers in view, history and scores |

`AgsPublish` starts where a final score is known, `Submission` ends there: the
publish of a finalization is a sequence of steps in the first and at most a
failure in the second. Neither reads what only the other one writes, except that
the score they save is the same document. `Squads` is the squad-scored counterpart
of `Submission`, and its members' scores are published as `AgsPublish` says.
`Notifications` takes what a retry pass counted as exhausted, `ContentGate` ends
with what a learner sees, which is where `Squads` starts (`released`).
`BugReports` stands alone.

### How `AgsPublish` corresponds to the code

*State.* `rows` is `pactAgsPublishAttempts` in the order of `createdAt`; a row
keeps its subject (user and content), its payload (score, maximum, percentage),
status, `retryCount`, and whether `nextRetryAt` is unset, in the future or
reached. `scores` is `pactScores`, `progress` the submitted payload of
`pactContentProgress`. `access` holds what PACT has for a subject: from the stored
launch context a line item ("line"), the score scope ("score") and the service that
creates line items ("create"), and "item" when the content has a line item of its own.
Whether a post is sent, fails at once or does not apply is decided from these
(`SendOutcomes`); rows, requests and jobs keep whether they carry a line item.
`enrolled` says that the user still
belongs to the course of the attempts. `posts` is the LMS. `req`, `worker` and
`job` are the running requests, processors and timers with their program
counters; `purged` is a history variable for the pairs retention deleted.

*Requests.* `Finalize`, `SubmitScore`, `SubmitPartial`, `PropagateToMember` and
`BackfillList` begin the five ways to a final score with what each handler reads
before its first decision. The rest are the awaits: `BackfillCheck`,
`RecordSkip`, `Route` (inline or queue), `FindPending`, `InsertPending`,
`PublishSend`, `PublishRecord`, `SaveScore`, `SaveProgress`, `Respond`.
The operator of a backfill may bring a line item and a context: without a usable one
the score is queued as if the learner had no context, and with a line item the post is
made with the operator's context alone.
The partial submission sets a submitted progress back, as `upsertContentProgress`
does.

*Processors.* `ListDue` takes a snapshot of the due rows, `TakeNext` picks one
(a user in another course makes the code throw before any write, so the row stays
due), `AttemptSend`, `WriteOutcome` and `WriteScore` are the three awaits of
`publishQueuedAgsAttempt`, `RetryOne` and `EchoScore` the instructor's retry of a
single row. `WriteOutcome` writes by id with the retry count of the snapshot, and
does nothing when retention removed the row.

*Jobs.* `Schedule`, `JobSend`, `JobRecord`, `JobSave` are `agsRetryQueue`: the
timer that posts with the learner's own token and records rows of its own.

*Environment.* `Elapse` (a retry date passes), `Cleanup` (retention), `Launch`,
`Transfer`, `RequestFault`, `WorkerFault`, `JobFault` (a failed database call, on
the path the `try`/`catch` of that code takes), `Crash` (requests, passes and
timers are gone, documents stay). A fault of the reads before a pass's post abandons
the row, which stays due; one after it is recorded as a failed attempt. A post ends in `published`, `lost` (accepted,
answer lost), `error` or `not_applicable`.

*Abstractions.* A pass lists all due rows and takes them in any order, so every
order the code can choose is covered; the order and the batch limit of 25 are in
`DueQueue`. Delays have no length. Audit events, comments and error texts are left out: nothing reads
them. A launch replaces what the launch context gives, its line item included, and
leaves the content's. A line item is known or not: which one it is, and the copy of a
content document that a request read before another request created one, are left
out. The operator's context is the same throughout a request.

### How `Submission` corresponds to the code

*State.* `attempts` is `pactQuestionAttempts` by `submittedAt` (a time is taken
before the attempt is counted and inserted, so a later time may be inserted
first), `grades` is `pactQuestionGrades` by attempt, `progress` and `score` are
the learner's `pactContentProgress` and `pactScores`. `assessment` says whether
the content is an assessment or a module. `req` holds the running requests: what
they are about, what they have read, and `todo`, the writes that are left.

*Requests.* `Answer`, `Autosave`, `SubmitScore`, `GradeContent` and
`GradeAttempt` are the five handlers up to their first write. An answer goes on
with `Count` (the attempt limit), `Number` and `Insert` (`recordQuestionAttempt`
counts again), and `FindProgress` and `WriteProgress`
(`upsertContentProgress`, which reads the record and writes it back whole). A
grade goes on with `UpsertGrade`. Both end in `finalizeCompletedQuestionContent`:
`ListLatest`, `ListGrades` with the evaluation, and if complete `SaveScore` beside
the progress, two saves at once in any order. `SubmitScore` saves the score
first. `Fail` ends a request at any await, or one of two concurrent saves.

*Policy.* `Allowed` and `Evaluate` translate `assignmentCompletionPolicy` line by
line as sets of questions. Totals are cardinalities of sets of single points,
which needs no recursion and can be proved about.

*Abstractions.* The points of an automatic answer are any number up to the
question's. No two attempts have the same time: the order by `attemptNumber` of
attempts submitted within one millisecond is left out. A status derived from `progressPercent` is the status that a client
may send: 0 is `not_started`, any other percentage `in_progress`; a first answer
counts as more than zero percent, which the rounding gives up to 200 questions.
Timing comments, answers' values, mechanics other than the start of an assessment,
and the role and course checks are left out.

### How `Notifications` corresponds to the code

*State.* `notes` is `pactNotifications`; "about" stands for the counts in a
payload. `due` and `waiting` are the pending notifications whose `nextAttemptAt`
has come, oldest first, and those whose time is in the future. `pass` holds the
running passes of `retryDueAgsAttempts`, `posts` and `alerts` what the sinks received
and stored (`worker` stores an alert before it answers). `happened` and `silent`
are history: what passes counted as exhausted, and what the endpoints' passes did,
which store no notification.

*Steps.* A pass goes through `EndRetries`, `Enqueue` (one insert per sink, at the
same time), `List` (`listDueNotifications` with its limit), and for one
notification after the other `Post` and `MarkDelivered` or `MarkFailed`.
`MarkFailed` writes the count that was listed plus one and the status that
follows from it. `DeliveryUnmarked` is the catch around a failed write of a
delivery. A rejection outside that catch is handled nowhere and ends the process,
which is the same `Restart` as a crash.

### How `DueQueue` corresponds to the code

`row` has the status and count of each attempt, `dueRows` and `later` the open ones
by their `nextRetryAt`, `batch` what a pass has listed and not yet worked on. `Batch`
is the query with its order and limit, `SkipRow` the user or course check that
throws before anything is written (the attempt keeps its date and stays at the
head), `TryRow` a post with the write of its outcome by id, `AfterThrow` the `try`
inside the loop. `RecordRow`, `DateComes`, `MoveUser` and `DeleteRow` are what happens
to attempts meanwhile. It details the one choice that `AgsPublish` leaves open, the
order of a pass, and leaves payloads, scores and the LMS to it.

### How `BugReports` corresponds to the code

`report` is `pactBugReports`, `filing` where `reportBug` stands, `issue` the issues
in Linear and `calls` the webhook calls on their way. The states of an issue are
numbered as it takes them, so that "older" has a meaning. `FileReport`,
`CreateIssue`, `LinkIssue` and `RecordFailure` are the awaits of `reportBug`;
`IssueRefused`, `IssueUnanswered` and `LinkRejects` are the ways in which they
fail: the catch sees the first two only, because the promise of the link is
returned and not awaited inside the `try`. `HandleWebhook` is
`syncBugReportFromLinearIssue`, `RefuseWebhook` a call outside the one-minute
window or one that is lost, `RequestsLost` a crash. `missed` is history: the
reports that did not take a call as Linear made it.

### How `ContentGate` corresponds to the code

*State.* `content` has of each item what decides who sees what: status, lock
(which may be absent), role, cohort, the releases of a challenge with their
`unlocked`, the deck with its lock and the version of its files. `bucket` is what
R2 lists for an item. `job` holds running imports, syncs and changes of a deck's
lock with the document they read. `opened` and `asked` are history: what an
instructor (or the seed) has ever opened, and what was asked for last.

*Requests of one update* are one step each: `SetStatus`, `SetLock`,
`SetAssignment`, `LockPublished`, `SetMechanics`, `SaveContent`,
`ImportCapstone`, and `Upload` for the bucket. `WithReleases` is the rule that a
release which is unlocked publishes and unlocks its challenge.

*Jobs.* `StartImport`, `StartSync` (all items of a course at once) and
`StartDeckLock` read; `ListBucket` lists, with the difference between an import,
which throws without files, and a sync, which skips or takes other files for
release files; `WriteReleases`, `WriteDeck` and `WriteDeckLock` write what was
computed from the document that was read. `JobFails` ends a job at any await.

*Views.* `Listed`, `Accessible` and `DiagnosedVisible` translate the listing's
filter, the check before an answer or save, and the instructors' diagnostics,
each from its own code.

*Abstractions.* An item keeps its type: an upsert or a capstone import that turns an
existing item into one of another type is left out.

### How `Squads` corresponds to the code

*State.* `member` is `squadId` on the users, `squads` the squads by name (with or
without a number), `attempts`, `progress` and `score` the documents of one
squad-scored item, `tag` the squad on a learner's own progress and publish
records, `released` the questions in learners' views. `given` and `stirred` are
history: squads that a learner was ever assigned to, and squads somebody joined
or left (or for which questions were locked).

*Membership.* `Launch` and `SyncRoster` with `TakeEnrollment` read a user,
`WriteUser` writes the squad back as it was read (`upsertUser`). `Assign` goes on
with `FindSquad`, `CreateNumbered` (`ensureNumberedSquad`, whose insert fails when
the name is taken), `WriteSquad` and `Carry`, the four concurrent updates of
`carryLearnerSquadHistory`.

*Work.* `Answer` with `Insert`, `Save` and `SubmitScore` go on with `FindProgress`
and `WriteProgress` (`upsertSquadContentProgress`, with the no-op of an unchanged
autosave), then `EvaluateSquad`, the second save, `ListMembers` and one
`SaveMember` per member at the same time. `Fail` rejects one call.

*Abstractions.* Every question is required and worth a point (other policies are
in `CompletionPolicy`); attempt limits and the instructor's grades are in
`Submission`; whether an autosave changes nothing is decided by its answers, because
one that brings only a percentage may or may not bring the saved one; carried history and the scores are of one item.

## 3. Runs

| Run | Question | Expected |
|---|---|---|
| `ags_race` | do two unclaimed processors, a finalizing request with two payloads and retention ever corrupt the log, the schedule or a claim of delivery? | pass |
| `ags_fault` | the same for direct submissions with tokens, backfill and in-memory jobs, when any database call may fail | pass |
| `ags_live` | does every queued attempt settle, with a crash at any point and learners who move away; is a published attempt ever reopened by a lone processor? | pass |
| `ags_refines` | is every step of the detailed system, with all kinds of requests, launches, moves and a crash, a step of `GradeSync`? | pass |
| `ags_inline` | does a finalization record its score whether or not the LMS takes it, as the policy document says? | violated |
| `ags_repost` | is an already published score never posted again, as the README says? | violated |
| `submit_tabs` | do two overlapping requests ever give a score without the work or above the maximum, or leave complete work without a score, with failed calls too? | pass |
| `submit_serial` | with every kind of request, one at a time, and failed calls: is the score current, and does an assessment stay submitted? | pass |
| `submit_limit` | can a learner not exceed the attempt limit, as the policy document says? | violated |
| `submit_exhausted` | does a required question without a correct answer and without attempts left block completion, as the policy document says? | violated |
| `operations` | do attempts that throw let the others pass; with overlapping passes, a crash and a webhook that is late, repeated or lost: is what is announced, delivered, given up and linked true, and do all services settle? | pass |
| `course` | while edits, imports, syncs, launches, assignments and answers overlap: do learners see only what was opened, and do squads keep their answers and scores? | pass |

### What the properties say

* `PublishedWasDelivered`: a score or attempt that reads `published` (or was
  skipped as a duplicate) was accepted by the LMS with that payload.
* `QueueWithinBudget`: a pending row is scheduled; a failed one is scheduled
  exactly while its `retryCount` allows; an exhausted or finished one never is.
* `ScoreOutcomeRecorded`: a score with an AGS status has an attempt for that
  payload, unless retention deleted it.
* `ImplementsGradeSync`: the same promises as a refinement, so also about the
  order of the steps (log before show, delivery before "published").
* `QueuedEventuallySettles`, `PublishedNotReopened`: see `ags_live`.
* `ScoreNeedsWork`: a score that the questions gave stands for answered required
  questions, graded manual ones and correct must-pass ones.
* `CompleteIsScored`: when nothing runs and nothing failed, a complete assignment
  has a score, whoever finished last.
* `AttemptsWithinSlack`: the limit is exceeded by fewer attempts than there are
  concurrent requests.
* `ScoreWithinMaximum`: a score by questions is at most their points, though
  attempts and grades are read at different times and another request answers or
  grades between the two reads.
* `ScoreIsCurrent`, `AssessmentStaysSubmitted`: one request at a time; with overlap
  a slower request may save an older evaluation, and a late autosave may set a
  submitted assessment back, so `submit_tabs` checks neither.

* `QueueMoves`: attempts that throw stay at the head of the queue, but unless they
  fill a batch every other attempt is settled in the end. (When they fill it, nothing
  else is taken until retention deletes them or their users come back.)
* `DeadLetterEarned`, `DeliveredWasStored`: no notification is given up before as many
  posts as configured, or reads delivered without being stored, although passes
  overwrite each other (a slow failure may set a delivered one back to pending).
* `AnnouncedOnce`, `ExhaustionAnnounced`: what a pass counted goes to each sink in
  one notification, and without a crash it does go there.
* `PostsWithinBudget`: two overlapping passes post more often than the maximum, but
  at most `M(M+3)/2` times.
* `NotificationsSettle`: every notification is delivered or given up in the end.
* `LinkedIsSynced`, `ReportsSettle`: a linked report never counts as failed or
  pending; without faults report and Linear agree on what was filed.
* `StateConverges`: a linked report has the issue's newest state, or the call with
  it is on its way, unless a call came before the link, out of order or not at all.
* `GateAgrees`: three separately written checks of who sees an item agree.
* `ShownWasOpened`: whatever overlaps, learners see only items, releases and decks
  that somebody opened by hand.
* `HiddenStaysHidden`: an item none of whose releases was ever unlocked is open
  exactly when asked. (With one, the next import opens an item again that was locked
  or archived since.)
* `ImportsKeepLocks`: without overlap imports keep locks, and lock changes keep files.
* `SquadWasAssigned`: a launch with an old copy may put a learner back into a former
  squad, never into one that nobody assigned or that does not exist.
* `SquadCompleteIsScored`, `AnswersShown`: whichever members answer at once, complete
  work is scored, and no answer disappears from the members' view, although saves
  overwrite each other's answers.
* `SquadSharesScore`, `HistoryFollows`: one request at a time, members share a score
  and a learner's history is under the learner's squad; with overlap neither holds.
* `TypeOK`, `NotifyTypeOK`, `BugTypeOK`, `GateTypeOK`, `SquadsTypeOK`: the types, with
  the batch limit and "only challenges have releases" among them.

`PublishedNotReopened` holds for one processor and no failed call only: with two, the
slower one may write `failed` over `published`. `ags_race` has two and therefore checks the
properties that survive this.

### Findings

* `FinalizationRecordsScore` (policy document, "Final Score and AGS Timing"):
  when a launch context can be used, the code publishes inline and a failed post
  rejects the request before score and progress are written.
* `NoRepost` (README, "Identical already-published scores are not reposted"):
  a pass posts what it listed, without looking again.
* `AttemptLimitEnforced` (policy document, "Attempt Limits"): the limit is checked
  on a count that is older than the insert; two submissions at once both pass.
* `ExhaustedBlocksCompletion` (the same section): the evaluation lists exhausted
  questions but its status does not depend on them.

### Bounds

One subject (subjects share no state except the processors), one or two payloads
(two to tell "the same score" from "some score"), one running request, one or two
processors, two rows (`RowPool`), one in-memory job, one crash or one fault, a
retry limit of 1 or 2, the launch contexts that each cfg's `Grants` lists (one that can
post; none; one that can create line items but not post; one with a line item and no
scope), an operator who retries up to a `retryCount` of
`RetryCap`. With them a row is listed by two processors, published by one and
failed by the other, retried to exhaustion, deleted while a processor holds it,
and skipped as a duplicate; each of the mutants in `PROJECT.json` is caught
within them. The proofs need none of these bounds beyond their being numbers.

For `Submission`: two questions, one with one attempt that must be passed and one
that is graded manually, one point each; at most three attempts (`Pool`), two
requests in `submit_tabs`, one in `submit_serial`, one failed call in each, scores and grades of 1
2, so that a grade above the points is refused and a direct score may exceed the
points of the questions. With them a
limit is exceeded by a race, an answer and a grade overlap between the two lists
of an evaluation, a manual answer is given, graded and graded again, and a score
by questions replaces or is replaced by a direct one.

For `operations`: one processor with batches of two, three attempts, two retries, and
two upsets (moves of users, deletions, failed calls, crashes), so that attempts
that throw may fill a batch or not; for the notifications two passes, two sinks, one
exhaustion, two attempts per notification, batches of one (so that the second note
waits for a later pass) and one crash or failed write; two reports, two state changes of an issue, one fault.
Two passes that hold the same notification with the same count, and a third list
after one of them wrote, all occur. For `course`: one item from eight seeds (module
with a deck, instructors' draft, capstone, challenge with and without releases)
with two releases, two cohorts, three edits, two deck versions, three requests or
uploads that overlap or not (`overlap` is chosen at the start); two learners, two
squads, two questions, two attempts, and per behaviour one of the mixes in
`MCCourse`, which say which kinds of request it has, how many, and whether they
overlap or fail. They overlap memberships with each other and with answers, answers
with each other, with saves and with releases; direct scores run one at a time.

The services of `operations`, and those of `course`, share no state, so a run of all
their interleavings would only multiply them: `focus` chooses at the start which one
moves. Nothing is lost by that for invariants; for liveness the fairness is stated
for the steps of the one in focus.

Requests stop when rows or attempts are used up, so the instances may really stop:
deadlock is not checked.

### Fairness

`FairSpec` asserts weak fairness of the steps of a running request, processor and
job (an HTTP or database call answers or times out, and Node resumes the handler),
of `ListDue` (the maintenance timer fires at every interval and the scheduler
calls again) and of time passing. `ags_live` has automatic retry enabled, which is
when the timer processes the queue. Nothing requires anybody to start a request,
launch or retry by hand, and no strong fairness is used. A settled attempt includes
one whose user left the course: it stays due for ever in the code, and the
property says so.

`DueFairness` asserts weak fairness of a pass's own steps and of some date coming.
`NotifyFairness` asserts weak fairness of each pass's own steps (the interval starts
passes, their awaits end) and of the delays ending. Nothing makes a sink answer well
and nothing makes attempts exhausted. `BugFairness` asserts it of the steps of a
request that files a report; nothing is assumed of Linear's calls, so
`ReportsSettle` speaks of filing and `StateConverges` is an invariant.

## 4. Proofs

The proofs hold for all sets of subjects, payloads, requests, processors and
jobs, and for every retry configuration. They assume what the module assumes:
the bounds and the retry limit are naturals, `Assessments`, `Launchers` and `Movers` are
subsets of `Subjects`, `Grants` are sets of the three things a launch context gives, and `None` is none of the records.

* `TypeCorrect`: `Spec => []TypeOK`. `TypeOK` is not inductive: a processor that
  is about to post must hold a row. `TypeInv` adds `ProcessOK`, which says so.
* `PublishedIsDelivered`: `Spec => []PublishedWasDelivered`. The strengthening
  `DeliveredInv` also says what running processes know: one that is about to
  record "published" has seen the LMS accept exactly that payload. For a
  processor this payload is in its snapshot, so `IdInv` is needed: rows at or above
  `nextRow` are empty, and the row a snapshot was taken of is still that subject
  and payload or gone. No row is ever reused, so a write by id cannot hit another
  score.
* `QueueStaysWithinBudget`: `Spec => []QueueWithinBudget`. Each way to write a row
  (`NewRow`, `OutcomeRow`, `AttemptOutcome`) satisfies `WithinBudget` by itself;
  that is why a stale snapshot does no harm.
* `ScoreOutcomeIsRecorded`: `Spec => []ScoreOutcomeRecorded`. `LoggedInv` adds
  that a request or job about to save a score, and a processor's snapshot, is
  already logged; `LoggedGrows` says that the log, with what retention purged,
  only grows.
* `AgsPublishImplementsGradeSync`: `Spec => ImplementsGradeSync`. Under the two
  invariants every step maps to `Accept`, `Record`, `Show` or a stutter.

* `SubmissionTypeCorrect`: `Spec => []TypeOK`. `TypeInv` adds what a request holds
  in each place (`RequestOK`), that the times at or above `clock` are free and no
  two requests hold the same one (`TimesOK`), that everybody who counts will find a
  time (`TimeLeft`), and that grades are given to manual questions within their
  points (`GradesOK`).
* `AttemptsSlack`: `Spec => []AttemptsWithinSlack`. `SlackInv` counts the requests
  that are about to insert (`Inserting`) with the attempts: who passes the check
  adds one to the first, the insert moves one to the second.
* `ScoreEarned` and `ScoreBounded`: `Spec => []ScoreNeedsWork` and
  `Spec => []ScoreWithinMaximum`, both from `WorkInv`, which says the same of every
  request that is about to save a score. It is inductive because attempts and
  grades only grow (`WorkGrows`), so what an evaluation saw stays true, and because
  a listed attempt is graded for its own question (`CompleteMeansWork`,
  `TotalBound`). They hold for any number of requests and failures.

* `CompletedIsScored`: `Spec => []CompleteIsScored`, if there is a required question.
  `NoticeInv`: as long as nothing failed and complete work has no score, some request
  `Notices` it, because it is yet to list the attempts, has listed the latest, or is
  about to save a score. Every insert and every grade makes such a request, and
  listing grades after the latest attempts cannot miss completeness.

The theorems on `Submission` assume finite sets of questions and requests, at least
one request, and clients that send natural scores and sets of known questions.

* `NotifyTypeCorrect`, `DeadLettersEarned`, `DeliveriesStored` from `DeliveryInv`: what a
  pass holds is stored, and its counts are at most the posts so far; one that is
  about to mark a notification has just posted it (`Fits`). A count that is overwritten
  by an older one is therefore still earned.
* `AnnouncementsSingle` and `ExhaustionsAnnounced` from `AnnounceInv`: running passes
  have disjoint counts (`Apart`), and a pass no longer has the sinks for which its
  notification is stored (`Unannounced`). `Follows` and `Keeps` say what a step of one
  pass may change, so that only three steps need an argument.
* `BugTypeCorrect` and `LinkedStaysSynced` from `BugInv`: a request that stands in the
  middle has a pending report that is not linked, and calls are about issues that exist
  and never newer. `StatesConverge` adds `Fresh`: the newest state is in the
  report, on its way, missed, or is the first, which the link will bring.
* `GateTypeCorrect`, `ShownWasOpenedAlways` and `HiddenStaysHiddenAlways` from `GateInv`:
  each item shows only what was opened, an item with an opened release was opened and
  published itself (`ItemOK`), and jobs hold copies in which only what was opened is
  unlocked (`JobOK`). So a copy written back late undoes locks but opens nothing
  new. `GatesAgree` needs no invariant: it holds of every document.
* `ImportsKeepLocksAlways` from `LocksInv`: without overlap an item has one job at a
  time, the document that it read is still the stored one (`JobsCurrent`), and so what
  it writes back has the present locks.

The theorems of these modules hold for any number of sinks, passes, notifications,
reports, state changes, items, releases, cohorts, seeds, edits and faults.

* `PublishedStaysPublished`, for one processor and no failed database call. `OpenInv`:
  the processor holds each row once, and the rows it has yet to write are unsettled and
  have the `retryCount` of the snapshot. It is inductive because nobody else writes to
  a row that is in the queue (`RowChanges`): requests and jobs insert rows of their own,
  operators and time change dates. A second processor may write
  `failed` over `published`, and so does the lone one when a save of the score fails
  after `published` was written, because the `catch` records a failed attempt.
* `AssessmentsStaySubmitted` and `ScoresAreCurrent`, for one request at a time.
  `SubmittedInv`: once an assessment is submitted, the running request writes a submitted
  progress or none (`Harmless`). `CurrentInv`: what the request has listed, and the score
  it is about to save, are those of the latest attempts and grades (`UpToDate`), and if
  the saved score is older, the request will renew it (`Renews`).
* `PostsStayWithinBudget`. Without failed writes and restarts, the posts of a notification
  are charged to the two passes. `Share` is what a pass may still post of it: as many as
  its copy of the count allows, if it holds one, and otherwise as many as the stored count
  allows. `BudgetInv` bounds the posts `k` so far by the shares `x` and `y`: for either
  share `z`, `2(k + x + y) + z(z - 1)` is at most `M(M + 3)`, with 2 more for a post that
  is not counted yet. A pass that posts moves one from its share to `k`; a pass that
  writes an old count gives at most its own share back to the other, which `z(z - 1)`
  pays for. With no share left this is the bound.
* `SquadsTypeCorrect` from `TypeInv`, which adds what a request holds in each place and
  that each answer about to be inserted will find a time (`TimeLeft`).
* `SquadsAreAssigned` from `GivenInv`: the squad that a launch, a sync or an answer has
  read was given to that learner once, and an assignment that writes a user has found or
  created its squad. So a late write goes back to a former squad at worst.
* `CompletedSquadsAreScored` and `AnswersAreShown` speak of squads that nobody joined or
  left (`Still`). `StirredInv`: a request that knows its learner in another squad than
  the present one has seen both of them change. `NoticeInv`: as long as nothing failed,
  each member without a score for complete work has an answer that `Notices` it: it is
  yet to evaluate, or to save this member's score. `ShownInv`: answers of a squad without
  progress belong to a request that is about to write it; `FoundInv` says that a progress
  that was read stays, and the view adds to it what the attempts say.
* `HistoriesFollow` and `SquadsShareScores`, for mixes without overlap. `SerialInv`: one
  request runs, and what it has read is still so. `HistoryInv`: each record of a learner is
  under the learner's squad or in a collection that the running assignment has yet to
  carry (`MovesOn`). `ShareInv`: scores of members differ only while a request saves
  them, and those it has served have the score it saves.
* `DueTypeCorrect`, `OpenAttemptsAreScheduled` and `RetriesAreSpent` from `DueInv`, the
  conjunction of what they state: a batch is listed from open attempts, which have retries
  left, and a write by id schedules or settles whatever the attempt became meanwhile.
  `NothingOvertakesDue` is an action property: what is left of the queue keeps its order
  and what joins it joins at the end (`Queue_proofs`). These four are proved only; they
  are why `QueueMoves` can hold. A deleted attempt counts as settled.

The theorems on `Squads` hold for finite sets of learners and questions, any squads, and
any mixes; those on `Notifications` for finitely many passes. `None` is none of the
values it stands beside.

Every invariant and action property of the passing runs is a theorem. Checked by TLC
only: the liveness properties (`QueuedEventuallySettles`, `QueueMoves`,
`NotificationsSettle`, `ReportsSettle`), because fairness and ENABLED are beyond the
prover, and the four violated runs, which are counterexamples.

## 5. Plan

Done: passback (`AgsPublish`, `GradeSync`, `DueQueue`), submissions (`CompletionPolicy`,
`Submission`), `Notifications`, `BugReports`, `ContentGate`, `Squads`, and the
theorems above. What is left, in the order of what it would add:

1. Theorems about `CompletionPolicy` by itself: what an evaluation does with a question
   more or an answer more.
2. The identity of line items: two first publishes that both create one.
3. Duplicate pending rows of one payload, and the order of payloads in the LMS.

## 6. Not modelled

* Routes, validation, role checks, sessions, keys, deep linking, configuration:
  they keep no state that a property could be about. The models start where a route
  calls a service, with inputs that validation lets through.
* Claims and signatures of a launch, role changes, token and line item requests:
  one-call clients, whose failures are the error outcomes of a post.
* Analytics, CSV export, diagnostics (but for the visibility they report) and audit:
  reads, or appends that nothing reads back.
* Seeds, question bank import and migrations: sequential programs run by hand against
  a quiet database.
* The length of delays; the course that an instructor's pass is limited to; manual
  grades of a squad's questions; how often one attempt is counted as
  exhausted (`Notifications` takes each count for an exhaustion).
* Proofs about liveness and ENABLED, which the prover does not have.
