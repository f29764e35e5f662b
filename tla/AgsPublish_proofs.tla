-------------------------- MODULE AgsPublish_proofs --------------------------
(***************************************************************************)
(* Proofs about AgsPublish, for every number of subjects, payloads,        *)
(* requests, processors, rows, crashes and faults.                         *)
(***************************************************************************)
EXTENDS AgsPublish, TLAPS

(* A processor that is working on a row holds a snapshot of it; a score is *)
(* echoed or saved by a job only after a call that did not fail.           *)
ProcessOK ==
    /\ \A w \in Workers : worker[w] # None =>
          /\ worker[w].pc # "next" => worker[w].cur \in Snapshot
          /\ worker[w].pc = "echo" => worker[w].out # "error"
    /\ \A j \in JobSlots : job[j] # None /\ job[j].pc = "save" => job[j].out # "error"

TypeInv == TypeOK /\ ProcessOK

-----------------------------------------------------------------------------
LEMMA TypeInvInit == Init => TypeInv
<1> SUFFICES ASSUME Init PROVE TypeInv
  OBVIOUS
<1>1. \A g \in Grants, i \in {{}, {"item"}} : g \cup i \in SUBSET Access
  BY ScopeAssumption DEF Access, Granted
<1>2. access \in [Subjects -> SUBSET Access]
  BY <1>1 DEF Init
<1> QED BY <1>2, BoundsAssumption DEF Init, TypeInv, TypeOK, ProcessOK, RowIds

LEMMA StartTypeInv ==
  ASSUME TypeInv, NEW r \in Requests, Start(r)
  PROVE  TypeInv'
<1> USE DEF Begin, Request, RequestKinds, ScoreStatuses, Outcomes,
            TypeInv, TypeOK, ProcessOK, context, queue, records, budget
<1> PICK s \in Subjects, p \in Payloads :
       \/ Finalize(r, s, p)
       \/ SubmitPartial(r, s, p)
       \/ PropagateToMember(r, s, p)
       \/ \E t \in Tokens : SubmitScore(r, s, p, t) \/ BackfillList(r, s, p, t)
  BY DEF Start
<1>1. CASE Finalize(r, s, p)
  BY <1>1 DEF Finalize
<1>2. CASE SubmitPartial(r, s, p)
  BY <1>2 DEF SubmitPartial
<1>3. CASE PropagateToMember(r, s, p)
  BY <1>3 DEF PropagateToMember
<1>4. CASE \E t \in Tokens : SubmitScore(r, s, p, t)
  BY <1>4, ScopeAssumption DEF SubmitScore
<1>5. CASE \E t \in Tokens : BackfillList(r, s, p, t)
  BY <1>5, ScopeAssumption DEF BackfillList
<1> QED BY <1>1, <1>2, <1>3, <1>4, <1>5

LEMMA SeenType == \A out \in Posted : Seen(out) \in Outcomes
  BY DEF Seen, Posted, Outcomes

LEMMA InsertTypes ==
  ASSUME NEW row \in Row, Insert(row),
         rows \in [RowIds -> Row \cup {None}], nextRow \in 1..(RowPool + 1)
  PROVE  rows' \in [RowIds -> Row \cup {None}] /\ nextRow' \in 1..(RowPool + 1)
  BY BoundsAssumption DEF Insert, RowIds

(* A post keeps the types of what it touches. *)
LEMMA DeliverTypes ==
  ASSUME NEW s \in Subjects, NEW p \in Payloads, NEW out,
         posts \in [Subjects -> [Payloads -> 0..2]], Deliver(s, p, out)
  PROVE  posts' \in [Subjects -> [Payloads -> 0..2]]
  BY DEF Deliver

LEMMA SendTypes ==
  ASSUME NEW s \in Subjects, NEW p \in Payloads, NEW token, NEW line, NEW out,
         posts \in [Subjects -> [Payloads -> 0..2]],
         access \in [Subjects -> SUBSET Access],
         Send(s, p, token, line, out)
  PROVE  posts' \in [Subjects -> [Payloads -> 0..2]] /\ access' \in [Subjects -> SUBSET Access]
<1>1. posts' \in [Subjects -> [Payloads -> 0..2]]
  BY DeliverTypes DEF Send
<1>2. access' \in [Subjects -> SUBSET Access]
  BY DEF Send, CreateLineItem, Access
<1> QED BY <1>1, <1>2

(* Whether a row records a line item is a matter of the access at hand. *)
LEMMA LineTypes ==
  ASSUME NEW r \in Requests
  PROVE  HasLine(req[r].subject) \in BOOLEAN /\ RecordedLine(r) \in BOOLEAN
  BY DEF HasLine, RecordedLine

(* A job that is scheduled is a timer that has not failed yet. *)
LEMMA NextJobType ==
  ASSUME NEW s \in Subjects, NEW p \in Payloads, NEW n \in Nat, NEW line \in BOOLEAN
  PROVE  NextJob(s, p, n, line) # None =>
            NextJob(s, p, n, line) \in Job /\ NextJob(s, p, n, line).pc = "timer"
  BY DEF NextJob, Job, Outcomes

LEMMA ScheduleTypes ==
  ASSUME NEW s \in Subjects, NEW p \in Payloads,
         job \in [JobSlots -> Job \cup {None}],
         \A j \in JobSlots : job[j] # None /\ job[j].pc = "save" => job[j].out # "error",
         UNCHANGED job \/ \E line \in BOOLEAN : Schedule(s, p, 0, line)
  PROVE  /\ job' \in [JobSlots -> Job \cup {None}]
         /\ \A j \in JobSlots : job'[j] # None /\ job'[j].pc = "save" => job'[j].out # "error"
<1>1. CASE UNCHANGED job
  BY <1>1
<1>2. CASE \E line \in BOOLEAN : Schedule(s, p, 0, line)
  <2> PICK line \in BOOLEAN : Schedule(s, p, 0, line)
    BY <1>2
  <2> DEFINE new == NextJob(s, p, 0, line)
  <2>1. new # None => new \in Job /\ new.pc = "timer"
    BY NextJobType
  <2> HIDE DEF new
  <2>2. UNCHANGED job \/ (new # None /\ \E j \in JobSlots : job' = [job EXCEPT ![j] = new])
    BY DEF Schedule, new
  <2> QED BY <2>1, <2>2
<1> QED BY <1>1, <1>2

(* Routing keeps what a request is about and leaves nothing it has found out. *)
LEMMA RouteStep ==
  ASSUME req \in [Requests -> Request \cup {None}], NEW r \in Requests, Route(r)
  PROVE  \E x \in Request :
            /\ req' = [req EXCEPT ![r] = x]
            /\ x.subject = req[r].subject /\ x.payload = req[r].payload
            /\ x.status = req[r].status /\ x.out = "error"
            /\ x.pc \in {"find", "record", "send"}
<1>1. PICK l \in BOOLEAN, usable \in BOOLEAN :
         LET s == req[r].subject
             operator == req[r].token
             known == HasLine(s) \/ l
             queued == known /\ ~usable /\ "score" \notin access[s]
             refused == known /\ operator /\ ~usable
         IN /\ l \/ usable => operator
            /\ req' = [req EXCEPT ![r].pc = IF queued THEN "find"
                                            ELSE IF refused THEN "record" ELSE "send",
                                  ![r].line = known,
                                  ![r].token = known /\ usable,
                                  ![r].out = "error"]
  BY DEF Route
<1> DEFINE s == req[r].subject
           line == HasLine(s) \/ l
           token == line /\ usable
           pc == IF line /\ ~usable /\ "score" \notin access[s] THEN "find"
                 ELSE IF line /\ req[r].token /\ ~usable THEN "record" ELSE "send"
           x == [req[r] EXCEPT !.pc = pc, !.line = line, !.token = token, !.out = "error"]
<1>2. req[r] \in Request
  BY DEF Route
<1>3. req' = [req EXCEPT ![r] = x]
  BY <1>1, Zenon
<1>4. pc \in {"find", "record", "send"}
  OBVIOUS
<1>5. line \in BOOLEAN /\ token \in BOOLEAN
  BY Zenon DEF HasLine
<1> HIDE DEF pc, line, token
<1>6. /\ x \in Request
      /\ x.subject = req[r].subject /\ x.payload = req[r].payload
      /\ x.status = req[r].status /\ x.out = "error" /\ x.pc = pc
  BY <1>2, <1>4, <1>5 DEF Request, Outcomes
<1> HIDE DEF x
<1> QED BY <1>3, <1>4, <1>6

\* A failed post with a token of the caller's schedules a retry job.
LEMMA RecordSchedules ==
  ASSUME NEW r \in Requests, PublishRecord(r)
  PROVE  \/ UNCHANGED job
         \/ \E line \in BOOLEAN : Schedule(req[r].subject, req[r].payload, 0, line)
  BY DEF PublishRecord

LEMMA RequestTypeInv ==
  ASSUME TypeInv, NEW r \in Requests, RequestStep(r)
  PROVE  TypeInv'
<1>0. /\ req \in [Requests -> Request \cup {None}]
      /\ rows \in [RowIds -> Row \cup {None}]
      /\ nextRow \in 1..(RowPool + 1)
  BY DEF TypeInv, TypeOK
<1> USE DEF context, queue, records, budget
<1>1. CASE BackfillCheck(r) \/ Route(r) \/ FindPending(r) \/ Respond(r)
  <2>1. req' \in [Requests -> Request \cup {None}]
    <3>1. CASE Route(r)
      <4>1. PICK x \in Request : req' = [req EXCEPT ![r] = x]
        BY <1>0, <3>1, RouteStep
      <4> QED BY <1>0, <4>1
    <3>2. CASE BackfillCheck(r) \/ FindPending(r) \/ Respond(r)
      BY <1>0, <3>2 DEF BackfillCheck, FindPending, Respond, Goto, Request
    <3> QED BY <1>1, <3>1, <3>2
  <2> QED
    BY <1>1, <2>1 DEF BackfillCheck, Route, FindPending, Respond, TypeInv, TypeOK, ProcessOK
<1>2. CASE RecordSkip(r) \/ InsertPending(r)
  <2>1. req' \in [Requests -> Request \cup {None}]
    <3>1. req[r] \in Request
      BY <1>0, <1>2 DEF RecordSkip, InsertPending
    <3>2. /\ [req[r] EXCEPT !.pc = "save", !.status = "published"] \in Request
          /\ [req[r] EXCEPT !.pc = "save"] \in Request
      BY <3>1 DEF Request, ScoreStatuses
    <3>3. \/ req' = [req EXCEPT ![r].pc = "save", ![r].status = "published"]
          \/ req' = [req EXCEPT ![r].pc = "save"]
      BY <1>2 DEF RecordSkip, InsertPending, Goto
    <3> QED BY <1>0, <3>1, <3>2, <3>3
  <2>2. \A st \in {"skipped_duplicate", "pending"}, at \in {"unset", "due"} :
          \A line \in BOOLEAN : NewRow(req[r].subject, req[r].payload, st, 0, at, line) \in Row
    BY <1>0, <1>2 DEF RecordSkip, InsertPending, NewRow, Row, RowStatuses, Request
  <2>3. \E row \in Row : Insert(row)
    BY <1>2, <2>2, LineTypes DEF RecordSkip, InsertPending
  <2>4. rows' \in [RowIds -> Row \cup {None}] /\ nextRow' \in 1..(RowPool + 1)
    BY <1>0, <2>3, InsertTypes
  <2> QED
    BY <1>2, <2>1, <2>4 DEF RecordSkip, InsertPending, Insert, TypeInv, TypeOK, ProcessOK
<1>3. CASE \E out \in Posted : PublishSend(r, out)
  <2> PICK out \in Posted : PublishSend(r, out)
    BY <1>3
  <2>1. req' \in [Requests -> Request \cup {None}]
    <3> DEFINE x == [req[r] EXCEPT !.pc = "record", !.out = Seen(out)]
    <3>1. x \in Request
      BY <1>0, SeenType DEF PublishSend, Request
    <3>2. req' = [req EXCEPT ![r] = x]
      BY DEF PublishSend
    <3> QED BY <1>0, <3>1, <3>2
  <2>2. req[r].subject \in Subjects /\ req[r].payload \in Payloads
    BY <1>0 DEF PublishSend, Request
  <2>3. posts' \in [Subjects -> [Payloads -> 0..2]] /\ access' \in [Subjects -> SUBSET Access]
    BY <2>2, SendTypes DEF PublishSend, TypeInv, TypeOK
  <2> QED
    BY <2>1, <2>3 DEF PublishSend, Send, TypeInv, TypeOK, ProcessOK
<1>4. CASE PublishRecord(r)
  <2> DEFINE s == req[r].subject
             p == req[r].payload
             out == req[r].out
  <2>1. s \in Subjects /\ p \in Payloads /\ out \in Outcomes
    BY <1>0, <1>4 DEF PublishRecord, Request
  <2>2. OutcomeRow(s, p, out, 0, FailureStatus(0), RecordedLine(r)) \in Row
    BY <2>1, LineTypes
       DEF OutcomeRow, NewRow, FailureStatus, NextRetryAt, Row, RowStatuses, Outcomes
  <2>3. rows' \in [RowIds -> Row \cup {None}] /\ nextRow' \in 1..(RowPool + 1)
    BY <1>0, <1>4, <2>2, InsertTypes DEF PublishRecord
  <2>4. req' \in [Requests -> Request \cup {None}]
    BY <1>0, <1>4 DEF PublishRecord, Goto, Request, Outcomes, ScoreStatuses
  <2>5. UNCHANGED job \/ \E line \in BOOLEAN : Schedule(s, p, 0, line)
    BY <1>4, RecordSchedules
  <2>6. /\ job' \in [JobSlots -> Job \cup {None}]
        /\ \A j \in JobSlots : job'[j] # None /\ job'[j].pc = "save" => job'[j].out # "error"
    BY <2>1, <2>5, ScheduleTypes DEF TypeInv, TypeOK, ProcessOK
  <2> QED BY <1>4, <2>3, <2>4, <2>6 DEF PublishRecord, Insert, TypeInv, TypeOK, ProcessOK
<1>5. CASE SaveScore(r)
  <2>1. req' \in [Requests -> Request \cup {None}]
    BY <1>0, <1>5 DEF SaveScore, Request
  <2>2. scores' \in [Subjects -> Score \cup {None}]
    BY <1>0, <1>5 DEF SaveScore, UpsertScore, Request, Score, TypeInv, TypeOK
  <2> QED BY <1>5, <2>1, <2>2 DEF SaveScore, TypeInv, TypeOK, ProcessOK
<1>6. CASE SaveProgress(r)
  <2>1. req' \in [Requests -> Request \cup {None}]
    BY <1>0, <1>6 DEF SaveProgress, Request
  <2>2. progress' \in [Subjects -> Payloads \cup {None}]
    BY <1>0, <1>6 DEF SaveProgress, Request, TypeInv, TypeOK
  <2> QED BY <1>6, <2>1, <2>2 DEF SaveProgress, TypeInv, TypeOK, ProcessOK
<1> QED
  BY <1>1, <1>2, <1>3, <1>4, <1>5, <1>6 DEF RequestStep

(* What a processor may be in a state that satisfies TypeInv. *)
Processing == {x \in Processor : /\ x.pc # "next" => x.cur \in Snapshot
                                 /\ x.pc = "echo" => x.out # "error"}

LEMMA AfterScoreType ==
  ASSUME NEW x \in Processing, x.pc \in {"outcome", "score"}
  PROVE  AfterScore(x) \in Processing \cup {None}
  BY DEF AfterScore, Abandon, Processing, Processor

LEMMA FaultedType ==
  ASSUME NEW x \in Processing, x.pc # "next", NEW y \in Faulted(x)
  PROVE  y \in Processing \cup {None}
<1>1. /\ x.pc \in {"send", "outcome", "score", "echo"}
      /\ x.pc # "send" /\ x.pc # "echo" => x.pc \in {"outcome", "score"}
  BY DEF Processing, Processor
<1>2. y = None \/ y = Abandon(x) \/ y = [x EXCEPT !.pc = "outcome", !.out = "error"]
  BY <1>1 DEF Faulted
<1>3. Abandon(x) \in Processing \cup {None}
  BY DEF Abandon, Processing, Processor
<1>4. [x EXCEPT !.pc = "outcome", !.out = "error"] \in Processing
  BY DEF Processing, Processor, Outcomes
<1> QED BY <1>2, <1>3, <1>4

LEMMA WorkerTypeInv ==
  ASSUME TypeInv, NEW w \in Workers,
         WorkerStep(w) \/ \E i \in RowIds, t \in Tokens : RetryOne(w, i, t)
  PROVE  TypeInv'
<1>0. /\ worker \in [Workers -> Processing \cup {None}]
      /\ rows \in [RowIds -> Row \cup {None}]
  BY DEF TypeInv, TypeOK, ProcessOK, Processing
<1> USE DEF context, queue, records, budget
<1>1. CASE ListDue(w)
  <2> DEFINE batch == {[id |-> i, row |-> rows[i]] : i \in Due}
  <2>1. batch \subseteq Snapshot
    BY <1>0 DEF Due, Snapshot
  <2> HIDE DEF batch
  <2>2. worker' = [worker EXCEPT ![w] =
                    [pc |-> "next", batch |-> batch,
                     cur |-> None, token |-> FALSE, single |-> FALSE, out |-> "error"]]
    BY <1>1 DEF ListDue, batch
  <2>3. worker' \in [Workers -> Processing \cup {None}]
    BY <1>0, <2>1, <2>2 DEF Processing, Processor, Outcomes
  <2> QED BY <1>1, <2>3 DEF ListDue, TypeInv, TypeOK, ProcessOK, Processing
<1>2. CASE TakeNext(w)
  <2> PICK b \in worker[w].batch :
         worker' = [worker EXCEPT ![w].batch = @ \ {b},
                                  ![w].cur = IF enrolled[b.row.subject] THEN b ELSE None,
                                  ![w].pc = IF enrolled[b.row.subject] THEN "send" ELSE "next"]
    BY <1>2 DEF TakeNext
  <2> DEFINE x == [worker[w] EXCEPT !.batch = @ \ {b},
                                    !.cur = IF enrolled[b.row.subject] THEN b ELSE None,
                                    !.pc = IF enrolled[b.row.subject] THEN "send" ELSE "next"]
  <2>1. worker[w] \in Processor /\ b \in Snapshot
    BY <1>0, <1>2 DEF TakeNext, Processing, Processor
  <2>2. x \in Processing
    <3>1. CASE enrolled[b.row.subject]
      BY <2>1, <3>1 DEF Processing, Processor
    <3>2. CASE ~enrolled[b.row.subject]
      BY <2>1, <3>2 DEF Processing, Processor
    <3> QED BY <3>1, <3>2
  <2>3. worker' = [worker EXCEPT ![w] = x]
    OBVIOUS
  <2>4. worker' \in [Workers -> Processing \cup {None}]
    BY <1>0, <2>2, <2>3
  <2> QED BY <1>2, <2>4 DEF TakeNext, TypeInv, TypeOK, ProcessOK, Processing
<1>7. CASE EndPass(w)
  <2>1. worker' \in [Workers -> Processing \cup {None}]
    BY <1>0, <1>7 DEF EndPass
  <2> QED BY <1>7, <2>1 DEF EndPass, TypeInv, TypeOK, ProcessOK, Processing
<1>3. CASE \E i \in RowIds, t \in Tokens : RetryOne(w, i, t)
  <2> PICK i \in RowIds, t \in Tokens : RetryOne(w, i, t)
    BY <1>3
  <2> DEFINE cur == [id |-> i, row |-> rows[i]]
  <2>1. cur \in Snapshot /\ t \in BOOLEAN
    BY <1>0, ScopeAssumption DEF RetryOne, Snapshot
  <2> HIDE DEF cur
  <2>2. worker' = [worker EXCEPT ![w] =
                    [pc |-> "send", batch |-> {}, cur |-> cur,
                     token |-> t, single |-> TRUE, out |-> "error"]]
    BY DEF RetryOne, cur
  <2>3. worker' \in [Workers -> Processing \cup {None}]
    BY <1>0, <2>1, <2>2 DEF Processing, Processor, Outcomes
  <2> QED BY <2>3 DEF RetryOne, TypeInv, TypeOK, ProcessOK, Processing
<1>4. CASE \E out \in Posted : AttemptSend(w, out)
  <2> PICK out \in Posted : AttemptSend(w, out)
    BY <1>4
  <2>1. worker' \in [Workers -> Processing \cup {None}]
    <3> DEFINE x == [worker[w] EXCEPT !.pc = "outcome", !.out = Seen(out)]
    <3>1. x \in Processing
      BY <1>0, SeenType DEF AttemptSend, Processing, Processor
    <3>2. worker' = [worker EXCEPT ![w] = x]
      BY DEF AttemptSend
    <3> QED BY <1>0, <3>1, <3>2
  <2>2. worker[w].cur.row.subject \in Subjects /\ worker[w].cur.row.payload \in Payloads
    BY <1>0 DEF AttemptSend, Processing, Snapshot, Row
  <2>3. posts' \in [Subjects -> [Payloads -> 0..2]] /\ access' \in [Subjects -> SUBSET Access]
    BY <2>2, SendTypes DEF AttemptSend, TypeInv, TypeOK
  <2> QED
    BY <2>1, <2>3 DEF AttemptSend, Send, TypeInv, TypeOK, ProcessOK, Processing
<1>5. CASE WriteOutcome(w)
  <2>1. worker' \in [Workers -> Processing \cup {None}]
    BY <1>0, <1>5 DEF WriteOutcome, Processing, Processor
  <2> DEFINE i == worker[w].cur.id
             n == worker[w].cur.row.retryCount + 1
  <2>2. i \in RowIds /\ n \in Nat /\ worker[w].out \in Outcomes
    BY <1>0, <1>5 DEF WriteOutcome, Processing, Processor, Snapshot, Row
  <2>3. \A row \in Row : AttemptOutcome(row, worker[w].out, n) \in Row
    BY <2>2 DEF AttemptOutcome, FailureStatus, NextRetryAt, Row, RowStatuses, Outcomes
  <2>4. rows' \in [RowIds -> Row \cup {None}]
    BY <1>0, <1>5, <2>2, <2>3 DEF WriteOutcome
  <2> QED BY <1>5, <2>1, <2>4 DEF WriteOutcome, TypeInv, TypeOK, ProcessOK, Processing
<1>6. CASE WriteScore(w) \/ EchoScore(w)
  <2>1. worker' \in [Workers -> Processing \cup {None}]
    <3>1. worker[w] \in Processing /\ (WriteScore(w) => worker[w].pc = "score")
      BY <1>0, <1>6 DEF WriteScore, EchoScore
    <3>2. WriteScore(w) => AfterScore(worker[w]) \in Processing \cup {None}
      BY <3>1, AfterScoreType
    <3> QED BY <1>0, <1>6, <3>2 DEF WriteScore, EchoScore
  <2>2. /\ worker[w].cur.row.subject \in Subjects
        /\ worker[w].cur.row.payload \in Payloads
        /\ worker[w].out \in Outcomes
    BY <1>0, <1>6 DEF WriteScore, EchoScore, Processing, Processor, Snapshot, Row
  <2>3. \E s \in Subjects, p \in Payloads, st \in ScoreStatuses : UpsertScore(s, p, st)
    <3>1. CASE WriteScore(w)
      <4> DEFINE st == IF worker[w].out = "error" THEN "failed" ELSE worker[w].out
      <4>1. st \in ScoreStatuses
        BY <2>2 DEF Outcomes, ScoreStatuses
      <4> QED BY <2>2, <3>1, <4>1 DEF WriteScore
    <3>2. CASE EchoScore(w)
      <4>1. worker[w].out \in ScoreStatuses
        BY <1>0, <2>2, <3>2 DEF EchoScore, Processing, Outcomes, ScoreStatuses
      <4> QED BY <2>2, <3>2, <4>1 DEF EchoScore
    <3> QED BY <1>6, <3>1, <3>2
  <2>4. scores' \in [Subjects -> Score \cup {None}]
    BY <2>3 DEF UpsertScore, Score, TypeInv, TypeOK
  <2> QED
    BY <1>6, <2>1, <2>4 DEF WriteScore, EchoScore, TypeInv, TypeOK, ProcessOK, Processing
<1> QED
  BY <1>1, <1>2, <1>3, <1>4, <1>5, <1>6, <1>7 DEF WorkerStep

(* What an in-memory job may be in a state that satisfies TypeInv. *)
Retrying == {x \in Job : x.pc = "save" => x.out # "error"}

LEMMA JobTypeInv ==
  ASSUME TypeInv, NEW j \in JobSlots, JobStep(j)
  PROVE  TypeInv'
<1>0. job \in [JobSlots -> Retrying \cup {None}]
  BY DEF TypeInv, TypeOK, ProcessOK, Retrying
<1> USE DEF context, queue, records, budget
<1>1. CASE \E out \in Posted : JobSend(j, out)
  <2> PICK out \in Posted : JobSend(j, out)
    BY <1>1
  <2>1. job' \in [JobSlots -> Retrying \cup {None}]
    BY <1>0, SeenType DEF JobSend, Retrying, Job
  <2>2. job[j].subject \in Subjects /\ job[j].payload \in Payloads
    BY <1>0 DEF JobSend, Retrying, Job
  <2>3. posts' \in [Subjects -> [Payloads -> 0..2]]
    BY <2>2, DeliverTypes DEF JobSend, TypeInv, TypeOK
  <2> QED BY <2>1, <2>3 DEF JobSend, TypeInv, TypeOK, ProcessOK, Retrying
<1>2. CASE JobRecord(j)
  <2> DEFINE s == job[j].subject
             p == job[j].payload
             n == job[j].count
             next == NextJob(s, p, n, job[j].line)
  <2>1. s \in Subjects /\ p \in Payloads /\ n \in Nat
        /\ job[j].out \in Outcomes /\ job[j].line \in BOOLEAN
    BY <1>0, <1>2 DEF JobRecord, Retrying, Job
  <2>2. OutcomeRow(s, p, job[j].out, n, "failed", job[j].line) \in Row
    BY <2>1 DEF OutcomeRow, NewRow, NextRetryAt, Row, RowStatuses, Outcomes
  <2>3. rows' \in [RowIds -> Row \cup {None}] /\ nextRow' \in 1..(RowPool + 1)
    BY <1>2, <2>2, InsertTypes DEF JobRecord, TypeInv, TypeOK
  <2>4. next # None => next \in Retrying
    BY <2>1, NextJobType DEF Retrying
  <2> HIDE DEF next
  <2>5. job' = [job EXCEPT ![j] = IF job[j].out = "error" THEN next
                                  ELSE [job[j] EXCEPT !.pc = "save"]]
    BY <1>2 DEF JobRecord, next
  <2>6. job' \in [JobSlots -> Retrying \cup {None}]
    BY <1>0, <1>2, <2>4, <2>5 DEF JobRecord, Retrying, Job
  <2> QED BY <1>2, <2>3, <2>6 DEF JobRecord, Insert, TypeInv, TypeOK, ProcessOK, Retrying
<1>3. CASE JobSave(j)
  <2>1. job' \in [JobSlots -> Retrying \cup {None}]
    BY <1>0, <1>3 DEF JobSave
  <2>2. \E s \in Subjects, p \in Payloads, st \in ScoreStatuses : UpsertScore(s, p, st)
    BY <1>0, <1>3 DEF JobSave, Retrying, Job, Outcomes, ScoreStatuses
  <2>3. scores' \in [Subjects -> Score \cup {None}]
    BY <2>2 DEF UpsertScore, Score, TypeInv, TypeOK
  <2> QED BY <1>3, <2>1, <2>3 DEF JobSave, TypeInv, TypeOK, ProcessOK, Retrying
<1> QED
  BY <1>1, <1>2, <1>3 DEF JobStep

LEMMA EnvironmentTypeInv ==
  ASSUME TypeInv, Environment
  PROVE  TypeInv'
<1>0. /\ rows \in [RowIds -> Row \cup {None}]
      /\ req \in [Requests -> Request \cup {None}]
      /\ worker \in [Workers -> Processing \cup {None}]
      /\ job \in [JobSlots -> Retrying \cup {None}]
  BY DEF TypeInv, TypeOK, ProcessOK, Processing, Retrying
<1> USE DEF context, queue, records, processes, budget
<1>1. CASE \E i \in RowIds : Elapse(i)
  <2>1. rows' \in [RowIds -> Row \cup {None}]
    BY <1>0, <1>1 DEF Elapse, Row
  <2> QED BY <1>1, <2>1 DEF Elapse, TypeInv, TypeOK, ProcessOK
<1>2. CASE \E k \in RowIds : Cleanup(k)
  <2> PICK k \in RowIds : Cleanup(k)
    BY <1>2
  <2>1. rows' \in [RowIds -> Row \cup {None}]
    BY <1>0 DEF Cleanup
  <2>2. \A i \in 1..k : i \in RowIds
    BY BoundsAssumption DEF RowIds
  <2>3. \A i \in RowIds : rows[i] # None => <<rows[i].subject, rows[i].payload>>
                                             \in Subjects \X Payloads
    BY <1>0 DEF Row
  <2>4. purged' \subseteq Subjects \X Payloads
    BY <2>2, <2>3 DEF Cleanup, TypeInv, TypeOK
  <2> QED BY <2>1, <2>4 DEF Cleanup, TypeInv, TypeOK, ProcessOK
<1>3. CASE \E s \in Movers : Transfer(s)
  BY <1>3 DEF Transfer, TypeInv, TypeOK, ProcessOK
<1>4. CASE \E s \in Launchers, granted \in Grants : Launch(s, granted)
  <2> PICK s \in Launchers, granted \in Grants : Launch(s, granted)
    BY <1>4
  <2> DEFINE new == granted \cup (access[s] \cap {"item"})
  <2>0. new \in SUBSET Access
    BY ScopeAssumption DEF Access, Granted
  <2>1. access' \in [Subjects -> SUBSET Access]
    BY <2>0 DEF Launch, TypeInv, TypeOK
  <2> HIDE DEF new
  <2> QED BY <1>4, <2>1 DEF Launch, TypeInv, TypeOK, ProcessOK
<1>5. CASE \E r \in Requests : RequestFault(r)
  <2>1. req' \in [Requests -> Request \cup {None}]
    <3> PICK r \in Requests : RequestFault(r)
      BY <1>5
    <3> DEFINE x == [req[r] EXCEPT !.pc = "record", !.out = "error"]
    <3>1. x \in Request
      BY <1>0 DEF RequestFault, Request, Outcomes
    <3>2. req' = [req EXCEPT ![r] = x] \/ req' = [req EXCEPT ![r] = None]
      BY DEF RequestFault
    <3> QED BY <1>0, <3>1, <3>2
  <2> QED
    BY <1>5, <2>1, BoundsAssumption DEF RequestFault, TypeInv, TypeOK, ProcessOK
<1>6. CASE \E w \in Workers : WorkerFault(w)
  <2>1. worker' \in [Workers -> Processing \cup {None}]
    <3> PICK w \in Workers : WorkerFault(w)
      BY <1>6
    <3>1. worker[w] \in Processing /\ worker[w].pc # "next"
      BY <1>0 DEF WorkerFault
    <3>2. PICK wk \in Faulted(worker[w]) : worker' = [worker EXCEPT ![w] = wk]
      BY DEF WorkerFault
    <3>3. wk \in Processing \cup {None}
      BY <3>1, FaultedType
    <3> QED BY <1>0, <3>2, <3>3
  <2> QED
    BY <1>6, <2>1, BoundsAssumption DEF WorkerFault, TypeInv, TypeOK, ProcessOK, Processing
<1>7. CASE \E j \in JobSlots : JobFault(j)
  <2>1. job' \in [JobSlots -> Retrying \cup {None}]
    BY <1>0, <1>7 DEF JobFault, Retrying, Job, Outcomes
  <2> QED
    BY <1>7, <2>1, BoundsAssumption DEF JobFault, TypeInv, TypeOK, ProcessOK, Retrying
<1>8. CASE Crash
  BY <1>8, BoundsAssumption DEF Crash, TypeInv, TypeOK, ProcessOK
<1> QED
  BY <1>1, <1>2, <1>3, <1>4, <1>5, <1>6, <1>7, <1>8 DEF Environment

LEMMA TypeInvStep ==
  ASSUME TypeInv, [Next]_vars
  PROVE  TypeInv'
<1>1. CASE UNCHANGED vars
  BY <1>1 DEF TypeInv, TypeOK, ProcessOK, vars, context, queue, records, processes, budget
<1>2. CASE Next
  BY <1>2, StartTypeInv, RequestTypeInv, WorkerTypeInv, JobTypeInv, EnvironmentTypeInv
     DEF Next
<1> QED BY <1>1, <1>2

\* Every variable keeps its type in every reachable state; a processor in the
\* middle of a row always holds the snapshot it works from.
THEOREM TypeCorrect == Spec => []TypeOK
<1>1. TypeInv /\ [Next]_vars => TypeInv'
  BY TypeInvStep
<1>2. TypeInv => TypeOK
  BY DEF TypeInv
<1> QED BY TypeInvInit, <1>1, <1>2, PTL DEF Spec

-----------------------------------------------------------------------------
(* What one step of AgsPublish can do to each variable, whoever takes it: the    *)
(* invariants below rest on these facts instead of a case split over all the      *)
(* actions each.                                                                 *)

Writer(w) == WorkerStep(w) \/ \E i \in RowIds, t \in Tokens : RetryOne(w, i, t)

\* Only its own requests, a fault or a crash change req.
LEMMA RequestFrame ==
  ASSUME [Next]_vars
  PROVE  \/ UNCHANGED req
         \/ Crash
         \/ \E r \in Requests : Start(r) \/ RequestStep(r) \/ RequestFault(r)
<1> USE DEF processes
<1>1. CASE UNCHANGED vars
  BY <1>1 DEF vars
<1>2. ASSUME NEW w \in Workers, Writer(w) PROVE UNCHANGED req
  BY <1>2 DEF Writer, WorkerStep, ListDue, TakeNext, EndPass, AttemptSend, WriteOutcome,
              WriteScore, EchoScore, RetryOne
<1>3. ASSUME NEW j \in JobSlots, JobStep(j) PROVE UNCHANGED req
  BY <1>3 DEF JobStep, JobSend, JobRecord, JobSave
<1>4. CASE Environment
  BY <1>4 DEF Environment, Elapse, Cleanup, Transfer, Launch, WorkerFault, JobFault
<1> QED BY <1>1, <1>2, <1>3, <1>4 DEF Next, Writer

LEMMA WorkerFrame ==
  ASSUME [Next]_vars
  PROVE  \/ UNCHANGED worker
         \/ Crash
         \/ \E w \in Workers : Writer(w) \/ WorkerFault(w)
<1> USE DEF processes
<1>1. CASE UNCHANGED vars
  BY <1>1 DEF vars
<1>2. ASSUME NEW r \in Requests, Start(r) \/ RequestStep(r) PROVE UNCHANGED worker
  <2>1. CASE Start(r)
    BY <2>1 DEF Start, Finalize, SubmitScore, SubmitPartial, PropagateToMember,
                BackfillList, Begin
  <2>2. CASE RequestStep(r)
    BY <2>2 DEF RequestStep, BackfillCheck, RecordSkip, Route, FindPending, InsertPending,
                PublishSend, PublishRecord, SaveScore, SaveProgress, Respond
  <2> QED BY <1>2, <2>1, <2>2
<1>3. ASSUME NEW j \in JobSlots, JobStep(j) PROVE UNCHANGED worker
  BY <1>3 DEF JobStep, JobSend, JobRecord, JobSave
<1>4. CASE Environment
  BY <1>4 DEF Environment, Elapse, Cleanup, Transfer, Launch, RequestFault, JobFault
<1> QED BY <1>1, <1>2, <1>3, <1>4 DEF Next, Writer

\* In-memory jobs change by their own steps, or are scheduled by a request.
LEMMA JobFrame ==
  ASSUME [Next]_vars
  PROVE  \/ UNCHANGED job
         \/ Crash
         \/ \E r \in Requests : PublishRecord(r)
         \/ \E j \in JobSlots : JobStep(j) \/ JobFault(j)
<1> USE DEF processes
<1>1. CASE UNCHANGED vars
  BY <1>1 DEF vars
<1>2. ASSUME NEW r \in Requests, Start(r) \/ RequestStep(r)
      PROVE UNCHANGED job \/ PublishRecord(r)
  <2>1. CASE Start(r)
    BY <2>1 DEF Start, Finalize, SubmitScore, SubmitPartial, PropagateToMember,
                BackfillList, Begin
  <2>2. CASE RequestStep(r)
    BY <2>2 DEF RequestStep, BackfillCheck, RecordSkip, Route, FindPending, InsertPending,
                PublishSend, SaveScore, SaveProgress, Respond
  <2> QED BY <1>2, <2>1, <2>2
<1>3. ASSUME NEW w \in Workers, Writer(w) PROVE UNCHANGED job
  BY <1>3 DEF Writer, WorkerStep, ListDue, TakeNext, EndPass, AttemptSend, WriteOutcome,
              WriteScore, EchoScore, RetryOne
<1>4. CASE Environment
  BY <1>4 DEF Environment, Elapse, Cleanup, Transfer, Launch, RequestFault, WorkerFault
<1> QED BY <1>1, <1>2, <1>3, <1>4 DEF Next, Writer

\* Scores are written by a request's save, a processor's score and echo, a job's save.
LEMMA ScoreFrame ==
  ASSUME [Next]_vars
  PROVE  \/ UNCHANGED scores
         \/ \E r \in Requests : SaveScore(r)
         \/ \E w \in Workers : WriteScore(w) \/ EchoScore(w)
         \/ \E j \in JobSlots : JobSave(j)
<1> USE DEF processes, records
<1>1. CASE UNCHANGED vars
  BY <1>1 DEF vars
<1>2. ASSUME NEW r \in Requests, Start(r) \/ RequestStep(r)
      PROVE UNCHANGED scores \/ SaveScore(r)
  <2>1. CASE Start(r)
    BY <2>1 DEF Start, Finalize, SubmitScore, SubmitPartial, PropagateToMember,
                BackfillList, Begin
  <2>2. CASE RequestStep(r)
    BY <2>2 DEF RequestStep, BackfillCheck, RecordSkip, Route, FindPending, InsertPending,
                PublishSend, PublishRecord, SaveProgress, Respond
  <2> QED BY <1>2, <2>1, <2>2
<1>3. ASSUME NEW w \in Workers, Writer(w) PROVE UNCHANGED scores \/ WriteScore(w) \/ EchoScore(w)
  BY <1>3 DEF Writer, WorkerStep, ListDue, TakeNext, EndPass, AttemptSend, WriteOutcome,
              RetryOne
<1>4. ASSUME NEW j \in JobSlots, JobStep(j) PROVE UNCHANGED scores \/ JobSave(j)
  BY <1>4 DEF JobStep, JobSend, JobRecord
<1>5. CASE Environment
  BY <1>5 DEF Environment, Elapse, Cleanup, Transfer, Launch, RequestFault, WorkerFault,
              JobFault, Crash
<1> QED BY <1>1, <1>2, <1>3, <1>4, <1>5 DEF Next, Writer

\* The queue changes by an insert, a new state of a row that is there, or retention.
QueueFrame ==
    \/ UNCHANGED queue
    \/ \E r \in Requests : RecordSkip(r) \/ InsertPending(r) \/ PublishRecord(r)
    \/ \E w \in Workers : WriteOutcome(w)
    \/ \E j \in JobSlots : JobRecord(j)
    \/ \E i \in RowIds : Elapse(i)
    \/ \E k \in RowIds : Cleanup(k)

LEMMA QueueChanges ==
  ASSUME [Next]_vars PROVE QueueFrame
<1> USE DEF processes, QueueFrame
<1>1. CASE UNCHANGED vars
  BY <1>1 DEF vars
<1>2. ASSUME NEW r \in Requests, Start(r) \/ RequestStep(r) PROVE QueueFrame
  <2>1. CASE Start(r)
    BY <2>1 DEF Start, Finalize, SubmitScore, SubmitPartial, PropagateToMember,
                BackfillList, Begin
  <2>2. CASE RequestStep(r)
    BY <2>2 DEF RequestStep, BackfillCheck, Route, FindPending,
                PublishSend, SaveScore, SaveProgress, Respond
  <2> QED BY <1>2, <2>1, <2>2
<1>3. ASSUME NEW w \in Workers, Writer(w) PROVE QueueFrame
  BY <1>3 DEF Writer, WorkerStep, ListDue, TakeNext, EndPass, AttemptSend,
              WriteScore, EchoScore, RetryOne
<1>4. ASSUME NEW j \in JobSlots, JobStep(j) PROVE QueueFrame
  BY <1>4 DEF JobStep, JobSend, JobSave
<1>5. CASE Environment
  BY <1>5 DEF Environment, Transfer, Launch, RequestFault, WorkerFault, JobFault, Crash
<1> QED BY <1>1, <1>2, <1>3, <1>4, <1>5 DEF Next, Writer

\* Posts change by one delivery of a send.
LEMMA PostFrame ==
  ASSUME [Next]_vars
  PROVE  \/ UNCHANGED posts
         \/ \E r \in Requests, out \in Posted : PublishSend(r, out)
         \/ \E w \in Workers, out \in Posted : AttemptSend(w, out)
         \/ \E j \in JobSlots, out \in Posted : JobSend(j, out)
<1> USE DEF processes
<1>1. CASE UNCHANGED vars
  BY <1>1 DEF vars
<1>2. ASSUME NEW r \in Requests, Start(r) \/ RequestStep(r)
      PROVE UNCHANGED posts \/ \E out \in Posted : PublishSend(r, out)
  <2>1. CASE Start(r)
    BY <2>1 DEF Start, Finalize, SubmitScore, SubmitPartial, PropagateToMember,
                BackfillList, Begin
  <2>2. CASE RequestStep(r)
    BY <2>2 DEF RequestStep, BackfillCheck, RecordSkip, Route, FindPending, InsertPending,
                PublishRecord, SaveScore, SaveProgress, Respond
  <2> QED BY <1>2, <2>1, <2>2
<1>3. ASSUME NEW w \in Workers, Writer(w)
      PROVE UNCHANGED posts \/ \E out \in Posted : AttemptSend(w, out)
  BY <1>3 DEF Writer, WorkerStep, ListDue, TakeNext, EndPass, WriteOutcome,
              WriteScore, EchoScore, RetryOne
<1>4. ASSUME NEW j \in JobSlots, JobStep(j)
      PROVE UNCHANGED posts \/ \E out \in Posted : JobSend(j, out)
  BY <1>4 DEF JobStep, JobRecord, JobSave
<1>5. CASE Environment
  BY <1>5 DEF Environment, Elapse, Cleanup, Transfer, Launch, RequestFault, WorkerFault,
              JobFault, Crash
<1> QED BY <1>1, <1>2, <1>3, <1>4, <1>5 DEF Next, Writer

-----------------------------------------------------------------------------
(* What PACT shows was delivered. Deliveries and log entries are never taken    *)
(* back, a row keeps its subject and payload under its id, so what a process     *)
(* learned about them before an await is still true when it writes its conclusion *)
(* after it.                                                                     *)

\* The snapshots a processor still has in its hands.
Held(x) == x.batch \cup ({x.cur} \ {None})

\* The row of a snapshot is still about the same score, or it is gone for good.
SameRow(b) ==
    /\ b.id < nextRow
    /\ rows[b.id] # None => /\ rows[b.id].subject = b.row.subject
                            /\ rows[b.id].payload = b.row.payload

IdInv ==
    /\ \A i \in RowIds : i >= nextRow => rows[i] = None
    /\ \A w \in Workers : worker[w] # None => \A b \in Held(worker[w]) : SameRow(b)

\* A row in a new state that is about the same score.
Rewrite(i, row) ==
    /\ rows[i] # None
    /\ row.subject = rows[i].subject /\ row.payload = rows[i].payload
    /\ rows' = [rows EXCEPT ![i] = row]
    /\ UNCHANGED <<nextRow, purged>>

-----------------------------------------------------------------------------
\* The outcome of a retry is stored in the row it was made for.
LEMMA AttemptOutcomeRow ==
  ASSUME NEW row \in Row, NEW n \in Nat, NEW out \in Outcomes
  PROVE  /\ AttemptOutcome(row, out, n) \in Row
         /\ AttemptOutcome(row, out, n).subject = row.subject
         /\ AttemptOutcome(row, out, n).payload = row.payload
<1>1. CASE out = "error"
  BY <1>1 DEF AttemptOutcome, FailureStatus, NextRetryAt, Row, RowStatuses
<1>2. CASE out # "error"
  BY <1>2 DEF AttemptOutcome, Row, RowStatuses, Outcomes
<1> QED BY <1>1, <1>2

LEMMA QueueMoves ==
  ASSUME TypeInv, [Next]_vars
  PROVE  \/ UNCHANGED queue
         \/ \E row \in Row : Insert(row)
         \/ \E i \in RowIds, row \in Row : Rewrite(i, row)
         \/ \E k \in RowIds : Cleanup(k)
<1>0. /\ rows \in [RowIds -> Row \cup {None}]
      /\ req \in [Requests -> Request \cup {None}]
      /\ worker \in [Workers -> Processing \cup {None}]
      /\ job \in [JobSlots -> Retrying \cup {None}]
  BY DEF TypeInv, TypeOK, ProcessOK, Processing, Retrying
<1>1. ASSUME NEW r \in Requests, RecordSkip(r) \/ InsertPending(r)
      PROVE  \E row \in Row : Insert(row)
  <2>1. \A st \in {"skipped_duplicate", "pending"}, at \in {"unset", "due"} :
          \A line \in BOOLEAN : NewRow(req[r].subject, req[r].payload, st, 0, at, line) \in Row
    BY <1>0, <1>1 DEF RecordSkip, InsertPending, NewRow, Row, RowStatuses, Request
  <2> QED BY <1>1, <2>1, LineTypes DEF RecordSkip, InsertPending
<1>2. ASSUME NEW r \in Requests, PublishRecord(r)
      PROVE  \E row \in Row : Insert(row)
  <2>1. req[r].subject \in Subjects /\ req[r].payload \in Payloads /\ req[r].out \in Outcomes
    BY <1>0, <1>2 DEF PublishRecord, Request
  <2>2. OutcomeRow(req[r].subject, req[r].payload, req[r].out,
                   0, FailureStatus(0), RecordedLine(r)) \in Row
    BY <2>1, LineTypes
       DEF OutcomeRow, NewRow, FailureStatus, NextRetryAt, Row, RowStatuses, Outcomes
  <2> QED BY <1>2, <2>2 DEF PublishRecord
<1>3. ASSUME NEW w \in Workers, WriteOutcome(w)
      PROVE  UNCHANGED queue \/ \E i \in RowIds, row \in Row : Rewrite(i, row)
  <2> DEFINE i == worker[w].cur.id
             n == worker[w].cur.row.retryCount + 1
             row == AttemptOutcome(rows[i], worker[w].out, n)
  <2>1. i \in RowIds /\ n \in Nat /\ worker[w].out \in Outcomes
    BY <1>0, <1>3 DEF WriteOutcome, Processing, Processor, Snapshot, Row
  <2>2. rows[i] # None => /\ row \in Row
                          /\ row.subject = rows[i].subject
                          /\ row.payload = rows[i].payload
    BY <1>0, <2>1, AttemptOutcomeRow
  <2>3. rows' = IF rows[i] = None THEN rows ELSE [rows EXCEPT ![i] = row]
    BY <1>3 DEF WriteOutcome
  <2> HIDE DEF row, n
  <2> QED BY <1>3, <2>1, <2>2, <2>3 DEF WriteOutcome, Rewrite, queue
<1>4. ASSUME NEW j \in JobSlots, JobRecord(j)
      PROVE  \E row \in Row : Insert(row)
  <2>1. /\ job[j].subject \in Subjects /\ job[j].payload \in Payloads
        /\ job[j].out \in Outcomes /\ job[j].count \in Nat /\ job[j].line \in BOOLEAN
    BY <1>0, <1>4 DEF JobRecord, Retrying, Job
  <2>2. OutcomeRow(job[j].subject, job[j].payload, job[j].out,
                   job[j].count, "failed", job[j].line) \in Row
    BY <2>1 DEF OutcomeRow, NewRow, NextRetryAt, Row, RowStatuses, Outcomes
  <2> QED BY <1>4, <2>2 DEF JobRecord
<1>5. ASSUME NEW i \in RowIds, Elapse(i)
      PROVE  \E row \in Row : Rewrite(i, row)
  <2> DEFINE row == [rows[i] EXCEPT !.next = "due"]
  <2>1. row \in Row /\ row.subject = rows[i].subject /\ row.payload = rows[i].payload
    BY <1>0, <1>5 DEF Elapse, Row
  <2>2. rows' = [rows EXCEPT ![i] = row]
    BY <1>5 DEF Elapse
  <2> HIDE DEF row
  <2> QED BY <1>5, <2>1, <2>2 DEF Elapse, Rewrite
<1> QED BY QueueChanges, <1>1, <1>2, <1>3, <1>4, <1>5 DEF QueueFrame

\* A snapshot that is held was held before or is taken from the queue now.
LEMMA HeldStep ==
  ASSUME TypeInv, [Next]_vars, NEW w \in Workers, worker'[w] # None,
         NEW b \in Held(worker'[w])
  PROVE  \/ worker[w] # None /\ b \in Held(worker[w])
         \/ b.id \in RowIds /\ rows[b.id] # None /\ b.row = rows[b.id]
<1>0. worker \in [Workers -> Processing \cup {None}]
  BY DEF TypeInv, TypeOK, ProcessOK, Processing
<1>1. CASE UNCHANGED worker
  BY <1>1
<1>2. CASE Crash
  BY <1>2 DEF Crash
<1>3. CASE \E v \in Workers : WorkerFault(v)
  <2> PICK v \in Workers : WorkerFault(v)
    BY <1>3
  <2>1. PICK wk \in Faulted(worker[v]) : worker' = [worker EXCEPT ![v] = wk]
    BY DEF WorkerFault
  <2>2. worker[v] \in Processor
        /\ worker[v].pc \in {"send", "outcome", "score", "echo"}
    BY <1>0 DEF WorkerFault, Processing, Processor
  <2>3. \/ wk = None \/ wk = Abandon(worker[v])
        \/ wk = [worker[v] EXCEPT !.pc = "outcome", !.out = "error"]
    BY <2>1, <2>2 DEF Faulted
  <2>4. wk # None => Held(wk) \subseteq Held(worker[v])
    BY <2>2, <2>3 DEF Abandon, Held, Processor
  <2> QED BY <1>0, <2>1, <2>4 DEF WorkerFault
<1>4. ASSUME NEW v \in Workers, Writer(v)
      PROVE  \/ worker[w] # None /\ b \in Held(worker[w])
             \/ b.id \in RowIds /\ rows[b.id] # None /\ b.row = rows[b.id]
  <2>1. CASE ListDue(v)
    BY <1>0, <2>1 DEF ListDue, Due, Held
  <2>2. CASE TakeNext(v)
    BY <1>0, <2>2 DEF TakeNext, Held, Processing, Processor
  <2>3. CASE EndPass(v) \/ WriteOutcome(v) \/ EchoScore(v) \/ \E out \in Posted : AttemptSend(v, out)
    BY <1>0, <2>3 DEF EndPass, WriteOutcome, EchoScore, AttemptSend, Held, Processing, Processor
  <2>4. CASE WriteScore(v)
    BY <1>0, <2>4 DEF WriteScore, AfterScore, Abandon, Held, Processing, Processor
  <2>5. CASE \E i \in RowIds, t \in Tokens : RetryOne(v, i, t)
    BY <1>0, <2>5 DEF RetryOne, Held
  <2> QED BY <1>4, <2>1, <2>2, <2>3, <2>4, <2>5 DEF Writer, WorkerStep
<1> QED BY WorkerFrame, <1>1, <1>2, <1>3, <1>4

LEMMA IdInvStep ==
  ASSUME TypeInv, IdInv, [Next]_vars
  PROVE  IdInv'
<1>0. /\ rows \in [RowIds -> Row \cup {None}]
      /\ nextRow \in 1..(RowPool + 1)
      /\ worker \in [Workers -> Processing \cup {None}]
  BY DEF TypeInv, TypeOK, ProcessOK, Processing
<1>1. /\ nextRow' \in Nat /\ nextRow' >= nextRow
      /\ \A i \in RowIds : i >= nextRow' => rows'[i] = None
      /\ \A i \in RowIds : i < nextRow /\ rows'[i] # None =>
            /\ rows[i] # None
            /\ rows'[i].subject = rows[i].subject
            /\ rows'[i].payload = rows[i].payload
  <2>1. CASE UNCHANGED queue
    BY <1>0, <2>1, BoundsAssumption DEF queue, IdInv
  <2>2. CASE \E row \in Row : Insert(row)
    BY <1>0, <2>2, BoundsAssumption DEF Insert, IdInv, RowIds
  <2>3. CASE \E i \in RowIds, row \in Row : Rewrite(i, row)
    BY <1>0, <2>3, BoundsAssumption DEF Rewrite, IdInv, RowIds
  <2>4. CASE \E k \in RowIds : Cleanup(k)
    BY <1>0, <2>4, BoundsAssumption DEF Cleanup, IdInv, RowIds
  <2> QED BY QueueMoves, <2>1, <2>2, <2>3, <2>4
<1>2. ASSUME NEW w \in Workers, worker'[w] # None, NEW b \in Held(worker'[w])
      PROVE  SameRow(b)'
  <2>1. b.id \in RowIds /\ SameRow(b)
    <3>1. CASE worker[w] # None /\ b \in Held(worker[w])
      BY <1>0, <3>1 DEF Held, Processing, Processor, Snapshot, IdInv
    <3>2. CASE b.id \in RowIds /\ rows[b.id] # None /\ b.row = rows[b.id]
      BY <1>0, <3>2 DEF IdInv, SameRow, RowIds
    <3> QED BY <1>2, <3>1, <3>2, HeldStep
  <2>2. b.id < nextRow'
    BY <1>0, <1>1, <2>1, BoundsAssumption DEF SameRow, RowIds
  <2>3. ASSUME rows'[b.id] # None
        PROVE  rows'[b.id].subject = b.row.subject /\ rows'[b.id].payload = b.row.payload
    BY <1>1, <2>1, <2>3 DEF SameRow
  <2> QED BY <2>2, <2>3 DEF SameRow
<1> QED BY <1>1, <1>2 DEF IdInv

-----------------------------------------------------------------------------
(* What each process remembers between two awaits about the LMS.           *)
RequestKnows(x) ==
    \/ x.pc = "skip"
    \/ x.pc = "record" /\ x.out = "published"
    \/ x.status = "published"
ProcessorKnows(x) == x.pc \in {"outcome", "score", "echo"} /\ x.out = "published"
JobKnows(x) == x.pc \in {"record", "save"} /\ x.out = "published"

DeliveredInv ==
    /\ PublishedWasDelivered
    /\ \A r \in Requests : req[r] # None /\ RequestKnows(req[r])
          => Delivered(req[r].subject, req[r].payload)
    /\ \A w \in Workers : worker[w] # None /\ ProcessorKnows(worker[w])
          => Delivered(worker[w].cur.row.subject, worker[w].cur.row.payload)
    /\ \A j \in JobSlots : job[j] # None /\ JobKnows(job[j])
          => Delivered(job[j].subject, job[j].payload)

\* A post that was acknowledged is delivered.
LEMMA DeliverDelivers ==
  ASSUME NEW s \in Subjects, NEW p \in Payloads, NEW out \in Posted,
         posts \in [Subjects -> [Payloads -> 0..2]], Deliver(s, p, out)
  PROVE  /\ Seen(out) = "published" => Delivered(s, p)'
         /\ \A t \in Subjects, q \in Payloads : Delivered(t, q) => Delivered(t, q)'
<1>1. CASE out \in {"published", "lost"}
  <2> DEFINE n == IF posts[s][p] < 2 THEN posts[s][p] + 1 ELSE 2
  <2>1. posts' = [posts EXCEPT ![s][p] = n]
    BY <1>1 DEF Deliver
  <2>2. n > 0
    OBVIOUS
  <2> HIDE DEF n
  <2> QED BY <2>1, <2>2 DEF Delivered
<1>2. CASE out \notin {"published", "lost"}
  BY <1>2 DEF Deliver, Delivered, Seen
<1> QED BY <1>1, <1>2

\* Nothing takes a delivery back.
LEMMA DeliveredGrows ==
  ASSUME TypeInv, [Next]_vars
  PROVE  \A s \in Subjects, p \in Payloads : Delivered(s, p) => Delivered(s, p)'
<1>0. /\ req \in [Requests -> Request \cup {None}]
      /\ worker \in [Workers -> Processing \cup {None}]
      /\ job \in [JobSlots -> Retrying \cup {None}]
      /\ posts \in [Subjects -> [Payloads -> 0..2]]
  BY DEF TypeInv, TypeOK, ProcessOK, Processing, Retrying
<1>1. CASE UNCHANGED posts
  BY <1>1 DEF Delivered
<1>2. CASE \E s \in Subjects, p \in Payloads, out \in Posted : Deliver(s, p, out)
  BY <1>0, <1>2, DeliverDelivers
<1>3. ASSUME NEW r \in Requests, NEW out \in Posted, PublishSend(r, out)
      PROVE  \E s \in Subjects, p \in Payloads : Deliver(s, p, out)
  BY <1>0, <1>3 DEF PublishSend, Send, Request
<1>4. ASSUME NEW w \in Workers, NEW out \in Posted, AttemptSend(w, out)
      PROVE  \E s \in Subjects, p \in Payloads : Deliver(s, p, out)
  BY <1>0, <1>4 DEF AttemptSend, Send, Processing, Snapshot, Row
<1>5. ASSUME NEW j \in JobSlots, NEW out \in Posted, JobSend(j, out)
      PROVE  \E s \in Subjects, p \in Payloads : Deliver(s, p, out)
  BY <1>0, <1>5 DEF JobSend, Retrying, Job
<1> QED BY PostFrame, <1>1, <1>2, <1>3, <1>4, <1>5

LEMMA RequestDelivered ==
  ASSUME TypeInv, DeliveredInv, [Next]_vars,
         NEW r \in Requests, req'[r] # None, RequestKnows(req'[r])
  PROVE  Delivered(req[r].subject, req[r].payload)' 
<1>0. req \in [Requests -> Request \cup {None}] /\ posts \in [Subjects -> [Payloads -> 0..2]]
  BY DEF TypeInv, TypeOK
<1>1. ASSUME req[r] # None, RequestKnows(req[r]),
             req'[r].subject = req[r].subject, req'[r].payload = req[r].payload
      PROVE  Delivered(req[r].subject, req[r].payload)'
  <2>1. req[r].subject \in Subjects /\ req[r].payload \in Payloads
    BY <1>0, <1>1 DEF Request
  <2> QED BY <1>1, <2>1, DeliveredGrows DEF DeliveredInv, Delivered
<1>2. CASE UNCHANGED req
  BY <1>1, <1>2
<1>3. CASE Crash
  BY <1>3 DEF Crash
<1>4. ASSUME NEW x \in Requests, Start(x) \/ RequestStep(x) \/ RequestFault(x), x # r
      PROVE  req'[r] = req[r]
  <2>1. CASE Start(x)
    BY <1>0, <1>4, <2>1 DEF Start, Finalize, SubmitScore, SubmitPartial, PropagateToMember,
                BackfillList, Begin
  <2>2. CASE RequestStep(x)
    BY <1>0, <1>4, <2>2 DEF RequestStep, BackfillCheck, RecordSkip, Route, FindPending,
          InsertPending, PublishSend, PublishRecord, SaveScore, SaveProgress, Respond, Goto
  <2>3. CASE RequestFault(x)
    BY <1>0, <1>4, <2>3 DEF RequestFault
  <2> QED BY <1>4, <2>1, <2>2, <2>3
<1>5. CASE Start(r)
  <2>1. req'[r].pc = "skip" /\ \E s \in Subjects, p \in Payloads :
           SamePublished(s, p) /\ req'[r].subject = s /\ req'[r].payload = p
    <3>1. PICK s \in Subjects, p \in Payloads :
       \/ Finalize(r, s, p)
       \/ SubmitPartial(r, s, p)
       \/ PropagateToMember(r, s, p)
       \/ \E t \in Tokens : SubmitScore(r, s, p, t) \/ BackfillList(r, s, p, t)
      BY <1>5 DEF Start
    <3> USE DEF Begin, RequestKnows
    <3>2. CASE Finalize(r, s, p)
      BY <1>0, <3>2 DEF Finalize
    <3>3. CASE SubmitPartial(r, s, p)
      BY <1>0, <3>3 DEF SubmitPartial
    <3>4. CASE PropagateToMember(r, s, p)
      BY <1>0, <3>4 DEF PropagateToMember
    <3>5. CASE \E t \in Tokens : SubmitScore(r, s, p, t)
      BY <1>0, <3>5 DEF SubmitScore
    <3>6. CASE \E t \in Tokens : BackfillList(r, s, p, t)
      BY <1>0, <3>6 DEF BackfillList
    <3> QED BY <3>1, <3>2, <3>3, <3>4, <3>5, <3>6
  <2>2. PICK s \in Subjects, p \in Payloads :
           SamePublished(s, p) /\ req'[r].subject = s /\ req'[r].payload = p
    BY <2>1
  <2>3. Delivered(s, p)
    BY <2>2, NoneAssumption DEF DeliveredInv, PublishedWasDelivered, SamePublished, Score,
                                ScoreStatuses
  <2> QED BY <2>2, <2>3, DeliveredGrows DEF Delivered
<1>6. ASSUME NEW out \in Posted, PublishSend(r, out)
      PROVE  Delivered(req[r].subject, req[r].payload)'
  <2> DEFINE s == req[r].subject
             p == req[r].payload
  <2>1. s \in Subjects /\ p \in Payloads
    BY <1>0, <1>6 DEF PublishSend, Request
  <2>2. /\ Seen(out) = "published" \/ req[r].status = "published"
        /\ req'[r].subject = s /\ req'[r].payload = p
    BY <1>0, <1>6 DEF PublishSend, RequestKnows, Request
  <2>3. CASE Seen(out) = "published"
    <3>1. Delivered(s, p)'
      BY <1>0, <1>6, <2>1, <2>3, DeliverDelivers DEF PublishSend, Send
    <3> QED BY <2>2, <3>1 DEF Delivered
  <2>4. CASE req[r].status = "published"
    BY <1>1, <1>6, <2>2, <2>4 DEF PublishSend, RequestKnows
  <2> QED BY <2>2, <2>3, <2>4
<1>7. CASE BackfillCheck(r) \/ Route(r) \/ FindPending(r) \/ RecordSkip(r)
  <2>1. CASE Route(r)
    <3>1. PICK x \in Request :
             /\ req' = [req EXCEPT ![r] = x]
             /\ x.subject = req[r].subject /\ x.payload = req[r].payload
             /\ x.status = req[r].status /\ x.out = "error"
             /\ x.pc \in {"find", "record", "send"}
      BY <1>0, <2>1, RouteStep
    <3>2. req'[r] = x
      BY <1>0, <3>1
    <3> QED BY <1>1, <2>1, <3>1, <3>2 DEF Route, RequestKnows
  <2>2. CASE BackfillCheck(r) \/ FindPending(r) \/ RecordSkip(r)
    BY <1>0, <1>1, <2>2 DEF BackfillCheck, FindPending, RecordSkip, Goto, RequestKnows, Request
  <2> QED BY <1>7, <2>1, <2>2
<1>8. CASE InsertPending(r)
  BY <1>0, <1>1, <1>8 DEF InsertPending, Goto, RequestKnows, Request
<1>9. CASE PublishRecord(r) \/ SaveScore(r) \/ SaveProgress(r) \/ Respond(r) \/ RequestFault(r)
  BY <1>0, <1>1, <1>9 DEF PublishRecord, SaveScore, SaveProgress, Respond, RequestFault, Goto,
                          RequestKnows, Request
<1> QED
  BY RequestFrame, <1>1, <1>2, <1>3, <1>4, <1>5, <1>6, <1>7, <1>8, <1>9 DEF RequestStep

LEMMA WorkerDelivered ==
  ASSUME TypeInv, DeliveredInv, [Next]_vars,
         NEW w \in Workers, worker'[w] # None, ProcessorKnows(worker'[w])
  PROVE  Delivered(worker[w].cur.row.subject, worker[w].cur.row.payload)'
<1>0. /\ worker \in [Workers -> Processing \cup {None}]
      /\ posts \in [Subjects -> [Payloads -> 0..2]]
  BY DEF TypeInv, TypeOK, ProcessOK, Processing
<1>1. ASSUME worker[w] # None, ProcessorKnows(worker[w]), worker'[w].cur = worker[w].cur
      PROVE  Delivered(worker[w].cur.row.subject, worker[w].cur.row.payload)'
  <2>1. worker[w].cur.row.subject \in Subjects /\ worker[w].cur.row.payload \in Payloads
    BY <1>0, <1>1 DEF Processing, ProcessorKnows, Snapshot, Row
  <2> QED BY <1>1, <2>1, DeliveredGrows DEF DeliveredInv, Delivered
<1>2. CASE UNCHANGED worker
  BY <1>1, <1>2
<1>3. CASE Crash
  BY <1>3 DEF Crash
<1>4. ASSUME NEW v \in Workers, Writer(v) \/ WorkerFault(v), v # w
      PROVE  worker'[w] = worker[w]
  BY <1>0, <1>4 DEF Writer, WorkerStep, ListDue, TakeNext, EndPass, AttemptSend, WriteOutcome,
        WriteScore, EchoScore, RetryOne, WorkerFault
<1>5. CASE \E out \in Posted : AttemptSend(w, out)
  <2> PICK out \in Posted : AttemptSend(w, out)
    BY <1>5
  <2> DEFINE s == worker[w].cur.row.subject
             p == worker[w].cur.row.payload
  <2>1. s \in Subjects /\ p \in Payloads
    BY <1>0 DEF AttemptSend, Processing, Snapshot, Row
  <2>2. worker'[w].cur = worker[w].cur /\ Seen(out) = "published"
    BY <1>0 DEF AttemptSend, ProcessorKnows, Processing, Processor
  <2>3. Delivered(s, p)'
    BY <1>0, <2>1, <2>2, DeliverDelivers DEF AttemptSend, Send
  <2> QED BY <2>2, <2>3 DEF Delivered
<1>6. CASE WriteOutcome(w) \/ EndPass(w) \/ EchoScore(w) \/ ListDue(w)
           \/ \E i \in RowIds, t \in Tokens : RetryOne(w, i, t)
  BY <1>0, <1>1, <1>6 DEF WriteOutcome, EndPass, EchoScore, ListDue, RetryOne,
                          ProcessorKnows, Processing, Processor
<1>7. CASE TakeNext(w)
  BY <1>0, <1>7 DEF TakeNext, ProcessorKnows, Processing, Processor
<1>8. CASE WriteScore(w)
  BY <1>0, <1>1, <1>8 DEF WriteScore, AfterScore, Abandon, ProcessorKnows, Processing, Processor
<1>9. CASE WorkerFault(w)
  <2>1. worker'[w] \in Faulted(worker[w]) /\ worker[w] \in Processor
    BY <1>0, <1>9 DEF WorkerFault, Processing
  <2> QED
    BY <2>1, <1>9 DEF WorkerFault, Faulted, Abandon, ProcessorKnows, Processor
<1> QED
  BY WorkerFrame, <1>1, <1>2, <1>3, <1>4, <1>5, <1>6, <1>7, <1>8, <1>9 DEF Writer, WorkerStep

LEMMA JobDelivered ==
  ASSUME TypeInv, DeliveredInv, [Next]_vars,
         NEW j \in JobSlots, job'[j] # None, JobKnows(job'[j])
  PROVE  Delivered(job[j].subject, job[j].payload)'
<1>0. /\ job \in [JobSlots -> Retrying \cup {None}]
      /\ req \in [Requests -> Request \cup {None}]
      /\ posts \in [Subjects -> [Payloads -> 0..2]]
  BY DEF TypeInv, TypeOK, ProcessOK, Retrying
<1>1. ASSUME job[j] # None, JobKnows(job[j]),
             job'[j].subject = job[j].subject, job'[j].payload = job[j].payload
      PROVE  Delivered(job[j].subject, job[j].payload)'
  <2>1. job[j].subject \in Subjects /\ job[j].payload \in Payloads
    BY <1>0, <1>1 DEF Retrying, Job
  <2> QED BY <1>1, <2>1, DeliveredGrows DEF DeliveredInv, Delivered
<1>2. CASE UNCHANGED job
  BY <1>1, <1>2
<1>3. CASE Crash
  BY <1>3 DEF Crash
<1>4. ASSUME NEW r \in Requests, PublishRecord(r)
      PROVE  job'[j] = job[j]
  <2> DEFINE new(line) == NextJob(req[r].subject, req[r].payload, 0, line)
  <2>1. UNCHANGED job \/ \E line \in BOOLEAN :
           Schedule(req[r].subject, req[r].payload, 0, line)
    BY <1>4, RecordSchedules
  <2>0. req[r].subject \in Subjects /\ req[r].payload \in Payloads
    BY <1>0, <1>4 DEF PublishRecord, Request
  <2>2. \A line \in BOOLEAN : new(line) # None => new(line).pc = "timer"
    BY <2>0, NextJobType
  <2>3. UNCHANGED job \/ \E line \in BOOLEAN :
           new(line) # None /\ \E i \in JobSlots : job' = [job EXCEPT ![i] = new(line)]
    BY <2>1 DEF Schedule
  <2> HIDE DEF new
  <2> QED BY <1>0, <2>2, <2>3 DEF JobKnows
<1>5. ASSUME NEW i \in JobSlots, JobStep(i) \/ JobFault(i), i # j
      PROVE  job'[j] = job[j]
  BY <1>0, <1>5 DEF JobStep, JobSend, JobRecord, JobSave, JobFault
<1>6. CASE \E out \in Posted : JobSend(j, out)
  <2> PICK out \in Posted : JobSend(j, out)
    BY <1>6
  <2> DEFINE s == job[j].subject
             p == job[j].payload
  <2>1. s \in Subjects /\ p \in Payloads
    BY <1>0 DEF JobSend, Retrying, Job
  <2>2. /\ job'[j].subject = s /\ job'[j].payload = p
        /\ Seen(out) = "published"
    BY <1>0 DEF JobSend, JobKnows, Retrying, Job
  <2>3. Delivered(s, p)'
    BY <1>0, <2>1, <2>2, DeliverDelivers DEF JobSend
  <2> QED BY <2>2, <2>3 DEF Delivered
<1>7. CASE JobRecord(j)
  <2> DEFINE next == NextJob(job[j].subject, job[j].payload, job[j].count, job[j].line)
  <2>1. next # None => next.pc = "timer"
    BY <1>0, <1>7, NextJobType DEF JobRecord, Retrying, Job
  <2>2. job'[j] = IF job[j].out = "error" THEN next ELSE [job[j] EXCEPT !.pc = "save"]
    BY <1>0, <1>7 DEF JobRecord
  <2> HIDE DEF next
  <2> QED BY <1>0, <1>1, <1>7, <2>1, <2>2 DEF JobRecord, JobKnows, Retrying, Job
<1>8. CASE JobSave(j) \/ JobFault(j)
  BY <1>0, <1>8 DEF JobSave, JobFault, JobKnows, Retrying, Job
<1> QED
  BY JobFrame, <1>1, <1>2, <1>3, <1>4, <1>5, <1>6, <1>7, <1>8 DEF JobStep

\* What is written to scores and rows is what a process knows.
LEMMA ScoresDelivered ==
  ASSUME TypeInv, DeliveredInv, [Next]_vars,
         NEW s \in Subjects, scores'[s] # None, scores'[s].status = "published"
  PROVE  Delivered(s, scores[s].payload)'
<1>0. /\ scores \in [Subjects -> Score \cup {None}]
      /\ req \in [Requests -> Request \cup {None}]
      /\ worker \in [Workers -> Processing \cup {None}]
      /\ job \in [JobSlots -> Retrying \cup {None}]
  BY DEF TypeInv, TypeOK, ProcessOK, Processing, Retrying
<1>1. ASSUME scores'[s] = scores[s]
      PROVE  Delivered(s, scores[s].payload)'
  <2>1. scores[s].payload \in Payloads /\ Delivered(s, scores[s].payload)
    BY <1>0, <1>1 DEF Score, DeliveredInv, PublishedWasDelivered
  <2> QED BY <1>1, <2>1, DeliveredGrows DEF Delivered
<1>2. ASSUME NEW t \in Subjects, NEW p \in Payloads, NEW st, UpsertScore(t, p, st),
             st = "published" => Delivered(t, p)
      PROVE  Delivered(s, scores[s].payload)'
  <2>1. CASE s = t
    <3>1. scores'[s].payload = p /\ st = "published"
      BY <1>0, <1>2, <2>1 DEF UpsertScore
    <3> QED BY <1>2, <2>1, <3>1, DeliveredGrows DEF Delivered
  <2>2. CASE s # t
    BY <1>0, <1>1, <1>2, <2>2 DEF UpsertScore
  <2> QED BY <2>1, <2>2
<1>3. ASSUME NEW r \in Requests, SaveScore(r)
      PROVE  Delivered(s, scores[s].payload)'
  <2>1. /\ req[r].subject \in Subjects /\ req[r].payload \in Payloads
        /\ req[r].status = "published" => Delivered(req[r].subject, req[r].payload)
    BY <1>0, <1>3 DEF SaveScore, Request, DeliveredInv, RequestKnows
  <2> QED BY <1>2, <1>3, <2>1 DEF SaveScore
<1>4. ASSUME NEW w \in Workers, WriteScore(w) \/ EchoScore(w)
      PROVE  Delivered(s, scores[s].payload)'
  <2> DEFINE t == worker[w].cur.row.subject
             p == worker[w].cur.row.payload
             st == IF worker[w].out = "error" THEN "failed" ELSE worker[w].out
  <2>1. t \in Subjects /\ p \in Payloads
    BY <1>0, <1>4 DEF WriteScore, EchoScore, Processing, Snapshot, Row
  <2>2. worker[w].out = "published" => Delivered(t, p)
    BY <1>4 DEF WriteScore, EchoScore, DeliveredInv, ProcessorKnows
  <2>3. UpsertScore(t, p, st) \/ UpsertScore(t, p, worker[w].out)
    BY <1>4 DEF WriteScore, EchoScore
  <2> HIDE DEF t, p
  <2> QED BY <1>2, <2>1, <2>2, <2>3
<1>5. ASSUME NEW j \in JobSlots, JobSave(j)
      PROVE  Delivered(s, scores[s].payload)'
  <2>1. /\ job[j].subject \in Subjects /\ job[j].payload \in Payloads
        /\ job[j].out = "published" => Delivered(job[j].subject, job[j].payload)
    BY <1>0, <1>5 DEF JobSave, Retrying, Job, DeliveredInv, JobKnows
  <2> QED BY <1>2, <1>5, <2>1 DEF JobSave
<1> QED BY ScoreFrame, <1>1, <1>3, <1>4, <1>5

LEMMA RowsDelivered ==
  ASSUME TypeInv, IdInv, DeliveredInv, [Next]_vars,
         NEW i \in RowIds, rows'[i] # None,
         rows'[i].status \in {"published", "skipped_duplicate"}
  PROVE  Delivered(rows[i].subject, rows[i].payload)'
<1>0. /\ rows \in [RowIds -> Row \cup {None}]
      /\ nextRow \in 1..(RowPool + 1)
      /\ req \in [Requests -> Request \cup {None}]
      /\ worker \in [Workers -> Processing \cup {None}]
      /\ job \in [JobSlots -> Retrying \cup {None}]
  BY DEF TypeInv, TypeOK, ProcessOK, Processing, Retrying
<1>1. ASSUME NEW s \in Subjects, NEW p \in Payloads, Delivered(s, p),
             rows'[i].subject = s, rows'[i].payload = p
      PROVE  Delivered(rows[i].subject, rows[i].payload)'
  BY <1>1, DeliveredGrows DEF Delivered
<1>2. ASSUME rows[i] # None, rows[i].status \in {"published", "skipped_duplicate"},
             rows'[i].subject = rows[i].subject, rows'[i].payload = rows[i].payload
      PROVE  Delivered(rows[i].subject, rows[i].payload)'
  <2>1. /\ rows[i].subject \in Subjects /\ rows[i].payload \in Payloads
        /\ Delivered(rows[i].subject, rows[i].payload)
    BY <1>0, <1>2 DEF Row, DeliveredInv, PublishedWasDelivered
  <2> QED BY <1>1, <1>2, <2>1
<1>3. ASSUME NEW s \in Subjects, NEW p \in Payloads, NEW row, Insert(row),
             row.subject = s, row.payload = p,
             row.status \in {"published", "skipped_duplicate"} => Delivered(s, p)
      PROVE  Delivered(rows[i].subject, rows[i].payload)'
  <2>1. CASE i = nextRow
    BY <1>0, <1>1, <1>3, <2>1 DEF Insert
  <2>2. CASE i # nextRow
    BY <1>0, <1>2, <1>3, <2>2 DEF Insert
  <2> QED BY <2>1, <2>2
<1>4. ASSUME NEW r \in Requests, RecordSkip(r) \/ InsertPending(r)
      PROVE  Delivered(rows[i].subject, rows[i].payload)'
  <2>1. /\ req[r].subject \in Subjects /\ req[r].payload \in Payloads
        /\ RecordSkip(r) => Delivered(req[r].subject, req[r].payload)
    BY <1>0, <1>4 DEF RecordSkip, InsertPending, Request, DeliveredInv, RequestKnows
  <2>2. CASE RecordSkip(r)
    BY <1>3, <2>1, <2>2 DEF RecordSkip, NewRow
  <2>3. CASE InsertPending(r)
    BY <1>3, <2>1, <2>3 DEF InsertPending, NewRow
  <2> QED BY <1>4, <2>2, <2>3
<1>5. ASSUME NEW r \in Requests, PublishRecord(r)
      PROVE  Delivered(rows[i].subject, rows[i].payload)'
  <2> DEFINE row == OutcomeRow(req[r].subject, req[r].payload, req[r].out,
                                0, FailureStatus(0), RecordedLine(r))
  <2>1. /\ req[r].subject \in Subjects /\ req[r].payload \in Payloads
        /\ req[r].out \in Outcomes
        /\ req[r].out = "published" => Delivered(req[r].subject, req[r].payload)
    BY <1>0, <1>5 DEF PublishRecord, Request, DeliveredInv, RequestKnows
  <2>2. /\ row.subject = req[r].subject /\ row.payload = req[r].payload
        /\ row.status \in {"published", "skipped_duplicate"} => req[r].out = "published"
    BY <2>1 DEF OutcomeRow, NewRow, FailureStatus, Outcomes
  <2>3. Insert(row)
    BY <1>5 DEF PublishRecord
  <2> HIDE DEF row
  <2> QED BY <1>3, <2>1, <2>2, <2>3
<1>6. ASSUME NEW j \in JobSlots, JobRecord(j)
      PROVE  Delivered(rows[i].subject, rows[i].payload)'
  <2> DEFINE row == OutcomeRow(job[j].subject, job[j].payload, job[j].out,
                                job[j].count, "failed", job[j].line)
  <2>1. /\ job[j].subject \in Subjects /\ job[j].payload \in Payloads
        /\ job[j].out \in Outcomes
        /\ job[j].out = "published" => Delivered(job[j].subject, job[j].payload)
    BY <1>0, <1>6 DEF JobRecord, Retrying, Job, DeliveredInv, JobKnows
  <2>2. /\ row.subject = job[j].subject /\ row.payload = job[j].payload
        /\ row.status \in {"published", "skipped_duplicate"} => job[j].out = "published"
    BY <2>1 DEF OutcomeRow, NewRow, Outcomes
  <2>3. Insert(row)
    BY <1>6 DEF JobRecord
  <2> HIDE DEF row
  <2> QED BY <1>3, <2>1, <2>2, <2>3
<1>7. ASSUME NEW w \in Workers, WriteOutcome(w)
      PROVE  Delivered(rows[i].subject, rows[i].payload)'
  <2> DEFINE k == worker[w].cur.id
             s == worker[w].cur.row.subject
             p == worker[w].cur.row.payload
             n == worker[w].cur.row.retryCount + 1
             row == AttemptOutcome(rows[k], worker[w].out, n)
  <2>1. /\ k \in RowIds /\ s \in Subjects /\ p \in Payloads /\ n \in Nat
        /\ worker[w].cur \in Snapshot /\ worker[w].out \in Outcomes
        /\ worker[w].out = "published" => Delivered(s, p)
    BY <1>0, <1>7 DEF WriteOutcome, Processing, Processor, Snapshot, Row, DeliveredInv,
                      ProcessorKnows
  <2>2. SameRow(worker[w].cur)
    BY <1>7, <2>1, NoneAssumption DEF WriteOutcome, IdInv, Held
  <2>3. rows[k] # None => /\ row.subject = s /\ row.payload = p
                          /\ row.status \in {"published", "skipped_duplicate"}
                                => worker[w].out = "published"
    <3>1. ASSUME rows[k] # None
          PROVE  row.status \in {"published", "skipped_duplicate"} => worker[w].out = "published"
      BY <1>0, <2>1, <3>1 DEF AttemptOutcome, FailureStatus, Row, Outcomes
    <3> QED BY <1>0, <2>1, <2>2, <3>1, AttemptOutcomeRow DEF SameRow
  <2>4. rows' = IF rows[k] = None THEN rows ELSE [rows EXCEPT ![k] = row]
    BY <1>7 DEF WriteOutcome
  <2> HIDE DEF row, n, k, s, p
  <2>5. CASE i = k /\ rows[k] # None
    BY <1>0, <1>1, <2>1, <2>3, <2>4, <2>5
  <2>6. CASE i # k \/ rows[k] = None
    BY <1>0, <1>2, <2>1, <2>4, <2>6
  <2> QED BY <2>5, <2>6
<1>8. ASSUME NEW k \in RowIds, Elapse(k)
      PROVE  Delivered(rows[i].subject, rows[i].payload)'
  BY <1>0, <1>2, <1>8 DEF Elapse, Row
<1>9. ASSUME NEW k \in RowIds, Cleanup(k)
      PROVE  Delivered(rows[i].subject, rows[i].payload)'
  BY <1>0, <1>2, <1>9 DEF Cleanup
<1>10. CASE UNCHANGED queue
  BY <1>2, <1>10 DEF queue
<1> QED
  BY QueueChanges, <1>4, <1>5, <1>6, <1>7, <1>8, <1>9, <1>10 DEF QueueFrame

LEMMA DeliveredStep ==
  ASSUME TypeInv, IdInv, DeliveredInv, [Next]_vars
  PROVE  DeliveredInv'
<1>1. PublishedWasDelivered'
  BY ScoresDelivered, RowsDelivered DEF PublishedWasDelivered, Delivered
<1> QED
  BY <1>1, RequestDelivered, WorkerDelivered, JobDelivered DEF DeliveredInv

\* Whatever races, fails, crashes or is deleted: a score or an attempt that reads
\* "published" was accepted by the LMS with exactly that payload.
THEOREM PublishedIsDelivered == Spec => []PublishedWasDelivered
<1>1. Init => TypeInv /\ IdInv /\ DeliveredInv
  BY TypeInvInit
     DEF Init, IdInv, DeliveredInv, PublishedWasDelivered
<1>2. TypeInv /\ IdInv /\ DeliveredInv /\ [Next]_vars => (TypeInv /\ IdInv /\ DeliveredInv)'
  BY TypeInvStep, IdInvStep, DeliveredStep
<1>3. DeliveredInv => PublishedWasDelivered
  BY DEF DeliveredInv
<1> QED BY <1>1, <1>2, <1>3, PTL DEF Spec

-----------------------------------------------------------------------------
(* The retry budget of the queue, the log of handled payloads, and the refinement *)
(* of GradeSync.                                                                 *)

LEMMA OutcomeRowWithinBudget ==
  ASSUME NEW s \in Subjects, NEW p \in Payloads, NEW out \in Outcomes, NEW n \in Nat,
         NEW failure \in {"failed", FailureStatus(n)}, NEW line \in BOOLEAN
  PROVE  WithinBudget(OutcomeRow(s, p, out, n, failure, line))
  BY ConfigAssumption
     DEF WithinBudget, OutcomeRow, NewRow, FailureStatus, NextRetryAt, Retryable, Exhausted,
         Outcomes

LEMMA AttemptOutcomeWithinBudget ==
  ASSUME NEW row \in Row, NEW out \in Outcomes, NEW n \in Nat
  PROVE  WithinBudget(AttemptOutcome(row, out, n))
<1>1. CASE out = "error"
  BY <1>1, ConfigAssumption
     DEF WithinBudget, AttemptOutcome, FailureStatus, NextRetryAt, Retryable, Exhausted, Row
<1>2. CASE out # "error"
  BY <1>2 DEF WithinBudget, AttemptOutcome, Outcomes, Row
<1> QED BY <1>1, <1>2

LEMMA BudgetStep ==
  ASSUME TypeInv, QueueWithinBudget, [Next]_vars
  PROVE  QueueWithinBudget'
<1>0. /\ rows \in [RowIds -> Row \cup {None}]
      /\ req \in [Requests -> Request \cup {None}]
      /\ worker \in [Workers -> Processing \cup {None}]
      /\ job \in [JobSlots -> Retrying \cup {None}]
  BY DEF TypeInv, TypeOK, ProcessOK, Processing, Retrying
<1>1. ASSUME NEW row, Insert(row), WithinBudget(row)
      PROVE  QueueWithinBudget'
  <2> SUFFICES ASSUME NEW i \in RowIds, rows'[i] # None
               PROVE  WithinBudget(rows'[i])
    BY DEF QueueWithinBudget, WithinBudget, Retryable, Exhausted
  <2>1. rows'[i] = row \/ rows'[i] = rows[i]
    BY <1>0, <1>1 DEF Insert
  <2> QED BY <1>1, <2>1 DEF QueueWithinBudget
<1>2. ASSUME NEW k \in RowIds, NEW row, rows' = [rows EXCEPT ![k] = row], WithinBudget(row)
      PROVE  QueueWithinBudget'
  <2> SUFFICES ASSUME NEW i \in RowIds, rows'[i] # None
               PROVE  WithinBudget(rows'[i])
    BY DEF QueueWithinBudget, WithinBudget, Retryable, Exhausted
  <2>1. rows'[i] = row \/ rows'[i] = rows[i]
    BY <1>0, <1>2
  <2> QED BY <1>2, <2>1 DEF QueueWithinBudget
<1>3. ASSUME NEW r \in Requests, RecordSkip(r) \/ InsertPending(r)
      PROVE  QueueWithinBudget'
  <2>1. PICK row : Insert(row) /\ WithinBudget(row)
    BY <1>3 DEF RecordSkip, InsertPending, NewRow, WithinBudget
  <2> QED BY <1>1, <2>1
<1>4. ASSUME NEW r \in Requests, PublishRecord(r)
      PROVE  QueueWithinBudget'
  <2>1. req[r].subject \in Subjects /\ req[r].payload \in Payloads /\ req[r].out \in Outcomes
    BY <1>0, <1>4 DEF PublishRecord, Request
  <2>2. WithinBudget(OutcomeRow(req[r].subject, req[r].payload, req[r].out,
                                0, FailureStatus(0), RecordedLine(r)))
    BY <2>1, OutcomeRowWithinBudget, LineTypes
  <2> QED BY <1>1, <1>4, <2>2 DEF PublishRecord
<1>5. ASSUME NEW j \in JobSlots, JobRecord(j)
      PROVE  QueueWithinBudget'
  <2>1. /\ job[j].subject \in Subjects /\ job[j].payload \in Payloads
        /\ job[j].out \in Outcomes /\ job[j].count \in Nat /\ job[j].line \in BOOLEAN
    BY <1>0, <1>5 DEF JobRecord, Retrying, Job
  <2>2. WithinBudget(OutcomeRow(job[j].subject, job[j].payload, job[j].out,
                                job[j].count, "failed", job[j].line))
    BY <2>1, OutcomeRowWithinBudget
  <2> QED BY <1>1, <1>5, <2>2 DEF JobRecord
<1>6. ASSUME NEW w \in Workers, WriteOutcome(w)
      PROVE  QueueWithinBudget'
  <2> DEFINE i == worker[w].cur.id
             n == worker[w].cur.row.retryCount + 1
             row == AttemptOutcome(rows[i], worker[w].out, n)
  <2>1. i \in RowIds /\ n \in Nat /\ worker[w].out \in Outcomes
    BY <1>0, <1>6 DEF WriteOutcome, Processing, Processor, Snapshot, Row
  <2>2. rows[i] # None => WithinBudget(row)
    BY <1>0, <2>1, AttemptOutcomeWithinBudget
  <2>3. rows' = IF rows[i] = None THEN rows ELSE [rows EXCEPT ![i] = row]
    BY <1>6 DEF WriteOutcome
  <2> HIDE DEF row, n, i
  <2>4. CASE rows[i] = None
    BY <2>3, <2>4 DEF QueueWithinBudget, WithinBudget, Retryable, Exhausted
  <2> QED BY <1>2, <2>1, <2>2, <2>3, <2>4
<1>7. ASSUME NEW i \in RowIds, Elapse(i)
      PROVE  QueueWithinBudget'
  <2> DEFINE row == [rows[i] EXCEPT !.next = "due"]
  <2>1. rows' = [rows EXCEPT ![i] = row]
    BY <1>7 DEF Elapse
  <2>2. WithinBudget(row)
    BY <1>0, <1>7 DEF Elapse, QueueWithinBudget, WithinBudget, Row
  <2> HIDE DEF row
  <2> QED BY <1>2, <2>1, <2>2
<1>8. ASSUME NEW k \in RowIds, Cleanup(k)
      PROVE  QueueWithinBudget'
  BY <1>8 DEF Cleanup, QueueWithinBudget, WithinBudget, Retryable, Exhausted
<1>9. CASE UNCHANGED queue
  BY <1>9 DEF queue, QueueWithinBudget, WithinBudget, Retryable, Exhausted
<1> QED
  BY QueueChanges, <1>3, <1>4, <1>5, <1>6, <1>7, <1>8, <1>9 DEF QueueFrame

\* Whatever races, fails or crashes, no row is left with retries it will not get
\* or scheduled for retries it must not get.
THEOREM QueueStaysWithinBudget == Spec => []QueueWithinBudget
<1>1. Init => TypeInv /\ QueueWithinBudget
  BY TypeInvInit DEF Init, QueueWithinBudget
<1>2. TypeInv /\ QueueWithinBudget /\ [Next]_vars => (TypeInv /\ QueueWithinBudget)'
  BY TypeInvStep, BudgetStep
<1> QED BY <1>1, <1>2, PTL DEF Spec

-----------------------------------------------------------------------------
LoggedInv ==
    /\ ScoreOutcomeRecorded
    /\ \A r \in Requests :
          req[r] # None /\ req[r].pc = "save" /\ req[r].status # "not_ready"
             => Logged(req[r].subject, req[r].payload)
    /\ \A w \in Workers : worker[w] # None =>
          \A b \in Held(worker[w]) : Logged(b.row.subject, b.row.payload)
    /\ \A j \in JobSlots : job[j] # None /\ job[j].pc = "save"
             => Logged(job[j].subject, job[j].payload)

\* An attempt that is recorded is in the log, and no step takes it out again:
\* retention moves it to purged.
LEMMA LoggedGrows ==
  ASSUME TypeInv, IdInv, [Next]_vars
  PROVE  /\ \A s, p : Logged(s, p) => Logged(s, p)'
         /\ \A row \in Row : Insert(row) => Logged(row.subject, row.payload)'
<1>0. /\ rows \in [RowIds -> Row \cup {None}]
      /\ nextRow \in 1..(RowPool + 1)
  BY DEF TypeInv, TypeOK
<1>1. ASSUME NEW row \in Row, Insert(row)
      PROVE  /\ Logged(row.subject, row.payload)'
             /\ \A s, p : Logged(s, p) => Logged(s, p)'
  <2>1. nextRow \in RowIds /\ rows[nextRow] = None /\ row # None
    BY <1>0, <1>1, BoundsAssumption, NoneAssumption DEF Insert, IdInv, RowIds
  <2>2. rows'[nextRow] = row /\ row.status \in RowStatuses
    BY <1>0, <1>1, <2>1 DEF Insert, Row
  <2>3. Logged(row.subject, row.payload)'
    BY <2>1, <2>2 DEF Logged, HasRow
  <2>4. \A i \in RowIds : rows[i] # None => rows'[i] = rows[i]
    BY <1>0, <1>1, <2>1 DEF Insert
  <2>5. purged' = purged
    BY <1>1 DEF Insert
  <2> QED BY <2>3, <2>4, <2>5 DEF Logged, HasRow
<1>2. ASSUME NEW k \in RowIds, NEW row \in Row, Rewrite(k, row), NEW s, NEW p, Logged(s, p)
      PROVE  Logged(s, p)'
  <2>1. \A i \in RowIds : rows[i] # None =>
           /\ rows'[i] # None
           /\ rows'[i].subject = rows[i].subject /\ rows'[i].payload = rows[i].payload
           /\ rows'[i].status \in RowStatuses
    BY <1>0, <1>2, NoneAssumption DEF Rewrite, Row
  <2>2. purged' = purged
    BY <1>2 DEF Rewrite
  <2> QED BY <1>2, <2>1, <2>2 DEF Logged, HasRow
<1>3. ASSUME NEW k \in RowIds, Cleanup(k), NEW s, NEW p, Logged(s, p)
      PROVE  Logged(s, p)'
  <2>1. purged \subseteq purged'
    BY <1>3 DEF Cleanup
  <2>2. ASSUME NEW i \in RowIds, rows[i] # None
        PROVE  rows'[i] = rows[i] \/ <<rows[i].subject, rows[i].payload>> \in purged'
    BY <1>3, <2>2, BoundsAssumption DEF Cleanup, RowIds
  <2> QED BY <1>3, <2>1, <2>2 DEF Logged, HasRow
<1>4. ASSUME UNCHANGED queue, NEW s, NEW p, Logged(s, p)
      PROVE  Logged(s, p)'
  BY <1>4 DEF queue, Logged, HasRow
<1> QED BY QueueMoves, <1>1, <1>2, <1>3, <1>4

LEMMA RequestLogged ==
  ASSUME TypeInv, IdInv, LoggedInv, [Next]_vars,
         NEW r \in Requests, req'[r] # None, req'[r].pc = "save", req'[r].status # "not_ready"
  PROVE  Logged(req[r].subject, req[r].payload)'
<1>0. req \in [Requests -> Request \cup {None}]
  BY DEF TypeInv, TypeOK
<1>1. ASSUME NEW s, NEW p, Logged(s, p), req'[r].subject = s, req'[r].payload = p
      PROVE  Logged(req[r].subject, req[r].payload)'
  BY <1>1, LoggedGrows DEF Logged, HasRow
<1>2. ASSUME NEW row \in Row, Insert(row),
             req'[r].subject = row.subject, req'[r].payload = row.payload
      PROVE  Logged(req[r].subject, req[r].payload)'
  BY <1>2, LoggedGrows DEF Logged, HasRow
<1>3. CASE req'[r] = req[r]
  BY <1>1, <1>3 DEF LoggedInv
<1>4. CASE Crash
  BY <1>4 DEF Crash
<1>5. ASSUME NEW x \in Requests, Start(x) \/ RequestStep(x) \/ RequestFault(x), x # r
      PROVE  req'[r] = req[r]
  <2>1. CASE Start(x)
    BY <1>0, <1>5, <2>1 DEF Start, Finalize, SubmitScore, SubmitPartial, PropagateToMember,
                BackfillList, Begin
  <2>2. CASE RequestStep(x)
    BY <1>0, <1>5, <2>2 DEF RequestStep, BackfillCheck, RecordSkip, Route, FindPending,
          InsertPending, PublishSend, PublishRecord, SaveScore, SaveProgress, Respond, Goto
  <2>3. CASE RequestFault(x)
    BY <1>0, <1>5, <2>3 DEF RequestFault
  <2> QED BY <1>5, <2>1, <2>2, <2>3
<1>6. CASE Start(r)
  BY <1>0, <1>6 DEF Start, Finalize, SubmitScore, SubmitPartial, PropagateToMember,
                    BackfillList, Begin
<1>7. CASE FindPending(r)
  <2>1. HasRow(req[r].subject, req[r].payload, {"pending"})
    BY <1>0, <1>7 DEF FindPending, Goto, Request
  <2>2. Logged(req[r].subject, req[r].payload)
    BY <2>1 DEF HasRow, Logged, RowStatuses
  <2>3. req'[r].subject = req[r].subject /\ req'[r].payload = req[r].payload
    BY <1>0, <1>7 DEF FindPending, Goto, Request
  <2> QED BY <1>1, <2>2, <2>3
<1>8. CASE RecordSkip(r) \/ InsertPending(r)
  <2>1. \A st \in {"skipped_duplicate", "pending"}, at \in {"unset", "due"} :
          \A line \in BOOLEAN : NewRow(req[r].subject, req[r].payload, st, 0, at, line) \in Row
    BY <1>0, <1>8 DEF RecordSkip, InsertPending, NewRow, Row, RowStatuses, Request
  <2>2. PICK row \in Row :
           Insert(row) /\ row.subject = req[r].subject /\ row.payload = req[r].payload
    BY <1>8, <2>1, LineTypes DEF RecordSkip, InsertPending, NewRow
  <2>3. req'[r].subject = req[r].subject /\ req'[r].payload = req[r].payload
    BY <1>0, <1>8 DEF RecordSkip, InsertPending, Goto, Request
  <2> QED BY <1>2, <2>2, <2>3
<1>9. CASE PublishRecord(r)
  <2> DEFINE row == OutcomeRow(req[r].subject, req[r].payload, req[r].out,
                                0, FailureStatus(0), RecordedLine(r))
  <2>1. req[r].subject \in Subjects /\ req[r].payload \in Payloads /\ req[r].out \in Outcomes
    BY <1>0, <1>9 DEF PublishRecord, Request
  <2>2. row \in Row /\ row.subject = req[r].subject /\ row.payload = req[r].payload
    BY <2>1, LineTypes
       DEF OutcomeRow, NewRow, FailureStatus, NextRetryAt, Row, RowStatuses, Outcomes
  <2>3. Insert(row)
    BY <1>9 DEF PublishRecord
  <2>4. req'[r].subject = req[r].subject /\ req'[r].payload = req[r].payload
    BY <1>0, <1>9 DEF PublishRecord, Goto, Request
  <2> HIDE DEF row
  <2> QED BY <1>2, <2>2, <2>3, <2>4
<1>10. CASE BackfillCheck(r) \/ Route(r) \/ (\E out \in Posted : PublishSend(r, out))
            \/ Respond(r) \/ RequestFault(r)
  <2>1. CASE Route(r)
    <3>1. PICK x \in Request :
             /\ req' = [req EXCEPT ![r] = x]
             /\ x.subject = req[r].subject /\ x.payload = req[r].payload
             /\ x.status = req[r].status /\ x.out = "error"
             /\ x.pc \in {"find", "record", "send"}
      BY <1>0, <2>1, RouteStep
    <3> QED BY <1>0, <3>1
  <2>2. CASE BackfillCheck(r) \/ (\E out \in Posted : PublishSend(r, out))
             \/ Respond(r) \/ RequestFault(r)
    BY <1>0, <2>2 DEF BackfillCheck, PublishSend, Respond, RequestFault, Goto, Request
  <2> QED BY <1>10, <2>1, <2>2
<1>11. CASE SaveScore(r) \/ SaveProgress(r)
  <2>1. /\ req[r] # None /\ req[r].pc = "save" /\ req[r].status # "not_ready"
        /\ req'[r].subject = req[r].subject /\ req'[r].payload = req[r].payload
    BY <1>0, <1>11 DEF SaveScore, SaveProgress, Request
  <2> QED BY <1>1, <2>1 DEF LoggedInv
<1> QED
  BY RequestFrame, <1>3, <1>4, <1>5, <1>6, <1>7, <1>8, <1>9, <1>10, <1>11 DEF RequestStep

LEMMA WorkerLogged ==
  ASSUME TypeInv, IdInv, LoggedInv, [Next]_vars,
         NEW w \in Workers, worker'[w] # None, NEW b \in Held(worker'[w])
  PROVE  Logged(b.row.subject, b.row.payload)'
<1>0. rows \in [RowIds -> Row \cup {None}]
  BY DEF TypeInv, TypeOK
<1>1. Logged(b.row.subject, b.row.payload)
  <2>1. CASE worker[w] # None /\ b \in Held(worker[w])
    BY <2>1 DEF LoggedInv
  <2>2. CASE b.id \in RowIds /\ rows[b.id] # None /\ b.row = rows[b.id]
    BY <1>0, <2>2 DEF Logged, HasRow, Row
  <2> QED BY <2>1, <2>2, HeldStep
<1> QED BY <1>1, LoggedGrows

LEMMA JobLogged ==
  ASSUME TypeInv, IdInv, LoggedInv, [Next]_vars,
         NEW j \in JobSlots, job'[j] # None, job'[j].pc = "save"
  PROVE  Logged(job[j].subject, job[j].payload)'
<1>0. /\ job \in [JobSlots -> Retrying \cup {None}]
      /\ req \in [Requests -> Request \cup {None}]
  BY DEF TypeInv, TypeOK, ProcessOK, Retrying
<1>7. ASSUME NEW s, NEW p, Logged(s, p), job'[j].subject = s, job'[j].payload = p
      PROVE  Logged(job[j].subject, job[j].payload)'
  BY <1>7, LoggedGrows DEF Logged, HasRow
<1>1. CASE job'[j] = job[j]
  BY <1>1, <1>7 DEF LoggedInv
<1>2. CASE Crash
  BY <1>2 DEF Crash
<1>3. ASSUME NEW r \in Requests, PublishRecord(r)
      PROVE  job'[j] = job[j]
  <2> DEFINE new(line) == NextJob(req[r].subject, req[r].payload, 0, line)
  <2>1. req[r].subject \in Subjects /\ req[r].payload \in Payloads
    BY <1>0, <1>3 DEF PublishRecord, Request
  <2>2. \A line \in BOOLEAN : new(line) # None => new(line).pc = "timer"
    BY <2>1, NextJobType
  <2>3. UNCHANGED job \/ \E line \in BOOLEAN :
           new(line) # None /\ \E i \in JobSlots : job' = [job EXCEPT ![i] = new(line)]
    BY <1>3, RecordSchedules DEF Schedule
  <2> HIDE DEF new
  <2> QED BY <1>0, <2>2, <2>3
<1>4. ASSUME NEW i \in JobSlots, JobStep(i) \/ JobFault(i), i # j
      PROVE  job'[j] = job[j]
  BY <1>0, <1>4 DEF JobStep, JobSend, JobRecord, JobSave, JobFault
<1>5. CASE (\E out \in Posted : JobSend(j, out)) \/ JobSave(j) \/ JobFault(j)
  BY <1>0, <1>5 DEF JobSend, JobSave, JobFault, Retrying, Job
<1>6. CASE JobRecord(j)
  <2> DEFINE next == NextJob(job[j].subject, job[j].payload, job[j].count, job[j].line)
             row == OutcomeRow(job[j].subject, job[j].payload, job[j].out,
                                job[j].count, "failed", job[j].line)
  <2>1. /\ job[j].subject \in Subjects /\ job[j].payload \in Payloads /\ job[j].count \in Nat
        /\ job[j].out \in Outcomes /\ job[j].line \in BOOLEAN
    BY <1>0, <1>6 DEF JobRecord, Retrying, Job
  <2>2. next # None => next.pc = "timer"
    BY <2>1, NextJobType
  <2>3. row \in Row /\ row.subject = job[j].subject /\ row.payload = job[j].payload
    BY <2>1 DEF OutcomeRow, NewRow, NextRetryAt, Row, RowStatuses, Outcomes
  <2>4. Insert(row)
    BY <1>6 DEF JobRecord
  <2>5. job'[j] = IF job[j].out = "error" THEN next ELSE [job[j] EXCEPT !.pc = "save"]
    BY <1>0, <1>6 DEF JobRecord
  <2> HIDE DEF next, row
  <2>6. job'[j].subject = job[j].subject /\ job'[j].payload = job[j].payload
    BY <1>0, <1>6, <2>2, <2>5 DEF JobRecord, Retrying, Job
  <2>7. PICK x \in Row : Insert(x) /\ x.subject = job'[j].subject /\ x.payload = job'[j].payload
    BY <2>3, <2>4, <2>6
  <2>8. Logged(x.subject, x.payload)'
    BY <2>7, LoggedGrows
  <2> QED BY <2>7, <2>8 DEF Logged, HasRow
<1> QED BY JobFrame, <1>1, <1>2, <1>3, <1>4, <1>5, <1>6 DEF JobStep

LEMMA ScoreLogged ==
  ASSUME TypeInv, IdInv, LoggedInv, [Next]_vars,
         NEW s \in Subjects, scores'[s] # None, scores'[s].status # "not_ready"
  PROVE  Logged(s, scores[s].payload)'
<1>0. /\ scores \in [Subjects -> Score \cup {None}]
      /\ worker \in [Workers -> Processing \cup {None}]
  BY DEF TypeInv, TypeOK, ProcessOK, Processing
<1>1. ASSUME NEW p, Logged(s, p), scores'[s].payload = p
      PROVE  Logged(s, scores[s].payload)'
  BY <1>1, LoggedGrows DEF Logged, HasRow
<1>2. CASE scores'[s] = scores[s]
  BY <1>1, <1>2 DEF LoggedInv, ScoreOutcomeRecorded
<1>3. ASSUME NEW t, NEW p, NEW st, UpsertScore(t, p, st), st # "not_ready" => Logged(t, p)
      PROVE  Logged(s, scores[s].payload)'
  <2>1. CASE s = t
    <3>1. scores'[s].payload = p /\ st # "not_ready"
      BY <1>0, <1>3, <2>1 DEF UpsertScore
    <3> QED BY <1>1, <1>3, <2>1, <3>1
  <2>2. CASE s # t
    BY <1>0, <1>2, <1>3, <2>2 DEF UpsertScore
  <2> QED BY <2>1, <2>2
<1>4. ASSUME NEW r \in Requests, SaveScore(r)
      PROVE  Logged(s, scores[s].payload)'
  BY <1>3, <1>4 DEF SaveScore, LoggedInv
<1>5. ASSUME NEW w \in Workers, WriteScore(w) \/ EchoScore(w)
      PROVE  Logged(s, scores[s].payload)'
  <2>1. worker[w] # None /\ worker[w].cur \in Held(worker[w])
    BY <1>0, <1>5, NoneAssumption DEF WriteScore, EchoScore, Held, Processing
  <2>2. Logged(worker[w].cur.row.subject, worker[w].cur.row.payload)
    BY <2>1 DEF LoggedInv
  <2> QED BY <1>3, <1>5, <2>2 DEF WriteScore, EchoScore
<1>6. ASSUME NEW j \in JobSlots, JobSave(j)
      PROVE  Logged(s, scores[s].payload)'
  BY <1>3, <1>6 DEF JobSave, LoggedInv
<1> QED BY ScoreFrame, <1>2, <1>4, <1>5, <1>6

LEMMA LoggedStep ==
  ASSUME TypeInv, IdInv, LoggedInv, [Next]_vars
  PROVE  LoggedInv'
<1>1. ScoreOutcomeRecorded'
  BY ScoreLogged DEF ScoreOutcomeRecorded, Logged, HasRow
<1> QED
  BY <1>1, RequestLogged, WorkerLogged, JobLogged DEF LoggedInv, Logged, HasRow

\* A score never shows an AGS status without an attempt for that payload, unless
\* retention deleted the attempt.
THEOREM ScoreOutcomeIsRecorded == Spec => []ScoreOutcomeRecorded
<1>1. Init => TypeInv /\ IdInv /\ LoggedInv
  BY TypeInvInit DEF Init, IdInv, LoggedInv, ScoreOutcomeRecorded
<1>2. TypeInv /\ IdInv /\ LoggedInv /\ [Next]_vars => (TypeInv /\ IdInv /\ LoggedInv)'
  BY TypeInvStep, IdInvStep, LoggedStep
<1>3. LoggedInv => ScoreOutcomeRecorded
  BY DEF LoggedInv
<1> QED BY <1>1, <1>2, <1>3, PTL DEF Spec

-----------------------------------------------------------------------------
(* The refinement. A delivery is Accept, an insert is Record, a write of a  *)
(* score is Show, and everything else changes nothing GradeSync sees.       *)
Lms == [s \in Subjects |-> {p \in Payloads : Delivered(s, p)}]
Log == {sp \in Subjects \X Payloads : Logged(sp[1], sp[2])}
AbstractStep == Abstract!Next \/ UNCHANGED <<Lms, Log, scores>>

LEMMA LogKept ==
  ASSUME UNCHANGED queue PROVE Log' = Log
  BY DEF queue, Log, Logged, HasRow

LEMMA LmsKept ==
  ASSUME UNCHANGED posts PROVE Lms' = Lms
  BY DEF Lms, Delivered

LEMMA DeliverAccepts ==
  ASSUME TypeInv, UNCHANGED queue, UNCHANGED scores,
         NEW s \in Subjects, NEW p \in Payloads, NEW out \in Posted, Deliver(s, p, out)
  PROVE  AbstractStep
<1>0. posts \in [Subjects -> [Payloads -> 0..2]]
  BY DEF TypeInv, TypeOK
<1>1. Log' = Log
  BY LogKept
<1>2. CASE out \notin {"published", "lost"}
  BY <1>1, <1>2, LmsKept DEF Deliver, AbstractStep
<1>3. CASE out \in {"published", "lost"}
  <2> DEFINE n == IF posts[s][p] < 2 THEN posts[s][p] + 1 ELSE 2
  <2>1. posts' = [posts EXCEPT ![s][p] = n]
    BY <1>3 DEF Deliver
  <2>2. n > 0
    BY <1>0
  <2> HIDE DEF n
  <2>3. \A t \in Subjects, q \in Payloads :
           Delivered(t, q)' <=> Delivered(t, q) \/ (t = s /\ q = p)
    BY <1>0, <2>1, <2>2 DEF Delivered
  <2>4. \A t \in Subjects :
           {q \in Payloads : Delivered(t, q)'} =
              IF t = s THEN {q \in Payloads : Delivered(t, q)} \cup {p}
                       ELSE {q \in Payloads : Delivered(t, q)}
    BY <2>3
  <2>5. Lms' = [Lms EXCEPT ![s] = @ \cup {p}]
    BY <2>4 DEF Lms
  <2>6. Abstract!Accept(s, p)
    BY <1>1, <2>5 DEF Abstract!Accept, Lms, Log
  <2> QED BY <2>6 DEF Abstract!Next, AbstractStep
<1> QED BY <1>2, <1>3

LEMMA InsertRecords ==
  ASSUME TypeInv, IdInv, [Next]_vars, UNCHANGED posts, UNCHANGED scores,
         NEW row \in Row, Insert(row)
  PROVE  AbstractStep
<1>1. Lms' = Lms
  BY LmsKept
<1>2. row.subject \in Subjects /\ row.payload \in Payloads
  BY DEF Row
<1>3. \A s, p : Logged(s, p)' => Logged(s, p) \/ (s = row.subject /\ p = row.payload)
  BY DEF Insert, Logged, HasRow, TypeInv, TypeOK
<1>4. Log' = Log \cup {<<row.subject, row.payload>>}
  BY <1>2, <1>3, LoggedGrows DEF Log
<1>5. Abstract!Record(row.subject, row.payload)
  BY <1>1, <1>4 DEF Abstract!Record, Lms, Log
<1> QED BY <1>2, <1>5 DEF Abstract!Next, AbstractStep

LEMMA RewriteKeepsLog ==
  ASSUME TypeInv, NEW i \in RowIds, NEW row \in Row, Rewrite(i, row)
  PROVE  Log' = Log
<1>0. rows \in [RowIds -> Row \cup {None}]
  BY DEF TypeInv, TypeOK
<1>1. \A k \in RowIds : /\ rows'[k] = None <=> rows[k] = None
                        /\ rows[k] # None =>
                              /\ rows'[k].subject = rows[k].subject
                              /\ rows'[k].payload = rows[k].payload
                              /\ rows[k].status \in RowStatuses
                              /\ rows'[k].status \in RowStatuses
  BY <1>0, NoneAssumption DEF Rewrite, Row
<1>2. \A s, p : HasRow(s, p, RowStatuses)' <=> HasRow(s, p, RowStatuses)
  BY <1>1 DEF HasRow
<1> QED BY <1>2 DEF Rewrite, Log, Logged

LEMMA CleanupKeepsLog ==
  ASSUME TypeInv, IdInv, [Next]_vars, NEW k \in RowIds, Cleanup(k)
  PROVE  Log' = Log
<1>0. rows \in [RowIds -> Row \cup {None}]
  BY DEF TypeInv, TypeOK
<1>1. ASSUME NEW s, NEW p, <<s, p>> \in purged', <<s, p>> \notin purged
      PROVE  HasRow(s, p, RowStatuses)
  <2>1. PICK i \in 1..k : rows[i] # None /\ rows[i].subject = s /\ rows[i].payload = p
    BY <1>1 DEF Cleanup
  <2>2. i \in RowIds
    BY BoundsAssumption DEF RowIds
  <2> QED BY <1>0, <2>1, <2>2 DEF HasRow, Row
<1>2. ASSUME NEW s, NEW p, HasRow(s, p, RowStatuses)'
      PROVE  HasRow(s, p, RowStatuses)
  BY <1>2 DEF Cleanup, HasRow
<1>3. \A s, p : Logged(s, p)' => Logged(s, p)
  BY <1>1, <1>2 DEF Logged
<1> QED BY <1>3, LoggedGrows DEF Log

LEMMA ScoreShows ==
  ASSUME UNCHANGED posts, UNCHANGED queue,
         NEW s \in Subjects, NEW p \in Payloads, NEW st \in ScoreStatuses,
         UpsertScore(s, p, st), st # "not_ready" => Logged(s, p),
         st = "published" => Delivered(s, p)
  PROVE  AbstractStep
<1>1. Lms' = Lms /\ Log' = Log
  BY LmsKept, LogKept
<1>2. st # "not_ready" => <<s, p>> \in Log
  BY DEF Log
<1>3. st = "published" => p \in Lms[s]
  BY DEF Lms
<1>4. Abstract!Show(s, p, st)
  BY <1>1, <1>2, <1>3 DEF Abstract!Show, UpsertScore, Lms, Log
<1> QED BY <1>4 DEF Abstract!Next, AbstractStep

LEMMA StepRefines ==
  ASSUME TypeInv, IdInv, DeliveredInv, LoggedInv, [Next]_vars
  PROVE  AbstractStep
<1>0. /\ req \in [Requests -> Request \cup {None}]
      /\ worker \in [Workers -> Processing \cup {None}]
      /\ job \in [JobSlots -> Retrying \cup {None}]
  BY DEF TypeInv, TypeOK, ProcessOK, Processing, Retrying
<1> USE DEF records
<1>1. CASE UNCHANGED <<queue, posts, scores>>
  BY <1>1, LmsKept, LogKept DEF AbstractStep
<1>2. ASSUME NEW r \in Requests, NEW out \in Posted, PublishSend(r, out)
      PROVE  AbstractStep
  <2>1. req[r].subject \in Subjects /\ req[r].payload \in Payloads
    BY <1>0, <1>2 DEF PublishSend, Request
  <2> QED BY <1>2, <2>1, DeliverAccepts DEF PublishSend, Send
<1>3. ASSUME NEW w \in Workers, NEW out \in Posted, AttemptSend(w, out)
      PROVE  AbstractStep
  <2>1. worker[w].cur.row.subject \in Subjects /\ worker[w].cur.row.payload \in Payloads
    BY <1>0, <1>3 DEF AttemptSend, Processing, Snapshot, Row
  <2> QED BY <1>3, <2>1, DeliverAccepts DEF AttemptSend, Send
<1>4. ASSUME NEW j \in JobSlots, NEW out \in Posted, JobSend(j, out)
      PROVE  AbstractStep
  <2>1. job[j].subject \in Subjects /\ job[j].payload \in Payloads
    BY <1>0, <1>4 DEF JobSend, Retrying, Job
  <2> QED BY <1>4, <2>1, DeliverAccepts DEF JobSend
<1>5. ASSUME UNCHANGED <<posts, scores>>
      PROVE  AbstractStep
  <2>1. CASE UNCHANGED queue
    BY <1>1, <1>5, <2>1
  <2>2. CASE \E row \in Row : Insert(row)
    BY <1>5, <2>2, InsertRecords
  <2>3. CASE \E i \in RowIds, row \in Row : Rewrite(i, row)
    BY <1>5, <2>3, RewriteKeepsLog, LmsKept DEF AbstractStep
  <2>4. CASE \E k \in RowIds : Cleanup(k)
    BY <1>5, <2>4, CleanupKeepsLog, LmsKept DEF AbstractStep
  <2> QED BY <2>1, <2>2, <2>3, <2>4, QueueMoves
<1>6. ASSUME NEW r \in Requests, SaveScore(r)
      PROVE  AbstractStep
  <2>1. /\ req[r].subject \in Subjects /\ req[r].payload \in Payloads
        /\ req[r].status \in ScoreStatuses
        /\ req[r].status # "not_ready" => Logged(req[r].subject, req[r].payload)
        /\ req[r].status = "published" => Delivered(req[r].subject, req[r].payload)
    BY <1>0, <1>6 DEF SaveScore, Request, LoggedInv, DeliveredInv, RequestKnows
  <2> QED BY <1>6, <2>1, ScoreShows DEF SaveScore
<1>7. ASSUME NEW w \in Workers, WriteScore(w) \/ EchoScore(w)
      PROVE  AbstractStep
  <2> DEFINE s == worker[w].cur.row.subject
             p == worker[w].cur.row.payload
             st == IF worker[w].out = "error" THEN "failed" ELSE worker[w].out
  <2>1. /\ s \in Subjects /\ p \in Payloads /\ worker[w].out \in Outcomes
        /\ worker[w].cur \in Held(worker[w]) /\ worker[w] # None
        /\ EchoScore(w) => worker[w].out # "error"
    BY <1>0, <1>7, NoneAssumption
       DEF WriteScore, EchoScore, Processing, Processor, Snapshot, Row, Held
  <2>2. st \in ScoreStatuses
    BY <2>1 DEF Outcomes, ScoreStatuses
  <2>3. Logged(s, p)
    BY <2>1 DEF LoggedInv
  <2>4. worker[w].out = "published" => Delivered(s, p)
    BY <1>7 DEF WriteScore, EchoScore, DeliveredInv, ProcessorKnows
  <2>5. UpsertScore(s, p, st) /\ UNCHANGED <<posts, queue>>
    BY <1>7, <2>1 DEF WriteScore, EchoScore
  <2> HIDE DEF s, p
  <2> QED BY <2>1, <2>2, <2>3, <2>4, <2>5, ScoreShows
<1>8. ASSUME NEW j \in JobSlots, JobSave(j)
      PROVE  AbstractStep
  <2>1. /\ job[j].subject \in Subjects /\ job[j].payload \in Payloads
        /\ job[j].out \in ScoreStatuses
        /\ Logged(job[j].subject, job[j].payload)
        /\ job[j].out = "published" => Delivered(job[j].subject, job[j].payload)
    BY <1>0, <1>8 DEF JobSave, Retrying, Job, Outcomes, ScoreStatuses, LoggedInv,
                      DeliveredInv, JobKnows
  <2> QED BY <1>8, <2>1, ScoreShows DEF JobSave
<1> QED BY PostFrame, ScoreFrame, <1>2, <1>3, <1>4, <1>5, <1>6, <1>7, <1>8

\* AgsPublish implements GradeSync: whatever the interleaving, what PACT shows is
\* borne out by the LMS and by the log.
THEOREM AgsPublishImplementsGradeSync == Spec => ImplementsGradeSync
<1>1. Init => Abstract!Init
  <2> SUFFICES ASSUME Init PROVE Abstract!Init
    OBVIOUS
  <2>1. Lms = [s \in Subjects |-> {}]
    BY DEF Init, Lms, Delivered
  <2>2. Log = {}
    BY DEF Init, Log, Logged, HasRow
  <2> QED BY <2>1, <2>2 DEF Init, Abstract!Init, Lms, Log
<1>2. Init => TypeInv /\ IdInv /\ DeliveredInv /\ LoggedInv
  BY TypeInvInit
     DEF Init, IdInv, DeliveredInv, PublishedWasDelivered, LoggedInv, ScoreOutcomeRecorded
<1>3. TypeInv /\ IdInv /\ DeliveredInv /\ LoggedInv /\ [Next]_vars
         => (TypeInv /\ IdInv /\ DeliveredInv /\ LoggedInv)'
  BY TypeInvStep, IdInvStep, DeliveredStep, LoggedStep
<1>4. TypeInv /\ IdInv /\ DeliveredInv /\ LoggedInv /\ [Next]_vars
         => [Abstract!Next]_<<Lms, Log, scores>>
  BY StepRefines DEF AbstractStep
<1> QED BY <1>1, <1>2, <1>3, <1>4, PTL DEF Spec, ImplementsGradeSync, Abstract!Spec, Lms, Log

-----------------------------------------------------------------------------
(* One processor at a time and no failed database call: what the processor still *)
(* has to do is open, each row of it once, and nobody else writes to it. So the   *)
(* outcome is written to the row as it was listed.                                *)
RowsToWrite(x) ==
    x.batch \cup (IF x.pc \in {"send", "outcome"} THEN {x.cur} ELSE {})

\* The row of a snapshot is unsettled and has the retryCount of the snapshot.
StillOpen(b) ==
    rows[b.id] # None => /\ rows[b.id].status \in {"failed", "pending", "retry_exhausted"}
                         /\ rows[b.id].retryCount = b.row.retryCount

EachOnce(x) ==
    /\ \A b, c \in RowsToWrite(x) : b.id = c.id => b = c
    /\ x.pc \in {"send", "outcome"} => x.cur \notin x.batch

OpenInv ==
    \A w \in Workers : worker[w] # None =>
       EachOnce(worker[w]) /\ \A b \in RowsToWrite(worker[w]) : StillOpen(b)

\* A row that is in the queue changes by the outcome of a retry, or only in its date.
LEMMA RowChanges ==
  ASSUME TypeInv, IdInv, [Next]_vars, NEW i \in RowIds, rows[i] # None, rows'[i] # None
  PROVE  \/ rows'[i].status = rows[i].status /\ rows'[i].retryCount = rows[i].retryCount
         \/ \E w \in Workers : WriteOutcome(w) /\ i = worker[w].cur.id
<1>0. /\ rows \in [RowIds -> Row \cup {None}] /\ nextRow \in 1..(RowPool + 1)
      /\ i < nextRow
  BY BoundsAssumption DEF TypeInv, TypeOK, IdInv, RowIds
<1>1. CASE UNCHANGED queue
  BY <1>1 DEF queue
<1>2. CASE \E row : Insert(row)
  <2>1. rows'[i] = rows[i]
    BY <1>0, <1>2, BoundsAssumption DEF Insert, RowIds
  <2> QED BY <2>1
<1>3. CASE \/ \E r \in Requests : RecordSkip(r) \/ InsertPending(r) \/ PublishRecord(r)
           \/ \E j \in JobSlots : JobRecord(j)
  <2>1. \E row : Insert(row)
    BY <1>3 DEF RecordSkip, InsertPending, PublishRecord, JobRecord
  <2> QED BY <1>2, <2>1
<1>4. ASSUME NEW w \in Workers, WriteOutcome(w), i # worker[w].cur.id
      PROVE  rows'[i] = rows[i]
  BY <1>0, <1>4 DEF WriteOutcome
<1>5. CASE \E k \in RowIds : Elapse(k)
  BY <1>0, <1>5 DEF Elapse, Row
<1>6. CASE \E k \in RowIds : Cleanup(k)
  BY <1>0, <1>6 DEF Cleanup
<1> QED BY QueueChanges, <1>1, <1>3, <1>4, <1>5, <1>6 DEF QueueFrame

\* Nor does a row that was deleted come back.
LEMMA RowsStayAway ==
  ASSUME TypeInv, IdInv, [Next]_vars, NEW i \in RowIds, i < nextRow, rows[i] = None
  PROVE  rows'[i] = None
<1>0. rows \in [RowIds -> Row \cup {None}] /\ nextRow \in 1..(RowPool + 1)
  BY DEF TypeInv, TypeOK
<1>1. CASE UNCHANGED queue
  BY <1>1 DEF queue
<1>2. CASE \E row \in Row : Insert(row)
  BY <1>0, <1>2, BoundsAssumption DEF Insert, RowIds
<1>3. CASE \E k \in RowIds, row \in Row : Rewrite(k, row)
  BY <1>0, <1>3 DEF Rewrite
<1>4. CASE \E k \in RowIds : Cleanup(k)
  BY <1>0, <1>4 DEF Cleanup
<1> QED BY QueueMoves, <1>1, <1>2, <1>3, <1>4

\* What a processor has to write after a step, it had before, or it lists it now.
LEMMA WriteStep ==
  ASSUME TypeInv, OpenInv, MaxFaults = 0, [Next]_vars, NEW w \in Workers, worker'[w] # None
  PROVE  /\ EachOnce(worker'[w])
         /\ \/ /\ worker[w] # None
               /\ RowsToWrite(worker'[w]) \subseteq RowsToWrite(worker[w])
               /\ WriteOutcome(w) =>
                     \A b \in RowsToWrite(worker'[w]) : b.id # worker[w].cur.id
            \/ /\ rows' = rows /\ nextRow' = nextRow
               /\ \A b \in RowsToWrite(worker'[w]) :
                     /\ b.id \in RowIds /\ rows[b.id] # None /\ b.row = rows[b.id]
                     /\ rows[b.id].status \in {"failed", "pending", "retry_exhausted"}
<1>0. worker \in [Workers -> Processing \cup {None}] /\ faults \in 0..MaxFaults
  BY DEF TypeInv, TypeOK, ProcessOK, Processing
<1>1. CASE UNCHANGED worker
  <2>1. ~WriteOutcome(w)
    BY <1>0, <1>1 DEF WriteOutcome, Processing, Processor
  <2> QED BY <1>1, <2>1 DEF OpenInv
<1>2. CASE Crash
  BY <1>2 DEF Crash
<1>3. ASSUME NEW v \in Workers, WorkerFault(v)
      PROVE  FALSE
  BY <1>0, <1>3 DEF WorkerFault
<1>4. ASSUME NEW v \in Workers, Writer(v), v # w
      PROVE  worker'[w] = worker[w]
  BY <1>0, <1>4 DEF Writer, WorkerStep, ListDue, TakeNext, EndPass, AttemptSend, WriteOutcome,
                    WriteScore, EchoScore, RetryOne
<1>5. ASSUME worker'[w] = worker[w]
      PROVE  EachOnce(worker'[w]) /\ RowsToWrite(worker'[w]) \subseteq RowsToWrite(worker[w])
             /\ worker[w] # None /\ ~WriteOutcome(w)
  BY <1>0, <1>5 DEF OpenInv, WriteOutcome, Processing, Processor
<1>6. ASSUME Writer(w)
      PROVE  /\ EachOnce(worker'[w])
             /\ \/ /\ worker[w] # None
                   /\ RowsToWrite(worker'[w]) \subseteq RowsToWrite(worker[w])
                   /\ WriteOutcome(w) =>
                         \A b \in RowsToWrite(worker'[w]) : b.id # worker[w].cur.id
                \/ /\ rows' = rows /\ nextRow' = nextRow
                   /\ \A b \in RowsToWrite(worker'[w]) :
                         /\ b.id \in RowIds /\ rows[b.id] # None /\ b.row = rows[b.id]
                         /\ rows[b.id].status \in {"failed", "pending", "retry_exhausted"}
  <2>1. worker[w] # None => worker[w] \in Processing /\ EachOnce(worker[w])
    BY <1>0 DEF OpenInv
  <2>2. CASE ListDue(w)
    <3>1. worker'[w] = [pc |-> "next", batch |-> {[id |-> i, row |-> rows[i]] : i \in Due},
                        cur |-> None, token |-> FALSE, single |-> FALSE, out |-> "error"]
      BY <1>0, <2>2 DEF ListDue
    <3>2. RowsToWrite(worker'[w]) = {[id |-> i, row |-> rows[i]] : i \in Due}
      BY <3>1 DEF RowsToWrite
    <3>3. EachOnce(worker'[w])
      BY <3>1, <3>2 DEF EachOnce
    <3> QED BY <2>2, <3>2, <3>3 DEF ListDue, Due, queue
  <2>3. CASE TakeNext(w)
    <3>1. PICK b \in worker[w].batch :
             worker' = [worker EXCEPT ![w].batch = @ \ {b},
                                      ![w].cur = IF enrolled[b.row.subject] THEN b ELSE None,
                                      ![w].pc = IF enrolled[b.row.subject] THEN "send" ELSE "next"]
      BY <2>3 DEF TakeNext
    <3>2. worker[w] # None /\ worker[w].pc = "next"
      BY <2>3 DEF TakeNext
    <3>3. /\ worker'[w].batch = worker[w].batch \ {b}
          /\ \/ worker'[w].pc = "send" /\ worker'[w].cur = b
             \/ worker'[w].pc = "next"
      BY <1>0, <2>1, <3>1, <3>2 DEF Processing, Processor
    <3>4. RowsToWrite(worker'[w]) \subseteq RowsToWrite(worker[w])
      BY <3>3 DEF RowsToWrite
    <3>5. EachOnce(worker'[w])
      BY <2>1, <3>2, <3>3, <3>4 DEF EachOnce
    <3>6. ~WriteOutcome(w)
      BY <3>2 DEF WriteOutcome
    <3> QED BY <3>2, <3>4, <3>5, <3>6
  <2>4. CASE EndPass(w) \/ EchoScore(w)
    BY <1>0, <2>4 DEF EndPass, EchoScore
  <2>5. CASE \E out \in Posted : AttemptSend(w, out)
    <3>1. /\ worker[w] # None /\ worker[w].pc = "send" /\ worker'[w].pc = "outcome"
          /\ worker'[w].batch = worker[w].batch /\ worker'[w].cur = worker[w].cur
      BY <1>0, <2>5 DEF AttemptSend, Processing, Processor
    <3>2. RowsToWrite(worker'[w]) = RowsToWrite(worker[w])
      BY <3>1 DEF RowsToWrite
    <3>3. EachOnce(worker'[w]) /\ ~WriteOutcome(w)
      BY <2>1, <3>1, <3>2 DEF EachOnce, WriteOutcome
    <3> QED BY <3>1, <3>2, <3>3
  <2>6. CASE WriteOutcome(w)
    <3>1. /\ worker[w] # None /\ worker[w].pc = "outcome" /\ worker'[w].pc = "score"
          /\ worker'[w].batch = worker[w].batch
      BY <1>0, <2>6 DEF WriteOutcome, Processing, Processor
    <3>2. /\ RowsToWrite(worker'[w]) = worker[w].batch
          /\ RowsToWrite(worker[w]) = worker[w].batch \cup {worker[w].cur}
      BY <3>1 DEF RowsToWrite
    <3>3. EachOnce(worker'[w])
      BY <2>1, <3>1, <3>2 DEF EachOnce
    <3>4. \A b \in worker[w].batch : b.id # worker[w].cur.id
      BY <2>1, <3>1, <3>2 DEF EachOnce
    <3> QED BY <3>1, <3>2, <3>3, <3>4
  <2>7. CASE WriteScore(w)
    <3>1. /\ worker[w] # None /\ worker[w].pc = "score"
          /\ worker'[w] = AfterScore(worker[w])
      BY <1>0, <2>7 DEF WriteScore
    <3>2. /\ worker'[w].batch = worker[w].batch /\ worker'[w].pc \in {"next", "echo"}
      BY <2>1, <3>1 DEF AfterScore, Abandon, Processing, Processor
    <3>3. RowsToWrite(worker'[w]) = worker[w].batch /\ RowsToWrite(worker[w]) = worker[w].batch
      BY <3>1, <3>2 DEF RowsToWrite
    <3>4. EachOnce(worker'[w]) /\ ~WriteOutcome(w)
      BY <2>1, <3>1, <3>2, <3>3 DEF EachOnce, WriteOutcome
    <3> QED BY <3>1, <3>3, <3>4
  <2>8. CASE \E i \in RowIds, t \in Tokens : RetryOne(w, i, t)
    <3>1. PICK i \in RowIds, t \in Tokens : RetryOne(w, i, t)
      BY <2>8
    <3>2. worker'[w] = [pc |-> "send", batch |-> {}, cur |-> [id |-> i, row |-> rows[i]],
                        token |-> t, single |-> TRUE, out |-> "error"]
      BY <1>0, <3>1 DEF RetryOne
    <3>3. RowsToWrite(worker'[w]) = {[id |-> i, row |-> rows[i]]}
      BY <3>2 DEF RowsToWrite
    <3>4. EachOnce(worker'[w])
      <4>1. worker'[w].batch = {}
        BY <3>2
      <4>2. \A b, c \in RowsToWrite(worker'[w]) : b = c
        BY <3>3
      <4> QED BY <4>1, <4>2 DEF EachOnce
    <3>5. \A b \in RowsToWrite(worker'[w]) : b.id = i /\ b.row = rows[i]
      BY <3>3
    <3>6. /\ rows' = rows /\ nextRow' = nextRow /\ rows[i] # None
          /\ rows[i].status \in {"failed", "pending", "retry_exhausted"}
      BY <3>1 DEF RetryOne, queue
    <3> QED BY <3>4, <3>5, <3>6
  <2> QED BY <1>6, <2>2, <2>3, <2>4, <2>5, <2>6, <2>7, <2>8 DEF Writer, WorkerStep
<1> QED BY WorkerFrame, <1>1, <1>2, <1>3, <1>4, <1>5, <1>6

LEMMA OpenInvStep ==
  ASSUME TypeInv, IdInv, OpenInv, MaxFaults = 0, \A v, w \in Workers : v = w, [Next]_vars
  PROVE  OpenInv'
<1>0. worker \in [Workers -> Processing \cup {None}]
  BY DEF TypeInv, TypeOK, ProcessOK, Processing
<1> SUFFICES ASSUME NEW w \in Workers, worker'[w] # None
             PROVE  EachOnce(worker'[w]) /\ \A b \in RowsToWrite(worker'[w]) : StillOpen(b)'
  BY DEF OpenInv, EachOnce, RowsToWrite
<1>1. EachOnce(worker'[w])
  BY WriteStep
<1>2. ASSUME NEW b \in RowsToWrite(worker'[w]), rows'[b.id] # None
      PROVE  /\ rows'[b.id].status \in {"failed", "pending", "retry_exhausted"}
             /\ rows'[b.id].retryCount = b.row.retryCount
  <2>1. CASE /\ worker[w] # None
             /\ RowsToWrite(worker'[w]) \subseteq RowsToWrite(worker[w])
             /\ WriteOutcome(w) => b.id # worker[w].cur.id
    <3>1. b \in RowsToWrite(worker[w]) /\ StillOpen(b)
      BY <1>2, <2>1 DEF OpenInv
    <3>2. b \in Snapshot /\ b \in Held(worker[w])
      BY <1>0, <2>1, <3>1, NoneAssumption DEF RowsToWrite, Held, Processing, Processor
    <3>3. b.id \in RowIds /\ b.id < nextRow
      BY <2>1, <3>2 DEF IdInv, SameRow, Snapshot
    <3>4. rows[b.id] # None
      BY <1>2, <3>3, RowsStayAway
    <3>5. ~ \E v \in Workers : WriteOutcome(v) /\ b.id = worker[v].cur.id
      BY <2>1
    <3>6. rows'[b.id].status = rows[b.id].status /\ rows'[b.id].retryCount = rows[b.id].retryCount
      BY <1>2, <3>3, <3>4, <3>5, RowChanges
    <3> QED BY <3>1, <3>4, <3>6 DEF StillOpen
  <2>2. CASE /\ rows' = rows
             /\ b.row = rows[b.id]
             /\ rows[b.id].status \in {"failed", "pending", "retry_exhausted"}
    BY <2>2
  <2> QED BY <1>2, <2>1, <2>2, WriteStep
<1> QED BY <1>1, <1>2 DEF StillOpen

LEMMA RowsNotReopened ==
  ASSUME TypeInv, IdInv, OpenInv, [Next]_vars,
         NEW i \in RowIds, rows[i] # None, rows'[i] # None
  PROVE  /\ rows[i].status = "published" => rows'[i].status = "published"
         /\ rows'[i].retryCount >= rows[i].retryCount
<1>0. /\ rows \in [RowIds -> Row \cup {None}]
      /\ worker \in [Workers -> Processing \cup {None}]
  BY DEF TypeInv, TypeOK, ProcessOK, Processing
<1>1. rows[i].retryCount \in Nat
  BY <1>0 DEF Row
<1>2. CASE \E w \in Workers : WriteOutcome(w) /\ i = worker[w].cur.id
  <2>1. PICK w \in Workers : WriteOutcome(w) /\ i = worker[w].cur.id
    BY <1>2
  <2>2. worker[w] # None /\ worker[w].cur \in RowsToWrite(worker[w])
    BY <2>1 DEF WriteOutcome, RowsToWrite
  <2>3. rows[i].status # "published" /\ rows[i].retryCount = worker[w].cur.row.retryCount
    BY <2>1, <2>2 DEF OpenInv, StillOpen
  <2>4. rows'[i] = AttemptOutcome(rows[i], worker[w].out, worker[w].cur.row.retryCount + 1)
    BY <1>0, <2>1 DEF WriteOutcome
  <2>5. rows'[i].retryCount = worker[w].cur.row.retryCount + 1
    BY <1>0, <2>4 DEF AttemptOutcome, Row
  <2> QED BY <1>1, <2>3, <2>5
<1> QED BY <1>1, <1>2, RowChanges

\* With one processor and no failed database call no retry reopens a published attempt or
\* takes back a count: nobody writes to a row between its listing and its outcome.
THEOREM PublishedStaysPublished ==
  ASSUME MaxFaults = 0, \A v, w \in Workers : v = w
  PROVE  Spec => PublishedNotReopened
<1>1. Init => TypeInv /\ IdInv /\ OpenInv
  BY TypeInvInit DEF Init, IdInv, OpenInv
<1>2. TypeInv /\ IdInv /\ OpenInv /\ [Next]_vars => TypeInv' /\ IdInv' /\ OpenInv'
  BY TypeInvStep, IdInvStep, OpenInvStep
<1>3. TypeInv /\ IdInv /\ OpenInv /\ [Next]_vars =>
        [\A i \in RowIds :
           rows[i] # None /\ rows'[i] # None =>
              /\ rows[i].status = "published" => rows'[i].status = "published"
              /\ rows'[i].retryCount >= rows[i].retryCount]_vars
  BY RowsNotReopened
<1> QED BY <1>1, <1>2, <1>3, PTL DEF Spec, PublishedNotReopened
=============================================================================
