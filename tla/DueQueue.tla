------------------------------ MODULE DueQueue ------------------------------
(***************************************************************************)
(* The order in which passes take due publish attempts: the oldest date      *)
(* first, a batch at a time. An attempt whose user is deleted or in another   *)
(* course throws before anything is written, so that it keeps its date and is  *)
(* taken again by every pass.                                               *)
(*                                                                         *)
(* What an attempt is about, and what its post does to the score and the LMS, *)
(* is in AgsPublish, which takes due rows in any order.                      *)
(***************************************************************************)
EXTENDS Documents, Integers, FiniteSets, SequencesExt

CONSTANTS
    Rows,        \* the identities of attempts
    Processors,  \* passes that may run at the same time
    BatchSize,   \* the limit of a pass
    MaxRetries,  \* agsAutoRetryMaxAttempts
    MaxUpsets    \* bound: moves of users, deletions, failed calls and crashes

AttemptRow == [status : {"pending", "failed", "published", "retry_exhausted", "deleted"},
               count : Nat]

\* An attempt as a pass has read it.
Snapshot == [id : Rows, count : Nat]

ASSUME DueQueueAssumption ==
    /\ BatchSize \in Nat \ {0} /\ MaxRetries \in Nat \ {0} /\ MaxUpsets \in Nat
    /\ None \notin AttemptRow

VARIABLES
    row,      \* pactAgsPublishAttempts
    dueRows,  \* the open ones whose nextRetryAt has come, oldest date first
    later,    \* the open ones whose nextRetryAt is in the future
    away,     \* those whose user is not in the attempt's course
    batch,    \* what each running pass has yet to work on
    upsets    \* moves, deletions and faults so far

dueVars == <<row, dueRows, later, away, batch, upsets>>

Settled(r) == row[r].status \notin {"pending", "failed"}

-----------------------------------------------------------------------------
(* Attempts come and go.                                                   *)

\* A queued attempt is due at once, one that failed inline after a delay.
RecordRow(r) ==
    /\ row[r] = None /\ r = CHOOSE x \in Rows : row[x] = None
    /\ \/ /\ row' = [row EXCEPT ![r] = [status |-> "pending", count |-> 0]]
          /\ dueRows' = Append(dueRows, r) /\ UNCHANGED later
       \/ /\ row' = [row EXCEPT ![r] = [status |-> "failed", count |-> 0]]
          /\ later' = later \cup {r} /\ UNCHANGED dueRows
    /\ UNCHANGED <<away, batch, upsets>>

\* nextRetryAt comes.
DateComes(r) ==
    /\ r \in later
    /\ later' = later \ {r} /\ dueRows' = Append(dueRows, r)
    /\ UNCHANGED <<row, away, batch, upsets>>

Upset == upsets < MaxUpsets /\ upsets' = upsets + 1

\* The user moves to another course, or comes back.
MoveUser(r) ==
    /\ Upset
    /\ row[r] # None
    /\ away' = IF r \in away THEN away \ {r} ELSE away \cup {r}
    /\ UNCHANGED <<row, dueRows, later, batch>>

\* Retention looks at the age only.
DeleteRow(r) ==
    /\ Upset
    /\ row[r] # None
    /\ row' = [row EXCEPT ![r].status = "deleted"]
    /\ dueRows' = RemoveFirst(dueRows, r) /\ later' = later \ {r}
    /\ UNCHANGED <<away, batch>>

-----------------------------------------------------------------------------
(* A pass.                                                                 *)

\* listDueAgsPublishAttempts.
Batch ==
    [i \in 1..(IF Len(dueRows) < BatchSize THEN Len(dueRows) ELSE BatchSize) |->
        [id |-> dueRows[i], count |-> row[dueRows[i]].count]]

ListRows(p) ==
    /\ batch[p] = <<>> /\ dueRows # <<>>
    /\ batch' = [batch EXCEPT ![p] = Batch]
    /\ UNCHANGED <<row, dueRows, later, away, upsets>>

\* Mutant: the try is around the loop.
AfterThrowEnded(taken) == <<>>

\* What is left of a batch whose first attempt throws: the try is in the loop.
AfterThrow(taken) == Tail(taken)

\* requireUser or the check of the course throws.
SkipRow(p) ==
    /\ batch[p] # <<>> /\ Head(batch[p]).id \in away
    /\ batch' = [batch EXCEPT ![p] = AfterThrow(@)]
    /\ UNCHANGED <<row, dueRows, later, away, upsets>>

\* updateAgsPublishAttemptOutcome, by id: it finds nothing when the row was deleted.
\* A date is set if the attempt is to be retried and taken away if not.
Outcome(r, status, count) ==
    IF row[r].status = "deleted" THEN UNCHANGED <<row, dueRows, later>>
    ELSE /\ row' = [row EXCEPT ![r] = [status |-> status, count |-> count]]
         /\ dueRows' = RemoveFirst(dueRows, r)
         /\ later' = IF status = "failed" THEN later \cup {r} ELSE later \ {r}

\* The LMS takes the score (or there is nothing to post to, which settles the attempt
\* as well) or it does not; the count is the one that was listed plus one.
TryRow(p) ==
    /\ batch[p] # <<>> /\ Head(batch[p]).id \notin away
    /\ LET r == Head(batch[p]).id
           count == Head(batch[p]).count + 1
       IN \/ Outcome(r, "published", count)
          \/ Outcome(r, IF count >= MaxRetries THEN "retry_exhausted" ELSE "failed", count)
    /\ batch' = [batch EXCEPT ![p] = Tail(@)]
    /\ UNCHANGED <<away, upsets>>

\* A call rejects before the outcome is written: the attempt keeps its date.
TryFails(p) ==
    /\ Upset
    /\ batch[p] # <<>>
    /\ batch' = [batch EXCEPT ![p] = AfterThrow(@)]
    /\ UNCHANGED <<row, dueRows, later, away>>

PassesLost ==
    /\ Upset
    /\ batch' = [p \in Processors |-> <<>>]
    /\ UNCHANGED <<row, dueRows, later, away>>

-----------------------------------------------------------------------------
DueInit ==
    /\ row = [r \in Rows |-> None] /\ dueRows = <<>> /\ later = {} /\ away = {}
    /\ batch = [p \in Processors |-> <<>>] /\ upsets = 0

Work(p) == ListRows(p) \/ SkipRow(p) \/ TryRow(p)

DueNext ==
    \/ \E r \in Rows : RecordRow(r) \/ DateComes(r) \/ MoveUser(r) \/ DeleteRow(r)
    \/ \E p \in Processors : Work(p) \/ TryFails(p)
    \/ PassesLost

\* The interval starts passes again and again, their awaits end, and time passes.
DueFairness ==
    /\ \A p \in Processors : WF_dueVars(Work(p))
    /\ WF_dueVars(\E r \in Rows : DateComes(r))

DueSpec == DueInit /\ [][DueNext]_dueVars /\ DueFairness

-----------------------------------------------------------------------------
(* Properties.                                                             *)

\* Attempts that throw stay at the head of the queue, but as long as they do not fill
\* a batch none of the others starves behind them: in the end each is settled or its
\* user is away.
QueueMoves ==
    [](Cardinality(away \cap ToSet(dueRows)) < BatchSize) =>
        <>[](\A r \in Rows : row[r] # None => Settled(r) \/ r \in away)
=============================================================================
