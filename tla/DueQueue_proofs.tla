-------------------------- MODULE DueQueue_proofs ---------------------------
(* Proofs about DueQueue, for any attempts, passes, batch size and upsets. *)
EXTENDS DueQueue, Queue_proofs, TLAPS

\* Every variable has its type, a pass takes no more attempts than the batch size, and
\* only attempts that are recorded.
DueTypeOK ==
    /\ row \in [Rows -> AttemptRow \cup {None}]
    /\ dueRows \in Seq(Rows) /\ later \subseteq Rows /\ away \subseteq Rows
    /\ batch \in [Processors -> Seq(Snapshot)]
    /\ \A p \in Processors : Len(batch[p]) <= BatchSize
    /\ \A p \in Processors : \A i \in 1..Len(batch[p]) : row[batch[p][i].id] # None
    /\ upsets \in 0..MaxUpsets

Scheduled(r) == r \in later \/ \E i \in 1..Len(dueRows) : dueRows[i] = r

\* However passes overlap and whatever they overwrite, an attempt has a date exactly while
\* it is open, and one date only.
OpenIsScheduled ==
    /\ \A r \in Rows : Scheduled(r) <=> row[r] # None /\ ~Settled(r)
    /\ \A i, j \in 1..Len(dueRows) : dueRows[i] = dueRows[j] => i = j
    /\ \A i \in 1..Len(dueRows) : dueRows[i] \notin later

\* An attempt is open while it has retries left and exhausted only when it has none, by
\* the count that is stored.
WithinRetries(doc) ==
    /\ doc.status \in {"pending", "failed"} => doc.count < MaxRetries
    /\ doc.status = "retry_exhausted" => doc.count = MaxRetries

RetriesSpent ==
    /\ \A r \in Rows : row[r] # None => WithinRetries(row[r])
    /\ \A p \in Processors : \A i \in 1..Len(batch[p]) : batch[p][i].count < MaxRetries

\* No step puts an attempt before one that is due already.
NothingOvertakes ==
    [][\A x, y :
         Before(dueRows', x, y) /\ (\E i \in 1..Len(dueRows) : dueRows[i] = y)
            => Before(dueRows, x, y)]_dueVars

DueInv == DueTypeOK /\ OpenIsScheduled /\ RetriesSpent

BatchFits(b) ==
    /\ b \in Seq(Snapshot) /\ Len(b) <= BatchSize
    /\ \A i \in 1..Len(b) : row[b[i].id] # None /\ b[i].count < MaxRetries

\* A step that changes the dates of one attempt only: it has one afterwards, or none.
Rescheduled(r, open) ==
    /\ dueRows' \in Seq(Rows) /\ later' \subseteq Rows
    /\ \A i, j \in 1..Len(dueRows') : dueRows'[i] = dueRows'[j] => i = j
    /\ \A i \in 1..Len(dueRows') : dueRows'[i] \notin later'
    /\ \A x \in Rows \ {r} : Scheduled(x)' <=> Scheduled(x)
    /\ Scheduled(r)' <=> open

-----------------------------------------------------------------------------
(* The dates.                                                              *)

LEMMA JoinsQueue ==
    ASSUME DueTypeOK, OpenIsScheduled, NEW r \in Rows, \A i \in 1..Len(dueRows) : dueRows[i] # r,
           dueRows' = Append(dueRows, r), later' = later \ {r}
    PROVE  Rescheduled(r, TRUE)
  <1>1. dueRows \in Seq(Rows) /\ later \subseteq Rows
    BY DEF DueTypeOK
  <1>2. \A i, j \in 1..Len(dueRows) : dueRows[i] = dueRows[j] => i = j
    BY DEF OpenIsScheduled
  <1>3. /\ \A i, j \in 1..Len(Append(dueRows, r)) :
              Append(dueRows, r)[i] = Append(dueRows, r)[j] => i = j
        /\ \A x : (\E i \in 1..Len(Append(dueRows, r)) : Append(dueRows, r)[i] = x)
                     <=> x = r \/ \E i \in 1..Len(dueRows) : dueRows[i] = x
    BY ONLY <1>1, <1>2, AppendedOnce, \A i \in 1..Len(dueRows) : dueRows[i] # r, Zenon
  <1>4. /\ \A i, j \in 1..Len(dueRows') : dueRows'[i] = dueRows'[j] => i = j
        /\ \A x : (\E i \in 1..Len(dueRows') : dueRows'[i] = x)
                     <=> x = r \/ \E i \in 1..Len(dueRows) : dueRows[i] = x
    BY <1>3
  <1>5. dueRows' \in Seq(Rows) /\ later' \subseteq Rows
    BY <1>1
  <1>6. ASSUME NEW i \in 1..Len(dueRows')
        PROVE  dueRows'[i] \notin later'
    <2>1. dueRows'[i] = r \/ \E j \in 1..Len(dueRows) : dueRows[j] = dueRows'[i]
      BY <1>4
    <2> QED BY <2>1 DEF OpenIsScheduled
  <1>7. ASSUME NEW x \in Rows \ {r}
        PROVE  Scheduled(x)' <=> Scheduled(x)
    <2>1. (\E i \in 1..Len(dueRows') : dueRows'[i] = x) <=> \E i \in 1..Len(dueRows) : dueRows[i] = x
      BY <1>4, <1>7
    <2> QED BY <1>7, <2>1 DEF Scheduled
  <1>8. Scheduled(r)'
    BY <1>4 DEF Scheduled
  <1> QED BY <1>4, <1>5, <1>6, <1>7, <1>8 DEF Rescheduled

LEMMA LeavesQueue ==
    ASSUME DueTypeOK, OpenIsScheduled, NEW r \in Rows, dueRows' = RemoveFirst(dueRows, r),
           NEW open \in BOOLEAN, later' = IF open THEN later \cup {r} ELSE later \ {r}
    PROVE  Rescheduled(r, open)
  <1>1. dueRows \in Seq(Rows) /\ later \subseteq Rows
    BY DEF DueTypeOK
  <1>2. \A i, j \in 1..Len(dueRows) : dueRows[i] = dueRows[j] => i = j
    BY DEF OpenIsScheduled
  <1>3. /\ \A i, j \in 1..Len(RemoveFirst(dueRows, r)) :
              RemoveFirst(dueRows, r)[i] = RemoveFirst(dueRows, r)[j] => i = j
        /\ \A x : (\E i \in 1..Len(RemoveFirst(dueRows, r)) : RemoveFirst(dueRows, r)[i] = x)
                     <=> x # r /\ \E i \in 1..Len(dueRows) : dueRows[i] = x
    BY ONLY <1>1, <1>2, RemovedOnce, Zenon
  <1>4. /\ \A i, j \in 1..Len(dueRows') : dueRows'[i] = dueRows'[j] => i = j
        /\ \A x : (\E i \in 1..Len(dueRows') : dueRows'[i] = x)
                     <=> x # r /\ \E i \in 1..Len(dueRows) : dueRows[i] = x
    BY <1>3
  <1>5. dueRows' \in Seq(Rows) /\ later' \subseteq Rows
    BY <1>1, RemovedFromQueue
  <1>6. ASSUME NEW i \in 1..Len(dueRows')
        PROVE  dueRows'[i] \notin later'
    <2>1. dueRows'[i] # r /\ \E j \in 1..Len(dueRows) : dueRows[j] = dueRows'[i]
      BY <1>4
    <2> QED BY <2>1 DEF OpenIsScheduled
  <1>7. ASSUME NEW x \in Rows \ {r}
        PROVE  Scheduled(x)' <=> Scheduled(x)
    <2>1. (\E i \in 1..Len(dueRows') : dueRows'[i] = x) <=> \E i \in 1..Len(dueRows) : dueRows[i] = x
      BY <1>4, <1>7
    <2> QED BY <1>7, <2>1 DEF Scheduled
  <1>8. Scheduled(r)' <=> open
    <2>1. ~ \E i \in 1..Len(dueRows') : dueRows'[i] = r
      BY <1>4
    <2> QED BY <2>1 DEF Scheduled
  <1> QED BY <1>4, <1>5, <1>6, <1>7, <1>8 DEF Rescheduled

\* An attempt that is written with its dates.
LEMMA RowWritten ==
    ASSUME DueInv, NEW r \in Rows, NEW doc \in AttemptRow, row' = [row EXCEPT ![r] = doc],
           WithinRetries(doc), Rescheduled(r, doc.status \in {"pending", "failed"})
    PROVE  /\ row' \in [Rows -> AttemptRow \cup {None}]
           /\ \A x \in Rows : row[x] # None => row'[x] # None
           /\ \A x \in Rows : row'[x] # None => WithinRetries(row'[x])
           /\ OpenIsScheduled'
  <1> USE DueQueueAssumption
  <1>1. row \in [Rows -> AttemptRow \cup {None}] /\ doc # None
    BY DEF DueInv, DueTypeOK
  <1>2. row'[r] = doc /\ \A x \in Rows \ {r} : row'[x] = row[x]
    BY <1>1
  <1>3. \A x \in Rows : row'[x] # None => WithinRetries(row'[x])
    BY <1>2 DEF DueInv, RetriesSpent
  <1>4. \A x \in Rows \ {r} : Settled(x)' <=> Settled(x)
    BY <1>2 DEF Settled
  <1>5. Settled(r)' <=> doc.status \notin {"pending", "failed"}
    BY <1>2 DEF Settled
  <1>6. OpenIsScheduled'
    BY <1>1, <1>2, <1>4, <1>5 DEF DueInv, OpenIsScheduled, Rescheduled
  <1> QED BY <1>1, <1>2, <1>3, <1>6

\* A step that leaves every batch as it is, shortens it or loses it.
LEMMA BatchesKept ==
    ASSUME DueInv,
           row' \in [Rows -> AttemptRow \cup {None}], OpenIsScheduled',
           dueRows' \in Seq(Rows), later' \subseteq Rows, away' \subseteq Rows,
           upsets' \in 0..MaxUpsets,
           \A x \in Rows : row[x] # None => row'[x] # None,
           \A x \in Rows : row'[x] # None => WithinRetries(row'[x]),
           \/ batch' = batch
           \/ \E p \in Processors : \E b : BatchFits(b) /\ batch' = [batch EXCEPT ![p] = b]
           \/ batch' = [p \in Processors |-> <<>>]
    PROVE  DueInv'
  <1> USE DueQueueAssumption
  <1>1. batch \in [Processors -> Seq(Snapshot)] /\ \A p \in Processors : BatchFits(batch[p])
    BY DEF DueInv, DueTypeOK, RetriesSpent, BatchFits
  <1>2. BatchFits(<<>>)
    BY DEF BatchFits
  <1>3. batch' \in [Processors -> Seq(Snapshot)] /\ \A p \in Processors : BatchFits(batch'[p])
    <2>1. CASE batch' = batch
      BY <1>1, <2>1
    <2>2. CASE \E p \in Processors : \E b : BatchFits(b) /\ batch' = [batch EXCEPT ![p] = b]
      <3>0. PICK p \in Processors :
                \E b : BatchFits(b) /\ batch' = [batch EXCEPT ![p] = b]
        BY <2>2
      <3>1. PICK b : BatchFits(b) /\ batch' = [batch EXCEPT ![p] = b]
        BY <3>0
      <3>2. b \in Seq(Snapshot)
        BY <3>1 DEF BatchFits
      <3> QED BY <1>1, <3>1, <3>2
    <2>3. CASE batch' = [p \in Processors |-> <<>>]
      BY <1>2, <2>3
    <2> QED BY <2>1, <2>2, <2>3
  <1>4. ASSUME NEW p \in Processors, NEW i \in 1..Len(batch'[p])
        PROVE  row'[batch'[p][i].id] # None /\ batch'[p][i].count < MaxRetries
    <2>1. batch'[p] \in Seq(Snapshot) /\ BatchFits(batch'[p])
      BY <1>3
    <2>2. batch'[p][i] \in Snapshot
      BY <2>1
    <2>3. batch'[p][i].id \in Rows /\ row[batch'[p][i].id] # None /\ batch'[p][i].count < MaxRetries
      BY <2>1, <2>2 DEF BatchFits, Snapshot
    <2> QED BY <2>3
  <1>5. \A p \in Processors : Len(batch'[p]) <= BatchSize
    BY <1>3 DEF BatchFits
  <1>6. DueTypeOK'
    BY <1>3, <1>4, <1>5 DEF DueTypeOK
  <1>7. RetriesSpent'
    BY <1>4 DEF RetriesSpent, WithinRetries
  <1> QED BY <1>6, <1>7 DEF DueInv

\* A step that leaves the attempts and their dates alone.
LEMMA RowsKept ==
    ASSUME DueInv, UNCHANGED <<row, dueRows, later>>, away' \subseteq Rows,
           upsets' \in 0..MaxUpsets,
           \/ batch' = batch
           \/ \E p \in Processors : \E b : BatchFits(b) /\ batch' = [batch EXCEPT ![p] = b]
           \/ batch' = [p \in Processors |-> <<>>]
    PROVE  DueInv'
  <1>1. /\ row' \in [Rows -> AttemptRow \cup {None}]
        /\ dueRows' \in Seq(Rows) /\ later' \subseteq Rows
    BY DEF DueInv, DueTypeOK
  <1>2. \A x \in Rows : row[x] # None => row'[x] # None
    OBVIOUS
  <1>3. \A x \in Rows : row'[x] # None => WithinRetries(row'[x])
    BY DEF DueInv, RetriesSpent
  <1>4. OpenIsScheduled'
    BY DEF DueInv, OpenIsScheduled, Scheduled, Settled
  <1> QED BY <1>1, <1>2, <1>3, <1>4, BatchesKept

-----------------------------------------------------------------------------
(* The actions.                                                            *)

LEMMA RecordKeepsDue ==
    ASSUME DueInv, NEW r \in Rows, RecordRow(r)
    PROVE  DueInv'
  <1> USE DueQueueAssumption
  <1>1. /\ DueTypeOK /\ OpenIsScheduled /\ row[r] = None
        /\ UNCHANGED <<away, batch, upsets>> /\ away \subseteq Rows /\ upsets \in 0..MaxUpsets
    BY DEF RecordRow, DueInv, DueTypeOK
  <1>2. ~Scheduled(r)
    BY <1>1 DEF OpenIsScheduled
  <1>3. PICK doc \in AttemptRow :
           /\ row' = [row EXCEPT ![r] = doc] /\ WithinRetries(doc)
           /\ Rescheduled(r, doc.status \in {"pending", "failed"})
    <2>1. CASE /\ row' = [row EXCEPT ![r] = [status |-> "pending", count |-> 0]]
               /\ dueRows' = Append(dueRows, r) /\ later' = later
      <3>1. later' = later \ {r} /\ \A i \in 1..Len(dueRows) : dueRows[i] # r
        BY <1>2, <2>1 DEF Scheduled
      <3>2. Rescheduled(r, TRUE)
        BY <1>1, <2>1, <3>1, JoinsQueue
      <3>3. Rescheduled(r, "pending" \in {"pending", "failed"})
        BY <3>2 DEF Rescheduled
      <3> DEFINE doc == [status |-> "pending", count |-> 0]
      <3>4. doc \in AttemptRow /\ WithinRetries(doc) /\ doc.status = "pending"
        BY DEF AttemptRow, WithinRetries
      <3> QED BY <2>1, <3>3, <3>4
    <2>2. CASE /\ row' = [row EXCEPT ![r] = [status |-> "failed", count |-> 0]]
               /\ dueRows' = dueRows /\ later' = later \cup {r}
      <3>1. dueRows' = RemoveFirst(dueRows, r)
        BY <1>2, <2>2 DEF Scheduled, RemoveFirst
      <3>2. Rescheduled(r, TRUE)
        BY <1>1, <2>2, <3>1, LeavesQueue
      <3>3. Rescheduled(r, "failed" \in {"pending", "failed"})
        BY <3>2 DEF Rescheduled
      <3> DEFINE doc == [status |-> "failed", count |-> 0]
      <3>4. doc \in AttemptRow /\ WithinRetries(doc) /\ doc.status = "failed"
        BY DEF AttemptRow, WithinRetries
      <3> QED BY <2>2, <3>3, <3>4
    <2> QED BY <2>1, <2>2 DEF RecordRow
  <1> QED BY <1>1, <1>3, RowWritten, BatchesKept DEF Rescheduled

LEMMA DateKeepsDue ==
    ASSUME DueInv, NEW r \in Rows, DateComes(r)
    PROVE  DueInv'
  <1>1. /\ DueTypeOK /\ OpenIsScheduled /\ r \in later
        /\ dueRows' = Append(dueRows, r) /\ later' = later \ {r}
        /\ UNCHANGED <<row, away, batch, upsets>>
    BY DEF DateComes, DueInv
  <1>2. Scheduled(r) /\ \A i \in 1..Len(dueRows) : dueRows[i] # r
    BY <1>1 DEF Scheduled, OpenIsScheduled
  <1>3. Rescheduled(r, TRUE)
    BY <1>1, <1>2, JoinsQueue
  <1>4. \A x \in Rows : Scheduled(x)' <=> Scheduled(x)
    BY <1>2, <1>3 DEF Rescheduled
  <1>5. OpenIsScheduled'
    BY <1>1, <1>3, <1>4 DEF OpenIsScheduled, Rescheduled, Settled
  <1>6. /\ row' \in [Rows -> AttemptRow \cup {None}] /\ away' \subseteq Rows
        /\ upsets' \in 0..MaxUpsets
        /\ \A x \in Rows : row[x] # None => row'[x] # None
        /\ \A x \in Rows : row'[x] # None => WithinRetries(row'[x])
    BY <1>1 DEF DueInv, DueTypeOK, RetriesSpent
  <1> QED BY <1>1, <1>3, <1>5, <1>6, BatchesKept DEF Rescheduled

LEMMA DeleteKeepsDue ==
    ASSUME DueInv, NEW r \in Rows, DeleteRow(r)
    PROVE  DueInv'
  <1> USE DueQueueAssumption
  <1>1. /\ DueTypeOK /\ OpenIsScheduled /\ row[r] # None
        /\ row' = [row EXCEPT ![r].status = "deleted"]
        /\ dueRows' = RemoveFirst(dueRows, r) /\ later' = later \ {r}
        /\ UNCHANGED <<away, batch>> /\ away \subseteq Rows
        /\ upsets' \in 0..MaxUpsets
    BY DEF DeleteRow, Upset, DueInv, DueTypeOK
  <1> DEFINE doc == [row[r] EXCEPT !.status = "deleted"]
  <1>2. row[r] \in AttemptRow
    BY <1>1 DEF DueTypeOK
  <1>3. doc \in AttemptRow /\ doc.status = "deleted" /\ row' = [row EXCEPT ![r] = doc]
    BY <1>1, <1>2 DEF AttemptRow
  <1> HIDE DEF doc
  <1>4. WithinRetries(doc)
    BY <1>3 DEF WithinRetries
  <1>5. Rescheduled(r, FALSE)
    BY <1>1, LeavesQueue
  <1>6. Rescheduled(r, doc.status \in {"pending", "failed"})
    BY <1>3, <1>5 DEF Rescheduled
  <1> QED BY <1>1, <1>3, <1>4, <1>6, RowWritten, BatchesKept DEF Rescheduled

\* What a pass lists is open, and so has retries left.
LEMMA ListKeepsDue ==
    ASSUME DueInv, NEW p \in Processors, ListRows(p)
    PROVE  DueInv'
  <1> USE DueQueueAssumption
  <1>1. /\ DueTypeOK /\ OpenIsScheduled /\ RetriesSpent
        /\ UNCHANGED <<row, dueRows, later, away, upsets>>
        /\ batch' = [batch EXCEPT ![p] = Batch]
    BY DEF ListRows, DueInv
  <1>2. away' \subseteq Rows /\ upsets' \in 0..MaxUpsets /\ dueRows \in Seq(Rows)
    BY <1>1 DEF DueTypeOK
  <1> DEFINE k == IF Len(dueRows) < BatchSize THEN Len(dueRows) ELSE BatchSize
  <1>3. k \in Nat /\ k <= BatchSize /\ k <= Len(dueRows)
    BY <1>2
  <1>4. Batch = [i \in 1..k |-> [id |-> dueRows[i], count |-> row[dueRows[i]].count]]
    BY DEF Batch
  <1> HIDE DEF k
  <1>5. ASSUME NEW i \in 1..k
        PROVE  /\ dueRows[i] \in Rows /\ row[dueRows[i]] # None
               /\ row[dueRows[i]].count \in Nat /\ row[dueRows[i]].count < MaxRetries
    <2>1. i \in 1..Len(dueRows) /\ dueRows[i] \in Rows
      BY <1>2, <1>3
    <2>2. row[dueRows[i]] # None /\ ~Settled(dueRows[i])
      BY <1>1, <2>1 DEF OpenIsScheduled, Scheduled
    <2>3. row[dueRows[i]] \in AttemptRow
      BY <1>1, <2>1, <2>2 DEF DueTypeOK
    <2> QED BY <1>1, <2>1, <2>2, <2>3 DEF AttemptRow, RetriesSpent, WithinRetries, Settled
  <1>6. Batch \in Seq(Snapshot) /\ Len(Batch) = k
    <2>1. \A i \in 1..k : [id |-> dueRows[i], count |-> row[dueRows[i]].count] \in Snapshot
      BY <1>5 DEF Snapshot
    <2> QED BY <1>3, <1>4, <2>1
  <1>7. \A i \in 1..k : /\ Batch[i].id = dueRows[i]
                        /\ Batch[i].count = row[dueRows[i]].count
    BY <1>4
  <1>8. BatchFits(Batch)
    BY <1>3, <1>5, <1>6, <1>7 DEF BatchFits
  <1> QED BY <1>1, <1>2, <1>8, RowsKept

\* The rest of a batch.
LEMMA TailFits ==
    ASSUME DueInv, NEW p \in Processors, batch[p] # <<>>
    PROVE  /\ BatchFits(Tail(batch[p]))
           /\ Head(batch[p]) \in Snapshot /\ row[Head(batch[p]).id] # None
           /\ Head(batch[p]).count < MaxRetries
  <1> PICK b : b = batch[p]
    OBVIOUS
  <1>1. /\ b \in Seq(Snapshot) /\ Len(b) <= BatchSize /\ b # <<>>
        /\ \A i \in 1..Len(b) : row[b[i].id] # None /\ b[i].count < MaxRetries
    BY DEF DueInv, DueTypeOK, RetriesSpent
  <1>2. /\ Tail(b) \in Seq(Snapshot) /\ Len(Tail(b)) = Len(b) - 1
        /\ \A i \in 1..Len(Tail(b)) : Tail(b)[i] = b[i + 1] /\ i + 1 \in 1..Len(b)
    BY <1>1
  <1>3. Len(Tail(b)) <= BatchSize
    BY <1>1, <1>2, DueQueueAssumption
  <1>4. BatchFits(Tail(b))
    BY <1>1, <1>2, <1>3 DEF BatchFits
  <1>5. 1 \in 1..Len(b) /\ Head(b) = b[1] /\ b[1] \in Snapshot
    BY <1>1
  <1> QED BY <1>1, <1>4, <1>5

LEMMA TryKeepsDue ==
    ASSUME DueInv, NEW p \in Processors, TryRow(p)
    PROVE  DueInv'
  <1> USE DueQueueAssumption
  <1> PICK r : r = Head(batch[p]).id
    OBVIOUS
  <1> PICK n : n = Head(batch[p]).count + 1
    OBVIOUS
  <1>1. /\ DueTypeOK /\ OpenIsScheduled /\ batch[p] # <<>>
        /\ \/ Outcome(r, "published", n)
           \/ Outcome(r, IF n >= MaxRetries THEN "retry_exhausted" ELSE "failed", n)
        /\ batch' = [batch EXCEPT ![p] = Tail(batch[p])]
        /\ UNCHANGED <<away, upsets>>
    BY DEF TryRow, DueInv
  <1>2. /\ BatchFits(Tail(batch[p])) /\ r \in Rows /\ row[r] # None
        /\ n \in Nat /\ n <= MaxRetries
    BY <1>1, TailFits DEF Snapshot
  <1>3. away' \subseteq Rows /\ upsets' \in 0..MaxUpsets
    BY <1>1 DEF DueTypeOK
  <1>4. CASE row[r].status = "deleted"
    <2>1. UNCHANGED <<row, dueRows, later>>
      BY <1>1, <1>4 DEF Outcome
    <2> QED BY <1>1, <1>2, <1>3, <2>1, RowsKept
  <1>5. CASE row[r].status # "deleted"
    <2>1. PICK st \in {"published", "retry_exhausted", "failed"} :
             /\ Outcome(r, st, n)
             /\ st = "failed" => n < MaxRetries
             /\ st = "retry_exhausted" => n = MaxRetries
      BY <1>1, <1>2
    <2> DEFINE doc == [status |-> st, count |-> n]
    <2>2. /\ row' = [row EXCEPT ![r] = doc] /\ dueRows' = RemoveFirst(dueRows, r)
          /\ later' = IF st = "failed" THEN later \cup {r} ELSE later \ {r}
      BY <1>5, <2>1 DEF Outcome
    <2>3. doc \in AttemptRow /\ doc.status = st /\ WithinRetries(doc)
      BY <1>2, <2>1 DEF AttemptRow, WithinRetries
    <2> HIDE DEF doc
    <2>4. Rescheduled(r, st = "failed")
      BY <1>1, <1>2, <2>2, LeavesQueue
    <2>5. Rescheduled(r, doc.status \in {"pending", "failed"})
      BY <2>1, <2>3, <2>4 DEF Rescheduled
    <2>6. /\ row' \in [Rows -> AttemptRow \cup {None}]
          /\ \A x \in Rows : row[x] # None => row'[x] # None
          /\ \A x \in Rows : row'[x] # None => WithinRetries(row'[x])
          /\ OpenIsScheduled'
      BY <1>2, <2>2, <2>3, <2>5, RowWritten
    <2> QED BY <1>1, <1>2, <1>3, <2>5, <2>6, BatchesKept DEF Rescheduled
  <1> QED BY <1>4, <1>5

LEMMA QuietKeepsDue ==
    ASSUME DueInv,
           \/ \E r \in Rows : MoveUser(r)
           \/ \E p \in Processors : SkipRow(p) \/ TryFails(p)
           \/ PassesLost
           \/ UNCHANGED dueVars
    PROVE  DueInv'
  <1>1. away \subseteq Rows /\ upsets \in 0..MaxUpsets
    BY DEF DueInv, DueTypeOK
  <1>2. UNCHANGED <<row, dueRows, later>> /\ away' \subseteq Rows /\ upsets' \in 0..MaxUpsets
    BY <1>1, DueQueueAssumption
       DEF MoveUser, SkipRow, TryFails, PassesLost, Upset, dueVars
  <1>3. ASSUME NEW p \in Processors, SkipRow(p) \/ TryFails(p)
        PROVE  batch' = [batch EXCEPT ![p] = Tail(batch[p])] /\ BatchFits(Tail(batch[p]))
    BY <1>3, TailFits DEF SkipRow, TryFails, AfterThrow
  <1>4. \/ batch' = batch
        \/ \E p \in Processors : \E b : BatchFits(b) /\ batch' = [batch EXCEPT ![p] = b]
        \/ batch' = [p \in Processors |-> <<>>]
    BY <1>3 DEF MoveUser, PassesLost, dueVars
  <1> QED BY <1>2, <1>4, RowsKept

LEMMA DueInvInit ==
    ASSUME DueInit
    PROVE  DueInv
  <1> USE DueQueueAssumption
  <1>1. DueTypeOK
    BY DEF DueInit, DueTypeOK
  <1>2. OpenIsScheduled /\ RetriesSpent
    BY DEF DueInit, OpenIsScheduled, Scheduled, RetriesSpent
  <1> QED BY <1>1, <1>2 DEF DueInv

LEMMA DueInvNext ==
    ASSUME DueInv, [DueNext]_dueVars
    PROVE  DueInv'
  BY RecordKeepsDue, DateKeepsDue, DeleteKeepsDue, ListKeepsDue, TryKeepsDue, QuietKeepsDue
     DEF DueNext, Work

LEMMA DueInvAlways == DueSpec => []DueInv
  <1>1. DueInit => DueInv
    BY DueInvInit
  <1>2. DueInv /\ [DueNext]_dueVars => DueInv'
    BY DueInvNext
  <1> QED BY <1>1, <1>2, PTL DEF DueSpec

\* Type correctness of the attempts, of the queue and of what passes have listed, with the
\* batch size.
THEOREM DueTypeCorrect == DueSpec => []DueTypeOK
  <1>1. DueInv => DueTypeOK
    BY DEF DueInv
  <1> QED BY <1>1, DueInvAlways, PTL

\* No overlap of passes, crash or deletion makes an open attempt lose its place in the
\* queue, or gives a settled one a place.
THEOREM OpenAttemptsAreScheduled == DueSpec => []OpenIsScheduled
  <1>1. DueInv => OpenIsScheduled
    BY DEF DueInv
  <1> QED BY <1>1, DueInvAlways, PTL

\* Passes that overwrite each other's counts neither exhaust an attempt early nor leave it
\* open beyond its retries.
THEOREM RetriesAreSpent == DueSpec => []RetriesSpent
  <1>1. DueInv => RetriesSpent
    BY DEF DueInv
  <1> QED BY <1>1, DueInvAlways, PTL

LEMMA QueueKeepsOrder ==
    ASSUME DueInv, [DueNext]_dueVars, NEW x, NEW y, Before(dueRows', x, y),
           NEW k \in 1..Len(dueRows), dueRows[k] = y
    PROVE  Before(dueRows, x, y)
  <1>1. dueRows \in Seq(Rows)
    BY DEF DueInv, DueTypeOK
  <1>2. CASE dueRows' = dueRows
    BY <1>2
  <1>3. ASSUME NEW r, dueRows' = RemoveFirst(dueRows, r)
        PROVE  Before(dueRows, x, y)
    BY <1>1, <1>3, RemovedInOrder
  <1>4. ASSUME NEW r \in Rows, dueRows' = Append(dueRows, r), ~ \E i \in 1..Len(dueRows) : dueRows[i] = r
        PROVE  Before(dueRows, x, y)
    BY <1>1, <1>4, AppendedInOrder
  <1>5. ASSUME NEW r \in Rows, RecordRow(r) \/ DateComes(r)
        PROVE  Before(dueRows, x, y)
    <2>1. ~ \E i \in 1..Len(dueRows) : dueRows[i] = r
      BY <1>5 DEF RecordRow, DateComes, DueInv, OpenIsScheduled, Scheduled
    <2> QED BY <1>2, <1>4, <1>5, <2>1 DEF RecordRow, DateComes
  <1>6. ASSUME NEW r \in Rows, MoveUser(r) \/ DeleteRow(r)
        PROVE  Before(dueRows, x, y)
    BY <1>2, <1>3, <1>6 DEF MoveUser, DeleteRow
  <1>7. ASSUME NEW p \in Processors, Work(p) \/ TryFails(p)
        PROVE  Before(dueRows, x, y)
    BY <1>2, <1>3, <1>7 DEF Work, ListRows, SkipRow, TryRow, TryFails, Outcome
  <1>8. CASE PassesLost \/ UNCHANGED dueVars
    BY <1>2, <1>8 DEF PassesLost, dueVars
  <1> QED BY <1>5, <1>6, <1>7, <1>8 DEF DueNext

\* Attempts are taken in the order in which they became due: nothing is put before an
\* attempt that waits for a pass.
THEOREM NothingOvertakesDue == DueSpec => NothingOvertakes
  <1>1. DueInv /\ [DueNext]_dueVars =>
          [\A x, y :
             Before(dueRows', x, y) /\ (\E i \in 1..Len(dueRows) : dueRows[i] = y)
                => Before(dueRows, x, y)]_dueVars
    BY QueueKeepsOrder
  <1> QED BY <1>1, DueInvAlways, PTL DEF DueSpec, NothingOvertakes
=============================================================================
