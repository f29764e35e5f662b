------------------------ MODULE Notifications_proofs ------------------------
(* Proofs about Notifications, for any sinks, passes, notifications and faults. *)
EXTENDS Notifications, Queue_proofs, FiniteSetTheorems, TLAPS

-----------------------------------------------------------------------------
(* What a pass takes of the queue.                                         *)

LEMMA BatchOfQueue ==
    ASSUME NotifyTypeOK, due # <<>>, \A i \in 1..Len(due) : notes[due[i]] # None
    PROVE  /\ DueBatch \in Seq(Listed) /\ Len(DueBatch) \in 1..Limit
           /\ \A i \in 1..Len(DueBatch) : /\ DueBatch[i].id = due[i]
                                          /\ DueBatch[i].count = notes[due[i]].count
                                          /\ notes[due[i]] # None
  <1> DEFINE k == IF Len(due) < Limit THEN Len(due) ELSE Limit
  <1>1. due \in Seq(Notes) /\ Len(due) \in Nat /\ Len(due) > 0
    BY DEF NotifyTypeOK
  <1>2. k \in Nat /\ k \in 1..Limit /\ k <= Len(due)
    BY <1>1, NotificationsAssumption
  <1>3. DueBatch = [i \in 1..k |-> [id |-> due[i], count |-> notes[due[i]].count]]
    BY DEF DueBatch
  <1> HIDE DEF k
  <1>4. ASSUME NEW i \in 1..k
        PROVE  [id |-> due[i], count |-> notes[due[i]].count] \in Listed
    <2>1. due[i] \in Notes /\ notes[due[i]] # None
      BY <1>1, <1>2
    <2>2. notes[due[i]] \in Note
      BY <2>1 DEF NotifyTypeOK
    <2> QED BY <2>1, <2>2 DEF Listed, Note
  <1>5. DueBatch \in Seq(Listed) /\ Len(DueBatch) = k
    BY <1>2, <1>3, <1>4
  <1> QED BY <1>1, <1>2, <1>3, <1>5

-----------------------------------------------------------------------------
(* The delivery.                                                           *)

\* What a pass holds is stored, its counts lag behind the posts, and what it is about
\* to mark has just been posted (and stored by the sink, if the answer was good).
Fits(rec, stored, ps, al) ==
    /\ Len(rec.batch) <= Limit
    /\ \A i \in 1..Len(rec.batch) :
          rec.batch[i].id \in stored /\ rec.batch[i].count <= ps[rec.batch[i].id]
    /\ rec.pc \in {"post", "mark"} => Len(rec.batch) > 0
    /\ rec.pc = "mark" => rec.batch[1].count < ps[rec.batch[1].id]
    /\ rec.pc = "mark" /\ rec.ok => rec.batch[1].id \in al

PassesFit == \A p \in Passes : pass[p] # None => Fits(pass[p], Stored, posts, alerts)

QueueOK == due \in Seq(Stored) /\ waiting \subseteq Stored

CountsOK == \A n \in Stored : notes[n].count <= posts[n]

DeliveryInv ==
    NotifyTypeOK /\ PassesFit /\ QueueOK /\ CountsOK /\ DeadLetterEarned /\ DeliveredWasStored

LEMMA FitsGrows ==
    ASSUME NEW rec \in Pass, NEW s1, NEW s2 \in SUBSET Notes, s1 \subseteq s2,
           NEW ps1 \in [Notes -> Nat], NEW ps2 \in [Notes -> Nat],
           \A n \in Notes : ps1[n] <= ps2[n],
           NEW al1, NEW al2, al1 \subseteq al2, Fits(rec, s1, ps1, al1)
    PROVE  Fits(rec, s2, ps2, al2)
  <1>1. /\ rec.batch \in Seq(Listed) /\ rec.ok \in BOOLEAN
    BY DEF Pass
  <1>2. ASSUME NEW i \in 1..Len(rec.batch)
        PROVE  /\ rec.batch[i].id \in s2 /\ rec.batch[i].count <= ps2[rec.batch[i].id]
               /\ rec.batch[i].count < ps1[rec.batch[i].id] =>
                     rec.batch[i].count < ps2[rec.batch[i].id]
    <2>1. rec.batch[i] \in Listed
      BY <1>1
    <2>2. rec.batch[i].id \in Notes /\ rec.batch[i].count \in Nat
      BY <2>1 DEF Listed
    <2>3. rec.batch[i].id \in s1 /\ rec.batch[i].count <= ps1[rec.batch[i].id]
      BY DEF Fits
    <2> DEFINE k == rec.batch[i].count
               n == rec.batch[i].id
    <2>4. k \in Nat /\ ps1[n] \in Nat /\ ps2[n] \in Nat /\ ps1[n] <= ps2[n]
      BY <2>2
    <2> QED BY <2>3, <2>4
  <1>3. Len(rec.batch) \in Nat
    BY <1>1
  <1> QED BY <1>2, <1>3 DEF Fits

\* A step that changes one pass: the others still fit.
LEMMA OnePassFits ==
    ASSUME NotifyTypeOK, PassesFit, NEW p \in Passes, NEW new \in Pass \cup {None},
           pass' = [pass EXCEPT ![p] = new],
           Stored \subseteq Stored', Stored' \subseteq Notes,
           posts' \in [Notes -> Nat], \A n \in Notes : posts[n] <= posts'[n],
           alerts \subseteq alerts',
           new # None => Fits(new, Stored', posts', alerts')
    PROVE  PassesFit' /\ pass' \in [Passes -> Pass \cup {None}]
  <1>1. pass' \in [Passes -> Pass \cup {None}]
    BY DEF NotifyTypeOK
  <1>2. ASSUME NEW q \in Passes, pass'[q] # None
        PROVE  Fits(pass'[q], Stored', posts', alerts')
    <2>1. CASE q = p
      BY <1>2, <2>1 DEF NotifyTypeOK
    <2>2. CASE q # p
      <3>1. pass'[q] = pass[q] /\ pass[q] \in Pass
        BY <1>2, <2>2 DEF NotifyTypeOK
      <3>2. Fits(pass[q], Stored, posts, alerts)
        BY <1>2, <3>1 DEF PassesFit
      <3>3. posts \in [Notes -> Nat]
        BY DEF NotifyTypeOK
      <3> QED BY <3>1, <3>2, <3>3, FitsGrows
    <2> QED BY <2>1, <2>2
  <1> QED BY <1>1, <1>2 DEF PassesFit

\* A pass as it goes on to the next notification of its batch.
LEMMA AdvancedFits ==
    ASSUME NotifyTypeOK, NEW p \in Passes, pass[p] # None, pass[p].pc = "mark",
           Fits(pass[p], Stored, posts, alerts)
    PROVE  LET new == IF Len(pass[p].batch) = 1 THEN None
                      ELSE [pass[p] EXCEPT !.pc = "post", !.batch = Tail(@)]
           IN new \in Pass \cup {None} /\ (new # None => Fits(new, Stored, posts, alerts))
  <1> DEFINE rec == pass[p]
             new == [rec EXCEPT !.pc = "post", !.batch = Tail(rec.batch)]
  <1>1. rec \in Pass /\ rec.batch \in Seq(Listed) /\ Len(rec.batch) > 0
        /\ Len(rec.batch) <= Limit
    BY DEF NotifyTypeOK, Pass, Fits
  <1>2. Tail(rec.batch) \in Seq(Listed) /\ Len(Tail(rec.batch)) = Len(rec.batch) - 1
        /\ \A i \in 1..Len(Tail(rec.batch)) : Tail(rec.batch)[i] = rec.batch[i + 1]
                                             /\ i + 1 \in 1..Len(rec.batch)
    BY <1>1
  <1>3. new \in Pass /\ new.batch = Tail(rec.batch) /\ new.pc = "post"
    BY <1>1, <1>2 DEF Pass
  <1>4. Len(rec.batch) # 1 => Fits(new, Stored, posts, alerts)
    <2>1. Limit \in Nat /\ Len(rec.batch) \in Nat
      BY <1>1, NotificationsAssumption
    <2>2. \A i \in 1..Len(new.batch) :
            new.batch[i].id \in Stored /\ new.batch[i].count <= posts[new.batch[i].id]
      BY <1>2, <1>3 DEF Fits
    <2> DEFINE k == Len(rec.batch)
               l == Len(new.batch)
    <2>3. l = k - 1 /\ k \in Nat /\ k <= Limit /\ k > 0
      BY <1>1, <1>2, <1>3, <2>1
    <2> SUFFICES ASSUME k # 1 PROVE Fits(new, Stored, posts, alerts)
      OBVIOUS
    <2>4. l <= Limit /\ l > 0
      <3> HIDE DEF k, l
      <3> QED BY <2>1, <2>3
    <2>5. new.pc # "mark"
      BY <1>3
    <2> HIDE DEF new
    <2> QED BY <2>2, <2>4, <2>5 DEF Fits
  <1> QED BY <1>3, <1>4

\* The notification that a pass is about to mark.
LEMMA MarkedNote ==
    ASSUME DeliveryInv, NEW p \in Passes, pass[p] # None, pass[p].pc = "mark"
    PROVE  /\ Head1(p) = pass[p].batch[1] /\ Head1(p) \in Listed
           /\ Head1(p).id \in Stored /\ Head1(p).id \in Notes
           /\ Head1(p).count \in Nat /\ Head1(p).count < posts[Head1(p).id]
           /\ pass[p].ok => Head1(p).id \in alerts
           /\ notes[Head1(p).id] \in Note
  <1>1. pass[p] \in Pass /\ Fits(pass[p], Stored, posts, alerts)
    BY DEF DeliveryInv, NotifyTypeOK, PassesFit
  <1>2. pass[p].batch \in Seq(Listed) /\ Len(pass[p].batch) > 0
    BY <1>1 DEF Pass, Fits
  <1>3. Head1(p) = pass[p].batch[1] /\ Head1(p) \in Listed /\ 1 \in 1..Len(pass[p].batch)
    BY <1>2 DEF Head1
  <1>4. Head1(p).id \in Stored /\ Head1(p).count < posts[Head1(p).id]
        /\ (pass[p].ok => Head1(p).id \in alerts)
    BY <1>1, <1>3 DEF Fits
  <1>5. Head1(p).id \in Notes /\ Head1(p).count \in Nat
    BY <1>3 DEF Listed
  <1> QED BY <1>3, <1>4, <1>5 DEF DeliveryInv, NotifyTypeOK, Stored

\* A step that changes nothing of the queue and of the sinks.
LEMMA QueueUntouched ==
    ASSUME DeliveryInv, UNCHANGED <<queue, sinkVars>>, PassesFit',
           pass' \in [Passes -> Pass \cup {None}],
           happened' \subseteq Exhaustions, silent' \subseteq happened', breaks' \in 0..MaxFaults
    PROVE  DeliveryInv'
  <1>1. /\ NotifyTypeOK /\ QueueOK /\ CountsOK /\ DeadLetterEarned /\ DeliveredWasStored
        /\ notes' = notes /\ due' = due /\ waiting' = waiting
        /\ posts' = posts /\ alerts' = alerts
    BY DEF DeliveryInv, queue, sinkVars
  <1>2. Stored' = Stored
    BY <1>1 DEF Stored
  <1>3. NotifyTypeOK'
    BY <1>1 DEF NotifyTypeOK, PassesFit, Fits
  <1>4. QueueOK' /\ CountsOK'
    BY <1>1, <1>2 DEF QueueOK, CountsOK
  <1>5. DeadLetterEarned' /\ DeliveredWasStored'
    BY <1>1, <1>2 DEF DeadLetterEarned, DeliveredWasStored
  <1> QED BY <1>3, <1>4, <1>5 DEF DeliveryInv

\* A step that only changes one pass.
LEMMA OnlyPass ==
    ASSUME DeliveryInv, NEW p \in Passes, NEW new \in Pass \cup {None},
           pass' = [pass EXCEPT ![p] = new], UNCHANGED <<queue, sinkVars>>,
           new # None => Fits(new, Stored, posts, alerts),
           happened' \subseteq Exhaustions, silent' \subseteq happened', breaks' \in 0..MaxFaults
    PROVE  DeliveryInv'
  <1>1. /\ notes' = notes /\ posts' = posts /\ alerts' = alerts /\ Stored' = Stored
        /\ NotifyTypeOK /\ PassesFit
    BY DEF queue, sinkVars, Stored, DeliveryInv
  <1>2. posts \in [Notes -> Nat] /\ Stored \subseteq Notes
    BY <1>1 DEF NotifyTypeOK, Stored
  <1>3. PassesFit' /\ pass' \in [Passes -> Pass \cup {None}]
    <2>1. \A n \in Notes : posts[n] <= posts'[n]
      BY <1>1, <1>2
    <2> QED BY <1>1, <1>2, <2>1, OnePassFits
  <1> QED BY <1>3, QueueUntouched

LEMMA MarkKeepsDelivery ==
    ASSUME DeliveryInv, NEW p \in Passes, MarkDelivered(p) \/ MarkFailed(p)
    PROVE  DeliveryInv'
  <1> USE NotificationsAssumption
  <1> DEFINE n == Head1(p).id
             k == Head1(p).count
             new == IF Len(pass[p].batch) = 1 THEN None
                    ELSE [pass[p] EXCEPT !.pc = "post", !.batch = Tail(@)]
  <1>1. /\ pass[p] # None /\ pass[p].pc = "mark"
        /\ due' = RemoveFirst(due, n) /\ waiting' \subseteq waiting \cup {n}
        /\ UNCHANGED <<happened, silent, sinkVars, breaks>>
    BY DEF MarkDelivered, MarkFailed, Scheduled
  <1>2. NotifyTypeOK /\ PassesFit /\ QueueOK /\ CountsOK /\ DeadLetterEarned /\ DeliveredWasStored
    BY DEF DeliveryInv
  <1>3. n \in Stored /\ n \in Notes /\ k \in Nat /\ k < posts[n] /\ notes[n] \in Note
        /\ (pass[p].ok => n \in alerts) /\ posts[n] \in Nat
    BY <1>1, MarkedNote DEF DeliveryInv, NotifyTypeOK
  <1>4. PICK doc \in Note :
           /\ notes' = [notes EXCEPT ![n] = doc]
           /\ doc.count <= posts[n]
           /\ doc.status = "dead_letter" => posts[n] >= MaxAttempts
           /\ doc.status = "delivered" => n \in alerts
    <2>1. CASE MarkDelivered(p)
      <3> DEFINE doc == [notes[n] EXCEPT !.status = "delivered"]
      <3>1. notes' = [notes EXCEPT ![n] = doc] /\ pass[p].ok
        BY <2>1, <1>2, <1>3 DEF MarkDelivered, NotifyTypeOK
      <3>2. doc \in Note /\ doc.status = "delivered" /\ doc.count = notes[n].count
        BY <1>3 DEF Note, NoteStatuses
      <3>3. doc.count <= posts[n]
        BY <3>2, <1>2, <1>3 DEF CountsOK
      <3> HIDE DEF doc
      <3> QED BY <1>3, <3>1, <3>2, <3>3
    <2>2. CASE MarkFailed(p)
      <3> DEFINE st == IF DeadLetters(k) THEN "dead_letter" ELSE "pending"
                 doc == [notes[n] EXCEPT !.count = k + 1, !.status = st]
      <3>1. notes' = [notes EXCEPT ![n].count = k + 1, ![n].status = st]
        BY <2>2 DEF MarkFailed
      <3>2. notes' = [notes EXCEPT ![n] = doc]
        BY <3>1, <1>2, <1>3 DEF NotifyTypeOK
      <3>3. doc \in Note /\ doc.status = st /\ doc.count = k + 1
        <4>1. st \in NoteStatuses /\ k + 1 \in Nat
          BY <1>3 DEF NoteStatuses
        <4> HIDE DEF st
        <4> QED BY <1>3, <4>1 DEF Note
      <3>4. st = "dead_letter" => posts[n] >= MaxAttempts
        BY <1>3 DEF DeadLetters
      <3>5. k + 1 <= posts[n] /\ st # "delivered"
        BY <1>3
      <3> HIDE DEF doc, st
      <3> QED BY <3>2, <3>3, <3>4, <3>5
    <2> QED BY <2>1, <2>2
  <1>5. Stored' = Stored
    BY <1>2, <1>3, <1>4 DEF Stored, NotifyTypeOK
  <1>6. pass' = [pass EXCEPT ![p] = new]
    BY DEF MarkDelivered, MarkFailed, Advance
  <1>7. new \in Pass \cup {None} /\ (new # None => Fits(new, Stored, posts, alerts))
    BY <1>1, <1>2, AdvancedFits DEF PassesFit
  <1> HIDE DEF n, k, new
  <1>8. posts' = posts /\ alerts' = alerts
    BY <1>1 DEF sinkVars
  <1>9. PassesFit' /\ pass' \in [Passes -> Pass \cup {None}]
    <2>1. posts \in [Notes -> Nat] /\ Stored \subseteq Notes
      BY <1>2 DEF NotifyTypeOK, Stored
    <2>2. \A m \in Notes : posts[m] <= posts'[m]
      BY <1>8, <2>1
    <2> QED BY <1>2, <1>5, <1>6, <1>7, <1>8, <2>1, <2>2, OnePassFits
  <1>10. QueueOK' /\ due' \in Seq(Notes) /\ waiting' \subseteq Notes
    <2>1. due' \in Seq(Stored) /\ due' \in Seq(Notes)
      BY <1>1, <1>2, RemovedFromQueue DEF QueueOK, NotifyTypeOK
    <2> QED BY <1>1, <1>2, <1>3, <1>5, <2>1 DEF QueueOK, NotifyTypeOK
  <1>11. NotifyTypeOK'
    <2>1. notes' \in [Notes -> Note \cup {None}]
      BY <1>2, <1>4 DEF NotifyTypeOK
    <2>2. \A q \in Passes : pass'[q] # None => Len(pass'[q].batch) <= Limit
      BY <1>9 DEF PassesFit, Fits
    <2>3. /\ happened' \subseteq Exhaustions /\ silent' \subseteq happened'
          /\ posts' \in [Notes -> Nat] /\ alerts' \subseteq Notes
          /\ breaks' \in 0..MaxFaults
      BY <1>1, <1>2, <1>8 DEF NotifyTypeOK
    <2> QED BY <1>9, <1>10, <2>1, <2>2, <2>3 DEF NotifyTypeOK
  <1>12. ASSUME NEW m \in Stored'
         PROVE  /\ notes'[m].count <= posts'[m]
                /\ notes'[m].status = "dead_letter" => posts'[m] >= MaxAttempts
                /\ notes'[m].status = "delivered" => m \in alerts'
    <2>1. m \in Notes /\ m \in Stored
      BY <1>5 DEF Stored
    <2>2. CASE m = n
      <3>1. notes'[m] = doc
        BY <1>2, <1>3, <1>4, <2>2 DEF NotifyTypeOK
      <3> QED BY <1>4, <1>8, <2>2, <3>1
    <2>3. CASE m # n
      <3>1. notes'[m] = notes[m]
        BY <1>2, <1>4, <2>1, <2>3 DEF NotifyTypeOK
      <3> QED BY <1>2, <1>8, <2>1, <3>1 DEF CountsOK, DeadLetterEarned, DeliveredWasStored
    <2> QED BY <2>2, <2>3
  <1>13. CountsOK' /\ DeadLetterEarned' /\ DeliveredWasStored'
    BY <1>12 DEF CountsOK, DeadLetterEarned, DeliveredWasStored
  <1> QED BY <1>9, <1>10, <1>11, <1>13 DEF DeliveryInv

LEMMA PostKeepsDelivery ==
    ASSUME DeliveryInv, NEW p \in Passes, Post(p)
    PROVE  DeliveryInv'
  <1> DEFINE n == pass[p].batch[1].id
  <1>1. NotifyTypeOK /\ PassesFit /\ QueueOK /\ CountsOK /\ DeadLetterEarned /\ DeliveredWasStored
    BY DEF DeliveryInv
  <1>2. PICK reply \in Replies :
           /\ pass' = [pass EXCEPT ![p].pc = "mark", ![p].ok = reply.ok]
           /\ posts' = [posts EXCEPT ![Head1(p).id] = @ + 1]
           /\ alerts' = IF reply.stored THEN alerts \cup {Head1(p).id} ELSE alerts
    BY DEF Post, PostsPerDelivery
  <1>3. /\ pass[p] # None /\ pass[p].pc = "post" /\ pass[p] \in Pass
        /\ UNCHANGED <<notes, due, waiting, happened, silent, breaks>>
    BY <1>1 DEF Post, queue, NotifyTypeOK
  <1>4. Fits(pass[p], Stored, posts, alerts)
    BY <1>1, <1>3 DEF PassesFit
  <1>5. /\ pass[p].batch \in Seq(Listed) /\ Len(pass[p].batch) > 0
        /\ Head1(p) = pass[p].batch[1] /\ 1 \in 1..Len(pass[p].batch)
    BY <1>3, <1>4 DEF Pass, Fits, Head1
  <1>6. pass[p].batch[1] \in Listed /\ n \in Stored /\ pass[p].batch[1].count <= posts[n]
    BY <1>4, <1>5 DEF Fits
  <1>7. n \in Notes /\ posts[n] \in Nat /\ pass[p].batch[1].count \in Nat
    BY <1>1, <1>6 DEF Listed, NotifyTypeOK
  <1>8. /\ posts' \in [Notes -> Nat] /\ posts'[n] = posts[n] + 1
        /\ \A m \in Notes : posts[m] <= posts'[m]
    BY <1>1, <1>2, <1>5, <1>7 DEF NotifyTypeOK
  <1>9. /\ alerts \subseteq alerts' /\ alerts' \subseteq Notes
        /\ reply.ok \in BOOLEAN /\ (reply.ok => n \in alerts')
    <2>1. reply.ok \in BOOLEAN /\ (reply.ok => reply.stored)
      <3>1. CASE reply = [stored |-> TRUE, ok |-> TRUE]
        BY <3>1
      <3>2. CASE reply = [stored |-> TRUE, ok |-> FALSE]
        BY <3>2
      <3>3. CASE reply = [stored |-> FALSE, ok |-> FALSE]
        BY <3>3
      <3> QED BY <3>1, <3>2, <3>3 DEF Replies
    <2>2. alerts \subseteq Notes /\ Head1(p).id = n
      BY <1>1, <1>5 DEF NotifyTypeOK
    <2>3. CASE reply.stored
      BY <1>2, <1>7, <2>1, <2>2, <2>3
    <2>4. CASE ~reply.stored
      BY <1>2, <2>1, <2>2, <2>4
    <2> QED BY <2>3, <2>4
  <1>10. Stored' = Stored /\ Stored \subseteq Notes
    BY <1>3 DEF Stored
  <1> DEFINE new == [pass[p] EXCEPT !.pc = "mark", !.ok = reply.ok]
  <1>11. /\ new \in Pass /\ new.batch = pass[p].batch /\ new.pc = "mark"
         /\ new.ok = reply.ok
    BY <1>3, <1>9 DEF Pass
  <1>12. pass' = [pass EXCEPT ![p] = new]
    BY <1>1, <1>2 DEF NotifyTypeOK
  <1>13. Fits(new, Stored', posts', alerts')
    <2>1. Fits(pass[p], Stored', posts', alerts')
      BY <1>1, <1>3, <1>4, <1>8, <1>9, <1>10, FitsGrows DEF NotifyTypeOK
    <2>2. pass[p].batch[1].count < posts'[n]
      BY <1>6, <1>7, <1>8
    <2> HIDE DEF new
    <2> QED BY <1>5, <1>9, <1>11, <2>1, <2>2 DEF Fits
  <1> HIDE DEF new, n
  <1>14. PassesFit' /\ pass' \in [Passes -> Pass \cup {None}]
    BY <1>1, <1>8, <1>9, <1>10, <1>11, <1>12, <1>13, OnePassFits
  <1>15. NotifyTypeOK'
    <2>1. \A q \in Passes : pass'[q] # None => Len(pass'[q].batch) <= Limit
      BY <1>14 DEF PassesFit, Fits
    <2> QED BY <1>1, <1>3, <1>8, <1>9, <1>14, <2>1 DEF NotifyTypeOK
  <1>16. QueueOK' /\ DeliveredWasStored'
    BY <1>1, <1>3, <1>9, <1>10 DEF QueueOK, DeliveredWasStored
  <1>17. CountsOK' /\ DeadLetterEarned'
    <2> SUFFICES ASSUME NEW m \in Stored'
                 PROVE  /\ notes'[m].count <= posts'[m]
                        /\ notes'[m].status = "dead_letter" => posts'[m] >= MaxAttempts
      BY DEF CountsOK, DeadLetterEarned
    <2>1. m \in Stored /\ m \in Notes /\ notes[m] \in Note /\ notes'[m] = notes[m]
      BY <1>1, <1>3, <1>10 DEF Stored, NotifyTypeOK
    <2>2. notes[m].count \in Nat /\ posts[m] \in Nat /\ posts'[m] \in Nat
          /\ posts[m] <= posts'[m] /\ MaxAttempts \in Nat
      BY <1>1, <1>8, <2>1, NotificationsAssumption DEF Note, NotifyTypeOK
    <2> QED BY <1>1, <2>1, <2>2 DEF CountsOK, DeadLetterEarned
  <1> QED BY <1>14, <1>15, <1>16, <1>17 DEF DeliveryInv

LEMMA EnqueueKeepsDelivery ==
    ASSUME DeliveryInv, NEW p \in Passes, NEW s \in Sinks, Enqueue(p, s)
    PROVE  DeliveryInv'
  <1> USE NotificationsAssumption
  <1>1. NotifyTypeOK /\ PassesFit /\ QueueOK /\ CountsOK /\ DeadLetterEarned /\ DeliveredWasStored
    BY DEF DeliveryInv
  <1>2. PICK n \in Notes \ Stored :
           /\ notes' = [notes EXCEPT ![n] = NewNote(s, pass[p].exhausted)]
           /\ due' = Append(due, n)
    BY DEF Enqueue
  <1>3. /\ pass[p] # None /\ pass[p].pc = "enqueue" /\ pass[p] \in Pass
        /\ UNCHANGED <<waiting, happened, silent, posts, alerts, breaks>>
    BY <1>1 DEF Enqueue, sinkVars, NotifyTypeOK
  <1> DEFINE doc == NewNote(s, pass[p].exhausted)
             pc == IF pass[p].sinks = {s} THEN "list" ELSE "enqueue"
             rest == pass[p].sinks \ {s}
             new == [pass[p] EXCEPT !.sinks = rest, !.pc = pc]
  <1>4. doc \in Note /\ doc.count = 0 /\ doc.status = "pending" /\ doc # None
    BY <1>3 DEF NewNote, Note, NoteStatuses, Pass
  <1> HIDE DEF doc
  <1>5. Stored' = Stored \cup {n} /\ Stored' \subseteq Notes
    BY <1>1, <1>2, <1>4 DEF Stored, NotifyTypeOK, doc
  <1>6. pass' = [pass EXCEPT ![p] = new]
    BY <1>1 DEF Enqueue, NotifyTypeOK
  <1>7. /\ new \in Pass /\ new.batch = pass[p].batch /\ new.pc \notin {"post", "mark"}
    <2>1. rest \subseteq Sinks /\ pc \in {"list", "enqueue"}
      BY <1>3 DEF Pass
    <2> HIDE DEF rest, pc
    <2> QED BY <1>3, <2>1 DEF Pass
  <1>8. Fits(new, Stored', posts', alerts')
    <2>1. Fits(pass[p], Stored, posts, alerts)
      BY <1>1, <1>3 DEF PassesFit
    <2> HIDE DEF new
    <2> QED BY <1>3, <1>5, <1>7, <2>1 DEF Fits
  <1> HIDE DEF new
  <1>9. PassesFit' /\ pass' \in [Passes -> Pass \cup {None}]
    <2>1. posts' \in [Notes -> Nat] /\ \A m \in Notes : posts[m] <= posts'[m]
      BY <1>1, <1>3 DEF NotifyTypeOK
    <2> QED BY <1>1, <1>3, <1>5, <1>6, <1>7, <1>8, <2>1, OnePassFits
  <1>10. QueueOK' /\ due' \in Seq(Notes)
    <2>1. due \in Seq(Stored') /\ n \in Stored'
      BY <1>1, <1>5 DEF QueueOK
    <2> QED BY <1>1, <1>2, <1>3, <1>5, <2>1 DEF QueueOK, NotifyTypeOK
  <1>11. NotifyTypeOK'
    <2>1. notes' \in [Notes -> Note \cup {None}]
      BY <1>1, <1>2, <1>4 DEF NotifyTypeOK, doc
    <2>2. \A q \in Passes : pass'[q] # None => Len(pass'[q].batch) <= Limit
      BY <1>9 DEF PassesFit, Fits
    <2> QED BY <1>1, <1>3, <1>9, <1>10, <2>1, <2>2 DEF NotifyTypeOK
  <1>12. CountsOK' /\ DeadLetterEarned' /\ DeliveredWasStored'
    <2> SUFFICES ASSUME NEW m \in Stored'
                 PROVE  /\ notes'[m].count <= posts'[m]
                        /\ notes'[m].status = "dead_letter" => posts'[m] >= MaxAttempts
                        /\ notes'[m].status = "delivered" => m \in alerts'
      BY DEF CountsOK, DeadLetterEarned, DeliveredWasStored
    <2>1. CASE m = n
      <3>1. notes'[m] = doc /\ posts'[m] \in Nat
        BY <1>1, <1>2, <1>3, <2>1 DEF NotifyTypeOK, doc
      <3> QED BY <1>4, <3>1
    <2>2. CASE m # n
      <3>1. m \in Stored /\ notes'[m] = notes[m]
        BY <1>1, <1>2, <1>5, <2>2 DEF NotifyTypeOK, Stored
      <3> QED BY <1>1, <1>3, <3>1 DEF CountsOK, DeadLetterEarned, DeliveredWasStored
    <2> QED BY <2>1, <2>2
  <1> QED BY <1>9, <1>10, <1>11, <1>12 DEF DeliveryInv

LEMMA DelayKeepsDelivery ==
    ASSUME DeliveryInv, NEW n \in Notes, DelayEnds(n)
    PROVE  DeliveryInv'
  <1>1. NotifyTypeOK /\ PassesFit /\ QueueOK /\ CountsOK /\ DeadLetterEarned /\ DeliveredWasStored
    BY DEF DeliveryInv
  <1>2. /\ n \in waiting /\ waiting' = waiting \ {n} /\ due' = Append(due, n)
        /\ UNCHANGED <<notes, pass, happened, silent, posts, alerts, breaks>>
    BY DEF DelayEnds, sinkVars
  <1>3. Stored' = Stored
    BY <1>2 DEF Stored
  <1>4. QueueOK' /\ due' \in Seq(Notes)
    BY <1>1, <1>2, <1>3 DEF QueueOK, NotifyTypeOK
  <1>5. NotifyTypeOK'
    BY <1>1, <1>2, <1>4 DEF NotifyTypeOK
  <1>6. PassesFit' /\ CountsOK' /\ DeadLetterEarned' /\ DeliveredWasStored'
    BY <1>1, <1>2, <1>3 DEF PassesFit, CountsOK, DeadLetterEarned, DeliveredWasStored
  <1> QED BY <1>4, <1>5, <1>6 DEF DeliveryInv

\* The steps of a pass before it posts.
LEMMA PassKeepsDelivery ==
    ASSUME DeliveryInv, NEW p \in Passes, StartPass(p) \/ EndRetries(p) \/ List(p)
    PROVE  DeliveryInv'
  <1> USE NotificationsAssumption
  <1>1. NotifyTypeOK /\ PassesFit /\ QueueOK
    BY DEF DeliveryInv
  <1>2. /\ UNCHANGED <<queue, sinkVars>>
        /\ happened' \subseteq Exhaustions /\ silent' \subseteq happened'
        /\ breaks' \in 0..MaxFaults
    BY <1>1 DEF StartPass, EndRetries, List, NotifyTypeOK
  <1>3. CASE StartPass(p)
    <2> DEFINE new == [pc |-> IF AutoRetry THEN "retry" ELSE "list", exhausted |-> {},
                       sinks |-> {}, batch |-> <<>>, ok |-> FALSE]
    <2>1. pass' = [pass EXCEPT ![p] = new]
      BY <1>3 DEF StartPass
    <2>2. new \in Pass /\ Fits(new, Stored, posts, alerts)
      BY DEF Pass, Fits
    <2> HIDE DEF new
    <2> QED BY <1>2, <2>1, <2>2, OnlyPass
  <1>4. CASE EndRetries(p)
    <2> DEFINE pc == IF pass[p].exhausted = {} \/ Sinks = {} THEN "list" ELSE "enqueue"
               rest == IF pass[p].exhausted = {} THEN {} ELSE Sinks
               new == [pass[p] EXCEPT !.pc = pc, !.sinks = rest]
    <2>1. pass[p] \in Pass /\ pass[p] # None
      BY <1>1, <1>4 DEF EndRetries, NotifyTypeOK
    <2>2. pass' = [pass EXCEPT ![p] = new]
      BY <1>1, <1>4 DEF EndRetries, NotifyTypeOK
    <2>3. pc \in {"list", "enqueue"} /\ rest \subseteq Sinks
      OBVIOUS
    <2> HIDE DEF pc, rest
    <2>4. new \in Pass /\ new.batch = pass[p].batch /\ new.pc = pc
      BY <2>1, <2>3 DEF Pass
    <2> HIDE DEF new
    <2>5. Fits(new, Stored, posts, alerts)
      BY <1>1, <2>1, <2>3, <2>4 DEF PassesFit, Fits
    <2> QED BY <1>2, <2>2, <2>4, <2>5, OnlyPass
  <1>5. CASE List(p)
    <2> DEFINE taken == [pass[p] EXCEPT !.pc = "post", !.batch = DueBatch]
               new == IF Sinks = {} \/ due = <<>> THEN None ELSE taken
    <2>1. pass[p] \in Pass /\ pass' = [pass EXCEPT ![p] = new]
      BY <1>1, <1>5 DEF List, NotifyTypeOK
    <2>2. ASSUME due # <<>>
          PROVE  taken \in Pass /\ Fits(taken, Stored, posts, alerts)
      <3>1. \A i \in 1..Len(due) : due[i] \in Stored
        BY <1>1 DEF QueueOK
      <3>2. /\ DueBatch \in Seq(Listed) /\ Len(DueBatch) \in 1..Limit
            /\ \A i \in 1..Len(DueBatch) : /\ DueBatch[i].id = due[i]
                                           /\ DueBatch[i].count = notes[due[i]].count
                                           /\ notes[due[i]] # None
        BY <1>1, <2>2, <3>1, BatchOfQueue DEF Stored
      <3>3. taken \in Pass /\ taken.pc = "post" /\ taken.batch = DueBatch
        BY <2>1, <3>2 DEF Pass
      <3> HIDE DEF taken
      <3>4. ASSUME NEW i \in 1..Len(DueBatch)
            PROVE  DueBatch[i].id \in Stored /\ DueBatch[i].count <= posts[DueBatch[i].id]
        <4>1. DueBatch[i] \in Listed
          BY <3>2
        <4>2. DueBatch[i].id \in Notes /\ DueBatch[i].id = due[i] /\ notes[due[i]] # None
          BY <3>2, <4>1 DEF Listed
        <4> QED BY <3>2, <4>2 DEF DeliveryInv, CountsOK, Stored
      <3> QED BY <3>2, <3>3, <3>4 DEF Fits
    <2> HIDE DEF taken
    <2>3. new \in Pass \cup {None} /\ (new # None => Fits(new, Stored, posts, alerts))
      BY <2>2
    <2> HIDE DEF new
    <2> QED BY <1>2, <2>1, <2>3, OnlyPass
  <1> QED BY <1>3, <1>4, <1>5

LEMMA CountKeepsDelivery ==
    ASSUME DeliveryInv, NEW p \in Passes, NEW e \in Exhaustions, Exhaust(p, e)
    PROVE  DeliveryInv'
  <1> DEFINE all == pass[p].exhausted \cup {e}
             new == [pass[p] EXCEPT !.exhausted = all]
  <1>1. NotifyTypeOK /\ PassesFit
    BY DEF DeliveryInv
  <1>2. /\ pass[p] # None /\ pass[p] \in Pass
        /\ UNCHANGED <<queue, sinkVars>>
        /\ happened' \subseteq Exhaustions /\ silent' \subseteq happened'
        /\ breaks' \in 0..MaxFaults
    BY <1>1 DEF Exhaust, NotifyTypeOK
  <1>3. pass' = [pass EXCEPT ![p] = new]
    BY <1>1 DEF Exhaust, NotifyTypeOK
  <1>4. all \subseteq Exhaustions
    BY <1>2 DEF Pass
  <1> HIDE DEF all
  <1>5. new \in Pass /\ new.batch = pass[p].batch /\ new.pc = pass[p].pc
    BY <1>2, <1>4 DEF Pass
  <1>6. new.ok = pass[p].ok
    BY <1>2 DEF Pass
  <1> HIDE DEF new
  <1>7. Fits(new, Stored, posts, alerts)
    BY <1>1, <1>2, <1>5, <1>6 DEF PassesFit, Fits
  <1> QED BY <1>2, <1>3, <1>5, <1>7, OnlyPass

LEMMA FaultKeepsDelivery ==
    ASSUME DeliveryInv, Restart \/ \E p \in Passes : DeliveryUnmarked(p)
    PROVE  DeliveryInv'
  <1> USE NotificationsAssumption
  <1>1. NotifyTypeOK /\ PassesFit
    BY DEF DeliveryInv
  <1>2. /\ UNCHANGED <<queue, sinkVars>>
        /\ happened' \subseteq Exhaustions /\ silent' \subseteq happened'
        /\ breaks' \in 0..MaxFaults
    BY <1>1 DEF Restart, DeliveryUnmarked, NotifyTypeOK
  <1>3. CASE Restart
    <2>1. pass' = [p \in Passes |-> None]
      BY <1>3 DEF Restart
    <2>2. PassesFit' /\ pass' \in [Passes -> Pass \cup {None}]
      BY <2>1 DEF PassesFit
    <2> QED BY <1>2, <2>2, QueueUntouched
  <1>4. CASE \E p \in Passes : DeliveryUnmarked(p)
    <2>1. PICK p \in Passes : DeliveryUnmarked(p)
      BY <1>4
    <2> DEFINE new == [pass[p] EXCEPT !.ok = FALSE]
    <2>2. pass[p] # None /\ pass[p] \in Pass
      BY <1>1, <2>1 DEF DeliveryUnmarked, NotifyTypeOK
    <2>3. pass' = [pass EXCEPT ![p] = new]
      BY <1>1, <2>1 DEF DeliveryUnmarked, NotifyTypeOK
    <2>4. new \in Pass /\ new.batch = pass[p].batch /\ new.pc = pass[p].pc
      BY <2>2 DEF Pass
    <2>5. ~new.ok
      BY <2>2 DEF Pass
    <2> HIDE DEF new
    <2>6. Fits(new, Stored, posts, alerts)
      BY <1>1, <2>2, <2>4, <2>5 DEF PassesFit, Fits
    <2> QED BY <1>2, <2>3, <2>4, <2>6, OnlyPass
  <1> QED BY <1>3, <1>4

LEMMA DeliveryInvInit ==
    ASSUME NotifyInit
    PROVE  DeliveryInv
  <1> USE NotificationsAssumption
  <1>1. Stored = {}
    BY DEF NotifyInit, Stored
  <1>2. NotifyTypeOK
    BY DEF NotifyInit, NotifyTypeOK
  <1>3. PassesFit /\ QueueOK
    BY <1>1 DEF NotifyInit, PassesFit, QueueOK
  <1>4. CountsOK /\ DeadLetterEarned /\ DeliveredWasStored
    BY <1>1 DEF CountsOK, DeadLetterEarned, DeliveredWasStored
  <1> QED BY <1>2, <1>3, <1>4 DEF DeliveryInv

LEMMA DeliveryInvNext ==
    ASSUME DeliveryInv, [NotifyNext]_notifyVars
    PROVE  DeliveryInv'
  <1>1. ASSUME NEW p \in Passes, PassStep(p)
        PROVE  DeliveryInv'
    <2>1. CASE StartPass(p) \/ EndRetries(p) \/ List(p)
      BY <2>1, PassKeepsDelivery
    <2>2. CASE \E s \in Sinks : Enqueue(p, s)
      BY <2>2, EnqueueKeepsDelivery
    <2>3. CASE Post(p)
      BY <2>3, PostKeepsDelivery
    <2>4. CASE MarkDelivered(p) \/ MarkFailed(p)
      BY <2>4, MarkKeepsDelivery
    <2> QED BY <1>1, <2>1, <2>2, <2>3, <2>4 DEF PassStep
  <1>2. ASSUME NEW e \in Exhaustions, ExhaustElsewhere(e)
        PROVE  DeliveryInv'
    <2>1. NotifyTypeOK /\ PassesFit
      BY DEF DeliveryInv
    <2>2. /\ pass' = pass /\ UNCHANGED <<queue, sinkVars>>
          /\ happened' \subseteq Exhaustions /\ silent' \subseteq happened'
          /\ breaks' \in 0..MaxFaults
      BY <1>2, <2>1 DEF ExhaustElsewhere, NotifyTypeOK
    <2>3. PassesFit' /\ pass' \in [Passes -> Pass \cup {None}]
      BY <2>1, <2>2 DEF PassesFit, NotifyTypeOK, queue, sinkVars, Stored
    <2> QED BY <2>2, <2>3, QueueUntouched
  <1>3. CASE UNCHANGED notifyVars
    <2>1. NotifyTypeOK /\ PassesFit
      BY DEF DeliveryInv
    <2>2. /\ pass' = pass /\ UNCHANGED <<queue, sinkVars>>
          /\ happened' \subseteq Exhaustions /\ silent' \subseteq happened'
          /\ breaks' \in 0..MaxFaults
      BY <1>3, <2>1 DEF notifyVars, NotifyTypeOK
    <2>3. PassesFit' /\ pass' \in [Passes -> Pass \cup {None}]
      BY <2>1, <2>2 DEF PassesFit, NotifyTypeOK, queue, sinkVars, Stored
    <2> QED BY <2>2, <2>3, QueueUntouched
  <1> QED BY <1>1, <1>2, <1>3, CountKeepsDelivery, FaultKeepsDelivery, DelayKeepsDelivery
          DEF NotifyNext

LEMMA DeliveryInvAlways == NotifySpec => []DeliveryInv
  <1>1. NotifyInit => DeliveryInv
    BY DeliveryInvInit
  <1>2. DeliveryInv /\ [NotifyNext]_notifyVars => DeliveryInv'
    BY DeliveryInvNext
  <1> QED BY <1>1, <1>2, PTL DEF NotifySpec

\* Type correctness of the notifications and of the passes of the maintenance timer,
\* with the limit on what one pass takes.
THEOREM NotifyTypeCorrect == NotifySpec => []NotifyTypeOK
  <1>1. DeliveryInv => NotifyTypeOK
    BY DEF DeliveryInv
  <1> QED BY <1>1, DeliveryInvAlways, PTL

\* However many passes overlap and overwrite the counts of markNotificationFailed, a
\* notification becomes a dead letter only after MaxAttempts posts of it.
THEOREM DeadLettersEarned == NotifySpec => []DeadLetterEarned
  <1>1. DeliveryInv => DeadLetterEarned
    BY DEF DeliveryInv
  <1> QED BY <1>1, DeliveryInvAlways, PTL

\* A notification that markNotificationDelivered has marked was stored by its sink,
\* also after crashes and when the mark of another pass failed.
THEOREM DeliveriesStored == NotifySpec => []DeliveredWasStored
  <1>1. DeliveryInv => DeliveredWasStored
    BY DEF DeliveryInv
  <1> QED BY <1>1, DeliveryInvAlways, PTL

-----------------------------------------------------------------------------
(* The announcement of what a pass has counted as exhausted.               *)

\* What is counted is known, and only a pass that enqueues has sinks to notify.
Counted ==
    /\ \A n \in Stored : notes[n].about \subseteq happened
    /\ \A p \in Passes : pass[p] # None =>
         /\ pass[p].exhausted \subseteq happened
         /\ pass[p].sinks # {} => pass[p].pc = "enqueue"

\* Passes that overlap count different exhaustions.
Apart ==
    \A p, q \in Passes : p # q /\ pass[p] # None /\ pass[q] # None =>
        pass[p].exhausted \cap pass[q].exhausted = {}

\* A pass no longer has to notify the sinks for which its notification is stored.
Unannounced ==
    \A n \in Stored, p \in Passes :
        pass[p] # None /\ notes[n].about \cap pass[p].exhausted # {} =>
            pass[p].pc # "retry" /\ notes[n].sink \notin pass[p].sinks

AnnounceInv == Counted /\ Apart /\ Unannounced /\ AnnouncedOnce

\* A pass that counts nothing more and takes on no sinks after its retries.
Follows(old, new) ==
    new # None =>
        /\ new.sinks # {} => new.pc = "enqueue"
        /\ \/ new.exhausted = {}
           \/ /\ old # None /\ new.exhausted = old.exhausted
              /\ new.pc = "retry" => old.pc = "retry"
              /\ old.pc = "retry" \/ new.sinks \subseteq old.sinks

\* A pass that forgets nothing it has yet to announce.
Keeps(old, new) ==
    old # None =>
        \A e \in old.exhausted, s \in Sinks :
            old.pc = "retry" \/ s \in old.sinks =>
                new # None /\ e \in new.exhausted /\ (new.pc = "retry" \/ s \in new.sinks)

\* The notifications are the same but for their delivery.
SameNotes ==
    /\ Stored' = Stored
    /\ \A n \in Stored : notes'[n].sink = notes[n].sink /\ notes'[n].about = notes[n].about

LEMMA FollowingKeepsAnnounce ==
    ASSUME AnnounceInv, SameNotes, happened \subseteq happened',
           \A p \in Passes : Follows(pass[p], pass'[p])
    PROVE  AnnounceInv'
  <1>1. Counted'
    <2>1. ASSUME NEW n \in Stored' PROVE notes'[n].about \subseteq happened'
      BY DEF SameNotes, AnnounceInv, Counted
    <2>2. ASSUME NEW p \in Passes, pass'[p] # None
          PROVE  /\ pass'[p].exhausted \subseteq happened'
                 /\ pass'[p].sinks # {} => pass'[p].pc = "enqueue"
      BY <2>2 DEF AnnounceInv, Counted, Follows
    <2> QED BY <2>1, <2>2 DEF Counted
  <1>2. Apart'
    <2> SUFFICES ASSUME NEW p \in Passes, NEW q \in Passes, p # q,
                        pass'[p] # None, pass'[q] # None
                 PROVE  pass'[p].exhausted \cap pass'[q].exhausted = {}
      BY DEF Apart
    <2>1. CASE pass'[p].exhausted = {} \/ pass'[q].exhausted = {}
      BY <2>1
    <2>2. CASE pass'[p].exhausted # {} /\ pass'[q].exhausted # {}
      BY <2>2 DEF Follows, AnnounceInv, Apart
    <2> QED BY <2>1, <2>2
  <1>3. Unannounced'
    <2> SUFFICES ASSUME NEW n \in Stored', NEW p \in Passes, pass'[p] # None,
                        notes'[n].about \cap pass'[p].exhausted # {}
                 PROVE  pass'[p].pc # "retry" /\ notes'[n].sink \notin pass'[p].sinks
      BY DEF Unannounced
    <2>1. /\ n \in Stored /\ notes[n].about \cap pass'[p].exhausted # {}
          /\ notes'[n].sink = notes[n].sink
      BY DEF SameNotes
    <2>2. /\ pass[p] # None /\ pass'[p].exhausted = pass[p].exhausted
          /\ pass'[p].pc = "retry" => pass[p].pc = "retry"
          /\ pass[p].pc = "retry" \/ pass'[p].sinks \subseteq pass[p].sinks
      BY <2>1 DEF Follows
    <2>3. pass[p].pc # "retry" /\ notes[n].sink \notin pass[p].sinks
      BY <2>1, <2>2 DEF AnnounceInv, Unannounced
    <2> QED BY <2>1, <2>2, <2>3
  <1>4. AnnouncedOnce'
    BY DEF SameNotes, AnnounceInv, AnnouncedOnce
  <1> QED BY <1>1, <1>2, <1>3, <1>4 DEF AnnounceInv

LEMMA KeepingKeepsAnnouncement ==
    ASSUME ExhaustionAnnounced, SameNotes, breaks' = breaks,
           happened' \ silent' \subseteq happened \ silent,
           \A p \in Passes : Keeps(pass[p], pass'[p])
    PROVE  ExhaustionAnnounced'
  <1> SUFFICES ASSUME breaks' = 0, NEW e \in happened' \ silent', NEW s \in Sinks
               PROVE  \/ \E n \in Stored' : notes'[n].sink = s /\ e \in notes'[n].about
                      \/ \E p \in Passes : /\ pass'[p] # None /\ e \in pass'[p].exhausted
                                           /\ pass'[p].pc = "retry" \/ s \in pass'[p].sinks
    BY DEF ExhaustionAnnounced
  <1>1. e \in happened \ silent /\ breaks = 0
    OBVIOUS
  <1>2. CASE \E n \in Stored : notes[n].sink = s /\ e \in notes[n].about
    BY <1>2 DEF SameNotes
  <1>3. CASE \E p \in Passes : /\ pass[p] # None /\ e \in pass[p].exhausted
                               /\ pass[p].pc = "retry" \/ s \in pass[p].sinks
    BY <1>3 DEF Keeps
  <1> QED BY <1>1, <1>2, <1>3 DEF ExhaustionAnnounced

\* A step of one pass: the others follow and keep by standing still.
LEMMA OnePassFollows ==
    ASSUME NotifyTypeOK, AnnounceInv, NEW p \in Passes, NEW new,
           pass' = [pass EXCEPT ![p] = new], Follows(pass[p], new)
    PROVE  \A q \in Passes : Follows(pass[q], pass'[q])
  <1> TAKE q \in Passes
  <1>1. pass'[q] = IF q = p THEN new ELSE pass[q]
    BY DEF NotifyTypeOK
  <1>2. Follows(pass[q], pass[q])
    BY DEF AnnounceInv, Counted, Follows
  <1> QED BY <1>1, <1>2

LEMMA OnePassKeeps ==
    ASSUME NotifyTypeOK, NEW p \in Passes, NEW new,
           pass' = [pass EXCEPT ![p] = new], Keeps(pass[p], new)
    PROVE  \A q \in Passes : Keeps(pass[q], pass'[q])
  <1> TAKE q \in Passes
  <1>1. pass'[q] = IF q = p THEN new ELSE pass[q]
    BY DEF NotifyTypeOK
  <1>2. Keeps(pass[q], pass[q])
    BY DEF Keeps
  <1> QED BY <1>1, <1>2

AllAnnounced == AnnounceInv /\ ExhaustionAnnounced

\* A step of one pass that leaves the stored notifications alone.
LEMMA OnePassAnnounces ==
    ASSUME NotifyTypeOK, AllAnnounced, NEW p \in Passes, NEW new,
           pass' = [pass EXCEPT ![p] = new], SameNotes,
           UNCHANGED <<happened, silent, breaks>>,
           Follows(pass[p], new), Keeps(pass[p], new)
    PROVE  AllAnnounced'
  <1>1. AnnounceInv'
    BY OnePassFollows, FollowingKeepsAnnounce DEF AllAnnounced
  <1>2. ExhaustionAnnounced'
    BY OnePassKeeps, KeepingKeepsAnnouncement DEF AllAnnounced
  <1> QED BY <1>1, <1>2 DEF AllAnnounced

LEMMA UnchangedNotes ==
    ASSUME UNCHANGED queue
    PROVE  SameNotes
    BY DEF SameNotes, queue, Stored

LEMMA PassKeepsAnnounced ==
    ASSUME DeliveryInv, AllAnnounced, NEW p \in Passes, StartPass(p) \/ EndRetries(p) \/ List(p)
    PROVE  AllAnnounced'
  <1> USE NotificationsAssumption
  <1>1. NotifyTypeOK /\ SameNotes /\ UNCHANGED <<happened, silent, breaks>>
    BY UnchangedNotes DEF DeliveryInv, StartPass, EndRetries, List
  <1>2. pass[p] # None => /\ pass[p].sinks # {} => pass[p].pc = "enqueue"
                          /\ pass[p] \in Pass
    BY <1>1 DEF AllAnnounced, AnnounceInv, Counted, NotifyTypeOK
  <1>3. CASE StartPass(p)
    <2> DEFINE new == [pc |-> IF AutoRetry THEN "retry" ELSE "list", exhausted |-> {},
                       sinks |-> {}, batch |-> <<>>, ok |-> FALSE]
    <2>1. pass' = [pass EXCEPT ![p] = new] /\ pass[p] = None
      BY <1>3 DEF StartPass
    <2>2. Follows(pass[p], new) /\ Keeps(pass[p], new)
      BY <2>1 DEF Follows, Keeps
    <2> HIDE DEF new
    <2> QED BY <1>1, <2>1, <2>2, OnePassAnnounces
  <1>4. CASE EndRetries(p)
    <2> DEFINE pc == IF pass[p].exhausted = {} \/ Sinks = {} THEN "list" ELSE "enqueue"
               rest == IF pass[p].exhausted = {} THEN {} ELSE Sinks
               new == [pass[p] EXCEPT !.pc = pc, !.sinks = rest]
    <2>1. pass[p] \in Pass /\ pass[p] # None /\ pass[p].pc = "retry"
      BY <1>2, <1>4 DEF EndRetries
    <2>2. pass' = [pass EXCEPT ![p] = new]
      BY <1>1, <1>4 DEF EndRetries, NotifyTypeOK
    <2>3. /\ pc \in {"list", "enqueue"} /\ rest \subseteq Sinks
          /\ rest # {} => pc = "enqueue"
          /\ pass[p].exhausted # {} => rest = Sinks
      OBVIOUS
    <2> HIDE DEF pc, rest
    <2>4. new.exhausted = pass[p].exhausted /\ new.sinks = rest /\ new.pc = pc /\ new \in Pass
      BY <2>1, <2>3 DEF Pass
    <2>5. new # None
      BY <2>4
    <2> HIDE DEF new
    <2>6. Follows(pass[p], new) /\ Keeps(pass[p], new)
      BY <2>1, <2>3, <2>4, <2>5 DEF Follows, Keeps
    <2> QED BY <1>1, <2>2, <2>6, OnePassAnnounces
  <1>5. CASE List(p)
    <2> DEFINE taken == [pass[p] EXCEPT !.pc = "post", !.batch = DueBatch]
               new == IF Sinks = {} \/ due = <<>> THEN None ELSE taken
    <2>1. /\ pass[p] \in Pass /\ pass' = [pass EXCEPT ![p] = new]
          /\ pass[p].pc = "list" /\ pass[p].sinks = {}
      BY <1>1, <1>2, <1>5 DEF List, NotifyTypeOK
    <2>2. taken.exhausted = pass[p].exhausted /\ taken.sinks = {} /\ taken.pc = "post"
      BY <2>1 DEF Pass
    <2> HIDE DEF taken
    <2>3. Follows(pass[p], new) /\ Keeps(pass[p], new)
      BY <1>5, <2>1, <2>2 DEF Follows, Keeps, List
    <2> HIDE DEF new
    <2> QED BY <1>1, <2>1, <2>3, OnePassAnnounces
  <1> QED BY <1>3, <1>4, <1>5

LEMMA DeliveryKeepsAnnounced ==
    ASSUME DeliveryInv, AllAnnounced, NEW p \in Passes,
           Post(p) \/ MarkDelivered(p) \/ MarkFailed(p)
    PROVE  AllAnnounced'
  <1> USE NotificationsAssumption
  <1>1. /\ NotifyTypeOK /\ pass[p] # None /\ pass[p].pc \in {"post", "mark"}
        /\ UNCHANGED <<happened, silent, breaks>>
    BY DEF DeliveryInv, Post, MarkDelivered, MarkFailed
  <1>2. pass[p] \in Pass /\ pass[p].sinks = {}
    BY <1>1 DEF AllAnnounced, AnnounceInv, Counted, NotifyTypeOK
  <1>3. CASE Post(p)
    <2>1. PICK reply \in Replies :
             pass' = [pass EXCEPT ![p].pc = "mark", ![p].ok = reply.ok]
      BY <1>3 DEF Post
    <2> DEFINE new == [pass[p] EXCEPT !.pc = "mark", !.ok = reply.ok]
    <2>2. pass' = [pass EXCEPT ![p] = new]
      BY <1>1, <2>1 DEF NotifyTypeOK
    <2>3. new.exhausted = pass[p].exhausted /\ new.sinks = {} /\ new.pc = "mark"
      BY <1>2 DEF Pass
    <2> HIDE DEF new
    <2>4. Follows(pass[p], new) /\ Keeps(pass[p], new)
      BY <1>1, <1>2, <2>3 DEF Follows, Keeps
    <2>5. SameNotes
      BY <1>3, UnchangedNotes DEF Post
    <2> QED BY <1>1, <2>2, <2>4, <2>5, OnePassAnnounces
  <1>4. CASE MarkDelivered(p) \/ MarkFailed(p)
    <2> DEFINE n == Head1(p).id
               next == [pass[p] EXCEPT !.pc = "post", !.batch = Tail(@)]
               new == IF Len(pass[p].batch) = 1 THEN None ELSE next
    <2>1. pass' = [pass EXCEPT ![p] = new]
      BY <1>4 DEF MarkDelivered, MarkFailed, Advance
    <2>2. next.exhausted = pass[p].exhausted /\ next.sinks = {} /\ next.pc = "post"
      BY <1>2 DEF Pass
    <2> HIDE DEF next
    <2>3. Follows(pass[p], new) /\ Keeps(pass[p], new)
      BY <1>1, <1>2, <2>2 DEF Follows, Keeps
    <2> HIDE DEF new
    <2>4. SameNotes
      <3>1. n \in Notes /\ n \in Stored /\ notes[n] \in Note
        BY <1>1, <1>4, MarkedNote DEF MarkDelivered, MarkFailed
      <3>2. PICK doc \in Note : /\ notes' = [notes EXCEPT ![n] = doc]
                               /\ doc.sink = notes[n].sink /\ doc.about = notes[n].about
        <4>1. CASE MarkDelivered(p)
          <5> DEFINE doc == [notes[n] EXCEPT !.status = "delivered"]
          <5>1. notes' = [notes EXCEPT ![n] = doc]
            BY <1>1, <3>1, <4>1 DEF MarkDelivered, NotifyTypeOK
          <5>2. doc \in Note /\ doc.sink = notes[n].sink /\ doc.about = notes[n].about
            BY <3>1 DEF Note, NoteStatuses
          <5> QED BY <5>1, <5>2
        <4>2. CASE MarkFailed(p)
          <5> DEFINE k == Head1(p).count
                     st == IF DeadLetters(k) THEN "dead_letter" ELSE "pending"
                     doc == [notes[n] EXCEPT !.count = k + 1, !.status = st]
          <5>1. notes' = [notes EXCEPT ![n].count = k + 1, ![n].status = st]
            BY <4>2 DEF MarkFailed
          <5>2. notes' = [notes EXCEPT ![n] = doc]
            BY <1>1, <3>1, <5>1 DEF NotifyTypeOK
          <5>3. k \in Nat
            BY <1>1, <4>2, MarkedNote DEF MarkFailed
          <5>4. k + 1 \in Nat /\ st \in NoteStatuses
            BY <5>3 DEF NoteStatuses
          <5> HIDE DEF k, st
          <5>5. doc \in Note /\ doc.sink = notes[n].sink /\ doc.about = notes[n].about
            BY <3>1, <5>4 DEF Note
          <5> QED BY <5>2, <5>5
        <4> QED BY <1>4, <4>1, <4>2
      <3> HIDE DEF n
      <3> QED BY <1>1, <3>1, <3>2 DEF SameNotes, Stored, NotifyTypeOK
    <2> QED BY <1>1, <2>1, <2>3, <2>4, OnePassAnnounces
  <1> QED BY <1>3, <1>4

LEMMA CountKeepsAnnounced ==
    ASSUME DeliveryInv, AllAnnounced, NEW p \in Passes, NEW e \in Exhaustions, Exhaust(p, e)
    PROVE  AllAnnounced'
  <1> DEFINE all == pass[p].exhausted \cup {e}
             new == [pass[p] EXCEPT !.exhausted = all]
  <1>1. /\ NotifyTypeOK /\ Counted /\ Apart /\ Unannounced /\ AnnouncedOnce
        /\ ExhaustionAnnounced
    BY DEF DeliveryInv, AllAnnounced, AnnounceInv
  <1>2. /\ pass[p] # None /\ pass[p] \in Pass /\ pass[p].pc = "retry"
        /\ e \notin happened /\ happened' = happened \cup {e}
        /\ notes' = notes /\ UNCHANGED <<silent, breaks>>
    BY <1>1 DEF Exhaust, NotifyTypeOK, queue
  <1>3. pass' = [pass EXCEPT ![p] = new]
    BY <1>1 DEF Exhaust, NotifyTypeOK
  <1> HIDE DEF all
  <1>4. new.exhausted = all /\ new.sinks = pass[p].sinks /\ new.pc = "retry"
    BY <1>2 DEF Pass
  <1>5. new # None
    <2>1. all \subseteq Exhaustions
      BY <1>2 DEF Pass, all
    <2>2. new \in Pass
      BY <1>2, <2>1 DEF Pass
    <2> QED BY <2>2, NotificationsAssumption
  <1> HIDE DEF new
  <1>6. Stored' = Stored
    BY <1>2 DEF Stored
  <1>7. \A q \in Passes : pass'[q] = IF q = p THEN new ELSE pass[q]
    BY <1>1, <1>3 DEF NotifyTypeOK
  <1>8. /\ \A n \in Stored : e \notin notes[n].about
        /\ \A q \in Passes : pass[q] # None => e \notin pass[q].exhausted
    BY <1>1, <1>2 DEF Counted
  <1>9. Counted'
    BY <1>1, <1>2, <1>4, <1>6, <1>7 DEF Counted, all
  <1>10. Apart'
    <2> SUFFICES ASSUME NEW q \in Passes, NEW r \in Passes, q # r,
                        pass'[q] # None, pass'[r] # None
                 PROVE  pass'[q].exhausted \cap pass'[r].exhausted = {}
      BY DEF Apart
    <2>1. CASE q = p
      BY <1>1, <1>2, <1>4, <1>7, <1>8, <2>1 DEF Apart, all
    <2>2. CASE r = p
      BY <1>1, <1>2, <1>4, <1>7, <1>8, <2>2 DEF Apart, all
    <2>3. CASE q # p /\ r # p
      BY <1>1, <1>7, <2>3 DEF Apart
    <2> QED BY <2>1, <2>2, <2>3
  <1>11. Unannounced' /\ AnnouncedOnce'
    <2>1. ASSUME NEW n \in Stored, NEW q \in Passes, pass'[q] # None,
                 notes[n].about \cap pass'[q].exhausted # {}
          PROVE  pass'[q].pc # "retry" /\ notes[n].sink \notin pass'[q].sinks
      <3>1. CASE q = p
        <4>1. notes[n].about \cap pass[p].exhausted # {}
          BY <1>4, <1>7, <1>8, <2>1, <3>1 DEF all
        <4> QED BY <1>1, <1>2, <4>1 DEF Unannounced
      <3>2. CASE q # p
        BY <1>1, <1>7, <2>1, <3>2 DEF Unannounced
      <3> QED BY <3>1, <3>2
    <2> QED BY <1>1, <1>2, <1>6, <2>1 DEF Unannounced, AnnouncedOnce
  <1>12. ExhaustionAnnounced'
    <2> SUFFICES ASSUME breaks' = 0, NEW x \in happened' \ silent', NEW s \in Sinks
                 PROVE  \/ \E n \in Stored' : notes'[n].sink = s /\ x \in notes'[n].about
                        \/ \E q \in Passes : /\ pass'[q] # None /\ x \in pass'[q].exhausted
                                             /\ pass'[q].pc = "retry" \/ s \in pass'[q].sinks
      BY DEF ExhaustionAnnounced
    <2>1. CASE x = e
      BY <1>4, <1>5, <1>7, <2>1 DEF all
    <2>2. CASE x # e
      <3>1. \/ \E n \in Stored : notes[n].sink = s /\ x \in notes[n].about
            \/ \E q \in Passes : /\ pass[q] # None /\ x \in pass[q].exhausted
                                 /\ pass[q].pc = "retry" \/ s \in pass[q].sinks
        BY <1>1, <1>2, <2>2 DEF ExhaustionAnnounced
      <3>2. CASE \E n \in Stored : notes[n].sink = s /\ x \in notes[n].about
        BY <1>2, <1>6, <3>2
      <3>3. CASE \E q \in Passes : /\ pass[q] # None /\ x \in pass[q].exhausted
                                   /\ pass[q].pc = "retry" \/ s \in pass[q].sinks
        BY <1>4, <1>5, <1>7, <3>3 DEF all
      <3> QED BY <3>1, <3>2, <3>3
    <2> QED BY <2>1, <2>2
  <1> QED BY <1>9, <1>10, <1>11, <1>12 DEF AllAnnounced, AnnounceInv

LEMMA EnqueueKeepsAnnounced ==
    ASSUME DeliveryInv, AllAnnounced, NEW p \in Passes, NEW s \in Sinks, Enqueue(p, s)
    PROVE  AllAnnounced'
  <1> USE NotificationsAssumption
  <1>1. /\ NotifyTypeOK /\ Counted /\ Apart /\ Unannounced /\ AnnouncedOnce
        /\ ExhaustionAnnounced
    BY DEF DeliveryInv, AllAnnounced, AnnounceInv
  <1>2. PICK n \in Notes \ Stored : notes' = [notes EXCEPT ![n] = NewNote(s, pass[p].exhausted)]
    BY DEF Enqueue
  <1>3. /\ pass[p] # None /\ pass[p].pc = "enqueue" /\ pass[p] \in Pass /\ s \in pass[p].sinks
        /\ UNCHANGED <<happened, silent, breaks>>
    BY <1>1 DEF Enqueue, NotifyTypeOK
  <1> DEFINE doc == NewNote(s, pass[p].exhausted)
             pc == IF pass[p].sinks = {s} THEN "list" ELSE "enqueue"
             rest == pass[p].sinks \ {s}
             new == [pass[p] EXCEPT !.sinks = rest, !.pc = pc]
  <1>4. doc \in Note /\ doc.sink = s /\ doc.about = pass[p].exhausted /\ doc # None
    BY <1>3 DEF NewNote, Note, NoteStatuses, Pass
  <1>5. notes' = [notes EXCEPT ![n] = doc]
    BY <1>2
  <1> HIDE DEF doc
  <1>6. /\ Stored' = Stored \cup {n} /\ n \notin Stored /\ notes'[n] = doc
        /\ \A m \in Stored : notes'[m] = notes[m]
    BY <1>1, <1>4, <1>5 DEF Stored, NotifyTypeOK
  <1>7. pass' = [pass EXCEPT ![p] = new]
    BY <1>1 DEF Enqueue, NotifyTypeOK
  <1>8. /\ pc \in {"list", "enqueue"} /\ rest \subseteq Sinks
        /\ rest # {} => pc = "enqueue"
    BY <1>3 DEF Pass
  <1>9. rest = pass[p].sinks \ {s}
    OBVIOUS
  <1> HIDE DEF pc, rest
  <1>10. /\ new \in Pass /\ new # None /\ new.exhausted = pass[p].exhausted
         /\ new.sinks = rest /\ new.pc = pc
    BY <1>3, <1>8 DEF Pass
  <1> HIDE DEF new
  <1>11. \A q \in Passes : pass'[q] = IF q = p THEN new ELSE pass[q]
    BY <1>1, <1>7 DEF NotifyTypeOK
  <1>12. Counted'
    <2>1. doc.about \subseteq happened
      BY <1>1, <1>3, <1>4 DEF Counted
    <2> QED BY <1>1, <1>3, <1>6, <1>8, <1>10, <1>11, <2>1 DEF Counted
  <1>13. Apart'
    BY <1>1, <1>3, <1>10, <1>11 DEF Apart
  <1>14. Unannounced'
    <2> SUFFICES ASSUME NEW m \in Stored', NEW q \in Passes, pass'[q] # None,
                        notes'[m].about \cap pass'[q].exhausted # {}
                 PROVE  pass'[q].pc # "retry" /\ notes'[m].sink \notin pass'[q].sinks
      BY DEF Unannounced
    <2>1. CASE q = p
      <3>1. pass'[q].pc # "retry" /\ pass'[q].sinks = pass[p].sinks \ {s}
            /\ pass'[q].exhausted = pass[p].exhausted
        BY <1>8, <1>9, <1>10, <1>11, <2>1
      <3>2. CASE m = n
        BY <1>4, <1>6, <3>1, <3>2
      <3>3. CASE m # n
        BY <1>1, <1>3, <1>6, <3>1, <3>3 DEF Unannounced
      <3> QED BY <3>1, <3>2, <3>3
    <2>2. CASE q # p
      <3>1. pass'[q] = pass[q]
        BY <1>11, <2>2
      <3>2. CASE m = n
        BY <1>1, <1>3, <1>4, <1>6, <2>2, <3>1, <3>2 DEF Apart
      <3>3. CASE m # n
        BY <1>1, <1>6, <3>1, <3>3 DEF Unannounced
      <3> QED BY <3>2, <3>3
    <2> QED BY <2>1, <2>2
  <1>15. AnnouncedOnce'
    <2>1. ASSUME NEW m \in Stored, notes[m].sink = s
          PROVE  notes[m].about \cap doc.about = {}
      BY <1>1, <1>3, <1>4, <2>1 DEF Unannounced
    <2> QED BY <1>1, <1>4, <1>6, <2>1 DEF AnnouncedOnce
  <1>16. ExhaustionAnnounced'
    <2> SUFFICES ASSUME breaks' = 0, NEW x \in happened' \ silent', NEW t \in Sinks
                 PROVE  \/ \E m \in Stored' : notes'[m].sink = t /\ x \in notes'[m].about
                        \/ \E q \in Passes : /\ pass'[q] # None /\ x \in pass'[q].exhausted
                                             /\ pass'[q].pc = "retry" \/ t \in pass'[q].sinks
      BY DEF ExhaustionAnnounced
    <2>1. \/ \E m \in Stored : notes[m].sink = t /\ x \in notes[m].about
          \/ \E q \in Passes : /\ pass[q] # None /\ x \in pass[q].exhausted
                               /\ pass[q].pc = "retry" \/ t \in pass[q].sinks
      BY <1>1, <1>3 DEF ExhaustionAnnounced
    <2>2. CASE \E m \in Stored : notes[m].sink = t /\ x \in notes[m].about
      BY <1>6, <2>2
    <2>3. ASSUME NEW q \in Passes, pass[q] # None, x \in pass[q].exhausted,
                 pass[q].pc = "retry" \/ t \in pass[q].sinks
          PROVE  \/ \E m \in Stored' : notes'[m].sink = t /\ x \in notes'[m].about
                 \/ pass'[q] # None /\ x \in pass'[q].exhausted
                    /\ (pass'[q].pc = "retry" \/ t \in pass'[q].sinks)
      <3>1. CASE q = p /\ t = s
        BY <1>4, <1>6, <2>3, <3>1
      <3>2. CASE q = p /\ t # s
        BY <1>3, <1>9, <1>10, <1>11, <2>3, <3>2
      <3>3. CASE q # p
        BY <1>11, <2>3, <3>3
      <3> QED BY <3>1, <3>2, <3>3
    <2> QED BY <2>1, <2>2, <2>3
  <1> QED BY <1>12, <1>13, <1>14, <1>15, <1>16 DEF AllAnnounced, AnnounceInv

\* The steps that leave the passes alone.
LEMMA IdleKeepsAnnounced ==
    ASSUME DeliveryInv, AllAnnounced, UNCHANGED <<notes, pass, breaks>>,
           happened \subseteq happened', happened' \ silent' \subseteq happened \ silent
    PROVE  AllAnnounced'
  <1>1. SameNotes
    BY DEF SameNotes, Stored
  <1>2. \A p \in Passes : Follows(pass[p], pass'[p]) /\ Keeps(pass[p], pass'[p])
    BY DEF AllAnnounced, AnnounceInv, Counted, Follows, Keeps
  <1> QED BY <1>1, <1>2, FollowingKeepsAnnounce, KeepingKeepsAnnouncement DEF AllAnnounced

LEMMA FaultKeepsAnnounced ==
    ASSUME DeliveryInv, AllAnnounced, Restart \/ \E p \in Passes : DeliveryUnmarked(p)
    PROVE  AllAnnounced'
  <1> USE NotificationsAssumption
  <1>1. NotifyTypeOK /\ AnnounceInv /\ SameNotes /\ happened' = happened
    BY UnchangedNotes DEF DeliveryInv, AllAnnounced, Restart, DeliveryUnmarked
  <1>2. breaks' # 0
    BY <1>1 DEF NotifyTypeOK, Restart, DeliveryUnmarked
  <1>3. ExhaustionAnnounced'
    BY <1>2 DEF ExhaustionAnnounced
  <1>4. \A q \in Passes : Follows(pass[q], pass'[q])
    <2>1. CASE Restart
      BY <2>1 DEF Restart, Follows
    <2>2. ASSUME NEW p \in Passes, DeliveryUnmarked(p)
          PROVE  \A q \in Passes : Follows(pass[q], pass'[q])
      <3> DEFINE new == [pass[p] EXCEPT !.ok = FALSE]
      <3>1. pass[p] # None /\ pass[p] \in Pass /\ pass[p].sinks # {} => pass[p].pc = "enqueue"
        BY <1>1, <2>2 DEF DeliveryUnmarked, NotifyTypeOK, AnnounceInv, Counted
      <3>2. pass' = [pass EXCEPT ![p] = new]
        BY <1>1, <2>2 DEF DeliveryUnmarked, NotifyTypeOK
      <3>3. pass[p] # None /\ pass[p] \in Pass
        BY <1>1, <2>2 DEF DeliveryUnmarked, NotifyTypeOK
      <3>4. /\ new.exhausted = pass[p].exhausted /\ new.sinks = pass[p].sinks
            /\ new.pc = pass[p].pc
        BY <3>3 DEF Pass
      <3> HIDE DEF new
      <3>5. Follows(pass[p], new)
        BY <1>1, <3>3, <3>4 DEF Follows, AnnounceInv, Counted
      <3> QED BY <1>1, <3>2, <3>5, OnePassFollows
    <2> QED BY <2>1, <2>2
  <1>5. AnnounceInv'
    BY <1>1, <1>4, FollowingKeepsAnnounce
  <1> QED BY <1>3, <1>5 DEF AllAnnounced

LEMMA AnnouncedInit ==
    ASSUME NotifyInit
    PROVE  AllAnnounced
  <1>1. Stored = {} /\ happened = {} /\ \A p \in Passes : pass[p] = None
    BY DEF NotifyInit, Stored
  <1> QED BY <1>1 DEF AllAnnounced, AnnounceInv, Counted, Apart, Unannounced, AnnouncedOnce,
                      ExhaustionAnnounced

LEMMA AnnouncedNext ==
    ASSUME DeliveryInv, AllAnnounced, [NotifyNext]_notifyVars
    PROVE  AllAnnounced'
  <1>1. ASSUME NEW p \in Passes, PassStep(p)
        PROVE  AllAnnounced'
    <2>1. CASE StartPass(p) \/ EndRetries(p) \/ List(p)
      BY <2>1, PassKeepsAnnounced
    <2>2. CASE \E s \in Sinks : Enqueue(p, s)
      BY <2>2, EnqueueKeepsAnnounced
    <2>3. CASE Post(p) \/ MarkDelivered(p) \/ MarkFailed(p)
      BY <2>3, DeliveryKeepsAnnounced
    <2> QED BY <1>1, <2>1, <2>2, <2>3 DEF PassStep
  <1>2. ASSUME NEW e \in Exhaustions, ExhaustElsewhere(e)
        PROVE  AllAnnounced'
    BY <1>2, IdleKeepsAnnounced DEF ExhaustElsewhere, queue
  <1>3. ASSUME NEW n \in Notes, DelayEnds(n)
        PROVE  AllAnnounced'
    BY <1>3, IdleKeepsAnnounced DEF DelayEnds
  <1>4. CASE UNCHANGED notifyVars
    BY <1>4, IdleKeepsAnnounced DEF notifyVars, queue
  <1> QED BY <1>1, <1>2, <1>3, <1>4, CountKeepsAnnounced, FaultKeepsAnnounced DEF NotifyNext

LEMMA AnnouncedAlways == NotifySpec => []AllAnnounced
  <1>1. NotifyInit => AllAnnounced
    BY AnnouncedInit
  <1>2. DeliveryInv /\ AllAnnounced /\ [NotifyNext]_notifyVars => AllAnnounced'
    BY AnnouncedNext
  <1> QED BY <1>1, <1>2, DeliveryInvAlways, PTL DEF NotifySpec

\* However many passes of the timer overlap, enqueueRetryExhaustedNotifications stores
\* for what one pass has counted one notification per sink and no more.
THEOREM AnnouncementsSingle == NotifySpec => []AnnouncedOnce
  <1>1. AllAnnounced => AnnouncedOnce
    BY DEF AllAnnounced, AnnounceInv
  <1> QED BY <1>1, AnnouncedAlways, PTL

\* Without a crash no pass of the timer ends, and no step overwrites a document, before
\* every sink has a notification of each exhaustion that the timer has counted.
THEOREM ExhaustionsAnnounced == NotifySpec => []ExhaustionAnnounced
  <1>1. AllAnnounced => ExhaustionAnnounced
    BY DEF AllAnnounced
  <1> QED BY <1>1, AnnouncedAlways, PTL

-----------------------------------------------------------------------------
(* How often a notification is posted.                                     *)

(* The notifications that a pass will list, now or when their time has come. *)
Waits(n) == n \in waiting \/ \E i \in 1..Len(due) : due[i] = n

(* The attempts that the stored count leaves. *)
Left(n) == IF Waits(n) THEN MaxAttempts - notes[n].count ELSE 0

QueueApart ==
    /\ \A i, j \in 1..Len(due) : due[i] = due[j] => i = j
    /\ \A i \in 1..Len(due) : due[i] \notin waiting
    /\ \A n \in Notes : Waits(n) => notes[n].count < MaxAttempts

BatchApart(rec) ==
    /\ \A i, j \in 1..Len(rec.batch) : rec.batch[i].id = rec.batch[j].id => i = j
    /\ \A i \in 1..Len(rec.batch) : rec.batch[i].count < MaxAttempts
    /\ rec.pc \notin {"post", "mark"} => rec.batch = <<>>

Holds(rec, n) == rec # None /\ \E i \in 1..Len(rec.batch) : rec.batch[i].id = n

(* The attempts that the count leaves which a pass has read, or would read now. *)
Share(rec, n, left, x) ==
    IF Holds(rec, n)
    THEN \E i \in 1..Len(rec.batch) :
            rec.batch[i].id = n /\ x = MaxAttempts - rec.batch[i].count
    ELSE x = left

(* Whether a pass has posted a notification without counting the post yet. *)
Owed(rec, n) ==
    IF rec # None /\ rec.pc = "mark" /\ rec.batch[1].id = n THEN 1 ELSE 0

Pairs(z) == z * (z - 1)
Most == MaxAttempts * (MaxAttempts + 3)

(* After k posts, of which owed are not counted, with the shares x and y of two *)
(* passes. Twice what is left for them to post: each its share, and each of them *)
(* in turn once more as often as the other has shares left.                     *)
Within(k, x, y, owed) ==
    \A z \in {x, y} : 2 * (k + x + y) + Pairs(z) <= Most + 2 * owed

Affordable(a, b, k, left, n) ==
    \A x, y \in Int : Share(a, n, left, x) /\ Share(b, n, left, y) =>
        Within(k, x, y, Owed(a, n) + Owed(b, n))

BudgetInv ==
    /\ QueueApart
    /\ \A p \in Passes : pass[p] # None => BatchApart(pass[p])
    /\ \A n \in Notes \ Stored : posts[n] = 0
    /\ breaks = 0 =>
          \A n \in Notes, p, q \in Passes : p # q =>
             Affordable(pass[p], pass[q], posts[n], Left(n), n)

LEMMA PairsStep ==
    ASSUME NEW x \in Nat, x >= 1
    PROVE  /\ Pairs(x) = Pairs(x - 1) + 2 * (x - 1)
           /\ Pairs(x) \in Nat /\ Pairs(0) = 0 /\ Pairs(x - 1) \in Nat
  <1>1. Pairs(x) = Pairs(x - 1) + 2 * (x - 1)
    BY DEF Pairs
  <1>2. ASSUME NEW z \in Nat PROVE Pairs(z) \in Nat
    <2>1. CASE z = 0
      BY <2>1 DEF Pairs
    <2>2. CASE z # 0
      <3>1. z - 1 \in Nat
        BY <2>2
      <3> QED BY <3>1 DEF Pairs
    <2> QED BY <2>1, <2>2
  <1>3. Pairs(0) = 0
    BY DEF Pairs
  <1> QED BY <1>1, <1>2, <1>3

LEMMA MostType == Most \in Nat
  BY NotificationsAssumption DEF Most

LEMMA OwedType ==
    ASSUME NEW rec, NEW n
    PROVE  Owed(rec, n) \in {0, 1}
  BY DEF Owed

LEMMA AffordableBoth ==
    ASSUME NEW a, NEW b, NEW k, NEW left, NEW n, Affordable(a, b, k, left, n), k \in Int
    PROVE  Affordable(b, a, k, left, n)
  <1> SUFFICES ASSUME NEW x \in Int, NEW y \in Int, Share(b, n, left, x), Share(a, n, left, y)
               PROVE  Within(k, x, y, Owed(b, n) + Owed(a, n))
    BY DEF Affordable
  <1>1. Within(k, y, x, Owed(a, n) + Owed(b, n))
    BY DEF Affordable
  <1>2. Owed(a, n) + Owed(b, n) = Owed(b, n) + Owed(a, n) /\ k + x + y = k + y + x
    BY OwedType
  <1> QED BY <1>1, <1>2 DEF Within

\* A pass that holds a notification holds it with a share of at least one.
LEMMA ShareHeld ==
    ASSUME NEW rec \in Pass, BatchApart(rec), NEW n, Holds(rec, n), NEW left, NEW x,
           Share(rec, n, left, x)
    PROVE  x \in Nat /\ x >= 1
  <1>1. PICK i \in 1..Len(rec.batch) :
           rec.batch[i].id = n /\ x = MaxAttempts - rec.batch[i].count
    BY DEF Share
  <1>2. rec.batch \in Seq(Listed)
    BY DEF Pass
  <1>3. rec.batch[i] \in Listed
    BY <1>2
  <1>4. rec.batch[i].count \in Nat /\ rec.batch[i].count < MaxAttempts
    BY <1>3 DEF Listed, BatchApart
  <1> QED BY <1>1, <1>4, NotificationsAssumption

\* A post uses up what the pass then owes to the count.
LEMMA PostAffordable ==
    ASSUME NEW a, NEW b, NEW new, NEW n, NEW k \in Nat, NEW left,
           Affordable(a, b, k, left, n), Owed(a, n) = 0, Owed(new, n) = 1,
           \A x \in Int : Share(new, n, left, x) => Share(a, n, left, x)
    PROVE  Affordable(new, b, k + 1, left, n)
  <1> SUFFICES ASSUME NEW x \in Int, NEW y \in Int, Share(new, n, left, x), Share(b, n, left, y)
               PROVE  Within(k + 1, x, y, Owed(new, n) + Owed(b, n))
    BY DEF Affordable
  <1>1. Within(k, x, y, Owed(b, n))
    BY OwedType DEF Affordable
  <1>2. ASSUME NEW z \in {x, y}
        PROVE  2 * (k + 1 + x + y) + Pairs(z) <= Most + 2 * (1 + Owed(b, n))
    <2>1. 2 * (k + x + y) + Pairs(z) <= Most + 2 * Owed(b, n)
      BY <1>1 DEF Within
    <2>2. Pairs(z) \in Int /\ Owed(b, n) \in Int
      BY OwedType DEF Pairs
    <2> PICK owed \in Int : owed = Owed(b, n)
      BY <2>2
    <2> QED BY <2>1, <2>2, MostType
  <1> QED BY <1>2 DEF Within

\* A step that changes neither the posts nor the shares.
LEMMA KeptAffordable ==
    ASSUME NEW a, NEW b, NEW new, NEW n, NEW k, NEW left,
           Affordable(a, b, k, left, n), Owed(new, n) = Owed(a, n),
           \A x \in Int : Share(new, n, left, x) => Share(a, n, left, x)
    PROVE  Affordable(new, b, k, left, n)
  BY DEF Affordable

\* A count that a pass writes uses up one of the shares that the pass had.
LEMMA MarkAffordable ==
    ASSUME NEW a \in Pass, NEW b \in Pass \cup {None}, NEW new, NEW n, NEW k \in Nat,
           NEW left \in Nat, NEW next \in Nat,
           BatchApart(a), b # None => BatchApart(b) /\ Len(b.batch) \in Nat /\
                                      (b.pc = "mark" => Len(b.batch) > 0),
           Affordable(a, b, k, left, n), Owed(a, n) = 1, Owed(new, n) = 0,
           Holds(a, n), ~Holds(new, n),
           \A x \in Int : Share(a, n, left, x) => next \in {0, x - 1},
           \E x \in Int : Share(a, n, left, x)
    PROVE  Affordable(new, b, k, next, n)
  <1> SUFFICES ASSUME NEW w \in Int, NEW v \in Int, Share(new, n, next, w), Share(b, n, next, v)
               PROVE  Within(k, w, v, Owed(new, n) + Owed(b, n))
    BY DEF Affordable
  <1> PICK x \in Int : Share(a, n, left, x)
    OBVIOUS
  <1>1. x \in Nat /\ x >= 1 /\ w = next /\ w \in {0, x - 1}
    BY ShareHeld DEF Share
  <1>2. /\ Pairs(x) = Pairs(x - 1) + 2 * (x - 1)
        /\ Pairs(x) \in Nat /\ Pairs(0) = 0 /\ Pairs(x - 1) \in Nat
    BY <1>1, PairsStep
  <1>3. Pairs(w) \in Nat /\ Pairs(w) <= Pairs(x) /\ Pairs(v) \in Int
    <2>1. Pairs(v) \in Int
      BY DEF Pairs
    <2> QED BY <1>1, <1>2, <2>1
  <1> PICK most \in Nat : most = Most
    BY MostType
  <1>4. CASE Holds(b, n)
    <2>1. Share(b, n, left, v)
      BY <1>4 DEF Share
    <2>2. Within(k, x, v, 1 + Owed(b, n))
      BY <2>1 DEF Affordable
    <2> PICK owed \in Int : owed = Owed(b, n)
      BY OwedType
    <2>3. /\ 2 * (k + x + v) + Pairs(x) <= most + 2 * (1 + owed)
          /\ 2 * (k + x + v) + Pairs(v) <= most + 2 * (1 + owed)
      BY <2>2 DEF Within
    <2>4. /\ 2 * (k + w + v) + Pairs(w) <= most + 2 * owed
          /\ 2 * (k + w + v) + Pairs(v) <= most + 2 * owed
      <3> PICK px \in Int, pw \in Int, pv \in Int : px = Pairs(x) /\ pw = Pairs(w) /\ pv = Pairs(v)
        BY <1>2, <1>3
      <3>1. pw <= px /\ w \in {0, x - 1} /\ x >= 1
        BY <1>1, <1>3
      <3>2. /\ 2 * (k + x + v) + px <= most + 2 * (1 + owed)
            /\ 2 * (k + x + v) + pv <= most + 2 * (1 + owed)
        BY <2>3
      <3>3. /\ 2 * (k + w + v) + pw <= most + 2 * owed
            /\ 2 * (k + w + v) + pv <= most + 2 * owed
        BY ONLY k \in Int, x \in Int, w \in Int, v \in Int, owed \in Int, most \in Int,
                px \in Int, pw \in Int, pv \in Int, <3>1, <3>2
      <3> QED BY <3>3
    <2>5. Owed(new, n) + Owed(b, n) = owed
      BY OwedType
    <2> QED BY <2>4, <2>5 DEF Within
  <1>5. CASE ~Holds(b, n)
    <2>1. Owed(b, n) = 0
      <3> SUFFICES ASSUME b # None, b.pc = "mark", b.batch[1].id = n
                   PROVE  FALSE
        BY DEF Owed
      <3>1. 1 \in 1..Len(b.batch)
        OBVIOUS
      <3> QED BY <1>5, <3>1 DEF Holds
    <2>2. v = next /\ Share(b, n, left, left)
      BY <1>5 DEF Share
    <2>3. Within(k, x, left, 1)
      BY <2>1, <2>2 DEF Affordable
    <2>4. 2 * (k + x + left) + Pairs(x) <= most + 2
      BY <2>3 DEF Within
    <2>5. 2 * (k + w + w) + Pairs(w) <= most
      <3> PICK px \in Nat, pw \in Nat : px = Pairs(x) /\ pw = Pairs(w)
        BY <1>2, <1>3
      <3>1. (w = 0 /\ pw = 0) \/ (w = x - 1 /\ px = pw + 2 * w)
        <4>1. CASE w = 0
          BY <1>2, <4>1
        <4>2. CASE w = x - 1
          BY <1>2, <4>2
        <4> QED BY <1>1, <4>1, <4>2
      <3>2. 2 * (k + x + left) + px <= most + 2 /\ x >= 1
        BY <1>1, <2>4
      <3>3. 2 * (k + w + w) + pw <= most
        BY ONLY k \in Int, x \in Int, w \in Int, left \in Nat, most \in Int,
                px \in Nat, pw \in Int, <3>1, <3>2
      <3> QED BY <3>3
    <2> QED BY <1>1, <2>1, <2>2, <2>5 DEF Within
  <1> QED BY <1>4, <1>5

\* A new notification has all of its attempts left.
LEMMA NewAffordable ==
    ASSUME NEW a, NEW b, NEW n, ~Holds(a, n), ~Holds(b, n)
    PROVE  Affordable(a, b, 0, MaxAttempts, n)
  <1> SUFFICES ASSUME NEW x \in Int, NEW y \in Int,
                      Share(a, n, MaxAttempts, x), Share(b, n, MaxAttempts, y)
               PROVE  Within(0, x, y, Owed(a, n) + Owed(b, n))
    BY DEF Affordable
  <1>1. x = MaxAttempts /\ y = MaxAttempts
    BY DEF Share
  <1>2. 2 * (0 + MaxAttempts + MaxAttempts) + Pairs(MaxAttempts) = Most
    BY NotificationsAssumption DEF Pairs, Most
  <1>3. Owed(a, n) + Owed(b, n) \in Nat
    BY OwedType
  <1> QED BY <1>1, <1>2, <1>3, MostType DEF Within

LEMMA PairSize ==
    ASSUME NEW p, NEW q, p # q
    PROVE  IsFiniteSet({p, q}) /\ Cardinality({p, q}) = 2
  <1>1. IsFiniteSet({p}) /\ Cardinality({p}) = 1
    BY FS_Singleton
  <1>2. {p, q} = {p} \cup {q} /\ q \notin {p}
    OBVIOUS
  <1>3. IsFiniteSet({p} \cup {q}) /\ Cardinality({p} \cup {q}) = Cardinality({p}) + 1
    BY <1>1, <1>2, FS_AddElement
  <1> QED BY <1>1, <1>2, <1>3

\* A step of one pass, with what it means for the shares of that pass.
LEMMA OnePassBudget ==
    ASSUME NotifyTypeOK, BudgetInv, NEW p \in Passes, NEW new,
           pass' = [pass EXCEPT ![p] = new], breaks' = breaks,
           new # None => BatchApart(new),
           QueueApart', \A n \in Notes \ Stored' : posts'[n] = 0,
           \A n \in Notes, q \in Passes : p # q =>
              posts[n] \in Int /\ posts'[n] \in Int /\
              (Affordable(pass[p], pass[q], posts[n], Left(n), n)
                 => Affordable(new, pass[q], posts'[n], Left(n)', n)),
           Cardinality(Passes) = 2
    PROVE  BudgetInv'
  <1>1. \A q \in Passes : pass'[q] = IF q = p THEN new ELSE pass[q]
    BY DEF NotifyTypeOK
  <1>2. \A q \in Passes : pass'[q] # None => BatchApart(pass'[q])
    BY <1>1 DEF BudgetInv
  <1>3. ASSUME NEW n \in Notes, NEW q \in Passes, NEW r \in Passes, q # r, breaks = 0
        PROVE  Affordable(pass'[q], pass'[r], posts'[n], Left(n)', n)
    <2>1. q = p \/ r = p
      <3>1. SUFFICES ASSUME q # p, r # p PROVE FALSE
        OBVIOUS
      <3>2. {p, q, r} \subseteq Passes /\ IsFiniteSet(Passes)
        BY NotificationsAssumption
      <3>3. IsFiniteSet({p, q}) /\ Cardinality({p, q}) = 2
        BY <3>1, PairSize
      <3>4. Cardinality({p, q}) = Cardinality(Passes) => {p, q} = Passes
        BY <3>2, <3>3, FS_Subset
      <3> QED BY <1>3, <3>1, <3>3, <3>4
    <2>2. ASSUME NEW x \in Passes, x # p
          PROVE  Affordable(new, pass[x], posts'[n], Left(n)', n)
      BY <1>3, <2>2 DEF BudgetInv
    <2>3. CASE q = p
      BY <1>1, <1>3, <2>2, <2>3
    <2>4. CASE r = p
      <3>1. Affordable(new, pass[q], posts'[n], Left(n)', n) /\ posts'[n] \in Int
        BY <1>3, <2>2, <2>4
      <3>2. Affordable(pass[q], new, posts'[n], Left(n)', n)
        BY <3>1, AffordableBoth
      <3> QED BY <1>1, <1>3, <2>4, <3>2
    <2> QED BY <2>1, <2>3, <2>4
  <1> QED BY <1>2, <1>3 DEF BudgetInv

Idle(rec) == rec # None => rec.batch = <<>> /\ rec.pc # "mark"

LEMMA IdleShares ==
    ASSUME NEW rec, Idle(rec), NEW n
    PROVE  ~Holds(rec, n) /\ Owed(rec, n) = 0
  <1>1. ~Holds(rec, n)
    <2> SUFFICES ASSUME rec # None, NEW i \in 1..Len(rec.batch)
                 PROVE  FALSE
      BY DEF Holds
    <2>1. Len(rec.batch) = 0
      BY DEF Idle
    <2> QED BY <2>1
  <1> QED BY <1>1 DEF Idle, Owed

\* A step of one pass that leaves the queue and the posts alone.
LEMMA ReadingBudget ==
    ASSUME DeliveryInv, BudgetInv, Cardinality(Passes) = 2, NEW p \in Passes, NEW new,
           pass' = [pass EXCEPT ![p] = new], UNCHANGED <<notes, due, waiting, posts, breaks>>,
           new # None => BatchApart(new),
           \A n \in Notes : /\ Owed(new, n) = Owed(pass[p], n)
                            /\ \A x \in Int : Share(new, n, Left(n), x)
                                                 => Share(pass[p], n, Left(n), x)
    PROVE  BudgetInv'
  <1>1. Stored' = Stored /\ \A n \in Notes : Left(n)' = Left(n) /\ posts[n] \in Int
    BY DEF Stored, Left, Waits, DeliveryInv, NotifyTypeOK
  <1>2. QueueApart' /\ \A n \in Notes \ Stored' : posts'[n] = 0
    BY <1>1 DEF BudgetInv, QueueApart, Waits
  <1>3. ASSUME NEW n \in Notes, NEW q \in Passes, p # q,
               Affordable(pass[p], pass[q], posts[n], Left(n), n)
        PROVE  Affordable(new, pass[q], posts'[n], Left(n)', n)
    BY <1>1, <1>3, KeptAffordable
  <1> QED BY <1>1, <1>2, <1>3, OnePassBudget DEF DeliveryInv

LEMMA IdleBudget ==
    ASSUME DeliveryInv, BudgetInv, Cardinality(Passes) = 2, NEW p \in Passes, NEW new,
           pass' = [pass EXCEPT ![p] = new], UNCHANGED <<notes, due, waiting, posts, breaks>>,
           Idle(pass[p]), Idle(new), new # None => BatchApart(new)
    PROVE  BudgetInv'
  <1>1. \A n \in Notes : /\ Owed(new, n) = Owed(pass[p], n)
                         /\ \A x \in Int : Share(new, n, Left(n), x)
                                              => Share(pass[p], n, Left(n), x)
    BY IdleShares DEF Share
  <1> QED BY <1>1, ReadingBudget

\* A step that leaves the passes alone, and with them what each notification has left.
LEMMA StillBudget ==
    ASSUME BudgetInv, UNCHANGED <<pass, notes, posts, breaks>>, QueueApart',
           \A n \in Notes : Left(n)' = Left(n)
    PROVE  BudgetInv'
  <1>1. Stored' = Stored
    BY DEF Stored
  <1> QED BY <1>1 DEF BudgetInv

LEMMA PassKeepsBudget ==
    ASSUME DeliveryInv, BudgetInv, Cardinality(Passes) = 2, NEW p \in Passes,
           StartPass(p) \/ EndRetries(p) \/ List(p) \/ \E e \in Exhaustions : Exhaust(p, e)
    PROVE  BudgetInv'
  <1> USE NotificationsAssumption
  <1>1. /\ NotifyTypeOK /\ QueueOK
        /\ UNCHANGED <<notes, due, waiting, posts, breaks>>
    BY DEF DeliveryInv, StartPass, EndRetries, List, Exhaust, queue, sinkVars
  <1>2. pass[p] # None => pass[p] \in Pass /\ BatchApart(pass[p])
    BY <1>1 DEF BudgetInv, NotifyTypeOK
  <1>3. Idle(pass[p])
    BY <1>2 DEF StartPass, EndRetries, List, Exhaust, BatchApart, Idle
  <1>4. CASE StartPass(p)
    <2> DEFINE new == [pc |-> IF AutoRetry THEN "retry" ELSE "list", exhausted |-> {},
                       sinks |-> {}, batch |-> <<>>, ok |-> FALSE]
    <2>1. pass' = [pass EXCEPT ![p] = new]
      BY <1>4 DEF StartPass
    <2>2. Idle(new) /\ BatchApart(new)
      BY DEF Idle, BatchApart
    <2> HIDE DEF new
    <2> QED BY <1>1, <1>3, <2>1, <2>2, IdleBudget
  <1>5. CASE EndRetries(p)
    <2> DEFINE pc == IF pass[p].exhausted = {} \/ Sinks = {} THEN "list" ELSE "enqueue"
               rest == IF pass[p].exhausted = {} THEN {} ELSE Sinks
               new == [pass[p] EXCEPT !.pc = pc, !.sinks = rest]
    <2>1. pass[p] \in Pass /\ pass[p] # None
      BY <1>2, <1>5 DEF EndRetries
    <2>2. pass' = [pass EXCEPT ![p] = new]
      BY <1>1, <1>5 DEF EndRetries, NotifyTypeOK
    <2>3. pc \in {"list", "enqueue"}
      OBVIOUS
    <2> HIDE DEF pc, rest
    <2>4. new.batch = pass[p].batch /\ new.pc = pc
      BY <2>1 DEF Pass
    <2>5. new.batch = <<>> /\ new.pc # "mark"
      BY <1>3, <2>1, <2>3, <2>4 DEF Idle
    <2> HIDE DEF new
    <2>6. Idle(new) /\ BatchApart(new)
      BY <2>5 DEF Idle, BatchApart
    <2> QED BY <1>1, <1>3, <2>2, <2>6, IdleBudget
  <1>6. CASE \E e \in Exhaustions : Exhaust(p, e)
    <2>1. PICK e \in Exhaustions : Exhaust(p, e)
      BY <1>6
    <2> DEFINE all == pass[p].exhausted \cup {e}
               new == [pass[p] EXCEPT !.exhausted = all]
    <2>2. pass[p] \in Pass /\ pass[p] # None
      BY <1>2, <2>1 DEF Exhaust
    <2>3. pass' = [pass EXCEPT ![p] = new]
      BY <1>1, <2>1 DEF Exhaust, NotifyTypeOK
    <2> HIDE DEF all
    <2>4. new.batch = pass[p].batch /\ new.pc = pass[p].pc
      BY <2>2 DEF Pass
    <2> HIDE DEF new
    <2>5. Idle(new) /\ BatchApart(new)
      BY <1>2, <1>3, <2>2, <2>4 DEF Idle, BatchApart
    <2> QED BY <1>1, <1>3, <2>3, <2>5, IdleBudget
  <1>7. CASE List(p)
    <2> DEFINE taken == [pass[p] EXCEPT !.pc = "post", !.batch = DueBatch]
               new == IF Sinks = {} \/ due = <<>> THEN None ELSE taken
    <2>1. pass[p] \in Pass /\ pass' = [pass EXCEPT ![p] = new]
      BY <1>1, <1>2, <1>7 DEF List, NotifyTypeOK
    <2>2. CASE Sinks = {} \/ due = <<>>
      <3>1. new = None
        BY <2>2
      <3>2. Idle(new) /\ (new # None => BatchApart(new))
        BY <3>1 DEF Idle
      <3> HIDE DEF new
      <3> QED BY <1>1, <1>3, <2>1, <3>2, IdleBudget
    <2>3. CASE ~(Sinks = {} \/ due = <<>>)
      <3>1. \A i \in 1..Len(due) : due[i] \in Stored
        BY <1>1 DEF QueueOK
      <3>2. /\ DueBatch \in Seq(Listed) /\ Len(DueBatch) \in 1..Limit
            /\ \A i \in 1..Len(DueBatch) : /\ DueBatch[i].id = due[i]
                                           /\ DueBatch[i].count = notes[due[i]].count
                                           /\ notes[due[i]] # None
        BY <1>1, <2>3, <3>1, BatchOfQueue DEF Stored
      <3>3. new.pc = "post" /\ new.batch = DueBatch
        BY <2>1, <2>3 DEF Pass
      <3>4. \A i \in 1..Len(DueBatch) : i \in 1..Len(due)
        <4>1. Len(DueBatch) = IF Len(due) < Limit THEN Len(due) ELSE Limit
          BY <1>1 DEF DueBatch, NotifyTypeOK
        <4> QED BY <1>1, <4>1 DEF NotifyTypeOK
      <3>5. ASSUME NEW i \in 1..Len(DueBatch)
            PROVE  due[i] \in Notes /\ Waits(due[i])
                   /\ Left(due[i]) = MaxAttempts - DueBatch[i].count
                   /\ DueBatch[i].count < MaxAttempts
        <4>1. i \in 1..Len(due) /\ due[i] \in Notes
          BY <1>1, <3>4 DEF NotifyTypeOK
        <4> QED BY <3>2, <4>1 DEF Waits, Left, BudgetInv, QueueApart
      <3> HIDE DEF new
      <3>6. BatchApart(new)
        <4>1. \A i, j \in 1..Len(DueBatch) : DueBatch[i].id = DueBatch[j].id => i = j
          BY <3>2, <3>4 DEF BudgetInv, QueueApart
        <4> QED BY <3>3, <3>5, <4>1 DEF BatchApart
      <3>7. ASSUME NEW n \in Notes
            PROVE  /\ Owed(new, n) = Owed(pass[p], n)
                   /\ \A x \in Int : Share(new, n, Left(n), x)
                                        => Share(pass[p], n, Left(n), x)
        <4>1. Owed(new, n) = 0 /\ Owed(pass[p], n) = 0 /\ ~Holds(pass[p], n)
          BY <1>3, <3>3, IdleShares DEF Owed
        <4>2. ASSUME NEW x \in Int, Share(new, n, Left(n), x)
              PROVE  x = Left(n)
          <5>1. CASE Holds(new, n)
            <6>1. PICK i \in 1..Len(DueBatch) :
                     DueBatch[i].id = n /\ x = MaxAttempts - DueBatch[i].count
              BY <3>3, <4>2, <5>1 DEF Share
            <6> QED BY <3>2, <3>5, <6>1
          <5>2. CASE ~Holds(new, n)
            BY <4>2, <5>2 DEF Share
          <5> QED BY <5>1, <5>2
        <4> QED BY <4>1, <4>2 DEF Share
      <3> QED BY <1>1, <2>1, <3>6, <3>7, ReadingBudget
    <2> QED BY <2>2, <2>3
  <1> QED BY <1>4, <1>5, <1>6, <1>7

LEMMA PostKeepsBudget ==
    ASSUME DeliveryInv, BudgetInv, Cardinality(Passes) = 2, NEW p \in Passes, Post(p)
    PROVE  BudgetInv'
  <1>1. NotifyTypeOK /\ PassesFit
    BY DEF DeliveryInv
  <1>2. PICK reply \in Replies :
           /\ pass' = [pass EXCEPT ![p].pc = "mark", ![p].ok = reply.ok]
           /\ posts' = [posts EXCEPT ![Head1(p).id] = @ + 1]
    BY DEF Post, PostsPerDelivery
  <1>3. /\ pass[p] # None /\ pass[p].pc = "post" /\ pass[p] \in Pass
        /\ UNCHANGED <<notes, due, waiting, breaks>>
    BY <1>1 DEF Post, queue, NotifyTypeOK
  <1>4. Fits(pass[p], Stored, posts, alerts) /\ BatchApart(pass[p])
    BY <1>1, <1>3 DEF PassesFit, BudgetInv
  <1>5. /\ pass[p].batch \in Seq(Listed) /\ Head1(p) = pass[p].batch[1]
        /\ 1 \in 1..Len(pass[p].batch)
    BY <1>3, <1>4 DEF Pass, Fits, Head1
  <1> DEFINE m == pass[p].batch[1].id
             new == [pass[p] EXCEPT !.pc = "mark", !.ok = reply.ok]
  <1>6. m \in Stored /\ m \in Notes
    BY <1>4, <1>5 DEF Fits, Stored
  <1>7. pass' = [pass EXCEPT ![p] = new]
    BY <1>1, <1>2 DEF NotifyTypeOK
  <1>8. new.batch = pass[p].batch /\ new.pc = "mark"
    BY <1>3 DEF Pass
  <1>9. new # None
    <2>1. reply.ok \in BOOLEAN
      <3>1. CASE reply = [stored |-> TRUE, ok |-> TRUE]
        BY <3>1
      <3>2. CASE reply = [stored |-> TRUE, ok |-> FALSE]
        BY <3>2
      <3>3. CASE reply = [stored |-> FALSE, ok |-> FALSE]
        BY <3>3
      <3> QED BY <3>1, <3>2, <3>3 DEF Replies
    <2>2. new \in Pass
      BY <1>3, <2>1 DEF Pass
    <2> QED BY <2>2, NotificationsAssumption
  <1> HIDE DEF new
  <1>10. BatchApart(new)
    BY <1>4, <1>8 DEF BatchApart
  <1>11. /\ Stored' = Stored /\ \A n \in Notes : Left(n)' = Left(n)
    BY <1>3 DEF Stored, Left, Waits
  <1>12. QueueApart'
    BY <1>3 DEF BudgetInv, QueueApart, Waits
  <1>13. ASSUME NEW n \in Notes
         PROVE  /\ posts[n] \in Nat /\ posts'[n] = IF n = m THEN posts[n] + 1 ELSE posts[n]
                /\ Owed(pass[p], n) = 0 /\ Owed(new, n) = IF n = m THEN 1 ELSE 0
                /\ \A x \in Int : Share(new, n, Left(n), x) => Share(pass[p], n, Left(n), x)
    <2>1. posts[n] \in Nat /\ posts'[n] = IF n = m THEN posts[n] + 1 ELSE posts[n]
      BY <1>1, <1>2, <1>5, <1>6 DEF NotifyTypeOK
    <2>2. Owed(pass[p], n) = 0 /\ Owed(new, n) = IF n = m THEN 1 ELSE 0
      BY <1>3, <1>8, <1>9 DEF Owed
    <2>3. \A x \in Int : Share(new, n, Left(n), x) => Share(pass[p], n, Left(n), x)
      BY <1>3, <1>8, <1>9 DEF Share, Holds
    <2> QED BY <2>1, <2>2, <2>3
  <1>14. \A n \in Notes \ Stored' : posts'[n] = 0
    BY <1>6, <1>11, <1>13 DEF BudgetInv
  <1>15. ASSUME NEW n \in Notes, NEW q \in Passes, p # q,
                Affordable(pass[p], pass[q], posts[n], Left(n), n)
         PROVE  Affordable(new, pass[q], posts'[n], Left(n)', n)
    <2>1. CASE n = m
      BY <1>11, <1>13, <1>15, <2>1, PostAffordable
    <2>2. CASE n # m
      BY <1>11, <1>13, <1>15, <2>2, KeptAffordable
    <2> QED BY <2>1, <2>2
  <1>16. \A n \in Notes : posts[n] \in Int /\ posts'[n] \in Int
    BY <1>13
  <1> QED BY <1>1, <1>3, <1>7, <1>10, <1>12, <1>14, <1>15, <1>16, OnePassBudget

LEMMA DelayKeepsBudget ==
    ASSUME DeliveryInv, BudgetInv, NEW n \in Notes, DelayEnds(n)
    PROVE  BudgetInv'
  <1>1. /\ n \in waiting /\ waiting' = waiting \ {n} /\ due' = Append(due, n)
        /\ UNCHANGED <<pass, notes, posts, breaks>>
        /\ due \in Seq(Notes) /\ QueueApart
    BY DEF DelayEnds, sinkVars, DeliveryInv, NotifyTypeOK, BudgetInv
  <1> PICK k \in Nat : k = Len(due)
    BY <1>1
  <1>2. /\ Len(due') = k + 1 /\ due'[k + 1] = n
        /\ \A i \in 1..k : due'[i] = due[i] /\ due[i] # n
    BY <1>1 DEF QueueApart
  <1>3. \A i \in 1..(k + 1) : i \in 1..k \/ i = k + 1
    OBVIOUS
  <1>4. \A m : Waits(m)' <=> Waits(m)
    <2> SUFFICES ASSUME NEW m
                 PROVE  Waits(m)' <=> Waits(m)
      OBVIOUS
    <2>1. (\E i \in 1..(k + 1) : due'[i] = m) <=> m = n \/ \E i \in 1..k : due[i] = m
      BY <1>2, <1>3
    <2> QED BY <1>1, <1>2, <2>1 DEF Waits
  <1>5. \A m : Left(m)' = Left(m)
    BY <1>1, <1>4 DEF Left
  <1>6. QueueApart'
    <2>1. \A i, j \in 1..(k + 1) : due'[i] = due'[j] => i = j
      BY <1>1, <1>2, <1>3 DEF QueueApart
    <2>2. \A i \in 1..(k + 1) : due'[i] \notin waiting'
      BY <1>1, <1>2, <1>3 DEF QueueApart
    <2>3. \A m \in Notes : Waits(m)' => notes'[m].count < MaxAttempts
      BY <1>1, <1>4 DEF QueueApart
    <2> QED BY <1>2, <2>1, <2>2, <2>3 DEF QueueApart
  <1> QED BY <1>1, <1>5, <1>6, StillBudget

LEMMA EnqueueKeepsBudget ==
    ASSUME DeliveryInv, BudgetInv, Cardinality(Passes) = 2, NEW p \in Passes, NEW s \in Sinks,
           Enqueue(p, s)
    PROVE  BudgetInv'
  <1> USE NotificationsAssumption
  <1>1. NotifyTypeOK /\ PassesFit /\ QueueOK /\ QueueApart
    BY DEF DeliveryInv, BudgetInv
  <1>2. PICK n \in Notes \ Stored :
           /\ notes' = [notes EXCEPT ![n] = NewNote(s, pass[p].exhausted)]
           /\ due' = Append(due, n)
    BY DEF Enqueue
  <1>3. /\ pass[p] # None /\ pass[p].pc = "enqueue" /\ pass[p] \in Pass
        /\ UNCHANGED <<waiting, posts, breaks>>
    BY <1>1 DEF Enqueue, sinkVars, NotifyTypeOK
  <1> DEFINE doc == NewNote(s, pass[p].exhausted)
             pc == IF pass[p].sinks = {s} THEN "list" ELSE "enqueue"
             rest == pass[p].sinks \ {s}
             new == [pass[p] EXCEPT !.sinks = rest, !.pc = pc]
  <1>4. doc \in Note /\ doc.count = 0
    BY <1>3 DEF NewNote, Note, NoteStatuses, Pass
  <1>5. notes' = [notes EXCEPT ![n] = doc]
    BY <1>2
  <1> HIDE DEF doc
  <1>6. /\ Stored' = Stored \cup {n} /\ n \notin Stored /\ notes'[n].count = 0
        /\ \A m \in Notes \ {n} : notes'[m] = notes[m]
    BY <1>1, <1>4, <1>5 DEF Stored, NotifyTypeOK
  <1>7. pass' = [pass EXCEPT ![p] = new]
    BY <1>1 DEF Enqueue, NotifyTypeOK
  <1>8. new.batch = pass[p].batch /\ new.pc = pc
    BY <1>3 DEF Pass
  <1>9. pc \in {"list", "enqueue"} /\ pass[p].batch = <<>>
    BY <1>3 DEF BudgetInv, BatchApart
  <1> HIDE DEF pc, rest
  <1>10. Idle(new) /\ Idle(pass[p]) /\ BatchApart(new)
    <2> HIDE DEF new
    <2> QED BY <1>3, <1>8, <1>9 DEF Idle, BatchApart
  <1> HIDE DEF new
  (* The queue has one element more, which was not there. *)
  <1> PICK k \in Nat : k = Len(due)
    BY <1>1 DEF NotifyTypeOK
  <1>11. /\ Len(due') = k + 1 /\ due'[k + 1] = n /\ n \notin waiting
         /\ \A i \in 1..k : due'[i] = due[i] /\ due[i] # n /\ due[i] \in Notes
    <2>1. \A i \in 1..k : due[i] \in Stored /\ due[i] \in Notes
      BY <1>1 DEF QueueOK, NotifyTypeOK
    <2> QED BY <1>1, <1>2, <2>1 DEF QueueOK, NotifyTypeOK
  <1>12. \A i \in 1..(k + 1) : i \in 1..k \/ i = k + 1
    OBVIOUS
  <1>13. \A m : Waits(m)' <=> Waits(m) \/ m = n
    <2> SUFFICES ASSUME NEW m
                 PROVE  Waits(m)' <=> Waits(m) \/ m = n
      OBVIOUS
    <2>1. (\E i \in 1..(k + 1) : due'[i] = m) <=> m = n \/ \E i \in 1..k : due[i] = m
      BY <1>11, <1>12
    <2> QED BY <1>3, <1>11, <2>1 DEF Waits
  <1>14. QueueApart'
    <2>1. \A i, j \in 1..(k + 1) : due'[i] = due'[j] => i = j
      BY <1>1, <1>11, <1>12 DEF QueueApart
    <2>2. \A i \in 1..(k + 1) : due'[i] \notin waiting'
      BY <1>1, <1>3, <1>11, <1>12 DEF QueueApart
    <2>3. \A m \in Notes : Waits(m)' => notes'[m].count < MaxAttempts
      BY <1>1, <1>6, <1>13 DEF QueueApart
    <2> QED BY <1>11, <2>1, <2>2, <2>3 DEF QueueApart
  <1>15. \A m \in Notes : Left(m)' = IF m = n THEN MaxAttempts ELSE Left(m)
    BY <1>6, <1>13 DEF Left
  <1>16. \A m \in Notes \ Stored' : posts'[m] = 0
    BY <1>3, <1>6 DEF BudgetInv
  <1>17. posts[n] = 0 /\ \A m \in Notes : posts'[m] = posts[m] /\ posts[m] \in Int
    BY <1>1, <1>3, <1>6 DEF BudgetInv, NotifyTypeOK
  <1>18. ASSUME NEW q \in Passes
         PROVE  ~Holds(pass[q], n)
    BY <1>1, <1>6 DEF PassesFit, Fits, Holds
  <1>19. ASSUME NEW m \in Notes, NEW q \in Passes, p # q,
                Affordable(pass[p], pass[q], posts[m], Left(m), m)
         PROVE  Affordable(new, pass[q], posts'[m], Left(m)', m)
    <2>1. ~Holds(new, m) /\ Owed(new, m) = 0 /\ ~Holds(pass[p], m) /\ Owed(pass[p], m) = 0
      BY <1>10, IdleShares
    <2>2. CASE m = n
      BY <1>15, <1>17, <1>18, <2>1, <2>2, NewAffordable
    <2>3. CASE m # n
      <3>1. \A x \in Int : Share(new, m, Left(m), x) => Share(pass[p], m, Left(m), x)
        BY <2>1 DEF Share
      <3> QED BY <1>15, <1>17, <1>19, <2>1, <2>3, <3>1, KeptAffordable
    <2> QED BY <2>2, <2>3
  <1>20. \A m \in Notes : posts[m] \in Int /\ posts'[m] \in Int
    BY <1>17
  <1> QED BY <1>1, <1>3, <1>7, <1>10, <1>14, <1>16, <1>19, <1>20, OnePassBudget

\* What the marking of a post does to the notification and to the queue.
LEMMA MarkShape ==
    ASSUME DeliveryInv, NEW p \in Passes, MarkDelivered(p) \/ MarkFailed(p)
    PROVE  /\ pass[p] # None /\ pass[p].pc = "mark"
           /\ due' = RemoveFirst(due, Head1(p).id)
           /\ \A m \in Notes \ {Head1(p).id} : notes'[m] = notes[m]
           /\ Stored' = Stored /\ UNCHANGED <<posts, breaks>>
           /\ \/ waiting' = waiting \ {Head1(p).id}
              \/ /\ waiting' = waiting \cup {Head1(p).id}
                 /\ Head1(p).count + 1 < MaxAttempts
                 /\ notes'[Head1(p).id].count = Head1(p).count + 1
  <1> USE NotificationsAssumption
  <1>1. /\ pass[p] # None /\ pass[p].pc = "mark" /\ due' = RemoveFirst(due, Head1(p).id)
        /\ UNCHANGED <<posts, breaks>> /\ NotifyTypeOK
    BY DEF MarkDelivered, MarkFailed, sinkVars, DeliveryInv
  <1>2. Head1(p).id \in Notes /\ Head1(p).id \in Stored /\ notes[Head1(p).id] \in Note
        /\ Head1(p).count \in Nat
    BY <1>1, MarkedNote
  <1>3. CASE MarkDelivered(p)
    <2> DEFINE doc == [notes[Head1(p).id] EXCEPT !.status = "delivered"]
    <2>1. notes' = [notes EXCEPT ![Head1(p).id] = doc] /\ waiting' = waiting \ {Head1(p).id}
      BY <1>1, <1>2, <1>3 DEF MarkDelivered, NotifyTypeOK
    <2>2. doc \in Note
      BY <1>2 DEF Note, NoteStatuses
    <2> HIDE DEF doc
    <2> QED BY <1>1, <1>2, <2>1, <2>2 DEF Stored, NotifyTypeOK
  <1>4. CASE MarkFailed(p)
    <2> DEFINE k == Head1(p).count
               st == IF DeadLetters(k) THEN "dead_letter" ELSE "pending"
               doc == [notes[Head1(p).id] EXCEPT !.count = k + 1, !.status = st]
    <2>1. /\ notes' = [notes EXCEPT ![Head1(p).id].count = k + 1, ![Head1(p).id].status = st]
          /\ waiting' = Scheduled(Head1(p).id, DeadLetters(k))
      BY <1>4 DEF MarkFailed
    <2>2. notes' = [notes EXCEPT ![Head1(p).id] = doc]
      BY <1>1, <1>2, <2>1 DEF NotifyTypeOK
    <2>3. st \in NoteStatuses /\ k + 1 \in Nat
      BY <1>2 DEF NoteStatuses
    <2> HIDE DEF st
    <2>4. doc \in Note /\ doc.count = k + 1
      BY <1>2, <2>3 DEF Note
    <2>5. DeadLetters(k) \/ k + 1 < MaxAttempts
      BY <1>2 DEF DeadLetters
    <2> HIDE DEF doc
    <2>6. notes'[Head1(p).id] = doc /\ Stored' = Stored
          /\ \A m \in Notes \ {Head1(p).id} : notes'[m] = notes[m]
      BY <1>1, <1>2, <2>2, <2>4 DEF Stored, NotifyTypeOK
    <2> QED BY <1>1, <2>1, <2>4, <2>5, <2>6 DEF Scheduled
  <1> QED BY <1>3, <1>4

LEMMA MarkKeepsBudget ==
    ASSUME DeliveryInv, BudgetInv, Cardinality(Passes) = 2, NEW p \in Passes,
           MarkDelivered(p) \/ MarkFailed(p)
    PROVE  BudgetInv'
  <1> USE NotificationsAssumption
  <1>1. NotifyTypeOK /\ PassesFit /\ QueueOK /\ QueueApart
    BY DEF DeliveryInv, BudgetInv
  <1> PICK m : m = Head1(p).id
    OBVIOUS
  <1> PICK c : c = Head1(p).count
    OBVIOUS
  <1>2. /\ pass[p] # None /\ pass[p].pc = "mark"
        /\ due' = RemoveFirst(due, m)
        /\ \A n \in Notes \ {m} : notes'[n] = notes[n]
        /\ Stored' = Stored /\ UNCHANGED <<posts, breaks>>
        /\ \/ waiting' = waiting \ {m}
           \/ /\ waiting' = waiting \cup {m} /\ c + 1 < MaxAttempts
              /\ notes'[m].count = c + 1
    BY MarkShape
  <1>3. pass[p] \in Pass /\ Fits(pass[p], Stored, posts, alerts) /\ BatchApart(pass[p])
    BY <1>1, <1>2 DEF NotifyTypeOK, PassesFit, BudgetInv
  <1>4. /\ pass[p].batch \in Seq(Listed) /\ Len(pass[p].batch) > 0
        /\ 1 \in 1..Len(pass[p].batch)
        /\ pass[p].batch[1].id = m /\ pass[p].batch[1].count = c
        /\ m \in Notes /\ c \in Nat
    BY <1>2, <1>3, MarkedNote DEF Pass, Fits
  <1>5. c < MaxAttempts
    BY <1>3, <1>4 DEF BatchApart
  (* The queue. *)
  <1>6. /\ \A i, j \in 1..Len(due') : due'[i] = due'[j] => i = j
        /\ \A x : (\E i \in 1..Len(due') : due'[i] = x)
                     <=> x # m /\ \E i \in 1..Len(due) : due[i] = x
    <2>1. due \in Seq(Notes) /\ \A i, j \in 1..Len(due) : due[i] = due[j] => i = j
      BY <1>1 DEF NotifyTypeOK, QueueApart
    <2>2. /\ \A i, j \in 1..Len(RemoveFirst(due, m)) :
                RemoveFirst(due, m)[i] = RemoveFirst(due, m)[j] => i = j
          /\ \A x : (\E i \in 1..Len(RemoveFirst(due, m)) : RemoveFirst(due, m)[i] = x)
                       <=> x # m /\ \E i \in 1..Len(due) : due[i] = x
      BY ONLY <2>1, RemovedOnce, Zenon
    <2> QED BY <1>2, <2>2
  <1>7. ASSUME NEW x, x # m
        PROVE  Waits(x)' <=> Waits(x)
    <2>1. (\E i \in 1..Len(due') : due'[i] = x) <=> (\E i \in 1..Len(due) : due[i] = x)
      BY <1>6, <1>7
    <2>2. x \in waiting' <=> x \in waiting
      BY <1>2, <1>7
    <2> QED BY <2>1, <2>2 DEF Waits
  <1>8. Waits(m)' => c + 1 < MaxAttempts /\ notes'[m].count = c + 1
    BY <1>2, <1>6 DEF Waits
  <1>9. QueueApart'
    <2>1. ASSUME NEW i \in 1..Len(due')
          PROVE  due'[i] \notin waiting'
      <3>1. due'[i] # m /\ \E j \in 1..Len(due) : due[j] = due'[i]
        BY <1>6
      <3> QED BY <1>1, <1>2, <3>1 DEF QueueApart
    <2>2. ASSUME NEW n \in Notes, Waits(n)'
          PROVE  notes'[n].count < MaxAttempts
      <3>1. CASE n = m
        BY <1>8, <2>2, <3>1
      <3>2. CASE n # m
        <4>1. Waits(n)
          BY <1>7, <2>2, <3>2
        <4> QED BY <1>1, <1>2, <3>2, <4>1 DEF QueueApart
      <3> QED BY <3>1, <3>2
    <2> QED BY <1>6, <2>1, <2>2 DEF QueueApart
  <1>10. \A n \in Notes : n # m => Left(n)' = Left(n)
    BY <1>2, <1>7 DEF Left
  <1>11. Left(m)' \in Nat /\ Left(m)' \in {0, (MaxAttempts - c) - 1} /\ Left(m) \in Nat
    <2>1. Left(m) \in Nat
      <3>1. CASE Waits(m)
        <4>1. m \in Stored /\ notes[m].count < MaxAttempts
          BY <1>1, <1>4, <3>1 DEF QueueApart, QueueOK, Waits
        <4>2. notes[m].count \in Nat
          BY <1>1, <1>4, <4>1 DEF NotifyTypeOK, Stored, Note
        <4> QED BY <3>1, <4>1, <4>2 DEF Left
      <3> QED BY <3>1 DEF Left
    <2>2. CASE Waits(m)'
      <3>1. Left(m)' = MaxAttempts - (c + 1)
        BY <1>8, <2>2 DEF Left
      <3>2. MaxAttempts - (c + 1) = (MaxAttempts - c) - 1 /\ MaxAttempts - (c + 1) \in Nat
        BY <1>4, <1>8, <2>2
      <3> QED BY <2>1, <3>1, <3>2
    <2>3. CASE ~Waits(m)'
      BY <2>1, <2>3 DEF Left
    <2> QED BY <2>1, <2>2, <2>3
  (* The pass that goes on. *)
  <1> DEFINE rest == Tail(pass[p].batch)
             on == [pass[p] EXCEPT !.pc = "post", !.batch = rest]
             new == IF Len(pass[p].batch) = 1 THEN None ELSE on
  <1>12. pass' = [pass EXCEPT ![p] = new]
    BY DEF MarkDelivered, MarkFailed, Advance
  <1>13. /\ rest \in Seq(Listed)
         /\ \A i \in 1..Len(rest) : rest[i] = pass[p].batch[i + 1] /\ i + 1 \in 1..Len(pass[p].batch)
         /\ \A i \in 1..Len(pass[p].batch) : i # 1 =>
               i - 1 \in 1..Len(rest) /\ rest[i - 1] = pass[p].batch[i]
    BY <1>4
  <1>14. on.batch = rest /\ on.pc = "post"
    BY <1>3 DEF Pass
  <1> HIDE DEF rest
  <1> HIDE DEF on
  <1>15. on \in Pass
    <2>1. on.batch \in Seq(Listed)
      BY <1>13, <1>14
    <2> QED BY <1>3, <1>13 DEF on, Pass
  <1>16. new = None \/ (new.batch = rest /\ new.pc = "post")
    BY <1>14
  <1>17. new = None => \A i \in 1..Len(pass[p].batch) : i = 1
    <2> SUFFICES ASSUME new = None
                 PROVE  \A i \in 1..Len(pass[p].batch) : i = 1
      OBVIOUS
    <2>1. on # None
      BY <1>15
    <2>2. Len(pass[p].batch) = 1
      BY <2>1
    <2> QED BY <2>2
  <1> HIDE DEF new
  <1>18. new # None => BatchApart(new)
    <2> SUFFICES ASSUME new # None
                 PROVE  BatchApart(new)
      OBVIOUS
    <2>1. ASSUME NEW i \in 1..Len(rest), NEW j \in 1..Len(rest), rest[i].id = rest[j].id
          PROVE  i = j
      <3>1. /\ i + 1 \in 1..Len(pass[p].batch) /\ j + 1 \in 1..Len(pass[p].batch)
            /\ pass[p].batch[i + 1].id = pass[p].batch[j + 1].id
        BY <1>13, <2>1
      <3>2. i + 1 = j + 1
        BY <1>3, <3>1 DEF BatchApart
      <3> QED BY <3>2
    <2>2. \A i \in 1..Len(rest) : rest[i].count < MaxAttempts
      BY <1>3, <1>13 DEF BatchApart
    <2> QED BY <1>16, <2>1, <2>2 DEF BatchApart
  <1>19. \A n : Owed(new, n) = 0
    BY <1>16 DEF Owed
  <1>20. ~Holds(new, m)
    <2> SUFFICES ASSUME new # None, NEW i \in 1..Len(rest), rest[i].id = m
                 PROVE  FALSE
      BY <1>16 DEF Holds
    <2>1. i + 1 \in 1..Len(pass[p].batch) /\ pass[p].batch[i + 1].id = pass[p].batch[1].id
      BY <1>4, <1>13
    <2>2. i + 1 = 1
      BY <1>3, <1>4, <2>1 DEF BatchApart
    <2> QED BY <2>2
  <1>21. ASSUME NEW n, n # m
         PROVE  /\ Owed(pass[p], n) = 0
                /\ \A x \in Int : Share(new, n, Left(n), x) => Share(pass[p], n, Left(n), x)
    <2>1. Owed(pass[p], n) = 0
      BY <1>4, <1>21 DEF Owed
    <2>2. Holds(pass[p], n) => Holds(new, n)
      <3> SUFFICES ASSUME NEW i \in 1..Len(pass[p].batch), pass[p].batch[i].id = n
                   PROVE  Holds(new, n)
        BY DEF Holds
      <3>1. i # 1
        BY <1>4, <1>21
      <3>2. new # None /\ new.batch = rest
        BY <1>16, <1>17, <3>1
      <3> QED BY <1>13, <3>1, <3>2 DEF Holds
    <2>3. ASSUME NEW x \in Int, Share(new, n, Left(n), x)
          PROVE  Share(pass[p], n, Left(n), x)
      <3>1. CASE Holds(new, n)
        <4>1. new # None /\ new.batch = rest
          BY <1>16, <3>1 DEF Holds
        <4>2. PICK i \in 1..Len(rest) : rest[i].id = n /\ x = MaxAttempts - rest[i].count
          BY <2>3, <3>1, <4>1 DEF Share
        <4> QED BY <1>2, <1>13, <4>2 DEF Share, Holds
      <3>2. CASE ~Holds(new, n)
        BY <2>2, <2>3, <3>2 DEF Share
      <3> QED BY <3>1, <3>2
    <2> QED BY <2>1, <2>3
  <1>22. /\ Owed(pass[p], m) = 1 /\ Holds(pass[p], m)
         /\ \A x \in Int : Share(pass[p], m, Left(m), x) => x = MaxAttempts - c
         /\ \E x \in Int : Share(pass[p], m, Left(m), x)
    <2>1. Owed(pass[p], m) = 1 /\ Holds(pass[p], m)
      BY <1>2, <1>4 DEF Owed, Holds
    <2>2. \A i \in 1..Len(pass[p].batch) : pass[p].batch[i].id = m => i = 1
      BY <1>3, <1>4 DEF BatchApart
    <2>3. \A x \in Int : Share(pass[p], m, Left(m), x) => x = MaxAttempts - c
      BY <1>4, <2>1, <2>2 DEF Share
    <2>4. MaxAttempts - c \in Int /\ Share(pass[p], m, Left(m), MaxAttempts - c)
      BY <1>4, <2>1 DEF Share
    <2> QED BY <2>1, <2>3, <2>4
  <1>23. ASSUME NEW n \in Notes, NEW q \in Passes, p # q,
                Affordable(pass[p], pass[q], posts[n], Left(n), n)
         PROVE  Affordable(new, pass[q], posts'[n], Left(n)', n)
    <2>1. CASE n = m
      <3> PICK next : next = Left(m)'
        OBVIOUS
      <3>1. next \in Nat /\ \A x \in Int : Share(pass[p], m, Left(m), x) => next \in {0, x - 1}
        BY <1>11, <1>22
      <3>2. /\ pass[q] \in Pass \cup {None}
            /\ pass[q] # None => BatchApart(pass[q]) /\ Len(pass[q].batch) \in Nat /\
                                 (pass[q].pc = "mark" => Len(pass[q].batch) > 0)
        BY <1>1 DEF NotifyTypeOK, BudgetInv, PassesFit, Fits, Pass
      <3>3. posts[m] \in Nat /\ Left(m) \in Nat /\ Owed(new, m) = 0
        BY <1>1, <1>4, <1>11, <1>19 DEF NotifyTypeOK
      <3>4. Affordable(pass[p], pass[q], posts[m], Left(m), m)
        BY <1>23, <2>1
      <3>5. Affordable(new, pass[q], posts[m], next, m)
        BY <1>3, <1>20, <1>22, <3>1, <3>2, <3>3, <3>4, MarkAffordable
      <3> QED BY <1>2, <2>1, <3>5
    <2>2. CASE n # m
      <3>1. Affordable(new, pass[q], posts[n], Left(n), n)
        BY <1>19, <1>21, <1>23, <2>2, KeptAffordable
      <3> QED BY <1>2, <1>10, <2>2, <3>1
    <2> QED BY <2>1, <2>2
  <1>24. \A n \in Notes : posts[n] \in Int /\ posts'[n] \in Int
    BY <1>1, <1>2 DEF NotifyTypeOK
  <1>25. \A n \in Notes \ Stored' : posts'[n] = 0
    BY <1>2 DEF BudgetInv
  <1> QED BY <1>1, <1>2, <1>9, <1>12, <1>18, <1>23, <1>24, <1>25, OnePassBudget

LEMMA FaultKeepsBudget ==
    ASSUME DeliveryInv, BudgetInv, Restart \/ \E p \in Passes : DeliveryUnmarked(p)
    PROVE  BudgetInv'
  <1>1. NotifyTypeOK
    BY DEF DeliveryInv
  <1>2. UNCHANGED <<notes, due, waiting, posts>> /\ breaks \in Nat /\ breaks' = breaks + 1
    BY <1>1 DEF Restart, DeliveryUnmarked, NotifyTypeOK, queue, sinkVars
  <1>3. breaks' # 0
    BY <1>2
  <1>4. QueueApart' /\ \A n \in Notes \ Stored' : posts'[n] = 0
    BY <1>2 DEF BudgetInv, QueueApart, Waits, Stored
  <1>5. CASE Restart
    <2>1. \A p \in Passes : pass'[p] = None
      BY <1>5 DEF Restart
    <2> QED BY <1>3, <1>4, <2>1 DEF BudgetInv
  <1>6. ASSUME NEW p \in Passes, DeliveryUnmarked(p)
        PROVE  BudgetInv'
    <2>1. /\ pass[p] # None /\ pass[p] \in Pass
          /\ pass' = [pass EXCEPT ![p] = [pass[p] EXCEPT !.ok = FALSE]]
      BY <1>1, <1>6 DEF DeliveryUnmarked, NotifyTypeOK
    <2>2. \A q \in Passes : q # p => pass'[q] = pass[q]
      BY <1>1, <2>1 DEF NotifyTypeOK
    <2>3. pass'[p].batch = pass[p].batch /\ pass'[p].pc = pass[p].pc
      BY <1>1, <2>1 DEF NotifyTypeOK, Pass
    <2>4. BatchApart(pass[p])
      BY <2>1 DEF BudgetInv
    <2>5. BatchApart(pass'[p])
      BY <2>3, <2>4 DEF BatchApart
    <2>6. ASSUME NEW q \in Passes, pass'[q] # None
          PROVE  BatchApart(pass'[q])
      BY <2>2, <2>5, <2>6 DEF BudgetInv
    <2> QED BY <1>3, <1>4, <2>6 DEF BudgetInv
  <1> QED BY <1>5, <1>6

LEMMA BudgetInvInit ==
    ASSUME NotifyInit
    PROVE  BudgetInv
  <1>1. \A n : ~Waits(n)
    BY DEF NotifyInit, Waits
  <1>2. QueueApart /\ \A n \in Notes \ Stored : posts[n] = 0
    BY <1>1 DEF NotifyInit, QueueApart
  <1>3. \A p \in Passes : pass[p] = None
    BY DEF NotifyInit
  <1>4. ASSUME NEW n \in Notes, NEW p \in Passes, NEW q \in Passes
        PROVE  Affordable(pass[p], pass[q], posts[n], Left(n), n)
    <2>1. /\ Owed(pass[p], n) = 0 /\ Owed(pass[q], n) = 0
          /\ ~Holds(pass[p], n) /\ ~Holds(pass[q], n)
          /\ Left(n) = 0 /\ posts[n] = 0
      BY <1>1, <1>3 DEF Owed, Holds, Left, NotifyInit
    <2>2. Within(0, 0, 0, 0)
      <3>1. Pairs(0) = 0
        BY DEF Pairs
      <3> QED BY <3>1, MostType DEF Within
    <2>3. ASSUME NEW x \in Int, NEW y \in Int,
                 Share(pass[p], n, Left(n), x), Share(pass[q], n, Left(n), y)
          PROVE  Within(posts[n], x, y, Owed(pass[p], n) + Owed(pass[q], n))
      <3>1. x = 0 /\ y = 0
        BY <2>1, <2>3 DEF Share
      <3>2. Owed(pass[p], n) + Owed(pass[q], n) = 0
        BY <2>1
      <3> QED BY <2>1, <2>2, <3>1, <3>2
    <2> QED BY <2>3 DEF Affordable
  <1> QED BY <1>2, <1>3, <1>4 DEF BudgetInv

LEMMA BudgetInvNext ==
    ASSUME Cardinality(Passes) = 2, DeliveryInv, BudgetInv, [NotifyNext]_notifyVars
    PROVE  BudgetInv'
  <1>1. ASSUME NEW p \in Passes, PassStep(p)
        PROVE  BudgetInv'
    <2>1. CASE StartPass(p) \/ EndRetries(p) \/ List(p)
      BY <2>1, PassKeepsBudget
    <2>2. CASE \E s \in Sinks : Enqueue(p, s)
      BY <2>2, EnqueueKeepsBudget
    <2>3. CASE Post(p)
      BY <2>3, PostKeepsBudget
    <2>4. CASE MarkDelivered(p) \/ MarkFailed(p)
      BY <2>4, MarkKeepsBudget
    <2> QED BY <1>1, <2>1, <2>2, <2>3, <2>4 DEF PassStep
  <1>2. CASE UNCHANGED notifyVars \/ \E e \in Exhaustions : ExhaustElsewhere(e)
    <2>1. UNCHANGED <<notes, due, waiting, pass, posts, breaks>>
      BY <1>2 DEF ExhaustElsewhere, notifyVars, queue, sinkVars
    <2>2. QueueApart' /\ \A n \in Notes : Left(n)' = Left(n)
      BY <2>1 DEF BudgetInv, QueueApart, Waits, Left
    <2> QED BY <2>1, <2>2, StillBudget
  <1>3. ASSUME NEW p \in Passes, NEW e \in Exhaustions, Exhaust(p, e)
        PROVE  BudgetInv'
    BY <1>3, PassKeepsBudget
  <1> QED BY <1>1, <1>2, <1>3, FaultKeepsBudget, DelayKeepsBudget DEF NotifyNext

LEMMA BudgetInvAlways ==
    ASSUME Cardinality(Passes) = 2
    PROVE  NotifySpec => []BudgetInv
  <1>1. NotifyInit => BudgetInv
    BY BudgetInvInit
  <1>2. DeliveryInv /\ BudgetInv /\ [NotifyNext]_notifyVars => BudgetInv'
    BY BudgetInvNext
  <1> QED BY <1>1, <1>2, DeliveryInvAlways, PTL DEF NotifySpec

\* What a pass owes is part of its share.
LEMMA SomeShare ==
    ASSUME DeliveryInv, BudgetInv, NEW p \in Passes, NEW n \in Notes
    PROVE  \E x \in Nat : Share(pass[p], n, Left(n), x) /\ Owed(pass[p], n) <= x
  <1>1. /\ NotifyTypeOK /\ QueueApart /\ QueueOK
        /\ pass[p] # None => /\ Fits(pass[p], Stored, posts, alerts)
                             /\ BatchApart(pass[p]) /\ pass[p] \in Pass
    BY DEF DeliveryInv, BudgetInv, PassesFit, NotifyTypeOK
  <1>2. CASE Holds(pass[p], n)
    <2>1. PICK i \in 1..Len(pass[p].batch) : pass[p] # None /\ pass[p].batch[i].id = n
      BY <1>2 DEF Holds
    <2>2. Share(pass[p], n, Left(n), MaxAttempts - pass[p].batch[i].count)
      BY <1>2, <2>1 DEF Share
    <2>3. /\ MaxAttempts - pass[p].batch[i].count \in Nat
          /\ MaxAttempts - pass[p].batch[i].count >= 1
      BY <1>1, <1>2, <2>1, <2>2, ShareHeld
    <2>4. Owed(pass[p], n) <= 1
      BY DEF Owed
    <2> QED BY ONLY <2>2, <2>3, <2>4, OwedType
  <1>3. CASE ~Holds(pass[p], n)
    <2>1. Owed(pass[p], n) = 0
      <3> SUFFICES ASSUME pass[p] # None, pass[p].pc = "mark", pass[p].batch[1].id = n
                   PROVE  FALSE
        BY DEF Owed
      <3>1. Len(pass[p].batch) > 0 /\ pass[p].batch \in Seq(Listed)
        BY <1>1 DEF Fits, Pass
      <3>2. 1 \in 1..Len(pass[p].batch)
        BY <3>1
      <3> QED BY <1>3, <3>2 DEF Holds
    <2>2. Left(n) \in Nat
      <3>1. CASE Waits(n)
        <4>1. n \in Stored /\ notes[n].count < MaxAttempts
          BY <1>1, <3>1 DEF QueueApart, QueueOK, Waits
        <4>2. notes[n].count \in Nat
          BY <1>1, <4>1 DEF NotifyTypeOK, Stored, Note
        <4> QED BY <3>1, <4>1, <4>2, NotificationsAssumption DEF Left
      <3> QED BY <3>1 DEF Left
    <2> QED BY <1>3, <2>1, <2>2 DEF Share
  <1> QED BY <1>2, <1>3

LEMMA BudgetKept ==
    ASSUME DeliveryInv, BudgetInv
    PROVE  PostsWithinBudget
  <1> SUFFICES ASSUME Cardinality(Passes) = 2, breaks = 0, NEW n \in Notes
               PROVE  posts[n] <= (MaxAttempts * (MaxAttempts + 3)) \div 2
    BY DEF PostsWithinBudget
  <1>1. PICK p \in Passes, q \in Passes : p # q
    <2>1. PICK p : p \in Passes
      BY FS_EmptySet, NotificationsAssumption
    <2>2. Cardinality(Passes \ {p}) = 1 /\ IsFiniteSet(Passes \ {p})
      BY <2>1, FS_RemoveElement, NotificationsAssumption
    <2>3. Passes \ {p} # {}
      BY <2>2, FS_EmptySet
    <2> QED BY <2>1, <2>3
  <1> PICK a : a = Owed(pass[p], n)
    OBVIOUS
  <1> PICK b : b = Owed(pass[q], n)
    OBVIOUS
  <1>2. PICK x \in Nat : Share(pass[p], n, Left(n), x) /\ a <= x
    BY SomeShare
  <1>3. PICK y \in Nat : Share(pass[q], n, Left(n), y) /\ b <= y
    BY SomeShare
  <1>4. a \in Int /\ b \in Int /\ posts[n] \in Nat
    BY OwedType DEF DeliveryInv, NotifyTypeOK, Owed
  <1>5. Within(posts[n], x, y, a + b)
    BY <1>1, <1>2, <1>3 DEF BudgetInv, Affordable
  <1>6. 2 * (posts[n] + x + y) + Pairs(x) <= Most + 2 * (a + b)
    BY <1>5 DEF Within
  <1>7. Pairs(x) \in Nat
    <2>1. CASE x = 0
      BY <2>1 DEF Pairs
    <2>2. CASE x >= 1
      BY <2>2, PairsStep
    <2> QED BY <2>1, <2>2
  <1>8. a <= x /\ b <= y
    BY <1>2, <1>3
  <1>9. 2 * posts[n] <= Most
    BY ONLY x \in Nat, y \in Nat, <1>4, <1>6, <1>7, <1>8, MostType
  <1>10. posts[n] <= Most \div 2
    BY ONLY <1>4, <1>9, MostType
  <1> QED BY <1>10 DEF Most

\* Without a crash, two overlapping passes post a notification at most M * (M + 3) / 2
\* times, M being the maximum that is configured: each overwrites the count of the other,
\* but only while the other has attempts left.
THEOREM PostsStayWithinBudget == NotifySpec => []PostsWithinBudget
  <1>1. CASE Cardinality(Passes) = 2
    <2>1. DeliveryInv /\ BudgetInv => PostsWithinBudget
      BY BudgetKept
    <2> QED BY <1>1, <2>1, DeliveryInvAlways, BudgetInvAlways, PTL
  <1>2. CASE Cardinality(Passes) # 2
    <2>1. PostsWithinBudget
      BY <1>2 DEF PostsWithinBudget
    <2> QED BY <2>1, PTL
  <1> QED BY <1>1, <1>2
=============================================================================
