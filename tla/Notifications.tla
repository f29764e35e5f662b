--------------------------- MODULE Notifications ---------------------------
(***************************************************************************)
(* The maintenance timer: a pass over the due publish attempts, a stored    *)
(* notification per sink when the pass has exhausted some, and the delivery  *)
(* of the notifications that are due, with back-off and a dead letter.      *)
(*                                                                         *)
(* A timer does not wait for its last pass and nothing claims a             *)
(* notification, so passes overlap. The publish attempts themselves are      *)
(* modelled in AgsPublish; here a pass counts some of them as exhausted, and  *)
(* an attempt that two passes count is two exhaustions.                      *)
(***************************************************************************)
EXTENDS Documents, Integers, FiniteSets, SequencesExt

CONSTANTS
    Sinks,        \* agsRetryExhaustedWebhookUrls
    Passes,       \* passes that may run at the same time
    AutoRetry,    \* whether automatic retries are configured
    Exhaustions,  \* bound: what passes count as exhausted in a behaviour
    Notes,        \* the identities of notifications
    MaxAttempts,  \* agsRetryExhaustedWebhookMaxAttempts
    Limit,        \* how many notifications one pass takes
    MaxFaults     \* bound: crashes and failed writes in a behaviour

NoteStatuses == {"pending", "delivered", "dead_letter"}

\* "about" stands for the counts in the payload.
Note == [sink : Sinks, about : SUBSET Exhaustions, status : NoteStatuses, count : Nat]

\* A notification as a pass has read it.
Listed == [id : Notes, count : Nat]

Pass == [pc : {"retry", "enqueue", "list", "post", "mark"},
         exhausted : SUBSET Exhaustions, sinks : SUBSET Sinks,
         batch : Seq(Listed), ok : BOOLEAN]

ASSUME NotificationsAssumption ==
    /\ AutoRetry \in BOOLEAN
    /\ MaxAttempts \in Nat \ {0} /\ Limit \in Nat \ {0} /\ MaxFaults \in Nat
    /\ IsFiniteSet(Passes)
    /\ None \notin Note /\ None \notin Pass

VARIABLES
    notes,     \* pactNotifications
    due,       \* the pending ones whose nextAttemptAt has come, oldest first
    waiting,   \* the pending ones whose nextAttemptAt is in the future
    pass,      \* the running passes
    happened,  \* the exhaustions so far
    silent,    \* those that an endpoint's pass has found
    posts,     \* how often each notification was posted
    alerts,    \* the notifications that their sink has stored
    breaks     \* crashes and failed writes so far

queue == <<notes, due, waiting>>
sinkVars == <<posts, alerts>>
notifyVars == <<queue, pass, happened, silent, sinkVars, breaks>>

Stored == {n \in Notes : notes[n] # None}
Head1(p) == Head(pass[p].batch)

-----------------------------------------------------------------------------
(* A pass: what retryDueAgsAttempts does at start and at each interval.    *)

StartPass(p) ==
    /\ pass[p] = None
    /\ pass' = [pass EXCEPT ![p] =
                  [pc |-> IF AutoRetry THEN "retry" ELSE "list", exhausted |-> {},
                   sinks |-> {}, batch |-> <<>>, ok |-> FALSE]]
    /\ UNCHANGED <<queue, happened, silent, sinkVars, breaks>>

\* retryDueAgsPublishAttempts counts an attempt that has failed its last retry.
Exhaust(p, e) ==
    /\ pass[p] # None /\ pass[p].pc = "retry" /\ e \notin happened
    /\ pass' = [pass EXCEPT ![p].exhausted = @ \cup {e}]
    /\ happened' = happened \cup {e}
    /\ UNCHANGED <<queue, silent, sinkVars, breaks>>

\* The same count in a pass of the scheduler's or the instructor's endpoint,
\* which returns it to the caller and stores no notification.
ExhaustElsewhere(e) ==
    /\ AutoRetry /\ e \notin happened
    /\ happened' = happened \cup {e} /\ silent' = silent \cup {e}
    /\ UNCHANGED <<queue, pass, sinkVars, breaks>>

\* Mutant: notifications only when at least two attempts are exhausted.
EndRetriesMany(p) ==
    /\ pass[p] # None /\ pass[p].pc = "retry"
    /\ pass' = [pass EXCEPT
         ![p].pc = IF Cardinality(pass[p].exhausted) < 2 \/ Sinks = {} THEN "list" ELSE "enqueue",
         ![p].sinks = IF Cardinality(pass[p].exhausted) < 2 THEN {} ELSE Sinks]
    /\ UNCHANGED <<queue, happened, silent, sinkVars, breaks>>

EndRetries(p) ==
    /\ pass[p] # None /\ pass[p].pc = "retry"
    /\ pass' = [pass EXCEPT
         ![p].pc = IF pass[p].exhausted = {} \/ Sinks = {} THEN "list" ELSE "enqueue",
         ![p].sinks = IF pass[p].exhausted = {} THEN {} ELSE Sinks]
    /\ UNCHANGED <<queue, happened, silent, sinkVars, breaks>>

\* The document that enqueueNotification inserts, due at once.
NewNote(s, about) == [sink |-> s, about |-> about, status |-> "pending", count |-> 0]

\* Mutant: the sink stays among those to notify.
EnqueueAgain(p, s) ==
    /\ pass[p] # None /\ pass[p].pc = "enqueue" /\ s \in pass[p].sinks
    /\ \E n \in Notes \ Stored :
         /\ n = CHOOSE m \in Notes \ Stored : TRUE
         /\ notes' = [notes EXCEPT ![n] = NewNote(s, pass[p].exhausted)]
         /\ due' = Append(due, n)
    /\ UNCHANGED <<waiting, pass, happened, silent, sinkVars, breaks>>

\* enqueueRetryExhaustedNotifications: one insert per sink, in any order.
Enqueue(p, s) ==
    /\ pass[p] # None /\ pass[p].pc = "enqueue" /\ s \in pass[p].sinks
    /\ \E n \in Notes \ Stored :
         /\ n = CHOOSE m \in Notes \ Stored : TRUE
         /\ notes' = [notes EXCEPT ![n] = NewNote(s, pass[p].exhausted)]
         /\ due' = Append(due, n)
    /\ pass' = [pass EXCEPT ![p].sinks = @ \ {s},
                            ![p].pc = IF pass[p].sinks = {s} THEN "list" ELSE "enqueue"]
    /\ UNCHANGED <<waiting, happened, silent, sinkVars, breaks>>

\* Mutant: no limit.
DueBatchAll == [i \in 1..Len(due) |-> [id |-> due[i], count |-> notes[due[i]].count]]

\* listDueNotifications, oldest nextAttemptAt first.
DueBatch == [i \in 1..(IF Len(due) < Limit THEN Len(due) ELSE Limit) |->
               [id |-> due[i], count |-> notes[due[i]].count]]

List(p) ==
    /\ pass[p] # None /\ pass[p].pc = "list"
    /\ pass' = [pass EXCEPT ![p] =
                  IF Sinks = {} \/ due = <<>> THEN None
                  ELSE [pass[p] EXCEPT !.pc = "post", !.batch = DueBatch]]
    /\ UNCHANGED <<queue, happened, silent, sinkVars, breaks>>

\* Mutant: the worker answers before the alert is stored.
RepliesUnstored == [stored : BOOLEAN, ok : BOOLEAN]

\* The sink (the operations worker) stores the alert before it answers; it may
\* refuse or not be reached, and it may store the alert and yet not say so.
Replies == {[stored |-> TRUE, ok |-> TRUE], [stored |-> TRUE, ok |-> FALSE],
            [stored |-> FALSE, ok |-> FALSE]}

\* Mutant: the post is repeated when it fails.
PostsPerDeliveryTwo == 2

\* deliverNotification has no retry of its own.
PostsPerDelivery == 1

Post(p) ==
    /\ pass[p] # None /\ pass[p].pc = "post"
    /\ \E reply \in Replies :
         /\ pass' = [pass EXCEPT ![p].pc = "mark", ![p].ok = reply.ok]
         /\ posts' = [posts EXCEPT ![Head1(p).id] = @ + PostsPerDelivery]
         /\ alerts' = IF reply.stored THEN alerts \cup {Head1(p).id} ELSE alerts
    /\ UNCHANGED <<queue, happened, silent, breaks>>

\* The next notification of the batch, or the end of the pass.
Advance(p) ==
    pass' = [pass EXCEPT ![p] = IF Len(pass[p].batch) = 1 THEN None
                                ELSE [pass[p] EXCEPT !.pc = "post", !.batch = Tail(@)]]

MarkDelivered(p) ==
    /\ pass[p] # None /\ pass[p].pc = "mark" /\ pass[p].ok
    /\ LET n == Head1(p).id IN
         /\ notes' = [notes EXCEPT ![n].status = "delivered"]
         /\ due' = RemoveFirst(due, n)
         /\ waiting' = waiting \ {n}
    /\ Advance(p)
    /\ UNCHANGED <<happened, silent, sinkVars, breaks>>

\* Mutant: the comparison of the dead letter is off by one.
DeadLettersEarly(count) == count + 2 >= MaxAttempts

\* Whether the failure of a notification that was read with this count is its last.
DeadLetters(count) == count + 1 >= MaxAttempts

\* Mutant: no time for the next attempt.
ScheduledNever(n, dead) == waiting \ {n}

\* The notifications that wait for a later attempt once n has failed.
Scheduled(n, dead) == IF dead THEN waiting \ {n} ELSE waiting \cup {n}

\* markNotificationFailed: the count is the one read plus one, whatever other
\* passes have written since.
MarkFailed(p) ==
    /\ pass[p] # None /\ pass[p].pc = "mark" /\ ~pass[p].ok
    /\ LET n == Head1(p).id
           dead == DeadLetters(Head1(p).count)
       IN /\ notes' = [notes EXCEPT ![n].count = Head1(p).count + 1,
                                    ![n].status = IF dead THEN "dead_letter" ELSE "pending"]
          /\ due' = RemoveFirst(due, n)
          /\ waiting' = Scheduled(n, dead)
    /\ Advance(p)
    /\ UNCHANGED <<happened, silent, sinkVars, breaks>>

\* The write of a delivery fails; the catch records a failure instead. (A failed
\* write of a failure is tried again by the catch: nothing to see.)
DeliveryUnmarked(p) ==
    /\ breaks < MaxFaults
    /\ pass[p] # None /\ pass[p].pc = "mark" /\ pass[p].ok
    /\ pass' = [pass EXCEPT ![p].ok = FALSE]
    /\ breaks' = breaks + 1
    /\ UNCHANGED <<queue, happened, silent, sinkVars>>

\* nextAttemptAt comes.
DelayEnds(n) ==
    /\ n \in waiting
    /\ waiting' = waiting \ {n} /\ due' = Append(due, n)
    /\ UNCHANGED <<notes, pass, happened, silent, sinkVars, breaks>>

\* A crash, or a database call of a pass that rejects outside the delivery's
\* catch: nothing handles the rejection, which ends the process.
Restart ==
    /\ breaks < MaxFaults
    /\ breaks' = breaks + 1
    /\ pass' = [p \in Passes |-> None]
    /\ UNCHANGED <<queue, happened, silent, sinkVars>>

-----------------------------------------------------------------------------
NotifyInit ==
    /\ notes = [n \in Notes |-> None] /\ due = <<>> /\ waiting = {}
    /\ pass = [p \in Passes |-> None]
    /\ happened = {} /\ silent = {}
    /\ posts = [n \in Notes |-> 0] /\ alerts = {}
    /\ breaks = 0

PassStep(p) ==
    \/ StartPass(p) \/ EndRetries(p) \/ \E s \in Sinks : Enqueue(p, s)
    \/ List(p) \/ Post(p) \/ MarkDelivered(p) \/ MarkFailed(p)

NotifyNext ==
    \/ \E p \in Passes : PassStep(p) \/ DeliveryUnmarked(p)
    \/ \E p \in Passes, e \in Exhaustions : Exhaust(p, e)
    \/ \E e \in Exhaustions : ExhaustElsewhere(e)
    \/ \E n \in Notes : DelayEnds(n)
    \/ Restart

\* The interval starts a pass again and again, its awaits end and time passes.
NotifyFairness ==
    /\ \A p \in Passes : WF_notifyVars(PassStep(p))
    /\ \A n \in Notes : WF_notifyVars(DelayEnds(n))

NotifySpec == NotifyInit /\ [][NotifyNext]_notifyVars /\ NotifyFairness

-----------------------------------------------------------------------------
(* Properties.                                                             *)

\* Every variable has its type: the documents and passes have the fields of the
\* code's types, and a pass takes no more notifications than the limit.
NotifyTypeOK ==
    /\ notes \in [Notes -> Note \cup {None}]
    /\ due \in Seq(Notes) /\ waiting \subseteq Notes
    /\ pass \in [Passes -> Pass \cup {None}]
    /\ \A p \in Passes : pass[p] # None => Len(pass[p].batch) <= Limit
    /\ happened \subseteq Exhaustions /\ silent \subseteq happened
    /\ posts \in [Notes -> Nat] /\ alerts \subseteq Notes
    /\ breaks \in 0..MaxFaults

\* A notification is given up only after as many posts as the configuration asks
\* for, although overlapping passes overwrite each other's counts.
DeadLetterEarned ==
    \A n \in Stored : notes[n].status = "dead_letter" => posts[n] >= MaxAttempts

\* What counts as delivered was stored by the sink.
DeliveredWasStored ==
    \A n \in Stored : notes[n].status = "delivered" => n \in alerts

\* However passes overlap, what a pass counted as exhausted is announced to a sink in
\* one notification only. (Two passes may count the same attempt.)
AnnouncedOnce ==
    \A n, m \in Stored :
        n # m /\ notes[n].sink = notes[m].sink => notes[n].about \cap notes[m].about = {}

\* Without a crash, what a pass of the timer counts as exhausted is announced to
\* every sink or is about to be.
ExhaustionAnnounced ==
    breaks = 0 =>
        \A e \in happened \ silent, s \in Sinks :
            \/ \E n \in Stored : notes[n].sink = s /\ e \in notes[n].about
            \/ \E p \in Passes : /\ pass[p] # None /\ e \in pass[p].exhausted
                                 /\ pass[p].pc = "retry" \/ s \in pass[p].sinks

\* Two overlapping passes overwrite each other's counts and so post more often than
\* the configured maximum, but within a bound that the maximum gives.
PostsWithinBudget ==
    Cardinality(Passes) = 2 /\ breaks = 0 =>
        \A n \in Notes : posts[n] <= (MaxAttempts * (MaxAttempts + 3)) \div 2

\* In the end every notification is delivered or given up, and stays so: neither
\* the batch limit nor the overlap of passes keeps one pending for ever.
NotificationsSettle ==
    <>[](\A n \in Stored : notes[n].status # "pending")
=============================================================================
