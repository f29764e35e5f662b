---------------------------- MODULE MCOperations ----------------------------
(* The services behind the application's operation: the queue of due attempts, *)
(* notifications and bug reports. They share no state, so that a behaviour may *)
(* follow one of them; the first state chooses which.                          *)
EXTENDS DueQueue, Notifications, BugReports

VARIABLE focus

vars == <<dueVars, notifyVars, bugVars, focus>>

Init ==
    /\ DueInit /\ NotifyInit /\ BugInit
    /\ focus \in {"due attempts", "notifications", "bug reports"}

On(f, Step, others) == focus = f /\ Step /\ UNCHANGED <<others, focus>>

OnDue(Step) == On("due attempts", Step, <<notifyVars, bugVars>>)
OnNotes(Step) == On("notifications", Step, <<dueVars, bugVars>>)
OnBugs(Step) == On("bug reports", Step, <<dueVars, notifyVars>>)

Next == OnDue(DueNext) \/ OnNotes(NotifyNext) \/ OnBugs(BugNext)

Fairness ==
    /\ \A p \in Processors : WF_vars(OnDue(Work(p)))
    /\ WF_vars(OnDue(\E r \in Rows : DateComes(r)))
    /\ \A p \in Passes : WF_vars(OnNotes(PassStep(p)))
    /\ \A n \in Notes : WF_vars(OnNotes(DelayEnds(n)))
    /\ \A r \in Reports : WF_vars(OnBugs(FilingStep(r)))

Spec == Init /\ [][Next]_vars /\ Fairness
=============================================================================
