----------------------------- MODULE BugReports -----------------------------
(***************************************************************************)
(* Bug reports: a report is stored, an issue is created for it in Linear,    *)
(* the link to the issue is written back, and Linear's webhook then carries   *)
(* the issue's later states into the report.                                *)
(*                                                                         *)
(* Linear is external: its issues change state and its calls are lost,       *)
(* repeated and reordered. An issue's states are numbered in the order in    *)
(* which it takes them, so a state also tells how fresh it is.               *)
(***************************************************************************)
EXTENDS Documents, Integers

CONSTANTS
    Reports,        \* the reports users file
    BugSync,        \* linearBugSyncEnabled
    MaxEdits,       \* bound: state changes of an issue in Linear
    MaxBugFaults    \* bound: crashes, failed writes, lost replies in a behaviour

IssueStates == 0..MaxEdits

\* "linked" stands for the issue's id, identifier and url, which are one write.
Report ==
    {doc \in [status : {"disabled", "pending", "synced", "failed"},
              linked : BOOLEAN, state : IssueStates \cup {None}] :
        doc.linked => doc.state # None}

\* A call of Linear's webhook.
Call == [about : Reports, state : IssueStates]

FilingSteps == {"create", "link", "fail"}

ASSUME BugReportsAssumption ==
    /\ BugSync \in BOOLEAN
    /\ MaxEdits \in Nat /\ MaxBugFaults \in Nat
    /\ None \notin Nat /\ None \notin Report /\ None \notin FilingSteps

VARIABLES
    report,     \* pactBugReports
    filing,     \* where the request that files a report stands
    issue,      \* Linear's issue for a report, by its state
    calls,      \* webhook calls that are on their way
    missed,     \* the reports that did not take a call as Linear made it
    slips       \* faults so far

bugVars == <<report, filing, issue, calls, missed, slips>>

-----------------------------------------------------------------------------
(* The request.                                                            *)

\* The document that createBugReport inserts.
NewReport ==
    [status |-> IF BugSync THEN "pending" ELSE "disabled", linked |-> FALSE, state |-> None]

\* The insert, and the end of the request when sync is off.
FileReport(r) ==
    /\ report[r] = None
    /\ report' = [report EXCEPT ![r] = NewReport]
    /\ filing' = [filing EXCEPT ![r] = IF BugSync THEN "create" ELSE None]
    /\ UNCHANGED <<issue, calls, missed, slips>>

\* createBugIssue gets its issue, for which Linear also calls the webhook.
CreateIssue(r) ==
    /\ filing[r] = "create"
    /\ issue' = [issue EXCEPT ![r] = 0]
    /\ calls' = calls \cup {[about |-> r, state |-> 0]}
    /\ filing' = [filing EXCEPT ![r] = "link"]
    /\ UNCHANGED <<report, missed, slips>>

\* Mutant: createBugIssue stands outside the try.
AfterRefusalUncaught == None

\* Where a request goes when createBugIssue throws: into the catch.
AfterRefusal == "fail"

\* It fails before there is an issue: no team, no project, an error, no answer.
IssueRefused(r) ==
    /\ filing[r] = "create"
    /\ filing' = [filing EXCEPT ![r] = AfterRefusal]
    /\ UNCHANGED <<report, issue, calls, missed, slips>>

\* It fails although Linear has created the issue: the answer is lost.
IssueUnanswered(r) ==
    /\ slips < MaxBugFaults
    /\ filing[r] = "create"
    /\ issue' = [issue EXCEPT ![r] = 0]
    /\ calls' = calls \cup {[about |-> r, state |-> 0]}
    /\ filing' = [filing EXCEPT ![r] = AfterRefusal]
    /\ slips' = slips + 1
    /\ UNCHANGED <<report, missed>>

\* Mutant: the state of the created issue is not written.
LinkedStateless(doc) == [doc EXCEPT !.status = "synced", !.linked = TRUE]

\* The report as updateBugReportLinearSync writes it after createBugIssue.
Linked(doc) == [doc EXCEPT !.status = "synced", !.linked = TRUE, !.state = 0]

LinkIssue(r) ==
    /\ filing[r] = "link"
    /\ report' = [report EXCEPT ![r] = Linked(@)]
    /\ filing' = [filing EXCEPT ![r] = None]
    /\ UNCHANGED <<issue, calls, missed, slips>>

\* Mutant: the promise is awaited, so the catch marks the report as failed.
AfterBadLinkCaught == "fail"

\* Where a request goes when the call that links the issue rejects: out of the
\* function, for its promise is returned and not awaited inside the try.
AfterBadLink == None

\* The call rejects before its write, or after it (when it reads the report back).
LinkRejects(r) ==
    /\ slips < MaxBugFaults
    /\ filing[r] = "link"
    /\ report' \in {report, [report EXCEPT ![r] = Linked(@)]}
    /\ filing' = [filing EXCEPT ![r] = AfterBadLink]
    /\ slips' = slips + 1
    /\ UNCHANGED <<issue, calls, missed>>

\* The catch.
RecordFailure(r) ==
    /\ filing[r] = "fail"
    /\ report' = [report EXCEPT ![r].status = "failed"]
    /\ filing' = [filing EXCEPT ![r] = None]
    /\ UNCHANGED <<issue, calls, missed, slips>>

\* A crash of the process, or (for one request) a write of the catch that fails.
\* Nothing takes a pending report up again.
RequestsLost ==
    /\ slips < MaxBugFaults
    /\ \E R \in SUBSET Reports :
         /\ \E r \in R : filing[r] # None
         /\ filing' = [r \in Reports |-> IF r \in R THEN None ELSE filing[r]]
    /\ slips' = slips + 1
    /\ UNCHANGED <<report, issue, calls, missed>>

-----------------------------------------------------------------------------
(* Linear and its webhook.                                                 *)

EditIssue(r) ==
    /\ issue[r] # None /\ issue[r] < MaxEdits
    /\ issue' = [issue EXCEPT ![r] = @ + 1]
    /\ calls' = calls \cup {[about |-> r, state |-> issue[r] + 1]}
    /\ UNCHANGED <<report, filing, missed, slips>>

\* Mutant: the update does not write the state.
SyncedStateless(docs, c) == docs

\* syncBugReportFromLinearIssue's update: of the report that has the issue's id.
Synced(docs, c) ==
    IF docs[c.about].linked
    THEN [docs EXCEPT ![c.about].state = c.state, ![c.about].status = "synced"]
    ELSE docs

\* Whether a call leaves its report without its state, or with an older one than
\* the report had.
Misses(c) ==
    IF report[c.about].linked THEN c.state < report[c.about].state ELSE c.state > 0

\* A call inside the window is applied; Linear repeats it when the answer is lost.
HandleWebhook(c) ==
    /\ c \in calls
    /\ report' = Synced(report, c)
    /\ missed' = IF Misses(c) THEN missed \cup {c.about} ELSE missed
    /\ \/ calls' = calls \ {c} /\ UNCHANGED slips
       \/ slips < MaxBugFaults /\ slips' = slips + 1 /\ UNCHANGED calls
    /\ UNCHANGED <<filing, issue>>

\* A call that arrives outside the minute's window, or never, changes nothing.
RefuseWebhook(c) ==
    /\ slips < MaxBugFaults
    /\ c \in calls
    /\ calls' = calls \ {c}
    /\ missed' = missed \cup {c.about}
    /\ slips' = slips + 1
    /\ UNCHANGED <<report, filing, issue>>

-----------------------------------------------------------------------------
BugInit ==
    /\ report = [r \in Reports |-> None]
    /\ filing = [r \in Reports |-> None]
    /\ issue = [r \in Reports |-> None]
    /\ calls = {} /\ missed = {} /\ slips = 0

FilingStep(r) ==
    CreateIssue(r) \/ IssueRefused(r) \/ LinkIssue(r) \/ RecordFailure(r)

BugNext ==
    \/ \E r \in Reports : FileReport(r) \/ FilingStep(r)
    \/ \E r \in Reports : IssueUnanswered(r) \/ LinkRejects(r) \/ EditIssue(r)
    \/ \E c \in calls : HandleWebhook(c) \/ RefuseWebhook(c)
    \/ RequestsLost

\* A request that is not cut off goes on. Nothing is assumed of Linear's calls.
BugFairness == \A r \in Reports : WF_bugVars(FilingStep(r))

BugSpec == BugInit /\ [][BugNext]_bugVars /\ BugFairness

-----------------------------------------------------------------------------
(* Properties.                                                             *)

\* Every variable has its type; a report's status and link are those of the
\* code's type, and a link comes with a state.
BugTypeOK ==
    /\ report \in [Reports -> Report \cup {None}]
    /\ filing \in [Reports -> FilingSteps \cup {None}]
    /\ issue \in [Reports -> IssueStates \cup {None}]
    /\ calls \subseteq Call /\ missed \subseteq Reports
    /\ slips \in 0..MaxBugFaults

\* A report that is linked to an issue never counts as failed or pending, and what
\* counts as synced is linked, whatever call of reportBug rejects and whenever
\* Linear's calls arrive.
LinkedIsSynced ==
    \A r \in Reports : report[r] # None =>
        /\ report[r].linked <=> report[r].status = "synced"
        /\ report[r].linked => issue[r] # None

\* When no call is on its way any more, a linked report has the issue's state,
\* unless a call came before the link, out of order or not at all.
StateConverges ==
    \A r \in Reports :
        report[r] # None /\ report[r].linked /\ r \notin missed
            => \/ report[r].state = issue[r]
               \/ \E c \in calls : c.about = r /\ c.state = issue[r]

\* Without a fault no report stays pending, and one that failed has no issue in
\* Linear: the two systems agree on what was filed.
ReportsSettle ==
    \A r \in Reports :
        report[r] # None ~>
            \/ slips > 0
            \/ /\ report[r] # None
               /\ \/ report[r].status = "synced" /\ issue[r] # None
                  \/ report[r].status \in {"failed", "disabled"} /\ issue[r] = None
=============================================================================
