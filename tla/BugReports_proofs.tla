------------------------- MODULE BugReports_proofs -------------------------
(* Proofs about BugReports, for any reports, issues, faults and webhook calls. *)
EXTENDS BugReports, TLAPS

\* A request that is running has a report that nobody has linked yet, and an issue
\* exactly when it has created one.
FilingOK ==
    \A r \in Reports :
        /\ report[r] = None => filing[r] = None /\ issue[r] = None
        /\ filing[r] # None => /\ report[r].status = "pending"
                               /\ ~report[r].linked
        /\ filing[r] = "create" => issue[r] = None
        /\ filing[r] = "link" => issue[r] # None

\* Linear calls about issues that it has.
CallsOK == \A c \in calls : issue[c.about] # None /\ c.state <= issue[c.about]

BugInv == BugTypeOK /\ FilingOK /\ LinkedIsSynced /\ CallsOK

\* The newest state of an issue is in the report or on its way; a report that is
\* about to be linked gets the issue's first state.
Fresh(r) ==
    \/ issue[r] = None
    \/ r \in missed
    \/ \E c \in calls : c.about = r /\ c.state = issue[r]
    \/ report[r] # None /\ report[r].linked /\ report[r].state = issue[r]
    \/ report[r] # None /\ ~report[r].linked /\ issue[r] = 0

AllFresh == \A r \in Reports : Fresh(r)

USE DEF IssueStates

ReportFields == [status : {"disabled", "pending", "synced", "failed"},
                 linked : BOOLEAN, state : IssueStates \cup {None}]

-----------------------------------------------------------------------------
\* A report by its fields.
LEMMA ReportByFields ==
    ASSUME NEW doc \in ReportFields, doc.linked => doc.state # None
    PROVE  doc \in Report
    BY DEF Report, ReportFields

LEMMA FieldsOfReport ==
    ASSUME NEW doc \in Report
    PROVE  doc \in ReportFields /\ (doc.linked => doc.state # None) /\ doc # None
    BY BugReportsAssumption DEF Report, ReportFields

\* The ways to write a report keep its type.
LEMMA ReportWrites ==
    ASSUME NEW doc \in Report
    PROVE  /\ Linked(doc) \in Report
           /\ Linked(doc).linked /\ Linked(doc).status = "synced" /\ Linked(doc).state = 0
           /\ [doc EXCEPT !.status = "failed"] \in Report
           /\ [doc EXCEPT !.status = "failed"].status = "failed"
           /\ [doc EXCEPT !.status = "failed"].linked = doc.linked
           /\ doc.linked \in BOOLEAN
  <1>1. doc \in ReportFields /\ (doc.linked => doc.state # None)
    BY FieldsOfReport
  <1>2. /\ Linked(doc) \in ReportFields
        /\ Linked(doc).linked /\ Linked(doc).status = "synced" /\ Linked(doc).state = 0
    <2> DEFINE S == IssueStates \cup {None}
    <2>1. ReportFields = [status : {"disabled", "pending", "synced", "failed"},
                          linked : BOOLEAN, state : S]
      BY DEF ReportFields
    <2>2. 0 \in S
      BY BugReportsAssumption
    <2> HIDE DEF S
    <2> QED BY <1>1, <2>1, <2>2 DEF Linked
  <1>3. Linked(doc) \in Report
    BY <1>2, ReportByFields, BugReportsAssumption
  <1> DEFINE new == [doc EXCEPT !.status = "failed"]
  <1>4. /\ new \in ReportFields /\ new.status = "failed"
        /\ new.linked = doc.linked /\ new.state = doc.state
    BY <1>1 DEF ReportFields
  <1>5. new \in Report
    BY <1>1, <1>4, ReportByFields
  <1>6. doc.linked \in BOOLEAN
    BY <1>1 DEF ReportFields
  <1> QED BY <1>2, <1>3, <1>4, <1>5, <1>6

LEMMA NewReportType ==
    /\ NewReport \in Report /\ ~NewReport.linked /\ NewReport.status # "synced"
    /\ BugSync => NewReport.status = "pending"
  <1>1. NewReport \in ReportFields /\ ~NewReport.linked
    BY BugReportsAssumption DEF NewReport, ReportFields
  <1>2. NewReport \in Report
    BY <1>1, ReportByFields
  <1> QED BY <1>1, <1>2 DEF NewReport

LEMMA BugInitInv == BugInit => BugInv /\ AllFresh
  <1> SUFFICES ASSUME BugInit PROVE BugInv /\ AllFresh
    OBVIOUS
  <1>1. BugTypeOK
    BY BugReportsAssumption DEF BugInit, BugTypeOK
  <1>2. FilingOK /\ LinkedIsSynced /\ CallsOK /\ AllFresh
    BY BugReportsAssumption
    DEF BugInit, FilingOK, LinkedIsSynced, CallsOK, AllFresh, Fresh, FilingSteps
  <1> QED BY <1>1, <1>2 DEF BugInv

\* What a call of the webhook writes.
LEMMA SyncedReports ==
    ASSUME BugInv, NEW c \in calls
    PROVE  /\ c.about \in Reports /\ c.state \in IssueStates
           /\ Synced(report, c) \in [Reports -> Report \cup {None}]
           /\ \A r \in Reports :
                /\ Synced(report, c)[r] = None <=> report[r] = None
                /\ report[r] # None => Synced(report, c)[r].linked = report[r].linked
                /\ r # c.about => Synced(report, c)[r] = report[r]
                /\ report[r] # None /\ ~report[r].linked => Synced(report, c)[r] = report[r]
                /\ report[r] # None /\ report[r].linked /\ c.about = r =>
                      /\ Synced(report, c)[r].state = c.state
                      /\ Synced(report, c)[r].status = "synced"
  <1>1. c.about \in Reports /\ c.state \in IssueStates
    BY DEF BugInv, BugTypeOK, Call
  <1>2. report[c.about] # None
    BY <1>1 DEF BugInv, FilingOK, CallsOK
  <1> DEFINE doc == report[c.about]
             new == [doc EXCEPT !.state = c.state, !.status = "synced"]
  <1>3. doc \in Report
    BY <1>1, <1>2 DEF BugInv, BugTypeOK
  <1>4. doc \in ReportFields
    BY <1>3, FieldsOfReport
  <1>5. /\ new \in ReportFields /\ new.linked = doc.linked
        /\ new.state = c.state /\ new.status = "synced"
    BY <1>1, <1>4 DEF ReportFields
  <1>6. c.state # None
    BY <1>1, BugReportsAssumption
  <1>7. new \in Report /\ new # None
    BY <1>5, <1>6, ReportByFields, FieldsOfReport
  <1>8. report \in [Reports -> Report \cup {None}]
    BY DEF BugInv, BugTypeOK
  <1>9. Synced(report, c) = IF doc.linked THEN [report EXCEPT ![c.about] = new] ELSE report
    BY <1>1, <1>8 DEF Synced
  <1> HIDE DEF new
  <1> QED BY <1>1, <1>2, <1>5, <1>7, <1>8, <1>9

-----------------------------------------------------------------------------
\* What the invariant says of one report.
LEMMA BugInvFacts ==
    ASSUME BugInv, NEW r \in Reports
    PROVE  /\ report[r] # None => report[r] \in Report
           /\ filing[r] # None => filing[r] \in FilingSteps
           /\ issue[r] # None => issue[r] \in IssueStates
    BY DEF BugInv, BugTypeOK

\* A step that changes one report, or what runs for it, and keeps the others.
LEMMA OneReport ==
    ASSUME BugInv, NEW r \in Reports, NEW doc \in Report,
           NEW step \in FilingSteps \cup {None},
           report' = [report EXCEPT ![r] = doc], filing' = [filing EXCEPT ![r] = step],
           UNCHANGED <<issue, calls, missed>>, slips' \in 0..MaxBugFaults,
           doc.linked <=> doc.status = "synced", doc.linked => issue[r] # None,
           step # None => doc.status = "pending" /\ ~doc.linked,
           step = "create" => issue[r] = None, step = "link" => issue[r] # None
    PROVE  BugInv'
  <1>1. doc # None
    BY FieldsOfReport
  <1>2. BugTypeOK'
    BY DEF BugInv, BugTypeOK
  <1>3. FilingOK' /\ LinkedIsSynced' /\ CallsOK'
    BY <1>1 DEF BugInv, BugTypeOK, FilingOK, LinkedIsSynced, CallsOK
  <1> QED BY <1>2, <1>3 DEF BugInv

LEMMA BugNextInv == BugInv /\ [BugNext]_bugVars => BugInv'
  <1> SUFFICES ASSUME BugInv, [BugNext]_bugVars PROVE BugInv'
    OBVIOUS
  <1> USE BugReportsAssumption
  <1>types. BugTypeOK /\ FilingOK /\ LinkedIsSynced /\ CallsOK
    BY DEF BugInv
  <1>1. ASSUME NEW r \in Reports, FileReport(r) PROVE BugInv'
    <2> DEFINE step == IF BugSync THEN "create" ELSE None
    <2>1. filing[r] = None /\ issue[r] = None /\ slips \in 0..MaxBugFaults
      BY <1>1, <1>types DEF FileReport, FilingOK, BugTypeOK
    <2>2. step \in FilingSteps \cup {None}
      BY DEF FilingSteps
    <2>3. NewReport \in Report /\ ~NewReport.linked /\ NewReport.status # "synced"
      BY NewReportType
    <2>4. step # None => NewReport.status = "pending"
      BY NewReportType
    <2>5. step # "link"
      BY DEF FilingSteps
    <2>6. /\ report' = [report EXCEPT ![r] = NewReport]
          /\ filing' = [filing EXCEPT ![r] = step]
          /\ UNCHANGED <<issue, calls, missed, slips>>
      BY <1>1 DEF FileReport
    <2> HIDE DEF step
    <2> QED BY <2>1, <2>2, <2>3, <2>4, <2>5, <2>6, OneReport
  <1>2. ASSUME NEW r \in Reports, CreateIssue(r) \/ IssueUnanswered(r) PROVE BugInv'
    <2> DEFINE step == filing'[r]
    <2>1. /\ issue' = [issue EXCEPT ![r] = 0]
          /\ calls' = calls \cup {[about |-> r, state |-> 0]}
          /\ filing' = [filing EXCEPT ![r] = step]
          /\ step \in {"link", "fail"} /\ filing[r] = "create"
          /\ slips' \in 0..MaxBugFaults
          /\ UNCHANGED <<report, missed>>
      BY <1>2, <1>types DEF CreateIssue, IssueUnanswered, AfterRefusal, BugTypeOK
    <2>2. filing[r] # None /\ issue[r] = None
      BY <2>1, <1>types DEF FilingSteps, FilingOK
    <2> HIDE DEF step
    <2>3. 0 \in IssueStates /\ [about |-> r, state |-> 0] \in Call
      BY DEF Call
    <2>4. BugTypeOK'
      BY <2>1, <2>3, <1>types DEF BugTypeOK, FilingSteps
    <2>5. FilingOK'
      BY <2>1, <2>2, <1>types DEF BugTypeOK, FilingOK
    <2>6. LinkedIsSynced'
      BY <2>1, <2>2, <1>types DEF BugTypeOK, LinkedIsSynced
    <2>7. CallsOK'
      <3> SUFFICES ASSUME NEW c \in calls' PROVE issue'[c.about] # None /\ c.state <= issue'[c.about]
        BY DEF CallsOK
      <3>1. CASE c \in calls
        <4>1. issue[c.about] # None /\ c.state <= issue[c.about]
          BY <3>1, <1>types DEF CallsOK
        <4>2. c.about # r
          BY <4>1, <2>2
        <4> QED BY <4>1, <4>2, <2>1, <1>types DEF BugTypeOK
      <3>2. CASE c = [about |-> r, state |-> 0]
        BY <3>2, <2>1, <1>types DEF BugTypeOK
      <3> QED BY <3>1, <3>2, <2>1
    <2> QED BY <2>4, <2>5, <2>6, <2>7 DEF BugInv
  <1>3. ASSUME NEW r \in Reports, IssueRefused(r) PROVE BugInv'
    <2>1. /\ report[r] # None /\ report[r] \in Report /\ ~report[r].linked
          /\ report[r].status = "pending" /\ slips \in 0..MaxBugFaults
      BY <1>3, <1>types DEF IssueRefused, FilingOK, BugTypeOK, FilingSteps
    <2>2. report' = [report EXCEPT ![r] = report[r]]
      BY <1>3, <1>types DEF IssueRefused, BugTypeOK
    <2>3. "fail" \in FilingSteps /\ filing' = [filing EXCEPT ![r] = "fail"]
      BY <1>3 DEF IssueRefused, AfterRefusal, FilingSteps
    <2>4. UNCHANGED <<issue, calls, missed, slips>>
      BY <1>3 DEF IssueRefused
    <2> QED BY <2>1, <2>2, <2>3, <2>4, OneReport
  <1>4. ASSUME NEW r \in Reports, LinkIssue(r) \/ LinkRejects(r) PROVE BugInv'
    <2>1. /\ filing[r] = "link" /\ filing' = [filing EXCEPT ![r] = None]
          /\ UNCHANGED <<issue, calls, missed>> /\ slips' \in 0..MaxBugFaults
          /\ \/ report' = [report EXCEPT ![r] = Linked(report[r])]
             \/ report' = [report EXCEPT ![r] = report[r]]
      BY <1>4, <1>types DEF LinkIssue, LinkRejects, AfterBadLink, BugTypeOK
    <2>2. /\ report[r] \in Report /\ ~report[r].linked /\ report[r].status = "pending"
          /\ issue[r] # None
      BY <2>1, <1>types DEF FilingOK, BugTypeOK, FilingSteps
    <2>3. /\ Linked(report[r]) \in Report /\ Linked(report[r]).linked
          /\ Linked(report[r]).status = "synced"
      BY <2>2, ReportWrites
    <2>4. None # "create" /\ None # "link"
      BY DEF FilingSteps
    <2>5. ASSUME report' = [report EXCEPT ![r] = report[r]] PROVE BugInv'
      BY <2>1, <2>2, <2>4, <2>5, OneReport
    <2>6. ASSUME report' = [report EXCEPT ![r] = Linked(report[r])] PROVE BugInv'
      <3> DEFINE doc == Linked(report[r])
      <3>1. /\ doc \in Report /\ doc.linked /\ doc.status = "synced"
            /\ report' = [report EXCEPT ![r] = doc]
        BY <2>3, <2>6
      <3> HIDE DEF doc
      <3> QED BY <2>1, <2>2, <2>4, <3>1, OneReport
    <2> QED BY <2>1, <2>5, <2>6
  <1>5. ASSUME NEW r \in Reports, RecordFailure(r) PROVE BugInv'
    <2> DEFINE new == [report[r] EXCEPT !.status = "failed"]
    <2>1. /\ report[r] \in Report /\ ~report[r].linked /\ slips \in 0..MaxBugFaults
      BY <1>5, <1>types DEF RecordFailure, FilingOK, BugTypeOK, FilingSteps
    <2>2. new \in Report /\ new.status = "failed" /\ ~new.linked
      BY <2>1, ReportWrites
    <2>3. /\ report' = [report EXCEPT ![r] = new] /\ filing' = [filing EXCEPT ![r] = None]
          /\ UNCHANGED <<issue, calls, missed, slips>>
      BY <1>5, <1>types DEF RecordFailure, BugTypeOK
    <2>4. new.status # "synced" /\ None # "create" /\ None # "link"
      BY <2>2 DEF FilingSteps
    <2> HIDE DEF new
    <2> QED BY <2>1, <2>2, <2>3, <2>4, OneReport
  <1>6. ASSUME RequestsLost PROVE BugInv'
    <2>1. /\ filing' \in [Reports -> FilingSteps \cup {None}]
          /\ \A r \in Reports : filing'[r] # None => filing'[r] = filing[r]
          /\ slips' \in 0..MaxBugFaults /\ UNCHANGED <<report, issue, calls, missed>>
      BY <1>6, <1>types DEF RequestsLost, BugTypeOK
    <2>2. BugTypeOK'
      BY <2>1, <1>types DEF BugTypeOK
    <2>3. FilingOK' /\ LinkedIsSynced' /\ CallsOK'
      BY <2>1, <1>types DEF FilingOK, LinkedIsSynced, CallsOK, FilingSteps
    <2> QED BY <2>2, <2>3 DEF BugInv
  <1>7. ASSUME NEW r \in Reports, EditIssue(r) PROVE BugInv'
    <2>1. issue[r] \in IssueStates /\ issue[r] + 1 \in IssueStates
      BY <1>7, <1>types DEF EditIssue, BugTypeOK
    <2>2. /\ issue' = [issue EXCEPT ![r] = issue[r] + 1]
          /\ calls' = calls \cup {[about |-> r, state |-> issue[r] + 1]}
          /\ issue[r] # None /\ UNCHANGED <<report, filing, missed, slips>>
      BY <1>7, <1>types DEF EditIssue, BugTypeOK
    <2>3. BugTypeOK'
      BY <2>1, <2>2, <1>types DEF BugTypeOK, Call
    <2>4. FilingOK' /\ LinkedIsSynced'
      BY <2>1, <2>2, <1>types DEF BugTypeOK, FilingOK, LinkedIsSynced
    <2>5. CallsOK'
      <3> SUFFICES ASSUME NEW c \in calls' PROVE issue'[c.about] # None /\ c.state <= issue'[c.about]
        BY DEF CallsOK
      <3>1. CASE c \in calls
        <4>1. issue[c.about] # None /\ c.state <= issue[c.about]
          BY <3>1, <1>types DEF CallsOK
        <4>2. c.about \in Reports /\ c.state \in IssueStates
          BY <3>1, <1>types DEF BugTypeOK, Call
        <4> QED BY <4>1, <4>2, <2>1, <2>2, <1>types DEF BugTypeOK
      <3>2. CASE c = [about |-> r, state |-> issue[r] + 1]
        BY <3>2, <2>1, <2>2, <1>types DEF BugTypeOK
      <3> QED BY <3>1, <3>2, <2>2
    <2> QED BY <2>3, <2>4, <2>5 DEF BugInv
  <1>8. ASSUME NEW c \in calls, HandleWebhook(c) PROVE BugInv'
    <2>1. /\ report' = Synced(report, c) /\ UNCHANGED <<filing, issue>>
          /\ missed' \subseteq missed \cup {c.about} /\ calls' \subseteq calls
          /\ slips' \in 0..MaxBugFaults
      BY <1>8, <1>types DEF HandleWebhook, BugTypeOK
    <2>2. BugTypeOK'
      BY <2>1, SyncedReports, <1>types DEF BugTypeOK
    <2>3. FilingOK' /\ CallsOK'
      BY <2>1, SyncedReports, <1>types DEF FilingOK, CallsOK
    <2>4. LinkedIsSynced'
      BY <2>1, SyncedReports, <1>types DEF LinkedIsSynced
    <2> QED BY <2>2, <2>3, <2>4 DEF BugInv
  <1>9. ASSUME NEW c \in calls, RefuseWebhook(c) PROVE BugInv'
    <2>1. c.about \in Reports
      BY <1>types DEF BugTypeOK, Call
    <2>2. /\ UNCHANGED <<report, filing, issue>> /\ slips' \in 0..MaxBugFaults
          /\ missed' = missed \cup {c.about} /\ calls' \subseteq calls
      BY <1>9, <1>types DEF RefuseWebhook, BugTypeOK
    <2>3. BugTypeOK'
      BY <2>1, <2>2, <1>types DEF BugTypeOK
    <2>4. FilingOK' /\ LinkedIsSynced' /\ CallsOK'
      BY <2>2, <1>types DEF FilingOK, LinkedIsSynced, CallsOK
    <2> QED BY <2>3, <2>4 DEF BugInv
  <1>10. ASSUME UNCHANGED bugVars PROVE BugInv'
    BY <1>10 DEF bugVars, BugInv, BugTypeOK, FilingOK, LinkedIsSynced, CallsOK
  <1> QED
    BY <1>1, <1>2, <1>3, <1>4, <1>5, <1>6, <1>7, <1>8, <1>9, <1>10
    DEF BugNext, FilingStep

-----------------------------------------------------------------------------
\* A call that is applied makes its report fresh, or leaves it missed.
LEMMA HandleKeepsFresh ==
    ASSUME BugInv, AllFresh, NEW c \in calls, HandleWebhook(c)
    PROVE  AllFresh'
  <1> USE BugReportsAssumption
  <1> SUFFICES ASSUME NEW r \in Reports PROVE Fresh(r)'
    BY DEF AllFresh
  <1>1. Fresh(r)
    BY DEF AllFresh
  <1>2. /\ report' = Synced(report, c) /\ UNCHANGED <<filing, issue>>
        /\ missed' = IF Misses(c) THEN missed \cup {c.about} ELSE missed
        /\ calls \ {c} \subseteq calls'
    BY DEF HandleWebhook
  <1>3. /\ c.about \in Reports /\ c.state \in IssueStates
        /\ report'[r] = None <=> report[r] = None
        /\ report[r] # None => report'[r].linked = report[r].linked
        /\ r # c.about => report'[r] = report[r]
        /\ report[r] # None /\ ~report[r].linked => report'[r] = report[r]
        /\ report[r] # None /\ report[r].linked /\ c.about = r => report'[r].state = c.state
    BY <1>2, SyncedReports
  <1>4. CASE c.about # r
    <2>1. (\E d \in calls : d.about = r /\ d.state = issue[r])
             => (\E d \in calls' : d.about = r /\ d.state = issue[r])
      BY <1>2, <1>4
    <2> QED BY <1>1, <1>2, <1>3, <1>4, <2>1 DEF Fresh
  <1>5. CASE c.about = r /\ report[r].linked
    <2>1. /\ issue[r] # None /\ c.state <= issue[r] /\ report[r] # None
          /\ issue[r] \in IssueStates
      BY <1>5, <1>3 DEF BugInv, CallsOK, FilingOK, BugTypeOK
    <2>2. CASE c.state = issue[r]
      BY <1>2, <1>3, <1>5, <2>1, <2>2 DEF Fresh
    <2>3. CASE c.state # issue[r]
      <3>1. (\E d \in calls : d.about = r /\ d.state = issue[r])
               => (\E d \in calls' : d.about = r /\ d.state = issue[r])
        BY <1>2, <2>3
      <3>2. report[r].state = issue[r] => r \in missed'
        BY <1>2, <1>3, <1>5, <2>1, <2>3 DEF Misses
      <3> QED BY <1>1, <1>2, <1>5, <2>1, <3>1, <3>2 DEF Fresh
    <2> QED BY <2>2, <2>3
  <1>6. CASE c.about = r /\ ~report[r].linked
    <2>1. /\ issue[r] # None /\ c.state <= issue[r] /\ report[r] # None
          /\ issue[r] \in IssueStates
      BY <1>6, <1>3 DEF BugInv, CallsOK, FilingOK, BugTypeOK
    <2>2. report'[r] = report[r]
      BY <1>3, <1>6, <2>1
    <2>3. CASE c.state = issue[r]
      <3>1. issue[r] = 0 \/ r \in missed'
        BY <1>2, <1>3, <1>6, <2>1, <2>3 DEF Misses
      <3> QED BY <1>2, <1>6, <2>1, <2>2, <3>1 DEF Fresh
    <2>4. CASE c.state # issue[r]
      <3>1. (\E d \in calls : d.about = r /\ d.state = issue[r])
               => (\E d \in calls' : d.about = r /\ d.state = issue[r])
        BY <1>2, <2>4
      <3> QED BY <1>1, <1>2, <1>6, <2>1, <2>2, <3>1 DEF Fresh
    <2> QED BY <2>3, <2>4
  <1> QED BY <1>4, <1>5, <1>6

LEMMA NextFresh == BugInv /\ AllFresh /\ [BugNext]_bugVars => AllFresh'
  <1> SUFFICES ASSUME BugInv, AllFresh, [BugNext]_bugVars PROVE AllFresh'
    OBVIOUS
  <1> USE BugReportsAssumption
  <1>types. BugTypeOK /\ FilingOK /\ CallsOK
    BY DEF BugInv
  <1>1. ASSUME NEW r \in Reports, FileReport(r) PROVE AllFresh'
    <2>1. issue[r] = None
      BY <1>1, <1>types DEF FileReport, FilingOK
    <2> QED BY <1>1, <2>1, <1>types DEF FileReport, AllFresh, Fresh, BugTypeOK
  <1>2. ASSUME NEW r \in Reports, CreateIssue(r) \/ IssueUnanswered(r) PROVE AllFresh'
    <2>1. /\ issue' = [issue EXCEPT ![r] = 0]
          /\ calls' = calls \cup {[about |-> r, state |-> 0]}
          /\ UNCHANGED <<report, missed>>
      BY <1>2 DEF CreateIssue, IssueUnanswered
    <2>2. Fresh(r)'
      <3> DEFINE c == [about |-> r, state |-> 0]
      <3>1. c \in calls' /\ c.about = r /\ c.state = issue'[r]
        BY <2>1, <1>types DEF BugTypeOK
      <3> QED BY <3>1 DEF Fresh
    <2>3. ASSUME NEW s \in Reports, s # r PROVE Fresh(s)'
      BY <2>1, <2>3, <1>types DEF AllFresh, Fresh, BugTypeOK
    <2> QED BY <2>2, <2>3 DEF AllFresh
  <1>3. ASSUME NEW r \in Reports, IssueRefused(r) PROVE AllFresh'
    BY <1>3 DEF IssueRefused, AllFresh, Fresh
  <1>4. ASSUME NEW r \in Reports, LinkIssue(r) \/ LinkRejects(r) PROVE AllFresh'
    <2>1. /\ filing[r] = "link" /\ UNCHANGED <<issue, calls, missed>>
          /\ \/ report' = [report EXCEPT ![r] = Linked(report[r])]
             \/ report' = report
      BY <1>4 DEF LinkIssue, LinkRejects
    <2>2. report[r] \in Report /\ ~report[r].linked
      BY <2>1, <1>types DEF FilingOK, BugTypeOK, FilingSteps
    <2> DEFINE doc == Linked(report[r])
    <2>3. doc \in Report /\ doc # None /\ doc.linked /\ doc.state = 0
      BY <2>2, ReportWrites, FieldsOfReport
    <2> HIDE DEF doc
    <2>4. CASE report' = report
      BY <2>1, <2>4 DEF AllFresh, Fresh
    <2>5. CASE report' = [report EXCEPT ![r] = doc]
      <3>1. Fresh(r)
        BY DEF AllFresh
      <3>2. Fresh(r)'
        <4>1. report'[r] = doc
          BY <2>5, <1>types DEF BugTypeOK
        <4>2. \/ issue[r] = None \/ r \in missed
              \/ \E c \in calls : c.about = r /\ c.state = issue[r]
              \/ issue[r] = 0
          BY <2>2, <3>1 DEF Fresh
        <4>3. issue[r] = 0 =>
                 report'[r] # None /\ report'[r].linked /\ report'[r].state = issue'[r]
          BY <2>1, <2>3, <4>1
        <4> QED BY <2>1, <4>2, <4>3 DEF Fresh
      <3>3. ASSUME NEW s \in Reports, s # r PROVE Fresh(s)'
        BY <2>1, <2>5, <3>3, <1>types DEF AllFresh, Fresh, BugTypeOK
      <3> QED BY <3>2, <3>3 DEF AllFresh
    <2> QED BY <2>1, <2>4, <2>5 DEF doc
  <1>5. ASSUME NEW r \in Reports, RecordFailure(r) PROVE AllFresh'
    <2> DEFINE doc == [report[r] EXCEPT !.status = "failed"]
    <2>1. report[r] \in Report /\ ~report[r].linked
      BY <1>5, <1>types DEF RecordFailure, FilingOK, BugTypeOK, FilingSteps
    <2>2. doc \in Report /\ doc # None /\ ~doc.linked
      BY <2>1, ReportWrites, FieldsOfReport
    <2>3. report' = [report EXCEPT ![r] = doc] /\ UNCHANGED <<issue, calls, missed>>
      BY <1>5, <1>types DEF RecordFailure, BugTypeOK
    <2> HIDE DEF doc
    <2>4. Fresh(r)
      BY DEF AllFresh
    <2>5. Fresh(r)'
      <3>1. report'[r] = doc
        BY <2>3, <1>types DEF BugTypeOK
      <3>2. \/ issue[r] = None \/ r \in missed
            \/ \E c \in calls : c.about = r /\ c.state = issue[r]
            \/ issue[r] = 0
        BY <2>1, <2>4 DEF Fresh
      <3>3. issue[r] = 0 => report'[r] # None /\ ~report'[r].linked /\ issue'[r] = 0
        BY <2>2, <2>3, <3>1
      <3> QED BY <2>3, <3>2, <3>3 DEF Fresh
    <2>6. ASSUME NEW s \in Reports, s # r PROVE Fresh(s)'
      BY <2>3, <2>6, <1>types DEF AllFresh, Fresh, BugTypeOK
    <2> QED BY <2>5, <2>6 DEF AllFresh
  <1>6. ASSUME RequestsLost PROVE AllFresh'
    BY <1>6 DEF RequestsLost, AllFresh, Fresh
  <1>7. ASSUME NEW r \in Reports, EditIssue(r) PROVE AllFresh'
    <2>1. /\ issue' = [issue EXCEPT ![r] = issue[r] + 1]
          /\ calls' = calls \cup {[about |-> r, state |-> issue[r] + 1]}
          /\ UNCHANGED <<report, missed>>
      BY <1>7, <1>types DEF EditIssue, BugTypeOK
    <2>2. Fresh(r)'
      <3> DEFINE c == [about |-> r, state |-> issue[r] + 1]
      <3>1. c \in calls' /\ c.about = r /\ c.state = issue'[r]
        BY <2>1, <1>types DEF BugTypeOK
      <3> QED BY <3>1 DEF Fresh
    <2>3. ASSUME NEW s \in Reports, s # r PROVE Fresh(s)'
      BY <2>1, <2>3, <1>types DEF AllFresh, Fresh, BugTypeOK
    <2> QED BY <2>2, <2>3 DEF AllFresh
  <1>8. ASSUME NEW c \in calls, HandleWebhook(c) PROVE AllFresh'
    BY <1>8, HandleKeepsFresh
  <1>9. ASSUME NEW c \in calls, RefuseWebhook(c) PROVE AllFresh'
    <2> SUFFICES ASSUME NEW r \in Reports PROVE Fresh(r)'
      BY DEF AllFresh
    <2>1. /\ UNCHANGED <<report, issue>> /\ missed' = missed \cup {c.about}
          /\ calls' = calls \ {c}
      BY <1>9 DEF RefuseWebhook
    <2> QED BY <2>1 DEF AllFresh, Fresh
  <1>10. ASSUME UNCHANGED bugVars PROVE AllFresh'
    BY <1>10 DEF bugVars, AllFresh, Fresh
  <1> QED
    BY <1>1, <1>2, <1>3, <1>4, <1>5, <1>6, <1>7, <1>8, <1>9, <1>10
    DEF BugNext, FilingStep

LEMMA BugAlways == BugSpec => [](BugInv /\ AllFresh)
  <1>1. BugInit => BugInv /\ AllFresh
    BY BugInitInv
  <1>2. BugInv /\ AllFresh /\ [BugNext]_bugVars => (BugInv /\ AllFresh)'
    BY BugNextInv, NextFresh
  <1> QED BY <1>1, <1>2, PTL DEF BugSpec

-----------------------------------------------------------------------------
\* For any set of reports and any faults: the documents of reportBug, the requests that
\* run and Linear's calls keep their types.
THEOREM BugTypeCorrect == BugSpec => []BugTypeOK
  <1>1. BugInv => BugTypeOK
    BY DEF BugInv
  <1> QED BY <1>1, BugAlways, PTL

\* For any set of reports and any faults: whatever call of reportBug rejects, a linked
\* report reads synced and has its issue, and no other report does.
THEOREM LinkedStaysSynced == BugSpec => []LinkedIsSynced
  <1>1. BugInv => LinkedIsSynced
    BY DEF BugInv
  <1> QED BY <1>1, BugAlways, PTL

\* For any number of calls of the webhook in any order: the newest state of an issue is
\* in its report or on its way, unless a call came too early, out of order or not at all.
THEOREM StatesConverge == BugSpec => []StateConverges
  <1>1. BugInv /\ AllFresh => StateConverges
    <2> SUFFICES ASSUME BugInv, AllFresh, NEW r \in Reports,
                        report[r] # None, report[r].linked, r \notin missed
                 PROVE  \/ report[r].state = issue[r]
                        \/ \E c \in calls : c.about = r /\ c.state = issue[r]
      BY DEF StateConverges
    <2>1. issue[r] # None
      BY DEF BugInv, LinkedIsSynced
    <2> QED BY <2>1 DEF AllFresh, Fresh
  <1> QED BY <1>1, BugAlways, PTL
=============================================================================
