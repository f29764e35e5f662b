----------------------------- MODULE GradeSync ------------------------------
(***************************************************************************)
(* What grade passback promises, without requests, queue, retries or       *)
(* crashes: the LMS accepts payloads, PACT keeps a log of the payloads it  *)
(* has handled, and PACT shows one AGS status per subject. A status is     *)
(* shown only for a payload that is in the log, and "published" only for a *)
(* payload the LMS has accepted. AgsPublish implements this specification. *)
(***************************************************************************)
CONSTANTS Subjects, Payloads, Statuses, None

VARIABLES
    lms,    \* the payloads the LMS has accepted for each subject
    log,    \* the (subject, payload) pairs with a recorded publish attempt
    shown   \* the payload and AGS status PACT shows for each subject

Init == /\ lms = [s \in Subjects |-> {}]
        /\ log = {}
        /\ shown = [s \in Subjects |-> None]

\* The LMS accepts a post; accepting it again changes nothing.
Accept(s, p) == /\ lms' = [lms EXCEPT ![s] = @ \cup {p}]
                /\ UNCHANGED <<log, shown>>

\* An attempt is recorded, and never forgotten.
Record(s, p) == /\ log' = log \cup {<<s, p>>}
                /\ UNCHANGED <<lms, shown>>

\* A score is shown.
Show(s, p, status) ==
    /\ status # "not_ready" => <<s, p>> \in log
    /\ status = "published" => p \in lms[s]
    /\ shown' = [shown EXCEPT ![s] = [payload |-> p, status |-> status]]
    /\ UNCHANGED <<lms, log>>

Next == \E s \in Subjects, p \in Payloads :
           \/ Accept(s, p)
           \/ Record(s, p)
           \/ \E status \in Statuses : Show(s, p, status)

Spec == Init /\ [][Next]_<<lms, log, shown>>
=============================================================================
