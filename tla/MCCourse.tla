------------------------------ MODULE MCCourse ------------------------------
(* A course's content gate and its squads. What the gate opens reaches the squads *)
(* as the questions that are released; they share no other state, so that a       *)
(* behaviour may follow one of them: the first state chooses which.               *)
EXTENDS ContentGate, Squads, TLC

VARIABLE focus

vars == <<gateVars, squadVars, focus>>

Init ==
    /\ GateInit /\ SquadsInit
    /\ \/ /\ focus = "gate"
          /\ member = [u \in Users |-> None] /\ released = Questions
          /\ mix = CHOOSE m \in Mixes : TRUE
       \/ /\ focus = "squads"
          /\ content = [i \in Items |-> CHOOSE doc \in Seeds : TRUE] /\ ~overlap

Next ==
    /\ UNCHANGED focus
    /\ \/ focus = "gate" /\ GateNext /\ UNCHANGED squadVars
       \/ focus = "squads" /\ SquadsNext /\ UNCHANGED gateVars

Spec == Init /\ [][Next]_vars

-----------------------------------------------------------------------------
Blank == [kind |-> "module", status |-> "published", locked |-> None, role |-> "all",
          cohort |-> None, releases |-> None, deck |-> None]

\* A module with a deck, one for instructors, a capstone, and challenges with and
\* without releases.
MCSeeds ==
    {[Blank EXCEPT !.deck = [unlocked |-> TRUE, version |-> 1]],
     [Blank EXCEPT !.role = "instructor", !.status = "draft"],
     [Blank EXCEPT !.kind = "capstone", !.locked = FALSE]}
    \cup {[Blank EXCEPT !.kind = "challenge", !.releases = releases] :
             releases \in {None} \cup [Releases -> BOOLEAN]}

\* An edit for instructors only, one of a draft, and one of a challenge's releases.
MCEdits ==
    {[status |-> "published", locked |-> FALSE, role |-> "instructor",
      cohort |-> None, releases |-> None],
     [status |-> "draft", locked |-> TRUE, role |-> "learner",
      cohort |-> CHOOSE c \in Cohorts : TRUE, releases |-> None],
     [status |-> "published", locked |-> TRUE, role |-> "all", cohort |-> None,
      releases |-> [r \in Releases |-> TRUE]]}

MixOf(kinds, requestCount, faults, overlaps) ==
    [kinds |-> kinds, requests |-> requestCount, faults |-> faults, overlap |-> overlaps]

MCMixes ==
    {MixOf({"roster", "assign", "squad"}, 2, 0, TRUE),
     MixOf({"answer", "save"}, 2, 0, TRUE),
     MixOf({"answer", "release"}, 3, 0, TRUE),
     MixOf({"answer", "assign"}, 2, 0, TRUE),
     MixOf({"answer", "assign", "roster"}, 2, 1, FALSE),
     MixOf({"launch", "assign", "answer", "score"}, 3, 0, FALSE),
     MixOf({"answer", "save", "release"}, 3, 0, FALSE)}

\* Learners, squads and questions are interchangeable.
Symmetric ==
    {p @@ q @@ z : p \in Permutations(Users), q \in Permutations(Names),
                   z \in Permutations(Questions)}
=============================================================================
