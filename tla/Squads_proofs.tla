---------------------------- MODULE Squads_proofs ----------------------------
(***************************************************************************)
(* Proofs about Squads, for every set of learners, squads, questions and    *)
(* requests, and every mix of requests and failed calls.                   *)
(***************************************************************************)
EXTENDS Squads, FiniteSetTheorems, TLAPS

(* Where a request of each kind may be, and what it then holds. *)
RequestOK(rec) ==
    /\ \/ rec.kind = "launch" /\ rec.pc = "user"
       \/ rec.kind = "roster" /\ rec.pc \in {"next", "user"}
       \/ rec.kind = "assign" /\ rec.pc \in {"squad", "create", "user", "carry"}
       \/ rec.kind = "answer" /\ rec.pc \in {"insert", "find", "merge", "latest", "members", "save"}
       \/ rec.kind = "save" /\ rec.pc \in {"find", "merge"}
       \/ rec.kind = "score" /\ rec.pc \in {"find", "merge", "members", "save"}
    /\ rec.kind = "roster" => rec.todo \subseteq Users
    /\ rec.pc = "carry" => rec.todo \subseteq Collections
    /\ rec.pc = "save" => rec.todo \subseteq Users
    /\ rec.kind \notin {"launch", "roster"} => rec.squad \in Names
    /\ rec.pc = "insert" => rec.question \in Questions /\ rec.status = None
    /\ rec.todo # {} => rec.kind = "roster" \/ rec.pc \in {"carry", "save"}

Inserting == {r \in SquadRequests : At(r, "insert")}

(* Every answer that is to be inserted will find a time. *)
TimeLeft == IsFiniteSet(Inserting) /\ clock + Cardinality(Inserting) <= Pool + 1

TypeInv ==
    /\ SquadsTypeOK
    /\ \A r \in SquadRequests : request[r] # None => RequestOK(request[r])
    /\ TimeLeft

-----------------------------------------------------------------------------
LEMMA QuestionCount ==
  ASSUME NEW Q \in SUBSET Questions
  PROVE  IsFiniteSet(Q) /\ Cardinality(Q) \in Nat
  BY SquadsAssumption, FS_Subset, FS_CardinalityType

LEMMA TotalType ==
  ASSUME NEW s, NEW Q \in SUBSET Questions
  PROVE  TotalOf(s, Q) \in Nat
<1>1. {q \in Q : attempts[Latest(s, q)].correct} \in SUBSET Questions
  OBVIOUS
<1> QED BY <1>1, QuestionCount DEF TotalOf

LEMMA NewRequestType ==
  ASSUME TypeInv, NEW kind \in AllKinds, NEW u \in Users,
         NEW pc \in {"next", "user", "squad", "insert", "find"}
  PROVE  /\ NewRequest(kind, u, pc) \in SquadRequest
         /\ LET rec == NewRequest(kind, u, pc)
            IN /\ rec.kind = kind /\ rec.pc = pc /\ rec.user = u
               /\ rec.seen = member[u] /\ rec.squad = member[u]
               /\ rec.visible = released /\ rec.status = None /\ rec.found = None
               /\ rec.todo = {}
  BY DEF NewRequest, SquadRequest, TypeInv, SquadsTypeOK

-----------------------------------------------------------------------------
(* Requests that begin.                                                    *)

Started(u, rec) ==
    /\ rec \in SquadRequest /\ RequestOK(rec)
    /\ rec.pc \in {"next", "user", "squad", "insert", "find"}
    /\ rec.kind = "assign" => rec.pc = "squad"
    /\ rec.kind = "answer" => rec.pc = "insert"
    /\ rec.pc = "insert" =>
          /\ clock + Cardinality(Inserting) <= Pool
          /\ released # {} /\ rec.visible = released
    /\ rec.user = u /\ rec.seen = member[u] /\ rec.found = None
    /\ rec.kind # "assign" => rec.squad = member[u]

LEMMA BeginShape ==
  ASSUME TypeInv, NEW r \in SquadRequests, NEW u \in Users, BeginRequest(r, u)
  PROVE  \E rec : Started(u, rec) /\ Begin(r, rec)
<1> USE DEF Started
<1>1. CASE Launch(r, u)
  <2> DEFINE rec == NewRequest("launch", u, "user")
  <2>1. RequestOK(rec)
    BY NewRequestType DEF RequestOK, AllKinds
  <2> QED BY <1>1, <2>1, NewRequestType DEF Launch, AllKinds
<1>2. CASE \E U \in SUBSET Users : SyncRoster(r, u, U)
  <2> PICK U \in SUBSET Users : SyncRoster(r, u, U)
    BY <1>2
  <2> DEFINE new == NewRequest("roster", u, "next")
             rec == [new EXCEPT !.todo = U]
  <2>1. /\ new \in SquadRequest /\ new.kind = "roster" /\ new.pc = "next" /\ new.user = u
        /\ new.seen = member[u] /\ new.squad = member[u] /\ new.found = None
        /\ new.todo = {}
    BY NewRequestType DEF AllKinds
  <2>2. Begin(r, rec)
    BY DEF SyncRoster
  <2> HIDE DEF new
  <2>3. /\ rec \in SquadRequest /\ rec.kind = "roster" /\ rec.pc = "next" /\ rec.user = u
        /\ rec.seen = member[u] /\ rec.squad = member[u] /\ rec.found = None /\ rec.todo = U
    BY <2>1 DEF SquadRequest
  <2> HIDE DEF rec
  <2> QED BY <2>2, <2>3 DEF RequestOK
<1>3. CASE \E s \in Names, numbered \in BOOLEAN : Assign(r, u, s, numbered)
  <2> PICK s \in Names, numbered \in BOOLEAN : Assign(r, u, s, numbered)
    BY <1>3
  <2> DEFINE new == NewRequest("assign", u, "squad")
             rec == [new EXCEPT !.squad = s]
  <2>1. /\ new \in SquadRequest /\ new.kind = "assign" /\ new.pc = "squad" /\ new.user = u
        /\ new.seen = member[u] /\ new.found = None /\ new.todo = {}
    BY NewRequestType DEF AllKinds
  <2>2. Begin(r, [rec EXCEPT !.numbered = numbered])
    BY DEF Assign
  <2> HIDE DEF new
  <2>3. /\ rec \in SquadRequest /\ rec.kind = "assign" /\ rec.pc = "squad" /\ rec.user = u
        /\ rec.seen = member[u] /\ rec.found = None /\ rec.squad = s /\ rec.todo = {}
    BY <2>1 DEF SquadRequest
  <2> HIDE DEF rec
  <2>4. /\ [rec EXCEPT !.numbered = numbered] \in SquadRequest
        /\ \A f \in {"kind", "pc", "user", "seen", "found", "squad", "todo"} :
              [rec EXCEPT !.numbered = numbered][f] = rec[f]
    BY <2>3 DEF SquadRequest
  <2> QED BY <2>2, <2>3, <2>4 DEF RequestOK
<1>4. CASE \E q \in Questions : Answer(r, u, q)
  <2> PICK q \in Questions : Answer(r, u, q)
    BY <1>4
  <2> DEFINE new == NewRequest("answer", u, "insert")
             answers == SavedAnswers(member[u]) \cup {q}
             rec == [new EXCEPT !.question = q, !.keep = FALSE, !.answers = answers]
  <2>1. /\ new \in SquadRequest /\ new.kind = "answer" /\ new.pc = "insert" /\ new.user = u
        /\ new.seen = member[u] /\ new.squad = member[u] /\ new.found = None
        /\ new.todo = {}
        /\ new.status = None /\ new.visible = released
    BY NewRequestType DEF AllKinds
  <2>2. Begin(r, rec) /\ member[u] # None /\ q \in released
        /\ clock + Cardinality(Inserting) <= Pool
    BY DEF Answer, Inserting
  <2>3. answers \in SUBSET Questions /\ member[u] \in Names
    BY <2>2 DEF SavedAnswers, TypeInv, SquadsTypeOK, SquadProgress
  <2> HIDE DEF new, answers
  <2>4. /\ rec \in SquadRequest /\ rec.kind = "answer" /\ rec.pc = "insert" /\ rec.user = u
        /\ rec.seen = member[u] /\ rec.squad = member[u] /\ rec.found = None
        /\ rec.todo = {}
        /\ rec.status = None /\ rec.visible = released /\ rec.question = q
    BY <2>1, <2>3 DEF SquadRequest
  <2> HIDE DEF rec
  <2> QED BY <2>2, <2>3, <2>4 DEF RequestOK
<1>5. CASE \E status \in ProgressStatuses \cup {None} :
              \/ Save(r, u, {}, TRUE, status)
              \/ \E answers \in SUBSET released : Save(r, u, answers, FALSE, status)
  <2> PICK status \in ProgressStatuses \cup {None}, answers \in SUBSET Questions,
           keep \in BOOLEAN : Save(r, u, answers, keep, status)
    BY <1>5 DEF TypeInv, SquadsTypeOK
  <2> DEFINE new == NewRequest("save", u, "find")
             rec == [new EXCEPT !.answers = answers]
             all == [rec EXCEPT !.keep = keep]
  <2>1. /\ new \in SquadRequest /\ new.kind = "save" /\ new.pc = "find" /\ new.user = u
        /\ new.seen = member[u] /\ new.squad = member[u] /\ new.found = None
        /\ new.todo = {}
    BY NewRequestType DEF AllKinds
  <2>2. Begin(r, [all EXCEPT !.status = status]) /\ member[u] # None /\ member[u] \in Names
    BY DEF Save, TypeInv, SquadsTypeOK
  <2> HIDE DEF new
  <2>3. /\ rec \in SquadRequest /\ rec.kind = "save" /\ rec.pc = "find" /\ rec.user = u
        /\ rec.seen = member[u] /\ rec.squad = member[u] /\ rec.found = None
        /\ rec.todo = {}
    BY <2>1 DEF SquadRequest
  <2> HIDE DEF rec
  <2>4. /\ all \in SquadRequest /\ all.kind = "save" /\ all.pc = "find" /\ all.user = u
        /\ all.seen = member[u] /\ all.squad = member[u] /\ all.found = None
        /\ all.todo = {}
    BY <2>3 DEF SquadRequest
  <2> DEFINE full == [all EXCEPT !.status = status]
  <2> HIDE DEF all
  <2>5. /\ full \in SquadRequest /\ full.kind = "save" /\ full.pc = "find" /\ full.user = u
        /\ full.seen = member[u] /\ full.squad = member[u] /\ full.found = None
        /\ full.todo = {}
    BY <2>4 DEF SquadRequest
  <2> HIDE DEF full
  <2>6. Begin(r, full)
    BY <2>2 DEF full
  <2> QED BY <2>2, <2>5, <2>6 DEF RequestOK
<1>6. CASE \E n \in 0..Cardinality(Questions), complete \in BOOLEAN :
              SubmitScore(r, u, n, complete)
  <2> PICK n \in 0..Cardinality(Questions), complete \in BOOLEAN :
              SubmitScore(r, u, n, complete)
    BY <1>6
  <2> DEFINE new == NewRequest("score", u, "find")
             status == IF complete THEN "submitted" ELSE "in_progress"
             rec == [new EXCEPT !.total = n, !.max = Cardinality(Questions),
                                !.status = status]
  <2>1. /\ new \in SquadRequest /\ new.kind = "score" /\ new.pc = "find" /\ new.user = u
        /\ new.seen = member[u] /\ new.squad = member[u] /\ new.found = None
        /\ new.todo = {}
    BY NewRequestType DEF AllKinds
  <2>2. Begin(r, rec) /\ member[u] # None /\ member[u] \in Names
    BY DEF SubmitScore, TypeInv, SquadsTypeOK
  <2>3. status \in ProgressStatuses /\ n \in Nat /\ Cardinality(Questions) \in Nat
    BY QuestionCount DEF ProgressStatuses
  <2> HIDE DEF new, status
  <2>4. /\ rec \in SquadRequest /\ rec.kind = "score" /\ rec.pc = "find" /\ rec.user = u
        /\ rec.seen = member[u] /\ rec.squad = member[u] /\ rec.found = None
        /\ rec.todo = {}
    BY <2>1, <2>3 DEF SquadRequest
  <2> HIDE DEF rec
  <2> QED BY <2>2, <2>4 DEF RequestOK
<1> QED
  BY <1>1, <1>2, <1>3, <1>4, <1>5, <1>6 DEF BeginRequest

-----------------------------------------------------------------------------
(* Requests that go on: what a step makes of the request.                  *)

Moves(r, new) ==
    /\ new \in SquadRequest \cup {None}
    /\ new # None => RequestOK(new) /\ new.pc # "insert"
    /\ request' = [request EXCEPT ![r] = new]

Keeps(rec, new) ==
    new # None =>
       /\ new.kind = rec.kind /\ new.user = rec.user /\ new.seen = rec.seen
       /\ new.squad = rec.squad /\ new.visible = rec.visible

LEMMA Running ==
  ASSUME TypeInv, NEW r \in SquadRequests, request[r] # None
  PROVE  request[r] \in SquadRequest /\ RequestOK(request[r])
  BY DEF TypeInv, SquadsTypeOK

LEMMA GotoShape ==
  ASSUME TypeInv, NEW r \in SquadRequests, request[r] # None,
         NEW pc \in {"user", "create", "find"}, Goto(r, pc),
         RequestOK([request[r] EXCEPT !.pc = pc])
  PROVE  \E new : Moves(r, new) /\ Keeps(request[r], new) /\ new # None /\ new.pc = pc
                  /\ new.status = request[r].status
<1> DEFINE new == [request[r] EXCEPT !.pc = pc]
<1>1. /\ new \in SquadRequest /\ Keeps(request[r], new) /\ new.pc = pc
      /\ new.status = request[r].status
  BY Running DEF SquadRequest, Keeps
<1>2. Moves(r, new)
  BY <1>1 DEF Moves, Goto
<1> QED BY <1>1, <1>2, SquadsAssumption

LEMMA WithoutShape ==
  ASSUME NEW rec \in SquadRequest, RequestOK(rec), NEW x \in rec.todo
  PROVE  /\ Without(rec, x) \in SquadRequest \cup {None}
         /\ Keeps(rec, Without(rec, x))
         /\ Without(rec, x) = None <=> rec.todo = {x}
         /\ Without(rec, x) # None => /\ RequestOK(Without(rec, x))
                                      /\ Without(rec, x).pc = rec.pc
                                      /\ Without(rec, x).todo = rec.todo \ {x}
                                      /\ Without(rec, x).total = rec.total
                                      /\ Without(rec, x).max = rec.max
<1> DEFINE new == [rec EXCEPT !.todo = @ \ {x}]
<1>1. CASE rec.todo = {x}
  BY <1>1 DEF Without, Keeps
<1>2. CASE rec.todo # {x}
  <2>1. /\ new \in SquadRequest /\ Keeps(rec, new) /\ new.pc = rec.pc
        /\ new.kind = rec.kind /\ new.squad = rec.squad
        /\ new.todo = rec.todo \ {x} /\ new.total = rec.total /\ new.max = rec.max
    BY DEF SquadRequest, Keeps
  <2>2. rec.pc # "insert" /\ RequestOK(new)
    BY <2>1 DEF RequestOK
  <2>3. Without(rec, x) = new
    BY <1>2 DEF Without
  <2> HIDE DEF new
  <2> QED BY <1>2, <2>1, <2>2, <2>3, SquadsAssumption
<1> QED BY <1>1, <1>2

LEMMA TakeEnrollmentShape ==
  ASSUME TypeInv, NEW r \in SquadRequests, TakeEnrollment(r)
  PROVE  \E u \in Users, new \in SquadRequest :
            /\ Moves(r, new) /\ new.kind = "roster" /\ new.pc = "user"
            /\ new.user = u /\ new.seen = member[u]
<1>1. request[r] \in SquadRequest /\ RequestOK(request[r]) /\ request[r].pc = "next"
  BY Running DEF TakeEnrollment, At
<1>2. request[r].kind = "roster" /\ request[r].todo \subseteq Users
  BY <1>1 DEF RequestOK
<1>3. PICK u \in request[r].todo :
         request' = [request EXCEPT ![r].pc = "user", ![r].user = u, ![r].seen = member[u]]
  BY DEF TakeEnrollment
<1>4. u \in Users /\ member[u] \in Names \cup {None}
  BY <1>2 DEF TypeInv, SquadsTypeOK
<1> DEFINE new == [request[r] EXCEPT !.pc = "user", !.user = u, !.seen = member[u]]
<1>5. /\ new \in SquadRequest /\ new.kind = "roster" /\ new.pc = "user" /\ new.user = u
      /\ new.seen = member[u] /\ new.todo = request[r].todo
  BY <1>1, <1>2, <1>4 DEF SquadRequest
<1>6. request' = [request EXCEPT ![r] = new]
  BY <1>3 DEF TypeInv, SquadsTypeOK
<1> HIDE DEF new
<1>7. Moves(r, new)
  BY <1>2, <1>5, <1>6 DEF Moves, RequestOK
<1> QED BY <1>4, <1>5, <1>7

LEMMA WriteUserShape ==
  ASSUME TypeInv, NEW r \in SquadRequests, WriteUser(r)
  PROVE  /\ request[r] # None /\ request[r].pc = "user"
         /\ request[r].kind \in {"launch", "roster"}
         /\ \E new : /\ Moves(r, new) /\ Keeps(request[r], new)
                     /\ new # None => new.kind = "roster" /\ new.pc = "next"
<1>1. /\ request[r] \in SquadRequest /\ RequestOK(request[r]) /\ request[r].pc = "user"
      /\ request[r] # None /\ request[r].kind \in {"launch", "roster"}
  BY Running DEF WriteUser, At
<1>2. request' = [request EXCEPT ![r] =
                    IF @.kind = "launch" THEN None
                    ELSE Without([@ EXCEPT !.pc = "next"], request[r].user)]
  BY DEF WriteUser
<1>3. CASE request[r].kind = "launch"
  BY <1>1, <1>2, <1>3 DEF Moves, Keeps, TypeInv, SquadsTypeOK
<1>4. CASE request[r].kind = "roster"
  <2> DEFINE next == [request[r] EXCEPT !.pc = "next"]
             new == Without(next, request[r].user)
  <2>1. /\ next \in SquadRequest /\ next.kind = "roster" /\ next.pc = "next"
        /\ next.todo = request[r].todo /\ Keeps(request[r], next)
    BY <1>1, <1>4 DEF SquadRequest, Keeps
  <2>2. RequestOK(next)
    BY <1>1, <1>4, <2>1 DEF RequestOK
  <2>3. request' = [request EXCEPT ![r] = new]
    BY <1>2, <1>4 DEF TypeInv, SquadsTypeOK
  <2> HIDE DEF next
  <2>4. /\ new \in SquadRequest \cup {None}
        /\ new # None => RequestOK(new) /\ new.pc = "next" /\ Keeps(next, new)
    <3>1. CASE request[r].user \in next.todo
      BY <2>1, <2>2, <3>1, WithoutShape
    <3>2. CASE request[r].user \notin next.todo
      <4>1. next.todo # {request[r].user} /\ next.todo \ {request[r].user} = next.todo
        BY <3>2
      <4>2. new = next
        BY <2>1, <4>1 DEF Without, SquadRequest
      <4> QED BY <2>1, <2>2, <4>2 DEF Keeps
    <3> QED BY <3>1, <3>2
  <2> HIDE DEF new
  <2> QED BY <1>1, <2>1, <2>3, <2>4, SquadsAssumption DEF Moves, Keeps
<1> QED BY <1>1, <1>3, <1>4

LEMMA EndShape ==
  ASSUME TypeInv, NEW r \in SquadRequests, End(r)
  PROVE  Moves(r, None) /\ Keeps(request[r], None)
  BY DEF End, Moves, Keeps

LEMMA FindSquadShape ==
  ASSUME TypeInv, NEW r \in SquadRequests, FindSquad(r)
  PROVE  /\ request[r] # None /\ request[r].kind = "assign" /\ request[r].pc = "squad"
         /\ \E new : /\ Moves(r, new) /\ Keeps(request[r], new)
                     /\ new # None => \/ new.pc = "create"
                                      \/ new.pc = "user" /\ Exists(new.squad)
<1>1. /\ request[r] \in SquadRequest /\ RequestOK(request[r]) /\ request[r].pc = "squad"
      /\ request[r] # None
  BY Running DEF FindSquad, At
<1>2. request[r].kind = "assign" /\ request[r].todo = {}
  BY <1>1 DEF RequestOK
<1>3. \/ Goto(r, "create")
      \/ Goto(r, "user") /\ Exists(request[r].squad)
      \/ End(r)
  BY DEF FindSquad, Exists
<1>4. ASSUME NEW pc \in {"user", "create"}
      PROVE  RequestOK([request[r] EXCEPT !.pc = pc])
  <2> DEFINE new == [request[r] EXCEPT !.pc = pc]
  <2>1. /\ new \in SquadRequest /\ new.kind = "assign" /\ new.pc = pc
        /\ new.squad = request[r].squad /\ new.todo = {}
    BY <1>1, <1>2 DEF SquadRequest
  <2> HIDE DEF new
  <2>2. RequestOK(new)
    BY <1>1, <1>2, <2>1 DEF RequestOK
  <2> QED BY <2>2 DEF new
<1>5. CASE Goto(r, "create")
  BY <1>1, <1>2, <1>4, <1>5, GotoShape
<1>6. CASE Goto(r, "user") /\ Exists(request[r].squad)
  <2>1. PICK new : Moves(r, new) /\ Keeps(request[r], new) /\ new # None /\ new.pc = "user"
    BY <1>1, <1>4, <1>6, GotoShape
  <2>2. new.squad = request[r].squad
    BY <2>1 DEF Keeps
  <2> QED BY <1>1, <1>2, <1>6, <2>1, <2>2
<1>7. CASE End(r)
  BY <1>1, <1>2, <1>7, EndShape
<1> QED BY <1>3, <1>5, <1>6, <1>7

LEMMA CreateNumberedShape ==
  ASSUME TypeInv, NEW r \in SquadRequests, CreateNumbered(r)
  PROVE  /\ request[r] # None /\ request[r].kind = "assign" /\ request[r].pc = "create"
         /\ \E new : /\ Moves(r, new) /\ Keeps(request[r], new)
                     /\ \/ new = None /\ UNCHANGED squads
                        \/ /\ new # None /\ new.pc = "user"
                           /\ squads' = [squads EXCEPT ![new.squad] = "numbered"]
<1>1. /\ request[r] \in SquadRequest /\ RequestOK(request[r]) /\ request[r].pc = "create"
      /\ request[r] # None
  BY Running DEF CreateNumbered, At
<1>2. request[r].kind = "assign" /\ request[r].todo = {}
  BY <1>1 DEF RequestOK
<1>3. \/ End(r) /\ UNCHANGED squads
      \/ Goto(r, "user") /\ squads' = [squads EXCEPT ![request[r].squad] = "numbered"]
  BY DEF CreateNumbered
<1>4. RequestOK([request[r] EXCEPT !.pc = "user"])
  <2> DEFINE new == [request[r] EXCEPT !.pc = "user"]
  <2>1. /\ new \in SquadRequest /\ new.kind = "assign" /\ new.pc = "user"
        /\ new.squad = request[r].squad /\ new.todo = {}
    BY <1>1, <1>2 DEF SquadRequest
  <2> HIDE DEF new
  <2>2. RequestOK(new)
    BY <1>1, <1>2, <2>1 DEF RequestOK
  <2> QED BY <2>2 DEF new
<1>5. CASE End(r) /\ UNCHANGED squads
  BY <1>1, <1>2, <1>5, EndShape
<1>6. CASE Goto(r, "user") /\ squads' = [squads EXCEPT ![request[r].squad] = "numbered"]
  <2>1. PICK new : Moves(r, new) /\ Keeps(request[r], new) /\ new # None /\ new.pc = "user"
    BY <1>1, <1>4, <1>6, GotoShape
  <2>2. new.squad = request[r].squad
    BY <2>1 DEF Keeps
  <2> QED BY <1>1, <1>2, <1>6, <2>1, <2>2
<1> QED BY <1>3, <1>5, <1>6

LEMMA WriteSquadShape ==
  ASSUME TypeInv, NEW r \in SquadRequests, WriteSquad(r)
  PROVE  /\ request[r] # None /\ request[r].kind = "assign" /\ request[r].pc = "user"
         /\ request[r].squad \in Names /\ request[r].user \in Users
         /\ \E new : /\ Moves(r, new) /\ Keeps(request[r], new)
                     /\ new = None <=> request[r].seen = request[r].squad
                     /\ new # None => new.pc = "carry" /\ new.todo = Collections
<1>1. /\ request[r] \in SquadRequest /\ RequestOK(request[r]) /\ request[r].pc = "user"
      /\ request[r] # None /\ request[r].kind = "assign" /\ request[r].squad \in Names
      /\ request[r].user \in Users
  BY Running DEF WriteSquad, At, RequestOK, SquadRequest
<1> DEFINE carry == [request[r] EXCEPT !.pc = "carry", !.todo = Collections]
<1>2. request' = [request EXCEPT ![r] =
                    IF request[r].seen = request[r].squad THEN None ELSE carry]
  BY DEF WriteSquad
<1>3. CASE request[r].seen = request[r].squad
  BY <1>1, <1>2, <1>3 DEF Moves, Keeps
<1>4. CASE request[r].seen # request[r].squad
  <2>1. /\ carry \in SquadRequest /\ Keeps(request[r], carry) /\ carry.pc = "carry"
        /\ carry.todo = Collections /\ carry.kind = "assign"
        /\ carry.squad = request[r].squad
    BY <1>1 DEF SquadRequest, Keeps
  <2>2. request' = [request EXCEPT ![r] = carry]
    BY <1>2, <1>4
  <2> HIDE DEF carry
  <2>3. RequestOK(carry)
    BY <1>1, <2>1 DEF RequestOK
  <2>4. carry # None
    BY <2>1, SquadsAssumption
  <2>5. Moves(r, carry)
    BY <2>1, <2>2, <2>3 DEF Moves
  <2> QED BY <1>1, <1>4, <2>1, <2>4, <2>5
<1> QED BY <1>3, <1>4

LEMMA CarryShape ==
  ASSUME TypeInv, NEW r \in SquadRequests, NEW c \in Collections, Carry(r, c)
  PROVE  /\ request[r] # None /\ request[r].kind = "assign" /\ request[r].pc = "carry"
         /\ request[r].squad \in Names /\ request[r].user \in Users
         /\ request[r].todo \subseteq Collections
         /\ \E new : /\ Moves(r, new) /\ Keeps(request[r], new)
                     /\ new = None <=> request[r].todo = {c}
                     /\ new # None => new.pc = "carry" /\ new.todo = request[r].todo \ {c}
<1>1. /\ request[r] \in SquadRequest /\ RequestOK(request[r]) /\ request[r].pc = "carry"
      /\ request[r] # None /\ c \in request[r].todo
      /\ request' = [request EXCEPT ![r] = Without(request[r], c)]
  BY Running DEF Carry, At, TypeInv, SquadsTypeOK
<1>2. /\ request[r].kind = "assign" /\ request[r].squad \in Names /\ request[r].user \in Users
      /\ request[r].todo \subseteq Collections
  BY <1>1 DEF RequestOK, SquadRequest
<1> DEFINE new == Without(request[r], c)
<1>3. /\ new \in SquadRequest \cup {None} /\ Keeps(request[r], new)
      /\ new = None <=> request[r].todo = {c}
      /\ new # None => /\ RequestOK(new) /\ new.pc = "carry"
                       /\ new.todo = request[r].todo \ {c}
  BY <1>1, WithoutShape
<1> HIDE DEF new
<1>4. Moves(r, new)
  BY <1>1, <1>3 DEF Moves, new
<1> QED BY <1>1, <1>2, <1>3, <1>4

LEMMA InsertShape ==
  ASSUME TypeInv, NEW r \in SquadRequests, Insert(r)
  PROVE  /\ request[r] # None /\ request[r].kind = "answer" /\ request[r].pc = "insert"
         /\ request[r].squad \in Names /\ request[r].user \in Users
         /\ clock \in Times
         /\ \E t \in SquadAttempt :
               /\ t.squad = request[r].squad /\ t.by = request[r].user
               /\ attempts' = [attempts EXCEPT ![clock] = t]
         /\ \E new : /\ Moves(r, new) /\ Keeps(request[r], new)
                     /\ new # None /\ new.pc = "find" /\ new.status = None
<1>1. /\ request[r] \in SquadRequest /\ RequestOK(request[r]) /\ request[r].pc = "insert"
      /\ request[r] # None /\ Goto(r, "find")
  BY Running DEF Insert, At
<1>2. /\ request[r].kind = "answer" /\ request[r].squad \in Names /\ request[r].user \in Users
      /\ request[r].question \in Questions /\ request[r].todo = {} /\ request[r].status = None
  BY <1>1 DEF RequestOK, SquadRequest
<1>3. clock \in Times
  <2>1. r \in Inserting
    BY <1>1 DEF Inserting, At
  <2>2. IsFiniteSet(Inserting) /\ clock + Cardinality(Inserting) <= Pool + 1
        /\ clock \in 1..(Pool + 1) /\ Pool \in Nat
    BY SquadsAssumption DEF TypeInv, TimeLeft, SquadsTypeOK
  <2>3. Cardinality(Inserting) \in Nat /\ Cardinality(Inserting) # 0
    BY <2>1, <2>2, FS_CardinalityType, FS_EmptySet
  <2> QED BY <2>2, <2>3 DEF Times
<1>4. \E t \in SquadAttempt :
         /\ t.squad = request[r].squad /\ t.by = request[r].user
         /\ attempts' = [attempts EXCEPT ![clock] = t]
  <2> PICK correct \in BOOLEAN :
         attempts' = [attempts EXCEPT ![clock] =
                        [question |-> request[r].question, squad |-> request[r].squad,
                         by |-> request[r].user, correct |-> correct]]
    BY DEF Insert
  <2> QED BY <1>2 DEF SquadAttempt
<1>5. RequestOK([request[r] EXCEPT !.pc = "find"])
  <2> DEFINE new == [request[r] EXCEPT !.pc = "find"]
  <2>1. /\ new \in SquadRequest /\ new.kind = "answer" /\ new.pc = "find"
        /\ new.squad = request[r].squad /\ new.todo = {} /\ new.status = None
    BY <1>1, <1>2 DEF SquadRequest
  <2> HIDE DEF new
  <2>2. RequestOK(new)
    BY <1>1, <1>2, <2>1 DEF RequestOK
  <2> QED BY <2>2 DEF new
<1>6. \E new : /\ Moves(r, new) /\ Keeps(request[r], new)
               /\ new # None /\ new.pc = "find" /\ new.status = None
  BY <1>1, <1>2, <1>5, GotoShape
<1> QED BY <1>1, <1>2, <1>3, <1>4, <1>6

LEMMA FindProgressShape ==
  ASSUME TypeInv, NEW r \in SquadRequests, FindProgress(r)
  PROVE  /\ request[r] # None /\ request[r].pc = "find" /\ request[r].squad \in Names
         /\ \E new : /\ Moves(r, new) /\ Keeps(request[r], new)
                     /\ new # None /\ new.pc = "merge" /\ new.status = request[r].status
                     /\ new.found = progress[request[r].squad]
<1>1. /\ request[r] \in SquadRequest /\ RequestOK(request[r]) /\ request[r].pc = "find"
      /\ request[r] # None
  BY Running DEF FindProgress, At
<1>2. /\ request[r].kind \in {"answer", "save", "score"} /\ request[r].squad \in Names
      /\ request[r].todo = {}
  BY <1>1 DEF RequestOK
<1> DEFINE new == [request[r] EXCEPT !.pc = "merge", !.found = progress[request[r].squad]]
<1>3. request' = [request EXCEPT ![r] = new]
  BY DEF FindProgress, TypeInv, SquadsTypeOK
<1>4. progress[request[r].squad] \in SquadProgress \cup {None}
  BY <1>2 DEF TypeInv, SquadsTypeOK
<1>5. /\ new \in SquadRequest /\ Keeps(request[r], new) /\ new.pc = "merge"
      /\ new.status = request[r].status /\ new.found = progress[request[r].squad]
      /\ new.kind = request[r].kind /\ new.squad = request[r].squad /\ new.todo = {}
  <2> HIDE DEF SquadProgress
  <2> QED BY <1>1, <1>2, <1>4 DEF SquadRequest, Keeps
<1> HIDE DEF new
<1>6. Moves(r, new)
  BY <1>2, <1>3, <1>5 DEF Moves, RequestOK
<1> QED BY <1>1, <1>2, <1>5, <1>6, SquadsAssumption

(* An answer goes on until it has saved the members' scores or seen that the work is *)
(* not complete; a save ends with the progress.                                     *)
LEMMA WriteProgressShape ==
  ASSUME TypeInv, NEW r \in SquadRequests, WriteProgress(r)
  PROVE  /\ request[r] # None /\ request[r].pc = "merge" /\ request[r].squad \in Names
         /\ MergedProgress(request[r]) \in SquadProgress
         /\ \/ progress' = [progress EXCEPT ![request[r].squad] = MergedProgress(request[r])]
            \/ request[r].found # None /\ UNCHANGED progress
         /\ \E new : /\ Moves(r, new) /\ Keeps(request[r], new)
                     /\ request[r].kind = "answer" /\ request[r].status = "submitted"
                           => new # None /\ new.pc = "members"
                     /\ request[r].kind = "answer" /\ request[r].status = None
                           => new # None /\ new.pc = "latest"
                     /\ new # None => new.pc \in {"members", "latest"}
<1>1. /\ request[r] \in SquadRequest /\ RequestOK(request[r]) /\ request[r].pc = "merge"
      /\ request[r] # None
  BY Running DEF WriteProgress, At
<1>2. /\ request[r].kind \in {"answer", "save", "score"} /\ request[r].squad \in Names
      /\ request[r].todo = {}
  BY <1>1 DEF RequestOK
<1>3. MergedProgress(request[r]) \in SquadProgress
  <2> DEFINE rec == request[r]
             answers == IF ~rec.keep THEN rec.answers
                        ELSE IF rec.found = None THEN {} ELSE rec.found.answers
             status == IF rec.status # None THEN rec.status
                       ELSE IF answers = {} THEN "not_started" ELSE "in_progress"
  <2>1. rec.answers \in SUBSET Questions /\ rec.found \in SquadProgress \cup {None}
    BY <1>1 DEF SquadRequest
  <2>2. answers \in SUBSET Questions
    BY <2>1 DEF SquadProgress
  <2>3. rec.status \in ProgressStatuses \cup {None}
    BY <1>1 DEF SquadRequest
  <2>4. status \in ProgressStatuses
    BY <2>3 DEF ProgressStatuses
  <2>5. MergedProgress(rec) = [status |-> status, answers |-> answers]
    BY DEF MergedProgress
  <2> HIDE DEF answers, status
  <2> QED BY <2>2, <2>4, <2>5 DEF SquadProgress
<1>4. \/ progress' = [progress EXCEPT ![request[r].squad] = MergedProgress(request[r])]
      \/ request[r].found # None /\ UNCHANGED progress
  BY DEF WriteProgress, MayBeNoop
<1> DEFINE members == [request[r] EXCEPT !.pc = "members"]
           latest == [request[r] EXCEPT !.pc = "latest", !.found = None]
           submitted == /\ request[r].kind \in {"answer", "score"}
                        /\ request[r].status = "submitted"
           evaluated == request[r].kind = "answer" /\ request[r].status = None
<1>5. request' = [request EXCEPT ![r] = AfterMerge(request[r])]
  BY DEF WriteProgress, TypeInv, SquadsTypeOK
<1>6. CASE submitted
  <2>1. AfterMerge(request[r]) = members
    BY <1>6, SquadsAssumption DEF AfterMerge, ProgressStatuses
  <2>2. /\ members \in SquadRequest /\ Keeps(request[r], members) /\ members.pc = "members"
        /\ members.kind = request[r].kind /\ members.squad = request[r].squad
        /\ members.todo = {}
    BY <1>1, <1>2 DEF SquadRequest, Keeps
  <2>3. RequestOK(members)
    <3> HIDE DEF members
    <3> QED BY <1>2, <1>6, <2>2 DEF RequestOK
  <2> HIDE DEF members
  <2>4. Moves(r, members) /\ members # None
    BY <1>5, <2>1, <2>2, <2>3, SquadsAssumption DEF Moves
  <2>5. request[r].status # None
    BY <1>6, SquadsAssumption DEF ProgressStatuses
  <2> QED BY <1>1, <1>2, <1>3, <1>4, <1>6, <2>2, <2>4, <2>5
<1>7. CASE ~submitted /\ evaluated
  <2>1. AfterMerge(request[r]) = latest
    BY <1>7 DEF AfterMerge
  <2>2. /\ latest \in SquadRequest /\ Keeps(request[r], latest) /\ latest.pc = "latest"
        /\ latest.kind = request[r].kind /\ latest.squad = request[r].squad
        /\ latest.todo = {}
    BY <1>1, <1>2 DEF SquadRequest, Keeps
  <2>3. RequestOK(latest)
    <3> HIDE DEF latest
    <3> QED BY <1>2, <1>7, <2>2 DEF RequestOK
  <2> HIDE DEF latest
  <2>4. Moves(r, latest) /\ latest # None
    BY <1>5, <2>1, <2>2, <2>3, SquadsAssumption DEF Moves
  <2> QED BY <1>1, <1>2, <1>3, <1>4, <1>7, <2>2, <2>4
<1>8. CASE ~submitted /\ ~evaluated
  <2>1. AfterMerge(request[r]) = None
    BY <1>8 DEF AfterMerge
  <2>2. Moves(r, None) /\ Keeps(request[r], None)
    BY <1>5, <2>1 DEF Moves, Keeps
  <2> QED BY <1>1, <1>2, <1>3, <1>4, <1>8, <2>2
<1> QED BY <1>6, <1>7, <1>8

LEMMA EvaluateSquadShape ==
  ASSUME TypeInv, NEW r \in SquadRequests, EvaluateSquad(r)
  PROVE  /\ request[r] # None /\ request[r].kind = "answer" /\ request[r].pc = "latest"
         /\ request[r].squad \in Names
         /\ \E new : /\ Moves(r, new) /\ Keeps(request[r], new)
                     /\ Complete(request[r].squad, request[r].visible) => new # None
                     /\ new # None => new.pc = "find" /\ new.status = "submitted"
<1>1. /\ request[r] \in SquadRequest /\ RequestOK(request[r]) /\ request[r].pc = "latest"
      /\ request[r] # None
  BY Running DEF EvaluateSquad, At
<1>2. /\ request[r].kind = "answer" /\ request[r].squad \in Names /\ request[r].todo = {}
      /\ request[r].visible \in SUBSET Questions
  BY <1>1 DEF RequestOK, SquadRequest
<1> DEFINE total == TotalOf(request[r].squad, request[r].visible)
           max == Cardinality(request[r].visible)
           new == [request[r] EXCEPT !.pc = "find", !.keep = TRUE, !.answers = {},
                                     !.status = "submitted", !.total = total, !.max = max]
<1>3. request' = [request EXCEPT ![r] =
                    IF ~Complete(request[r].squad, request[r].visible) THEN None ELSE new]
  BY DEF EvaluateSquad
<1>4. total \in Nat /\ max \in Nat
  BY <1>2, TotalType, QuestionCount
<1>5. CASE ~Complete(request[r].squad, request[r].visible)
  BY <1>1, <1>2, <1>3, <1>5 DEF Moves, Keeps
<1>6. CASE Complete(request[r].squad, request[r].visible)
  <2> HIDE DEF total, max
  <2>1. /\ new \in SquadRequest /\ Keeps(request[r], new) /\ new.pc = "find"
        /\ new.kind = "answer" /\ new.squad = request[r].squad /\ new.todo = {}
        /\ new.status = "submitted"
    BY <1>1, <1>2, <1>4 DEF SquadRequest, Keeps, ProgressStatuses
  <2>2. request' = [request EXCEPT ![r] = new]
    BY <1>3, <1>6
  <2> HIDE DEF new
  <2>3. Moves(r, new)
    BY <1>2, <2>1, <2>2 DEF Moves, RequestOK
  <2> QED BY <1>1, <1>2, <1>6, <2>1, <2>3, SquadsAssumption
<1> QED BY <1>5, <1>6

LEMMA ListMembersShape ==
  ASSUME TypeInv, NEW r \in SquadRequests, ListMembers(r)
  PROVE  /\ request[r] # None /\ request[r].kind \in {"answer", "score"}
         /\ request[r].pc = "members" /\ request[r].squad \in Names
         /\ \E new : /\ Moves(r, new) /\ Keeps(request[r], new)
                     /\ new = None <=> Members(request[r]) = {}
                     /\ new # None => new.pc = "save" /\ new.todo = Members(request[r])
<1>1. /\ request[r] \in SquadRequest /\ RequestOK(request[r]) /\ request[r].pc = "members"
      /\ request[r] # None
  BY Running DEF ListMembers, At
<1>2. request[r].kind \in {"answer", "score"} /\ request[r].squad \in Names
  BY <1>1 DEF RequestOK
<1> DEFINE todo == Members(request[r])
           new == [request[r] EXCEPT !.pc = "save", !.todo = todo]
<1>3. request' = [request EXCEPT ![r] = IF todo = {} THEN None ELSE new]
  BY DEF ListMembers, TypeInv, SquadsTypeOK
<1>4. todo \in SUBSET Users
  BY DEF Members
<1> HIDE DEF todo
<1>5. CASE todo = {}
  <2>1. Moves(r, None) /\ Keeps(request[r], None)
    BY <1>3, <1>5 DEF Moves, Keeps
  <2> QED BY <1>1, <1>2, <1>5, <2>1 DEF todo
<1>6. CASE todo # {}
  <2>1. /\ new \in SquadRequest /\ Keeps(request[r], new) /\ new.pc = "save"
        /\ new.kind = request[r].kind /\ new.squad = request[r].squad /\ new.todo = todo
    BY <1>1, <1>4 DEF SquadRequest, Keeps
  <2>2. request' = [request EXCEPT ![r] = new]
    BY <1>3, <1>6
  <2> HIDE DEF new
  <2>3. Moves(r, new)
    BY <1>2, <1>4, <2>1, <2>2 DEF Moves, RequestOK
  <2>4. new # None
    BY <2>1, SquadsAssumption
  <2> QED BY <1>1, <1>2, <1>6, <2>1, <2>3, <2>4 DEF todo
<1> QED BY <1>5, <1>6

LEMMA SaveMemberShape ==
  ASSUME TypeInv, NEW r \in SquadRequests, NEW u \in Users, SaveMember(r, u)
  PROVE  /\ request[r] # None /\ request[r].pc = "save" /\ u \in request[r].todo
         /\ request[r].squad \in Names /\ request[r].todo \subseteq Users
         /\ \/ score' = [score EXCEPT ![u] = [total |-> request[r].total,
                                             max |-> request[r].max,
                                             squad |-> request[r].squad]]
            \/ /\ score[u] # None /\ score[u].total = request[r].total
               /\ score[u].max = request[r].max /\ UNCHANGED score
         /\ [total |-> request[r].total, max |-> request[r].max,
             squad |-> request[r].squad] \in MemberScore
         /\ \E new : /\ Moves(r, new) /\ Keeps(request[r], new)
                     /\ new = None <=> request[r].todo = {u}
                     /\ new # None => /\ new.pc = "save" /\ new.todo = request[r].todo \ {u}
                                      /\ new.total = request[r].total
                                      /\ new.max = request[r].max
<1>1. /\ request[r] \in SquadRequest /\ RequestOK(request[r]) /\ request[r].pc = "save"
      /\ request[r] # None /\ u \in request[r].todo
      /\ request' = [request EXCEPT ![r] = Without(request[r], u)]
  BY Running DEF SaveMember, At, TypeInv, SquadsTypeOK
<1>2. request[r].squad \in Names /\ request[r].todo \subseteq Users
  BY <1>1 DEF RequestOK
<1>3. /\ \/ score' = [score EXCEPT ![u] = [total |-> request[r].total,
                                          max |-> request[r].max,
                                          squad |-> request[r].squad]]
         \/ /\ score[u] # None /\ score[u].total = request[r].total
            /\ score[u].max = request[r].max /\ UNCHANGED score
  BY DEF SaveMember
<1>4. [total |-> request[r].total, max |-> request[r].max,
       squad |-> request[r].squad] \in MemberScore
  BY <1>1, <1>2 DEF SquadRequest, MemberScore
<1> DEFINE new == Without(request[r], u)
<1>5. /\ new \in SquadRequest \cup {None} /\ Keeps(request[r], new)
      /\ new = None <=> request[r].todo = {u}
      /\ new # None => /\ RequestOK(new) /\ new.pc = "save"
                       /\ new.todo = request[r].todo \ {u}
                       /\ new.total = request[r].total /\ new.max = request[r].max
  BY <1>1, WithoutShape
<1> HIDE DEF new
<1>6. Moves(r, new)
  BY <1>1, <1>5 DEF Moves, new
<1> QED BY <1>1, <1>2, <1>3, <1>4, <1>5, <1>6

LEMMA SaveMemberMoves ==
  ASSUME TypeInv, NEW r \in SquadRequests, NEW u \in Users, SaveMember(r, u)
  PROVE  \E new : /\ Moves(r, new) /\ Keeps(request[r], new)
                  /\ new = None <=> request[r].todo = {u}
                  /\ new # None => /\ new.pc = "save" /\ new.todo = request[r].todo \ {u}
                                   /\ new.total = request[r].total
                                   /\ new.max = request[r].max
  BY SaveMemberShape

LEMMA FailShape ==
  ASSUME TypeInv, NEW r \in SquadRequests, Fail(r)
  PROVE  /\ request[r] # None
         /\ failed \in Nat /\ failed' = failed + 1 /\ failed' \in 0..mix.faults
         /\ \E new : /\ Moves(r, new) /\ Keeps(request[r], new)
                     /\ new # None => /\ new.pc = request[r].pc /\ new.pc \in {"carry", "save"}
                                      /\ new.todo \subseteq request[r].todo
<1>1. /\ request[r] \in SquadRequest /\ RequestOK(request[r]) /\ request[r] # None
  BY Running DEF Fail
<1>2. mix.faults \in Nat /\ failed \in 0..mix.faults
  BY SquadsAssumption DEF TypeInv, SquadsTypeOK, Mix
<1>3. failed \in Nat /\ failed' = failed + 1 /\ failed' \in 0..mix.faults
  BY <1>2 DEF Fail
<1>4. CASE End(r)
  BY <1>1, <1>3, <1>4, EndShape
<1>5. CASE /\ request[r].kind # "roster"
           /\ \E x \in request[r].todo : request' = [request EXCEPT ![r] = Without(@, x)]
  <2> PICK x \in request[r].todo : request' = [request EXCEPT ![r] = Without(request[r], x)]
    BY <1>5 DEF TypeInv, SquadsTypeOK
  <2> DEFINE new == Without(request[r], x)
  <2>1. /\ new \in SquadRequest \cup {None} /\ Keeps(request[r], new)
        /\ new # None => /\ RequestOK(new) /\ new.pc = request[r].pc
                         /\ new.todo \subseteq request[r].todo
    BY <1>1, WithoutShape
  <2>2. request[r].pc \in {"carry", "save"}
    BY <1>1, <1>5 DEF RequestOK
  <2> HIDE DEF new
  <2>3. Moves(r, new)
    BY <2>1, <2>2 DEF Moves, new
  <2> QED BY <1>1, <1>3, <2>1, <2>2, <2>3
<1> QED BY <1>4, <1>5 DEF Fail

-----------------------------------------------------------------------------
(* The types.                                                              *)

RequestsOK ==
    /\ request \in [SquadRequests -> SquadRequest \cup {None}]
    /\ \A r \in SquadRequests : request[r] # None => RequestOK(request[r])

LEMMA QuietMove ==
  ASSUME TypeInv, NEW r \in SquadRequests, NEW new, Moves(r, new)
  PROVE  /\ RequestsOK' /\ Inserting' \subseteq Inserting
         /\ IsFiniteSet(Inserting') /\ Cardinality(Inserting') \in Nat
         /\ Cardinality(Inserting') <= Cardinality(Inserting)
         /\ request[r] # None /\ request[r].pc = "insert"
               => Cardinality(Inserting') + 1 <= Cardinality(Inserting)
<1>1. RequestsOK'
  BY DEF RequestsOK, TypeInv, SquadsTypeOK, Moves, RequestOK
<1>2. Inserting' \subseteq Inserting \ {r}
  BY DEF Inserting, Moves, TypeInv, SquadsTypeOK, At
<1>3. IsFiniteSet(Inserting)
  BY DEF TypeInv, TimeLeft
<1>4. IsFiniteSet(Inserting') /\ Cardinality(Inserting') <= Cardinality(Inserting)
      /\ Cardinality(Inserting') \in Nat /\ Cardinality(Inserting) \in Nat
  BY <1>2, <1>3, FS_Subset, FS_CardinalityType
<1>5. ASSUME request[r] # None, request[r].pc = "insert"
      PROVE  Cardinality(Inserting') + 1 <= Cardinality(Inserting)
  <2>1. r \in Inserting
    BY <1>5 DEF Inserting, At
  <2>2. /\ IsFiniteSet(Inserting \ {r})
        /\ Cardinality(Inserting \ {r}) = Cardinality(Inserting) - 1
    BY <1>3, <2>1, FS_RemoveElement
  <2>3. Cardinality(Inserting') <= Cardinality(Inserting \ {r})
    BY <1>2, <2>2, FS_Subset
  <2> QED BY <1>4, <2>2, <2>3
<1> QED BY <1>1, <1>2, <1>4, <1>5

LEMMA SameTime ==
  ASSUME TypeInv, NEW r \in SquadRequests, NEW new, Moves(r, new), UNCHANGED clock
  PROVE  RequestsOK' /\ TimeLeft'
<1>1. /\ RequestsOK' /\ IsFiniteSet(Inserting') /\ Cardinality(Inserting') \in Nat
      /\ Cardinality(Inserting') <= Cardinality(Inserting)
  BY QuietMove
<1>2. Cardinality(Inserting) \in Nat /\ clock \in Nat /\ Pool \in Nat
      /\ clock + Cardinality(Inserting) <= Pool + 1
  BY FS_CardinalityType, SquadsAssumption DEF TypeInv, TimeLeft, SquadsTypeOK
<1> QED BY <1>1, <1>2 DEF TimeLeft

LEMMA RoomBudget ==
  ASSUME TypeInv, NEW kind, Room(kind)
  PROVE  /\ begun' \in 0..mix'.requests /\ failed' \in 0..mix'.faults /\ mix' \in Mixes
         /\ UNCHANGED <<given, failed, mix>>
         /\ ~mix.overlap => \A x \in SquadRequests : request[x] = None
  BY SquadsAssumption DEF Room, TypeInv, SquadsTypeOK, Mix

LEMMA BeginTypeInv ==
  ASSUME TypeInv, NEW r \in SquadRequests, NEW u \in Users, BeginRequest(r, u)
  PROVE  TypeInv'
<1>1. PICK rec : Started(u, rec) /\ Begin(r, rec)
  BY BeginShape
<1>2. /\ request' = [request EXCEPT ![r] = rec] /\ Room(rec.kind) /\ request[r] = None
      /\ UNCHANGED <<records, clock, released, stirred>> /\ rec \in SquadRequest
      /\ RequestOK(rec)
  BY <1>1 DEF Begin, Started
<1>3. /\ begun' \in 0..mix'.requests /\ failed' \in 0..mix'.faults /\ mix' \in Mixes
      /\ UNCHANGED <<given, failed, mix>>
  BY <1>2, RoomBudget
<1>4. RequestsOK'
  BY <1>2 DEF RequestsOK, TypeInv, SquadsTypeOK, RequestOK
<1>5. TimeLeft'
  <2>1. IsFiniteSet(Inserting) /\ Cardinality(Inserting) \in Nat /\ clock \in Nat
        /\ Pool \in Nat /\ clock + Cardinality(Inserting) <= Pool + 1
    BY FS_CardinalityType, SquadsAssumption DEF TypeInv, TimeLeft, SquadsTypeOK
  <2>2. CASE rec.pc # "insert"
    <3>1. Moves(r, rec)
      BY <1>2, <2>2 DEF Moves
    <3> QED BY <1>2, <3>1, SameTime
  <2>3. CASE rec.pc = "insert"
    <3>1. Inserting' \subseteq Inserting \cup {r}
      BY <1>2 DEF Inserting, At, TypeInv, SquadsTypeOK
    <3>2. IsFiniteSet(Inserting \cup {r})
          /\ Cardinality(Inserting \cup {r}) <= Cardinality(Inserting) + 1
      BY <2>1, FS_AddElement
    <3>3. IsFiniteSet(Inserting') /\ Cardinality(Inserting') \in Nat
          /\ Cardinality(Inserting \cup {r}) \in Nat
          /\ Cardinality(Inserting') <= Cardinality(Inserting \cup {r})
      BY <3>1, <3>2, FS_Subset, FS_CardinalityType
    <3>4. clock + Cardinality(Inserting) <= Pool
      BY <1>1, <2>3 DEF Started
    <3> QED BY <1>2, <2>1, <3>2, <3>3, <3>4 DEF TimeLeft
  <2> QED BY <2>2, <2>3
<1> QED
  BY <1>2, <1>3, <1>4, <1>5 DEF TypeInv, SquadsTypeOK, RequestsOK, records

LEMMA WriteUserTypeInv ==
  ASSUME TypeInv, NEW r \in SquadRequests, WriteUser(r)
  PROVE  TypeInv'
<1>1. RequestsOK' /\ TimeLeft'
  BY WriteUserShape, SameTime DEF WriteUser
<1>2. /\ request[r].user \in Users /\ Upserted(request[r]) \in Names \cup {None}
  BY WriteUserShape, Running DEF SquadRequest, Upserted
<1>3. stirred' \subseteq Names /\ member' \in [Users -> Names \cup {None}]
  BY <1>2 DEF WriteUser, Moved, TypeInv, SquadsTypeOK
<1> QED BY <1>1, <1>3 DEF WriteUser, TypeInv, SquadsTypeOK, RequestsOK

LEMMA WriteSquadTypeInv ==
  ASSUME TypeInv, NEW r \in SquadRequests, WriteSquad(r)
  PROVE  TypeInv'
<1>1. RequestsOK' /\ TimeLeft'
  BY WriteSquadShape, SameTime DEF WriteSquad
<1>2. request[r].user \in Users /\ request[r].squad \in Names
  BY WriteSquadShape
<1>3. /\ stirred' \subseteq Names /\ member' \in [Users -> Names \cup {None}]
      /\ given' \in [Users -> SUBSET Names]
  BY <1>2 DEF WriteSquad, Moved, TypeInv, SquadsTypeOK
<1> QED BY <1>1, <1>3 DEF WriteSquad, TypeInv, SquadsTypeOK, RequestsOK

LEMMA CarryTypeInv ==
  ASSUME TypeInv, NEW r \in SquadRequests, NEW c \in Collections, Carry(r, c)
  PROVE  TypeInv'
<1>1. RequestsOK' /\ TimeLeft'
  BY CarryShape, SameTime DEF Carry
<1>2. request[r].user \in Users /\ request[r].squad \in Names
  BY CarryShape
<1>3. score' \in [Users -> MemberScore \cup {None}]
  BY <1>2 DEF Carry, TypeInv, SquadsTypeOK, MemberScore
<1>4. attempts' \in [Times -> SquadAttempt \cup {None}]
  BY <1>2 DEF Carry, TypeInv, SquadsTypeOK, SquadAttempt
<1>5. tag' \in [Users -> [{"progress", "publishes"} -> Names \cup {None}]]
  BY <1>2 DEF Carry, TypeInv, SquadsTypeOK
<1> QED BY <1>1, <1>3, <1>4, <1>5 DEF Carry, ghosts, TypeInv, SquadsTypeOK, RequestsOK

LEMMA InsertTypeInv ==
  ASSUME TypeInv, NEW r \in SquadRequests, Insert(r)
  PROVE  TypeInv'
<1>1. /\ clock \in Times /\ clock' = clock + 1 /\ request[r] # None
      /\ request[r].pc = "insert"
  BY InsertShape DEF Insert
<1>2. /\ RequestsOK' /\ IsFiniteSet(Inserting') /\ Cardinality(Inserting') \in Nat
      /\ Cardinality(Inserting') + 1 <= Cardinality(Inserting)
  BY <1>1, InsertShape, QuietMove
<1>3. Cardinality(Inserting) \in Nat /\ Pool \in Nat
      /\ clock + Cardinality(Inserting) <= Pool + 1
  BY FS_CardinalityType, SquadsAssumption DEF TypeInv, TimeLeft
<1>4. TimeLeft' /\ clock' \in 1..(Pool + 1)
  BY <1>1, <1>2, <1>3 DEF TimeLeft, Times
<1>5. attempts' \in [Times -> SquadAttempt \cup {None}]
  BY InsertShape DEF TypeInv, SquadsTypeOK
<1> QED BY <1>2, <1>4, <1>5 DEF Insert, ghosts, TypeInv, SquadsTypeOK, RequestsOK

LEMMA ProceedTypeInv ==
  ASSUME TypeInv, NEW r \in SquadRequests, Proceed(r)
  PROVE  TypeInv'
<1> USE DEF records, ghosts
<1>1. CASE TakeEnrollment(r)
  BY <1>1, TakeEnrollmentShape, SameTime
     DEF TakeEnrollment, TypeInv, SquadsTypeOK, RequestsOK
<1>2. CASE FindSquad(r)
  BY <1>2, FindSquadShape, SameTime DEF FindSquad, TypeInv, SquadsTypeOK, RequestsOK
<1>3. CASE CreateNumbered(r)
  <2>1. RequestsOK' /\ TimeLeft'
    BY <1>3, CreateNumberedShape, SameTime DEF CreateNumbered
  <2>2. squads' \in [Names -> {"absent", "plain", "numbered"}]
    BY <1>3 DEF CreateNumbered, TypeInv, SquadsTypeOK
  <2> QED BY <1>3, <2>1, <2>2 DEF CreateNumbered, TypeInv, SquadsTypeOK, RequestsOK
<1>4. CASE FindProgress(r)
  BY <1>4, FindProgressShape, SameTime DEF FindProgress, TypeInv, SquadsTypeOK, RequestsOK
<1>5. CASE WriteProgress(r)
  <2>1. RequestsOK' /\ TimeLeft'
    BY <1>5, WriteProgressShape, SameTime DEF WriteProgress
  <2>2. progress' \in [Names -> SquadProgress \cup {None}]
    BY <1>5, WriteProgressShape DEF TypeInv, SquadsTypeOK
  <2> QED BY <1>5, <2>1, <2>2 DEF WriteProgress, TypeInv, SquadsTypeOK, RequestsOK
<1>6. CASE EvaluateSquad(r)
  BY <1>6, EvaluateSquadShape, SameTime
     DEF EvaluateSquad, TypeInv, SquadsTypeOK, RequestsOK
<1>7. CASE ListMembers(r)
  BY <1>7, ListMembersShape, SameTime DEF ListMembers, TypeInv, SquadsTypeOK, RequestsOK
<1>8. ASSUME NEW u \in Users, SaveMember(r, u)
      PROVE  TypeInv'
  <2>1. RequestsOK' /\ TimeLeft'
    BY <1>8, SaveMemberShape, SameTime DEF SaveMember
  <2>2. score' \in [Users -> MemberScore \cup {None}]
    <3> DEFINE new == [total |-> request[r].total, max |-> request[r].max,
                       squad |-> request[r].squad]
    <3>1. new \in MemberScore /\ (score' = [score EXCEPT ![u] = new] \/ UNCHANGED score)
      BY <1>8, SaveMemberShape
    <3> HIDE DEF new
    <3> QED BY <3>1 DEF TypeInv, SquadsTypeOK
  <2> QED BY <1>8, <2>1, <2>2 DEF SaveMember, TypeInv, SquadsTypeOK, RequestsOK
<1> QED
  BY <1>1, <1>2, <1>3, <1>4, <1>5, <1>6, <1>7, <1>8, WriteUserTypeInv, WriteSquadTypeInv,
     CarryTypeInv, InsertTypeInv DEF Proceed

LEMMA TypeInvStep ==
  ASSUME TypeInv, [SquadsNext]_squadVars
  PROVE  TypeInv'
<1>1. CASE UNCHANGED squadVars
  BY <1>1 DEF squadVars, records, ghosts, TypeInv, SquadsTypeOK, TimeLeft, Inserting, At
<1>2. ASSUME NEW r \in SquadRequests, Fail(r)
      PROVE  TypeInv'
  <2>1. RequestsOK' /\ TimeLeft'
    <3>1. \E new : Moves(r, new)
      BY <1>2, FailShape
    <3> QED BY <1>2, <3>1, SameTime DEF Fail
  <2>2. failed' \in 0..mix.faults
    BY <1>2, FailShape
  <2> QED BY <1>2, <2>1, <2>2 DEF Fail, records, TypeInv, SquadsTypeOK, RequestsOK
<1>3. ASSUME NEW s \in Names, CreateSquad(s)
      PROVE  TypeInv'
  <2>1. /\ begun' \in 0..mix'.requests /\ failed' \in 0..mix'.faults /\ mix' \in Mixes
        /\ UNCHANGED <<given, failed, mix>>
    BY <1>3, RoomBudget DEF CreateSquad
  <2>2. squads' \in [Names -> {"absent", "plain", "numbered"}]
    BY <1>3 DEF CreateSquad, TypeInv, SquadsTypeOK
  <2>3. TimeLeft'
    BY <1>3 DEF CreateSquad, TypeInv, TimeLeft, Inserting, At
  <2> QED BY <1>3, <2>1, <2>2, <2>3 DEF CreateSquad, TypeInv, SquadsTypeOK
<1>4. ASSUME NEW Q \in SUBSET Questions, Release(Q)
      PROVE  TypeInv'
  <2>1. /\ begun' \in 0..mix'.requests /\ failed' \in 0..mix'.faults /\ mix' \in Mixes
        /\ UNCHANGED <<given, failed, mix>>
    BY <1>4, RoomBudget DEF Release
  <2>2. TimeLeft'
    BY <1>4 DEF Release, TypeInv, TimeLeft, Inserting, At
  <2> QED BY <1>4, <2>1, <2>2 DEF Release, records, TypeInv, SquadsTypeOK
<1> QED
  BY <1>1, <1>2, <1>3, <1>4, BeginTypeInv, ProceedTypeInv DEF SquadsNext

LEMMA TypeInvInit ==
  ASSUME SquadsInit
  PROVE  TypeInv
<1>1. Inserting = {}
  BY DEF SquadsInit, Inserting, At
<1>2. TimeLeft
  BY <1>1, FS_EmptySet, SquadsAssumption DEF TimeLeft, SquadsInit
<1>3. SquadsTypeOK
  BY SquadsAssumption DEF SquadsInit, SquadsTypeOK, Mix
<1> QED BY <1>2, <1>3 DEF TypeInv, SquadsInit

(* Every variable has its type in every reachable state; an answer that a running  *)
(* request is to insert always finds a time.                                       *)
THEOREM SquadsTypeCorrect == SquadsSpec => []SquadsTypeOK
<1>1. SquadsInit => TypeInv
  BY TypeInvInit
<1>2. TypeInv /\ [SquadsNext]_squadVars => TypeInv'
  BY TypeInvStep
<1>3. TypeInv => SquadsTypeOK
  BY DEF TypeInv
<1> QED BY <1>1, <1>2, <1>3, PTL DEF SquadsSpec

-----------------------------------------------------------------------------
(* A launch or a roster sync writes back a squad that its learner was given. *)

SquadGiven(rec) ==
    /\ rec.seen # None => rec.seen \in given[rec.user]
    /\ rec.kind = "answer" \/ rec.pc = "carry" => rec.squad \in given[rec.user]
    /\ rec.kind = "assign" /\ rec.pc = "user" => Exists(rec.squad)

GivenInv ==
    /\ \A u \in Users : \A s \in given[u] : Exists(s)
    /\ \A u \in Users : member[u] # None => member[u] \in given[u]
    /\ \A t \in Times : attempts[t] # None => attempts[t].squad \in given[attempts[t].by]
    /\ \A r \in SquadRequests : request[r] # None => SquadGiven(request[r])

LEMMA GivenKept ==
  ASSUME NEW rec, SquadGiven(rec), NEW new, Keeps(rec, new), new # None,
         new.pc = "carry" => rec.pc = "carry",
         new.kind = "assign" /\ new.pc = "user" => Exists(new.squad) \/ rec.pc = "user"
  PROVE  SquadGiven(new)
  BY DEF SquadGiven, Keeps

LEMMA GivenInvStep ==
  ASSUME TypeInv, GivenInv, [SquadsNext]_squadVars
  PROVE  GivenInv'
<1> USE DEF records, ghosts
(* Only the request changes. *)
<1>1. ASSUME NEW r \in SquadRequests, NEW new, Moves(r, new), new # None => SquadGiven(new),
             UNCHANGED <<member, attempts, squads, given>>
      PROVE  GivenInv'
  BY <1>1 DEF Moves, GivenInv, SquadGiven, Exists, TypeInv, SquadsTypeOK
<1>2. CASE UNCHANGED squadVars
  BY <1>2 DEF squadVars, GivenInv, SquadGiven, Exists
<1>3. ASSUME NEW r \in SquadRequests, NEW u \in Users, BeginRequest(r, u)
      PROVE  GivenInv'
  <2>1. PICK rec : Started(u, rec) /\ Begin(r, rec)
    BY <1>3, BeginShape
  <2>2. /\ request' = [request EXCEPT ![r] = rec]
        /\ UNCHANGED <<member, attempts, squads, given>>
    BY <2>1 DEF Begin, Room
  <2>3. SquadGiven(rec)
    <3>1. /\ rec.user = u /\ rec.seen = member[u]
          /\ rec.kind # "assign" => rec.squad = member[u]
          /\ rec.pc # "carry"
          /\ rec.kind = "assign" => rec.pc # "user"
      BY <2>1 DEF Started
    <3>2. rec.kind = "answer" => member[u] # None
      BY <2>1, <3>1, SquadsAssumption DEF Started, RequestOK
    <3> QED BY <3>1, <3>2 DEF SquadGiven, GivenInv
  <2> QED BY <2>2, <2>3 DEF GivenInv, SquadGiven, Exists, TypeInv, SquadsTypeOK
<1>4. ASSUME NEW r \in SquadRequests, TakeEnrollment(r)
      PROVE  GivenInv'
  <2>1. PICK u \in Users, new \in SquadRequest :
           /\ Moves(r, new) /\ new.kind = "roster" /\ new.pc = "user"
           /\ new.user = u /\ new.seen = member[u]
    BY <1>4, TakeEnrollmentShape
  <2>2. SquadGiven(new)
    BY <2>1 DEF SquadGiven, GivenInv
  <2> QED BY <1>1, <1>4, <2>1, <2>2 DEF TakeEnrollment
(* What was read is written back. *)
<1>5. ASSUME NEW r \in SquadRequests, WriteUser(r)
      PROVE  GivenInv'
  <2> DEFINE rec == request[r]
  <2>1. /\ rec # None /\ rec.user \in Users /\ SquadGiven(rec)
        /\ member' = [member EXCEPT ![rec.user] = rec.seen]
        /\ UNCHANGED <<attempts, squads, given>>
    BY <1>5, WriteUserShape, Running DEF SquadRequest, WriteUser, Upserted, GivenInv
  <2>2. PICK new : /\ Moves(r, new) /\ Keeps(rec, new)
                   /\ new # None => new.kind = "roster" /\ new.pc = "next"
    BY <1>5, WriteUserShape
  <2>3. new # None => SquadGiven(new)
    BY <2>1, <2>2 DEF SquadGiven, Keeps
  <2>4. \A x \in Users : member'[x] # None => member'[x] \in given[x]
    BY <2>1 DEF GivenInv, SquadGiven, TypeInv, SquadsTypeOK
  <2> QED
    BY <2>1, <2>2, <2>3, <2>4 DEF Moves, GivenInv, SquadGiven, Exists, TypeInv, SquadsTypeOK
<1>6. ASSUME NEW r \in SquadRequests, FindSquad(r)
      PROVE  GivenInv'
  <2>1. PICK new : /\ Moves(r, new) /\ Keeps(request[r], new)
                   /\ new # None => \/ new.pc = "create"
                                    \/ new.pc = "user" /\ Exists(new.squad)
    BY <1>6, FindSquadShape
  <2>2. SquadGiven(request[r])
    BY <1>6, FindSquadShape DEF GivenInv
  <2>3. new # None => SquadGiven(new)
    BY <2>1, <2>2, GivenKept
  <2> QED BY <1>1, <1>6, <2>1, <2>3 DEF FindSquad
<1>7. ASSUME NEW r \in SquadRequests, CreateNumbered(r)
      PROVE  GivenInv'
  <2>1. PICK new : /\ Moves(r, new) /\ Keeps(request[r], new)
                   /\ \/ new = None /\ UNCHANGED squads
                      \/ /\ new # None /\ new.pc = "user"
                         /\ squads' = [squads EXCEPT ![new.squad] = "numbered"]
    BY <1>7, CreateNumberedShape
  <2>2. SquadGiven(request[r]) /\ request[r].squad \in Names /\ request[r].kind = "assign"
    BY <1>7, CreateNumberedShape, Running DEF GivenInv, RequestOK
  <2>3. CASE new = None
    BY <1>1, <1>7, <2>1, <2>3 DEF CreateNumbered
  <2>4. CASE new # None
    <3>1. /\ new.squad \in Names /\ squads' = [squads EXCEPT ![new.squad] = "numbered"]
          /\ \A s : s \in DOMAIN squads /\ Exists(s) => Exists(s)'
          /\ Exists(new.squad)'
      BY <2>1, <2>2, <2>4 DEF Keeps, Exists, TypeInv, SquadsTypeOK
    <3>2. SquadGiven(new)'
      BY <1>7, <2>1, <2>2, <2>4, <3>1 DEF SquadGiven, Keeps, CreateNumbered
    <3>3. /\ UNCHANGED <<member, attempts, given>>
          /\ \A u \in Users : given[u] \subseteq DOMAIN squads
      BY <1>7 DEF CreateNumbered, TypeInv, SquadsTypeOK
    <3>4. ASSUME NEW x \in SquadRequests, request'[x] # None
          PROVE  SquadGiven(request[x])'
      <4>1. CASE x = r
        BY <2>1, <3>2, <4>1 DEF Moves, TypeInv, SquadsTypeOK
      <4>2. CASE x # r
        <5>1. request'[x] = request[x]
          BY <2>1, <4>2 DEF Moves, TypeInv, SquadsTypeOK
        <5>2. SquadGiven(request[x]) /\ request[x] # None
          BY <3>4, <5>1 DEF GivenInv
        <5>3. request[x].kind = "assign" => request[x].squad \in DOMAIN squads
          BY <5>2, Running DEF RequestOK, TypeInv, SquadsTypeOK
        <5> QED BY <3>1, <3>3, <5>1, <5>2, <5>3 DEF SquadGiven
      <4> QED BY <4>1, <4>2
    <3> QED BY <3>1, <3>3, <3>4 DEF GivenInv
  <2> QED BY <2>3, <2>4
<1>8. ASSUME NEW r \in SquadRequests, WriteSquad(r)
      PROVE  GivenInv'
  <2> DEFINE rec == request[r]
  <2>1. /\ rec # None /\ rec.kind = "assign" /\ rec.pc = "user"
        /\ rec.squad \in Names /\ rec.user \in Users /\ SquadGiven(rec)
    BY <1>8, WriteSquadShape DEF GivenInv
  <2>2. PICK new : /\ Moves(r, new) /\ Keeps(rec, new)
                   /\ new # None => new.pc = "carry"
    BY <1>8, WriteSquadShape
  <2>3. /\ member' = [member EXCEPT ![rec.user] = rec.squad]
        /\ given' = [given EXCEPT ![rec.user] = @ \cup {rec.squad}]
        /\ UNCHANGED <<squads, attempts>>
    BY <1>8 DEF WriteSquad
  <2> HIDE DEF rec
  <2>4. /\ \A u \in Users : given[u] \subseteq given'[u]
        /\ \A u \in Users : \A s \in given'[u] : s \in given[u] \/ s = rec.squad
        /\ \A u \in Users : member'[u] # None => member'[u] \in given'[u]
        /\ rec.squad \in given'[rec.user]
    BY <2>1, <2>3 DEF GivenInv, TypeInv, SquadsTypeOK
  <2>5. Exists(rec.squad)
    BY <2>1 DEF SquadGiven
  <2>6. ASSUME NEW x \in SquadRequests, request'[x] # None
        PROVE  SquadGiven(request[x])'
    <3>1. CASE x = r
      <4>1. request'[x] = new /\ new # None
        BY <2>2, <2>6, <3>1 DEF Moves, TypeInv, SquadsTypeOK
      <4>2. /\ new.seen = rec.seen /\ new.user = rec.user /\ new.squad = rec.squad
            /\ new.pc = "carry"
        BY <2>2, <4>1 DEF Keeps
      <4> QED BY <2>1, <2>4, <4>1, <4>2 DEF SquadGiven
    <3>2. CASE x # r
      <4>1. request'[x] = request[x]
        BY <2>2, <3>2 DEF Moves, TypeInv, SquadsTypeOK
      <4>2. SquadGiven(request[x]) /\ request[x].user \in Users
        BY <2>6, <4>1, Running DEF GivenInv, SquadRequest
      <4> QED BY <2>3, <2>4, <4>1, <4>2 DEF SquadGiven, Exists
    <3> QED BY <3>1, <3>2
  <2>7. \A t \in Times : attempts'[t] # None => attempts'[t].squad \in given'[attempts'[t].by]
    BY <2>3, <2>4 DEF GivenInv, TypeInv, SquadsTypeOK, SquadAttempt
  <2>8. \A u \in Users : \A s \in given'[u] : Exists(s)'
    BY <2>3, <2>4, <2>5 DEF GivenInv, Exists
  <2> QED BY <2>4, <2>6, <2>7, <2>8 DEF GivenInv
<1>9. ASSUME NEW r \in SquadRequests, NEW c \in Collections, Carry(r, c)
      PROVE  GivenInv'
  <2> DEFINE rec == request[r]
  <2>1. /\ rec # None /\ rec.pc = "carry" /\ rec.squad \in given[rec.user] /\ SquadGiven(rec)
    BY <1>9, CarryShape DEF GivenInv, SquadGiven
  <2>2. PICK new : /\ Moves(r, new) /\ Keeps(rec, new)
                   /\ new # None => new.pc = "carry"
    BY <1>9, CarryShape
  <2>3. new # None => SquadGiven(new)
    BY <2>1, <2>2 DEF SquadGiven, Keeps
  <2>4. UNCHANGED <<member, squads, given>>
    BY <1>9 DEF Carry
  <2>5. \A t \in Times : attempts'[t] # None => attempts'[t].squad \in given[attempts'[t].by]
    <3> HIDE DEF rec
    <3>1. attempts' = [t \in Times |->
                         IF c = "attempts" /\ attempts[t] # None /\ attempts[t].by = rec.user
                         THEN [attempts[t] EXCEPT !.squad = rec.squad] ELSE attempts[t]]
      BY <1>9 DEF Carry, rec
    <3>2. attempts \in [Times -> SquadAttempt \cup {None}]
      BY DEF TypeInv, SquadsTypeOK
    <3> QED BY <2>1, <3>1, <3>2 DEF GivenInv, SquadAttempt
  <2> HIDE DEF rec
  <2> QED BY <2>2, <2>3, <2>4, <2>5
          DEF Moves, GivenInv, SquadGiven, Exists, TypeInv, SquadsTypeOK
<1>10. ASSUME NEW r \in SquadRequests, Insert(r)
       PROVE  GivenInv'
  <2> DEFINE rec == request[r]
  <2>1. /\ rec # None /\ rec.squad \in given[rec.user] /\ SquadGiven(rec) /\ clock \in Times
    BY <1>10, InsertShape DEF GivenInv, SquadGiven
  <2>2. PICK new : Moves(r, new) /\ Keeps(rec, new) /\ new # None /\ new.pc = "find"
    BY <1>10, InsertShape
  <2>3. SquadGiven(new)
    BY <2>1, <2>2 DEF SquadGiven, Keeps
  <2>4. UNCHANGED <<member, squads, given>>
    BY <1>10 DEF Insert
  <2>5. PICK a \in SquadAttempt : /\ a.squad = rec.squad /\ a.by = rec.user
                                  /\ attempts' = [attempts EXCEPT ![clock] = a]
    BY <1>10, InsertShape
  <2> HIDE DEF rec
  <2>6. \A t \in Times : attempts'[t] # None => attempts'[t].squad \in given[attempts'[t].by]
    BY <2>1, <2>5 DEF GivenInv, TypeInv, SquadsTypeOK
  <2> QED BY <2>2, <2>3, <2>4, <2>6
          DEF Moves, GivenInv, SquadGiven, Exists, TypeInv, SquadsTypeOK
(* Steps of the squad's work that leave the squads alone. *)
<1>11. ASSUME NEW r \in SquadRequests, request[r] # None,
              NEW new, Moves(r, new), Keeps(request[r], new),
              new # None => new.pc \notin {"carry", "user"} \/ new.pc = request[r].pc,
              UNCHANGED <<member, attempts, squads, given>>
       PROVE  GivenInv'
  <2>1. SquadGiven(request[r])
    BY <1>11 DEF GivenInv
  <2>2. new # None => SquadGiven(new)
    BY <1>11, <2>1, GivenKept
  <2> QED BY <1>1, <1>11, <2>2
<1>12. ASSUME NEW r \in SquadRequests,
              FindProgress(r) \/ WriteProgress(r) \/ EvaluateSquad(r) \/ ListMembers(r)
       PROVE  GivenInv'
  <2>1. CASE FindProgress(r)
    BY <1>11, <2>1, FindProgressShape DEF FindProgress
  <2>2. CASE WriteProgress(r)
    BY <1>11, <2>2, WriteProgressShape DEF WriteProgress
  <2>3. CASE EvaluateSquad(r)
    BY <1>11, <2>3, EvaluateSquadShape DEF EvaluateSquad
  <2>4. CASE ListMembers(r)
    BY <1>11, <2>4, ListMembersShape DEF ListMembers
  <2> QED BY <1>12, <2>1, <2>2, <2>3, <2>4
<1>13. ASSUME NEW r \in SquadRequests, NEW u \in Users, SaveMember(r, u)
       PROVE  GivenInv'
  BY <1>11, <1>13, SaveMemberShape DEF SaveMember
<1>14. ASSUME NEW r \in SquadRequests, Fail(r)
       PROVE  GivenInv'
  BY <1>11, <1>14, FailShape DEF Fail
<1>15. ASSUME NEW s \in Names, CreateSquad(s)
       PROVE  GivenInv'
  <2>1. /\ \A x \in Names : Exists(x) => Exists(x)'
        /\ UNCHANGED <<member, attempts, given, request>>
    BY <1>15 DEF CreateSquad, Room, Exists, TypeInv, SquadsTypeOK
  <2>2. \A u \in Users : given[u] \subseteq Names
    BY DEF TypeInv, SquadsTypeOK
  <2>3. ASSUME NEW r \in SquadRequests, request'[r] # None
        PROVE  SquadGiven(request[r])'
    <3>1. SquadGiven(request[r]) /\ RequestOK(request[r])
      BY <2>1, <2>3, Running DEF GivenInv
    <3> QED BY <2>1, <3>1 DEF SquadGiven, RequestOK
  <2> QED BY <2>1, <2>2, <2>3 DEF GivenInv
<1>16. ASSUME NEW Q \in SUBSET Questions, Release(Q)
       PROVE  GivenInv'
  BY <1>16 DEF Release, Room, GivenInv, SquadGiven, Exists
<1> QED
  BY <1>2, <1>3, <1>4, <1>5, <1>6, <1>7, <1>8, <1>9, <1>10, <1>12, <1>13, <1>14, <1>15, <1>16
     DEF SquadsNext, Proceed

(* Launches, roster syncs and assignments may overlap in any way and write back what *)
(* they read before: a learner is only ever in a squad that exists and that an       *)
(* assignment gave the learner, and so are the learner's answers. Code: upsertUser    *)
(* writes the squadId it read; assignSquadForAdmin finds or creates the squad first.  *)
THEOREM SquadsAreAssigned == SquadsSpec => []SquadWasAssigned
<1>1. SquadsInit => TypeInv /\ GivenInv
  BY TypeInvInit DEF SquadsInit, GivenInv, Exists
<1>2. TypeInv /\ GivenInv /\ [SquadsNext]_squadVars => TypeInv' /\ GivenInv'
  BY TypeInvStep, GivenInvStep
<1>3. GivenInv => SquadWasAssigned
  BY DEF GivenInv, SquadWasAssigned, Exists
<1> QED BY <1>1, <1>2, <1>3, PTL DEF SquadsSpec

-----------------------------------------------------------------------------
(* Squads that nobody joined or left. A request that knows its learner in another *)
(* squad than the present one has seen both of them change; the work of a learner *)
(* is only moved to a squad that has changed.                                     *)

Still == Names \ stirred

StirredOK(rec) ==
    /\ rec.seen # member[rec.user] => {rec.seen, member[rec.user]} \cap Still = {}
    /\ rec.pc = "carry" => rec.squad \notin Still
    /\ rec.kind = "answer" /\ Still # {} => rec.visible # {} /\ rec.visible \subseteq released

StirredInv ==
    /\ Still # {} => released # {}
    /\ \A r \in SquadRequests : request[r] # None => StirredOK(request[r])

(* An answer of the squad that has yet to evaluate it, or that is to save the *)
(* score of this member.                                                      *)
Notices(rec, u) ==
    /\ rec # None /\ rec.kind = "answer" /\ rec.squad = member[u]
    /\ \/ rec.pc \in {"find", "merge"} /\ rec.status \in {None, "submitted"}
       \/ rec.pc \in {"latest", "members"}
       \/ rec.pc = "save" /\ u \in rec.todo

NoticeInv ==
    failed = 0 =>
       \A u \in Users :
          member[u] \in Still /\ Complete(member[u], released) /\ score[u] = None
             => \E r \in SquadRequests : Notices(request[r], u)

LEMMA MovedOn ==
  ASSUME TypeInv, NEW u \in Users, NEW s \in Names \cup {None},
         member' = [member EXCEPT ![u] = s], stirred' = Moved(u, s)
  PROVE  /\ Still' \subseteq Still
         /\ \A x \in Users : member'[x] # member[x]
               => member[x] \notin Still' /\ member'[x] \notin Still'
<1>1. None \notin Names
  BY SquadsAssumption
<1> QED BY <1>1 DEF Moved, Still, TypeInv, SquadsTypeOK

(* A squad that is still a still one has the members it had, and nothing that they *)
(* may have been shown of the item is locked.                                      *)
LEMMA StillStep ==
  ASSUME TypeInv, [SquadsNext]_squadVars
  PROVE  /\ Still' \subseteq Still
         /\ \A x \in Users : member'[x] # member[x]
               => member[x] \notin Still' /\ member'[x] \notin Still'
         /\ Still' # {} => released \subseteq released'
         /\ failed' = 0 => failed = 0
<1> USE DEF records, ghosts
<1>0. failed \in Nat
  BY SquadsAssumption DEF TypeInv, SquadsTypeOK, Mix
<1>1. CASE UNCHANGED squadVars
  BY <1>1 DEF squadVars, Still
<1>2. ASSUME NEW r \in SquadRequests, NEW u \in Users, BeginRequest(r, u)
      PROVE  UNCHANGED <<member, stirred, released, failed>>
  BY <1>2, BeginShape DEF Begin, Room
<1>3. ASSUME NEW r \in SquadRequests, WriteUser(r)
      PROVE  /\ Still' \subseteq Still /\ UNCHANGED <<released, failed>>
             /\ \A x \in Users : member'[x] # member[x]
                   => member[x] \notin Still' /\ member'[x] \notin Still'
  <2>1. request[r].user \in Users /\ request[r].seen \in Names \cup {None}
    BY <1>3, WriteUserShape, Running DEF SquadRequest
  <2> QED BY <1>3, <2>1, MovedOn DEF WriteUser, Upserted
<1>4. ASSUME NEW r \in SquadRequests, WriteSquad(r)
      PROVE  /\ Still' \subseteq Still /\ UNCHANGED <<released, failed>>
             /\ \A x \in Users : member'[x] # member[x]
                   => member[x] \notin Still' /\ member'[x] \notin Still'
  BY <1>4, WriteSquadShape, MovedOn DEF WriteSquad
<1>5. ASSUME NEW r \in SquadRequests, Proceed(r), ~WriteUser(r), ~WriteSquad(r)
      PROVE  UNCHANGED <<member, stirred, released, failed>>
  BY <1>5 DEF Proceed, TakeEnrollment, FindSquad, CreateNumbered, Carry, Insert,
              FindProgress, WriteProgress, EvaluateSquad, ListMembers, SaveMember
<1>6. ASSUME NEW r \in SquadRequests, Fail(r)
      PROVE  UNCHANGED <<member, stirred, released>> /\ failed' # 0
  BY <1>0, <1>6 DEF Fail
<1>7. ASSUME NEW s \in Names, CreateSquad(s)
      PROVE  UNCHANGED <<member, stirred, released, failed>>
  BY <1>7 DEF CreateSquad, Room
<1>8. ASSUME NEW Q \in SUBSET Questions, Release(Q)
      PROVE  /\ Still' \subseteq Still /\ UNCHANGED <<member, failed>>
             /\ Still' # {} => released \subseteq released'
  BY <1>8 DEF Release, Room, Still
<1> QED
  BY <1>1, <1>2, <1>3, <1>4, <1>5, <1>6, <1>7, <1>8 DEF SquadsNext, Still

LEMMA StirredKept ==
  ASSUME TypeInv, [SquadsNext]_squadVars,
         NEW rec \in SquadRequest, StirredOK(rec),
         NEW new, Keeps(rec, new), new # None,
         new.pc = "carry" => rec.pc = "carry" \/ new.squad \notin Still'
  PROVE  StirredOK(new)'
<1>1. /\ Still' \subseteq Still
      /\ \A x \in Users : member'[x] # member[x]
            => member[x] \notin Still' /\ member'[x] \notin Still'
      /\ Still' # {} => released \subseteq released'
  BY StillStep
<1>2. rec.user \in Users
  BY DEF SquadRequest
<1>3. /\ new.kind = rec.kind /\ new.user = rec.user /\ new.seen = rec.seen
      /\ new.squad = rec.squad /\ new.visible = rec.visible
  BY DEF Keeps
<1>4. rec.seen # member'[rec.user] => {rec.seen, member'[rec.user]} \cap Still' = {}
  <2>1. CASE member'[rec.user] = member[rec.user]
    BY <1>1, <2>1 DEF StirredOK
  <2>2. CASE member'[rec.user] # member[rec.user]
    BY <1>1, <1>2, <2>2 DEF StirredOK
  <2> QED BY <2>1, <2>2
<1>5. new.pc = "carry" => new.squad \notin Still'
  BY <1>1, <1>3 DEF StirredOK
<1>6. new.kind = "answer" /\ Still' # {} => new.visible # {} /\ new.visible \subseteq released'
  BY <1>1, <1>3 DEF StirredOK
<1> QED BY <1>3, <1>4, <1>5, <1>6 DEF StirredOK

LEMMA StirredInvStep ==
  ASSUME TypeInv, StirredInv, [SquadsNext]_squadVars
  PROVE  StirredInv'
<1> USE DEF records, ghosts
<1>1. Still' # {} => released' # {}
  BY StillStep DEF StirredInv
<1>2. ASSUME NEW x \in SquadRequests, request[x] # None, request'[x] = request[x]
      PROVE  StirredOK(request[x])'
  <2>1. PICK rec : rec = request[x]
    OBVIOUS
  <2>2. StirredOK(rec) /\ rec \in SquadRequest /\ Keeps(rec, rec)
    BY <1>2, <2>1, Running DEF StirredInv, Keeps
  <2>3. StirredOK(rec)'
    BY <1>2, <2>1, <2>2, StirredKept
  <2> QED BY <1>2, <2>1, <2>3
<1>3. CASE UNCHANGED request
  BY <1>1, <1>2, <1>3 DEF StirredInv
<1>4. ASSUME NEW r \in SquadRequests, NEW new,
             request' = [request EXCEPT ![r] = new], new # None => StirredOK(new)'
      PROVE  StirredInv'
  <2>1. request'[r] = new /\ \A x \in SquadRequests \ {r} : request'[x] = request[x]
    BY <1>4 DEF TypeInv, SquadsTypeOK
  <2>2. ASSUME NEW x \in SquadRequests, request'[x] # None
        PROVE  StirredOK(request[x])'
    BY <1>2, <1>4, <2>1, <2>2
  <2> QED BY <1>1, <2>2 DEF StirredInv
<1>5. ASSUME NEW r \in SquadRequests, NEW new, request[r] # None,
             Moves(r, new), Keeps(request[r], new),
             new # None /\ new.pc = "carry" => request[r].pc = "carry" \/ new.squad \notin Still'
      PROVE  StirredInv'
  <2>1. StirredOK(request[r]) /\ request[r] \in SquadRequest
    BY <1>5, Running DEF StirredInv
  <2>2. new # None => StirredOK(new)'
    <3>1. PICK rec : rec = request[r]
      OBVIOUS
    <3> QED BY <1>5, <2>1, <3>1, StirredKept
  <2> QED BY <1>4, <1>5, <2>2 DEF Moves
<1>6. ASSUME NEW r \in SquadRequests, NEW u \in Users, BeginRequest(r, u)
      PROVE  StirredInv'
  <2>1. PICK rec : Started(u, rec) /\ Begin(r, rec)
    BY <1>6, BeginShape
  <2>2. /\ UNCHANGED <<member, released, stirred>>
        /\ request' = [request EXCEPT ![r] = rec]
    BY <2>1 DEF Begin
  <2>3. /\ rec.seen = member[rec.user] /\ rec.pc # "carry"
        /\ rec.kind = "answer" => rec.visible = released /\ released # {}
    BY <2>1 DEF Started
  <2>4. StirredOK(rec)'
    BY <2>2, <2>3 DEF StirredOK
  <2> QED BY <1>4, <2>2, <2>4
<1>7. ASSUME NEW r \in SquadRequests, TakeEnrollment(r)
      PROVE  StirredInv'
  <2>1. PICK u \in Users, new \in SquadRequest :
           /\ Moves(r, new) /\ new.kind = "roster" /\ new.pc = "user"
           /\ new.user = u /\ new.seen = member[u]
    BY <1>7, TakeEnrollmentShape
  <2>2. UNCHANGED member
    BY <1>7 DEF TakeEnrollment
  <2>3. StirredOK(new)'
    BY <2>1, <2>2 DEF StirredOK
  <2> QED BY <1>4, <2>1, <2>3 DEF Moves
<1>8. ASSUME NEW r \in SquadRequests, WriteUser(r)
      PROVE  StirredInv'
  <2>1. PICK new : /\ Moves(r, new) /\ Keeps(request[r], new)
                   /\ new # None => new.pc = "next"
    BY <1>8, WriteUserShape
  <2> QED BY <1>5, <1>8, <2>1, WriteUserShape
(* Who is given a squad that is not the one that was read has moved by now, or moves *)
(* with this step.                                                                  *)
<1>9. ASSUME NEW r \in SquadRequests, WriteSquad(r)
      PROVE  StirredInv'
  <2>1. /\ request[r] # None /\ request[r].squad \in Names /\ request[r].user \in Users
        /\ StirredOK(request[r])
    BY <1>9, WriteSquadShape DEF StirredInv
  <2>2. PICK new : /\ Moves(r, new) /\ Keeps(request[r], new)
                   /\ new = None <=> request[r].seen = request[r].squad
    BY <1>9, WriteSquadShape
  <2>3. new # None => new.squad \notin Still'
    <3>1. SUFFICES ASSUME new # None
                   PROVE  new.squad \notin Still'
      OBVIOUS
    <3>2. /\ new.squad = request[r].squad /\ request[r].seen # request[r].squad
          /\ member' = [member EXCEPT ![request[r].user] = request[r].squad]
      BY <1>9, <2>2, <3>1 DEF Keeps, WriteSquad
    <3>3. member'[request[r].user] = request[r].squad
      BY <2>1, <3>2 DEF TypeInv, SquadsTypeOK
    <3>4. CASE member[request[r].user] = request[r].squad
      BY <2>1, <3>2, <3>4, StillStep DEF StirredOK
    <3>5. CASE member[request[r].user] # request[r].squad
      BY <2>1, <3>2, <3>3, <3>5, StillStep
    <3> QED BY <3>4, <3>5
  <2> QED BY <1>5, <2>1, <2>2, <2>3
<1>10. ASSUME NEW r \in SquadRequests, NEW c \in Collections, Carry(r, c)
       PROVE  StirredInv'
  BY <1>5, <1>10, CarryShape
<1>11. ASSUME NEW r \in SquadRequests, NEW u \in Users, SaveMember(r, u)
       PROVE  StirredInv'
  BY <1>5, <1>11, SaveMemberShape
<1>12. ASSUME NEW r \in SquadRequests, Fail(r)
       PROVE  StirredInv'
  BY <1>5, <1>12, FailShape
<1>13. ASSUME NEW r \in SquadRequests, NEW new, request[r] # None,
              Moves(r, new), Keeps(request[r], new), new # None => new.pc # "carry"
       PROVE  StirredInv'
  BY <1>5, <1>13
<1>14. ASSUME NEW r \in SquadRequests,
              \/ FindSquad(r) \/ CreateNumbered(r) \/ Insert(r) \/ FindProgress(r)
              \/ WriteProgress(r) \/ EvaluateSquad(r) \/ ListMembers(r)
       PROVE  StirredInv'
  <2>1. CASE FindSquad(r)
    BY <1>13, <2>1, FindSquadShape
  <2>2. CASE CreateNumbered(r)
    BY <1>13, <2>2, CreateNumberedShape
  <2>3. CASE Insert(r)
    BY <1>13, <2>3, InsertShape
  <2>4. CASE FindProgress(r)
    BY <1>13, <2>4, FindProgressShape
  <2>5. CASE WriteProgress(r)
    BY <1>13, <2>5, WriteProgressShape
  <2>6. CASE EvaluateSquad(r)
    BY <1>13, <2>6, EvaluateSquadShape
  <2>7. CASE ListMembers(r)
    BY <1>13, <2>7, ListMembersShape
  <2> QED BY <1>14, <2>1, <2>2, <2>3, <2>4, <2>5, <2>6, <2>7
<1>15. (UNCHANGED squadVars \/ (\E s \in Names : CreateSquad(s))
           \/ (\E Q \in SUBSET Questions : Release(Q))) => UNCHANGED request
  BY DEF squadVars, CreateSquad, Release
<1> QED
  BY <1>3, <1>6, <1>7, <1>8, <1>9, <1>10, <1>11, <1>12, <1>14, <1>15 DEF SquadsNext, Proceed

-----------------------------------------------------------------------------
(* Who notices. Only an insert adds to the answers of a squad that nobody joins: *)
(* a history is carried to a squad that somebody joined.                        *)

LEMMA AttemptsStep ==
  ASSUME TypeInv, StirredInv, [SquadsNext]_squadVars, NEW s \in Still', NEW q,
         ~ \E r \in SquadRequests : Insert(r) /\ request[r].squad = s
  PROVE  AttemptsOf(s, q)' \subseteq AttemptsOf(s, q)
<1> USE DEF records, ghosts
<1>1. ASSUME UNCHANGED attempts
      PROVE  AttemptsOf(s, q)' \subseteq AttemptsOf(s, q)
  BY <1>1 DEF AttemptsOf
<1>2. CASE UNCHANGED squadVars
  BY <1>1, <1>2 DEF squadVars
<1>3. ASSUME NEW r \in SquadRequests, NEW u \in Users, BeginRequest(r, u)
      PROVE  UNCHANGED attempts
  BY <1>3, BeginShape DEF Begin
<1>4. ASSUME NEW r \in SquadRequests, NEW c \in Collections, Carry(r, c)
      PROVE  AttemptsOf(s, q)' \subseteq AttemptsOf(s, q)
  <2> DEFINE rec == request[r]
  <2>1. rec # None /\ rec.pc = "carry"
    BY <1>4, CarryShape
  <2>2. rec.squad \notin Still
    BY <2>1 DEF StirredInv, StirredOK
  <2>3. rec.squad # s
    BY <2>2, StillStep
  <2>4. attempts' = [t \in Times |->
                       IF c = "attempts" /\ attempts[t] # None /\ attempts[t].by = rec.user
                       THEN [attempts[t] EXCEPT !.squad = rec.squad] ELSE attempts[t]]
    BY <1>4 DEF Carry
  <2>5. attempts \in [Times -> SquadAttempt \cup {None}]
    BY DEF TypeInv, SquadsTypeOK
  <2> HIDE DEF rec
  <2> QED BY <2>3, <2>4, <2>5 DEF AttemptsOf, SquadAttempt
<1>5. ASSUME NEW r \in SquadRequests, Insert(r)
      PROVE  AttemptsOf(s, q)' \subseteq AttemptsOf(s, q)
  <2>1. request[r].squad # s
    BY <1>5
  <2>2. \E a \in SquadAttempt : /\ a.squad = request[r].squad
                                /\ attempts' = [attempts EXCEPT ![clock] = a]
    BY <1>5, InsertShape
  <2> QED BY <2>1, <2>2 DEF AttemptsOf, TypeInv, SquadsTypeOK
<1>6. ASSUME NEW r \in SquadRequests, Proceed(r),
             ~Insert(r), ~ \E c \in Collections : Carry(r, c)
      PROVE  UNCHANGED attempts
  BY <1>6 DEF Proceed, TakeEnrollment, WriteUser, FindSquad, CreateNumbered, WriteSquad,
              FindProgress, WriteProgress, EvaluateSquad, ListMembers, SaveMember
<1>7. ASSUME NEW r \in SquadRequests, Fail(r)
      PROVE  UNCHANGED attempts
  BY <1>7 DEF Fail
<1>8. (\E z \in Names : CreateSquad(z)) \/ (\E Q \in SUBSET Questions : Release(Q))
         => UNCHANGED attempts
  BY DEF CreateSquad, Release
<1> QED
  BY <1>1, <1>2, <1>3, <1>4, <1>5, <1>6, <1>7, <1>8 DEF SquadsNext

LEMMA CompleteStep ==
  ASSUME TypeInv, StirredInv, [SquadsNext]_squadVars, NEW s \in Still',
         Complete(s, released)',
         ~ \E r \in SquadRequests : Insert(r) /\ request[r].squad = s
  PROVE  Complete(s, released)
<1>1. \A q \in released' : AttemptsOf(s, q)' # {} /\ AttemptsOf(s, q) # {}
  BY AttemptsStep DEF Complete, Answered
<1>2. released # {} /\ released \subseteq released' /\ released \subseteq Questions
  BY StillStep DEF StirredInv, TypeInv, SquadsTypeOK
<1> QED BY <1>1, <1>2 DEF Complete, Answered

(* Neither a score nor the progress of a squad is ever taken back. *)
LEMMA RecordsStay ==
  ASSUME TypeInv, [SquadsNext]_squadVars
  PROVE  /\ \A u \in Users : score[u] # None => score'[u] # None
         /\ \A s \in Names : progress[s] # None => progress'[s] # None
<1> USE DEF records, ghosts
<1>1. CASE UNCHANGED squadVars
  BY <1>1 DEF squadVars
<1>2. ASSUME NEW r \in SquadRequests, NEW u \in Users, BeginRequest(r, u)
      PROVE  UNCHANGED <<score, progress>>
  BY <1>2, BeginShape DEF Begin
<1>3. ASSUME NEW r \in SquadRequests, NEW c \in Collections, Carry(r, c)
      PROVE  UNCHANGED progress /\ \A u \in Users : score[u] # None => score'[u] # None
  <2>1. UNCHANGED progress /\ request[r].user \in Users /\ request[r].squad \in Names
    BY <1>3, CarryShape DEF Carry
  <2>2. \/ UNCHANGED score
        \/ /\ score[request[r].user] # None
           /\ score' = [score EXCEPT ![request[r].user].squad = request[r].squad]
    BY <1>3 DEF Carry
  <2>3. [score[request[r].user] EXCEPT !.squad = request[r].squad] # None
           \/ score[request[r].user] = None
    BY <2>1, SquadsAssumption DEF MemberScore, TypeInv, SquadsTypeOK
  <2> QED BY <2>1, <2>2, <2>3 DEF TypeInv, SquadsTypeOK
<1>4. ASSUME NEW r \in SquadRequests, NEW u \in Users, SaveMember(r, u)
      PROVE  UNCHANGED progress /\ \A x \in Users : score[x] # None => score'[x] # None
  <2> DEFINE new == [total |-> request[r].total, max |-> request[r].max,
                     squad |-> request[r].squad]
  <2>1. /\ new \in MemberScore
        /\ score' = [score EXCEPT ![u] = new] \/ UNCHANGED score
    BY <1>4, SaveMemberShape
  <2>2. new # None
    BY <2>1, SquadsAssumption
  <2> HIDE DEF new
  <2> QED BY <1>4, <2>1, <2>2 DEF SaveMember, TypeInv, SquadsTypeOK
<1>5. ASSUME NEW r \in SquadRequests, WriteProgress(r)
      PROVE  UNCHANGED score /\ \A s \in Names : progress[s] # None => progress'[s] # None
  <2>1. /\ MergedProgress(request[r]) # None
        /\ \/ progress' = [progress EXCEPT ![request[r].squad] = MergedProgress(request[r])]
           \/ UNCHANGED progress
    BY <1>5, WriteProgressShape, SquadsAssumption
  <2> QED BY <1>5, <2>1 DEF WriteProgress, TypeInv, SquadsTypeOK
<1>6. ASSUME NEW r \in SquadRequests, Proceed(r), ~WriteProgress(r),
             ~ \E u \in Users : SaveMember(r, u), ~ \E c \in Collections : Carry(r, c)
      PROVE  UNCHANGED <<score, progress>>
  BY <1>6 DEF Proceed, TakeEnrollment, WriteUser, FindSquad, CreateNumbered, WriteSquad,
              Insert, FindProgress, EvaluateSquad, ListMembers
<1>7. ASSUME NEW r \in SquadRequests, Fail(r)
      PROVE  UNCHANGED <<score, progress>>
  BY <1>7 DEF Fail
<1>8. (\E z \in Names : CreateSquad(z)) \/ (\E Q \in SUBSET Questions : Release(Q))
         => UNCHANGED <<score, progress>>
  BY DEF CreateSquad, Release
<1> QED
  BY <1>1, <1>2, <1>3, <1>4, <1>5, <1>6, <1>7, <1>8 DEF SquadsNext

(* The request of another step is not affected. *)
LEMMA OtherRequest ==
  ASSUME TypeInv, [SquadsNext]_squadVars, NEW r \in SquadRequests, request[r] # None,
         ~Proceed(r), ~Fail(r)
  PROVE  request'[r] = request[r]
<1>1. ASSUME NEW x \in SquadRequests, NEW v \in Users, BeginRequest(x, v)
      PROVE  request'[r] = request[r]
  BY <1>1, BeginShape DEF Begin, TypeInv, SquadsTypeOK
<1>2. ASSUME NEW x \in SquadRequests, x # r, Proceed(x) \/ Fail(x)
      PROVE  request'[r] = request[r]
  <2>1. \E z : request' = [request EXCEPT ![x] = z]
    <3>1. CASE TakeEnrollment(x) \/ WriteUser(x) \/ FindSquad(x) \/ CreateNumbered(x)
      BY <3>1, TakeEnrollmentShape, WriteUserShape, FindSquadShape, CreateNumberedShape
         DEF Moves
    <3>2. CASE WriteSquad(x) \/ Insert(x) \/ FindProgress(x)
      BY <3>2, WriteSquadShape, InsertShape, FindProgressShape DEF Moves
    <3>3. CASE WriteProgress(x) \/ EvaluateSquad(x) \/ ListMembers(x)
      BY <3>3, WriteProgressShape, EvaluateSquadShape, ListMembersShape DEF Moves
    <3>4. ASSUME NEW c \in Collections, Carry(x, c)
          PROVE  \E z : request' = [request EXCEPT ![x] = z]
      BY <3>4, CarryShape DEF Moves
    <3>5. ASSUME NEW v \in Users, SaveMember(x, v)
          PROVE  \E z : request' = [request EXCEPT ![x] = z]
      BY <3>5 DEF SaveMember
    <3>6. CASE Fail(x)
      BY <3>6, FailShape DEF Moves
    <3> QED BY <1>2, <3>1, <3>2, <3>3, <3>4, <3>5, <3>6 DEF Proceed
  <2> QED BY <1>2, <2>1 DEF TypeInv, SquadsTypeOK
<1>3. (UNCHANGED squadVars \/ (\E s \in Names : CreateSquad(s))
          \/ (\E Q \in SUBSET Questions : Release(Q))) => request'[r] = request[r]
  BY DEF squadVars, CreateSquad, Release
<1> QED BY <1>1, <1>2, <1>3 DEF SquadsNext

(* A request that notices goes on doing so until the member has a score. *)
LEMMA NoticesStay ==
  ASSUME TypeInv, StirredInv, [SquadsNext]_squadVars, failed' = 0,
         NEW u \in Users, member[u] \in Still', member'[u] = member[u],
         Complete(member[u], released), score'[u] = None,
         NEW r \in SquadRequests, Notices(request[r], u)
  PROVE  Notices(request[r], u)'
<1> DEFINE rec == request[r]
<1> USE DEF records, ghosts
<1>1. /\ rec # None /\ rec \in SquadRequest /\ RequestOK(rec) /\ rec.kind = "answer"
      /\ rec.squad = member[u] /\ StirredOK(rec) /\ failed = 0
  BY Running, StillStep DEF Notices, StirredInv
<1>2. ASSUME request'[r] = request[r]
      PROVE  Notices(request[r], u)'
  BY <1>2 DEF Notices
<1>3. ASSUME NEW new, new # None, Keeps(rec, new), request'[r] = new,
             \/ new.pc \in {"find", "merge"} /\ new.status \in {None, "submitted"}
             \/ new.pc \in {"latest", "members"}
             \/ new.pc = "save" /\ u \in new.todo
      PROVE  Notices(request[r], u)'
  BY <1>1, <1>3 DEF Notices, Keeps
<1>4. ASSUME ~Proceed(r), ~Fail(r)
      PROVE  request'[r] = request[r]
  BY <1>1, <1>4, OtherRequest
<1>5. CASE FindProgress(r)
  <2>1. PICK new : /\ Moves(r, new) /\ Keeps(rec, new) /\ new # None /\ new.pc = "merge"
                   /\ new.status = rec.status
    BY <1>5, FindProgressShape
  <2>2. rec.pc = "find"
    BY <1>5, FindProgressShape
  <2>3. new.status \in {None, "submitted"} /\ request'[r] = new
    BY <2>1, <2>2 DEF Notices, Moves, TypeInv, SquadsTypeOK
  <2> QED BY <1>3, <2>1, <2>3
<1>6. CASE WriteProgress(r)
  <2>1. PICK new : /\ Moves(r, new) /\ Keeps(rec, new)
                   /\ rec.kind = "answer" /\ rec.status = "submitted"
                         => new # None /\ new.pc = "members"
                   /\ rec.kind = "answer" /\ rec.status = None
                         => new # None /\ new.pc = "latest"
    BY <1>6, WriteProgressShape
  <2>2. rec.pc = "merge" /\ rec.status \in {None, "submitted"}
    BY <1>6, WriteProgressShape DEF Notices
  <2>3. request'[r] = new
    BY <2>1 DEF Moves, TypeInv, SquadsTypeOK
  <2> QED BY <1>1, <1>3, <2>1, <2>2, <2>3
<1>7. CASE EvaluateSquad(r)
  <2>1. PICK new : /\ Moves(r, new) /\ Keeps(rec, new)
                   /\ Complete(rec.squad, rec.visible) => new # None
                   /\ new # None => new.pc = "find" /\ new.status = "submitted"
    BY <1>7, EvaluateSquadShape
  <2>2. rec.visible # {} /\ rec.visible \subseteq released
    BY <1>1, StillStep DEF StirredOK
  <2>3. Complete(rec.squad, rec.visible)
    BY <1>1, <2>2 DEF Complete
  <2>4. request'[r] = new
    BY <2>1 DEF Moves, TypeInv, SquadsTypeOK
  <2> QED BY <1>3, <2>1, <2>3, <2>4
<1>8. CASE ListMembers(r)
  <2>1. PICK new : /\ Moves(r, new) /\ Keeps(rec, new)
                   /\ new = None <=> Members(rec) = {}
                   /\ new # None => new.pc = "save" /\ new.todo = Members(rec)
    BY <1>8, ListMembersShape
  <2>2. u \in Members(rec)
    BY <1>1 DEF Members
  <2>3. request'[r] = new
    BY <2>1 DEF Moves, TypeInv, SquadsTypeOK
  <2> QED BY <1>3, <2>1, <2>2, <2>3
<1>9. ASSUME NEW v \in Users, SaveMember(r, v)
       PROVE  Notices(request[r], u)'
  <2>1. PICK new : /\ Moves(r, new) /\ Keeps(rec, new)
                   /\ new = None <=> rec.todo = {v}
                   /\ new # None => /\ new.pc = "save" /\ new.todo = rec.todo \ {v}
                                    /\ new.total = rec.total /\ new.max = rec.max
    BY <1>9, SaveMemberShape
  <2>2. u \in rec.todo
    BY <1>9, SaveMemberShape DEF Notices
  <2>3. v # u
    <3> DEFINE saved == [total |-> rec.total, max |-> rec.max, squad |-> rec.squad]
    <3>1. /\ saved \in MemberScore
          /\ score' = [score EXCEPT ![v] = saved] \/ (UNCHANGED score /\ score[v] # None)
      BY <1>9, SaveMemberShape
    <3>2. saved # None
      BY <3>1, SquadsAssumption
    <3> HIDE DEF saved
    <3> QED BY <3>1, <3>2 DEF TypeInv, SquadsTypeOK
  <2>4. request'[r] = new
    BY <2>1 DEF Moves, TypeInv, SquadsTypeOK
  <2> QED BY <1>3, <2>1, <2>2, <2>3, <2>4
<1>10. ~Fail(r)
  BY FailShape
<1>11. /\ ~TakeEnrollment(r) /\ ~WriteUser(r) /\ ~FindSquad(r) /\ ~CreateNumbered(r)
       /\ ~WriteSquad(r) /\ ~ \E c \in Collections : Carry(r, c)
  <2>1. ~TakeEnrollment(r)
    BY <1>1 DEF TakeEnrollment, At, RequestOK
  <2> QED
    BY <1>1, <2>1, WriteUserShape, FindSquadShape, CreateNumberedShape, WriteSquadShape,
       CarryShape
<1>12. ~Insert(r)
  BY InsertShape DEF Notices
<1> QED
  BY <1>2, <1>4, <1>5, <1>6, <1>7, <1>8, <1>9, <1>10, <1>11, <1>12 DEF Proceed

LEMMA NoticeInvStep ==
  ASSUME TypeInv, StirredInv, NoticeInv, [SquadsNext]_squadVars
  PROVE  NoticeInv'
<1> SUFFICES ASSUME failed' = 0, NEW u \in Users, member'[u] \in Still',
                    Complete(member[u], released)', score'[u] = None
             PROVE  \E r \in SquadRequests : Notices(request[r], u)'
  BY DEF NoticeInv
<1>1. /\ failed = 0 /\ member'[u] = member[u] /\ member[u] \in Still /\ member[u] \in Still'
      /\ score[u] = None
  BY StillStep, RecordsStay
<1>2. CASE \E r \in SquadRequests : Insert(r) /\ request[r].squad = member[u]
  <2>1. PICK r \in SquadRequests : Insert(r) /\ request[r].squad = member[u]
    BY <1>2
  <2>2. PICK new : /\ Moves(r, new) /\ Keeps(request[r], new)
                   /\ new # None /\ new.pc = "find" /\ new.status = None
    BY <2>1, InsertShape
  <2>3. request[r].kind = "answer" /\ request'[r] = new
    BY <2>1, <2>2, InsertShape DEF Moves, TypeInv, SquadsTypeOK
  <2> QED BY <1>1, <2>1, <2>2, <2>3 DEF Notices, Keeps
<1>3. CASE ~ \E r \in SquadRequests : Insert(r) /\ request[r].squad = member[u]
  <2>1. PICK s : s = member[u]
    OBVIOUS
  <2>2. Complete(s, released)'
    BY <1>1, <2>1
  <2>3. Complete(s, released)
    BY <1>1, <1>3, <2>1, <2>2, CompleteStep
  <2>4. PICK r \in SquadRequests : Notices(request[r], u)
    BY <1>1, <2>1, <2>3 DEF NoticeInv
  <2>5. Notices(request[r], u)'
    BY <1>1, <2>1, <2>3, <2>4, NoticesStay
  <2> QED BY <2>5
<1> QED BY <1>2, <1>3

(* Whichever members answer at the same time, the last one to answer notices that    *)
(* the squad is complete, and saves every member's score: once nothing runs any      *)
(* more and no call failed, each member of a squad that nobody joined or left and    *)
(* that has answered all released questions has one. Code: submitQuestionAttempt is  *)
(* followed by finalizeCompletedQuestionContent, which reads all attempts again.     *)
THEOREM CompletedSquadsAreScored == SquadsSpec => []SquadCompleteIsScored
<1>1. SquadsInit => TypeInv /\ StirredInv /\ NoticeInv
  <2> SUFFICES ASSUME SquadsInit
               PROVE  TypeInv /\ StirredInv /\ NoticeInv
    OBVIOUS
  <2>1. StirredInv
    BY DEF SquadsInit, StirredInv
  <2>2. \A s : Answered(s) = {}
    BY DEF SquadsInit, Answered, AttemptsOf
  <2>3. \A s : ~Complete(s, released)
    BY <2>2 DEF Complete
  <2> QED BY <2>1, <2>3, TypeInvInit DEF NoticeInv
<1>2. TypeInv /\ StirredInv /\ NoticeInv /\ [SquadsNext]_squadVars
         => TypeInv' /\ StirredInv' /\ NoticeInv'
  BY TypeInvStep, StirredInvStep, NoticeInvStep
<1>3. TypeInv /\ NoticeInv => SquadCompleteIsScored
  BY DEF NoticeInv, Notices, SquadCompleteIsScored, AtRest, Still, TypeInv, SquadsTypeOK
<1> QED BY <1>1, <1>2, <1>3, PTL DEF SquadsSpec

-----------------------------------------------------------------------------
(* Answers in view.                                                        *)

FoundInv ==
    \A r \in SquadRequests :
       request[r] # None /\ request[r].pc = "merge" /\ request[r].found # None
          => progress[request[r].squad] # None

LEMMA FoundInvStep ==
  ASSUME TypeInv, FoundInv, [SquadsNext]_squadVars
  PROVE  FoundInv'
<1> USE DEF records, ghosts
<1>1. ASSUME NEW x \in SquadRequests, request'[x] = request[x]
      PROVE  request'[x] # None /\ request'[x].pc = "merge" /\ request'[x].found # None
                => progress'[request'[x].squad] # None
  <2>1. request[x] # None /\ request[x].pc = "merge" => request[x].squad \in Names
    BY Running DEF RequestOK
  <2> QED BY <1>1, <2>1, RecordsStay DEF FoundInv
<1>2. (UNCHANGED squadVars \/ (\E s \in Names : CreateSquad(s))
          \/ (\E Q \in SUBSET Questions : Release(Q))) => UNCHANGED request
  BY DEF squadVars, CreateSquad, Release
<1>3. CASE UNCHANGED request
  BY <1>1, <1>3 DEF FoundInv
<1>4. ASSUME NEW r \in SquadRequests, NEW new, request' = [request EXCEPT ![r] = new],
             new # None /\ new.pc = "merge" /\ new.found # None => progress'[new.squad] # None
      PROVE  FoundInv'
  <2>1. request'[r] = new /\ \A x \in SquadRequests \ {r} : request'[x] = request[x]
    BY <1>4 DEF TypeInv, SquadsTypeOK
  <2> QED BY <1>1, <1>4, <2>1 DEF FoundInv
<1>5. ASSUME NEW r \in SquadRequests, NEW u \in Users, BeginRequest(r, u)
      PROVE  FoundInv'
  <2>1. PICK rec : Started(u, rec) /\ Begin(r, rec)
    BY <1>5, BeginShape
  <2> QED BY <1>4, <2>1 DEF Begin, Started
<1>6. ASSUME NEW r \in SquadRequests, NEW new, Moves(r, new), new # None => new.pc # "merge"
      PROVE  FoundInv'
  BY <1>4, <1>6 DEF Moves
<1>7. ASSUME NEW r \in SquadRequests, FindProgress(r)
      PROVE  FoundInv'
  <2>1. PICK new : /\ Moves(r, new) /\ Keeps(request[r], new)
                   /\ new # None /\ new.pc = "merge" /\ new.status = request[r].status
                   /\ new.found = progress[request[r].squad]
    BY <1>7, FindProgressShape
  <2>2. UNCHANGED progress
    BY <1>7 DEF FindProgress
  <2> QED BY <1>4, <2>1, <2>2 DEF Moves, Keeps
<1>8. ASSUME NEW r \in SquadRequests, TakeEnrollment(r)
      PROVE  FoundInv'
  <2>1. PICK u \in Users, new \in SquadRequest :
           /\ Moves(r, new) /\ new.kind = "roster" /\ new.pc = "user"
           /\ new.user = u /\ new.seen = member[u]
    BY <1>8, TakeEnrollmentShape
  <2> QED BY <1>6, <2>1
<1>9. ASSUME NEW r \in SquadRequests,
             \/ WriteUser(r) \/ FindSquad(r) \/ CreateNumbered(r) \/ WriteSquad(r)
      PROVE  FoundInv'
  <2>1. CASE WriteUser(r)
    BY <1>6, <2>1, WriteUserShape
  <2>2. CASE FindSquad(r)
    BY <1>6, <2>2, FindSquadShape
  <2>3. CASE CreateNumbered(r)
    BY <1>6, <2>3, CreateNumberedShape
  <2>4. CASE WriteSquad(r)
    BY <1>6, <2>4, WriteSquadShape
  <2> QED BY <1>9, <2>1, <2>2, <2>3, <2>4
<1>10. ASSUME NEW r \in SquadRequests,
              Insert(r) \/ WriteProgress(r) \/ EvaluateSquad(r) \/ ListMembers(r) \/ Fail(r)
       PROVE  FoundInv'
  <2>1. CASE Insert(r)
    BY <1>6, <2>1, InsertShape
  <2>2. CASE WriteProgress(r)
    BY <1>6, <2>2, WriteProgressShape
  <2>3. CASE EvaluateSquad(r)
    BY <1>6, <2>3, EvaluateSquadShape
  <2>4. CASE ListMembers(r)
    BY <1>6, <2>4, ListMembersShape
  <2>5. CASE Fail(r)
    BY <1>6, <2>5, FailShape
  <2> QED BY <1>10, <2>1, <2>2, <2>3, <2>4, <2>5
<1>11. ASSUME NEW r \in SquadRequests, NEW c \in Collections, Carry(r, c)
       PROVE  FoundInv'
  BY <1>6, <1>11, CarryShape
<1>12. ASSUME NEW r \in SquadRequests, NEW u \in Users, SaveMember(r, u)
       PROVE  FoundInv'
  BY <1>6, <1>12, SaveMemberShape
<1> QED
  BY <1>2, <1>3, <1>5, <1>7, <1>8, <1>9, <1>10, <1>11, <1>12 DEF SquadsNext, Proceed

(* An answer of the squad that has yet to write the progress. *)
Shows(rec, s) ==
    rec # None /\ rec.kind = "answer" /\ rec.squad = s /\ rec.pc \in {"find", "merge"}

(* There is a record to hydrate for the answers of a squad, or there will be one. *)
ShownInv ==
    failed = 0 =>
       \A s \in Still : Answered(s) # {} /\ progress[s] = None
          => \E r \in SquadRequests : Shows(request[r], s)

(* A request that shows goes on doing so until the squad has its progress. *)
LEMMA ShowsStay ==
  ASSUME TypeInv, FoundInv, [SquadsNext]_squadVars, failed' = 0,
         NEW s \in Names, progress'[s] = None,
         NEW r \in SquadRequests, Shows(request[r], s)
  PROVE  Shows(request[r], s)'
<1> DEFINE rec == request[r]
<1>1. /\ rec # None /\ RequestOK(rec) /\ rec.kind = "answer" /\ rec.squad = s
      /\ rec.pc \in {"find", "merge"} /\ progress[s] = None
  BY Running, RecordsStay DEF Shows
<1>2. ASSUME ~Proceed(r)
      PROVE  Shows(request[r], s)'
  <2>1. ~Fail(r)
    BY FailShape
  <2> QED BY <1>1, <1>2, <2>1, OtherRequest DEF Shows
<1>3. CASE FindProgress(r)
  <2>1. PICK new : /\ Moves(r, new) /\ Keeps(rec, new) /\ new # None /\ new.pc = "merge"
                   /\ new.status = rec.status
    BY <1>3, FindProgressShape
  <2>2. request'[r] = new
    BY <2>1 DEF Moves, TypeInv, SquadsTypeOK
  <2> QED BY <1>1, <2>1, <2>2 DEF Shows, Keeps
<1>4. ~WriteProgress(r)
  <2>1. SUFFICES ASSUME WriteProgress(r)
                 PROVE  FALSE
    OBVIOUS
  <2>2. /\ MergedProgress(rec) \in SquadProgress /\ rec.pc = "merge"
        /\ \/ progress' = [progress EXCEPT ![s] = MergedProgress(rec)]
           \/ rec.found # None /\ UNCHANGED progress
    BY <1>1, <2>1, WriteProgressShape
  <2>3. MergedProgress(rec) # None
    BY <2>2, SquadsAssumption
  <2>4. rec.found = None
    BY <1>1, <2>2 DEF FoundInv
  <2> HIDE DEF rec
  <2> QED BY <2>2, <2>3, <2>4 DEF TypeInv, SquadsTypeOK
<1>5. /\ ~TakeEnrollment(r) /\ ~Insert(r) /\ ~EvaluateSquad(r) /\ ~ListMembers(r)
      /\ ~WriteUser(r) /\ ~FindSquad(r) /\ ~CreateNumbered(r) /\ ~WriteSquad(r)
  BY <1>1 DEF TakeEnrollment, Insert, EvaluateSquad, ListMembers, WriteUser, FindSquad,
              CreateNumbered, WriteSquad, At
<1>6. (\A c \in Collections : ~Carry(r, c)) /\ (\A u \in Users : ~SaveMember(r, u))
  BY <1>1 DEF Carry, SaveMember, At
<1> QED BY <1>2, <1>3, <1>4, <1>5, <1>6 DEF Proceed

LEMMA ShownInvStep ==
  ASSUME TypeInv, StirredInv, FoundInv, ShownInv, [SquadsNext]_squadVars
  PROVE  ShownInv'
<1> SUFFICES ASSUME failed' = 0, NEW s \in Still', Answered(s)' # {}, progress'[s] = None
             PROVE  \E r \in SquadRequests : Shows(request[r], s)'
  BY DEF ShownInv
<1>1. failed = 0 /\ s \in Still /\ s \in Names /\ progress[s] = None
  BY StillStep, RecordsStay DEF Still
<1>2. CASE \E r \in SquadRequests : Insert(r) /\ request[r].squad = s
  <2>1. PICK r \in SquadRequests : Insert(r) /\ request[r].squad = s
    BY <1>2
  <2>2. PICK new : /\ Moves(r, new) /\ Keeps(request[r], new)
                   /\ new # None /\ new.pc = "find" /\ new.status = None
    BY <2>1, InsertShape
  <2>3. request[r].kind = "answer" /\ request'[r] = new
    BY <2>1, <2>2, InsertShape DEF Moves, TypeInv, SquadsTypeOK
  <2> QED BY <1>1, <2>1, <2>2, <2>3 DEF Shows, Keeps
<1>3. CASE ~ \E r \in SquadRequests : Insert(r) /\ request[r].squad = s
  <2>1. PICK q \in Questions : AttemptsOf(s, q)' # {}
    BY DEF Answered
  <2>2. AttemptsOf(s, q)' \subseteq AttemptsOf(s, q)
    BY <1>3, AttemptsStep
  <2>3. Answered(s) # {}
    BY <2>1, <2>2 DEF Answered
  <2>4. PICK r \in SquadRequests : Shows(request[r], s)
    BY <1>1, <2>3 DEF ShownInv
  <2>5. Shows(request[r], s)'
    BY <1>1, <2>4, ShowsStay
  <2> QED BY <2>5
<1> QED BY <1>2, <1>3

(* Saves that overwrite each other's answers lose none of those given as attempts:    *)
(* once nothing runs any more and no call failed, what a squad that nobody joined or  *)
(* left has answered is in its members' view. Code: every attempt is followed by a    *)
(* save of the progress, which hydrateSquadProgressFromAttempts completes when read.  *)
THEOREM AnswersAreShown == SquadsSpec => []AnswersShown
<1>1. SquadsInit => TypeInv /\ StirredInv /\ FoundInv /\ ShownInv
  BY TypeInvInit DEF SquadsInit, StirredInv, FoundInv, ShownInv, Answered, AttemptsOf
<1>2. TypeInv /\ StirredInv /\ FoundInv /\ ShownInv /\ [SquadsNext]_squadVars
         => TypeInv' /\ StirredInv' /\ FoundInv' /\ ShownInv'
  BY TypeInvStep, StirredInvStep, FoundInvStep, ShownInvStep
<1>3. ShownInv => AnswersShown
  BY DEF ShownInv, Shows, AnswersShown, AtRest, Still, ViewedAnswers
<1> QED BY <1>1, <1>2, <1>3, PTL DEF SquadsSpec

-----------------------------------------------------------------------------
(* One request at a time.                                                  *)

Alone ==
    \A r, x \in SquadRequests : request[r] # None /\ request[x] # None => r = x

(* What a request holds is still what the records say. *)
SerialOK(rec) ==
    /\ rec.pc # "carry" => rec.seen = member[rec.user]
    /\ rec.kind \notin {"roster", "assign"} => rec.squad = member[rec.user]
    /\ rec.pc = "carry" => rec.squad = member[rec.user]
    /\ rec.pc = "save" => rec.todo \subseteq Members(rec)

SerialInv ==
    ~mix.overlap =>
       Alone /\ \A r \in SquadRequests : request[r] # None => SerialOK(request[r])

LEMMA MixStays ==
  ASSUME [SquadsNext]_squadVars
  PROVE  mix' = mix
<1>1. ASSUME NEW r \in SquadRequests, NEW u \in Users, BeginRequest(r, u)
      PROVE  mix' = mix
  BY <1>1 DEF BeginRequest, Launch, SyncRoster, Assign, Answer, Save, SubmitScore, Begin, Room
<1>2. ASSUME NEW r \in SquadRequests, Proceed(r) \/ Fail(r)
      PROVE  mix' = mix
  BY <1>2 DEF ghosts, Proceed, TakeEnrollment, WriteUser, FindSquad, CreateNumbered,
              WriteSquad, Carry, Insert, FindProgress, WriteProgress, EvaluateSquad,
              ListMembers, SaveMember, Fail
<1>3. (\E s \in Names : CreateSquad(s)) \/ (\E Q \in SUBSET Questions : Release(Q))
         => mix' = mix
  BY DEF CreateSquad, Release, Room
<1> QED BY <1>1, <1>2, <1>3 DEF SquadsNext, squadVars, ghosts

LEMMA SerialInvStep ==
  ASSUME TypeInv, SerialInv, [SquadsNext]_squadVars
  PROVE  SerialInv'
<1> USE DEF records, ghosts
<1> SUFFICES ASSUME ~mix.overlap
             PROVE  SerialInv'
  BY MixStays DEF SerialInv
<1>0. Alone /\ \A r \in SquadRequests : request[r] # None => SerialOK(request[r])
  BY DEF SerialInv
<1>1. CASE UNCHANGED squadVars
  BY <1>0, <1>1 DEF squadVars, SerialInv, Alone, SerialOK, Members
<1>2. ASSUME NEW r \in SquadRequests, NEW new,
             \A x \in SquadRequests \ {r} : request[x] = None,
             request' = [request EXCEPT ![r] = new], new # None => SerialOK(new)'
      PROVE  SerialInv'
  <2>1. request'[r] = new /\ \A x \in SquadRequests \ {r} : request'[x] = None
    BY <1>2 DEF TypeInv, SquadsTypeOK
  <2> QED BY <1>2, <2>1 DEF SerialInv, Alone
<1>3. ASSUME NEW r \in SquadRequests, NEW u \in Users, BeginRequest(r, u)
      PROVE  SerialInv'
  <2>1. PICK rec : Started(u, rec) /\ Begin(r, rec)
    BY <1>3, BeginShape
  <2>2. /\ \A x \in SquadRequests : request[x] = None
        /\ UNCHANGED member /\ request' = [request EXCEPT ![r] = rec]
    BY <2>1, RoomBudget DEF Begin
  <2>3. SerialOK(rec)'
    BY <2>1, <2>2 DEF Started, SerialOK
  <2> QED BY <1>2, <2>2, <2>3
<1>4. ASSUME NEW r \in SquadRequests, request[r] # None, NEW new, Moves(r, new),
             new # None => SerialOK(new)'
      PROVE  SerialInv'
  BY <1>0, <1>2, <1>4 DEF Alone, Moves
(* Steps that leave the members alone, and the phases of carrying and saving. *)
<1>5. ASSUME NEW r \in SquadRequests, request[r] # None, NEW new, Moves(r, new),
             Keeps(request[r], new), UNCHANGED member,
             new # None /\ request[r].pc = "carry" => new.pc = "carry",
             new # None /\ new.pc = "carry" => request[r].pc = "carry",
             new # None /\ new.pc = "save" =>
                new.todo \subseteq Members(request[r])
      PROVE  SerialInv'
  <2>1. SerialOK(request[r])
    BY <1>0, <1>5
  <2>2. new # None => SerialOK(new)'
    BY <1>5, <2>1 DEF SerialOK, Keeps, Members
  <2> QED BY <1>4, <1>5, <2>2
<1>6. ASSUME NEW r \in SquadRequests, TakeEnrollment(r)
      PROVE  SerialInv'
  <2>1. PICK u \in Users, new \in SquadRequest :
           /\ Moves(r, new) /\ new.kind = "roster" /\ new.pc = "user"
           /\ new.user = u /\ new.seen = member[u]
    BY <1>6, TakeEnrollmentShape
  <2>2. UNCHANGED member /\ request[r] # None
    BY <1>6 DEF TakeEnrollment, At
  <2>3. SerialOK(new)'
    BY <2>1, <2>2 DEF SerialOK
  <2> QED BY <1>4, <2>1, <2>2, <2>3
<1>7. ASSUME NEW r \in SquadRequests, WriteUser(r)
      PROVE  SerialInv'
  <2>1. /\ request[r] # None /\ request[r].pc = "user" /\ request[r].user \in Users
        /\ SerialOK(request[r])
    BY <1>0, <1>7, WriteUserShape, Running DEF SquadRequest
  <2>2. UNCHANGED member
    BY <1>7, <2>1 DEF WriteUser, Upserted, SerialOK, TypeInv, SquadsTypeOK
  <2>3. PICK new : /\ Moves(r, new) /\ Keeps(request[r], new)
                   /\ new # None => new.kind = "roster" /\ new.pc = "next"
    BY <1>7, WriteUserShape
  <2> QED BY <1>5, <2>1, <2>2, <2>3
<1>8. ASSUME NEW r \in SquadRequests, WriteSquad(r)
      PROVE  SerialInv'
  <2>1. /\ request[r] # None /\ request[r].squad \in Names /\ request[r].user \in Users
        /\ request[r].kind = "assign"
    BY <1>8, WriteSquadShape
  <2>2. PICK new : /\ Moves(r, new) /\ Keeps(request[r], new)
                   /\ new = None <=> request[r].seen = request[r].squad
                   /\ new # None => new.pc = "carry" /\ new.todo = Collections
    BY <1>8, WriteSquadShape
  <2>3. member'[request[r].user] = request[r].squad
    BY <1>8, <2>1 DEF WriteSquad, TypeInv, SquadsTypeOK
  <2>4. new # None => SerialOK(new)'
    BY <2>1, <2>2, <2>3 DEF SerialOK, Keeps
  <2> QED BY <1>4, <2>1, <2>2, <2>4
<1>9. ASSUME NEW r \in SquadRequests, NEW c \in Collections, Carry(r, c)
      PROVE  SerialInv'
  BY <1>5, <1>9, CarryShape DEF Carry
<1>10. ASSUME NEW r \in SquadRequests,
              FindSquad(r) \/ CreateNumbered(r) \/ Insert(r) \/ FindProgress(r)
       PROVE  SerialInv'
  <2>1. CASE FindSquad(r)
    BY <1>5, <2>1, FindSquadShape DEF FindSquad
  <2>2. CASE CreateNumbered(r)
    BY <1>5, <2>2, CreateNumberedShape DEF CreateNumbered
  <2>3. CASE Insert(r)
    BY <1>5, <2>3, InsertShape DEF Insert
  <2>4. CASE FindProgress(r)
    BY <1>5, <2>4, FindProgressShape DEF FindProgress
  <2> QED BY <1>10, <2>1, <2>2, <2>3, <2>4
<1>11. ASSUME NEW r \in SquadRequests,
              WriteProgress(r) \/ EvaluateSquad(r) \/ ListMembers(r)
       PROVE  SerialInv'
  <2>1. CASE WriteProgress(r)
    BY <1>5, <2>1, WriteProgressShape DEF WriteProgress
  <2>2. CASE EvaluateSquad(r)
    BY <1>5, <2>2, EvaluateSquadShape DEF EvaluateSquad
  <2>3. CASE ListMembers(r)
    BY <1>5, <2>3, ListMembersShape DEF ListMembers
  <2> QED BY <1>11, <2>1, <2>2, <2>3
<1>12. ASSUME NEW r \in SquadRequests, NEW u \in Users, SaveMember(r, u)
       PROVE  SerialInv'
  <2>1. PICK new : /\ Moves(r, new) /\ Keeps(request[r], new)
                   /\ new = None <=> request[r].todo = {u}
                   /\ new # None => /\ new.pc = "save"
                                    /\ new.todo = request[r].todo \ {u}
                                    /\ new.total = request[r].total
                                    /\ new.max = request[r].max
    BY <1>12, SaveMemberMoves
  <2>2. UNCHANGED member /\ request[r] # None /\ request[r].pc = "save"
    BY <1>12 DEF SaveMember, At
  <2>3. request[r].todo \subseteq Members(request[r])
    BY <1>0, <2>2 DEF SerialOK
  <2> QED BY <1>5, <2>1, <2>2, <2>3
<1>13. ASSUME NEW r \in SquadRequests, Fail(r)
       PROVE  SerialInv'
  <2>1. PICK new : /\ Moves(r, new) /\ Keeps(request[r], new)
                   /\ new # None => /\ new.pc = request[r].pc /\ new.pc \in {"carry", "save"}
                                    /\ new.todo \subseteq request[r].todo
    BY <1>13, FailShape
  <2>2. UNCHANGED member /\ request[r] # None
    BY <1>13 DEF Fail
  <2>3. request[r].pc = "save" => request[r].todo \subseteq Members(request[r])
    BY <1>0, <2>2 DEF SerialOK
  <2> QED BY <1>5, <2>1, <2>2, <2>3
<1>14. (\E s \in Names : CreateSquad(s)) \/ (\E Q \in SUBSET Questions : Release(Q))
          => UNCHANGED <<request, member>>
  BY DEF CreateSquad, Release
<1>15. CASE UNCHANGED <<request, member>>
  BY <1>0, <1>15 DEF SerialInv, Alone, SerialOK, Members
<1> QED
  BY <1>1, <1>3, <1>6, <1>7, <1>8, <1>9, <1>10, <1>11, <1>12, <1>13, <1>14, <1>15
     DEF SquadsNext, Proceed

(* Someone is to carry these records of a learner. *)
MovesOn(u, c) ==
    \E r \in SquadRequests :
       /\ request[r] # None /\ request[r].pc = "carry" /\ request[r].user = u
       /\ c \in request[r].todo

Under(u) ==
    /\ \A c \in {"progress", "publishes"} : tag[u][c] = member[u] \/ MovesOn(u, c)
    /\ score[u] # None => score[u].squad = member[u] \/ MovesOn(u, "scores")
    /\ \A t \in Times : attempts[t] # None /\ attempts[t].by = u
          => attempts[t].squad = member[u] \/ MovesOn(u, "attempts")

HistoryInv == ~mix.overlap /\ failed = 0 => \A u \in Users : Under(u)

LEMMA MovesOnAlone ==
  ASSUME Alone, NEW r \in SquadRequests, request[r] # None, NEW u, NEW c
  PROVE  MovesOn(u, c) <=> /\ request[r].pc = "carry" /\ request[r].user = u
                           /\ c \in request[r].todo
  BY DEF MovesOn, Alone

LEMMA HistoryInvStep ==
  ASSUME TypeInv, SerialInv, HistoryInv, [SquadsNext]_squadVars
  PROVE  HistoryInv'
<1> USE DEF records, ghosts
<1> SUFFICES ASSUME ~mix.overlap, failed' = 0
             PROVE  \A u \in Users : Under(u)'
  BY MixStays DEF HistoryInv
<1>0. /\ failed = 0 /\ Alone /\ \A u \in Users : Under(u)
      /\ \A r \in SquadRequests : request[r] # None => SerialOK(request[r])
  BY StillStep DEF SerialInv, HistoryInv
(* Nobody was carrying anything, and nothing that counts changes. *)
<1>1. ASSUME UNCHANGED <<member, score, attempts, tag>>,
             \A u \in Users, c \in Collections : ~MovesOn(u, c)
      PROVE  \A u \in Users : Under(u)'
  BY <1>0, <1>1 DEF Under, Collections
<1>2. ASSUME UNCHANGED <<member, score, attempts, tag, request>>
      PROVE  \A u \in Users : Under(u)'
  BY <1>0, <1>2 DEF Under, MovesOn
<1>3. ASSUME NEW r \in SquadRequests, request[r] # None, request[r].pc # "carry"
      PROVE  \A u \in Users, c \in Collections : ~MovesOn(u, c)
  BY <1>0, <1>3, MovesOnAlone
<1>4. ASSUME NEW r \in SquadRequests, NEW u \in Users, BeginRequest(r, u)
      PROVE  \A x \in Users : Under(x)'
  <2>1. PICK rec : Started(u, rec) /\ Begin(r, rec)
    BY <1>4, BeginShape
  <2>2. /\ \A x \in SquadRequests : request[x] = None
        /\ UNCHANGED <<member, score, attempts, tag>>
    BY <2>1, RoomBudget DEF Begin
  <2>3. \A x \in Users, c \in Collections : ~MovesOn(x, c)
    BY <2>2 DEF MovesOn
  <2> QED BY <1>1, <2>2, <2>3
<1>5. ASSUME NEW r \in SquadRequests, WriteUser(r)
      PROVE  \A x \in Users : Under(x)'
  <2>1. /\ request[r] # None /\ request[r].pc = "user" /\ request[r].user \in Users
        /\ SerialOK(request[r])
    BY <1>0, <1>5, WriteUserShape, Running DEF SquadRequest
  <2>2. UNCHANGED <<member, score, attempts, tag>>
    BY <1>5, <2>1 DEF WriteUser, Upserted, SerialOK, TypeInv, SquadsTypeOK
  <2> QED BY <1>1, <1>3, <2>1, <2>2
(* Everything of the learner is to be carried to the new squad ... *)
<1>6. ASSUME NEW r \in SquadRequests, WriteSquad(r)
      PROVE  \A x \in Users : Under(x)'
  <2>0. PICK rec : rec = request[r]
    OBVIOUS
  <2>1. /\ rec # None /\ rec.squad \in Names /\ rec.user \in Users
        /\ rec.pc = "user" /\ SerialOK(rec)
    BY <1>0, <1>6, <2>0, WriteSquadShape
  <2>2. PICK new : /\ Moves(r, new) /\ Keeps(rec, new)
                   /\ new = None <=> rec.seen = rec.squad
                   /\ new # None => new.pc = "carry" /\ new.todo = Collections
    BY <1>6, <2>0, WriteSquadShape
  <2>3. /\ member' = [member EXCEPT ![rec.user] = rec.squad]
        /\ UNCHANGED <<score, attempts, tag>> /\ request'[r] = new
    BY <1>6, <2>0, <2>2 DEF WriteSquad, Moves, TypeInv, SquadsTypeOK
  <2>4. \A u \in Users, c \in Collections : ~MovesOn(u, c)
    BY <1>3, <2>0, <2>1
  <2>5. CASE new = None
    <3>1. UNCHANGED member
      BY <2>1, <2>2, <2>3, <2>5 DEF SerialOK, TypeInv, SquadsTypeOK
    <3> QED BY <1>1, <2>3, <2>4, <3>1
  <2>6. CASE new # None
    <3>1. \A c \in Collections : MovesOn(rec.user, c)'
      BY <2>2, <2>3, <2>6 DEF MovesOn, Keeps
    <3>2. \A x \in Users \ {rec.user} : member'[x] = member[x]
      BY <2>3 DEF TypeInv, SquadsTypeOK
    <3>3. \A x \in Users \ {rec.user} : Under(x)'
      BY <1>0, <2>3, <2>4, <3>2 DEF Under, Collections
    <3>4. Under(rec.user)'
      BY <3>1 DEF Under, Collections
    <3> QED BY <3>3, <3>4
  <2> QED BY <2>5, <2>6
(* ... and is. *)
<1>7. ASSUME NEW r \in SquadRequests, NEW c \in Collections, Carry(r, c)
      PROVE  \A x \in Users : Under(x)'
  <2>0. PICK rec, u, s : rec = request[r] /\ u = rec.user /\ s = rec.squad
    OBVIOUS
  <2>1. /\ rec # None /\ rec.pc = "carry" /\ s \in Names /\ u \in Users
        /\ s = member[u]
    BY <1>0, <1>7, <2>0, CarryShape DEF SerialOK
  <2>2. PICK new : /\ Moves(r, new) /\ Keeps(rec, new)
                   /\ new = None <=> rec.todo = {c}
                   /\ new # None => new.pc = "carry" /\ new.todo = rec.todo \ {c}
    BY <1>7, <2>0, CarryShape
  <2>3. request'[r] = new /\ UNCHANGED member
    BY <1>7, <2>2 DEF Carry, Moves, TypeInv, SquadsTypeOK
  <2>4. \A x \in Users, k \in Collections : MovesOn(x, k) => x = u /\ k \in rec.todo
    BY <1>0, <2>0, <2>1, MovesOnAlone
  <2>5. \A k \in Collections \ {c} : k \in rec.todo => MovesOn(u, k)'
    BY <2>0, <2>2, <2>3 DEF MovesOn, Keeps
  <2>6. /\ score' = IF c = "scores" /\ score[u] # None
                    THEN [score EXCEPT ![u].squad = s] ELSE score
        /\ attempts' = [t \in Times |->
                          IF c = "attempts" /\ attempts[t] # None /\ attempts[t].by = u
                          THEN [attempts[t] EXCEPT !.squad = s] ELSE attempts[t]]
        /\ tag' = IF c \in {"progress", "publishes"}
                  THEN [tag EXCEPT ![u][c] = s] ELSE tag
    BY <1>7, <2>0 DEF Carry
  <2>7. ASSUME NEW x \in Users, NEW k \in {"progress", "publishes"}
        PROVE  tag'[x][k] = member'[x] \/ MovesOn(x, k)'
    <3>1. tag[x][k] = member[x] \/ MovesOn(x, k)
      BY <1>0 DEF Under
    <3>2. CASE x = u /\ k = c
      BY <2>1, <2>3, <2>6, <3>2 DEF TypeInv, SquadsTypeOK
    <3>3. CASE ~(x = u /\ k = c)
      <4>1. tag'[x][k] = tag[x][k]
        BY <2>1, <2>6, <3>3 DEF TypeInv, SquadsTypeOK
      <4>2. MovesOn(x, k) => MovesOn(x, k)'
        BY <2>4, <2>5, <3>3 DEF Collections
      <4> QED BY <2>3, <3>1, <4>1, <4>2
    <3> QED BY <3>2, <3>3
  <2>8. ASSUME NEW x \in Users, score'[x] # None
        PROVE  score'[x].squad = member'[x] \/ MovesOn(x, "scores")'
    <3>1. score[x] # None => score[x].squad = member[x] \/ MovesOn(x, "scores")
      BY <1>0 DEF Under
    <3>2. CASE c = "scores" /\ x = u /\ score[u] # None
      <4>1. score' = [score EXCEPT ![u].squad = s] /\ score[u] \in MemberScore
        BY <2>1, <2>6, <3>2 DEF TypeInv, SquadsTypeOK
      <4>2. score'[u].squad = s
        BY <2>1, <4>1 DEF MemberScore, TypeInv, SquadsTypeOK
      <4> QED BY <2>1, <2>3, <3>2, <4>2
    <3>3. CASE ~(c = "scores" /\ x = u)
      <4>1. score'[x] = score[x]
        BY <2>1, <2>6, <3>3 DEF TypeInv, SquadsTypeOK
      <4>2. MovesOn(x, "scores") => MovesOn(x, "scores")'
        BY <2>4, <2>5, <3>3 DEF Collections
      <4> QED BY <2>3, <2>8, <3>1, <4>1, <4>2
    <3>4. CASE c = "scores" /\ x = u /\ score[u] = None
      BY <2>6, <2>8, <3>4
    <3> QED BY <3>2, <3>3, <3>4
  <2>9. ASSUME NEW x \in Users, NEW t \in Times, attempts'[t] # None, attempts'[t].by = x
        PROVE  attempts'[t].squad = member'[x] \/ MovesOn(x, "attempts")'
    <3>0. attempts[t] \in SquadAttempt \cup {None}
      BY DEF TypeInv, SquadsTypeOK
    <3>1. attempts[t] # None /\ attempts[t].by = x
             => attempts[t].squad = member[x] \/ MovesOn(x, "attempts")
      BY <1>0 DEF Under
    <3>2. CASE c = "attempts" /\ attempts[t] # None /\ attempts[t].by = u
      <4>1. attempts'[t] = [attempts[t] EXCEPT !.squad = s] /\ attempts[t] \in SquadAttempt
        BY <2>6, <3>0, <3>2
      <4>2. attempts'[t].squad = s /\ attempts'[t].by = u
        BY <3>2, <4>1 DEF SquadAttempt
      <4> QED BY <2>1, <2>3, <2>9, <4>2
    <3>3. CASE ~(c = "attempts" /\ attempts[t] # None /\ attempts[t].by = u)
      <4>1. attempts'[t] = attempts[t]
        BY <2>6, <3>3
      <4>2. MovesOn(x, "attempts") => MovesOn(x, "attempts")'
        BY <2>4, <2>5, <2>9, <3>3, <4>1 DEF Collections
      <4> QED BY <2>3, <2>9, <3>1, <4>1, <4>2
    <3> QED BY <3>2, <3>3
  <2> QED BY <2>7, <2>8, <2>9 DEF Under
<1>8. ASSUME NEW r \in SquadRequests, Insert(r)
      PROVE  \A x \in Users : Under(x)'
  <2>1. /\ request[r] # None /\ request[r].kind = "answer" /\ request[r].pc = "insert"
        /\ clock \in Times /\ SerialOK(request[r])
        /\ UNCHANGED <<member, score, tag>>
    BY <1>0, <1>8, InsertShape DEF Insert
  <2>2. \A u \in Users, c \in Collections : ~MovesOn(u, c)
    BY <1>3, <2>1
  <2>3. PICK a \in SquadAttempt : /\ a.squad = request[r].squad /\ a.by = request[r].user
                                  /\ attempts' = [attempts EXCEPT ![clock] = a]
    BY <1>8, InsertShape
  <2>4. a.squad = member[a.by]
    BY <2>1, <2>3 DEF SerialOK
  <2>5. \A t \in Times : attempts'[t] = attempts[t] \/ attempts'[t] = a
    BY <2>3 DEF TypeInv, SquadsTypeOK
  <2> QED BY <1>0, <2>1, <2>2, <2>4, <2>5 DEF Under, Collections
<1>9. ASSUME NEW r \in SquadRequests, NEW v \in Users, SaveMember(r, v)
      PROVE  \A x \in Users : Under(x)'
  <2> DEFINE saved == [total |-> request[r].total, max |-> request[r].max,
                       squad |-> request[r].squad]
  <2>1. /\ request[r] # None /\ request[r].pc = "save" /\ v \in request[r].todo
        /\ SerialOK(request[r]) /\ UNCHANGED <<member, attempts, tag>>
    BY <1>0, <1>9 DEF SaveMember, At
  <2>2. \A u \in Users, c \in Collections : ~MovesOn(u, c)
    BY <1>3, <2>1
  <2>3. /\ saved \in MemberScore /\ saved.squad = request[r].squad
        /\ score' = [score EXCEPT ![v] = saved] \/ UNCHANGED score
    BY <1>9, SaveMemberShape
  <2>4. request[r].squad = member[v]
    BY <2>1 DEF SerialOK, Members
  <2> HIDE DEF saved
  <2>5. \A x \in Users : score'[x] = score[x] \/ (x = v /\ score'[x] = saved)
    BY <2>3 DEF TypeInv, SquadsTypeOK
  <2> QED BY <1>0, <2>1, <2>2, <2>3, <2>4, <2>5 DEF Under, Collections
<1>10. ASSUME NEW r \in SquadRequests,
              \/ TakeEnrollment(r) \/ FindSquad(r) \/ CreateNumbered(r) \/ FindProgress(r)
              \/ WriteProgress(r) \/ EvaluateSquad(r) \/ ListMembers(r)
       PROVE  \A x \in Users : Under(x)'
  <2>1. /\ request[r] # None /\ request[r].pc # "carry"
        /\ UNCHANGED <<member, score, attempts, tag>>
    BY <1>10 DEF TakeEnrollment, FindSquad, CreateNumbered, FindProgress, WriteProgress,
                 EvaluateSquad, ListMembers, At
  <2> QED BY <1>1, <1>3, <2>1
<1>11. ASSUME NEW r \in SquadRequests
       PROVE  ~Fail(r)
  BY FailShape
<1>12. (\E s \in Names : CreateSquad(s)) \/ (\E Q \in SUBSET Questions : Release(Q))
          \/ UNCHANGED squadVars => UNCHANGED <<member, score, attempts, tag, request>>
  BY DEF CreateSquad, Release, squadVars
<1> QED
  BY <1>2, <1>4, <1>5, <1>6, <1>7, <1>8, <1>9, <1>10, <1>11, <1>12 DEF SquadsNext, Proceed

(* One request at a time, and no call fails: when nothing runs any more, all records *)
(* of a learner are under the learner's squad. Code: carryLearnerSquadHistory, and a  *)
(* launch or a sync that writes back the squad it read.                              *)
THEOREM HistoriesFollow == SquadsSpec => []HistoryFollows
<1>1. SquadsInit => TypeInv /\ SerialInv /\ HistoryInv
  BY TypeInvInit DEF SquadsInit, SerialInv, Alone, HistoryInv, Under
<1>2. TypeInv /\ SerialInv /\ HistoryInv /\ [SquadsNext]_squadVars
         => TypeInv' /\ SerialInv' /\ HistoryInv'
  BY TypeInvStep, SerialInvStep, HistoryInvStep
<1>3. HistoryInv => HistoryFollows
  BY DEF HistoryInv, HistoryFollows, Under, MovesOn, AtRest
<1> QED BY <1>1, <1>2, <1>3, PTL DEF SquadsSpec

(* The request saves the score of this squad's members. *)
Saves(rec, s) == rec # None /\ rec.pc = "save" /\ rec.squad = s

SavedScore(rec) == [total |-> rec.total, max |-> rec.max, squad |-> rec.squad]

ShareInv ==
    ~mix.overlap /\ failed = 0 =>
       /\ \A u, v \in Users :
             member[u] \in Still /\ member[v] = member[u]
                => \/ score[u] = score[v]
                   \/ \E r \in SquadRequests : Saves(request[r], member[u])
       /\ \A r \in SquadRequests, u \in Users :
             Saves(request[r], member[u]) /\ u \notin request[r].todo
                => score[u] = SavedScore(request[r])

(* What a step leaves of the squads that nobody joined or left. *)
LEMMA StillMembers ==
  ASSUME TypeInv, [SquadsNext]_squadVars, NEW x \in Users, member'[x] \in Still'
  PROVE  member'[x] = member[x] /\ member[x] \in Still
  BY StillStep

LEMMA ShareInvStep ==
  ASSUME TypeInv, SerialInv, StirredInv, HistoryInv, ShareInv, [SquadsNext]_squadVars
  PROVE  ShareInv'
<1> USE DEF records, ghosts
<1> SUFFICES ASSUME ~mix.overlap, failed' = 0
             PROVE  ShareInv'
  BY MixStays DEF ShareInv
<1>0. /\ failed = 0 /\ Alone /\ \A u \in Users : Under(u)
      /\ \A r \in SquadRequests : request[r] # None => SerialOK(request[r])
      /\ \A r \in SquadRequests : request[r] # None => StirredOK(request[r])
  BY StillStep DEF SerialInv, HistoryInv, StirredInv
<1>1. /\ \A u, v \in Users :
            member[u] \in Still /\ member[v] = member[u]
               => \/ score[u] = score[v]
                  \/ \E r \in SquadRequests : Saves(request[r], member[u])
      /\ \A r \in SquadRequests, u \in Users :
            Saves(request[r], member[u]) /\ u \notin request[r].todo
               => score[u] = SavedScore(request[r])
  BY <1>0 DEF ShareInv
<1>2. CASE UNCHANGED <<member, score, request>>
  BY <1>0, <1>1, <1>2, StillMembers DEF ShareInv, Saves, SavedScore
(* Nobody saves scores, before or after, and none changes in a squad that counts. *)
<1>3. ASSUME \A x \in SquadRequests : request[x] # None => request[x].pc # "save",
             \A x \in SquadRequests : request'[x] # None => request'[x].pc # "save",
             \A x \in Users : member[x] \in Still => score'[x] = score[x]
      PROVE  ShareInv'
  <2>1. \A x \in SquadRequests : \A s : ~Saves(request[x], s) /\ ~Saves(request[x], s)'
    BY <1>3 DEF Saves
  <2>2. \A u, v \in Users : (member[u] \in Still)' /\ (member[v] = member[u])'
           => score'[u] = score'[v]
    BY <1>1, <1>3, <2>1, StillMembers
  <2> QED BY <2>1, <2>2 DEF ShareInv
<1>4. ASSUME NEW r \in SquadRequests, request[r] # None, request[r].pc # "save",
             NEW new, Moves(r, new), new # None => new.pc # "save",
             \A x \in Users : member[x] \in Still => score'[x] = score[x]
      PROVE  ShareInv'
  <2>1. \A x \in SquadRequests : request'[x] = IF x = r THEN new ELSE request[x]
    BY <1>4 DEF Moves, TypeInv, SquadsTypeOK
  <2> QED BY <1>0, <1>3, <1>4, <2>1 DEF Alone
<1>5. ASSUME NEW r \in SquadRequests, NEW u \in Users, BeginRequest(r, u)
      PROVE  ShareInv'
  <2>1. PICK rec : Started(u, rec) /\ Begin(r, rec)
    BY <1>5, BeginShape
  <2>2. /\ \A x \in SquadRequests : request[x] = None
        /\ UNCHANGED score /\ request' = [request EXCEPT ![r] = rec]
    BY <2>1, RoomBudget DEF Begin
  <2>3. \A x \in SquadRequests : request'[x] # None => request'[x] = rec
    BY <2>2 DEF TypeInv, SquadsTypeOK
  <2> QED BY <1>3, <2>1, <2>2, <2>3 DEF Started
<1>6. ASSUME NEW r \in SquadRequests,
             \/ TakeEnrollment(r) \/ WriteUser(r) \/ FindSquad(r) \/ CreateNumbered(r)
             \/ WriteSquad(r)
      PROVE  ShareInv'
  <2>1. UNCHANGED score
    BY <1>6 DEF TakeEnrollment, WriteUser, FindSquad, CreateNumbered, WriteSquad
  <2>2. CASE TakeEnrollment(r)
    <3>1. request[r] # None /\ request[r].pc = "next"
      BY <2>2 DEF TakeEnrollment, At
    <3>2. PICK new : Moves(r, new) /\ new.pc = "user"
      BY <2>2, TakeEnrollmentShape
    <3> QED BY <1>4, <2>1, <3>1, <3>2
  <2>3. CASE WriteUser(r)
    BY <1>4, <2>1, <2>3, WriteUserShape
  <2>4. CASE FindSquad(r)
    BY <1>4, <2>1, <2>4, FindSquadShape
  <2>5. CASE CreateNumbered(r)
    BY <1>4, <2>1, <2>5, CreateNumberedShape
  <2>6. CASE WriteSquad(r)
    BY <1>4, <2>1, <2>6, WriteSquadShape
  <2> QED BY <1>6, <2>2, <2>3, <2>4, <2>5, <2>6
(* The scores that are carried are those of a learner who has just moved. *)
<1>7. ASSUME NEW r \in SquadRequests, NEW c \in Collections, Carry(r, c)
      PROVE  ShareInv'
  <2>1. /\ request[r] # None /\ request[r].pc = "carry" /\ request[r].user \in Users
        /\ request[r].squad = member[request[r].user] /\ request[r].squad \notin Still
    BY <1>0, <1>7, CarryShape DEF SerialOK, StirredOK
  <2>2. PICK new : Moves(r, new) /\ (new # None => new.pc = "carry")
    BY <1>7, CarryShape
  <2>3. \A x \in Users \ {request[r].user} : score'[x] = score[x]
    BY <1>7 DEF Carry, TypeInv, SquadsTypeOK
  <2> QED BY <1>4, <2>1, <2>2, <2>3
<1>8. ASSUME NEW r \in SquadRequests,
             \/ Insert(r) \/ FindProgress(r) \/ WriteProgress(r) \/ EvaluateSquad(r)
      PROVE  ShareInv'
  <2>1. UNCHANGED score
    BY <1>8 DEF Insert, FindProgress, WriteProgress, EvaluateSquad
  <2>2. CASE Insert(r)
    BY <1>4, <2>1, <2>2, InsertShape
  <2>3. CASE FindProgress(r)
    BY <1>4, <2>1, <2>3, FindProgressShape
  <2>4. CASE WriteProgress(r)
    BY <1>4, <2>1, <2>4, WriteProgressShape
  <2>5. CASE EvaluateSquad(r)
    BY <1>4, <2>1, <2>5, EvaluateSquadShape
  <2> QED BY <1>8, <2>2, <2>3, <2>4, <2>5
(* All members' scores are to be saved ... *)
<1>9. ASSUME NEW r \in SquadRequests, ListMembers(r)
      PROVE  ShareInv'
  <2>1. request[r] # None /\ request[r].pc = "members" /\ UNCHANGED <<member, score>>
    BY <1>9, ListMembersShape DEF ListMembers
  <2>2. PICK new : /\ Moves(r, new) /\ Keeps(request[r], new)
                   /\ new # None => new.pc = "save" /\ new.todo = Members(request[r])
    BY <1>9, ListMembersShape
  <2>3. \A x \in SquadRequests : \A s : ~Saves(request[x], s)
    BY <1>0, <2>1 DEF Saves, Alone
  <2>4. \A u, v \in Users : (member[u] \in Still)' /\ (member[v] = member[u])'
           => score'[u] = score'[v]
    BY <1>1, <2>1, <2>3, StillMembers
  <2>5. \A x \in SquadRequests :
           request'[x] # None => request'[x] = new /\ x = r
    BY <1>0, <2>1, <2>2 DEF Alone, Moves, TypeInv, SquadsTypeOK
  <2>6. ASSUME NEW x \in SquadRequests, NEW u \in Users, Saves(request[x], member[u])'
        PROVE  u \in request'[x].todo
    BY <2>1, <2>2, <2>5, <2>6 DEF Saves, Keeps, Members
  <2> QED BY <2>4, <2>6 DEF ShareInv
(* ... and are. *)
<1>10. ASSUME NEW r \in SquadRequests, NEW w \in Users, SaveMember(r, w)
       PROVE  ShareInv'
  <2>0. PICK rec : rec = request[r]
    OBVIOUS
  <2>1. /\ rec # None /\ rec.pc = "save" /\ w \in rec.todo
        /\ SerialOK(rec) /\ UNCHANGED member
    BY <1>0, <1>10, <2>0 DEF SaveMember, At
  <2>2. PICK new : /\ Moves(r, new) /\ Keeps(rec, new)
                   /\ new = None <=> rec.todo = {w}
                   /\ new # None => /\ new.pc = "save" /\ new.todo = rec.todo \ {w}
                                    /\ new.total = rec.total /\ new.max = rec.max
    BY <1>10, <2>0, SaveMemberMoves
  <2>3. rec.squad = member[w]
    BY <2>1 DEF SerialOK, Members
  <2>4. score[w] # None => score[w].squad = rec.squad
    BY <1>0, <2>0, <2>1, <2>3, MovesOnAlone DEF Under
  <2>5. score' = [score EXCEPT ![w] = SavedScore(rec)]
    <3>1. /\ \/ score' = [score EXCEPT ![w] = SavedScore(rec)]
             \/ /\ score[w] # None /\ score[w].total = rec.total
                /\ score[w].max = rec.max /\ UNCHANGED score
          /\ SavedScore(rec) \in MemberScore
      BY <1>10, <2>0, SaveMemberShape DEF SavedScore
    <3>2. score[w] # None => score[w] \in MemberScore
      BY DEF TypeInv, SquadsTypeOK
    <3>3. CASE UNCHANGED score /\ score[w] # None /\ score[w].total = rec.total
               /\ score[w].max = rec.max
      <4>1. score[w] = SavedScore(rec)
        BY <2>4, <3>1, <3>2, <3>3 DEF MemberScore, SavedScore
      <4> QED BY <3>3, <4>1 DEF TypeInv, SquadsTypeOK
    <3> QED BY <3>1, <3>3
  <2>6. \A x \in Users : score'[x] = IF x = w THEN SavedScore(rec) ELSE score[x]
    BY <2>5 DEF TypeInv, SquadsTypeOK
  <2>7. \A x \in SquadRequests :
           /\ x # r => request[x] = None /\ request'[x] = None
           /\ request'[r] = new
    BY <1>0, <2>0, <2>1, <2>2 DEF Alone, Moves, TypeInv, SquadsTypeOK
  <2>8. \A x \in Users :
           member[x] = rec.squad /\ x \notin rec.todo \ {w} => score'[x] = SavedScore(rec)
    BY <1>1, <2>0, <2>1, <2>6 DEF Saves
  <2>9. ASSUME NEW x \in SquadRequests, NEW u \in Users,
               Saves(request[x], member[u])', u \notin request'[x].todo
        PROVE  score'[u] = SavedScore(request[x])'
    <3>1. x = r /\ new # None /\ member[u] = rec.squad
      BY <2>1, <2>2, <2>7, <2>9 DEF Saves, Keeps
    <3>2. SavedScore(request[x])' = SavedScore(rec)
      BY <2>2, <2>7, <3>1 DEF SavedScore, Keeps
    <3>3. u \notin rec.todo \ {w}
      BY <2>2, <2>7, <2>9, <3>1
    <3> QED BY <2>8, <3>1, <3>2, <3>3
  <2>10. ASSUME NEW u \in Users, NEW v \in Users,
                (member[u] \in Still)', (member[v] = member[u])'
         PROVE  \/ score'[u] = score'[v]
                \/ (\E x \in SquadRequests : Saves(request[x], member[u]))'
    <3>1. member[u] \in Still /\ member[v] = member[u] /\ member'[u] = member[u]
      BY <2>1, <2>10, StillMembers
    <3>2. CASE member[u] = rec.squad /\ new = None
      BY <2>2, <2>8, <3>1, <3>2
    <3>3. CASE member[u] = rec.squad /\ new # None
      BY <2>2, <2>7, <3>1, <3>3 DEF Saves, Keeps
    <3>4. CASE member[u] # rec.squad
      <4>1. \A x \in SquadRequests : ~Saves(request[x], member[u])
        BY <2>0, <2>7, <3>4 DEF Saves
      <4>2. score[u] = score[v] /\ u # w /\ v # w
        BY <1>1, <2>3, <3>1, <3>4, <4>1
      <4> QED BY <2>6, <4>2
    <3> QED BY <3>2, <3>3, <3>4
  <2> QED BY <2>9, <2>10 DEF ShareInv
<1>11. ASSUME NEW r \in SquadRequests
       PROVE  ~Fail(r)
  BY <1>0, FailShape
<1>12. (\E s \in Names : CreateSquad(s)) \/ (\E Q \in SUBSET Questions : Release(Q))
          \/ UNCHANGED squadVars => UNCHANGED <<member, score, request>>
  BY DEF CreateSquad, Release, squadVars
<1> QED
  BY <1>2, <1>5, <1>6, <1>7, <1>8, <1>9, <1>10, <1>11, <1>12 DEF SquadsNext, Proceed

(* One request at a time, and no call fails: when nothing runs any more, the members *)
(* of a squad that nobody joined or left have the same score. Code:                  *)
(* propagateSquadScoreToMembers, which leaves alone a score that was published with   *)
(* the same values, and an assignment that carries scores from squad to squad.       *)
THEOREM SquadsShareScores == SquadsSpec => []SquadSharesScore
<1>1. SquadsInit => TypeInv /\ SerialInv /\ StirredInv /\ HistoryInv /\ ShareInv
  BY TypeInvInit
     DEF SquadsInit, SerialInv, Alone, StirredInv, HistoryInv, Under, ShareInv, Saves
<1>2. TypeInv /\ SerialInv /\ StirredInv /\ HistoryInv /\ ShareInv /\ [SquadsNext]_squadVars
         => TypeInv' /\ SerialInv' /\ StirredInv' /\ HistoryInv' /\ ShareInv'
  BY TypeInvStep, SerialInvStep, StirredInvStep, HistoryInvStep, ShareInvStep
<1>3. TypeInv /\ ShareInv => SquadSharesScore
  BY DEF TypeInv, SquadsTypeOK, ShareInv, SquadSharesScore, Saves, AtRest, Still
<1> QED BY <1>1, <1>2, <1>3, PTL DEF SquadsSpec
=============================================================================
