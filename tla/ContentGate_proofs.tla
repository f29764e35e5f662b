-------------------------- MODULE ContentGate_proofs --------------------------
(* Proofs about ContentGate, for any items, releases, cohorts, edits and bounds. *)
EXTENDS ContentGate, TLAPS

Opening == [item : BOOLEAN, published : BOOLEAN, deck : BOOLEAN, releases : SUBSET Releases]

Asking == [locked : BOOLEAN, status : Statuses, deck : BOOLEAN, releases : SUBSET Releases,
           version : 0..MaxVersion]

-----------------------------------------------------------------------------
(* One item.                                                               *)

\* What an item shows was opened. Releases that were unlocked opened the item, and
\* without them its status and lock are those asked for.
ItemOK(doc, open, ask) ==
    /\ doc.kind # "challenge" => doc.releases = None
    /\ doc.locked = FALSE => open.item
    /\ doc.status = "published" => open.published
    /\ ShownReleases(doc) \subseteq open.releases
    /\ DeckShown(doc) => open.deck
    /\ open.releases # {} => open.item /\ open.published
    /\ open.releases = {} => /\ doc.status = ask.status
                             /\ doc.locked = FALSE <=> ~ask.locked

\* What a job has read was opened.
JobOK(j, open) ==
    /\ ShownReleases(j.seen) \subseteq open.releases
    /\ DeckShown(j.seen) => open.deck

\* What is open stays open to the jobs.
Grows(old, new) == old.releases \subseteq new.releases /\ (old.deck => new.deck)

ItemsOK == \A i \in Items : ItemOK(content[i], opened[i], asked[i])

JobsOK == \A s \in Slots, i \in Items : job[s][i] # None => JobOK(job[s][i], opened[i])

GateInv == GateTypeOK /\ ItemsOK /\ JobsOK

\* A step that gives one item a new document and changes no job.
LEMMA OneItem ==
    ASSUME GateInv, NEW i \in Items, NEW doc \in Content, NEW open \in Opening,
           NEW ask \in Asking,
           content' = [content EXCEPT ![i] = doc], opened' = [opened EXCEPT ![i] = open],
           asked' = [asked EXCEPT ![i] = ask], ItemOK(doc, open, ask), Grows(opened[i], open),
           bucket' \in [Items -> Listing],
           job' \in [Slots -> [Items -> Job \cup {None}]],
           \A s \in Slots, k \in Items : job'[s][k] # None => job'[s][k] = job[s][k],
           requests' \in 0..MaxRequests, overlap' \in BOOLEAN
    PROVE  GateInv'
  <1>1. GateTypeOK /\ ItemsOK /\ JobsOK
    BY DEF GateInv
  <1>2. ASSUME NEW k \in Items
        PROVE  /\ content'[k] = IF k = i THEN doc ELSE content[k]
               /\ opened'[k] = IF k = i THEN open ELSE opened[k]
               /\ asked'[k] = IF k = i THEN ask ELSE asked[k]
    BY <1>1 DEF GateTypeOK
  <1>3. ItemsOK'
    BY <1>1, <1>2 DEF ItemsOK
  <1>4. JobsOK'
    <2> SUFFICES ASSUME NEW s \in Slots, NEW k \in Items, job'[s][k] # None
                 PROVE  JobOK(job'[s][k], opened'[k])
      BY DEF JobsOK
    <2>1. job'[s][k] = job[s][k] /\ JobOK(job[s][k], opened[k])
      BY <1>1 DEF JobsOK
    <2> QED BY <1>2, <2>1 DEF JobOK, Grows
  <1>5. GateTypeOK'
    <2>1. /\ content' \in [Items -> Content] /\ opened' \in [Items -> Opening]
          /\ asked' \in [Items -> Asking]
      BY <1>1 DEF GateTypeOK, Opening, Asking
    <2>2. \A k \in Items : content'[k].kind # "challenge" => content'[k].releases = None
      BY <1>3 DEF ItemsOK, ItemOK
    <2> QED BY <2>1, <2>2 DEF GateTypeOK, Opening, Asking
  <1> QED BY <1>3, <1>4, <1>5 DEF GateInv

\* A step that only changes jobs (and the bucket), with documents read now or earlier.
LEMMA OnlyJobs ==
    ASSUME GateInv, UNCHANGED <<content, opened, asked>>,
           bucket' \in [Items -> Listing],
           job' \in [Slots -> [Items -> Job \cup {None}]],
           \A s \in Slots, i \in Items : job'[s][i] # None =>
               \/ job'[s][i].seen = content[i]
               \/ job[s][i] # None /\ job'[s][i].seen = job[s][i].seen,
           requests' \in 0..MaxRequests, overlap' \in BOOLEAN
    PROVE  GateInv'
  <1>1. GateTypeOK /\ ItemsOK /\ JobsOK
    BY DEF GateInv
  <1>2. GateTypeOK' /\ ItemsOK'
    BY <1>1 DEF GateTypeOK, ItemsOK
  <1>3. JobsOK'
    BY <1>1 DEF JobsOK, ItemsOK, ItemOK, JobOK
  <1> QED BY <1>2, <1>3 DEF GateInv

\* What a request changes besides.
LEMMA RequestTypes ==
    ASSUME GateTypeOK, Request
    PROVE  requests' \in 0..MaxRequests /\ overlap' \in BOOLEAN
    BY ContentGateAssumption DEF GateTypeOK, Request

\* The documents of an item, as every proof about a step needs them.
LEMMA ItemFacts ==
    ASSUME GateInv, NEW i \in Items
    PROVE  /\ content[i] \in Content /\ opened[i] \in Opening /\ asked[i] \in Asking
           /\ ItemOK(content[i], opened[i], asked[i])
           /\ GateTypeOK
           /\ bucket \in [Items -> Listing] /\ job \in [Slots -> [Items -> Job \cup {None}]]
    BY DEF GateInv, GateTypeOK, ItemsOK, Opening, Asking

LEMMA StatusKeepsGate ==
    ASSUME GateInv, NEW i \in Items, NEW status \in Statuses, SetStatus(i, status)
    PROVE  GateInv'
  <1> DEFINE b == opened[i].published \/ status = "published"
             doc == [content[i] EXCEPT !.status = status]
             ask == [asked[i] EXCEPT !.status = status]
             open == [opened[i] EXCEPT !.published = b]
  <1>1. /\ content[i] \in Content /\ opened[i] \in Opening /\ asked[i] \in Asking
        /\ ItemOK(content[i], opened[i], asked[i]) /\ GateTypeOK
        /\ bucket \in [Items -> Listing] /\ job \in [Slots -> [Items -> Job \cup {None}]]
    BY ItemFacts
  <1>2. /\ content' = [content EXCEPT ![i] = doc] /\ asked' = [asked EXCEPT ![i] = ask]
        /\ UNCHANGED <<bucket, job>> /\ Request
    BY <1>1 DEF SetStatus, GateTypeOK
  <1>3. opened' = [opened EXCEPT ![i] = open]
    BY <1>1 DEF SetStatus, GateTypeOK
  <1>4. b \in BOOLEAN
    OBVIOUS
  <1>5. doc \in Content /\ doc.status = status /\ doc.locked = content[i].locked
        /\ doc.releases = content[i].releases /\ doc.kind = content[i].kind
        /\ doc.deck = content[i].deck
    BY <1>1 DEF Content
  <1>6. ask \in Asking /\ ask.status = status /\ ask.locked = asked[i].locked
    BY <1>1 DEF Asking
  <1>7. b <=> opened[i].published \/ status = "published"
    OBVIOUS
  <1> HIDE DEF b, doc, ask
  <1>8. /\ open \in Opening /\ open.published = b /\ open.item = opened[i].item
        /\ open.releases = opened[i].releases /\ open.deck = opened[i].deck
    BY <1>1, <1>4 DEF Opening
  <1> HIDE DEF open
  <1>9. ItemOK(doc, open, ask)
    BY <1>1, <1>5, <1>6, <1>7, <1>8 DEF ItemOK, ShownReleases, DeckShown
  <1>10. Grows(opened[i], open)
    BY <1>8 DEF Grows
  <1> QED BY <1>1, <1>2, <1>3, <1>5, <1>6, <1>8, <1>9, <1>10, RequestTypes, OneItem

LEMMA LockKeepsGate ==
    ASSUME GateInv, NEW i \in Items, NEW locked \in BOOLEAN, SetLock(i, locked)
    PROVE  GateInv'
  <1> DEFINE b == opened[i].item \/ ~locked
             doc == [content[i] EXCEPT !.locked = locked]
             ask == [asked[i] EXCEPT !.locked = locked]
             open == [opened[i] EXCEPT !.item = b]
  <1>1. /\ content[i] \in Content /\ opened[i] \in Opening /\ asked[i] \in Asking
        /\ ItemOK(content[i], opened[i], asked[i]) /\ GateTypeOK
        /\ bucket \in [Items -> Listing] /\ job \in [Slots -> [Items -> Job \cup {None}]]
    BY ItemFacts
  <1>2. /\ content' = [content EXCEPT ![i] = doc] /\ asked' = [asked EXCEPT ![i] = ask]
        /\ UNCHANGED <<bucket, job>> /\ Request
    BY <1>1 DEF SetLock, GateTypeOK
  <1>3. opened' = [opened EXCEPT ![i] = open]
    BY <1>1 DEF SetLock, GateTypeOK
  <1>4. b \in BOOLEAN
    OBVIOUS
  <1>5. doc \in Content /\ doc.locked = locked /\ doc.status = content[i].status
        /\ doc.releases = content[i].releases /\ doc.kind = content[i].kind
        /\ doc.deck = content[i].deck
    BY <1>1 DEF Content
  <1>6. ask \in Asking /\ ask.locked = locked /\ ask.status = asked[i].status
    BY <1>1 DEF Asking
  <1>7. b <=> opened[i].item \/ ~locked
    OBVIOUS
  <1> HIDE DEF b, doc, ask
  <1>8. /\ open \in Opening /\ open.item = b /\ open.published = opened[i].published
        /\ open.releases = opened[i].releases /\ open.deck = opened[i].deck
    BY <1>1, <1>4 DEF Opening
  <1> HIDE DEF open
  <1>9. ItemOK(doc, open, ask)
    BY <1>1, <1>5, <1>6, <1>7, <1>8 DEF ItemOK, ShownReleases, DeckShown
  <1>10. Grows(opened[i], open)
    BY <1>8 DEF Grows
  <1> QED BY <1>1, <1>2, <1>3, <1>5, <1>6, <1>8, <1>9, <1>10, RequestTypes, OneItem

LEMMA AssignmentKeepsGate ==
    ASSUME GateInv, NEW i \in Items, NEW cohort \in Cohorts \cup {None}, SetAssignment(i, cohort)
    PROVE  GateInv'
  <1> DEFINE doc == [content[i] EXCEPT !.cohort = cohort]
  <1>1. /\ content[i] \in Content /\ opened[i] \in Opening /\ asked[i] \in Asking
        /\ ItemOK(content[i], opened[i], asked[i]) /\ GateTypeOK
        /\ bucket \in [Items -> Listing] /\ job \in [Slots -> [Items -> Job \cup {None}]]
    BY ItemFacts
  <1>2. /\ content' = [content EXCEPT ![i] = doc] /\ Request
        /\ UNCHANGED <<bucket, job, opened, asked>>
    BY <1>1 DEF SetAssignment, GateTypeOK
  <1>3. /\ opened' = [opened EXCEPT ![i] = opened[i]]
        /\ asked' = [asked EXCEPT ![i] = asked[i]]
    BY <1>1, <1>2 DEF GateTypeOK
  <1>4. doc \in Content /\ doc.locked = content[i].locked /\ doc.status = content[i].status
        /\ doc.releases = content[i].releases /\ doc.kind = content[i].kind
        /\ doc.deck = content[i].deck
    BY <1>1 DEF Content
  <1> HIDE DEF doc
  <1>5. ItemOK(doc, opened[i], asked[i]) /\ Grows(opened[i], opened[i])
    BY <1>1, <1>4 DEF ItemOK, ShownReleases, DeckShown, Grows
  <1> QED BY <1>1, <1>2, <1>3, <1>4, <1>5, RequestTypes, OneItem

LEMMA LockPublishedKeepsGate ==
    ASSUME GateInv, LockPublished
    PROVE  GateInv'
  <1>1. GateTypeOK /\ ItemsOK /\ JobsOK
    BY DEF GateInv
  <1>2. /\ Request /\ UNCHANGED <<bucket, job, opened>>
        /\ requests' \in 0..MaxRequests /\ overlap' \in BOOLEAN
    BY <1>1, RequestTypes DEF LockPublished
  <1>3. ASSUME NEW i \in Items
        PROVE  \/ content'[i] = content[i] /\ asked'[i] = asked[i]
               \/ /\ content'[i] = [content[i] EXCEPT !.locked = TRUE]
                  /\ asked'[i] = [asked[i] EXCEPT !.locked = TRUE]
    BY DEF LockPublished
  <1>4. /\ DOMAIN content' = Items /\ content' = [i \in Items |-> content'[i]]
        /\ asked' = [i \in Items |-> asked'[i]]
    BY DEF LockPublished
  <1>5. ASSUME NEW i \in Items
        PROVE  /\ content'[i] \in Content /\ asked'[i] \in Asking
               /\ ItemOK(content'[i], opened[i], asked'[i])
    <2>1. /\ content[i] \in Content /\ asked[i] \in Asking
          /\ ItemOK(content[i], opened[i], asked[i])
      BY ItemFacts
    <2>2. CASE content'[i] = content[i] /\ asked'[i] = asked[i]
      BY <2>1, <2>2
    <2>3. CASE /\ content'[i] = [content[i] EXCEPT !.locked = TRUE]
               /\ asked'[i] = [asked[i] EXCEPT !.locked = TRUE]
      <3>1. /\ content'[i] \in Content /\ content'[i].locked = TRUE
            /\ content'[i].status = content[i].status /\ content'[i].kind = content[i].kind
            /\ content'[i].releases = content[i].releases /\ content'[i].deck = content[i].deck
        BY <2>1, <2>3 DEF Content
      <3>2. /\ asked'[i] \in Asking /\ asked'[i].locked = TRUE
            /\ asked'[i].status = asked[i].status
        BY <2>1, <2>3 DEF Asking
      <3> QED BY <2>1, <3>1, <3>2 DEF ItemOK, ShownReleases, DeckShown
    <2> QED BY <1>3, <2>2, <2>3
  <1>6. content' \in [Items -> Content] /\ asked' \in [Items -> Asking]
    BY <1>4, <1>5
  <1>7. ItemsOK' /\ JobsOK'
    BY <1>1, <1>2, <1>5 DEF ItemsOK, JobsOK
  <1>8. GateTypeOK'
    BY <1>1, <1>2, <1>5, <1>6 DEF GateTypeOK, Asking, ItemOK
  <1> QED BY <1>7, <1>8 DEF GateInv

LEMMA CapstoneKeepsGate ==
    ASSUME GateInv, NEW i \in Items, NEW cohort \in Cohorts \cup {None},
           ImportCapstone(i, cohort)
    PROVE  GateInv'
  <1> DEFINE doc == [content[i] EXCEPT !.status = "published", !.locked = TRUE,
                                       !.role = "all", !.cohort = cohort]
             ask == [asked[i] EXCEPT !.locked = TRUE, !.status = "published"]
             open == [opened[i] EXCEPT !.published = TRUE]
  <1>1. /\ content[i] \in Content /\ opened[i] \in Opening /\ asked[i] \in Asking
        /\ ItemOK(content[i], opened[i], asked[i]) /\ GateTypeOK
        /\ bucket \in [Items -> Listing] /\ job \in [Slots -> [Items -> Job \cup {None}]]
    BY ItemFacts
  <1>2. /\ content' = [content EXCEPT ![i] = doc] /\ Request /\ UNCHANGED <<bucket, job>>
    BY <1>1 DEF ImportCapstone, GateTypeOK
  <1>3. /\ asked' = [asked EXCEPT ![i] = ask] /\ opened' = [opened EXCEPT ![i] = open]
    BY <1>1 DEF ImportCapstone, GateTypeOK
  <1>4. "published" \in Statuses /\ "all" \in Roles
    BY DEF Statuses, Roles
  <1>5. doc \in Content /\ doc.locked = TRUE /\ doc.status = "published"
        /\ doc.releases = content[i].releases /\ doc.kind = content[i].kind
        /\ doc.deck = content[i].deck
    BY <1>1, <1>4 DEF Content
  <1>6. ask \in Asking /\ ask.locked = TRUE /\ ask.status = "published"
    BY <1>1, <1>4 DEF Asking
  <1>7. /\ open \in Opening /\ open.published = TRUE /\ open.item = opened[i].item
        /\ open.releases = opened[i].releases /\ open.deck = opened[i].deck
    BY <1>1 DEF Opening
  <1> HIDE DEF doc, ask, open
  <1>8. ItemOK(doc, open, ask) /\ Grows(opened[i], open)
    BY <1>1, <1>5, <1>6, <1>7 DEF ItemOK, ShownReleases, DeckShown, Grows
  <1> QED BY <1>1, <1>2, <1>3, <1>5, <1>6, <1>7, <1>8, RequestTypes, OneItem

-----------------------------------------------------------------------------
(* Releases.                                                               *)

LEMMA UnlockedReleases ==
    ASSUME NEW releases \in ReleaseMaps
    PROVE  /\ {r \in DOMAIN releases : releases[r]} \subseteq Releases
           /\ Unlocks(releases) <=> {r \in DOMAIN releases : releases[r]} # {}
  <1>1. PICK S \in SUBSET Releases : releases \in [S -> BOOLEAN]
    BY DEF ReleaseMaps
  <1>2. releases # None
    BY ContentGateAssumption
  <1> QED BY <1>1, <1>2 DEF Unlocks

LEMMA NoReleases == ~Unlocks(None)
    BY DEF Unlocks

\* What WithReleases does to a document.
LEMMA WithReleasesDoc ==
    ASSUME NEW doc \in Content, NEW releases \in ReleaseMaps \cup {None}
    PROVE  LET new == WithReleases(doc, releases)
           IN /\ new \in Content /\ new.kind = doc.kind /\ new.deck = doc.deck
              /\ new.releases = releases
              /\ IF Unlocks(releases)
                 THEN new.status = "published" /\ new.locked = FALSE
                 ELSE new.status = doc.status /\ new.locked = doc.locked
              /\ ShownReleases(new) \subseteq Releases
              /\ Unlocks(releases) <=> ShownReleases(new) # {}
              /\ ShownReleases(new) =
                   IF releases = None THEN {} ELSE {r \in DOMAIN releases : releases[r]}
  <1> DEFINE new == WithReleases(doc, releases)
             RM == ReleaseMaps \cup {None}
  <1>1. /\ new \in Content /\ new.kind = doc.kind /\ new.deck = doc.deck
        /\ new.releases = releases
    <2>1. /\ Content = [kind : Kinds, status : Statuses, locked : BOOLEAN \cup {None},
                        role : Roles, cohort : Cohorts \cup {None}, releases : RM,
                        deck : Deck \cup {None}]
          /\ releases \in RM /\ "published" \in Statuses
      BY DEF Content, Statuses
    <2> HIDE DEF RM
    <2> QED BY <2>1 DEF WithReleases
  <1>2. IF Unlocks(releases)
        THEN new.status = "published" /\ new.locked = FALSE
        ELSE new.status = doc.status /\ new.locked = doc.locked
    <2>1. CASE Unlocks(releases)
      BY <2>1 DEF WithReleases, Content
    <2>2. CASE ~Unlocks(releases)
      BY <2>2 DEF WithReleases, Content
    <2> QED BY <2>1, <2>2
  <1> HIDE DEF new
  <1>3. ShownReleases(new) =
          IF releases = None THEN {} ELSE {r \in DOMAIN releases : releases[r]}
    BY <1>1 DEF ShownReleases
  <1>4. /\ ShownReleases(new) \subseteq Releases
        /\ Unlocks(releases) <=> ShownReleases(new) # {}
    <2>1. CASE releases = None
      BY <1>3, <2>1, NoReleases
    <2>2. CASE releases # None
      BY <1>3, <2>2, UnlockedReleases
    <2> QED BY <2>1, <2>2
  <1> QED BY <1>1, <1>2, <1>3, <1>4 DEF new

LEMMA MechanicsKeepsGate ==
    ASSUME GateInv, NEW i \in Items, NEW releases \in ReleaseMaps \cup {None},
           SetMechanics(i, releases)
    PROVE  GateInv'
  <1> DEFINE doc == WithReleases(content[i], releases)
             shown == ShownReleases(doc)
             unlocks == Unlocks(releases)
             locked == asked[i].locked /\ ~unlocks
             status == IF unlocks THEN "published" ELSE asked[i].status
             item == opened[i].item \/ unlocks
             published == opened[i].published \/ unlocks
             ask == [asked[i] EXCEPT !.releases = shown, !.locked = locked, !.status = status]
             open == [opened[i] EXCEPT !.releases = opened[i].releases \cup shown,
                                       !.item = item, !.published = published]
  <1>1. /\ content[i] \in Content /\ opened[i] \in Opening /\ asked[i] \in Asking
        /\ ItemOK(content[i], opened[i], asked[i]) /\ GateTypeOK
        /\ bucket \in [Items -> Listing] /\ job \in [Slots -> [Items -> Job \cup {None}]]
    BY ItemFacts
  <1>2. /\ doc \in Content /\ doc.kind = content[i].kind /\ doc.deck = content[i].deck
        /\ doc.releases = releases
        /\ IF unlocks THEN doc.status = "published" /\ doc.locked = FALSE
                      ELSE doc.status = content[i].status /\ doc.locked = content[i].locked
        /\ shown \subseteq Releases /\ (unlocks <=> shown # {})
        /\ shown = IF releases = None THEN {} ELSE {r \in DOMAIN releases : releases[r]}
    BY <1>1, WithReleasesDoc
  <1>3. /\ content' = [content EXCEPT ![i] = doc] /\ Request /\ UNCHANGED <<bucket, job>>
        /\ content[i].kind = "challenge"
    BY <1>1 DEF SetMechanics, GateTypeOK
  <1> HIDE DEF doc, shown
  <1>4. asked' = [asked EXCEPT ![i] = ask]
    BY <1>1, <1>2 DEF SetMechanics, GateTypeOK
  <1>5. opened' = [opened EXCEPT ![i] = open]
    BY <1>1, <1>2 DEF SetMechanics, GateTypeOK
  <1>6. /\ locked \in BOOLEAN /\ item \in BOOLEAN /\ published \in BOOLEAN
        /\ locked <=> asked[i].locked /\ ~unlocks
        /\ item <=> opened[i].item \/ unlocks
        /\ published <=> opened[i].published \/ unlocks
    OBVIOUS
  <1>7. status \in Statuses /\ (unlocks => status = "published")
        /\ (~unlocks => status = asked[i].status)
    BY <1>1 DEF Asking, Statuses
  <1>8. opened[i].releases \cup shown \subseteq Releases
    BY <1>1, <1>2 DEF Opening
  <1> HIDE DEF unlocks, locked, status, item, published
  <1>9. ask \in Asking /\ ask.locked = locked /\ ask.status = status
    BY <1>1, <1>2, <1>6, <1>7 DEF Asking
  <1>10. /\ open \in Opening /\ open.item = item /\ open.published = published
         /\ open.releases = opened[i].releases \cup shown /\ open.deck = opened[i].deck
    BY <1>1, <1>6, <1>8 DEF Opening
  <1> HIDE DEF ask, open
  <1>11. ItemOK(doc, open, ask)
    <2>1. /\ doc.locked = FALSE => open.item
          /\ doc.status = "published" => open.published
      BY <1>1, <1>2, <1>6, <1>10 DEF ItemOK
    <2>2. open.releases # {} => open.item /\ open.published
      BY <1>1, <1>2, <1>6, <1>10 DEF ItemOK
    <2>3. open.releases = {} => /\ doc.status = ask.status
                                /\ doc.locked = FALSE <=> ~ask.locked
      BY <1>1, <1>2, <1>6, <1>7, <1>9, <1>10 DEF ItemOK
    <2>4. /\ ShownReleases(doc) \subseteq open.releases /\ (DeckShown(doc) => open.deck)
          /\ doc.kind = "challenge"
      BY <1>1, <1>2, <1>3, <1>10 DEF ItemOK, DeckShown, shown
    <2> QED BY <2>1, <2>2, <2>3, <2>4 DEF ItemOK
  <1>12. Grows(opened[i], open)
    BY <1>10 DEF Grows
  <1> QED BY <1>1, <1>2, <1>3, <1>4, <1>5, <1>9, <1>10, <1>11, <1>12, RequestTypes, OneItem

LEMMA SaveKeepsGate ==
    ASSUME GateInv, NEW i \in Items, NEW edit \in Edits, SaveContent(i, edit)
    PROVE  GateInv'
  <1> DEFINE releases == IF edit.releases = None THEN content[i].releases ELSE edit.releases
             cohort == IF edit.cohort = None THEN content[i].cohort ELSE edit.cohort
             shown == ShownReleases([content[i] EXCEPT !.releases = releases])
             RM == ReleaseMaps \cup {None}
             CS == Cohorts \cup {None}
             item == opened[i].item \/ ~edit.locked \/ Unlocks(edit.releases)
             published == opened[i].published \/ edit.status = "published"
                                              \/ Unlocks(edit.releases)
             doc == [content[i] EXCEPT !.status = edit.status, !.locked = edit.locked,
                                       !.role = edit.role, !.releases = releases,
                                       !.cohort = cohort]
             ask == [asked[i] EXCEPT !.status = edit.status, !.locked = edit.locked,
                                     !.releases = shown]
             open == [opened[i] EXCEPT !.published = published, !.item = item,
                                       !.releases = opened[i].releases \cup shown]
  <1>1. /\ content[i] \in Content /\ opened[i] \in Opening /\ asked[i] \in Asking
        /\ ItemOK(content[i], opened[i], asked[i]) /\ GateTypeOK
        /\ bucket \in [Items -> Listing] /\ job \in [Slots -> [Items -> Job \cup {None}]]
    BY ItemFacts
  <1>2. /\ edit.status \in Statuses /\ edit.locked \in BOOLEAN /\ edit.role \in Roles
        /\ edit.cohort \in CS /\ edit.releases \in RM
    BY ContentGateAssumption DEF Edit
  <1>3. content' = [content EXCEPT ![i] = doc] /\ Request /\ UNCHANGED <<bucket, job>>
    BY <1>1 DEF SaveContent, GateTypeOK
  <1>4. asked' = [asked EXCEPT ![i] = ask]
    BY <1>1 DEF SaveContent, GateTypeOK
  <1>5. opened' = [opened EXCEPT ![i] = open]
    BY <1>1 DEF SaveContent, GateTypeOK
  <1>6. content[i].kind # "challenge" => edit.releases = None
    BY DEF SaveContent
  <1>7. /\ Content = [kind : Kinds, status : Statuses, locked : BOOLEAN \cup {None},
                      role : Roles, cohort : CS, releases : RM, deck : Deck \cup {None}]
        /\ edit.locked \in BOOLEAN \cup {None}
    BY <1>2 DEF Content
  <1>8. /\ releases \in RM /\ cohort \in CS
        /\ edit.releases = None => releases = content[i].releases
        /\ edit.releases # None => releases = edit.releases
    BY <1>1, <1>2 DEF Content
  <1>9. shown = IF releases = None THEN {} ELSE {r \in DOMAIN releases : releases[r]}
    <2> HIDE DEF releases
    <2>1. [content[i] EXCEPT !.releases = releases].releases = releases
      BY <1>1 DEF Content
    <2> HIDE DEF RM
    <2> QED BY <2>1 DEF ShownReleases
  <1>10. /\ item \in BOOLEAN /\ published \in BOOLEAN
         /\ item <=> opened[i].item \/ ~edit.locked \/ Unlocks(edit.releases)
         /\ published <=> opened[i].published \/ edit.status = "published"
                                              \/ Unlocks(edit.releases)
    OBVIOUS
  <1>11. shown \subseteq Releases /\ (Unlocks(releases) <=> shown # {})
    <2>1. CASE releases = None
      BY <1>9, <2>1, NoReleases
    <2>2. CASE releases # None
      BY <1>8, <1>9, <2>2, UnlockedReleases
    <2> QED BY <2>1, <2>2
  <1> HIDE DEF releases, cohort, shown, RM, CS, item, published
  <1>12. /\ doc \in Content /\ doc.status = edit.status /\ doc.locked = edit.locked
         /\ doc.releases = releases /\ doc.kind = content[i].kind /\ doc.deck = content[i].deck
    BY <1>1, <1>2, <1>7, <1>8
  <1>13. ask \in Asking /\ ask.locked = edit.locked /\ ask.status = edit.status
    BY <1>1, <1>2, <1>11 DEF Asking
  <1>14. opened[i].releases \cup shown \subseteq Releases
    BY <1>1, <1>11 DEF Opening
  <1>15. /\ open \in Opening /\ open.item = item /\ open.published = published
         /\ open.releases = opened[i].releases \cup shown /\ open.deck = opened[i].deck
    BY <1>1, <1>10, <1>14 DEF Opening
  <1> HIDE DEF doc, ask, open
  <1>16. ShownReleases(doc) = shown
    BY <1>9, <1>12 DEF ShownReleases
  <1>17. edit.releases = None => shown \subseteq opened[i].releases
    BY <1>1, <1>8, <1>9 DEF ItemOK, ShownReleases
  <1>18. ItemOK(doc, open, ask)
    <2>1. /\ doc.locked = FALSE => open.item
          /\ doc.status = "published" => open.published
      BY <1>10, <1>12, <1>15
    <2>2. open.releases # {} => open.item /\ open.published
      BY <1>1, <1>8, <1>10, <1>11, <1>15, <1>17 DEF ItemOK
    <2>3. /\ doc.status = ask.status
          /\ doc.locked = FALSE <=> ~ask.locked
      BY <1>2, <1>12, <1>13
    <2>4. /\ ShownReleases(doc) \subseteq open.releases /\ (DeckShown(doc) => open.deck)
          /\ doc.kind # "challenge" => doc.releases = None
      BY <1>1, <1>6, <1>8, <1>12, <1>15, <1>16 DEF ItemOK, DeckShown
    <2> QED BY <2>1, <2>2, <2>3, <2>4 DEF ItemOK
  <1>19. Grows(opened[i], open)
    BY <1>15 DEF Grows
  <1> QED BY <1>1, <1>3, <1>4, <1>5, <1>12, <1>13, <1>15, <1>18, <1>19, RequestTypes, OneItem

-----------------------------------------------------------------------------
(* Jobs.                                                                   *)

LEMMA UploadKeepsGate ==
    ASSUME GateInv, NEW i \in Items, Upload(i)
    PROVE  GateInv'
  <1>1. GateTypeOK /\ Request /\ UNCHANGED <<content, job, opened, asked>>
        /\ bucket[i] \in Listing
    BY DEF GateInv, GateTypeOK, Upload
  <1>2. bucket' \in [Items -> Listing]
    <2>1. CASE \E releases \in SUBSET Releases : bucket' = [bucket EXCEPT ![i].releases = releases]
      <3>1. PICK releases \in SUBSET Releases : bucket' = [bucket EXCEPT ![i].releases = releases]
        BY <2>1
      <3>2. [bucket[i] EXCEPT !.releases = releases] \in Listing
        BY <1>1 DEF Listing
      <3> QED BY <1>1, <3>1, <3>2 DEF GateTypeOK
    <2>2. CASE bucket[i].version < MaxVersion /\ bucket' = [bucket EXCEPT ![i].version = @ + 1]
      <3>1. [bucket[i] EXCEPT !.version = bucket[i].version + 1] \in Listing
        BY <1>1, <2>2, ContentGateAssumption DEF Listing
      <3> QED BY <1>1, <2>2, <3>1 DEF GateTypeOK
    <2> QED BY <2>1, <2>2 DEF Upload
  <1>3. job' \in [Slots -> [Items -> Job \cup {None}]]
    BY <1>1 DEF GateTypeOK
  <1> QED BY <1>1, <1>2, <1>3, RequestTypes, OnlyJobs

LEMMA OneJob ==
    ASSUME GateTypeOK, NEW s \in Slots, NEW i \in Items, NEW j \in Job \cup {None},
           job' = [job EXCEPT ![s][i] = j]
    PROVE  /\ job' \in [Slots -> [Items -> Job \cup {None}]]
           /\ \A t \in Slots, k \in Items :
                job'[t][k] = IF t = s /\ k = i THEN j ELSE job[t][k]
  <1>1. job \in [Slots -> [Items -> Job \cup {None}]]
    BY DEF GateTypeOK
  <1> DEFINE row == [job[s] EXCEPT ![i] = j]
  <1>2. job' = [job EXCEPT ![s] = row]
    BY <1>1
  <1>3. row \in [Items -> Job \cup {None}]
        /\ \A k \in Items : row[k] = IF k = i THEN j ELSE job[s][k]
    BY <1>1
  <1> HIDE DEF row
  <1> QED BY <1>1, <1>2, <1>3

LEMMA NewJobTyped ==
    ASSUME GateTypeOK, NEW i \in Items, NEW writes \in {"releases", "deck", "deck lock"}
    PROVE  /\ NewJob(i, writes) \in Job /\ NewJob(i, writes).seen = content[i]
           /\ NewJob(i, writes).found = None
    BY DEF GateTypeOK, NewJob, Job

LEMMA StartKeepsGate ==
    ASSUME GateInv, NEW i \in Items,
           StartDeckLock(i) \/ \E writes \in {"releases", "deck"} : StartImport(i, writes)
    PROVE  GateInv'
  <1>1. /\ GateTypeOK /\ Request /\ UNCHANGED <<content, bucket, opened, asked>>
        /\ bucket' \in [Items -> Listing]
    BY DEF GateInv, GateTypeOK, StartDeckLock, StartImport
  <1>2. PICK s \in Slots, writes \in {"releases", "deck", "deck lock"} :
           job' = [job EXCEPT ![s][i] = NewJob(i, writes)]
    BY DEF StartDeckLock, StartImport, Slots
  <1>3. /\ job' \in [Slots -> [Items -> Job \cup {None}]]
        /\ \A t \in Slots, k \in Items :
             job'[t][k] = IF t = s /\ k = i THEN NewJob(i, writes) ELSE job[t][k]
    BY <1>1, <1>2, NewJobTyped, OneJob
  <1>4. NewJob(i, writes).seen = content[i]
    BY <1>1, NewJobTyped
  <1> QED BY <1>1, <1>3, <1>4, RequestTypes, OnlyJobs

LEMMA StartSyncKeepsGate ==
    ASSUME GateInv, StartSync
    PROVE  GateInv'
  <1>1. /\ GateTypeOK /\ Request /\ UNCHANGED <<content, bucket, opened, asked>>
        /\ bucket' \in [Items -> Listing]
    BY DEF GateInv, GateTypeOK, StartSync
  <1>2. PICK S \in SUBSET {i \in Items : SyncWrites(content[i]) # {}} :
           job' = [job EXCEPT !["sync"] =
                     [i \in Items |-> IF i \in S
                                      THEN NewJob(i, CHOOSE w \in SyncWrites(content[i]) : TRUE)
                                      ELSE None]]
    BY DEF StartSync
  <1> DEFINE chosen(i) == CHOOSE w \in SyncWrites(content[i]) : TRUE
             row == [i \in Items |-> IF i \in S THEN NewJob(i, chosen(i)) ELSE None]
  <1>3. ASSUME NEW i \in S
        PROVE  NewJob(i, chosen(i)) \in Job /\ NewJob(i, chosen(i)).seen = content[i]
    <2>1. i \in Items /\ SyncWrites(content[i]) # {}
      OBVIOUS
    <2>2. SyncWrites(content[i]) \subseteq {"releases", "deck"}
      BY DEF SyncWrites
    <2>3. chosen(i) \in {"releases", "deck", "deck lock"}
      BY <2>1, <2>2
    <2> HIDE DEF chosen
    <2> QED BY <1>1, <2>1, <2>3, NewJobTyped
  <1> HIDE DEF chosen
  <1>4. /\ row \in [Items -> Job \cup {None}]
        /\ \A i \in Items : row[i] # None => row[i].seen = content[i]
    BY <1>3
  <1>5. job' = [job EXCEPT !["sync"] = row] /\ "sync" \in Slots
    BY <1>2 DEF Slots, chosen
  <1> HIDE DEF row
  <1>6. /\ job' \in [Slots -> [Items -> Job \cup {None}]]
        /\ \A t \in Slots : job'[t] = IF t = "sync" THEN row ELSE job[t]
    BY <1>1, <1>4, <1>5 DEF GateTypeOK
  <1> QED BY <1>1, <1>4, <1>6, RequestTypes, OnlyJobs

\* A job that lists, or fails, goes on with what it has read or ends.
LEMMA ListingShape ==
    ASSUME GateTypeOK, NEW s \in Slots, NEW i \in Items, ListBucket(s, i) \/ JobFails(s, i)
    PROVE  /\ job[s][i] # None
           /\ UNCHANGED <<content, bucket, opened, asked, requests, overlap>>
           /\ job' \in [Slots -> [Items -> Job \cup {None}]]
           /\ \A t \in Slots, k \in Items : t # s \/ k # i => job'[t][k] = job[t][k]
           /\ job'[s][i] # None => job'[s][i].seen = job[s][i].seen
  <1>1. /\ job[s][i] # None /\ UNCHANGED <<content, bucket, opened, asked, requests, overlap>>
    BY DEF ListBucket, JobFails
  <1>2. /\ job \in [Slots -> [Items -> Job \cup {None}]] /\ job[s][i] \in Job
        /\ bucket[i] \in Listing
    BY <1>1 DEF GateTypeOK
  <1>3. CASE job' = [job EXCEPT ![s][i] = None]
    BY <1>1, <1>3, OneJob
  <1>4. CASE job' = [job EXCEPT ![s][i].found = bucket[i]]
    <2> DEFINE LN == Listing \cup {None}
               j == [job[s][i] EXCEPT !.found = bucket[i]]
    <2>1. /\ Job = [writes : {"releases", "deck", "deck lock"}, seen : Content, found : LN]
          /\ bucket[i] \in LN
      BY <1>2 DEF Job
    <2> HIDE DEF LN
    <2>2. j \in Job /\ j.seen = job[s][i].seen
      BY <1>2, <2>1
    <2>3. job' = [job EXCEPT ![s][i] = j]
      BY <1>2, <1>4
    <2> HIDE DEF j
    <2>4. /\ job' \in [Slots -> [Items -> Job \cup {None}]]
          /\ \A t \in Slots, k \in Items :
               job'[t][k] = IF t = s /\ k = i THEN j ELSE job[t][k]
      BY <2>2, <2>3, OneJob
    <2> QED BY <1>1, <2>2, <2>4
  <1> QED BY <1>3, <1>4 DEF ListBucket, JobFails

LEMMA ListingKeepsGate ==
    ASSUME GateInv, NEW s \in Slots, NEW i \in Items, ListBucket(s, i) \/ JobFails(s, i)
    PROVE  GateInv'
  <1>1. GateTypeOK
    BY DEF GateInv
  <1>2. /\ job[s][i] # None
        /\ UNCHANGED <<content, bucket, opened, asked, requests, overlap>>
    BY <1>1, ListingShape
  <1>3. /\ job' \in [Slots -> [Items -> Job \cup {None}]]
        /\ \A t \in Slots, k \in Items : t # s \/ k # i => job'[t][k] = job[t][k]
        /\ job'[s][i] # None => job'[s][i].seen = job[s][i].seen
    BY <1>1, ListingShape
  <1>4. \A t \in Slots, k \in Items : job'[t][k] # None =>
               \/ job'[t][k].seen = content[k]
               \/ job[t][k] # None /\ job'[t][k].seen = job[t][k].seen
    BY <1>2, <1>3
  <1>5. bucket' \in [Items -> Listing] /\ requests' \in 0..MaxRequests /\ overlap' \in BOOLEAN
    BY <1>1, <1>2 DEF GateTypeOK
  <1> QED BY <1>2, <1>3, <1>4, <1>5, OnlyJobs

\* The releases that an import writes were unlocked when it read the document.
LEMMA MergedReleases ==
    ASSUME NEW old \in ReleaseMaps \cup {None}, NEW found \in SUBSET Releases
    PROVE  /\ Merged(old, found) \in ReleaseMaps
           /\ {r \in DOMAIN Merged(old, found) : Merged(old, found)[r]} \subseteq
                IF old = None THEN {} ELSE {r \in DOMAIN old : old[r]}
  <1>1. old # None => \A r \in DOMAIN old : old[r] \in BOOLEAN
    BY DEF ReleaseMaps
  <1> DEFINE value(r) == IF old # None /\ r \in DOMAIN old THEN old[r] ELSE FALSE
  <1>2. \A r \in found : value(r) \in BOOLEAN
    BY <1>1
  <1>3. Merged(old, found) = [r \in found |-> value(r)]
    BY DEF Merged
  <1>4. \A r \in found : value(r) => old # None /\ r \in DOMAIN old /\ old[r]
    OBVIOUS
  <1> HIDE DEF value
  <1>5. Merged(old, found) \in [found -> BOOLEAN]
    BY <1>2, <1>3
  <1>6. Merged(old, found) \in ReleaseMaps
    BY <1>5 DEF ReleaseMaps
  <1>7. \A r \in DOMAIN Merged(old, found) :
           Merged(old, found)[r] => old # None /\ r \in DOMAIN old /\ old[r]
    BY <1>3, <1>4
  <1> QED BY <1>6, <1>7

LEMMA WriteReleasesKeepsGate ==
    ASSUME GateInv, NEW s \in Slots, NEW i \in Items, WriteReleases(s, i)
    PROVE  GateInv'
  <1> DEFINE seen == job[s][i].seen
             found == job[s][i].found
             merged == Merged(seen.releases, found.releases)
             doc == WithReleases(content[i], merged)
  <1>1. /\ content[i] \in Content /\ opened[i] \in Opening /\ asked[i] \in Asking
        /\ ItemOK(content[i], opened[i], asked[i]) /\ GateTypeOK
        /\ bucket \in [Items -> Listing] /\ job \in [Slots -> [Items -> Job \cup {None}]]
    BY ItemFacts
  <1>2. /\ job[s][i] # None /\ found # None /\ Imports(content[i], "releases")
        /\ job' = [job EXCEPT ![s][i] = None]
        /\ UNCHANGED <<bucket, opened, asked, requests, overlap>>
    BY DEF WriteReleases
  <1>3. job[s][i] \in Job /\ JobOK(job[s][i], opened[i])
    BY <1>1, <1>2 DEF GateInv, JobsOK
  <1>4. seen \in Content /\ found \in Listing
    BY <1>2, <1>3 DEF Job
  <1>5. seen.releases \in ReleaseMaps \cup {None} /\ found.releases \in SUBSET Releases
    BY <1>4 DEF Content, Listing
  <1>6. /\ merged \in ReleaseMaps /\ merged # None
        /\ {r \in DOMAIN merged : merged[r]} \subseteq ShownReleases(seen)
    BY <1>5, MergedReleases, ContentGateAssumption DEF ShownReleases
  <1>7. /\ content' = [content EXCEPT ![i] = doc]
        /\ opened' = [opened EXCEPT ![i] = opened[i]]
        /\ asked' = [asked EXCEPT ![i] = asked[i]]
    BY <1>1, <1>2 DEF WriteReleases, GateTypeOK
  <1> HIDE DEF merged
  <1>8. /\ doc \in Content /\ doc.kind = content[i].kind /\ doc.deck = content[i].deck
        /\ doc.releases = merged
        /\ IF Unlocks(merged) THEN doc.status = "published" /\ doc.locked = FALSE
                              ELSE doc.status = content[i].status /\ doc.locked = content[i].locked
        /\ (Unlocks(merged) <=> ShownReleases(doc) # {})
        /\ ShownReleases(doc) = {r \in DOMAIN merged : merged[r]}
    <2>1. merged \in ReleaseMaps \cup {None}
      BY <1>6
    <2>2. /\ doc \in Content /\ doc.kind = content[i].kind /\ doc.deck = content[i].deck
          /\ doc.releases = merged
          /\ IF Unlocks(merged)
             THEN doc.status = "published" /\ doc.locked = FALSE
             ELSE doc.status = content[i].status /\ doc.locked = content[i].locked
          /\ ShownReleases(doc) \subseteq Releases
          /\ Unlocks(merged) <=> ShownReleases(doc) # {}
          /\ ShownReleases(doc) =
               IF merged = None THEN {} ELSE {r \in DOMAIN merged : merged[r]}
      BY <1>1, <2>1, WithReleasesDoc
    <2> HIDE DEF doc
    <2> QED BY <1>6, <2>2
  <1>9. content[i].kind = "challenge"
    BY <1>2 DEF Imports
  <1> HIDE DEF doc
  <1>10. ShownReleases(doc) \subseteq opened[i].releases
    BY <1>3, <1>6, <1>8 DEF JobOK
  <1>11. ItemOK(doc, opened[i], asked[i])
    <2>1. CASE Unlocks(merged)
      BY <1>1, <1>8, <1>9, <1>10, <2>1 DEF ItemOK, DeckShown
    <2>2. CASE ~Unlocks(merged)
      BY <1>1, <1>8, <1>9, <1>10, <2>2 DEF ItemOK, DeckShown
    <2> QED BY <2>1, <2>2
  <1>12. Grows(opened[i], opened[i])
    BY DEF Grows
  <1>13. /\ job' \in [Slots -> [Items -> Job \cup {None}]]
         /\ \A t \in Slots, k \in Items : job'[t][k] # None => job'[t][k] = job[t][k]
    BY <1>1, <1>2, OneJob
  <1>14. bucket' \in [Items -> Listing] /\ requests' \in 0..MaxRequests /\ overlap' \in BOOLEAN
    BY <1>1, <1>2 DEF GateTypeOK
  <1> QED BY <1>1, <1>7, <1>8, <1>11, <1>12, <1>13, <1>14, OneItem

LEMMA WriteDeckKeepsGate ==
    ASSUME GateInv, NEW s \in Slots, NEW i \in Items, WriteDeck(s, i)
    PROVE  GateInv'
  <1> DEFINE seen == job[s][i].seen
             found == job[s][i].found
             new == DeckFrom(seen, found)
             DN == Deck \cup {None}
             doc == [content[i] EXCEPT !.deck = new]
             ask == [asked[i] EXCEPT !.version = found.version]
  <1>1. /\ content[i] \in Content /\ opened[i] \in Opening /\ asked[i] \in Asking
        /\ ItemOK(content[i], opened[i], asked[i]) /\ GateTypeOK
        /\ bucket \in [Items -> Listing] /\ job \in [Slots -> [Items -> Job \cup {None}]]
    BY ItemFacts
  <1>2. /\ job[s][i] # None /\ found # None
        /\ job' = [job EXCEPT ![s][i] = None]
        /\ UNCHANGED <<bucket, opened, requests, overlap>>
    BY DEF WriteDeck
  <1>3. job[s][i] \in Job /\ JobOK(job[s][i], opened[i])
    BY <1>1, <1>2 DEF GateInv, JobsOK
  <1>4. seen \in Content /\ found \in Listing
    BY <1>2, <1>3 DEF Job
  <1>5. /\ content' = [content EXCEPT ![i] = doc] /\ asked' = [asked EXCEPT ![i] = ask]
        /\ opened' = [opened EXCEPT ![i] = opened[i]]
    BY <1>1, <1>2 DEF WriteDeck, GateTypeOK
  <1>6. found.version \in 0..MaxVersion
    BY <1>4 DEF Listing
  <1>7. new \in Deck
    BY <1>6 DEF DeckFrom, Deck
  <1>8. new.unlocked => DeckShown(seen)
    BY DEF DeckFrom, DeckShown
  <1>9. /\ Content = [kind : Kinds, status : Statuses, locked : BOOLEAN \cup {None},
                      role : Roles, cohort : Cohorts \cup {None},
                      releases : ReleaseMaps \cup {None}, deck : DN]
        /\ new \in DN /\ new # None
    BY <1>7, ContentGateAssumption DEF Content
  <1> HIDE DEF new, DN, found, seen
  <1>10. /\ doc \in Content /\ doc.status = content[i].status /\ doc.locked = content[i].locked
         /\ doc.releases = content[i].releases /\ doc.kind = content[i].kind
         /\ doc.deck = new
    BY <1>1, <1>9
  <1>11. ask \in Asking /\ ask.status = asked[i].status /\ ask.locked = asked[i].locked
    BY <1>1, <1>6 DEF Asking
  <1> HIDE DEF doc, ask
  <1>12. DeckShown(doc) => opened[i].deck
    BY <1>3, <1>8, <1>10 DEF DeckShown, JobOK, seen
  <1>13. ItemOK(doc, opened[i], ask)
    BY <1>1, <1>10, <1>11, <1>12 DEF ItemOK, ShownReleases
  <1>14. Grows(opened[i], opened[i])
    BY DEF Grows
  <1>15. /\ job' \in [Slots -> [Items -> Job \cup {None}]]
         /\ \A t \in Slots, k \in Items : job'[t][k] # None => job'[t][k] = job[t][k]
    BY <1>1, <1>2, OneJob
  <1>16. bucket' \in [Items -> Listing] /\ requests' \in 0..MaxRequests /\ overlap' \in BOOLEAN
    BY <1>1, <1>2 DEF GateTypeOK
  <1> QED BY <1>1, <1>5, <1>10, <1>11, <1>13, <1>14, <1>15, <1>16, OneItem

LEMMA WriteDeckLockKeepsGate ==
    ASSUME GateInv, NEW i \in Items, NEW unlocked \in BOOLEAN, WriteDeckLock(i, unlocked)
    PROVE  GateInv'
  <1> DEFINE seen == job["deck lock"][i].seen
             new == DeckLocked(seen, unlocked)
             DN == Deck \cup {None}
             b == opened[i].deck \/ unlocked
             doc == [content[i] EXCEPT !.deck = new]
             ask == [asked[i] EXCEPT !.deck = unlocked]
             open == [opened[i] EXCEPT !.deck = b]
  <1>1. /\ content[i] \in Content /\ opened[i] \in Opening /\ asked[i] \in Asking
        /\ ItemOK(content[i], opened[i], asked[i]) /\ GateTypeOK
        /\ bucket \in [Items -> Listing] /\ job \in [Slots -> [Items -> Job \cup {None}]]
    BY ItemFacts
  <1>2. /\ job["deck lock"][i] # None /\ "deck lock" \in Slots
        /\ job' = [job EXCEPT !["deck lock"][i] = None]
        /\ UNCHANGED <<bucket, requests, overlap>>
    BY DEF WriteDeckLock, Slots
  <1>3. job["deck lock"][i] \in Job
    BY <1>1, <1>2
  <1>4. seen \in Content
    BY <1>3 DEF Job
  <1>5. content' = [content EXCEPT ![i] = doc] /\ asked' = [asked EXCEPT ![i] = ask]
    BY <1>1, <1>2 DEF WriteDeckLock, GateTypeOK
  <1>6. opened' = [opened EXCEPT ![i] = open]
    BY <1>1, <1>2 DEF WriteDeckLock, GateTypeOK
  <1>7. new \in Deck /\ new.unlocked = unlocked
    <2>1. seen.deck # None => seen.deck \in Deck
      BY <1>4 DEF Content
    <2>2. (IF seen.deck = None THEN 0 ELSE seen.deck.version) \in 0..MaxVersion
      <3>1. 0 \in 0..MaxVersion
        BY ContentGateAssumption
      <3>2. seen.deck # None => seen.deck.version \in 0..MaxVersion
        BY <2>1 DEF Deck
      <3> HIDE DEF seen
      <3> QED BY <3>1, <3>2
    <2> HIDE DEF seen
    <2> QED BY <2>2 DEF DeckLocked, Deck
  <1>8. /\ Content = [kind : Kinds, status : Statuses, locked : BOOLEAN \cup {None},
                      role : Roles, cohort : Cohorts \cup {None},
                      releases : ReleaseMaps \cup {None}, deck : DN]
        /\ new \in DN
    BY <1>7 DEF Content
  <1>9. b \in BOOLEAN /\ (b <=> opened[i].deck \/ unlocked)
    OBVIOUS
  <1> HIDE DEF new, DN, seen, b
  <1>10. /\ doc \in Content /\ doc.status = content[i].status /\ doc.locked = content[i].locked
         /\ doc.releases = content[i].releases /\ doc.kind = content[i].kind
         /\ doc.deck = new
    BY <1>1, <1>8
  <1>11. ask \in Asking /\ ask.status = asked[i].status /\ ask.locked = asked[i].locked
    BY <1>1 DEF Asking
  <1>12. /\ open \in Opening /\ open.item = opened[i].item
         /\ open.published = opened[i].published
         /\ open.releases = opened[i].releases /\ open.deck = b
    BY <1>1, <1>9 DEF Opening
  <1> HIDE DEF doc, ask, open
  <1>13. ItemOK(doc, open, ask)
    BY <1>1, <1>7, <1>9, <1>10, <1>11, <1>12 DEF ItemOK, ShownReleases, DeckShown
  <1>14. Grows(opened[i], open)
    BY <1>9, <1>12 DEF Grows
  <1>15. /\ job' \in [Slots -> [Items -> Job \cup {None}]]
         /\ \A t \in Slots, k \in Items : job'[t][k] # None => job'[t][k] = job[t][k]
    <2>1. \A t \in Slots, k \in Items :
            job'[t][k] = IF t = "deck lock" /\ k = i THEN None ELSE job[t][k]
      BY <1>1, <1>2, OneJob
    <2>2. job' \in [Slots -> [Items -> Job \cup {None}]]
      BY <1>1, <1>2, OneJob
    <2> QED BY <2>1, <2>2
  <1>16. bucket' \in [Items -> Listing] /\ requests' \in 0..MaxRequests /\ overlap' \in BOOLEAN
    BY <1>1, <1>2 DEF GateTypeOK
  <1> QED BY <1>1, <1>5, <1>6, <1>10, <1>11, <1>12, <1>13, <1>14, <1>15, <1>16, OneItem

-----------------------------------------------------------------------------
(* The theorems.                                                           *)

LEMMA GateInvInit ==
    ASSUME GateInit
    PROVE  GateInv
  <1>1. content \in [Items -> Seeds] /\ Seeds \subseteq Content
    BY ContentGateAssumption DEF GateInit
  <1>2. ASSUME NEW i \in Items
        PROVE  /\ content[i] \in Content /\ opened[i] \in Opening /\ asked[i] \in Asking
               /\ ItemOK(content[i], opened[i], asked[i])
    <2> DEFINE doc == content[i]
               item == doc.locked = FALSE \/ Unlocks(doc.releases)
               published == doc.status = "published" \/ Unlocks(doc.releases)
               shown == ShownReleases(doc)
               deck == DeckShown(doc)
               locked == doc.locked # FALSE
               version == IF doc.deck = None THEN 0 ELSE doc.deck.version
    <2>1. doc \in Content /\ (doc.kind # "challenge" => doc.releases = None)
      BY <1>1, ContentGateAssumption
    <2>2. /\ opened[i] = [item |-> item, published |-> published, deck |-> deck,
                          releases |-> shown]
          /\ asked[i] = [locked |-> locked, status |-> doc.status, deck |-> deck,
                         releases |-> shown, version |-> version]
      BY DEF GateInit
    <2>3. /\ item \in BOOLEAN /\ published \in BOOLEAN /\ locked \in BOOLEAN
          /\ item <=> doc.locked = FALSE \/ Unlocks(doc.releases)
          /\ published <=> doc.status = "published" \/ Unlocks(doc.releases)
          /\ locked <=> doc.locked # FALSE
      OBVIOUS
    <2>4. deck \in BOOLEAN /\ version \in 0..MaxVersion
      <3>1. doc.deck # None => doc.deck \in Deck
        BY <2>1 DEF Content
      <3>2. doc.deck # None => doc.deck.unlocked \in BOOLEAN /\ doc.deck.version \in 0..MaxVersion
        BY <3>1 DEF Deck
      <3>3. 0 \in 0..MaxVersion
        BY ContentGateAssumption
      <3> HIDE DEF doc
      <3>4. version \in 0..MaxVersion
        BY <3>2, <3>3
      <3>5. deck \in BOOLEAN
        BY <3>2 DEF DeckShown
      <3> QED BY <3>4, <3>5
    <2>5. shown \subseteq Releases /\ (Unlocks(doc.releases) <=> shown # {})
      <3>1. doc.releases \in ReleaseMaps \cup {None}
        BY <2>1 DEF Content
      <3>2. CASE doc.releases = None
        BY <3>2, NoReleases DEF ShownReleases
      <3>3. CASE doc.releases # None
        BY <3>1, <3>3, UnlockedReleases DEF ShownReleases
      <3> QED BY <3>2, <3>3
    <2>6. doc.status \in Statuses
      BY <2>1 DEF Content
    <2>7. deck = DeckShown(doc) /\ shown = ShownReleases(doc)
      OBVIOUS
    <2> HIDE DEF doc, item, published, shown, deck, locked, version
    <2>8. opened[i] \in Opening /\ asked[i] \in Asking
      BY <2>2, <2>3, <2>4, <2>5, <2>6 DEF Opening, Asking
    <2>9. /\ opened[i].item = item /\ opened[i].published = published
          /\ opened[i].deck = deck /\ opened[i].releases = shown
          /\ asked[i].locked = locked /\ asked[i].status = doc.status
      BY <2>2
    <2>10. ItemOK(doc, opened[i], asked[i])
      BY <2>1, <2>3, <2>5, <2>7, <2>9 DEF ItemOK
    <2> QED BY <2>1, <2>8, <2>10 DEF doc
  <1>3. ItemsOK
    BY <1>2 DEF ItemsOK
  <1>4. JobsOK
    BY DEF GateInit, JobsOK
  <1>5. GateTypeOK
    <2>1. /\ bucket \in [Items -> Listing] /\ job \in [Slots -> [Items -> Job \cup {None}]]
          /\ requests \in 0..MaxRequests /\ overlap \in BOOLEAN
      BY ContentGateAssumption DEF GateInit, Listing
    <2>2. content \in [Items -> Content]
      BY <1>1, <1>2
    <2>3. opened \in [Items -> Opening] /\ asked \in [Items -> Asking]
      BY <1>2 DEF GateInit
    <2> QED BY <1>2, <2>1, <2>2, <2>3 DEF GateTypeOK, Opening, Asking, ItemOK
  <1> QED BY <1>3, <1>4, <1>5 DEF GateInv

LEMMA GateInvNext ==
    ASSUME GateInv, [GateNext]_gateVars
    PROVE  GateInv'
  <1>1. ASSUME NEW i \in Items, InstructorStep(i)
        PROVE  GateInv'
    BY <1>1, StatusKeepsGate, LockKeepsGate, AssignmentKeepsGate, SaveKeepsGate,
       MechanicsKeepsGate, CapstoneKeepsGate, StartKeepsGate, UploadKeepsGate
       DEF InstructorStep
  <1>2. ASSUME NEW s \in Slots, NEW i \in Items, JobStep(s, i)
        PROVE  GateInv'
    BY <1>2, ListingKeepsGate, WriteReleasesKeepsGate, WriteDeckKeepsGate DEF JobStep
  <1>3. CASE UNCHANGED gateVars
    <2>1. GateTypeOK /\ JobsOK /\ UNCHANGED <<content, opened, asked>>
      BY <1>3 DEF GateInv, gateVars
    <2>2. /\ bucket' \in [Items -> Listing] /\ job' = job
          /\ job' \in [Slots -> [Items -> Job \cup {None}]]
          /\ requests' \in 0..MaxRequests /\ overlap' \in BOOLEAN
      BY <1>3, <2>1 DEF GateTypeOK, gateVars
    <2> QED BY <2>1, <2>2, OnlyJobs
  <1> QED BY <1>1, <1>2, <1>3, WriteDeckLockKeepsGate, LockPublishedKeepsGate,
             StartSyncKeepsGate DEF GateNext

LEMMA GateInvAlways == GateSpec => []GateInv
  <1>1. GateInit => GateInv
    BY GateInvInit
  <1>2. GateInv /\ [GateNext]_gateVars => GateInv'
    BY GateInvNext
  <1> QED BY <1>1, <1>2, PTL DEF GateSpec

\* Type correctness of the content documents and jobs; no import and no save ever gives
\* releases to an item that is no challenge.
THEOREM GateTypeCorrect == GateSpec => []GateTypeOK
  <1>1. GateInv => GateTypeOK
    BY DEF GateInv
  <1> QED BY <1>1, GateInvAlways, PTL

\* The filter of listContentFor, requireLearnerContentAccess and the diagnostics decide
\* alike for every document.
THEOREM GatesAgree == GateAgrees
    BY DEF GateAgrees, Listed, Accessible, DiagnosedVisible

\* Whatever requests, imports and syncs overlap, nothing is shown to a learner that no
\* instructor (and no seed) has opened.
THEOREM ShownWasOpenedAlways == GateSpec => []ShownWasOpened
  <1>1. GateInv => ShownWasOpened
    BY DEF GateInv, ItemsOK, ItemOK, ShownWasOpened, Listed
  <1> QED BY <1>1, GateInvAlways, PTL

\* Without an unlocked release no import opens or hides an item: its status and lock are
\* those asked for last.
THEOREM HiddenStaysHiddenAlways == GateSpec => []HiddenStaysHidden
  <1>1. GateInv => HiddenStaysHidden
    BY DEF GateInv, ItemsOK, ItemOK, HiddenStaysHidden, Open
  <1> QED BY <1>1, GateInvAlways, PTL

-----------------------------------------------------------------------------
(* Without overlap: what jobs have read is still there when they write.    *)

\* An item's releases and deck are locked as they were asked to be, and the deck has the
\* files of the last import.
LocksKept(doc, ask) ==
    /\ ShownReleases(doc) \subseteq ask.releases
    /\ DeckShown(doc) <=> ask.deck
    /\ ask.version = IF doc.deck = None THEN 0 ELSE doc.deck.version

\* An item has one job at a time, which read the document as it is.
JobsCurrent ==
    \A s \in Slots, i \in Items : job[s][i] # None =>
        /\ job[s][i].seen = content[i]
        /\ \A t \in Slots \ {s} : job[t][i] = None

LocksInv == ~overlap => JobsCurrent /\ \A i \in Items : LocksKept(content[i], asked[i])

\* The locks of a document that keeps its releases and its deck.
LEMMA SameLocks ==
    ASSUME NEW doc, NEW ask, NEW doc2, NEW ask2, LocksKept(doc, ask),
           doc2.releases = doc.releases, doc2.deck = doc.deck,
           ask2.releases = ask.releases, ask2.deck = ask.deck, ask2.version = ask.version
    PROVE  LocksKept(doc2, ask2)
    BY DEF LocksKept, ShownReleases, DeckShown

\* A step that starts no job and writes no document that a job has read and keeps.
LEMMA KeepsLocks ==
    ASSUME LocksInv, UNCHANGED overlap,
           ~overlap => \A i \in Items : LocksKept(content'[i], asked'[i]),
           ~overlap => \A s \in Slots, i \in Items : job'[s][i] # None =>
               job'[s][i] = job[s][i] /\ content'[i] = content[i]
    PROVE  LocksInv'
    BY DEF LocksInv, JobsCurrent

\* A request without overlap finds no job.
LEMMA RequestAlone ==
    ASSUME Request
    PROVE  UNCHANGED overlap /\ (~overlap => \A s \in Slots, i \in Items : job[s][i] = None)
    BY DEF Request

\* A request that writes one document, whose locks it keeps.
LEMMA RequestKeepsLocks ==
    ASSUME LocksInv, Request, UNCHANGED job, NEW i \in Items,
           \A k \in Items \ {i} : content'[k] = content[k] /\ asked'[k] = asked[k],
           LocksKept(content[i], asked[i]) => LocksKept(content'[i], asked'[i])
    PROVE  LocksInv'
    <1>1. ~overlap => \A k \in Items : LocksKept(content'[k], asked'[k])
      BY DEF LocksInv
    <1> QED BY <1>1, RequestAlone, KeepsLocks

LEMMA UpdatesKeepLocks ==
    ASSUME GateInv, LocksInv, NEW i \in Items,
           \/ \E status \in Statuses : SetStatus(i, status)
           \/ \E locked \in BOOLEAN : SetLock(i, locked)
           \/ \E cohort \in Cohorts \cup {None} : SetAssignment(i, cohort)
           \/ \E cohort \in Cohorts \cup {None} : ImportCapstone(i, cohort)
    PROVE  LocksInv'
  <1>1. /\ content \in [Items -> Content] /\ asked \in [Items -> Asking]
        /\ content[i] \in Content /\ asked[i] \in Asking
    BY DEF GateInv, GateTypeOK, Asking
  <1>2. Request /\ UNCHANGED job
    BY DEF SetStatus, SetLock, SetAssignment, ImportCapstone
  <1>3. \A k \in Items \ {i} : content'[k] = content[k] /\ asked'[k] = asked[k]
    BY <1>1 DEF SetStatus, SetLock, SetAssignment, ImportCapstone
  <1>4. /\ content'[i].releases = content[i].releases /\ content'[i].deck = content[i].deck
        /\ asked'[i].releases = asked[i].releases /\ asked'[i].deck = asked[i].deck
        /\ asked'[i].version = asked[i].version
    BY <1>1 DEF SetStatus, SetLock, SetAssignment, ImportCapstone, Content, Asking
  <1> QED BY <1>2, <1>3, <1>4, SameLocks, RequestKeepsLocks

LEMMA LockPublishedKeepsLocks ==
    ASSUME GateInv, LocksInv, LockPublished
    PROVE  LocksInv'
  <1>1. /\ Request /\ UNCHANGED job
        /\ content \in [Items -> Content] /\ asked \in [Items -> Asking]
    BY DEF LockPublished, GateInv, GateTypeOK, Asking
  <1>2. ASSUME NEW i \in Items, LocksKept(content[i], asked[i])
        PROVE  LocksKept(content'[i], asked'[i])
    <2>1. \/ content'[i] = content[i] /\ asked'[i] = asked[i]
          \/ /\ content'[i] = [content[i] EXCEPT !.locked = TRUE]
             /\ asked'[i] = [asked[i] EXCEPT !.locked = TRUE]
      BY DEF LockPublished
    <2>2. /\ content'[i].releases = content[i].releases /\ content'[i].deck = content[i].deck
          /\ asked'[i].releases = asked[i].releases /\ asked'[i].deck = asked[i].deck
          /\ asked'[i].version = asked[i].version
      BY <1>1, <2>1 DEF Content, Asking
    <2> QED BY <1>2, <2>2, SameLocks
  <1> QED BY <1>1, <1>2, RequestAlone, KeepsLocks DEF LocksInv

\* The editor's releases, and those of a save, are what was asked for.
LEMMA MechanicsKeepLocks ==
    ASSUME GateInv, LocksInv, NEW i \in Items, NEW releases \in ReleaseMaps \cup {None},
           SetMechanics(i, releases)
    PROVE  LocksInv'
  <1> DEFINE doc == WithReleases(content[i], releases)
             shown == IF releases = None THEN {} ELSE {r \in DOMAIN releases : releases[r]}
  <1>1. /\ content \in [Items -> Content] /\ asked \in [Items -> Asking]
        /\ content[i] \in Content /\ asked[i] \in Asking
    BY DEF GateInv, GateTypeOK, Asking
  <1>2. doc.deck = content[i].deck /\ ShownReleases(doc) = shown
    BY <1>1, WithReleasesDoc
  <1>3. Request /\ UNCHANGED job /\ content' = [content EXCEPT ![i] = doc]
    BY <1>1 DEF SetMechanics
  <1>4. /\ \A k \in Items \ {i} : asked'[k] = asked[k]
        /\ asked'[i].releases = shown /\ asked'[i].deck = asked[i].deck
        /\ asked'[i].version = asked[i].version
    BY <1>1 DEF SetMechanics, Asking
  <1> HIDE DEF doc, shown
  <1>5. \A k \in Items : content'[k] = IF k = i THEN doc ELSE content[k]
    BY <1>1, <1>3
  <1>6. LocksKept(content[i], asked[i]) => LocksKept(content'[i], asked'[i])
    BY <1>2, <1>4, <1>5 DEF LocksKept, DeckShown
  <1> QED BY <1>3, <1>4, <1>5, <1>6, RequestKeepsLocks

LEMMA SaveKeepsLocks ==
    ASSUME GateInv, LocksInv, NEW i \in Items, NEW edit \in Edits, SaveContent(i, edit)
    PROVE  LocksInv'
  <1> DEFINE releases == IF edit.releases = None THEN content[i].releases ELSE edit.releases
             cohort == IF edit.cohort = None THEN content[i].cohort ELSE edit.cohort
             shown == ShownReleases([content[i] EXCEPT !.releases = releases])
             doc == [content[i] EXCEPT !.status = edit.status, !.locked = edit.locked,
                                       !.role = edit.role, !.releases = releases,
                                       !.cohort = cohort]
             ask == [asked[i] EXCEPT !.status = edit.status, !.locked = edit.locked,
                                     !.releases = shown]
  <1>1. /\ content \in [Items -> Content] /\ asked \in [Items -> Asking]
        /\ content[i] \in Content /\ asked[i] \in Asking
    BY DEF GateInv, GateTypeOK, Asking
  <1>2. content' = [content EXCEPT ![i] = doc] /\ Request /\ UNCHANGED job
    BY <1>1 DEF SaveContent
  <1>3. asked' = [asked EXCEPT ![i] = ask]
    BY <1>1 DEF SaveContent
  <1>4. shown = IF releases = None THEN {} ELSE {r \in DOMAIN releases : releases[r]}
    <2> HIDE DEF releases
    <2>1. [content[i] EXCEPT !.releases = releases].releases = releases
      BY <1>1 DEF Content
    <2> QED BY <2>1 DEF ShownReleases
  <1> HIDE DEF releases, cohort, shown
  <1>5. doc.releases = releases /\ doc.deck = content[i].deck
    BY <1>1 DEF Content
  <1>6. ask.releases = shown /\ ask.deck = asked[i].deck /\ ask.version = asked[i].version
    BY <1>1 DEF Asking
  <1> HIDE DEF doc, ask
  <1>7. \A k \in Items : /\ content'[k] = IF k = i THEN doc ELSE content[k]
                         /\ asked'[k] = IF k = i THEN ask ELSE asked[k]
    BY <1>1, <1>2, <1>3
  <1>8. LocksKept(content[i], asked[i]) => LocksKept(content'[i], asked'[i])
    BY <1>4, <1>5, <1>6, <1>7 DEF LocksKept, DeckShown, ShownReleases
  <1> QED BY <1>2, <1>7, <1>8, RequestKeepsLocks

\* A request that starts the jobs of one slot.
LEMMA StartKeepsLocks ==
    ASSUME LocksInv, Request, UNCHANGED <<content, asked>>, NEW s \in Slots,
           \A t \in Slots \ {s}, i \in Items : job'[t][i] = job[t][i],
           \A i \in Items : job'[s][i] # None /\ job[s][i] = None => job'[s][i].seen = content[i]
    PROVE  LocksInv'
    BY RequestAlone DEF LocksInv, JobsCurrent

LEMMA StartsKeepLocks ==
    ASSUME GateInv, LocksInv, NEW i \in Items,
           StartDeckLock(i) \/ \E writes \in {"releases", "deck"} : StartImport(i, writes)
    PROVE  LocksInv'
  <1>1. GateTypeOK /\ Request /\ UNCHANGED <<content, asked>>
    BY DEF GateInv, StartDeckLock, StartImport
  <1>2. PICK s \in Slots, writes \in {"releases", "deck", "deck lock"} :
           job' = [job EXCEPT ![s][i] = NewJob(i, writes)]
    BY DEF StartDeckLock, StartImport, Slots
  <1>3. NewJob(i, writes) \in Job /\ NewJob(i, writes).seen = content[i]
    BY <1>1, NewJobTyped
  <1>4. \A t \in Slots, k \in Items :
           job'[t][k] = IF t = s /\ k = i THEN NewJob(i, writes) ELSE job[t][k]
    BY <1>1, <1>2, <1>3, OneJob
  <1>5. \A k \in Items : job'[s][k] # None /\ job[s][k] = None => job'[s][k].seen = content[k]
    BY <1>3, <1>4
  <1> QED BY <1>1, <1>4, <1>5, StartKeepsLocks

LEMMA StartSyncKeepsLocks ==
    ASSUME GateInv, LocksInv, StartSync
    PROVE  LocksInv'
  <1>1. GateTypeOK /\ Request /\ UNCHANGED <<content, asked>> /\ "sync" \in Slots
    BY DEF GateInv, StartSync, Slots
  <1>2. PICK S \in SUBSET {i \in Items : SyncWrites(content[i]) # {}} :
           job' = [job EXCEPT !["sync"] =
                     [i \in Items |-> IF i \in S
                                      THEN NewJob(i, CHOOSE w \in SyncWrites(content[i]) : TRUE)
                                      ELSE None]]
    BY DEF StartSync
  <1> DEFINE row == [i \in Items |->
                       IF i \in S THEN NewJob(i, CHOOSE w \in SyncWrites(content[i]) : TRUE)
                                  ELSE None]
  <1>3. \A i \in Items : row[i] # None => row[i].seen = content[i]
    BY DEF NewJob
  <1>4. job' = [job EXCEPT !["sync"] = row]
    BY <1>2
  <1> HIDE DEF row
  <1>5. \A t \in Slots : job'[t] = IF t = "sync" THEN row ELSE job[t]
    BY <1>1, <1>4 DEF GateTypeOK
  <1> QED BY <1>1, <1>3, <1>5, StartKeepsLocks

LEMMA ListingKeepsLocks ==
    ASSUME GateInv, LocksInv, NEW s \in Slots, NEW i \in Items,
           ListBucket(s, i) \/ JobFails(s, i)
    PROVE  LocksInv'
  <1>1. GateTypeOK
    BY DEF GateInv
  <1>2. job[s][i] # None /\ UNCHANGED <<content, asked, overlap>>
    BY <1>1, ListingShape
  <1>3. /\ \A t \in Slots, k \in Items : t # s \/ k # i => job'[t][k] = job[t][k]
        /\ job'[s][i] # None => job'[s][i].seen = job[s][i].seen
    BY <1>1, ListingShape
  <1> QED BY <1>2, <1>3 DEF LocksInv, JobsCurrent

\* A job that writes an item and ends: it was the only one of the item.
LEMMA WriteKeepsLocks ==
    ASSUME GateTypeOK, LocksInv, NEW s \in Slots, NEW i \in Items, job[s][i] # None,
           UNCHANGED overlap, job' = [job EXCEPT ![s][i] = None],
           \A k \in Items \ {i} : content'[k] = content[k] /\ asked'[k] = asked[k],
           LocksKept(job[s][i].seen, asked[i]) /\ job[s][i].seen = content[i]
              => LocksKept(content'[i], asked'[i])
    PROVE  LocksInv'
  <1>1. \A t \in Slots, k \in Items : job'[t][k] = IF t = s /\ k = i THEN None ELSE job[t][k]
    BY OneJob
  <1>2. ~overlap => /\ job[s][i].seen = content[i] /\ LocksKept(content[i], asked[i])
                    /\ \A t \in Slots \ {s} : job[t][i] = None
    BY DEF LocksInv, JobsCurrent
  <1>3. ~overlap => \A k \in Items : LocksKept(content'[k], asked'[k])
    BY <1>2 DEF LocksInv
  <1>4. ~overlap => \A t \in Slots, k \in Items : job'[t][k] # None =>
            job'[t][k] = job[t][k] /\ content'[k] = content[k]
    BY <1>1, <1>2
  <1> QED BY <1>3, <1>4, KeepsLocks

LEMMA WriteReleasesKeepsLocks ==
    ASSUME GateInv, LocksInv, NEW s \in Slots, NEW i \in Items, WriteReleases(s, i)
    PROVE  LocksInv'
  <1> DEFINE seen == job[s][i].seen
             found == job[s][i].found
             merged == Merged(seen.releases, found.releases)
             doc == WithReleases(content[i], merged)
  <1>1. /\ content \in [Items -> Content] /\ content[i] \in Content /\ GateTypeOK
    BY DEF GateInv, GateTypeOK
  <1>2. /\ job[s][i] # None /\ found # None /\ job' = [job EXCEPT ![s][i] = None]
        /\ UNCHANGED <<asked, overlap>> /\ content' = [content EXCEPT ![i] = doc]
    BY <1>1 DEF WriteReleases
  <1>3. seen \in Content /\ found \in Listing
    <2>1. job[s][i] \in Job
      BY <1>1, <1>2 DEF GateTypeOK
    <2> QED BY <1>2, <2>1 DEF Job
  <1>4. seen.releases \in ReleaseMaps \cup {None} /\ found.releases \in SUBSET Releases
    BY <1>3 DEF Content, Listing
  <1>5. /\ merged \in ReleaseMaps /\ merged # None
        /\ {r \in DOMAIN merged : merged[r]} \subseteq ShownReleases(seen)
    BY <1>4, MergedReleases, ContentGateAssumption DEF ShownReleases
  <1> HIDE DEF merged
  <1>6. doc.deck = content[i].deck /\ ShownReleases(doc) = {r \in DOMAIN merged : merged[r]}
    <2>1. merged \in ReleaseMaps \cup {None}
      BY <1>5
    <2>2. /\ doc.deck = content[i].deck
          /\ ShownReleases(doc) =
               IF merged = None THEN {} ELSE {r \in DOMAIN merged : merged[r]}
      BY <1>1, <2>1, WithReleasesDoc
    <2> QED BY <1>5, <2>2
  <1> HIDE DEF doc, seen
  <1>7. \A k \in Items : content'[k] = IF k = i THEN doc ELSE content[k]
    BY <1>1, <1>2
  <1>8. LocksKept(seen, asked[i]) /\ seen = content[i] => LocksKept(content'[i], asked'[i])
    BY <1>2, <1>5, <1>6, <1>7 DEF LocksKept, DeckShown
  <1> QED BY <1>1, <1>2, <1>7, <1>8, WriteKeepsLocks DEF seen

LEMMA WriteDeckKeepsLocks ==
    ASSUME GateInv, LocksInv, NEW s \in Slots, NEW i \in Items, WriteDeck(s, i)
    PROVE  LocksInv'
  <1> DEFINE seen == job[s][i].seen
             new == DeckFrom(seen, job[s][i].found)
             version == job[s][i].found.version
             doc == [content[i] EXCEPT !.deck = new]
             ask == [asked[i] EXCEPT !.version = version]
  <1>1. /\ content \in [Items -> Content] /\ asked \in [Items -> Asking] /\ GateTypeOK
        /\ content[i] \in Content /\ asked[i] \in Asking
    BY DEF GateInv, GateTypeOK, Asking
  <1>2. /\ job[s][i] # None /\ job' = [job EXCEPT ![s][i] = None] /\ UNCHANGED overlap
        /\ job[s][i].found # None
        /\ content' = [content EXCEPT ![i] = doc] /\ asked' = [asked EXCEPT ![i] = ask]
    BY <1>1 DEF WriteDeck
  <1>3. job[s][i] \in Job
    BY <1>1, <1>2 DEF GateTypeOK
  <1>4. version \in 0..MaxVersion
    BY <1>2, <1>3 DEF Job, Listing
  <1>5. new \in Deck /\ (new.unlocked <=> DeckShown(seen)) /\ new.version = version
    BY <1>4 DEF DeckFrom, DeckShown, Deck
  <1>6. new # None
    BY <1>5, ContentGateAssumption
  <1> HIDE DEF new, version
  <1>7. doc.deck = new /\ doc.releases = content[i].releases
    BY <1>1 DEF Content
  <1>8. ask.version = version /\ ask.releases = asked[i].releases /\ ask.deck = asked[i].deck
    BY <1>1 DEF Asking
  <1> HIDE DEF doc, ask, seen
  <1>9. \A k \in Items : /\ content'[k] = IF k = i THEN doc ELSE content[k]
                         /\ asked'[k] = IF k = i THEN ask ELSE asked[k]
    BY <1>1, <1>2
  <1>10. LocksKept(seen, asked[i]) /\ seen = content[i] => LocksKept(doc, ask)
    BY <1>5, <1>6, <1>7, <1>8 DEF LocksKept, DeckShown, ShownReleases
  <1> QED BY <1>1, <1>2, <1>9, <1>10, WriteKeepsLocks DEF seen

LEMMA WriteDeckLockKeepsLocks ==
    ASSUME GateInv, LocksInv, NEW i \in Items, NEW unlocked \in BOOLEAN,
           WriteDeckLock(i, unlocked)
    PROVE  LocksInv'
  <1> DEFINE s == "deck lock"
             seen == job[s][i].seen
             version == IF seen.deck = None THEN 0 ELSE seen.deck.version
             new == DeckLocked(seen, unlocked)
             doc == [content[i] EXCEPT !.deck = new]
             ask == [asked[i] EXCEPT !.deck = unlocked]
  <1>1. /\ content \in [Items -> Content] /\ asked \in [Items -> Asking] /\ GateTypeOK
        /\ content[i] \in Content /\ asked[i] \in Asking
    BY DEF GateInv, GateTypeOK, Asking
  <1>2. /\ job[s][i] # None /\ job' = [job EXCEPT ![s][i] = None] /\ UNCHANGED overlap
        /\ s \in Slots
        /\ content' = [content EXCEPT ![i] = doc] /\ asked' = [asked EXCEPT ![i] = ask]
    BY <1>1 DEF WriteDeckLock, Slots
  <1> HIDE DEF s
  <1>3. seen \in Content
    <2>1. job[s][i] \in Job
      BY <1>1, <1>2 DEF GateTypeOK
    <2> QED BY <2>1 DEF Job
  <1>4. version \in 0..MaxVersion
    <2>1. seen.deck # None => seen.deck \in Deck
      BY <1>3 DEF Content
    <2>2. seen.deck # None => seen.deck.version \in 0..MaxVersion
      BY <2>1 DEF Deck
    <2>3. 0 \in 0..MaxVersion
      BY ContentGateAssumption
    <2> HIDE DEF seen
    <2> QED BY <2>2, <2>3
  <1>5. new = [unlocked |-> unlocked, version |-> version]
    BY DEF DeckLocked
  <1> HIDE DEF new, version
  <1>6. new \in Deck /\ new.unlocked = unlocked /\ new.version = version
    BY <1>4, <1>5 DEF Deck
  <1>7. new # None
    BY <1>6, ContentGateAssumption
  <1>8. doc.deck = new /\ doc.releases = content[i].releases
    BY <1>1 DEF Content
  <1>9. ask.deck = unlocked /\ ask.releases = asked[i].releases /\ ask.version = asked[i].version
    BY <1>1 DEF Asking
  <1> HIDE DEF doc, ask, seen
  <1>10. \A k \in Items : /\ content'[k] = IF k = i THEN doc ELSE content[k]
                          /\ asked'[k] = IF k = i THEN ask ELSE asked[k]
    BY <1>1, <1>2
  <1>11. LocksKept(seen, asked[i]) /\ seen = content[i] => LocksKept(doc, ask)
    BY <1>6, <1>7, <1>8, <1>9 DEF LocksKept, DeckShown, ShownReleases, version
  <1> QED BY <1>1, <1>2, <1>10, <1>11, WriteKeepsLocks DEF seen

LEMMA LocksInvNext ==
    ASSUME GateInv, LocksInv, [GateNext]_gateVars
    PROVE  LocksInv'
  <1>1. ASSUME NEW i \in Items, Upload(i)
        PROVE  LocksInv'
    BY <1>1, RequestAlone DEF Upload, LocksInv, JobsCurrent
  <1>2. ASSUME NEW i \in Items, InstructorStep(i)
        PROVE  LocksInv'
    BY <1>1, <1>2, UpdatesKeepLocks, SaveKeepsLocks, MechanicsKeepLocks, StartsKeepLocks
       DEF InstructorStep
  <1>3. ASSUME NEW s \in Slots, NEW i \in Items, JobStep(s, i)
        PROVE  LocksInv'
    BY <1>3, ListingKeepsLocks, WriteReleasesKeepsLocks, WriteDeckKeepsLocks DEF JobStep
  <1>4. CASE UNCHANGED gateVars
    BY <1>4 DEF gateVars, LocksInv, JobsCurrent
  <1> QED BY <1>2, <1>3, <1>4, WriteDeckLockKeepsLocks, LockPublishedKeepsLocks,
             StartSyncKeepsLocks DEF GateNext

LEMMA LocksInvInit ==
    ASSUME GateInit
    PROVE  LocksInv
  <1>1. JobsCurrent
    BY DEF GateInit, JobsCurrent
  <1>2. ASSUME NEW i \in Items
        PROVE  LocksKept(content[i], asked[i])
    BY DEF GateInit, LocksKept
  <1> QED BY <1>1, <1>2 DEF LocksInv

\* Requests that do not overlap: an import or a sync leaves the releases and the deck as
\* locked as they were set, and a change of a deck's lock keeps its files. Code:
\* mergeChallengeReleases, deckFromDocuments and updateContentDeckLock, which write what
\* was read before the listing.
THEOREM ImportsKeepLocksAlways == GateSpec => []ImportsKeepLocks
  <1>1. GateInit => LocksInv
    BY LocksInvInit
  <1>2. GateInv /\ LocksInv /\ [GateNext]_gateVars => LocksInv'
    BY LocksInvNext
  <1>3. GateInv /\ LocksInv => ImportsKeepLocks
    <2> SUFFICES ASSUME GateInv, LocksInv, ~overlap, NEW i \in Items
                 PROVE  /\ ShownReleases(content[i]) \subseteq asked[i].releases
                        /\ DeckShown(content[i]) = asked[i].deck
                        /\ content[i].deck # None => content[i].deck.version = asked[i].version
      BY DEF ImportsKeepLocks
    <2>1. LocksKept(content[i], asked[i]) /\ asked[i].deck \in BOOLEAN
      BY DEF LocksInv, GateInv, GateTypeOK
    <2>2. content[i].deck # None => content[i].deck.unlocked \in BOOLEAN
      <3>1. content[i].deck \in Deck \cup {None}
        BY DEF GateInv, GateTypeOK, Content
      <3> QED BY <3>1 DEF Deck
    <2>3. DeckShown(content[i]) \in BOOLEAN
      BY <2>2 DEF DeckShown
    <2> QED BY <2>1, <2>3 DEF LocksKept
  <1> QED BY <1>1, <1>2, <1>3, GateInvAlways, PTL DEF GateSpec
=============================================================================
