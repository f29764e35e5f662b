---------------------------- MODULE ContentGate ----------------------------
(***************************************************************************)
(* What learners get to see of a course's content: publication, locks,       *)
(* cohort and role, the releases of a challenge, the slide deck of a module, *)
(* and the imports from the R2 bucket that rewrite releases and decks.       *)
(*                                                                         *)
(* An instructor's single update is one step. An import, a sync of the        *)
(* course and a change of a deck's lock read the document, and an import      *)
(* then lists the bucket, before they write what they computed: these are      *)
(* jobs, and what happens between their steps is lost or undone.             *)
(***************************************************************************)
EXTENDS Documents, Integers

CONSTANTS
    Items,       \* content of the course
    Releases,    \* release ids
    Cohorts,
    Seeds,       \* the documents a course may start with
    Edits,       \* what the editor saves of an item
    MaxVersion,  \* bound: versions of a deck's files in the bucket
    MaxRequests  \* bound: requests and uploads in a behaviour

Kinds == {"challenge", "module", "capstone"}
Statuses == {"draft", "published", "archived"}
Roles == {"admin", "instructor", "learner", "all"}

\* The releases of a challenge path with their "unlocked". A document without
\* mechanics has None.
ReleaseMaps == UNION {[S -> BOOLEAN] : S \in SUBSET Releases}

\* "version" stands for the deck's files; 0 is no file.
Deck == [unlocked : BOOLEAN, version : 0..MaxVersion]

Content == [kind : Kinds, status : Statuses, locked : BOOLEAN \cup {None}, role : Roles,
            cohort : Cohorts \cup {None}, releases : ReleaseMaps \cup {None},
            deck : Deck \cup {None}]

\* The fields of an upsert that count here. The cohort and the releases may be absent.
Edit == [status : Statuses, locked : BOOLEAN, role : Roles, cohort : Cohorts \cup {None},
         releases : ReleaseMaps \cup {None}]

\* What listR2Documents finds under an item's prefix: the releases that have
\* files, and the version of the deck.
Listing == [releases : SUBSET Releases, version : 0..MaxVersion]

\* A job has the document it read and, once it has listed, what it found.
Job == [writes : {"releases", "deck", "deck lock"}, seen : Content,
        found : Listing \cup {None}]

Slots == {"import", "sync", "deck lock"}

ASSUME ContentGateAssumption ==
    /\ MaxVersion \in Nat /\ MaxRequests \in Nat
    /\ None \notin ReleaseMaps /\ None \notin Deck /\ None \notin Listing /\ None \notin Job
    /\ None \notin Cohorts /\ None \notin BOOLEAN
    /\ Seeds \subseteq Content /\ Edits \subseteq Edit
    /\ \A doc \in Seeds : doc.kind # "challenge" => doc.releases = None

VARIABLES
    content,   \* pactContent
    bucket,    \* what R2 has for each item
    job,       \* the running jobs
    opened,    \* what an instructor (or the seed) has ever opened
    asked,     \* what an instructor asked for last
    requests,  \* requests and uploads so far
    overlap    \* whether requests overlap in this behaviour; never changes

gateVars == <<content, bucket, job, opened, asked, requests, overlap>>

-----------------------------------------------------------------------------
(* What a learner sees.                                                    *)

\* Mutant: the filter takes what has no lock for unlocked.
ListedUnlessLocked(doc, cohort) ==
    /\ doc.status = "published" /\ doc.locked # TRUE
    /\ doc.role \in {"learner", "all"}
    /\ doc.cohort \in {cohort, None}

\* listContentFor's filter for a learner of the cohort.
Listed(doc, cohort) ==
    /\ doc.status = "published" /\ doc.locked = FALSE
    /\ doc.role \in {"learner", "all"}
    /\ doc.cohort \in {cohort, None}

\* requireLearnerContentAccess does not throw for a learner of the cohort.
Accessible(doc, cohort) ==
    /\ doc.cohort # None => doc.cohort = cohort
    /\ doc.role # "all" => doc.role = "learner"
    /\ doc.status = "published"
    /\ doc.locked = FALSE

\* listContentAccessDiagnostics: every check has passed, for the session's cohort.
DiagnosedVisible(doc, cohort) ==
    /\ doc.status = "published"
    /\ doc.locked = FALSE
    /\ doc.role = "learner" \/ doc.role = "all"
    /\ doc.cohort = None \/ doc.cohort = cohort

\* prepareContentForUser: the releases in a learner's view of a document.
ShownReleases(doc) ==
    IF doc.releases = None THEN {} ELSE {r \in DOMAIN doc.releases : doc.releases[r]}

\* prepareDeckForUser: whether the deck is in it.
DeckShown(doc) == doc.deck # None /\ doc.deck.unlocked

\* Whether learners of some cohort may see it.
Open(doc) == doc.status = "published" /\ doc.locked = FALSE

-----------------------------------------------------------------------------
(* Requests that are one update.                                           *)

\* Requests and uploads are bounded; unless they overlap, none starts before the
\* jobs of the last one have ended.
Request ==
    /\ requests < MaxRequests
    /\ overlap \/ \A s \in Slots, i \in Items : job[s][i] = None
    /\ requests' = requests + 1
    /\ UNCHANGED overlap

\* updateContentStatus
SetStatus(i, status) ==
    /\ Request
    /\ content' = [content EXCEPT ![i].status = status]
    /\ asked' = [asked EXCEPT ![i].status = status]
    /\ opened' = [opened EXCEPT ![i].published = @ \/ status = "published"]
    /\ UNCHANGED <<bucket, job>>

\* updateContentLock
SetLock(i, locked) ==
    /\ Request
    /\ content' = [content EXCEPT ![i].locked = locked]
    /\ asked' = [asked EXCEPT ![i].locked = locked]
    /\ opened' = [opened EXCEPT ![i].item = @ \/ ~locked]
    /\ UNCHANGED <<bucket, job>>

\* updateContentAssignment
SetAssignment(i, cohort) ==
    /\ Request
    /\ content' = [content EXCEPT ![i].cohort = cohort]
    /\ UNCHANGED <<bucket, job, opened, asked>>

\* lockPublishedContentForManagement
LockPublished ==
    /\ Request
    /\ LET published == {i \in Items : /\ content[i].status = "published"
                                       /\ content[i].locked # TRUE}
       IN /\ content' = [i \in Items |-> IF i \in published
                                         THEN [content[i] EXCEPT !.locked = TRUE]
                                         ELSE content[i]]
          /\ asked' = [i \in Items |-> IF i \in published
                                       THEN [asked[i] EXCEPT !.locked = TRUE]
                                       ELSE asked[i]]
    /\ UNCHANGED <<bucket, job, opened>>

\* Mutant: any release unlocks its challenge.
UnlocksAlways(releases) == releases # None

\* mechanicsUnlocksChallenge
Unlocks(releases) == releases # None /\ \E r \in DOMAIN releases : releases[r]

\* A document with new releases. A release that is unlocked also publishes and
\* unlocks the item; none that is locked hides it again.
WithReleases(doc, releases) ==
    IF Unlocks(releases)
    THEN [doc EXCEPT !.releases = releases, !.status = "published", !.locked = FALSE]
    ELSE [doc EXCEPT !.releases = releases]

\* updateContentMechanics of a challenge: the editor sends all releases, or null.
SetMechanics(i, releases) ==
    /\ Request
    /\ content[i].kind = "challenge"
    /\ content' = [content EXCEPT ![i] = WithReleases(@, releases)]
    /\ LET unlocked == IF releases = None THEN {}
                       ELSE {r \in DOMAIN releases : releases[r]}
           unlocks == Unlocks(releases)
       IN /\ asked' = [asked EXCEPT
                 ![i].releases = unlocked,
                 ![i].locked = @ /\ ~unlocks,
                 ![i].status = IF unlocks THEN "published" ELSE @]
          /\ opened' = [opened EXCEPT
                 ![i].releases = @ \cup unlocked,
                 ![i].item = @ \/ unlocks,
                 ![i].published = @ \/ unlocks]
    /\ UNCHANGED <<bucket, job>>

\* upsertContent for an item that is there, of the type it has. A cohort and releases
\* that are not sent stay. Releases that are unlocked do not open the item at once, but
\* the next import will: whoever unlocks them has opened it.
SaveContent(i, edit) ==
    /\ Request
    /\ content[i].kind # "challenge" => edit.releases = None
    /\ LET releases == IF edit.releases = None THEN content[i].releases ELSE edit.releases
           shown == ShownReleases([content[i] EXCEPT !.releases = releases])
       IN /\ content' = [content EXCEPT
                 ![i].status = edit.status, ![i].locked = edit.locked,
                 ![i].role = edit.role, ![i].releases = releases,
                 ![i].cohort = IF edit.cohort = None THEN @ ELSE edit.cohort]
          /\ asked' = [asked EXCEPT ![i].status = edit.status, ![i].locked = edit.locked,
                                    ![i].releases = shown]
          /\ opened' = [opened EXCEPT
                 ![i].published = @ \/ edit.status = "published" \/ Unlocks(edit.releases),
                 ![i].item = @ \/ ~edit.locked \/ Unlocks(edit.releases),
                 ![i].releases = @ \cup shown]
    /\ UNCHANGED <<bucket, job>>

\* importCapstone: an upsert that publishes the item, locks it and assigns it anew.
ImportCapstone(i, cohort) ==
    /\ Request
    /\ content[i].kind = "capstone"
    /\ content' = [content EXCEPT ![i].status = "published", ![i].locked = TRUE,
                                  ![i].role = "all", ![i].cohort = cohort]
    /\ asked' = [asked EXCEPT ![i].locked = TRUE, ![i].status = "published"]
    /\ opened' = [opened EXCEPT ![i].published = TRUE]
    /\ UNCHANGED <<bucket, job>>

\* Files are put into the bucket or taken from it; a new version of a deck's files
\* is newer than all before it.
Upload(i) ==
    /\ Request
    /\ \/ \E releases \in SUBSET Releases : bucket' = [bucket EXCEPT ![i].releases = releases]
       \/ /\ bucket[i].version < MaxVersion
          /\ bucket' = [bucket EXCEPT ![i].version = @ + 1]
    /\ UNCHANGED <<content, job, opened, asked>>

-----------------------------------------------------------------------------
(* Jobs.                                                                   *)

NewJob(i, writes) == [writes |-> writes, seen |-> content[i], found |-> None]

\* Mutant: releases are imported into any item.
ImportsAny(doc, writes) == TRUE

\* Releases are imported into challenges only: checked before the listing and again
\* before the write.
Imports(doc, writes) == writes = "releases" => doc.kind = "challenge"

\* importChallengeReleases or importDecks has read the document.
StartImport(i, writes) ==
    /\ Request
    /\ job["import"][i] = None
    /\ Imports(content[i], writes)
    /\ job' = [job EXCEPT !["import"][i] = NewJob(i, writes)]
    /\ UNCHANGED <<content, bucket, opened, asked>>

\* What syncCourseContent does with an item: a challenge path that names files of
\* a release, else a deck with a prefix, else nothing.
SyncWrites(doc) ==
    CASE doc.kind = "challenge" /\ doc.releases # None ->
             IF DOMAIN doc.releases = {} THEN {} ELSE {"releases"}
      [] doc.deck # None -> {"deck"}
      [] OTHER -> {}

\* syncCourseContent has read all items; those whose releases or deck name a prefix
\* (the set S) are worked on at the same time.
StartSync ==
    /\ Request
    /\ \A i \in Items : job["sync"][i] = None
    /\ \E S \in SUBSET {i \in Items : SyncWrites(content[i]) # {}} :
         /\ S # {}
         /\ job' = [job EXCEPT !["sync"] =
                      [i \in Items |-> IF i \in S
                                       THEN NewJob(i, CHOOSE w \in SyncWrites(content[i]) : TRUE)
                                       ELSE None]]
    /\ UNCHANGED <<content, bucket, opened, asked>>

\* updateContentDeckLock has read the document.
StartDeckLock(i) ==
    /\ Request
    /\ job["deck lock"][i] = None
    /\ job' = [job EXCEPT !["deck lock"][i] = NewJob(i, "deck lock")]
    /\ UNCHANGED <<content, bucket, opened, asked>>

\* Whether a listing has files that the job could import.
Finds(writes, listing) ==
    IF writes = "releases" THEN listing.releases # {} ELSE listing.version # 0

\* listR2Documents returns. Without files of its kind an import throws and a sync
\* skips the item, but a sync of releases takes other files for files of its kind.
ListBucket(s, i) ==
    /\ job[s][i] # None /\ job[s][i].writes # "deck lock" /\ job[s][i].found = None
    /\ \/ /\ \/ Finds(job[s][i].writes, bucket[i])
             \/ s = "sync" /\ job[s][i].writes = "releases"
          /\ job' = [job EXCEPT ![s][i].found = bucket[i]]
       \/ /\ ~Finds(job[s][i].writes, bucket[i])
          /\ job' = [job EXCEPT ![s][i] = None]
    /\ UNCHANGED <<content, bucket, opened, asked, requests, overlap>>

\* Mutant: a new release starts unlocked.
MergedUnlocked(old, found) ==
    [r \in found |-> IF old # None /\ r \in DOMAIN old THEN old[r] ELSE TRUE]

\* mergeChallengeReleases: the releases with files, unlocked as they were when read.
Merged(old, found) ==
    [r \in found |-> IF old # None /\ r \in DOMAIN old THEN old[r] ELSE FALSE]

\* importContentReleaseMechanics
WriteReleases(s, i) ==
    /\ job[s][i] # None /\ job[s][i].writes = "releases" /\ job[s][i].found # None
    /\ Imports(content[i], "releases")
    /\ content' = [content EXCEPT ![i] =
                     WithReleases(@, Merged(job[s][i].seen.releases, job[s][i].found.releases))]
    /\ job' = [job EXCEPT ![s][i] = None]
    /\ UNCHANGED <<bucket, opened, asked, requests, overlap>>

\* deckFromDocuments: unlocked as it was when read.
DeckFrom(seen, listing) ==
    [unlocked |-> seen.deck # None /\ seen.deck.unlocked, version |-> listing.version]

\* updateContentDeck
WriteDeck(s, i) ==
    /\ job[s][i] # None /\ job[s][i].writes = "deck" /\ job[s][i].found # None
    /\ content' = [content EXCEPT ![i].deck = DeckFrom(job[s][i].seen, job[s][i].found)]
    /\ asked' = [asked EXCEPT ![i].version = job[s][i].found.version]
    /\ job' = [job EXCEPT ![s][i] = None]
    /\ UNCHANGED <<bucket, opened, requests, overlap>>

\* Mutant: only the lock is kept of the deck.
DeckLockedBare(seen, unlocked) == [unlocked |-> unlocked, version |-> 0]

\* The deck as it was when read, with the lock that was asked for.
DeckLocked(seen, unlocked) ==
    [unlocked |-> unlocked, version |-> IF seen.deck = None THEN 0 ELSE seen.deck.version]

\* updateContentDeckLock's write.
WriteDeckLock(i, unlocked) ==
    /\ job["deck lock"][i] # None
    /\ content' = [content EXCEPT ![i].deck = DeckLocked(job["deck lock"][i].seen, unlocked)]
    /\ asked' = [asked EXCEPT ![i].deck = unlocked]
    /\ opened' = [opened EXCEPT ![i].deck = @ \/ unlocked]
    /\ job' = [job EXCEPT !["deck lock"][i] = None]
    /\ UNCHANGED <<bucket, requests, overlap>>

\* A call of the job rejects, or the process ends: for a sync, item by item.
JobFails(s, i) ==
    /\ job[s][i] # None
    /\ job' = [job EXCEPT ![s][i] = None]
    /\ UNCHANGED <<content, bucket, opened, asked, requests, overlap>>

-----------------------------------------------------------------------------
\* A release that is unlocked opens its item, in a seed as in an edit.
GateInit ==
    /\ content \in [Items -> Seeds]
    /\ bucket = [i \in Items |-> [releases |-> {}, version |-> 0]]
    /\ job = [s \in Slots |-> [i \in Items |-> None]]
    /\ opened = [i \in Items |->
         [item |-> content[i].locked = FALSE \/ Unlocks(content[i].releases),
          published |-> content[i].status = "published" \/ Unlocks(content[i].releases),
          deck |-> DeckShown(content[i]), releases |-> ShownReleases(content[i])]]
    /\ asked = [i \in Items |->
         [locked |-> content[i].locked # FALSE, status |-> content[i].status,
          deck |-> DeckShown(content[i]), releases |-> ShownReleases(content[i]),
          version |-> IF content[i].deck = None THEN 0 ELSE content[i].deck.version]]
    /\ requests = 0
    /\ overlap \in BOOLEAN

InstructorStep(i) ==
    \/ \E status \in Statuses : SetStatus(i, status)
    \/ \E locked \in BOOLEAN : SetLock(i, locked)
    \/ \E cohort \in Cohorts \cup {None} : SetAssignment(i, cohort)
    \/ \E edit \in Edits : SaveContent(i, edit)
    \/ \E releases \in ReleaseMaps \cup {None} : SetMechanics(i, releases)
    \/ \E cohort \in Cohorts \cup {None} : ImportCapstone(i, cohort)
    \/ \E writes \in {"releases", "deck"} : StartImport(i, writes)
    \/ StartDeckLock(i)
    \/ Upload(i)

JobStep(s, i) ==
    ListBucket(s, i) \/ WriteReleases(s, i) \/ WriteDeck(s, i) \/ JobFails(s, i)

GateNext ==
    \/ \E i \in Items : InstructorStep(i)
    \/ \E i \in Items, unlocked \in BOOLEAN : WriteDeckLock(i, unlocked)
    \/ \E s \in Slots, i \in Items : JobStep(s, i)
    \/ LockPublished \/ StartSync

GateSpec == GateInit /\ [][GateNext]_gateVars

-----------------------------------------------------------------------------
(* Properties.                                                             *)

\* Every variable has its type, and only a challenge has releases.
GateTypeOK ==
    /\ content \in [Items -> Content] /\ bucket \in [Items -> Listing]
    /\ \A i \in Items : content[i].kind # "challenge" => content[i].releases = None
    /\ job \in [Slots -> [Items -> Job \cup {None}]]
    /\ opened \in [Items -> [item : BOOLEAN, published : BOOLEAN, deck : BOOLEAN,
                             releases : SUBSET Releases]]
    /\ asked \in [Items -> [locked : BOOLEAN, status : Statuses, deck : BOOLEAN,
                            releases : SUBSET Releases, version : 0..MaxVersion]]
    /\ requests \in 0..MaxRequests /\ overlap \in BOOLEAN

\* What is listed for a learner is what the learner may open, and what the
\* diagnostics call visible: three separate translations of one rule.
GateAgrees ==
    \A i \in Items, cohort \in Cohorts :
        /\ Listed(content[i], cohort) <=> Accessible(content[i], cohort)
        /\ Listed(content[i], cohort) <=> DiagnosedVisible(content[i], cohort)

\* Whatever requests, imports and syncs overlap, learners only ever get to see what
\* was opened by hand: the item, its publication, each release and the deck.
ShownWasOpened ==
    \A i \in Items, cohort \in Cohorts :
        Listed(content[i], cohort) =>
            /\ opened[i].item /\ opened[i].published
            /\ ShownReleases(content[i]) \subseteq opened[i].releases
            /\ DeckShown(content[i]) => opened[i].deck

\* An item none of whose releases was ever unlocked is open when it was asked to be
\* and only then, whatever is imported meanwhile. (With a release unlocked, the next
\* import or sync opens the item again that was locked or archived by hand.)
HiddenStaysHidden ==
    \A i \in Items :
        opened[i].releases = {} =>
            (Open(content[i]) <=> ~asked[i].locked /\ asked[i].status = "published")

\* Without overlap imports and syncs keep the locks of releases and decks as they
\* were set, and changes of a deck's lock keep its files.
ImportsKeepLocks ==
    ~overlap =>
        \A i \in Items :
            /\ ShownReleases(content[i]) \subseteq asked[i].releases
            /\ DeckShown(content[i]) = asked[i].deck
            /\ content[i].deck # None => content[i].deck.version = asked[i].version
=============================================================================
