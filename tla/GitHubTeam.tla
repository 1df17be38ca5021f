----------------------------- MODULE GitHubTeam -----------------------------
(***************************************************************************)
(* GitHub Team mode (GitHubTeamService.ts): an accepted memory becomes a   *)
(* proposal, unless its text may not be published, and the proposal a      *)
(* branch and a pull request of a repository that the whole team writes    *)
(* to; the merged default branch is imported before each retrieval.        *)
(*                                                                         *)
(* One project of one daemon.  Its operations do not overlap               *)
(* (runProjectOperation, and the store queue above it: StoreQueue), but    *)
(* each runs many gh and git commands, and between two of them the daemon  *)
(* may die (Crash) and the repository changes on its own: reviews are      *)
(* merged and closed, branches deleted, teammates commit, also broken      *)
(* files.  A command may fail, and fail after it took effect.              *)
(*                                                                         *)
(* Outside src/ and modelled from its use: git and GitHub.  A push without *)
(* --force is refused when the branch exists and its tip is not in what is *)
(* pushed.  No branch can be named a/b where there is one named a, and so  *)
(* none of the replacement branches <id>/<timestamp> is ever made: the     *)
(* checkout still has the branch <id> of the first proposal.  A second     *)
(* open pull request from one branch is refused; a merged one can still be *)
(* edited.  Reviewers merge or close a pull request as it is and resolve   *)
(* manifest conflicts correctly.                                           *)
(*                                                                         *)
(* Abstracted: events and diagnostics, which no decision reads; timestamps *)
(* (an elapsed back-off is `due`); failing writes of the local store.      *)
(***************************************************************************)
EXTENDS SharedRepository, Sequences, FiniteSetsExt

CONSTANTS
  Reverts,                  \* whether commits of the default branch are reverted
  MaxCommits, MaxReviews,   \* bounds of the repository
  MaxFaults                 \* bound: commands that fail and deaths of the daemon

ASSUME TeamAssumption ==
  Reverts \in BOOLEAN /\ {MaxCommits, MaxReviews, MaxFaults} \subseteq Nat /\ MaxCommits > 0

VARIABLES
  \* The daemon's durable state:
  config,       \* project config: team (its mode), initialised
  clone,        \* checkout: made; fetched, the commit origin/<default> is at;
                \* orphan, whether the default branch was created locally
  local,        \* memory store: id -> version, status, origin (source.kind)
  proposals,    \* collaboration store: id -> proposal
  checkpoint,   \* the commit last imported as a whole, 0 for none
  \* The running operation:
  pub,          \* a publication
  sync,         \* a refresh before retrieval
  \* The repository:
  commits,      \* default branch
  branches,     \* proposal branches
  reviews,      \* pull requests, by number
  \* History and bounds:
  asked,        \* id -> the change last published or tried for its user
  unsafe,       \* contents that a publication refuses
  written, faults, crashes

durable == <<config, clone, local, proposals, checkpoint>>
remote == <<commits, branches, reviews>>
bounds == <<asked, written, unsafe, faults, crashes>>
vars == <<durable, pub, sync, remote, bounds>>

Change == [op : {"upsert", "remove"}, ver : Versions]
NoChange == [op |-> "none"]

NoMemory == [ver |-> 0, status |-> "none", origin |-> "none"]
LocalMemory ==
  {NoMemory} \cup
  [ver : Versions, status : {"active", "superseded"}, origin : {"local", "github"}]

\* review is 0 for none; due: nextAttemptAt has passed.
NoProposal ==
  [state |-> "none", op |-> "upsert", ver |-> 0, removals |-> {}, review |-> 0,
   due |-> FALSE]
Proposal ==
  {NoProposal} \cup
  [state : {"proposed", "active", "rejected", "sync_failed", "conflict"},
   op : {"upsert", "remove"}, ver : Versions, removals : SUBSET Memories,
   review : 0..MaxReviews, due : BOOLEAN]

\* Branches whose tip is not in the default branch; a push that starts from the
\* default branch treats the others like branches that do not exist.
Branch ==
  [mem : Memories, op : {"upsert", "remove"}, ver : Versions, removals : SUBSET Memories]
Review ==
  [mem : Memories, state : {"OPEN", "MERGED", "CLOSED"}]

\* kind: who asked; review: the pull request to update, 0 to create one;
\* fresh: freshLifecycle.
Publication ==
  [pc : {"look", "push", "review", "record", "fail", "stage"},
   kind : {"accept", "update", "remove", "retry"}, mem : Memories, op : {"upsert", "remove"},
   ver : Versions, removals : SUBSET Memories, review : 0..MaxReviews,
   fresh : BOOLEAN]
NoPub == [pc |-> "idle"]

\* todo: memories to import, then proposals to inspect; full: changedFiles is
\* undefined; whole: the snapshot is complete; listed: proposals read first.
Refresh ==
  [pc : {"import", "drop", "inspect"}, todo : SUBSET Memories, full : BOOLEAN,
   whole : BOOLEAN, listed : SUBSET Memories, imported : SUBSET Memories,
   removed : SUBSET Memories, save : BOOLEAN]
NoSync == [pc |-> "idle"]

TypeOK ==
  /\ config \in [team : BOOLEAN, initialised : BOOLEAN]
  /\ clone \in [made : BOOLEAN, fetched : 0..MaxCommits, orphan : BOOLEAN]
  /\ local \in [Memories -> LocalMemory]
  /\ proposals \in [Memories -> Proposal]
  /\ checkpoint \in 0..MaxCommits
  /\ pub \in Publication \cup {NoPub}
  /\ sync \in Refresh \cup {NoSync}
  /\ commits \in Seq(Commit) /\ Len(commits) <= MaxCommits
  /\ IsFiniteSet(branches) /\ branches \subseteq Branch
  /\ reviews \in Seq(Review) /\ Len(reviews) <= MaxReviews
  /\ asked \in [Memories -> Change \cup {NoChange}]
  /\ unsafe \subseteq Versions
  /\ written \in 0..MaxVersion /\ faults \in 0..MaxFaults /\ crashes \in 0..MaxFaults

Idle == pub.pc = "idle" /\ sync.pc = "idle"
Fault == faults + crashes < MaxFaults /\ faults' = faults + 1
Tip == Len(commits)
Local(v, origin) == [ver |-> v, status |-> "active", origin |-> origin]
IsActive(m) == local[m].status = "active"

\* Memories that were ever shared.  createId gives no id twice: one made here is
\* not shared already, and a teammate shares none that was made here only.
Shared == {m \in Memories : \E i \in DOMAIN commits : commits[i].decl[m] # Absent}

\* A new content.  It was accepted as it is, but what is published is its JSON,
\* with a line break as two letters: there "password: use", with a long word on
\* the next line, is a secret.
NewContent ==
  /\ written' = written + 1
  /\ unsafe' \in {unsafe, unsafe \cup {written + 1}}

BranchOf(m) == {b \in branches : b.mem = m}
OpenReviews(m) == {r \in DOMAIN reviews : reviews[r].mem = m /\ reviews[r].state = "OPEN"}

Init ==
  /\ config = [team |-> FALSE, initialised |-> FALSE]
  /\ clone = [made |-> FALSE, fetched |-> 0, orphan |-> FALSE]
  /\ local = [m \in Memories |-> NoMemory]
  /\ proposals = [m \in Memories |-> NoProposal]
  /\ checkpoint = 0
  /\ pub = NoPub /\ sync = NoSync
  /\ commits \in {<<>>, <<FirstCommit>>}
  /\ branches = {} /\ reviews = <<>>
  /\ asked = [m \in Memories |-> NoChange]
  /\ unsafe = {} /\ written = 0 /\ faults = 0 /\ crashes = 0

-----------------------------------------------------------------------------
(* Configuration *)

\* In local mode an accepted memory is simply saved.
SaveLocally(m) ==
  /\ Idle /\ ~config.team
  /\ local[m] = NoMemory /\ m \notin Shared /\ written < MaxVersion
  /\ NewContent
  /\ local' = [local EXCEPT ![m] = Local(written + 1, "local")]
  /\ UNCHANGED <<config, clone, proposals, checkpoint, pub, sync, remote, asked, faults, crashes>>

\* configureProject: clones unless there is a checkout already, then reads
\* project.json from the checkout's own copy of the default branch.
Configure ==
  /\ Idle
  /\ LET made == [clone EXCEPT !.made = TRUE,
                               !.fetched = IF clone.made THEN @ ELSE Tip]
     IN  \* a command fails after the clone
         \/ Fault /\ clone' = made /\ UNCHANGED config
         \* not empty, and not initialised as far as the checkout knows
         \/ /\ commits # <<>> /\ made.fetched = 0
            /\ clone' = made
            /\ UNCHANGED <<config, faults>>
         \/ /\ commits = <<>> \/ made.fetched # 0
            /\ clone' = made
            /\ config' = [team |-> TRUE, initialised |-> commits # <<>>]
            /\ UNCHANGED faults
  /\ UNCHANGED <<local, proposals, checkpoint, pub, sync, remote, asked, written, unsafe, crashes>>

-----------------------------------------------------------------------------
(* What is published *)

Publish(kind, m, op, ver, removals) ==
  pub' = [pc |-> "look", kind |-> kind, mem |-> m, op |-> op, ver |-> ver,
          removals |-> removals, review |-> 0, fresh |-> FALSE]

\* Faulty variant: the memory is taken out of use before it is proposed.
AcceptStaged(m, replaced) ==
  /\ Idle /\ config.team
  /\ local[m] = NoMemory /\ m \notin Shared /\ written < MaxVersion
  /\ replaced \subseteq {x \in Memories \ {m} : IsActive(x)}
  /\ NewContent
  /\ local' = [local EXCEPT ![m] = [Local(written + 1, "local") EXCEPT !.status = "superseded"]]
  /\ Publish("accept", m, "upsert", written + 1, replaced)
  /\ UNCHANGED <<config, clone, proposals, checkpoint, sync, remote, asked, faults, crashes>>

\* publishAcceptedInGitHubMode, approveCandidateInGitHubMode: the pipeline or
\* the approval has saved the memory, which may replace conflicting ones.
Accept(m, replaced) ==
  /\ Idle /\ config.team
  /\ local[m] = NoMemory /\ m \notin Shared /\ written < MaxVersion
  /\ replaced \subseteq {x \in Memories \ {m} : IsActive(x)}
  /\ NewContent
  /\ local' = [local EXCEPT ![m] = Local(written + 1, "local")]
  /\ Publish("accept", m, "upsert", written + 1, replaced)
  /\ UNCHANGED <<config, clone, proposals, checkpoint, sync, remote, asked, faults, crashes>>

\* updateMemory: the memory store keeps the old content.
Update(m) ==
  /\ Idle /\ config.team
  /\ IsActive(m) /\ written < MaxVersion
  /\ NewContent
  /\ Publish("update", m, "upsert", written + 1, {})
  /\ UNCHANGED <<durable, sync, remote, asked, faults, crashes>>

\* supersedeMemory: so does it here, until the removal is merged.
Supersede(m) ==
  /\ Idle /\ config.team
  /\ IsActive(m)
  /\ Publish("remove", m, "remove", local[m].ver, {})
  /\ UNCHANGED <<durable, sync, remote, bounds>>

\* retryProjectPublications, one proposal of its loop, after a retrieval: what
\* the proposal holds is published once more.
Retry(m) ==
  /\ Idle /\ config.team
  /\ proposals[m].state = "sync_failed" /\ proposals[m].due
  /\ Publish("retry", m, proposals[m].op, proposals[m].ver, proposals[m].removals)
  /\ UNCHANGED <<durable, sync, remote, bounds>>

\* The time is looked at when an operation begins, and so may pass between two.
BackoffElapses(m) ==
  /\ Idle
  /\ proposals[m].state = "sync_failed" /\ ~proposals[m].due
  /\ proposals' = [proposals EXCEPT ![m].due = TRUE]
  /\ UNCHANGED <<config, clone, local, checkpoint, pub, sync, remote, bounds>>

-----------------------------------------------------------------------------
(* publishProjectMemory *)

\* Faulty variant: the memory is staged only after a publication that worked.
AfterSuccess ==
  pub' = IF pub.kind = "accept" /\ pub.pc = "record" THEN [pub EXCEPT !.pc = "stage"] ELSE NoPub

\* The handler above goes on when the publication has returned.
AfterPublication ==
  pub' = IF pub.kind = "accept" THEN [pub EXCEPT !.pc = "stage"] ELSE NoPub

\* createMemoryFile throws, before the proposal is looked at: nothing is stored.
Refuse ==
  /\ pub.pc = "look" /\ pub.ver \in unsafe
  /\ AfterPublication
  /\ UNCHANGED <<durable, sync, remote, bounds>>

Deferred(m) == proposals[m].state = "sync_failed" /\ ~proposals[m].due

\* retry_deferred: nothing is stored.
Defer ==
  /\ pub.pc = "look" /\ pub.ver \notin unsafe /\ Deferred(pub.mem)
  /\ AfterPublication
  /\ UNCHANGED <<durable, sync, remote, bounds>>

Aimed(fresh, review, removals) ==
  [pub EXCEPT !.pc = "push", !.fresh = fresh, !.review = review, !.removals = removals]

\* The state of the recorded pull request, "unknown" when gh fails, and the
\* open pull request found on the branch.
Sighted(answered) ==
  LET m == pub.mem
      p == proposals[m]
      reusable == p.review # 0 /\ p.state \in {"proposed", "sync_failed"}
      view == IF ~reusable THEN "none"
              ELSE IF answered THEN reviews[p.review].state ELSE "unknown"
      fresh == view \in {"MERGED", "CLOSED"} \/ p.state = "active"
      found == IF answered /\ ~fresh THEN OpenReviews(m) ELSE {}
  IN  Aimed(fresh,
            IF view = "OPEN" THEN p.review ELSE Max({0} \cup found),
            IF pub.removals = {} THEN p.removals ELSE pub.removals)

Look ==
  /\ pub.pc = "look" /\ pub.ver \notin unsafe /\ ~Deferred(pub.mem)
  /\ \E answered \in BOOLEAN :
       /\ IF answered THEN UNCHANGED faults ELSE Fault
       /\ pub' = Sighted(answered)
  /\ asked' = IF pub.kind = "retry" THEN asked
              ELSE [asked EXCEPT ![pub.mem] = [op |-> pub.op, ver |-> pub.ver]]
  /\ UNCHANGED <<durable, sync, remote, written, unsafe, crashes>>

\* ensureDefaultBranch, when the checkout knows no default branch: it creates
\* one.  git refuses to create the orphan branch a second time, and a push over
\* a default branch that a teammate has created.
FoundDefaultBranch ==
  /\ pub.pc = "push"
  /\ ~config.initialised /\ clone.fetched = 0
  /\ \/ /\ ~clone.orphan /\ commits = <<>>
        /\ commits' = <<FirstCommit>>
        /\ config' = [config EXCEPT !.initialised = TRUE]
        /\ clone' = [clone EXCEPT !.orphan = TRUE, !.fetched = 1]
        /\ UNCHANGED <<pub, faults>>
     \/ /\ \/ (clone.orphan \/ commits # <<>>) /\ UNCHANGED faults
           \/ Fault
        /\ clone' \in {clone, [clone EXCEPT !.orphan = TRUE]}
        /\ commits # <<>> => clone'.orphan
        /\ pub' = [pub EXCEPT !.pc = "fail"]
        /\ UNCHANGED <<commits, config>>
  /\ UNCHANGED <<local, proposals, checkpoint, sync, branches, reviews, asked,
                 written, unsafe, crashes>>

Pushed ==
  [mem |-> pub.mem, op |-> pub.op, ver |-> pub.ver, removals |-> pub.removals]

\* A branch with a review is fetched and continued; any other is cut anew from
\* the default branch, over whatever branch of that name the remote has.  A
\* replacement branch is not created at all.
PushAccepted ==
  /\ ~pub.fresh
  /\ pub.review # 0 <=> BranchOf(pub.mem) # {}

\* fetch, checkoutBranch, writeProposalFiles, commit, pushBranch: a failing
\* command may be the fetch itself, or the push whose answer is lost.
Push ==
  /\ pub.pc = "push"
  /\ config.initialised \/ clone.fetched # 0
  /\ LET usable == UsableBase(commits[Tip], pub.mem) /\ PushAccepted
         after == (branches \ BranchOf(pub.mem)) \cup {Pushed}
         fetched == [clone EXCEPT !.fetched = Tip]
     IN  \/ /\ usable
            /\ branches' = after /\ clone' = fetched
            /\ pub' = [pub EXCEPT !.pc = "review"]
            /\ UNCHANGED faults
         \/ /\ \/ ~usable /\ clone' = fetched /\ UNCHANGED <<branches, faults>>
               \/ Fault /\ UNCHANGED <<clone, branches>>
               \/ usable /\ Fault /\ clone' = fetched /\ branches' \in {branches, after}
            /\ pub' = [pub EXCEPT !.pc = "fail"]
  /\ UNCHANGED <<config, local, proposals, checkpoint, sync, commits, reviews, asked,
                 written, unsafe, crashes>>

\* updatePullRequest, or createPullRequest and, when its answer does not name
\* the pull request, findExistingPullRequest.
OpenReview ==
  /\ pub.pc = "review"
  /\ LET open == OpenReviews(pub.mem)
         created == Append(reviews, [mem |-> pub.mem, state |-> "OPEN"])
     IN  \/ /\ pub.review # 0
            /\ pub' = [pub EXCEPT !.pc = "record"]
            /\ UNCHANGED <<reviews, faults>>
         \/ /\ pub.review = 0 /\ open = {}
            /\ reviews' = created
            /\ pub' = [pub EXCEPT !.pc = "record", !.review = Len(created)]
            /\ UNCHANGED faults
         \/ /\ pub.review = 0 /\ open # {}
            /\ pub' = [pub EXCEPT !.pc = "record", !.review = Max(open)]
            /\ UNCHANGED <<reviews, faults>>
         \/ /\ Fault
            /\ reviews' \in IF pub.review = 0 /\ open = {} THEN {reviews, created}
                            ELSE {reviews}
            /\ pub' = [pub EXCEPT !.pc = "fail"]
  /\ UNCHANGED <<durable, sync, commits, branches, asked, written, unsafe, crashes>>

\* Faulty variant: a failed attempt keeps the content it replaces.
AttemptedBefore(state, review) ==
  IF state = "sync_failed" /\ proposals[pub.mem] # NoProposal
  THEN [proposals[pub.mem] EXCEPT !.state = state, !.due = FALSE]
  ELSE [state |-> state, op |-> pub.op, ver |-> pub.ver, removals |-> pub.removals,
        review |-> review, due |-> FALSE]

\* The proposal as this attempt leaves it (proposalForAttempt).
Attempted(state, review) ==
  [state |-> state, op |-> pub.op, ver |-> pub.ver, removals |-> pub.removals,
   review |-> review, due |-> FALSE]

Record ==
  /\ pub.pc = "record"
  /\ proposals' = [proposals EXCEPT ![pub.mem] = Attempted("proposed", pub.review)]
  /\ AfterPublication
  /\ UNCHANGED <<config, clone, local, checkpoint, sync, remote, bounds>>

\* The catch block: an open pull request on the branch counts as published,
\* otherwise failedProposal schedules a retry.
Recover ==
  /\ pub.pc = "fail"
  /\ LET m == pub.mem
         open == IF pub.fresh THEN {} ELSE OpenReviews(m)
     IN  \/ /\ open # {}
            /\ proposals' = [proposals EXCEPT ![m] = Attempted("proposed", Max(open))]
            /\ UNCHANGED faults
         \/ /\ IF open = {} THEN UNCHANGED faults ELSE Fault
            /\ proposals' = [proposals EXCEPT ![m] =
                 Attempted("sync_failed", IF pub.fresh THEN 0 ELSE proposals[m].review)]
  /\ AfterPublication
  /\ UNCHANGED <<config, clone, local, checkpoint, sync, remote, asked, written, unsafe, crashes>>

\* memoryStore.supersede: until it is merged the memory is not active here.
Stage ==
  /\ pub.pc = "stage"
  /\ local' = [local EXCEPT ![pub.mem].status = "superseded"]
  /\ pub' = NoPub
  /\ UNCHANGED <<config, clone, proposals, checkpoint, sync, remote, bounds>>

-----------------------------------------------------------------------------
(* refreshProjectBeforeRetrieval *)

Listed ==
  {m \in Memories : /\ proposals[m].review # 0
                    /\ proposals[m].state \in {"proposed", "sync_failed"}}

\* Fetches; what follows reads the checkout's copy of the default branch.  A
\* failing fetch ends the refresh with nothing changed.
Refetch ==
  /\ Idle /\ config.team /\ commits # <<>>
  /\ clone' = [clone EXCEPT !.fetched = Tip]
  /\ UNCHANGED <<config, local, proposals, checkpoint, pub, remote, asked,
                 written, unsafe, crashes>>

\* The checkpoint is this commit: every active memory counts as imported.
RefreshReviews ==
  /\ Refetch /\ checkpoint = Tip
  /\ sync' = [pc |-> "inspect", todo |-> Listed, full |-> FALSE, whole |-> TRUE,
              listed |-> Listed, imported |-> {m \in Memories : IsActive(m)},
              removed |-> {}, save |-> FALSE]
  /\ UNCHANGED faults

\* importDefaultBranch: all declared memories, or those that changed since the
\* checkpoint when the manifest did not.  A failing diff counts as a changed
\* manifest, a file that cannot be read is quarantined like a broken one.
RefreshSnapshot ==
  /\ Refetch /\ checkpoint # Tip
  /\ LET c == commits[Tip]
         changed == checkpoint = 0 \/ ManifestChanged(commits[checkpoint], c)
         known == Declared(c) \ DuplicateManifestIds(c)
     IN  IF c.manifest # "valid" THEN UNCHANGED <<sync, faults>>
         ELSE \E full \in {TRUE, changed} :
              LET read == IF full THEN known
                          ELSE known \cap ChangedMemories(commits[checkpoint], c)
                  valid == {m \in read : ValidMemory(c, m)}
              IN \E seen \in {valid} \cup {valid \ {m} : m \in valid} :
                   /\ IF full = changed /\ seen = valid THEN UNCHANGED faults ELSE Fault
                   /\ sync' = [pc |-> "import", todo |-> seen, full |-> full,
                               whole |-> DuplicateManifestIds(c) = {} /\ seen = read,
                               listed |-> Listed, imported |-> {}, removed |-> {},
                               save |-> TRUE]

\* isSupersededProposalStaging
Staging(m, v) ==
  /\ local[m].status = "superseded"
  /\ proposals[m].state = "proposed" /\ proposals[m].op # "remove"
  /\ proposals[m].ver = v

InConflict(p, v) == [p EXCEPT !.state = "conflict", !.ver = IF p = NoProposal THEN v ELSE @]

\* importMemory: a memory made here is replaced only if this is its proposal,
\* merged as proposed; other content is a conflict.
ImportMemory(m) ==
  /\ sync.pc = "import" /\ m \in sync.todo
  /\ LET v == commits[clone.fetched].file[m]
         same == local[m].ver = v /\ IsActive(m)
         conflict == local[m].origin = "local" /\ ~same /\ ~Staging(m, v)
     IN  IF conflict
         THEN /\ proposals' = [proposals EXCEPT ![m] = InConflict(@, v)]
              /\ sync' = [sync EXCEPT !.todo = @ \ {m}]
              /\ UNCHANGED local
         ELSE /\ local' = IF same THEN local ELSE [local EXCEPT ![m] = Local(v, "github")]
              /\ sync' = [sync EXCEPT !.todo = @ \ {m}, !.imported = @ \cup {m}]
              /\ UNCHANGED proposals
  /\ UNCHANGED <<config, clone, checkpoint, pub, remote, bounds>>

\* Faulty variant: an incomplete snapshot counts as imported.
ImportedAnyway ==
  /\ sync.pc = "import" /\ sync.todo = {}
  /\ sync' = IF sync.full THEN [sync EXCEPT !.pc = "drop"]
             ELSE [sync EXCEPT !.pc = "inspect", !.todo = sync.listed]
  /\ UNCHANGED <<durable, pub, remote, bounds>>

\* An incomplete snapshot ends the refresh here.
Imported ==
  /\ sync.pc = "import" /\ sync.todo = {}
  /\ sync' = IF ~sync.whole THEN NoSync
             ELSE IF sync.full THEN [sync EXCEPT !.pc = "drop"]
             ELSE [sync EXCEPT !.pc = "inspect", !.todo = sync.listed]
  /\ UNCHANGED <<durable, pub, remote, bounds>>

Undeclared ==
  {m \in Memories : /\ IsActive(m) /\ local[m].origin = "github"
                    /\ m \notin Declared(commits[clone.fetched])}

DropUndeclared(m) ==
  /\ sync.pc = "drop" /\ m \in Undeclared
  /\ local' = [local EXCEPT ![m].status = "superseded"]
  /\ sync' = [sync EXCEPT !.removed = @ \cup {m}]
  /\ UNCHANGED <<config, clone, proposals, checkpoint, pub, remote, bounds>>

Dropped ==
  /\ sync.pc = "drop" /\ Undeclared = {}
  /\ sync' = [sync EXCEPT !.pc = "inspect", !.todo = sync.listed]
  /\ UNCHANGED <<durable, pub, remote, bounds>>

\* Faulty variant: the proposal is not read again.
ReviewedAsListed(p, view, reconciled) ==
  IF view = "MERGED" /\ reconciled THEN "active"
  ELSE IF view = "CLOSED" THEN "rejected" ELSE p.state

\* The state of a proposal after its inspection.
Reviewed(p, view, reconciled) ==
  IF p.state # "proposed" THEN p.state
  ELSE IF view = "MERGED" /\ reconciled THEN "active"
  ELSE IF view = "CLOSED" THEN "rejected" ELSE p.state

\* refreshProposalReviews: the proposal is read again, as the import may have
\* found a conflict.
InspectReview(m) ==
  /\ sync.pc = "inspect" /\ m \in sync.todo
  /\ sync' = [sync EXCEPT !.todo = @ \ {m}]
  /\ LET p == proposals[m]
         reconciled == IF p.op = "remove" THEN m \in sync.removed ELSE m \in sync.imported
         state == Reviewed(p, reviews[p.review].state, reconciled)
     IN  \/ /\ proposals' = [proposals EXCEPT ![m].state = state]
            /\ UNCHANGED faults
         \/ state # p.state /\ Fault /\ UNCHANGED proposals
  /\ UNCHANGED <<config, clone, local, checkpoint, pub, remote, asked, written, unsafe, crashes>>

SaveCheckpoint ==
  /\ sync.pc = "inspect" /\ sync.todo = {}
  /\ checkpoint' = IF sync.save THEN clone.fetched ELSE checkpoint
  /\ sync' = NoSync
  /\ UNCHANGED <<config, clone, local, proposals, pub, remote, bounds>>

-----------------------------------------------------------------------------
(* Crashes, and the repository *)

Crash ==
  /\ ~Idle /\ faults + crashes < MaxFaults
  /\ crashes' = crashes + 1
  /\ pub' = NoPub /\ sync' = NoSync
  /\ UNCHANGED <<durable, remote, asked, written, unsafe, faults>>

\* Squashed with the branch left behind, or otherwise.
MergeReview(r) ==
  /\ r \in DOMAIN reviews /\ reviews[r].state = "OPEN"
  /\ Tip < MaxCommits
  /\ \E b \in BranchOf(reviews[r].mem) :
       /\ commits' = Append(commits, Merged(commits[Tip], b.mem, b, Tip + 1))
       /\ branches' \in {branches, branches \ {b}}
  /\ reviews' = [reviews EXCEPT ![r].state = "MERGED"]
  /\ UNCHANGED <<durable, pub, sync, bounds>>

CloseReview(r) ==
  /\ r \in DOMAIN reviews /\ reviews[r].state = "OPEN"
  /\ reviews' = [reviews EXCEPT ![r].state = "CLOSED"]
  /\ branches' \in {branches, branches \ BranchOf(reviews[r].mem)}
  /\ UNCHANGED <<durable, pub, sync, commits, bounds>>

Edited(c, m, v) ==
  [c EXCEPT !.manifest = "valid", !.at = Tip + 1, !.decl[m] = v, !.file[m] = v]

\* A teammate initialises the repository, shares or removes a memory, edits its
\* file alone, damages a file or the manifest, or reverts to an earlier commit.
TeammateCommits ==
  /\ Tip < MaxCommits
  /\ \/ /\ commits = <<>>
        /\ commits' = <<FirstCommit>>
        /\ UNCHANGED written
     \/ /\ commits # <<>>
        /\ LET c == commits[Tip] IN
           \E m \in Memories :
             \/ /\ m \in Shared \/ local[m] = NoMemory
                /\ written < MaxVersion /\ written' = written + 1
                /\ commits' \in { Append(commits, d) :
                     d \in {Edited(c, m, written + 1)} \cup
                          IF c.decl[m] = Absent THEN {}
                          ELSE {[c EXCEPT !.file[m] = written + 1]} }
             \/ /\ c.decl[m] # Absent
                /\ commits' \in { Append(commits, d) :
                     d \in { Edited(c, m, Absent), [c EXCEPT !.file[m] = Invalid],
                             [c EXCEPT !.decl[m] = Twice],
                             [c EXCEPT !.manifest = "invalid"] } \ {c} }
                /\ UNCHANGED written
     \/ /\ Reverts
        /\ \E i \in 1..(Tip - 1) : commits' = Append(commits, commits[i])
        /\ UNCHANGED written
  /\ UNCHANGED <<durable, pub, sync, branches, reviews, asked, unsafe,
                 faults, crashes>>

-----------------------------------------------------------------------------
Begin ==
  \/ \E m \in Memories : \E replaced \in SUBSET Memories : Accept(m, replaced)
  \/ \E m \in Memories : Update(m) \/ Supersede(m) \/ Retry(m)

Publishing ==
  \/ Refuse \/ Defer \/ Look \/ FoundDefaultBranch
  \/ Push \/ OpenReview \/ Record \/ Recover \/ Stage

Refreshing ==
  \/ \E m \in Memories : ImportMemory(m) \/ DropUndeclared(m) \/ InspectReview(m)
  \/ Imported \/ Dropped \/ SaveCheckpoint

Repository == TeammateCommits \/ \E r \in 1..MaxReviews : MergeReview(r) \/ CloseReview(r)

Next ==
  \/ Configure
  \/ \E m \in Memories : SaveLocally(m) \/ BackoffElapses(m)
  \/ Len(reviews) < MaxReviews /\ Begin
  \/ Publishing
  \/ RefreshReviews \/ RefreshSnapshot \/ Refreshing
  \/ Crash
  \/ Repository

Spec == Init /\ [][Next]_vars

\* The daemon runs what it started, retrievals go on, back-offs elapse.
FairSpec ==
  /\ Spec
  /\ WF_vars(Publishing)
  /\ WF_vars(Refreshing)
  /\ \A m \in Memories : SF_vars(BackoffElapses(m)) /\ SF_vars(Retry(m))
-----------------------------------------------------------------------------
(* Properties *)

\* A memory that was accepted here and is out of use can be found again: its
\* proposal is stored, whatever failed or died, unless its text may not be
\* published.  (publishAcceptedInGitHubMode: publish, then supersede.)
StagedHasProposal ==
  \A m \in Memories :
    local[m].origin = "local" /\ local[m].status = "superseded" /\ local[m].ver \notin unsafe =>
      proposals[m].state # "none"

\* "Each accepted memory is proposed in its own pull request" (deployment-modes.md):
\* one that was accepted here is in use or has a proposal, once its publication
\* has ended.  The code takes a memory out of use whose proposal was refused.
EachProposed ==
  pub = NoPub =>
    \A m \in Memories :
      local[m].origin = "local" /\ local[m].status = "superseded" =>
        proposals[m].state # "none"

\* The local copy of m agrees with commit c.
Agrees(m, c) ==
  IF m \in Declared(c)
  THEN ValidMemory(c, m) /\ IsActive(m) /\ local[m].ver = c.file[m]
  ELSE ~IsActive(m) \/ local[m].origin = "local"

\* The checkpoint never passes a commit whose import was incomplete: when it is
\* the last fetched commit, every memory that came from the repository is
\* what that commit says, and one made here that differs has a proposal
\* or a conflict on record.  (GitHubTeamService.ts:229-231)
CheckpointAgrees ==
  Idle /\ checkpoint # 0 /\ checkpoint = clone.fetched =>
    \A m \in Memories :
      \/ Agrees(m, commits[checkpoint])
      \/ local[m].origin = "local" /\ proposals[m].state # "none"

\* A proposal becomes active only when its pull request was merged.
ActiveWasMerged ==
  \A m \in Memories :
    proposals[m].state = "active" => reviews[proposals[m].review].state = "MERGED"

\* While its pull request is not merged an accepted memory is not active where
\* it was accepted, unless the daemon died between saving it and staging it.
\* (operations.ts:467-469)
UnmergedInactive ==
  Idle /\ crashes = 0 =>
    \A m \in Memories :
      /\ local[m].origin = "local"
      /\ proposals[m].state \in {"proposed", "sync_failed", "rejected"}
      /\ proposals[m].op = "upsert" /\ proposals[m].ver = local[m].ver
      => ~IsActive(m)

\* Reviews decide: every part of the state has its type, what is active in the
\* shared repository was merged there, and what was not is not in use here.
ReviewsDecide == TypeOK /\ ActiveWasMerged /\ UnmergedInactive

\* A conflict found by an import survives the inspection of the reviews that
\* were listed before it. (GitHubTeamService.ts:270, :287)
ConflictKept ==
  [][\A m \in Memories :
       sync.pc # "idle" /\ proposals[m].state = "conflict" =>
         proposals'[m].state = "conflict"]_vars

\* A retry publishes what was last tried for the user, never the content of an
\* attempt before that: an update that comes while a retry waits is deferred,
\* and one that is tried is stored whatever becomes of it.  Only without
\* crashes.  (GitHubTeamService.ts:434, :244-253)
RetryIsLatest ==
  crashes = 0 /\ pub.pc = "push" /\ pub.kind = "retry" =>
    asked[pub.mem] = [op |-> pub.op, ver |-> pub.ver]

\* A scheduled retry publishes in the end, as long as no command fails and the
\* default branch stays one that proposals can be based on.
RetryPublishes ==
  \A m \in Memories :
    <>[](commits # <<>> /\ UsableBase(commits[Tip], m)) =>
      (proposals[m].state = "sync_failed" ~> proposals[m].state # "sync_failed")
=============================================================================
