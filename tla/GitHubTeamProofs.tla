-------------------------- MODULE GitHubTeamProofs --------------------------
(***************************************************************************)
(* GitHubTeam, for any memories and any bounds: a memory that was accepted *)
(* here leaves use only with a proposal on record, or because its text may *)
(* not be published, whatever fails, crashes or is merged in between, and  *)
(* such a text never is; a refresh keeps the conflicts it finds; what      *)
(* is active in the shared repository was merged; a retry publishes what   *)
(* was last tried; and the checkpoint never passes an import that was      *)
(* incomplete.                                                             *)
(***************************************************************************)
EXTENDS GitHubTeam, FiniteSetTheorems, WellFoundedInduction, TLAPS

\* The fields that the argument reads are there.
Shape ==
  /\ DOMAIN local = Memories
  /\ \A m \in Memories : {"ver", "status", "origin"} \subseteq DOMAIN local[m]
  /\ DOMAIN proposals = Memories
  /\ \A m \in Memories : "state" \in DOMAIN proposals[m]
  /\ pub # NoPub => /\ {"pc", "kind", "mem", "ver"} \subseteq DOMAIN pub
                   /\ pub.pc # "idle" /\ pub.mem \in Memories

\* What is accepted is what was saved, until it is staged.
SavedFirst ==
  pub # NoPub /\ pub.kind = "accept" =>
    sync.pc = "idle" /\ local[pub.mem].ver = pub.ver

\* When the publication has returned, it has left a proposal or was refused.
PublishedFirst ==
  pub.pc = "stage" =>
    /\ pub.kind = "accept"
    /\ proposals[pub.mem].state # "none" \/ pub.ver \in unsafe

IInv == Shape /\ StagedHasProposal /\ SavedFirst /\ PublishedFirst

LEMMA InitIInv == Init => IInv
BY DEF Init, IInv, Shape, StagedHasProposal, SavedFirst, PublishedFirst, NoMemory, NoProposal, NoPub

\* Proposals and memories as they were: a publication goes on without returning,
\* or is cut off.
LEMMA GoesOn ==
  ASSUME IInv, UNCHANGED <<local, proposals>>, unsafe \subseteq unsafe',
         \/ pub' = pub /\ (sync' = sync \/ sync.pc # "idle" \/ pub.pc = "idle")
         \/ pub' = NoPub
         \/ /\ DOMAIN pub' = DOMAIN pub /\ pub # NoPub /\ sync' = sync
            /\ pub'.kind = pub.kind /\ pub'.mem = pub.mem /\ pub'.ver = pub.ver
            /\ pub'.pc \notin {"stage", "idle"}
  PROVE  IInv'
BY DEF IInv, Shape, StagedHasProposal, SavedFirst, PublishedFirst, NoPub

\* A memory is saved, and nothing is published or a publication begins.
LEMMA SaveSteps ==
  ASSUME IInv, NEW m \in Memories, NEW replaced \in SUBSET Memories,
         SaveLocally(m) \/ Accept(m, replaced)
  PROVE  IInv'
<1>1. /\ DOMAIN local' = Memories /\ proposals' = proposals
      /\ \A n \in Memories \ {m} : local'[n] = local[n]
      /\ {"ver", "status", "origin"} \subseteq DOMAIN local'[m]
      /\ local'[m].status = "active" /\ local'[m].ver = written + 1
      /\ unsafe \subseteq unsafe' /\ sync' = sync /\ Idle
  BY DEF IInv, Shape, SaveLocally, Accept, Local, NewContent
<1>2. Shape'
  BY <1>1 DEF IInv, Shape, SaveLocally, Accept, Publish, NoPub
<1>3. SavedFirst' /\ PublishedFirst'
  BY <1>1 DEF IInv, SavedFirst, PublishedFirst, Shape, SaveLocally, Accept, Publish, Idle, NoPub
<1>. QED
  BY <1>1, <1>2, <1>3 DEF IInv, StagedHasProposal

\* Operations that begin, and time that passes.
LEMMA BeginSteps ==
  ASSUME IInv, NEW m \in Memories, Update(m) \/ Supersede(m) \/ Retry(m)
  PROVE  IInv'
<1>1. /\ UNCHANGED <<local, proposals>> /\ unsafe \subseteq unsafe'
      /\ {"pc", "kind", "mem", "ver"} \subseteq DOMAIN pub'
      /\ pub'.kind # "accept" /\ pub'.mem = m /\ pub'.pc = "look"
  BY DEF Update, Supersede, Retry, Publish, durable, bounds, NewContent
<1>. QED
  BY <1>1 DEF IInv, Shape, StagedHasProposal, SavedFirst, PublishedFirst, NoPub

LEMMA BackoffStep ==
  ASSUME IInv, NEW m \in Memories, BackoffElapses(m)
  PROVE  IInv'
BY DEF IInv, Shape, StagedHasProposal, SavedFirst, PublishedFirst, BackoffElapses, bounds

\* A publication returns: its memory has a proposal, or it was refused.
LEMMA ReturnSteps ==
  ASSUME IInv, Refuse \/ Defer \/ Record \/ Recover
  PROVE  IInv'
<1>1. /\ DOMAIN proposals' = Memories /\ UNCHANGED <<local, sync, unsafe>>
      /\ pub # NoPub /\ AfterPublication
      /\ \A n \in Memories \ {pub.mem} : proposals'[n] = proposals[n]
      /\ "state" \in DOMAIN proposals'[pub.mem]
      /\ proposals'[pub.mem].state = "none" => proposals' = proposals /\ pub.ver \in unsafe
  BY DEF IInv, Shape, Refuse, Defer, Record, Recover, Attempted, Deferred, NoPub, durable, bounds
<1>2. Shape' /\ SavedFirst' /\ PublishedFirst'
  BY <1>1 DEF IInv, Shape, SavedFirst, PublishedFirst, AfterPublication, NoPub
<1>. QED
  BY <1>1, <1>2 DEF IInv, Shape, StagedHasProposal

\* A record keeps its other fields.
LEMMA AimedFields ==
  ASSUME {"pc", "kind", "mem", "ver"} \subseteq DOMAIN pub, NEW f, NEW r, NEW g
  PROVE  LET q == Aimed(f, r, g)
         IN  /\ DOMAIN q = DOMAIN pub /\ q.pc = "push"
             /\ q.kind = pub.kind /\ q.mem = pub.mem /\ q.ver = pub.ver
  BY DEF Aimed

LEMMA RecordedFields ==
  ASSUME {"pc", "kind", "mem", "ver"} \subseteq DOMAIN pub, NEW r
  PROVE  LET q == [pub EXCEPT !.pc = "record", !.review = r]
         IN  /\ DOMAIN q = DOMAIN pub /\ q.pc = "record"
             /\ q.kind = pub.kind /\ q.mem = pub.mem /\ q.ver = pub.ver
  OBVIOUS

LEMMA ConflictFields ==
  ASSUME NEW p, "state" \in DOMAIN p, NEW v
  PROVE  "state" \in DOMAIN InConflict(p, v) /\ InConflict(p, v).state = "conflict"
BY DEF InConflict

\* The publication goes on.
LEMMA PublicationSteps ==
  ASSUME IInv, Look \/ FoundDefaultBranch \/ Push \/ OpenReview
  PROVE  IInv'
<1>1. CASE Look
  <2>1. PICK answered \in BOOLEAN : pub' = Sighted(answered)
    BY <1>1 DEF Look
  <2>2. \E f, r, g : Sighted(answered) = Aimed(f, r, g)
    BY Zenon DEF Sighted
  <2>3. pub # NoPub /\ UNCHANGED <<local, proposals, sync, unsafe>>
    BY <1>1, SMT DEF Look, NoPub, durable
  <2>. QED
    BY <2>1, <2>2, <2>3, AimedFields, GoesOn DEF IInv, Shape
<1>2. CASE FoundDefaultBranch
  BY <1>2, GoesOn DEF FoundDefaultBranch, IInv, Shape, NoPub
<1>3. CASE Push
  BY <1>3, GoesOn DEF Push, IInv, Shape, NoPub
<1>4. CASE OpenReview
  <2>1. CASE pub' = [pub EXCEPT !.pc = "record"] \/ pub' = [pub EXCEPT !.pc = "fail"]
    BY <1>4, <2>1, GoesOn DEF OpenReview, IInv, Shape, NoPub, durable
  <2>2. CASE \E r : pub' = [pub EXCEPT !.pc = "record", !.review = r]
    BY <1>4, <2>2, GoesOn, RecordedFields DEF OpenReview, IInv, Shape, NoPub, durable
  <2>. QED
    BY <1>4, <2>1, <2>2, Zenon DEF OpenReview
<1>. QED
  BY <1>1, <1>2, <1>3, <1>4

LEMMA StageStep == ASSUME IInv, Stage PROVE IInv'
<1>1. /\ DOMAIN local' = Memories /\ pub' = NoPub /\ UNCHANGED <<proposals, unsafe>>
      /\ pub.mem \in Memories
      /\ proposals[pub.mem].state # "none" \/ local[pub.mem].ver \in unsafe
      /\ \A n \in Memories \ {pub.mem} : local'[n] = local[n]
      /\ {"ver", "status", "origin"} \subseteq DOMAIN local'[pub.mem]
      /\ local'[pub.mem].ver = local[pub.mem].ver
  BY DEF IInv, Shape, SavedFirst, PublishedFirst, Stage, NoPub, bounds
<1>. QED
  BY <1>1 DEF IInv, Shape, StagedHasProposal, SavedFirst, PublishedFirst, NoPub

\* A refresh never takes a proposal back, and what it imports or drops did not
\* come from here.
LEMMA ImportStep ==
  ASSUME IInv, NEW m \in Memories, ImportMemory(m)
  PROVE  IInv'
<1>1. /\ DOMAIN local' = Memories /\ DOMAIN proposals' = Memories
      /\ UNCHANGED <<pub, unsafe>> /\ sync.pc # "idle"
      /\ \A n \in Memories \ {m} : local'[n] = local[n] /\ proposals'[n] = proposals[n]
  BY DEF IInv, Shape, ImportMemory, bounds
<1>2. /\ {"ver", "status", "origin"} \subseteq DOMAIN local'[m]
      /\ "state" \in DOMAIN proposals'[m]
      /\ proposals[m].state # "none" => proposals'[m].state # "none"
      /\ local'[m] = local[m] \/ local'[m].origin = "github"
  <2>1. local'[m] = local[m] \/ \E v : local'[m] = Local(v, "github")
    BY DEF IInv, Shape, ImportMemory
  <2>2. proposals'[m] = proposals[m] \/ \E v : proposals'[m] = InConflict(proposals[m], v)
    BY DEF IInv, Shape, ImportMemory
  <2>3. \A v : {"ver", "status", "origin"} \subseteq DOMAIN Local(v, "github") /\ Local(v, "github").origin = "github"
    BY DEF Local
  <2>4. /\ "state" \in DOMAIN proposals'[m]
        /\ proposals[m].state # "none" => proposals'[m].state # "none"
    BY <2>2, ConflictFields DEF IInv, Shape
  <2>. QED
    BY <2>1, <2>3, <2>4 DEF IInv, Shape
<1>. QED
  BY <1>1, <1>2 DEF IInv, Shape, StagedHasProposal, SavedFirst, PublishedFirst, NoPub

LEMMA DropStep ==
  ASSUME IInv, NEW m \in Memories, DropUndeclared(m)
  PROVE  IInv'
<1>1. /\ DOMAIN local' = Memories /\ UNCHANGED <<proposals, pub, unsafe>>
      /\ sync.pc # "idle" /\ \A n \in Memories \ {m} : local'[n] = local[n]
      /\ {"ver", "status", "origin"} \subseteq DOMAIN local'[m] /\ local'[m].origin = "github"
  BY DEF IInv, Shape, DropUndeclared, Undeclared, bounds
<1>. QED
  BY <1>1 DEF IInv, Shape, StagedHasProposal, SavedFirst, PublishedFirst

LEMMA InspectStep ==
  ASSUME IInv, NEW m \in Memories, InspectReview(m)
  PROVE  IInv'
<1>1. /\ UNCHANGED <<local, pub, unsafe>> /\ sync.pc # "idle" /\ DOMAIN proposals' = Memories
      /\ \A n \in Memories \ {m} : proposals'[n] = proposals[n]
      /\ "state" \in DOMAIN proposals'[m]
      /\ proposals[m].state # "none" => proposals'[m].state # "none"
  BY DEF IInv, Shape, InspectReview, Reviewed
<1>. QED
  BY <1>1 DEF IInv, Shape, StagedHasProposal, SavedFirst, PublishedFirst, NoPub

LEMMA NextIInv == ASSUME IInv, [Next]_vars PROVE IInv'
<1>1. CASE UNCHANGED vars
  BY <1>1, GoesOn DEF vars, durable, bounds
<1>2. CASE Configure \/ Crash \/ RefreshReviews \/ RefreshSnapshot
  BY <1>2, GoesOn DEF Configure, Crash, RefreshReviews, RefreshSnapshot, Refetch, Idle, durable
<1>3. CASE Begin \/ \E m \in Memories : SaveLocally(m) \/ BackoffElapses(m)
  BY <1>3, SaveSteps, BeginSteps, BackoffStep DEF Begin
<1>4. CASE Publishing
  BY <1>4, ReturnSteps, PublicationSteps, StageStep DEF Publishing
<1>5. CASE Refreshing
  <2>1. CASE Imported \/ Dropped \/ SaveCheckpoint
    BY <2>1, GoesOn DEF Imported, Dropped, SaveCheckpoint, durable, bounds
  <2>. QED
    BY <1>5, <2>1, ImportStep, DropStep, InspectStep DEF Refreshing
<1>6. CASE Repository
  BY <1>6, GoesOn DEF Repository, TeammateCommits, MergeReview, CloseReview, durable, bounds
<1>. QED
  BY <1>1, <1>2, <1>3, <1>4, <1>5, <1>6 DEF Next

\* An accepted memory that is out of use here has a proposal on record, or may
\* not be published at all.
THEOREM StagedHasProposalAlways == Spec => []StagedHasProposal
<1>1. IInv => StagedHasProposal
  BY DEF IInv
<1>. QED
  BY <1>1, InitIInv, NextIInv, PTL DEF Spec

-----------------------------------------------------------------------------
\* No refresh runs during a publication.
Exclusive == pub.pc = "idle" \/ sync.pc = "idle"

LEMMA NextExclusive == ASSUME Exclusive, [Next]_vars PROVE Exclusive'
<1>1. CASE UNCHANGED vars
  BY <1>1 DEF vars, Exclusive
<1>2. CASE Crash
  BY <1>2 DEF Crash, Exclusive, NoPub
<1>3. CASE Configure \/ Repository \/ \E m \in Memories : SaveLocally(m) \/ BackoffElapses(m)
  BY <1>3 DEF Configure, Repository, SaveLocally, BackoffElapses, TeammateCommits, MergeReview,
              CloseReview, Exclusive
<1>4. CASE Begin
  BY <1>4 DEF Begin, Accept, Update, Supersede, Retry, Idle, Exclusive
<1>5. CASE Publishing
  <2>1. pub.pc # "idle" /\ UNCHANGED sync
    BY <1>5 DEF Publishing, Refuse, Defer, Look, FoundDefaultBranch, Push, OpenReview, Record, Recover, Stage
  <2>. QED
    BY <2>1 DEF Exclusive
<1>6. CASE RefreshReviews \/ RefreshSnapshot
  BY <1>6 DEF RefreshReviews, RefreshSnapshot, Refetch, Idle, Exclusive
<1>7. CASE Refreshing
  <2>1. sync.pc # "idle" /\ UNCHANGED pub
    BY <1>7 DEF Refreshing, ImportMemory, DropUndeclared, InspectReview, Imported, Dropped,
                SaveCheckpoint
  <2>. QED
    BY <2>1 DEF Exclusive
<1>. QED
  BY <1>1, <1>2, <1>3, <1>4, <1>5, <1>6, <1>7 DEF Next

\* What one step does to a conflict during a refresh.
LEMMA ConflictStep ==
  ASSUME Shape, Exclusive, Next, NEW m \in Memories,
         sync.pc # "idle", proposals[m].state = "conflict"
  PROVE  proposals'[m].state = "conflict"
<1>1. CASE Publishing
  BY <1>1 DEF Exclusive, Publishing, Refuse, Defer, Look, FoundDefaultBranch, Push, OpenReview, Record,
              Recover, Stage
<1>2. CASE Begin \/ Configure \/ RefreshReviews \/ RefreshSnapshot
  BY <1>2 DEF Begin, Accept, Update, Supersede, Retry, Configure, RefreshReviews,
              RefreshSnapshot, Refetch, Idle
<1>3. CASE \E n \in Memories : SaveLocally(n) \/ BackoffElapses(n)
  BY <1>3 DEF SaveLocally, BackoffElapses, Idle
<1>4. CASE Crash \/ Repository
  BY <1>4 DEF Crash, Repository, TeammateCommits, MergeReview, CloseReview, durable
<1>5. ASSUME NEW n \in Memories, ImportMemory(n) PROVE proposals'[m].state = "conflict"
  <2>1. proposals'[m] = proposals[m] \/ \E v : proposals'[m] = InConflict(proposals[m], v)
    BY <1>5 DEF Shape, ImportMemory
  <2>. QED
    BY <2>1, ConflictFields DEF Shape
<1>6. ASSUME NEW n \in Memories, InspectReview(n) PROVE proposals'[m].state = "conflict"
  BY <1>6 DEF Shape, InspectReview, Reviewed
<1>7. CASE \/ \E n \in Memories : DropUndeclared(n)
           \/ Imported \/ Dropped \/ SaveCheckpoint
  BY <1>7 DEF DropUndeclared, Imported, Dropped, SaveCheckpoint, durable
<1>. QED
  BY <1>1, <1>2, <1>3, <1>4, <1>5, <1>6, <1>7 DEF Next, Refreshing

\* A conflict that a refresh found is still on record when it ends.
THEOREM ConflictKeptAlways == Spec => ConflictKept
<1>1. Init => Exclusive
  BY DEF Init, Exclusive, NoPub
<1>2. Shape /\ Exclusive /\ [Next]_vars =>
        [\A m \in Memories :
           sync.pc # "idle" /\ proposals[m].state = "conflict" =>
             proposals'[m].state = "conflict"]_vars
  BY ConflictStep
<1>3. IInv => Shape
  BY DEF IInv
<1>. QED
  BY <1>1, <1>2, <1>3, InitIInv, NextIInv, NextExclusive, PTL DEF Spec, ConflictKept
-----------------------------------------------------------------------------
(* The reviews decide *)

\* What is read of the repository is there to be read.
Refers ==
  /\ clone.fetched <= Tip /\ checkpoint <= Tip
  /\ config.initialised \/ branches # {} => commits # <<>>
  /\ \A m \in Memories : proposals[m].review <= Len(reviews)
  /\ pub # NoPub => pub.review <= Len(reviews)
  /\ pub.pc \in {"look", "push", "review"} => Len(reviews) < MaxReviews

\* A publication stages a memory that was saved here.
Saved ==
  /\ pub # NoPub /\ pub.kind = "accept" =>
       local[pub.mem] # NoMemory /\ local[pub.mem].origin = "local"
  /\ pub.pc = "stage" => pub.kind = "accept"

\* A refresh reads the proposals that have a pull request, and files that are valid.
Reads ==
  /\ sync # NoSync => \A m \in sync.listed : proposals[m].review # 0
  /\ sync.pc = "inspect" => sync.todo \subseteq sync.listed
  /\ sync.pc = "import" =>
       clone.fetched # 0 /\ \A m \in sync.todo : ValidMemory(commits[clone.fetched], m)

\* An active proposal has a pull request, and it was merged.
MergedReview ==
  \A m \in Memories :
    proposals[m].state = "active" =>
      proposals[m].review # 0 /\ reviews[proposals[m].review].state = "MERGED"

TeamInv == TypeOK /\ Refers /\ Saved /\ Reads /\ Exclusive /\ MergedReview

-----------------------------------------------------------------------------
(* Operators and records *)

LEMMA Bounds ==
  /\ MaxCommits \in Nat /\ MaxReviews \in Nat /\ MaxFaults \in Nat
  /\ MaxCommits > 0 /\ MaxVersion \in Nat /\ MaxVersion > 0
BY TeamAssumption, RepositoryAssumption

\* A set of natural numbers with a bound has a largest element.
LEMMA MaxOfBounded ==
  ASSUME NEW n \in Nat, NEW S \in SUBSET (0..n), S # {}
  PROVE  Max(S) \in S
<1>. DEFINE T == {n - x : x \in S}
<1>1. T \subseteq Nat /\ T # {}
  <2>1. \A x \in S : n - x \in Nat
    OBVIOUS
  <2>. QED
    BY <2>1
<1>2. PICK d \in T : \A y \in T : ~(<<y, d>> \in OpToRel(<, Nat))
  BY <1>1, NatLessThanWellFounded, WFMin
<1>3. PICK x \in S : d = n - x
  OBVIOUS
<1>4. \A y \in S : x >= y
  <2>1. SUFFICES ASSUME NEW y \in S, x < y PROVE FALSE
    OBVIOUS
  <2>2. n - y \in T /\ n - y < d /\ n - y \in Nat /\ d \in Nat
    BY <2>1, <1>3
  <2>. QED
    BY <2>2, <1>2 DEF OpToRel
<1>. QED
  BY <1>3, <1>4 DEF Max

\* A publication begins or moves on.
LEMMA PublicationBegins ==
  ASSUME NEW k \in {"accept", "update", "remove", "retry"}, NEW m \in Memories,
         NEW o \in {"upsert", "remove"}, NEW v \in Versions, NEW g \in SUBSET Memories,
         TypeOK
  PROVE  [pc |-> "look", kind |-> k, mem |-> m, op |-> o, ver |-> v, removals |-> g,
          review |-> 0, fresh |-> FALSE] \in Publication
  BY TeamAssumption DEF Publication, TypeOK

LEMMA PublicationMoves ==
  ASSUME NEW q \in Publication,
         NEW p \in {"look", "push", "review", "record", "fail", "stage"}
  PROVE  /\ [q EXCEPT !.pc = p] \in Publication
         /\ [q EXCEPT !.pc = p].pc = p
         /\ [q EXCEPT !.pc = p].kind = q.kind /\ [q EXCEPT !.pc = p].mem = q.mem
         /\ [q EXCEPT !.pc = p].op = q.op /\ [q EXCEPT !.pc = p].ver = q.ver
         /\ [q EXCEPT !.pc = p].review = q.review
  BY DEF Publication

LEMMA PublicationRecords ==
  ASSUME NEW q \in Publication, NEW r \in 0..MaxReviews
  PROVE  LET s == [q EXCEPT !.pc = "record", !.review = r]
         IN  /\ s \in Publication /\ s.pc = "record" /\ s.kind = q.kind /\ s.mem = q.mem
             /\ s.op = q.op /\ s.ver = q.ver /\ s.review = r
  BY DEF Publication

LEMMA PublicationAims ==
  ASSUME pub \in Publication, NEW f \in BOOLEAN, NEW r \in 0..MaxReviews,
         NEW g \in SUBSET Memories
  PROVE  LET s == Aimed(f, r, g)
         IN  /\ s \in Publication /\ s.pc = "push" /\ s.kind = pub.kind /\ s.mem = pub.mem
             /\ s.op = pub.op /\ s.ver = pub.ver /\ s.review = r
  BY DEF Publication, Aimed

\* A refresh moves on.
LEMMA RefreshMoves ==
  ASSUME NEW s \in Refresh, NEW m \in Memories
  PROVE  /\ [s EXCEPT !.todo = @ \ {m}] \in Refresh
         /\ [s EXCEPT !.todo = @ \ {m}, !.imported = @ \cup {m}] \in Refresh
         /\ [s EXCEPT !.removed = @ \cup {m}] \in Refresh
  BY DEF Refresh

LEMMA RefreshGoesOn ==
  ASSUME NEW s \in Refresh
  PROVE  /\ [s EXCEPT !.pc = "drop"] \in Refresh
         /\ [s EXCEPT !.pc = "inspect", !.todo = s.listed] \in Refresh
  BY DEF Refresh

\* Memories and proposals change.
LEMMA LocalChanges ==
  ASSUME NEW v \in Versions, NEW o \in {"local", "github"}
  PROVE  /\ Local(v, o) \in LocalMemory /\ Local(v, o) # NoMemory
         /\ Local(v, o).ver = v /\ Local(v, o).status = "active" /\ Local(v, o).origin = o
  BY DEF Local, LocalMemory, NoMemory

LEMMA LocalRetires ==
  ASSUME NEW x \in LocalMemory, x # NoMemory
  PROVE  LET y == [x EXCEPT !.status = "superseded"]
         IN  /\ y \in LocalMemory /\ y # NoMemory
             /\ y.ver = x.ver /\ y.origin = x.origin /\ y.status = "superseded"
  BY DEF LocalMemory, NoMemory

LEMMA ProposalFields ==
  ASSUME NEW p \in Proposal
  PROVE  /\ p.op \in {"upsert", "remove"} /\ p.removals \in SUBSET Memories
         /\ p.review \in 0..MaxReviews
         /\ p.review # 0 \/ p.state # "none" => p # NoProposal
         /\ p # NoProposal => p.ver \in Versions /\ p.state # "none"
  BY TeamAssumption DEF Proposal, NoProposal

LEMMA ProposalChanges ==
  ASSUME NEW p \in Proposal, p # NoProposal,
         NEW s \in {"proposed", "active", "rejected", "sync_failed", "conflict"}
  PROVE  /\ [p EXCEPT !.state = s] \in Proposal
         /\ [p EXCEPT !.state = s].state = s
         /\ [p EXCEPT !.state = s].op = p.op /\ [p EXCEPT !.state = s].ver = p.ver
         /\ [p EXCEPT !.state = s].review = p.review
  BY DEF Proposal, NoProposal

LEMMA ProposalDue ==
  ASSUME NEW p \in Proposal, p # NoProposal
  PROVE  LET q == [p EXCEPT !.due = TRUE]
         IN  q \in Proposal /\ q.state = p.state /\ q.op = p.op /\ q.ver = p.ver /\ q.review = p.review
  BY DEF Proposal, NoProposal

LEMMA ProposalInConflict ==
  ASSUME NEW p \in Proposal, NEW v \in Versions
  PROVE  LET q == InConflict(p, v)
         IN  /\ q \in Proposal /\ q.state = "conflict" /\ q.review = p.review
             /\ q.ver = v \/ q.ver = p.ver
<1>. DEFINE w == IF p = NoProposal THEN v ELSE p.ver
<1>1. p \in [state : {"none", "proposed", "active", "rejected", "sync_failed", "conflict"},
             op : {"upsert", "remove"}, ver : Nat, removals : SUBSET Memories,
             review : 0..MaxReviews, due : BOOLEAN]
  <2>1. CASE p = NoProposal
    BY <2>1, TeamAssumption DEF NoProposal
  <2>2. CASE p # NoProposal
    BY <2>2 DEF Proposal, Versions
  <2>. QED
    BY <2>1, <2>2
<1>2. w \in Versions
  BY ProposalFields
<1>3. InConflict(p, v) = [p EXCEPT !.state = "conflict", !.ver = w]
  BY <1>1 DEF InConflict
<1>4. [p EXCEPT !.state = "conflict", !.ver = w] \in
        [state : {"conflict"}, op : {"upsert", "remove"}, ver : Versions,
         removals : SUBSET Memories, review : {p.review}, due : BOOLEAN]
  BY <1>1, <1>2
<1>5. [p EXCEPT !.state = "conflict", !.ver = w].ver = w
  BY <1>1
<1>. QED
  BY <1>1, <1>3, <1>4, <1>5 DEF Proposal

\* What an attempt records.
LEMMA ProposalAttempted ==
  ASSUME pub \in Publication, NEW s \in {"proposed", "sync_failed"}, NEW r \in 0..MaxReviews
  PROVE  LET p == Attempted(s, r)
         IN  /\ p \in Proposal /\ p # NoProposal /\ p.state = s
             /\ p.op = pub.op /\ p.ver = pub.ver /\ p.review = r
  BY DEF Attempted, Publication, Proposal, NoProposal

\* The configuration and the checkout change.
Configuration == [team : BOOLEAN, initialised : BOOLEAN]
Checkout == [made : BOOLEAN, fetched : 0..MaxCommits, orphan : BOOLEAN]

LEMMA CheckoutChanges ==
  ASSUME NEW c \in Checkout, NEW f \in 0..MaxCommits
  PROVE  /\ [c EXCEPT !.fetched = f] \in Checkout /\ [c EXCEPT !.fetched = f].fetched = f
         /\ [c EXCEPT !.orphan = TRUE] \in Checkout /\ [c EXCEPT !.orphan = TRUE].fetched = c.fetched
         /\ [c EXCEPT !.orphan = TRUE, !.fetched = f] \in Checkout
         /\ [c EXCEPT !.orphan = TRUE, !.fetched = f].fetched = f
         /\ [c EXCEPT !.made = TRUE, !.fetched = f] \in Checkout
         /\ [c EXCEPT !.made = TRUE, !.fetched = f].fetched = f
  BY DEF Checkout

\* Commits.
LEMMA FirstIsCommit == FirstCommit \in Commit
BY RepositoryAssumption DEF FirstCommit, Commit, Absent

LEMMA MergedIsCommit ==
  ASSUME NEW c \in Commit, NEW b \in Branch, NEW m \in Memories, NEW at \in Nat
  PROVE  Merged(c, m, b, at) \in Commit
<1>. DEFINE gone == IF b.op = "remove" THEN {m} ELSE b.removals
            put(f) == [n \in Memories |->
                         IF n \in gone THEN Absent ELSE IF n = m THEN b.ver ELSE f[n]]
<1>1. b.ver \in 0..MaxVersion + 1 /\ Absent \in 0..MaxVersion + 1
  BY RepositoryAssumption DEF Branch, Versions, Absent
<1>2. put(c.decl) \in [Memories -> 0..MaxVersion + 1] /\ put(c.file) \in [Memories -> 0..MaxVersion + 1]
  BY <1>1 DEF Commit
<1>3. Merged(c, m, b, at) = [manifest |-> "valid", at |-> at, decl |-> put(c.decl), file |-> put(c.file)]
  BY DEF Merged
<1>. QED
  BY <1>2, <1>3 DEF Commit

LEMMA CommitChanges ==
  ASSUME NEW c \in Commit, NEW m \in Memories, NEW v \in 0..MaxVersion + 1, Tip \in Nat
  PROVE  /\ Edited(c, m, v) \in Commit
         /\ [c EXCEPT !.file[m] = v] \in Commit /\ [c EXCEPT !.decl[m] = v] \in Commit
         /\ [c EXCEPT !.manifest = "invalid"] \in Commit
<1>1. /\ [c.decl EXCEPT ![m] = v] \in [Memories -> 0..MaxVersion + 1]
      /\ [c.file EXCEPT ![m] = v] \in [Memories -> 0..MaxVersion + 1]
  BY DEF Commit
<1>2. [c EXCEPT !.file[m] = v] \in Commit /\ [c EXCEPT !.decl[m] = v] \in Commit
  <2>1. /\ [c EXCEPT !.file[m] = v] = [c EXCEPT !.file = [c.file EXCEPT ![m] = v]]
        /\ [c EXCEPT !.decl[m] = v] = [c EXCEPT !.decl = [c.decl EXCEPT ![m] = v]]
    BY DEF Commit
  <2>. QED
    BY <1>1, <2>1 DEF Commit
<1>3. [c EXCEPT !.manifest = "invalid"] \in Commit
  BY DEF Commit
<1>4. Edited(c, m, v) \in
        [manifest : {"valid"}, at : {Tip + 1}, decl : {[c.decl EXCEPT ![m] = v]},
         file : {[c.file EXCEPT ![m] = v]}]
  <2>1. Edited(c, m, v) = [c EXCEPT !.manifest = "valid", !.at = Tip + 1,
                                    !.decl = [c.decl EXCEPT ![m] = v],
                                    !.file = [c.file EXCEPT ![m] = v]]
    BY DEF Edited, Commit
  <2>. QED
    BY <2>1 DEF Commit
<1>5. Edited(c, m, v) \in Commit
  BY <1>1, <1>4 DEF Commit
<1>. QED
  BY <1>2, <1>3, <1>5

\* What a changed commit declares.
LEMMA CommitDeclares ==
  ASSUME NEW c \in Commit, NEW m \in Memories, NEW v, NEW n \in Memories
  PROVE  /\ Edited(c, m, v).decl[n] \in {v, c.decl[n]}
         /\ [c EXCEPT !.file[m] = v].decl = c.decl
         /\ [c EXCEPT !.decl[m] = v].decl[n] \in {v, c.decl[n]}
         /\ [c EXCEPT !.manifest = "invalid"].decl = c.decl
         /\ Edited(c, m, v).at = Tip + 1 /\ [c EXCEPT !.file[m] = v].at = c.at
         /\ [c EXCEPT !.decl[m] = v].at = c.at /\ [c EXCEPT !.manifest = "invalid"].at = c.at
  BY DEF Edited, Commit

-----------------------------------------------------------------------------
(* Every step keeps TeamInv *)

LEMMA InitTeam == Init => TeamInv
<1>. SUFFICES ASSUME Init PROVE TeamInv
  OBVIOUS
<1>1. commits \in Seq(Commit) /\ Len(commits) <= MaxCommits /\ Len(commits) \in Nat
  <2>1. CASE commits = <<>>
    BY <2>1, Bounds
  <2>2. CASE commits = <<FirstCommit>>
    BY <2>2, FirstIsCommit, Bounds
  <2>. QED
    BY <2>1, <2>2 DEF Init
<1>2. TypeOK
  BY <1>1, Bounds, FS_EmptySet
     DEF TypeOK, Init, LocalMemory, Proposal
<1>. QED
  BY <1>1, <1>2
     DEF Init, TeamInv, Refers, Saved, Reads, Exclusive, MergedReview, Tip, NoPub, NoSync, NoProposal

\* Steps that leave the proposals and the reviews alone keep what they say.
LEMMA UnchangedReviews ==
  ASSUME MergedReview, UNCHANGED <<proposals, reviews>>
  PROVE  MergedReview'
  BY DEF MergedReview

LEMMA ConfigureTeam == ASSUME TeamInv, Configure PROVE TeamInv'
<1>1. /\ clone'.fetched \in 0..Tip /\ Tip \in 0..MaxCommits
      /\ clone' \in Checkout
      /\ config' \in Configuration
      /\ config'.initialised => config.initialised \/ commits # <<>>
      /\ faults' \in 0..MaxFaults
  <2>1. /\ Tip \in 0..MaxCommits /\ clone.fetched \in 0..Tip
        /\ clone \in Checkout /\ config \in Configuration
    BY Bounds DEF TeamInv, TypeOK, Refers, Tip, Checkout, Configuration
  <2>2. PICK f \in 0..Tip : clone' = [clone EXCEPT !.made = TRUE, !.fetched = f]
    <3>1. \E made : /\ made = [clone EXCEPT !.made = TRUE,
                                          !.fetched = IF clone.made THEN clone.fetched ELSE Tip]
                   /\ clone' = made
      BY DEF Configure
    <3>2. clone.fetched \in 0..Tip /\ Tip \in 0..Tip
      BY <2>1
    <3>. QED
      BY <3>1, <3>2
  <2>3. config' = config \/ config' = [team |-> TRUE, initialised |-> commits # <<>>]
    BY DEF Configure
  <2>4. faults' \in 0..MaxFaults
    BY Bounds DEF TeamInv, TypeOK, Configure, Fault
  <2>5. clone'.fetched \in 0..Tip /\ clone' \in Checkout
    <3>1. f \in 0..MaxCommits
      BY <2>1, Bounds
    <3>. QED
      BY <2>1, <2>2, <3>1, CheckoutChanges
  <2>6. /\ config' \in Configuration
        /\ config'.initialised => config.initialised \/ commits # <<>>
    <3>1. (commits # <<>>) \in BOOLEAN
      OBVIOUS
    <3>2. CASE config' = [team |-> TRUE, initialised |-> commits # <<>>]
      <4>. DEFINE b == commits # <<>>
      <4>1. config' = [team |-> TRUE, initialised |-> b] /\ b \in BOOLEAN
        BY <3>1, <3>2
      <4>. HIDE DEF b
      <4>2. config' \in Configuration /\ config'.initialised = b
        BY <4>1 DEF Configuration
      <4>. QED
        BY <4>2 DEF b
    <3>. QED
      BY <2>1, <2>3, <3>2
  <2>. QED
    BY <2>1, <2>4, <2>5, <2>6
<1>2. UNCHANGED <<local, proposals, checkpoint, pub, sync, remote, asked, written, unsafe, crashes>> /\ Idle
  BY DEF Configure
<1>3. TypeOK'
  BY <1>1, <1>2 DEF TeamInv, TypeOK, remote, Checkout, Configuration
<1>4. Refers' /\ Saved' /\ Reads' /\ Exclusive'
  BY <1>1, <1>2 DEF TeamInv, Refers, Saved, Reads, Exclusive, Idle, Tip, remote
<1>. QED
  BY <1>2, <1>3, <1>4, UnchangedReviews DEF TeamInv, remote

LEMMA SaveTeam ==
  ASSUME TeamInv, NEW m \in Memories,
         \/ SaveLocally(m)
         \/ Len(reviews) < MaxReviews /\ \E replaced \in SUBSET Memories : Accept(m, replaced)
  PROVE  TeamInv'
<1>1. /\ written' = written + 1 /\ written' \in Versions /\ written' \in 0..MaxVersion
      /\ local' = [local EXCEPT ![m] = Local(written', "local")] /\ Idle
      /\ UNCHANGED <<config, clone, proposals, checkpoint, sync, remote, asked, faults, crashes>>
  BY Bounds DEF TeamInv, TypeOK, SaveLocally, Accept, Versions, NewContent
<1>2. /\ local' \in [Memories -> LocalMemory] /\ local'[m] # NoMemory
      /\ local'[m].origin = "local" /\ \A n \in Memories \ {m} : local'[n] = local[n]
  BY <1>1, LocalChanges DEF TeamInv, TypeOK
<1>u. unsafe' \subseteq Versions
  BY <1>1 DEF TeamInv, TypeOK, SaveLocally, Accept, NewContent
<1>p. pub # NoPub => pub.mem \in Memories
  BY DEF TeamInv, TypeOK, Publication
<1>3. CASE pub' = pub
  BY <1>1, <1>2, <1>u, <1>p, <1>3 DEF TeamInv, TypeOK, Refers, Saved, Reads, Exclusive, MergedReview, Tip, remote
<1>4. ASSUME NEW replaced \in SUBSET Memories, Publish("accept", m, "upsert", written', replaced),
             Len(reviews) < MaxReviews
      PROVE  TeamInv'
  <2>1. pub' \in Publication
    BY <1>1, <1>4, PublicationBegins DEF Publish, TeamInv
  <2>2. pub'.pc = "look" /\ pub'.mem = m /\ pub'.review = 0
    BY <1>4 DEF Publish
  <2>3. TypeOK'
    BY <1>1, <1>2, <1>u, <2>1 DEF TeamInv, TypeOK, remote
  <2>. QED
    BY <1>1, <1>2, <1>4, <2>2, <2>3
       DEF TeamInv, TypeOK, Refers, Saved, Reads, Exclusive, MergedReview, Tip, Idle, remote
<1>. QED
  BY <1>1, <1>3, <1>4 DEF SaveLocally, Accept

\* A publication of what is in use, or was proposed.
LEMMA BeginTeam ==
  ASSUME TeamInv, NEW m \in Memories, Update(m) \/ Supersede(m) \/ Retry(m),
         Len(reviews) < MaxReviews
  PROVE  TeamInv'
<1>1. /\ UNCHANGED <<durable, sync, remote, asked, faults, crashes>> /\ Idle
      /\ written' \in 0..MaxVersion /\ unsafe' \subseteq Versions
  BY Bounds DEF TeamInv, TypeOK, Update, Supersede, Retry, bounds, Versions, NewContent
<1>2. PICK k \in {"update", "remove", "retry"}, o \in {"upsert", "remove"}, v \in Versions,
           g \in SUBSET Memories : Publish(k, m, o, v, g)
  <2>1. CASE Update(m)
    BY <2>1, Bounds DEF Update, TeamInv, TypeOK, Versions, NewContent
  <2>2. CASE Supersede(m)
    <3>1. local[m].ver \in Versions
      BY <2>2 DEF Supersede, TeamInv, TypeOK, IsActive, LocalMemory, NoMemory
    <3>. QED
      BY <2>2, <3>1 DEF Supersede
  <2>3. CASE Retry(m)
    <3>1. proposals[m] \in Proposal /\ proposals[m].state # "none"
      BY <2>3 DEF Retry, TeamInv, TypeOK
    <3>. QED
      BY <2>3, <3>1, ProposalFields DEF Retry
  <2>. QED
    BY <2>1, <2>2, <2>3
<1>3. pub' \in Publication /\ pub'.pc = "look" /\ pub'.kind # "accept" /\ pub'.review = 0
  BY <1>2, PublicationBegins DEF TeamInv, Publish
<1>4. TypeOK'
  BY <1>1, <1>3 DEF TeamInv, TypeOK, durable, remote
<1>. QED
  BY <1>1, <1>3, <1>4
     DEF TeamInv, TypeOK, Refers, Saved, Reads, Exclusive, MergedReview, Tip, Idle, durable, remote

\* The proposal of one memory changes, while no refresh reads it.
LEMMA BackoffTeam == ASSUME TeamInv, NEW m \in Memories, BackoffElapses(m) PROVE TeamInv'
<1>1. /\ UNCHANGED <<config, clone, local, checkpoint, pub, sync, remote, bounds>> /\ Idle
      /\ proposals' = [proposals EXCEPT ![m] = [proposals[m] EXCEPT !.due = TRUE]]
      /\ proposals[m] \in Proposal /\ proposals[m].state = "sync_failed"
  BY DEF BackoffElapses, TeamInv, TypeOK
<1>2. /\ proposals' \in [Memories -> Proposal]
      /\ proposals'[m].state = proposals[m].state /\ proposals'[m].review = proposals[m].review
      /\ \A n \in Memories \ {m} : proposals'[n] = proposals[n]
  BY <1>1, ProposalFields, ProposalDue DEF TeamInv, TypeOK
<1>3. TypeOK'
  BY <1>1, <1>2 DEF TeamInv, TypeOK, remote, bounds
<1>. QED
  BY <1>1, <1>2, <1>3
     DEF TeamInv, Refers, Saved, Reads, Exclusive, MergedReview, Tip, Idle, remote, NoSync

\* Publication goes on without anything that a refresh or the reviews say.
LEMMA PublicationTeam ==
  ASSUME TeamInv, UNCHANGED <<local, proposals, checkpoint, sync, reviews>>,
         pub # NoPub, pub' \in Publication,
         pub'.kind = pub.kind, pub'.mem = pub.mem, pub'.pc = "stage" => pub.kind = "accept",
         pub'.review <= Len(reviews),
         pub'.pc \in {"look", "push", "review"} => Len(reviews) < MaxReviews,
         config' \in Configuration,
         clone' \in Checkout,
         commits' \in Seq(Commit), Len(commits) <= Len(commits'), Len(commits') <= MaxCommits,
         clone'.fetched <= Len(commits'),
         config'.initialised \/ branches' # {} => commits' # <<>>,
         IsFiniteSet(branches'), branches' \subseteq Branch,
         asked' \in [Memories -> Change \cup {NoChange}],
         written' = written, unsafe' = unsafe, faults' \in 0..MaxFaults, crashes' = crashes
  PROVE  TeamInv'
<1>1. TypeOK'
  BY DEF TeamInv, TypeOK, Checkout, Configuration
<1>2. Refers'
  BY Bounds DEF TeamInv, TypeOK, Refers, Tip
<1>6. MergedReview'
  BY UnchangedReviews DEF TeamInv
<1>4. sync.pc = "idle"
  <2>1. pub \in Publication
    BY DEF TeamInv, TypeOK
  <2>2. pub.pc # "idle"
    BY <2>1 DEF Publication
  <2>. QED
    BY <2>2 DEF TeamInv, Exclusive
<1>3. Saved' /\ Exclusive'
  <2>1. sync'.pc = "idle"
    BY <1>4
  <2>2. Saved'
    BY DEF TeamInv, Saved
  <2>. QED
    BY <2>1, <2>2 DEF Exclusive
<1>5. Reads'
  BY <1>4 DEF TeamInv, TypeOK, Reads, Refresh
<1>. QED
  BY <1>1, <1>2, <1>3, <1>5, <1>6 DEF TeamInv

\* What a publication at work finds.
Running ==
  /\ pub # NoPub /\ pub \in Publication /\ pub.mem \in Memories
  /\ pub.kind \in {"accept", "update", "remove", "retry"}
  /\ pub.review \in 0..Len(reviews) /\ pub.review \in 0..MaxReviews
  /\ pub.ver \in Versions /\ pub.op \in {"upsert", "remove"} /\ pub.removals \in SUBSET Memories
  /\ Tip \in 0..MaxCommits /\ Len(reviews) \in 0..MaxReviews
  /\ commits \in Seq(Commit) /\ Len(commits) \in Nat /\ Len(commits) <= MaxCommits
  /\ proposals[pub.mem] \in Proposal /\ proposals[pub.mem].review \in 0..Len(reviews)
  /\ clone \in Checkout /\ clone.fetched \in 0..Len(commits) /\ config \in Configuration
  /\ config.initialised \/ branches # {} => commits # <<>>
  /\ IsFiniteSet(branches) /\ branches \subseteq Branch
  /\ asked \in [Memories -> Change \cup {NoChange}]
  /\ pub.pc \in {"look", "push", "review"} => Len(reviews) < MaxReviews

LEMMA RunningFacts == ASSUME TeamInv, pub.pc # "idle" PROVE Running
<1>1. pub # NoPub /\ pub \in Publication
  BY DEF TeamInv, TypeOK, NoPub
<1>2. /\ pub.mem \in Memories /\ pub.kind \in {"accept", "update", "remove", "retry"}
      /\ pub.ver \in Versions /\ pub.op \in {"upsert", "remove"} /\ pub.removals \in SUBSET Memories
      /\ pub.review \in 0..MaxReviews
  BY <1>1 DEF Publication
<1>3. proposals[pub.mem] \in Proposal /\ proposals[pub.mem].review \in 0..MaxReviews
  BY <1>2, ProposalFields DEF TeamInv, TypeOK
<1>4. Len(commits) \in Nat /\ Len(reviews) \in Nat
  BY DEF TeamInv, TypeOK
<1>5. /\ clone \in Checkout /\ clone.fetched \in 0..Len(commits) /\ config \in Configuration
  BY <1>4 DEF TeamInv, TypeOK, Refers, Tip, Checkout, Configuration
<1>6. /\ pub.review \in 0..Len(reviews) /\ proposals[pub.mem].review \in 0..Len(reviews)
  BY <1>1, <1>2, <1>3, <1>4 DEF TeamInv, Refers
<1>7. /\ Tip \in 0..MaxCommits /\ Len(reviews) \in 0..MaxReviews
      /\ Len(commits) <= MaxCommits /\ commits \in Seq(Commit)
      /\ asked \in [Memories -> Change \cup {NoChange}]
      /\ IsFiniteSet(branches) /\ branches \subseteq Branch
  BY <1>4, Bounds DEF TeamInv, TypeOK, Tip
<1>8. /\ config.initialised \/ branches # {} => commits # <<>>
      /\ pub.pc \in {"look", "push", "review"} => Len(reviews) < MaxReviews
  BY DEF TeamInv, Refers
<1>. QED
  BY <1>1, <1>2, <1>3, <1>4, <1>5, <1>6, <1>7, <1>8 DEF Running

\* An open review is one of the reviews.
LEMMA MaxOfReviews ==
  ASSUME TeamInv, NEW S \in SUBSET (DOMAIN reviews \cup {0}), S # {}
  PROVE  Max(S) \in S /\ Max(S) \in 0..Len(reviews)
<1>1. Len(reviews) \in Nat /\ S \in SUBSET (0..Len(reviews))
  BY DEF TeamInv, TypeOK
<1>. QED
  BY <1>1, MaxOfBounded

LEMMA LookTeam == ASSUME TeamInv, Look PROVE TeamInv'
<1>r. Running
  BY RunningFacts DEF Look
<1>1. /\ pub.pc = "look" /\ UNCHANGED <<durable, sync, remote, written, unsafe, crashes>>
      /\ faults' \in 0..MaxFaults
  BY Bounds DEF Look, Fault, TeamInv, TypeOK
<1>2. PICK answered \in BOOLEAN : pub' = Sighted(answered)
  BY DEF Look
<1>3. \E f \in BOOLEAN, r \in 0..Len(reviews), g \in SUBSET Memories :
        Sighted(answered) = Aimed(f, r, g)
  <2>. DEFINE m == pub.mem
              p == proposals[m]
              reusable == p.review # 0 /\ p.state \in {"proposed", "sync_failed"}
              view == IF ~reusable THEN "none"
                      ELSE IF answered THEN reviews[p.review].state ELSE "unknown"
              fresh == view \in {"MERGED", "CLOSED"} \/ p.state = "active"
              found == IF answered /\ ~fresh THEN OpenReviews(m) ELSE {}
              r == IF view = "OPEN" THEN p.review ELSE Max({0} \cup found)
              g == IF pub.removals = {} THEN p.removals ELSE pub.removals
  <2>1. Sighted(answered) = Aimed(fresh, r, g)
    BY DEF Sighted
  <2>2. fresh \in BOOLEAN
    OBVIOUS
  <2>3. r \in 0..Len(reviews)
    <3>1. {0} \cup found \in SUBSET (DOMAIN reviews \cup {0})
      BY DEF OpenReviews
    <3>2. Max({0} \cup found) \in 0..Len(reviews)
      BY <3>1, MaxOfReviews
    <3>. QED
      BY <1>r, <3>2 DEF Running
  <2>4. g \in SUBSET Memories
    BY <1>r, ProposalFields DEF Running
  <2>. HIDE DEF fresh, r, g
  <2>. QED
    BY <2>1, <2>2, <2>3, <2>4
<1>4. PICK f \in BOOLEAN, r \in 0..Len(reviews), g \in SUBSET Memories : pub' = Aimed(f, r, g)
  BY <1>2, <1>3
<1>5. /\ pub' \in Publication /\ pub'.pc = "push" /\ pub'.kind = pub.kind
      /\ pub'.mem = pub.mem /\ pub'.review = r
  <2>1. r \in 0..MaxReviews
    BY <1>r, Bounds DEF Running
  <2>. QED
    BY <1>r, <1>4, <2>1, PublicationAims DEF Running
<1>6. asked' \in [Memories -> Change \cup {NoChange}]
  <2>1. [op |-> pub.op, ver |-> pub.ver] \in Change
    BY <1>r DEF Change, Running
  <2>. QED
    BY <2>1 DEF Look, TeamInv, TypeOK
<1>. QED
  BY <1>r, <1>1, <1>5, <1>6, PublicationTeam DEF Running, durable, remote, Checkout

LEMMA FoundTeam == ASSUME TeamInv, FoundDefaultBranch PROVE TeamInv'
<1>r. Running
  BY RunningFacts DEF FoundDefaultBranch
<1>1. /\ pub.pc = "push"
      /\ UNCHANGED <<local, proposals, checkpoint, sync, branches, reviews, asked, written, unsafe, crashes>>
      /\ faults' \in 0..MaxFaults
  BY Bounds DEF FoundDefaultBranch, Fault, TeamInv, TypeOK
<1>2. CASE /\ commits = <<>> /\ commits' = <<FirstCommit>> /\ pub' = pub
           /\ config' = [config EXCEPT !.initialised = TRUE]
           /\ clone' = [clone EXCEPT !.orphan = TRUE, !.fetched = 1]
  <2>1. commits' \in Seq(Commit) /\ Len(commits') = 1 /\ Len(commits) = 0
    BY <1>2, FirstIsCommit
  <2>2. /\ config' \in Configuration
        /\ clone' \in Checkout
        /\ clone'.fetched = 1
    <3>1. 1 \in 0..MaxCommits
      BY Bounds
    <3>. QED
      BY <1>r, <1>2, <3>1, CheckoutChanges DEF Running, Configuration
  <2>3. commits' # <<>>
    BY <1>2
  <2>. QED
    BY <1>r, <1>1, <1>2, <2>1, <2>2, <2>3, Bounds, PublicationTeam DEF Running
<1>3. CASE /\ clone' \in {clone, [clone EXCEPT !.orphan = TRUE]}
           /\ pub' = [pub EXCEPT !.pc = "fail"] /\ UNCHANGED <<commits, config>>
  <2>1. /\ clone' \in Checkout
        /\ clone'.fetched = clone.fetched
    BY <1>r, <1>3, CheckoutChanges DEF Running
  <2>2. /\ pub' \in Publication /\ pub'.pc = "fail" /\ pub'.kind = pub.kind
        /\ pub'.mem = pub.mem /\ pub'.review = pub.review
    BY <1>r, <1>3, PublicationMoves DEF Running
  <2>. QED
    BY <1>r, <1>1, <1>3, <2>1, <2>2, PublicationTeam DEF Running
<1>. QED
  BY <1>2, <1>3 DEF FoundDefaultBranch

LEMMA PushTeam == ASSUME TeamInv, Push PROVE TeamInv'
<1>r. Running
  BY RunningFacts DEF Push
<1>1. /\ pub.pc = "push" /\ (config.initialised \/ clone.fetched # 0)
      /\ UNCHANGED <<config, local, proposals, checkpoint, sync, commits, reviews, asked, written, unsafe, crashes>>
      /\ faults' \in 0..MaxFaults /\ clone' \in {clone, [clone EXCEPT !.fetched = Tip]}
  BY Bounds DEF Push, Fault, TeamInv, TypeOK
<1>2. commits # <<>>
  BY <1>r, <1>1 DEF Running
<1>3. IsFiniteSet(branches') /\ branches' \subseteq Branch
  <2>. DEFINE after == (branches \ BranchOf(pub.mem)) \cup {Pushed}
  <2>1. Pushed \in Branch
    BY <1>r DEF Pushed, Branch, Running
  <2>2. IsFiniteSet(branches \ BranchOf(pub.mem))
    BY <1>r, FS_Subset DEF Running
  <2>3. IsFiniteSet(after) /\ after \subseteq Branch
    BY <1>r, <2>1, <2>2, FS_AddElement DEF Running
  <2>4. branches' \in {branches, after}
    BY DEF Push
  <2>. QED
    BY <1>r, <2>3, <2>4 DEF Running
<1>4. /\ clone' \in Checkout
      /\ clone'.fetched \in {clone.fetched, Tip}
  <2>1. CASE clone' = clone
    BY <1>r, <2>1 DEF Running
  <2>2. CASE clone' = [clone EXCEPT !.fetched = Tip]
    BY <1>r, <2>2, CheckoutChanges DEF Running
  <2>. QED
    BY <1>1, <2>1, <2>2
<1>5. pub' = [pub EXCEPT !.pc = "review"] \/ pub' = [pub EXCEPT !.pc = "fail"]
  BY DEF Push
<1>6. /\ pub' \in Publication /\ pub'.pc \in {"review", "fail"} /\ pub'.kind = pub.kind
      /\ pub'.mem = pub.mem /\ pub'.review = pub.review
  <2>1. CASE pub' = [pub EXCEPT !.pc = "review"]
    BY <1>r, <2>1, PublicationMoves DEF Running
  <2>2. CASE pub' = [pub EXCEPT !.pc = "fail"]
    BY <1>r, <2>2, PublicationMoves DEF Running
  <2>. QED
    BY <1>5, <2>1, <2>2
<1>7. clone'.fetched <= Len(commits') /\ Len(commits) <= Len(commits') /\ Len(commits') <= MaxCommits
  <2>1. commits' = commits /\ clone'.fetched <= Len(commits)
    BY <1>r, <1>1, <1>4 DEF Tip, Running
  <2>2. Len(commits) \in Nat /\ Len(commits) <= MaxCommits
    BY <1>r DEF Running
  <2>. QED
    BY <2>1, <2>2
<1>8. pub'.review <= Len(reviews) /\ Len(reviews) < MaxReviews
  <2>1. pub.pc = "push"
    BY DEF Push
  <2>2. pub.review <= Len(reviews) /\ Len(reviews) < MaxReviews
    BY <1>r, <2>1 DEF Running
  <2>. QED
    BY <1>6, <2>2
<1>9. config' \in Configuration /\ commits' \in Seq(Commit) /\ commits' # <<>>
      /\ asked' \in [Memories -> Change \cup {NoChange}] /\ pub # NoPub
  BY <1>r, <1>1, <1>2 DEF Running
<1>. QED
  BY <1>1, <1>3, <1>4, <1>6, <1>7, <1>8, <1>9, PublicationTeam

LEMMA OpenTeam == ASSUME TeamInv, OpenReview PROVE TeamInv'
<1>r. Running /\ pub.pc = "review"
  BY RunningFacts DEF OpenReview
<1>. DEFINE created == Append(reviews, [mem |-> pub.mem, state |-> "OPEN"])
<1>1. UNCHANGED <<durable, sync, commits, branches, asked, written, unsafe, crashes>>
  BY DEF OpenReview
<1>2. faults' \in 0..MaxFaults
  BY Bounds DEF OpenReview, Fault, TeamInv, TypeOK
<1>3. /\ created \in Seq(Review) /\ Len(created) = Len(reviews) + 1
      /\ \A i \in 1..Len(reviews) : created[i] = reviews[i]
      /\ Len(created) <= MaxReviews /\ Len(reviews) \in Nat
  <2>1. [mem |-> pub.mem, state |-> "OPEN"] \in Review
    BY <1>r DEF Running, Review
  <2>2. reviews \in Seq(Review) /\ Len(reviews) \in Nat
    BY DEF TeamInv, TypeOK
  <2>3. Len(reviews) < MaxReviews
    BY <1>r DEF Running
  <2>. QED
    BY <2>1, <2>2, <2>3, Bounds
<1>. HIDE DEF created
<1>4. /\ reviews' \in Seq(Review) /\ Len(reviews') <= MaxReviews
      /\ Len(reviews) <= Len(reviews') /\ Len(reviews') \in Nat
      /\ \A i \in 1..Len(reviews) : reviews'[i] = reviews[i]
  <2>1. reviews' \in {reviews, created}
    BY DEF OpenReview, created
  <2>. QED
    BY <1>3, <2>1 DEF TeamInv, TypeOK
<1>5. /\ pub' \in Publication /\ pub'.kind = pub.kind /\ pub'.mem = pub.mem
      /\ pub'.pc \in {"record", "fail"} /\ pub'.review <= Len(reviews')
  <2>. DEFINE Moved(r) == /\ pub' \in Publication /\ pub'.kind = pub.kind /\ pub'.mem = pub.mem
                          /\ pub'.pc \in {"record", "fail"} /\ pub'.review = r
              Sent(q) == \/ q = [pub EXCEPT !.pc = "record"] \/ q = [pub EXCEPT !.pc = "fail"]
                         \/ q = [pub EXCEPT !.pc = "record", !.review = Len(created)] /\ reviews' = created
                         \/ /\ OpenReviews(pub.mem) # {}
                            /\ q = [pub EXCEPT !.pc = "record", !.review = Max(OpenReviews(pub.mem))]
  <2>1. \E q : q = pub' /\ Sent(q)
    BY DEF OpenReview, created
  <2>6. pub \in Publication /\ pub.review \in 0..Len(reviews)
    BY <1>r DEF Running
  <2>2. CASE pub' = [pub EXCEPT !.pc = "record"] \/ pub' = [pub EXCEPT !.pc = "fail"]
    <3>1. Moved(pub.review)
      <4>1. CASE pub' = [pub EXCEPT !.pc = "record"]
        BY <2>6, <4>1, PublicationMoves
      <4>2. CASE pub' = [pub EXCEPT !.pc = "fail"]
        BY <2>6, <4>2, PublicationMoves
      <4>. QED
        BY <2>2, <4>1, <4>2
    <3>. QED
      BY <1>3, <1>4, <2>6, <3>1
  <2>4. CASE pub' = [pub EXCEPT !.pc = "record", !.review = Len(created)] /\ reviews' = created
    <3>1. Len(created) \in 0..MaxReviews
      BY <1>3, Bounds
    <3>2. Moved(Len(created))
      BY <2>4, <2>6, <3>1, PublicationRecords
    <3>. QED
      BY <1>3, <2>4, <3>2
  <2>5. CASE /\ OpenReviews(pub.mem) # {}
             /\ pub' = [pub EXCEPT !.pc = "record", !.review = Max(OpenReviews(pub.mem))]
    <3>. DEFINE r == Max(OpenReviews(pub.mem))
    <3>1. OpenReviews(pub.mem) \in SUBSET (DOMAIN reviews \cup {0})
      BY DEF OpenReviews
    <3>2. r \in 0..Len(reviews)
      BY <2>5, <3>1, MaxOfReviews
    <3>3. r \in 0..MaxReviews
      BY <1>3, <1>r, <3>2, Bounds DEF Running
    <3>. HIDE DEF r
    <3>4. Moved(r)
      BY <2>5, <2>6, <3>3, PublicationRecords DEF r
    <3>. QED
      BY <1>3, <1>4, <3>2, <3>4
  <2>. QED
    BY <2>1, <2>2, <2>4, <2>5
<1>6. TypeOK'
  BY <1>1, <1>2, <1>4, <1>5 DEF TeamInv, TypeOK, durable
<1>7. Refers'
  <2>1. \A m \in Memories : proposals[m].review \in 0..MaxReviews
    BY ProposalFields DEF TeamInv, TypeOK
  <2>. QED
    BY <1>1, <1>3, <1>4, <1>5, <2>1 DEF TeamInv, Refers, Tip, durable
<1>8. Saved' /\ Exclusive' /\ Reads'
  <2>1. sync'.pc = "idle" /\ sync' = sync /\ pub # NoPub
    BY <1>r, <1>1 DEF TeamInv, Exclusive, Running
  <2>2. sync' = NoSync
    BY <2>1 DEF TeamInv, TypeOK, Refresh
  <2>. QED
    BY <1>1, <1>5, <2>1, <2>2 DEF TeamInv, Saved, Exclusive, Reads, NoSync, durable
<1>9. MergedReview'
  <2>. SUFFICES ASSUME NEW m \in Memories, proposals'[m].state = "active"
       PROVE proposals'[m].review # 0 /\ reviews'[proposals'[m].review].state = "MERGED"
    BY DEF MergedReview
  <2>1. /\ proposals'[m] = proposals[m] /\ proposals[m].review # 0
        /\ reviews[proposals[m].review].state = "MERGED"
    BY <1>1 DEF TeamInv, MergedReview, durable
  <2>2. proposals[m].review \in 1..Len(reviews)
    BY <1>3, <2>1, ProposalFields DEF TeamInv, TypeOK, Refers
  <2>. QED
    BY <1>4, <2>1, <2>2
<1>. QED
  BY <1>6, <1>7, <1>8, <1>9 DEF TeamInv

\* A publication returns.
LEMMA Returned ==
  ASSUME TeamInv, AfterPublication, pub.pc # "idle"
  PROVE  /\ pub' \in Publication \cup {NoPub}
         /\ pub' # NoPub => /\ pub'.pc = "stage" /\ pub'.kind = "accept" /\ pub.kind = "accept"
                            /\ pub'.mem = pub.mem /\ pub'.review = pub.review
                            /\ pub'.op = pub.op /\ pub'.ver = pub.ver
         /\ pub' = NoPub => pub.kind # "accept"
         /\ pub'.pc \in {"stage", "idle"}
<1>1. Running
  BY RunningFacts
<1>2. CASE pub.kind = "accept"
  <2>1. pub' = [pub EXCEPT !.pc = "stage"]
    BY <1>2 DEF AfterPublication
  <2>2. /\ pub' \in Publication /\ pub'.pc = "stage" /\ pub'.kind = pub.kind
        /\ pub'.mem = pub.mem /\ pub'.review = pub.review
        /\ pub'.op = pub.op /\ pub'.ver = pub.ver
    BY <1>1, <2>1, PublicationMoves DEF Running
  <2>. QED
    BY <1>2, <2>2 DEF NoPub
<1>3. CASE pub.kind # "accept"
  BY <1>3 DEF AfterPublication, NoPub
<1>. QED
  BY <1>2, <1>3

\* It leaves the proposal of its memory, or nothing.
LEMMA ReturnTeam ==
  ASSUME TeamInv, AfterPublication, pub.pc # "idle",
         UNCHANGED <<config, clone, local, checkpoint, sync, remote, asked, written, unsafe, crashes>>,
         faults' \in 0..MaxFaults,
         \/ proposals' = proposals
         \/ \E s \in {"proposed", "sync_failed"}, r \in 0..Len(reviews) :
              proposals' = [proposals EXCEPT ![pub.mem] = Attempted(s, r)]
  PROVE  TeamInv'
<1>r. Running
  BY RunningFacts
<1>1. sync = NoSync
  BY DEF TeamInv, Exclusive, TypeOK, Refresh
<1>2. /\ proposals' \in [Memories -> Proposal]
      /\ \A m \in Memories : /\ proposals'[m].review <= Len(reviews)
                             /\ proposals'[m].state = "active" => proposals'[m] = proposals[m]
  <2>1. CASE proposals' = proposals
    BY <2>1 DEF TeamInv, TypeOK, Refers
  <2>2. ASSUME NEW s \in {"proposed", "sync_failed"}, NEW r \in 0..Len(reviews),
               proposals' = [proposals EXCEPT ![pub.mem] = Attempted(s, r)]
        PROVE  <1>2!1 /\ <1>2!2
    <3>1. r \in 0..MaxReviews
      BY <1>r, Bounds DEF Running
    <3>2. /\ Attempted(s, r) \in Proposal /\ Attempted(s, r).state = s
          /\ Attempted(s, r).review = r
      BY <1>r, <3>1, ProposalAttempted DEF Running
    <3>3. proposals' \in [Memories -> Proposal]
      BY <2>2, <3>2 DEF TeamInv, TypeOK
    <3>4. \A m \in Memories : proposals'[m] = IF m = pub.mem THEN Attempted(s, r) ELSE proposals[m]
      BY <2>2 DEF TeamInv, TypeOK
    <3>5. r <= Len(reviews)
      BY <1>r DEF Running
    <3>. QED
      BY <3>2, <3>3, <3>4, <3>5 DEF TeamInv, Refers
  <2>. QED
    BY <2>1, <2>2
<1>3. TypeOK'
  BY <1>2, Returned DEF TeamInv, TypeOK, remote
<1>4. Refers' /\ Exclusive' /\ Reads'
  <2>1. Refers'
    BY <1>r, <1>2, Returned DEF TeamInv, Refers, Tip, Running, remote
  <2>. QED
    BY <1>1, <2>1 DEF Exclusive, Reads, NoSync
<1>5. Saved'
  BY Returned DEF TeamInv, Saved, NoPub
<1>6. MergedReview'
  BY <1>2 DEF TeamInv, MergedReview, remote
<1>. QED
  BY <1>3, <1>4, <1>5, <1>6 DEF TeamInv

LEMMA DeferTeam == ASSUME TeamInv, Refuse \/ Defer PROVE TeamInv'
<1>1. faults' \in 0..MaxFaults
  BY DEF Refuse, Defer, TeamInv, TypeOK, bounds
<1>. QED
  BY <1>1, ReturnTeam DEF Refuse, Defer, durable, bounds

LEMMA RecordTeam == ASSUME TeamInv, Record PROVE TeamInv'
<1>1. faults' \in 0..MaxFaults
  BY DEF Record, TeamInv, TypeOK, bounds
<1>2. pub.pc # "idle" /\ pub.review \in 0..Len(reviews)
  BY RunningFacts DEF Record, Running
<1>3. AfterPublication /\ proposals' = [proposals EXCEPT ![pub.mem] = Attempted("proposed", pub.review)]
  BY DEF Record
<1>. QED
  BY <1>1, <1>2, <1>3, ReturnTeam DEF Record, bounds

LEMMA RecoverTeam == ASSUME TeamInv, Recover PROVE TeamInv'
<1>1. faults' \in 0..MaxFaults
  BY Bounds DEF Recover, Fault, TeamInv, TypeOK
<1>2. pub.pc # "idle" /\ Running
  BY RunningFacts DEF Recover
<1>3. \E s \in {"proposed", "sync_failed"}, r \in 0..Len(reviews) :
        proposals' = [proposals EXCEPT ![pub.mem] = Attempted(s, r)]
  <2>. DEFINE open == IF pub.fresh THEN {} ELSE OpenReviews(pub.mem)
              kept == IF pub.fresh THEN 0 ELSE proposals[pub.mem].review
  <2>1. CASE open # {} /\ proposals' = [proposals EXCEPT ![pub.mem] = Attempted("proposed", Max(open))]
    <3>1. open \in SUBSET (DOMAIN reviews \cup {0})
      BY DEF OpenReviews
    <3>2. Max(open) \in 0..Len(reviews)
      BY <2>1, <3>1, MaxOfReviews
    <3>. QED
      BY <2>1, <3>2
  <2>2. CASE proposals' = [proposals EXCEPT ![pub.mem] = Attempted("sync_failed", kept)]
    <3>1. kept \in 0..Len(reviews)
      BY <1>2 DEF Running
    <3>. QED
      BY <2>2, <3>1
  <2>. QED
    BY <2>1, <2>2 DEF Recover
<1>. QED
  BY <1>1, <1>2, <1>3, ReturnTeam DEF Recover

LEMMA StageTeam == ASSUME TeamInv, Stage PROVE TeamInv'
<1>r. Running /\ pub.pc = "stage" /\ sync.pc = "idle"
  BY RunningFacts DEF Stage, TeamInv, Exclusive
<1>1. /\ pub' = NoPub /\ local' = [local EXCEPT ![pub.mem] = [local[pub.mem] EXCEPT !.status = "superseded"]]
      /\ UNCHANGED <<config, clone, proposals, checkpoint, sync, remote, bounds>>
  BY DEF Stage
<1>2. local[pub.mem] \in LocalMemory /\ local[pub.mem] # NoMemory
  BY <1>r DEF TeamInv, TypeOK, Saved, Running
<1>3. local' \in [Memories -> LocalMemory]
  BY <1>1, <1>2, LocalRetires DEF TeamInv, TypeOK
<1>4. TypeOK'
  BY <1>1, <1>3 DEF TeamInv, TypeOK, remote, bounds
<1>5. Refers' /\ Saved' /\ Exclusive' /\ Reads'
  BY <1>r, <1>1 DEF TeamInv, Refers, Saved, Exclusive, Reads, NoPub, Tip, remote
<1>. QED
  BY <1>1, <1>4, <1>5, UnchangedReviews DEF TeamInv, remote

-----------------------------------------------------------------------------
\* What is listed when a refresh begins has a pull request.
LEMMA RefreshTeam == ASSUME TeamInv, RefreshReviews \/ RefreshSnapshot PROVE TeamInv'
<1>1. /\ Idle /\ commits # <<>> /\ clone' = [clone EXCEPT !.fetched = Tip]
      /\ UNCHANGED <<config, local, proposals, checkpoint, pub, remote, asked, written, unsafe, crashes>>
      /\ faults' \in 0..MaxFaults
  <2>1. UNCHANGED faults \/ Fault
    BY Zenon DEF RefreshReviews, RefreshSnapshot
  <2>2. faults' \in 0..MaxFaults
    BY <2>1, Bounds DEF Fault, TeamInv, TypeOK
  <2>. QED
    BY <2>2 DEF RefreshReviews, RefreshSnapshot, Refetch
<1>2. Len(commits) \in Nat /\ Len(commits) # 0 /\ Tip \in 0..MaxCommits /\ Tip = Len(commits)
  BY <1>1, Bounds DEF TeamInv, TypeOK, Tip
<1>3. clone' \in Checkout /\ clone'.fetched = Tip
  BY <1>1, <1>2, CheckoutChanges DEF TeamInv, TypeOK, Checkout
<1>4. Listed \subseteq Memories /\ \A m \in Listed : proposals[m].review # 0
  BY DEF Listed
<1>5. /\ sync' \in Refresh \cup {NoSync}
      /\ sync' # NoSync => sync'.listed = Listed
      /\ sync'.pc = "inspect" => sync'.todo = Listed
      /\ sync'.pc = "import" => \A m \in sync'.todo : ValidMemory(commits[Tip], m)
  <2>1. CASE RefreshReviews
    BY <1>4, <2>1 DEF RefreshReviews, Refresh
  <2>2. CASE RefreshSnapshot /\ UNCHANGED sync
    BY <1>1, <2>2 DEF TeamInv, TypeOK, Idle, Refresh, NoSync
  <2>3. CASE RefreshSnapshot /\ ~UNCHANGED sync
    <3>1. PICK full \in BOOLEAN, seen \in SUBSET Memories, whole \in BOOLEAN :
            /\ \A m \in seen : ValidMemory(commits[Tip], m)
            /\ sync' = [pc |-> "import", todo |-> seen, full |-> full, whole |-> whole,
                        listed |-> Listed, imported |-> {}, removed |-> {}, save |-> TRUE]
      <4>. DEFINE c == commits[Tip]
                  changed == checkpoint = 0 \/ ManifestChanged(commits[checkpoint], c)
                  known == Declared(c) \ DuplicateManifestIds(c)
                  read(f) == IF f THEN known ELSE known \cap ChangedMemories(commits[checkpoint], c)
                  valid(f) == {m \in read(f) : ValidMemory(c, m)}
      <4>1. PICK f \in {TRUE, changed} : \E s \in {valid(f)} \cup {valid(f) \ {m} : m \in valid(f)} :
              sync' = [pc |-> "import", todo |-> s, full |-> f,
                       whole |-> DuplicateManifestIds(c) = {} /\ s = read(f),
                       listed |-> Listed, imported |-> {}, removed |-> {}, save |-> TRUE]
        BY <2>3, Zenon DEF RefreshSnapshot
      <4>2. PICK s \in {valid(f)} \cup {valid(f) \ {m} : m \in valid(f)} :
              sync' = [pc |-> "import", todo |-> s, full |-> f,
                       whole |-> DuplicateManifestIds(c) = {} /\ s = read(f),
                       listed |-> Listed, imported |-> {}, removed |-> {}, save |-> TRUE]
        BY <4>1
      <4>3. s \subseteq valid(f)
        BY <4>2
      <4>4. f \in BOOLEAN /\ (DuplicateManifestIds(c) = {} /\ s = read(f)) \in BOOLEAN
        BY <4>1
      <4>5. s \in SUBSET Memories /\ \A m \in s : ValidMemory(c, m)
        BY <4>3 DEF Declared
      <4>. HIDE DEF valid, read
      <4>. QED
        BY <4>2, <4>4, <4>5
    <3>. QED
      BY <1>4, <3>1 DEF Refresh
  <2>. QED
    BY <2>1, <2>2, <2>3
<1>6. TypeOK'
  BY <1>1, <1>3, <1>5 DEF TeamInv, TypeOK, Checkout, remote
<1>7. Refers' /\ Saved' /\ Exclusive'
  <2>1. Refers'
    <3>1. UNCHANGED <<config, proposals, checkpoint, pub, commits, branches, reviews>>
      BY <1>1 DEF remote
    <3>2. clone'.fetched <= Len(commits) /\ commits # <<>>
      BY <1>1, <1>2, <1>3
    <3>. QED
      BY <3>1, <3>2 DEF TeamInv, Refers, Tip
  <2>2. Saved' /\ Exclusive'
    BY <1>1 DEF TeamInv, Saved, Exclusive, Idle
  <2>. QED
    BY <2>1, <2>2
<1>8. Reads'
  <2>1. /\ UNCHANGED <<proposals, commits>>
        /\ clone'.fetched # 0 /\ commits'[clone'.fetched] = commits[Tip]
    BY <1>1, <1>2, <1>3 DEF remote
  <2>. QED
    BY <1>4, <1>5, <2>1 DEF Reads, NoSync
<1>. QED
  BY <1>1, <1>6, <1>7, <1>8, UnchangedReviews DEF TeamInv, remote

\* What a refresh at work finds.
LEMMA RefreshFacts ==
  ASSUME TeamInv, sync.pc # "idle"
  PROVE  sync # NoSync /\ sync \in Refresh /\ pub.pc = "idle" /\ pub = NoPub
<1>1. sync # NoSync /\ sync \in Refresh /\ pub.pc = "idle"
  BY DEF TeamInv, TypeOK, NoSync, Exclusive
<1>. QED
  BY <1>1 DEF TeamInv, TypeOK, Publication

LEMMA ImportTeam == ASSUME TeamInv, NEW m \in Memories, ImportMemory(m) PROVE TeamInv'
<1>. DEFINE v == commits[clone.fetched].file[m]
<1>1. /\ sync.pc = "import" /\ m \in sync.todo
      /\ UNCHANGED <<config, clone, checkpoint, pub, remote, bounds>>
  BY DEF ImportMemory
<1>2. sync # NoSync /\ sync \in Refresh /\ pub.pc = "idle" /\ pub = NoPub
  BY <1>1, RefreshFacts
<1>3. v \in Versions
  <2>1. ValidMemory(commits[clone.fetched], m)
    BY <1>1 DEF TeamInv, Reads
  <2>. QED
    BY <2>1 DEF ValidMemory
<1>. HIDE DEF v
<1>4. \/ local' = local
      \/ local' = [local EXCEPT ![m] = Local(v, "github")]
  BY Zenon DEF ImportMemory, v
<1>5. \/ proposals' = proposals
      \/ proposals' = [proposals EXCEPT ![m] = InConflict(proposals[m], v)]
  BY Zenon DEF ImportMemory, v
<1>6. \/ sync' = [sync EXCEPT !.todo = @ \ {m}]
      \/ sync' = [sync EXCEPT !.todo = @ \ {m}, !.imported = @ \cup {m}]
  BY Zenon DEF ImportMemory
<1>7. local' \in [Memories -> LocalMemory]
  BY <1>3, <1>4, LocalChanges DEF TeamInv, TypeOK
<1>8. /\ proposals' \in [Memories -> Proposal]
      /\ \A n \in Memories : /\ proposals'[n].review = proposals[n].review
                             /\ proposals'[n].state = "active" => proposals'[n] = proposals[n]
  <2>1. proposals[m] \in Proposal /\ proposals \in [Memories -> Proposal]
    BY DEF TeamInv, TypeOK
  <2>2. LET q == InConflict(proposals[m], v)
        IN  q \in Proposal /\ q.state = "conflict" /\ q.review = proposals[m].review
    BY <1>3, <2>1, ProposalInConflict
  <2>. QED
    BY <1>5, <2>1, <2>2
<1>9. /\ sync' \in Refresh /\ sync'.pc = "import" /\ sync'.listed = sync.listed
      /\ sync'.todo \subseteq sync.todo
  <2>1. sync' \in Refresh
    BY <1>2, <1>6, RefreshMoves
  <2>. QED
    BY <1>1, <1>2, <1>6, <2>1 DEF Refresh
<1>10. TypeOK'
  BY <1>1, <1>7, <1>8, <1>9 DEF TeamInv, TypeOK, remote, bounds
<1>11. Refers' /\ Saved' /\ Exclusive'
  BY <1>1, <1>2, <1>8 DEF TeamInv, Refers, Saved, Exclusive, Tip, NoPub, remote
<1>12. Reads'
  <2>1. sync.listed \subseteq Memories
    BY <1>2 DEF Refresh
  <2>. QED
    BY <1>1, <1>2, <1>8, <1>9, <2>1 DEF TeamInv, Reads, remote
<1>13. MergedReview'
  BY <1>1, <1>8 DEF TeamInv, MergedReview, remote
<1>. QED
  BY <1>10, <1>11, <1>12, <1>13 DEF TeamInv

LEMMA DropTeam == ASSUME TeamInv, NEW m \in Memories, DropUndeclared(m) PROVE TeamInv'
<1>1. /\ sync.pc = "drop" /\ IsActive(m)
      /\ UNCHANGED <<config, clone, proposals, checkpoint, pub, remote, bounds>>
      /\ local' = [local EXCEPT ![m] = [local[m] EXCEPT !.status = "superseded"]]
      /\ sync' = [sync EXCEPT !.removed = @ \cup {m}]
  BY DEF DropUndeclared, Undeclared
<1>2. sync # NoSync /\ sync \in Refresh /\ pub.pc = "idle" /\ pub = NoPub
  BY <1>1, RefreshFacts
<1>3. local[m] \in LocalMemory /\ local[m] # NoMemory
  BY <1>1 DEF TeamInv, TypeOK, IsActive, NoMemory
<1>4. local' \in [Memories -> LocalMemory]
  BY <1>1, <1>3, LocalRetires DEF TeamInv, TypeOK
<1>5. sync' \in Refresh /\ sync'.pc = "drop" /\ sync'.listed = sync.listed
  <2>1. sync' \in Refresh
    BY <1>1, <1>2, RefreshMoves
  <2>. QED
    BY <1>1, <1>2, <2>1 DEF Refresh
<1>6. TypeOK'
  BY <1>1, <1>4, <1>5 DEF TeamInv, TypeOK, remote, bounds
<1>7. Refers' /\ Saved' /\ Exclusive' /\ Reads'
  BY <1>1, <1>2, <1>5 DEF TeamInv, Refers, Saved, Exclusive, Reads, Tip, NoPub, remote
<1>. QED
  BY <1>1, <1>6, <1>7, UnchangedReviews DEF TeamInv, remote

\* The refresh goes on with the reviews, or ends.
LEMMA GoOnTeam == ASSUME TeamInv, Imported \/ Dropped \/ SaveCheckpoint PROVE TeamInv'
<1>1. /\ sync.pc # "idle"
      /\ UNCHANGED <<config, clone, local, proposals, pub, remote, bounds>>
      /\ checkpoint' \in {checkpoint, clone.fetched}
  BY DEF Imported, Dropped, SaveCheckpoint, durable
<1>2. sync # NoSync /\ sync \in Refresh /\ pub.pc = "idle"
  BY <1>1, RefreshFacts
<1>3. \/ sync' = NoSync \/ sync' = [sync EXCEPT !.pc = "drop"]
      \/ sync' = [sync EXCEPT !.pc = "inspect", !.todo = sync.listed]
  BY Zenon DEF Imported, Dropped, SaveCheckpoint
<1>4. /\ sync' \in Refresh \cup {NoSync}
      /\ sync' # NoSync => sync'.listed = sync.listed /\ sync'.pc # "import"
      /\ sync'.pc = "inspect" => sync'.todo = sync'.listed
  <2>1. CASE sync' = NoSync
    BY <2>1 DEF NoSync
  <2>2. CASE sync' = [sync EXCEPT !.pc = "drop"]
    <3>1. sync' \in Refresh
      BY <1>2, <2>2, RefreshGoesOn
    <3>. QED
      BY <1>2, <2>2, <3>1 DEF Refresh
  <2>3. CASE sync' = [sync EXCEPT !.pc = "inspect", !.todo = sync.listed]
    <3>1. sync' \in Refresh
      BY <1>2, <2>3, RefreshGoesOn
    <3>. QED
      BY <1>2, <2>3, <3>1 DEF Refresh
  <2>. QED
    BY <1>3, <2>1, <2>2, <2>3
<1>5. TypeOK'
  BY <1>1, <1>4 DEF TeamInv, TypeOK, remote, bounds
<1>6. Refers' /\ Saved' /\ Exclusive'
  BY <1>1, <1>2 DEF TeamInv, Refers, Saved, Exclusive, Tip, remote
<1>7. Reads'
  BY <1>1, <1>2, <1>4 DEF TeamInv, Reads, NoSync
<1>. QED
  BY <1>1, <1>5, <1>6, <1>7, UnchangedReviews DEF TeamInv, remote

LEMMA InspectTeam == ASSUME TeamInv, NEW m \in Memories, InspectReview(m) PROVE TeamInv'
<1>1. /\ sync.pc = "inspect" /\ m \in sync.todo /\ sync' = [sync EXCEPT !.todo = @ \ {m}]
      /\ UNCHANGED <<config, clone, local, checkpoint, pub, remote, asked, written, unsafe, crashes>>
  BY DEF InspectReview
<1>2. faults' \in 0..MaxFaults
  <2>1. UNCHANGED faults \/ Fault
    BY Zenon DEF InspectReview
  <2>. QED
    BY <2>1, Bounds DEF Fault, TeamInv, TypeOK
<1>3. sync # NoSync /\ sync \in Refresh /\ pub.pc = "idle" /\ pub = NoPub
  BY <1>1, RefreshFacts
<1>4. proposals[m] \in Proposal /\ proposals[m] # NoProposal /\ proposals[m].review # 0
  <2>1. proposals[m] \in Proposal /\ proposals[m].review # 0
    BY <1>1, <1>3 DEF TeamInv, TypeOK, Reads
  <2>. QED
    BY <2>1, ProposalFields
<1>5. PICK s \in {"proposed", "active", "rejected", "sync_failed", "conflict"} :
        /\ \/ proposals' = [proposals EXCEPT ![m] = [proposals[m] EXCEPT !.state = s]]
           \/ proposals' = proposals
        /\ s = "active" => reviews[proposals[m].review].state = "MERGED" \/ s = proposals[m].state
  <2>. DEFINE p == proposals[m]
              reconciled == IF p.op = "remove" THEN m \in sync.removed ELSE m \in sync.imported
              view == reviews[p.review].state
              s == Reviewed(p, view, reconciled)
  <2>1. /\ s \in {p.state, "active", "rejected"}
        /\ s = "active" => view = "MERGED" \/ s = p.state
    BY DEF Reviewed
  <2>2. p.state \in {"proposed", "active", "rejected", "sync_failed", "conflict"}
    BY <1>4 DEF Proposal
  <2>3. proposals' = [proposals EXCEPT ![m] = [p EXCEPT !.state = s]] \/ proposals' = proposals
    BY Zenon DEF InspectReview
  <2>. HIDE DEF s
  <2>. QED
    BY <2>1, <2>2, <2>3
<1>6. /\ proposals' \in [Memories -> Proposal]
      /\ \A n \in Memories : proposals'[n].review = proposals[n].review
      /\ \A n \in Memories \ {m} : proposals'[n] = proposals[n]
      /\ proposals'[m].state \in {proposals[m].state, s}
  <2>1. LET q == [proposals[m] EXCEPT !.state = s]
        IN  q \in Proposal /\ q.state = s /\ q.review = proposals[m].review
    BY <1>4, <1>5, ProposalChanges
  <2>2. proposals \in [Memories -> Proposal]
    BY DEF TeamInv, TypeOK
  <2>. QED
    BY <1>5, <2>1, <2>2
<1>7. sync' \in Refresh /\ sync'.pc = "inspect" /\ sync'.listed = sync.listed /\ sync'.todo \subseteq sync.todo
  <2>1. sync' \in Refresh
    BY <1>1, <1>3, RefreshMoves
  <2>. QED
    BY <1>1, <1>3, <2>1 DEF Refresh
<1>8. TypeOK'
  BY <1>1, <1>2, <1>6, <1>7 DEF TeamInv, TypeOK, remote
<1>9. Refers' /\ Saved' /\ Exclusive'
  BY <1>1, <1>3, <1>6 DEF TeamInv, Refers, Saved, Exclusive, Tip, NoPub, remote
<1>10. Reads'
  <2>1. sync.listed \subseteq Memories
    BY <1>3 DEF Refresh
  <2>. QED
    BY <1>1, <1>3, <1>6, <1>7, <2>1 DEF TeamInv, Reads
<1>11. MergedReview'
  BY <1>1, <1>4, <1>5, <1>6 DEF TeamInv, MergedReview, remote
<1>. QED
  BY <1>8, <1>9, <1>10, <1>11 DEF TeamInv

-----------------------------------------------------------------------------
LEMMA CrashTeam == ASSUME TeamInv, Crash PROVE TeamInv'
<1>1. /\ pub' = NoPub /\ sync' = NoSync /\ crashes' = crashes + 1 /\ faults + crashes < MaxFaults
      /\ UNCHANGED <<durable, remote, asked, written, unsafe, faults>>
  BY DEF Crash
<1>2. TypeOK'
  <2>1. crashes' \in 0..MaxFaults
    BY <1>1, Bounds DEF TeamInv, TypeOK
  <2>. QED
    BY <1>1, <2>1 DEF TeamInv, TypeOK, durable, remote
<1>3. Refers' /\ Saved' /\ Exclusive' /\ Reads'
  BY <1>1 DEF TeamInv, Refers, Saved, Exclusive, Reads, NoPub, NoSync, Tip, durable, remote
<1>. QED
  BY <1>1, <1>2, <1>3, UnchangedReviews DEF TeamInv, durable, remote

\* A commit is added, or a review decided; the daemon keeps what it has.
LEMMA RemoteTeam ==
  ASSUME TeamInv, UNCHANGED <<durable, pub, sync, asked, unsafe, faults, crashes>>,
         written' \in 0..MaxVersion,
         \/ commits' = commits
         \/ Tip < MaxCommits /\ \E d \in Commit : commits' = Append(commits, d),
         IsFiniteSet(branches'), branches' \subseteq Branch,
         branches' # {} => commits # <<>>,
         reviews' \in Seq(Review), Len(reviews') = Len(reviews),
         \A r \in 1..Len(reviews) : reviews[r].state = "MERGED" => reviews'[r] = reviews[r]
  PROVE  TeamInv'
<1>1. /\ commits' \in Seq(Commit) /\ Len(commits') \in Nat /\ Len(commits') <= MaxCommits
      /\ Len(commits) <= Len(commits') /\ Len(commits) \in Nat
      /\ \A i \in 1..Len(commits) : commits'[i] = commits[i]
      /\ commits # <<>> => commits' # <<>>
  <2>1. CASE commits' = commits
    BY <2>1 DEF TeamInv, TypeOK
  <2>2. ASSUME NEW d \in Commit, Tip < MaxCommits, commits' = Append(commits, d)
        PROVE  <1>1
    BY <2>2, Bounds DEF TeamInv, TypeOK, Tip
  <2>. QED
    BY <2>1, <2>2
<1>2. TypeOK'
  BY <1>1 DEF TeamInv, TypeOK, durable
<1>3. Refers'
  BY <1>1, Bounds DEF TeamInv, TypeOK, Refers, Tip, Checkout, durable
<1>4. Saved' /\ Exclusive'
  BY DEF TeamInv, Saved, Exclusive, durable
<1>5. Reads'
  <2>1. ASSUME sync.pc = "import"
        PROVE  clone.fetched # 0 /\ \A m \in sync.todo : ValidMemory(commits'[clone.fetched], m)
    <3>1. clone.fetched \in 1..Len(commits)
      BY <1>1, <2>1 DEF TeamInv, TypeOK, Refers, Reads, Tip
    <3>. QED
      BY <1>1, <2>1, <3>1 DEF TeamInv, Reads
  <2>. QED
    BY <2>1 DEF TeamInv, Reads, durable
<1>6. MergedReview'
  <2>. SUFFICES ASSUME NEW m \in Memories, proposals'[m].state = "active"
       PROVE proposals'[m].review # 0 /\ reviews'[proposals'[m].review].state = "MERGED"
    BY DEF MergedReview
  <2>1. /\ proposals'[m] = proposals[m] /\ proposals[m].review # 0
        /\ reviews[proposals[m].review].state = "MERGED"
    BY DEF TeamInv, MergedReview, durable
  <2>2. proposals[m].review \in 1..Len(reviews)
    BY <2>1, ProposalFields DEF TeamInv, TypeOK, Refers
  <2>. QED
    BY <2>1, <2>2
<1>. QED
  BY <1>2, <1>3, <1>4, <1>5, <1>6 DEF TeamInv

\* A review that is open is decided.
LEMMA DecidedReview ==
  ASSUME TeamInv, NEW r \in DOMAIN reviews, reviews[r].state = "OPEN",
         NEW s \in {"MERGED", "CLOSED"}, reviews' = [reviews EXCEPT ![r].state = s]
  PROVE  /\ reviews' \in Seq(Review) /\ Len(reviews') = Len(reviews)
         /\ \A i \in 1..Len(reviews) : reviews[i].state = "MERGED" => reviews'[i] = reviews[i]
<1>1. reviews \in Seq(Review) /\ Len(reviews) \in Nat
  BY DEF TeamInv, TypeOK
<1>2. [reviews[r] EXCEPT !.state = s] \in Review
  <2>1. reviews[r] \in Review
    BY <1>1
  <2>. QED
    BY <2>1 DEF Review
<1>3. reviews' = [reviews EXCEPT ![r] = [reviews[r] EXCEPT !.state = s]]
  OBVIOUS
<1>. QED
  BY <1>1, <1>2, <1>3

LEMMA MergeTeam == ASSUME TeamInv, NEW r, MergeReview(r) PROVE TeamInv'
<1>1. /\ r \in DOMAIN reviews /\ reviews[r].state = "OPEN" /\ Tip < MaxCommits
      /\ reviews' = [reviews EXCEPT ![r].state = "MERGED"]
      /\ UNCHANGED <<durable, pub, sync, bounds>>
  BY DEF MergeReview
<1>2. PICK b \in BranchOf(reviews[r].mem) :
        /\ commits' = Append(commits, Merged(commits[Tip], b.mem, b, Tip + 1))
        /\ branches' \in {branches, branches \ {b}}
  BY DEF MergeReview
<1>3. b \in Branch /\ b \in branches /\ IsFiniteSet(branches) /\ branches \subseteq Branch
  BY DEF BranchOf, TeamInv, TypeOK
<1>4. commits # <<>> /\ commits \in Seq(Commit) /\ Tip \in 1..Len(commits)
  BY <1>3 DEF TeamInv, TypeOK, Refers, Tip
<1>5. Merged(commits[Tip], b.mem, b, Tip + 1) \in Commit
  <2>1. commits[Tip] \in Commit /\ Tip + 1 \in Nat /\ b.mem \in Memories
    BY <1>3, <1>4 DEF Branch
  <2>. QED
    BY <1>3, <2>1, MergedIsCommit
<1>6. IsFiniteSet(branches') /\ branches' \subseteq Branch
  BY <1>2, <1>3, FS_RemoveElement
<1>7. UNCHANGED <<asked, unsafe, faults, crashes>> /\ written' \in 0..MaxVersion
  BY <1>1 DEF TeamInv, TypeOK, bounds
<1>8. /\ reviews' \in Seq(Review) /\ Len(reviews') = Len(reviews)
      /\ \A i \in 1..Len(reviews) : reviews[i].state = "MERGED" => reviews'[i] = reviews[i]
  BY <1>1, DecidedReview
<1>. QED
  BY <1>1, <1>2, <1>4, <1>5, <1>6, <1>7, <1>8, RemoteTeam

LEMMA CloseTeam == ASSUME TeamInv, NEW r, CloseReview(r) PROVE TeamInv'
<1>1. /\ r \in DOMAIN reviews /\ reviews[r].state = "OPEN"
      /\ reviews' = [reviews EXCEPT ![r].state = "CLOSED"]
      /\ branches' \in {branches, branches \ BranchOf(reviews[r].mem)}
      /\ UNCHANGED <<durable, pub, sync, commits, bounds>>
  BY DEF CloseReview
<1>2. IsFiniteSet(branches) /\ branches \subseteq Branch /\ (branches # {} => commits # <<>>)
  BY DEF TeamInv, TypeOK, Refers
<1>3. IsFiniteSet(branches') /\ branches' \subseteq branches
  BY <1>1, <1>2, FS_Subset
<1>4. UNCHANGED <<asked, unsafe, faults, crashes>> /\ written' \in 0..MaxVersion
  BY <1>1 DEF TeamInv, TypeOK, bounds
<1>5. /\ reviews' \in Seq(Review) /\ Len(reviews') = Len(reviews)
      /\ \A i \in 1..Len(reviews) : reviews[i].state = "MERGED" => reviews'[i] = reviews[i]
  BY <1>1, DecidedReview
<1>. QED
  BY <1>1, <1>2, <1>3, <1>4, <1>5, RemoteTeam

\* What a teammate commits declares what was declared or is written now.
Declares(d) ==
  \A n \in Memories :
    \/ d.decl[n] \in {Absent, Twice}
    \/ d.decl[n] = written' /\ written' = written + 1
    \/ \E i \in 1..Tip : d.decl[n] = commits[i].decl[n]

LEMMA Teammate ==
  ASSUME TeamInv, TeammateCommits
  PROVE  /\ Tip < MaxCommits /\ written' \in {written, written + 1} /\ written' \in 0..MaxVersion
         /\ \E d \in Commit : commits' = Append(commits, d) /\ Declares(d)
<1>. DEFINE Added == /\ written' \in {written, written + 1} /\ written' \in 0..MaxVersion
                     /\ \E d \in Commit : commits' = Append(commits, d) /\ Declares(d)
<1>1. Tip < MaxCommits
  BY DEF TeammateCommits
<1>2. commits \in Seq(Commit) /\ Len(commits) \in Nat /\ Tip = Len(commits) /\ Tip \in Nat
  BY DEF TeamInv, TypeOK, Tip
<1>3. ASSUME commits = <<>>, commits' = <<FirstCommit>>, UNCHANGED written
      PROVE  Added
  <2>1. commits' = Append(commits, FirstCommit)
    BY <1>3
  <2>2. Declares(FirstCommit)
    BY DEF Declares, FirstCommit
  <2>. QED
    BY <1>1, <1>3, <2>1, <2>2, FirstIsCommit DEF TeamInv, TypeOK
<1>. DEFINE c == commits[Tip]
<1>4. ASSUME commits # <<>>, NEW m \in Memories, written < MaxVersion, written' = written + 1,
             commits' \in { Append(commits, d) :
               d \in {Edited(c, m, written + 1)} \cup
                    IF c.decl[m] = Absent THEN {} ELSE {[c EXCEPT !.file[m] = written + 1]} }
      PROVE  Added
  <2>1. /\ c \in Commit /\ written + 1 \in 0..MaxVersion + 1 /\ written + 1 \in 0..MaxVersion
        /\ Tip \in 1..Tip
    BY <1>2, <1>4, Bounds DEF TeamInv, TypeOK
  <2>2. Edited(c, m, written + 1) \in Commit /\ [c EXCEPT !.file[m] = written + 1] \in Commit
    BY <1>2, <2>1, CommitChanges
  <2>3. \A n \in Memories :
          /\ Edited(c, m, written + 1).decl[n] \in {written + 1, c.decl[n]}
          /\ [c EXCEPT !.file[m] = written + 1].decl[n] = c.decl[n]
    BY <2>1, CommitDeclares
  <2>4. Declares(Edited(c, m, written + 1)) /\ Declares([c EXCEPT !.file[m] = written + 1])
    BY <1>4, <2>1, <2>3 DEF Declares
  <2>. QED
    BY <1>4, <2>1, <2>2, <2>4
<1>5. ASSUME commits # <<>>, NEW m \in Memories, UNCHANGED written,
             commits' \in { Append(commits, d) :
               d \in { Edited(c, m, Absent), [c EXCEPT !.file[m] = Invalid],
                       [c EXCEPT !.decl[m] = Twice],
                       [c EXCEPT !.manifest = "invalid"] } \ {c} }
      PROVE  Added
  <2>1. /\ c \in Commit /\ \A v \in {Absent, Invalid, Twice} : v \in 0..MaxVersion + 1
        /\ Tip \in 1..Tip
    BY <1>2, <1>5, Bounds DEF Absent, Invalid, Twice
  <2>2. /\ Edited(c, m, Absent) \in Commit /\ [c EXCEPT !.file[m] = Invalid] \in Commit
        /\ [c EXCEPT !.decl[m] = Twice] \in Commit /\ [c EXCEPT !.manifest = "invalid"] \in Commit
    BY <1>2, <2>1, CommitChanges
  <2>3. \A n \in Memories :
          /\ Edited(c, m, Absent).decl[n] \in {Absent, c.decl[n]}
          /\ [c EXCEPT !.file[m] = Invalid].decl[n] = c.decl[n]
          /\ [c EXCEPT !.decl[m] = Twice].decl[n] \in {Twice, c.decl[n]}
          /\ [c EXCEPT !.manifest = "invalid"].decl[n] = c.decl[n]
    BY <2>1, CommitDeclares
  <2>4. /\ Declares(Edited(c, m, Absent)) /\ Declares([c EXCEPT !.file[m] = Invalid])
        /\ Declares([c EXCEPT !.decl[m] = Twice]) /\ Declares([c EXCEPT !.manifest = "invalid"])
    BY <2>1, <2>3 DEF Declares
  <2>. QED
    BY <1>5, <2>2, <2>4 DEF TeamInv, TypeOK
<1>6. ASSUME NEW i \in 1..(Tip - 1), commits' = Append(commits, commits[i]), UNCHANGED written
      PROVE  Added
  <2>1. commits[i] \in Commit /\ i \in 1..Tip
    BY <1>2
  <2>2. Declares(commits[i])
    BY <2>1 DEF Declares
  <2>. QED
    BY <1>6, <2>1, <2>2 DEF TeamInv, TypeOK
<1>. HIDE DEF Added
<1>7. Added
  BY <1>3, <1>4, <1>5, <1>6, Zenon DEF TeammateCommits
<1>. QED
  BY <1>1, <1>7 DEF Added

LEMMA TeammateTeam == ASSUME TeamInv, TeammateCommits PROVE TeamInv'
<1>1. UNCHANGED <<durable, pub, sync, branches, reviews, asked, unsafe, faults, crashes>>
  BY DEF TeammateCommits
<1>2. /\ IsFiniteSet(branches) /\ branches \subseteq Branch /\ (branches # {} => commits # <<>>)
      /\ reviews \in Seq(Review)
  BY DEF TeamInv, TypeOK, Refers
<1>. QED
  BY <1>1, <1>2, Teammate, RemoteTeam

LEMMA NextTeam == ASSUME TeamInv, [Next]_vars PROVE TeamInv'
<1>1. CASE UNCHANGED vars
  BY <1>1 DEF vars, durable, remote, bounds, TeamInv, TypeOK, Refers, Saved, Reads, Exclusive,
              MergedReview, Tip
<1>2. CASE Configure \/ Crash
  BY <1>2, ConfigureTeam, CrashTeam
<1>3. CASE \E m \in Memories : SaveLocally(m) \/ BackoffElapses(m)
  BY <1>3, SaveTeam, BackoffTeam
<1>4. CASE Len(reviews) < MaxReviews /\ Begin
  BY <1>4, SaveTeam, BeginTeam DEF Begin
<1>5. CASE Publishing
  BY <1>5, DeferTeam, LookTeam, FoundTeam, PushTeam, OpenTeam, RecordTeam, RecoverTeam, StageTeam
     DEF Publishing
<1>6. CASE RefreshReviews \/ RefreshSnapshot \/ Refreshing
  BY <1>6, RefreshTeam, ImportTeam, DropTeam, InspectTeam, GoOnTeam DEF Refreshing
<1>7. CASE Repository
  BY <1>7, TeammateTeam, MergeTeam, CloseTeam DEF Repository
<1>. QED
  BY <1>1, <1>2, <1>3, <1>4, <1>5, <1>6, <1>7 DEF Next

\* Whatever fails, crashes or is merged, closed or damaged in between: the
\* state keeps its types, what an operation looks up in the repository is
\* there, and a proposal is active only if its pull request was merged.
THEOREM TeamInvariant == Spec => []TeamInv
BY InitTeam, NextTeam, PTL DEF Spec
-----------------------------------------------------------------------------
\* Whoever writes a content takes a version that nobody has.
WrittenBefore ==
  /\ \A m \in Memories : local[m].ver <= written /\ proposals[m].ver <= written
  /\ pub # NoPub => pub.ver <= written
  /\ \A b \in branches : b.ver <= written
  /\ \A i \in 1..Tip, m \in Memories :
       commits[i].decl[m] \in Versions => commits[i].decl[m] <= written

\* A content that is published and was made here is not in use here.
Unused(m, op, ver) ==
  local[m].origin = "local" /\ op = "upsert" /\ ver = local[m].ver => ~IsActive(m)

Accepting(m) == pub # NoPub /\ pub.kind = "accept" /\ pub.mem = m

\* That holds of what is published, except while a memory is being accepted.
PublishedUnused ==
  crashes = 0 =>
    /\ \A m \in Memories :
         proposals[m].state \in {"proposed", "sync_failed", "rejected"} /\ ~Accepting(m) =>
           Unused(m, proposals[m].op, proposals[m].ver)
    /\ pub # NoPub /\ pub.kind # "accept" => Unused(pub.mem, pub.op, pub.ver)

\* What a publication tries, and what a failed one left, was last asked for.
Trying(m) == pub # NoPub /\ pub.mem = m /\ pub.pc \in {"push", "review", "record", "fail"}
LastAsked ==
  crashes = 0 =>
    /\ \A m \in Memories :
         proposals[m].state = "sync_failed" /\ ~Trying(m) =>
           asked[m] = [op |-> proposals[m].op, ver |-> proposals[m].ver]
    /\ pub # NoPub /\ (pub.kind = "retry" \/ pub.pc \in {"push", "review", "record", "fail"}) =>
         asked[pub.mem] = [op |-> pub.op, ver |-> pub.ver]

HistoryInv == WrittenBefore /\ PublishedUnused /\ LastAsked

\* Steps that touch nothing that was written.
LEMMA QuietHistory ==
  ASSUME HistoryInv,
         UNCHANGED <<local, proposals, pub, commits, branches, asked, written, unsafe, crashes>>
  PROVE  HistoryInv'
  BY DEF HistoryInv, WrittenBefore, PublishedUnused, LastAsked, Unused, IsActive, Accepting,
         Trying, Tip

\* No publication is under way.
LEMMA IdleFacts ==
  ASSUME TeamInv, pub.pc = "idle"
  PROVE  pub = NoPub
  BY DEF TeamInv, TypeOK, Publication

\* The versions are numbers.
LEMMA VersionFacts ==
  ASSUME TeamInv
  PROVE  /\ \A m \in Memories : local[m].ver \in Nat /\ proposals[m].ver \in Nat
         /\ pub # NoPub => pub.ver \in Nat /\ pub.ver \in Versions /\ pub.mem \in Memories
         /\ \A b \in branches : b.ver \in Nat
         /\ written \in Nat /\ Tip \in Nat
         /\ \A i \in 1..Tip : commits[i] \in Commit
<1>1. \A x \in LocalMemory : x.ver \in Nat
  BY Bounds DEF LocalMemory, NoMemory, Versions
<1>2. \A p \in Proposal : p.ver \in Nat
  BY Bounds DEF Proposal, NoProposal, Versions
<1>3. \A q \in Publication : q.ver \in Nat /\ q.ver \in Versions /\ q.mem \in Memories
  BY Bounds DEF Publication, Versions
<1>4. \A b \in Branch : b.ver \in Nat
  BY Bounds DEF Branch, Versions
<1>5. \A i \in 1..Tip : commits[i] \in Commit
  BY DEF TeamInv, TypeOK, Tip
<1>. QED
  BY <1>1, <1>2, <1>3, <1>4, <1>5 DEF TeamInv, TypeOK, Tip

LEMMA InitHistory == Init => HistoryInv
<1>. SUFFICES ASSUME Init PROVE HistoryInv
  OBVIOUS
<1>1. \A i \in 1..Tip : commits[i] = FirstCommit
  BY DEF Init, Tip
<1>2. \A m \in Memories : FirstCommit.decl[m] \notin Versions
  BY DEF FirstCommit, Absent, Versions
<1>. QED
  BY <1>1, <1>2
     DEF Init, HistoryInv, WrittenBefore, PublishedUnused, LastAsked, NoMemory, NoProposal

\* A memory is saved under a new version.
LEMMA SaveHistory ==
  ASSUME TeamInv, HistoryInv, NEW m \in Memories,
         SaveLocally(m) \/ \E replaced \in SUBSET Memories : Accept(m, replaced)
  PROVE  HistoryInv'
<1>1. /\ written' = written + 1 /\ pub.pc = "idle"
      /\ local' = [local EXCEPT ![m] = Local(written', "local")]
      /\ UNCHANGED <<proposals, remote, asked, crashes>>
      /\ \/ pub' = pub
         \/ /\ pub' # NoPub /\ pub'.pc = "look" /\ pub'.kind = "accept" /\ pub'.mem = m
            /\ pub'.ver = written'
  BY DEF SaveLocally, Accept, Publish, Idle, NoPub, NewContent
<1>2. /\ pub = NoPub /\ written \in Nat
      /\ \A n \in Memories : local[n].ver \in Nat /\ proposals[n].ver \in Nat
      /\ \A b \in branches : b.ver \in Nat
      /\ \A i \in 1..Tip : commits[i] \in Commit
  BY <1>1, IdleFacts, VersionFacts
<1>3. /\ local'[m].ver = written' /\ \A n \in Memories \ {m} : local'[n] = local[n]
  BY <1>1, LocalChanges DEF TeamInv, TypeOK, Local
<1>4. WrittenBefore'
  <2>1. \A x \in Nat : x <= written => x <= written'
    BY <1>1, <1>2
  <2>2. \A n \in Memories : (local[n].ver <= written /\ proposals[n].ver <= written)'
    BY <1>1, <1>2, <1>3, <2>1 DEF HistoryInv, WrittenBefore
  <2>3. (\A b \in branches : b.ver <= written)'
    BY <1>1, <1>2, <2>1 DEF HistoryInv, WrittenBefore, remote
  <2>4. (\A i \in 1..Tip, n \in Memories :
           commits[i].decl[n] \in Versions => commits[i].decl[n] <= written)'
    BY <1>1, <1>2, <2>1, Bounds DEF HistoryInv, WrittenBefore, remote, Tip, Versions
  <2>5. (pub # NoPub => pub.ver <= written)'
    BY <1>1, <1>2
  <2>. QED
    BY <2>2, <2>3, <2>4, <2>5 DEF WrittenBefore
<1>5. PublishedUnused'
  <2>. SUFFICES ASSUME crashes = 0 PROVE PublishedUnused'
    BY <1>1 DEF PublishedUnused
  <2>1. ASSUME NEW n \in Memories,
               proposals[n].state \in {"proposed", "sync_failed", "rejected"}, ~Accepting(n)'
        PROVE  Unused(n, proposals[n].op, proposals[n].ver)'
    <3>1. CASE n = m
      <4>1. proposals[n].ver <= written
        BY DEF HistoryInv, WrittenBefore
      <4>2. proposals'[n].ver # local'[n].ver
        BY <1>1, <1>2, <1>3, <3>1, <4>1
      <4>. QED
        BY <4>2 DEF Unused
    <3>2. CASE n # m
      BY <1>1, <1>2, <1>3, <2>1, <3>2 DEF HistoryInv, PublishedUnused, Unused, IsActive, Accepting
    <3>. QED
      BY <3>1, <3>2
  <2>2. (pub # NoPub => pub.kind = "accept")'
    BY <1>1, <1>2
  <2>. QED
    BY <1>1, <2>1, <2>2 DEF PublishedUnused
<1>6. LastAsked'
  BY <1>1, <1>2 DEF HistoryInv, LastAsked, Trying, NoPub
<1>. QED
  BY <1>4, <1>5, <1>6 DEF HistoryInv

\* A publication begins: new content, a removal, or what the proposal holds.
LEMMA BeginHistory ==
  ASSUME TeamInv, HistoryInv, NEW m \in Memories, Update(m) \/ Supersede(m) \/ Retry(m)
  PROVE  HistoryInv'
<1>1. /\ pub.pc = "idle" /\ UNCHANGED <<local, proposals, commits, branches, asked, crashes>>
      /\ pub' # NoPub /\ pub'.pc = "look" /\ pub'.mem = m
      /\ \/ written' = written + 1 /\ pub'.kind = "update" /\ pub'.ver = written'
         \/ /\ written' = written /\ pub'.kind = "remove" /\ pub'.op = "remove"
            /\ pub'.ver = local[m].ver
         \/ /\ written' = written /\ pub'.kind = "retry" /\ proposals[m].state = "sync_failed"
            /\ pub'.op = proposals[m].op /\ pub'.ver = proposals[m].ver
  BY DEF Update, Supersede, Retry, Publish, Idle, NoPub, NewContent, durable, remote, bounds
<1>2. /\ pub = NoPub /\ written \in Nat
      /\ \A n \in Memories : local[n].ver \in Nat /\ proposals[n].ver \in Nat
      /\ \A b \in branches : b.ver \in Nat
  BY <1>1, IdleFacts, VersionFacts
<1>3. \A x \in Nat : x <= written => x <= written'
  BY <1>1, <1>2
<1>4. WrittenBefore'
  <2>1. \A n \in Memories : (local[n].ver <= written /\ proposals[n].ver <= written)'
    BY <1>1, <1>2, <1>3 DEF HistoryInv, WrittenBefore
  <2>2. (\A b \in branches : b.ver <= written)'
    BY <1>1, <1>2, <1>3 DEF HistoryInv, WrittenBefore
  <2>3. (\A i \in 1..Tip, n \in Memories :
           commits[i].decl[n] \in Versions => commits[i].decl[n] <= written)'
    BY <1>1, <1>3, Bounds DEF HistoryInv, WrittenBefore, Tip, Versions
  <2>4. pub'.ver <= written'
    BY <1>1, <1>2 DEF HistoryInv, WrittenBefore
  <2>. QED
    BY <2>1, <2>2, <2>3, <2>4 DEF WrittenBefore
<1>5. PublishedUnused'
  <2>. SUFFICES ASSUME crashes = 0 PROVE PublishedUnused'
    BY <1>1 DEF PublishedUnused
  <2>1. ASSUME NEW n \in Memories,
               proposals[n].state \in {"proposed", "sync_failed", "rejected"}
        PROVE  Unused(n, proposals[n].op, proposals[n].ver)
    BY <1>2, <2>1 DEF HistoryInv, PublishedUnused, Accepting
  <2>2. Unused(m, pub.op, pub.ver)'
    <3>1. CASE pub'.kind = "update"
      <4>1. pub'.ver # local'[m].ver
        BY <1>1, <1>2, <3>1 DEF HistoryInv, WrittenBefore
      <4>. QED
        BY <4>1 DEF Unused
    <3>2. CASE pub'.op = "remove"
      BY <3>2 DEF Unused
    <3>3. CASE /\ proposals[m].state = "sync_failed"
               /\ pub'.op = proposals[m].op /\ pub'.ver = proposals[m].ver
      BY <1>1, <2>1, <3>3 DEF Unused, IsActive
    <3>. QED
      BY <1>1, <3>1, <3>2, <3>3
  <2>. QED
    BY <1>1, <2>1, <2>2 DEF PublishedUnused, Unused, IsActive
<1>6. LastAsked'
  BY <1>1, <1>2 DEF HistoryInv, LastAsked, Trying
<1>. QED
  BY <1>4, <1>5, <1>6 DEF HistoryInv

LEMMA BackoffHistory ==
  ASSUME TeamInv, HistoryInv, NEW m \in Memories, BackoffElapses(m)
  PROVE  HistoryInv'
<1>1. /\ UNCHANGED <<local, pub, commits, branches, asked, written, unsafe, crashes>>
      /\ \A n \in Memories : /\ proposals'[n].state = proposals[n].state
                             /\ proposals'[n].op = proposals[n].op
                             /\ proposals'[n].ver = proposals[n].ver
  <2>1. proposals[m] \in Proposal /\ proposals[m].state = "sync_failed"
    BY DEF TeamInv, TypeOK, BackoffElapses
  <2>2. LET q == [proposals[m] EXCEPT !.due = TRUE]
        IN  q.state = proposals[m].state /\ q.op = proposals[m].op /\ q.ver = proposals[m].ver
    BY <2>1, ProposalFields, ProposalDue
  <2>. QED
    BY <2>2 DEF TeamInv, TypeOK, BackoffElapses, remote, bounds
<1>. QED
  BY <1>1 DEF HistoryInv, WrittenBefore, PublishedUnused, LastAsked, Unused, IsActive, Accepting,
              Trying, Tip

-----------------------------------------------------------------------------
\* A publication that began to try goes on: what it publishes stays the same.
LEMMA TryingHistory ==
  ASSUME TeamInv, HistoryInv, pub # NoPub, pub' # NoPub,
         pub.pc \in {"push", "review"}, pub'.pc \in {"push", "review", "record", "fail"},
         pub'.kind = pub.kind, pub'.mem = pub.mem, pub'.op = pub.op, pub'.ver = pub.ver,
         UNCHANGED <<local, proposals, asked, written, unsafe, crashes>>,
         \A b \in branches' : b \in branches \/ b.ver = pub.ver,
         commits' = commits \/ commits' = <<FirstCommit>>
  PROVE  HistoryInv'
<1>1. \A i \in 1..Tip', m \in Memories :
        commits'[i].decl[m] \in Versions => commits'[i].decl[m] <= written
  <2>1. CASE commits' = commits
    BY <2>1 DEF HistoryInv, WrittenBefore, Tip
  <2>2. CASE commits' = <<FirstCommit>>
    <3>1. \A i \in 1..Tip' : commits'[i] = FirstCommit
      BY <2>2 DEF Tip
    <3>2. \A m \in Memories : FirstCommit.decl[m] \notin Versions
      BY DEF FirstCommit, Absent, Versions
    <3>. QED
      BY <3>1, <3>2
  <2>. QED
    BY <2>1, <2>2
<1>2. WrittenBefore'
  BY <1>1 DEF HistoryInv, WrittenBefore
<1>3. PublishedUnused' /\ LastAsked'
  BY DEF HistoryInv, PublishedUnused, LastAsked, Unused, IsActive, Accepting, Trying
<1>. QED
  BY <1>2, <1>3 DEF HistoryInv

\* What is looked at is what is tried.
LEMMA LookKeeps ==
  ASSUME TeamInv, Look
  PROVE  /\ pub'.pc = "push" /\ pub'.kind = pub.kind /\ pub'.mem = pub.mem
         /\ pub'.op = pub.op /\ pub'.ver = pub.ver
<1>r. Running
  BY RunningFacts DEF Look, Running
<1>1. PICK answered \in BOOLEAN : pub' = Sighted(answered)
  BY DEF Look
<1>2. \E f, r, g : Sighted(answered) = Aimed(f, r, g)
  BY Zenon DEF Sighted
<1>3. PICK f, r, g : pub' = Aimed(f, r, g)
  BY <1>1, <1>2
<1>4. {"pc", "kind", "mem", "op", "ver"} \subseteq DOMAIN pub
  BY <1>r DEF Running, Publication
<1>. QED
  BY <1>3, <1>4 DEF Aimed

LEMMA LookHistory == ASSUME TeamInv, HistoryInv, Look PROVE HistoryInv'
<1>r. Running /\ pub # NoPub
  BY RunningFacts DEF Look, Running
<1>1. /\ pub.pc = "look" /\ UNCHANGED <<local, proposals, commits, branches, written, unsafe, crashes>>
      /\ asked' = IF pub.kind = "retry" THEN asked
                  ELSE [asked EXCEPT ![pub.mem] = [op |-> pub.op, ver |-> pub.ver]]
  BY DEF Look, durable, remote
<1>2. /\ pub'.pc = "push" /\ pub'.kind = pub.kind /\ pub'.mem = pub.mem
      /\ pub'.op = pub.op /\ pub'.ver = pub.ver
  BY LookKeeps
<1>3. pub' # NoPub
  BY <1>2 DEF NoPub
<1>4. WrittenBefore'
  BY <1>r, <1>1, <1>2 DEF HistoryInv, WrittenBefore, Tip
<1>5. PublishedUnused'
  BY <1>r, <1>1, <1>2, <1>3 DEF HistoryInv, PublishedUnused, Unused, IsActive, Accepting
<1>6. /\ asked \in [Memories -> Change \cup {NoChange}] /\ pub.mem \in Memories
      /\ pub.kind # "retry" => asked'[pub.mem] = [op |-> pub.op, ver |-> pub.ver]
      /\ \A n \in Memories \ {pub.mem} : asked'[n] = asked[n]
      /\ pub.kind = "retry" => asked' = asked
  BY <1>r, <1>1 DEF Running
<1>7. LastAsked'
  <2>. SUFFICES ASSUME crashes = 0 PROVE LastAsked'
    BY <1>1 DEF LastAsked
  <2>1. ASSUME NEW n \in Memories, proposals[n].state = "sync_failed", n # pub.mem
        PROVE  asked'[n] = [op |-> proposals[n].op, ver |-> proposals[n].ver]
    BY <1>6, <2>1 DEF HistoryInv, LastAsked, Trying
  <2>2. asked'[pub.mem] = [op |-> pub.op, ver |-> pub.ver]
    BY <1>r, <1>6 DEF HistoryInv, LastAsked
  <2>. QED
    BY <1>1, <1>2, <1>3, <2>1, <2>2 DEF LastAsked, Trying
<1>. QED
  BY <1>4, <1>5, <1>7 DEF HistoryInv

LEMMA Tried ==
  ASSUME TeamInv, FoundDefaultBranch \/ Push \/ OpenReview
  PROVE  /\ pub # NoPub /\ pub.pc \in {"push", "review"}
         /\ pub' # NoPub /\ pub'.pc \in {"push", "review", "record", "fail"}
         /\ pub'.kind = pub.kind /\ pub'.mem = pub.mem
         /\ pub'.op = pub.op /\ pub'.ver = pub.ver
         /\ UNCHANGED <<local, proposals, asked, written, unsafe, crashes>>
         /\ \A b \in branches' : b \in branches \/ b.ver = pub.ver
         /\ commits' = commits \/ commits' = <<FirstCommit>>
<1>r. Running /\ pub # NoPub /\ pub.pc \in {"push", "review"} /\ pub \in Publication
  BY RunningFacts DEF FoundDefaultBranch, Push, OpenReview, Running
<1>. DEFINE Same == /\ pub' # NoPub /\ pub'.pc \in {"push", "review", "record", "fail"}
                    /\ pub'.kind = pub.kind /\ pub'.mem = pub.mem
                    /\ pub'.op = pub.op /\ pub'.ver = pub.ver
<1>m. \A p \in {"review", "record", "fail"} : pub' = [pub EXCEPT !.pc = p] => Same
  <2>. SUFFICES ASSUME NEW p \in {"review", "record", "fail"}, pub' = [pub EXCEPT !.pc = p]
       PROVE Same
    OBVIOUS
  <2>1. pub'.pc = p /\ pub'.kind = pub.kind /\ pub'.mem = pub.mem /\ pub'.op = pub.op /\ pub'.ver = pub.ver
    BY <1>r, PublicationMoves
  <2>. QED
    BY <2>1 DEF NoPub
<1>1. Same
  <2>1. CASE FoundDefaultBranch
    <3>1. pub' = pub \/ pub' = [pub EXCEPT !.pc = "fail"]
      BY <2>1 DEF FoundDefaultBranch
    <3>. QED
      BY <1>r, <1>m, <3>1
  <2>2. CASE Push
    <3>1. pub' = [pub EXCEPT !.pc = "review"] \/ pub' = [pub EXCEPT !.pc = "fail"]
      BY <2>2 DEF Push
    <3>. QED
      BY <1>m, <3>1
  <2>3. CASE OpenReview
    <3>1. \/ \E p \in {"record", "fail"} : pub' = [pub EXCEPT !.pc = p]
          \/ \E r : pub' = [pub EXCEPT !.pc = "record", !.review = r]
      BY <2>3, Zenon DEF OpenReview
    <3>2. ASSUME NEW r, pub' = [pub EXCEPT !.pc = "record", !.review = r] PROVE Same
      <4>1. /\ pub'.pc = "record" /\ pub'.kind = pub.kind /\ pub'.mem = pub.mem
            /\ pub'.op = pub.op /\ pub'.ver = pub.ver
        BY <1>r, <3>2 DEF Publication
      <4>. QED
        BY <4>1 DEF NoPub
    <3>. QED
      BY <1>m, <3>1, <3>2
  <2>. QED
    BY <2>1, <2>2, <2>3
<1>2. UNCHANGED <<local, proposals, asked, written, unsafe, crashes>>
  BY DEF FoundDefaultBranch, Push, OpenReview, durable
<1>3. \A b \in branches' : b \in branches \/ b.ver = pub.ver
  <2>1. CASE UNCHANGED branches
    BY <2>1
  <2>2. CASE Push /\ ~UNCHANGED branches
    <3>1. branches' = (branches \ BranchOf(pub.mem)) \cup {Pushed}
      BY <2>2 DEF Push
    <3>. QED
      BY <3>1 DEF Pushed
  <2>. QED
    BY <2>1, <2>2 DEF FoundDefaultBranch, OpenReview
<1>4. commits' = commits \/ commits' = <<FirstCommit>>
  BY DEF FoundDefaultBranch, Push, OpenReview
<1>. QED
  BY <1>r, <1>1, <1>2, <1>3, <1>4

LEMMA TriedHistory ==
  ASSUME TeamInv, HistoryInv, FoundDefaultBranch \/ Push \/ OpenReview
  PROVE  HistoryInv'
BY Tried, TryingHistory

\* It returns and leaves what it tried, or never began to try.
LEMMA ReturnHistory ==
  ASSUME TeamInv, HistoryInv, Refuse \/ Defer \/ Record \/ Recover
  PROVE  HistoryInv'
<1>r. Running /\ pub # NoPub /\ pub.pc # "idle" /\ pub.pc \in {"look", "record", "fail"}
  BY RunningFacts DEF Refuse, Defer, Record, Recover, Running
<1>1. /\ UNCHANGED <<local, commits, branches, asked, written, unsafe, crashes>>
      /\ AfterPublication
      /\ pub' \in Publication \cup {NoPub}
      /\ pub' # NoPub => /\ pub'.pc = "stage" /\ pub'.kind = "accept" /\ pub.kind = "accept"
                         /\ pub'.mem = pub.mem /\ pub'.ver = pub.ver
      /\ pub' = NoPub => pub.kind # "accept"
  <2>1. AfterPublication
    BY DEF Refuse, Defer, Record, Recover
  <2>2. UNCHANGED <<local, commits, branches, asked, written, unsafe, crashes>>
    BY DEF Refuse, Defer, Record, Recover, durable, remote, bounds
  <2>. QED
    BY <1>r, <2>1, <2>2, Returned
<1>2. /\ \A n \in Memories \ {pub.mem} : proposals'[n] = proposals[n]
      /\ \/ pub.pc = "look" /\ proposals' = proposals
         \/ /\ pub.pc \in {"record", "fail"}
            /\ proposals'[pub.mem].op = pub.op /\ proposals'[pub.mem].ver = pub.ver
  <2>1. CASE Refuse \/ Defer
    BY <2>1 DEF Refuse, Defer, durable
  <2>2. CASE Record \/ Recover
    <3>1. /\ pub.pc \in {"record", "fail"}
          /\ \E s, r : proposals' = [proposals EXCEPT ![pub.mem] = Attempted(s, r)]
      BY <2>2 DEF Record, Recover
    <3>. QED
      BY <1>r, <3>1 DEF Running, Attempted, TeamInv, TypeOK
  <2>. QED
    BY <2>1, <2>2
<1>3. WrittenBefore'
  <2>1. \A n \in Memories : proposals'[n].ver <= written
    BY <1>r, <1>2 DEF HistoryInv, WrittenBefore
  <2>. QED
    BY <1>r, <1>1, <2>1 DEF HistoryInv, WrittenBefore, Tip
<1>4. PublishedUnused'
  <2>. SUFFICES ASSUME crashes = 0 PROVE PublishedUnused'
    BY <1>1 DEF PublishedUnused
  <2>1. ASSUME NEW n \in Memories,
               proposals'[n].state \in {"proposed", "sync_failed", "rejected"}, ~Accepting(n)'
        PROVE  Unused(n, proposals'[n].op, proposals'[n].ver)
    <3>1. CASE n # pub.mem \/ proposals' = proposals
      <4>1. ~Accepting(n)
        BY <1>1, <2>1 DEF Accepting
      <4>. QED
        BY <1>2, <2>1, <3>1, <4>1 DEF HistoryInv, PublishedUnused
    <3>2. CASE n = pub.mem /\ proposals'[n].op = pub.op /\ proposals'[n].ver = pub.ver
      <4>1. pub.kind # "accept"
        BY <1>1, <2>1, <3>2 DEF Accepting
      <4>. QED
        BY <1>r, <3>2, <4>1 DEF HistoryInv, PublishedUnused
    <3>. QED
      BY <1>2, <3>1, <3>2
  <2>. QED
    BY <1>1, <2>1 DEF PublishedUnused, Unused, IsActive
<1>5. LastAsked'
  <2>. SUFFICES ASSUME crashes = 0 PROVE LastAsked'
    BY <1>1 DEF LastAsked
  <2>1. ASSUME NEW n \in Memories, proposals'[n].state = "sync_failed"
        PROVE  asked[n] = [op |-> proposals'[n].op, ver |-> proposals'[n].ver]
    <3>1. CASE n # pub.mem \/ (pub.pc = "look" /\ proposals' = proposals)
      BY <1>2, <2>1, <3>1 DEF HistoryInv, LastAsked, Trying
    <3>2. CASE /\ n = pub.mem /\ pub.pc \in {"record", "fail"}
               /\ proposals'[pub.mem].op = pub.op /\ proposals'[pub.mem].ver = pub.ver
      <4>1. asked[pub.mem] = [op |-> pub.op, ver |-> pub.ver]
        BY <1>r, <3>2 DEF HistoryInv, LastAsked
      <4>. QED
        BY <3>2, <4>1
    <3>. QED
      BY <1>2, <3>1, <3>2
  <2>2. pub' # NoPub => pub'.kind # "retry" /\ pub'.pc \notin {"push", "review", "record", "fail"}
    BY <1>1
  <2>. QED
    BY <1>1, <2>1, <2>2 DEF LastAsked
<1>. QED
  BY <1>3, <1>4, <1>5 DEF HistoryInv

LEMMA StageHistory == ASSUME TeamInv, HistoryInv, Stage PROVE HistoryInv'
<1>r. Running /\ pub # NoPub /\ pub.pc = "stage"
  BY RunningFacts DEF Stage, Running
<1>1. /\ pub' = NoPub /\ local' = [local EXCEPT ![pub.mem] = [local[pub.mem] EXCEPT !.status = "superseded"]]
      /\ UNCHANGED <<proposals, commits, branches, asked, written, unsafe, crashes>>
  BY DEF Stage, remote, bounds
<1>2. local[pub.mem] \in LocalMemory /\ local[pub.mem] # NoMemory /\ pub.mem \in Memories
  BY <1>r DEF TeamInv, TypeOK, Saved, Running
<1>3. /\ local'[pub.mem].ver = local[pub.mem].ver /\ local'[pub.mem].status = "superseded"
      /\ \A n \in Memories \ {pub.mem} : local'[n] = local[n]
  BY <1>1, <1>2, LocalRetires DEF TeamInv, TypeOK
<1>4. WrittenBefore'
  BY <1>1, <1>2, <1>3 DEF HistoryInv, WrittenBefore, Tip
<1>5. PublishedUnused'
  BY <1>1, <1>2, <1>3 DEF HistoryInv, PublishedUnused, Unused, IsActive, Accepting
<1>6. LastAsked'
  BY <1>r, <1>1 DEF HistoryInv, LastAsked, Trying
<1>. QED
  BY <1>4, <1>5, <1>6 DEF HistoryInv

-----------------------------------------------------------------------------
LEMMA ImportHistory ==
  ASSUME TeamInv, HistoryInv, NEW m \in Memories, ImportMemory(m)
  PROVE  HistoryInv'
<1>. DEFINE v == commits[clone.fetched].file[m]
<1>1. /\ sync.pc = "import" /\ m \in sync.todo
      /\ UNCHANGED <<pub, commits, branches, asked, written, unsafe, crashes, clone>>
  BY DEF ImportMemory, remote, bounds
<1>2. pub = NoPub
  BY <1>1, RefreshFacts
<1>3. v \in Versions /\ v <= written
  <2>1. ValidMemory(commits[clone.fetched], m) /\ clone.fetched \in 1..Tip
    BY <1>1, VersionFacts DEF TeamInv, TypeOK, Reads, Refers
  <2>. QED
    BY <2>1 DEF ValidMemory, HistoryInv, WrittenBefore
<1>. HIDE DEF v
<1>4. /\ \A n \in Memories \ {m} : local'[n] = local[n] /\ proposals'[n] = proposals[n]
      /\ local'[m] = local[m] \/ local'[m] = Local(v, "github")
      /\ proposals'[m] = proposals[m] \/ proposals'[m] = InConflict(proposals[m], v)
  <2>1. \/ local' = local
        \/ local' = [local EXCEPT ![m] = Local(v, "github")]
    BY Zenon DEF ImportMemory, v
  <2>2. \/ proposals' = proposals
        \/ proposals' = [proposals EXCEPT ![m] = InConflict(proposals[m], v)]
    BY Zenon DEF ImportMemory, v
  <2>. QED
    BY <2>1, <2>2 DEF TeamInv, TypeOK
<1>5. /\ local'[m] = local[m] \/ (local'[m].origin = "github" /\ local'[m].ver = v)
      /\ \/ proposals'[m] = proposals[m]
         \/ /\ proposals'[m].state = "conflict"
            /\ proposals'[m].ver = v \/ proposals'[m].ver = proposals[m].ver
  <2>1. proposals[m] \in Proposal
    BY DEF TeamInv, TypeOK
  <2>. DEFINE q == InConflict(proposals[m], v)
              x == Local(v, "github")
  <2>2. q.state = "conflict" /\ (q.ver = v \/ q.ver = proposals[m].ver)
    BY <1>3, <2>1, ProposalInConflict
  <2>3. x.origin = "github" /\ x.ver = v
    BY DEF Local
  <2>4. /\ local'[m] = local[m] \/ local'[m] = x
        /\ proposals'[m] = proposals[m] \/ proposals'[m] = q
    BY <1>4
  <2>. HIDE DEF q, x
  <2>. QED
    BY <2>2, <2>3, <2>4
<1>6. WrittenBefore'
  <2>1. \A n \in Memories : local'[n].ver <= written /\ proposals'[n].ver <= written
    BY <1>3, <1>4, <1>5 DEF HistoryInv, WrittenBefore
  <2>. QED
    BY <1>1, <1>2, <2>1 DEF HistoryInv, WrittenBefore, Tip
<1>7. PublishedUnused' /\ LastAsked'
  BY <1>1, <1>2, <1>4, <1>5
     DEF HistoryInv, PublishedUnused, LastAsked, Unused, IsActive, Accepting, Trying
<1>. QED
  BY <1>6, <1>7 DEF HistoryInv

LEMMA DropHistory ==
  ASSUME TeamInv, HistoryInv, NEW m \in Memories, DropUndeclared(m)
  PROVE  HistoryInv'
<1>1. /\ sync.pc = "drop" /\ IsActive(m)
      /\ UNCHANGED <<proposals, pub, commits, branches, asked, written, unsafe, crashes>>
      /\ local' = [local EXCEPT ![m] = [local[m] EXCEPT !.status = "superseded"]]
  BY DEF DropUndeclared, Undeclared, remote, bounds
<1>2. local[m] \in LocalMemory /\ local[m] # NoMemory
  BY <1>1 DEF TeamInv, TypeOK, IsActive, NoMemory
<1>3. /\ local'[m].ver = local[m].ver /\ local'[m].status = "superseded"
      /\ \A n \in Memories \ {m} : local'[n] = local[n]
  BY <1>1, <1>2, LocalRetires DEF TeamInv, TypeOK
<1>4. pub = NoPub
  BY <1>1, RefreshFacts
<1>5. WrittenBefore'
  BY <1>1, <1>3 DEF HistoryInv, WrittenBefore, Tip
<1>6. PublishedUnused' /\ LastAsked'
  BY <1>1, <1>3, <1>4
     DEF HistoryInv, PublishedUnused, LastAsked, Unused, IsActive, Accepting, Trying
<1>. QED
  BY <1>5, <1>6 DEF HistoryInv

LEMMA InspectHistory ==
  ASSUME TeamInv, HistoryInv, NEW m \in Memories, InspectReview(m)
  PROVE  HistoryInv'
<1>1. /\ sync.pc = "inspect" /\ m \in sync.todo
      /\ UNCHANGED <<local, pub, commits, branches, asked, written, unsafe, crashes>>
  BY DEF InspectReview, remote
<1>2. pub = NoPub /\ sync # NoSync
  BY <1>1, RefreshFacts
<1>3. proposals[m] \in Proposal /\ proposals[m] # NoProposal
  <2>1. proposals[m] \in Proposal /\ proposals[m].review # 0
    BY <1>1, <1>2 DEF TeamInv, TypeOK, Reads
  <2>. QED
    BY <2>1, ProposalFields
<1>4. PICK s \in {"proposed", "active", "rejected", "sync_failed", "conflict"} :
        /\ \/ proposals' = [proposals EXCEPT ![m] = [proposals[m] EXCEPT !.state = s]]
           \/ proposals' = proposals
        /\ \/ s = proposals[m].state
           \/ proposals[m].state = "proposed" /\ s \in {"active", "rejected"}
  <2>. DEFINE p == proposals[m]
              reconciled == IF p.op = "remove" THEN m \in sync.removed ELSE m \in sync.imported
              s == Reviewed(p, reviews[p.review].state, reconciled)
  <2>1. s = p.state \/ (p.state = "proposed" /\ s \in {"active", "rejected"})
    <3>1. CASE p.state # "proposed"
      BY <3>1 DEF Reviewed
    <3>2. CASE p.state = "proposed"
      BY <3>2 DEF Reviewed
    <3>. QED
      BY <3>1, <3>2
  <2>2. proposals' = [proposals EXCEPT ![m] = [p EXCEPT !.state = s]] \/ proposals' = proposals
    BY Zenon DEF InspectReview
  <2>3. p.state \in {"proposed", "active", "rejected", "sync_failed", "conflict"}
    BY <1>3 DEF Proposal
  <2>. HIDE DEF s
  <2>. QED
    BY <2>1, <2>2, <2>3
<1>5. /\ \A n \in Memories \ {m} : proposals'[n] = proposals[n]
      /\ proposals'[m].op = proposals[m].op /\ proposals'[m].ver = proposals[m].ver
      /\ \/ proposals'[m].state = proposals[m].state
         \/ proposals[m].state = "proposed" /\ proposals'[m].state \in {"active", "rejected"}
  <2>3. LET q == [proposals[m] EXCEPT !.state = s]
        IN  q.state = s /\ q.op = proposals[m].op /\ q.ver = proposals[m].ver
    BY <1>3, <1>4, ProposalChanges
  <2>. QED
    BY <1>4, <2>3 DEF TeamInv, TypeOK
<1>6. WrittenBefore'
  <2>1. \A n \in Memories : proposals'[n].ver <= written
    BY <1>5 DEF HistoryInv, WrittenBefore
  <2>. QED
    BY <1>1, <2>1 DEF HistoryInv, WrittenBefore, Tip
<1>7. PublishedUnused' /\ LastAsked'
  BY <1>1, <1>2, <1>5
     DEF HistoryInv, PublishedUnused, LastAsked, Unused, IsActive, Accepting, Trying
<1>. QED
  BY <1>6, <1>7 DEF HistoryInv

-----------------------------------------------------------------------------
LEMMA CrashHistory == ASSUME TeamInv, HistoryInv, Crash PROVE HistoryInv'
<1>1. /\ pub' = NoPub /\ crashes' = crashes + 1
      /\ UNCHANGED <<local, proposals, commits, branches, written>>
  BY DEF Crash, durable, remote
<1>2. crashes' # 0
  BY <1>1 DEF TeamInv, TypeOK
<1>3. WrittenBefore'
  BY <1>1 DEF HistoryInv, WrittenBefore, Tip
<1>. QED
  BY <1>2, <1>3 DEF HistoryInv, PublishedUnused, LastAsked

\* A commit says nothing that was not written.
LEMMA RemoteHistory ==
  ASSUME TeamInv, HistoryInv, UNCHANGED <<local, proposals, pub, asked, crashes>>,
         written' \in Nat, written <= written', branches' \subseteq branches,
         \/ commits' = commits
         \/ \E d \in Commit :
              /\ commits' = Append(commits, d)
              /\ \A m \in Memories : d.decl[m] \in Versions => d.decl[m] <= written'
  PROVE  HistoryInv'
<1>1. /\ \A m \in Memories : local[m].ver \in Nat /\ proposals[m].ver \in Nat
      /\ pub # NoPub => pub.ver \in Nat
      /\ \A b \in branches : b.ver \in Nat
      /\ written \in Nat /\ Tip \in Nat /\ Tip = Len(commits) /\ commits \in Seq(Commit)
  BY VersionFacts DEF TeamInv, TypeOK, Tip
<1>2. \A x \in Nat : x <= written => x <= written'
  BY <1>1
<1>3. \A i \in 1..Tip', m \in Memories :
        commits'[i].decl[m] \in Versions => commits'[i].decl[m] <= written'
  <2>0. \A i \in 1..Tip, m \in Memories :
          commits[i].decl[m] \in Versions => commits[i].decl[m] <= written'
    BY <1>2, Bounds DEF HistoryInv, WrittenBefore, Versions
  <2>1. CASE commits' = commits
    BY <2>0, <2>1 DEF Tip
  <2>2. ASSUME NEW d \in Commit, commits' = Append(commits, d),
               \A m \in Memories : d.decl[m] \in Versions => d.decl[m] <= written'
        PROVE  <1>3
    <3>1. \A i \in 1..Tip' : (i \in 1..Tip /\ commits'[i] = commits[i]) \/ commits'[i] = d
      BY <1>1, <2>2 DEF Tip
    <3>. QED
      BY <2>0, <2>2, <3>1
  <2>. QED
    BY <2>1, <2>2
<1>4. WrittenBefore'
  BY <1>1, <1>2, <1>3 DEF HistoryInv, WrittenBefore
<1>5. PublishedUnused' /\ LastAsked'
  BY DEF HistoryInv, PublishedUnused, LastAsked, Unused, IsActive, Accepting, Trying
<1>. QED
  BY <1>4, <1>5 DEF HistoryInv

LEMMA MergeHistory == ASSUME TeamInv, HistoryInv, NEW r, MergeReview(r) PROVE HistoryInv'
<1>1. UNCHANGED <<local, proposals, pub, asked, written, unsafe, crashes>>
  BY DEF MergeReview, durable, bounds
<1>2. PICK b \in BranchOf(reviews[r].mem) :
        /\ commits' = Append(commits, Merged(commits[Tip], b.mem, b, Tip + 1))
        /\ branches' \in {branches, branches \ {b}}
  BY DEF MergeReview
<1>3. b \in Branch /\ b \in branches /\ b.ver <= written /\ b.mem \in Memories
  BY DEF BranchOf, TeamInv, TypeOK, HistoryInv, WrittenBefore, Branch
<1>4. Tip \in 1..Tip /\ Tip \in Nat /\ written \in Nat /\ commits[Tip] \in Commit
  BY <1>3, VersionFacts DEF TeamInv, TypeOK, Refers, Tip
<1>5. Merged(commits[Tip], b.mem, b, Tip + 1) \in Commit
  BY <1>3, <1>4, MergedIsCommit
<1>6. ASSUME NEW m \in Memories
      PROVE  LET d == Merged(commits[Tip], b.mem, b, Tip + 1)
             IN  d.decl[m] \in Versions => d.decl[m] <= written
  <2>1. Merged(commits[Tip], b.mem, b, Tip + 1).decl[m] \in {Absent, b.ver, commits[Tip].decl[m]}
    BY DEF Merged
  <2>2. Absent <= written
    BY <1>4 DEF Absent
  <2>3. commits[Tip].decl[m] \in Versions => commits[Tip].decl[m] <= written
    BY <1>4 DEF HistoryInv, WrittenBefore
  <2>. QED
    BY <1>3, <2>1, <2>2, <2>3
<1>. QED
  BY <1>1, <1>2, <1>4, <1>5, <1>6, RemoteHistory

LEMMA CloseHistory == ASSUME TeamInv, HistoryInv, NEW r, CloseReview(r) PROVE HistoryInv'
<1>1. /\ UNCHANGED <<local, proposals, pub, commits, asked, written, unsafe, crashes>>
      /\ branches' \subseteq branches
  BY DEF CloseReview, durable, bounds
<1>. QED
  BY <1>1, VersionFacts, RemoteHistory

LEMMA TeammateHistory == ASSUME TeamInv, HistoryInv, TeammateCommits PROVE HistoryInv'
<1>1. /\ UNCHANGED <<local, proposals, pub, branches, asked, crashes>>
      /\ written' \in {written, written + 1}
  BY Teammate DEF TeammateCommits, durable
<1>2. /\ written \in Nat /\ written' \in Nat /\ written <= written'
      /\ Tip \in Nat /\ \A i \in 1..Tip : commits[i] \in Commit
  BY <1>1, VersionFacts
<1>3. PICK d \in Commit : commits' = Append(commits, d) /\ Declares(d)
  BY Teammate
<1>4. ASSUME NEW m \in Memories, d.decl[m] \in Versions PROVE d.decl[m] <= written'
  <2>1. Twice \notin Versions
    BY Bounds DEF Twice, Versions
  <2>2. CASE d.decl[m] \in {Absent, written'}
    BY <1>2, <2>2 DEF Absent
  <2>3. CASE \E i \in 1..Tip : d.decl[m] = commits[i].decl[m]
    <3>1. d.decl[m] <= written /\ d.decl[m] \in Nat
      BY <1>4, <2>3, Bounds DEF HistoryInv, WrittenBefore, Versions
    <3>. QED
      BY <1>2, <3>1
  <2>. QED
    BY <1>3, <1>4, <2>1, <2>2, <2>3 DEF Declares
<1>. QED
  BY <1>1, <1>2, <1>3, <1>4, RemoteHistory

LEMMA NextHistory == ASSUME TeamInv, HistoryInv, [Next]_vars PROVE HistoryInv'
<1>1. CASE UNCHANGED vars
  BY <1>1, QuietHistory DEF vars, durable, remote, bounds
<1>2. CASE \/ Configure \/ RefreshReviews \/ RefreshSnapshot
           \/ Imported \/ Dropped \/ SaveCheckpoint
  BY <1>2, QuietHistory
     DEF Configure, RefreshReviews, RefreshSnapshot, Refetch, Imported, Dropped, SaveCheckpoint,
         durable, remote, bounds
<1>3. CASE Begin \/ \E m \in Memories : SaveLocally(m) \/ BackoffElapses(m)
  BY <1>3, SaveHistory, BeginHistory, BackoffHistory DEF Begin
<1>4. CASE Publishing
  BY <1>4, LookHistory, TriedHistory, ReturnHistory, StageHistory DEF Publishing
<1>5. CASE \E m \in Memories : ImportMemory(m) \/ DropUndeclared(m) \/ InspectReview(m)
  BY <1>5, ImportHistory, DropHistory, InspectHistory
<1>6. CASE Crash \/ Repository
  BY <1>6, CrashHistory, TeammateHistory, MergeHistory, CloseHistory DEF Repository
<1>. QED
  BY <1>1, <1>2, <1>3, <1>4, <1>5, <1>6 DEF Next, Refreshing

\* As long as the daemon has not died: what is published and was made here is
\* not in use here, and what waits for a retry is what its user asked for last.
THEOREM HistoryInvariant == Spec => []HistoryInv
BY InitHistory, NextHistory, TeamInvariant, PTL DEF Spec

\* The state keeps its types, what is active in the shared repository was
\* merged there, and what was not is not in use where it was accepted.
THEOREM ReviewsAlwaysDecide == Spec => []ReviewsDecide
<1>1. TeamInv /\ HistoryInv => ReviewsDecide
  <2>. SUFFICES ASSUME TeamInv, HistoryInv PROVE ReviewsDecide
    OBVIOUS
  <2>1. TypeOK /\ ActiveWasMerged
    BY DEF TeamInv, MergedReview, ActiveWasMerged
  <2>2. UnmergedInactive
    <3>1. Idle => pub = NoPub
      BY IdleFacts DEF Idle
    <3>. QED
      BY <3>1 DEF HistoryInv, PublishedUnused, UnmergedInactive, Unused, Accepting
  <2>. QED
    BY <2>1, <2>2 DEF ReviewsDecide
<1>. QED
  BY <1>1, TeamInvariant, HistoryInvariant, PTL

\* A retry publishes what was last asked for.
THEOREM RetryAlwaysLatest == Spec => []RetryIsLatest
<1>1. HistoryInv => RetryIsLatest
  BY DEF HistoryInv, LastAsked, RetryIsLatest, NoPub
<1>. QED
  BY <1>1, HistoryInvariant, PTL

-----------------------------------------------------------------------------
(* What may not be published never is *)

UnsafeHere ==
  /\ unsafe \subseteq 1..written
  /\ pub # NoPub /\ pub.pc \in {"push", "review", "record", "fail"} => pub.ver \notin unsafe
  /\ \A b \in branches : b.ver \notin unsafe
  /\ \A i \in 1..Tip, m \in Memories : commits[i].decl[m] \notin unsafe

LEMMA InitUnsafe == Init => UnsafeHere
BY DEF Init, UnsafeHere, NoPub

\* Nothing is written, and a publication goes on as it was or ends.
LEMMA QuietUnsafe ==
  ASSUME UnsafeHere, UNCHANGED <<written, unsafe, commits>>, branches' \subseteq branches,
         \/ pub' = pub
         \/ pub' = NoPub
         \/ pub'.pc \in {"look", "stage"}
  PROVE  UnsafeHere'
BY DEF UnsafeHere, Tip

\* A new content is not yet anywhere, safe or not.
LEMMA NewUnsafe ==
  ASSUME TeamInv, HistoryInv, UnsafeHere, NewContent, written < MaxVersion,
         UNCHANGED <<commits, branches>>, pub' = NoPub \/ pub'.pc = "look"
  PROVE  UnsafeHere'
<1>1. /\ written' = written + 1 /\ written \in Nat /\ written + 1 \in Versions
      /\ unsafe' \subseteq unsafe \cup {written + 1}
  BY Bounds, VersionFacts DEF NewContent, TeamInv, TypeOK, Versions
<1>2. unsafe' \subseteq 1..written'
  <2> SUFFICES ASSUME NEW v \in unsafe' PROVE v \in 1..written'
    OBVIOUS
  <2>1. v \in 1..written \/ v = written + 1
    BY <1>1 DEF UnsafeHere
  <2>. QED
    BY ONLY <1>1, <2>1
<1>3. \A b \in branches : b.ver # written + 1
  BY <1>1, VersionFacts DEF HistoryInv, WrittenBefore
<1>4. \A i \in 1..Tip, m \in Memories : commits[i].decl[m] # written + 1
  BY <1>1 DEF HistoryInv, WrittenBefore
<1>. QED
  BY <1>1, <1>2, <1>3, <1>4 DEF UnsafeHere, Tip

LEMMA PublishUnsafe ==
  ASSUME TeamInv, UnsafeHere, Look \/ FoundDefaultBranch \/ Push \/ OpenReview
  PROVE  UnsafeHere'
<1>1. CASE Look
  <2>1. pub.ver \notin unsafe /\ UNCHANGED <<written, unsafe, commits, branches>>
    BY <1>1 DEF Look, remote
  <2>2. pub'.ver = pub.ver
    BY <1>1, LookKeeps
  <2>. QED
    BY <2>1, <2>2 DEF UnsafeHere, Tip
<1>2. CASE FoundDefaultBranch \/ Push \/ OpenReview
  <2>1. pub.ver \notin unsafe /\ pub'.ver = pub.ver /\ UNCHANGED <<written, unsafe>>
    BY <1>2, Tried DEF UnsafeHere
  <2>2. \A b \in branches' : b.ver \notin unsafe
    BY <1>2, <2>1, Tried DEF UnsafeHere
  <2>3. \A i \in 1..Tip', m \in Memories : commits'[i].decl[m] \notin unsafe
    <3>1. CASE commits' = commits
      BY <3>1 DEF UnsafeHere, Tip
    <3>2. CASE commits' = <<FirstCommit>>
      <4>1. \A i \in 1..Tip', m \in Memories : commits'[i].decl[m] = 0
        BY <3>2 DEF Tip, FirstCommit, Absent
      <4>2. 0 \notin unsafe
        BY VersionFacts DEF UnsafeHere
      <4>. QED
        BY <4>1, <4>2
    <3>. QED
      BY <1>2, <3>1, <3>2, Tried
  <2>. QED
    BY <2>1, <2>2, <2>3 DEF UnsafeHere
<1>. QED
  BY <1>1, <1>2

\* A commit is added that says nothing unsafe.
LEMMA CommitUnsafe ==
  ASSUME TeamInv, UnsafeHere, UNCHANGED <<pub, unsafe>>, branches' \subseteq branches,
         written' \in Nat, written <= written',
         NEW d, commits' = Append(commits, d),
         \A m \in Memories : \/ d.decl[m] \notin unsafe
                             \/ \E i \in 1..Tip : d.decl[m] = commits[i].decl[m]
  PROVE  UnsafeHere'
<1>1. /\ \A i \in 1..Tip' : (i \in 1..Tip /\ commits'[i] = commits[i]) \/ commits'[i] = d
      /\ written \in Nat
  BY VersionFacts DEF TeamInv, TypeOK, Tip
<1>2. \A m \in Memories : d.decl[m] \notin unsafe
  BY DEF UnsafeHere
<1>3. \A i \in 1..Tip', m \in Memories : commits'[i].decl[m] \notin unsafe
  BY <1>1, <1>2 DEF UnsafeHere
<1>4. unsafe \subseteq 1..written'
  BY <1>1 DEF UnsafeHere
<1>. QED
  BY <1>3, <1>4 DEF UnsafeHere

LEMMA MergeUnsafe == ASSUME TeamInv, UnsafeHere, NEW r, MergeReview(r) PROVE UnsafeHere'
<1>1. PICK b \in BranchOf(reviews[r].mem) :
        /\ commits' = Append(commits, Merged(commits[Tip], b.mem, b, Tip + 1))
        /\ branches' \in {branches, branches \ {b}}
  BY DEF MergeReview
<1>. DEFINE d == Merged(commits[Tip], b.mem, b, Tip + 1)
<1>2. b \in branches /\ Tip \in 1..Tip
  BY VersionFacts DEF BranchOf, TeamInv, Refers, TypeOK, Tip
<1>3. \A m \in Memories : d.decl[m] \in {Absent, b.ver, commits[Tip].decl[m]}
  BY DEF Merged
<1>4. Absent \notin unsafe /\ b.ver \notin unsafe
  BY <1>2, VersionFacts DEF UnsafeHere, Absent
<1>5. UNCHANGED <<pub, unsafe, written>> /\ written \in Nat
  BY VersionFacts DEF MergeReview, bounds
<1>6. \A m \in Memories : \/ d.decl[m] \notin unsafe
                          \/ \E i \in 1..Tip : d.decl[m] = commits[i].decl[m]
  BY <1>2, <1>3, <1>4
<1>. HIDE DEF d
<1>7. commits' = Append(commits, d) /\ branches' \subseteq branches /\ written <= written'
  BY <1>1, <1>5 DEF d
<1>. QED
  BY <1>5, <1>6, <1>7, CommitUnsafe

LEMMA TeammateUnsafe == ASSUME TeamInv, UnsafeHere, TeammateCommits PROVE UnsafeHere'
<1>1. UNCHANGED <<pub, branches, unsafe>>
  BY DEF TeammateCommits
<1>2. /\ written \in Nat /\ written' \in Nat /\ written <= written' /\ written <= MaxVersion
  BY Teammate, VersionFacts DEF TeamInv, TypeOK
<1>3. PICK d \in Commit : commits' = Append(commits, d) /\ Declares(d)
  BY Teammate
<1>4. Absent \notin unsafe /\ Twice \notin unsafe /\ written + 1 \notin unsafe
  BY <1>2, Bounds DEF UnsafeHere, Absent, Twice
<1>5. \A m \in Memories : \/ d.decl[m] \notin unsafe
                          \/ \E i \in 1..Tip : d.decl[m] = commits[i].decl[m]
  BY <1>3, <1>4 DEF Declares
<1>. QED
  BY <1>1, <1>2, <1>3, <1>5, CommitUnsafe

LEMMA NextUnsafe == ASSUME TeamInv, HistoryInv, UnsafeHere, [Next]_vars PROVE UnsafeHere'
<1>1. CASE \/ UNCHANGED vars \/ Configure \/ Crash \/ RefreshReviews \/ RefreshSnapshot \/ Refreshing
           \/ \E m \in Memories : BackoffElapses(m)
  BY <1>1, QuietUnsafe
     DEF vars, Configure, Crash, RefreshReviews, RefreshSnapshot, Refetch, Refreshing,
         ImportMemory, DropUndeclared, InspectReview, Imported, Dropped, SaveCheckpoint,
         BackoffElapses, durable, remote, bounds
<1>2. CASE \E m \in Memories : SaveLocally(m) \/ \E replaced \in SUBSET Memories : Accept(m, replaced)
  BY <1>2, NewUnsafe, IdleFacts DEF SaveLocally, Accept, Publish, Idle, remote
<1>3. CASE \E m \in Memories : Update(m) \/ Supersede(m) \/ Retry(m)
  <2>1. CASE \E m \in Memories : Update(m)
    BY <2>1, NewUnsafe DEF Update, Publish, remote
  <2>2. CASE \E m \in Memories : Supersede(m) \/ Retry(m)
    BY <2>2, QuietUnsafe DEF Supersede, Retry, Publish, remote, bounds
  <2>. QED
    BY <1>3, <2>1, <2>2
<1>4. CASE Publishing
  <2>1. CASE Refuse \/ Defer \/ Record \/ Recover \/ Stage
    <3>1. UNCHANGED <<written, unsafe, commits, branches>>
      BY <2>1 DEF Refuse, Defer, Record, Recover, Stage, remote, bounds
    <3>2. pub' = NoPub \/ pub'.pc = "stage"
      <4>1. pub # NoPub /\ Running
        BY <2>1, RunningFacts DEF Refuse, Defer, Record, Recover, Stage, Running
      <4>2. [pub EXCEPT !.pc = "stage"].pc = "stage"
        BY <4>1 DEF Running, Publication
      <4>. QED
        BY <2>1, <4>2 DEF Refuse, Defer, Record, Recover, Stage, AfterPublication
    <3>. QED
      BY <3>1, <3>2, QuietUnsafe
  <2>. QED
    BY <1>4, <2>1, PublishUnsafe DEF Publishing
<1>5. CASE Repository
  <2>1. CASE \E r \in 1..MaxReviews : CloseReview(r)
    BY <2>1, QuietUnsafe DEF CloseReview, bounds
  <2>. QED
    BY <1>5, <2>1, TeammateUnsafe, MergeUnsafe DEF Repository
<1>. QED
  BY <1>1, <1>2, <1>3, <1>4, <1>5 DEF Next, Begin

-----------------------------------------------------------------------------
(* The checkpoint, where the default branch is never reverted *)

\* A manifest that was written again has a later date, and under one date a
\* declaration can only be damaged.
Dated ==
  /\ \A i \in 1..Tip : commits[i].at \in 1..i
  /\ \A i, j \in 1..Tip :
       i <= j =>
         /\ commits[i].at <= commits[j].at
         /\ commits[i].at = commits[j].at =>
              \A m \in Memories : commits[j].decl[m] \in {commits[i].decl[m], Twice}

\* Every memory that the commit declares can be imported.
Sound(c) == \A m \in Declared(c) : ValidMemory(c, m)

\* What CheckpointAgrees says of one memory, with x and p on record for it.
Right(x, p, m, c) ==
  \/ IF m \in Declared(c)
     THEN ValidMemory(c, m) /\ x.status = "active" /\ x.ver = c.file[m]
     ELSE x.status # "active" \/ x.origin = "local"
  \/ x.origin = "local" /\ p.state # "none"
Fits(m, c) == Right(local[m], proposals[m], m, c)

\* Only a sound commit becomes the checkpoint.  Until a manifest is fetched that
\* is newer than its own, memories are what the checkpoint says.
CheckpointFits ==
  /\ checkpoint <= clone.fetched
  /\ checkpoint # 0 => Sound(commits[checkpoint])
  /\ checkpoint # 0 /\ commits[checkpoint].at = commits[clone.fetched].at =>
       \A m \in Memories : Fits(m, commits[checkpoint])

\* How far a refresh that will be whole has come.
RefreshFits ==
  /\ sync.pc = "import" /\ sync.whole =>
       /\ Sound(commits[clone.fetched])
       /\ \A m \in Memories :
            \/ m \in sync.todo
            \/ sync.full /\ m \notin Declared(commits[clone.fetched])
            \/ Fits(m, commits[clone.fetched])
  /\ sync.pc = "drop" =>
       /\ clone.fetched # 0 /\ Sound(commits[clone.fetched])
       /\ \A m \in Declared(commits[clone.fetched]) : Fits(m, commits[clone.fetched])
  /\ sync.pc = "inspect" /\ sync.save =>
       /\ clone.fetched # 0 /\ Sound(commits[clone.fetched])
       /\ \A m \in Memories : Fits(m, commits[clone.fetched])

CheckpointInv == Dated /\ CheckpointFits /\ RefreshFits

\* What a commit says about one memory depends on its declaration alone, if
\* it can be imported.
LEMMA RightBoth ==
  ASSUME NEW c, NEW d, NEW x, NEW p, NEW m \in Memories,
         m \in Declared(c) => ValidMemory(c, m), m \in Declared(d) => ValidMemory(d, m),
         c.decl[m] = d.decl[m], Right(x, p, m, c)
  PROVE  Right(x, p, m, d)
  BY DEF Right, Declared, ValidMemory

\* Nothing that happens here to a memory of this place is wrong of it, once it
\* has a proposal, or as long as nobody shares it.
LEMMA RightHere ==
  ASSUME NEW x, NEW p, NEW m \in Memories, NEW c,
         x.origin = "local", p.state # "none" \/ c.decl[m] = Absent
  PROVE  Right(x, p, m, c)
  BY DEF Right, Declared

LEMMA RightKept ==
  ASSUME NEW x, NEW p, NEW q, NEW m \in Memories, NEW c, Right(x, p, m, c),
         p.state # "none" => q.state # "none"
  PROVE  Right(x, q, m, c)
  BY DEF Right

\* A sound commit declares nothing twice.
LEMMA SoundOnce ==
  ASSUME NEW c, Sound(c), NEW m \in Memories
  PROVE  c.decl[m] # Twice
  BY Bounds DEF Sound, Declared, ValidMemory, Twice, Absent, Versions

LEMMA InitCheckpoint == Init => CheckpointInv
<1>. SUFFICES ASSUME Init PROVE CheckpointInv
  OBVIOUS
<1>1. Tip \in 0..1 /\ \A i \in 1..Tip : commits[i] = FirstCommit
  BY DEF Init, Tip
<1>2. FirstCommit.at = 1
  BY DEF FirstCommit
<1>3. Dated
  BY <1>1, <1>2 DEF Dated
<1>4. CheckpointFits /\ RefreshFits
  BY DEF Init, CheckpointFits, RefreshFits, NoPub, NoSync
<1>. QED
  BY <1>3, <1>4 DEF CheckpointInv

-----------------------------------------------------------------------------
\* The next commit is dated by its number, or changes no date and only
\* damages declarations.
Follows(d) ==
  \/ d.at = Tip + 1
  \/ /\ Tip # 0 /\ d.at = commits[Tip].at
     /\ \A m \in Memories : d.decl[m] \in {commits[Tip].decl[m], Twice}

LEMMA TeammateFollows ==
  ASSUME TeamInv, ~Reverts, TeammateCommits
  PROVE  \E d \in Commit : commits' = Append(commits, d) /\ Follows(d)
<1>. DEFINE Added == \E d \in Commit : commits' = Append(commits, d) /\ Follows(d)
<1>2. commits \in Seq(Commit) /\ Len(commits) \in Nat /\ Tip = Len(commits) /\ Tip \in Nat
  BY DEF TeamInv, TypeOK, Tip
<1>3. ASSUME commits = <<>>, commits' = <<FirstCommit>> PROVE Added
  <2>1. commits' = Append(commits, FirstCommit)
    BY <1>3
  <2>2. Follows(FirstCommit)
    BY <1>2, <1>3 DEF Follows, FirstCommit
  <2>. QED
    BY <2>1, <2>2, FirstIsCommit
<1>. DEFINE c == commits[Tip]
<1>4. ASSUME commits # <<>>, NEW m \in Memories, written < MaxVersion,
             commits' \in { Append(commits, d) :
               d \in {Edited(c, m, written + 1)} \cup
                    IF c.decl[m] = Absent THEN {} ELSE {[c EXCEPT !.file[m] = written + 1]} }
      PROVE  Added
  <2>1. c \in Commit /\ written + 1 \in 0..MaxVersion + 1 /\ Tip # 0
    BY <1>2, <1>4, Bounds DEF TeamInv, TypeOK
  <2>2. Edited(c, m, written + 1) \in Commit /\ [c EXCEPT !.file[m] = written + 1] \in Commit
    BY <1>2, <2>1, CommitChanges
  <2>3. /\ Edited(c, m, written + 1).at = Tip + 1
        /\ [c EXCEPT !.file[m] = written + 1].at = c.at
        /\ [c EXCEPT !.file[m] = written + 1].decl = c.decl
    BY <2>1, CommitDeclares
  <2>4. Follows(Edited(c, m, written + 1)) /\ Follows([c EXCEPT !.file[m] = written + 1])
    BY <2>1, <2>3 DEF Follows
  <2>. QED
    BY <1>4, <2>2, <2>4
<1>5. ASSUME commits # <<>>, NEW m \in Memories,
             commits' \in { Append(commits, d) :
               d \in { Edited(c, m, Absent), [c EXCEPT !.file[m] = Invalid],
                       [c EXCEPT !.decl[m] = Twice],
                       [c EXCEPT !.manifest = "invalid"] } \ {c} }
      PROVE  Added
  <2>1. /\ c \in Commit /\ \A v \in {Absent, Invalid, Twice} : v \in 0..MaxVersion + 1
        /\ Tip # 0
    BY <1>2, <1>5, Bounds DEF Absent, Invalid, Twice
  <2>2. /\ Edited(c, m, Absent) \in Commit /\ [c EXCEPT !.file[m] = Invalid] \in Commit
        /\ [c EXCEPT !.decl[m] = Twice] \in Commit /\ [c EXCEPT !.manifest = "invalid"] \in Commit
    BY <1>2, <2>1, CommitChanges
  <2>3. /\ Edited(c, m, Absent).at = Tip + 1
        /\ [c EXCEPT !.file[m] = Invalid].decl = c.decl /\ [c EXCEPT !.file[m] = Invalid].at = c.at
        /\ [c EXCEPT !.decl[m] = Twice].at = c.at
        /\ \A n \in Memories : [c EXCEPT !.decl[m] = Twice].decl[n] \in {Twice, c.decl[n]}
        /\ [c EXCEPT !.manifest = "invalid"].decl = c.decl /\ [c EXCEPT !.manifest = "invalid"].at = c.at
    BY <2>1, CommitDeclares
  <2>4. /\ Follows(Edited(c, m, Absent)) /\ Follows([c EXCEPT !.file[m] = Invalid])
        /\ Follows([c EXCEPT !.decl[m] = Twice]) /\ Follows([c EXCEPT !.manifest = "invalid"])
    BY <2>1, <2>3 DEF Follows
  <2>. QED
    BY <1>5, <2>2, <2>4
<1>. HIDE DEF Added
<1>7. Added
  BY <1>3, <1>4, <1>5, Zenon DEF TeammateCommits
<1>. QED
  BY <1>7 DEF Added

LEMMA MergeFollows ==
  ASSUME TeamInv, NEW r, MergeReview(r)
  PROVE  \E d \in Commit : commits' = Append(commits, d) /\ Follows(d)
<1>2. PICK b \in BranchOf(reviews[r].mem) :
        commits' = Append(commits, Merged(commits[Tip], b.mem, b, Tip + 1))
  BY DEF MergeReview
<1>3. b \in Branch /\ b \in branches
  BY DEF BranchOf, TeamInv, TypeOK
<1>4. commits # <<>> /\ commits \in Seq(Commit) /\ Tip \in 1..Len(commits)
  BY <1>3 DEF TeamInv, TypeOK, Refers, Tip
<1>5. Merged(commits[Tip], b.mem, b, Tip + 1) \in Commit
  <2>1. commits[Tip] \in Commit /\ Tip + 1 \in Nat /\ b.mem \in Memories
    BY <1>3, <1>4 DEF Branch
  <2>. QED
    BY <1>3, <2>1, MergedIsCommit
<1>6. Merged(commits[Tip], b.mem, b, Tip + 1).at = Tip + 1
  BY DEF Merged
<1>. QED
  BY <1>2, <1>5, <1>6 DEF Follows

LEMMA DatedFollows ==
  ASSUME TeamInv, Dated, NEW d \in Commit, commits' = Append(commits, d), Follows(d)
  PROVE  Dated'
<1>. DEFINE Orderly(c, e) ==
       /\ c.at <= e.at
       /\ c.at = e.at => \A m \in Memories : e.decl[m] \in {c.decl[m], Twice}
<1>0. /\ commits \in Seq(Commit) /\ Tip = Len(commits) /\ Tip' = Len(commits')
  BY DEF TeamInv, TypeOK, Tip
<1>1. /\ Tip \in Nat /\ Tip' = Tip + 1
      /\ \A i \in 1..Tip : commits'[i] = commits[i] /\ commits[i] \in Commit
      /\ commits'[Tip + 1] = d
  BY <1>0
<1>2. \A i \in 1..Tip : commits[i].at \in Nat /\ commits[i].at <= i
  <2>1. \A i \in 1..Tip : commits[i].at \in 1..i
    BY DEF Dated
  <2>. QED
    BY <1>1, <2>1
<1>3. d.at \in 1..Tip + 1
  <2>1. CASE d.at = Tip + 1
    BY <1>1, <2>1
  <2>2. CASE Tip # 0 /\ d.at = commits[Tip].at
    <3>1. commits[Tip].at \in 1..Tip
      BY <1>1, <2>2 DEF Dated
    <3>. QED
      BY <1>1, <2>2, <3>1
  <2>. QED
    BY <2>1, <2>2 DEF Follows
<1>4. ASSUME NEW i \in 1..Tip PROVE Orderly(commits[i], d)
  <2>1. CASE d.at = Tip + 1
    <3>1. commits[i].at < d.at /\ commits[i].at \in Nat /\ d.at \in Nat
      BY <1>1, <1>2, <2>1
    <3>. QED
      BY <3>1
  <2>2. CASE /\ Tip # 0 /\ d.at = commits[Tip].at
             /\ \A m \in Memories : d.decl[m] \in {commits[Tip].decl[m], Twice}
    <3>1. Tip \in 1..Tip /\ i <= Tip
      BY <1>1, <2>2
    <3>2. Orderly(commits[i], commits[Tip])
      BY <3>1 DEF Dated
    <3>. QED
      BY <2>2, <3>2
  <2>. QED
    BY <2>1, <2>2 DEF Follows
<1>5. ASSUME NEW i \in 1..Tip', NEW j \in 1..Tip', i <= j
      PROVE  Orderly(commits'[i], commits'[j])
  <2>0. (j \in 1..Tip /\ i \in 1..Tip) \/ (j = Tip + 1 /\ i \in 1..Tip) \/ (j = Tip + 1 /\ i = Tip + 1)
    BY <1>1, <1>5
  <2>1. CASE j \in 1..Tip /\ i \in 1..Tip
    <3>1. commits'[i] = commits[i] /\ commits'[j] = commits[j]
      BY <1>1, <2>1
    <3>2. Orderly(commits[i], commits[j])
      BY <1>5, <2>1 DEF Dated
    <3>. QED
      BY <3>1, <3>2
  <2>2. CASE j = Tip + 1 /\ i \in 1..Tip
    <3>1. commits'[i] = commits[i] /\ commits'[j] = d
      BY <1>1, <2>2
    <3>2. Orderly(commits[i], d)
      BY <1>4, <2>2
    <3>. QED
      BY <3>1, <3>2
  <2>3. CASE j = Tip + 1 /\ i = Tip + 1
    <3>1. commits'[i] = d /\ commits'[j] = d
      BY <1>1, <2>3, Zenon
    <3>2. d.at \in Nat
      BY <1>1, <1>3
    <3>. QED
      BY <3>1, <3>2
  <2>. QED
    BY <2>0, <2>1, <2>2, <2>3
<1>6. ASSUME NEW i \in 1..Tip' PROVE commits'[i].at \in 1..i
  <2>0. i \in 1..Tip \/ i = Tip + 1
    BY <1>1, <1>6
  <2>1. CASE i \in 1..Tip
    BY <1>1, <2>1 DEF Dated
  <2>2. CASE i = Tip + 1
    <3>1. commits'[i] = d
      BY <1>1, <2>2, Zenon
    <3>. QED
      BY <1>3, <2>2, <3>1
  <2>. QED
    BY <2>0, <2>1, <2>2
<1>. QED
  BY <1>5, <1>6 DEF Dated

\* The history of the default branch, of every step.
LEMMA NextDated ==
  ASSUME TeamInv, Dated, ~Reverts, [Next]_vars
  PROVE  Dated'
<1>1. CASE UNCHANGED commits
  BY <1>1 DEF Dated, Tip
<1>2. CASE \E d \in Commit : commits' = Append(commits, d) /\ Follows(d)
  BY <1>2, DatedFollows
<1>3. CASE FoundDefaultBranch
  <2>1. CASE commits = <<>> /\ commits' = <<FirstCommit>>
    <3>1. commits' = Append(commits, FirstCommit) /\ Follows(FirstCommit)
      BY <2>1 DEF Follows, FirstCommit, Tip
    <3>. QED
      BY <3>1, FirstIsCommit, DatedFollows
  <2>. QED
    BY <1>1, <1>3, <2>1 DEF FoundDefaultBranch
<1>4. CASE Repository
  <2>1. CASE \E r : CloseReview(r)
    BY <1>1, <2>1 DEF CloseReview
  <2>. QED
    BY <1>2, <1>4, <2>1, TeammateFollows, MergeFollows DEF Repository
<1>5. CASE \/ UNCHANGED vars \/ Configure \/ Crash \/ Begin
           \/ \E m \in Memories : SaveLocally(m) \/ BackoffElapses(m)
  BY <1>1, <1>5
     DEF vars, remote, Configure, Crash, Begin, Accept, Update, Supersede, Retry, SaveLocally, BackoffElapses
<1>6. CASE Publishing /\ ~FoundDefaultBranch
  BY <1>1, <1>6 DEF Publishing, Refuse, Defer, Look, Push, OpenReview, Record, Recover, Stage, remote
<1>7. CASE RefreshReviews \/ RefreshSnapshot \/ Refreshing
  BY <1>1, <1>7
     DEF RefreshReviews, RefreshSnapshot, Refetch, Refreshing, ImportMemory, DropUndeclared,
         InspectReview, Imported, Dropped, SaveCheckpoint, remote
<1>. QED
  BY <1>3, <1>4, <1>5, <1>6, <1>7 DEF Next

-----------------------------------------------------------------------------
\* What is left unchanged of a memory: what was right of it still is.
StaysRight ==
  \A m \in Memories, i \in 1..Tip :
    Right(local[m], proposals[m], m, commits[i]) => Right(local'[m], proposals'[m], m, commits[i])

\* The commits that were there are there, and are fetched in their order.
GoesForward ==
  /\ clone.fetched <= clone'.fetched /\ clone'.fetched <= Tip'
  /\ \A i \in 1..Tip : commits'[i] = commits[i]

LEMMA TipFacts ==
  ASSUME TeamInv
  PROVE  /\ Tip \in Nat /\ clone.fetched \in 0..Tip /\ checkpoint \in 0..Tip
         /\ commits \in Seq(Commit)
<1>1. commits \in Seq(Commit) /\ Tip = Len(commits)
  BY DEF TeamInv, TypeOK, Tip
<1>2. clone.fetched \in Nat /\ checkpoint \in Nat
  BY Bounds DEF TeamInv, TypeOK
<1>. QED
  BY <1>1, <1>2 DEF TeamInv, Refers

LEMMA TipFactsNext ==
  ASSUME TeamInv'
  PROVE  Tip' \in Nat /\ clone'.fetched \in 0..Tip'
<1>1. commits' \in Seq(Commit) /\ Tip' = Len(commits')
  BY DEF TeamInv, TypeOK, Tip
<1>2. clone'.fetched \in Nat
  BY Bounds DEF TeamInv, TypeOK
<1>. QED
  BY <1>1, <1>2 DEF TeamInv, Refers

\* The manifest is as old as that of the checkpoint, and so it was all the time.
LEMMA SameManifest ==
  ASSUME TeamInv, TeamInv', CheckpointInv, Dated', GoesForward, checkpoint # 0,
         commits'[checkpoint].at = commits'[clone'.fetched].at
  PROVE  commits[checkpoint].at = commits[clone.fetched].at
<1>1. /\ clone'.fetched \in 0..Tip' /\ Tip' \in Nat
  BY TipFactsNext
<1>2. /\ checkpoint \in 1..Tip /\ clone.fetched \in 1..Tip /\ checkpoint <= clone.fetched
      /\ Tip \in Nat
  BY TipFacts DEF CheckpointInv, CheckpointFits
<1>3. clone.fetched <= clone'.fetched
  BY DEF GoesForward
<1>4. /\ checkpoint \in 1..Tip' /\ clone.fetched \in 1..Tip' /\ clone'.fetched \in 1..Tip'
  BY <1>1, <1>2, <1>3
<1>5. /\ commits'[checkpoint].at <= commits'[clone.fetched].at
      /\ commits'[clone.fetched].at <= commits'[clone'.fetched].at
      /\ commits'[checkpoint].at \in Nat /\ commits'[clone.fetched].at \in Nat
      /\ commits'[clone'.fetched].at \in Nat
  <2>1. \A i \in 1..Tip' : commits'[i].at \in Nat
    BY <1>1 DEF Dated
  <2>. QED
    BY <1>2, <1>3, <1>4, <2>1 DEF Dated
<1>6. commits'[checkpoint] = commits[checkpoint] /\ commits'[clone.fetched] = commits[clone.fetched]
  BY <1>2 DEF GoesForward
<1>. QED
  BY <1>5, <1>6

LEMMA CheckpointStays ==
  ASSUME TeamInv, TeamInv', CheckpointInv, Dated', GoesForward, StaysRight, checkpoint' = checkpoint
  PROVE  CheckpointFits'
<1>1. /\ clone'.fetched \in 0..Tip' /\ Tip' \in Nat
  BY TipFactsNext
<1>2. checkpoint <= clone.fetched /\ checkpoint \in 0..Tip /\ clone.fetched \in 0..Tip /\ Tip \in Nat
  BY TipFacts DEF CheckpointInv, CheckpointFits
<1>3. checkpoint' <= clone'.fetched
  BY <1>1, <1>2 DEF GoesForward
<1>4. checkpoint # 0 => checkpoint \in 1..Tip /\ commits'[checkpoint] = commits[checkpoint]
  BY <1>2 DEF GoesForward
<1>5. checkpoint' # 0 => Sound(commits'[checkpoint'])
  BY <1>4 DEF CheckpointInv, CheckpointFits
<1>6. ASSUME checkpoint' # 0, commits'[checkpoint'].at = commits'[clone'.fetched].at,
             NEW m \in Memories
      PROVE  Right(local'[m], proposals'[m], m, commits'[checkpoint'])
  <2>1. commits[checkpoint].at = commits[clone.fetched].at
    BY <1>6, SameManifest
  <2>2. Right(local[m], proposals[m], m, commits[checkpoint])
    BY <1>6, <2>1 DEF CheckpointInv, CheckpointFits, Fits
  <2>. QED
    BY <1>4, <1>6, <2>2 DEF StaysRight
<1>. QED
  BY <1>3, <1>5, <1>6 DEF CheckpointFits, Fits

\* So does a refresh that is not touched.
LEMMA RefreshStays ==
  ASSUME TeamInv, CheckpointInv, GoesForward, StaysRight,
         \/ sync' = NoSync
         \/ sync' = sync /\ clone'.fetched = clone.fetched
  PROVE  RefreshFits'
<1>1. CASE sync' = NoSync
  BY <1>1 DEF RefreshFits, NoSync
<1>2. CASE sync' = sync /\ clone'.fetched = clone.fetched
  <2>1. clone.fetched # 0 => clone.fetched \in 1..Tip /\ commits'[clone.fetched] = commits[clone.fetched]
    BY TipFacts DEF GoesForward
  <2>2. sync.pc = "import" => clone.fetched # 0
    BY DEF TeamInv, Reads
  <2>3. clone.fetched # 0 =>
          \A m \in Memories : Fits(m, commits[clone.fetched]) =>
             Right(local'[m], proposals'[m], m, commits[clone.fetched])
    BY <2>1 DEF StaysRight, Fits
  <2>4. RefreshFits
    BY DEF CheckpointInv
  <2>. HIDE DEF Fits
  <2>. DEFINE c == commits[clone.fetched]
              Fit(m) == Right(local'[m], proposals'[m], m, c)
  <2>5. clone.fetched # 0 => \A m \in Memories : Fits(m, c) => Fit(m)
    BY <2>3
  <2>6. /\ clone'.fetched = clone.fetched /\ sync' = sync
        /\ clone.fetched # 0 => commits'[clone'.fetched] = c
    BY <1>2, <2>1
  <2>. HIDE DEF Fit, c
  <2>7. /\ sync.pc = "import" /\ sync.whole =>
             /\ Sound(c)
             /\ \A m \in Memories : \/ m \in sync.todo
                                    \/ sync.full /\ m \notin Declared(c)
                                    \/ Fit(m)
        /\ sync.pc = "drop" =>
             clone.fetched # 0 /\ Sound(c) /\ \A m \in Declared(c) : Fit(m)
        /\ sync.pc = "inspect" /\ sync.save =>
             clone.fetched # 0 /\ Sound(c) /\ \A m \in Memories : Fit(m)
    BY <2>2, <2>4, <2>5 DEF RefreshFits, Declared, c
  <2>. QED
    BY <2>2, <2>6, <2>7 DEF RefreshFits, Fit, Fits
<1>. QED
  BY <1>1, <1>2

\* Steps that leave the memories and their proposals as they are.
LEMMA QuietCheckpoint ==
  ASSUME TeamInv, TeamInv', CheckpointInv, Dated', GoesForward,
         UNCHANGED <<local, proposals, checkpoint>>,
         \/ sync' = NoSync
         \/ sync' = sync /\ clone'.fetched = clone.fetched
  PROVE  CheckpointInv'
<1>1. StaysRight
  BY DEF StaysRight
<1>. QED
  BY <1>1, CheckpointStays, RefreshStays DEF CheckpointInv

\* A memory that is made here, or has a proposal, cannot be wrong.
LEMMA HereCheckpoint ==
  ASSUME TeamInv, TeamInv', CheckpointInv, Dated',
         UNCHANGED <<clone, checkpoint, commits, sync>>, NEW m \in Memories,
         \A n \in Memories \ {m} : local'[n] = local[n] /\ proposals'[n] = proposals[n],
         \/ /\ local'[m].origin = "local"
            /\ proposals'[m].state # "none" \/ m \notin Shared
         \/ /\ local'[m] = local[m]
            /\ proposals[m].state # "none" => proposals'[m].state # "none"
  PROVE  CheckpointInv'
<1>1. GoesForward
  BY TipFacts DEF GoesForward, Tip
<1>2. ASSUME NEW n \in Memories, NEW i \in 1..Tip, Right(local[n], proposals[n], n, commits[i])
      PROVE  Right(local'[n], proposals'[n], n, commits[i])
  <2>1. CASE n # m
    BY <1>2, <2>1
  <2>2. CASE n = m /\ local'[m].origin = "local" /\ proposals'[m].state # "none"
    BY <2>2, RightHere
  <2>3. CASE n = m /\ local'[m].origin = "local" /\ m \notin Shared
    <3>1. commits[i].decl[m] = Absent
      BY <2>3, TipFacts DEF Shared, Tip
    <3>. QED
      BY <2>3, <3>1, RightHere
  <2>4. CASE n = m /\ local'[m] = local[m] /\ (proposals[m].state # "none" => proposals'[m].state # "none")
    BY <1>2, <2>4, RightKept
  <2>. QED
    BY <2>1, <2>2, <2>3, <2>4
<1>3. StaysRight
  BY <1>2 DEF StaysRight
<1>. QED
  BY <1>1, <1>3, CheckpointStays, RefreshStays DEF CheckpointInv

LEMMA SaveCheckpointKept ==
  ASSUME TeamInv, TeamInv', CheckpointInv, Dated', NEW m \in Memories,
         SaveLocally(m) \/ \E replaced \in SUBSET Memories : Accept(m, replaced)
  PROVE  CheckpointInv'
<1>1. /\ UNCHANGED <<clone, checkpoint, commits, sync, proposals>> /\ m \notin Shared
      /\ local' = [local EXCEPT ![m] = Local(written + 1, "local")]
  BY DEF SaveLocally, Accept, remote
<1>2. local \in [Memories -> LocalMemory] /\ Local(written + 1, "local").origin = "local"
  BY DEF TeamInv, TypeOK, Local
<1>3. /\ local'[m].origin = "local"
      /\ \A n \in Memories \ {m} : local'[n] = local[n] /\ proposals'[n] = proposals[n]
  BY <1>1, <1>2
<1>. QED
  BY <1>1, <1>3, HereCheckpoint

LEMMA BeginCheckpoint ==
  ASSUME TeamInv, TeamInv', CheckpointInv, Dated', NEW m \in Memories,
         Update(m) \/ Supersede(m) \/ Retry(m)
  PROVE  CheckpointInv'
<1>1. UNCHANGED <<local, proposals, checkpoint, clone, commits, sync>>
  BY DEF Update, Supersede, Retry, durable, remote
<1>2. GoesForward
  BY <1>1, TipFacts DEF GoesForward, Tip
<1>. QED
  BY <1>1, <1>2, QuietCheckpoint

LEMMA BackoffCheckpoint ==
  ASSUME TeamInv, TeamInv', CheckpointInv, Dated', NEW m \in Memories, BackoffElapses(m)
  PROVE  CheckpointInv'
<1>1. /\ UNCHANGED <<local, checkpoint, clone, commits, sync>>
      /\ proposals' = [proposals EXCEPT ![m] = [proposals[m] EXCEPT !.due = TRUE]]
      /\ proposals[m] \in Proposal /\ proposals[m].state = "sync_failed"
  BY DEF BackoffElapses, TeamInv, TypeOK, remote
<1>2. [proposals[m] EXCEPT !.due = TRUE].state = proposals[m].state
  BY <1>1, ProposalFields, ProposalDue
<1>3. proposals \in [Memories -> Proposal]
  BY DEF TeamInv, TypeOK
<1>4. /\ proposals'[m].state = proposals[m].state
      /\ \A n \in Memories \ {m} : local'[n] = local[n] /\ proposals'[n] = proposals[n]
  BY <1>1, <1>2, <1>3
<1>. QED
  BY <1>1, <1>4, HereCheckpoint

\* Publications.
LEMMA PublicationCheckpoint ==
  ASSUME TeamInv, TeamInv', CheckpointInv, Dated',
         Configure \/ Crash \/ Refuse \/ Defer \/ Look \/ FoundDefaultBranch \/ Push \/ OpenReview
  PROVE  CheckpointInv'
<1>1. UNCHANGED <<local, proposals, checkpoint>>
  BY DEF Configure, Crash, Refuse, Defer, Look, FoundDefaultBranch, Push, OpenReview, durable
<1>. DEFINE Forward == GoesForward /\ (sync' = NoSync \/ (sync' = sync /\ clone'.fetched = clone.fetched))
<1>2. clone \in Checkout /\ clone.fetched \in 0..MaxCommits /\ Tip \in 0..MaxCommits
  BY TipFacts DEF TeamInv, TypeOK, Checkout, Tip
<1>3. ASSUME pub.pc # "idle" \/ sync.pc = "idle", pub.pc # "idle" PROVE sync = NoSync
  BY <1>3 DEF TeamInv, TypeOK, Exclusive, Refresh
<1>4. ASSUME Refuse \/ Defer \/ Look \/ OpenReview PROVE Forward
  <2>1. UNCHANGED <<clone, commits, sync>>
    BY <1>4 DEF Refuse, Defer, Look, OpenReview, durable, remote
  <2>. QED
    BY <2>1, TipFacts DEF GoesForward, Tip
<1>5. ASSUME Crash PROVE Forward
  <2>1. UNCHANGED <<clone, commits>> /\ sync' = NoSync
    BY <1>5 DEF Crash, durable, remote
  <2>. QED
    BY <2>1, TipFacts DEF GoesForward, Tip
<1>6. ASSUME Configure PROVE Forward
  <2>1. UNCHANGED <<commits, sync>> /\ sync.pc = "idle"
    BY <1>6 DEF Configure, remote, Idle
  <2>2. clone'.fetched = IF clone.made THEN clone.fetched ELSE Tip
    <3>. DEFINE f == IF clone.made THEN clone.fetched ELSE Tip
    <3>1. clone' = [clone EXCEPT !.made = TRUE, !.fetched = f]
      BY <1>2, <1>6 DEF Configure, Checkout
    <3>2. f \in 0..MaxCommits
      BY <1>2
    <3>. HIDE DEF f
    <3>3. clone'.fetched = f
      BY <1>2, <3>1, <3>2, CheckoutChanges
    <3>. QED
      BY <3>3 DEF f
  <2>3. sync' = NoSync
    BY <2>1 DEF TeamInv, TypeOK, Refresh
  <2>. QED
    BY <2>1, <2>2, <2>3, TipFacts DEF GoesForward, Tip
<1>7. ASSUME Push PROVE Forward
  <2>1. /\ UNCHANGED <<commits, sync>> /\ pub.pc # "idle"
        /\ clone' \in {clone, [clone EXCEPT !.fetched = Tip]}
    BY <1>7 DEF Push
  <2>2. clone'.fetched \in {clone.fetched, Tip}
    <3>1. CASE clone' = clone
      BY <3>1
    <3>2. CASE clone' = [clone EXCEPT !.fetched = Tip]
      BY <1>2, <3>2, CheckoutChanges
    <3>. QED
      BY <2>1, <3>1, <3>2
  <2>. QED
    BY <1>3, <2>1, <2>2, TipFacts DEF GoesForward, Tip
<1>8. ASSUME FoundDefaultBranch PROVE Forward
  <2>1. sync' = sync /\ pub.pc # "idle" /\ clone.fetched = 0
    BY <1>8 DEF FoundDefaultBranch
  <2>2. ASSUME commits = <<>>, commits' = <<FirstCommit>>,
               clone' = [clone EXCEPT !.orphan = TRUE, !.fetched = 1]
        PROVE  Forward
    <3>1. clone'.fetched = 1
      BY <1>2, <2>2 DEF Checkout
    <3>. QED
      BY <1>3, <2>1, <2>2, <3>1 DEF GoesForward, Tip
  <2>3. ASSUME commits' = commits, clone' \in {clone, [clone EXCEPT !.orphan = TRUE]}
        PROVE  Forward
    <3>1. clone'.fetched = clone.fetched
      BY <1>2, <2>3 DEF Checkout
    <3>. QED
      BY <2>1, <2>3, <3>1, TipFacts DEF GoesForward, Tip
  <2>4. \/ /\ commits = <<>> /\ commits' = <<FirstCommit>>
           /\ clone' = [clone EXCEPT !.orphan = TRUE, !.fetched = 1]
        \/ commits' = commits /\ clone' \in {clone, [clone EXCEPT !.orphan = TRUE]}
    BY <1>8 DEF FoundDefaultBranch
  <2>. HIDE DEF Forward
  <2>. QED
    BY <2>2, <2>3, <2>4
<1>9. Forward
  BY <1>4, <1>5, <1>6, <1>7, <1>8
<1>. QED
  BY <1>1, <1>9, QuietCheckpoint

LEMMA RecordCheckpoint ==
  ASSUME TeamInv, TeamInv', CheckpointInv, Dated', Record \/ Recover
  PROVE  CheckpointInv'
<1>r. Running
  BY RunningFacts DEF Record, Recover
<1>1. UNCHANGED <<local, checkpoint, clone, commits, sync>>
  BY DEF Record, Recover, remote
<1>2. \E s \in {"proposed", "sync_failed"} : \E r : proposals' = [proposals EXCEPT ![pub.mem] = Attempted(s, r)]
  BY Zenon DEF Record, Recover
<1>3. proposals \in [Memories -> Proposal] /\ pub.mem \in Memories
  BY <1>r DEF TeamInv, TypeOK, Running
<1>4. \A s \in {"proposed", "sync_failed"} : \A r : Attempted(s, r).state # "none"
  BY DEF Attempted
<1>5. /\ proposals'[pub.mem].state # "none"
      /\ \A n \in Memories \ {pub.mem} : local'[n] = local[n] /\ proposals'[n] = proposals[n]
  BY <1>1, <1>2, <1>3, <1>4
<1>. QED
  BY <1>1, <1>3, <1>5, HereCheckpoint

\* A memory that is taken out of use has a proposal, or no commit says what it
\* says: it was not right of any commit by its content.
LEMMA StageCheckpoint ==
  ASSUME IInv, TeamInv, TeamInv', UnsafeHere, CheckpointInv, Dated', Stage
  PROVE  CheckpointInv'
<1>r. Running /\ pub.pc = "stage" /\ pub # NoPub
  BY RunningFacts DEF Stage, NoPub
<1>1. /\ UNCHANGED <<proposals, checkpoint, clone, commits, sync>>
      /\ local' = [local EXCEPT ![pub.mem] = [local[pub.mem] EXCEPT !.status = "superseded"]]
  BY DEF Stage, remote
<1>2. /\ local \in [Memories -> LocalMemory] /\ pub.mem \in Memories
      /\ local[pub.mem] # NoMemory /\ local[pub.mem].origin = "local"
      /\ proposals[pub.mem].state # "none" \/ local[pub.mem].ver \in unsafe
  BY <1>r DEF TeamInv, TypeOK, Saved, Running, IInv, SavedFirst, PublishedFirst
<1>3. /\ [local[pub.mem] EXCEPT !.status = "superseded"].origin = "local"
      /\ [local[pub.mem] EXCEPT !.status = "superseded"].status = "superseded"
  BY <1>2, LocalRetires DEF LocalMemory
<1>4. /\ local'[pub.mem].origin = "local" /\ local'[pub.mem].status = "superseded"
      /\ \A n \in Memories \ {pub.mem} : local'[n] = local[n] /\ proposals'[n] = proposals[n]
  BY <1>1, <1>2, <1>3
<1>5. CASE proposals[pub.mem].state # "none"
  BY <1>1, <1>2, <1>4, <1>5, HereCheckpoint
<1>6. CASE proposals[pub.mem].state = "none"
  <2>1. local[pub.mem].ver \in unsafe
    BY <1>2, <1>6
  <2>2. ASSUME NEW n \in Memories, NEW i \in 1..Tip, Right(local[n], proposals[n], n, commits[i])
        PROVE  Right(local'[n], proposals'[n], n, commits[i])
    <3>1. CASE n # pub.mem
      BY <1>4, <2>2, <3>1
    <3>2. CASE n = pub.mem
      <4>1. ValidMemory(commits[i], n) => local[n].ver # commits[i].file[n]
        BY <2>1, <3>2 DEF UnsafeHere, ValidMemory
      <4>2. n \notin Declared(commits[i])
        BY <1>6, <2>2, <3>2, <4>1 DEF Right
      <4>. QED
        BY <1>4, <3>2, <4>2 DEF Right
    <3>. QED
      BY <3>1, <3>2
  <2>3. GoesForward /\ StaysRight
    BY <1>1, <2>2, TipFacts DEF GoesForward, StaysRight, Tip
  <2>. QED
    BY <1>1, <2>3, CheckpointStays, RefreshStays DEF CheckpointInv
<1>. QED
  BY <1>5, <1>6

\* Refreshes.
LEMMA RefetchForward ==
  ASSUME TeamInv, Refetch
  PROVE  /\ GoesForward /\ StaysRight /\ clone'.fetched = Tip /\ Tip \in 1..Tip
         /\ UNCHANGED <<local, proposals, checkpoint, commits>> /\ sync = NoSync
<1>1. /\ UNCHANGED <<local, proposals, checkpoint, commits>> /\ commits # <<>> /\ sync.pc = "idle"
      /\ clone' = [clone EXCEPT !.fetched = Tip]
  BY DEF Refetch, Idle, remote
<1>2. clone \in Checkout /\ Tip \in 0..MaxCommits /\ sync \in Refresh \cup {NoSync}
  BY TipFacts DEF TeamInv, TypeOK, Checkout, Tip
<1>3. clone'.fetched = Tip
  BY <1>1, <1>2, CheckoutChanges
<1>4. Tip \in 1..Tip
  BY <1>1, TipFacts DEF Tip
<1>5. sync = NoSync
  BY <1>1, <1>2 DEF Refresh
<1>. QED
  BY <1>1, <1>3, <1>4, <1>5, TipFacts DEF GoesForward, StaysRight, Tip

LEMMA ReviewsCheckpoint ==
  ASSUME TeamInv, TeamInv', CheckpointInv, Dated', RefreshReviews
  PROVE  CheckpointInv'
<1>1. CheckpointFits'
  BY RefetchForward, CheckpointStays DEF RefreshReviews
<1>2. sync'.pc = "inspect" /\ sync'.save = FALSE
  BY DEF RefreshReviews
<1>. QED
  BY <1>1, <1>2 DEF CheckpointInv, RefreshFits

\* A whole snapshot is of a commit that declares only what can be imported; what
\* it does not list is as the checkpoint left it.
LEMMA SnapshotCheckpoint ==
  ASSUME TeamInv, TeamInv', CheckpointInv, Dated', RefreshSnapshot
  PROVE  CheckpointInv'
<1>1. /\ GoesForward /\ StaysRight /\ clone'.fetched = Tip /\ Tip \in 1..Tip
      /\ UNCHANGED <<local, proposals, checkpoint, commits>> /\ sync = NoSync
  BY RefetchForward DEF RefreshSnapshot
<1>2. CheckpointFits'
  BY <1>1, CheckpointStays
<1>. DEFINE c == commits[Tip]
            old == commits[checkpoint]
            changed == checkpoint = 0 \/ ManifestChanged(old, c)
            known == Declared(c) \ DuplicateManifestIds(c)
<1>3. CASE sync' = sync
  BY <1>1, <1>2, <1>3 DEF CheckpointInv, RefreshFits, NoSync
<1>4. ASSUME NEW full \in {TRUE, changed}, NEW read, NEW seen,
             read = IF full THEN known ELSE known \cap ChangedMemories(old, c),
             seen \subseteq {m \in read : ValidMemory(c, m)},
             sync' = [pc |-> "import", todo |-> seen, full |-> full,
                      whole |-> DuplicateManifestIds(c) = {} /\ seen = read,
                      listed |-> Listed, imported |-> {}, removed |-> {}, save |-> TRUE]
      PROVE  CheckpointInv'
  <2>1. /\ sync'.pc = "import" /\ sync'.todo = seen /\ sync'.full = full
        /\ sync'.whole = (DuplicateManifestIds(c) = {} /\ seen = read)
    BY <1>4
  <2>2. ASSUME DuplicateManifestIds(c) = {}, seen = read
        PROVE  /\ Sound(c)
               /\ \A m \in Memories : m \in seen \/ (full /\ m \notin Declared(c)) \/ Fits(m, c)
    <3>1. known = Declared(c) /\ \A m \in read : ValidMemory(c, m)
      BY <1>4, <2>2
    <3>2. CASE full
      <4>1. read = Declared(c)
        BY <1>4, <3>1, <3>2
      <4>. QED
        BY <2>2, <3>1, <3>2, <4>1 DEF Sound
    <3>3. CASE ~full
      <4>1. checkpoint # 0 /\ old.at = c.at /\ old.decl = c.decl
        BY <1>4, <3>3 DEF ManifestChanged
      <4>2. Sound(old)
        BY <4>1 DEF CheckpointInv, CheckpointFits
      <4>3. read = Declared(c) \cap ChangedMemories(old, c)
        BY <1>4, <3>1, <3>3
      <4>4. Sound(c)
        BY <3>1, <4>1, <4>2, <4>3 DEF Sound, Declared, ValidMemory, ChangedMemories
      <4>5. commits'[checkpoint].at = commits'[clone'.fetched].at
        BY <1>1, <4>1
      <4>6. old.at = commits[clone.fetched].at
        BY <1>1, <4>1, <4>5, SameManifest
      <4>. HIDE DEF c, old
      <4>7. \A m \in Memories : Fits(m, old)
        BY <4>1, <4>6 DEF CheckpointInv, CheckpointFits, old
      <4>8. \A m \in Memories : Right(local[m], proposals[m], m, c)
        BY <4>1, <4>2, <4>4, <4>7, RightBoth DEF Sound, Fits
      <4>. QED
        BY <4>4, <4>8 DEF Fits
    <3>. QED
      BY <3>2, <3>3
  <2>3. /\ commits'[clone'.fetched] = c
        /\ \A m \in Memories : local'[m] = local[m] /\ proposals'[m] = proposals[m]
    BY <1>1
  <2>. HIDE DEF c
  <2>. QED
    BY <1>2, <2>1, <2>2, <2>3 DEF CheckpointInv, RefreshFits, Fits
<1>. HIDE DEF c, old
<1>5. \/ sync' = sync
      \/ \E full \in {TRUE, changed} :
           LET read == IF full THEN known ELSE known \cap ChangedMemories(old, c)
               valid == {m \in read : ValidMemory(c, m)}
           IN \E seen \in {valid} \cup {valid \ {m} : m \in valid} :
                sync' = [pc |-> "import", todo |-> seen, full |-> full,
                         whole |-> DuplicateManifestIds(c) = {} /\ seen = read,
                         listed |-> Listed, imported |-> {}, removed |-> {}, save |-> TRUE]
  BY Zenon DEF RefreshSnapshot, c, old
<1>. HIDE DEF changed, known
<1>6. ASSUME NEW full \in {TRUE, changed}
      PROVE  LET read == IF full THEN known ELSE known \cap ChangedMemories(old, c)
                 valid == {m \in read : ValidMemory(c, m)}
             IN  \A seen \in {valid} \cup {valid \ {m} : m \in valid} :
                   sync' = [pc |-> "import", todo |-> seen, full |-> full,
                            whole |-> DuplicateManifestIds(c) = {} /\ seen = read,
                            listed |-> Listed, imported |-> {}, removed |-> {}, save |-> TRUE]
                   => CheckpointInv'
  <2>. DEFINE read == IF full THEN known ELSE known \cap ChangedMemories(old, c)
              valid == {m \in read : ValidMemory(c, m)}
  <2>1. \A seen \in {valid} \cup {valid \ {m} : m \in valid} : seen \subseteq valid
    OBVIOUS
  <2>2. ASSUME NEW seen \in {valid} \cup {valid \ {m} : m \in valid},
               sync' = [pc |-> "import", todo |-> seen, full |-> full,
                        whole |-> DuplicateManifestIds(c) = {} /\ seen = read,
                        listed |-> Listed, imported |-> {}, removed |-> {}, save |-> TRUE]
        PROVE  CheckpointInv'
    <3>1. read = IF full THEN known ELSE known \cap ChangedMemories(old, c)
      OBVIOUS
    <3>2. seen \subseteq {m \in read : ValidMemory(c, m)}
      BY <2>1
    <3>. HIDE DEF read
    <3>. QED
      BY <1>4, <2>2, <3>1, <3>2
  <2>. QED
    BY <2>2
<1>. QED
  BY <1>3, <1>5, <1>6, Zenon

\* A memory is imported as the commit has it.  If the checkpoint's manifest is as
\* old, it declares the same.
LEMMA ImportCheckpoint ==
  ASSUME IInv, TeamInv, TeamInv', CheckpointInv, Dated', NEW m \in Memories, ImportMemory(m)
  PROVE  CheckpointInv'
<1>. DEFINE c == commits[clone.fetched]
            old == commits[checkpoint]
<1>1. /\ sync.pc = "import" /\ m \in sync.todo /\ sync # NoSync
      /\ UNCHANGED <<clone, checkpoint, commits>>
  BY DEF ImportMemory, NoSync, remote
<1>2. /\ clone.fetched \in 1..Tip /\ ValidMemory(c, m) /\ sync \in Refresh
      /\ \A n \in sync.todo : ValidMemory(c, n)
  BY <1>1, TipFacts DEF TeamInv, Reads, TypeOK
<1>3. /\ local \in [Memories -> LocalMemory] /\ proposals \in [Memories -> Proposal]
  BY DEF TeamInv, TypeOK
<1>4. \A n \in Memories \ {m} : local'[n] = local[n] /\ proposals'[n] = proposals[n]
  BY <1>3 DEF ImportMemory
<1>5. Right(local'[m], proposals'[m], m, c)
  <2>. DEFINE v == c.file[m]
              same == local[m].ver = v /\ IsActive(m)
  <2>1. m \in Declared(c)
    BY <1>2 DEF ValidMemory, Declared, Versions, Absent
  <2>2. CASE local[m].origin = "local" /\ proposals' = [proposals EXCEPT ![m] = InConflict(@, v)]
             /\ local' = local
    <3>1. proposals'[m] = InConflict(proposals[m], v)
      BY <1>3, <2>2
    <3>2. v \in Versions
      BY <1>2 DEF ValidMemory
    <3>3. proposals'[m].state = "conflict"
      BY <1>3, <3>1, <3>2, ProposalInConflict
    <3>. QED
      BY <2>2, <3>3, RightHere
  <2>3. CASE same /\ local' = local
    BY <1>2, <2>1, <2>3 DEF Right, IsActive
  <2>4. CASE local' = [local EXCEPT ![m] = Local(v, "github")]
    <3>1. local'[m] = Local(v, "github")
      BY <1>3, <2>4
    <3>2. local'[m].status = "active" /\ local'[m].ver = v
      BY <3>1 DEF Local
    <3>. QED
      BY <1>2, <2>1, <3>2 DEF Right
  <2>. QED
    BY <2>2, <2>3, <2>4 DEF ImportMemory
<1>6. /\ sync'.pc = "import" /\ sync'.todo = sync.todo \ {m} /\ sync'.full = sync.full
      /\ sync'.whole = sync.whole
  <2>1. \/ sync' = [sync EXCEPT !.todo = @ \ {m}]
        \/ sync' = [sync EXCEPT !.todo = @ \ {m}, !.imported = @ \cup {m}]
    BY DEF ImportMemory
  <2>2. sync \in Refresh
    BY <1>2
  <2>. QED
    BY <1>1, <2>1, <2>2 DEF Refresh
<1>7. checkpoint # 0 /\ old.at = c.at => \A n \in Memories : Right(local'[n], proposals'[n], n, old)
  <2>. SUFFICES ASSUME checkpoint # 0, old.at = c.at, NEW n \in Memories
                PROVE  Right(local'[n], proposals'[n], n, old)
    OBVIOUS
  <2>0. checkpoint <= clone.fetched /\ checkpoint \in 1..Tip /\ Sound(old)
    BY TipFacts DEF CheckpointInv, CheckpointFits
  <2>1. Right(local[n], proposals[n], n, old)
    BY DEF CheckpointInv, CheckpointFits, Fits
  <2>2. CASE n # m
    BY <1>4, <2>1, <2>2
  <2>3. CASE n = m
    <3>1. c.decl[m] \in {old.decl[m], Twice}
      BY <1>2, <2>0 DEF CheckpointInv, Dated
    <3>2. c.decl[m] # Twice
      BY <1>2, Bounds DEF ValidMemory, Versions, Twice
    <3>3. m \in Declared(old) => ValidMemory(old, m)
      BY <2>0 DEF Sound
    <3>. HIDE DEF c, old
    <3>. QED
      BY <1>2, <1>5, <2>3, <3>1, <3>2, <3>3, RightBoth
  <2>. QED
    BY <2>2, <2>3
<1>8. CheckpointFits'
  BY <1>1, <1>7 DEF CheckpointInv, CheckpointFits, Fits
<1>9. RefreshFits'
  <2>. SUFFICES ASSUME sync.whole
                PROVE  /\ Sound(c)
                       /\ \A n \in Memories : \/ n \in sync.todo \ {m}
                                              \/ sync.full /\ n \notin Declared(c)
                                              \/ Right(local'[n], proposals'[n], n, c)
    BY <1>1, <1>6 DEF RefreshFits, Fits
  <2>1. /\ Sound(c)
        /\ \A n \in Memories : \/ n \in sync.todo
                               \/ sync.full /\ n \notin Declared(c)
                               \/ Right(local[n], proposals[n], n, c)
    BY <1>1 DEF CheckpointInv, RefreshFits, Fits
  <2>. HIDE DEF c
  <2>. QED
    BY <1>4, <1>5, <2>1
<1>. QED
  BY <1>8, <1>9 DEF CheckpointInv

\* What is dropped the commit does not declare, nor does the checkpoint if its
\* manifest is as old.
LEMMA DropCheckpoint ==
  ASSUME TeamInv, TeamInv', CheckpointInv, Dated', NEW m \in Memories, DropUndeclared(m)
  PROVE  CheckpointInv'
<1>. DEFINE c == commits[clone.fetched]
            old == commits[checkpoint]
<1>1. /\ sync.pc = "drop" /\ UNCHANGED <<clone, checkpoint, commits, proposals>>
      /\ local' = [local EXCEPT ![m] = [local[m] EXCEPT !.status = "superseded"]]
      /\ IsActive(m) /\ m \notin Declared(c)
      /\ sync' = [sync EXCEPT !.removed = @ \cup {m}]
  BY DEF DropUndeclared, Undeclared, remote
<1>2. /\ local \in [Memories -> LocalMemory] /\ sync \in Refresh
  BY <1>1 DEF TeamInv, TypeOK, NoSync
<1>3. /\ local'[m].status = "superseded" /\ \A n \in Memories \ {m} : local'[n] = local[n]
  <2>1. local[m] # NoMemory
    BY <1>1 DEF IsActive, NoMemory
  <2>2. [local[m] EXCEPT !.status = "superseded"].status = "superseded"
    BY <1>2, <2>1, LocalRetires
  <2>. QED
    BY <1>1, <1>2, <2>2
<1>4. /\ clone.fetched \in 1..Tip /\ Sound(c)
      /\ \A n \in Declared(c) : Right(local[n], proposals[n], n, c)
  BY <1>1, TipFacts DEF CheckpointInv, RefreshFits, Fits
<1>5. sync'.pc = "drop"
  <2>1. sync \in Refresh
    BY <1>2
  <2>. QED
    BY <1>1, <2>1 DEF Refresh
<1>6. checkpoint # 0 /\ old.at = c.at => \A n \in Memories : Right(local'[n], proposals'[n], n, old)
  <2>. SUFFICES ASSUME checkpoint # 0, old.at = c.at, NEW n \in Memories
                PROVE  Right(local'[n], proposals'[n], n, old)
    OBVIOUS
  <2>0. checkpoint <= clone.fetched /\ checkpoint \in 1..Tip /\ Sound(old)
    BY TipFacts DEF CheckpointInv, CheckpointFits
  <2>1. Right(local[n], proposals[n], n, old)
    BY DEF CheckpointInv, CheckpointFits, Fits
  <2>2. CASE n # m
    BY <1>1, <1>3, <2>1, <2>2
  <2>3. CASE n = m
    <3>1. c.decl[m] \in {old.decl[m], Twice}
      BY <1>4, <2>0 DEF CheckpointInv, Dated
    <3>2. c.decl[m] # Twice
      BY <1>4, SoundOnce
    <3>3. m \notin Declared(old)
      BY <1>1, <3>1, <3>2 DEF Declared
    <3>. QED
      BY <1>3, <2>3, <3>3 DEF Right
  <2>. QED
    BY <2>2, <2>3
<1>7. CheckpointFits'
  BY <1>1, <1>6 DEF CheckpointInv, CheckpointFits, Fits
<1>8. \A n \in Declared(c) : Right(local'[n], proposals'[n], n, c)
  BY <1>1, <1>3, <1>4 DEF Declared
<1>9. RefreshFits'
  BY <1>1, <1>4, <1>5, <1>8 DEF RefreshFits, Fits
<1>. QED
  BY <1>7, <1>9 DEF CheckpointInv

\* A whole import is followed by the reviews, and then becomes the checkpoint.
LEMMA GoOnCheckpoint ==
  ASSUME TeamInv, TeamInv', CheckpointInv, Dated', Imported \/ Dropped \/ SaveCheckpoint
  PROVE  CheckpointInv'
<1>. DEFINE c == commits[clone.fetched]
<1>1. /\ UNCHANGED <<clone, commits, local, proposals>> /\ sync.pc # "idle" /\ sync \in Refresh
  BY DEF Imported, Dropped, SaveCheckpoint, durable, remote, TeamInv, TypeOK, NoSync
<1>2. GoesForward /\ StaysRight
  BY <1>1, TipFacts DEF GoesForward, StaysRight, Tip
<1>3. /\ [sync EXCEPT !.pc = "drop"].pc = "drop"
      /\ [sync EXCEPT !.pc = "inspect", !.todo = sync.listed].pc = "inspect"
  BY <1>1 DEF Refresh
<1>4. CASE Imported
  <2>1. CheckpointFits'
    BY <1>2, <1>4, CheckpointStays DEF Imported, durable
  <2>2. clone.fetched # 0 /\ sync.pc = "import" /\ sync.todo = {}
    BY <1>4 DEF Imported, TeamInv, Reads
  <2>3. sync.whole => /\ Sound(c)
                      /\ \A m \in Memories : (sync.full /\ m \notin Declared(c)) \/ Fits(m, c)
    BY <2>2 DEF CheckpointInv, RefreshFits
  <2>4. \/ sync' = NoSync
        \/ sync.whole /\ sync.full /\ sync'.pc = "drop"
        \/ sync.whole /\ ~sync.full /\ sync'.pc = "inspect"
    BY <1>3, <1>4 DEF Imported
  <2>5. c' = c /\ \A m \in Memories : local'[m] = local[m] /\ proposals'[m] = proposals[m]
    BY <1>1
  <2>6. clone'.fetched = clone.fetched
    BY <1>1
  <2>. HIDE DEF c
  <2>7. RefreshFits'
    <3>1. CASE sync' = NoSync
      BY <3>1 DEF RefreshFits, NoSync
    <3>2. CASE sync.whole /\ sync.full /\ sync'.pc = "drop"
      BY <2>2, <2>3, <2>5, <2>6, <3>2 DEF RefreshFits, Fits, c, Declared
    <3>3. CASE sync.whole /\ ~sync.full /\ sync'.pc = "inspect"
      BY <2>2, <2>3, <2>5, <2>6, <3>3 DEF RefreshFits, Fits, c
    <3>. QED
      BY <2>4, <3>1, <3>2, <3>3
  <2>. QED
    BY <2>1, <2>7 DEF CheckpointInv
<1>5. CASE Dropped
  <2>1. CheckpointFits'
    BY <1>2, <1>5, CheckpointStays DEF Dropped, durable
  <2>2. /\ sync.pc = "drop" /\ sync'.pc = "inspect" /\ Undeclared = {}
    BY <1>3, <1>5 DEF Dropped
  <2>3. /\ clone.fetched # 0 /\ Sound(c)
        /\ \A m \in Declared(c) : Fits(m, c)
    BY <2>2 DEF CheckpointInv, RefreshFits
  <2>4. ASSUME NEW m \in Memories PROVE Fits(m, c)
    <3>1. CASE m \in Declared(c)
      BY <2>3, <3>1
    <3>2. CASE m \notin Declared(c)
      <4>1. ~IsActive(m) \/ local[m].origin # "github"
        BY <2>2, <3>2 DEF Undeclared
      <4>2. local[m] \in LocalMemory
        BY DEF TeamInv, TypeOK
      <4>3. IsActive(m) => local[m].origin = "local"
        BY <4>1, <4>2 DEF LocalMemory, NoMemory, IsActive
      <4>. QED
        BY <3>2, <4>3 DEF Fits, Right, IsActive
    <3>. QED
      BY <3>1, <3>2
  <2>5. RefreshFits'
    BY <1>1, <2>2, <2>3, <2>4 DEF RefreshFits, Fits
  <2>. QED
    BY <2>1, <2>5 DEF CheckpointInv
<1>6. CASE SaveCheckpoint
  <2>1. sync' = NoSync /\ sync.pc = "inspect"
        /\ checkpoint' = IF sync.save THEN clone.fetched ELSE checkpoint
    BY <1>6 DEF SaveCheckpoint
  <2>2. RefreshFits'
    BY <2>1 DEF RefreshFits, NoSync
  <2>3. CASE ~sync.save
    BY <1>2, <2>1, <2>2, <2>3, CheckpointStays DEF CheckpointInv
  <2>4. CASE sync.save
    <3>1. Sound(c) /\ \A m \in Memories : Fits(m, c)
      BY <2>1, <2>4 DEF CheckpointInv, RefreshFits
    <3>2. checkpoint' = clone.fetched /\ clone'.fetched = clone.fetched /\ clone.fetched \in Nat
      BY <1>1, <2>1, <2>4, TipFacts
    <3>3. CheckpointFits'
      BY <1>1, <3>1, <3>2 DEF CheckpointFits, Fits
    <3>. QED
      BY <2>2, <3>3 DEF CheckpointInv
  <2>. QED
    BY <2>3, <2>4
<1>. QED
  BY <1>4, <1>5, <1>6

LEMMA InspectCheckpoint ==
  ASSUME TeamInv, TeamInv', CheckpointInv, Dated', NEW m \in Memories, InspectReview(m)
  PROVE  CheckpointInv'
<1>1. /\ UNCHANGED <<clone, checkpoint, commits, local>> /\ sync.pc = "inspect"
      /\ sync' = [sync EXCEPT !.todo = @ \ {m}] /\ sync \in Refresh
  BY DEF InspectReview, remote, TeamInv, TypeOK, NoSync
<1>2. sync'.pc = "inspect" /\ sync'.save = sync.save
  <2>1. sync \in Refresh
    BY <1>1
  <2>. QED
    BY <1>1, <2>1 DEF Refresh
<1>3. proposals[m].state # "none"
  <2>1. proposals[m].review # 0 /\ proposals[m] \in Proposal
    BY <1>1 DEF InspectReview, TeamInv, TypeOK, Reads, NoSync
  <2>. QED
    BY <2>1, ProposalFields
<1>4. /\ proposals'[m].state # "none"
      /\ \A n \in Memories \ {m} : proposals'[n] = proposals[n]
  <2>1. proposals \in [Memories -> Proposal]
    BY DEF TeamInv, TypeOK
  <2>2. \/ proposals' = proposals
        \/ \E s \in {proposals[m].state, "active", "rejected"} :
             proposals' = [proposals EXCEPT ![m] = [proposals[m] EXCEPT !.state = s]]
    BY <2>1 DEF InspectReview, Reviewed
  <2>3. proposals[m] \in [state : {proposals[m].state}, op : {"upsert", "remove"}, ver : Versions,
                          removals : SUBSET Memories, review : 0..MaxReviews, due : BOOLEAN]
    BY <1>3, <2>1 DEF Proposal, NoProposal
  <2>4. \A s \in {proposals[m].state, "active", "rejected"} :
          [proposals[m] EXCEPT !.state = s].state # "none"
    BY <1>3, <2>3
  <2>. QED
    BY <1>3, <2>1, <2>2, <2>4
<1>5. GoesForward
  BY <1>1, TipFacts DEF GoesForward, Tip
<1>6. ASSUME NEW n \in Memories, NEW d, Right(local[n], proposals[n], n, d)
      PROVE  Right(local'[n], proposals'[n], n, d)
  BY <1>1, <1>3, <1>4, <1>6, RightKept
<1>7. StaysRight
  BY <1>6 DEF StaysRight
<1>8. CheckpointFits'
  BY <1>1, <1>5, <1>7, CheckpointStays
<1>9. RefreshFits'
  <2>. DEFINE c == commits[clone.fetched]
  <2>1. sync.save => clone.fetched # 0 /\ Sound(c) /\ \A n \in Memories : Fits(n, c)
    BY <1>1 DEF CheckpointInv, RefreshFits
  <2>2. sync.save => \A n \in Memories : Right(local'[n], proposals'[n], n, c)
    BY <1>6, <2>1 DEF Fits
  <2>. QED
    BY <1>1, <1>2, <2>1, <2>2 DEF RefreshFits, Fits
<1>. QED
  BY <1>8, <1>9 DEF CheckpointInv

LEMMA RepositoryCheckpoint ==
  ASSUME TeamInv, TeamInv', CheckpointInv, Dated', Repository \/ UNCHANGED vars
  PROVE  CheckpointInv'
<1>1. UNCHANGED <<local, proposals, checkpoint, clone, sync>>
  BY DEF Repository, TeammateCommits, MergeReview, CloseReview, vars, durable
<1>2. commits' = commits \/ \E d \in Commit : commits' = Append(commits, d)
  <2>1. CASE TeammateCommits
    BY <2>1, Teammate
  <2>2. ASSUME NEW r, MergeReview(r) PROVE \E d \in Commit : commits' = Append(commits, d)
    BY <2>2, MergeFollows
  <2>3. ASSUME NEW r, CloseReview(r) PROVE commits' = commits
    BY <2>3 DEF CloseReview
  <2>. QED
    BY <2>1, <2>2, <2>3 DEF Repository, vars, remote
<1>3. GoesForward
  <2>1. commits \in Seq(Commit) /\ Tip = Len(commits) /\ Tip' = Len(commits')
    BY DEF TeamInv, TypeOK, Tip
  <2>2. Tip' >= Tip /\ Tip \in Nat /\ Tip' \in Nat /\ \A i \in 1..Tip : commits'[i] = commits[i]
    BY <1>2, <2>1
  <2>. QED
    BY <1>1, <2>2, TipFacts DEF GoesForward
<1>. QED
  BY <1>1, <1>3, QuietCheckpoint

LEMMA NextCheckpoint ==
  ASSUME IInv, TeamInv, UnsafeHere, CheckpointInv, ~Reverts, [Next]_vars
  PROVE  CheckpointInv'
<1>1. TeamInv' /\ Dated'
  BY NextTeam, NextDated DEF CheckpointInv
<1>2. CASE Repository \/ UNCHANGED vars
  BY <1>1, <1>2, RepositoryCheckpoint
<1>3. CASE Configure \/ Crash
  BY <1>1, <1>3, PublicationCheckpoint
<1>4. CASE Begin \/ \E m \in Memories : SaveLocally(m) \/ BackoffElapses(m)
  BY <1>1, <1>4, SaveCheckpointKept, BeginCheckpoint, BackoffCheckpoint DEF Begin
<1>5. CASE Publishing
  BY <1>1, <1>5, PublicationCheckpoint, RecordCheckpoint, StageCheckpoint DEF Publishing
<1>6. CASE RefreshReviews \/ RefreshSnapshot
  BY <1>1, <1>6, ReviewsCheckpoint, SnapshotCheckpoint
<1>7. CASE Refreshing
  BY <1>1, <1>7, ImportCheckpoint, DropCheckpoint, InspectCheckpoint, GoOnCheckpoint DEF Refreshing
<1>. QED
  BY <1>2, <1>3, <1>4, <1>5, <1>6, <1>7 DEF Next

\* Where the default branch is never reverted, a checkpoint that is the last
\* fetched commit has been imported as a whole.
THEOREM CheckpointAlwaysAgrees == ~Reverts => (Spec => []CheckpointAgrees)
<1>. SUFFICES ASSUME ~Reverts PROVE Spec => []CheckpointAgrees
  OBVIOUS
<1>1. CheckpointInv => CheckpointAgrees
  BY DEF CheckpointInv, CheckpointFits, Fits, Right, CheckpointAgrees, Agrees, IsActive
<1>2. IInv /\ TeamInv /\ UnsafeHere /\ CheckpointInv /\ [Next]_vars => CheckpointInv'
  BY NextCheckpoint
<1>3. Spec => []UnsafeHere
  BY InitUnsafe, NextUnsafe, TeamInvariant, HistoryInvariant, PTL DEF Spec
<1>. QED
  BY <1>1, <1>2, <1>3, InitIInv, NextIInv, TeamInvariant, InitCheckpoint, PTL DEF Spec
=============================================================================
