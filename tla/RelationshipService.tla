------------------------ MODULE RelationshipService ------------------------
(***************************************************************************)
(* The relationship graph of a project: links derived from recorded        *)
(* duplicates and conflicts, links inferred from all that is known, and    *)
(* the links a user makes and removes, which override both.                *)
(*                                                                         *)
(* The service's operations run one after the other (serialize), but not   *)
(* atomically, and nothing keeps the pipeline, the approval and the        *)
(* supersession of memories out between their reads and their writes.      *)
(* Those are the world's steps here: what they leave in the queue, the     *)
(* memories and the audit log, each as one step (MemoryLifecycle has       *)
(* theirs).  JsonRelationshipStore replaces its file by a rename, so a     *)
(* batch of links is written as a whole or not at all.                     *)
(*                                                                         *)
(* Left out: timestamps, rationales and confidences of stored links, so    *)
(* that rewriting an unchanged link changes nothing; endpoints of kind     *)
(* audit_event and diagnostic, whose existence is looked up in the same    *)
(* way, and tag and session, which need none.                              *)
(***************************************************************************)
EXTENDS RelationshipInference

CONSTANTS
  Callers,        \* concurrent callers of one service
  Initial,        \* the memories the project has at the start
  Replacements,   \* ids a user may name as a superseded memory's replacement
  Links,          \* links a user may make
  MaxDecisions,   \* bound: links made and removed by the user
  MaxChanges,     \* bound: changes of the world
  MaxFailures     \* bound: operations that are cut short

ASSUME ServiceAssumption ==
  /\ Initial \subseteq Ids
  /\ Replacements \subseteq Ids
  /\ Links \subseteq Keys
  /\ \A k \in Links : k.source # k.target
  /\ MaxDecisions \in Nat
  /\ MaxChanges \in Nat
  /\ MaxFailures \in Nat

VARIABLES
  world,      \* queue, memories and audit log
  unseen,     \* ids no extractor has produced yet
  evidence,   \* the stored links, removed ones included
  events,     \* links whose making or removal the audit log reports
  ops,        \* the operation each caller is in
  decisions,
  changes,
  failures

vars == <<world, unseen, evidence, events, ops, decisions, changes, failures>>

Origins == {"manual", "derived", "inferred"}
Records == [key : Keys, origin : Origins, active : BOOLEAN]
Record(k, origin, active) == [key |-> k, origin |-> origin, active |-> active]

Of(origin, E) == {r \in E : r.origin = origin}
ActiveKeys(origin, E) == {r.key : r \in {x \in Of(origin, E) : x.active}}
ManualKeys(E) == {r.key : r \in Of("manual", E)}

\* saveMany: the id of a record is made of its origin and key.
SaveMany(E, batch) ==
  {r \in E : \A b \in batch : ~(b.key = r.key /\ b.origin = r.origin)} \cup batch

\* Faulty variant: only active manual links override.
ShownUnlessReplaced(E) ==
  ActiveKeys("manual", E) \cup ActiveKeys("derived", E) \cup ActiveKeys("inferred", E)

\* What list returns.
Shown(E) ==
  ActiveKeys("manual", E)
    \cup ((ActiveKeys("derived", E) \cup ActiveKeys("inferred", E)) \ ManualKeys(E))

Events == [key : Keys, active : BOOLEAN, overridden : SUBSET (Origins \ {"manual"})]

\* What a caller is doing, and what it has read: the queue, the audit log and
\* the evidence make up a snapshot, memories are looked up when needed.
Idle == [at |-> "idle"]
Ops ==
  {Idle}
  \cup [at : {"queue", "audit"}, inferring : BOOLEAN, world : World]
  \cup [at : {"derive", "infer"}, inferring : BOOLEAN, world : World, evidence : SUBSET Records]
  \cup [at : {"save", "report"}, key : Keys, active : BOOLEAN, overridden : SUBSET (Origins \ {"manual"})]

Init ==
  /\ world =
       [ queue |-> {},
         conflicts |-> [i \in Ids |-> {}],
         memories |-> [i \in Ids |-> IF i \in Initial THEN "active" ELSE "none"],
         dups |-> {},
         supers |-> {} ]
  /\ unseen = Ids \ Initial
  /\ evidence = {}
  /\ events = {}
  /\ ops = [c \in Callers |-> Idle]
  /\ decisions = 0
  /\ changes = 0
  /\ failures = 0

----------------------------------------------------------------------------
(* The world *)

\* The memories M superseded, with what is recorded of their replacement.
Superseding(w, M, R) ==
  [w EXCEPT !.memories = [i \in Ids |-> IF i \in M THEN "superseded" ELSE @[i]],
            !.supers = @ \cup (M \X R)]

\* The pipeline queues a candidate with the conflicts it found,
QueueCandidate(i, conflicts) ==
  /\ world' = [world EXCEPT !.queue = @ \cup {i}, !.conflicts[i] = conflicts]
  /\ unseen' = unseen \ {i}

\* saves one after it superseded those it clearly contradicts,
SaveCandidate(i, conflicts) ==
  /\ world' = [Superseding(world, conflicts, {Candidate(i)})
                 EXCEPT !.memories[i] = "active"]
  /\ unseen' = unseen \ {i}

\* and rejects one that is a duplicate.
RejectDuplicate(i, r) ==
  /\ world' = [world EXCEPT !.dups = @ \cup {<<i, r>>}]
  /\ unseen' = unseen \ {i}

Leaving(i) == [world EXCEPT !.queue = @ \ {i}, !.conflicts[i] = {}]

\* The candidate becomes a memory, or memory m stands in for it; the conflicts
\* that are active are superseded.
Approve(i, m) ==
  /\ world' = [Superseding(Leaving(i), (world.conflicts[i] \cap Active(world)) \ {m}, {Memory(m)})
                 EXCEPT !.memories[m] = "active"]
  /\ UNCHANGED unseen

Reject(i) ==
  /\ world' = Leaving(i)
  /\ UNCHANGED unseen

\* supersedeMemory records whatever replacement it is given, or none.
SupersedeMemory(i, R) ==
  /\ world' = Superseding(world, {i}, R)
  /\ UNCHANGED unseen

WorldStep ==
  /\ changes < MaxChanges
  /\ changes' = changes + 1
  /\ \/ \E i \in unseen :
          \/ \E S \in SUBSET Active(world) : QueueCandidate(i, S) \/ SaveCandidate(i, S)
          \/ \E r \in {x \in Entities(world) : x.kind = "memory" => x.id \in Active(world)} :
               RejectDuplicate(i, r)
     \/ \E i \in world.queue :
          \/ \E m \in Active(world) \cup {i} : Approve(i, m)
          \/ Reject(i)
     \/ \E i \in Active(world) :
          \E R \in {{}} \cup {{Memory(j)} : j \in Replacements} : SupersedeMemory(i, R)
  /\ UNCHANGED <<evidence, events, ops, decisions, failures>>

----------------------------------------------------------------------------
(* Reads *)

DerivedDrafts(w) ==
  (UNION {{Link(Candidate(i), "conflicts_with", Memory(j)) : j \in w.conflicts[i]} :
             i \in w.queue})
  \cup {Link(Candidate(d[1]), "duplicate_of", d[2]) : d \in w.dups}

\* Faulty variant: a candidate that was rejected is not known.
EligibleQueued(w) ==
  w.queue \cup {d[2].id : d \in {x \in w.dups : x[2].kind = "candidate"}}

\* A candidate is known while it is queued, and for good through the audit of
\* duplicates; a memory is looked up.
EligibleCandidates(w) ==
  w.queue \cup {d[1] : d \in w.dups}
            \cup {d[2].id : d \in {x \in w.dups : x[2].kind = "candidate"}}

Eligible(w, r) ==
  IF r.kind = "candidate" THEN r.id \in EligibleCandidates(w) ELSE r.id \in Stored(world)

\* replaceSystemRelationshipsUnlocked: nothing is written when one draft is
\* invalid, and a link that is no longer wanted is marked removed.
Valid(drafts) == \A k \in drafts : k.source # k.target

Replacement(origin, drafts, w, E) ==
  LET wanted == {k \in drafts : \A r \in Ends(k) : Eligible(w, r)}
  IN  {Record(k, origin, TRUE) : k \in wanted}
        \cup {Record(r.key, origin, FALSE) : r \in {x \in Of(origin, E) : x.key \notin wanted}}

----------------------------------------------------------------------------
(* Operations *)

\* Faulty variant: operations are not serialized.
FreeAnyway(c) == ops[c] = Idle

\* serialize
Free(c) == \A d \in Callers : ops[d] = Idle

Move(c, op) == ops' = [ops EXCEPT ![c] = op]

\* syncDerived and syncInferred begin with a snapshot, whose reads end in any
\* order.
BeginSync(c, inferring) ==
  /\ Free(c)
  /\ \E first \in {"queue", "audit"} :
       Move(c, [at |-> first, inferring |-> inferring, world |-> world])
  /\ UNCHANGED <<world, unseen, evidence, events, decisions, changes, failures>>

\* at = "queue": the queue was read first, and the audit log is read now.
Snapshot(op) ==
  IF op.at = "queue"
    THEN [op.world EXCEPT !.dups = world.dups, !.supers = world.supers]
    ELSE [op.world EXCEPT !.queue = world.queue, !.conflicts = world.conflicts]

EndSnapshot(c) ==
  /\ ops[c].at \in {"queue", "audit"}
  /\ Move(c, [at |-> "derive", inferring |-> ops[c].inferring,
              world |-> Snapshot(ops[c]), evidence |-> evidence])
  /\ UNCHANGED <<world, unseen, evidence, events, decisions, changes, failures>>

WriteDerived(c) ==
  /\ ops[c].at = "derive"
  /\ LET w == ops[c].world
     IN  evidence' = SaveMany(evidence,
                       Replacement("derived", DerivedDrafts(w), w, ops[c].evidence))
  /\ Move(c, IF ops[c].inferring
               THEN [at |-> "infer", inferring |-> TRUE,
                     world |-> ops[c].world, evidence |-> ops[c].evidence]
               ELSE Idle)
  /\ UNCHANGED <<world, unseen, events, decisions, changes, failures>>

\* The memories are listed when the derived links are written, with what they
\* say of their own supersession (candidates write no supersededBy).
WithMemories(w) ==
  [w EXCEPT !.memories = world.memories,
            !.supers = @ \cup {s \in world.supers : s[2].kind = "memory"}]

\* Faulty variant: links that are derived already are inferred as well.
InferredDraftsToo(w) == Inferred(WithMemories(w))

InferredDrafts(w) == Inferred(WithMemories(w)) \ DerivedDrafts(w)

WriteInferred(c) ==
  /\ ops[c].at = "infer"
  /\ LET w == ops[c].world
         drafts == InferredDrafts(w)
     IN  evidence' =
           IF Valid(drafts)
             THEN SaveMany(evidence, Replacement("inferred", drafts, w, ops[c].evidence))
             ELSE evidence
  /\ Move(c, Idle)
  /\ UNCHANGED <<world, unseen, events, decisions, changes, failures>>
----------------------------------------------------------------------------
(* Decisions of the user *)

SystemOrigins(k) == {r.origin : r \in {x \in evidence : x.key = k /\ x.active}} \ {"manual"}

Decide(c, k, active) ==
  /\ Free(c)
  /\ decisions < MaxDecisions
  /\ Move(c, [at |-> "save", key |-> k, active |-> active, overridden |-> SystemOrigins(k)])
  /\ decisions' = decisions + 1
  /\ UNCHANGED <<world, unseen, evidence, events, changes, failures>>

\* Both endpoints must exist.
CreateManual(c, k) ==
  /\ \A r \in Ends(k) : Eligible(world, r)
  /\ Decide(c, k, TRUE)

\* What is removed is any stored link; the removal is a manual link itself.
RemoveLink(c, k) ==
  /\ \E r \in evidence : r.key = k
  /\ Decide(c, k, FALSE)

Reporting(op) ==
  [at |-> "report", key |-> op.key, active |-> op.active, overridden |-> op.overridden]

\* Faulty variant: a removal is not reported.
SaveUnreported(c) ==
  /\ ops[c].at = "save"
  /\ evidence' = SaveMany(evidence, {Record(ops[c].key, "manual", ops[c].active)})
  /\ Move(c, IF ops[c].active THEN Reporting(ops[c]) ELSE Idle)
  /\ UNCHANGED <<world, unseen, events, decisions, changes, failures>>

SaveDecision(c) ==
  /\ ops[c].at = "save"
  /\ evidence' = SaveMany(evidence, {Record(ops[c].key, "manual", ops[c].active)})
  /\ Move(c, Reporting(ops[c]))
  /\ UNCHANGED <<world, unseen, events, decisions, changes, failures>>

ReportDecision(c) ==
  /\ ops[c].at = "report"
  /\ events' = events \cup {[key |-> ops[c].key, active |-> ops[c].active,
                             overridden |-> ops[c].overridden]}
  /\ Move(c, Idle)
  /\ UNCHANGED <<world, unseen, evidence, decisions, changes, failures>>

\* A read or a write fails, or the process dies.
CutShort(c) ==
  /\ ops[c] # Idle
  /\ failures < MaxFailures
  /\ failures' = failures + 1
  /\ Move(c, Idle)
  /\ UNCHANGED <<world, unseen, evidence, events, decisions, changes>>

Next ==
  \/ WorldStep
  \/ \E c \in Callers :
       \/ \E inferring \in BOOLEAN : BeginSync(c, inferring)
       \/ EndSnapshot(c)
       \/ WriteDerived(c)
       \/ WriteInferred(c)
       \/ \E k \in Links : CreateManual(c, k)
       \/ \E k \in {r.key : r \in evidence} : RemoveLink(c, k)
       \/ SaveDecision(c)
       \/ ReportDecision(c)
       \/ CutShort(c)

Spec == Init /\ [][Next]_vars

----------------------------------------------------------------------------
(* Properties *)

\* The types of the state, and no link is stored twice or leads from an entity
\* to itself (systemRelationshipId, validateRelationship).
TypeOK ==
  /\ world \in World
  /\ unseen \subseteq Ids
  /\ evidence \subseteq Records
  /\ \A r, s \in evidence : r.key = s.key /\ r.origin = s.origin => r = s
  /\ \A r \in evidence : r.key.source # r.key.target
  /\ events \subseteq Events
  /\ \A c \in Callers : ops[c] \in Ops
  /\ decisions \in 0..MaxDecisions
  /\ changes \in 0..MaxChanges
  /\ failures \in 0..MaxFailures

\* "Each relationship key has a single owner" (RelationshipService.ts:198): no
\* link is active both as a derived and as an inferred one, whatever is synced
\* in which order while the stores change.
SingleOwner == ActiveKeys("derived", evidence) \cap ActiveKeys("inferred", evidence) = {}

\* Types, one record per link and origin, and one system owner of each link.
LinksOwned == TypeOK /\ SingleOwner

\* Only the user's own operation makes or changes a manual link, and while one
\* stands, no sync changes whether the link is shown (list): what was removed
\* does not resurface.
ManualDecides ==
  [][\A k \in ManualKeys(evidence) \cup ManualKeys(evidence') :
       \/ \E c \in Callers : ops[c].at = "save" /\ ops[c].key = k
       \/ /\ \A b \in BOOLEAN : Record(k, "manual", b) \in evidence
                                  <=> Record(k, "manual", b) \in evidence'
          /\ k \in Shown(evidence) <=> k \in Shown(evidence')]_vars

\* A manual decision that is not on its way, and was not cut short, is in the
\* audit log with the links it overrides (createManualUnlocked saves first and
\* reports then, and each failure leaves at most one decision unreported).
DecisionsReported ==
  LET Reported(r) ==
        \/ \E e \in events : e.key = r.key /\ e.active = r.active
        \/ \E c \in Callers : ops[c].at = "report" /\ ops[c].key = r.key
  IN  Cardinality({r \in Of("manual", evidence) : ~Reported(r)}) <= failures

\* The links whose ends exist, of the kinds the snapshot holds.
TrueDerived ==
  {k \in Keys :
     /\ k.source.kind = "candidate"
     /\ \/ /\ k.type = "conflicts_with" /\ k.target.kind = "memory"
           /\ k.source.id \in world.queue
           /\ k.target.id \in world.conflicts[k.source.id]
        \/ k.type = "duplicate_of" /\ <<k.source.id, k.target>> \in world.dups}

\* Whether the world is still the one caller c's operation has seen.
Undisturbed(c) ==
  /\ ops[c].world.queue = world.queue
  /\ ops[c].world.conflicts = world.conflicts
  /\ ops[c].world.dups = world.dups
  /\ ops[c].world.supers = world.supers

\* The links that stand under a cap are those no end of which has as many
\* better ones that stand.
CapKernel(All, rank, max, Chosen) ==
  Chosen = {k \in All :
    \A r \in Ends(k) : Cardinality({x \in Chosen : r \in Ends(x) /\ rank[x] < rank[k]}) < max}

\* What inferRelationships promises of the links it returns.
ProperlyInferred(X) ==
  LET E == Considered(world)
      metadata == {k \in X : k.type # "related_to"}
      all == Metadata(world, E)
      derivedToo == all \cap TrueDerived
      M == Capped(all, KeyRank, MaxMetadataLinks)
  IN  /\ metadata = M \ derivedToo
      /\ CapKernel(all, KeyRank, MaxMetadataLinks, M)
      /\ CapKernel(Related(E, {Ends(k) : k \in all}), RelatedRank, MaxLinks, X \ metadata)

\* A sync that nothing disturbed leaves exactly the derived links the stores
\* speak of: no stale one, none missing, none besides.
DerivedExact ==
  [][\A c \in Callers :
       ops[c].at = "derive" /\ evidence' # evidence /\ Undisturbed(c)
         => ActiveKeys("derived", evidence') = TrueDerived]_vars

\* And exactly the inferred ones that the caps leave.
InferredExact ==
  [][\A c \in Callers :
       ops[c].at = "infer" /\ ops'[c] = Idle /\ failures' = failures /\ Undisturbed(c)
         => ProperlyInferred(ActiveKeys("inferred", evidence'))]_vars

\* "Duplicate, conflict, and supersession metadata ... suppress redundant
\* related_to links" (docs/design/knowledge-graph.md:117-118): no pair is shown
\* as related and with a recorded link at once.
NoRedundant ==
  \A k, l \in ActiveKeys("inferred", evidence) :
    k.type = "related_to" /\ l.type # "related_to" => Ends(k) # Ends(l)

\* No entity has more links than the caps allow, at any time.
DegreesBounded ==
  LET links == ActiveKeys("inferred", evidence)
  IN  \A i \in Ids : \A r \in {Candidate(i), Memory(i)} :
        /\ Degree({k \in links : k.type = "related_to"}, r) <= MaxLinks
        /\ Degree({k \in links : k.type # "related_to"}, r) <= MaxMetadataLinks

\* "Pending candidates are guaranteed 20% of the entity budget so saved
\* memories cannot starve them" (docs/design/knowledge-graph.md:121-122).
NotStarved ==
  LET guaranteed == (MaxEntities + 4) \div 5
      queued == Cardinality(world.queue)
      considered == Cardinality({r \in Considered(world) : r.kind = "candidate"})
  IN  considered >= guaranteed \/ considered = queued

\* What the heuristics promise of the graph, whatever was decided, synced and
\* changed before.
ProperGraph == DegreesBounded /\ NotStarved
=============================================================================
