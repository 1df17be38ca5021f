----------------------- MODULE RelationshipInference -----------------------
(***************************************************************************)
(* inferRelationships: which entities are considered, which links their    *)
(* metadata and their contents give, and which of those survive the caps.  *)
(*                                                                         *)
(* Everything is a function of a world, what the stores say at one moment: *)
(*   queue      the pending candidates,                                    *)
(*   conflicts  their conflictWith,                                        *)
(*   memories   the status of each memory,                                 *)
(*   dups       the audited duplicate rejections, <<candidate, original>>, *)
(*   supers     the recorded supersessions, <<memory, replacement>>.       *)
(* A candidate and the memory it becomes share an id (cand_x, mem_x).      *)
(* What the texts have in common is data: tags, tokens, session and the    *)
(* pair of type and scope are constants.  The queue holds no candidate     *)
(* with secret content or a duplicateOf, because the pipeline rejects both *)
(* (MemoryLifecycle), so the guards against them are left out here.        *)
(***************************************************************************)
EXTENDS Integers, FiniteSets

CONSTANTS
  MaxId,             \* bound: ids ever created
  Tags,              \* the safe tags of an id
  Tokens,            \* its content tokens
  Session,           \* its source session
  NoSession,
  Class,             \* its type and scope
  MaxEntities,       \* entities considered
  MaxLinks,          \* related_to links per entity
  MaxMetadataLinks   \* metadata links per entity

Ids == 1..MaxId

ASSUME InferenceAssumption ==
  /\ MaxId \in Nat
  /\ MaxEntities \in Nat /\ MaxEntities > 0
  /\ MaxLinks \in Nat /\ MaxMetadataLinks \in Nat
  /\ \A i \in Ids : IsFiniteSet(Tags[i]) /\ IsFiniteSet(Tokens[i])

Refs == [kind : {"candidate", "memory"}, id : Ids]
Candidate(i) == [kind |-> "candidate", id |-> i]
Memory(i) == [kind |-> "memory", id |-> i]

\* What relationshipKey is made of.
Types == {"conflicts_with", "duplicate_of", "related_to", "supersedes"}
Keys == [source : Refs, type : Types, target : Refs]
Link(r, type, s) == [source |-> r, type |-> type, target |-> s]
Ends(k) == {k.source, k.target}

World ==
  [ queue : SUBSET Ids,
    conflicts : [Ids -> SUBSET Ids],
    memories : [Ids -> {"none", "active", "superseded"}],
    dups : SUBSET (Ids \X Refs),
    supers : SUBSET (Ids \X Refs) ]

Stored(w) == {i \in Ids : w.memories[i] # "none"}
Active(w) == {i \in Ids : w.memories[i] = "active"}
Entities(w) == {Candidate(i) : i \in w.queue} \cup {Memory(i) : i \in Stored(w)}

----------------------------------------------------------------------------
(* The order of refKey and relationshipKey. *)

Rank(r) == r.id + (IF r.kind = "memory" THEN MaxId ELSE 0)
TypeRank(t) ==
  CASE t = "conflicts_with" -> 0 [] t = "duplicate_of" -> 1
    [] t = "related_to" -> 2 [] t = "supersedes" -> 3
KeyRank ==
  [k \in Keys |->
     (Rank(k.source) * 4 + TypeRank(k.type)) * (2 * MaxId + 1) + Rank(k.target)]

\* How many of S come before x.
Place(S, rank, x) == Cardinality({y \in S : rank[y] < rank[x]})

\* The first n of S in that order.
FirstOf(S, rank, n) == {x \in S : Place(S, rank, x) < n}

----------------------------------------------------------------------------
(* collectEntities *)

RefRank == [r \in Refs |-> Rank(r)]

\* A fifth of the budget, rounded up, is reserved for candidates.
Reserved(w) == FirstOf({Candidate(i) : i \in w.queue}, RefRank, (MaxEntities + 4) \div 5)

\* Active memories, superseded ones, then candidates.
Preference(w) ==
  [r \in Refs |->
     Rank(r) + 2 * MaxId *
       (CASE r.kind = "candidate" -> 2
          [] r.kind = "memory" /\ r.id \in Active(w) -> 0
          [] OTHER -> 1)]

Considered(w) ==
  Reserved(w)
    \cup FirstOf(Entities(w) \ Reserved(w), Preference(w),
                 MaxEntities - Cardinality(Reserved(w)))

----------------------------------------------------------------------------
(* metadataDrafts *)

\* An approved candidate is found under its memory; at most one is found.
Resolve(E, r) ==
  IF r \in E \/ r.kind = "memory" THEN {r} \cap E ELSE {Memory(r.id)} \cap E

MetadataDrafts(w, E) ==
  (UNION {{Link(Candidate(i), "conflicts_with", Memory(j)) :
             j \in {x \in w.conflicts[i] : Memory(x) \in E}} :
             i \in {x \in w.queue : Candidate(x) \in E}})
    \cup
  (UNION {{Link(r, "supersedes", Memory(s[1])) : r \in Resolve(E, s[2])} :
             s \in {x \in w.supers : Memory(x[1]) \in E}})

\* Without those from an entity to itself: a memory may name itself as its
\* replacement.
Metadata(w, E) ==
  {k \in MetadataDrafts(w, E) : k.source # k.target}

----------------------------------------------------------------------------
(* The greedy degree cap over a total order. *)

Degree(S, r) == Cardinality({k \in S : r \in Ends(k)})

\* Faulty variant: a full entity takes one more link.
RoomAtCap(S, k, max) == \A r \in Ends(k) : Degree(S, r) <= max

Room(S, k, max) == \A r \in Ends(k) : Degree(S, r) < max

\* What the loop has taken of the n best links.
Taken(S, rank, max) ==
  LET taken[n \in 0..Cardinality(S)] ==
        IF n = 0 THEN {}
        ELSE taken[n - 1]
               \cup {k \in S : Place(S, rank, k) = n - 1 /\ Room(taken[n - 1], k, max)}
  IN  taken

Capped(S, rank, max) == Taken(S, rank, max)[Cardinality(S)]

----------------------------------------------------------------------------
(* scorePair, with weights in twentieths *)

MinConfidence == 40
MinTextOnly == 60

Score(i, j) ==
  LET shared == Cardinality(Tags[i] \cap Tags[j])
      tag == IF shared > 2 THEN 12 ELSE 6 * shared
      session == IF Session[i] # NoSession /\ Session[i] = Session[j] THEN 7 ELSE 0
      common == Cardinality(Tokens[i] \cap Tokens[j])
      union == Cardinality(Tokens[i] \cup Tokens[j])
      text == 100 * common >= 15 * union /\ common > 0
      compatible == IF Class[i] = Class[j] THEN 3 ELSE 0
      all == 8000 * (IF union = 0 THEN 1 ELSE union)
      miss == (20 - tag) * (20 - session) * (20 - compatible)
                * (IF union = 0 THEN 1 ELSE IF text THEN union - common ELSE union)
  IN  [ some |-> tag + session > 0 \/ text,
        textOnly |-> tag + session = 0,
        confidence |-> (200 * (all - miss) + all) \div (2 * all) ]

Relates(i, j) ==
  LET s == Score(i, j)
  IN  /\ s.some
      /\ s.confidence >= MinConfidence
      /\ s.textOnly => s.confidence >= MinTextOnly

\* Faulty variant: linked pairs are related as well.
RelatedAnyway(E, linked) ==
  {k \in {Link(r, "related_to", s) : r \in E, s \in E} :
     Rank(k.source) < Rank(k.target) /\ Relates(k.source.id, k.target.id)}

\* The link of a pair goes from the entity with the smaller refKey.
Related(E, linked) ==
  {k \in {Link(r, "related_to", s) : r \in E, s \in E} :
     /\ Rank(k.source) < Rank(k.target)
     /\ Ends(k) \notin linked
     /\ Relates(k.source.id, k.target.id)}

\* Highest confidence first.
RelatedRank ==
  [k \in Keys |->
     KeyRank[k] + (100 - Score(k.source.id, k.target.id).confidence)
                    * 8 * (MaxId + 1) * (2 * MaxId + 1)]

----------------------------------------------------------------------------
(* inferRelationships *)

Inferred(w) ==
  LET E == Considered(w)
      metadata == Capped(Metadata(w, E), KeyRank, MaxMetadataLinks)
      linked == {Ends(k) : k \in Metadata(w, E)}
  IN  metadata \cup Capped(Related(E, linked), RelatedRank, MaxLinks)
=============================================================================
