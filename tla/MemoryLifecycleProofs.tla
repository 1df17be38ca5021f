----------------------- MODULE MemoryLifecycleProofs -----------------------
(***************************************************************************)
(* MemoryLifecycle for any texts, detectors, sessions, candidates and      *)
(* batches: what holds however operations are interrupted, and what holds  *)
(* when none is.                                                           *)
(***************************************************************************)
EXTENDS MemoryLifecycle, SequenceTheorems, TLAPS

Assessing == pc \in {"supersede", "auditSuperseded", "decide"}
Settling == pc \in {"auditApproved", "resolve", "auditResolved"}
Removing == pc \in {"resolve", "auditResolved"}

\* The local variables of the running operation are there when a step uses them.
Bound ==
  /\ \A i \in Queued : pending[i].id = i
  /\ pc \in PipelinePc \ {"next"} => cand \in Candidate
  /\ pc \in {"auditSuperseded", "auditManual"} \/ Settling => target \in Ids
  /\ pc = "auditManual" => memory[target] # None
  /\ pc \in ReviewPc => bulk \subseteq Queued
  /\ Settling \/ pc = "removeRejected" =>
       /\ cand \in Candidate /\ cand.id \in Queued
       /\ cand = pending[cand.id] /\ cand.id \notin bulk

\* The pipeline's lists cover what is active, so a candidate it found to be
\* fresh is like nothing that is active.
Covered ==
  /\ pc \in PipelinePc => Active \subseteq existing \cup saved
  /\ Assessing => SimilarTo(cand.text, Active) = {}

\* What the log has handled the pipeline knows of, also of what it handled
\* itself since it looked.
LookedUp ==
  /\ pc \in PipelinePc =>
       \A n \in 1..Len(queue) : Key(queue[n]) \in Handled(audit) => Key(queue[n]) \in processed
  /\ Assessing => Key(cand) \notin Handled(audit)

\* A decision is on record, and the conflicts that are still active are to come.
Decided ==
  /\ Removing =>
       /\ SavedEvent(target, cand.id, Key(cand)) \in audit
       /\ first \subseteq Active
       /\ (cand.conflictWith \cap Active) \ {target} \subseteq first
  /\ pc = "removeRejected" => RejectedByUser(cand.id)

IInv == TypeOK /\ Bound /\ NoDuplicateActive /\ Covered /\ LookedUp /\ Decided

-----------------------------------------------------------------------------
(* Where no operation is interrupted *)

\* What was taken from a session and not edited since is handled.
Recorded ==
  \A i \in Ids :
    memory[i] # None /\ ~memory[i].edited /\ memory[i].session # Manual =>
      \/ Key(memory[i]) \in Handled(audit)
      \/ pc = "auditSaved" /\ Key(memory[i]) = Key(cand)
      \/ pc = "auditApproved" /\ Key(memory[i]) = Key(cand)

\* An id nothing was decided about.
Unused(i) == memory[i] = None /\ pending[i] = None /\ ~RejectedByUser(i)

\* Each candidate is decided about once: ids to come and candidates still to
\* process are unused, what is queued is neither saved nor rejected before its
\* decision, and what the user rejected is not saved.
Once ==
  /\ \A i \in nextId..MaxId : Unused(i)
  /\ \A n \in 1..Len(queue) : Unused(queue[n].id) /\ queue[n].id < nextId
  /\ \A n, m \in 1..Len(queue) : queue[n].id = queue[m].id => n = m
  /\ Assessing =>
       /\ Unused(cand.id) /\ cand.id < nextId
       /\ \A n \in 1..Len(queue) : queue[n].id # cand.id
  /\ \A i \in Queued :
       /\ memory[i] = None \/ (Settling /\ i = cand.id)
       /\ ~RejectedByUser(i) \/ (pc = "removeRejected" /\ i = cand.id)
  /\ \A i \in Ids : RejectedByUser(i) => memory[i] = None

\* The keys of what is stored as it was taken from a session, and of what the
\* user rejected.
Taken == {Key(memory[i]) : i \in {j \in Ids : memory[j] # None /\ ~memory[j].edited}} \ {NoKey}
UserRejections == {event \in audit : event.type = "candidate_rejected" /\ event.byUser}
Rejected == {event.key : event \in UserRejections} \ {NoKey}

\* What is queued is unlike what the pipeline goes on with, and of one session
\* nothing is queued twice, nor both queued and stored, nor rejected by the user
\* and stored or queued, unless it is just being approved or rejected.
Apart ==
  /\ pc \in PipelinePc => Queued \subseteq held
  /\ Assessing => \A i \in Queued : <<cand.text, pending[i].text>> \notin Similar
  /\ \A i, j \in Queued : Key(pending[i]) = Key(pending[j]) /\ Key(pending[i]) # NoKey => i = j
  /\ \A i \in Queued :
       /\ Key(pending[i]) \in Taken => Settling /\ i = cand.id
       /\ Key(pending[i]) \in Rejected => pc = "removeRejected" /\ i = cand.id
  /\ Taken \cap Rejected = {}

Calm == IInv /\ Recorded /\ Once /\ Apart

-----------------------------------------------------------------------------
(* What the operators return *)

LEMMA CandidateKey ==
  ASSUME NEW c \in Candidate \cup Entry
  PROVE  Key(c) \in Keys \cup {NoKey}
BY LifecycleAssumption DEF Key, Keys, Candidate, Entry

LEMMA EntryOfCandidate ==
  ASSUME NEW c \in Candidate
  PROVE  /\ EntryOf(c) \in Entry /\ EntryOf(c) # None
         /\ EntryOf(c).text = c.text /\ EntryOf(c).status = "active"
         /\ Key(EntryOf(c)) = Key(c) /\ EntryOf(c).session = c.session
         /\ ~EntryOf(c).edited
<1>1. /\ EntryOf(c).text = c.text /\ EntryOf(c).session = c.session
      /\ EntryOf(c).status = "active" /\ EntryOf(c).edited = FALSE
  BY DEF EntryOf
<1>2. EntryOf(c) \in Entry
  BY DEF EntryOf, Entry, Candidate
<1>3. EntryOf(c) # None
  BY <1>2, NoneAssumption
<1>4. Key(EntryOf(c)) = Key(c)
  BY <1>1 DEF Key
<1>. QED
  BY <1>1, <1>2, <1>3, <1>4

LEMMA EventKeys ==
  ASSUME NEW i, NEW j, NEW key
  PROVE  /\ ProcessedKey(SavedEvent(i, j, key)) = key
         /\ \A byUser \in BOOLEAN : ProcessedKey(RejectedEvent(i, key, byUser)) = key
         /\ ProcessedKey(SupersededEvent(i, j)) = NoKey
BY DEF ProcessedKey, SavedEvent, RejectedEvent, SupersededEvent

\* What each event handles.
LEMMA HandledBy ==
  /\ \A i, j, key : audit' = audit \cup {SavedEvent(i, j, key)} =>
       Handled(audit') = Handled(audit) \cup ({key} \ {NoKey})
  /\ \A i, key, byUser : byUser \in BOOLEAN /\ audit' = audit \cup {RejectedEvent(i, key, byUser)} =>
       Handled(audit') = Handled(audit) \cup ({key} \ {NoKey})
  /\ \A i, j : audit' = audit \cup {SupersededEvent(i, j)} => Handled(audit') = Handled(audit)
<1>1. ASSUME NEW i, NEW j, NEW key, audit' = audit \cup {SavedEvent(i, j, key)}
      PROVE  Handled(audit') = Handled(audit) \cup ({key} \ {NoKey})
  <2>1. ProcessedKey(SavedEvent(i, j, key)) = key
    BY EventKeys
  <2>. QED
    BY <1>1, <2>1 DEF Handled
<1>2. ASSUME NEW i, NEW key, NEW byUser \in BOOLEAN, audit' = audit \cup {RejectedEvent(i, key, byUser)}
      PROVE  Handled(audit') = Handled(audit) \cup ({key} \ {NoKey})
  <2>1. ProcessedKey(RejectedEvent(i, key, byUser)) = key
    BY EventKeys
  <2>. QED
    BY <1>2, <2>1 DEF Handled
<1>3. ASSUME NEW i, NEW j, audit' = audit \cup {SupersededEvent(i, j)}
      PROVE  Handled(audit') = Handled(audit)
  <2>1. ProcessedKey(SupersededEvent(i, j)) = NoKey
    BY EventKeys
  <2>. QED
    BY <1>3, <2>1 DEF Handled
<1>. QED
  BY <1>1, <1>2, <1>3

LEMMA EventTypes ==
  /\ \A i, j \in Ids, key \in Keys \cup {NoKey} : SavedEvent(i, j, key) \in AuditEvent
  /\ \A i \in Ids, key \in Keys \cup {NoKey}, byUser \in BOOLEAN :
       RejectedEvent(i, key, byUser) \in AuditEvent
  /\ \A i \in Ids, j \in Ids \cup {None} : SupersededEvent(i, j) \in AuditEvent
BY DEF SavedEvent, RejectedEvent, SupersededEvent, AuditEvent

LEMMA HandledKeys == ASSUME audit \subseteq AuditEvent PROVE Handled(audit) \subseteq Keys
BY DEF Handled, ProcessedKey, AuditEvent

\* The head and the rest of a queue.
LEMMA HeadAndTail ==
  ASSUME queue \in Seq(Candidate), queue # <<>>
  PROVE  /\ Len(queue) \in Nat /\ 1 \in 1..Len(queue)
         /\ Head(queue) = queue[1] /\ Head(queue) \in Candidate
         /\ Tail(queue) \in Seq(Candidate)
         /\ Len(Tail(queue)) = Len(queue) - 1
         /\ \A n \in 1..Len(Tail(queue)) :
              n + 1 \in 1..Len(queue) /\ Tail(queue)[n] = queue[n + 1]
<1>1. /\ Len(queue) \in Nat
      /\ Head(queue) \in Candidate /\ Tail(queue) \in Seq(Candidate)
      /\ Len(Tail(queue)) = Len(queue) - 1
      /\ \A n \in 1..Len(Tail(queue)) : Tail(queue)[n] = queue[n + 1]
  BY HeadTailProperties, LenProperties
<1>2. Head(queue) = queue[1] /\ Len(queue) # 0
  BY EmptySeq, LenProperties
<1>. QED
  BY <1>1, <1>2

\* Superseding takes one memory out of use and keeps what it says.
LEMMA SupersededMemory ==
  ASSUME memory \in [Ids -> Entry \cup {None}], NEW i \in Ids, memory[i] # None,
         NEW by \in Ids \cup {None}, memory' = Superseded(i, by)
  PROVE  /\ memory' \in [Ids -> Entry \cup {None}]
         /\ Active' = Active \ {i}
         /\ \A j \in Ids : /\ memory'[j] = None <=> memory[j] = None
                           /\ memory[j] # None =>
                                /\ memory'[j].text = memory[j].text
                                /\ memory'[j].session = memory[j].session
                                /\ memory'[j].edited = memory[j].edited
<1> DEFINE e == [memory[i] EXCEPT !.status = "superseded", !.supersededBy = by]
<1>1. memory[i] \in Entry
  OBVIOUS
<1>2. e \in Entry /\ e.status = "superseded" /\ e.text = memory[i].text
      /\ e.session = memory[i].session /\ e.edited = memory[i].edited
  BY <1>1 DEF Entry
<1>3. e # None
  BY <1>2, NoneAssumption
<1>4. memory' = [memory EXCEPT ![i] = e]
  BY DEF Superseded
<1>. HIDE DEF e
<1>5. memory'[i] = e /\ \A j \in Ids : j # i => memory'[j] = memory[j]
  BY <1>4
<1>6. memory' \in [Ids -> Entry \cup {None}]
  BY <1>2, <1>4
<1>7. Active' = Active \ {i}
  BY <1>2, <1>5 DEF Active
<1>. QED
  BY <1>2, <1>3, <1>5, <1>6, <1>7

\* Saving makes one memory active.
LEMMA SavedMemory ==
  ASSUME memory \in [Ids -> Entry \cup {None}], NEW c \in Candidate, NEW i \in Ids,
         memory' = [memory EXCEPT ![i] = EntryOf(c)]
  PROVE  /\ memory' \in [Ids -> Entry \cup {None}]
         /\ Active' = Active \cup {i}
         /\ memory'[i] = EntryOf(c)
         /\ \A j \in Ids : j # i => memory'[j] = memory[j]
<1>1. EntryOf(c) \in Entry /\ EntryOf(c) # None /\ EntryOf(c).status = "active"
  BY EntryOfCandidate
<1>. QED
  BY <1>1 DEF Active

\* Memories that are alike come from edits, unless one is saved over another.
LEMMA NoNewDuplicate ==
  ASSUME NoDuplicateActive, Active' \subseteq Active,
         \A j \in Active' : ~memory'[j].edited =>
            memory'[j].text = memory[j].text /\ ~memory[j].edited
  PROVE  NoDuplicateActive'
BY DEF NoDuplicateActive

LEMMA SavedUnlike ==
  ASSUME TypeOK, NoDuplicateActive, NEW c \in Candidate, NEW i \in Ids,
         SimilarTo(c.text, Active) = {},
         memory' = [memory EXCEPT ![i] = EntryOf(c)]
  PROVE  NoDuplicateActive'
<1>1. /\ Active' = Active \cup {i} /\ memory'[i] = EntryOf(c)
      /\ \A j \in Ids : j # i => memory'[j] = memory[j]
  BY SavedMemory DEF TypeOK
<1>2. memory'[i].text = c.text
  BY <1>1, EntryOfCandidate
<1>3. \A j \in Active : <<c.text, memory[j].text>> \notin Similar
                        /\ <<memory[j].text, c.text>> \notin Similar
  <2> SUFFICES ASSUME NEW j \in Active
               PROVE  <<c.text, memory[j].text>> \notin Similar /\ <<memory[j].text, c.text>> \notin Similar
    OBVIOUS
  <2>1. <<c.text, memory[j].text>> \notin Similar
    BY DEF SimilarTo
  <2>2. c.text \in Texts /\ memory[j].text \in Texts
    BY DEF TypeOK, Active, Entry, Candidate
  <2>. QED
    BY <2>1, <2>2, LifecycleAssumption
<1>4. Active \subseteq Ids
  BY DEF Active
<1>5. SUFFICES ASSUME NEW j \in Active', NEW k \in Active', j # k,
                      ~memory'[j].edited, ~memory'[k].edited
               PROVE  <<memory'[j].text, memory'[k].text>> \notin Similar
  BY DEF NoDuplicateActive
<1>6. CASE j = i
  BY <1>1, <1>2, <1>3, <1>4, <1>5, <1>6
<1>7. CASE k = i
  BY <1>1, <1>2, <1>3, <1>4, <1>5, <1>7
<1>8. CASE j # i /\ k # i
  BY <1>1, <1>4, <1>5, <1>8 DEF NoDuplicateActive
<1>. QED
  BY <1>6, <1>7, <1>8

\* The end of an operation.
LEMMA ReturnInv ==
  ASSUME IInv, Return, UNCHANGED memory, tripped' \in BOOLEAN, nextId' = nextId,
         pending' \in [Ids -> Candidate \cup {None}],
         \A i \in Queued' : pending'[i] = pending[i],
         audit' \subseteq AuditEvent
  PROVE  IInv'
<1>1. TypeOK'
  <2>1. <<>> \in Seq(Candidate)
    OBVIOUS
  <2>. QED
    BY <2>1 DEF IInv, TypeOK, Return
<1>2. Active' = Active
  BY DEF Active
<1>3. NoDuplicateActive'
  BY <1>2 DEF IInv, NoDuplicateActive
<1>4. Queued' \subseteq Queued
  BY DEF Queued
<1>5. Bound'
  BY <1>4 DEF IInv, Bound, Return, PipelinePc, ReviewPc, Settling
<1>6. Covered' /\ LookedUp' /\ Decided'
  BY DEF Covered, LookedUp, Decided, Return, PipelinePc, Assessing, Removing
<1>. QED
  BY <1>1, <1>3, <1>5, <1>6 DEF IInv

-----------------------------------------------------------------------------
(* The pipeline *)

\* Nothing that is stored changes, and the batch goes on with the next candidate.
LEMMA IngestInv == ASSUME IInv, NEW batch \in Batches, Ingest(batch) PROVE IInv'
<1> DEFINE n == Len(batch)
<1>1. PICK k \in 0..MaxBatch : batch \in [1..k -> Proposal \cap Proposals]
  <2>1. PICK k \in 0..MaxBatch : batch \in [1..k -> Proposals]
    BY DEF Batches
  <2>. QED
    BY <2>1, ProposalsAssumption
<1>2. k \in Nat /\ batch \in Seq(Proposals) /\ n = k /\ MaxId \in Nat
  BY <1>1, LifecycleAssumption, SeqDef, LenProperties
<1>3. nextId \in 1..(MaxId + 1) /\ nextId + k - 1 <= MaxId
  BY <1>2 DEF IInv, TypeOK, Ingest
<1>4. \A m \in 1..k : nextId + m - 1 \in Ids /\ batch[m] \in Proposal
  BY <1>1, <1>2, <1>3 DEF Ids
<1>5. \A m \in 1..k : /\ NewCandidate(batch[m], nextId + m - 1) \in Candidate
                      /\ Key(NewCandidate(batch[m], nextId + m - 1)) = Key(batch[m])
  BY <1>4 DEF NewCandidate, Proposal, Candidate, Key
<1>6. /\ queue' \in Seq(Candidate) /\ Len(queue') = k
      /\ \A m \in 1..k : Key(queue'[m]) = Key(batch[m])
  <2>1. queue' = [m \in 1..k |-> NewCandidate(batch[m], nextId + m - 1)]
    BY <1>2 DEF Ingest
  <2>2. queue' \in [1..k -> Candidate]
    BY <1>5, <2>1
  <2>3. queue' \in Seq(Candidate) /\ Len(queue') = k
    BY <1>2, <2>2, SeqDef, LenProperties
  <2>. QED
    BY <1>5, <2>1, <2>3
<1>7. TypeOK'
  <2>1. processed' \subseteq Keys
    BY HandledKeys DEF IInv, TypeOK, Ingest
  <2>2. nextId' \in 1..(MaxId + 1)
    BY <1>2, <1>3 DEF Ingest
  <2>. QED
    BY <1>6, <2>1, <2>2 DEF IInv, TypeOK, Ingest, PipelinePc, Active, Queued
<1>8. Active' = Active /\ Queued' = Queued
  BY DEF Ingest, Active, Queued
<1>9. LookedUp'
  BY <1>2, <1>6 DEF Ingest, LookedUp, Assessing
<1>10. Bound'
  BY <1>8 DEF IInv, Bound, Ingest, PipelinePc, ReviewPc, Settling
<1>11. NoDuplicateActive'
  BY <1>8 DEF IInv, NoDuplicateActive, Ingest
<1>12. Covered' /\ Decided'
  BY <1>8 DEF Covered, Decided, Ingest, Assessing, Removing
<1>. QED
  BY <1>7, <1>9, <1>10, <1>11, <1>12 DEF IInv

\* The candidates that are left have been looked up.
LEMMA TailLookedUp ==
  ASSUME IInv, pc = "next", queue # <<>>, queue' = Tail(queue)
  PROVE  /\ queue' \in Seq(Candidate)
         /\ \A n \in 1..Len(queue') : Key(queue'[n]) \in Handled(audit) => Key(queue'[n]) \in processed
BY HeadAndTail DEF IInv, TypeOK, LookedUp, PipelinePc

\* A rejection that handles a fingerprint, or none.
LEMMA RejectHeadInv ==
  ASSUME IInv, pc = "next", queue # <<>>,
         NEW key \in {Key(Head(queue)), NoKey}, RejectHead(key),
         processed' = processed \cup ({key} \ {NoKey})
  PROVE  IInv'
<1>1. Head(queue) \in Candidate /\ Head(queue).id \in Ids /\ key \in Keys \cup {NoKey}
  <2>1. Head(queue) \in Candidate
    BY HeadAndTail DEF IInv, TypeOK
  <2>2. Head(queue).id \in Ids
    BY <2>1 DEF Candidate
  <2>3. Key(Head(queue)) \in Keys \cup {NoKey}
    BY <2>1, CandidateKey
  <2>. QED
    BY <2>1, <2>2, <2>3
<1>2. Handled(audit') = Handled(audit) \cup ({key} \ {NoKey})
  BY HandledBy DEF RejectHead
<1>3. audit' \subseteq AuditEvent
  <2>1. RejectedEvent(Head(queue).id, key, FALSE) \in AuditEvent
    BY <1>1, EventTypes
  <2>. QED
    BY <2>1 DEF RejectHead, IInv, TypeOK
<1>4. Active' = Active /\ Queued' = Queued
  BY DEF RejectHead, Active, Queued
<1>5. /\ queue' \in Seq(Candidate)
      /\ \A n \in 1..Len(queue') : Key(queue'[n]) \in Handled(audit) => Key(queue'[n]) \in processed
  BY TailLookedUp DEF RejectHead
<1>6. TypeOK'
  BY <1>1, <1>3, <1>5 DEF IInv, TypeOK, RejectHead
<1>7. NoDuplicateActive'
  BY <1>4 DEF IInv, NoDuplicateActive, RejectHead
<1>8. Bound' /\ Covered' /\ Decided'
  BY <1>4 DEF IInv, Bound, Covered, Decided, RejectHead, PipelinePc, ReviewPc,
              Assessing, Settling, Removing
<1>9. LookedUp'
  BY <1>2, <1>5 DEF LookedUp, RejectHead, Assessing
<1>. QED
  BY <1>6, <1>7, <1>8, <1>9 DEF IInv

LEMMA RejectInv ==
  ASSUME IInv, RejectByPolicy \/ RejectDuplicate \/ RejectHandled
  PROVE  IInv'
<1>1. CASE RejectByPolicy
  BY <1>1, RejectHeadInv DEF RejectByPolicy
<1>2. CASE RejectHandled
  BY <1>2, RejectHeadInv DEF RejectHandled
<1>3. CASE RejectDuplicate
  BY <1>3, RejectHeadInv DEF RejectDuplicate
<1>. QED
  BY <1>1, <1>2, <1>3

LEMMA ConflictsStored == ASSUME NEW c PROVE Conflicts(c) \subseteq existing \cup saved
BY Zenon DEF Conflicts, Clashing

\* A fresh candidate is like nothing that is active.
LEMMA FreshUnlike ==
  ASSUME IInv, pc = "next", NEW c, Fresh(c)
  PROVE  SimilarTo(c.text, Active) = {}
BY DEF IInv, Covered, Fresh, DuplicateStored, SimilarTo, PipelinePc

LEMMA AssessConflictsInv == ASSUME IInv, AssessConflicts PROVE IInv'
<1> DEFINE c == Head(queue)
<1>1. /\ pc = "next" /\ queue # <<>> /\ Fresh(c) /\ Key(c) \notin processed
      /\ queue' = Tail(queue)
      /\ UNCHANGED <<stores, existing, saved, held, processed, target, bulk, tripped>>
  BY DEF AssessConflicts
<1>2. /\ c \in Candidate /\ c = queue[1] /\ 1 \in 1..Len(queue)
      /\ Conflicts(c) \subseteq Ids
  BY <1>1, HeadAndTail, ConflictsStored DEF IInv, TypeOK
<1>. HIDE DEF c
<1>3. /\ pc' \in {"supersede", "decide"}
      /\ cand' \in Candidate /\ cand'.text = c.text /\ Key(cand') = Key(c)
      /\ first' \subseteq Ids /\ again' \subseteq Ids
  <2>1. CASE pc' = "supersede" /\ cand' = c /\ first' = Conflicts(c) \cap existing /\ again' = Conflicts(c) \cap saved
    BY <1>2, <2>1
  <2>2. CASE pc' = "decide" /\ cand' = [c EXCEPT !.conflictWith = Conflicts(c)] /\ UNCHANGED <<first, again>>
    <3>1. cand' \in Candidate /\ cand'.text = c.text /\ cand'.session = c.session
      BY <1>2, <2>2 DEF Candidate
    <3>. QED
      BY <2>2, <3>1 DEF Key, IInv, TypeOK
  <2>. QED
    BY <2>1, <2>2 DEF AssessConflicts, c
<1>4. Key(c) \notin Handled(audit)
  BY <1>1, <1>2 DEF IInv, LookedUp, PipelinePc
<1>5. SimilarTo(c.text, Active) = {}
  BY <1>1, FreshUnlike
<1>6. memory' = memory /\ audit' = audit /\ Active' = Active /\ Queued' = Queued
  BY <1>1 DEF stores, Active, Queued
<1>7. /\ queue' \in Seq(Candidate)
      /\ \A n \in 1..Len(queue') : Key(queue'[n]) \in Handled(audit) => Key(queue'[n]) \in processed
  BY <1>1, TailLookedUp
<1>8. TypeOK'
  BY <1>1, <1>3, <1>7 DEF IInv, TypeOK, stores, PipelinePc
<1>9. NoDuplicateActive'
  BY <1>6 DEF IInv, NoDuplicateActive
<1>10. Bound'
  BY <1>1, <1>3, <1>6 DEF IInv, Bound, stores, ReviewPc, Settling
<1>11. Covered'
  BY <1>1, <1>3, <1>5, <1>6 DEF IInv, Covered, PipelinePc, SimilarTo
<1>12. LookedUp'
  BY <1>1, <1>3, <1>4, <1>6, <1>7 DEF LookedUp
<1>13. Decided'
  BY <1>3 DEF Decided, Removing
<1>. QED
  BY <1>8, <1>9, <1>10, <1>11, <1>12, <1>13 DEF IInv

\* A conflict is superseded, or stops the batch.
LEMMA SupersedeConflictInv == ASSUME IInv, SupersedeConflict PROVE IInv'
<1>1. PICK i \in IF first # {} THEN first ELSE again :
        \/ /\ i \in Active
           /\ memory' = Superseded(i, None)
           /\ existing' = existing \ {i}
           /\ first' = first \ {i}
           /\ again' = IF i \in first THEN again ELSE again \ {i}
           /\ target' = i
           /\ pc' = "auditSuperseded"
           /\ UNCHANGED <<pending, audit, nextId, queue, saved, held, processed, cand, bulk, tripped>>
        \/ Return /\ tripped' = TRUE /\ UNCHANGED stores
  BY DEF SupersedeConflict
<1>2. pc = "supersede" /\ i \in Ids
  BY DEF SupersedeConflict, IInv, TypeOK
<1>3. CASE Return /\ tripped' = TRUE /\ UNCHANGED stores
  BY <1>3, ReturnInv DEF stores, IInv, TypeOK
<1>4. CASE /\ i \in Active
           /\ memory' = Superseded(i, None)
           /\ existing' = existing \ {i}
           /\ first' = first \ {i}
           /\ again' = IF i \in first THEN again ELSE again \ {i}
           /\ target' = i
           /\ pc' = "auditSuperseded"
           /\ UNCHANGED <<pending, audit, nextId, queue, saved, held, processed, cand, bulk, tripped>>
  <2>1. memory[i] # None
    BY <1>4 DEF Active
  <2>2. /\ memory' \in [Ids -> Entry \cup {None}]
        /\ Active' = Active \ {i}
        /\ \A j \in Ids : memory[j] # None => /\ memory'[j].text = memory[j].text
                                              /\ memory'[j].edited = memory[j].edited
    BY <1>2, <1>4, <2>1, SupersededMemory DEF IInv, TypeOK
  <2>3. TypeOK'
    BY <1>2, <1>4, <2>2 DEF IInv, TypeOK, PipelinePc
  <2>4. \A j \in Active : j \in Ids /\ memory[j] # None
    BY DEF Active
  <2>5. NoDuplicateActive'
    BY <2>2, <2>4 DEF IInv, NoDuplicateActive
  <2>6. SimilarTo(cand.text, Active)' = {}
    BY <1>2, <1>4, <2>2, <2>4 DEF IInv, Covered, SimilarTo, Assessing
  <2>7. Covered'
    BY <1>2, <1>4, <2>2, <2>6 DEF IInv, Covered, PipelinePc
  <2>8. LookedUp'
    BY <1>2, <1>4 DEF IInv, LookedUp, PipelinePc, Assessing
  <2>9. Bound'
    BY <1>2, <1>4 DEF IInv, Bound, Queued, PipelinePc, ReviewPc, Settling
  <2>10. Decided'
    BY <1>4 DEF Decided, Removing
  <2>. QED
    BY <2>3, <2>5, <2>7, <2>8, <2>9, <2>10 DEF IInv
<1>. QED
  BY <1>1, <1>3, <1>4

\* An event without a fingerprint is recorded, or nothing happens to the stores.
LEMMA PipelineGoesOn ==
  ASSUME IInv, Assessing, pc' \in PipelinePc \ {"auditSuperseded", "auditSaved"},
         UNCHANGED <<memory, pending, nextId, batchVars, first, again, bulk, tripped>>,
         audit' = audit \/ \E i \in Ids : audit' \in {audit \cup {SupersededEvent(i, cand.id)},
                                                      audit \cup {RejectedEvent(i, NoKey, FALSE)}},
         target' \in {target, None},
         cand' = cand \/ (cand' = None /\ pc' = "next")
  PROVE  IInv'
<1>1. cand \in Candidate /\ cand.id \in Ids
  <2>1. cand \in Candidate
    BY DEF IInv, Bound, Assessing, PipelinePc
  <2>. QED
    BY <2>1 DEF Candidate
<1>2. Handled(audit') = Handled(audit) /\ audit' \subseteq AuditEvent
  <2>1. CASE audit' = audit
    BY <2>1 DEF IInv, TypeOK
  <2>2. CASE \E i \in Ids : audit' = audit \cup {SupersededEvent(i, cand.id)}
    <3>1. PICK i \in Ids : audit' = audit \cup {SupersededEvent(i, cand.id)}
      BY <2>2
    <3>2. SupersededEvent(i, cand.id) \in AuditEvent
      BY <1>1, EventTypes
    <3>3. Handled(audit') = Handled(audit)
      BY <3>1, HandledBy
    <3>. QED
      BY <3>1, <3>2, <3>3 DEF IInv, TypeOK
  <2>3. CASE \E i \in Ids : audit' = audit \cup {RejectedEvent(i, NoKey, FALSE)}
    <3>1. PICK i \in Ids : audit' = audit \cup {RejectedEvent(i, NoKey, FALSE)}
      BY <2>3
    <3>2. RejectedEvent(i, NoKey, FALSE) \in AuditEvent
      BY EventTypes
    <3>3. Handled(audit') = Handled(audit)
      BY <3>1, HandledBy
    <3>. QED
      BY <3>1, <3>2, <3>3 DEF IInv, TypeOK
  <2>. QED
    BY <2>1, <2>2, <2>3
<1>3. audit' \subseteq AuditEvent
  BY <1>2
<1>4. Active' = Active /\ Queued' = Queued
  BY DEF Active, Queued
<1>5. TypeOK'
  BY <1>3 DEF IInv, TypeOK, batchVars, PipelinePc
<1>6. NoDuplicateActive'
  BY <1>4 DEF IInv, NoDuplicateActive
<1>7. Bound'
  BY <1>1, <1>4 DEF IInv, Bound, PipelinePc, ReviewPc, Settling
<1>8. Covered' /\ LookedUp'
  BY <1>2, <1>4 DEF IInv, Covered, LookedUp, batchVars, PipelinePc, Assessing, SimilarTo
<1>9. Decided'
  BY DEF Decided, Removing, PipelinePc
<1>. QED
  BY <1>5, <1>6, <1>7, <1>8, <1>9 DEF IInv

LEMMA RecommendedInv ==
  ASSUME IInv, AuditSupersededConflict \/ ConflictsSuperseded \/ RejectRecommended
  PROVE  IInv'
<1>1. CASE AuditSupersededConflict
  <2>1. target \in Ids
    BY <1>1 DEF IInv, Bound, AuditSupersededConflict
  <2>. QED
    BY <1>1, <2>1, PipelineGoesOn DEF AuditSupersededConflict, Assessing, PipelinePc
<1>2. CASE ConflictsSuperseded
  BY <1>2, PipelineGoesOn DEF ConflictsSuperseded, Assessing, PipelinePc, stores
<1>3. CASE RejectRecommended
  <2>1. cand \in Candidate
    BY <1>3 DEF IInv, Bound, RejectRecommended, PipelinePc
  <2>2. cand.id \in Ids
    BY <2>1 DEF Candidate
  <2>. QED
    BY <1>3, <2>2, PipelineGoesOn DEF RejectRecommended, Assessing, PipelinePc
<1>. QED
  BY <1>1, <1>2, <1>3

LEMMA AutoSaveInv == ASSUME IInv, AutoSave PROVE IInv'
<1>1. pc = "decide" /\ pc' = "auditSaved" /\ cand \in Candidate
  BY DEF IInv, Bound, AutoSave, PipelinePc
<1>2. cand.id \in Ids
  BY <1>1 DEF Candidate
<1>3. memory' \in [Ids -> Entry \cup {None}] /\ Active' = Active \cup {cand.id}
  BY <1>1, <1>2, SavedMemory DEF AutoSave, IInv, TypeOK
<1>4. NoDuplicateActive'
  BY <1>1, <1>2, SavedUnlike DEF AutoSave, IInv, Covered, Assessing
<1>5. TypeOK'
  BY <1>1, <1>2, <1>3 DEF IInv, TypeOK, AutoSave, PipelinePc
<1>6. Bound'
  BY <1>1 DEF IInv, Bound, AutoSave, Queued, PipelinePc, ReviewPc, Settling
<1>7. Covered' /\ LookedUp'
  BY <1>1, <1>3 DEF IInv, Covered, LookedUp, AutoSave, PipelinePc, Assessing
<1>8. Decided'
  BY <1>1 DEF Decided, Removing
<1>. QED
  BY <1>4, <1>5, <1>6, <1>7, <1>8 DEF IInv

LEMMA AuditSavedInv == ASSUME IInv, AuditSaved PROVE IInv'
<1>1. pc = "auditSaved" /\ pc' = "next" /\ cand \in Candidate
  BY DEF IInv, Bound, AuditSaved, PipelinePc
<1>2. cand.id \in Ids /\ Key(cand) \in Keys \cup {NoKey}
  <2>1. cand.id \in Ids
    BY <1>1 DEF Candidate
  <2>2. Key(cand) \in Keys \cup {NoKey}
    BY <1>1, CandidateKey
  <2>. QED
    BY <2>1, <2>2
<1>3. Handled(audit') = Handled(audit) \cup ({Key(cand)} \ {NoKey})
  BY HandledBy DEF AuditSaved
<1>4. audit' \subseteq AuditEvent
  <2>1. SavedEvent(cand.id, cand.id, Key(cand)) \in AuditEvent
    BY <1>2, EventTypes
  <2>. QED
    BY <2>1 DEF AuditSaved, IInv, TypeOK
<1>5. Active' = Active /\ Queued' = Queued
  BY DEF AuditSaved, Active, Queued
<1>6. TypeOK'
  BY <1>1, <1>2, <1>4 DEF IInv, TypeOK, AuditSaved, PipelinePc
<1>7. NoDuplicateActive'
  BY <1>5 DEF IInv, NoDuplicateActive, AuditSaved
<1>8. Bound' /\ Covered' /\ Decided'
  BY <1>1, <1>5 DEF IInv, Bound, Covered, Decided, AuditSaved, PipelinePc, ReviewPc,
                    Assessing, Settling, Removing
<1>9. LookedUp'
  BY <1>1, <1>3 DEF IInv, LookedUp, AuditSaved, PipelinePc, Assessing
<1>. QED
  BY <1>6, <1>7, <1>8, <1>9 DEF IInv

LEMMA AskUserInv == ASSUME IInv, AskUser PROVE IInv'
<1>1. pc = "decide" /\ pc' = "next" /\ cand \in Candidate
  BY DEF IInv, Bound, AskUser, PipelinePc
<1>2. cand.id \in Ids
  BY <1>1 DEF Candidate
<1>3. /\ pending' \in [Ids -> Candidate \cup {None}]
      /\ pending'[cand.id] = cand /\ \A i \in Ids : i # cand.id => pending'[i] = pending[i]
  BY <1>1, <1>2 DEF AskUser, IInv, TypeOK
<1>4. TypeOK'
  BY <1>1, <1>2, <1>3 DEF IInv, TypeOK, AskUser, PipelinePc
<1>5. Active' = Active
  BY DEF AskUser, Active
<1>6. NoDuplicateActive'
  BY <1>5 DEF IInv, NoDuplicateActive, AskUser
<1>7. Bound'
  BY <1>1, <1>3 DEF IInv, Bound, AskUser, Queued, PipelinePc, ReviewPc, Settling
<1>8. Covered' /\ LookedUp' /\ Decided'
  BY <1>1, <1>5 DEF IInv, Covered, LookedUp, Decided, AskUser, PipelinePc, Assessing, Removing
<1>. QED
  BY <1>4, <1>6, <1>7, <1>8 DEF IInv

-----------------------------------------------------------------------------
(* Approval, rejection and maintenance *)

LEMMA BeginInv == ASSUME IInv, BeginApprove \/ BeginReject PROVE IInv'
<1>1. /\ pc = "idle" /\ pc' \in {"approve", "reject"} /\ bulk' \subseteq Queued
      /\ tripped' = FALSE
      /\ UNCHANGED <<stores, batchVars, cand, first, again, target>>
  BY DEF BeginApprove, BeginReject
<1>2. Active' = Active /\ Queued' = Queued
  BY <1>1 DEF stores, Active, Queued
<1>3. TypeOK'
  BY <1>1 DEF IInv, TypeOK, stores, batchVars, ReviewPc, Queued
<1>4. NoDuplicateActive'
  BY <1>1, <1>2 DEF IInv, NoDuplicateActive, stores
<1>5. Bound'
  BY <1>1, <1>2 DEF IInv, Bound, stores, PipelinePc, Settling
<1>6. Covered' /\ LookedUp' /\ Decided'
  BY <1>1 DEF Covered, LookedUp, Decided, PipelinePc, Assessing, Removing
<1>. QED
  BY <1>3, <1>4, <1>5, <1>6 DEF IInv

LEMMA ApproveInv == ASSUME IInv, NEW i \in Ids, Approve(i) PROVE IInv'
<1>1. pc = "approve" /\ i \in Queued /\ pc' = "auditApproved"
  BY DEF IInv, Bound, Approve, ReviewPc
<1>2. pending[i] \in Candidate /\ pending[i].id = i /\ cand' = pending[i]
  BY <1>1 DEF IInv, TypeOK, Bound, Approve, Queued
<1>3. Queued' = Queued
  BY DEF Approve, Queued
<1>4. memory' \in [Ids -> Entry \cup {None}] /\ target' \in Ids /\ NoDuplicateActive'
  <2>1. CASE target' \in SimilarTo(pending[i].text, Active) /\ UNCHANGED memory
    BY <2>1 DEF IInv, TypeOK, NoDuplicateActive, Active, SimilarTo
  <2>2. CASE /\ SimilarTo(pending[i].text, Active) = {}
             /\ memory' = [memory EXCEPT ![i] = EntryOf(pending[i])]
             /\ target' = i
    BY <1>2, <2>2, SavedMemory, SavedUnlike DEF IInv, TypeOK
  <2>. QED
    BY <2>1, <2>2 DEF Approve
<1>5. TypeOK'
  BY <1>1, <1>2, <1>4 DEF IInv, TypeOK, Approve, batchVars, ReviewPc
<1>6. Bound'
  BY <1>1, <1>2, <1>3, <1>4 DEF IInv, Bound, Approve, PipelinePc, ReviewPc, Settling
<1>7. Covered' /\ LookedUp' /\ Decided'
  BY <1>1 DEF Covered, LookedUp, Decided, PipelinePc, Assessing, Removing
<1>. QED
  BY <1>4, <1>5, <1>6, <1>7 DEF IInv

LEMMA AuditApprovedInv == ASSUME IInv, AuditApproved PROVE IInv'
<1>1. /\ pc = "auditApproved" /\ pc' = "resolve" /\ target \in Ids
      /\ cand \in Candidate
  BY DEF IInv, Bound, AuditApproved, Settling
<1>2. cand.id \in Ids /\ cand.conflictWith \subseteq Ids
  BY <1>1 DEF Candidate
<1>3. audit' \subseteq AuditEvent
  <2>1. SavedEvent(target, cand.id, Key(cand)) \in AuditEvent
    BY <1>1, <1>2, CandidateKey, EventTypes
  <2>. QED
    BY <2>1 DEF AuditApproved, IInv, TypeOK
<1>4. Active' = Active /\ Queued' = Queued
  BY DEF AuditApproved, Active, Queued
<1>5. TypeOK'
  BY <1>1, <1>2, <1>3 DEF IInv, TypeOK, AuditApproved, batchVars, ReviewPc
<1>6. NoDuplicateActive'
  BY <1>4 DEF IInv, NoDuplicateActive, AuditApproved
<1>7. Bound'
  BY <1>1, <1>4 DEF IInv, Bound, AuditApproved, PipelinePc, ReviewPc, Settling
<1>8. Covered' /\ LookedUp'
  BY <1>1 DEF Covered, LookedUp, PipelinePc, Assessing
<1>9. Decided'
  <2>1. SavedEvent(target, cand.id, Key(cand))' = SavedEvent(target, cand.id, Key(cand))
    BY DEF AuditApproved
  <2>. QED
    BY <1>1, <1>4, <2>1 DEF Decided, AuditApproved, Removing
<1>. QED
  BY <1>5, <1>6, <1>7, <1>8, <1>9 DEF IInv

LEMMA ResolveInv == ASSUME IInv, NEW i \in Ids, Resolve(i) PROVE IInv'
<1>1. /\ pc = "resolve" /\ pc' = "auditResolved" /\ target \in Ids
      /\ i \in Active
  BY DEF IInv, Bound, Decided, Resolve, Settling, Removing
<1>2. memory[i] # None
  BY <1>1 DEF Active
<1>3. /\ memory' \in [Ids -> Entry \cup {None}]
      /\ Active' = Active \ {i}
      /\ \A j \in Ids : memory[j] # None => /\ memory'[j].text = memory[j].text
                                            /\ memory'[j].edited = memory[j].edited
  BY <1>1, <1>2, SupersededMemory DEF Resolve, IInv, TypeOK
<1>4. TypeOK'
  BY <1>1, <1>3 DEF IInv, TypeOK, Resolve, batchVars, ReviewPc
<1>5. \A j \in Active : j \in Ids /\ memory[j] # None
  BY DEF Active
<1>6. NoDuplicateActive'
  BY <1>3, <1>5 DEF IInv, NoDuplicateActive
<1>7. Queued' = Queued
  BY DEF Resolve, Queued
<1>8. Bound'
  BY <1>1, <1>7 DEF IInv, Bound, Resolve, PipelinePc, ReviewPc, Settling
<1>9. Covered' /\ LookedUp'
  BY <1>1 DEF Covered, LookedUp, PipelinePc, Assessing
<1>10. Decided'
  <2>1. SavedEvent(target, cand.id, Key(cand))' = SavedEvent(target, cand.id, Key(cand))
    BY DEF Resolve
  <2>. QED
    BY <1>1, <1>3, <2>1 DEF IInv, Decided, Resolve, Removing
<1>. QED
  BY <1>4, <1>6, <1>8, <1>9, <1>10 DEF IInv

LEMMA AuditResolvedInv == ASSUME IInv, AuditResolved PROVE IInv'
<1>1. pc = "auditResolved" /\ pc' = "resolve" /\ target \in Ids
  BY DEF IInv, Bound, AuditResolved, Settling
<1>2. audit' \subseteq AuditEvent /\ audit \subseteq audit'
  BY <1>1, EventTypes DEF AuditResolved, IInv, TypeOK
<1>3. Active' = Active /\ Queued' = Queued
  BY DEF AuditResolved, Active, Queued
<1>4. TypeOK'
  BY <1>1, <1>2 DEF IInv, TypeOK, AuditResolved, batchVars, ReviewPc
<1>5. NoDuplicateActive'
  BY <1>3 DEF IInv, NoDuplicateActive, AuditResolved
<1>6. Bound'
  BY <1>1, <1>3 DEF IInv, Bound, AuditResolved, PipelinePc, ReviewPc, Settling
<1>7. Covered' /\ LookedUp'
  BY <1>1 DEF Covered, LookedUp, PipelinePc, Assessing
<1>8. Decided'
  <2>1. SavedEvent(target, cand.id, Key(cand))' = SavedEvent(target, cand.id, Key(cand))
    BY DEF AuditResolved
  <2>. QED
    BY <1>1, <1>2, <1>3, <2>1 DEF IInv, Decided, AuditResolved, Removing
<1>. QED
  BY <1>4, <1>5, <1>6, <1>7, <1>8 DEF IInv

\* The candidate leaves the queue; the operation ends or goes on.
LEMMA RemoveInv == ASSUME IInv, RemoveApproved \/ RemoveRejected PROVE IInv'
<1>1. /\ pc \in {"resolve", "removeRejected"}
      /\ pending' = [pending EXCEPT ![cand.id] = None]
      /\ UNCHANGED <<memory, audit, nextId, tripped>>
      /\ \/ Return
         \/ /\ pc' \in {"approve", "reject"} /\ cand' = None
            /\ target' \in {None, target}
            /\ UNCHANGED <<batchVars, first, again, bulk>>
  BY DEF RemoveApproved, RemoveRejected
<1>2. cand \in Candidate /\ cand.id \in Queued /\ cand.id \notin bulk /\ bulk \subseteq Queued
  BY <1>1 DEF IInv, Bound, Settling, ReviewPc
<1>3. /\ pending' \in [Ids -> Candidate \cup {None}]
      /\ Queued' = Queued \ {cand.id}
      /\ \A i \in Queued' : pending'[i] = pending[i]
  BY <1>1, <1>2 DEF IInv, TypeOK, Queued
<1>4. CASE Return
  BY <1>1, <1>3, <1>4, ReturnInv DEF IInv, TypeOK
<1>5. CASE /\ pc' \in {"approve", "reject"} /\ cand' = None
           /\ target' \in {None, target}
           /\ UNCHANGED <<batchVars, first, again, bulk>>
  <2>1. Active' = Active
    BY <1>1 DEF Active
  <2>2. TypeOK'
    BY <1>1, <1>3, <1>5 DEF IInv, TypeOK, batchVars, ReviewPc
  <2>3. NoDuplicateActive'
    BY <1>1, <2>1 DEF IInv, NoDuplicateActive
  <2>4. Bound'
    BY <1>2, <1>3, <1>5 DEF IInv, Bound, PipelinePc, Settling
  <2>5. Covered' /\ LookedUp' /\ Decided'
    BY <1>5 DEF Covered, LookedUp, Decided, PipelinePc, Assessing, Removing
  <2>. QED
    BY <2>2, <2>3, <2>4, <2>5 DEF IInv
<1>. QED
  BY <1>1, <1>4, <1>5

LEMMA RejectCandidateInv == ASSUME IInv, NEW i \in Ids, Reject(i) PROVE IInv'
<1>1. pc = "reject" /\ i \in Queued /\ pc' = "removeRejected"
  BY DEF IInv, Bound, Reject, ReviewPc
<1>2. pending[i] \in Candidate /\ pending[i].id = i /\ cand' = pending[i]
  BY <1>1 DEF IInv, TypeOK, Bound, Reject, Queued
<1>3. RejectedEvent(i, Key(pending[i]), TRUE) \in AuditEvent
  BY <1>2, CandidateKey, EventTypes
<1>4. audit' \subseteq AuditEvent
  BY <1>3 DEF Reject, IInv, TypeOK
<1>5. Active' = Active /\ Queued' = Queued
  BY DEF Reject, Active, Queued
<1>6. TypeOK'
  BY <1>1, <1>2, <1>4 DEF IInv, TypeOK, Reject, batchVars, ReviewPc
<1>7. NoDuplicateActive'
  BY <1>5 DEF IInv, NoDuplicateActive, Reject
<1>8. Bound'
  BY <1>1, <1>2, <1>5 DEF IInv, Bound, Reject, PipelinePc, ReviewPc, Settling
<1>9. Covered' /\ LookedUp'
  BY <1>1 DEF Covered, LookedUp, PipelinePc, Assessing
<1>10. RejectedByUser(cand.id)'
  <2> DEFINE event == RejectedEvent(i, Key(pending[i]), TRUE)
  <2>1. event.type = "candidate_rejected" /\ event.byUser /\ event.entity = i
    BY DEF RejectedEvent
  <2>2. event \in audit' /\ cand'.id = i
    BY <1>2 DEF Reject
  <2>. HIDE DEF event
  <2>. QED
    BY <2>1, <2>2 DEF RejectedByUser
<1>11. Decided'
  BY <1>1, <1>10 DEF Decided, Removing
<1>. QED
  BY <1>6, <1>7, <1>8, <1>9, <1>11 DEF IInv

LEMMA UpdateInv == ASSUME IInv, NEW i \in Ids, NEW text \in Edits, Update(i, text) PROVE IInv'
<1>1. /\ pc = "idle" /\ pc' = "idle" /\ i \in Active
      /\ memory' = [memory EXCEPT ![i].text = text, ![i].edited = TRUE]
  BY DEF Update
<1>2. memory[i] \in Entry /\ text \in Texts
  BY <1>1, LifecycleAssumption DEF IInv, TypeOK, Active
<1> DEFINE e == [memory[i] EXCEPT !.text = text, !.edited = TRUE]
<1>3. e \in Entry /\ e.status = memory[i].status /\ e.edited
  BY <1>2 DEF Entry
<1>4. memory' = [memory EXCEPT ![i] = e]
  BY <1>1
<1>. HIDE DEF e
<1>5. /\ memory' \in [Ids -> Entry \cup {None}] /\ memory'[i] = e
      /\ \A j \in Ids : j # i => memory'[j] = memory[j]
  BY <1>3, <1>4 DEF IInv, TypeOK
<1>6. e # None
  BY <1>3, NoneAssumption
<1>7. Active' = Active
  BY <1>1, <1>3, <1>5, <1>6 DEF Active
<1>8. NoDuplicateActive'
  <2>1. \A j \in Active : j \in Ids /\ (~memory'[j].edited => memory'[j] = memory[j])
    BY <1>3, <1>5 DEF Active
  <2>. QED
    BY <1>7, <2>1 DEF IInv, NoDuplicateActive
<1>9. TypeOK'
  BY <1>1, <1>5 DEF IInv, TypeOK, Update, batchVars
<1>10. Bound'
  BY <1>1 DEF IInv, Bound, Update, Queued, PipelinePc, ReviewPc, Settling
<1>11. Covered' /\ LookedUp' /\ Decided'
  BY <1>1 DEF Covered, LookedUp, Decided, PipelinePc, Assessing, Removing
<1>. QED
  BY <1>8, <1>9, <1>10, <1>11 DEF IInv

LEMMA SupersedeInv ==
  ASSUME IInv, NEW i \in Ids, NEW by \in Replacements, Supersede(i, by)
  PROVE  IInv'
<1>1. /\ pc = "idle" /\ pc' = "auditManual" /\ i \in Active
      /\ memory' = Superseded(i, by) /\ target' = i
      /\ by \in Ids \cup {None}
  BY LifecycleAssumption DEF Supersede
<1>2. memory[i] # None
  BY <1>1 DEF Active
<1>3. /\ memory' \in [Ids -> Entry \cup {None}]
      /\ Active' = Active \ {i}
      /\ \A j \in Ids : /\ memory'[j] = None <=> memory[j] = None
                        /\ memory[j] # None => /\ memory'[j].text = memory[j].text
                                               /\ memory'[j].edited = memory[j].edited
  BY <1>1, <1>2, SupersededMemory DEF IInv, TypeOK
<1>4. TypeOK'
  BY <1>1, <1>3 DEF IInv, TypeOK, Supersede, batchVars
<1>5. \A j \in Active : j \in Ids /\ memory[j] # None
  BY DEF Active
<1>6. NoDuplicateActive'
  BY <1>3, <1>5 DEF IInv, NoDuplicateActive
<1>7. Bound'
  BY <1>1, <1>2, <1>3 DEF IInv, Bound, Supersede, Queued, PipelinePc, ReviewPc, Settling
<1>8. Covered' /\ LookedUp' /\ Decided'
  BY <1>1 DEF Covered, LookedUp, Decided, PipelinePc, Assessing, Removing
<1>. QED
  BY <1>4, <1>6, <1>7, <1>8 DEF IInv

LEMMA AuditManualInv == ASSUME IInv, AuditManual PROVE IInv'
<1>1. target \in Ids /\ memory[target] \in Entry
  BY DEF IInv, TypeOK, Bound, AuditManual
<1>2. memory[target].supersededBy \in Ids \cup {None}
  BY <1>1 DEF Entry
<1>3. SupersededEvent(target, memory[target].supersededBy) \in AuditEvent
  BY <1>1, <1>2, EventTypes
<1>4. audit' \subseteq AuditEvent
  BY <1>3 DEF AuditManual, IInv, TypeOK
<1>. QED
  BY <1>4, ReturnInv DEF AuditManual, IInv, TypeOK, Queued

-----------------------------------------------------------------------------
(* However operations are interrupted *)

LEMMA InitIInv == Init => IInv
<1>. SUFFICES ASSUME Init PROVE IInv
  OBVIOUS
<1>1. TypeOK
  <2>1. <<>> \in Seq(Candidate) /\ 1 \in 1..(MaxId + 1)
    BY LifecycleAssumption
  <2>. QED
    BY <2>1 DEF Init, TypeOK
<1>2. Active = {} /\ Queued = {}
  BY DEF Init, Active, Queued
<1>3. NoDuplicateActive /\ Bound
  BY <1>2 DEF Init, NoDuplicateActive, Bound, PipelinePc, ReviewPc, Settling
<1>4. Covered /\ LookedUp /\ Decided
  BY DEF Init, Covered, LookedUp, Decided, PipelinePc, Assessing, Removing
<1>. QED
  BY <1>1, <1>3, <1>4 DEF IInv

LEMMA StutterIInv == ASSUME IInv, UNCHANGED vars PROVE IInv'
<1>1. UNCHANGED <<memory, pending, audit, nextId, pc, queue, existing, saved, held,
                  processed, cand, first, again, target, bulk, tripped>>
  BY DEF vars, stores, batchVars
<1>2. Active' = Active /\ Queued' = Queued
  BY <1>1 DEF Active, Queued
<1>3. TypeOK'
  BY <1>1 DEF IInv, TypeOK
<1>4. NoDuplicateActive' /\ Bound'
  BY <1>1, <1>2 DEF IInv, NoDuplicateActive, Bound, Settling
<1>5. Covered' /\ LookedUp'
  BY <1>1, <1>2 DEF IInv, Covered, LookedUp, Assessing, SimilarTo
<1>6. Decided'
  <2>1. SavedEvent(target, cand.id, Key(cand))' = SavedEvent(target, cand.id, Key(cand))
    BY <1>1
  <2>. QED
    BY <1>1, <1>2, <2>1 DEF IInv, Decided, Removing, RejectedByUser
<1>. QED
  BY <1>3, <1>4, <1>5, <1>6 DEF IInv

LEMMA EndInv == ASSUME IInv, FinishBatch \/ Interrupt PROVE IInv'
<1>1. Return /\ UNCHANGED <<memory, pending, audit, nextId, tripped>>
  BY DEF FinishBatch, Interrupt, stores
<1>. QED
  BY <1>1, ReturnInv DEF IInv, TypeOK, Queued

LEMMA StepIInv == ASSUME IInv, [Next]_vars PROVE IInv'
<1>1. CASE Pipeline
  <2>1. ASSUME NEW batch \in Batches, Ingest(batch) PROVE IInv'
    BY <2>1, IngestInv
  <2>2. CASE RejectByPolicy \/ RejectDuplicate \/ RejectHandled
    BY <2>2, RejectInv
  <2>3. CASE AssessConflicts
    BY <2>3, AssessConflictsInv
  <2>4. CASE SupersedeConflict
    BY <2>4, SupersedeConflictInv
  <2>5. CASE AuditSupersededConflict \/ ConflictsSuperseded \/ RejectRecommended
    BY <2>5, RecommendedInv
  <2>6. CASE AutoSave
    BY <2>6, AutoSaveInv
  <2>7. CASE AuditSaved
    BY <2>7, AuditSavedInv
  <2>8. CASE AskUser
    BY <2>8, AskUserInv
  <2>9. CASE FinishBatch
    BY <2>9, EndInv
  <2>. QED
    BY <1>1, <2>1, <2>2, <2>3, <2>4, <2>5, <2>6, <2>7, <2>8, <2>9 DEF Pipeline
<1>2. CASE Review
  <2>1. CASE BeginApprove \/ BeginReject
    BY <2>1, BeginInv
  <2>2. ASSUME NEW i \in Ids, Approve(i) PROVE IInv'
    BY <2>2, ApproveInv
  <2>3. CASE AuditApproved
    BY <2>3, AuditApprovedInv
  <2>4. ASSUME NEW i \in Ids, Resolve(i) PROVE IInv'
    BY <2>4, ResolveInv
  <2>5. CASE AuditResolved
    BY <2>5, AuditResolvedInv
  <2>6. CASE RemoveApproved \/ RemoveRejected
    BY <2>6, RemoveInv
  <2>7. ASSUME NEW i \in Ids, Reject(i) PROVE IInv'
    BY <2>7, RejectCandidateInv
  <2>. QED
    BY <1>2, <2>1, <2>2, <2>3, <2>4, <2>5, <2>6, <2>7 DEF Review
<1>3. CASE Maintenance
  <2>1. ASSUME NEW i \in Ids, NEW text \in Edits, Update(i, text) PROVE IInv'
    BY <2>1, UpdateInv
  <2>2. ASSUME NEW i \in Ids, NEW by \in Replacements, Supersede(i, by) PROVE IInv'
    BY <2>2, SupersedeInv
  <2>3. CASE AuditManual
    BY <2>3, AuditManualInv
  <2>. QED
    BY <1>3, <2>1, <2>2, <2>3 DEF Maintenance
<1>4. CASE Interrupt
  BY <1>4, EndInv
<1>5. CASE UNCHANGED vars
  BY <1>5, StutterIInv
<1>. QED
  BY <1>1, <1>2, <1>3, <1>4, <1>5 DEF Next

\* Whatever the texts, the detectors and the candidates, and wherever an
\* operation is interrupted: the state keeps its types, the running
\* operation finds what it works on, and what it will write is still right.
THEOREM Lifecycle == Spec => []IInv
BY InitIInv, StepIInv, PTL DEF Spec

\* Two memories with the same content are never active at once, unless one
\* of them was edited.
THEOREM NeverTwoAlike == Spec => []NoDuplicateActive
<1>1. IInv => NoDuplicateActive
  BY DEF IInv
<1>. QED
  BY <1>1, Lifecycle, PTL

-----------------------------------------------------------------------------
(* What a step does to the two stores *)

\* A memory is superseded, by hand or by the pipeline or an approval.
SupersedesOne ==
  /\ pending' = pending
  /\ \E i \in Ids, by \in Ids \cup {None} : memory[i] # None /\ memory' = Superseded(i, by)

\* The other steps touch neither store.
LEMMA StoreSteps ==
  ASSUME IInv, [Next]_vars
  PROVE  \/ UNCHANGED <<memory, pending>>
         \/ AutoSave \/ AskUser
         \/ \E i \in Ids : Approve(i)
         \/ RemoveApproved \/ RemoveRejected
         \/ SupersedesOne
         \/ \E i \in Ids, text \in Edits : Update(i, text)
<1>1. CASE UNCHANGED vars
  BY <1>1 DEF vars, stores
<1>2. CASE Pipeline
  <2>1. CASE \E batch \in Batches : Ingest(batch)
    BY <2>1 DEF Ingest
  <2>2. CASE RejectByPolicy \/ RejectDuplicate \/ RejectHandled
    BY <2>2 DEF RejectByPolicy, RejectDuplicate, RejectHandled, RejectHead
  <2>3. CASE AssessConflicts \/ ConflictsSuperseded \/ FinishBatch
    BY <2>3 DEF AssessConflicts, ConflictsSuperseded, FinishBatch, stores
  <2>4. CASE SupersedeConflict
    <3>1. PICK i \in first \cup again : \/ i \in Active /\ memory' = Superseded(i, None) /\ pending' = pending
                                        \/ UNCHANGED stores
      BY <2>4 DEF SupersedeConflict
    <3>2. i \in Ids /\ (i \in Active => memory[i] # None)
      BY <3>1 DEF IInv, TypeOK, Active
    <3>. QED
      BY <3>1, <3>2 DEF stores, SupersedesOne
  <2>5. CASE AuditSupersededConflict \/ AuditSaved \/ RejectRecommended
    BY <2>5 DEF AuditSupersededConflict, AuditSaved, RejectRecommended
  <2>. QED
    BY <1>2, <2>1, <2>2, <2>3, <2>4, <2>5 DEF Pipeline
<1>3. CASE Review
  <2>1. CASE BeginApprove \/ BeginReject
    BY <2>1 DEF BeginApprove, BeginReject, stores
  <2>2. CASE AuditApproved \/ AuditResolved
    BY <2>2 DEF AuditApproved, AuditResolved
  <2>3. ASSUME NEW i \in Ids, Resolve(i) PROVE SupersedesOne
    <3>1. target \in Ids /\ i \in Active
      BY <2>3 DEF IInv, Bound, Decided, Resolve, Settling, Removing
    <3>2. memory[i] # None
      BY <3>1 DEF Active
    <3>. QED
      BY <2>3, <3>1, <3>2 DEF Resolve, SupersedesOne
  <2>4. ASSUME NEW i \in Ids, Reject(i) PROVE UNCHANGED <<memory, pending>>
    BY <2>4 DEF Reject
  <2>. QED
    BY <1>3, <2>1, <2>2, <2>3, <2>4 DEF Review
<1>4. CASE Maintenance
  <2>1. ASSUME NEW i \in Ids, NEW by \in Replacements, Supersede(i, by) PROVE SupersedesOne
    <3>1. memory[i] # None /\ by \in Ids \cup {None}
      BY <2>1, LifecycleAssumption DEF Supersede, Active
    <3>. QED
      BY <2>1, <3>1 DEF Supersede, SupersedesOne
  <2>2. CASE AuditManual
    BY <2>2 DEF AuditManual
  <2>. QED
    BY <1>4, <2>1, <2>2 DEF Maintenance
<1>5. CASE Interrupt
  BY <1>5 DEF Interrupt, stores
<1>. QED
  BY <1>1, <1>2, <1>3, <1>4, <1>5 DEF Next

\* A removal takes one candidate out of the queue.
LEMMA RemovedOne ==
  ASSUME IInv, RemoveApproved \/ RemoveRejected
  PROVE  /\ cand.id \in Queued /\ cand = pending[cand.id]
         /\ Queued' = Queued \ {cand.id} /\ Active' = Active
         /\ \A i \in Queued' : pending'[i] = pending[i]
<1>1. pc \in {"resolve", "removeRejected"} /\ memory' = memory
      /\ pending' = [pending EXCEPT ![cand.id] = None]
  BY DEF RemoveApproved, RemoveRejected
<1>2. cand.id \in Queued /\ cand = pending[cand.id]
  BY <1>1 DEF IInv, Bound, Settling
<1>. QED
  BY <1>1, <1>2 DEF IInv, TypeOK, Queued, Active

LEMMA SupersededOne == ASSUME IInv, SupersedesOne PROVE Active' \subseteq Active /\ Queued' = Queued
<1>1. PICK i \in Ids, by \in Ids \cup {None} : memory[i] # None /\ memory' = Superseded(i, by)
  BY DEF SupersedesOne
<1>2. Active' = Active \ {i}
  BY <1>1, SupersededMemory DEF IInv, TypeOK
<1>. QED
  BY <1>2 DEF SupersedesOne, Queued

\* An update changes one memory and keeps it as active as it was.
LEMMA UpdatedOne ==
  ASSUME IInv, NEW i \in Ids, NEW text \in Edits, Update(i, text)
  PROVE  /\ Active' = Active /\ memory[i] # None
         /\ memory'[i] # None /\ memory'[i].edited
         /\ \A j \in Ids : j # i => memory'[j] = memory[j]
<1>1. i \in Active /\ memory' = [memory EXCEPT ![i].text = text, ![i].edited = TRUE]
  BY DEF Update
<1>2. memory[i] \in Entry /\ memory[i] # None /\ text \in Texts
  BY <1>1, LifecycleAssumption DEF IInv, TypeOK, Active
<1> DEFINE e == [memory[i] EXCEPT !.text = text, !.edited = TRUE]
<1>3. e \in Entry /\ e.status = memory[i].status /\ e.edited
  BY <1>2 DEF Entry
<1>4. memory' = [memory EXCEPT ![i] = e]
  BY <1>1
<1>. HIDE DEF e
<1>5. memory'[i] = e /\ \A j \in Ids : j # i => memory'[j] = memory[j]
  BY <1>4 DEF IInv, TypeOK
<1>6. e # None
  BY <1>3, NoneAssumption
<1>7. Active' = Active
  BY <1>1, <1>2, <1>3, <1>5, <1>6 DEF Active
<1>. QED
  BY <1>2, <1>3, <1>5, <1>6, <1>7

\* Only the candidate the pipeline has found fresh enters.
LEMMA OnlyFreshEnters ==
  ASSUME IInv, [Next]_vars, NEW i \in Entered
  PROVE  pc = "decide" /\ EntryKey(i)' = Key(cand)
<1>1. i \in Ids /\ (i \in Queued' \ Queued \/ i \in (Active' \ Active) \ Queued)
  BY DEF Entered, Active, Queued
<1>2. CASE UNCHANGED <<memory, pending>>
  BY <1>1, <1>2 DEF Active, Queued
<1>3. CASE AutoSave
  <2>1. pc = "decide" /\ cand \in Candidate
    BY <1>3 DEF IInv, Bound, AutoSave, PipelinePc
  <2>2. cand.id \in Ids
    BY <2>1 DEF Candidate
  <2>3. Active' = Active \cup {cand.id} /\ memory'[cand.id] = EntryOf(cand)
    BY <1>3, <2>1, <2>2, SavedMemory DEF AutoSave, IInv, TypeOK
  <2>4. Queued' = Queued
    BY <1>3 DEF AutoSave, Queued
  <2>5. i = cand.id /\ i \notin Queued'
    BY <1>1, <2>3, <2>4
  <2>6. EntryKey(i)' = Key(EntryOf(cand))
    BY <2>3, <2>5 DEF EntryKey, Key
  <2>. QED
    BY <2>1, <2>6, EntryOfCandidate
<1>4. CASE AskUser
  <2>1. pc = "decide" /\ cand \in Candidate
    BY <1>4 DEF IInv, Bound, AskUser, PipelinePc
  <2>2. cand.id \in Ids
    BY <2>1 DEF Candidate
  <2>3. Active' = Active /\ pending' = [pending EXCEPT ![cand.id] = cand]
    BY <1>4 DEF AskUser, Active
  <2>4. i = cand.id /\ i \in Queued' /\ pending'[i] = cand
    BY <1>1, <2>2, <2>3 DEF Queued, IInv, TypeOK
  <2>. QED
    BY <2>1, <2>4 DEF EntryKey, Key
<1>5. CASE \E j \in Ids : Approve(j)
  <2>1. PICK j \in Ids : Approve(j)
    BY <1>5
  <2>2. j \in Queued /\ Queued' = Queued
    BY <2>1 DEF Approve, IInv, Bound, ReviewPc, Queued
  <2>3. pending[j] \in Candidate
    BY <2>2 DEF IInv, TypeOK, Queued
  <2>4. Active' \subseteq Active \cup {j}
    <3>1. CASE memory' = memory
      BY <3>1 DEF Active
    <3>2. CASE memory' = [memory EXCEPT ![j] = EntryOf(pending[j])]
      BY <2>3, <3>2, SavedMemory DEF IInv, TypeOK
    <3>. QED
      BY <2>1, <3>1, <3>2 DEF Approve
  <2>. QED
    BY <1>1, <2>2, <2>4
<1>6. CASE RemoveApproved \/ RemoveRejected
  BY <1>1, <1>6, RemovedOne
<1>7. CASE SupersedesOne
  BY <1>1, <1>7, SupersededOne
<1>8. CASE \E j \in Ids, text \in Edits : Update(j, text)
  <2>1. PICK j \in Ids, text \in Edits : Update(j, text)
    BY <1>8
  <2>2. Active' = Active
    BY <2>1, UpdatedOne
  <2>3. Queued' = Queued
    BY <2>1 DEF Update, Queued
  <2>. QED
    BY <1>1, <2>2, <2>3
<1>. QED
  BY <1>2, <1>3, <1>4, <1>5, <1>6, <1>7, <1>8, StoreSteps

\* Only a candidate that was decided about leaves.
LEMMA OnlyDecidedLeaves ==
  ASSUME IInv, [Next]_vars, NEW i \in Queued \ Queued'
  PROVE  (RemoveApproved \/ RemoveRejected) /\ i = cand.id /\ pending[i] = cand
<1>1. i \in Ids
  BY DEF Queued
<1>2. CASE UNCHANGED <<memory, pending>> \/ AutoSave \/ (\E j \in Ids : Approve(j))
           \/ SupersedesOne \/ (\E j \in Ids, text \in Edits : Update(j, text))
  <2>1. pending' = pending
    BY <1>2 DEF AutoSave, Approve, SupersedesOne, Update
  <2>. QED
    BY <2>1 DEF Queued
<1>3. CASE AskUser
  <2>1. cand \in Candidate /\ cand # None
    BY <1>3, NoneAssumption DEF IInv, Bound, AskUser, PipelinePc
  <2>2. pending' = [pending EXCEPT ![cand.id] = cand]
    BY <1>3 DEF AskUser
  <2>. QED
    BY <1>1, <2>1, <2>2 DEF Queued, IInv, TypeOK
<1>4. CASE RemoveApproved \/ RemoveRejected
  BY <1>4, RemovedOne
<1>. QED
  BY <1>2, <1>3, <1>4, StoreSteps

\* The save on record of the candidate an approval removes.
LEMMA SaveOnRecord ==
  ASSUME IInv, RemoveApproved
  PROVE  /\ SavedEvent(target, cand.id, Key(cand)) \in SavedFor(cand.id)
         /\ SavedEvent(target, cand.id, Key(cand)).entity = target
         /\ (cand.conflictWith \cap Active) \subseteq {target}
<1>1. pc = "resolve" /\ first = {}
  BY DEF RemoveApproved
<1>2. /\ SavedEvent(target, cand.id, Key(cand)) \in audit
      /\ (cand.conflictWith \cap Active) \ {target} \subseteq first
  BY <1>1 DEF IInv, Decided, Removing
<1>3. /\ SavedEvent(target, cand.id, Key(cand)).type = "memory_saved"
      /\ SavedEvent(target, cand.id, Key(cand)).by = cand.id
      /\ SavedEvent(target, cand.id, Key(cand)).entity = target
  BY DEF SavedEvent
<1>. QED
  BY <1>1, <1>2, <1>3 DEF SavedFor

\* A replay of a session brings nothing back that its log has handled, at
\* whatever points operations were interrupted before.
THEOREM ReplayBringsNothingBack == Spec => HandledNeverReturns
<1>1. ASSUME IInv, [Next]_vars
      PROVE  \A i \in Entered : EntryKey(i)' \notin Handled(audit)
  <2>1. ASSUME NEW i \in Entered PROVE EntryKey(i)' \notin Handled(audit)
    <3>1. pc = "decide" /\ EntryKey(i)' = Key(cand)
      BY <1>1, OnlyFreshEnters
    <3>2. Key(cand) \notin Handled(audit)
      BY <1>1, <3>1 DEF IInv, LookedUp, Assessing
    <3>. QED
      BY <3>1, <3>2
  <2>. QED
    BY <2>1
<1>. QED
  BY <1>1, Lifecycle, PTL DEF Spec, HandledNeverReturns

\* No candidate leaves the review queue before its decision is in the log.
THEOREM DecidedBeforeRemoved == Spec => DecisionOnRecord
<1>1. ASSUME IInv, [Next]_vars
      PROVE  \A i \in Queued \ Queued' : SavedFor(i) # {} \/ RejectedByUser(i)
  <2>1. ASSUME NEW i \in Queued \ Queued' PROVE SavedFor(i) # {} \/ RejectedByUser(i)
    <3>1. (RemoveApproved \/ RemoveRejected) /\ i = cand.id
      BY <1>1, OnlyDecidedLeaves
    <3>2. CASE RemoveApproved
      BY <1>1, <3>1, <3>2, SaveOnRecord
    <3>3. CASE RemoveRejected
      BY <1>1, <3>1, <3>3 DEF IInv, Decided, RemoveRejected
    <3>. QED
      BY <3>1, <3>2, <3>3
  <2>. QED
    BY <2>1
<1>. QED
  BY <1>1, Lifecycle, PTL DEF Spec, DecisionOnRecord

\* An approval has settled every conflict of its candidate when the candidate
\* leaves the queue, also when it was retried.
THEOREM ConflictsSettled == Spec => ApprovalSettlesConflicts
<1>1. ASSUME IInv, [Next]_vars
      PROVE  \A i \in Queued \ Queued' :
               RejectedByUser(i) \/
               \A j \in pending[i].conflictWith :
                 j \in Active => \E event \in SavedFor(i) : event.entity = j
  <2>1. ASSUME NEW i \in Queued \ Queued', ~RejectedByUser(i),
               NEW j \in pending[i].conflictWith, j \in Active
        PROVE  \E event \in SavedFor(i) : event.entity = j
    <3>1. (RemoveApproved \/ RemoveRejected) /\ i = cand.id /\ pending[i] = cand
      BY <1>1, OnlyDecidedLeaves
    <3>2. RemoveApproved
      BY <1>1, <2>1, <3>1 DEF IInv, Decided, RemoveRejected
    <3>3. j = target
      BY <1>1, <2>1, <3>1, <3>2, SaveOnRecord
    <3>. QED
      BY <1>1, <3>1, <3>2, <3>3, SaveOnRecord
  <2>. QED
    BY <2>1
<1>. QED
  BY <1>1, Lifecycle, PTL DEF Spec, ApprovalSettlesConflicts

-----------------------------------------------------------------------------
(* Where no operation is interrupted *)

\* What is handled stays handled.
LEMMA HandledGrows == ASSUME audit \subseteq audit' PROVE Handled(audit) \subseteq Handled(audit')
BY DEF Handled

\* The log only grows.
LEMMA LogGrows == ASSUME [Next]_vars PROVE audit \subseteq audit'
<1>1. CASE UNCHANGED vars
  BY <1>1 DEF vars, stores
<1>2. CASE Pipeline
  BY <1>2 DEF Pipeline, Ingest, RejectByPolicy, RejectDuplicate, RejectHandled, RejectHead,
              AssessConflicts, SupersedeConflict, AuditSupersededConflict, ConflictsSuperseded,
              AutoSave, AuditSaved, AskUser, RejectRecommended, FinishBatch, stores
<1>3. CASE Review
  BY <1>3 DEF Review, BeginApprove, Approve, AuditApproved, Resolve, AuditResolved,
              RemoveApproved, BeginReject, Reject, RemoveRejected, stores
<1>4. CASE Maintenance
  BY <1>4 DEF Maintenance, Update, Supersede, AuditManual
<1>5. CASE Interrupt
  BY <1>5 DEF Interrupt, stores
<1>. QED
  BY <1>1, <1>2, <1>3, <1>4, <1>5 DEF Next

\* Nothing is taken from a session by this step.
LEMMA RecordedKept ==
  ASSUME Recorded, audit \subseteq audit', pc \notin {"auditSaved", "auditApproved"},
         \A i \in Ids :
           memory'[i] # None /\ ~memory'[i].edited =>
             /\ memory[i] # None /\ ~memory[i].edited
             /\ memory'[i].session = memory[i].session
             /\ Key(memory'[i]) = Key(memory[i])
  PROVE  Recorded'
<1>1. Handled(audit) \subseteq Handled(audit')
  BY HandledGrows
<1>. QED
  BY <1>1 DEF Recorded

\* One memory is written, and its event is what the operation does next.
LEMMA RecordedNext ==
  ASSUME Recorded, audit' = audit, pc \notin {"auditSaved", "auditApproved"},
         pc' \in {"auditSaved", "auditApproved"}, cand' \in Candidate,
         memory \in [Ids -> Entry \cup {None}], NEW i \in Ids,
         memory' = memory \/ memory' = [memory EXCEPT ![i] = EntryOf(cand')]
  PROVE  Recorded'
<1>1. CASE memory' = memory
  BY <1>1 DEF Recorded
<1>2. CASE memory' = [memory EXCEPT ![i] = EntryOf(cand')]
  <2>1. memory'[i] = EntryOf(cand') /\ \A j \in Ids : j # i => memory'[j] = memory[j]
    BY <1>2
  <2>2. Key(memory'[i]) = Key(cand')
    BY <2>1, EntryOfCandidate
  <2>. QED
    BY <2>1, <2>2 DEF Recorded
<1>. QED
  BY <1>1, <1>2

\* The event that was to come has come.
LEMMA RecordedNow ==
  ASSUME Recorded, memory' = memory, memory \in [Ids -> Entry \cup {None}],
         pc \in {"auditSaved", "auditApproved"}, audit \subseteq audit',
         Key(cand) \in Handled(audit') \cup {NoKey}
  PROVE  Recorded'
<1>1. Handled(audit) \subseteq Handled(audit')
  BY HandledGrows
<1>2. ASSUME NEW i \in Ids, memory[i] # None, memory[i].session # Manual
      PROVE  Key(memory[i]) # NoKey
  <2>1. memory[i] \in Entry
    BY <1>2
  <2>2. memory[i].session \in Sessions /\ memory[i].text \in Texts
    BY <1>2, <2>1 DEF Entry
  <2>3. Key(memory[i]) \in Keys
    BY <1>2, <2>2, LifecycleAssumption DEF Key, Keys
  <2>. QED
    BY <2>3, NoneAssumption
<1>. QED
  BY <1>1, <1>2 DEF Recorded

LEMMA RecordedSuperseded == ASSUME IInv, Recorded, SupersedesOne, audit \subseteq audit',
                                   pc \notin {"auditSaved", "auditApproved"}
                            PROVE  Recorded'
<1>1. PICK i \in Ids, by \in Ids \cup {None} : memory[i] # None /\ memory' = Superseded(i, by)
  BY DEF SupersedesOne
<1>2. \A j \in Ids : /\ memory'[j] = None <=> memory[j] = None
                     /\ memory[j] # None =>
                          /\ memory'[j].text = memory[j].text
                          /\ memory'[j].session = memory[j].session
                          /\ memory'[j].edited = memory[j].edited
  BY <1>1, SupersededMemory DEF IInv, TypeOK
<1>3. \A j \in Ids : memory[j] # None => Key(memory'[j]) = Key(memory[j])
  BY <1>2 DEF Key
<1>. QED
  BY <1>2, <1>3, RecordedKept

\* Whatever is taken from a session and not edited is handled, or about to be.
LEMMA StepRecorded == ASSUME IInv, Recorded, [Next]_vars, ~Interrupt PROVE Recorded'
<1>0. audit \subseteq audit'
  BY LogGrows
<1>1. CASE AutoSave
  <2>1. pc = "decide" /\ pc' = "auditSaved" /\ cand' \in Candidate /\ cand' = cand /\ audit' = audit
    BY <1>1 DEF IInv, Bound, AutoSave, PipelinePc
  <2>2. cand.id \in Ids
    BY <2>1 DEF Candidate
  <2>3. memory' = [memory EXCEPT ![cand.id] = EntryOf(cand')]
    BY <1>1, <2>1 DEF AutoSave
  <2>. QED
    BY <2>1, <2>2, <2>3, RecordedNext DEF IInv, TypeOK
<1>2. CASE \E i \in Ids : Approve(i)
  <2>1. PICK i \in Ids : Approve(i)
    BY <1>2
  <2>2. pc = "approve" /\ pc' = "auditApproved" /\ i \in Queued /\ cand' = pending[i] /\ audit' = audit
    BY <2>1 DEF IInv, Bound, Approve, ReviewPc
  <2>3. cand' \in Candidate
    BY <2>2 DEF IInv, TypeOK, Queued
  <2>4. memory' = memory \/ memory' = [memory EXCEPT ![i] = EntryOf(cand')]
    BY <2>1, <2>2 DEF Approve
  <2>. QED
    BY <2>2, <2>3, <2>4, RecordedNext DEF IInv, TypeOK
<1>3. CASE AuditSaved
  <2>1. Key(cand) \in Handled(audit') \cup {NoKey}
    BY <1>3, HandledBy DEF AuditSaved
  <2>. QED
    BY <1>0, <1>3, <2>1, RecordedNow DEF AuditSaved, IInv, TypeOK
<1>4. CASE AuditApproved
  <2>1. Key(cand) \in Handled(audit') \cup {NoKey}
    BY <1>4, HandledBy DEF AuditApproved
  <2>. QED
    BY <1>0, <1>4, <2>1, RecordedNow DEF AuditApproved, IInv, TypeOK
<1>5. CASE \E i \in Ids, text \in Edits : Update(i, text)
  <2>1. PICK i \in Ids, text \in Edits : Update(i, text)
    BY <1>5
  <2>2. pc = "idle" /\ memory'[i].edited /\ \A j \in Ids : j # i => memory'[j] = memory[j]
    BY <2>1, UpdatedOne DEF Update
  <2>. QED
    BY <1>0, <2>2, RecordedKept
<1>6. CASE UNCHANGED vars
  <2>1. memory' = memory /\ audit' = audit /\ pc' = pc /\ cand' = cand
    BY <1>6 DEF vars, stores
  <2>. QED
    BY <2>1 DEF Recorded
<1>7. CASE /\ Next /\ ~AutoSave /\ ~(\E i \in Ids : Approve(i)) /\ ~AuditSaved /\ ~AuditApproved
           /\ ~(\E i \in Ids, text \in Edits : Update(i, text))
  <2>1. pc \notin {"auditSaved", "auditApproved"}
    BY <1>7 DEF Next, Pipeline, Review, Maintenance, Ingest, RejectByPolicy, RejectDuplicate,
                RejectHandled, AssessConflicts, SupersedeConflict, AuditSupersededConflict,
                ConflictsSuperseded, AskUser, RejectRecommended, FinishBatch, BeginApprove,
                Resolve, AuditResolved, RemoveApproved, BeginReject, Reject, RemoveRejected,
                Supersede, AuditManual
  <2>2. memory' = memory \/ SupersedesOne
    BY <1>7, StoreSteps DEF AskUser, RemoveApproved, RemoveRejected
  <2>3. CASE memory' = memory
    BY <1>0, <2>1, <2>3, RecordedKept
  <2>. QED
    BY <1>0, <2>1, <2>2, <2>3, RecordedSuperseded
<1>. QED
  BY <1>1, <1>2, <1>3, <1>4, <1>5, <1>6, <1>7

\* Only a rejection by the user makes one.
LEMMA NotByUser ==
  ASSUME \A event \in audit' : event \in audit \/ event.type # "candidate_rejected" \/ ~event.byUser,
         audit \subseteq audit'
  PROVE  UserRejections' = UserRejections /\ \A i : RejectedByUser(i)' <=> RejectedByUser(i)
<1>1. UserRejections' = UserRejections
  BY DEF UserRejections
<1>2. \A i : RejectedByUser(i) <=> \E event \in UserRejections : event.entity = i
  BY DEF RejectedByUser, UserRejections
<1>3. \A i : RejectedByUser(i)' <=> \E event \in UserRejections' : event.entity = i
  BY DEF RejectedByUser, UserRejections
<1>. QED
  BY <1>1, <1>2, <1>3

LEMMA EventOrigins ==
  /\ \A i, j, key : SavedEvent(i, j, key).type = "memory_saved"
  /\ \A i, j : SupersededEvent(i, j).type = "memory_superseded"
  /\ \A i, key, byUser : /\ RejectedEvent(i, key, byUser).byUser = byUser
                         /\ RejectedEvent(i, key, byUser).entity = i
BY DEF SavedEvent, SupersededEvent, RejectedEvent

LEMMA RejectedSteps ==
  ASSUME [Next]_vars
  PROVE  \/ UserRejections' = UserRejections /\ \A i : RejectedByUser(i)' <=> RejectedByUser(i)
         \/ \E i \in Ids : Reject(i)
<1>1. CASE /\ [Next]_vars /\ ~(\E i \in Ids : Reject(i))
  <2>1. \/ audit' = audit
        \/ \E i, j, key : audit' = audit \cup {SavedEvent(i, j, key)}
        \/ \E i, j : audit' = audit \cup {SupersededEvent(i, j)}
        \/ \E i, key : audit' = audit \cup {RejectedEvent(i, key, FALSE)}
        \/ audit' = audit \cup {SupersededEvent(i, target) : i \in again}
    <3>1. CASE UNCHANGED vars
      BY <3>1 DEF vars, stores
    <3>2. CASE RejectByPolicy \/ RejectDuplicate \/ RejectHandled
      BY <3>2 DEF RejectByPolicy, RejectDuplicate, RejectHandled, RejectHead
    <3>3. CASE AuditSupersededConflict \/ AuditManual
      BY <3>3 DEF AuditSupersededConflict, AuditManual
    <3>4. CASE AuditSaved \/ AuditApproved
      BY <3>4 DEF AuditSaved, AuditApproved
    <3>5. CASE RejectRecommended
      BY <3>5 DEF RejectRecommended
    <3>6. CASE AuditResolved
      BY <3>6 DEF AuditResolved
    <3>7. CASE \/ \E batch \in Batches : Ingest(batch)
               \/ AssessConflicts \/ SupersedeConflict \/ ConflictsSuperseded
               \/ AutoSave \/ AskUser \/ FinishBatch
               \/ BeginApprove \/ (\E i \in Ids : Approve(i)) \/ (\E i \in Ids : Resolve(i))
               \/ RemoveApproved \/ BeginReject \/ RemoveRejected
               \/ (\E i \in Ids, text \in Edits : Update(i, text))
               \/ (\E i \in Ids, by \in Replacements : Supersede(i, by))
               \/ Interrupt
      BY <3>7 DEF Ingest, AssessConflicts, SupersedeConflict, ConflictsSuperseded, AutoSave,
                  AskUser, FinishBatch, BeginApprove, Approve, Resolve, RemoveApproved,
                  BeginReject, RemoveRejected, Update, Supersede, Interrupt, stores
    <3>. QED
      BY <1>1, <3>1, <3>2, <3>3, <3>4, <3>5, <3>6, <3>7 DEF Next, Pipeline, Review, Maintenance
  <2>2. audit \subseteq audit'
    BY LogGrows
  <2>3. \A event \in audit' : event \in audit \/ event.type # "candidate_rejected" \/ ~event.byUser
    <3>1. CASE audit' = audit
      BY <3>1
    <3>2. CASE \E i, j, key : audit' = audit \cup {SavedEvent(i, j, key)}
      <4>1. PICK i, j, key : audit' = audit \cup {SavedEvent(i, j, key)}
        BY <3>2
      <4>2. SavedEvent(i, j, key).type # "candidate_rejected"
        BY EventOrigins
      <4>. QED
        BY <4>1, <4>2
    <3>3. CASE \E i, j : audit' = audit \cup {SupersededEvent(i, j)}
      <4>1. PICK i, j : audit' = audit \cup {SupersededEvent(i, j)}
        BY <3>3
      <4>2. SupersededEvent(i, j).type # "candidate_rejected"
        BY EventOrigins
      <4>. QED
        BY <4>1, <4>2
    <3>4. CASE \E i, key : audit' = audit \cup {RejectedEvent(i, key, FALSE)}
      <4>1. PICK i, key : audit' = audit \cup {RejectedEvent(i, key, FALSE)}
        BY <3>4
      <4>2. ~RejectedEvent(i, key, FALSE).byUser
        BY EventOrigins
      <4>. QED
        BY <4>1, <4>2
    <3>5. CASE audit' = audit \cup {SupersededEvent(i, target) : i \in again}
      <4>1. \A i : SupersededEvent(i, target).type # "candidate_rejected"
        BY EventOrigins
      <4>. QED
        BY <3>5, <4>1
    <3>. QED
      BY <2>1, <3>1, <3>2, <3>3, <3>4, <3>5
  <2>. QED
    BY <2>2, <2>3, NotByUser
<1>. QED
  BY <1>1

\* A step that saves, queues and rejects no candidate of its own.
LEMMA OnceKept ==
  ASSUME IInv, Once, nextId' = nextId,
         \A i \in Ids : memory'[i] = None <=> memory[i] = None,
         \A i \in Ids : pending[i] = None => pending'[i] = None,
         \A i : RejectedByUser(i)' <=> RejectedByUser(i),
         \/ queue' = queue
         \/ queue' = <<>>
         \/ queue # <<>> /\ queue' = Tail(queue),
         Assessing' => \/ Assessing /\ cand' = cand
                       \/ queue # <<>> /\ queue' = Tail(queue) /\ cand'.id = Head(queue).id,
         Settling => (Settling' /\ cand' = cand) \/ cand.id \notin Queued',
         pc = "removeRejected" => (pc' = "removeRejected" /\ cand' = cand) \/ cand.id \notin Queued'
  PROVE  Once'
<1>1. Queued' \subseteq Queued /\ Queued \subseteq Ids /\ nextId..MaxId \subseteq Ids
  BY LifecycleAssumption DEF Queued, IInv, TypeOK, Ids
<1>2. \A i \in Ids : Unused(i) => Unused(i)'
  BY DEF Unused
<1>3. \A n \in 1..Len(queue) : queue[n].id \in Ids
  <2>1. \A n \in 1..Len(queue) : queue[n] \in Candidate
    BY ElementOfSeq DEF IInv, TypeOK
  <2>. QED
    BY <2>1 DEF Candidate
<1>4. /\ \A n \in 1..Len(queue') : \E m \in 1..Len(queue) : queue'[n] = queue[m]
      /\ \A n, m \in 1..Len(queue') : queue'[n].id = queue'[m].id => n = m
  <2>1. CASE queue' = queue
    BY <2>1 DEF Once
  <2>2. CASE queue' = <<>>
    BY <2>2
  <2>3. CASE queue # <<>> /\ queue' = Tail(queue)
    <3>1. /\ Len(queue) \in Nat /\ Len(queue') = Len(queue) - 1
          /\ \A n \in 1..Len(queue') : n + 1 \in 1..Len(queue) /\ queue'[n] = queue[n + 1]
      BY <2>3, HeadAndTail DEF IInv, TypeOK
    <3>. QED
      BY <3>1 DEF Once
  <2>. QED
    BY <2>1, <2>2, <2>3
<1>5. (\A i \in nextId..MaxId : Unused(i))'
  BY <1>1, <1>2 DEF Once
<1>6. (\A n \in 1..Len(queue) : Unused(queue[n].id) /\ queue[n].id < nextId)'
  <2>1. SUFFICES ASSUME NEW n \in (1..Len(queue))'
                 PROVE  (Unused(queue[n].id) /\ queue[n].id < nextId)'
    OBVIOUS
  <2>2. PICK m \in 1..Len(queue) : queue'[n] = queue[m]
    BY <1>4
  <2>3. Unused(queue[m].id) /\ queue[m].id < nextId /\ queue[m].id \in Ids
    BY <1>3 DEF Once
  <2>. QED
    BY <2>2, <2>3 DEF Unused
<1>7. (Assessing => /\ Unused(cand.id) /\ cand.id < nextId
                    /\ \A n \in 1..Len(queue) : queue[n].id # cand.id)'
  <2>1. SUFFICES ASSUME Assessing'
                 PROVE  /\ (Unused(cand.id) /\ cand.id < nextId)'
                        /\ \A n \in 1..Len(queue') : queue'[n].id # cand'.id
    OBVIOUS
  <2>2. CASE Assessing /\ cand' = cand
    <3>1. Unused(cand.id) /\ cand.id < nextId /\ \A n \in 1..Len(queue) : queue[n].id # cand.id
      BY <2>2 DEF Once
    <3>2. cand.id \in Ids
      <4>1. cand \in Candidate
        BY <2>2 DEF IInv, Bound, Assessing, PipelinePc
      <4>. QED
        BY <4>1 DEF Candidate
    <3>. QED
      BY <1>2, <1>4, <2>2, <3>1, <3>2 DEF Unused
  <2>3. CASE queue # <<>> /\ queue' = Tail(queue) /\ cand'.id = Head(queue).id
    <3>1. /\ Len(queue) \in Nat /\ 1 \in 1..Len(queue) /\ Head(queue) = queue[1]
          /\ Len(queue') = Len(queue) - 1
          /\ \A n \in 1..Len(queue') : n + 1 \in 1..Len(queue) /\ queue'[n] = queue[n + 1]
      BY <2>3, HeadAndTail DEF IInv, TypeOK
    <3>2. Unused(queue[1].id) /\ queue[1].id < nextId /\ queue[1].id \in Ids
      BY <1>3, <3>1 DEF Once
    <3>3. (Unused(cand.id) /\ cand.id < nextId)'
      BY <2>3, <3>1, <3>2 DEF Unused
    <3>4. ASSUME NEW n \in 1..Len(queue'), queue'[n].id = cand'.id PROVE FALSE
      <4>1. n + 1 \in 1..Len(queue) /\ queue[n + 1].id = queue[1].id
        BY <2>3, <3>1, <3>4
      <4>2. n + 1 = 1
        BY <3>1, <4>1 DEF Once
      <4>. QED
        BY <3>1, <4>2
    <3>. QED
      BY <3>3, <3>4
  <2>. QED
    BY <2>1, <2>2, <2>3
<1>8. \A i \in Queued' :
        /\ memory'[i] = None \/ (Settling' /\ i = cand'.id)
        /\ ~RejectedByUser(i)' \/ (pc' = "removeRejected" /\ i = cand'.id)
  BY <1>1 DEF Once
<1>9. \A i \in Ids : RejectedByUser(i)' => memory'[i] = None
  BY DEF Once
<1>. QED
  BY <1>4, <1>5, <1>6, <1>7, <1>8, <1>9 DEF Once

\* A batch takes ids that were never used.
LEMMA IngestOnce == ASSUME IInv, Once, NEW batch \in Batches, Ingest(batch) PROVE Once'
<1>1. PICK k \in 0..MaxBatch : batch \in [1..k -> Proposals]
  BY DEF Batches
<1>2. k \in Nat /\ MaxId \in Nat /\ batch \in Seq(Proposals) /\ Len(batch) = k
  BY <1>1, LifecycleAssumption, SeqDef, LenProperties
<1>3. /\ nextId \in 1..(MaxId + 1) /\ nextId + k - 1 <= MaxId /\ nextId' = nextId + k
      /\ queue' = [n \in 1..k |-> NewCandidate(batch[n], nextId + n - 1)]
  BY <1>2 DEF IInv, TypeOK, Ingest
<1>4. Len(queue') = k /\ \A n \in 1..k : queue'[n].id = nextId + n - 1
  <2>1. Len(queue') = k
    BY <1>2, <1>3
  <2>2. \A n \in 1..k : queue'[n] = NewCandidate(batch[n], nextId + n - 1)
    BY <1>3
  <2>. QED
    BY <2>1, <2>2 DEF NewCandidate
<1>5. Queued' = Queued /\ pc = "idle" /\ pc' = "next" /\ UNCHANGED <<memory, pending, audit>>
  BY DEF Ingest, Queued
<1>6. \A i : (Unused(i)' <=> Unused(i)) /\ (RejectedByUser(i)' <=> RejectedByUser(i))
  BY <1>5 DEF Unused, RejectedByUser
<1>7. \A i \in nextId..MaxId : Unused(i)
  BY DEF Once
<1>8. (\A i \in nextId..MaxId : Unused(i))'
  BY <1>2, <1>3, <1>6, <1>7
<1>9. (\A n \in 1..Len(queue) : Unused(queue[n].id) /\ queue[n].id < nextId)'
  <2>1. ASSUME NEW n \in 1..k
        PROVE  (Unused(queue[n].id) /\ queue[n].id < nextId)'
    <3>1. queue'[n].id = nextId + n - 1 /\ nextId + n - 1 \in nextId..MaxId
      BY <1>2, <1>3, <1>4
    <3>2. Unused(nextId + n - 1)
      BY <1>7, <3>1
    <3>. QED
      BY <1>2, <1>3, <1>5, <3>1, <3>2 DEF Unused, RejectedByUser
  <2>. QED
    BY <1>4, <2>1
<1>10. (\A n, m \in 1..Len(queue) : queue[n].id = queue[m].id => n = m)'
  BY <1>2, <1>3, <1>4
<1>11. (\A i \in Queued :
         /\ memory[i] = None \/ (Settling /\ i = cand.id)
         /\ ~RejectedByUser(i) \/ (pc = "removeRejected" /\ i = cand.id))'
  BY <1>5, <1>6 DEF Once, Settling
<1>12. (\A i \in Ids : RejectedByUser(i) => memory[i] = None)'
  BY <1>5, <1>6 DEF Once
<1>13. ~Assessing'
  BY <1>5 DEF Assessing
<1>. QED
  BY <1>8, <1>9, <1>10, <1>11, <1>12, <1>13 DEF Once

\* The pipeline's candidate is saved or queued.
LEMMA DecideOnce == ASSUME IInv, Once, AutoSave \/ AskUser PROVE Once'
<1>1. /\ pc = "decide" /\ pc' \in {"auditSaved", "next"} /\ cand \in Candidate
      /\ UNCHANGED <<audit, nextId, queue>>
      /\ \/ memory' = [memory EXCEPT ![cand.id] = EntryOf(cand)] /\ pending' = pending
         \/ pending' = [pending EXCEPT ![cand.id] = cand] /\ memory' = memory
  BY DEF IInv, Bound, AutoSave, AskUser, PipelinePc
<1>2. cand.id \in Ids
  BY <1>1 DEF Candidate
<1>3. /\ Unused(cand.id) /\ cand.id < nextId
      /\ \A n \in 1..Len(queue) : queue[n].id # cand.id
  BY <1>1 DEF Once, Assessing
<1>4. /\ \A i \in Ids : i # cand.id => memory'[i] = memory[i] /\ pending'[i] = pending[i]
      /\ memory'[cand.id] = None \/ pending'[cand.id] = None
      /\ Queued' \subseteq Queued \cup {cand.id}
  BY <1>1, <1>2, <1>3 DEF IInv, TypeOK, Queued, Unused
<1>5. \A i : RejectedByUser(i)' <=> RejectedByUser(i)
  BY <1>1 DEF RejectedByUser
<1>6. \A i \in Ids : i # cand.id /\ Unused(i) => Unused(i)'
  BY <1>4, <1>5 DEF Unused
<1>7. /\ nextId \in Nat /\ nextId..MaxId \subseteq Ids
      /\ cand.id \notin nextId..MaxId
      /\ \A n \in 1..Len(queue) : queue[n].id \in Ids
  <2>1. \A n \in 1..Len(queue) : queue[n] \in Candidate
    BY ElementOfSeq DEF IInv, TypeOK
  <2>2. \A n \in 1..Len(queue) : queue[n].id \in Ids
    BY <2>1 DEF Candidate
  <2>3. nextId \in 1..(MaxId + 1) /\ MaxId \in Nat
    BY LifecycleAssumption DEF IInv, TypeOK
  <2>. QED
    BY <1>2, <1>3, <2>2, <2>3 DEF Ids
<1>8. (\A i \in nextId..MaxId : Unused(i))'
  BY <1>1, <1>6, <1>7 DEF Once
<1>9. (\A n \in 1..Len(queue) : Unused(queue[n].id) /\ queue[n].id < nextId)'
  <2>1. ASSUME NEW n \in 1..Len(queue)
        PROVE  (Unused(queue[n].id) /\ queue[n].id < nextId)'
    <3>1. Unused(queue[n].id)' /\ queue[n].id < nextId
      <4>1. queue[n].id \in Ids /\ queue[n].id # cand.id /\ Unused(queue[n].id)
        BY <1>3, <1>7 DEF Once
      <4>. QED
        BY <1>1, <1>4, <1>5, <4>1 DEF Unused, Once
    <3>. QED
      BY <1>1, <3>1
  <2>. QED
    BY <1>1, <2>1
<1>10. (\A n, m \in 1..Len(queue) : queue[n].id = queue[m].id => n = m)'
  BY <1>1 DEF Once
<1>11. (\A i \in Queued :
         /\ memory[i] = None \/ (Settling /\ i = cand.id)
         /\ ~RejectedByUser(i) \/ (pc = "removeRejected" /\ i = cand.id))'
  <2>1. ASSUME NEW i \in Queued' PROVE memory'[i] = None /\ ~RejectedByUser(i)'
    <3>1. CASE i = cand.id
      <4>1. pending'[i] # None
        BY DEF Queued
      <4>. QED
        BY <1>3, <1>4, <1>5, <3>1, <4>1 DEF Unused
    <3>2. CASE i # cand.id
      <4>1. i \in Queued /\ i \in Ids
        BY <1>4, <3>2 DEF Queued
      <4>. QED
        BY <1>1, <1>4, <1>5, <3>2, <4>1 DEF Once, Settling
    <3>. QED
      BY <3>1, <3>2
  <2>. QED
    BY <2>1
<1>12. (\A i \in Ids : RejectedByUser(i) => memory[i] = None)'
  BY <1>3, <1>4, <1>5 DEF Once, Unused
<1>13. ~Assessing'
  BY <1>1 DEF Assessing
<1>. QED
  BY <1>8, <1>9, <1>10, <1>11, <1>12, <1>13 DEF Once

\* A queued candidate is approved, or rejected by the user.
LEMMA ReviewOnce ==
  ASSUME IInv, Once, NEW i \in Ids, Approve(i) \/ Reject(i)
  PROVE  Once'
<1>1. /\ pc \in {"approve", "reject"} /\ i \in Queued /\ cand' = pending[i]
      /\ UNCHANGED <<pending, nextId, queue>>
      /\ \/ pc' = "auditApproved" /\ audit' = audit
            /\ (memory' = memory \/ memory' = [memory EXCEPT ![i] = EntryOf(pending[i])])
         \/ pc' = "removeRejected" /\ memory' = memory
            /\ audit' = audit \cup {RejectedEvent(i, Key(pending[i]), TRUE)}
  BY DEF IInv, Bound, Approve, Reject, ReviewPc, batchVars
<1>2. cand'.id = i /\ pending[i] # None /\ Queued' = Queued
  BY <1>1 DEF IInv, Bound, Queued
<1>3. memory[i] = None /\ ~RejectedByUser(i)
  BY <1>1 DEF Once, Settling
<1>4. /\ \A j \in Ids : j # i => memory'[j] = memory[j]
      /\ \A j : j # i => (RejectedByUser(j)' <=> RejectedByUser(j))
      /\ pc' = "auditApproved" => ~RejectedByUser(i)'
      /\ pc' = "removeRejected" => memory'[i] = None
  <2>1. \A j : RejectedEvent(i, Key(pending[i]), TRUE).entity = j => j = i
    BY EventOrigins
  <2>2. CASE pc' = "auditApproved"
    <3>1. audit' = audit
      BY <1>1, <2>2
    <3>2. \A j : RejectedByUser(j)' <=> RejectedByUser(j)
      BY <3>1 DEF RejectedByUser
    <3>. QED
      BY <1>1, <1>3, <2>2, <3>2 DEF IInv, TypeOK
  <2>3. CASE pc' = "removeRejected"
    BY <1>1, <1>3, <2>1, <2>3 DEF RejectedByUser
  <2>. QED
    BY <1>1, <2>2, <2>3
<1>5. \A j \in Ids : Unused(j) => Unused(j)'
  BY <1>1, <1>2, <1>4 DEF Unused
<1>6. /\ nextId..MaxId \subseteq Ids
      /\ \A n \in 1..Len(queue) : queue[n].id \in Ids
  <2>1. \A n \in 1..Len(queue) : queue[n] \in Candidate
    BY ElementOfSeq DEF IInv, TypeOK
  <2>2. \A n \in 1..Len(queue) : queue[n].id \in Ids
    BY <2>1 DEF Candidate
  <2>3. nextId \in 1..(MaxId + 1) /\ MaxId \in Nat
    BY LifecycleAssumption DEF IInv, TypeOK
  <2>. QED
    BY <2>2, <2>3 DEF Ids
<1>7. (\A j \in nextId..MaxId : Unused(j))'
  BY <1>1, <1>5, <1>6 DEF Once
<1>8. (\A n \in 1..Len(queue) : Unused(queue[n].id) /\ queue[n].id < nextId)'
  <2>1. \A n \in 1..Len(queue) : Unused(queue[n].id)' /\ queue[n].id < nextId
    <3>1. ASSUME NEW n \in 1..Len(queue)
          PROVE  Unused(queue[n].id)' /\ queue[n].id < nextId
      <4>1. Unused(queue[n].id) /\ queue[n].id < nextId /\ queue[n].id \in Ids
        BY <1>6 DEF Once
      <4>. QED
        BY <1>1, <1>2, <1>4, <4>1 DEF Unused
    <3>. QED
      BY <3>1
  <2>. QED
    BY <1>1, <2>1
<1>9. (\A n, m \in 1..Len(queue) : queue[n].id = queue[m].id => n = m)'
  BY <1>1 DEF Once
<1>10. (\A j \in Queued :
         /\ memory[j] = None \/ (Settling /\ j = cand.id)
         /\ ~RejectedByUser(j) \/ (pc = "removeRejected" /\ j = cand.id))'
  BY <1>1, <1>2, <1>4 DEF Once, Settling, Queued
<1>11. (\A j \in Ids : RejectedByUser(j) => memory[j] = None)'
  BY <1>1, <1>4 DEF Once
<1>12. ~Assessing'
  BY <1>1 DEF Assessing
<1>. QED
  BY <1>7, <1>8, <1>9, <1>10, <1>11, <1>12 DEF Once

LEMMA SupersededOnce ==
  ASSUME IInv, SupersedesOne \/ memory' = memory
  PROVE  \A i \in Ids : memory'[i] = None <=> memory[i] = None
<1>1. CASE SupersedesOne
  <2>1. PICK i \in Ids, by \in Ids \cup {None} : memory[i] # None /\ memory' = Superseded(i, by)
    BY <1>1 DEF SupersedesOne
  <2>. QED
    BY <2>1, SupersededMemory DEF IInv, TypeOK
<1>. QED
  BY <1>1

\* What the other steps do with the batch and the candidate at hand.
LEMMA OtherSteps ==
  ASSUME IInv, [Next]_vars, ~Interrupt,
         ~(\E batch \in Batches : Ingest(batch)), ~AutoSave, ~AskUser,
         ~(\E i \in Ids : Approve(i) \/ Reject(i))
  PROVE  /\ nextId' = nextId
         /\ \/ queue' = queue
            \/ queue' = <<>>
            \/ queue # <<>> /\ queue' = Tail(queue)
         /\ Assessing' => \/ Assessing /\ cand' = cand
                          \/ queue # <<>> /\ queue' = Tail(queue) /\ cand'.id = Head(queue).id
         /\ Settling => (Settling' /\ cand' = cand) \/ cand.id \notin Queued'
         /\ pc = "removeRejected" => (pc' = "removeRejected" /\ cand' = cand) \/ cand.id \notin Queued'
<1>1. CASE UNCHANGED vars
  BY <1>1 DEF vars, stores, batchVars, Assessing, Settling
<1>2. CASE RejectByPolicy \/ RejectDuplicate \/ RejectHandled
  BY <1>2 DEF RejectByPolicy, RejectDuplicate, RejectHandled, RejectHead, Assessing, Settling
<1>3. CASE AssessConflicts
  <2>1. pc = "next" /\ queue # <<>> /\ queue' = Tail(queue) /\ nextId' = nextId
    BY <1>3 DEF AssessConflicts, stores
  <2>2. Head(queue) \in Candidate
    BY <2>1, HeadAndTail DEF IInv, TypeOK
  <2>3. cand' = Head(queue) \/ cand' = [Head(queue) EXCEPT !.conflictWith = Conflicts(Head(queue))]
    BY <1>3 DEF AssessConflicts
  <2>4. cand'.id = Head(queue).id
    BY <2>2, <2>3 DEF Candidate
  <2>. QED
    BY <2>1, <2>4 DEF Settling
<1>4. CASE SupersedeConflict
  BY <1>4 DEF SupersedeConflict, Return, stores, Assessing, Settling
<1>5. CASE AuditSupersededConflict \/ ConflictsSuperseded
  BY <1>5 DEF AuditSupersededConflict, ConflictsSuperseded, stores, batchVars, Assessing, Settling
<1>6. CASE AuditSaved \/ RejectRecommended \/ FinishBatch
  BY <1>6 DEF AuditSaved, RejectRecommended, FinishBatch, Return, stores, batchVars, Assessing, Settling
<1>7. CASE BeginApprove \/ BeginReject
  BY <1>7 DEF BeginApprove, BeginReject, stores, batchVars, Assessing, Settling
<1>8. CASE AuditApproved \/ (\E i \in Ids : Resolve(i)) \/ AuditResolved
  BY <1>8 DEF AuditApproved, Resolve, AuditResolved, batchVars, Assessing, Settling
<1>9. CASE RemoveApproved \/ RemoveRejected
  <2>1. cand.id \notin Queued'
    BY <1>9, RemovedOne
  <2>2. nextId' = nextId /\ (queue' = queue \/ queue' = <<>>) /\ ~Assessing'
    BY <1>9 DEF RemoveApproved, RemoveRejected, Return, batchVars, Assessing
  <2>. QED
    BY <2>1, <2>2
<1>10. CASE \/ \E i \in Ids, text \in Edits : Update(i, text)
            \/ \E i \in Ids, by \in Replacements : Supersede(i, by)
            \/ AuditManual
  BY <1>10 DEF Update, Supersede, AuditManual, Return, batchVars, Assessing, Settling
<1>. QED
  BY <1>1, <1>2, <1>3, <1>4, <1>5, <1>6, <1>7, <1>8, <1>9, <1>10
     DEF Next, Pipeline, Review, Maintenance

\* No candidate is decided about twice.
LEMMA StepOnce == ASSUME IInv, Once, [Next]_vars, ~Interrupt PROVE Once'
<1>1. CASE \E batch \in Batches : Ingest(batch)
  BY <1>1, IngestOnce
<1>2. CASE AutoSave \/ AskUser
  BY <1>2, DecideOnce
<1>3. CASE \E i \in Ids : Approve(i) \/ Reject(i)
  BY <1>3, ReviewOnce
<1>4. CASE /\ ~(\E batch \in Batches : Ingest(batch)) /\ ~AutoSave /\ ~AskUser
           /\ ~(\E i \in Ids : Approve(i) \/ Reject(i))
  <2>1. \A i : RejectedByUser(i)' <=> RejectedByUser(i)
    BY <1>4, RejectedSteps
  <2>2. \A i \in Ids : memory'[i] = None <=> memory[i] = None
    <3>1. CASE \E i \in Ids, text \in Edits : Update(i, text)
      <4>1. PICK i \in Ids, text \in Edits : Update(i, text)
        BY <3>1
      <4>. QED
        BY <4>1, UpdatedOne
    <3>2. CASE ~(\E i \in Ids, text \in Edits : Update(i, text))
      <4>1. SupersedesOne \/ memory' = memory
        BY <1>4, <3>2, StoreSteps DEF RemoveApproved, RemoveRejected
      <4>. QED
        BY <4>1, SupersededOnce
    <3>. QED
      BY <3>1, <3>2
  <2>3. \A i \in Ids : pending[i] = None => pending'[i] = None
    <3>1. CASE RemoveApproved \/ RemoveRejected
      <4>1. Queued' = Queued \ {cand.id}
        BY <3>1, RemovedOne
      <4>. QED
        BY <4>1 DEF Queued
    <3>2. CASE ~(RemoveApproved \/ RemoveRejected)
      BY <1>4, <3>2, StoreSteps DEF SupersedesOne, Update
    <3>. QED
      BY <3>1, <3>2
  <2>. QED
    BY <1>4, <2>1, <2>2, <2>3, OtherSteps, OnceKept
<1>. QED
  BY <1>1, <1>2, <1>3, <1>4

-----------------------------------------------------------------------------
(* What the user rejected stays out *)

\* Two contents of one fingerprint are similar.
LEMMA AlikeKeys ==
  ASSUME NEW c \in Candidate, NEW d \in Candidate, Key(c) = Key(d), Key(c) # NoKey
  PROVE  <<c.text, d.text>> \in Similar
<1>1. c.text \in Texts /\ d.text \in Texts
  BY DEF Candidate
<1>2. Normal[c.text] = Normal[d.text]
  BY DEF Key
<1>. QED
  BY <1>1, <1>2, LifecycleAssumption

\* The log has handled what the user rejected.
LEMMA RejectedHandled == Rejected \subseteq Handled(audit)
<1>1. \A event \in UserRejections : event \in audit /\ ProcessedKey(event) = event.key
  BY DEF UserRejections, ProcessedKey
<1>. QED
  BY <1>1 DEF Rejected, Handled

\* What is taken from a session is handled, while nothing is being saved.
LEMMA TakenHandled ==
  ASSUME Recorded, pc \notin {"auditSaved", "auditApproved"}
  PROVE  Taken \subseteq Handled(audit)
<1>1. ASSUME NEW i \in Ids, memory[i] # None, ~memory[i].edited, Key(memory[i]) # NoKey
      PROVE  Key(memory[i]) \in Handled(audit)
  <2>1. memory[i].session # Manual
    BY <1>1 DEF Key
  <2>. QED
    BY <1>1, <2>1 DEF Recorded
<1>. QED
  BY <1>1 DEF Taken

\* What the pipeline holds on to.
LEMMA HeldSteps ==
  ASSUME IInv, [Next]_vars, pc' \in PipelinePc
  PROVE  \/ held' = Queued /\ pc' = "next" /\ Queued' = Queued
         \/ pc \in PipelinePc /\ held \subseteq held' /\ (AskUser \/ pending' = pending)
<1>1. CASE UNCHANGED vars
  BY <1>1 DEF vars, stores, batchVars
<1>2. CASE \E batch \in Batches : Ingest(batch)
  BY <1>2 DEF Ingest, Queued
<1>3. CASE RejectByPolicy \/ RejectDuplicate \/ RejectHandled
  BY <1>3 DEF RejectByPolicy, RejectDuplicate, RejectHandled, RejectHead, PipelinePc
<1>4. CASE AssessConflicts \/ AuditSupersededConflict \/ ConflictsSuperseded
  BY <1>4 DEF AssessConflicts, AuditSupersededConflict, ConflictsSuperseded, stores, batchVars, PipelinePc
<1>5. CASE SupersedeConflict
  BY <1>5 DEF SupersedeConflict, Return, stores, PipelinePc
<1>6. CASE AutoSave \/ AuditSaved \/ AskUser \/ RejectRecommended
  BY <1>6 DEF AutoSave, AuditSaved, AskUser, RejectRecommended, batchVars, PipelinePc
<1>7. CASE FinishBatch \/ Interrupt \/ AuditManual
  BY <1>7 DEF FinishBatch, Interrupt, AuditManual, Return, PipelinePc
<1>8. CASE Review
  BY <1>8 DEF Review, BeginApprove, Approve, AuditApproved, Resolve, AuditResolved, RemoveApproved,
              BeginReject, Reject, RemoveRejected, Return, PipelinePc
<1>9. CASE \/ \E i \in Ids, text \in Edits : Update(i, text)
           \/ \E i \in Ids, by \in Replacements : Supersede(i, by)
  BY <1>9 DEF Update, Supersede, PipelinePc
<1>. QED
  BY <1>1, <1>2, <1>3, <1>4, <1>5, <1>6, <1>7, <1>8, <1>9 DEF Next, Pipeline, Maintenance

\* Who goes on was found unlike what is queued.
LEMMA AssessSteps ==
  ASSUME IInv, [Next]_vars, Assessing'
  PROVE  \/ Assessing /\ cand' = cand /\ pending' = pending
         \/ /\ pc = "next" /\ pending' = pending
            /\ \A i \in held : <<cand'.text, pending[i].text>> \notin Similar
<1>1. CASE UNCHANGED vars
  BY <1>1 DEF vars, stores, Assessing
<1>2. CASE AssessConflicts
  <2>1. pc = "next" /\ queue # <<>> /\ pending' = pending /\ Fresh(Head(queue))
    BY <1>2 DEF AssessConflicts, stores
  <2>2. Head(queue) \in Candidate
    BY <2>1, HeadAndTail DEF IInv, TypeOK
  <2>3. cand' = Head(queue) \/ cand' = [Head(queue) EXCEPT !.conflictWith = Conflicts(Head(queue))]
    BY <1>2 DEF AssessConflicts
  <2>4. cand'.text = Head(queue).text
    BY <2>2, <2>3 DEF Candidate
  <2>. QED
    BY <2>1, <2>4 DEF Fresh, DuplicatePending
<1>3. CASE SupersedeConflict
  BY <1>3 DEF SupersedeConflict, Return, stores, Assessing
<1>4. CASE AuditSupersededConflict \/ ConflictsSuperseded
  BY <1>4 DEF AuditSupersededConflict, ConflictsSuperseded, stores, Assessing
<1>5. CASE \/ \E batch \in Batches : Ingest(batch)
           \/ RejectByPolicy \/ RejectDuplicate \/ RejectHandled
           \/ AutoSave \/ AuditSaved \/ AskUser \/ RejectRecommended \/ FinishBatch
  BY <1>5 DEF Ingest, RejectByPolicy, RejectDuplicate, RejectHandled, RejectHead, AutoSave,
              AuditSaved, AskUser, RejectRecommended, FinishBatch, Return, Assessing
<1>6. CASE Review
  BY <1>6 DEF Review, BeginApprove, Approve, AuditApproved, Resolve, AuditResolved, RemoveApproved,
              BeginReject, Reject, RemoveRejected, Return, Assessing
<1>7. CASE Maintenance \/ Interrupt
  BY <1>7 DEF Maintenance, Update, Supersede, AuditManual, Interrupt, Return, Assessing
<1>. QED
  BY <1>1, <1>2, <1>3, <1>4, <1>5, <1>6, <1>7 DEF Next, Pipeline

\* The pipeline goes on knowing what is queued, and with nothing like it.
LEMMA PipelineApart ==
  ASSUME IInv, Apart, [Next]_vars
  PROVE  /\ pc' \in PipelinePc => Queued' \subseteq held'
         /\ Assessing' => \A i \in Queued' : <<cand'.text, pending'[i].text>> \notin Similar
<1>1. ASSUME pc' \in PipelinePc PROVE Queued' \subseteq held'
  <2>1. CASE AskUser
    <3>1. pc = "decide" /\ pending' = [pending EXCEPT ![cand.id] = cand] /\ held' = held \cup {cand.id}
      BY <2>1 DEF AskUser
    <3>2. Queued \subseteq held
      BY <3>1 DEF Apart, PipelinePc
    <3>. QED
      BY <3>1, <3>2 DEF Queued
  <2>2. CASE pending' = pending /\ pc \in PipelinePc /\ held \subseteq held'
    BY <2>2 DEF Apart, Queued
  <2>. QED
    BY <1>1, <2>1, <2>2, HeldSteps
<1>2. ASSUME Assessing', NEW i \in Queued' PROVE <<cand'.text, pending'[i].text>> \notin Similar
  <2>1. CASE Assessing /\ cand' = cand /\ pending' = pending
    BY <1>2, <2>1 DEF Apart, Queued
  <2>2. CASE /\ pc = "next" /\ pending' = pending
             /\ \A j \in held : <<cand'.text, pending[j].text>> \notin Similar
    <3>1. i \in held
      BY <1>2, <2>2 DEF Apart, PipelinePc, Queued
    <3>. QED
      BY <2>2, <3>1
  <2>. QED
    BY <1>2, <2>1, <2>2, AssessSteps
<1>. QED
  BY <1>1, <1>2

\* A step that stores and queues nothing and rejects nothing for the user.
LEMMA ApartKept ==
  ASSUME IInv, Apart, [Next]_vars,
         Queued' \subseteq Queued, \A i \in Queued' : pending'[i] = pending[i],
         Taken' \subseteq Taken, Rejected' = Rejected,
         Settling => (Settling' /\ cand' = cand) \/ cand.id \notin Queued',
         pc = "removeRejected" => (pc' = "removeRejected" /\ cand' = cand) \/ cand.id \notin Queued'
  PROVE  Apart'
<1>1. \A i \in Queued' : Key(pending'[i]) = Key(pending[i])
  OBVIOUS
<1>2. (\A i, j \in Queued : Key(pending[i]) = Key(pending[j]) /\ Key(pending[i]) # NoKey => i = j)'
  BY <1>1 DEF Apart
<1>3. ASSUME NEW i \in Queued', Key(pending'[i]) \in Taken' PROVE Settling' /\ i = cand'.id
  BY <1>1, <1>3 DEF Apart
<1>4. ASSUME NEW i \in Queued', Key(pending'[i]) \in Rejected'
      PROVE  pc' = "removeRejected" /\ i = cand'.id
  BY <1>1, <1>4 DEF Apart
<1>5. (Taken \cap Rejected = {})'
  BY DEF Apart
<1>. QED
  BY <1>2, <1>3, <1>4, <1>5, PipelineApart DEF Apart

LEMMA TakenKept ==
  ASSUME \A i \in Ids :
           memory'[i] # None /\ ~memory'[i].edited =>
             /\ memory[i] # None /\ ~memory[i].edited
             /\ Key(memory'[i]) = Key(memory[i])
  PROVE  Taken' \subseteq Taken
BY DEF Taken

\* One memory is saved.
LEMMA TakenSaved ==
  ASSUME memory \in [Ids -> Entry \cup {None}], NEW c \in Candidate, NEW i \in Ids,
         memory' = [memory EXCEPT ![i] = EntryOf(c)]
  PROVE  Taken' \subseteq Taken \cup ({Key(c)} \ {NoKey})
<1>1. memory'[i] = EntryOf(c) /\ \A j \in Ids : j # i => memory'[j] = memory[j]
  BY SavedMemory
<1>2. Key(memory'[i]) = Key(c)
  BY <1>1, EntryOfCandidate
<1>. QED
  BY <1>1, <1>2 DEF Taken

\* The pipeline's candidate is saved or queued.
LEMMA DecideApart ==
  ASSUME IInv, Recorded, Apart, [Next]_vars, AutoSave \/ AskUser
  PROVE  Apart'
<1>1. /\ pc = "decide" /\ pc' \in {"auditSaved", "next"} /\ cand \in Candidate /\ audit' = audit
      /\ \/ memory' = [memory EXCEPT ![cand.id] = EntryOf(cand)] /\ pending' = pending
         \/ pending' = [pending EXCEPT ![cand.id] = cand] /\ memory' = memory
  BY DEF IInv, Bound, AutoSave, AskUser, PipelinePc
<1>2. cand.id \in Ids
  BY <1>1 DEF Candidate
<1>3. Rejected' = Rejected /\ Rejected \subseteq Handled(audit) /\ Key(cand) \notin Handled(audit)
  BY <1>1, RejectedHandled DEF Rejected, UserRejections, IInv, LookedUp, Assessing
<1>4. Taken \subseteq Handled(audit)
  BY <1>1, TakenHandled
<1>5. ASSUME NEW i \in Queued, Key(cand) # NoKey PROVE Key(pending[i]) # Key(cand)
  <2>1. pending[i] \in Candidate
    BY DEF IInv, TypeOK, Queued
  <2>2. <<cand.text, pending[i].text>> \notin Similar
    BY <1>1 DEF Apart, Assessing
  <2>. QED
    BY <1>1, <1>5, <2>1, <2>2, AlikeKeys
<1>6. \A i \in Queued : Key(pending[i]) \notin Taken \cup Rejected
  BY <1>1 DEF Apart, Settling
<1>7. CASE memory' = [memory EXCEPT ![cand.id] = EntryOf(cand)] /\ pending' = pending
  <2>1. Taken' \subseteq Taken \cup ({Key(cand)} \ {NoKey})
    BY <1>1, <1>2, <1>7, TakenSaved DEF IInv, TypeOK
  <2>2. Queued' = Queued
    BY <1>7 DEF Queued
  <2>3. \A i \in Queued' : Key(pending'[i]) = Key(pending[i])
    BY <1>7
  <2>4. (\A i, j \in Queued : Key(pending[i]) = Key(pending[j]) /\ Key(pending[i]) # NoKey => i = j)'
    BY <2>2, <2>3 DEF Apart
  <2>5. \A i \in Queued' : Key(pending'[i]) \notin Taken' \cup Rejected'
    BY <1>3, <1>5, <1>6, <2>1, <2>2, <2>3
  <2>6. Taken' \cap Rejected' = {}
    BY <1>3, <2>1 DEF Apart
  <2>. QED
    BY <2>4, <2>5, <2>6, PipelineApart DEF Apart
<1>8. CASE pending' = [pending EXCEPT ![cand.id] = cand] /\ memory' = memory
  <2>1. Taken' = Taken
    BY <1>8 DEF Taken
  <2>2. Queued' \subseteq Queued \cup {cand.id}
    BY <1>2, <1>8 DEF Queued
  <2>3. /\ pending'[cand.id] = cand
        /\ \A i \in Queued' : i # cand.id => i \in Queued /\ pending'[i] = pending[i]
    BY <1>2, <1>8, <2>2 DEF IInv, TypeOK, Queued
  <2>4. ASSUME NEW i \in Queued', NEW j \in Queued',
               Key(pending'[i]) = Key(pending'[j]), Key(pending'[i]) # NoKey
        PROVE  i = j
    <3>1. CASE i = cand.id /\ j # cand.id
      BY <1>5, <2>3, <2>4, <3>1
    <3>2. CASE i # cand.id /\ j = cand.id
      BY <1>5, <2>3, <2>4, <3>2
    <3>3. CASE i # cand.id /\ j # cand.id
      BY <2>3, <2>4, <3>3 DEF Apart
    <3>. QED
      BY <3>1, <3>2, <3>3
  <2>5. \A i \in Queued' : Key(pending'[i]) \notin Taken' \cup Rejected'
    BY <1>3, <1>4, <1>6, <2>1, <2>3
  <2>6. Taken' \cap Rejected' = {}
    BY <1>3, <2>1 DEF Apart
  <2>. QED
    BY <2>4, <2>5, <2>6, PipelineApart DEF Apart
<1>. QED
  BY <1>1, <1>7, <1>8

\* A queued candidate is approved, or rejected by the user.
LEMMA ReviewApart ==
  ASSUME IInv, Apart, [Next]_vars, NEW i \in Ids, Approve(i) \/ Reject(i)
  PROVE  Apart'
<1>1. /\ pc \in {"approve", "reject"} /\ i \in Queued /\ cand' = pending[i] /\ pending' = pending
      /\ \/ pc' = "auditApproved" /\ audit' = audit
            /\ (memory' = memory \/ memory' = [memory EXCEPT ![i] = EntryOf(pending[i])])
         \/ pc' = "removeRejected" /\ memory' = memory
            /\ audit' = audit \cup {RejectedEvent(i, Key(pending[i]), TRUE)}
  BY DEF IInv, Bound, Approve, Reject, ReviewPc
<1>2. pending[i] \in Candidate /\ cand'.id = i /\ Queued' = Queued
  BY <1>1 DEF IInv, TypeOK, Bound, Queued
<1>3. \A j \in Queued : Key(pending[j]) \notin Taken \cup Rejected
  BY <1>1 DEF Apart, Settling
<1>4. /\ Taken' \subseteq Taken \cup ({Key(pending[i])} \ {NoKey})
      /\ pc' = "removeRejected" => Taken' = Taken
  <2>1. CASE memory' = memory
    BY <2>1 DEF Taken
  <2>2. CASE pc' = "auditApproved" /\ memory' = [memory EXCEPT ![i] = EntryOf(pending[i])]
    BY <1>2, <2>2, TakenSaved DEF IInv, TypeOK
  <2>. QED
    BY <1>1, <2>1, <2>2
<1>5. /\ Rejected' \subseteq Rejected \cup ({Key(pending[i])} \ {NoKey})
      /\ pc' = "auditApproved" => Rejected' = Rejected
  <2>1. CASE audit' = audit
    BY <2>1 DEF Rejected, UserRejections
  <2>2. CASE audit' = audit \cup {RejectedEvent(i, Key(pending[i]), TRUE)} /\ pc' = "removeRejected"
    <3>1. RejectedEvent(i, Key(pending[i]), TRUE).key = Key(pending[i])
      BY DEF RejectedEvent
    <3>. QED
      BY <2>2, <3>1 DEF Rejected, UserRejections
  <2>. QED
    BY <1>1, <2>1, <2>2
<1>6. \A j \in Queued : Key(pending[j]) = Key(pending[i]) /\ Key(pending[j]) # NoKey => j = i
  BY <1>1 DEF Apart
<1>7. (\A j, k \in Queued : Key(pending[j]) = Key(pending[k]) /\ Key(pending[j]) # NoKey => j = k)'
  BY <1>1, <1>2 DEF Apart
<1>8. ASSUME NEW j \in Queued' PROVE /\ Key(pending'[j]) \in Taken' => Settling' /\ j = cand'.id
                                     /\ Key(pending'[j]) \in Rejected' => pc' = "removeRejected" /\ j = cand'.id
  <2>1. pending'[j] = pending[j] /\ j \in Queued
    BY <1>1, <1>2
  <2>. QED
    BY <1>1, <1>2, <1>3, <1>4, <1>5, <1>6, <2>1 DEF Settling
<1>9. Taken' \cap Rejected' = {}
  BY <1>1, <1>3, <1>4, <1>5 DEF Apart
<1>. QED
  BY <1>7, <1>8, <1>9, PipelineApart DEF Apart

\* What the user rejected, or what is queued, is not taken from a session.
LEMMA StepApart == ASSUME IInv, Recorded, Apart, [Next]_vars, ~Interrupt PROVE Apart'
<1>1. CASE AutoSave \/ AskUser
  BY <1>1, DecideApart
<1>2. CASE \E i \in Ids : Approve(i) \/ Reject(i)
  BY <1>2, ReviewApart
<1>3. CASE \E batch \in Batches : Ingest(batch)
  <2>1. pc = "idle" /\ UNCHANGED <<memory, pending, audit>>
    BY <1>3 DEF Ingest
  <2>2. Queued' = Queued /\ Taken' = Taken /\ Rejected' = Rejected
    BY <2>1 DEF Queued, Taken, Rejected, UserRejections
  <2>. QED
    BY <2>1, <2>2, ApartKept DEF Settling
<1>4. CASE /\ ~AutoSave /\ ~AskUser /\ ~(\E batch \in Batches : Ingest(batch))
           /\ ~(\E i \in Ids : Approve(i) \/ Reject(i))
  <2>1. Rejected' = Rejected
    BY <1>4, RejectedSteps DEF Rejected
  <2>2. Queued' \subseteq Queued /\ \A i \in Queued' : pending'[i] = pending[i]
    <3>1. CASE RemoveApproved \/ RemoveRejected
      BY <3>1, RemovedOne
    <3>2. CASE ~(RemoveApproved \/ RemoveRejected)
      <4>1. pending' = pending
        BY <1>4, <3>2, StoreSteps DEF SupersedesOne, Update
      <4>. QED
        BY <4>1 DEF Queued
    <3>. QED
      BY <3>1, <3>2
  <2>3. Taken' \subseteq Taken
    <3>1. CASE \E i \in Ids, text \in Edits : Update(i, text)
      <4>1. PICK i \in Ids, text \in Edits : Update(i, text)
        BY <3>1
      <4>2. memory'[i].edited /\ \A j \in Ids : j # i => memory'[j] = memory[j]
        BY <4>1, UpdatedOne
      <4>. QED
        BY <4>2, TakenKept
    <3>2. CASE SupersedesOne
      <4>1. PICK i \in Ids, by \in Ids \cup {None} : memory[i] # None /\ memory' = Superseded(i, by)
        BY <3>2 DEF SupersedesOne
      <4>2. \A j \in Ids : /\ memory'[j] = None <=> memory[j] = None
                           /\ memory[j] # None =>
                                /\ memory'[j].text = memory[j].text
                                /\ memory'[j].session = memory[j].session
                                /\ memory'[j].edited = memory[j].edited
        BY <4>1, SupersededMemory DEF IInv, TypeOK
      <4>3. \A j \in Ids : memory[j] # None => Key(memory'[j]) = Key(memory[j])
        BY <4>2 DEF Key
      <4>. QED
        BY <4>2, <4>3, TakenKept
    <3>3. CASE memory' = memory
      BY <3>3 DEF Taken
    <3>. QED
      BY <1>4, <3>1, <3>2, <3>3, StoreSteps DEF RemoveApproved, RemoveRejected
  <2>. QED
    BY <1>4, <2>1, <2>2, <2>3, OtherSteps, ApartKept
<1>. QED
  BY <1>1, <1>2, <1>3, <1>4

LEMMA InitCalm == Init => Recorded /\ Once /\ Apart
<1>. SUFFICES ASSUME Init PROVE Recorded /\ Once /\ Apart
  OBVIOUS
<1>1. Queued = {} /\ \A i : ~RejectedByUser(i)
  BY DEF Init, Queued, RejectedByUser
<1>2. \A i \in nextId..MaxId : i \in Ids
  BY LifecycleAssumption DEF Init, Ids
<1>. QED
  <2>1. Recorded /\ Once
    BY <1>1, <1>2 DEF Init, Recorded, Once, Unused, Assessing
  <2>2. Taken = {} /\ pc = "idle"
    BY DEF Init, Taken
  <2>3. Apart
    BY <1>1, <2>2 DEF Apart, PipelinePc, Assessing
  <2>. QED
    BY <2>1, <2>3

\* Where no operation is interrupted, the log knows what the stores hold,
\* and no candidate is decided about twice.
THEOREM CalmLifecycle == ~Failures => (Spec => []Calm)
<1>. SUFFICES ASSUME ~Failures PROVE Spec => []Calm
  OBVIOUS
<1>1. ASSUME Calm, [Next]_vars PROVE Calm'
  <2>1. ~Interrupt
    BY DEF Interrupt
  <2>. QED
    BY <1>1, <2>1, StepIInv, StepRecorded, StepOnce, StepApart DEF Calm
<1>2. Init => Calm
  BY InitIInv, InitCalm DEF Calm
<1>. QED
  BY <1>1, <1>2, PTL DEF Spec

\* Where no operation is interrupted, what the user rejected, in the content or as
\* the candidate, is not active.
THEOREM RejectedAlwaysOut == ~Failures => (Spec => []TypedAndRejected)
<1>1. ASSUME Calm, NEW event \in audit, NEW i \in Active,
             event.type = "candidate_rejected", event.byUser
      PROVE  /\ event.entity # i
             /\ event.key # NoKey /\ ~memory[i].edited => Key(memory[i]) # event.key
  <2>1. i \in Ids /\ memory[i] # None
    BY DEF Active
  <2>2. event.entity # i
    <3>1. ASSUME event.entity = i PROVE RejectedByUser(i)
      BY <1>1, <3>1 DEF RejectedByUser
    <3>. QED
      BY <1>1, <2>1, <3>1 DEF Calm, Once
  <2>3. ASSUME event.key # NoKey, ~memory[i].edited, Key(memory[i]) = event.key PROVE FALSE
    <3>1. event.key \in Rejected
      BY <1>1, <2>3 DEF Rejected, UserRejections
    <3>2. event.key \in Taken
      BY <2>1, <2>3 DEF Taken
    <3>. QED
      BY <1>1, <3>1, <3>2 DEF Calm, Apart
  <2>. QED
    BY <2>2, <2>3
<1>2. Calm => TypedAndRejected
  <2>1. Calm => TypeOK
    BY DEF Calm, IInv
  <2>2. Calm => RejectedStaysOut
    BY <1>1 DEF RejectedStaysOut
  <2>. QED
    BY <2>1, <2>2 DEF TypedAndRejected
<1>. QED
  BY <1>2, CalmLifecycle, PTL

\* Where no operation is interrupted, replaying a session does not restore
\* what was superseded.
THEOREM SupersededStays == ~Failures => (Spec => SupersededNotRestored)
<1>1. ASSUME Calm, [Next]_vars
      PROVE  \A i \in Entered, j \in Ids :
               /\ memory[j] # None
               /\ memory[j].status = "superseded" /\ ~memory[j].edited
               /\ memory[j].session # Manual
               => EntryKey(i)' # Key(memory[j])
  <2>1. ASSUME NEW i \in Entered, NEW j \in Ids, memory[j] # None,
               ~memory[j].edited, memory[j].session # Manual
        PROVE  EntryKey(i)' # Key(memory[j])
    <3>1. pc = "decide" /\ EntryKey(i)' = Key(cand)
      BY <1>1, OnlyFreshEnters DEF Calm
    <3>2. Key(cand) \notin Handled(audit)
      BY <1>1, <3>1 DEF Calm, IInv, LookedUp, Assessing
    <3>3. Key(memory[j]) \in Handled(audit)
      BY <1>1, <2>1, <3>1 DEF Calm, Recorded
    <3>. QED
      BY <3>1, <3>2, <3>3
  <2>. QED
    BY <2>1
<1>. QED
  BY <1>1, CalmLifecycle, PTL DEF Spec, SupersededNotRestored
=============================================================================
