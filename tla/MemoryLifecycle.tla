-------------------------- MODULE MemoryLifecycle --------------------------
(***************************************************************************)
(* The life of a memory in local mode: a batch of candidates runs through  *)
(* MemoryPipeline.processCandidates and is saved, queued for review or     *)
(* rejected; MemoryApprovalService approves or rejects what is queued;     *)
(* memories are updated and superseded by hand.                            *)
(*                                                                         *)
(* Three stores are written, each by its own await, and nothing makes two  *)
(* writes atomic: the process may die, or a write may fail, between any    *)
(* two steps of an operation (Interrupt).  Operations do not overlap,      *)
(* because the daemon runs a store's requests one after the other.         *)
(*                                                                         *)
(* Abstracted: a text stands for content and scope; what the detectors say *)
(* about texts is given by constants (Unfit, Similar, Clash, Normal).  The *)
(* audit log is the atomic one of SessionDispositions, which JsonAuditLog  *)
(* implements; events that no decision depends on (session_ingested,       *)
(* candidate_extracted, candidate_queued, memory_updated) only mark points *)
(* where an operation can be interrupted.                                  *)
(***************************************************************************)
EXTENDS Naturals, Sequences

CONSTANTS
  Texts,      \* contents
  Normal,     \* normalizeMemoryContent: the text a fingerprint is taken of
  Unfit,      \* texts PolicyEngine does not allow: secrets, noise, too long
  Similar,    \* pairs of texts that Deduplicator takes for one
  Clash,      \* what detectConflictKind says of two texts
  Sessions,   \* coding sessions
  Manual,     \* the source of a candidate that comes from no session
  Proposals,  \* what an extractor or the remember tool may hand over
  Edits,      \* texts a memory may be updated to
  Replacements, \* what a user may name as a superseded memory's replacement
  MaxBatch,   \* bound: candidates in one batch
  MaxId,      \* bound: candidates ever created
  Failures,   \* whether a crash or a failed write can interrupt an operation
  None, NoKey

Ids == 1..MaxId
Keys == Sessions \X Texts

INSTANCE AuditEvents

ASSUME LifecycleAssumption ==
  /\ Normal \in [Texts -> Texts]
  /\ Unfit \subseteq Texts
  /\ Similar \subseteq Texts \X Texts
  /\ \A t, u \in Texts : Normal[t] = Normal[u] => <<t, u>> \in Similar
  /\ \A t, u \in Texts : <<t, u>> \in Similar => <<u, t>> \in Similar
  /\ Clash \in [Texts \X Texts -> {"none", "clear", "negation"}]
  /\ Manual \notin Sessions
  /\ None \notin Texts
  /\ Edits \subseteq Texts
  /\ Replacements \subseteq Ids \cup {None}
  /\ MaxId \in Nat /\ MaxBatch \in Nat
  /\ Failures \in BOOLEAN

\* lowRisk: an auto-save type (project_fact, coding_rule, testing_rule) with
\* public or internal sensitivity.  secret: labelled secret by the extractor.
Proposal ==
  [ text : Texts, session : Sessions \cup {Manual},
    confidence : {"high", "medium", "low"}, lowRisk : BOOLEAN, secret : BOOLEAN ]

ASSUME ProposalsAssumption == Proposals \subseteq Proposal

Candidate ==
  [ id : Ids, text : Texts, session : Sessions \cup {Manual},
    confidence : {"high", "medium", "low"}, lowRisk : BOOLEAN, secret : BOOLEAN,
    conflictWith : SUBSET Ids ]

\* A memory has the id of the candidate it was made from (cand_x, mem_x).
Entry ==
  [ text : Texts, session : Sessions \cup {Manual},
    status : {"active", "superseded"}, supersededBy : Ids \cup {None},
    edited : BOOLEAN ]    \* updatedAt differs from approvedAt

ASSUME NoneAssumption == None \notin Candidate \cup Entry /\ NoKey \notin Keys

AuditEvent ==
  [ type : {"memory_saved", "candidate_rejected", "memory_superseded"},
    entity : Ids, by : Ids \cup {None},
    key : Keys \cup {NoKey}, byUser : BOOLEAN, processed : BOOLEAN ]

VARIABLES
  memory,     \* memory store: id -> entry
  pending,    \* pending candidate store: id -> candidate
  audit,      \* audit log
  nextId,     \* createId: ids are never used twice
  \* The running operation:
  pc,         \* the step it is at
  queue,      \* pipeline: candidates still to process
  existing,   \* pipeline: its list of active memories
  saved,      \* pipeline: memories it saved in this batch
  held,       \* pipeline: its list of pending candidates
  processed,  \* pipeline: fingerprints known to be handled
  cand,       \* the candidate at hand
  first,      \* memories to supersede: those in existing, or conflictWith
  again,      \* pipeline: memories to supersede because they are in saved
  target,     \* the memory just written
  bulk,       \* approve/reject: candidates still to decide
  tripped     \* the last operation stopped with MEMORY_ALREADY_SUPERSEDED

stores == <<memory, pending, audit, nextId>>
batchVars == <<queue, existing, saved, held, processed>>
vars == <<stores, pc, batchVars, cand, first, again, target, bulk, tripped>>

-----------------------------------------------------------------------------
Active == {i \in Ids : memory[i] # None /\ memory[i].status = "active"}
Queued == {i \in Ids : pending[i] # None}

\* sessionCandidateFingerprint; memory entries keep the candidate's source.
Key(c) == IF c.session = Manual THEN NoKey ELSE <<c.session, Normal[c.text]>>

SimilarTo(text, ids) == {i \in ids : <<text, memory[i].text>> \in Similar}
Clashing(text, ids) == {i \in ids : Clash[text, memory[i].text] # "none"}

\* Faulty variant: the fingerprint is not recorded.
SavedEventWithoutKey(entity, candidate, key) ==
  [type |-> "memory_saved", entity |-> entity, by |-> candidate, key |-> NoKey,
   byUser |-> FALSE, processed |-> FALSE]

SavedEvent(entity, candidate, key) ==
  [type |-> "memory_saved", entity |-> entity, by |-> candidate, key |-> key,
   byUser |-> FALSE, processed |-> FALSE]
RejectedEvent(entity, key, byUser) ==
  [type |-> "candidate_rejected", entity |-> entity, by |-> None, key |-> key,
   byUser |-> byUser, processed |-> key # NoKey /\ ~byUser]
SupersededEvent(entity, by) ==
  [type |-> "memory_superseded", entity |-> entity, by |-> by, key |-> NoKey,
   byUser |-> FALSE, processed |-> FALSE]

\* memoryEntryFromCandidate
EntryOf(c) ==
  [text |-> c.text, session |-> c.session, status |-> "active",
   supersededBy |-> None, edited |-> FALSE]

\* MemoryStore.supersede; without supersededBy the old value (None) is kept.
Superseded(i, by) ==
  [memory EXCEPT ![i].status = "superseded", ![i].supersededBy = by]

-----------------------------------------------------------------------------
Init ==
  /\ memory = [i \in Ids |-> None]
  /\ pending = [i \in Ids |-> None]
  /\ audit = {}
  /\ nextId = 1
  /\ pc = "idle"
  /\ queue = <<>>
  /\ existing = {} /\ saved = {} /\ held = {} /\ processed = {}
  /\ cand = None
  /\ first = {} /\ again = {}
  /\ target = None
  /\ bulk = {}
  /\ tripped = FALSE

\* The operation is over, and its local variables with it.
Return ==
  /\ pc' = "idle"
  /\ queue' = <<>>
  /\ existing' = {} /\ saved' = {} /\ held' = {} /\ processed' = {}
  /\ cand' = None
  /\ first' = {} /\ again' = {}
  /\ target' = None
  /\ bulk' = {}

-----------------------------------------------------------------------------
(* processCandidates *)

\* An extractor may find nothing.
Batches == UNION {[1..n -> Proposals] : n \in 0..MaxBatch}

NewCandidate(p, i) ==
  [id |-> i, text |-> p.text, session |-> p.session, confidence |-> p.confidence,
   lowRisk |-> p.lowRisk, secret |-> p.secret, conflictWith |-> {}]

\* Faulty variant: the fingerprints are not looked up.
IngestUnaware(batch) ==
  /\ pc = "idle"
  /\ nextId + Len(batch) - 1 <= MaxId
  /\ nextId' = nextId + Len(batch)
  /\ queue' = [n \in 1..Len(batch) |-> NewCandidate(batch[n], nextId + n - 1)]
  /\ existing' = Active
  /\ held' = Queued
  /\ saved' = {} /\ processed' = {}
  /\ pc' = "next"
  /\ tripped' = FALSE
  /\ UNCHANGED <<memory, pending, audit, cand, first, again, target, bulk>>

\* Lists the stores and looks the fingerprints up, once, for the whole batch.
Ingest(batch) ==
  /\ pc = "idle"
  /\ nextId + Len(batch) - 1 <= MaxId
  /\ nextId' = nextId + Len(batch)
  /\ queue' = [n \in 1..Len(batch) |-> NewCandidate(batch[n], nextId + n - 1)]
  /\ existing' = Active
  /\ saved' = {}
  /\ held' = Queued
  /\ processed' = {Key(batch[n]) : n \in 1..Len(batch)} \cap Handled(audit)
  /\ pc' = "next"
  /\ tripped' = FALSE
  /\ UNCHANGED <<memory, pending, audit, cand, first, again, target, bulk>>

\* Faulty variant: what the batch itself saved is not looked at.
DuplicateInSnapshot(c) == SimilarTo(c.text, existing \ saved) # {}

DuplicateStored(c) == SimilarTo(c.text, existing \cup saved) # {}
DuplicatePending(c) == \E i \in held : <<c.text, pending[i].text>> \in Similar

\* The candidate is rejected, and the event records whether that handles it.
RejectHead(key) ==
  /\ audit' = audit \cup {RejectedEvent(Head(queue).id, key, FALSE)}
  /\ queue' = Tail(queue)
  /\ UNCHANGED <<memory, pending, nextId, pc, existing, saved, held, cand,
                 first, again, target, bulk, tripped>>

RejectByPolicy ==
  /\ pc = "next" /\ queue # <<>>
  /\ Head(queue).text \in Unfit
  /\ RejectHead(NoKey)
  /\ UNCHANGED processed

\* A duplicate of a stored memory counts as handled, one of a pending
\* candidate does not.
RejectDuplicate ==
  /\ pc = "next" /\ queue # <<>>
  /\ Head(queue).text \notin Unfit
  /\ \/ /\ DuplicateStored(Head(queue))
        /\ RejectHead(Key(Head(queue)))
        /\ processed' = processed \cup ({Key(Head(queue))} \ {NoKey})
     \/ /\ ~DuplicateStored(Head(queue)) /\ DuplicatePending(Head(queue))
        /\ RejectHead(NoKey)
        /\ UNCHANGED processed

Fresh(c) == c.text \notin Unfit /\ ~DuplicateStored(c) /\ ~DuplicatePending(c)

RejectHandled ==
  /\ pc = "next" /\ queue # <<>>
  /\ Fresh(Head(queue))
  /\ Key(Head(queue)) \in processed
  /\ RejectHead(NoKey)
  /\ UNCHANGED processed

\* findConflicts over [...existing, ...saved]: a memory saved earlier in the
\* batch is in both lists and is found twice.
Conflicts(c) == Clashing(c.text, existing \cup saved)
CanAutoSupersede(c) ==
  /\ Conflicts(c) # {}
  /\ c.confidence = "high"
  /\ \A i \in Conflicts(c) : Clash[c.text, memory[i].text] = "clear"

AssessConflicts ==
  /\ pc = "next" /\ queue # <<>>
  /\ Fresh(Head(queue))
  /\ Key(Head(queue)) \notin processed
  /\ LET c == Head(queue) IN
     \/ /\ CanAutoSupersede(c)
        /\ first' = Conflicts(c) \cap existing
        /\ again' = Conflicts(c) \cap saved
        /\ cand' = c
        /\ pc' = "supersede"
     \/ /\ ~CanAutoSupersede(c)
        /\ cand' = [c EXCEPT !.conflictWith = Conflicts(c)]
        /\ pc' = "decide"
        /\ UNCHANGED <<first, again>>
  /\ queue' = Tail(queue)
  /\ UNCHANGED <<stores, existing, saved, held, processed, target, bulk, tripped>>

\* memoryStore.supersede of the next conflict ...
SupersedeConflict ==
  /\ pc = "supersede"
  /\ \E i \in IF first # {} THEN first ELSE again :
       \/ /\ i \in Active
          /\ memory' = Superseded(i, None)
          /\ existing' = existing \ {i}
          /\ first' = first \ {i}
          /\ again' = IF i \in first THEN again ELSE again \ {i}
          /\ target' = i
          /\ pc' = "auditSuperseded"
          /\ UNCHANGED <<pending, audit, nextId, queue, saved, held, processed,
                         cand, bulk, tripped>>
       \* ... which throws when the memory is no longer active.
       \/ /\ i \notin Active
          /\ Return
          /\ tripped' = TRUE
          /\ UNCHANGED stores

AuditSupersededConflict ==
  /\ pc = "auditSuperseded"
  /\ audit' = audit \cup {SupersededEvent(target, cand.id)}
  /\ target' = None
  /\ pc' = "supersede"
  /\ UNCHANGED <<memory, pending, nextId, batchVars, cand, first, again, bulk, tripped>>

ConflictsSuperseded ==
  /\ pc = "supersede"
  /\ first = {} /\ again = {}
  /\ pc' = "decide"
  /\ UNCHANGED <<stores, batchVars, cand, first, again, target, bulk, tripped>>

\* ActionRecommender.recommend; isDuplicate is false here, and hasConflict
\* only if the conflicts could not be superseded.
Recommend(c) ==
  IF c.secret \/ c.confidence = "low" THEN "reject"
  ELSE IF c.conflictWith = {} /\ c.confidence = "high" /\ c.lowRisk THEN "auto_save"
  ELSE "ask_user"

AutoSave ==
  /\ pc = "decide" /\ Recommend(cand) = "auto_save"
  /\ memory' = [memory EXCEPT ![cand.id] = EntryOf(cand)]
  /\ saved' = saved \cup {cand.id}
  /\ existing' = existing \cup {cand.id}
  /\ pc' = "auditSaved"
  /\ UNCHANGED <<pending, audit, nextId, queue, held, processed, cand, first,
                 again, target, bulk, tripped>>

AuditSaved ==
  /\ pc = "auditSaved"
  /\ audit' = audit \cup {SavedEvent(cand.id, cand.id, Key(cand))}
  /\ processed' = processed \cup ({Key(cand)} \ {NoKey})
  /\ cand' = None
  /\ pc' = "next"
  /\ UNCHANGED <<memory, pending, nextId, queue, existing, saved, held, first,
                 again, target, bulk, tripped>>

AskUser ==
  /\ pc = "decide" /\ Recommend(cand) = "ask_user"
  /\ pending' = [pending EXCEPT ![cand.id] = cand]
  /\ held' = held \cup {cand.id}
  /\ cand' = None
  /\ pc' = "next"
  /\ UNCHANGED <<memory, audit, nextId, queue, existing, saved, processed, first,
                 again, target, bulk, tripped>>

RejectRecommended ==
  /\ pc = "decide" /\ Recommend(cand) = "reject"
  /\ audit' = audit \cup {RejectedEvent(cand.id, NoKey, FALSE)}
  /\ cand' = None
  /\ pc' = "next"
  /\ UNCHANGED <<memory, pending, nextId, batchVars, first, again, target, bulk, tripped>>

FinishBatch ==
  /\ pc = "next" /\ queue = <<>>
  /\ Return
  /\ UNCHANGED <<stores, tripped>>

-----------------------------------------------------------------------------
(* approve, approveAll *)

\* One candidate, or all that are listed now.
BeginApprove ==
  /\ pc = "idle" /\ Queued # {}
  /\ bulk' \in {{i} : i \in Queued} \cup {Queued}
  /\ pc' = "approve"
  /\ tripped' = FALSE
  /\ UNCHANGED <<stores, batchVars, cand, first, again, target>>

\* A secret candidate is refused.  An active duplicate stands in for the
\* candidate; otherwise it is saved.
Approve(i) ==
  /\ pc = "approve" /\ i \in bulk
  /\ ~pending[i].secret
  /\ cand' = pending[i]
  /\ bulk' = bulk \ {i}
  /\ \/ /\ target' \in SimilarTo(pending[i].text, Active)
        /\ UNCHANGED memory
     \/ /\ SimilarTo(pending[i].text, Active) = {}
        /\ memory' = [memory EXCEPT ![i] = EntryOf(pending[i])]
        /\ target' = i
  /\ pc' = "auditApproved"
  /\ UNCHANGED <<pending, audit, nextId, batchVars, first, again, tripped>>

\* Faulty variant: a retry takes the conflicts for settled.
AuditApprovedOnce ==
  /\ pc = "auditApproved"
  /\ audit' = audit \cup {SavedEvent(target, cand.id, Key(cand))}
  /\ first' = IF SavedEvent(target, cand.id, Key(cand)) \in audit
              THEN {} ELSE (cand.conflictWith \cap Active) \ {target}
  /\ pc' = "resolve"
  /\ UNCHANGED <<memory, pending, nextId, batchVars, cand, again, target, bulk, tripped>>

\* The conflicting memories that are still active are left to supersede.
AuditApproved ==
  /\ pc = "auditApproved"
  /\ audit' = audit \cup {SavedEvent(target, cand.id, Key(cand))}
  /\ first' = (cand.conflictWith \cap Active) \ {target}
  /\ pc' = "resolve"
  /\ UNCHANGED <<memory, pending, nextId, batchVars, cand, again, target, bulk, tripped>>

Resolve(i) ==
  /\ pc = "resolve" /\ i \in first
  /\ memory' = Superseded(i, target)
  /\ first' = first \ {i}
  /\ again' = {i}
  /\ pc' = "auditResolved"
  /\ UNCHANGED <<pending, audit, nextId, batchVars, cand, target, bulk, tripped>>

AuditResolved ==
  /\ pc = "auditResolved"
  /\ audit' = audit \cup {SupersededEvent(i, target) : i \in again}
  /\ again' = {}
  /\ pc' = "resolve"
  /\ UNCHANGED <<memory, pending, nextId, batchVars, cand, first, target, bulk, tripped>>

\* Faulty variant: the candidate stays in the review queue.
ApprovedStays ==
  /\ pc = "resolve" /\ first = {}
  /\ bulk = {}
  /\ Return
  /\ UNCHANGED <<memory, pending, audit, nextId, tripped>>

\* Only now does the candidate leave the review queue.
RemoveApproved ==
  /\ pc = "resolve" /\ first = {}
  /\ pending' = [pending EXCEPT ![cand.id] = None]
  /\ IF bulk = {}
     THEN Return
     ELSE /\ pc' = "approve"
          /\ cand' = None
          /\ target' = None
          /\ UNCHANGED <<batchVars, first, again, bulk>>
  /\ UNCHANGED <<memory, audit, nextId, tripped>>

-----------------------------------------------------------------------------
(* reject, rejectAll *)

BeginReject ==
  /\ pc = "idle" /\ Queued # {}
  /\ bulk' \in {{i} : i \in Queued} \cup {Queued}
  /\ pc' = "reject"
  /\ tripped' = FALSE
  /\ UNCHANGED <<stores, batchVars, cand, first, again, target>>

\* Faulty variant: the candidate is removed before the rejection is recorded.
RejectUnrecorded(i) ==
  /\ pc = "reject" /\ i \in bulk
  /\ pending' = [pending EXCEPT ![i] = None]
  /\ cand' = pending[i]
  /\ bulk' = bulk \ {i}
  /\ pc' = "removeRejected"
  /\ UNCHANGED <<memory, audit, nextId, batchVars, first, again, target, tripped>>

\* The rejection is recorded ...
Reject(i) ==
  /\ pc = "reject" /\ i \in bulk
  /\ audit' = audit \cup {RejectedEvent(i, Key(pending[i]), TRUE)}
  /\ cand' = pending[i]
  /\ bulk' = bulk \ {i}
  /\ pc' = "removeRejected"
  /\ UNCHANGED <<memory, pending, nextId, batchVars, first, again, target, tripped>>

\* ... before the candidate leaves the review queue.
RemoveRejected ==
  /\ pc = "removeRejected"
  /\ pending' = [pending EXCEPT ![cand.id] = None]
  /\ IF bulk = {}
     THEN Return
     ELSE /\ pc' = "reject"
          /\ cand' = None
          /\ UNCHANGED <<batchVars, first, again, target, bulk>>
  /\ UNCHANGED <<memory, audit, nextId, tripped>>

-----------------------------------------------------------------------------
(* updateMemory, supersedeMemory *)

\* preview refuses a superseded memory, an unfit text and tags with a secret, and
\* looks for no duplicates or conflicts.  The new sensitivity is left out, and so is
\* memory_updated, which ends the operation and decides nothing.
Update(i, text) ==
  /\ pc = "idle"
  /\ i \in Active
  /\ text \notin Unfit
  /\ memory' = [memory EXCEPT ![i].text = text, ![i].edited = TRUE]
  /\ tripped' = FALSE
  /\ UNCHANGED <<pending, audit, nextId, pc, batchVars, cand, first, again, target, bulk>>

\* replacementId is stored as given: it need not name a memory.
Supersede(i, by) ==
  /\ pc = "idle"
  /\ i \in Active
  /\ memory' = Superseded(i, by)
  /\ target' = i
  /\ pc' = "auditManual"
  /\ tripped' = FALSE
  /\ UNCHANGED <<pending, audit, nextId, batchVars, cand, first, again, bulk>>

AuditManual ==
  /\ pc = "auditManual"
  /\ audit' = audit \cup {SupersededEvent(target, memory[target].supersededBy)}
  /\ Return
  /\ UNCHANGED <<memory, pending, nextId, tripped>>

-----------------------------------------------------------------------------
\* A crash and restart, or a store call that throws: what was written stays.
Interrupt ==
  /\ Failures
  /\ pc # "idle"
  /\ Return
  /\ UNCHANGED <<stores, tripped>>

Pipeline ==
  \/ \E batch \in Batches : Ingest(batch)
  \/ RejectByPolicy \/ RejectDuplicate \/ RejectHandled
  \/ AssessConflicts
  \/ SupersedeConflict \/ AuditSupersededConflict \/ ConflictsSuperseded
  \/ AutoSave \/ AuditSaved \/ AskUser \/ RejectRecommended
  \/ FinishBatch

Review ==
  \/ BeginApprove
  \/ \E i \in Ids : Approve(i)
  \/ AuditApproved
  \/ \E i \in Ids : Resolve(i)
  \/ AuditResolved \/ RemoveApproved
  \/ BeginReject
  \/ \E i \in Ids : Reject(i)
  \/ RemoveRejected

Maintenance ==
  \/ \E i \in Ids, text \in Edits : Update(i, text)
  \/ \E i \in Ids, by \in Replacements : Supersede(i, by)
  \/ AuditManual

Next == Pipeline \/ Review \/ Maintenance \/ Interrupt

Spec == Init /\ [][Next]_vars
-----------------------------------------------------------------------------
(* Properties *)

PipelinePc == {"next", "supersede", "auditSuperseded", "decide", "auditSaved"}
ReviewPc == {"approve", "auditApproved", "resolve", "auditResolved", "reject",
             "removeRejected"}

TypeOK ==
  /\ memory \in [Ids -> Entry \cup {None}]
  /\ pending \in [Ids -> Candidate \cup {None}]
  /\ audit \subseteq AuditEvent
  /\ nextId \in 1..(MaxId + 1)
  /\ pc \in {"idle", "auditManual"} \cup PipelinePc \cup ReviewPc
  /\ queue \in Seq(Candidate)
  /\ existing \subseteq Ids /\ saved \subseteq Ids /\ held \subseteq Ids
  /\ processed \subseteq Keys
  /\ cand \in Candidate \cup {None}
  /\ first \subseteq Ids /\ again \subseteq Ids
  /\ target \in Ids \cup {None}
  /\ bulk \subseteq Ids
  /\ tripped \in BOOLEAN

\* The stores never hold two active memories with the same content, however
\* a batch, an approval and its retry after a crash are interleaved; only an
\* update, which does not look for duplicates, can make two memories alike.
NoDuplicateActive ==
  \A i, j \in Active :
    /\ i # j
    /\ ~memory[i].edited /\ ~memory[j].edited
    => <<memory[i].text, memory[j].text>> \notin Similar

\* What becomes active or is queued without having waited in the queue.
Entered == (Queued' \ Queued) \cup ((Active' \ Active) \ Queued)
EntryKey(i) == IF i \in Queued THEN Key(pending[i]) ELSE Key(memory[i])

\* Content that the audit log marks as handled for its session never comes
\* back by a replay of the session, neither as a memory nor as a candidate.
HandledNeverReturns ==
  [][\A i \in Entered : EntryKey(i)' \notin Handled(audit)]_vars

\* A replay of a session never restores superseded knowledge: content is not
\* taken from a session again while the memory first made of it lies
\* superseded in the store.
SupersededNotRestored ==
  [][\A i \in Entered, j \in Ids :
       /\ memory[j] # None
       /\ memory[j].status = "superseded" /\ ~memory[j].edited
       /\ memory[j].session # Manual
       => EntryKey(i)' # Key(memory[j])]_vars

SavedFor(i) == {event \in audit : event.type = "memory_saved" /\ event.by = i}
RejectedByUser(i) ==
  \E event \in audit : event.type = "candidate_rejected" /\ event.byUser /\ event.entity = i

\* A candidate leaves the review queue only when the decision about it is in
\* the audit log, so that a replay after a crash knows of it.
DecisionOnRecord ==
  [][\A i \in Queued \ Queued' : SavedFor(i) # {} \/ RejectedByUser(i)]_vars

\* When a candidate leaves the queue approved, also after crashes and
\* retries, no memory it conflicts with is active, except one that an
\* approval found to have the same content.
ApprovalSettlesConflicts ==
  [][\A i \in Queued \ Queued' :
       RejectedByUser(i) \/
       \A j \in pending[i].conflictWith :
         j \in Active => \E event \in SavedFor(i) : event.entity = j]_vars

\* What the user rejected is not active: the candidate has not become a memory, and
\* no memory holds the same content of the same session, however often the session
\* was replayed before and after; but a user may edit a memory into anything.  Only
\* without failures: an approval cut short has saved the memory, and the candidate
\* that is still queued can then be rejected.
RejectedStaysOut ==
  \A event \in audit, i \in Active :
    event.type = "candidate_rejected" /\ event.byUser =>
      /\ event.entity # i
      /\ event.key # NoKey /\ ~memory[i].edited => Key(memory[i]) # event.key

\* The types of the state, and that.
TypedAndRejected == TypeOK /\ RejectedStaysOut

\* A candidate waiting for approval has not displaced any memory yet.
ApprovalBeforeSuperseding ==
  pc = "idle" =>
    \A i \in Queued, event \in audit :
      event.type = "memory_superseded" => event.by # i

\* The pipeline finishes every batch: no conflict it resolves stops it.
BatchNeverTrips == ~tripped

\* What the pipeline believes of the stores while it runs.
ViewComplete ==
  pc \in PipelinePc => Active \subseteq existing \cup saved /\ Queued \subseteq held
=============================================================================
