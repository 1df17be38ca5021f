------------------------- MODULE JsonDirectoryStore -------------------------
(***************************************************************************)
(* The JSON stores of memories and of pending candidates                   *)
(* (storage/src/directoryStore.ts and the two stores over it).  An entry   *)
(* is a file <type>/<scope>/<id>.json; each type has an index file that    *)
(* lists its entries, and a master index counts the lines of those.  An    *)
(* operation is a series of file operations with nothing that groups them: *)
(* each can be the last one before the process stops or an error is        *)
(* thrown, and a write can leave its file torn.  Operations do not         *)
(* interleave: StoreQueue gives each store one turn at a time.             *)
(***************************************************************************)
EXTENDS Naturals, FiniteSets

CONSTANTS Ids,
          Types,      \* MemoryType: the first directory level
          Scopes,     \* MemoryScope: the second
          Texts,      \* what is remembered
          Pending,    \* TRUE: JsonPendingCandidateStore, FALSE: JsonMemoryStore
          Legacy,     \* the entries of the flat file of an older release
          MaxHarms    \* bound: the operations that are cut short

Entries == [id : Ids, type : Types, scope : Scopes,
            status : {"active", "superseded", "torn"}, text : Texts]

ASSUME StoreAssumption ==
  /\ Pending \in BOOLEAN
  /\ Legacy \subseteq {e \in Entries : e.status # "torn"}
  /\ \A d, e \in Legacy : d.id = e.id => d = e
  /\ MaxHarms \in Nat

VARIABLES files,    \* the entry files; a torn one cannot be parsed
          index,    \* the lines of the type indexes: id, type and scope
          torn,     \* the types whose index file cannot be parsed
          master,   \* index.json: the entries it counts under each type
          legacy,   \* the flat file: "absent", "present" or renamed "backup"
          pc, op,   \* the step under way; the entries to take away and to put
          todo,     \* what the migration has still to write
          said,     \* history: what is under each id by the answers given
          harmed,   \* history: the ids of operations that failed half way
          harms

vars == <<files, index, torn, master, legacy, pc, op, todo, said, harmed, harms>>
disk == <<files, index, torn, master, legacy>>
history == <<said, harmed, harms>>

Place(e) == [id |-> e.id, type |-> e.type, scope |-> e.scope]
Places == [id : Ids, type : Types, scope : Scopes]
Readable == {e \in Entries : e.status # "torn"}
NoOp == [old |-> {}, new |-> {}]
Touched == {e.id : e \in op.old \union op.new}
Under(i, entries) == {e \in entries : e.id = i}

Init ==
  /\ files = {} /\ index = {} /\ torn = {}
  /\ master = [t \in Types |-> 0]
  /\ legacy = IF Legacy = {} THEN "absent" ELSE "present"
  /\ pc = "idle" /\ op = NoOp /\ todo = {}
  /\ said = [i \in Ids |-> Under(i, Legacy)]
  /\ harmed = {} /\ harms = 0

-----------------------------------------------------------------------------
(* The files                                                               *)

\* writeEntry: the file at the entry's place is created or overwritten.
WriteEntry(e) == files' = {f \in files : Place(f) # Place(e)} \union {e}

\* Faulty variant: the path lacks the id.
RemoveScope(e) == files' = {f \in files : ~(f.type = e.type /\ f.scope = e.scope)}

\* removeEntry: a file that is not there is no error.
RemoveEntry(e) == files' = {f \in files : Place(f) # Place(e)}

\* readEntry: the file a line of an index points at, or nothing.
ReadEntry(line) == {f \in files : Place(f) = line}

Lines(i) == {l \in index : l.id = i}

\* findById reads the type indexes in the order readdir gives, up to the
\* first that lists the id: any of those can be the first.  It answers an
\* entry or none, or it throws at an index or a file that does not parse.
Finds(i) ==
  {ReadEntry(l) : l \in {k \in Lines(i) : ReadEntry(k) \subseteq Readable}}
    \union (IF Lines(i) = {} /\ torn = {} THEN {{}} ELSE {})
Throws(i) == torn # {} \/ \E l \in Lines(i) : ~(ReadEntry(l) \subseteq Readable)

\* updateIndexesForEntry, up to the master: one line under an id.
IndexEntry(e) ==
  index' = {l \in index : ~(l.type = e.type /\ l.id = e.id)} \union {Place(e)}

\* removeFromIndexes, up to the master.  findById has just read that index:
\* it is there and it parses.
UnindexEntry(e) == index' = {l \in index : ~(l.type = e.type /\ l.id = e.id)}

\* rebuildTypeIndex: the lines of a type, from its files.
RebuildTypeIndex(t) ==
  /\ index' = {l \in index : l.type # t}
                \union {Place(f) : f \in {g \in files : g.type = t}}
  /\ torn' = torn \ {t}

Counts == [t \in Types |-> Cardinality({l \in index : l.type = t})]

-----------------------------------------------------------------------------
(* The operations                                                          *)

\* An operation has been given its turn; the flat file is migrated first.
Begin(old, new) ==
  /\ op' = [old |-> old, new |-> new]
  /\ pc' = IF old # {} THEN "removeOld" ELSE "write"
  /\ UNCHANGED <<disk, todo, history>>

Free == pc = "idle" /\ legacy # "present"

\* Faulty variant: a change of the scope alone is not seen as a move.
SaveMemoryByType(e) ==
  /\ Free /\ ~Pending
  /\ \E found \in Finds(e.id) :
        Begin({f \in found : f.type # e.type}, {e})

\* JsonMemoryStore.save: an entry found elsewhere is taken away first.
SaveMemory(e) ==
  /\ Free /\ ~Pending
  /\ \E found \in Finds(e.id) :
        Begin({f \in found : Place(f) # Place(e)}, {e})

\* JsonMemoryStore.supersede rewrites the entry it found, if it was active.
Supersede(i) ==
  /\ Free /\ ~Pending
  /\ \E found \in Finds(i) : \E f \in found :
        /\ f.status = "active"
        /\ Begin({}, {[f EXCEPT !.status = "superseded"]})

\* JsonPendingCandidateStore.save: looks for nothing; the pipeline gives
\* every candidate a new id.
SaveCandidate(e) ==
  /\ Free /\ Pending
  /\ Under(e.id, files) = {} /\ Lines(e.id) = {}
  /\ Begin({}, {e})

\* JsonPendingCandidateStore.remove: nothing is done for one not found.
RemoveCandidate(i) ==
  /\ Free /\ Pending
  /\ \E found \in Finds(i) : found # {} /\ Begin(found, {})

\* The operations that change nothing: the ones that throw at what they
\* read, the supersede of a memory that is not there or not active, the
\* remove of a candidate that is not there.
Refuse(i) ==
  /\ Free
  /\ \/ Throws(i)
     \/ {} \in Finds(i)
     \/ ~Pending /\ \E found \in Finds(i) : \E f \in found : f.status # "active"
  /\ UNCHANGED vars

Operation ==
  \/ \E e \in Entries : e.status = "active" /\ (SaveMemory(e) \/ SaveCandidate(e))
  \/ \E i \in Ids : Supersede(i) \/ RemoveCandidate(i) \/ Refuse(i)

-----------------------------------------------------------------------------
(* The steps of an operation                                               *)

Finish ==
  /\ said' = [i \in Ids |-> IF i \in Touched THEN op.new ELSE said[i]]
  /\ pc' = "idle" /\ op' = NoOp
  /\ UNCHANGED <<harmed, harms>>

\* A step throws at a type index it cannot parse, and the operation with it.
Fail ==
  /\ pc' = "idle" /\ op' = NoOp
  /\ harmed' = harmed \union Touched
  /\ UNCHANGED <<disk, todo, said, harms>>

RemoveOld ==
  /\ pc = "removeOld"
  /\ \E e \in op.old : RemoveEntry(e)
  /\ pc' = "unindexOld"
  /\ UNCHANGED <<index, torn, master, legacy, op, todo, history>>

UnindexOld ==
  /\ pc = "unindexOld"
  /\ \E e \in op.old : UnindexEntry(e)
  /\ pc' = "masterOld"
  /\ UNCHANGED <<files, torn, master, legacy, op, todo, history>>

\* rebuildMasterFromTypeIndexes reads every type index.
MasterOld ==
  /\ pc = "masterOld"
  /\ IF torn # {} THEN Fail
     ELSE /\ master' = Counts
          /\ IF op.new = {} THEN Finish
             ELSE pc' = "write" /\ UNCHANGED <<op, history>>
          /\ UNCHANGED <<files, index, torn, legacy, todo>>

Write ==
  /\ pc = "write"
  /\ \E e \in op.new : WriteEntry(e)
  /\ pc' = "index"
  /\ UNCHANGED <<index, torn, master, legacy, op, todo, history>>

Index ==
  /\ pc = "index"
  /\ \E e \in op.new :
        IF e.type \in torn THEN Fail
        ELSE /\ IndexEntry(e)
             /\ pc' = "master"
             /\ UNCHANGED <<files, torn, master, legacy, op, todo, history>>

Master ==
  /\ pc = "master"
  /\ IF torn # {} THEN Fail
     ELSE /\ master' = Counts
          /\ Finish
          /\ UNCHANGED <<files, index, torn, legacy, todo>>

-----------------------------------------------------------------------------
(* migrateFlat: the entries one by one, the type indexes, the master, and  *)
(* only then the rename that says it is done.                              *)

Migrate ==
  /\ pc = "idle" /\ legacy = "present"
  /\ pc' = "migrateEntry" /\ todo' = Legacy
  /\ UNCHANGED <<disk, op, history>>

MigrateEntry ==
  /\ pc = "migrateEntry"
  /\ IF todo = {}
     THEN /\ pc' = "migrateIndex"
          /\ todo' = {f.type : f \in files}
          /\ UNCHANGED files
     ELSE \E e \in todo : /\ WriteEntry(e)
                          /\ todo' = todo \ {e}
                          /\ UNCHANGED pc
  /\ UNCHANGED <<index, torn, master, legacy, op, history>>

MigrateIndex ==
  /\ pc = "migrateIndex"
  /\ IF todo = {}
     THEN pc' = "migrateMaster" /\ UNCHANGED <<index, torn, todo>>
     ELSE \E t \in todo : /\ {f \in files : f.type = t} \subseteq Readable
                          /\ RebuildTypeIndex(t)
                          /\ todo' = todo \ {t}
                          /\ UNCHANGED pc
  /\ UNCHANGED <<files, master, legacy, op, history>>

MigrateMaster ==
  /\ pc = "migrateMaster"
  /\ master' = Counts
  /\ pc' = "migrateRename"
  /\ UNCHANGED <<files, index, torn, legacy, op, todo, history>>

MigrateRename ==
  /\ pc = "migrateRename"
  /\ legacy' = "backup"
  /\ pc' = "idle"
  /\ UNCHANGED <<files, index, torn, master, op, todo, history>>

-----------------------------------------------------------------------------
(* Failures                                                                *)

\* Nothing has been changed yet.
Unbegun == pc = "removeOld" \/ (pc = "write" /\ op.old = {})

CutShort ==
  /\ pc # "idle" /\ harms < MaxHarms
  /\ harms' = harms + 1
  /\ pc' = "idle" /\ op' = NoOp /\ todo' = {}
  /\ UNCHANGED <<master, legacy, said>>

\* The process stops before the step, or the step throws and changes nothing.
Stop ==
  /\ CutShort
  /\ harmed' = IF Unbegun THEN harmed ELSE harmed \union Touched
  /\ UNCHANGED <<files, index, torn>>

\* writeFile truncates and then writes: it stops between the two.
TearEntry(e) ==
  /\ CutShort
  /\ WriteEntry([e EXCEPT !.status = "torn"])
  /\ harmed' = harmed \union Touched
  /\ UNCHANGED <<index, torn>>

TearIndex(t) ==
  /\ CutShort
  /\ index' = {l \in index : l.type # t}
  /\ torn' = torn \union {t}
  /\ harmed' = harmed \union Touched
  /\ UNCHANGED files

Failure ==
  \/ Stop
  \/ \E e \in op.new : pc = "write" /\ TearEntry(e)
  \/ \E e \in todo : pc = "migrateEntry" /\ TearEntry(e)
  \/ \E e \in op.new : pc = "index" /\ e.type \notin torn /\ TearIndex(e.type)
  \/ \E e \in op.old : pc = "unindexOld" /\ TearIndex(e.type)
  \/ \E t \in todo : pc = "migrateIndex" /\ TearIndex(t)

Next ==
  \/ Operation
  \/ RemoveOld \/ UnindexOld \/ MasterOld \/ Write \/ Index \/ Master
  \/ Migrate \/ MigrateEntry \/ MigrateIndex \/ MigrateMaster \/ MigrateRename
  \/ Failure

Spec == Init /\ [][Next]_vars

-----------------------------------------------------------------------------
(* Properties                                                              *)

\* The type invariant; a file's place is its own, an entry has one of each.
TypeOK ==
  /\ files \subseteq Entries /\ index \subseteq Places /\ torn \subseteq Types
  /\ IsFiniteSet(files) /\ IsFiniteSet(index)
  /\ master \in [Types -> Nat] /\ legacy \in {"absent", "present", "backup"}
  /\ pc \in {"idle", "removeOld", "unindexOld", "masterOld", "write", "index",
             "master", "migrateEntry", "migrateIndex", "migrateMaster",
             "migrateRename"}
  /\ op \in [old : SUBSET Readable, new : SUBSET Readable]
  /\ todo \subseteq Legacy \union Types
  /\ said \in [Ids -> SUBSET Readable]
  /\ harmed \subseteq Ids /\ harms \in 0 .. MaxHarms

\* An id no operation is at work on and none has failed half way at.
Settled(i) == i \notin harmed /\ i \notin Touched /\ legacy # "present"

Indexed(entries) == {Place(e) : e \in {d \in entries : d.type \notin torn}}
AtMostOne(entries) == \A d, e \in entries : d = e

\* What the store answered is what the disk holds: of a settled id there is
\* at most one file, the one of the last acknowledged operation, and the
\* type indexes list that file and no other; a torn index may miss it.  So
\* a move leaves neither its old file nor its old line, a migration that was
\* cut short any number of times keeps every entry, and whatever goes wrong
\* at one id leaves the files of all others alone.
DiskAgrees ==
  \A i \in Ids : Settled(i) =>
    /\ Under(i, files) = said[i] /\ AtMostOne(said[i])
    /\ Lines(i) = Indexed(said[i])

\* Between operations that all succeeded, the master index counts under each
\* type the files that are there.
MasterCounts ==
  pc = "idle" /\ harmed = {} /\ torn = {} /\ legacy # "present" =>
    master = [t \in Types |-> Cardinality({f \in files : f.type = t})]

\* Files, index lines and counts fit together wherever nothing is under way.
DirectoryAgrees == DiskAgrees /\ MasterCounts

\* The store implements one entry under each id.  While an entry moves it is
\* the one that was found; of the flat file, it is the entry in there.
Kept ==
  [i \in Ids |->
     IF i \in harmed THEN {}
     ELSE IF legacy = "present" THEN said[i]
     ELSE IF i \in Touched /\ op.new # {} /\ op.old # {}
               /\ pc \in {"unindexOld", "masterOld", "write"} THEN op.old
     ELSE Under(i, files)]

Abstract == INSTANCE KeptEntries WITH kept <- Kept, lost <- harmed

Implements == Abstract!Spec

-----------------------------------------------------------------------------
(* The inductive invariant                                                 *)

OperationSteps ==
  {"removeOld", "unindexOld", "masterOld", "write", "index", "master"}

\* An operation takes away at most one entry and puts at most one, under the
\* same id and at another place; a memory is put, a candidate put or removed.
OneMove ==
  /\ AtMostOne(op.old) /\ AtMostOne(op.new)
  /\ \A d \in op.old, e \in op.new : d.id = e.id /\ Place(d) # Place(e)
  /\ IF Pending THEN op.old = {} \/ op.new = {}
                ELSE pc \in OperationSteps => op.new # {}
  /\ pc \notin OperationSteps => op = NoOp
  /\ pc \in {"removeOld", "unindexOld", "masterOld"} => op.old # {}
  /\ pc \in {"write", "index", "master"} => op.new # {}

\* What the disk holds of the entry at work, step by step.
Halfway ==
  \A i \in Touched \ harmed :
    /\ pc = "removeOld" =>
         /\ Under(i, files) = op.old /\ said[i] = op.old
         /\ Lines(i) = Indexed(op.old)
    /\ pc = "unindexOld" => Under(i, files) = {} /\ Lines(i) = Indexed(op.old)
    /\ pc = "masterOld" => Under(i, files) = {} /\ Lines(i) = {}
    /\ pc = "write" /\ op.old # {} => Under(i, files) = {} /\ Lines(i) = {}
    /\ pc = "write" /\ op.old = {} =>
         /\ Under(i, files) = said[i] /\ AtMostOne(said[i])
         /\ Lines(i) = Indexed(said[i])
         /\ \A d \in said[i], e \in op.new : Place(d) = Place(e)
         /\ Pending => said[i] = {}
    /\ pc = "index" => /\ Under(i, files) = op.new
                       /\ Lines(i) \subseteq {Place(e) : e \in op.new}
    /\ pc = "master" => Under(i, files) = op.new /\ Lines(i) = Indexed(op.new)

\* Until the flat file is renamed there is nothing but its entries, and the
\* migration has done what it does not have to do any more.
Migrating ==
  legacy = "present" =>
    /\ pc \notin OperationSteps /\ harmed = {}
    /\ said = [i \in Ids |-> Under(i, Legacy)]
    /\ {Place(f) : f \in files} \union index \subseteq {Place(e) : e \in Legacy}
    /\ torn \subseteq {e.type : e \in Legacy}
    /\ pc = "migrateEntry" => todo \subseteq Legacy /\ Legacy \ todo \subseteq files
    /\ pc \in {"migrateIndex", "migrateMaster", "migrateRename"} => files = Legacy
    /\ pc = "migrateIndex" => todo \subseteq {e.type : e \in Legacy}
    /\ pc = "migrateIndex" => \A e \in Legacy :
         e.type \in todo \/ (Place(e) \in index /\ e.type \notin torn)
    /\ pc \in {"migrateMaster", "migrateRename"} =>
         torn = {} /\ index = {Place(e) : e \in Legacy}

IInv ==
  /\ TypeOK
  /\ \A d, e \in files : Place(d) = Place(e) => d = e
  /\ \A l \in index : l.type \notin torn
  /\ \A i \in Ids : \A e \in said[i] : e.id = i
  /\ pc \notin OperationSteps \union {"idle"} => legacy = "present"
  /\ OneMove /\ Halfway /\ Migrating /\ DiskAgrees
=============================================================================
