-------------------------- MODULE DirectoryProofs --------------------------
(***************************************************************************)
(* The directory stores, of memories and of candidates, for any ids, types *)
(* and scopes, any flat file and any number of operations cut short: IInv  *)
(* is inductive, so what a store answered is what the disk holds of every  *)
(* id that no operation failed at, and while none has failed the master    *)
(* index counts the files.                                                 *)
(***************************************************************************)
EXTENDS JsonDirectoryStore, FiniteSetTheorems, TLAPS

\* What one file operation does to the files and the lines of each id.

\* A place is one of id, type and scope.
LEMMA PlaceFields ==
  ASSUME NEW e \in Entries
  PROVE  /\ Place(e) \in Places
         /\ Place(e).id = e.id /\ Place(e).type = e.type /\ Place(e).scope = e.scope
  BY DEF Entries, Places, Place

\* A written entry replaces the one at its place, and no other.
LEMMA AfterWrite ==
  ASSUME files \subseteq Entries, NEW e \in Entries, WriteEntry(e),
         \A d, f \in files : Place(d) = Place(f) => d = f
  PROVE  /\ files' \subseteq Entries
         /\ IsFiniteSet(files) => IsFiniteSet(files')
         /\ \A d, f \in files' : Place(d) = Place(f) => d = f
         /\ Under(e.id, files') =
              {f \in Under(e.id, files) : Place(f) # Place(e)} \union {e}
         /\ \A i : i # e.id => Under(i, files') = Under(i, files)
<1>1. files' = {f \in files : Place(f) # Place(e)} \union {e}
  BY DEF WriteEntry
<1>2. \A f \in files : Place(f) = Place(e) => f.id = e.id
  BY PlaceFields
<1>3. IsFiniteSet(files) => IsFiniteSet(files')
  BY <1>1, FS_Subset, FS_AddElement
<1>. QED
  BY <1>1, <1>2, <1>3 DEF Under

\* A removed one takes no other with it.
LEMMA AfterRemove ==
  ASSUME files \subseteq Entries, NEW e \in Entries, RemoveEntry(e)
  PROVE  /\ files' \subseteq files
         /\ Under(e.id, files') = {f \in Under(e.id, files) : Place(f) # Place(e)}
         /\ \A i : i # e.id => Under(i, files') = Under(i, files)
<1>1. files' = {f \in files : Place(f) # Place(e)}
  BY DEF RemoveEntry
<1>2. \A f \in files : Place(f) = Place(e) => f.id = e.id
  BY PlaceFields
<1>. QED
  BY <1>1, <1>2 DEF Under

\* An indexed entry has one line in the index of its type.
LEMMA AfterIndex ==
  ASSUME index \subseteq Places, NEW e \in Entries, IndexEntry(e)
  PROVE  /\ index' \subseteq Places
         /\ \A l \in index' : l \in index \/ l = Place(e)
         /\ Lines(e.id)' = {l \in Lines(e.id) : l.type # e.type} \union {Place(e)}
         /\ \A i : i # e.id => Lines(i)' = Lines(i)
         /\ IsFiniteSet(index) => IsFiniteSet(index')
<1>1. index' = {l \in index : ~(l.type = e.type /\ l.id = e.id)} \union {Place(e)}
  BY DEF IndexEntry
<1>2. IsFiniteSet(index) => IsFiniteSet(index')
  BY <1>1, FS_Subset, FS_AddElement
<1>. QED
  BY <1>1, <1>2, PlaceFields DEF Lines

\* An entry taken out of the index of its type has no line there.
LEMMA AfterUnindex ==
  ASSUME NEW e \in Entries, UnindexEntry(e)
  PROVE  /\ index' \subseteq index
         /\ Lines(e.id)' = {l \in Lines(e.id) : l.type # e.type}
         /\ \A i : i # e.id => Lines(i)' = Lines(i)
  BY DEF UnindexEntry, Lines

\* A torn index loses its lines: those of every id are the ones it had under
\* the other types.
LEMMA AfterTear ==
  ASSUME NEW t, TearIndex(t)
  PROVE  /\ index' \subseteq index /\ torn' = torn \union {t}
         /\ \A i : Lines(i)' = {l \in Lines(i) : l.type # t}
         /\ \A S \in SUBSET Entries :
              Indexed(S)' = {l \in Indexed(S) : l.type # t}
<1>1. index' = {l \in index : l.type # t} /\ torn' = torn \union {t}
  BY DEF TearIndex
<1>2. ASSUME NEW S \in SUBSET Entries
      PROVE  Indexed(S)' = {l \in Indexed(S) : l.type # t}
  <2>1. \A e \in S : Place(e).type = e.type
    BY PlaceFields
  <2>. QED
    BY <1>1, <2>1 DEF Indexed
<1>. QED
  BY <1>1, <1>2 DEF Lines

\* The master counts finite sets.
LEMMA CountsType ==
  ASSUME IsFiniteSet(index)
  PROVE  Counts \in [Types -> Nat]
<1>1. \A t \in Types : IsFiniteSet({l \in index : l.type = t})
  BY FS_Subset
<1>. QED
  BY <1>1, FS_CardinalityType DEF Counts

\* An entry found under an id is the one file of it, when the id is settled.
LEMMA FoundIsSaid ==
  ASSUME IInv, pc = "idle", legacy # "present", NEW i \in Ids \ harmed,
         NEW found \in Finds(i)
  PROVE  /\ found = said[i]
         /\ Under(i, files) = said[i] /\ AtMostOne(said[i])
         /\ Lines(i) = Indexed(said[i])
<1>1. Settled(i)
  BY DEF IInv, OneMove, NoOp, Settled, Touched, OperationSteps
<1>2. /\ Under(i, files) = said[i] /\ AtMostOne(said[i])
      /\ Lines(i) = Indexed(said[i])
  BY <1>1 DEF IInv, DiskAgrees
<1>3. found = said[i]
  <2>1. CASE Lines(i) = {} /\ torn = {} /\ found = {}
    BY <1>2, <2>1 DEF Indexed
  <2>2. CASE \E l \in Lines(i) : found = ReadEntry(l)
    <3>1. PICK l \in Lines(i) : found = ReadEntry(l)
      BY <2>2
    <3>2. PICK e \in said[i] : l = Place(e)
      BY <1>2, <3>1 DEF Indexed
    <3>3. e \in files
      BY <1>2, <3>2 DEF Under
    <3>4. found = {e}
      BY <3>1, <3>2, <3>3 DEF IInv, ReadEntry
    <3>5. said[i] = {e}
      BY <1>2, <3>2 DEF AtMostOne
    <3>. QED
      BY <3>4, <3>5
  <2>. QED
    BY <2>1, <2>2 DEF Finds
<1>. QED
  BY <1>2, <1>3

\* Whatever an operation failed at before, a find gives one readable entry
\* or none, under the id that was asked for.
LEMMA FoundForm ==
  ASSUME IInv, NEW i \in Ids, NEW found \in Finds(i)
  PROVE  /\ found \subseteq Readable /\ AtMostOne(found)
         /\ \A f \in found : f.id = i
<1>1. CASE found = {}
  BY <1>1 DEF AtMostOne
<1>2. CASE \E l \in Lines(i) : found = ReadEntry(l) /\ ReadEntry(l) \subseteq Readable
  <2>1. PICK l \in Lines(i) : found = ReadEntry(l) /\ ReadEntry(l) \subseteq Readable
    BY <1>2
  <2>2. l.id = i
    BY DEF Lines
  <2>3. \A f \in found : Place(f) = l /\ f \in files
    BY <2>1 DEF ReadEntry
  <2>4. \A f \in found : Place(f).id = f.id
    BY <2>1, PlaceFields DEF Readable
  <2>. QED
    BY <2>1, <2>2, <2>3, <2>4 DEF IInv, AtMostOne
<1>. QED
  BY <1>1, <1>2 DEF Finds

-----------------------------------------------------------------------------
\* The invariant holds at the start.
LEMMA InitInv == Init => IInv
<1> SUFFICES ASSUME Init PROVE IInv
  OBVIOUS
<1>1. legacy # "present" => Legacy = {}
  BY DEF Init
<1>2. TypeOK
  BY StoreAssumption, FS_EmptySet DEF Init, TypeOK, NoOp, Under, Readable, Entries
<1>3. OneMove /\ Halfway
  BY DEF Init, OneMove, Halfway, NoOp, Touched, AtMostOne, OperationSteps
<1>4. Migrating
  BY DEF Init, Migrating, OperationSteps
<1>5. DiskAgrees
  BY <1>1 DEF Init, DiskAgrees, Settled, Under, AtMostOne, Lines, Indexed
<1>. QED
  BY <1>2, <1>3, <1>4, <1>5 DEF Init, IInv, Under

\* An operation that begins takes away what it found elsewhere.
LEMMA BeginStep ==
  ASSUME IInv, Free, NEW i \in Ids,
         NEW old \in SUBSET Readable, NEW new \in SUBSET Readable,
         AtMostOne(old), AtMostOne(new), old \union new # {},
         IF Pending THEN old = {} \/ new = {} ELSE new # {},
         \A e \in old \union new : e.id = i,
         \A d \in old, e \in new : Place(d) # Place(e),
         i \notin harmed =>
           /\ Under(i, files) = said[i] /\ AtMostOne(said[i])
           /\ Lines(i) = Indexed(said[i])
           /\ old # {} => said[i] = old
           /\ old = {} => \A d \in said[i], e \in new : Place(d) = Place(e)
           /\ old = {} /\ Pending => said[i] = {},
         Begin(old, new)
  PROVE  IInv'
<1>1. /\ op' = [old |-> old, new |-> new]
      /\ pc' = IF old # {} THEN "removeOld" ELSE "write"
      /\ UNCHANGED <<files, index, torn, master, legacy, todo, said, harmed, harms>>
      /\ legacy # "present" /\ pc = "idle"
  BY DEF Begin, disk, history, Free
<1>2. Touched' = {i}
  BY <1>1 DEF Touched
<1>3. TypeOK'
  BY <1>1 DEF IInv, TypeOK
<1>4. OneMove'
  BY <1>1 DEF OneMove, AtMostOne, OperationSteps, NoOp
<1>5. Halfway'
  BY <1>1, <1>2 DEF Halfway, Lines, Indexed, AtMostOne
<1>6. Migrating' /\ (pc' \notin OperationSteps \union {"idle"} => legacy' = "present")
  BY <1>1 DEF Migrating, OperationSteps
<1>7. DiskAgrees'
  <2>1. Touched = {}
    BY <1>1 DEF IInv, OneMove, OperationSteps, NoOp, Touched
  <2>2. \A j \in Ids : Settled(j)' => Settled(j)
    BY <1>1, <2>1 DEF Settled
  <2>. QED
    BY <1>1, <2>2 DEF IInv, DiskAgrees, Lines, Indexed
<1>. QED
  BY <1>1, <1>3, <1>4, <1>5, <1>6, <1>7 DEF IInv

\* So does every operation.
LEMMA OperationStep == IInv /\ Operation => IInv'
<1> SUFFICES ASSUME IInv, Operation PROVE IInv'
  OBVIOUS
<1> USE DEF AtMostOne
<1>0. pc = "idle" /\ legacy # "present" /\ Free
  BY DEF Operation, SaveMemory, SaveCandidate, Supersede, RemoveCandidate, Refuse, Free
<1>1. ASSUME NEW e \in Entries, e.status = "active", SaveMemory(e) PROVE IInv'
  <2>0. ~Pending
    BY <1>1 DEF SaveMemory
  <2>1. PICK found \in Finds(e.id) : Begin({f \in found : Place(f) # Place(e)}, {e})
    BY <1>1 DEF SaveMemory
  <2>2. e.id \in Ids /\ e \in Readable
    BY <1>1 DEF Entries, Readable
  <2>3. found \subseteq Readable /\ AtMostOne(found) /\ \A f \in found : f.id = e.id
    BY <2>2, FoundForm
  <2>4. e.id \notin harmed =>
          /\ found = said[e.id] /\ Under(e.id, files) = said[e.id]
          /\ AtMostOne(said[e.id]) /\ Lines(e.id) = Indexed(said[e.id])
    BY <1>0, <2>2, FoundIsSaid
  <2> DEFINE old == {f \in found : Place(f) # Place(e)}
  <2>5. old # {} => found = old
    BY <2>3
  <2>6. old = {} => \A d \in found : Place(d) = Place(e)
    OBVIOUS
  <2>7. Begin(old, {e}) /\ old \in SUBSET Readable /\ AtMostOne(old)
        /\ \A d \in old : d.id = e.id /\ Place(d) # Place(e)
    BY <2>1, <2>3
  <2> HIDE DEF old
  <2>. QED
    BY <1>0, <2>0, <2>2, <2>4, <2>5, <2>6, <2>7, BeginStep
<1>2. ASSUME NEW e \in Entries, e.status = "active", SaveCandidate(e) PROVE IInv'
  <2>1. Under(e.id, files) = {} /\ Lines(e.id) = {} /\ Begin({}, {e})
    BY <1>2 DEF SaveCandidate
  <2>2. e.id \in Ids /\ e \in Readable
    BY <1>2 DEF Entries, Readable
  <2>3. e.id \notin harmed => Settled(e.id)
    BY <1>0 DEF IInv, OneMove, OperationSteps, NoOp, Touched, Settled
  <2>4. e.id \notin harmed => said[e.id] = {} /\ Lines(e.id) = Indexed(said[e.id])
    BY <2>1, <2>2, <2>3 DEF IInv, DiskAgrees
  <2>. QED
    BY <1>0, <2>1, <2>2, <2>4, BeginStep
<1>3. ASSUME NEW i \in Ids, Supersede(i) PROVE IInv'
  <2>0. ~Pending
    BY <1>3 DEF Supersede
  <2>1. PICK found \in Finds(i) : \E f \in found :
           f.status = "active" /\ Begin({}, {[f EXCEPT !.status = "superseded"]})
    BY <1>3 DEF Supersede
  <2>8. PICK f \in found :
           f.status = "active" /\ Begin({}, {[f EXCEPT !.status = "superseded"]})
    BY <2>1
  <2> DEFINE g == [f EXCEPT !.status = "superseded"]
  <2>2. found \subseteq Readable /\ AtMostOne(found) /\ f.id = i
    BY FoundForm
  <2>3. g \in Readable /\ g.id = i /\ Place(g) = Place(f)
    BY <2>2 DEF Readable, Entries, Place
  <2>4. i \notin harmed =>
          /\ found = said[i] /\ Under(i, files) = said[i]
          /\ AtMostOne(said[i]) /\ Lines(i) = Indexed(said[i])
    BY <1>0, FoundIsSaid
  <2>5. Begin({}, {g})
    BY <2>8
  <2>6. \A d \in found : d = f
    BY <2>2
  <2> HIDE DEF g
  <2>. QED
    BY <1>0, <2>0, <2>3, <2>4, <2>5, <2>6, BeginStep
<1>4. ASSUME NEW i \in Ids, RemoveCandidate(i) PROVE IInv'
  <2>0. Pending
    BY <1>4 DEF RemoveCandidate
  <2>1. PICK found \in Finds(i) : found # {} /\ Begin(found, {})
    BY <1>4 DEF RemoveCandidate
  <2>2. found \subseteq Readable /\ AtMostOne(found) /\ \A f \in found : f.id = i
    BY FoundForm
  <2>3. i \notin harmed =>
          /\ found = said[i] /\ Under(i, files) = said[i]
          /\ AtMostOne(said[i]) /\ Lines(i) = Indexed(said[i])
    BY <1>0, FoundIsSaid
  <2>. QED
    BY <1>0, <2>0, <2>1, <2>2, <2>3, BeginStep
<1>5. ASSUME NEW i \in Ids, Refuse(i) PROVE IInv'
  BY <1>5 DEF Refuse, vars, IInv, TypeOK, OneMove, Halfway, Migrating, DiskAgrees,
    Settled, Touched, Lines, Indexed
<1>. QED
  BY <1>1, <1>2, <1>3, <1>4, <1>5 DEF Operation

-----------------------------------------------------------------------------
\* During an operation there is one id at work and nothing to migrate.
LEMMA AtWork ==
  ASSUME IInv, pc \in OperationSteps
  PROVE  /\ legacy # "present" /\ op.old \subseteq Readable /\ op.new \subseteq Readable
         /\ Touched \subseteq Ids
         /\ \A d, e \in op.old \union op.new : d.id = e.id
         /\ op.old \union op.new # {}
<1>1. legacy # "present"
  BY DEF IInv, Migrating
<1>2. op.old \subseteq Readable /\ op.new \subseteq Readable
  BY DEF IInv, TypeOK
<1>3. Touched \subseteq Ids
  BY <1>2 DEF Touched, Readable, Entries
<1>. QED
  BY <1>1, <1>2, <1>3 DEF IInv, OneMove, AtMostOne, OperationSteps

\* Ids that no operation touches keep agreeing, as long as their files and
\* lines stay, or lose the lines of an index that has been torn.
LEMMA OthersAgree ==
  ASSUME IInv, legacy # "present", said' = said, harmed \subseteq harmed', NEW S,
         \A i : i \notin S => Under(i, files') = Under(i, files),
         \/ torn' = torn /\ \A i : i \notin S => Lines(i)' = Lines(i)
         \/ \E t : TearIndex(t),
         Touched \subseteq Touched' \union harmed',
         S \subseteq Touched' \union harmed'
  PROVE  DiskAgrees'
<1> SUFFICES ASSUME NEW i \in Ids, Settled(i)'
             PROVE  /\ Under(i, files') = said[i] /\ AtMostOne(said[i])
                    /\ Lines(i)' = Indexed(said[i])'
  BY DEF DiskAgrees
<1>1. Settled(i) /\ i \notin S
  BY DEF Settled
<1>2. /\ Under(i, files) = said[i] /\ AtMostOne(said[i])
      /\ Lines(i) = Indexed(said[i])
  BY <1>1 DEF IInv, DiskAgrees
<1>3. CASE torn' = torn /\ \A j : j \notin S => Lines(j)' = Lines(j)
  BY <1>1, <1>2, <1>3 DEF Indexed
<1>4. CASE \E t : TearIndex(t)
  <2>1. said[i] \in SUBSET Entries
    BY DEF IInv, TypeOK, Readable
  <2>. QED
    BY <1>1, <1>2, <1>4, <2>1, AfterTear
<1>. QED
  BY <1>3, <1>4

\* An operation that fails leaves the disk as it is and its id harmed.
LEMMA FailStep ==
  ASSUME IInv, pc \in OperationSteps, Fail
  PROVE  IInv'
<1>1. /\ pc' = "idle" /\ op' = NoOp /\ harmed' = harmed \union Touched
      /\ UNCHANGED <<files, index, torn, master, legacy, todo, said, harms>>
  BY DEF Fail, disk
<1>2. Touched' = {} /\ legacy # "present" /\ Touched \subseteq Ids
  BY <1>1, AtWork DEF Touched, NoOp
<1>3. TypeOK'
  BY <1>1, <1>2 DEF IInv, TypeOK, NoOp
<1>4. OneMove' /\ Halfway' /\ Migrating'
  BY <1>1, <1>2 DEF OneMove, Halfway, Migrating, NoOp, AtMostOne, OperationSteps
<1>5. DiskAgrees'
  BY <1>1, <1>2, OthersAgree DEF Lines
<1>. QED
  BY <1>1, <1>3, <1>4, <1>5 DEF IInv, OperationSteps

\* One that finishes has said what the disk holds by then.
LEMMA FinishStep ==
  ASSUME IInv, pc \in OperationSteps, Finish, master' = Counts,
         UNCHANGED <<files, index, torn, legacy, todo>>,
         \A i \in Touched \ harmed :
           Under(i, files) = op.new /\ Lines(i) = Indexed(op.new)
  PROVE  IInv'
<1>1. /\ pc' = "idle" /\ op' = NoOp /\ UNCHANGED <<harmed, harms>>
      /\ said' = [i \in Ids |-> IF i \in Touched THEN op.new ELSE said[i]]
  BY DEF Finish
<1>2. /\ Touched' = {} /\ legacy # "present" /\ op.new \subseteq Readable
      /\ \A i \in Touched : \A e \in op.new : e.id = i
  BY <1>1, AtWork DEF Touched, NoOp
<1>3. TypeOK'
  <2>1. Counts \in [Types -> Nat]
    BY CountsType DEF IInv, TypeOK
  <2>. QED
    BY <1>1, <1>2, <2>1 DEF IInv, TypeOK, NoOp
<1>4. OneMove' /\ Halfway' /\ Migrating'
  BY <1>1, <1>2 DEF OneMove, Halfway, Migrating, NoOp, AtMostOne, OperationSteps
<1>5. DiskAgrees'
  <2> SUFFICES ASSUME NEW i \in Ids, Settled(i)'
               PROVE  /\ Under(i, files) = said'[i] /\ AtMostOne(said'[i])
                      /\ Lines(i) = Indexed(said'[i])
    BY DEF DiskAgrees, Lines, Indexed
  <2>1. CASE i \in Touched
    BY <1>1, <2>1 DEF Settled, IInv, OneMove
  <2>2. CASE i \notin Touched
    <3>1. Settled(i)
      BY <1>1, <2>2 DEF Settled
    <3>. QED
      BY <1>1, <2>2, <3>1 DEF IInv, DiskAgrees
  <2>. QED
    BY <2>1, <2>2
<1>. QED
  BY <1>1, <1>2, <1>3, <1>4, <1>5 DEF IInv, OperationSteps

\* The steps of an operation.
LEMMA RemoveOldStep == IInv /\ RemoveOld => IInv'
<1> SUFFICES ASSUME IInv, RemoveOld PROVE IInv'
  OBVIOUS
<1>1. /\ pc = "removeOld" /\ pc' = "unindexOld"
      /\ UNCHANGED <<index, torn, master, legacy, op, todo, said, harmed, harms>>
  BY DEF RemoveOld, history
<1>2. PICK e \in op.old : RemoveEntry(e)
  BY DEF RemoveOld
<1>3. /\ legacy # "present" /\ e \in Entries /\ op.old = {e} /\ Touched = {e.id}
      /\ Touched' = Touched
  BY <1>1, AtWork DEF IInv, OneMove, AtMostOne, OperationSteps, Readable, Touched
<1>4. /\ files' \subseteq files
      /\ Under(e.id, files') = {f \in Under(e.id, files) : Place(f) # Place(e)}
      /\ \A i : i # e.id => Under(i, files') = Under(i, files)
  BY <1>2, <1>3, AfterRemove DEF IInv, TypeOK
<1>5. TypeOK'
  BY <1>1, <1>4, FS_Subset DEF IInv, TypeOK
<1>6. OneMove' /\ Migrating'
  BY <1>1, <1>3 DEF IInv, OneMove, Migrating, AtMostOne, OperationSteps
<1>7. Halfway'
  BY <1>1, <1>3, <1>4 DEF IInv, Halfway, Lines, Indexed
<1>8. DiskAgrees'
  BY <1>1, <1>3, <1>4, OthersAgree DEF Lines
<1>. QED
  BY <1>1, <1>4, <1>5, <1>6, <1>7, <1>8 DEF IInv, OperationSteps

LEMMA UnindexOldStep == IInv /\ UnindexOld => IInv'
<1> SUFFICES ASSUME IInv, UnindexOld PROVE IInv'
  OBVIOUS
<1>1. /\ pc = "unindexOld" /\ pc' = "masterOld"
      /\ UNCHANGED <<files, torn, master, legacy, op, todo, said, harmed, harms>>
  BY DEF UnindexOld, history
<1>2. PICK e \in op.old : UnindexEntry(e)
  BY DEF UnindexOld
<1>3. /\ legacy # "present" /\ e \in Entries /\ op.old = {e} /\ Touched = {e.id}
      /\ Touched' = Touched
  BY <1>1, AtWork DEF IInv, OneMove, AtMostOne, OperationSteps, Readable, Touched
<1>4. /\ index' \subseteq index
      /\ Lines(e.id)' = {l \in Lines(e.id) : l.type # e.type}
      /\ \A i : i # e.id => Lines(i)' = Lines(i)
  BY <1>2, <1>3, AfterUnindex
<1>5. TypeOK'
  BY <1>1, <1>4, FS_Subset DEF IInv, TypeOK
<1>6. OneMove' /\ Migrating'
  BY <1>1, <1>3 DEF IInv, OneMove, Migrating, AtMostOne, OperationSteps
<1>7. Halfway'
  <2>1. \A l \in Indexed(op.old) : l.type = e.type
    BY <1>3, PlaceFields DEF Indexed
  <2>2. e.id \notin harmed =>
          Under(e.id, files) = {} /\ Lines(e.id) = Indexed(op.old)
    BY <1>1, <1>3 DEF IInv, Halfway
  <2>3. e.id \notin harmed => Lines(e.id)' = {}
    BY <1>4, <2>1, <2>2
  <2>. QED
    BY <1>1, <1>3, <2>2, <2>3 DEF Halfway
<1>8. DiskAgrees'
  BY <1>1, <1>3, <1>4, OthersAgree
<1>. QED
  BY <1>1, <1>4, <1>5, <1>6, <1>7, <1>8 DEF IInv, OperationSteps

LEMMA MasterOldStep == IInv /\ MasterOld => IInv'
<1> SUFFICES ASSUME IInv, MasterOld PROVE IInv'
  OBVIOUS
<1>1. pc = "masterOld" /\ pc \in OperationSteps
  BY DEF MasterOld, OperationSteps
<1>2. CASE Fail
  BY <1>1, <1>2, FailStep
<1>3. CASE /\ op.new = {} /\ Finish /\ master' = Counts
           /\ UNCHANGED <<files, index, torn, legacy, todo>>
  <2>1. \A i \in Touched \ harmed :
          Under(i, files) = op.new /\ Lines(i) = Indexed(op.new)
    BY <1>1, <1>3 DEF IInv, Halfway, Indexed
  <2>. QED
    BY <1>1, <1>3, <2>1, FinishStep
<1>4. CASE /\ op.new # {} /\ pc' = "write" /\ master' = Counts
           /\ UNCHANGED <<files, index, torn, legacy, todo, op, said, harmed, harms>>
  <2>1. legacy # "present" /\ Touched' = Touched /\ op.old # {}
    BY <1>1, <1>4, AtWork DEF Touched, IInv, OneMove
  <2>2. TypeOK'
    BY <1>4, CountsType DEF IInv, TypeOK
  <2>3. OneMove' /\ Halfway' /\ Migrating'
    BY <1>1, <1>4, <2>1 DEF IInv, OneMove, Halfway, Migrating, AtMostOne,
      OperationSteps, Lines
  <2>4. DiskAgrees'
    BY <1>4, <2>1, OthersAgree DEF Lines
  <2>. QED
    BY <1>4, <2>2, <2>3, <2>4 DEF IInv, OperationSteps
<1>. QED
  BY <1>2, <1>3, <1>4 DEF MasterOld, history

LEMMA WriteStep == IInv /\ Write => IInv'
<1> SUFFICES ASSUME IInv, Write PROVE IInv'
  OBVIOUS
<1>1. /\ pc = "write" /\ pc' = "index"
      /\ UNCHANGED <<index, torn, master, legacy, op, todo, said, harmed, harms>>
  BY DEF Write, history
<1>2. PICK e \in op.new : WriteEntry(e)
  BY DEF Write
<1>3. /\ legacy # "present" /\ e \in Entries /\ op.new = {e} /\ Touched = {e.id}
      /\ Touched' = Touched
  BY <1>1, AtWork DEF IInv, OneMove, AtMostOne, OperationSteps, Readable, Touched
<1>4. /\ files' \subseteq Entries /\ IsFiniteSet(files')
      /\ \A d, f \in files' : Place(d) = Place(f) => d = f
      /\ Under(e.id, files') =
           {f \in Under(e.id, files) : Place(f) # Place(e)} \union {e}
      /\ \A i : i # e.id => Under(i, files') = Under(i, files)
  BY <1>2, <1>3, AfterWrite DEF IInv, TypeOK
<1>5. TypeOK'
  BY <1>1, <1>4 DEF IInv, TypeOK
<1>6. OneMove' /\ Migrating'
  BY <1>1, <1>3 DEF IInv, OneMove, Migrating, AtMostOne, OperationSteps
<1>7. Halfway'
  <2> SUFFICES ASSUME e.id \notin harmed
               PROVE  Under(e.id, files') = {e} /\ Lines(e.id) \subseteq {Place(e)}
    BY <1>1, <1>3 DEF Halfway, Lines
  <2>1. CASE op.old # {}
    BY <1>1, <1>3, <1>4, <2>1 DEF IInv, Halfway
  <2>2. CASE op.old = {}
    <3>1. /\ Under(e.id, files) = said[e.id] /\ Lines(e.id) = Indexed(said[e.id])
          /\ \A d \in said[e.id] : Place(d) = Place(e)
      BY <1>1, <1>3, <2>2 DEF IInv, Halfway
    <3>. QED
      BY <1>4, <3>1 DEF Indexed
  <2>. QED
    BY <2>1, <2>2
<1>8. DiskAgrees'
  BY <1>1, <1>3, <1>4, OthersAgree DEF Lines
<1>. QED
  BY <1>1, <1>4, <1>5, <1>6, <1>7, <1>8 DEF IInv, OperationSteps

LEMMA IndexStep == IInv /\ Index => IInv'
<1> SUFFICES ASSUME IInv, Index PROVE IInv'
  OBVIOUS
<1>1. pc = "index" /\ pc \in OperationSteps
  BY DEF Index, OperationSteps
<1>2. CASE Fail
  BY <1>1, <1>2, FailStep
<1>3. ASSUME NEW e \in op.new, e.type \notin torn, IndexEntry(e), pc' = "master",
             UNCHANGED <<files, torn, master, legacy, op, todo, said, harmed, harms>>
      PROVE  IInv'
  <2>1. /\ legacy # "present" /\ e \in Entries /\ op.new = {e} /\ Touched = {e.id}
        /\ Touched' = Touched
    BY <1>1, <1>3, AtWork DEF IInv, OneMove, AtMostOne, OperationSteps, Readable, Touched
  <2>2. /\ index' \subseteq Places /\ IsFiniteSet(index')
        /\ \A l \in index' : l \in index \/ l = Place(e)
        /\ Lines(e.id)' = {l \in Lines(e.id) : l.type # e.type} \union {Place(e)}
        /\ \A i : i # e.id => Lines(i)' = Lines(i)
    BY <1>3, <2>1, AfterIndex DEF IInv, TypeOK
  <2>3. TypeOK'
    BY <1>3, <2>2 DEF IInv, TypeOK
  <2>4. OneMove' /\ Migrating'
    BY <1>1, <1>3, <2>1 DEF IInv, OneMove, Migrating, AtMostOne, OperationSteps
  <2>5. Halfway'
    <3>1. e.id \notin harmed =>
            Under(e.id, files) = op.new /\ Lines(e.id) \subseteq {Place(e)}
      BY <1>1, <2>1 DEF IInv, Halfway
    <3>2. Place(e).type = e.type
      BY <2>1, PlaceFields
    <3>3. e.id \notin harmed => Lines(e.id)' = {Place(e)}
      BY <2>2, <3>1, <3>2
    <3>4. Indexed(op.new)' = {Place(e)}
      BY <1>3, <2>1 DEF Indexed
    <3>. QED
      BY <1>3, <2>1, <3>1, <3>3, <3>4 DEF Halfway
  <2>6. DiskAgrees'
    BY <1>3, <2>1, <2>2, OthersAgree
  <2>7. \A l \in index' : l.type \notin torn'
    BY <1>3, <2>1, <2>2, PlaceFields DEF IInv
  <2>. QED
    BY <1>3, <2>3, <2>4, <2>5, <2>6, <2>7 DEF IInv, OperationSteps
<1>. QED
  BY <1>2, <1>3 DEF Index, history

LEMMA MasterStep == IInv /\ Master => IInv'
<1> SUFFICES ASSUME IInv, Master PROVE IInv'
  OBVIOUS
<1>1. pc = "master" /\ pc \in OperationSteps
  BY DEF Master, OperationSteps
<1>2. CASE Fail
  BY <1>1, <1>2, FailStep
<1>3. CASE /\ Finish /\ master' = Counts
           /\ UNCHANGED <<files, index, torn, legacy, todo>>
  <2>1. \A i \in Touched \ harmed :
          Under(i, files) = op.new /\ Lines(i) = Indexed(op.new)
    BY <1>1 DEF IInv, Halfway
  <2>. QED
    BY <1>1, <1>3, <2>1, FinishStep
<1>. QED
  BY <1>2, <1>3 DEF Master

-----------------------------------------------------------------------------
\* While the flat file is there, only the migration has been at work.
LEMMA OnlyMigration ==
  ASSUME IInv, legacy = "present"
  PROVE  /\ op = NoOp /\ Touched = {} /\ pc \notin OperationSteps /\ harmed = {}
         /\ Legacy \subseteq Readable /\ Legacy \subseteq Entries
         /\ \A e \in Legacy : e \in Entries /\ e.id \in Ids /\ e.type \in Types
  BY StoreAssumption DEF IInv, Migrating, OneMove, NoOp, Touched, Readable, Entries

\* What a step of the migration leaves to show: types, files one at a place,
\* no line under a torn index, and how far it is.
LEMMA MigrationStep ==
  ASSUME IInv, legacy = "present", TypeOK', Migrating', legacy' = "present",
         pc' \notin OperationSteps, UNCHANGED <<op, said, harmed>>,
         \A d, e \in files' : Place(d) = Place(e) => d = e,
         \A l \in index' : l.type \notin torn'
  PROVE  IInv'
<1>1. OneMove' /\ Halfway'
  BY OnlyMigration DEF IInv, OneMove, Halfway, NoOp, Touched, OperationSteps
<1>2. DiskAgrees'
  BY DEF DiskAgrees, Settled
<1>. QED
  BY <1>1, <1>2 DEF IInv

LEMMA MigrateStep == IInv /\ Migrate => IInv'
<1> SUFFICES ASSUME IInv, Migrate PROVE IInv'
  OBVIOUS
<1>1. /\ legacy = "present" /\ pc' = "migrateEntry" /\ todo' = Legacy
      /\ UNCHANGED <<files, index, torn, master, legacy, op, said, harmed, harms>>
  BY DEF Migrate, disk, history
<1>2. TypeOK'
  BY <1>1 DEF IInv, TypeOK
<1>3. Migrating'
  BY <1>1, OnlyMigration DEF IInv, Migrating, OperationSteps
<1>. QED
  BY <1>1, <1>2, <1>3, MigrationStep DEF IInv, OperationSteps

LEMMA MigrateEntryStep == IInv /\ MigrateEntry => IInv'
<1> SUFFICES ASSUME IInv, MigrateEntry PROVE IInv'
  OBVIOUS
<1>1. /\ pc = "migrateEntry" /\ legacy = "present"
      /\ UNCHANGED <<index, torn, master, legacy, op, said, harmed, harms>>
      /\ todo \subseteq Legacy /\ Legacy \ todo \subseteq files
  BY DEF MigrateEntry, history, IInv, Migrating, OperationSteps
<1>2. CASE todo = {} /\ pc' = "migrateIndex" /\ todo' = {f.type : f \in files} /\ files' = files
  <2>1. files = Legacy
    <3>1. Legacy \subseteq files
      BY <1>1, <1>2
    <3>2. ASSUME NEW f \in files PROVE f \in Legacy
      <4>1. PICK e \in Legacy : Place(f) = Place(e)
        BY <1>1 DEF IInv, Migrating
      <4>. QED
        BY <3>1, <4>1 DEF IInv
    <3>. QED
      BY <3>1, <3>2
  <2>2. todo' \subseteq {e.type : e \in Legacy} /\ todo' \subseteq Types
    BY <1>2, <2>1, <1>1, OnlyMigration
  <2>3. TypeOK'
    BY <1>1, <1>2, <2>2 DEF IInv, TypeOK
  <2>4. Migrating'
    BY <1>1, <1>2, <2>1, <2>2 DEF IInv, Migrating, OperationSteps
  <2>. QED
    BY <1>1, <1>2, <2>3, <2>4, MigrationStep DEF IInv, OperationSteps
<1>3. ASSUME NEW e \in todo, WriteEntry(e), todo' = todo \ {e}, pc' = pc
      PROVE  IInv'
  <2>1. e \in Legacy /\ e \in Entries
    BY <1>1, <1>3, OnlyMigration
  <2>2. /\ files' \subseteq Entries /\ IsFiniteSet(files')
        /\ \A d, f \in files' : Place(d) = Place(f) => d = f
    BY <1>3, <2>1, AfterWrite DEF IInv, TypeOK
  <2>3. files' = {f \in files : Place(f) # Place(e)} \union {e}
    BY <1>3 DEF WriteEntry
  <2>4. TypeOK'
    BY <1>1, <1>3, <2>2 DEF IInv, TypeOK
  <2>5. Legacy \ todo' \subseteq files'
    <3>1. \A d \in Legacy : Place(d) = Place(e) => d = e
      BY <2>1, PlaceFields, OnlyMigration, <1>1, StoreAssumption
    <3>. QED
      BY <1>1, <1>3, <2>3, <3>1
  <2>6. {Place(f) : f \in files'} \subseteq {Place(d) : d \in Legacy}
    BY <1>1, <2>1, <2>3 DEF IInv, Migrating
  <2>7. Migrating'
    BY <1>1, <1>3, <2>5, <2>6 DEF IInv, Migrating, OperationSteps
  <2>. QED
    BY <1>1, <1>3, <2>2, <2>4, <2>7, MigrationStep DEF IInv, OperationSteps
<1>. QED
  BY <1>2, <1>3 DEF MigrateEntry

LEMMA MigrateIndexStep == IInv /\ MigrateIndex => IInv'
<1> SUFFICES ASSUME IInv, MigrateIndex PROVE IInv'
  OBVIOUS
<1>1. /\ pc = "migrateIndex" /\ legacy = "present" /\ files = Legacy
      /\ UNCHANGED <<files, master, legacy, op, said, harmed, harms>>
      /\ todo \subseteq {e.type : e \in Legacy}
      /\ \A e \in Legacy : e.type \in todo \/ (Place(e) \in index /\ e.type \notin torn)
      /\ index \subseteq {Place(e) : e \in Legacy} /\ torn \subseteq {e.type : e \in Legacy}
  BY DEF MigrateIndex, history, IInv, Migrating, OperationSteps
<1>2. CASE todo = {} /\ pc' = "migrateMaster" /\ UNCHANGED <<index, torn, todo>>
  <2>1. TypeOK'
    BY <1>1, <1>2 DEF IInv, TypeOK
  <2>2. torn = {} /\ index = {Place(e) : e \in Legacy}
    BY <1>1, <1>2
  <2>3. Migrating'
    BY <1>1, <1>2, <2>2 DEF IInv, Migrating, OperationSteps
  <2>. QED
    BY <1>1, <1>2, <2>1, <2>3, MigrationStep DEF IInv, OperationSteps
<1>3. ASSUME NEW t \in todo, RebuildTypeIndex(t), todo' = todo \ {t}, pc' = pc
      PROVE  IInv'
  <2> DEFINE G == {f \in files : f.type = t}
             new == {Place(f) : f \in G}
  <2>1. index' = {l \in index : l.type # t} \union new /\ torn' = torn \ {t}
    BY <1>3 DEF RebuildTypeIndex
  <2>2. \A f \in files : f \in Entries /\ Place(f) \in Places /\ Place(f).type = f.type
    BY PlaceFields DEF IInv, TypeOK
  <2>3. IsFiniteSet(new)
    <3>1. [f \in G |-> Place(f)] \in Surjection(G, new)
      BY DEF Surjection
    <3>2. IsFiniteSet(G)
      BY FS_Subset DEF IInv, TypeOK
    <3>. QED
      BY <3>1, <3>2, FS_Surjection
  <2>4. index' \subseteq Places /\ IsFiniteSet(index')
    <3>1. IsFiniteSet({l \in index : l.type # t})
      BY FS_Subset DEF IInv, TypeOK
    <3>. QED
      BY <2>1, <2>2, <2>3, <3>1, FS_Union DEF IInv, TypeOK
  <2>5. TypeOK'
    BY <1>1, <1>3, <2>1, <2>4 DEF IInv, TypeOK
  <2>6. \A l \in new : l.type = t
    BY <2>2
  <2>7. \A l \in index' : l.type \notin torn'
    BY <2>1, <2>6 DEF IInv
  <2>8. \A e \in Legacy : e.type \in todo' \/ (Place(e) \in index' /\ e.type \notin torn')
    BY <1>1, <1>3, <2>1, <2>2
  <2>9. index' \subseteq {Place(e) : e \in Legacy} /\ torn' \subseteq {e.type : e \in Legacy}
    BY <1>1, <2>1
  <2>10. Migrating'
    BY <1>1, <1>3, <2>8, <2>9 DEF IInv, Migrating, OperationSteps
  <2>. QED
    BY <1>1, <1>3, <2>5, <2>7, <2>10, MigrationStep DEF IInv, OperationSteps
<1>. QED
  BY <1>2, <1>3 DEF MigrateIndex

LEMMA MigrateMasterStep == IInv /\ MigrateMaster => IInv'
<1> SUFFICES ASSUME IInv, MigrateMaster PROVE IInv'
  OBVIOUS
<1>1. /\ pc = "migrateMaster" /\ pc' = "migrateRename" /\ master' = Counts
      /\ UNCHANGED <<files, index, torn, legacy, op, todo, said, harmed, harms>>
      /\ legacy = "present"
  BY DEF MigrateMaster, history, IInv, OperationSteps
<1>2. TypeOK'
  BY <1>1, CountsType DEF IInv, TypeOK
<1>3. Migrating'
  BY <1>1 DEF IInv, Migrating, OperationSteps
<1>. QED
  BY <1>1, <1>2, <1>3, MigrationStep DEF IInv, OperationSteps

\* The rename ends it: what the flat file said is what the disk holds.
LEMMA MigrateRenameStep == IInv /\ MigrateRename => IInv'
<1> SUFFICES ASSUME IInv, MigrateRename PROVE IInv'
  OBVIOUS
<1>1. /\ pc = "migrateRename" /\ pc' = "idle" /\ legacy' = "backup"
      /\ UNCHANGED <<files, index, torn, master, op, todo, said, harmed, harms>>
      /\ legacy = "present"
  BY DEF MigrateRename, history, IInv, OperationSteps
<1>2. /\ files = Legacy /\ torn = {} /\ index = {Place(e) : e \in Legacy}
      /\ said = [i \in Ids |-> Under(i, Legacy)]
  BY <1>1 DEF IInv, Migrating
<1>3. DiskAgrees'
  <2> SUFFICES ASSUME NEW i \in Ids
               PROVE  /\ Under(i, files) = said[i] /\ AtMostOne(said[i])
                      /\ Lines(i) = Indexed(said[i])
    BY <1>1 DEF DiskAgrees, Lines, Indexed
  <2>1. \A e \in Legacy : Place(e).id = e.id
    BY <1>1, OnlyMigration, PlaceFields
  <2>. QED
    BY <1>2, <2>1, StoreAssumption DEF Under, AtMostOne, Lines, Indexed
<1>4. TypeOK' /\ Migrating'
  BY <1>1 DEF IInv, TypeOK, Migrating
<1>5. OneMove' /\ Halfway'
  BY <1>1, OnlyMigration DEF IInv, OneMove, Halfway, NoOp, Touched, OperationSteps
<1>. QED
  BY <1>1, <1>3, <1>4, <1>5 DEF IInv, OperationSteps

-----------------------------------------------------------------------------
\* An operation or a migration that is cut short: what a failure leaves to
\* show is the disk of the ids that have not been harmed.
LEMMA CutShortStep ==
  ASSUME IInv, CutShort, harmed' \in SUBSET Ids, TypeOK',
         \A d, e \in files' : Place(d) = Place(e) => d = e,
         \A l \in index' : l.type \notin torn',
         legacy = "present" =>
           /\ harmed' = {}
           /\ {Place(f) : f \in files'} \union index' \subseteq {Place(e) : e \in Legacy}
           /\ torn' \subseteq {e.type : e \in Legacy},
         legacy # "present" => DiskAgrees'
  PROVE  IInv'
<1>1. /\ pc' = "idle" /\ op' = NoOp /\ legacy' = legacy /\ said' = said
  BY DEF CutShort
<1>2. OneMove' /\ Halfway'
  BY <1>1 DEF OneMove, Halfway, NoOp, AtMostOne, Touched, OperationSteps
<1>3. Migrating'
  BY <1>1 DEF IInv, Migrating, OperationSteps
<1>4. DiskAgrees'
  BY <1>1 DEF DiskAgrees, Settled
<1>. QED
  BY <1>1, <1>2, <1>3, <1>4 DEF IInv

\* The type of what a failure leaves alone.
LEMMA CutShortType ==
  ASSUME IInv, CutShort, harmed' \in SUBSET Ids,
         files' \subseteq Entries, index' \subseteq Places, torn' \subseteq Types,
         IsFiniteSet(files'), IsFiniteSet(index')
  PROVE  TypeOK'
<1>1. harms' \in 0 .. MaxHarms
  BY StoreAssumption DEF CutShort, IInv, TypeOK
<1>. QED
  BY <1>1 DEF CutShort, IInv, TypeOK, NoOp

\* Who is at work when something fails.
LEMMA AtFailure ==
  ASSUME IInv, pc # "idle"
  PROVE  /\ Touched \subseteq Ids
         /\ legacy = "present" => Touched = {} /\ harmed = {} /\ op = NoOp
         /\ legacy # "present" => pc \in OperationSteps
  BY AtWork, OnlyMigration DEF IInv

LEMMA StopStep == IInv /\ Stop => IInv'
<1> SUFFICES ASSUME IInv, Stop PROVE IInv'
  OBVIOUS
<1>1. /\ CutShort /\ UNCHANGED <<files, index, torn, legacy, said>>
      /\ harmed' = IF Unbegun THEN harmed ELSE harmed \union Touched
      /\ pc # "idle" /\ Touched' = {}
  BY DEF Stop, CutShort, Touched, NoOp
<1>2. harmed' \in SUBSET Ids /\ TypeOK'
  BY <1>1, AtFailure, CutShortType DEF IInv, TypeOK
<1>3. ASSUME legacy # "present" PROVE DiskAgrees'
  <2>1. CASE ~Unbegun
    BY <1>1, <1>3, <2>1, OthersAgree DEF Lines
  <2>2. CASE Unbegun
    <3> SUFFICES ASSUME NEW i \in Ids, Settled(i)'
                 PROVE  /\ Under(i, files) = said[i] /\ AtMostOne(said[i])
                        /\ Lines(i) = Indexed(said[i])
      BY <1>1 DEF DiskAgrees, Lines, Indexed
    <3>1. CASE i \notin Touched
      BY <1>1, <2>2, <3>1 DEF Settled, IInv, DiskAgrees
    <3>2. CASE i \in Touched
      BY <1>1, <2>2, <3>2 DEF Unbegun, Settled, IInv, Halfway, OneMove
    <3>. QED
      BY <3>1, <3>2
  <2>. QED
    BY <2>1, <2>2
<1>4. legacy = "present" =>
        /\ harmed' = {}
        /\ {Place(f) : f \in files'} \union index' \subseteq {Place(e) : e \in Legacy}
        /\ torn' \subseteq {e.type : e \in Legacy}
  BY <1>1, AtFailure DEF IInv, Migrating
<1>. QED
  BY <1>1, <1>2, <1>3, <1>4, CutShortStep DEF IInv

LEMMA TearEntryStep ==
  ASSUME IInv, NEW e \in op.new \union todo, TearEntry(e),
         \/ pc = "write" /\ e \in op.new
         \/ pc = "migrateEntry" /\ e \in todo
  PROVE  IInv'
<1> DEFINE t == [e EXCEPT !.status = "torn"]
<1>1. /\ CutShort /\ WriteEntry(t) /\ UNCHANGED <<index, torn, legacy, said>>
      /\ harmed' = harmed \union Touched /\ Touched' = {} /\ pc # "idle"
  BY DEF TearEntry, CutShort, Touched, NoOp
<1>2. e \in Entries /\ (legacy = "present" => e \in Legacy)
      /\ (legacy # "present" => e.id \in Touched)
  <2>1. CASE pc = "write" /\ e \in op.new
    BY <2>1, AtWork DEF OperationSteps, Readable, Touched
  <2>2. CASE pc = "migrateEntry" /\ e \in todo
    <3>1. legacy = "present"
      BY <2>2 DEF IInv, OperationSteps
    <3>. QED
      BY <2>2, <3>1, OnlyMigration DEF IInv, Migrating
  <2>. QED
    BY <2>1, <2>2
<1>3. t \in Entries /\ t.id = e.id /\ Place(t) = Place(e)
  BY <1>2 DEF Entries, Place
<1> HIDE DEF t
<1>4. /\ files' \subseteq Entries /\ IsFiniteSet(files')
      /\ \A d, f \in files' : Place(d) = Place(f) => d = f
      /\ \A i : i # e.id => Under(i, files') = Under(i, files)
  BY <1>1, <1>3, AfterWrite DEF IInv, TypeOK
<1>5. harmed' \in SUBSET Ids /\ TypeOK'
  BY <1>1, <1>4, AtFailure, CutShortType DEF IInv, TypeOK
<1>6. legacy # "present" => DiskAgrees'
  BY <1>1, <1>2, <1>4, OthersAgree DEF Lines
<1>7. legacy = "present" =>
        /\ harmed' = {}
        /\ {Place(f) : f \in files'} \union index' \subseteq {Place(d) : d \in Legacy}
        /\ torn' \subseteq {d.type : d \in Legacy}
  BY <1>1, <1>2, <1>3, AtFailure DEF IInv, Migrating, WriteEntry
<1>. QED
  BY <1>1, <1>4, <1>5, <1>6, <1>7, CutShortStep DEF IInv

LEMMA TearIndexStep ==
  ASSUME IInv, NEW t \in Types, TearIndex(t),
         legacy = "present" => \E e \in Legacy : e.type = t
  PROVE  IInv'
<1>1. /\ CutShort /\ UNCHANGED <<files, legacy, said>>
      /\ harmed' = harmed \union Touched /\ Touched' = {} /\ pc # "idle"
      /\ index' = {l \in index : l.type # t} /\ torn' = torn \union {t}
  BY DEF TearIndex, CutShort, Touched, NoOp
<1>2. harmed' \in SUBSET Ids /\ TypeOK'
  <2>1. IsFiniteSet(index')
    BY <1>1, FS_Subset DEF IInv, TypeOK
  <2>. QED
    BY <1>1, <2>1, AtFailure, CutShortType DEF IInv, TypeOK
<1>3. legacy # "present" => DiskAgrees'
  BY <1>1, OthersAgree
<1>4. legacy = "present" =>
        /\ harmed' = {}
        /\ {Place(f) : f \in files'} \union index' \subseteq {Place(d) : d \in Legacy}
        /\ torn' \subseteq {d.type : d \in Legacy}
  BY <1>1, AtFailure DEF IInv, Migrating
<1>. QED
  BY <1>1, <1>2, <1>3, <1>4, CutShortStep DEF IInv

LEMMA FailureStep == IInv /\ Failure => IInv'
<1> SUFFICES ASSUME IInv, Failure PROVE IInv'
  OBVIOUS
<1>1. CASE Stop
  BY <1>1, StopStep
<1>2. ASSUME NEW e \in op.new, pc = "write", TearEntry(e) PROVE IInv'
  BY <1>2, TearEntryStep
<1>3. ASSUME NEW e \in todo, pc = "migrateEntry", TearEntry(e) PROVE IInv'
  BY <1>3, TearEntryStep
<1>4. ASSUME NEW e \in op.new \union op.old, pc \in {"index", "unindexOld"},
             TearIndex(e.type)
      PROVE  IInv'
  <2>1. e.type \in Types /\ legacy # "present"
    BY <1>4, AtWork DEF OperationSteps, Readable, Entries
  <2>. QED
    BY <1>4, <2>1, TearIndexStep
<1>5. ASSUME NEW t \in todo, pc = "migrateIndex", TearIndex(t) PROVE IInv'
  <2>1. legacy = "present"
    BY <1>5 DEF IInv, OperationSteps
  <2>2. \E e \in Legacy : e.type = t
    BY <1>5, <2>1 DEF IInv, Migrating
  <2>3. t \in Types
    BY <2>1, <2>2, OnlyMigration
  <2>. QED
    BY <1>5, <2>2, <2>3, TearIndexStep
<1>. QED
  BY <1>1, <1>2, <1>3, <1>4, <1>5 DEF Failure

-----------------------------------------------------------------------------
\* IInv is inductive.
LEMMA NextInv == IInv /\ [Next]_vars => IInv'
<1>1. CASE UNCHANGED vars
  BY <1>1 DEF vars, IInv, TypeOK, OneMove, Halfway, Migrating, DiskAgrees,
    Settled, Touched, Lines, Indexed
<1>. QED
  BY <1>1, OperationStep, RemoveOldStep, UnindexOldStep, MasterOldStep, WriteStep,
    IndexStep, MasterStep, MigrateStep, MigrateEntryStep, MigrateIndexStep,
    MigrateMasterStep, MigrateRenameStep, FailureStep DEF Next

\* The inductive invariant holds of every behaviour, types included.
THEOREM DirectoryInvariant == Spec => []IInv
  BY InitInv, NextInv, PTL DEF Spec

\* Of every id that no operation failed half way at, the disk holds what the
\* store last answered: one file where it was put, one line that lists it.
THEOREM DiskAlwaysAgrees == Spec => []DiskAgrees
<1>1. IInv => DiskAgrees
  BY DEF IInv
<1>. QED
  BY <1>1, DirectoryInvariant, PTL

-----------------------------------------------------------------------------
(* The directories implement one entry under each id.                      *)

\* What is kept, id by id.
LEMMA KeptOf ==
  ASSUME NEW i \in Ids
  PROVE  /\ i \in harmed => Kept[i] = {}
         /\ i \notin harmed /\ legacy = "present" => Kept[i] = said[i]
         /\ i \notin harmed /\ legacy # "present" =>
              /\ i \notin Touched => Kept[i] = Under(i, files)
              /\ op.new = {} \/ op.old = {} => Kept[i] = Under(i, files)
              /\ pc \notin {"unindexOld", "masterOld", "write"} =>
                   Kept[i] = Under(i, files)
              /\ (i \in Touched /\ op.new # {} /\ op.old # {}
                    /\ pc \in {"unindexOld", "masterOld", "write"}) => Kept[i] = op.old
  BY DEF Kept

LEMMA KeptAfter ==
  ASSUME NEW i \in Ids
  PROVE  /\ i \in harmed' => Kept'[i] = {}
         /\ i \notin harmed' /\ legacy' = "present" => Kept'[i] = said'[i]
         /\ i \notin harmed' /\ legacy' # "present" =>
              /\ i \notin Touched' => Kept'[i] = Under(i, files')
              /\ op.new' = {} \/ op.old' = {} => Kept'[i] = Under(i, files')
              /\ pc' \notin {"unindexOld", "masterOld", "write"} =>
                   Kept'[i] = Under(i, files')
              /\ (i \in Touched' /\ op.new' # {} /\ op.old' # {}
                    /\ pc' \in {"unindexOld", "masterOld", "write"}) => Kept'[i] = op.old'
  BY DEF Kept, Under

\* A step that keeps everything under every id is a stutter.
LEMMA KeptSame ==
  ASSUME harmed' = harmed, \A i \in Ids : Kept'[i] = Kept[i]
  PROVE  Kept' = Kept
  BY DEF Kept

\* A failure loses one id, if that was not lost before.
LEMMA LoseStep ==
  ASSUME IInv, pc \in OperationSteps, pc' = "idle", legacy' = legacy,
         harmed' = harmed \union Touched,
         \A i : i \notin Touched => Under(i, files') = Under(i, files)
  PROVE  Abstract!Next \/ (Kept' = Kept /\ harmed' = harmed)
<1>1. legacy # "present" /\ \E j \in Ids : Touched = {j}
  BY AtWork DEF Touched
<1>2. PICK j \in Ids : Touched = {j}
  BY <1>1
<1>3. \A i \in Ids : i # j => Kept'[i] = Kept[i]
  BY <1>1, <1>2, KeptOf, KeptAfter
<1>4. Kept'[j] = {}
  BY <1>2, KeptAfter
<1>5. CASE j \in harmed
  BY <1>2, <1>3, <1>4, <1>5, KeptOf, KeptSame
<1>6. CASE j \notin harmed
  <2>1. Kept' = [Kept EXCEPT ![j] = {}]
    BY <1>3, <1>4 DEF Kept
  <2>2. Abstract!Lose(j)
    BY <1>2, <2>1 DEF Abstract!Lose
  <2>. QED
    BY <1>6, <2>2 DEF Abstract!Next
<1>. QED
  BY <1>5, <1>6

\* The steps that the promise does not see keep everything.
LEMMA QuietStep ==
  ASSUME IInv, UNCHANGED <<files, legacy, said, harmed>>,
         \/ legacy = "present"
         \/ Touched' = {} /\ (Touched = {} \/ op.old = {} \/ op.new = {} \/ Unbegun
                                \/ pc \in {"index", "master"})
         \/ op' = op /\ pc \in {"unindexOld", "masterOld"} /\ pc' \in {"masterOld", "write"}
         \/ op' = op /\ pc \in {"index", "master"} /\ pc' \in {"index", "master"}
         \/ Touched = {} /\ pc' \in {"removeOld", "write"}
              /\ (pc' = "write" => op'.old = {})
  PROVE  Kept' = Kept
<1> SUFFICES ASSUME NEW i \in Ids PROVE Kept'[i] = Kept[i]
  BY KeptSame
<1>1. CASE i \in harmed \/ legacy = "present"
  BY <1>1, KeptOf, KeptAfter
<1>2. CASE /\ i \notin harmed /\ legacy # "present"
           /\ op' = op /\ pc \in {"unindexOld", "masterOld"}
           /\ pc' \in {"masterOld", "write"}
  <2>1. Touched' = Touched
    BY <1>2 DEF Touched
  <2>. QED
    BY <1>2, <2>1, KeptOf, KeptAfter
<1>3. CASE /\ i \notin harmed /\ legacy # "present"
           /\ ~(op' = op /\ pc \in {"unindexOld", "masterOld"}
                  /\ pc' \in {"masterOld", "write"})
  <2>1. Kept[i] = Under(i, files)
    BY <1>3, KeptOf DEF Unbegun
  <2>2. Kept'[i] = Under(i, files')
    BY <1>3, KeptAfter
  <2>. QED
    BY <2>1, <2>2
<1>. QED
  BY <1>1, <1>2, <1>3

\* An operation that finishes keeps what its last file operation left.
LEMMA FinishKept ==
  ASSUME IInv, pc \in OperationSteps, pc = "master" \/ op.new = {}, Finish,
         UNCHANGED <<files, legacy>>
  PROVE  Kept' = Kept /\ harmed' = harmed
<1>1. harmed' = harmed /\ legacy # "present" /\ Touched' = {}
  BY AtWork DEF Finish, Touched, NoOp
<1>2. \A i \in Ids \ harmed : Kept[i] = Under(i, files) /\ Kept'[i] = Under(i, files)
  BY <1>1, KeptOf, KeptAfter
<1>3. \A i \in Ids : i \in harmed => Kept[i] = {} /\ Kept'[i] = {}
  BY <1>1, KeptOf, KeptAfter
<1>. QED
  BY <1>1, <1>2, <1>3, KeptSame

\* Taking the old file away drops a candidate that is removed, and keeps one
\* that moves.
LEMMA RemoveOldKept ==
  ASSUME IInv, RemoveOld
  PROVE  Abstract!Next \/ (Kept' = Kept /\ harmed' = harmed)
<1>1. /\ pc = "removeOld" /\ pc' = "unindexOld"
      /\ UNCHANGED <<index, torn, master, legacy, op, todo, said, harmed, harms>>
  BY DEF RemoveOld, history
<1>2. PICK e \in op.old : RemoveEntry(e)
  BY DEF RemoveOld
<1>3. /\ legacy # "present" /\ e \in Entries /\ op.old = {e} /\ Touched = {e.id}
      /\ Touched' = Touched /\ e.id \in Ids
  BY <1>1, AtWork DEF IInv, OneMove, AtMostOne, OperationSteps, Readable, Touched
<1>4. /\ Under(e.id, files') = {f \in Under(e.id, files) : Place(f) # Place(e)}
      /\ \A i : i # e.id => Under(i, files') = Under(i, files)
  BY <1>2, <1>3, AfterRemove DEF IInv, TypeOK
<1>5. \A i \in Ids : i # e.id => Kept'[i] = Kept[i]
  BY <1>1, <1>3, <1>4, KeptOf, KeptAfter
<1>6. CASE e.id \in harmed
  <2>1. Kept'[e.id] = Kept[e.id]
    BY <1>1, <1>3, <1>6, KeptOf, KeptAfter
  <2>. QED
    BY <1>1, <1>5, <2>1, KeptSame
<1>7. CASE e.id \notin harmed
  <2>1. Under(e.id, files) = {e} /\ Kept[e.id] = {e}
    BY <1>1, <1>3, <1>7, KeptOf DEF IInv, Halfway
  <2>2. CASE op.new # {}
    <3>1. Kept'[e.id] = {e}
      BY <1>1, <1>3, <1>7, <2>2, KeptAfter
    <3>. QED
      BY <1>1, <1>5, <2>1, <3>1, KeptSame
  <2>3. CASE op.new = {}
    <3>1. Kept'[e.id] = {}
      BY <1>1, <1>3, <1>4, <1>7, <2>1, <2>3, KeptAfter
    <3>2. Kept' = [Kept EXCEPT ![e.id] = {}]
      BY <1>5, <3>1 DEF Kept
    <3>3. Pending
      BY <1>1, <2>3 DEF IInv, OneMove, OperationSteps
    <3>4. Abstract!Drop(e.id)
      BY <1>1, <2>1, <3>2, <3>3 DEF Abstract!Drop
    <3>. QED
      BY <1>3, <1>7, <3>4 DEF Abstract!Next
  <2>. QED
    BY <2>2, <2>3
<1>. QED
  BY <1>6, <1>7

\* Writing the new file puts the entry.
LEMMA WriteKept ==
  ASSUME IInv, Write
  PROVE  Abstract!Next \/ (Kept' = Kept /\ harmed' = harmed)
<1>1. /\ pc = "write" /\ pc' = "index"
      /\ UNCHANGED <<index, torn, master, legacy, op, todo, said, harmed, harms>>
  BY DEF Write, history
<1>2. PICK e \in op.new : WriteEntry(e)
  BY DEF Write
<1>3. /\ legacy # "present" /\ e \in Entries /\ op.new = {e} /\ Touched = {e.id}
      /\ Touched' = Touched /\ e.id \in Ids
  BY <1>1, AtWork DEF IInv, OneMove, AtMostOne, OperationSteps, Readable, Touched
<1>4. \A i : i # e.id => Under(i, files') = Under(i, files)
  BY <1>2, <1>3, AfterWrite DEF IInv, TypeOK
<1>5. \A i \in Ids : i # e.id => Kept'[i] = Kept[i]
  BY <1>1, <1>3, <1>4, KeptOf, KeptAfter
<1>6. CASE e.id \in harmed
  <2>1. Kept'[e.id] = Kept[e.id]
    BY <1>1, <1>3, <1>6, KeptOf, KeptAfter
  <2>. QED
    BY <1>1, <1>5, <2>1, KeptSame
<1>7. CASE e.id \notin harmed
  <2>1. Kept'[e.id] = {e}
    <3>1. Under(e.id, files') = {e}
      BY <1>1, <1>3, <1>7, WriteStep DEF IInv, Halfway
    <3>. QED
      BY <1>1, <1>3, <1>7, <3>1, KeptAfter
  <2>2. Kept' = [Kept EXCEPT ![e.id] = {e}]
    BY <1>5, <2>1 DEF Kept
  <2>3. Pending => Kept[e.id] = {}
    <3>1. Pending => op.old = {}
      BY <1>3 DEF IInv, OneMove
    <3>. QED
      BY <1>1, <1>3, <1>7, <3>1, KeptOf DEF IInv, Halfway
  <2>4. Abstract!Put(e.id)
    BY <1>1, <1>3, <2>2, <2>3 DEF Abstract!Put
  <2>. QED
    BY <1>3, <1>7, <2>4 DEF Abstract!Next
<1>. QED
  BY <1>6, <1>7

\* The rename of the flat file keeps what it held.
LEMMA MigrateRenameKept ==
  ASSUME IInv, MigrateRename
  PROVE  Kept' = Kept /\ harmed' = harmed
<1>1. /\ legacy = "present" /\ legacy' = "backup" /\ UNCHANGED <<files, said, op, harmed>>
  BY DEF MigrateRename, history, IInv, OperationSteps
<1>2. harmed = {} /\ Touched = {} /\ Touched' = {}
  BY <1>1, OnlyMigration DEF Touched
<1>3. \A i \in Ids : Kept'[i] = Under(i, files) /\ Kept[i] = said[i]
  BY <1>1, <1>2, KeptOf, KeptAfter
<1>4. \A i \in Ids : Under(i, files') = said'[i]
  BY <1>1, <1>2, MigrateRenameStep DEF IInv, DiskAgrees, Settled
<1>. QED
  BY <1>1, <1>3, <1>4, KeptSame

\* A failure loses the one id at work.
LEMMA FailureKept ==
  ASSUME IInv, Failure
  PROVE  Abstract!Next \/ (Kept' = Kept /\ harmed' = harmed)
<1>1. /\ pc # "idle" /\ pc' = "idle" /\ Touched' = {} /\ op' = NoOp
      /\ UNCHANGED <<legacy, said>>
  <2>1. CutShort
    BY DEF Failure, Stop, TearEntry, TearIndex
  <2>. QED
    BY <2>1 DEF CutShort, Touched, NoOp
<1>2. CASE legacy = "present"
  <2>1. harmed' = {} /\ harmed = {}
    BY <1>1, <1>2, AtFailure DEF Failure, Stop, TearEntry, TearIndex
  <2>. QED
    BY <1>1, <1>2, <2>1, KeptOf, KeptAfter, KeptSame
<1>3. CASE legacy # "present"
  <2>1. pc \in OperationSteps
    BY <1>1, <1>3, AtFailure
  <2>2. CASE Stop
    <3>1. CASE Unbegun
      BY <1>1, <2>2, <3>1, QuietStep DEF Stop
    <3>2. CASE ~Unbegun
      BY <1>1, <2>1, <2>2, <3>2, LoseStep DEF Stop
    <3>. QED
      BY <3>1, <3>2
  <2>3. ASSUME NEW e \in op.new, TearEntry(e)
        PROVE  Abstract!Next \/ (Kept' = Kept /\ harmed' = harmed)
    <3> DEFINE t == [e EXCEPT !.status = "torn"]
    <3>1. WriteEntry(t) /\ harmed' = harmed \union Touched
      BY <2>3 DEF TearEntry
    <3>2. t \in Entries /\ t.id = e.id /\ e.id \in Touched
      BY <2>1, <2>3, AtWork DEF Readable, Entries, Touched
    <3> HIDE DEF t
    <3>3. \A i : i # e.id => Under(i, files') = Under(i, files)
      BY <3>1, <3>2, AfterWrite DEF IInv, TypeOK
    <3>. QED
      BY <1>1, <2>1, <3>1, <3>2, <3>3, LoseStep
  <2>4. ASSUME NEW t, TearIndex(t)
        PROVE  Abstract!Next \/ (Kept' = Kept /\ harmed' = harmed)
    BY <1>1, <2>1, <2>4, LoseStep DEF TearIndex
  <2>. QED
    BY <2>1, <2>2, <2>3, <2>4 DEF Failure, OperationSteps
<1>. QED
  BY <1>2, <1>3

\* Every step of the store is a step of the promise or none.
LEMMA KeptStep ==
  ASSUME IInv, Next
  PROVE  Abstract!Next \/ (Kept' = Kept /\ harmed' = harmed)
<1>1. CASE Operation
  <2>1. Touched = {} /\ legacy # "present"
    <3>1. Free
      BY <1>1 DEF Operation, SaveMemory, SaveCandidate, Supersede, RemoveCandidate,
        Refuse
    <3>. QED
      BY <3>1 DEF Free, IInv, OneMove, NoOp, Touched, OperationSteps
  <2>2. ASSUME NEW old, NEW new, Begin(old, new)
        PROVE  Kept' = Kept /\ harmed' = harmed
    BY <2>1, <2>2, QuietStep DEF Begin, disk, history
  <2>3. CASE UNCHANGED vars
    BY <2>3 DEF vars, Kept, Touched, Under
  <2>. QED
    BY <1>1, <2>2, <2>3 DEF Operation, SaveMemory, SaveCandidate, Supersede,
      RemoveCandidate, Refuse
<1>2. CASE RemoveOld
  BY <1>2, RemoveOldKept
<1>3. CASE UnindexOld
  BY <1>3, QuietStep DEF UnindexOld, history
<1>4. CASE MasterOld
  <2>1. pc \in OperationSteps /\ pc = "masterOld"
    BY <1>4 DEF MasterOld, OperationSteps
  <2>2. CASE Fail
    BY <2>1, <2>2, LoseStep DEF Fail, disk
  <2>3. CASE op.new = {} /\ Finish /\ UNCHANGED <<files, legacy>>
    BY <2>1, <2>3, FinishKept
  <2>4. CASE pc' = "write" /\ UNCHANGED <<files, legacy, op, history>>
    BY <2>1, <2>4, QuietStep DEF history
  <2>. QED
    BY <1>4, <2>2, <2>3, <2>4 DEF MasterOld
<1>5. CASE Write
  BY <1>5, WriteKept
<1>6. CASE Index
  <2>1. pc \in OperationSteps /\ pc = "index"
    BY <1>6 DEF Index, OperationSteps
  <2>2. CASE Fail
    BY <2>1, <2>2, LoseStep DEF Fail, disk
  <2>3. CASE pc' = "master" /\ UNCHANGED <<files, legacy, op, history>>
    BY <2>1, <2>3, QuietStep DEF history
  <2>. QED
    BY <1>6, <2>2, <2>3 DEF Index
<1>7. CASE Master
  <2>1. pc \in OperationSteps /\ pc = "master"
    BY <1>7 DEF Master, OperationSteps
  <2>2. CASE Fail
    BY <2>1, <2>2, LoseStep DEF Fail, disk
  <2>3. CASE Finish /\ UNCHANGED <<files, legacy>>
    BY <2>1, <2>3, FinishKept
  <2>. QED
    BY <1>7, <2>2, <2>3 DEF Master
<1>8. CASE Migrate \/ MigrateEntry \/ MigrateIndex \/ MigrateMaster
  <2>1. /\ legacy = "present" /\ legacy' = "present" /\ UNCHANGED <<op, said, harmed>>
    BY <1>8 DEF Migrate, MigrateEntry, MigrateIndex, MigrateMaster, disk, history,
      IInv, OperationSteps
  <2>. QED
    BY <2>1, KeptOf, KeptAfter, KeptSame
<1>9. CASE MigrateRename
  BY <1>9, MigrateRenameKept
<1>10. CASE Failure
  BY <1>10, FailureKept
<1>. QED
  BY <1>1, <1>2, <1>3, <1>4, <1>5, <1>6, <1>7, <1>8, <1>9, <1>10 DEF Next

\* A directory store keeps one entry under each id: a memory until it is put
\* again, a candidate until it is removed; only the id whose own operation
\* fails half way is lost.
THEOREM DirectoryImplements == Spec => Implements
<1>1. Init => Abstract!Init
  <2>1. Init => Kept \in [Ids -> SUBSET Entries]
    BY StoreAssumption DEF Init, Kept, Under
  <2>. QED
    BY <2>1 DEF Init, Abstract!Init
<1>2. IInv /\ [Next]_vars => [Abstract!Next]_<<Kept, harmed>>
  <2>1. UNCHANGED vars => Kept' = Kept /\ harmed' = harmed
    BY DEF vars, Kept, Touched, Under
  <2>. QED
    BY <2>1, KeptStep
<1>. QED
  BY <1>1, <1>2, DirectoryInvariant, PTL DEF Spec, Implements, Abstract!Spec

-----------------------------------------------------------------------------
(* The master index                                                        *)

\* While nothing has failed the master counts the lines of the type indexes,
\* except between a change of those and the next count.
Counted ==
  /\ /\ harmed = {} /\ legacy # "present"
     /\ pc \in {"idle", "removeOld", "unindexOld", "write", "index"}
     => master = Counts
  /\ pc = "migrateRename" => master = Counts

LEMMA InitCounted == Init => Counted
<1>. SUFFICES ASSUME Init PROVE Counted
  OBVIOUS
<1>1. \A t \in Types : {l \in index : l.type = t} = {}
  BY DEF Init
<1>2. Counts = [t \in Types |-> 0]
  BY <1>1, FS_EmptySet DEF Counts
<1>. QED
  BY <1>2 DEF Init, Counted

LEMMA CountedStep ==
  ASSUME IInv, Counted, [Next]_vars
  PROVE  Counted'
<1>0. UNCHANGED index => Counts' = Counts
  BY DEF Counts
\* An operation under way is about some id, so that a failure harms one.
<1>1. /\ pc \in OperationSteps => Touched # {}
      /\ pc \notin OperationSteps \union {"idle"} => legacy = "present"
  BY DEF IInv, OneMove, OperationSteps, Touched
<1>2. CASE UNCHANGED vars
  BY <1>0, <1>2 DEF vars, Counted
<1>3. ASSUME NEW old, NEW new, Free, Begin(old, new) PROVE Counted'
  BY <1>0, <1>3 DEF Free, Begin, Counted, disk, history
<1>4. CASE Operation
  BY <1>2, <1>3, <1>4
  DEF Operation, SaveMemory, SaveCandidate, Supersede, RemoveCandidate, Refuse
<1>5. CASE RemoveOld
  BY <1>0, <1>5 DEF RemoveOld, Counted, history
<1>6. CASE UnindexOld
  BY <1>6 DEF UnindexOld, Counted
<1>7. ASSUME Fail, pc \in OperationSteps PROVE Counted'
  BY <1>1, <1>7 DEF Fail, Counted
<1>8. CASE MasterOld \/ Master
  <2>1. CASE Fail
    BY <1>7, <1>8, <2>1 DEF MasterOld, Master, OperationSteps
  <2>2. CASE master' = Counts /\ UNCHANGED index
    BY <1>0, <2>2 DEF Counted
  <2>. QED
    BY <1>8, <2>1, <2>2 DEF MasterOld, Master
<1>9. CASE Write
  BY <1>0, <1>9 DEF Write, Counted, history
<1>10. CASE Index
  <2>1. CASE Fail
    BY <1>7, <1>10, <2>1 DEF Index, OperationSteps
  <2>2. CASE pc' = "master"
    BY <2>2 DEF Counted
  <2>. QED
    BY <1>10, <2>1, <2>2 DEF Index
<1>11. CASE Migrate \/ MigrateEntry \/ MigrateIndex
  <2>1. legacy' = "present" /\ pc' \in {"migrateEntry", "migrateIndex", "migrateMaster"}
    BY <1>1, <1>11 DEF Migrate, MigrateEntry, MigrateIndex, disk, OperationSteps
  <2>. QED
    BY <2>1 DEF Counted
<1>12. CASE MigrateMaster
  BY <1>0, <1>1, <1>12 DEF MigrateMaster, Counted, OperationSteps
<1>13. CASE MigrateRename
  BY <1>0, <1>13 DEF MigrateRename, Counted
<1>14. CASE Failure
  <2>1. /\ pc # "idle" /\ pc' = "idle" /\ UNCHANGED <<master, legacy>>
        /\ \/ Unbegun /\ UNCHANGED <<harmed, index>>
           \/ harmed' = harmed \union Touched
    BY <1>14 DEF Failure, Stop, TearEntry, TearIndex, CutShort
  <2>2. CASE legacy = "present"
    BY <2>1, <2>2 DEF Counted
  <2>3. CASE legacy # "present"
    <3>1. CASE Unbegun /\ UNCHANGED <<harmed, index>>
      BY <1>0, <2>1, <2>3, <3>1 DEF Unbegun, Counted
    <3>2. CASE harmed' = harmed \union Touched
      BY <1>1, <2>1, <2>3, <3>2 DEF Counted
    <3>. QED
      BY <2>1, <3>1, <3>2
  <2>. QED
    BY <2>2, <2>3
<1>. QED
  BY <1>2, <1>4, <1>5, <1>6, <1>8, <1>9, <1>10, <1>11, <1>12, <1>13, <1>14 DEF Next

\* At rest there is one line for one file.
LEMMA LinesOfFiles ==
  ASSUME IInv, pc = "idle", harmed = {}, torn = {}, legacy # "present", NEW t \in Types
  PROVE  Cardinality({l \in index : l.type = t}) = Cardinality({f \in files : f.type = t})
<1>. DEFINE S == {f \in files : f.type = t}
            T == {l \in index : l.type = t}
            m == [f \in S |-> Place(f)]
<1>1. \A i \in Ids : Lines(i) = {Place(e) : e \in Under(i, files)}
  <2>1. \A i \in Ids : Settled(i)
    BY DEF Settled, Touched, NoOp, IInv, OneMove, OperationSteps
  <2>. QED
    BY <2>1 DEF IInv, DiskAgrees, Indexed
<1>2. /\ files \subseteq Entries /\ index \subseteq Places /\ IsFiniteSet(files)
      /\ \A d, e \in files : Place(d) = Place(e) => d = e
  BY DEF IInv, TypeOK
<1>3. \A f \in S : Place(f) \in T
  <2>. SUFFICES ASSUME NEW f \in S PROVE Place(f) \in T
    OBVIOUS
  <2>1. f \in Entries /\ f.id \in Ids /\ f \in Under(f.id, files)
    BY <1>2 DEF Entries, Under
  <2>2. Place(f) \in Lines(f.id)
    BY <1>1, <2>1
  <2>. QED
    BY <2>1, <2>2, PlaceFields DEF Lines
<1>4. \A l \in T : \E f \in S : Place(f) = l
  <2>. SUFFICES ASSUME NEW l \in T PROVE \E f \in S : Place(f) = l
    OBVIOUS
  <2>1. l.id \in Ids /\ l \in Lines(l.id)
    BY <1>2 DEF Places, Lines
  <2>2. PICK f \in Under(l.id, files) : l = Place(f)
    BY <1>1, <2>1
  <2>3. f \in files /\ f.type = t
    BY <1>2, <2>2, PlaceFields DEF Under
  <2>. QED
    BY <2>2, <2>3
<1>5. m \in [S -> T]
  BY <1>3
<1>6. m \in Injection(S, T)
  BY <1>2, <1>5 DEF Injection, IsInjective
<1>7. m \in Surjection(S, T)
  BY <1>4, <1>5 DEF Surjection
<1>8. ExistsBijection(S, T)
  BY <1>6, <1>7 DEF Bijection, ExistsBijection
<1>9. IsFiniteSet(S)
  BY <1>2, FS_Subset
<1>. QED
  BY <1>8, <1>9, FS_Bijection

\* The invariant says everything the disk is checked for.
LEMMA InvMasterCounts == IInv /\ Counted => MasterCounts
  BY LinesOfFiles DEF Counted, Counts, MasterCounts

LEMMA InvDirectoryAgrees == IInv /\ Counted => DirectoryAgrees
  BY InvMasterCounts DEF IInv, DirectoryAgrees

\* Between operations that all succeeded, the master index counts under each
\* type the files that are there (rebuildMasterFromTypeIndexes).
THEOREM MasterAlwaysCounts == Spec => []MasterCounts
  BY InitCounted, CountedStep, InvMasterCounts, DirectoryInvariant, PTL DEF Spec

\* Files, index lines and counts fit together wherever nothing is under way.
THEOREM DirectoryAlwaysAgrees == Spec => []DirectoryAgrees
  BY InitCounted, CountedStep, InvDirectoryAgrees, DirectoryInvariant, PTL DEF Spec
=============================================================================
