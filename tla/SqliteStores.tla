---------------------------- MODULE SqliteStores ----------------------------
(***************************************************************************)
(* The stores over one SQLite database (storage/src/sqlite).  A table is a *)
(* set of rows.  Every write is a transaction, an INSERT or a DELETE by    *)
(* itself included: its statements run one after another on a working copy *)
(* that the COMMIT publishes, and a statement that fails or a process that *)
(* stops leaves nothing of it.  Opening a database creates the tables an   *)
(* older release did not have, and fills session_dispositions from the     *)
(* audit log if that table is a new one.                                   *)
(***************************************************************************)
EXTENDS AuditEvents, Sequences

CONSTANTS Null,            \* the value of an optional column without one
          MemoryRows,      \* the objects that callers save
          CandidateRows,
          RelationshipRows,
          DiagnosticRows,
          Replacements,    \* a replacement id, as a part of an object, or none
          Events,          \* the audit events that callers append
          OlderDatabases   \* what earlier releases may have left on the disk

VARIABLES db,       \* the committed tables: a function from their names
          handle,   \* "closed" or "open"
          tx,       \* the transaction under way, or none
          told      \* history: the objects callers were told are stored

dbVars == <<db, handle, tx, told>>

-----------------------------------------------------------------------------
(* Rows and objects                                                        *)

\* The columns of the tables, those left out that no property looks at.
MemoryColumns ==
  {"id", "projectId", "content", "status", "supersededBy", "supersededAt"}
CandidateColumns == {"id", "projectId", "content", "duplicateOf"}
AuditColumns == {"type", "key", "byUser", "processed"}
RelationshipColumns == {"id", "projectId", "status", "removedAt"}
DiagnosticColumns == {"id", "projectId", "entityId"}

Columns ==
  [memories |-> MemoryColumns, pending_candidates |-> CandidateColumns,
   audit_log |-> AuditColumns, relationships |-> RelationshipColumns,
   diagnostics_log |-> DiagnosticColumns]

\* What the INSERT of an object binds: NULL for a field it does not have.
Row(table, object) ==
  [c \in Columns[table] |-> IF c \in DOMAIN object THEN object[c] ELSE Null]

\* deserialize: a column that is NULL is a field the object does not have.
Deserialize(row) == [c \in {d \in DOMAIN row : row[d] # Null} |-> row[c]]

\* PRIMARY KEY: what makes two rows of a table the same one.  Memories and
\* candidates have ids of their own, relationships one within a project.
PrimaryKey(table, row) ==
  CASE table \in {"memories", "pending_candidates", "diagnostics_log"} -> row["id"]
    [] table = "relationships" -> <<row["projectId"], row["id"]>>
    [] table = "audit_log" -> row

\* What callers save, and what earlier releases have left of it.
Saved ==
  [memories |-> MemoryRows, pending_candidates |-> CandidateRows, audit_log |-> Events,
   relationships |-> RelationshipRows, diagnostics_log |-> DiagnosticRows]

Left(table) ==
  UNION {{Deserialize(row) : row \in d[table]} :
           d \in {e \in OlderDatabases : table \in DOMAIN e}}

\* An object has fields that are columns, and none without a value.
IsObject(table, o) ==
  /\ o = [c \in DOMAIN o |-> o[c]] /\ DOMAIN o \subseteq Columns[table]
  /\ \A c \in DOMAIN o : o[c] # Null
  /\ IF table = "audit_log" THEN o \in Disposition ELSE {"id", "projectId"} \subseteq DOMAIN o

\* Ids are random (ids.ts), and a shared memory is imported into the project it
\* is of: two projects have no memory, candidate or event in common.  The rows of
\* an older database are those of objects; where it has session_dispositions,
\* the release that wrote it kept it.
ASSUME DatabaseAssumption ==
  /\ Null \notin {"superseded", "then"}
  /\ \A table \in DOMAIN Columns : \A o \in Saved[table] \cup Left(table) : IsObject(table, o)
  /\ \A table \in {"memories", "pending_candidates", "diagnostics_log"} :
       \A o, p \in Saved[table] \cup Left(table) :
         o["id"] = p["id"] => o["projectId"] = p["projectId"]
  /\ \A part \in Replacements :
       /\ part = [c \in DOMAIN part |-> part[c]] /\ DOMAIN part \subseteq {"supersededBy"}
       /\ \A c \in DOMAIN part : part[c] # Null
  /\ \A d \in OlderDatabases :
       /\ DOMAIN d \subseteq DOMAIN Columns \cup {"session_dispositions"}
       /\ \A table \in DOMAIN Columns \cap DOMAIN d : \A row \in d[table] :
            row = Row(table, Deserialize(row))
       /\ "session_dispositions" \in DOMAIN d =>
            /\ "audit_log" \in DOMAIN d
            /\ d["session_dispositions"] = Handled(d["audit_log"])

-----------------------------------------------------------------------------
(* Statements                                                              *)

Insert(table, object) == [verb |-> "insert", table |-> table, row |-> Row(table, object)]
Delete(table, object) == [verb |-> "delete", table |-> table, row |-> Row(table, object)]
Mark(key) == [verb |-> "mark", key |-> key]
Create == [verb |-> "create"]
Fill == [verb |-> "fill"]

\* INSERT OR REPLACE; an INSERT into a log never meets a row with its key.
Inserted(rows, table, row) ==
  {r \in rows : PrimaryKey(table, r) # PrimaryKey(table, row)} \cup {row}

\* WHERE id = ? AND projectId = ?, turned around.
Others(objects, object) ==
  {o \in objects : o["id"] # object["id"] \/ o["projectId"] # object["projectId"]}

\* CREATE TABLE IF NOT EXISTS, for every table.
Created(d) ==
  [t \in DOMAIN Columns \cup {"session_dispositions"} |->
     IF t \in DOMAIN d THEN d[t] ELSE {}]

\* The SELECT over the audit log that fills a new session_dispositions.
Filled(d) ==
  [d EXCEPT !["session_dispositions"] = @ \cup Handled(d["audit_log"])]

Executed(d, s) ==
  CASE s.verb = "insert" -> [d EXCEPT ![s.table] = Inserted(@, s.table, s.row)]
    [] s.verb = "delete" -> [d EXCEPT ![s.table] = Others(@, s.row)]
    [] s.verb = "mark" -> [d EXCEPT !["session_dispositions"] = @ \cup {s.key}]
    [] s.verb = "create" -> Created(d)
    [] s.verb = "fill" -> Filled(d)

NoTransaction == [work |-> <<>>, todo |-> <<>>, result |-> <<>>]

\* The statements of a transaction, and what is told once it is committed.
Transaction(statements, result) ==
  /\ tx = NoTransaction
  /\ tx' = [work |-> db, todo |-> statements, result |-> result]
  /\ UNCHANGED <<db, told>>

\* Faulty variant: each statement is a transaction by itself.
ExecuteCommitted ==
  /\ tx.todo # <<>>
  /\ tx' = [tx EXCEPT !.work = Executed(@, Head(tx.todo)), !.todo = Tail(@)]
  /\ db' = tx'.work
  /\ UNCHANGED <<handle, told>>

Execute ==
  /\ tx.todo # <<>>
  /\ tx' = [tx EXCEPT !.work = Executed(@, Head(tx.todo)), !.todo = Tail(@)]
  /\ UNCHANGED <<db, handle, told>>

Commit ==
  /\ tx # NoTransaction /\ tx.todo = <<>>
  /\ db' = tx.work /\ told' = tx.result
  /\ handle' = "open"
  /\ tx' = NoTransaction

\* A statement fails, or the process stops and its handle is gone: ROLLBACK.
Rollback ==
  /\ tx # NoTransaction
  /\ tx' = NoTransaction
  /\ handle' \in {handle, "closed"}
  /\ UNCHANGED <<db, told>>

-----------------------------------------------------------------------------
(* The operations                                                          *)

\* Every object of a table: list, over all projects, superseded and removed
\* ones included.
Stored(table) == {Deserialize(row) : row \in db[table]}

\* openDatabase, initSchema: one transaction.
OpenDatabase ==
  /\ handle = "closed"
  /\ Transaction(IF "session_dispositions" \in DOMAIN db THEN <<Create>>
                 ELSE <<Create, Fill>>, told)
  /\ UNCHANGED handle

CloseDatabase ==
  /\ handle = "open" /\ tx = NoTransaction
  /\ handle' = "closed"
  /\ UNCHANGED <<db, tx, told>>

\* What is told once an object is in: it is the only one under its id.
Telling(known, table, object) ==
  [known EXCEPT ![table] = Others(@, object) \cup {object}]

Put(table, object) ==
  /\ handle = "open"
  /\ Transaction(<<Insert(table, object)>>, Telling(told, table, object))
  /\ UNCHANGED handle

\* SqliteMemoryStore.save.
PutMemory(entry) == Put("memories", entry)

\* { ...object, ...fields }
Spread(object, fields) ==
  [c \in DOMAIN object \cup DOMAIN fields |->
     IF c \in DOMAIN fields THEN fields[c] ELSE object[c]]

\* supersede: the entry it found, if that is active, with the replacement the
\* caller names, if any.
SupersedeMemory(entry, replacement) ==
  /\ handle = "open"
  /\ entry \in Stored("memories") /\ entry["status"] = "active"
  /\ PutMemory(Spread(Spread(entry, replacement),
                      [status |-> "superseded", supersededAt |-> "then"]))

\* SqlitePendingCandidateStore.save and remove.
PutCandidate(candidate) == Put("pending_candidates", candidate)

DropCandidate(candidate) ==
  /\ handle = "open"
  /\ Transaction(<<Delete("pending_candidates", candidate)>>,
                 [told EXCEPT !["pending_candidates"] = Others(@, candidate)])
  /\ UNCHANGED handle

\* SqliteRelationshipStore.saveMany: a list, in one transaction.
SaveRelationships(first, second) ==
  /\ handle = "open"
  /\ Transaction(<<Insert("relationships", first), Insert("relationships", second)>>,
                 Telling(Telling(told, "relationships", first), "relationships", second))
  /\ UNCHANGED handle

\* SqliteDiagnosticsLogStore.append.
Diagnose(event) ==
  /\ event \notin told["diagnostics_log"]
  /\ Put("diagnostics_log", event)

\* SqliteAuditLogStore.append: the event and, with it, what it marks.
AppendEvent(event) ==
  /\ handle = "open" /\ event \notin told["audit_log"]
  /\ Transaction(IF ProcessedKey(event) = NoKey THEN <<Insert("audit_log", event)>>
                 ELSE <<Insert("audit_log", event), Mark(ProcessedKey(event))>>,
                 [told EXCEPT !["audit_log"] = @ \cup {event}])
  /\ UNCHANGED handle

\* findProcessedSessionFingerprints.
Processed(asked) == asked \cap db["session_dispositions"]

-----------------------------------------------------------------------------

DbInit ==
  /\ db \in OlderDatabases
  /\ handle = "closed" /\ tx = NoTransaction
  /\ told = [t \in DOMAIN Columns |->
               IF t \in DOMAIN db THEN {Deserialize(row) : row \in db[t]} ELSE {}]

DbNext ==
  \/ OpenDatabase \/ CloseDatabase \/ Execute \/ Commit \/ Rollback
  \/ \E entry \in MemoryRows : PutMemory(entry)
  \/ \E entry \in told["memories"], replacement \in Replacements :
        SupersedeMemory(entry, replacement)
  \/ \E candidate \in CandidateRows : PutCandidate(candidate) \/ DropCandidate(candidate)
  \/ \E first, second \in RelationshipRows : SaveRelationships(first, second)
  \/ \E event \in DiagnosticRows : Diagnose(event)
  \/ \E event \in Events : AppendEvent(event)

DbSpec == DbInit /\ [][DbNext]_dbVars

-----------------------------------------------------------------------------
(* Properties                                                              *)

\* Between transactions a database holds what the callers were told, no less,
\* no more and nothing by halves: each object as it was saved last, every
\* list of relationships complete, and exactly the fingerprints that the
\* audit log marks as handled, of events appended under an older release too.
\* (db.ts:111-119, SqliteAuditLogStore.ts:32-51, SqliteRelationshipStore.ts:58)
DatabaseAgrees ==
  handle = "open" /\ tx = NoTransaction =>
    /\ \A t \in DOMAIN Columns : Stored(t) = told[t]
    /\ Processed(Keys) = Handled(told["audit_log"])
=============================================================================
