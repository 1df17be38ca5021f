---------------------------- MODULE StoreProofs ----------------------------
(***************************************************************************)
(* The stores that createStores makes, for any ids, types, scopes and      *)
(* objects, any flat file or older database and any number of operations   *)
(* cut short.                                                              *)
(*                                                                         *)
(* The database: each row is what an object was turned into and turns back *)
(* into it, and what a transaction has still to execute leads from its     *)
(* working copy to what will be told (Leads).                              *)
(*                                                                         *)
(* The directories: the theorems of DirectoryProofs, at both values of     *)
(* Pending, of the store that was chosen.                                  *)
(***************************************************************************)
EXTENDS StoreSets, DirectoryProofs

-----------------------------------------------------------------------------
(* The database                                                            *)

Tables == {"memories", "pending_candidates", "audit_log", "relationships", "diagnostics_log"}

\* The tables that are keyed by id alone.
IdTables == {"memories", "pending_candidates", "diagnostics_log"}

\* What may be stored: objects under ids that belong to one project.
Objects(t) == Saved[t] \cup Left(t)
KnownObject(t, o) ==
  /\ IsObject(t, o)
  /\ t # "audit_log" =>
       \E p \in Objects(t) : p["id"] = o["id"] /\ p["projectId"] = o["projectId"]

Knowledge(k) == DOMAIN k = Tables /\ \A t \in Tables : \A o \in k[t] : KnownObject(t, o)

Marks == "session_dispositions"

\* A database holds the objects of k, in the tables it has.
Fits(d, k) ==
  /\ DOMAIN d \subseteq Tables \cup {Marks}
  /\ \A t \in Tables : IF t \in DOMAIN d THEN d[t] = {Row(t, o) : o \in k[t]} ELSE k[t] = {}
  /\ Marks \in DOMAIN d => d[Marks] = Handled(k["audit_log"])

Complete(d) == DOMAIN d = Tables \cup {Marks}

Whole(d, k) == Knowledge(k) /\ Fits(d, k) /\ Complete(d)

\* The statements left lead from d to a database that holds what k says.
Leads(d, left, k) ==
  \/ left = <<>> /\ Whole(d, k)
  \/ \E s : left = <<s>> /\ Whole(Executed(d, s), k)
  \/ \E s, u : left = <<s, u>> /\ Whole(Executed(Executed(d, s), u), k)

DbInv ==
  /\ Knowledge(told) /\ Fits(db, told)
  /\ handle \in {"open", "closed"}
  /\ handle = "open" => Complete(db)
  /\ tx = [work |-> tx.work, todo |-> tx.todo, result |-> tx.result]
  /\ tx # NoTransaction => Leads(tx.work, tx.todo, tx.result)

LEMMA ColumnsOf ==
  /\ DOMAIN Columns = Tables
  /\ \A t \in Tables \ {"audit_log"} : {"id", "projectId"} \subseteq Columns[t]
  /\ Columns["audit_log"] = {"type", "key", "byUser", "processed"}
  /\ "status" \in Columns["memories"] /\ "supersededAt" \in Columns["memories"]
  /\ "supersededBy" \in Columns["memories"]
  BY DEF Columns, Tables, MemoryColumns, CandidateColumns, AuditColumns,
         RelationshipColumns, DiagnosticColumns

\* What is written is read again.
LEMMA RowRead ==
  ASSUME NEW t \in Tables, NEW o, IsObject(t, o)
  PROVE  /\ Deserialize(Row(t, o)) = o
         /\ t # "audit_log" => Row(t, o)["id"] = o["id"] /\ Row(t, o)["projectId"] = o["projectId"]
<1>. DEFINE row == Row(t, o)
<1>1. /\ DOMAIN row = Columns[t]
      /\ \A c \in Columns[t] : row[c] = IF c \in DOMAIN o THEN o[c] ELSE Null
  BY DEF Row
<1>2. /\ o = [c \in DOMAIN o |-> o[c]] /\ DOMAIN o \subseteq Columns[t]
      /\ \A c \in DOMAIN o : o[c] # Null
  BY DEF IsObject
<1>. HIDE DEF row
<1>3. {d \in DOMAIN row : row[d] # Null} = DOMAIN o
  BY <1>1, <1>2
<1>4. [c \in DOMAIN o |-> row[c]] = [c \in DOMAIN o |-> o[c]]
  BY <1>1, <1>2
<1>5. Deserialize(row) = o
  BY <1>2, <1>3, <1>4 DEF Deserialize
<1>6. t # "audit_log" => row["id"] = o["id"] /\ row["projectId"] = o["projectId"]
  BY <1>1, <1>2, ColumnsOf DEF IsObject
<1>. QED
  BY <1>5, <1>6 DEF row

\* An event is its own row.
LEMMA EventRow ==
  ASSUME NEW e, IsObject("audit_log", e)
  PROVE  /\ Row("audit_log", e) = e
         /\ ProcessedKey(e) \in Keys \cup {NoKey}
<1>1. e \in Disposition /\ e = [c \in DOMAIN e |-> e[c]]
  BY DEF IsObject
<1>2. DOMAIN e = Columns["audit_log"]
  BY <1>1, ColumnsOf DEF Disposition
<1>3. Row("audit_log", e) = [c \in DOMAIN e |-> e[c]]
  BY <1>2 DEF Row
<1>4. ProcessedKey(e) \in Keys \cup {NoKey}
  BY <1>1 DEF Disposition, ProcessedKey
<1>. QED
  BY <1>1, <1>3, <1>4

\* Two objects have one primary key if they are one under id and project.
LEMMA OneKey ==
  ASSUME NEW t \in Tables \ {"audit_log"}, NEW o, NEW p, KnownObject(t, o), KnownObject(t, p)
  PROVE  PrimaryKey(t, Row(t, o)) = PrimaryKey(t, Row(t, p))
           <=> o["id"] = p["id"] /\ o["projectId"] = p["projectId"]
<1>1. /\ Row(t, o)["id"] = o["id"] /\ Row(t, o)["projectId"] = o["projectId"]
      /\ Row(t, p)["id"] = p["id"] /\ Row(t, p)["projectId"] = p["projectId"]
  BY RowRead DEF KnownObject
<1>2. CASE t \in IdTables
  <2>1. o["id"] = p["id"] => o["projectId"] = p["projectId"]
    BY <1>2, DatabaseAssumption DEF KnownObject, Objects, IdTables
  <2>2. PrimaryKey(t, Row(t, o)) = Row(t, o)["id"] /\ PrimaryKey(t, Row(t, p)) = Row(t, p)["id"]
    BY <1>2 DEF PrimaryKey, IdTables
  <2>. QED
    BY <1>1, <2>1, <2>2
<1>3. CASE t = "relationships"
  <2>1. /\ PrimaryKey(t, Row(t, o)) = <<Row(t, o)["projectId"], Row(t, o)["id"]>>
        /\ PrimaryKey(t, Row(t, p)) = <<Row(t, p)["projectId"], Row(t, p)["id"]>>
    BY <1>3 DEF PrimaryKey
  <2>. QED
    BY <1>1, <2>1
<1>. QED
  BY <1>2, <1>3 DEF Tables, IdTables

LEMMA OthersIn ==
  ASSUME NEW S, NEW o
  PROVE  \A p : p \in Others(S, o) <=> p \in S /\ (p["id"] # o["id"] \/ p["projectId"] # o["projectId"])
  BY DEF Others

\* INSERT OR REPLACE leaves the object as the only one under its id.
LEMMA InsertedRows ==
  ASSUME NEW t \in Tables \ {"audit_log"}, NEW S, \A p \in S : KnownObject(t, p),
         NEW o, KnownObject(t, o)
  PROVE  Inserted({Row(t, p) : p \in S}, t, Row(t, o)) = {Row(t, p) : p \in Others(S, o) \cup {o}}
<1>. DEFINE rows == {Row(t, p) : p \in S}
            other(r) == PrimaryKey(t, r) # PrimaryKey(t, Row(t, o))
<1>1. \A p \in S : other(Row(t, p)) <=> p \in Others(S, o)
  BY OneKey, OthersIn
<1>2. {r \in rows : other(r)} = {Row(t, p) : p \in Others(S, o)}
  <2>. HIDE DEF other
  <2>1. \A r \in rows : other(r) => \E p \in Others(S, o) : r = Row(t, p)
    BY <1>1
  <2>2. \A p \in Others(S, o) : Row(t, p) \in rows /\ other(Row(t, p))
    BY <1>1, OthersIn
  <2>. QED
    BY <2>1, <2>2
<1>. QED
  BY <1>2 DEF Inserted

\* DELETE takes the object under that id.
LEMMA DeletedRows ==
  ASSUME NEW t \in Tables \ {"audit_log"}, NEW S, \A p \in S : KnownObject(t, p),
         NEW o, KnownObject(t, o)
  PROVE  Others({Row(t, p) : p \in S}, Row(t, o)) = {Row(t, p) : p \in Others(S, o)}
<1>1. \A p \in S \cup {o} : Row(t, p)["id"] = p["id"] /\ Row(t, p)["projectId"] = p["projectId"]
  BY RowRead DEF KnownObject
<1>. DEFINE rows == {Row(t, p) : p \in S}
<1>2. \A r \in Others(rows, Row(t, o)) : \E p \in Others(S, o) : r = Row(t, p)
  BY <1>1, OthersIn
<1>3. \A p \in Others(S, o) : Row(t, p) \in Others(rows, Row(t, o))
  BY <1>1, OthersIn
<1>. QED
  BY <1>2, <1>3, OthersIn

\* What is in a table is what is read from it.
LEMMA TableRead ==
  ASSUME NEW k, Knowledge(k), NEW d, Fits(d, k), NEW t \in Tables, t \in DOMAIN d
  PROVE  {Deserialize(row) : row \in d[t]} = k[t]
<1>1. d[t] = {Row(t, o) : o \in k[t]}
  BY DEF Fits
<1>2. \A o \in k[t] : Deserialize(Row(t, o)) = o
  BY RowRead DEF Knowledge, KnownObject
<1>. QED
  BY <1>1, <1>2

LEMMA TellingKnown ==
  ASSUME NEW k, Knowledge(k), NEW t \in Tables, NEW o, KnownObject(t, o)
  PROVE  /\ Knowledge(Telling(k, t, o))
         /\ Telling(k, t, o)[t] = Others(k[t], o) \cup {o}
         /\ \A u \in Tables \ {t} : Telling(k, t, o)[u] = k[u]
<1>1. /\ DOMAIN Telling(k, t, o) = Tables
      /\ Telling(k, t, o)[t] = Others(k[t], o) \cup {o}
      /\ \A u \in Tables \ {t} : Telling(k, t, o)[u] = k[u]
  BY DEF Telling, Knowledge
<1>. QED
  BY <1>1, OthersIn DEF Knowledge

\* What one table becomes while the others stay.
LEMMA TableChanged ==
  ASSUME NEW k, NEW d, Whole(d, k), NEW t \in Tables \ {"audit_log"}, NEW rows, NEW l,
         Knowledge(l), \A u \in Tables \ {t} : l[u] = k[u], rows = {Row(t, o) : o \in l[t]}
  PROVE  Whole([d EXCEPT ![t] = rows], l)
<1>. DEFINE e == [d EXCEPT ![t] = rows]
<1>1. /\ DOMAIN e = Tables \cup {Marks} /\ e[t] = rows
      /\ \A u \in DOMAIN e \ {t} : e[u] = d[u]
  BY DEF Whole, Complete
<1>2. Marks \notin Tables
  BY DEF Marks, Tables
<1>3. "audit_log" \in Tables \ {t}
  BY DEF Tables
<1>. HIDE DEF e
<1>4. Fits(e, l)
  <2>1. \A u \in Tables : e[u] = {Row(u, o) : o \in l[u]}
    <3>1. \A u \in Tables \ {t} : e[u] = {Row(u, o) : o \in k[u]}
      BY <1>1 DEF Whole, Fits, Complete
    <3>. QED
      BY <1>1, <3>1
  <2>2. e[Marks] = Handled(l["audit_log"])
    BY <1>1, <1>2, <1>3 DEF Whole, Fits, Complete
  <2>. QED
    BY <1>1, <2>1, <2>2 DEF Fits
<1>5. Whole(e, l)
  BY <1>1, <1>4 DEF Whole, Complete
<1>. QED
  BY <1>5 DEF e

LEMMA InsertWhole ==
  ASSUME NEW k, NEW d, Whole(d, k), NEW t \in Tables \ {"audit_log"}, NEW o, KnownObject(t, o)
  PROVE  Whole(Executed(d, Insert(t, o)), Telling(k, t, o))
<1>. DEFINE l == Telling(k, t, o)
            rows == Inserted(d[t], t, Row(t, o))
<1>1. Executed(d, Insert(t, o)) = [d EXCEPT ![t] = rows]
  BY DEF Executed, Insert
<1>2. Knowledge(l) /\ l[t] = Others(k[t], o) \cup {o} /\ \A u \in Tables \ {t} : l[u] = k[u]
  BY TellingKnown DEF Whole
<1>3. d[t] = {Row(t, p) : p \in k[t]} /\ \A p \in k[t] : KnownObject(t, p)
  BY DEF Whole, Fits, Complete, Knowledge
<1>. HIDE DEF l
<1>4. rows = {Row(t, p) : p \in l[t]}
  BY <1>2, <1>3, InsertedRows
<1>. HIDE DEF rows
<1>5. Whole([d EXCEPT ![t] = rows], l)
  BY <1>2, <1>4, TableChanged
<1>. QED
  BY <1>1, <1>5 DEF l

LEMMA DeleteWhole ==
  ASSUME NEW k, NEW d, Whole(d, k), NEW t \in Tables \ {"audit_log"}, NEW o, KnownObject(t, o)
  PROVE  Whole(Executed(d, Delete(t, o)), [k EXCEPT ![t] = Others(@, o)])
<1>. DEFINE l == [k EXCEPT ![t] = Others(k[t], o)]
            rows == Others(d[t], Row(t, o))
<1>1. Executed(d, Delete(t, o)) = [d EXCEPT ![t] = rows]
  BY DEF Executed, Delete
<1>2. DOMAIN l = Tables /\ l[t] = Others(k[t], o) /\ \A u \in Tables \ {t} : l[u] = k[u]
  BY DEF Whole, Knowledge
<1>. HIDE DEF l
<1>3. Knowledge(l)
  BY <1>2, OthersIn DEF Whole, Knowledge
<1>4. d[t] = {Row(t, p) : p \in k[t]} /\ \A p \in k[t] : KnownObject(t, p)
  BY DEF Whole, Fits, Complete, Knowledge
<1>5. rows = {Row(t, p) : p \in l[t]}
  BY <1>2, <1>4, DeletedRows
<1>. HIDE DEF rows
<1>6. Whole([d EXCEPT ![t] = rows], l)
  BY <1>2, <1>3, <1>5, TableChanged
<1>. QED
  BY <1>1, <1>6 DEF l

\* An event is appended with its mark, if it has one.
LEMMA EventWhole ==
  ASSUME NEW k, NEW d, Whole(d, k), NEW e, KnownObject("audit_log", e)
  PROVE  LET d1 == Executed(d, Insert("audit_log", e))
             l == [k EXCEPT !["audit_log"] = k["audit_log"] \cup {e}]
         IN  IF ProcessedKey(e) = NoKey THEN Whole(d1, l)
             ELSE Whole(Executed(d1, Mark(ProcessedKey(e))), l)
<1>. DEFINE a == "audit_log"
            d1 == Executed(d, Insert(a, e))
            d2 == Executed(d1, Mark(ProcessedKey(e)))
            l == [k EXCEPT ![a] = k[a] \cup {e}]
<1>1. a \in Tables /\ Marks \notin Tables /\ Marks # a
  BY DEF Tables, Marks
<1>2. /\ DOMAIN l = Tables /\ l[a] = k[a] \cup {e}
      /\ \A u \in Tables \ {a} : l[u] = k[u]
  BY <1>1 DEF Whole, Knowledge
<1>3. /\ DOMAIN d = Tables \cup {Marks} /\ d[Marks] = Handled(k[a])
      /\ \A u \in Tables : d[u] = {Row(u, o) : o \in k[u]}
      /\ \A o \in k[a] : KnownObject(a, o)
  BY <1>1 DEF Whole, Complete, Fits, Knowledge
<1>4. /\ Row(a, e) = e /\ \A o \in k[a] : Row(a, o) = o
  BY <1>3, EventRow DEF KnownObject
<1>5. d1 = [d EXCEPT ![a] = Inserted(d[a], a, Row(a, e))]
  BY DEF Executed, Insert
<1>6. Inserted(d[a], a, Row(a, e)) = k[a] \cup {e}
  <2>1. d[a] = k[a]
    BY <1>1, <1>3, <1>4
  <2>2. \A r : PrimaryKey(a, r) = r
    BY DEF PrimaryKey
  <2>. QED
    BY <1>4, <2>1, <2>2 DEF Inserted
<1>7. /\ DOMAIN d1 = DOMAIN d /\ d1[a] = k[a] \cup {e}
      /\ \A u \in DOMAIN d \ {a} : d1[u] = d[u]
  BY <1>1, <1>3, <1>5, <1>6
<1>8. d2 = [d1 EXCEPT ![Marks] = d1[Marks] \cup {ProcessedKey(e)}]
  BY DEF Executed, Mark, Marks
<1>. HIDE DEF a, l, d1
<1>9. /\ DOMAIN d2 = DOMAIN d1 /\ d2[Marks] = d1[Marks] \cup {ProcessedKey(e)}
      /\ \A u \in Tables : d2[u] = d1[u]
  BY <1>1, <1>3, <1>7, <1>8
<1>. HIDE DEF d2
<1>10. Handled(l[a]) = Handled(k[a]) \cup ({ProcessedKey(e)} \ {NoKey})
  BY <1>2 DEF Handled
<1>11. Knowledge(l)
  BY <1>2, <1>3 DEF Whole, Knowledge, a
<1>12. \A u \in Tables : d1[u] = {Row(u, o) : o \in l[u]}
  <2>1. \A u \in Tables \ {a} : d1[u] = {Row(u, o) : o \in l[u]}
    BY <1>2, <1>3, <1>7
  <2>2. d1[a] = {Row(a, o) : o \in l[a]}
    BY <1>2, <1>4, <1>7
  <2>. QED
    BY <2>1, <2>2
<1>13. CASE ProcessedKey(e) = NoKey
  <2>1. d1[Marks] = Handled(l[a])
    BY <1>1, <1>3, <1>7, <1>10, <1>13
  <2>2. Whole(d1, l)
    BY <1>3, <1>7, <1>11, <1>12, <2>1 DEF Whole, Fits, Complete, a
  <2>. QED
    BY <1>13, <2>2 DEF d1, l, a
<1>14. CASE ProcessedKey(e) # NoKey
  <2>1. d2[Marks] = Handled(l[a])
    BY <1>1, <1>3, <1>7, <1>9, <1>10, <1>14
  <2>2. Whole(d2, l)
    BY <1>3, <1>7, <1>9, <1>11, <1>12, <2>1 DEF Whole, Fits, Complete, a
  <2>. QED
    BY <1>14, <2>2 DEF d2, d1, l, a
<1>. QED
  BY <1>13, <1>14

\* Opening makes a database whole, whatever an older release has left out.
LEMMA CreateWhole ==
  ASSUME NEW k, Knowledge(k), NEW d, Fits(d, k)
  PROVE  IF Marks \in DOMAIN d THEN Whole(Executed(d, Create), k)
         ELSE Whole(Executed(Executed(d, Create), Fill), k)
<1>. DEFINE d1 == Executed(d, Create)
            d2 == Executed(d1, Fill)
<1>1. "audit_log" \in Tables /\ Marks \notin Tables
  BY DEF Tables, Marks
<1>2. d1 = [t \in Tables \cup {Marks} |-> IF t \in DOMAIN d THEN d[t] ELSE {}]
  BY ColumnsOf DEF Executed, Create, Created, Marks
<1>3. /\ DOMAIN d1 = Tables \cup {Marks}
      /\ \A t \in Tables : d1[t] = {Row(t, o) : o \in k[t]}
      /\ d1[Marks] = IF Marks \in DOMAIN d THEN d[Marks] ELSE {}
  BY <1>2 DEF Fits
<1>. HIDE DEF d1
<1>4. d2 = [d1 EXCEPT ![Marks] = d1[Marks] \cup Handled(d1["audit_log"])]
  BY DEF Executed, Fill, Filled, Marks
<1>5. /\ DOMAIN d2 = DOMAIN d1 /\ \A t \in Tables : d2[t] = d1[t]
      /\ d2[Marks] = d1[Marks] \cup Handled(d1["audit_log"])
  BY <1>1, <1>3, <1>4
<1>. HIDE DEF d2
<1>6. d1["audit_log"] = k["audit_log"]
  <2>1. \A o \in k["audit_log"] : Row("audit_log", o) = o
    BY <1>1, EventRow DEF Knowledge, KnownObject
  <2>. QED
    BY <1>1, <1>3, <2>1
<1>7. CASE Marks \in DOMAIN d
  <2>1. Whole(d1, k)
    BY <1>3, <1>7 DEF Whole, Fits, Complete
  <2>. QED
    BY <1>7, <2>1 DEF d1
<1>8. CASE Marks \notin DOMAIN d
  <2>1. d2[Marks] = Handled(k["audit_log"])
    BY <1>3, <1>5, <1>6, <1>8
  <2>2. Whole(d2, k)
    BY <1>3, <1>5, <2>1 DEF Whole, Fits, Complete
  <2>. QED
    BY <1>8, <2>2 DEF d1, d2
<1>. QED
  BY <1>7, <1>8

LEMMA DbInitInv == DbInit => DbInv
<1>. SUFFICES ASSUME DbInit PROVE DbInv
  OBVIOUS
<1>1. /\ db \in OlderDatabases /\ handle = "closed" /\ tx = NoTransaction
      /\ DOMAIN told = Tables
      /\ \A t \in Tables :
           told[t] = IF t \in DOMAIN db THEN {Deserialize(row) : row \in db[t]} ELSE {}
  BY ColumnsOf DEF DbInit
<1>2. /\ DOMAIN db \subseteq Tables \cup {Marks}
      /\ \A t \in Tables : t \in DOMAIN db =>
           \A row \in db[t] : row = Row(t, Deserialize(row))
      /\ Marks \in DOMAIN db =>
           "audit_log" \in DOMAIN db /\ db[Marks] = Handled(db["audit_log"])
  BY <1>1, ColumnsOf, DatabaseAssumption DEF Marks
<1>3. \A t \in Tables : \A o \in told[t] : KnownObject(t, o)
  <2>. SUFFICES ASSUME NEW t \in Tables, NEW o \in told[t] PROVE KnownObject(t, o)
    OBVIOUS
  <2>1. o \in Objects(t)
    BY <1>1 DEF Objects, Left
  <2>2. IsObject(t, o)
    BY <2>1, ColumnsOf, DatabaseAssumption DEF Objects
  <2>. QED
    BY <2>1, <2>2 DEF KnownObject
<1>4. \A t \in Tables : t \in DOMAIN db => db[t] = {Row(t, o) : o \in told[t]}
  BY <1>1, <1>2
<1>5. Marks \in DOMAIN db => db[Marks] = Handled(told["audit_log"])
  <2>1. "audit_log" \in Tables
    BY DEF Tables
  <2>2. \A o \in told["audit_log"] : Row("audit_log", o) = o
    BY <1>3, <2>1, EventRow DEF KnownObject
  <2>. QED
    BY <1>2, <1>4, <2>1, <2>2
<1>6. Knowledge(told) /\ Fits(db, told)
  BY <1>1, <1>2, <1>3, <1>4, <1>5 DEF Knowledge, Fits
<1>. QED
  BY <1>1, <1>6 DEF DbInv, NoTransaction

\* A transaction begins whose statements lead to what will be told.
LEMMA Begun ==
  ASSUME DbInv, NEW statements, NEW result, Transaction(statements, result),
         UNCHANGED handle, Leads(db, statements, result)
  PROVE  DbInv'
<1>1. /\ tx' = [work |-> db, todo |-> statements, result |-> result]
      /\ UNCHANGED <<db, told, handle>>
  BY DEF Transaction
<1>. HIDE DEF Leads, Knowledge, Fits, Complete
<1>2. /\ tx'.work = db /\ tx'.todo = statements /\ tx'.result = result
      /\ tx' = [work |-> tx'.work, todo |-> tx'.todo, result |-> tx'.result]
  BY <1>1
<1>3. Leads(tx'.work, tx'.todo, tx'.result)
  BY <1>2
<1>. QED
  BY <1>1, <1>2, <1>3 DEF DbInv

\* What callers save is known.
LEMMA SavedKnown ==
  ASSUME NEW t \in Tables, NEW o \in Saved[t]
  PROVE  KnownObject(t, o)
  BY ColumnsOf, DatabaseAssumption DEF KnownObject, Objects

LEMMA PutStep ==
  ASSUME DbInv, NEW t \in Tables \ {"audit_log"}, NEW o, KnownObject(t, o), Put(t, o)
  PROVE  DbInv'
<1>1. /\ handle = "open" /\ UNCHANGED handle
      /\ Transaction(<<Insert(t, o)>>, Telling(told, t, o))
  BY DEF Put
<1>2. Whole(db, told)
  BY <1>1 DEF DbInv, Whole
<1>3. Whole(Executed(db, Insert(t, o)), Telling(told, t, o))
  BY <1>2, InsertWhole
<1>4. Leads(db, <<Insert(t, o)>>, Telling(told, t, o))
  BY <1>3 DEF Leads
<1>. QED
  BY <1>1, <1>4, Begun

\* A superseded memory is the memory it was, but for its state and what
\* replaces it.
LEMMA SupersededKnown ==
  ASSUME NEW entry, KnownObject("memories", entry), NEW part \in Replacements
  PROVE  KnownObject("memories",
           Spread(Spread(entry, part), [status |-> "superseded", supersededAt |-> "then"]))
<1>. DEFINE state == [status |-> "superseded", supersededAt |-> "then"]
            first == Spread(entry, part)
            o == Spread(first, state)
<1>1. /\ DOMAIN state = {"status", "supersededAt"} /\ \A c \in DOMAIN state : state[c] # Null
  BY DatabaseAssumption
<1>2. DOMAIN part \subseteq {"supersededBy"} /\ \A c \in DOMAIN part : part[c] # Null
  BY DatabaseAssumption
<1>3. /\ DOMAIN entry \subseteq Columns["memories"] /\ {"id", "projectId"} \subseteq DOMAIN entry
      /\ \A c \in DOMAIN entry : entry[c] # Null
  BY DEF KnownObject, IsObject
<1>. HIDE DEF state
<1>4. /\ DOMAIN first = DOMAIN entry \cup DOMAIN part
      /\ \A c \in DOMAIN first : first[c] = IF c \in DOMAIN part THEN part[c] ELSE entry[c]
  BY DEF Spread
<1>. HIDE DEF first
<1>5. /\ DOMAIN o = DOMAIN first \cup DOMAIN state
      /\ \A c \in DOMAIN o : o[c] = IF c \in DOMAIN state THEN state[c] ELSE first[c]
      /\ o = [c \in DOMAIN o |-> o[c]]
  BY DEF Spread
<1>. HIDE DEF o
<1>6. /\ DOMAIN o = (DOMAIN state \cup DOMAIN part) \cup DOMAIN entry
      /\ \A c \in DOMAIN o : o[c] = IF c \in DOMAIN state THEN state[c]
                                    ELSE IF c \in DOMAIN part THEN part[c] ELSE entry[c]
      /\ o = [c \in DOMAIN o |-> o[c]]
  BY <1>4, <1>5
<1>7. IsObject("memories", o)
  BY <1>1, <1>2, <1>3, <1>6, ColumnsOf DEF IsObject
<1>8. o["id"] = entry["id"] /\ o["projectId"] = entry["projectId"]
  BY <1>1, <1>2, <1>3, <1>6
<1>9. KnownObject("memories", o)
  BY <1>7, <1>8 DEF KnownObject
<1>. QED
  BY <1>9 DEF o, first, state

\* A statement is executed: what is left leads where all of them did.
LEMMA ExecuteStep == DbInv /\ Execute => DbInv'
<1>. SUFFICES ASSUME DbInv, Execute PROVE DbInv'
  OBVIOUS
<1>1. /\ tx.todo # <<>> /\ UNCHANGED <<db, handle, told>>
      /\ tx' = [tx EXCEPT !.work = Executed(tx.work, Head(tx.todo)), !.todo = Tail(tx.todo)]
  BY DEF Execute
<1>2. tx # NoTransaction /\ tx = [work |-> tx.work, todo |-> tx.todo, result |-> tx.result]
  BY <1>1 DEF NoTransaction, DbInv
<1>. DEFINE work == Executed(tx.work, Head(tx.todo))
            left == Tail(tx.todo)
<1>. HIDE DEF work, left
<1>3. /\ tx'.work = work /\ tx'.todo = left /\ tx'.result = tx.result
      /\ tx' = [work |-> tx'.work, todo |-> tx'.todo, result |-> tx'.result]
  BY <1>1, <1>2 DEF work, left
<1>4. Leads(tx.work, tx.todo, tx.result)
  BY <1>2 DEF DbInv
<1>5. Leads(work, left, tx.result)
  <2>1. CASE \E s : tx.todo = <<s>> /\ Whole(Executed(tx.work, s), tx.result)
    <3>1. PICK s : tx.todo = <<s>> /\ Whole(Executed(tx.work, s), tx.result)
      BY <2>1
    <3>2. Head(tx.todo) = s /\ left = <<>>
      BY <3>1 DEF left
    <3>. QED
      BY <3>1, <3>2 DEF Leads, work
  <2>2. CASE \E s, u : tx.todo = <<s, u>> /\ Whole(Executed(Executed(tx.work, s), u), tx.result)
    <3>1. PICK s, u : tx.todo = <<s, u>> /\ Whole(Executed(Executed(tx.work, s), u), tx.result)
      BY <2>2
    <3>2. Head(tx.todo) = s /\ left = <<u>>
      BY <3>1 DEF left
    <3>. QED
      BY <3>1, <3>2 DEF Leads, work
  <2>. QED
    BY <1>1, <1>4, <2>1, <2>2 DEF Leads
<1>6. Leads(tx'.work, tx'.todo, tx'.result)
  BY <1>3, <1>5
<1>. QED
  BY <1>1, <1>3, <1>6 DEF DbInv

LEMMA CommitStep == DbInv /\ Commit => DbInv'
<1>. SUFFICES ASSUME DbInv, Commit PROVE DbInv'
  OBVIOUS
<1>1. /\ tx # NoTransaction /\ tx.todo = <<>> /\ db' = tx.work /\ told' = tx.result
      /\ handle' = "open" /\ tx' = NoTransaction
  BY DEF Commit
<1>2. Leads(tx.work, tx.todo, tx.result)
  BY <1>1 DEF DbInv
<1>3. Whole(tx.work, tx.result)
  BY <1>1, <1>2 DEF Leads
<1>4. Knowledge(told') /\ Fits(db', told') /\ Complete(db')
  BY <1>1, <1>3 DEF Whole
<1>. QED
  BY <1>1, <1>4 DEF DbInv, NoTransaction

LEMMA DbNextInv == DbInv /\ [DbNext]_dbVars => DbInv'
<1>. SUFFICES ASSUME DbInv, [DbNext]_dbVars PROVE DbInv'
  OBVIOUS
<1>0. /\ handle = "open" => Whole(db, told)
      /\ Knowledge(told) /\ Fits(db, told)
  BY DEF DbInv, Whole
<1>1. CASE OpenDatabase
  <2>1. Transaction(IF "session_dispositions" \in DOMAIN db THEN <<Create>>
                    ELSE <<Create, Fill>>, told) /\ UNCHANGED handle
    BY <1>1 DEF OpenDatabase
  <2>2. Leads(db, IF "session_dispositions" \in DOMAIN db THEN <<Create>>
                  ELSE <<Create, Fill>>, told)
    BY <1>0, CreateWhole DEF Leads, Marks
  <2>. QED
    BY <2>1, <2>2, Begun
<1>2. CASE CloseDatabase \/ Rollback \/ UNCHANGED dbVars
  BY <1>2 DEF CloseDatabase, Rollback, dbVars, DbInv, NoTransaction
<1>3. CASE Execute
  BY <1>3, ExecuteStep
<1>4. CASE Commit
  BY <1>4, CommitStep
<1>5. ASSUME NEW entry \in MemoryRows, PutMemory(entry) PROVE DbInv'
  BY <1>5, SavedKnown, PutStep DEF PutMemory, Saved, Tables
<1>6. ASSUME NEW entry \in told["memories"], NEW part \in Replacements,
             SupersedeMemory(entry, part)
      PROVE  DbInv'
  <2>1. "memories" \in Tables \ {"audit_log"}
    BY DEF Tables
  <2>2. KnownObject("memories", entry)
    BY <1>0, <2>1 DEF Knowledge
  <2>3. KnownObject("memories", Spread(Spread(entry, part),
                                       [status |-> "superseded", supersededAt |-> "then"]))
    BY <2>2, SupersededKnown
  <2>. QED
    BY <1>6, <2>1, <2>3, PutStep DEF SupersedeMemory, PutMemory
<1>7. ASSUME NEW candidate \in CandidateRows, PutCandidate(candidate) PROVE DbInv'
  BY <1>7, SavedKnown, PutStep DEF PutCandidate, Saved, Tables
<1>8. ASSUME NEW candidate \in CandidateRows, DropCandidate(candidate) PROVE DbInv'
  <2>. DEFINE t == "pending_candidates"
              s == Delete(t, candidate)
              k == [told EXCEPT ![t] = Others(@, candidate)]
  <2>1. handle = "open" /\ Transaction(<<s>>, k) /\ UNCHANGED handle
    BY <1>8 DEF DropCandidate
  <2>2. t \in Tables \ {"audit_log"} /\ KnownObject(t, candidate)
    BY SavedKnown DEF Saved, Tables
  <2>3. Whole(Executed(db, s), k)
    BY <1>0, <2>1, <2>2, DeleteWhole
  <2>. HIDE DEF s, k
  <2>4. Leads(db, <<s>>, k)
    BY <2>3 DEF Leads
  <2>. QED
    BY <2>1, <2>4, Begun
<1>9. ASSUME NEW first \in RelationshipRows, NEW second \in RelationshipRows,
             SaveRelationships(first, second)
      PROVE  DbInv'
  <2>. DEFINE t == "relationships"
              s == Insert(t, first)
              u == Insert(t, second)
              k == Telling(told, t, first)
              l == Telling(k, t, second)
  <2>1. handle = "open" /\ Transaction(<<s, u>>, l) /\ UNCHANGED handle
    BY <1>9 DEF SaveRelationships
  <2>2. t \in Tables \ {"audit_log"} /\ KnownObject(t, first) /\ KnownObject(t, second)
    BY SavedKnown DEF Saved, Tables
  <2>3. Whole(Executed(db, s), k)
    BY <1>0, <2>1, <2>2, InsertWhole
  <2>. HIDE DEF k
  <2>4. Whole(Executed(Executed(db, s), u), l)
    BY <2>2, <2>3, InsertWhole
  <2>. HIDE DEF s, u, l
  <2>5. Leads(db, <<s, u>>, l)
    BY <2>4 DEF Leads
  <2>6. Transaction(<<s, u>>, l) /\ UNCHANGED handle
    BY <2>1 DEF k
  <2>. QED
    BY <2>5, <2>6, Begun
<1>10. ASSUME NEW event \in DiagnosticRows, Diagnose(event) PROVE DbInv'
  BY <1>10, SavedKnown, PutStep DEF Diagnose, Saved, Tables
<1>11. ASSUME NEW event \in Events, AppendEvent(event) PROVE DbInv'
  <2>. DEFINE s == Insert("audit_log", event)
              m == Mark(ProcessedKey(event))
              k == [told EXCEPT !["audit_log"] = told["audit_log"] \cup {event}]
              all == IF ProcessedKey(event) = NoKey THEN <<s>> ELSE <<s, m>>
  <2>1. handle = "open" /\ Transaction(all, k) /\ UNCHANGED handle
    BY <1>11 DEF AppendEvent
  <2>2. KnownObject("audit_log", event)
    BY SavedKnown DEF Saved, Tables
  <2>3. IF ProcessedKey(event) = NoKey THEN Whole(Executed(db, s), k)
        ELSE Whole(Executed(Executed(db, s), m), k)
    BY <1>0, <2>1, <2>2, EventWhole
  <2>. HIDE DEF s, m, k
  <2>5. Leads(db, all, k)
    BY <2>3 DEF Leads
  <2>. QED
    BY <2>1, <2>5, Begun
<1>. QED
  BY <1>1, <1>2, <1>3, <1>4, <1>5, <1>6, <1>7, <1>8, <1>9, <1>10, <1>11 DEF DbNext

LEMMA InvAgrees == DbInv => DatabaseAgrees
<1>. SUFFICES ASSUME DbInv, handle = "open"
     PROVE  /\ \A t \in Tables : Stored(t) = told[t]
            /\ Processed(Keys) = Handled(told["audit_log"])
  BY ColumnsOf DEF DatabaseAgrees
<1>1. Knowledge(told) /\ Fits(db, told) /\ DOMAIN db = Tables \cup {Marks}
  BY DEF DbInv, Complete
<1>2. \A t \in Tables : Stored(t) = told[t]
  BY <1>1, TableRead DEF Stored
<1>3. Handled(told["audit_log"]) \subseteq Keys
  <2>1. "audit_log" \in Tables
    BY DEF Tables
  <2>2. \A e \in told["audit_log"] : ProcessedKey(e) \in Keys \cup {NoKey}
    BY <1>1, <2>1, EventRow DEF Knowledge, KnownObject
  <2>. QED
    BY <2>2 DEF Handled
<1>4. db["session_dispositions"] = Handled(told["audit_log"])
  BY <1>1 DEF Fits, Marks
<1>. QED
  BY <1>2, <1>3, <1>4 DEF Processed

\* Whatever is saved, superseded, dropped and appended, and whichever
\* transactions are rolled back, an open database holds what the callers were
\* told: every object with all its fields, under one row, and exactly the
\* fingerprints its audit log marks as handled, also of an older release.
THEOREM DatabaseInvariant == DbSpec => []DbInv
<1>. QED
  BY DbInitInv, DbNextInv, PTL DEF DbSpec

\* The same for the store createStores has chosen: while it is another one,
\* no database is opened.
THEOREM DatabaseAlwaysAgrees == StoresSpec => []DatabaseAgrees
<1>. DEFINE I == IF store = "database" THEN DbInv ELSE handle = "closed"
<1>1. CreateStores => I
  BY DbInitInv DEF CreateStores
<1>2. I /\ [StoresNext]_<<store, vars, dbVars>> => I'
  <2>. SUFFICES ASSUME I, [StoresNext]_<<store, vars, dbVars>> PROVE I'
    OBVIOUS
  <2>1. store' = store
    BY DEF StoresNext
  <2>2. CASE store = "database"
    <3>1. [DbNext]_dbVars
      BY <2>2 DEF StoresNext
    <3>. QED
      BY <2>1, <2>2, <3>1, DbNextInv
  <2>3. CASE store # "database"
    <3>1. UNCHANGED dbVars
      BY <2>3 DEF StoresNext
    <3>. QED
      BY <2>1, <2>3, <3>1 DEF dbVars
  <2>. QED
    BY <2>2, <2>3
<1>3. I => DatabaseAgrees
  BY InvAgrees DEF DatabaseAgrees
<1>. QED
  BY <1>1, <1>2, <1>3, PTL DEF StoresSpec

-----------------------------------------------------------------------------
(* The directories                                                         *)

\* The theorems of the directory stores, for JsonPendingCandidateStore.  Of
\* Pending, StoreAssumption says no more than that it is TRUE or FALSE.
OfCandidates == INSTANCE DirectoryProofs WITH Pending <- TRUE

\* The steps of that store are those the theorems are about.
LEMMA CandidatesNext == Candidates!Next => OfCandidates!Next
  BY Zenon DEF Candidates!Cardinality, OfCandidates!Cardinality, Candidates!vars,
         OfCandidates!vars, Candidates!disk, OfCandidates!disk, Candidates!history,
         OfCandidates!history, Candidates!Entries, OfCandidates!Entries, Candidates!Place,
         OfCandidates!Place, Candidates!NoOp, OfCandidates!NoOp, Candidates!Touched,
         OfCandidates!Touched, Candidates!Readable, OfCandidates!Readable, Candidates!Under,
         OfCandidates!Under, Candidates!ReadEntry, OfCandidates!ReadEntry, Candidates!Lines,
         OfCandidates!Lines, Candidates!Finds, OfCandidates!Finds, Candidates!Throws,
         OfCandidates!Throws, Candidates!Counts, OfCandidates!Counts, Candidates!Free,
         OfCandidates!Free, Candidates!Unbegun, OfCandidates!Unbegun, Candidates!Begin,
         OfCandidates!Begin, Candidates!WriteEntry, OfCandidates!WriteEntry,
         Candidates!RemoveEntry, OfCandidates!RemoveEntry, Candidates!IndexEntry,
         OfCandidates!IndexEntry, Candidates!UnindexEntry, OfCandidates!UnindexEntry,
         Candidates!RebuildTypeIndex, OfCandidates!RebuildTypeIndex, Candidates!SaveMemory,
         OfCandidates!SaveMemory, Candidates!Supersede, OfCandidates!Supersede,
         Candidates!SaveCandidate, OfCandidates!SaveCandidate, Candidates!RemoveCandidate,
         OfCandidates!RemoveCandidate, Candidates!Refuse, OfCandidates!Refuse,
         Candidates!Operation, OfCandidates!Operation, Candidates!Finish,
         OfCandidates!Finish, Candidates!Fail, OfCandidates!Fail, Candidates!RemoveOld,
         OfCandidates!RemoveOld, Candidates!UnindexOld, OfCandidates!UnindexOld,
         Candidates!MasterOld, OfCandidates!MasterOld, Candidates!Write, OfCandidates!Write,
         Candidates!Index, OfCandidates!Index, Candidates!Master, OfCandidates!Master,
         Candidates!Migrate, OfCandidates!Migrate, Candidates!MigrateEntry,
         OfCandidates!MigrateEntry, Candidates!MigrateIndex, OfCandidates!MigrateIndex,
         Candidates!MigrateMaster, OfCandidates!MigrateMaster, Candidates!MigrateRename,
         OfCandidates!MigrateRename, Candidates!CutShort, OfCandidates!CutShort,
         Candidates!Stop, OfCandidates!Stop, Candidates!TearEntry, OfCandidates!TearEntry,
         Candidates!TearIndex, OfCandidates!TearIndex, Candidates!Failure,
         OfCandidates!Failure, Candidates!Next, OfCandidates!Next

\* Which store it is, is a matter of the operations alone: it begins in the
\* same state, and the same is asked of its files and kept in them.
LEMMA CandidatesInit == Init => OfCandidates!Init
  BY Zenon DEF Init, OfCandidates!Init, NoOp, OfCandidates!NoOp, Under, OfCandidates!Under

LEMMA CandidatesAgree == OfCandidates!DirectoryAgrees => DirectoryAgrees
  BY Zenon DEF Cardinality, OfCandidates!Cardinality, DirectoryAgrees,
         OfCandidates!DirectoryAgrees, DiskAgrees, OfCandidates!DiskAgrees, MasterCounts,
         OfCandidates!MasterCounts, Settled, OfCandidates!Settled, Touched,
         OfCandidates!Touched, Under, OfCandidates!Under, Lines, OfCandidates!Lines,
         Indexed, OfCandidates!Indexed, AtMostOne, OfCandidates!AtMostOne, Place,
         OfCandidates!Place

LEMMA CandidatesShow ==
  /\ OfCandidates!Kept = Kept /\ OfCandidates!vars = vars
  /\ OfCandidates!Kept' = Kept' /\ OfCandidates!vars' = vars'
  /\ OfCandidates!Entries = Entries
  BY Zenon DEF Kept, OfCandidates!Kept, Touched, OfCandidates!Touched, Under,
         OfCandidates!Under, vars, OfCandidates!vars, disk, OfCandidates!disk, history,
         OfCandidates!history, Entries, OfCandidates!Entries

\* What is proved of the directory stores, of the one of candidates.
LEMMA CandidatesInvariant ==
  /\ OfCandidates!Init => OfCandidates!IInv /\ OfCandidates!Counted
  /\ OfCandidates!IInv /\ OfCandidates!Counted /\ [OfCandidates!Next]_(OfCandidates!vars)
       => OfCandidates!IInv' /\ OfCandidates!Counted'
  /\ OfCandidates!IInv /\ OfCandidates!Counted => DirectoryAgrees
  /\ OfCandidates!IInv /\ OfCandidates!Next
       => OfCandidates!Abstract!Next \/ (Kept' = Kept /\ harmed' = harmed)
<1>. DEFINE Assumption ==
       /\ TRUE \in BOOLEAN
       /\ Legacy \subseteq {e \in OfCandidates!Entries : e.status # "torn"}
       /\ \A d, e \in Legacy : d.id = e.id => d = e
       /\ MaxHarms \in Nat
<1>1. Assumption
  BY StoreAssumption, CandidatesShow
<1>2. OfCandidates!Init => OfCandidates!IInv /\ OfCandidates!Counted
  BY <1>1, OfCandidates!InitInv, OfCandidates!InitCounted
<1>3. ASSUME OfCandidates!IInv, OfCandidates!Counted, [OfCandidates!Next]_(OfCandidates!vars)
      PROVE  OfCandidates!IInv' /\ OfCandidates!Counted'
  BY <1>1, <1>3, OfCandidates!NextInv, OfCandidates!CountedStep
<1>4. OfCandidates!IInv /\ OfCandidates!Counted => DirectoryAgrees
  BY <1>1, CandidatesAgree, OfCandidates!InvDirectoryAgrees
<1>5. ASSUME OfCandidates!IInv, OfCandidates!Next
      PROVE  OfCandidates!Abstract!Next \/ (Kept' = Kept /\ harmed' = harmed)
  BY <1>1, <1>5, CandidatesShow, OfCandidates!KeptStep
<1>. QED
  BY <1>2, <1>3, <1>4, <1>5

\* What holds of the files of the store that was chosen: the invariant of its
\* operations, and of the others that nothing was put in.
ChosenInv ==
  IF store = "candidates" THEN OfCandidates!IInv /\ OfCandidates!Counted ELSE IInv /\ Counted

LEMMA ChosenInit == CreateStores => ChosenInv
<1>1. Init => IInv /\ Counted
  BY InitInv, InitCounted
<1>2. OfCandidates!Init => OfCandidates!IInv /\ OfCandidates!Counted
  BY CandidatesInvariant
<1>. QED
  BY <1>1, <1>2, CandidatesInit DEF CreateStores, ChosenInv

\* A step is one of the store that was chosen, or leaves all files alone.
LEMMA ChosenStep ==
  ASSUME [StoresNext]_<<store, vars, dbVars>>
  PROVE  /\ store' = store
         /\ store = "candidates" => [OfCandidates!Next]_(OfCandidates!vars)
         /\ store # "candidates" => [Next]_vars
         /\ store \notin {"memories", "candidates"} => UNCHANGED vars
<1>1. CASE UNCHANGED <<store, vars, dbVars>>
  <2>1. OfCandidates!vars' = OfCandidates!vars
    BY <1>1, CandidatesShow
  <2>. QED
    BY <1>1, <2>1
<1>2. CASE StoresNext
  BY <1>2, CandidatesNext, CandidatesShow DEF StoresNext
<1>. QED
  BY <1>1, <1>2

LEMMA ChosenNext == ChosenInv /\ [StoresNext]_<<store, vars, dbVars>> => ChosenInv'
<1>. SUFFICES ASSUME ChosenInv, [StoresNext]_<<store, vars, dbVars>> PROVE ChosenInv'
  OBVIOUS
<1>1. CASE store = "candidates"
  <2>1. OfCandidates!IInv' /\ OfCandidates!Counted'
    BY <1>1, ChosenStep, CandidatesInvariant DEF ChosenInv
  <2>. QED
    BY <1>1, <2>1, ChosenStep DEF ChosenInv
<1>2. CASE store # "candidates"
  <2>1. IInv' /\ Counted'
    BY <1>2, ChosenStep, NextInv, CountedStep DEF ChosenInv
  <2>. QED
    BY <1>2, <2>1, ChosenStep DEF ChosenInv
<1>. QED
  BY <1>1, <1>2

\* In the directories of either store, of memories and of candidates, the
\* files, the index lines and the counts fit together wherever nothing is
\* under way, whatever failed before (directoryStore.ts).
THEOREM StoresAlwaysAgree == StoresSpec => []DirectoryAgrees
<1>1. ChosenInv => DirectoryAgrees
  BY InvDirectoryAgrees, CandidatesInvariant DEF ChosenInv
<1>. QED
  BY <1>1, ChosenInit, ChosenNext, PTL DEF StoresSpec

\* Each JSON store implements one entry under each id: memories are put again
\* at other places and never dropped, candidates are put once and dropped
\* once, and only the id whose own operation fails half way is lost.
THEOREM StoresAlwaysImplement == StoresSpec => StoresImplement
<1>1. CreateStores => MemoriesKept!Init /\ CandidatesKept!Init
  <2>1. Init => Kept \in [Ids -> SUBSET Entries] /\ harmed = {}
    BY StoreAssumption DEF Init, Kept, Under
  <2>. QED
    BY <2>1 DEF CreateStores, MemoriesKept!Init, CandidatesKept!Init, Of, HarmedOf
<1>2. ASSUME ChosenInv, [StoresNext]_<<store, vars, dbVars>>
      PROVE  [MemoriesKept!Next]_<<Of("memories", Kept), HarmedOf("memories")>>
  <2>1. CASE store = "memories"
    <3>1. UNCHANGED vars => Kept' = Kept /\ harmed' = harmed
      BY DEF vars, disk, history, Kept, Touched, Under
    <3>2. Abstract!Next \/ (Kept' = Kept /\ harmed' = harmed)
      BY <1>2, <2>1, <3>1, ChosenStep, KeptStep DEF ChosenInv
    <3>3. /\ Of("memories", Kept) = Kept /\ HarmedOf("memories") = harmed
          /\ Of("memories", Kept)' = Kept' /\ HarmedOf("memories")' = harmed'
      BY <1>2, <2>1, ChosenStep DEF Of, HarmedOf
    <3>4. Abstract!Next => MemoriesKept!Next
      BY <3>3 DEF Abstract!Next, Abstract!Put, Abstract!Drop, Abstract!Lose,
         MemoriesKept!Next, MemoriesKept!Put, MemoriesKept!Drop, MemoriesKept!Lose
    <3>. QED
      BY <3>2, <3>3, <3>4
  <2>2. CASE store # "memories"
    BY <1>2, <2>2, ChosenStep DEF Of, HarmedOf
  <2>. QED
    BY <2>1, <2>2
<1>3. ASSUME ChosenInv, [StoresNext]_<<store, vars, dbVars>>
      PROVE  [CandidatesKept!Next]_<<Of("candidates", Kept), HarmedOf("candidates")>>
  <2>1. CASE store = "candidates"
    <3>1. UNCHANGED vars => Kept' = Kept /\ harmed' = harmed
      BY DEF vars, disk, history, Kept, Touched, Under
    <3>2. OfCandidates!Abstract!Next \/ (Kept' = Kept /\ harmed' = harmed)
      BY <1>3, <2>1, <3>1, ChosenStep, CandidatesInvariant, CandidatesShow DEF ChosenInv
    <3>3. /\ Of("candidates", Kept) = Kept /\ HarmedOf("candidates") = harmed
          /\ Of("candidates", Kept)' = Kept' /\ HarmedOf("candidates")' = harmed'
      BY <1>3, <2>1, ChosenStep DEF Of, HarmedOf
    <3>4. OfCandidates!Abstract!Next => CandidatesKept!Next
      BY <3>3, CandidatesShow
      DEF OfCandidates!Abstract!Next, OfCandidates!Abstract!Put, OfCandidates!Abstract!Drop,
          OfCandidates!Abstract!Lose, CandidatesKept!Next, CandidatesKept!Put,
          CandidatesKept!Drop, CandidatesKept!Lose
    <3>. QED
      BY <3>2, <3>3, <3>4
  <2>2. CASE store # "candidates"
    BY <1>3, <2>2, ChosenStep DEF Of, HarmedOf
  <2>. QED
    BY <2>1, <2>2
<1>. QED
  BY <1>1, <1>2, <1>3, ChosenInit, ChosenNext, PTL
  DEF StoresSpec, StoresImplement, MemoriesKept!Spec, CandidatesKept!Spec
=============================================================================
