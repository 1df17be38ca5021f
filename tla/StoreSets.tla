----------------------------- MODULE StoreSets -----------------------------
(***************************************************************************)
(* The stores createStores (storage/src/factory.ts) makes for a storage    *)
(* directory: JSON files, or one SQLite database.  The JSON stores of      *)
(* memories and of candidates are the same code over directories of their  *)
(* own, and no file is shared between backends, so what each store does is *)
(* looked at alone: which one it is, is chosen once.  JsonDirectoryStore   *)
(* is the store of the memories here (Pending is FALSE).                   *)
(***************************************************************************)
EXTENDS JsonDirectoryStore, SqliteStores

VARIABLE store   \* "memories" or "candidates" (both JSON), or "database"

Candidates == INSTANCE JsonDirectoryStore WITH Pending <- TRUE

CreateStores ==
  /\ store \in {"memories", "candidates", "database"}
  /\ Init
  /\ IF store = "database" THEN DbInit
     ELSE db = <<>> /\ handle = "closed" /\ tx = NoTransaction /\ told = <<>>

StoresNext ==
  \/ store = "memories" /\ Next /\ UNCHANGED <<store, dbVars>>
  \/ store = "candidates" /\ Candidates!Next /\ UNCHANGED <<store, dbVars>>
  \/ store = "database" /\ DbNext /\ UNCHANGED <<store, vars>>

StoresSpec == CreateStores /\ [][StoresNext]_<<store, vars, dbVars>>

-----------------------------------------------------------------------------
(* What one JSON store keeps, and nothing where another store is looked at *)

Of(name, entries) == IF store = name THEN entries ELSE [i \in Ids |-> {}]
HarmedOf(name) == IF store = name THEN harmed ELSE {}

MemoriesKept ==
  INSTANCE KeptEntries WITH kept <- Of("memories", Kept), lost <- HarmedOf("memories")

CandidatesKept ==
  INSTANCE KeptEntries
    WITH Pending <- TRUE,
         kept <- Of("candidates", Kept), lost <- HarmedOf("candidates")

\* Each JSON store implements one entry under each id, memories that are put
\* again and never dropped, candidates that are put once and dropped once.
StoresImplement == MemoriesKept!Spec /\ CandidatesKept!Spec
=============================================================================
