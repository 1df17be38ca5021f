---------------------------- MODULE KeptEntries ----------------------------
(***************************************************************************)
(* What a directory store (JsonMemoryStore, JsonPendingCandidateStore)     *)
(* promises: one entry under each id.  A memory can be put again, at       *)
(* another type or scope too, and is never dropped; a candidate is put     *)
(* once and dropped once.  An operation that fails half way loses the      *)
(* promise for the one id it was about, and for no other.                  *)
(***************************************************************************)
CONSTANTS Ids, Entries, Pending

VARIABLES kept,   \* kept[i]: no entry or one, for an id not in lost
          lost    \* the ids of which an operation failed half way

Init ==
  /\ kept \in [Ids -> SUBSET Entries]
  /\ lost = {}

\* save: what was under the id is replaced.
Put(i) ==
  /\ Pending => kept[i] = {}
  /\ \E e \in Entries : e.id = i /\ kept' = [kept EXCEPT ![i] = {e}]
  /\ UNCHANGED lost

\* remove, which only the candidates have.
Drop(i) ==
  /\ Pending
  /\ kept[i] # {}
  /\ kept' = [kept EXCEPT ![i] = {}]
  /\ UNCHANGED lost

Lose(i) ==
  /\ lost' = lost \union {i}
  /\ kept' = [kept EXCEPT ![i] = {}]

Next == \E i \in Ids \ lost : Put(i) \/ Drop(i) \/ Lose(i)

Spec == Init /\ [][Next]_<<kept, lost>>
=============================================================================
