---------------------------- MODULE MCStoreQueue ----------------------------
(* StoreQueue on a small instance: three requests on one store, two of them *)
(* retrievals, and one on another.                                          *)
EXTENDS StoreQueue

CONSTANTS r1, r2, r3, r4, a, b

MCRequests == {r1, r2, r3, r4}
MCStores == {a, b}
MCStoreOf == [r \in Requests |-> IF r = r4 THEN b ELSE a]
MCRetrieval == {r1, r2}
=============================================================================
