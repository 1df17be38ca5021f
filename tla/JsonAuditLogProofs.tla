------------------------- MODULE JsonAuditLogProofs -------------------------
(***************************************************************************)
(* The JSON audit log keeps its index sound under any sequence of          *)
(* operations, crashes and torn writes, and implements                     *)
(* SessionDispositions, for every set of events and fingerprints.          *)
(***************************************************************************)
EXTENDS JsonAuditLog, TLAPS

USE EventsAssumption, NoKeyAssumption

\* The key of an event is a fingerprint or none (processedSessionFingerprint).
LEMMA ProcessedKeyType ==
  ASSUME NEW event \in Events
  PROVE  ProcessedKey(event) \in Keys \cup {NoKey}
  BY DEF ProcessedKey, Disposition

\* Committing an event marks exactly its own fingerprint as handled.
LEMMA HandledCommit ==
  ASSUME NEW event
  PROVE  Handled(log \cup {event}) = Handled(log) \cup ({ProcessedKey(event)} \ {NoKey})
  BY DEF Handled

\* The handled fingerprints of a log are fingerprints.
LEMMA HandledType ==
  ASSUME log \subseteq Events
  PROVE  Handled(log) \subseteq Keys
  BY ProcessedKeyType DEF Handled

\* A committed event's fingerprint is handled.
LEMMA HandledMember ==
  ASSUME NEW event \in log, ProcessedKey(event) # NoKey
  PROVE  ProcessedKey(event) \in Handled(log)
  BY DEF Handled

\* Initially no marker and no checkpoint exist, so nothing can be wrong.
LEMMA InitIInv == Init => IInv
  <1> SUFFICES ASSUME Init PROVE IInv
    OBVIOUS
  <1>1. TypeOK
    BY DEF Init, TypeOK, NoRequest
  <1>2. Whole = {} /\ Torn = {}
    BY DEF Init, Whole, Torn
  <1>3. CheckpointSound /\ NoPhantomMarker /\ IndexInv
    BY <1>2 DEF Init, CheckpointSound, NoPhantomMarker, IndexInv, NoRequest
  <1>4. QED
    BY <1>1, <1>3 DEF IInv

\* Type correctness is preserved by every step.
LEMMA TypeStep == IInv /\ [Next]_vars => TypeOK'
  <1> SUFFICES ASSUME IInv, [Next]_vars PROVE TypeOK'
    OBVIOUS
  <1> USE DEF IInv, TypeOK, files
  <1>1. ASSUME NEW event \in Events, BeginAppend(event) PROVE TypeOK'
    BY <1>1 DEF BeginAppend, Appends
  <1>2. ASSUME NEW asked \in SUBSET Keys, BeginLookup(asked) PROVE TypeOK'
    BY <1>2 DEF BeginLookup, Lookups
  <1>3. CASE EnsureReady
    BY <1>3 DEF EnsureReady, Ensured
  <1>4. CASE EnsureRebuild
    BY <1>4, HandledType DEF EnsureRebuild
  <1>5. ASSUME NEW k \in Keys, RebuildMarker(k) PROVE TypeOK'
    BY <1>5 DEF RebuildMarker
  <1>6. CASE FinishRebuild
    BY <1>6 DEF FinishRebuild, Ensured
  <1>7. CASE Uncheck
    BY <1>7 DEF Uncheck
  <1>8. CASE Commit
    <2>1. request.event \in Events
      BY <1>8 DEF Commit, IndexInv, NoRequest, Appends, Lookups
    <2>2. QED
      BY <1>8, <2>1 DEF Commit, NoRequest
  <1>9. CASE Mark
    BY <1>9 DEF Mark
  <1>10. CASE Check
    BY <1>10 DEF Check
  <1>11. CASE Read
    BY <1>11 DEF Read
  <1>12. CASE Interrupt
    BY <1>12 DEF Interrupt
  <1>13. ASSUME NEW k \in Keys, InterruptWrite(k) PROVE TypeOK'
    BY <1>13 DEF InterruptWrite
  <1>14. CASE UNCHANGED vars
    BY <1>14 DEF vars
  <1>15. QED
    BY <1>1, <1>2, <1>3, <1>4, <1>5, <1>6, <1>7, <1>8, <1>9, <1>10, <1>11,
       <1>12, <1>13, <1>14 DEF Next

\* A step that leaves the files alone leaves what they say alone.
LEMMA SameFiles ==
  ASSUME UNCHANGED files
  PROVE  Whole' = Whole /\ Torn' = Torn /\ Handled(log)' = Handled(log) /\ ready' = ready
  BY DEF files, Whole, Torn

\* Writing one marker adds it to the whole ones and mends it if it was torn.
LEMMA WholeMarker ==
  ASSUME TypeOK, NEW k \in Keys, marker' = [marker EXCEPT ![k] = "whole"]
  PROVE  Whole' = Whole \cup {k} /\ Torn' = Torn \ {k}
  BY DEF TypeOK, Whole, Torn

\* A write cut short takes one marker from the whole ones to the torn ones.
LEMMA TornMarker ==
  ASSUME TypeOK, NEW k \in Keys, marker' = [marker EXCEPT ![k] = "torn"]
  PROVE  Whole' = Whole \ {k} /\ Torn' = Torn \cup {k}
  BY DEF TypeOK, Whole, Torn

\* Every step keeps the index as sound as its checkpoint says.
LEMMA IndexStep ==
  IInv /\ [Next]_vars => (CheckpointSound /\ NoPhantomMarker /\ IndexInv)'
  <1> DEFINE Sound == CheckpointSound /\ NoPhantomMarker /\ IndexInv
  <1> SUFFICES ASSUME IInv, [Next]_vars PROVE Sound'
    OBVIOUS
  <1>t. TypeOK /\ Sound
    BY DEF IInv
  <1>h. Handled(log) \subseteq Keys
    BY HandledType DEF IInv, TypeOK
  <1>1. ASSUME NEW event \in Events, BeginAppend(event) PROVE Sound'
    <2>1. Whole' = Whole /\ Torn' = Torn /\ Handled(log)' = Handled(log) /\ ready' = ready
      BY <1>1, SameFiles DEF BeginAppend
    <2>2. request'.kind = "append" /\ request'.event = event
      BY <1>1 DEF BeginAppend
    <2>3. pc' = IF ProcessedKey(event) = NoKey THEN "commit" ELSE "ensure"
      BY <1>1 DEF BeginAppend
    <2>4. RequestKey' = ProcessedKey(event)
      BY <2>2 DEF RequestKey
    <2>5. QED
      BY <1>t, <2>1, <2>2, <2>3, <2>4 DEF CheckpointSound, NoPhantomMarker, IndexInv
  <1>2. ASSUME NEW asked \in SUBSET Keys, BeginLookup(asked) PROVE Sound'
    <2>1. Whole' = Whole /\ Torn' = Torn /\ Handled(log)' = Handled(log) /\ ready' = ready
      BY <1>2, SameFiles DEF BeginLookup
    <2>2. request'.kind = "lookup" /\ pc' = "ensure"
      BY <1>2 DEF BeginLookup
    <2>3. QED
      BY <1>t, <2>1, <2>2 DEF CheckpointSound, NoPhantomMarker, IndexInv
  <1>3. CASE EnsureReady
    <2>1. Whole' = Whole /\ Torn' = Torn /\ Handled(log)' = Handled(log) /\ ready' = ready
      BY <1>3, SameFiles DEF EnsureReady
    <2>2. request' = request /\ ready /\ pc = "ensure" /\ pc' = Ensured
      BY <1>3 DEF EnsureReady
    <2>3. request.kind \in {"append", "lookup"}
      BY <1>t, <2>2 DEF TypeOK, IndexInv, Appends, Lookups, NoRequest
    <2>4. RequestKey' = RequestKey
      BY <2>2 DEF RequestKey
    <2>5. QED
      BY <1>t, <2>1, <2>2, <2>3, <2>4 DEF CheckpointSound, NoPhantomMarker, IndexInv, Ensured
  <1>4. CASE EnsureRebuild
    <2>1. Whole' = Whole /\ Torn' = Torn /\ Handled(log)' = Handled(log) /\ ready' = ready
      BY <1>4, SameFiles DEF EnsureRebuild
    <2>2. request' = request /\ ~ready /\ pc = "ensure" /\ pc' = "rebuild" /\ todo' = Handled(log)
      BY <1>4 DEF EnsureRebuild
    <2>3. RequestKey' = RequestKey
      BY <2>2 DEF RequestKey
    <2>4. QED
      BY <1>t, <2>1, <2>2, <2>3 DEF CheckpointSound, NoPhantomMarker, IndexInv
  <1>5. ASSUME NEW k \in Keys, RebuildMarker(k) PROVE Sound'
    <2>1. Whole' = Whole \cup {k} /\ Torn' = Torn \ {k}
      BY <1>5, <1>t, WholeMarker DEF RebuildMarker
    <2>2. /\ request' = request /\ pc = "rebuild" /\ pc' = pc /\ ready' = ready /\ log' = log
          /\ k \in todo /\ todo' = todo \ {k}
      BY <1>5 DEF RebuildMarker
    <2>3. RequestKey' = RequestKey /\ Handled(log)' = Handled(log)
      BY <2>2 DEF RequestKey
    <2>4. QED
      BY <1>t, <2>1, <2>2, <2>3 DEF CheckpointSound, NoPhantomMarker, IndexInv
  <1>6. CASE FinishRebuild
    <2>1. /\ request' = request /\ pc = "rebuild" /\ pc' = Ensured /\ ready'
          /\ log' = log /\ marker' = marker /\ todo = {}
      BY <1>6 DEF FinishRebuild
    <2>2. RequestKey' = RequestKey /\ Handled(log)' = Handled(log) /\ Whole' = Whole /\ Torn' = Torn
      BY <2>1 DEF RequestKey, Whole, Torn
    <2>3. request.kind \in {"append", "lookup"}
      BY <1>t, <2>1 DEF TypeOK, IndexInv, Appends, Lookups, NoRequest
    <2>4. Handled(log) = Whole /\ Torn = {}
      BY <1>t, <2>1 DEF NoPhantomMarker, IndexInv
    <2>5. QED
      BY <1>t, <2>1, <2>2, <2>3, <2>4 DEF CheckpointSound, NoPhantomMarker, IndexInv, Ensured
  <1>7. CASE Uncheck
    <2>1. /\ request' = request /\ pc = "uncheck" /\ pc' = "commit" /\ ~ready'
          /\ log' = log /\ marker' = marker
      BY <1>7 DEF Uncheck
    <2>2. RequestKey' = RequestKey /\ Handled(log)' = Handled(log) /\ Whole' = Whole /\ Torn' = Torn
      BY <2>1 DEF RequestKey, Whole, Torn
    <2>3. QED
      BY <1>t, <2>1, <2>2 DEF CheckpointSound, NoPhantomMarker, IndexInv
  <1>8. CASE Commit
    <2>1. /\ pc = "commit" /\ log' = log \cup {request.event}
          /\ marker' = marker /\ ready' = ready
          /\ pc' = IF RequestKey = NoKey THEN "idle" ELSE "mark"
          /\ request' = IF RequestKey = NoKey THEN NoRequest ELSE request
      BY <1>8 DEF Commit
    <2>2. Handled(log)' = Handled(log) \cup ({RequestKey} \ {NoKey})
      BY <2>1, HandledCommit DEF RequestKey
    <2>3. Whole' = Whole /\ Torn' = Torn
      BY <2>1 DEF Whole, Torn
    <2>4. CASE RequestKey = NoKey
      BY <1>t, <2>1, <2>2, <2>3, <2>4 DEF CheckpointSound, NoPhantomMarker, IndexInv
    <2>5. CASE RequestKey # NoKey
      <3>1. RequestKey' = RequestKey /\ request' = request /\ pc' = "mark"
        BY <2>1, <2>5 DEF RequestKey
      <3>2. QED
        BY <1>t, <2>1, <2>2, <2>3, <2>5, <3>1 DEF CheckpointSound, NoPhantomMarker, IndexInv
    <2>6. QED
      BY <2>4, <2>5
  <1>9. CASE Mark
    <2>1. /\ request' = request /\ pc = "mark" /\ pc' = "check" /\ ready' = ready /\ log' = log
          /\ marker' = [marker EXCEPT ![RequestKey] = "whole"]
      BY <1>9 DEF Mark
    <2>2. RequestKey' = RequestKey /\ Handled(log)' = Handled(log)
      BY <2>1 DEF RequestKey
    <2>3. RequestKey \in Handled(log)
      BY <1>t, <2>1 DEF IndexInv
    <2>4. Whole' = Whole \cup {RequestKey} /\ Torn' = Torn \ {RequestKey}
      BY <1>t, <1>h, <2>1, <2>3, WholeMarker
    <2>5. QED
      BY <1>t, <2>1, <2>2, <2>3, <2>4 DEF CheckpointSound, NoPhantomMarker, IndexInv
  <1>10. CASE Check
    <2>1. /\ pc = "check" /\ pc' = "idle" /\ ready' /\ log' = log /\ marker' = marker
      BY <1>10 DEF Check
    <2>2. Handled(log)' = Handled(log) /\ Whole' = Whole /\ Torn' = Torn
      BY <2>1 DEF Whole, Torn
    <2>3. QED
      BY <1>t, <2>1, <2>2 DEF CheckpointSound, NoPhantomMarker, IndexInv
  <1>11. CASE Read
    <2>1. Whole' = Whole /\ Torn' = Torn /\ Handled(log)' = Handled(log) /\ ready' = ready
      BY <1>11, SameFiles DEF Read
    <2>2. pc' = "idle"
      BY <1>11 DEF Read
    <2>3. QED
      BY <1>t, <2>1, <2>2 DEF CheckpointSound, NoPhantomMarker, IndexInv
  <1>12. CASE Interrupt
    <2>1. Whole' = Whole /\ Torn' = Torn /\ Handled(log)' = Handled(log) /\ ready' = ready
      BY <1>12, SameFiles DEF Interrupt
    <2>2. pc' = "idle"
      BY <1>12 DEF Interrupt
    <2>3. QED
      BY <1>t, <2>1, <2>2 DEF CheckpointSound, NoPhantomMarker, IndexInv
  <1>13. ASSUME NEW k \in Keys, InterruptWrite(k) PROVE Sound'
    <2>1. Whole' = Whole \ {k} /\ Torn' = Torn \cup {k}
      BY <1>13, <1>t, TornMarker DEF InterruptWrite
    <2>2. pc' = "idle" /\ log' = log /\ ready' = ready /\ k \in BeingWritten
      BY <1>13 DEF InterruptWrite
    <2>3. Handled(log)' = Handled(log)
      BY <2>2
    <2>4. k \in Handled(log) /\ ~ready
      BY <1>t, <2>2 DEF BeingWritten, IndexInv
    <2>5. QED
      BY <1>t, <2>1, <2>2, <2>3, <2>4 DEF CheckpointSound, NoPhantomMarker, IndexInv
  <1>14. CASE UNCHANGED vars
    <2>1. Whole' = Whole /\ Torn' = Torn /\ Handled(log)' = Handled(log) /\ RequestKey' = RequestKey
      BY <1>14 DEF vars, Whole, Torn, RequestKey
    <2>2. QED
      BY <1>t, <1>14, <2>1 DEF vars, CheckpointSound, NoPhantomMarker, IndexInv
  <1>15. QED
    BY <1>1, <1>2, <1>3, <1>4, <1>5, <1>6, <1>7, <1>8, <1>9, <1>10, <1>11,
       <1>12, <1>13, <1>14 DEF Next

\* The inductive invariant of JsonAuditLogStore: types, the soundness of the
\* checkpoint, no phantom markers, and how far the markers are behind the log
\* at each step of append and ensureSessionIndex.
THEOREM IndexInvariant == Spec => []IInv
  <1>1. IInv /\ [Next]_vars => IInv'
    BY TypeStep, IndexStep DEF IInv
  <1>2. QED
    BY InitIInv, <1>1, PTL DEF Spec

\* Whatever is interrupted where, while ready.json exists every handled
\* fingerprint has a readable marker and no marker is torn.
THEOREM CheckpointAlwaysSound == Spec => []CheckpointSound
  BY IndexInvariant, PTL DEF IInv

\* No marker is ever written for content nobody decided on.
THEOREM NeverPhantom == Spec => []NoPhantomMarker
  BY IndexInvariant, PTL DEF IInv

\* A lookup answers from the markers what the log says.
LEMMA ReadAnswers ==
  ASSUME IInv, Read
  PROVE  \E asked \in SUBSET Keys : Promise!Answer(asked)
  <1>1. request.asked \in SUBSET Keys /\ request.kind = "lookup" /\ ready
    BY DEF IInv, IndexInv, TypeOK, Read, Appends, Lookups, NoRequest
  <1>2. Handled(log) = Whole /\ Torn = {}
    BY <1>1 DEF IInv, CheckpointSound
  <1>3. answer' = [asked |-> request.asked,
                   found |-> {k \in request.asked : marker[k] = "whole"}]
    BY <1>1, <1>2 DEF Read, Torn
  <1>4. {k \in request.asked : marker[k] = "whole"} = request.asked \cap Handled(log)
    BY <1>1, <1>2 DEF Whole
  <1>5. Promise!Handled(log) = Handled(log)
    BY DEF Promise!Handled, Handled, Promise!ProcessedKey, ProcessedKey
  <1>6. Promise!Answer(request.asked)
    BY <1>3, <1>4, <1>5 DEF Promise!Answer, Read, files
  <1>7. QED
    BY <1>1, <1>6

\* Every step of the JSON store is a step of SessionDispositions or a stutter.
LEMMA StepSimulation == IInv /\ [Next]_vars => [Promise!Next]_(Promise!vars)
  <1> SUFFICES ASSUME IInv, [Next]_vars PROVE [Promise!Next]_(Promise!vars)
    OBVIOUS
  <1>1. CASE Commit
    <2>1. request.event \in Events
      BY <1>1 DEF Commit, IInv, IndexInv, TypeOK, NoRequest, Appends, Lookups
    <2>2. Promise!Append(request.event)
      BY <1>1 DEF Commit, Promise!Append
    <2>3. QED
      BY <2>1, <2>2 DEF Promise!Next
  <1>2. CASE Read
    BY <1>2, ReadAnswers DEF Promise!Next
  <1>3. CASE ~Commit /\ ~Read
    <2>1. UNCHANGED <<log, answer>>
      BY <1>3 DEF Next, BeginAppend, BeginLookup, EnsureReady, EnsureRebuild,
         FinishRebuild, RebuildMarker, Uncheck, Mark, Check, Interrupt,
         InterruptWrite, vars, files
    <2>2. QED
      BY <2>1 DEF Promise!vars
  <1>4. QED
    BY <1>1, <1>2, <1>3

\* JsonAuditLogStore implements SessionDispositions: committed events are
\* never lost, and every lookup that returns is exact, crashes and torn
\* marker files notwithstanding.
THEOREM JsonImplements == Spec => Implements
  <1>1. Init => Promise!Init
    BY DEF Init, Promise!Init
  <1>2. QED
    BY <1>1, IndexInvariant, StepSimulation, PTL DEF Spec, Implements, Promise!Spec
=============================================================================
