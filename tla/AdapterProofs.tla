--------------------------- MODULE AdapterProofs ---------------------------
(***************************************************************************)
(* The two adapters.                                                       *)
(*                                                                         *)
(* OpenCodePlugin over its client, for any number of events, sessions and  *)
(* daemons: every text is ingested at most once and in its turn, and       *)
(* dispose leaves nothing behind.                                          *)
(*                                                                         *)
(* HookInstaller, for any texts, hooks and number of runs, edits and       *)
(* interruptions: the user's text is never lost, and what was installed    *)
(* can be taken out, byte for byte where nobody edited and no run was      *)
(* interrupted.                                                            *)
(***************************************************************************)
EXTENDS OpenCodePlugin, HookInstaller, SequenceTheorems, TLAPS

-----------------------------------------------------------------------------
(* The plugin *)

\* Where the request of a call is: on its way, with the daemon, answered or lost.
Carried ==
  \A c \in Calls :
    /\ executed[c] \in {0, 1}
    /\ request[c] \in Sent \cup {"accepted"} => executed[c] = 0 /\ calls[c].at \in {"sent", "timedOut"}
    /\ request[c] \in Answer => calls[c].at = "sent"
    /\ request[c] = "result" => executed[c] = 1
    /\ executed[c] = 1 => calls[c].at \in {"sent", "done", "failed", "timedOut"}
    /\ executed[c] = 1 /\ calls[c].at = "sent" => request[c] \in {"none", "result"}
    /\ calls[c].at = "done" => executed[c] = 1

\* Who may run the hook: a call in its first attempt that was refused, which is in
\* its past as long as it lasts.
Needed ==
  \A c \in Calls :
    /\ spawns[c] \in {0, 1}
    /\ spawns[c] = 1 => c \in missed /\ (calls[c].second \/ calls[c].at = "await")
    /\ calls[c].at = "refused" => c \in missed /\ ~calls[c].second
    /\ calls[c].at = "starting" => ~calls[c].second
    /\ Refuses /\ UnderWay(c) => c \in missed

\* A launch has somebody who waits for it.
Awaited ==
  \A k \in Clients : launch[k] # "none" => \E c \in Calls : ClientOf[c] = k /\ calls[c].at = "await"

\* Which call belongs to which task.
Ended(c) == calls[c].at \in Over

Called ==
  \A c \in 1..MaxEvents :
    /\ calls[c].at # "idle" =>
         c \in Arrived /\ (task[c] = "ingesting" \/ (task[c] = "settled" /\ Ended(c)))
    /\ c \in Arrived /\ task[c] = "ingesting" => snapshot[c] = "text"
    /\ c \in Arrived /\ task[c] = "settled" => snapshot[c] = "none" \/ (snapshot[c] = "text" /\ Ended(c))

\* The line of a session: whoever has not settled is in front of those that
\* came after it, and nobody starts behind it.
Unsettled(d, s) == d \in Arrived /\ events[d] = s /\ task[d] # "settled"

InLine ==
  \A e \in Arrived :
    /\ previous[e] < e
    /\ previous[e] # 0 => events[previous[e]] = events[e]
    /\ \A d \in Arrived : d < e /\ Unsettled(d, events[e]) => d <= previous[e]
    /\ task[e] # "waiting" => \A d \in Arrived : d < e => ~Unsettled(d, events[e])

TailIsLast ==
  \A s \in Sessions :
    /\ sessions[s] # 0 => events[sessions[s]] = s
    /\ \A d \in Arrived : Unsettled(d, s) => d <= sessions[s]

DisposedLast == disposal = "done" => \A e \in Arrived : task[e] = "settled"

IInv ==
  /\ TypeOK /\ Carried /\ Needed /\ Awaited
  /\ Called /\ InLine /\ TailIsLast /\ DisposedLast

PluginTypeOK ==
  /\ events \in Seq(Sessions) /\ Len(events) <= MaxEvents
  /\ snapshot \in [Arrived -> {"taking", "text", "none"}]
  /\ task \in [Arrived -> {"waiting", "ingesting", "settled"}]
  /\ previous \in [Arrived -> {0} \cup Arrived]
  /\ sessions \in [Sessions -> {0} \cup Arrived]
  /\ disposal \in {"no", "waiting", "done"}
  /\ transforms \in [Transforms -> {"idle", "history", "retrieving", "over"}]

\* What is invariant of the clients alone.
ClientInv == ClientTypeOK /\ Carried /\ Needed /\ Awaited

LEMMA TypeParts == TypeOK <=> ClientTypeOK /\ PluginTypeOK
BY DEF TypeOK, PluginTypeOK

LEMMA ArrivedCalls ==
  ASSUME PluginTypeOK
  PROVE  /\ Len(events) \in Nat /\ Arrived \subseteq 1..MaxEvents /\ Arrived \subseteq Nat
         /\ 0 \notin Arrived /\ 1..MaxEvents \subseteq Calls
BY PluginAssumption DEF PluginTypeOK, Arrived

-----------------------------------------------------------------------------
(* The clients *)

\* A call that has not begun does not begin, and one that is over stays as it is.
Kept(c) == calls'[c] = calls[c] \/ UnderWay(c)

LEMMA GoesOn ==
  ASSUME ClientTypeOK, NEW c \in Calls,
         NEW at \in {"read", "connect", "sent", "refused", "starting", "await", "done", "failed", "timedOut"},
         Goes(c, at)
  PROVE  /\ calls' \in [Calls -> Call]
         /\ calls'[c].at = at
         /\ at \in Over \/ calls'[c].second = calls[c].second
         /\ \A d \in Calls : d # c => calls'[d] = calls[d]
<1>1. calls[c] \in Call /\ 0 \in 0..MaxStarts /\ calls \in [Calls -> Call]
  BY ClientAssumption DEF ClientTypeOK
<1> DEFINE next == [at |-> at, second |-> IF at \in Over THEN FALSE ELSE calls[c].second, token |-> 0]
<1>2. /\ next \in Call /\ next.at = at
      /\ at \in Over \/ next.second = calls[c].second
  BY <1>1 DEF Call, Over
<1>3. calls' = [calls EXCEPT ![c] = next]
  BY DEF Goes
<1> HIDE DEF next
<1>. QED
  BY <1>1, <1>2, <1>3

\* What the histories keep: nothing is added, and calls that go on keep theirs.
LEMMA Forgotten ==
  ASSUME ClientTypeOK, Forget
  PROVE  /\ spawns' \in [Calls -> Nat] /\ missed' \subseteq missed
         /\ \A d \in Calls : spawns'[d] \in {0, spawns[d]}
         /\ \A d \in Calls : spawns'[d] = 1 => calls'[d].at \notin {"idle"} \cup Over
         /\ \A d \in missed : calls'[d].at \notin {"idle"} \cup Over \/ spawns'[d] = 1 => d \in missed'
BY DEF ClientTypeOK, Forget, UnderWay

LEMMA RepeatedGoes ==
  ASSUME NEW c \in Calls, NEW at, Repeated(c, at)
  PROVE  (~calls[c].second /\ Goes(c, at)) \/ (calls[c].second /\ Goes(c, "failed"))
BY DEF Repeated

\* A request changes for one call only.
LEMMA RequestOf ==
  ASSUME ClientTypeOK, NEW c \in Calls, NEW to \in {"none", "accepted"} \cup Sent \cup Answer,
         request' = [request EXCEPT ![c] = to]
  PROVE  /\ request' \in [Calls -> {"none", "accepted"} \cup Sent \cup Answer]
         /\ request'[c] = to
         /\ \A d \in Calls : d # c => request'[d] = request[d]
BY DEF ClientTypeOK

\* The daemon as such: what becomes of the requests is given.
LEMMA DaemonMoves ==
  ASSUME ClientInv, UNCHANGED clientVars,
         daemon' \in {"down", "booting", "starting", "ready", "closing"},
         starts' \in 0..MaxStarts, token' \in 0..starts',
         request' \in [Calls -> {"none", "accepted"} \cup Sent \cup Answer], executed' \in [Calls -> Nat],
         missed' = missed \cup IF Refuses' THEN {c \in Calls : UnderWay(c)} ELSE {},
         Carried'
  PROVE  ClientInv' /\ \A c \in Calls : Kept(c)
<1>1. calls' = calls /\ launch' = launch /\ spawns' = spawns
  BY DEF clientVars
<1>2. ClientTypeOK'
  BY <1>1 DEF ClientInv, ClientTypeOK
<1>3. Awaited'
  BY <1>1 DEF ClientInv, Awaited
<1>4. Needed'
  <2> SUFFICES ASSUME NEW c \in Calls
               PROVE  /\ spawns[c] \in {0, 1}
                      /\ spawns[c] = 1 => c \in missed' /\ (calls[c].second \/ calls[c].at = "await")
                      /\ calls[c].at = "refused" => c \in missed' /\ ~calls[c].second
                      /\ calls[c].at = "starting" => ~calls[c].second
                      /\ Refuses' /\ UnderWay(c) => c \in missed'
    BY <1>1 DEF Needed, UnderWay
  <2>1. c \in missed => c \in missed'
    OBVIOUS
  <2>2. Refuses' /\ UnderWay(c) => c \in missed'
    OBVIOUS
  <2>. QED
    BY <2>1, <2>2 DEF ClientInv, Needed
<1>. QED
  BY <1>1, <1>2, <1>3, <1>4 DEF ClientInv, Kept

LEMMA DaemonStepInv ==
  ASSUME ClientInv, DaemonStep
  PROVE  ClientInv' /\ \A c \in Calls : Kept(c)
<1>1. /\ UNCHANGED clientVars
      /\ missed' = missed \cup IF Refuses' THEN {c \in Calls : UnderWay(c)} ELSE {}
  BY DEF DaemonStep
<1>2. calls' = calls
  BY <1>1 DEF clientVars
<1>3. CASE Boot \/ WriteToken \/ Listen \/ StartupComplete \/ Close
  <2>1. request' = request /\ executed' = executed
    BY <1>3 DEF Boot, WriteToken, Listen, StartupComplete, Close
  <2>2. Carried'
    BY <1>2, <2>1 DEF ClientInv, Carried
  <2>3. /\ daemon' \in {"down", "booting", "starting", "ready", "closing"}
        /\ starts' \in 0..MaxStarts /\ token' \in 0..starts'
    BY <1>3, ClientAssumption
       DEF ClientInv, ClientTypeOK, Boot, WriteToken, Listen, StartupComplete, Close
  <2>4. /\ request' \in [Calls -> {"none", "accepted"} \cup Sent \cup Answer]
        /\ executed' \in [Calls -> Nat]
    BY <2>1 DEF ClientInv, ClientTypeOK
  <2>. QED
    BY <1>1, <2>2, <2>3, <2>4, DaemonMoves
<1>4. CASE Closed \/ Die
  <2>1. /\ executed' = executed
        /\ request' \in [Calls -> {"none", "accepted"} \cup Sent \cup Answer]
        /\ \A c \in Calls : request'[c] \in {"none", request[c]}
    BY <1>4 DEF Closed, Die, ClientInv, ClientTypeOK
  <2>2. Carried'
    BY <1>2, <2>1 DEF ClientInv, Carried, Sent, Answer
  <2>3. /\ daemon' \in {"down", "booting", "starting", "ready", "closing"}
        /\ starts' \in 0..MaxStarts /\ token' \in 0..starts' /\ executed' \in [Calls -> Nat]
    BY <1>4, <2>1 DEF ClientInv, ClientTypeOK, Closed, Die
  <2>. QED
    BY <1>1, <2>1, <2>2, <2>3, DaemonMoves
<1>5. ASSUME NEW c \in Calls, Read(c) \/ Execute(c)
      PROVE  ClientInv' /\ \A d \in Calls : Kept(d)
  <2>1. UNCHANGED <<daemon, starts, token>> /\ request[c] \in Sent \cup {"accepted"}
    BY <1>5 DEF Read, Execute
  <2>2. executed[c] = 0 /\ calls[c].at \in {"sent", "timedOut"}
    BY <2>1 DEF ClientInv, Carried
  <2>3. \E to \in {"none", "accepted"} \cup Answer :
          /\ request' = [request EXCEPT ![c] = to]
          /\ to \in Answer => calls[c].at = "sent"
          /\ \/ UNCHANGED executed /\ to # "result"
             \/ executed' = [executed EXCEPT ![c] = @ + 1] /\ to \in {"none", "result"}
    <3>1. CASE Read(c)
      <4>1. UNCHANGED executed
        BY <3>1 DEF Read
      <4>2. \/ request' = Reply(c, "busy") \/ request' = Reply(c, "refusal")
            \/ request' = [request EXCEPT ![c] = "accepted"]
        BY <3>1 DEF Read
      <4>. QED
        BY <4>1, <4>2 DEF Reply, Answer
    <3>2. CASE Execute(c)
      BY <3>2 DEF Execute, Reply, Answer
    <3>. QED
      BY <1>5, <3>1, <3>2
  <2>4. PICK to \in {"none", "accepted"} \cup Answer :
          /\ request' = [request EXCEPT ![c] = to]
          /\ to \in Answer => calls[c].at = "sent"
          /\ \/ UNCHANGED executed /\ to # "result"
             \/ executed' = [executed EXCEPT ![c] = @ + 1] /\ to \in {"none", "result"}
    BY <2>3
  <2>5. /\ request' \in [Calls -> {"none", "accepted"} \cup Sent \cup Answer]
        /\ request'[c] = to
        /\ \A d \in Calls : d # c => request'[d] = request[d]
    BY <2>4, RequestOf DEF ClientInv
  <2>6. /\ executed' \in [Calls -> Nat]
        /\ \A d \in Calls : d # c => executed'[d] = executed[d]
        /\ executed'[c] \in {0, 1}
        /\ executed'[c] = 1 => to \in {"none", "result"}
        /\ to = "result" => executed'[c] = 1
    BY <2>2, <2>4 DEF ClientInv, ClientTypeOK
  <2>7. Carried'
    BY <1>2, <2>2, <2>4, <2>5, <2>6 DEF ClientInv, Carried, Sent, Answer
  <2>8. /\ daemon' \in {"down", "booting", "starting", "ready", "closing"}
        /\ starts' \in 0..MaxStarts /\ token' \in 0..starts'
    BY <2>1 DEF ClientInv, ClientTypeOK
  <2>. QED
    BY <1>1, <2>5, <2>6, <2>7, <2>8, DaemonMoves
<1>. QED
  BY <1>3, <1>4, <1>5 DEF DaemonStep

\* One call moves, and only it.
LEMMA CallMoves ==
  ASSUME ClientInv, NEW c \in Calls, UNCHANGED <<daemon, starts, token, executed>>,
         UnderWay(c),
         calls' \in [Calls -> Call],
         \A d \in Calls : d # c => calls'[d] = calls[d],
         request' \in [Calls -> {"none", "accepted"} \cup Sent \cup Answer],
         \A d \in Calls : d # c => request'[d] = request[d],
         missed' \subseteq missed,
         \A d \in missed : calls'[d].at \notin {"idle"} \cup Over \/ spawns'[d] = 1 => d \in missed',
         spawns' \in [Calls -> Nat], \A d \in Calls : d # c => spawns'[d] \in {0, spawns[d]},
         launch' \in [Clients -> {"none", "hook", "poll"}],
         \A k \in Clients : launch'[k] = launch[k] \/ (k = ClientOf[c] /\ calls'[c].at = "await"),
         calls[c].at # "await",
         \* the request
         request'[c] \in Sent \cup {"accepted"} => executed[c] = 0 /\ calls'[c].at \in {"sent", "timedOut"},
         request'[c] \notin Answer,
         executed[c] = 1 => calls'[c].at \in {"done", "failed", "timedOut"},
         calls'[c].at = "done" => executed[c] = 1,
         \* the hook
         spawns'[c] \in {0, 1},
         spawns'[c] = 1 => c \in missed /\ (calls'[c].second \/ calls'[c].at = "await"),
         calls'[c].at = "refused" => c \in missed /\ ~calls'[c].second,
         calls'[c].at = "starting" => ~calls'[c].second
  PROVE  ClientInv' /\ \A d \in Calls : Kept(d)
<1>1. ClientTypeOK'
  BY DEF ClientInv, ClientTypeOK
<1>2. Carried'
  <2>1. ASSUME NEW d \in Calls, d # c
        PROVE  calls'[d] = calls[d] /\ request'[d] = request[d]
    BY <2>1
  <2>2. executed' = executed /\ executed[c] \in {0, 1}
    BY DEF ClientInv, Carried
  <2>. QED
    BY <2>1, <2>2 DEF ClientInv, Carried, Sent, Answer
<1>3. Needed'
  <2>1. daemon' = daemon /\ (Refuses' <=> Refuses)
    BY DEF Refuses
  <2>2. ASSUME NEW d \in Calls, d # c
        PROVE  /\ spawns'[d] \in {0, 1}
               /\ spawns'[d] = 1 => d \in missed' /\ (calls'[d].second \/ calls'[d].at = "await")
               /\ calls'[d].at = "refused" => d \in missed' /\ ~calls'[d].second
               /\ calls'[d].at = "starting" => ~calls'[d].second
               /\ Refuses /\ calls'[d].at \notin {"idle"} \cup Over => d \in missed'
    BY <2>2 DEF ClientInv, Needed, UnderWay, Over
  <2>3. Refuses => c \in missed
    BY DEF ClientInv, Needed
  <2>. QED
    BY <2>1, <2>2, <2>3 DEF Needed, UnderWay, Over
<1>4. Awaited'
  <2> SUFFICES ASSUME NEW k \in Clients, launch'[k] # "none"
               PROVE  \E d \in Calls : ClientOf[d] = k /\ calls'[d].at = "await"
    BY DEF Awaited
  <2>1. CASE launch'[k] = launch[k]
    <3>1. PICK d \in Calls : ClientOf[d] = k /\ calls[d].at = "await"
      BY <2>1 DEF ClientInv, Awaited
    <3>. QED
      BY <3>1
  <2>. QED
    BY <2>1
<1>. QED
  BY <1>1, <1>2, <1>3, <1>4 DEF ClientInv, Kept

LEMMA CallStepInv ==
  ASSUME ClientInv, NEW c \in Calls, CallStep(c)
  PROVE  ClientInv' /\ \A d \in Calls : Kept(d)
<1> DEFINE Asks(to) == /\ request' \in [Calls -> {"none", "accepted"} \cup Sent \cup Answer]
                       /\ request'[c] = to
                       /\ \A d \in Calls : d # c => request'[d] = request[d]
<1>t. /\ calls[c] \in Call /\ ClientOf[c] \in Clients
      /\ request \in [Calls -> {"none", "accepted"} \cup Sent \cup Answer]
      /\ spawns \in [Calls -> Nat] /\ launch \in [Clients -> {"none", "hook", "poll"}]
      /\ token \in 0..MaxStarts
  BY ClientAssumption DEF ClientInv, ClientTypeOK
<1>u. UNCHANGED <<daemon, starts, token, executed>>
  BY DEF CallStep
\* What the invariant says of this call.
<1>i. /\ executed[c] \in {0, 1}
      /\ request[c] \in Sent \cup {"accepted"} => executed[c] = 0
      /\ request[c] = "result" => executed[c] = 1
      /\ executed[c] = 1 => calls[c].at \in {"sent", "done", "failed", "timedOut"}
      /\ executed[c] = 1 /\ calls[c].at = "sent" => request[c] \in {"none", "result"}
      /\ request[c] # "none" => calls[c].at \in {"sent", "timedOut"}
  BY <1>t DEF ClientInv, Carried
<1>j. /\ spawns[c] \in {0, 1}
      /\ spawns[c] = 1 => c \in missed /\ (calls[c].second \/ calls[c].at = "await")
      /\ calls[c].at = "refused" => c \in missed /\ ~calls[c].second
      /\ calls[c].at = "starting" => ~calls[c].second
      /\ Refuses /\ UnderWay(c) => c \in missed
  BY DEF ClientInv, Needed
\* The steps that leave the launch alone.
<1>1. ASSUME NEW at \in {"connect", "sent", "refused", "starting", "done", "failed", "timedOut"},
             calls' \in [Calls -> Call], calls'[c].at = at,
             at \in Over \/ calls'[c].second = calls[c].second,
             \A d \in Calls : d # c => calls'[d] = calls[d],
             calls[c].at \in {"read", "connect", "sent"},
             NEW to \in {"none", "accepted"} \cup Sent, Asks(to),
             Forget, UNCHANGED launch,
             to # "none" => executed[c] = 0 /\ at \in {"sent", "timedOut"},
             executed[c] = 1 => at \in {"done", "failed", "timedOut"},
             at = "done" => executed[c] = 1,
             at = "refused" => Refuses /\ ~calls[c].second,
             at = "starting" => ~calls[c].second
      PROVE  ClientInv' /\ \A d \in Calls : Kept(d)
  <2>1. /\ request' \in [Calls -> {"none", "accepted"} \cup Sent \cup Answer]
        /\ request'[c] = to
        /\ \A d \in Calls : d # c => request'[d] = request[d]
    BY <1>1
  <2>2. UnderWay(c) /\ calls[c].at # "await"
    BY <1>1 DEF UnderWay, Over
  <2>0. /\ spawns' \in [Calls -> Nat] /\ missed' \subseteq missed
        /\ \A d \in Calls : spawns'[d] \in {0, spawns[d]}
        /\ \A d \in Calls : spawns'[d] = 1 => calls'[d].at \notin {"idle"} \cup Over
        /\ \A d \in missed : calls'[d].at \notin {"idle"} \cup Over \/ spawns'[d] = 1 => d \in missed'
    BY <1>1, Forgotten DEF ClientInv
  <2>3. spawns'[c] = 1 => c \in missed /\ calls'[c].second
    <3> SUFFICES ASSUME spawns'[c] = 1 PROVE c \in missed /\ calls'[c].second
      OBVIOUS
    <3>1. calls'[c].at \notin {"idle"} \cup Over
      BY <2>0
    <3>2. at \notin Over /\ calls'[c].second = calls[c].second
      BY <1>1, <3>1
    <3>3. spawns[c] = 1
      BY <2>0
    <3>4. c \in missed /\ (calls[c].second \/ calls[c].at = "await")
      BY <1>j, <3>3
    <3>. QED
      BY <2>2, <3>2, <3>4
  <2>4. request'[c] \notin Answer
    BY <2>1 DEF Sent, Answer
  <2>5. request'[c] \in Sent \cup {"accepted"} => executed[c] = 0 /\ calls'[c].at \in {"sent", "timedOut"}
    BY <1>1, <2>1 DEF Sent
  <2>6. /\ calls'[c].at = "refused" => c \in missed /\ ~calls'[c].second
        /\ calls'[c].at = "starting" => ~calls'[c].second
    BY <1>1, <1>j, <2>2 DEF Over
  <2>7. /\ launch' \in [Clients -> {"none", "hook", "poll"}] /\ \A k \in Clients : launch'[k] = launch[k]
    BY <1>1, <1>t
  <2>8. spawns'[c] \in {0, 1}
    BY <1>j, <2>0
  <2>9. executed[c] = 1 => calls'[c].at \in {"done", "failed", "timedOut"}
    BY <1>1
  <2>. QED
    BY <1>1, <1>u, <2>0, <2>1, <2>2, <2>3, <2>4, <2>5, <2>6, <2>7, <2>8, <2>9, CallMoves
\* The same where the call just goes somewhere.
<1>2. ASSUME NEW at \in {"connect", "sent", "refused", "starting", "done", "failed", "timedOut"}, Goes(c, at),
             calls[c].at \in {"read", "connect", "sent"},
             NEW to \in {"none", "accepted"} \cup Sent, Asks(to),
             Forget, UNCHANGED launch,
             to # "none" => executed[c] = 0 /\ at \in {"sent", "timedOut"},
             executed[c] = 1 => at \in {"done", "failed", "timedOut"},
             at = "done" => executed[c] = 1,
             at = "refused" => Refuses /\ ~calls[c].second,
             at = "starting" => ~calls[c].second
      PROVE  ClientInv' /\ \A d \in Calls : Kept(d)
  <2>1. /\ calls' \in [Calls -> Call] /\ calls'[c].at = at
        /\ at \in Over \/ calls'[c].second = calls[c].second
        /\ \A d \in Calls : d # c => calls'[d] = calls[d]
    BY <1>2, GoesOn DEF ClientInv
  <2>. QED
    BY <1>1, <1>2, <2>1
<1>s. request[c] = "none" /\ UNCHANGED request => Asks("none")
  BY <1>t
<1>e. ASSUME NEW to \in {"none", "accepted"} \cup Sent, request' = [request EXCEPT ![c] = to]
      PROVE  Asks(to)
  BY <1>e, <1>t
<1> HIDE DEF Asks
<1>n. calls[c].at \in {"read", "connect"} => request[c] = "none" /\ executed[c] = 0
  BY <1>i
<1>3. CASE ReadToken(c) /\ Forget
  <2>0. Asks("none")
    BY <1>3, <1>n, <1>s DEF ReadToken
  <2>1. CASE token # 0
    <3>1. [calls[c] EXCEPT !.at = "connect", !.token = token] \in Call
      BY <1>t DEF Call
    <3>2. /\ calls' \in [Calls -> Call] /\ calls'[c].at = "connect" /\ calls'[c].second = calls[c].second
          /\ \A d \in Calls : d # c => calls'[d] = calls[d]
      BY <1>3, <2>1, <3>1 DEF ReadToken, ClientInv, ClientTypeOK, Call
    <3>3. calls[c].at = "read" /\ UNCHANGED launch
      BY <1>3 DEF ReadToken
    <3>. QED
      BY <1>1, <1>3, <1>n, <2>0, <3>2, <3>3
  <2>2. CASE token = 0
    <3>1. \E at \in {"connect", "failed"} : Goes(c, at)
      BY <1>3, <2>2 DEF ReadToken, Repeated
    <3>2. calls[c].at = "read" /\ UNCHANGED launch
      BY <1>3 DEF ReadToken
    <3>. QED
      BY <1>2, <1>3, <1>n, <2>0, <3>1, <3>2
  <2>. QED
    BY <2>1, <2>2
<1>4. CASE Connect(c) /\ Forget
  <2>1. CASE Refuses /\ Repeated(c, "refused") /\ UNCHANGED request
    <3>0. Asks("none")
      BY <1>4, <1>n, <1>s, <2>1 DEF Connect
    <3>1. \E at \in {"refused", "failed"} : Goes(c, at) /\ (at = "refused" => ~calls[c].second)
      BY <2>1 DEF Repeated
    <3>. QED
      BY <1>2, <1>4, <1>n, <2>1, <3>0, <3>1 DEF Connect
  <2>2. CASE Goes(c, "sent") /\ \E to \in Sent : request' = [request EXCEPT ![c] = to]
    <3>1. PICK to \in Sent : Asks(to)
      BY <1>e, <2>2
    <3>2. calls[c].at = "connect" /\ UNCHANGED launch
      BY <1>4 DEF Connect
    <3>. QED
      BY <1>2, <1>4, <1>n, <2>2, <3>1, <3>2, to \in {"none", "accepted"} \cup Sent
  <2>. QED
    BY <1>4, <2>1, <2>2 DEF Connect, Sent
<1>5. CASE Receive(c) /\ Forget
  <2>1. \/ Goes(c, "failed")
        \/ request[c] = "busy" /\ ~calls[c].second /\ Goes(c, "starting")
        \/ request[c] = "result" /\ Goes(c, "done")
    BY <1>5, RepeatedGoes DEF Receive, Answer
  <2>2. request[c] = "busy" => executed[c] # 1
    BY <1>5, <1>i DEF Receive
  <2>3. Asks("none")
    BY <1>5, <1>e DEF Receive
  <2>. QED
    BY <1>2, <1>5, <1>i, <2>1, <2>2, <2>3 DEF Receive
<1>6. CASE Reset(c) /\ Forget
  BY <1>2, <1>6, <1>i, <1>s DEF Reset
<1>7. CASE Timeout(c) /\ Forget
  <2>1. \E to \in {"none", "accepted"} \cup Sent :
          /\ Asks(to)
          /\ to # "none" => request[c] \in Sent \cup {"accepted"}
    BY <1>7, <1>e DEF Timeout, Sent
  <2>. QED
    BY <1>2, <1>7, <1>i, <2>1 DEF Timeout
<1>8. CASE LaunchAndRetry(c) /\ UNCHANGED missed
  <2>1. /\ calls' \in [Calls -> Call] /\ calls'[c].at = "await" /\ calls'[c].second = calls[c].second
        /\ \A d \in Calls : d # c => calls'[d] = calls[d]
    BY <1>8, GoesOn DEF ClientInv, LaunchAndRetry, Over
  <2>2. UnderWay(c) /\ calls[c].at # "await" /\ ~calls[c].second
    BY <1>8, <1>j DEF UnderWay, LaunchAndRetry, Over
  <2>3. spawns[c] = 0 /\ executed[c] = 0 /\ request[c] = "none" /\ request' = request
    BY <1>8, <1>i, <1>j, <2>2 DEF LaunchAndRetry, Over
  <2>4. /\ launch' \in [Clients -> {"none", "hook", "poll"}]
        /\ \A k \in Clients : launch'[k] = launch[k] \/ k = ClientOf[c]
        /\ spawns' \in [Calls -> Nat] /\ \A d \in Calls : d # c => spawns'[d] = spawns[d]
        /\ spawns'[c] \in {0, 1} /\ (spawns'[c] = 1 => calls[c].at = "refused")
    BY <1>8, <1>t, <2>3 DEF LaunchAndRetry
  <2>5. missed' = missed
    BY <1>8
  <2>. QED
    BY <1>u, <1>t, <1>j, <2>1, <2>2, <2>3, <2>4, <2>5, CallMoves DEF Sent, Answer
<1>. QED
  BY <1>3, <1>4, <1>5, <1>6, <1>7, <1>8 DEF CallStep

\* The launch ends for everyone of its client who waits for it.
LEMMA LaunchStepInv ==
  ASSUME ClientInv, NEW k \in Clients, LaunchStep(k)
  PROVE  ClientInv' /\ \A c \in Calls : Kept(c)
<1>1. /\ UNCHANGED daemonVars /\ missed \subseteq Calls
      /\ spawns' \in [Calls -> Nat] /\ missed' \subseteq missed
      /\ \A d \in Calls : spawns'[d] \in {0, spawns[d]}
      /\ \A d \in Calls : spawns'[d] = 1 => calls'[d].at \notin {"idle"} \cup Over
      /\ \A d \in missed : calls'[d].at \notin {"idle"} \cup Over \/ spawns'[d] = 1 => d \in missed'
  BY Forgotten DEF LaunchStep, ClientInv, ClientTypeOK
<1>2. ASSUME NEW at \in {"read", "failed"}, NEW second \in BOOLEAN, LaunchEnds(k, at, second),
             at = "read" => second
      PROVE  ClientInv' /\ \A c \in Calls : Kept(c)
  <2>1. [at |-> at, second |-> second, token |-> 0] \in Call
    BY ClientAssumption DEF Call, Over
  <2>2. ClientTypeOK'
    BY <1>1, <1>2, <2>1 DEF LaunchEnds, ClientInv, ClientTypeOK, daemonVars
  <2>3. \A c \in Calls : \/ calls'[c] = calls[c]
                         \/ /\ calls[c].at = "await" /\ ClientOf[c] = k
                            /\ calls'[c].at = at /\ calls'[c].second = second
    BY <1>2 DEF LaunchEnds
  <2>4. Carried'
    BY <1>1, <2>3 DEF ClientInv, Carried, daemonVars, Sent, Answer
  <2>5. Needed'
    <3> SUFFICES ASSUME NEW c \in Calls
                 PROVE  /\ spawns'[c] \in {0, 1}
                        /\ spawns'[c] = 1 => c \in missed' /\ (calls'[c].second \/ calls'[c].at = "await")
                        /\ calls'[c].at = "refused" => c \in missed' /\ ~calls'[c].second
                        /\ calls'[c].at = "starting" => ~calls'[c].second
                        /\ Refuses /\ calls'[c].at \notin {"idle"} \cup Over => c \in missed'
      BY <1>1 DEF Needed, UnderWay, Refuses, daemonVars
    <3>1. CASE calls'[c] = calls[c]
      BY <1>1, <3>1 DEF ClientInv, Needed, UnderWay, Over
    <3>2. CASE calls[c].at = "await" /\ calls'[c].at = at /\ calls'[c].second = second
      BY <1>1, <1>2, <3>2 DEF ClientInv, Needed, UnderWay, Over
    <3>. QED
      BY <2>3, <3>1, <3>2
  <2>6. Awaited'
    <3>1. /\ \A j \in Clients : j # k => launch'[j] = launch[j]
          /\ launch'[k] = "none"
      BY <1>2 DEF LaunchEnds, ClientInv, ClientTypeOK
    <3>. QED
      BY <2>3, <3>1 DEF ClientInv, Awaited
  <2>. QED
    BY <2>2, <2>3, <2>4, <2>5, <2>6 DEF ClientInv, Kept, UnderWay, Over
<1>3. CASE launch[k] = "hook" /\ launch' = [launch EXCEPT ![k] = "poll"] /\ UNCHANGED calls
  <2>1. ClientTypeOK'
    BY <1>1, <1>3 DEF ClientInv, ClientTypeOK, daemonVars
  <2>2. Carried' /\ Needed'
    BY <1>1, <1>3 DEF ClientInv, Carried, Needed, UnderWay, Refuses, daemonVars, Over
  <2>3. Awaited'
    BY <1>3 DEF ClientInv, ClientTypeOK, Awaited
  <2>. QED
    BY <1>3, <2>1, <2>2, <2>3 DEF ClientInv, Kept
<1>. QED
  BY <1>2, <1>3 DEF LaunchStep, RunHook, Poll

\* Calls begin.
LEMMA BeginInv ==
  ASSUME ClientInv, NEW C \in SUBSET Calls, Begin(C), UNCHANGED daemonVars
  PROVE  /\ ClientInv'
         /\ \A c \in C : calls'[c].at = "read"
         /\ \A d \in Calls : d \notin C => calls'[d] = calls[d]
<1>1. \A c \in C : [calls[c] EXCEPT !.at = "read"] \in Call
  BY DEF ClientInv, ClientTypeOK, Call
<1>2. /\ calls' \in [Calls -> Call]
      /\ \A c \in C : /\ calls[c].at = "idle" /\ calls'[c].at = "read"
                      /\ calls'[c].second = calls[c].second
      /\ \A d \in Calls : d \notin C => calls'[d] = calls[d]
  BY <1>1 DEF Begin, ClientInv, ClientTypeOK, Call
<1>3. ClientTypeOK'
  BY <1>2 DEF Begin, ClientInv, ClientTypeOK, daemonVars
<1>4. Carried'
  BY <1>2 DEF ClientInv, Carried, daemonVars, Sent, Answer
<1>5. Needed'
  <2> SUFFICES ASSUME NEW c \in Calls
               PROVE  /\ spawns[c] \in {0, 1}
                      /\ spawns[c] = 1 => c \in missed' /\ (calls'[c].second \/ calls'[c].at = "await")
                      /\ calls'[c].at = "refused" => c \in missed' /\ ~calls'[c].second
                      /\ calls'[c].at = "starting" => ~calls'[c].second
                      /\ Refuses /\ calls'[c].at \notin {"idle"} \cup Over => c \in missed'
    BY DEF Needed, UnderWay, Refuses, Begin, daemonVars
  <2>1. missed \subseteq missed' /\ (Refuses => C \subseteq missed')
    BY DEF Begin
  <2>2. CASE c \in C
    BY <1>2, <2>1, <2>2 DEF ClientInv, Needed, Over
  <2>3. CASE c \notin C
    BY <1>2, <2>1, <2>3 DEF ClientInv, Needed, UnderWay
  <2>. QED
    BY <2>2, <2>3
<1>6. Awaited'
  BY <1>2 DEF ClientInv, Awaited, Begin
<1>. QED
  BY <1>2, <1>3, <1>4, <1>5, <1>6 DEF ClientInv

LEMMA ClientUnchanged ==
  ASSUME ClientInv, UNCHANGED allClientVars
  PROVE  ClientInv' /\ calls' = calls
BY DEF ClientInv, ClientTypeOK, Carried, Needed, UnderWay, Refuses, Awaited, allClientVars, daemonVars, clientVars

-----------------------------------------------------------------------------
(* The plugin *)

LEMMA InitIInv == Init => IInv
<1> SUFFICES ASSUME Init PROVE IInv
  OBVIOUS
<1>1. events = <<>> /\ snapshot = <<>> /\ task = <<>> /\ previous = <<>> /\ Len(events) = 0 /\ Arrived = {}
  BY DEF Init, Arrived
<1>2. ClientTypeOK
  <2>1. [at |-> "idle", second |-> FALSE, token |-> 0] \in Call
    BY ClientAssumption DEF Call
  <2>2. calls \in [Calls -> Call] /\ starts \in 0..MaxStarts /\ token \in 0..starts
    BY <2>1, ClientAssumption DEF Init, ClientInit
  <2>. QED
    BY <2>2 DEF Init, ClientInit, ClientTypeOK
<1>3. PluginTypeOK
  <2>1. <<>> \in [Arrived -> {"taking", "text", "none"}] /\ <<>> \in [Arrived -> {0} \cup Arrived]
        /\ <<>> \in [Arrived -> {"waiting", "ingesting", "settled"}] /\ <<>> \in Seq(Sessions)
    BY <1>1
  <2>2. Len(events) <= MaxEvents
    BY <1>1, PluginAssumption
  <2>. QED
    BY <1>1, <2>1, <2>2 DEF Init, PluginTypeOK
<1>4. Carried /\ Needed /\ Awaited
  BY DEF Init, ClientInit, Carried, Needed, Awaited, UnderWay, Sent, Answer
<1>5. Called /\ InLine /\ TailIsLast /\ DisposedLast
  <2>1. \A c \in 1..MaxEvents : calls[c].at = "idle"
    BY PluginAssumption DEF Init, ClientInit
  <2>. QED
    BY <1>1, <2>1 DEF Init, Called, InLine, TailIsLast, DisposedLast, Unsettled
<1>. QED
  BY <1>2, <1>3, <1>4, <1>5, TypeParts DEF IInv

\* A step of a client or of the daemon leaves the ingestion where it is, and so do
\* the calls of a transformation.
LEMMA ClientStepInv ==
  ASSUME IInv, UNCHANGED <<ingestVars, disposal>>,
         transforms' \in [Transforms -> {"idle", "history", "retrieving", "over"}],
         ClientInv', \A c \in 1..MaxEvents : Kept(c)
  PROVE  IInv'
<1>1. Arrived' = Arrived
  BY DEF ingestVars, Arrived
<1>2. TypeOK'
  BY <1>1, TypeParts DEF IInv, TypeOK, ClientInv, ingestVars
<1>3. Called'
  <2>. SUFFICES ASSUME NEW c \in 1..MaxEvents
                PROVE  /\ calls'[c].at # "idle" =>
                            c \in Arrived /\ (task[c] = "ingesting" \/ (task[c] = "settled" /\ Ended(c)'))
                       /\ c \in Arrived /\ task[c] = "ingesting" => snapshot[c] = "text"
                       /\ c \in Arrived /\ task[c] = "settled" =>
                            snapshot[c] = "none" \/ (snapshot[c] = "text" /\ Ended(c)')
    BY <1>1 DEF Called, ingestVars
  <2>1. CASE calls'[c] = calls[c]
    BY <2>1 DEF IInv, Called, Ended
  <2>2. CASE UnderWay(c)
    BY <2>2 DEF IInv, Called, Ended, UnderWay
  <2>. QED
    BY <2>1, <2>2 DEF Kept
<1>4. InLine' /\ TailIsLast' /\ DisposedLast'
  BY <1>1 DEF IInv, InLine, TailIsLast, DisposedLast, Unsettled, ingestVars
<1>. QED
  BY <1>2, <1>3, <1>4 DEF IInv, ClientInv

\* One more at the end.
LEMMA AppendOne ==
  ASSUME NEW n \in Nat, NEW S, NEW f \in [1..n -> S], NEW x \in S
  PROVE  /\ Append(f, x) \in [1..(n + 1) -> S]
         /\ \A i \in 1..n : Append(f, x)[i] = f[i]
         /\ Append(f, x)[n + 1] = x
<1>1. f \in Seq(S)
  BY SeqDef
<1>2. Len(f) = n
  BY <1>1, LenProperties
<1>3. /\ Append(f, x) \in Seq(S) /\ Len(Append(f, x)) = n + 1
      /\ \A i \in 1..n : Append(f, x)[i] = f[i]
      /\ Append(f, x)[n + 1] = x
  BY <1>1, <1>2, AppendProperties
<1>4. Append(f, x) \in [1..(n + 1) -> S]
  BY <1>3, LenProperties
<1>. QED
  BY <1>3, <1>4

\* The same of what is recorded for each event.
LEMMA AppendSnapshot ==
  ASSUME NEW n \in Nat, NEW f \in [1..n -> {"taking", "text", "none"}]
  PROVE  /\ Append(f, "taking") \in [1..(n + 1) -> {"taking", "text", "none"}]
         /\ \A i \in 1..n : Append(f, "taking")[i] = f[i]
         /\ Append(f, "taking")[n + 1] = "taking"
<1> DEFINE S == {"taking", "text", "none"}
<1>1. f \in [1..n -> S] /\ "taking" \in S
  OBVIOUS
<1>2. S = {"taking", "text", "none"}
  OBVIOUS
<1> HIDE DEF S
<1>3. /\ Append(f, "taking") \in [1..(n + 1) -> S]
      /\ \A i \in 1..n : Append(f, "taking")[i] = f[i]
      /\ Append(f, "taking")[n + 1] = "taking"
  BY <1>1, AppendOne
<1>. QED
  BY <1>2, <1>3

LEMMA AppendTask ==
  ASSUME NEW n \in Nat, NEW f \in [1..n -> {"waiting", "ingesting", "settled"}]
  PROVE  /\ Append(f, "waiting") \in [1..(n + 1) -> {"waiting", "ingesting", "settled"}]
         /\ \A i \in 1..n : Append(f, "waiting")[i] = f[i]
         /\ Append(f, "waiting")[n + 1] = "waiting"
<1> DEFINE S == {"waiting", "ingesting", "settled"}
<1>1. f \in [1..n -> S] /\ "waiting" \in S
  OBVIOUS
<1>2. S = {"waiting", "ingesting", "settled"}
  OBVIOUS
<1> HIDE DEF S
<1>3. /\ Append(f, "waiting") \in [1..(n + 1) -> S]
      /\ \A i \in 1..n : Append(f, "waiting")[i] = f[i]
      /\ Append(f, "waiting")[n + 1] = "waiting"
  BY <1>1, AppendOne
<1>. QED
  BY <1>2, <1>3

LEMMA IdleEventInv == ASSUME IInv, NEW s \in Sessions, IdleEvent(s) PROVE IInv'
<1> DEFINE n == Len(events)
           e == n + 1
<1>0. PluginTypeOK /\ ClientInv
  BY TypeParts DEF IInv, ClientInv
<1>n. n \in Nat
  BY <1>0, ArrivedCalls
<1>1. n \in Nat /\ Arrived = 1..n /\ Arrived \subseteq Calls /\ n < MaxEvents
  BY <1>0, ArrivedCalls DEF Arrived, IdleEvent
<1>2. /\ events' \in Seq(Sessions) /\ Len(events') = e
      /\ events'[e] = s /\ \A d \in Arrived : events'[d] = events[d]
  BY <1>0, <1>1, AppendProperties, LenProperties DEF PluginTypeOK, IdleEvent
<1>3. Arrived' = 1..e /\ Arrived' = Arrived \cup {e} /\ e \notin Arrived
  BY <1>1, <1>2 DEF Arrived
<1>4. /\ snapshot' \in [Arrived' -> {"taking", "text", "none"}]
      /\ \A d \in Arrived : snapshot'[d] = snapshot[d]
  <2>1. snapshot \in [1..n -> {"taking", "text", "none"}] /\ snapshot' = Append(snapshot, "taking")
    BY <1>0, <1>1 DEF PluginTypeOK, IdleEvent
  <2>. QED
    BY <1>1, <1>3, <2>1, AppendSnapshot
<1>5. /\ task' \in [Arrived' -> {"waiting", "ingesting", "settled"}] /\ task'[e] = "waiting"
      /\ \A d \in Arrived : task'[d] = task[d]
  <2>1. task \in [1..n -> {"waiting", "ingesting", "settled"}] /\ task' = Append(task, "waiting")
    BY <1>0, <1>1 DEF PluginTypeOK, IdleEvent
  <2>. QED
    BY <1>1, <1>3, <2>1, AppendTask
<1>6. /\ previous' \in [Arrived' -> {0} \cup Arrived'] /\ previous'[e] = sessions[s]
      /\ \A d \in Arrived : previous'[d] = previous[d]
  <2>1. sessions[s] \in {0} \cup Arrived
    BY <1>0 DEF PluginTypeOK
  <2>2. previous' \in [Arrived' -> {0} \cup Arrived]
    BY <1>0, <1>1, <1>3, <2>1, AppendOne DEF PluginTypeOK, IdleEvent
  <2>3. previous'[e] = sessions[s] /\ \A d \in Arrived : previous'[d] = previous[d]
    BY <1>0, <1>1, <2>1, AppendOne DEF PluginTypeOK, IdleEvent
  <2>. QED
    BY <1>3, <2>2, <2>3
<1>7. /\ sessions' \in [Sessions -> {0} \cup Arrived'] /\ sessions'[s] = e
      /\ \A r \in Sessions : r # s => sessions'[r] = sessions[r]
  BY <1>0, <1>3 DEF PluginTypeOK, IdleEvent
<1>8. ClientInv' /\ calls' = calls
  BY <1>0, ClientUnchanged DEF IdleEvent
<1>9. TypeOK'
  <2>1. e <= MaxEvents
    BY <1>1, PluginAssumption
  <2>. QED
    BY <1>0, <1>2, <1>4, <1>5, <1>6, <1>7, <1>8, <2>1 DEF TypeOK, PluginTypeOK, ClientInv, IdleEvent
<1>10. Called'
  <2>. SUFFICES ASSUME NEW c \in 1..MaxEvents
                PROVE  /\ calls[c].at # "idle" =>
                            c \in Arrived' /\ (task'[c] = "ingesting" \/ (task'[c] = "settled" /\ Ended(c)))
                       /\ c \in Arrived' /\ task'[c] = "ingesting" => snapshot'[c] = "text"
                       /\ c \in Arrived' /\ task'[c] = "settled" =>
                            snapshot'[c] = "none" \/ (snapshot'[c] = "text" /\ Ended(c))
    BY <1>8 DEF Called, Ended
  <2>. QED
    BY <1>3, <1>4, <1>5 DEF IInv, Called
<1>11. \A d \in Arrived', r \in Sessions :
         Unsettled(d, r)' <=> (d \in Arrived /\ Unsettled(d, r)) \/ (d = e /\ r = s)
  BY <1>2, <1>3, <1>5 DEF Unsettled
<1>12. \A d \in Arrived : events[d] \in Sessions /\ d \in Nat /\ d < e /\ d <= n
  BY <1>0, <1>1 DEF PluginTypeOK
<1>13. InLine'
  <2>. SUFFICES ASSUME NEW a \in Arrived'
                PROVE  /\ previous'[a] < a
                       /\ previous'[a] # 0 => events'[previous'[a]] = events'[a]
                       /\ \A d \in Arrived' :
                            d < a /\ events'[d] = events'[a] /\ task'[d] # "settled" => d <= previous'[a]
                       /\ task'[a] # "waiting" =>
                            \A d \in Arrived' : d < a /\ events'[d] = events'[a] => task'[d] = "settled"
    BY DEF InLine, Unsettled
  <2>1. CASE a = e
    <3>1. sessions[s] \in {0} \cup Arrived
      BY <1>0 DEF PluginTypeOK
    <3>2. sessions[s] < e
      BY <1>1, <1>12, <3>1
    <3>3. sessions[s] # 0 => events'[sessions[s]] = s
      BY <1>2, <3>1 DEF IInv, TailIsLast
    <3>4. ASSUME NEW d \in Arrived', d < e, events'[d] = s, task'[d] # "settled" PROVE d <= sessions[s]
      <4>1. d \in Arrived
        BY <1>3, <1>1, <3>4
      <4>. QED
        BY <1>2, <1>5, <3>4, <4>1 DEF IInv, TailIsLast, Unsettled
    <3>. QED
      BY <1>2, <1>5, <1>6, <2>1, <3>2, <3>3, <3>4
  <2>2. CASE a \in Arrived
    <3>1. events'[a] = events[a] /\ previous'[a] = previous[a] /\ task'[a] = task[a]
      BY <1>2, <1>5, <1>6, <2>2
    <3>2. previous[a] # 0 => previous[a] \in Arrived
      BY <1>0, <2>2 DEF PluginTypeOK
    <3>3. \A d \in Arrived' : d < a => d \in Arrived /\ events'[d] = events[d] /\ task'[d] = task[d]
      BY <1>1, <1>2, <1>3, <1>5, <2>2
    <3>4. previous[a] # 0 => events'[previous[a]] = events[previous[a]]
      BY <1>2, <3>2
    <3>. QED
      BY <2>2, <3>1, <3>3, <3>4 DEF IInv, InLine, Unsettled
  <2>. QED
    BY <1>3, <2>1, <2>2
<1>14. TailIsLast'
  <2>. SUFFICES ASSUME NEW r \in Sessions
                PROVE  /\ sessions'[r] # 0 => events'[sessions'[r]] = r
                       /\ \A d \in Arrived' : Unsettled(d, r)' => d <= sessions'[r]
    BY DEF TailIsLast, Unsettled
  <2>1. CASE r = s
    BY <1>1, <1>2, <1>3, <1>7, <2>1
  <2>2. CASE r # s
    <3>1. sessions'[r] = sessions[r] /\ sessions[r] \in {0} \cup Arrived
      BY <1>0, <1>7, <2>2 DEF PluginTypeOK
    <3>. QED
      BY <1>2, <1>11, <2>2, <3>1 DEF IInv, TailIsLast
  <2>. QED
    BY <2>1, <2>2
<1>15. DisposedLast'
  BY DEF IdleEvent, DisposedLast
<1>. QED
  BY <1>8, <1>9, <1>10, <1>13, <1>14, <1>15 DEF IInv, ClientInv

-----------------------------------------------------------------------------
\* When it is the turn of an event, everyone before it in its session has settled.
LEMMA NobodyBefore ==
  ASSUME IInv, NEW e \in Arrived, previous[e] # 0 => task[previous[e]] = "settled",
         NEW d \in Arrived, d < e
  PROVE  ~Unsettled(d, events[e])
<1> SUFFICES ASSUME Unsettled(d, events[e]) PROVE FALSE
  OBVIOUS
<1>1. PluginTypeOK /\ Arrived \subseteq Nat /\ 0 \notin Arrived
  BY TypeParts, ArrivedCalls DEF IInv
<1>2. previous[e] \in {0} \cup Arrived /\ d <= previous[e]
  BY <1>1 DEF PluginTypeOK, IInv, InLine
<1>3. previous[e] \in Arrived /\ task[previous[e]] = "settled" /\ events[previous[e]] = events[e]
  BY <1>1, <1>2 DEF IInv, InLine
<1>4. d # previous[e] /\ d \in Nat /\ previous[e] \in Nat
  BY <1>1, <1>3 DEF Unsettled
<1>5. d < previous[e]
  BY ONLY <1>2, <1>4
<1>. QED
  BY <1>3, <1>5 DEF IInv, InLine

\* What the plugin does to one event: it goes on, and the line stays in order.
LEMMA MovesOn ==
  ASSUME IInv, NEW e \in Arrived, task[e] # "settled",
         \A d \in Arrived : d < e => ~Unsettled(d, events[e]),
         NEW to \in {"ingesting", "settled"}, task' = [task EXCEPT ![e] = to],
         \/ to = "ingesting" /\ UNCHANGED sessions
         \/ /\ to = "settled"
            /\ sessions' = IF sessions[events[e]] = e THEN [sessions EXCEPT ![events[e]] = 0] ELSE sessions,
         UNCHANGED <<events, snapshot, previous, disposal, transforms>>
  PROVE  PluginTypeOK' /\ InLine' /\ TailIsLast' /\ DisposedLast'
<1>0. PluginTypeOK /\ Arrived \subseteq Nat /\ Arrived' = Arrived /\ events[e] \in Sessions
  <2>1. PluginTypeOK
    BY TypeParts DEF IInv
  <2>2. events[e] \in Sessions
    BY <2>1 DEF PluginTypeOK, Arrived
  <2>. QED
    BY <2>1, <2>2, ArrivedCalls DEF Arrived
<1>1. /\ task' \in [Arrived -> {"waiting", "ingesting", "settled"}]
      /\ task'[e] = to /\ \A d \in Arrived : d # e => task'[d] = task[d]
  BY <1>0 DEF PluginTypeOK
<1>2. /\ sessions' \in [Sessions -> {0} \cup Arrived]
      /\ \A r \in Sessions :
           \/ sessions'[r] = sessions[r]
           \/ r = events[e] /\ sessions[r] = e /\ sessions'[r] = 0 /\ to = "settled"
  BY <1>0 DEF PluginTypeOK
<1>3. PluginTypeOK'
  BY <1>0, <1>1, <1>2 DEF PluginTypeOK
<1>4. DisposedLast'
  BY DEF IInv, DisposedLast
<1>5. \A d \in Arrived : task'[d] # "settled" => task[d] # "settled"
  BY <1>1
<1>6. InLine'
  <2>. SUFFICES ASSUME NEW a \in Arrived
                PROVE  /\ previous[a] < a
                       /\ previous[a] # 0 => events[previous[a]] = events[a]
                       /\ \A d \in Arrived :
                            d < a /\ events[d] = events[a] /\ task'[d] # "settled" => d <= previous[a]
                       /\ task'[a] # "waiting" =>
                            \A d \in Arrived : d < a /\ events[d] = events[a] => task'[d] = "settled"
    BY <1>0 DEF InLine, Unsettled
  <2>1. /\ previous[a] < a
        /\ previous[a] # 0 => events[previous[a]] = events[a]
        /\ \A d \in Arrived : d < a /\ events[d] = events[a] /\ task[d] # "settled" => d <= previous[a]
    BY DEF IInv, InLine, Unsettled
  <2>2. ASSUME task'[a] # "waiting", NEW d \in Arrived, d < a, events[d] = events[a]
        PROVE  task[d] = "settled"
    <3>1. CASE a = e
      BY <2>2, <3>1 DEF Unsettled
    <3>2. CASE a # e
      BY <1>1, <2>2, <3>2 DEF IInv, InLine, Unsettled
    <3>. QED
      BY <3>1, <3>2
  <2>. QED
    BY <1>5, <2>1, <2>2
<1>7. TailIsLast'
  <2>. SUFFICES ASSUME NEW r \in Sessions
                PROVE  /\ sessions'[r] # 0 => events[sessions'[r]] = r
                       /\ \A d \in Arrived : events[d] = r /\ task'[d] # "settled" => d <= sessions'[r]
    BY <1>0 DEF TailIsLast, Unsettled
  <2>1. /\ sessions[r] # 0 => events[sessions[r]] = r
        /\ \A d \in Arrived : events[d] = r /\ task[d] # "settled" => d <= sessions[r]
    BY DEF IInv, TailIsLast, Unsettled
  <2>2. CASE sessions'[r] = sessions[r]
    BY <1>5, <2>1, <2>2
  <2>3. CASE r = events[e] /\ sessions[r] = e /\ sessions'[r] = 0 /\ to = "settled"
    <3>1. ASSUME NEW d \in Arrived, events[d] = r PROVE task'[d] = "settled"
      <4>1. CASE d = e
        BY <1>1, <2>3, <4>1
      <4>2. CASE d < e
        BY <1>1, <2>3, <3>1, <4>2, <1>5 DEF Unsettled
      <4>3. CASE ~(d <= e)
        BY <1>5, <2>1, <2>3, <3>1, <4>3
      <4>. QED
        BY <1>0, <4>1, <4>2, <4>3
    <3>. QED
      BY <2>3, <3>1
  <2>. QED
    BY <1>2, <2>2, <2>3
<1>. QED
  BY <1>3, <1>4, <1>6, <1>7

LEMMA SnapshotTakenInv == ASSUME IInv, NEW e \in Arrived, SnapshotTaken(e) PROVE IInv'
<1>0. PluginTypeOK /\ ClientInv /\ Arrived' = Arrived
  BY TypeParts DEF IInv, ClientInv, SnapshotTaken, Arrived
<1>1. ClientInv' /\ calls' = calls
  BY <1>0, ClientUnchanged DEF SnapshotTaken
<1>2. /\ snapshot' \in [Arrived -> {"taking", "text", "none"}]
      /\ \A d \in Arrived : d # e => snapshot'[d] = snapshot[d]
  BY <1>0 DEF PluginTypeOK, SnapshotTaken
<1>3. PluginTypeOK'
  BY <1>0, <1>2 DEF PluginTypeOK, SnapshotTaken
<1>4. task[e] = "waiting"
  BY <1>0, ArrivedCalls DEF PluginTypeOK, IInv, Called, SnapshotTaken
<1>5. Called'
  BY <1>0, <1>1, <1>2, <1>4 DEF IInv, Called, Ended, SnapshotTaken
<1>6. InLine' /\ TailIsLast' /\ DisposedLast'
  BY <1>0 DEF IInv, InLine, TailIsLast, DisposedLast, Unsettled, SnapshotTaken
<1>. QED
  BY <1>1, <1>3, <1>5, <1>6, TypeParts DEF IInv, ClientInv, TypeOK, PluginTypeOK

LEMMA TurnInv == ASSUME IInv, NEW e \in Arrived, Turn(e) PROVE IInv'
<1>0. PluginTypeOK /\ ClientInv /\ Arrived' = Arrived /\ e \in 1..MaxEvents /\ e \in Calls
  BY TypeParts, ArrivedCalls DEF IInv, ClientInv, Turn, Arrived
<1>1. \A d \in Arrived : d < e => ~Unsettled(d, events[e])
  BY NobodyBefore DEF Turn
<1>2. task[e] = "waiting" /\ calls[e].at = "idle"
  BY <1>0 DEF IInv, Called, Turn
<1>3. CASE snapshot[e] = "text"
  <2>1. task' = [task EXCEPT ![e] = "ingesting"] /\ Begin({e}) /\ UNCHANGED sessions
    BY <1>3 DEF Turn
  <2>2. PluginTypeOK' /\ InLine' /\ TailIsLast' /\ DisposedLast'
    BY <1>1, <1>2, <2>1, MovesOn DEF Turn
  <2>a. PICK C \in SUBSET Calls : C = {e}
    BY <1>0
  <2>b. Begin(C) /\ UNCHANGED daemonVars
    BY <2>1, <2>a DEF Turn
  <2>c. /\ ClientInv' /\ \A c \in C : calls'[c].at = "read"
        /\ \A d \in Calls : d \notin C => calls'[d] = calls[d]
    BY <1>0, <2>b, BeginInv
  <2>3. /\ ClientInv' /\ calls'[e].at = "read"
        /\ \A c \in 1..MaxEvents : c # e => calls'[c] = calls[c]
    BY <1>0, <2>a, <2>c, ArrivedCalls
  <2>4. task'[e] = "ingesting" /\ \A d \in Arrived : d # e => task'[d] = task[d]
    BY <1>0, <2>1 DEF PluginTypeOK
  <2>5. Called'
    BY <1>0, <1>3, <2>3, <2>4 DEF IInv, Called, Ended, Turn
  <2>. QED
    BY <2>2, <2>3, <2>5 DEF IInv, ClientInv, TypeOK, PluginTypeOK
<1>4. CASE snapshot[e] # "text"
  <2>1. Settle(e) /\ UNCHANGED allClientVars
    BY <1>4 DEF Turn, allClientVars
  <2>2. PluginTypeOK' /\ InLine' /\ TailIsLast' /\ DisposedLast'
    BY <1>1, <1>2, <2>1, MovesOn DEF Turn, Settle
  <2>3. ClientInv' /\ calls' = calls
    BY <1>0, <2>1, ClientUnchanged
  <2>4. task'[e] = "settled" /\ \A d \in Arrived : d # e => task'[d] = task[d]
    BY <1>0, <2>1 DEF PluginTypeOK, Settle
  <2>5. snapshot[e] = "none"
    BY <1>0, <1>4 DEF PluginTypeOK, Turn
  <2>6. Called'
    BY <1>0, <1>2, <2>3, <2>4, <2>5 DEF IInv, Called, Ended, Turn
  <2>. QED
    BY <2>2, <2>3, <2>6 DEF IInv, ClientInv, TypeOK, PluginTypeOK
<1>. QED
  BY <1>3, <1>4

LEMMA IngestedInv == ASSUME IInv, NEW e \in Arrived, Ingested(e) PROVE IInv'
<1>0. PluginTypeOK /\ ClientInv /\ Arrived' = Arrived /\ e \in 1..MaxEvents /\ e \in Calls
  BY TypeParts, ArrivedCalls DEF IInv, ClientInv, Ingested, Arrived
<1>1. \A d \in Arrived : d < e => ~Unsettled(d, events[e])
  BY DEF IInv, InLine, Ingested
<1>2. PluginTypeOK' /\ InLine' /\ TailIsLast' /\ DisposedLast'
  BY <1>1, MovesOn DEF Ingested, Settle
<1>3. ClientInv' /\ calls' = calls
  BY <1>0, ClientUnchanged DEF Ingested
<1>4. task'[e] = "settled" /\ \A d \in Arrived : d # e => task'[d] = task[d]
  BY <1>0 DEF PluginTypeOK, Ingested, Settle
<1>5. snapshot[e] = "text" /\ Ended(e)
  BY <1>0 DEF IInv, Called, Ended, Ingested
<1>6. Called'
  BY <1>0, <1>3, <1>4, <1>5 DEF IInv, Called, Ended, Ingested
<1>. QED
  BY <1>2, <1>3, <1>6 DEF IInv, ClientInv, TypeOK, PluginTypeOK

LEMMA DisposalInv == ASSUME IInv, Dispose \/ Disposed PROVE IInv'
<1>0. PluginTypeOK /\ ClientInv /\ Arrived' = Arrived
  BY TypeParts DEF IInv, ClientInv, Dispose, Disposed, ingestVars, Arrived
<1>1. ClientInv' /\ calls' = calls
  BY <1>0, ClientUnchanged DEF Dispose, Disposed, ingestVars
<1>2. PluginTypeOK'
  <2>1. sessions' \in [Sessions -> {0} \cup Arrived]
    BY <1>0 DEF PluginTypeOK, Dispose, Disposed, ingestVars
  <2>. QED
    BY <1>0, <2>1 DEF PluginTypeOK, Dispose, Disposed, ingestVars
<1>3. Called' /\ InLine'
  BY <1>0, <1>1 DEF IInv, Called, Ended, InLine, Unsettled, Dispose, Disposed, ingestVars
<1>4. TailIsLast'
  BY <1>0 DEF IInv, TailIsLast, Unsettled, Dispose, Disposed, ingestVars
<1>5. DisposedLast'
  BY <1>0 DEF DisposedLast, Dispose, Disposed, ingestVars
<1>. QED
  BY <1>1, <1>2, <1>3, <1>4, <1>5 DEF IInv, ClientInv, TypeOK, PluginTypeOK

\* A transformation begins calls of its own, and no others.
LEMMA TransformInv ==
  ASSUME IInv, NEW t \in Transforms, Transform(t) \/ Retrieve(t) \/ Retrieved(t)
  PROVE  IInv'
<1>0. PluginTypeOK /\ ClientInv /\ t \in Nat /\ t >= 1 /\ t <= MaxTransforms
  BY TypeParts, PluginAssumption DEF IInv, ClientInv, Transforms
<1>1. UNCHANGED <<ingestVars, disposal>>
  BY DEF Transform, Retrieve, Retrieved
<1>2. transforms' \in [Transforms -> {"idle", "history", "retrieving", "over"}]
  BY <1>0 DEF PluginTypeOK, Transform, Retrieve, Retrieved
<1>3. ClientInv' /\ \A c \in 1..MaxEvents : calls'[c] = calls[c]
  <2>1. CASE UNCHANGED allClientVars
    BY <1>0, <2>1, ClientUnchanged
  <2>2. CASE Begin(Retrieval(t)) /\ UNCHANGED daemonVars
    <3>1. /\ Retrieval(t) \subseteq Calls
          /\ \A c \in 1..MaxEvents : c \in Calls /\ c \notin Retrieval(t)
      BY <1>0, PluginAssumption DEF Retrieval
    <3>. QED
      BY <1>0, <2>2, <3>1, BeginInv
  <2>. QED
    BY <2>1, <2>2 DEF Transform, Retrieve, Retrieved, allClientVars
<1>. QED
  BY <1>1, <1>2, <1>3, ClientStepInv DEF Kept

LEMMA NextIInv == IInv /\ [Next]_vars => IInv'
<1> SUFFICES ASSUME IInv, [Next]_vars PROVE IInv'
  OBVIOUS
<1>0. ClientInv
  BY DEF IInv, ClientInv, TypeOK
<1>1. ASSUME NEW s \in Sessions, IdleEvent(s) PROVE IInv'
  BY <1>1, IdleEventInv
<1>2. ASSUME NEW e \in Arrived, EventStep(e) PROVE IInv'
  BY <1>2, SnapshotTakenInv, TurnInv, IngestedInv DEF EventStep
<1>3. CASE Dispose \/ Disposed
  BY <1>3, DisposalInv
<1>t. transforms \in [Transforms -> {"idle", "history", "retrieving", "over"}] /\ 1..MaxEvents \subseteq Calls
  BY TypeParts, ArrivedCalls DEF IInv, PluginTypeOK
<1>4. CASE (\E c \in Calls : CallStep(c)) /\ UNCHANGED pluginVars
  <2>1. ClientInv' /\ \A c \in Calls : Kept(c)
    BY <1>0, <1>4, CallStepInv
  <2>. QED
    BY <1>4, <1>t, <2>1, ClientStepInv DEF pluginVars
<1>5. CASE ((\E k \in Clients : LaunchStep(k)) \/ DaemonStep) /\ UNCHANGED pluginVars
  <2>1. ClientInv' /\ \A c \in Calls : Kept(c)
    BY <1>0, <1>5, LaunchStepInv, DaemonStepInv
  <2>. QED
    BY <1>5, <1>t, <2>1, ClientStepInv DEF pluginVars
<1>6. ASSUME NEW t \in Transforms, Transform(t) \/ Retrieve(t) \/ Retrieved(t) PROVE IInv'
  BY <1>6, TransformInv
<1>7. CASE UNCHANGED vars
  <2>1. UNCHANGED pluginVars /\ UNCHANGED allClientVars
    BY <1>7 DEF vars
  <2>2. ClientInv' /\ \A c \in Calls : Kept(c)
    BY <1>0, <2>1, ClientUnchanged DEF Kept
  <2>. QED
    BY <1>t, <2>1, <2>2, ClientStepInv DEF pluginVars
<1>. QED
  BY <1>1, <1>2, <1>3, <1>4, <1>5, <1>6, <1>7 DEF Next

THEOREM Invariance == Spec => []IInv
BY InitIInv, NextIInv, PTL DEF Spec

-----------------------------------------------------------------------------
\* No call of the plugin is carried out twice, and what it takes for done was carried
\* out, whatever is refused, reset, timed out or launched in between.
THEOREM AlwaysAnsweredOnce == Spec => []AnsweredOnce
<1>1. IInv => AnsweredOnce
  BY DEF IInv, Carried, AnsweredOnce, AtMostOnce, DoneWasExecuted
<1>. QED
  BY <1>1, Invariance, PTL

\* The texts of a session are submitted one at a time, in the order of its idle
\* events, and none is passed over.  An earlier text of the session that is still
\* with the daemon when a later one is submitted is one whose call timed out.
THEOREM AlwaysSubmitsSession == Spec => []SubmitsSession
<1>1. IInv => SubmitsSession
  <2> SUFFICES ASSUME IInv PROVE IngestInOrder /\ TextSubmitted
    BY DEF SubmitsSession
  <2>1. Arrived \subseteq 1..MaxEvents /\ 1..MaxEvents \subseteq Calls
    BY TypeParts, ArrivedCalls DEF IInv
  <2>2. IngestInOrder
    <3> SUFFICES ASSUME NEW d \in Arrived, NEW e \in Arrived, d < e, events[d] = events[e],
                        calls[e].at # "idle"
                 PROVE  task[d] = "settled" /\ (request[d] = "none" \/ calls[d].at = "timedOut")
      BY DEF IngestInOrder
    <3>1. task[d] = "settled"
      BY <2>1 DEF IInv, Called, InLine, Unsettled
    <3>2. calls[d].at = "idle" \/ calls[d].at \in Over
      BY <2>1, <3>1 DEF IInv, Called, Ended
    <3>3. /\ request[d] \in Sent \cup {"accepted"} => calls[d].at \in {"sent", "timedOut"}
          /\ request[d] \in Answer => calls[d].at = "sent"
      BY <2>1 DEF IInv, Carried
    <3>4. request[d] \in {"none", "accepted"} \cup Sent \cup Answer
      BY <2>1 DEF IInv, TypeOK, ClientTypeOK
    <3>. QED
      BY <3>1, <3>2, <3>3, <3>4 DEF Over
  <2>3. TextSubmitted
    BY <2>1 DEF IInv, Called, Ended, TextSubmitted
  <2>. QED
    BY <2>2, <2>3
<1>. QED
  BY <1>1, Invariance, PTL

\* Once dispose has returned, no task and no call of the ingestion is under way, and
\* no launch of its client.  (A transformation of a prompt may be, see PluginQuiet.)
THEOREM AlwaysIngestionQuiet == Spec => []IngestionQuiet
<1>1. IInv => IngestionQuiet
  <2> SUFFICES ASSUME IInv, disposal = "done"
               PROVE  /\ \A e \in Arrived : task[e] = "settled"
                      /\ \A c \in 1..MaxEvents : ~UnderWay(c)
                      /\ launch["ingestion"] = "none"
    BY DEF IngestionQuiet
  <2>1. \A e \in Arrived : task[e] = "settled"
    BY DEF IInv, DisposedLast
  <2>2. \A c \in 1..MaxEvents : ~UnderWay(c)
    BY <2>1 DEF IInv, Called, Ended, UnderWay
  <2>3. launch["ingestion"] = "none"
    <3>1. \A c \in Calls : ClientOf[c] = "ingestion" => c \in 1..MaxEvents
      BY PluginAssumption
    <3>2. \A c \in 1..MaxEvents : calls[c].at # "await"
      BY <2>2 DEF UnderWay, Over
    <3>. QED
      BY <3>1, <3>2, PluginAssumption DEF IInv, Awaited
  <2>. QED
    BY <2>1, <2>2, <2>3
<1>. QED
  BY <1>1, Invariance, PTL

\* A call runs the launch hook at most once, and only if no daemon listened at some
\* moment since it began, whoever starts and stops daemons meanwhile.
THEOREM AlwaysLaunchedForNeed == Spec => []LaunchedForNeed
<1>1. IInv => LaunchedForNeed
  <2> SUFFICES ASSUME IInv, NEW c \in Calls
               PROVE  spawns[c] <= IF c \in missed THEN 1 ELSE 0
    BY DEF LaunchedForNeed
  <2>1. spawns[c] \in {0, 1} /\ (spawns[c] = 1 => c \in missed)
    BY DEF IInv, Needed
  <2>. QED
    BY <2>1
<1>. QED
  BY <1>1, Invariance, PTL

-----------------------------------------------------------------------------
(* The installer *)

\* A record that leads back: what it puts back holds nothing of ours, and the
\* text of the user that is in what it replaces.
Sound(s) ==
  s # NoState =>
    /\ s.name \in Names
    /\ \A p \in Parts : /\ s.before[p].ours = "none"
                        /\ s.installed[p].ours # "none"
                        /\ s.before[p].user = s.installed[p].user

\* What a run under way is going to do.
Planned ==
  pc # "idle" =>
    /\ run.name \in Names
    /\ state # NoState => run.name = state.name
    /\ pc = "forget" => ~capture
    /\ \A p \in Parts : /\ run.after[p].user = run.before[p].user
                        /\ run.after[p].ours = "none" <=> run.ours = "none"
    /\ run.ours # "none" =>
         /\ Sound(run.state) /\ run.state.name = run.name /\ run.state.installed = run.after
         /\ pc \in {"settings", "instructions"} => state = run.state

\* What it has done.
Persisted(p) == pc \in {"unlink", "forget"} \/ (p = "settings" /\ pc = "instructions")

Written ==
  pc # "idle" =>
    \A p \in Parts :
      files[File(p, run.name)] =
        IF Persisted(p) /\ ~(run.ours = "none" /\ run.before[p] = Absent)
        THEN run.after[p] ELSE run.before[p]

\* Without interruptions: the way back to what each unedited file was.
Others(name) == Files \ {"settings", name}
AsItWas(f) == clean[f] # Edited

WayBack ==
  smooth =>
    /\ state = NoState => /\ \A f \in Files : files[f] = clean[f]
                          /\ pc # "record" => ~capture
    /\ pc = "idle" /\ state # NoState =>
         /\ \A f \in Others(state.name) : AsItWas(f) => files[f] = clean[f]
         /\ \A p \in Parts :
              LET f == File(p, state.name)
              IN  AsItWas(f) => state.before[p] = clean[f] /\ files[f] = state.installed[p]
    /\ pc # "idle" =>
         /\ \A f \in Others(run.name) : AsItWas(f) => files[f] = clean[f]
         /\ \A p \in Parts :
              AsItWas(File(p, run.name)) =>
                IF run.ours = "none"
                THEN run.after[p] = clean[File(p, run.name)] /\ run.before[p] # Absent
                ELSE run.state.before[p] = clean[File(p, run.name)]

InstallerInv ==
  /\ InstallerTypeOK /\ UserTextKept /\ HooksOnRecord
  /\ Sound(state) /\ Planned /\ Written /\ WayBack

-----------------------------------------------------------------------------
(* What a run makes of a content *)

LEMMA AbsentContent == Absent \in Contents /\ NoState \in States /\ NoRun.name = "none"
BY DEF Absent, Contents, NoState, States, NoRun

LEMMA UpdateContent ==
  ASSUME NEW part \in Parts, NEW c \in Contents, NEW ours \in Variants \cup {"none"}
  PROVE  /\ Update(part, c, ours) \in Contents
         /\ Update(part, c, ours).user = c.user
         /\ Update(part, c, ours).ours = "none" <=> ours = "none"
BY DEF Update, UpdateSettings, UpdateInstructions, Contents

LEMMA AfterContent ==
  ASSUME state \in States, Sound(state),
         NEW part \in Parts, NEW c \in Contents, NEW ours \in Variants \cup {"none"}
  PROVE  /\ After(part, c, ours) \in Contents
         /\ After(part, c, ours).user = c.user
         /\ After(part, c, ours).ours = "none" <=> ours = "none"
<1>1. CASE ours = "none" /\ c = state.installed[part]
  <2>1. After(part, c, ours) = state.before[part]
    BY <1>1 DEF After
  <2>2. state.before[part] \in Contents
    BY DEF States
  <2>3. CASE state = NoState
    BY <1>1, <2>1, <2>2, <2>3 DEF NoState, Absent
  <2>4. CASE state # NoState
    BY <1>1, <2>1, <2>2, <2>4 DEF Sound
  <2>. QED
    BY <2>3, <2>4
<1>2. CASE ~(ours = "none" /\ c = state.installed[part])
  BY <1>2, UpdateContent DEF After
<1>. QED
  BY <1>1, <1>2

LEMMA RecordedContent ==
  ASSUME state \in States, Sound(state), NEW part \in Parts, NEW c \in Contents,
         state = NoState => c.ours = "none"
  PROVE  /\ Recorded(part, c) \in Contents
         /\ Recorded(part, c).user = c.user
         /\ Recorded(part, c).ours = "none"
<1>1. CASE state = NoState
  BY <1>1 DEF Recorded
<1>2. CASE state # NoState /\ c = state.installed[part]
  <2>1. Recorded(part, c) = state.before[part] /\ state.before[part] \in Contents
    BY <1>2 DEF Recorded, States
  <2>. QED
    BY <1>2, <2>1 DEF Sound
<1>3. CASE state # NoState /\ c # state.installed[part] /\ c = Absent
  BY <1>3 DEF Recorded, Absent
<1>4. CASE state # NoState /\ c # state.installed[part] /\ c # Absent
  BY <1>4, UpdateContent DEF Recorded
<1>. QED
  BY <1>1, <1>2, <1>3, <1>4

\* The files of the parts are two of the files.
LEMMA FilesOfParts ==
  ASSUME NEW name \in Names
  PROVE  /\ \A p \in Parts : File(p, name) \in Files
         /\ File("settings", name) = "settings" /\ File("instructions", name) = name
         /\ name # "settings" /\ "settings" \in Parts /\ "instructions" \in Parts
         /\ \A f \in Files : f \in Others(name) \/ \E p \in Parts : f = File(p, name)
BY InstallerAssumption DEF File, Files, Parts, Others

-----------------------------------------------------------------------------
LEMMA InstallerInitInv == InstallerInit => InstallerInv
<1> SUFFICES ASSUME InstallerInit PROVE InstallerInv
  OBVIOUS
<1>1. \A f \in Files : files[f] \in Contents /\ files[f].ours = "none"
  BY DEF InstallerInit, Own, Absent, Contents
<1>2. InstallerTypeOK
  <2>1. NoRun \in [ours : Variants \cup {"none"}, name : Names \cup {"none"},
                   before : [Parts -> Contents], after : [Parts -> Contents], state : States]
    BY AbsentContent DEF NoRun
  <2>2. mine \in [Files -> Texts \cup {"nothing"}]
    BY <1>1 DEF InstallerInit, Contents
  <2>3. files \in [Files -> Contents]
    BY <1>1 DEF InstallerInit
  <2>4. runs \in 0..MaxRuns /\ edits \in 0..MaxEdits /\ crashes \in 0..MaxCrashes
    BY InstallerAssumption DEF InstallerInit
  <2>5. pc = "idle" /\ run = NoRun /\ state \in States /\ capture \in BOOLEAN /\ smooth \in BOOLEAN
    BY AbsentContent DEF InstallerInit
  <2>6. clean \in [Files -> Contents]
    BY <2>3 DEF InstallerInit
  <2>. QED
    BY <2>1, <2>2, <2>3, <2>4, <2>5, <2>6 DEF InstallerTypeOK
<1>3. UserTextKept /\ HooksOnRecord
  BY <1>1 DEF InstallerInit, UserTextKept, HooksOnRecord
<1>4. Sound(state) /\ Planned /\ Written /\ WayBack
  BY DEF InstallerInit, Sound, Planned, Written, WayBack
<1>. QED
  BY <1>2, <1>3, <1>4 DEF InstallerInv

\* Nothing of ours is in any file when there is no record.
LEMMA NothingUnrecorded ==
  ASSUME HooksOnRecord, state = NoState, NEW f \in Files
  PROVE  files[f].ours = "none"
BY DEF HooksOnRecord, NoState, Absent

LEMMA StartStep ==
  ASSUME InstallerInv, NEW ours \in Variants \cup {"none"}, Start(ours)
  PROVE  InstallerInv'
<1> DEFINE name == Name
           before == [p \in Parts |-> files[File(p, name)]]
           after == [p \in Parts |-> After(p, before[p], ours)]
           recorded == [p \in Parts |-> Recorded(p, before[p])]
<1>1. name \in Names /\ (state # NoState => name = state.name)
  BY InstallerAssumption DEF InstallerInv, Sound, Name, Effective
<1>2. /\ pc = "idle" /\ (ours = "none" => state # NoState /\ pc' = "settings")
      /\ ours # "none" => pc' = "copy" /\ (state = NoState => ~capture)
      /\ UNCHANGED <<files, capture, state, mine, clean, smooth, edits, crashes>>
      /\ runs' \in 0..MaxRuns
  BY InstallerAssumption DEF InstallerInv, InstallerTypeOK, Start, history
<1>3. /\ run'.ours = ours /\ run'.name = name /\ run'.before = before /\ run'.after = after
      /\ run'.state.name = name /\ run'.state.before = recorded /\ run'.state.installed = after
      /\ DOMAIN run' = {"ours", "name", "before", "after", "state"}
      /\ run' = [ours |-> ours, name |-> name, before |-> before, after |-> after,
                 state |-> [name |-> name, before |-> recorded, installed |-> after]]
  BY DEF Start
<1>4. \A p \in Parts : before[p] = files[File(p, name)] /\ before[p] \in Contents
  BY <1>1, FilesOfParts DEF InstallerInv, InstallerTypeOK
<1>5. \A p \in Parts : /\ after[p] \in Contents /\ after[p].user = before[p].user
                       /\ after[p].ours = "none" <=> ours = "none"
  BY <1>4, AfterContent DEF InstallerInv, InstallerTypeOK
<1>6. \A p \in Parts : /\ recorded[p] \in Contents /\ recorded[p].user = before[p].user
                       /\ recorded[p].ours = "none"
  BY <1>1, <1>4, RecordedContent, NothingUnrecorded, FilesOfParts DEF InstallerInv, InstallerTypeOK
<1>7. InstallerTypeOK'
  <2>1. [name |-> name, before |-> recorded, installed |-> after] \in States
    BY <1>1, <1>5, <1>6 DEF States
  <2>2. run' \in [ours : Variants \cup {"none"}, name : Names \cup {"none"},
                  before : [Parts -> Contents], after : [Parts -> Contents], state : States]
    BY <1>1, <1>3, <1>4, <1>5, <2>1
  <2>3. run' # NoRun
    BY <1>1, <1>3, InstallerAssumption, AbsentContent
  <2>4. pc' \in {"copy", "settings"} /\ (pc' = "copy" => ours # "none")
             /\ (pc' = "settings" => state' # NoState)
    BY <1>2
  <2>. QED
    BY <1>2, <1>3, <2>2, <2>3, <2>4 DEF InstallerInv, InstallerTypeOK
<1>8. (UserTextKept /\ HooksOnRecord /\ Sound(state))'
  BY <1>2 DEF InstallerInv, UserTextKept, HooksOnRecord, Sound
<1>9. Planned'
  <2>1. ours # "none" => Sound(run'.state)
    BY <1>1, <1>3, <1>5, <1>6 DEF Sound
  <2>2. pc' \in {"settings", "instructions"} => ours = "none"
    BY <1>2
  <2>3. \A p \in Parts : /\ run'.after[p].user = run'.before[p].user
                         /\ run'.after[p].ours = "none" <=> run'.ours = "none"
    BY <1>3, <1>5
  <2>4. Sound(run'.state) = Sound(run.state)'
    BY DEF Sound
  <2>. QED
    BY <1>1, <1>2, <1>3, <2>1, <2>2, <2>3, <2>4 DEF Planned, Sound
<1>10. Written'
  <2>1. \A p \in Parts : ~Persisted(p)'
    BY <1>2 DEF Persisted
  <2>. QED
    BY <1>2, <1>3, <1>4, <2>1 DEF Written
<1>11. WayBack'
  <2> SUFFICES ASSUME smooth PROVE WayBack'
    BY <1>2 DEF WayBack
  <2>1. \A f \in Others(name) : clean[f] # Edited => files[f] = clean[f]
    BY <1>1, <1>2 DEF InstallerInv, WayBack, AsItWas, Others
  <2>2. ASSUME NEW p \in Parts, clean[File(p, name)] # Edited
        PROVE  IF ours = "none" THEN after[p] = clean[File(p, name)] /\ before[p] # Absent
               ELSE recorded[p] = clean[File(p, name)]
    <3>1. CASE state = NoState
      BY <1>1, <1>2, <1>4, <3>1, FilesOfParts DEF InstallerInv, WayBack, Recorded
    <3>2. CASE state # NoState
      <4>1. /\ state.before[p] = clean[File(p, name)] /\ before[p] = state.installed[p]
            /\ state.installed[p].ours # "none"
        BY <1>1, <1>2, <1>4, <2>2, <3>2 DEF InstallerInv, WayBack, AsItWas, Sound
      <4>. QED
        BY <3>2, <4>1 DEF After, Recorded, Absent
    <3>. QED
      BY <3>1, <3>2
  <2>3. state = NoState => ~capture /\ \A f \in Files : files[f] = clean[f]
    BY <1>2 DEF InstallerInv, WayBack
  <2>4. pc' # "idle" /\ pc' # "forget"
    BY <1>2
  <2>. QED
    BY <1>2, <1>3, <2>1, <2>2, <2>3, <2>4 DEF WayBack, AsItWas, Others
<1>. QED
  BY <1>7, <1>8, <1>9, <1>10, <1>11 DEF InstallerInv

LEMMA CopyStep == ASSUME InstallerInv, CopyCapture PROVE InstallerInv'
<1>1. /\ pc = "copy" /\ pc' = "record" /\ capture' = TRUE
      /\ UNCHANGED <<files, state, run, mine, clean, smooth, runs, edits, crashes>>
  BY DEF CopyCapture, history, counts
<1>2. InstallerTypeOK'
  BY <1>1 DEF InstallerInv, InstallerTypeOK
<1>3. (UserTextKept /\ HooksOnRecord /\ Sound(state))'
  BY <1>1 DEF InstallerInv, UserTextKept, HooksOnRecord, Sound
<1>4. (Planned /\ Written)'
  BY <1>1 DEF InstallerInv, Planned, Written, Persisted, Sound
<1>5. WayBack'
  BY <1>1 DEF InstallerInv, WayBack, AsItWas, Others
<1>. QED
  BY <1>2, <1>3, <1>4, <1>5 DEF InstallerInv

LEMMA RecordStep == ASSUME InstallerInv, WriteState PROVE InstallerInv'
<1>1. /\ pc = "record" /\ pc' = "settings" /\ state' = run.state
      /\ UNCHANGED <<files, capture, run, mine, clean, smooth, runs, edits, crashes>>
  BY DEF WriteState, history, counts
<1>2. /\ run.ours # "none" /\ run.state \in States /\ Sound(run.state)
      /\ run.name \in Names /\ run.state.name = run.name /\ run.state.installed = run.after
      /\ state # NoState => run.name = state.name
      /\ \A p \in Parts : run.after[p].ours # "none"
  BY <1>1 DEF InstallerInv, InstallerTypeOK, Planned
<1>3. run.state # NoState
  BY <1>2, InstallerAssumption DEF NoState
<1>4. InstallerTypeOK'
  BY <1>1, <1>2, <1>3 DEF InstallerInv, InstallerTypeOK
<1>5. UserTextKept' /\ Sound(state)'
  BY <1>1, <1>2 DEF InstallerInv, UserTextKept, Sound
<1>6. HooksOnRecord'
  <2> SUFFICES ASSUME NEW f \in Files, files[f].ours # "none"
               PROVE  \E p \in Parts : f = File(p, run.name) /\ run.after[p].ours # "none"
    BY <1>1, <1>2 DEF HooksOnRecord
  <2>1. state # NoState
    BY NothingUnrecorded DEF InstallerInv
  <2>. QED
    BY <1>2, <2>1 DEF InstallerInv, HooksOnRecord
<1>7. Planned'
  BY <1>1, <1>2 DEF InstallerInv, Planned, Sound
<1>8. Written'
  BY <1>1 DEF InstallerInv, Written, Persisted
<1>9. WayBack'
  BY <1>1, <1>3 DEF InstallerInv, WayBack, AsItWas, Others
<1>. QED
  BY <1>4, <1>5, <1>6, <1>7, <1>8, <1>9 DEF InstallerInv

\* persist changes the file of its part, and no word of its user's.
LEMMA Persisting ==
  ASSUME InstallerInv, NEW part \in Parts, Persist(part), pc # "idle", ~Persisted(part)
  PROVE  LET f == File(part, run.name)
         IN  /\ files' \in [Files -> Contents]
             /\ \A g \in Files : g # f => files'[g] = files[g]
             /\ files'[f] = IF run.ours = "none" /\ run.before[part] = Absent
                            THEN run.before[part] ELSE run.after[part]
             /\ files'[f].user = files[f].user
             /\ files'[f].ours = "none" <=> run.ours = "none"
<1> DEFINE f == File(part, run.name)
<1>1. /\ f \in Files /\ files \in [Files -> Contents] /\ run.after[part] \in Contents
      /\ files[f] = run.before[part]
  BY FilesOfParts DEF InstallerInv, InstallerTypeOK, Planned, Written
<1>2. /\ run.after[part].user = run.before[part].user
      /\ run.after[part].ours = "none" <=> run.ours = "none"
  BY DEF InstallerInv, Planned
<1>3. CASE run.ours = "none" /\ run.before[part] = Absent
  BY <1>1, <1>3 DEF Persist, Absent
<1>4. CASE ~(run.ours = "none" /\ run.before[part] = Absent)
  <2>1. files' = [files EXCEPT ![f] = run.after[part]]
    BY <1>4 DEF Persist
  <2>. QED
    BY <1>1, <1>2, <1>4, <2>1
<1>. QED
  BY <1>3, <1>4

\* So it keeps the text, and the record covers what it adds.
LEMMA PersistingKeeps ==
  ASSUME InstallerInv, NEW part \in Parts, Persist(part), pc \in {"settings", "instructions"},
         ~Persisted(part), UNCHANGED <<mine, state>>
  PROVE  (UserTextKept /\ HooksOnRecord /\ Sound(state))'
<1>1. UserTextKept'
  BY Persisting DEF InstallerInv, UserTextKept
<1>2. HooksOnRecord'
  <2> SUFFICES ASSUME NEW f \in Files, files'[f].ours # "none"
               PROVE  \E p \in Parts : f = File(p, state.name) /\ state.installed[p].ours # "none"
    BY DEF HooksOnRecord
  <2>1. CASE f = File(part, run.name)
    <3>1. run.ours # "none"
      BY <2>1, Persisting
    <3>. QED
      BY <2>1, <3>1 DEF InstallerInv, Planned
  <2>2. CASE f # File(part, run.name)
    BY <2>2, Persisting DEF InstallerInv, HooksOnRecord
  <2>. QED
    BY <2>1, <2>2
<1>3. Sound(state)'
  BY DEF InstallerInv, Sound
<1>. QED
  BY <1>1, <1>2, <1>3

LEMMA SettingsStep == ASSUME InstallerInv, PersistSettings PROVE InstallerInv'
<1>1. /\ pc = "settings" /\ pc' = "instructions" /\ Persist("settings") /\ ~Persisted("settings")
      /\ UNCHANGED <<capture, state, run, mine, clean, smooth, runs, edits, crashes>>
  BY DEF PersistSettings, Persisted, history, counts
<1>2. run.name \in Names /\ state # NoState /\ run.name = state.name
  BY <1>1 DEF InstallerInv, InstallerTypeOK, Planned
<1>3. InstallerTypeOK'
  BY <1>1, Persisting, FilesOfParts, <1>2 DEF InstallerInv, InstallerTypeOK
<1>4. (UserTextKept /\ HooksOnRecord /\ Sound(state))'
  BY <1>1, <1>2, PersistingKeeps, FilesOfParts
<1>5. Planned'
  BY <1>1 DEF InstallerInv, Planned, Sound
<1>6. Written'
  <2>1. files'["settings"] = IF run.ours = "none" /\ run.before["settings"] = Absent
                             THEN run.before["settings"] ELSE run.after["settings"]
    BY <1>1, <1>2, Persisting, FilesOfParts
  <2>2. files'[run.name] = files[run.name] /\ files[run.name] = run.before["instructions"]
    <3>1. run.name \in Files /\ run.name # File("settings", run.name)
      BY <1>2, FilesOfParts DEF Files
    <3>2. \A g \in Files : g # File("settings", run.name) => files'[g] = files[g]
      BY <1>1, <1>2, Persisting, FilesOfParts
    <3>3. files[run.name] = run.before["instructions"]
      BY <1>1, <1>2, FilesOfParts DEF InstallerInv, Written, Persisted
    <3>. QED
      BY <3>1, <3>2, <3>3
  <2>. QED
    BY <1>1, <1>2, <2>1, <2>2, FilesOfParts DEF Written, Persisted, Parts
<1>7. WayBack'
  <2>1. \A f \in Others(run.name) : files'[f] = files[f]
    BY <1>1, <1>2, Persisting, FilesOfParts DEF Others
  <2>. QED
    BY <1>1, <1>2, <2>1 DEF InstallerInv, WayBack, AsItWas, Others
<1>. QED
  BY <1>3, <1>4, <1>5, <1>6, <1>7 DEF InstallerInv

LEMMA InstructionsStep == ASSUME InstallerInv, PersistInstructions PROVE InstallerInv'
<1>1. /\ pc = "instructions" /\ Persist("instructions") /\ ~Persisted("instructions")
      /\ run.ours = "none" => pc' = "unlink" /\ run' = run
      /\ run.ours # "none" => pc' = "idle" /\ run' = NoRun
      /\ UNCHANGED <<capture, state, mine, clean, smooth, runs, edits, crashes>>
  BY DEF PersistInstructions, Persisted, history, counts
<1>2. /\ run.name \in Names /\ state # NoState /\ run.name = state.name /\ run # NoRun
      /\ run.ours # "none" => state = run.state /\ run.state.installed = run.after
  BY <1>1 DEF InstallerInv, InstallerTypeOK, Planned
<1>3. InstallerTypeOK'
  <2>1. files' \in [Files -> Contents]
    BY <1>1, <1>2, Persisting, FilesOfParts
  <2>2. NoRun \in [ours : Variants \cup {"none"}, name : Names \cup {"none"},
                   before : [Parts -> Contents], after : [Parts -> Contents], state : States]
    BY AbsentContent DEF NoRun
  <2>3. CASE run.ours = "none"
    BY <1>1, <1>2, <2>1, <2>3 DEF InstallerInv, InstallerTypeOK
  <2>4. CASE run.ours # "none"
    BY <1>1, <1>2, <2>1, <2>2, <2>4 DEF InstallerInv, InstallerTypeOK
  <2>. QED
    BY <2>3, <2>4
<1>4. (UserTextKept /\ HooksOnRecord /\ Sound(state))'
  BY <1>1, <1>2, PersistingKeeps, FilesOfParts
<1>5. Planned'
  BY <1>1 DEF InstallerInv, Planned, Sound
<1>6. /\ files'[run.name] = IF run.ours = "none" /\ run.before["instructions"] = Absent
                            THEN run.before["instructions"] ELSE run.after["instructions"]
      /\ files'["settings"] = IF run.ours = "none" /\ run.before["settings"] = Absent
                              THEN run.before["settings"] ELSE run.after["settings"]
  BY <1>1, <1>2, Persisting, FilesOfParts DEF InstallerInv, Written, Persisted, Files
<1>7. Written'
  BY <1>1, <1>2, <1>6, FilesOfParts DEF Written, Persisted, Parts
<1>8. WayBack'
  <2>1. \A f \in Others(run.name) : files'[f] = files[f]
    BY <1>1, <1>2, Persisting, FilesOfParts DEF Others
  <2>2. CASE run.ours = "none"
    BY <1>1, <1>2, <2>1, <2>2 DEF InstallerInv, WayBack, AsItWas, Others
  <2>3. CASE run.ours # "none"
    <3>1. \A p \in Parts : files'[File(p, state.name)] = state.installed[p]
      BY <1>2, <1>6, <2>3, FilesOfParts DEF Parts
    <3>. QED
      BY <1>1, <1>2, <2>1, <2>3, <3>1 DEF InstallerInv, WayBack, AsItWas, Others
  <2>. QED
    BY <2>2, <2>3
<1>. QED
  BY <1>3, <1>4, <1>5, <1>7, <1>8 DEF InstallerInv

\* Steps that leave files, record and plan alone.
LEMMA RemoveCaptureStep == ASSUME InstallerInv, RemoveCapture PROVE InstallerInv'
<1>1. /\ pc = "unlink" /\ pc' = "forget" /\ capture' = FALSE
      /\ UNCHANGED <<files, state, run, mine, clean, smooth, runs, edits, crashes>>
  BY DEF RemoveCapture, history, counts
<1>2. InstallerTypeOK'
  BY <1>1 DEF InstallerInv, InstallerTypeOK
<1>3. (UserTextKept /\ HooksOnRecord /\ Sound(state))'
  BY <1>1 DEF InstallerInv, UserTextKept, HooksOnRecord, Sound
<1>4. (Planned /\ Written)'
  BY <1>1 DEF InstallerInv, Planned, Written, Persisted, Sound
<1>5. WayBack'
  BY <1>1 DEF InstallerInv, WayBack, AsItWas, Others
<1>. QED
  BY <1>2, <1>3, <1>4, <1>5 DEF InstallerInv

\* The record may go, because nothing of ours is left.
LEMMA ForgetStep == ASSUME InstallerInv, RemoveState PROVE InstallerInv'
<1>1. /\ pc = "forget" /\ pc' = "idle" /\ state' = NoState /\ run' = NoRun /\ smooth' = TRUE
      /\ clean' = [f \in Files |-> IF clean[f] = Edited \/ ~smooth THEN files[f] ELSE clean[f]]
      /\ UNCHANGED <<files, capture, mine, runs, edits, crashes>>
  BY DEF RemoveState, counts
<1>2. run.ours = "none" /\ run.name \in Names /\ run.name = state.name /\ state # NoState
  BY <1>1 DEF InstallerInv, InstallerTypeOK, Planned
<1>3. \A p \in Parts : /\ run.after[p].ours = "none"
                       /\ files[File(p, run.name)] = IF run.before[p] = Absent THEN run.before[p]
                                                     ELSE run.after[p]
  BY <1>1, <1>2 DEF InstallerInv, Planned, Written, Persisted
<1>4. InstallerTypeOK'
  <2>1. NoRun \in [ours : Variants \cup {"none"}, name : Names \cup {"none"},
                   before : [Parts -> Contents], after : [Parts -> Contents], state : States]
    BY AbsentContent DEF NoRun
  <2>2. clean' \in [Files -> Contents]
    BY <1>1 DEF InstallerInv, InstallerTypeOK
  <2>. QED
    BY <1>1, <2>1, <2>2, AbsentContent DEF InstallerInv, InstallerTypeOK
<1>5. UserTextKept'
  BY <1>1 DEF InstallerInv, UserTextKept
<1>6. HooksOnRecord'
  <2> SUFFICES ASSUME NEW f \in Files, files[f].ours # "none" PROVE FALSE
    BY <1>1 DEF HooksOnRecord
  <2>1. PICK p \in Parts : f = File(p, run.name)
    BY <1>2 DEF InstallerInv, HooksOnRecord
  <2>. QED
    BY <1>3, <2>1 DEF Absent
<1>7. (Sound(state) /\ Planned /\ Written)'
  BY <1>1 DEF Sound, Planned, Written
<1>8. WayBack'
  <2>1. ASSUME NEW f \in Files, smooth, clean[f] # Edited PROVE files[f] = clean[f]
    <3>1. CASE f \in Others(run.name)
      BY <1>1, <2>1, <3>1 DEF InstallerInv, WayBack, AsItWas
    <3>2. ASSUME NEW p \in Parts, f = File(p, run.name) PROVE files[f] = clean[f]
      BY <1>1, <1>2, <1>3, <2>1, <3>2 DEF InstallerInv, WayBack, AsItWas
    <3>. QED
      BY <1>2, <3>1, <3>2, FilesOfParts
  <2>2. \A f \in Files : files'[f] = clean'[f]
    BY <1>1, <2>1
  <2>3. ~capture
    BY <1>1 DEF InstallerInv, Planned
  <2>. QED
    BY <1>1, <2>2, <2>3 DEF WayBack
<1>. QED
  BY <1>4, <1>5, <1>6, <1>7, <1>8 DEF InstallerInv

LEMMA CrashStep == ASSUME InstallerInv, Crash PROVE InstallerInv'
<1>1. /\ pc' = "idle" /\ run' = NoRun /\ smooth' = FALSE /\ crashes' = crashes + 1
      /\ crashes < MaxCrashes
      /\ UNCHANGED <<files, capture, state, mine, clean, runs, edits>>
  BY DEF Crash
<1>2. InstallerTypeOK'
  <2>1. NoRun \in [ours : Variants \cup {"none"}, name : Names \cup {"none"},
                   before : [Parts -> Contents], after : [Parts -> Contents], state : States]
    BY AbsentContent DEF NoRun
  <2>2. crashes' \in 0..MaxCrashes
    BY <1>1, InstallerAssumption DEF InstallerInv, InstallerTypeOK
  <2>. QED
    BY <1>1, <2>1, <2>2 DEF InstallerInv, InstallerTypeOK
<1>3. (UserTextKept /\ HooksOnRecord /\ Sound(state))'
  BY <1>1 DEF InstallerInv, UserTextKept, HooksOnRecord, Sound
<1>4. (Planned /\ Written /\ WayBack)'
  BY <1>1 DEF Planned, Written, WayBack
<1>. QED
  BY <1>2, <1>3, <1>4 DEF InstallerInv

LEMMA EditStep == ASSUME InstallerInv, NEW f \in Files, Edit(f) PROVE InstallerInv'
<1>1. /\ pc = "idle" /\ edits < MaxEdits /\ edits' = edits + 1
      /\ UNCHANGED <<capture, state, pc, run, smooth, runs, crashes>>
  BY DEF Edit
<1>2. PICK c \in Writings(f) :
        /\ c # files[f]
        /\ files' = [files EXCEPT ![f] = c]
        /\ mine' = [mine EXCEPT ![f] = c.user]
        /\ clean' = [clean EXCEPT ![f] = IF state = NoState THEN c ELSE Edited]
  BY DEF Edit
<1>3. files \in [Files -> Contents] /\ clean \in [Files -> Contents]
      /\ mine \in [Files -> Texts \cup {"nothing"}]
  BY DEF InstallerInv, InstallerTypeOK
<1>4. c \in Contents /\ (c.ours = files[f].ours \/ c.ours = "none")
  BY <1>2, <1>3, AbsentContent DEF Writings, Contents, Absent
<1>5. InstallerTypeOK'
  <2>1. Edited \in Contents
    BY DEF Edited, Contents
  <2>2. files' \in [Files -> Contents] /\ clean' \in [Files -> Contents]
    BY <1>2, <1>3, <1>4, <2>1
  <2>3. mine' \in [Files -> Texts \cup {"nothing"}]
    <3>1. c.user \in Texts \cup {"nothing"}
      BY <1>4 DEF Contents
    <3>. QED
      BY <1>2, <1>3, <3>1
  <2>4. edits' \in 0..MaxEdits
    BY <1>1, InstallerAssumption DEF InstallerInv, InstallerTypeOK
  <2>. QED
    BY <1>1, <2>2, <2>3, <2>4 DEF InstallerInv, InstallerTypeOK
<1>6. UserTextKept'
  BY <1>2, <1>3 DEF InstallerInv, UserTextKept
<1>7. HooksOnRecord'
  <2> SUFFICES ASSUME NEW g \in Files, files'[g].ours # "none"
               PROVE  files[g].ours # "none"
    BY <1>1 DEF InstallerInv, HooksOnRecord
  <2>. QED
    BY <1>2, <1>3, <1>4
<1>8. (Sound(state) /\ Planned /\ Written)'
  BY <1>1 DEF InstallerInv, Sound, Planned, Written
<1>9. WayBack'
  <2> SUFFICES ASSUME smooth PROVE WayBack'
    BY <1>1 DEF WayBack
  <2>1. state = NoState => /\ \A g \in Files : files'[g] = clean'[g]
                           /\ ~capture
    BY <1>1, <1>2, <1>3 DEF InstallerInv, WayBack
  <2>2. ASSUME NEW g \in Files, state # NoState, clean'[g] # Edited
        PROVE  clean[g] # Edited /\ clean'[g] = clean[g] /\ files'[g] = files[g]
    BY <1>2, <1>3, <2>2
  <2>3. state # NoState =>
          /\ \A g \in Others(state.name) : clean'[g] # Edited => files'[g] = clean'[g]
          /\ \A p \in Parts :
               LET g == File(p, state.name)
               IN  clean'[g] # Edited => state.before[p] = clean'[g] /\ files'[g] = state.installed[p]
    <3> SUFFICES ASSUME state # NoState
                 PROVE  /\ \A g \in Others(state.name) : clean'[g] # Edited => files'[g] = clean'[g]
                        /\ \A p \in Parts :
                             LET g == File(p, state.name)
                             IN  clean'[g] # Edited =>
                                   state.before[p] = clean'[g] /\ files'[g] = state.installed[p]
      OBVIOUS
    <3>1. state.name \in Names
      BY DEF InstallerInv, Sound
    <3>. QED
      BY <1>1, <2>2, <3>1, FilesOfParts DEF InstallerInv, WayBack, AsItWas, Others
  <2>. QED
    BY <1>1, <2>1, <2>3 DEF WayBack, AsItWas, Others
<1>. QED
  BY <1>5, <1>6, <1>7, <1>8, <1>9 DEF InstallerInv

LEMMA InstallerNextInv == ASSUME InstallerInv, [InstallerNext]_installerVars PROVE InstallerInv'
<1>1. CASE UNCHANGED installerVars
  <2>1. /\ UNCHANGED <<files, capture, state, pc, run, mine, clean, smooth, runs, edits, crashes>>
    BY <1>1 DEF installerVars, history, counts
  <2>. QED
    BY <2>1 DEF InstallerInv, InstallerTypeOK, UserTextKept, HooksOnRecord, Sound, Planned, Written, Persisted,
                WayBack, AsItWas, Others
<1>. QED
  BY <1>1, StartStep, CopyStep, RecordStep, SettingsStep, InstructionsStep, RemoveCaptureStep,
     ForgetStep, CrashStep, EditStep DEF InstallerNext

-----------------------------------------------------------------------------
\* Every file holds what its user last wrote in it, whatever is installed,
\* interrupted and edited. (installer.ts:60-71)
THEOREM UserTextAlwaysKept == InstallerSpec => []UserTextKept
<1>1. InstallerInv => UserTextKept
  BY DEF InstallerInv
<1>. QED
  BY <1>1, InstallerInitInv, InstallerNextInv, PTL DEF InstallerSpec

\* What was installed can always be taken out, and is then gone without a
\* trace where no run was interrupted. (installer.ts:74-102)
THEOREM AlwaysReversible == InstallerSpec => []Reversible
<1>1. InstallerInv => Reversible
  <2> SUFFICES ASSUME InstallerInv PROVE Reversible
    OBVIOUS
  <2>1. RestoresBytes
    BY DEF InstallerInv, WayBack, RestoresBytes
  <2>. QED
    BY <2>1 DEF InstallerInv, Reversible
<1>. QED
  BY <1>1, InstallerInitInv, InstallerNextInv, PTL DEF InstallerSpec

-----------------------------------------------------------------------------
(* Repeated installations *)

\* A recorded settings file is one the installer wrote, and until it is written
\* a record is the one planned against the record there is.
Recording ==
  /\ state # NoState => state.installed["settings"].form = "written"
  /\ pc \in {"copy", "record"} =>
       /\ run.after = [p \in Parts |-> After(p, run.before[p], run.ours)]
       /\ run.state = [ name |-> run.name,
                        before |-> [p \in Parts |-> Recorded(p, run.before[p])],
                        installed |-> run.after ]

\* What an installation plans to write in the settings.
LEMMA SettingsWritten ==
  ASSUME NEW c, NEW ours \in Variants
  PROVE  After("settings", c, ours).form = "written"
<1>1. ours # "none"
  BY InstallerAssumption
<1>. QED
  BY <1>1 DEF After, Update, UpdateSettings

LEMMA NextRecording ==
  ASSUME InstallerInv, Recording, [InstallerNext]_installerVars
  PROVE  Recording'
<1>1. ASSUME state' = state, run' = run, pc' \in {"copy", "record"} => pc \in {"copy", "record"}
      PROVE  Recording'
  BY <1>1 DEF Recording, After, Recorded
<1>2. ASSUME state' = state, pc' \notin {"copy", "record"}
      PROVE  Recording'
  BY <1>2 DEF Recording
<1>3. CASE UNCHANGED installerVars
  BY <1>1, <1>3 DEF installerVars
<1>4. CASE \E ours \in Variants \cup {"none"} : Start(ours)
  <2>1. PICK ours \in Variants \cup {"none"} : Start(ours)
    BY <1>4
  <2> DEFINE before == [p \in Parts |-> files[File(p, Name)]]
             after == [p \in Parts |-> After(p, before[p], ours)]
  <2>2. /\ run' = [ ours |-> ours, name |-> Name, before |-> before, after |-> after,
                    state |-> [ name |-> Name,
                                before |-> [p \in Parts |-> Recorded(p, before[p])],
                                installed |-> after ] ]
        /\ state' = state
    BY <2>1 DEF Start
  <2> HIDE DEF before
  <2>3. /\ run'.after = [p \in Parts |-> After(p, run'.before[p], run'.ours)]
        /\ run'.state = [ name |-> run'.name,
                          before |-> [p \in Parts |-> Recorded(p, run'.before[p])],
                          installed |-> run'.after ]
    BY <2>2
  <2>. QED
    BY <2>2, <2>3 DEF Recording, After, Recorded
<1>5. CASE CopyCapture
  BY <1>1, <1>5 DEF CopyCapture
<1>6. CASE WriteState
  <2>1. pc = "record" /\ state' = run.state /\ pc' = "settings"
    BY <1>6 DEF WriteState
  <2>2. run.ours \in Variants
    BY <2>1 DEF InstallerInv, InstallerTypeOK
  <2>3. run.state.installed["settings"] = After("settings", run.before["settings"], run.ours)
    BY <2>1 DEF Recording, Parts
  <2>. QED
    BY <2>1, <2>2, <2>3, SettingsWritten DEF Recording
<1>7. CASE PersistSettings
  BY <1>2, <1>7 DEF PersistSettings
<1>8. CASE PersistInstructions
  BY <1>2, <1>8 DEF PersistInstructions
<1>9. CASE RemoveCapture
  BY <1>2, <1>9 DEF RemoveCapture
<1>10. CASE RemoveState
  BY <1>10 DEF RemoveState, Recording
<1>11. CASE Crash
  BY <1>2, <1>11 DEF Crash
<1>12. CASE \E f \in Files : Edit(f)
  BY <1>1, <1>12 DEF Edit
<1>. QED
  BY <1>3, <1>4, <1>5, <1>6, <1>7, <1>8, <1>9, <1>10, <1>11, <1>12 DEF InstallerNext

\* Over an unedited file an installation records what is recorded.
LEMMA RecordedAgain ==
  ASSUME InstallerInv, Recording, pc = "record", state # NoState, Unedited
  PROVE  /\ run.state.before = state.before
         /\ run.ours = state.installed["settings"].ours => run.state = state
<1>1. /\ state \in States /\ run.ours \in Variants /\ run.ours # "none"
      /\ run.name = state.name
      /\ state.before \in [Parts -> Contents] /\ state.installed \in [Parts -> Contents]
  BY InstallerAssumption DEF InstallerInv, InstallerTypeOK, Planned, States
<1>2. run.state.before = state.before
  <2>1. \A p \in Parts : Recorded(p, run.before[p]) = state.before[p]
    BY DEF Recorded, Unedited
  <2>. QED
    BY <1>1, <2>1 DEF Recording
<1>3. ASSUME run.ours = state.installed["settings"].ours
      PROVE  run.after = state.installed
  <2>1. \A p \in Parts : state.installed[p] \in Contents /\ state.installed[p].ours # "none"
    BY <1>1 DEF InstallerInv, Sound
  <2>2. \A p \in Parts : run.after[p] = Update(p, state.installed[p], run.ours)
    BY <1>1 DEF Recording, Unedited, After
  <2>3. UpdateSettings(state.installed["settings"], run.ours) = state.installed["settings"]
    BY <1>3, <2>1 DEF Recording, UpdateSettings, Contents, Parts
  <2>4. \A p \in Parts : Update(p, state.installed[p], run.ours) = state.installed[p]
    BY <1>1, <2>1, <2>3 DEF Update, UpdateInstructions, Parts
  <2>5. run.after \in [Parts -> Contents]
    BY <1>1 DEF InstallerInv, InstallerTypeOK
  <2>. QED
    BY <1>1, <2>2, <2>4, <2>5
<1>4. ASSUME run.ours = state.installed["settings"].ours
      PROVE  run.state = state
  <2>1. run.state = [name |-> state.name, before |-> state.before, installed |-> state.installed]
    BY <1>1, <1>2, <1>3, <1>4 DEF Recording
  <2>. QED
    BY <1>1, <2>1 DEF States
<1>. QED
  BY <1>2, <1>4

\* To install the same again over files that were not edited changes nothing in
\* the record, and to install anything keeps what it puts back, also after
\* interrupted installations. (installer.ts:84-97)
THEOREM RepeatedInstallsIdempotent == InstallerSpec => Idempotent
<1>1. InstallerInit => Recording
  BY DEF InstallerInit, Recording
<1>2. ASSUME InstallerInv, Recording, [InstallerNext]_installerVars
      PROVE  pc = "record" /\ state # NoState /\ Unedited
               => /\ state'.before = state.before
                  /\ run.ours = state.installed["settings"].ours => state' = state
  <2>. SUFFICES ASSUME pc = "record", state # NoState, Unedited
                PROVE  /\ state'.before = state.before
                       /\ run.ours = state.installed["settings"].ours => state' = state
    OBVIOUS
  <2>1. state' = state \/ state' = run.state
    BY <1>2 DEF InstallerNext, installerVars, Start, CopyCapture, WriteState, PersistSettings,
                PersistInstructions, RemoveCapture, RemoveState, Crash, Edit
  <2>. QED
    BY <1>2, <2>1, RecordedAgain
<1>. QED
  BY <1>1, <1>2, InstallerInitInv, InstallerNextInv, NextRecording, PTL DEF InstallerSpec, Idempotent
=============================================================================
