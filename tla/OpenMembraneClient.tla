------------------------- MODULE OpenMembraneClient -------------------------
(***************************************************************************)
(* The client library (client/src): a call reads the token, connects and   *)
(* sends its request; when no daemon runs it launches one, waits until its *)
(* health is good and tries once more.  Calls of one client overlap and    *)
(* share one launch; a program may have several clients, which do not.     *)
(*                                                                         *)
(* The daemon is modelled as its clients see it (server.ts): when it       *)
(* listens, what it refuses, and that it may stop, die or hang.  How a     *)
(* second daemon is kept out is in DaemonLock, what a request does in      *)
(* MemoryLifecycle.  The transport is the socket, whose path is known      *)
(* without a file; a missing endpoint file of the TCP transport is         *)
(* reported like a refused connection.                                     *)
(*                                                                         *)
(* Project-scoped calls only, with autoLaunch set.  Which error a failed   *)
(* call reports is left out, but for a timeout, and so are invalid         *)
(* responses.                                                              *)
(***************************************************************************)
EXTENDS Naturals

CONSTANTS
  Calls,
  Clients,
  ClientOf,    \* the client of each call
  MaxStarts    \* bound: daemons ever started, the first included

ASSUME ClientAssumption ==
  /\ MaxStarts \in Nat /\ MaxStarts > 0
  /\ ClientOf \in [Calls -> Clients]

VARIABLES
  daemon,     \* down, booting (not listening yet), starting, ready, closing
  starts,     \* daemons started so far; the token of each is its number
  token,      \* the token file, 0 when it is missing
  request,    \* where the request of each call is, and what was answered
  executed,   \* how often each call was carried out
  calls,      \* where each call is, in which attempt, with which token
  launch,     \* launchPromise of each client: none, hook (the spawn), poll
  spawns,     \* history: how often each call under way ran the launch hook
  missed      \* history: the calls under way that no daemon listened to once

daemonVars == <<daemon, starts, token, request, executed>>
clientVars == <<calls, launch, spawns>>
allClientVars == <<daemonVars, clientVars, missed>>

Over == {"done", "failed", "timedOut"}

Call ==
  [ at : {"idle", "read", "connect", "sent", "refused", "starting", "await"} \cup Over,
    second : BOOLEAN,
    token : 0..MaxStarts ]

\* Sent and not read by the daemon: a health probe, a request with the daemon's
\* token or with an older one.
Sent == {"health", "fresh", "stale"}
Answer == {"busy", "refusal", "result"}

ClientTypeOK ==
  /\ daemon \in {"down", "booting", "starting", "ready", "closing"}
  /\ starts \in 0..MaxStarts
  /\ token \in 0..starts
  /\ request \in [Calls -> {"none", "accepted"} \cup Sent \cup Answer]
  /\ executed \in [Calls -> Nat]
  /\ calls \in [Calls -> Call]
  /\ launch \in [Clients -> {"none", "hook", "poll"}]
  /\ spawns \in [Calls -> Nat]
  /\ missed \subseteq Calls

\* A daemon runs or has run.  One that stopped has removed its token, one that
\* died has not, and a user may have.
ClientInit ==
  /\ daemon \in {"down", "ready"}
  /\ starts = 1
  /\ token \in {0, 1}
  /\ request = [c \in Calls |-> "none"]
  /\ executed = [c \in Calls |-> 0]
  /\ calls = [c \in Calls |-> [at |-> "idle", second |-> FALSE, token |-> 0]]
  /\ launch = [k \in Clients |-> "none"]
  /\ spawns = [c \in Calls |-> 0]
  /\ missed = {}

-----------------------------------------------------------------------------
(* The daemon *)

Listens == daemon \in {"starting", "ready", "closing"}

\* A closing daemon has stopped listening, or still says that it is stopping.
Refuses == daemon \in {"down", "booting", "closing"}

UnderWay(c) == calls[c].at \notin {"idle"} \cup Over

\* Nobody reads the answer to a call that is over.
Reply(c, answer) == [request EXCEPT ![c] = IF calls[c].at = "sent" THEN answer ELSE "none"]

\* Launched by one of these clients or by another program.
Boot ==
  /\ daemon = "down" /\ starts < MaxStarts
  /\ daemon' = "booting" /\ starts' = starts + 1 /\ token' = 0
  /\ UNCHANGED <<request, executed>>

\* The token is there before anyone listens.
WriteToken ==
  /\ daemon = "booting" /\ token = 0
  /\ token' = starts
  /\ UNCHANGED <<daemon, starts, request, executed>>

Listen ==
  /\ daemon = "booting" /\ token = starts
  /\ daemon' = "starting"
  /\ UNCHANGED <<starts, token, request, executed>>

StartupComplete ==
  /\ daemon = "starting"
  /\ daemon' = "ready"
  /\ UNCHANGED <<starts, token, request, executed>>

\* handle: until it is ready, and from the stop on, a daemon refuses everything.
\* A probe that finds it well ends the call too: its token is missing.
Read(c) ==
  /\ Listens /\ request[c] \in Sent
  /\ request' = CASE daemon = "starting" -> Reply(c, "busy")
                  [] daemon = "ready" /\ request[c] = "fresh" -> [request EXCEPT ![c] = "accepted"]
                  [] OTHER -> Reply(c, "refusal")
  /\ UNCHANGED <<daemon, starts, token, executed>>

Execute(c) ==
  /\ daemon \in {"ready", "closing"} /\ request[c] = "accepted"
  /\ executed' = [executed EXCEPT ![c] = @ + 1]
  /\ request' = Reply(c, "result")
  /\ UNCHANGED <<daemon, starts, token>>

Close ==
  /\ daemon = "ready"
  /\ daemon' = "closing"
  /\ UNCHANGED <<starts, token, request, executed>>

\* close: what was accepted is waited for, other connections are reset.
Closed ==
  /\ daemon = "closing" /\ \A c \in Calls : request[c] # "accepted"
  /\ daemon' = "down" /\ token' = 0
  /\ request' = [c \in Calls |-> IF request[c] \in Sent THEN "none" ELSE request[c]]
  /\ UNCHANGED <<starts, executed>>

\* Its connections are reset, and its token stays.
Die ==
  /\ daemon # "down"
  /\ daemon' = "down" /\ request' = [c \in Calls |-> "none"]
  /\ UNCHANGED <<starts, token, executed>>

DaemonStep ==
  /\ Boot \/ WriteToken \/ Listen \/ StartupComplete \/ Close \/ Closed \/ Die
       \/ \E c \in Calls : Read(c) \/ Execute(c)
  /\ missed' = missed \cup IF Refuses' THEN {c \in Calls : UnderWay(c)} ELSE {}
  /\ UNCHANGED clientVars

-----------------------------------------------------------------------------
(* Calls *)

\* What is over has no attempt any more.
Goes(c, at) ==
  calls' = [calls EXCEPT ![c] =
              [at |-> at, second |-> IF at \in Over THEN FALSE ELSE calls[c].second, token |-> 0]]

\* The histories are of the calls that go on; each call begins once.
Forget ==
  /\ spawns' = [c \in Calls |-> IF UnderWay(c)' THEN spawns[c] ELSE 0]
  /\ missed' = {c \in missed : UnderWay(c)'}

\* Calls made together; each runs to its first await.
Begin(C) ==
  /\ \A c \in C : calls[c].at = "idle"
  /\ calls' = [c \in Calls |-> IF c \in C THEN [calls[c] EXCEPT !.at = "read"] ELSE calls[c]]
  /\ missed' = missed \cup IF Refuses THEN C ELSE {}
  /\ UNCHANGED <<launch, spawns>>

\* Only the first attempt is repeated.
Repeated(c, at) == Goes(c, IF calls[c].second THEN "failed" ELSE at)

\* Faulty variant: a missing token means that no daemon runs.
ReadTokenOnly(c) ==
  /\ calls[c].at = "read"
  /\ IF token # 0
     THEN calls' = [calls EXCEPT ![c].at = "connect", ![c].token = token]
     ELSE Repeated(c, "refused")
  /\ UNCHANGED <<request, launch>>

\* loadDaemonToken: without a token the daemon's health is asked, which needs none.
ReadToken(c) ==
  /\ calls[c].at = "read"
  /\ IF token # 0
     THEN calls' = [calls EXCEPT ![c].at = "connect", ![c].token = token]
     ELSE Repeated(c, "connect")
  /\ UNCHANGED <<request, launch>>

Connect(c) ==
  /\ calls[c].at = "connect"
  /\ \/ Refuses /\ Repeated(c, "refused") /\ UNCHANGED request
     \/ /\ Listens
        /\ Goes(c, "sent")
        /\ request' = [request EXCEPT ![c] = CASE calls[c].token = 0 -> "health"
                                               [] calls[c].token = starts -> "fresh"
                                               [] OTHER -> "stale"]
  /\ UNCHANGED launch

Receive(c) ==
  /\ calls[c].at = "sent" /\ request[c] \in Answer
  /\ CASE request[c] = "busy" -> Repeated(c, "starting")
       [] request[c] = "refusal" -> Goes(c, "failed")
       [] request[c] = "result" -> Goes(c, "done")
  /\ request' = [request EXCEPT ![c] = "none"]
  /\ UNCHANGED launch

\* Faulty variant: a request that was cut off is sent again once a daemon is ready.
ResetRetried(c) ==
  /\ calls[c].at = "sent" /\ request[c] = "none"
  /\ Repeated(c, "starting")
  /\ UNCHANGED <<request, launch>>

Reset(c) ==
  /\ calls[c].at = "sent" /\ request[c] = "none"
  /\ Goes(c, "failed")
  /\ UNCHANGED <<request, launch>>

\* Faulty variant: only the time of an answer that came is limited.
NoTimeout(c) ==
  /\ calls[c].at = "sent" /\ request[c] \in Answer
  /\ Goes(c, "timedOut")
  /\ request' = [request EXCEPT ![c] = "none"]
  /\ UNCHANGED launch

\* The daemon does not learn of it: a request it has not carried out stays with it.
Timeout(c) ==
  /\ calls[c].at = "sent"
  /\ Goes(c, "timedOut")
  /\ request' = [request EXCEPT ![c] = IF @ \in {"fresh", "stale", "accepted"} THEN @ ELSE "none"]
  /\ UNCHANGED launch

\* The call waits for the launch its client has, or starts one.  What it was told
\* may be over by now.  A daemon that is starting is waited for without the hook.
LaunchAndRetry(c) ==
  /\ calls[c].at \in {"refused", "starting"}
  /\ IF launch[ClientOf[c]] # "none" THEN UNCHANGED <<launch, spawns>>
     ELSE IF calls[c].at = "starting"
          THEN launch' = [launch EXCEPT ![ClientOf[c]] = "poll"] /\ UNCHANGED spawns
          ELSE /\ launch' = [launch EXCEPT ![ClientOf[c]] = "hook"]
               /\ spawns' = [spawns EXCEPT ![c] = @ + 1]
  /\ Goes(c, "await")
  /\ UNCHANGED request

CallStep(c) ==
  /\ \/ (ReadToken(c) \/ Connect(c) \/ Receive(c) \/ Reset(c) \/ Timeout(c)) /\ Forget
     \/ LaunchAndRetry(c) /\ UNCHANGED missed
  /\ UNCHANGED <<daemon, starts, token, executed>>

-----------------------------------------------------------------------------
(* The shared launch of a client *)

\* The promise is cleared and everyone who waits for it goes on.
LaunchEnds(k, at, second) ==
  /\ launch' = [launch EXCEPT ![k] = "none"]
  /\ calls' = [c \in Calls |-> IF ClientOf[c] = k /\ calls[c].at = "await"
                                 THEN [at |-> at, second |-> second, token |-> 0]
                                 ELSE calls[c]]

\* The hook has spawned a process, or failed to.
RunHook(k) ==
  /\ launch[k] = "hook"
  /\ \/ launch' = [launch EXCEPT ![k] = "poll"] /\ UNCHANGED calls
     \/ LaunchEnds(k, "failed", FALSE)

\* autoLaunchDaemon: health is asked until it is good, the daemon is stopping or
\* the time is up.
Poll(k) ==
  /\ launch[k] = "poll"
  /\ \/ daemon = "ready" /\ LaunchEnds(k, "read", TRUE)
     \/ LaunchEnds(k, "failed", FALSE)

LaunchStep(k) == (RunHook(k) \/ Poll(k)) /\ Forget /\ UNCHANGED daemonVars

-----------------------------------------------------------------------------
(* Properties of calls *)

\* No call is carried out twice, whatever is refused, reset, timed out or
\* launched in between ("does not replay mutations",
\* tests/unit/OpenMembraneClient.test.ts:228).
AtMostOnce == \A c \in Calls : executed[c] <= 1

\* What a finished call reports has happened.
DoneWasExecuted == \A c \in Calls : calls[c].at = "done" => executed[c] = 1

\* A call spawns one process at most, and only if at some moment since it began no
\* daemon listened: a missing token, a daemon that starts and a request cut off
\* are no reason to (OpenMembraneClient.ts:64).  The process may come too late and
\* find a daemon; keeping it out is the lock's part.
LaunchedForNeed == \A c \in Calls : spawns[c] <= IF c \in missed THEN 1 ELSE 0
=============================================================================
