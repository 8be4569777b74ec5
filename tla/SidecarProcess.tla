--------------------------- MODULE SidecarProcess ---------------------------
(***************************************************************************)
(* The process of the sidecar, lb/sidecar/src/main.ts and sidecar.ts, with *)
(* its connection (LbConnection) and its health checks (HealthChecks): how *)
(* start() and the signal handler drive them.  What it sends and what that *)
(* does to the load balancer is SidecarLink.                               *)
(*                                                                         *)
(* start() awaits connect() and metricsServer.start().  Node resolves the  *)
(* second in the turn that resolves the first: what follows connect() is   *)
(* one step with the event that resolves it.                               *)
(***************************************************************************)
EXTENDS Naturals

CONSTANTS
  Sockets, Timers, InitialDelay, MaxDelay, MaxConnects, None,   \* see LbConnection
  Configs, HealthyPeriods, FailurePeriods, MaxFailure,          \* see HealthChecks
  MinStateDuration, RandomDrain, AlwaysDrain

VARIABLES
  phase, socket, isConnected, armed, reconnectTimer, reconnectDelay, stopped,
  awaiting, connects,                                           \* LbConnection
  checks, failing, transitionIn, failure, randomHealthy, settleIn, healthy,
  drainInterval,                                                \* HealthChecks
  running,   \* is the timer of the runner set?
  sending,   \* is sendTimer set, and the stateChange listener attached?
  serving,   \* does the metrics server listen?
  ended      \* what became of the process

connecting == <<phase, socket, isConnected, armed, reconnectTimer, reconnectDelay,
                stopped, awaiting, connects>>
checking == <<checks, failing, transitionIn, failure, randomHealthy, settleIn,
              healthy, drainInterval>>
sidecar == <<running, sending, serving>>
vars == <<connecting, checking, sidecar, ended>>

Connection == INSTANCE LbConnection

Runner == INSTANCE HealthChecks

ASSUME SidecarProcessAssumption ==
  /\ Connection!Parameters
  /\ Runner!Parameters

TypeOK ==
  /\ Connection!TypeOK
  /\ Runner!TypeOK
  /\ {running, sending, serving} \subseteq BOOLEAN
  /\ ended \in {"no", "stopping", "exited", "crashed"}

Init ==
  /\ Connection!Init
  /\ Runner!Init
  /\ running = FALSE
  /\ sending = FALSE
  /\ serving = FALSE
  /\ ended = "no"

Alive == ended \in {"no", "stopping"}

-----------------------------------------------------------------------------

\* main() calls start(), which calls connect().
Start ==
  /\ Connection!Connect
  /\ UNCHANGED <<checking, sidecar, ended>>

\* The rest of start(), once connect() has resolved.  If the port of the metrics
\* server is taken, main() rejects and the process ends with the checks running.
Proceed ==
  /\ running' = TRUE
  /\ \/ sending' = TRUE /\ serving' = TRUE /\ UNCHANGED ended
     \/ ended' = "crashed" /\ UNCHANGED <<sending, serving>>

\* The first attempt has been made, and not by a destroyed socket.
Resolves == awaiting # {} /\ awaiting' = {} /\ ~stopped

\* An event of the connection.
Event(happens) ==
  /\ Alive
  /\ happens
  /\ IF Resolves THEN Proceed ELSE UNCHANGED <<sidecar, ended>>
  /\ UNCHANGED checking

Attempted(s) == Event(Connection!OnConnect(s) \/ Connection!OnConnectError(s))
PeerClosed(s) == Event(Connection!OnPeerClose(s))
Destroyed(s) == Event(Connection!OnDestroyed(s))
Reconnect(t) == Event(Connection!OnReconnectTimer(t))

\* The interval of the runner.
Check ==
  /\ Alive
  /\ running
  /\ Runner!RunChecks
  /\ UNCHANGED <<connecting, sidecar, ended>>

Clock ==
  /\ Alive
  /\ Runner!Tick
  /\ UNCHANGED <<connecting, sidecar, ended>>

\* A fault: stop() forgets the runner.
StopConnectionOnly ==
  /\ Connection!Disconnect
  /\ sending' = FALSE
  /\ serving' = FALSE
  /\ UNCHANGED running

\* stop(), up to its await.
Stop ==
  /\ Connection!Disconnect
  /\ running' = FALSE
  /\ sending' = FALSE
  /\ serving' = FALSE

\* SIGINT or SIGTERM.  metricsServer.stop() rejects when its server does not
\* listen, before start() got that far or at a second signal, and nothing
\* catches that.
Signal ==
  /\ Alive
  /\ Stop
  /\ ended' = IF serving THEN "stopping" ELSE "crashed"
  /\ UNCHANGED checking

\* process.exit(0), in the continuation of stop().
Exit ==
  /\ ended = "stopping"
  /\ ended' = "exited"
  /\ UNCHANGED <<connecting, checking, sidecar>>

Next ==
  \/ Start
  \/ \E s \in Sockets : Attempted(s) \/ PeerClosed(s) \/ Destroyed(s)
  \/ \E t \in Timers : Reconnect(t)
  \/ Check
  \/ Clock
  \/ Signal
  \/ Exit

\* While the process lives, the kernel answers every attempt, Node delivers every
\* 'close' event and runs every timer, and the clock runs.  No signal is owed.
Fairness ==
  /\ \A s \in Sockets : WF_vars(Attempted(s)) /\ WF_vars(Destroyed(s))
  /\ \A t \in Timers : WF_vars(Reconnect(t))
  /\ WF_vars(Check)
  /\ WF_vars(Clock)
  /\ WF_vars(Exit)

Spec == Init /\ [][Next]_vars /\ Fairness

-----------------------------------------------------------------------------
(* Properties *)

\* Between connect() and disconnect() exactly one thing is under way, a socket
\* that write() and disconnect() can reach or one reconnect timer that
\* disconnect() can clear: no leaked socket, no second reconnect loop, and
\* never a connection that has silently stopped trying.
OneAttempt == Connection!OneAttempt

\* Whatever the connection, the checks and start() were doing when the signal
\* came, nothing of them acts after stop(): start() does not go on behind it.
StopIsFinal == stopped => Connection!Quiet /\ ~running /\ ~sending

\* "Writes a string to the socket if connected": a connected sidecar has a
\* socket for its commands.
WriteIfConnected == Connection!WriteIfConnected

\* Once the network stops failing, a sidecar that is not stopped is connected,
\* and stays so.
NetworkFails == \E s \in Sockets : Connection!OnConnectError(s) \/ Connection!OnPeerClose(s)

Reconnects ==
  (<>[][~NetworkFails]_vars /\ <>[](sending /\ Alive)) => <>[]isConnected

\* "Resolve the initial connect promise so startup isn't blocked": a load balancer
\* that is down does not keep the sidecar from running its checks.
ChecksStart == connects > 0 ~> running \/ ~Alive

\* The DRAIN for a failure asks for at least the time that failure has still to
\* run, whichever check made the verdict: one DRAIN that arrives is enough.
DrainCoversFailure == Runner!DrainCoversFailure

\* However the checks take turns in failing, there is a run in which all of them
\* pass: the server comes back into rotation between their failures.
VerdictRecovers == []<>(healthy \/ ~running \/ ~Alive)
=============================================================================
