----------------------------- MODULE GcPauseLoop -----------------------------
(***************************************************************************)
(* The feedback loop of the demo: a simulated-pause server, its sidecar    *)
(* and the load balancer that routes to it.                                *)
(*                                                                         *)
(*   services/simulated_pause: a timer arms a pause, the next /query runs  *)
(*   it inside its handler, and UDP tells the sidecar when it began and    *)
(*   ended (gc_pause_simulator.ts, simulated_pause_server.ts); the service *)
(*   may be stopped, or killed, and started again;                         *)
(*   lb/sidecar: GcPauseCheck turns the datagrams into a verdict, the      *)
(*   runner polls it, the sidecar sends DRAIN and RESUME;                  *)
(*   lb: the lease those commands give the server (DrainLease), and        *)
(*   traffic only while it is in rotation.                                 *)
(*                                                                         *)
(* The TCP link of SidecarLink is up and immediate here: what is at stake  *)
(* is the UDP path and the order of the loop.  Node's dgram socket sends   *)
(* after a bind and a name lookup, both asynchronous: a datagram handed to *)
(* send() leaves only when the handler that called it has returned.        *)
(* services/java_gc reports the pauses of its JVM when they are over, too, *)
(* with the duration of JFR's SafepointEnd, which is not the pause's.      *)
(***************************************************************************)
EXTENDS Naturals, Sequences, SequencesExt

CONSTANTS
  PauseDuration,    \* pauseDurationMs
  Reports,          \* the durationMs a safepoint_end may report
  Cooldown,         \* cooldownMs of GcPauseCheck
  MinSendInterval,  \* MIN_SEND_INTERVAL_MS
  MaxFaults,        \* bound: faults of the network, and restarts of the service
  Forever           \* the Infinity of healthyAfter

ASSUME GcPauseLoopAssumption ==
  /\ PauseDuration \in Nat \ {0}
  /\ Reports \subseteq Nat
  /\ Cooldown \in Nat \ {0}
  /\ MinSendInterval \in Nat \ {0}
  /\ MaxFaults \in Nat
  /\ Forever \notin Nat

VARIABLES
  pausePending,   \* GcPauseSimulator.pausePending
  pauseLeft,      \* ticks of busySpin() to go; 0 when no handler is running
  outbox,         \* datagrams handed to send() that have not left the process
  net,            \* datagrams on their way to the sidecar
  faults,         \* those so far
  endLost,        \* a history: will no end follow the start that was heard last?
  cooling,        \* healthyAfter, as ticks from now, or Forever (Infinity)
  lastDrain,      \* GcPauseCheck.lastDrainMs
  checkDue,       \* is a run of the checks due in this tick?
  healthy,        \* runner.currentHealthy
  drainInterval,  \* runner.currentDrainInterval
  sendLeft,       \* ticks until the redundant send
  out,            \* the servers out of rotation at the load balancer
  lease           \* the ticks left of the lease

server == <<pausePending, pauseLeft, outbox>>
network == <<net, faults, endLost>>
check == <<cooling, lastDrain>>
sidecar == <<checkDue, healthy, drainInterval, sendLeft>>
balancer == <<out, lease>>
vars == <<server, network, check, sidecar, balancer>>

Larger(a, b) == IF a > b THEN a ELSE b

Key == "server"
Durations == {Cooldown} \union {Larger(reported, Cooldown) : reported \in Reports}
Lease == INSTANCE DrainLease WITH Keys <- {Key}, Leases <- Durations

Datagrams == {"safepoint_start", "safepoint_end"}

TypeOK ==
  /\ pausePending \in BOOLEAN
  /\ pauseLeft \in 0..PauseDuration
  /\ outbox \in Seq(Datagrams)
  /\ net \in Seq(Datagrams)
  /\ faults \in 0..MaxFaults
  /\ endLost \in BOOLEAN
  /\ cooling \in {Forever} \union UNION {0..d : d \in Durations}
  /\ lastDrain \in {0} \union Reports
  /\ checkDue \in BOOLEAN
  /\ healthy \in BOOLEAN
  /\ drainInterval \in Durations
  /\ sendLeft \in Nat
  /\ out \subseteq {Key}
  /\ lease \in [{Key} -> Nat]

\* The period of the redundant send, from the interval before any pause.
SendInterval == Larger(Cooldown \div 2, MinSendInterval)

Init ==
  /\ pausePending = FALSE
  /\ pauseLeft = 0
  /\ outbox = <<>>
  /\ net = <<>>
  /\ faults = 0
  /\ endLost = FALSE
  /\ cooling = 0
  /\ lastDrain = 0
  /\ checkDue = FALSE
  /\ healthy = TRUE
  /\ drainInterval = Cooldown
  /\ sendLeft = SendInterval
  /\ Lease!Init

-----------------------------------------------------------------------------
(* The simulated-pause server *)

Paused == pauseLeft > 0

\* The timer of scheduleNext() arms the pause, and itself again.  A busy event
\* loop runs no timer.  Its interval (minIntervalMs and more) is taken to be
\* longer than a pause and the way of its datagrams.
ArmPause ==
  /\ ~Paused
  /\ outbox = <<>> /\ net = <<>>
  /\ pausePending' = TRUE
  /\ UNCHANGED <<pauseLeft, outbox, network, check, sidecar, balancer>>

\* /query, routed here, polls checkSafepoint() and finds a pause pending:
\* executePause() queues safepoint_start and begins to spin.
QueryPauses ==
  /\ ~Paused
  /\ Key \notin out
  /\ pausePending
  /\ pausePending' = FALSE
  /\ pauseLeft' = PauseDuration
  /\ outbox' = Append(outbox, "safepoint_start")
  /\ UNCHANGED <<network, check, sidecar, balancer>>

\* A fault: the pause ends without a safepoint_end.
AfterSpinSilent(left) == outbox

\* The last tick of the spin queues safepoint_end and returns to the handler.
AfterSpin(left) == IF left = 0 THEN Append(outbox, "safepoint_end") ELSE outbox

\* A queued datagram leaves the process, between two handlers.
SendDatagram ==
  /\ ~Paused
  /\ outbox # <<>>
  /\ net' = Append(net, Head(outbox))
  /\ outbox' = Tail(outbox)
  /\ UNCHANGED <<pausePending, pauseLeft, faults, endLost, check, sidecar, balancer>>

\* stop() on a signal, or a kill, in the middle of a pause or with datagrams that
\* have not left: stop() closes the socket on them.  Then start() again.
Restart ==
  /\ faults < MaxFaults
  /\ faults' = faults + 1
  /\ pausePending' = FALSE
  /\ pauseLeft' = 0
  /\ outbox' = <<>>
  /\ endLost' = (endLost \/ Paused \/ Contains(outbox, "safepoint_end"))
  /\ UNCHANGED <<net, check, sidecar, balancer>>

-----------------------------------------------------------------------------
(* The network *)

Lose ==
  /\ faults < MaxFaults
  /\ faults' = faults + 1
  /\ \E i \in DOMAIN net :
       /\ net' = RemoveAt(net, i)
       /\ endLost' = (endLost \/ net[i] = "safepoint_end")
  /\ UNCHANGED <<server, check, sidecar, balancer>>

\* UDP may deliver the end of a pause before its start.
Reorder ==
  /\ faults < MaxFaults
  /\ Len(net) > 1
  /\ faults' = faults + 1
  /\ net' = Reverse(net)
  /\ UNCHANGED <<endLost, server, check, sidecar, balancer>>

-----------------------------------------------------------------------------
(* The sidecar *)

IsHealthy == cooling = 0

\* How long an end keeps the check unhealthy.
CooldownAfter(paused) == Larger(paused, Cooldown)

\* handleMessage(): a start is unhealthy until its end comes, an end cools down
\* for the longer of the pause it reports and the cooldown.
HandleMessage ==
  /\ net # <<>>
  /\ net' = Tail(net)
  /\ IF Head(net) = "safepoint_start"
     THEN cooling' = Forever /\ UNCHANGED <<lastDrain, endLost>>
     ELSE /\ \E reported \in Reports :
               /\ cooling' = CooldownAfter(reported)
               /\ lastDrain' = reported
          /\ endLost' = Contains(net \o outbox, "safepoint_start")
  /\ UNCHANGED <<server, faults, sidecar, balancer>>

\* sendCurrentState(), obeyed by the load balancer at once.
SendState(isHealthy, d) == IF isHealthy THEN Lease!Resume(Key) ELSE Lease!Drain(Key, d)

\* runChecks(), with the stateChange listener of the sidecar.
RunChecks ==
  /\ checkDue
  /\ checkDue' = FALSE
  /\ healthy' = IsHealthy
  /\ drainInterval' = Larger(lastDrain, Cooldown)
  /\ IF IsHealthy # healthy
     THEN SendState(IsHealthy, drainInterval')
     ELSE UNCHANGED balancer
  /\ UNCHANGED <<server, network, check, sendLeft>>

Heartbeat ==
  /\ sendLeft = 0
  /\ sendLeft' = SendInterval
  /\ SendState(healthy, drainInterval)
  /\ UNCHANGED <<server, network, check, checkDue, healthy, drainInterval>>

AutoResume ==
  /\ Lease!Expire(Key)
  /\ UNCHANGED <<server, network, check, sidecar>>

-----------------------------------------------------------------------------

\* The clock waits for what is due: a datagram that can leave or arrive, a
\* check, a heartbeat.
Tick ==
  /\ net = <<>>
  /\ Paused \/ outbox = <<>>
  /\ ~checkDue
  /\ sendLeft > 0
  /\ pauseLeft' = IF Paused THEN pauseLeft - 1 ELSE 0
  /\ outbox' = IF Paused THEN AfterSpin(pauseLeft - 1) ELSE outbox
  /\ cooling' = IF cooling \in {0, Forever} THEN cooling ELSE cooling - 1
  /\ checkDue' = TRUE
  /\ sendLeft' = sendLeft - 1
  /\ Lease!Tick
  /\ UNCHANGED <<pausePending, network, lastDrain, healthy, drainInterval>>

Next ==
  \/ ArmPause
  \/ QueryPauses
  \/ SendDatagram
  \/ Restart
  \/ Lose
  \/ Reorder
  \/ HandleMessage
  \/ RunChecks
  \/ Heartbeat
  \/ AutoResume
  \/ Tick

\* Every timer fires, traffic never ends, and a datagram that is not lost
\* arrives.
Fairness ==
  /\ WF_vars(ArmPause)
  /\ WF_vars(QueryPauses)
  /\ WF_vars(SendDatagram)
  /\ WF_vars(HandleMessage)
  /\ WF_vars(RunChecks)
  /\ WF_vars(Heartbeat)
  /\ WF_vars(AutoResume)
  /\ WF_vars(Tick)

Spec == Init /\ [][Next]_vars /\ Fairness

-----------------------------------------------------------------------------
(* Properties *)

\* The loop never ends with the server out of rotation, where no /query can
\* reach it and so no later pause can report its end; unless the end of the last
\* pause was lost, on the network or with the service, or overtook its start.
BackInRotation == []<>(out = {} \/ (endLost /\ cooling = Forever))
=============================================================================
