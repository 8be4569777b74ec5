----------------------------- MODULE SidecarLink -----------------------------
(***************************************************************************)
(* One sidecar and the drain lease it keeps at the load balancer:          *)
(* lb/sidecar/src/sidecar.ts (start, stop, the redundant send loop) and    *)
(* health_check_runner.ts, over a connection that drops and comes back     *)
(* (LbConnection, seen through `connected`), with a discrete clock.        *)
(*                                                                         *)
(* The load balancer's half is DrainLease for this one server, which       *)
(* DrainHistory shows drain_manager.ts to implement.  The network is TCP:  *)
(* one connection loses nothing and reorders nothing while it is up; what  *)
(* it still carried when it dropped may be lost, or reach the listener     *)
(* later, beside the commands of the connection that replaced it.          *)
(***************************************************************************)
EXTENDS Naturals, Sequences

CONSTANTS
  Intervals,        \* what computeMaxDrainInterval() may return, in ticks
  MinSendInterval,  \* MIN_SEND_INTERVAL_MS
  Jitter,           \* how late the sidecar's event loop may run a timer
  MaxDelay,         \* how long the network may hold a command
  MaxWire           \* bound: commands one connection carries at once

ASSUME SidecarLinkAssumption ==
  /\ Intervals \subseteq Nat \ {0}
  /\ MinSendInterval \in Nat \ {0}
  /\ Jitter \in Nat
  /\ MaxDelay \in Nat
  /\ MaxWire \in Nat

VARIABLES
  phase,          \* how far Sidecar.start() has come, or that it is gone
  healthy,        \* runner.currentHealthy
  drainInterval,  \* runner.currentDrainInterval
  sendInterval,   \* the period of sendTimer, fixed when start() arms it
  sendLeft,       \* the latest time from now at which sendTimer fires
  connected,      \* connection.connected
  wire,           \* the commands on the connection, oldest first
  residue,        \* the commands left over from connections that dropped
  out,            \* the server's keys out of rotation at the load balancer
  lease           \* the ticks left of its lease

sidecar == <<phase, healthy, drainInterval, sendInterval, sendLeft>>
link == <<connected, wire, residue>>
balancer == <<out, lease>>
vars == <<sidecar, link, balancer>>

Key == "server"

Lease == INSTANCE DrainLease WITH Keys <- {Key}, Leases <- Intervals

\* A command: DRAIN:lease when lease > 0, RESUME when lease = 0, and the time
\* within which it arrives.
Command == [lease : Intervals \union {0}, ttl : 0..MaxDelay]

DrainFor(d) == [lease |-> d, ttl |-> MaxDelay]
ResumeNow == [lease |-> 0, ttl |-> MaxDelay]

Phases == {"connecting", "starting", "running", "stopped"}

TypeOK ==
  /\ phase \in Phases
  /\ healthy \in BOOLEAN
  /\ drainInterval \in Intervals
  /\ sendInterval \in Nat
  /\ sendLeft \in Nat
  /\ connected \in BOOLEAN
  /\ wire \in Seq(Command)
  /\ residue \in Seq(Command)
  /\ out \subseteq {Key}
  /\ lease \in [{Key} -> Nat]

Init ==
  /\ phase = "connecting"
  /\ healthy = TRUE
  /\ drainInterval \in Intervals
  /\ sendInterval = 0
  /\ sendLeft = 0
  /\ connected = FALSE
  /\ wire = <<>>
  /\ residue = <<>>
  /\ Lease!Init

-----------------------------------------------------------------------------
(* The sidecar *)

\* sendCurrentState() for a runner state, through LbConnection.write(): the
\* command is dropped without a trace while the connection is down.
SendState(isHealthy, d) ==
  IF connected
  THEN /\ Len(wire) < MaxWire
       /\ wire' = Append(wire, IF isHealthy THEN ResumeNow ELSE DrainFor(d))
  ELSE UNCHANGED wire

\* connect() has resolved, connected or not, and runner.start() has run.
StartRunner ==
  /\ phase = "connecting"
  /\ phase' = "starting"
  /\ UNCHANGED <<healthy, drainInterval, sendInterval, sendLeft, link, balancer>>

Half(d) == d \div 2

\* A fault: the state is repeated once per drain interval, not twice.
SendIntervalWhole(d) == d

\* sendInterval is computed once, from the drain interval of this moment.
SendIntervalFor(d) == IF Half(d) > MinSendInterval THEN Half(d) ELSE MinSendInterval

\* metricsServer.start() has resolved: the listener for stateChange is attached
\* and the send timer armed.  Nothing is sent yet.
StartSending ==
  /\ phase = "starting"
  /\ phase' = "running"
  /\ sendInterval' = SendIntervalFor(drainInterval)
  /\ sendLeft' = sendInterval' + Jitter
  /\ UNCHANGED <<healthy, drainInterval, link, balancer>>

\* runChecks(): allHealthy is what the checks answer and d the new drain
\* interval.  A transition is sent only once the listener is attached.
RunChecks(allHealthy, d) ==
  /\ phase \in {"starting", "running"}
  /\ drainInterval' = d
  /\ healthy' = allHealthy
  /\ IF allHealthy # healthy /\ phase = "running"
     THEN SendState(allHealthy, d)
     ELSE UNCHANGED wire
  /\ UNCHANGED <<phase, sendInterval, sendLeft, connected, residue, balancer>>

\* A fault: transitions are sent, and the redundant send is not.
HeartbeatSilent ==
  /\ phase = "running"
  /\ sendLeft <= Jitter
  /\ sendLeft' = sendInterval + Jitter
  /\ UNCHANGED <<phase, healthy, drainInterval, sendInterval, link, balancer>>

\* sendTimer fires, up to Jitter late.
Heartbeat ==
  /\ phase = "running"
  /\ sendLeft <= Jitter
  /\ SendState(healthy, drainInterval)
  /\ sendLeft' = sendInterval + Jitter
  /\ UNCHANGED <<phase, healthy, drainInterval, sendInterval, connected, residue, balancer>>

\* The connection ends; any number of its oldest commands may still arrive.
Drop ==
  /\ connected' = FALSE
  /\ wire' = <<>>
  /\ \E n \in 0..Len(wire) :
       /\ Len(residue) + n <= MaxWire
       /\ residue' = residue \o SubSeq(wire, 1, n)

\* stop(), or the process is killed: the timers are gone and the socket with
\* them.  stop() sends no RESUME.
Stop ==
  /\ phase # "stopped"
  /\ phase' = "stopped"
  /\ Drop
  /\ UNCHANGED <<healthy, drainInterval, sendInterval, sendLeft, balancer>>

\* The container runs the sidecar again.
Restart ==
  /\ phase = "stopped"
  /\ phase' = "connecting"
  /\ healthy' = TRUE
  /\ drainInterval' \in Intervals
  /\ UNCHANGED <<sendInterval, sendLeft, link, balancer>>

-----------------------------------------------------------------------------
(* The connection *)

\* The connection is established, at first or by the reconnect loop.  Nothing
\* is sent on it before the next heartbeat or transition.
LinkUp ==
  /\ phase # "stopped"
  /\ ~connected
  /\ connected' = TRUE
  /\ UNCHANGED <<sidecar, wire, residue, balancer>>

LinkDown ==
  /\ connected
  /\ Drop
  /\ UNCHANGED <<sidecar, balancer>>

\* The load balancer restarts: its drain state and every connection are gone.
BalancerRestart ==
  /\ connected' = FALSE
  /\ wire' = <<>>
  /\ residue' = <<>>
  /\ Lease!ResumeAll
  /\ UNCHANGED sidecar

\* What parseLine() does with a command of either connection.
Obey(command) ==
  IF command.lease = 0 THEN Lease!Resume(Key) ELSE Lease!Drain(Key, command.lease)

Deliver ==
  /\ wire # <<>>
  /\ Obey(Head(wire))
  /\ wire' = Tail(wire)
  /\ UNCHANGED <<sidecar, connected, residue>>

DeliverResidue ==
  /\ residue # <<>>
  /\ Obey(Head(residue))
  /\ residue' = Tail(residue)
  /\ UNCHANGED <<sidecar, connected, wire>>

\* A fault: the lease ends only while its sidecar is there.
AutoResumeIfConnected ==
  /\ connected
  /\ Lease!Expire(Key)
  /\ UNCHANGED <<sidecar, link>>

\* The auto-resume timer of the load balancer.
AutoResume ==
  /\ Lease!Expire(Key)
  /\ UNCHANGED <<sidecar, link>>

-----------------------------------------------------------------------------
(* The clock *)

Age(commands) ==
  [i \in 1..Len(commands) |-> [lease |-> commands[i].lease, ttl |-> commands[i].ttl - 1]]

\* Time stands still for a heartbeat or a command that can wait no longer.
Tick ==
  /\ phase = "running" => sendLeft > 0
  /\ \A i \in DOMAIN wire : wire[i].ttl > 0
  /\ \A i \in DOMAIN residue : residue[i].ttl > 0
  /\ sendLeft' = IF phase = "running" THEN sendLeft - 1 ELSE sendLeft
  /\ wire' = Age(wire)
  /\ residue' = Age(residue)
  /\ Lease!Tick
  /\ UNCHANGED <<phase, healthy, drainInterval, sendInterval, connected>>

Next ==
  \/ StartRunner
  \/ StartSending
  \/ \E allHealthy \in BOOLEAN, d \in Intervals : RunChecks(allHealthy, d)
  \/ Heartbeat
  \/ Stop
  \/ Restart
  \/ LinkUp
  \/ LinkDown
  \/ BalancerRestart
  \/ Deliver
  \/ DeliverResidue
  \/ AutoResume
  \/ Tick

\* Timers fire, the clock runs, the network delivers and the reconnect loop
\* gets through.  The health checks, a drop, a stop and a restart are
\* never owed.
Fairness ==
  /\ WF_vars(StartRunner)
  /\ WF_vars(StartSending)
  /\ WF_vars(Heartbeat)
  /\ WF_vars(LinkUp)
  /\ WF_vars(Deliver)
  /\ WF_vars(DeliverResidue)
  /\ WF_vars(AutoResume)
  /\ WF_vars(Tick)

Spec == Init /\ [][Next]_vars /\ Fairness

-----------------------------------------------------------------------------
(* Properties *)

\* The safety net: a sidecar that is gone for good, stopped or killed at any
\* point and whatever it had sent, leaves its server in rotation.
GoneReleases == <>[](phase = "stopped") => <>[](out = {})

\* Eventual agreement: while the sidecar runs connected and its verdict stays
\* the same, the load balancer comes to act on it and goes on doing so,
\* whatever was dropped, left over or never sent before.
Settled == phase = "running" /\ connected

Agreement ==
  /\ <>[](Settled /\ healthy) => <>[](out = {})
  /\ <>[](Settled /\ ~healthy) => <>[](out = {Key})
=============================================================================
