----------------------- MODULE SidecarProcess_proofs ------------------------
(***************************************************************************)
(* The safety of the sidecar's process, for any sockets, timers, backoff   *)
(* and configuration, and however often connect() and stop() follow each   *)
(* other: one connection attempt, nothing after stop(), a DRAIN that lasts *)
(* as long as the failure it stands for.                                   *)
(***************************************************************************)
EXTENDS SidecarProcess, Sequences, FiniteSetTheorems, TLAPS

LiveSocket(s) == phase[s] \in {"connecting", "open"}

\* What can still act is what this.socket and this.reconnectTimer hold, and there
\* is never both a socket and a timer.
Held ==
  /\ \A s \in Sockets : LiveSocket(s) => socket = s
  /\ \A t \in armed : reconnectTimer = t
  /\ \A s \in Sockets : LiveSocket(s) => armed = {}

\* From connect() to disconnect() there is one of them, outside neither.
Trying == (\E s \in Sockets : LiveSocket(s)) \/ armed # {}

TryingUnlessStopped == Trying <=> connects > 0 /\ ~stopped

\* Only disconnect() destroys a socket, and connect() waits for its 'close'.
ClosingWhenStopped == \A s \in Sockets : phase[s] = "closing" => stopped

ConnectedIsOpen == isConnected => socket \in Sockets /\ phase[socket] = "open"

ConnectionInv ==
  /\ Connection!TypeOK
  /\ Held
  /\ TryingUnlessStopped
  /\ ClosingWhenStopped
  /\ ConnectedIsOpen

RunningUnlessStopped == stopped => ~running /\ ~sending

\* A failure under way lasts no longer than the duration it was given.
FailureTypes ==
  /\ checks \in Seq(Runner!Kinds)
  /\ failing \in BOOLEAN /\ transitionIn \in Nat /\ failure \in Nat
  /\ failing => failure > 0 /\ failure >= transitionIn

FailureInv == FailureTypes /\ drainInterval \in Nat /\ Runner!DrainCoversFailure

PInv == ConnectionInv /\ RunningUnlessStopped /\ FailureInv

-----------------------------------------------------------------------------
(* The connection *)

\* Each delay is at least the first and at most the longest one.
LEMMA DelayFacts ==
  /\ MaxConnects \in Nat /\ InitialDelay \in InitialDelay..MaxDelay
  /\ None \notin Sockets /\ None \notin Timers
  /\ \A d \in InitialDelay..MaxDelay : Connection!Backoff(d) \in InitialDelay..MaxDelay
BY SidecarProcessAssumption DEF Connection!Parameters, Connection!Backoff

LEMMA StartConnectionInv ==
  ASSUME ConnectionInv, Connection!Connect
  PROVE  ConnectionInv' /\ ~stopped'
<1>1. PICK s \in Sockets : Connection!OpenSocket(s) /\ awaiting' = awaiting \union {s}
  BY DEF Connection!Connect
<1>2. /\ phase' = [phase EXCEPT ![s] = "connecting"] /\ socket' = s
      /\ stopped' = FALSE /\ connects' = connects + 1
      /\ UNCHANGED <<isConnected, armed, reconnectTimer, reconnectDelay>>
      /\ connects < MaxConnects /\ (connects = 0 \/ stopped)
      /\ \A x \in Sockets : phase[x] # "closing"
  BY <1>1 DEF Connection!Connect, Connection!OpenSocket
<1>3. connects \in Nat /\ connects' \in 0..MaxConnects /\ connects' > 0
  BY <1>2, DelayFacts DEF ConnectionInv, Connection!TypeOK
<1>4. armed = {} /\ \A x \in Sockets : ~LiveSocket(x)
  BY <1>2, <1>3 DEF ConnectionInv, TryingUnlessStopped, Trying
<1>5. ~isConnected
  BY <1>4 DEF ConnectionInv, ConnectedIsOpen, LiveSocket
<1>6. phase'[s] = "connecting" /\ \A x \in Sockets \ {s} : phase'[x] = phase[x]
  BY <1>2 DEF ConnectionInv, Connection!TypeOK
<1>7. Connection!TypeOK'
  BY <1>1, <1>2, <1>3 DEF ConnectionInv, Connection!TypeOK
<1>8. Held'
  BY <1>2, <1>4, <1>6 DEF Held, LiveSocket
<1>9. TryingUnlessStopped'
  BY <1>2, <1>3, <1>6 DEF TryingUnlessStopped, Trying, LiveSocket
<1>10. ClosingWhenStopped' /\ ConnectedIsOpen'
  BY <1>2, <1>5, <1>6 DEF ClosingWhenStopped, ConnectedIsOpen
<1>11. QED
  BY <1>2, <1>7, <1>8, <1>9, <1>10 DEF ConnectionInv

LEMMA DisconnectConnectionInv ==
  ASSUME ConnectionInv, Connection!Disconnect
  PROVE  ConnectionInv' /\ stopped'
<1>1. /\ connects > 0 /\ stopped' = TRUE /\ socket' = None /\ isConnected' = FALSE
      /\ armed' = armed \ {reconnectTimer} /\ reconnectTimer' = None
      /\ phase' = [s \in Sockets |-> IF s = socket THEN "closing" ELSE phase[s]]
      /\ UNCHANGED <<connects, reconnectDelay, awaiting>>
  BY DEF Connection!Disconnect
<1>2. armed' = {}
  BY <1>1 DEF ConnectionInv, Held
<1>3. \A s \in Sockets : ~LiveSocket(s)'
  BY <1>1 DEF ConnectionInv, Held, LiveSocket
<1>4. Connection!TypeOK'
  BY <1>1, <1>2 DEF ConnectionInv, Connection!TypeOK
<1>5. Held' /\ TryingUnlessStopped'
  BY <1>1, <1>2, <1>3 DEF Held, TryingUnlessStopped, Trying
<1>6. ClosingWhenStopped' /\ ConnectedIsOpen'
  BY <1>1 DEF ClosingWhenStopped, ConnectedIsOpen
<1>7. QED
  BY <1>1, <1>4, <1>5, <1>6 DEF ConnectionInv

\* The 'close' of the socket in use starts the reconnect timer, that of a
\* destroyed one finds stopped set and does nothing more.
LEMMA HandleCloseConnectionInv ==
  ASSUME ConnectionInv, NEW s \in Sockets, phase[s] # "free", Connection!HandleClose(s),
         awaiting' \subseteq awaiting
  PROVE  ConnectionInv' /\ stopped' = stopped
<1>1. /\ phase' = [phase EXCEPT ![s] = "free"] /\ isConnected' = FALSE /\ socket' = None
      /\ Connection!ScheduleReconnect /\ stopped' = stopped /\ connects' = connects
  BY DEF Connection!HandleClose
<1>2. phase'[s] = "free" /\ \A x \in Sockets \ {s} : phase'[x] = phase[x]
  BY <1>1 DEF ConnectionInv, Connection!TypeOK
<1>3. phase[s] = "closing" \/ LiveSocket(s)
  BY DEF ConnectionInv, Connection!TypeOK, LiveSocket
<1>4. stopped <=> phase[s] = "closing"
  BY <1>3 DEF ConnectionInv, ClosingWhenStopped, TryingUnlessStopped, Trying, LiveSocket
<1>5. \A x \in Sockets : ~LiveSocket(x)'
  BY <1>2, <1>3, <1>4 DEF ConnectionInv, Held, TryingUnlessStopped, Trying, LiveSocket
<1>6. ClosingWhenStopped' /\ ConnectedIsOpen'
  BY <1>1, <1>2 DEF ConnectionInv, ClosingWhenStopped, ConnectedIsOpen
<1>7. CASE stopped
  <2>1. UNCHANGED <<armed, reconnectTimer, reconnectDelay>> /\ armed = {}
    BY <1>1, <1>7 DEF Connection!ScheduleReconnect, ConnectionInv, TryingUnlessStopped, Trying
  <2>2. Connection!TypeOK'
    BY <1>1, <2>1 DEF ConnectionInv, Connection!TypeOK
  <2>3. Held' /\ TryingUnlessStopped'
    BY <1>1, <1>5, <1>7, <2>1 DEF Held, TryingUnlessStopped, Trying
  <2>4. QED
    BY <1>1, <1>6, <2>2, <2>3 DEF ConnectionInv
<1>8. CASE ~stopped
  <2>1. LiveSocket(s) /\ armed = {} /\ connects > 0
    BY <1>3, <1>4, <1>8 DEF ConnectionInv, Held, TryingUnlessStopped, Trying
  <2>2. PICK t \in Timers : /\ armed' = {t} /\ reconnectTimer' = t
                            /\ reconnectDelay' = Connection!Backoff(reconnectDelay)
    BY <1>1, <1>8, <2>1 DEF Connection!ScheduleReconnect
  <2>3. Connection!TypeOK'
    BY <1>1, <2>2, DelayFacts DEF ConnectionInv, Connection!TypeOK
  <2>4. Held' /\ TryingUnlessStopped'
    BY <1>1, <1>5, <1>8, <2>1, <2>2 DEF Held, TryingUnlessStopped, Trying
  <2>5. QED
    BY <1>1, <1>6, <2>3, <2>4 DEF ConnectionInv
<1>9. QED
  BY <1>7, <1>8

LEMMA OnConnectConnectionInv ==
  ASSUME ConnectionInv, NEW s \in Sockets, Connection!OnConnect(s)
  PROVE  ConnectionInv' /\ stopped' = stopped
<1>1. /\ phase[s] = "connecting" /\ phase' = [phase EXCEPT ![s] = "open"]
      /\ isConnected' = TRUE /\ reconnectDelay' = InitialDelay
      /\ awaiting' = awaiting \ {s}
      /\ UNCHANGED <<socket, armed, reconnectTimer, stopped, connects>>
  BY DEF Connection!OnConnect
<1>2. phase'[s] = "open" /\ \A x \in Sockets \ {s} : phase'[x] = phase[x]
  BY <1>1 DEF ConnectionInv, Connection!TypeOK
<1>3. LiveSocket(s) /\ socket = s
  BY <1>1 DEF ConnectionInv, Held, LiveSocket
<1>4. \A x \in Sockets : LiveSocket(x)' <=> LiveSocket(x)
  BY <1>1, <1>2 DEF LiveSocket
<1>5. Connection!TypeOK'
  BY <1>1, DelayFacts DEF ConnectionInv, Connection!TypeOK
<1>6. Held' /\ TryingUnlessStopped'
  BY <1>1, <1>4 DEF ConnectionInv, Held, TryingUnlessStopped, Trying
<1>7. ClosingWhenStopped' /\ ConnectedIsOpen'
  BY <1>1, <1>2, <1>3 DEF ConnectionInv, ClosingWhenStopped, ConnectedIsOpen
<1>8. QED
  BY <1>1, <1>5, <1>6, <1>7 DEF ConnectionInv

LEMMA ReconnectConnectionInv ==
  ASSUME ConnectionInv, NEW t \in Timers, Connection!OnReconnectTimer(t)
  PROVE  ConnectionInv' /\ stopped' = stopped
<1>1. /\ t \in armed /\ armed' = armed \ {t} /\ reconnectTimer' = None
      /\ UNCHANGED <<isConnected, reconnectDelay, stopped, awaiting, connects>>
  BY DEF Connection!OnReconnectTimer
<1>2. connects > 0 /\ ~stopped /\ \A x \in Sockets : ~LiveSocket(x)
  BY <1>1 DEF ConnectionInv, Held, TryingUnlessStopped, Trying
<1>3. armed' = {}
  BY <1>1 DEF ConnectionInv, Held
<1>4. PICK s \in Sockets : Connection!OpenSocket(s)
  BY <1>2 DEF Connection!OnReconnectTimer
<1>5. phase' = [phase EXCEPT ![s] = "connecting"] /\ socket' = s
  BY <1>4 DEF Connection!OpenSocket
<1>6. phase'[s] = "connecting" /\ \A x \in Sockets \ {s} : phase'[x] = phase[x]
  BY <1>5 DEF ConnectionInv, Connection!TypeOK
<1>7. ~isConnected
  BY <1>2 DEF ConnectionInv, ConnectedIsOpen, LiveSocket
<1>8. Connection!TypeOK'
  BY <1>1, <1>3, <1>5 DEF ConnectionInv, Connection!TypeOK
<1>9. Held' /\ TryingUnlessStopped'
  BY <1>1, <1>2, <1>3, <1>5, <1>6 DEF Held, TryingUnlessStopped, Trying, LiveSocket
<1>10. ClosingWhenStopped' /\ ConnectedIsOpen'
  BY <1>1, <1>6, <1>7 DEF ConnectionInv, ClosingWhenStopped, ConnectedIsOpen
<1>11. QED
  BY <1>1, <1>8, <1>9, <1>10 DEF ConnectionInv

LEMMA UnchangedConnectionInv ==
  ASSUME ConnectionInv, UNCHANGED connecting
  PROVE  ConnectionInv' /\ stopped' = stopped
BY DEF connecting, ConnectionInv, Connection!TypeOK, Held, TryingUnlessStopped, Trying,
       ClosingWhenStopped, ConnectedIsOpen, LiveSocket

-----------------------------------------------------------------------------
(* The checks *)

\* The longest drain interval of the configured checks is at least each of them.
LEMMA MaxDrainIntervalFacts ==
  ASSUME checks \in Seq(Runner!Kinds), failure \in Nat
  PROVE  /\ Runner!MaxDrainInterval \in Nat
         /\ \A kind \in Runner!ToSet(checks) : Runner!MaxDrainInterval >= Runner!DrainOf(kind)
<1> DEFINE S == {0} \union {Runner!DrainOf(kind) : kind \in Runner!ToSet(checks)}
           a == Runner!DrainOf("always_healthy")
           f == Runner!DrainOf("random_failure")
           r == Runner!DrainOf("random")
<1>1. a \in Nat /\ f \in Nat /\ r \in Nat
  BY SidecarProcessAssumption DEF Runner!Parameters, Runner!DrainOf, Runner!FailureDrain
<1>2. \A kind \in Runner!ToSet(checks) : kind \in {"always_healthy", "random_failure", "random"}
  BY DEF Runner!ToSet, Runner!Kinds
<1>3. 0 \in S /\ S \subseteq {0, a, f, r}
  BY <1>2
<1> HIDE DEF a, f, r
<1>4. \E x \in S : \A y \in S : x >= y
  <2> HIDE DEF S
  <2>1. CASE \E x \in S : x >= a /\ x >= f /\ x >= r
    BY <1>1, <1>3, <2>1
  <2>2. QED
    BY <1>1, <1>3, <2>1
<1>5. Runner!Max(S) \in S /\ \A y \in S : Runner!Max(S) >= y
  BY <1>4 DEF Runner!Max
<1>6. S \subseteq Nat
  BY <1>1, <1>3
<1>7. QED
  BY <1>5, <1>6 DEF Runner!MaxDrainInterval
LEMMA FailureDrainCovers ==
  FailureTypes /\ drainInterval = Runner!MaxDrainInterval => FailureInv
<1> SUFFICES ASSUME FailureTypes, drainInterval = Runner!MaxDrainInterval
             PROVE  FailureInv
  OBVIOUS
<1>1. Runner!MaxDrainInterval \in Nat
  BY MaxDrainIntervalFacts DEF FailureTypes
<1>2. ASSUME Runner!Configured("random_failure"), failing
      PROVE  drainInterval >= transitionIn
  <2>1. Runner!MaxDrainInterval >= Runner!DrainOf("random_failure")
    BY <1>2, MaxDrainIntervalFacts DEF FailureTypes, Runner!Configured
  <2>2. Runner!DrainOf("random_failure") = failure
    BY <1>2 DEF Runner!DrainOf, Runner!FailureDrain, FailureTypes
  <2>3. QED
    BY <1>1, <1>2, <2>1, <2>2 DEF FailureTypes
<1>3. QED
  BY <1>1, <1>2 DEF FailureInv, Runner!DrainCoversFailure

LEMMA RunChecksFailureInv ==
  ASSUME FailureInv, Runner!RunChecks
  PROVE  FailureInv'
<1>1. /\ checks' = checks /\ drainInterval' = Runner!MaxDrainInterval'
      /\ Runner!PollFailure \/ UNCHANGED <<failing, transitionIn, failure>>
  BY DEF Runner!RunChecks, Runner!Verdict, Runner!random_failure
<1>2. FailureTypes'
  <2>1. HealthyPeriods \subseteq Nat /\ \A d \in FailurePeriods : d \in Nat /\ d > 0
    BY SidecarProcessAssumption DEF Runner!Parameters
  <2>2. CASE UNCHANGED <<failing, transitionIn, failure>>
    BY <1>1, <2>2 DEF FailureInv, FailureTypes
  <2>3. CASE Runner!PollFailure /\ transitionIn = 0 /\ failing
    <3>1. failing' = FALSE /\ failure' = 0 /\ transitionIn' \in HealthyPeriods
      BY <2>3 DEF Runner!PollFailure
    <3>2. QED
      BY <1>1, <2>1, <3>1 DEF FailureInv, FailureTypes
  <2>4. CASE Runner!PollFailure /\ transitionIn = 0 /\ ~failing
    <3>1. failing' = TRUE /\ failure' \in FailurePeriods /\ transitionIn' = failure'
      BY <2>4 DEF Runner!PollFailure
    <3>2. QED
      BY <1>1, <2>1, <3>1 DEF FailureInv, FailureTypes
  <2>5. CASE Runner!PollFailure /\ transitionIn > 0
    BY <2>2, <2>5 DEF Runner!PollFailure, Runner!random_failure
  <2>6. transitionIn > 0 \/ transitionIn = 0
    BY DEF FailureInv, FailureTypes
  <2>7. QED
    BY <1>1, <2>2, <2>3, <2>4, <2>5, <2>6
<1>3. (FailureTypes /\ drainInterval = Runner!MaxDrainInterval => FailureInv)'
  BY FailureDrainCovers, PTL
<1>4. QED
  BY <1>1, <1>2, <1>3

\* Time passes: the failure has less time still to run.
LEMMA TickFailureInv ==
  ASSUME FailureInv, Runner!Tick
  PROVE  FailureInv'
BY DEF FailureInv, FailureTypes, Runner!Tick, Runner!DrainCoversFailure, Runner!Configured,
       Runner!ToSet, Runner!runner

LEMMA UnchangedFailureInv ==
  ASSUME FailureInv, UNCHANGED checking
  PROVE  FailureInv'
BY DEF checking, FailureInv, FailureTypes, Runner!DrainCoversFailure, Runner!Configured,
       Runner!ToSet
-----------------------------------------------------------------------------
(* The process *)

LEMMA InitPInv == Init => PInv
<1> SUFFICES ASSUME Init PROVE PInv
  OBVIOUS
<1>1. Connection!TypeOK
  <2>1. Connection!Init
    BY DEF Init
  <2>2. InitialDelay \in InitialDelay..MaxDelay /\ 0 \in 0..MaxConnects
    BY DelayFacts
  <2>3. phase \in [Sockets -> {"free", "connecting", "open", "closing"}]
    BY <2>1 DEF Connection!Init
  <2>4. QED
    BY <2>1, <2>2, <2>3 DEF Connection!Init, Connection!TypeOK
<1>2. Held /\ TryingUnlessStopped /\ ClosingWhenStopped /\ ConnectedIsOpen
  BY DEF Init, Connection!Init, Held, TryingUnlessStopped, Trying, ClosingWhenStopped, ConnectedIsOpen, LiveSocket
<1>3. FailureTypes
  <2>1. Configs \subseteq Seq(Runner!Kinds) /\ HealthyPeriods \subseteq Nat
    BY SidecarProcessAssumption DEF Runner!Parameters
  <2>2. QED
    BY <2>1 DEF Init, Runner!Init, FailureTypes
<1>4. FailureInv
  BY <1>3, FailureDrainCovers DEF Init, Runner!Init
<1>5. QED
  BY <1>1, <1>2, <1>4 DEF Init, PInv, ConnectionInv, RunningUnlessStopped

LEMMA StartPInv ==
  ASSUME PInv, Start
  PROVE  PInv'
BY StartConnectionInv, UnchangedFailureInv DEF Start, PInv, RunningUnlessStopped

\* An event of the connection that stop() did not end: what start() does behind it
\* finds stopped clear.
LEMMA EventPInv ==
  ASSUME PInv, ConnectionInv', stopped' = stopped, UNCHANGED checking,
         IF Resolves THEN Proceed ELSE UNCHANGED <<sidecar, ended>>
  PROVE  PInv'
<1>1. FailureInv'
  BY UnchangedFailureInv DEF PInv
<1>2. RunningUnlessStopped'
  <2>1. CASE Resolves
    BY <2>1 DEF Resolves, RunningUnlessStopped
  <2>2. CASE ~Resolves
    BY <2>2 DEF sidecar, PInv, RunningUnlessStopped
  <2>3. QED
    BY <2>1, <2>2
<1>3. QED
  BY <1>1, <1>2 DEF PInv

LEMMA AttemptedPInv ==
  ASSUME PInv, NEW s \in Sockets, Attempted(s)
  PROVE  PInv'
<1>1. ConnectionInv
  BY DEF PInv
<1>2. CASE Connection!OnConnect(s)
  BY <1>1, <1>2, OnConnectConnectionInv, EventPInv DEF Attempted, Event
<1>3. CASE Connection!OnConnectError(s)
  <2>1. /\ Connection!HandleClose(s) /\ phase[s] # "free" /\ awaiting' \subseteq awaiting
    BY <1>3 DEF Connection!OnConnectError
  <2>2. QED
    BY <1>1, <2>1, HandleCloseConnectionInv, EventPInv DEF Attempted, Event
<1>4. QED
  BY <1>2, <1>3 DEF Attempted, Event

LEMMA ClosedPInv ==
  ASSUME PInv, NEW s \in Sockets, PeerClosed(s) \/ Destroyed(s)
  PROVE  PInv'
<1>1. ConnectionInv
  BY DEF PInv
<1>2. /\ Connection!HandleClose(s) /\ phase[s] # "free" /\ awaiting' \subseteq awaiting
  BY DEF PeerClosed, Destroyed, Event, Connection!OnPeerClose, Connection!OnDestroyed
<1>3. QED
  BY <1>1, <1>2, HandleCloseConnectionInv, EventPInv DEF PeerClosed, Destroyed, Event

LEMMA ReconnectPInv ==
  ASSUME PInv, NEW t \in Timers, Reconnect(t)
  PROVE  PInv'
<1>1. ConnectionInv
  BY DEF PInv
<1>2. QED
  BY <1>1, ReconnectConnectionInv, EventPInv DEF Reconnect, Event

LEMMA CheckPInv ==
  ASSUME PInv, Check
  PROVE  PInv'
BY UnchangedConnectionInv, RunChecksFailureInv DEF Check, PInv, RunningUnlessStopped, sidecar

LEMMA ClockPInv ==
  ASSUME PInv, Clock
  PROVE  PInv'
BY UnchangedConnectionInv, TickFailureInv DEF Clock, PInv, RunningUnlessStopped, sidecar

LEMMA SignalPInv ==
  ASSUME PInv, Signal
  PROVE  PInv'
BY DisconnectConnectionInv, UnchangedFailureInv DEF Signal, Stop, PInv, RunningUnlessStopped

LEMMA ExitPInv ==
  ASSUME PInv, Exit \/ UNCHANGED vars
  PROVE  PInv'
BY UnchangedConnectionInv, UnchangedFailureInv
   DEF Exit, vars, PInv, RunningUnlessStopped, sidecar

LEMMA NextPInv ==
  ASSUME PInv, [Next]_vars
  PROVE  PInv'
BY StartPInv, AttemptedPInv, ClosedPInv, ReconnectPInv, CheckPInv, ClockPInv, SignalPInv, ExitPInv
   DEF Next

LEMMA AlwaysPInv == Spec => []PInv
BY InitPInv, NextPInv, PTL DEF Spec

-----------------------------------------------------------------------------
(* The theorems *)

\* The backoff stays between its first and its longest delay.
THEOREM ConnectionTypes == Spec => []Connection!TypeOK
<1>1. PInv => Connection!TypeOK
  BY DEF PInv, ConnectionInv
<1>2. QED
  BY <1>1, AlwaysPInv, PTL

\* From connect() to disconnect() exactly one socket or one reconnect timer is
\* under way, and the sidecar holds it.
THEOREM ExactlyOneAttempt == Spec => []OneAttempt
<1>1. ASSUME PInv, connects > 0, ~stopped
      PROVE  /\ Cardinality({s \in Sockets : Connection!Live(s)}) + Cardinality(armed) = 1
             /\ \A s \in Sockets : Connection!Live(s) => socket = s
             /\ \A t \in armed : reconnectTimer = t
  <2> DEFINE live == {s \in Sockets : Connection!Live(s)}
  <2>1. /\ \A s \in Sockets : Connection!Live(s) <=> LiveSocket(s)
        /\ Held /\ Trying
    BY <1>1 DEF PInv, ConnectionInv, TryingUnlessStopped, Connection!Live, LiveSocket
  <2>2. CASE \E s \in Sockets : LiveSocket(s)
    <3>1. live = {socket} /\ armed = {}
      BY <2>1, <2>2 DEF Held
    <3>2. Cardinality(live) = 1 /\ Cardinality(armed) = 0
      BY <3>1, FS_Singleton, FS_EmptySet
    <3>3. QED
      BY <2>1, <3>2 DEF Held
  <2>3. CASE ~\E s \in Sockets : LiveSocket(s)
    <3>1. live = {} /\ armed = {reconnectTimer}
      BY <2>1, <2>3 DEF Held, Trying
    <3>2. Cardinality(live) = 0 /\ Cardinality(armed) = 1
      BY <3>1, FS_Singleton, FS_EmptySet
    <3>3. QED
      BY <2>1, <3>2 DEF Held
  <2>4. QED
    BY <2>2, <2>3
<1>2. PInv => OneAttempt
  BY <1>1 DEF OneAttempt, Connection!OneAttempt, Connection!Cardinality, Cardinality
<1>3. QED
  BY <1>2, AlwaysPInv, PTL

\* Whatever was under way when the signal came, nothing acts behind stop().
THEOREM NothingAfterStop == Spec => []StopIsFinal
<1>1. PInv => StopIsFinal
  BY DEF PInv, ConnectionInv, TryingUnlessStopped, Trying, RunningUnlessStopped, LiveSocket,
         StopIsFinal, Connection!Quiet, Connection!Live
<1>2. QED
  BY <1>1, AlwaysPInv, PTL

\* A connected sidecar has an open socket to write its commands to.
THEOREM ConnectedHasSocket == Spec => []WriteIfConnected
<1>1. PInv => WriteIfConnected
  BY DelayFacts DEF PInv, ConnectionInv, ConnectedIsOpen, WriteIfConnected,
                    Connection!WriteIfConnected
<1>2. QED
  BY <1>1, AlwaysPInv, PTL

\* For any list of checks and any durations: the drain interval of an unhealthy
\* sidecar lasts until its failure is over.
THEOREM DrainOutlastsFailure == Spec => []DrainCoversFailure
<1>1. PInv => DrainCoversFailure
  BY DEF PInv, FailureInv, DrainCoversFailure
<1>2. QED
  BY <1>1, AlwaysPInv, PTL
=============================================================================
