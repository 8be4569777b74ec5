---------------------------- MODULE LbConnection ----------------------------
(***************************************************************************)
(* lb/sidecar/src/lb_connection.ts: the sidecar's TCP connection to the    *)
(* load balancer, with its reconnect timer and exponential backoff.  Its   *)
(* steps are put together in SidecarProcess.                               *)
(*                                                                         *)
(* One action per event handler and per method.  A net.Socket is an id     *)
(* with the phase Node has it in: destroy() makes it "closing" at once and *)
(* its 'close' event comes in a later turn of the event loop; a failed     *)
(* attempt emits 'error' and 'close' in one turn.                          *)
(***************************************************************************)
EXTENDS Naturals, FiniteSets

CONSTANTS
  Sockets,       \* bound: sockets that exist at once, ids are reused
  Timers,        \* bound: reconnect timers that are armed at once
  InitialDelay,  \* INITIAL_RECONNECT_DELAY_MS, in units of it
  MaxDelay,      \* MAX_RECONNECT_DELAY_MS
  MaxConnects,   \* bound: calls of connect(); sidecar.ts makes one
  None           \* the null of socket and reconnectTimer

Parameters ==
  /\ InitialDelay \in Nat \ {0}
  /\ MaxDelay \in Nat
  /\ InitialDelay <= MaxDelay
  /\ MaxConnects \in Nat
  /\ None \notin Sockets \union Timers

VARIABLES
  phase,           \* what Node has done with each socket
  socket,          \* this.socket
  isConnected,     \* this.isConnected
  armed,           \* the reconnect timers that will still fire
  reconnectTimer,  \* this.reconnectTimer
  reconnectDelay,  \* this.reconnectDelay
  stopped,         \* this.stopped
  awaiting,        \* the sockets that hold an uncalled onFirstConnect
  connects         \* calls of connect() made so far

TypeOK ==
  /\ phase \in [Sockets -> {"free", "connecting", "open", "closing"}]
  /\ socket \in Sockets \union {None}
  /\ isConnected \in BOOLEAN
  /\ armed \subseteq Timers
  /\ reconnectTimer \in Timers \union {None}
  /\ reconnectDelay \in InitialDelay..MaxDelay
  /\ stopped \in BOOLEAN
  /\ awaiting \subseteq Sockets
  /\ connects \in 0..MaxConnects

Init ==
  /\ phase = [s \in Sockets |-> "free"]
  /\ socket = None
  /\ isConnected = FALSE
  /\ armed = {}
  /\ reconnectTimer = None
  /\ reconnectDelay = InitialDelay
  /\ stopped = FALSE
  /\ awaiting = {}
  /\ connects = 0

Backoff(d) == IF 2 * d < MaxDelay THEN 2 * d ELSE MaxDelay

\* net.createConnection(), and the assignment of the new socket.
OpenSocket(s) ==
  /\ phase[s] = "free"
  /\ phase' = [phase EXCEPT ![s] = "connecting"]
  /\ socket' = s

\* scheduleReconnect(): the timer is overwritten, never cleared.
ScheduleReconnect ==
  IF stopped
  THEN UNCHANGED <<armed, reconnectTimer, reconnectDelay>>
  ELSE \E t \in Timers \ armed :
         /\ armed' = armed \union {t}
         /\ reconnectTimer' = t
         /\ reconnectDelay' = Backoff(reconnectDelay)

\* A fault: the 'close' handler does not schedule a reconnect.
CloseGivesUp(s) ==
  /\ phase' = [phase EXCEPT ![s] = "free"]
  /\ isConnected' = FALSE
  /\ socket' = None
  /\ UNCHANGED <<armed, reconnectTimer, reconnectDelay, stopped, connects>>

\* The 'close' handler, of whichever socket it is called for.
HandleClose(s) ==
  /\ phase' = [phase EXCEPT ![s] = "free"]
  /\ isConnected' = FALSE
  /\ socket' = None
  /\ ScheduleReconnect
  /\ UNCHANGED <<stopped, connects>>

-----------------------------------------------------------------------------
(* Methods *)

\* connect(), called first or, once the socket disconnect() destroyed has closed,
\* again; sidecar.ts calls it once.  doConnect() cannot find stopped set, it has
\* just been cleared.
Connect ==
  /\ connects < MaxConnects
  /\ connects = 0 \/ stopped
  /\ \A s \in Sockets : phase[s] # "closing"
  /\ connects' = connects + 1
  /\ stopped' = FALSE
  /\ \E s \in Sockets :
       /\ OpenSocket(s)
       /\ awaiting' = awaiting \union {s}
  /\ UNCHANGED <<isConnected, armed, reconnectTimer, reconnectDelay>>

\* A fault: disconnect() leaves isConnected to the 'close' event.
DisconnectKeepsFlag ==
  /\ connects > 0
  /\ stopped' = TRUE
  /\ armed' = armed \ {reconnectTimer}
  /\ reconnectTimer' = None
  /\ phase' = [s \in Sockets |-> IF s = socket THEN "closing" ELSE phase[s]]
  /\ socket' = None
  /\ UNCHANGED <<isConnected, reconnectDelay, awaiting, connects>>

Disconnect ==
  /\ connects > 0
  /\ stopped' = TRUE
  /\ armed' = armed \ {reconnectTimer}
  /\ reconnectTimer' = None
  /\ phase' = [s \in Sockets |-> IF s = socket THEN "closing" ELSE phase[s]]
  /\ socket' = None
  /\ isConnected' = FALSE
  /\ UNCHANGED <<reconnectDelay, awaiting, connects>>

-----------------------------------------------------------------------------
(* Events *)

OnConnect(s) ==
  /\ phase[s] = "connecting"
  /\ phase' = [phase EXCEPT ![s] = "open"]
  /\ isConnected' = TRUE
  /\ reconnectDelay' = InitialDelay
  /\ awaiting' = awaiting \ {s}
  /\ UNCHANGED <<socket, armed, reconnectTimer, stopped, connects>>

\* A fault: a failed first attempt does not call onFirstConnect.
ConnectErrorSilent(s) ==
  /\ phase[s] = "connecting"
  /\ UNCHANGED awaiting
  /\ HandleClose(s)

\* The attempt is refused or times out: the 'error' handler, then 'close'.
OnConnectError(s) ==
  /\ phase[s] = "connecting"
  /\ awaiting' = awaiting \ {s}
  /\ HandleClose(s)

\* The load balancer, or the network, ends an established connection.
OnPeerClose(s) ==
  /\ phase[s] = "open"
  /\ HandleClose(s)
  /\ UNCHANGED awaiting

\* The 'close' event that a destroy() announced.  Nobody resolves a promise
\* this socket still held; its id may be used again.
OnDestroyed(s) ==
  /\ phase[s] = "closing"
  /\ HandleClose(s)
  /\ awaiting' = awaiting \ {s}

\* A fault: the reconnect timer does not call doConnect().
ReconnectTimerIdle(t) ==
  /\ t \in armed
  /\ armed' = armed \ {t}
  /\ reconnectTimer' = None
  /\ UNCHANGED <<phase, socket, isConnected, reconnectDelay, stopped, awaiting, connects>>

\* The reconnect timer runs doConnect().
OnReconnectTimer(t) ==
  /\ t \in armed
  /\ armed' = armed \ {t}
  /\ reconnectTimer' = None
  /\ IF stopped
     THEN UNCHANGED <<phase, socket>>
     ELSE \E s \in Sockets : OpenSocket(s)
  /\ UNCHANGED <<isConnected, reconnectDelay, stopped, awaiting, connects>>

-----------------------------------------------------------------------------
(* Properties *)

Live(s) == phase[s] \in {"connecting", "open"}

\* Between connect() and disconnect() exactly one thing is under way, a socket
\* that write() and disconnect() can reach or one reconnect timer that
\* disconnect() can clear.
OneAttempt ==
  (connects > 0 /\ ~stopped) =>
    /\ Cardinality({s \in Sockets : Live(s)}) + Cardinality(armed) = 1
    /\ \A s \in Sockets : Live(s) => socket = s
    /\ \A t \in armed : reconnectTimer = t

\* Nothing is under way, and nothing will start.
Quiet == armed = {} /\ \A s \in Sockets : ~Live(s)

\* A connection that is established has a socket for write().
WriteIfConnected == isConnected => socket # None /\ phase[socket] = "open"
=============================================================================
