---------------------------- MODULE DrainManager ----------------------------
(***************************************************************************)
(* lb/src/drain_manager.ts: the per-server drain state of the load         *)
(* balancer, with the auto-resume timers it arms and clears.               *)
(*                                                                         *)
(* The Map `state` is the pair of functions drained and timer: a key that  *)
(* is absent from the Map reads like the entry {drained: false,            *)
(* timer: null} in every method, so the two are one value here.  A Node    *)
(* timer is an id with the closure it will run (callback, the server the   *)
(* closure captured) and the ticks left before it is due.  The event loop  *)
(* runs one callback at a time, so each method is one step; a timer fires  *)
(* at or after its due time, never before.                                 *)
(***************************************************************************)
EXTENDS Naturals

CONSTANTS
  Servers,      \* the ServerConfig objects of the configuration
  KeyOf,        \* serverKey(): the "host:port" of each server
  Durations,    \* the durationMs a DRAIN may carry, in ticks
  TimeoutMax,   \* the longest delay setTimeout accepts (2^31 - 1 ms in Node)
  TimerIds,     \* bound: the timers that can be armed or referenced at once
  NoTimer,      \* the null of DrainState.timer
  NoServer      \* the closure of a timer that is not armed

ASSUME DrainManagerAssumption ==
  /\ KeyOf \in [Servers -> {KeyOf[s] : s \in Servers}]
  /\ Durations \subseteq Nat
  /\ TimeoutMax \in Nat \ {0}
  /\ NoTimer \notin TimerIds
  /\ NoServer \notin Servers

Keys == {KeyOf[s] : s \in Servers}

VARIABLES
  drained,    \* DrainState.drained of each key
  timer,      \* DrainState.timer of each key
  callback,   \* for each timer id, the server its closure resumes
  left,       \* for each timer id, the ticks before it is due
  enabled     \* backpressureEnabled

vars == <<drained, timer, callback, left, enabled>>

TypeOK ==
  /\ drained \in [Keys -> BOOLEAN]
  /\ timer \in [Keys -> TimerIds \union {NoTimer}]
  /\ callback \in [TimerIds -> Servers \union {NoServer}]
  /\ left \in [TimerIds -> Nat]
  /\ enabled \in BOOLEAN

Init ==
  /\ drained = [k \in Keys |-> FALSE]
  /\ timer = [k \in Keys |-> NoTimer]
  /\ callback = [t \in TimerIds |-> NoServer]
  /\ left = [t \in TimerIds |-> 0]
  /\ enabled = TRUE

-----------------------------------------------------------------------------
(* Node's timers *)

Armed(t) == callback[t] # NoServer

\* setTimeout() runs a delay outside 1..TIMEOUT_MAX as a delay of 1.
TimeoutDelay(d) == IF d \in 1..TimeoutMax THEN d ELSE 1

\* clearTimeout(): the callbacks that remain once the timer is disarmed.
ClearTimeout(t) == [callback EXCEPT ![t] = NoServer]

-----------------------------------------------------------------------------
(* The methods of DrainManager *)

\* A fault: the old timer is dropped without clearTimeout().
ClearNothing(k) == callback

\* The callbacks after `if (existing?.timer) clearTimeout(existing.timer)`.
ClearExisting(k) == IF timer[k] = NoTimer THEN callback ELSE ClearTimeout(timer[k])

\* drain(server, durationMs); t is the fresh Timeout object setTimeout returns.
Drain(s, d) ==
  LET k == KeyOf[s] IN
  \E t \in TimerIds :
    /\ ~Armed(t)
    /\ \A j \in Keys : timer[j] # t
    /\ callback' = [ClearExisting(k) EXCEPT ![t] = s]
    /\ left' = [left EXCEPT ![t] = TimeoutDelay(d)]
    /\ drained' = [drained EXCEPT ![k] = TRUE]
    /\ timer' = [timer EXCEPT ![k] = t]
    /\ UNCHANGED enabled

\* A fault: the entry keeps its flag when its timer is gone.
ReleaseTimerOnly(k) == UNCHANGED drained /\ timer' = [timer EXCEPT ![k] = NoTimer]

\* A fault: the entry is left with an undefined timer, not a null one.
ReleaseUndefined(k) ==
  /\ drained' = [drained EXCEPT ![k] = FALSE]
  /\ timer' = [timer EXCEPT ![k] = NoServer]

\* The assignment both callers of resume() end with.
Release(k) ==
  /\ drained' = [drained EXCEPT ![k] = FALSE]
  /\ timer' = [timer EXCEPT ![k] = NoTimer]

\* resume(server), called for a RESUME command.
Resume(s) ==
  /\ callback' = ClearExisting(KeyOf[s])
  /\ Release(KeyOf[s])
  /\ UNCHANGED <<left, enabled>>

\* A fault: the closure forgets to call resume().
FireNothing(t) ==
  /\ Armed(t)
  /\ left[t] = 0
  /\ callback' = [callback EXCEPT ![t] = NoServer]
  /\ UNCHANGED <<drained, timer, left, enabled>>

\* A due timer runs its closure, `() => this.resume(server)`.
Fire(t) ==
  /\ Armed(t)
  /\ left[t] = 0
  /\ LET k == KeyOf[callback[t]] IN
       /\ callback' = [ClearExisting(k) EXCEPT ![t] = NoServer]
       /\ Release(k)
  /\ UNCHANGED <<left, enabled>>

SetEnabled(value) ==
  /\ enabled' = value
  /\ UNCHANGED <<drained, timer, callback, left>>

\* A fault: the Map is cleared and the timers are left to fire.
ShutdownKeepsTimers ==
  /\ drained' = [k \in Keys |-> FALSE]
  /\ timer' = [k \in Keys |-> NoTimer]
  /\ UNCHANGED <<callback, left, enabled>>

\* shutdown(): clears the timer of every entry, then the Map.
Shutdown ==
  /\ callback' = [t \in TimerIds |->
                    IF \E k \in Keys : timer[k] = t THEN NoServer ELSE callback[t]]
  /\ drained' = [k \in Keys |-> FALSE]
  /\ timer' = [k \in Keys |-> NoTimer]
  /\ UNCHANGED <<left, enabled>>

\* The clock moves one tick; a timer that is due waits for the event loop.
Tick ==
  /\ left' = [t \in TimerIds |-> IF left[t] = 0 THEN 0 ELSE left[t] - 1]
  /\ UNCHANGED <<drained, timer, callback, enabled>>

\* Two faults: the entry counts only while the switch is off; the switch is ignored.
IsDrainedWhenOff(s) == ~enabled /\ drained[KeyOf[s]]

IsDrainedAlways(s) == drained[KeyOf[s]]

\* isDrained(server): what the router asks.
IsDrained(s) == enabled /\ drained[KeyOf[s]]

Next ==
  \/ \E s \in Servers, d \in Durations : Drain(s, d)
  \/ \E s \in Servers : Resume(s)
  \/ \E t \in TimerIds : Fire(t)
  \/ \E value \in BOOLEAN : SetEnabled(value)
  \/ Shutdown
  \/ Tick

\* The clock runs, and the event loop runs every timer that stays due.
Fairness ==
  /\ WF_vars(Tick)
  /\ \A t \in TimerIds : WF_vars(Fire(t))

Spec == Init /\ [][Next]_vars /\ Fairness

-----------------------------------------------------------------------------
(* Properties *)

\* Every armed timer is the one the entry of its own server refers to: drain()
\* and resume() clear the old timer before they drop the reference, so no
\* forgotten timer is left to cut a later DRAIN short.
NoOrphanTimer ==
  \A t \in TimerIds : Armed(t) => timer[KeyOf[callback[t]]] = t

\* The safety net: a drained server has its own armed auto-resume timer, so a
\* sidecar that crashes or whose RESUME is lost cannot keep it out for ever.
SafetyNet ==
  \A k \in Keys : drained[k] =>
    /\ timer[k] # NoTimer
    /\ Armed(timer[k])
    /\ KeyOf[callback[timer[k]]] = k

\* A server in rotation has no timer: nothing pending can act on it later.
InRotationIsIdle ==
  \A k \in Keys : ~drained[k] => timer[k] = NoTimer

\* Liveness of the safety net: once a key gets no more DRAINs it is back in
\* rotation and stays there.
DrainKey(k) == \E s \in Servers, d \in Durations : KeyOf[s] = k /\ Drain(s, d)

DrainsEnd ==
  \A k \in Keys : (<>[][~DrainKey(k)]_vars) => <>[]~drained[k]
=============================================================================
