---------------------------- MODULE DrainHistory ----------------------------
(***************************************************************************)
(* DrainManager with a history variable, and the proof obligation that it  *)
(* implements DrainLease.  owed[k] is the time the last DRAIN of key k     *)
(* asked for that has not passed yet, counted from the command and not     *)
(* from any timer: what the sidecar that sent it relies on.                *)
(***************************************************************************)
EXTENDS DrainManager

VARIABLE owed

hvars == <<drained, timer, callback, left, enabled, owed>>

HTypeOK == TypeOK /\ owed \in [Keys -> Nat]

HInit == Init /\ owed = [k \in Keys |-> 0]

HDrain(s, d) == Drain(s, d) /\ owed' = [owed EXCEPT ![KeyOf[s]] = d]

HResume(s) == Resume(s) /\ owed' = [owed EXCEPT ![KeyOf[s]] = 0]

HFire(t) == Fire(t) /\ UNCHANGED owed

HSetEnabled(value) == SetEnabled(value) /\ UNCHANGED owed

HShutdown == Shutdown /\ owed' = [k \in Keys |-> 0]

HTick == Tick /\ owed' = [k \in Keys |-> IF owed[k] = 0 THEN 0 ELSE owed[k] - 1]

HNext ==
  \/ \E s \in Servers, d \in Durations : HDrain(s, d)
  \/ \E s \in Servers : HResume(s)
  \/ \E t \in TimerIds : HFire(t)
  \/ \E value \in BOOLEAN : HSetEnabled(value)
  \/ HShutdown
  \/ HTick

HSpec == HInit /\ [][HNext]_hvars

-----------------------------------------------------------------------------
\* The precondition of the promise: every duration is one setTimeout can hold.
DurationsFit == Durations \subseteq 1..TimeoutMax

\* "Marks a server as drained for the given duration": until the time its last
\* DRAIN asked for has passed, only a RESUME puts the server back in rotation.
HeldForDuration == \A k \in Keys : owed[k] > 0 => drained[k]

Lease == INSTANCE DrainLease WITH
  Leases <- Durations,
  out    <- {k \in Keys : drained[k]},
  lease  <- owed

\* drain_manager.ts implements the lease: the last command wins, and an
\* auto-resume ends only a lease that has run down.
ImplementsLease == Lease!Spec
=============================================================================
