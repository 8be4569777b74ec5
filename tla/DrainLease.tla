----------------------------- MODULE DrainLease -----------------------------
(***************************************************************************)
(* What the load balancer promises a sidecar about DRAIN and RESUME,       *)
(* without timers, sockets or a Map: a DRAIN is a lease.  The server is    *)
(* out of rotation from the DRAIN on, it stays out until the lease it was  *)
(* given has run down or a RESUME arrives, a later command replaces an     *)
(* earlier one, and only a lease that has run down ends by itself          *)
(* (src/DESIGN.md, "Protocol semantics").                                  *)
(*                                                                         *)
(* DrainHistory.tla shows that lb/src/drain_manager.ts implements this.    *)
(***************************************************************************)
EXTENDS Naturals

CONSTANTS
  Keys,     \* the servers of the pool, as drain_manager.ts tells them apart
  Leases    \* the durations a DRAIN may carry, in ticks

VARIABLES
  out,      \* the keys out of rotation
  lease     \* for each key, the ticks of its lease still to run

vars == <<out, lease>>

Init ==
  /\ out = {}
  /\ lease = [k \in Keys |-> 0]

Drain(k, d) ==
  /\ out' = out \union {k}
  /\ lease' = [lease EXCEPT ![k] = d]

Resume(k) ==
  /\ out' = out \ {k}
  /\ lease' = [lease EXCEPT ![k] = 0]

\* A lease that has run down may end, late but never early.
Expire(k) ==
  /\ k \in out
  /\ lease[k] = 0
  /\ out' = out \ {k}
  /\ UNCHANGED lease

ResumeAll ==
  /\ out' = {}
  /\ lease' = [k \in Keys |-> 0]

Tick ==
  /\ lease' = [k \in Keys |-> IF lease[k] = 0 THEN 0 ELSE lease[k] - 1]
  /\ UNCHANGED out

Next ==
  \/ \E k \in Keys, d \in Leases : Drain(k, d)
  \/ \E k \in Keys : Resume(k) \/ Expire(k)
  \/ ResumeAll
  \/ Tick

Spec == Init /\ [][Next]_vars
=============================================================================
