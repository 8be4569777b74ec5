---------------------------- MODULE SidecarLease ----------------------------
(***************************************************************************)
(* SidecarLink with a history variable that says when the load balancer    *)
(* may rely on the heartbeat.  covered holds from the moment a DRAIN has   *)
(* been obeyed with nothing but DRAINs behind it, for as long as the       *)
(* sidecar runs, stays connected and stays unhealthy.                      *)
(***************************************************************************)
EXTENDS SidecarLink

VARIABLE covered

cvars == <<vars, covered>>

AllDrains(commands) == \A i \in DOMAIN commands : commands[i].lease > 0

CInit == Init /\ covered = FALSE

\* A step that neither ends the cover nor starts it.
Keep == UNCHANGED covered

CObey(delivered) ==
  covered' = \/ covered
             \/ /\ phase = "running"
                /\ connected
                /\ ~healthy
                /\ Head(delivered).lease > 0
                /\ AllDrains(wire)
                /\ AllDrains(residue)

CNext ==
  \/ (StartRunner \/ StartSending \/ Heartbeat \/ LinkUp \/ AutoResume \/ Tick) /\ Keep
  \/ \E allHealthy \in BOOLEAN, d \in Intervals :
       RunChecks(allHealthy, d) /\ covered' = (covered /\ ~allHealthy)
  \/ (Stop \/ Restart \/ LinkDown \/ BalancerRestart) /\ covered' = FALSE
  \/ Deliver /\ CObey(wire)
  \/ DeliverResidue /\ CObey(residue)

CSpec == CInit /\ [][CNext]_cvars /\ Fairness

-----------------------------------------------------------------------------
\* The heartbeat outruns the lease: every period start() may choose, with the
\* lateness of the timer and of the network, is shorter than every lease.
HeartbeatFits ==
  \A d, e \in Intervals : SendIntervalFor(d) + Jitter + MaxDelay < e

\* "The sidecar re-sends its current state every drainInterval / 2": once the
\* load balancer has obeyed a DRAIN, the server stays out of rotation without
\* a gap for as long as its sidecar is connected and unhealthy.
NoLapse == covered => out = {Key}
=============================================================================
