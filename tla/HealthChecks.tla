---------------------------- MODULE HealthChecks ----------------------------
(***************************************************************************)
(* lb/sidecar/src/health_check_runner.ts over the timed health checks:     *)
(* RandomFailure and RandomHealthCheck change their state only when        *)
(* isHealthy() is called, and runChecks() stops calling at the first check *)
(* that says no, so one check decides when another may change.             *)
(*                                                                         *)
(* Times are ticks; a poll may come any time after the one before it.  The *)
(* runner is started and stopped by SidecarProcess.                        *)
(***************************************************************************)
EXTENDS Naturals, Sequences, SequencesExt

CONSTANTS
  Configs,           \* the lists of checks a configuration may name
  HealthyPeriods,    \* minHealthyMs..maxHealthyMs of RandomFailure
  FailurePeriods,    \* minFailureMs..maxFailureMs
  MaxFailure,        \* maxFailureMs
  MinStateDuration,  \* minStateDurationMs of RandomHealthCheck
  RandomDrain,       \* its drainIntervalMs
  AlwaysDrain        \* the DEFAULT_DRAIN_INTERVAL_MS of AlwaysHealthy

\* The check of GC pauses is a loop through its service: see GcPauseLoop.
Kinds == {"always_healthy", "random_failure", "random"}

Parameters ==
  /\ Configs \subseteq Seq(Kinds)
  /\ HealthyPeriods \subseteq Nat
  /\ FailurePeriods \subseteq 1..MaxFailure
  /\ MaxFailure \in Nat \ {0}
  /\ MinStateDuration \in Nat
  /\ RandomDrain \in Nat
  /\ AlwaysDrain \in Nat

VARIABLES
  checks,         \* the checks of this sidecar, in the order of its config
  failing,        \* ~currentlyHealthy of RandomFailure
  transitionIn,   \* the ticks to its nextTransitionTime, 0 when it has passed
  failure,        \* currentFailureDuration
  randomHealthy,  \* healthy of RandomHealthCheck
  settleIn,       \* the ticks until it may change again
  healthy,        \* currentHealthy of the runner
  drainInterval   \* currentDrainInterval

random_failure == <<failing, transitionIn, failure>>
random == <<randomHealthy, settleIn>>
runner == <<healthy, drainInterval>>
vars == <<checks, random_failure, random, runner>>

Periods == HealthyPeriods \union FailurePeriods

TypeOK ==
  /\ checks \in Configs
  /\ failing \in BOOLEAN
  /\ transitionIn \in 0..Max(Periods)
  /\ failure \in IF failing THEN FailurePeriods ELSE {0}
  /\ randomHealthy \in BOOLEAN
  /\ settleIn \in 0..MinStateDuration
  /\ healthy \in BOOLEAN
  /\ drainInterval \in Nat

-----------------------------------------------------------------------------
(* The checks *)

\* Is there a check of this kind among those of the runner?
Configured(kind) == kind \in ToSet(checks)

\* isHealthy() of RandomFailure: at most one transition per call.
PollFailure ==
  IF transitionIn > 0
  THEN UNCHANGED random_failure
  ELSE IF failing
  THEN failing' = FALSE /\ failure' = 0 /\ transitionIn' \in HealthyPeriods
  ELSE failing' = TRUE /\ failure' \in FailurePeriods /\ transitionIn' = failure'

\* A fault: it stays unhealthy by chance, as it stays healthy.
PollRandomSticky ==
  \/ UNCHANGED random
  \/ settleIn = 0 /\ randomHealthy' = ~randomHealthy /\ settleIn' = MinStateDuration

\* isHealthy() of RandomHealthCheck: it turns unhealthy by chance, and always
\* recovers.
PollRandom ==
  \/ /\ settleIn > 0 \/ randomHealthy
     /\ UNCHANGED random
  \/ /\ settleIn = 0
     /\ randomHealthy' = ~randomHealthy
     /\ settleIn' = MinStateDuration

\* getDrainInterval() of RandomFailure.
FailureDrain == IF failure = 0 THEN MaxFailure ELSE failure

DrainOf(kind) ==
  CASE kind = "always_healthy" -> AlwaysDrain
    [] kind = "random_failure" -> FailureDrain
    [] kind = "random"         -> RandomDrain

-----------------------------------------------------------------------------
(* The runner *)

\* A fault: the interval of the first check stands for all of them.
FirstDrainInterval == IF checks = <<>> THEN 0 ELSE DrainOf(Head(checks))

\* computeMaxDrainInterval()
MaxDrainInterval == Max({0} \union {DrainOf(kind) : kind \in ToSet(checks)})

Init ==
  /\ checks \in Configs
  /\ failing = FALSE
  /\ transitionIn \in HealthyPeriods
  /\ failure = 0
  /\ randomHealthy = TRUE
  /\ settleIn = MinStateDuration
  /\ healthy = TRUE
  /\ drainInterval = MaxDrainInterval

\* What a call of isHealthy() of the i-th check answered, in the next state.
Passes(i) ==
  CASE checks[i] = "always_healthy" -> TRUE
    [] checks[i] = "random_failure" -> ~failing'
    [] checks[i] = "random"         -> randomHealthy'

\* The loop of runChecks(): it calls the checks in their order up to the first
\* that fails.
Verdict(verdict) ==
  \E last \in 0..Len(checks) :
    LET Polled(kind) == \E i \in 1..last : checks[i] = kind IN
    /\ IF Polled("random_failure") THEN PollFailure ELSE UNCHANGED random_failure
    /\ IF Polled("random") THEN PollRandom ELSE UNCHANGED random
    /\ \A i \in 1..(last - 1) : Passes(i)
    /\ \/ verdict = FALSE /\ last > 0 /\ ~Passes(last)
       \/ verdict = TRUE /\ last = Len(checks) /\ (last > 0 => Passes(last))

\* runChecks()
RunChecks ==
  \E verdict \in BOOLEAN :
    /\ Verdict(verdict)
    /\ healthy' = verdict
    /\ UNCHANGED checks
    /\ drainInterval' = MaxDrainInterval'

Tick ==
  /\ transitionIn' = IF transitionIn = 0 THEN 0 ELSE transitionIn - 1
  /\ settleIn' = IF settleIn = 0 THEN 0 ELSE settleIn - 1
  /\ UNCHANGED <<checks, failing, failure, randomHealthy, runner>>

-----------------------------------------------------------------------------
(* Properties *)

\* The DRAIN for a failure asks for at least the time that failure has still to
\* run, whichever check made the verdict: one DRAIN that arrives is enough.
DrainCoversFailure ==
  (Configured("random_failure") /\ failing) => drainInterval >= transitionIn
=============================================================================
