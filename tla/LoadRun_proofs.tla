--------------------------- MODULE LoadRun_proofs ---------------------------
(***************************************************************************)
(* The load generator runs one load at a time, for any number of calls,    *)
(* rates, threads and processors, whatever order its workers end in.  And a *)
(* run that completes reports all its requests, each once, with percentiles *)
(* that are those of all of them: the shares add up to the rate, the sort  *)
(* and the pool of metrics.ts keep every latency.                          *)
(***************************************************************************)
EXTENDS LoadRun, DataInduction, TLAPS

ServerTypes ==
  /\ reply \in [Runs -> {"none", "pending", "200", "400", "409", "500"}]
  /\ DOMAIN config = Runs
  /\ isRunning \in BOOLEAN
  /\ worker \in [Runners -> {"idle", "running", "posted", "failed"}]

\* isRunning says whether a run is pending, and there is one at most.
OnePending ==
  /\ isRunning <=> \E r \in Runs : reply[r] = "pending"
  /\ \A r, s \in Runs : reply[r] = "pending" /\ reply[s] = "pending" => r = s

\* Only the runners of a run that was accepted have left their first state.
WorkersOfRuns ==
  \A x \in Runners : worker[x] # "idle" => reply[x[1]] # "none" /\ x \in RunnersOf(x[1])

\* A runner that runs belongs to the pending run, or to one that a worker has failed.
RunningPending ==
  \A x \in Runners : worker[x] = "running" =>
    \/ reply[x[1]] = "pending"
    \/ \E y \in Runners : y[1] = x[1] /\ worker[y] = "failed"

\* /metrics reads the Metrics of the pending run, which is on the main thread.
LivePending ==
  liveMetrics # NoRun =>
    liveMetrics \in Runs /\ reply[liveMetrics] = "pending" /\ config[liveMetrics].threads = 1

RInv == ServerTypes /\ OnePending /\ WorkersOfRuns /\ RunningPending /\ LivePending

-----------------------------------------------------------------------------
(* One run *)

LEMMA RunnerFacts ==
  /\ NoRun \notin Runs
  /\ \A x \in Runners : x[1] \in Runs /\ x = <<x[1], x[2]>>
BY LoadRunAssumption DEF Runners

LEMMA InitRInv == Init => RInv
<1> SUFFICES ASSUME Init PROVE RInv
  OBVIOUS
<1>1. ServerTypes
  BY DEF Init, ServerTypes
<1>2. OnePending /\ LivePending
  BY DEF Init, OnePending, LivePending
<1>3. WorkersOfRuns /\ RunningPending
  BY DEF Init, WorkersOfRuns, RunningPending
<1>4. QED
  BY <1>1, <1>2, <1>3 DEF RInv

\* A call that is refused or rejected touches nothing else.
LEMMA TurnedAwayRInv ==
  ASSUME RInv, NEW r \in Runs, RefuseRun(r) \/ RejectRun(r)
  PROVE  RInv'
<1>1. PICK status \in {"400", "409"} : reply' = [reply EXCEPT ![r] = status]
  BY DEF RefuseRun, RejectRun
<1>2. reply[r] = "none" /\ UNCHANGED <<config, isRunning, liveMetrics, worker>>
  BY DEF RefuseRun, RejectRun
<1>3. reply'[r] = status /\ \A s \in Runs \ {r} : reply'[s] = reply[s]
  BY <1>1 DEF RInv, ServerTypes
<1>4. ServerTypes'
  BY <1>1, <1>2 DEF RInv, ServerTypes
<1>5. \A s \in Runs : reply'[s] = "pending" <=> reply[s] = "pending"
  BY <1>1, <1>2, <1>3
<1>6. OnePending' /\ LivePending'
  BY <1>2, <1>5 DEF RInv, OnePending, LivePending
<1>7. WorkersOfRuns'
  BY <1>1, <1>2, <1>3, RunnerFacts DEF RInv, WorkersOfRuns, RunnersOf
<1>8. RunningPending'
  BY <1>2, <1>5, RunnerFacts DEF RInv, RunningPending
<1>9. QED
  BY <1>4, <1>6, <1>7, <1>8 DEF RInv

LEMMA StartRunRInv ==
  ASSUME RInv, NEW r \in Runs, StartRun(r)
  PROVE  RInv'
<1>1. /\ ~isRunning /\ isRunning' = TRUE /\ reply[r] = "none"
      /\ reply' = [reply EXCEPT ![r] = "pending"]
      /\ liveMetrics' = IF config'[r].threads = 1 THEN r ELSE liveMetrics
      /\ worker' = [x \in Runners |-> IF x \in RunnersOf(r)' THEN "running" ELSE worker[x]]
  BY DEF StartRun, Spawn
<1>2. DOMAIN config' = Runs /\ \A s \in Runs \ {r} : config'[s] = config[s]
  BY DEF StartRun, Spawn, RInv, ServerTypes
<1>3. reply'[r] = "pending" /\ \A s \in Runs \ {r} : reply'[s] = reply[s]
  BY <1>1 DEF RInv, ServerTypes
<1>4. \A s \in Runs : reply[s] # "pending"
  BY <1>1 DEF RInv, OnePending
<1>5. ServerTypes'
  BY <1>1, <1>2 DEF RInv, ServerTypes
<1>6. OnePending'
  BY <1>1, <1>3, <1>4 DEF OnePending
<1>7. liveMetrics = NoRun
  BY <1>4 DEF RInv, LivePending
<1>8. LivePending'
  BY <1>1, <1>3, <1>7 DEF LivePending
<1>9. \A x \in Runners : x \in RunnersOf(r)' => x[1] = r
  BY RunnerFacts DEF RunnersOf
<1>10. WorkersOfRuns'
  <2> SUFFICES ASSUME NEW x \in Runners, worker'[x] # "idle"
               PROVE  reply'[x[1]] # "none" /\ x \in RunnersOf(x[1])'
    BY DEF WorkersOfRuns
  <2>1. CASE x \in RunnersOf(r)'
    BY <1>3, <1>9, <2>1
  <2>2. CASE x \notin RunnersOf(r)'
    <3>1. worker[x] # "idle" /\ reply[x[1]] # "none" /\ x \in RunnersOf(x[1])
      BY <1>1, <2>2 DEF RInv, WorkersOfRuns
    <3>2. x[1] # r /\ x[1] \in Runs
      BY <1>1, <3>1, RunnerFacts
    <3>3. QED
      BY <1>2, <1>3, <3>1, <3>2 DEF RunnersOf
  <2>3. QED
    BY <2>1, <2>2
<1>11. RunningPending'
  <2> SUFFICES ASSUME NEW x \in Runners, worker'[x] = "running"
               PROVE  \/ reply'[x[1]] = "pending"
                      \/ \E y \in Runners : y[1] = x[1] /\ worker'[y] = "failed"
    BY DEF RunningPending
  <2>1. CASE x[1] = r
    BY <1>3, <2>1
  <2>2. CASE x[1] # r
    <3>1. worker[x] = "running" /\ x[1] \in Runs
      BY <1>1, <1>9, <2>2, RunnerFacts
    <3>2. PICK y \in Runners : y[1] = x[1] /\ worker[y] = "failed"
      BY <1>4, <3>1 DEF RInv, RunningPending
    <3>3. worker'[y] = "failed"
      BY <1>1, <1>9, <2>2, <3>2
    <3>4. QED
      BY <3>2, <3>3
  <2>3. QED
    BY <2>1, <2>2
<1>12. QED
  BY <1>5, <1>6, <1>8, <1>10, <1>11 DEF RInv

\* What the end of a pending run does: no other run is pending, and isRunning and
\* liveMetrics are cleared.
LEMMA EndFacts ==
  ASSUME RInv, NEW r \in Runs, reply[r] = "pending", NEW status \in {"200", "500"},
         reply' = [reply EXCEPT ![r] = status], Finally
  PROVE  OnePending' /\ LivePending' /\ \A s \in Runs : reply'[s] # "pending"
<1>1. reply'[r] = status /\ \A s \in Runs \ {r} : reply'[s] = reply[s]
  BY DEF RInv, ServerTypes
<1>2. \A s \in Runs : reply'[s] # "pending"
  BY <1>1 DEF RInv, OnePending
<1>3. OnePending' /\ LivePending'
  BY <1>2 DEF OnePending, LivePending, Finally
<1>4. QED
  BY <1>2, <1>3

\* The last runner of a run finds it pending: had one of them failed, they would
\* not all have posted.
LEMMA ReturnFacts ==
  ASSUME RInv, NEW x \in Runners, Return(x)
  PROVE  /\ worker[x] = "running" /\ worker' = [worker EXCEPT ![x] = "posted"]
         /\ x[1] \in Runs /\ x \in RunnersOf(x[1])
         /\ \/ /\ reply[x[1]] = "pending" /\ reply' = [reply EXCEPT ![x[1]] = "200"]
               /\ Finally /\ config' = config
               /\ \A y \in RunnersOf(x[1]) : worker'[y] = "posted"
            \/ UNCHANGED server
<1>1. worker[x] = "running" /\ worker' = [worker EXCEPT ![x] = "posted"]
  BY DEF Return, AllSettled
<1>2. x[1] \in Runs /\ x \in RunnersOf(x[1])
  BY <1>1, RunnerFacts DEF RInv, WorkersOfRuns
<1>3. ASSUME \A y \in RunnersOf(x[1]) : worker'[y] = "posted"
      PROVE  reply[x[1]] = "pending"
  <2> SUFFICES ASSUME NEW y \in Runners, y[1] = x[1], worker[y] = "failed"
               PROVE  FALSE
    BY <1>1 DEF RInv, RunningPending
  <2>1. y \in RunnersOf(x[1]) /\ y # x
    BY <1>1 DEF RInv, WorkersOfRuns
  <2>2. worker'[y] = "failed"
    BY <1>1, <2>1 DEF RInv, ServerTypes
  <2>3. QED
    BY <1>3, <2>1, <2>2
<1>4. QED
  BY <1>1, <1>2, <1>3 DEF Return

LEMMA ReturnRInv ==
  ASSUME RInv, NEW x \in Runners, Return(x)
  PROVE  RInv'
<1>1. /\ worker[x] = "running" /\ worker' = [worker EXCEPT ![x] = "posted"]
      /\ x[1] \in Runs /\ x \in RunnersOf(x[1])
  BY ReturnFacts
<1>2. /\ worker'[x] = "posted" /\ \A y \in Runners \ {x} : worker'[y] = worker[y]
  BY <1>1 DEF RInv, ServerTypes
<1>3. CASE UNCHANGED server
  <2>1. ServerTypes' /\ OnePending' /\ LivePending'
    BY <1>1, <1>3 DEF server, RInv, ServerTypes, OnePending, LivePending
  <2>2. WorkersOfRuns'
    BY <1>1, <1>2, <1>3 DEF server, RInv, WorkersOfRuns, RunnersOf
  <2>3. RunningPending'
    BY <1>1, <1>2, <1>3 DEF server, RInv, RunningPending
  <2>4. QED
    BY <2>1, <2>2, <2>3 DEF RInv
<1>4. CASE /\ reply[x[1]] = "pending" /\ reply' = [reply EXCEPT ![x[1]] = "200"]
           /\ Finally /\ config' = config
           /\ \A y \in RunnersOf(x[1]) : worker'[y] = "posted"
  <2>1. OnePending' /\ LivePending'
    BY <1>1, <1>4, EndFacts
  <2>2. ServerTypes'
    BY <1>1, <1>4 DEF Finally, RInv, ServerTypes
  <2>3. reply'[x[1]] = "200" /\ \A s \in Runs \ {x[1]} : reply'[s] = reply[s]
    BY <1>1, <1>4 DEF RInv, ServerTypes
  <2>4. WorkersOfRuns'
    BY <1>1, <1>2, <1>4, <2>3, RunnerFacts DEF RInv, WorkersOfRuns, RunnersOf
  <2>5. RunningPending'
    <3> SUFFICES ASSUME NEW y \in Runners, worker'[y] = "running"
                 PROVE  \/ reply'[y[1]] = "pending"
                        \/ \E z \in Runners : z[1] = y[1] /\ worker'[z] = "failed"
      BY DEF RunningPending
    <3>1. worker[y] = "running" /\ y # x
      BY <1>2
    <3>2. y[1] # x[1] /\ y[1] \in Runs
      BY <1>4, <3>1, RunnerFacts DEF RInv, WorkersOfRuns
    <3>3. QED
      BY <1>1, <1>2, <2>3, <3>1, <3>2 DEF RInv, RunningPending
  <2>6. QED
    BY <2>1, <2>2, <2>4, <2>5 DEF RInv
<1>5. QED
  BY <1>3, <1>4, ReturnFacts

LEMMA FailRInv ==
  ASSUME RInv, NEW x \in Runners, Fail(x)
  PROVE  RInv'
<1>1. worker[x] = "running" /\ worker' = [worker EXCEPT ![x] = "failed"] /\ config' = config
  BY DEF Fail, server
<1>2. x[1] \in Runs /\ x \in RunnersOf(x[1]) /\ reply[x[1]] # "none"
  BY <1>1, RunnerFacts DEF RInv, WorkersOfRuns
<1>3. worker'[x] = "failed" /\ \A y \in Runners \ {x} : worker'[y] = worker[y]
  BY <1>1 DEF RInv, ServerTypes
<1>4. /\ reply'[x[1]] # "none" /\ \A s \in Runs \ {x[1]} : reply'[s] = reply[s]
      /\ ServerTypes' /\ OnePending' /\ LivePending'
  <2>1. CASE reply[x[1]] = "pending"
    <3>1. reply' = [reply EXCEPT ![x[1]] = "500"] /\ Finally
      BY <2>1 DEF Fail
    <3>2. OnePending' /\ LivePending'
      BY <1>2, <2>1, <3>1, EndFacts
    <3>3. QED
      BY <1>1, <1>2, <3>1, <3>2 DEF Finally, RInv, ServerTypes
  <2>2. CASE reply[x[1]] # "pending"
    <3>1. UNCHANGED server
      BY <2>2 DEF Fail
    <3>2. QED
      BY <1>1, <1>2, <3>1 DEF server, RInv, ServerTypes, OnePending, LivePending
  <2>3. QED
    BY <2>1, <2>2
<1>5. WorkersOfRuns'
  BY <1>1, <1>2, <1>3, <1>4, RunnerFacts DEF RInv, WorkersOfRuns, RunnersOf
<1>6. RunningPending'
  <2> SUFFICES ASSUME NEW y \in Runners, worker'[y] = "running", y[1] # x[1]
               PROVE  \/ reply'[y[1]] = "pending"
                      \/ \E z \in Runners : z[1] = y[1] /\ worker'[z] = "failed"
    BY <1>3 DEF RunningPending
  <2>1. worker[y] = "running" /\ y[1] \in Runs
    BY <1>3, RunnerFacts
  <2>2. QED
    BY <1>3, <1>4, <2>1 DEF RInv, RunningPending
<1>7. QED
  BY <1>4, <1>5, <1>6 DEF RInv

\* A request that is sent or answered, and a step of something else.
LEMMA UnchangedRInv ==
  ASSUME RInv, UNCHANGED <<server, worker>>
  PROVE  RInv'
BY DEF server, RInv, ServerTypes, OnePending, WorkersOfRuns, RunningPending, LivePending, RunnersOf

LEMMA NextRInv ==
  ASSUME RInv, [Next]_vars
  PROVE  RInv'
<1>1. CASE \E x \in Runners : Dispatch(x) \/ Record(x)
  BY <1>1, UnchangedRInv DEF Dispatch, Record
<1>2. CASE UNCHANGED vars
  BY <1>2, UnchangedRInv DEF vars
<1>3. QED
  BY <1>1, <1>2, TurnedAwayRInv, StartRunRInv, ReturnRInv, FailRInv DEF Next

LEMMA AlwaysRInv == Spec => []RInv
BY InitRInv, NextRInv, PTL DEF Spec

-----------------------------------------------------------------------------
(* The theorems on runs *)

\* As long as no worker fails, all the load there is belongs to one run.
THEOREM OneLoad == Spec => []OneLoadUnlessFailed
<1>1. RInv => OneLoadUnlessFailed
  BY RunnerFacts DEF RInv, OnePending, RunningPending, OneLoadUnlessFailed
<1>2. QED
  BY <1>1, AlwaysRInv, PTL

\* /metrics never shows the Metrics of a run that is over.
THEOREM LiveMetricsPending == Spec => []LivePending
<1>1. RInv => LivePending
  BY DEF RInv
<1>2. QED
  BY <1>1, AlwaysRInv, PTL
\* What the calls of /run see of it: every step accepts, refuses, rejects or ends a
\* run as OneRun does, or is none of its steps.
LEMMA NextOneRun ==
  ASSUME RInv, [Next]_vars
  PROVE  [OneRunAtATime!Next]_reply
<1> USE DEF OneRunAtATime!Next, OneRunAtATime!Answer
<1>1. isRunning <=> OneRunAtATime!Busy
  BY DEF RInv, OnePending, OneRunAtATime!Busy
<1>2. ASSUME NEW r \in Runs, RefuseRun(r)
      PROVE  OneRunAtATime!Refuse(r)
  BY <1>1, <1>2 DEF RefuseRun, OneRunAtATime!Refuse
<1>3. ASSUME NEW r \in Runs, RejectRun(r)
      PROVE  OneRunAtATime!Reject(r)
  BY <1>1, <1>3 DEF RejectRun, OneRunAtATime!Reject
<1>4. ASSUME NEW r \in Runs, StartRun(r)
      PROVE  OneRunAtATime!Accept(r)
  BY <1>1, <1>4 DEF StartRun, Spawn, OneRunAtATime!Accept
<1>5. ASSUME NEW x \in Runners, Return(x)
      PROVE  OneRunAtATime!Finish(x[1]) \/ reply' = reply
  BY <1>5, ReturnFacts DEF server, OneRunAtATime!Finish
<1>6. ASSUME NEW x \in Runners, Fail(x)
      PROVE  OneRunAtATime!Finish(x[1]) \/ reply' = reply
  BY <1>6 DEF Fail, server, OneRunAtATime!Finish
<1>7. ASSUME NEW x \in Runners, Dispatch(x) \/ Record(x)
      PROVE  reply' = reply
  BY <1>7 DEF Dispatch, Record, server
<1>8. CASE UNCHANGED vars
  BY <1>8 DEF vars, server
<1>9. CASE Next
  BY <1>2, <1>3, <1>4, <1>5, <1>6, <1>7, <1>9, RunnerFacts DEF Next
<1>10. QED
  BY <1>8, <1>9

\* The generator implements the safety of OneRun: its initial states and each of its
\* steps map to those of one run at a time.
THEOREM OneRunSteps == Spec => OneRunAtATime!Init /\ [][OneRunAtATime!Next]_reply
<1>1. Init => OneRunAtATime!Init
  BY DEF Init, OneRunAtATime!Init
<1>2. QED
  BY <1>1, InitRInv, NextRInv, NextOneRun, PTL DEF Spec
-----------------------------------------------------------------------------
(* The requests of a run *)

CountTypes ==
  \A count \in {undispatched, inFlight, successCount, errorCount} : count \in [Runners -> Nat]

\* Each request of a runner's share is still to be dispatched, in flight, or counted.
ShareKept ==
  \A x \in Runners :
    IF worker[x] = "idle"
    THEN undispatched[x] = 0 /\ inFlight[x] = 0 /\ successCount[x] = 0 /\ errorCount[x] = 0
    ELSE undispatched[x] + inFlight[x] + successCount[x] + errorCount[x]
           = Share(config[x[1]], x[2])

PostedSettled ==
  \A x \in Runners : worker[x] = "posted" => undispatched[x] = 0 /\ inFlight[x] = 0

LInv == RInv /\ CountTypes /\ ShareKept /\ PostedSettled

\* Sharing a rate out loses no request: the first worker takes the remainder.
LEMMA SharesAddUp ==
  ASSUME NEW c, c.rps \in Nat, c.threads \in Nat \ {0}
  PROVE  /\ \A i \in Nat : Share(c, i) \in Nat
         /\ \A i, j \in Nat \ {1} : Share(c, i) = Share(c, j)
         /\ Share(c, 1) + (c.threads - 1) * Share(c, 2) = c.rps
<1> DEFINE n == c.rps
           t == c.threads
           q == n \div t
           m == n % t
<1>1. n \in Nat /\ t \in Nat /\ t > 0
  OBVIOUS
<1>2. Share(c, 1) = q + m /\ \A i \in Nat \ {1} : Share(c, i) = q + 0
  BY DEF Share
<1> HIDE DEF n, t
<1>3. q \in Nat /\ m \in Nat
  BY <1>1
<1>4. n = t * q + m
  BY <1>1
<1> HIDE DEF q, m
<1>5. \A i \in Nat : Share(c, i) \in Nat
  BY <1>2, <1>3
<1>6. Share(c, 1) + (t - 1) * Share(c, 2) = n
  <2>1. (t - 1) * q = t * q - q
    BY <1>1, <1>3
  <2>2. t * q \in Int
    BY <1>1, <1>3
  <2>3. QED
    BY <1>1, <1>2, <1>3, <1>4, <2>1, <2>2
<1>7. QED
  BY <1>2, <1>5, <1>6 DEF n, t

\* A run has at least one thread, whatever AutoThreads() makes of the processors.
LEMMA ParseFacts ==
  ASSUME NEW raw \in Requests, Valid(raw)
  PROVE  ParseConfig(raw).rps \in Nat /\ ParseConfig(raw).threads \in Nat \ {0}
<1>1. raw.rps \in 1..MaxRate /\ raw.threads \in Threads \union {Automatic} /\ raw.threads # 0
  BY DEF Requests, Valid
<1>2. raw.rps \in Nat /\ Threads \subseteq Nat /\ Cpus \in Nat \ {0} /\ RatePerThread \in Nat \ {0}
  BY <1>1, LoadRunAssumption
<1>3. AutoThreads(raw.rps) \in Nat \ {0}
  <2> DEFINE e == (raw.rps + RatePerThread - 1) \div RatePerThread
             m == Min({Cpus, e})
  <2>1. e \in Int
    BY <1>2
  <2> HIDE DEF e
  <2>2. m \in Int
    <3>1. \E x \in {Cpus, e} : \A y \in {Cpus, e} : x <= y
      BY <1>2, <2>1
    <3>2. m \in {Cpus, e}
      BY <3>1 DEF Min
    <3>3. QED
      BY <1>2, <2>1, <3>2
  <2>3. AutoThreads(raw.rps) = Max({1, m})
    BY DEF AutoThreads, e
  <2> HIDE DEF m
  <2>4. \E x \in {1, m} : \A y \in {1, m} : x >= y
    BY <2>2
  <2>5. Max({1, m}) \in {1, m} /\ Max({1, m}) >= 1
    BY <2>4 DEF Max
  <2>6. QED
    BY <2>2, <2>3, <2>5
<1>4. QED
  BY <1>1, <1>2, <1>3 DEF ParseConfig

LEMMA InitLInv == Init => LInv
<1> SUFFICES ASSUME Init PROVE LInv
  OBVIOUS
<1>1. CountTypes /\ ShareKept /\ PostedSettled
  BY DEF Init, CountTypes, ShareKept, PostedSettled
<1>2. QED
  BY <1>1, InitRInv DEF LInv

LEMMA StartRunLInv ==
  ASSUME LInv, NEW r \in Runs, StartRun(r)
  PROVE  LInv'
<1> DEFINE c == config'[r]
<1>1. /\ reply[r] = "none"
      /\ worker' = [x \in Runners |-> IF x \in RunnersOf(r)' THEN "running" ELSE worker[x]]
      /\ undispatched' = [x \in Runners |-> IF x \in RunnersOf(r)' THEN Share(c, x[2])
                                                                 ELSE undispatched[x]]
      /\ UNCHANGED <<inFlight, successCount, errorCount>>
  BY DEF StartRun, Spawn, metrics
<1>2. c.rps \in Nat /\ c.threads \in Nat \ {0} /\ \A s \in Runs \ {r} : config'[s] = config[s]
  <2>1. PICK raw \in Requests : Valid(raw) /\ config' = [config EXCEPT ![r] = ParseConfig(raw)]
    BY DEF StartRun, Spawn
  <2>2. c = ParseConfig(raw)
    BY <2>1 DEF LInv, RInv, ServerTypes
  <2>3. QED
    BY <2>1, <2>2, ParseFacts
<1>3. \A x \in RunnersOf(r)' : x[1] = r /\ x[2] \in Nat
  BY <1>2 DEF RunnersOf
<1>4. \A x \in RunnersOf(r)' : Share(c, x[2]) \in Nat
  BY <1>2, <1>3, SharesAddUp
<1> HIDE DEF c
<1>5. \A x \in Runners : x[1] = r => worker[x] = "idle"
  BY <1>1 DEF LInv, RInv, WorkersOfRuns
<1>6. CountTypes'
  BY <1>1, <1>4 DEF LInv, CountTypes
<1>7. ShareKept'
  <2> SUFFICES ASSUME NEW x \in Runners
               PROVE  IF worker'[x] = "idle"
                      THEN /\ undispatched'[x] = 0 /\ inFlight'[x] = 0
                           /\ successCount'[x] = 0 /\ errorCount'[x] = 0
                      ELSE undispatched'[x] + inFlight'[x] + successCount'[x] + errorCount'[x]
                             = Share(config'[x[1]], x[2])
    BY DEF ShareKept, Share
  <2>1. CASE x \in RunnersOf(r)'
    <3>1. inFlight'[x] = 0 /\ successCount'[x] = 0 /\ errorCount'[x] = 0
      BY <1>1, <1>3, <1>5, <2>1 DEF LInv, ShareKept
    <3>2. worker'[x] = "running" /\ undispatched'[x] = Share(config'[x[1]], x[2])
      BY <1>1, <1>3, <2>1 DEF c
    <3>3. undispatched'[x] \in Nat
      BY <1>6 DEF CountTypes
    <3>4. QED
      BY <3>1, <3>2, <3>3
  <2>2. CASE x \notin RunnersOf(r)'
    <3>1. worker'[x] = worker[x] /\ undispatched'[x] = undispatched[x]
      BY <1>1, <2>2
    <3>2. worker[x] # "idle" => config'[x[1]] = config[x[1]]
      BY <1>2, <1>5, RunnerFacts
    <3>3. QED
      BY <1>1, <3>1, <3>2 DEF LInv, ShareKept
  <2>3. QED
    BY <2>1, <2>2
<1>8. PostedSettled'
  BY <1>1 DEF LInv, PostedSettled
<1>9. QED
  BY <1>6, <1>7, <1>8, StartRunRInv DEF LInv

LEMMA DispatchLInv ==
  ASSUME LInv, NEW x \in Runners, Dispatch(x)
  PROVE  LInv'
<1>1. /\ worker[x] = "running" /\ undispatched[x] > 0
      /\ undispatched' = [undispatched EXCEPT ![x] = undispatched[x] - 1]
      /\ inFlight' = [inFlight EXCEPT ![x] = inFlight[x] + 1]
      /\ UNCHANGED <<worker, config, successCount, errorCount>>
  BY DEF Dispatch, server, metrics
<1>2. RInv'
  BY UnchangedRInv DEF LInv, Dispatch
<1>3. CountTypes'
  BY <1>1 DEF LInv, CountTypes
<1>4. \A y \in Runners :
        /\ undispatched'[y] + inFlight'[y] = undispatched[y] + inFlight[y]
        /\ worker[y] # "running" => undispatched'[y] = undispatched[y] /\ inFlight'[y] = inFlight[y]
  BY <1>1 DEF LInv, CountTypes
<1>5. ShareKept' /\ PostedSettled'
  BY <1>1, <1>4 DEF LInv, ShareKept, PostedSettled, Share
<1>6. QED
  BY <1>2, <1>3, <1>5 DEF LInv

LEMMA RecordLInv ==
  ASSUME LInv, NEW x \in Runners, Record(x)
  PROVE  LInv'
<1>1. /\ worker[x] = "running" /\ inFlight[x] > 0
      /\ inFlight' = [inFlight EXCEPT ![x] = inFlight[x] - 1]
      /\ UNCHANGED <<worker, config, undispatched>>
  BY DEF Record, server
<1>2. \/ /\ successCount' = [successCount EXCEPT ![x] = successCount[x] + 1]
         /\ errorCount' = [errorCount EXCEPT ![x] = errorCount[x]]
      \/ /\ successCount' = [successCount EXCEPT ![x] = successCount[x]]
         /\ errorCount' = [errorCount EXCEPT ![x] = errorCount[x] + 1]
  BY DEF Record
<1>3. RInv'
  BY UnchangedRInv DEF LInv, Record
<1>4. CountTypes'
  BY <1>1, <1>2 DEF LInv, CountTypes
<1>5. ShareKept' /\ PostedSettled'
  BY <1>1, <1>2 DEF LInv, CountTypes, ShareKept, PostedSettled, Share
<1>6. QED
  BY <1>3, <1>4, <1>5 DEF LInv

\* A runner ends, with a result or with an error.
LEMMA EndedLInv ==
  ASSUME LInv, NEW x \in Runners, Return(x) \/ Fail(x)
  PROVE  LInv'
<1>1. RInv'
  BY ReturnRInv, FailRInv DEF LInv
<1>2. /\ worker[x] = "running"
      /\ UNCHANGED <<config, undispatched, inFlight, successCount, errorCount>>
      /\ \/ worker' = [worker EXCEPT ![x] = "posted"] /\ undispatched[x] = 0 /\ inFlight[x] = 0
         \/ worker' = [worker EXCEPT ![x] = "failed"]
  BY DEF Return, AllSettled, Fail, load, metrics, server
<1>3. /\ \A y \in Runners : worker'[y] = "idle" <=> worker[y] = "idle"
      /\ \A y \in Runners : worker'[y] = "posted" =>
           worker[y] = "posted" \/ (undispatched[y] = 0 /\ inFlight[y] = 0)
  BY <1>2 DEF LInv, RInv, ServerTypes
<1>4. CountTypes' /\ ShareKept' /\ PostedSettled'
  BY <1>2, <1>3 DEF LInv, CountTypes, ShareKept, PostedSettled, Share
<1>5. QED
  BY <1>1, <1>4 DEF LInv

LEMMA NextLInv ==
  ASSUME LInv, [Next]_vars
  PROVE  LInv'
<1>1. CASE \E r \in Runs : RefuseRun(r) \/ RejectRun(r)
  <2>1. RInv'
    BY <1>1, TurnedAwayRInv DEF LInv
  <2>2. CountTypes' /\ ShareKept' /\ PostedSettled'
    BY <1>1 DEF RefuseRun, RejectRun, load, metrics, LInv, CountTypes, ShareKept, PostedSettled,
                Share
  <2>3. QED
    BY <2>1, <2>2 DEF LInv
<1>2. CASE UNCHANGED vars
  <2>1. RInv'
    BY <1>2, UnchangedRInv DEF vars, LInv
  <2>2. CountTypes' /\ ShareKept' /\ PostedSettled'
    BY <1>2 DEF vars, server, load, metrics, LInv, CountTypes, ShareKept, PostedSettled, Share
  <2>3. QED
    BY <2>1, <2>2 DEF LInv
<1>3. QED
  BY <1>1, <1>2, StartRunLInv, DispatchLInv, RecordLInv, EndedLInv DEF Next

\* When a run completes, each of its runners has counted its whole share: no request
\* is dropped in the wait for those in flight, and none is counted twice.
LEMMA CompletesCounted ==
  ASSUME LInv, Next, NEW r \in Runs, Completes(r), NEW x \in Runners, x \in RunnersOf(r)
  PROVE  successCount[x] + errorCount[x] = Share(config[r], x[2])
<1>1. reply[r] = "pending" /\ reply'[r] = "200"
  BY DEF Completes
<1>2. PICK y \in Runners : Return(y)
  <2>1. ~\E s \in Runs : RefuseRun(s) \/ RejectRun(s) \/ StartRun(s)
    BY <1>1 DEF RefuseRun, RejectRun, StartRun, Spawn, LInv, RInv, ServerTypes
  <2>2. ~\E y \in Runners : Dispatch(y) \/ Record(y)
    BY <1>1 DEF Dispatch, Record, server
  <2>3. ~\E y \in Runners : Fail(y)
    BY <1>1 DEF Fail, server, LInv, RInv, ServerTypes
  <2>4. QED
    BY <2>1, <2>2, <2>3 DEF Next
<1>3. /\ y[1] = r /\ \A z \in RunnersOf(y[1]) : worker'[z] = "posted"
      /\ worker' = [worker EXCEPT ![y] = "posted"]
  BY <1>1, <1>2, ReturnFacts DEF server, LInv, RInv, ServerTypes
<1>4. undispatched[y] = 0 /\ inFlight[y] = 0 /\ worker[y] = "running"
  BY <1>2 DEF Return, AllSettled
<1>5. x = y \/ worker[x] = "posted"
  BY <1>3 DEF LInv, RInv, ServerTypes
<1>6. undispatched[x] = 0 /\ inFlight[x] = 0 /\ worker[x] # "idle" /\ x[1] = r
  BY <1>4, <1>5 DEF LInv, PostedSettled, RunnersOf
<1>7. successCount[x] \in Nat /\ errorCount[x] \in Nat
  BY DEF LInv, CountTypes
<1>8. undispatched[x] + inFlight[x] + successCount[x] + errorCount[x] = Share(config[r], x[2])
  BY <1>6 DEF LInv, ShareKept
<1>9. QED
  BY <1>6, <1>7, <1>8

-----------------------------------------------------------------------------
(* Counting in sequences *)

\* How many entries of the sequence s are among these.
CountIn(s, times) == Cardinality({n \in DOMAIN s : s[n] \in times})

LEMMA CountAppend ==
  ASSUME NEW S, NEW s \in Seq(S), NEW x \in S, NEW times
  PROVE  /\ CountIn(s, times) \in Nat
         /\ CountIn(Append(s, x), times) = CountIn(s, times) + (IF x \in times THEN 1 ELSE 0)
<1> DEFINE n == Len(s)
           t == Append(s, x)
           A == {i \in 1..n : s[i] \in times}
           B == {i \in 1..(n + 1) : t[i] \in times}
<1>1. /\ n \in Nat /\ DOMAIN s = 1..n
      /\ DOMAIN t = 1..(n + 1) /\ t[n + 1] = x /\ \A i \in 1..n : t[i] = s[i]
  BY AppendProperties, LenProperties
<1> HIDE DEF n, t
<1>2. IsFiniteSet(A)
  <2>1. IsFiniteSet(1..n)
    BY <1>1, FS_Interval
  <2>2. A \in SUBSET (1..n)
    OBVIOUS
  <2> HIDE DEF A
  <2>3. QED
    BY <2>1, <2>2, FS_Subset
<1>3. B = IF x \in times THEN A \union {n + 1} ELSE A
  <2>1. \A i \in 1..(n + 1) : i \in 1..n \/ i = n + 1
    BY <1>1
  <2>2. \A i \in 1..n : i \in 1..(n + 1)
    BY <1>1
  <2>3. n + 1 \in 1..(n + 1)
    BY <1>1
  <2>4. QED
    BY <1>1, <2>1, <2>2, <2>3
<1>4. n + 1 \notin A
  BY <1>1
<1>5. CountIn(s, times) = Cardinality(A) /\ CountIn(t, times) = Cardinality(B)
  BY <1>1 DEF CountIn
<1> HIDE DEF A, B
<1>6. Cardinality(A) \in Nat
  BY <1>2, FS_CardinalityType
<1>7. Cardinality(A \union {n + 1}) = Cardinality(A) + 1
  BY <1>2, <1>4, FS_AddElement
<1>8. CountIn(t, times) = CountIn(s, times) + (IF x \in times THEN 1 ELSE 0)
  BY <1>3, <1>5, <1>6, <1>7
<1>9. QED
  BY <1>5, <1>6, <1>8 DEF t

LEMMA CountConcat ==
  ASSUME NEW S, NEW s \in Seq(S), NEW times, NEW r \in Seq(S)
  PROVE  CountIn(s \o r, times) = CountIn(s, times) + CountIn(r, times)
<1> DEFINE T == {t \in Seq(S) : CountIn(s \o t, times) = CountIn(s, times) + CountIn(t, times)}
<1>1. <<>> \in T
  <2>1. CountIn(<<>>, times) = 0
    <3>1. {n \in DOMAIN <<>> : <<>>[n] \in times} = {}
      OBVIOUS
    <3>2. QED
      BY <3>1, FS_EmptySet DEF CountIn
  <2>2. s \o <<>> = s /\ <<>> \in Seq(S)
    BY EmptySeq
  <2>3. CountIn(s, times) \in Nat
    <3>1. IsFiniteSet(DOMAIN s)
      BY LenProperties, FS_Interval
    <3>2. QED
      BY <3>1, FS_Subset, FS_CardinalityType DEF CountIn
  <2>4. QED
    BY <2>1, <2>2, <2>3
<1>2. ASSUME NEW t \in T, NEW x \in S PROVE Append(t, x) \in T
  <2>1. t \in Seq(S) /\ s \o t \in Seq(S) /\ Append(t, x) \in Seq(S)
    BY AppendProperties, ConcatProperties
  <2>2. s \o Append(t, x) = Append(s \o t, x)
    BY <2>1, ConcatAppend
  <2> DEFINE i == IF x \in times THEN 1 ELSE 0
  <2>3. /\ CountIn(s \o t, times) \in Nat /\ CountIn(t, times) \in Nat /\ CountIn(s, times) \in Nat
        /\ CountIn(Append(s \o t, x), times) = CountIn(s \o t, times) + i
        /\ CountIn(Append(t, x), times) = CountIn(t, times) + i
    <3> DEFINE st == s \o t
    <3>1. st \in Seq(S) /\ t \in Seq(S)
      BY <2>1
    <3> HIDE DEF st, T
    <3>2. CountIn(st, times) \in Nat /\ CountIn(Append(st, x), times) = CountIn(st, times) + i
      BY <3>1, CountAppend
    <3>3. CountIn(t, times) \in Nat /\ CountIn(Append(t, x), times) = CountIn(t, times) + i
      BY <3>1, CountAppend
    <3>4. CountIn(s, times) \in Nat
      BY CountAppend
    <3>5. QED
      BY <3>2, <3>3, <3>4 DEF st
  <2>4. i \in Nat
    OBVIOUS
  <2>5. CountIn(s \o t, times) = CountIn(s, times) + CountIn(t, times)
    OBVIOUS
  <2> HIDE DEF i, T
  <2>6. CountIn(s \o Append(t, x), times) = CountIn(s, times) + CountIn(Append(t, x), times)
    BY <2>2, <2>3, <2>4, <2>5
  <2>7. QED
    BY <2>1, <2>6 DEF T
<1> HIDE DEF T
<1>3. T = Seq(S)
  <2>1. T \in SUBSET Seq(S)
    BY DEF T
  <2>2. QED
    BY <1>1, <1>2, <2>1, SequencesInduction
<1>4. QED
  BY <1>3 DEF T

-----------------------------------------------------------------------------
(* Sorting *)

Ascending(s) == \A i, j \in 1..Len(s) : i <= j => s[i] <= s[j]

\* What is inserted is counted, and what is in order stays so.
LEMMA InsertFacts ==
  ASSUME NEW s \in Seq(Nat), NEW x \in Nat
  PROVE  /\ Insert(s, x) \in Seq(Nat)
         /\ Len(Insert(s, x)) = Len(s) + 1
         /\ \A times : CountIn(Insert(s, x), times)
                         = CountIn(s, times) + (IF x \in times THEN 1 ELSE 0)
         /\ Ascending(s) => Ascending(Insert(s, x))
<1> DEFINE l == Len(s)
           Larger == {i \in 1..l : s[i] > x}
           Place(n) == /\ \A i \in 1..n : s[i] <= x
                       /\ n < l => s[n + 1] > x
           n == CHOOSE k \in 0..l : Place(k)
<1>1. l \in Nat /\ DOMAIN s = 1..l /\ \A i \in 1..l : s[i] \in Nat
  BY LenProperties, ElementOfSeq
<1>2. \E k \in 0..l : Place(k)
  <2>1. CASE Larger = {}
    <3>1. \A i \in 1..l : s[i] <= x
      BY <1>1, <2>1
    <3>2. Place(l) /\ l \in 0..l
      BY <1>1, <3>1
    <3>3. QED
      BY <3>2
  <2>2. CASE Larger # {}
    <3>1. Larger \in SUBSET Nat
      OBVIOUS
    <3> HIDE DEF Larger
    <3>2. PICK j \in Larger : \A i \in Larger : j <= i
      BY <2>2, <3>1, LeastNat
    <3>3. j \in 1..l /\ s[j] > x
      BY <3>2 DEF Larger
    <3>4. ASSUME NEW i \in 1..(j - 1) PROVE s[i] <= x
      <4>1. i \in 1..l /\ i < j
        BY <3>3, <1>1
      <4>2. i \notin Larger
        BY <3>2, <3>3, <4>1
      <4>3. QED
        BY <1>1, <4>1, <4>2 DEF Larger
    <3>5. j - 1 \in 0..l /\ (j - 1) + 1 = j
      BY <1>1, <3>3
    <3>6. QED
      BY <3>3, <3>4, <3>5
  <2>3. QED
    BY <2>1, <2>2
<1> HIDE DEF Place, Larger
<1>3. n \in 0..l /\ Place(n)
  BY <1>2
<1>4. Insert(s, x) = InsertAt(s, n + 1, x)
  BY DEF Insert, Place
<1> HIDE DEF n
<1> DEFINE a == SubSeq(s, 1, n)
           b == SubSeq(s, n + 1, l)
<1>5. Insert(s, x) = Append(a, x) \o b
  <2>1. (n + 1) - 1 = n
    BY <1>3
  <2>2. Insert(s, x) = (a \o <<x>>) \o b
    BY <1>4, <2>1 DEF InsertAt
  <2>3. a \in Seq(Nat)
    BY <1>1, <1>3
  <2> HIDE DEF a, b
  <2>4. a \o <<x>> = Append(a, x)
    BY <2>3, AppendIsConcat
  <2>5. QED
    BY <2>2, <2>4
<1>6. /\ a \in Seq(Nat) /\ Len(a) = n /\ \A i \in 1..n : a[i] = s[i]
      /\ b \in Seq(Nat) /\ Len(b) = l - n /\ \A i \in 1..(l - n) : b[i] = s[n + i]
  <2> HIDE DEF l
  <2>1. /\ 1 \in Int /\ n \in Int /\ n + 1 \in Int /\ l \in Int
        /\ \A i \in 1..n : s[i] \in Nat
        /\ \A i \in (n + 1)..l : s[i] \in Nat
    BY <1>1, <1>3
  <2>2. /\ a \in Seq(Nat) /\ Len(a) = IF 1 <= n THEN n - 1 + 1 ELSE 0
        /\ \A i \in 1..(n - 1 + 1) : a[i] = s[1 + i - 1]
    BY <2>1, SubSeqProperties
  <2>3. /\ b \in Seq(Nat) /\ Len(b) = IF n + 1 <= l THEN l - (n + 1) + 1 ELSE 0
        /\ \A i \in 1..(l - (n + 1) + 1) : b[i] = s[n + 1 + i - 1]
    BY <2>1, SubSeqProperties
  <2> HIDE DEF a, b
  <2>4. /\ n - 1 + 1 = n /\ l - (n + 1) + 1 = l - n
        /\ \A i \in 1..n : 1 + i - 1 = i
        /\ \A i \in 1..(l - n) : n + 1 + i - 1 = n + i
        /\ ~(1 <= n) => n = 0
        /\ ~(n + 1 <= l) => l - n = 0
    BY <1>1, <1>3
  <2>5. QED
    BY <2>2, <2>3, <2>4
<1> HIDE DEF a, b
<1>7. s = a \o b
  <2> DEFINE c == a \o b
  <2>1. c \in Seq(Nat) /\ Len(c) = n + (l - n)
        /\ \A i \in 1..(n + (l - n)) : c[i] = IF i <= n THEN a[i] ELSE b[i - n]
    <3>1. a \in Seq(Nat) /\ b \in Seq(Nat)
      BY <1>6
    <3>2. /\ c \in Seq(Nat) /\ Len(c) = Len(a) + Len(b)
          /\ \A i \in 1..(Len(a) + Len(b)) : c[i] = IF i <= Len(a) THEN a[i] ELSE b[i - Len(a)]
      BY <3>1, ConcatProperties
    <3> HIDE DEF c, l
    <3>3. Len(a) = n /\ Len(b) = l - n
      BY <1>6
    <3>4. QED
      BY <3>2, <3>3
  <2> HIDE DEF c
  <2>2. n + (l - n) = l
    BY <1>1, <1>3
  <2>3. \A i \in 1..l : c[i] = s[i]
    <3> TAKE i \in 1..l
    <3>1. CASE i <= n
      BY <1>1, <1>3, <1>6, <2>1, <2>2, <3>1
    <3>2. CASE i > n
      <4>1. i - n \in 1..(l - n) /\ n + (i - n) = i /\ ~(i <= n)
        BY <1>1, <1>3, <3>2
      <4>2. QED
        BY <1>6, <2>1, <2>2, <4>1
    <3>3. QED
      BY <1>3, <3>1, <3>2
  <2>4. Len(s) = Len(c)
    BY <2>1, <2>2
  <2>5. c = s
    BY <2>1, <2>3, <2>4, SeqEqual
  <2>6. QED
    BY <2>5 DEF c
<1> DEFINE d == Append(a, x)
           e == d \o b
<1>8. d \in Seq(Nat) /\ Len(d) = n + 1 /\ d[n + 1] = x /\ \A i \in 1..n : d[i] = s[i]
  BY <1>6, AppendProperties
<1> HIDE DEF d
<1>9. /\ e \in Seq(Nat) /\ Len(e) = l + 1
      /\ \A i \in 1..n : e[i] = s[i]
      /\ e[n + 1] = x
      /\ \A i \in (n + 2)..(l + 1) : e[i] = s[i - 1]
  <2>1. e \in Seq(Nat) /\ Len(e) = (n + 1) + (l - n)
        /\ \A i \in 1..((n + 1) + (l - n)) : e[i] = IF i <= n + 1 THEN d[i] ELSE b[i - (n + 1)]
    <3>1. d \in Seq(Nat) /\ b \in Seq(Nat)
      BY <1>6, <1>8
    <3>2. /\ e \in Seq(Nat) /\ Len(e) = Len(d) + Len(b)
          /\ \A i \in 1..(Len(d) + Len(b)) : e[i] = IF i <= Len(d) THEN d[i] ELSE b[i - Len(d)]
      BY <3>1, ConcatProperties
    <3> HIDE DEF e, l
    <3>3. Len(d) = n + 1 /\ Len(b) = l - n
      BY <1>6, <1>8
    <3>4. QED
      BY <3>2, <3>3
  <2> HIDE DEF e
  <2>2. (n + 1) + (l - n) = l + 1
    BY <1>1, <1>3
  <2>3. \A i \in 1..n : e[i] = s[i]
    <3>1. \A i \in 1..n : i \in 1..(l + 1) /\ i <= n + 1
      BY <1>1, <1>3
    <3>2. QED
      BY <1>8, <2>1, <2>2, <3>1
  <2>4. e[n + 1] = x
    <3>1. n + 1 \in 1..(l + 1) /\ n + 1 <= n + 1
      BY <1>1, <1>3
    <3>2. QED
      BY <1>8, <2>1, <2>2, <3>1
  <2>5. ASSUME NEW i \in (n + 2)..(l + 1) PROVE e[i] = s[i - 1]
    <3>1. /\ i \in 1..(l + 1) /\ ~(i <= n + 1)
          /\ i - (n + 1) \in 1..(l - n) /\ n + (i - (n + 1)) = i - 1
      BY <1>1, <1>3
    <3>2. QED
      BY <1>6, <2>1, <2>2, <3>1
  <2>6. QED
    BY <2>1, <2>2, <2>3, <2>4, <2>5
<1>10. ASSUME NEW times
       PROVE  CountIn(e, times) = CountIn(s, times) + (IF x \in times THEN 1 ELSE 0)
  <2>1. CountIn(e, times) = CountIn(d, times) + CountIn(b, times)
    <3>1. d \in Seq(Nat) /\ b \in Seq(Nat)
      BY <1>6, <1>8
    <3>2. QED
      BY <3>1, CountConcat
  <2>2. /\ CountIn(d, times) = CountIn(a, times) + (IF x \in times THEN 1 ELSE 0)
        /\ CountIn(a, times) \in Nat /\ CountIn(b, times) \in Nat
    <3>1. a \in Seq(Nat) /\ b \in Seq(Nat)
      BY <1>6
    <3>2. CountIn(b, times) \in Nat
      BY <3>1, CountAppend
    <3>3. QED
      BY <3>1, <3>2, CountAppend DEF d
  <2>3. CountIn(s, times) = CountIn(a, times) + CountIn(b, times)
    BY <1>6, <1>7, CountConcat
  <2> HIDE DEF e
  <2>4. QED
    BY <2>1, <2>2, <2>3
<1> HIDE DEF e
<1>11. ASSUME Ascending(s) PROVE Ascending(e)
  <2> SUFFICES ASSUME NEW i \in 1..(l + 1), NEW j \in 1..(l + 1), i <= j
               PROVE  e[i] <= e[j]
    BY <1>9 DEF Ascending
  <2>1. \A k, m \in 1..l : k <= m => s[k] <= s[m]
    BY <1>11 DEF Ascending
  <2>2. /\ \A k \in 1..n : k \in 1..l /\ s[k] <= x
        /\ n < l => n + 1 \in 1..l /\ s[n + 1] > x
    BY <1>1, <1>3 DEF Place
  <2>3. CASE i <= n /\ j <= n
    BY <1>9, <2>1, <2>2, <2>3
  <2>4. CASE i <= n /\ j = n + 1
    <3>1. i \in 1..n
      BY <1>3, <2>4
    <3>2. QED
      BY <1>9, <2>2, <2>4, <3>1
  <2>5. CASE i <= n /\ j > n + 1
    <3>1. i \in 1..l /\ j - 1 \in 1..l /\ i <= j - 1 /\ e[i] = s[i] /\ e[j] = s[j - 1]
      BY <1>1, <1>3, <1>9, <2>5
    <3>2. QED
      BY <2>1, <3>1
  <2>6. CASE i = n + 1 /\ j = n + 1
    BY <1>9, <2>6
  <2>7. CASE i = n + 1 /\ j > n + 1
    <3>1. n < l /\ j - 1 \in 1..l /\ n + 1 <= j - 1 /\ e[i] = x /\ e[j] = s[j - 1]
      BY <1>1, <1>3, <1>9, <2>7
    <3>2. s[n + 1] <= s[j - 1] /\ s[n + 1] > x /\ s[n + 1] \in Nat /\ s[j - 1] \in Nat
      BY <1>1, <2>1, <2>2, <3>1
    <3>3. QED
      BY <3>1, <3>2
  <2>8. CASE i > n + 1
    <3>1. i - 1 \in 1..l /\ j - 1 \in 1..l /\ i - 1 <= j - 1 /\ e[i] = s[i - 1] /\ e[j] = s[j - 1]
      BY <1>1, <1>3, <1>9, <2>8
    <3>2. QED
      BY <2>1, <3>1
  <2>9. QED
    BY <1>1, <1>3, <2>3, <2>4, <2>5, <2>6, <2>7, <2>8
<1>12. Insert(s, x) = e
  BY <1>5 DEF d, e
<1>13. QED
  BY <1>9, <1>10, <1>11, <1>12

\* One round of the sort: g is what the rounds before have made of s.
SortBody(s, g, n) == IF n = 0 THEN <<>> ELSE Insert(g[n - 1], s[n])

LEMMA SortExists ==
  ASSUME NEW s, NEW l \in Nat
  PROVE  \E g : g = [n \in 0..l |-> SortBody(s, g, n)]
<1> DEFINE P(m) == \E g : g = [n \in 0..m |-> SortBody(s, g, n)]
           T == {m \in Nat : P(m)}
<1>1. P(0)
  <2> DEFINE g == [n \in 0..0 |-> <<>>]
  <2>1. \A n \in 0..0 : SortBody(s, g, n) = <<>>
    BY DEF SortBody
  <2>2. g = [n \in 0..0 |-> g[n]] /\ \A n \in 0..0 : g[n] = <<>>
    OBVIOUS
  <2> HIDE DEF g
  <2>3. g = [n \in 0..0 |-> SortBody(s, g, n)]
    BY <2>1, <2>2
  <2>4. QED
    BY <2>3
<1>2. ASSUME NEW m \in Nat, P(m) PROVE P(m + 1)
  <2>1. PICK g : g = [n \in 0..m |-> SortBody(s, g, n)]
    BY <1>2
  <2> DEFINE h == [n \in 0..(m + 1) |-> SortBody(s, g, n)]
  <2>2. h = [n \in 0..(m + 1) |-> h[n]] /\ \A n \in 0..(m + 1) : h[n] = SortBody(s, g, n)
    OBVIOUS
  <2>3. \A n \in 0..m : g[n] = SortBody(s, g, n)
    BY <2>1
  <2> HIDE DEF h
  <2>4. \A n \in 0..m : h[n] = g[n]
    BY <2>2, <2>3
  <2>5. ASSUME NEW n \in 0..(m + 1) PROVE h[n] = SortBody(s, h, n)
    <3>1. n # 0 => h[n - 1] = g[n - 1]
      BY <2>4
    <3>2. QED
      BY <2>2, <3>1 DEF SortBody
  <2>6. h = [n \in 0..(m + 1) |-> SortBody(s, h, n)]
    BY <2>2, <2>5
  <2>7. QED
    BY <2>6
<1> HIDE DEF P
<1>3. T = Nat
  <2>1. 0 \in T /\ \A m \in T : m + 1 \in T
    BY <1>1, <1>2
  <2>2. QED
    BY <2>1, Induction
<1>4. P(l)
  BY <1>3
<1>5. QED
  BY <1>4 DEF P

\* Sorting keeps every entry and brings them in order.
LEMMA SortedFacts ==
  ASSUME NEW s \in Seq(Nat)
  PROVE  /\ Sorted(s) \in Seq(Nat)
         /\ Len(Sorted(s)) = Len(s)
         /\ Ascending(Sorted(s))
         /\ \A times : CountIn(Sorted(s), times) = CountIn(s, times)
<1> DEFINE l == Len(s)
           Q(g) == g = [n \in 0..l |-> SortBody(s, g, n)]
           Prefix(k) == SubSeq(s, 1, k)
<1>1. l \in Nat /\ DOMAIN s = 1..l /\ \A i \in 1..l : s[i] \in Nat
  BY LenProperties, ElementOfSeq
<1>2. Sorted(s) = (CHOOSE g : Q(g))[l]
  BY DEF Sorted, SortBody
<1> HIDE DEF l
<1>3. Q(CHOOSE g : Q(g))
  BY <1>1, SortExists
<1>4. PICK g : Q(g) /\ Sorted(s) = g[l]
  BY <1>2, <1>3
<1>5. \A n \in 0..l : g[n] = SortBody(s, g, n)
  BY <1>4
<1> HIDE DEF Q
<1>6. /\ Prefix(0) = <<>>
      /\ Prefix(l) = s
      /\ \A k \in 0..l : Prefix(k) \in Seq(Nat)
      /\ \A k \in 0..l : k < l => Prefix(k + 1) = Append(Prefix(k), s[k + 1])
  <2>1. Prefix(0) = <<>> /\ Prefix(l) = s
    BY <1>1 DEF l
  <2>2. \A k \in 0..l : Prefix(k) \in Seq(Nat)
    BY <1>1
  <2>3. ASSUME NEW k \in 0..l, k < l PROVE Prefix(k + 1) = Append(Prefix(k), s[k + 1])
    BY <1>1, <2>3
  <2>4. QED
    BY <2>1, <2>2, <2>3
<1> HIDE DEF Prefix
<1> DEFINE Done(k) == /\ g[k] \in Seq(Nat)
                      /\ Len(g[k]) = k
                      /\ Ascending(g[k])
                      /\ \A times : CountIn(g[k], times) = CountIn(Prefix(k), times)
           T == {k \in Nat : k <= l => Done(k)}
<1>7. 0 \in T
  <2>1. g[0] = <<>>
    BY <1>1, <1>5 DEF SortBody
  <2>2. Ascending(<<>>)
    BY DEF Ascending
  <2>3. Done(0)
    BY <1>6, <2>1, <2>2, EmptySeq
  <2>4. QED
    BY <2>3
<1>8. ASSUME NEW k \in T PROVE k + 1 \in T
  <2> SUFFICES ASSUME k + 1 <= l PROVE Done(k + 1)
    OBVIOUS
  <2>1. k \in 0..l /\ k < l /\ k + 1 \in 0..l /\ k + 1 \in 1..l /\ (k + 1) - 1 = k /\ k + 1 # 0
    BY <1>1
  <2>2. Done(k)
    BY <2>1
  <2>3. g[k + 1] = Insert(g[k], s[k + 1])
    BY <1>5, <2>1 DEF SortBody
  <2>4. s[k + 1] \in Nat /\ Prefix(k) \in Seq(Nat) /\ Prefix(k + 1) = Append(Prefix(k), s[k + 1])
    BY <1>1, <1>6, <2>1
  <2>5. /\ g[k + 1] \in Seq(Nat)
        /\ Len(g[k + 1]) = k + 1
        /\ Ascending(g[k + 1])
        /\ \A times : CountIn(g[k + 1], times)
                        = CountIn(g[k], times) + (IF s[k + 1] \in times THEN 1 ELSE 0)
    <3> DEFINE a == g[k]
               x == s[k + 1]
    <3>1. a \in Seq(Nat) /\ x \in Nat /\ Len(a) = k /\ Ascending(a)
      BY <2>2, <2>4
    <3> HIDE DEF a, x
    <3>2. /\ Insert(a, x) \in Seq(Nat)
          /\ Len(Insert(a, x)) = k + 1
          /\ Ascending(Insert(a, x))
          /\ \A times : CountIn(Insert(a, x), times)
                          = CountIn(a, times) + (IF x \in times THEN 1 ELSE 0)
      BY <3>1, InsertFacts
    <3>3. QED
      BY <2>3, <3>2 DEF a, x
  <2>6. \A times : CountIn(Prefix(k + 1), times)
                     = CountIn(Prefix(k), times) + (IF s[k + 1] \in times THEN 1 ELSE 0)
    <3> DEFINE a == Prefix(k)
               x == s[k + 1]
    <3>1. a \in Seq(Nat) /\ x \in Nat
      BY <2>4
    <3> HIDE DEF a, x
    <3>2. \A times : CountIn(Append(a, x), times)
                       = CountIn(a, times) + (IF x \in times THEN 1 ELSE 0)
      <4> TAKE times
      <4> HIDE DEF T, Done
      <4>1. QED
        BY <3>1, CountAppend
    <3>3. QED
      BY <2>4, <3>2 DEF a, x
  <2>7. QED
    BY <2>2, <2>5, <2>6
<1> HIDE DEF Done
<1>9. T = Nat
  BY <1>7, <1>8, Induction
<1>10. Done(l)
  BY <1>1, <1>9
<1>11. QED
  BY <1>4, <1>6, <1>10 DEF Done, l
-----------------------------------------------------------------------------
(* Pooling the latencies of the workers *)

\* One step of FlattenSeq: g is what the steps before have made of q.
FlatBody(q, g, i) == IF i = 1 THEN q[i] ELSE g[i - 1] \o q[i]

LEMMA FlatExists ==
  ASSUME NEW q, NEW l \in Nat
  PROVE  \E g : g = [i \in 1..l |-> FlatBody(q, g, i)]
<1> DEFINE P(m) == \E g : g = [i \in 1..m |-> FlatBody(q, g, i)]
           T == {m \in Nat : P(m)}
<1>1. P(0)
  <2> DEFINE g == [i \in 1..0 |-> 0]
  <2>1. g = [i \in 1..0 |-> g[i]] /\ \A i \in 1..0 : FALSE
    OBVIOUS
  <2> HIDE DEF g
  <2>2. g = [i \in 1..0 |-> FlatBody(q, g, i)]
    BY <2>1
  <2>3. QED
    BY <2>2
<1>2. ASSUME NEW m \in Nat, P(m) PROVE P(m + 1)
  <2>1. PICK g : g = [i \in 1..m |-> FlatBody(q, g, i)]
    BY <1>2
  <2> DEFINE h == [i \in 1..(m + 1) |-> FlatBody(q, g, i)]
  <2>2. h = [i \in 1..(m + 1) |-> h[i]] /\ \A i \in 1..(m + 1) : h[i] = FlatBody(q, g, i)
    OBVIOUS
  <2>3. \A i \in 1..m : g[i] = FlatBody(q, g, i)
    BY <2>1
  <2> HIDE DEF h
  <2>4. \A i \in 1..m : h[i] = g[i]
    BY <2>2, <2>3
  <2>5. ASSUME NEW i \in 1..(m + 1) PROVE h[i] = FlatBody(q, h, i)
    <3>1. i # 1 => h[i - 1] = g[i - 1]
      BY <2>4
    <3>2. QED
      BY <2>2, <3>1 DEF FlatBody
  <2>6. h = [i \in 1..(m + 1) |-> FlatBody(q, h, i)]
    BY <2>2, <2>5
  <2>7. QED
    BY <2>6
<1> HIDE DEF P
<1>3. T = Nat
  <2>1. 0 \in T /\ \A m \in T : m + 1 \in T
    BY <1>1, <1>2
  <2>2. QED
    BY <2>1, Induction
<1>4. P(l)
  BY <1>3
<1>5. QED
  BY <1>4 DEF P

\* The lengths of the sequences, and how many of their entries are among these.
Lengths(q, t) == [i \in 1..t |-> Len(q[i])]
Counts(q, t, times) == [i \in 1..t |-> CountIn(q[i], times)]

\* Flattening keeps every entry.
LEMMA FlattenFacts ==
  ASSUME NEW S, NEW t \in Nat \ {0}, NEW q, Len(q) = t,
         \A i \in 1..t : q[i] \in Seq(S)
  PROVE  /\ FlattenSeq(q) \in Seq(S)
         /\ Len(FlattenSeq(q)) = SumFunctionOnSet(Lengths(q, t), 1..t)
         /\ \A times : CountIn(FlattenSeq(q), times)
                         = SumFunctionOnSet(Counts(q, t, times), 1..t)
<1> DEFINE Q(g) == g = [i \in 1..t |-> FlatBody(q, g, i)]
<1>1. FlattenSeq(q) = (CHOOSE g : Q(g))[t]
  BY DEF FlattenSeq, FlatBody
<1>2. Q(CHOOSE g : Q(g))
  BY FlatExists
<1>3. PICK g : Q(g) /\ FlattenSeq(q) = g[t]
  BY <1>1, <1>2
<1>4. \A i \in 1..t : g[i] = FlatBody(q, g, i)
  BY <1>3
<1> HIDE DEF Q
<1>5. \A i \in 1..t : Lengths(q, t)[i] = Len(q[i]) /\ Len(q[i]) \in Nat
  BY LenProperties DEF Lengths
<1>6. ASSUME NEW times, NEW i \in 1..t
      PROVE  Counts(q, t, times)[i] = CountIn(q[i], times) /\ CountIn(q[i], times) \in Nat
  <2>1. q[i] \in Seq(S)
    OBVIOUS
  <2>2. CountIn(q[i], times) \in Nat
    <3> DEFINE s == q[i]
    <3>1. s \in Seq(S)
      BY <2>1
    <3> HIDE DEF s
    <3>2. IsFiniteSet(DOMAIN s)
      BY <3>1, LenProperties, FS_Interval
    <3>3. CountIn(s, times) \in Nat
      BY <3>2, FS_Subset, FS_CardinalityType DEF CountIn
    <3>4. QED
      BY <3>3 DEF s
  <2>3. QED
    BY <2>2 DEF Counts
<1> DEFINE Length(k) == SumFunctionOnSet(Lengths(q, t), 1..k)
           Count(k, times) == SumFunctionOnSet(Counts(q, t, times), 1..k)
           Done(k) == /\ g[k] \in Seq(S)
                      /\ Len(g[k]) = Length(k)
                      /\ \A times : CountIn(g[k], times) = Count(k, times)
           T == {k \in Nat : k < t => Done(k + 1)}
<1>7. ASSUME NEW k \in Nat, k < t
      PROVE  /\ Length(k + 1) = Length(k) + Len(q[k + 1])
             /\ \A times : Count(k + 1, times) = Count(k, times) + CountIn(q[k + 1], times)
  <2>1. \A i \in 1..(k + 1) : i \in 1..t
    BY <1>7
  <2>2. Length(k + 1) = Length(k) + Lengths(q, t)[k + 1]
    <3>1. \A i \in 1..(k + 1) : Lengths(q, t)[i] \in Nat
      BY <1>5, <2>1
    <3>2. QED
      BY <3>1, PrefixSum
  <2>3. ASSUME NEW times
        PROVE  Count(k + 1, times) = Count(k, times) + Counts(q, t, times)[k + 1]
    <3>1. \A i \in 1..(k + 1) : Counts(q, t, times)[i] \in Nat
      BY <1>6, <2>1
    <3>2. QED
      BY <3>1, PrefixSum
  <2>4. k + 1 \in 1..(k + 1)
    OBVIOUS
  <2> HIDE DEF Length, Count
  <2>5. QED
    BY <1>5, <1>6, <2>1, <2>2, <2>3, <2>4
<1>8. Length(0) = 0 /\ \A times : Count(0, times) = 0
  <2>1. 1..0 = {}
    OBVIOUS
  <2>2. QED
    BY <2>1, SumOfNone
<1> HIDE DEF Length, Count
<1>9. 0 \in T
  <2> SUFFICES Done(1)
    OBVIOUS
  <2>1. 0 \in Nat /\ 0 < t /\ 0 + 1 = 1 /\ 1 \in 1..t
    OBVIOUS
  <2>2. g[1] = q[1] /\ q[1] \in Seq(S)
    BY <1>4, <2>1 DEF FlatBody
  <2>3. Length(1) = 0 + Len(q[1]) /\ \A times : Count(1, times) = 0 + CountIn(q[1], times)
    BY <1>7, <1>8, <2>1
  <2>4. Len(q[1]) \in Nat /\ \A times : CountIn(q[1], times) \in Nat
    BY <1>5, <1>6, <2>1
  <2>5. QED
    BY <2>2, <2>3, <2>4
<1>10. ASSUME NEW k \in T PROVE k + 1 \in T
  <2> SUFFICES ASSUME k + 1 < t PROVE Done((k + 1) + 1)
    OBVIOUS
  <2> DEFINE j == k + 1
  <2>1. j \in Nat /\ j < t /\ j + 1 \in 1..t /\ j + 1 # 1 /\ (j + 1) - 1 = j
    OBVIOUS
  <2>2. Done(j)
    OBVIOUS
  <2> HIDE DEF j, T
  <2>3. g[j + 1] = g[j] \o q[j + 1] /\ q[j + 1] \in Seq(S)
    BY <1>4, <2>1 DEF FlatBody
  <2> DEFINE a == g[j]
             b == q[j + 1]
  <2>4. a \in Seq(S) /\ b \in Seq(S)
    BY <2>2, <2>3
  <2> HIDE DEF a, b
  <2>5. a \o b \in Seq(S) /\ Len(a \o b) = Len(a) + Len(b)
    BY <2>4, ConcatProperties
  <2>6. \A times : CountIn(a \o b, times) = CountIn(a, times) + CountIn(b, times)
    <3> TAKE times
    <3> HIDE DEF Done
    <3>1. QED
      BY <2>4, CountConcat
  <2>7. Length(j + 1) = Length(j) + Len(b)
        /\ \A times : Count(j + 1, times) = Count(j, times) + CountIn(b, times)
    BY <1>7, <2>1 DEF b
  <2>8. a = g[j] /\ g[j + 1] = a \o b
    BY <2>3 DEF a, b
  <2>9. Done(j + 1)
    BY <2>2, <2>5, <2>6, <2>7, <2>8
  <2>10. QED
    BY <2>9 DEF j
<1> HIDE DEF Done
<1>11. T = Nat
  BY <1>9, <1>10, Induction
<1>12. Done(t)
  <2>1. t - 1 \in Nat /\ t - 1 < t /\ (t - 1) + 1 = t
    OBVIOUS
  <2>2. t - 1 \in T
    BY <1>11, <2>1
  <2>3. QED
    BY <2>1, <2>2
<1>13. QED
  BY <1>3, <1>12 DEF Done, Length, Count

\* The shares of all workers are the whole rate.
LEMMA SharesSum ==
  ASSUME NEW c, c.rps \in Nat, c.threads \in Nat \ {0},
         NEW h, \A i \in 1..c.threads : h[i] = Share(c, i)
  PROVE  SumFunctionOnSet(h, 1..c.threads) = c.rps
<1> DEFINE t == c.threads
           first == Share(c, 1)
           other == Share(c, 2)
           H(k) == SumFunctionOnSet(h, 1..k)
           T == {k \in Nat : k < t => H(k + 1) = first + k * other}
<1>1. /\ t \in Nat /\ t > 0 /\ first \in Nat /\ other \in Nat
      /\ first + (t - 1) * other = c.rps
      /\ \A i \in 1..t : h[i] \in Nat /\ h[i] = IF i = 1 THEN first ELSE other
  <2>1. /\ \A i \in Nat : Share(c, i) \in Nat
        /\ \A i, j \in Nat \ {1} : Share(c, i) = Share(c, j)
        /\ first + (t - 1) * other = c.rps
    BY SharesAddUp
  <2>2. \A i \in 1..t : i \in Nat
    OBVIOUS
  <2>3. 1 \in Nat /\ 2 \in Nat \ {1}
    OBVIOUS
  <2>4. QED
    BY <2>1, <2>2, <2>3
<1> HIDE DEF t, first, other
<1>2. ASSUME NEW k \in Nat, k < t PROVE H(k + 1) = H(k) + h[k + 1] /\ H(k) \in Nat
  <2>1. \A i \in 1..(k + 1) : h[i] \in Nat
    BY <1>1, <1>2
  <2>2. QED
    BY <2>1, PrefixSum
<1>3. 0 \in T
  <2>1. H(0) = 0
    <3>1. 1..0 = {}
      OBVIOUS
    <3>2. QED
      BY <3>1, SumOfNone
  <2> HIDE DEF H
  <2>2. H(0 + 1) = H(0) + h[0 + 1]
    BY <1>1, <1>2
  <2>3. h[0 + 1] = first
    BY <1>1
  <2>4. QED
    BY <1>1, <2>1, <2>2, <2>3
<1>4. ASSUME NEW k \in T PROVE k + 1 \in T
  <2> SUFFICES ASSUME k + 1 < t PROVE H((k + 1) + 1) = first + (k + 1) * other
    OBVIOUS
  <2>1. k \in Nat /\ H(k + 1) = first + k * other
    BY <1>1
  <2>2. H((k + 1) + 1) = H(k + 1) + h[(k + 1) + 1]
    BY <1>2, <2>1
  <2>3. h[(k + 1) + 1] = other
    BY <1>1, <2>1
  <2>4. (k + 1) * other = k * other + other /\ k * other \in Nat
    BY <1>1, <2>1
  <2> HIDE DEF H
  <2>5. QED
    BY <1>1, <2>1, <2>2, <2>3, <2>4
<1> HIDE DEF H
<1>5. T = Nat
  BY <1>3, <1>4, Induction
<1>6. H(t) = first + (t - 1) * other
  <2>1. t - 1 \in Nat /\ t - 1 < t /\ (t - 1) + 1 = t
    BY <1>1
  <2>2. t - 1 \in T
    BY <1>5, <2>1
  <2>3. QED
    BY <2>1, <2>2
<1>7. QED
  BY <1>1, <1>6 DEF H, t
-----------------------------------------------------------------------------
(* What a run reports *)

LEMMA SumIsSum == \A f : Sum(f) = SumFunctionOnSet(f, DOMAIN f)
BY DEF Sum, FoldSeq, FoldFunction, SumFunctionOnSet

\* The entries of the t sequences of q, each once and in order.
Pools(sorted, q, t) ==
  /\ sorted \in Seq(Nat)
  /\ Len(sorted) = SumFunctionOnSet(Lengths(q, t), 1..t)
  /\ Ascending(sorted)
  /\ \A times : CountIn(sorted, times) = SumFunctionOnSet(Counts(q, t, times), 1..t)

LEMMA SnapshotFacts ==
  ASSUME NEW sorted \in Seq(Nat), NEW a, NEW b
  PROVE  /\ Len(sorted) # 0 => /\ Snapshot(sorted, a, b).total = Len(sorted)
                               /\ Snapshot(sorted, a, b).success = a
                               /\ Snapshot(sorted, a, b).error = b
                               /\ Snapshot(sorted, a, b).percentiles
                                    = [p \in Ranks |-> Percentile(sorted, p)]
         /\ Len(sorted) = 0 => /\ Snapshot(sorted, a, b).success = 0
                               /\ Snapshot(sorted, a, b).error = 0
<1>1. sorted = <<>> <=> Len(sorted) = 0
  BY EmptySeq
<1>2. QED
  BY <1>1 DEF Snapshot, NoRequests

LEMMA SnapshotCounts ==
  ASSUME NEW s \in Seq(Nat), NEW x \in Nat, NEW y \in Nat, x + y = Len(s)
  PROVE  Snapshot(s, x, y).success = x /\ Snapshot(s, x, y).error = y
<1>1. s = <<>> <=> Len(s) = 0
  BY EmptySeq
<1>2. Len(s) = 0 => x = 0 /\ y = 0
  OBVIOUS
<1>3. QED
  BY <1>1, <1>2 DEF Snapshot, NoRequests

\* The metrics m count all n requests, and rank all their latencies.
Reports(m, q, t, n) ==
  \E sorted : /\ Pools(sorted, q, t)
              /\ m.total = n
              /\ m.success + m.error = n
              /\ m.percentiles = [p \in Ranks |-> Percentile(sorted, p)]

\* Merge() of one result is its snapshot, of several the one of their pool: either
\* way each of the requests is counted, and the percentiles are those of all.
LEMMA MergeFacts ==
  ASSUME NEW t \in Nat \ {0}, NEW q, NEW a, NEW b, NEW n \in Nat \ {0},
         \A i \in 1..t : /\ q[i] \in Seq(Nat) /\ a[i] \in Nat /\ b[i] \in Nat
                         /\ a[i] + b[i] = Len(q[i]),
         SumFunctionOnSet(Lengths(q, t), 1..t) = n
  PROVE  Reports(Merge([i \in 1..t |-> Result(q[i], a[i], b[i])]), q, t, n)
<1> DEFINE results == [i \in 1..t |-> Result(q[i], a[i], b[i])]
           m == Merge(results)
           r == [i \in 1..t |-> Sorted(q[i])]
<1>1. /\ DOMAIN results = 1..t
      /\ Len(results) = t
      /\ \A i \in 1..t : /\ results[i].latencies = r[i]
                         /\ results[i].snapshot = Snapshot(r[i], a[i], b[i])
  BY DEF Result
<1>2. \A i \in 1..t : /\ r[i] \in Seq(Nat)
                      /\ Len(r[i]) = Len(q[i])
                      /\ Ascending(r[i])
                      /\ \A times : CountIn(r[i], times) = CountIn(q[i], times)
  BY SortedFacts
<1>3. Len(r) = t /\ DOMAIN r = 1..t
  OBVIOUS
<1> SUFFICES Reports(m, q, t, n)
  OBVIOUS
<1> HIDE DEF results, r
<1>4. CASE t = 1
  <2>1. 1..1 = {1} /\ 1 \in {1} /\ 1 \in 1..t
    OBVIOUS
  <2>2. ASSUME NEW f, f[1] \in Nat PROVE SumFunctionOnSet(f, 1..1) = f[1]
    <3>1. IsFiniteSet({1}) /\ {1} \ {1} = {} /\ \A x \in {1} : f[x] \in Nat
      BY <2>2, FS_Singleton
    <3>2. SumFunctionOnSet(f, {1}) = f[1] + SumFunctionOnSet(f, {1} \ {1})
      BY <3>1, <2>1, SumSplit
    <3>3. SumFunctionOnSet(f, {1} \ {1}) = 0
      BY <3>1, SumOfNone
    <3>4. QED
      BY <2>1, <2>2, <3>2, <3>3
  <2>3. Lengths(q, t)[1] = Len(q[1]) /\ Len(q[1]) \in Nat
    BY <2>1, LenProperties DEF Lengths
  <2>4. n = Len(q[1])
    BY <1>4, <2>2, <2>3
  <2>5. ASSUME NEW times
        PROVE  SumFunctionOnSet(Counts(q, t, times), 1..t) = CountIn(r[1], times)
    <3>1. Counts(q, t, times)[1] = CountIn(q[1], times)
      BY <2>1 DEF Counts
    <3>2. CountIn(q[1], times) = CountIn(r[1], times)
      BY <1>2, <2>1
    <3>3. CountIn(r[1], times) \in Nat
      <4> DEFINE s == r[1]
      <4>1. s \in Seq(Nat)
        BY <1>2, <2>1
      <4> HIDE DEF s
      <4>2. CountIn(s, times) \in Nat
        <5>1. 0 \in Nat
          OBVIOUS
        <5>2. QED
          BY <4>1, <5>1, CountAppend
      <4>3. QED
        BY <4>2 DEF s
    <3>4. QED
      BY <1>4, <2>2, <3>1, <3>2, <3>3
  <2>6. m = Snapshot(r[1], a[1], b[1])
    BY <1>1, <1>4, <2>1 DEF Merge
  <2>7. Len(r[1]) = n /\ r[1] \in Seq(Nat) /\ Ascending(r[1]) /\ a[1] + b[1] = n
    BY <1>2, <2>1, <2>4
  <2>8. Pools(r[1], q, t)
    BY <2>5, <2>7 DEF Pools
  <2> HIDE DEF m
  <2>9. /\ m.total = n /\ m.success = a[1] /\ m.error = b[1]
        /\ m.percentiles = [p \in Ranks |-> Percentile(r[1], p)]
    BY <2>6, <2>7, SnapshotFacts
  <2>10. QED
    BY <2>7, <2>8, <2>9 DEF Reports
<1>5. CASE t # 1
  <2> DEFINE pool == Pool(results)
             succeeded == [i \in DOMAIN results |-> results[i].snapshot.success]
             failed == [i \in DOMAIN results |-> results[i].snapshot.error]
  <2>1. pool = FlattenSeq(r)
    <3>1. [i \in DOMAIN results |-> results[i].latencies] = [i \in 1..t |-> r[i]]
      BY <1>1
    <3>2. [i \in 1..t |-> r[i]] = r
      BY <1>3 DEF r
    <3>3. QED
      BY <3>1, <3>2 DEF Pool
  <2>2. Lengths(r, t) = Lengths(q, t) /\ \A times : Counts(r, t, times) = Counts(q, t, times)
    BY <1>2 DEF Lengths, Counts
  <2>3. /\ pool \in Seq(Nat)
        /\ Len(pool) = n
        /\ \A times : CountIn(pool, times) = SumFunctionOnSet(Counts(q, t, times), 1..t)
    BY <1>2, <1>3, <2>1, <2>2, FlattenFacts
  <2>4. m = Snapshot(Sorted(pool), Sum(succeeded), Sum(failed))
    BY <1>1, <1>5 DEF Merge
  <2>5. \A i \in 1..t : succeeded[i] = a[i] /\ failed[i] = b[i]
    <3> TAKE i \in 1..t
    <3> DEFINE s == r[i]
               x == a[i]
               y == b[i]
    <3>1. /\ s \in Seq(Nat) /\ x \in Nat /\ y \in Nat /\ x + y = Len(s)
      BY <1>2
    <3>2. succeeded[i] = Snapshot(s, x, y).success /\ failed[i] = Snapshot(s, x, y).error
      BY <1>1
    <3> HIDE DEF s, x, y, succeeded, failed
    <3>3. Snapshot(s, x, y).success = x /\ Snapshot(s, x, y).error = y
      BY <3>1, SnapshotCounts
    <3>4. QED
      BY <3>2, <3>3 DEF x, y
  <2>6. DOMAIN succeeded = 1..t /\ DOMAIN failed = 1..t
    BY <1>1
  <2> HIDE DEF succeeded, failed, pool
  <2>7. Sum(succeeded) + Sum(failed) = n
    <3>1. Sum(succeeded) = SumFunctionOnSet(succeeded, 1..t) /\ Sum(failed) = SumFunctionOnSet(failed, 1..t)
      BY <2>6, SumIsSum
    <3>2. \A i \in 1..t : /\ succeeded[i] \in Nat /\ failed[i] \in Nat
                          /\ Lengths(q, t)[i] = succeeded[i] + failed[i]
      BY <2>5 DEF Lengths
    <3>3. n = SumFunctionOnSet(succeeded, 1..t) + SumFunctionOnSet(failed, 1..t)
      BY <3>2, SumOfSums
    <3>4. QED
      BY <3>1, <3>3
  <2> DEFINE sorted == Sorted(pool)
  <2>8. /\ sorted \in Seq(Nat) /\ Len(sorted) = n /\ Ascending(sorted)
        /\ \A times : CountIn(sorted, times) = CountIn(pool, times)
    BY <2>3, SortedFacts
  <2> HIDE DEF sorted
  <2>9. Pools(sorted, q, t)
    BY <2>3, <2>8 DEF Pools
  <2>10. m = Snapshot(sorted, Sum(succeeded), Sum(failed))
    BY <2>4 DEF sorted
  <2> HIDE DEF m
  <2>11. /\ m.total = n /\ m.success = Sum(succeeded) /\ m.error = Sum(failed)
         /\ m.percentiles = [p \in Ranks |-> Percentile(sorted, p)]
    BY <2>8, <2>10, SnapshotFacts
  <2>12. QED
    BY <2>7, <2>9, <2>11 DEF Reports
<1>6. QED
  BY <1>4, <1>5

\* A runner has a latency for each request it has counted, and the run that is under
\* way has a rate and a number of threads that are in bounds.
LatencyKept ==
  /\ latencies \in [Runners -> Seq(Nat)]
  /\ \A x \in Runners : Len(latencies[x]) = successCount[x] + errorCount[x]

AcceptedRuns ==
  \A r \in Runs : reply[r] = "pending" =>
    /\ config[r].rps \in Nat \ {0}
    /\ config[r].threads \in 1..Max(Threads \union {Cpus})

KInv == LInv /\ LatencyKept /\ AcceptedRuns

LEMMA MaxFacts ==
  ASSUME NEW S \in SUBSET Nat, IsFiniteSet(S), S # {}
  PROVE  Max(S) \in S /\ \A y \in S : y <= Max(S)
<1>1. \E x \in S : \A y \in S : x >= y
  BY GreatestNat
<1>2. QED
  BY <1>1 DEF Max

LEMMA ParseBounds ==
  ASSUME NEW raw \in Requests, Valid(raw)
  PROVE  /\ ParseConfig(raw).rps \in Nat \ {0}
         /\ ParseConfig(raw).threads \in 1..Max(Threads \union {Cpus})
<1> DEFINE M == Max(Threads \union {Cpus})
<1>1. /\ raw.rps \in Nat \ {0} /\ Cpus \in Nat \ {0} /\ RatePerThread \in Nat \ {0}
      /\ Threads \subseteq Nat /\ raw.threads \in Threads \union {Automatic}
  BY LoadRunAssumption DEF Valid, Requests
<1>2. M \in Nat /\ \A y \in Threads \union {Cpus} : y <= M
  <2>1. IsFiniteSet(Threads \union {Cpus})
    BY LoadRunAssumption, FS_AddElement
  <2>2. Threads \union {Cpus} \in SUBSET Nat /\ Threads \union {Cpus} # {}
    BY <1>1
  <2>3. QED
    BY <2>1, <2>2, MaxFacts
<1> HIDE DEF M
<1>3. AutoThreads(raw.rps) <= Cpus
  <2> DEFINE e == (raw.rps + RatePerThread - 1) \div RatePerThread
             m == Min({Cpus, e})
  <2>1. e \in Int
    BY <1>1
  <2> HIDE DEF e
  <2>2. m \in {Cpus, e} /\ m <= Cpus
    <3>1. \E x \in {Cpus, e} : \A y \in {Cpus, e} : x <= y
      BY <1>1, <2>1
    <3>2. QED
      BY <3>1 DEF Min
  <2>3. AutoThreads(raw.rps) = Max({1, m})
    BY DEF AutoThreads, e
  <2>4. m \in Int
    BY <1>1, <2>1, <2>2
  <2> HIDE DEF m
  <2>5. Max({1, m}) \in {1, m}
    <3>1. \E x \in {1, m} : \A y \in {1, m} : x >= y
      BY <2>4
    <3>2. QED
      BY <3>1 DEF Max
  <2>6. QED
    BY <1>1, <2>2, <2>3, <2>4, <2>5
<1>4. /\ ParseConfig(raw).rps = raw.rps
      /\ ParseConfig(raw).threads \in Nat \ {0}
      /\ \/ ParseConfig(raw).threads \in Threads
         \/ ParseConfig(raw).threads = AutoThreads(raw.rps)
  BY <1>1, ParseFacts DEF ParseConfig
<1> DEFINE c == ParseConfig(raw)
<1> HIDE DEF c
<1>5. c.threads <= M
  BY <1>1, <1>2, <1>3, <1>4 DEF c
<1>6. QED
  BY <1>1, <1>2, <1>4, <1>5 DEF c, M

LEMMA InitKInv == Init => KInv
BY InitLInv, EmptySeq DEF Init, KInv, LatencyKept, AcceptedRuns

LEMMA NextKInv ==
  ASSUME KInv, [Next]_vars
  PROVE  KInv'
<1>1. LInv' /\ LInv
  BY NextLInv DEF KInv
<1>2. AcceptedRuns'
  <2>1. ASSUME NEW r \in Runs, RefuseRun(r) \/ RejectRun(r) PROVE AcceptedRuns'
    BY <1>1, <2>1 DEF RefuseRun, RejectRun, LInv, RInv, ServerTypes, KInv, AcceptedRuns
  <2>2. ASSUME NEW r \in Runs, StartRun(r) PROVE AcceptedRuns'
    <3>1. PICK raw \in Requests : Valid(raw) /\ config' = [config EXCEPT ![r] = ParseConfig(raw)]
      BY <2>2 DEF StartRun, Spawn
    <3>2. reply' = [reply EXCEPT ![r] = "pending"]
      BY <2>2 DEF StartRun, Spawn
    <3>3. config'[r] = ParseConfig(raw) /\ \A s \in Runs : s # r => config'[s] = config[s]
      BY <1>1, <3>1 DEF LInv, RInv, ServerTypes
    <3>4. \A s \in Runs : s # r => reply'[s] = reply[s]
      BY <1>1, <3>2 DEF LInv, RInv, ServerTypes
    <3>5. QED
      BY <3>1, <3>3, <3>4, ParseBounds DEF KInv, AcceptedRuns
  <2>3. ASSUME NEW x \in Runners, Dispatch(x) \/ Record(x) PROVE AcceptedRuns'
    BY <2>3 DEF Dispatch, Record, server, KInv, AcceptedRuns
  <2>4. ASSUME NEW x \in Runners, Return(x) \/ Fail(x) PROVE AcceptedRuns'
    <3>1. config' = config /\ \A r \in Runs : reply'[r] = "pending" => reply[r] = "pending"
      BY <1>1, <2>4 DEF Return, Fail, server, LInv, RInv, ServerTypes
    <3>2. QED
      BY <3>1 DEF KInv, AcceptedRuns
  <2>5. CASE UNCHANGED vars
    BY <2>5 DEF vars, server, KInv, AcceptedRuns
  <2>6. QED
    BY <2>1, <2>2, <2>3, <2>4, <2>5 DEF Next
<1>3. LatencyKept'
  <2>1. ASSUME NEW x \in Runners, Record(x) PROVE LatencyKept'
    <3>1. PICK answer \in Answers :
            /\ latencies' = [latencies EXCEPT ![x] = Insert(latencies[x], answer[1])]
            /\ successCount' = [successCount EXCEPT ![x] =
                                  IF answer[2] THEN successCount[x] + 1 ELSE successCount[x]]
            /\ errorCount' = [errorCount EXCEPT ![x] =
                                IF answer[2] THEN errorCount[x] ELSE errorCount[x] + 1]
      BY <2>1 DEF Record
    <3>2. answer[1] \in Nat
      BY LoadRunAssumption
    <3>3. /\ latencies \in [Runners -> Seq(Nat)]
          /\ \A y \in Runners : /\ Len(latencies[y]) = successCount[y] + errorCount[y]
                                /\ successCount[y] \in Nat /\ errorCount[y] \in Nat
          /\ DOMAIN successCount = Runners /\ DOMAIN errorCount = Runners
      BY <1>1 DEF KInv, LatencyKept, LInv, CountTypes
    <3> DEFINE l == latencies[x]
               a == answer[1]
    <3>4. Insert(l, a) \in Seq(Nat) /\ Len(Insert(l, a)) = Len(l) + 1
      <4>1. l \in Seq(Nat) /\ a \in Nat
        BY <3>2, <3>3
      <4> HIDE DEF l, a
      <4>2. QED
        BY <4>1, InsertFacts
    <3>5. \A y \in Runners : y # x => /\ latencies'[y] = latencies[y]
                                      /\ successCount'[y] = successCount[y]
                                      /\ errorCount'[y] = errorCount[y]
      BY <3>1, <3>3
    <3>6. latencies'[x] = Insert(l, a) /\ latencies' \in [Runners -> Seq(Nat)]
      BY <3>1, <3>3, <3>4
    <3>7. successCount'[x] + errorCount'[x] = (successCount[x] + errorCount[x]) + 1
      <4>1. CASE answer[2]
        <5>1. successCount'[x] = successCount[x] + 1 /\ errorCount'[x] = errorCount[x]
          BY <3>1, <3>3, <4>1
        <5>2. QED
          BY <3>3, <5>1
      <4>2. CASE ~answer[2]
        <5>1. successCount'[x] = successCount[x] /\ errorCount'[x] = errorCount[x] + 1
          BY <3>1, <3>3, <4>2
        <5>2. QED
          BY <3>3, <5>1
      <4>3. QED
        BY <4>1, <4>2
    <3>8. QED
      BY <3>3, <3>4, <3>5, <3>6, <3>7 DEF LatencyKept
  <2>2. CASE UNCHANGED metrics
    BY <2>2 DEF metrics, KInv, LatencyKept
  <2>3. QED
    BY <2>1, <2>2
    DEF Next, RefuseRun, RejectRun, StartRun, Spawn, Dispatch, Return, Fail, load, vars
<1>4. QED
  BY <1>1, <1>2, <1>3 DEF KInv

\* The latencies of the workers of a run, one after another.
LatenciesOf(r) == [i \in 1..config[r].threads |-> latencies[<<r, i>>]]

\* What is reported of a run that completes is what its workers counted, all of it.
LEMMA ReportFacts ==
  ASSUME KInv, Next, NEW r \in Runs, Completes(r)
  PROVE  \E sorted : /\ Pools(sorted, LatenciesOf(r), config[r].threads)
                     /\ Len(sorted) = config[r].rps
                     /\ config[r].rps \in Nat \ {0}
                     /\ Report(r).total = config[r].rps
                     /\ Report(r).success + Report(r).error = config[r].rps
                     /\ Report(r).percentiles = [p \in Ranks |-> Percentile(sorted, p)]
<1> DEFINE t == config[r].threads
           n == config[r].rps
           q == LatenciesOf(r)
           a == [i \in 1..t |-> successCount[<<r, i>>]]
           b == [i \in 1..t |-> errorCount[<<r, i>>]]
<1>1. reply[r] = "pending" /\ LInv /\ LatencyKept /\ AcceptedRuns
  BY DEF KInv, Completes
<1>2. n \in Nat \ {0} /\ t \in 1..Max(Threads \union {Cpus}) /\ t \in Nat \ {0}
  BY <1>1 DEF AcceptedRuns
<1>3. \A i \in 1..t : <<r, i>> \in Runners /\ <<r, i>> \in RunnersOf(r)
  <2>1. Max(Threads \union {Cpus}) \in Nat
    <3>1. IsFiniteSet(Threads \union {Cpus})
      BY LoadRunAssumption, FS_AddElement
    <3>2. Threads \union {Cpus} \in SUBSET Nat /\ Threads \union {Cpus} # {}
      BY LoadRunAssumption
    <3>3. QED
      BY <3>1, <3>2, MaxFacts
  <2>2. \A i \in 1..t : i \in 1..Max(Threads \union {Cpus})
    BY <1>2, <2>1
  <2>3. QED
    BY <2>2 DEF Runners, RunnersOf
<1>4. ASSUME NEW i \in 1..t
      PROVE  /\ q[i] \in Seq(Nat) /\ a[i] \in Nat /\ b[i] \in Nat
             /\ a[i] + b[i] = Len(q[i])
             /\ Len(q[i]) = Share(config[r], i)
  <2> DEFINE x == <<r, i>>
  <2>1. x \in Runners /\ x \in RunnersOf(r) /\ x[2] = i
    BY <1>3
  <2>2. q[i] = latencies[x] /\ a[i] = successCount[x] /\ b[i] = errorCount[x]
    BY DEF LatenciesOf
  <2> HIDE DEF x, q, a, b
  <2>3. successCount[x] + errorCount[x] = Share(config[r], i)
    BY <1>1, <2>1, CompletesCounted
  <2>4. /\ latencies[x] \in Seq(Nat) /\ Len(latencies[x]) = successCount[x] + errorCount[x]
        /\ successCount[x] \in Nat /\ errorCount[x] \in Nat
    BY <1>1, <2>1 DEF LatencyKept, LInv, CountTypes
  <2>5. QED
    BY <2>2, <2>3, <2>4
<1>5. SumFunctionOnSet(Lengths(q, t), 1..t) = n
  <2> DEFINE c == config[r]
             h == Lengths(q, t)
  <2>1. c.rps \in Nat /\ c.threads \in Nat \ {0} /\ \A i \in 1..c.threads : h[i] = Share(c, i)
    BY <1>2, <1>4 DEF Lengths
  <2> HIDE DEF c, h
  <2>2. SumFunctionOnSet(h, 1..c.threads) = c.rps
    BY <2>1, SharesSum
  <2>3. QED
    BY <2>2 DEF c, h
<1>6. Report(r) = Merge([i \in 1..t |-> Result(q[i], a[i], b[i])])
  <2>1. \A i \in 1..t : /\ q[i] = latencies[<<r, i>>]
                        /\ a[i] = successCount[<<r, i>>]
                        /\ b[i] = errorCount[<<r, i>>]
    BY DEF LatenciesOf
  <2> HIDE DEF q, a, b
  <2>2. QED
    BY <2>1 DEF Report
<1> HIDE DEF q, a, b
<1> HIDE DEF t, n
<1>7. Reports(Report(r), q, t, n)
  <2>1. t \in Nat \ {0} /\ n \in Nat \ {0}
    BY <1>2
  <2>2. \A i \in 1..t : /\ q[i] \in Seq(Nat) /\ a[i] \in Nat /\ b[i] \in Nat
                        /\ a[i] + b[i] = Len(q[i])
    BY <1>4
  <2>3. Reports(Merge([i \in 1..t |-> Result(q[i], a[i], b[i])]), q, t, n)
    BY <1>5, <2>1, <2>2, MergeFacts
  <2>4. QED
    BY <1>6, <2>3
<1>8. PICK sorted : /\ Pools(sorted, q, t)
                    /\ Report(r).total = n
                    /\ Report(r).success + Report(r).error = n
                    /\ Report(r).percentiles = [p \in Ranks |-> Percentile(sorted, p)]
  BY <1>7 DEF Reports
<1>9. Len(sorted) = n
  BY <1>5, <1>8 DEF Pools
<1>10. QED
  BY <1>2, <1>8, <1>9 DEF q, t, n

LEMMA NextKept ==
  ASSUME KInv, [Next]_vars
  PROVE  \A r \in Runs : Completes(r) =>
           /\ Report(r).total = config[r].rps
           /\ Report(r).success + Report(r).error = config[r].rps
<1> SUFFICES ASSUME NEW r \in Runs, Completes(r)
             PROVE  /\ Report(r).total = config[r].rps
                    /\ Report(r).success + Report(r).error = config[r].rps
  OBVIOUS
<1>1. Next
  BY DEF Completes, vars, server
<1>2. QED
  BY <1>1, ReportFacts

LEMMA AlwaysKInv == Spec => []KInv
<1>1. KInv /\ [Next]_vars => KInv'
  BY NextKInv
<1>2. QED
  BY InitKInv, <1>1, PTL DEF Spec

\* Each request of a run that completes is in its report, and once: LoadRunner.run() and
\* Promise.all() wait for what is in flight, the shares of the threads add up to
\* the rate of the run, and merge() adds the counts of all of them.
THEOREM EveryRequestCounted == Spec => AllCounted
<1>1. KInv /\ [Next]_vars =>
        [\A r \in Runs : Completes(r) =>
           /\ Report(r).total = config[r].rps
           /\ Report(r).success + Report(r).error = config[r].rps]_vars
  BY NextKept
<1>2. QED
  BY AlwaysKInv, <1>1, PTL DEF Spec, AllCounted

-----------------------------------------------------------------------------
(* Percentiles *)

\* At most the share p of the n entries are below the value, at most the rest above.
RanksAt(value, sorted, p, n) ==
  /\ 1000 * CountIn(sorted, 0..(value - 1)) <= p * n
  /\ 1000 * CountIn(sorted, Nat \ 0..value) <= (1000 - p) * n

\* The entry that percentile() picks has few entries below it and few above.
LEMMA PercentileFacts ==
  ASSUME NEW sorted \in Seq(Nat), Ascending(sorted), NEW n \in Nat \ {0}, Len(sorted) = n,
         NEW p \in Ranks
  PROVE  RanksAt(Percentile(sorted, p), sorted, p, n)
<1> DEFINE d == (n * p) \div 1000
           k == Smaller(d, n - 1)
           value == sorted[k + 1]
           below == {i \in DOMAIN sorted : sorted[i] \in 0..(value - 1)}
           above == {i \in DOMAIN sorted : sorted[i] \in Nat \ 0..value}
<1>1. d \in Nat /\ 1000 * d <= p * n /\ p * n < 1000 * (d + 1)
  BY DEF Ranks
<1> HIDE DEF d
<1>2. k \in 0..(n - 1) /\ k <= d /\ (k = d \/ k = n - 1)
  BY <1>1 DEF Smaller
<1>3. value = Percentile(sorted, p)
  BY DEF Percentile, k, d
<1> HIDE DEF k
<1>4. DOMAIN sorted = 1..n /\ \A i \in 1..n : sorted[i] \in Nat
  BY LenProperties
<1>5. k + 1 \in 1..n /\ value \in Nat
  BY <1>2, <1>4
<1>6. \A i, j \in 1..n : i <= j => sorted[i] <= sorted[j]
  BY DEF Ascending
<1>7. below \in SUBSET (1..k)
  <2> SUFFICES ASSUME NEW i \in 1..n, sorted[i] \in 0..(value - 1), ~(i \in 1..k)
               PROVE  FALSE
    BY <1>4
  <2>1. k + 1 <= i
    BY <1>2
  <2>2. value <= sorted[i]
    BY <1>5, <1>6, <2>1
  <2> HIDE DEF value
  <2>3. QED
    BY <1>4, <1>5, <2>2
<1>8. above \in SUBSET ((k + 2)..n)
  <2> SUFFICES ASSUME NEW i \in 1..n, sorted[i] \in Nat \ 0..value, ~(i \in (k + 2)..n)
               PROVE  FALSE
    BY <1>4
  <2>1. i <= k + 1
    BY <1>2
  <2>2. sorted[i] <= value
    BY <1>5, <1>6, <2>1
  <2> HIDE DEF value
  <2>3. QED
    BY <1>4, <1>5, <2>2
<1>9. CountIn(sorted, 0..(value - 1)) = Cardinality(below)
      /\ CountIn(sorted, Nat \ 0..value) = Cardinality(above)
  BY DEF CountIn
<1> HIDE DEF value, below, above
<1>10. Cardinality(below) \in Nat /\ Cardinality(below) <= k
  <2>1. IsFiniteSet(1..k) /\ Cardinality(1..k) = k
    BY <1>2, FS_Interval
  <2>2. IsFiniteSet(below) /\ Cardinality(below) <= Cardinality(1..k)
    BY <1>7, <2>1, FS_Subset
  <2>3. QED
    BY <2>1, <2>2, FS_CardinalityType
<1>11. Cardinality(above) \in Nat /\ Cardinality(above) <= n - (k + 1)
  <2>1. IsFiniteSet((k + 2)..n) /\ Cardinality((k + 2)..n) = n - (k + 1)
    <3>1. k + 2 \in Int /\ n \in Int /\ (k + 2 > n => n = k + 1)
      BY <1>2
    <3>2. /\ IsFiniteSet((k + 2)..n)
          /\ Cardinality((k + 2)..n) = IF k + 2 > n THEN 0 ELSE n - (k + 2) + 1
      BY <3>1, FS_Interval
    <3>3. QED
      BY <1>2, <3>1, <3>2
  <2>2. IsFiniteSet(above) /\ Cardinality(above) <= Cardinality((k + 2)..n)
    BY <1>8, <2>1, FS_Subset
  <2>3. QED
    BY <2>1, <2>2, FS_CardinalityType
<1> DEFINE b == Cardinality(below)
           a == Cardinality(above)
<1>12. b \in Nat /\ b <= k /\ a \in Nat /\ a <= n - (k + 1)
  BY <1>10, <1>11
<1> HIDE DEF a, b
<1>13. 1000 * b <= p * n
  BY <1>1, <1>2, <1>12 DEF Ranks
<1>14. 1000 * a <= (1000 - p) * n
  BY <1>1, <1>2, <1>12 DEF Ranks
<1>15. QED
  BY <1>3, <1>9, <1>13, <1>14 DEF a, b, RanksAt

LEMMA CountedFacts ==
  ASSUME NEW r \in Runs, NEW times
  PROVE  Counted(r, times)
           = SumFunctionOnSet(Counts(LatenciesOf(r), config[r].threads, times),
                              1..config[r].threads)
<1>1. Counts(LatenciesOf(r), config[r].threads, times)
        = [i \in 1..config[r].threads |->
             Cardinality({n \in DOMAIN latencies[<<r, i>>] : latencies[<<r, i>>][n] \in times})]
  BY DEF Counts, CountIn, LatenciesOf
<1>2. QED
  BY <1>1 DEF Counted, SumFunction

LEMMA NextRanked ==
  ASSUME KInv, [Next]_vars
  PROVE  \A r \in Runs : Completes(r) =>
           \A p \in Ranks :
             LET value == Report(r).percentiles[p] IN
             /\ 1000 * Counted(r, 0..(value - 1)) <= p * config[r].rps
             /\ 1000 * Counted(r, Nat \ 0..value) <= (1000 - p) * config[r].rps
<1> SUFFICES ASSUME NEW r \in Runs, Completes(r), NEW p \in Ranks
             PROVE  LET value == Report(r).percentiles[p] IN
                    /\ 1000 * Counted(r, 0..(value - 1)) <= p * config[r].rps
                    /\ 1000 * Counted(r, Nat \ 0..value) <= (1000 - p) * config[r].rps
  OBVIOUS
<1>1. Next
  BY DEF Completes, vars, server
<1> DEFINE n == config[r].rps
           value == Report(r).percentiles[p]
<1>2. PICK sorted : /\ Pools(sorted, LatenciesOf(r), config[r].threads)
                    /\ Len(sorted) = n
                    /\ n \in Nat \ {0}
                    /\ Report(r).percentiles = [q \in Ranks |-> Percentile(sorted, q)]
  BY <1>1, ReportFacts
<1>3. value = Percentile(sorted, p)
  BY <1>2
<1> HIDE DEF n, value
<1>4. /\ sorted \in Seq(Nat) /\ Ascending(sorted)
      /\ \A times : CountIn(sorted, times) = Counted(r, times)
  BY <1>2, CountedFacts DEF Pools
<1>5. RanksAt(value, sorted, p, n)
  <2>1. sorted \in Seq(Nat) /\ Ascending(sorted) /\ n \in Nat \ {0} /\ Len(sorted) = n
    BY <1>2, <1>4
  <2>2. RanksAt(Percentile(sorted, p), sorted, p, n)
    BY <2>1, PercentileFacts
  <2>3. QED
    BY <1>3, <2>2
<1>6. QED
  BY <1>4, <1>5 DEF n, value, RanksAt

\* The percentiles of a run that completes are those of the requests of all its
\* threads, as merge() ranks their latencies and never the percentiles it is sent.
THEOREM PercentilesOfAll == Spec => PercentilesPooled
<1>1. KInv /\ [Next]_vars =>
        [\A r \in Runs : Completes(r) =>
           \A p \in Ranks :
             LET value == Report(r).percentiles[p] IN
             /\ 1000 * Counted(r, 0..(value - 1)) <= p * config[r].rps
             /\ 1000 * Counted(r, Nat \ 0..value) <= (1000 - p) * config[r].rps]_vars
  BY NextRanked
<1>2. QED
  BY AlwaysKInv, <1>1, PTL DEF Spec, PercentilesPooled
=============================================================================
