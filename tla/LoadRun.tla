------------------------------- MODULE LoadRun -------------------------------
(***************************************************************************)
(* The load generator: generator/src/server.ts (one run at a time, the     *)
(* live metrics), worker_pool.ts (a run on the main thread or on worker    *)
(* threads), load_runner.ts and rate_limiter.ts (dispatch at a rate, then  *)
(* wait for what is in flight).                                            *)
(*                                                                         *)
(* A runner <<r, i>> is one LoadRunner of run r: the main thread's, or the *)
(* i-th worker's, with its Metrics.  Its requests are answered at any time *)
(* and in any order.  A rate is a whole number, a run lasts a second, and  *)
(* of its parameters only the rate and the threads are told apart.         *)
(***************************************************************************)
EXTENDS LatencyMetrics

CONSTANTS
  Runs,         \* bound: the calls of /run
  Rates,        \* the rps a call may ask for
  Threads,      \* the numbers of threads it may ask for, finitely many
  Automatic,    \* what it asks for otherwise
  MaxRate,      \* MAX_RPS
  Cpus,         \* cpus().length
  RatePerThread,  \* RPS_PER_THREAD
  Answers,      \* the ways a request may end: <<latency, ok>>
  NoRun         \* the null of liveMetrics and of lastResult

ASSUME LoadRunAssumption ==
  /\ Rates \subseteq Nat
  /\ Threads \subseteq Nat /\ IsFiniteSet(Threads)
  /\ Automatic \notin Threads
  /\ {MaxRate, Cpus, RatePerThread} \subseteq Nat \ {0}
  /\ Answers \subseteq Nat \X BOOLEAN
  /\ NoRun \notin Runs

Requests == [rps : Rates, threads : Threads \union {Automatic}]

Configs == [rps : 1..MaxRate, threads : 1..Max(Threads \union {Cpus})]

Runners == Runs \X (1..Max(Threads \union {Cpus}))

VARIABLES
  reply,         \* what became of each call of handleRun()
  config,        \* the rps and the threads of each run, once it is accepted
  isRunning,
  liveMetrics,   \* the run whose Metrics /metrics reads
  lastResult,    \* the last run that completed: its Report no longer changes
  worker,        \* each runner: idle, running, posted its result, or failed
  undispatched,  \* the requests its rate limiter has still to dispatch
  inFlight,      \* those dispatched and not answered
  latencies,     \* its Metrics, here with the latencies in order
  successCount,
  errorCount

server == <<reply, config, isRunning, liveMetrics, lastResult>>
metrics == <<latencies, successCount, errorCount>>
load == <<undispatched, inFlight, metrics>>
vars == <<server, worker, load>>

TypeOK ==
  /\ reply \in [Runs -> {"none", "pending", "200", "400", "409", "500"}]
  /\ config \in [Runs -> Configs \union {NoRun}]
  /\ isRunning \in BOOLEAN
  /\ liveMetrics \in Runs \union {NoRun}
  /\ lastResult \in Runs \union {NoRun}
  /\ worker \in [Runners -> {"idle", "running", "posted", "failed"}]
  /\ \A count \in {undispatched, inFlight, successCount, errorCount} :
       count \in [Runners -> 0..MaxRate]
  /\ latencies \in [Runners -> Seq(Nat)]

Init ==
  /\ reply = [r \in Runs |-> "none"]
  /\ config = [r \in Runs |-> NoRun]
  /\ isRunning = FALSE
  /\ liveMetrics = NoRun
  /\ lastResult = NoRun
  /\ worker = [x \in Runners |-> "idle"]
  /\ undispatched = [x \in Runners |-> 0]
  /\ inFlight = [x \in Runners |-> 0]
  /\ latencies = [x \in Runners |-> <<>>]
  /\ successCount = [x \in Runners |-> 0]
  /\ errorCount = [x \in Runners |-> 0]

-----------------------------------------------------------------------------

\* What parseConfig() lets through.
Valid(raw) == raw.rps \in 1..MaxRate /\ raw.threads # 0

AutoThreads(rps) == Max({1, Min({Cpus, (rps + RatePerThread - 1) \div RatePerThread})})

\* And what it makes of it.
ParseConfig(raw) ==
  [rps |-> raw.rps,
   threads |-> IF raw.threads = Automatic THEN AutoThreads(raw.rps) ELSE raw.threads]

RunnersOf(r) == {r} \X (1..config[r].threads)

\* The rps of the i-th worker: the first one takes the remainder.
Share(c, i) == c.rps \div c.threads + (IF i = 1 THEN c.rps % c.threads ELSE 0)

\* handleRun() while a run is in progress.
RefuseRun(r) ==
  /\ reply[r] = "none"
  /\ isRunning
  /\ reply' = [reply EXCEPT ![r] = "409"]
  /\ UNCHANGED <<config, isRunning, liveMetrics, lastResult, worker, load>>

\* handleRun() when configFromQueryParams() throws.
RejectRun(r) ==
  /\ reply[r] = "none"
  /\ ~isRunning
  /\ \E raw \in Requests : ~Valid(raw)
  /\ reply' = [reply EXCEPT ![r] = "400"]
  /\ UNCHANGED <<config, isRunning, liveMetrics, lastResult, worker, load>>

\* What handleRun() and WorkerPool.run() do before their first await, but for
\* isRunning.  Only a run on the main thread shares its Metrics with /metrics.
Spawn(r) ==
  /\ reply[r] = "none"
  /\ reply' = [reply EXCEPT ![r] = "pending"]
  /\ \E raw \in Requests :
       /\ Valid(raw)
       /\ config' = [config EXCEPT ![r] = ParseConfig(raw)]
  /\ liveMetrics' = IF config'[r].threads = 1 THEN r ELSE liveMetrics
  /\ worker' = [x \in Runners |-> IF x \in RunnersOf(r)' THEN "running" ELSE worker[x]]
  /\ undispatched' = [x \in Runners |-> IF x \in RunnersOf(r)'
                                        THEN Share(config'[r], x[2])
                                        ELSE undispatched[x]]
  /\ UNCHANGED <<lastResult, inFlight, metrics>>

\* A fault: isRunning is left to the callback, which workers do not call.
StartRunOnStart(r) ==
  /\ ~isRunning
  /\ Spawn(r)
  /\ isRunning' = (config'[r].threads = 1)

\* handleRun() otherwise.
StartRun(r) ==
  /\ ~isRunning
  /\ Spawn(r)
  /\ isRunning' = TRUE

\* The callback of RateLimiter.start(): sendRequest() up to its await.
Dispatch(x) ==
  /\ worker[x] = "running"
  /\ undispatched[x] > 0
  /\ undispatched' = [undispatched EXCEPT ![x] = @ - 1]
  /\ inFlight' = [inFlight EXCEPT ![x] = @ + 1]
  /\ UNCHANGED <<server, worker, metrics>>

\* The rest of sendRequest(): the request has been answered, or has failed.
Record(x) ==
  /\ worker[x] = "running"
  /\ inFlight[x] > 0
  /\ inFlight' = [inFlight EXCEPT ![x] = @ - 1]
  /\ \E answer \in Answers :
       /\ latencies' = [latencies EXCEPT ![x] = Insert(@, answer[1])]
       /\ successCount' = [successCount EXCEPT ![x] = IF answer[2] THEN @ + 1 ELSE @]
       /\ errorCount' = [errorCount EXCEPT ![x] = IF answer[2] THEN @ ELSE @ + 1]
  /\ UNCHANGED <<server, worker, undispatched>>

\* What runMultiThread(), or runSingleThread(), returns.
Report(r) ==
  Merge([i \in 1..config[r].threads |->
           Result(latencies[<<r, i>>], successCount[<<r, i>>], errorCount[<<r, i>>])])

\* The finally of handleRun().
Finally ==
  /\ isRunning' = FALSE
  /\ liveMetrics' = NoRun

\* A fault: the run does not wait for the requests in flight.
DispatchedOnly(x) == worker[x] = "running" /\ undispatched[x] = 0

\* LoadRunner.run() is past both of its awaits.
AllSettled(x) == worker[x] = "running" /\ undispatched[x] = 0 /\ inFlight[x] = 0

\* A runner returns its result.  Promise.all() goes on with the last of a run,
\* and handleRun() with it, unless a failure has ended the run before.
Return(x) ==
  /\ AllSettled(x)
  /\ worker' = [worker EXCEPT ![x] = "posted"]
  /\ LET r == x[1] IN
       IF \A y \in RunnersOf(r) : worker'[y] = "posted"
       THEN /\ reply' = [reply EXCEPT ![r] = "200"]
            /\ lastResult' = r
            /\ Finally
            /\ UNCHANGED config
       ELSE UNCHANGED server
  /\ UNCHANGED load

\* A fault: no listener for the error of a worker.
FailUnheard(x) ==
  /\ worker[x] = "running"
  /\ config[x[1]].threads > 1
  /\ worker' = [worker EXCEPT ![x] = "failed"]
  /\ UNCHANGED <<server, load>>

\* A worker ends with an error: Promise.all() rejects at the first.  The other
\* workers of the run are not told.
Fail(x) ==
  /\ worker[x] = "running"
  /\ config[x[1]].threads > 1
  /\ worker' = [worker EXCEPT ![x] = "failed"]
  /\ IF reply[x[1]] = "pending"
     THEN /\ reply' = [reply EXCEPT ![x[1]] = "500"]
          /\ Finally
          /\ UNCHANGED <<config, lastResult>>
     ELSE UNCHANGED server
  /\ UNCHANGED load

Next ==
  \/ \E r \in Runs : RefuseRun(r) \/ RejectRun(r) \/ StartRun(r)
  \/ \E x \in Runners : Dispatch(x) \/ Record(x) \/ Return(x) \/ Fail(x)

\* The timers of the rate limiter fire, fetch() settles by its own timeouts, and
\* a thread that is done says so.
Fairness == \A x \in Runners : WF_vars(Dispatch(x) \/ Record(x) \/ Return(x))

Spec == Init /\ [][Next]_vars /\ Fairness

-----------------------------------------------------------------------------
(* Properties *)

\* "Only one run may execute at a time": the load is that of a single run, as long
\* as no worker fails.  A failure ends its run for the server while the other
\* workers go on, and the next run is accepted.
OneLoadUnlessFailed ==
  (\A x \in Runners : worker[x] # "failed") =>
    \A x, y \in Runners : worker[x] = "running" /\ worker[y] = "running" => x[1] = y[1]

Completes(r) == reply[r] = "pending" /\ reply'[r] = "200"

\* Every request of a run that completes is counted once, however they were shared
\* out among threads and in whatever order they were answered.
AllCounted ==
  [][\A r \in Runs : Completes(r) =>
       /\ Report(r).total = config[r].rps
       /\ Report(r).success + Report(r).error = config[r].rps]_vars

\* How many requests of a run took one of these times.
Counted(r, times) ==
  SumFunction([i \in 1..config[r].threads |->
    Cardinality({n \in DOMAIN latencies[<<r, i>>] : latencies[<<r, i>>][n] \in times})])

\* The percentiles of a run are those of all its requests, whichever thread sent
\* which: at most a share p of them were faster, at most the rest slower.
PercentilesPooled ==
  [][\A r \in Runs : Completes(r) =>
       \A p \in Ranks :
         LET value == Report(r).percentiles[p] IN
         /\ 1000 * Counted(r, 0..(value - 1)) <= p * config[r].rps
         /\ 1000 * Counted(r, Nat \ 0..value) <= (1000 - p) * config[r].rps]_vars

\* The generator keeps the promise of OneRun, whichever of its workers fail: one
\* run at a time, 409 only in the meantime, and every run answered, so that it
\* never gets stuck refusing runs.
OneRunAtATime == INSTANCE OneRun
ImplementsOneRun == OneRunAtATime!Spec
=============================================================================
