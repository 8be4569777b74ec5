# Verification of the backpressure load balancer

TLA+ models of the load balancer, its sidecars, the demo services, the load
generator and the web server of this repository, with the TLC configurations
that check them and proofs for TLAPS. Paths are relative to the repository.

    tlc -config MCLoadBalancer.cfg MCLoadBalancer.tla     # a run
    tlapm LoadBalancer_proofs.tla                         # a proof

`PROJECT.json` lists, machine-readably, the components, the runs, the source
lines behind every definition, the hazards and the theorems. For each property
it also names a *fault*: an operator beside the one it replaces, such as
`ClearNothing` beside `ClearExisting`, that a plausible mistake in the code would
turn it into, and with which the property fails.

## 1. The system

A load balancer (`lb/`) sends requests round robin to a pool of servers
(`services/`). Beside each server runs a sidecar (`lb/sidecar/`) that checks its
health every few milliseconds and holds a TCP connection to the load balancer, on
which it writes `DRAIN:<ms>` and `RESUME`. A DRAIN is a *lease*: the server is out
of rotation until the lease runs down or a RESUME comes, and the sidecar renews
it. A generator (`generator/`) makes load, and a web server (`web/`) starts runs,
scrapes metrics and shows them. All but the Java service and the generator's
workers are single-threaded Node processes: handlers run to their end or to an
`await`, and everything hard happens between them.

| Component | State | Operations | Talks to | Correct when |
|---|---|---|---|---|
| Drain manager, `drain_manager.ts` | a Map host:port -> {drained, timer}, the backpressure switch | drain, resume, the auto-resume closure, setEnabled, shutdown, isDrained | called by listener, admin, router | no timer outlives the entry it belongs to; a drained server has a timer; a DRAIN is held for its duration |
| Router, `router.ts` | active type, counts, rotation index | next, setActiveServers, setActiveType | asks isDrained for each candidate | drained servers get nothing, available ones are not overtaken and get their requests again, a refusal means that all in use are drained |
| Sidecar listener, `sidecar_listener.ts` | sockets, a buffer per connection | connection, data, error, close, stop | calls drain, resume | a stream cut anywhere is the same commands; nothing is obeyed after stop |
| Proxy, `proxy_server.ts` | a client response and an upstream request per request | handleRequest, forward, the error and timeout handlers, stop | asks the router | one answer each, none passed off as whole, shutdown ends |
| Admin handler, `admin_handler.ts` | none | GET and POST of servers and of backpressure | router, drain manager | what it answers is what was last set |
| Sidecar, `sidecar.ts`, `main.ts` | send timer, its period | start, stateChange, redundant send, stop, signals | runner, connection | an unhealthy server stays out without a gap; a dead sidecar's server comes back; nothing runs after stop |
| Connection, `lb_connection.ts` | socket, reconnect timer, delay, flags | connect, disconnect, write, socket events, reconnect | TCP | exactly one attempt under way until stopped |
| Check runner and checks, `health_check_runner.ts`, `random_failure.ts`, `random_health_check.ts`, `always_healthy.ts` | verdict, drain interval, what each check remembers | runChecks, isHealthy, getDrainInterval | emits stateChange | the verdict is that of all checks; the DRAIN covers the failure |
| GC-pause check, `gc_pause_check.ts` | healthyAfter, last pause | datagrams, isHealthy | UDP from the service | the check recovers from every pause whose end arrives |
| Simulated pause, `gc_pause_simulator.ts`, `simulated_pause_server.ts` | a pending pause, datagrams that have not left | arm, checkSafepoint, executePause, stop and start | UDP to the check | the loop through the load balancer always comes back |
| Metrics trackers of the three services | ring of slots, current slot, total | start, stop, rotation, recordRequest, getRps | the services' handlers | the window is the requests of the last seconds |
| Generator, `server.ts`, `config.ts`, `worker_pool.ts`, `load_runner.ts`, `rate_limiter.ts`, `metrics.ts` | isRunning, live metrics, last result, workers, the latencies of each | handleRun, parseConfig, spawn, dispatch, record, merge | requests to the load balancer | one run at a time, every request counted, percentiles of all requests, every run answered |
| Scraper and store, `web/src/server/scraper/` | status per target, entries in time order | scrapeAll, scrapeTarget, record, evict | GET /metrics | late scrapes do not leave a wrong status; charts are recent |
| Routes of the web server, `simulation_routes.ts`, `services_routes.ts` | the requests under way | POST /run; GET servers; GET, POST backpressure | load balancer, generator, with timeouts | every call is answered, and a run that is alone is served as it asked |
| Web client, `use_backpressure.ts`, `use_server_groups.ts`, `use_simulation.ts` | what the page shows | polls, the switch, the Run button | web server | the page comes to show the switch and the counts of the load balancer, and the switch does what was clicked |
| Configuration loaders, parsers, formatters, command line | none | - | - | pure functions of their input |

What is hard here: timers that must be cleared when their reason is gone; sockets
whose `close` event comes a turn after `destroy()`; an `await` in `start()` during
which a signal arrives; leases that must outlive the renewal that is on its way;
UDP datagrams that are lost; a feedback loop in which a drained server has no
traffic left to prove itself with; scrapes that overlap; threads that read a slot
and increment it later; requests that are given up and arrive all the same; polls
that race the click they report. The list, at its lines, is under `hazards`.

## 2. The modules

    DrainLease            the promise: a DRAIN is a lease            (abstract)
      ^ implemented by      ^ used by
    DrainManager          SidecarLink --- SidecarLease
      DrainHistory        GcPauseLoop
      LoadBalancer  = DrainHistory + Router          (MCLoadBalancer)
    Router
      RouterTurns                                    (MCRouter)
    LbProcess       = SidecarListener + Proxy        (MCLbProcess)
    SidecarProcess  = LbConnection + HealthChecks    (MCSidecarProcess)
    OneRun                the promise of POST /run           (abstract)
      ^ implemented by      ^ used by
    LoadRun               SimulationRuns
      + LatencyMetrics    Dashboard                  (MCDashboard)
        (MCLoadRun)
    Scraper, MetricsTracker

    LoadBalancer_proofs   DrainManager, LoadBalancer and LbProcess
      with RouterTurns_proofs
    SidecarLease_proofs   SidecarProcess_proofs
    LoadRun_proofs        MetricsTracker_proofs
    WebServer_proofs      Dashboard and Scraper
    DataInduction         induction, sums and sequences, for all of them

Where one proof module needs two processes, the definitions of the second have a
letter before their name: `PNext` in LbProcess, `SNext` in Scraper, `DNext` in
Dashboard.

**DrainLease** has a key's lease and nothing else: `Drain`, `Resume`, `Expire`,
`ResumeAll`, `Tick`. It stands for the load balancer wherever only the lease
matters.

**DrainManager** is `drain_manager.ts` with Node's timers. A timer is an id with
the server its closure captured and the ticks left; it fires when due or later. An
absent Map entry and an entry {false, null} read the same in every method and are
one value. `setTimeout` runs a delay outside 1..2^31-1 after 1 ms, and
`TimeoutDelay` does so too. Two servers may have one `host:port` and then share an
entry. **DrainHistory** adds `owed`, the time the last DRAIN still asks for.

**Router** has the configured list as positions; `EligibleFor` is
`buildEligibleList()`, `Choose` and `ChooseNone` the loop of `next()`, `SetActive` the
admin call. A count that is no whole number activates as many servers as the next
whole one, and is not a case of its own. **RouterTurns** adds `passed`, the servers
returned while another one waited. **LoadBalancer** puts manager and router together:
the router's `drained` is what `isDrained()` answers of the manager's state.

**SidecarListener** cuts a stream of symbols anywhere; digits are symbols of their
own, because DRAIN:50 cut after the 5 reads as a command. **Proxy** has the two
streams behind a request with every order of their events. **LbProcess** is
`main.ts`: both servers, the signal, the exit.

**LbConnection** has a socket as an id with the phase Node has it in, so that the
`close` of a destroyed socket comes in a later turn. **HealthChecks** has the loop
of `runChecks()`, in which a check that is not reached is not called and does not
change. They hold no specification; **SidecarProcess** composes them in `start()`,
`stop()` and the signal handler, including a taken metrics port and the rejection
of `metricsServer.stop()` that nothing catches.

**SidecarLink** is the heartbeat with a clock: the sidecar's send timer (late by up
to `Jitter`), a TCP connection that holds each command up to `MaxDelay` and may
leave its oldest commands behind when it drops, and the lease. **SidecarLease** adds
`covered`, the time from the first DRAIN obeyed. Its phase `starting` separates
`runner.start()` from the attachment of the listener, which Node resolves in one
turn unless the port takes longer: it allows a little more than the code does.

**GcPauseLoop** is the loop of pause, UDP datagrams, verdict, DRAIN, traffic. A
datagram leaves its process between two handlers, as Node's `send()` is asynchronous.
The service may be stopped or killed at any moment, and started again; a datagram
may be lost or overtake the other. The end of a pause reports any of `Reports`: the
simulated service its pause, `SafepointNotifier.java` what JFR has for SafepointEnd.

**OneRun** is what `handleRun()` promises of a call: accepted, 400 or 409, and if
accepted an end. **LoadRun** has a runner per thread: `parseConfig()` with the number
of threads it chooses, the share of each, the dispatch, the answers in any order,
workers that fail. **LatencyMetrics** is `metrics.ts` as operators on sequences of
latencies: `Percentile`, `Result`, `Merge`. It has no state.

**SimulationRuns** is a call of POST /api/simulation/run from the click to its answer:
the POST to the load balancer, then the GET to the generator, for which it uses
OneRun. Either request arrives whenever it likes, or never, and also after the route
has given it up. A call asks for one of the types and counts of `Asks`, some of which
the load balancer refuses; it routes to `activeType` and holds a count of every type
(`activeCount`). `disturbed` are the calls that were not alone: some other call was
configuring, waiting, under way or running at some moment of theirs. **Dashboard**
puts the page around it: `Ask` and `Show` are the two halves of a poll, the answer of
an older one may be shown last, a click on the switch asks for the opposite of what is
shown, its POST arrives at any time, and its answer, a 502 included, does not revert
it; a fetch that rejects does. `Real` is what the admin API would answer now: the
switch, and the counts of all types without the one that is routed to, as
`getServerGroups()` has it.

**Scraper** has one target that turns up, empty or down at will. What it answers may
be long on its way; a scrape it goes down with is lost (`Lose`), and fails by its
signal even when the target has recovered and later scrapes have succeeded.
**MetricsTracker** has the Java tracker step by step (read the slot, increment it,
increment the total; clear, advance; a getRps() slot by slot) and the two TypeScript
ones, which it mirrors, with each handler as one step.

The component modules without a specification of their own (LbConnection,
HealthChecks) and those used by INSTANCE (SidecarListener, Proxy) are checked in
the process that composes them. Types are in each module's `TypeOK`; those of
DrainManager, DrainHistory, SidecarLink, LbConnection, the router and Dashboard are
proved, and the proofs about the other modules have the part of theirs that they
need as a conjunct of the invariant.

## 3. What the runs check

| Run | Instance | Shows |
|---|---|---|
| load_balancer | 3 servers, two on one host:port, durations 1 and 2, 3 timers | No orphaned timer, a timer behind each drained server, DRAINs held, the lease implemented, drains end, requests respect drains through the switch, a server whose sidecar is gone gets its requests again and again |
| router | 5 servers: two of each of two types, one untyped; also a type nobody has | Nobody is overtaken twice while available; 503 only when every eligible server is drained |
| lb_process | 2 connections, 2 lines, 1 request, a signal | Commands survive any cut; nothing is obeyed after the signal; one answer per request, never a truncated one as whole |
| lb_shutdown | 1 connection, 1 request | **Violation** of "gracefully shuts down", see 6 |
| sidecar_process | 2 sockets, 2 timers, three lists of checks, failures of up to 5 ticks | One attempt at a time; checks start though the load balancer is down; nothing goes on after stop; a connection is regained; the DRAIN covers the failure, the verdict recovers |
| sidecar_lease | intervals 6 and 7, jitter 1, delay 1, 2 commands per connection | No gap in the lease; a sidecar that is gone releases its server; a settled sidecar is obeyed, across drops, leftovers and restarts of either side |
| sidecar_gc_pause | interval equal to the floor of the send interval | **Violation** of the renewal, see 6 |
| gc_pause | pause 3, cooldown 2 as long as the send period, reports of 0 and 3, two faults | The server comes back into rotation after every pause, whatever is lost, reordered or restarted, but for one state: its last start was heard and no end will follow |
| scraper | interval 2, timeout 5, retention 3 | Scrapes do not pile up; the status is current after a bounded time, after late answers and late failures; so are charts |
| load_run | 2 calls, rates of 0 to 4 with a limit of 3, threads 0, 1, 2 or chosen for 2 CPUs, fast answers and slow failures | One load at a time unless a worker failed, all counted, percentiles of all requests whichever thread had them; OneRun is implemented, its liveness included |
| dashboard | 1 page, 2 types with totals of 2 and 1, 2 uses among clicks on the switch and calls of a run that ask for what there is or for too much, 2 polls of the switch at once and 1 of the groups | A call that is alone is served as it asked and not refused; every call is answered; clicks made one at a time have the last word; once clicking stops the page comes to show the switch and the counts of the load balancer |
| metrics_tracker | 2 threads, 3 slots, 3 requests | The window is exact, second by second; a report has all that stayed in the window while it was read and nothing that never was in it |

**Why the bounds are enough.** Three servers are one pair on a shared key and one
apart, and more keys share nothing. Three timers are one per key and the one a new
DRAIN takes before the old id is free. Five servers let two of a type be skipped
and counted off. Two connections are one and its successor; two lines a command and
its prefix; the proxy's requests are independent. Two sockets are one that closes
and its successor, two timers would be two reconnect loops; a second `connect()` is
left out because `sidecar.ts` makes one call. The backoff of 1, 2, 3 has a start, a
doubling and the cap. Intervals 6 and 7 make a change of interval while the send
period stays, and the smallest that fit jitter and delay. A scrape timeout longer
than two intervals lets three scrapes overlap. Three slots are a current, a next
and one that is neither; three requests on two threads let one thread record twice
while the other waits over the whole window. Two faults of the pause loop are one
that leaves the check waiting and one in the middle of the pause that could save it.
Three requests on two threads are unequal shares, one on two threads leaves a worker
without any; a latency and its success are tied together because no definition
relates them. Two uses of the page are every pair that can race: two clicks, two
calls, a click and a call; a third would wait for, or race, one of the two, and a
second page differs from a late poll of the first only in where the click is made,
which `CallElsewhere` has for calls. The two calls ask for different types, and
either may ask for too much and be refused. Every bound on a counter is a CONSTANT
marked "bound", and is a guard.

**Deadlock** is checked except where the system stops: lb_process, lb_shutdown,
sidecar_process (the process exits or crashes), load_run and metrics_tracker (the
calls are used up). The page of dashboard polls for ever.

**Fairness.** Weak fairness throughout. Granted: the clock; a timer that stays due
(the event loop runs it); an event the kernel or Node owes, as the answer of an
attempt, the `close` of a destroyed socket, the timeout of a silent request; the
delivery of what TCP still carries while the connection is up; the reconnect loop (in
SidecarLink; in SidecarProcess each of its steps is granted and the loop's success is
the conclusion of `Reconnects`); in GcPauseLoop traffic and the arming timer, because
the loop is about a server that is sent requests; the requests of a run, which end by
fetch()'s own timeouts; the timeouts of the routes, and polls that come through again
and again. Not granted: that the load balancer or the generator ever answers a call;
any command, health verdict, drop, stop, restart, signal, admin call, client or peer
that closes. Where a property needs the environment to settle it says so in its
premise: `DrainsEnd` once a key gets no more DRAINs, `TrafficReturns` once there are
moreover no admin calls (each restarts the rotation) and while clients go on sending
requests, which is a fairness of `Route` in the property and not in the specification,
`Reconnects` once the network stops failing, `Agreement` while a connected sidecar
keeps its verdict.

## 4. What is proved

TLAPS checks these for every value of the constants. Every safety invariant and
every safety action property the runs check is a theorem; the runs show them, and
the liveness, on their instances. The only assumptions are the modules' ASSUMEs,
which say what the constants are, and two preconditions on the configuration that
the theorems name: `DurationsFit` and `HeartbeatFits`.

**The drain manager** (LoadBalancer_proofs)

- `DrainManagerSafe`, `DrainedHasTimer`, `HistoryTypes`: types, `NoOrphanTimer` and
  `SafetyNet`, under any durations. The two are not inductive apart. An armed timer
  is its server's current one because `drain()` and `resume()` clear the old one,
  and what they clear is the entry's reference: that this is the only armed timer of
  the key is `NoOrphanTimer` itself; that firing resumes the right key needs both;
  and that a server in rotation refers to none (`InRotationIsIdle`) is needed for a
  fresh id. `IInv` is their conjunction.
- `DrainHeldForDuration`: given `DurationsFit` (durations are in 1..TimeoutMax), a
  server is drained for as long as its last DRAIN asks for. `HInv` adds
  `OwedIsLeft`: what is owed is exactly what is left on the key's timer. Without
  the precondition it is false, see 7.
- `DrainManagerImplementsLease`: `HSpec => Lease!Spec` under the same precondition,
  `out` being the drained keys and `lease` what is owed. Each action maps to the one
  of its name, a timer that fires to `Expire` because nothing is owed any more, the
  switch to a stutter.

**The router** (RouterTurns_proofs)

- `RoundRobin` is `NoOvertaking`, `NextFindsAvailable` is `NextSound`, `PostedCount`
  that an admin call makes as many servers eligible as it posts, or all there are.
  `Before(p)` counts the eligible servers that have their turn before p. `PassedInv`
  says that whatever was returned since p was is *after* p in the turn: choosing a
  server puts it last, and leaves the order of the others. It rests on `Rank`, the
  position of an eligible server in the list, being a bijection onto an interval.

**The load balancer** (LoadBalancer_proofs)

- `RequestsRespectDrains` (`RespectsDrains`) and `RefusalsAreTimed` are about the two
  together. A request is refused for one of two causes: no server is in use, because an
  administrator has asked for none (`router.ts:92` allows a count of 0), and then
  refusals do not end by themselves; or the switch is on and each server in use has an
  armed timer. `LBInv` has no more than the invariant of each; the
  theorem combines `HInv` with lemmas of RouterTurns_proofs, which are cited through
  an INSTANCE whose `drained` is what the manager answers.
- `OneHead` (`OneAnswer`), `EndedIsWhole` (`NeverTruncated`): `ExchangeInv` settles,
  for each state of the upstream request, what has been written on the client's
  response: nothing while it is pending, the server's status once it responds, and
  nothing or that status if it was destroyed. A handler that writes a head finds
  none because of the state it is called in.
- `NothingAfterSignal` (`QuietAfterStop`), `ExitIsGraceful`: every open socket is in
  `activeSockets`, which is why `stop()` reaches all.
- `CommandsAreWhole` (`ObeysWhatWasWritten`), `NoCommandKept` (`NothingKeptBack`):
  `FramingInv` says of each connection that the lines it wrote are those obeyed
  followed by those that `Split` will find in the buffer and what is under way, with
  nothing left over. Cutting the stream anywhere keeps it because splitting a text is
  splitting its first part and going on with the rest (`Split` is a fold, so this is
  an induction over the text). `LinesAssumption`, that a line is not empty and holds
  no newline, is what `lb_connection.ts` writes.

**The sidecar** (SidecarProcess_proofs, SidecarLease_proofs)

- `ConnectionTypes`, `ExactlyOneAttempt` (`OneAttempt`), `ConnectedHasSocket`
  (`WriteIfConnected`), `NothingAfterStop` (`StopIsFinal`): `Held` says that a socket
  that lives is `this.socket`, an armed timer is `this.reconnectTimer`, and there are
  never both; `TryingUnlessStopped` that there is one of them exactly from
  `connect()` to `disconnect()`. `ClosingWhenStopped` is why no late `close` of a
  destroyed socket starts a second attempt, `RunningUnlessStopped` why a `start()`
  that was under way does nothing any more.
- `DrainOutlastsFailure` (`DrainCoversFailure`): what is left of a failure is no
  longer than the duration `isHealthy()` drew for it, and the interval is a maximum
  that includes that duration.
- `HeartbeatKeepsLease` (`NoLapse`): given `HeartbeatFits` (every send period start()
  can choose, plus jitter and delay, is shorter than every interval), the lease has no
  gap while its sidecar is covered. `CInv` says how far the lease reaches: beyond
  `Due`, the time until the next command is obeyed, which is the delay of the first
  command on the wire or, on an empty wire, the wait for the send timer and the delay
  of what it sends; and that nothing but DRAINs is on its way.

**The generator** (LoadRun_proofs)

- `OneLoad` (`OneLoadUnlessFailed`), `LiveMetricsPending`, and `OneRunSteps`, that
  each step is one of OneRun or a stutter (the safety of `ImplementsOneRun`).
  `OnePending` has one pending run exactly while `isRunning`, `RunningPending` has a
  runner that runs only in that run or in one that a worker has failed.
- `EveryRequestCounted` (`AllCounted`): each request of a share is to be dispatched,
  in flight, or counted (`ShareKept`), and a runner that has posted has none of the
  first two. The shares add up to the rate, for any number of threads, and a report
  is of as many latencies as the runners have (`LatencyKept`).
- `PercentilesOfAll` (`PercentilesPooled`): the sort and the pool keep, for any set of
  times, how many latencies are in it (`SortedFacts`, `FlattenFacts`), and the entry
  `percentile()` picks from a sorted list of n has at most p*n below it and the rest
  above (`PercentileFacts`). `Sorted` is an insertion sort because the library's
  sort has no definition a proof could expand; both give the one sorted list.

**The web server** (WebServer_proofs)

- `DashboardTypes`, `AloneAsAsked` (`AsAskedIfAlone`): as long as anything of an
  undisturbed call is open, nothing of another one is (`Alone`), so that the load
  balancer keeps what it has set (`KeptActive`) and the generator is free.
  `LastClickSet` (`LastClickWins`): of clicks made in turn only the last is open.
- `ScrapesDoNotPileUp` (`InFlightBounded`): two scrapes under way are an interval
  apart in the time they have left (`SpacedInv`).
- `StatusSettles` (`StatusCurrent`): a wrong status is about to be corrected, by a
  scrape that ends in time or by the next one (`RecoveryInv`, `OutageInv`); while the
  target is down an answer that is still on its way is an old one (`LateAnswers`), and
  while it is not, a lost scrape is (`LateFailures`), which is where the second timeout
  of `Horizon` comes from.
- `ChartsFollow` (`ChartCurrent`): entries reach back no further than the retention
  from the last one, and a target that is up has its next entry due in time.

**The windows of the services** (MetricsTracker_proofs)

- `WindowIsExact` (`WindowExact`): a thread that holds a slot holds that of the second
  it read it in, `age` slots behind the current one (`HeldInv`). Once `age` is the size
  of the window it may hold any, which is the exception the property names.
- `RateIsSound` (`ReportSound`): what a scan has read and what is still to read is
  between `kept`, the requests that were there when it began and have not been cleared
  since, and `most`, those with the requests that came since (`Between`). `kept` loses
  a slot that is cleared and nothing else. It is no claim that the sum is that of a
  window: a slot may be read and cleared before requests come that are read as well.

**DataInduction** is what the proofs about folds, sums and sorting rest on. The
library's induction theorems take a predicate as a parameter, which the provers
cannot instantiate; a set in its place can be, and that a set that holds 0 and each
successor is Nat follows from the well-foundedness of <. From it follow the sums of
functions over finite sets (a sum changes by what one summand changes, the sum of
sums) and induction over sequences.

**Only model-checked** are the liveness properties, because fairness is about ENABLED,
which is beyond the prover: `DrainsEnd`, `TrafficReturns`, `Answered`, `Reconnects`,
`ChecksStart`, `VerdictRecovers`, `GoneReleases`, `Agreement`, `BackInRotation`,
`CallsAnswered`, `ViewsAgree`, and the liveness of `ImplementsOneRun`. The liveness of
`ImplementsLease` is none: DrainLease promises safety alone.

## 5. Not modelled

HTTP, headers, bodies, JSON and metric formats; the mean, the elapsed time and the
actual rate of a run; the files and arguments of the configuration, but for the
parameters of a run; the gauge of `metrics_server.ts`; charts and cards of the page,
and its hooks for services and metrics, which poll as the modelled ones do and which
no click writes to; `MetricsScraper.stop()` and `RateLimiter.stop()`, which nothing
calls; the work a service does for a request; a second signal to the load balancer;
UDP duplicates. The pauses of the Java service are the JVM's: GcPauseLoop has them as
those of a request, and leaves out pauses while the server is drained.

## 6. Findings

- *sidecar_gc_pause*, `lb/sidecar/src/sidecar.ts:53`. The send period is half the
  drain interval but at least 50 ms, and the gc-pause check starts with an interval
  of 50 ms. The lease and its renewal are then due at the same time and the server
  is back in rotation for a moment, unhealthy, each period. `HeartbeatFits` is the
  condition that would exclude it.
- *lb_shutdown*, `lb/src/proxy_server.ts:114`. If the upstream breaks off after its
  headers, nothing ends the client's response; `server.close()` waits for that
  connection and the shutdown does not end while the client is patient.

## 7. Observations without a run

- A duration over 2^31-1 ms makes an auto-resume timer of 1 ms
  (`drain_manager.ts:51`): `DurationsFit` is needed.
- `executePause()` queues safepoint_start and spins in the same turn
  (`gc_pause_simulator.ts:129`): the datagram leaves after the pause. The check
  learns of a pause when it is over, and drains the server for as long again.
- The status of a target can be wrong for a timeout longer than one would expect:
  a scrape the target lost in an outage may fail after the target has recovered and the
  next one has succeeded (`metrics_scraper.ts:115`). `Horizon` in Scraper is the bound.
- `MetricsTracker.java` is exact unless a thread sleeps between `currentSlot.get()`
  and `incrementAndGet()` from one end of the window to the other; its request then
  counts in a wrong second, or for a shorter time. `late` is that condition.
- `connect()` before the `close` of the socket `disconnect()` destroyed would lose the
  new socket (`lb_connection.ts:117`); `sidecar.ts` never does it.
- A worker that fails ends its run for the generator's server while the other workers
  go on (`server.ts:99`): the next run is accepted beside their load.
- A signal to the sidecar before `start()` is done ends it by an unhandled rejection,
  not by its `process.exit(0)` (`sidecar.ts:75`).
- GET /admin/servers reports the count of an inactive type as its active one
  (`router.ts:127`), and which type is routed to not at all. The page takes the first
  group whose count is above 0 for "the one selected for routing" (`app.tsx:40`), whatever
  is routed to. `ViewsAgree` is about the switch
  and the counts only.
- A start makes the GC-pause check unhealthy until an end comes
  (`gc_pause_check.ts:80`). If that end is lost, overtakes its start or dies with the
  service, the sidecar keeps renewing the DRAIN; without requests the service runs no
  pause, and the server stays out for ever. The comment on the class allows for a
  pause "plus a brief cooldown" (`gc_pause_check.ts:19`). `BackInRotation` names this
  state (`endLost`) and shows that it is the only one.
- Every admin call restarts the rotation at the first server (`router.ts:98`): calls
  repeated faster than a turn would starve the last ones.
- POST /api/simulation/run reconfigures the load balancer before the generator may
  refuse the run (`simulation_routes.ts:52`), and a POST the route has given up may
  arrive during the next call (`:56`). `AsAskedIfAlone` exempts these calls: its premise
  is needed, and it says nothing of what they do. A
  call that was answered 502 after 120 s (`:76`) may still be running.
- A 502 does not revert the switch (`use_backpressure.ts:62`), though the comment says
  "Revert on failure": only a poll does. Two clicks are two POSTs without an order, which
  `LastClickWins` exempts.
- A rate or a duration that is no whole number makes a fractional number of requests
  (`rate_limiter.ts:27`), which is rounded up, per thread.

## 8. Plan

Done: the lease, the manager, the router, the sidecar, the two processes of the
control path, the pause loop with its faults, the generator and its metrics, the
routes and the page of the web server, the scraper, the windows.

Proved: the safety of all of it (4).

Left:

1. GcPauseLoop has no theorem: what it promises, `BackInRotation`, is liveness. The
   safety under it, that a check which waits has an end on its way unless that end was
   lost (`endLost` is exact), is the invariant to state and prove next.
2. The liveness properties, should the prover come to know ENABLED. The invariants
   they need are proved: a drained key has the timer `DrainsEnd` waits for
   (`SafetyNet`), a connection the attempt `Reconnects` waits for (`OneAttempt`).
3. Configuration loaders and the command line are not modelled: they have no state,
   and what they compute is in the constants.
