--------------------------- MODULE MetricsTracker ---------------------------
(***************************************************************************)
(* The sliding window of the services' /metrics: MetricsTracker.java, used *)
(* by the threads of JavaGcServer and its own rotator thread, and the two  *)
(* metrics_tracker.ts it mirrors, used by the handlers and the interval of *)
(* a Node process, each of which runs to its end.                          *)
(*                                                                         *)
(* A thread of the Java pool stands for one request on its way through     *)
(* recordRequest(); under Node a request is one step and holds no thread.  *)
(***************************************************************************)
EXTENDS Integers, FiniteSets, Functions

CONSTANTS
  Threads,      \* the threads of the Java pool
  WindowSize,   \* windowSize, in seconds
  MaxRequests,  \* bound: the requests to /query
  None

ASSUME MetricsTrackerAssumption ==
  /\ WindowSize \in Nat \ {0}
  /\ MaxRequests \in Nat
  /\ None \notin Nat

Slots == 0..(WindowSize - 1)

VARIABLES
  runtime,        \* "java" or "node"
  timer,          \* the rotation: "unset", "set" by start(), or "stopped"
  slots,          \* slots
  currentSlot,    \* currentSlot
  totalRequests,  \* totalRequests
  rotator,        \* the rotator thread: "idle", or "cleared" the next slot
  held,           \* the slot each thread read and has still to increment
  counted,        \* the threads between the slot and the total
  scan,           \* a getRps(): the slots read and their sum, with a history of it
  age,            \* history: the rotations since a thread read its slot
  arrived,        \* history: the requests recorded in each of the last seconds
  late            \* history: has a thread slept over a whole window?

tracker == <<slots, currentSlot, totalRequests>>
pool == <<held, counted, age>>
vars == <<runtime, timer, tracker, rotator, pool, scan, arrived, late>>

TypeOK ==
  /\ runtime \in {"java", "node"}
  /\ timer \in {"unset", "set", "stopped"}
  /\ slots \in [Slots -> Nat]
  /\ currentSlot \in Slots
  /\ totalRequests \in 0..MaxRequests
  /\ rotator \in {"idle", "cleared"}
  /\ held \in [Threads -> Slots \union {None}]
  /\ counted \subseteq Threads
  /\ age \in [Threads -> 0..WindowSize]
  /\ arrived \in [Slots -> Nat]
  /\ late \in BOOLEAN

Init ==
  /\ runtime \in {"java", "node"}
  /\ timer = "unset"
  /\ slots = [i \in Slots |-> 0]
  /\ currentSlot = 0
  /\ totalRequests = 0
  /\ rotator = "idle"
  /\ held = [t \in Threads |-> None]
  /\ counted = {}
  /\ scan = None
  /\ age = [t \in Threads |-> 0]
  /\ arrived = [k \in Slots |-> 0]
  /\ late = FALSE

Busy == counted \union {t \in Threads : held[t] # None}

\* start() sets the timer before it listens.  JavaGcServer stops its server before
\* the timer; under Node a kept connection may bring requests after stop().
Accepting ==
  /\ timer = "set" \/ (timer = "stopped" /\ runtime = "node")
  /\ totalRequests + Cardinality(Busy) < MaxRequests

-----------------------------------------------------------------------------

\* start(): one timer, whoever calls it again.
Start ==
  /\ timer = "unset"
  /\ timer' = "set"
  /\ UNCHANGED <<runtime, tracker, rotator, pool, scan, arrived, late>>

\* stop(): a rotation under way ends, as nothing in it can be interrupted.
Stop ==
  /\ timer = "set"
  /\ timer' = "stopped"
  /\ UNCHANGED <<runtime, tracker, rotator, pool, scan, arrived, late>>

\* A request that read its slot k rotations ago has been put into it.
Arrive(k) ==
  /\ arrived' = IF k < WindowSize THEN [arrived EXCEPT ![k] = @ + 1] ELSE arrived
  /\ late' = (late \/ k = WindowSize \/ (k = WindowSize - 1 /\ rotator = "cleared"))
  /\ scan' = IF scan = None THEN None ELSE [scan EXCEPT !.most = @ + 1]

\* A second of the window is over.
Age ==
  /\ arrived' = [k \in Slots |-> IF k = 0 THEN 0 ELSE arrived[k - 1]]
  /\ age' = [t \in Threads |-> IF age[t] < WindowSize THEN age[t] + 1 ELSE age[t]]

-----------------------------------------------------------------------------
(* Java *)

\* A thread of the pool is done with the work of /query, and recordRequest()
\* reads the current slot.
ReadSlot(t) ==
  /\ runtime = "java"
  /\ Accepting
  /\ t \notin Busy
  /\ held' = [held EXCEPT ![t] = currentSlot]
  /\ age' = [age EXCEPT ![t] = 0]
  /\ UNCHANGED <<runtime, timer, tracker, rotator, counted, scan, arrived, late>>

\* slots.incrementAndGet() of that slot, whatever the current one is by now.
IncrementSlot(t) ==
  /\ held[t] # None
  /\ slots' = [slots EXCEPT ![held[t]] = @ + 1]
  /\ held' = [held EXCEPT ![t] = None]
  /\ counted' = counted \union {t}
  /\ Arrive(age[t])
  /\ UNCHANGED <<runtime, timer, currentSlot, totalRequests, rotator, age>>

\* totalRequests.incrementAndGet(), and the answer.
IncrementTotal(t) ==
  /\ t \in counted
  /\ totalRequests' = totalRequests + 1
  /\ counted' = counted \ {t}
  /\ UNCHANGED <<runtime, timer, slots, currentSlot, rotator, held, age, scan,
                 arrived, late>>

\* The slot after the current one.
NextSlot == (currentSlot + 1) % WindowSize

\* A fault: the rotator clears the slot it leaves.
ClearedLeft == [slots EXCEPT ![currentSlot] = 0]

\* The slots with the next one cleared.
Cleared == [slots EXCEPT ![NextSlot] = 0]

\* The rotator clears the next slot ...
Clear ==
  /\ runtime = "java"
  /\ timer = "set"
  /\ rotator = "idle"
  /\ slots' = Cleared
  /\ rotator' = "cleared"
  /\ scan' = IF scan = None THEN None ELSE [scan EXCEPT !.kept[NextSlot] = 0]
  /\ UNCHANGED <<runtime, timer, currentSlot, totalRequests, pool, arrived, late>>

\* ... and then moves on to it.
Advance ==
  /\ rotator = "cleared"
  /\ currentSlot' = NextSlot
  /\ rotator' = "idle"
  /\ Age
  /\ UNCHANGED <<runtime, timer, slots, totalRequests, held, counted, scan, late>>

\* /metrics: getRps() begins.  Its history: kept, what of the window it began with
\* no rotation has taken away; and most, the requests that have been in the window
\* at some moment since.
BeginScan ==
  /\ runtime = "java"
  /\ timer # "unset"
  /\ scan = None
  /\ scan' = [next |-> 0, sum |-> 0,
              kept |-> slots, most |-> SumFunction(slots)]
  /\ UNCHANGED <<runtime, timer, tracker, rotator, pool, arrived, late>>

\* A fault: the loop of getRps() goes by the current slot, read anew each time.
SlotReadFromCurrent(i) == (currentSlot + i) % WindowSize

\* The slot the i-th iteration of getRps() reads.
SlotRead(i) == i

ReadNext ==
  /\ scan # None
  /\ scan.next < WindowSize
  /\ scan' = [scan EXCEPT !.next = @ + 1, !.sum = @ + slots[SlotRead(scan.next)]]
  /\ UNCHANGED <<runtime, timer, tracker, rotator, pool, arrived, late>>

EndScan ==
  /\ scan # None
  /\ scan.next = WindowSize
  /\ scan' = None
  /\ UNCHANGED <<runtime, timer, tracker, rotator, pool, arrived, late>>

-----------------------------------------------------------------------------
(* Node: every handler is one step *)

NodeQuery ==
  /\ runtime = "node"
  /\ Accepting
  /\ slots' = [slots EXCEPT ![currentSlot] = @ + 1]
  /\ totalRequests' = totalRequests + 1
  /\ Arrive(0)
  /\ UNCHANGED <<runtime, timer, currentSlot, rotator, pool>>

\* The callback of setInterval().
NodeRotate ==
  /\ runtime = "node"
  /\ timer = "set"
  /\ currentSlot' = NextSlot
  /\ slots' = Cleared
  /\ Age
  /\ UNCHANGED <<runtime, timer, totalRequests, rotator, held, counted, scan, late>>

Next ==
  \/ Start
  \/ Stop
  \/ \E t \in Threads : ReadSlot(t) \/ IncrementSlot(t) \/ IncrementTotal(t)
  \/ Clear
  \/ Advance
  \/ BeginScan
  \/ ReadNext
  \/ EndScan
  \/ NodeQuery
  \/ NodeRotate

Spec == Init /\ [][Next]_vars

-----------------------------------------------------------------------------
(* Properties *)

\* "Thread-safe sliding-window RPS tracker": the slots are the requests of the last
\* WindowSize seconds, second by second, none lost and none counted twice, however
\* threads and rotator interleave.  The bound is exact: only a thread suspended
\* from one end of the window to the other puts its request into a wrong second.
WindowExact ==
  ~late =>
    \A k \in Slots :
      slots[(currentSlot - k) % WindowSize] =
        IF k = WindowSize - 1 /\ rotator = "cleared" THEN 0 ELSE arrived[k]

\* The rate /metrics reports, read slot by slot while requests come and the window
\* turns: every request is in it that was in the window when the reading began and
\* still is when it ends, and only requests that were in the window at some moment
\* in between, each of them once.  It may be no window there ever was: a second
\* that has been read may leave the window while later requests are still to be
\* read.
ReportSound ==
  scan # None /\ scan.next = WindowSize => scan.sum \in SumFunction(scan.kept)..scan.most
=============================================================================
