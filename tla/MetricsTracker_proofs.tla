----------------------- MODULE MetricsTracker_proofs ------------------------
(***************************************************************************)
(* The sliding window of the services for any threads and any window: its  *)
(* slots are the requests of the last seconds, whatever the interleaving   *)
(* of the threads and the rotator, and a rate that is read from them slot  *)
(* by slot has all that stayed in the window for the whole of the reading  *)
(* and nothing that was in it at no moment of the reading.                 *)
(***************************************************************************)
EXTENDS MetricsTracker, DataInduction, TLAPS

\* The slot of the k-th second before this one.
SlotOf(k) == (currentSlot - k) % WindowSize

WindowTypes ==
  /\ runtime \in {"java", "node"}
  /\ slots \in [Slots -> Nat]
  /\ currentSlot \in Slots
  /\ rotator \in {"idle", "cleared"}
  /\ held \in [Threads -> Slots \union {None}]
  /\ age \in [Threads -> 0..WindowSize]
  /\ arrived \in [Slots -> Nat]
  /\ late \in BOOLEAN

\* A thread that has not slept over the window still holds the slot of the second
\* in which it read it.
HeldInv ==
  \A t \in Threads : held[t] # None /\ age[t] < WindowSize => held[t] = SlotOf(age[t])

\* Under Node no handler is ever seen half done.
NodeInv == runtime = "node" => rotator = "idle" /\ \A t \in Threads : held[t] = None

MInv == WindowTypes /\ HeldInv /\ NodeInv /\ WindowExact

-----------------------------------------------------------------------------
(* The ring of slots *)

\* Going back or forward by less than a turn wraps at most once.
LEMMA RingFacts ==
  ASSUME NEW n \in Nat \ {0}, NEW c \in 0..(n - 1)
  PROVE  /\ \A k \in 0..(n - 1) : (c - k) % n = IF c >= k THEN c - k ELSE c - k + n
         /\ (c + 1) % n = IF c + 1 < n THEN c + 1 ELSE 0
<1>1. \A k \in 0..(n - 1) : (c - k) % n = IF c >= k THEN c - k ELSE c - k + n
  <2> TAKE k \in 0..(n - 1)
  <2> DEFINE q == (c - k) \div n
             r == (c - k) % n
  <2>1. q \in Int /\ r \in 0..(n - 1) /\ c - k = n * q + r
    OBVIOUS
  <2>2. q \in {-1, 0}
    OBVIOUS
  <2> HIDE DEF q, r
  <2>3. r = IF c >= k THEN c - k ELSE c - k + n
    BY <2>1, <2>2
  <2>4. QED
    BY <2>3 DEF r
<1>2. (c + 1) % n = IF c + 1 < n THEN c + 1 ELSE 0
  OBVIOUS
<1>3. QED
  BY <1>1, <1>2

LEMMA EndSlots == 0 \in Slots /\ WindowSize - 1 \in Slots
BY MetricsTrackerAssumption DEF Slots

LEMMA SlotFacts ==
  ASSUME currentSlot \in Slots
  PROVE  /\ \A k \in Slots : SlotOf(k) \in Slots
         /\ \A k, j \in Slots : SlotOf(k) = SlotOf(j) => k = j
         /\ SlotOf(0) = currentSlot
         /\ SlotOf(WindowSize - 1) = NextSlot
         /\ NextSlot \in Slots
<1>1. /\ \A k \in Slots : SlotOf(k) = IF currentSlot >= k THEN currentSlot - k
                                      ELSE currentSlot - k + WindowSize
      /\ NextSlot = IF currentSlot + 1 < WindowSize THEN currentSlot + 1 ELSE 0
  BY MetricsTrackerAssumption, RingFacts DEF Slots, SlotOf, NextSlot
<1>2. 0 \in Slots /\ WindowSize - 1 \in Slots
  BY MetricsTrackerAssumption DEF Slots
<1> HIDE DEF SlotOf
<1>3. QED
  BY <1>1, <1>2, MetricsTrackerAssumption DEF Slots

\* When the window turns, every second moves one place back.
LEMMA TurnFacts ==
  ASSUME currentSlot \in Slots, currentSlot' = NextSlot
  PROVE  \A k \in Slots :
           SlotOf(k)' = IF k = 0 THEN NextSlot ELSE SlotOf(k - 1)
<1> TAKE k \in Slots
<1>1. currentSlot' \in Slots
  BY SlotFacts
<1>2. SlotOf(k)' = IF currentSlot' >= k THEN currentSlot' - k
                   ELSE currentSlot' - k + WindowSize
  BY <1>1, MetricsTrackerAssumption, RingFacts DEF Slots, SlotOf
<1>3. NextSlot = IF currentSlot + 1 < WindowSize THEN currentSlot + 1 ELSE 0
  BY MetricsTrackerAssumption, RingFacts DEF Slots, NextSlot
<1>4. k # 0 => SlotOf(k - 1) = IF currentSlot >= k - 1 THEN currentSlot - (k - 1)
                               ELSE currentSlot - (k - 1) + WindowSize
  <2>1. k # 0 => k - 1 \in 0..(WindowSize - 1)
    BY MetricsTrackerAssumption DEF Slots
  <2>2. QED
    BY <2>1, MetricsTrackerAssumption, RingFacts DEF Slots, SlotOf
<1> HIDE DEF SlotOf
<1>5. QED
  BY <1>1, <1>2, <1>3, <1>4, MetricsTrackerAssumption DEF Slots

\* The window, read through SlotOf.
LEMMA WindowBySlot ==
  WindowExact <=>
    (~late => \A k \in Slots :
       slots[SlotOf(k)] = IF k = WindowSize - 1 /\ rotator = "cleared" THEN 0 ELSE arrived[k])
BY DEF WindowExact, SlotOf

LEMMA InitMInv == Init => MInv
<1> SUFFICES ASSUME Init PROVE MInv
  OBVIOUS
<1>1. WindowTypes
  <2>1. currentSlot \in Slots
    BY MetricsTrackerAssumption DEF Init, Slots
  <2>2. 0 \in 0..WindowSize
    BY MetricsTrackerAssumption
  <2>3. QED
    BY <2>1, <2>2 DEF Init, WindowTypes
<1>2. WindowExact
  BY <1>1, SlotFacts, WindowBySlot DEF Init, WindowTypes
<1>3. HeldInv /\ NodeInv
  BY DEF Init, HeldInv, NodeInv
<1>4. QED
  BY <1>1, <1>2, <1>3 DEF MInv

-----------------------------------------------------------------------------
(* One lemma per step that touches the window *)

\* A thread reads the slot of this second.
LEMMA ReadSlotMInv ==
  ASSUME MInv, NEW t \in Threads, ReadSlot(t)
  PROVE  MInv'
<1>1. /\ held' = [held EXCEPT ![t] = currentSlot] /\ age' = [age EXCEPT ![t] = 0]
      /\ UNCHANGED <<runtime, slots, currentSlot, rotator, arrived, late>>
      /\ runtime = "java"
  BY DEF ReadSlot, tracker
<1>2. WindowTypes'
  BY <1>1, MetricsTrackerAssumption DEF MInv, WindowTypes
<1>3. \A k : SlotOf(k)' = SlotOf(k)
  BY <1>1 DEF SlotOf
<1>4. WindowExact'
  BY <1>1 DEF MInv, WindowExact
<1>5. HeldInv'
  <2>1. SlotOf(0) = currentSlot
    BY SlotFacts DEF MInv, WindowTypes
  <2>2. held'[t] = currentSlot /\ age'[t] = 0
    BY <1>1 DEF MInv, WindowTypes
  <2>3. \A u \in Threads : u # t => held'[u] = held[u] /\ age'[u] = age[u]
    BY <1>1 DEF MInv, WindowTypes
  <2>4. QED
    BY <1>3, <2>1, <2>2, <2>3 DEF MInv, HeldInv
<1>6. QED
  BY <1>1, <1>2, <1>4, <1>5 DEF MInv, NodeInv

\* A request is put into the slot of the second that is k back, on time.
LEMMA ArriveExact ==
  ASSUME WindowTypes, WindowExact, NEW k \in Slots,
         k = WindowSize - 1 => rotator # "cleared",
         slots' = [slots EXCEPT ![SlotOf(k)] = @ + 1],
         arrived' = [arrived EXCEPT ![k] = @ + 1],
         late => late',
         UNCHANGED <<currentSlot, rotator>>
  PROVE  WindowExact'
<1>1. \A j \in Slots : SlotOf(j)' = SlotOf(j)
  BY DEF SlotOf
<1>2. \A j \in Slots : /\ SlotOf(j) \in Slots
                       /\ SlotOf(j) = SlotOf(k) => j = k
  BY SlotFacts DEF WindowTypes
<1>3. \A j \in Slots : /\ slots'[SlotOf(j)] = slots[SlotOf(j)] + (IF j = k THEN 1 ELSE 0)
                       /\ arrived'[j] = arrived[j] + (IF j = k THEN 1 ELSE 0)
  <2> TAKE j \in Slots
  <2>1. CASE j = k
    BY <1>2, <2>1 DEF WindowTypes
  <2>2. CASE j # k
    <3>1. SlotOf(j) # SlotOf(k) /\ SlotOf(j) \in Slots
      BY <1>2, <2>2
    <3>2. slots[SlotOf(j)] \in Nat /\ arrived[j] \in Nat
      BY <3>1 DEF WindowTypes
    <3>3. slots'[SlotOf(j)] = slots[SlotOf(j)] /\ arrived'[j] = arrived[j]
      BY <2>2, <3>1 DEF WindowTypes
    <3>4. QED
      BY <2>2, <3>2, <3>3
  <2>3. QED
    BY <2>1, <2>2
<1>4. ASSUME ~late', NEW j \in Slots
      PROVE  slots'[SlotOf(j)'] =
               IF j = WindowSize - 1 /\ rotator' = "cleared" THEN 0 ELSE arrived'[j]
  <2>1. slots[SlotOf(j)] =
          IF j = WindowSize - 1 /\ rotator = "cleared" THEN 0 ELSE arrived[j]
    BY <1>4, WindowBySlot
  <2>2. SlotOf(j)' = SlotOf(j) /\ rotator' = rotator
    BY <1>1
  <2>3. CASE j = k
    <3>1. slots[SlotOf(j)] = arrived[j]
      BY <2>1, <2>3
    <3>2. slots'[SlotOf(j)] = arrived'[j]
      BY <1>3, <3>1
    <3>3. QED
      BY <2>2, <2>3, <3>2
  <2>4. CASE j # k
    <3>1. slots'[SlotOf(j)] = slots[SlotOf(j)] /\ arrived'[j] = arrived[j]
      <4>1. slots[SlotOf(j)] \in Nat /\ arrived[j] \in Nat
        BY <1>2 DEF WindowTypes
      <4>2. QED
        BY <1>3, <2>4, <4>1
    <3>2. QED
      BY <2>1, <2>2, <3>1
  <2>5. QED
    BY <2>3, <2>4
<1>5. QED
  BY <1>4 DEF WindowExact, SlotOf

\* A thread increments the slot it holds, which is that of its second unless it has
\* slept over the window.
LEMMA IncrementSlotMInv ==
  ASSUME MInv, NEW t \in Threads, IncrementSlot(t)
  PROVE  MInv'
<1> DEFINE k == age[t]
<1>t. WindowTypes /\ held[t] \in Slots /\ k \in 0..WindowSize
  BY DEF MInv, WindowTypes, IncrementSlot
<1>1. /\ slots' = [slots EXCEPT ![held[t]] = @ + 1]
      /\ held' = [held EXCEPT ![t] = None]
      /\ arrived' = IF k < WindowSize THEN [arrived EXCEPT ![k] = @ + 1] ELSE arrived
      /\ late' = (late \/ k = WindowSize \/ (k = WindowSize - 1 /\ rotator = "cleared"))
      /\ UNCHANGED <<runtime, currentSlot, rotator, age>>
      /\ held[t] # None
  BY DEF IncrementSlot, Arrive
<1>2. k < WindowSize => k \in Slots /\ held[t] = SlotOf(k)
  BY <1>1, <1>t, MetricsTrackerAssumption DEF MInv, HeldInv, Slots
<1> HIDE DEF k
<1>3. WindowTypes'
  <2>1. slots' \in [Slots -> Nat] /\ held' \in [Threads -> Slots \union {None}]
    BY <1>1, <1>t DEF WindowTypes
  <2>2. arrived' \in [Slots -> Nat] /\ late' \in BOOLEAN
    BY <1>1, <1>2, <1>t DEF WindowTypes
  <2>3. QED
    BY <1>1, <1>t, <2>1, <2>2 DEF WindowTypes
<1>4. HeldInv'
  <2>1. \A u \in Threads : held'[u] # None => held'[u] = held[u] /\ age'[u] = age[u]
    BY <1>1, <1>t DEF WindowTypes
  <2>2. \A j : SlotOf(j)' = SlotOf(j)
    BY <1>1 DEF SlotOf
  <2>3. QED
    BY <2>1, <2>2 DEF MInv, HeldInv
<1>5. NodeInv'
  BY <1>1, <1>t DEF MInv, NodeInv, WindowTypes
<1>6. WindowExact'
  <2>1. CASE late'
    BY <2>1 DEF WindowExact
  <2>2. CASE ~late'
    <3>0. k # WindowSize /\ ~(k = WindowSize - 1 /\ rotator = "cleared")
      BY <1>1, <2>2, Zenon
    <3>1. k < WindowSize
      BY <1>t, <3>0, MetricsTrackerAssumption
    <3>2. /\ k \in Slots
          /\ slots' = [slots EXCEPT ![SlotOf(k)] = @ + 1]
          /\ arrived' = [arrived EXCEPT ![k] = @ + 1]
      BY <1>1, <1>2, <3>1
    <3>3. late => late'
      BY <1>1
    <3>4. WindowExact /\ UNCHANGED <<currentSlot, rotator>>
      BY <1>1 DEF MInv
    <3>5. QED
      BY <1>t, <3>0, <3>2, <3>3, <3>4, ArriveExact
  <2>3. QED
    BY <2>1, <2>2
<1>7. QED
  BY <1>3, <1>4, <1>5, <1>6 DEF MInv

\* The rotator clears the slot of the oldest second, whose requests leave the window.
LEMMA ClearMInv ==
  ASSUME MInv, Clear
  PROVE  MInv'
<1>1. /\ slots' = [slots EXCEPT ![NextSlot] = 0] /\ rotator' = "cleared"
      /\ UNCHANGED <<runtime, currentSlot, held, age, arrived, late>>
      /\ runtime = "java" /\ rotator = "idle"
  BY DEF Clear, Cleared, pool
<1>2. /\ WindowTypes
      /\ NextSlot \in Slots /\ SlotOf(WindowSize - 1) = NextSlot
      /\ \A k \in Slots : SlotOf(k) \in Slots
      /\ \A k, j \in Slots : SlotOf(k) = SlotOf(j) => k = j
  BY SlotFacts DEF MInv, WindowTypes
<1>3. WindowTypes'
  BY <1>1, <1>2 DEF WindowTypes
<1>4. \A k : SlotOf(k)' = SlotOf(k)
  BY <1>1 DEF SlotOf
<1>5. HeldInv' /\ NodeInv'
  BY <1>1, <1>4 DEF MInv, HeldInv, NodeInv
<1>6. ASSUME ~late', NEW k \in Slots
      PROVE  slots'[SlotOf(k)] = IF k = WindowSize - 1 THEN 0 ELSE arrived'[k]
  <2>1. slots[SlotOf(k)] = arrived[k]
    BY <1>1, <1>6, WindowBySlot DEF MInv
  <2>2. CASE k = WindowSize - 1
    BY <1>1, <1>2, <2>2 DEF WindowTypes
  <2>3. CASE k # WindowSize - 1
    <3>1. WindowSize - 1 \in Slots
      BY MetricsTrackerAssumption DEF Slots
    <3>2. SlotOf(k) # NextSlot
      BY <1>2, <2>3, <3>1
    <3>3. QED
      BY <1>1, <1>2, <2>1, <2>3, <3>2 DEF WindowTypes
  <2>4. QED
    BY <2>2, <2>3
<1>7. WindowExact'
  BY <1>1, <1>4, <1>6 DEF WindowExact, SlotOf
<1>8. QED
  BY <1>3, <1>5, <1>7 DEF MInv

\* The window turns onto a slot that is empty: by Clear under Java, in the same turn
\* under Node.
LEMMA TurnMInv ==
  ASSUME MInv, currentSlot' = NextSlot, Age,
         rotator' = "idle", UNCHANGED <<runtime, held, late>>,
         slots' \in [Slots -> Nat],
         ~late => /\ slots'[NextSlot] = 0
                  /\ \A k \in Slots : k # WindowSize - 1 => slots'[SlotOf(k)] = arrived[k]
  PROVE  MInv'
<1>t. WindowTypes
  BY DEF MInv
<1>1. /\ arrived' = [k \in Slots |-> IF k = 0 THEN 0 ELSE arrived[k - 1]]
      /\ age' = [t \in Threads |-> IF age[t] < WindowSize THEN age[t] + 1 ELSE age[t]]
  BY DEF Age
<1>2. currentSlot' \in Slots
  BY <1>t, SlotFacts DEF WindowTypes
<1>3. \A k \in Slots : k # 0 => k - 1 \in Slots /\ k - 1 # WindowSize - 1
  BY MetricsTrackerAssumption DEF Slots
<1>4. \A k \in Slots : SlotOf(k)' = IF k = 0 THEN NextSlot ELSE SlotOf(k - 1)
  BY <1>t, TurnFacts DEF WindowTypes
<1>5. WindowTypes'
  <2>1. arrived' \in [Slots -> Nat]
    BY <1>t, <1>1, <1>3 DEF WindowTypes
  <2>2. age' \in [Threads -> 0..WindowSize]
    <3>1. \A t \in Threads : age'[t] \in 0..WindowSize
      BY <1>t, <1>1, MetricsTrackerAssumption DEF WindowTypes
    <3>2. QED
      BY <1>1, <3>1
  <2>3. QED
    BY <1>t, <1>2, <2>1, <2>2 DEF WindowTypes
<1>6. HeldInv'
  <2> SUFFICES ASSUME NEW t \in Threads, held'[t] # None, age'[t] < WindowSize
               PROVE  held'[t] = (currentSlot' - age'[t]) % WindowSize
    BY DEF HeldInv, SlotOf
  <2> DEFINE k == age'[t]
  <2>1. age[t] \in 0..WindowSize /\ k = IF age[t] < WindowSize THEN age[t] + 1 ELSE age[t]
    BY <1>t, <1>1 DEF WindowTypes
  <2>2. k < WindowSize
    OBVIOUS
  <2> HIDE DEF k
  <2>3. age[t] < WindowSize /\ k = age[t] + 1 /\ k \in Slots /\ k # 0 /\ k - 1 = age[t]
    BY <2>1, <2>2, MetricsTrackerAssumption DEF Slots
  <2>4. held[t] = SlotOf(k - 1)
    BY <2>3 DEF MInv, HeldInv
  <2>5. held'[t] = (currentSlot' - k) % WindowSize
    BY <1>4, <2>3, <2>4 DEF SlotOf
  <2>6. QED
    BY <2>5 DEF k
<1>7. NodeInv'
  BY DEF MInv, NodeInv
<1>8. ASSUME ~late', NEW k \in Slots
      PROVE  slots'[SlotOf(k)'] = arrived'[k]
  <2>1. CASE k = 0
    BY <1>1, <1>4, <1>8, <2>1
  <2>2. CASE k # 0
    BY <1>1, <1>3, <1>4, <1>8, <2>2
  <2>3. QED
    BY <2>1, <2>2
<1>9. WindowExact'
  BY <1>8 DEF WindowExact, SlotOf
<1>10. QED
  BY <1>5, <1>6, <1>7, <1>9 DEF MInv

\* Under Java the slot was cleared before the rotator moves on to it.
LEMMA AdvanceMInv ==
  ASSUME MInv, Advance
  PROVE  MInv'
<1>1. /\ rotator = "cleared" /\ rotator' = "idle" /\ currentSlot' = NextSlot /\ Age
      /\ UNCHANGED <<runtime, slots, held, late>>
  BY DEF Advance
<1>2. /\ WindowTypes /\ SlotOf(WindowSize - 1) = NextSlot /\ WindowSize - 1 \in Slots
  BY EndSlots, SlotFacts DEF MInv, WindowTypes
<1>3. ~late => /\ slots'[NextSlot] = 0
               /\ \A k \in Slots : k # WindowSize - 1 => slots'[SlotOf(k)] = arrived[k]
  <2>1. ~late => \A k \in Slots :
          slots[SlotOf(k)] = IF k = WindowSize - 1 THEN 0 ELSE arrived[k]
    BY <1>1, WindowBySlot DEF MInv
  <2>2. QED
    BY <1>1, <1>2, <2>1
<1>4. slots' \in [Slots -> Nat]
  BY <1>1, <1>2 DEF WindowTypes
<1>5. QED
  BY <1>1, <1>3, <1>4, TurnMInv

\* Under Node the interval's callback does both.
LEMMA NodeRotateMInv ==
  ASSUME MInv, NodeRotate
  PROVE  MInv'
<1>1. /\ runtime = "node" /\ currentSlot' = NextSlot /\ Age
      /\ slots' = [slots EXCEPT ![NextSlot] = 0]
      /\ UNCHANGED <<runtime, rotator, held, late>>
  BY DEF NodeRotate, Cleared
<1>2. rotator = "idle" /\ rotator' = "idle"
  BY <1>1 DEF MInv, NodeInv
<1>3. /\ WindowTypes /\ NextSlot \in Slots
      /\ WindowSize - 1 \in Slots /\ SlotOf(WindowSize - 1) = NextSlot
      /\ \A k \in Slots : SlotOf(k) \in Slots
      /\ \A k, j \in Slots : SlotOf(k) = SlotOf(j) => k = j
  BY EndSlots, SlotFacts DEF MInv, WindowTypes
<1>4. slots' \in [Slots -> Nat] /\ slots'[NextSlot] = 0
  BY <1>1, <1>3 DEF WindowTypes
<1>5. \A k \in Slots : k # WindowSize - 1 => slots'[SlotOf(k)] = slots[SlotOf(k)]
  BY <1>1, <1>3 DEF WindowTypes
<1>6. ~late => \A k \in Slots : slots[SlotOf(k)] = arrived[k]
  BY <1>2, WindowBySlot DEF MInv
<1>7. ~late => /\ slots'[NextSlot] = 0
               /\ \A k \in Slots : k # WindowSize - 1 => slots'[SlotOf(k)] = arrived[k]
  BY <1>4, <1>5, <1>6
<1>8. QED
  BY <1>1, <1>2, <1>4, <1>7, TurnMInv

LEMMA NodeQueryMInv ==
  ASSUME MInv, NodeQuery
  PROVE  MInv'
<1>1. /\ slots' = [slots EXCEPT ![currentSlot] = @ + 1]
      /\ arrived' = [arrived EXCEPT ![0] = @ + 1]
      /\ late => late'
      /\ UNCHANGED <<runtime, currentSlot, rotator, held, age>>
      /\ late' \in BOOLEAN
      /\ runtime = "node"
  BY MetricsTrackerAssumption DEF NodeQuery, Arrive, pool, MInv, WindowTypes
<1>2. WindowTypes /\ WindowExact /\ rotator = "idle"
  BY <1>1 DEF MInv, NodeInv
<1>3. 0 \in Slots /\ SlotOf(0) = currentSlot
  BY <1>2, SlotFacts, MetricsTrackerAssumption DEF WindowTypes, Slots
<1>4. WindowExact'
  BY <1>1, <1>2, <1>3, ArriveExact
<1>5. WindowTypes'
  BY <1>1, <1>2, <1>3 DEF WindowTypes
<1>6. HeldInv' /\ NodeInv'
  BY <1>1 DEF MInv, HeldInv, NodeInv, SlotOf
<1>7. QED
  BY <1>4, <1>5, <1>6 DEF MInv

\* The other steps leave the window and the threads' slots alone.
LEMMA SameWindow ==
  ASSUME MInv,
         UNCHANGED <<runtime, slots, currentSlot, rotator, held, age, arrived, late>>
  PROVE  MInv'
BY DEF MInv, WindowTypes, HeldInv, NodeInv, SlotOf, WindowExact

LEMMA NextMInv ==
  ASSUME MInv, [Next]_vars
  PROVE  MInv'
<1>1. ASSUME NEW t \in Threads, ReadSlot(t) \/ IncrementSlot(t) \/ IncrementTotal(t)
      PROVE  MInv'
  BY <1>1, ReadSlotMInv, IncrementSlotMInv, SameWindow DEF IncrementTotal
<1>2. CASE Clear \/ Advance
  BY <1>2, ClearMInv, AdvanceMInv
<1>3. CASE NodeQuery \/ NodeRotate
  BY <1>3, NodeQueryMInv, NodeRotateMInv
<1>4. CASE Start \/ Stop \/ BeginScan \/ ReadNext \/ EndScan
  BY <1>4, SameWindow DEF Start, Stop, BeginScan, ReadNext, EndScan, tracker, pool
<1>5. CASE UNCHANGED vars
  BY <1>5, SameWindow DEF vars, tracker, pool
<1>6. QED
  BY <1>1, <1>2, <1>3, <1>4, <1>5 DEF Next

-----------------------------------------------------------------------------
(* The rate that is reported *)

\* The slots a getRps() at the slot k has read, and those it has still to read, with
\* what is in them.
HasRead(k) == 0..(k - 1)
Unread(k) == k..(WindowSize - 1)

Before(window, k) == SumFunctionOnSet(window, HasRead(k))
ToCome(window, k) == SumFunctionOnSet(window, Unread(k))

ScanRecords == [next : 0..WindowSize, sum : Nat, kept : [Slots -> Nat], most : Nat]

\* The scan s has read at least what no rotation has taken of the slots it has read,
\* and will find at least that in the others; and what it has read and has still to
\* read of the window is at most what was there with the requests it won since.
Between(s, window) ==
  /\ s \in ScanRecords
  /\ Before(s.kept, s.next) <= s.sum
  /\ \A i \in Unread(s.next) : s.kept[i] <= window[i]
  /\ s.sum + ToCome(window, s.next) <= s.most

ScanInv ==
  /\ runtime = "node" => scan = None
  /\ scan # None => Between(scan, slots)

LEMMA UnreadFacts ==
  ASSUME NEW k \in 0..WindowSize
  PROVE  /\ Unread(k) \subseteq Slots /\ IsFiniteSet(Unread(k))
         /\ k < WindowSize => k \in Unread(k) /\ Unread(k) \ {k} = Unread(k + 1)
         /\ Unread(0) = Slots
         /\ Unread(WindowSize) = {}
<1>1. k \in Int /\ WindowSize - 1 \in Int
  BY MetricsTrackerAssumption
<1>2. IsFiniteSet(Unread(k))
  BY <1>1, FS_Interval DEF Unread
<1>3. QED
  BY <1>2, MetricsTrackerAssumption DEF Unread, Slots

LEMMA HasReadFacts ==
  ASSUME NEW k \in 0..WindowSize
  PROVE  /\ HasRead(k) \subseteq Slots /\ IsFiniteSet(HasRead(k))
         /\ k \in HasRead(k + 1) /\ HasRead(k + 1) \ {k} = HasRead(k)
         /\ HasRead(0) = {}
         /\ HasRead(WindowSize) = Slots
<1>1. k \in Int /\ k - 1 \in Int
  BY MetricsTrackerAssumption
<1>2. IsFiniteSet(HasRead(k))
  BY <1>1, FS_Interval DEF HasRead
<1>3. QED
  BY <1>2, MetricsTrackerAssumption DEF HasRead, Slots

\* What is to come, slot by slot, ...
LEMMA ToComeFacts ==
  ASSUME NEW w \in [Slots -> Nat], NEW k \in 0..WindowSize
  PROVE  /\ ToCome(w, k) \in Nat
         /\ k < WindowSize => ToCome(w, k) = w[k] + ToCome(w, k + 1) /\ w[k] \in Nat
         /\ k = WindowSize => ToCome(w, k) = 0
<1>1. \A i \in Unread(k) : w[i] \in Nat
  BY UnreadFacts
<1>2. CASE k = WindowSize
  BY <1>2, UnreadFacts, SumOfNone DEF ToCome
<1>3. CASE k < WindowSize
  <2>1. k \in Unread(k) /\ IsFiniteSet(Unread(k)) /\ Unread(k) \ {k} = Unread(k + 1)
    BY <1>3, UnreadFacts
  <2>2. /\ ToCome(w, k) \in Nat
        /\ ToCome(w, k) = w[k] + ToCome(w, k + 1)
    BY <1>1, <2>1, SumSplit DEF ToCome
  <2>3. QED
    BY <1>1, <1>3, <2>1, <2>2
<1>4. QED
  BY <1>2, <1>3, MetricsTrackerAssumption

\* ... and what has been read.
LEMMA BeforeFacts ==
  ASSUME NEW w \in [Slots -> Nat], NEW k \in 0..WindowSize
  PROVE  /\ Before(w, k) \in Nat
         /\ k < WindowSize => Before(w, k + 1) = w[k] + Before(w, k) /\ w[k] \in Nat
         /\ k = 0 => Before(w, k) = 0
<1>1. ASSUME NEW n \in 0..WindowSize, n < WindowSize
      PROVE  /\ Before(w, n + 1) \in Nat /\ Before(w, n) \in Nat
             /\ Before(w, n + 1) = w[n] + Before(w, n) /\ w[n] \in Nat
  <2> DEFINE m == n + 1
  <2>1. m \in 0..WindowSize
    BY <1>1, MetricsTrackerAssumption
  <2>2. HasRead(m) \subseteq Slots /\ IsFiniteSet(HasRead(m))
    BY <2>1, HasReadFacts
  <2>3. n \in HasRead(m) /\ HasRead(m) \ {n} = HasRead(n)
    BY HasReadFacts
  <2>4. \A i \in HasRead(m) : w[i] \in Nat
    BY <2>2
  <2> HIDE DEF m
  <2>5. /\ Before(w, m) \in Nat /\ Before(w, n) \in Nat
        /\ Before(w, m) = w[n] + Before(w, n)
    BY <2>2, <2>3, <2>4, SumSplit DEF Before
  <2>6. QED
    BY <2>3, <2>4, <2>5 DEF m
<1>2. Before(w, 0) = 0
  BY HasReadFacts, SumOfNone DEF Before
<1>3. k # 0 => Before(w, k) \in Nat
  <2> SUFFICES ASSUME k # 0 PROVE Before(w, k) \in Nat
    OBVIOUS
  <2> DEFINE n == k - 1
  <2>1. n \in 0..WindowSize /\ n < WindowSize /\ n + 1 = k
    BY MetricsTrackerAssumption
  <2> HIDE DEF n
  <2>2. QED
    BY <1>1, <2>1
<1>4. QED
  BY <1>1, <1>2, <1>3

\* What one changed slot makes of the sum over some of them.
LEMMA SomeUpdated ==
  ASSUME NEW w \in [Slots -> Nat], NEW U \in SUBSET Slots, IsFiniteSet(U),
         NEW i \in Slots, NEW v \in Nat
  PROVE  LET e == [w EXCEPT ![i] = v] IN
         \/ SumFunctionOnSet(e, U) = SumFunctionOnSet(w, U)
         \/ SumFunctionOnSet(e, U) + w[i] = SumFunctionOnSet(w, U) + v
<1> DEFINE e == [w EXCEPT ![i] = v]
<1>1. /\ \A x \in U : w[x] \in Nat
      /\ \A x \in U : x # i => e[x] = w[x]
      /\ e[i] = v /\ e[i] \in Nat
  OBVIOUS
<1> HIDE DEF e
<1>2. CASE i \in U
  <2>1. SumFunctionOnSet(e, U) + w[i] = SumFunctionOnSet(w, U) + e[i]
    BY <1>1, <1>2, SumUpdated
  <2>2. QED
    BY <1>1, <2>1 DEF e
<1>3. CASE i \notin U
  <2>1. \A x \in U : w[x] \in Nat /\ w[x] = e[x]
    BY <1>1, <1>3
  <2>2. SumFunctionOnSet(w, U) = SumFunctionOnSet(e, U)
    BY <1>1, <2>1, SumAgrees
  <2>3. QED
    BY <2>2 DEF e
<1>4. QED
  BY <1>2, <1>3

LEMMA ToComeUpdated ==
  ASSUME NEW w \in [Slots -> Nat], NEW k \in 0..WindowSize, NEW i \in Slots, NEW v \in Nat
  PROVE  LET e == [w EXCEPT ![i] = v] IN
         \/ ToCome(e, k) = ToCome(w, k)
         \/ ToCome(e, k) + w[i] = ToCome(w, k) + v
<1>1. Unread(k) \in SUBSET Slots /\ IsFiniteSet(Unread(k))
  BY UnreadFacts
<1>2. QED
  BY <1>1, SomeUpdated DEF ToCome

LEMMA BeforeUpdated ==
  ASSUME NEW w \in [Slots -> Nat], NEW k \in 0..WindowSize, NEW i \in Slots, NEW v \in Nat
  PROVE  LET e == [w EXCEPT ![i] = v] IN
         \/ Before(e, k) = Before(w, k)
         \/ Before(e, k) + w[i] = Before(w, k) + v
<1>1. HasRead(k) \in SUBSET Slots /\ IsFiniteSet(HasRead(k))
  BY HasReadFacts
<1>2. QED
  BY <1>1, SomeUpdated DEF Before

LEMMA InitScanInv == Init => ScanInv
BY DEF Init, ScanInv

\* What there is to read is all there is.
LEMMA BeginBetween ==
  ASSUME NEW w \in [Slots -> Nat]
  PROVE  Between([next |-> 0, sum |-> 0, kept |-> w, most |-> SumFunction(w)], w)
<1> DEFINE c == ToCome(w, 0)
           s == [next |-> 0, sum |-> 0, kept |-> w, most |-> c]
<1>1. 0 \in 0..WindowSize
  BY MetricsTrackerAssumption
<1>2. SumFunction(w) = c
  BY <1>1, UnreadFacts DEF SumFunction, ToCome
<1>3. c \in Nat /\ Before(w, 0) = 0
  BY <1>1, ToComeFacts, BeforeFacts
<1>4. \A i \in Unread(0) : w[i] <= w[i]
  BY <1>1, UnreadFacts
<1>5. Between(s, w)
  <2> HIDE DEF c
  <2>1. s \in ScanRecords
    BY <1>1, <1>3 DEF ScanRecords
  <2>2. /\ Before(w, 0) <= s.sum /\ s.sum + c <= s.most
        /\ s.next = 0 /\ s.kept = w
    BY <1>3
  <2> HIDE DEF s
  <2>3. QED
    BY <1>4, <2>1, <2>2 DEF Between, c
<1>6. QED
  BY <1>2, <1>5

\* What is read moves from what is to come to the sum.
LEMMA ReadBetween ==
  ASSUME NEW w \in [Slots -> Nat], NEW s, Between(s, w), s.next < WindowSize
  PROVE  Between([s EXCEPT !.next = @ + 1, !.sum = @ + w[s.next]], w)
<1> DEFINE k == s.next
           r == [s EXCEPT !.next = @ + 1, !.sum = @ + w[s.next]]
<1>1. s \in ScanRecords
  BY DEF Between
<1>2. /\ k \in 0..WindowSize /\ k + 1 \in 0..WindowSize /\ k < WindowSize
      /\ s.sum \in Nat /\ s.kept \in [Slots -> Nat] /\ s.most \in Nat
  BY <1>1, MetricsTrackerAssumption DEF ScanRecords
<1>3. /\ ToCome(w, k) = w[k] + ToCome(w, k + 1)
      /\ w[k] \in Nat /\ ToCome(w, k + 1) \in Nat
  BY <1>2, ToComeFacts
<1>b. /\ Before(s.kept, k + 1) = s.kept[k] + Before(s.kept, k)
      /\ s.kept[k] \in Nat /\ Before(s.kept, k) \in Nat
  BY <1>2, BeforeFacts
<1>u. k \in Unread(k) /\ Unread(k) \ {k} = Unread(k + 1)
  BY <1>2, UnreadFacts
<1>4. /\ r.next = k + 1 /\ r.sum = s.sum + w[k]
      /\ r.kept = s.kept /\ r.most = s.most
      /\ r \in ScanRecords
  <2> DEFINE n == k + 1
             v == s.sum + w[k]
  <2>1. n \in 0..WindowSize /\ v \in Nat /\ r = [s EXCEPT !.next = n, !.sum = v]
    BY <1>2, <1>3
  <2> HIDE DEF n, v, r
  <2>2. /\ r.next = n /\ r.sum = v
        /\ r.kept = s.kept /\ r.most = s.most
        /\ r \in ScanRecords
    BY <1>1, <2>1 DEF ScanRecords
  <2>3. QED
    BY <2>2 DEF n, v
<1>5. /\ Before(s.kept, k) <= s.sum /\ s.kept[k] <= w[k]
      /\ \A i \in Unread(k + 1) : s.kept[i] <= w[i]
      /\ s.sum + ToCome(w, k) <= s.most
  BY <1>u DEF Between
<1> HIDE DEF r, k
<1>6. Before(r.kept, r.next) <= r.sum
  BY <1>2, <1>3, <1>b, <1>4, <1>5
<1>7. r.sum + ToCome(w, r.next) <= r.most
  BY <1>2, <1>3, <1>4, <1>5
<1>8. \A i \in Unread(r.next) : r.kept[i] <= w[i]
  BY <1>4, <1>5
<1>9. Between(r, w)
  BY <1>4, <1>6, <1>7, <1>8 DEF Between
<1>10. QED
  BY <1>9 DEF r

\* A request makes what is to come one more, or has come too late.
LEMMA ArriveBetween ==
  ASSUME NEW w \in [Slots -> Nat], NEW s, Between(s, w), NEW i \in Slots
  PROVE  Between([s EXCEPT !.most = @ + 1], [w EXCEPT ![i] = @ + 1])
<1> DEFINE e == [w EXCEPT ![i] = @ + 1]
           r == [s EXCEPT !.most = @ + 1]
           k == s.next
<1>1. s \in ScanRecords
  BY DEF Between
<1>2. /\ k \in 0..WindowSize /\ s.sum \in Nat /\ s.kept \in [Slots -> Nat] /\ s.most \in Nat
      /\ Unread(k) \subseteq Slots
  BY <1>1, UnreadFacts DEF ScanRecords
<1>3. w[i] \in Nat /\ w[i] + 1 \in Nat /\ e \in [Slots -> Nat]
  OBVIOUS
<1>4. ToCome(e, k) = ToCome(w, k) \/ ToCome(e, k) + w[i] = ToCome(w, k) + (w[i] + 1)
  <2> DEFINE v == w[i] + 1
  <2>1. v \in Nat /\ e = [w EXCEPT ![i] = v]
    BY <1>3
  <2> HIDE DEF v, e
  <2>2. ToCome(e, k) = ToCome(w, k) \/ ToCome(e, k) + w[i] = ToCome(w, k) + v
    BY <1>2, <2>1, ToComeUpdated
  <2>3. QED
    BY <2>2 DEF v
<1>5. ToCome(e, k) \in Nat /\ ToCome(w, k) \in Nat
  BY <1>2, <1>3, ToComeFacts
<1>6. /\ r.next = k /\ r.sum = s.sum
      /\ r.kept = s.kept /\ r.most = s.most + 1
      /\ r \in ScanRecords
  BY <1>1, <1>2 DEF ScanRecords
<1>7. /\ Before(s.kept, k) <= s.sum
      /\ \A x \in Unread(k) : s.kept[x] <= w[x]
      /\ s.sum + ToCome(w, k) <= s.most
  BY DEF Between
<1>8. \A x \in Slots : w[x] <= e[x] /\ w[x] \in Nat /\ e[x] \in Nat /\ s.kept[x] \in Nat
  BY <1>2
<1> HIDE DEF r, e, k
<1>9. r.sum + ToCome(e, r.next) <= r.most
  BY <1>2, <1>3, <1>4, <1>5, <1>6, <1>7
<1>10. \A x \in Unread(k) : s.kept[x] <= e[x]
  BY <1>2, <1>7, <1>8
<1>11. Between(r, e)
  BY <1>6, <1>7, <1>9, <1>10 DEF Between
<1>12. QED
  BY <1>11 DEF r, e

\* A rotation makes what is to come less, and what is kept.
LEMMA ClearBetween ==
  ASSUME NEW w \in [Slots -> Nat], NEW s, Between(s, w), NEW i \in Slots
  PROVE  Between([s EXCEPT !.kept[i] = 0], [w EXCEPT ![i] = 0])
<1> DEFINE e == [w EXCEPT ![i] = 0]
           h == [s.kept EXCEPT ![i] = 0]
           r == [s EXCEPT !.kept = h]
           k == s.next
<1>1. s \in ScanRecords
  BY DEF Between
<1>2. /\ k \in 0..WindowSize /\ s.sum \in Nat /\ s.kept \in [Slots -> Nat] /\ s.most \in Nat
      /\ Unread(k) \subseteq Slots
  BY <1>1, UnreadFacts DEF ScanRecords
<1>3. w[i] \in Nat /\ e \in [Slots -> Nat] /\ s.kept[i] \in Nat /\ h \in [Slots -> Nat]
  BY <1>2
<1>4. ToCome(e, k) = ToCome(w, k) \/ ToCome(e, k) + w[i] = ToCome(w, k) + 0
  BY <1>2, ToComeUpdated
<1>5. ToCome(e, k) \in Nat /\ ToCome(w, k) \in Nat
  BY <1>2, <1>3, ToComeFacts
<1>b. \/ Before(h, k) = Before(s.kept, k)
      \/ Before(h, k) + s.kept[i] = Before(s.kept, k) + 0
  BY <1>2, BeforeUpdated
<1>c. Before(h, k) \in Nat /\ Before(s.kept, k) \in Nat
  BY <1>2, <1>3, BeforeFacts
<1>6. /\ r.next = k /\ r.sum = s.sum /\ r.kept = h /\ r.most = s.most
      /\ r \in ScanRecords
  <2> HIDE DEF h
  <2>1. QED
    BY <1>1, <1>2, <1>3 DEF ScanRecords
<1>7. /\ Before(s.kept, k) <= s.sum
      /\ \A x \in Unread(k) : s.kept[x] <= w[x]
      /\ s.sum + ToCome(w, k) <= s.most
  BY DEF Between
<1>8. \A x \in Unread(k) : h[x] <= e[x]
  BY <1>2, <1>7
<1>9. r = [s EXCEPT !.kept[i] = 0]
  OBVIOUS
<1> HIDE DEF r, e, k, h
<1>10. Before(r.kept, r.next) <= r.sum
  BY <1>2, <1>3, <1>b, <1>c, <1>6, <1>7
<1>11. r.sum + ToCome(e, r.next) <= r.most
  BY <1>2, <1>3, <1>4, <1>5, <1>6, <1>7
<1>12. Between(r, e)
  BY <1>6, <1>8, <1>10, <1>11 DEF Between
<1>13. QED
  BY <1>9, <1>12 DEF e

LEMMA NextScanInv ==
  ASSUME WindowTypes, NodeInv, ScanInv, [Next]_vars
  PROVE  ScanInv'
<1>t. slots \in [Slots -> Nat] /\ NextSlot \in Slots
  BY SlotFacts DEF WindowTypes
<1>1. ASSUME NEW t \in Threads, IncrementSlot(t)
      PROVE  ScanInv'
  <2>1. /\ runtime' = runtime /\ held[t] # None
        /\ slots' = [slots EXCEPT ![held[t]] = @ + 1]
        /\ scan' = IF scan = None THEN None ELSE [scan EXCEPT !.most = @ + 1]
    BY <1>1 DEF IncrementSlot, Arrive
  <2>2. held[t] \in Slots
    BY <2>1 DEF WindowTypes
  <2>3. QED
    BY <1>t, <2>1, <2>2, ArriveBetween DEF ScanInv
<1>2. CASE Clear
  <2>1. /\ runtime' = runtime /\ slots' = [slots EXCEPT ![NextSlot] = 0]
        /\ scan' = IF scan = None THEN None ELSE [scan EXCEPT !.kept[NextSlot] = 0]
    BY <1>2 DEF Clear, Cleared
  <2>2. QED
    BY <1>t, <2>1, ClearBetween DEF ScanInv
<1>3. CASE BeginScan
  <2>1. /\ runtime = "java" /\ runtime' = runtime /\ slots' = slots
        /\ scan' = [next |-> 0, sum |-> 0, kept |-> slots, most |-> SumFunction(slots)]
    BY <1>3 DEF BeginScan, tracker
  <2>2. Between(scan', slots)
    BY <1>t, <2>1, BeginBetween
  <2>3. QED
    BY <2>1, <2>2 DEF ScanInv
<1>4. CASE ReadNext
  <2>1. /\ runtime' = runtime /\ slots' = slots /\ scan # None
        /\ scan.next < WindowSize
        /\ scan' = [scan EXCEPT !.next = @ + 1, !.sum = @ + slots[scan.next]]
    BY <1>4 DEF ReadNext, tracker, SlotRead
  <2>2. Between(scan', slots)
    BY <1>t, <2>1, ReadBetween DEF ScanInv
  <2>3. QED
    BY <2>1, <2>2 DEF ScanInv
<1>5. CASE EndScan
  BY <1>5 DEF EndScan, ScanInv
<1>6. CASE NodeQuery
  BY <1>6 DEF NodeQuery, Arrive, ScanInv
<1>7. CASE NodeRotate
  BY <1>7 DEF NodeRotate, ScanInv
<1>8. CASE UNCHANGED <<runtime, slots, scan>>
  BY <1>8 DEF ScanInv
<1>9. QED
  BY <1>1, <1>2, <1>3, <1>4, <1>5, <1>6, <1>7, <1>8
  DEF Next, Start, Stop, ReadSlot, IncrementTotal, Advance, vars, tracker

-----------------------------------------------------------------------------
(* The theorems *)

\* For any number of threads and any window: however the threads and the rotator
\* interleave, the slots are the requests of the last seconds, second by second,
\* unless a thread was suspended from one end of the window to the other.
THEOREM WindowIsExact == Spec => []WindowExact
<1>1. MInv => WindowExact
  BY DEF MInv
<1>2. QED
  BY <1>1, InitMInv, NextMInv, PTL DEF Spec

\* For any number of threads and any window: the rate that /metrics sums up slot by
\* slot, while threads add to the slots and the rotator clears them, holds every
\* request that was in the window from the first slot read to the last, and no other
\* but those that were in it at some moment meanwhile, each of them once.
THEOREM RateIsSound == Spec => []ReportSound
<1>1. ScanInv => ReportSound
  <2> SUFFICES ASSUME ScanInv, scan # None, scan.next = WindowSize
               PROVE  scan.sum \in SumFunction(scan.kept)..scan.most
    BY DEF ReportSound
  <2>1. /\ scan \in ScanRecords
        /\ Before(scan.kept, WindowSize) <= scan.sum
        /\ scan.sum + ToCome(slots, WindowSize) <= scan.most
    BY DEF ScanInv, Between
  <2>2. WindowSize \in 0..WindowSize
    BY MetricsTrackerAssumption
  <2>3. ToCome(slots, WindowSize) = 0
    BY <2>2, UnreadFacts, SumOfNone DEF ToCome
  <2>4. SumFunction(scan.kept) = Before(scan.kept, WindowSize)
    BY <2>1, <2>2, HasReadFacts DEF SumFunction, Before, ScanRecords
  <2>5. scan.kept \in [Slots -> Nat] /\ scan.sum \in Nat /\ scan.most \in Nat
    BY <2>1 DEF ScanRecords
  <2>6. Before(scan.kept, WindowSize) \in Nat
    BY <2>2, <2>5, BeforeFacts
  <2>7. QED
    BY <2>1, <2>3, <2>4, <2>5, <2>6
<1>2. MInv => WindowTypes /\ NodeInv
  BY DEF MInv
<1>3. MInv /\ ScanInv /\ [Next]_vars => ScanInv'
  BY <1>2, NextScanInv
<1>4. QED
  BY <1>1, <1>3, InitMInv, NextMInv, InitScanInv, PTL DEF Spec
=============================================================================
