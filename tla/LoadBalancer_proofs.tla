------------------------ MODULE LoadBalancer_proofs -------------------------
(***************************************************************************)
(* Proofs about the drain manager, for any servers, keys, durations and    *)
(* timers: its type invariant, the safety net, that a drained server is    *)
(* held for the time its last DRAIN asked for, and that the manager        *)
(* implements the lease of DrainLease.  Then about the load balancer the   *)
(* manager and the router make up: where requests go, and when they are    *)
(* refused.  Last about its process: one answer for each request, nothing  *)
(* obeyed or left open once it is told to stop, and commands that survive  *)
(* any cut of the stream that carries them.                                *)
(***************************************************************************)
EXTENDS LoadBalancer, LbProcess, DataInduction, TLAPS

\* The entries of the Map and the armed timers describe each other.
IInv ==
  /\ TypeOK
  /\ NoOrphanTimer
  /\ SafetyNet
  /\ InRotationIsIdle

LEMMA KeyInKeys == \A s \in Servers : KeyOf[s] \in Keys
BY DEF Keys

\* clearing the entry's timer disarms that timer and no other.
LEMMA ClearExistingFact ==
  ASSUME IInv, NEW k \in Keys
  PROVE  /\ ClearExisting(k) \in [TimerIds -> Servers \union {NoServer}]
         /\ \A t \in TimerIds : ClearExisting(k)[t] =
              IF t = timer[k] THEN NoServer ELSE callback[t]
BY DrainManagerAssumption DEF IInv, TypeOK, ClearExisting, ClearTimeout

\* After the entry of k is cleared no armed timer is left that acts on k.
LEMMA ClearedKey ==
  ASSUME IInv, NEW k \in Keys, NEW t \in TimerIds, ClearExisting(k)[t] # NoServer
  PROVE  /\ Armed(t)
         /\ ClearExisting(k)[t] = callback[t]
         /\ KeyOf[callback[t]] # k
BY ClearExistingFact DEF IInv, NoOrphanTimer, Armed

LEMMA InitIInv == Init => IInv
BY DrainManagerAssumption DEF Init, IInv, TypeOK, NoOrphanTimer, SafetyNet, InRotationIsIdle, Armed

\* drain(): the new timer is the only one of its key.
LEMMA DrainIInv ==
  ASSUME IInv, NEW s \in Servers, NEW d \in Durations, Drain(s, d)
  PROVE  IInv'
<1> DEFINE k == KeyOf[s]
<1>k. k \in Keys
  BY KeyInKeys
<1>1. PICK t \in TimerIds :
        /\ ~Armed(t)
        /\ \A j \in Keys : timer[j] # t
        /\ callback' = [ClearExisting(k) EXCEPT ![t] = s]
        /\ left' = [left EXCEPT ![t] = TimeoutDelay(d)]
        /\ drained' = [drained EXCEPT ![k] = TRUE]
        /\ timer' = [timer EXCEPT ![k] = t]
        /\ enabled' = enabled
  BY DEF Drain
<1>s. s # NoServer /\ t # NoTimer
  BY DrainManagerAssumption
<1>2. TimeoutDelay(d) \in Nat
  BY DrainManagerAssumption DEF TimeoutDelay
<1> HIDE DEF k
<1>3. TypeOK'
  BY <1>k, <1>1, <1>2, ClearExistingFact DEF IInv, TypeOK
<1>c. \A u \in TimerIds : callback'[u] =
        IF u = t THEN s ELSE IF u = timer[k] THEN NoServer ELSE callback[u]
  BY <1>k, <1>1, ClearExistingFact
<1>t. \A j \in Keys : /\ timer'[j] = IF j = k THEN t ELSE timer[j]
                      /\ drained'[j] = IF j = k THEN TRUE ELSE drained[j]
  BY <1>k, <1>1 DEF IInv, TypeOK
<1>ks. KeyOf[s] = k
  BY DEF k
<1>4. NoOrphanTimer'
  <2> SUFFICES ASSUME NEW u \in TimerIds, callback'[u] # NoServer
               PROVE  timer'[KeyOf[callback'[u]]] = u
    BY DEF NoOrphanTimer, Armed
  <2>1. CASE u = t
    BY <2>1, <1>c, <1>t, <1>ks, <1>k
  <2>2. CASE u # t
    <3>1. u # timer[k] /\ callback'[u] = callback[u] /\ callback[u] # NoServer
      BY <2>2, <1>c
    <3>2. callback[u] \in Servers /\ KeyOf[callback[u]] \in Keys /\ timer[KeyOf[callback[u]]] = u
      BY <3>1, KeyInKeys DEF IInv, TypeOK, NoOrphanTimer, Armed
    <3>3. KeyOf[callback[u]] # k
      BY <3>1, <3>2
    <3>4. QED
      BY <3>1, <3>2, <3>3, <1>t
  <2>3. QED
    BY <2>1, <2>2
<1>5. SafetyNet'
  <2> SUFFICES ASSUME NEW j \in Keys, drained'[j]
               PROVE  /\ timer'[j] # NoTimer
                      /\ callback'[timer'[j]] # NoServer
                      /\ KeyOf[callback'[timer'[j]]] = j
    BY DEF SafetyNet, Armed
  <2>1. CASE j = k
    BY <2>1, <1>t, <1>c, <1>s, <1>ks
  <2>2. CASE j # k
    <3>1. timer'[j] = timer[j] /\ drained[j]
      BY <2>2, <1>t
    <3>2. /\ timer[j] \in TimerIds /\ timer[j] # NoTimer
          /\ callback[timer[j]] # NoServer /\ KeyOf[callback[timer[j]]] = j
      BY <3>1 DEF IInv, SafetyNet, Armed, TypeOK
    <3>3. timer[j] # t
      BY <1>1
    <3>4. timer[j] # timer[k]
      <4>1. CASE timer[k] = NoTimer
        BY <4>1, <3>2
      <4>2. CASE timer[k] # NoTimer
        <5>1. drained[k]
          BY <4>2, <1>k DEF IInv, InRotationIsIdle
        <5>2. QED
          BY <5>1, <1>k, <2>2, <3>2 DEF IInv, SafetyNet
      <4>3. QED
        BY <4>1, <4>2
    <3>5. QED
      BY <3>1, <3>2, <3>3, <3>4, <1>c
  <2>3. QED
    BY <2>1, <2>2
<1>6. InRotationIsIdle'
  BY <1>t DEF IInv, InRotationIsIdle
<1>7. QED
  BY <1>3, <1>4, <1>5, <1>6 DEF IInv

\* What resume() does to the entry of k, whoever calls it.
LEMMA ReleaseIInv ==
  ASSUME IInv, NEW k \in Keys, Release(k),
         callback' \in [TimerIds -> Servers \union {NoServer}],
         \A u \in TimerIds : callback'[u] = IF u = timer[k] THEN NoServer ELSE callback[u],
         UNCHANGED <<left, enabled>>
  PROVE  IInv'
<1>t. \A j \in Keys : /\ timer'[j] = IF j = k THEN NoTimer ELSE timer[j]
                      /\ drained'[j] = IF j = k THEN FALSE ELSE drained[j]
  BY DEF IInv, TypeOK, Release
<1>1. TypeOK'
  BY DrainManagerAssumption DEF IInv, TypeOK, Release
<1>2. NoOrphanTimer'
  <2> SUFFICES ASSUME NEW u \in TimerIds, callback'[u] # NoServer
               PROVE  timer'[KeyOf[callback'[u]]] = u
    BY DEF NoOrphanTimer, Armed
  <2>1. u # timer[k] /\ callback'[u] = callback[u] /\ callback[u] # NoServer
    OBVIOUS
  <2>2. KeyOf[callback[u]] \in Keys /\ timer[KeyOf[callback[u]]] = u
    BY <2>1, KeyInKeys DEF IInv, TypeOK, NoOrphanTimer, Armed
  <2>3. QED
    BY <2>1, <2>2, <1>t
<1>3. SafetyNet'
  <2> SUFFICES ASSUME NEW j \in Keys, drained'[j]
               PROVE  /\ timer'[j] # NoTimer
                      /\ callback'[timer'[j]] # NoServer
                      /\ KeyOf[callback'[timer'[j]]] = j
    BY DEF SafetyNet, Armed
  <2>1. j # k /\ timer'[j] = timer[j] /\ drained[j]
    BY <1>t
  <2>2. /\ timer[j] \in TimerIds /\ timer[j] # NoTimer
        /\ callback[timer[j]] # NoServer /\ KeyOf[callback[timer[j]]] = j
    BY <2>1 DEF IInv, SafetyNet, Armed, TypeOK
  <2>3. timer[j] # timer[k]
    <3>1. CASE timer[k] = NoTimer
      BY <3>1, <2>2
    <3>2. CASE timer[k] # NoTimer
      <4>1. drained[k]
        BY <3>2 DEF IInv, InRotationIsIdle
      <4>2. QED
        BY <4>1, <2>1, <2>2 DEF IInv, SafetyNet
    <3>3. QED
      BY <3>1, <3>2
  <2>4. QED
    BY <2>1, <2>2, <2>3
<1>4. InRotationIsIdle'
  BY <1>t DEF IInv, InRotationIsIdle
<1>5. QED
  BY <1>1, <1>2, <1>3, <1>4 DEF IInv

\* A timer that fires is the timer of the server it resumes.
LEMMA FiringTimer ==
  ASSUME IInv, NEW t \in TimerIds, Armed(t)
  PROVE  KeyOf[callback[t]] \in Keys /\ timer[KeyOf[callback[t]]] = t
BY KeyInKeys DEF IInv, TypeOK, NoOrphanTimer, Armed

LEMMA ResumeIInv ==
  ASSUME IInv, NEW s \in Servers, Resume(s)
  PROVE  IInv'
<1>1. KeyOf[s] \in Keys
  BY KeyInKeys
<1>2. callback' = ClearExisting(KeyOf[s]) /\ Release(KeyOf[s]) /\ UNCHANGED <<left, enabled>>
  BY DEF Resume
<1>3. QED
  BY <1>1, <1>2, ClearExistingFact, ReleaseIInv

LEMMA FireIInv ==
  ASSUME IInv, NEW t \in TimerIds, Fire(t)
  PROVE  IInv'
<1> DEFINE k == KeyOf[callback[t]]
<1>1. k \in Keys /\ timer[k] = t
  BY FiringTimer DEF Fire
<1>2. /\ callback' = [ClearExisting(k) EXCEPT ![t] = NoServer]
      /\ Release(k) /\ UNCHANGED <<left, enabled>>
  BY DEF Fire
<1> HIDE DEF k
<1>3. /\ callback' \in [TimerIds -> Servers \union {NoServer}]
      /\ \A u \in TimerIds : callback'[u] = IF u = timer[k] THEN NoServer ELSE callback[u]
  BY <1>1, <1>2, ClearExistingFact
<1>4. QED
  BY <1>1, <1>2, <1>3, ReleaseIInv

\* shutdown() clears the timer of every entry, and by NoOrphanTimer that is
\* every armed timer.
LEMMA ShutdownIInv ==
  ASSUME IInv, Shutdown
  PROVE  IInv'
<1>1. TypeOK'
  BY DrainManagerAssumption DEF IInv, TypeOK, Shutdown
<1>2. \A t \in TimerIds : callback'[t] = NoServer
  <2> SUFFICES ASSUME NEW t \in TimerIds, Armed(t)
               PROVE  \E k \in Keys : timer[k] = t
    BY DEF Shutdown, Armed
  <2>1. QED
    BY FiringTimer
<1>3. QED
  BY <1>1, <1>2 DEF Shutdown, IInv, NoOrphanTimer, SafetyNet, InRotationIsIdle, Armed

LEMMA TickIInv ==
  ASSUME IInv, Tick
  PROVE  IInv'
<1>1. TypeOK'
  BY DEF IInv, TypeOK, Tick
<1>2. QED
  BY <1>1 DEF Tick, IInv, NoOrphanTimer, SafetyNet, InRotationIsIdle, Armed

LEMMA SetEnabledIInv ==
  ASSUME IInv, NEW value \in BOOLEAN, SetEnabled(value)
  PROVE  IInv'
BY DEF SetEnabled, IInv, TypeOK, NoOrphanTimer, SafetyNet, InRotationIsIdle, Armed

LEMMA StutterIInv ==
  ASSUME IInv, UNCHANGED vars
  PROVE  IInv'
BY DEF vars, IInv, TypeOK, NoOrphanTimer, SafetyNet, InRotationIsIdle, Armed

LEMMA NextIInv ==
  ASSUME IInv, [Next]_vars
  PROVE  IInv'
<1>1. CASE \E s \in Servers, d \in Durations : Drain(s, d)
  BY <1>1, DrainIInv
<1>2. CASE \E s \in Servers : Resume(s)
  BY <1>2, ResumeIInv
<1>3. CASE \E t \in TimerIds : Fire(t)
  BY <1>3, FireIInv
<1>4. CASE \E value \in BOOLEAN : SetEnabled(value)
  BY <1>4, SetEnabledIInv
<1>5. CASE Shutdown
  BY <1>5, ShutdownIInv
<1>6. CASE Tick
  BY <1>6, TickIInv
<1>7. CASE UNCHANGED vars
  BY <1>7, StutterIInv
<1>8. QED
  BY <1>1, <1>2, <1>3, <1>4, <1>5, <1>6, <1>7 DEF Next

\* For any pool and any durations, no timer of drain_manager.ts is ever
\* orphaned and every drained server has its own auto-resume timer armed.
THEOREM DrainManagerSafe == Spec => [](TypeOK /\ NoOrphanTimer /\ SafetyNet)
<1>1. IInv => TypeOK /\ NoOrphanTimer /\ SafetyNet
  BY DEF IInv
<1>2. QED
  BY <1>1, InitIInv, NextIInv, PTL DEF Spec

-----------------------------------------------------------------------------
(* The history: what the last DRAIN of a key still asks for is exactly what *)
(* is left on that key's timer.                                            *)

OwedIsLeft ==
  \A k \in Keys : owed[k] = IF timer[k] = NoTimer THEN 0 ELSE left[timer[k]]

HInv == IInv /\ owed \in [Keys -> Nat] /\ OwedIsLeft

LEMMA InitHInv == HInit => HInv
BY InitIInv DEF HInit, Init, HInv, OwedIsLeft

\* Two drained keys never share a timer.
LEMMA DistinctTimers ==
  ASSUME IInv, NEW j \in Keys, NEW k \in Keys, timer[j] = timer[k], timer[j] # NoTimer
  PROVE  j = k
BY DEF IInv, InRotationIsIdle, SafetyNet

LEMMA HDrainHInv ==
  ASSUME DurationsFit, HInv, NEW s \in Servers, NEW d \in Durations, HDrain(s, d)
  PROVE  HInv'
<1>1. IInv'
  BY DrainIInv DEF HInv, HDrain
<1>2. d \in Nat /\ TimeoutDelay(d) = d
  BY DrainManagerAssumption DEF DurationsFit, TimeoutDelay
<1>3. KeyOf[s] \in Keys
  BY KeyInKeys
<1>4. PICK t \in TimerIds :
        /\ \A j \in Keys : timer[j] # t
        /\ left' = [left EXCEPT ![t] = d]
        /\ timer' = [timer EXCEPT ![KeyOf[s]] = t]
  BY <1>2 DEF HDrain, Drain
<1>5. OwedIsLeft'
  <2> SUFFICES ASSUME NEW j \in Keys
               PROVE  owed'[j] = IF timer'[j] = NoTimer THEN 0 ELSE left'[timer'[j]]
    BY DEF OwedIsLeft
  <2>1. CASE j = KeyOf[s]
    BY <2>1, <1>2, <1>3, <1>4, DrainManagerAssumption DEF HDrain, HInv, IInv, TypeOK
  <2>2. CASE j # KeyOf[s]
    <3>1. owed'[j] = owed[j] /\ timer'[j] = timer[j] /\ timer[j] # t
      BY <2>2, <1>4 DEF HDrain, HInv, IInv, TypeOK
    <3>2. timer[j] # NoTimer => left'[timer[j]] = left[timer[j]]
      BY <3>1, <1>4 DEF HInv, IInv, TypeOK
    <3>3. QED
      BY <3>1, <3>2 DEF HInv, OwedIsLeft
  <2>3. QED
    BY <2>1, <2>2
<1>6. QED
  BY <1>1, <1>2, <1>3, <1>5 DEF HInv, HDrain

\* Putting one key back in rotation with nothing owed to it keeps the others.
LEMMA ReleaseOwed ==
  ASSUME HInv, NEW k \in Keys, Release(k), UNCHANGED left,
         owed' = [owed EXCEPT ![k] = 0]
  PROVE  OwedIsLeft' /\ owed' \in [Keys -> Nat]
BY DEF HInv, OwedIsLeft, Release, IInv, TypeOK

LEMMA HResumeHInv ==
  ASSUME HInv, NEW s \in Servers, HResume(s)
  PROVE  HInv'
<1>1. IInv' /\ KeyOf[s] \in Keys
  BY ResumeIInv, KeyInKeys DEF HInv, HResume
<1>2. QED
  BY <1>1, ReleaseOwed DEF HInv, HResume, Resume

\* A timer that fires owes its key nothing.
LEMMA FiringOwesNothing ==
  ASSUME HInv, NEW t \in TimerIds, Fire(t)
  PROVE  /\ KeyOf[callback[t]] \in Keys
         /\ owed[KeyOf[callback[t]]] = 0
         /\ drained[KeyOf[callback[t]]]
<1>1. KeyOf[callback[t]] \in Keys /\ timer[KeyOf[callback[t]]] = t
  BY FiringTimer DEF HInv, Fire
<1>2. t # NoTimer /\ left[t] = 0
  BY DrainManagerAssumption DEF Fire
<1>3. QED
  BY <1>1, <1>2 DEF HInv, OwedIsLeft, IInv, InRotationIsIdle

LEMMA HFireHInv ==
  ASSUME HInv, NEW t \in TimerIds, HFire(t)
  PROVE  HInv'
<1> DEFINE k == KeyOf[callback[t]]
<1>1. k \in Keys /\ owed[k] = 0
  BY FiringOwesNothing DEF HFire
<1>2. Release(k) /\ UNCHANGED <<left, owed>>
  BY DEF HFire, Fire
<1>3. IInv'
  BY FireIInv DEF HInv, HFire
<1> HIDE DEF k
<1>4. owed' = [owed EXCEPT ![k] = 0]
  BY <1>1, <1>2 DEF HInv
<1>5. QED
  BY <1>1, <1>2, <1>3, <1>4, ReleaseOwed DEF HInv

LEMMA HTickHInv ==
  ASSUME HInv, HTick
  PROVE  HInv'
<1>1. IInv'
  BY TickIInv DEF HInv, HTick
<1>2. owed' \in [Keys -> Nat]
  BY DEF HInv, HTick
<1>3. OwedIsLeft'
  BY DEF HInv, HTick, Tick, OwedIsLeft, IInv, TypeOK
<1>4. QED
  BY <1>1, <1>2, <1>3 DEF HInv

LEMMA HNextHInv ==
  ASSUME DurationsFit, HInv, [HNext]_hvars
  PROVE  HInv'
<1>1. CASE \E s \in Servers, d \in Durations : HDrain(s, d)
  BY <1>1, HDrainHInv
<1>2. CASE \E s \in Servers : HResume(s)
  BY <1>2, HResumeHInv
<1>3. CASE \E t \in TimerIds : HFire(t)
  BY <1>3, HFireHInv
<1>4. CASE \E value \in BOOLEAN : HSetEnabled(value)
  BY <1>4, SetEnabledIInv DEF HSetEnabled, SetEnabled, HInv, OwedIsLeft
<1>5. CASE HShutdown
  BY <1>5, ShutdownIInv DEF HShutdown, Shutdown, HInv, OwedIsLeft
<1>6. CASE HTick
  BY <1>6, HTickHInv
<1>7. CASE UNCHANGED hvars
  BY <1>7, StutterIInv DEF hvars, vars, HInv, OwedIsLeft
<1>8. QED
  BY <1>1, <1>2, <1>3, <1>4, <1>5, <1>6, <1>7 DEF HNext

\* Every step of the manager, with its history, is a step of the manager.
LEMMA HNextNext == [HNext]_hvars => [Next]_vars
BY DEF HNext, Next, HDrain, HResume, HFire, HSetEnabled, HShutdown, HTick, hvars, vars

\* For any pool and any durations, those setTimeout cuts short included: the
\* manager and its history keep their types.
THEOREM HistoryTypes == HSpec => []HTypeOK
<1>1. HInit => IInv /\ HTypeOK
  BY InitIInv DEF HInit, HTypeOK, IInv
<1>2. ASSUME IInv, HTypeOK, [HNext]_hvars
      PROVE  IInv' /\ HTypeOK'
  <2>1. IInv'
    BY <1>2, HNextNext, NextIInv
  <2>2. owed' \in [Keys -> Nat]
    BY <1>2, DrainManagerAssumption
       DEF HTypeOK, HNext, HDrain, HResume, HFire, HSetEnabled, HShutdown, HTick, hvars
  <2>3. QED
    BY <2>1, <2>2 DEF HTypeOK, IInv
<1>3. QED
  BY <1>1, <1>2, PTL DEF HSpec

\* The safety net holds of the manager with its history, for any durations.
THEOREM DrainedHasTimer == HSpec => []SafetyNet
<1>1. HInit => IInv
  BY InitIInv DEF HInit
<1>2. IInv => SafetyNet
  BY DEF IInv
<1>3. QED
  BY <1>1, <1>2, HNextNext, NextIInv, PTL DEF HSpec

\* Only a drained key has a timer, and only a timer with time left owes any.
LEMMA HInvHeld == HInv => HTypeOK /\ HeldForDuration
BY DEF HInv, HTypeOK, HeldForDuration, OwedIsLeft, IInv, InRotationIsIdle

\* With durations that setTimeout can hold, a server stays drained for the time
\* its last DRAIN asked for unless a RESUME (or the shutdown) ends it.
THEOREM DrainHeldForDuration ==
  ASSUME DurationsFit
  PROVE  HSpec => [](HTypeOK /\ HeldForDuration)
BY InitHInv, HNextHInv, HInvHeld, PTL DEF HSpec

-----------------------------------------------------------------------------
(* drain_manager.ts implements the lease *)

LEMMA InitLease == HInit => Lease!Init
BY DEF HInit, Init, Lease!Init

LEMMA NextLease ==
  ASSUME HInv, [HNext]_hvars
  PROVE  [Lease!Next]_(Lease!vars)
<1>1. ASSUME NEW s \in Servers, NEW d \in Durations, HDrain(s, d)
      PROVE  Lease!Drain(KeyOf[s], d) /\ KeyOf[s] \in Keys
  BY <1>1, KeyInKeys DEF HDrain, Drain, Lease!Drain, HInv, IInv, TypeOK
<1>2. ASSUME NEW s \in Servers, HResume(s)
      PROVE  Lease!Resume(KeyOf[s]) /\ KeyOf[s] \in Keys
  BY <1>2, KeyInKeys DEF HResume, Resume, Release, Lease!Resume, HInv, IInv, TypeOK
<1>3. ASSUME NEW t \in TimerIds, HFire(t)
      PROVE  \E k \in Keys : Lease!Expire(k)
  <2>1. PICK k \in Keys : k = KeyOf[callback[t]]
    BY <1>3, FiringOwesNothing DEF HFire
  <2>2. drained[k] /\ owed[k] = 0
    BY <1>3, <2>1, FiringOwesNothing DEF HFire
  <2>3. drained' = [drained EXCEPT ![k] = FALSE] /\ owed' = owed
    BY <1>3, <2>1 DEF HFire, Fire, Release
  <2>4. Lease!Expire(k)
    BY <2>2, <2>3 DEF Lease!Expire, HInv, IInv, TypeOK
  <2>5. QED
    BY <2>4
<1>4. ASSUME NEW value \in BOOLEAN, HSetEnabled(value)
      PROVE  UNCHANGED Lease!vars
  BY <1>4 DEF HSetEnabled, SetEnabled, Lease!vars
<1>5. ASSUME HShutdown
      PROVE  Lease!ResumeAll
  BY <1>5 DEF HShutdown, Shutdown, Lease!ResumeAll
<1>6. ASSUME HTick
      PROVE  Lease!Tick
  BY <1>6 DEF HTick, Tick, Lease!Tick
<1>7. CASE UNCHANGED hvars
  BY <1>7 DEF hvars, Lease!vars
<1>8. CASE \E s \in Servers, d \in Durations : HDrain(s, d)
  BY <1>8, <1>1 DEF Lease!Next
<1>9. CASE \E s \in Servers : HResume(s)
  BY <1>9, <1>2 DEF Lease!Next
<1>10. CASE \E t \in TimerIds : HFire(t)
  BY <1>10, <1>3 DEF Lease!Next
<1>11. CASE HShutdown \/ HTick
  BY <1>11, <1>5, <1>6 DEF Lease!Next
<1>12. CASE \E value \in BOOLEAN : HSetEnabled(value)
  BY <1>12, <1>4
<1>13. QED
  BY <1>7, <1>8, <1>9, <1>10, <1>11, <1>12 DEF HNext

\* drain_manager.ts, its timers and its Map, implements the lease of DrainLease
\* for every pool and every duration that setTimeout can hold.
THEOREM DrainManagerImplementsLease ==
  ASSUME DurationsFit
  PROVE  HSpec => ImplementsLease
BY InitHInv, HNextHInv, InitLease, NextLease, PTL DEF HSpec, ImplementsLease, Lease!Spec

-----------------------------------------------------------------------------
(* The load balancer: what a request does depends on the manager only       *)
(* through isDrained(), and changes nothing of it.                          *)

\* The turn of the router, as RouterTurns_proofs has it.
Turns == INSTANCE RouterTurns_proofs WITH
  drained <- OutOfRotation,
  passed  <- [p \in Servers |-> {}]

\* The configuration is one the router accepts.
LEMMA RoutingAssumption == Turns!RouterAssumption
BY DrainManagerAssumption, LoadBalancerAssumption
   DEF Turns!RouterAssumption, Turns!Positions

\* The two instances of the router are one: what Turns says is said of Routing.
LEMMA RoutingIsTurns ==
  /\ Routing!Positions = Turns!Positions /\ Routing!Positions = Servers
  /\ \A type : Routing!OfType(type) = Turns!OfType(type)
  /\ \A S : Routing!Cardinality(S) = Turns!Cardinality(S)
  /\ Routing!Eligible = Turns!Eligible
  /\ Routing!Size = Turns!Size
  /\ \A i : Routing!Turn(i) = Turns!Turn(i) /\ Routing!Wrap(i) = Turns!Wrap(i)
<1>1. Routing!Positions = Turns!Positions /\ Routing!Positions = Servers
  BY LoadBalancerAssumption DEF Routing!Positions, Turns!Positions
<1>2. \A S : Routing!Cardinality(S) = Turns!Cardinality(S)
  BY DEF Routing!Cardinality, Turns!Cardinality
<1>3. \A S, p : Routing!Rank(S, p) = Turns!Rank(S, p)
  BY <1>2 DEF Routing!Rank, Turns!Rank
<1>4. \A type : Routing!OfType(type) = Turns!OfType(type)
  BY <1>1 DEF Routing!OfType, Turns!OfType
<1>5. Routing!Eligible = Turns!Eligible
  BY <1>1, <1>3, <1>4 DEF Routing!Eligible, Turns!Eligible, Routing!EligibleFor, Turns!EligibleFor
<1>6. Routing!Size = Turns!Size
  BY <1>2, <1>5 DEF Routing!Size, Turns!Size
<1>7. \A i : Routing!At(i) = Turns!At(i)
  BY <1>3, <1>5 DEF Routing!At, Turns!At
<1>8. \A i : Routing!Wrap(i) = Turns!Wrap(i)
  BY <1>6 DEF Routing!Wrap, Turns!Wrap
<1>9. \A i : Routing!Turn(i) = Turns!Turn(i)
  BY <1>7, <1>8 DEF Routing!Turn, Turns!Turn
<1>10. QED
  BY <1>1, <1>2, <1>4, <1>5, <1>6, <1>8, <1>9

LEMMA RoutingSteps ==
  /\ Routing!Choose => Turns!Choose
  /\ Routing!ChooseNone => Turns!ChooseNone
BY RoutingIsTurns DEF Routing!Choose, Turns!Choose, Routing!ChooseNone, Turns!ChooseNone

\* What a request finds: the manager's entries and timers describe each other, and
\* the router's index is one of its list.
LBInv ==
  /\ IInv
  /\ Turns!TTypeOK
  /\ Turns!IndexInv

LEMMA InitLBInv == LBInit => LBInv
<1> SUFFICES ASSUME LBInit PROVE LBInv
  OBVIOUS
<1>1. IInv
  BY InitIInv DEF LBInit, HInit
<1>2. Turns!TInit
  BY RoutingIsTurns DEF LBInit, Routing!Init, Turns!TInit, Turns!Init
<1>3. QED
  BY <1>1, <1>2, RoutingAssumption, Turns!InitTInv DEF LBInv, Turns!TInv

\* Nothing in the manager reaches the router but the answers of isDrained().
LEMMA SameRouting ==
  ASSUME Turns!TTypeOK, Turns!IndexInv, UNCHANGED routing
  PROVE  Turns!TTypeOK' /\ Turns!IndexInv'
<1>1. UNCHANGED <<activeType, activeCount, currentIndex, target>>
  BY DEF routing
<1>2. Turns!Eligible' = Turns!Eligible
  BY <1>1 DEF Turns!Eligible
<1>3. Turns!IndexInv'
  BY <1>1, <1>2 DEF Turns!IndexInv, Turns!Size
<1>4. Turns!TTypeOK'
  BY <1>1, RoutingIsTurns DEF Turns!TTypeOK, Turns!TypeOK, OutOfRotation
<1>5. QED
  BY <1>3, <1>4

LEMMA RouteLBInv ==
  ASSUME LBInv, Route
  PROVE  LBInv'
<1>1. IInv'
  BY StutterIInv DEF LBInv, Route, hvars, vars
<1>2. UNCHANGED <<activeType, activeCount>>
  BY DEF Route, Routing!Choose, Routing!ChooseNone
<1>3. CASE Routing!Choose
  <2>1. Turns!TTypeOK /\ Turns!IndexInv /\ Turns!Choose
    BY <1>3, RoutingSteps DEF LBInv
  <2>2. /\ target' \in Turns!Available
        /\ Turns!Size' = Turns!Size
        /\ currentIndex' \in 0..(Turns!Size - 1)
    BY <2>1, RoutingAssumption, Turns!ChooseFacts
  <2>3. Turns!Size \in Nat /\ Turns!Eligible \in SUBSET Turns!Positions
    BY RoutingAssumption, Turns!EligibleFacts
  <2>4. Turns!IndexInv' /\ currentIndex' \in Nat
    BY <2>2, <2>3 DEF Turns!IndexInv
  <2>5. Turns!TTypeOK'
    BY <1>2, <2>1, <2>2, <2>3, <2>4, RoutingIsTurns
       DEF Turns!TTypeOK, Turns!TypeOK, OutOfRotation, Turns!Available
  <2>6. QED
    BY <1>1, <2>4, <2>5 DEF LBInv
<1>4. CASE Routing!ChooseNone
  <2>1. Turns!TTypeOK /\ Turns!IndexInv /\ Turns!ChooseNone
    BY <1>4, RoutingSteps DEF LBInv
  <2>2. currentIndex' = currentIndex /\ target' = NoServer
    BY <2>1, RoutingAssumption, Turns!ChooseNoneFacts DEF Turns!ChooseNone
  <2>3. Turns!Eligible' = Turns!Eligible
    BY <1>2 DEF Turns!Eligible
  <2>4. Turns!IndexInv'
    BY <2>1, <2>2, <2>3 DEF Turns!IndexInv, Turns!Size
  <2>5. Turns!TTypeOK'
    BY <1>2, <2>1, <2>2, RoutingIsTurns DEF Turns!TTypeOK, Turns!TypeOK, OutOfRotation
  <2>6. QED
    BY <1>1, <2>4, <2>5 DEF LBInv
<1>5. QED
  BY <1>3, <1>4 DEF Route

LEMMA AdministerLBInv ==
  ASSUME LBInv, NEW type \in Types, NEW count \in 0..N, Administer(type, count)
  PROVE  LBInv'
<1>1. IInv'
  BY StutterIInv DEF LBInv, Administer, hvars, vars
<1>2. count \in Nat
  BY LoadBalancerAssumption
<1>3. Turns!TTypeOK' /\ Turns!IndexInv'
  BY <1>2, RoutingIsTurns
     DEF LBInv, Administer, Routing!SetActive, Turns!TTypeOK, Turns!TypeOK,
         Turns!IndexInv, OutOfRotation
<1>4. QED
  BY <1>1, <1>3 DEF LBInv

LEMMA LBNextLBInv ==
  ASSUME LBInv, [LBNext]_lbvars
  PROVE  LBInv'
<1>1. CASE Manage
  <2>1. Next
    BY <1>1 DEF Manage, HNext, Next, HDrain, HResume, HFire, HSetEnabled, HShutdown, HTick
  <2>2. QED
    BY <1>1, <2>1, NextIInv, SameRouting DEF LBInv, Manage
<1>2. CASE UNCHANGED lbvars
  BY <1>2, StutterIInv, SameRouting DEF LBInv, lbvars, hvars, vars
<1>3. QED
  BY <1>1, <1>2, RouteLBInv, AdministerLBInv DEF LBNext

\* Seen from the manager, every step of the load balancer is one of its own.
LEMMA LBNextManages == [LBNext]_lbvars => [HNext]_hvars
BY DEF LBNext, Manage, Route, Administer, lbvars

\* For any pool, list, types and durations that setTimeout can hold: no request
\* goes to a server while the switch is on and its last DRAIN has time to run.
THEOREM RequestsRespectDrains ==
  ASSUME DurationsFit
  PROVE  LBSpec => RespectsDrains
<1>1. ASSUME HInv, LBInv, Route, NEW p \in Servers, enabled, owed[KeyOf[p]] > 0
      PROVE  target' # p
  <2>1. drained[KeyOf[p]]
    BY <1>1, HInvHeld, KeyInKeys DEF HeldForDuration
  <2>2. p \in OutOfRotation
    BY <1>1, <2>1 DEF OutOfRotation, IsDrained
  <2>3. CASE Routing!Choose
    <3>1. target' \in Turns!Available
      BY <1>1, <2>3, RoutingSteps, RoutingAssumption, Turns!ChooseFacts DEF LBInv
    <3>2. QED
      BY <2>2, <3>1 DEF Turns!Available
  <2>4. CASE Routing!ChooseNone
    BY <2>4, DrainManagerAssumption DEF Routing!ChooseNone
  <2>5. QED
    BY <1>1, <2>3, <2>4 DEF Route
<1>2. HInv /\ LBInv /\ [LBNext]_lbvars =>
        [Route => \A p \in Servers :
           enabled /\ owed[KeyOf[p]] > 0 => target' # p]_lbvars
  BY <1>1
<1>3. LBInit => HInv
  BY InitHInv DEF LBInit
<1>4. QED
  BY <1>2, <1>3, InitLBInv, LBNextLBInv, LBNextManages, HNextHInv, PTL
     DEF LBSpec, RespectsDrains

\* A refusal of a request has one of two causes: no server is in use, which an
\* administrator has asked for; or backpressure is on and the manager has an armed
\* timer behind each server in use.
RefusalsHaveCause ==
  [][(Route /\ target' = NoServer) =>
       \/ Routing!Eligible = {}
       \/ enabled /\ \A p \in Routing!Eligible :
            timer[KeyOf[p]] # NoTimer /\ Armed(timer[KeyOf[p]])]_lbvars

\* For any pool and list: a request is refused only when an administrator has taken
\* every server out of use, or while backpressure is on and every server it could
\* go to waits for a timer that is armed.
THEOREM RefusalsAreTimed == LBSpec => RefusalsHaveCause
<1>1. ASSUME LBInv, Route, target' = NoServer, NEW p \in Routing!Eligible
      PROVE  /\ enabled
             /\ timer[KeyOf[p]] # NoTimer
             /\ Armed(timer[KeyOf[p]])
  <2>1. ~ Routing!Choose
    <3>1. NoServer \notin Turns!Available
      BY DrainManagerAssumption, RoutingIsTurns, RoutingAssumption, Turns!EligibleFacts
         DEF Turns!Available
    <3>2. QED
      BY <1>1, <3>1, RoutingSteps, RoutingAssumption, Turns!ChooseFacts DEF LBInv
  <2>2. Turns!ChooseNone
    BY <1>1, <2>1, RoutingSteps DEF Route
  <2>3. p \in OutOfRotation
    BY <1>1, <2>2, RoutingIsTurns, RoutingAssumption, Turns!ChooseNoneFacts DEF LBInv
  <2>4. p \in Servers /\ enabled /\ drained[KeyOf[p]]
    BY <2>3 DEF OutOfRotation, IsDrained
  <2>5. QED
    BY <1>1, <2>4, KeyInKeys DEF LBInv, IInv, SafetyNet
<1>2. LBInv /\ [LBNext]_lbvars =>
        [(Route /\ target' = NoServer) =>
           \/ Routing!Eligible = {}
           \/ enabled /\ \A p \in Routing!Eligible :
                timer[KeyOf[p]] # NoTimer /\ Armed(timer[KeyOf[p]])]_lbvars
  BY <1>1
<1>3. QED
  BY <1>2, InitLBInv, LBNextLBInv, PTL DEF LBSpec, RefusalsHaveCause

-----------------------------------------------------------------------------
(* The process: its two servers and the signal.                            *)

\* A client and the upstream request behind it: what was written on the response
\* is settled by how far the upstream request has come.
ExchangeInv(r) ==
  /\ client[r] = "none" => upstream[r] = "none" /\ status[r] = <<>>
  /\ upstream[r] = "pending" => client[r] \in {"waiting", "gone"} /\ status[r] = <<>>
  /\ upstream[r] = "responding" =>
       client[r] \in {"headers", "gone"} /\ status[r] = <<"proxied">>
  /\ upstream[r] = "destroyed" =>
       \/ client[r] \in {"waiting", "gone"} /\ status[r] = <<>>
       \/ client[r] \in {"headers", "gone"} /\ status[r] = <<"proxied">>
  /\ client[r] = "ended" /\ status[r] = <<"proxied">> => upstream[r] = "complete"

\* A response has one status line or none.
ProxyTypes ==
  /\ client \in [Requests -> {"none", "waiting", "headers", "ended", "gone"}]
  /\ status \in [Requests -> {<<>>, <<"proxied">>, <<"502">>, <<"503">>}]
  /\ upstream \in [Requests -> {"none", "pending", "responding", "complete",
                                "failed", "destroyed"}]

ProxyInv ==
  /\ ProxyTypes
  /\ \A r \in Requests : ExchangeInv(r)
  /\ proxyStopped => stopping /\ \A r \in Requests : ~ProxyServer!Live(r)

\* Every open socket is one stop() will destroy, and it has destroyed them all.
ListenerInv ==
  /\ phase \in [Connections -> {"new", "open", "failed", "destroyed", "closed"}]
  /\ \A c \in Connections : phase[c] = "open" => c \in activeSockets
  /\ stopping => \A c \in Connections : phase[c] # "open"
  /\ listenerStopped => stopping /\ \A c \in Connections : phase[c] \in {"new", "closed"}

ExitInv == exited => listenerStopped /\ proxyStopped

ProcessInv == ProxyInv /\ ListenerInv /\ ExitInv

LEMMA InitProcessInv == PInit => ProcessInv
BY DEF PInit, Listener!Init, ProxyServer!Init, ProcessInv, ProxyInv, ProxyTypes, ExchangeInv,
       ListenerInv, ExitInv

-----------------------------------------------------------------------------
(* The proxy: one lemma for the request a step is about *)

LEMMA OneStatus == \A s : Append(<<>>, s) = <<s>>
OBVIOUS

\* A step of the proxy that concerns r leaves the others as they are: it is
\* enough to look at r.
LEMMA ExchangeStep ==
  ASSUME ProxyInv, NEW r \in Requests,
         NEW p \in {"none", "waiting", "headers", "ended", "gone"},
         NEW s \in {<<>>, <<"proxied">>, <<"502">>, <<"503">>},
         NEW u \in {"none", "pending", "responding", "complete", "failed", "destroyed"},
         client' = [client EXCEPT ![r] = p],
         status' = [status EXCEPT ![r] = s],
         upstream' = [upstream EXCEPT ![r] = u],
         UNCHANGED <<stopping, proxyStopped>>,
         ExchangeInv(r)',
         p \in {"waiting", "headers"} => ~stopping \/ ProxyServer!Live(r)
  PROVE  ProxyInv'
<1>1. ProxyTypes'
  BY DEF ProxyInv, ProxyTypes
<1>2. ASSUME NEW q \in Requests, q # r
      PROVE  client'[q] = client[q] /\ status'[q] = status[q] /\ upstream'[q] = upstream[q]
  BY <1>2 DEF ProxyInv, ProxyTypes
<1>3. \A q \in Requests : ExchangeInv(q)'
  BY <1>2 DEF ProxyInv, ExchangeInv
<1>4. client'[r] = p
  BY DEF ProxyInv, ProxyTypes
<1>5. proxyStopped' => stopping' /\ \A q \in Requests : ~ProxyServer!Live(q)'
  BY <1>2, <1>4 DEF ProxyInv, ProxyServer!Live
<1>6. QED
  BY <1>1, <1>3, <1>5 DEF ProxyInv

\* What the error handler does: it answers a request that has no status yet.
LEMMA AnswerErrorFacts ==
  ASSUME ProxyTypes, NEW r \in Requests, ProxyServer!AnswerError(r)
  PROVE  /\ status' = [status EXCEPT ![r] =
                         IF status[r] = <<>> THEN <<"502">> ELSE status[r]]
         /\ client' = [client EXCEPT ![r] =
                         IF client[r] # "gone" /\ status[r] = <<>> THEN "ended" ELSE client[r]]
BY OneStatus DEF ProxyTypes, ProxyServer!AnswerError, ProxyServer!HeadersSent,
   ProxyServer!WriteHead, ProxyServer!ClientIs

\* One error answer at most, and none once the headers are out.
LEMMA FailureStep ==
  ASSUME ProxyInv, NEW r \in Requests,
         upstream[r] \in {"pending", "responding", "destroyed"},
         ProxyServer!AnswerError(r),
         upstream' = [upstream EXCEPT ![r] = "failed"],
         UNCHANGED <<stopping, proxyStopped>>
  PROVE  ProxyInv'
<1> DEFINE p == IF client[r] # "gone" /\ status[r] = <<>> THEN "ended" ELSE client[r]
           s == IF status[r] = <<>> THEN <<"502">> ELSE status[r]
<1>1. ProxyTypes /\ ExchangeInv(r)
  BY DEF ProxyInv
<1>2. client' = [client EXCEPT ![r] = p] /\ status' = [status EXCEPT ![r] = s]
  BY <1>1, AnswerErrorFacts
<1>3. /\ p \in {"none", "waiting", "headers", "ended", "gone"}
      /\ s \in {<<>>, <<"proxied">>, <<"502">>, <<"503">>}
  BY <1>1 DEF ProxyTypes
<1>4. p \in {"waiting", "headers"} => ProxyServer!Live(r)
  BY DEF ProxyServer!Live
<1>5. client[r] # "ended" /\ s # <<>> /\ (s = <<"proxied">> => p # "ended")
  <2>1. <<"502">> # <<>> /\ <<"502">> # <<"proxied">>
    OBVIOUS
  <2>2. QED
    BY <1>1, <2>1 DEF ExchangeInv
<1> HIDE DEF p, s
<1>6. client'[r] = p /\ status'[r] = s /\ upstream'[r] = "failed"
  BY <1>1, <1>2 DEF ProxyTypes
<1>7. p # "none"
  BY <1>1 DEF ExchangeInv, p
<1>8. ExchangeInv(r)'
  BY <1>5, <1>6, <1>7 DEF ExchangeInv
<1>9. QED
  BY <1>2, <1>3, <1>4, <1>8, ExchangeStep

LEMMA ProxyStep ==
  ASSUME ProxyInv, ProxyServer!Step, UNCHANGED stopping
  PROVE  ProxyInv'
<1>t. ProxyTypes /\ \A r \in Requests : ExchangeInv(r)
  BY DEF ProxyInv
<1>d. \A r \in Requests :
        ~stopping \/ ProxyServer!Live(r) \/ client[r] \notin {"waiting", "headers"}
  BY DEF ProxyServer!Live
<1>1. ASSUME NEW r \in Requests, ProxyServer!Refuse(r)
      PROVE  ProxyInv'
  <2>1. /\ client' = [client EXCEPT ![r] = "ended"]
        /\ status' = [status EXCEPT ![r] = <<"503">>]
        /\ upstream' = [upstream EXCEPT ![r] = "none"]
        /\ UNCHANGED <<stopping, proxyStopped>>
    BY <1>1, <1>t, OneStatus
       DEF ProxyTypes, ExchangeInv, ProxyServer!Refuse, ProxyServer!WriteHead,
           ProxyServer!ClientIs
  <2>2. client'[r] = "ended" /\ status'[r] = <<"503">> /\ upstream'[r] = "none"
    BY <1>t, <2>1 DEF ProxyTypes
  <2>3. ExchangeInv(r)'
    BY <2>2 DEF ExchangeInv
  <2>4. QED
    BY <2>1, <2>3, ExchangeStep
<1>2. ASSUME NEW r \in Requests, ProxyServer!Forward(r)
      PROVE  ProxyInv'
  <2>1. /\ client' = [client EXCEPT ![r] = "waiting"]
        /\ status' = [status EXCEPT ![r] = <<>>]
        /\ upstream' = [upstream EXCEPT ![r] = "pending"]
        /\ UNCHANGED <<stopping, proxyStopped>> /\ ~stopping
    BY <1>2, <1>t
       DEF ProxyTypes, ExchangeInv, ProxyServer!Forward, ProxyServer!UpstreamIs,
           ProxyServer!ClientIs
  <2>2. client'[r] = "waiting" /\ status'[r] = <<>> /\ upstream'[r] = "pending"
    BY <1>t, <2>1 DEF ProxyTypes
  <2>3. ExchangeInv(r)'
    BY <2>2 DEF ExchangeInv
  <2>4. QED
    BY <2>1, <2>3, ExchangeStep
<1>3. ASSUME NEW r \in Requests, ProxyServer!Respond(r)
      PROVE  ProxyInv'
  <2> DEFINE p == IF client[r] = "gone" THEN "gone" ELSE "headers"
  <2>1. /\ client' = [client EXCEPT ![r] = p]
        /\ status' = [status EXCEPT ![r] = <<"proxied">>]
        /\ upstream' = [upstream EXCEPT ![r] = "responding"]
        /\ UNCHANGED <<stopping, proxyStopped>>
        /\ client[r] \in {"waiting", "gone"}
    BY <1>3, <1>t, OneStatus
       DEF ProxyTypes, ExchangeInv, ProxyServer!Respond, ProxyServer!UpstreamIs,
           ProxyServer!ClientIs, ProxyServer!WriteHead
  <2>2. client'[r] = p /\ status'[r] = <<"proxied">> /\ upstream'[r] = "responding"
    BY <1>t, <2>1 DEF ProxyTypes
  <2>3. ExchangeInv(r)'
    BY <2>2 DEF ExchangeInv
  <2>4. p \in {"waiting", "headers"} => ProxyServer!Live(r)
    BY <2>1 DEF ProxyServer!Live
  <2>5. QED
    BY <2>1, <2>3, <2>4, ExchangeStep
<1>4. ASSUME NEW r \in Requests, ProxyServer!Complete(r)
      PROVE  ProxyInv'
  <2> DEFINE p == IF client[r] = "gone" THEN "gone" ELSE "ended"
  <2>1. /\ client' = [client EXCEPT ![r] = p]
        /\ status' = [status EXCEPT ![r] = <<"proxied">>]
        /\ upstream' = [upstream EXCEPT ![r] = "complete"]
        /\ UNCHANGED <<stopping, proxyStopped>>
    BY <1>4, <1>t
       DEF ProxyTypes, ExchangeInv, ProxyServer!Complete, ProxyServer!UpstreamIs,
           ProxyServer!ClientIs
  <2>2. client'[r] = p /\ status'[r] = <<"proxied">> /\ upstream'[r] = "complete"
    BY <1>t, <2>1 DEF ProxyTypes
  <2>3. ExchangeInv(r)'
    BY <2>2 DEF ExchangeInv
  <2>4. QED
    BY <2>1, <2>3, ExchangeStep
<1>5. ASSUME NEW r \in Requests, ProxyServer!Break(r)
      PROVE  ProxyInv'
  BY <1>5, FailureStep DEF ProxyServer!Break, ProxyServer!UpstreamIs
<1>6. ASSUME NEW r \in Requests, ProxyServer!Timeout(r)
      PROVE  ProxyInv'
  <2>1. /\ client' = [client EXCEPT ![r] = client[r]]
        /\ status' = [status EXCEPT ![r] = status[r]]
        /\ upstream' = [upstream EXCEPT ![r] = "destroyed"]
        /\ UNCHANGED <<stopping, proxyStopped>>
    BY <1>6, <1>t DEF ProxyTypes, ProxyServer!Timeout, ProxyServer!UpstreamIs
  <2>2. client'[r] = client[r] /\ status'[r] = status[r] /\ upstream'[r] = "destroyed"
    BY <1>t, <2>1 DEF ProxyTypes
  <2>3. ExchangeInv(r)'
    BY <1>6, <1>t, <2>2 DEF ExchangeInv, ProxyServer!Timeout
  <2>4. /\ client[r] \in {"none", "waiting", "headers", "ended", "gone"}
        /\ status[r] \in {<<>>, <<"proxied">>, <<"502">>, <<"503">>}
    BY <1>t DEF ProxyTypes
  <2>5. QED
    BY <1>d, <2>1, <2>3, <2>4, ExchangeStep
<1>7. ASSUME NEW r \in Requests, ProxyServer!Destroyed(r)
      PROVE  ProxyInv'
  BY <1>7, FailureStep DEF ProxyServer!Destroyed, ProxyServer!UpstreamIs
<1>8. ASSUME NEW r \in Requests, ProxyServer!ClientCloses(r)
      PROVE  ProxyInv'
  <2>1. /\ client' = [client EXCEPT ![r] = "gone"]
        /\ status' = [status EXCEPT ![r] = status[r]]
        /\ upstream' = [upstream EXCEPT ![r] = upstream[r]]
        /\ UNCHANGED <<stopping, proxyStopped>>
        /\ client[r] \in {"waiting", "headers"}
    BY <1>8, <1>t
       DEF ProxyTypes, ProxyServer!ClientCloses, ProxyServer!ClientIs, ProxyServer!Live
  <2>2. client'[r] = "gone" /\ status'[r] = status[r] /\ upstream'[r] = upstream[r]
    BY <1>t, <2>1 DEF ProxyTypes
  <2>3. ExchangeInv(r)'
    BY <1>t, <2>1, <2>2 DEF ExchangeInv
  <2>4. /\ upstream[r] \in {"none", "pending", "responding", "complete", "failed", "destroyed"}
        /\ status[r] \in {<<>>, <<"proxied">>, <<"502">>, <<"503">>}
    BY <1>t DEF ProxyTypes
  <2>5. QED
    BY <2>1, <2>3, <2>4, ExchangeStep
<1>9. ASSUME ProxyServer!Closed
      PROVE  ProxyInv'
  BY <1>9 DEF ProxyServer!Closed, ProxyServer!Live, ProxyInv, ProxyTypes, ExchangeInv
<1>10. QED
  BY <1>1, <1>2, <1>3, <1>4, <1>5, <1>6, <1>7, <1>8, <1>9 DEF ProxyServer!Step

-----------------------------------------------------------------------------
(* The listener *)

LEMMA ListenerStep ==
  ASSUME ListenerInv, Listener!Step
  PROVE  ListenerInv'
<1>1. ASSUME NEW c \in Connections, NEW line \in Lines, Listener!Write(c, line)
      PROVE  ListenerInv'
  BY <1>1 DEF Listener!Write, ListenerInv
<1>2. ASSUME NEW c \in Connections, Listener!HandleConnection(c)
      PROVE  ListenerInv'
  BY <1>2 DEF Listener!HandleConnection, ListenerInv
<1>3. ASSUME NEW c \in Connections, NEW n \in 1..Len(stream[c]), Listener!Data(c, n)
      PROVE  ListenerInv'
  BY <1>3 DEF Listener!Data, ListenerInv
<1>4. ASSUME NEW c \in Connections, Listener!Fail(c)
      PROVE  ListenerInv'
  BY <1>4 DEF Listener!Fail, ListenerInv
<1>5. ASSUME NEW c \in Connections, Listener!Close(c)
      PROVE  ListenerInv'
  BY <1>5 DEF Listener!Close, ListenerInv
<1>6. CASE Listener!ServersClosed
  BY <1>6 DEF Listener!ServersClosed, ListenerInv
<1>7. QED
  BY <1>1, <1>2, <1>3, <1>4, <1>5, <1>6 DEF Listener!Step

\* stop() reaches every socket that is open, because each of them is active.
LEMMA ListenerStop ==
  ASSUME ListenerInv, Listener!Stop
  PROVE  ListenerInv'
BY DEF Listener!Stop, ListenerInv

\* A stopped listener reads no more.
LEMMA StoppedIsQuiet ==
  ASSUME ListenerInv, Listener!Step, stopping
  PROVE  obeyed' = obeyed
BY DEF ListenerInv, Listener!Step, Listener!Write, Listener!HandleConnection, Listener!Data,
   Listener!Fail, Listener!Close, Listener!ServersClosed

-----------------------------------------------------------------------------
(* The process *)

LEMMA SameProxy ==
  ASSUME ProxyInv, UNCHANGED proxying, proxyStopped => stopping'
  PROVE  ProxyInv'
<1>1. UNCHANGED <<client, status, upstream, proxyStopped>>
  BY DEF proxying
<1>2. QED
  BY <1>1 DEF ProxyInv, ProxyTypes, ExchangeInv, ProxyServer!Live

LEMMA SameListener ==
  ASSUME ListenerInv, UNCHANGED <<listening, stopping>>
  PROVE  ListenerInv'
BY DEF listening, ListenerInv

LEMMA NextProcessInv ==
  ASSUME ProcessInv, [PNext]_pvars
  PROVE  ProcessInv'
<1>1. CASE Serve /\ Listener!Step /\ UNCHANGED proxying
  <2>1. ProxyInv' /\ ListenerInv'
    BY <1>1, SameProxy, ListenerStep DEF ProcessInv, Serve, ProxyInv
  <2>2. ExitInv'
    BY <1>1 DEF ProcessInv, Serve, ExitInv
  <2>3. QED
    BY <2>1, <2>2 DEF ProcessInv
<1>2. CASE Serve /\ ProxyServer!Step /\ UNCHANGED listening
  <2>1. ProxyInv' /\ ListenerInv'
    BY <1>2, ProxyStep, SameListener DEF ProcessInv, Serve
  <2>2. ExitInv'
    BY <1>2 DEF ProcessInv, Serve, ExitInv
  <2>3. QED
    BY <2>1, <2>2 DEF ProcessInv
<1>3. CASE PShutdown
  <2>1. ProxyInv' /\ ListenerInv'
    BY <1>3, SameProxy, ListenerStop DEF ProcessInv, PShutdown, ProxyServer!Stop, proxying, ProxyInv
  <2>2. ExitInv'
    BY <1>3 DEF ProcessInv, PShutdown, ExitInv, Listener!Stop, ProxyServer!Stop
  <2>3. QED
    BY <2>1, <2>2 DEF ProcessInv
<1>4. CASE PExit
  BY <1>4, SameProxy, SameListener DEF ProcessInv, PExit, ExitInv, ProxyInv, proxying, listening
<1>5. CASE UNCHANGED pvars
  BY <1>5, SameProxy, SameListener DEF ProcessInv, pvars, ExitInv, ProxyInv, proxying, listening
<1>6. QED
  BY <1>1, <1>2, <1>3, <1>4, <1>5 DEF PNext, Serve

-----------------------------------------------------------------------------
(* The fold behind Split(): what one more symbol does to the lines *)

\* The largest of some of the first n numbers.
LEMMA LargestOfPrefix ==
  ASSUME NEW n \in Nat, NEW s \in SUBSET (1..n), s # {}
  PROVE  Listener!Max(s) \in s /\ \A y \in s : y <= Listener!Max(s)
<1> DEFINE T == {n - y : y \in s}
<1>0. \A y \in s : y \in Nat /\ y <= n
  OBVIOUS
<1>1. T \in SUBSET Nat /\ T # {}
  <2>1. \A y \in s : n - y \in Nat
    BY <1>0
  <2>2. QED
    BY <2>1
<1>2. PICK x \in T : \A y \in T : x <= y
  BY <1>1, LeastNat
<1>3. PICK z \in s : x = n - z
  BY <1>2
<1>4. ASSUME NEW y \in s PROVE z >= y
  <2>1. n - y \in T
    OBVIOUS
  <2>2. x <= n - y
    BY <2>1, <1>2
  <2>3. QED
    BY <2>2, <1>3
<1>5. Listener!Max(s) \in s /\ \A y \in s : Listener!Max(s) >= y
  BY <1>3, <1>4 DEF Listener!Max
<1>6. QED
  BY <1>0, <1>5

Fed(acc, seq) == Listener!FoldLeft(Listener!Feed, acc, seq)

Body(acc, seq, g, s) ==
  IF s = {} THEN acc ELSE Listener!Feed(g[s \ {Listener!Max(s)}], seq[Listener!Max(s)])

LEMMA IterExists ==
  ASSUME NEW acc, NEW seq, NEW n \in Nat
  PROVE  \E g : g = [s \in SUBSET (1..n) |-> Body(acc, seq, g, s)]
<1> DEFINE P(m) == \E g : g = [s \in SUBSET (1..m) |-> Body(acc, seq, g, s)]
           S == {m \in Nat : P(m)}
<1>1. P(0)
  <2> DEFINE g0 == [t \in SUBSET (1..0) |-> acc]
  <2>1. \A s \in SUBSET (1..0) : Body(acc, seq, g0, s) = acc
    <3>1. 1..0 = {}
      OBVIOUS
    <3>2. QED
      BY <3>1 DEF Body
  <2>2. g0 = [s \in SUBSET (1..0) |-> Body(acc, seq, g0, s)]
    <3>1. g0 = [s \in SUBSET (1..0) |-> g0[s]] /\ \A s \in SUBSET (1..0) : g0[s] = acc
      OBVIOUS
    <3> HIDE DEF g0
    <3>2. QED
      BY <3>1, <2>1
  <2> HIDE DEF g0
  <2>3. QED
    BY <2>2
<1>2. ASSUME NEW m \in Nat, P(m) PROVE P(m+1)
  <2>1. PICK g : g = [s \in SUBSET (1..m) |-> Body(acc, seq, g, s)]
    BY <1>2
  <2> DEFINE h == [s \in SUBSET (1..(m+1)) |->
       IF m+1 \in s THEN Listener!Feed(g[s \ {m+1}], seq[m+1]) ELSE g[s]]
  <2>0. m+1 \in Nat /\ 1..m \subseteq 1..(m+1) /\ m+1 \notin 1..m /\ (1..(m+1)) \ {m+1} = 1..m
    OBVIOUS
  <2>2. ASSUME NEW s \in SUBSET (1..(m+1)) PROVE h[s] = Body(acc, seq, h, s)
    <3>1. CASE m+1 \in s
      <4>1. Listener!Max(s) = m+1
        <5>1. s # {}
          BY <3>1
        <5>2. Listener!Max(s) \in s /\ \A y \in s : y <= Listener!Max(s)
          BY <5>1, <2>0, LargestOfPrefix
        <5>3. Listener!Max(s) \in 1..(m+1) /\ m+1 <= Listener!Max(s)
          BY <5>2, <3>1
        <5>4. QED
          BY <5>3
      <4>2. s \ {m+1} \in SUBSET (1..(m+1)) /\ ~(m+1 \in s \ {m+1}) /\ s # {}
        BY <3>1
      <4>3. h[s \ {m+1}] = g[s \ {m+1}]
        BY <4>2
      <4>4. h[s] = Listener!Feed(g[s \ {m+1}], seq[m+1])
        BY <3>1
      <4> HIDE DEF h
      <4>5. QED
        BY <4>1, <4>2, <4>3, <4>4 DEF Body
    <3>2. CASE ~(m+1 \in s)
      <4>1. s \in SUBSET (1..m)
        BY <3>2, <2>0
      <4>2. h[s] = g[s]
        BY <3>2
      <4>3. g[s] = Body(acc, seq, g, s)
        BY <4>1, <2>1
      <4>4. CASE s = {}
        <5> HIDE DEF h
        <5>1. QED
          BY <4>2, <4>3, <4>4 DEF Body
      <4>5. CASE s # {}
        <5>1. m+1 \notin s \ {Listener!Max(s)} /\ s \ {Listener!Max(s)} \in SUBSET (1..(m+1))
          BY <3>2
        <5>2. h[s \ {Listener!Max(s)}] = g[s \ {Listener!Max(s)}]
          BY <5>1
        <5> HIDE DEF h
        <5>3. QED
          BY <4>2, <4>3, <4>5, <5>2 DEF Body
      <4>6. QED
        BY <4>4, <4>5
    <3>3. QED
      BY <3>1, <3>2
  <2>3. h = [s \in SUBSET (1..(m+1)) |-> Body(acc, seq, h, s)]
    <3>1. h = [s \in SUBSET (1..(m+1)) |-> h[s]]
      OBVIOUS
    <3> HIDE DEF h
    <3>2. QED
      BY <2>2, <3>1
  <2> HIDE DEF h
  <2>4. QED
    BY <2>3
<1> HIDE DEF P
<1>3. S = Nat
  <2>1. 0 \in S
    BY <1>1
  <2>2. \A k \in S : k + 1 \in S
    BY <1>2
  <2>3. QED
    BY <2>1, <2>2, Induction
<1>4. P(n)
  BY <1>3
<1>5. QED
  BY <1>4 DEF P

\* h[k] is what the first k symbols make of acc.
Steps(acc, seq, n, h) ==
  /\ h[0] = acc
  /\ \A k \in 1..n : h[k] = Listener!Feed(h[k - 1], seq[k])
  /\ Fed(acc, seq) = h[n]

\* The fold one symbol at a time.
LEMMA FedSteps ==
  ASSUME NEW acc, NEW seq, NEW n \in Nat, DOMAIN seq = 1..n
  PROVE  \E h : Steps(acc, seq, n, h)
<1> DEFINE Q(g) == g = [s \in SUBSET (1..n) |-> Body(acc, seq, g, s)]
<1>1. Q(CHOOSE g : Q(g))
  BY IterExists
<1>2. Fed(acc, seq) = (CHOOSE g : Q(g))[1..n]
  BY DEF Fed, Listener!FoldLeft, Listener!MapThenFoldSet, Body
<1>3. PICK g : Q(g) /\ Fed(acc, seq) = g[1..n]
  BY <1>1, <1>2
<1> DEFINE h == [k \in 0..n |-> g[1..k]]
<1>4. \A s \in SUBSET (1..n) : g[s] = Body(acc, seq, g, s)
  BY <1>3
<1>5. h[0] = acc
  <2>1. 1..0 = {} /\ {} \in SUBSET (1..n) /\ 0 \in 0..n
    OBVIOUS
  <2>2. g[{}] = acc
    BY <2>1, <1>4 DEF Body
  <2>3. QED
    BY <2>1, <2>2
<1>6. ASSUME NEW k \in 1..n PROVE h[k] = Listener!Feed(h[k - 1], seq[k])
  <2>1. 1..k \in SUBSET (1..n) /\ 1..k # {} /\ (1..k) \ {k} = 1..(k-1) /\ k \in 0..n /\ k - 1 \in 0..n
    <3>1. k \in Nat /\ 1 <= k /\ k <= n
      OBVIOUS
    <3>2. 1..k \subseteq 1..n
      BY <3>1
    <3>3. k \in 1..k
      BY <3>1
    <3>4. (1..k) \ {k} = 1..(k-1)
      BY <3>1
    <3>5. QED
      BY <3>1, <3>2, <3>3, <3>4
  <2>2. Listener!Max(1..k) \in 1..k /\ \A y \in 1..k : y <= Listener!Max(1..k)
    BY <2>1, LargestOfPrefix
  <2>3. Listener!Max(1..k) = k
    <3>1. k \in 1..k
      OBVIOUS
    <3>2. k <= Listener!Max(1..k)
      BY <3>1, <2>2
    <3>3. QED
      BY <3>2, <2>2
  <2>4. g[1..k] = Body(acc, seq, g, 1..k)
    BY <1>4, <2>1
  <2>5. g[1..k] = Listener!Feed(g[1..(k-1)], seq[k])
    BY <2>1, <2>3, <2>4 DEF Body
  <2>6. QED
    BY <2>1, <2>5
<1>7. Fed(acc, seq) = h[n]
  BY <1>3
<1> HIDE DEF h
<1>8. QED
  BY <1>5, <1>6, <1>7 DEF Steps

LEMMA FedNothing ==
  ASSUME NEW acc
  PROVE  Fed(acc, <<>>) = acc
<1>1. DOMAIN <<>> = 1..0
  OBVIOUS
<1>2. PICK h : Steps(acc, <<>>, 0, h)
  BY <1>1, FedSteps
<1>3. QED
  BY <1>2 DEF Steps

LEMMA FedOne ==
  ASSUME NEW acc, NEW S, NEW s \in Seq(S), NEW x \in S
  PROVE  Fed(acc, Append(s, x)) = Listener!Feed(Fed(acc, s), x)
<1> DEFINE n == Len(s)
           t == Append(s, x)
<1>1. n \in Nat /\ DOMAIN s = 1..n
  BY LenProperties
<1>2. t \in Seq(S) /\ Len(t) = n + 1 /\ t[n + 1] = x /\ \A i \in 1..n : t[i] = s[i]
  BY AppendProperties
<1>3. DOMAIN t = 1..(n + 1) /\ n + 1 \in Nat
  BY <1>1, <1>2, LenProperties
<1> HIDE DEF n, t
<1>4. PICK h : Steps(acc, s, n, h)
  BY <1>1, FedSteps
<1>5. PICK g : Steps(acc, t, n + 1, g)
  BY <1>3, FedSteps
<1> DEFINE K == {k \in Nat : k <= n => g[k] = h[k]}
<1>6. K = Nat
  <2>1. 0 \in K
    BY <1>4, <1>5 DEF Steps
  <2>2. ASSUME NEW k \in K PROVE k + 1 \in K
    <3>1. CASE k + 1 <= n
      <4>1. k + 1 \in 1..n /\ k + 1 \in 1..(n + 1) /\ k <= n /\ (k + 1) - 1 = k
        BY <3>1, <1>1
      <4>2. g[k + 1] = Listener!Feed(g[k], t[k + 1])
        BY <1>5, <4>1 DEF Steps
      <4>3. h[k + 1] = Listener!Feed(h[k], s[k + 1])
        BY <1>4, <4>1 DEF Steps
      <4>4. g[k] = h[k] /\ t[k + 1] = s[k + 1]
        BY <4>1, <1>2
      <4>5. QED
        BY <4>2, <4>3, <4>4
    <3>2. CASE ~(k + 1 <= n)
      BY <3>2
    <3>3. QED
      BY <3>1, <3>2
  <2> HIDE DEF K
  <2>3. K \in SUBSET Nat
    BY DEF K
  <2>4. QED
    BY <2>1, <2>2, <2>3, Induction
<1>7. g[n] = h[n]
  <2>1. n \in K
    BY <1>1, <1>6
  <2>2. QED
    BY <2>1, <1>1
<1>8. g[n + 1] = Listener!Feed(g[n], t[n + 1])
  <2>1. n + 1 \in 1..(n + 1) /\ (n + 1) - 1 = n
    BY <1>1
  <2>2. QED
    BY <2>1, <1>5 DEF Steps
<1>9. QED
  BY <1>2, <1>4, <1>5, <1>7, <1>8 DEF t, Steps

\* What comes in two chunks is what comes in one.
LEMMA FedConcat ==
  ASSUME NEW acc, NEW S, NEW s \in Seq(S), NEW u \in Seq(S)
  PROVE  Fed(acc, s \o u) = Fed(Fed(acc, s), u)
<1> DEFINE T == {t \in Seq(S) : Fed(acc, s \o t) = Fed(Fed(acc, s), t)}
<1>1. <<>> \in T
  BY ConcatEmptySeq, FedNothing, EmptySeq
<1>2. ASSUME NEW t \in T, NEW x \in S PROVE Append(t, x) \in T
  <2>1. t \in Seq(S) /\ Append(t, x) \in Seq(S) /\ s \o t \in Seq(S)
    BY AppendProperties, ConcatProperties
  <2>2. s \o Append(t, x) = Append(s \o t, x)
    BY <2>1
  <2>3. \A w \in Seq(S) : Fed(acc, Append(w, x)) = Listener!Feed(Fed(acc, w), x)
    BY FedOne
  <2>4. Fed(Fed(acc, s), Append(t, x)) = Listener!Feed(Fed(Fed(acc, s), t), x)
    BY <2>1, FedOne
  <2>5. QED
    BY <2>1, <2>2, <2>3, <2>4
<1> HIDE DEF T
<1>3. T = Seq(S)
  <2>1. T \in SUBSET Seq(S)
    BY DEF T
  <2>2. QED
    BY <1>1, <1>2, <2>1, SequencesInduction
<1>4. QED
  BY <1>3 DEF T

-----------------------------------------------------------------------------
(* Lines: how they are cut from a stream *)

\* Lines that are complete and the beginning of the next one.
Segments(S) == [lines : Seq(Seq(S)), rest : Seq(S)]

LEMMA FedTypes ==
  ASSUME NEW S, NEW acc \in Segments(S), NEW t \in Seq(S)
  PROVE  Fed(acc, t) \in Segments(S)
<1> DEFINE T == {u \in Seq(S) : Fed(acc, u) \in Segments(S)}
<1>1. <<>> \in T
  BY FedNothing, EmptySeq
<1>2. ASSUME NEW u \in T, NEW x \in S PROVE Append(u, x) \in T
  <2>1. u \in Seq(S) /\ Append(u, x) \in Seq(S)
    BY AppendProperties
  <2>2. Fed(acc, Append(u, x)) = Listener!Feed(Fed(acc, u), x)
    BY <2>1, FedOne
  <2>3. ASSUME NEW a \in Segments(S) PROVE Listener!Feed(a, x) \in Segments(S)
    <3>1. a.lines \in Seq(Seq(S)) /\ a.rest \in Seq(S)
      BY DEF Segments
    <3>2. Append(a.lines, a.rest) \in Seq(Seq(S)) /\ Append(a.rest, x) \in Seq(S)
      BY <3>1, AppendProperties
    <3>3. QED
      BY <3>1, <3>2, EmptySeq DEF Segments, Listener!Feed
  <2>4. QED
    BY <2>1, <2>2, <2>3
<1> HIDE DEF T
<1>3. T = Seq(S)
  <2>1. T \in SUBSET Seq(S)
    BY DEF T
  <2>2. QED
    BY <1>1, <1>2, <2>1, SequencesInduction
<1>4. QED
  BY <1>3 DEF T

\* Symbols other than the newline are kept for the line they begin.
LEMMA FedWithoutNewline ==
  ASSUME NEW S, Newline \notin S, NEW ls, NEW t \in Seq(S)
  PROVE  Fed([lines |-> ls, rest |-> <<>>], t) = [lines |-> ls, rest |-> t]
<1> DEFINE acc == [lines |-> ls, rest |-> <<>>]
           T == {u \in Seq(S) : Fed(acc, u) = [lines |-> ls, rest |-> u]}
<1>1. <<>> \in T
  BY FedNothing, EmptySeq
<1>2. ASSUME NEW u \in T, NEW x \in S PROVE Append(u, x) \in T
  <2>1. u \in Seq(S) /\ Append(u, x) \in Seq(S)
    BY AppendProperties
  <2>2. Fed(acc, Append(u, x)) = Listener!Feed(Fed(acc, u), x)
    BY <2>1, FedOne
  <2>3. Fed(acc, u) = [lines |-> ls, rest |-> u]
    OBVIOUS
  <2>4. x # Newline
    OBVIOUS
  <2> HIDE DEF acc, T
  <2>5. Fed(acc, Append(u, x)) = [lines |-> ls, rest |-> Append(u, x)]
    BY <2>2, <2>3, <2>4 DEF Listener!Feed
  <2>6. QED
    BY <2>1, <2>5 DEF T
<1> HIDE DEF T
<1>3. T = Seq(S)
  <2>1. T \in SUBSET Seq(S)
    BY DEF T
  <2>2. QED
    BY <1>1, <1>2, <2>1, SequencesInduction
<1>4. QED
  BY <1>3 DEF T

\* The lines there were are carried along.
LEMMA FedCarries ==
  ASSUME NEW S, NEW ls \in Seq(Seq(S)), NEW r \in Seq(S), NEW t \in Seq(S)
  PROVE  Fed([lines |-> ls, rest |-> r], t) =
           [lines |-> ls \o Listener!Split(r, t).lines, rest |-> Listener!Split(r, t).rest]
<1> DEFINE acc == [lines |-> ls, rest |-> r]
           none == [lines |-> <<>>, rest |-> r]
           T == {u \in Seq(S) : Fed(acc, u) =
                   [lines |-> ls \o Fed(none, u).lines, rest |-> Fed(none, u).rest]}
<1>0. none \in Segments(S)
  BY EmptySeq DEF Segments
<1>1. <<>> \in T
  <2>1. Fed(acc, <<>>) = acc /\ Fed(none, <<>>) = none
    BY FedNothing
  <2>2. ls \o <<>> = ls /\ <<>> \in Seq(S)
    BY EmptySeq, ConcatEmptySeq
  <2>3. acc = [lines |-> ls, rest |-> r] /\ none.lines = <<>> /\ none.rest = r
    OBVIOUS
  <2> HIDE DEF acc, none
  <2>4. QED
    BY <2>1, <2>2, <2>3
<1>2. ASSUME NEW u \in T, NEW x \in S PROVE Append(u, x) \in T
  <2>1. u \in Seq(S) /\ Append(u, x) \in Seq(S)
    BY AppendProperties
  <2>2. Fed(acc, Append(u, x)) = Listener!Feed(Fed(acc, u), x)
    BY <2>1, FedOne
  <2>3. Fed(none, Append(u, x)) = Listener!Feed(Fed(none, u), x)
    BY <2>1, FedOne
  <2>4. PICK b \in Segments(S) : b = Fed(none, u)
    BY <1>0, <2>1, FedTypes
  <2>5. Fed(acc, u) = [lines |-> ls \o b.lines, rest |-> b.rest]
    BY <2>4
  <2>6. b.lines \in Seq(Seq(S)) /\ b.rest \in Seq(S)
    BY DEF Segments
  <2>7. ls \o Append(b.lines, b.rest) = Append(ls \o b.lines, b.rest)
    BY <2>6
  <2> HIDE DEF acc, none
  <2>8. Fed(acc, Append(u, x)) = [lines |-> ls \o Fed(none, Append(u, x)).lines,
                                  rest |-> Fed(none, Append(u, x)).rest]
    <3>1. CASE x = Newline
      <4>1. Fed(none, Append(u, x)) = [lines |-> Append(b.lines, b.rest), rest |-> <<>>]
        BY <2>3, <2>4, <3>1 DEF Listener!Feed
      <4>2. Fed(acc, Append(u, x)) = [lines |-> Append(ls \o b.lines, b.rest), rest |-> <<>>]
        BY <2>2, <2>5, <3>1 DEF Listener!Feed
      <4>3. /\ Fed(none, Append(u, x)).lines = Append(b.lines, b.rest)
            /\ Fed(none, Append(u, x)).rest = <<>>
        BY <4>1
      <4>4. QED
        BY <4>2, <4>3, <2>7
    <3>2. CASE x # Newline
      <4>1. Fed(none, Append(u, x)) = [lines |-> b.lines, rest |-> Append(b.rest, x)]
        BY <2>3, <2>4, <3>2 DEF Listener!Feed
      <4>2. Fed(acc, Append(u, x)) = [lines |-> ls \o b.lines, rest |-> Append(b.rest, x)]
        BY <2>2, <2>5, <3>2 DEF Listener!Feed
      <4>3. QED
        BY <4>1, <4>2
    <3>3. QED
      BY <3>1, <3>2
  <2>9. QED
    BY <2>1, <2>8
<1> HIDE DEF T
<1>3. T = Seq(S)
  <2>1. T \in SUBSET Seq(S)
    BY DEF T
  <2>2. QED
    BY <1>1, <1>2, <2>1, SequencesInduction
<1>4. t \in T
  BY <1>3
<1>5. QED
  BY <1>4 DEF T, Listener!Split, Fed

Newlines(t) == {i \in DOMAIN t : t[i] = Newline}

\* There are as many lines as newlines.
LEMMA FedCounts ==
  ASSUME NEW S, NEW r \in Seq(S), NEW t \in Seq(S)
  PROVE  /\ IsFiniteSet(Newlines(t))
         /\ Len(Listener!Split(r, t).lines) = Cardinality(Newlines(t))
<1> DEFINE none == [lines |-> <<>>, rest |-> r]
           T == {u \in Seq(S) : /\ IsFiniteSet(Newlines(u))
                                /\ Len(Fed(none, u).lines) = Cardinality(Newlines(u))}
<1>0. none \in Segments(S)
  BY EmptySeq DEF Segments
<1>1. <<>> \in T
  <2>1. Newlines(<<>>) = {}
    BY DEF Newlines
  <2>2. Fed(none, <<>>) = none
    BY FedNothing
  <2>3. none.lines = <<>> /\ Len(<<>>) = 0 /\ Cardinality({}) = 0 /\ IsFiniteSet({})
    BY EmptySeq, FS_EmptySet
  <2> HIDE DEF none
  <2>4. QED
    BY <2>1, <2>2, <2>3, EmptySeq
<1>2. ASSUME NEW u \in T, NEW x \in S PROVE Append(u, x) \in T
  <2>1. u \in Seq(S) /\ Append(u, x) \in Seq(S)
    BY AppendProperties
  <2>2. Fed(none, Append(u, x)) = Listener!Feed(Fed(none, u), x)
    BY <2>1, FedOne
  <2>3. PICK b \in Segments(S) : b = Fed(none, u)
    BY <1>0, <2>1, FedTypes
  <2>4. b.lines \in Seq(Seq(S)) /\ b.rest \in Seq(S)
    BY DEF Segments
  <2>5. IsFiniteSet(Newlines(u)) /\ Len(b.lines) = Cardinality(Newlines(u))
    BY <2>3
  <2> DEFINE n == Len(u)
             w == Append(u, x)
  <2>6. /\ n \in Nat
        /\ DOMAIN u = 1..n
        /\ DOMAIN w = 1..(n + 1)
        /\ w[n + 1] = x
        /\ \A i \in 1..n : w[i] = u[i]
    BY <2>1, AppendProperties, LenProperties
  <2> HIDE DEF none, n, w
  <2>7. CASE x = Newline
    <3>1. Newlines(w) = Newlines(u) \union {n + 1} /\ n + 1 \notin Newlines(u)
      BY <2>6, <2>7 DEF Newlines
    <3>2. /\ IsFiniteSet(Newlines(w))
          /\ Cardinality(Newlines(w)) = Cardinality(Newlines(u)) + 1
      BY <2>5, <3>1, FS_AddElement
    <3>3. Fed(none, w) = [lines |-> Append(b.lines, b.rest), rest |-> <<>>]
      BY <2>2, <2>3, <2>7 DEF Listener!Feed, w
    <3>4. Len(Fed(none, w).lines) = Len(b.lines) + 1
      BY <2>4, <3>3, AppendProperties
    <3>5. QED
      BY <2>1, <2>5, <3>2, <3>4 DEF w
  <2>8. CASE x # Newline
    <3>1. Newlines(w) = Newlines(u)
      BY <2>6, <2>8 DEF Newlines
    <3>2. Fed(none, w) = [lines |-> b.lines, rest |-> Append(b.rest, x)]
      BY <2>2, <2>3, <2>8 DEF Listener!Feed, w
    <3>3. QED
      BY <2>1, <2>5, <3>1, <3>2 DEF w
  <2>9. QED
    BY <2>7, <2>8
<1> HIDE DEF T
<1>3. T = Seq(S)
  <2>1. T \in SUBSET Seq(S)
    BY DEF T
  <2>2. QED
    BY <1>1, <1>2, <2>1, SequencesInduction
<1>4. t \in T
  BY <1>3
<1>5. QED
  BY <1>4 DEF T, Listener!Split, Fed

-----------------------------------------------------------------------------
(* The listener's streams *)

Symbols == (UNION {Listener!ToSet(line) : line \in Lines}) \union {Newline}

\* The lines obeyed and those still to be cut from what has been read and what is
\* under way are the lines written; no piece of a line is left over at the end.
FramingInv ==
  /\ written \in [Connections -> Seq(Seq(Symbols))]
  /\ obeyed \in [Connections -> Seq(Seq(Symbols))]
  /\ stream \in [Connections -> Seq(Symbols)]
  /\ buffer \in [Connections -> Seq(Symbols)]
  /\ \A c \in Connections :
       /\ written[c] = obeyed[c] \o Listener!Split(buffer[c], stream[c]).lines
       /\ Listener!Split(buffer[c], stream[c]).rest = <<>>

LEMMA SplitTypes ==
  ASSUME NEW r \in Seq(Symbols), NEW t \in Seq(Symbols)
  PROVE  /\ Listener!Split(r, t).lines \in Seq(Seq(Symbols))
         /\ Listener!Split(r, t).rest \in Seq(Symbols)
         /\ Listener!Split(r, t) = [lines |-> Listener!Split(r, t).lines,
                                    rest |-> Listener!Split(r, t).rest]
<1>1. [lines |-> <<>>, rest |-> r] \in Segments(Symbols)
  BY EmptySeq DEF Segments
<1>2. Listener!Split(r, t) \in Segments(Symbols)
  BY <1>1, FedTypes DEF Fed, Listener!Split
<1>3. QED
  BY <1>2 DEF Segments

LEMMA InitFraming == PInit => FramingInv
<1>1. Listener!Split(<<>>, <<>>) = [lines |-> <<>>, rest |-> <<>>]
  BY FedNothing DEF Fed, Listener!Split
<1>2. /\ Listener!Split(<<>>, <<>>).lines = <<>>
      /\ Listener!Split(<<>>, <<>>).rest = <<>>
  BY <1>1
<1>3. <<>> \in Seq(Symbols) /\ <<>> \in Seq(Seq(Symbols)) /\ <<>> \o <<>> = <<>>
  BY EmptySeq, ConcatEmptySeq
<1>4. QED
  BY <1>2, <1>3 DEF PInit, Listener!Init, FramingInv

\* A line that is written is one more line to be cut, whole.
LEMMA WriteFraming ==
  ASSUME FramingInv, NEW c \in Connections, NEW line \in Lines, Listener!Write(c, line)
  PROVE  FramingInv'
<1> DEFINE whole == Append(line, Newline)
           ls == Listener!Split(buffer[c], stream[c]).lines
<1>1. /\ written' = [written EXCEPT ![c] = Append(written[c], line)]
      /\ stream' = [stream EXCEPT ![c] = stream[c] \o whole]
      /\ UNCHANGED <<buffer, obeyed>>
  BY DEF Listener!Write
<1>2. /\ line \in Seq(Listener!ToSet(line))
      /\ Newline \notin Listener!ToSet(line)
      /\ Listener!ToSet(line) \subseteq Symbols
  BY LinesAssumption DEF Symbols
<1>3. line \in Seq(Symbols) /\ Newline \in Symbols /\ whole \in Seq(Symbols)
  <2>1. line \in Seq(Symbols)
    BY <1>2, SeqMonotonic
  <2>2. Newline \in Symbols
    BY DEF Symbols
  <2>3. QED
    BY <2>1, <2>2, AppendProperties
<1>4. /\ stream[c] \in Seq(Symbols) /\ buffer[c] \in Seq(Symbols)
      /\ obeyed[c] \in Seq(Seq(Symbols)) /\ written[c] \in Seq(Seq(Symbols))
      /\ written[c] = obeyed[c] \o ls
      /\ Listener!Split(buffer[c], stream[c]).rest = <<>>
  BY DEF FramingInv
<1>5. ls \in Seq(Seq(Symbols)) /\ Listener!Split(buffer[c], stream[c]) = [lines |-> ls, rest |-> <<>>]
  BY <1>4, SplitTypes
<1> HIDE DEF whole, ls
<1>6. Listener!Split(buffer[c], stream[c] \o whole) = [lines |-> Append(ls, line), rest |-> <<>>]
  <2>1. Listener!Split(buffer[c], stream[c] \o whole) = Fed([lines |-> ls, rest |-> <<>>], whole)
    BY <1>3, <1>4, <1>5, FedConcat DEF Fed, Listener!Split
  <2>2. Fed([lines |-> ls, rest |-> <<>>], whole) =
          Listener!Feed(Fed([lines |-> ls, rest |-> <<>>], line), Newline)
    BY <1>3, FedOne DEF whole
  <2>3. Fed([lines |-> ls, rest |-> <<>>], line) = [lines |-> ls, rest |-> line]
    BY <1>2, FedWithoutNewline
  <2>4. QED
    BY <2>1, <2>2, <2>3 DEF Listener!Feed
<1>7. /\ Append(written[c], line) = obeyed[c] \o Append(ls, line)
      /\ Append(written[c], line) \in Seq(Seq(Symbols))
      /\ stream[c] \o whole \in Seq(Symbols)
  <2>1. obeyed[c] \o Append(ls, line) = Append(obeyed[c] \o ls, line)
    <3> DEFINE S == Seq(Symbols)
               o == obeyed[c]
    <3>1. o \in Seq(S) /\ ls \in Seq(S) /\ line \in S
      BY <1>3, <1>4, <1>5
    <3> HIDE DEF S, o
    <3>2. o \o Append(ls, line) = Append(o \o ls, line)
      BY <3>1, ConcatAppend
    <3>3. QED
      BY <3>2 DEF o
  <2>2. Append(written[c], line) = obeyed[c] \o Append(ls, line)
    BY <1>4, <2>1
  <2>3. Append(written[c], line) \in Seq(Seq(Symbols))
    BY <1>3, <1>4, AppendProperties
  <2>4. stream[c] \o whole \in Seq(Symbols)
    BY <1>3, <1>4, ConcatProperties
  <2>5. QED
    BY <2>2, <2>3, <2>4
<1>8. ASSUME NEW d \in Connections
      PROVE  /\ written'[d] = obeyed[d] \o Listener!Split(buffer[d], stream'[d]).lines
             /\ Listener!Split(buffer[d], stream'[d]).rest = <<>>
  <2>1. CASE d = c
    <3>1. written'[c] = Append(written[c], line) /\ stream'[c] = stream[c] \o whole
      BY <1>1 DEF FramingInv
    <3>2. QED
      <4>1. /\ Listener!Split(buffer[c], stream'[c]).lines = Append(ls, line)
            /\ Listener!Split(buffer[c], stream'[c]).rest = <<>>
        BY <3>1, <1>6
      <4>2. QED
        BY <2>1, <3>1, <4>1, <1>7
  <2>2. CASE d # c
    <3>1. written'[d] = written[d] /\ stream'[d] = stream[d]
      BY <1>1, <2>2 DEF FramingInv
    <3>2. QED
      BY <3>1 DEF FramingInv
  <2>3. QED
    BY <2>1, <2>2
<1>9. /\ written' \in [Connections -> Seq(Seq(Symbols))]
      /\ stream' \in [Connections -> Seq(Symbols)]
  BY <1>1, <1>7 DEF FramingInv
<1>10. QED
  BY <1>1, <1>8, <1>9 DEF FramingInv

\* Cutting now or later makes the same lines.
LEMMA DataFraming ==
  ASSUME FramingInv, NEW c \in Connections, NEW n \in 1..Len(stream[c]), Listener!Data(c, n)
  PROVE  FramingInv'
<1> DEFINE chunk == SubSeq(stream[c], 1, n)
           later == SubSeq(stream[c], n + 1, Len(stream[c]))
           split == Listener!Split(buffer[c], chunk)
           ls == split.lines
           r == split.rest
<1>1. /\ buffer' = [buffer EXCEPT ![c] = r]
      /\ obeyed' = [obeyed EXCEPT ![c] = obeyed[c] \o ls]
      /\ stream' = [stream EXCEPT ![c] = later]
      /\ UNCHANGED written
  BY DEF Listener!Data
<1>2. /\ stream[c] \in Seq(Symbols) /\ buffer[c] \in Seq(Symbols)
      /\ obeyed[c] \in Seq(Seq(Symbols))
      /\ written[c] = obeyed[c] \o Listener!Split(buffer[c], stream[c]).lines
      /\ Listener!Split(buffer[c], stream[c]).rest = <<>>
  BY DEF FramingInv
<1>3. chunk \in Seq(Symbols) /\ later \in Seq(Symbols) /\ stream[c] = chunk \o later
  <2>1. Len(stream[c]) \in Nat /\ \A i \in 1..Len(stream[c]) : stream[c][i] \in Symbols
    BY <1>2, LenProperties, ElementOfSeq
  <2>2. chunk \in Seq(Symbols)
    BY <2>1, SubSeqProperties
  <2>3. later \in Seq(Symbols)
    <3>1. n + 1 \in Int /\ \A i \in (n + 1)..Len(stream[c]) : stream[c][i] \in Symbols
      BY <2>1
    <3>2. QED
      BY <2>1, <3>1, SubSeqProperties
  <2>4. chunk \o later = SubSeq(stream[c], 1, Len(stream[c]))
    <3>1. 1 \in 1..(Len(stream[c]) + 1) /\ n \in 0..Len(stream[c])
          /\ Len(stream[c]) \in n..Len(stream[c]) /\ 1 - 1 = 0
      BY <2>1
    <3>2. QED
      BY <1>2, <3>1, ConcatAdjacentSubSeq
  <2>5. QED
    BY <1>2, <2>2, <2>3, <2>4, SubSeqFull
<1>4. ls \in Seq(Seq(Symbols)) /\ r \in Seq(Symbols) /\ split = [lines |-> ls, rest |-> r]
  BY <1>2, <1>3, SplitTypes
<1> HIDE DEF chunk, later, ls, r
<1>5. Listener!Split(buffer[c], stream[c]) =
        [lines |-> ls \o Listener!Split(r, later).lines, rest |-> Listener!Split(r, later).rest]
  <2>1. Listener!Split(buffer[c], chunk \o later) = Fed(split, later)
    BY <1>2, <1>3, FedConcat DEF Fed, Listener!Split
  <2> HIDE DEF split
  <2>2. Fed([lines |-> ls, rest |-> r], later) =
          [lines |-> ls \o Listener!Split(r, later).lines, rest |-> Listener!Split(r, later).rest]
    BY <1>3, <1>4, FedCarries
  <2>3. QED
    BY <1>3, <1>4, <2>1, <2>2
<1> HIDE DEF split
<1>6. Listener!Split(r, later).lines \in Seq(Seq(Symbols))
  BY <1>3, <1>4, SplitTypes
<1>7. /\ written[c] = (obeyed[c] \o ls) \o Listener!Split(r, later).lines
      /\ Listener!Split(r, later).rest = <<>>
      /\ obeyed[c] \o ls \in Seq(Seq(Symbols))
  <2>1. written[c] = obeyed[c] \o (ls \o Listener!Split(r, later).lines)
    <3>1. Listener!Split(buffer[c], stream[c]).lines = ls \o Listener!Split(r, later).lines
      BY <1>5
    <3>2. QED
      BY <1>2, <3>1
  <2>2. Listener!Split(r, later).rest = <<>>
    BY <1>2, <1>5
  <2>3. obeyed[c] \o (ls \o Listener!Split(r, later).lines) =
          (obeyed[c] \o ls) \o Listener!Split(r, later).lines
    <3>1. \A s, t, u \in Seq(Seq(Symbols)) : (s \o t) \o u = s \o (t \o u)
      BY ConcatAssociative
    <3>2. QED
      BY <1>2, <1>4, <1>6, <3>1
  <2>4. obeyed[c] \o ls \in Seq(Seq(Symbols))
    BY <1>2, <1>4, ConcatProperties
  <2>5. QED
    BY <2>1, <2>2, <2>3, <2>4
<1>8. ASSUME NEW d \in Connections
      PROVE  /\ written[d] = obeyed'[d] \o Listener!Split(buffer'[d], stream'[d]).lines
             /\ Listener!Split(buffer'[d], stream'[d]).rest = <<>>
  <2>1. CASE d = c
    <3>1. obeyed'[c] = obeyed[c] \o ls /\ stream'[c] = later /\ buffer'[c] = r
      BY <1>1 DEF FramingInv
    <3>2. QED
      BY <2>1, <3>1, <1>7
  <2>2. CASE d # c
    <3>1. obeyed'[d] = obeyed[d] /\ stream'[d] = stream[d] /\ buffer'[d] = buffer[d]
      BY <1>1, <2>2 DEF FramingInv
    <3>2. QED
      BY <3>1 DEF FramingInv
  <2>3. QED
    BY <2>1, <2>2
<1>9. /\ obeyed' \in [Connections -> Seq(Seq(Symbols))]
      /\ stream' \in [Connections -> Seq(Symbols)]
      /\ buffer' \in [Connections -> Seq(Symbols)]
  BY <1>1, <1>3, <1>4, <1>7 DEF FramingInv
<1>10. QED
  BY <1>1, <1>8, <1>9 DEF FramingInv

LEMMA OtherFraming ==
  ASSUME FramingInv, UNCHANGED <<written, stream, buffer, obeyed>>
  PROVE  FramingInv'
BY DEF FramingInv

LEMMA NextFraming ==
  ASSUME FramingInv, [PNext]_pvars
  PROVE  FramingInv'
<1>1. CASE Listener!Step
  <2>1. ASSUME NEW c \in Connections, NEW line \in Lines, Listener!Write(c, line)
        PROVE  FramingInv'
    BY <2>1, WriteFraming
  <2>2. ASSUME NEW c \in Connections, NEW n \in 1..Len(stream[c]), Listener!Data(c, n)
        PROVE  FramingInv'
    BY <2>2, DataFraming
  <2>3. ASSUME NEW c \in Connections,
               Listener!HandleConnection(c) \/ Listener!Fail(c) \/ Listener!Close(c)
        PROVE  FramingInv'
    BY <2>3, OtherFraming DEF Listener!HandleConnection, Listener!Fail, Listener!Close
  <2>4. CASE Listener!ServersClosed
    BY <2>4, OtherFraming DEF Listener!ServersClosed
  <2>5. QED
    BY <1>1, <2>1, <2>2, <2>3, <2>4 DEF Listener!Step
<1>2. CASE UNCHANGED listening
  BY <1>2, OtherFraming DEF listening
<1>3. CASE PShutdown
  BY <1>3, OtherFraming DEF PShutdown, Listener!Stop
<1>4. QED
  BY <1>1, <1>2, <1>3 DEF PNext, Serve, PExit, pvars

-----------------------------------------------------------------------------
(* The theorems *)

\* For any requests: no order of an answer, an error, a timeout and a client that
\* leaves writes a second head on a response.
THEOREM OneHead == PSpec => []OneAnswer
<1>1. ProcessInv => OneAnswer
  <2>1. /\ Len(<<>>) <= 1
        /\ Len(<<"proxied">>) <= 1 /\ Len(<<"502">>) <= 1 /\ Len(<<"503">>) <= 1
    <3>1. \A x : Len(<<x>>) = 1
      OBVIOUS
    <3>2. Len(<<>>) = 0
      OBVIOUS
    <3>3. QED
      BY <3>1, <3>2
  <2>2. QED
    BY <2>1 DEF ProcessInv, ProxyInv, ProxyTypes, OneAnswer, ProxyServer!OneAnswer
<1>2. QED
  BY <1>1, InitProcessInv, NextProcessInv, PTL DEF PSpec

\* For any requests: a response that was ended after the server's own status holds
\* the whole of its answer.
THEOREM EndedIsWhole == PSpec => []NeverTruncated
<1>1. ProcessInv => NeverTruncated
  BY DEF ProcessInv, ProxyInv, ExchangeInv, NeverTruncated, ProxyServer!NeverTruncated
<1>2. QED
  BY <1>1, InitProcessInv, NextProcessInv, PTL DEF PSpec

\* For any connections and any lines on them: no command is obeyed after a signal.
THEOREM NothingAfterSignal == PSpec => QuietAfterStop
<1>1. ProcessInv /\ [PNext]_pvars => [stopping => obeyed' = obeyed]_(Listener!vars)
  <2> SUFFICES ASSUME ProcessInv, [PNext]_pvars, stopping
               PROVE  obeyed' = obeyed
    OBVIOUS
  <2>1. CASE Serve
    BY <2>1, StoppedIsQuiet DEF ProcessInv, Serve, listening
  <2>2. CASE PShutdown \/ PExit \/ UNCHANGED pvars
    BY <2>2 DEF PShutdown, PExit, pvars, listening, Listener!Stop
  <2>3. QED
    BY <2>1, <2>2 DEF PNext
<1>2. QED
  BY <1>1, InitProcessInv, NextProcessInv, PTL DEF PSpec, QuietAfterStop, Listener!QuietAfterStop

\* "Gracefully shuts down the server, closing all connections": when the process
\* exits no client is left waiting for the rest of its answer and no connection of a
\* sidecar is open.
THEOREM ExitIsGraceful ==
  PSpec => [](exited => /\ \A r \in Requests : ~ProxyServer!Live(r)
                       /\ \A c \in Connections : phase[c] \in {"new", "closed"})
<1>1. ProcessInv => (exited => /\ \A r \in Requests : ~ProxyServer!Live(r)
                        /\ \A c \in Connections : phase[c] \in {"new", "closed"})
  BY DEF ProcessInv, ProxyInv, ListenerInv, ExitInv
<1>2. QED
  BY <1>1, InitProcessInv, NextProcessInv, PTL DEF PSpec

\* For any connections, any lines and any cutting of the stream: the lines obeyed are
\* a prefix of those the sidecar wrote, each of them whole.
THEOREM CommandsAreWhole == PSpec => []ObeysWhatWasWritten
<1>1. ASSUME FramingInv, NEW c \in Connections
      PROVE  Listener!IsPrefix(obeyed[c], written[c])
  <2> DEFINE o == obeyed[c]
             ls == Listener!Split(buffer[c], stream[c]).lines
             S == Seq(Symbols)
  <2>1. o \in Seq(S) /\ ls \in Seq(S) /\ written[c] = o \o ls
    BY <1>1, SplitTypes DEF FramingInv
  <2> HIDE DEF o, ls, S
  <2>2. Len(o) \in Nat /\ Len(ls) \in Nat /\ Len(o \o ls) = Len(o) + Len(ls)
    BY <2>1, LenProperties, ConcatProperties
  <2>3. SubSeq(o \o ls, 1, Len(o)) = o
    <3>1. CASE Len(o) = 0
      BY <2>1, <3>1
    <3>2. CASE Len(o) # 0
      BY <2>1, <2>2, <3>2
    <3>3. QED
      BY <3>1, <3>2
  <2>4. SubSeq(o, 1, Len(o)) = o
    BY <2>1, SubSeqFull
  <2>5. Listener!IsPrefix(o, o \o ls)
    BY <2>2, <2>3, <2>4 DEF Listener!IsPrefix
  <2>6. QED
    BY <2>1, <2>5 DEF o
<1>2. FramingInv => ObeysWhatWasWritten
  BY <1>1 DEF ObeysWhatWasWritten, Listener!ObeysWhatWasWritten
<1>3. QED
  BY <1>2, InitFraming, NextFraming, PTL DEF PSpec

\* And none is kept back: those not obeyed are the ones whose newline has not been read.
THEOREM NoCommandKept == PSpec => []NothingKeptBack
<1>1. ASSUME FramingInv, NEW c \in Connections
      PROVE  Len(obeyed[c]) + Cardinality(Newlines(stream[c])) = Len(written[c])
  <2> DEFINE o == obeyed[c]
             ls == Listener!Split(buffer[c], stream[c]).lines
             S == Seq(Symbols)
  <2>1. o \in Seq(S) /\ ls \in Seq(S) /\ written[c] = o \o ls
    BY <1>1, SplitTypes DEF FramingInv
  <2>2. Len(ls) = Cardinality(Newlines(stream[c]))
    <3>1. buffer[c] \in Seq(Symbols) /\ stream[c] \in Seq(Symbols)
      BY <1>1 DEF FramingInv
    <3>2. QED
      BY <3>1, FedCounts
  <2> HIDE DEF o, ls, S
  <2>3. Len(o \o ls) = Len(o) + Len(ls)
    BY <2>1, ConcatProperties
  <2>4. QED
    BY <2>1, <2>2, <2>3 DEF o
<1>2. FramingInv => NothingKeptBack
  BY <1>1 DEF NothingKeptBack, Listener!NothingKeptBack, Newlines, Cardinality, Listener!Cardinality
<1>3. QED
  BY <1>2, InitFraming, NextFraming, PTL DEF PSpec
=============================================================================
