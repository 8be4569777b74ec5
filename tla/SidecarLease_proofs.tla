------------------------ MODULE SidecarLease_proofs -------------------------
(***************************************************************************)
(* The heartbeat theorem: for any drain intervals, send interval, timer    *)
(* jitter and network delay with HeartbeatFits, a server whose sidecar is  *)
(* connected and unhealthy stays out of rotation without a gap.            *)
(***************************************************************************)
EXTENDS SidecarLease, SequenceTheorems, TLAPS

\* The longest time until the next command of the connection is obeyed.
Due == IF wire = <<>> THEN sendLeft + MaxDelay ELSE wire[1].ttl

\* The send timer's period is one that start() computes from some interval.
PeriodInv ==
  phase = "running" =>
    /\ \E d \in Intervals : sendInterval = SendIntervalFor(d)
    /\ sendLeft <= sendInterval + Jitter

CoverInv ==
  covered =>
    /\ phase = "running" /\ connected /\ ~healthy
    /\ AllDrains(wire) /\ AllDrains(residue)
    /\ out = {Key}
    /\ lease[Key] > Due

CInv == TypeOK /\ covered \in BOOLEAN /\ PeriodInv /\ CoverInv

-----------------------------------------------------------------------------
(* Sequences of commands *)

LEMMA CommandFacts ==
  /\ \A d \in Intervals : DrainFor(d) \in Command /\ DrainFor(d).lease > 0
                          /\ DrainFor(d).ttl = MaxDelay
  /\ ResumeNow \in Command
BY SidecarLinkAssumption DEF DrainFor, ResumeNow, Command

LEMMA CommandType ==
  ASSUME NEW c \in Command
  PROVE  /\ c.lease \in Intervals \union {0} /\ c.lease \in Nat
         /\ c.ttl \in 0..MaxDelay /\ c.ttl \in Nat
<1>1. c.lease \in Intervals \union {0} /\ c.ttl \in 0..MaxDelay
  BY DEF Command
<1>2. \A x \in Intervals \union {0} : x \in Nat
  BY SidecarLinkAssumption
<1>3. \A x \in 0..MaxDelay : x \in Nat
  BY SidecarLinkAssumption
<1>4. QED
  BY <1>1, <1>2, <1>3

LEMMA AppendFacts ==
  ASSUME NEW w \in Seq(Command), NEW c \in Command
  PROVE  /\ Append(w, c) \in Seq(Command)
         /\ Append(w, c)[1] = IF w = <<>> THEN c ELSE w[1]
         /\ Append(w, c) # <<>>
         /\ AllDrains(w) /\ c.lease > 0 => AllDrains(Append(w, c))
BY DEF AllDrains

LEMMA TailFacts ==
  ASSUME NEW w \in Seq(Command), w # <<>>
  PROVE  /\ Tail(w) \in Seq(Command)
         /\ Head(w) \in Command
         /\ AllDrains(w) => AllDrains(Tail(w)) /\ Head(w).lease > 0
         /\ Tail(w) # <<>> => Tail(w)[1] \in Command
BY DEF AllDrains

LEMMA AgeFacts ==
  ASSUME NEW w \in Seq(Command), \A i \in DOMAIN w : w[i].ttl > 0
  PROVE  /\ Age(w) \in Seq(Command)
         /\ AllDrains(w) => AllDrains(Age(w))
         /\ w # <<>> => Age(w) # <<>> /\ Age(w)[1].ttl = w[1].ttl - 1
         /\ w = <<>> => Age(w) = <<>>
<1>0. \A i \in 1..Len(w) : w[i] \in Command /\ w[i].ttl > 0
  OBVIOUS
<1>1. \A i \in 1..Len(w) : w[i] \in Command /\ w[i].ttl - 1 \in 0..MaxDelay
  <2> SUFFICES ASSUME NEW c \in Command, c.ttl > 0
               PROVE  c.ttl - 1 \in 0..MaxDelay
    BY <1>0
  <2>1. c.ttl \in 0..MaxDelay
    BY DEF Command
  <2>2. QED
    BY <2>1, SidecarLinkAssumption
<1>2. \A i \in 1..Len(w) : Age(w)[i] \in Command /\ Age(w)[i].lease = w[i].lease
                           /\ Age(w)[i].ttl = w[i].ttl - 1
  BY <1>1 DEF Age, Command
<1>3. Age(w) \in Seq(Command) /\ Len(Age(w)) = Len(w)
  BY <1>2 DEF Age
<1>4. QED
  BY <1>2, <1>3 DEF AllDrains

LEMMA DropFacts ==
  ASSUME TypeOK, Drop
  PROVE  connected' \in BOOLEAN /\ wire' \in Seq(Command) /\ residue' \in Seq(Command)
<1>1. PICK n \in 0..Len(wire) : residue' = residue \o SubSeq(wire, 1, n)
  BY DEF Drop
<1>2. SubSeq(wire, 1, n) \in Seq(Command)
  <2>1. n \in Int /\ 1 \in Int /\ \A i \in 1..n : wire[i] \in Command
    BY DEF TypeOK
  <2>2. QED
    BY <2>1, SubSeqProperties
<1>3. residue \o SubSeq(wire, 1, n) \in Seq(Command)
  BY <1>2, ConcatProperties DEF TypeOK
<1>4. wire' \in Seq(Command)
  BY DEF Drop
<1>5. QED
  BY <1>1, <1>3, <1>4 DEF Drop

LEMMA SendIntervalFacts ==
  ASSUME NEW d \in Intervals
  PROVE  SendIntervalFor(d) \in Nat
BY SidecarLinkAssumption DEF SendIntervalFor, Half

-----------------------------------------------------------------------------
(* The invariant *)

LEMMA InitCInv == CInit => CInv
<1> SUFFICES ASSUME CInit PROVE CInv
  OBVIOUS
<1>1. wire \in Seq(Command) /\ residue \in Seq(Command)
  BY DEF CInit, Init
<1>2. TypeOK
  BY <1>1 DEF CInit, Init, Lease!Init, TypeOK, Phases
<1>3. covered = FALSE /\ phase = "connecting"
  BY DEF CInit, Init
<1>4. QED
  BY <1>2, <1>3 DEF CInv, PeriodInv, CoverInv

\* What a send adds to the wire, and that it never brings a RESUME between the
\* DRAINs of an unhealthy sidecar.
LEMMA SendFacts ==
  ASSUME TypeOK, NEW h \in BOOLEAN, NEW d \in Intervals, SendState(h, d)
  PROVE  /\ wire' \in Seq(Command)
         /\ wire # <<>> => wire' # <<>> /\ wire'[1] = wire[1]
         /\ wire = <<>> => wire' = <<>> \/ (wire' # <<>> /\ wire'[1].ttl = MaxDelay)
         /\ AllDrains(wire) /\ ~h => AllDrains(wire')
         /\ connected => wire' # <<>>
<1> DEFINE c == IF h THEN ResumeNow ELSE DrainFor(d)
<1>1. c \in Command /\ c.ttl = MaxDelay /\ (~h => c.lease > 0)
  BY CommandFacts DEF ResumeNow
<1>2. wire' = wire \/ wire' = Append(wire, c)
  BY DEF SendState
<1>3. connected => wire' = Append(wire, c)
  BY DEF SendState
<1> HIDE DEF c
<1>4. wire \in Seq(Command)
  BY DEF TypeOK
<1>5. CASE wire' = wire
  BY <1>3, <1>4, <1>5, AppendFacts, <1>1
<1>6. CASE wire' = Append(wire, c)
  <2>1. /\ Append(wire, c) \in Seq(Command)
        /\ Append(wire, c)[1] = IF wire = <<>> THEN c ELSE wire[1]
        /\ Append(wire, c) # <<>>
        /\ AllDrains(wire) /\ c.lease > 0 => AllDrains(Append(wire, c))
    BY <1>1, <1>4, AppendFacts
  <2>2. AllDrains(wire) /\ ~h => AllDrains(wire')
    BY <1>1, <1>6, <2>1
  <2>3. QED
    BY <1>1, <1>6, <2>1, <2>2
<1>7. QED
  BY <1>2, <1>5, <1>6

LEMMA StartRunnerCInv ==
  ASSUME CInv, StartRunner, Keep
  PROVE  CInv'
BY DEF StartRunner, Keep, CInv, TypeOK, Phases, PeriodInv, CoverInv, Due, link, balancer, AllDrains

LEMMA StartSendingCInv ==
  ASSUME CInv, StartSending, Keep
  PROVE  CInv'
<1>1. sendInterval' = SendIntervalFor(drainInterval) /\ drainInterval \in Intervals
  BY DEF StartSending, CInv, TypeOK
<1>2. sendInterval' \in Nat /\ sendLeft' \in Nat
  BY <1>1, SendIntervalFacts, SidecarLinkAssumption DEF StartSending
<1>3. ~covered
  BY DEF CInv, CoverInv, StartSending
<1>4. TypeOK'
  BY <1>2 DEF StartSending, CInv, TypeOK, Phases, link, balancer
<1>5. PeriodInv'
  BY <1>1, <1>2 DEF StartSending, PeriodInv
<1>6. QED
  BY <1>3, <1>4, <1>5 DEF CInv, CoverInv, Keep

LEMMA RunChecksCInv ==
  ASSUME CInv, NEW h \in BOOLEAN, NEW d \in Intervals, RunChecks(h, d),
         covered' = (covered /\ ~h)
  PROVE  CInv'
<1>1. TypeOK'
  BY SendFacts DEF RunChecks, CInv, TypeOK, balancer
<1>2. PeriodInv'
  BY DEF RunChecks, CInv, PeriodInv
<1>3. CoverInv'
  <2> SUFFICES ASSUME covered' PROVE CoverInv'
    BY DEF CoverInv
  <2>1. covered /\ ~h /\ ~healthy
    BY DEF CInv, CoverInv
  <2>2. h = FALSE /\ healthy = FALSE
    BY <2>1 DEF CInv, TypeOK
  <2>3. wire' = wire /\ healthy' = FALSE
    BY <2>2 DEF RunChecks
  <2>4. QED
    BY <2>1, <2>3 DEF RunChecks, CInv, CoverInv, Due, balancer, AllDrains
<1>4. QED
  BY <1>1, <1>2, <1>3 DEF CInv

LEMMA HeartbeatCInv ==
  ASSUME CInv, Heartbeat, Keep
  PROVE  CInv'
<1>0. /\ SendState(healthy, drainInterval)
      /\ healthy \in BOOLEAN /\ drainInterval \in Intervals
  BY DEF Heartbeat, CInv, TypeOK
<1>1. TypeOK'
  BY <1>0, SendFacts, SidecarLinkAssumption DEF Heartbeat, CInv, TypeOK, balancer
<1>2. PeriodInv'
  BY SidecarLinkAssumption DEF Heartbeat, CInv, PeriodInv, TypeOK
<1>3. CoverInv'
  <2> SUFFICES ASSUME covered PROVE CoverInv'
    BY DEF CoverInv, Keep
  <2>1. connected /\ ~healthy /\ AllDrains(wire)
    BY DEF CInv, CoverInv
  <2>2. AllDrains(wire') /\ wire' # <<>>
    BY <1>0, <2>1, SendFacts DEF CInv
  <2>3. lease[Key] > wire'[1].ttl
    <3>1. CASE wire = <<>>
      <4>1. wire'[1].ttl = MaxDelay
        BY <3>1, <1>0, <2>2, SendFacts DEF CInv
      <4>2. QED
        BY <3>1, <4>1, SidecarLinkAssumption DEF CInv, CoverInv, Due, TypeOK
    <3>2. CASE wire # <<>>
      BY <3>2, <1>0, SendFacts DEF CInv, CoverInv, Due
    <3>3. QED
      BY <3>1, <3>2
  <2>4. QED
    BY <2>2, <2>3 DEF Heartbeat, CInv, CoverInv, Due, balancer, AllDrains
<1>4. QED
  BY <1>1, <1>2, <1>3 DEF CInv, Keep

\* Every step that ends the connection ends the cover.
LEMMA DropCInv ==
  ASSUME CInv, covered' = FALSE,
         Stop \/ Restart \/ LinkDown \/ BalancerRestart
  PROVE  CInv'
<1>0. CoverInv' /\ covered' \in BOOLEAN
  BY DEF CoverInv
<1>1. CASE Stop
  <2>1. TypeOK'
    BY <1>1, DropFacts DEF Stop, CInv, TypeOK, Phases, balancer
  <2>2. QED
    BY <1>0, <1>1, <2>1 DEF Stop, CInv, PeriodInv
<1>2. CASE Restart
  BY <1>0, <1>2 DEF Restart, CInv, TypeOK, Phases, PeriodInv, balancer, link
<1>3. CASE LinkDown
  <2>1. TypeOK'
    BY <1>3, DropFacts DEF LinkDown, CInv, TypeOK, balancer, sidecar
  <2>2. QED
    BY <1>0, <1>3, <2>1 DEF LinkDown, CInv, PeriodInv, sidecar
<1>4. CASE BalancerRestart
  <2>1. wire' = <<>> /\ residue' = <<>> /\ <<>> \in Seq(Command)
    BY <1>4 DEF BalancerRestart
  <2>2. TypeOK'
    BY <1>4, <2>1 DEF BalancerRestart, Lease!ResumeAll, CInv, TypeOK, sidecar
  <2>3. QED
    BY <1>0, <1>4, <2>2 DEF BalancerRestart, CInv, PeriodInv, sidecar
<1>5. QED
  BY <1>1, <1>2, <1>3, <1>4

LEMMA QuietCInv ==
  ASSUME CInv, LinkUp \/ AutoResume, Keep
  PROVE  CInv'
<1>1. CASE LinkUp
  BY <1>1 DEF LinkUp, Keep, CInv, TypeOK, PeriodInv, CoverInv, balancer, sidecar
<1>2. CASE AutoResume
  <2>1. ~covered
    <3> SUFFICES ASSUME covered PROVE FALSE
      OBVIOUS
    <3>1. lease[Key] > Due /\ lease[Key] = 0
      BY <1>2 DEF AutoResume, Lease!Expire, CInv, CoverInv
    <3>2. wire \in Seq(Command) /\ (wire # <<>> => wire[1] \in Command)
      BY DEF CInv, TypeOK
    <3>3. wire # <<>> => wire[1].ttl \in Nat
      BY <3>2, CommandType
    <3>4. Due \in Nat
      BY <3>3, SidecarLinkAssumption DEF Due, CInv, TypeOK
    <3>5. QED
      BY <3>1, <3>4
  <2>2. TypeOK'
    BY <1>2 DEF AutoResume, Lease!Expire, CInv, TypeOK, sidecar, link
  <2>3. QED
    BY <1>2, <2>1, <2>2 DEF AutoResume, Keep, CInv, PeriodInv, CoverInv, sidecar, link
<1>3. QED
  BY <1>1, <1>2

\* Obeying a command: a DRAIN starts a lease that outlives the next heartbeat.
LEMMA ObeyFacts ==
  ASSUME TypeOK, NEW c \in Command, Obey(c)
  PROVE  /\ out' \subseteq {Key} /\ lease' \in [{Key} -> Nat]
         /\ c.lease > 0 => out' = {Key} /\ lease'[Key] = c.lease /\ c.lease \in Intervals
<1>1. c.lease \in Nat /\ (c.lease > 0 => c.lease \in Intervals)
  BY CommandType
<1>2. CASE c.lease = 0
  BY <1>2 DEF Obey, Lease!Resume, TypeOK
<1>3. CASE c.lease # 0
  BY <1>1, <1>3 DEF Obey, Lease!Drain, TypeOK
<1>4. QED
  BY <1>2, <1>3, <1>1

\* While the sidecar runs, no lease is as short as the time to the next command.
LEMMA LeaseOutlivesDue ==
  ASSUME HeartbeatFits, TypeOK, PeriodInv, phase = "running", NEW e \in Intervals,
         NEW w \in Seq(Command)
  PROVE  e > (IF w = <<>> THEN sendLeft + MaxDelay ELSE w[1].ttl)
<1>1. PICK d \in Intervals : sendInterval = SendIntervalFor(d)
  BY DEF PeriodInv
<1>2. /\ sendInterval + Jitter + MaxDelay < e
      /\ sendInterval \in Nat /\ e \in Nat /\ sendLeft \in Nat
      /\ sendLeft <= sendInterval + Jitter
  BY <1>1, SendIntervalFacts, SidecarLinkAssumption DEF HeartbeatFits, TypeOK, PeriodInv
<1>3. w # <<>> => w[1].ttl \in 0..MaxDelay
  <2>1. w # <<>> => w[1] \in Command
    OBVIOUS
  <2>2. QED
    BY <2>1 DEF Command
<1>4. QED
  BY <1>2, <1>3, SidecarLinkAssumption

LEMMA DeliverCInv ==
  ASSUME HeartbeatFits, CInv, Deliver, CObey(wire)
  PROVE  CInv'
<1>1. /\ wire \in Seq(Command) /\ wire # <<>> /\ Obey(Head(wire))
      /\ wire' = Tail(wire) /\ UNCHANGED <<sidecar, connected, residue>>
  BY DEF Deliver, CInv, TypeOK
<1>2. Head(wire) \in Command /\ Tail(wire) \in Seq(Command)
      /\ (AllDrains(wire) => AllDrains(Tail(wire)) /\ Head(wire).lease > 0)
  BY <1>1, TailFacts
<1>3. TypeOK'
  BY <1>1, <1>2, ObeyFacts DEF CInv, TypeOK, sidecar
<1>4. PeriodInv'
  BY <1>1 DEF CInv, PeriodInv, sidecar
<1>5. covered' \in BOOLEAN
  BY DEF CObey
<1>6. CoverInv'
  <2> SUFFICES ASSUME covered' PROVE CoverInv'
    BY DEF CoverInv
  <2>1. /\ phase = "running" /\ connected /\ ~healthy
        /\ AllDrains(wire) /\ AllDrains(residue)
    BY DEF CObey, CInv, CoverInv
  <2>2. /\ out' = {Key} /\ lease'[Key] = Head(wire).lease
        /\ Head(wire).lease \in Intervals
    BY <1>1, <1>2, <2>1, ObeyFacts DEF CInv
  <2>3. lease'[Key] > Due'
    BY <1>1, <1>2, <2>1, <2>2, LeaseOutlivesDue DEF CInv, Due, sidecar
  <2>4. QED
    BY <1>1, <1>2, <2>1, <2>2, <2>3 DEF CoverInv, sidecar, AllDrains
<1>7. QED
  BY <1>3, <1>4, <1>5, <1>6 DEF CInv

LEMMA DeliverResidueCInv ==
  ASSUME HeartbeatFits, CInv, DeliverResidue, CObey(residue)
  PROVE  CInv'
<1>1. /\ residue \in Seq(Command) /\ residue # <<>> /\ Obey(Head(residue))
      /\ residue' = Tail(residue) /\ UNCHANGED <<sidecar, connected, wire>>
      /\ wire \in Seq(Command)
  BY DEF DeliverResidue, CInv, TypeOK
<1>2. Head(residue) \in Command /\ Tail(residue) \in Seq(Command)
      /\ (AllDrains(residue) => AllDrains(Tail(residue)) /\ Head(residue).lease > 0)
  BY <1>1, TailFacts
<1>3. TypeOK'
  BY <1>1, <1>2, ObeyFacts DEF CInv, TypeOK, sidecar
<1>4. PeriodInv'
  BY <1>1 DEF CInv, PeriodInv, sidecar
<1>5. covered' \in BOOLEAN
  BY DEF CObey
<1>6. CoverInv'
  <2> SUFFICES ASSUME covered' PROVE CoverInv'
    BY DEF CoverInv
  <2>1. /\ phase = "running" /\ connected /\ ~healthy
        /\ AllDrains(wire) /\ AllDrains(residue)
    BY DEF CObey, CInv, CoverInv
  <2>2. /\ out' = {Key} /\ lease'[Key] = Head(residue).lease
        /\ Head(residue).lease \in Intervals
    BY <1>1, <1>2, <2>1, ObeyFacts DEF CInv
  <2>3. lease'[Key] > Due'
    BY <1>1, <2>1, <2>2, LeaseOutlivesDue DEF CInv, Due, sidecar
  <2>4. QED
    BY <1>1, <1>2, <2>1, <2>2, <2>3 DEF CoverInv, sidecar, AllDrains
<1>7. QED
  BY <1>3, <1>4, <1>5, <1>6 DEF CInv

\* The lease and the wait for the next command run down together.
LEMMA TickCInv ==
  ASSUME CInv, Tick, Keep
  PROVE  CInv'
<1>1. /\ wire \in Seq(Command) /\ residue \in Seq(Command)
      /\ \A i \in DOMAIN wire : wire[i].ttl > 0
      /\ \A i \in DOMAIN residue : residue[i].ttl > 0
      /\ wire' = Age(wire) /\ residue' = Age(residue)
  BY DEF Tick, CInv, TypeOK
<1>2. lease' \in [{Key} -> Nat] /\ out' = out
      /\ lease'[Key] = IF lease[Key] = 0 THEN 0 ELSE lease[Key] - 1
  BY DEF Tick, Lease!Tick, CInv, TypeOK
<1>3. sendLeft' \in Nat /\ sendLeft' <= sendLeft
      /\ (phase = "running" => sendLeft' = sendLeft - 1)
  BY DEF Tick, CInv, TypeOK
<1>4. TypeOK'
  BY <1>1, <1>2, <1>3, AgeFacts DEF Tick, CInv, TypeOK
<1>5. PeriodInv'
  BY <1>3, SidecarLinkAssumption DEF Tick, CInv, TypeOK, PeriodInv
<1>6. CoverInv'
  <2> SUFFICES ASSUME covered PROVE CoverInv'
    BY DEF CoverInv, Keep
  <2>1. /\ phase = "running" /\ connected /\ ~healthy
        /\ AllDrains(wire) /\ AllDrains(residue)
        /\ out = {Key} /\ lease[Key] > Due
    BY DEF CInv, CoverInv
  <2>2. AllDrains(wire') /\ AllDrains(residue')
    BY <1>1, <2>1, AgeFacts
  <2>3. lease'[Key] > Due'
    <3>1. CASE wire = <<>>
      <4>1. wire' = <<>> /\ Due = sendLeft + MaxDelay /\ Due' = sendLeft' + MaxDelay
        BY <3>1, <1>1, AgeFacts DEF Due
      <4>2. lease[Key] \in Nat /\ sendLeft \in Nat
        BY DEF CInv, TypeOK
      <4>3. QED
        BY <4>1, <4>2, <1>2, <1>3, <2>1, SidecarLinkAssumption
    <3>2. CASE wire # <<>>
      <4>1. wire' # <<>> /\ wire'[1].ttl = wire[1].ttl - 1
        BY <3>2, <1>1, AgeFacts
      <4>2. wire[1] \in Command /\ wire[1].ttl > 0 /\ lease[Key] \in Nat
        BY <3>2, <1>1 DEF CInv, TypeOK
      <4>3. wire[1].ttl \in Nat
        BY <4>2, CommandType
      <4>4. QED
        BY <3>2, <4>1, <4>2, <4>3, <1>2, <2>1 DEF Due
    <3>3. QED
      BY <3>1, <3>2
  <2>4. QED
    BY <1>2, <2>1, <2>2, <2>3 DEF CoverInv, Tick
<1>7. QED
  BY <1>4, <1>5, <1>6 DEF CInv, Keep

LEMMA StutterCInv ==
  ASSUME CInv, UNCHANGED cvars
  PROVE  CInv'
BY DEF cvars, vars, sidecar, link, balancer, CInv, TypeOK, PeriodInv, CoverInv, Due, AllDrains

LEMMA NextCInv ==
  ASSUME HeartbeatFits, CInv, [CNext]_cvars
  PROVE  CInv'
<1>1. CASE (StartRunner \/ StartSending \/ Heartbeat \/ LinkUp \/ AutoResume \/ Tick) /\ Keep
  BY <1>1, StartRunnerCInv, StartSendingCInv, HeartbeatCInv, QuietCInv, TickCInv
<1>2. CASE \E allHealthy \in BOOLEAN, d \in Intervals :
             RunChecks(allHealthy, d) /\ covered' = (covered /\ ~allHealthy)
  BY <1>2, RunChecksCInv
<1>3. CASE (Stop \/ Restart \/ LinkDown \/ BalancerRestart) /\ covered' = FALSE
  BY <1>3, DropCInv
<1>4. CASE Deliver /\ CObey(wire)
  BY <1>4, DeliverCInv
<1>5. CASE DeliverResidue /\ CObey(residue)
  BY <1>5, DeliverResidueCInv
<1>6. CASE UNCHANGED cvars
  BY <1>6, StutterCInv
<1>7. QED
  BY <1>1, <1>2, <1>3, <1>4, <1>5, <1>6 DEF CNext

\* A heartbeat that fits the leases keeps an unhealthy server out of rotation
\* without a gap, for any intervals, jitter and network delay; the state of the
\* sidecar, of its connection and of the lease keep their types.
THEOREM HeartbeatKeepsLease ==
  ASSUME HeartbeatFits
  PROVE  CSpec => [](TypeOK /\ NoLapse)
<1>1. CInv => TypeOK /\ NoLapse
  BY DEF CInv, CoverInv, NoLapse
<1>2. QED
  BY <1>1, InitCInv, NextCInv, PTL DEF CSpec
=============================================================================
