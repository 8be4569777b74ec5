-------------------------- MODULE WebServer_proofs --------------------------
(***************************************************************************)
(* What a click may count on, for any number of pages, clicks, calls and   *)
(* polls under way: a call that was alone loads the servers it asked for,  *)
(* and clicks made in turn leave the switch where the last one put it.     *)
(* Then the scraper, for any interval, timeout and retention: how many     *)
(* scrapes can be under way at once, and that the status and the charts it *)
(* feeds settle on what the target does although scrapes may end in any    *)
(* order.                                                                  *)
(***************************************************************************)
EXTENDS Dashboard, Scraper, DataInduction, TLAPS

CallTypes ==
  /\ route \in [Calls -> {"none", "configuring", "waiting", "answered"}]
  /\ answer \in [Calls -> {"none", "200", "400", "409", "500", "502"}]
  /\ post \in [Calls -> {"none", "sent", "ok", "refused"}]
  /\ get \in [Calls -> {"none", "sent", "arrived"}]
  /\ reply \in [Calls -> {"none", "pending", "200", "400", "409", "500"}]
  /\ asked \in [Calls -> [type : Types, count : Nat] \union {NoCall}]
  /\ activeType \in Types \union {NoType}
  /\ activeCount \in [Types -> Nat]
  /\ running \in [Pages -> Calls \union {NoCall}]
  /\ disturbed \subseteq Calls

\* The order of one call: first the load balancer, then the generator, whose 409
\* is never the answer to a call that was alone.
CallInv(r) ==
  /\ route[r] = "none" =>
       post[r] = "none" /\ get[r] = "none" /\ reply[r] = "none" /\ answer[r] = "none"
  /\ post[r] # "none" => asked[r] \in [type : Types, count : Nat]
  /\ route[r] = "configuring" => get[r] = "none"
  /\ get[r] # "none" => post[r] = "ok"
  /\ reply[r] # "none" => get[r] = "arrived"
  /\ reply[r] = "409" \/ answer[r] = "409" => r \in disturbed

\* As long as anything of an undisturbed call is open, nothing of another one is.
Alone == \A r \in Calls \ disturbed : \A s \in Calls : Open(r) /\ Open(s) => r = s

\* And the load balancer keeps what that call has set.
KeptActive == \A r \in Calls \ disturbed : Open(r) /\ post[r] = "ok" => Holds(r)

CallsInv == CallTypes /\ (\A r \in Calls : CallInv(r)) /\ Alone /\ KeptActive

-----------------------------------------------------------------------------
(* The calls of a run *)

LEMMA InitCallsInv == Init => CallsInv
<1> SUFFICES ASSUME Init PROVE CallsInv
  OBVIOUS
<1>1. CallTypes
  BY SimulationRunsAssumption DEF Init, Generator!Init, CallTypes
<1>2. \A r \in Calls : CallInv(r) /\ ~Open(r)
  BY DEF Init, Generator!Init, CallInv, Open
<1>3. QED
  BY <1>1, <1>2 DEF CallsInv, Alone, KeptActive

\* Only the entries of call r change.
OthersKept(r) ==
  \A s \in Calls \ {r} :
    /\ route'[s] = route[s] /\ answer'[s] = answer[s] /\ post'[s] = post[s]
    /\ get'[s] = get[s] /\ reply'[s] = reply[s] /\ asked'[s] = asked[s]

LEMMA OthersKeptOpen ==
  ASSUME NEW r \in Calls, OthersKept(r), disturbed \subseteq disturbed'
  PROVE  \A s \in Calls \ {r} : (Open(s)' <=> Open(s)) /\ (CallInv(s) => CallInv(s)')
BY DEF OthersKept, Open, CallInv

\* A call of the route begins: it disturbs what is open, and is disturbed by it.
LEMMA HandleCallsInv ==
  ASSUME CallsInv, NEW r \in Calls, Handle(r), running' \in [Pages -> Calls \union {NoCall}]
  PROVE  CallsInv'
<1>1. /\ route[r] = "none" /\ post[r] = "none" /\ get[r] = "none" /\ reply[r] = "none"
      /\ answer[r] = "none"
  BY DEF Handle, CallsInv, CallInv
<1>2. ~Open(r)
  BY <1>1 DEF Open
<1>3. CASE Answer(r, "400") /\ UNCHANGED <<asked, post, disturbed, get, reply, active>>
  <2>1. CallTypes' /\ OthersKept(r)
    BY <1>3 DEF CallsInv, CallTypes, Answer, OthersKept, active
  <2>2. route'[r] = "answered" /\ answer'[r] = "400"
    BY <1>3 DEF CallsInv, CallTypes, Answer
  <2>3. ~Open(r)' /\ CallInv(r)'
    BY <1>1, <1>3, <2>2 DEF Open, CallInv
  <2>4. \A s \in Calls : (Open(s)' <=> Open(s)) /\ CallInv(s)'
    BY <1>2, <1>3, <2>1, <2>3, OthersKeptOpen DEF CallsInv
  <2>5. Alone' /\ KeptActive'
    BY <1>3, <2>4 DEF CallsInv, Alone, KeptActive, Holds, active
  <2>6. QED
    BY <2>1, <2>4, <2>5 DEF CallsInv
<1>4. CASE /\ route' = [route EXCEPT ![r] = "configuring"]
           /\ post' = [post EXCEPT ![r] = "sent"]
           /\ disturbed' = disturbed \union
                LET others == {s \in Calls : Open(s)} IN
                IF others = {} THEN {} ELSE others \union {r}
           /\ \E ask \in Asks[r] : ask.count # 0 /\ asked' = [asked EXCEPT ![r] = ask]
           /\ UNCHANGED <<answer, get, reply, active>>
  <2>0. PICK ask \in [type : Types, count : Nat] : asked' = [asked EXCEPT ![r] = ask]
    BY <1>4, SimulationRunsAssumption
  <2>1. disturbed \subseteq disturbed' /\ disturbed' \subseteq Calls
    BY <1>4 DEF CallsInv, CallTypes
  <2>2. CallTypes' /\ OthersKept(r)
    BY <1>4, <2>0, <2>1 DEF CallsInv, CallTypes, OthersKept, active
  <2>3. route'[r] = "configuring" /\ post'[r] = "sent" /\ asked'[r] = ask
    BY <1>4, <2>0 DEF CallsInv, CallTypes
  <2>4. CallInv(r)'
    BY <1>1, <1>4, <2>3 DEF CallInv
  <2>5. \A s \in Calls : CallInv(s)'
    BY <2>1, <2>2, <2>4, OthersKeptOpen DEF CallsInv
  <2>6. \A s \in Calls \ disturbed' : Open(s)' => s = r
    BY <1>4, <2>1, <2>2, OthersKeptOpen
  <2>7. \A s \in Calls \ disturbed' : Open(s)' => \A x \in Calls : ~Open(x)
    BY <1>4, <2>6
  <2>8. Alone'
    <3> SUFFICES ASSUME NEW s \in Calls \ disturbed', NEW x \in Calls, Open(s)', Open(x)'
                 PROVE  s = x
      BY DEF Alone
    <3>1. s = r /\ ~Open(x)
      BY <2>6, <2>7
    <3>2. x = r
      BY <2>1, <2>2, <3>1, OthersKeptOpen
    <3>3. QED
      BY <3>1, <3>2
  <2>9. KeptActive'
    BY <2>3, <2>6 DEF KeptActive
  <2>10. QED
    BY <2>2, <2>5, <2>8, <2>9 DEF CallsInv
<1>5. QED
  BY <1>3, <1>4 DEF Handle

\* A step of call r: r is open, and only r's entries change, with what the load
\* balancer holds if it is r's POST that arrives.
StepOf(r) ==
  /\ CallTypes'
  /\ OthersKept(r)
  /\ Open(r)
  /\ disturbed' = disturbed
  /\ asked' = asked
  /\ UNCHANGED active \/ Holds(r)'
  /\ post'[r] = "ok" => (post[r] = "ok" /\ UNCHANGED active) \/ Holds(r)'
  /\ CallInv(r)'

LEMMA StepOfCallsInv ==
  ASSUME CallsInv, NEW r \in Calls, StepOf(r)
  PROVE  CallsInv'
<1>1. \A s \in Calls \ {r} : (Open(s)' <=> Open(s)) /\ CallInv(s)'
  BY OthersKeptOpen DEF StepOf, CallsInv
<1>2. \A s \in Calls : CallInv(s)'
  BY <1>1 DEF StepOf
<1>3. Alone'
  BY <1>1 DEF StepOf, CallsInv, Alone
<1>4. KeptActive'
  <2> SUFFICES ASSUME NEW s \in Calls \ disturbed', Open(s)', post'[s] = "ok"
               PROVE  Holds(s)'
    BY DEF KeptActive
  <2>1. CASE s = r
    <3>1. UNCHANGED active /\ asked' = asked => (Holds(r) => Holds(r)')
      BY DEF Holds, active
    <3>2. QED
      BY <2>1, <3>1 DEF StepOf, CallsInv, KeptActive
  <2>2. CASE s # r
    BY <1>1, <2>2 DEF StepOf, CallsInv, Alone
  <2>3. QED
    BY <2>1, <2>2
<1>5. QED
  BY <1>2, <1>3, <1>4 DEF CallsInv, StepOf

LEMMA RouteStep ==
  ASSUME CallsInv, NEW r \in Calls,
         Configured(r) \/ NotConfigured(r) \/ Relay(r) \/ GiveUp(r)
  PROVE  StepOf(r)
<1> USE DEF CallsInv, CallTypes
<1>1. CASE Configured(r)
  <2>1. CallTypes' /\ OthersKept(r)
    BY <1>1 DEF Configured, OthersKept, active
  <2>2. /\ route[r] = "configuring" /\ route'[r] = "waiting" /\ get'[r] = "sent"
        /\ post[r] = "ok" /\ UNCHANGED <<asked, answer, post, reply, active, disturbed>>
    BY <1>1 DEF Configured
  <2>3. Open(r) /\ CallInv(r)'
    BY <2>2 DEF Open, CallInv
  <2>4. QED
    BY <2>1, <2>2, <2>3 DEF StepOf
<1>2. ASSUME NEW status \in {"200", "400", "409", "500", "502"}, Answer(r, status),
             status = "409" => reply[r] = "409",
             route[r] \in {"configuring", "waiting"},
             UNCHANGED <<asked, post, get, reply, active, running, disturbed>>
      PROVE  StepOf(r)
  <2>1. CallTypes' /\ OthersKept(r)
    BY <1>2 DEF Answer, OthersKept, active
  <2>2. route'[r] = "answered" /\ answer'[r] = status
    BY <1>2 DEF Answer
  <2>3. Open(r) /\ CallInv(r)'
    BY <1>2, <2>2 DEF Open, CallInv
  <2>4. QED
    BY <1>2, <2>1, <2>3 DEF StepOf
<1>3. CASE NotConfigured(r)
  BY <1>2, <1>3 DEF NotConfigured
<1>4. CASE Relay(r)
  <2>1. reply[r] \in {"200", "400", "409", "500", "502"}
    BY <1>4 DEF Relay
  <2>2. QED
    BY <1>2, <1>4, <2>1 DEF Relay
<1>5. CASE GiveUp(r)
  BY <1>2, <1>5 DEF GiveUp
<1>6. QED
  BY <1>1, <1>3, <1>4, <1>5

LEMMA ServiceStep ==
  ASSUME CallsInv, NEW r \in Calls, Administer(r) \/ Arrive(r) \/ Finish(r)
  PROVE  StepOf(r)
<1> USE DEF CallsInv, CallTypes
<1>1. CASE Administer(r)
  <2>1. CallTypes' /\ OthersKept(r)
    <3>1. asked[r] \in [type : Types, count : Nat]
      BY <1>1 DEF Administer, CallInv
    <3>2. CallTypes'
      BY <1>1, <3>1 DEF Administer, active
    <3>3. QED
      BY <1>1, <3>2 DEF Administer, OthersKept
  <2>2. /\ post[r] = "sent" /\ UNCHANGED <<route, asked, answer, get, reply, disturbed>>
        /\ asked' = asked /\ asked[r] \in [type : Types, count : Nat]
        /\ \/ post'[r] = "ok" /\ Holds(r)'
           \/ post'[r] = "refused" /\ UNCHANGED active
    BY <1>1 DEF Administer, Holds, CallInv
  <2>3. Open(r) /\ CallInv(r)'
    BY <2>2 DEF Open, CallInv
  <2>4. QED
    BY <2>1, <2>2, <2>3 DEF StepOf
<1>2. CASE Arrive(r)
  <2>1. CallTypes' /\ OthersKept(r)
    BY <1>2 DEF Arrive, OthersKept, Generator!Accept, Generator!Refuse, Generator!Reject,
                Generator!Answer, active
  <2>2. /\ get[r] = "sent" /\ get'[r] = "arrived" /\ reply[r] = "none"
        /\ UNCHANGED <<route, asked, answer, post, active, disturbed>>
        /\ \/ reply'[r] \in {"pending", "400"}
           \/ reply'[r] = "409" /\ Generator!Busy
    BY <1>2 DEF Arrive, Generator!Accept, Generator!Refuse, Generator!Reject, Generator!Answer
  <2>3. Open(r)
    BY <2>2 DEF Open
  <2>4. reply'[r] = "409" => r \in disturbed
    <3> SUFFICES ASSUME reply'[r] = "409", r \notin disturbed PROVE FALSE
      OBVIOUS
    <3>1. PICK s \in Calls : reply[s] = "pending"
      BY <2>2 DEF Generator!Busy
    <3>2. Open(s) /\ s # r
      BY <2>2, <3>1 DEF Open
    <3>3. QED
      BY <2>3, <3>2 DEF Alone
  <2>5. CallInv(r)'
    BY <2>2, <2>4 DEF CallInv
  <2>6. QED
    BY <2>1, <2>2, <2>3, <2>5 DEF StepOf
<1>3. CASE Finish(r)
  <2>1. CallTypes' /\ OthersKept(r)
    BY <1>3 DEF Finish, OthersKept, Generator!Finish, Generator!Answer, active
  <2>2. /\ reply[r] = "pending" /\ reply'[r] \in {"200", "500"}
        /\ UNCHANGED <<route, asked, answer, post, get, active, disturbed>>
    BY <1>3 DEF Finish, Generator!Finish, Generator!Answer
  <2>3. Open(r) /\ CallInv(r)'
    BY <2>2 DEF Open, CallInv
  <2>4. QED
    BY <2>1, <2>2, <2>3 DEF StepOf
<1>4. QED
  BY <1>1, <1>2, <1>3

LEMMA UnchangedCallsInv ==
  ASSUME CallsInv, UNCHANGED <<route, asked, answer, post, get, reply, active, disturbed>>,
         running' \in [Pages -> Calls \union {NoCall}]
  PROVE  CallsInv'
BY DEF CallsInv, CallTypes, CallInv, Alone, KeptActive, Open, Holds, active

LEMMA SimulateCallsInv ==
  ASSUME CallsInv, Simulate
  PROVE  CallsInv'
<1>1. CASE \E r \in Calls : CallElsewhere(r)
  <2>1. running' \in [Pages -> Calls \union {NoCall}]
    BY <1>1 DEF CallElsewhere, CallsInv, CallTypes
  <2>2. QED
    BY <1>1, <2>1, HandleCallsInv DEF CallElsewhere
<1>2. CASE \E r \in Calls, p \in Pages : Click(p, r)
  <2>1. running' \in [Pages -> Calls \union {NoCall}]
    BY <1>2 DEF Click, CallsInv, CallTypes
  <2>2. QED
    BY <1>2, <2>1, HandleCallsInv DEF Click
<1>3. CASE \E r \in Calls : CallStep(r)
  BY <1>3, RouteStep, ServiceStep, StepOfCallsInv DEF CallStep
<1>4. CASE \E p \in Pages : Settle(p)
  <2>1. running' \in [Pages -> Calls \union {NoCall}]
    BY <1>4 DEF Settle, CallsInv, CallTypes
  <2>2. QED
    BY <1>4, <2>1, UnchangedCallsInv DEF Settle
<1>5. QED
  BY <1>1, <1>2, <1>3, <1>4 DEF Simulate
-----------------------------------------------------------------------------
(* The page *)

\* What a hook may have been answered.
Values(h) == IF h = "backpressure" THEN BOOLEAN ELSE [Types -> Nat]

ClickRecords == [page : Pages, value : BOOLEAN, arrived : BOOLEAN, waiting : BOOLEAN]

PageTypes ==
  /\ enabled \in BOOLEAN
  /\ shown \in [Pages -> [backpressure : BOOLEAN, groups : [Types -> Nat] \union {Unknown}]]
  /\ \A x \in Polls : poll[x] # <<>> => poll[x][1] \in Values(x[2])
  /\ DOMAIN poll = Polls
  /\ clicks \in Seq(ClickRecords)
  /\ inTurn \in BOOLEAN

\* Of clicks made in turn only the last one may be open; once it has arrived, the
\* switch is what it asked for.
TurnInv ==
  inTurn =>
    /\ \A c \in DOMAIN clicks : OpenClick(c) => c = Len(clicks)
    /\ clicks # <<>> /\ clicks[Len(clicks)].arrived => enabled = clicks[Len(clicks)].value

DInv == CallsInv /\ PageTypes /\ TurnInv

LEMMA PollFacts ==
  ASSUME NEW x \in Polls
  PROVE  x[1] \in Pages /\ x[2] \in Hooks
BY DEF Polls

LEMMA InitDInv == DInit => DInv
<1> SUFFICES ASSUME DInit PROVE DInv
  OBVIOUS
<1>1. PageTypes
  BY DEF DInit, PageTypes
<1>2. TurnInv
  BY DEF DInit, TurnInv
<1>3. QED
  BY <1>1, <1>2, InitCallsInv DEF DInit, DInv

LEMMA UnchangedCalls ==
  ASSUME DInv, UNCHANGED vars
  PROVE  CallsInv'
BY UnchangedCallsInv DEF DInv, CallsInv, CallTypes, vars

LEMMA AskDInv ==
  ASSUME DInv, NEW x \in Polls, Ask(x)
  PROVE  DInv'
<1>1. CallsInv'
  BY UnchangedCalls DEF Ask
<1>2. Real[x[2]] \in Values(x[2])
  <2>1. enabled \in BOOLEAN /\ activeCount \in [Types -> Nat]
    BY DEF DInv, PageTypes, CallsInv, CallTypes
  <2>2. QED
    BY <2>1, PollFacts DEF Real, Values, Hooks
<1>3. PageTypes'
  BY <1>2 DEF Ask, DInv, PageTypes
<1>4. TurnInv'
  BY DEF Ask, DInv, TurnInv, OpenClick
<1>5. QED
  BY <1>1, <1>3, <1>4 DEF DInv

LEMMA ShowDInv ==
  ASSUME DInv, NEW x \in Polls, Show(x)
  PROVE  DInv'
<1>1. CallsInv'
  BY UnchangedCalls DEF Show
<1>2. x[1] \in Pages /\ x[2] \in Hooks /\ poll[x][1] \in Values(x[2])
  BY PollFacts DEF Show, DInv, PageTypes
<1>3. shown' \in [Pages -> [backpressure : BOOLEAN, groups : [Types -> Nat] \union {Unknown}]]
  <2>1. shown' = [shown EXCEPT ![x[1]] = [shown[x[1]] EXCEPT ![x[2]] = poll[x][1]]]
    BY DEF Show
  <2>2. CASE x[2] = "backpressure"
    BY <1>2, <2>1, <2>2 DEF DInv, PageTypes, Values
  <2>3. CASE x[2] = "groups"
    BY <1>2, <2>1, <2>3 DEF DInv, PageTypes, Values
  <2>4. QED
    BY <1>2, <2>2, <2>3 DEF Hooks
<1>4. PageTypes'
  BY <1>3 DEF Show, DInv, PageTypes
<1>5. TurnInv'
  BY DEF Show, DInv, TurnInv, OpenClick
<1>6. QED
  BY <1>1, <1>4, <1>5 DEF DInv

LEMMA ToggleDInv ==
  ASSUME DInv, NEW p \in Pages, Toggle(p)
  PROVE  DInv'
<1> DEFINE click == [page |-> p, value |-> ~shown[p].backpressure,
                     arrived |-> FALSE, waiting |-> TRUE]
<1>1. CallsInv'
  BY UnchangedCalls DEF Toggle
<1>2. click \in ClickRecords /\ clicks \in Seq(ClickRecords) /\ shown[p].backpressure \in BOOLEAN
  BY DEF DInv, PageTypes, ClickRecords
<1>3. clicks' = Append(clicks, click)
  BY DEF Toggle
<1>4. ~click.arrived
  OBVIOUS
<1> HIDE DEF click
<1>5. /\ clicks' \in Seq(ClickRecords) /\ Len(clicks') = Len(clicks) + 1
      /\ clicks'[Len(clicks')] = click /\ Len(clicks) \in Nat
      /\ \A c \in 1..Len(clicks) : clicks'[c] = clicks[c]
  BY <1>2, <1>3
<1>6. PageTypes'
  <2>1. shown' \in [Pages -> [backpressure : BOOLEAN, groups : [Types -> Nat] \union {Unknown}]]
    BY DEF Toggle, DInv, PageTypes
  <2>2. QED
    BY <1>5, <2>1 DEF Toggle, DInv, PageTypes
<1>7. TurnInv'
  <2> SUFFICES ASSUME inTurn'
               PROVE  /\ \A c \in DOMAIN clicks' : OpenClick(c)' => c = Len(clicks')
                      /\ ~clicks'[Len(clicks')].arrived
    BY DEF TurnInv
  <2>1. \A c \in DOMAIN clicks : ~OpenClick(c)
    BY DEF Toggle
  <2>2. \A c \in 1..Len(clicks) : ~OpenClick(c)'
    BY <1>2, <1>5, <2>1 DEF OpenClick
  <2>3. QED
    BY <1>4, <1>5, <2>2
<1>8. QED
  BY <1>1, <1>6, <1>7 DEF DInv

\* A POST of the switch arrives, is answered, or is lost on its way.
LEMMA ClickFacts ==
  ASSUME DInv, NEW c \in DOMAIN clicks, NEW field \in {"arrived", "waiting"},
         NEW value \in BOOLEAN, clicks' = [clicks EXCEPT ![c][field] = value]
  PROVE  /\ clicks' \in Seq(ClickRecords) /\ Len(clicks') = Len(clicks)
         /\ DOMAIN clicks' = DOMAIN clicks
         /\ \A d \in DOMAIN clicks :
              /\ clicks[d] \in ClickRecords
              /\ clicks'[d] = IF d = c THEN [clicks[d] EXCEPT ![field] = value] ELSE clicks[d]
              /\ clicks'[d].value = clicks[d].value
<1>1. clicks \in Seq(ClickRecords) /\ c \in 1..Len(clicks) /\ clicks[c] \in ClickRecords
  BY DEF DInv, PageTypes
<1>2. clicks' = [clicks EXCEPT ![c] = [clicks[c] EXCEPT ![field] = value]]
  OBVIOUS
<1>3. /\ [clicks[c] EXCEPT ![field] = value] \in ClickRecords
      /\ [clicks[c] EXCEPT ![field] = value].value = clicks[c].value
  BY <1>1 DEF ClickRecords
<1>4. clicks' \in Seq(ClickRecords) /\ Len(clicks') = Len(clicks)
  BY <1>1, <1>2, <1>3
<1>5. DOMAIN clicks' = DOMAIN clicks
  BY <1>2
<1>6. ASSUME NEW d \in DOMAIN clicks
      PROVE  /\ clicks[d] \in ClickRecords
             /\ clicks'[d] = IF d = c THEN [clicks[d] EXCEPT ![field] = value] ELSE clicks[d]
  <2> DEFINE new == [clicks[c] EXCEPT ![field] = value]
  <2>1. clicks[d] \in ClickRecords
    BY <1>1
  <2>2. clicks' = [clicks EXCEPT ![c] = new]
    BY <1>2
  <2> HIDE DEF new
  <2>3. clicks'[d] = IF d = c THEN new ELSE clicks[d]
    BY <2>2
  <2>4. QED
    BY <2>1, <2>3 DEF new
<1>7. ASSUME NEW d \in DOMAIN clicks
      PROVE  clicks'[d].value = clicks[d].value
  BY <1>3, <1>6
<1>8. QED
  BY <1>4, <1>5, <1>6, <1>7

LEMMA SetEnabledDInv ==
  ASSUME DInv, NEW c \in DOMAIN clicks, SetEnabled(c)
  PROVE  DInv'
<1>1. CallsInv'
  BY UnchangedCalls DEF SetEnabled
<1>2. clicks' = [clicks EXCEPT ![c]["arrived"] = TRUE] /\ enabled' = clicks[c].value
  BY DEF SetEnabled
<1>3. /\ clicks' \in Seq(ClickRecords) /\ Len(clicks') = Len(clicks)
      /\ DOMAIN clicks' = DOMAIN clicks
      /\ clicks[c] \in ClickRecords
      /\ \A d \in DOMAIN clicks :
           /\ clicks'[d] = IF d = c THEN [clicks[d] EXCEPT !["arrived"] = TRUE] ELSE clicks[d]
           /\ clicks'[d].value = clicks[d].value
  BY <1>2, ClickFacts
<1>4. PageTypes'
  BY <1>2, <1>3 DEF SetEnabled, DInv, PageTypes, ClickRecords
<1>5. TurnInv'
  <2> SUFFICES ASSUME inTurn' PROVE TurnInv'
    BY DEF TurnInv
  <2>1. c = Len(clicks)
    BY DEF SetEnabled, DInv, TurnInv, OpenClick
  <2>2. \A d \in DOMAIN clicks : d # c => ~OpenClick(d)'
    BY <1>3, <2>1 DEF SetEnabled, DInv, TurnInv, OpenClick
  <2>3. QED
    BY <1>2, <1>3, <2>1, <2>2 DEF TurnInv
<1>6. QED
  BY <1>1, <1>4, <1>5 DEF DInv

LEMMA SettledDInv ==
  ASSUME DInv, NEW c \in DOMAIN clicks, Answered(c) \/ Revert(c)
  PROVE  DInv'
<1>1. CallsInv'
  BY UnchangedCalls DEF Answered, Revert
<1>2. clicks' = [clicks EXCEPT ![c]["waiting"] = FALSE] /\ UNCHANGED <<enabled, poll, inTurn>>
  BY DEF Answered, Revert
<1>3. /\ clicks' \in Seq(ClickRecords) /\ Len(clicks') = Len(clicks)
      /\ DOMAIN clicks' = DOMAIN clicks
      /\ \A d \in DOMAIN clicks :
           /\ clicks[d] \in ClickRecords
           /\ clicks'[d] = IF d = c THEN [clicks[d] EXCEPT !["waiting"] = FALSE] ELSE clicks[d]
           /\ clicks'[d].value = clicks[d].value
  BY <1>2, ClickFacts
<1>4. shown' \in [Pages -> [backpressure : BOOLEAN, groups : [Types -> Nat] \union {Unknown}]]
  <2>1. clicks[c].page \in Pages /\ clicks[c].value \in BOOLEAN
    BY <1>3 DEF ClickRecords
  <2>2. CASE Answered(c)
    BY <2>2 DEF Answered, DInv, PageTypes
  <2>3. CASE Revert(c)
    <3> DEFINE v == ~clicks[c].value
               q == clicks[c].page
    <3>1. v \in BOOLEAN /\ q \in Pages
      BY <2>1
    <3>2. shown' = [shown EXCEPT ![q] = [shown[q] EXCEPT !.backpressure = v]]
      BY <2>3 DEF Revert
    <3> HIDE DEF v, q
    <3>3. QED
      BY <3>1, <3>2 DEF DInv, PageTypes
  <2>4. QED
    BY <2>2, <2>3
<1>5. PageTypes'
  BY <1>2, <1>3, <1>4 DEF DInv, PageTypes
<1>6. \A d \in DOMAIN clicks : /\ clicks'[d].arrived = clicks[d].arrived
                              /\ OpenClick(d)' => OpenClick(d)
  BY <1>3 DEF OpenClick, ClickRecords
<1>7. TurnInv'
  BY <1>2, <1>3, <1>6 DEF DInv, PageTypes, TurnInv
<1>8. QED
  BY <1>1, <1>5, <1>7 DEF DInv

LEMMA NextDInv ==
  ASSUME DInv, [DNext]_dvars
  PROVE  DInv'
<1>1. CASE Simulate
  <2>1. CallsInv'
    BY <1>1, SimulateCallsInv DEF DInv
  <2>2. PageTypes' /\ TurnInv'
    BY <1>1 DEF Simulate, DInv, PageTypes, TurnInv, OpenClick
  <2>3. QED
    BY <2>1, <2>2 DEF DInv
<1>2. CASE UNCHANGED dvars
  <2>1. CallsInv'
    BY <1>2, UnchangedCalls DEF dvars
  <2>2. PageTypes' /\ TurnInv'
    BY <1>2 DEF dvars, DInv, PageTypes, TurnInv, OpenClick
  <2>3. QED
    BY <2>1, <2>2 DEF DInv
<1>3. QED
  BY <1>1, <1>2, AskDInv, ShowDInv, ToggleDInv, SetEnabledDInv, SettledDInv DEF DNext

LEMMA AlwaysDInv == DSpec => []DInv
BY InitDInv, NextDInv, PTL DEF DSpec

-----------------------------------------------------------------------------
(* The theorems *)

\* A page shows a switch that is on or off, and a count of each type or, before the
\* first answer, none: a click of any page is a POST of one of the two.
THEOREM DashboardTypes == DSpec => []TypeOK
<1>1. DInv => TypeOK
  BY DEF DInv, CallsInv, CallTypes, PageTypes, TypeOK, ClickRecords
<1>2. QED
  BY <1>1, AlwaysDInv, PTL

\* The load of a call that was alone goes to the servers it asked for, and is not
\* refused, whatever was given up, lost or late before it.
THEOREM AloneAsAsked == DSpec => []AsAskedIfAlone
<1>1. ASSUME DInv, NEW r \in Calls \ disturbed
      PROVE  /\ reply[r] = "pending" => Holds(r)
             /\ answer[r] # "409"
  <2>1. CallInv(r) /\ KeptActive
    BY <1>1 DEF DInv, CallsInv
  <2>2. QED
    BY <2>1 DEF CallInv, KeptActive, Open
<1>2. DInv => AsAskedIfAlone
  BY <1>1 DEF AsAskedIfAlone
<1>3. QED
  BY <1>2, AlwaysDInv, PTL

\* Clicks in turn leave the switch at what the last one asked for.
THEOREM LastClickSet == DSpec => []LastClickWins
<1>1. ASSUME DInv, inTurn, clicks # <<>>, \A c \in DOMAIN clicks : ~OpenClick(c)
      PROVE  enabled = clicks[Len(clicks)].value
  <2>1. Len(clicks) \in DOMAIN clicks /\ clicks[Len(clicks)] \in ClickRecords
    BY <1>1 DEF DInv, PageTypes
  <2>2. clicks[Len(clicks)].arrived
    BY <1>1, <2>1 DEF OpenClick
  <2>3. QED
    BY <1>1, <2>2 DEF DInv, TurnInv
<1>2. DInv => LastClickWins
  BY <1>1 DEF LastClickWins
<1>3. QED
  BY <1>2, AlwaysDInv, PTL

-----------------------------------------------------------------------------
(* The scraper: what it has under way, and the status *)

ScrapeTypes ==
  /\ target \in {"up", "empty", "down"}
  /\ since \in Nat
  /\ nextIn \in 0..Interval
  /\ scrapes \subseteq [left : 0..Timeout, response : Answers \union {"none", "lost"}]
  /\ healthy \in BOOLEAN

\* Scrapes were called an interval apart or more, the last of them when the
\* interval last fired.
SpacedInv ==
  /\ \A s \in scrapes : s.left <= Timeout - (Interval - nextIn)
  /\ \A s, t \in scrapes : s # t => s.left - t.left >= Interval \/ t.left - s.left >= Interval

\* A scrape of a target that is not down, lost all the same, was lost before the
\* target recovered.
LateFailures ==
  target # "down" => \A s \in scrapes : s.response = "lost" => since + s.left <= Timeout

\* While the target is not down, a status that is still unhealthy is about to be
\* corrected, even if the last failure came after every answer: by a scrape under
\* way that is not lost, or by the one the interval is about to call.
RecoveryInv ==
  target # "down" /\ ~healthy =>
    \/ \E s \in scrapes : s.response # "lost" /\ since + s.left <= Horizon
    \/ since + nextIn <= Timeout + Interval

\* An answer on its way from a target that is down was given before it went down.
LateAnswers ==
  target = "down" => \A s \in scrapes : s.response \in Answers => since + s.left <= Timeout

\* While the target is down, a status that is still healthy is about to be
\* corrected, even if the last answer overtook every failure.
OutageInv ==
  target = "down" /\ healthy =>
    \/ \E s \in scrapes : s.response \notin Answers /\ since + s.left <= Horizon
    \/ since + nextIn <= Timeout + Interval

SInv ==
  /\ ScrapeTypes /\ SpacedInv
  /\ LateFailures /\ RecoveryInv /\ LateAnswers /\ OutageInv

LEMMA InitSInv == SInit => SInv
<1> SUFFICES ASSUME SInit PROVE SInv
  OBVIOUS
<1>1. ScrapeTypes
  <2>1. Called \in [left : 0..Timeout, response : Answers \union {"none", "lost"}]
    BY ScraperAssumption DEF Called, Answers
  <2>2. scrapes = {Called} /\ nextIn = Interval /\ since = 0
    BY DEF SInit
  <2>3. since \in Nat /\ nextIn \in 0..Interval
    BY <2>2, ScraperAssumption
  <2>4. target \in {"up", "empty", "down"} /\ healthy \in BOOLEAN
    BY DEF SInit
  <2>5. scrapes \subseteq [left : 0..Timeout, response : Answers \union {"none", "lost"}]
    BY <2>1, <2>2
  <2>6. QED
    BY <2>3, <2>4, <2>5 DEF ScrapeTypes
<1>2. SpacedInv /\ LateAnswers /\ LateFailures
  BY ScraperAssumption DEF SInit, Called, SpacedInv, LateAnswers, LateFailures, Answers
<1>3. since + nextIn <= Timeout + Interval /\ ~healthy
  BY ScraperAssumption DEF SInit
<1>4. QED
  BY <1>1, <1>2, <1>3 DEF SInv, RecoveryInv, OutageInv

-----------------------------------------------------------------------------
(* One lemma per action *)

LEMMA TurnSInv ==
  ASSUME SInv, NEW state \in {"up", "empty", "down"}, Turn(state)
  PROVE  SInv'
<1>1. ScrapeTypes' /\ SpacedInv'
  BY DEF SInv, ScrapeTypes, SpacedInv, Turn
<1>2. nextIn' \in 0..Interval /\ since' = 0
  BY DEF SInv, ScrapeTypes, Turn
<1>3. \A s \in scrapes' : s.left \in 0..Timeout
  BY <1>1 DEF ScrapeTypes
<1>4. RecoveryInv' /\ OutageInv'
  <2> DEFINE n == nextIn'
  <2>0. n \in 0..Interval /\ since' = 0
    BY <1>2
  <2> HIDE DEF n
  <2>1. since' + n <= Timeout + Interval
    BY <2>0, ScraperAssumption
  <2>2. QED
    BY <2>1 DEF RecoveryInv, OutageInv, n
<1>5. LateAnswers' /\ LateFailures'
  BY <1>2, <1>3, ScraperAssumption DEF LateAnswers, LateFailures
<1>6. QED
  BY <1>1, <1>4, <1>5 DEF SInv

\* What is needed of an answer: the scrape it answers keeps its time.
LEMMA RespondSInv ==
  ASSUME SInv, NEW s \in scrapes, Respond(s)
  PROVE  SInv'
<1> DEFINE r == [s EXCEPT !.response = IF target = "up" THEN "200" ELSE "204"]
<1>0. s \in [left : 0..Timeout, response : Answers \union {"none", "lost"}]
  BY DEF SInv, ScrapeTypes
<1>1. /\ scrapes' = (scrapes \ {s}) \union {r}
      /\ UNCHANGED <<target, since, nextIn, healthy>>
      /\ target # "down" /\ s.response = "none"
  BY DEF Respond
<1>2. /\ r \in [left : 0..Timeout, response : Answers \union {"none", "lost"}]
      /\ r.left = s.left /\ r.response # "lost"
  BY <1>0 DEF Answers
<1> HIDE DEF r
<1>3. ScrapeTypes'
  BY <1>1, <1>2 DEF SInv, ScrapeTypes
<1>4. SpacedInv'
  BY <1>1, <1>2 DEF SInv, SpacedInv
<1>5. RecoveryInv' /\ LateFailures'
  BY <1>1, <1>2 DEF SInv, RecoveryInv, LateFailures
<1>6. LateAnswers' /\ OutageInv'
  BY <1>1 DEF LateAnswers, OutageInv
<1>7. QED
  BY <1>3, <1>4, <1>5, <1>6 DEF SInv

\* A scrape is lost while the target is down: it is not awaited as an answer then,
\* and its failure is no worse than any other.
LEMMA LoseSInv ==
  ASSUME SInv, NEW s \in scrapes, Lose(s)
  PROVE  SInv'
<1> DEFINE r == [s EXCEPT !.response = "lost"]
<1>0. s \in [left : 0..Timeout, response : Answers \union {"none", "lost"}]
  BY DEF SInv, ScrapeTypes
<1>1. /\ scrapes' = (scrapes \ {s}) \union {r}
      /\ UNCHANGED <<target, since, nextIn, healthy>>
      /\ target = "down"
  BY DEF Lose
<1>2. /\ r \in [left : 0..Timeout, response : Answers \union {"none", "lost"}]
      /\ r.left = s.left /\ r.response \notin Answers
  BY <1>0 DEF Answers
<1> HIDE DEF r
<1>3. ScrapeTypes'
  BY <1>1, <1>2 DEF SInv, ScrapeTypes
<1>4. SpacedInv'
  BY <1>1, <1>2 DEF SInv, SpacedInv
<1>5. RecoveryInv' /\ LateFailures'
  BY <1>1 DEF RecoveryInv, LateFailures
<1>6. LateAnswers'
  BY <1>1, <1>2 DEF SInv, LateAnswers
<1>7. OutageInv'
  BY <1>1, <1>2 DEF SInv, OutageInv
<1>8. QED
  BY <1>3, <1>4, <1>5, <1>6, <1>7 DEF SInv

LEMMA ScrapeAllSInv ==
  ASSUME SInv, ScrapeAll
  PROVE  SInv'
<1>1. /\ nextIn = 0 /\ nextIn' = Interval
      /\ scrapes' = scrapes \union {Called}
      /\ UNCHANGED <<target, since, healthy>>
  BY DEF ScrapeAll
<1>2. Called \in [left : 0..Timeout, response : Answers \union {"none", "lost"}]
  BY ScraperAssumption DEF Called, Answers
<1>3. Called.left = Timeout /\ Called.response = "none"
  BY DEF Called
<1>4. ScrapeTypes'
  BY <1>1, <1>2, ScraperAssumption DEF SInv, ScrapeTypes
<1>t. \A s \in scrapes : s.left \in 0..Timeout
  BY DEF SInv, ScrapeTypes
<1>s. since \in Nat
  BY DEF SInv, ScrapeTypes
<1>5. SpacedInv'
  <2>1. \A s \in scrapes : s.left <= Timeout - Interval
    BY <1>1, ScraperAssumption DEF SInv, SpacedInv
  <2>2. \A s \in scrapes' : s.left <= Timeout - (Interval - nextIn')
    BY <1>1, <1>3, <1>t, <2>1, ScraperAssumption
  <2>3. \A s \in scrapes : Called.left - s.left >= Interval
    BY <1>3, <1>t, <2>1, ScraperAssumption
  <2>4. QED
    BY <1>1, <2>2, <2>3 DEF SInv, SpacedInv
<1>6. RecoveryInv'
  <2>1. since + 0 <= Timeout + Interval => since + Called.left <= Horizon
    BY <1>3, <1>s, ScraperAssumption DEF Awaited, Horizon
  <2>2. QED
    BY <1>1, <1>3, <2>1 DEF SInv, RecoveryInv
<1>7. LateAnswers' /\ LateFailures'
  BY <1>1, <1>3 DEF SInv, LateAnswers, LateFailures, Answers
<1>8. OutageInv'
  <2>1. since + 0 <= Timeout + Interval => since + Called.left <= Horizon
    BY <1>3, <1>s, ScraperAssumption DEF Awaited, Horizon
  <2>2. QED
    BY <1>1, <1>3, <2>1 DEF SInv, OutageInv, Answers
<1>9. QED
  BY <1>4, <1>5, <1>6, <1>7, <1>8 DEF SInv

\* A scrape that ends with an answer: it was given at most Timeout ago.
LEMMA SucceedSInv ==
  ASSUME SInv, NEW s \in scrapes, Succeed(s)
  PROVE  SInv'
<1>1. /\ scrapes' = scrapes \ {s} /\ healthy' = TRUE
      /\ UNCHANGED <<target, since, nextIn>>
      /\ s.response \in Answers
  BY DEF Succeed
<1>2. ScrapeTypes' /\ SpacedInv' /\ RecoveryInv' /\ LateAnswers' /\ LateFailures'
  BY <1>1 DEF SInv, ScrapeTypes, SpacedInv, RecoveryInv, LateAnswers, LateFailures
<1>3. OutageInv'
  <2>1. s.left \in 0..Timeout /\ since \in Nat /\ nextIn \in 0..Interval
    BY DEF SInv, ScrapeTypes
  <2>2. target = "down" => since + s.left <= Timeout
    BY <1>1 DEF SInv, LateAnswers
  <2>3. target = "down" => since + nextIn <= Timeout + Interval
    BY <2>1, <2>2, ScraperAssumption
  <2>4. QED
    BY <1>1, <2>3 DEF OutageInv
<1>4. QED
  BY <1>2, <1>3 DEF SInv

\* A scrape that fails after the target has recovered was lost at most Timeout ago:
\* the next one is called within an interval.
LEMMA FailSInv ==
  ASSUME SInv, NEW s \in scrapes, Fail(s)
  PROVE  SInv'
<1>1. /\ scrapes' = scrapes \ {s} /\ healthy' = FALSE
      /\ UNCHANGED <<target, since, nextIn>>
      /\ target # "down" => s.response = "lost"
  BY DEF Fail, Fails
<1>2. ScrapeTypes' /\ SpacedInv' /\ OutageInv' /\ LateAnswers' /\ LateFailures'
  BY <1>1 DEF SInv, ScrapeTypes, SpacedInv, OutageInv, LateAnswers, LateFailures
<1>3. RecoveryInv'
  <2>1. s.left \in 0..Timeout /\ since \in Nat /\ nextIn \in 0..Interval
    BY DEF SInv, ScrapeTypes
  <2>2. target # "down" => since + s.left <= Timeout
    BY <1>1 DEF SInv, LateFailures
  <2>3. target # "down" => since + nextIn <= Timeout + Interval
    BY <2>1, <2>2, ScraperAssumption
  <2>4. QED
    BY <1>1, <2>3 DEF RecoveryInv
<1>4. QED
  BY <1>2, <1>3 DEF SInv

\* A tick takes one from the time of every scrape and of the interval, and adds it
\* to the time the target has been what it is.
LEMMA TickSInv ==
  ASSUME SInv, Tick
  PROVE  SInv'
<1> DEFINE Later(s) == [s EXCEPT !.left = @ - 1]
<1>1. /\ scrapes' = {Later(s) : s \in scrapes}
      /\ nextIn > 0 /\ nextIn' = nextIn - 1
      /\ since' = IF since > Horizon THEN since ELSE since + 1
      /\ UNCHANGED <<target, healthy>>
      /\ \A s \in scrapes : s.left # 0
  BY DEF Tick, SignalFires
<1>t. /\ since \in Nat /\ nextIn \in 0..Interval
      /\ \A s \in scrapes : /\ s \in [left : 0..Timeout, response : Answers \union {"none", "lost"}]
                             /\ s.left \in 0..Timeout
  BY DEF SInv, ScrapeTypes
<1>2. \A s \in scrapes :
        /\ Later(s) \in [left : 0..Timeout, response : Answers \union {"none", "lost"}]
        /\ Later(s).left = s.left - 1
        /\ Later(s).response = s.response
  BY <1>1, <1>t, ScraperAssumption
<1>u. since' \in Nat /\ since' <= since + 1 /\ nextIn' \in 0..Interval
  BY <1>1, <1>t, ScraperAssumption DEF Horizon, Awaited
<1> HIDE DEF Later
<1>3. ScrapeTypes'
  BY <1>1, <1>2, <1>u DEF SInv, ScrapeTypes
<1>4. SpacedInv'
  <2>1. \A s \in scrapes : Later(s).left <= Timeout - (Interval - nextIn')
    BY <1>1, <1>2, <1>t, ScraperAssumption DEF SInv, SpacedInv
  <2>2. ASSUME NEW s \in scrapes, NEW r \in scrapes, Later(s) # Later(r)
        PROVE  \/ Later(s).left - Later(r).left >= Interval
               \/ Later(r).left - Later(s).left >= Interval
    <3>1. s # r /\ s.left \in Int /\ r.left \in Int
      BY <2>2, <1>t
    <3>2. s.left - r.left >= Interval \/ r.left - s.left >= Interval
      BY <3>1 DEF SInv, SpacedInv
    <3>3. QED
      BY <1>2, <3>1, <3>2, ScraperAssumption
  <2>3. QED
    BY <1>1, <2>1, <2>2 DEF SpacedInv
<1>5. RecoveryInv'
  <2> SUFFICES ASSUME target # "down", ~healthy
               PROVE  \/ \E s \in scrapes' : s.response # "lost" /\ since' + s.left <= Horizon
                      \/ since' + nextIn' <= Timeout + Interval
    BY <1>1 DEF RecoveryInv
  <2>1. CASE \E s \in scrapes : s.response # "lost" /\ since + s.left <= Horizon
    <3>1. PICK s \in scrapes : s.response # "lost" /\ since + s.left <= Horizon
      BY <2>1
    <3>2. since' + Later(s).left <= Horizon /\ Later(s).response # "lost"
      BY <1>2, <1>t, <1>u, <3>1, ScraperAssumption DEF Horizon, Awaited
    <3>3. QED
      BY <1>1, <3>2
  <2>2. CASE since + nextIn <= Timeout + Interval
    BY <1>1, <1>t, <1>u, <2>2, ScraperAssumption
  <2>3. QED
    BY <2>1, <2>2 DEF SInv, RecoveryInv
<1>6. LateAnswers'
  <2> SUFFICES ASSUME target = "down", NEW s \in scrapes, s.response \in Answers
               PROVE  since' + Later(s).left <= Timeout
    BY <1>1, <1>2 DEF LateAnswers
  <2>1. since + s.left <= Timeout
    BY DEF SInv, LateAnswers
  <2>2. QED
    BY <1>2, <1>t, <1>u, <2>1, ScraperAssumption
<1>l. LateFailures'
  <2> SUFFICES ASSUME target # "down", NEW s \in scrapes, s.response = "lost"
               PROVE  since' + Later(s).left <= Timeout
    BY <1>1, <1>2 DEF LateFailures
  <2>1. since + s.left <= Timeout
    BY DEF SInv, LateFailures
  <2>2. QED
    BY <1>2, <1>t, <1>u, <2>1, ScraperAssumption
<1>7. OutageInv'
  <2> SUFFICES ASSUME target = "down", healthy
               PROVE  \/ \E s \in scrapes' : s.response \notin Answers /\ since' + s.left <= Horizon
                      \/ since' + nextIn' <= Timeout + Interval
    BY <1>1 DEF OutageInv
  <2>1. CASE \E s \in scrapes : s.response \notin Answers /\ since + s.left <= Horizon
    <3>1. PICK s \in scrapes : s.response \notin Answers /\ since + s.left <= Horizon
      BY <2>1
    <3>2. since' + Later(s).left <= Horizon /\ Later(s).response \notin Answers
      BY <1>2, <1>t, <1>u, <3>1, ScraperAssumption DEF Horizon, Awaited
    <3>3. QED
      BY <1>1, <3>2
  <2>2. CASE since + nextIn <= Timeout + Interval
    BY <1>1, <1>t, <1>u, <2>2, ScraperAssumption
  <2>3. QED
    BY <2>1, <2>2 DEF SInv, OutageInv
<1>8. QED
  BY <1>3, <1>4, <1>5, <1>6, <1>l, <1>7 DEF SInv

LEMMA NextSInv ==
  ASSUME SInv, [SNext]_svars
  PROVE  SInv'
<1>1. CASE \E state \in {"up", "empty", "down"} : Turn(state)
  BY <1>1, TurnSInv
<1>2. CASE ScrapeAll
  BY <1>2, ScrapeAllSInv
<1>3. CASE \E s \in scrapes : Respond(s) \/ Lose(s) \/ Succeed(s) \/ Fail(s)
  BY <1>3, RespondSInv, LoseSInv, SucceedSInv, FailSInv
<1>4. CASE Tick
  BY <1>4, TickSInv
<1>5. CASE UNCHANGED svars
  BY <1>5 DEF svars, SInv, ScrapeTypes, SpacedInv, LateFailures, RecoveryInv,
                  LateAnswers, OutageInv
<1>6. QED
  BY <1>1, <1>2, <1>3, <1>4, <1>5 DEF SNext

-----------------------------------------------------------------------------
(* Counting the scrapes *)

\* Division by n on the times up to m: it keeps the order, and two times an n apart
\* have different quotients.
LEMMA QuotientFacts ==
  ASSUME NEW n \in Nat \ {0}, NEW m \in Nat, NEW a \in 0..m
  PROVE  /\ a \div n \in 0..(m \div n)
         /\ \A b \in 0..m : a \div n = b \div n => a - b < n /\ b - a < n
<1>1. \A x \in 0..m : /\ x \div n \in Nat
                     /\ x = n * (x \div n) + (x % n)
                     /\ x % n \in 0..(n - 1)
  OBVIOUS
<1>2. a \div n <= m \div n
  <2> DEFINE q == a \div n
             r == m \div n
  <2>1. q \in Nat /\ r \in Nat /\ n * q <= a /\ m < n * r + n
    BY <1>1
  <2> HIDE DEF q, r
  <2>2. n * q < n * (r + 1)
    BY <2>1
  <2>3. q < r + 1
    BY <2>1, <2>2
  <2>4. QED
    BY <2>1, <2>3 DEF q, r
<1>3. ASSUME NEW b \in 0..m, a \div n = b \div n
      PROVE  a - b < n /\ b - a < n
  <2> DEFINE q == n * (a \div n)
  <2>1. a = q + (a % n) /\ b = q + (b % n) /\ q \in Int
    BY <1>1, <1>3
  <2> HIDE DEF q
  <2>2. QED
    BY <1>1, <2>1
<1>4. QED
  BY <1>1, <1>2, <1>3

LEMMA SpacedIsBounded == SInv => InFlightBounded
<1> SUFFICES ASSUME SInv PROVE InFlightBounded
  OBVIOUS
<1> DEFINE T == 0..(Timeout \div Interval)
           f == [s \in scrapes |-> s.left \div Interval]
<1>1. \A s \in scrapes : s.left \in 0..Timeout
  BY DEF SInv, ScrapeTypes
<1>2. Timeout \div Interval \in Nat
  BY ScraperAssumption
<1>3. IsFiniteSet(T) /\ Cardinality(T) = Timeout \div Interval + 1
  BY <1>2, FS_Interval
<1>4. f \in [scrapes -> T]
  BY <1>1, QuotientFacts, ScraperAssumption
<1>5. ASSUME NEW s \in scrapes, NEW t \in scrapes, f[s] = f[t]
      PROVE  s = t
  <2>1. s.left - t.left < Interval /\ t.left - s.left < Interval
    BY <1>1, <1>5, QuotientFacts, ScraperAssumption
  <2>2. s.left \in Int /\ t.left \in Int
    BY <1>1
  <2>3. QED
    BY <2>1, <2>2, ScraperAssumption DEF SInv, SpacedInv
<1>6. f \in Injection(scrapes, T)
  BY <1>4, <1>5 DEF Injection, IsInjective
<1>7. Cardinality(scrapes) <= Cardinality(T)
  BY <1>3, <1>6, FS_Injection
<1>8. QED
  BY <1>3, <1>7 DEF InFlightBounded

LEMMA SettledIsCurrent == SInv => StatusCurrent
<1> SUFFICES ASSUME SInv, since > Horizon PROVE healthy <=> target # "down"
  BY DEF StatusCurrent
<1>1. /\ since \in Nat /\ nextIn \in Nat /\ healthy \in BOOLEAN
      /\ \A s \in scrapes : s.left \in Nat
  BY ScraperAssumption DEF SInv, ScrapeTypes
<1>2. ~(target # "down" /\ ~healthy)
  BY <1>1, ScraperAssumption DEF SInv, RecoveryInv, Horizon, Awaited
<1>3. ~(target = "down" /\ healthy)
  BY <1>1, ScraperAssumption DEF SInv, OutageInv, Horizon, Awaited
<1>4. QED
  BY <1>2, <1>3

-----------------------------------------------------------------------------
(* The charts *)

\* The loop of evict() ends at the first entry that is not too old, and leaves the
\* last one where it is.
LEMMA EvictFacts ==
  ASSUME NEW m \in Nat, NEW kept \in Seq(0..m), kept # <<>>, Last(kept) <= Retention
  PROVE  /\ Evict(kept) \in Seq(0..m)
         /\ Evict(kept) # <<>>
         /\ Head(Evict(kept)) <= Retention
         /\ Last(Evict(kept)) = Last(kept)
<1> DEFINE l == Len(kept)
           Recent == {i \in 1..l : kept[i] <= Retention}
           Stops(n) == /\ \A i \in 1..n : kept[i] > Retention
                       /\ n < l => kept[n + 1] <= Retention
           n == CHOOSE k \in 0..l : Stops(k)
<1>1. l \in Nat /\ l > 0 /\ \A i \in 1..l : kept[i] \in 0..m
  BY EmptySeq, ElementOfSeq
<1>2. l \in Recent
  BY <1>1 DEF Last
<1>3. PICK j \in Recent : \A i \in Recent : j <= i
  <2>1. Recent \in SUBSET Nat /\ Recent # {}
    BY <1>2
  <2> HIDE DEF Recent
  <2>2. QED
    BY <2>1, LeastNat
<1>4. j - 1 \in 0..l /\ Stops(j - 1)
  <2>1. j \in 1..l /\ kept[j] <= Retention
    BY <1>3
  <2>2. ASSUME NEW i \in 1..(j - 1) PROVE kept[i] > Retention
    <3>1. i \in 1..l /\ i < j
      BY <2>1, <1>1
    <3>2. ~(kept[i] <= Retention)
      BY <3>1, <1>3, <2>1
    <3>3. kept[i] \in Nat
      BY <3>1, <1>1
    <3>4. QED
      BY <3>2, <3>3, ScraperAssumption
  <2>3. (j - 1) + 1 = j
    BY <2>1
  <2>4. QED
    BY <1>1, <2>1, <2>2, <2>3
<1> HIDE DEF Stops
<1>5. n \in 0..l /\ Stops(n)
  BY <1>4
<1>6. Evict(kept) = SubSeq(kept, n + 1, l)
  BY DEF Evict, Stops
<1> HIDE DEF n
<1>7. n < l
  <2>1. CASE n = l
    <3>1. kept[l] > Retention
      BY <1>1, <1>5, <2>1 DEF Stops
    <3>2. kept[l] \in Nat /\ kept[l] <= Retention
      BY <1>1, <1>2
    <3>3. QED
      BY <3>1, <3>2, ScraperAssumption
  <2>2. QED
    BY <2>1, <1>1, <1>5
<1> HIDE DEF Recent
<1> DEFINE e == SubSeq(kept, n + 1, l)
<1>8. /\ e \in Seq(0..m)
      /\ Len(e) = l - n
      /\ \A i \in 1..(l - n) : e[i] = kept[n + i]
  <2>1. n + 1 \in Int /\ l \in Int /\ n + 1 <= l /\ l - (n + 1) + 1 = l - n
    BY <1>1, <1>5, <1>7
  <2>2. \A i \in (n + 1)..l : kept[i] \in 0..m
    BY <1>1, <1>5
  <2> HIDE DEF l
  <2>3. /\ e \in Seq(0..m)
        /\ Len(e) = l - (n + 1) + 1
        /\ \A i \in 1..(l - (n + 1) + 1) : e[i] = kept[(n + 1) + i - 1]
    BY <2>1, <2>2, SubSeqProperties
  <2>4. \A i \in 1..(l - n) : (n + 1) + i - 1 = n + i
    BY <1>5
  <2>5. QED
    BY <2>1, <2>3, <2>4
<1> HIDE DEF e
<1>9. Len(e) > 0 /\ 1 \in 1..(l - n) /\ Len(e) \in 1..(l - n) /\ n + (l - n) = l
  BY <1>1, <1>5, <1>7, <1>8
<1>10. e[1] <= Retention /\ e[Len(e)] = kept[l]
  <2>1. e[1] = kept[n + 1] /\ e[Len(e)] = kept[n + (l - n)]
    BY <1>8, <1>9
  <2>2. QED
    BY <2>1, <1>5, <1>7, <1>9 DEF Stops
<1>11. e # <<>> /\ Head(e) = e[1]
  BY <1>8, <1>9
<1>12. Evict(kept) = e
  BY <1>6 DEF e
<1>13. QED
  BY <1>8, <1>10, <1>11, <1>12 DEF Last

\* How long ago a chart was last known to be of the target that is up now.
Fresh == IF entries # <<>> /\ Last(entries) < since THEN Last(entries) ELSE since

\* What is kept reaches back no further than the retention from its last entry; and
\* the next entry of a target that is up is about to come, from a scrape under way
\* or from the one the interval is about to call.
ChartInv ==
  /\ entries \in Seq(0..Oldest)
  /\ entries # <<>> => Head(entries) <= Retention + Last(entries)
  /\ target = "up" =>
       \/ \E s \in scrapes : s.response \notin {"204", "lost"} /\ Fresh + s.left <= Awaited
       \/ Fresh + nextIn <= Interval

LEMMA EndsOfEntries ==
  ASSUME ChartInv, entries # <<>>
  PROVE  /\ Head(entries) \in 0..Oldest /\ Head(entries) = entries[1]
         /\ Last(entries) \in 0..Oldest /\ Last(entries) = entries[Len(entries)]
<1> DEFINE S == 0..Oldest
<1>1. entries \in Seq(S)
  BY DEF ChartInv
<1> HIDE DEF S
<1>2. Len(entries) \in Nat /\ Len(entries) > 0
  BY <1>1, EmptySeq
<1>3. 1 \in 1..Len(entries) /\ Len(entries) \in 1..Len(entries)
  BY <1>2
<1>4. entries[1] \in S /\ entries[Len(entries)] \in S
  BY <1>1, <1>3, ElementOfSeq
<1>5. Head(entries) = entries[1]
  BY <1>1
<1>6. QED
  BY <1>4, <1>5 DEF Last, S

LEMMA FreshType == SInv /\ ChartInv => Fresh \in Nat /\ Fresh <= since
<1> SUFFICES ASSUME SInv, ChartInv PROVE Fresh \in Nat /\ Fresh <= since
  OBVIOUS
<1>1. since \in Nat /\ Oldest \in Nat
  BY ScraperAssumption DEF SInv, ScrapeTypes, Oldest, Awaited
<1>2. entries # <<>> => Last(entries) \in 0..Oldest
  BY EndsOfEntries
<1>3. QED
  BY <1>1, <1>2 DEF Fresh

LEMMA InitChartInv == SInit => ChartInv
<1> SUFFICES ASSUME SInit PROVE ChartInv
  OBVIOUS
<1>1. entries = <<>> /\ since = 0 /\ nextIn = Interval
  BY DEF SInit
<1>2. Fresh + nextIn <= Interval
  BY <1>1, ScraperAssumption DEF Fresh
<1>3. entries \in Seq(0..Oldest)
  BY <1>1, EmptySeq
<1>4. QED
  BY <1>1, <1>2, <1>3 DEF ChartInv

LEMMA SucceedChartInv ==
  ASSUME SInv, ChartInv, NEW s \in scrapes, Succeed(s)
  PROVE  ChartInv'
<1>1. /\ scrapes' = scrapes \ {s}
      /\ UNCHANGED <<target, since, nextIn>>
  BY DEF Succeed
<1>2. CASE s.response = "200"
  <2> DEFINE kept == Append(entries, 0)
  <2>1. entries' = Evict(kept)
    BY <1>2 DEF Succeed, Record
  <2>2. Oldest \in Nat /\ 0 \in 0..Oldest /\ Retention >= 0
    BY ScraperAssumption DEF Oldest, Awaited
  <2>3. kept \in Seq(0..Oldest) /\ kept # <<>> /\ Last(kept) = 0
    <3>1. entries \in Seq(0..Oldest)
      BY DEF ChartInv
    <3>2. QED
      BY <2>2, <3>1, AppendProperties DEF Last
  <2> HIDE DEF kept
  <2>4. /\ entries' \in Seq(0..Oldest)
        /\ entries' # <<>>
        /\ Head(entries') <= Retention
        /\ Last(entries') = 0
    BY <2>1, <2>2, <2>3, EvictFacts
  <2>5. Fresh' + nextIn' <= Interval
    <3>1. since \in Nat /\ nextIn \in 0..Interval
      BY DEF SInv, ScrapeTypes
    <3>2. Fresh' = 0
      BY <1>1, <2>4, <3>1 DEF Fresh
    <3>3. nextIn' = nextIn
      BY <1>1
    <3>4. QED
      BY <3>1, <3>2, <3>3, ScraperAssumption
  <2>6. Head(entries') <= Retention + Last(entries')
    BY <2>4, ScraperAssumption
  <2>7. QED
    BY <2>4, <2>5, <2>6 DEF ChartInv
<1>3. CASE s.response = "204"
  <2>1. entries' = entries
    BY <1>3 DEF Succeed
  <2>2. Fresh' = Fresh
    BY <1>1, <2>1 DEF Fresh
  <2>3. QED
    BY <1>1, <1>3, <2>1, <2>2 DEF ChartInv
<1>4. QED
  BY <1>2, <1>3 DEF Succeed, Answers

LEMMA TickChartInv ==
  ASSUME SInv, ChartInv, Tick
  PROVE  ChartInv'
<1> DEFINE Later(s) == [s EXCEPT !.left = @ - 1]
           l == Len(entries)
<1>1. /\ scrapes' = {Later(s) : s \in scrapes}
      /\ nextIn > 0 /\ nextIn' = nextIn - 1
      /\ since' = IF since > Horizon THEN since ELSE since + 1
      /\ entries' = [i \in DOMAIN entries |-> Older(entries[i])]
      /\ UNCHANGED target
      /\ \A s \in scrapes : s.left # 0
  BY DEF Tick, SignalFires
<1>2. /\ since \in Nat /\ nextIn \in 0..Interval /\ Oldest \in Nat
      /\ \A s \in scrapes : /\ s \in [left : 0..Timeout, response : Answers \union {"none", "lost"}]
                            /\ s.left \in 0..Timeout
  BY ScraperAssumption DEF SInv, ScrapeTypes, Oldest, Awaited
<1>3. \A s \in scrapes : Later(s).left = s.left - 1 /\ Later(s).response = s.response
  BY <1>2
<1> HIDE DEF Later
<1>4. l \in Nat /\ DOMAIN entries = 1..l /\ \A i \in 1..l : entries[i] \in 0..Oldest
  BY LenProperties, ElementOfSeq DEF ChartInv
<1>5. \A a \in 0..Oldest : Older(a) \in 0..Oldest /\ Older(a) <= a + 1
                           /\ (a # Oldest => Older(a) = a + 1) /\ (a = Oldest => Older(a) = Oldest)
  BY <1>2 DEF Older
<1>6. /\ entries' \in Seq(0..Oldest)
      /\ Len(entries') = l
      /\ \A i \in 1..l : entries'[i] = Older(entries[i])
  <2>1. entries' = [i \in 1..l |-> Older(entries[i])]
    BY <1>1, <1>4
  <2>2. \A i \in 1..l : Older(entries[i]) \in 0..Oldest
    BY <1>4, <1>5
  <2> HIDE DEF l
  <2>3. QED
    BY <1>4, <2>1, <2>2
<1>7. entries' # <<>> <=> entries # <<>>
  BY <1>4, <1>6, EmptySeq DEF ChartInv
<1>8. entries # <<>> => /\ 1 \in 1..l /\ l \in 1..l
                        /\ Head(entries) = entries[1] /\ Last(entries) = entries[l]
                        /\ Head(entries') = Older(entries[1])
                        /\ Last(entries') = Older(entries[l])
  <2> SUFFICES ASSUME entries # <<>> PROVE
                 /\ 1 \in 1..l /\ l \in 1..l
                 /\ Head(entries) = entries[1] /\ Last(entries) = entries[l]
                 /\ Head(entries') = Older(entries[1])
                 /\ Last(entries') = Older(entries[l])
    OBVIOUS
  <2>1. l > 0
    BY <1>4, EmptySeq DEF ChartInv
  <2>2. 1 \in 1..l /\ l \in 1..l
    BY <1>4, <2>1
  <2>3. Head(entries') = entries'[1] /\ Last(entries') = entries'[l] /\ Head(entries) = entries[1]
    BY <1>6, <1>7, <2>2 DEF Last
  <2>4. QED
    BY <1>6, <2>2, <2>3 DEF Last
<1> HIDE DEF l
<1>9. entries' # <<>> => Head(entries') <= Retention + Last(entries')
  <2> SUFFICES ASSUME entries # <<>>
               PROVE  Older(entries[1]) <= Retention + Older(entries[l])
    BY <1>7, <1>8
  <2>1. entries[1] \in 0..Oldest /\ entries[l] \in 0..Oldest /\ entries[1] <= Retention + entries[l]
    BY <1>4, <1>8 DEF ChartInv
  <2> DEFINE a == entries[1]
             b == entries[l]
  <2>2. /\ a \in 0..Oldest /\ b \in 0..Oldest /\ a <= Retention + b
        /\ Older(a) \in 0..Oldest /\ Older(a) <= a + 1
        /\ (b # Oldest => Older(b) = b + 1) /\ (b = Oldest => Older(b) = Oldest)
    BY <1>5, <2>1
  <2> HIDE DEF a, b
  <2>3. b = Oldest => Older(a) <= Retention + Older(b)
    BY <1>2, <2>2, ScraperAssumption
  <2>4. b # Oldest => Older(a) <= Retention + Older(b)
    BY <1>2, <2>2, ScraperAssumption
  <2>5. QED
    BY <2>3, <2>4 DEF a, b
<1>10. Fresh' <= Fresh + 1 /\ Fresh' \in Nat /\ Fresh \in Nat
  <2>1. since' \in Nat /\ since' <= since + 1
    BY <1>1, <1>2, ScraperAssumption DEF Horizon, Awaited
  <2>2. CASE entries = <<>>
    BY <2>1, <2>2, <1>2, <1>7 DEF Fresh
  <2>3. CASE entries # <<>>
    <3>1. /\ Last(entries) \in 0..Oldest /\ Last(entries') \in 0..Oldest
          /\ Last(entries') <= Last(entries) + 1
      BY <1>4, <1>5, <1>8, <2>3
    <3>2. QED
      BY <2>1, <2>3, <3>1, <1>2, <1>7 DEF Fresh
  <2>4. QED
    BY <2>2, <2>3
<1>11. ASSUME target = "up"
       PROVE  \/ \E s \in scrapes' : s.response \notin {"204", "lost"} /\ Fresh' + s.left <= Awaited
              \/ Fresh' + nextIn' <= Interval
  <2>1. CASE \E s \in scrapes : s.response \notin {"204", "lost"} /\ Fresh + s.left <= Awaited
    <3>1. PICK s \in scrapes : s.response \notin {"204", "lost"} /\ Fresh + s.left <= Awaited
      BY <2>1
    <3>2. Later(s).response \notin {"204", "lost"} /\ Fresh' + Later(s).left <= Awaited
      BY <1>2, <1>3, <1>10, <3>1, ScraperAssumption DEF Awaited
    <3>3. QED
      BY <1>1, <3>2
  <2>2. CASE Fresh + nextIn <= Interval
    <3> DEFINE now == Fresh
               then == Fresh'
               next == nextIn'
    <3>1. now + nextIn <= Interval /\ then <= now + 1 /\ then \in Nat /\ now \in Nat
      BY <1>10, <2>2
    <3>2. nextIn \in Nat /\ next = nextIn - 1
      BY <1>1, <1>2, ScraperAssumption
    <3> HIDE DEF now, then, next
    <3>3. then + next <= Interval
      BY <3>1, <3>2, ScraperAssumption
    <3>4. QED
      BY <3>3 DEF then, next
  <2>3. QED
    BY <1>11, <2>1, <2>2 DEF ChartInv
<1>12. QED
  BY <1>1, <1>6, <1>9, <1>11 DEF ChartInv

LEMMA NextChartInv ==
  ASSUME SInv, ChartInv, [SNext]_svars
  PROVE  ChartInv'
<1>0. since \in Nat /\ nextIn \in 0..Interval
  BY DEF SInv, ScrapeTypes
<1>1. ASSUME NEW state \in {"up", "empty", "down"}, Turn(state)
      PROVE  ChartInv'
  <2>1. since' = 0 /\ UNCHANGED <<nextIn, entries>>
    BY <1>1 DEF Turn
  <2>2. entries # <<>> => Last(entries) \in 0..Oldest
    BY EndsOfEntries
  <2>3. Fresh' = 0
    <3>1. since' = 0 /\ entries' = entries
      BY <2>1
    <3>2. entries # <<>> => ~(Last(entries) < 0)
      BY <2>2, ScraperAssumption DEF Oldest, Awaited
    <3>3. QED
      BY <3>1, <3>2 DEF Fresh
  <2>4. Fresh' + nextIn' <= Interval
    <3>1. nextIn' = nextIn
      BY <2>1
    <3>2. QED
      BY <2>3, <3>1, <1>0, ScraperAssumption
  <2>5. QED
    BY <2>1, <2>4 DEF ChartInv
<1>2. CASE ScrapeAll
  <2>1. /\ nextIn = 0 /\ scrapes' = scrapes \union {Called}
        /\ UNCHANGED <<target, since, entries>>
    BY <1>2 DEF ScrapeAll
  <2>2. Fresh' = Fresh /\ Fresh \in Nat
    BY <2>1, FreshType DEF Fresh
  <2>3. Fresh + 0 <= Interval => Called.response \notin {"204", "lost"} /\ Fresh + Called.left <= Awaited
    BY <2>2, ScraperAssumption DEF Called, Awaited
  <2>4. QED
    BY <2>1, <2>2, <2>3 DEF ChartInv
<1>3. ASSUME NEW s \in scrapes, Respond(s)
      PROVE  ChartInv'
  <2> DEFINE r == [s EXCEPT !.response = IF target = "up" THEN "200" ELSE "204"]
  <2>1. /\ scrapes' = (scrapes \ {s}) \union {r}
        /\ UNCHANGED <<target, since, nextIn, entries>>
    BY <1>3 DEF Respond
  <2>2. r.left = s.left /\ (target = "up" => r.response = "200")
    BY DEF SInv, ScrapeTypes
  <2> HIDE DEF r
  <2>3. Fresh' = Fresh
    BY <2>1 DEF Fresh
  <2>4. QED
    BY <2>1, <2>2, <2>3 DEF ChartInv
<1>4. ASSUME NEW s \in scrapes, Fail(s)
      PROVE  ChartInv'
  <2>1. /\ scrapes' = scrapes \ {s} /\ UNCHANGED <<target, since, nextIn, entries>>
        /\ target = "up" => s.response = "lost"
    BY <1>4 DEF Fail, Fails
  <2>2. Fresh' = Fresh
    BY <2>1 DEF Fresh
  <2>3. QED
    BY <2>1, <2>2 DEF ChartInv
<1>l. ASSUME NEW s \in scrapes, Lose(s)
      PROVE  ChartInv'
  <2>1. UNCHANGED <<target, entries>> /\ target = "down"
    BY <1>l DEF Lose
  <2>2. QED
    BY <2>1 DEF ChartInv
<1>5. CASE UNCHANGED svars
  BY <1>5 DEF svars, ChartInv, Fresh
<1>6. QED
  BY <1>1, <1>2, <1>3, <1>4, <1>l, <1>5, SucceedChartInv, TickChartInv DEF SNext

LEMMA ChartsAreCurrent == SInv /\ ChartInv => ChartCurrent
<1> SUFFICES ASSUME SInv, ChartInv, since > Awaited, target = "up"
             PROVE  /\ entries # <<>>
                    /\ Last(entries) <= Awaited
                    /\ Head(entries) <= Retention + Awaited
  BY DEF ChartCurrent
<1>1. /\ since \in Nat /\ nextIn \in Nat
      /\ \A s \in scrapes : s.left \in Nat
  BY ScraperAssumption DEF SInv, ScrapeTypes
<1>2. Fresh <= Awaited
  BY <1>1, FreshType, ScraperAssumption DEF ChartInv, Awaited
<1>3. entries # <<>> /\ Fresh = Last(entries)
  BY <1>1, <1>2, ScraperAssumption DEF Fresh, Awaited
<1>4. Last(entries) \in 0..Oldest /\ Head(entries) \in 0..Oldest
  BY <1>3, EndsOfEntries
<1>5. QED
  BY <1>2, <1>3, <1>4, ScraperAssumption DEF ChartInv, Oldest, Awaited

-----------------------------------------------------------------------------
(* The theorems *)

\* For any interval and timeout: at most one scrape more than there are intervals
\* in a timeout is under way, though the target may hang for ever.
THEOREM ScrapesDoNotPileUp == SSpec => []InFlightBounded
BY InitSInv, NextSInv, SpacedIsBounded, PTL DEF SSpec

\* For any interval and timeout: twice the timeout and an interval after the target
\* last changed, the status shown is its own, whatever order scrapes ended in.
THEOREM StatusSettles == SSpec => []StatusCurrent
BY InitSInv, NextSInv, SettledIsCurrent, PTL DEF SSpec

\* For any interval, timeout and retention: the chart of a target that has been up
\* for an interval and a timeout is of now, and reaches no further back than the
\* retention window and the one scrape that is awaited.
THEOREM ChartsFollow == SSpec => []ChartCurrent
BY InitSInv, NextSInv, InitChartInv, NextChartInv, ChartsAreCurrent, PTL DEF SSpec
=============================================================================
