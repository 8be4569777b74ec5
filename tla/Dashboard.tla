------------------------------ MODULE Dashboard ------------------------------
(***************************************************************************)
(* The page of web/src/client/app.tsx: what its hooks show of the load     *)
(* balancer, by polls through web/src/server/routes/services_routes.ts     *)
(* (use_backpressure.ts, use_server_groups.ts), what its switch does to it *)
(* (use_backpressure.ts), and the runs it starts (SimulationRuns).         *)
(*                                                                         *)
(* A hook polls every 5 s, and the route gives up on the load balancer     *)
(* after 5 s: two polls of a hook can be under way, and the answer of the  *)
(* first may come last.  When a poll is made is left free.  One that fails *)
(* changes nothing on either side and is left out.                         *)
(***************************************************************************)
EXTENDS SimulationRuns, Sequences

CONSTANTS
  Uses,     \* bound: the clicks on the switch and the calls of a run
  Slots,    \* of each hook, the polls that may be under way at once
  Unknown   \* the groups before the first answer

ASSUME DashboardAssumption == Uses \in Nat /\ Unknown \notin [Types -> Nat]

VARIABLES
  enabled,   \* DrainManager.backpressureEnabled
  shown,     \* the state of the hooks of each page
  poll,      \* the answer that is under way to each poll, if any
  clicks,    \* the clicks on the switch, in their order, and their POSTs
  inTurn     \* a history: has each click been made with no other one open?

dvars == <<vars, enabled, shown, poll, clicks, inTurn>>

Hooks == {"backpressure", "groups"}

\* What the admin handler of the load balancer answers a GET.  getServerGroups()
\* lists the types with their counts, and does not say which type is routed to.
Real == [backpressure |-> enabled, groups |-> activeCount]

Polls == UNION {Pages \X {h} \X Slots[h] : h \in Hooks}

TypeOK ==
  /\ reply \in [Calls -> {"none", "pending", "200", "400", "409", "500"}]
  /\ activeType \in Types \union {NoType}
  /\ activeCount \in [Types -> Nat]
  /\ running \in [Pages -> Calls \union {NoCall}]
  /\ enabled \in BOOLEAN
  /\ \A p \in Pages :
       /\ shown[p].backpressure \in BOOLEAN
       /\ shown[p].groups \in [Types -> Nat] \union {Unknown}
  /\ clicks \in Seq([page : Pages, value : BOOLEAN, arrived : BOOLEAN, waiting : BOOLEAN])

\* The page takes the switch to be on until it has heard otherwise.
DInit ==
  /\ Init
  /\ enabled \in BOOLEAN
  /\ shown = [p \in Pages |-> [backpressure |-> TRUE, groups |-> Unknown]]
  /\ poll = [x \in Polls |-> <<>>]
  /\ clicks = <<>>
  /\ inTurn = TRUE

Used == Len(clicks) + Cardinality({r \in Calls : route[r] # "none"})

-----------------------------------------------------------------------------
(* The polls *)

\* fetchState() or fetchGroups(), up to the await, comes through to the load
\* balancer.
Ask(x) ==
  /\ poll[x] = <<>>
  /\ poll' = [poll EXCEPT ![x] = <<Real[x[2]]>>]
  /\ UNCHANGED <<vars, enabled, shown, clicks, inTurn>>

\* A fault: an answer never turns the switch off.
ShowEither(x) ==
  /\ poll[x] # <<>>
  /\ poll' = [poll EXCEPT ![x] = <<>>]
  /\ shown' = [shown EXCEPT ![x[1]][x[2]] =
                 IF x[2] = "backpressure" THEN @ \/ poll[x][1] ELSE poll[x][1]]
  /\ UNCHANGED <<vars, enabled, clicks, inTurn>>

\* The rest of them: what the answer says is shown, however old it is.
Show(x) ==
  /\ poll[x] # <<>>
  /\ poll' = [poll EXCEPT ![x] = <<>>]
  /\ shown' = [shown EXCEPT ![x[1]][x[2]] = poll[x][1]]
  /\ UNCHANGED <<vars, enabled, clicks, inTurn>>

-----------------------------------------------------------------------------
(* The switch *)

OpenClick(c) == clicks[c].waiting \/ ~clicks[c].arrived

\* toggle() up to its await: the opposite of what the page shows.
Toggle(p) ==
  /\ Used < Uses
  /\ shown' = [shown EXCEPT ![p].backpressure = ~@]
  /\ clicks' = Append(clicks, [page |-> p, value |-> ~shown[p].backpressure,
                               arrived |-> FALSE, waiting |-> TRUE])
  /\ inTurn' = (inTurn /\ \A c \in DOMAIN clicks : ~OpenClick(c))
  /\ UNCHANGED <<vars, enabled, poll>>

\* A fault: the load balancer flips its switch instead of setting it.
FlipEnabled(c) ==
  /\ ~clicks[c].arrived
  /\ clicks' = [clicks EXCEPT ![c].arrived = TRUE]
  /\ enabled' = ~enabled
  /\ UNCHANGED <<vars, shown, poll, inTurn>>

\* handlePostBackpressure(), at whatever time the POST arrives.
SetEnabled(c) ==
  /\ ~clicks[c].arrived
  /\ clicks' = [clicks EXCEPT ![c].arrived = TRUE]
  /\ enabled' = clicks[c].value
  /\ UNCHANGED <<vars, shown, poll, inTurn>>

\* The route answers toggle(): 200, or 502 when the load balancer does not, after
\* 5 s.  The page does not look which.
Answered(c) ==
  /\ clicks[c].waiting
  /\ clicks' = [clicks EXCEPT ![c].waiting = FALSE]
  /\ UNCHANGED <<vars, enabled, shown, poll, inTurn>>

\* fetch() rejects, as when the web server is gone: the page shows the old value.
Revert(c) ==
  /\ clicks[c].waiting
  /\ clicks' = [clicks EXCEPT ![c].waiting = FALSE]
  /\ shown' = [shown EXCEPT ![clicks[c].page].backpressure = ~clicks[c].value]
  /\ UNCHANGED <<vars, enabled, poll, inTurn>>

-----------------------------------------------------------------------------

\* Calls of a run: the button is disabled until the groups are known.
Simulate ==
  /\ \/ /\ Used < Uses
        /\ \E r \in Calls :
             \/ CallElsewhere(r)
             \/ \E p \in Pages : shown[p].groups # Unknown /\ Click(p, r)
     \/ \E r \in Calls : CallStep(r)
     \/ \E p \in Pages : Settle(p)
  /\ UNCHANGED <<enabled, shown, poll, clicks, inTurn>>

DNext ==
  \/ Simulate
  \/ \E x \in Polls : Ask(x) \/ Show(x)
  \/ \E p \in Pages : Toggle(p)
  \/ \E c \in DOMAIN clicks : SetEnabled(c) \/ Answered(c) \/ Revert(c)

\* The timers of the web server go off, and those of the hooks, whose polls come
\* through again and again.
DFairness ==
  /\ \A r \in Calls : WF_dvars(GiveUp(r) /\ UNCHANGED <<enabled, shown, poll, clicks, inTurn>>)
  /\ \A x \in Polls : WF_dvars(Ask(x)) /\ WF_dvars(Show(x))

DSpec == DInit /\ [][DNext]_dvars /\ DFairness

-----------------------------------------------------------------------------
(* Properties *)

\* Once people stop clicking, every page comes to show the switch of the load
\* balancer and the counts of its groups, and goes on showing them: whatever clicks
\* raced, POSTs failed, and polls came late and out of order.  The group that is
\* routed to is no part of this: the page is not told, and guesses (app.tsx).
ViewsAgree == \A p \in Pages, h \in Hooks : <>[](shown[p][h] = Real[h])

\* Clicks made one at a time, each after the last one has arrived and has been
\* answered, leave the switch at what the last one asked for, even when the page
\* it was made on was out of date.
LastClickWins ==
  inTurn /\ clicks # <<>> /\ (\A c \in DOMAIN clicks : ~OpenClick(c)) =>
    enabled = clicks[Len(clicks)].value
=============================================================================
