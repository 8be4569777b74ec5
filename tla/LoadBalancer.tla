---------------------------- MODULE LoadBalancer ----------------------------
(***************************************************************************)
(* The load balancer as lb/src/main.ts puts it together: one drain manager *)
(* (DrainHistory), changed by the sidecars' commands, its timers and the   *)
(* admin switch, and one router (Router) that asks it isDrained() for      *)
(* every server it considers.  Router.tla lets the set of drained servers  *)
(* change at will; here it is what the manager holds.                      *)
(***************************************************************************)
EXTENDS DrainHistory, FiniteSets

CONSTANTS N, TypeOf, Types, NoType   \* see Router

\* The configuration is a list, and a server is a position of it.
ASSUME LoadBalancerAssumption ==
  /\ N \in Nat \ {0}
  /\ Servers = 1..N
  /\ NoType \notin Types
  /\ TypeOf \in [Servers -> Types \union {NoType}]

VARIABLES activeType, activeCount, currentIndex, target   \* see Router

routing == <<activeType, activeCount, currentIndex, target>>
lbvars == <<hvars, routing>>

\* The servers isDrained() answers true for.
OutOfRotation == {s \in Servers : IsDrained(s)}

Routing == INSTANCE Router WITH drained <- OutOfRotation

LBInit ==
  /\ HInit
  /\ Routing!Init

-----------------------------------------------------------------------------

\* A command of a sidecar, a timer, the admin switch, or the clock.
Manage ==
  /\ HNext
  /\ UNCHANGED routing

\* ProxyServer.handleRequest(): a request asks next() for a server.
Route ==
  /\ UNCHANGED hvars
  /\ Routing!Choose \/ Routing!ChooseNone

\* POST /admin/servers.
Administer(type, count) ==
  /\ UNCHANGED hvars
  /\ Routing!SetActive(type, count)

LBNext ==
  \/ Manage
  \/ Route
  \/ \E type \in Types, count \in 0..N : Administer(type, count)

LBSpec == LBInit /\ [][LBNext]_lbvars /\ Fairness

-----------------------------------------------------------------------------
(* Properties *)

\* Traffic respects drains: while the switch is on, no request goes to a server
\* before the time its last DRAIN asked for has passed, whatever became of the
\* timers in between; switching backpressure off and on forgets no drain.
RespectsDrains ==
  [][Route => \A p \in Servers :
       enabled /\ owed[KeyOf[p]] > 0 => target' # p]_lbvars

\* The safety net and the turn together, for clients that go on sending requests
\* whatever they are answered: a server in use whose sidecar has stopped, be it in
\* the middle of a pause, gets its requests again, and again, while other servers
\* are drained and resumed and the switch is thrown.  Every POST /admin/servers
\* begins the turn anew, so there have to be no more of them.
Administered == \E type \in Types, count \in 0..N : Administer(type, count)

TrafficReturns ==
  \A p \in Servers :
    /\ WF_lbvars(Route)
    /\ <>[][~DrainKey(KeyOf[p]) /\ ~Administered]_lbvars
    /\ <>[](p \in Routing!Eligible)
    => []<>(target = p)
=============================================================================
