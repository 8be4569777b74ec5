---------------------------- MODULE SimulationRuns ----------------------------
(***************************************************************************)
(* A click on Run: web/src/client/hooks/use_simulation.ts calls the route  *)
(* of web/src/server/routes/simulation_routes.ts, which configures the     *)
(* load balancer and then calls the generator, each with a timeout.  The   *)
(* generator keeps the promise of OneRun.                                  *)
(*                                                                         *)
(* A request on its way arrives at any time, or never.  One whose sender   *)
(* has given up is not called back: it may still arrive.                   *)
(***************************************************************************)
EXTENDS Naturals, FiniteSets

CONSTANTS
  Calls,   \* bound: the calls of POST /api/simulation/run, numbered as they come
  Pages,   \* the browser pages that show the dashboard
  NoCall,
  Types,   \* the server types the load balancer is configured with
  Total,   \* countServersOfType() of each
  NoType,  \* its activeType before the first call
  Asks     \* bound: the types and counts each call may ask for

ASSUME SimulationRunsAssumption ==
  /\ Calls \subseteq Nat /\ NoCall \notin Calls
  /\ Total \in [Types -> Nat] /\ NoType \notin Types
  /\ \A r \in Calls : Asks[r] \subseteq [type : Types, count : Nat]

VARIABLES
  route,     \* where the handler of each call is
  asked,     \* the serverType and serverCount of each call, once it has been made
  answer,    \* the status it has answered
  post,      \* its POST /admin/servers, to the load balancer
  get,       \* its GET /run, to the generator
  reply,     \* what the generator makes of it, see OneRun
  activeType,   \* the load balancer's router: the type it routes to
  activeCount,  \* and how many servers of each type it would use
  running,   \* the call each page waits for: its button is disabled
  disturbed  \* a history: the calls that were not alone

active == <<activeType, activeCount>>
vars == <<route, asked, answer, post, get, reply, active, running, disturbed>>

Generator == INSTANCE OneRun WITH Runs <- Calls

Init ==
  /\ route = [r \in Calls |-> "none"]
  /\ asked = [r \in Calls |-> NoCall]
  /\ answer = [r \in Calls |-> "none"]
  /\ post = [r \in Calls |-> "none"]
  /\ get = [r \in Calls |-> "none"]
  /\ Generator!Init
  /\ activeType = NoType /\ activeCount = Total
  /\ running = [p \in Pages |-> NoCall]
  /\ disturbed = {}

-----------------------------------------------------------------------------
(* The web server *)

Open(r) ==
  \/ route[r] \in {"configuring", "waiting"}
  \/ "sent" \in {post[r], get[r]}
  \/ reply[r] = "pending"

Answer(r, status) ==
  /\ route' = [route EXCEPT ![r] = "answered"]
  /\ answer' = [answer EXCEPT ![r] = status]

\* The route up to its first await.  A field is missing or 0, or the load balancer
\* is called.
Handle(r) ==
  /\ route[r] = "none" /\ \A s \in Calls : s < r => route[s] # "none"
  /\ \/ Answer(r, "400") /\ UNCHANGED <<asked, post, disturbed>>
     \/ /\ route' = [route EXCEPT ![r] = "configuring"]
        /\ \E ask \in Asks[r] : ask.count # 0 /\ asked' = [asked EXCEPT ![r] = ask]
        /\ post' = [post EXCEPT ![r] = "sent"]
        /\ disturbed' = disturbed \union
             LET others == {s \in Calls : Open(s)} IN
             IF others = {} THEN {} ELSE others \union {r}
        /\ UNCHANGED answer
  /\ UNCHANGED <<get, reply, active>>

\* A fault: the answer of the load balancer is not awaited.
ConfiguredUnseen(r) ==
  /\ route[r] = "configuring"
  /\ route' = [route EXCEPT ![r] = "waiting"]
  /\ get' = [get EXCEPT ![r] = "sent"]
  /\ UNCHANGED <<asked, answer, post, reply, active, running, disturbed>>

\* The load balancer is configured: the generator is called.
Configured(r) ==
  /\ route[r] = "configuring"
  /\ post[r] = "ok"
  /\ route' = [route EXCEPT ![r] = "waiting"]
  /\ get' = [get EXCEPT ![r] = "sent"]
  /\ UNCHANGED <<asked, answer, post, reply, active, running, disturbed>>

\* It has refused, and its status is passed on.
NotConfigured(r) ==
  /\ route[r] = "configuring"
  /\ post[r] = "refused"
  /\ Answer(r, "400")
  /\ UNCHANGED <<asked, post, get, reply, active, running, disturbed>>

\* The answer of the generator is passed on.
Relay(r) ==
  /\ route[r] = "waiting"
  /\ reply[r] \notin {"none", "pending"}
  /\ Answer(r, reply[r])
  /\ UNCHANGED <<asked, post, get, reply, active, running, disturbed>>

\* A fault: no timeout on the call of the generator.
GiveUpConfiguring(r) ==
  /\ route[r] = "configuring"
  /\ Answer(r, "502")
  /\ UNCHANGED <<asked, post, get, reply, active, running, disturbed>>

\* AbortSignal.timeout(), of 10 s or of 120 s, or an error of fetch().
GiveUp(r) ==
  /\ route[r] \in {"configuring", "waiting"}
  /\ Answer(r, "502")
  /\ UNCHANGED <<asked, post, get, reply, active, running, disturbed>>

-----------------------------------------------------------------------------
(* The load balancer, the generator and the pages *)

\* handlePostServers(): setActiveServers() and setActiveType(), or an error when
\* there are fewer servers of the type than the call asks for.
Administer(r) ==
  /\ post[r] = "sent"
  /\ LET ask == asked[r] IN
     \/ /\ ask.count <= Total[ask.type]
        /\ post' = [post EXCEPT ![r] = "ok"]
        /\ activeType' = ask.type
        /\ activeCount' = [activeCount EXCEPT ![ask.type] = ask.count]
     \/ /\ ask.count > Total[ask.type]
        /\ post' = [post EXCEPT ![r] = "refused"]
        /\ UNCHANGED active
  /\ UNCHANGED <<route, asked, answer, get, reply, running, disturbed>>

\* handleRun() up to its await; parseConfig() may know better than the route.
Arrive(r) ==
  /\ get[r] = "sent"
  /\ get' = [get EXCEPT ![r] = "arrived"]
  /\ Generator!Accept(r) \/ Generator!Refuse(r) \/ Generator!Reject(r)
  /\ UNCHANGED <<route, asked, answer, post, active, running, disturbed>>

Finish(r) ==
  /\ Generator!Finish(r)
  /\ UNCHANGED <<route, asked, answer, post, get, active, running, disturbed>>

\* run() of use_simulation.ts, from a page whose button is enabled.
Click(p, r) ==
  /\ running[p] = NoCall
  /\ running' = [running EXCEPT ![p] = r]
  /\ Handle(r)

\* A call from elsewhere.
CallElsewhere(r) == Handle(r) /\ UNCHANGED running

\* The finally of run(): an answer has come, or the connection has broken, of
\* which the route is not told.
Settle(p) ==
  /\ running[p] # NoCall
  /\ running' = [running EXCEPT ![p] = NoCall]
  /\ UNCHANGED <<route, asked, answer, post, get, reply, active, disturbed>>

CallStep(r) ==
  \/ Configured(r) \/ NotConfigured(r) \/ Relay(r) \/ GiveUp(r)
  \/ Administer(r) \/ Arrive(r) \/ Finish(r)

-----------------------------------------------------------------------------
(* Properties *)

\* The load balancer routes to the servers call r has asked for.
Holds(r) ==
  /\ activeType = asked[r].type
  /\ activeCount[activeType] = asked[r].count

\* The load of a call that was alone goes to the servers it asked for, and is not
\* refused.  Alone from its first moment to the end of its load: a call that was
\* given up, or answered 409, reconfigures the load balancer all the same.
AsAskedIfAlone ==
  \A r \in Calls \ disturbed :
    /\ reply[r] = "pending" => Holds(r)
    /\ answer[r] # "409"

\* Every call is answered, even if neither the load balancer nor the generator
\* ever is reached or answers.
CallsAnswered == \A r \in Calls : route[r] # "none" ~> route[r] = "answered"
=============================================================================
