-------------------------------- MODULE Proxy --------------------------------
(***************************************************************************)
(* lb/src/proxy_server.ts: what becomes of the requests of the clients.    *)
(* The router's answer is free here (LoadBalancer.tla has the router); the *)
(* subject is the pair of streams behind one request, the client's         *)
(* response and the request to the chosen server, whose events come in any *)
(* order Node can deliver them, and a shutdown in the middle of it all.    *)
(***************************************************************************)
EXTENDS Naturals, Sequences

CONSTANT Requests   \* bound: the requests clients make

VARIABLES
  client,     \* the client's response: has it been sent, ended, abandoned?
  status,     \* the statuses written on it, in their order, a history
  upstream,   \* the request to the chosen server
  stopping,   \* has stop() been called?
  stopped     \* has its promise been resolved?

vars == <<client, status, upstream, stopping, stopped>>

\* The upstream's own status is "proxied".
Statuses == {"proxied", "502", "503"}

TypeOK ==
  /\ client \in [Requests -> {"none", "waiting", "headers", "ended", "gone"}]
  /\ status \in [Requests -> Seq(Statuses)]
  /\ upstream \in [Requests -> {"none", "pending", "responding", "complete",
                                "failed", "destroyed"}]
  /\ stopping \in BOOLEAN
  /\ stopped \in BOOLEAN

Init ==
  /\ client = [r \in Requests |-> "none"]
  /\ status = [r \in Requests |-> <<>>]
  /\ upstream = [r \in Requests |-> "none"]
  /\ stopping = FALSE
  /\ stopped = FALSE

Live(r) == client[r] \in {"waiting", "headers"}

HeadersSent(r) == status[r] # <<>>

\* res.writeHead(): it reaches a client that is still there.
WriteHead(r, s) == status' = [status EXCEPT ![r] = Append(@, s)]

\* What the client's response becomes; one whose client is gone stays so.
ClientIs(r, phase) ==
  client' = [client EXCEPT ![r] = IF @ = "gone" THEN @ ELSE phase]

UpstreamIs(r, phase) == upstream' = [upstream EXCEPT ![r] = phase]

-----------------------------------------------------------------------------
(* The proxy *)

\* handleRequest() when the router has no server.  A request made on a kept
\* connection after stop() is left out, like those of new connections.
Refuse(r) ==
  /\ client[r] = "none"
  /\ ~stopping
  /\ WriteHead(r, "503")
  /\ ClientIs(r, "ended")
  /\ UNCHANGED <<upstream, stopping, stopped>>

\* handleRequest() when it has one: forwardRequest() opens the upstream request.
Forward(r) ==
  /\ client[r] = "none"
  /\ ~stopping
  /\ ClientIs(r, "waiting")
  /\ UpstreamIs(r, "pending")
  /\ UNCHANGED <<status, stopping, stopped>>

\* The response callback of http.request.
Respond(r) ==
  /\ upstream[r] = "pending"
  /\ UpstreamIs(r, "responding")
  /\ WriteHead(r, "proxied")
  /\ ClientIs(r, "headers")
  /\ UNCHANGED <<stopping, stopped>>

\* The end of the upstream's body: pipe() ends the client's response.
Complete(r) ==
  /\ upstream[r] = "responding"
  /\ UpstreamIs(r, "complete")
  /\ ClientIs(r, "ended")
  /\ UNCHANGED <<status, stopping, stopped>>

\* The faults of the error handler: without its guard; without its answer; with
\* an end for the response that was under way.
AnswerUnguarded(r) ==
  /\ WriteHead(r, "502")
  /\ ClientIs(r, "ended")

AnswerNothing(r) == UNCHANGED <<status, client>>

AnswerAndEnd(r) ==
  /\ IF HeadersSent(r) THEN UNCHANGED status ELSE WriteHead(r, "502")
  /\ ClientIs(r, "ended")

\* The error handler of the upstream request.
AnswerError(r) ==
  IF HeadersSent(r)
  THEN UNCHANGED <<status, client>>
  ELSE WriteHead(r, "502") /\ ClientIs(r, "ended")

\* The upstream refuses, resets or closes the connection.  After its headers it
\* may do so without an error event on the request; the handler does nothing
\* then in any case, and pipe() leaves the client's response as it is.
Break(r) ==
  /\ upstream[r] \in {"pending", "responding"}
  /\ UpstreamIs(r, "failed")
  /\ AnswerError(r)
  /\ UNCHANGED <<stopping, stopped>>

\* The timeout event: no byte either way for REQUEST_TIMEOUT_MS.
Timeout(r) ==
  /\ upstream[r] \in {"pending", "responding"}
  /\ UpstreamIs(r, "destroyed")
  /\ UNCHANGED <<client, status, stopping, stopped>>

\* The error event that follows destroy().
Destroyed(r) ==
  /\ upstream[r] = "destroyed"
  /\ UpstreamIs(r, "failed")
  /\ AnswerError(r)
  /\ UNCHANGED <<stopping, stopped>>

\* The client closes its connection; nothing tells the upstream request.
ClientCloses(r) ==
  /\ Live(r)
  /\ ClientIs(r, "gone")
  /\ UNCHANGED <<status, upstream, stopping, stopped>>

\* stop(): server.close() takes no new connection and closes the idle ones.
Stop ==
  /\ ~stopping
  /\ stopping' = TRUE
  /\ UNCHANGED <<client, status, upstream, stopped>>

\* The callback of server.close(): every connection is closed.
Closed ==
  /\ stopping
  /\ ~stopped
  /\ \A r \in Requests : ~Live(r)
  /\ stopped' = TRUE
  /\ UNCHANGED <<client, status, upstream, stopping>>

Step ==
  \/ \E r \in Requests :
       \/ Refuse(r) \/ Forward(r) \/ Respond(r) \/ Complete(r) \/ Break(r)
       \/ Timeout(r) \/ Destroyed(r) \/ ClientCloses(r)
  \/ Closed

Next == Step \/ Stop

\* While a client is there, the server answers in full, breaks off, or is silent
\* for so long that it times out, and the destroyed request is reported; a server
\* without connections has closed.  No client is made to give up.
Fairness ==
  /\ \A r \in Requests :
       /\ WF_vars(Live(r) /\ Timeout(r))
       /\ WF_vars(Live(r) /\ Destroyed(r))
  /\ WF_vars(Closed)

-----------------------------------------------------------------------------
(* Properties *)

\* A second writeHead() on a response throws, and as nothing catches it the
\* exception ends the process with every request in it: no order of an answer,
\* an error and a timeout may lead to one.
OneAnswer == \A r \in Requests : Len(status[r]) <= 1

\* Every request that is forwarded gets a status, whatever the server does,
\* unless its client leaves first.
Answered == \A r \in Requests :
  client[r] = "waiting" ~> HeadersSent(r) \/ client[r] = "gone"

\* A response the client can take for complete is complete: one that broke off
\* after its headers is never ended as if it were whole.
NeverTruncated == \A r \in Requests :
  client[r] = "ended" /\ status[r] = <<"proxied">> => upstream[r] = "complete"
=============================================================================
