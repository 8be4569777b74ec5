------------------------------ MODULE LbProcess ------------------------------
(***************************************************************************)
(* The process of the load balancer, lb/src/main.ts, with its two servers  *)
(* (SidecarListener and Proxy) and the shutdown a signal starts: both are  *)
(* told to stop in the same turn, and the process exits when both have.    *)
(* The drain manager, whose timers end with the process, is in             *)
(* LoadBalancer; the P of PInit, PNext and PSpec is for the process.       *)
(***************************************************************************)
EXTENDS Naturals, Sequences

CONSTANTS
  Requests,                                 \* see Proxy
  Connections, Lines, MaxWrites, Newline    \* see SidecarListener

VARIABLES
  client, status, upstream, proxyStopped,                            \* Proxy
  phase, written, stream, buffer, obeyed, activeSockets, listenerStopped,
  stopping,   \* has a signal come?  Both stop() are called then
  exited      \* has process.exit() been called?

proxying == <<client, status, upstream, proxyStopped>>
listening == <<phase, written, stream, buffer, obeyed, activeSockets, listenerStopped>>
pvars == <<proxying, listening, stopping, exited>>

Listener == INSTANCE SidecarListener WITH stopped <- listenerStopped

\* Lines are sequences of symbols and none of them holds the newline: the sidecar
\* writes one after each.
ASSUME LinesAssumption ==
  \A line \in Lines :
    /\ line \in Seq(Listener!ToSet(line))
    /\ Newline \notin Listener!ToSet(line)

ProxyServer == INSTANCE Proxy WITH stopped <- proxyStopped

PInit ==
  /\ Listener!Init
  /\ ProxyServer!Init
  /\ exited = FALSE

\* A step of one of the servers, other than stop().
Serve ==
  /\ ~exited
  /\ \/ Listener!Step /\ UNCHANGED proxying
     \/ ProxyServer!Step /\ UNCHANGED listening
  /\ UNCHANGED <<stopping, exited>>

\* shutdown(), the handler of SIGINT and SIGTERM.  A second signal is left out.
PShutdown ==
  /\ Listener!Stop
  /\ ProxyServer!Stop
  /\ UNCHANGED exited

\* The continuation of shutdown().
PExit ==
  /\ listenerStopped
  /\ proxyStopped
  /\ exited' = TRUE
  /\ UNCHANGED <<proxying, listening, stopping>>

PNext == Serve \/ PShutdown \/ PExit

\* What is fair of either server has been done when the process exits.
PSpec ==
  /\ PInit
  /\ [][PNext]_pvars
  /\ Listener!Fairness
  /\ ProxyServer!Fairness
  /\ WF_pvars(PExit)

-----------------------------------------------------------------------------
(* Properties *)

\* However the stream is cut, the listener obeys the lines the sidecar wrote, in
\* their order, each once and none of them shortened; a command cut off by the
\* end of its connection is not obeyed at all.
ObeysWhatWasWritten == Listener!ObeysWhatWasWritten

\* And it keeps none back: a line is obeyed as soon as its newline has been read.
NothingKeptBack == Listener!NothingKeptBack

\* Nothing is obeyed after the signal: the continuation of shutdown() clears the
\* drain manager's timers, and a DRAIN read later would arm one more.
QuietAfterStop == Listener!QuietAfterStop

\* A second writeHead() on a response throws, and as nothing catches it the
\* exception ends the process with every request in it: no order of an answer,
\* an error and a timeout leads to one.
OneAnswer == ProxyServer!OneAnswer

\* A response the client can take for complete is complete: one that broke off
\* after its headers is never ended as if it were whole.
NeverTruncated == ProxyServer!NeverTruncated

\* Every request that is forwarded gets a status, whatever the server does,
\* unless its client leaves first.
Answered == ProxyServer!Answered

\* "Gracefully shuts down the server, closing all connections": the process
\* exits after a signal.
ShutdownEnds == stopping ~> exited
=============================================================================
