--------------------------- MODULE SidecarListener ---------------------------
(***************************************************************************)
(* lb/src/sidecar_listener.ts: the TCP side of the load balancer, for the  *)
(* connections of one server's sidecar.  TCP is a stream: data events cut  *)
(* it anywhere, and a connection may end in the middle of a command.       *)
(*                                                                         *)
(* A command is the sequence of its symbols; a digit is a symbol of its    *)
(* own, because a DRAIN cut between two digits still reads as a DRAIN.     *)
(***************************************************************************)
EXTENDS Naturals, Sequences, SequencesExt, FiniteSetsExt

CONSTANTS
  Connections,   \* bound: the connections sidecars open
  Lines,         \* the lines they write, without the newline
  MaxWrites,     \* bound: the lines written on all of them
  Newline

\* None of the Lines holds the Newline: the sidecar writes one after each.

VARIABLES
  phase,          \* each connection, as Node's server sees it
  written,        \* the lines written on each connection, a history
  stream,         \* the symbols of each connection that have not been read
  buffer,         \* the buffer of each handleConnection()
  obeyed,         \* the lines parseLine() was called for, a history
  activeSockets,  \* activeSockets
  stopping,       \* has stop() been called?
  stopped         \* has the promise of stop() been resolved?

vars == <<phase, written, stream, buffer, obeyed, activeSockets, stopping, stopped>>

TypeOK ==
  /\ phase \in [Connections -> {"new", "open", "failed", "destroyed", "closed"}]
  /\ written \in [Connections -> Seq(Lines)]
  /\ stream \in [Connections -> Seq(UNION {ToSet(line) : line \in Lines} \union {Newline})]
  /\ \A c \in Connections : Newline \notin ToSet(buffer[c])
  /\ obeyed \in [Connections -> Seq(Lines)]
  /\ activeSockets \subseteq Connections
  /\ stopping \in BOOLEAN
  /\ stopped \in BOOLEAN

Init ==
  /\ phase = [c \in Connections |-> "new"]
  /\ written = [c \in Connections |-> <<>>]
  /\ stream = [c \in Connections |-> <<>>]
  /\ buffer = [c \in Connections |-> <<>>]
  /\ obeyed = [c \in Connections |-> <<>>]
  /\ activeSockets = {}
  /\ stopping = FALSE
  /\ stopped = FALSE

-----------------------------------------------------------------------------
(* The sidecar and the network *)

Write(c, line) ==
  /\ phase[c] = "open"
  /\ MapThenSumSet(LAMBDA d : Len(written[d]), Connections) < MaxWrites
  /\ written' = [written EXCEPT ![c] = Append(@, line)]
  /\ stream' = [stream EXCEPT ![c] = @ \o Append(line, Newline)]
  /\ UNCHANGED <<phase, buffer, obeyed, activeSockets, stopping, stopped>>

-----------------------------------------------------------------------------
(* The listener *)

\* handleConnection().  A server that close() was called on accepts no more.
HandleConnection(c) ==
  /\ phase[c] = "new"
  /\ ~stopping
  /\ phase' = [phase EXCEPT ![c] = "open"]
  /\ activeSockets' = activeSockets \union {c}
  /\ UNCHANGED <<written, stream, buffer, obeyed, stopping, stopped>>

\* buffer.split("\n"), one symbol at a time: a newline ends the line before it.
Feed(acc, symbol) ==
  IF symbol = Newline
  THEN [lines |-> Append(acc.lines, acc.rest), rest |-> <<>>]
  ELSE [lines |-> acc.lines, rest |-> Append(acc.rest, symbol)]

\* The faults of Split: each chunk is split by itself; the last segment is taken
\* for a line.
SplitChunk(rest, chunk) == FoldLeft(Feed, [lines |-> <<>>, rest |-> <<>>], chunk)

SplitAll(rest, chunk) ==
  LET acc == FoldLeft(Feed, [lines |-> <<>>, rest |-> rest], chunk) IN
  [lines |-> IF acc.rest = <<>> THEN acc.lines ELSE Append(acc.lines, acc.rest),
   rest  |-> <<>>]

\* The complete lines of a chunk that follows rest, and what is left after them.
Split(rest, chunk) == FoldLeft(Feed, [lines |-> <<>>, rest |-> rest], chunk)

\* The data event, for the first n symbols of what is under way.
Data(c, n) ==
  /\ phase[c] = "open"
  /\ LET split == Split(buffer[c], SubSeq(stream[c], 1, n)) IN
       /\ buffer' = [buffer EXCEPT ![c] = split.rest]
       /\ obeyed' = [obeyed EXCEPT ![c] = @ \o split.lines]
  /\ stream' = [stream EXCEPT ![c] = SubSeq(@, n + 1, Len(@))]
  /\ UNCHANGED <<phase, written, activeSockets, stopping, stopped>>

\* The error event; its close event follows.
Fail(c) ==
  /\ phase[c] = "open"
  /\ phase' = [phase EXCEPT ![c] = "failed"]
  /\ activeSockets' = activeSockets \ {c}
  /\ UNCHANGED <<written, stream, buffer, obeyed, stopping, stopped>>

\* The close event: after an error, after destroy(), or because the peer ended
\* the connection, in which case everything it sent has been read.
Close(c) ==
  /\ \/ phase[c] \in {"failed", "destroyed"}
     \/ phase[c] = "open" /\ stream[c] = <<>>
  /\ phase' = [phase EXCEPT ![c] = "closed"]
  /\ activeSockets' = activeSockets \ {c}
  /\ UNCHANGED <<written, stream, buffer, obeyed, stopping, stopped>>

\* A fault: stop() closes the servers and leaves the sockets to their peers.
StopGently ==
  /\ ~stopping
  /\ stopping' = TRUE
  /\ activeSockets' = {}
  /\ UNCHANGED <<phase, written, stream, buffer, obeyed, stopped>>

\* stop(): every active socket is destroyed, and every server closes.
Stop ==
  /\ ~stopping
  /\ stopping' = TRUE
  /\ phase' = [c \in Connections |-> IF c \in activeSockets THEN "destroyed" ELSE phase[c]]
  /\ activeSockets' = {}
  /\ UNCHANGED <<written, stream, buffer, obeyed, stopped>>

\* The callback of server.close(): no connection is left.
ServersClosed ==
  /\ stopping
  /\ ~stopped
  /\ \A c \in Connections : phase[c] \in {"new", "closed"}
  /\ stopped' = TRUE
  /\ UNCHANGED <<phase, written, stream, buffer, obeyed, activeSockets, stopping>>

Step ==
  \/ \E c \in Connections :
       \/ \E line \in Lines : Write(c, line)
       \/ HandleConnection(c)
       \/ \E n \in 1..Len(stream[c]) : Data(c, n)
       \/ Fail(c)
       \/ Close(c)
  \/ ServersClosed

Next == Step \/ Stop

\* Node delivers the close event of a socket that failed or was destroyed, and
\* the callback of a server without connections.  No peer is made to close.
Fairness ==
  /\ \A c \in Connections : WF_vars(phase[c] \in {"failed", "destroyed"} /\ Close(c))
  /\ WF_vars(ServersClosed)

-----------------------------------------------------------------------------
(* Properties *)

\* However the stream is cut, the listener obeys the lines the sidecar wrote, in
\* their order, each once and none of them shortened; a command cut off by the
\* end of its connection is not obeyed at all.
ObeysWhatWasWritten == \A c \in Connections : IsPrefix(obeyed[c], written[c])

\* And it keeps none back: a line is obeyed as soon as its newline has been read.
NothingKeptBack ==
  \A c \in Connections :
    Len(obeyed[c]) + Cardinality({i \in DOMAIN stream[c] : stream[c][i] = Newline})
      = Len(written[c])

\* Nothing is obeyed after stop().
QuietAfterStop == [][stopping => obeyed' = obeyed]_vars
=============================================================================
