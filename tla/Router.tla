------------------------------- MODULE Router -------------------------------
(***************************************************************************)
(* lb/src/router.ts: the round-robin router, with the admin call that      *)
(* chooses the active type and the number of its servers                   *)
(* (lb/src/admin_handler.ts, POST /admin/servers).                         *)
(*                                                                         *)
(* The configured list is the positions 1..N.  What DrainManager.isDrained *)
(* answers is the variable drained, which its owner changes at any time    *)
(* between two calls of next(); within one call nothing else runs.         *)
(***************************************************************************)
EXTENDS Integers, FiniteSets

CONSTANTS
  N,        \* the number of configured servers
  TypeOf,   \* the type tag of each position, or NoType
  Types,    \* the type names an admin may post, configured or not
  NoType,   \* the null of activeType, and a server without a type tag
  NoServer  \* the null next() returns

Positions == 1..N

ASSUME RouterAssumption ==
  /\ N \in Nat \ {0}
  /\ NoType \notin Types
  /\ TypeOf \in [Positions -> Types \union {NoType}]
  /\ NoServer \notin Positions

VARIABLES
  activeType,    \* activeType
  activeCount,   \* activeCountByType, 0 for a type it does not hold
  currentIndex,  \* currentIndex
  drained,       \* the positions isDrained() is true of
  target         \* what the last next() returned

vars == <<activeType, activeCount, currentIndex, drained, target>>

\* countServersOfType()
OfType(type) == {p \in Positions : TypeOf[p] = type}

TypeOK ==
  /\ activeType \in Types \union {NoType}
  /\ activeCount \in [Types -> Nat]
  /\ currentIndex \in Nat
  /\ drained \subseteq Positions
  /\ target \in Positions \union {NoServer}

\* The constructor counts every server of each type as active.
Init ==
  /\ activeType = NoType
  /\ activeCount = [type \in Types |-> Cardinality(OfType(type))]
  /\ currentIndex = 0
  /\ drained = {}
  /\ target = NoServer

-----------------------------------------------------------------------------

\* The number of members of S before p in the configured order.
Rank(S, p) == Cardinality({q \in S : q < p})

\* buildEligibleList(), as the set of its members: the first activeCount
\* servers of the active type, or every server when no type is active.
EligibleFor(type, count) ==
  IF type = NoType THEN Positions
  ELSE {p \in OfType(type) : Rank(OfType(type), p) < count[type]}

Eligible == EligibleFor(activeType, activeCount)

Size == Cardinality(Eligible)

\* The server at index i of that list.
At(i) == CHOOSE p \in Eligible : Rank(Eligible, p) = i

\* The index wraps at the end of the list.
Wrap(i) == i % Size

\* The server the loop of next() looks at in its iteration i.
Turn(i) == At(Wrap(currentIndex + i))

\* A fault: the index moves by one, whatever the loop skipped.
ChooseStepsByOne ==
  \E i \in 0..(Size - 1) :
    /\ Turn(i) \notin drained
    /\ \A j \in 0..(i - 1) : Turn(j) \in drained
    /\ target' = Turn(i)
    /\ currentIndex' = Wrap(currentIndex + 1)
    /\ UNCHANGED <<activeType, activeCount, drained>>

\* A fault: the index stays at the server that was returned.
ChooseKeepsIndex ==
  \E i \in 0..(Size - 1) :
    /\ Turn(i) \notin drained
    /\ \A j \in 0..(i - 1) : Turn(j) \in drained
    /\ target' = Turn(i)
    /\ currentIndex' = Wrap(currentIndex + i)
    /\ UNCHANGED <<activeType, activeCount, drained>>

\* next() returns the first server of the turn that is not drained, and leaves
\* the index behind it.
Choose ==
  \E i \in 0..(Size - 1) :
    /\ Turn(i) \notin drained
    /\ \A j \in 0..(i - 1) : Turn(j) \in drained
    /\ target' = Turn(i)
    /\ currentIndex' = Wrap(currentIndex + i + 1)
    /\ UNCHANGED <<activeType, activeCount, drained>>

\* A fault: the loop ends one server short of a whole turn.
ChooseNoneEarly ==
  /\ \A i \in 0..(Size - 2) : Turn(i) \in drained
  /\ target' = NoServer
  /\ currentIndex' = IF Size = 0 THEN currentIndex ELSE Wrap(currentIndex)
  /\ UNCHANGED <<activeType, activeCount, drained>>

\* next() returns null: nothing is eligible, or a whole turn found every
\* eligible server drained and left the index where it began.
ChooseNone ==
  /\ \A i \in 0..(Size - 1) : Turn(i) \in drained
  /\ target' = NoServer
  /\ currentIndex' = IF Size = 0 THEN currentIndex ELSE Wrap(currentIndex)
  /\ UNCHANGED <<activeType, activeCount, drained>>

\* POST /admin/servers: setActiveServers(), then setActiveType().  A count out
\* of range throws before either has changed anything.  The code takes any number;
\* one that is not whole activates as many servers as the next whole one.
SetActive(type, count) ==
  /\ count <= Cardinality(OfType(type))
  /\ activeCount' = [activeCount EXCEPT ![type] = count]
  /\ activeType' = type
  /\ currentIndex' = 0
  /\ UNCHANGED <<drained, target>>

\* The drain manager's answers change between two calls.
SetDrained(S) ==
  /\ drained' = S
  /\ UNCHANGED <<activeType, activeCount, currentIndex, target>>

Next ==
  \/ Choose
  \/ ChooseNone
  \/ \E type \in Types, count \in 0..N : SetActive(type, count)
  \/ \E S \in SUBSET Positions : SetDrained(S)

Spec == Init /\ [][Next]_vars

=============================================================================
