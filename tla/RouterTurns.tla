----------------------------- MODULE RouterTurns -----------------------------
(***************************************************************************)
(* The router with a history variable that tells round robin from any      *)
(* other choice.  passed[p] is the set of servers next() has returned      *)
(* since p was last returned, or since p last became available: eligible   *)
(* and not drained, under a configuration nobody has posted over.          *)
(***************************************************************************)
EXTENDS Router

VARIABLE passed

tvars == <<activeType, activeCount, currentIndex, drained, target, passed>>

Available == Eligible \ drained

TTypeOK == TypeOK /\ passed \in [Positions -> SUBSET Positions]

TInit == Init /\ passed = [p \in Positions |-> {}]

TChoose ==
  /\ Choose
  /\ passed' = [p \in Positions |->
                  IF p \in Available /\ p # target' THEN passed[p] \union {target'} ELSE {}]

TChooseNone == ChooseNone /\ UNCHANGED passed

TSetActive(type, count) ==
  SetActive(type, count) /\ passed' = [p \in Positions |-> {}]

TSetDrained(S) ==
  /\ SetDrained(S)
  /\ passed' = [p \in Positions |-> IF p \in S THEN {} ELSE passed[p]]

TNext ==
  \/ TChoose
  \/ TChooseNone
  \/ \E type \in Types, count \in 0..N : TSetActive(type, count)
  \/ \E S \in SUBSET Positions : TSetDrained(S)

TSpec == TInit /\ [][TNext]_tvars

-----------------------------------------------------------------------------
(* Properties *)

\* Bounded bypass: while p is available, no server is returned twice before p
\* is returned once, however the drains of the others come and go in between.
NoOvertaking ==
  [][TChoose => \A p \in Available : p = target' \/ target' \notin passed[p]]_tvars

\* A request is refused (503) only when every eligible server is drained, and
\* is never sent to a drained or an inactive one.
NextSound ==
  [][/\ TChoose => target' \in Available
     /\ TChooseNone => Available = {}]_tvars
=============================================================================
