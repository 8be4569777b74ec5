-------------------------------- MODULE OneRun --------------------------------
(***************************************************************************)
(* What generator/src/server.ts promises of POST /run, whatever threads a  *)
(* run is made of: one run at a time, a call in the meantime is refused,   *)
(* and every run it accepts comes to an end.                               *)
(***************************************************************************)
CONSTANT Runs   \* the calls of /run

VARIABLE reply  \* what became of each

Busy == \E r \in Runs : reply[r] = "pending"

Init == reply = [r \in Runs |-> "none"]

Answer(r, from, to) ==
  /\ reply[r] = from
  /\ reply' = [reply EXCEPT ![r] = to]

Accept(r) == ~Busy /\ Answer(r, "none", "pending")

Refuse(r) == Busy /\ Answer(r, "none", "409")

\* Its parameters are looked at only when no run is in progress.
Reject(r) == ~Busy /\ Answer(r, "none", "400")

Finish(r) == Answer(r, "pending", "200") \/ Answer(r, "pending", "500")

Next == \E r \in Runs : Accept(r) \/ Refuse(r) \/ Reject(r) \/ Finish(r)

Spec == Init /\ [][Next]_reply /\ \A r \in Runs : WF_reply(Finish(r))
=============================================================================
