------------------------------- MODULE Scraper -------------------------------
(***************************************************************************)
(* The web server's metrics scraper and its store, for one target:         *)
(* web/src/server/scraper/metrics_scraper.ts and metrics_store.ts.  The    *)
(* interval starts a scrape whether or not the ones before it have ended,  *)
(* and a scrape that ends writes the target's status whether or not a      *)
(* later one has.  Targets share nothing; a tick is a unit of time.        *)
(***************************************************************************)
EXTENDS Integers, Sequences, FiniteSets, SequencesExt

CONSTANTS
  Interval,    \* scrapeIntervalMs
  Timeout,     \* the AbortSignal.timeout() of scrapeTarget()
  Retention    \* retentionMs

ASSUME ScraperAssumption ==
  /\ Interval \in Nat \ {0}
  /\ Timeout \in Nat \ {0}
  /\ Retention \in Nat

VARIABLES
  target,    \* what the target does: it has metrics, it has none yet, it is down
  since,     \* for how long it has done so, up to Horizon
  nextIn,    \* the ticks to the next run of scrapeAll()
  scrapes,   \* the calls of scrapeTarget() under way
  healthy,   \* the status getStatuses() returns
  entries    \* the ages of the entries of the store, oldest first, up to Oldest

svars == <<target, since, nextIn, scrapes, healthy, entries>>

\* The longest time to the result of the next scrape.
Awaited == Interval + Timeout

\* The time after which what the target did before is forgotten: the last scrape
\* of before may end after later ones, and one more is awaited then.
Horizon == Timeout + Awaited

\* Bound: an entry that is older is as old.
Oldest == Retention + Awaited + 1

Answers == {"200", "204"}

STypeOK ==
  /\ target \in {"up", "empty", "down"}
  /\ since \in 0..(Horizon + 1)
  /\ nextIn \in 0..Interval
  /\ scrapes \subseteq [left : 0..Timeout, response : Answers \union {"none", "lost"}]
  /\ healthy \in BOOLEAN
  /\ entries \in Seq(0..Oldest)

Called == [left |-> Timeout, response |-> "none"]

\* main() calls start(), which scrapes at once.
SInit ==
  /\ target \in {"up", "empty", "down"}
  /\ since = 0
  /\ nextIn = Interval
  /\ scrapes = {Called}
  /\ healthy = FALSE
  /\ entries = <<>>

-----------------------------------------------------------------------------
(* The target *)

Turn(state) ==
  /\ target # state
  /\ target' = state
  /\ since' = 0
  /\ UNCHANGED <<nextIn, scrapes, healthy, entries>>

\* It answers a scrape, though the answer is still on its way.
Respond(s) ==
  /\ s.response = "none"
  /\ target # "down"
  /\ scrapes' = (scrapes \ {s}) \union
                  {[s EXCEPT !.response = IF target = "up" THEN "200" ELSE "204"]}
  /\ UNCHANGED <<target, since, nextIn, healthy, entries>>

\* It takes a scrape, or begins its answer, and goes down with it: that scrape gets
\* no answer, though the target may be well again before its signal fires.
Lose(s) ==
  /\ s.response # "lost"
  /\ target = "down"
  /\ scrapes' = (scrapes \ {s}) \union {[s EXCEPT !.response = "lost"]}
  /\ UNCHANGED <<target, since, nextIn, healthy, entries>>

-----------------------------------------------------------------------------
(* The scraper *)

\* The interval fires.
ScrapeAll ==
  /\ nextIn = 0
  /\ nextIn' = Interval
  /\ scrapes' = scrapes \union {Called}
  /\ UNCHANGED <<target, since, healthy, entries>>

\* A fault: nothing is evicted.
EvictNothing(kept) == kept

\* evict(), of ages: the loop shifts entries while the oldest left is older than
\* the retention window.
Evict(kept) ==
  LET n == CHOOSE n \in 0..Len(kept) :
             /\ \A i \in 1..n : kept[i] > Retention
             /\ n < Len(kept) => kept[n + 1] <= Retention
  IN  SubSeq(kept, n + 1, Len(kept))

\* record(), of the store.
Record == entries' = Evict(Append(entries, 0))

\* What scrapeTarget() does with an answer: a 204 records nothing.
Succeed(s) ==
  /\ s.response \in Answers
  /\ scrapes' = scrapes \ {s}
  /\ healthy' = TRUE
  /\ IF s.response = "200" THEN Record ELSE UNCHANGED entries
  /\ UNCHANGED <<target, since, nextIn>>

\* A fault: no signal ends a scrape.
SignalNever(s) == FALSE

\* AbortSignal.timeout()
SignalFires(s) == s.left = 0

\* The target refuses, breaks off or answers with an error while it is down, and
\* a scrape that is lost ends with its signal or a reset, whatever the target does
\* by then.
Fails(s) == target = "down" \/ s.response = "lost"

\* A fault: an error leaves the status as it is.
FailQuietly(s) ==
  /\ Fails(s)
  /\ scrapes' = scrapes \ {s}
  /\ UNCHANGED <<target, since, nextIn, healthy, entries>>

\* The catch block, over whatever a later scrape has written.
Fail(s) ==
  /\ Fails(s)
  /\ scrapes' = scrapes \ {s}
  /\ healthy' = FALSE
  /\ UNCHANGED <<target, since, nextIn, entries>>

Older(age) == IF age = Oldest THEN age ELSE age + 1

\* Time waits for the interval and for the signal of a scrape, which is over by
\* then: what a target that is not down has not lost it answers in time.
Tick ==
  /\ nextIn > 0
  /\ \A s \in scrapes : ~SignalFires(s)
  /\ nextIn' = nextIn - 1
  /\ scrapes' = {[s EXCEPT !.left = @ - 1] : s \in scrapes}
  /\ since' = IF since > Horizon THEN since ELSE since + 1
  /\ entries' = [i \in DOMAIN entries |-> Older(entries[i])]
  /\ UNCHANGED <<target, healthy>>

SNext ==
  \/ \E state \in {"up", "empty", "down"} : Turn(state)
  \/ ScrapeAll
  \/ \E s \in scrapes : Respond(s) \/ Lose(s) \/ Succeed(s) \/ Fail(s)
  \/ Tick

SSpec == SInit /\ [][SNext]_svars

-----------------------------------------------------------------------------
(* Properties *)

\* Scrapes of a target that hangs do not pile up, though none waits for another.
InFlightBounded == Cardinality(scrapes) <= Timeout \div Interval + 1

\* "Returns the current health status": the status is that of the target as it has
\* been for the Horizon, whichever order scrapes that overlap end in: neither an
\* answer of before an outage nor the signal of a scrape lost in one, both of which
\* overwrite what later scrapes have found, is the last word.
StatusCurrent == since > Horizon => (healthy <=> target # "down")

\* What the charts show of a target that is up is of now, and reaches no further
\* back than the retention window and the one scrape that is awaited.
ChartCurrent ==
  (since > Awaited /\ target = "up") =>
    /\ entries # <<>>
    /\ Last(entries) <= Awaited
    /\ Head(entries) <= Retention + Awaited
=============================================================================
