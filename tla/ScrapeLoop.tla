----------------------------- MODULE ScrapeLoop -----------------------------
(***************************************************************************)
(* What the scrape loops of one target append: the scrape cache, a scrape  *)
(* and its report, the stale markers of a series that is gone, and the     *)
(* markers of a loop that has ended.                                       *)
(*                                                                         *)
(* A loop is one goroutine, so a scrape is one step.  A scraped body is a  *)
(* sequence of series, or of Unparsable for text the parser or the label   *)
(* checks refuse; no sample has a timestamp of its own.  The iteration at  *)
(* which the cache saw an entry only matters by being the current one: the *)
(* entries seen in this iteration are the set seen.                        *)
(***************************************************************************)
EXTENDS Integers, FiniteSets, Sequences

CONSTANTS Series,         \* series of the target that get a reference, by which they are named
          Dropped,        \* the series that metric relabelling drops
          Unparsable,
          SampleLimit,    \* 0 is no limit
          CacheSlack,     \* how far the cache may outgrow the last good scrape
          MaxBody, MaxScrapes, MaxCommitFailures

ASSUME ScrapeLoopAssumption == Dropped \subseteq Series /\ Unparsable \notin Series

VARIABLES
  appender,   \* the version of the appender interface, 1 or 2
  loop,       \* "on" while a loop scrapes the target, "off"; and whether it has scraped yet
  cache,      \* the cache of the current loop
  ending,     \* a stopped loop that waits to write its markers
  last,       \* the newest point of each series downstream: "none", "sample" or "stale"
  cycle,      \* the last scrape: what it reported and what it delivered
  lost,       \* markers were lost: a commit failed, or a loop ended that had not yet used the
              \* cache it took over
  budget

loopVars == <<appender, loop, cache, ending, last, cycle, lost, budget>>

Bodies == UNION {[1..n -> Series \cup {Unparsable}] : n \in 0..MaxBody}

NewScrapeCache == [series |-> {}, dropped |-> {}, seen |-> {}, cur |-> {}, prev |-> {}, good |-> 0]
NoEnding == [state |-> "none", prev |-> {}, since |-> {}, again |-> FALSE]

LoopInit ==
  /\ appender \in {1, 2}
  /\ loop = [on |-> TRUE, scraped |-> FALSE]
  /\ cache = NewScrapeCache
  /\ ending = NoEnding
  /\ last = [s \in Series |-> "none"]
  /\ cycle = [up |-> -1, samples |-> {}]
  /\ lost = FALSE
  /\ budget = [scrapes |-> MaxScrapes, commits |-> MaxCommitFailures]

----------------------------------------------------------------------------
(* The cache.                                                              *)

\* A flush keeps what this iteration has seen; a cache that grew too far in failed scrapes is
\* flushed as well.
IterDone(c, flush) ==
  LET count == Cardinality(c.series) + Cardinality(c.dropped)
      all   == flush \/ count > 2 * c.good + CacheSlack
  IN [c EXCEPT !.good = IF flush THEN count ELSE @,
               !.series = IF all THEN @ \cap c.seen ELSE @,
               !.dropped = IF all THEN @ \cap c.seen ELSE @,
               !.seen = {}, !.prev = c.cur, !.cur = {}]

\* Mutant of ForEachStale: series of the last scrape that are no longer in the cache.
ForEachStaleDropped(c) == c.prev \ c.series

\* The series of the last scrape that this one has not shown.
ForEachStale(c) == c.prev \ c.cur

----------------------------------------------------------------------------
(* append: the entries of a body, one after the other, until one fails.    *)

NothingRead(c) == [cache |-> c, samples |-> {}, stale |-> {}, n |-> 0, limited |-> FALSE, err |-> FALSE]

\* The appender with limits refuses a sample beyond them.
OverLimit(st) == SampleLimit > 0 /\ st.n >= SampleLimit

\* A series that relabelling drops is remembered as dropped.
AddDropped(st, s) == [st EXCEPT !.cache.dropped = @ \cup {s}, !.cache.seen = @ \cup {s}]

Duplicate(st, s) == s \in st.cache.series \cap st.cache.seen

\* checkAddError: a duplicate is counted and passed over, the limit is noted for the end.
Taken(st, s) == ~Duplicate(st, s) /\ ~OverLimit(st)

\* The sample, the cache (get and addRef) and whether the series is tracked for staleness.
AddSample(st, s, track) ==
  [st EXCEPT !.n = IF Duplicate(st, s) THEN @ ELSE @ + 1,
             !.limited = @ \/ (~Duplicate(st, s) /\ OverLimit(st)),
             !.samples = IF Taken(st, s) THEN @ \cup {s} ELSE @,
             !.cache.series = IF Taken(st, s) THEN @ \cup {s} ELSE @,
             !.cache.seen = IF s \in st.cache.series \/ Taken(st, s) THEN @ \cup {s} ELSE @,
             !.cache.cur = IF track THEN @ \cup {s} ELSE @]

\* One entry of the body.  The first version tracks a series if its sample was taken ...
AppendEntryV1(st, s) ==
  CASE st.err -> st
    [] ~st.err /\ s = Unparsable -> [st EXCEPT !.err = TRUE]
    [] ~st.err /\ s \in Dropped -> AddDropped(st, s)
    [] OTHER -> AddSample(st, s, Taken(st, s))

\* ... the second, which the receiver uses, one that the cache knows whatever became of the sample.
AppendEntryV2(st, s) ==
  CASE st.err -> st
    [] ~st.err /\ s = Unparsable -> [st EXCEPT !.err = TRUE]
    [] ~st.err /\ s \in Dropped -> AddDropped(st, s)
    [] OTHER -> AddSample(st, s, Taken(st, s) \/ s \in st.cache.series)

\* The entries of a body, up to the last one that counts.
AppendEntry(st, s) == IF appender = 1 THEN AppendEntryV1(st, s) ELSE AppendEntryV2(st, s)
AppendEntries(c, body) ==
  LET after[i \in 0..Len(body)] == IF i = 0 THEN NothingRead(c) ELSE AppendEntry(after[i - 1], body[i])
  IN after[Len(body)]

\* After the last entry the limit becomes the error; without one the markers follow, and the
\* cache is flushed and swapped.
EndOfBody(st) ==
  IF st.err \/ st.limited THEN [st EXCEPT !.err = TRUE]
  ELSE [st EXCEPT !.stale = ForEachStale(st.cache), !.cache = IterDone(st.cache, TRUE)]

\* An empty body only writes the markers and swaps the cache.
AppendBody(c, body) ==
  IF body = <<>>
  THEN [NothingRead(c) EXCEPT !.stale = ForEachStale(c), !.cache = IterDone(c, FALSE)]
  ELSE EndOfBody(AppendEntries(c, body))

----------------------------------------------------------------------------
(* The loop.                                                               *)

\* What downstream knows after a transaction with samples and markers was committed.
Deliver(samples, stale) ==
  last' = [s \in Series |-> IF s \in samples THEN "sample" ELSE IF s \in stale THEN "stale" ELSE last[s]]

\* A loop that waits to write its markers is overtaken by the samples of another scrape.
Since(samples) ==
  IF ending.state = "timed" THEN [ending EXCEPT !.since = @ \cup samples, !.again = TRUE] ELSE ending

\* The report is appended to the last appender, which is then committed; the consumer may
\* refuse it.  The cache has been swapped either way.
ReportAndCommit(failed, out) ==
  /\ cache' = out.cache
  /\ loop' = [loop EXCEPT !.scraped = TRUE]
  /\ \/ /\ Deliver(out.samples, out.stale)
        /\ cycle' = [up |-> IF failed THEN 0 ELSE 1, samples |-> out.samples]
        /\ ending' = Since(out.samples)
        /\ budget' = [budget EXCEPT !.scrapes = @ - 1]
        /\ UNCHANGED lost
     \/ /\ budget.commits > 0
        /\ cycle' = [cycle EXCEPT !.up = -1]
        /\ budget' = [budget EXCEPT !.scrapes = @ - 1, !.commits = @ - 1]
        /\ lost' = TRUE
        /\ ending' = Since({})
        /\ UNCHANGED last
  /\ UNCHANGED appender

\* An append that failed is rolled back, and an empty one to a new appender writes the markers.
Rejected(out) == AppendBody(out.cache, <<>>)

\* scrapeAndReport with an answer from the target.
ScrapeAndReport(body) ==
  LET out == AppendBody(cache, body)
  IN /\ loop.on /\ budget.scrapes > 0
     /\ IF out.err THEN ReportAndCommit(TRUE, Rejected(out))
                   ELSE ReportAndCommit(FALSE, out)

\* scrapeAndReport with a forced error, or without an answer: "the same as an empty scrape".
ScrapeFails ==
  /\ loop.on /\ budget.scrapes > 0
  /\ ReportAndCommit(TRUE, AppendBody(cache, <<>>))

\* restartLoops with a cache the new configuration can use: the old loop writes no markers.
RestartKeepingCache ==
  /\ loop.on /\ loop.scraped
  /\ loop' = [on |-> TRUE, scraped |-> FALSE]
  /\ UNCHANGED <<appender, cache, ending, last, cycle, lost, budget>>

\* The loop has stopped: endOfRunStaleness, if it ever scraped.  A loop that had taken over a
\* cache and has not scraped yet ends without the markers.
StopLoop(next) ==
  /\ ending' = IF loop.scraped THEN [NoEnding EXCEPT !.state = "ended", !.prev = cache.prev] ELSE ending
  /\ loop' = next
  /\ cache' = NewScrapeCache
  /\ lost' = (lost \/ (~loop.scraped /\ cache.prev # {}))
  /\ UNCHANGED <<appender, last, cycle, budget>>

\* A new configuration or symbol table: a new loop with a new cache.
RestartWithNewCache == loop.on /\ ending.state = "none" /\ StopLoop([on |-> TRUE, scraped |-> FALSE])

\* The target is no longer discovered ...
TargetDisappears == loop.on /\ ending.state = "none" /\ StopLoop([on |-> FALSE, scraped |-> FALSE])

\* ... or is again.
TargetAppears ==
  /\ ~loop.on /\ budget.scrapes > 0
  /\ loop' = [on |-> TRUE, scraped |-> FALSE]
  /\ UNCHANGED <<appender, cache, ending, last, cycle, lost, budget>>

\* endOfRunStaleness: at the first tick it notes the time of the markers ...
StaleTime ==
  /\ ending.state = "ended"
  /\ ending' = [ending EXCEPT !.state = "timed"]
  /\ UNCHANGED <<appender, loop, cache, last, cycle, lost, budget>>

\* It then lets another interval and a tenth pass, in which the loop that came after it, if there
\* is one, scrapes again (its interval is taken not to be longer).
IntervalPassed == ending.state = "timed" /\ (loop.on => ending.again)

\* Mutant of EndOfRunStaleness: the markers carry the time of the write.
EndOfRunStalenessNow ==
  /\ IntervalPassed
  /\ Deliver({}, ending.prev)
  /\ ending' = NoEnding
  /\ UNCHANGED <<appender, loop, cache, cycle, lost, budget>>

\* ... and writes them with the noted time: a sample that came since is newer.
EndOfRunStaleness ==
  /\ IntervalPassed
  /\ Deliver({}, ending.prev \ ending.since)
  /\ ending' = NoEnding
  /\ UNCHANGED <<appender, loop, cache, cycle, lost, budget>>

LoopNext ==
  \/ \E body \in Bodies : ScrapeAndReport(body)
  \/ ScrapeFails
  \/ RestartKeepingCache \/ RestartWithNewCache \/ TargetDisappears \/ TargetAppears
  \/ StaleTime \/ EndOfRunStaleness

LoopSpec == LoopInit /\ [][LoopNext]_loopVars

----------------------------------------------------------------------------
(* Properties.                                                             *)

\* Until markers are lost, a series whose newest point is a sample is one a loop still watches:
\* the current loop's cache or a loop that is ending will mark it stale when it is gone,
\* through failed and half-read scrapes, limits, restarts and a target that comes and goes.
LiveIsTracked ==
  ~lost => \A s \in Series : last[s] = "sample" => s \in cache.prev \cup (ending.prev \ ending.since)

\* A loop that has ended, and writes its markers two intervals later, marks nothing that the
\* current loop has scraped since: the samples of the last good scrape are the newest points.
NoFalseStale == loop.on /\ loop.scraped /\ cycle.up = 1 => \A s \in cycle.samples : last[s] = "sample"

\* Staleness is exact: every series that is gone will be marked stale, and no other.
StalenessIsExact == LiveIsTracked /\ NoFalseStale
=============================================================================
