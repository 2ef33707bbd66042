---------------------------- MODULE SystemTables ----------------------------
(***************************************************************************)
(* clickhousesystemtablesreceiver: the rows of system.query_log, read one  *)
(* window of event times after the other and pushed as log records.        *)
(*                                                                         *)
(* ClickHouse (external) writes a row some time after its event, at most   *)
(* MaxFlush seconds, which min_scrape_delay_seconds must exceed.  Its      *)
(* clock and the receiver's ticker run at the same rate; the clock goes on *)
(* while the receiver waits for an answer.  Rows carry what toLogRecord    *)
(* looks at: a host, a type, and fields that are scalars, lists or maps.   *)
(***************************************************************************)
EXTENDS Naturals, FiniteSets

CONSTANTS Queries,                       \* [id -> a row without its event time]
          Interval, Delay,               \* scrapeIntervalSeconds, scrapeDelaySeconds
          MaxFlush, MaxTime, MaxFaults

\* What the configuration must choose: the delay covers the time a row takes.
Delayed ==
  /\ Interval \in Nat \ {0} /\ Delay \in Nat /\ MaxFlush \in Nat
  /\ MaxFlush <= Delay
  /\ MaxTime \in Nat /\ MaxFaults \in Nat

VARIABLES
  clock,      \* the server's clock, in seconds
  events,     \* [the queries that have been logged -> event time]
  flushed,    \* the ones whose row is in query_log
  st,         \* the receiver's goroutine
  pushed,     \* how often the next consumer has accepted the record of each query
  cancelled,  \* Shutdown has cancelled the context
  faults

stVars == <<clock, events, flushed, st, pushed, cancelled, faults>>

StInit ==
  /\ clock = 1
  /\ events = <<>> /\ flushed = {}
  /\ st = [pc |-> "select", due |-> clock + Interval + Delay, client |-> FALSE,
           start |-> 0, from |-> 0, now |-> 0, rows |-> {}]
  /\ pushed = [q \in DOMAIN Queries |-> 0]
  /\ cancelled = FALSE /\ faults = 0

----------------------------------------------------------------------------
(* ClickHouse                                                              *)

\* A query is logged with the current time.
Log(q) ==
  /\ q \notin DOMAIN events
  /\ events' = [x \in DOMAIN events \cup {q} |-> IF x = q THEN clock ELSE events[x]]
  /\ UNCHANGED <<clock, flushed, st, pushed, cancelled, faults>>

Flush(q) ==
  /\ q \in DOMAIN events \ flushed
  /\ flushed' = flushed \cup {q}
  /\ UNCHANGED <<clock, events, st, pushed, cancelled, faults>>

\* A second passes; a row is never later than MaxFlush.
ClockTick ==
  /\ clock < MaxTime
  /\ \A q \in DOMAIN events \ flushed : clock < events[q] + MaxFlush
  /\ clock' = clock + 1
  /\ UNCHANGED <<events, flushed, st, pushed, cancelled, faults>>

\* A call fails: by itself, or because its context is cancelled.
CallFails ==
  \/ faults < MaxFaults /\ faults' = faults + 1
  \/ cancelled /\ UNCHANGED faults

----------------------------------------------------------------------------
(* Rows become log records.                                                *)

\* A list is joined, a map (log_comment too, when it is a JSON object) becomes one attribute per
\* key: a field is a map when it has keys.
ToLogRecord(q) ==
  LET fields == Queries[q].fields
      flat(f) == IF fields[f] = {} THEN {<<f>>} ELSE {<<f, k>> : k \in fields[f]}
  IN [id |-> q, ts |-> events[q],
      severity |-> IF Queries[q].type = "exception" THEN "ERROR" ELSE "INFO",
      attrs |-> UNION {flat(f) : f \in DOMAIN fields} \cup {<<"source">>}]

\* One resource per host.
QueryLogsToPlogs(rows) ==
  [h \in {Queries[q].host : q \in rows} |->
     {ToLogRecord(q) : q \in {x \in rows : Queries[x].host = h}}]

----------------------------------------------------------------------------
(* The receiver                                                            *)

End == st.start + Interval

\* scrapeQueryLogIfReady returns: the ticker is reset to the seconds it says.
Wait(s, seconds) == [s EXCEPT !.pc = "select", !.due = clock + seconds, !.rows = {}]

\* A tick: the client is made if there is none.
TickerFires ==
  /\ st.pc = "select" /\ clock >= st.due
  /\ \/ st' = [st EXCEPT !.pc = "now", !.client = TRUE] /\ UNCHANGED faults
     \/ ~st.client /\ CallFails /\ st' = Wait(st, Interval)
  /\ UNCHANGED <<clock, events, flushed, pushed, cancelled>>

\* Late enough for the rows of the window to be in the table.
Ready(s) == s.now >= s.start + Interval + Delay

\* The server's time; the first one starts the first window.
UnixTsNow ==
  /\ st.pc = "now"
  /\ \/ LET s == [st EXCEPT !.now = clock,
                            !.start = IF @ = 0 THEN clock ELSE @,
                            !.from = IF @ = 0 THEN clock ELSE @]
        IN /\ st' = IF Ready(s) THEN [s EXCEPT !.pc = "query"]
                    ELSE Wait(s, s.start + Interval + Delay - s.now)
           /\ UNCHANGED faults
     \/ CallFails /\ st' = Wait(st, Interval)
  /\ UNCHANGED <<clock, events, flushed, pushed, cancelled>>

ScrapeQueryLogTable(min, max) == {q \in flushed : events[q] >= min /\ events[q] < max}

ScrapeQueryLog ==
  /\ st.pc = "query"
  /\ \/ st' = [st EXCEPT !.pc = "push", !.rows = ScrapeQueryLogTable(st.start, End)] /\ UNCHANGED faults
     \/ CallFails /\ st' = Wait(st, Interval)
  /\ UNCHANGED <<clock, events, flushed, pushed, cancelled>>

\* Mutant of Scraped: after an error the window is left behind.
ScrapedForgetting(s, ok) ==
  LET next == End + Interval + Delay
  IN Wait([s EXCEPT !.start = End], IF ok /\ next > s.now THEN next - s.now ELSE 0)

\* Only a window that was pushed is left behind, and the next one follows at once when its time
\* has come already; no subtraction wraps.
Scraped(s, ok) ==
  LET next == End + Interval + Delay
  IN IF ~ok THEN Wait(s, Interval)
     ELSE Wait([s EXCEPT !.start = End], IF next > s.now THEN next - s.now ELSE 0)

Accept(logs) ==
  LET records == UNION {logs[h] : h \in DOMAIN logs}
  IN pushed' = [q \in DOMAIN pushed |-> pushed[q] + Cardinality({r \in records : r.id = q})]

\* The next consumer takes all of the push, or refuses it.
Push ==
  /\ st.pc = "push"
  /\ \/ Accept(QueryLogsToPlogs(st.rows)) /\ st' = Scraped(st, TRUE) /\ UNCHANGED faults
     \/ CallFails /\ st' = Scraped(st, FALSE) /\ UNCHANGED pushed
  /\ UNCHANGED <<clock, events, flushed, cancelled>>

StShutdown ==
  /\ ~cancelled
  /\ cancelled' = TRUE
  /\ UNCHANGED <<clock, events, flushed, st, pushed, faults>>

\* The select sees the cancelled context; Shutdown returns.
RunReturns ==
  /\ st.pc = "select" /\ cancelled
  /\ st' = [st EXCEPT !.pc = "ended"]
  /\ UNCHANGED <<clock, events, flushed, pushed, cancelled, faults>>

StNext ==
  \/ \E q \in DOMAIN Queries : Log(q) \/ Flush(q)
  \/ ClockTick \/ TickerFires \/ UnixTsNow \/ ScrapeQueryLog \/ Push
  \/ StShutdown \/ RunReturns

StSpec == StInit /\ [][StNext]_stVars

----------------------------------------------------------------------------
(* Properties.                                                             *)

\* The windows neither overlap nor leave a gap, through late rows, failed calls, waits and
\* catching up: no event is pushed twice, and one in a window left behind has been pushed.
EveryEventOnce ==
  \A q \in DOMAIN events :
    /\ pushed[q] <= 1
    /\ st.from > 0 /\ events[q] >= st.from /\ events[q] < st.start => pushed[q] = 1
=============================================================================
