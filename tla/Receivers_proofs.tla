-------------------------- MODULE Receivers_proofs --------------------------
(***************************************************************************)
(* Proofs about the query log receiver, for any queries, interval, delay   *)
(* and number of failing calls, and about the scrape loop of a target, for *)
(* any series, bodies, limit and slack of the cache, and any failures.     *)
(*                                                                         *)
(* EveryEventOnce is not inductive: it says nothing of the window that is  *)
(* being read.  Of that one the receiver must know that no event of it is  *)
(* still to come (WindowIsOver) and that all its rows are in the table     *)
(* (RowsInTime), so that the rows it holds are the events of the window    *)
(* (RowsAreTheWindow).                                                     *)
(*                                                                         *)
(* StalenessIsExact needs of an append, which goes over a body entry by    *)
(* entry, that every series whose sample it takes is tracked               *)
(* (SamplesAreTracked, by induction over the entries); and of a loop that  *)
(* waits to write its markers that it knows of every sample that came      *)
(* since (EndingKnows).                                                    *)
(***************************************************************************)
EXTENDS SystemTables, ScrapeLoop, FiniteSetTheorems, WellFoundedInduction, TLAPS

Goroutine == [pc : {"select", "now", "query", "push", "ended"}, due : Nat, client : BOOLEAN,
              start : Nat, from : Nat, now : Nat, rows : SUBSET DOMAIN Queries]

StType ==
  /\ clock \in Nat
  /\ DOMAIN events \subseteq DOMAIN Queries
  /\ \A q \in DOMAIN events : events[q] \in Nat /\ events[q] <= clock
  /\ flushed \subseteq DOMAIN events
  /\ st \in Goroutine
  /\ pushed \in [DOMAIN Queries -> Nat]

\* A row that is not in the table yet is one of an event not long ago.
RowsInTime == \A q \in DOMAIN events \ flushed : clock <= events[q] + MaxFlush

\* The window to be read begins where the last one ended, in the past.
WindowStarted ==
  /\ st.from = 0 <=> st.start = 0
  /\ st.from <= st.start /\ st.start <= clock
  /\ st.now <= clock

\* A window is read when it is over by the delay.
WindowIsOver == st.pc \in {"query", "push"} => st.start > 0 /\ Ready(st)

\* What has been read are the events of the window, all of them.
RowsAreTheWindow ==
  st.pc = "push" => st.rows = {q \in DOMAIN events : events[q] >= st.start /\ events[q] < End}

\* The events of the windows left behind have been pushed, once; the others have not.
PushedSoFar ==
  \A q \in DOMAIN Queries :
    pushed[q] = IF /\ q \in DOMAIN events /\ st.from > 0
                   /\ events[q] >= st.from /\ events[q] < st.start
                THEN 1 ELSE 0

StInv ==
  StType /\ RowsInTime /\ WindowStarted /\ WindowIsOver /\ RowsAreTheWindow /\ PushedSoFar

-----------------------------------------------------------------------------

\* A push has one record of each of its rows.
LEMMA OneRecordEach ==
  ASSUME NEW rows \in SUBSET DOMAIN Queries, NEW q \in DOMAIN Queries
  PROVE  LET logs == QueryLogsToPlogs(rows)
             records == UNION {logs[h] : h \in DOMAIN logs}
         IN  Cardinality({r \in records : r.id = q}) = IF q \in rows THEN 1 ELSE 0
<1> DEFINE logs == QueryLogsToPlogs(rows)
           records == UNION {logs[h] : h \in DOMAIN logs}
           Hosts == {Queries[x].host : x \in rows}
           Of(h) == {ToLogRecord(x) : x \in {y \in rows : Queries[y].host = h}}
<1>1. \A x \in DOMAIN Queries : ToLogRecord(x).id = x
  BY DEF ToLogRecord
<1>2. logs = [h \in Hosts |-> Of(h)]
  BY DEF QueryLogsToPlogs
<1>3. records = {ToLogRecord(x) : x \in rows}
  <2> HIDE DEF logs
  <2>1. DOMAIN logs = Hosts /\ \A h \in Hosts : logs[h] = Of(h)
    BY <1>2
  <2>2. records = UNION {Of(h) : h \in Hosts}
    <3> HIDE DEF Hosts, Of
    <3>1. {logs[h] : h \in DOMAIN logs} = {Of(h) : h \in Hosts}
      BY <2>1
    <3>2. QED
      BY <3>1
  <2>3. ASSUME NEW x \in rows PROVE ToLogRecord(x) \in Of(Queries[x].host) /\ Queries[x].host \in Hosts
    OBVIOUS
  <2>4. ASSUME NEW h \in Hosts, NEW r \in Of(h) PROVE r \in {ToLogRecord(x) : x \in rows}
    BY <2>4
  <2> HIDE DEF Hosts, Of
  <2>5. QED
    BY <2>2, <2>3, <2>4
<1> HIDE DEF logs, records
<1>4. CASE q \in rows
  <2>1. {r \in records : r.id = q} = {ToLogRecord(q)}
    BY <1>1, <1>3, <1>4
  <2>2. QED
    BY <1>4, <2>1, FS_Singleton DEF logs, records
<1>5. CASE q \notin rows
  <2>1. {r \in records : r.id = q} = {}
    BY <1>1, <1>3, <1>5
  <2>2. QED
    BY <1>5, <2>1, FS_EmptySet DEF logs, records
<1>6. QED
  BY <1>4, <1>5

\* The receiver starts as it should.
LEMMA StStarts == Delayed /\ StInit => StInv
<1> SUFFICES ASSUME Delayed, StInit PROVE StInv
  OBVIOUS
<1> USE DEF Delayed, StInit
<1>1. DOMAIN events = {}
  OBVIOUS
<1>2. StType
  BY <1>1 DEF StType, Goroutine
<1>3. QED
  BY <1>1, <1>2 DEF StInv, RowsInTime, WindowStarted, WindowIsOver, RowsAreTheWindow, PushedSoFar

\* The numbers of the receiver.
LEMMA StNumbers ==
  ASSUME Delayed, StInv
  PROVE  /\ clock \in Nat /\ Interval \in Nat /\ Delay \in Nat /\ MaxFlush \in Nat /\ Interval > 0
         /\ st.start \in Nat /\ st.from \in Nat /\ st.now \in Nat /\ st.now <= clock
         /\ End \in Nat /\ End = st.start + Interval
BY DEF StInv, StType, Goroutine, WindowStarted, Delayed, End

\* A receiver that waits is one.
LEMMA WaitType ==
  ASSUME NEW s \in Goroutine, NEW d \in Nat, clock \in Nat
  PROVE  /\ Wait(s, d) \in Goroutine
         /\ Wait(s, d).pc = "select" /\ Wait(s, d).start = s.start
         /\ Wait(s, d).from = s.from /\ Wait(s, d).now = s.now
<1> DEFINE a == [s EXCEPT !.pc = "select"]
           b == [a EXCEPT !.due = clock + d]
           c == [b EXCEPT !.rows = {}]
<1>1. /\ a \in Goroutine /\ a.pc = "select"
      /\ a.start = s.start /\ a.from = s.from /\ a.now = s.now
  BY DEF Goroutine
<1> HIDE DEF a
<1>2. /\ b \in Goroutine /\ b.pc = "select"
      /\ b.start = s.start /\ b.from = s.from /\ b.now = s.now
  BY <1>1 DEF Goroutine
<1> HIDE DEF b
<1>3. /\ c \in Goroutine /\ c.pc = "select"
      /\ c.start = s.start /\ c.from = s.from /\ c.now = s.now
  BY <1>2 DEF Goroutine
<1>4. Wait(s, d) = c
  BY Zenon DEF Wait, a, b, c
<1>5. QED
  BY <1>3, <1>4

\* ClickHouse's steps preserve the invariant: a new event is after the window that is
\* read, and time passes only up to the last moment of a row.
LEMMA ServerSideStep ==
  ASSUME Delayed, StInv,
         ClockTick \/ \E q \in DOMAIN Queries : Log(q) \/ Flush(q)
  PROVE  StInv'
<1> USE DEF StInv, StType, Delayed
<1>1. CASE ClockTick
  <2>1. StType' /\ clock' = clock + 1 /\ UNCHANGED <<events, flushed, st, pushed>>
    BY <1>1 DEF ClockTick
  <2>2. RowsInTime'
    BY <1>1, <2>1 DEF ClockTick, RowsInTime
  <2>3. QED
    BY <2>1, <2>2, StNumbers DEF WindowStarted, WindowIsOver, RowsAreTheWindow, PushedSoFar, Ready, End
<1>2. ASSUME NEW q \in DOMAIN Queries, Log(q) PROVE StInv'
  <2>1. /\ q \notin DOMAIN events /\ DOMAIN events' = DOMAIN events \cup {q}
        /\ events'[q] = clock /\ \A x \in DOMAIN events : events'[x] = events[x]
        /\ UNCHANGED <<clock, flushed, st, pushed>>
    BY <1>2 DEF Log
  <2>2. StType' /\ RowsInTime'
    BY <2>1 DEF RowsInTime
  <2>3. WindowStarted' /\ WindowIsOver'
    BY <2>1 DEF WindowStarted, WindowIsOver, Ready
  <2>4. RowsAreTheWindow'
    <3>1. st.pc = "push" => ~(clock < End)
      BY StNumbers DEF WindowIsOver, Ready
    <3>2. End' = End
      BY <2>1 DEF End
    <3>3. QED
      BY <2>1, <3>1, <3>2 DEF RowsAreTheWindow
  <2>5. PushedSoFar'
    BY <2>1, StNumbers DEF PushedSoFar, WindowStarted
  <2>6. QED
    BY <2>2, <2>3, <2>4, <2>5
<1>3. ASSUME NEW q \in DOMAIN Queries, Flush(q) PROVE StInv'
  <2>1. /\ flushed \subseteq flushed' /\ flushed' \subseteq DOMAIN events
        /\ UNCHANGED <<clock, events, st, pushed>>
    BY <1>3 DEF Flush
  <2>2. QED
    BY <2>1 DEF RowsInTime, WindowStarted, WindowIsOver, RowsAreTheWindow, PushedSoFar, Ready, End
<1>4. QED
  BY <1>1, <1>2, <1>3

\* A window that is over by the delay has no row to come.
LEMMA WindowIsComplete ==
  ASSUME Delayed, StInv, st.pc = "query"
  PROVE  ScrapeQueryLogTable(st.start, End) =
           {q \in DOMAIN events : events[q] >= st.start /\ events[q] < End}
<1>1. ASSUME NEW q \in DOMAIN events, events[q] < End PROVE q \in flushed
  <2>1. events[q] \in Nat
    BY DEF StInv, StType
  <2>2. ~(clock <= events[q] + MaxFlush)
    BY <1>1, <2>1, StNumbers DEF Delayed, StInv, WindowIsOver, Ready
  <2>3. QED
    BY <2>2 DEF StInv, RowsInTime
<1>2. QED
  BY <1>1 DEF ScrapeQueryLogTable, StInv, StType

\* The receiver waits for its ticker, in the window it is given.
LEMMA WaitKeepsWindow ==
  ASSUME Delayed, StInv, NEW s \in Goroutine, NEW d \in Nat,
         \/ s.start = st.start /\ s.from = st.from
         \/ st.start = 0 /\ s.start = clock /\ s.from = clock,
         s.now <= clock,
         st' = Wait(s, d), UNCHANGED <<clock, events, flushed, pushed>>
  PROVE  StInv'
<1> USE DEF StInv, StType
<1>1. st' \in Goroutine
  BY WaitType
<1>2. st'.pc = "select" /\ st'.start = s.start /\ st'.from = s.from /\ st'.now = s.now
  BY WaitType
<1>3. s.start \in Nat /\ s.from \in Nat /\ s.now \in Nat /\ st.start \in Nat /\ st.from \in Nat
  BY DEF Goroutine
<1>4. StType' /\ RowsInTime' /\ WindowIsOver' /\ RowsAreTheWindow'
  BY <1>1, <1>2 DEF RowsInTime, WindowIsOver, RowsAreTheWindow
<1>5. WindowStarted'
  BY <1>2, <1>3 DEF WindowStarted
<1>6. PushedSoFar'
  BY <1>2, <1>3 DEF PushedSoFar, WindowStarted
<1>7. QED
  BY <1>4, <1>5, <1>6

\* A window that was pushed is left behind, and the receiver waits for the end of the next.
LEMMA ScrapedPushed ==
  ASSUME NEW s, s.now \in Nat, End \in Nat, Interval \in Nat, Delay \in Nat
  PROVE  \E d \in Nat : Scraped(s, TRUE) = Wait([s EXCEPT !.start = End], d)
<1> DEFINE next == End + Interval + Delay
           d == IF next > s.now THEN next - s.now ELSE 0
<1>1. Scraped(s, TRUE) = Wait([s EXCEPT !.start = End], d)
  BY Zenon DEF Scraped
<1>2. d \in Nat
  OBVIOUS
<1> HIDE DEF d
<1>3. QED
  BY <1>1, <1>2

\* After an error it waits an interval and reads the same window.
LEMMA RetryKeepsWindow ==
  ASSUME Delayed, StInv, st' = Wait(st, Interval), UNCHANGED <<clock, events, flushed, pushed>>
  PROVE  StInv'
<1>1. st \in Goroutine /\ Interval \in Nat /\ st.now <= clock
  BY StNumbers DEF StInv, StType
<1>2. QED
  BY <1>1, WaitKeepsWindow, Zenon

\* The receiver's steps preserve the invariant.
LEMMA ReceiverStep ==
  ASSUME Delayed, StInv,
         TickerFires \/ UnixTsNow \/ ScrapeQueryLog \/ Push \/ StShutdown \/ RunReturns
  PROVE  StInv'
<1> USE DEF StInv, StType, Delayed
<1>1. /\ clock \in Nat /\ Interval \in Nat
      /\ st.start \in Nat /\ st.from \in Nat /\ st.now \in Nat /\ st.now <= clock
  BY StNumbers
<1>2. ASSUME st' = Wait(st, Interval), UNCHANGED <<clock, events, flushed, pushed>> PROVE StInv'
  BY <1>2, RetryKeepsWindow
<1>3. CASE TickerFires
  <2>1. UNCHANGED <<clock, events, flushed, pushed>>
    BY <1>3 DEF TickerFires
  <2>2. CASE st' = [st EXCEPT !.pc = "now", !.client = TRUE]
    <3>1. /\ st' \in Goroutine /\ st'.pc = "now"
          /\ st'.start = st.start /\ st'.from = st.from /\ st'.now = st.now
      BY <2>2 DEF Goroutine
    <3>2. QED
      BY <2>1, <3>1 DEF RowsInTime, WindowStarted, WindowIsOver, RowsAreTheWindow, PushedSoFar
  <2>3. QED
    BY <1>2, <1>3, <2>1, <2>2 DEF TickerFires
<1>4. CASE StShutdown \/ RunReturns
  <2>1. UNCHANGED <<clock, events, flushed, pushed>>
    BY <1>4 DEF StShutdown, RunReturns
  <2>2. CASE UNCHANGED st
    BY <2>1, <2>2 DEF RowsInTime, WindowStarted, WindowIsOver, RowsAreTheWindow, PushedSoFar, Ready, End
  <2>3. CASE st' = [st EXCEPT !.pc = "ended"]
    <3>1. /\ st' \in Goroutine /\ st'.pc = "ended"
          /\ st'.start = st.start /\ st'.from = st.from /\ st'.now = st.now
      BY <2>3 DEF Goroutine
    <3>2. QED
      BY <2>1, <3>1 DEF RowsInTime, WindowStarted, WindowIsOver, RowsAreTheWindow, PushedSoFar
  <2>4. QED
    BY <1>4, <2>2, <2>3 DEF StShutdown, RunReturns
<1>5. CASE UnixTsNow
  <2> DEFINE s == [st EXCEPT !.now = clock,
                             !.start = IF @ = 0 THEN clock ELSE @,
                             !.from = IF @ = 0 THEN clock ELSE @]
  <2>1. UNCHANGED <<clock, events, flushed, pushed>>
    BY <1>5 DEF UnixTsNow
  <2>2. /\ s \in Goroutine /\ s.now = clock
        /\ s.start = IF st.start = 0 THEN clock ELSE st.start
        /\ s.from = IF st.from = 0 THEN clock ELSE st.from
    BY <1>1 DEF Goroutine
  <2> HIDE DEF s
  <2>3. \/ s.start = st.start /\ s.from = st.from
        \/ st.start = 0 /\ s.start = clock /\ s.from = clock
    BY <1>1, <2>2 DEF WindowStarted
  <2>4. CASE Ready(s) /\ st' = [s EXCEPT !.pc = "query"]
    <3>1. /\ st' \in Goroutine /\ st'.pc = "query"
          /\ st'.start = s.start /\ st'.from = s.from /\ st'.now = clock
      BY <2>2, <2>4 DEF Goroutine
    <3>2. StType' /\ RowsInTime' /\ RowsAreTheWindow'
      BY <2>1, <3>1 DEF RowsInTime, RowsAreTheWindow
    <3>3. WindowStarted' /\ PushedSoFar'
      BY <1>1, <2>1, <2>3, <3>1 DEF WindowStarted, PushedSoFar
    <3>4. WindowIsOver'
      <4>1. s.start > 0 /\ clock >= s.start + Interval + Delay
        <5>1. clock >= s.start + Interval + Delay
          BY <2>2, <2>4 DEF Ready
        <5>2. s.start # clock /\ st.start # 0
          BY <1>1, <2>2, <5>1
        <5>3. QED
          BY <1>1, <2>2, <5>1, <5>2
      <4>2. QED
        BY <2>1, <3>1, <4>1 DEF WindowIsOver, Ready
    <3>5. QED
      BY <3>2, <3>3, <3>4
  <2>5. CASE ~Ready(s) /\ st' = Wait(s, s.start + Interval + Delay - s.now)
    <3>1. s.start + Interval + Delay - s.now \in Nat
      BY <1>1, <2>2, <2>5 DEF Ready
    <3>2. s.now <= clock
      BY <1>1, <2>2
    <3>3. QED
      BY <2>1, <2>2, <2>3, <2>5, <3>1, <3>2, WaitKeepsWindow
  <2>6. QED
    BY <1>2, <1>5, <2>1, <2>4, <2>5 DEF UnixTsNow, s
<1>6. CASE ScrapeQueryLog
  <2>1. UNCHANGED <<clock, events, flushed, pushed>> /\ st.pc = "query"
    BY <1>6 DEF ScrapeQueryLog
  <2>2. CASE st' = [st EXCEPT !.pc = "push", !.rows = ScrapeQueryLogTable(st.start, End)]
    <3>1. ScrapeQueryLogTable(st.start, End) \in SUBSET DOMAIN Queries
      BY DEF ScrapeQueryLogTable
    <3>2. /\ st' \in Goroutine /\ st'.pc = "push"
          /\ st'.rows = ScrapeQueryLogTable(st.start, End)
          /\ st'.start = st.start /\ st'.from = st.from /\ st'.now = st.now
      BY <2>2, <3>1 DEF Goroutine
    <3>3. QED
      BY <2>1, <3>2, WindowIsComplete
         DEF RowsInTime, WindowStarted, WindowIsOver, RowsAreTheWindow, PushedSoFar, Ready, End
  <2>3. QED
    BY <1>2, <1>6, <2>1, <2>2 DEF ScrapeQueryLog
<1>7. CASE Push
  <2>1. UNCHANGED <<clock, events, flushed>> /\ st.pc = "push"
    BY <1>7 DEF Push
  <2>2. CASE UNCHANGED pushed /\ st' = Scraped(st, FALSE)
    <3>1. st' = Wait(st, Interval)
      BY <2>2 DEF Scraped
    <3>2. QED
      BY <1>2, <2>1, <2>2, <3>1
  <2>3. CASE Accept(QueryLogsToPlogs(st.rows)) /\ st' = Scraped(st, TRUE)
    <3>1. \A q \in DOMAIN Queries : pushed'[q] = pushed[q] + IF q \in st.rows THEN 1 ELSE 0
      BY <2>3, OneRecordEach DEF Accept, Goroutine
    <3>2. pushed' \in [DOMAIN Queries -> Nat]
      <4>1. DOMAIN pushed' = DOMAIN Queries /\ pushed' = [q \in DOMAIN Queries |-> pushed'[q]]
        BY <2>3 DEF Accept
      <4>2. QED
        BY <3>1, <4>1
    <3>3. End \in Nat
      BY StNumbers
    <3>4. PICK d \in Nat : st' = Wait([st EXCEPT !.start = End], d)
      BY <1>1, <2>3, <3>3, ScrapedPushed DEF Delayed
    <3>5. /\ st' \in Goroutine /\ st'.pc = "select"
          /\ st'.start = End /\ st'.from = st.from /\ st'.now = st.now
      <4>1. /\ [st EXCEPT !.start = End] \in Goroutine
            /\ [st EXCEPT !.start = End].start = End
            /\ [st EXCEPT !.start = End].from = st.from /\ [st EXCEPT !.start = End].now = st.now
        BY <3>3 DEF Goroutine
      <4>2. QED
        BY <3>4, <4>1, WaitType
    <3>6. StType' /\ RowsInTime' /\ WindowIsOver' /\ RowsAreTheWindow'
      BY <2>1, <3>2, <3>5 DEF RowsInTime, WindowIsOver, RowsAreTheWindow
    <3>7. WindowStarted'
      BY <1>1, <2>1, <3>5, StNumbers DEF WindowStarted, WindowIsOver, Ready
    <3>8. PushedSoFar'
      BY <1>1, <2>1, <3>1, <3>5, StNumbers DEF PushedSoFar, RowsAreTheWindow, WindowIsOver, WindowStarted
    <3>9. QED
      BY <3>6, <3>7, <3>8
  <2>4. QED
    BY <1>7, <2>2, <2>3 DEF Push
<1>8. QED
  BY <1>3, <1>4, <1>5, <1>6, <1>7

\* For any queries, failures and stops: as long as the delay covers the time rows take to
\* get into the table, the windows neither overlap nor leave a gap.
THEOREM EventsArePushedOnce == Delayed => (StSpec => []EveryEventOnce)
<1> SUFFICES ASSUME Delayed PROVE StSpec => []EveryEventOnce
  OBVIOUS
<1>1. StInit => StInv
  BY StStarts
<1>2. StInv /\ [StNext]_stVars => StInv'
  <2> SUFFICES ASSUME StInv, [StNext]_stVars PROVE StInv'
    OBVIOUS
  <2>1. CASE UNCHANGED stVars
    BY <2>1 DEF stVars, StInv, StType, RowsInTime, WindowStarted, WindowIsOver, RowsAreTheWindow, PushedSoFar,
       Ready, End
  <2>2. QED
    BY <2>1, ServerSideStep, ReceiverStep DEF StNext
<1>3. StInv => EveryEventOnce
  BY DEF StInv, StType, PushedSoFar, EveryEventOnce
<1>4. QED
  BY <1>1, <1>2, <1>3, PTL DEF StSpec
-----------------------------------------------------------------------------
(* Iteration *)

\* A non-empty set of numbers has a least one.
LEMMA LeastNumber ==
  ASSUME NEW T, T \subseteq Nat, T # {}
  PROVE  \E x \in T : \A y \in T : x <= y
<1> DEFINE Less == {ss \in Nat \X Nat : ss[1] < ss[2]}
<1>1. IsWellFoundedOn(Less, Nat)
  BY NatLessThanWellFounded DEF OpToRel
<1> HIDE DEF Less
<1>2. PICK x \in T : \A y \in T : ~ (<<y, x>> \in Less)
  BY <1>1, WFMin
<1>3. ASSUME NEW y \in T PROVE x <= y
  <2>1. <<y, x>> \in Nat \X Nat
    OBVIOUS
  <2>2. ~ (y < x)
    BY <1>2, <2>1 DEF Less
  <2>3. QED
    BY <2>2
<1>4. QED
  BY <1>3

\* Induction over the numbers up to n, for a set.
LEMMA UpTo ==
  ASSUME NEW n \in Nat, NEW S, 0 \in S, \A i \in 0..(n - 1) : i \in S => i + 1 \in S
  PROVE  0..n \subseteq S
<1> SUFFICES ASSUME ~ (0..n \subseteq S) PROVE FALSE
  OBVIOUS
<1> DEFINE T == {i \in 0..n : i \notin S}
<1>1. T \subseteq Nat /\ T # {}
  OBVIOUS
<1>2. PICK x \in T : \A y \in T : x <= y
  <2> HIDE DEF T
  <2>1. QED
    BY <1>1, LeastNumber
<1>3. x \in 0..n /\ x # 0 /\ x - 1 \in 0..(n - 1)
  OBVIOUS
<1>4. x - 1 \in S
  BY <1>2, <1>3
<1>5. x \in S
  <2>1. (x - 1) + 1 = x
    BY <1>3
  <2>2. QED
    BY <1>3, <1>4, <2>1
<1>6. QED
  BY <1>5

\* A function that starts with base and goes on with h.
HasIteration(n, S, base, h) ==
  \E g \in [0..n -> S] : g[0] = base /\ \A i \in 1..n : g[i] = h[<<g[i - 1], i>>]

\* What is defined by iteration exists.
LEMMA IterationExists ==
  ASSUME NEW n \in Nat, NEW S, NEW base \in S, NEW h \in [S \X (1..n) -> S]
  PROVE  HasIteration(n, S, base, h)
<1> DEFINE Good(k, g) == /\ g \in [0..k -> S] /\ g[0] = base
                         /\ \A i \in 1..k : g[i] = h[<<g[i - 1], i>>]
           K == {k \in 0..n : \E g \in [0..k -> S] : Good(k, g)}
<1>1. 0 \in K
  <2> DEFINE z == [i \in 0..0 |-> base]
  <2>1. z \in [0..0 -> S] /\ z[0] = base
    OBVIOUS
  <2>2. \A i \in 1..0 : z[i] = h[<<z[i - 1], i>>]
    OBVIOUS
  <2>3. Good(0, z)
    BY <2>1, <2>2
  <2> HIDE DEF Good, z
  <2>4. QED
    BY <2>1, <2>3
<1>2. ASSUME NEW k \in 0..(n - 1), k \in K PROVE k + 1 \in K
  <2>1. PICK g \in [0..k -> S] : Good(k, g)
    BY <1>2
  <2> DEFINE x == h[<<g[k], k + 1>>]
             z == [i \in 0..(k + 1) |-> IF i = k + 1 THEN x ELSE g[i]]
  <2>2. k \in 0..k /\ k + 1 \in 1..n /\ g[k] \in S
    OBVIOUS
  <2>3. <<g[k], k + 1>> \in S \X (1..n)
    BY <2>2
  <2>4. x \in S
    BY <2>3
  <2> HIDE DEF x
  <2>5. \A i \in 0..k : i \in 0..(k + 1) /\ i # k + 1 /\ z[i] = g[i]
    OBVIOUS
  <2>6. z[k + 1] = x
    OBVIOUS
  <2>7. z \in [0..(k + 1) -> S]
    BY <2>4
  <2>8. z[0] = base
    BY <2>1, <2>5
  <2>9. ASSUME NEW i \in 1..(k + 1) PROVE z[i] = h[<<z[i - 1], i>>]
    <3>1. CASE i = k + 1
      <4>1. z[i - 1] = g[k]
        BY <2>2, <2>5, <3>1
      <4>2. QED
        BY <2>6, <3>1, <4>1 DEF x
    <3>2. CASE i # k + 1
      <4>1. i \in 1..k /\ i \in 0..k /\ i - 1 \in 0..k
        BY <3>2
      <4>2. z[i] = g[i] /\ z[i - 1] = g[i - 1]
        BY <2>5, <4>1
      <4>3. QED
        BY <2>1, <4>1, <4>2
    <3>3. QED
      BY <3>1, <3>2
  <2>10. Good(k + 1, z)
    BY <2>7, <2>8, <2>9
  <2>11. k + 1 \in 0..n
    OBVIOUS
  <2> HIDE DEF Good, z
  <2>12. QED
    BY <2>7, <2>10, <2>11
<1>3. n \in K
  <2> HIDE DEF K
  <2>1. 0..n \subseteq K
    BY <1>1, <1>2, UpTo
  <2>2. QED
    BY <2>1
<1>4. PICK g \in [0..n -> S] : Good(n, g)
  BY <1>3
<1>5. QED
  BY <1>4 DEF HasIteration

-----------------------------------------------------------------------------
(* An append *)

\* A cache of which the last good count is g.
Caches(g) == [series : SUBSET Series, dropped : SUBSET Series, seen : SUBSET Series,
              cur : SUBSET Series, prev : SUBSET Series, good : {g}]

\* What an append that began with cache c has come to: the last scrape's series are as they
\* were, and every series of which a sample was taken is tracked.
Appends(c) ==
  {z \in [cache : Caches(c.good), samples : SUBSET Series, stale : SUBSET Series, n : Nat,
          limited : BOOLEAN, err : BOOLEAN] :
     z.cache.prev = c.prev /\ z.samples \subseteq z.cache.cur}

\* An append begins so.
LEMMA NothingIsAppended ==
  ASSUME NEW g, NEW c \in Caches(g)
  PROVE  NothingRead(c) \in Appends(c)
BY DEF NothingRead, Appends, Caches

\* And every entry keeps it so, whether its sample is taken, a duplicate, over the limit,
\* dropped, or unparsable.
LEMMA SamplesAreTracked ==
  ASSUME NEW g, NEW c \in Caches(g), NEW z \in Appends(c), NEW s \in Series \cup {Unparsable}
  PROVE  AppendEntry(z, s) \in Appends(c)
<1>a. /\ z \in [cache : Caches(c.good), samples : SUBSET Series, stale : SUBSET Series, n : Nat,
                limited : BOOLEAN, err : BOOLEAN]
      /\ z.cache.prev = c.prev /\ z.samples \subseteq z.cache.cur
  BY DEF Appends
<1>1. CASE z.err
  <2>1. AppendEntry(z, s) = z
    BY <1>1, Zenon DEF AppendEntry, AppendEntryV1, AppendEntryV2
  <2>2. QED
    BY <2>1
<1>2. CASE ~z.err /\ s = Unparsable
  <2>1. AppendEntry(z, s) = [z EXCEPT !.err = TRUE]
    BY <1>2, ScrapeLoopAssumption DEF AppendEntry, AppendEntryV1, AppendEntryV2
  <2>2. QED
    BY <1>a, <2>1 DEF Appends
<1>3. CASE ~z.err /\ s # Unparsable /\ s \in Dropped
  <2>1. AppendEntry(z, s) = AddDropped(z, s)
    BY <1>3 DEF AppendEntry, AppendEntryV1, AppendEntryV2
  <2>2. AddDropped(z, s) \in Appends(c)
    BY <1>a, <1>3 DEF AddDropped, Appends, Caches
  <2>3. QED
    BY <2>1, <2>2
<1>4. CASE ~z.err /\ s # Unparsable /\ s \notin Dropped
  <2>1. \/ AppendEntry(z, s) = AddSample(z, s, Taken(z, s))
        \/ AppendEntry(z, s) = AddSample(z, s, Taken(z, s) \/ s \in z.cache.series)
    BY <1>4 DEF AppendEntry, AppendEntryV1, AppendEntryV2
  <2>2. ASSUME NEW track \in BOOLEAN, Taken(z, s) => track
        PROVE  AddSample(z, s, track) \in Appends(c)
    <3> DEFINE a == AddSample(z, s, track)
               series == IF Taken(z, s) THEN z.cache.series \cup {s} ELSE z.cache.series
               saw == IF s \in z.cache.series \/ Taken(z, s) THEN z.cache.seen \cup {s}
                      ELSE z.cache.seen
               cur == IF track THEN z.cache.cur \cup {s} ELSE z.cache.cur
               m == [z.cache EXCEPT !.series = series, !.seen = saw, !.cur = cur]
               limited == z.limited \/ (~Duplicate(z, s) /\ OverLimit(z))
               n == IF Duplicate(z, s) THEN z.n ELSE z.n + 1
               samples == IF Taken(z, s) THEN z.samples \cup {s} ELSE z.samples
    <3>1. a = [cache |-> m, samples |-> samples, stale |-> z.stale, n |-> n, limited |-> limited,
               err |-> z.err]
      <4>1. a = [z EXCEPT !.n = n, !.limited = limited, !.samples = samples,
                          !.cache.series = series, !.cache.seen = saw, !.cache.cur = cur]
        BY DEF AddSample
      <4> HIDE DEF a, n, limited, samples, series, saw, cur
      <4>2. /\ a.n = n /\ a.limited = limited /\ a.samples = samples
            /\ a.stale = z.stale /\ a.err = z.err
        BY <1>a, <4>1 DEF Caches
      <4>3. a.cache = m
        BY <1>a, <4>1 DEF Caches
      <4> HIDE DEF m
      <4>4. QED
        BY <1>a, <4>1, <4>2, <4>3
    <3>2. m \in Caches(c.good) /\ m.prev = z.cache.prev /\ m.cur = cur
      <4>1. series \in SUBSET Series /\ saw \in SUBSET Series /\ cur \in SUBSET Series
        BY <1>a, <1>4 DEF Caches
      <4> HIDE DEF series, saw, cur
      <4>2. QED
        BY <1>a, <4>1 DEF Caches
    <3>3. n \in Nat /\ samples \in SUBSET Series
      BY <1>a, <1>4
    <3>4. limited \in BOOLEAN
      BY Zenon
    <3>5. samples \subseteq m.cur
      BY <1>a, <2>2, <3>2
    <3> HIDE DEF a, m, limited, n, samples
    <3>6. a \in Appends(c)
      BY <1>a, <3>1, <3>2, <3>3, <3>4, <3>5 DEF Appends
    <3>7. QED
      BY <3>6 DEF a
  <2>3. Taken(z, s) \in BOOLEAN /\ (Taken(z, s) \/ s \in z.cache.series) \in BOOLEAN
    BY Zenon DEF Taken
  <2>4. QED
    BY <2>1, <2>2, <2>3
<1>5. QED
  BY <1>1, <1>2, <1>3, <1>4

\* So it is after all entries of a body.
LEMMA BodyIsAppended ==
  ASSUME NEW g, NEW c \in Caches(g), NEW b \in Bodies
  PROVE  AppendEntries(c, b) \in Appends(c)
<1> DEFINE n == Len(b)
           S == Appends(c)
           h == [x \in S \X (1..n) |-> AppendEntry(x[1], b[x[2]])]
           Iterates(f) == f = [i \in 0..n |-> IF i = 0 THEN NothingRead(c) ELSE AppendEntry(f[i - 1], b[i])]
           after == CHOOSE f : Iterates(f)
<1>1. n \in Nat /\ \A i \in 1..n : b[i] \in Series \cup {Unparsable}
  BY DEF Bodies
<1>2. NothingRead(c) \in S
  BY NothingIsAppended
<1>3. \A z \in S, i \in 1..n : AppendEntry(z, b[i]) \in S
  BY <1>1, SamplesAreTracked
<1>4. h \in [S \X (1..n) -> S]
  BY <1>3
<1>5. \A z \in S, i \in 1..n : h[<<z, i>>] = AppendEntry(z, b[i])
  OBVIOUS
<1>6. AppendEntries(c, b) = after[n]
  BY DEF AppendEntries
<1> HIDE DEF n, S, h
<1>7. PICK f \in [0..n -> S] : f[0] = NothingRead(c) /\ \A i \in 1..n : f[i] = h[<<f[i - 1], i>>]
  <2>1. HasIteration(n, S, NothingRead(c), h)
    BY <1>1, <1>2, <1>4, IterationExists
  <2>2. QED
    BY <2>1 DEF HasIteration
<1>8. Iterates(f)
  <2>1. ASSUME NEW i \in 0..n, i # 0 PROVE f[i] = AppendEntry(f[i - 1], b[i])
    <3>1. i \in 1..n /\ i - 1 \in 0..n
      BY <1>1, <2>1
    <3>2. QED
      BY <1>5, <1>7, <3>1
  <2>2. \A i \in 0..n : f[i] = IF i = 0 THEN NothingRead(c) ELSE AppendEntry(f[i - 1], b[i])
    BY <1>7, <2>1
  <2>3. QED
    BY <2>2
<1>9. Iterates(after)
  BY <1>8, Zenon
<1> HIDE DEF after
<1>10. 0..n \subseteq {i \in 0..n : after[i] \in S}
  <2> DEFINE D == {i \in 0..n : after[i] \in S}
  <2>1. 0 \in D
    BY <1>1, <1>2, <1>9
  <2>2. ASSUME NEW i \in 0..(n - 1), i \in D PROVE i + 1 \in D
    <3>1. i + 1 \in 1..n /\ i + 1 \in 0..n /\ (i + 1) - 1 = i
      BY <1>1
    <3>2. after[i + 1] = AppendEntry(after[i], b[i + 1])
      <4>1. \A j \in 0..n : j # 0 => after[j] = AppendEntry(after[j - 1], b[j])
        BY <1>9
      <4>2. i + 1 # 0
        BY <1>1
      <4>3. QED
        BY <3>1, <4>1, <4>2
    <3>3. QED
      BY <1>3, <2>2, <3>1, <3>2
  <2> HIDE DEF D
  <2>3. 0..n \subseteq D
    BY <1>1, <2>1, <2>2, UpTo
  <2>4. QED
    BY <2>3 DEF D
<1>11. QED
  BY <1>1, <1>6, <1>10 DEF S

\* IterDone swaps the generations of the cache: what was tracked in this scrape is what the
\* next one is compared with.
LEMMA GenerationsSwap ==
  ASSUME NEW g, NEW c \in Caches(g), NEW flush \in BOOLEAN
  PROVE  /\ IterDone(c, flush) \in Caches(IterDone(c, flush).good)
         /\ IterDone(c, flush).prev = c.cur
<1> DEFINE count == Cardinality(c.series) + Cardinality(c.dropped)
           all == flush \/ count > 2 * c.good + CacheSlack
           good == IF flush THEN count ELSE c.good
           series == IF all THEN c.series \cap c.seen ELSE c.series
           dropped == IF all THEN c.dropped \cap c.seen ELSE c.dropped
           d == IterDone(c, flush)
<1>1. d = [c EXCEPT !.good = good, !.series = series, !.dropped = dropped,
                    !.seen = {}, !.prev = c.cur, !.cur = {}]
  BY DEF IterDone
<1>2. series \in SUBSET Series /\ dropped \in SUBSET Series
  BY DEF Caches
<1> HIDE DEF good, series, dropped, d
<1>3. /\ d.good = good /\ d.series = series /\ d.dropped = dropped
      /\ d.seen = {} /\ d.prev = c.cur /\ d.cur = {}
  BY <1>1 DEF Caches
<1>4. d = [series |-> series, dropped |-> dropped, seen |-> {}, cur |-> {}, prev |-> c.cur,
           good |-> good]
  BY <1>1, <1>3 DEF Caches
<1>5. d \in Caches(d.good) /\ d.prev = c.cur
  BY <1>2, <1>4 DEF Caches
<1>6. QED
  BY <1>5 DEF d

\* What an append leaves, of a cache c: when it is rolled back, the last scrape's series as they
\* were, and otherwise every one of them marked stale or still tracked, like those of which it
\* took a sample.
Left(c, out) ==
  /\ out.samples \subseteq Series /\ out.stale \subseteq Series
  /\ out.cache \in Caches(out.cache.good)
  /\ out.err => out.cache.prev = c.prev
  /\ ~out.err => /\ out.samples \subseteq out.cache.prev
                 /\ c.prev \subseteq out.stale \cup out.cache.prev

LEMMA EmptyBodyLeft ==
  ASSUME NEW g, NEW c \in Caches(g)
  PROVE  /\ Left(c, AppendBody(c, <<>>))
         /\ AppendBody(c, <<>>).samples = {} /\ AppendBody(c, <<>>).err = FALSE
<1> DEFINE d == IterDone(c, FALSE)
           out == AppendBody(c, <<>>)
<1>1. d \in Caches(d.good) /\ d.prev = c.cur
  BY GenerationsSwap
<1>2. out = [NothingRead(c) EXCEPT !.stale = c.prev \ c.cur, !.cache = d]
  BY DEF AppendBody, ForEachStale
<1> HIDE DEF d, out
<1>3. /\ out.cache = d /\ out.stale = c.prev \ c.cur
      /\ out.samples = {} /\ out.err = FALSE
  BY <1>2 DEF NothingRead
<1>4. Left(c, out)
  BY <1>1, <1>3 DEF Left, Caches
<1>5. QED
  BY <1>3, <1>4 DEF out

LEMMA BodyLeft ==
  ASSUME NEW g, NEW c \in Caches(g), NEW b \in Bodies
  PROVE  Left(c, AppendBody(c, b)) /\ AppendBody(c, b).err \in BOOLEAN
<1>1. CASE b = <<>>
  BY <1>1, EmptyBodyLeft
<1>2. CASE b # <<>>
  <2> DEFINE z == AppendEntries(c, b)
             d == IterDone(z.cache, TRUE)
             out == AppendBody(c, b)
  <2>1. z \in Appends(c)
    BY BodyIsAppended
  <2>2. out = EndOfBody(z)
    BY <1>2 DEF AppendBody
  <2> HIDE DEF z
  <2>3. z.cache \in Caches(c.good) /\ z.cache.prev = c.prev /\ z.samples \subseteq z.cache.cur
        /\ z.samples \subseteq Series /\ z.stale \subseteq Series
    BY <2>1 DEF Appends
  <2>4. d \in Caches(d.good) /\ d.prev = z.cache.cur
    BY <2>3, GenerationsSwap
  <2> HIDE DEF d, out
  <2>5. CASE z.err \/ z.limited
    <3>1. out = [z EXCEPT !.err = TRUE]
      BY <2>2, <2>5 DEF EndOfBody
    <3>2. out.cache = z.cache /\ out.samples = z.samples /\ out.stale = z.stale /\ out.err = TRUE
      BY <2>1, <3>1 DEF Appends
    <3>3. z.cache.good = c.good
      BY <2>3 DEF Caches
    <3>4. QED
      BY <2>3, <3>2, <3>3 DEF Left, out
  <2>6. CASE ~(z.err \/ z.limited)
    <3>1. out = [z EXCEPT !.stale = c.prev \ z.cache.cur, !.cache = d]
      BY <2>2, <2>3, <2>6 DEF EndOfBody, ForEachStale, d
    <3>2. /\ out.cache = d /\ out.samples = z.samples /\ out.stale = c.prev \ z.cache.cur
          /\ out.err = z.err
      BY <2>1, <3>1 DEF Appends
    <3>3. out.err = FALSE
      BY <2>1, <2>6, <3>2 DEF Appends
    <3>4. QED
      BY <2>3, <2>4, <3>2, <3>3 DEF Left, Caches, out
  <2>7. QED
    BY <2>5, <2>6
<1>3. QED
  BY <1>1, <1>2

-----------------------------------------------------------------------------
(* The loop *)

LoopType ==
  /\ loop \in [on : BOOLEAN, scraped : BOOLEAN]
  /\ cache \in Caches(cache.good)
  /\ ending \in [state : {"none", "ended", "timed"}, prev : SUBSET Series, since : SUBSET Series,
                 again : BOOLEAN]
  /\ last \in [Series -> {"none", "sample", "stale"}]
  /\ cycle \in [up : {-1, 0, 1}, samples : SUBSET Series]
  /\ lost \in BOOLEAN

\* A loop that waits to write its markers knows the samples that came since it noted their time;
\* one that has not noted it has nothing since.
EndingKnows ==
  /\ ending.state = "none" => ending.prev = {}
  /\ ending.state \in {"none", "ended"} => ending.since = {} /\ ~ending.again
  /\ ending.again /\ cycle.up = 1 => cycle.samples \subseteq ending.since

LoopInv == LoopType /\ EndingKnows /\ LiveIsTracked /\ NoFalseStale

\* Before the first scrape.
LEMMA LoopStarts == LoopInit => LoopInv
<1> SUFFICES ASSUME LoopInit PROVE LoopInv
  OBVIOUS
<1>1. NewScrapeCache \in Caches(NewScrapeCache.good)
  BY DEF NewScrapeCache, Caches
<1>2. <<>> \in Bodies \cup {<<>>}
  OBVIOUS
<1>3. LoopType
  BY <1>1, <1>2 DEF LoopInit, LoopType, NoEnding
<1>4. EndingKnows /\ NoFalseStale
  BY DEF LoopInit, EndingKnows, NoFalseStale, NoEnding
<1>5. LiveIsTracked
  BY DEF LoopInit, LiveIsTracked
<1>6. QED
  BY <1>3, <1>4, <1>5 DEF LoopInv

\* What Deliver makes of the newest points.
LEMMA Delivered ==
  ASSUME last \in [Series -> {"none", "sample", "stale"}], NEW samples, NEW stale,
         Deliver(samples, stale)
  PROVE  /\ last' \in [Series -> {"none", "sample", "stale"}]
         /\ \A s \in Series : /\ s \in samples => last'[s] = "sample"
                              /\ s \notin samples /\ s \in stale => last'[s] = "stale"
                              /\ s \notin samples /\ s \notin stale => last'[s] = last[s]
BY DEF Deliver

\* A scrape, with its report and its commit, whether it was good, refused in part, or did not
\* come about.
LEMMA ScrapeStep ==
  ASSUME LoopInv, NEW failed \in BOOLEAN, NEW out,
         Left(cache, out), ~out.err, failed => out.samples = {},
         ReportAndCommit(failed, out)
  PROVE  LoopInv'
<1> USE DEF LoopInv
<1>1. cache' = out.cache /\ loop' = [loop EXCEPT !.scraped = TRUE]
  BY DEF ReportAndCommit
<1>2. /\ loop' \in [on : BOOLEAN, scraped : BOOLEAN] /\ loop'.scraped = TRUE
      /\ cache' \in Caches(cache'.good)
      /\ out.samples \subseteq cache'.prev /\ out.samples \subseteq Series
      /\ cache.prev \subseteq out.stale \cup cache'.prev
  BY <1>1 DEF LoopType, Left
<1>3. ASSUME NEW new \in SUBSET Series, ending' = Since(new)
      PROVE  /\ ending' \in [state : {"none", "ended", "timed"}, prev : SUBSET Series,
                             since : SUBSET Series, again : BOOLEAN]
             /\ ending'.state = ending.state /\ ending'.prev = ending.prev
             /\ ending.since \subseteq ending'.since /\ ending'.since \subseteq ending.since \cup new
             /\ ending'.state \in {"none", "ended"} => UNCHANGED ending
             /\ ending'.again => new \subseteq ending'.since
  <2>1. CASE ending.state = "timed"
    <3>1. ending' = [ending EXCEPT !.since = ending.since \cup new, !.again = TRUE]
      BY <1>3, <2>1 DEF Since
    <3>2. QED
      BY <2>1, <3>1 DEF LoopType
  <2>2. CASE ending.state # "timed"
    BY <1>3, <2>2 DEF Since, LoopType, EndingKnows
  <2>3. QED
    BY <2>1, <2>2
<1>4. CASE /\ Deliver(out.samples, out.stale)
           /\ cycle' = [up |-> IF failed THEN 0 ELSE 1, samples |-> out.samples]
           /\ ending' = Since(out.samples)
           /\ UNCHANGED lost
  <2>1. /\ last' \in [Series -> {"none", "sample", "stale"}]
        /\ \A s \in Series : /\ s \in out.samples => last'[s] = "sample"
                             /\ s \notin out.samples /\ s \in out.stale => last'[s] = "stale"
                             /\ s \notin out.samples /\ s \notin out.stale => last'[s] = last[s]
    BY <1>4, Delivered DEF LoopType
  <2>2. LoopType'
    BY <1>2, <1>3, <1>4, <2>1 DEF LoopType
  <2>3. EndingKnows'
    BY <1>2, <1>3, <1>4 DEF EndingKnows
  <2>4. LiveIsTracked'
    <3> SUFFICES ASSUME ~lost, NEW s \in Series, last'[s] = "sample", s \notin cache'.prev
                 PROVE  s \in ending'.prev \ ending'.since
      BY <1>4 DEF LiveIsTracked
    <3>1. s \notin out.samples /\ s \notin out.stale
      BY <1>2, <2>1
    <3>2. s \notin cache.prev /\ last[s] = "sample"
      BY <1>2, <2>1, <3>1
    <3>3. s \in ending.prev \ ending.since
      BY <3>2 DEF LiveIsTracked
    <3>4. QED
      BY <1>2, <1>3, <1>4, <3>1, <3>3
  <2>5. NoFalseStale'
    BY <1>2, <1>4, <2>1 DEF NoFalseStale
  <2>6. QED
    BY <2>2, <2>3, <2>4, <2>5
<1>5. CASE /\ cycle' = [cycle EXCEPT !.up = -1]
           /\ lost' = TRUE
           /\ ending' = Since({})
           /\ UNCHANGED last
  <2>1. cycle'.up = -1 /\ cycle' \in [up : {-1, 0, 1}, samples : SUBSET Series]
    BY <1>5 DEF LoopType
  <2>2. LoopType'
    BY <1>2, <1>3, <1>5, <2>1 DEF LoopType
  <2>3. EndingKnows'
    BY <1>3, <1>5, <2>1 DEF EndingKnows
  <2>4. LiveIsTracked' /\ NoFalseStale'
    BY <1>5, <2>1 DEF LiveIsTracked, NoFalseStale
  <2>5. QED
    BY <2>2, <2>3, <2>4
<1>6. QED
  BY <1>4, <1>5 DEF ReportAndCommit

\* Every way a scrape can go.
LEMMA ScrapesStep ==
  ASSUME LoopInv, ScrapeFails \/ \E b \in Bodies : ScrapeAndReport(b)
  PROVE  LoopInv'
<1>a. cache \in Caches(cache.good)
  BY DEF LoopInv, LoopType
<1>1. CASE ScrapeFails
  <2>1. Left(cache, AppendBody(cache, <<>>)) /\ AppendBody(cache, <<>>).samples = {}
        /\ AppendBody(cache, <<>>).err = FALSE
    BY <1>a, EmptyBodyLeft
  <2>2. ReportAndCommit(TRUE, AppendBody(cache, <<>>))
    BY <1>1 DEF ScrapeFails
  <2>3. QED
    BY <2>1, <2>2, ScrapeStep
<1>2. ASSUME NEW b \in Bodies, ScrapeAndReport(b) PROVE LoopInv'
  <2> DEFINE out == AppendBody(cache, b)
  <2>1. Left(cache, out) /\ out.err \in BOOLEAN
    BY <1>a, BodyLeft
  <2>2. CASE ~out.err
    <3>1. ReportAndCommit(FALSE, out)
      BY <1>2, <2>2 DEF ScrapeAndReport
    <3>2. QED
      BY <2>1, <2>2, <3>1, ScrapeStep
  <2>3. CASE out.err
    <3> DEFINE next == AppendBody(out.cache, <<>>)
    <3>1. ReportAndCommit(TRUE, next)
      BY <1>2, <2>3 DEF ScrapeAndReport, Rejected
    <3>2. out.cache \in Caches(out.cache.good) /\ out.cache.prev = cache.prev
      BY <2>1, <2>3 DEF Left
    <3>3. Left(out.cache, next) /\ next.samples = {} /\ next.err = FALSE
      BY <3>2, EmptyBodyLeft
    <3>4. Left(cache, next)
      BY <3>2, <3>3 DEF Left
    <3> HIDE DEF next
    <3>5. QED
      BY <3>1, <3>3, <3>4, ScrapeStep
  <2>4. QED
    BY <2>1, <2>2, <2>3
<1>3. QED
  BY <1>1, <1>2

\* A loop that stops leaves its last scrape's series to the markers it will write, and nothing
\* else waits to write markers then.
LEMMA StopStep ==
  ASSUME LoopInv, ending.state = "none", NEW next \in [on : BOOLEAN, scraped : {FALSE}],
         StopLoop(next)
  PROVE  LoopInv'
<1> USE DEF LoopInv
<1>1. /\ loop' = next /\ cache' = NewScrapeCache /\ UNCHANGED <<last, cycle>>
      /\ ending' = IF loop.scraped THEN [NoEnding EXCEPT !.state = "ended", !.prev = cache.prev]
                   ELSE ending
      /\ lost' = (lost \/ (~loop.scraped /\ cache.prev # {}))
  BY DEF StopLoop
<1>2. NewScrapeCache \in Caches(NewScrapeCache.good) /\ NewScrapeCache.prev = {}
  BY DEF NewScrapeCache, Caches
<1>3. cache.prev \subseteq Series
  BY DEF LoopType, Caches
<1>4. ending.prev = {} /\ ending.since = {} /\ ~ending.again
  BY DEF EndingKnows
<1>5. /\ ending' \in [state : {"none", "ended", "timed"}, prev : SUBSET Series,
                      since : SUBSET Series, again : BOOLEAN]
      /\ ending'.state \in {"none", "ended"} /\ ending'.since = {} /\ ~ending'.again
      /\ ending'.state = "none" => ending'.prev = {}
      /\ loop.scraped => ending'.prev = cache.prev
  BY <1>1, <1>3, <1>4 DEF LoopType, NoEnding
<1>6. lost' \in BOOLEAN
  BY <1>1, Zenon DEF LoopType
<1>7. LoopType'
  BY <1>1, <1>2, <1>5, <1>6 DEF LoopType
<1>8. EndingKnows' /\ NoFalseStale'
  BY <1>1, <1>5 DEF EndingKnows, NoFalseStale
<1>9. LiveIsTracked'
  BY <1>1, <1>2, <1>4, <1>5 DEF LiveIsTracked
<1>10. QED
  BY <1>7, <1>8, <1>9

\* The markers of a loop that has ended.
LEMMA MarkersStep ==
  ASSUME LoopInv, StaleTime \/ EndOfRunStaleness
  PROVE  LoopInv'
<1> USE DEF LoopInv
<1>1. CASE StaleTime
  <2>1. /\ ending.state = "ended" /\ ending' = [ending EXCEPT !.state = "timed"]
        /\ UNCHANGED <<loop, cache, last, cycle, lost>>
    BY <1>1 DEF StaleTime
  <2>2. /\ ending' \in [state : {"none", "ended", "timed"}, prev : SUBSET Series,
                        since : SUBSET Series, again : BOOLEAN]
        /\ ending'.state = "timed" /\ ending'.prev = ending.prev /\ ending'.since = ending.since
        /\ ending'.again = ending.again
    BY <2>1 DEF LoopType
  <2>3. QED
    BY <2>1, <2>2 DEF LoopType, EndingKnows, LiveIsTracked, NoFalseStale
<1>2. CASE EndOfRunStaleness
  <2>1. /\ IntervalPassed /\ Deliver({}, ending.prev \ ending.since) /\ ending' = NoEnding
        /\ UNCHANGED <<loop, cache, cycle, lost>>
    BY <1>2 DEF EndOfRunStaleness
  <2>2. /\ last' \in [Series -> {"none", "sample", "stale"}]
        /\ \A s \in Series : /\ s \in ending.prev \ ending.since => last'[s] = "stale"
                             /\ s \notin ending.prev \ ending.since => last'[s] = last[s]
    <3> DEFINE gone == ending.prev \ ending.since
    <3>1. Deliver({}, gone) /\ last \in [Series -> {"none", "sample", "stale"}]
      BY <2>1 DEF LoopType
    <3> HIDE DEF gone
    <3>2. QED
      BY <3>1, Delivered DEF gone
  <2>3. LoopType'
    BY <2>1, <2>2 DEF LoopType, NoEnding
  <2>4. EndingKnows'
    BY <2>1 DEF EndingKnows, NoEnding
  <2>5. LiveIsTracked'
    BY <2>1, <2>2 DEF LiveIsTracked, NoEnding
  <2>6. NoFalseStale'
    <3> SUFFICES ASSUME loop.on, loop.scraped, cycle.up = 1, NEW s \in cycle.samples
                 PROVE  last'[s] = "sample"
      BY <2>1 DEF NoFalseStale
    <3>1. s \in Series /\ last[s] = "sample"
      BY DEF NoFalseStale, LoopType
    <3>2. s \in ending.since
      BY <2>1 DEF IntervalPassed, EndingKnows
    <3>3. QED
      BY <2>2, <3>1, <3>2
  <2>7. QED
    BY <2>3, <2>4, <2>5, <2>6
<1>3. QED
  BY <1>1, <1>2

\* Every step of the loops of a target.
LEMMA LoopStep == LoopInv /\ [LoopNext]_loopVars => LoopInv'
<1> SUFFICES ASSUME LoopInv, [LoopNext]_loopVars PROVE LoopInv'
  OBVIOUS
<1>1. CASE UNCHANGED loopVars
  BY <1>1 DEF loopVars, LoopInv, LoopType, EndingKnows, LiveIsTracked, NoFalseStale
<1>2. CASE RestartKeepingCache \/ TargetAppears
  <2>1. loop' = [on |-> TRUE, scraped |-> FALSE] /\ UNCHANGED <<cache, ending, last, cycle, lost>>
    BY <1>2 DEF RestartKeepingCache, TargetAppears
  <2>2. QED
    BY <2>1 DEF LoopInv, LoopType, EndingKnows, LiveIsTracked, NoFalseStale
<1>3. CASE RestartWithNewCache \/ TargetDisappears
  <2>1. ending.state = "none" /\ \E on \in BOOLEAN : StopLoop([on |-> on, scraped |-> FALSE])
    BY <1>3 DEF RestartWithNewCache, TargetDisappears
  <2>2. QED
    BY <2>1, StopStep
<1>4. QED
  BY <1>1, <1>2, <1>3, ScrapesStep, MarkersStep DEF LoopNext

\* For any series, bodies, limit and slack: until markers are lost every series whose newest
\* point is a sample is one a loop will mark when it is gone, and a loop that has ended marks no
\* series that was scraped since.
THEOREM MarkersAreExact == LoopSpec => []StalenessIsExact
<1>1. LoopInv => StalenessIsExact
  BY DEF LoopInv, StalenessIsExact
<1>2. QED
  BY <1>1, LoopStarts, LoopStep, PTL DEF LoopSpec
=============================================================================
