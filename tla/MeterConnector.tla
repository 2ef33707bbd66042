--------------------------- MODULE MeterConnector ---------------------------
(***************************************************************************)
(* The metering pipeline: signozmeterconnector adds up what passes, per    *)
(* set of dimensions, and hands the sums as delta metrics to the meter     *)
(* exporter, at every tick and once more when it is shut down.             *)
(*                                                                         *)
(* Two goroutines export: the ticker's and the one that calls Shutdown.    *)
(* The collector shuts a pipeline down from its head, so that nothing is   *)
(* consumed once Shutdown of the connector is called, and the exporter is  *)
(* shut down after the connector.  Sizes move with the counts.             *)
(***************************************************************************)
EXTENDS Naturals

CONSTANTS Resources,     \* the resources that pass: records with signal, attrs and n, the items
          MeterDims,     \* the names that are dimensions
          MaxConsumed, MaxTicks, MaxWriteFailures

VARIABLES
  meters,      \* the aggregated meters: a function from dimensions to counts per signal
  mGo,         \* the ticker's goroutine and Shutdown: where each is and the metrics it holds
  mExp,        \* the meter exporter: "open", "closed" (closeChan), "down" (connection closed)
  stored,      \* counts per signal and dimensions in the meter table
  accepted,    \* counts per signal and dimensions that were consumed
  failed,      \* counts per signal and dimensions in exports that failed
  mLeft

meterVars == <<meters, mGo, mExp, stored, accepted, failed, mLeft>>

Signals == {"span", "point", "log"}
ASSUME MeterAssumption == \A r \in Resources : r.signal \in Signals /\ r.n \in Nat

Zero == [s \in Signals |-> 0]
NoMeters == [d \in {} |-> Zero]
CountOf(f, d, s) == IF d \in DOMAIN f THEN f[d][s] ELSE 0

\* buildDimensionsMapFromResourceAttributes
BuildDimensions(attrs) == [k \in DOMAIN attrs \cap MeterDims |-> attrs[k]]

\* Update*MeterMetrics, under the lock: the meter of the dimensions, a new one if there is none.
Update(f, d, s, n) ==
  [x \in DOMAIN f \cup {d} |->
     [t \in Signals |-> IF x = d /\ t = s THEN CountOf(f, x, t) + n ELSE CountOf(f, x, t)]]

\* ConsumeTraces, ConsumeMetrics and ConsumeLogs, for one resource.
Consume(r) ==
  /\ mGo["shutdown"].pc = "none" /\ mLeft.consumed > 0
  /\ meters' = Update(meters, BuildDimensions(r.attrs), r.signal, r.n)
  /\ accepted' = Update(accepted, BuildDimensions(r.attrs), r.signal, r.n)
  /\ mLeft' = [mLeft EXCEPT !.consumed = @ - 1]
  /\ UNCHANGED <<mGo, mExp, stored, failed>>

\* collect*MeterMetrics: a signal that counted nothing has no data point.
CollectMeters(f, s) == {<<d, s, f[d][s]>> : d \in {x \in DOMAIN f : f[x][s] > 0}}

BuildMeters(f) == UNION {CollectMeters(f, s) : s \in Signals}

\* Mutant of ExportMeters: what was built is not reset.
ExportMetersKeeping(g, after) ==
  /\ mGo' = [mGo EXCEPT ![g] = IF BuildMeters(meters) = {} THEN [pc |-> after, points |-> {}]
                               ELSE [pc |-> "consume", points |-> BuildMeters(meters)]]
  /\ UNCHANGED <<meters, mExp, stored, accepted, failed>>

\* exportMetrics up to the unlock: build and reset are one step; without a data point it returns.
ExportMeters(g, after) ==
  /\ mGo' = [mGo EXCEPT ![g] = IF BuildMeters(meters) = {} THEN [pc |-> after, points |-> {}]
                               ELSE [pc |-> "consume", points |-> BuildMeters(meters)]]
  /\ meters' = NoMeters
  /\ UNCHANGED <<mExp, stored, accepted, failed>>

\* The goroutine takes a tick.
TakeTick ==
  /\ mGo["ticker"].pc = "select" /\ mLeft.ticks > 0
  /\ ExportMeters("ticker", "select")
  /\ mLeft' = [mLeft EXCEPT !.ticks = @ - 1]

\* Shutdown exports first ...
ShutdownConnector ==
  /\ mGo["shutdown"].pc = "none"
  /\ ExportMeters("shutdown", "stop")
  /\ UNCHANGED mLeft

\* ... then stops the ticker and sends on done, which has no buffer: it waits for the select.
SendDone ==
  /\ mGo["shutdown"].pc = "stop" /\ mGo["ticker"].pc = "select"
  /\ mGo' = [mGo EXCEPT !["shutdown"].pc = "returned", !["ticker"].pc = "ended"]
  /\ UNCHANGED <<meters, mExp, stored, accepted, failed, mLeft>>

----------------------------------------------------------------------------
(* signozclickhousemeter                                                   *)

\* A build has at most one point for a signal and dimensions.
Amount(ps, d, s) ==
  LET of == {p \in ps : p[1] = d /\ p[2] = s} IN IF of = {} THEN 0 ELSE (CHOOSE p \in of : TRUE)[3]

AddPoints(f, ps) ==
  [d \in DOMAIN f \cup {p[1] : p \in ps} |-> [s \in Signals |-> CountOf(f, d, s) + Amount(ps, d, s)]]

After(g) == IF g = "ticker" THEN "select" ELSE "stop"

\* Mutant of WriteMeters: a failed export of the goroutine ends it.
WriteMetersOrEnd(g, ok) ==
  /\ mGo[g].pc = "consume"
  /\ ok => mExp = "open"
  /\ ~ok /\ mExp = "open" => mLeft.failures > 0
  /\ stored' = IF ok THEN AddPoints(stored, mGo[g].points) ELSE stored
  /\ failed' = IF ok THEN failed ELSE AddPoints(failed, mGo[g].points)
  /\ mLeft' = IF ok THEN mLeft ELSE [mLeft EXCEPT !.failures = @ - 1]
  /\ mGo' = [mGo EXCEPT ![g] = [pc |-> IF ~ok /\ g = "ticker" THEN "ended" ELSE After(g), points |-> {}]]
  /\ UNCHANGED <<meters, mExp, accepted>>

\* ConsumeMetrics of the exporter: refused once closeChan is closed, else prepared, appended and
\* sent, each of which may fail.  The connector logs an error; the meters were reset before.
WriteMeters(g, ok) ==
  /\ mGo[g].pc = "consume"
  /\ ok => mExp = "open"
  /\ ~ok /\ mExp = "open" => mLeft.failures > 0
  /\ stored' = IF ok THEN AddPoints(stored, mGo[g].points) ELSE stored
  /\ failed' = IF ok THEN failed ELSE AddPoints(failed, mGo[g].points)
  /\ mLeft' = IF ok THEN mLeft ELSE [mLeft EXCEPT !.failures = @ - 1]
  /\ mGo' = [mGo EXCEPT ![g] = [pc |-> After(g), points |-> {}]]
  /\ UNCHANGED <<meters, mExp, accepted>>

\* Shutdown of the exporter: close closeChan, wait for the calls, close the connection.
ShutdownExporter ==
  /\ \/ mExp = "open" /\ mGo["shutdown"].pc = "returned" /\ mExp' = "closed"
     \/ mExp = "closed" /\ (\A g \in DOMAIN mGo : mGo[g].pc # "consume") /\ mExp' = "down"
  /\ UNCHANGED <<meters, mGo, stored, accepted, failed, mLeft>>

MeterInit ==
  /\ meters = NoMeters
  /\ mGo = [ticker |-> [pc |-> "select", points |-> {}], shutdown |-> [pc |-> "none", points |-> {}]]
  /\ mExp = "open"
  /\ stored = NoMeters
  /\ accepted = NoMeters /\ failed = NoMeters
  /\ mLeft = [consumed |-> MaxConsumed, ticks |-> MaxTicks, failures |-> MaxWriteFailures]

MeterNext ==
  \/ \E r \in Resources : Consume(r)
  \/ TakeTick \/ ShutdownConnector \/ SendDone
  \/ \E g \in {"ticker", "shutdown"}, ok \in BOOLEAN : WriteMeters(g, ok)
  \/ ShutdownExporter

MeterSpec == MeterInit /\ [][MeterNext]_meterVars

----------------------------------------------------------------------------
(* Properties.                                                             *)

\* When the pipeline is down, every item that passed is in the meter table once, under its own
\* dimensions, or was in an export that failed and was logged (connector.go:137-163): the two
\* exporting goroutines share no meter and leave none.
MeteredOnce ==
  mExp = "down" =>
    \A d \in DOMAIN accepted \cup DOMAIN stored \cup DOMAIN failed, s \in Signals :
      CountOf(stored, d, s) + CountOf(failed, d, s) = CountOf(accepted, d, s)

\* Shutdown comes to its end although it sends on a channel without a buffer: the goroutine always
\* comes back to its select.
MeterShutdownEnds == (mGo["shutdown"].pc # "none") ~> (mExp = "down")

=============================================================================
