--------------------------- MODULE UsageCollector ---------------------------
(***************************************************************************)
(* The usage collector of usage/usage.go that the exporters share: usage   *)
(* is recorded in process-wide cumulative views, and a reader writes their *)
(* values as a row of the usage table at every interval and once more when *)
(* it is stopped.  The reader (opencensus IntervalReader) is external.     *)
(***************************************************************************)
EXTENDS Naturals, Sequences, FiniteSets

VARIABLE usage   \* [recorded, reader, value, reported]

UsageType ==
    usage \in [recorded : Nat,                    \* the cumulative view
               reader   : {"wait", "export", "stopped", "flush", "off"},
               value    : Nat,                    \* what the reader has read
               reported : Nat]                    \* the value of the last row

UsageInit == usage = [recorded |-> 0, reader |-> "wait", value |-> 0, reported |-> 0]

-----------------------------------------------------------------------------
(* The usage parsers of the exporters.  A metric of the process is          *)
(* [name, points], with one point [exporter, tenant, value] per series; the *)
(* result has the usage of each tenant of this exporter.                    *)

\* Both views are cumulative sums with one point per series: the last metric
\* with the name decides, and a tenant that has one of the two has zero for
\* the other.
ParseUsage(metrics, id, countName, bytesName) ==
    LET mine(name) == {pt \in UNION {metrics[i].points : i \in {j \in DOMAIN metrics :
                                          metrics[j].name = name}} : pt.exporter = id}
        at(name, t) == LET of == {pt \in mine(name) : pt.tenant = t}
                       IN  IF of = {} THEN 0 ELSE (CHOOSE pt \in of : TRUE).value
        tenants == {pt.tenant : pt \in mine(countName) \cup mine(bytesName)}
    IN  [t \in tenants |-> [count |-> at(countName, t), size |-> at(bytesName, t)]]

\* The views as they are read when the count n was recorded by this exporter:
\* they are of the process, so the points of another exporter of the same kind
\* are in them too.  Spans are billed one by one, so size goes with count.
Views(n) ==
    LET point(id, v) == [exporter |-> id, tenant |-> "tenant", value |-> v]
        points == {point("other", n + 1)} \cup (IF n = 0 THEN {} ELSE {point("this", n)})
    IN  <<[name |-> "count", points |-> points], [name |-> "bytes", points |-> points]>>

\* What a row written for the tenant now would say; no row is written for a
\* tenant without usage.
Read(n) ==
    LET usages == ParseUsage(Views(n), "this", "count", "bytes")
    IN  IF "tenant" \in DOMAIN usages THEN usages["tenant"].count ELSE 0

-----------------------------------------------------------------------------

\* stats.RecordWithTags on the measures of the exporter.
Record(n) == usage' = [usage EXCEPT !.recorded = @ + n]

\* The interval has passed: the views are read and ExportMetrics is called.
UsageTick ==
    /\ usage.reader = "wait"
    /\ usage' = [usage EXCEPT !.reader = "export", !.value = Read(usage.recorded)]

\* ExportMetrics returns: a row for the tenant is inserted, or the insert
\* fails and the values wait for the next reading.
UsageExported(ok) ==
    /\ usage.reader \in {"export", "flush"}
    /\ usage' = [usage EXCEPT !.reader = IF @ = "export" THEN "wait" ELSE "off",
                              !.reported = IF ok THEN usage.value ELSE @]

\* Mutant of UsageStop: the last values are not flushed.
UsageStopNoFlush ==
    /\ usage.reader = "wait"
    /\ usage' = [usage EXCEPT !.reader = "off"]

\* Stop waits for a reading in progress, ends the reader, then Flush reads
\* once more.
UsageStop ==
    /\ usage.reader = "wait"
    /\ usage' = [usage EXCEPT !.reader = "flush", !.value = Read(usage.recorded)]

UsageStopped == usage.reader = "off"
=============================================================================
