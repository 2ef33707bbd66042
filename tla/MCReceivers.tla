---------------------------- MODULE MCReceivers ----------------------------
(***************************************************************************)
(* TLC instances of the receivers: the scrape loop of a Prometheus target, *)
(* the transaction that turns its scrapes into metrics, and the receiver   *)
(* of ClickHouse's query log: parts of MCPipeline.                         *)
(***************************************************************************)
EXTENDS SystemTables, ScrapeLoop, FiniteSetsExt, TLC

CONSTANTS Stale, Garbage, None

VARIABLES part, live, body, gone, out, txLeft

txVars == <<live, body, gone, out, txLeft>>

-----------------------------------------------------------------------------
(* Scrape loop: a target with three series, one of which relabelling drops; *)
(* two of them fit on a page, only one within the sample limit.             *)
(* Query log: two queries; rows reach query_log up to a second late, two    *)
(* calls fail.                                                              *)

MCQueries == 1 :> [host |-> "a", type |-> "exception",
                   fields |-> "log_comment" :> {"x"} @@ "tables" :> {}]
          @@ 2 :> [host |-> "b", type |-> "start", fields |-> "tables" :> {}]

-----------------------------------------------------------------------------
(* A page with every type of metric and one bucket without its boundary, in *)
(* any order: three samples of one metric or two of any, at a time.         *)

Name(base, suffix) == [base |-> base, suffix |-> suffix]
Sample(base, suffix, labels, value) ==
    [name |-> Name(base, suffix), labels |-> labels, value |-> value,
     hist |-> None, st |-> 0, exemplar |-> FALSE]
Native(base, hist) == [Sample(base, "", <<>>, 0) EXCEPT !.hist = hist]

MCPage ==
    {Sample("g", "", "a" :> "1", 5),
     Sample("c", "_total", "a" :> "1", 7), Sample("c", "_created", "a" :> "1", 2),
     [Sample("h", "_bucket", "le" :> "1", 1) EXCEPT !.exemplar = TRUE],
     Sample("h", "_bucket", "le" :> "2", 2), Sample("h", "_bucket", "le" :> "+Inf", 3),
     Sample("h", "_count", <<>>, 3),
     Sample("q", "", "quantile" :> "1" @@ "otel_scope_name" :> "s", 1),
     Sample("q", "_count", "otel_scope_name" :> "s", 3),
     Native("n", [count |-> 3, sum |-> 4, schema |-> 1,
                  spans |-> << <<1, 1>>, <<1, 1>> >>, deltas |-> <<1, 1>>]),
     [Native("b", [count |-> 3, sum |-> 4, custom |-> <<1, 2, 3>>,
                   spans |-> << <<1, 1>>, <<1, 1>> >>, deltas |-> <<1, 1>>]) EXCEPT !.st = 1],
     Sample("h", "_bucket", <<>>, 1),
     Sample("target", "_info", "v" :> "1", 1),
     Sample("otel_scope", "_info", "otel_scope_name" :> "s" @@ "otel_scope_x" :> "1", 1)}

MCPages ==
    {p \in UNION {kSubset(n, MCPage) : n \in 0..3} :
        Cardinality({s.name.base : s \in p} \ {"target", "otel_scope"}) <= 4 - Cardinality(p)}

T == INSTANCE Transaction WITH
        Series <- MCPage,
        Metadata <- Name("g", "") :> "gauge" @@ Name("c", "") :> "counter"
                    @@ Name("h", "") :> "histogram" @@ Name("q", "") :> "summary"
                    @@ Name("n", "") :> "histogram" @@ Name("b", "") :> "histogram",
        Target <- "job" :> "j" @@ "instance" :> "i",
        External <- <<>>,
        ParseFloat <- "1" :> 1 @@ "2" :> 2 @@ "+Inf" :> 99,
        Inf <- 99,
        Pages <- MCPages,
        MaxTransactions <- 2

-----------------------------------------------------------------------------

TxOff == live = 0 /\ body = 0 /\ gone = 0 /\ out = 0 /\ txLeft = 0

rcvVars == <<loopVars, txVars, stVars>>

RcvRest ==
    /\ part # "loop" => LoopInit /\ appender = 1
    /\ part # "transaction" => TxOff
    /\ part # "systemTables" => StInit

RcvInit ==
    \/ part = "loop" /\ LoopInit
    \/ part = "transaction" /\ T!TxInit
    \/ part = "systemTables" /\ StInit

RcvNext ==
    \/ part = "loop" /\ LoopNext /\ UNCHANGED <<txVars, stVars>>
    \/ part = "transaction" /\ T!TxNext /\ UNCHANGED <<loopVars, stVars>>
    \/ part = "systemTables" /\ StNext /\ UNCHANGED <<loopVars, txVars>>

-----------------------------------------------------------------------------
(* Properties of the transaction; ScrapeLoop and SystemTables state theirs. *)

\* Transaction: what is sent does not depend on the order of the series on the
\* page, although the first series of a family makes it, and the first of a group
\* makes the data point.
OrderIndependent == part = "transaction" => T!OrderIndependent

\* Transaction: the bucket counts of a histogram's point add up to its count,
\* whatever buckets are exposed and as whatever kind of histogram, as long as no
\* bucket alone has gone.
BucketsAddUp == part = "transaction" => T!BucketsAddUp

\* Transaction: a data point none of whose series is exposed any more is sent once
\* more, without a value.
GonePointsAreMarked == [][part = "transaction" => T!MarksGonePoints]_txVars
=============================================================================
