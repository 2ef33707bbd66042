----------------------------- MODULE MCPipeline -----------------------------
(***************************************************************************)
(* TLC instances of what data meets on its way through a pipeline: the      *)
(* receivers, the processor that derives metrics from spans, the policies  *)
(* of the tail sampler, the meter connector with the exporter of its       *)
(* metrics, the sizes it adds up, the pipelines of logs, and the detection *)
(* of resources.                                                           *)
(* A behaviour is one of one of them; part says which.                     *)
(***************************************************************************)
EXTENDS MCReceivers, MCLogsPipeline, MCSamplingPolicies, MeterConnector, ResourceDetection,
        SpanMetrics

CONSTANT NaN

VARIABLE payload

-----------------------------------------------------------------------------
(* Span metrics: three services where one is allowed; two spans differ only *)
(* in what overflows; delta and cumulative temporality.                     *)

Call(svc, op, kind, attrs, bucket) ==
    [svc |-> svc, op |-> op, kind |-> kind, attrs |-> attrs, resource |-> <<>>,
     bucket |-> bucket, old |-> FALSE]

MCCalls ==
    {Call("a", "x", "client", "db.system" :> "pg" @@ "url.full" :> "h", 1),
     Call("a", "y", "server", "http.status_code" :> "200", 2),
     Call("b", "x", "client",
          "rpc.system" :> "g" @@ "zone" :> "z" @@ "server.address" :> "h", 2),
     Call("c", "x", "server", <<>>, 1),
     [Call("c", "z", "server", <<>>, 1) EXCEPT !.old = TRUE]}

MCDimensions == <<"zone">>
MCConfigs == {[delta |-> TRUE, exp |-> TRUE], [delta |-> FALSE, exp |-> FALSE]}

-----------------------------------------------------------------------------
(* Meter connector: resources of three signals that share a dimension.      *)

Resource(signal, attrs, n) == [signal |-> signal, attrs |-> attrs, n |-> n]

MCResources == {Resource("span", "service.name" :> "a" @@ "x" :> "1", 2),
                Resource("log", "service.name" :> "a", 1),
                Resource("log", "service.name" :> "b", 1),
                Resource("point", "service.name" :> "b", 0)}

-----------------------------------------------------------------------------
(* Sizes: payloads of each signal with every type of attribute and metric.  *)

Val(type, text) == [type |-> type, text |-> text]
Map(leaves)     == [type |-> "map", leaves |-> leaves]
KV(key, value)  == [key |-> key, value |-> value]

Hosts == {<<>>,
          <<KV("http.url", Val("string", "http://u/x")), KV("net.peer.name", Val("string", "h"))>>,
          <<KV("http.host", Val("string", "")), KV("url.full", Val("string", "::"))>>}
OtherAttrs == {<<>>,
         <<KV("a", Val("double", "NaN")), KV("b", Val("double", "1.5")), KV("c", Val("bool", "true"))>>,
         <<KV("http.status_code", Val("string", "0404")),
           KV("m", Map(<<KV("x", Val("int", "7")), KV("y.0", Val("string", "z"))>>))>>,
         <<KV("m", Map(<<KV("x", Val("double", "NaN"))>>)), KV("i", Val("int", "12"))>>}
Events == {<<>>,
           <<[name |-> "exception", time |-> "5",
              attrs |-> <<KV("exception.type", Val("string", "E"))>>],
             [name |-> "", time |-> "0", attrs |-> <<>>]>>}
ResAttrs == {<<>>,
             <<KV("service.name", Val("string", "svc")),
               KV("signoz.workspace.id", Val("string", "w"))>>,
             <<KV("service.name", Val("int", "3")), KV("r", Map(<<KV("q", Val("string", "v"))>>))>>}

Sp(attrs, evs, kind, parent) ==
    [attrs |-> attrs, events |-> evs, kind |-> kind, spanKind |-> "Kind" \o kind,
     start |-> "100", traceId |-> "0123456789abcdef0123456789abcdef",
     spanId |-> "0123456789abcdef", parentSpanId |-> parent, traceState |-> "",
     flags |-> [text |-> IF kind = "3" THEN "256" ELSE "0", known |-> kind = "3",
                remote |-> FALSE],
     name |-> "op", error |-> FALSE,
     links |-> IF parent = "" THEN <<>> ELSE <<[traceId |-> "ab", spanId |-> parent]>>]

Point(value) == [attrs |-> "k" :> "v", ts |-> 1, value |-> value]
Histogram(bounds, buckets, sum, min) ==
    [attrs |-> <<>>, ts |-> 2, count |-> 3, sum |-> sum, min |-> min, max |-> min,
     bounds |-> bounds, buckets |-> buckets]
Quantiles(qs, sum) == [attrs |-> <<>>, ts |-> 3, count |-> 2, sum |-> sum, quantiles |-> qs]
Metric(name, type, points) ==
    [name |-> name, type |-> type, temporality |-> "delta", monotonic |-> TRUE, points |-> points]

MCMetrics ==
    {Metric("g", "gauge", <<Point(1), Point(NaN)>>),
     Metric("s", "sum", <<Point(1), Point(2)>>),
     Metric("signoz_x", "sum", <<Point(1)>>),
     Metric("h", "histogram", <<Histogram(<<1, 2>>, <<1, 1, 1>>, 4, None),
                                Histogram(<<>>, <<3>>, None, 1)>>),
     Metric("h", "histogram", <<Histogram(<<>>, <<>>, 4, NaN)>>),
     Metric("h", "histogram", <<Histogram(<<>>, <<>>, 4, 1)>>),
     Metric("e", "exphistogram", <<Histogram(<<>>, <<1, 2>>, 4, 1)>>),
     Metric("q", "summary", <<Quantiles(<<<<1, 5>>, <<2, 6>>>>, 9), Quantiles(<<>>, 0)>>),
     Metric("q", "summary", <<Quantiles(<<<<1, NaN>>>>, 9)>>)}

MCPayloads ==
    {[signal |-> "traces", resource |-> res, spans |-> <<Sp(h \o r, e, kind, parent)>>] :
        res \in ResAttrs, h \in Hosts, r \in OtherAttrs, e \in Events,
        kind \in {"0", "2", "3"}, parent \in {"", "0123456789abcdef"}}
    \cup {[signal |-> "metrics", metrics |-> <<m, k>>] : m \in MCMetrics, k \in MCMetrics}
    \cup {[signal |-> "logs", resource |-> res,
           records |-> <<[attrs |-> <<KV("n", Val("int", "12")), KV("s", Val("string", "x"))>> \o x,
                          body |-> "text"]>>] :
            res \in {r \in ResAttrs : Len(r) = 0 \/ r[1].value.type = "string"},
            x \in {<<>>, <<KV("signoz.workspace.id", Val("string", "w"))>>}}

Z == INSTANCE Metering WITH
        Payloads <- MCPayloads,
        Atoi <- "0404" :> "404",
        Hostname <- "http://u/x" :> "u",
        Excluded <- {"signoz.workspace.id"},
        ExcludedMetrics <- {"signoz_x"},
        Now <- 9

-----------------------------------------------------------------------------
(* Resource detection: two processors share a provider with both detectors. *)

MCDetectors == <<"env", "system">>
MCHostnameSources == <<"dns", "os">>
MCEnvLabels == "team" :> "mine" @@ "os" :> "label"
MCFailures == {{}, {"dns"}, {"dns", "os"}, {"host.id"}, {"cpu"}, {"no cpu"}}
MCBatch == "team" :> "sender"

-----------------------------------------------------------------------------

DetOff == /\ phase = [at |-> "stopped", proc |-> 1, ran |-> FALSE]
          /\ refresh = [r \in {"start", "loop"} |-> Idle]
          /\ detectedResource = Absent /\ refresher = "off" /\ stopping = TRUE
          /\ processed = [p \in 1..Procs |-> Absent]

allVars == <<rcvVars, smVars, polVars, meterVars, payload, pipeVars, detVars>>

OthersRest ==
    /\ RcvRest
    /\ part # "spanMetrics" => SmInit /\ config.delta
    /\ part # "policies" => PolInit
    /\ part # "meter" => MeterInit
    /\ part # "metering" => payload = 0
    /\ part # "logs" => PipeInit
    /\ part # "detection" => DetOff

Init ==
    /\ \/ RcvInit
       \/ part = "spanMetrics" /\ SmInit
       \/ part = "policies" /\ PolInit
       \/ part = "meter" /\ MeterInit
       \/ part = "metering" /\ Z!MtInit
       \/ part = "logs" /\ PipeInit
       \/ part = "detection" /\ DetInit
    /\ OthersRest

Is(p, others) == part = p /\ UNCHANGED <<part, others>>

Next ==
    \/ RcvNext /\ UNCHANGED <<part, smVars, polVars, meterVars, payload, pipeVars, detVars>>
    \/ Is("spanMetrics", <<rcvVars, polVars, meterVars, payload, pipeVars, detVars>>) /\ SmNext
    \/ Is("policies", <<rcvVars, smVars, meterVars, payload, pipeVars, detVars>>) /\ PolNext
    \/ Is("meter", <<rcvVars, smVars, polVars, payload, pipeVars, detVars>>) /\ MeterNext
    \/ Is("metering", <<rcvVars, smVars, polVars, meterVars, pipeVars, detVars>>) /\ Z!MtNext
    \/ Is("logs", <<rcvVars, smVars, polVars, meterVars, payload, detVars>>) /\ PipeNext
    \/ Is("detection", <<rcvVars, smVars, polVars, meterVars, payload, pipeVars>>) /\ DetNext

\* The goroutines of the meter connector are scheduled; a tick competes with the
\* send on done in the same select, which takes each of them some time.
Fairness ==
    /\ WF_meterVars(part = "meter" /\ \E g \in {"ticker", "shutdown"}, ok \in BOOLEAN :
                                         WriteMeters(g, ok))
    /\ SF_meterVars(part = "meter" /\ SendDone)
    /\ WF_meterVars(part = "meter" /\ ShutdownExporter)
    /\ DetFairness

Spec ==
    /\ Init /\ [][Next]_<<part, allVars>>
    /\ Fairness

-----------------------------------------------------------------------------
(* Properties; the others are those of the modules of the parts and of      *)
(* MCReceivers.                                                             *)

\* Sizes: what is billed is what is written.  The size that the meter adds up for
\* a span or a log is that of the exporter's row, and it counts the sample rows of
\* the metrics exporter, although neither uses the code of the other.
BilledIsWritten == part = "metering" => Z!BilledIsWritten

\* Nobody waits for ever.  Shutdown of the meter connector ends, although it sends
\* on a channel without a buffer to a goroutine that may be exporting; Start and
\* Shutdown of resource detection end, although a detector may never succeed.
WaitsEnd ==
    /\ part = "meter" => MeterShutdownEnds
    /\ part = "detection" => StartAndShutdownEnd
=============================================================================
