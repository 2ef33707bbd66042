-------------------------- MODULE SamplingPolicies --------------------------
(***************************************************************************)
(* The evaluators of signoztailsampler: filters on the spans of a trace,   *)
(* samplers, and the evaluators composed of them (policies with            *)
(* sub-policies, and, composite).                                          *)
(*                                                                         *)
(* A trace is [hash, items]: the hash of its id and the resources and      *)
(* spans it came with, in order of arrival, each resource before its       *)
(* spans.  An attribute is [int, str]: what Int() and Str() read from it.  *)
(* Only the ticker's goroutine evaluates, so that an evaluation is one     *)
(* step.  The parts of an evaluator are evaluators of their own, so that   *)
(* each finds its memory as it left it, whatever was evaluated before.     *)
(***************************************************************************)
EXTENDS Integers, SequencesExt, FiniteSets

CONSTANTS
  Policies,      \* [name -> configuration of an evaluator, with its kind]
  Traces,        \* [id -> trace]
  RegexMatches,  \* the pairs <<expression, string>> that match
  MaxHash,       \* math.MaxUint64
  MaxSecond, MaxEvaluations

Evaluators == DOMAIN Policies
Kind(n) == Policies[n].kind
Subs(n) == Policies[n].subs
Filters(n) == Policies[n].filters

Leaves == {n \in Evaluators : Kind(n) \in {"string", "numeric", "status", "state", "count", "latency",
                                           "probabilistic", "always", "never", "rate"}}
IsLeafList(s) == IsInjective(s) /\ s \in Seq(Leaves)

OwnParts(n) == CASE Kind(n) \in {"and", "composite"} -> ToSet(Subs(n))
                 [] Kind(n) = "policy" -> ToSet(Filters(n)) \cup ToSet(Subs(n))
                 [] OTHER -> {}

\* The evaluators that n is made of.
Parts(n) == OwnParts(n) \cup UNION {OwnParts(s) : s \in OwnParts(n)}

\* A policy has filters on attributes, and sub-policies without sub-policies.
PoliciesAreWellFormed ==
  /\ \A m, n \in Evaluators : m # n => OwnParts(m) \cap OwnParts(n) = {}
  /\ \A n \in Evaluators :
    /\ n \in Leaves \/ Kind(n) \in {"and", "composite", "policy"}
    /\ Kind(n) = "string" => /\ Policies[n].regex => Policies[n].cacheSize \in Nat \ {0}
                             /\ Policies[n].invert \in BOOLEAN
    /\ Kind(n) = "latency" => Policies[n].threshold \in Int
    /\ Kind(n) = "rate" => Policies[n].spansPerSecond \in Int
    /\ Kind(n) \in {"and", "composite"} => IsLeafList(Subs(n))
    /\ Kind(n) = "composite" => /\ Policies[n].allocated \in [ToSet(Subs(n)) -> Nat]
                                /\ Policies[n].maxTotal \in Nat
    /\ Kind(n) = "policy" =>
         /\ IsLeafList(Filters(n)) /\ \A f \in ToSet(Filters(n)) : Kind(f) \in {"string", "numeric"}
         /\ Policies[n].priority \in Nat
         /\ IsInjective(Subs(n)) /\ Subs(n) \in Seq(Evaluators \ {n})
         /\ \A s \in ToSet(Subs(n)) : Kind(s) = "policy" /\ Subs(s) = <<>>

Span(t, i) == t.items[i]
Positions(t) == {i \in DOMAIN t.items : ~t.items[i].resource}
SpansOf(t) == {t.items[i] : i \in Positions(t)}

TracesAreWellFormed ==
  \A id \in DOMAIN Traces :
    /\ Traces[id].items = [i \in 1..Len(Traces[id].items) |-> Traces[id].items[i]]
    /\ Len(Traces[id].items) \in Nat
    /\ \A s \in SpansOf(Traces[id]) : s.start \in Nat /\ s.end \in Nat

ASSUME SamplingPoliciesAssumption == PoliciesAreWellFormed /\ TracesAreWellFormed

VARIABLES
  second,        \* time.Now().Unix()
  memory,        \* [name -> what the evaluator remembers]
  verdict,       \* the last evaluation: [policy, trace, decision]
  sampledIn,     \* [evaluator with a rate -> spans it has let pass in this second]
  evaluations

polVars == <<second, memory, verdict, sampledIn, evaluations>>

SpanCount(t) == Cardinality(Positions(t))

NewEvaluator == [second |-> 0, spans |-> [x \in Evaluators |-> 0], cache |-> <<>>]

PolInit ==
  /\ second = 1
  /\ memory = [n \in Evaluators |-> NewEvaluator]
  /\ verdict = [policy |-> "", trace |-> "", decision |-> "Unspecified"]
  /\ sampledIn = [n \in Evaluators |-> 0]
  /\ evaluations = MaxEvaluations

----------------------------------------------------------------------------
(* Filters                                                                 *)

SampledIf(b) == IF b THEN "Sampled" ELSE "NotSampled"

\* hasSpanWithCondition: one of the spans has it.
NumericAttributeFilter(p, t) ==
  SampledIf(\E s \in SpansOf(t) :
              p.key \in DOMAIN s.attrs /\ s.attrs[p.key].int >= p.min /\ s.attrs[p.key].int <= p.max)

StatusCodeFilter(p, t) == SampledIf(\E s \in SpansOf(t) : s.status \in p.codes)

\* A trace state that cannot be parsed has no keys.
TraceStateFilter(p, t) ==
  SampledIf(\E s \in SpansOf(t) : p.key \in DOMAIN s.state /\ s.state[p.key] \in p.values \ {""})

SpanCountFilter(p, t) == SampledIf(SpanCount(t) >= p.minSpans)

\* The starts among which the earliest is found when span k is looked at: one of zero counts as not
\* set, and makes the filter forget those before it.
StartsAt(t, k) ==
  IF Span(t, k).start = 0 THEN {0}
  ELSE {Span(t, i).start : i \in {i \in Positions(t) :
          i <= k /\ \A j \in Positions(t) : i <= j /\ j <= k => Span(t, j).start # 0}}

\* From the earliest start to the latest end so far.
Latency(p, t) ==
  SampledIf(\E k \in Positions(t) : \E i \in {i \in Positions(t) : i <= k}, start \in StartsAt(t, k) :
              Span(t, i).end - start >= p.threshold)

Matches(p, v) == IF p.regex THEN \E x \in p.values : <<x, v>> \in RegexMatches ELSE v \in p.values \ {""}

\* The least recently used value leaves the cache.
CacheAdd(p, cache, v, hit) ==
  LET all == <<[value |-> v, hit |-> hit]>> \o cache
  IN IF Len(all) > p.cacheSize THEN SubSeq(all, 1, p.cacheSize) ELSE all

IsCached(cache, v) == \E i \in DOMAIN cache : cache[i].value = v
Place(cache, v) == CHOOSE i \in DOMAIN cache : cache[i].value = v

\* Mutant of Matcher: what is taken from the cache is its most recent verdict.
MatcherRecent(p, cache, v) ==
  IF p.regex /\ IsCached(cache, v) THEN [hit |-> cache[1].hit, cache |-> cache]
  ELSE [hit |-> Matches(p, v), cache |-> IF p.regex THEN CacheAdd(p, cache, v, Matches(p, v)) ELSE cache]

\* A regular expression's verdict comes from the cache when it is there, and becomes the most recent.
Matcher(p, cache, v) ==
  IF p.regex /\ IsCached(cache, v)
  THEN LET i == Place(cache, v)
       IN [hit |-> cache[i].hit, cache |-> <<cache[i]>> \o RemoveAt(cache, i)]
  ELSE [hit |-> Matches(p, v), cache |-> IF p.regex THEN CacheAdd(p, cache, v, Matches(p, v)) ELSE cache]

\* The filter looks at every resource and span that has the attribute, but at no empty one of a span.
LooksAt(p, item) == p.key \in DOMAIN item.attrs /\ (item.resource \/ item.attrs[p.key].str # "")

\* The first match ends the search.
LookAt(p, found, item) ==
  IF found.hit \/ ~LooksAt(p, item) THEN found ELSE Matcher(p, found.cache, item.attrs[p.key].str)

Search(p, cache, t) ==
  LET found[i \in 0..Len(t.items)] ==
        IF i = 0 THEN [hit |-> FALSE, cache |-> cache] ELSE LookAt(p, found[i - 1], t.items[i])
  IN found[Len(t.items)]

Answer(p, hit) ==
  CASE p.invert /\ hit -> "InvertNotSampled"
    [] p.invert /\ ~hit -> "InvertSampled"
    [] ~p.invert -> SampledIf(hit)

StringAttributeFilter(n, t) ==
  LET found == Search(Policies[n], memory[n].cache, t)
  IN [decision |-> Answer(Policies[n], found.hit), mem |-> [memory[n] EXCEPT !.cache = found.cache]]

----------------------------------------------------------------------------
(* Samplers                                                                *)

CalculateThreshold(percent) == IF percent >= 100 THEN MaxHash ELSE (MaxHash * percent) \div 100

ProbabilisticSampler(percent, t) == SampledIf(t.hash <= CalculateThreshold(percent))

\* A second begins with nothing sampled.
InSecond(m) ==
  IF m.second = second THEN m
  ELSE [m EXCEPT !.second = second, !.spans = [x \in Evaluators |-> 0]]

RateLimiting(n, t) ==
  LET now == InSecond(memory[n])
      ifSampled == now.spans[n] + SpanCount(t)
  IN IF ifSampled < Policies[n].spansPerSecond
     THEN [decision |-> "Sampled", mem |-> [now EXCEPT !.spans[n] = ifSampled]]
     ELSE [decision |-> "NotSampled", mem |-> now]

----------------------------------------------------------------------------
(* The evaluators that are not made of others: the decision, and what the  *)
(* evaluator remembers then.                                               *)

DecisionOf(p, t) ==
  CASE p.kind = "numeric" -> NumericAttributeFilter(p, t)
    [] p.kind = "status" -> StatusCodeFilter(p, t)
    [] p.kind = "state" -> TraceStateFilter(p, t)
    [] p.kind = "count" -> SpanCountFilter(p, t)
    [] p.kind = "latency" -> Latency(p, t)
    [] p.kind = "probabilistic" -> ProbabilisticSampler(p.percent, t)
    [] p.kind = "always" -> "Sampled"
    [] p.kind = "never" -> "NotSampled"

Leaf(n, t) ==
  CASE Kind(n) = "string" -> StringAttributeFilter(n, t)
    [] Kind(n) = "rate" -> RateLimiting(n, t)
    [] OTHER -> [decision |-> DecisionOf(Policies[n], t), mem |-> memory[n]]

Says(n, t) == Leaf(n, t).decision

----------------------------------------------------------------------------
(* The evaluators made of others: the decision, the parts that were        *)
(* evaluated, and what the evaluator itself remembers.                     *)

\* The members of a list up to the first of some that end the walk over it.
UpToFirst(list, ending) ==
  {list[i] : i \in {i \in DOMAIN list : \A j \in 1..(i - 1) : list[j] \notin ending}}

\* The first sub-policy against it ends the evaluation.
And(n, t) ==
  LET against == {s \in ToSet(Subs(n)) : Says(s, t) \in {"NotSampled", "InvertNotSampled"}}
  IN [decision |-> SampledIf(against = {}), reached |-> UpToFirst(Subs(n), against), mem |-> memory[n]]

\* The first sub-policy that samples decides, within what is allocated to it; the limit called the
\* total is compared with the spans of that sub-policy too.  A trace that is too large does not
\* count, so that a smaller one may still pass.
Composite(n, t) ==
  LET for == {s \in ToSet(Subs(n)) : Says(s, t) \in {"Sampled", "InvertSampled"}}
      reached == UpToFirst(Subs(n), for)
      now == InSecond(memory[n])
      ifSampled(s) == now.spans[s] + SpanCount(t)
      fits == {s \in for \cap reached : /\ ifSampled(s) <= Policies[n].allocated[s]
                                        /\ ifSampled(s) <= Policies[n].maxTotal}
  IN [decision |-> SampledIf(fits # {}), reached |-> reached,
      mem |-> [now EXCEPT !.spans = [x \in Evaluators |-> IF x \in fits THEN ifSampled(x) ELSE @[x]]]]

\* With "and" the first filter that fails ends the evaluation.
Failing(n, t) == {f \in ToSet(Filters(n)) : Policies[n].op = "and" /\ Says(f, t) = "NotSampled"}

\* InvertSampled is no match and InvertNotSampled no failure.
FiltersMatch(n, t) == Failing(n, t) = {} /\ \E f \in ToSet(Filters(n)) : Says(f, t) = "Sampled"

SamplerOf(n, t) ==
  LET percent == Policies[n].percent
  IN CASE percent = 0 -> "NotSampled"
       [] percent = 100 -> "Sampled"
       [] OTHER -> ProbabilisticSampler(percent, t)

\* Sub-policies are sorted by priority; sort.Slice keeps the order of a dozen that have the same one.
Before(n, i, j) ==
  LET priority(k) == Policies[Subs(n)[k]].priority
  IN priority(i) < priority(j) \/ (priority(i) = priority(j) /\ i < j)

\* The first sub-policy with a result decides, else the policy itself.
DefaultEvaluator(n, t) ==
  LET deciding == {i \in DOMAIN Subs(n) : FiltersMatch(Subs(n)[i], t)}
      tried == {i \in DOMAIN Subs(n) : \A j \in deciding : ~Before(n, j, i)}
      first == CHOOSE i \in deciding : \A j \in deciding : ~Before(n, j, i)
      evaluated == {n} \cup {Subs(n)[i] : i \in {i \in tried : FiltersMatch(n, t)}}
  IN [decision |-> IF ~FiltersMatch(n, t) THEN "NoResult"
                   ELSE IF deciding = {} THEN SamplerOf(n, t) ELSE SamplerOf(Subs(n)[first], t),
      reached |-> UNION {UpToFirst(Filters(p), Failing(p, t)) : p \in evaluated},
      mem |-> memory[n]]

Evaluation(n, t) ==
  CASE Kind(n) = "and" -> And(n, t)
    [] Kind(n) = "composite" -> Composite(n, t)
    [] Kind(n) = "policy" -> DefaultEvaluator(n, t)
    [] OTHER -> [decision |-> Says(n, t), reached |-> {n}, mem |-> memory[n]]

HasRate(n) == Kind(n) \in {"rate", "composite"}

Evaluated(n, id, r) ==
  /\ memory' = [x \in Evaluators |-> IF x \in r.reached THEN Leaf(x, Traces[id]).mem
                                     ELSE IF x = n THEN r.mem ELSE memory[x]]
  /\ verdict' = [policy |-> n, trace |-> id, decision |-> r.decision]
  /\ sampledIn' = [sampledIn EXCEPT ![n] =
                     @ + IF r.decision = "Sampled" /\ HasRate(n) THEN SpanCount(Traces[id]) ELSE 0]

Evaluate(n, id) ==
  /\ evaluations > 0 /\ evaluations' = evaluations - 1
  /\ \E r \in {Evaluation(n, Traces[id])} : Evaluated(n, id, r)
  /\ UNCHANGED second

\* Time passes.
NextSecond ==
  /\ second < MaxSecond
  /\ second' = second + 1
  /\ sampledIn' = [n \in Evaluators |-> 0]
  /\ UNCHANGED <<memory, verdict, evaluations>>

\* The evaluators of the configuration; the others are parts of them.
Roots == {n \in Evaluators : Policies[n].root}

PolNext == NextSecond \/ \E n \in Roots, id \in DOMAIN Traces : Evaluate(n, id)

PolSpec == PolInit /\ [][PolNext]_polVars

----------------------------------------------------------------------------
(* Properties.                                                             *)

\* What a filter says, without an order of spans, a cache or a memory.
Claims(n, t) ==
  LET p == Policies[n]
      found == \E i \in DOMAIN t.items : LooksAt(p, t.items[i]) /\ Matches(p, t.items[i].attrs[p.key].str)
  IN CASE p.kind = "string" -> found # p.invert
       [] p.kind = "latency" -> \E a, b \in SpansOf(t) : b.end - a.start >= p.threshold
       [] OTHER -> DecisionOf(p, t) = "Sampled"

\* A policy applies when all of its filters hold, or one of them without "and".
Applies(n, t) ==
  LET fs == ToSet(Filters(n))
  IN fs # {} /\ IF Policies[n].op = "and" THEN \A f \in fs : Claims(f, t) ELSE \E f \in fs : Claims(f, t)

\* Of those that apply one with the least priority decides, else the policy itself.
Decisions(n, t) ==
  LET subs == {s \in ToSet(Subs(n)) : Applies(s, t)}
  IN IF ~Applies(n, t) THEN {"NoResult"} ELSE IF subs = {} THEN {SamplerOf(n, t)}
     ELSE {SamplerOf(s, t) : s \in {s \in subs : \A x \in subs : Policies[s].priority <= Policies[x].priority}}

\* Rates depend on the traces before, and a start of zero makes the latency one of the order.
DependsOnTheTrace(n, t) ==
  \A x \in {n} \cup Parts(n) :
    /\ Kind(x) \notin {"rate", "composite"}
    /\ Kind(x) = "latency" => \A s \in SpansOf(t) : s.start > 0

InvertedFilters(n) == {f \in Parts(n) : Kind(f) = "string" /\ Policies[f].invert}

\* A verdict depends on the spans of the trace alone: not on the order in which they arrived, on the
\* values that earlier traces left in the cache of regular expressions, or on the order in which
\* sub-policies are configured.  Policies with inverted filters are left to FiltersMatchAsDocumented,
\* which the code breaks.
VerdictIsOfTheTrace ==
  verdict.decision # "Unspecified" =>
    LET n == verdict.policy
        t == Traces[verdict.trace]
        holds == IF Kind(n) = "and" THEN \A s \in ToSet(Subs(n)) : Claims(s, t) ELSE Claims(n, t)
    IN DependsOnTheTrace(n, t) =>
         IF Kind(n) = "policy" THEN InvertedFilters(n) = {} => verdict.decision \in Decisions(n, t)
         ELSE verdict.decision \in {"Sampled", "InvertSampled"} <=> holds

\* What the configuration says of filters, inverted ones included: a policy has no result exactly
\* when its filters do not hold.
FiltersMatchAsDocumented ==
  verdict.decision # "Unspecified" /\ Kind(verdict.policy) = "policy" =>
    (verdict.decision = "NoResult" <=> ~Applies(verdict.policy, Traces[verdict.trace]))

\* The sum of f over a list.
Total(f, list) ==
  LET sum[i \in 0..Len(list)] == IF i = 0 THEN 0 ELSE sum[i - 1] + f[list[i]]
  IN sum[Len(list)]

\* What a composite may let pass for each of its parts.
Allowed(n) ==
  LET least(a, b) == IF a <= b THEN a ELSE b
  IN [s \in ToSet(Subs(n)) |-> least(Policies[n].allocated[s], Policies[n].maxTotal)]

\* In a second no more spans pass than are allowed, whatever the sizes of the traces and their order;
\* for a composite that is what its parts are allowed together.  Its maxTotalSPS limits each of them,
\* not their sum, although the field calls itself the maximum of the total (see the README).
RatesAreKept ==
  \A n \in Roots :
    /\ Kind(n) = "rate" => sampledIn[n] = 0 \/ sampledIn[n] < Policies[n].spansPerSecond
    /\ Kind(n) = "composite" => sampledIn[n] <= Total(Allowed(n), Subs(n))

\* Policies decide by the trace, and samplers of rates within their rate.
VerdictsAreSound == VerdictIsOfTheTrace /\ RatesAreKept
=============================================================================
