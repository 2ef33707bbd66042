----------------------------- MODULE RegexCache -----------------------------
(***************************************************************************)
(* The cache of a regex parser of the logs pipeline: a map of the texts it *)
(* has matched, a channel of their keys from the oldest to the newest, and *)
(* a limiter that stops additions while too many evictions have happened.  *)
(*                                                                         *)
(* Every worker is a goroutine with one entry.  It looks a text up, matches*)
(* it when it is not there, asks the limiter, and adds the result: four    *)
(* steps between which the other goroutines go on.  A lookup and an        *)
(* addition are atomic under the cache's mutex.                            *)
(***************************************************************************)
EXTENDS Integers, Sequences, FiniteSets

CONSTANTS
  Workers,     \* goroutines that process an entry
  Parsers,     \* the regex parsers of the pipeline that have a cache
  MatchOf,     \* [Parsers -> [text -> what the parser's groups capture, or NoMatch]]
  NoMatch,
  Size,        \* [Parsers -> cache.size]: Build makes a cache only when it is positive
  KeepsBits    \* how the build converts a negative float64 to uint64: Go leaves it open,
               \* amd64 keeps the bits of the integer, arm64 gives 0

ASSUME SizeAssumption == Size \in [Parsers -> Nat \ {0}]

VARIABLES
  mem,         \* [Parsers -> [cache, keys, count]]
  job,         \* [Workers -> the text a worker is about to add, or NoJob]
  ticking      \* the limiters' goroutines run

cacheVars == <<mem, job, ticking>>

NoJob == [at |-> "none", parser |-> "", text |-> ""]
limit(p) == Size[p] + 1

CacheInit ==
  /\ mem = [p \in Parsers |-> [cache |-> [t \in {} |-> NoMatch], keys |-> <<>>, count |-> 0]]
  /\ job = [w \in Workers |-> NoJob]
  /\ ticking = TRUE

-----------------------------------------------------------------------------

Cached(p, t) == t \in DOMAIN mem[p].cache
Throttled(p) == mem[p].count >= limit(p)

\* Throttled or not is decided before the mutex is taken.
AskLimiter(w, p, t) ==
  /\ job[w] = [at |-> "ask", parser |-> p, text |-> t]
  /\ ~Throttled(p)
  /\ job' = [job EXCEPT ![w].at = "add"]
  /\ UNCHANGED <<mem, ticking>>

Increment(p, count) == IF count = limit(p) THEN count ELSE count + 1

\* The oldest key makes room, the item it names goes with it.
EvictOldest(m, p) ==
  [cache |-> [t \in DOMAIN m.cache \ {Head(m.keys)} |-> m.cache[t]],
   keys  |-> Tail(m.keys),
   count |-> Increment(p, m.count)]

\* Mutant: the cache is full when the map is.
MakeRoomInMap(m, p) == IF Cardinality(DOMAIN m.cache) = Size[p] THEN EvictOldest(m, p) ELSE m

MakeRoom(m, p) == IF Len(m.keys) = Size[p] THEN EvictOldest(m, p) ELSE m

Add(m, p, t) ==
  LET e == MakeRoom(m, p)
  IN [e EXCEPT !.cache = [x \in DOMAIN e.cache \cup {t} |-> IF x = t THEN MatchOf[p][t] ELSE e.cache[x]],
               !.keys  = Append(@, t)]

\* x is a tenth of the limit, rounded, and negative; ^uint64(x) is added.
Tenth(p) == (limit(p) + 5) \div 10
Reduction(p) == IF KeepsBits THEN Tenth(p) - 1 ELSE -1

Tick(p) ==
  /\ ticking
  /\ mem[p].count > 0
  /\ mem' = [mem EXCEPT ![p].count = @ + Reduction(p)]
  /\ UNCHANGED <<job, ticking>>

Stop ==
  /\ ticking
  /\ ticking' = FALSE
  /\ UNCHANGED <<mem, job>>

-----------------------------------------------------------------------------

\* Although several goroutines may add one text at a time, which leaves its key in the
\* channel twice, the channel never holds more keys than its size (add would block for ever
\* with the mutex held) and no item stays in the map without a key that will evict it;
\* and what is cached is what the expression captures.
CacheIsBounded ==
  \A p \in Parsers :
    /\ Len(mem[p].keys) <= Size[p]
    /\ \A t \in DOMAIN mem[p].cache :
         /\ \E i \in DOMAIN mem[p].keys : mem[p].keys[i] = t
         /\ mem[p].cache[t] = MatchOf[p][t]
=============================================================================
