------------------------- MODULE LogsPipeline_proofs -------------------------
(***************************************************************************)
(* Proofs about LogsPipeline, for any operators, batches, number of        *)
(* goroutines and sizes of the caches.                                     *)
(*                                                                         *)
(* The caches first: that they stay bounded needs only their shape.  That  *)
(* an entry goes as if it were alone needs what the caches hold to be what *)
(* the expressions capture, and that a goroutine that has matched a text   *)
(* is still at the operator and the text it matched when it adds them      *)
(* (JobsInv); and that goroutines are started once and have ended when     *)
(* their call returns (WorkersInv).  Then every entry is on the trail it   *)
(* has alone (TrailInv), and what a call returns is the ends of the trails *)
(* of its records, regrouped.                                              *)
(***************************************************************************)
EXTENDS LogsPipeline, FiniteSetTheorems, WellFoundedInduction, TLAPS

\* The keys are a sequence, the other fields whatever they are.
KeysShape == \A p \in Parsers : mem[p].keys \in Seq({mem[p].keys[i] : i \in DOMAIN mem[p].keys})

\* A cache is a record of three fields.
CachesShape == mem = [p \in Parsers |-> [cache |-> mem[p].cache, keys |-> mem[p].keys, count |-> mem[p].count]]

\* The inductive invariant of the caches.
CachesInv == CachesShape /\ KeysShape /\ CacheIsBounded

\* Of a cache by itself, what CacheIsBounded says.
Bounded(m, p) ==
  /\ m.keys \in Seq({m.keys[i] : i \in DOMAIN m.keys})
  /\ Len(m.keys) <= Size[p]
  /\ \A t \in DOMAIN m.cache : /\ \E i \in DOMAIN m.keys : m.keys[i] = t
                               /\ m.cache[t] = MatchOf[p][t]

-----------------------------------------------------------------------------
(* The caches                                                              *)

\* CachesInv says of every cache that it is bounded.
LEMMA CachesAreBounded == CachesInv <=> CachesShape /\ \A p \in Parsers : Bounded(mem[p], p)
BY DEF CachesInv, KeysShape, CacheIsBounded, Bounded

\* A sequence is one over its elements, and so are its tail and what it is when appended to.
LEMMA SequenceOfElements ==
  ASSUME NEW S, NEW s \in Seq(S)
  PROVE  s \in Seq({s[i] : i \in DOMAIN s})
<1> DEFINE T == {s[i] : i \in DOMAIN s}
<1>1. Len(s) \in Nat /\ DOMAIN s = 1..Len(s) /\ s = [i \in 1..Len(s) |-> s[i]]
  OBVIOUS
<1>2. s \in [1..Len(s) -> T]
  BY <1>1
<1>3. QED
  BY <1>1, <1>2

\* Making room leaves a bounded cache with room for a key.
LEMMA RoomIsMade ==
  ASSUME NEW p \in Parsers, NEW m, Bounded(m, p)
  PROVE  Bounded(MakeRoom(m, p), p) /\ Len(MakeRoom(m, p).keys) < Size[p]
<1> USE SizeAssumption
<1> DEFINE K == {m.keys[i] : i \in DOMAIN m.keys}
<1>1. m.keys \in Seq(K) /\ Len(m.keys) \in Nat /\ Size[p] \in Nat \ {0} /\ Len(m.keys) <= Size[p]
  BY DEF Bounded
<1>2. CASE Len(m.keys) # Size[p]
  BY <1>1, <1>2 DEF MakeRoom
<1>3. CASE Len(m.keys) = Size[p]
  <2> DEFINE e == EvictOldest(m, p)
  <2>1. e.keys = Tail(m.keys) /\ DOMAIN e.cache = DOMAIN m.cache \ {Head(m.keys)}
        /\ \A t \in DOMAIN e.cache : e.cache[t] = m.cache[t]
    BY DEF EvictOldest
  <2>2. m.keys # <<>>
    BY <1>1, <1>3
  <2>3. /\ Tail(m.keys) \in Seq(K) /\ Len(Tail(m.keys)) = Len(m.keys) - 1
        /\ \A i \in 1..Len(Tail(m.keys)) : Tail(m.keys)[i] = m.keys[i + 1]
    BY <1>1, <2>2
  <2>4. Tail(m.keys) \in Seq({Tail(m.keys)[i] : i \in DOMAIN Tail(m.keys)})
    <3> DEFINE k == Tail(m.keys)
    <3> HIDE DEF k
    <3>1. k \in Seq(K)
      BY <2>3 DEF k
    <3>2. k \in Seq({k[i] : i \in DOMAIN k})
      BY <3>1, SequenceOfElements
    <3>3. QED
      BY <3>2 DEF k
  <2>5. ASSUME NEW t \in DOMAIN e.cache
        PROVE  (\E i \in DOMAIN e.keys : e.keys[i] = t) /\ e.cache[t] = MatchOf[p][t]
    <3>1. t \in DOMAIN m.cache /\ t # Head(m.keys)
      BY <2>1
    <3>2. PICK i \in DOMAIN m.keys : m.keys[i] = t
      BY <3>1 DEF Bounded
    <3>3. i \in 1..Len(m.keys) /\ i # 1
      BY <1>1, <2>2, <3>1, <3>2
    <3>4. i - 1 \in 1..Len(Tail(m.keys)) /\ Tail(m.keys)[i - 1] = t
      BY <1>1, <2>3, <3>2, <3>3
    <3>5. DOMAIN Tail(m.keys) = 1..Len(Tail(m.keys))
      BY <2>3
    <3>6. QED
      BY <2>1, <3>1, <3>4, <3>5 DEF Bounded
  <2>6. Bounded(e, p) /\ Len(e.keys) < Size[p]
    <3> HIDE DEF e
    <3>1. Len(e.keys) <= Size[p] /\ Len(e.keys) < Size[p]
      BY <1>1, <1>3, <2>1, <2>3
    <3>2. e.keys \in Seq({e.keys[i] : i \in DOMAIN e.keys})
      BY <2>1, <2>4
    <3>3. QED
      BY <2>5, <3>1, <3>2 DEF Bounded
  <2>7. QED
    BY <1>3, <2>6 DEF MakeRoom
<1>4. QED
  BY <1>2, <1>3

\* A record with two of its fields replaced.
LEMMA RecordExcept ==
  ASSUME NEW e, e = [cache |-> e.cache, keys |-> e.keys, count |-> e.count], NEW c, NEW k,
         NEW z, z = [e EXCEPT !.cache = c, !.keys = k]
  PROVE  z = [cache |-> c, keys |-> k, count |-> e.count]
OBVIOUS

\* An addition leaves the cache bounded.
LEMMA AddKeepsBound ==
  ASSUME NEW p \in Parsers, NEW t, NEW m, Bounded(m, p),
         m = [cache |-> m.cache, keys |-> m.keys, count |-> m.count]
  PROVE  /\ Bounded(Add(m, p, t), p)
         /\ Add(m, p, t) = [cache |-> Add(m, p, t).cache, keys |-> Add(m, p, t).keys, count |-> Add(m, p, t).count]
<1> DEFINE e == MakeRoom(m, p)
           K == {e.keys[i] : i \in DOMAIN e.keys} \cup {t}
           c == [x \in DOMAIN e.cache \cup {t} |-> IF x = t THEN MatchOf[p][t] ELSE e.cache[x]]
<1>1. Bounded(e, p) /\ Len(e.keys) < Size[p]
  BY RoomIsMade
<1>2. e = [cache |-> e.cache, keys |-> e.keys, count |-> e.count]
  BY DEF MakeRoom, EvictOldest
<1>3. Add(m, p, t) = [cache |-> c, keys |-> Append(e.keys, t), count |-> e.count]
  <2> HIDE DEF e
  <2>1. [e EXCEPT !.cache = c, !.keys = Append(@, t)] = [cache |-> c, keys |-> Append(e.keys, t), count |-> e.count]
    <3> DEFINE k == Append(e.keys, t)
               z == [e EXCEPT !.cache = c, !.keys = Append(@, t)]
    <3> HIDE DEF c
    <3>1. z = [e EXCEPT !.cache = c, !.keys = k]
      BY <1>2
    <3> HIDE DEF z, k
    <3>2. z = [cache |-> c, keys |-> k, count |-> e.count]
      BY <1>2, <3>1, RecordExcept
    <3>3. QED
      BY <3>2 DEF k, z
  <2>2. Add(m, p, t) = [e EXCEPT !.cache = c, !.keys = Append(@, t)]
    BY DEF Add, e
  <2>3. QED
    BY <2>1, <2>2
<1>4. e.keys \in Seq(K) /\ t \in K
  <2>1. e.keys \in Seq({e.keys[i] : i \in DOMAIN e.keys})
    BY <1>1 DEF Bounded
  <2> HIDE DEF e
  <2>2. QED
    BY <2>1
<1> HIDE DEF e, K
<1>5. /\ Append(e.keys, t) \in Seq(K) /\ Len(Append(e.keys, t)) = Len(e.keys) + 1
      /\ DOMAIN Append(e.keys, t) = 1..(Len(e.keys) + 1) /\ DOMAIN e.keys = 1..Len(e.keys)
      /\ Append(e.keys, t)[Len(e.keys) + 1] = t
      /\ \A i \in 1..Len(e.keys) : Append(e.keys, t)[i] = e.keys[i]
      /\ Len(e.keys) \in Nat
  BY <1>4
<1>6. Append(e.keys, t) \in Seq({Append(e.keys, t)[i] : i \in DOMAIN Append(e.keys, t)})
  BY <1>5, SequenceOfElements
<1>7. ASSUME NEW x \in DOMAIN c
      PROVE  (\E i \in DOMAIN Append(e.keys, t) : Append(e.keys, t)[i] = x) /\ c[x] = MatchOf[p][x]
  <2>1. CASE x = t
    <3>1. Len(e.keys) + 1 \in 1..(Len(e.keys) + 1)
      BY <1>5
    <3>2. QED
      BY <1>5, <2>1, <3>1
  <2>2. CASE x # t
    <3>1. PICK i \in DOMAIN e.keys : e.keys[i] = x
      BY <1>1, <2>2 DEF Bounded
    <3>2. i \in 1..(Len(e.keys) + 1)
      BY <1>5
    <3>3. Append(e.keys, t)[i] = x
      BY <1>5, <3>1
    <3>4. c[x] = MatchOf[p][x]
      BY <1>1, <2>2 DEF Bounded
    <3>5. QED
      BY <1>5, <3>2, <3>3, <3>4
  <2>3. QED
    BY <2>1, <2>2
<1>8. Len(Append(e.keys, t)) <= Size[p]
  BY <1>1, <1>5, SizeAssumption
<1>9. Bounded(Add(m, p, t), p)
  <2> DEFINE k == Append(e.keys, t)
  <2> HIDE DEF k, c
  <2>1. k \in Seq({k[i] : i \in DOMAIN k}) /\ Len(k) <= Size[p]
    BY <1>6, <1>8 DEF k
  <2>2. \A x \in DOMAIN c : (\E i \in DOMAIN k : k[i] = x) /\ c[x] = MatchOf[p][x]
    BY <1>7 DEF k
  <2>3. Add(m, p, t).keys = k /\ Add(m, p, t).cache = c
    BY <1>3 DEF k
  <2>4. QED
    BY <2>1, <2>2, <2>3 DEF Bounded
<1>10. QED
  <2> HIDE DEF c
  <2>1. QED
    BY <1>3, <1>9


\* Only three kinds of step change the caches: an addition, a tick, or nothing.
LEMMA CacheSteps ==
  ASSUME [PipeNext]_pipeVars
  PROVE  \/ UNCHANGED mem
         \/ \E p \in Parsers : mem' = [mem EXCEPT ![p].count = @ + Reduction(p)]
         \/ \E q, t : mem' = [mem EXCEPT ![q] = Add(@, q, t)]
<1>1. CASE UNCHANGED pipeVars
  BY <1>1 DEF pipeVars, cacheVars
<1>2. CASE \E c \in DOMAIN Batches : Receive(c) \/ Spawn(c) \/ Return(c)
  BY <1>2 DEF Receive, Spawn, Return, cacheVars
<1>3. ASSUME NEW w \in Workers, Matched(w) \/ Ask(w) \/ Release(w) PROVE UNCHANGED mem
  BY <1>3 DEF Matched, Ask, AskLimiter, Release, cacheVars
<1>4. ASSUME NEW w \in Workers, Step(w)
      PROVE  UNCHANGED mem \/ \E q, t : mem' = [mem EXCEPT ![q] = Add(@, q, t)]
  BY <1>4 DEF Step
<1>5. CASE Ticks
  BY <1>5 DEF Ticks, Tick
<1>6. CASE Shutdown
  BY <1>6 DEF Shutdown, Stop
<1>7. QED
  BY <1>1, <1>2, <1>3, <1>4, <1>5, <1>6 DEF PipeNext

\* The caches stay bounded.
LEMMA CachesStep ==
  ASSUME CachesInv, [PipeNext]_pipeVars
  PROVE  CachesInv'
<1>1. CachesShape /\ \A p \in Parsers : Bounded(mem[p], p)
  BY CachesAreBounded
<1>2. CachesShape' /\ \A p \in Parsers : Bounded(mem'[p], p)
  <2>1. CASE UNCHANGED mem
    BY <1>1, <2>1 DEF CachesShape
  <2>2. ASSUME NEW p \in Parsers, mem' = [mem EXCEPT ![p].count = @ + Reduction(p)]
        PROVE  CachesShape' /\ \A x \in Parsers : Bounded(mem'[x], x)
    <3> DEFINE r == Reduction(p)
    <3> HIDE DEF r
    <3>1. mem' = [mem EXCEPT ![p].count = @ + r]
      BY <2>2 DEF r
    <3>2. DOMAIN mem = Parsers /\ mem = [x \in Parsers |-> mem[x]]
      BY <1>1 DEF CachesShape
    <3>3. mem' = [x \in Parsers |-> IF x = p THEN [mem[p] EXCEPT !.count = @ + r] ELSE mem[x]]
      BY <3>1, <3>2
    <3>4. mem[p] = [cache |-> mem[p].cache, keys |-> mem[p].keys, count |-> mem[p].count]
      BY <1>1 DEF CachesShape
    <3>5. mem'[p] = [cache |-> mem[p].cache, keys |-> mem[p].keys, count |-> mem[p].count + r]
      BY <3>3, <3>4
    <3>6. \A x \in Parsers : /\ mem'[x].cache = mem[x].cache /\ mem'[x].keys = mem[x].keys
                             /\ mem'[x] = [cache |-> mem'[x].cache, keys |-> mem'[x].keys, count |-> mem'[x].count]
      <4>1. \A x \in Parsers \ {p} : mem'[x] = mem[x]
        BY <3>3
      <4>2. \A x \in Parsers : mem[x] = [cache |-> mem[x].cache, keys |-> mem[x].keys, count |-> mem[x].count]
        BY <1>1 DEF CachesShape
      <4>3. QED
        BY <3>5, <4>1, <4>2
    <3>7. CachesShape'
      BY <3>3, <3>6 DEF CachesShape
    <3>8. ASSUME NEW x \in Parsers PROVE Bounded(mem'[x], x)
      <4>1. mem'[x].cache = mem[x].cache /\ mem'[x].keys = mem[x].keys /\ Bounded(mem[x], x)
        BY <1>1, <3>6
      <4>2. QED
        BY <4>1 DEF Bounded
    <3>9. QED
      BY <3>7, <3>8
  <2>3. ASSUME NEW q, NEW t, mem' = [mem EXCEPT ![q] = Add(@, q, t)]
        PROVE  CachesShape' /\ \A x \in Parsers : Bounded(mem'[x], x)
    <3>1. DOMAIN mem = Parsers /\ mem = [x \in Parsers |-> mem[x]]
      BY <1>1 DEF CachesShape
    <3>2. mem' = [x \in Parsers |-> IF x = q THEN Add(mem[q], q, t) ELSE mem[x]]
      BY <2>3, <3>1
    <3>3. ASSUME NEW x \in Parsers
          PROVE  /\ Bounded(mem'[x], x)
                 /\ mem'[x] = [cache |-> mem'[x].cache, keys |-> mem'[x].keys, count |-> mem'[x].count]
      <4>1. mem[x] = [cache |-> mem[x].cache, keys |-> mem[x].keys, count |-> mem[x].count] /\ Bounded(mem[x], x)
        BY <1>1 DEF CachesShape
      <4>2. CASE x # q
        BY <3>2, <4>1, <4>2
      <4>3. CASE x = q
        <5> DEFINE m == mem[x]
        <5> HIDE DEF m
        <5>1. /\ Bounded(Add(m, x, t), x)
              /\ Add(m, x, t) = [cache |-> Add(m, x, t).cache, keys |-> Add(m, x, t).keys, count |-> Add(m, x, t).count]
          BY <4>1, AddKeepsBound DEF m
        <5>2. mem'[x] = Add(m, x, t)
          BY <3>2, <4>3 DEF m
        <5>3. QED
          BY <5>1, <5>2
      <4>4. QED
        BY <4>2, <4>3
    <3>4. QED
      BY <3>2, <3>3 DEF CachesShape
  <2>4. QED
    BY <2>1, <2>2, <2>3, CacheSteps
<1>3. QED
  BY <1>2, CachesAreBounded DEF CachesInv, CachesShape, KeysShape, CacheIsBounded, Bounded

\* The inductive invariant of the caches of regex parsers, for any number of goroutines,
\* any sizes, and whatever the pipelines are.
THEOREM CachesInvariant == PipeSpec => []CachesInv
<1>1. PipeInit => CachesInv
  <2> SUFFICES ASSUME PipeInit PROVE CachesInv
    OBVIOUS
  <2>1. CachesShape
    BY DEF PipeInit, CacheInit, CachesShape
  <2>2. ASSUME NEW p \in Parsers PROVE Bounded(mem[p], p)
    <3>1. mem[p].keys = <<>> /\ DOMAIN mem[p].cache = {}
      BY DEF PipeInit, CacheInit
    <3>2. <<>> \in Seq({<<>>[i] : i \in DOMAIN <<>>}) /\ Len(<<>>) = 0
      OBVIOUS
    <3>3. 0 <= Size[p]
      BY SizeAssumption
    <3>4. QED
      BY <3>1, <3>2, <3>3 DEF Bounded
  <2>3. QED
    BY <2>1, <2>2, CachesAreBounded
<1>2. CachesInv /\ [PipeNext]_pipeVars => CachesInv'
  BY CachesStep
<1>3. QED
  BY <1>1, <1>2, PTL DEF PipeSpec

\* memoryCache.add never blocks on its channel with the mutex held, no item stays in the map
\* without a key that will evict it, and what is cached is what the expression captures.
THEOREM CachesStayBounded == PipeSpec => []CacheIsBounded
BY CachesInvariant, PTL DEF CachesInv

-----------------------------------------------------------------------------
(* Calls, goroutines and entries                                           *)

\* Calls are records; a call has started no more goroutines than it has records.
CallsInv ==
  /\ calls = [c \in DOMAIN Batches |-> [at |-> calls[c].at, spawned |-> calls[c].spawned, out |-> calls[c].out]]
  /\ \A c \in DOMAIN Batches :
       /\ calls[c].at \in {"new", "spawn", "done"}
       /\ calls[c].spawned \in 0..Len(Batches[c])
       /\ calls[c].at = "done" => calls[c].spawned = Len(Batches[c])

\* A goroutine with operators left is running, one that runs is one its call has started and
\* waits for, and an entry whose goroutine has not been started is as the batch has it.
WorkersInv ==
  /\ agenda = [w \in Workers |-> agenda[w]]
  /\ entries = [w \in PlogToEntries |-> entries[w]]
  /\ \A w \in Workers : agenda[w] \in Seq(DOMAIN Ops)
  /\ \A w \in Workers : agenda[w] # <<>> => w \in running
  /\ \A w \in running : w \in PlogToEntries /\ calls[w[1]].at = "spawn" /\ w[2] <= calls[w[1]].spawned
  /\ \A w \in PlogToEntries : calls[w[1]].spawned < w[2] => entries[w] = Batches[w[1]][w[2]]

\* Between a match and its addition the goroutine stays where it was.
AtJob(j, a, e) ==
  /\ a # <<>>
  /\ j = [at |-> j.at, parser |-> Head(a), text |-> j.text]
  /\ j.at \in {"ask", "add"}
  /\ j.text \in TextsOf(Ops[Head(a)], e)
  /\ MatchOf[Head(a)][j.text] # NoMatch

\* What AtJob says, of every goroutine that has matched a text.
JobsInv ==
  /\ job = [w \in Workers |-> job[w]]
  /\ \A w \in Workers : job[w] # NoJob => AtJob(job[w], agenda[w], entries[w])

\* Only matches are cached.
MatchesAreCached == \A p \in Parsers : \A t \in DOMAIN mem[p].cache : MatchOf[p][t] # NoMatch

\* The invariant of the pipeline.
PipeInv == CallsInv /\ WorkersInv /\ JobsInv /\ ReturnsWhatIsLeft

\* A worker is a call and the index of one of its records.
LEMMA WorkersOfCalls ==
  /\ \A w \in PlogToEntries : /\ w[1] \in DOMAIN Batches /\ w[2] \in DOMAIN Batches[w[1]]
                              /\ w = <<w[1], w[2]>> /\ w \in Workers
                              /\ w[2] \in Nat \ {0} /\ w[2] <= Len(Batches[w[1]])
  /\ \A c \in DOMAIN Batches : \A i \in DOMAIN Batches[c] : <<c, i>> \in PlogToEntries /\ <<c, i>> \in Workers
<1> USE PipelineAssumption
<1>1. ASSUME NEW w \in PlogToEntries
      PROVE  w[1] \in DOMAIN Batches /\ w[2] \in DOMAIN Batches[w[1]] /\ w = <<w[1], w[2]>>
  <2>1. PICK c \in DOMAIN Batches : w \in {c} \X DOMAIN Batches[c]
    BY DEF PlogToEntries
  <2>2. PICK i \in DOMAIN Batches[c] : w = <<c, i>>
    BY <2>1
  <2>3. QED
    BY <2>2
<1>2. ASSUME NEW c \in DOMAIN Batches, NEW i \in DOMAIN Batches[c]
      PROVE  <<c, i>> \in PlogToEntries /\ <<c, i>> \in Workers
  <2>1. <<c, i>> \in {c} \X DOMAIN Batches[c]
    OBVIOUS
  <2>2. QED
    BY <2>1 DEF PlogToEntries
<1>3. \A c \in DOMAIN Batches : DOMAIN Batches[c] = 1..Len(Batches[c]) /\ Len(Batches[c]) \in Nat
  OBVIOUS
<1>4. QED
  BY <1>1, <1>2, <1>3

\* A non-empty set of numbers has a least one.
LEMMA LeastNumber ==
  ASSUME NEW T, T \subseteq Nat, T # {}
  PROVE  \E x \in T : \A y \in T : x <= y
<1> DEFINE Below == {ss \in Nat \X Nat : ss[1] < ss[2]}
<1>1. IsWellFoundedOn(Below, Nat)
  BY NatLessThanWellFounded DEF OpToRel
<1> HIDE DEF Below
<1>2. PICK x \in T : \A y \in T : ~ (<<y, x>> \in Below)
  BY <1>1, WFMin
<1>3. ASSUME NEW y \in T PROVE x <= y
  <2>1. <<y, x>> \in Nat \X Nat
    OBVIOUS
  <2>2. ~ (y < x)
    BY <1>2, <2>1 DEF Below
  <2>3. QED
    BY <2>2
<1>4. QED
  BY <1>3

\* Induction over the numbers up to n, for a set.
LEMMA UpTo ==
  ASSUME NEW n \in Nat, NEW S, 0 \in S, \A i \in 0..(n - 1) : i \in S => i + 1 \in S
  PROVE  0..n \subseteq S
<1> SUFFICES ASSUME ~ (0..n \subseteq S) PROVE FALSE
  OBVIOUS
<1> DEFINE T == {i \in 0..n : i \notin S}
<1>1. T \subseteq Nat /\ T # {}
  OBVIOUS
<1>2. PICK x \in T : \A y \in T : x <= y
  <2> HIDE DEF T
  <2>1. QED
    BY <1>1, LeastNumber
<1>3. x \in 0..n /\ x # 0 /\ x - 1 \in 0..(n - 1)
  OBVIOUS
<1>4. x - 1 \in S
  BY <1>2, <1>3
<1>5. x \in S
  <2>1. (x - 1) + 1 = x
    BY <1>3
  <2>2. QED
    BY <1>3, <1>4, <2>1
<1>6. QED
  BY <1>5

\* It is Min.
LEMMA Minimum ==
  ASSUME NEW T, T \subseteq Nat, T # {}
  PROVE  Min(T) \in T
BY LeastNumber DEF Min

\* What an operator leaves to be called next are operators.
LEMMA NextAreOperators ==
  ASSUME NEW id \in DOMAIN Ops, NEW e, NEW c
  PROVE  Process(Ops[id], e, c).next \in Seq(DOMAIN Ops)
<1> DEFINE o == Ops[id]
<1> HIDE DEF o
<1>1. CASE o.type = "router"
  <2> DEFINE hits == {i \in DOMAIN o.routes : Holds(e, o.routes[i].when)}
  <2>1. Process(o, e, c).next = Take(o, RouteEnv(o, e), hits).next
    BY <1>1 DEF Process, Route
  <2> HIDE DEF hits
  <2>2. CASE hits = {}
    <3>1. "default" \in DOMAIN o => o.default \in Seq(DOMAIN Ops)
      BY <1>1, PipelineAssumption DEF o
    <3>2. DefaultOf(o) \in Seq(DOMAIN Ops)
      <4>1. DefaultOf(o) = <<>> \/ ("default" \in DOMAIN o /\ DefaultOf(o) = o.default)
        BY DEF DefaultOf
      <4>2. <<>> \in Seq(DOMAIN Ops)
        OBVIOUS
      <4>3. QED
        BY <3>1, <4>1, <4>2
    <3>3. Take(o, RouteEnv(o, e), hits).next = DefaultOf(o)
      BY <2>2 DEF Take
    <3>4. QED
      BY <2>1, <3>2, <3>3 DEF o
  <2>3. CASE hits # {}
    <3>1. hits \subseteq DOMAIN o.routes /\ hits \subseteq Nat
      BY <1>1, PipelineAssumption DEF o, hits
    <3>2. Min(hits) \in DOMAIN o.routes
      BY <2>3, <3>1, Minimum
    <3>3. o.routes[Min(hits)].outputs \in Seq(DOMAIN Ops)
      BY <1>1, <3>2, PipelineAssumption DEF o
    <3>4. QED
      BY <2>1, <2>3, <3>3 DEF Take, o
  <2>4. QED
    BY <2>2, <2>3 DEF o
<1>2. CASE o.type # "router"
  <2>1. o.output \in Seq(DOMAIN Ops)
    BY <1>2, PipelineAssumption DEF o
  <2>2. CASE o.type = "noop"
    BY <1>2, <2>1, <2>2 DEF Process, o
  <2>3. CASE o.type # "noop"
    <3>1. Process(o, e, c).next = ProcessWith(o, e, c).next
      BY <1>2, <2>3 DEF Process
    <3>2. ASSUME NEW r PROVE HandleEntryError(o, r).next \in Seq(DOMAIN Ops)
      <4>1. HandleEntryError(o, r).next \in {o.output, <<>>}
        BY DEF HandleEntryError
      <4>2. <<>> \in Seq(DOMAIN Ops)
        OBVIOUS
      <4>3. QED
        BY <2>1, <4>1, <4>2
    <3>3. ProcessWith(o, e, c).next \in Seq(DOMAIN Ops)
      BY <3>2 DEF ProcessWith
    <3>4. QED
      BY <3>1, <3>3 DEF o
  <2>4. QED
    BY <2>2, <2>3
<1>3. QED
  BY <1>1, <1>2


\* There is at most one text in a field.
LEMMA OneText ==
  ASSUME NEW o, NEW e, NEW t \in TextsOf(o, e), NEW u \in TextsOf(o, e)
  PROVE  t = u /\ o.type = "regex"
BY DEF TextsOf, TextIn

\* What an operator takes for the captures of its expression.
Found(id, e) == {MatchOf[id][t] : t \in TextsOf(Ops[id], e)} \ {NoMatch}
Captured(id, e) == IF Found(id, e) = {} THEN Nil ELSE CHOOSE x \in Found(id, e) : TRUE

\* The caches do not show: whether a text is looked up, matched or added, the operator goes
\* on with what its expression captures.
LEMMA CapturesAreAlone ==
  ASSUME CachesInv, MatchesAreCached, WorkersInv, JobsInv,
         NEW w \in Workers, agenda[w] # <<>>, NEW c \in Captures(w)
  PROVE  c = Captured(Head(agenda[w]), entries[w])
<1> DEFINE id == Head(agenda[w])
           e  == entries[w]
           texts == TextsOf(Ops[id], e)
<1>1. id \in DOMAIN Ops
  BY DEF WorkersInv
<1>2. ASSUME NEW t \in texts
      PROVE  /\ id \in Parsers /\ texts = {t}
             /\ MatchOf[id][t] = NoMatch => Captured(id, e) = Nil
             /\ MatchOf[id][t] # NoMatch => Captured(id, e) = MatchOf[id][t]
  <2>1. id \in Parsers
    BY <1>1, <1>2, OneText, PipelineAssumption
  <2>2. texts = {t}
    BY <1>2, OneText
  <2> HIDE DEF id, e
  <2>3. Found(id, e) = {MatchOf[id][t]} \ {NoMatch}
    BY <2>2 DEF Found
  <2>4. QED
    BY <2>1, <2>2, <2>3 DEF Captured
<1> HIDE DEF id, e
<1>3. CASE job[w] = NoJob
  <2>1. c \in AtOnce(id, texts)
    BY <1>3 DEF Captures, id, e
  <2>2. CASE texts = {}
    BY <2>1, <2>2 DEF AtOnce, Captured, Found, id, e
  <2>3. ASSUME NEW t \in texts PROVE c = Captured(id, e)
    <3>1. c \in Lookup(id, t)
      BY <2>1, <1>2 DEF AtOnce
    <3>2. CASE Cached(id, t)
      <4>1. c = mem[id].cache[t] /\ t \in DOMAIN mem[id].cache /\ id \in Parsers
        BY <1>2, <3>1, <3>2 DEF Lookup, Cached, CacheOf
      <4>2. c = MatchOf[id][t] /\ MatchOf[id][t] # NoMatch
        BY <4>1 DEF CachesInv, CacheIsBounded, MatchesAreCached
      <4>3. QED
        BY <1>2, <4>2
    <3>3. CASE ~Cached(id, t)
      BY <1>2, <3>1, <3>3 DEF Lookup, CacheOf
    <3>4. QED
      BY <3>2, <3>3
  <2>4. QED
    BY <2>2, <2>3 DEF id, e
<1>4. CASE job[w] # NoJob
  <2>1. job[w].text \in texts /\ MatchOf[id][job[w].text] # NoMatch
    BY <1>4 DEF JobsInv, AtJob, id, e
  <2>2. c = MatchOf[id][job[w].text]
    BY <1>4 DEF Captures, id
  <2>3. QED
    BY <1>2, <2>1, <2>2 DEF id, e
<1>5. QED
  BY <1>3, <1>4

\* What an addition adds to a cache.
LEMMA AddedToCache ==
  ASSUME NEW m, NEW p, NEW t, NEW x \in DOMAIN Add(m, p, t).cache,
         m = [cache |-> m.cache, keys |-> m.keys, count |-> m.count]
  PROVE  x = t \/ x \in DOMAIN m.cache
<1> DEFINE e == MakeRoom(m, p)
           c == [y \in DOMAIN e.cache \cup {t} |-> IF y = t THEN MatchOf[p][t] ELSE e.cache[y]]
           k == Append(e.keys, t)
           z == [e EXCEPT !.cache = c, !.keys = Append(@, t)]
<1>1. DOMAIN e.cache \subseteq DOMAIN m.cache /\ e = [cache |-> e.cache, keys |-> e.keys, count |-> e.count]
  BY DEF MakeRoom, EvictOldest
<1>2. Add(m, p, t) = z
  BY DEF Add
<1> HIDE DEF e, c
<1>3. z = [e EXCEPT !.cache = c, !.keys = k]
  BY <1>1
<1> HIDE DEF k, z
<1>4. z.cache = c
  BY <1>1, <1>3, RecordExcept
<1>5. QED
  BY <1>1, <1>2, <1>4 DEF c


\* The initial states satisfy the invariants.
LEMMA PipeInitInv == PipeInit => PipeInv /\ MatchesAreCached
<1> SUFFICES ASSUME PipeInit PROVE PipeInv /\ MatchesAreCached
  OBVIOUS
<1> USE DEF PipeInit, CacheInit
<1>1. CallsInv
  <2>1. \A c \in DOMAIN Batches : Len(Batches[c]) \in Nat
    BY PipelineAssumption
  <2>2. QED
    BY <2>1 DEF CallsInv
<1>2. WorkersInv
  BY WorkersOfCalls DEF WorkersInv
<1>3. JobsInv /\ ReturnsWhatIsLeft /\ MatchesAreCached
  BY DEF JobsInv, ReturnsWhatIsLeft, MatchesAreCached
<1>4. QED
  BY <1>1, <1>2, <1>3 DEF PipeInv

\* ProcessLogs begins.
LEMMA ReceiveStep == ASSUME PipeInv, NEW c \in DOMAIN Batches, Receive(c) PROVE PipeInv'
<1> USE DEF PipeInv, Receive, cacheVars
<1>1. CallsInv' /\ \A d \in DOMAIN Batches : /\ calls'[d].spawned = calls[d].spawned /\ calls'[d].out = calls[d].out
                                             /\ d # c => calls'[d].at = calls[d].at
                                             /\ calls'[c].at = "spawn" /\ calls[c].at = "new"
  BY DEF CallsInv
<1>2. WorkersInv'
  BY <1>1, WorkersOfCalls DEF WorkersInv
<1>3. JobsInv'
  BY DEF JobsInv
<1>4. ReturnsWhatIsLeft'
  BY <1>1 DEF ReturnsWhatIsLeft, CallsInv
<1>5. QED
  BY <1>1, <1>2, <1>3, <1>4

\* A goroutine is started for the next record of a call.
LEMMA SpawnStep ==
  ASSUME PipeInv, NEW c \in DOMAIN Batches, Spawn(c)
  PROVE  PipeInv' /\ \A w \in PlogToEntries : GoesAsAlone(w)
<1> DEFINE n == calls[c].spawned + 1
           s == <<c, n>>
<1> USE DEF PipeInv, cacheVars
<1>1. /\ calls[c].at = "spawn" /\ calls[c].spawned \in Nat /\ n \in 1..Len(Batches[c])
      /\ s \in PlogToEntries /\ s \in Workers
  <2>1. calls[c].at = "spawn" /\ calls[c].spawned < Len(Batches[c])
    BY DEF Spawn, MaySpawn
  <2>2. calls[c].spawned \in 0..Len(Batches[c]) /\ Len(Batches[c]) \in Nat /\ DOMAIN Batches[c] = 1..Len(Batches[c])
    BY PipelineAssumption DEF CallsInv
  <2>3. n \in 1..Len(Batches[c])
    BY <2>1, <2>2
  <2>4. QED
    BY <2>1, <2>2, <2>3, WorkersOfCalls
<1>2. /\ running' = running \cup {s} /\ agenda' = [agenda EXCEPT ![s] = <<FirstOp>>]
      /\ calls' = [calls EXCEPT ![c].spawned = n]
      /\ UNCHANGED <<entries, job>>
  <2>1. calls' = [calls EXCEPT ![c].spawned = @ + 1]
    BY DEF Spawn
  <2>2. calls' = [calls EXCEPT ![c].spawned = n]
    BY <2>1 DEF CallsInv
  <2>3. QED
    BY <2>2 DEF Spawn
<1> HIDE DEF n
<1>3. CallsInv' /\ \A d \in DOMAIN Batches : /\ calls'[d].at = calls[d].at /\ calls'[d].out = calls[d].out
                                             /\ d # c => calls'[d].spawned = calls[d].spawned
                                             /\ calls'[c].spawned = n
  <2>1. n \in 0..Len(Batches[c])
    BY <1>1
  <2>2. calls' = [d \in DOMAIN Batches |-> IF d = c THEN [calls[c] EXCEPT !.spawned = n] ELSE calls[d]]
    BY <1>2 DEF CallsInv
  <2>3. calls[c] = [at |-> calls[c].at, spawned |-> calls[c].spawned, out |-> calls[c].out]
    BY DEF CallsInv
  <2>4. calls'[c] = [at |-> "spawn", spawned |-> n, out |-> calls[c].out]
    BY <1>1, <2>2, <2>3
  <2>5. \A d \in DOMAIN Batches : d # c => calls'[d] = calls[d]
    BY <2>2
  <2>6. ASSUME NEW d \in DOMAIN Batches
        PROVE  /\ calls'[d] = [at |-> calls'[d].at, spawned |-> calls'[d].spawned, out |-> calls'[d].out]
               /\ calls'[d].at \in {"new", "spawn", "done"} /\ calls'[d].spawned \in 0..Len(Batches[d])
               /\ calls'[d].at = "done" => calls'[d].spawned = Len(Batches[d])
    <3>1. CASE d = c
      BY <2>1, <2>4, <3>1
    <3>2. CASE d # c
      <4>1. calls[d] = [at |-> calls[d].at, spawned |-> calls[d].spawned, out |-> calls[d].out]
        BY DEF CallsInv
      <4>2. QED
        BY <2>5, <3>2, <4>1 DEF CallsInv
    <3>3. QED
      BY <3>1, <3>2
  <2>7. CallsInv'
    BY <2>2, <2>6 DEF CallsInv
  <2>8. QED
    BY <1>1, <2>4, <2>5, <2>7
<1>4. agenda[s] = <<>> /\ s[1] = c /\ s[2] = n /\ calls[c].spawned < n /\ n \in Nat
  <2>1. calls[c].spawned < n /\ n \in Nat
    BY <1>1 DEF n
  <2>2. s \notin running
    BY <1>1, <2>1 DEF WorkersInv
  <2>3. QED
    BY <1>1, <2>1, <2>2 DEF WorkersInv
<1>5. \A w \in Workers : agenda'[w] = IF w = s THEN <<FirstOp>> ELSE agenda[w]
  BY <1>1, <1>2 DEF WorkersInv
<1>6. <<FirstOp>> \in Seq(DOMAIN Ops) /\ <<FirstOp>> # <<>>
  BY PipelineAssumption
<1>7. \A w \in PlogToEntries : calls'[w[1]].spawned < w[2] => calls[w[1]].spawned < w[2]
  BY <1>1, <1>3, <1>4, WorkersOfCalls DEF CallsInv
<1>8. WorkersInv'
  <2> HIDE DEF s
  <2>1. agenda' = [w \in Workers |-> agenda'[w]] /\ entries' = [w \in PlogToEntries |-> entries'[w]]
    BY <1>2 DEF WorkersInv
  <2>2. \A w \in Workers : agenda'[w] \in Seq(DOMAIN Ops) /\ (agenda'[w] # <<>> => w \in running')
    BY <1>2, <1>5, <1>6 DEF WorkersInv
  <2>3. ASSUME NEW w \in running' PROVE w \in PlogToEntries /\ calls'[w[1]].at = "spawn" /\ w[2] <= calls'[w[1]].spawned
    <3>1. CASE w = s
      BY <1>1, <1>3, <1>4, <3>1
    <3>2. CASE w # s
      <4>1. w \in running
        BY <1>2, <3>2
      <4>2. w \in PlogToEntries /\ calls[w[1]].at = "spawn" /\ w[2] <= calls[w[1]].spawned /\ w[1] \in DOMAIN Batches
            /\ w[2] \in Nat
        BY <4>1, WorkersOfCalls DEF WorkersInv
      <4>3. calls[w[1]].spawned <= calls'[w[1]].spawned
        BY <1>1, <1>3, <1>4, <4>2 DEF CallsInv
      <4>4. calls'[w[1]].spawned \in Nat /\ calls[w[1]].spawned \in Nat
        BY <1>3, <4>2, <1>1 DEF CallsInv
      <4>5. QED
        BY <1>3, <4>2, <4>3, <4>4
    <3>3. QED
      BY <3>1, <3>2
  <2>4. \A w \in PlogToEntries : calls'[w[1]].spawned < w[2] => entries'[w] = Batches[w[1]][w[2]]
    BY <1>2, <1>7 DEF WorkersInv
  <2>5. QED
    BY <2>1, <2>2, <2>3, <2>4 DEF WorkersInv
<1>9. JobsInv'
  <2>1. job[s] = NoJob
    BY <1>1, <1>4 DEF JobsInv, AtJob
  <2>2. ASSUME NEW w \in Workers, job'[w] # NoJob PROVE AtJob(job[w], agenda'[w], entries[w])
    BY <1>2, <1>5, <2>1, <2>2 DEF JobsInv
  <2>3. QED
    BY <1>2, <2>2 DEF JobsInv
<1>10. ReturnsWhatIsLeft'
  <2> SUFFICES ASSUME NEW d \in DOMAIN Batches, calls'[d].at = "done"
               PROVE  /\ \A i \in DOMAIN Batches[d] : agenda'[<<d, i>>] = <<>>
                      /\ calls'[d].spawned = Len(Batches[d])
                      /\ calls'[d].out = ConvertEntriesToPlogs([i \in DOMAIN Batches[d] |-> entries'[<<d, i>>]])
    BY <1>3 DEF ReturnsWhatIsLeft, CallsInv
  <2>1. d # c /\ calls[d].at = "done" /\ d \in DOMAIN calls
    BY <1>1, <1>3 DEF CallsInv
  <2>2. \A i \in DOMAIN Batches[d] : agenda'[<<d, i>>] = agenda[<<d, i>>]
    BY <1>5, <2>1, WorkersOfCalls
  <2>3. QED
    BY <1>2, <1>3, <2>1, <2>2 DEF ReturnsWhatIsLeft
<1>11. ASSUME NEW w \in PlogToEntries PROVE GoesAsAlone(w)
  <2>1. CASE w = s
    <3>1. entries'[w] = Batches[c][n] /\ agenda'[w] = <<FirstOp>>
      BY <1>1, <1>2, <1>4, <1>5, <2>1 DEF WorkersInv
    <3>2. w[2] = calls[c].spawned + 1 /\ calls'[c].spawned = w[2]
      BY <1>3, <1>4, <2>1 DEF n
    <3>3. QED
      BY <1>4, <2>1, <3>1, <3>2 DEF GoesAsAlone
  <2>2. CASE w # s
    <3>1. w \in Workers
      BY WorkersOfCalls
    <3>2. QED
      BY <1>2, <1>5, <2>2, <3>1 DEF GoesAsAlone
  <2>3. QED
    BY <2>1, <2>2
<1>12. QED
  BY <1>3, <1>8, <1>9, <1>10, <1>11


\* A text is matched: the goroutine stays at its operator.
LEMMA MatchedStep ==
  ASSUME PipeInv, NEW w \in Workers, Matched(w)
  PROVE  PipeInv'
<1> USE DEF PipeInv
<1> DEFINE id == Head(agenda[w])
<1>1. PICK t \in TextsOf(Ops[id], entries[w]) :
        job' = [job EXCEPT ![w] = [at |-> "ask", parser |-> CacheOf(id), text |-> t]]
  BY DEF Matched
<1>2. UNCHANGED <<calls, entries, agenda, running>> /\ agenda[w] # <<>> /\ job[w] = NoJob /\ Captures(w) = {}
  BY DEF Matched
<1>3. MatchOf[id][t] # NoMatch
  <2> DEFINE texts == TextsOf(Ops[id], entries[w])
  <2>1. AtOnce(id, texts) = {}
    BY <1>2 DEF Captures
  <2> HIDE DEF id, texts
  <2>2. t \in texts
    BY DEF texts
  <2>3. Lookup(id, t) = {}
    BY <2>1, <2>2 DEF AtOnce
  <2>4. QED
    BY <2>3 DEF Lookup
<1>4. \A x \in Workers : job'[x] = IF x = w THEN [at |-> "ask", parser |-> id, text |-> t] ELSE job[x]
  BY <1>1 DEF JobsInv, CacheOf
<1>5. AtJob(job'[w], agenda[w], entries[w])
  <2> HIDE DEF id
  <2>1. job'[w] = [at |-> "ask", parser |-> id, text |-> t]
    BY <1>4
  <2>2. QED
    BY <1>1, <1>2, <1>3, <2>1 DEF AtJob, id
<1>6. JobsInv'
  BY <1>1, <1>2, <1>4, <1>5 DEF JobsInv
<1>7. CallsInv' /\ WorkersInv' /\ ReturnsWhatIsLeft'
  <2>1. CallsInv'
    BY <1>2 DEF CallsInv
  <2>2. WorkersInv'
    BY <1>2 DEF WorkersInv
  <2>3. ReturnsWhatIsLeft'
    BY <1>2 DEF ReturnsWhatIsLeft
  <2>4. QED
    BY <2>1, <2>2, <2>3
<1>8. QED
  BY <1>6, <1>7

\* The limiter lets a goroutine add.
LEMMA AskStep ==
  ASSUME PipeInv, NEW w \in Workers, Ask(w)
  PROVE  PipeInv'
<1> USE DEF PipeInv
<1>1. /\ job[w] = [at |-> "ask", parser |-> job[w].parser, text |-> job[w].text]
      /\ job' = [job EXCEPT ![w].at = "add"]
      /\ UNCHANGED <<calls, entries, agenda, running>>
  BY DEF Ask, AskLimiter
<1>2. job'[w] = [at |-> "add", parser |-> job[w].parser, text |-> job[w].text]
      /\ \A x \in Workers : x # w => job'[x] = job[x]
  BY <1>1 DEF JobsInv
<1>3. AtJob(job[w], agenda[w], entries[w])
  <2>1. job[w].at = "ask" /\ NoJob.at = "none"
    BY <1>1 DEF NoJob
  <2>2. job[w] # NoJob
    BY <2>1
  <2>3. QED
    BY <2>2 DEF JobsInv
<1>4. AtJob(job'[w], agenda[w], entries[w])
  BY <1>2, <1>3 DEF AtJob
<1>5. JobsInv'
  BY <1>1, <1>2, <1>4 DEF JobsInv
<1>6. CallsInv' /\ WorkersInv' /\ ReturnsWhatIsLeft'
  BY <1>1 DEF CallsInv, WorkersInv, ReturnsWhatIsLeft
<1>7. QED
  BY <1>5, <1>6

\* An operator processes an entry.
LEMMA StepStep ==
  ASSUME PipeInv, CachesInv, MatchesAreCached, NEW w \in Workers, Step(w)
  PROVE  /\ PipeInv' /\ MatchesAreCached'
         /\ crashed' \/ \A x \in PlogToEntries : GoesAsAlone(x)
<1> USE DEF PipeInv
<1> DEFINE id == Head(agenda[w])
           e  == entries[w]
<1>1. PICK c \in Captures(w) :
        \E r \in {IF crashed' THEN [entry |-> e, next |-> <<>>] ELSE Process(Ops[id], e, c)} :
          /\ entries' = [entries EXCEPT ![w] = r.entry]
          /\ agenda' = [agenda EXCEPT ![w] = r.next \o Tail(@)]
  BY DEF Step
<1> DEFINE r == IF crashed' THEN [entry |-> e, next |-> <<>>] ELSE Process(Ops[id], e, c)
<1>2. /\ agenda[w] # <<>> /\ UNCHANGED <<calls, running>>
      /\ entries' = [entries EXCEPT ![w] = r.entry] /\ agenda' = [agenda EXCEPT ![w] = r.next \o Tail(agenda[w])]
      /\ job' = [job EXCEPT ![w] = NoJob]
  <2>1. agenda[w] # <<>> /\ UNCHANGED <<calls, running>> /\ job' = [job EXCEPT ![w] = NoJob]
    BY DEF Step
  <2>2. entries' = [entries EXCEPT ![w] = r.entry] /\ agenda' = [agenda EXCEPT ![w] = r.next \o Tail(@)]
    BY <1>1
  <2> HIDE DEF r
  <2>3. QED
    BY <2>1, <2>2 DEF WorkersInv
<1>3. w \in running /\ w \in PlogToEntries /\ calls[w[1]].at = "spawn" /\ w[2] <= calls[w[1]].spawned
  BY <1>2 DEF WorkersInv
<1>4. id \in DOMAIN Ops /\ Tail(agenda[w]) \in Seq(DOMAIN Ops)
  BY <1>2 DEF WorkersInv
<1>5. r.next \in Seq(DOMAIN Ops)
  <2> HIDE DEF id, e
  <2>1. CASE crashed'
    <3>1. r.next = <<>>
      BY <2>1
    <3>2. <<>> \in Seq(DOMAIN Ops)
      OBVIOUS
    <3>3. QED
      BY <3>1, <3>2
  <2>2. CASE ~crashed'
    BY <1>4, <2>2, NextAreOperators
  <2>3. QED
    BY <2>1, <2>2
<1> HIDE DEF id, e, r
<1>6. /\ \A x \in Workers : agenda'[x] = IF x = w THEN r.next \o Tail(agenda[w]) ELSE agenda[x]
      /\ \A x \in PlogToEntries : entries'[x] = IF x = w THEN r.entry ELSE entries[x]
      /\ \A x \in Workers : job'[x] = IF x = w THEN NoJob ELSE job[x]
  BY <1>2 DEF WorkersInv, JobsInv
<1>7. WorkersInv'
  <2>1. r.next \o Tail(agenda[w]) \in Seq(DOMAIN Ops)
    BY <1>4, <1>5
  <2>2. \A x \in Workers : agenda'[x] \in Seq(DOMAIN Ops) /\ (agenda'[x] # <<>> => x \in running')
    BY <1>2, <1>3, <1>6, <2>1 DEF WorkersInv
  <2>3. \A x \in PlogToEntries : calls'[x[1]].spawned < x[2] => entries'[x] = Batches[x[1]][x[2]]
    <3>1. ASSUME NEW x \in PlogToEntries, calls'[x[1]].spawned < x[2] PROVE x # w
      <4>1. calls[w[1]].spawned \in Nat /\ w[2] \in Nat
        BY <1>3, WorkersOfCalls, PipelineAssumption DEF CallsInv
      <4>2. QED
        BY <1>2, <1>3, <3>1, <4>1
    <3>2. QED
      BY <1>2, <1>6, <3>1 DEF WorkersInv
  <2>4. agenda' = [x \in Workers |-> agenda'[x]] /\ entries' = [x \in PlogToEntries |-> entries'[x]]
    BY <1>2 DEF WorkersInv
  <2>5. \A x \in running' : x \in PlogToEntries /\ calls'[x[1]].at = "spawn" /\ x[2] <= calls'[x[1]].spawned
    BY <1>2 DEF WorkersInv
  <2>6. QED
    BY <2>2, <2>3, <2>4, <2>5 DEF WorkersInv
<1>8. JobsInv'
  <2>1. ASSUME NEW x \in Workers, job'[x] # NoJob PROVE AtJob(job'[x], agenda'[x], entries'[x])
    <3>1. x # w /\ job'[x] = job[x] /\ agenda'[x] = agenda[x] /\ AtJob(job[x], agenda[x], entries[x])
      BY <1>6, <2>1 DEF JobsInv
    <3>2. x \in PlogToEntries
      BY <3>1 DEF AtJob, WorkersInv
    <3>3. entries'[x] = entries[x]
      BY <1>6, <3>1, <3>2
    <3>4. QED
      BY <3>1, <3>3
  <2>2. QED
    BY <1>2, <2>1 DEF JobsInv
<1>9. CallsInv' /\ ReturnsWhatIsLeft'
  <2>1. CallsInv'
    BY <1>2 DEF CallsInv
  <2>2. ASSUME NEW d \in DOMAIN calls, calls[d].at = "done"
        PROVE  \A i \in DOMAIN Batches[d] : agenda'[<<d, i>>] = agenda[<<d, i>>] /\ entries'[<<d, i>>] = entries[<<d, i>>]
    <3>1. d \in DOMAIN Batches /\ d # w[1]
      BY <1>3, <2>2 DEF CallsInv
    <3>2. \A i \in DOMAIN Batches[d] : <<d, i>> # w
      BY <3>1
    <3>3. QED
      BY <1>6, <3>1, <3>2, WorkersOfCalls
  <2>3. ReturnsWhatIsLeft'
    BY <1>2, <2>2 DEF ReturnsWhatIsLeft
  <2>4. QED
    BY <2>1, <2>3
<1>10. ASSUME ~crashed', NEW x \in PlogToEntries PROVE GoesAsAlone(x)
  <2>1. CASE x # w
    <3>1. x \in Workers
      BY WorkersOfCalls
    <3>2. QED
      BY <1>6, <2>1, <3>1 DEF GoesAsAlone
  <2>2. CASE x = w
    <3>1. c = Captured(id, e)
      BY <1>2, CapturesAreAlone DEF id, e
    <3>2. r = Process(Ops[id], e, Captured(id, e))
      BY <1>10, <3>1 DEF r
    <3>3. entries'[w] = r.entry /\ agenda'[w] = r.next \o Tail(agenda[w])
      BY <1>3, <1>6
    <3>4. AloneStep([entry |-> e, agenda |-> agenda[w]]) = [entry |-> r.entry, agenda |-> r.next \o Tail(agenda[w])]
      BY <3>2 DEF AloneStep, Captured, Found, id
    <3>5. QED
      BY <1>2, <2>2, <3>3, <3>4 DEF GoesAsAlone, e
  <2>3. QED
    BY <2>1, <2>2
<1>11. MatchesAreCached'
  <2>1. CASE UNCHANGED mem
    BY <2>1 DEF MatchesAreCached
  <2>2. CASE job[w].at = "add" /\ mem' = [mem EXCEPT ![job[w].parser] = Add(@, job[w].parser, job[w].text)]
    <3> DEFINE p == job[w].parser
               t == job[w].text
    <3>1. MatchOf[p][t] # NoMatch
      <4>1. job[w].at = "add" /\ NoJob.at = "none"
        BY <2>2 DEF NoJob
      <4>2. AtJob(job[w], agenda[w], entries[w])
        BY <4>1 DEF JobsInv
      <4>3. p = Head(agenda[w])
        <5> HIDE DEF t
        <5>1. QED
          BY <4>2 DEF AtJob
      <4>4. QED
        BY <4>2, <4>3 DEF AtJob
    <3>2. mem' = [mem EXCEPT ![p] = Add(@, p, t)]
      BY <2>2
    <3> HIDE DEF p, t
    <3>3. \A q \in Parsers : mem'[q] = IF q = p THEN Add(mem[q], q, t) ELSE mem[q]
      BY <3>2 DEF CachesInv, CachesShape
    <3>4. ASSUME NEW q \in Parsers, NEW y \in DOMAIN mem'[q].cache PROVE MatchOf[q][y] # NoMatch
      <4>1. CASE q # p
        BY <3>3, <3>4, <4>1 DEF MatchesAreCached
      <4>2. CASE q = p
        <5>1. mem[q] = [cache |-> mem[q].cache, keys |-> mem[q].keys, count |-> mem[q].count]
          BY DEF CachesInv, CachesShape
        <5>2. y \in DOMAIN Add(mem[q], q, t).cache
          BY <3>3, <3>4, <4>2
        <5> DEFINE m == mem[q]
        <5> HIDE DEF m
        <5>3. y = t \/ y \in DOMAIN m.cache
          BY <5>1, <5>2, AddedToCache DEF m
        <5>4. QED
          BY <3>1, <4>2, <5>3 DEF MatchesAreCached, m
      <4>3. QED
        BY <4>1, <4>2
    <3>5. QED
      BY <3>4 DEF MatchesAreCached
  <2>3. QED
    BY <2>1, <2>2 DEF Step
<1>12. QED
  BY <1>7, <1>8, <1>9, <1>10, <1>11


\* A goroutine that has nothing left gives its place back.
LEMMA ReleaseStep ==
  ASSUME PipeInv, NEW w \in Workers, Release(w)
  PROVE  PipeInv'
<1> USE DEF PipeInv
<1>1. /\ agenda[w] = <<>> /\ running' = running \ {w}
      /\ UNCHANGED <<calls, entries, agenda, job>>
  BY DEF Release, MayRelease, cacheVars
<1>2. CallsInv'
  BY <1>1 DEF CallsInv
<1>3. WorkersInv'
  BY <1>1 DEF WorkersInv
<1>4. JobsInv'
  BY <1>1 DEF JobsInv
<1>5. ReturnsWhatIsLeft'
  BY <1>1 DEF ReturnsWhatIsLeft
<1>6. QED
  BY <1>2, <1>3, <1>4, <1>5

\* A call returns when none of its goroutines is left.
LEMMA ReturnStep ==
  ASSUME PipeInv, NEW c \in DOMAIN Batches, Return(c)
  PROVE  PipeInv'
<1> DEFINE es == [i \in DOMAIN Batches[c] |-> entries[<<c, i>>]]
           out == ConvertEntriesToPlogs(es)
<1> USE DEF PipeInv
<1>1. /\ calls[c].at = "spawn" /\ calls[c].spawned = Len(Batches[c])
      /\ \A w \in running : w[1] # c
      /\ UNCHANGED <<entries, agenda, running, job>>
      /\ calls' = [calls EXCEPT ![c].at = "done", ![c].out = out]
  BY DEF Return, MayReturn, cacheVars
<1> HIDE DEF out
<1>2. calls[c] = [at |-> "spawn", spawned |-> Len(Batches[c]), out |-> calls[c].out]
  BY <1>1 DEF CallsInv
<1>3. DOMAIN calls = DOMAIN Batches
  BY DEF CallsInv
<1>4. calls'[c] = [at |-> "done", spawned |-> Len(Batches[c]), out |-> out]
  BY <1>1, <1>2, <1>3
<1>5. \A d \in DOMAIN Batches : d # c => calls'[d] = calls[d]
  BY <1>1, <1>3
<1>6. DOMAIN calls' = DOMAIN Batches /\ calls' = [d \in DOMAIN Batches |-> calls'[d]]
  BY <1>1 DEF CallsInv
<1>7. CallsInv'
  <2>1. ASSUME NEW d \in DOMAIN Batches
        PROVE  /\ calls'[d] = [at |-> calls'[d].at, spawned |-> calls'[d].spawned, out |-> calls'[d].out]
               /\ calls'[d].at \in {"new", "spawn", "done"} /\ calls'[d].spawned \in 0..Len(Batches[d])
               /\ calls'[d].at = "done" => calls'[d].spawned = Len(Batches[d])
    <3>1. CASE d = c
      <4>1. Len(Batches[c]) \in Nat
        BY PipelineAssumption
      <4>2. QED
        BY <1>4, <3>1, <4>1
    <3>2. CASE d # c
      <4>1. calls[d] = [at |-> calls[d].at, spawned |-> calls[d].spawned, out |-> calls[d].out]
        BY DEF CallsInv
      <4>2. QED
        BY <1>5, <3>2, <4>1 DEF CallsInv
    <3>3. QED
      BY <3>1, <3>2
  <2>2. QED
    BY <1>6, <2>1 DEF CallsInv
<1>8. WorkersInv'
  <2>1. \A d \in DOMAIN Batches : calls'[d].spawned = calls[d].spawned
    <3>1. calls'[c].spawned = calls[c].spawned
      BY <1>1, <1>4
    <3>2. QED
      BY <1>5, <3>1
  <2>2. \A w \in running : w[1] \in DOMAIN Batches /\ calls'[w[1]] = calls[w[1]]
    BY <1>1, <1>5, WorkersOfCalls DEF WorkersInv
  <2>3. \A w \in running' : w \in PlogToEntries /\ calls'[w[1]].at = "spawn" /\ w[2] <= calls'[w[1]].spawned
    BY <1>1, <2>2 DEF WorkersInv
  <2>4. \A w \in PlogToEntries : calls'[w[1]].spawned < w[2] => entries'[w] = Batches[w[1]][w[2]]
    BY <1>1, <2>1, WorkersOfCalls DEF WorkersInv
  <2>5. QED
    BY <1>1, <2>3, <2>4 DEF WorkersInv
<1>9. JobsInv'
  BY <1>1 DEF JobsInv
<1>10. ReturnsWhatIsLeft'
  <2>1. ASSUME NEW i \in DOMAIN Batches[c] PROVE agenda[<<c, i>>] = <<>>
    <3>1. <<c, i>> \in Workers /\ <<c, i>> \notin running
      BY <1>1, WorkersOfCalls
    <3>2. QED
      BY <3>1 DEF WorkersInv
  <2>2. ASSUME NEW d \in DOMAIN Batches, d # c, calls'[d].at = "done"
        PROVE  /\ \A i \in DOMAIN Batches[d] : agenda[<<d, i>>] = <<>>
               /\ calls'[d].spawned = Len(Batches[d])
               /\ calls'[d].out = ConvertEntriesToPlogs([i \in DOMAIN Batches[d] |-> entries[<<d, i>>]])
    BY <1>3, <1>5, <2>2 DEF ReturnsWhatIsLeft
  <2>3. ASSUME NEW d \in DOMAIN Batches, calls'[d].at = "done"
        PROVE  /\ \A i \in DOMAIN Batches[d] : agenda[<<d, i>>] = <<>>
               /\ calls'[d].spawned = Len(Batches[d])
               /\ calls'[d].out = ConvertEntriesToPlogs([i \in DOMAIN Batches[d] |-> entries[<<d, i>>]])
    <3>1. CASE d = c
      <4>1. calls'[c].spawned = Len(Batches[c])
        BY <1>4
      <4>2. calls'[c].out = ConvertEntriesToPlogs([i \in DOMAIN Batches[c] |-> entries[<<c, i>>]])
        BY <1>4 DEF out
      <4>3. QED
        BY <2>1, <3>1, <4>1, <4>2, Zenon
    <3>2. QED
      BY <2>2, <2>3, <3>1
  <2>4. QED
    BY <1>1, <1>6, <2>3 DEF ReturnsWhatIsLeft
<1>11. QED
  BY <1>7, <1>8, <1>9, <1>10

\* Every step keeps the invariants, and every entry goes as if it were alone.
LEMMA PipeStep ==
  ASSUME PipeInv, CachesInv, MatchesAreCached, [PipeNext]_pipeVars
  PROVE  /\ PipeInv' /\ MatchesAreCached'
         /\ crashed' \/ \A x \in PlogToEntries : GoesAsAlone(x)
<1>1. ASSUME UNCHANGED <<calls, entries, agenda, running, job>> PROVE PipeInv'
  <2>1. CallsInv' /\ JobsInv'
    BY <1>1 DEF CallsInv, JobsInv, PipeInv
  <2>2. WorkersInv'
    BY <1>1 DEF WorkersInv, PipeInv
  <2>3. ReturnsWhatIsLeft'
    BY <1>1 DEF ReturnsWhatIsLeft, PipeInv
  <2>4. QED
    BY <2>1, <2>2, <2>3 DEF PipeInv
<1>2. ASSUME UNCHANGED <<entries, agenda>> PROVE \A x \in PlogToEntries : GoesAsAlone(x)
  BY <1>2 DEF GoesAsAlone
<1>3. ASSUME UNCHANGED mem PROVE MatchesAreCached'
  BY <1>3 DEF MatchesAreCached
<1>4. CASE UNCHANGED pipeVars
  BY <1>1, <1>2, <1>3, <1>4 DEF pipeVars, cacheVars
<1>5. ASSUME NEW c \in DOMAIN Batches, Receive(c) \/ Spawn(c) \/ Return(c)
      PROVE  PipeInv' /\ MatchesAreCached' /\ \A x \in PlogToEntries : GoesAsAlone(x)
  <2>1. UNCHANGED mem
    BY <1>5 DEF Receive, Spawn, Return, cacheVars
  <2>2. Receive(c) \/ Return(c) => UNCHANGED <<entries, agenda>>
    BY DEF Receive, Return
  <2>3. QED
    BY <1>2, <1>3, <1>5, <2>1, <2>2, ReceiveStep, SpawnStep, ReturnStep
<1>6. ASSUME NEW w \in Workers, Matched(w) \/ Ask(w) \/ Release(w)
      PROVE  PipeInv' /\ MatchesAreCached' /\ \A x \in PlogToEntries : GoesAsAlone(x)
  <2>1. UNCHANGED <<mem, entries, agenda>>
    BY <1>6 DEF Matched, Ask, AskLimiter, Release, cacheVars
  <2>2. QED
    BY <1>2, <1>3, <1>6, <2>1, MatchedStep, AskStep, ReleaseStep
<1>7. ASSUME NEW w \in Workers, Step(w)
      PROVE  PipeInv' /\ MatchesAreCached' /\ (crashed' \/ \A x \in PlogToEntries : GoesAsAlone(x))
  BY <1>7, StepStep
<1>8. CASE Ticks
  <2>1. UNCHANGED <<calls, entries, agenda, running, job>>
    BY <1>8 DEF Ticks, Tick
  <2>2. PICK p \in Parsers : mem' = [mem EXCEPT ![p].count = @ + Reduction(p)]
    BY <1>8 DEF Ticks, Tick
  <2>3. \A q \in Parsers : mem'[q].cache = mem[q].cache
    <3>1. mem = [q \in Parsers |-> mem[q]]
      BY DEF CachesInv, CachesShape
    <3>2. mem[p] = [cache |-> mem[p].cache, keys |-> mem[p].keys, count |-> mem[p].count]
      BY DEF CachesInv, CachesShape
    <3> DEFINE r == Reduction(p)
    <3> HIDE DEF r
    <3>3. mem' = [q \in Parsers |-> IF q = p THEN [mem[p] EXCEPT !.count = @ + r] ELSE mem[q]]
      BY <2>2, <3>1 DEF r
    <3>4. mem'[p] = [cache |-> mem[p].cache, keys |-> mem[p].keys, count |-> mem[p].count + r]
      BY <3>2, <3>3
    <3>5. QED
      BY <3>3, <3>4
  <2>4. MatchesAreCached'
    BY <2>3 DEF MatchesAreCached
  <2>5. QED
    BY <1>1, <1>2, <2>1, <2>4
<1>9. CASE Shutdown
  BY <1>1, <1>2, <1>3, <1>9 DEF Shutdown, Stop
<1>10. QED
  BY <1>4, <1>5, <1>6, <1>7, <1>8, <1>9 DEF PipeNext

\* The invariant of the pipeline, for any operators, batches and number of goroutines.
THEOREM PipelineInvariant == PipeSpec => [](CachesInv /\ PipeInv /\ MatchesAreCached)
<1>1. PipeInit => PipeInv /\ MatchesAreCached
  BY PipeInitInv
<1>2. CachesInv /\ PipeInv /\ MatchesAreCached /\ [PipeNext]_pipeVars => PipeInv' /\ MatchesAreCached'
  BY PipeStep
<1>3. QED
  BY <1>1, <1>2, CachesInvariant, PTL DEF PipeSpec

\* Every entry is taken up once, as its batch has it, and every change of it and of what it has
\* still to go through is the one it would make alone: goroutines do not show to each other,
\* although they share the caches of the regex parsers.
THEOREM EntriesDoNotMeet == PipeSpec => EntriesGoAlone
<1>1. (CachesInv /\ PipeInv /\ MatchesAreCached) /\ [PipeNext]_pipeVars
        => [crashed' \/ \A w \in PlogToEntries : GoesAsAlone(w)]_pipeVars
  BY PipeStep
<1>2. QED
  BY <1>1, PipelineInvariant, PTL DEF PipeSpec, EntriesGoAlone

\* ProcessLogs returns what the operators have left of its entries, after the last of them.
THEOREM ReturnsAreComplete == PipeSpec => []ReturnsWhatIsLeft
BY PipelineInvariant, PTL DEF PipeInv

\* Calls of ProcessLogs that share the limiter never all wait: with a positive number of
\* places, whoever holds one can go on by itself.
THEOREM CallsGoOn == PipeSpec => []NoCallIsStuck
<1>1. PipeInv => NoCallIsStuck
  <2> SUFFICES ASSUME PipeInv, NEW c \in DOMAIN calls, calls[c].at = "spawn" PROVE NoCallIsStuck
    BY DEF NoCallIsStuck
  <2>1. CASE running # {}
    BY <2>1 DEF NoCallIsStuck, MayRelease
  <2>2. CASE running = {}
    <3>1. c \in DOMAIN Batches /\ calls[c].spawned \in 0..Len(Batches[c])
      BY DEF PipeInv, CallsInv
    <3>2. Len(Batches[c]) \in Nat /\ Concurrency \in Nat \ {0}
      BY <3>1, PipelineAssumption
    <3>3. Cardinality(running) < Concurrency
      BY <2>2, <3>2, FS_EmptySet
    <3>4. MaySpawn(c) \/ MayReturn(c)
      BY <2>2, <3>1, <3>2, <3>3 DEF MaySpawn, MayReturn
    <3>5. QED
      BY <3>4 DEF NoCallIsStuck
  <2>3. QED
    BY <2>1, <2>2
<1>2. QED
  BY <1>1, PipelineInvariant, PTL

-----------------------------------------------------------------------------
(* An entry alone                                                          *)

\* What one operator makes of an entry by itself; nothing when there is none left.
Onward(a) == IF a.agenda = <<>> THEN a ELSE AloneStep(a)

\* Trail is the function that its definition describes.
LEMMA TrailGoesOn ==
  ASSUME NEW w
  PROVE  /\ Trail(w)[0] = [entry |-> Batches[w[1]][w[2]], agenda |-> <<FirstOp>>]
         /\ \A n \in 0..(MaxOps - 1) : Trail(w)[n + 1] = Onward(Trail(w)[n])
<1> DEFINE n == MaxOps
           base == [entry |-> Batches[w[1]][w[2]], agenda |-> <<FirstOp>>]
           Iterates(f) == f = [i \in 0..n |-> IF i = 0 THEN base
                                              ELSE LET a == f[i - 1] IN IF a.agenda = <<>> THEN a ELSE AloneStep(a)]
           st == CHOOSE f : Iterates(f)
           Good(k, g) == g = [i \in 0..k |-> IF i = 0 THEN base ELSE Onward(g[i - 1])]
           K == {k \in 0..n : \E g : Good(k, g)}
<1>1. Trail(w) = st
  BY DEF Trail
<1>0. n \in Nat
  BY AgendasEnd
<1> HIDE DEF base, n
<1>2. 0 \in K
  <2> DEFINE z == [i \in 0..0 |-> base]
  <2>1. Good(0, z)
    OBVIOUS
  <2> HIDE DEF Good, z
  <2>2. QED
    BY <1>0, <2>1
<1>3. ASSUME NEW k \in 0..(n - 1), k \in K PROVE k + 1 \in K
  <2>1. PICK g : Good(k, g)
    BY <1>3
  <2> DEFINE x == Onward(g[k])
             z == [i \in 0..(k + 1) |-> IF i = k + 1 THEN x ELSE g[i]]
  <2> HIDE DEF x
  <2>2. \A i \in 0..k : i \in 0..(k + 1) /\ i # k + 1 /\ z[i] = g[i]
    OBVIOUS
  <2>3. ASSUME NEW i \in 0..(k + 1)
        PROVE  z[i] = IF i = 0 THEN base ELSE Onward(z[i - 1])
    <3>1. CASE i = k + 1
      <4>1. z[i] = x /\ z[i - 1] = g[k] /\ i # 0
        BY <2>2, <3>1
      <4>2. QED
        BY <3>1, <4>1 DEF x
    <3>2. CASE i # k + 1
      <4>1. i \in 0..k
        BY <3>2
      <4>2. z[i] = g[i] /\ (i # 0 => z[i - 1] = g[i - 1])
        BY <2>2, <4>1
      <4>3. QED
        BY <2>1, <4>1, <4>2
    <3>3. QED
      BY <3>1, <3>2
  <2>4. z = [i \in 0..(k + 1) |-> z[i]]
    OBVIOUS
  <2> HIDE DEF z
  <2>5. Good(k + 1, z)
    BY <2>3, <2>4
  <2>6. k + 1 \in 0..n
    BY <1>0
  <2> HIDE DEF Good
  <2>7. QED
    BY <2>5, <2>6
<1>4. \E f : Iterates(f)
  <2>1. n \in K
    <3> HIDE DEF K
    <3>1. 0..n \subseteq K
      BY <1>0, <1>2, <1>3, UpTo
    <3>2. QED
      BY <1>0, <3>1
  <2>2. PICK g : Good(n, g)
    BY <2>1
  <2>3. Iterates(g)
    BY <2>2, Zenon DEF Onward
  <2>4. QED
    BY <2>3
<1>5. Iterates(st)
  BY <1>4, Zenon
<1> HIDE DEF st, K
<1>6. \A i \in 0..n : st[i] = IF i = 0 THEN base ELSE Onward(st[i - 1])
  BY <1>5, Zenon DEF Onward
<1>7. ASSUME NEW i \in 0..(n - 1) PROVE st[i + 1] = Onward(st[i])
  <2>1. i + 1 \in 0..n /\ i + 1 # 0 /\ (i + 1) - 1 = i
    BY <1>0
  <2>2. QED
    BY <1>6, <2>1
<1>8. st[0] = base
  BY <1>0, <1>6
<1>9. QED
  BY <1>1, <1>7, <1>8 DEF base, n

\* An entry that has gone through its operators is what it is in the end.
LEMMA TrailEnds ==
  ASSUME NEW w \in PlogToEntries, NEW k \in 0..MaxOps, Trail(w)[k].agenda = <<>>
  PROVE  Alone[w] = Trail(w)[k]
<1> DEFINE S == {i \in 0..(MaxOps - k) : Trail(w)[k + i] = Trail(w)[k]}
<1>1. MaxOps \in Nat /\ MaxOps - k \in Nat
  BY AgendasEnd
<1>2. 0 \in S
  BY <1>1
<1>3. ASSUME NEW i \in 0..((MaxOps - k) - 1), i \in S PROVE i + 1 \in S
  <2>1. k + i \in 0..(MaxOps - 1) /\ i + 1 \in 0..(MaxOps - k) /\ (k + i) + 1 = k + (i + 1)
    BY <1>1
  <2>2. Trail(w)[(k + i) + 1] = Onward(Trail(w)[k + i])
    BY <2>1, TrailGoesOn
  <2>3. Trail(w)[k + i] = Trail(w)[k]
    BY <1>3
  <2>4. Trail(w)[k + (i + 1)] = Trail(w)[k]
    BY <2>1, <2>2, <2>3 DEF Onward
  <2>5. QED
    BY <2>1, <2>4
<1>4. MaxOps - k \in S
  <2> HIDE DEF S
  <2>1. 0..(MaxOps - k) \subseteq S
    BY <1>1, <1>2, <1>3, UpTo
  <2>2. QED
    BY <1>1, <2>1
<1>5. k + (MaxOps - k) = MaxOps
  BY <1>1
<1>6. Trail(w)[MaxOps] = Trail(w)[k]
  BY <1>4, <1>5
<1>7. QED
  BY <1>6 DEF Alone

\* Where an entry and its agenda are on its trail.
OnTrail(w) == \E n \in 0..MaxOps : Trail(w)[n] = [entry |-> entries[w], agenda |-> agenda[w]]

\* Every entry that has been taken up is on its trail.
TrailInv == ~crashed => \A w \in PlogToEntries : w[2] <= calls[w[1]].spawned => OnTrail(w)

\* An entry is taken up as its batch has it.
LEMMA TakenUp ==
  ASSUME PipeInv, [PipeNext]_pipeVars, NEW w \in PlogToEntries,
         ~ (w[2] <= calls[w[1]].spawned), w[2] <= calls'[w[1]].spawned
  PROVE  entries'[w] = Batches[w[1]][w[2]] /\ agenda'[w] = <<FirstOp>>
<1> USE DEF PipeInv
<1>1. w[1] \in DOMAIN Batches /\ w[2] \in Nat \ {0} /\ w \in Workers /\ w = <<w[1], w[2]>>
  BY WorkersOfCalls
<1>2. /\ calls[w[1]] = [at |-> calls[w[1]].at, spawned |-> calls[w[1]].spawned, out |-> calls[w[1]].out]
      /\ calls[w[1]].spawned \in Nat /\ DOMAIN calls = DOMAIN Batches
  BY <1>1 DEF CallsInv
<1>3. CASE UNCHANGED calls
  BY <1>3
<1>4. ASSUME NEW c \in DOMAIN Batches, calls' = [calls EXCEPT ![c].at = "spawn"] PROVE FALSE
  BY <1>1, <1>2, <1>4
<1>5. ASSUME NEW c \in DOMAIN Batches, NEW out, calls' = [calls EXCEPT ![c].at = "done", ![c].out = out] PROVE FALSE
  <2>1. CASE c = w[1]
    <3>1. calls'[w[1]] = [at |-> "done", spawned |-> calls[w[1]].spawned, out |-> out]
      BY <1>1, <1>2, <1>5, <2>1
    <3>2. QED
      BY <3>1
  <2>2. CASE c # w[1]
    BY <1>1, <1>2, <1>5, <2>2
  <2>3. QED
    BY <2>1, <2>2
<1>6. ASSUME NEW c \in DOMAIN Batches, Spawn(c) PROVE entries'[w] = Batches[w[1]][w[2]] /\ agenda'[w] = <<FirstOp>>
  <2>1. /\ calls' = [calls EXCEPT ![c].spawned = @ + 1]
        /\ agenda' = [agenda EXCEPT ![<<c, calls[c].spawned + 1>>] = <<FirstOp>>]
        /\ entries' = entries
    BY <1>6 DEF Spawn
  <2>2. c = w[1]
    BY <1>1, <1>2, <2>1
  <2>3. calls'[w[1]].spawned = calls[w[1]].spawned + 1
    BY <1>1, <1>2, <2>1, <2>2
  <2>4. w[2] = calls[w[1]].spawned + 1
    BY <1>1, <1>2, <2>3
  <2>5. agenda'[w] = <<FirstOp>>
    <3>1. agenda = [x \in Workers |-> agenda[x]]
      BY DEF WorkersInv
    <3>2. w = <<c, calls[c].spawned + 1>>
      BY <1>1, <2>2, <2>4
    <3>3. QED
      BY <1>1, <2>1, <3>1, <3>2
  <2>6. entries[w] = Batches[w[1]][w[2]]
    BY <1>1, <1>2, <2>4 DEF WorkersInv
  <2>7. QED
    BY <2>1, <2>5, <2>6
<1>7. ASSUME NEW c \in DOMAIN Batches, Receive(c) PROVE FALSE
  BY <1>4, <1>7 DEF Receive
<1>8. ASSUME NEW c \in DOMAIN Batches, Return(c) PROVE FALSE
  BY <1>5, <1>8 DEF Return
<1>9. CASE UNCHANGED pipeVars
  BY <1>3, <1>9 DEF pipeVars
<1>10. ASSUME NEW x \in Workers, Matched(x) \/ Ask(x) \/ Step(x) \/ Release(x) PROVE UNCHANGED calls
  BY <1>10 DEF Matched, Ask, Step, Release
<1>11. CASE Ticks \/ Shutdown
  BY <1>3, <1>11 DEF Ticks, Shutdown
<1>12. QED
  BY <1>3, <1>6, <1>7, <1>8, <1>9, <1>10, <1>11 DEF PipeNext

\* When a goroutine has panicked nothing returns.
LEMMA NothingReturns ==
  ASSUME [PipeNext]_pipeVars, crashed'
  PROVE  UNCHANGED calls
<1>1. ASSUME NEW c \in DOMAIN Batches, Receive(c) \/ Spawn(c) \/ Return(c) PROVE FALSE
  BY <1>1 DEF Receive, Spawn, Return
<1>2. ASSUME NEW x \in Workers, Matched(x) \/ Ask(x) \/ Step(x) \/ Release(x) PROVE UNCHANGED calls
  BY <1>2 DEF Matched, Ask, Step, Release
<1>3. CASE Ticks \/ Shutdown
  BY <1>3 DEF Ticks, Shutdown
<1>4. CASE UNCHANGED pipeVars
  BY <1>4 DEF pipeVars
<1>5. QED
  BY <1>1, <1>2, <1>3, <1>4 DEF PipeNext

\* Once a goroutine has panicked no step undoes it.
LEMMA CrashIsFinal ==
  ASSUME [PipeNext]_pipeVars, ~crashed'
  PROVE  ~crashed
<1>1. ASSUME NEW c \in DOMAIN Batches, Receive(c) \/ Spawn(c) \/ Return(c) PROVE ~crashed
  BY <1>1 DEF Receive, Spawn, Return
<1>2. ASSUME NEW x \in Workers, Matched(x) \/ Ask(x) \/ Step(x) \/ Release(x) PROVE ~crashed
  BY <1>2 DEF Matched, Ask, Step, Release
<1>3. CASE Ticks \/ Shutdown
  BY <1>3 DEF Ticks, Shutdown
<1>4. CASE UNCHANGED pipeVars
  BY <1>4 DEF pipeVars
<1>5. QED
  BY <1>1, <1>2, <1>3, <1>4 DEF PipeNext

\* Every step keeps the entries on their trails.
LEMMA TrailStep ==
  ASSUME PipeInv, CachesInv, MatchesAreCached, TrailInv, [PipeNext]_pipeVars
  PROVE  TrailInv'
<1> SUFFICES ASSUME ~crashed', NEW w \in PlogToEntries, w[2] <= calls'[w[1]].spawned
             PROVE  \E n \in 0..MaxOps : Trail(w)[n] = [entry |-> entries'[w], agenda |-> agenda'[w]]
  BY DEF TrailInv, OnTrail
<1>1. MaxOps \in Nat
  BY AgendasEnd
<1>2. ASSUME entries'[w] = Batches[w[1]][w[2]], agenda'[w] = <<FirstOp>>
      PROVE  Trail(w)[0] = [entry |-> entries'[w], agenda |-> agenda'[w]]
  BY <1>2, TrailGoesOn
<1>3. CASE ~ (w[2] <= calls[w[1]].spawned)
  BY <1>1, <1>2, <1>3, TakenUp
<1>4. CASE w[2] <= calls[w[1]].spawned
  <2>1. PICK n \in 0..MaxOps : Trail(w)[n] = [entry |-> entries[w], agenda |-> agenda[w]]
    BY <1>4, CrashIsFinal DEF TrailInv, OnTrail
  <2>2. GoesAsAlone(w)
    BY PipeStep
  <2>3. CASE entries'[w] = entries[w] /\ agenda'[w] = agenda[w]
    BY <2>1, <2>3
  <2>4. CASE entries'[w] = Batches[w[1]][w[2]] /\ agenda'[w] = <<FirstOp>>
    BY <1>1, <1>2, <2>4
  <2>5. CASE /\ agenda[w] # <<>>
             /\ [entry |-> entries'[w], agenda |-> agenda'[w]] = AloneStep([entry |-> entries[w], agenda |-> agenda[w]])
    <3> DEFINE a == [entry |-> entries[w], agenda |-> agenda[w]]
    <3>1. a.agenda # <<>>
      BY <2>5
    <3> HIDE DEF a
    <3>2. n # MaxOps
      <4>1. Trail(w)[MaxOps].agenda = <<>>
        BY AgendasEnd DEF Alone
      <4>2. QED
        BY <2>1, <3>1, <4>1 DEF a
    <3>3. n \in 0..(MaxOps - 1) /\ n + 1 \in 0..MaxOps
      BY <1>1, <3>2
    <3>4. Trail(w)[n + 1] = Onward(a)
      BY <2>1, <3>3, TrailGoesOn DEF a
    <3>5. Trail(w)[n + 1] = [entry |-> entries'[w], agenda |-> agenda'[w]]
      BY <2>5, <3>1, <3>4 DEF Onward, a
    <3>6. QED
      BY <3>3, <3>5
  <2>6. QED
    BY <2>2, <2>3, <2>4, <2>5 DEF GoesAsAlone
<1>5. QED
  BY <1>3, <1>4

-----------------------------------------------------------------------------
(* Entries and records                                                     *)

\* A sequence of whatever elements.
IsList(s) == s \in Seq({s[i] : i \in DOMAIN s})

\* The shape of the records of a call: lists of lists of lists.
AreScopes(scopes) == IsList(scopes) /\ \A s \in DOMAIN scopes : IsList(scopes[s].records)
AreLogs(logs) == IsList(logs) /\ \A r \in DOMAIN logs : AreScopes(logs[r].scopes)

\* The domain of a list.
LEMMA ListDomain ==
  ASSUME NEW s, IsList(s)
  PROVE  Len(s) \in Nat /\ DOMAIN s = 1..Len(s)
BY DEF IsList

\* A list can be appended to.
LEMMA ListAppended ==
  ASSUME NEW s, IsList(s), NEW x
  PROVE  /\ IsList(Append(s, x)) /\ Len(Append(s, x)) = Len(s) + 1
         /\ DOMAIN Append(s, x) = 1..(Len(s) + 1) /\ Append(s, x)[Len(s) + 1] = x
         /\ \A i \in 1..Len(s) : Append(s, x)[i] = s[i]
<1> DEFINE K == {s[i] : i \in DOMAIN s} \cup {x}
           z == Append(s, x)
<1>1. s \in Seq(K) /\ x \in K
  BY DEF IsList
<1> HIDE DEF K
<1>2. /\ z \in Seq(K) /\ Len(z) = Len(s) + 1 /\ DOMAIN z = 1..(Len(s) + 1) /\ z[Len(s) + 1] = x
      /\ \A i \in 1..Len(s) : z[i] = s[i]
  BY <1>1
<1> HIDE DEF z
<1>3. IsList(z)
  BY <1>2, SequenceOfElements DEF IsList
<1>4. QED
  BY <1>2, <1>3 DEF z

\* A function over the indexes of a list is a list.
LEMMA ListMapped ==
  ASSUME NEW n \in Nat, NEW s, s = [i \in 1..n |-> s[i]]
  PROVE  IsList(s) /\ Len(s) = n
<1> DEFINE K == {s[i] : i \in 1..n}
<1>1. s \in [1..n -> K] /\ DOMAIN s = 1..n
  OBVIOUS
<1>2. s \in Seq(K)
  BY <1>1
<1>3. QED
  BY <1>1, <1>2 DEF IsList

\* The sequence of one element.
LEMMA ListOfOne ==
  ASSUME NEW x
  PROVE  /\ IsList(<<x>>) /\ Len(<<x>>) = 1 /\ DOMAIN <<x>> = {1} /\ <<x>>[1] = x
         /\ IsList(<<>>) /\ Len(<<>>) = 0 /\ DOMAIN <<>> = {} /\ Append(<<>>, x) = <<x>>
BY DEF IsList

-----------------------------------------------------------------------------
\* es2 goes on where es ends.
Extends(es2, es, n) ==
  /\ DOMAIN es = 1..n /\ DOMAIN es2 = 1..(n + 1)
  /\ \A i \in 1..n : es2[i] = es[i]

\* A number that is greater than those of a set is one more.
LEMMA OneMore ==
  ASSUME NEW n \in Nat, NEW M, M \subseteq 1..n
  PROVE  /\ IsFiniteSet(M) /\ Cardinality(M) \in 0..n
         /\ Cardinality(M \cup {n + 1}) = Cardinality(M) + 1
         /\ \A i \in M : Cardinality({j \in M : j <= i}) \in 1..Cardinality(M)
<1>1. IsFiniteSet(1..n) /\ Cardinality(1..n) = n
  BY FS_Interval
<1>2. IsFiniteSet(M) /\ Cardinality(M) \in Nat /\ Cardinality(M) <= n
  BY <1>1, FS_Subset, FS_CardinalityType
<1>3. n + 1 \notin M
  OBVIOUS
<1>4. Cardinality(M \cup {n + 1}) = Cardinality(M) + 1
  BY <1>2, <1>3, FS_AddElement
<1>5. ASSUME NEW i \in M PROVE Cardinality({j \in M : j <= i}) \in 1..Cardinality(M)
  <2> DEFINE L == {j \in M : j <= i}
  <2>1. L \subseteq M /\ i \in L
    OBVIOUS
  <2> HIDE DEF L
  <2>2. IsFiniteSet(L) /\ Cardinality(L) \in Nat /\ Cardinality(L) <= Cardinality(M)
    BY <1>2, <2>1, FS_Subset, FS_CardinalityType
  <2>3. Cardinality(L) # 0
    BY <2>1, <2>2, FS_EmptySet
  <2>4. QED
    BY <1>2, <2>2, <2>3 DEF L
<1>6. QED
  BY <1>2, <1>4, <1>5

\* The record of an entry goes behind those that were there.
LEMMA InOrderAppended ==
  ASSUME NEW n \in Nat, NEW M, M \subseteq 1..n, NEW es, NEW es2, Extends(es2, es, n),
         NEW records, IsList(records), InOrder(records, es, M) \/ (M = {} /\ records = <<>>)
  PROVE  LET z == Append(records, ConvertInto(es2[n + 1]))
         IN IsList(z) /\ InOrder(z, es2, M \cup {n + 1})
<1> DEFINE x == ConvertInto(es2[n + 1])
           z == Append(records, x)
           N == M \cup {n + 1}
<1>1. /\ Cardinality(N) = Cardinality(M) + 1 /\ Cardinality(M) \in 0..n
      /\ \A i \in M : Cardinality({j \in M : j <= i}) \in 1..Cardinality(M)
  BY OneMore
<1>2. Len(records) = Cardinality(M) /\ Len(records) \in Nat
  <2>1. CASE M = {} /\ records = <<>>
    BY <2>1, FS_EmptySet
  <2>2. CASE InOrder(records, es, M)
    BY <1>1, <2>2 DEF InOrder
  <2>3. QED
    BY <2>1, <2>2
<1>3. /\ IsList(z) /\ Len(z) = Cardinality(N) /\ z[Cardinality(N)] = x
      /\ \A k \in 1..Cardinality(M) : z[k] = records[k]
  BY <1>1, <1>2, ListAppended
<1> HIDE DEF z, x
<1>4. ASSUME NEW i \in N PROVE z[Cardinality({j \in N : j <= i})] = ConvertInto(es2[i])
  <2>1. CASE i = n + 1
    <3>1. \A j \in M : j \in 1..n /\ j <= n + 1
      OBVIOUS
    <3>2. \A j \in N : j <= i
      BY <2>1, <3>1
    <3>3. {j \in N : j <= i} = N
      BY <3>2
    <3>4. QED
      BY <1>3, <2>1, <3>3 DEF x
  <2>2. CASE i # n + 1
    <3>1. i \in M /\ i \in 1..n
      BY <2>2
    <3>2. {j \in N : j <= i} = {j \in M : j <= i}
      BY <3>1
    <3>3. InOrder(records, es, M)
      BY <3>1
    <3>4. records[Cardinality({j \in M : j <= i})] = ConvertInto(es[i])
      BY <3>1, <3>3 DEF InOrder
    <3>5. es2[i] = es[i]
      BY <3>1 DEF Extends
    <3>6. QED
      BY <1>1, <1>3, <3>1, <3>2, <3>4, <3>5
  <2>3. QED
    BY <2>1, <2>2
<1>5. InOrder(z, es2, N)
  BY <1>3, <1>4 DEF InOrder
<1>6. QED
  BY <1>3, <1>5 DEF z, x

\* Records of entries that are the same stay in order.
LEMMA InOrderKept ==
  ASSUME NEW M, NEW es, NEW es2, NEW records, InOrder(records, es, M), \A i \in M : es2[i] = es[i]
  PROVE  InOrder(records, es2, M)
BY DEF InOrder

\* The entries of a resource and a scope.
Members(es, res, scope) == {i \in DOMAIN es : es[i].res = res /\ es[i].scope = scope}

\* One more entry is one more of its own resource and scope.
LEMMA MembersExtended ==
  ASSUME NEW n \in Nat, NEW es, NEW es2, Extends(es2, es, n), NEW res, NEW scope
  PROVE  /\ Members(es, res, scope) \subseteq 1..n
         /\ \A i \in Members(es, res, scope) : es2[i] = es[i]
         /\ es2[n + 1].res = res /\ es2[n + 1].scope = scope
              => Members(es2, res, scope) = Members(es, res, scope) \cup {n + 1}
         /\ ~ (es2[n + 1].res = res /\ es2[n + 1].scope = scope)
              => Members(es2, res, scope) = Members(es, res, scope)
<1>1. DOMAIN es = 1..n /\ DOMAIN es2 = 1..(n + 1) /\ \A i \in 1..n : es2[i] = es[i]
  BY DEF Extends
<1>2. \A i \in 1..(n + 1) : i \in 1..n \/ i = n + 1
  OBVIOUS
<1>3. n + 1 \notin 1..n /\ n + 1 \in 1..(n + 1) /\ 1..n \subseteq 1..(n + 1)
  OBVIOUS
<1>4. QED
  BY <1>1, <1>2, <1>3 DEF Members

\* What Grouped says, in terms of Members.
LEMMA GroupedByMembers ==
  ASSUME NEW scopes, NEW es, NEW res
  PROVE  Grouped(scopes, es, res) <=>
           /\ \A s, t \in DOMAIN scopes : scopes[s].name = scopes[t].name => s = t
           /\ \A s \in DOMAIN scopes : InOrder(scopes[s].records, es, Members(es, res, scopes[s].name))
           /\ \A i \in DOMAIN es : es[i].res = res => \E s \in DOMAIN scopes : scopes[s].name = es[i].scope
BY DEF Grouped, Members

\* An entry of another resource does not show.
LEMMA GroupedKept ==
  ASSUME NEW n \in Nat, NEW es, NEW es2, Extends(es2, es, n), NEW scopes, NEW res,
         es2[n + 1].res # res, Grouped(scopes, es, res)
  PROVE  Grouped(scopes, es2, res)
<1>1. ASSUME NEW s \in DOMAIN scopes
      PROVE  InOrder(scopes[s].records, es2, Members(es2, res, scopes[s].name))
  <2> DEFINE M == Members(es, res, scopes[s].name)
  <2>1. InOrder(scopes[s].records, es, M)
    BY GroupedByMembers
  <2>2. Members(es2, res, scopes[s].name) = M /\ \A i \in M : es2[i] = es[i]
    BY MembersExtended
  <2> HIDE DEF M
  <2>3. QED
    BY <2>1, <2>2, InOrderKept
<1>2. ASSUME NEW i \in DOMAIN es2, es2[i].res = res
      PROVE  \E s \in DOMAIN scopes : scopes[s].name = es2[i].scope
  <2>1. i \in DOMAIN es /\ es2[i] = es[i]
    BY <1>2 DEF Extends
  <2>2. QED
    BY <1>2, <2>1 DEF Grouped
<1>3. QED
  BY <1>1, <1>2, GroupedByMembers

\* The record of an entry goes to the scope of its name.
LEMMA InScopeGroups ==
  ASSUME NEW n \in Nat, NEW es, NEW es2, Extends(es2, es, n), NEW scopes, AreScopes(scopes),
         Grouped(scopes, es, es2[n + 1].res)
  PROVE  LET z == InScope(scopes, es2[n + 1])
         IN AreScopes(z) /\ z # <<>> /\ Grouped(z, es2, es2[n + 1].res)
<1> DEFINE e   == es2[n + 1]
           res == e.res
           x   == ConvertInto(e)
           z   == InScope(scopes, e)
           M(name) == Members(es, res, name)
<1>1. IsList(scopes) /\ Len(scopes) \in Nat /\ DOMAIN scopes = 1..Len(scopes)
  BY ListDomain DEF AreScopes
<1>2. \A i \in DOMAIN es : i \in DOMAIN es2 /\ es2[i] = es[i]
  BY DEF Extends
<1>3. \A i \in DOMAIN es2 : i \in DOMAIN es \/ i = n + 1
  BY DEF Extends
<1>4. CASE \A s \in DOMAIN scopes : scopes[s].name # e.scope
  <2> DEFINE new == [name |-> e.scope, records |-> <<x>>]
  <2>1. z = Append(scopes, new)
    BY <1>4 DEF InScope
  <2>2. new.name = e.scope /\ new.records = <<x>>
    OBVIOUS
  <2> HIDE DEF new, z
  <2>3. /\ IsList(z) /\ DOMAIN z = 1..(Len(scopes) + 1) /\ z[Len(scopes) + 1] = new
        /\ \A s \in 1..Len(scopes) : z[s] = scopes[s]
    BY <1>1, <2>1, ListAppended
  <2>4. M(e.scope) = {}
    BY <1>4 DEF Grouped, Members
  <2>5. ASSUME NEW s \in DOMAIN z
        PROVE  IsList(z[s].records) /\ InOrder(z[s].records, es2, Members(es2, res, z[s].name))
    <3>1. CASE s = Len(scopes) + 1
      <4>1. z[s].records = <<x>> /\ z[s].name = e.scope
        BY <2>2, <2>3, <3>1
      <4>2. Members(es2, res, e.scope) = M(e.scope) \cup {n + 1} /\ M(e.scope) \subseteq 1..n
        BY MembersExtended
      <4>3. IsList(<<>>) /\ Append(<<>>, x) = <<x>>
        BY ListOfOne
      <4>4. IsList(Append(<<>>, x)) /\ InOrder(Append(<<>>, x), es2, M(e.scope) \cup {n + 1})
        <5> DEFINE N == M(e.scope)
        <5>1. N \subseteq 1..n /\ N = {}
          BY <2>4, <4>2
        <5> HIDE DEF N
        <5>2. QED
          BY <4>3, <5>1, InOrderAppended DEF N
      <4>5. QED
        BY <4>1, <4>2, <4>3, <4>4
    <3>2. CASE s # Len(scopes) + 1
      <4>1. s \in DOMAIN scopes /\ z[s] = scopes[s]
        BY <1>1, <2>3, <3>2
      <4>2. IsList(scopes[s].records) /\ InOrder(scopes[s].records, es, M(scopes[s].name))
        BY <4>1, GroupedByMembers DEF AreScopes
      <4>3. Members(es2, res, scopes[s].name) = M(scopes[s].name)
            /\ \A i \in M(scopes[s].name) : es2[i] = es[i]
        BY <1>4, <4>1, MembersExtended
      <4>4. InOrder(scopes[s].records, es2, Members(es2, res, scopes[s].name))
        BY <4>2, <4>3, InOrderKept
      <4>5. QED
        BY <4>1, <4>2, <4>4
    <3>3. QED
      BY <3>1, <3>2
  <2>6. ASSUME NEW s \in DOMAIN z, NEW t \in DOMAIN z, z[s].name = z[t].name PROVE s = t
    <3>1. \A u \in DOMAIN z : u = Len(scopes) + 1 \/ (u \in DOMAIN scopes /\ z[u] = scopes[u])
      BY <1>1, <2>3
    <3>2. z[Len(scopes) + 1].name = e.scope
      BY <2>2, <2>3
    <3>3. \A s1, t1 \in DOMAIN scopes : scopes[s1].name = scopes[t1].name => s1 = t1
      BY DEF Grouped
    <3>4. QED
      BY <1>4, <2>6, <3>1, <3>2, <3>3
  <2>7. ASSUME NEW i \in DOMAIN es2, es2[i].res = res
        PROVE  \E s \in DOMAIN z : z[s].name = es2[i].scope
    <3>1. CASE i = n + 1
      <4>1. Len(scopes) + 1 \in DOMAIN z /\ z[Len(scopes) + 1].name = e.scope
        BY <1>1, <2>2, <2>3
      <4>2. QED
        BY <3>1, <4>1
    <3>2. CASE i # n + 1
      <4>1. i \in DOMAIN es /\ es2[i] = es[i]
        BY <1>2, <1>3, <3>2
      <4>2. PICK s \in DOMAIN scopes : scopes[s].name = es[i].scope
        BY <2>7, <4>1 DEF Grouped
      <4>3. s \in DOMAIN z /\ z[s] = scopes[s]
        BY <1>1, <2>3
      <4>4. QED
        BY <4>1, <4>2, <4>3
    <3>3. QED
      BY <3>1, <3>2
  <2>8. z # <<>>
    BY <1>1, <2>3
  <2>9. AreScopes(z) /\ Grouped(z, es2, res)
    <3> HIDE DEF res
    <3>1. QED
      BY <2>3, <2>5, <2>6, <2>7, GroupedByMembers DEF AreScopes
  <2>10. QED
    BY <2>8, <2>9 DEF z
<1>5. ASSUME NEW q \in DOMAIN scopes, scopes[q].name = e.scope
      PROVE  AreScopes(z) /\ z # <<>> /\ Grouped(z, es2, res)
  <2> DEFINE Grown(s) == [name |-> e.scope, records |-> Append(scopes[s].records, x)]
  <2>1. z = [s \in DOMAIN scopes |-> IF scopes[s].name # e.scope THEN scopes[s] ELSE Grown(s)]
    BY <1>5 DEF InScope
  <2> HIDE DEF z
  <2>2. DOMAIN z = DOMAIN scopes /\ \A s \in DOMAIN scopes : z[s].name = scopes[s].name
    BY <2>1
  <2>3. IsList(z) /\ z # <<>>
    <3>1. z = [s \in 1..Len(scopes) |-> z[s]]
      BY <1>1, <2>1
    <3>2. Len(scopes) \in Nat /\ DOMAIN z # {}
      BY <1>1, <1>5, <2>2
    <3>3. DOMAIN <<>> = {}
      OBVIOUS
    <3>4. QED
      BY <3>1, <3>2, <3>3, ListMapped
  <2>4. ASSUME NEW s \in DOMAIN z
        PROVE  IsList(z[s].records) /\ InOrder(z[s].records, es2, Members(es2, res, z[s].name))
    <3> DEFINE N == M(scopes[s].name)
    <3>1. /\ s \in DOMAIN scopes /\ z[s].name = scopes[s].name
          /\ IsList(scopes[s].records) /\ InOrder(scopes[s].records, es, N)
      BY <2>2, GroupedByMembers DEF AreScopes
    <3>2. CASE scopes[s].name = e.scope
      <4>1. z[s].records = Append(scopes[s].records, x)
        BY <2>1, <3>1, <3>2
      <4>2. Members(es2, res, z[s].name) = N \cup {n + 1} /\ N \subseteq 1..n
        BY <3>1, <3>2, MembersExtended
      <4> HIDE DEF N
      <4>3. /\ IsList(Append(scopes[s].records, x))
            /\ InOrder(Append(scopes[s].records, x), es2, N \cup {n + 1})
        BY <3>1, <4>2, InOrderAppended
      <4>4. QED
        BY <4>1, <4>2, <4>3
    <3>3. CASE scopes[s].name # e.scope
      <4>1. z[s] = scopes[s]
        BY <2>1, <3>1, <3>3
      <4>2. Members(es2, res, z[s].name) = N /\ \A i \in N : es2[i] = es[i]
        BY <3>1, <3>3, MembersExtended
      <4> HIDE DEF N
      <4>3. InOrder(scopes[s].records, es2, N)
        BY <3>1, <4>2, InOrderKept
      <4>4. QED
        BY <3>1, <4>1, <4>2, <4>3
    <3>4. QED
      BY <3>2, <3>3
  <2>5. \A s, t \in DOMAIN z : z[s].name = z[t].name => s = t
    BY <2>2 DEF Grouped
  <2>6. ASSUME NEW i \in DOMAIN es2, es2[i].res = res
        PROVE  \E s \in DOMAIN z : z[s].name = es2[i].scope
    <3>1. CASE i = n + 1
      BY <1>5, <2>2, <3>1
    <3>2. CASE i # n + 1
      <4>1. i \in DOMAIN es /\ es2[i] = es[i]
        BY <1>2, <1>3, <3>2
      <4>2. PICK s \in DOMAIN scopes : scopes[s].name = es[i].scope
        BY <2>6, <4>1 DEF Grouped
      <4>3. QED
        BY <2>2, <4>1, <4>2
    <3>3. QED
      BY <3>1, <3>2
  <2>7. QED
    <3> HIDE DEF res
    <3>1. QED
      BY <2>3, <2>4, <2>5, <2>6, GroupedByMembers DEF AreScopes
<1>6. QED
  BY <1>4, <1>5

\* The record of an entry goes to the resource of its name.
LEMMA PlaceInRegroups ==
  ASSUME NEW n \in Nat, NEW es, NEW es2, Extends(es2, es, n), NEW logs, AreLogs(logs), Regrouped(logs, es)
  PROVE  AreLogs(PlaceIn(logs, es2[n + 1])) /\ Regrouped(PlaceIn(logs, es2[n + 1]), es2)
<1> DEFINE e == es2[n + 1]
           z == PlaceIn(logs, e)
           P(r) == /\ AreScopes(z[r].scopes) /\ z[r].scopes # <<>>
                   /\ Grouped(z[r].scopes, es2, z[r].resource)
<1>1. IsList(logs) /\ Len(logs) \in Nat /\ DOMAIN logs = 1..Len(logs)
  BY ListDomain DEF AreLogs
<1>2. \A i \in DOMAIN es2 : i = n + 1 \/ (i \in DOMAIN es /\ es2[i] = es[i])
  BY DEF Extends
<1>3. ASSUME NEW r \in DOMAIN logs, logs[r].resource # e.res
      PROVE  /\ AreScopes(logs[r].scopes) /\ logs[r].scopes # <<>>
             /\ Grouped(logs[r].scopes, es2, logs[r].resource)
  BY <1>3, GroupedKept DEF AreLogs, Regrouped
<1>4. CASE \A r \in DOMAIN logs : logs[r].resource # e.res
  <2> DEFINE scopes == InScope(<<>>, e)
             new == [resource |-> e.res, scopes |-> scopes]
  <2>1. z = Append(logs, new)
    BY <1>4 DEF PlaceIn
  <2>2. new.resource = e.res /\ new.scopes = scopes
    OBVIOUS
  <2>3. AreScopes(scopes) /\ scopes # <<>> /\ Grouped(scopes, es2, e.res)
    <3>1. AreScopes(<<>>)
      BY ListOfOne DEF AreScopes
    <3>2. \A i \in DOMAIN es : es[i].res # e.res
      BY <1>4 DEF Regrouped
    <3>3. Grouped(<<>>, es, e.res)
      BY <3>2 DEF Grouped
    <3>4. QED
      BY <3>1, <3>3, InScopeGroups
  <2> HIDE DEF scopes, new, z
  <2>4. /\ IsList(z) /\ DOMAIN z = 1..(Len(logs) + 1) /\ z[Len(logs) + 1] = new
        /\ \A r \in 1..Len(logs) : z[r] = logs[r]
    BY <1>1, <2>1, ListAppended
  <2>5. \A r \in DOMAIN z : r = Len(logs) + 1 \/ (r \in DOMAIN logs /\ z[r] = logs[r])
    BY <1>1, <2>4
  <2>6. ASSUME NEW r \in DOMAIN z PROVE P(r)
    <3>1. CASE r = Len(logs) + 1
      BY <2>2, <2>3, <2>4, <3>1
    <3>2. CASE r \in DOMAIN logs /\ z[r] = logs[r]
      BY <1>3, <1>4, <3>2
    <3>3. QED
      BY <2>5, <3>1, <3>2
  <2>7. ASSUME NEW r \in DOMAIN z, NEW q \in DOMAIN z, z[r].resource = z[q].resource PROVE r = q
    <3>1. z[Len(logs) + 1].resource = e.res
      BY <2>2, <2>4
    <3>2. \A r1, q1 \in DOMAIN logs : logs[r1].resource = logs[q1].resource => r1 = q1
      BY DEF Regrouped
    <3>3. QED
      BY <1>4, <2>5, <2>7, <3>1, <3>2
  <2>8. ASSUME NEW i \in DOMAIN es2 PROVE \E r \in DOMAIN z : z[r].resource = es2[i].res
    <3>1. CASE i = n + 1
      <4>1. Len(logs) + 1 \in DOMAIN z /\ z[Len(logs) + 1].resource = e.res
        BY <1>1, <2>2, <2>4
      <4>2. QED
        BY <3>1, <4>1
    <3>2. CASE i \in DOMAIN es /\ es2[i] = es[i]
      <4>1. PICK r \in DOMAIN logs : logs[r].resource = es[i].res
        BY <3>2 DEF Regrouped
      <4>2. r \in DOMAIN z /\ z[r] = logs[r]
        BY <1>1, <2>4
      <4>3. QED
        BY <3>2, <4>1, <4>2
    <3>3. QED
      BY <1>2, <3>1, <3>2
  <2>9. AreLogs(z) /\ Regrouped(z, es2)
    BY <2>4, <2>6, <2>7, <2>8 DEF AreLogs, Regrouped
  <2>10. QED
    BY <2>9 DEF z
<1>5. ASSUME NEW p \in DOMAIN logs, logs[p].resource = e.res
      PROVE  AreLogs(z) /\ Regrouped(z, es2)
  <2> DEFINE Grown(r) == [resource |-> e.res, scopes |-> InScope(logs[r].scopes, e)]
  <2>1. z = [r \in DOMAIN logs |-> IF logs[r].resource # e.res THEN logs[r] ELSE Grown(r)]
    BY <1>5 DEF PlaceIn
  <2> HIDE DEF z
  <2>2. DOMAIN z = DOMAIN logs /\ \A r \in DOMAIN logs : z[r].resource = logs[r].resource
    BY <2>1
  <2>3. IsList(z)
    <3>1. z = [r \in 1..Len(logs) |-> z[r]]
      BY <1>1, <2>1
    <3>2. QED
      BY <1>1, <3>1, ListMapped
  <2>4. ASSUME NEW r \in DOMAIN z PROVE P(r)
    <3>1. r \in DOMAIN logs
      BY <2>2
    <3>2. CASE logs[r].resource # e.res
      <4>1. z[r] = logs[r]
        BY <2>1, <3>1, <3>2
      <4>2. QED
        BY <1>3, <3>1, <3>2, <4>1
    <3>3. CASE logs[r].resource = e.res
      <4> DEFINE scopes == InScope(logs[r].scopes, e)
      <4>1. z[r].scopes = scopes /\ z[r].resource = e.res
        BY <2>1, <3>1, <3>3
      <4>2. AreScopes(logs[r].scopes) /\ Grouped(logs[r].scopes, es, e.res)
        BY <3>1, <3>3 DEF AreLogs, Regrouped
      <4>3. AreScopes(scopes) /\ scopes # <<>> /\ Grouped(scopes, es2, e.res)
        BY <4>2, InScopeGroups
      <4> HIDE DEF scopes
      <4>4. QED
        BY <4>1, <4>3
    <3>4. QED
      BY <3>2, <3>3
  <2>5. \A r, q \in DOMAIN z : z[r].resource = z[q].resource => r = q
    BY <2>2 DEF Regrouped
  <2>6. ASSUME NEW i \in DOMAIN es2 PROVE \E r \in DOMAIN z : z[r].resource = es2[i].res
    <3>1. CASE i = n + 1
      BY <1>5, <2>2, <3>1
    <3>2. CASE i \in DOMAIN es /\ es2[i] = es[i]
      <4>1. PICK r \in DOMAIN logs : logs[r].resource = es[i].res
        BY <3>2 DEF Regrouped
      <4>2. QED
        BY <2>2, <3>2, <4>1
    <3>3. QED
      BY <1>2, <3>1, <3>2
  <2>7. QED
    BY <2>3, <2>4, <2>5, <2>6 DEF AreLogs, Regrouped
<1>6. QED
  BY <1>4, <1>5

\* What a batch becomes is all of its entries, regrouped.
LEMMA ConvertRegroups ==
  ASSUME NEW n \in Nat, NEW es, es = [i \in 1..n |-> es[i]]
  PROVE  Regrouped(ConvertEntriesToPlogs(es), es)
<1> DEFINE Iterates(f) == f = [i \in 0..n |-> IF i = 0 THEN <<>> ELSE PlaceIn(f[i - 1], es[i])]
           st == CHOOSE f : Iterates(f)
           Good(k, g) == g = [i \in 0..k |-> IF i = 0 THEN <<>> ELSE PlaceIn(g[i - 1], es[i])]
           K == {k \in 0..n : \E g : Good(k, g)}
<1>1. ConvertEntriesToPlogs(es) = st[n]
  <2>1. Len(es) = n
    BY ListMapped
  <2>2. QED
    BY <2>1 DEF ConvertEntriesToPlogs
<1>2. 0 \in K
  <2> DEFINE z == [i \in 0..0 |-> <<>>]
  <2>1. Good(0, z)
    OBVIOUS
  <2> HIDE DEF Good, z
  <2>2. QED
    BY <2>1
<1>3. ASSUME NEW k \in 0..(n - 1), k \in K PROVE k + 1 \in K
  <2>1. PICK g : Good(k, g)
    BY <1>3
  <2> DEFINE x == PlaceIn(g[k], es[k + 1])
             z == [i \in 0..(k + 1) |-> IF i = k + 1 THEN x ELSE g[i]]
  <2> HIDE DEF x
  <2>2. \A i \in 0..k : i \in 0..(k + 1) /\ i # k + 1 /\ z[i] = g[i]
    OBVIOUS
  <2>3. ASSUME NEW i \in 0..(k + 1)
        PROVE  z[i] = IF i = 0 THEN <<>> ELSE PlaceIn(z[i - 1], es[i])
    <3>1. CASE i = k + 1
      <4>1. z[i] = x /\ z[i - 1] = g[k] /\ i # 0
        BY <2>2, <3>1
      <4>2. QED
        BY <3>1, <4>1 DEF x
    <3>2. CASE i # k + 1
      <4>1. i \in 0..k
        BY <3>2
      <4>2. z[i] = g[i] /\ (i # 0 => z[i - 1] = g[i - 1])
        BY <2>2, <4>1
      <4>3. QED
        BY <2>1, <4>1, <4>2
    <3>3. QED
      BY <3>1, <3>2
  <2>4. z = [i \in 0..(k + 1) |-> z[i]]
    OBVIOUS
  <2> HIDE DEF z
  <2>5. Good(k + 1, z)
    BY <2>3, <2>4
  <2>6. k + 1 \in 0..n
    OBVIOUS
  <2> HIDE DEF Good
  <2>7. QED
    BY <2>5, <2>6
<1>4. \E f : Iterates(f)
  <2>1. n \in K
    <3> HIDE DEF K
    <3>1. 0..n \subseteq K
      BY <1>2, <1>3, UpTo
    <3>2. QED
      BY <3>1
  <2>2. PICK g : Good(n, g)
    BY <2>1
  <2>3. QED
    BY <2>2
<1>5. Iterates(st)
  BY <1>4, Zenon
<1> HIDE DEF st, K
<1>6. \A i \in 0..n : st[i] = IF i = 0 THEN <<>> ELSE PlaceIn(st[i - 1], es[i])
  BY <1>5, Zenon
<1> HIDE DEF Iterates
<1> DEFINE first(k) == [i \in 1..k |-> es[i]]
           S == {k \in 0..n : AreLogs(st[k]) /\ Regrouped(st[k], first(k))}
<1>7. 0 \in S
  <2>1. st[0] = <<>>
    BY <1>6
  <2>2. DOMAIN first(0) = {} /\ DOMAIN <<>> = {} /\ IsList(<<>>)
    <3>1. DOMAIN first(0) = {}
      OBVIOUS
    <3>2. DOMAIN <<>> = {} /\ IsList(<<>>)
      BY ListOfOne
    <3> HIDE DEF first
    <3>3. QED
      BY <3>1, <3>2
  <2>3. AreLogs(<<>>) /\ Regrouped(<<>>, first(0))
    <3> HIDE DEF first
    <3>1. QED
      BY <2>2 DEF AreLogs, Regrouped
  <2> HIDE DEF first
  <2>4. QED
    BY <2>1, <2>3
<1>8. ASSUME NEW k \in 0..(n - 1), k \in S PROVE k + 1 \in S
  <2> DEFINE a == first(k)
             b == first(k + 1)
  <2>1. Extends(b, a, k) /\ b[k + 1] = es[k + 1]
    BY DEF Extends
  <2>2. AreLogs(st[k]) /\ Regrouped(st[k], a) /\ k \in Nat
    BY <1>8
  <2>3. st[k + 1] = PlaceIn(st[k], es[k + 1])
    <3>1. k + 1 \in 0..n /\ k + 1 # 0 /\ (k + 1) - 1 = k
      OBVIOUS
    <3>2. QED
      BY <1>6, <3>1
  <2> HIDE DEF a, b
  <2>4. AreLogs(PlaceIn(st[k], b[k + 1])) /\ Regrouped(PlaceIn(st[k], b[k + 1]), b)
    BY <2>1, <2>2, PlaceInRegroups
  <2>5. AreLogs(st[k + 1]) /\ Regrouped(st[k + 1], first(k + 1))
    BY <2>1, <2>3, <2>4 DEF b
  <2> HIDE DEF first
  <2>6. QED
    BY <2>5
<1>9. n \in S
  <2> HIDE DEF S
  <2>1. 0..n \subseteq S
    BY <1>7, <1>8, UpTo
  <2>2. QED
    BY <2>1
<1>10. Regrouped(st[n], first(n)) /\ first(n) = es
  BY <1>9
<1>11. QED
  BY <1>1, <1>10

\* A call that has returned has returned its records, as they are alone.
LEMMA ReturnedAlone ==
  ASSUME PipeInv, TrailInv, ~crashed
  PROVE  OutputIsTheInput
<1> SUFFICES ASSUME NEW c \in DOMAIN calls, calls[c].at = "done"
             PROVE  Regrouped(calls[c].out, [i \in DOMAIN Batches[c] |-> Alone[<<c, i>>].entry])
  BY DEF OutputIsTheInput
<1> DEFINE n  == Len(Batches[c])
           es == [i \in 1..n |-> entries[<<c, i>>]]
<1>1. c \in DOMAIN Batches /\ n \in Nat /\ DOMAIN Batches[c] = 1..n
  BY PipelineAssumption DEF PipeInv, CallsInv
<1>2. /\ \A i \in 1..n : agenda[<<c, i>>] = <<>>
      /\ calls[c].spawned = n
      /\ calls[c].out = ConvertEntriesToPlogs(es)
  BY <1>1 DEF PipeInv, ReturnsWhatIsLeft
<1>3. ASSUME NEW i \in 1..n PROVE Alone[<<c, i>>].entry = entries[<<c, i>>]
  <2> DEFINE w == <<c, i>>
  <2>1. w \in PlogToEntries /\ w[1] = c /\ w[2] = i /\ i <= n
    BY <1>1, WorkersOfCalls
  <2> HIDE DEF w
  <2>2. OnTrail(w)
    BY <1>2, <2>1 DEF TrailInv
  <2>3. PICK k \in 0..MaxOps : Trail(w)[k] = [entry |-> entries[w], agenda |-> agenda[w]]
    BY <2>2 DEF OnTrail
  <2>4. agenda[w] = <<>>
    BY <1>2 DEF w
  <2>5. Alone[w] = Trail(w)[k]
    BY <2>1, <2>3, <2>4, TrailEnds
  <2>6. QED
    BY <2>3, <2>5 DEF w
<1>4. es = [i \in DOMAIN Batches[c] |-> Alone[<<c, i>>].entry]
  BY <1>1, <1>3
<1>5. Regrouped(ConvertEntriesToPlogs(es), es)
  <2>1. es = [i \in 1..n |-> es[i]]
    OBVIOUS
  <2> HIDE DEF es
  <2>2. QED
    BY <1>1, <2>1, ConvertRegroups
<1>6. QED
  BY <1>2, <1>4, <1>5

\* Whatever the operators, the batches, the goroutines that meet and the caches they share,
\* what ProcessLogs returns is what each of its records becomes when it is alone, every one
\* once, under its resource and its scope, the records of a scope in the order of the batch.
THEOREM OutputIsAlwaysTheInput == PipeSpec => []OutputIsTheInput
<1> DEFINE Inv == CachesInv /\ PipeInv /\ MatchesAreCached
<1>1. PipeInit => TrailInv /\ OutputIsTheInput
  <2>1. ASSUME PipeInit PROVE \A w \in PlogToEntries : ~ (w[2] <= calls[w[1]].spawned)
    BY <2>1, WorkersOfCalls DEF PipeInit
  <2>2. ASSUME PipeInit PROVE \A c \in DOMAIN calls : calls[c].at # "done"
    BY <2>2 DEF PipeInit
  <2>3. QED
    BY <2>1, <2>2 DEF TrailInv, OutputIsTheInput
<1>2. Inv /\ TrailInv /\ OutputIsTheInput /\ [PipeNext]_pipeVars => TrailInv' /\ (crashed' => OutputIsTheInput')
  BY TrailStep, NothingReturns DEF OutputIsTheInput
<1>3. PipeInv /\ TrailInv /\ ~crashed => OutputIsTheInput
  BY ReturnedAlone
<1>4. PipeSpec => []Inv
  BY PipelineInvariant
<1>5. QED
  BY <1>1, <1>2, <1>3, <1>4, PTL DEF PipeSpec
=============================================================================
