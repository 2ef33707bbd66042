------------------------- MODULE Processors_proofs -------------------------
(***************************************************************************)
(* Proofs about the meter connector, the detection of resources, the span  *)
(* metrics processor and the policies of the tail sampler, for any         *)
(* resources, detectors, spans, policies, traces and limits.               *)
(***************************************************************************)
EXTENDS MeterConnector, ResourceDetection, SpanMetrics, SamplingPolicies,
        FiniteSetTheorems, WellFoundedInduction, TLAPS

-----------------------------------------------------------------------------
(* Iteration                                                               *)

\* A non-empty set of numbers has a least one.
LEMMA LeastNumber ==
  ASSUME NEW T, T \subseteq Nat, T # {}
  PROVE  \E x \in T : \A y \in T : x <= y
<1> DEFINE Below == {ss \in Nat \X Nat : ss[1] < ss[2]}
<1>1. IsWellFoundedOn(Below, Nat)
  BY NatLessThanWellFounded DEF OpToRel
<1> HIDE DEF Below
<1>2. PICK x \in T : \A y \in T : ~ (<<y, x>> \in Below)
  BY <1>1, WFMin
<1>3. ASSUME NEW y \in T PROVE x <= y
  <2>1. <<y, x>> \in Nat \X Nat
    OBVIOUS
  <2>2. ~ (y < x)
    BY <1>2, <2>1 DEF Below
  <2>3. QED
    BY <2>2
<1>4. QED
  BY <1>3

\* Induction over the numbers up to n, for a set.
LEMMA UpTo ==
  ASSUME NEW n \in Nat, NEW S, 0 \in S, \A i \in 0..(n - 1) : i \in S => i + 1 \in S
  PROVE  0..n \subseteq S
<1> SUFFICES ASSUME ~ (0..n \subseteq S) PROVE FALSE
  OBVIOUS
<1> DEFINE T == {i \in 0..n : i \notin S}
<1>1. T \subseteq Nat /\ T # {}
  OBVIOUS
<1>2. PICK x \in T : \A y \in T : x <= y
  <2> HIDE DEF T
  <2>1. QED
    BY <1>1, LeastNumber
<1>3. x \in 0..n /\ x # 0 /\ x - 1 \in 0..(n - 1)
  OBVIOUS
<1>4. x - 1 \in S
  BY <1>2, <1>3
<1>5. x \in S
  <2>1. (x - 1) + 1 = x
    BY <1>3
  <2>2. QED
    BY <1>3, <1>4, <2>1
<1>6. QED
  BY <1>5

\* A function that starts with base and goes on with h.
HasIteration(n, S, base, h) ==
  \E g \in [0..n -> S] : g[0] = base /\ \A i \in 1..n : g[i] = h[<<g[i - 1], i>>]

\* What is defined by iteration exists.
LEMMA IterationExists ==
  ASSUME NEW n \in Nat, NEW S, NEW base \in S, NEW h \in [S \X (1..n) -> S]
  PROVE  HasIteration(n, S, base, h)
<1> DEFINE Good(k, g) == /\ g \in [0..k -> S] /\ g[0] = base
                         /\ \A i \in 1..k : g[i] = h[<<g[i - 1], i>>]
           K == {k \in 0..n : \E g \in [0..k -> S] : Good(k, g)}
<1>1. 0 \in K
  <2> DEFINE z == [i \in 0..0 |-> base]
  <2>1. z \in [0..0 -> S] /\ z[0] = base
    OBVIOUS
  <2>2. \A i \in 1..0 : z[i] = h[<<z[i - 1], i>>]
    OBVIOUS
  <2>3. Good(0, z)
    BY <2>1, <2>2
  <2> HIDE DEF Good, z
  <2>4. QED
    BY <2>1, <2>3
<1>2. ASSUME NEW k \in 0..(n - 1), k \in K PROVE k + 1 \in K
  <2>1. PICK g \in [0..k -> S] : Good(k, g)
    BY <1>2
  <2> DEFINE x == h[<<g[k], k + 1>>]
             z == [i \in 0..(k + 1) |-> IF i = k + 1 THEN x ELSE g[i]]
  <2>2. k \in 0..k /\ k + 1 \in 1..n /\ g[k] \in S
    OBVIOUS
  <2>3. <<g[k], k + 1>> \in S \X (1..n)
    BY <2>2
  <2>4. x \in S
    BY <2>3
  <2> HIDE DEF x
  <2>5. \A i \in 0..k : i \in 0..(k + 1) /\ i # k + 1 /\ z[i] = g[i]
    OBVIOUS
  <2>6. z[k + 1] = x
    OBVIOUS
  <2>7. z \in [0..(k + 1) -> S]
    BY <2>4
  <2>8. z[0] = base
    BY <2>1, <2>5
  <2>9. ASSUME NEW i \in 1..(k + 1) PROVE z[i] = h[<<z[i - 1], i>>]
    <3>1. CASE i = k + 1
      <4>1. z[i - 1] = g[k]
        BY <2>2, <2>5, <3>1
      <4>2. QED
        BY <2>6, <3>1, <4>1 DEF x
    <3>2. CASE i # k + 1
      <4>1. i \in 1..k /\ i \in 0..k /\ i - 1 \in 0..k
        BY <3>2
      <4>2. z[i] = g[i] /\ z[i - 1] = g[i - 1]
        BY <2>5, <4>1
      <4>3. QED
        BY <2>1, <4>1, <4>2
    <3>3. QED
      BY <3>1, <3>2
  <2>10. Good(k + 1, z)
    BY <2>7, <2>8, <2>9
  <2>11. k + 1 \in 0..n
    OBVIOUS
  <2> HIDE DEF Good, z
  <2>12. QED
    BY <2>7, <2>10, <2>11
<1>3. n \in K
  <2> HIDE DEF K
  <2>1. 0..n \subseteq K
    BY <1>1, <1>2, UpTo
  <2>2. QED
    BY <2>1
<1>4. PICK g \in [0..n -> S] : Good(n, g)
  BY <1>3
<1>5. QED
  BY <1>4 DEF HasIteration

-----------------------------------------------------------------------------
(* The meter connector                                                     *)

Counts(f) == \A d \in DOMAIN f : f[d] \in [Signals -> Nat]

\* Data points, at most one for a signal and dimensions.
IsPoints(ps) ==
  \A p \in ps : /\ p[2] \in Signals /\ p[3] \in Nat
                /\ \A q \in ps : p[1] = q[1] /\ p[2] = q[2] => p = q

LEMMA CountIsNat ==
  ASSUME NEW f, Counts(f), NEW d, NEW s \in Signals
  PROVE  CountOf(f, d, s) \in Nat
BY DEF Counts, CountOf

\* What Update makes of a function of counts, and where it changes it.
LEMMA UpdateCounts ==
  ASSUME NEW f, Counts(f), NEW d, NEW s \in Signals, NEW n \in Nat
  PROVE  /\ Counts(Update(f, d, s, n))
         /\ DOMAIN Update(f, d, s, n) = DOMAIN f \cup {d}
<1> DEFINE u == Update(f, d, s, n)
           row(x) == [t \in Signals |-> IF x = d /\ t = s THEN CountOf(f, x, t) + n ELSE CountOf(f, x, t)]
<1>1. DOMAIN u = DOMAIN f \cup {d} /\ \A x \in DOMAIN u : u[x] = row(x)
  BY DEF Update
<1> HIDE DEF u
<1>2. \A x : \A t \in Signals : CountOf(f, x, t) \in Nat
  BY CountIsNat
<1>3. Counts(u)
  <2>1. ASSUME NEW x PROVE row(x) \in [Signals -> Nat]
    BY <1>2
  <2> HIDE DEF row
  <2>2. QED
    BY <1>1, <2>1 DEF Counts
<1>4. QED
  BY <1>1, <1>3 DEF u

LEMMA UpdateAdds ==
  ASSUME NEW f, Counts(f), NEW d, NEW s \in Signals, NEW n \in Nat
  PROVE  CountOf(Update(f, d, s, n), d, s) = CountOf(f, d, s) + n
<1>1. Update(f, d, s, n)[d][s] = CountOf(f, d, s) + n /\ d \in DOMAIN Update(f, d, s, n)
  BY DEF Update
<1>2. QED
  BY <1>1 DEF CountOf

LEMMA UpdateKeeps ==
  ASSUME NEW f, Counts(f), NEW d, NEW s \in Signals, NEW n \in Nat, NEW x, NEW t \in Signals, x # d \/ t # s
  PROVE  CountOf(Update(f, d, s, n), x, t) = CountOf(f, x, t)
<1>1. CASE x \in DOMAIN f \cup {d}
  <2>1. Update(f, d, s, n)[x][t] = CountOf(f, x, t) /\ x \in DOMAIN Update(f, d, s, n)
    BY <1>1 DEF Update
  <2>2. QED
    BY <2>1 DEF CountOf
<1>2. CASE x \notin DOMAIN f \cup {d}
  <2>1. x \notin DOMAIN Update(f, d, s, n)
    BY <1>2 DEF Update
  <2>2. QED
    BY <1>2, <2>1 DEF CountOf
<1>3. QED
  BY <1>1, <1>2

LEMMA AmountIsNat ==
  ASSUME NEW ps, IsPoints(ps), NEW d, NEW s
  PROVE  Amount(ps, d, s) \in Nat
<1> DEFINE of == {p \in ps : p[1] = d /\ p[2] = s}
<1>1. CASE of = {}
  BY <1>1 DEF Amount
<1>2. CASE of # {}
  <2>1. (CHOOSE p \in of : TRUE) \in ps
    BY <1>2
  <2>2. QED
    BY <1>2, <2>1 DEF Amount, IsPoints
<1>3. QED
  BY <1>1, <1>2

\* Where no point is, there is no amount.
LEMMA NoAmount ==
  ASSUME NEW ps, NEW d, NEW s, d \notin {p[1] : p \in ps}
  PROVE  Amount(ps, d, s) = 0
BY DEF Amount

LEMMA AddedCounts ==
  ASSUME NEW f, Counts(f), NEW ps, IsPoints(ps)
  PROVE  /\ Counts(AddPoints(f, ps))
         /\ DOMAIN AddPoints(f, ps) = DOMAIN f \cup {p[1] : p \in ps}
         /\ \A d : \A s \in Signals : CountOf(AddPoints(f, ps), d, s) = CountOf(f, d, s) + Amount(ps, d, s)
<1> DEFINE a == AddPoints(f, ps)
           row(d) == [s \in Signals |-> CountOf(f, d, s) + Amount(ps, d, s)]
<1>1. DOMAIN a = DOMAIN f \cup {p[1] : p \in ps} /\ \A d \in DOMAIN a : a[d] = row(d)
  BY DEF AddPoints
<1> HIDE DEF a
<1>2. \A d : \A s \in Signals : CountOf(f, d, s) \in Nat /\ Amount(ps, d, s) \in Nat
  BY CountIsNat, AmountIsNat
<1>3. Counts(a)
  <2>1. ASSUME NEW d PROVE row(d) \in [Signals -> Nat]
    BY <1>2
  <2> HIDE DEF row
  <2>2. QED
    BY <1>1, <2>1 DEF Counts
<1>4. ASSUME NEW d, NEW s \in Signals
      PROVE  CountOf(a, d, s) = CountOf(f, d, s) + Amount(ps, d, s)
  <2>1. CASE d \in DOMAIN a
    BY <1>1, <2>1 DEF CountOf
  <2>2. CASE d \notin DOMAIN a
    BY <1>1, <2>2, NoAmount DEF CountOf
  <2>3. QED
    BY <2>1, <2>2
<1>5. QED
  BY <1>1, <1>3, <1>4 DEF a

\* A build has all that was counted.
LEMMA BuildHasAll ==
  ASSUME NEW f, Counts(f)
  PROVE  /\ IsPoints(BuildMeters(f))
         /\ {p[1] : p \in BuildMeters(f)} \subseteq DOMAIN f
         /\ \A d : \A s \in Signals : Amount(BuildMeters(f), d, s) = CountOf(f, d, s)
<1> DEFINE b == BuildMeters(f)
<1>1. \A p : p \in b <=> \E s \in Signals, d \in DOMAIN f : f[d][s] > 0 /\ p = <<d, s, f[d][s]>>
  BY DEF BuildMeters, CollectMeters
<1> HIDE DEF b
<1>2. \A p \in b : p[1] \in DOMAIN f /\ p[2] \in Signals /\ p[3] = f[p[1]][p[2]] /\ p = <<p[1], p[2], p[3]>>
  BY <1>1
<1>3. IsPoints(b)
  BY <1>2 DEF IsPoints, Counts
<1>4. ASSUME NEW d, NEW s \in Signals
      PROVE  Amount(b, d, s) = CountOf(f, d, s)
  <2> DEFINE of == {p \in b : p[1] = d /\ p[2] = s}
  <2>1. CASE of = {}
    <3>1. ~ (d \in DOMAIN f /\ f[d][s] > 0)
      <4>1. ASSUME d \in DOMAIN f, f[d][s] > 0 PROVE <<d, s, f[d][s]>> \in of
        BY <1>1, <4>1
      <4>2. QED
        BY <2>1, <4>1
    <3>2. QED
      BY <2>1, <3>1 DEF Amount, CountOf, Counts
  <2>2. CASE of # {}
    <3>1. (CHOOSE p \in of : TRUE) \in of
      BY <2>2
    <3>2. Amount(b, d, s) = (CHOOSE p \in of : TRUE)[3]
      BY <2>2 DEF Amount
    <3>3. QED
      BY <1>2, <3>1, <3>2 DEF CountOf
  <2>3. QED
    BY <2>1, <2>2
<1>5. QED
  BY <1>2, <1>3, <1>4 DEF b

Goroutines == {"ticker", "shutdown"}

\* Counts are numbers, a goroutine holds points only while it exports them, and nothing is
\* counted under dimensions with which nothing was consumed.
MeterTypes ==
  /\ Counts(meters) /\ Counts(stored) /\ Counts(accepted) /\ Counts(failed)
  /\ mGo \in [Goroutines -> [pc : {"select", "consume", "ended", "none", "stop", "returned"},
                             points : {mGo[g].points : g \in Goroutines}]]
  /\ \A g \in Goroutines :
       /\ IsPoints(mGo[g].points)
       /\ mGo[g].pc # "consume" => mGo[g].points = {}
       /\ {p[1] : p \in mGo[g].points} \subseteq DOMAIN accepted
  /\ DOMAIN meters \subseteq DOMAIN accepted
  /\ DOMAIN stored \subseteq DOMAIN accepted
  /\ DOMAIN failed \subseteq DOMAIN accepted

\* Shutdown waits for the ticker's goroutine, and the exporter goes down after both; nothing is
\* consumed any more when Shutdown has taken its last points.
MeterOrder ==
  /\ mGo["shutdown"].pc # "none" => meters = NoMeters
  /\ mGo["shutdown"].pc = "returned" => mGo["ticker"].pc = "ended"
  /\ mExp \in {"open", "closed", "down"}
  /\ mExp # "open" => mGo["shutdown"].pc = "returned"

\* What was consumed is in one place: in the meters, in the hands of one of the goroutines, in
\* the table, or lost with a failed export.
MeterBalance ==
  \A d \in DOMAIN accepted, s \in Signals :
    CountOf(accepted, d, s) = CountOf(meters, d, s) + Amount(mGo["ticker"].points, d, s)
      + Amount(mGo["shutdown"].points, d, s) + CountOf(stored, d, s) + CountOf(failed, d, s)

MeterInv == MeterTypes /\ MeterOrder /\ MeterBalance

LEMMA MeterStarts == MeterInit => MeterInv
<1> SUFFICES ASSUME MeterInit PROVE MeterInv
  OBVIOUS
<1>1. DOMAIN NoMeters = {} /\ Counts(NoMeters)
  BY DEF NoMeters, Counts
<1>2. IsPoints({})
  BY DEF IsPoints
<1>3. MeterTypes
  <2>1. mGo \in [Goroutines -> [pc : {"select", "consume", "ended", "none", "stop", "returned"},
                               points : {mGo[g].points : g \in Goroutines}]]
    BY DEF MeterInit, Goroutines
  <2>2. \A g \in Goroutines : mGo[g].points = {}
    BY DEF MeterInit, Goroutines
  <2>3. QED
    BY <1>1, <1>2, <2>1, <2>2 DEF MeterInit, MeterTypes
<1>4. MeterOrder
  BY DEF MeterInit, MeterOrder
<1>5. MeterBalance
  BY <1>1 DEF MeterInit, MeterBalance
<1>6. QED
  BY <1>3, <1>4, <1>5 DEF MeterInv

\* What is consumed is added to the meters.
LEMMA ConsumeStep ==
  ASSUME MeterInv, NEW r \in Resources, Consume(r)
  PROVE  MeterInv'
<1> DEFINE dims == BuildDimensions(r.attrs)
<1>1. r.signal \in Signals /\ r.n \in Nat
  BY MeterAssumption
<1>2. /\ Counts(meters') /\ DOMAIN meters' = DOMAIN meters \cup {dims}
      /\ CountOf(meters', dims, r.signal) = CountOf(meters, dims, r.signal) + r.n
      /\ \A x : \A t \in Signals : x # dims \/ t # r.signal => CountOf(meters', x, t) = CountOf(meters, x, t)
  <2>1. meters' = Update(meters, dims, r.signal, r.n) /\ Counts(meters)
    BY DEF MeterInv, MeterTypes, Consume
  <2> HIDE DEF dims
  <2> DEFINE u == Update(meters, dims, r.signal, r.n)
  <2>2. Counts(u) /\ DOMAIN u = DOMAIN meters \cup {dims}
    BY <1>1, <2>1, UpdateCounts
  <2>3. CountOf(u, dims, r.signal) = CountOf(meters, dims, r.signal) + r.n
    BY <1>1, <2>1, UpdateAdds
  <2>4. \A x : \A t \in Signals : x # dims \/ t # r.signal => CountOf(u, x, t) = CountOf(meters, x, t)
    BY <1>1, <2>1, UpdateKeeps
  <2> HIDE DEF u
  <2>5. QED
    BY <2>1, <2>2, <2>3, <2>4 DEF u
<1>3. /\ Counts(accepted') /\ DOMAIN accepted' = DOMAIN accepted \cup {dims}
      /\ CountOf(accepted', dims, r.signal) = CountOf(accepted, dims, r.signal) + r.n
      /\ \A x : \A t \in Signals : x # dims \/ t # r.signal => CountOf(accepted', x, t) = CountOf(accepted, x, t)
  <2>1. accepted' = Update(accepted, dims, r.signal, r.n) /\ Counts(accepted)
    BY DEF MeterInv, MeterTypes, Consume
  <2> HIDE DEF dims
  <2> DEFINE u == Update(accepted, dims, r.signal, r.n)
  <2>2. Counts(u) /\ DOMAIN u = DOMAIN accepted \cup {dims}
    BY <1>1, <2>1, UpdateCounts
  <2>3. CountOf(u, dims, r.signal) = CountOf(accepted, dims, r.signal) + r.n
    BY <1>1, <2>1, UpdateAdds
  <2>4. \A x : \A t \in Signals : x # dims \/ t # r.signal => CountOf(u, x, t) = CountOf(accepted, x, t)
    BY <1>1, <2>1, UpdateKeeps
  <2> HIDE DEF u
  <2>5. QED
    BY <2>1, <2>2, <2>3, <2>4 DEF u
<1> HIDE DEF dims
<1>4. UNCHANGED <<mGo, mExp, stored, failed>> /\ mGo["shutdown"].pc = "none"
  BY DEF Consume
<1>5. MeterTypes'
  BY <1>2, <1>3, <1>4 DEF MeterInv, MeterTypes
<1>6. MeterOrder'
  BY <1>4 DEF MeterInv, MeterOrder
<1>7. MeterBalance'
  <2> SUFFICES ASSUME NEW x \in DOMAIN accepted', NEW s \in Signals
               PROVE  CountOf(accepted', x, s) = CountOf(meters', x, s) + Amount(mGo["ticker"].points, x, s)
                        + Amount(mGo["shutdown"].points, x, s) + CountOf(stored, x, s) + CountOf(failed, x, s)
    BY <1>4 DEF MeterBalance
  <2>1. /\ CountOf(accepted, x, s) \in Nat /\ CountOf(meters, x, s) \in Nat
        /\ CountOf(stored, x, s) \in Nat /\ CountOf(failed, x, s) \in Nat
        /\ Amount(mGo["ticker"].points, x, s) \in Nat /\ Amount(mGo["shutdown"].points, x, s) \in Nat
    BY CountIsNat, AmountIsNat DEF MeterInv, MeterTypes, Goroutines
  <2>2. CountOf(accepted, x, s) = CountOf(meters, x, s) + Amount(mGo["ticker"].points, x, s)
                        + Amount(mGo["shutdown"].points, x, s) + CountOf(stored, x, s) + CountOf(failed, x, s)
    <3>1. CASE x \in DOMAIN accepted
      BY <3>1 DEF MeterInv, MeterBalance
    <3>2. CASE x \notin DOMAIN accepted
      <4>1. /\ CountOf(accepted, x, s) = 0 /\ CountOf(meters, x, s) = 0
            /\ CountOf(stored, x, s) = 0 /\ CountOf(failed, x, s) = 0
        BY <3>2 DEF MeterInv, MeterTypes, CountOf
      <4>2. Amount(mGo["ticker"].points, x, s) = 0 /\ Amount(mGo["shutdown"].points, x, s) = 0
        BY <3>2, NoAmount DEF MeterInv, MeterTypes, Goroutines
      <4>3. QED
        BY <4>1, <4>2
    <3>3. QED
      BY <3>1, <3>2
  <2>3. QED
    BY <1>1, <1>2, <1>3, <2>1, <2>2
<1>8. QED
  BY <1>5, <1>6, <1>7 DEF MeterInv

\* An export takes all meters.
LEMMA ExportStep ==
  ASSUME MeterInv, TakeTick \/ ShutdownConnector
  PROVE  MeterInv'
<1>1. PICK g \in Goroutines, after \in {"select", "stop"} :
        /\ ExportMeters(g, after) /\ mGo[g].pc # "consume"
        /\ g = "ticker" => after = "select" /\ mGo[g].pc = "select"
        /\ g = "shutdown" => after = "stop" /\ mGo[g].pc = "none"
  BY DEF TakeTick, ShutdownConnector, Goroutines
<1> DEFINE b == BuildMeters(meters)
           new == IF b = {} THEN [pc |-> after, points |-> {}] ELSE [pc |-> "consume", points |-> b]
<1>2. /\ IsPoints(b) /\ {p[1] : p \in b} \subseteq DOMAIN meters
      /\ \A d : \A s \in Signals : Amount(b, d, s) = CountOf(meters, d, s)
  BY BuildHasAll DEF MeterInv, MeterTypes
<1>3. /\ mGo' = [mGo EXCEPT ![g] = new] /\ meters' = NoMeters
      /\ UNCHANGED <<mExp, stored, accepted, failed>>
  BY <1>1 DEF ExportMeters
<1>4. new.points = b /\ new.pc \in {"consume", after} /\ (new.pc # "consume" => b = {})
  OBVIOUS
<1>5. new = [pc |-> new.pc, points |-> new.points]
  OBVIOUS
<1> HIDE DEF b, new
<1>6. DOMAIN meters' = {} /\ Counts(meters') /\ \A d, s : CountOf(meters', d, s) = 0
  BY <1>3 DEF NoMeters, Counts, CountOf
<1>7. DOMAIN mGo = Goroutines /\ mGo'[g] = new /\ \A h \in Goroutines \ {g} : mGo'[h] = mGo[h]
  BY <1>3 DEF MeterInv, MeterTypes
<1>8. MeterTypes'
  <2>1. mGo' \in [Goroutines -> [pc : {"select", "consume", "ended", "none", "stop", "returned"},
                                 points : {mGo'[h].points : h \in Goroutines}]]
    <3>1. ASSUME NEW h \in Goroutines
          PROVE  mGo'[h] \in [pc : {"select", "consume", "ended", "none", "stop", "returned"},
                              points : {mGo'[i].points : i \in Goroutines}]
      <4>1. CASE h = g
        BY <1>1, <1>4, <1>5, <1>7, <4>1
      <4>2. CASE h # g
        BY <1>7, <4>2 DEF MeterInv, MeterTypes
      <4>3. QED
        BY <4>1, <4>2
    <3>2. QED
      BY <1>3, <3>1 DEF MeterInv, MeterTypes
  <2>2. ASSUME NEW h \in Goroutines
        PROVE  /\ IsPoints(mGo'[h].points)
               /\ mGo'[h].pc # "consume" => mGo'[h].points = {}
               /\ {p[1] : p \in mGo'[h].points} \subseteq DOMAIN accepted'
    <3>1. CASE h = g
      BY <1>2, <1>3, <1>4, <1>7, <3>1 DEF MeterInv, MeterTypes
    <3>2. CASE h # g
      BY <1>3, <1>7, <3>2 DEF MeterInv, MeterTypes
    <3>3. QED
      BY <3>1, <3>2
  <2>3. QED
    BY <1>3, <1>6, <2>1, <2>2 DEF MeterInv, MeterTypes
<1>9. MeterOrder'
  <2>1. CASE g = "ticker"
    BY <1>1, <1>3, <1>4, <1>7, <2>1 DEF MeterInv, MeterOrder, Goroutines
  <2>2. CASE g = "shutdown"
    BY <1>1, <1>3, <1>4, <1>7, <2>2 DEF MeterInv, MeterOrder, Goroutines
  <2>3. QED
    BY <2>1, <2>2 DEF Goroutines
<1>10. MeterBalance'
  <2> SUFFICES ASSUME NEW x \in DOMAIN accepted, NEW s \in Signals
               PROVE  CountOf(accepted, x, s) = CountOf(meters', x, s) + Amount(mGo'["ticker"].points, x, s)
                        + Amount(mGo'["shutdown"].points, x, s) + CountOf(stored, x, s) + CountOf(failed, x, s)
    BY <1>3 DEF MeterBalance
  <2>1. /\ CountOf(accepted, x, s) \in Nat /\ CountOf(meters, x, s) \in Nat
        /\ CountOf(stored, x, s) \in Nat /\ CountOf(failed, x, s) \in Nat
        /\ \A h \in Goroutines : Amount(mGo[h].points, x, s) \in Nat
    BY CountIsNat, AmountIsNat DEF MeterInv, MeterTypes
  <2>2. CountOf(accepted, x, s) = CountOf(meters, x, s) + Amount(mGo["ticker"].points, x, s)
                        + Amount(mGo["shutdown"].points, x, s) + CountOf(stored, x, s) + CountOf(failed, x, s)
    BY DEF MeterInv, MeterBalance
  <2>3. Amount(mGo[g].points, x, s) = 0
    BY <1>1, NoAmount DEF MeterInv, MeterTypes
  <2>4. Amount(mGo'[g].points, x, s) = CountOf(meters, x, s) /\ CountOf(meters', x, s) = 0
    BY <1>2, <1>4, <1>6, <1>7
  <2>5. QED
    BY <1>7, <2>1, <2>2, <2>3, <2>4 DEF Goroutines
<1>11. QED
  BY <1>8, <1>9, <1>10 DEF MeterInv

\* An export ends: its points are in the table, or have failed.
LEMMA WriteStep ==
  ASSUME MeterInv, NEW g \in Goroutines, NEW ok \in BOOLEAN, WriteMeters(g, ok)
  PROVE  MeterInv'
<1> DEFINE ps == mGo[g].points
           new == [pc |-> After(g), points |-> {}]
<1>1. /\ IsPoints(ps) /\ {p[1] : p \in ps} \subseteq DOMAIN accepted
      /\ mGo[g].pc = "consume"
  BY DEF MeterInv, MeterTypes, WriteMeters
<1>2. /\ mGo' = [mGo EXCEPT ![g] = new] /\ UNCHANGED <<meters, mExp, accepted>>
      /\ IF ok THEN stored' = AddPoints(stored, ps) /\ failed' = failed
         ELSE stored' = stored /\ failed' = AddPoints(failed, ps)
  BY DEF WriteMeters
<1> HIDE DEF ps
<1>0. /\ Counts(stored) /\ Counts(failed)
      /\ DOMAIN stored \subseteq DOMAIN accepted /\ DOMAIN failed \subseteq DOMAIN accepted
  BY DEF MeterInv, MeterTypes
<1>3. /\ Counts(stored') /\ Counts(failed')
      /\ DOMAIN stored' \subseteq DOMAIN accepted /\ DOMAIN failed' \subseteq DOMAIN accepted
  <2>1. CASE ok
    BY <1>1, <1>2, <1>0, <2>1, AddedCounts
  <2>2. CASE ~ok
    BY <1>1, <1>2, <1>0, <2>2, AddedCounts
  <2>3. QED
    BY <2>1, <2>2
<1>4. \A x : \A s \in Signals :
        IF ok THEN CountOf(stored', x, s) = CountOf(stored, x, s) + Amount(ps, x, s) /\ CountOf(failed', x, s) = CountOf(failed, x, s)
        ELSE CountOf(failed', x, s) = CountOf(failed, x, s) + Amount(ps, x, s) /\ CountOf(stored', x, s) = CountOf(stored, x, s)
  BY <1>1, <1>2, <1>0, AddedCounts
<1>5. new.points = {} /\ new.pc = (IF g = "ticker" THEN "select" ELSE "stop")
  BY DEF After
<1>6. new = [pc |-> new.pc, points |-> new.points]
  OBVIOUS
<1> HIDE DEF new
<1>7. DOMAIN mGo = Goroutines /\ mGo'[g] = new /\ \A h \in Goroutines \ {g} : mGo'[h] = mGo[h]
  BY <1>2 DEF MeterInv, MeterTypes
<1>8. MeterTypes'
  <2>1. mGo' \in [Goroutines -> [pc : {"select", "consume", "ended", "none", "stop", "returned"},
                                 points : {mGo'[h].points : h \in Goroutines}]]
    <3>1. ASSUME NEW h \in Goroutines
          PROVE  mGo'[h] \in [pc : {"select", "consume", "ended", "none", "stop", "returned"},
                              points : {mGo'[i].points : i \in Goroutines}]
      <4>1. CASE h = g
        BY <1>5, <1>6, <1>7, <4>1
      <4>2. CASE h # g
        BY <1>7, <4>2 DEF MeterInv, MeterTypes
      <4>3. QED
        BY <4>1, <4>2
    <3>2. QED
      BY <1>2, <3>1 DEF MeterInv, MeterTypes
  <2>2. ASSUME NEW h \in Goroutines
        PROVE  /\ IsPoints(mGo'[h].points)
               /\ mGo'[h].pc # "consume" => mGo'[h].points = {}
               /\ {p[1] : p \in mGo'[h].points} \subseteq DOMAIN accepted'
    <3>1. CASE h = g
      BY <1>5, <1>7, <3>1 DEF IsPoints
    <3>2. CASE h # g
      BY <1>2, <1>7, <3>2 DEF MeterInv, MeterTypes
    <3>3. QED
      BY <3>1, <3>2
  <2>3. QED
    BY <1>2, <1>3, <2>1, <2>2 DEF MeterInv, MeterTypes
<1>9. MeterOrder'
  <2>1. CASE g = "ticker"
    BY <1>1, <1>2, <1>5, <1>7, <2>1 DEF MeterInv, MeterOrder, Goroutines
  <2>2. CASE g = "shutdown"
    BY <1>1, <1>2, <1>5, <1>7, <2>2 DEF MeterInv, MeterOrder, Goroutines
  <2>3. QED
    BY <2>1, <2>2 DEF Goroutines
<1>10. MeterBalance'
  <2> SUFFICES ASSUME NEW x \in DOMAIN accepted, NEW s \in Signals
               PROVE  CountOf(accepted, x, s) = CountOf(meters, x, s) + Amount(mGo'["ticker"].points, x, s)
                        + Amount(mGo'["shutdown"].points, x, s) + CountOf(stored', x, s) + CountOf(failed', x, s)
    BY <1>2 DEF MeterBalance
  <2>1. /\ CountOf(accepted, x, s) \in Nat /\ CountOf(meters, x, s) \in Nat
        /\ CountOf(stored, x, s) \in Nat /\ CountOf(failed, x, s) \in Nat
        /\ \A h \in Goroutines : Amount(mGo[h].points, x, s) \in Nat
    BY CountIsNat, AmountIsNat DEF MeterInv, MeterTypes
  <2>2. CountOf(accepted, x, s) = CountOf(meters, x, s) + Amount(mGo["ticker"].points, x, s)
                        + Amount(mGo["shutdown"].points, x, s) + CountOf(stored, x, s) + CountOf(failed, x, s)
    BY DEF MeterInv, MeterBalance
  <2>3. Amount(mGo'[g].points, x, s) = 0
    BY <1>5, <1>7, NoAmount
  <2>4. Amount(mGo[g].points, x, s) = Amount(ps, x, s)
    BY DEF ps
  <2>5. CASE ok
    BY <1>4, <1>7, <2>1, <2>2, <2>3, <2>4, <2>5 DEF Goroutines
  <2>6. CASE ~ok
    BY <1>4, <1>7, <2>1, <2>2, <2>3, <2>4, <2>6 DEF Goroutines
  <2>7. QED
    BY <2>5, <2>6
<1>11. QED
  BY <1>8, <1>9, <1>10 DEF MeterInv

\* The steps of Shutdown.
LEMMA MeterEndStep ==
  ASSUME MeterInv, SendDone \/ ShutdownExporter
  PROVE  MeterInv'
<1>1. CASE SendDone
  <2>1. /\ UNCHANGED <<meters, mExp, stored, accepted, failed>>
        /\ mGo["shutdown"].pc = "stop" /\ mGo["ticker"].pc = "select"
        /\ DOMAIN mGo' = Goroutines
        /\ mGo'["shutdown"].pc = "returned" /\ mGo'["ticker"].pc = "ended"
        /\ \A g \in Goroutines : /\ mGo'[g] = [pc |-> mGo'[g].pc, points |-> mGo'[g].points]
                                 /\ mGo'[g].points = mGo[g].points
    BY <1>1 DEF SendDone, MeterInv, MeterTypes, Goroutines
  <2>2. mGo' = [g \in Goroutines |-> mGo'[g]]
    BY <1>1 DEF SendDone, MeterInv, MeterTypes
  <2>3. MeterTypes'
    BY <2>1, <2>2 DEF MeterInv, MeterTypes, Goroutines
  <2>4. MeterOrder'
    BY <2>1 DEF MeterInv, MeterOrder
  <2>5. MeterBalance'
    BY <2>1 DEF MeterInv, MeterBalance, Goroutines
  <2>6. QED
    BY <2>3, <2>4, <2>5 DEF MeterInv
<1>2. CASE ShutdownExporter
  <2>1. UNCHANGED <<meters, mGo, stored, accepted, failed>>
    BY <1>2 DEF ShutdownExporter
  <2>2. MeterOrder'
    BY <1>2 DEF MeterInv, MeterOrder, ShutdownExporter
  <2>3. QED
    BY <2>1, <2>2 DEF MeterInv, MeterTypes, MeterBalance
<1>3. QED
  BY <1>1, <1>2

\* The inductive invariant of the connector and the exporter of its metrics, for any resources:
\* every item consumed is in one place.
THEOREM MeterInvariant == MeterSpec => []MeterInv
<1>1. MeterInv /\ [MeterNext]_meterVars => MeterInv'
  <2> SUFFICES ASSUME MeterInv, [MeterNext]_meterVars PROVE MeterInv'
    OBVIOUS
  <2>1. CASE UNCHANGED meterVars
    BY <2>1 DEF meterVars, MeterInv, MeterTypes, MeterOrder, MeterBalance
  <2>2. QED
    BY <2>1, ConsumeStep, ExportStep, WriteStep, MeterEndStep DEF MeterNext, Goroutines
<1>2. QED
  BY MeterStarts, <1>1, PTL DEF MeterSpec

\* For any resources, ticks and failing writes, when the exporter is down every item that passed is
\* in the meter table once, or was in an export that failed (exportMetrics, Shutdown).
THEOREM ItemsAreMeteredOnce == MeterSpec => []MeteredOnce
<1>1. MeterInv => MeteredOnce
  <2> SUFFICES ASSUME MeterInv, mExp = "down",
                      NEW d \in DOMAIN accepted \cup DOMAIN stored \cup DOMAIN failed, NEW s \in Signals
               PROVE  CountOf(stored, d, s) + CountOf(failed, d, s) = CountOf(accepted, d, s)
    BY DEF MeteredOnce
  <2>1. d \in DOMAIN accepted
    BY DEF MeterInv, MeterTypes
  <2>2. mGo["shutdown"].pc = "returned" /\ mGo["ticker"].pc = "ended" /\ meters = NoMeters
    BY DEF MeterInv, MeterOrder
  <2>3. CountOf(meters, d, s) = 0
    BY <2>2 DEF NoMeters, CountOf
  <2>4. Amount(mGo["ticker"].points, d, s) = 0 /\ Amount(mGo["shutdown"].points, d, s) = 0
    BY <2>2, NoAmount DEF MeterInv, MeterTypes, Goroutines
  <2>5. CountOf(stored, d, s) \in Nat /\ CountOf(failed, d, s) \in Nat
    BY CountIsNat DEF MeterInv, MeterTypes
  <2>6. QED
    BY <2>1, <2>3, <2>4, <2>5 DEF MeterInv, MeterBalance
<1>2. QED
  BY MeterInvariant, <1>1, PTL

-----------------------------------------------------------------------------
(* The detection of resources                                              *)

\* A result of detector i, once there is one.
IsResult(i, x) == x = Failed \/ x \in Found(i)

\* What a merge has come to after the first n results: every attribute is that of the first of
\* them that has it, and none of theirs is missing.
MergedFrom(results, n, m) ==
  /\ \A i \in 1..n : results[i].ok => DOMAIN results[i].attrs \subseteq DOMAIN m.attrs
  /\ \A k \in DOMAIN m.attrs : \E i \in 1..n :
       /\ results[i].ok /\ k \in DOMAIN results[i].attrs /\ m.attrs[k] = results[i].attrs[k]
       /\ \A j \in 1..(i - 1) : results[j].ok => k \notin DOMAIN results[j].attrs

LEMMA FoundAreSuccesses ==
  ASSUME NEW i \in DOMAIN Detectors, NEW x \in Found(i)
  PROVE  x.ok
BY DEF Found

\* mergeResource keeps what is there: the earlier result wins.
LEMMA EarlierResultWins ==
  ASSUME NEW results, NEW n \in Nat \ {0}, NEW m, MergedFrom(results, n - 1, m), results[n].ok,
         NEW a, a.attrs = MergeResource(m.attrs, results[n].attrs, FALSE)
  PROVE  MergedFrom(results, n, a)
<1>1. /\ DOMAIN a.attrs = DOMAIN m.attrs \cup DOMAIN results[n].attrs
      /\ \A k \in DOMAIN m.attrs : a.attrs[k] = m.attrs[k]
      /\ \A k \in DOMAIN a.attrs \ DOMAIN m.attrs : a.attrs[k] = results[n].attrs[k]
  BY DEF MergeResource, Over
<1>2. \A i \in 1..n : i = n \/ i \in 1..(n - 1)
  OBVIOUS
<1>3. ASSUME NEW i \in 1..n, results[i].ok PROVE DOMAIN results[i].attrs \subseteq DOMAIN a.attrs
  BY <1>1, <1>2, <1>3 DEF MergedFrom
<1>4. ASSUME NEW k \in DOMAIN a.attrs
      PROVE  \E i \in 1..n :
               /\ results[i].ok /\ k \in DOMAIN results[i].attrs /\ a.attrs[k] = results[i].attrs[k]
               /\ \A j \in 1..(i - 1) : results[j].ok => k \notin DOMAIN results[j].attrs
  <2>1. CASE k \in DOMAIN m.attrs
    <3>1. PICK i \in 1..(n - 1) :
               /\ results[i].ok /\ k \in DOMAIN results[i].attrs /\ m.attrs[k] = results[i].attrs[k]
               /\ \A j \in 1..(i - 1) : results[j].ok => k \notin DOMAIN results[j].attrs
      BY <2>1 DEF MergedFrom
    <3>2. a.attrs[k] = m.attrs[k]
      BY <1>1, <2>1
    <3>3. i \in 1..n
      OBVIOUS
    <3>4. QED
      BY <3>1, <3>2, <3>3
  <2>2. CASE k \notin DOMAIN m.attrs
    <3>1. k \in DOMAIN results[n].attrs /\ a.attrs[k] = results[n].attrs[k]
      BY <1>1, <2>2
    <3>2. \A j \in 1..(n - 1) : results[j].ok => k \notin DOMAIN results[j].attrs
      BY <2>2 DEF MergedFrom
    <3>3. n \in 1..n
      OBVIOUS
    <3>4. QED
      BY <3>1, <3>2, <3>3
  <2>3. QED
    BY <2>1, <2>2
<1>5. QED
  BY <1>3, <1>4 DEF MergedFrom

\* The whole merge.
LEMMA MergeIsInOrder ==
  ASSUME NEW n \in Nat, NEW results, Len(results) = n, DOMAIN results = 1..n
  PROVE  /\ MergedFrom(results, n, Merged(results))
         /\ Merged(results) # Absent
         /\ Merged(results).ok => \A i \in 1..n : results[i].ok
<1> DEFINE K == UNION {DOMAIN results[i].attrs : i \in 1..n}
           V == {results[i].attrs[k] : i \in 1..n, k \in K}
           A == UNION {[d -> V] : d \in SUBSET K}
           S == [ok : BOOLEAN, attrs : A, url : {""} \cup {results[i].url : i \in 1..n}]
           next(a, i) == IF ~results[i].ok THEN a
                         ELSE Success(MergeResource(a.attrs, results[i].attrs, FALSE), MergeSchemaURL(a.url, results[i].url))
           h == [x \in S \X (1..n) |-> next(x[1], x[2])]
           Iterates(f) == f = [i \in 0..n |-> IF i = 0 THEN Failed
                                ELSE IF ~results[i].ok THEN f[i - 1]
                                ELSE Success(MergeResource(f[i - 1].attrs, results[i].attrs, FALSE),
                                             MergeSchemaURL(f[i - 1].url, results[i].url))]
           merge == CHOOSE f : Iterates(f)
           all == \A i \in DOMAIN results : results[i].ok
<1>1. Merged(results) = [merge[n] EXCEPT !.ok = @ /\ all]
  BY DEF Merged
<1>20. ASSUME NEW i \in 1..n
      PROVE  /\ DOMAIN results[i].attrs \subseteq K
             /\ \A k \in DOMAIN results[i].attrs : results[i].attrs[k] \in V
  <2>1. DOMAIN results[i].attrs \subseteq K
    OBVIOUS
  <2> HIDE DEF K
  <2>2. QED
    BY <2>1
<1> HIDE DEF K, V
<1>2. Failed \in S
  <2>1. << >> \in [{} -> V]
    OBVIOUS
  <2>2. {} \in SUBSET K
    OBVIOUS
  <2>3. << >> \in A
    BY <2>1, <2>2
  <2> HIDE DEF A
  <2>4. QED
    BY <2>3 DEF Failed
<1> HIDE DEF next
<1>3. ASSUME NEW a \in S, NEW i \in 1..n PROVE next(a, i) \in S
  <2>1. CASE ~results[i].ok
    BY <2>1 DEF next
  <2>2. CASE results[i].ok
    <3> DEFINE m == MergeResource(a.attrs, results[i].attrs, FALSE)
               u == MergeSchemaURL(a.url, results[i].url)
    <3>1. DOMAIN results[i].attrs \subseteq K
      BY <1>20
    <3>2. \A k \in DOMAIN results[i].attrs : results[i].attrs[k] \in V
      BY <1>20
    <3>3. PICK d \in SUBSET K : a.attrs \in [d -> V]
      <4> HIDE DEF A
      <4>1. a.attrs \in A
        OBVIOUS
      <4>2. QED
        BY <4>1 DEF A
    <3>4. m \in [d \cup DOMAIN results[i].attrs -> V]
      BY <3>2, <3>3 DEF MergeResource, Over
    <3>5. m \in A
      <4>1. d \cup DOMAIN results[i].attrs \in SUBSET K
        BY <3>1
      <4> HIDE DEF m
      <4>2. QED
        BY <3>4, <4>1
    <3>6. u \in {""} \cup {results[j].url : j \in 1..n}
      <4>1. a.url \in {""} \cup {results[j].url : j \in 1..n}
        OBVIOUS
      <4>2. u = a.url \/ u = results[i].url
        BY DEF MergeSchemaURL
      <4> HIDE DEF u
      <4>3. QED
        BY <4>1, <4>2
    <3> HIDE DEF m, u, A
    <3>7. [ok |-> TRUE, attrs |-> m, url |-> u] \in S
      BY <3>5, <3>6
    <3>8. next(a, i) = [ok |-> TRUE, attrs |-> m, url |-> u]
      BY <2>2 DEF Success, m, u, next
    <3> HIDE DEF S
    <3>9. QED
      BY <3>7, <3>8
  <2>3. QED
    BY <2>1, <2>2
<1> HIDE DEF S
<1>4. h \in [S \X (1..n) -> S]
  <2> HIDE DEF next
  <2>1. QED
    BY <1>3
<1>5. \A a \in S, i \in 1..n : h[<<a, i>>] = next(a, i)
  <2> HIDE DEF next
  <2>1. QED
    OBVIOUS
<1> HIDE DEF h
<1>6. PICK f \in [0..n -> S] : f[0] = Failed /\ \A i \in 1..n : f[i] = h[<<f[i - 1], i>>]
  <2>1. HasIteration(n, S, Failed, h)
    BY <1>2, <1>4, IterationExists
  <2>2. QED
    BY <2>1 DEF HasIteration
<1>7. Iterates(f)
  <2> HIDE DEF next
  <2>1. \A i \in 1..n : f[i] = next(f[i - 1], i)
    <3>1. ASSUME NEW i \in 1..n PROVE f[i] = next(f[i - 1], i)
      <4>1. i - 1 \in 0..n
        OBVIOUS
      <4>2. f[i - 1] \in S
        BY <4>1
      <4>3. QED
        BY <1>5, <1>6, <4>2
    <3>2. QED
      BY <3>1
  <2>2. ASSUME NEW i \in 0..n
        PROVE  f[i] = IF i = 0 THEN Failed
                      ELSE IF ~results[i].ok THEN f[i - 1]
                      ELSE Success(MergeResource(f[i - 1].attrs, results[i].attrs, FALSE),
                                   MergeSchemaURL(f[i - 1].url, results[i].url))
    <3>1. CASE i = 0
      BY <1>6, <3>1
    <3>2. CASE i # 0
      <4>1. i \in 1..n
        BY <3>2
      <4>2. f[i] = next(f[i - 1], i)
        BY <2>1, <4>1
      <4>3. QED
        BY <3>2, <4>2 DEF next
    <3>3. QED
      BY <3>1, <3>2
  <2>3. QED
    BY <2>2
<1>8. Iterates(merge)
  BY <1>7, Zenon
<1> HIDE DEF merge
<1>9. /\ merge[0] = Failed
      /\ \A i \in 1..n : merge[i] = next(merge[i - 1], i)
  <2>1. 0 \in 0..n /\ \A i \in 1..n : i \in 0..n /\ i # 0
    OBVIOUS
  <2>2. \A i \in 0..n : merge[i] = IF i = 0 THEN Failed
                      ELSE IF ~results[i].ok THEN merge[i - 1]
                      ELSE Success(MergeResource(merge[i - 1].attrs, results[i].attrs, FALSE),
                                   MergeSchemaURL(merge[i - 1].url, results[i].url))
    BY <1>8
  <2>3. merge[0] = Failed
    BY <2>1, <2>2
  <2>4. ASSUME NEW i \in 1..n PROVE merge[i] = next(merge[i - 1], i)
    BY <2>1, <2>2 DEF next
  <2>5. QED
    BY <2>3, <2>4
<1> DEFINE D == {i \in 0..n : merge[i] \in S /\ MergedFrom(results, i, merge[i])}
<1>10. 0 \in D
  <2>1. MergedFrom(results, 0, Failed)
    BY DEF MergedFrom, Failed
  <2>2. QED
    BY <1>2, <1>9, <2>1
<1>11. ASSUME NEW i \in 0..(n - 1), i \in D PROVE i + 1 \in D
  <2>1. i + 1 \in 1..n /\ (i + 1) - 1 = i /\ i + 1 \in Nat \ {0}
    OBVIOUS
  <2>2. merge[i + 1] = next(merge[i], i + 1)
    BY <1>9, <2>1
  <2>3. merge[i] \in S /\ MergedFrom(results, i, merge[i])
    BY <1>11
  <2>4. merge[i + 1] \in S
    BY <1>3, <2>1, <2>2, <2>3
  <2>5. MergedFrom(results, i + 1, merge[i + 1])
    <3>1. CASE ~results[i + 1].ok
      <4>1. merge[i + 1] = merge[i]
        BY <2>2, <3>1 DEF next
      <4>2. \A j \in 1..(i + 1) : results[j].ok => j \in 1..i
        BY <3>1
      <4>3. \A j \in 1..i : j \in 1..(i + 1)
        OBVIOUS
      <4>4. QED
        BY <2>3, <4>1, <4>2, <4>3 DEF MergedFrom
    <3>2. CASE results[i + 1].ok
      <4>1. merge[i + 1].attrs = MergeResource(merge[i].attrs, results[i + 1].attrs, FALSE)
        BY <2>2, <3>2 DEF next, Success
      <4>2. QED
        BY <2>1, <2>3, <3>2, <4>1, EarlierResultWins
    <3>3. QED
      BY <3>1, <3>2
  <2>6. QED
    BY <2>1, <2>4, <2>5
<1> HIDE DEF D
<1>12. n \in D
  <2>1. 0..n \subseteq D
    BY <1>10, <1>11, UpTo
  <2>2. QED
    BY <2>1
<1>13. merge[n] \in S /\ MergedFrom(results, n, merge[n])
  BY <1>12 DEF D
<1> HIDE DEF all
<1> HIDE DEF A
<1>19. merge[n].ok \in BOOLEAN /\ DOMAIN merge[n] = {"ok", "attrs", "url"}
  BY <1>13 DEF S
<1>14. Merged(results).attrs = merge[n].attrs /\ Merged(results).ok = (merge[n].ok /\ all)
  BY <1>1, <1>19
<1>15. MergedFrom(results, n, Merged(results))
  BY <1>13, <1>14 DEF MergedFrom
<1>16. Merged(results) # Absent
  <2>1. "ok" \in DOMAIN Merged(results)
    BY <1>1, <1>19
  <2>2. "ok" \notin DOMAIN Absent
    BY DEF Absent
  <2>3. QED
    BY <2>1, <2>2
<1>17. Merged(results).ok => \A i \in 1..n : results[i].ok
  BY <1>14 DEF all
<1>18. QED
  BY <1>15, <1>16, <1>17

\* A snapshot has what some detector always finds.
Complete(s) == s # Absent /\ \A k \in Given : k \in DOMAIN s.attrs /\ FirstFound(k, s.attrs[k])

\* One that takes no other's place unless it is as complete: refresh keeps it when a detector
\* fails, unless it is empty.
GoodSnapshot(s) == Complete(s) /\ (s.ok \/ Given = {})

\* A merge of results that are all successes is complete.
LEMMA MergedIsComplete ==
  ASSUME NEW results, results = [i \in DOMAIN Detectors |-> results[i]],
         \A i \in DOMAIN Detectors : IsResult(i, results[i])
  PROVE  /\ Merged(results) # Absent
         /\ Merged(results).ok => Complete(Merged(results))
<1>1. PICK n \in Nat : DOMAIN Detectors = 1..n
  BY DetectionAssumption
<1>2. DOMAIN results = 1..n
  BY <1>1
<1>3. Len(results) = n
  BY <1>1, <1>2
<1> DEFINE m == Merged(results)
<1>4. /\ MergedFrom(results, n, m) /\ m # Absent
      /\ m.ok => \A i \in 1..n : results[i].ok
  BY <1>2, <1>3, MergeIsInOrder
<1> HIDE DEF m
<1>5. ASSUME m.ok PROVE Complete(m)
  <2>1. \A i \in 1..n : results[i].ok
    BY <1>4, <1>5
  <2>2. ASSUME NEW i \in 1..n PROVE results[i] \in Found(i)
    <3>1. IsResult(i, results[i])
      BY <1>1
    <3>2. results[i] # Failed
      <4>1. ~Failed.ok
        BY DEF Failed
      <4>2. QED
        BY <2>1, <4>1
    <3>3. QED
      BY <3>1, <3>2 DEF IsResult
  <2>3. ASSUME NEW k \in Given PROVE k \in DOMAIN m.attrs
    <3>1. PICK i \in 1..n : Gives(i, k)
      BY <1>1 DEF Given
    <3>2. k \in DOMAIN results[i].attrs
      BY <2>2, <3>1 DEF Gives
    <3>3. QED
      BY <1>4, <2>1, <3>2 DEF MergedFrom
  <2>4. ASSUME NEW k \in DOMAIN m.attrs PROVE FirstFound(k, m.attrs[k])
    <3>1. PICK i \in 1..n :
            /\ results[i].ok /\ k \in DOMAIN results[i].attrs /\ m.attrs[k] = results[i].attrs[k]
            /\ \A j \in 1..(i - 1) : results[j].ok => k \notin DOMAIN results[j].attrs
      BY <1>4 DEF MergedFrom
    <3>2. results[i] \in Found(i)
      BY <2>2
    <3>3. ASSUME NEW j \in 1..(i - 1) PROVE ~Gives(j, k)
      <4>1. j \in 1..n
        OBVIOUS
      <4>2. results[j] \in Found(j) /\ k \notin DOMAIN results[j].attrs
        BY <2>1, <2>2, <3>1, <4>1
      <4>3. QED
        BY <4>2 DEF Gives
    <3>4. QED
      BY <1>1, <3>1, <3>2, <3>3 DEF FirstFound
  <2>5. QED
    BY <1>4, <2>3, <2>4 DEF Complete
<1>6. QED
  BY <1>4, <1>5 DEF m

Calls == {"start", "loop"}

Detecting(c) ==
  /\ c.at = "detect" /\ c = [at |-> c.at, done |-> c.done, results |-> c.results]
  /\ c.results = [i \in DOMAIN Detectors |-> c.results[i]]
  /\ \A i \in DOMAIN Detectors : c.results[i] \in {Pending, Retrying} \/ IsResult(i, c.results[i])

HasLoaded(c) ==
  /\ c.at = "loaded" /\ c = [at |-> c.at, result |-> c.result, previous |-> c.previous]
  /\ c.result # Absent /\ (c.result.ok => Complete(c.result))

HasReturned(c) == c.at = "returned" /\ c = [at |-> c.at, ok |-> c.ok]

\* A call of refresh is in one of its states, and what it got from a detector is a result of it;
\* a merge without failures is complete.
DetTypes ==
  /\ refresh = [r \in Calls |-> refresh[r]]
  /\ \A r \in Calls : LET c == refresh[r] IN c = Idle \/ Detecting(c) \/ HasLoaded(c) \/ HasReturned(c)
  /\ refresher \in {"off", "wait", "refresh", "ended"}
  /\ phase = [at |-> phase.at, proc |-> phase.proc, ran |-> phase.ran]
  /\ processed = [p \in 1..Procs |-> processed[p]]

\* The goroutine is there when batches come, and only it calls refresh for itself.
LoopIsOn ==
  /\ phase.ran => refresher # "off"
  /\ refresher # "refresh" => refresh["loop"] = Idle

\* Without failures a snapshot is complete.  From the first Start that succeeds on there is always
\* a complete one: a refresh that fails and does not keep what it has loaded finds that nothing is
\* always given.
SnapshotStaysGood ==
  /\ IF detectedResource = Absent THEN TRUE ELSE detectedResource.ok => Complete(detectedResource)
  /\ refresher # "off" => GoodSnapshot(detectedResource)
  /\ refresh["start"].at = "returned" => (refresh["start"].ok => GoodSnapshot(detectedResource))
  /\ \A r \in Calls : refresh[r].at = "loaded" =>
       IF refresher = "off" THEN refresh[r].previous = detectedResource ELSE GoodSnapshot(refresh[r].previous)

DetInv == DetTypes /\ LoopIsOn /\ SnapshotStaysGood /\ EveryBatchIsComplete

LEMMA DetectionStarts == DetInit => DetInv
<1> SUFFICES ASSUME DetInit PROVE DetInv
  OBVIOUS
<1>1. \A r \in Calls : refresh[r] = Idle /\ refresh[r].at = "idle"
  BY DEF DetInit, Calls, Idle
<1>2. DetTypes
  BY <1>1 DEF DetInit, DetTypes, Calls
<1>3. LoopIsOn
  BY DEF DetInit, LoopIsOn
<1>4. SnapshotStaysGood
  BY <1>1 DEF DetInit, SnapshotStaysGood, Calls
<1>5. EveryBatchIsComplete
  BY DEF DetInit, EveryBatchIsComplete
<1>6. QED
  BY <1>2, <1>3, <1>4, <1>5 DEF DetInv

\* What no one but the other calls and the batches see: one call goes on detecting.
LEMMA DetectingStep ==
  ASSUME DetInv, NEW r \in Calls, NEW c, Detecting(c), refresh' = [refresh EXCEPT ![r] = c],
         UNCHANGED <<phase, detectedResource, stopping, processed>>,
         refresher' = refresher \/ (refresher # "off" /\ refresher' = "refresh"), r = "loop" => refresher' = "refresh"
  PROVE  DetInv'
<1>1. refresh' = [q \in Calls |-> IF q = r THEN c ELSE refresh[q]]
  BY DEF DetInv, DetTypes
<1>2. c.at = "detect"
  BY DEF Detecting
<1>3. /\ refresh'[r] = c
      /\ \A q \in Calls : q # r => refresh'[q] = refresh[q]
  BY <1>1
<1>4. refresher' = "off" <=> refresher = "off"
  OBVIOUS
<1>5. DetTypes'
  <2>1. refresh' = [q \in Calls |-> refresh'[q]]
    BY <1>1
  <2>2. ASSUME NEW q \in Calls
        PROVE  refresh'[q] = Idle \/ Detecting(refresh'[q]) \/ HasLoaded(refresh'[q]) \/ HasReturned(refresh'[q])
    BY <1>3 DEF DetInv, DetTypes
  <2>3. QED
    BY <2>1, <2>2 DEF DetInv, DetTypes
<1>6. LoopIsOn'
  <2>1. "loop" \in Calls
    BY DEF Calls
  <2>2. QED
    BY <1>3, <1>4, <2>1 DEF DetInv, LoopIsOn
<1>7. SnapshotStaysGood'
  <2>1. "start" \in Calls
    BY DEF Calls
  <2>2. \A q \in Calls : refresh'[q].at \in {"loaded", "returned"} => refresh'[q] = refresh[q]
    BY <1>2, <1>3
  <2>3. QED
    BY <1>4, <2>1, <2>2 DEF DetInv, SnapshotStaysGood
<1>8. EveryBatchIsComplete'
  BY DEF DetInv, EveryBatchIsComplete
<1>9. QED
  BY <1>5, <1>6, <1>7, <1>8 DEF DetInv

\* A call that is not idle belongs to a Start, or to the goroutine that is refreshing.
LEMMA LoopRefreshes ==
  ASSUME DetInv, NEW r \in Calls, refresh[r].at # "idle"
  PROVE  r = "loop" => refresher = "refresh"
BY DEF DetInv, LoopIsOn, Idle

LEMMA CallDetects ==
  ASSUME DetInv, NEW r \in Calls, refresh[r].at = "detect"
  PROVE  Detecting(refresh[r])
BY DEF DetInv, DetTypes, Idle, HasLoaded, HasReturned

LEMMA CallHasLoaded ==
  ASSUME DetInv, NEW r \in Calls, refresh[r].at = "loaded"
  PROVE  HasLoaded(refresh[r])
<1> DEFINE c == refresh[r]
<1>1. c = Idle \/ Detecting(c) \/ HasLoaded(c) \/ HasReturned(c)
  BY DEF DetInv, DetTypes
<1>2. c # Idle /\ ~Detecting(c) /\ ~HasReturned(c)
  BY DEF Idle, Detecting, HasReturned
<1>3. QED
  BY <1>1, <1>2

\* A new call waits for every detector.
LEMMA BeginStep ==
  ASSUME DetInv, Start \/ LoopTick
  PROVE  DetInv'
<1> DEFINE c == [at |-> "detect", done |-> FALSE, results |-> [i \in DOMAIN Detectors |-> Pending]]
<1>1. Detecting(c)
  <2>1. c.results = [i \in DOMAIN Detectors |-> Pending] /\ c.done = FALSE /\ c.at = "detect"
    OBVIOUS
  <2>2. c = [at |-> c.at, done |-> c.done, results |-> c.results]
    OBVIOUS
  <2> HIDE DEF c
  <2>3. QED
    BY <2>1, <2>2 DEF Detecting
<1>2. CASE Start
  <2>1. "start" \in Calls
    BY DEF Calls
  <2>2. refresh' = [refresh EXCEPT !["start"] = c] /\ UNCHANGED <<phase, detectedResource, refresher, stopping, processed>>
    BY <1>2 DEF Start, Begin
  <2> HIDE DEF c
  <2>3. QED
    BY <1>1, <2>1, <2>2, DetectingStep
<1>3. CASE LoopTick
  <2>1. "loop" \in Calls
    BY DEF Calls
  <2>2. /\ refresh' = [refresh EXCEPT !["loop"] = c] /\ UNCHANGED <<phase, detectedResource, stopping, processed>>
        /\ refresher # "off" /\ refresher' = "refresh"
    BY <1>3 DEF LoopTick, Begin
  <2> HIDE DEF c
  <2>3. QED
    BY <1>1, <2>1, <2>2, DetectingStep
<1>4. QED
  BY <1>2, <1>3

\* One detector's goroutine has got a result, or goes on trying.
LEMMA ResultStep ==
  ASSUME DetInv, NEW r \in Calls, refresh[r].at = "detect", NEW i \in DOMAIN Detectors, NEW v,
         v \in {Pending, Retrying} \/ IsResult(i, v),
         refresh' = [refresh EXCEPT ![r].results[i] = v],
         UNCHANGED <<phase, detectedResource, refresher, stopping, processed>>
  PROVE  DetInv'
<1>1. Detecting(refresh[r])
  BY CallDetects
<1> DEFINE o == refresh[r].results
           n == [o EXCEPT ![i] = v]
           c == [at |-> "detect", done |-> refresh[r].done, results |-> n]
<1>2. refresh[r] = [at |-> "detect", done |-> refresh[r].done, results |-> o]
  BY <1>1 DEF Detecting
<1>3. n = [j \in DOMAIN Detectors |-> IF j = i THEN v ELSE o[j]]
  BY <1>1 DEF Detecting
<1>4. \A j \in DOMAIN Detectors : n[j] \in {Pending, Retrying} \/ IsResult(j, n[j])
  BY <1>1, <1>3 DEF Detecting
<1>5. n = [j \in DOMAIN Detectors |-> n[j]]
  BY <1>3
<1>6. refresh' = [refresh EXCEPT ![r] = c]
  <2>1. [refresh[r] EXCEPT !.results = n] = c
    <3> HIDE DEF n
    <3>1. QED
      BY <1>2
  <2>2. refresh' = [refresh EXCEPT ![r] = [refresh[r] EXCEPT !.results = n]]
    OBVIOUS
  <2> HIDE DEF c
  <2>3. QED
    BY <2>1, <2>2
<1>7. Detecting(c)
  <2> HIDE DEF n
  <2>1. c.at = "detect" /\ c.results = n /\ c = [at |-> c.at, done |-> c.done, results |-> c.results]
    OBVIOUS
  <2> HIDE DEF c
  <2>2. QED
    BY <1>4, <1>5, <2>1 DEF Detecting
<1>8. r = "loop" => refresher = "refresh"
  BY LoopRefreshes
<1> HIDE DEF c
<1>9. QED
  BY <1>6, <1>7, <1>8, DetectingStep

LEMMA DetectorStep ==
  ASSUME DetInv, NEW r \in Calls, NEW i \in DOMAIN Detectors, Attempt(r, i) \/ RetryTimer(r, i) \/ GiveUp(r, i)
  PROVE  DetInv'
<1>1. CASE Attempt(r, i)
  <2>1. PICK failing \in Failures :
          refresh' = [refresh EXCEPT ![r].results[i] = IF Detect(Detectors[i], failing).ok
                                                       THEN Detect(Detectors[i], failing) ELSE Retrying]
    BY <1>1 DEF Attempt
  <2> DEFINE x == Detect(Detectors[i], failing)
             v == IF x.ok THEN x ELSE Retrying
  <2>2. v = Retrying \/ IsResult(i, v)
    <3>1. x \in {Detect(Detectors[i], f) : f \in Failures}
      OBVIOUS
    <3> HIDE DEF x
    <3>2. QED
      BY <3>1 DEF IsResult, Found
  <2>3. refresh' = [refresh EXCEPT ![r].results[i] = v]
    BY <2>1
  <2>4. refresh[r].at = "detect" /\ UNCHANGED <<phase, detectedResource, refresher, stopping, processed>>
    BY <1>1 DEF Attempt
  <2> HIDE DEF v
  <2>5. QED
    BY <2>2, <2>3, <2>4, ResultStep
<1>2. CASE RetryTimer(r, i)
  BY <1>2, ResultStep DEF RetryTimer
<1>3. CASE GiveUp(r, i)
  <2>1. IsResult(i, Failed)
    BY DEF IsResult
  <2>2. QED
    BY <1>3, <2>1, ResultStep DEF GiveUp
<1>4. QED
  BY <1>1, <1>2, <1>3

LEMMA TimeoutStep ==
  ASSUME DetInv, NEW r \in Calls, Timeout(r)
  PROVE  DetInv'
<1>1. Detecting(refresh[r])
  BY CallDetects DEF Timeout
<1> DEFINE yes == TRUE
           c   == [refresh[r] EXCEPT !.done = yes]
<1>2. refresh' = [refresh EXCEPT ![r] = c] /\ UNCHANGED <<phase, detectedResource, refresher, stopping, processed>>
  BY DEF Timeout
<1> HIDE DEF yes
<1>3. c = [at |-> "detect", done |-> yes, results |-> refresh[r].results]
  BY <1>1 DEF Detecting
<1>4. r = "loop" => refresher = "refresh"
  BY LoopRefreshes DEF Timeout
<1> HIDE DEF c
<1>5. c.at = "detect" /\ c.results = refresh[r].results /\ c = [at |-> c.at, done |-> c.done, results |-> c.results]
  BY <1>3
<1>6. Detecting(c)
  BY <1>1, <1>5 DEF Detecting
<1>7. QED
  BY <1>2, <1>4, <1>6, DetectingStep

\* All results are there: they are merged, and the previous snapshot is loaded.
LEMMA LoadStep ==
  ASSUME DetInv, NEW r \in Calls, LoadPrevious(r)
  PROVE  DetInv'
<1> DEFINE x == refresh[r].results
           m == Merged(x)
           c == [at |-> "loaded", result |-> m, previous |-> detectedResource]
<1>1. Detecting(refresh[r])
  BY CallDetects DEF LoadPrevious
<1>2. x = [i \in DOMAIN Detectors |-> x[i]]
  BY <1>1 DEF Detecting
<1>3. \A i \in DOMAIN Detectors : IsResult(i, x[i])
  BY <1>1 DEF Detecting, LoadPrevious
<1>4. refresh' = [refresh EXCEPT ![r] = c] /\ UNCHANGED <<phase, detectedResource, refresher, stopping, processed>>
  BY DEF LoadPrevious
<1> HIDE DEF x
<1>5. m # Absent /\ (m.ok => Complete(m))
  BY <1>2, <1>3, MergedIsComplete
<1> HIDE DEF m
<1>6. c.at = "loaded" /\ c.previous = detectedResource /\ HasLoaded(c)
  BY <1>5 DEF HasLoaded
<1> HIDE DEF c
<1>7. refresh' = [q \in Calls |-> IF q = r THEN c ELSE refresh[q]]
  BY <1>4 DEF DetInv, DetTypes
<1>8. /\ refresh'[r] = c
      /\ \A q \in Calls : q # r => refresh'[q] = refresh[q]
  BY <1>7
<1>9. DetTypes'
  <2>1. refresh' = [q \in Calls |-> refresh'[q]]
    BY <1>7
  <2>2. ASSUME NEW q \in Calls
        PROVE  refresh'[q] = Idle \/ Detecting(refresh'[q]) \/ HasLoaded(refresh'[q]) \/ HasReturned(refresh'[q])
    BY <1>6, <1>8 DEF DetInv, DetTypes
  <2>3. QED
    BY <1>4, <2>1, <2>2 DEF DetInv, DetTypes
<1>10. LoopIsOn'
  <2>1. "loop" \in Calls /\ (r = "loop" => refresher = "refresh")
    BY LoopRefreshes DEF Calls, LoadPrevious
  <2>2. QED
    BY <1>4, <1>8, <2>1 DEF DetInv, LoopIsOn
<1>11. SnapshotStaysGood'
  <2>1. "start" \in Calls
    BY DEF Calls
  <2>2. \A q \in Calls : refresh'[q] = refresh[q] \/ (refresh'[q].at = "loaded" /\ refresh'[q].previous = detectedResource)
    BY <1>6, <1>8
  <2>3. QED
    BY <1>4, <2>1, <2>2 DEF DetInv, SnapshotStaysGood
<1>12. EveryBatchIsComplete'
  BY <1>4 DEF DetInv, EveryBatchIsComplete
<1>13. QED
  BY <1>9, <1>10, <1>11, <1>12 DEF DetInv

\* The call keeps what it has loaded, or stores what it has merged; either is as good.
LEMMA StoreStep ==
  ASSUME DetInv, NEW r \in Calls, StoreResult(r)
  PROVE  DetInv'
<1> DEFINE c == refresh[r]
           d == [at |-> "returned", ok |-> c.result.ok \/ KeepsPrevious(c)]
<1>1. HasLoaded(c) /\ c.at = "loaded"
  BY CallHasLoaded DEF StoreResult
<1>2. /\ detectedResource' = IF KeepsPrevious(c) THEN detectedResource ELSE c.result
      /\ refresh' = [refresh EXCEPT ![r] = d]
      /\ UNCHANGED <<phase, refresher, stopping, processed>>
  BY DEF StoreResult
<1>3. d.at = "returned" /\ HasReturned(d) /\ d.ok = (c.result.ok \/ KeepsPrevious(c))
  BY DEF HasReturned
<1> HIDE DEF d
<1>4. refresh' = [q \in Calls |-> IF q = r THEN d ELSE refresh[q]]
  BY <1>2 DEF DetInv, DetTypes
<1>5. /\ refresh'[r] = d
      /\ \A q \in Calls : q # r => refresh'[q] = refresh[q]
  BY <1>4
<1>6. DetTypes'
  <2>1. refresh' = [q \in Calls |-> refresh'[q]]
    BY <1>4
  <2>2. ASSUME NEW q \in Calls
        PROVE  refresh'[q] = Idle \/ Detecting(refresh'[q]) \/ HasLoaded(refresh'[q]) \/ HasReturned(refresh'[q])
    BY <1>3, <1>5 DEF DetInv, DetTypes
  <2>3. QED
    BY <1>2, <2>1, <2>2 DEF DetInv, DetTypes
<1>7. r = "loop" => refresher = "refresh"
  BY <1>1, LoopRefreshes
<1>8. LoopIsOn'
  <2>1. "loop" \in Calls
    BY DEF Calls
  <2>2. QED
    BY <1>2, <1>5, <1>7, <2>1 DEF DetInv, LoopIsOn
<1>9. c.result # Absent /\ (c.result.ok => Complete(c.result))
  BY <1>1 DEF HasLoaded
<1>10. ASSUME refresher # "off" \/ d.ok PROVE GoodSnapshot(detectedResource')
  <2>1. CASE c.result.ok
    <3>1. ~KeepsPrevious(c)
      BY <2>1 DEF KeepsPrevious
    <3>2. QED
      BY <1>2, <1>9, <2>1, <3>1 DEF GoodSnapshot
  <2>2. CASE ~c.result.ok /\ KeepsPrevious(c)
    <3>1. CASE refresher # "off"
      BY <1>2, <2>2, <3>1 DEF DetInv, SnapshotStaysGood
    <3>2. CASE refresher = "off"
      <4>1. c.previous = detectedResource
        BY <1>1, <3>2 DEF DetInv, SnapshotStaysGood
      <4>2. detectedResource # Absent /\ detectedResource.ok
        BY <2>2, <4>1 DEF KeepsPrevious, IsGood
      <4>3. QED
        BY <1>2, <2>2, <4>2 DEF DetInv, SnapshotStaysGood, GoodSnapshot
    <3>3. QED
      BY <3>1, <3>2
  <2>3. CASE ~c.result.ok /\ ~KeepsPrevious(c)
    <3>1. refresher # "off"
      BY <1>3, <1>10, <2>3
    <3>2. GoodSnapshot(c.previous)
      BY <1>1, <3>1 DEF DetInv, SnapshotStaysGood
    <3>3. Given = {}
      <4>1. CASE c.previous.ok
        <5>1. DOMAIN c.previous.attrs = {}
          BY <2>3, <3>2, <4>1 DEF KeepsPrevious, IsGood, GoodSnapshot, Complete
        <5>2. QED
          BY <3>2, <5>1 DEF GoodSnapshot, Complete
      <4>2. CASE ~c.previous.ok
        BY <3>2, <4>2 DEF GoodSnapshot
      <4>3. QED
        BY <4>1, <4>2
    <3>4. QED
      BY <1>2, <1>9, <2>3, <3>3 DEF GoodSnapshot, Complete
  <2>4. QED
    BY <2>1, <2>2, <2>3
<1>11. SnapshotStaysGood'
  <2>1. IF detectedResource' = Absent THEN TRUE ELSE detectedResource'.ok => Complete(detectedResource')
    BY <1>2, <1>9 DEF DetInv, SnapshotStaysGood
  <2>2. refresher' # "off" => GoodSnapshot(detectedResource')
    BY <1>2, <1>10
  <2>3. refresh'["start"].at = "returned" => (refresh'["start"].ok => GoodSnapshot(detectedResource'))
    <3>1. "start" \in Calls
      BY DEF Calls
    <3>2. CASE r = "start"
      BY <1>5, <1>10, <3>2
    <3>3. CASE r # "start"
      <4>1. refresher # "off"
        BY <1>7, <3>3 DEF Calls
      <4>2. QED
        BY <1>10, <4>1
    <3>4. QED
      BY <3>2, <3>3
  <2>4. ASSUME NEW q \in Calls, refresh'[q].at = "loaded"
        PROVE  IF refresher' = "off" THEN refresh'[q].previous = detectedResource' ELSE GoodSnapshot(refresh'[q].previous)
    <3>1. q # r /\ refresh'[q] = refresh[q]
      BY <1>3, <1>5, <2>4
    <3>2. refresher # "off"
      <4>1. q = "loop" \/ r = "loop"
        BY <3>1 DEF Calls
      <4>2. q = "loop" => refresher = "refresh"
        BY <2>4, <3>1, LoopRefreshes
      <4>3. QED
        BY <1>7, <4>1, <4>2
    <3>3. QED
      BY <1>2, <2>4, <3>1, <3>2 DEF DetInv, SnapshotStaysGood
  <2>5. QED
    BY <2>1, <2>2, <2>3, <2>4 DEF SnapshotStaysGood
<1>12. EveryBatchIsComplete'
  BY <1>2 DEF DetInv, EveryBatchIsComplete
<1>13. QED
  BY <1>6, <1>8, <1>11, <1>12 DEF DetInv

\* A call is over, and its caller goes on.
LEMMA ReturnStep ==
  ASSUME DetInv, NEW r \in Calls, refresh' = [refresh EXCEPT ![r] = Idle],
         UNCHANGED <<detectedResource, stopping, processed>>,
         phase' = [at |-> phase'.at, proc |-> phase'.proc, ran |-> phase'.ran], phase'.ran => refresher' # "off",
         \/ refresher' = refresher /\ r # "loop"
         \/ r = "loop" /\ refresher = "refresh" /\ refresher' = "wait"
         \/ r = "start" /\ refresher = "off" /\ refresher' = "wait" /\ GoodSnapshot(detectedResource)
  PROVE  DetInv'
<1>1. refresh' = [q \in Calls |-> IF q = r THEN Idle ELSE refresh[q]]
  BY DEF DetInv, DetTypes
<1>2. /\ refresh'[r] = Idle
      /\ \A q \in Calls : q # r => refresh'[q] = refresh[q]
  BY <1>1
<1>3. DetTypes'
  <2>1. refresh' = [q \in Calls |-> refresh'[q]]
    BY <1>1
  <2>2. ASSUME NEW q \in Calls
        PROVE  refresh'[q] = Idle \/ Detecting(refresh'[q]) \/ HasLoaded(refresh'[q]) \/ HasReturned(refresh'[q])
    BY <1>2 DEF DetInv, DetTypes
  <2>3. refresher' \in {"off", "wait", "refresh", "ended"}
    BY DEF DetInv, DetTypes
  <2>4. QED
    BY <2>1, <2>2, <2>3 DEF DetInv, DetTypes
<1>4. "loop" \in Calls /\ "start" \in Calls
  BY DEF Calls
<1>5. LoopIsOn'
  BY <1>2, <1>4 DEF DetInv, LoopIsOn
<1>6. SnapshotStaysGood'
  <2>1. IF detectedResource' = Absent THEN TRUE ELSE detectedResource'.ok => Complete(detectedResource')
    BY DEF DetInv, SnapshotStaysGood
  <2>2. refresher' # "off" => GoodSnapshot(detectedResource')
    BY DEF DetInv, SnapshotStaysGood
  <2>3. \A q \in Calls : refresh'[q].at # "idle" => refresh'[q] = refresh[q]
    BY <1>2 DEF Idle
  <2>4. refresh'["start"].at = "returned" => (refresh'["start"].ok => GoodSnapshot(detectedResource'))
    BY <1>4, <2>3 DEF DetInv, SnapshotStaysGood
  <2>5. ASSUME NEW q \in Calls, refresh'[q].at = "loaded"
        PROVE  IF refresher' = "off" THEN refresh'[q].previous = detectedResource' ELSE GoodSnapshot(refresh'[q].previous)
    <3>1. q # r /\ refresh'[q] = refresh[q]
      BY <1>2, <2>3, <2>5 DEF Idle
    <3>2. CASE refresher' = refresher
      BY <2>5, <3>1, <3>2 DEF DetInv, SnapshotStaysGood
    <3>3. CASE refresher' # refresher
      <4>1. q = "loop" => refresher = "refresh"
        BY <2>5, <3>1, LoopRefreshes
      <4>2. refresher # "off" /\ refresher' # "off"
        BY <3>1, <3>3, <4>1 DEF Calls
      <4>3. QED
        BY <2>5, <3>1, <4>2 DEF DetInv, SnapshotStaysGood
    <3>4. QED
      BY <3>2, <3>3
  <2>6. QED
    BY <2>1, <2>2, <2>4, <2>5 DEF SnapshotStaysGood
<1>7. EveryBatchIsComplete'
  BY DEF DetInv, EveryBatchIsComplete
<1>8. QED
  BY <1>3, <1>5, <1>6, <1>7 DEF DetInv

LEMMA StartReturnsStep ==
  ASSUME DetInv, StartReturns
  PROVE  DetInv'
<1>1. "start" \in Calls
  BY DEF Calls
<1>2. phase' = [at |-> phase'.at, proc |-> phase'.proc, ran |-> phase'.ran]
  BY DEF StartReturns, DetInv, DetTypes
<1>3. phase'.ran => refresher' # "off"
  <2>1. CASE ~refresh["start"].ok
    BY <2>1 DEF StartReturns
  <2>2. CASE refresh["start"].ok
    BY <2>2 DEF StartReturns
  <2>3. QED
    BY <2>1, <2>2
<1>4. refresher' = refresher \/ (refresher = "off" /\ refresher' = "wait" /\ GoodSnapshot(detectedResource))
  BY DEF StartReturns, DetInv, SnapshotStaysGood
<1>5. refresh' = [refresh EXCEPT !["start"] = Idle] /\ UNCHANGED <<detectedResource, stopping, processed>>
  BY DEF StartReturns
<1>6. QED
  BY <1>1, <1>2, <1>3, <1>4, <1>5, ReturnStep

LEMMA LoopRefreshedStep ==
  ASSUME DetInv, LoopRefreshed
  PROVE  DetInv'
<1>1. "loop" \in Calls
  BY DEF Calls
<1>2. refresher = "refresh"
  BY <1>1, LoopRefreshes DEF LoopRefreshed
<1>3. phase' = [at |-> phase'.at, proc |-> phase'.proc, ran |-> phase'.ran]
  BY DEF LoopRefreshed, DetInv, DetTypes
<1>4. QED
  BY <1>1, <1>2, <1>3, ReturnStep DEF LoopRefreshed

\* The collector stops, or the goroutine ends.
LEMMA StopStep ==
  ASSUME DetInv, Interrupt \/ StopRefreshing \/ ShutdownReturns \/ LoopEnds
  PROVE  DetInv'
<1>1. UNCHANGED <<refresh, detectedResource, processed>>
  BY DEF Interrupt, StopRefreshing, ShutdownReturns, LoopEnds
<1>2. /\ phase' = [at |-> phase'.at, proc |-> phase'.proc, ran |-> phase'.ran]
      /\ phase'.ran = phase.ran
  <2>1. phase = [at |-> phase.at, proc |-> phase.proc, ran |-> phase.ran]
    BY DEF DetInv, DetTypes
  <2>2. CASE Interrupt
    BY <2>1, <2>2 DEF Interrupt
  <2>3. CASE StopRefreshing
    BY <2>1, <2>3 DEF StopRefreshing
  <2>4. CASE ShutdownReturns
    BY <2>1, <2>4 DEF ShutdownReturns
  <2>5. CASE LoopEnds
    BY <2>1, <2>5 DEF LoopEnds
  <2>6. QED
    BY <2>2, <2>3, <2>4, <2>5
<1>3. refresher' = refresher \/ (refresher = "wait" /\ refresher' = "ended")
  BY DEF Interrupt, StopRefreshing, ShutdownReturns, LoopEnds
<1>4. DetTypes'
  BY <1>1, <1>2, <1>3 DEF DetInv, DetTypes
<1>5. LoopIsOn'
  BY <1>1, <1>2, <1>3 DEF DetInv, LoopIsOn
<1>6. SnapshotStaysGood'
  <2>1. refresher' = "off" <=> refresher = "off"
    BY <1>3
  <2>2. QED
    BY <1>1, <2>1 DEF DetInv, SnapshotStaysGood
<1>7. EveryBatchIsComplete'
  BY <1>1 DEF DetInv, EveryBatchIsComplete
<1>8. QED
  BY <1>4, <1>5, <1>6, <1>7 DEF DetInv

\* A batch takes the snapshot, which is complete by the time batches come.
LEMMA BatchStep ==
  ASSUME DetInv, NEW p \in 1..Procs, ProcessBatch(p)
  PROVE  DetInv'
<1>1. UNCHANGED <<phase, refresh, detectedResource, refresher, stopping>>
  BY DEF ProcessBatch
<1>2. Complete(detectedResource)
  <2>1. refresher # "off"
    BY DEF ProcessBatch, DetInv, LoopIsOn
  <2>2. QED
    BY <2>1 DEF DetInv, SnapshotStaysGood, GoodSnapshot
<1> DEFINE m == MergeResource(Batch, detectedResource.attrs, Override)
           x == Success(m, MergeSchemaURL("", detectedResource.url))
<1>3. processed' = [processed EXCEPT ![p] = x]
  BY <1>2 DEF ProcessBatch, Complete
<1>4. x.attrs = m
  BY DEF Success
<1> HIDE DEF x
<1>5. ASSUME NEW k \in Given
      PROVE  /\ k \in DOMAIN m
             /\ IF k \in DOMAIN Batch /\ ~Override THEN m[k] = Batch[k] ELSE FirstFound(k, m[k])
  <2>1. k \in DOMAIN detectedResource.attrs /\ FirstFound(k, detectedResource.attrs[k])
    BY <1>2 DEF Complete
  <2>2. CASE Override
    <3>1. k \in DOMAIN m /\ m[k] = detectedResource.attrs[k]
      BY <2>1, <2>2 DEF MergeResource, Over
    <3>2. QED
      BY <2>1, <2>2, <3>1
  <2>3. CASE ~Override
    <3>1. k \in DOMAIN m /\ m[k] = IF k \in DOMAIN Batch THEN Batch[k] ELSE detectedResource.attrs[k]
      BY <2>1, <2>3 DEF MergeResource, Over
    <3>2. QED
      BY <2>1, <2>3, <3>1
  <2>4. QED
    BY <2>2, <2>3
<1> HIDE DEF m
<1>6. processed' = [q \in 1..Procs |-> IF q = p THEN x ELSE processed[q]]
  BY <1>3 DEF DetInv, DetTypes
<1>7. DetTypes'
  <2>1. processed' = [q \in 1..Procs |-> processed'[q]]
    BY <1>6
  <2>2. QED
    BY <1>1, <2>1 DEF DetInv, DetTypes
<1>8. LoopIsOn' /\ SnapshotStaysGood'
  BY <1>1 DEF DetInv, LoopIsOn, SnapshotStaysGood
<1>9. EveryBatchIsComplete'
  <2> SUFFICES ASSUME NEW q \in 1..Procs, processed'[q] # Absent, NEW k \in Given
               PROVE  /\ k \in DOMAIN processed'[q].attrs
                      /\ IF k \in DOMAIN Batch /\ ~Override THEN processed'[q].attrs[k] = Batch[k]
                         ELSE FirstFound(k, processed'[q].attrs[k])
    BY DEF EveryBatchIsComplete
  <2>1. CASE q = p
    BY <1>4, <1>5, <1>6, <2>1
  <2>2. CASE q # p
    <3>1. processed'[q] = processed[q]
      BY <1>6, <2>2
    <3>2. QED
      BY <3>1 DEF DetInv, EveryBatchIsComplete
  <2>3. QED
    BY <2>1, <2>2
<1>10. QED
  BY <1>7, <1>8, <1>9 DEF DetInv

LEMMA DetectionGoesOn ==
  ASSUME DetInv, [DetNext]_detVars
  PROVE  DetInv'
<1>1. CASE Start \/ LoopTick
  BY <1>1, BeginStep
<1>2. CASE StartReturns
  BY <1>2, StartReturnsStep
<1>3. CASE LoopRefreshed
  BY <1>3, LoopRefreshedStep
<1>4. CASE Interrupt \/ StopRefreshing \/ ShutdownReturns \/ LoopEnds
  BY <1>4, StopStep
<1>5. ASSUME NEW r \in Calls,
             \/ Timeout(r) \/ LoadPrevious(r) \/ StoreResult(r)
             \/ \E i \in DOMAIN Detectors : Attempt(r, i) \/ RetryTimer(r, i) \/ GiveUp(r, i)
      PROVE  DetInv'
  BY <1>5, TimeoutStep, LoadStep, StoreStep, DetectorStep
<1>6. ASSUME NEW p \in 1..Procs, ProcessBatch(p) PROVE DetInv'
  BY <1>6, BatchStep
<1>7. CASE UNCHANGED detVars
  BY <1>7 DEF detVars, DetInv, DetTypes, LoopIsOn, SnapshotStaysGood, EveryBatchIsComplete
<1>8. QED
  BY <1>1, <1>2, <1>3, <1>4, <1>5, <1>6, <1>7 DEF DetNext, Calls

\* The processors of one id always hold what their batches need (provider.go:71-185).
THEOREM DetectionInvariant == DetSpec => []DetInv
<1>1. DetInv /\ [DetNext]_detVars => DetInv'
  BY DetectionGoesOn
<1>2. QED
  BY <1>1, DetectionStarts, PTL DEF DetSpec

\* Every batch gets what some detector always finds, from no detector behind the first that
\* always finds it, whatever detectors are configured, however refreshes overlap, fail half way
\* or are cut off by Shutdown (provider.go:71-83, 148-185).
THEOREM EveryProcessedBatchIsComplete == DetSpec => []EveryBatchIsComplete
<1>1. DetInv => EveryBatchIsComplete
  BY DEF DetInv
<1>2. QED
  BY <1>1, DetectionInvariant, PTL

-----------------------------------------------------------------------------
(* The span metrics: the caches of dimensions                              *)

\* A list without repetitions.
IsList(s) ==
  /\ s = [i \in 1..Len(s) |-> s[i]] /\ Len(s) \in Nat
  /\ \A i, j \in 1..Len(s) : s[i] = s[j] => i = j

\* Get and Add move a key to the back and keep the others.
LEMMA MovedToBack ==
  ASSUME NEW s, IsList(s), NEW k
  PROVE  LET t == MoveToBack(s, k)
         IN IsList(t) /\ ToSet(t) = ToSet(s) \cup {k} /\ Len(t) > 0
<1> DEFINE n == Len(s)
           t == MoveToBack(s, k)
<1>1. n \in Nat /\ DOMAIN s = 1..n /\ s \in Seq(ToSet(s))
  BY DEF IsList, ToSet
<1>2. CASE ~Contains(s, k)
  <2>1. t = Append(s, k)
    BY <1>2 DEF MoveToBack
  <2>2. /\ Len(t) = n + 1 /\ DOMAIN t = 1..(n + 1) /\ t = [i \in 1..Len(t) |-> t[i]]
        /\ t[n + 1] = k /\ \A i \in 1..n : t[i] = s[i]
    <3> DEFINE S == ToSet(s) \cup {k}
    <3>1. s \in Seq(S)
      <4>1. ToSet(s) \subseteq S
        OBVIOUS
      <4> HIDE DEF S
      <4>2. QED
        BY <1>1, <4>1
    <3>2. k \in S
      OBVIOUS
    <3> HIDE DEF S, t
    <3>3. Len(t) = n + 1 /\ DOMAIN t = 1..(n + 1)
      BY <2>1, <3>1, <3>2
    <3>4. t \in Seq(S)
      BY <2>1, <3>1, <3>2
    <3>5. t[n + 1] = k /\ \A i \in 1..n : t[i] = s[i]
      BY <2>1, <3>1, <3>2
    <3>6. t = [i \in 1..Len(t) |-> t[i]]
      BY <3>4
    <3>7. QED
      BY <3>3, <3>5, <3>6
  <2> HIDE DEF t, n
  <2>3. \A i \in 1..n : s[i] # k
    BY <1>2 DEF Contains, n
  <2>4. IsList(t)
    BY <1>1, <2>2, <2>3 DEF IsList, n
  <2>5. ToSet(t) = ToSet(s) \cup {k}
    BY <1>1, <2>2 DEF ToSet
  <2>6. QED
    BY <1>1, <2>2, <2>4, <2>5 DEF t
<1>3. CASE Contains(s, k)
  <2> DEFINE at == CHOOSE i \in DOMAIN s : s[i] = k
  <2>1. at \in 1..n /\ s[at] = k
    BY <1>1, <1>3 DEF Contains
  <2>2. t = [i \in 1..n |-> IF i < at THEN s[i] ELSE IF i < n THEN s[i + 1] ELSE k]
    BY <1>1, <1>3 DEF MoveToBack
  <2> HIDE DEF at, t
  <2>3. Len(t) = n /\ DOMAIN t = 1..n
    BY <1>1, <2>2
  <2> HIDE DEF n
  <2>4. \A i \in 1..n : IF i < at THEN t[i] = s[i] ELSE IF i < n THEN t[i] = s[i + 1] ELSE t[i] = s[at]
    BY <2>1, <2>2
  <2>5. \A i, j \in 1..n : s[i] = s[j] => i = j
    BY DEF IsList, n
  <2>6. ASSUME NEW i \in 1..n, NEW j \in 1..n, t[i] = t[j] PROVE i = j
    <3> DEFINE from(x) == IF x < at THEN x ELSE IF x < n THEN x + 1 ELSE at
    <3>1. from(i) \in 1..n /\ from(j) \in 1..n /\ t[i] = s[from(i)] /\ t[j] = s[from(j)]
      BY <1>1, <2>1, <2>4 DEF n
    <3>2. from(i) = from(j)
      <4> HIDE DEF from
      <4>1. QED
        BY <2>5, <2>6, <3>1
    <3>3. QED
      BY <1>1, <2>1, <3>2 DEF n
  <2>7. IsList(t)
    <3>1. t = [i \in 1..n |-> t[i]]
      BY <2>2
    <3>2. QED
      BY <1>1, <2>3, <2>6, <3>1 DEF IsList, n
  <2>8. ToSet(t) = ToSet(s) \cup {k}
    <3>1. ASSUME NEW i \in 1..n PROVE t[i] \in ToSet(s)
      <4>1. \E j \in 1..n : t[i] = s[j]
        <5>1. CASE i < at
          BY <2>4, <5>1
        <5>2. CASE ~(i < at) /\ i < n
          <6>1. i + 1 \in 1..n /\ t[i] = s[i + 1]
            BY <1>1, <2>4, <5>2 DEF n
          <6>2. QED
            BY <6>1
        <5>3. CASE ~(i < at) /\ ~(i < n)
          BY <2>1, <2>4, <5>3
        <5>4. QED
          BY <5>1, <5>2, <5>3
      <4>2. QED
        BY <1>1, <4>1 DEF ToSet, n
    <3>2. ASSUME NEW i \in 1..n PROVE s[i] \in ToSet(t)
      <4>1. \E j \in 1..n : t[j] = s[i]
        <5>1. CASE i < at
          BY <2>4, <5>1
        <5>2. CASE i > at
          <6>1. i - 1 \in 1..n /\ ~(i - 1 < at) /\ i - 1 < n /\ (i - 1) + 1 = i
            BY <1>1, <2>1, <5>2 DEF n
          <6>2. t[i - 1] = s[(i - 1) + 1]
            BY <2>4, <6>1
          <6>3. QED
            BY <6>1, <6>2
        <5>3. CASE i = at
          <6>1. n \in 1..n /\ ~(n < at) /\ ~(n < n)
            BY <1>1, <2>1 DEF n
          <6>2. t[n] = s[at]
            BY <2>4, <6>1
          <6>3. QED
            BY <5>3, <6>1, <6>2
        <5>4. QED
          BY <1>1, <2>1, <5>1, <5>2, <5>3 DEF n
      <4>2. QED
        BY <2>3, <4>1 DEF ToSet
    <3>3. k \in ToSet(s)
      BY <1>1, <2>1 DEF ToSet, n
    <3>4. QED
      BY <1>1, <2>3, <3>1, <3>2, <3>3 DEF ToSet, n
  <2>9. QED
    BY <1>1, <2>1, <2>3, <2>7, <2>8 DEF t, n
<1>4. QED
  BY <1>2, <1>3

LEMMA TailOfList ==
  ASSUME NEW s, IsList(s), Len(s) > 0
  PROVE  /\ IsList(Tail(s)) /\ Head(s) \notin ToSet(Tail(s))
         /\ ToSet(s) = ToSet(Tail(s)) \cup {Head(s)}
<1> DEFINE n == Len(s)
           t == Tail(s)
<1>1. n \in Nat \ {0} /\ DOMAIN s = 1..n /\ s \in Seq(ToSet(s))
  BY DEF IsList, ToSet
<1>2. /\ Len(t) = n - 1 /\ DOMAIN t = 1..(n - 1) /\ t = [i \in 1..Len(t) |-> t[i]]
      /\ Head(s) = s[1] /\ \A i \in 1..(n - 1) : t[i] = s[i + 1]
  <2> DEFINE S == ToSet(s)
  <2> HIDE DEF S
  <2>1. s \in Seq(S) /\ s # <<>>
    BY <1>1 DEF S
  <2>2. t \in Seq(S) /\ Len(t) = n - 1 /\ Head(s) = s[1]
    BY <1>1, <2>1
  <2>3. \A i \in 1..(n - 1) : t[i] = s[i + 1]
    BY <1>1, <2>1
  <2> HIDE DEF t
  <2>4. QED
    BY <2>2, <2>3
<1> HIDE DEF t
<1>3. \A i, j \in 1..n : s[i] = s[j] => i = j
  BY DEF IsList
<1> HIDE DEF n
<1>4. \A i, j \in 1..(n - 1) : t[i] = t[j] => i = j
  <2>1. ASSUME NEW i \in 1..(n - 1), NEW j \in 1..(n - 1), t[i] = t[j] PROVE i = j
    <3>1. i + 1 \in 1..n /\ j + 1 \in 1..n
      BY <1>1 DEF n
    <3>2. s[i + 1] = s[j + 1]
      BY <1>2, <2>1
    <3>3. QED
      BY <1>3, <3>1, <3>2
  <2>2. QED
    BY <2>1
<1>5. IsList(t)
  BY <1>1, <1>2, <1>4 DEF IsList, n
<1>6. ASSUME NEW i \in 1..(n - 1) PROVE t[i] # s[1] /\ t[i] \in ToSet(s)
  <2>1. i + 1 \in 1..n /\ 1 \in 1..n /\ i + 1 # 1
    BY <1>1 DEF n
  <2>2. QED
    BY <1>1, <1>2, <1>3, <2>1 DEF ToSet, n
<1>7. Head(s) \notin ToSet(t)
  BY <1>2, <1>6 DEF ToSet
<1>8. ToSet(s) \subseteq ToSet(t) \cup {Head(s)}
  <2>1. ASSUME NEW i \in 1..n, i # 1 PROVE s[i] \in ToSet(t)
    <3>1. i - 1 \in 1..(n - 1) /\ (i - 1) + 1 = i
      BY <1>1, <2>1 DEF n
    <3>2. t[i - 1] = s[i]
      BY <1>2, <3>1
    <3>3. QED
      BY <1>2, <3>1, <3>2 DEF ToSet
  <2>2. QED
    BY <1>1, <1>2, <2>1 DEF ToSet, n
<1>9. Head(s) \in ToSet(s)
  BY <1>1, <1>2 DEF ToSet, n
<1>10. ToSet(t) \subseteq ToSet(s)
  BY <1>2, <1>6 DEF ToSet
<1>11. QED
  BY <1>5, <1>7, <1>8, <1>9, <1>10 DEF t

\* The keys a cache has: those of the list and of the items it has evicted, which are no others.
KeysOf(c) == ToSet(c.lru) \cup c.evicted

IsCache(c) ==
  /\ c = [lru |-> c.lru, evicted |-> c.evicted, dims |-> c.dims]
  /\ IsList(c.lru) /\ ToSet(c.lru) \cap c.evicted = {}
  /\ c.dims = [k \in KeysOf(c) |-> c.dims[k]]

Held(c) == {c.dims[k] : k \in DOMAIN c.dims}

LEMMA CacheHasItems ==
  ASSUME NEW c, IsCache(c), NEW k
  PROVE  /\ HasItem(c, k) <=> k \in KeysOf(c)
         /\ Contains(c.lru, k) <=> k \in ToSet(c.lru)
<1>1. DOMAIN c.lru = 1..Len(c.lru)
  BY DEF IsCache, IsList
<1>2. QED
  BY <1>1 DEF HasItem, Contains, KeysOf, ToSet

\* Adding a key that was not evicted keeps the others, though it may evict the oldest.
LEMMA AddedItem ==
  ASSUME NEW c, c = [lru |-> c.lru, evicted |-> c.evicted, dims |-> c.dims], IsList(c.lru),
         ToSet(c.lru) \cap c.evicted = {}, NEW k, k \notin c.evicted, NEW dims,
         DOMAIN c.dims \cup {k} = KeysOf(c) \cup {k}
  PROVE  LET d == AddItem(c, k, dims)
         IN IsCache(d) /\ KeysOf(d) = KeysOf(c) \cup {k} /\ d.dims = With(c.dims, k, dims)
<1> DEFINE l == MoveToBack(c.lru, k)
           d == AddItem(c, k, dims)
           w == With(c.dims, k, dims)
<1>1. IsList(l) /\ ToSet(l) = ToSet(c.lru) \cup {k} /\ Len(l) > 0
  BY MovedToBack
<1>2. d = [lru |-> IF Len(l) > CacheSize THEN Tail(l) ELSE l,
           evicted |-> IF Len(l) > CacheSize THEN c.evicted \cup {Head(l)} ELSE c.evicted, dims |-> w]
  BY DEF AddItem
<1>3. DOMAIN w = DOMAIN c.dims \cup {k} /\ w = [x \in DOMAIN w |-> w[x]]
  BY DEF With
<1> HIDE DEF l, d, w
<1>4. /\ IsList(Tail(l)) /\ Head(l) \notin ToSet(Tail(l))
      /\ ToSet(l) = ToSet(Tail(l)) \cup {Head(l)}
  BY <1>1, TailOfList
<1>5. CASE Len(l) > CacheSize
  <2>1. d.lru = Tail(l) /\ d.evicted = c.evicted \cup {Head(l)} /\ d.dims = w
        /\ d = [lru |-> d.lru, evicted |-> d.evicted, dims |-> d.dims]
    BY <1>2, <1>5
  <2>2. KeysOf(d) = KeysOf(c) \cup {k}
    BY <1>1, <1>4, <2>1 DEF KeysOf
  <2>3. w = [x \in KeysOf(d) |-> w[x]]
    BY <1>3, <2>2
  <2>4. QED
    BY <1>1, <1>4, <2>1, <2>2, <2>3 DEF IsCache, d, w
<1>6. CASE ~(Len(l) > CacheSize)
  <2>1. d.lru = l /\ d.evicted = c.evicted /\ d.dims = w
        /\ d = [lru |-> d.lru, evicted |-> d.evicted, dims |-> d.dims]
    BY <1>2, <1>6
  <2>2. KeysOf(d) = KeysOf(c) \cup {k}
    BY <1>1, <2>1 DEF KeysOf
  <2>3. w = [x \in KeysOf(d) |-> w[x]]
    BY <1>3, <2>2
  <2>4. QED
    BY <1>1, <2>1, <2>2, <2>3 DEF IsCache, d, w
<1>7. QED
  BY <1>5, <1>6

\* Get loses nothing, wherever it finds the key.
LEMMA GotItem ==
  ASSUME NEW c, IsCache(c), NEW k
  PROVE  LET d == GetItem(c, k)
         IN IsCache(d) /\ KeysOf(d) = KeysOf(c) /\ d.dims = c.dims
<1>1. CASE Contains(c.lru, k)
  <2> DEFINE l == MoveToBack(c.lru, k)
             d == [c EXCEPT !.lru = l]
  <2>1. GetItem(c, k) = d
    BY <1>1 DEF GetItem
  <2>2. IsList(l) /\ ToSet(l) = ToSet(c.lru)
    <3>1. k \in ToSet(c.lru) /\ IsList(c.lru)
      BY <1>1, CacheHasItems DEF IsCache
    <3>2. IsList(l) /\ ToSet(l) = ToSet(c.lru) \cup {k}
      BY <3>1, MovedToBack
    <3> HIDE DEF l
    <3>3. QED
      BY <3>1, <3>2
  <2> HIDE DEF l
  <2>3. d = [lru |-> l, evicted |-> c.evicted, dims |-> c.dims]
    BY DEF IsCache
  <2> HIDE DEF d
  <2>4. d.lru = l /\ d.evicted = c.evicted /\ d.dims = c.dims
        /\ d = [lru |-> d.lru, evicted |-> d.evicted, dims |-> d.dims]
    BY <2>3
  <2>5. QED
    BY <2>1, <2>2, <2>4 DEF IsCache, KeysOf
<1>2. CASE ~Contains(c.lru, k) /\ k \in c.evicted
  <2> DEFINE b == [c EXCEPT !.evicted = @ \ {k}]
             d == AddItem(b, k, c.dims[k])
  <2>1. GetItem(c, k) = d
    BY <1>2 DEF GetItem
  <2>2. b = [lru |-> c.lru, evicted |-> c.evicted \ {k}, dims |-> c.dims]
    BY DEF IsCache
  <2> HIDE DEF b
  <2>3. b.lru = c.lru /\ b.evicted = c.evicted \ {k} /\ b.dims = c.dims
        /\ b = [lru |-> b.lru, evicted |-> b.evicted, dims |-> b.dims]
    BY <2>2
  <2>4. KeysOf(b) \cup {k} = KeysOf(c)
    BY <1>2, <2>3 DEF KeysOf
  <2>5. IsCache(d) /\ KeysOf(d) = KeysOf(b) \cup {k} /\ d.dims = With(b.dims, k, c.dims[k])
    <3>1. IsList(b.lru) /\ ToSet(b.lru) \cap b.evicted = {} /\ k \notin b.evicted
          /\ DOMAIN b.dims \cup {k} = KeysOf(b) \cup {k}
      BY <2>3, <2>4 DEF IsCache
    <3>2. QED
      BY <2>3, <3>1, AddedItem
  <2>6. With(c.dims, k, c.dims[k]) = c.dims
    <3>1. k \in DOMAIN c.dims
      BY <1>2 DEF IsCache, KeysOf
    <3>2. c.dims = [x \in DOMAIN c.dims |-> c.dims[x]]
      BY DEF IsCache
    <3>3. QED
      BY <3>1, <3>2 DEF With
  <2> HIDE DEF d
  <2>7. QED
    BY <2>1, <2>3, <2>4, <2>5, <2>6
<1>3. CASE ~Contains(c.lru, k) /\ k \notin c.evicted
  BY <1>3 DEF GetItem
<1>4. QED
  BY <1>1, <1>2, <1>3

\* What was evicted goes, and its dimensions with it.
LEMMA EvictedGo ==
  ASSUME NEW c, IsCache(c)
  PROVE  LET d == RemoveEvictedItems(c)
         IN IsCache(d) /\ KeysOf(d) = ToSet(c.lru) /\ Held(d) \subseteq Held(c)
<1> DEFINE d == RemoveEvictedItems(c)
           e == {}
           l == Less(c.dims, c.evicted)
<1>1. d = [c EXCEPT !.evicted = e, !.dims = l]
  BY DEF RemoveEvictedItems
<1>2. /\ DOMAIN l = DOMAIN c.dims \ c.evicted /\ l = [k \in DOMAIN l |-> l[k]]
      /\ \A k \in DOMAIN l : l[k] = c.dims[k]
  BY DEF Less
<1> HIDE DEF d, e, l
<1>3. d = [lru |-> c.lru, evicted |-> e, dims |-> l]
  BY <1>1 DEF IsCache
<1>4. d.lru = c.lru /\ d.evicted = {} /\ d.dims = l
      /\ d = [lru |-> d.lru, evicted |-> d.evicted, dims |-> d.dims]
  BY <1>3 DEF e
<1>5. DOMAIN l = ToSet(c.lru) /\ DOMAIN c.dims = KeysOf(c)
  BY <1>2 DEF IsCache, KeysOf
<1>6. IsCache(d) /\ KeysOf(d) = ToSet(c.lru)
  <2>1. KeysOf(d) = ToSet(c.lru)
    BY <1>4 DEF KeysOf
  <2>2. l = [k \in KeysOf(d) |-> l[k]]
    BY <1>2, <1>5, <2>1
  <2>3. QED
    BY <1>4, <2>1, <2>2 DEF IsCache
<1>7. Held(d) \subseteq Held(c)
  BY <1>2, <1>4 DEF Held
<1>8. QED
  BY <1>6, <1>7 DEF d

-----------------------------------------------------------------------------
(* The span metrics: what is accumulated                                   *)

AccShape(a) ==
  /\ a = [services |-> a.services, cache |-> a.cache, hist |-> a.hist]
  /\ a.cache = [m \in Metrics |-> a.cache[m]]
  /\ a.hist = [m \in Metrics |-> a.hist[m]]

\* Every histogram has its dimensions.
MetricIsSound(c, h) == IsCache(c) /\ IsFiniteSet(DOMAIN h) /\ DOMAIN h \subseteq KeysOf(c)

AccIsSound(a) == AccShape(a) /\ \A m \in Metrics : MetricIsSound(a.cache[m], a.hist[m])

\* b is a after a span was counted in metric m, perhaps with new dimensions.
IsCounted(a, b, m, dims) ==
  /\ AccIsSound(b) /\ b.services = a.services
  /\ Held(b.cache[m]) \subseteq Held(a.cache[m]) \cup {dims}
  /\ \A x \in Metrics : x # m => b.cache[x] = a.cache[x]

\* A cache after the dimensions of a key were asked for, and added when they were missing.
LEMMA CachedItem ==
  ASSUME NEW c, IsCache(c), NEW k, NEW dims
  PROVE  LET d == IF HasItem(c, k) THEN GetItem(c, k) ELSE AddItem(c, k, dims)
         IN IsCache(d) /\ KeysOf(c) \cup {k} \subseteq KeysOf(d) /\ Held(d) \subseteq Held(c) \cup {dims}
<1> DEFINE d == IF HasItem(c, k) THEN GetItem(c, k) ELSE AddItem(c, k, dims)
<1>1. CASE HasItem(c, k)
  <2>1. IsCache(d) /\ KeysOf(d) = KeysOf(c) /\ d.dims = c.dims
    BY <1>1, GotItem
  <2>2. k \in KeysOf(c)
    BY <1>1, CacheHasItems
  <2> HIDE DEF d
  <2>3. QED
    BY <2>1, <2>2 DEF Held, d
<1>2. CASE ~HasItem(c, k)
  <2>1. k \notin KeysOf(c)
    BY <1>2, CacheHasItems
  <2>2. /\ c = [lru |-> c.lru, evicted |-> c.evicted, dims |-> c.dims] /\ IsList(c.lru)
        /\ ToSet(c.lru) \cap c.evicted = {} /\ k \notin c.evicted /\ DOMAIN c.dims \cup {k} = KeysOf(c) \cup {k}
    BY <2>1 DEF IsCache, KeysOf
  <2> DEFINE e == AddItem(c, k, dims)
  <2>3. IsCache(e) /\ KeysOf(e) = KeysOf(c) \cup {k} /\ e.dims = With(c.dims, k, dims)
    BY <2>2, AddedItem
  <2>4. d = e
    BY <1>2
  <2> HIDE DEF e, d
  <2>5. Held(e) \subseteq Held(c) \cup {dims}
    BY <2>3 DEF Held, With
  <2>6. QED
    BY <2>3, <2>4, <2>5 DEF d
<1>3. QED
  BY <1>1, <1>2

LEMMA CountedSpan ==
  ASSUME NEW a, AccIsSound(a), NEW m \in Metrics, NEW key, NEW dims
  PROVE  IsCounted(a, Count(a, m, key, dims), m, dims)
<1> DEFINE c == a.cache[m]
           h == a.hist[m]
           d == IF HasItem(c, key) THEN GetItem(c, key) ELSE AddItem(c, key, dims)
           g == With(h, key, IF key \in DOMAIN h THEN h[key] + 1 ELSE 1)
           b == Count(a, m, key, dims)
<1>1. MetricIsSound(c, h)
  BY DEF AccIsSound
<1>2. IsCache(d) /\ KeysOf(c) \cup {key} \subseteq KeysOf(d) /\ Held(d) \subseteq Held(c) \cup {dims}
  BY <1>1, CachedItem DEF MetricIsSound
<1>3. DOMAIN g = DOMAIN h \cup {key}
  BY DEF With
<1>4. b = [a EXCEPT !.cache[m] = d, !.hist[m] = g]
  BY DEF Count
<1> HIDE DEF b, d, g
<1>5. MetricIsSound(d, g)
  BY <1>1, <1>2, <1>3, FS_AddElement DEF MetricIsSound
<1> DEFINE cs == [a.cache EXCEPT ![m] = d]
           hs == [a.hist EXCEPT ![m] = g]
<1>6. /\ cs = [x \in Metrics |-> IF x = m THEN d ELSE a.cache[x]]
      /\ hs = [x \in Metrics |-> IF x = m THEN g ELSE a.hist[x]]
  BY DEF AccIsSound, AccShape
<1>7. b = [a EXCEPT !.cache = cs, !.hist = hs]
  BY <1>4
<1> HIDE DEF cs, hs
<1>8. b = [services |-> a.services, cache |-> cs, hist |-> hs]
  BY <1>7 DEF AccIsSound, AccShape
<1>9. b.services = a.services /\ b.cache = cs /\ b.hist = hs
      /\ b = [services |-> b.services, cache |-> b.cache, hist |-> b.hist]
  BY <1>8
<1>10. AccShape(b)
  BY <1>6, <1>9 DEF AccShape
<1>11. \A x \in Metrics : MetricIsSound(b.cache[x], b.hist[x])
  BY <1>5, <1>6, <1>9 DEF AccIsSound
<1>12. QED
  BY <1>2, <1>6, <1>9, <1>10, <1>11 DEF IsCounted, AccIsSound, b

-----------------------------------------------------------------------------
(* The span metrics: the names of services and operations                  *)

\* The metrics whose dimensions name the service and the operation of a span.
SpanMetrics3 == {"latency", "exp", "call"}

NamesIn(a) == UNION {{d.names : d \in Held(a.cache[m])} : m \in SpanMetrics3}

AtMost(S, n) == IsFiniteSet(S) /\ Cardinality(S) <= n

\* The services and operations that are tracked: sets that end, and for the overflow no more
\* operations than the limit and one.
AreTracked(sv) ==
  /\ IsFiniteSet(DOMAIN sv)
  /\ \A s \in DOMAIN sv : IsFiniteSet(sv[s])
  /\ Overflow \in DOMAIN sv => Cardinality(sv[Overflow] \ {Overflow}) <= MaxOperations + 1

\* Names but the overflow are tracked.
IsTracked(sv, n) ==
  /\ n[1] # Overflow => n[1] \in DOMAIN sv
  /\ n[2] # Overflow => n[1] \in DOMAIN sv /\ n[2] \in sv[n[1]]

\* The span that crosses the limit on services: its operation will be tracked when the span is
\* counted in the next metric.
IsOwed(sv, span, n) ==
  /\ n[1] = Overflow /\ n[2] = span.op /\ Cardinality(DOMAIN sv) > MaxServices
  /\ Overflow \notin DOMAIN sv \/ Cardinality(sv[Overflow]) <= MaxOperations

\* The span has been counted in a metric: no other service is tracked for it.
IsSettled(sv, span) == Cardinality(DOMAIN sv) > MaxServices \/ span.svc \in DOMAIN sv

\* The services but the overflow that are named, and the operations of one.
ServicesNamed(N) == {n[1] : n \in N} \ {Overflow}
OperationsNamed(N, svc) == {n[2] : n \in {x \in N : x[1] = svc}} \ {Overflow}

WithinLimits(N) ==
  /\ AtMost(ServicesNamed(N), MaxServices)
  /\ \A svc : svc # Overflow => AtMost(OperationsNamed(N, svc), MaxOperations)

TracksNames(sv, N) == AreTracked(sv) /\ WithinLimits(N) /\ \A n \in N : IsTracked(sv, n)

OwesNames(sv, N, span) ==
  /\ AreTracked(sv) /\ WithinLimits(N) /\ IsSettled(sv, span)
  /\ \A n \in N : IsTracked(sv, n) \/ IsOwed(sv, span, n)

LEMMA AtMostSubset ==
  ASSUME NEW S, NEW n \in Nat, AtMost(S, n), NEW T, T \subseteq S
  PROVE  AtMost(T, n)
BY FS_Subset, FS_CardinalityType DEF AtMost

LEMMA FewerNamesAreWithinLimits ==
  ASSUME NEW N, WithinLimits(N), NEW M, M \subseteq N
  PROVE  WithinLimits(M)
<1>1. ServicesNamed(M) \subseteq ServicesNamed(N) /\ \A svc : OperationsNamed(M, svc) \subseteq OperationsNamed(N, svc)
  BY DEF ServicesNamed, OperationsNamed
<1>2. AtMost(ServicesNamed(M), MaxServices)
  BY <1>1, AtMostSubset, SpanMetricsAssumption DEF WithinLimits
<1>3. ASSUME NEW svc, svc # Overflow PROVE AtMost(OperationsNamed(M, svc), MaxOperations)
  BY <1>1, <1>3, AtMostSubset, SpanMetricsAssumption DEF WithinLimits
<1>4. QED
  BY <1>2, <1>3 DEF WithinLimits

\* buildKey only adds what it has named.
LEMMA TrackedGrows ==
  ASSUME NEW sv, AreTracked(sv), NEW span
  PROVE  LET after == Tracked(sv, span)
             svc   == ServiceName(sv, span)
             old   == IF svc \in DOMAIN sv THEN sv[svc] ELSE {}
         IN /\ DOMAIN after = DOMAIN sv \cup {svc}
            /\ after[svc] = old \cup {SpanName(sv, span)}
            /\ \A s \in DOMAIN sv : s # svc => after[s] = sv[s]
            /\ AreTracked(after)
            /\ IsFiniteSet(old) /\ Cardinality(old) \in Nat /\ Cardinality(after[svc]) \in Nat
            /\ Cardinality(old) <= Cardinality(after[svc])
            /\ Cardinality(DOMAIN sv) \in Nat /\ Cardinality(DOMAIN after) \in Nat
            /\ Cardinality(DOMAIN sv) <= Cardinality(DOMAIN after)
<1> DEFINE after == Tracked(sv, span)
           svc   == ServiceName(sv, span)
           op    == SpanName(sv, span)
           old   == IF svc \in DOMAIN sv THEN sv[svc] ELSE {}
           big   == svc \in DOMAIN sv /\ Cardinality(sv[svc]) > MaxOperations
<1>1. after = With(sv, svc, old \cup {op})
  BY DEF Tracked
<1>2. op = IF big THEN Overflow ELSE span.op
  BY DEF SpanName
<1> HIDE DEF after, svc, op
<1>3. /\ DOMAIN after = DOMAIN sv \cup {svc}
      /\ after[svc] = old \cup {op}
      /\ \A s \in DOMAIN sv : s # svc => after[s] = sv[s]
  BY <1>1 DEF With
<1>4. IsFiniteSet(old)
  BY FS_EmptySet DEF AreTracked
<1>5. /\ IsFiniteSet(after[svc]) /\ Cardinality(old) \in Nat /\ Cardinality(after[svc]) \in Nat
      /\ Cardinality(old) <= Cardinality(after[svc])
      /\ Cardinality(after[svc]) <= Cardinality(old) + 1
  <2> HIDE DEF old
  <2>1. QED
    BY <1>3, <1>4, FS_AddElement, FS_CardinalityType
<1>6. /\ IsFiniteSet(DOMAIN after) /\ Cardinality(DOMAIN sv) \in Nat /\ Cardinality(DOMAIN after) \in Nat
      /\ Cardinality(DOMAIN sv) <= Cardinality(DOMAIN after)
  BY <1>3, FS_AddElement, FS_CardinalityType DEF AreTracked
<1>7. \A s \in DOMAIN after : IsFiniteSet(after[s])
  BY <1>3, <1>5 DEF AreTracked
<1>8. ASSUME Overflow \in DOMAIN after PROVE Cardinality(after[Overflow] \ {Overflow}) <= MaxOperations + 1
  <2>1. CASE svc # Overflow
    BY <1>3, <1>8, <2>1 DEF AreTracked
  <2>2. CASE svc = Overflow /\ big
    <3>1. op = Overflow /\ after[Overflow] = sv[Overflow] \cup {Overflow}
      BY <1>2, <1>3, <2>2
    <3>2. after[Overflow] \ {Overflow} = sv[Overflow] \ {Overflow}
      BY <3>1
    <3>3. QED
      BY <2>2, <3>2 DEF AreTracked
  <2>3. CASE svc = Overflow /\ ~big
    <3>1. Cardinality(old) <= MaxOperations
      <4>1. CASE svc \in DOMAIN sv
        BY <1>5, <2>3, <4>1, SpanMetricsAssumption
      <4>2. CASE svc \notin DOMAIN sv
        BY <4>2, FS_EmptySet, SpanMetricsAssumption
      <4>3. QED
        BY <4>1, <4>2
    <3>2. Cardinality(after[svc]) <= MaxOperations + 1
      BY <1>5, <3>1, SpanMetricsAssumption
    <3> DEFINE rest == after[svc] \ {Overflow}
    <3>3. rest \subseteq after[svc]
      OBVIOUS
    <3> HIDE DEF rest
    <3>4. IsFiniteSet(rest) /\ Cardinality(rest) <= Cardinality(after[svc])
      BY <1>5, <3>3, FS_Subset
    <3>5. Cardinality(rest) \in Nat
      BY <3>4, FS_CardinalityType
    <3>6. QED
      BY <1>5, <2>3, <3>2, <3>4, <3>5, SpanMetricsAssumption DEF rest
  <2>4. QED
    BY <2>1, <2>2, <2>3
<1>9. AreTracked(after)
  BY <1>6, <1>7, <1>8 DEF AreTracked
<1>10. QED
  BY <1>3, <1>4, <1>5, <1>6, <1>9 DEF after, svc, op

\* What was tracked stays tracked, and what was owed is tracked now.
LEMMA TrackedStays ==
  ASSUME NEW sv, AreTracked(sv), NEW span, NEW n, IsTracked(sv, n) \/ IsOwed(sv, span, n)
  PROVE  IsTracked(Tracked(sv, span), n)
<1> DEFINE after == Tracked(sv, span)
           svc   == ServiceName(sv, span)
           old   == IF svc \in DOMAIN sv THEN sv[svc] ELSE {}
<1>1. /\ DOMAIN after = DOMAIN sv \cup {svc}
      /\ after[svc] = old \cup {SpanName(sv, span)}
      /\ \A s \in DOMAIN sv : s # svc => after[s] = sv[s]
  BY TrackedGrows
<1> HIDE DEF after
<1>2. \A s \in DOMAIN sv : s \in DOMAIN after /\ sv[s] \subseteq after[s]
  <2> HIDE DEF svc
  <2>1. QED
    BY <1>1
<1>3. CASE IsTracked(sv, n)
  BY <1>2, <1>3 DEF IsTracked, after
<1>4. CASE IsOwed(sv, span, n)
  <2>1. svc = Overflow
    BY <1>4 DEF IsOwed, ServiceName
  <2>2. SpanName(sv, span) = span.op
    <3>1. ~(svc \in DOMAIN sv /\ Cardinality(sv[svc]) > MaxOperations)
      <4>1. CASE Overflow \in DOMAIN sv
        <5>1. Cardinality(sv[Overflow]) \in Nat /\ Cardinality(sv[Overflow]) <= MaxOperations
          BY <1>4, <4>1, FS_CardinalityType DEF IsOwed, AreTracked
        <5>2. QED
          BY <2>1, <5>1, SpanMetricsAssumption
      <4>2. CASE Overflow \notin DOMAIN sv
        BY <2>1, <4>2
      <4>3. QED
        BY <4>1, <4>2
    <3>2. QED
      BY <3>1 DEF SpanName
  <2> HIDE DEF svc
  <2>3. n[1] = Overflow /\ n[2] = span.op
    BY <1>4 DEF IsOwed
  <2>4. QED
    BY <1>1, <2>1, <2>2, <2>3 DEF IsTracked, after
<1>5. QED
  BY <1>3, <1>4

\* What a span is named: the names of buildDimensionKVs, after buildKey has tracked the span.
NamesOf(sv, span) == <<ServiceName(sv, span), SpanName(sv, span), span.kind>>

\* A service that is named is tracked, and there is room for it; so is an operation of it.
LEMMA NamedThere ==
  ASSUME NEW sv, AreTracked(sv), NEW span
  PROVE  LET after == Tracked(sv, span)
             svc   == ServiceName(after, span)
             op    == SpanName(after, span)
         IN /\ svc # Overflow => svc \in DOMAIN after /\ Cardinality(DOMAIN after) <= MaxServices
            /\ op # Overflow => op = span.op
            /\ op # Overflow /\ svc \in DOMAIN after => Cardinality(after[svc]) <= MaxOperations
            /\ op # Overflow /\ svc = ServiceName(sv, span) => op \in after[svc] /\ svc \in DOMAIN after
            /\ svc # Overflow => svc = ServiceName(sv, span)
            /\ svc = Overflow /\ svc # ServiceName(sv, span) => Cardinality(DOMAIN after) > MaxServices
            /\ IsSettled(after, span)
<1> DEFINE after == Tracked(sv, span)
           now   == ServiceName(sv, span)
           old   == IF now \in DOMAIN sv THEN sv[now] ELSE {}
           svc   == ServiceName(after, span)
           op    == SpanName(after, span)
<1>1. /\ DOMAIN after = DOMAIN sv \cup {now}
      /\ after[now] = old \cup {SpanName(sv, span)}
      /\ \A s \in DOMAIN sv : s # now => after[s] = sv[s]
      /\ AreTracked(after)
      /\ IsFiniteSet(old) /\ Cardinality(old) \in Nat /\ Cardinality(after[now]) \in Nat
      /\ Cardinality(old) <= Cardinality(after[now])
      /\ Cardinality(DOMAIN sv) \in Nat /\ Cardinality(DOMAIN after) \in Nat
      /\ Cardinality(DOMAIN sv) <= Cardinality(DOMAIN after)
  BY TrackedGrows
<1>2. now = IF Cardinality(DOMAIN sv) > MaxServices THEN Overflow ELSE span.svc
  BY DEF ServiceName
<1>3. svc = IF Cardinality(DOMAIN after) > MaxServices THEN Overflow ELSE span.svc
  BY DEF ServiceName
<1>4. op = IF svc \in DOMAIN after /\ Cardinality(after[svc]) > MaxOperations THEN Overflow ELSE span.op
  BY DEF SpanName
<1>5. SpanName(sv, span) = IF now \in DOMAIN sv /\ Cardinality(sv[now]) > MaxOperations THEN Overflow ELSE span.op
  BY DEF SpanName
<1>6. \A s \in DOMAIN after : Cardinality(after[s]) \in Nat
  BY <1>1, FS_CardinalityType DEF AreTracked
<1> HIDE DEF after, now, svc, op
<1>7. svc # Overflow => svc = now /\ Cardinality(DOMAIN after) <= MaxServices
  BY <1>1, <1>2, <1>3, SpanMetricsAssumption
<1>8. svc = Overflow /\ svc # now => Cardinality(DOMAIN after) > MaxServices
  BY <1>1, <1>2, <1>3, SpanMetricsAssumption
<1>9. op # Overflow => op = span.op
  BY <1>4
<1>10. op # Overflow /\ svc \in DOMAIN after => Cardinality(after[svc]) <= MaxOperations
  BY <1>4, <1>6, SpanMetricsAssumption
<1>11. ASSUME op # Overflow, svc = now PROVE op \in after[svc]
  <2>1. now \in DOMAIN after
    BY <1>1
  <2>2. Cardinality(after[now]) <= MaxOperations
    BY <1>10, <1>11, <2>1
  <2>3. Cardinality(old) <= MaxOperations
    BY <1>1, <2>2, SpanMetricsAssumption
  <2>4. SpanName(sv, span) = span.op
    BY <1>1, <1>5, <2>3, SpanMetricsAssumption
  <2>5. QED
    BY <1>1, <1>9, <1>11, <2>4
<1>12. IsSettled(after, span)
  BY <1>1, <1>2, SpanMetricsAssumption DEF IsSettled
<1>13. QED
  BY <1>1, <1>7, <1>8, <1>9, <1>10, <1>11, <1>12 DEF after, now, svc, op

\* The names of a span are tracked, or its operation is owed to the overflow.
LEMMA NewNames ==
  ASSUME NEW sv, AreTracked(sv), NEW span
  PROVE  LET after == Tracked(sv, span)
             n     == NamesOf(after, span)
         IN /\ IsTracked(after, n) \/ IsOwed(after, span, n)
            /\ IsSettled(sv, span) => IsTracked(after, n)
<1> DEFINE after == Tracked(sv, span)
           now   == ServiceName(sv, span)
           svc   == ServiceName(after, span)
           op    == SpanName(after, span)
           n     == NamesOf(after, span)
<1>1. /\ svc # Overflow => svc \in DOMAIN after
      /\ op # Overflow => op = span.op
      /\ op # Overflow /\ svc \in DOMAIN after => Cardinality(after[svc]) <= MaxOperations
      /\ op # Overflow /\ svc = now => op \in after[svc] /\ svc \in DOMAIN after
      /\ svc # Overflow => svc = now
      /\ svc = Overflow /\ svc # now => Cardinality(DOMAIN after) > MaxServices
  BY NamedThere
<1>2. n[1] = svc /\ n[2] = op
  BY DEF NamesOf
<1>3. ASSUME IsSettled(sv, span) PROVE svc = now
  <2>1. /\ DOMAIN after = DOMAIN sv \cup {now}
        /\ Cardinality(DOMAIN sv) \in Nat /\ Cardinality(DOMAIN after) \in Nat
        /\ Cardinality(DOMAIN sv) <= Cardinality(DOMAIN after)
    BY TrackedGrows
  <2>2. now = IF Cardinality(DOMAIN sv) > MaxServices THEN Overflow ELSE span.svc
    BY DEF ServiceName
  <2>3. svc = IF Cardinality(DOMAIN after) > MaxServices THEN Overflow ELSE span.svc
    BY DEF ServiceName
  <2> HIDE DEF after, now, svc
  <2>4. CASE Cardinality(DOMAIN sv) > MaxServices
    BY <2>1, <2>2, <2>3, <2>4, SpanMetricsAssumption
  <2>5. CASE ~(Cardinality(DOMAIN sv) > MaxServices)
    <3>1. span.svc \in DOMAIN sv
      BY <1>3, <2>5 DEF IsSettled
    <3>2. DOMAIN after = DOMAIN sv
      BY <2>1, <2>2, <2>5, <3>1
    <3>3. QED
      BY <2>2, <2>3, <3>2
  <2>6. QED
    BY <2>4, <2>5
<1> HIDE DEF after, now, svc, op, n
<1>4. svc = now => IsTracked(after, n)
  BY <1>1, <1>2 DEF IsTracked
<1>5. svc # now => IsTracked(after, n) \/ IsOwed(after, span, n)
  BY <1>1, <1>2 DEF IsTracked, IsOwed
<1>6. QED
  BY <1>3, <1>4, <1>5 DEF after, n

\* Services and operations are named only while the limits leave room.
LEMMA NewNamesAreWithinLimits ==
  ASSUME NEW sv, AreTracked(sv), NEW span, NEW N, WithinLimits(N),
         \A x \in N : x[1] # Overflow => IsTracked(sv, x),
         NEW M, M \subseteq N \cup {NamesOf(Tracked(sv, span), span)}
  PROVE  WithinLimits(M)
<1> DEFINE after == Tracked(sv, span)
           svc   == ServiceName(after, span)
           op    == SpanName(after, span)
           n     == NamesOf(after, span)
           K     == N \cup {n}
<1>1. /\ svc # Overflow => svc \in DOMAIN after /\ Cardinality(DOMAIN after) <= MaxServices
      /\ op # Overflow /\ svc \in DOMAIN after => Cardinality(after[svc]) <= MaxOperations
      /\ op # Overflow /\ svc = ServiceName(sv, span) => op \in after[svc]
      /\ svc # Overflow => svc = ServiceName(sv, span)
  BY NamedThere
<1>2. n[1] = svc /\ n[2] = op
  BY DEF NamesOf
<1>3. AreTracked(after)
  BY TrackedGrows
<1>4. \A x \in N : x[1] # Overflow => IsTracked(after, x)
  BY TrackedStays
<1> HIDE DEF after, svc, op, n
<1>5. AtMost(ServicesNamed(K), MaxServices)
  <2>1. CASE svc = Overflow
    <3>1. ServicesNamed(K) = ServicesNamed(N)
      BY <1>2, <2>1 DEF ServicesNamed
    <3>2. QED
      BY <3>1 DEF WithinLimits
  <2>2. CASE svc # Overflow
    <3>1. ServicesNamed(K) \subseteq DOMAIN after
      BY <1>1, <1>2, <1>4, <2>2 DEF ServicesNamed, IsTracked
    <3>2. AtMost(DOMAIN after, MaxServices)
      BY <1>1, <1>3, <2>2 DEF AtMost, AreTracked
    <3>3. QED
      BY <3>1, <3>2, AtMostSubset, SpanMetricsAssumption
  <2>3. QED
    BY <2>1, <2>2
<1>6. ASSUME NEW s, s # Overflow PROVE AtMost(OperationsNamed(K, s), MaxOperations)
  <2>1. CASE s # svc \/ op = Overflow
    <3>1. OperationsNamed(K, s) = OperationsNamed(N, s)
      BY <1>2, <2>1 DEF OperationsNamed
    <3>2. QED
      BY <1>6, <3>1 DEF WithinLimits
  <2>2. CASE s = svc /\ op # Overflow
    <3>1. svc \in DOMAIN after /\ op \in after[svc] /\ Cardinality(after[svc]) <= MaxOperations
      BY <1>1, <1>6, <2>2
    <3>2. \A x \in N : x[1] = svc /\ x[2] # Overflow => x[2] \in after[svc]
      BY <1>4, <1>6, <2>2 DEF IsTracked
    <3>3. OperationsNamed(K, svc) \subseteq after[svc]
      BY <1>2, <3>1, <3>2 DEF OperationsNamed
    <3>4. AtMost(after[svc], MaxOperations)
      BY <1>3, <3>1 DEF AtMost, AreTracked
    <3>5. QED
      BY <2>2, <3>3, <3>4, AtMostSubset, SpanMetricsAssumption
  <2>3. QED
    BY <2>1, <2>2
<1>7. WithinLimits(K)
  BY <1>5, <1>6 DEF WithinLimits
<1>8. M \subseteq K
  BY DEF n, after
<1> HIDE DEF K
<1>9. QED
  BY <1>7, <1>8, FewerNamesAreWithinLimits

\* The span is counted in one metric more.
LEMMA OwesAfterCount ==
  ASSUME NEW sv, NEW N, NEW span, TracksNames(sv, N) \/ OwesNames(sv, N, span),
         NEW M, M \subseteq N \cup {NamesOf(Tracked(sv, span), span)}
  PROVE  /\ OwesNames(Tracked(sv, span), M, span)
         /\ OwesNames(sv, N, span) => TracksNames(Tracked(sv, span), M)
<1> DEFINE after == Tracked(sv, span)
           n     == NamesOf(after, span)
<1>1. AreTracked(sv) /\ WithinLimits(N)
  BY DEF TracksNames, OwesNames
<1>2. \A x \in N : IsTracked(sv, x) \/ IsOwed(sv, span, x)
  BY DEF TracksNames, OwesNames
<1>3. \A x \in N : x[1] # Overflow => IsTracked(sv, x)
  BY <1>2 DEF IsOwed
<1>4. WithinLimits(M)
  BY <1>1, <1>3, NewNamesAreWithinLimits
<1>5. AreTracked(after)
  BY <1>1, TrackedGrows
<1>6. IsSettled(after, span)
  BY <1>1, NamedThere
<1>7. \A x \in N : IsTracked(after, x)
  BY <1>1, <1>2, TrackedStays
<1>8. /\ IsTracked(after, n) \/ IsOwed(after, span, n)
      /\ IsSettled(sv, span) => IsTracked(after, n)
  BY <1>1, NewNames
<1> HIDE DEF after, n
<1>9. \A x \in M : x \in N \/ x = n
  BY DEF n, after
<1>10. OwesNames(after, M, span)
  BY <1>4, <1>5, <1>6, <1>7, <1>8, <1>9 DEF OwesNames
<1>11. OwesNames(sv, N, span) => TracksNames(after, M)
  BY <1>4, <1>5, <1>7, <1>8, <1>9 DEF OwesNames, TracksNames
<1>12. QED
  BY <1>10, <1>11 DEF after

LEMMA TrackedSettledOwes ==
  ASSUME NEW sv, NEW N, NEW span, TracksNames(sv, N), IsSettled(sv, span)
  PROVE  OwesNames(sv, N, span)
BY DEF TracksNames, OwesNames

-----------------------------------------------------------------------------
(* The span metrics: aggregation                                           *)

\* Counting adds no names but those of the new dimensions.
LEMMA CountedNames ==
  ASSUME NEW a, NEW b, NEW m \in Metrics, NEW dims, IsCounted(a, b, m, dims)
  PROVE  /\ NamesIn(b) \subseteq NamesIn(a) \cup {dims.names}
         /\ m \notin SpanMetrics3 => NamesIn(b) = NamesIn(a)
<1>1. SpanMetrics3 \subseteq Metrics
  BY DEF SpanMetrics3, Metrics
<1>2. \A x \in SpanMetrics3 : x # m => Held(b.cache[x]) = Held(a.cache[x])
  BY <1>1 DEF IsCounted
<1>3. Held(b.cache[m]) \subseteq Held(a.cache[m]) \cup {dims}
  BY DEF IsCounted
<1>4. NamesIn(b) \subseteq NamesIn(a) \cup {dims.names}
  <2>1. ASSUME NEW x \in SpanMetrics3, NEW d \in Held(b.cache[x])
        PROVE  d.names \in NamesIn(a) \cup {dims.names}
    <3>1. d \in Held(a.cache[x]) \/ d = dims
      BY <1>2, <1>3
    <3>2. QED
      BY <3>1 DEF NamesIn
  <2>2. QED
    BY <2>1 DEF NamesIn
<1>5. m \notin SpanMetrics3 => NamesIn(b) = NamesIn(a)
  BY <1>2 DEF NamesIn
<1>6. QED
  BY <1>4, <1>5

\* An accumulator whose caches are sound and whose names are tracked, or owed for a span.
IsSound(a) == AccIsSound(a) /\ TracksNames(a.services, NamesIn(a))
IsSoundFor(a, span) == AccIsSound(a) /\ OwesNames(a.services, NamesIn(a), span)

LEMMA SpanIsCounted ==
  ASSUME NEW a, NEW span, IsSound(a) \/ IsSoundFor(a, span), NEW m \in SpanMetrics3
  PROVE  /\ IsSoundFor(CountSpan(a, m, span), span)
         /\ IsSoundFor(a, span) => IsSound(CountSpan(a, m, span))
<1> DEFINE ds   == DimensionsOf(m)
           key  == AddTimeToKeyBuf(span) \o BuildKey(a.services, span, ds)
           sv   == Tracked(a.services, span)
           b    == [a EXCEPT !.services = sv]
           dims == BuildDimensionKVs(b.services, span, ds)
           c    == CountSpan(a, m, span)
<1>1. c = Count(b, m, key, dims)
  BY DEF CountSpan
<1>2. dims.names = NamesOf(b.services, span)
  BY DEF BuildDimensionKVs, NamesOf
<1> HIDE DEF ds, key, sv, dims, c
<1>3. AccIsSound(a)
  BY DEF IsSound, IsSoundFor
<1>4. b = [services |-> sv, cache |-> a.cache, hist |-> a.hist]
  BY <1>3 DEF AccIsSound, AccShape
<1> HIDE DEF b
<1>5. b.services = sv /\ b.cache = a.cache /\ b.hist = a.hist
      /\ b = [services |-> b.services, cache |-> b.cache, hist |-> b.hist]
  BY <1>4
<1>6. AccIsSound(b) /\ NamesIn(b) = NamesIn(a)
  BY <1>3, <1>5 DEF AccIsSound, AccShape, NamesIn
<1>7. m \in Metrics
  BY DEF SpanMetrics3, Metrics
<1>8. IsCounted(b, c, m, dims)
  BY <1>1, <1>6, <1>7, CountedSpan
<1>9. NamesIn(c) \subseteq NamesIn(a) \cup {NamesOf(sv, span)}
  BY <1>2, <1>5, <1>6, <1>7, <1>8, CountedNames
<1>10. AccIsSound(c) /\ c.services = sv
  BY <1>5, <1>8 DEF IsCounted
<1>11. TracksNames(a.services, NamesIn(a)) \/ OwesNames(a.services, NamesIn(a), span)
  BY DEF IsSound, IsSoundFor
<1>12. /\ OwesNames(sv, NamesIn(c), span)
       /\ OwesNames(a.services, NamesIn(a), span) => TracksNames(sv, NamesIn(c))
  BY <1>9, <1>11, OwesAfterCount DEF sv
<1>13. QED
  BY <1>10, <1>12 DEF IsSound, IsSoundFor, c

LEMMA CustomIsCounted ==
  ASSUME NEW a, IsSound(a), NEW m \in {"external", "db"}, NEW span, NEW extra
  PROVE  IsSound(CountCustom(a, m, span, extra))
<1> DEFINE ds   == DimensionsOf(m)
           key  == AddTimeToKeyBuf(span) \o BuildCustomKey(span, ds, extra)
           dims == BuildCustomDimensionKVs(span, ds, extra)
           c    == CountCustom(a, m, span, extra)
<1>1. c = Count(a, m, key, dims)
  BY DEF CountCustom
<1> HIDE DEF ds, key, dims, c
<1>2. m \in Metrics /\ m \notin SpanMetrics3
  BY DEF SpanMetrics3, Metrics
<1>3. IsCounted(a, c, m, dims)
  BY <1>1, <1>2, CountedSpan DEF IsSound
<1>4. NamesIn(c) = NamesIn(a) /\ c.services = a.services /\ AccIsSound(c)
  BY <1>2, <1>3, CountedNames DEF IsCounted
<1>5. QED
  BY <1>4 DEF IsSound, c

LEMMA AggregatedIsSound ==
  ASSUME NEW a, IsSound(a), NEW span
  PROVE  IsSound(AggregateMetrics(a, span))
<1> DEFINE remote  == GetRemoteAddress(span.attrs)
           latency == CountSpan(a, "latency", span)
           exp     == IF config.exp THEN CountSpan(latency, "exp", span) ELSE latency
           call    == CountSpan(exp, "call", span)
           ext     == IF span.kind = "client" /\ remote # <<>>
                      THEN CountCustom(call, "external", span, remote) ELSE call
           db      == CountCustom(ext, "db", span, <<>>)
<1> HIDE DEF remote
<1>1. "latency" \in SpanMetrics3 /\ "exp" \in SpanMetrics3 /\ "call" \in SpanMetrics3
  BY DEF SpanMetrics3
<1>2. IsSoundFor(latency, span)
  BY <1>1, SpanIsCounted
<1> HIDE DEF latency
<1>3. IsSoundFor(exp, span)
  BY <1>1, <1>2, SpanIsCounted
<1> HIDE DEF exp
<1>4. IsSound(call)
  BY <1>1, <1>3, SpanIsCounted
<1> HIDE DEF call
<1>5. IsSound(ext)
  BY <1>4, CustomIsCounted
<1> HIDE DEF ext
<1>6. IsSound(db)
  BY <1>5, CustomIsCounted
<1> HIDE DEF db
<1>7. AggregateMetricsForSpan(a, span) \in {a, ext, db}
  BY DEF AggregateMetricsForSpan, latency, exp, call, ext, db, remote
<1>8. QED
  BY <1>5, <1>6, <1>7 DEF AggregateMetrics

-----------------------------------------------------------------------------
(* The span metrics: a build                                               *)

\* What a build has come to: the cache has all it had.
HoldsAll(c, d) == IsCache(d) /\ KeysOf(d) = KeysOf(c) /\ d.dims = c.dims

IsCollected(c, st) ==
  HoldsAll(c, st.cache) /\ st = [cache |-> st.cache, points |-> st.points, err |-> st.err]

LEMMA CollectedPoint ==
  ASSUME NEW c, NEW st, IsCollected(c, st), NEW m, NEW k
  PROVE  IsCollected(c, CollectPoint(m, st, k))
<1> DEFINE t == CollectPoint(m, st, k)
           yes == TRUE
           p   == st.points \cup {[key |-> k, dims |-> st.cache.dims[k], count |-> acc.hist[m][k]]}
           g   == GetItem(st.cache, k)
<1>1. t = IF st.err \/ ~HasItem(st.cache, k) THEN [st EXCEPT !.err = yes]
          ELSE [st EXCEPT !.points = p, !.cache = g]
  BY DEF CollectPoint
<1>2. HoldsAll(c, g)
  BY GotItem DEF HoldsAll, IsCollected
<1> HIDE DEF t, yes, p, g
<1>3. CASE st.err \/ ~HasItem(st.cache, k)
  <2>1. t = [cache |-> st.cache, points |-> st.points, err |-> yes]
    BY <1>1, <1>3 DEF IsCollected
  <2>2. QED
    BY <2>1 DEF t, IsCollected
<1>4. CASE ~(st.err \/ ~HasItem(st.cache, k))
  <2>1. t = [cache |-> g, points |-> p, err |-> st.err]
    BY <1>1, <1>4 DEF IsCollected
  <2>2. QED
    BY <1>2, <2>1 DEF t, IsCollected
<1>5. QED
  BY <1>3, <1>4

\* Whatever the order, collecting loses nothing from the cache.
LEMMA CollectedAll ==
  ASSUME NEW m, IsCache(acc.cache[m]), NEW order, Len(order) \in Nat
  PROVE  HoldsAll(acc.cache[m], Collect(m, order).cache)
<1> DEFINE n == Len(order)
           c == acc.cache[m]
           base == [cache |-> c, points |-> {}, err |-> FALSE]
           Iterates(f) == f = [i \in 0..n |-> IF i = 0 THEN base ELSE CollectPoint(m, f[i - 1], order[i])]
           st == CHOOSE f : Iterates(f)
           Good(k, g) == g = [i \in 0..k |-> IF i = 0 THEN base ELSE CollectPoint(m, g[i - 1], order[i])]
           K == {k \in 0..n : \E g : Good(k, g)}
<1>1. Collect(m, order) = st[n]
  BY DEF Collect
<1> HIDE DEF base
<1>2. 0 \in K
  <2> DEFINE z == [i \in 0..0 |-> base]
  <2>1. Good(0, z)
    OBVIOUS
  <2> HIDE DEF Good, z
  <2>2. QED
    BY <2>1
<1>3. ASSUME NEW k \in 0..(n - 1), k \in K PROVE k + 1 \in K
  <2>1. PICK g : Good(k, g)
    BY <1>3
  <2> DEFINE x == CollectPoint(m, g[k], order[k + 1])
             z == [i \in 0..(k + 1) |-> IF i = k + 1 THEN x ELSE g[i]]
  <2> HIDE DEF x
  <2>2. \A i \in 0..k : i \in 0..(k + 1) /\ i # k + 1 /\ z[i] = g[i]
    OBVIOUS
  <2>3. ASSUME NEW i \in 0..(k + 1)
        PROVE  z[i] = IF i = 0 THEN base ELSE CollectPoint(m, z[i - 1], order[i])
    <3>1. CASE i = k + 1
      <4>1. z[i] = x /\ z[i - 1] = g[k] /\ i # 0
        BY <2>2, <3>1
      <4>2. QED
        BY <3>1, <4>1 DEF x
    <3>2. CASE i # k + 1
      <4>1. i \in 0..k
        BY <3>2
      <4>2. z[i] = g[i] /\ (i # 0 => z[i - 1] = g[i - 1])
        BY <2>2, <4>1
      <4>3. QED
        BY <2>1, <4>1, <4>2
    <3>3. QED
      BY <3>1, <3>2
  <2>4. z = [i \in 0..(k + 1) |-> z[i]]
    OBVIOUS
  <2> HIDE DEF z
  <2>5. Good(k + 1, z)
    BY <2>3, <2>4
  <2>6. k + 1 \in 0..n
    OBVIOUS
  <2> HIDE DEF Good
  <2>7. QED
    BY <2>5, <2>6
<1>4. \E f : Iterates(f)
  <2>1. n \in K
    <3> HIDE DEF K
    <3>1. 0..n \subseteq K
      BY <1>2, <1>3, UpTo
    <3>2. QED
      BY <3>1
  <2>2. PICK g : Good(n, g)
    BY <2>1
  <2>3. QED
    BY <2>2
<1>5. Iterates(st)
  BY <1>4, Zenon
<1> HIDE DEF st, K
<1>6. st[0] = base /\ \A i \in 0..(n - 1) : st[i + 1] = CollectPoint(m, st[i], order[i + 1])
  <2>1. \A i \in 0..n : st[i] = IF i = 0 THEN base ELSE CollectPoint(m, st[i - 1], order[i])
    BY <1>5
  <2>2. ASSUME NEW i \in 0..(n - 1) PROVE st[i + 1] = CollectPoint(m, st[i], order[i + 1])
    <3>1. i + 1 \in 0..n /\ i + 1 # 0 /\ (i + 1) - 1 = i
      OBVIOUS
    <3>2. QED
      BY <2>1, <3>1
  <2>3. QED
    BY <2>1, <2>2
<1> DEFINE D == {i \in 0..n : IsCollected(c, st[i])}
<1>7. 0 \in D
  BY <1>6 DEF base, HoldsAll, IsCollected
<1>8. ASSUME NEW i \in 0..(n - 1), i \in D PROVE i + 1 \in D
  <2>1. i + 1 \in 0..n
    OBVIOUS
  <2> DEFINE t == CollectPoint(m, st[i], order[i + 1])
  <2>2. IsCollected(c, st[i])
    BY <1>8
  <2>3. IsCollected(c, t)
    BY <2>2, CollectedPoint
  <2>4. st[i + 1] = t
    BY <1>6
  <2> HIDE DEF t
  <2>5. QED
    BY <2>1, <2>3, <2>4
<1> HIDE DEF D
<1>9. n \in D
  <2>1. 0..n \subseteq D
    BY <1>7, <1>8, UpTo
  <2>2. QED
    BY <2>1
<1>10. QED
  BY <1>1, <1>9 DEF D, IsCollected

\* The orders in which a map with finitely many keys is ranged over are sequences.
LEMMA RangesAreSequences ==
  ASSUME NEW S, IsFiniteSet(S), NEW s \in Ranges(S)
  PROVE  Len(s) \in Nat
<1> DEFINE n == Cardinality(S)
<1>1. n \in Nat
  BY FS_CardinalityType
<1>2. \E f \in [1..n -> S] : IsInjective(f)
  <2>1. PICK f \in Bijection(1..n, S) : TRUE
    BY FS_CardinalityType DEF ExistsBijection
  <2>2. QED
    BY <2>1 DEF Bijection, Injection, Surjection, IsInjective
<1> HIDE DEF n
<1>3. s \in [1..n -> S]
  <2>1. SetToSeq(S) \in [1..n -> S]
    BY <1>2 DEF SetToSeq, n
  <2>2. SetToSeqs(S) \subseteq [1..n -> S]
    BY DEF SetToSeqs, n
  <2>3. QED
    BY <2>1, <2>2 DEF Ranges
<1>4. QED
  BY <1>1, <1>3

\* Histograms whose keys are in the list outlive the build; the evicted items do not.
LEMMA AfterBuildIsSound ==
  ASSUME NEW c, IsCache(c), NEW h, IsFiniteSet(DOMAIN h)
  PROVE  LET b == AfterBuild(c, h)
         IN MetricIsSound(b.cache, b.hist) /\ Held(b.cache) \subseteq Held(c)
<1> DEFINE d == RemoveEvictedItems(c)
           g == Less(h, DOMAIN h \ ToSet(c.lru))
<1>1. AfterBuild(c, h) = [cache |-> d, hist |-> g]
  BY DEF AfterBuild
<1>2. IsCache(d) /\ KeysOf(d) = ToSet(c.lru) /\ Held(d) \subseteq Held(c)
  BY EvictedGo
<1>3. DOMAIN g \subseteq DOMAIN h /\ DOMAIN g \subseteq ToSet(c.lru)
  BY DEF Less
<1> HIDE DEF d, g
<1>4. IsFiniteSet(DOMAIN g)
  BY <1>3, FS_Subset
<1>5. QED
  BY <1>1, <1>2, <1>3, <1>4 DEF MetricIsSound

LEMMA NewCacheIsEmpty == IsCache(NewCache) /\ KeysOf(NewCache) = {} /\ Held(NewCache) = {}
<1> DEFINE e == {}
<1>1. NewCache = [lru |-> <<>>, evicted |-> e, dims |-> Empty]
  BY DEF NewCache
<1> HIDE DEF e
<1>2. NewCache.lru = <<>> /\ NewCache.evicted = {} /\ NewCache.dims = <<>>
      /\ NewCache = [lru |-> NewCache.lru, evicted |-> NewCache.evicted, dims |-> NewCache.dims]
  BY <1>1 DEF Empty, e
<1>3. ToSet(<<>>) = {} /\ IsList(<<>>) /\ DOMAIN <<>> = {}
  BY DEF ToSet, IsList
<1>4. KeysOf(NewCache) = {}
  BY <1>2, <1>3 DEF KeysOf
<1>5. NewCache.dims = [k \in {} |-> NewCache.dims[k]]
  BY <1>2
<1>6. QED
  BY <1>2, <1>3, <1>4, <1>5 DEF IsCache, Held

\* Names that go leave what is tracked as it was.
LEMMA FewerNamesAreTracked ==
  ASSUME NEW a, IsSound(a), NEW b, AccIsSound(b), b.services = a.services,
         \A m \in Metrics : Held(b.cache[m]) \subseteq Held(a.cache[m])
  PROVE  IsSound(b)
<1>1. SpanMetrics3 \subseteq Metrics
  BY DEF SpanMetrics3, Metrics
<1>2. NamesIn(b) \subseteq NamesIn(a)
  BY <1>1 DEF NamesIn
<1>3. WithinLimits(NamesIn(b))
  BY <1>2, FewerNamesAreWithinLimits DEF IsSound, TracksNames
<1>4. QED
  BY <1>2, <1>3 DEF IsSound, TracksNames

\* An accumulator of given parts.
LEMMA PartsAreSound ==
  ASSUME NEW a, IsSound(a), NEW cs, NEW hs, cs = [m \in Metrics |-> cs[m]], hs = [m \in Metrics |-> hs[m]],
         \A m \in Metrics : MetricIsSound(cs[m], hs[m]) /\ Held(cs[m]) \subseteq Held(a.cache[m]),
         NEW b, b = [services |-> a.services, cache |-> cs, hist |-> hs]
  PROVE  IsSound(b)
<1>1. b.services = a.services /\ b.cache = cs /\ b.hist = hs
      /\ b = [services |-> b.services, cache |-> b.cache, hist |-> b.hist]
  OBVIOUS
<1>2. AccIsSound(b)
  BY <1>1 DEF AccIsSound, AccShape
<1>3. QED
  BY <1>1, <1>2, FewerNamesAreTracked

LEMMA BuiltIsSound ==
  ASSUME IsSound(acc), NEW out, \A m \in Metrics : HoldsAll(acc.cache[m], out[m].cache)
  PROVE  IsSound(BuildMetrics(out))
<1> DEFINE kept == [m \in Metrics |-> AfterBuild(out[m].cache, acc.hist[m])]
           kc   == [m \in Metrics |-> kept[m].cache]
           kh   == [m \in Metrics |-> kept[m].hist]
           next == [acc EXCEPT !.cache = kc, !.hist = kh]
           nc   == [m \in Metrics |-> NewCache]
           nh   == [m \in Metrics |-> Empty]
           fc   == [m \in Metrics |-> IF Reached(out, m) THEN out[m].cache ELSE acc.cache[m]]
           fails == [acc EXCEPT !.cache = fc]
           bad  == \E m \in Metrics : out[m].err
           built == BuildMetrics(out)
<1>1. built = IF bad THEN fails ELSE IF config.delta THEN [next EXCEPT !.cache = nc, !.hist = nh] ELSE next
  BY DEF BuildMetrics, ResetAccumulatedMetrics
<1>2. \A m \in Metrics : MetricIsSound(acc.cache[m], acc.hist[m])
  BY DEF IsSound, AccIsSound
<1>3. acc = [services |-> acc.services, cache |-> acc.cache, hist |-> acc.hist]
      /\ acc.hist = [m \in Metrics |-> acc.hist[m]]
  BY DEF IsSound, AccIsSound, AccShape
<1>4. ASSUME NEW m \in Metrics
      PROVE  /\ MetricIsSound(kc[m], kh[m])
             /\ Held(kc[m]) \subseteq Held(acc.cache[m])
             /\ MetricIsSound(fc[m], acc.hist[m]) /\ Held(fc[m]) \subseteq Held(acc.cache[m])
             /\ MetricIsSound(nc[m], nh[m]) /\ Held(nc[m]) \subseteq Held(acc.cache[m])
  <2>1. IsCache(out[m].cache) /\ KeysOf(out[m].cache) = KeysOf(acc.cache[m]) /\ out[m].cache.dims = acc.cache[m].dims
    BY DEF HoldsAll
  <2>2. Held(out[m].cache) = Held(acc.cache[m])
    BY <2>1 DEF Held
  <2>3. IsFiniteSet(DOMAIN acc.hist[m])
    BY <1>2 DEF MetricIsSound
  <2> DEFINE b == AfterBuild(out[m].cache, acc.hist[m])
  <2>4. MetricIsSound(b.cache, b.hist) /\ Held(b.cache) \subseteq Held(out[m].cache)
    BY <2>1, <2>3, AfterBuildIsSound
  <2>5. kc[m] = b.cache /\ kh[m] = b.hist
    OBVIOUS
  <2> HIDE DEF b, kc, kh, kept
  <2>6. MetricIsSound(out[m].cache, acc.hist[m])
    BY <1>2, <2>1 DEF MetricIsSound
  <2>7. fc[m] = out[m].cache \/ fc[m] = acc.cache[m]
    OBVIOUS
  <2>8. nc[m] = NewCache /\ nh[m] = Empty
    OBVIOUS
  <2>9. MetricIsSound(NewCache, Empty)
    BY NewCacheIsEmpty, FS_EmptySet DEF MetricIsSound, Empty
  <2> HIDE DEF fc, nc, nh
  <2>10. QED
    BY <1>2, <2>2, <2>4, <2>5, <2>6, <2>7, <2>8, <2>9, NewCacheIsEmpty
<1>5. /\ kc = [m \in Metrics |-> kc[m]] /\ kh = [m \in Metrics |-> kh[m]]
      /\ nc = [m \in Metrics |-> nc[m]] /\ nh = [m \in Metrics |-> nh[m]]
      /\ fc = [m \in Metrics |-> fc[m]]
  OBVIOUS
<1> HIDE DEF kept, kc, kh, nc, nh, fc, bad
<1>6. fails = [services |-> acc.services, cache |-> fc, hist |-> acc.hist]
  BY <1>3
<1>7. next = [services |-> acc.services, cache |-> kc, hist |-> kh]
  <2> DEFINE half == [acc EXCEPT !.cache = kc]
  <2>1. half = [services |-> acc.services, cache |-> kc, hist |-> acc.hist]
    BY <1>3
  <2>2. next = [half EXCEPT !.hist = kh]
    BY <1>3
  <2> HIDE DEF half, next
  <2>3. QED
    BY <2>1, <2>2
<1> HIDE DEF fails, next, built
<1>8. CASE bad
  <2>1. built = [services |-> acc.services, cache |-> fc, hist |-> acc.hist]
    BY <1>1, <1>6, <1>8
  <2>2. QED
    BY <1>3, <1>4, <1>5, <2>1, PartsAreSound DEF built
<1>9. CASE ~bad /\ config.delta
  <2>1. built = [services |-> acc.services, cache |-> nc, hist |-> nh]
    BY <1>1, <1>7, <1>9
  <2>2. QED
    BY <1>4, <1>5, <2>1, PartsAreSound DEF built
<1>10. CASE ~bad /\ ~config.delta
  <2>1. built = [services |-> acc.services, cache |-> kc, hist |-> kh]
    BY <1>1, <1>7, <1>10
  <2>2. QED
    BY <1>4, <1>5, <2>1, PartsAreSound DEF built
<1>11. QED
  BY <1>8, <1>9, <1>10

LEMMA ExportedIsSound ==
  ASSUME IsSound(acc), ExportMetrics
  PROVE  IsSound(acc')
<1>1. PICK a \in Ranges(DOMAIN acc.hist["latency"]), b \in Ranges(DOMAIN acc.hist["exp"]),
           c \in Ranges(DOMAIN acc.hist["call"]), d \in Ranges(DOMAIN acc.hist["external"]),
           e \in Ranges(DOMAIN acc.hist["db"]) :
        LET order == [latency |-> a, exp |-> b, call |-> c, external |-> d, db |-> e]
        IN acc' = BuildMetrics([m \in Metrics |-> Collect(m, order[m])])
  BY DEF ExportMetrics
<1> DEFINE order == [latency |-> a, exp |-> b, call |-> c, external |-> d, db |-> e]
           out   == [m \in Metrics |-> Collect(m, order[m])]
<1>2. \A m \in Metrics : IsFiniteSet(DOMAIN acc.hist[m]) /\ IsCache(acc.cache[m])
  BY DEF IsSound, AccIsSound, MetricIsSound
<1>3. Len(a) \in Nat /\ Len(b) \in Nat /\ Len(c) \in Nat /\ Len(d) \in Nat /\ Len(e) \in Nat
  BY <1>2, RangesAreSequences DEF Metrics
<1>4. \A m \in Metrics : Len(order[m]) \in Nat
  BY <1>3 DEF Metrics
<1>5. acc' = BuildMetrics(out)
  BY <1>1
<1> HIDE DEF order
<1>6. ASSUME NEW m \in Metrics PROVE HoldsAll(acc.cache[m], out[m].cache)
  <2>1. HoldsAll(acc.cache[m], Collect(m, order[m]).cache)
    BY <1>2, <1>4, CollectedAll
  <2>2. QED
    BY <2>1
<1> HIDE DEF out
<1>7. QED
  BY <1>5, <1>6, BuiltIsSound

LEMMA SpanMetricsStart == SmInit => IsSound(acc)
<1> SUFFICES ASSUME SmInit PROVE IsSound(acc)
  OBVIOUS
<1> DEFINE nc == [m \in Metrics |-> NewCache]
           nh == [m \in Metrics |-> Empty]
<1>1. acc = [services |-> Empty, cache |-> nc, hist |-> nh]
  BY DEF SmInit
<1>2. /\ nc = [m \in Metrics |-> nc[m]] /\ nh = [m \in Metrics |-> nh[m]]
      /\ \A m \in Metrics : nc[m] = NewCache /\ nh[m] = Empty
  OBVIOUS
<1> HIDE DEF nc, nh
<1>3. acc.services = Empty /\ acc.cache = nc /\ acc.hist = nh
      /\ acc = [services |-> acc.services, cache |-> acc.cache, hist |-> acc.hist]
  BY <1>1
<1>4. DOMAIN Empty = {} /\ IsFiniteSet({}) /\ Cardinality({}) = 0
  BY FS_EmptySet DEF Empty
<1>5. AccIsSound(acc)
  BY <1>2, <1>3, <1>4, NewCacheIsEmpty DEF AccIsSound, AccShape, MetricIsSound
<1>6. NamesIn(acc) = {}
  <2>1. SpanMetrics3 \subseteq Metrics
    BY DEF SpanMetrics3, Metrics
  <2>2. QED
    BY <1>2, <1>3, <2>1, NewCacheIsEmpty DEF NamesIn
<1>7. AreTracked(acc.services)
  BY <1>3, <1>4 DEF AreTracked
<1>8. WithinLimits({})
  <2>1. ServicesNamed({}) = {} /\ \A svc : OperationsNamed({}, svc) = {}
    BY DEF ServicesNamed, OperationsNamed
  <2>2. QED
    BY <1>4, <2>1, SpanMetricsAssumption DEF WithinLimits, AtMost
<1>9. QED
  BY <1>5, <1>6, <1>7, <1>8 DEF IsSound, TracksNames

LEMMA SpanMetricsGoOn ==
  ASSUME IsSound(acc), [SmNext]_smVars
  PROVE  IsSound(acc')
<1>1. ASSUME NEW span \in Spans, ConsumeTraces(span) PROVE IsSound(acc')
  BY <1>1, AggregatedIsSound DEF ConsumeTraces
<1>2. CASE ExportMetrics
  BY <1>2, ExportedIsSound
<1>3. CASE ConsumeMetrics \/ SmShutdown \/ SmShutdownReturns \/ UNCHANGED smVars
  BY <1>3 DEF ConsumeMetrics, SmShutdown, SmShutdownReturns, smVars
<1>4. QED
  BY <1>1, <1>2, <1>3 DEF SmNext

SmInv == IsSound(acc)

\* The caches and histograms of a span metrics processor, and the names of services and
\* operations it tracks, agree (processor.go:559-623, 1070-1155, 1175-1278; cache.go:57-76).
THEOREM SpanMetricsInvariant == SmSpec => []SmInv
<1>1. SmInv /\ [SmNext]_smVars => SmInv'
  BY SpanMetricsGoOn DEF SmInv
<1>2. SmInit => SmInv
  BY SpanMetricsStart DEF SmInv
<1>3. QED
  BY <1>1, <1>2, PTL DEF SmSpec

LEMMA SoundNamesAreBounded ==
  ASSUME SmInv
  PROVE  NamesAreBounded
<1> SUFFICES ASSUME NEW m \in {"latency", "exp", "call"}
             PROVE  LET names == {acc.cache[m].dims[k].names : k \in DOMAIN acc.cache[m].dims}
                    IN /\ Cardinality({n[1] : n \in names}) <= MaxServices + 1
                       /\ \A svc \in {n[1] : n \in names} :
                            Cardinality({n[2] : n \in {x \in names : x[1] = svc}})
                              <= MaxOperations + (IF svc = Overflow THEN 2 ELSE 1)
  BY DEF NamesAreBounded
<1> DEFINE N == {acc.cache[m].dims[k].names : k \in DOMAIN acc.cache[m].dims}
           sv == acc.services
<1>1. N \subseteq NamesIn(acc)
  <2>1. ASSUME NEW k \in DOMAIN acc.cache[m].dims
        PROVE  acc.cache[m].dims[k].names \in NamesIn(acc)
    <3>1. acc.cache[m].dims[k] \in Held(acc.cache[m]) /\ m \in SpanMetrics3
      BY DEF Held, SpanMetrics3
    <3>2. QED
      BY <3>1 DEF NamesIn
  <2>2. QED
    BY <2>1
<1>2. /\ AreTracked(sv) /\ WithinLimits(NamesIn(acc))
      /\ \A n \in NamesIn(acc) : IsTracked(sv, n)
  BY DEF SmInv, IsSound, TracksNames
<1> HIDE DEF N, sv
<1>3. WithinLimits(N) /\ \A n \in N : IsTracked(sv, n)
  BY <1>1, <1>2, FewerNamesAreWithinLimits
<1>4. ASSUME NEW S, NEW n \in Nat, AtMost(S \ {Overflow}, n) PROVE Cardinality(S) <= n + 1
  <2> DEFINE R == S \ {Overflow}
  <2>1. /\ IsFiniteSet(R) /\ Cardinality(R) \in Nat /\ Cardinality(R) <= n /\ S \subseteq R \cup {Overflow}
    BY <1>4, FS_CardinalityType DEF AtMost
  <2> HIDE DEF R
  <2>2. IsFiniteSet(R \cup {Overflow}) /\ Cardinality(R \cup {Overflow}) <= n + 1 /\ Cardinality(R \cup {Overflow}) \in Nat
    BY <2>1, FS_AddElement
  <2>3. IsFiniteSet(S) /\ Cardinality(S) <= Cardinality(R \cup {Overflow})
    BY <2>1, <2>2, FS_Subset
  <2>4. Cardinality(S) \in Nat
    BY <2>3, FS_CardinalityType
  <2>5. QED
    BY <2>2, <2>3, <2>4
<1>5. Cardinality({n[1] : n \in N}) <= MaxServices + 1
  BY <1>3, <1>4, SpanMetricsAssumption DEF WithinLimits, ServicesNamed
<1>6. ASSUME NEW svc
      PROVE  Cardinality({n[2] : n \in {x \in N : x[1] = svc}})
               <= MaxOperations + (IF svc = Overflow THEN 2 ELSE 1)
  <2> DEFINE S == {n[2] : n \in {x \in N : x[1] = svc}}
  <2>1. CASE svc # Overflow
    BY <1>3, <1>4, <2>1, SpanMetricsAssumption DEF WithinLimits, OperationsNamed
  <2>2. CASE svc = Overflow
    <3> DEFINE T == IF Overflow \in DOMAIN sv THEN sv[Overflow] \ {Overflow} ELSE {}
    <3>1. AtMost(T, MaxOperations + 1)
      <4>1. CASE Overflow \in DOMAIN sv
        <5>1. IsFiniteSet(sv[Overflow]) /\ sv[Overflow] \ {Overflow} \subseteq sv[Overflow]
              /\ Cardinality(sv[Overflow] \ {Overflow}) <= MaxOperations + 1
          BY <1>2, <4>1 DEF AreTracked
        <5>2. IsFiniteSet(sv[Overflow] \ {Overflow})
          BY <5>1, FS_Subset
        <5>3. QED
          BY <4>1, <5>1, <5>2 DEF AtMost
      <4>2. CASE Overflow \notin DOMAIN sv
        BY <4>2, FS_EmptySet, SpanMetricsAssumption DEF AtMost
      <4>3. QED
        BY <4>1, <4>2
    <3>2. S \ {Overflow} \subseteq T
      BY <1>3, <2>2 DEF IsTracked
    <3> HIDE DEF S, T
    <3>3. MaxOperations + 1 \in Nat
      BY SpanMetricsAssumption
    <3>4. AtMost(S \ {Overflow}, MaxOperations + 1)
      BY <3>1, <3>2, <3>3, AtMostSubset
    <3>5. Cardinality(S) <= (MaxOperations + 1) + 1
      BY <1>4, <3>3, <3>4
    <3>6. QED
      BY <2>2, <3>5, SpanMetricsAssumption DEF S
  <2>3. QED
    BY <2>1, <2>2
<1>7. QED
  BY <1>5, <1>6 DEF N

\* However the caches evict and revive, in whatever order a build ranges over the maps, every
\* histogram finds its dimensions, so that no build fails; and what is exported names no more
\* services and operations than the limits allow, whatever spans pass and whatever the limits
\* and the size of the caches are (processor.go:559-623, 1176-1183, 1249-1262; cache.go:57-76).
THEOREM SpanMetricsCachesAreSound == SmSpec => []CachesAreSound
<1>1. SmInv => BuildNeverFails
  BY CacheHasItems DEF SmInv, IsSound, AccIsSound, MetricIsSound, BuildNeverFails
<1>2. SmInv => CachesAreSound
  BY <1>1, SoundNamesAreBounded DEF CachesAreSound
<1>3. QED
  BY <1>2, SpanMetricsInvariant, PTL

-----------------------------------------------------------------------------
(* The tail sampler's policies: what a filter says                         *)

\* The strings that a filter looks at, and what it may remember of them.
ValuesOf(p) ==
  UNION {{Traces[id].items[i].attrs[p.key].str : i \in {i \in DOMAIN Traces[id].items : LooksAt(p, Traces[id].items[i])}}
           : id \in DOMAIN Traces}
Truth(p, v) == [value |-> v, hit |-> Matches(p, v)]
Truths(p) == {Truth(p, v) : v \in ValuesOf(p)}

LEMMA MatchesIsBoolean ==
  ASSUME NEW p, NEW v
  PROVE  Matches(p, v) \in BOOLEAN
<1>1. CASE p.regex
  <2>1. Matches(p, v) = (\E x \in p.values : <<x, v>> \in RegexMatches)
    BY <1>1 DEF Matches
  <2>2. (\E x \in p.values : <<x, v>> \in RegexMatches) \in BOOLEAN
    BY Zenon
  <2>3. QED
    BY <2>1, <2>2
<1>2. CASE ~p.regex
  <2>1. Matches(p, v) = (v \in p.values \ {""})
    BY <1>2 DEF Matches
  <2>2. (v \in p.values \ {""}) \in BOOLEAN
    OBVIOUS
  <2>3. QED
    BY <2>1, <2>2
<1>3. QED
  BY <1>1, <1>2

\* The cache of regular expressions tells what a search would.
LEMMA MatcherIsTrue ==
  ASSUME NEW p, p.regex => p.cacheSize \in Nat \ {0}, NEW c \in Seq(Truths(p)), NEW v \in ValuesOf(p)
  PROVE  /\ Matcher(p, c, v) = [hit |-> Matches(p, v), cache |-> Matcher(p, c, v).cache]
         /\ Matcher(p, c, v).cache \in Seq(Truths(p))
<1> DEFINE T == Truths(p)
<1>1. Truth(p, v) \in T
  BY DEF Truths
<1>2. \A e \in T : e.hit = Matches(p, e.value)
  BY DEF Truths, Truth
<1> HIDE DEF T
<1>3. c \in Seq(T)
  BY DEF T
<1>4. CASE p.regex /\ IsCached(c, v)
  <2> DEFINE i == Place(c, v)
             r == <<c[i]>> \o RemoveAt(c, i)
  <2>1. i \in DOMAIN c /\ c[i].value = v
    BY <1>4 DEF IsCached, Place
  <2>2. Matcher(p, c, v) = [hit |-> c[i].hit, cache |-> r]
    BY <1>4 DEF Matcher
  <2> HIDE DEF i
  <2>3. i \in 1..Len(c) /\ c[i] \in T
    BY <1>3, <2>1
  <2>4. c[i].hit = Matches(p, v)
    BY <1>2, <2>1, <2>3
  <2>5. SubSeq(c, 1, i - 1) \in Seq(T) /\ SubSeq(c, i + 1, Len(c)) \in Seq(T)
    BY <1>3, <2>3
  <2>6. RemoveAt(c, i) \in Seq(T)
    BY <2>5 DEF RemoveAt
  <2>7. r \in Seq(T)
    BY <2>3, <2>6
  <2> HIDE DEF r
  <2>8. QED
    BY <2>2, <2>4, <2>7 DEF T
<1>5. CASE ~(p.regex /\ IsCached(c, v))
  <2> DEFINE all == <<Truth(p, v)>> \o c
  <2>1. Matcher(p, c, v) = [hit |-> Matches(p, v),
                            cache |-> IF p.regex THEN CacheAdd(p, c, v, Matches(p, v)) ELSE c]
    BY <1>5 DEF Matcher
  <2>2. all \in Seq(T)
    BY <1>1, <1>3
  <2>3. CacheAdd(p, c, v, Matches(p, v)) = IF Len(all) > p.cacheSize THEN SubSeq(all, 1, p.cacheSize) ELSE all
    BY DEF CacheAdd, Truth
  <2> HIDE DEF all
  <2>4. p.regex => CacheAdd(p, c, v, Matches(p, v)) \in Seq(T)
    <3> SUFFICES ASSUME p.regex PROVE CacheAdd(p, c, v, Matches(p, v)) \in Seq(T)
      OBVIOUS
    <3>1. CASE Len(all) > p.cacheSize
      <4>1. SubSeq(all, 1, p.cacheSize) \in Seq(T)
        BY <2>2, <3>1
      <4>2. QED
        BY <2>3, <3>1, <4>1
    <3>2. CASE ~(Len(all) > p.cacheSize)
      BY <2>2, <2>3, <3>2
    <3>3. QED
      BY <3>1, <3>2
  <2>5. QED
    BY <1>3, <2>1, <2>4 DEF T
<1>6. QED
  BY <1>4, <1>5

\* What the filter looks for is there.
IsFound(p, t, n) == \E i \in 1..n : LooksAt(p, t.items[i]) /\ Matches(p, t.items[i].attrs[p.key].str)

\* Len and DOMAIN of the items of a trace.
LEMMA ItemsAreCounted ==
  ASSUME NEW id \in DOMAIN Traces
  PROVE  Len(Traces[id].items) \in Nat /\ DOMAIN Traces[id].items = 1..Len(Traces[id].items)
BY SamplingPoliciesAssumption DEF TracesAreWellFormed

\* The search finds what is there, whatever the cache holds.
LEMMA SearchIsTrue ==
  ASSUME NEW p, p.regex => p.cacheSize \in Nat \ {0}, NEW c \in Seq(Truths(p)), NEW id \in DOMAIN Traces
  PROVE  LET t == Traces[id]
             found == Search(p, c, t)
         IN /\ found.hit = IsFound(p, t, Len(t.items))
            /\ found.cache \in Seq(Truths(p))
<1> DEFINE t == Traces[id]
           n == Len(t.items)
           C == Seq(Truths(p))
           S == [hit : BOOLEAN, cache : C]
           base == [hit |-> FALSE, cache |-> c]
           passed(a, i) == a.hit \/ ~LooksAt(p, t.items[i])
           next(a, i) == IF passed(a, i) THEN a ELSE Matcher(p, a.cache, t.items[i].attrs[p.key].str)
           h == [x \in S \X (1..n) |-> next(x[1], x[2])]
           Iterates(f) == f = [i \in 0..Len(t.items) |->
                                IF i = 0 THEN [hit |-> FALSE, cache |-> c]
                                ELSE IF f[i - 1].hit \/ ~LooksAt(p, t.items[i]) THEN f[i - 1]
                                ELSE Matcher(p, f[i - 1].cache, t.items[i].attrs[p.key].str)]
           found == CHOOSE f : Iterates(f)
<1>1. Search(p, c, t) = found[n]
  BY DEF Search, LookAt
<1>2. n \in Nat /\ DOMAIN t.items = 1..n
  BY ItemsAreCounted
<1>3. ASSUME NEW i \in 1..n, LooksAt(p, t.items[i]) PROVE t.items[i].attrs[p.key].str \in ValuesOf(p)
  <2> DEFINE looked == {j \in DOMAIN t.items : LooksAt(p, t.items[j])}
             values(x) == {Traces[x].items[j].attrs[p.key].str :
                             j \in {j \in DOMAIN Traces[x].items : LooksAt(p, Traces[x].items[j])}}
  <2>1. i \in looked
    BY <1>2, <1>3
  <2> HIDE DEF looked
  <2>2. t.items[i].attrs[p.key].str \in {t.items[j].attrs[p.key].str : j \in looked}
    BY <2>1
  <2>3. t.items[i].attrs[p.key].str \in values(id)
    BY <2>2 DEF looked
  <2>4. ValuesOf(p) = UNION {values(x) : x \in DOMAIN Traces}
    BY DEF ValuesOf
  <2> HIDE DEF values
  <2>5. QED
    BY <2>3, <2>4
<1> HIDE DEF C
<1>4. base \in S
  BY DEF C
<1>5. ASSUME NEW a \in S, NEW i \in 1..n
      PROVE  /\ next(a, i) \in S
             /\ passed(a, i) => next(a, i) = a
             /\ ~passed(a, i) => next(a, i).hit = Matches(p, t.items[i].attrs[p.key].str)
  <2>1. CASE passed(a, i)
    BY <2>1
  <2>2. CASE ~passed(a, i)
    <3> DEFINE v == t.items[i].attrs[p.key].str
               m == Matcher(p, a.cache, v)
    <3>1. v \in ValuesOf(p)
      BY <1>3, <2>2
    <3>2. a.cache \in Seq(Truths(p))
      BY DEF C
    <3> HIDE DEF v
    <3>3. m = [hit |-> Matches(p, v), cache |-> m.cache] /\ m.cache \in C
      BY <3>1, <3>2, MatcherIsTrue DEF C
    <3>4. next(a, i) = m
      BY <2>2 DEF v
    <3>5. Matches(p, v) \in BOOLEAN
      BY MatchesIsBoolean
    <3> HIDE DEF m, next, passed
    <3>6. m \in S /\ m.hit = Matches(p, v)
      BY <3>3, <3>5
    <3>7. QED
      BY <2>2, <3>4, <3>6 DEF v
  <2>3. QED
    BY <2>1, <2>2
<1> HIDE DEF S, next, passed
<1>6. h \in [S \X (1..n) -> S] /\ \A a \in S, i \in 1..n : h[<<a, i>>] = next(a, i)
  BY <1>5
<1> HIDE DEF h, base
<1>7. PICK f \in [0..n -> S] : f[0] = base /\ \A i \in 1..n : f[i] = h[<<f[i - 1], i>>]
  <2> HIDE DEF n
  <2>1. HasIteration(n, S, base, h)
    BY <1>2, <1>4, <1>6, IterationExists
  <2>2. QED
    BY <2>1 DEF HasIteration
<1>8. Iterates(f)
  <2>1. \A i \in 1..n : f[i] = next(f[i - 1], i)
    <3>1. ASSUME NEW i \in 1..n PROVE f[i] = next(f[i - 1], i)
      <4>1. i - 1 \in 0..n
        BY <1>2
      <4>2. f[i - 1] \in S
        BY <4>1
      <4>3. QED
        BY <1>6, <1>7, <4>2
    <3>2. QED
      BY <3>1
  <2>2. ASSUME NEW i \in 0..n
        PROVE  f[i] = IF i = 0 THEN [hit |-> FALSE, cache |-> c]
                      ELSE IF f[i - 1].hit \/ ~LooksAt(p, t.items[i]) THEN f[i - 1]
                      ELSE Matcher(p, f[i - 1].cache, t.items[i].attrs[p.key].str)
    <3>1. CASE i = 0
      BY <1>7, <3>1 DEF base
    <3>2. CASE i # 0
      <4>1. i \in 1..n
        BY <1>2, <3>2
      <4>2. f[i] = next(f[i - 1], i)
        BY <2>1, <4>1
      <4>3. QED
        BY <3>2, <4>2 DEF next, passed
    <3>3. QED
      BY <3>1, <3>2
  <2>3. QED
    BY <2>2
<1>9. Iterates(found)
  BY <1>8, Zenon
<1> HIDE DEF found
<1>10. found[0] = base /\ \A i \in 1..n : found[i] = next(found[i - 1], i)
  <2>1. 0 \in 0..n /\ \A i \in 1..n : i \in 0..n /\ i # 0
    BY <1>2
  <2>2. \A i \in 0..n : found[i] = IF i = 0 THEN [hit |-> FALSE, cache |-> c]
                      ELSE IF found[i - 1].hit \/ ~LooksAt(p, t.items[i]) THEN found[i - 1]
                      ELSE Matcher(p, found[i - 1].cache, t.items[i].attrs[p.key].str)
    BY <1>9
  <2>3. found[0] = base
    BY <2>1, <2>2 DEF base
  <2>4. ASSUME NEW i \in 1..n PROVE found[i] = next(found[i - 1], i)
    BY <2>1, <2>2 DEF next, passed
  <2>5. QED
    BY <2>3, <2>4
<1> DEFINE D == {i \in 0..n : found[i] \in S /\ (found[i].hit <=> IsFound(p, t, i))}
<1>11. 0 \in D
  <2>1. ~ IsFound(p, t, 0)
    BY DEF IsFound
  <2>2. base.hit = FALSE
    BY DEF base
  <2>3. QED
    BY <1>2, <1>4, <1>10, <2>1, <2>2
<1>12. ASSUME NEW i \in 0..(n - 1), i \in D PROVE i + 1 \in D
  <2>1. i + 1 \in 1..n /\ (i + 1) - 1 = i /\ i \in Nat
    BY <1>2
  <2>2. found[i + 1] = next(found[i], i + 1)
    BY <1>10, <2>1
  <2>3. found[i] \in S /\ (found[i].hit <=> IsFound(p, t, i))
    BY <1>12
  <2>4. found[i + 1] \in S
    BY <1>5, <2>1, <2>2, <2>3
  <2>5. \A j \in 1..(i + 1) : j = i + 1 \/ j \in 1..i
    BY <2>1
  <2>6. \A j \in 1..i : j \in 1..(i + 1)
    BY <2>1
  <2>7. i + 1 \in 1..(i + 1)
    BY <2>1
  <2>8. IsFound(p, t, i + 1) <=>
          \/ IsFound(p, t, i)
          \/ LooksAt(p, t.items[i + 1]) /\ Matches(p, t.items[i + 1].attrs[p.key].str)
    BY <2>5, <2>6, <2>7, Zenon DEF IsFound
  <2>9. found[i + 1].hit <=> IsFound(p, t, i + 1)
    <3>1. CASE passed(found[i], i + 1)
      <4>1. found[i + 1] = found[i]
        BY <1>5, <2>1, <2>2, <2>3, <3>1
      <4>2. found[i].hit \/ ~LooksAt(p, t.items[i + 1])
        BY <3>1 DEF passed
      <4>3. QED
        BY <2>3, <2>8, <4>1, <4>2
    <3>2. CASE ~passed(found[i], i + 1)
      <4>1. found[i + 1].hit = Matches(p, t.items[i + 1].attrs[p.key].str)
        BY <1>5, <2>1, <2>2, <2>3, <3>2
      <4>2. ~found[i].hit /\ LooksAt(p, t.items[i + 1])
        BY <3>2 DEF passed
      <4>3. QED
        BY <2>3, <2>8, <4>1, <4>2
    <3>3. QED
      BY <3>1, <3>2
  <2>10. QED
    BY <2>1, <2>4, <2>9
<1> HIDE DEF D
<1>13. n \in D
  <2> HIDE DEF n
  <2>1. 0..n \subseteq D
    BY <1>2, <1>11, <1>12, UpTo
  <2>2. QED
    BY <1>2, <2>1
<1>14. found[n] \in S /\ (found[n].hit <=> IsFound(p, t, n))
  BY <1>13 DEF D
<1>15. found[n].hit \in BOOLEAN /\ found[n].cache \in C
  BY <1>14 DEF S
<1>16. IsFound(p, t, n) \in BOOLEAN
  BY DEF IsFound
<1>17. found[n].hit = IsFound(p, t, n)
  BY <1>14, <1>15, <1>16
<1>18. QED
  BY <1>1, <1>15, <1>17 DEF C

\* What evaluator n remembers is well-formed, and true.
Remembers(n, m) ==
  /\ m = [second |-> m.second, spans |-> m.spans, cache |-> m.cache]
  /\ m.second \in Nat /\ m.second <= second
  /\ m.spans \in [Evaluators -> Nat]
  /\ Kind(n) = "string" => m.cache \in Seq(Truths(Policies[n]))

\* What a leaf says by its kind: inverted filters have verdicts of their own.
Inverts(n) == Kind(n) = "string" /\ Policies[n].invert

LEMMA StringSays ==
  ASSUME NEW n \in Evaluators, Kind(n) = "string", Remembers(n, memory[n]), NEW id \in DOMAIN Traces
  PROVE  LET t == Traces[id]
         IN /\ Says(n, t) = Answer(Policies[n], IsFound(Policies[n], t, Len(t.items)))
            /\ Remembers(n, Leaf(n, t).mem)
<1> DEFINE t == Traces[id]
           p == Policies[n]
           found == Search(p, memory[n].cache, t)
           r == [decision |-> Answer(p, found.hit), mem |-> [memory[n] EXCEPT !.cache = found.cache]]
<1>1. p.regex => p.cacheSize \in Nat \ {0}
  BY SamplingPoliciesAssumption DEF PoliciesAreWellFormed, Kind
<1>2. memory[n].cache \in Seq(Truths(p))
  BY DEF Remembers
<1> HIDE DEF p
<1>3. found.hit = IsFound(p, t, Len(t.items)) /\ found.cache \in Seq(Truths(p))
  BY <1>1, <1>2, SearchIsTrue
<1>4. Leaf(n, t) = r
  BY DEF Leaf, StringAttributeFilter, p
<1> HIDE DEF found, t
<1>5. Says(n, t) = Answer(p, found.hit) /\ Leaf(n, t).mem = [memory[n] EXCEPT !.cache = found.cache]
  BY <1>4 DEF Says
<1>6. Remembers(n, [memory[n] EXCEPT !.cache = found.cache])
  BY <1>3 DEF Remembers, p
<1>7. QED
  BY <1>3, <1>5, <1>6 DEF p, t

\* A filter that is not a string's decides by the trace alone.
LEMMA OthersSay ==
  ASSUME NEW n \in Evaluators, Kind(n) \notin {"string", "rate"}, NEW t
  PROVE  Says(n, t) = DecisionOf(Policies[n], t) /\ Leaf(n, t).mem = memory[n]
BY DEF Says, Leaf

LEMMA DecisionIsOne ==
  ASSUME NEW n \in Leaves, Kind(n) \notin {"string", "rate"}, NEW t
  PROVE  DecisionOf(Policies[n], t) \in {"Sampled", "NotSampled"}
<1> DEFINE p == Policies[n]
<1>1. \A b : SampledIf(b) \in {"Sampled", "NotSampled"}
  BY DEF SampledIf
<1>2. CASE p.kind = "numeric"
  <2>1. DecisionOf(p, t) = NumericAttributeFilter(p, t)
    BY <1>2 DEF DecisionOf
  <2>2. QED
    BY <1>1, <2>1 DEF NumericAttributeFilter
<1>3. CASE p.kind = "status"
  <2>1. DecisionOf(p, t) = StatusCodeFilter(p, t)
    BY <1>3 DEF DecisionOf
  <2>2. QED
    BY <1>1, <2>1 DEF StatusCodeFilter
<1>4. CASE p.kind = "state"
  <2>1. DecisionOf(p, t) = TraceStateFilter(p, t)
    BY <1>4 DEF DecisionOf
  <2>2. QED
    BY <1>1, <2>1 DEF TraceStateFilter
<1>5. CASE p.kind = "count"
  <2>1. DecisionOf(p, t) = SpanCountFilter(p, t)
    BY <1>5 DEF DecisionOf
  <2>2. QED
    BY <1>1, <2>1 DEF SpanCountFilter
<1>6. CASE p.kind = "latency"
  <2>1. DecisionOf(p, t) = Latency(p, t)
    BY <1>6 DEF DecisionOf
  <2>2. QED
    BY <1>1, <2>1 DEF Latency
<1>7. CASE p.kind = "probabilistic"
  <2>1. DecisionOf(p, t) = ProbabilisticSampler(p.percent, t)
    BY <1>7 DEF DecisionOf
  <2>2. QED
    BY <1>1, <2>1 DEF ProbabilisticSampler
<1>8. CASE p.kind \in {"always", "never"}
  BY <1>8 DEF DecisionOf
<1>9. QED
  BY <1>2, <1>3, <1>4, <1>5, <1>6, <1>7, <1>8 DEF Leaves, Kind

\* When no span starts at zero, a search in order finds the same latency as one without.
LEMMA LatencyIsOfTheTrace ==
  ASSUME NEW p, p.threshold \in Int, NEW id \in DOMAIN Traces, \A s \in SpansOf(Traces[id]) : s.start > 0
  PROVE  Latency(p, Traces[id]) = "Sampled" <=>
         \E a, b \in SpansOf(Traces[id]) : b.end - a.start >= p.threshold
<1> DEFINE t == Traces[id]
           P == Positions(t)
           hit == \E k \in P : \E i \in {i \in P : i <= k}, start \in StartsAt(t, k) :
                     Span(t, i).end - start >= p.threshold
<1>1. P \subseteq Nat /\ \A i \in P : Span(t, i) \in SpansOf(t)
  <2>1. P \subseteq Nat
    BY ItemsAreCounted DEF Positions
  <2>2. QED
    BY <2>1 DEF SpansOf, Span
<1>2. \A s \in SpansOf(t) : \E i \in P : s = Span(t, i)
  BY DEF SpansOf, Span
<1>3. \A i \in P : Span(t, i).start # 0
  <2> HIDE DEF P, t
  <2>1. QED
    BY <1>1 DEF t
<1>4. ASSUME NEW k \in P PROVE StartsAt(t, k) = {Span(t, i).start : i \in {i \in P : i <= k}}
  <2>1. {i \in P : i <= k /\ \A j \in P : i <= j /\ j <= k => Span(t, j).start # 0} = {i \in P : i <= k}
    <3> HIDE DEF P, t
    <3>1. QED
      BY <1>3
  <2>2. QED
    BY <1>3, <2>1 DEF StartsAt
<1>5. Latency(p, t) = SampledIf(hit)
  BY DEF Latency
<1>6. hit <=> \E a, b \in SpansOf(t) : b.end - a.start >= p.threshold
  <2> HIDE DEF t, P
  <2>1. ASSUME hit PROVE \E a, b \in SpansOf(t) : b.end - a.start >= p.threshold
    <3>4. PICK k \in P : \E i \in {i \in P : i <= k}, start \in StartsAt(t, k) :
                           Span(t, i).end - start >= p.threshold
      BY <2>1
    <3>1. PICK i \in P, start \in StartsAt(t, k) : Span(t, i).end - start >= p.threshold
      BY <3>4
    <3>2. PICK j \in P : start = Span(t, j).start
      BY <1>4, <3>1
    <3>3. QED
      BY <1>1, <3>1, <3>2
  <2>2. ASSUME NEW a \in SpansOf(t), NEW b \in SpansOf(t), b.end - a.start >= p.threshold PROVE hit
    <3>1. PICK i \in P, j \in P : b = Span(t, i) /\ a = Span(t, j)
      BY <1>2
    <3>2. PICK k \in P : i <= k /\ j <= k
      <4>1. i <= j \/ j <= i
        BY <1>1
      <4>2. i <= i /\ j <= j
        BY <1>1
      <4>3. QED
        BY <4>1, <4>2
    <3>3. a.start \in StartsAt(t, k)
      BY <1>4, <3>1, <3>2
    <3>4. Span(t, i).end - a.start >= p.threshold
      BY <2>2, <3>1
    <3>5. QED
      BY <3>2, <3>3, <3>4
  <2>3. QED
    BY <2>1, <2>2
<1> HIDE DEF hit
<1>7. Latency(p, t) = "Sampled" <=> hit
  BY <1>5 DEF SampledIf
<1>8. QED
  BY <1>6, <1>7

\* The verdict on a trace, of a filter that depends on it alone.
LEMMA LeafSays ==
  ASSUME NEW n \in Leaves, Kind(n) # "rate", Remembers(n, memory[n]), NEW id \in DOMAIN Traces,
         Kind(n) = "latency" => \A s \in SpansOf(Traces[id]) : s.start > 0
  PROVE  LET t == Traces[id]
         IN /\ Inverts(n) => Says(n, t) = IF Claims(n, t) THEN "InvertSampled" ELSE "InvertNotSampled"
            /\ ~Inverts(n) => Says(n, t) = IF Claims(n, t) THEN "Sampled" ELSE "NotSampled"
<1> DEFINE t == Traces[id]
           p == Policies[n]
<1>1. n \in Evaluators
  BY DEF Leaves
<1>2. CASE Kind(n) = "string"
  <2> DEFINE found == IsFound(p, t, Len(t.items))
  <2>1. Says(n, t) = Answer(p, found)
    BY <1>1, <1>2, StringSays
  <2>2. Claims(n, t) = (found # p.invert)
    <3>1. DOMAIN t.items = 1..Len(t.items)
      BY ItemsAreCounted
    <3>2. (\E i \in DOMAIN t.items : LooksAt(p, t.items[i]) /\ Matches(p, t.items[i].attrs[p.key].str)) = found
      BY <3>1 DEF IsFound
    <3> HIDE DEF found, t
    <3>3. Claims(n, t) = ((\E i \in DOMAIN t.items : LooksAt(p, t.items[i]) /\ Matches(p, t.items[i].attrs[p.key].str)) # p.invert)
      BY <1>2 DEF Claims, Kind
    <3>4. QED
      BY <3>2, <3>3
  <2>3. p.invert \in BOOLEAN /\ found \in BOOLEAN
    BY <1>1, <1>2, SamplingPoliciesAssumption DEF PoliciesAreWellFormed, IsFound
  <2> HIDE DEF found, t
  <2>4. CASE p.invert = TRUE
    <3>1. Inverts(n)
      BY <1>2, <2>4 DEF Inverts
    <3>2. CASE found = TRUE
      <4>1. Says(n, t) = "InvertNotSampled"
        BY <2>1, <2>4, <3>2 DEF Answer
      <4>2. ~Claims(n, t)
        BY <2>2, <2>4, <3>2
      <4>3. QED
        BY <3>1, <4>1, <4>2 DEF t
    <3>3. CASE found = FALSE
      <4>1. Says(n, t) = "InvertSampled"
        BY <2>1, <2>4, <3>3 DEF Answer
      <4>2. Claims(n, t)
        BY <2>2, <2>4, <3>3
      <4>3. QED
        BY <3>1, <4>1, <4>2 DEF t
    <3>4. QED
      BY <2>3, <3>2, <3>3
  <2>5. CASE p.invert = FALSE
    <3>1. ~Inverts(n)
      BY <2>5 DEF Inverts
    <3>2. CASE found = TRUE
      <4>1. Says(n, t) = "Sampled"
        BY <2>1, <2>5, <3>2 DEF Answer, SampledIf
      <4>2. Claims(n, t)
        BY <2>2, <2>5, <3>2
      <4>3. QED
        BY <3>1, <4>1, <4>2 DEF t
    <3>3. CASE found = FALSE
      <4>1. Says(n, t) = "NotSampled"
        BY <2>1, <2>5, <3>3 DEF Answer, SampledIf
      <4>2. ~Claims(n, t)
        BY <2>2, <2>5, <3>3
      <4>3. QED
        BY <3>1, <4>1, <4>2 DEF t
    <3>4. QED
      BY <2>3, <3>2, <3>3
  <2>6. QED
    BY <2>3, <2>4, <2>5
<1>3. CASE Kind(n) # "string"
  <2>1. ~Inverts(n)
    BY <1>3 DEF Inverts
  <2>2. Says(n, t) = DecisionOf(p, t)
    BY <1>1, <1>3, OthersSay
  <2>3. DecisionOf(p, t) \in {"Sampled", "NotSampled"}
    BY <1>3, DecisionIsOne
  <2>4. Claims(n, t) <=> DecisionOf(p, t) = "Sampled"
    <3>1. CASE Kind(n) = "latency"
      <4>1. p.threshold \in Int
        BY <1>1, <3>1, SamplingPoliciesAssumption DEF PoliciesAreWellFormed
      <4>2. DecisionOf(p, t) = Latency(p, t)
        BY <3>1 DEF DecisionOf, Kind
      <4>3. Latency(p, t) = "Sampled" <=> \E a, b \in SpansOf(t) : b.end - a.start >= p.threshold
        BY <3>1, <4>1, LatencyIsOfTheTrace
      <4> HIDE DEF t
      <4>4. Claims(n, t) <=> \E a, b \in SpansOf(t) : b.end - a.start >= p.threshold
        BY <3>1 DEF Claims, Kind
      <4>5. QED
        BY <4>2, <4>3, <4>4
    <3>2. CASE Kind(n) # "latency"
      BY <1>3, <3>2 DEF Claims, Kind
    <3>3. QED
      BY <3>1, <3>2
  <2> HIDE DEF t, p
  <2>5. QED
    BY <2>1, <2>2, <2>3, <2>4 DEF t
<1>4. QED
  BY <1>2, <1>3

-----------------------------------------------------------------------------
(* The tail sampler's policies: evaluators made of others                  *)

\* What all evaluators remember.
AllRemember == memory = [n \in Evaluators |-> memory[n]] /\ \A n \in Evaluators : Remembers(n, memory[n])

\* Only members of the list are reached.
LEMMA ReachedAreMembers ==
  ASSUME NEW list, NEW ending
  PROVE  UpToFirst(list, ending) \subseteq ToSet(list)
BY DEF UpToFirst, ToSet

LEMMA LeafListMembers ==
  ASSUME NEW s, IsLeafList(s)
  PROVE  ToSet(s) \subseteq Leaves
<1>1. s \in Seq(Leaves)
  BY DEF IsLeafList
<1>2. \A i \in DOMAIN s : s[i] \in Leaves
  BY <1>1
<1>3. QED
  BY <1>2 DEF ToSet

\* The parts that policies are made of.
LEMMA PartsAreLeaves ==
  ASSUME NEW n \in Evaluators
  PROVE  /\ Kind(n) \in {"and", "composite"} => ToSet(Subs(n)) \subseteq Leaves
         /\ Kind(n) = "policy" =>
              /\ ToSet(Filters(n)) \subseteq Leaves
              /\ \A f \in ToSet(Filters(n)) : Kind(f) \in {"string", "numeric"}
              /\ \A s \in ToSet(Subs(n)) : s \in Evaluators /\ Kind(s) = "policy"
<1>1. CASE Kind(n) \in {"and", "composite"}
  BY <1>1, SamplingPoliciesAssumption, LeafListMembers DEF PoliciesAreWellFormed
<1>2. CASE Kind(n) = "policy"
  <2>1. /\ IsLeafList(Filters(n)) /\ \A f \in ToSet(Filters(n)) : Kind(f) \in {"string", "numeric"}
        /\ Subs(n) \in Seq(Evaluators \ {n}) /\ \A s \in ToSet(Subs(n)) : Kind(s) = "policy"
    BY <1>2, SamplingPoliciesAssumption DEF PoliciesAreWellFormed
  <2>2. \A i \in DOMAIN Subs(n) : Subs(n)[i] \in Evaluators
    BY <2>1
  <2>3. \A s \in ToSet(Subs(n)) : s \in Evaluators
    BY <2>2 DEF ToSet
  <2>4. QED
    BY <1>2, <2>1, <2>3, LeafListMembers
<1>3. QED
  BY <1>1, <1>2

\* The filters of a policy apply whatever their order, when none is inverted.
LEMMA FiltersApply ==
  ASSUME NEW n \in Evaluators, Kind(n) = "policy", AllRemember, NEW id \in DOMAIN Traces,
         \A f \in ToSet(Filters(n)) : ~Inverts(f)
  PROVE  FiltersMatch(n, Traces[id]) <=> Applies(n, Traces[id])
<1> DEFINE t == Traces[id]
           F == ToSet(Filters(n))
<1>1. F \subseteq Leaves /\ \A f \in F : Kind(f) \in {"string", "numeric"} /\ ~Inverts(f)
  BY PartsAreLeaves
<1> HIDE DEF t, F
<1>2. ASSUME NEW f \in F
      PROVE  Says(f, t) = IF Claims(f, t) THEN "Sampled" ELSE "NotSampled"
  <2>1. f \in Leaves /\ Kind(f) # "rate" /\ Kind(f) # "latency" /\ Remembers(f, memory[f])
    BY <1>1 DEF AllRemember, Leaves
  <2>2. ~Inverts(f) => Says(f, t) = IF Claims(f, t) THEN "Sampled" ELSE "NotSampled"
    BY <2>1, LeafSays DEF t
  <2>3. QED
    BY <1>1, <2>2
<1>3. Applies(n, t) <=>
        /\ F # {}
        /\ IF Policies[n].op = "and" THEN \A f \in F : Claims(f, t) ELSE \E f \in F : Claims(f, t)
  BY DEF Applies, F
<1>4. FiltersMatch(n, t) <=>
        /\ \A f \in F : ~(Policies[n].op = "and" /\ Says(f, t) = "NotSampled")
        /\ \E f \in F : Says(f, t) = "Sampled"
  BY DEF FiltersMatch, Failing, F
<1>5. QED
  BY <1>2, <1>3, <1>4 DEF t

\* One of the sub-policies that apply comes first.
LEMMA FirstExists ==
  ASSUME NEW n \in Evaluators, Kind(n) = "policy", NEW D, D \subseteq DOMAIN Subs(n), D # {}
  PROVE  \E i \in D : \A j \in D : ~Before(n, j, i)
<1> DEFINE pr(i) == Policies[Subs(n)[i]].priority
           prs == {pr(i) : i \in D}
<1>1. \A i \in D : Subs(n)[i] \in ToSet(Subs(n))
  BY DEF ToSet
<1>2. D \subseteq Nat
  <2>1. Subs(n) \in Seq(Evaluators \ {n})
    BY SamplingPoliciesAssumption DEF PoliciesAreWellFormed
  <2>2. DOMAIN Subs(n) \subseteq Nat
    BY <2>1
  <2>3. QED
    BY <2>2
<1>3. ASSUME NEW i \in D PROVE pr(i) \in Nat
  <2>1. Subs(n)[i] \in Evaluators /\ Kind(Subs(n)[i]) = "policy"
    BY <1>1, PartsAreLeaves
  <2>2. QED
    BY <2>1, SamplingPoliciesAssumption DEF PoliciesAreWellFormed
<1>4. \A i, j : Before(n, i, j) <=> pr(i) < pr(j) \/ (pr(i) = pr(j) /\ i < j)
  BY DEF Before
<1> HIDE DEF pr
<1>5. PICK x \in prs : \A y \in prs : x <= y
  <2>1. prs \subseteq Nat /\ prs # {}
    BY <1>3
  <2> HIDE DEF prs
  <2>2. QED
    BY <2>1, LeastNumber
<1> DEFINE E == {i \in D : pr(i) = x}
<1>6. PICK i \in E : \A j \in E : i <= j
  <2>1. E \subseteq Nat /\ E # {}
    BY <1>2, <1>5
  <2> HIDE DEF E
  <2>2. QED
    BY <2>1, LeastNumber
<1>7. \A j \in D : x <= pr(j)
  BY <1>5
<1>8. ASSUME NEW j \in D PROVE ~Before(n, j, i)
  BY <1>2, <1>3, <1>4, <1>6, <1>7
<1>9. QED
  BY <1>6, <1>8

\* A policy decides as if there were no order.
LEMMA PolicyDecides ==
  ASSUME NEW n \in Evaluators, Kind(n) = "policy", AllRemember, NEW id \in DOMAIN Traces,
         InvertedFilters(n) = {}
  PROVE  DefaultEvaluator(n, Traces[id]).decision \in Decisions(n, Traces[id])
<1> DEFINE t == Traces[id]
           d == DefaultEvaluator(n, t).decision
           subs == {s \in ToSet(Subs(n)) : Applies(s, t)}
           D == {i \in DOMAIN Subs(n) : FiltersMatch(Subs(n)[i], t)}
           first == CHOOSE i \in D : \A j \in D : ~Before(n, j, i)
           least == {s \in subs : \A x \in subs : Policies[s].priority <= Policies[x].priority}
<1>1. d = IF ~FiltersMatch(n, t) THEN "NoResult"
          ELSE IF D = {} THEN SamplerOf(n, t) ELSE SamplerOf(Subs(n)[first], t)
  BY DEF DefaultEvaluator
<1>2. Decisions(n, t) = IF ~Applies(n, t) THEN {"NoResult"} ELSE IF subs = {} THEN {SamplerOf(n, t)}
                        ELSE {SamplerOf(s, t) : s \in least}
  BY DEF Decisions
<1>0. /\ \A f \in ToSet(Filters(n)) : ~Inverts(f)
      /\ \A s \in ToSet(Subs(n)) : Kind(s) = "policy" => \A f \in ToSet(Filters(s)) : ~Inverts(f)
  BY DEF InvertedFilters, Inverts, Parts, OwnParts
<1>3. FiltersMatch(n, t) <=> Applies(n, t)
  BY <1>0, FiltersApply
<1>4. ASSUME NEW i \in DOMAIN Subs(n) PROVE i \in D <=> Subs(n)[i] \in subs
  <2>1. Subs(n)[i] \in ToSet(Subs(n))
    BY DEF ToSet
  <2>2. Subs(n)[i] \in Evaluators /\ Kind(Subs(n)[i]) = "policy"
    BY <2>1, PartsAreLeaves
  <2>3. FiltersMatch(Subs(n)[i], t) <=> Applies(Subs(n)[i], t)
    BY <1>0, <2>1, <2>2, FiltersApply
  <2> HIDE DEF t
  <2>4. QED
    BY <2>1, <2>3
<1>5. \A s \in subs : \E i \in D : s = Subs(n)[i]
  <2>1. \A s \in subs : \E i \in DOMAIN Subs(n) : s = Subs(n)[i]
    BY DEF ToSet
  <2> HIDE DEF D, subs
  <2>2. QED
    BY <1>4, <2>1
<1>6. D \subseteq DOMAIN Subs(n)
  OBVIOUS
<1> HIDE DEF d, t, D, subs
<1>7. CASE ~Applies(n, t)
  BY <1>1, <1>2, <1>3, <1>7 DEF d, t
<1>8. CASE Applies(n, t) /\ D = {}
  <2>1. subs = {}
    BY <1>5, <1>8
  <2>2. QED
    BY <1>1, <1>2, <1>3, <1>8, <2>1 DEF d, t
<1>9. CASE Applies(n, t) /\ D # {}
  <2>1. first \in D /\ \A j \in D : ~Before(n, j, first)
    <3>1. \E i \in D : \A j \in D : ~Before(n, j, i)
      BY <1>6, <1>9, FirstExists
    <3>2. QED
      BY <3>1, Zenon
  <2> HIDE DEF first
  <2>2. Subs(n)[first] \in subs
    BY <1>4, <1>6, <2>1
  <2>3. ASSUME NEW x \in subs PROVE Policies[Subs(n)[first]].priority <= Policies[x].priority
    <3>1. PICK j \in D : x = Subs(n)[j]
      BY <1>5
    <3>2. ~(Policies[x].priority < Policies[Subs(n)[first]].priority)
      BY <2>1, <3>1 DEF Before
    <3>3. \A s \in subs : s \in Evaluators /\ Kind(s) = "policy"
      BY PartsAreLeaves DEF subs
    <3>4. \A s \in subs : Policies[s].priority \in Nat
      BY <3>3, SamplingPoliciesAssumption DEF PoliciesAreWellFormed
    <3>5. QED
      BY <2>2, <3>2, <3>4
  <2>4. Subs(n)[first] \in least
    BY <2>2, <2>3
  <2>5. subs # {}
    BY <2>2
  <2> HIDE DEF least
  <2>6. QED
    BY <1>1, <1>2, <1>3, <1>9, <2>4, <2>5 DEF d, t
<1>10. QED
  BY <1>7, <1>8, <1>9

\* A list of filters with "and": all of them have to hold.
LEMMA AllHold ==
  ASSUME NEW n \in Evaluators, Kind(n) = "and", AllRemember, NEW id \in DOMAIN Traces,
         DependsOnTheTrace(n, Traces[id])
  PROVE  And(n, Traces[id]).decision = "Sampled" <=> \A s \in ToSet(Subs(n)) : Claims(s, Traces[id])
<1> DEFINE t == Traces[id]
           S == ToSet(Subs(n))
           against == {s \in S : Says(s, t) \in {"NotSampled", "InvertNotSampled"}}
<1>1. And(n, t).decision = SampledIf(against = {})
  BY DEF And
<1>2. S \subseteq Parts(n) /\ S \subseteq Leaves
  BY PartsAreLeaves DEF Parts, OwnParts
<1> HIDE DEF t, S
<1>3. ASSUME NEW s \in S PROVE Says(s, t) \in {"NotSampled", "InvertNotSampled"} <=> ~Claims(s, t)
  <2>1. Kind(s) # "rate" /\ (Kind(s) = "latency" => \A x \in SpansOf(t) : x.start > 0)
    BY <1>2 DEF DependsOnTheTrace, t
  <2>2. s \in Leaves /\ Remembers(s, memory[s])
    BY <1>2 DEF AllRemember, Leaves
  <2>3. /\ Inverts(s) => Says(s, t) = IF Claims(s, t) THEN "InvertSampled" ELSE "InvertNotSampled"
        /\ ~Inverts(s) => Says(s, t) = IF Claims(s, t) THEN "Sampled" ELSE "NotSampled"
    BY <2>1, <2>2, LeafSays DEF t
  <2>4. QED
    BY <2>3
<1>4. against = {} <=> \A s \in S : Claims(s, t)
  BY <1>3
<1> HIDE DEF against
<1>5. And(n, t).decision = "Sampled" <=> against = {}
  BY <1>1 DEF SampledIf
<1>6. QED
  BY <1>4, <1>5 DEF S, t

LEMMA SpanCountIsNat ==
  ASSUME NEW id \in DOMAIN Traces
  PROVE  SpanCount(Traces[id]) \in Nat
<1> DEFINE P == Positions(Traces[id])
           n == Len(Traces[id].items)
<1>1. n \in Nat /\ P \subseteq 1..n
  BY ItemsAreCounted DEF Positions
<1> HIDE DEF P, n
<1>2. IsFiniteSet(1..n)
  BY <1>1, FS_Interval
<1>3. IsFiniteSet(P)
  BY <1>1, <1>2, FS_Subset
<1>4. Cardinality(P) \in Nat
  BY <1>3, FS_CardinalityType
<1>5. QED
  BY <1>4 DEF SpanCount, P

\* A memory in the present second.
LEMMA MemoryInSecond ==
  ASSUME NEW n, NEW m, Remembers(n, m), second \in Nat
  PROVE  /\ Remembers(n, InSecond(m)) /\ InSecond(m).second = second
         /\ m.second = second => InSecond(m) = m
         /\ m.second # second => InSecond(m).spans = [x \in Evaluators |-> 0]
<1>1. CASE m.second = second
  BY <1>1 DEF InSecond
<1>2. CASE m.second # second
  <2> DEFINE zero == [x \in Evaluators |-> 0]
             s == InSecond(m)
  <2>1. s = [[m EXCEPT !.second = second] EXCEPT !.spans = zero]
    BY <1>2 DEF InSecond
  <2>2. zero \in [Evaluators -> Nat]
    OBVIOUS
  <2> HIDE DEF zero, s
  <2>3. s = [second |-> second, spans |-> zero, cache |-> m.cache]
    BY <2>1 DEF Remembers
  <2>4. s.second = second /\ s.spans = zero /\ s.cache = m.cache
    BY <2>3
  <2>5. Remembers(n, s)
    BY <2>2, <2>3, <2>4 DEF Remembers
  <2>6. QED
    BY <1>2, <2>4, <2>5 DEF s, zero
<1>3. QED
  BY <1>1, <1>2

\* How many of its spans a sampler has let pass in this second, of those it counts for x.
PassedNow(n, x) == InSecond(memory[n]).spans[x]

\* The sampler of a rate counts what it lets pass, and stays below its limit.
LEMMA RateSays ==
  ASSUME NEW n \in Evaluators, Kind(n) = "rate", Remembers(n, memory[n]), second \in Nat,
         NEW id \in DOMAIN Traces
  PROVE  LET count == SpanCount(Traces[id])
             r == Leaf(n, Traces[id])
         IN /\ Remembers(n, r.mem) /\ r.mem.second = second
            /\ r.decision = "Sampled" => /\ r.mem.spans[n] = PassedNow(n, n) + count
                                         /\ r.mem.spans[n] < Policies[n].spansPerSecond
            /\ r.decision # "Sampled" => r.mem.spans[n] = PassedNow(n, n)
<1> DEFINE count == SpanCount(Traces[id])
           now == InSecond(memory[n])
           ifSampled == now.spans[n] + count
           r == Leaf(n, Traces[id])
           more == [now.spans EXCEPT ![n] = ifSampled]
<1>1. Remembers(n, now) /\ now.second = second
  BY MemoryInSecond
<1>2. count \in Nat
  BY SpanCountIsNat
<1>3. r = IF ifSampled < Policies[n].spansPerSecond
          THEN [decision |-> "Sampled", mem |-> [now EXCEPT !.spans = more]]
          ELSE [decision |-> "NotSampled", mem |-> now]
  BY DEF Leaf, RateLimiting
<1> HIDE DEF r, now, count
<1>4. more \in [Evaluators -> Nat] /\ more[n] = ifSampled
  BY <1>1, <1>2 DEF Remembers
<1> HIDE DEF more
<1>5. CASE ifSampled < Policies[n].spansPerSecond
  <2> DEFINE m == [now EXCEPT !.spans = more]
  <2>1. r.decision = "Sampled" /\ r.mem = m
    BY <1>3, <1>5
  <2>2. m = [second |-> now.second, spans |-> more, cache |-> now.cache]
    BY <1>1 DEF Remembers
  <2> HIDE DEF m
  <2>3. m.second = now.second /\ m.spans = more /\ m.cache = now.cache
    BY <2>2
  <2>4. Remembers(n, m)
    BY <1>1, <1>4, <2>2, <2>3 DEF Remembers
  <2>5. QED
    BY <1>1, <1>4, <1>5, <2>1, <2>3, <2>4 DEF r, now, count, PassedNow
<1>6. CASE ~(ifSampled < Policies[n].spansPerSecond)
  BY <1>1, <1>3, <1>6 DEF r, now, count, PassedNow
<1>7. QED
  BY <1>5, <1>6

LEMMA LeafRemembers ==
  ASSUME NEW n \in Leaves, Remembers(n, memory[n]), second \in Nat, NEW id \in DOMAIN Traces
  PROVE  Remembers(n, Leaf(n, Traces[id]).mem)
<1>1. n \in Evaluators
  BY DEF Leaves
<1>2. CASE Kind(n) = "string"
  BY <1>1, <1>2, StringSays
<1>3. CASE Kind(n) = "rate"
  BY <1>1, <1>3, RateSays
<1>4. CASE Kind(n) \notin {"string", "rate"}
  BY <1>1, <1>4, OthersSay
<1>5. QED
  BY <1>2, <1>3, <1>4

-----------------------------------------------------------------------------
(* The tail sampler's policies: rates                                      *)

\* Naturals over a list, and their sums.
AreCounts(f, list) == Len(list) \in Nat /\ \A i \in 1..Len(list) : f[list[i]] \in Nat

SumsUp(f, list, g) ==
  /\ g \in [0..Len(list) -> Nat]
  /\ g[0] = 0 /\ \A i \in 1..Len(list) : g[i] = g[i - 1] + f[list[i]]

LEMMA TotalIsASum ==
  ASSUME NEW f, NEW list, AreCounts(f, list)
  PROVE  \E g : SumsUp(f, list, g) /\ Total(f, list) = g[Len(list)]
<1> DEFINE n == Len(list)
           next(a, i) == a + f[list[i]]
           h == [x \in Nat \X (1..n) |-> next(x[1], x[2])]
           Iterates(g) == g = [i \in 0..Len(list) |-> IF i = 0 THEN 0 ELSE g[i - 1] + f[list[i]]]
           sum == CHOOSE g : Iterates(g)
<1>1. Total(f, list) = sum[n]
  BY DEF Total
<1>2. n \in Nat /\ \A i \in 1..n : f[list[i]] \in Nat
  BY DEF AreCounts
<1>3. h \in [Nat \X (1..n) -> Nat] /\ \A a \in Nat, i \in 1..n : h[<<a, i>>] = a + f[list[i]]
  BY <1>2
<1> HIDE DEF h
<1>4. PICK g \in [0..n -> Nat] : g[0] = 0 /\ \A i \in 1..n : g[i] = h[<<g[i - 1], i>>]
  <2> HIDE DEF n
  <2>1. HasIteration(n, Nat, 0, h)
    BY <1>2, <1>3, IterationExists
  <2>2. QED
    BY <2>1 DEF HasIteration
<1>5. ASSUME NEW i \in 1..n PROVE g[i] = g[i - 1] + f[list[i]]
  <2>1. i - 1 \in 0..n
    BY <1>2
  <2>2. g[i - 1] \in Nat
    BY <1>4, <2>1
  <2>3. QED
    BY <1>3, <1>4, <2>2
<1>6. Iterates(g)
  BY <1>2, <1>4, <1>5
<1>7. Iterates(sum)
  BY <1>6, Zenon
<1> HIDE DEF sum
<1>8. sum[0] = 0 /\ \A i \in 1..n : sum[i] = sum[i - 1] + f[list[i]]
  BY <1>2, <1>7
<1> DEFINE D == {i \in 0..n : sum[i] \in Nat}
<1>9. n \in D /\ 0..n \subseteq D
  <2>1. 0 \in D
    BY <1>2, <1>8
  <2>2. ASSUME NEW i \in 0..(n - 1), i \in D PROVE i + 1 \in D
    <3>1. i + 1 \in 1..n /\ (i + 1) - 1 = i /\ i + 1 \in 0..n
      BY <1>2
    <3>2. sum[i + 1] = sum[i] + f[list[i + 1]]
      BY <1>8, <3>1
    <3>3. QED
      BY <1>2, <2>2, <3>1, <3>2
  <2> HIDE DEF D, n
  <2>3. 0..n \subseteq D
    BY <1>2, <2>1, <2>2, UpTo
  <2>4. QED
    BY <1>2, <2>3
<1>10. sum \in [0..n -> Nat]
  BY <1>7, <1>9
<1>11. QED
  BY <1>1, <1>8, <1>10 DEF SumsUp

\* A sum grows with each of its terms.
LEMMA TotalGrows ==
  ASSUME NEW f, NEW h, NEW list, AreCounts(f, list), AreCounts(h, list), NEW c \in Nat,
         \A i \in 1..Len(list) : f[list[i]] <= h[list[i]],
         c = 0 \/ \E i \in 1..Len(list) : f[list[i]] + c <= h[list[i]]
  PROVE  Total(f, list) \in Nat /\ Total(h, list) \in Nat /\ Total(f, list) + c <= Total(h, list)
<1> DEFINE n == Len(list)
<1>1. PICK a : SumsUp(f, list, a) /\ Total(f, list) = a[n]
  BY TotalIsASum
<1>2. PICK b : SumsUp(h, list, b) /\ Total(h, list) = b[n]
  BY TotalIsASum
<1>3. n \in Nat /\ \A i \in 1..n : f[list[i]] \in Nat /\ h[list[i]] \in Nat
  BY DEF AreCounts
<1>4. /\ a[0] = 0 /\ b[0] = 0 /\ \A i \in 0..n : a[i] \in Nat /\ b[i] \in Nat
      /\ \A i \in 1..n : a[i] = a[i - 1] + f[list[i]] /\ b[i] = b[i - 1] + h[list[i]]
  BY <1>1, <1>2, <1>3 DEF SumsUp
<1> DEFINE grown(i) == \E j \in 1..i : f[list[j]] + c <= h[list[j]]
           D == {i \in 0..n : a[i] <= b[i] /\ (grown(i) => a[i] + c <= b[i])}
<1>5. 0 \in D
  BY <1>3, <1>4
<1>6. ASSUME NEW i \in 0..(n - 1), i \in D PROVE i + 1 \in D
  <2>1. i + 1 \in 1..n /\ (i + 1) - 1 = i /\ i + 1 \in 0..n /\ i \in 0..n
    BY <1>3
  <2>2. a[i + 1] = a[i] + f[list[i + 1]] /\ b[i + 1] = b[i] + h[list[i + 1]]
    BY <1>4, <2>1
  <2>3. /\ a[i] \in Nat /\ b[i] \in Nat /\ a[i] <= b[i]
        /\ f[list[i + 1]] \in Nat /\ h[list[i + 1]] \in Nat /\ f[list[i + 1]] <= h[list[i + 1]]
    BY <1>3, <1>4, <1>6, <2>1
  <2>4. grown(i) => a[i] + c <= b[i]
    BY <1>6
  <2>5. grown(i + 1) => grown(i) \/ f[list[i + 1]] + c <= h[list[i + 1]]
    <3>1. \A j \in 1..(i + 1) : j \in 1..i \/ j = i + 1
      BY <1>3
    <3>2. QED
      BY <3>1
  <2> HIDE DEF grown
  <2>6. a[i + 1] <= b[i + 1]
    BY <2>2, <2>3
  <2>7. ASSUME grown(i + 1) PROVE a[i + 1] + c <= b[i + 1]
    <3>1. a[i] + c <= b[i] \/ f[list[i + 1]] + c <= h[list[i + 1]]
      BY <2>4, <2>5, <2>7
    <3>2. \A w, x, y, z \in Nat : w <= x /\ y <= z /\ (w + c <= x \/ y + c <= z) => (w + y) + c <= x + z
      OBVIOUS
    <3>3. QED
      BY <2>2, <2>3, <3>1, <3>2
  <2>8. QED
    BY <2>1, <2>6, <2>7
<1>7. n \in D
  <2> HIDE DEF n, D
  <2>1. 0..n \subseteq D
    BY <1>3, <1>5, <1>6, UpTo
  <2>2. QED
    BY <1>3, <2>1
<1>8. a[n] \in Nat /\ b[n] \in Nat
  BY <1>3, <1>4
<1>9. a[n] + c <= b[n]
  BY <1>7, <1>8
<1>10. QED
  BY <1>1, <1>2, <1>8, <1>9

\* What a composite has let pass for each of its parts is within what it is allowed.
IsAllotted(n, spans) == \A s \in ToSet(Subs(n)) : spans[s] <= Allowed(n)[s]

LEMMA PartsAreCounted ==
  ASSUME NEW n \in Evaluators, Kind(n) = "composite", NEW f \in [Evaluators -> Nat]
  PROVE  /\ AreCounts(f, Subs(n)) /\ DOMAIN Subs(n) = 1..Len(Subs(n))
         /\ AreCounts(Allowed(n), Subs(n))
         /\ ToSet(Subs(n)) \subseteq Leaves /\ Allowed(n) \in [ToSet(Subs(n)) -> Nat]
<1>1. Subs(n) \in Seq(Leaves) /\ Allowed(n) \in [ToSet(Subs(n)) -> Nat]
  BY SamplingPoliciesAssumption DEF PoliciesAreWellFormed, IsLeafList, Allowed
<1>2. Len(Subs(n)) \in Nat /\ DOMAIN Subs(n) = 1..Len(Subs(n))
  BY <1>1
<1>3. ToSet(Subs(n)) \subseteq Leaves
  BY PartsAreLeaves
<1>4. \A i \in 1..Len(Subs(n)) : Subs(n)[i] \in ToSet(Subs(n))
  BY <1>2 DEF ToSet
<1>5. \A i \in 1..Len(Subs(n)) : Subs(n)[i] \in Evaluators
  BY <1>3, <1>4 DEF Leaves
<1>6. QED
  BY <1>1, <1>2, <1>3, <1>4, <1>5 DEF AreCounts

\* An evaluation of a composite counts what it lets pass.
LEMMA CompositeSays ==
  ASSUME NEW n \in Evaluators, Kind(n) = "composite", Remembers(n, memory[n]), second \in Nat,
         NEW id \in DOMAIN Traces
  PROVE  LET now == InSecond(memory[n])
             r == Composite(n, Traces[id])
             count == IF r.decision = "Sampled" THEN SpanCount(Traces[id]) ELSE 0
         IN /\ Remembers(n, r.mem) /\ r.mem.second = second
            /\ Total(now.spans, Subs(n)) + count <= Total(r.mem.spans, Subs(n))
            /\ IsAllotted(n, now.spans) => IsAllotted(n, r.mem.spans)
<1> DEFINE t == Traces[id]
           now == InSecond(memory[n])
           r == Composite(n, t)
           S == ToSet(Subs(n))
           for == {s \in ToSet(Subs(n)) : Says(s, t) \in {"Sampled", "InvertSampled"}}
           reached == UpToFirst(Subs(n), for)
           ifSampled(s) == now.spans[s] + SpanCount(t)
           fits == {s \in for \cap reached : /\ ifSampled(s) <= Policies[n].allocated[s]
                                             /\ ifSampled(s) <= Policies[n].maxTotal}
           more == [x \in Evaluators |-> IF x \in fits THEN ifSampled(x) ELSE now.spans[x]]
           count == IF r.decision = "Sampled" THEN SpanCount(t) ELSE 0
<1>1. Remembers(n, now) /\ now.second = second
  BY MemoryInSecond
<1>2. SpanCount(t) \in Nat
  BY SpanCountIsNat
<1>3. r = [decision |-> SampledIf(fits # {}), reached |-> reached, mem |-> [now EXCEPT !.spans = more]]
  BY DEF Composite
<1>4. fits \subseteq S /\ \A s \in fits : ifSampled(s) <= Allowed(n)[s]
  BY DEF Allowed
<1> HIDE DEF r, now, t, fits
<1>5. more \in [Evaluators -> Nat]
  BY <1>1, <1>2 DEF Remembers
<1>6. r.decision = "Sampled" <=> fits # {}
  BY <1>3 DEF SampledIf
<1>7. r.mem = [now EXCEPT !.spans = more]
  BY <1>3
<1>8. \A x \in Evaluators : more[x] = IF x \in fits THEN ifSampled(x) ELSE now.spans[x]
  OBVIOUS
<1> HIDE DEF more
<1>9. Remembers(n, r.mem) /\ r.mem.second = second /\ r.mem.spans = more
  <2> DEFINE m == [now EXCEPT !.spans = more]
  <2>1. m = [second |-> now.second, spans |-> more, cache |-> now.cache]
    BY <1>1 DEF Remembers
  <2> HIDE DEF m
  <2>2. m.second = now.second /\ m.spans = more /\ m.cache = now.cache
    BY <2>1
  <2>3. Remembers(n, m)
    BY <1>1, <1>5, <2>1, <2>2 DEF Remembers
  <2>4. QED
    BY <1>1, <1>7, <2>2, <2>3 DEF m
<1>10. now.spans \in [Evaluators -> Nat]
  BY <1>1 DEF Remembers
<1>11. /\ AreCounts(now.spans, Subs(n)) /\ AreCounts(more, Subs(n))
       /\ S \subseteq Evaluators /\ DOMAIN Subs(n) = 1..Len(Subs(n))
  BY <1>5, <1>10, PartsAreCounted DEF Leaves
<1>12. \A i \in 1..Len(Subs(n)) : Subs(n)[i] \in S
  BY <1>11 DEF ToSet
<1>13. \A x \in Evaluators : now.spans[x] <= more[x] /\ now.spans[x] \in Nat
  BY <1>2, <1>8, <1>10
<1>14. count \in Nat /\ (count = 0 \/ \E i \in 1..Len(Subs(n)) : now.spans[Subs(n)[i]] + count <= more[Subs(n)[i]])
  <2>1. CASE fits = {}
    BY <1>6, <2>1
  <2>2. CASE fits # {}
    <3>1. PICK s \in fits : TRUE
      BY <2>2
    <3>2. PICK i \in 1..Len(Subs(n)) : s = Subs(n)[i]
      BY <1>4, <1>11 DEF ToSet
    <3>3. s \in Evaluators
      BY <1>4, <1>11
    <3>4. more[s] = now.spans[s] + SpanCount(t)
      BY <1>8, <3>3
    <3>5. count = SpanCount(t)
      BY <1>6, <2>2
    <3>6. now.spans[s] + count <= more[s]
      BY <1>2, <1>10, <3>3, <3>4, <3>5
    <3> HIDE DEF count
    <3>7. QED
      BY <1>2, <3>2, <3>5, <3>6
  <2>3. QED
    BY <2>1, <2>2
<1>15. \A i \in 1..Len(Subs(n)) : now.spans[Subs(n)[i]] <= more[Subs(n)[i]]
  BY <1>11, <1>12, <1>13
<1> HIDE DEF count
<1>16. Total(now.spans, Subs(n)) + count <= Total(more, Subs(n))
  BY <1>11, <1>14, <1>15, TotalGrows
<1>17. IsAllotted(n, now.spans) => IsAllotted(n, more)
  <2> SUFFICES ASSUME IsAllotted(n, now.spans), NEW s \in S PROVE more[s] <= Allowed(n)[s]
    BY DEF IsAllotted
  <2>1. s \in Evaluators /\ now.spans[s] <= Allowed(n)[s]
    BY <1>11 DEF IsAllotted
  <2>2. QED
    BY <1>4, <1>8, <2>1
<1>18. QED
  BY <1>9, <1>16, <1>17 DEF r, now, t, count

\* The counts of the samplers of rates, which bound what has passed in this second.
SamplersCount ==
  \A n \in Evaluators :
    LET m == memory[n]
    IN /\ Kind(n) \in {"rate", "composite"} /\ m.second # second => sampledIn[n] = 0
       /\ Kind(n) = "rate" /\ m.second = second =>
            sampledIn[n] <= m.spans[n] /\ (m.spans[n] = 0 \/ m.spans[n] < Policies[n].spansPerSecond)
       /\ Kind(n) = "composite" /\ m.second = second =>
            sampledIn[n] <= Total(m.spans, Subs(n)) /\ IsAllotted(n, m.spans)

PolTypes ==
  /\ second \in Nat \ {0}
  /\ AllRemember
  /\ sampledIn \in [Evaluators -> Nat]
  /\ verdict.decision # "Unspecified" => verdict.policy \in Evaluators /\ verdict.trace \in DOMAIN Traces

PolInv == PolTypes /\ SamplersCount /\ VerdictIsOfTheTrace

LEMMA PoliciesStart == PolInit => PolInv
<1> SUFFICES ASSUME PolInit PROVE PolInv
  OBVIOUS
<1>1. /\ second = 1 /\ memory = [n \in Evaluators |-> NewEvaluator]
      /\ verdict.decision = "Unspecified" /\ sampledIn = [n \in Evaluators |-> 0]
  BY DEF PolInit
<1>2. /\ NewEvaluator = [second |-> NewEvaluator.second, spans |-> NewEvaluator.spans, cache |-> NewEvaluator.cache]
      /\ NewEvaluator.second = 0 /\ NewEvaluator.spans \in [Evaluators -> Nat]
      /\ NewEvaluator.cache = << >>
  BY DEF NewEvaluator
<1>3. ASSUME NEW n \in Evaluators PROVE Remembers(n, memory[n]) /\ memory[n].second # second
  <2>1. << >> \in Seq(Truths(Policies[n]))
    OBVIOUS
  <2>2. memory[n] = NewEvaluator
    BY <1>1
  <2>3. memory[n].second <= second /\ memory[n].second \in Nat /\ memory[n].second # second
    BY <1>1, <1>2, <2>2
  <2> HIDE DEF NewEvaluator
  <2>4. memory[n].spans \in [Evaluators -> Nat] /\ memory[n].cache \in Seq(Truths(Policies[n]))
    BY <1>2, <2>1, <2>2
  <2>5. memory[n] = [second |-> memory[n].second, spans |-> memory[n].spans, cache |-> memory[n].cache]
    BY <1>2, <2>2, Zenon
  <2>6. QED
    BY <2>3, <2>4, <2>5 DEF Remembers
<1>4. PolTypes
  BY <1>1, <1>3 DEF PolTypes, AllRemember
<1>5. SamplersCount
  BY <1>1, <1>3 DEF SamplersCount
<1>6. VerdictIsOfTheTrace
  BY <1>1 DEF VerdictIsOfTheTrace
<1>7. QED
  BY <1>4, <1>5, <1>6 DEF PolInv

\* What an evaluation is of: its parts, and its own memory.
LEMMA EvaluationIsOfParts ==
  ASSUME NEW n \in Evaluators, AllRemember, second \in Nat, NEW id \in DOMAIN Traces
  PROVE  LET r == Evaluation(n, Traces[id])
         IN /\ r.reached \subseteq Leaves
            /\ Remembers(n, r.mem)
            /\ Kind(n) # "composite" => r.mem = memory[n]
            /\ n \in Leaves => r.reached = {n} /\ r.decision = Says(n, Traces[id])
            /\ Kind(n) = "composite" => r = Composite(n, Traces[id])
<1> DEFINE t == Traces[id]
           r == Evaluation(n, t)
<1>1. Remembers(n, memory[n])
  BY DEF AllRemember
<1>2. CASE Kind(n) = "and"
  <2>1. r = And(n, t) /\ n \notin Leaves
    BY <1>2 DEF Evaluation, Leaves
  <2>2. r.reached \subseteq ToSet(Subs(n)) /\ r.mem = memory[n]
    BY <2>1, ReachedAreMembers DEF And
  <2>3. ToSet(Subs(n)) \subseteq Leaves
    BY <1>2, PartsAreLeaves
  <2> HIDE DEF r
  <2>4. QED
    BY <1>1, <1>2, <2>1, <2>2, <2>3 DEF r
<1>3. CASE Kind(n) = "composite"
  <2>1. r = Composite(n, t) /\ n \notin Leaves
    BY <1>3 DEF Evaluation, Leaves
  <2>2. r.reached \subseteq ToSet(Subs(n))
    BY <2>1, ReachedAreMembers DEF Composite
  <2>3. ToSet(Subs(n)) \subseteq Leaves
    BY <1>3, PartsAreLeaves
  <2>4. Remembers(n, r.mem)
    BY <1>1, <1>3, <2>1, CompositeSays
  <2> HIDE DEF r
  <2>5. QED
    BY <1>3, <2>1, <2>2, <2>3, <2>4 DEF r
<1>4. CASE Kind(n) = "policy"
  <2>1. r = DefaultEvaluator(n, t) /\ n \notin Leaves
    BY <1>4 DEF Evaluation, Leaves
  <2>2. r.mem = memory[n]
    BY <2>1 DEF DefaultEvaluator
  <2>3. \A p \in {n} \cup ToSet(Subs(n)) : ToSet(Filters(p)) \subseteq Leaves
    BY <1>4, PartsAreLeaves
  <2>4. \A i \in DOMAIN Subs(n) : Subs(n)[i] \in ToSet(Subs(n))
    BY DEF ToSet
  <2>5. r.reached \subseteq Leaves
    <3> DEFINE of(p) == UpToFirst(Filters(p), Failing(p, t))
               deciding == {i \in DOMAIN Subs(n) : FiltersMatch(Subs(n)[i], t)}
               tried == {i \in DOMAIN Subs(n) : \A j \in deciding : ~Before(n, j, i)}
               evaluated == {n} \cup {Subs(n)[i] : i \in {i \in tried : FiltersMatch(n, t)}}
    <3>1. r.reached = UNION {of(p) : p \in evaluated}
      BY <2>1 DEF DefaultEvaluator
    <3>2. evaluated \subseteq {n} \cup ToSet(Subs(n))
      BY <2>4
    <3>3. \A p : of(p) \subseteq ToSet(Filters(p))
      BY ReachedAreMembers
    <3> HIDE DEF of, evaluated, r
    <3>4. QED
      BY <2>3, <3>1, <3>2, <3>3
  <2> HIDE DEF r
  <2>6. QED
    BY <1>1, <1>4, <2>1, <2>2, <2>5 DEF r
<1>5. CASE Kind(n) \notin {"and", "composite", "policy"}
  <2>1. r = [decision |-> Says(n, t), reached |-> {n}, mem |-> memory[n]]
    BY <1>5 DEF Evaluation
  <2>2. n \in Leaves
    BY <1>5, SamplingPoliciesAssumption DEF PoliciesAreWellFormed
  <2> HIDE DEF r, t
  <2>3. QED
    BY <1>1, <1>5, <2>1, <2>2 DEF r, t
<1>6. QED
  BY <1>2, <1>3, <1>4, <1>5

\* The verdict of an evaluation.
LEMMA EvaluationIsSound ==
  ASSUME NEW n \in Evaluators, AllRemember, second \in Nat, NEW id \in DOMAIN Traces,
         DependsOnTheTrace(n, Traces[id])
  PROVE  LET t == Traces[id]
             d == Evaluation(n, t).decision
             holds == IF Kind(n) = "and" THEN \A s \in ToSet(Subs(n)) : Claims(s, t) ELSE Claims(n, t)
         IN IF Kind(n) = "policy" THEN InvertedFilters(n) = {} => d \in Decisions(n, t)
            ELSE d \in {"Sampled", "InvertSampled"} <=> holds
<1> DEFINE t == Traces[id]
           d == Evaluation(n, t).decision
<1>1. Kind(n) \notin {"rate", "composite"} /\ (Kind(n) = "latency" => \A s \in SpansOf(t) : s.start > 0)
  BY DEF DependsOnTheTrace
<1>2. CASE Kind(n) = "and"
  <2>1. d = And(n, t).decision
    BY <1>2 DEF Evaluation
  <2>2. And(n, t).decision = "Sampled" <=> \A s \in ToSet(Subs(n)) : Claims(s, t)
    BY <1>2, AllHold
  <2>3. And(n, t).decision # "InvertSampled"
    BY DEF And, SampledIf
  <2> HIDE DEF d, t
  <2>4. QED
    BY <1>2, <2>1, <2>2, <2>3 DEF d, t
<1>3. CASE Kind(n) = "policy"
  <2>1. d = DefaultEvaluator(n, t).decision
    BY <1>3 DEF Evaluation
  <2>2. InvertedFilters(n) = {} => DefaultEvaluator(n, t).decision \in Decisions(n, t)
    BY <1>3, PolicyDecides
  <2> HIDE DEF d, t
  <2>3. QED
    BY <1>3, <2>1, <2>2 DEF d, t
<1>4. CASE Kind(n) \notin {"and", "policy"}
  <2>1. n \in Leaves
    BY <1>1, <1>4, SamplingPoliciesAssumption DEF PoliciesAreWellFormed
  <2>2. d = Says(n, t)
    BY <2>1, EvaluationIsOfParts
  <2>3. Remembers(n, memory[n])
    BY DEF AllRemember
  <2>4. /\ Inverts(n) => Says(n, t) = IF Claims(n, t) THEN "InvertSampled" ELSE "InvertNotSampled"
        /\ ~Inverts(n) => Says(n, t) = IF Claims(n, t) THEN "Sampled" ELSE "NotSampled"
    BY <1>1, <2>1, <2>3, LeafSays
  <2> HIDE DEF d, t
  <2>5. d \in {"Sampled", "InvertSampled"} <=> Claims(n, t)
    BY <2>2, <2>4
  <2>6. QED
    BY <1>4, <2>5 DEF d, t
<1>5. QED
  BY <1>2, <1>3, <1>4

LEMMA EvaluateStep ==
  ASSUME PolInv, NEW n \in Roots, NEW id \in DOMAIN Traces, Evaluate(n, id)
  PROVE  PolInv'
<1> DEFINE t == Traces[id]
           r == Evaluation(n, t)
           count == IF r.decision = "Sampled" /\ HasRate(n) THEN SpanCount(t) ELSE 0
<1>1. n \in Evaluators
  BY DEF Roots
<1>2. second \in Nat \ {0} /\ AllRemember /\ sampledIn \in [Evaluators -> Nat] /\ SamplersCount
  BY DEF PolInv, PolTypes
<1>3. /\ memory' = [x \in Evaluators |-> IF x \in r.reached THEN Leaf(x, t).mem
                                        ELSE IF x = n THEN r.mem ELSE memory[x]]
      /\ verdict' = [policy |-> n, trace |-> id, decision |-> r.decision]
      /\ sampledIn' = [sampledIn EXCEPT ![n] = @ + count]
      /\ second' = second
  BY DEF Evaluate, Evaluated
<1>4. /\ r.reached \subseteq Leaves /\ Remembers(n, r.mem)
      /\ Kind(n) # "composite" => r.mem = memory[n]
      /\ n \in Leaves => r.reached = {n} /\ r.decision = Says(n, t)
      /\ Kind(n) = "composite" => r = Composite(n, t)
  BY <1>1, <1>2, EvaluationIsOfParts
<1>5. DependsOnTheTrace(n, t) =>
        LET holds == IF Kind(n) = "and" THEN \A s \in ToSet(Subs(n)) : Claims(s, t) ELSE Claims(n, t)
        IN IF Kind(n) = "policy" THEN InvertedFilters(n) = {} => r.decision \in Decisions(n, t)
           ELSE r.decision \in {"Sampled", "InvertSampled"} <=> holds
  BY <1>1, <1>2, EvaluationIsSound
<1>6. count \in Nat
  BY SpanCountIsNat
<1> HIDE DEF r, count
<1>7. sampledIn' \in [Evaluators -> Nat] /\ sampledIn'[n] = sampledIn[n] + count
      /\ \A x \in Evaluators : x # n => sampledIn'[x] = sampledIn[x]
  BY <1>1, <1>2, <1>3, <1>6
<1>8. \A x \in Evaluators : memory'[x] = IF x \in r.reached THEN Leaf(x, t).mem
                                        ELSE IF x = n THEN r.mem ELSE memory[x]
  BY <1>3
<1>9. ASSUME NEW x \in Evaluators PROVE Remembers(x, memory'[x])
  <2>1. Remembers(x, memory[x])
    BY <1>2 DEF AllRemember
  <2>2. x \in r.reached => Remembers(x, Leaf(x, t).mem)
    BY <1>2, <1>4, <2>1, LeafRemembers
  <2> HIDE DEF t
  <2>3. QED
    BY <1>4, <1>8, <2>1, <2>2
<1>10. AllRemember'
  <2>1. \A x \in Evaluators : Remembers(x, memory[x])'
    BY <1>3, <1>9 DEF Remembers
  <2>2. memory' = [x \in Evaluators |-> memory'[x]]
    BY <1>3
  <2>3. QED
    BY <2>1, <2>2 DEF AllRemember
<1>11. PolTypes'
  BY <1>1, <1>2, <1>3, <1>7, <1>10 DEF PolTypes
<1>12. VerdictIsOfTheTrace'
  <2>1. verdict'.policy = n /\ verdict'.trace = id /\ verdict'.decision = r.decision
    BY <1>3
  <2> HIDE DEF t
  <2>2. QED
    BY <1>5, <2>1 DEF VerdictIsOfTheTrace, t
<1>13. ASSUME NEW x \in Evaluators, Kind(x) = "rate"
       PROVE  LET m == memory'[x]
              IN /\ m.second # second => sampledIn'[x] = 0
                 /\ m.second = second =>
                      sampledIn'[x] <= m.spans[x] /\ (m.spans[x] = 0 \/ m.spans[x] < Policies[x].spansPerSecond)
  <2> DEFINE m == memory'[x]
  <2>1. Remembers(x, memory[x]) /\ x \in Leaves
    BY <1>2, <1>13 DEF AllRemember, Leaves
  <2>2. /\ memory[x].second # second => sampledIn[x] = 0
        /\ memory[x].second = second =>
             sampledIn[x] <= memory[x].spans[x] /\ (memory[x].spans[x] = 0 \/ memory[x].spans[x] < Policies[x].spansPerSecond)
    BY <1>2, <1>13 DEF SamplersCount
  <2>3. CASE x \in r.reached
    <3> DEFINE l == Leaf(x, t)
               c == SpanCount(t)
    <3>1. m = l.mem
      BY <1>8, <2>3
    <3>2. /\ l.mem.second = second
          /\ l.decision = "Sampled" => /\ l.mem.spans[x] = PassedNow(x, x) + c
                                       /\ l.mem.spans[x] < Policies[x].spansPerSecond
          /\ l.decision # "Sampled" => l.mem.spans[x] = PassedNow(x, x)
      BY <1>2, <1>13, <2>1, RateSays
    <3>3. /\ memory[x].second = second => PassedNow(x, x) = memory[x].spans[x]
          /\ memory[x].second # second => PassedNow(x, x) = 0
      BY <1>2, <2>1, MemoryInSecond DEF PassedNow
    <3>4. PassedNow(x, x) \in Nat /\ c \in Nat
      BY <2>1, <3>3, SpanCountIsNat DEF Remembers
    <3>5. sampledIn[x] <= PassedNow(x, x)
      BY <2>2, <3>3
    <3>6. PassedNow(x, x) = 0 \/ PassedNow(x, x) < Policies[x].spansPerSecond
      BY <2>2, <3>3
    <3>7. sampledIn[x] \in Nat
      BY <1>2
    <3>8. sampledIn'[x] = IF x = n /\ l.decision = "Sampled" THEN sampledIn[x] + c ELSE sampledIn[x]
      <4>1. CASE x = n
        <5>1. r.decision = l.decision
          BY <1>4, <2>1, <4>1 DEF Says
        <5>2. count = IF l.decision = "Sampled" THEN c ELSE 0
          BY <1>13, <4>1, <5>1 DEF count, HasRate
        <5> HIDE DEF l, c
        <5>3. QED
          BY <1>7, <3>7, <4>1, <5>2
      <4>2. CASE x # n
        BY <1>7, <4>2
      <4>3. QED
        BY <4>1, <4>2
    <3> HIDE DEF l, c, m
    <3>9. sampledIn'[x] <= m.spans[x]
      BY <3>1, <3>2, <3>4, <3>5, <3>7, <3>8
    <3>10. m.spans[x] = 0 \/ m.spans[x] < Policies[x].spansPerSecond
      BY <3>1, <3>2, <3>6
    <3>11. QED
      BY <3>1, <3>2, <3>9, <3>10 DEF m
  <2>4. CASE x \notin r.reached
    <3>1. x # n
      BY <1>4, <2>1, <2>4
    <3>2. m = memory[x] /\ sampledIn'[x] = sampledIn[x]
      BY <1>7, <1>8, <2>4, <3>1
    <3> HIDE DEF m
    <3>3. QED
      BY <2>2, <3>2 DEF m
  <2>5. QED
    BY <2>3, <2>4
<1>14. ASSUME NEW x \in Evaluators, Kind(x) = "composite"
       PROVE  LET m == memory'[x]
              IN /\ m.second # second => sampledIn'[x] = 0
                 /\ m.second = second =>
                      sampledIn'[x] <= Total(m.spans, Subs(x)) /\ IsAllotted(x, m.spans)
  <2> DEFINE m == memory'[x]
  <2>1. Remembers(x, memory[x]) /\ x \notin r.reached
    BY <1>2, <1>4, <1>14 DEF AllRemember, Leaves
  <2>2. /\ memory[x].second # second => sampledIn[x] = 0
        /\ memory[x].second = second =>
             sampledIn[x] <= Total(memory[x].spans, Subs(x)) /\ IsAllotted(x, memory[x].spans)
    BY <1>2, <1>14 DEF SamplersCount
  <2>3. CASE x # n
    <3>1. m = memory[x] /\ sampledIn'[x] = sampledIn[x]
      BY <1>7, <1>8, <2>1, <2>3
    <3> HIDE DEF m
    <3>2. QED
      BY <2>2, <3>1 DEF m
  <2>4. CASE x = n
    <3> DEFINE now == InSecond(memory[n])
    <3>1. m = r.mem
      BY <1>8, <2>1, <2>4
    <3>2. r = Composite(n, t)
      BY <1>4, <1>14, <2>4
    <3>3. /\ Remembers(n, r.mem) /\ r.mem.second = second
          /\ Total(now.spans, Subs(n)) + count <= Total(r.mem.spans, Subs(n))
          /\ IsAllotted(n, now.spans) => IsAllotted(n, r.mem.spans)
      BY <1>1, <1>2, <1>14, <2>1, <2>4, <3>2, CompositeSays DEF count, HasRate
    <3>4. /\ Remembers(n, now)
          /\ memory[n].second = second => now = memory[n]
          /\ memory[n].second # second => now.spans = [y \in Evaluators |-> 0]
      BY <1>2, <2>1, <2>4, MemoryInSecond
    <3> HIDE DEF now, m
    <3>5. now.spans \in [Evaluators -> Nat] /\ r.mem.spans \in [Evaluators -> Nat]
      BY <3>3, <3>4 DEF Remembers
    <3>6. /\ AreCounts(now.spans, Subs(n)) /\ AreCounts(r.mem.spans, Subs(n))
          /\ ToSet(Subs(n)) \subseteq Evaluators
          /\ Allowed(n) \in [ToSet(Subs(n)) -> Nat]
      BY <1>1, <1>14, <2>4, <3>5, PartsAreCounted DEF Leaves
    <3>7. Total(now.spans, Subs(n)) \in Nat /\ Total(r.mem.spans, Subs(n)) \in Nat
      <4>1. ASSUME NEW f, AreCounts(f, Subs(n)) PROVE Total(f, Subs(n)) \in Nat
        <5>1. \A i \in 1..Len(Subs(n)) : f[Subs(n)[i]] <= f[Subs(n)[i]]
          BY <4>1 DEF AreCounts
        <5>2. QED
          BY <4>1, <5>1, TotalGrows
      <4>2. QED
        BY <3>6, <4>1
    <3>8. sampledIn[n] <= Total(now.spans, Subs(n)) /\ IsAllotted(n, now.spans)
      <4>1. CASE memory[n].second = second
        BY <2>2, <2>4, <3>4, <4>1
      <4>2. CASE memory[n].second # second
        <5>1. \A s \in ToSet(Subs(n)) : now.spans[s] = 0 /\ Allowed(n)[s] \in Nat
          BY <3>4, <3>6, <4>2
        <5>2. IsAllotted(n, now.spans)
          BY <5>1 DEF IsAllotted
        <5>3. sampledIn[n] = 0
          BY <2>2, <2>4, <4>2
        <5>4. QED
          BY <3>7, <5>2, <5>3
      <4>3. QED
        BY <4>1, <4>2
    <3>9. sampledIn'[n] = sampledIn[n] + count /\ sampledIn[n] \in Nat
      BY <1>1, <1>2, <1>7
    <3>10. sampledIn'[n] <= Total(r.mem.spans, Subs(n))
      BY <1>6, <3>3, <3>7, <3>8, <3>9
    <3>11. QED
      BY <2>4, <3>1, <3>3, <3>8, <3>10 DEF m
  <2>5. QED
    BY <2>3, <2>4
<1>15. SamplersCount'
  <2>1. ASSUME NEW x \in Evaluators
        PROVE  /\ Kind(x) \in {"rate", "composite"} /\ memory'[x].second # second' => sampledIn'[x] = 0
               /\ Kind(x) = "rate" /\ memory'[x].second = second' =>
                    /\ sampledIn'[x] <= memory'[x].spans[x]
                    /\ memory'[x].spans[x] = 0 \/ memory'[x].spans[x] < Policies[x].spansPerSecond
               /\ Kind(x) = "composite" /\ memory'[x].second = second' =>
                    sampledIn'[x] <= Total(memory'[x].spans, Subs(x)) /\ IsAllotted(x, memory'[x].spans)
    BY <1>3, <1>13, <1>14
  <2>2. QED
    BY <2>1 DEF SamplersCount, IsAllotted, Total
<1>16. QED
  BY <1>11, <1>12, <1>15 DEF PolInv

\* A second begins with nothing passed.
LEMMA NextSecondStep ==
  ASSUME PolInv, NextSecond
  PROVE  PolInv'
<1>1. second \in Nat \ {0} /\ AllRemember /\ sampledIn \in [Evaluators -> Nat] /\ PolTypes /\ VerdictIsOfTheTrace
  BY DEF PolInv, PolTypes
<1>2. /\ second' = second + 1 /\ sampledIn' = [n \in Evaluators |-> 0]
      /\ memory' = memory /\ verdict' = verdict
  BY DEF NextSecond
<1>3. ASSUME NEW n \in Evaluators PROVE Remembers(n, memory[n])' /\ memory'[n].second # second'
  <2>1. Remembers(n, memory[n])
    BY <1>1 DEF AllRemember
  <2>2. memory[n].second \in Nat /\ memory[n].second <= second
    BY <2>1 DEF Remembers
  <2>3. memory[n].second <= second' /\ memory[n].second # second'
    BY <1>1, <1>2, <2>2
  <2>4. QED
    BY <1>2, <2>1, <2>3 DEF Remembers
<1>4. PolTypes'
  BY <1>1, <1>2, <1>3 DEF PolTypes, AllRemember
<1>5. SamplersCount'
  BY <1>2, <1>3 DEF SamplersCount
<1>6. VerdictIsOfTheTrace'
  BY <1>1, <1>2 DEF VerdictIsOfTheTrace
<1>7. QED
  BY <1>4, <1>5, <1>6 DEF PolInv

LEMMA PoliciesGoOn ==
  ASSUME PolInv, [PolNext]_polVars
  PROVE  PolInv'
<1>1. CASE NextSecond
  BY <1>1, NextSecondStep
<1>2. ASSUME NEW n \in Roots, NEW id \in DOMAIN Traces, Evaluate(n, id) PROVE PolInv'
  BY <1>2, EvaluateStep
<1>3. CASE UNCHANGED polVars
  BY <1>3 DEF polVars, PolInv, PolTypes, AllRemember, Remembers, SamplersCount, VerdictIsOfTheTrace
<1>4. QED
  BY <1>1, <1>2, <1>3 DEF PolNext

\* What the evaluators of policies remember is true: the cache of regular expressions holds what a
\* search would find, and the samplers have counted every span they let pass in this second.
THEOREM PoliciesInvariant == PolSpec => []PolInv
<1>1. PolInit => PolInv
  BY PoliciesStart
<1>2. PolInv /\ [PolNext]_polVars => PolInv'
  BY PoliciesGoOn
<1>3. QED
  BY <1>1, <1>2, PTL DEF PolSpec

\* The sum of what a composite lets pass for its parts is within the sum of what they are allowed.
LEMMA RatesFollow ==
  ASSUME PolInv
  PROVE  RatesAreKept
<1>1. second \in Nat \ {0} /\ AllRemember /\ sampledIn \in [Evaluators -> Nat] /\ SamplersCount
  BY DEF PolInv, PolTypes
<1>2. ASSUME NEW n \in Evaluators, Kind(n) = "rate"
      PROVE  sampledIn[n] = 0 \/ sampledIn[n] < Policies[n].spansPerSecond
  <2>1. memory[n].second \in Nat /\ memory[n].spans[n] \in Nat /\ sampledIn[n] \in Nat
    BY <1>1 DEF AllRemember, Remembers
  <2>2. /\ memory[n].second # second => sampledIn[n] = 0
        /\ memory[n].second = second =>
             sampledIn[n] <= memory[n].spans[n] /\ (memory[n].spans[n] = 0 \/ memory[n].spans[n] < Policies[n].spansPerSecond)
    BY <1>1, <1>2 DEF SamplersCount
  <2>3. Policies[n].spansPerSecond \in Int
    BY <1>2, SamplingPoliciesAssumption DEF PoliciesAreWellFormed
  <2>4. QED
    BY <2>1, <2>2, <2>3
<1>3. ASSUME NEW n \in Evaluators, Kind(n) = "composite"
      PROVE  sampledIn[n] <= Total(Allowed(n), Subs(n))
  <2> DEFINE spans == memory[n].spans
             a == Allowed(n)
  <2>1. spans \in [Evaluators -> Nat] /\ sampledIn[n] \in Nat
    BY <1>1 DEF AllRemember, Remembers
  <2>2. AreCounts(spans, Subs(n)) /\ AreCounts(a, Subs(n)) /\ DOMAIN Subs(n) = 1..Len(Subs(n))
    BY <1>3, <2>1, PartsAreCounted
  <2>3. /\ memory[n].second # second => sampledIn[n] = 0
        /\ memory[n].second = second => sampledIn[n] <= Total(spans, Subs(n)) /\ IsAllotted(n, spans)
    BY <1>1, <1>3 DEF SamplersCount
  <2> HIDE DEF spans
  <2>4. CASE memory[n].second # second
    <3>1. \A i \in 1..Len(Subs(n)) : a[Subs(n)[i]] <= a[Subs(n)[i]]
      BY <2>2 DEF AreCounts
    <3>2. Total(a, Subs(n)) \in Nat
      BY <2>2, <3>1, TotalGrows
    <3>3. QED
      BY <2>3, <2>4, <3>2
  <2>5. CASE memory[n].second = second
    <3>1. \A i \in 1..Len(Subs(n)) : spans[Subs(n)[i]] <= a[Subs(n)[i]]
      BY <2>2, <2>3, <2>5 DEF IsAllotted, ToSet
    <3> HIDE DEF a
    <3>2. Total(spans, Subs(n)) \in Nat /\ Total(a, Subs(n)) \in Nat /\ Total(spans, Subs(n)) + 0 <= Total(a, Subs(n))
      BY <2>2, <3>1, TotalGrows
    <3>3. QED
      BY <2>1, <2>3, <2>5, <3>2 DEF a
  <2>6. QED
    BY <2>4, <2>5
<1>4. QED
  BY <1>2, <1>3 DEF RatesAreKept, Roots

\* The verdicts of the tail sampler's policies depend on the spans of a trace alone, and samplers of
\* rates stay within their rates.
THEOREM PoliciesDecideByTheTrace == PolSpec => []VerdictsAreSound
<1>1. PolInv => VerdictsAreSound
  BY RatesFollow DEF PolInv, VerdictsAreSound
<1>2. QED
  BY <1>1, PoliciesInvariant, PTL
=============================================================================
