------------------------ MODULE ScrapeManager_proofs ------------------------
(***************************************************************************)
(* Proofs about the scrape engine, for any jobs, targets, versions and     *)
(* configurations, and any number of changes and restarts.                 *)
(*                                                                         *)
(* OneScraperPerTarget speaks of loops that scrape.  Two things make it    *)
(* inductive.  In one pool, a target has at most one loop that was not     *)
(* told to stop, and while one that was told is still there, the other     *)
(* waits for it (LoopsInv).  And of the pools of a job only the one the    *)
(* manager knows is alive (PoolsInv), although Sync goroutines may still   *)
(* start loops in a pool that ApplyConfig has stopped: there no loop gets  *)
(* beyond its first select.                                                *)
(*                                                                         *)
(* DiscoveryIsCurrent follows what a provider of the current generation    *)
(* offers (ProvidersInv) through the channel, Run, the reloader and the    *)
(* Sync goroutines (UnderwayInv).                                          *)
(***************************************************************************)
EXTENDS ScrapeManager, TLAPS

Groups == [Jobs -> (SUBSET Targets) \cup {None}]
SyncCall == [pool : Pools, groups : SUBSET Targets, pc : {"start", "wait"}]
LoopPcs == {"after", "run", "scrape"}
Loop == [pool : Pools, target : Targets, pc : LoopPcs, stop : BOOLEAN, n : 1..3]

DiscoveryType ==
  [generation : Nat, cfg : Configs, targets : Groups, syncCh : Groups \cup {None}, done : BOOLEAN]

ManagerType ==
  [scrapeConfigs : Configs, scrapePools : [Jobs -> Pools \cup {None}], targetSets : Groups,
   trigger : BOOLEAN, graceShut : BOOLEAN, lock : {"none", "apply", "stop"},
   todo : SUBSET Pools, busy : SUBSET Pools, failed : BOOLEAN,
   caller : {"idle", "apply", "discovery", "stop", "stopping", "down"},
   runner : {"off", "select", "update", "ended"}, held : Groups,
   reloader : {"off", "tick", "reload", "wait", "ended"}, syncs : SUBSET SyncCall]

PoolType ==
  [job : Jobs \cup {None}, cfg : Versions \cup {None}, alive : BOOLEAN, active : SUBSET Targets,
   op : {"none", "sync", "resync", "reload", "stop"}]

ProviderType ==
  [pc : {"off", "wait", "offer"}, cfg : Versions \cup {None}, groups : SUBSET Targets]

BudgetType == [applies : 0..MaxApplies, changes : 0..MaxChanges, restarts : 0..MaxRestarts]

Types ==
  /\ world \in [Versions -> SUBSET Targets]
  /\ \A v \in Versions : world[v] \subseteq Source[v]
  /\ disc \in DiscoveryType
  /\ provider \in [Gens \X Jobs -> ProviderType]
  /\ \A i \in Gens \X Jobs : provider[i].pc # "off" => provider[i].cfg \in Versions
  /\ mgr \in ManagerType
  /\ pool \in [Pools -> PoolType]
  /\ loops \subseteq Loop
  /\ budget \in BudgetType

\* Each ApplyConfig that is not over has been taken from the budget.
GenerationInv ==
  /\ disc.generation + budget.applies + (IF mgr.caller \in {"apply", "discovery"} THEN 1 ELSE 0) <= MaxApplies
  /\ mgr.lock = "apply" => mgr.caller = "apply"

\* A pool operation is known to whoever has started it, and nobody else works on the pool.
OpsInv ==
  /\ mgr.lock = "none" => mgr.todo = {} /\ mgr.busy = {}
  /\ \A p \in mgr.todo \cup mgr.busy : \E j \in Jobs : mgr.scrapePools[j] = p
  /\ \A p \in mgr.busy : pool[p].op \in {"stop", "reload"}
  /\ \A p \in Pools : pool[p].op = "stop" => pool[p].active = {}
  /\ \A s \in mgr.syncs : s.pc = "wait" => pool[s.pool].op \in {"sync", "resync"}
  /\ \A s, t \in mgr.syncs : s.pool = t.pool => s = t
  /\ mgr.syncs # {} => mgr.reloader = "wait"

\* The manager knows the one pool of a job that is alive; ApplyConfig forgets none that is.
PoolsInv ==
  /\ \A j \in Jobs : mgr.scrapePools[j] # None => pool[mgr.scrapePools[j]].job = j
  /\ \A p \in Pools : pool[p].alive => pool[p].job \in Jobs /\ mgr.scrapePools[pool[p].job] = p
  /\ mgr.lock = "apply" =>
       \A j \in Jobs : mgr.scrapeConfigs[j] = None /\ mgr.scrapePools[j] # None =>
         LET p == mgr.scrapePools[j]
         IN  p \in mgr.todo \/ (p \in mgr.busy /\ pool[p].op = "stop") \/ ~pool[p].alive

\* One loop of a target goes on and one stops, and the one that goes on waits for the other.
LoopsOfTarget(l, m) ==
  l.pool = m.pool /\ l.target = m.target =>
    /\ l.stop = m.stop => l = m
    /\ l.stop /\ ~m.stop => m.pc = "after"

LoopsInv ==
  /\ \A l, m \in loops : LoopsOfTarget(l, m)
  /\ \A l \in loops : /\ ~l.stop => l.target \in pool[l.pool].active
                      /\ l.stop => pool[l.pool].op # "none"
                      /\ l.pc = "scrape" => pool[l.pool].alive

EngineInv == Types /\ OpsInv /\ PoolsInv /\ LoopsInv

\* A provider of the current generation works for the current configuration of its job.
ProvidersInv ==
  \A g \in Gens, j \in Jobs :
    provider[<<g, j>>].pc # "off" =>
      /\ g <= disc.generation
      /\ g = disc.generation => provider[<<g, j>>].cfg = disc.cfg[j]
      /\ provider[<<g, j>>].pc = "offer" => provider[<<g, j>>].groups \subseteq Source[provider[<<g, j>>].cfg]

\* The pool of job j has what was stored for it, will be given it, or is being stopped.
Served(j) ==
  \/ [pool |-> mgr.scrapePools[j], groups |-> mgr.targetSets[j], pc |-> "start"] \in mgr.syncs
  \/ pool[mgr.scrapePools[j]].active = mgr.targetSets[j]
  \/ ~pool[mgr.scrapePools[j]].alive \/ pool[mgr.scrapePools[j]].op = "stop"

\* What has been stored is handed on: a trigger is pending, or reload is under way with it.
Stored ==
  \/ mgr.trigger \/ mgr.reloader = "reload"
  \/ \A j \in Jobs : mgr.scrapePools[j] # None /\ mgr.targetSets[j] # None => Served(j)

\* Where the last update of discovery is, and that no older one overtakes it.
UnderwayInv ==
  /\ ~disc.done /\ disc.syncCh # None => disc.syncCh = AllTargets(disc)
  /\ ~disc.done /\ mgr.runner = "update" => disc.syncCh = AllTargets(disc) \/ mgr.held = AllTargets(disc)
  /\ ~mgr.trigger =>
       \A s \in mgr.syncs, j \in Jobs : mgr.scrapePools[j] = s.pool => s.groups = mgr.targetSets[j]
  /\ disc.generation > 0 /\ ~disc.done =>
       \/ disc.syncCh = AllTargets(disc) \/ mgr.held = AllTargets(disc)
       \/ mgr.targetSets = AllTargets(disc) /\ Stored

-----------------------------------------------------------------------------
(* Types.                                                                  *)

\* Pool p has one loop for t, or none.
OneLoopAtMost(p, t) == \A l, m \in LoopsOf(p) : l.target = t /\ m.target = t => l = m

IsNew(l, p, t, c) == l \in Loop /\ l.pool = p /\ l.target = t /\ l.pc = c /\ l.stop = FALSE

\* A new loop is a loop: of the loops its target may have, one at most is still there, so a
\* number is left to tell the new one from it.
LEMMA NewLoopType ==
  ASSUME Types, NEW p \in Pools, NEW t \in Targets, NEW c \in LoopPcs,
         OneLoopAtMost(p, t)
  PROVE  IsNew(NewLoop(p, t, c), p, t, c)
<1> DEFINE Free(n) == \A l \in LoopsOf(p) : l.target = t => l.n # n
<1>1. \E n \in 1..3 : Free(n)
  <2>1. CASE \E l \in LoopsOf(p) : l.target = t
    <3>1. PICK l \in LoopsOf(p) : l.target = t
      BY <2>1
    <3>2. \A m \in LoopsOf(p) : m.target = t => m = l
      BY <3>1 DEF OneLoopAtMost
    <3>3. Free(1) \/ Free(2)
      BY <3>2
    <3> QED BY <3>3
  <2>2. CASE ~\E l \in LoopsOf(p) : l.target = t
    BY <2>2
  <2> QED BY <2>1, <2>2
<1>2. (CHOOSE n \in 1..3 : Free(n)) \in 1..3
  BY <1>1
<1> HIDE DEF Free
<1>3. NewLoop(p, t, c) = [pool |-> p, target |-> t, pc |-> c, stop |-> FALSE,
                          n |-> CHOOSE n \in 1..3 : Free(n)]
  BY DEF NewLoop, Free
<1> QED BY <1>2, <1>3 DEF Loop, IsNew

\* What becomes of a loop when the loops of pool p for the targets in ts are told to stop.
Told(p, ts, k) == IF k.pool = p /\ k.target \in ts THEN [k EXCEPT !.stop = TRUE] ELSE k

\* To tell a loop to stop changes nothing of it but its stop.
LEMMA ToldKeeps ==
  ASSUME Types, NEW p \in Pools, NEW ts, NEW k \in loops
  PROVE  /\ Told(p, ts, k) \in Loop
         /\ Told(p, ts, k).pool = k.pool
         /\ Told(p, ts, k).target = k.target
         /\ Told(p, ts, k).pc = k.pc
         /\ Told(p, ts, k).stop = (k.stop \/ (k.pool = p /\ k.target \in ts))
<1>1. k \in Loop
  BY DEF Types
<1>2. CASE k.pool = p /\ k.target \in ts
  <2>1. Told(p, ts, k) = [k EXCEPT !.stop = TRUE]
    BY <1>2 DEF Told
  <2>2. [k EXCEPT !.stop = TRUE] \in Loop
    BY <1>1 DEF Loop
  <2>3. /\ Told(p, ts, k).pool = k.pool /\ Told(p, ts, k).target = k.target
        /\ Told(p, ts, k).pc = k.pc /\ Told(p, ts, k).stop = TRUE
    BY <1>1, <2>1 DEF Loop
  <2> QED BY <1>2, <2>1, <2>2, <2>3
<1>3. CASE ~(k.pool = p /\ k.target \in ts)
  <2>1. Told(p, ts, k) = k
    BY <1>3 DEF Told
  <2>2. k.stop \in BOOLEAN
    BY <1>1 DEF Loop
  <2> QED BY <1>1, <1>3, <2>1, <2>2
<1> QED BY <1>2, <1>3

\* What None is not.
LEMMA NoneIsNothing ==
  /\ None \notin Versions /\ None \notin Jobs /\ None \notin Pools
  /\ \A ts \in SUBSET Targets : ts # None
  /\ \A gs \in Groups : gs # None
BY ScrapeManagerAssumption DEF Groups

\* A group for no job, a configuration of no job.
LEMMA NoSetsType == NoSets \in Groups /\ NoSets \in Configs
<1>1. NoSets \in Groups
  BY DEF NoSets, Groups
<1>2. NoSets \in Configs
  BY DEF NoSets, Configs
<1> QED BY <1>1, <1>2

\* What every job has found is a group for each job, and an update of discovery is discovery.
LEMMA UpdateTypes ==
  ASSUME NEW d \in DiscoveryType
  PROVE  /\ AllTargets(d) \in Groups
         /\ SendLatestUpdate(d) \in DiscoveryType
         /\ SendLatestUpdate(d).syncCh = AllTargets(d)
         /\ SendLatestUpdate(d).generation = d.generation
         /\ SendLatestUpdate(d).cfg = d.cfg
         /\ SendLatestUpdate(d).targets = d.targets
         /\ SendLatestUpdate(d).done = d.done
         /\ AllTargets(SendLatestUpdate(d)) = AllTargets(d)
<1>1. AllTargets(d) \in Groups
  <2>1. d.targets \in [Jobs -> (SUBSET Targets) \cup {None}]
    BY DEF DiscoveryType, Groups
  <2>2. \A j \in Jobs :
          (IF d.cfg[j] = None THEN None ELSE IF d.targets[j] = None THEN {} ELSE d.targets[j])
             \in (SUBSET Targets) \cup {None}
    BY <2>1
  <2> QED BY <2>2 DEF AllTargets, Groups
<1>2. /\ SendLatestUpdate(d) \in DiscoveryType
      /\ SendLatestUpdate(d).syncCh = AllTargets(d)
      /\ SendLatestUpdate(d).generation = d.generation
      /\ SendLatestUpdate(d).cfg = d.cfg
      /\ SendLatestUpdate(d).targets = d.targets
      /\ SendLatestUpdate(d).done = d.done
  BY <1>1 DEF SendLatestUpdate, DiscoveryType
<1>3. AllTargets(SendLatestUpdate(d)) = AllTargets(d)
  BY <1>2 DEF AllTargets
<1> QED BY <1>1, <1>2, <1>3

\* The environment and the providers keep the types.
LEMMA ProviderStepsTypes ==
  ASSUME Types,
         \/ \E v \in Versions : WorldChanges(v)
         \/ \E g \in Gens, j \in Jobs : Publish(g, j) \/ RunDiscoverer(g, j)
  PROVE  Types'
<1> USE DEF Types
<1>1. ASSUME NEW v \in Versions, WorldChanges(v)
      PROVE  Types'
  <2>1. PICK ts \in SUBSET Source[v] : world' = [world EXCEPT ![v] = ts]
    BY <1>1 DEF WorldChanges
  <2>2. /\ world' \in [Versions -> SUBSET Targets]
        /\ \A w \in Versions : world'[w] \subseteq Source[w]
    BY <2>1, ScrapeManagerAssumption
  <2>3. budget' \in BudgetType
    BY <1>1, ScrapeManagerAssumption DEF WorldChanges, BudgetType
  <2> QED BY <1>1, <2>2, <2>3 DEF WorldChanges
<1>2. ASSUME NEW g \in Gens, NEW j \in Jobs, Publish(g, j)
      PROVE  Types'
  <2> DEFINE q == provider[<<g, j>>]
             r == [q EXCEPT !.pc = "offer", !.groups = world[q.cfg]]
  <2>1. <<g, j>> \in Gens \X Jobs
    OBVIOUS
  <2>2. q \in ProviderType /\ q.pc = "wait" /\ q.cfg \in Versions
    BY <1>2, <2>1 DEF Publish
  <2>3. r \in ProviderType /\ r.cfg \in Versions
    BY <2>2 DEF ProviderType
  <2>4. provider' = [provider EXCEPT ![<<g, j>>] = r]
    BY <1>2, <2>1 DEF Publish
  <2> HIDE DEF q, r
  <2>5. /\ provider' \in [Gens \X Jobs -> ProviderType]
        /\ \A i \in Gens \X Jobs : provider'[i].pc # "off" => provider'[i].cfg \in Versions
    BY <2>1, <2>3, <2>4
  <2> QED BY <1>2, <2>5 DEF Publish
<1>3. ASSUME NEW g \in Gens, NEW j \in Jobs, RunDiscoverer(g, j)
      PROVE  Types'
  <2> DEFINE q == provider[<<g, j>>]
             r == [q EXCEPT !.pc = "wait", !.groups = {}]
             d == [disc EXCEPT !.targets[j] = q.groups]
  <2>1. <<g, j>> \in Gens \X Jobs
    OBVIOUS
  <2>2. q \in ProviderType /\ q.pc = "offer" /\ q.cfg \in Versions
    BY <1>3, <2>1 DEF RunDiscoverer
  <2>3. r \in ProviderType /\ r.cfg \in Versions
    BY <2>2 DEF ProviderType
  <2>4. Off \in ProviderType /\ Off.pc = "off"
    BY DEF Off, ProviderType
  <2>5. d \in DiscoveryType
    BY <2>2 DEF DiscoveryType, ProviderType, Groups
  <2>6. disc' = disc \/ disc' = SendLatestUpdate(d)
    BY <1>3 DEF RunDiscoverer
  <2>7. provider' = [provider EXCEPT ![<<g, j>>] = Off] \/ provider' = [provider EXCEPT ![<<g, j>>] = r]
    BY <1>3, <2>1 DEF RunDiscoverer
  <2> HIDE DEF q, r, d
  <2>8. /\ provider' \in [Gens \X Jobs -> ProviderType]
        /\ \A i \in Gens \X Jobs : provider'[i].pc # "off" => provider'[i].cfg \in Versions
    BY <2>1, <2>3, <2>4, <2>7
  <2>9. disc' \in DiscoveryType
    BY <2>5, <2>6, UpdateTypes
  <2> QED BY <1>3, <2>8, <2>9 DEF RunDiscoverer
<1> QED BY <1>1, <1>2, <1>3

\* A new generation of providers, and the end of discovery, keep the types.
LEMMA DiscoveryTypes ==
  ASSUME Types, DiscoveryApplyConfig \/ Shutdown
  PROVE  Types'
<1> USE DEF Types
<1>1. Off \in ProviderType /\ Off.pc = "off" /\ Off.cfg = None
  BY DEF Off, ProviderType
<1>2. NoSets \in Groups /\ NoSets \in Configs
  BY NoSetsType
<1>3. CASE DiscoveryApplyConfig
  <2> DEFINE cfg == mgr.scrapeConfigs
             gen == disc.generation + 1
             d   == [disc EXCEPT !.generation = gen, !.cfg = cfg, !.targets = NoSets]
             New(i) == IF i[1] = gen /\ cfg[i[2]] # None THEN [Off EXCEPT !.pc = "wait", !.cfg = cfg[i[2]]]
                       ELSE IF provider[i].pc = "wait" THEN Off ELSE provider[i]
  <2>1. cfg \in Configs
    BY DEF ManagerType
  <2>2. d \in DiscoveryType
    <3>1. disc \in DiscoveryType /\ gen \in Nat
      BY DEF DiscoveryType
    <3> HIDE DEF Types, cfg, gen
    <3> QED BY <3>1, <2>1, <1>2 DEF DiscoveryType
  <2>3. disc' \in DiscoveryType
    <3>1. disc' = SendLatestUpdate(d)
      BY <1>3 DEF DiscoveryApplyConfig
    <3> HIDE DEF d
    <3> QED BY <3>1, <2>2, UpdateTypes
  <2>4. ASSUME NEW i \in Gens \X Jobs
        PROVE  New(i) \in ProviderType /\ (New(i).pc # "off" => New(i).cfg \in Versions)
    <3>1. i[2] \in Jobs /\ cfg[i[2]] \in Versions \cup {None}
      BY <2>1 DEF Configs
    <3>2. CASE i[1] = gen /\ cfg[i[2]] # None
      BY <3>1, <3>2, <1>1 DEF ProviderType
    <3>3. CASE ~(i[1] = gen /\ cfg[i[2]] # None)
      BY <3>3, <1>1
    <3> QED BY <3>2, <3>3
  <2>5. provider' = [i \in Gens \X Jobs |-> New(i)]
    BY <1>3 DEF DiscoveryApplyConfig
  <2>6. mgr' \in ManagerType
    BY <1>3 DEF DiscoveryApplyConfig, ManagerType
  <2> HIDE DEF New
  <2>7. /\ provider' \in [Gens \X Jobs -> ProviderType]
        /\ \A i \in Gens \X Jobs : provider'[i].pc # "off" => provider'[i].cfg \in Versions
    BY <2>4, <2>5
  <2> QED BY <1>3, <2>3, <2>6, <2>7 DEF DiscoveryApplyConfig
<1>4. CASE Shutdown
  <2>1. disc' \in DiscoveryType
    BY <1>4, <1>2 DEF Shutdown, DiscoveryRunEnds, DiscoveryType
  <2>2. provider' = [i \in Gens \X Jobs |-> Off]
    BY <1>4 DEF Shutdown, DiscoveryRunEnds
  <2>3. mgr' \in ManagerType
    BY <1>4 DEF Shutdown, ManagerType
  <2> QED BY <1>1, <1>4, <2>1, <2>2, <2>3 DEF Shutdown
<1> QED BY <1>3, <1>4

-----------------------------------------------------------------------------
(* Loops.                                                                  *)

\* What sync, reload, resetting the symbol table and stop do to pool p: the loops of the targets
\* that are gone are told to stop, and there are new loops, which wait for the one of their
\* target or have none to wait for.
Works(p, gone, new, c) ==
  /\ Stopping(p) = {}
  /\ new \subseteq Targets
  /\ loops' = StopLoops(p, gone) \cup {NewLoop(p, t, c) : t \in new}
  /\ \/ c = "after" /\ new \subseteq gone
     \/ c = "run" /\ new \cap pool[p].active = {}
  /\ pool'[p].active = (pool[p].active \ gone) \cup new
  /\ pool'[p].op # "none"
  /\ pool'[p].alive = pool[p].alive
  /\ \A q \in Pools \ {p} : pool'[q] = pool[q]

\* Whatever works on a pool leaves each of its targets one loop that goes on at most, and that
\* one behind the loop that stops.
LEMMA WorksKeepsLoops ==
  ASSUME Types, LoopsInv, NEW p \in Pools, NEW gone, NEW new, NEW c, Works(p, gone, new, c)
  PROVE  loops' \subseteq Loop /\ LoopsInv'
<1> DEFINE Old(k) == Told(p, gone, k)
           New(t) == NewLoop(p, t, c)
<1>1. \A l \in loops' : (\E k \in loops : l = Old(k)) \/ (\E t \in new : l = New(t))
  BY DEF Works, StopLoops, Told
<1>2. \A k \in loops : /\ Old(k) \in Loop /\ k \in Loop
                       /\ Old(k).pool = k.pool /\ Old(k).target = k.target /\ Old(k).pc = k.pc
                       /\ Old(k).stop = (k.stop \/ (k.pool = p /\ k.target \in gone))
  BY ToldKeeps DEF Types
<1>3. \A k \in loops : k.pool = p => ~k.stop
  BY DEF Works, Stopping, LoopsOf
<1>4. \A k, l \in loops : k.pool = p /\ l.pool = p /\ k.target = l.target => k = l
  <2>1. \A k \in loops : k.pool = p => k.stop = FALSE
    BY <1>2, <1>3 DEF Loop
  <2> QED BY <2>1 DEF LoopsInv, LoopsOfTarget
<1>5. \A t \in new : /\ New(t) \in Loop /\ New(t).pool = p /\ New(t).target = t
                     /\ New(t).pc = c /\ New(t).stop = FALSE
  <2> SUFFICES ASSUME NEW t \in new
               PROVE  /\ New(t) \in Loop /\ New(t).pool = p /\ New(t).target = t
                      /\ New(t).pc = c /\ New(t).stop = FALSE
    OBVIOUS
  <2>1. OneLoopAtMost(p, t)
    BY <1>4 DEF LoopsOf, OneLoopAtMost
  <2>2. t \in Targets /\ c \in LoopPcs
    BY DEF Works, LoopPcs
  <2> HIDE DEF Works
  <2>3. IsNew(NewLoop(p, t, c), p, t, c)
    BY <2>1, <2>2, NewLoopType
  <2> QED BY <2>3 DEF IsNew
<1>6. ASSUME NEW k \in loops, NEW t \in new, k.pool = p, k.target = t
      PROVE  c = "after" /\ Old(k).stop = TRUE
  <2>1. k.target \in pool[p].active
    BY <1>3, <1>6 DEF LoopsInv
  <2>2. c = "after" /\ t \in gone
    BY <2>1, <1>6 DEF Works
  <2> QED BY <2>2, <1>2, <1>6
<1> HIDE DEF Old, New
<1>7. ASSUME NEW l \in loops', NEW m \in loops'
      PROVE  LoopsOfTarget(l, m)
  <2>1. CASE (\E k \in loops : l = Old(k)) /\ (\E k \in loops : m = Old(k))
    <3>1. PICK k \in loops, h \in loops : l = Old(k) /\ m = Old(h)
      BY <2>1
    <3>2. LoopsOfTarget(k, h)
      BY DEF LoopsInv
    <3>3. CASE k.pool = p
      BY <3>1, <3>3, <1>2, <1>4 DEF LoopsOfTarget
    <3>4. CASE k.pool # p
      BY <3>1, <3>2, <3>4, <1>2 DEF LoopsOfTarget, Loop
    <3> QED BY <3>3, <3>4
  <2>2. CASE (\E t \in new : l = New(t)) /\ (\E t \in new : m = New(t))
    BY <2>2, <1>5 DEF LoopsOfTarget
  <2>3. CASE (\E k \in loops : l = Old(k)) /\ (\E t \in new : m = New(t))
    <3>1. PICK k \in loops, t \in new : l = Old(k) /\ m = New(t)
      BY <2>3
    <3>2. CASE k.pool = p /\ k.target = t
      <4>1. c = "after" /\ l.stop = TRUE /\ m.stop = FALSE /\ m.pc = c
        BY <3>1, <3>2, <1>5, <1>6
      <4> QED BY <4>1 DEF LoopsOfTarget
    <3>3. CASE ~(k.pool = p /\ k.target = t)
      BY <3>1, <3>3, <1>2, <1>5 DEF LoopsOfTarget
    <3> QED BY <3>2, <3>3
  <2>4. CASE (\E t \in new : l = New(t)) /\ (\E k \in loops : m = Old(k))
    <3>1. PICK k \in loops, t \in new : m = Old(k) /\ l = New(t)
      BY <2>4
    <3>2. CASE k.pool = p /\ k.target = t
      <4>1. c = "after" /\ m.stop = TRUE /\ l.stop = FALSE /\ l.pc = c
        BY <3>1, <3>2, <1>5, <1>6
      <4> QED BY <4>1 DEF LoopsOfTarget
    <3>3. CASE ~(k.pool = p /\ k.target = t)
      BY <3>1, <3>3, <1>2, <1>5 DEF LoopsOfTarget
    <3> QED BY <3>2, <3>3
  <2> QED BY <1>1, <2>1, <2>2, <2>3, <2>4
<1>8. ASSUME NEW l \in loops'
      PROVE  /\ l \in Loop
             /\ ~l.stop => l.target \in pool'[l.pool].active
             /\ l.stop => pool'[l.pool].op # "none"
             /\ l.pc = "scrape" => pool'[l.pool].alive
  <2>1. CASE \E k \in loops : l = Old(k)
    <3>1. PICK k \in loops : l = Old(k)
      BY <2>1
    <3>2. /\ ~k.stop => k.target \in pool[k.pool].active
          /\ k.stop => pool[k.pool].op # "none"
          /\ k.pc = "scrape" => pool[k.pool].alive
      BY DEF LoopsInv
    <3>3. k.pool \in Pools /\ l \in Loop
      BY <3>1, <1>2 DEF Loop
    <3>4. CASE k.pool = p
      BY <3>1, <3>2, <3>3, <3>4, <1>2 DEF Works
    <3>5. CASE k.pool # p
      BY <3>1, <3>2, <3>3, <3>5, <1>2 DEF Works
    <3> QED BY <3>4, <3>5
  <2>2. CASE \E t \in new : l = New(t)
    BY <2>2, <1>5 DEF Works
  <2> QED BY <1>1, <2>1, <2>2
<1> QED BY <1>7, <1>8 DEF LoopsInv

\* A loop that moves on by itself.
LEMMA LoopStepsKeepLoops ==
  ASSUME Types, LoopsInv, NEW l \in loops, LoopScrape(l) \/ LoopStep(l)
  PROVE  loops' \subseteq Loop /\ LoopsInv' /\ UNCHANGED <<world, disc, provider, mgr, pool, budget>>
<1>1. UNCHANGED <<world, disc, provider, mgr, pool, budget>>
  BY DEF LoopScrape, LoopStep, LoopTakesOver, LoopScraped, LoopEnds
<1>2. CASE LoopEnds(l)
  BY <1>1, <1>2 DEF LoopEnds, LoopsInv, Types
<1>3. CASE LoopScrape(l) \/ LoopTakesOver(l) \/ LoopScraped(l)
  <2>0. l \in Loop /\ LoopsOfTarget(l, l)
    BY DEF Types, LoopsOfTarget
  <2>1. PICK c \in {"run", "scrape"} : /\ Replace(l, [l EXCEPT !.pc = c])
                                       /\ c = "scrape" => pool[l.pool].alive
    BY <1>3 DEF LoopScrape, LoopTakesOver, LoopScraped, Done
  <2> DEFINE m == [l EXCEPT !.pc = c]
  <2>2. m \in Loop /\ m.pool = l.pool /\ m.target = l.target /\ m.pc = c /\ m.stop = l.stop
    BY <2>0 DEF Loop, LoopPcs
  <2>3. ASSUME NEW k \in loops, k # l, k.pool = l.pool, k.target = l.target
        PROVE  ~k.stop /\ l.stop /\ k.pc = "after"
    <3>1. LoopsOfTarget(k, l) /\ LoopsOfTarget(l, k) /\ k \in Loop
      BY DEF LoopsInv, Types
    <3>2. k.stop # l.stop
      BY <3>1, <2>3 DEF LoopsOfTarget
    <3>3. CASE LoopTakesOver(l)
      <4>1. k \notin Stopping(l.pool)
        BY <3>3, <2>3 DEF LoopTakesOver
      <4>2. ~k.stop
        BY <4>1, <2>3 DEF Stopping, LoopsOf
      <4> QED BY <4>2, <3>1, <3>2, <2>0, <2>3 DEF LoopsOfTarget, Loop
    <3>4. CASE LoopScrape(l) \/ LoopScraped(l)
      <4>1. l.pc # "after"
        BY <3>4 DEF LoopScrape, LoopScraped
      <4> QED BY <4>1, <3>1, <3>2, <2>0, <2>3 DEF LoopsOfTarget, Loop
    <3> QED BY <1>3, <3>3, <3>4
  <2>4. loops' = (loops \ {l}) \cup {m}
    BY <2>1 DEF Replace
  <2> HIDE DEF m
  <2>5. ASSUME NEW h \in loops', NEW k \in loops'
        PROVE  LoopsOfTarget(h, k)
    <3>1. CASE h = m /\ k # m
      BY <3>1, <2>2, <2>3, <2>4 DEF LoopsOfTarget
    <3>2. CASE k = m /\ h # m
      BY <3>2, <2>2, <2>3, <2>4 DEF LoopsOfTarget
    <3>3. CASE h # m /\ k # m
      BY <3>3, <2>4 DEF LoopsInv
    <3> QED BY <3>1, <3>2, <3>3 DEF LoopsOfTarget
  <2>6. \A h \in loops' : /\ h \in Loop
                          /\ ~h.stop => h.target \in pool'[h.pool].active
                          /\ h.stop => pool'[h.pool].op # "none"
                          /\ h.pc = "scrape" => pool'[h.pool].alive
    BY <1>1, <2>1, <2>2, <2>4 DEF LoopsInv, Types
  <2> QED BY <1>1, <2>5, <2>6 DEF LoopsInv
<1> QED BY <1>2, <1>3 DEF LoopStep

-----------------------------------------------------------------------------
(* The manager and its pools.                                              *)

\* The steps of ApplyConfig, Run, the reloader and Stop that touch no pool.
ManagerStep ==
  \/ \E cfg \in Applied(MaxApplies - budget.applies + 1) : ApplyConfig(cfg)
  \/ ApplyConfigReturns \/ Receive \/ UpdateTsets \/ RunEnds \/ ReloaderTriggered \/ ReloaderEnds
  \/ ReloadReturns \/ Stop \/ StopReturns

\* They keep the types.
LEMMA ManagerTypes ==
  ASSUME Types, ManagerStep
  PROVE  Types'
<1> USE DEF Types
<1>1. disc \in DiscoveryType /\ mgr \in ManagerType /\ budget \in BudgetType
  OBVIOUS
<1>2. UNCHANGED <<world, provider, pool, loops>>
  BY DEF ManagerStep, ApplyConfig, ApplyConfigReturns, Receive, UpdateTsets, RunEnds,
         ReloaderTriggered, ReloaderEnds, ReloadReturns, Stop, StopReturns
<1> SUFFICES disc' \in DiscoveryType /\ mgr' \in ManagerType /\ budget' \in BudgetType
  BY <1>2
<1> HIDE DEF Types
<1>3. NoSets \in Groups
  BY NoSetsType
<1>4. ASSUME NEW cfg \in Applied(MaxApplies - budget.applies + 1), ApplyConfig(cfg)
      PROVE  disc' \in DiscoveryType /\ mgr' \in ManagerType /\ budget' \in BudgetType
  <2>1. MaxApplies - budget.applies + 1 \in 1..MaxApplies
    BY <1>1, <1>4, ScrapeManagerAssumption DEF ApplyConfig, BudgetType
  <2>2. cfg \in Configs
    BY <2>1, ScrapeManagerAssumption
  <2>3. budget' \in BudgetType
    BY <1>1, <1>4, ScrapeManagerAssumption DEF ApplyConfig, BudgetType
  <2>4. mgr' \in ManagerType
    BY <1>1, <1>4, <2>2 DEF ApplyConfig, ManagerType
  <2> QED BY <1>1, <1>4, <2>3, <2>4 DEF ApplyConfig
<1>5. CASE ApplyConfigReturns
  <2> DEFINE kept == [j \in Jobs |-> IF mgr.scrapeConfigs[j] = None THEN None ELSE mgr.scrapePools[j]]
  <2>1. kept \in [Jobs -> Pools \cup {None}]
    BY <1>1 DEF ManagerType
  <2>2. mgr' = [mgr EXCEPT !.lock = "none", !.caller = IF mgr.failed THEN "idle" ELSE "discovery",
                           !.scrapePools = kept]
    BY <1>5 DEF ApplyConfigReturns
  <2> HIDE DEF kept
  <2>3. mgr' \in ManagerType
    BY <1>1, <2>1, <2>2 DEF ManagerType
  <2> QED BY <1>1, <1>5, <2>3 DEF ApplyConfigReturns
<1>6. CASE Receive
  <2>1. disc.syncCh \in Groups
    BY <1>1, <1>6 DEF Receive, DiscoveryType
  <2>2. mgr' \in ManagerType
    BY <1>1, <1>6, <2>1 DEF Receive, ManagerType
  <2>3. disc' \in DiscoveryType
    BY <1>1, <1>6 DEF Receive, DiscoveryType
  <2> QED BY <1>1, <1>6, <2>2, <2>3 DEF Receive
<1>7. CASE UpdateTsets
  BY <1>1, <1>3, <1>7 DEF UpdateTsets, ManagerType
<1>8. CASE RunEnds \/ ReloaderTriggered \/ ReloaderEnds \/ ReloadReturns
  <2>1. CASE RunEnds
    BY <1>1, <2>1 DEF RunEnds, ManagerType
  <2>2. CASE ReloaderTriggered
    BY <1>1, <2>2 DEF ReloaderTriggered, ManagerType
  <2>3. CASE ReloaderEnds
    BY <1>1, <2>3 DEF ReloaderEnds, ManagerType
  <2>4. CASE ReloadReturns
    BY <1>1, <2>4 DEF ReloadReturns, ManagerType
  <2> QED BY <1>8, <2>1, <2>2, <2>3, <2>4
<1>9. CASE Stop
  BY <1>1, <1>9 DEF Stop, ManagerType
<1>10. CASE StopReturns
  BY <1>1, <1>10 DEF StopReturns, ManagerType
<1> QED BY <1>4, <1>5, <1>6, <1>7, <1>8, <1>9, <1>10 DEF ManagerStep

\* They keep what the manager knows of its pools: it forgets a pool only when it has stopped it.
LEMMA ManagerKeepsPools ==
  ASSUME EngineInv, ManagerStep, Types'
  PROVE  EngineInv'
<1> USE DEF EngineInv
<1>1. mgr \in ManagerType /\ pool \in [Pools -> PoolType] /\ None \notin Pools
  BY NoneIsNothing DEF Types
<1>2. UNCHANGED <<pool, loops>>
  BY DEF ManagerStep, ApplyConfig, ApplyConfigReturns, Receive, UpdateTsets, RunEnds,
         ReloaderTriggered, ReloaderEnds, ReloadReturns, Stop, StopReturns
<1>3. LoopsInv'
  BY <1>2 DEF LoopsInv, LoopsOfTarget
<1> SUFFICES OpsInv' /\ PoolsInv'
  BY <1>3
<1>4. ASSUME NEW cfg, ApplyConfig(cfg)
      PROVE  OpsInv' /\ PoolsInv'
  <2>1. /\ mgr.lock = "none" /\ mgr'.lock = "apply"
        /\ mgr'.todo = {p \in Pools : \E j \in Jobs : mgr.scrapePools[j] = p}
        /\ mgr'.busy = mgr.busy /\ mgr'.scrapePools = mgr.scrapePools
        /\ mgr'.syncs = mgr.syncs /\ mgr'.reloader = mgr.reloader
    BY <1>1, <1>4 DEF ApplyConfig, ManagerType
  <2>2. OpsInv'
    BY <1>2, <2>1 DEF OpsInv
  <2>3. \A j \in Jobs : mgr.scrapePools[j] # None => mgr.scrapePools[j] \in mgr'.todo
    BY <1>1, <2>1 DEF ManagerType
  <2>4. PoolsInv'
    BY <1>2, <2>1, <2>3 DEF PoolsInv
  <2> QED BY <2>2, <2>4
<1>5. CASE ApplyConfigReturns
  <2>1. /\ mgr.lock = "apply" /\ mgr'.lock = "none" /\ mgr.todo = {} /\ mgr.busy = {}
        /\ mgr'.todo = {} /\ mgr'.busy = {}
        /\ mgr'.scrapePools = [j \in Jobs |-> IF mgr.scrapeConfigs[j] = None THEN None ELSE mgr.scrapePools[j]]
        /\ mgr'.syncs = mgr.syncs /\ mgr'.reloader = mgr.reloader
    BY <1>1, <1>5 DEF ApplyConfigReturns, ManagerType
  <2>2. OpsInv'
    BY <1>2, <2>1 DEF OpsInv
  <2>3. \A j \in Jobs : mgr'.scrapePools[j] # None => mgr'.scrapePools[j] = mgr.scrapePools[j]
    BY <2>1
  <2>4. \A p \in Pools : pool[p].alive => mgr'.scrapePools[pool[p].job] = p
    <3> SUFFICES ASSUME NEW p \in Pools, pool[p].alive
                 PROVE  mgr'.scrapePools[pool[p].job] = p
      OBVIOUS
    <3>1. pool[p].job \in Jobs /\ mgr.scrapePools[pool[p].job] = p
      BY DEF PoolsInv
    <3>2. mgr.scrapeConfigs[pool[p].job] # None
      BY <1>1, <2>1, <3>1 DEF PoolsInv
    <3> QED BY <2>1, <3>1, <3>2
  <2>5. PoolsInv'
    BY <1>2, <2>1, <2>3, <2>4 DEF PoolsInv
  <2> QED BY <2>2, <2>5
<1>6. CASE Stop
  <2>1. /\ mgr.lock = "none" /\ mgr'.lock = "stop"
        /\ mgr'.todo = {p \in Pools : \E j \in Jobs : mgr.scrapePools[j] = p}
        /\ mgr'.busy = mgr.busy /\ mgr'.scrapePools = mgr.scrapePools
        /\ mgr'.syncs = mgr.syncs /\ mgr'.reloader = mgr.reloader
    BY <1>1, <1>6 DEF Stop, ManagerType
  <2>2. OpsInv' /\ PoolsInv'
    BY <1>2, <2>1 DEF OpsInv, PoolsInv
  <2> QED BY <2>2
<1>7. CASE StopReturns
  <2>1. /\ mgr'.lock = "none" /\ mgr'.todo = {} /\ mgr'.busy = {}
        /\ mgr'.scrapePools = mgr.scrapePools
        /\ mgr'.syncs = mgr.syncs /\ mgr'.reloader = mgr.reloader
    BY <1>1, <1>7 DEF StopReturns, ManagerType
  <2>2. OpsInv' /\ PoolsInv'
    BY <1>2, <2>1 DEF OpsInv, PoolsInv
  <2> QED BY <2>2
<1>8. CASE Receive \/ UpdateTsets \/ RunEnds \/ ReloaderTriggered \/ ReloaderEnds \/ ReloadReturns
  <2>1. /\ mgr'.lock = mgr.lock /\ mgr'.todo = mgr.todo /\ mgr'.busy = mgr.busy
        /\ mgr'.scrapePools = mgr.scrapePools /\ mgr'.scrapeConfigs = mgr.scrapeConfigs
        /\ mgr'.syncs = mgr.syncs
        /\ mgr'.reloader = mgr.reloader \/ mgr.reloader = "tick" \/ mgr.syncs = {}
    BY <1>1, <1>8 DEF Receive, UpdateTsets, RunEnds, ReloaderTriggered, ReloaderEnds, ReloadReturns,
                      ManagerType
  <2>2. OpsInv'
    BY <1>2, <2>1 DEF OpsInv
  <2>3. PoolsInv'
    BY <1>2, <2>1 DEF PoolsInv
  <2> QED BY <2>2, <2>3
<1> QED BY <1>4, <1>5, <1>6, <1>7, <1>8 DEF ManagerStep

\* Changing one pool changes no other.
LEMMA OnePool ==
  ASSUME pool \in [Pools -> PoolType], NEW p \in Pools, NEW r \in PoolType,
         pool' = [pool EXCEPT ![p] = r]
  PROVE  /\ pool' \in [Pools -> PoolType]
         /\ pool'[p] = r
         /\ \A q \in Pools \ {p} : pool'[q] = pool[q]
OBVIOUS

\* What one goroutine of Sync does to its call and its pool.
LEMMA SyncStepsKeep ==
  ASSUME EngineInv, NEW s \in mgr.syncs, Sync(s) \/ SymbolTableReset(s) \/ SyncEnds(s)
  PROVE  EngineInv'
<1> USE DEF EngineInv
<1> DEFINE p == s.pool
<1>1. /\ mgr \in ManagerType /\ pool \in [Pools -> PoolType] /\ loops \subseteq Loop
      /\ budget \in BudgetType /\ disc \in DiscoveryType
  BY DEF Types
<1>2. s \in SyncCall /\ p \in Pools /\ s.groups \subseteq Targets
  BY <1>1 DEF ManagerType, SyncCall
<1>3. pool[p] \in PoolType
  BY <1>1, <1>2
<1>4. ASSUME Sync(s)
      PROVE  EngineInv'
  <2> DEFINE w == [s EXCEPT !.pc = "wait"]
             r == [pool[p] EXCEPT !.op = "sync", !.active = s.groups]
  <2>1. s.pc = "start" /\ pool[p].op = "none"
    BY <1>4 DEF Sync
  <2>2. w \in SyncCall /\ w.pool = p /\ w.pc = "wait"
    BY <1>2 DEF SyncCall
  <2>3. /\ r \in PoolType /\ r.op = "sync" /\ r.active = s.groups
        /\ r.alive = pool[p].alive /\ r.job = pool[p].job
    BY <1>2, <1>3 DEF PoolType
  <2>4. pool' = [pool EXCEPT ![p] = r]
    BY <1>1, <1>2, <1>4 DEF Sync
  <2>5. mgr' = [mgr EXCEPT !.syncs = (mgr.syncs \ {s}) \cup {w}]
    BY <1>4 DEF Sync
  <2> HIDE DEF r, w
  <2>6. /\ pool' \in [Pools -> PoolType] /\ pool'[p] = r
        /\ \A q \in Pools \ {p} : pool'[q] = pool[q]
    BY <1>1, <1>2, <2>3, <2>4, OnePool
  <2>7. /\ mgr' \in ManagerType /\ mgr'.syncs = (mgr.syncs \ {s}) \cup {w}
        /\ mgr'.lock = mgr.lock /\ mgr'.todo = mgr.todo /\ mgr'.busy = mgr.busy
        /\ mgr'.scrapePools = mgr.scrapePools /\ mgr'.scrapeConfigs = mgr.scrapeConfigs
        /\ mgr'.reloader = mgr.reloader
    BY <1>1, <2>2, <2>5 DEF ManagerType
  <2>8. Works(p, pool[p].active \ s.groups, s.groups \ pool[p].active, "run")
    <3>1. Stopping(p) = {}
      BY <2>1 DEF Stopping, LoopsOf, LoopsInv
    <3>2. loops' = StopLoops(p, pool[p].active \ s.groups)
                     \cup {NewLoop(p, t, "run") : t \in s.groups \ pool[p].active}
      BY <1>4 DEF Sync
    <3>3. pool'[p].active = (pool[p].active \ (pool[p].active \ s.groups)) \cup (s.groups \ pool[p].active)
      BY <2>3, <2>6
    <3> QED BY <1>2, <2>3, <2>6, <3>1, <3>2, <3>3 DEF Works
  <2>9. loops' \subseteq Loop /\ LoopsInv'
    BY <1>2, <2>8, WorksKeepsLoops
  <2>10. Types'
    BY <1>4, <2>6, <2>7, <2>9 DEF Sync, Types
  <2>11. OpsInv'
    <3>1. p \notin mgr.busy
      BY <2>1 DEF OpsInv
    <3>2. \A t \in mgr.syncs : t # s => t.pool # p
      BY DEF OpsInv
    <3>3. \A t \in mgr'.syncs : t = w \/ (t \in mgr.syncs /\ t.pool # p)
      BY <2>7, <3>2
    <3>4. \A t \in mgr'.syncs : t.pc = "wait" => pool'[t.pool].op \in {"sync", "resync"}
      <4> SUFFICES ASSUME NEW t \in mgr'.syncs, t.pc = "wait"
                   PROVE  pool'[t.pool].op \in {"sync", "resync"}
        OBVIOUS
      <4>1. CASE t = w
        BY <4>1, <2>2, <2>3, <2>6
      <4>2. CASE t \in mgr.syncs /\ t.pool # p
        <5>1. t.pool \in Pools
          BY <1>1, <4>2 DEF ManagerType, SyncCall
        <5> QED BY <4>2, <5>1, <2>6 DEF OpsInv
      <4> QED BY <3>3, <4>1, <4>2
    <3>5. \A t, u \in mgr'.syncs : t.pool = u.pool => t = u
      BY <2>2, <3>3 DEF OpsInv
    <3>6. \A q \in mgr'.busy : pool'[q].op \in {"stop", "reload"}
      BY <1>1, <2>6, <2>7, <3>1 DEF OpsInv, ManagerType
    <3>7. \A q \in Pools : pool'[q].op = "stop" => pool'[q].active = {}
      BY <2>3, <2>6 DEF OpsInv
    <3> QED BY <2>7, <3>4, <3>5, <3>6, <3>7 DEF OpsInv
  <2>12. PoolsInv'
    <3>1. \A q \in Pools : /\ pool'[q].job = pool[q].job /\ pool'[q].alive = pool[q].alive
                           /\ pool[q].op = "stop" => pool'[q] = pool[q]
      BY <2>1, <2>3, <2>6
    <3> QED BY <1>1, <2>7, <3>1 DEF PoolsInv, ManagerType
  <2> QED BY <2>9, <2>10, <2>11, <2>12
<1>5. ASSUME SymbolTableReset(s)
      PROVE  EngineInv'
  <2> DEFINE r == [pool[p] EXCEPT !.op = "resync"]
  <2>1. s.pc = "wait" /\ pool[p].op = "sync" /\ Stopping(p) = {} /\ mgr' = mgr
    BY <1>5 DEF SymbolTableReset, Waited
  <2>2. /\ r \in PoolType /\ r.op = "resync" /\ r.active = pool[p].active
        /\ r.alive = pool[p].alive /\ r.job = pool[p].job
    BY <1>3 DEF PoolType
  <2>3. pool' = [pool EXCEPT ![p] = r]
    BY <1>1, <1>2, <1>5 DEF SymbolTableReset
  <2> HIDE DEF r
  <2>4. /\ pool' \in [Pools -> PoolType] /\ pool'[p] = r
        /\ \A q \in Pools \ {p} : pool'[q] = pool[q]
    BY <1>1, <1>2, <2>2, <2>3, OnePool
  <2>5. Works(p, pool[p].active, pool[p].active, "after")
    <3>1. pool[p].active \subseteq Targets
      BY <1>3 DEF PoolType
    <3>2. loops' = StopLoops(p, pool[p].active) \cup {NewLoop(p, t, "after") : t \in pool[p].active}
      BY <1>5 DEF SymbolTableReset, RestartLoops
    <3> QED BY <2>1, <2>2, <2>4, <3>1, <3>2 DEF Works
  <2>6. loops' \subseteq Loop /\ LoopsInv'
    BY <1>2, <2>5, WorksKeepsLoops
  <2>7. budget' \in BudgetType
    BY <1>1, <1>5, ScrapeManagerAssumption DEF SymbolTableReset, BudgetType
  <2>8. Types'
    BY <1>5, <2>1, <2>4, <2>6, <2>7 DEF SymbolTableReset, Types
  <2>9. \A q \in Pools : /\ pool'[q].job = pool[q].job /\ pool'[q].alive = pool[q].alive
                         /\ pool[q].op \in {"stop", "reload", "none"} => pool'[q] = pool[q]
                         /\ pool'[q].op = "stop" => pool'[q] = pool[q]
                         /\ pool[q].op \in {"sync", "resync"} => pool'[q].op \in {"sync", "resync"}
    BY <2>1, <2>2, <2>4
  <2>10. OpsInv'
    BY <1>1, <2>1, <2>9 DEF OpsInv, ManagerType, SyncCall
  <2>11. PoolsInv'
    BY <1>1, <2>1, <2>9 DEF PoolsInv, ManagerType
  <2> QED BY <2>6, <2>8, <2>10, <2>11
<1>6. ASSUME SyncEnds(s)
      PROVE  EngineInv'
  <2> DEFINE r == [pool[p] EXCEPT !.op = "none"]
  <2>1. s.pc = "wait" /\ pool[p].op \in {"sync", "resync"} /\ Stopping(p) = {} /\ loops' = loops
    BY <1>6 DEF SyncEnds, Waited, OpsInv
  <2>2. /\ r \in PoolType /\ r.op = "none" /\ r.active = pool[p].active
        /\ r.alive = pool[p].alive /\ r.job = pool[p].job
    BY <1>3 DEF PoolType
  <2>3. pool' = [pool EXCEPT ![p] = r]
    BY <1>1, <1>2, <1>6 DEF SyncEnds
  <2> HIDE DEF r
  <2>4. /\ pool' \in [Pools -> PoolType] /\ pool'[p] = r
        /\ \A q \in Pools \ {p} : pool'[q] = pool[q]
    BY <1>1, <1>2, <2>2, <2>3, OnePool
  <2>5. /\ mgr' \in ManagerType /\ mgr'.syncs = mgr.syncs \ {s}
        /\ mgr'.lock = mgr.lock /\ mgr'.todo = mgr.todo /\ mgr'.busy = mgr.busy
        /\ mgr'.scrapePools = mgr.scrapePools /\ mgr'.scrapeConfigs = mgr.scrapeConfigs
        /\ mgr'.reloader = mgr.reloader
    BY <1>1, <1>6 DEF SyncEnds, ManagerType
  <2>6. Types'
    BY <1>6, <2>1, <2>4, <2>5 DEF SyncEnds, Types
  <2>7. \A q \in Pools : /\ pool'[q].job = pool[q].job /\ pool'[q].alive = pool[q].alive
                         /\ pool'[q].active = pool[q].active
                         /\ pool[q].op \in {"stop", "reload"} => pool'[q] = pool[q]
                         /\ pool'[q].op = "stop" => pool'[q] = pool[q]
                         /\ q # p => pool'[q] = pool[q]
    BY <2>1, <2>2, <2>4
  <2>8. OpsInv'
    BY <1>1, <2>5, <2>7 DEF OpsInv, ManagerType, SyncCall
  <2>9. PoolsInv'
    BY <1>1, <2>5, <2>7 DEF PoolsInv, ManagerType
  <2>10. \A l \in loops : l.stop => l.pool # p
    BY <2>1 DEF Stopping, LoopsOf
  <2>11. LoopsInv'
    <3>1. \A l \in loops : l.pool \in Pools
      BY <1>1 DEF Loop
    <3> QED BY <2>1, <2>7, <2>10, <3>1 DEF LoopsInv, LoopsOfTarget
  <2> QED BY <2>6, <2>8, <2>9, <2>11
<1> QED BY <1>4, <1>5, <1>6

\* Before ApplyConfig and Stop work on a pool, they know it and its job.
LEMMA PoolOfApply ==
  ASSUME Types, OpsInv, PoolsInv, NEW p \in mgr.todo \cup mgr.busy
  PROVE  /\ p \in Pools /\ pool[p] \in PoolType
         /\ pool[p].job \in Jobs /\ mgr.scrapePools[pool[p].job] = p
         /\ mgr.scrapeConfigs[pool[p].job] \in Versions \cup {None}
<1>1. p \in Pools /\ mgr \in ManagerType /\ pool \in [Pools -> PoolType]
  BY DEF Types, ManagerType
<1>2. PICK j \in Jobs : mgr.scrapePools[j] = p
  BY DEF OpsInv
<1>3. p # None
  BY <1>1, NoneIsNothing
<1>4. pool[p].job = j
  BY <1>2, <1>3 DEF PoolsInv
<1>5. mgr.scrapeConfigs \in [Jobs -> Versions \cup {None}]
  BY <1>1 DEF ManagerType, Configs
<1> QED BY <1>1, <1>2, <1>4, <1>5

\* Stopping and reloading a pool: what ApplyConfig and Stop start.
LEMMA StartedPoolOps ==
  ASSUME EngineInv, NEW p \in Pools, NEW r \in PoolType, NEW gone, NEW new,
         p \in mgr.todo, pool[p].op = "none", mgr.lock # "none",
         pool' = [pool EXCEPT ![p] = r],
         r.job = pool[p].job, r.alive = pool[p].alive,
         \/ r.op = "stop" /\ r.active = {}
         \/ r.op = "reload" /\ r.active = pool[p].active /\ mgr.scrapeConfigs[pool[p].job] # None,
         gone = IF r.op = "stop" THEN Targets ELSE pool[p].active,
         new = IF r.op = "stop" THEN {} ELSE pool[p].active,
         loops' = StopLoops(p, gone) \cup {NewLoop(p, t, "after") : t \in new},
         mgr' \in ManagerType, mgr'.todo = mgr.todo \ {p}, mgr'.busy = mgr.busy \cup {p},
         mgr'.lock = mgr.lock, mgr'.scrapePools = mgr.scrapePools,
         mgr'.scrapeConfigs = mgr.scrapeConfigs, mgr'.syncs = mgr.syncs, mgr'.reloader = mgr.reloader,
         UNCHANGED <<world, disc, provider, budget>>
  PROVE  EngineInv'
<1> USE DEF EngineInv
<1>1. /\ mgr \in ManagerType /\ pool \in [Pools -> PoolType] /\ loops \subseteq Loop
      /\ pool[p] \in PoolType /\ pool[p].active \subseteq Targets
  BY DEF Types, PoolType
<1>2. /\ pool' \in [Pools -> PoolType] /\ pool'[p] = r
      /\ \A q \in Pools \ {p} : pool'[q] = pool[q]
  BY <1>1, OnePool
<1>3. Works(p, gone, new, "after")
  <2>1. Stopping(p) = {}
    BY DEF Stopping, LoopsOf, LoopsInv
  <2>2. pool'[p].active = (pool[p].active \ gone) \cup new
    BY <1>1, <1>2
  <2>3. new \subseteq Targets /\ new \subseteq gone
    BY <1>1
  <2> QED BY <1>2, <2>1, <2>2, <2>3 DEF Works
<1>4. loops' \subseteq Loop /\ LoopsInv'
  BY <1>3, WorksKeepsLoops
<1>5. Types'
  BY <1>2, <1>4 DEF Types
<1>6. p \notin mgr.busy
  BY DEF OpsInv
<1>7. OpsInv'
  <2>1. \A q \in mgr'.busy : pool'[q].op \in {"stop", "reload"}
    BY <1>1, <1>2 DEF OpsInv, ManagerType
  <2>2. \A q \in Pools : pool'[q].op = "stop" => pool'[q].active = {}
    BY <1>2 DEF OpsInv
  <2>3. \A s \in mgr.syncs : s.pc = "wait" => pool'[s.pool].op \in {"sync", "resync"}
    BY <1>1, <1>2 DEF OpsInv, ManagerType, SyncCall
  <2> QED BY <2>1, <2>2, <2>3 DEF OpsInv
<1>8. PoolsInv'
  <2>1. \A q \in Pools : pool'[q].job = pool[q].job /\ pool'[q].alive = pool[q].alive
    BY <1>2
  <2>2. \A j \in Jobs : mgr.scrapePools[j] \in Pools \cup {None}
    BY <1>1 DEF ManagerType
  <2>3. \A j \in Jobs : mgr.scrapePools[j] # None => pool'[mgr.scrapePools[j]].job = j
    BY <2>1, <2>2 DEF PoolsInv
  <2>4. \A q \in Pools : pool'[q].alive => pool'[q].job \in Jobs /\ mgr.scrapePools[pool'[q].job] = q
    BY <2>1 DEF PoolsInv
  <2>5. ASSUME mgr.lock = "apply", NEW j \in Jobs, mgr.scrapeConfigs[j] = None, mgr.scrapePools[j] # None
        PROVE  LET q == mgr.scrapePools[j]
               IN  q \in mgr'.todo \/ (q \in mgr'.busy /\ pool'[q].op = "stop") \/ ~pool'[q].alive
    <3>1. CASE mgr.scrapePools[j] = p
      <4>1. r.op = "stop"
        BY <2>5, <3>1 DEF PoolsInv
      <4> QED BY <3>1, <4>1, <1>2
    <3>2. CASE mgr.scrapePools[j] # p
      BY <2>2, <2>5, <3>2, <1>2 DEF PoolsInv
    <3> QED BY <3>1, <3>2
  <2> QED BY <2>3, <2>4, <2>5 DEF PoolsInv
<1> QED BY <1>4, <1>5, <1>7, <1>8

\* ApplyConfig and Stop, pool by pool.
LEMMA PoolOpsKeep ==
  ASSUME EngineInv, NEW p \in Pools, ApplyToPool(p) \/ StopPool(p) \/ PoolOpEnds(p)
  PROVE  EngineInv'
<1> USE DEF EngineInv
<1>1. /\ mgr \in ManagerType /\ pool \in [Pools -> PoolType] /\ loops \subseteq Loop
      /\ pool[p] \in PoolType
  BY DEF Types
<1>2. ASSUME ApplyToPool(p) \/ StopPool(p), p \in mgr.todo, pool[p].op = "none", mgr.lock # "none",
             pool' = [pool EXCEPT ![p].op = "stop", ![p].active = {}], loops' = StopLoops(p, Targets),
             \/ mgr' = [mgr EXCEPT !.todo = @ \ {p}, !.busy = @ \cup {p}]
             \/ mgr.busy = {} /\ mgr' = [mgr EXCEPT !.todo = @ \ {p}, !.busy = {p}]
      PROVE  EngineInv'
  <2> DEFINE r == [pool[p] EXCEPT !.op = "stop", !.active = {}]
  <2>1. r \in PoolType /\ r.op = "stop" /\ r.active = {} /\ r.job = pool[p].job /\ r.alive = pool[p].alive
    BY <1>1 DEF PoolType
  <2>2. pool' = [pool EXCEPT ![p] = r]
    BY <1>1, <1>2
  <2>3. /\ mgr' \in ManagerType /\ mgr'.todo = mgr.todo \ {p} /\ mgr'.busy = mgr.busy \cup {p}
        /\ mgr'.lock = mgr.lock /\ mgr'.scrapePools = mgr.scrapePools
        /\ mgr'.scrapeConfigs = mgr.scrapeConfigs /\ mgr'.syncs = mgr.syncs
        /\ mgr'.reloader = mgr.reloader
    <3>1. CASE mgr' = [mgr EXCEPT !.todo = mgr.todo \ {p}, !.busy = mgr.busy \cup {p}]
      BY <1>1, <3>1 DEF ManagerType
    <3>2. CASE mgr.busy = {} /\ mgr' = [mgr EXCEPT !.todo = mgr.todo \ {p}, !.busy = {p}]
      BY <1>1, <3>2 DEF ManagerType
    <3> QED BY <1>2, <3>1, <3>2
  <2> DEFINE new == IF r.op = "stop" THEN {} ELSE pool[p].active
             gone == IF r.op = "stop" THEN Targets ELSE pool[p].active
  <2>4. loops' = StopLoops(p, gone) \cup {NewLoop(p, t, "after") : t \in new}
    BY <1>2, <2>1
  <2>5. UNCHANGED <<world, disc, provider, budget>>
    BY <1>2 DEF ApplyToPool, StopPool
  <2> HIDE DEF r
  <2>6. gone = (IF r.op = "stop" THEN Targets ELSE pool[p].active)
        /\ new = (IF r.op = "stop" THEN {} ELSE pool[p].active)
    OBVIOUS
  <2> HIDE DEF gone, new
  <2>7. p \in mgr.todo /\ pool[p].op = "none" /\ mgr.lock # "none"
    BY <1>2
  <2> QED BY <2>1, <2>2, <2>3, <2>4, <2>5, <2>6, <2>7, StartedPoolOps
<1>3. ASSUME StopPool(p)
      PROVE  EngineInv'
  BY <1>2, <1>3 DEF StopPool
<1>4. ASSUME ApplyToPool(p)
      PROVE  EngineInv'
  <2> DEFINE cfg == mgr.scrapeConfigs[pool[p].job]
  <2>1. p \in mgr.todo /\ pool[p].op = "none" /\ mgr.lock = "apply"
        /\ UNCHANGED <<world, disc, provider, budget>>
    BY <1>4 DEF ApplyToPool
  <2>2. cfg \in Versions \cup {None} /\ pool[p].job \in Jobs /\ mgr.scrapePools[pool[p].job] = p
    BY <2>1, PoolOfApply
  <2>3. \/ /\ pool' = [pool EXCEPT ![p].op = "stop", ![p].active = {}]
           /\ loops' = StopLoops(p, Targets)
           /\ mgr' = [mgr EXCEPT !.todo = @ \ {p}, !.busy = @ \cup {p}]
        \/ /\ cfg # None
           /\ pool' = [pool EXCEPT ![p].op = "reload", ![p].cfg = cfg]
           /\ RestartLoops(p)
           /\ mgr' = [mgr EXCEPT !.todo = @ \ {p}, !.busy = @ \cup {p}]
        \/ /\ cfg # None
           /\ mgr' = [mgr EXCEPT !.todo = @ \ {p}, !.failed = @ \/ cfg # pool[p].cfg]
           /\ UNCHANGED <<pool, loops>>
    BY <1>4 DEF ApplyToPool
  <2> HIDE DEF cfg
  <2>4. CASE /\ pool' = [pool EXCEPT ![p].op = "stop", ![p].active = {}]
             /\ loops' = StopLoops(p, Targets)
             /\ mgr' = [mgr EXCEPT !.todo = @ \ {p}, !.busy = @ \cup {p}]
    BY <1>2, <1>4, <2>1, <2>4
  <2>5. CASE /\ cfg # None
             /\ pool' = [pool EXCEPT ![p].op = "reload", ![p].cfg = cfg]
             /\ RestartLoops(p)
             /\ mgr' = [mgr EXCEPT !.todo = @ \ {p}, !.busy = @ \cup {p}]
    <3> DEFINE r == [pool[p] EXCEPT !.op = "reload", !.cfg = cfg]
    <3>1. /\ r \in PoolType /\ r.op = "reload" /\ r.active = pool[p].active /\ r.job = pool[p].job
          /\ r.alive = pool[p].alive
      BY <1>1, <2>2 DEF PoolType
    <3>2. pool' = [pool EXCEPT ![p] = r]
      BY <1>1, <2>5
    <3>3. /\ mgr' \in ManagerType /\ mgr'.todo = mgr.todo \ {p} /\ mgr'.busy = mgr.busy \cup {p}
          /\ mgr'.lock = mgr.lock /\ mgr'.scrapePools = mgr.scrapePools
          /\ mgr'.scrapeConfigs = mgr.scrapeConfigs /\ mgr'.syncs = mgr.syncs
          /\ mgr'.reloader = mgr.reloader
      BY <1>1, <2>5 DEF ManagerType
    <3>4. loops' = StopLoops(p, pool[p].active) \cup {NewLoop(p, t, "after") : t \in pool[p].active}
      BY <2>5 DEF RestartLoops
    <3>5. mgr.scrapeConfigs[pool[p].job] # None
      BY <2>5 DEF cfg
    <3> HIDE DEF r
    <3> QED BY <2>1, <3>1, <3>2, <3>3, <3>4, <3>5, StartedPoolOps
  <2>6. CASE /\ cfg # None
             /\ mgr' = [mgr EXCEPT !.todo = @ \ {p}, !.failed = @ \/ cfg # pool[p].cfg]
             /\ UNCHANGED <<pool, loops>>
    <3>1. /\ mgr'.todo = mgr.todo \ {p} /\ mgr'.busy = mgr.busy
          /\ mgr'.lock = mgr.lock /\ mgr'.scrapePools = mgr.scrapePools
          /\ mgr'.scrapeConfigs = mgr.scrapeConfigs /\ mgr'.syncs = mgr.syncs
          /\ mgr'.reloader = mgr.reloader
      BY <1>1, <2>6 DEF ManagerType
    <3>2. mgr' \in ManagerType
      <4> DEFINE f == mgr.failed \/ cfg # pool[p].cfg
      <4>1. f \in BOOLEAN
        BY <1>1 DEF ManagerType
      <4>2. mgr' = [mgr EXCEPT !.todo = mgr.todo \ {p}, !.failed = f]
        BY <2>6
      <4> HIDE DEF f
      <4> QED BY <1>1, <4>1, <4>2 DEF ManagerType
    <3>3. Types'
      BY <2>1, <2>6, <3>2 DEF Types
    <3>4. OpsInv'
      BY <2>1, <2>6, <3>1 DEF OpsInv
    <3>5. \A j \in Jobs : mgr.scrapePools[j] = p => mgr.scrapeConfigs[j] # None
      <4> SUFFICES ASSUME NEW j \in Jobs, mgr.scrapePools[j] = p
                   PROVE  mgr.scrapeConfigs[j] # None
        OBVIOUS
      <4>1. pool[p].job = j
        BY NoneIsNothing DEF PoolsInv
      <4> QED BY <2>6, <4>1 DEF cfg
    <3>6. PoolsInv'
      BY <2>1, <2>6, <3>1, <3>5 DEF PoolsInv
    <3>7. LoopsInv'
      BY <2>6 DEF LoopsInv, LoopsOfTarget
    <3> QED BY <3>3, <3>4, <3>6, <3>7
  <2> QED BY <2>3, <2>4, <2>5, <2>6
<1>5. ASSUME PoolOpEnds(p)
      PROVE  EngineInv'
  <2> DEFINE r == [pool[p] EXCEPT !.alive = pool[p].alive /\ pool[p].op = "reload", !.op = "none",
                                  !.cfg = IF pool[p].op = "stop" THEN None ELSE pool[p].cfg]
  <2>1. /\ p \in mgr.busy /\ pool[p].op \in {"stop", "reload"} /\ Stopping(p) = {} /\ loops' = loops
        /\ UNCHANGED <<world, disc, provider, budget>>
    BY <1>5 DEF PoolOpEnds, Waited
  <2>2. /\ r \in PoolType /\ r.op = "none" /\ r.active = pool[p].active
        /\ r.alive = (pool[p].alive /\ pool[p].op = "reload") /\ r.job = pool[p].job
    BY <1>1 DEF PoolType
  <2>3. pool' = [pool EXCEPT ![p] = r]
    BY <1>1, <1>5 DEF PoolOpEnds
  <2> HIDE DEF r
  <2>4. /\ pool' \in [Pools -> PoolType] /\ pool'[p] = r
        /\ \A q \in Pools \ {p} : pool'[q] = pool[q]
    BY <1>1, <2>2, <2>3, OnePool
  <2>5. /\ mgr' \in ManagerType /\ mgr'.syncs = mgr.syncs
        /\ mgr'.lock = mgr.lock /\ mgr'.todo = mgr.todo /\ mgr'.busy = mgr.busy \ {p}
        /\ mgr'.scrapePools = mgr.scrapePools /\ mgr'.scrapeConfigs = mgr.scrapeConfigs
        /\ mgr'.reloader = mgr.reloader
    BY <1>1, <1>5 DEF PoolOpEnds, ManagerType
  <2>6. Types'
    BY <2>1, <2>4, <2>5 DEF Types
  <2>7. OpsInv'
    <3>1. \A q \in mgr'.busy : pool'[q].op \in {"stop", "reload"}
      BY <1>1, <2>4, <2>5 DEF OpsInv, ManagerType
    <3>2. \A q \in Pools : pool'[q].op = "stop" => pool'[q].active = {}
      BY <2>2, <2>4 DEF OpsInv
    <3>3. \A s \in mgr.syncs : s.pc = "wait" => pool'[s.pool].op \in {"sync", "resync"}
      BY <1>1, <2>1, <2>4 DEF OpsInv, ManagerType, SyncCall
    <3> QED BY <2>5, <3>1, <3>2, <3>3 DEF OpsInv
  <2>8. PoolsInv'
    <3>1. \A q \in Pools : pool'[q].job = pool[q].job /\ (pool'[q].alive => pool[q].alive)
      BY <2>2, <2>4
    <3>2. \A j \in Jobs : mgr.scrapePools[j] \in Pools \cup {None}
      BY <1>1 DEF ManagerType
    <3>3. pool[p].op = "stop" => ~pool'[p].alive
      BY <2>2, <2>4
    <3>4. \A q \in Pools : q # p => pool'[q] = pool[q] /\ (q \in mgr.busy => q \in mgr'.busy)
      BY <2>4, <2>5
    <3>5. \A j \in Jobs : mgr.scrapePools[j] # None => pool'[mgr.scrapePools[j]].job = j
      BY <3>1, <3>2 DEF PoolsInv
    <3>6. \A q \in Pools : pool'[q].alive => pool'[q].job \in Jobs /\ mgr.scrapePools[pool'[q].job] = q
      BY <3>1 DEF PoolsInv
    <3>7. ASSUME mgr.lock = "apply", NEW j \in Jobs, mgr.scrapeConfigs[j] = None, mgr.scrapePools[j] # None
          PROVE  LET q == mgr.scrapePools[j]
                 IN  q \in mgr'.todo \/ (q \in mgr'.busy /\ pool'[q].op = "stop") \/ ~pool'[q].alive
      <4> DEFINE q == mgr.scrapePools[j]
      <4>1. q \in Pools /\ (q \in mgr.todo \/ (q \in mgr.busy /\ pool[q].op = "stop") \/ ~pool[q].alive)
        BY <3>2, <3>7 DEF PoolsInv
      <4> HIDE DEF q
      <4>2. q \in mgr'.todo \/ (q \in mgr'.busy /\ pool'[q].op = "stop") \/ ~pool'[q].alive
        BY <4>1, <3>1, <3>3, <3>4, <2>5
      <4> QED BY <4>2 DEF q
    <3> QED BY <2>5, <3>5, <3>6, <3>7 DEF PoolsInv
  <2>9. LoopsInv'
    <3>1. \A l \in loops : l.pool = p => ~l.stop
      BY <2>1 DEF Stopping, LoopsOf
    <3>2. pool[p].op = "stop" => pool[p].active = {}
      BY DEF OpsInv
    <3>3. \A l \in loops : l.pool = p => pool[p].op = "reload"
      BY <2>1, <3>1, <3>2 DEF LoopsInv
    <3>4. \A l \in loops : l.pool \in Pools
      BY <1>1 DEF Loop
    <3>5. \A l \in loops : /\ pool'[l.pool].active = pool[l.pool].active
                           /\ pool'[l.pool].alive = pool[l.pool].alive
                           /\ l.stop => pool'[l.pool].op = pool[l.pool].op
      BY <2>2, <2>4, <3>1, <3>3, <3>4, <1>1 DEF PoolType
    <3> QED BY <2>1, <3>5 DEF LoopsInv, LoopsOfTarget
  <2> QED BY <2>6, <2>7, <2>8, <2>9
<1> QED BY <1>3, <1>4, <1>5

\* reload makes pools for the jobs that have none, from numbers nothing refers to, and calls Sync
\* once for each pool that has targets.
LEMMA ReloadKeeps ==
  ASSUME EngineInv, Reload
  PROVE  EngineInv'
<1> USE DEF EngineInv
<1> DEFINE sets == {j \in Jobs : mgr.targetSets[j] # None}
           new  == {j \in sets : /\ mgr.scrapePools[j] = None
                                 /\ mgr.scrapeConfigs[j] # None /\ mgr.scrapeConfigs[j] \notin Bad}
           Fresh(j) == [NoPool EXCEPT !.job = j, !.cfg = mgr.scrapeConfigs[j], !.alive = TRUE]
<1>1. /\ mgr \in ManagerType /\ pool \in [Pools -> PoolType] /\ loops \subseteq Loop
      /\ mgr.scrapePools \in [Jobs -> Pools \cup {None}]
      /\ mgr.scrapeConfigs \in [Jobs -> Versions \cup {None}]
      /\ mgr.targetSets \in [Jobs -> (SUBSET Targets) \cup {None}]
  BY DEF Types, ManagerType, Configs, Groups
<1>2. mgr.reloader = "reload" /\ mgr.lock = "none" /\ UNCHANGED <<world, disc, provider, loops, budget>>
  BY DEF Reload
<1>3. PICK id \in [new -> Pools] :
        LET pools == [j \in Jobs |-> IF j \in new THEN id[j] ELSE mgr.scrapePools[j]]
        IN /\ \A j \in new : Unused(id[j])
           /\ \A i, j \in new : i # j => id[i] # id[j]
           /\ pool' = [p \in Pools |->
                IF \E j \in new : id[j] = p
                THEN LET j == CHOOSE j \in new : id[j] = p IN Fresh(j)
                ELSE IF Unused(p) THEN NoPool ELSE pool[p]]
           /\ mgr' = [mgr EXCEPT !.reloader = "wait", !.scrapePools = pools,
                        !.syncs = {[pool |-> pools[j], groups |-> mgr.targetSets[j], pc |-> "start"] :
                                     j \in {k \in sets : pools[k] # None}}]
  BY DEF Reload
<1> DEFINE pools == [j \in Jobs |-> IF j \in new THEN id[j] ELSE mgr.scrapePools[j]]
           syncs == {[pool |-> pools[j], groups |-> mgr.targetSets[j], pc |-> "start"] :
                       j \in {k \in sets : pools[k] # None}}
<1>4. /\ \A j \in new : id[j] \in Pools /\ Unused(id[j])
      /\ \A i, j \in new : i # j => id[i] # id[j]
      /\ new \subseteq Jobs
  BY <1>3
<1>5. NoPool \in PoolType /\ NoPool.job = None /\ ~NoPool.alive /\ NoPool.active = {} /\ NoPool.op = "none"
  BY DEF NoPool, PoolType
<1>6. ASSUME NEW j \in Jobs
      PROVE  /\ Fresh(j) \in PoolType /\ Fresh(j).job = j /\ Fresh(j).alive
             /\ Fresh(j).active = {} /\ Fresh(j).op = "none"
  <2>1. mgr.scrapeConfigs[j] \in Versions \cup {None}
    BY <1>1
  <2> QED BY <1>5, <2>1 DEF PoolType
<1>7. ASSUME NEW p \in Pools
      PROVE  /\ \A j \in new : id[j] = p => pool'[p] = Fresh(j)
             /\ ~(\E j \in new : id[j] = p) => pool'[p] = (IF Unused(p) THEN NoPool ELSE pool[p])
  <2>1. CASE \E j \in new : id[j] = p
    <3>1. PICK j \in new : id[j] = p
      BY <2>1
    <3>2. \A k \in new : id[k] = p => k = j
      BY <1>4, <3>1
    <3>3. (CHOOSE k \in new : id[k] = p) = j
      BY <3>1, <3>2
    <3>4. pool'[p] = (LET k == CHOOSE k \in new : id[k] = p IN Fresh(k))
      BY <1>3, <2>1
    <3>5. pool'[p] = Fresh(j)
      BY <3>3, <3>4
    <3> QED BY <3>1, <3>2, <3>5
  <2>2. CASE ~(\E j \in new : id[j] = p)
    BY <1>3, <2>2
  <2> QED BY <2>1, <2>2
<1>8. pools \in [Jobs -> Pools \cup {None}]
  BY <1>1, <1>4
<1>9. syncs \subseteq SyncCall /\ \A s \in syncs : s.pc = "start"
  <2>1. ASSUME NEW j \in sets, pools[j] # None
        PROVE  [pool |-> pools[j], groups |-> mgr.targetSets[j], pc |-> "start"] \in SyncCall
    <3>1. pools[j] \in Pools
      BY <1>8, <2>1
    <3>2. mgr.targetSets[j] \in SUBSET Targets
      BY <1>1
    <3> HIDE DEF pools
    <3> QED BY <3>1, <3>2 DEF SyncCall
  <2> HIDE DEF pools
  <2> QED BY <2>1
<1>10. mgr' = [mgr EXCEPT !.reloader = "wait", !.scrapePools = pools, !.syncs = syncs]
  BY <1>3
<1>11. pool' = [p \in Pools |-> pool'[p]]
  BY <1>3
<1>12. \A j \in Jobs : pools[j] = IF j \in new THEN id[j] ELSE mgr.scrapePools[j]
  OBVIOUS
<1>13. \A j \in new : mgr.scrapePools[j] = None
  OBVIOUS
<1>14. \A s \in syncs : \E j \in Jobs :
         /\ pools[j] # None /\ s = [pool |-> pools[j], groups |-> mgr.targetSets[j], pc |-> "start"]
  OBVIOUS
<1> HIDE DEF Fresh, pools, syncs, new
<1>15. /\ mgr' \in ManagerType /\ mgr'.syncs = syncs /\ mgr'.scrapePools = pools
       /\ mgr'.lock = "none" /\ mgr'.todo = mgr.todo /\ mgr'.busy = mgr.busy
       /\ mgr'.reloader = "wait"
  BY <1>1, <1>2, <1>8, <1>9, <1>10 DEF ManagerType
<1>16. \A p \in Pools : pool'[p] \in PoolType
  BY <1>1, <1>4, <1>5, <1>6, <1>7
<1>17. Types'
  BY <1>2, <1>11, <1>15, <1>16 DEF Types
<1>18. \A j \in Jobs : pools[j] # None => pool'[pools[j]].job = j
  <2> SUFFICES ASSUME NEW j \in Jobs, pools[j] # None
               PROVE  pool'[pools[j]].job = j
    OBVIOUS
  <2>1. CASE j \in new
    BY <2>1, <1>4, <1>6, <1>7, <1>12
  <2>2. CASE j \notin new
    <3>1. pools[j] = mgr.scrapePools[j] /\ pools[j] \in Pools /\ ~Unused(pools[j])
      BY <2>2, <1>8, <1>12 DEF Unused
    <3>2. pool'[pools[j]] = pool[pools[j]]
      BY <3>1, <1>4, <1>7
    <3> QED BY <3>1, <3>2 DEF PoolsInv
  <2> QED BY <2>1, <2>2
<1>19. OpsInv'
  <2>1. mgr'.todo = {} /\ mgr'.busy = {}
    BY <1>2, <1>15 DEF OpsInv
  <2>2. \A p \in Pools : pool'[p].op = "stop" => pool'[p].active = {}
    <3> SUFFICES ASSUME NEW p \in Pools, pool'[p].op = "stop" PROVE pool'[p].active = {}
      OBVIOUS
    <3>1. CASE \E j \in new : id[j] = p
      BY <3>1, <1>4, <1>6, <1>7
    <3>2. CASE ~(\E j \in new : id[j] = p)
      BY <3>2, <1>5, <1>7 DEF OpsInv
    <3> QED BY <3>1, <3>2
  <2>3. \A s, t \in syncs : s.pool = t.pool => s = t
    <3> SUFFICES ASSUME NEW s \in syncs, NEW t \in syncs, s.pool = t.pool PROVE s = t
      OBVIOUS
    <3>1. PICK j \in Jobs : pools[j] # None /\ s = [pool |-> pools[j], groups |-> mgr.targetSets[j], pc |-> "start"]
      BY <1>14
    <3>2. PICK k \in Jobs : pools[k] # None /\ t = [pool |-> pools[k], groups |-> mgr.targetSets[k], pc |-> "start"]
      BY <1>14
    <3>3. pools[j] = pools[k]
      BY <3>1, <3>2
    <3>4. j = k
      BY <1>18, <3>1, <3>2, <3>3
    <3> QED BY <3>1, <3>2, <3>4
  <2> QED BY <1>9, <1>15, <2>1, <2>2, <2>3 DEF OpsInv
<1>20. PoolsInv'
  <2>1. \A p \in Pools : pool'[p].alive => pool'[p].job \in Jobs /\ pools[pool'[p].job] = p
    <3> SUFFICES ASSUME NEW p \in Pools, pool'[p].alive
                 PROVE  pool'[p].job \in Jobs /\ pools[pool'[p].job] = p
      OBVIOUS
    <3>1. CASE \E j \in new : id[j] = p
      BY <3>1, <1>4, <1>6, <1>7, <1>12
    <3>2. CASE ~(\E j \in new : id[j] = p)
      <4>1. pool'[p] = pool[p]
        BY <3>2, <1>5, <1>7
      <4>2. pool[p].job \in Jobs /\ mgr.scrapePools[pool[p].job] = p
        BY <4>1 DEF PoolsInv
      <4>3. pool[p].job \notin new
        BY <4>2, <1>13, NoneIsNothing
      <4> QED BY <4>1, <4>2, <4>3, <1>12
    <3> QED BY <3>1, <3>2
  <2> QED BY <1>15, <1>18, <2>1 DEF PoolsInv
<1>21. LoopsInv'
  <2>1. \A l \in loops : pool'[l.pool] = pool[l.pool]
    <3> SUFFICES ASSUME NEW l \in loops PROVE pool'[l.pool] = pool[l.pool]
      OBVIOUS
    <3>1. l.pool \in Pools /\ ~Unused(l.pool)
      BY <1>1 DEF Loop, Unused, LoopsOf
    <3> QED BY <3>1, <1>4, <1>7
  <2> QED BY <1>2, <2>1 DEF LoopsInv, LoopsOfTarget
<1> QED BY <1>17, <1>19, <1>20, <1>21

\* Before anything runs there are neither pools nor loops.
LEMMA EngineInit == Init => EngineInv
<1> SUFFICES ASSUME Init PROVE EngineInv
  OBVIOUS
<1> USE DEF Init
<1>1. NoSets \in Groups /\ NoSets \in Configs
  BY NoSetsType
<1>2. Off \in ProviderType /\ Off.pc = "off"
  BY DEF Off, ProviderType
<1>3. NoPool \in PoolType /\ ~NoPool.alive /\ NoPool.op = "none"
  BY DEF NoPool, PoolType
<1>4. Types
  <2>1. disc \in DiscoveryType
    BY <1>1 DEF DiscoveryType
  <2>2. provider \in [Gens \X Jobs -> ProviderType]
        /\ \A i \in Gens \X Jobs : provider[i].pc # "off" => provider[i].cfg \in Versions
    BY <1>2
  <2>3. mgr \in ManagerType
    <3>1. [j \in Jobs |-> None] \in Configs /\ [j \in Jobs |-> None] \in [Jobs -> Pools \cup {None}]
      BY DEF Configs
    <3> QED BY <1>1, <3>1 DEF ManagerType
  <2>4. pool \in [Pools -> PoolType]
    BY <1>3
  <2>5. budget \in BudgetType
    BY ScrapeManagerAssumption DEF BudgetType
  <2> QED BY <2>1, <2>2, <2>3, <2>4, <2>5 DEF Types
<1>5. OpsInv
  BY <1>3 DEF OpsInv
<1>6. PoolsInv
  BY <1>3 DEF PoolsInv
<1>7. LoopsInv
  BY DEF LoopsInv
<1> QED BY <1>4, <1>5, <1>6, <1>7 DEF EngineInv

\* Every step keeps the invariant.
LEMMA EngineStep == EngineInv /\ [Next]_vars => EngineInv'
<1> SUFFICES ASSUME EngineInv, [Next]_vars PROVE EngineInv'
  OBVIOUS
<1>0. Types /\ OpsInv /\ PoolsInv /\ LoopsInv
  BY DEF EngineInv
<1>1. CASE \/ \E v \in Versions : WorldChanges(v)
           \/ \E g \in Gens, j \in Jobs : Publish(g, j) \/ RunDiscoverer(g, j)
  <2>1. Types'
    BY <1>0, <1>1, ProviderStepsTypes
  <2>2. UNCHANGED <<mgr, pool, loops>>
    BY <1>1 DEF WorldChanges, Publish, RunDiscoverer
  <2> QED BY <1>0, <2>1, <2>2 DEF EngineInv, OpsInv, PoolsInv, LoopsInv, LoopsOfTarget
<1>2. CASE DiscoveryApplyConfig \/ Shutdown
  <2>1. Types'
    BY <1>0, <1>2, DiscoveryTypes
  <2>2. UNCHANGED <<pool, loops>>
    BY <1>2 DEF DiscoveryApplyConfig, Shutdown
  <2>3. /\ mgr'.lock = mgr.lock /\ mgr'.todo = mgr.todo /\ mgr'.busy = mgr.busy
        /\ mgr'.scrapePools = mgr.scrapePools /\ mgr'.scrapeConfigs = mgr.scrapeConfigs
        /\ mgr'.syncs = mgr.syncs /\ (mgr'.reloader = mgr.reloader \/ mgr.reloader = "off")
    BY <1>0, <1>2 DEF DiscoveryApplyConfig, Shutdown, Types, ManagerType
  <2> QED BY <1>0, <2>1, <2>2, <2>3 DEF EngineInv, OpsInv, PoolsInv, LoopsInv, LoopsOfTarget
<1>3. CASE ManagerStep
  BY <1>0, <1>3, ManagerTypes, ManagerKeepsPools
<1>4. CASE \E l \in loops : LoopScrape(l) \/ LoopStep(l)
  <2>1. loops' \subseteq Loop /\ LoopsInv' /\ UNCHANGED <<world, disc, provider, mgr, pool, budget>>
    BY <1>0, <1>4, LoopStepsKeepLoops
  <2> QED BY <1>0, <2>1 DEF EngineInv, Types, OpsInv, PoolsInv
<1>5. CASE \E s \in mgr.syncs : Sync(s) \/ SymbolTableReset(s) \/ SyncEnds(s)
  BY <1>5, SyncStepsKeep
<1>6. CASE \E p \in Pools : ApplyToPool(p) \/ StopPool(p) \/ PoolOpEnds(p)
  BY <1>6, PoolOpsKeep
<1>7. CASE Reload
  BY <1>7, ReloadKeeps
<1>8. CASE UNCHANGED vars
  BY <1>0, <1>8 DEF vars, EngineInv, Types, OpsInv, PoolsInv, LoopsInv, LoopsOfTarget
<1> QED BY <1>1, <1>2, <1>3, <1>4, <1>5, <1>6, <1>7, <1>8
        DEF Next, SyncStep, Runner, Reloader, Caller, ManagerStep

\* The engine's invariant: what every goroutine of the scrape manager knows of pools and loops.
THEOREM EngineInvariant == Spec => []EngineInv
BY EngineInit, EngineStep, PTL DEF Spec

\* An ApplyConfig of the discovery manager is one the budget has paid for.
LEMMA GenerationStep ==
  ASSUME EngineInv, GenerationInv, [Next]_vars
  PROVE  GenerationInv'
<1> DEFINE Underway(c) == IF c \in {"apply", "discovery"} THEN 1 ELSE 0
<1>1. /\ disc \in DiscoveryType /\ mgr \in ManagerType /\ budget \in BudgetType
      /\ disc.generation \in Nat /\ budget.applies \in Nat /\ MaxApplies \in Nat
  BY ScrapeManagerAssumption DEF EngineInv, Types, DiscoveryType, BudgetType
<1>2. disc.generation + budget.applies + Underway(mgr.caller) <= MaxApplies
  BY DEF GenerationInv
<1>3. mgr.lock = "apply" => mgr.caller = "apply"
  BY DEF GenerationInv
<1> DEFINE Kept == /\ disc'.generation = disc.generation /\ budget'.applies = budget.applies
                   /\ mgr'.caller = mgr.caller
                   /\ mgr'.lock = mgr.lock \/ mgr'.lock # "apply"
<1>13. Kept => GenerationInv'
  BY <1>1, <1>2, <1>3 DEF GenerationInv
<1>4. CASE \E cfg \in Applied(MaxApplies - budget.applies + 1) : ApplyConfig(cfg)
  <2>1. /\ mgr.caller = "idle" /\ mgr'.caller = "apply" /\ mgr'.lock = "apply"
        /\ budget'.applies = budget.applies - 1 /\ disc' = disc
    BY <1>1, <1>4 DEF ApplyConfig, ManagerType, BudgetType
  <2> QED BY <1>1, <1>2, <2>1 DEF GenerationInv
<1>5. CASE DiscoveryApplyConfig
  <2> DEFINE d == [disc EXCEPT !.generation = disc.generation + 1, !.cfg = mgr.scrapeConfigs, !.targets = NoSets]
  <2>1. mgr.caller = "discovery" /\ mgr'.caller = "idle" /\ mgr'.lock = mgr.lock /\ budget' = budget
    BY <1>1, <1>5 DEF DiscoveryApplyConfig, ManagerType
  <2>2. d \in DiscoveryType /\ d.generation = disc.generation + 1
    <3>1. mgr.scrapeConfigs \in Configs /\ disc.generation + 1 \in Nat
      BY <1>1 DEF ManagerType
    <3> QED BY <1>1, <3>1, NoSetsType DEF DiscoveryType
  <2>3. disc' = SendLatestUpdate(d)
    BY <1>5 DEF DiscoveryApplyConfig
  <2>4. disc'.generation = disc.generation + 1
    BY <2>2, <2>3, UpdateTypes
  <2> HIDE DEF d
  <2> QED BY <1>1, <1>2, <1>3, <2>1, <2>4 DEF GenerationInv
<1>6. CASE Shutdown
  <2>1. /\ mgr.caller = "idle" /\ mgr'.caller = "stop" /\ mgr'.lock = mgr.lock
        /\ budget' = budget /\ disc'.generation = disc.generation
    BY <1>1, <1>6 DEF Shutdown, DiscoveryRunEnds, ManagerType, DiscoveryType
  <2> QED BY <1>1, <1>2, <1>3, <2>1 DEF GenerationInv
<1>7. CASE \E g \in Gens, j \in Jobs : RunDiscoverer(g, j)
  <2>1. PICK g \in Gens, j \in Jobs : RunDiscoverer(g, j)
    BY <1>7
  <2> DEFINE d == [disc EXCEPT !.targets[j] = provider[<<g, j>>].groups]
  <2>2. d \in DiscoveryType /\ d.generation = disc.generation
    <3>1. provider[<<g, j>>].groups \in SUBSET Targets
      BY DEF EngineInv, Types, ProviderType
    <3> QED BY <1>1, <3>1 DEF DiscoveryType, Groups
  <2>3. mgr' = mgr /\ budget' = budget /\ (disc' = disc \/ disc' = SendLatestUpdate(d))
    BY <2>1 DEF RunDiscoverer
  <2> HIDE DEF d
  <2>4. disc'.generation = disc.generation
    BY <2>2, <2>3, UpdateTypes
  <2> QED BY <2>3, <2>4, <1>13
<1>8. CASE ApplyConfigReturns \/ Receive \/ UpdateTsets \/ RunEnds \/ ReloaderTriggered
           \/ ReloaderEnds \/ ReloadReturns \/ Stop \/ StopReturns
  <2>1. budget' = budget /\ disc'.generation = disc.generation
    BY <1>1, <1>8 DEF ApplyConfigReturns, Receive, UpdateTsets, RunEnds, ReloaderTriggered,
                      ReloaderEnds, ReloadReturns, Stop, StopReturns, DiscoveryType
  <2>2. CASE ApplyConfigReturns
    <3>1. mgr.lock = "apply" /\ mgr'.lock = "none" /\ (mgr'.caller = "idle" \/ mgr'.caller = "discovery")
      BY <1>1, <2>2 DEF ApplyConfigReturns, ManagerType
    <3> QED BY <1>1, <1>2, <1>3, <2>1, <3>1 DEF GenerationInv
  <2>3. CASE Receive \/ UpdateTsets \/ RunEnds \/ ReloaderTriggered \/ ReloaderEnds \/ ReloadReturns
    <3>1. mgr'.caller = mgr.caller /\ mgr'.lock = mgr.lock
      BY <1>1, <2>3 DEF Receive, UpdateTsets, RunEnds, ReloaderTriggered, ReloaderEnds, ReloadReturns,
                        ManagerType
    <3> QED BY <2>1, <3>1, <1>13
  <2>4. CASE Stop \/ StopReturns
    <3>1. mgr'.caller \in {"stopping", "down"} /\ mgr'.lock # "apply"
      BY <1>1, <2>4 DEF Stop, StopReturns, ManagerType
    <3> QED BY <1>1, <1>2, <2>1, <3>1 DEF GenerationInv
  <2> QED BY <1>8, <2>2, <2>3, <2>4
<1>9. CASE \/ \E v \in Versions : WorldChanges(v)
           \/ \E g \in Gens, j \in Jobs : Publish(g, j)
           \/ \E l \in loops : LoopScrape(l) \/ LoopStep(l)
           \/ \E s \in mgr.syncs : SymbolTableReset(s)
           \/ UNCHANGED vars
  <2>1. mgr' = mgr /\ disc' = disc
    BY <1>9 DEF WorldChanges, Publish, LoopScrape, LoopStep, LoopTakesOver, LoopScraped, LoopEnds,
                SymbolTableReset, vars
  <2>2. budget'.applies = budget.applies
    BY <1>1, <1>9 DEF WorldChanges, Publish, LoopScrape, LoopStep, LoopTakesOver, LoopScraped, LoopEnds,
                      SymbolTableReset, vars, BudgetType
  <2> QED BY <2>1, <2>2, <1>13
<1>10. CASE \/ \E s \in mgr.syncs : Sync(s) \/ SyncEnds(s)
            \/ \E p \in Pools : ApplyToPool(p) \/ PoolOpEnds(p)
            \/ Reload
  <2>1. disc' = disc /\ budget' = budget
    BY <1>10 DEF Sync, SyncEnds, ApplyToPool, PoolOpEnds, Reload
  <2>2. mgr'.caller = mgr.caller /\ mgr'.lock = mgr.lock
    BY <1>1, <1>10 DEF Sync, SyncEnds, ApplyToPool, PoolOpEnds, Reload, ManagerType
  <2> QED BY <2>1, <2>2, <1>13
<1>11. CASE \E p \in Pools : StopPool(p)
  <2>1. disc' = disc /\ budget' = budget
    BY <1>11 DEF StopPool
  <2>2. mgr'.caller = mgr.caller /\ mgr'.lock = mgr.lock
    BY <1>1, <1>11 DEF StopPool, ManagerType
  <2> QED BY <2>1, <2>2, <1>13
<1> QED BY <1>4, <1>5, <1>6, <1>7, <1>8, <1>9, <1>10, <1>11
        DEF Next, SyncStep, Runner, Reloader, Caller

\* The type invariant of the component, with a generation of providers for every ApplyConfig.
THEOREM EngineTypes == Spec => []TypeOK
<1>1. Init => GenerationInv
  BY ScrapeManagerAssumption DEF Init, GenerationInv
<1>2. EngineInv /\ GenerationInv => TypeOK
  <2> SUFFICES ASSUME EngineInv, GenerationInv PROVE TypeOK
    OBVIOUS
  <2>1. Types
    BY DEF EngineInv
  <2>2. disc.generation \in Gens
    BY <2>1, ScrapeManagerAssumption DEF Types, DiscoveryType, BudgetType, Gens, GenerationInv
  <2> QED BY <2>1, <2>2 DEF Types, TypeOK, DiscoveryType, ManagerType, PoolType, Loop, LoopPcs
<1> QED BY <1>1, <1>2, GenerationStep, EngineInvariant, PTL DEF Spec

\* OneScraperPerTarget (the wait of sync, stop and reload for the loops they stop, and the pools
\* that a reload finds stopped): a target of a job is never scraped by two loops at once.
THEOREM OneScraper == Spec => []OneScraperPerTarget
<1>1. EngineInv => OneScraperPerTarget
  <2> SUFFICES ASSUME EngineInv, NEW l \in loops, NEW m \in loops, l.pc = "scrape", m.pc = "scrape",
                      l.target = m.target, pool[l.pool].job = pool[m.pool].job
               PROVE  l = m
    BY DEF OneScraperPerTarget
  <2>1. /\ l \in Loop /\ m \in Loop /\ LoopsOfTarget(l, m) /\ LoopsOfTarget(m, l)
        /\ pool[l.pool].alive /\ pool[m.pool].alive
    BY DEF EngineInv, Types, LoopsInv
  <2>2. l.pool = m.pool
    BY <2>1 DEF EngineInv, PoolsInv, Loop
  <2> QED BY <2>1, <2>2 DEF LoopsOfTarget, Loop
<1> QED BY <1>1, EngineInvariant, PTL

-----------------------------------------------------------------------------
(* Discovery.                                                              *)

\* No target of a configuration that was replaced is offered, stored or sent.
LEMMA CurrentStep ==
  ASSUME EngineInv, ProvidersInv, NoTargetOfOldConfig, [Next]_vars
  PROVE  ProvidersInv' /\ NoTargetOfOldConfig'
<1> DEFINE Found(c) == IF c = None THEN {} ELSE Source[c]
<1>1. /\ disc \in DiscoveryType /\ mgr \in ManagerType /\ provider \in [Gens \X Jobs -> ProviderType]
      /\ \A i \in Gens \X Jobs : provider[i].pc # "off" => provider[i].cfg \in Versions
      /\ \A v \in Versions : world[v] \subseteq Source[v]
      /\ disc.generation \in Nat
  BY DEF EngineInv, Types, DiscoveryType
<1>2. CASE UNCHANGED <<disc, provider>>
  BY <1>2 DEF ProvidersInv, NoTargetOfOldConfig
<1>3. CASE \E g \in Gens, j \in Jobs : Publish(g, j)
  <2>1. PICK g \in Gens, j \in Jobs : Publish(g, j)
    BY <1>3
  <2> DEFINE i == <<g, j>>
             r == [provider[i] EXCEPT !.pc = "offer", !.groups = world[provider[i].cfg]]
  <2>2. i \in Gens \X Jobs /\ provider[i].pc = "wait" /\ provider[i].cfg \in Versions
    BY <1>1, <2>1 DEF Publish
  <2>3. r.pc = "offer" /\ r.cfg = provider[i].cfg /\ r.groups \subseteq Source[r.cfg]
    BY <1>1, <2>2 DEF ProviderType
  <2>4. provider' = [provider EXCEPT ![i] = r] /\ disc' = disc
    BY <1>1, <2>1, <2>2 DEF Publish
  <2> HIDE DEF r
  <2>5. ASSUME NEW h \in Gens, NEW k \in Jobs, provider'[<<h, k>>].pc # "off"
        PROVE  /\ h <= disc.generation
               /\ h = disc.generation => provider'[<<h, k>>].cfg = disc.cfg[k]
               /\ provider'[<<h, k>>].pc = "offer" =>
                    provider'[<<h, k>>].groups \subseteq Source[provider'[<<h, k>>].cfg]
    <3>1. CASE <<h, k>> = i
      <4>1. provider'[<<h, k>>] = r /\ h = g /\ k = j
        BY <1>1, <2>2, <2>4, <3>1
      <4> QED BY <2>2, <2>3, <4>1 DEF ProvidersInv
    <3>2. CASE <<h, k>> # i
      <4>1. provider'[<<h, k>>] = provider[<<h, k>>]
        BY <1>1, <2>4, <3>2
      <4> QED BY <2>5, <4>1 DEF ProvidersInv
    <3> QED BY <3>1, <3>2
  <2> QED BY <2>4, <2>5 DEF ProvidersInv, NoTargetOfOldConfig
<1>4. CASE \E g \in Gens, j \in Jobs : RunDiscoverer(g, j)
  <2>1. PICK g \in Gens, j \in Jobs : RunDiscoverer(g, j)
    BY <1>4
  <2> DEFINE i == <<g, j>>
             r == [provider[i] EXCEPT !.pc = "wait", !.groups = {}]
             d == [disc EXCEPT !.targets[j] = provider[i].groups]
  <2>2. i \in Gens \X Jobs /\ provider[i].pc = "offer" /\ provider[i].cfg \in Versions
    BY <1>1, <2>1 DEF RunDiscoverer
  <2>3. r.pc = "wait" /\ r.cfg = provider[i].cfg
    BY <1>1, <2>2 DEF ProviderType
  <2>4. \/ provider' = [provider EXCEPT ![i] = Off] /\ disc' = disc
        \/ /\ g = disc.generation
           /\ provider' = [provider EXCEPT ![i] = r] /\ disc' = SendLatestUpdate(d)
    BY <1>1, <2>1, <2>2 DEF RunDiscoverer
  <2>5. /\ d \in DiscoveryType /\ d.generation = disc.generation /\ d.cfg = disc.cfg
        /\ d.targets = [disc.targets EXCEPT ![j] = provider[i].groups] /\ d.done = disc.done
    <3>1. provider[i].groups \in SUBSET Targets
      BY <1>1, <2>2 DEF ProviderType
    <3> HIDE DEF i
    <3> QED BY <1>1, <3>1 DEF DiscoveryType, Groups
  <2>6. disc.targets \in [Jobs -> (SUBSET Targets) \cup {None}]
    BY <1>1 DEF DiscoveryType, Groups
  <2>7. provider[i].groups \subseteq Source[provider[i].cfg]
        /\ (g = disc.generation => provider[i].cfg = disc.cfg[j])
    BY <2>2 DEF ProvidersInv
  <2>8. Off.pc = "off"
    BY DEF Off
  <2> HIDE DEF r, d
  <2>9. disc'.generation = disc.generation /\ disc'.cfg = disc.cfg
    BY <2>4, <2>5, UpdateTypes
  <2>10. ASSUME NEW h \in Gens, NEW k \in Jobs, provider'[<<h, k>>].pc # "off"
         PROVE  /\ h <= disc.generation
                /\ h = disc.generation => provider'[<<h, k>>].cfg = disc.cfg[k]
                /\ provider'[<<h, k>>].pc = "offer" =>
                     provider'[<<h, k>>].groups \subseteq Source[provider'[<<h, k>>].cfg]
    <3>1. CASE <<h, k>> = i
      <4>1. h = g /\ k = j /\ (provider'[<<h, k>>] = r \/ provider'[<<h, k>>] = Off)
        BY <1>1, <2>2, <2>4, <3>1
      <4>2. provider'[<<h, k>>] = r
        BY <2>8, <2>10, <4>1
      <4> QED BY <2>2, <2>3, <4>1, <4>2 DEF ProvidersInv
    <3>2. CASE <<h, k>> # i
      <4>1. provider'[<<h, k>>] = provider[<<h, k>>]
        BY <1>1, <2>4, <3>2
      <4> QED BY <2>10, <4>1 DEF ProvidersInv
    <3> QED BY <3>1, <3>2
  <2>11. NoTargetOfOldConfig'
    <3>1. CASE disc' = disc
      BY <3>1 DEF NoTargetOfOldConfig
    <3>2. CASE g = disc.generation /\ disc' = SendLatestUpdate(d)
      <4>1. disc'.targets = d.targets /\ disc'.syncCh = AllTargets(d) /\ disc'.cfg = disc.cfg
        BY <2>5, <3>2, UpdateTypes
      <4>2. \A k \in Jobs : d.targets[k] # None => d.targets[k] \subseteq Found(disc.cfg[k])
        <5>1. Found(disc.cfg[j]) = Source[provider[i].cfg]
          BY <2>2, <2>7, <3>2, NoneIsNothing
        <5> QED BY <2>5, <2>6, <2>7, <5>1 DEF NoTargetOfOldConfig
      <4>3. \A k \in Jobs : AllTargets(d)[k] # None => AllTargets(d)[k] \subseteq Found(disc.cfg[k])
        BY <2>5, <4>2 DEF AllTargets
      <4> QED BY <4>1, <4>2, <4>3 DEF NoTargetOfOldConfig
    <3> QED BY <2>4, <3>1, <3>2
  <2> QED BY <2>9, <2>10, <2>11 DEF ProvidersInv
<1>5. CASE DiscoveryApplyConfig
  <2> DEFINE cfg == mgr.scrapeConfigs
             gen == disc.generation + 1
             d   == [disc EXCEPT !.generation = gen, !.cfg = cfg, !.targets = NoSets]
             New(i) == IF i[1] = gen /\ cfg[i[2]] # None THEN [Off EXCEPT !.pc = "wait", !.cfg = cfg[i[2]]]
                       ELSE IF provider[i].pc = "wait" THEN Off ELSE provider[i]
  <2>1. cfg \in Configs /\ gen \in Nat /\ gen = disc.generation + 1
    BY <1>1 DEF ManagerType
  <2>2. d \in DiscoveryType /\ d.generation = gen /\ d.cfg = cfg /\ d.targets = NoSets /\ d.done = disc.done
    <3> HIDE DEF cfg, gen
    <3> QED BY <1>1, <2>1, NoSetsType DEF DiscoveryType
  <2>3. disc' = SendLatestUpdate(d) /\ provider' = [i \in Gens \X Jobs |-> New(i)]
    BY <1>5 DEF DiscoveryApplyConfig
  <2> HIDE DEF d
  <2>4. /\ disc'.generation = gen /\ disc'.cfg = cfg /\ disc'.targets = NoSets
        /\ disc'.syncCh = AllTargets(d)
    BY <2>2, <2>3, UpdateTypes
  <2>5. ASSUME NEW h \in Gens, NEW k \in Jobs, New(<<h, k>>).pc # "off"
        PROVE  /\ h <= gen
               /\ h = gen => New(<<h, k>>).cfg = cfg[k]
               /\ New(<<h, k>>).pc = "offer" => New(<<h, k>>).groups \subseteq Source[New(<<h, k>>).cfg]
    <3>0. Off = [pc |-> "off", cfg |-> None, groups |-> {}]
      BY DEF Off
    <3>1. CASE h = gen /\ cfg[k] # None
      <4>1. New(<<h, k>>) = [Off EXCEPT !.pc = "wait", !.cfg = cfg[k]]
        BY <3>1
      <4>2. New(<<h, k>>).pc = "wait" /\ New(<<h, k>>).cfg = cfg[k]
        BY <3>0, <4>1
      <4> QED BY <2>1, <3>1, <4>2
    <3>2. CASE ~(h = gen /\ cfg[k] # None)
      <4>1. New(<<h, k>>) = provider[<<h, k>>] /\ provider[<<h, k>>].pc # "off"
        BY <2>5, <3>0, <3>2
      <4>2. h <= disc.generation /\ h \in Int
        BY <4>1, ScrapeManagerAssumption DEF ProvidersInv, Gens
      <4>3. provider[<<h, k>>].pc = "offer" =>
              provider[<<h, k>>].groups \subseteq Source[provider[<<h, k>>].cfg]
        BY <4>1 DEF ProvidersInv
      <4> QED BY <1>1, <4>1, <4>2, <4>3
    <3> QED BY <3>1, <3>2
  <2>6. ProvidersInv'
    <3> HIDE DEF New, gen, cfg
    <3>1. \A h \in Gens, k \in Jobs : provider'[<<h, k>>] = New(<<h, k>>)
      BY <2>3
    <3>2. ASSUME NEW h \in Gens, NEW k \in Jobs, provider'[<<h, k>>].pc # "off"
          PROVE  /\ h <= disc'.generation
                 /\ h = disc'.generation => provider'[<<h, k>>].cfg = disc'.cfg[k]
                 /\ provider'[<<h, k>>].pc = "offer" =>
                      provider'[<<h, k>>].groups \subseteq Source[provider'[<<h, k>>].cfg]
      <4>1. provider'[<<h, k>>] = New(<<h, k>>)
        BY <3>1
      <4>2. New(<<h, k>>).pc # "off"
        BY <3>2, <4>1
      <4> QED BY <2>4, <2>5, <4>1, <4>2
    <3> QED BY <3>2 DEF ProvidersInv
  <2>7. NoTargetOfOldConfig'
    <3>1. \A k \in Jobs : NoSets[k] = None
      BY DEF NoSets
    <3>2. \A k \in Jobs : AllTargets(d)[k] # None => AllTargets(d)[k] = {}
      BY <2>2, <3>1 DEF AllTargets
    <3> QED BY <2>4, <3>1, <3>2 DEF NoTargetOfOldConfig
  <2> QED BY <2>6, <2>7
<1>6. CASE Shutdown
  <2>1. provider' = [i \in Gens \X Jobs |-> Off] /\ Off.pc = "off"
    BY <1>6 DEF Shutdown, DiscoveryRunEnds, Off
  <2>2. disc'.done = TRUE /\ disc'.targets = NoSets
    BY <1>1, <1>6 DEF Shutdown, DiscoveryRunEnds, DiscoveryType
  <2> QED BY <2>1, <2>2 DEF ProvidersInv, NoTargetOfOldConfig, NoSets
<1>7. CASE Receive
  <2>1. /\ disc'.generation = disc.generation /\ disc'.cfg = disc.cfg /\ disc'.targets = disc.targets
        /\ disc'.syncCh = None /\ provider' = provider
    BY <1>1, <1>7 DEF Receive, DiscoveryType
  <2> QED BY <2>1 DEF ProvidersInv, NoTargetOfOldConfig
<1>8. \/ UNCHANGED <<disc, provider>> \/ DiscoveryApplyConfig \/ Shutdown \/ Receive
      \/ \E g \in Gens, j \in Jobs : Publish(g, j) \/ RunDiscoverer(g, j)
  BY DEF Next, SyncStep, Runner, Reloader, Caller, LoopStep, WorldChanges, ApplyConfig, SymbolTableReset,
         LoopScrape, LoopTakesOver, LoopScraped, LoopEnds, RunEnds, ReloaderEnds, Sync, SyncEnds,
         UpdateTsets, ReloaderTriggered, Reload, ReloadReturns, ApplyConfigReturns, Stop, StopReturns,
         ApplyToPool, PoolOpEnds, StopPool, vars
<1> QED BY <1>2, <1>3, <1>4, <1>5, <1>6, <1>7, <1>8

\* What the update of discovery that counts is made of does not change when an update is received.
LEMMA SameTargets ==
  ASSUME disc'.cfg = disc.cfg, disc'.targets = disc.targets
  PROVE  AllTargets(disc)' = AllTargets(disc)
BY DEF AllTargets

\* The steps of discovery: an update replaces the one that is pending.
LEMMA DiscoveryKeepsUnderway ==
  ASSUME EngineInv, UnderwayInv,
         DiscoveryApplyConfig \/ Shutdown \/ \E g \in Gens, j \in Jobs : RunDiscoverer(g, j)
  PROVE  UnderwayInv'
<1>1. disc \in DiscoveryType /\ mgr \in ManagerType /\ provider \in [Gens \X Jobs -> ProviderType]
  BY DEF EngineInv, Types
<1>2. ASSUME NEW d \in DiscoveryType, disc' = SendLatestUpdate(d),
             mgr'.trigger = mgr.trigger, mgr'.syncs = mgr.syncs, mgr'.scrapePools = mgr.scrapePools,
             mgr'.targetSets = mgr.targetSets
      PROVE  UnderwayInv'
  <2>1. disc'.syncCh = AllTargets(d) /\ AllTargets(disc') = AllTargets(d)
    BY <1>2, UpdateTypes
  <2>2. AllTargets(disc)' = AllTargets(disc')
    BY DEF AllTargets
  <2> QED BY <1>2, <2>1, <2>2 DEF UnderwayInv
<1>3. CASE DiscoveryApplyConfig
  <2> DEFINE d == [disc EXCEPT !.generation = disc.generation + 1, !.cfg = mgr.scrapeConfigs, !.targets = NoSets]
  <2>1. d \in DiscoveryType
    <3>1. mgr.scrapeConfigs \in Configs /\ disc.generation + 1 \in Nat
      BY <1>1 DEF ManagerType, DiscoveryType
    <3> QED BY <1>1, <3>1, NoSetsType DEF DiscoveryType
  <2>2. disc' = SendLatestUpdate(d)
    BY <1>3 DEF DiscoveryApplyConfig
  <2>3. /\ mgr'.trigger = mgr.trigger /\ mgr'.syncs = mgr.syncs /\ mgr'.scrapePools = mgr.scrapePools
        /\ mgr'.targetSets = mgr.targetSets
    BY <1>1, <1>3 DEF DiscoveryApplyConfig, ManagerType
  <2> HIDE DEF d
  <2> QED BY <1>2, <2>1, <2>2, <2>3
<1>4. CASE Shutdown
  <2>1. disc'.done = TRUE
    BY <1>1, <1>4 DEF Shutdown, DiscoveryRunEnds, DiscoveryType
  <2>2. /\ mgr'.trigger = mgr.trigger /\ mgr'.syncs = mgr.syncs /\ mgr'.scrapePools = mgr.scrapePools
        /\ mgr'.targetSets = mgr.targetSets
    BY <1>1, <1>4 DEF Shutdown, ManagerType
  <2> QED BY <2>1, <2>2 DEF UnderwayInv
<1>5. ASSUME NEW g \in Gens, NEW j \in Jobs, RunDiscoverer(g, j)
      PROVE  UnderwayInv'
  <2> DEFINE d == [disc EXCEPT !.targets[j] = provider[<<g, j>>].groups]
  <2>1. d \in DiscoveryType
    <3>1. provider[<<g, j>>].groups \in SUBSET Targets
      BY <1>1 DEF ProviderType
    <3> QED BY <1>1, <3>1 DEF DiscoveryType, Groups
  <2>2. mgr' = mgr /\ pool' = pool /\ (disc' = disc \/ disc' = SendLatestUpdate(d))
    BY <1>5 DEF RunDiscoverer
  <2> HIDE DEF d
  <2>3. CASE disc' = disc
    BY <2>2, <2>3 DEF UnderwayInv, Stored, Served, AllTargets
  <2>4. CASE disc' = SendLatestUpdate(d)
    BY <1>2, <2>1, <2>2, <2>4
  <2> QED BY <2>2, <2>3, <2>4
<1> QED BY <1>3, <1>4, <1>5

\* The steps of the scrape manager hand an update on: from Run to the reloader, from there to
\* the Sync goroutines.
LEMMA ManagerKeepsUnderway ==
  ASSUME EngineInv, UnderwayInv, ManagerStep
  PROVE  UnderwayInv'
<1>1. /\ disc \in DiscoveryType /\ mgr \in ManagerType /\ NoSets \in Groups
      /\ \A s \in mgr.syncs : s.pool # None
  BY NoSetsType, NoneIsNothing DEF EngineInv, Types, ManagerType, SyncCall
<1>2. pool' = pool
  BY DEF ManagerStep, ApplyConfig, ApplyConfigReturns, Receive, UpdateTsets, RunEnds,
         ReloaderTriggered, ReloaderEnds, ReloadReturns, Stop, StopReturns
<1>3. ASSUME disc' = disc, mgr'.trigger = mgr.trigger, mgr'.syncs = mgr.syncs,
             mgr'.scrapePools = mgr.scrapePools, mgr'.targetSets = mgr.targetSets,
             mgr'.held = mgr.held, mgr'.runner = mgr.runner \/ mgr'.runner # "update",
             mgr'.reloader = mgr.reloader \/ mgr.reloader # "reload"
      PROVE  UnderwayInv'
  <2>1. AllTargets(disc)' = AllTargets(disc)
    BY <1>3, SameTargets
  <2>2. \A j \in Jobs : Served(j)' = Served(j)
    BY <1>2, <1>3 DEF Served
  <2>3. Stored => Stored'
    BY <1>3, <2>2 DEF Stored
  <2> QED BY <1>3, <2>1, <2>3 DEF UnderwayInv
<1>4. CASE \/ \E cfg \in Applied(MaxApplies - budget.applies + 1) : ApplyConfig(cfg)
           \/ RunEnds \/ ReloaderEnds \/ ReloadReturns \/ Stop \/ StopReturns
  <2>1. /\ disc' = disc /\ mgr'.trigger = mgr.trigger /\ mgr'.syncs = mgr.syncs
        /\ mgr'.scrapePools = mgr.scrapePools /\ mgr'.targetSets = mgr.targetSets
        /\ mgr'.held = mgr.held /\ (mgr'.runner = mgr.runner \/ mgr'.runner # "update")
        /\ (mgr'.reloader = mgr.reloader \/ mgr.reloader # "reload")
    <3>1. CASE \E cfg \in Applied(MaxApplies - budget.applies + 1) : ApplyConfig(cfg)
      BY <1>1, <3>1 DEF ApplyConfig, ManagerType
    <3>2. CASE RunEnds
      BY <1>1, <3>2 DEF RunEnds, ManagerType
    <3>3. CASE ReloaderEnds \/ ReloadReturns
      BY <1>1, <3>3 DEF ReloaderEnds, ReloadReturns, ManagerType
    <3>4. CASE Stop \/ StopReturns
      BY <1>1, <3>4 DEF Stop, StopReturns, ManagerType
    <3> QED BY <1>4, <3>1, <3>2, <3>3, <3>4
  <2> QED BY <1>3, <2>1
<1>5. CASE ApplyConfigReturns
  <2>1. /\ disc' = disc /\ mgr'.trigger = mgr.trigger /\ mgr'.syncs = mgr.syncs
        /\ mgr'.targetSets = mgr.targetSets /\ mgr'.held = mgr.held /\ mgr'.runner = mgr.runner
        /\ mgr'.reloader = mgr.reloader
        /\ mgr'.scrapePools = [j \in Jobs |-> IF mgr.scrapeConfigs[j] = None THEN None ELSE mgr.scrapePools[j]]
    BY <1>1, <1>5 DEF ApplyConfigReturns, ManagerType
  <2>2. AllTargets(disc)' = AllTargets(disc)
    BY <2>1, SameTargets
  <2>3. \A j \in Jobs : mgr'.scrapePools[j] # None => mgr'.scrapePools[j] = mgr.scrapePools[j]
    BY <2>1
  <2>4. \A j \in Jobs : mgr'.scrapePools[j] # None => Served(j)' = Served(j)
    BY <1>2, <2>1, <2>3 DEF Served
  <2>5. Stored => Stored'
    BY <2>1, <2>3, <2>4 DEF Stored
  <2>6. \A s \in mgr.syncs, j \in Jobs : mgr'.scrapePools[j] = s.pool => mgr.scrapePools[j] = s.pool
    BY <1>1, <2>3
  <2> QED BY <2>1, <2>2, <2>5, <2>6 DEF UnderwayInv
<1>6. CASE Receive
  <2>1. /\ disc.syncCh # None /\ disc'.syncCh = None /\ disc'.done = disc.done
        /\ disc'.cfg = disc.cfg /\ disc'.targets = disc.targets
        /\ mgr'.held = disc.syncCh /\ mgr'.trigger = mgr.trigger /\ mgr'.syncs = mgr.syncs
        /\ mgr'.scrapePools = mgr.scrapePools /\ mgr'.targetSets = mgr.targetSets
    BY <1>1, <1>6 DEF Receive, DiscoveryType, ManagerType
  <2>2. AllTargets(disc)' = AllTargets(disc)
    BY <2>1, SameTargets
  <2> QED BY <2>1, <2>2 DEF UnderwayInv
<1>7. CASE UpdateTsets
  <2>1. /\ disc' = disc /\ mgr.runner = "update" /\ mgr'.runner = "select" /\ mgr'.trigger = TRUE
        /\ mgr'.targetSets = mgr.held
    BY <1>1, <1>7 DEF UpdateTsets, ManagerType
  <2>2. AllTargets(disc)' = AllTargets(disc)
    BY <2>1, SameTargets
  <2> QED BY <2>1, <2>2 DEF UnderwayInv, Stored
<1>8. CASE ReloaderTriggered
  <2>1. /\ disc' = disc /\ mgr.reloader = "tick" /\ mgr'.reloader = "reload"
        /\ mgr'.syncs = mgr.syncs /\ mgr'.held = mgr.held /\ mgr'.runner = mgr.runner
        /\ mgr'.targetSets = mgr.targetSets
    BY <1>1, <1>8 DEF ReloaderTriggered, ManagerType
  <2>2. mgr.syncs = {}
    BY <2>1 DEF EngineInv, OpsInv
  <2>3. AllTargets(disc)' = AllTargets(disc)
    BY <2>1, SameTargets
  <2> QED BY <2>1, <2>2, <2>3 DEF UnderwayInv, Stored
<1> QED BY <1>4, <1>5, <1>6, <1>7, <1>8 DEF ManagerStep

\* The steps of the pools: a target set is lost neither when Sync takes it nor when the pool
\* is reloaded meanwhile.
LEMMA PoolsKeepUnderway ==
  ASSUME EngineInv, UnderwayInv,
         \/ \E s \in mgr.syncs : Sync(s) \/ SymbolTableReset(s) \/ SyncEnds(s)
         \/ \E p \in Pools : ApplyToPool(p) \/ StopPool(p) \/ PoolOpEnds(p)
  PROVE  UnderwayInv'
<1>1. /\ mgr \in ManagerType /\ pool \in [Pools -> PoolType]
      /\ \A s \in mgr.syncs : s \in SyncCall
      /\ \A j \in Jobs : mgr.scrapePools[j] \in Pools \cup {None}
  BY DEF EngineInv, Types, ManagerType
<1>2. disc' = disc /\ AllTargets(disc)' = AllTargets(disc)
  <2>1. disc' = disc
    BY DEF Sync, SymbolTableReset, SyncEnds, ApplyToPool, StopPool, PoolOpEnds
  <2> QED BY <2>1, SameTargets
<1>3. /\ mgr'.trigger = mgr.trigger /\ mgr'.scrapePools = mgr.scrapePools
      /\ mgr'.targetSets = mgr.targetSets /\ mgr'.held = mgr.held /\ mgr'.runner = mgr.runner
      /\ mgr'.reloader = mgr.reloader
  <2>1. CASE \E s \in mgr.syncs : Sync(s) \/ SyncEnds(s)
    BY <1>1, <2>1 DEF Sync, SyncEnds, ManagerType
  <2>2. CASE \E s \in mgr.syncs : SymbolTableReset(s)
    BY <2>2 DEF SymbolTableReset
  <2>3. CASE \E p \in Pools : ApplyToPool(p)
    BY <1>1, <2>3 DEF ApplyToPool, ManagerType
  <2>4. CASE \E p \in Pools : StopPool(p) \/ PoolOpEnds(p)
    BY <1>1, <2>4 DEF StopPool, PoolOpEnds, ManagerType
  <2> QED BY <2>1, <2>2, <2>3, <2>4
<1> SUFFICES /\ ~mgr.trigger =>
                  \A s \in mgr'.syncs, j \in Jobs :
                    mgr.scrapePools[j] = s.pool => s.groups = mgr.targetSets[j]
             /\ ~mgr.trigger =>
                  \A j \in Jobs : /\ mgr.scrapePools[j] # None /\ mgr.targetSets[j] # None
                                  /\ Served(j)
                                  => Served(j)'
  BY <1>2, <1>3 DEF UnderwayInv, Stored
<1>4. ASSUME NEW s \in mgr.syncs, Sync(s), ~mgr.trigger
      PROVE  /\ \A t \in mgr'.syncs, j \in Jobs :
                  mgr.scrapePools[j] = t.pool => t.groups = mgr.targetSets[j]
             /\ \A j \in Jobs : mgr.scrapePools[j] # None /\ Served(j) => Served(j)'
  <2> DEFINE w == [s EXCEPT !.pc = "wait"]
  <2>1. /\ w.pool = s.pool /\ w.groups = s.groups /\ s.pool \in Pools
    BY <1>1 DEF SyncCall
  <2>2. mgr'.syncs = (mgr.syncs \ {s}) \cup {w}
    BY <1>1, <1>4 DEF Sync, ManagerType
  <2>3. /\ pool[s.pool].op = "none"
        /\ pool'[s.pool].active = s.groups /\ pool'[s.pool].alive = pool[s.pool].alive
        /\ \A q \in Pools \ {s.pool} : pool'[q] = pool[q]
    <3>1. pool[s.pool].op = "none" /\ pool' = [pool EXCEPT ![s.pool].op = "sync", ![s.pool].active = s.groups]
      BY <1>4 DEF Sync
    <3> QED BY <1>1, <2>1, <3>1 DEF PoolType
  <2> HIDE DEF w
  <2>4. \A t \in mgr.syncs, j \in Jobs : mgr.scrapePools[j] = t.pool => t.groups = mgr.targetSets[j]
    BY <1>4 DEF UnderwayInv
  <2>5. ASSUME NEW j \in Jobs, mgr.scrapePools[j] # None, Served(j)
        PROVE  Served(j)'
    <3>1. CASE mgr.scrapePools[j] = s.pool
      BY <1>3, <2>3, <2>4, <3>1 DEF Served
    <3>2. CASE mgr.scrapePools[j] # s.pool
      <4>1. [pool |-> mgr.scrapePools[j], groups |-> mgr.targetSets[j], pc |-> "start"] # s
        BY <3>2
      <4>2. pool'[mgr.scrapePools[j]] = pool[mgr.scrapePools[j]]
        BY <1>1, <2>3, <2>5, <3>2
      <4> QED BY <1>3, <2>2, <2>5, <4>1, <4>2 DEF Served
    <3> QED BY <3>1, <3>2
  <2> QED BY <2>1, <2>2, <2>4, <2>5
<1>5. ASSUME NEW p \in Pools, mgr'.syncs = mgr.syncs \/ \E s \in mgr.syncs : s.pc = "wait" /\ mgr'.syncs = mgr.syncs \ {s},
             \A q \in Pools \ {p} : pool'[q] = pool[q],
             \/ pool'[p].op = "stop" \/ ~pool'[p].alive
             \/ /\ pool'[p].active = pool[p].active /\ pool'[p].alive = pool[p].alive
                /\ pool[p].op # "stop"
      PROVE  /\ ~mgr.trigger => \A t \in mgr'.syncs, j \in Jobs :
                  mgr.scrapePools[j] = t.pool => t.groups = mgr.targetSets[j]
             /\ \A j \in Jobs : mgr.scrapePools[j] # None /\ Served(j) => Served(j)'
  <2>1. mgr'.syncs \subseteq mgr.syncs
    BY <1>5
  <2>2. ASSUME NEW j \in Jobs, mgr.scrapePools[j] # None, Served(j)
        PROVE  Served(j)'
    <3> DEFINE call == [pool |-> mgr.scrapePools[j], groups |-> mgr.targetSets[j], pc |-> "start"]
    <3>1. call \in mgr.syncs => call \in mgr'.syncs
      <4>1. call.pc = "start"
        OBVIOUS
      <4> HIDE DEF call
      <4> QED BY <1>5, <4>1
    <3>2. CASE mgr.scrapePools[j] = p
      BY <1>3, <1>5, <2>2, <3>1, <3>2 DEF Served
    <3>3. CASE mgr.scrapePools[j] # p
      <4>1. pool'[mgr.scrapePools[j]] = pool[mgr.scrapePools[j]]
        BY <1>1, <1>5, <2>2, <3>3
      <4> QED BY <1>3, <2>2, <3>1, <4>1 DEF Served
    <3> QED BY <3>2, <3>3
  <2> QED BY <2>1, <2>2 DEF UnderwayInv
<1>6. ASSUME NEW s \in mgr.syncs, SymbolTableReset(s) \/ SyncEnds(s)
      PROVE  /\ s.pool \in Pools
             /\ mgr'.syncs = mgr.syncs \/ (s.pc = "wait" /\ mgr'.syncs = mgr.syncs \ {s})
             /\ \A q \in Pools \ {s.pool} : pool'[q] = pool[q]
             /\ pool'[s.pool].active = pool[s.pool].active /\ pool'[s.pool].alive = pool[s.pool].alive
             /\ pool[s.pool].op # "stop"
  <2>1. s.pool \in Pools /\ s.pc = "wait" /\ pool[s.pool].op \in {"sync", "resync"}
    BY <1>1, <1>6 DEF SymbolTableReset, SyncEnds, SyncCall, EngineInv, OpsInv
  <2>2. PICK o \in {"resync", "none"} : pool' = [pool EXCEPT ![s.pool].op = o]
    BY <1>6 DEF SymbolTableReset, SyncEnds
  <2>3. mgr'.syncs = mgr.syncs \/ mgr'.syncs = mgr.syncs \ {s}
    BY <1>1, <1>6 DEF SymbolTableReset, SyncEnds, ManagerType
  <2> QED BY <1>1, <2>1, <2>2, <2>3 DEF PoolType
<1>7. ASSUME NEW p \in Pools, ApplyToPool(p) \/ StopPool(p) \/ PoolOpEnds(p)
      PROVE  /\ mgr'.syncs = mgr.syncs
             /\ \A q \in Pools \ {p} : pool'[q] = pool[q]
             /\ \/ pool'[p].op = "stop" \/ ~pool'[p].alive
                \/ /\ pool'[p].active = pool[p].active /\ pool'[p].alive = pool[p].alive
                   /\ pool[p].op # "stop"
  <2>1. CASE ApplyToPool(p)
    <3>1. mgr'.syncs = mgr.syncs /\ pool[p].op = "none"
      BY <1>1, <2>1 DEF ApplyToPool, ManagerType
    <3>2. \/ pool' = [pool EXCEPT ![p].op = "stop", ![p].active = {}]
          \/ pool' = [pool EXCEPT ![p].op = "reload", ![p].cfg = mgr.scrapeConfigs[pool[p].job]]
          \/ pool' = pool
      BY <2>1 DEF ApplyToPool
    <3> QED BY <1>1, <3>1, <3>2 DEF PoolType
  <2>2. CASE StopPool(p)
    <3>1. mgr'.syncs = mgr.syncs
      BY <1>1, <2>2 DEF StopPool, ManagerType
    <3>2. pool' = [pool EXCEPT ![p].op = "stop", ![p].active = {}]
      BY <2>2 DEF StopPool
    <3> QED BY <1>1, <3>1, <3>2 DEF PoolType
  <2>3. CASE PoolOpEnds(p)
    <3> DEFINE r == [pool[p] EXCEPT !.alive = pool[p].alive /\ pool[p].op = "reload", !.op = "none",
                                    !.cfg = IF pool[p].op = "stop" THEN None ELSE pool[p].cfg]
    <3>1. mgr'.syncs = mgr.syncs /\ pool[p].op \in {"stop", "reload"}
      BY <1>1, <2>3 DEF PoolOpEnds, ManagerType
    <3>2. pool' = [pool EXCEPT ![p] = r]
      BY <1>1, <2>3 DEF PoolOpEnds
    <3>3. r.active = pool[p].active /\ r.alive = (pool[p].alive /\ pool[p].op = "reload")
          /\ pool[p].alive \in BOOLEAN
      BY <1>1 DEF PoolType
    <3> HIDE DEF r
    <3> QED BY <1>1, <3>1, <3>2, <3>3
  <2> QED BY <1>7, <2>1, <2>2, <2>3
<1>8. CASE \E s \in mgr.syncs : Sync(s)
  BY <1>4, <1>8
<1>9. CASE \E s \in mgr.syncs : SymbolTableReset(s) \/ SyncEnds(s)
  BY <1>5, <1>6, <1>9
<1>10. CASE \E p \in Pools : ApplyToPool(p) \/ StopPool(p) \/ PoolOpEnds(p)
  BY <1>5, <1>7, <1>10
<1> QED BY <1>8, <1>9, <1>10

\* reload has a Sync goroutine for every job with a pool and targets, and each has the targets
\* of its own pool's job, since no two jobs share a pool.
LEMMA ReloadKeepsUnderway ==
  ASSUME EngineInv, EngineInv', UnderwayInv, Reload
  PROVE  UnderwayInv'
<1> DEFINE call(j) == [pool |-> mgr'.scrapePools[j], groups |-> mgr.targetSets[j], pc |-> "start"]
<1>1. mgr \in ManagerType /\ mgr' \in ManagerType
  BY DEF EngineInv, Types
<1>2. mgr.reloader = "reload" /\ disc' = disc
  BY DEF Reload
<1> DEFINE sets == {j \in Jobs : mgr.targetSets[j] # None}
           new  == {j \in sets : /\ mgr.scrapePools[j] = None
                                 /\ mgr.scrapeConfigs[j] # None /\ mgr.scrapeConfigs[j] \notin Bad}
<1>9. PICK id \in [new -> Pools] :
        LET pools == [j \in Jobs |-> IF j \in new THEN id[j] ELSE mgr.scrapePools[j]]
        IN  mgr' = [mgr EXCEPT !.reloader = "wait", !.scrapePools = pools,
                      !.syncs = {[pool |-> pools[j], groups |-> mgr.targetSets[j], pc |-> "start"] :
                                   j \in {k \in sets : pools[k] # None}}]
  BY DEF Reload
<1> DEFINE pools == [j \in Jobs |-> IF j \in new THEN id[j] ELSE mgr.scrapePools[j]]
           syncs == {[pool |-> pools[j], groups |-> mgr.targetSets[j], pc |-> "start"] :
                       j \in {k \in sets : pools[k] # None}}
<1>10. mgr' = [mgr EXCEPT !.reloader = "wait", !.scrapePools = pools, !.syncs = syncs]
  BY <1>9
<1> HIDE DEF pools
<1>11. syncs = {[pool |-> pools[j], groups |-> mgr.targetSets[j], pc |-> "start"] :
                 j \in {k \in {i \in Jobs : mgr.targetSets[i] # None} : pools[k] # None}}
  OBVIOUS
<1> HIDE DEF syncs
<1>4. /\ mgr'.scrapePools = pools /\ mgr'.syncs = syncs /\ mgr'.trigger = mgr.trigger
      /\ mgr'.targetSets = mgr.targetSets /\ mgr'.held = mgr.held /\ mgr'.runner = mgr.runner
  BY <1>1, <1>10 DEF ManagerType
<1>5. /\ \A j \in Jobs : mgr'.scrapePools[j] # None /\ mgr.targetSets[j] # None => call(j) \in mgr'.syncs
      /\ \A s \in mgr'.syncs : \E j \in Jobs : mgr'.scrapePools[j] # None /\ s = call(j)
  BY <1>4, <1>11
<1>6. AllTargets(disc)' = AllTargets(disc)
  BY <1>2, SameTargets
<1>7. \A j, k \in Jobs : mgr'.scrapePools[j] # None /\ mgr'.scrapePools[j] = mgr'.scrapePools[k] => j = k
  BY DEF EngineInv, PoolsInv
<1>8. \A s \in mgr'.syncs, j \in Jobs : mgr'.scrapePools[j] = s.pool => s.groups = mgr.targetSets[j]
  <2> SUFFICES ASSUME NEW s \in mgr'.syncs, NEW j \in Jobs, mgr'.scrapePools[j] = s.pool
               PROVE  s.groups = mgr.targetSets[j]
    OBVIOUS
  <2>1. PICK k \in Jobs : mgr'.scrapePools[k] # None /\ s = call(k)
    BY <1>5
  <2>2. s.pool = mgr'.scrapePools[k] /\ s.groups = mgr.targetSets[k]
    BY <2>1
  <2>3. k = j
    BY <1>7, <2>1, <2>2
  <2> QED BY <2>2, <2>3
<1>12. Stored'
  BY <1>4, <1>5 DEF Stored, Served
<1> QED BY <1>2, <1>4, <1>6, <1>8, <1>12 DEF UnderwayInv

\* Every step keeps an update under way.
LEMMA UnderwayStep ==
  ASSUME EngineInv, EngineInv', UnderwayInv, [Next]_vars
  PROVE  UnderwayInv'
<1>1. CASE \/ \E v \in Versions : WorldChanges(v)
           \/ \E g \in Gens, j \in Jobs : Publish(g, j)
           \/ \E l \in loops : LoopScrape(l) \/ LoopStep(l)
           \/ UNCHANGED vars
  <2>1. UNCHANGED <<disc, mgr, pool>>
    BY <1>1 DEF WorldChanges, Publish, LoopScrape, LoopStep, LoopTakesOver, LoopScraped, LoopEnds, vars
  <2>2. AllTargets(disc)' = AllTargets(disc)
    BY <2>1, SameTargets
  <2>3. Stored' = Stored
    BY <2>1 DEF Stored, Served
  <2> QED BY <2>1, <2>2, <2>3 DEF UnderwayInv
<1>2. CASE DiscoveryApplyConfig \/ Shutdown \/ \E g \in Gens, j \in Jobs : RunDiscoverer(g, j)
  BY <1>2, DiscoveryKeepsUnderway
<1>3. CASE ManagerStep
  BY <1>3, ManagerKeepsUnderway
<1>4. CASE \/ \E s \in mgr.syncs : Sync(s) \/ SymbolTableReset(s) \/ SyncEnds(s)
           \/ \E p \in Pools : ApplyToPool(p) \/ StopPool(p) \/ PoolOpEnds(p)
  BY <1>4, PoolsKeepUnderway
<1>5. CASE Reload
  BY <1>5, ReloadKeepsUnderway
<1> QED BY <1>1, <1>2, <1>3, <1>4, <1>5 DEF Next, SyncStep, Runner, Reloader, Caller, ManagerStep

\* DiscoveryIsCurrent (the generations of providers, the replaced pending update, updateTsets
\* and the trigger of the reloader): the scrape manager hears of no target of a configuration
\* that was replaced, and what the current providers have found is always under way to its pools.
THEOREM DiscoveryStaysCurrent == Spec => []DiscoveryIsCurrent
<1>1. Init => ProvidersInv /\ NoTargetOfOldConfig /\ UnderwayInv
  BY DEF Init, ProvidersInv, NoTargetOfOldConfig, UnderwayInv, Off, NoSets
<1>2. UnderwayInv => FoundIsUnderway
  <2> SUFFICES ASSUME UnderwayInv PROVE FoundIsUnderway
    OBVIOUS
  <2>1. mgr.targetSets = AllTargets(disc) =>
          (Stored =>
            \/ mgr.trigger \/ mgr.reloader = "reload"
            \/ \A j \in Jobs : mgr.scrapePools[j] # None /\ AllTargets(disc)[j] # None => Served(j))
    BY DEF Stored
  <2> QED BY <2>1 DEF UnderwayInv, FoundIsUnderway, Served
<1>3. ProvidersInv /\ NoTargetOfOldConfig /\ UnderwayInv => DiscoveryIsCurrent
  BY <1>2 DEF DiscoveryIsCurrent
<1> QED BY <1>1, <1>3, CurrentStep, UnderwayStep, EngineInvariant, PTL DEF Spec
============================================================================
