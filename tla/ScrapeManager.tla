--------------------------- MODULE ScrapeManager ---------------------------
(***************************************************************************)
(* The scrape engine of the prometheus receiver: the discovery manager and *)
(* its provider goroutines, the scrape manager with its Run and reloader   *)
(* goroutines, the scrape pools and their scrape loops.                    *)
(*                                                                         *)
(* A discovered target is named by its hash, so a group of targets is a    *)
(* set.  A configuration gives each of its jobs a version of the job's     *)
(* settings; every job has one provider.  What a scrape appends is the     *)
(* subject of ScrapeLoop.                                                  *)
(***************************************************************************)
EXTENDS Integers, FiniteSets

CONSTANTS Jobs,          \* the names of scrape configurations
          Targets,       \* target hashes
          Versions,      \* versions of a job's settings
          Bad,           \* the versions no HTTP client can be built for
          Source,        \* [Versions -> SUBSET Targets]: where a version's provider looks
          Applied(_),    \* the configurations the n-th ApplyConfig may be called with
          MaxApplies, MaxChanges, MaxRestarts,
          None

VARIABLES
  world,     \* the targets a provider of each version would find now
  disc,      \* the discovery manager and its syncCh
  provider,  \* the provider goroutines, by generation and job
  mgr,       \* the scrape manager
  pool,      \* the scrape pools, by incarnation
  loops,     \* the scrape loops whose run has not returned
  budget     \* the bounds on what the environment still does

vars == <<world, disc, provider, mgr, pool, loops, budget>>

Gens  == 0..MaxApplies
Pools == 1..(2 * Cardinality(Jobs))
NoPool == [job |-> None, cfg |-> None, alive |-> FALSE, active |-> {}, op |-> "none"]
Configs == [Jobs -> Versions \cup {None}]
NoSets == [j \in Jobs |-> None]
Off    == [pc |-> "off", cfg |-> None, groups |-> {}]

\* Source gives each version the targets its provider may find; None names nothing else.
ASSUME ScrapeManagerAssumption ==
  /\ IsFiniteSet(Jobs) /\ Bad \subseteq Versions
  /\ Source \in [Versions -> SUBSET Targets]
  /\ \A n \in 1..MaxApplies : Applied(n) \subseteq Configs
  /\ {MaxApplies, MaxChanges, MaxRestarts} \subseteq Nat
  /\ None \notin Versions \cup Jobs \cup Pools
  /\ \A found \in SUBSET Targets : found # None
  /\ \A found \in [Jobs -> (SUBSET Targets) \cup {None}] : found # None

TypeOK ==
  /\ world \in [Versions -> SUBSET Targets] /\ \A v \in Versions : world[v] \subseteq Source[v]
  /\ disc.generation \in Gens /\ disc.cfg \in Configs
  /\ mgr.scrapePools \in [Jobs -> Pools \cup {None}]
  /\ \A p \in Pools : /\ pool[p].active \subseteq Targets
                      /\ pool[p].op \in {"none", "sync", "resync", "reload", "stop"}
  /\ \A l \in loops : l.pool \in Pools /\ l.target \in Targets /\ l.pc \in {"after", "run", "scrape"}

Init ==
  /\ world \in [Versions -> SUBSET Targets] /\ \A v \in Versions : world[v] \subseteq Source[v]
  /\ disc = [generation |-> 0, cfg |-> NoSets, targets |-> NoSets, syncCh |-> None, done |-> FALSE]
  /\ provider = [i \in Gens \X Jobs |-> Off]
  /\ mgr = [scrapeConfigs |-> [j \in Jobs |-> None], scrapePools |-> [j \in Jobs |-> None],
            targetSets |-> NoSets, trigger |-> FALSE, graceShut |-> FALSE, lock |-> "none",
            todo |-> {}, busy |-> {}, failed |-> FALSE, caller |-> "idle",
            runner |-> "off", held |-> NoSets, reloader |-> "off", syncs |-> {}]
  /\ pool = [p \in Pools |-> NoPool]
  /\ loops = {}
  /\ budget = [applies |-> MaxApplies, changes |-> MaxChanges, restarts |-> MaxRestarts]

----------------------------------------------------------------------------
(* Discovery.                                                              *)

\* The targets a provider would report change.
WorldChanges(v) ==
  /\ budget.changes > 0
  /\ \E ts \in SUBSET Source[v] : ts # world[v] /\ world' = [world EXCEPT ![v] = ts]
  /\ budget' = [budget EXCEPT !.changes = @ - 1]
  /\ UNCHANGED <<disc, provider, mgr, pool, loops>>

\* What every job that has a provider has found: the empty group until its provider reports.
AllTargets(d) ==
  [j \in Jobs |-> IF d.cfg[j] = None THEN None ELSE IF d.targets[j] = None THEN {} ELSE d.targets[j]]

\* The pending update is replaced, so that the send never blocks.
SendLatestUpdate(d) == [d EXCEPT !.syncCh = AllTargets(d)]

\* The discovery manager's ApplyConfig cancels the providers of the last generation, forgets
\* what they found, announces the empty groups and starts a provider for each job.
DiscoveryApplyConfig ==
  LET cfg == mgr.scrapeConfigs
      gen == disc.generation + 1
  IN /\ mgr.caller = "discovery"
     /\ disc' = SendLatestUpdate([disc EXCEPT !.generation = gen, !.cfg = cfg, !.targets = NoSets])
     /\ provider' = [i \in Gens \X Jobs |->
                       IF i[1] = gen /\ cfg[i[2]] # None THEN [Off EXCEPT !.pc = "wait", !.cfg = cfg[i[2]]]
                       ELSE IF provider[i].pc = "wait" THEN Off ELSE provider[i]]
     /\ mgr' = [mgr EXCEPT !.caller = "idle",
                           !.runner = IF @ = "off" THEN "select" ELSE @,
                           !.reloader = IF @ = "off" THEN "tick" ELSE @]
     /\ UNCHANGED <<world, pool, loops, budget>>

\* pollingDiscoverer.publish, at the start and at every tick: load, then offer what was loaded
\* to runDiscoverer.  A load that fails publishes nothing and waits for the next tick.
Publish(g, j) ==
  /\ provider[<<g, j>>].pc = "wait"
  /\ provider' = [provider EXCEPT ![<<g, j>>].pc = "offer", ![<<g, j>>].groups = world[provider[<<g, j>>].cfg]]
  /\ UNCHANGED <<world, disc, mgr, pool, loops, budget>>

\* Mutant of RunDiscoverer: an update is taken whatever the generation of its provider.
RunDiscovererAnyGeneration(g, j) ==
  /\ provider[<<g, j>>].pc = "offer"
  /\ disc' = SendLatestUpdate([disc EXCEPT !.targets[j] = provider[<<g, j>>].groups])
  /\ provider' = [provider EXCEPT ![<<g, j>>].pc = "wait", ![<<g, j>>].groups = {}]
  /\ UNCHANGED <<world, mgr, pool, loops, budget>>

\* runDiscoverer takes the offer: select may choose it although the context is done, and the
\* generation is looked at under the locks.  A provider of an older generation ends here.
RunDiscoverer(g, j) ==
  /\ provider[<<g, j>>].pc = "offer"
  /\ IF g # disc.generation
     THEN /\ provider' = [provider EXCEPT ![<<g, j>>] = Off]
          /\ UNCHANGED disc
     ELSE /\ disc' = SendLatestUpdate([disc EXCEPT !.targets[j] = provider[<<g, j>>].groups])
          /\ provider' = [provider EXCEPT ![<<g, j>>].pc = "wait", ![<<g, j>>].groups = {}]
  /\ UNCHANGED <<world, mgr, pool, loops, budget>>

----------------------------------------------------------------------------
(* Scrape loops.                                                           *)

LoopsOf(p)    == {l \in loops : l.pool = p}
Stopping(p)   == {l \in LoopsOf(p) : l.stop}

\* A loop for target t of pool p; n tells apart the loops of one target.
NewLoop(p, t, pc) ==
  [pool |-> p, target |-> t, pc |-> pc, stop |-> FALSE,
   n |-> CHOOSE n \in 1..3 : \A l \in LoopsOf(p) : l.target = t => l.n # n]

\* The context of a loop derives from its pool's.
Done(l) == l.stop \/ ~pool[l.pool].alive

Replace(l, m) == loops' = (loops \ {l}) \cup {m}

\* Mutant of LoopTakesOver: the new loop does not wait for the old one.
LoopTakesOverAtOnce(l) ==
  /\ l.pc = "after"
  /\ Replace(l, [l EXCEPT !.pc = "run"])
  /\ UNCHANGED <<world, disc, provider, mgr, pool, budget>>

\* Mutant of LoopTakesOver: a loop that was stopped before its turn never runs.
LoopTakesOverUnlessStopped(l) ==
  /\ l.pc = "after" /\ ~l.stop /\ ~\E o \in Stopping(l.pool) : o.target = l.target /\ o # l
  /\ Replace(l, [l EXCEPT !.pc = "run"])
  /\ UNCHANGED <<world, disc, provider, mgr, pool, budget>>

\* The goroutine of restartLoops: the old loop has stopped, and the new one runs.
LoopTakesOver(l) ==
  /\ l.pc = "after" /\ ~\E o \in Stopping(l.pool) : o.target = l.target /\ o # l
  /\ Replace(l, [l EXCEPT !.pc = "run"])
  /\ UNCHANGED <<world, disc, provider, mgr, pool, budget>>

LoopScrape(l) ==
  /\ l.pc = "run" /\ ~Done(l)
  /\ Replace(l, [l EXCEPT !.pc = "scrape"])
  /\ UNCHANGED <<world, disc, provider, mgr, pool, budget>>

LoopScraped(l) ==
  /\ l.pc = "scrape"
  /\ Replace(l, [l EXCEPT !.pc = "run"])
  /\ UNCHANGED <<world, disc, provider, mgr, pool, budget>>

\* run closes stopped and returns.
LoopEnds(l) ==
  /\ l.pc = "run" /\ Done(l)
  /\ loops' = loops \ {l}
  /\ UNCHANGED <<world, disc, provider, mgr, pool, budget>>

----------------------------------------------------------------------------
(* Scrape pools.  An operation holds the pool's mtx from its start to its  *)
(* end, and ends when the loops it has stopped have ended.                 *)

Waited(p) == Stopping(p) = {}

\* Loops of p for the targets in ts are told to stop.
StopLoops(p, ts) ==
  {IF l.pool = p /\ l.target \in ts THEN [l EXCEPT !.stop = TRUE] ELSE l : l \in loops}

\* The current loop of each target is stopped and its successor waits for it.
RestartLoops(p) ==
  loops' = StopLoops(p, pool[p].active) \cup {NewLoop(p, t, "after") : t \in pool[p].active}

\* Mutant of Sync: a target that is gone keeps its loop.
SyncKeeping(s) ==
  LET p == s.pool
  IN /\ s \in mgr.syncs /\ s.pc = "start" /\ pool[p].op = "none"
     /\ pool' = [pool EXCEPT ![p].op = "sync", ![p].active = @ \cup s.groups]
     /\ loops' = loops \cup {NewLoop(p, t, "run") : t \in s.groups \ pool[p].active}
     /\ mgr' = [mgr EXCEPT !.syncs = (@ \ {s}) \cup {[s EXCEPT !.pc = "wait"]}]
     /\ UNCHANGED <<world, disc, provider, budget>>

\* sync: loops for the targets that are new, a stop for those that are gone.
Sync(s) ==
  LET p == s.pool
  IN /\ s \in mgr.syncs /\ s.pc = "start" /\ pool[p].op = "none"
     /\ pool' = [pool EXCEPT ![p].op = "sync", ![p].active = s.groups]
     /\ loops' = StopLoops(p, pool[p].active \ s.groups)
                   \cup {NewLoop(p, t, "run") : t \in s.groups \ pool[p].active}
     /\ mgr' = [mgr EXCEPT !.syncs = (@ \ {s}) \cup {[s EXCEPT !.pc = "wait"]}]
     /\ UNCHANGED <<world, disc, provider, budget>>

\* checkSymbolTable, after a sync: the table has grown, and the loops restart without caches.
SymbolTableReset(s) ==
  /\ s \in mgr.syncs /\ s.pc = "wait" /\ pool[s.pool].op = "sync" /\ Waited(s.pool)
  /\ budget.restarts > 0
  /\ budget' = [budget EXCEPT !.restarts = @ - 1]
  /\ pool' = [pool EXCEPT ![s.pool].op = "resync"]
  /\ RestartLoops(s.pool)
  /\ UNCHANGED <<world, disc, provider, mgr>>

\* Sync returns, and the wait group of reload is told.
SyncEnds(s) ==
  /\ s \in mgr.syncs /\ s.pc = "wait" /\ Waited(s.pool)
  /\ pool' = [pool EXCEPT ![s.pool].op = "none"]
  /\ mgr' = [mgr EXCEPT !.syncs = @ \ {s}]
  /\ UNCHANGED <<world, disc, provider, loops, budget>>

----------------------------------------------------------------------------
(* The scrape manager.                                                     *)

\* ApplyConfig takes mtxScrape and installs the configurations.
ApplyConfig(cfg) ==
  /\ mgr.caller = "idle" /\ budget.applies > 0 /\ mgr.lock = "none"
  /\ budget' = [budget EXCEPT !.applies = @ - 1]
  /\ mgr' = [mgr EXCEPT !.caller = "apply", !.lock = "apply", !.scrapeConfigs = cfg, !.failed = FALSE,
                        !.todo = {p \in Pools : \E j \in Jobs : mgr.scrapePools[j] = p}]
  /\ UNCHANGED <<world, disc, provider, pool, loops>>

\* One pool under ApplyConfig: stopped if its job is gone, reloaded if the job changed.
ApplyToPool(p) ==
  LET cfg == mgr.scrapeConfigs[pool[p].job]
  IN /\ mgr.lock = "apply" /\ p \in mgr.todo /\ pool[p].op = "none"
     /\ \/ /\ cfg = None
           /\ pool' = [pool EXCEPT ![p].op = "stop", ![p].active = {}]
           /\ loops' = StopLoops(p, Targets)
           /\ mgr' = [mgr EXCEPT !.todo = @ \ {p}, !.busy = @ \cup {p}]
        \/ /\ cfg # None /\ cfg # pool[p].cfg /\ cfg \notin Bad
           /\ pool' = [pool EXCEPT ![p].op = "reload", ![p].cfg = cfg]
           /\ RestartLoops(p)
           /\ mgr' = [mgr EXCEPT !.todo = @ \ {p}, !.busy = @ \cup {p}]
        \/ /\ cfg # None /\ (cfg = pool[p].cfg \/ cfg \in Bad)
           /\ mgr' = [mgr EXCEPT !.todo = @ \ {p}, !.failed = @ \/ cfg # pool[p].cfg]
           /\ UNCHANGED <<pool, loops>>
     /\ UNCHANGED <<world, disc, provider, budget>>

\* stop of a pool returns with the pool's context cancelled, reload with the new loops to run.
PoolOpEnds(p) ==
  /\ p \in mgr.busy /\ pool[p].op \in {"stop", "reload"} /\ Waited(p)
  /\ pool' = [pool EXCEPT ![p].alive = @ /\ pool[p].op = "reload", ![p].op = "none",
                       ![p].cfg = IF pool[p].op = "stop" THEN None ELSE @]
  /\ mgr' = [mgr EXCEPT !.busy = @ \ {p}]
  /\ UNCHANGED <<world, disc, provider, loops, budget>>

\* ApplyConfig deletes the pools it stopped; without an error the receiver goes on to the
\* discovery manager.
ApplyConfigReturns ==
  /\ mgr.lock = "apply" /\ mgr.todo = {} /\ mgr.busy = {}
  /\ mgr' = [mgr EXCEPT !.lock = "none",
                        !.caller = IF mgr.failed THEN "idle" ELSE "discovery",
                        !.scrapePools = [j \in Jobs |-> IF mgr.scrapeConfigs[j] = None THEN None ELSE @[j]]]
  /\ UNCHANGED <<world, disc, provider, pool, loops, budget>>

\* Run receives an update ...
Receive ==
  /\ mgr.runner = "select" /\ disc.syncCh # None
  /\ mgr' = [mgr EXCEPT !.runner = "update", !.held = disc.syncCh]
  /\ disc' = [disc EXCEPT !.syncCh = None]
  /\ UNCHANGED <<world, provider, pool, loops, budget>>

\* ... and updateTsets stores it and triggers a reload.
UpdateTsets ==
  /\ mgr.runner = "update" /\ mgr.lock = "none"
  /\ mgr' = [mgr EXCEPT !.runner = "select", !.held = NoSets, !.targetSets = mgr.held, !.trigger = TRUE]
  /\ UNCHANGED <<world, disc, provider, pool, loops, budget>>

RunEnds ==
  /\ mgr.runner = "select" /\ mgr.graceShut
  /\ mgr' = [mgr EXCEPT !.runner = "ended"]
  /\ UNCHANGED <<world, disc, provider, pool, loops, budget>>

\* The reloader's ticker has fired and a trigger is pending.
ReloaderTriggered ==
  /\ mgr.reloader = "tick" /\ mgr.trigger
  /\ mgr' = [mgr EXCEPT !.reloader = "reload", !.trigger = FALSE]
  /\ UNCHANGED <<world, disc, provider, pool, loops, budget>>

ReloaderEnds ==
  /\ mgr.reloader = "tick" /\ mgr.graceShut
  /\ mgr' = [mgr EXCEPT !.reloader = "ended"]
  /\ UNCHANGED <<world, disc, provider, pool, loops, budget>>

\* A pool number nothing refers to.
Unused(p) ==
  /\ \A j \in Jobs : mgr.scrapePools[j] # p
  /\ \A s \in mgr.syncs : s.pool # p
  /\ LoopsOf(p) = {}

\* reload, under mtxScrape: a pool for each target set that has a valid configuration and no
\* pool yet, and a Sync goroutine for each set that has a pool.
Reload ==
  LET sets == {j \in Jobs : mgr.targetSets[j] # None}
      new  == {j \in sets : /\ mgr.scrapePools[j] = None
                            /\ mgr.scrapeConfigs[j] # None /\ mgr.scrapeConfigs[j] \notin Bad}
  IN /\ mgr.reloader = "reload" /\ mgr.lock = "none"
     /\ \E id \in [new -> Pools] :
          LET pools == [j \in Jobs |-> IF j \in new THEN id[j] ELSE mgr.scrapePools[j]]
          IN /\ \A j \in new : /\ Unused(id[j])
                               /\ \A k \in Pools : Unused(k) /\ k < id[j] => \E i \in new \ {j} : id[i] = k
             /\ \A i, j \in new : i # j => id[i] # id[j]
             /\ pool' = [p \in Pools |->
                  IF \E j \in new : id[j] = p
                  THEN LET j == CHOOSE j \in new : id[j] = p
                       IN [NoPool EXCEPT !.job = j, !.cfg = mgr.scrapeConfigs[j], !.alive = TRUE]
                  ELSE IF Unused(p) THEN NoPool ELSE pool[p]]
             /\ mgr' = [mgr EXCEPT !.reloader = "wait", !.scrapePools = pools,
                          !.syncs = {[pool |-> pools[j], groups |-> mgr.targetSets[j], pc |-> "start"] :
                                       j \in {k \in sets : pools[k] # None}}]
     /\ UNCHANGED <<world, disc, provider, loops, budget>>

ReloadReturns ==
  /\ mgr.reloader = "wait" /\ mgr.syncs = {}
  /\ mgr' = [mgr EXCEPT !.reloader = "tick"]
  /\ UNCHANGED <<world, disc, provider, pool, loops, budget>>

\* The receiver's Shutdown cancels the context of discovery: its Run forgets the targets, and
\* nothing a provider still does can be seen, since sendLatestUpdate looks at the context first.
DiscoveryRunEnds ==
  /\ disc' = [disc EXCEPT !.done = TRUE, !.cfg = NoSets, !.targets = NoSets]
  /\ provider' = [i \in Gens \X Jobs |-> Off]

Shutdown ==
  /\ mgr.caller = "idle" /\ disc.generation > 0
  /\ DiscoveryRunEnds
  /\ mgr' = [mgr EXCEPT !.caller = "stop"]
  /\ UNCHANGED <<world, pool, loops, budget>>

Stop ==
  /\ mgr.caller = "stop" /\ mgr.lock = "none"
  /\ mgr' = [mgr EXCEPT !.caller = "stopping", !.lock = "stop",
                        !.todo = {p \in Pools : \E j \in Jobs : mgr.scrapePools[j] = p}]
  /\ UNCHANGED <<world, disc, provider, pool, loops, budget>>

\* Stop stops one pool after the other.
StopPool(p) ==
  /\ mgr.lock = "stop" /\ p \in mgr.todo /\ mgr.busy = {} /\ pool[p].op = "none"
  /\ pool' = [pool EXCEPT ![p].op = "stop", ![p].active = {}]
  /\ loops' = StopLoops(p, Targets)
  /\ mgr' = [mgr EXCEPT !.todo = @ \ {p}, !.busy = {p}]
  /\ UNCHANGED <<world, disc, provider, budget>>

\* graceShut is closed when every pool has stopped.
StopReturns ==
  /\ mgr.lock = "stop" /\ mgr.todo = {} /\ mgr.busy = {}
  /\ mgr' = [mgr EXCEPT !.lock = "none", !.caller = "down", !.graceShut = TRUE]
  /\ UNCHANGED <<world, disc, provider, pool, loops, budget>>

LoopStep(l) == LoopTakesOver(l) \/ LoopScraped(l) \/ LoopEnds(l)
SyncStep    == \E s \in mgr.syncs : Sync(s) \/ SyncEnds(s)
Runner      == Receive \/ UpdateTsets
Reloader    == ReloaderTriggered \/ Reload \/ ReloadReturns
Caller      == \/ ApplyConfigReturns \/ DiscoveryApplyConfig \/ Stop \/ StopReturns
               \/ \E p \in Pools : ApplyToPool(p) \/ PoolOpEnds(p) \/ StopPool(p)

Next ==
  \/ \E v \in Versions : WorldChanges(v)
  \/ \E g \in Gens, j \in Jobs : Publish(g, j) \/ RunDiscoverer(g, j)
  \/ \E cfg \in Applied(MaxApplies - budget.applies + 1) : ApplyConfig(cfg)
  \/ \E s \in mgr.syncs : SymbolTableReset(s)
  \/ \E l \in loops : LoopScrape(l) \/ LoopStep(l)
  \/ Shutdown \/ RunEnds \/ ReloaderEnds
  \/ SyncStep \/ Runner \/ Reloader \/ Caller

Spec == Init /\ [][Next]_vars

\* Go runs every goroutine that can run; tickers fire; a select with several ready cases takes
\* each of them some time; a scrape ends with its timeout.
Fairness ==
  /\ \A g \in Gens, j \in Jobs : WF_vars(Publish(g, j)) /\ WF_vars(RunDiscoverer(g, j))
  /\ \A p \in Pools, t \in Targets : WF_vars(\E l \in LoopsOf(p) : l.target = t /\ LoopStep(l))
  /\ WF_vars(SyncStep) /\ WF_vars(Runner) /\ WF_vars(Reloader) /\ WF_vars(Caller)

FairSpec == Spec /\ Fairness

----------------------------------------------------------------------------
(* Properties.                                                             *)

\* A target of a job is never scraped by two loops at once, whatever restarts, reloads,
\* disappears and comes back: sync, stop and reload wait for the loops they stop "to terminate",
\* and the loops of a pool that was stopped while a reload still had to sync it do not scrape.
OneScraperPerTarget ==
  \A l, m \in loops :
    l.pc = "scrape" /\ m.pc = "scrape" /\ l.target = m.target /\ pool[l.pool].job = pool[m.pool].job => l = m

\* Once the discovery manager has a new configuration, a target that only a provider of the
\* old one could find never reaches the scrape manager again, although the old provider may
\* still deliver an update it had loaded before.
NoTargetOfOldConfig ==
  \A j \in Jobs :
    LET source == IF disc.cfg[j] = None THEN {} ELSE Source[disc.cfg[j]]
    IN /\ disc.targets[j] # None => disc.targets[j] \subseteq source
       /\ disc.syncCh # None /\ ~disc.done /\ disc.syncCh[j] # None => disc.syncCh[j] \subseteq source

\* What a current provider has found is what the manager will hear: it is in the pending update,
\* or was received, and a received update triggers a reload until the pools were synced with it.
FoundIsUnderway ==
  LET latest == AllTargets(disc)
  IN disc.generation > 0 /\ ~disc.done =>
       \/ disc.syncCh = latest \/ mgr.held = latest
       \/ /\ mgr.targetSets = latest
          /\ \/ mgr.trigger \/ mgr.reloader = "reload"
             \/ \A j \in Jobs :
                  LET p == mgr.scrapePools[j]
                  IN p # None /\ latest[j] # None =>
                       \/ [pool |-> p, groups |-> latest[j], pc |-> "start"] \in mgr.syncs
                       \/ pool[p].active = latest[j]
                       \/ ~pool[p].alive \/ pool[p].op = "stop" \/ mgr.lock = "apply"

\* Both ways discovery could be out of date, whatever the interleaving of ApplyConfig, the
\* providers of two generations, Run and the reloader: the manager never hears of a target of
\* an old configuration, and never misses what a current provider has found.
DiscoveryIsCurrent == NoTargetOfOldConfig /\ FoundIsUnderway

\* Unless the receiver shuts down, each configured job ends up with a loop for every target its
\* provider now finds, and for no other, once the targets and the configuration stay as they are.
Converges ==
  <>[](\/ disc.done \/ mgr.failed
       \/ \A j \in {i \in Jobs : disc.cfg[i] \in Versions \ Bad} :
            mgr.scrapePools[j] # None /\ pool[mgr.scrapePools[j]].active = world[disc.cfg[j]])

\* Stop returns: no loop keeps it waiting for ever.
StopEnds == mgr.caller = "stop" ~> mgr.caller = "down"

============================================================================
