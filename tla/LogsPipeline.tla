---------------------------- MODULE LogsPipeline ----------------------------
(***************************************************************************)
(* signozlogspipelineprocessor: ProcessLogs turns its records into entries,*)
(* has every entry processed by a goroutine of its own, no more of them at *)
(* a time than the limiter allows, waits for all, and turns the entries,   *)
(* which the operators have changed in place, back into records.           *)
(*                                                                         *)
(* An operator processes an entry and calls its outputs before it returns; *)
(* what it does after that depends on nothing, so the calls in progress    *)
(* are kept as an agenda of operators.  Two goroutines meet only at the    *)
(* limiter and in the caches of the regex parsers (RegexCache).  The       *)
(* stanza package is external: here, a writer has at most one output.      *)
(***************************************************************************)
EXTENDS RegexCache, LogEntry

CONSTANTS
  Ops,          \* [id -> operator]
  FirstOp,        \* the first operator of the pipeline
  Batches,      \* [call of ProcessLogs -> sequence of log records]
  MaxOps,       \* as many operators as any entry goes through, or more
  Concurrency   \* GOMAXPROCS

ASSUME PipelineAssumption ==
  /\ Concurrency \in Nat \ {0}
  /\ \A c \in DOMAIN Batches :
       /\ Len(Batches[c]) \in Nat /\ DOMAIN Batches[c] = 1..Len(Batches[c])
       /\ \A i \in DOMAIN Batches[c] : <<c, i>> \in Workers
  /\ FirstOp \in DOMAIN Ops
  /\ \A id \in DOMAIN Ops : LET o == Ops[id] IN
       /\ o.type = "regex" => id \in Parsers
       /\ o.type # "router" => o.output \in Seq(DOMAIN Ops)
       /\ o.type = "router" =>
            /\ DOMAIN o.routes \subseteq Nat
            /\ \A i \in DOMAIN o.routes : o.routes[i].outputs \in Seq(DOMAIN Ops)
            /\ "default" \in DOMAIN o => o.default \in Seq(DOMAIN Ops)

VARIABLES
  calls,        \* [call -> [at, spawned, out]]
  entries,      \* [worker, that is call and index -> entry]
  agenda,       \* [worker -> operators still to process its entry]
  running,      \* workers whose goroutine holds a place in the limiter
  crashed       \* a goroutine has panicked

\* plogToEntries gives every record an entry of its own, every entry gets a goroutine.
PlogToEntries == UNION {{c} \X DOMAIN Batches[c] : c \in DOMAIN Batches}

pipeVars == <<calls, entries, agenda, running, crashed, cacheVars>>

-----------------------------------------------------------------------------
(* Records and entries.  A record of a batch is the entry that convertFrom *)
(* makes of it, with the resource and the scope it was found in.           *)

\* Internal attributes go, an empty severity text becomes the name of the severity.
ConvertInto(e) ==
  [e EXCEPT !.attrs = IF Has(@, <<TempKey>>) THEN DeleteAt(@, <<TempKey>>) ELSE @,
            !.sevText = IF @ = "" THEN SevText[e.sev] ELSE @]

\* Mutant: the scope is looked for only when its resource is new.
InFirstScope(scopes, e) ==
  IF scopes = <<>> THEN <<[name |-> e.scope, records |-> <<ConvertInto(e)>>]>>
  ELSE [scopes EXCEPT ![1].records = Append(@, ConvertInto(e))]

\* The record goes to the scope of that name, which is appended when it is not there yet.
InScope(scopes, e) ==
  IF \A s \in DOMAIN scopes : scopes[s].name # e.scope
  THEN Append(scopes, [name |-> e.scope, records |-> <<ConvertInto(e)>>])
  ELSE [s \in DOMAIN scopes |->
          IF scopes[s].name # e.scope THEN scopes[s]
          ELSE [name |-> e.scope, records |-> Append(scopes[s].records, ConvertInto(e))]]

\* The same for the resource.
PlaceIn(logs, e) ==
  IF \A r \in DOMAIN logs : logs[r].resource # e.res
  THEN Append(logs, [resource |-> e.res, scopes |-> InScope(<<>>, e)])
  ELSE [r \in DOMAIN logs |->
          IF logs[r].resource # e.res THEN logs[r]
          ELSE [resource |-> e.res, scopes |-> InScope(logs[r].scopes, e)]]

ConvertEntriesToPlogs(es) ==
  LET logs[n \in 0..Len(es)] == IF n = 0 THEN <<>> ELSE PlaceIn(logs[n - 1], es[n])
  IN logs[Len(es)]

-----------------------------------------------------------------------------
(* One operator and one entry                                              *)

\* What the parse function of a parser makes of its field; Nil stands for an error.
JsonOf(o, x) == IF x.exists THEN ParseJson(o, x.value) ELSE Nil

Transform(o, e, captures) ==
  CASE o.type = "add"       -> AddValue(o, e)
    [] o.type = "copy"      -> Copy(o, e)
    [] o.type = "move"      -> Move(o, e)
    [] o.type = "remove"    -> RemoveField(o, e)
    [] o.type = "normalize" -> Done([e EXCEPT !.body = Normalize(AsBody(@))])
    [] o.type = "time"      -> ParseTime(o, e)
    [] o.type = "severity"  -> ParseSeverity(o, e)
    [] o.type = "trace"     -> ParseTrace(o, e)
    [] OTHER -> ParseWith(o, e, IF o.type = "json" THEN JsonOf(o, Get(e, o.from)) ELSE captures)

Env(o, e) == IF o.if = NoExpr THEN e ELSE Read(e, o.if.field)
Verdict(r, x) == IF r.fails THEN "error" ELSE IF IsTrue(r, x) THEN "run" ELSE "skip"
Skip(o, e) == IF o.if = NoExpr THEN "run" ELSE Verdict(Eval(e, o.if.field), o.if)

\* The entry is written to the output unless an error and on_error say otherwise.
HandleEntryError(o, r) ==
  [entry |-> r.entry, next |-> IF r.ok \/ o.onError \in {"send", "send_quiet"} THEN o.output ELSE <<>>]

ProcessWith(o, e, captures) ==
  HandleEntryError(o, IF Skip(o, e) = "run" THEN Transform(o, Env(o, e), captures)
                      ELSE Result(Env(o, e), Skip(o, e) = "skip"))

\* The first route whose expression holds, one that fails does not.
Labelled(e, r) == IF "label" \in DOMAIN r THEN Put(e, r.label.to, r.label.value) ELSE e
DefaultOf(o) == IF "default" \in DOMAIN o THEN o.default ELSE <<>>
Take(o, e, hits) ==
  IF hits = {} THEN [entry |-> e, next |-> DefaultOf(o)]
  ELSE [entry |-> Labelled(e, o.routes[Min(hits)]), next |-> o.routes[Min(hits)].outputs]
RouteEnv(o, e) ==
  IF \E i \in DOMAIN o.routes : LooksInside(o.routes[i].when.field) THEN Caching(e) ELSE e
Route(o, e) == Take(o, RouteEnv(o, e), {i \in DOMAIN o.routes : Holds(e, o.routes[i].when)})

Process(o, e, captures) ==
  CASE o.type = "noop"   -> [entry |-> e, next |-> o.output]
    [] o.type = "router" -> Route(o, e)
    [] OTHER             -> ProcessWith(o, e, captures)

\* The text, if any, with which a regex parser gets as far as match.
TextIn(x) == IF x.exists /\ IsText(x.value) THEN {x.value[<<>>]} ELSE {}
TextsOf(o, e) == IF o.type = "regex" /\ Skip(o, e) = "run" THEN TextIn(Get(Env(o, e), o.from)) ELSE {}

\* What a goroutine makes of an entry and its agenda in one step when it is alone: there is
\* no other goroutine, and no cache.
AloneStep(a) ==
  LET o     == Ops[Head(a.agenda)]
      found == {MatchOf[Head(a.agenda)][t] : t \in TextsOf(o, a.entry)} \ {NoMatch}
      r     == Process(o, a.entry, IF found = {} THEN Nil ELSE CHOOSE x \in found : TRUE)
  IN [entry |-> r.entry, agenda |-> r.next \o Tail(a.agenda)]

\* An entry by itself: what it and its agenda are after so many operators.
Trail(w) ==
  LET after[n \in 0..MaxOps] ==
        IF n = 0 THEN [entry |-> Batches[w[1]][w[2]], agenda |-> <<FirstOp>>]
        ELSE LET a == after[n - 1] IN IF a.agenda = <<>> THEN a ELSE AloneStep(a)
  IN after

\* What an entry is alone when it has gone through all its operators.
Alone == [w \in PlogToEntries |-> Trail(w)[MaxOps]]

\* The operators of a pipeline form a graph without cycles (stanza builds no other).
ASSUME AgendasEnd == MaxOps \in Nat /\ \A w \in PlogToEntries : Alone[w].agenda = <<>>

-----------------------------------------------------------------------------

PipeInit ==
  /\ CacheInit
  /\ calls = [c \in DOMAIN Batches |-> [at |-> "new", spawned |-> 0, out |-> <<>>]]
  /\ entries = [w \in PlogToEntries |-> Batches[w[1]][w[2]]]
  /\ agenda = [w \in Workers |-> <<>>]
  /\ running = {}
  /\ crashed = FALSE

\* ProcessLogs; the entries are there from the start.
Receive(c) ==
  /\ calls[c].at = "new" /\ ticking /\ ~crashed
  /\ calls' = [calls EXCEPT ![c].at = "spawn"]
  /\ UNCHANGED <<entries, agenda, running, crashed, cacheVars>>

\* The limiter has a place for the call's next goroutine.
MaySpawn(c) ==
  /\ calls[c].at = "spawn" /\ calls[c].spawned < Len(Batches[c])
  /\ Cardinality(running) < Concurrency

Spawn(c) ==
  LET w == <<c, calls[c].spawned + 1>>
  IN /\ MaySpawn(c) /\ ~crashed
     /\ running' = running \cup {w}
     /\ agenda' = [agenda EXCEPT ![w] = <<FirstOp>>]
     /\ calls' = [calls EXCEPT ![c].spawned = @ + 1]
     /\ UNCHANGED <<entries, crashed, cacheVars>>

\* Mutant: one cache for all regex parsers.
SharedCache(id) == CHOOSE p \in Parsers : TRUE

CacheOf(id) == id

\* What a worker can use at once as the parser's captures: those of the cache, an error
\* when nothing matches; nothing when there is a match to add.
Lookup(id, t) ==
  IF Cached(CacheOf(id), t) THEN {mem[CacheOf(id)].cache[t]}
  ELSE IF MatchOf[id][t] = NoMatch THEN {Nil} ELSE {}
AtOnce(id, texts) == IF texts = {} THEN {Nil} ELSE UNION {Lookup(id, t) : t \in texts}

Captures(w) ==
  IF job[w] = NoJob THEN AtOnce(Head(agenda[w]), TextsOf(Ops[Head(agenda[w])], entries[w]))
  ELSE IF job[w].at = "ask" /\ ~Throttled(job[w].parser) THEN {}
  ELSE {MatchOf[Head(agenda[w])][job[w].text]}

\* The text is matched, and the match about to be added.
Matched(w) ==
  /\ agenda[w] # <<>> /\ job[w] = NoJob /\ ~crashed
  /\ Captures(w) = {}
  /\ \E t \in TextsOf(Ops[Head(agenda[w])], entries[w]) :
       job' = [job EXCEPT ![w] = [at |-> "ask", parser |-> CacheOf(Head(agenda[w])), text |-> t]]
  /\ UNCHANGED <<calls, entries, agenda, running, crashed, mem, ticking>>

Ask(w) ==
  /\ ~crashed
  /\ AskLimiter(w, job[w].parser, job[w].text)
  /\ UNCHANGED <<calls, entries, agenda, running, crashed>>

PanicsAt(o, e) == o.type = "normalize" /\ Skip(o, e) = "run" /\ Panics(AsBody(e.body))

\* An operator processes the entry, which then goes on to its outputs, and after them to
\* what its callers have left to do.  A match is added first, unless the limiter throttles.
Step(w) ==
  /\ agenda[w] # <<>> /\ ~crashed
  /\ crashed' = PanicsAt(Ops[Head(agenda[w])], entries[w])
  /\ \E c \in Captures(w) :
       \E r \in {IF crashed' THEN [entry |-> entries[w], next |-> <<>>]
                 ELSE Process(Ops[Head(agenda[w])], entries[w], c)} :
         /\ entries' = [entries EXCEPT ![w] = r.entry]
         /\ agenda' = [agenda EXCEPT ![w] = r.next \o Tail(@)]
  /\ mem' = IF job[w].at = "add" THEN [mem EXCEPT ![job[w].parser] = Add(@, job[w].parser, job[w].text)]
            ELSE mem
  /\ job' = [job EXCEPT ![w] = NoJob]
  /\ UNCHANGED <<calls, running, ticking>>

\* Mutant: the places of a call are given back when its entries have all been started.
MayReleaseAfterLast(w) ==
  w \in running /\ agenda[w] = <<>> /\ calls[w[1]].spawned = Len(Batches[w[1]])

MayRelease(w) == w \in running /\ agenda[w] = <<>>

Release(w) ==
  /\ MayRelease(w) /\ ~crashed
  /\ running' = running \ {w}
  /\ UNCHANGED <<calls, entries, agenda, crashed, cacheVars>>

\* group.Wait
MayReturn(c) ==
  /\ calls[c].at = "spawn" /\ calls[c].spawned = Len(Batches[c])
  /\ \A w \in running : w[1] # c

Return(c) ==
  /\ MayReturn(c) /\ ~crashed
  /\ calls' = [calls EXCEPT ![c].at = "done",
                            ![c].out = ConvertEntriesToPlogs([i \in DOMAIN Batches[c] |-> entries[<<c, i>>]])]
  /\ UNCHANGED <<entries, agenda, running, crashed, cacheVars>>

Ticks ==
  /\ ~crashed
  /\ \E p \in Parsers : Tick(p)
  /\ UNCHANGED <<calls, entries, agenda, running, crashed>>

\* The collector shuts a processor down when its receivers have stopped.
Shutdown ==
  /\ \A c \in DOMAIN calls : calls[c].at # "spawn"
  /\ ~crashed
  /\ Stop
  /\ UNCHANGED <<calls, entries, agenda, running, crashed>>

PipeNext ==
  \/ \E c \in DOMAIN Batches : Receive(c) \/ Spawn(c) \/ Return(c)
  \/ \E w \in Workers : Matched(w) \/ Ask(w) \/ Step(w) \/ Release(w)
  \/ Ticks
  \/ Shutdown

PipeSpec == PipeInit /\ [][PipeNext]_pipeVars

-----------------------------------------------------------------------------

\* Calls that take the places of one limiter (processor.go:111) do not wait for each
\* other for ever: until all have returned, one of them or of their goroutines can go on
\* (a goroutine with operators left always can).
NoCallIsStuck ==
  (\E c \in DOMAIN calls : calls[c].at = "spawn") =>
    \/ \E c \in DOMAIN calls : MaySpawn(c) \/ MayReturn(c)
    \/ \E w \in running : agenda[w] # <<>> \/ MayRelease(w)

\* An entry is taken up once, as its batch has it, and goes on as if it were alone, whatever
\* other goroutines do and whatever they have left in the caches (parser.go:50-67): together
\* with ReturnsWhatIsLeft, what ProcessLogs returns is a function of each record.
GoesAsAlone(w) ==
  \/ entries'[w] = entries[w] /\ agenda'[w] = agenda[w]
  \/ /\ w[2] = calls[w[1]].spawned + 1 /\ calls'[w[1]].spawned = w[2]
     /\ entries'[w] = Batches[w[1]][w[2]] /\ agenda'[w] = <<FirstOp>>
  \/ /\ agenda[w] # <<>>
     /\ [entry |-> entries'[w], agenda |-> agenda'[w]] = AloneStep([entry |-> entries[w], agenda |-> agenda[w]])

EntriesGoAlone == [][crashed' \/ \A w \in PlogToEntries : GoesAsAlone(w)]_pipeVars

\* ProcessLogs returns what the operators have left of its entries (processor.go:121-130), in
\* the order of its records, when none of them has an operator to go; nothing changes it later.
ReturnsWhatIsLeft ==
  \A c \in DOMAIN calls : calls[c].at = "done" =>
    /\ \A i \in DOMAIN Batches[c] : agenda[<<c, i>>] = <<>>
    /\ calls[c].spawned = Len(Batches[c])
    /\ calls[c].out = ConvertEntriesToPlogs([i \in DOMAIN Batches[c] |-> entries[<<c, i>>]])

\* records are those of the entries of M, in their order.
InOrder(records, es, M) ==
  /\ M # {} /\ Len(records) = Cardinality(M)
  /\ \A i \in M : records[Cardinality({j \in M : j <= i})] = ConvertInto(es[i])

\* The entries of a resource are in scopes of different names, each in the one of its name.
Grouped(scopes, es, res) ==
  /\ \A s, t \in DOMAIN scopes : scopes[s].name = scopes[t].name => s = t
  /\ \A s \in DOMAIN scopes :
       InOrder(scopes[s].records, es, {i \in DOMAIN es : es[i].res = res /\ es[i].scope = scopes[s].name})
  /\ \A i \in DOMAIN es : es[i].res = res => \E s \in DOMAIN scopes : scopes[s].name = es[i].scope

\* logs has every entry once, under its resource and its scope, each of which is there once.
Regrouped(logs, es) ==
  /\ \A r, q \in DOMAIN logs : logs[r].resource = logs[q].resource => r = q
  /\ \A r \in DOMAIN logs : logs[r].scopes # <<>> /\ Grouped(logs[r].scopes, es, logs[r].resource)
  /\ \A i \in DOMAIN es : \E r \in DOMAIN logs : logs[r].resource = es[i].res

\* Whatever the other goroutines do meanwhile, of the same call or of another, and
\* whatever the caches hold, ProcessLogs (processor.go:96-130) returns every record once,
\* as the operators leave it when it is alone, under the resource and the scope they leave
\* it with, each of which is there once; the records of a scope keep their order.
OutputIsTheInput ==
  \A c \in DOMAIN calls : calls[c].at = "done" =>
    Regrouped(calls[c].out, [i \in DOMAIN Batches[c] |-> Alone[<<c, i>>].entry])
=============================================================================
