# A verification of tegg

TLA+ modules that model the behaviour of tegg, TLC configurations that check them
on small instances, and theorems about the concurrent core that TLAPS proves for
every value of the constants.  Paths below are relative to `src/`.

All of tegg runs on Node.js: what interleaves is not instructions but the
stretches between two `await`s, the callbacks of sockets, timers and streams,
and, through a shared store, an agent process or HTTP, several processes.  An
action of a module is one such stretch, from its guard to the next `await`, with
every call it makes.

- [1. The system](#1-the-system)
- [2. The modules](#2-the-modules)
- [3. The runs](#3-the-runs)
- [4. What is proved](#4-what-is-proved)
- [5. Findings](#5-findings)
- [6. What is not modelled](#6-what-is-not-modelled)
- [7. Plan](#7-plan)

## 1. The system

tegg adds modules with dependency injection to egg, and builds on them event
buses, background tasks, controllers, a data access layer, agents and more.  A
process boots (modules are found, their prototypes resolved and sorted, units
and singletons created, hooks registered on the way), serves requests (a context
each, with objects created on demand and torn down at its end), and shuts down.

| component | state | operations | hard | correct when |
|---|---|---|---|---|
| **Agent run** `core/agent-runtime` | the run's record in the store; `runningTasks`; the builder's status; the flusher's cursor; the commit flag | `syncRun`, `asyncRun`, `streamRun`, `cancelRun`, `destroy` | a run ends by itself, by an error, by `cancelRun` here or elsewhere, by a signal, by a crash, all at once; every store call may fail | the thread is written only when the session is resumable, has no gap, and is complete when the record says completed; a cancelled run is quiet; every run settles |
| **Its event stream** | the events file, `buffer`, per client: position, queue, listener | `pushEvent`, `getRunStream`, `streamEventsToWriter` | a client joins anywhere, at the seam of file and live events; disconnects; a full disk | each client gets what it asked for once and in order, up to the end |
| **Its messages** | the lines of a thread in two protocols | `normalize`, `annotateForStorage`, `getThread`, `hasMessages` | two readers of one file decide separately what it holds | what is stored is what was yielded; a run resumes exactly what is shown |
| **Its controller** `plugin/controller/lib/AgentControllerObject.ts` | status, runtime, store | the object's life cycle, its routes | any step may throw; runs are asked for meanwhile | ready objects serve every route; a failed one keeps no runtime |
| **Thread store** `OSSAgentStore.ts` | `meta.json`, `messages.jsonl`; promise tails; pending writes | `updateThreadMetadata`, `createRun`, `appendMessages`, `destroy` | overlapping read-modify-writes, errors inside the exclusive section | no update is lost, the lock is fair and leaks nothing, destroy loses no write |
| **OSS client** `OSSObjectStorageClient.ts` | a cache of append positions | `append` | two processes with stale positions; a request done but reported as failed | appended once, or an error |
| **Object container** `core/runtime` | maps of objects and of creation promises; per object a status | `getOrCreateEggObject`, the hooks of `EggObjectImpl`, `destroy` | concurrent creations that share injections, failing hooks, destroy meanwhile | one object per proto and scope, complete, one fate for all callers |
| **Context objects** `core/runtime`, `plugin/tegg` | records and promises of the initiator; getters | `ContextInitiator.init`, the life cycle middleware | objects and initialisations wait for one another across containers | what a handler reads is there |
| **Metadata graph** `core/metadata` | `GlobalGraph`, the prototypes of each unit | `build`, `sort`, `findDependencyProtoNode`; `EggPrototypeBuilder` | an inject is resolved twice, by two algorithms over two sets | what was foreseen is what happens |
| **Classes, properties of egg** `core/*-decorator`, `plugin/tegg` | metadata on classes; app and context properties | decorators, descriptors, construction | forms of an inject; multiple instances; values read late | an object has what it declared |
| **Modules, configuration** `core/common-util`, `plugin/config` | references, names of configuration files | scanning, dedupe, merge | statics shared by several applications | modules are unique; a configuration is of its environment |
| **Boot and shutdown** `plugin/tegg`, `standalone/standalone` | units, instances, public prototypes, hooks | `init`, `destroy` of both hosts | one step of several fails; the process runs again | what was built is taken down |
| **Background tasks** `core/background-task` | the promises of one context | `run`, `preDestroy` | tasks that start tasks while they are waited for; tasks that hang | no task is forgotten, the wait ends |
| **Event bus** `core/eventbus-runtime` | corked events by cork id, the cork id of each context | `cork`, `uncork`, `emit`, `await` | flows share a cork; handlers throw; a context fails | in order, once, never under a cork; all handled |
| **WebSocket fetch session** `core/websocket-runtime` | the event queue, its waiter, close listeners, the stream being sent | `run`, `dispatch`, `invoke*`, `sendResponse` | close overtakes messages and tears an answer | in order, nothing lost silently, every stream released |
| **MCP sessions** `plugin/controller/lib/impl/mcp`, `plugin/mcp-proxy` | transports, timers, pings, contexts; the agent's map of owners | initialize, requests through any worker, SSE opening and messages | the owner dies or closes between look-up and call; the peer leaves during the opening | routes are true, timers follow their sessions, a close is cleaned up |
| **MCP servers** the same, `standalone/service-worker` | servers by name, their paths | registration, a session's own server | controllers share servers by name | the tools asked for, with their arguments in place |
| **Controllers** `core/controller-decorator`, `plugin/controller`, `standalone/service-worker` | metadata of methods; routers; the answer of a request | decorators and builders; registration and matching; one request | inheritance by shallow copies; routes that cover one another; late answers | a handler gets what it binds, a route is reached, a request is answered once |
| **AOP** `core/aop-*` | crosscuts, pointcuts, woven aspects | weaving during boot, an advised call | advices register themselves while classes are woven | woven as declared; framed calls |
| **Data access** `core/dal-*`, `plugin/dal` | table models, statements, data sources | CREATE TABLE, a DAO's statements, minify, connecting, transactions | null and undefined, crossed names, quotes and comments, retries | what is saved is found; a statement keeps its meaning |
| **ORM, schedules, langchain, tracing** | realms; registrations; graphs; the trace of a run | registered at boot, used by calls | order of registration; shared keys | one of each; the whole is seen |
| **DNS cache** `plugin/dns-cache` | an LRU of addresses with expiry and a rotating index | `lookup`, background refresh | overlapping refreshes; eviction | cached addresses are answers; the rotation is fair |

`PROJECT.json` lists all thirty-eight components with their status, and the
hazards of the code, each at its line.

Where components meet: the worker of a run feeds its event stream (`pushEvent` is
synchronous, so `AgentRun` needs nothing of the stream) and writes runs and
threads through the store (`AgentRun` sees it as a record and a sequence of
batches, each call a read or a write that may fail; `ThreadStore` looks inside
for one process, `OssAppend` at the append of several).  Background tasks, the
bus and sessions create their objects through the container and only need that a
creation ends or throws, which `EggContainer` checks.  The graph (`InjectGraph`)
gives the order in which units and prototypes are made (`ModuleBoot`), and hooks
on that order are what `Aop` and `LangGraph` depend on.

## 2. The modules

Definitions keep the names of the source where they can.  A definition called
`X_Bug` is a mutation: `X` as a plausible mistake would have it.  Each property
of a passing run has one that violates it.

### Agents

**`AgentRun`, `RunLifecycle`.**  One run of any of the three kinds.  The worker's
place is `wpc`, each value an `await`; the calls of `cancelRun` have their own
`cpc`.  A run record is a status and the set of statuses it was ever stamped with
(`startedAt`, `completedAt`, ...).  `updateRun` reads the record and writes it
back whole, so every update is two actions (`..Get`, `..Put`), between which
others write.  A message is two bits (is it stored, does it commit the session);
the thread is the sequence of batches appended.  `Flush` is
`createMessageFlusher`: the gate, the batch, the cursor, and an append that works,
fails, or works and reports a failure.  `CommitTimeout` is the watchdog of
`waitForCommitted`, which polls the local task; for a call on another process there
is no task to find.  `RunLifecycle` is the machine of `RunBuilder`: which status may
follow which.  As an abstract specification of the stored record it is refined
until somebody calls `cancelRun`; after that it is not, see the findings.

**`RunEventStream`.**  The worker's side is `PushMessage`, `PushThrows`,
`PushLastAndFinish`, `LastThrows`, `ReleaseBuffer`.  A client goes `replay` (or
`stored`, when the buffer is gone) -> `catch_up` -> `drain` <-> `wait` -> ended.
A read of the file meets the end at one moment (`MeetEnd`) and hands over its
lines later, one at a time (`ReadLine`), while the worker appends and the
listener queues.  `Heartbeat` is the timer of a waiting client, the only thing
that looks at `writer.closed` while the run is silent.

**`AgentMessages`.**  Two runs of one thread, in either protocol.  An executor's
message is one of twelve shapes; normalising, annotating, storing and reading back
are functions of the shape, and the file is what `getThread` and `hasMessages`
read.

**`AgentController`.**  The stubs the decorator puts for routes the class lacks,
and the life cycle of `AgentControllerObject`, one action per hook, each of which
may throw.  Runs are asked for as soon as there is a runtime.

**`ThreadObject`, `ThreadStore`.**  `ThreadObject` is the promise: `meta.json` and
`messages.jsonl` change by one call's contribution at a time.  `ThreadStore` is
`OSSAgentStore`: `Enqueue` and `Release` are the two ends of `runExclusive`, with
`tails` the map of promises and `previous` what a call awaits; `Get` and `Put` are
the storage calls in the section; `StorageThrows` is either of them throwing, a
write perhaps after it took effect.  `pending`, `Drain` and `Settle` are
`pendingIndexWrites` and `awaitPendingWrites`.

**`OssAppend`.**  `append` of any number of processes on one object: the cached
position, the one HEAD and the one retry, requests done but reported as failed,
and restarts, which forget the cache.

**`ClaudeTrace`.**  The runs `ClaudeAgentTracer` starts, orders and ends for the
messages of one execution.

### Objects and boot

**`InjectGraph`.**  Resolution over all declared prototypes (`GlobalGraph`, with
the qualifiers it adds to find one of several), the two topological sorts with
their loop check, and the second resolution of `EggPrototypeBuilder` over the
prototypes registered so far.  What was foreseen is stated of the prototype that is
created next: each inject that was wired is found among what is registered, and found
once, unless the builder cannot tell several of the context apart.

**`ModuleBoot`.**  The registries of units, instances and public prototypes, and
`init` and `destroy` of the egg application and of the standalone runner: an
action per unit and per instance, each of which may fail, and a second `main()`.

**`ModuleConfig`, `EggProperties`, `Injection`.**  How modules are found,
deduplicated and named, and which files a configuration is merged from, the names
being a static that applications and runners set and take back; the properties of egg's application and context as objects; the way of one class
from its decorators through metadata and descriptors to the arguments of its
constructor.

**`EggContainer`.**  `store` and `promise` are `eggObjectMap` and
`eggObjectPromiseMap`.  `destroy` clears the first, but a call under way has
captured the inner map of its proto and goes on with it; so `store` has the maps of
two scopes, before and after `destroy`, and a call remembers which it captured
(`seen`).  The second map is not cleared: a promise leaves it when its creation
succeeds.  A call is a request of somebody or an injection of an object under
construction; `Asked(C)` is the synchronous start of all calls of one
`Promise.all`.  Objects are numbered per proto in the order of their
construction.  `OwnerStores` and `WaiterResumes` are the continuations of the
creator and of those who found its promise.

**`ContextObjects`.**  One request from `beginModuleScope` to its handler: an
object of a container is absent, on its way, ready or failed for good; each ask,
injection and initialisation is a call with its own place.  A singleton reads a
`CONTEXT` object through a getter, so the initiator creates whatever is below it.

**`BackgroundTask`.**  `list` is `backgroundTasks`, `waits` the part of it the
current `Promise.race` looks at.  A task hangs or ends (whether it throws makes no
difference: `run` catches).  While `doPreDestroy` waits, tasks that run may start
tasks, and only those: the request is over.

**`Aop`.**  Crosscuts and pointcuts from the graph hooks through the boot, where
advices register themselves and `LoadUnitAopHook` reads who is there, to one call
of an advised method.

### Sessions and events

**`EventBus`.**  `corkId` is the id in a context, `times` and `queue` the entry of
`corkedEvents`.  `started` records the `doEmit`s of a context in order, `emitted`
the calls of `emit`.  `Handle`, `HandlerEnds` and `Settle` are the stretches of
`doEmit`.

**`FetchSession`.**  The socket (`readyState`), `WebSocketEventStream` (`events`,
`closeYielded`, `disposed`, its waiter being `pc = "waiting"`), the session of
`WebSocketFetchSession.run` (`pc`, `event`) and the stream it sends (`response`,
`closeListener`).  `SocketCloses` is the whole `onClose`: it calls the listeners,
drops the messages nobody took, and hands `close` to the waiter or the queue.
`defined` chooses which optional methods the controller has.

**`McpStream`.**  Streamable sessions in the workers of a cluster.  A request may
reach any worker, which asks the agent's map and forwards it.  A session ends
when its client deletes it, when it is idle, or when its pings stop; a worker may
die.

**`McpSse`.**  One SSE session: the opening with its two waits, the peer that
leaves at any moment, each message in a context of its own that lives until the
answer with its id is sent, and the cleanup that hears of the close.

### Controllers

**`ControllerMeta`.**  What the decorators of HTTP and WebSocket methods note,
with the maps a class inherits, what the builders refuse, and the arguments of a
handler.

**`Routes`.**  Collecting, sorting and checking routes of both protocols, the
router and the root proto, and the first events of a service worker, which share
one initialisation.  A path is a sequence of segments, `":"` being a parameter.

**`McpServer`.**  Decorators of tools, resources and prompts; servers by name; the
paths exempted from csrf and body parsing; the server each session builds anew,
and the arguments it calls a method with.

**`HttpRequest`.**  One request through middlewares, access control, advices and
timeout, as each host composes them, and the answer made of the result.  A method has
a layer for each host it is registered for, with middlewares, access control and a
handler; the handler of a layer for another host calls `next`, so the layers lie
inside one another.  A middleware may write the response or not, whether it calls
`next`, catches or throws.

### Plugins

**`DalTable`, `SqlMinify`, `DalSource`.**  From a decorated class to its model, the
CREATE TABLE statement, the DAO's statements and the rows a database keeps (the
database is modelled by what these statements ask of it); the automaton every
statement passes through; the data sources of the modules with their retries and
delegates, and the source of a transactional method.  A configuration is what its key
tells (`createDataSourceKey` joins the values that are true, as strings) and the rest,
which two modules of one key need not share.

**`Orm`, `Schedules`, `LangGraph`, `DnsCache`.**  Realms made by models or by whoever
asks; schedules in the agent and the workers, and their ticks; the hooks that add
injections to graphs and nodes, and a traced call; lookups that share cache entries
and refresh them in the background.

### The modules for TLC and the proofs

`MCAgentRun`, `MCContainers`, `MCSessions`, `MCBoot`, `MCPlugins` and `MCControllers`
put the components of one side of the system into one run: a behaviour is about one
`part`, chosen at the start, and the others have one initial state and stay in it.
So a run's property is a conjunction of the properties of its modules, and its states
are the sum of theirs, not the product.
Fairness is guarded by the part it is about, and `InstancesAssumption` gathers
the assumptions of modules that are instantiated.  The constants of the components are
constants of the composition, and the configuration gives them their values (those
that are functions by a definition of the MC module): so a theorem can be about the
composition too.  The thread store is checked by itself: its refinement needs the
whole behaviour.  Parts meet where the code makes them meet by more than a
call that ends or throws: `ModuleBoot` has both registries and hosts,
`McpStream` both the register and the proxy, `LangGraph` and `Aop` their share of
the boot, `DalTable` a table with its DAO and rows.

Proofs are in modules of their own, one for each composition that they are about:
`AgentRunProofs` extends `MCAgentRun`, `ContainersProofs` extends `MCContainers`,
`SessionsProofs` extends `MCSessions`, `BootProofs` extends `MCBoot`, `PluginsProofs`
extends `MCPlugins` and `ControllersProofs` extends `MCControllers`.  A property of a run is about every part,
so its theorem is about the run's own specification, whose other parts a step leaves
as they are.  `ThreadStoreProofs` extends `ThreadStore`; the one proof about
`OssAppend` is at its end, and `PluginsProofs` uses it.  Recursion is written as
recursive functions throughout, since the prover takes no `RECURSIVE` operator.

## 3. The runs

`tlc -config X.cfg M`.  Sizes are distinct states.

| run | module, configuration | states | question |
|---|---|---|---|
| `agent_safety` | `MCAgentRun`, `AgentRun_safety` | 1434990 | A run of any kind against a `cancelRun`, an abort, a crash, two failing store calls and a slow store; the messages of two runs in both protocols; a controller object whose steps may throw: do gate, transcript, answers and ownership hold? |
| `agent_liveness` | `MCAgentRun`, `AgentRun_liveness` | 227299 | Do `cancelRun`, here and on another process, an aborted task and the record of an ended task all come to an end? |
| `thread_objects` | `ThreadStore`, `ThreadStore_objects` | 3666852 | Do overlapping updates, with the lock around appends too, change each object one call at a time, and does `destroy` wait? |
| `containers` | `MCContainers`, `Containers_all` | 35574 | Containers, context objects, background tasks and a store that is destroyed: one object, complete, one fate, and nobody waits for ever? |
| `sessions` | `MCSessions`, `Sessions_all` | 334163 | MCP sessions of both kinds, fetch sessions, clients of a run, the bus: nothing lost, repeated or out of order, every peer released? |
| `boot` | `MCBoot`, `Boot_all` | 1654935 | Does the boot do what the graph foresaw, and is what was built taken down? |
| `plugins` | `MCPlugins`, `Plugins_all` | 1365553 | Do statements, advices, graphs, realms, schedules, caches, appends and traces keep their word? |
| `controllers` | `MCControllers`, `Controllers_all` | 888136 | Do handlers get their arguments, are routes and tools reached, does a method run inside all that wraps it and answer in time or not at all? |
| `run_terminal_final`, `run_failed_completion`, `stream_replay`, `next_run_boots` | | violations | the findings, section 5 |

What the properties say:

- `ThreadUntouchedBeforeCommit`, `RecordTellsTheTruth`, `TranscriptIsKept`,
  `CancelledRunIsQuiet`: what the thread and the record say, whatever ends the run
  and whichever call fails or lies about its failure.  `RecordTellsTheTruth` is that
  a completed record vouches for the whole transcript, and that the answer of
  `cancelRun` stays what the store says.  The second half is about a single
  caller: with two, each may answer what the other then overwrites.
  `TranscriptIsKept` is that no line is there without those before it, and one
  more than once only for an append that failed although it was stored.
- `RefinesLifecycle`: the stored record moves as `RunLifecycle` allows until
  somebody calls `cancelRun`.  `RunsSettle`: a `cancelRun` returns, an aborted task
  ends, the record of an ended run settles.
- `MessagesAreFaithful`: a thread holds what executors yielded, a run is told to
  resume exactly when the thread shows a conversation, a completed run reports the
  usage of its result.  `ControllerOwnsRuntime`: a ready object serves every route
  through its own runtime; one that is gone, or failed with a runtime, left neither
  runtime nor store.
- `NoLostUpdate` (the refinement of `ThreadObject`), `ServedInOrder`,
  `ThreadIsTidy`, `RecordedBeforeDown`: the thread store.
- `OneObjectPerScope`, `InjectedFirst`, `FailureIsShared`: the container.
  `ObjectsAreAccountedFor` adds that a `destroy` which finds no creation under way
  leaves nothing alive (an object created across it is stored in a map nobody looks
  at again, and the code does not claim to destroy it), and that a controller
  reaches the objects of its context.  `NoTaskIsForgotten`: background tasks.
  `WaitsEnd`: no call for an object, no request, no `preDestroy`, no call on a
  thread waits for ever.
- `SessionIsWhole`: timers follow their sessions, the agent names the worker that
  has one, a request goes unanswered only when its session has gone, and an SSE
  close that is heard is cleaned up.  `NothingIsLostSilently`: for a WebSocket
  message the ways out are given to the method, still queued, counted by
  `droppedMessageCount`, discarded by `invokeData`; nothing else may happen to it
  while the stream listens.  `DeliveredInOrder`, `NothingIsMissed`: a client of a
  run.  `StartedInOrder`, `CorkHolds`: the bus.  `PeersAreReleased`: sessions nobody
  uses end, a closed socket's call returns, streams end with their run, events are
  handled, waiters woken.
- `GraphForeseesBoot`: prototypes are created after what they were wired to, an
  unambiguous inject gets what it asks for, and what was wired is found, and found
  once.  Excepted are an inject that asks for an init type (`WiredAsAsked` is refuted,
  section 5) and one that several prototypes of the context answer: the graph goes on
  to compare the own init type and module, the builder throws.
  `BootIsUndone`: an instance alive has its unit, hooks outlive units, a calm
  shutdown leaves nothing.  `ModulesAreWhole`, `PropertiesAreObjects`,
  `DeclaredIsInjected`: modules, egg's properties, classes.
- `DalKeepsItsWord`: a saved row is found by the DAO; minify keeps a statement's
  meaning, except of the texts in `Misread`, each of which the automaton is known to
  get wrong; a transaction covers its writes, on a client that is configured as its
  module says as far as the key tells (`OwnSource`, that the rest is too, is refuted).  `HooksSeeTheWhole`: advices are woven
  as declared and frame their calls, a graph is compiled with what it declares and
  traced under its own configuration.  `OneOfEach`: one realm for a database, a
  tick calls the class of its schedule.  `ClientsKeepTheTruth`: a cached address
  was an answer for its host, a rotation uses them all, an append that returned is
  in the object once, and one that failed is not, unless that very call was hit by a
  fault.  `TraceIsWellFormed`: runs start once, under a parent, and
  end.
- `HandlersGetWhatTheyBind`, `RoutesAreReached`, `EventsFailForACause`,
  `SessionServesItsServer`, `AnswersOnce`: controllers.  `RoutesAreReached` is about
  routes that the check compares, which leaves out HTTP routes without a host.
  `AnswersOnce`: a method runs only for a host it has, inside every middleware of that
  host's layer and of the layers before it, each entered once in its layer; the
  response has what it returned only when it returned in time, and then has just that
  unless a middleware wrote over it.

`TypeOK` is proved for the modules with proofs.

Deadlock is checked for the agent run, its event stream and the thread store,
whose `Stopped` says when nothing is left to do.  The other parts may stop when
their callers do; in a run that checks deadlock they rest by a stuttering step of
the composition, and where they may not rest a liveness property says so.  `boot`,
`plugins` and `controllers` switch the check off: their behaviours are finite and
end when the boot, the call or the request does.

### Bounds, and why they are enough

- **Agent run.** Two messages, each durable or not and committing or not, give a
  run that commits before, at and after a stored message, and a batch of two.
  Two faults let an append and its retry fail, or an append and the update that
  follows.  One local canceller for safety, because `cancelRun` is idempotent
  there by `abort()`; a local and a remote one for liveness, where the remote one
  shares nothing with the worker but the record.  `SlowStore` lets the watchdog
  fire during a store call, which a timeout longer than any call would exclude.
- **Messages, controller.** Two runs of at most two messages: the second run finds
  what the first left.  Every subset of routes, both versions, two throws, so that
  a cleanup may fail too.
- **Thread store.** Five calls in `thread_objects`, three on one key and two on
  the other: a chain of promises of three, where the middle one fails.  The
  client without an atomic append is checked there, with one in `containers`.
- **Containers.** `a` injects `b` and `c`, `b` injects `c`: shared and nested
  injections; requests for the top and the bottom; two creations per proto (before
  and after `destroy`); one hook that throws.  A context of a controller, a
  service and six more over three containers, one failure.  Three tasks with and
  without a timeout: one that is waited for and two that it may start.
- **Sessions.** Two workers, of which one may die, one session and three requests,
  one a deletion: every pair of owner and receiver.  Three SSE messages, two with
  one id.  Three WebSocket messages: one with the method, one queued, one that
  comes during `close`.  Five events of a run: one before the client, one in each
  of replay, catch-up and queue, and the last; clients share only what the worker
  writes, and the proof is for any number.  Three flows over two contexts, so that
  cork ids interleave; four corks, hence `MaxIds = 4`.
- **Boot.** Two names in every shape over three units, at most four prototypes: an
  inject with none, one or two candidates, and one of its own module beside two of
  others.  Four units with two failures, the first in a boot and the second in the
  shutdown after it.  Three directories, five configuration files, three applications
  in a process, runners and egg applications, that begin and end in any order.
- **Plugins.** A table with crossed names, with a generated key and without one;
  statements of four of fifteen fragments (a comment, a quote, a hint and what is
  between, with those that are misread: each exception is needed with four); three
  modules' sources, two of one key with different configurations, with two retries
  over two boots; all designs of
  two advices over three modules; four lookups of two hosts with a cache of one;
  two processes with two appends each and one fault; executions of five messages.
- **Controllers.** Two methods of two parameters each, every declaration a
  decorator can make of them, with a subclass; three controllers with two paths,
  one covering the other; five MCP classes with every placement of arguments over
  two parameters; one middleware and one advice of the class and of the method, which
  has no host or two, a request for either or for another.

### Fairness

Safety is checked and proved without fairness.  For liveness:

- **Agent run.** `WF(Worker)`, `WF(CancelContinues(c))`: a pending store call
  answers, timers fire, promises continue.  `WF(aborted /\ Executor)`: an executor
  that has been aborted yields, ends or throws at some time; of one that has not
  nothing is assumed.
- **Event stream.** `WF(Client(c))`: reads of the file go on, microtasks run.
  Nothing is assumed of the worker.  The release of a client that left assumes the
  heartbeat (`setInterval`) in its own statement, and only there, so that the rest
  cannot lean on it.
- **Thread store.** `WF(Step(o) \/ StorageThrows(o))`, `Settle`, `DrainAgain`:
  storage calls answer or throw.
- **Containers.** Hooks end or throw, microtasks run.  Tasks that do not hang end,
  and the timer fires.
- **MCP sessions.** Timers fire, the agent's messages arrive, a request that was
  forwarded is served or refused.  Nothing is assumed of clients.
- **Event bus.** A flow undoes its corks, contexts get ready or throw, handlers
  end.  The first is a matter of the application: events under a cork that is
  never undone stay queued, which is what a cork is for.
- **Fetch session.** `WF(Session)`: a method of the controller ends or times out
  (`invokeMethod` races it with a timer), the callback of `send` comes.  Nothing
  is assumed of the peer, nor of the stream a method answers with, which may
  never yield or end.

## 4. What is proved

For every value of the constants that satisfies the modules' assumptions (sets
of clients, calls, protos and tasks of any size, any bounds):

| module | theorems |
|---|---|
| `AgentRunProofs` | `TypeCorrect`, `CommitGate` (`ThreadUntouchedBeforeCommit`), `CompletedIsComplete` and `CancelAnswersTruly`, together `RecordIsTrue` (`RecordTellsTheTruth`), `TranscriptKept` (`TranscriptIsKept`), `CancelQuiesces` (`CancelledRunIsQuiet`), `RunLivesItsLifecycle` (the refinement of `RunLifecycle`, `RefinesLifecycle`), `ControllerServesAndReleases` (`ControllerOwnsRuntime`), `MessagesFaithful` (`MessagesAreFaithful`) |
| `ThreadStoreProofs` | `StoreTypes`, `FirstComeFirstServed` (`ServedInOrder`), `NoLeak`, `Tidy` (`ThreadIsTidy`), `Implements` and `NoUpdateIsLost` (the refinement of `ThreadObject`, `NoLostUpdate`), `RunsAreRecorded` (`RecordedBeforeDown`) |
| `ContainersProofs` | `ContainerTypes`, `SingleFlight` (`OneObjectPerScope`), `DependenciesFirst` (`InjectedFirst`), `SharedFate` (`FailureIsShared`), `CalmDestroy` (`CalmDestroyCollects`), with it `ObjectsAreFoundAndCollected` (`ObjectsAreAccountedFor`); `TaskTypes`, `EveryTaskIsWaitedFor` (`NoTaskIsForgotten`) |
| `SessionsProofs` | `SessionsAreWhole` (`SessionIsWhole`), `NothingGoesLost` (`NothingIsLostSilently`); `StreamTypes`, `ExactlyOnceInOrder` and `EventsArriveOnce` (`DeliveredInOrder`), `NothingMissedAtTheEnd` and `NoLostWakeUp`, together `NoneMissed` (`NothingIsMissed`); `BusTypes`, `BusInOrder` (`StartedInOrder`), `BusCorksHold` (`CorkHolds`) |
| `BootProofs` | `BootUndone` (`BootIsUndone`), `PropertiesObjects` (`PropertiesAreObjects`), `ModulesWhole` (`ModulesAreWhole`), `GraphForesees` (`GraphForeseesBoot`), `DeclaredHolds` (`DeclaredIsInjected`) |
| `PluginsProofs` | `ClientsHold` (`ClientsKeepTheTruth`), `OneOfEachHolds` (`OneOfEach`), `TraceIsOneTree` (`TraceIsWellFormed`), `HooksHold` (`HooksSeeTheWhole`), `TransactionsHold` (`TransactionsCoverTheirWrites`, a part of `DalKeepsItsWord`) |
| `ControllersProofs` | `HandlersHold` (`HandlersGetWhatTheyBind`), `AnswersHold` (`AnswersOnce`), `SessionsServe` (`SessionServesItsServer`), `EventsFail` (`EventsFailForACause`), `RoutesReached` (`RoutesAreReached`) |
| `OssAppend` | `Once` (`AppendedOnce`) |

`OssAppend` is instantiated where it is used, so its theorem has the assumption on
the constants as a hypothesis; `InstancesAssumption` gives it, and the run evaluates
it for its instance.  So it is with the lemmas about the other modules that a
composition instantiates.

The inductive invariants, and why the properties need them:

- **AgentRun.** `GateInv` adds to the gate that the forced flush is reached only
  when the executor ended by itself, and that the loop over the executor is not
  re-entered after that.  For the completed record, `CursorInv` says that what
  the flusher's cursor has passed is in the thread, and `SealInv` that a record
  that says completed, stored or held by an update in progress (whose write may
  come much later), exists only when the cursor has passed everything.
  `KeptInv` counts the copies of a line in the thread: no more than the faults so
  far while the cursor has not passed it, and one more when it has.
  `QuietInv` says that a `cancelRun` past its wait has seen the task end, and
  `GoneStays` that a task that ended does nothing.
  For the refinement, `LifeInv` says what the record says at each place of a worker
  that is its only writer: in progress until the first terminal write, and completed
  where the catch block can be entered after a write that failed and was stored, when
  the builder has completed and its `fail` throws before the store is asked.
- **AgentController.** `RoutesInv` says what decorating the class, and then the
  installation of the runtime, has left of each route (the class's own method, a
  stub, or the runtime's), `ObjectInv` what there is of the runtime and of its store
  by the status of the object, and `RunsInv` that `destroy` waits for those runs
  only that were going when it began.
- **AgentMessages.** The file is what it was when the run began, followed, once anything
  was flushed, by the lines of the input and of every durable message up to the
  flusher's cursor, which is then the end of what was accepted; and unless the run
  completed, it was flushed only because the session is committed (`FileInv`).  One
  flush adds the lines between (`Flushed`), whether it is the first, the last without a
  message, or that of one more message.  The usage is reported of the messages alone
  (`ResolvedIsReported`): the loop that keeps the last declared amount ends with the
  last (`LastDeclaredIs`), and the sum over the V1 messages is that over the results
  of all (`UsageOfV1`).
- **RunEventStream.** Where an event that a client has not got yet can be: in
  the part of the file its read has not handed over (`Reads`), in the queue of
  its listener once the second read met the end (`CatchesUp`), in the queue
  alone after that (`Drains`).  `Got` says that what was written is everything
  due up to `lastWrittenSeq`; `FileInv` that the file ascends and that `done`
  comes last.
- **ThreadStore.** The calls that asked for a key, in that order, are a history
  variable.  Each is chained to its neighbour, or came when all before it were
  through (`Chained`); so whoever is in or through has only finished calls
  before it (`InTurn`), and the map holds the last caller or nothing
  (`TailIsLast`).  With one call in the section, what it has read is still what
  the object holds (`Fresh`), hence its write is one step of `ThreadObject`.
  With that chain `LatestRunIsNewest` is inductive: the run a thread names is
  recorded by the last that wrote, and who writes next came later.
  `RecordsTracked` says that a run which has yet to record itself is in the set of
  pending records, so that the loop of `destroy`, which ends when it finds the set
  empty, has waited for it even when it came while another was awaited.
- **EggContainer.** A registered promise has one creator, whose captured map has
  no object yet (`Owners`, `OneOwner`); a waiter's map has none either while the
  promise is registered (`Waiters`) and has the awaited object afterwards
  (`Woken`); what a map holds never changes, so an answer stays what the map
  says (`Answered`); a failure in the first scope is a rejected promise that
  stays registered (`Failed`), which nobody can overtake.  For a calm destroy: an
  object that is under way has a creator that waits for it, one that is not is in a
  map (`Sourced`), so when nobody waits the maps hold everything that was built.
- **ContextObjects.** Who is asked to initialise an object, or has, holds the object
  (`HadInv`); a call that returns without initialising is for an object that another
  call has listed already (`FinishedInv`); and when the initialisation of an object is
  over, everything that is read through its getters has been given (`RecordedInv`),
  which is the closure that the property speaks of, one injection at a time.
  `PlaceInv` says which of these calls lie behind the request at each of its places.
- **BackgroundTask.** A task that runs is in the list, or the timeout has fired
  on it, or it came too late (`Listed`); after a race nothing of the waited-for
  front of the list is unaccounted for (`Settled`).
- **ModuleBoot.** What is registered of a run is held by it still, or the run failed on
  the way; runs follow one another; a singleton is registered with its unit and held
  by the run in hand.  So when a run has been destroyed, what is left is what nobody
  holds, and the standalone runner's is all there is of that.
- **EggProperties.** A value that was cached is a value, not the absence of one, and was
  given to whoever read it.
- **ModuleConfig.** The maps of paths and of names are each other's inverse, a name is a
  function of its paths, and what was read for a configuration of an egg application
  ends with the file of its environment.
- **Injection.** What is noted of a class is, at any time, what those of its decorators
  say that have been applied (`NotedInv`), whatever the order among members; so when
  all have, the constructor is called with one argument for each that injects and was
  found, and `Placing` says by counting that each comes where its index says, the place
  of the `ObjectInfo` skipped, which is then put there.
- **InjectGraph.** No two prototypes have one id; once the graph is built it has an edge
  for every inject that was wired, and modules are linked as their prototypes are; the
  order has each node once, after all that it points to.  The two searches are functions
  by depth, and a path without a loop has each node at most once, so as many steps as
  there are nodes are enough.  So whatever the next prototype was wired to is
  registered (`WiredBefore`); what the graph found with the qualifiers it added fits the
  ones the inject has (`FitsMore`), hence the builder finds it among what is registered
  (`FindInjectFinds`), and nothing besides where the context has one at most
  (`FindInjectOne`).
- **EventBus.** The corks held are pairs of a flow and a number, and the count of
  an id is how many pairs of its context there are (`Counted`); an id belongs to
  one context (`IdsAreOwn`), and nothing is queued under an id nobody has
  (`QueuesAreHeld`).  So the uncork that finds the count at one is the last, and a
  context without an id has no cork; what was emitted is what has started followed
  by the queue.
- **McpStream, McpSse.** By how far the registration of a session has come, who knows
  of it: the transport, its timer, the agent, the client of the proxy (`SessionInv`).
  A request that looks for the owner of its session is in another worker than the
  owner, or the session has gone (`RequestInv`): so a request refused means that the
  session ended or its worker died.  For SSE, what is kept when the
  opening is this far (`OpeningInv`), and that once it was dropped nobody waits and
  nobody can begin to (`ClearedInv`).
- **FetchSession.** The messages that wait are the last of those that came, up to the
  moment when the close is queued (`QueueInv`); what the session has of its
  socket and stream follows from where it is (`PlaceInv`); and the message in hand
  is the one after those that were given, unless one was discarded, after which none
  is given (`GivenInv`).
- **OssAppend.** An append that is under way is not in the object, and one that
  retries goes for a length no less than that at its call (`AppendInv`).
- **DnsCache.** The two generations of the cache hold entries of their hosts only, and
  within their sizes (`GenerationInv`), whatever a lookup in progress found; an entry's
  addresses before its index have been used once more than the others (`DnsInv`),
  which is what its share being fair takes.
- **Orm, Schedules.** The realm that was given out for a database is the one it has,
  each model is registered with the realm of its database, and that one was
  connected (`RealmInv`).  A path has the task of a class in its file, of one that is
  tracked, and a closed worker has none (`ScheduleInv`).
- **ClaudeTrace.** What waits for a result is what was started and has not ended, and
  nothing else (`LogInv`), so the end of the root is the end of all; children are
  in the order of their runs (`ChildrenInv`).  What is ordered by counting, the runs
  of a map and the advices of a class, has each element once by `Ranking`: in a finite
  set that is strictly ordered every number below the size is the rank of one element.
- **Aop.** Advices are registered for the load units that are up, and no load unit
  comes before one that it needs, so a class whose unit is up finds every crosscut
  advice that may be about it (`WeavingInv`).  Of a call, how far each phase has come
  says who has heard what (`PhaseInv`, `CalledInv`), and the arguments are those of
  the last `beforeCall` that replaced them (`ArgsInv`).
- **DalSource.** A client has one of the configurations that have its key
  (`ClientsInv`), what is indexed is the key of the module's own source, and a module
  whose hook ran has its sources indexed and, once its prototypes are there, connected
  (`WiredInv`); so a delegate and a transaction of one source have one client.
- **LangGraph.** A tool is in its node, and a node or an edge in its graph, as soon as
  both are there and not before, once; what a graph has not got it waits for
  (`InjectInv`); so a graph that is compiled was compiled with all that it names
  (`CompiledInv`).  A config that only one call uses is as that call left it
  (`CallsInv`).  The assumption says that classes and refs of different kinds are
  different: a ref has its kind in its name and a class has one decorator.  It also
  says that an application where a node names a server has the plugin that makes
  clients of servers.
- **ControllerMeta.** A map of a class that was made points to inner maps of its own
  key and method, though of whichever class made them first (`MapsInv`), so what a
  method of a subclass writes into its parent's map is of the right kind.  A method
  that was built binds its parameters without a gap (`BuiltInv`): the check compares
  numbers only, and where as many are bound as the last of them says, `NoGap` finds
  every one below it by counting.
- **McpServer.** Each server has the classes of its name that were created, each once,
  and the metadata of a class is what its builder makes of it; a call is of an item
  that some builder made, and of its parameters each is for one thing, which is what
  lets a place be filled by one argument; the paths of a server only become more, and
  are exempt from the moment that they are there.
- **Routes.** While nothing of a kind was checked its routers of checked routes are
  empty, and what a check says depends on the entries of its own kind alone: so a
  failed event means that a registration failed, or that the same check from nothing
  would (`CauseInv`).  Of routes that are registered, those of WebSocket at one host are
  pairwise apart; the router is egg's layers and then each HTTP method's, once and in
  falling priority; and the manager of root prototypes has the same layers, by verb and
  host (`ReachInv`).  That a literal comes before a parameter is about the priorities of
  paths: the controllers of the composition have paths of one segment, and
  `PathPriority` bounds the sum for up to ten.
- **HttpRequest.** On its way in a request has entered the layers before its own up to
  their handlers, its own as far as it is inside, and none behind it (`Inward`), so the
  method, which runs at the end of the innermost (`RunsInside`), runs inside the whole;
  `ChainFacts` has the order of a chain on either host.  What the method returned is
  the body only when it is over, was let through, and the handler has been left
  (`FromMethod`); on the way out an error takes the place of what was returned, and a
  body that is something else was written by a middleware (`Outward`).
  The assumption names what wraps a method by its use, so a middleware that a class
  uses twice is two elements of the sequence.

Induction over data.  The library's induction theorems take an operator as a
parameter, and the prover cannot instantiate those.  Where an induction over numbers is
needed, it is by the least counterexample: `LeastOf` says that a set
of naturals that is not empty has a least element, by `WFMin` and
`NatLessThanWellFounded`, and `Climb` that a set with 0 and with the next of each has
all.  What a recursive function computes is the same in four steps: `Recursion` says
that a function is there which takes these steps, so the one that the definition
chooses takes them, and `Climb` says of it what holds of each step.  In this way
the parts of a sequence (`Within`), its sums, sorts and searches are proved about in
`AgentRunProofs`, `BootProofs` and `ControllersProofs`, for sequences of any length.

Only model-checked:

- Liveness, and whatever needs `ENABLED` (`RunsSettle`, `WaitsEnd`,
  `PeersAreReleased`), because the prover has no rule for it.
- `DalKeepsItsWord` as a whole: rows, statements and their minified form are folds over
  texts, of which the prover has no facts.  Its part about transactions is proved.

## 5. Findings

Four runs show the code do something other than what its text says.

1. `run_terminal_final`, `TerminalIsFinal`.  `cancelRun` reads the status, finds
   it not terminal, and then awaits `updateRun(cancelling)`, itself a read and a
   write (`core/agent-runtime/src/AgentRuntime.ts:1060-1066`).  A run that
   completes in between goes completed, cancelling, cancelled.  The test
   `AgentRuntime.test.ts:1242` says "should not overwrite terminal state when run
   completes during cancellation (TOCTOU)", but the second check it covers
   (1106-1109) comes after the write.  The worker's own `completed` may in the
   same way overwrite the cancelling or cancelled another process has written
   since line 406.
2. `run_failed_completion`, `FailedCompletionIsMarked`.  `rb.complete()` moves
   the builder to completed before the store write it is the argument of.  When
   that write fails, `rb.fail()` in the catch block throws, the error is logged,
   and the record stays `in_progress` for ever.
3. `stream_replay`, `ReplayedSawEverything`.  A replay that met the end of the
   file just before the last events were appended, and finds the run over when
   it has handed over its lines, ends the stream without them
   (`AgentRuntime.ts:972`).
4. `next_run_boots`, `NextRunBoots`.  `StandaloneLoadUnit.destroy` iterates the
   array that `deletePrototype` splices (`StandaloneLoadUnit.ts:69-73`), skips
   every second of the objects of one name, and the next `main()` of the process
   finds two.  `AppLoadUnit.ts:87-88` copies the array, and says why.

Eleven more are definitions of their modules that say what a comment, a document
or a test says; each is refuted when it is added as an invariant (or an action
property) to the configuration of the run named.

| definition | run | what the code does |
|---|---|---|
| `ControllerMeta!ParentIsLeftAlone` | `controllers` | a subclass that decorates a method of the same name writes into its parent's map (`MetadataUtil.ts:83`) |
| `McpSse!ClosedIsCleanedUp` | `sessions` | a peer that leaves before the tools are registered keeps its transport for good (`MCPControllerRegister.ts:513`) |
| `DnsCache!EachUsesTheNext` | `plugins` | a refresh starts the rotation from 0 again (`DnsResolver.ts:247`) |
| `InjectGraph!WiredAsAsked` | `boot` | the qualifier added to choose among several replaces the one asked for (`GlobalGraph.ts:174`) |
| `Injection!OptionalIsUndefined` | `boot` | the parameter of a missing optional object gets the next one's (`EggPrototypeBuilder.ts:148`) |
| `ModuleConfig!RunnerConfigIsOfItsEnv` | `boot` | `configNames` is static and set by the first: a runner beside an egg application, or beside another runner that is not destroyed yet, reads that one's environment (`Runner.ts:115`) |
| `AgentController!DestroyedIsQuiet` | `agent_safety` | a run begun while the runtime is destroyed goes on against destroyed objects (`AgentControllerObject.ts:170`) |
| `LangGraph!CheckpointIsInjected` | `plugins` | a saver created after its graph is never injected (`GraphPrototypeHook.ts:213`) |
| `Aop!WhoEnteredLeaves` | `plugins` | when the second `beforeCall` throws the first advice hears no end (`AspectExecutor.ts:28`) |
| `DalTable!DeclaredTypeIsCreated` | `plugins`, with a table of a DECIMAL column without a length | the column is created as TINYINT (`SqlGenerator.ts:112`) |
| `DalSource!OnlySourceServesItsTables` | `plugins`, with a module whose only source is `foo` | its tables ask for `default` (`TableModel.ts:104`) |

Of lesser weight, and met while modelling; the modules behave so:

- *Objects and boot.* A failing boot leaves its instances, and `destroy` stops at
  the first that throws (`ModuleHandler.ts:53`).  `ControllerLoadUnitHandler`
  destroys the unit before its instance.  `Runner` keeps its
  `ConfigSourceLoadUnitHook`, and `main.ts` does not await `destroy()`, though the
  standalone README says a run is destroyed when it is over.  The graph and the
  builder may prefer different prototypes of a name: one of the init type CONTEXT that
  is public, say, and the SINGLETON of the own module; of two of the context the builder
  says there are several where the graph had chosen one.  `README.md:203-204` says
  `getObjects` is called once; it is called for each module
  (`PrototypeUtil.ts:167-211`).  `README.md:641` says app comes first where
  `EggQualifierProtoHook.ts:36-39` says context.  A second `beginModuleScope` on a
  context skips its init.  An advice of init type CONTEXT in a SINGLETON that
  injects by constructor is the first context's for good
  (`EggObjectAopHook.ts:17-34`).  A store opened by an `AgentController` that then
  fails before it has a runtime is never destroyed.
- *Controllers.* HTTP methods without hosts are never checked against each other.
  A first event whose registration of MCP routes failed makes every later one
  conflict (`FetchEventHandler.ts:31-44`).  Middlewares and access control run once
  per layer a host matches.  A host matches with its port for HTTP and without for
  WebSocket.  Egg puts a method's advices outermost, the service worker those of
  the class; the worker ignores timeouts and `@Acl`, and answers an empty result
  with 204 whatever status was set.  Two `@HTTPBody` read the body twice.  A tool of one
  name in two controllers makes every session of the server throw; middlewares and
  `@Acl` of an MCP class are ignored by egg's register; `csrf.ignore` that is no
  array is dropped (`app.ts:107-119`).
- *Sessions.* The ping interval of a session that closes while it registers is never
  cleared.  A JSON-RPC id that is used twice forgets the first message.
- *Plugins.* A table without a key updates and deletes with an empty WHERE.
  `minify` mistakes a comment line without text, `**/`, a leading hint, and a line
  comment right behind a lone `-` or `/`.  Inserting null into a nullable spatial
  column throws, where any other column is stored as NULL (`TemplateUtil.ts:46-47`).
  A module gets the client that another one connected for the same key, with the
  other's values where they differ in a nested object or in a value that is false, 0
  or empty (`MysqlDataSourceManager.ts:49-61`; `DalSource!OwnSource`, refuted in
  `plugins`).  `MysqlDataSourceManager.clear` keeps `dataSources`.  `Orm.getClient` after the boot
  makes a realm that is never connected (`SingletonORM.ts:22-28`).  Schedules in one
  file share a key.  Traced graphs share one tracer and its name, and a traced call
  writes into the config object of its caller.

## 6. What is not modelled

Of the modelled components:

- *Agents:* the status `expired`, which no code sets; what comes before a run's
  task starts (`createRun`, `ensureThread`); the content of messages; lines of the
  event file that are read half-written; several processes that write one thread
  (`OssAppend` has the append alone); the throttle of the activity index and its
  rollback; an event that cannot be pushed and ends a streamed run in its catch block,
  which `RunEventStream` has and `AgentRun` has not; `put`, `get` and `list` of the OSS client, one request each; the
  conversion of the LangGraph tracer and uploads.
- *Objects and boot:* the registry of egg objects by id, always-new objects, a
  context opened twice, `ModuleGraph` and `AppGraph`, which `GlobalGraph` has
  superseded; dump files; what configuration files say, and who reads them after the
  names were taken back (`plugin/dal/lib/DataSource.ts:31`, the chat models of
  langchain, the MCP clients); a pointcut of an advice that the graph does not find,
  which is skipped (`Aop` has all advices public); prototypes of one name in
  a module (`ContextObjects` has names apart, as `protoToCreate` wants them); class decorators that note
  one value.
- *Sessions:* `SingletonEventBus.emit` without a context; `@WebSocket` controllers
  that pipe a duplex stream; the stream that a WebSocket method answers with after
  it has timed out; event stores that resume an MCP session.
- *Controllers:* regular expressions of paths beyond covering and equality;
  conversions of parameters and answers; schemas of tools.
- *Plugins:* templates, spatial values and the text of generated DAOs; nested
  transactions, which are `@eggjs/rds`'s; what leoric does with a model; cron
  expressions; literal addresses and a callback called twice in the DNS cache; the
  execution of a language graph; patterns of crosscuts.

Whole components, with the reason: the decorators and the egg plugin of the event
bus register handlers at boot, one assignment each; MCP clients connect a client of
the MCP SDK; dynamic injection is a look-up that ends in `getOrCreateEggObject`;
the loader finds and requires files, which is I/O; validation compiles and calls
ajv, which is pure; types, one-line decorators and helpers of tests have no
behaviour.

External, modelled by how the code uses it: the executor of a run (any messages,
then an end or an error), the death of a process, the object store (a call works
or throws, perhaps after it took effect), the peer of a socket, the agent process's
messenger, DNS, the database (rows, by what the statements ask), koa's router and
`egg-schedule`.

## 7. Plan

Done: the agent run, its stream, messages, controller object and store; containers,
context objects, background tasks; modules, graph, boot and shutdown; bus and
sessions; controllers from decorators to answers; the plugins.

Proved: every safety property of the agent run and its messages, of the thread store,
of the containers, the sessions, the controllers and the boot, and every one of the
plugins but the part of `DalKeepsItsWord` about rows and statements.

Next, the most important first:

1. `RoutesAreReached` for paths of more than one segment, where a literal and a
   parameter in different places have to be compared.
2. `ContextObjects` with the maps of `EggContainer` in place of its four states, as
   a refinement.
3. `@WebSocket` controllers over a duplex stream; a method's answer after its
   timeout.
4. The throttle of the activity index, and threads written by two processes through
   `OssAppend`.
