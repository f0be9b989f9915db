------------------------------- MODULE EventBus -------------------------------
(***************************************************************************)
(* SingletonEventBus behind the ContextEventBus of each request context.   *)
(*                                                                         *)
(* The flows of a request (the branches of a Promise.all, say) share the   *)
(* bus of their context.  While one of them has corked it the events of    *)
(* all of them are queued; the last uncork emits them.  An event is        *)
(* handled in a context of its own by all its handlers at once, and when   *)
(* all are done that context is destroyed and those who await the event    *)
(* are woken.                                                              *)
(***************************************************************************)
EXTENDS Naturals, Sequences

CONSTANTS
  Contexts, Flows, ContextOf,     \* request contexts and their async flows
  Emissions, FlowOf, EventOf,     \* who emits, and which event
  Events, Handlers, HandlersOf,   \* handlerProtoMap
  Waiters, WaitsFor,              \* await, awaitFirst: the events waited for
  MaxCorks,                       \* bound on the calls of cork by one flow
  MaxIds,                         \* bound on corkIdSequence
  MaxFaults                       \* bound on the contexts whose init throws

BusAssumption ==
  /\ ContextOf \in [Flows -> Contexts]
  /\ FlowOf \in [Emissions -> Flows] /\ EventOf \in [Emissions -> Events]
  /\ HandlersOf \in [Events -> SUBSET Handlers]
  /\ WaitsFor \in [Waiters -> SUBSET Events]
  /\ MaxCorks \in Nat /\ MaxIds \in Nat /\ MaxFaults \in Nat

VARIABLES
  sequence,      \* corkIdSequence
  corkId,        \* of a context: CORK_ID, 0 when it is not set
  times, queue,  \* corkedEvents: of a cork id
  depth, corks,  \* of a flow: the corks it has not undone, and all it made
  state,         \* of an emission: idle, queued, started, handling, over, lost
  running,       \* of an emission: the handlers that have not ended
  waiter,        \* idle, waiting, woken
  emitted, started,  \* history: the emissions of a context, and the doEmits
  faults

corkVars == <<sequence, corkId, times, queue, depth, corks>>
vars == <<corkVars, state, running, waiter, emitted, started, faults>>

Ids == 1 .. MaxIds
ContextOfEmission(e) == ContextOf[FlowOf[e]]

Init ==
  /\ sequence = 0
  /\ corkId = [c \in Contexts |-> 0]
  /\ times = [i \in Ids |-> 0] /\ queue = [i \in Ids |-> <<>>]
  /\ depth = [f \in Flows |-> 0] /\ corks = [f \in Flows |-> 0]
  /\ state = [e \in Emissions |-> "idle"]
  /\ running = [e \in Emissions |-> {}]
  /\ waiter = [w \in Waiters |-> "idle"]
  /\ emitted = [c \in Contexts |-> <<>>] /\ started = [c \in Contexts |-> <<>>]
  /\ faults = 0

-----------------------------------------------------------------------------
(* cork and uncork *)

\* The first cork of a context takes an id; the others count.
Cork(f) ==
  LET c == ContextOf[f] IN
  /\ corks[f] < MaxCorks
  /\ corks' = [corks EXCEPT ![f] = @ + 1] /\ depth' = [depth EXCEPT ![f] = @ + 1]
  /\ IF corkId[c] = 0
     THEN /\ sequence < MaxIds
          /\ sequence' = sequence + 1
          /\ corkId' = [corkId EXCEPT ![c] = sequence']
          /\ times' = [times EXCEPT ![sequence'] = @ + 1]
     ELSE /\ times' = [times EXCEPT ![corkId[c]] = @ + 1]
          /\ UNCHANGED <<sequence, corkId>>
  /\ UNCHANGED <<queue, state, running, waiter, emitted, started, faults>>

\* Mutation: any uncork emits what is queued.
Last_Bug(id) == TRUE

Last(id) == times[id] = 1

\* The last uncork emits what is queued, in order, and forgets the id.
Uncork(f) ==
  LET c == ContextOf[f]  id == corkId[c] IN
  /\ depth[f] > 0 /\ id # 0
  /\ depth' = [depth EXCEPT ![f] = @ - 1]
  /\ times' = [times EXCEPT ![id] = @ - 1]
  /\ IF Last(id)
     THEN /\ state' = [e \in Emissions |->
                         IF \E i \in DOMAIN queue[id] : queue[id][i] = e THEN "started" ELSE state[e]]
          /\ started' = [started EXCEPT ![c] = @ \o queue[id]]
          /\ queue' = [queue EXCEPT ![id] = <<>>]
          /\ corkId' = [corkId EXCEPT ![c] = 0]
     ELSE UNCHANGED <<state, started, queue, corkId>>
  /\ UNCHANGED <<sequence, corks, running, waiter, emitted, faults>>

-----------------------------------------------------------------------------
(* emit *)

\* Mutation: a flow that has not corked emits past the queue.
Emit_Bug(e) ==
  LET c == ContextOfEmission(e)  id == corkId[c] IN
  /\ state[e] = "idle"
  /\ emitted' = [emitted EXCEPT ![c] = Append(@, e)]
  /\ IF id # 0 /\ depth[FlowOf[e]] > 0
     THEN /\ state' = [state EXCEPT ![e] = "queued"]
          /\ queue' = [queue EXCEPT ![id] = Append(@, e)]
          /\ UNCHANGED started
     ELSE /\ state' = [state EXCEPT ![e] = "started"]
          /\ started' = [started EXCEPT ![c] = Append(@, e)]
          /\ UNCHANGED queue
  /\ UNCHANGED <<sequence, corkId, times, depth, corks, running, waiter, faults>>

\* emitWithContext: queued while the context is corked, else doEmit.
Emit(e) ==
  LET c == ContextOfEmission(e)  id == corkId[c] IN
  /\ state[e] = "idle"
  /\ emitted' = [emitted EXCEPT ![c] = Append(@, e)]
  /\ IF id # 0
     THEN /\ state' = [state EXCEPT ![e] = "queued"]
          /\ queue' = [queue EXCEPT ![id] = Append(@, e)]
          /\ UNCHANGED started
     ELSE /\ state' = [state EXCEPT ![e] = "started"]
          /\ started' = [started EXCEPT ![c] = Append(@, e)]
          /\ UNCHANGED queue
  /\ UNCHANGED <<sequence, corkId, times, depth, corks, running, waiter, faults>>

-----------------------------------------------------------------------------
(* doEmit *)

\* The context of the event is ready: every handler is called.
Handle(e) ==
  /\ state[e] = "started"
  /\ state' = [state EXCEPT ![e] = "handling"]
  /\ running' = [running EXCEPT ![e] = HandlersOf[EventOf[e]]]
  /\ UNCHANGED <<corkVars, waiter, emitted, started, faults>>

\* Its init throws, outside the try: nothing catches it, nobody is told.
InitThrows(e) ==
  /\ state[e] = "started"
  /\ faults < MaxFaults /\ faults' = faults + 1
  /\ state' = [state EXCEPT ![e] = "lost"]
  /\ UNCHANGED <<corkVars, running, waiter, emitted, started>>

\* A handler returns, or throws and is logged.
HandlerEnds(e, h) ==
  /\ h \in running[e]
  /\ running' = [running EXCEPT ![e] = @ \ {h}]
  /\ UNCHANGED <<corkVars, state, waiter, emitted, started, faults>>

Wakes(w, e) == waiter[w] = "waiting" /\ EventOf[e] \in WaitsFor[w]

\* All handlers are done: destroy is called on the context and not awaited,
\* and the waiters are woken.
Settle(e) ==
  /\ state[e] = "handling" /\ running[e] = {}
  /\ state' = [state EXCEPT ![e] = "over"]
  /\ waiter' = [w \in Waiters |-> IF Wakes(w, e) THEN "woken" ELSE waiter[w]]
  /\ UNCHANGED <<corkVars, running, emitted, started, faults>>

\* await, awaitFirst.
Await(w) ==
  /\ waiter[w] = "idle"
  /\ waiter' = [waiter EXCEPT ![w] = "waiting"]
  /\ UNCHANGED <<corkVars, state, running, emitted, started, faults>>

Next ==
  \/ \E f \in Flows : Cork(f) \/ Uncork(f)
  \/ \E e \in Emissions : Emit(e) \/ Handle(e) \/ InitThrows(e) \/ Settle(e)
  \/ \E e \in Emissions, h \in Handlers : HandlerEnds(e, h)
  \/ \E w \in Waiters : Await(w)

Spec == Init /\ [][Next]_vars

\* A flow undoes its corks; contexts get ready, handlers end.
Fairness ==
  /\ \A f \in Flows : WF_vars(Uncork(f))
  /\ \A e \in Emissions : WF_vars(Handle(e) \/ InitThrows(e)) /\ WF_vars(Settle(e))
  /\ \A e \in Emissions, h \in Handlers : WF_vars(HandlerEnds(e, h))
FairSpec == Spec /\ Fairness

-----------------------------------------------------------------------------
(* Properties *)

\* Types; the ids that count corks are those the contexts hold; no handler
\* outlives the context of its event (doEmit: "should wait all handlers done
\* then destroy ctx").
TypeOK ==
  /\ sequence \in 0 .. MaxIds /\ corkId \in [Contexts -> 0 .. MaxIds]
  /\ \A i \in Ids : times[i] > 0 <=> \E c \in Contexts : corkId[c] = i
  /\ times \in [Ids -> Nat] /\ queue \in [Ids -> Seq(Emissions)]
  /\ depth \in [Flows -> 0 .. MaxCorks] /\ corks \in [Flows -> 0 .. MaxCorks]
  /\ state \in [Emissions -> {"idle", "queued", "started", "handling", "over", "lost"}]
  /\ running \in [Emissions -> SUBSET Handlers]
  /\ \A e \in Emissions : state[e] = "over" => running[e] = {}
  /\ waiter \in [Waiters -> {"idle", "waiting", "woken"}]
  /\ emitted \in [Contexts -> Seq(Emissions)] /\ started \in [Contexts -> Seq(Emissions)]
  /\ faults \in 0 .. MaxFaults

Queued(c) == IF corkId[c] = 0 THEN <<>> ELSE queue[corkId[c]]

\* What the flows of a context emit starts in the order they emitted it, once
\* and without a gap, whichever of them corks and uncorks in between.
StartedInOrder == \A c \in Contexts : emitted[c] = started[c] \o Queued(c)

\* While a flow of the context holds a cork no event of the context starts,
\* the events of the other flows included (cork, uncork, emitWithContext).
CorkHolds ==
  [][\A c \in Contexts : started'[c] # started[c] =>
       \A f \in Flows : ContextOf[f] = c => depth'[f] = 0]_vars

\* Every event that was emitted is handled, unless its context fails to init.
NoEventIsLeft == \A e \in Emissions : state[e] \in {"idle", "over", "lost"}
EmittedIsHandled == []<>NoEventIsLeft

\* No event that is waited for goes by: whoever waits while one is on its way is
\* woken when it is over, unless it is lost.
WaiterIsWoken ==
  [][\A w \in Waiters, e \in Emissions :
       /\ waiter[w] = "waiting" /\ EventOf[e] \in WaitsFor[w]
       /\ state[e] \in {"queued", "started", "handling"} /\ state'[e] = "over"
       => waiter'[w] = "woken"]_vars
=============================================================================
