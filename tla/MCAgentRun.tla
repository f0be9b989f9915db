----------------------------- MODULE MCAgentRun -----------------------------
(* An agent run for TLC: a behaviour is one of a run and its cancelRun calls, *)
(* one of the messages of the runs of a thread, or one of the controller      *)
(* object that owns the runtime.                                              *)
EXTENDS AgentRun

CONSTANTS Parts,                         \* what behaviours may be about
          None, MaxYields, MaxRuns,      \* of the messages
          Runs, Versions, MaxThrows      \* of the controller

VARIABLES
  part,
  file, phase, input, inputWritten, accepted, sessionCommitted, flushed, isResume, usage,
  before, runs,
  defined, version, routes, creators, proto, own, at, status, store, runtime, run, waited,
  throws
messageVars == <<file, phase, input, inputWritten, accepted, sessionCommitted, flushed,
                 isResume, usage, before, runs>>
controllerVars == <<defined, version, routes, creators, proto, own, at, status, store,
                    runtime, run, waited, throws>>

V1(type, marked, reports) ==
  [protocol |-> "v1", shape |-> [type |-> type, marked |-> marked, usage |-> reports]]
V2(type, reports, durable, conversational, commits, declares) ==
  [protocol |-> "v2", shape |-> [type |-> type, marked |-> FALSE, usage |-> reports],
   envelope |-> [durable |-> durable, conversational |-> conversational,
                 committed |-> commits, declares |-> declares]]
Yielded ==
  {V1("assistant", FALSE, 0), V1("assistant", TRUE, 0), V1("system", FALSE, 0),
   V1("thinking_tokens", FALSE, 0), V1("stream_event", FALSE, 0), V1("result", FALSE, 1),
   V1("result", FALSE, 2),
   V2("assistant", 0, TRUE, FALSE, FALSE, 0), V2("tool", 0, TRUE, TRUE, TRUE, 0),
   V2("result", 5, FALSE, TRUE, FALSE, 0), V2("result", 5, TRUE, FALSE, TRUE, 7),
   V2("text", 0, TRUE, TRUE, FALSE, 8)}
Asked == {<<"user">>, <<"system">>, <<"system", "user">>}

Lifecycle == INSTANCE RunLifecycle WITH run <- rec
M == INSTANCE AgentMessages WITH
       Messages <- Yielded, Inputs <- Asked,
       inputFlushed <- inputWritten, normalized <- accepted, committed <- sessionCommitted
Object == INSTANCE AgentController

\* The assumptions of the instances.
ASSUME InstancesAssumption == M!MessageAssumption /\ Object!AgentControllerAssumption

MCInit ==
  /\ part \in Parts
  /\ kind \in IF part = "run" THEN RunKinds ELSE {CHOOSE k \in RunKinds : TRUE}
  /\ defined \in IF part = "controller" THEN SUBSET Object!Routes ELSE {{}}
  /\ Init /\ M!Init /\ Object!Init
MCNext ==
  /\ UNCHANGED part
  /\ \/ part = "run" /\ Next /\ UNCHANGED <<messageVars, controllerVars>>
     \/ part = "messages" /\ M!Next /\ UNCHANGED <<vars, controllerVars>>
     \/ part = "controller" /\ Object!Next /\ UNCHANGED <<vars, messageVars>>
     \* Threads and objects may come to rest; a run may not get stuck.
     \/ part # "run" /\ UNCHANGED <<vars, messageVars, controllerVars>>
MCSpec == MCInit /\ [][MCNext]_<<part, vars, messageVars, controllerVars>>
\* For a Parts of "run" alone.
MCFairSpec == MCSpec /\ Fairness

-----------------------------------------------------------------------------
(* Properties *)

\* Until somebody calls cancelRun the stored record moves as RunBuilder allows,
\* whatever the worker, the store, an abort and a crash do.
RefinesLifecycle ==
  /\ Lifecycle!Init
  /\ [][(\A c \in Cancellers : cpc'[c] = "idle") => [Lifecycle!Next]_rec]_vars

\* What executors yield in either protocol ends in the thread as declared, a run
\* is told to resume exactly when the thread shows a conversation, and a
\* completed run reports the usage its result gave (AgentMessages).
MessagesAreFaithful ==
  M!ThreadIsFaithful /\ M!ResumesWhatIsShown /\ M!UsageIsReported

\* A controller object that is ready serves every route through its own
\* runtime, and one that is gone, or failed to get ready with a runtime, left
\* neither runtime nor store behind (AgentController).
ControllerOwnsRuntime == Object!RoutesAreServed /\ Object!RuntimeIsReleased

\* Every cancelRun ends, even when the executor never commits; a task that was
\* aborted ends; and, when no store call fails, the record of a run that ended
\* settles on a terminal status: nobody leaves it to somebody who will not do it.
RunsSettle == CancelReturns /\ AbortEndsTask /\ EndedRunSettles

\* The premise of destroy's comment: see AgentController.
DestroyedIsQuiet == Object!DestroyedIsQuiet
=============================================================================
