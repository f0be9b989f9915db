------------------------------ MODULE Schedules ------------------------------
(***************************************************************************)
(* The schedule plugin: the agent registers the classes that the loader    *)
(* finds in each module, a worker those of the load units it creates; both *)
(* under the path of the file.  The agent's strategy fires a path in a     *)
(* worker, whose task runs in a context of its own.  (plugin/schedule;     *)
(* registerSchedule and the firing are egg-schedule's.)                    *)
(***************************************************************************)
EXTENDS Naturals

CONSTANTS
  Classes, Paths,
  File,         \* of a class: its path
  Disabled,     \* the classes scheduled with disable
  MaxFires,     \* bound: ticks
  None

ScheduleAssumption ==
  /\ File \in [Classes -> Paths] /\ Disabled \subseteq Classes /\ None \notin Classes
  /\ MaxFires \in Nat

VARIABLES
  agent,        \* of a path: the class whose strategy ticks for it
  worker,       \* of a path: the class whose task the worker has, or None
  made,         \* the classes whose prototypes the worker has registered
  tracked,      \* ScheduleManager.registeredSchedules: the paths
  closed,
  fired,        \* ticks so far
  tasks         \* the tasks of the ticks: what ticked, what is called, whether its
                \* subscriber runs, and whether the worker was closed when it began

vars == <<agent, worker, made, tracked, closed, fired, tasks>>

\* configDidLoad of the agent, which is up before a worker starts: in each file the
\* class that the loader finds last.
AgentRegistered == {f \in [Paths -> Classes] : \A p \in Paths : File[f[p]] = p}

Init ==
  /\ agent \in AgentRegistered /\ worker = [p \in Paths |-> None]
  /\ made = {} /\ tracked = {} /\ closed = FALSE /\ fired = 0 /\ tasks = {}

\* Mutation: the key is not kept.
Tracked_Bug(p) == tracked

\* ScheduleManager.register keeps the key for the close.
Tracked(p) == tracked \cup {p}

\* A prototype of a load unit that was created: under the path the decorator noted.
WorkerRegister(c) ==
  /\ c \notin made /\ ~closed
  /\ made' = made \cup {c}
  /\ worker' = [worker EXCEPT ![File[c]] = c] /\ tracked' = Tracked(File[c])
  /\ UNCHANGED <<agent, closed, fired, tasks>>

\* ScheduleManager.unregister: by the path, whoever registered under it.
Unregister(c) ==
  /\ File[c] \in tracked
  /\ worker' = [worker EXCEPT ![File[c]] = None] /\ tracked' = tracked \ {File[c]}
  /\ UNCHANGED <<agent, made, closed, fired, tasks>>

\* beforeClose: every key that is tracked.
UnregisterAll ==
  /\ ~closed /\ closed' = TRUE
  /\ worker' = [p \in Paths |-> IF p \in tracked THEN None ELSE worker[p]]
  /\ tracked' = {}
  /\ UNCHANGED <<agent, made, fired, tasks>>

\* A tick of the agent reaches the worker; a task that is disabled returns before it
\* gets its object.
Fire(p) ==
  /\ worker[p] # None /\ fired < MaxFires
  /\ fired' = fired + 1
  /\ tasks' = tasks \cup {[ticked |-> agent[p], called |-> worker[p],
                           runs |-> worker[p] \notin Disabled, late |-> closed]}
  /\ UNCHANGED <<agent, worker, made, tracked, closed>>

Next ==
  \/ \E c \in Classes : WorkerRegister(c) \/ Unregister(c)
  \/ UnregisterAll
  \/ \E p \in Paths : Fire(p)

Spec == Init /\ [][Next]_vars

-----------------------------------------------------------------------------
(* Properties *)

Alone(c) == \A d \in Classes \ {c} : File[d] # File[c]

\* A class that has its file for itself is what its tick calls, it does not run when
\* it is disabled, and no task begins once the worker has unregistered them.
TicksCallTheirClass ==
  \A t \in tasks :
    /\ Alone(t.called) => t.ticked = t.called
    /\ t.runs => t.called \notin Disabled
    /\ ~t.late

\* Any class that was registered is what its tick calls.
EveryTickIsItsOwn == \A t \in tasks : t.ticked = t.called
=============================================================================
