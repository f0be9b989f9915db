---------------------------- MODULE BackgroundTask ----------------------------
(***************************************************************************)
(* BackgroundTaskHelper: tasks a request leaves running, and the wait for  *)
(* them when the request's context is about to be destroyed.               *)
(*                                                                         *)
(* run keeps a promise per task, which resolves however the task ends.     *)
(* doPreDestroy waits for the promises there are, but not longer than the  *)
(* timeout; when tasks have run further tasks meanwhile it starts over     *)
(* with those.                                                             *)
(***************************************************************************)
EXTENDS Naturals, Sequences

CONSTANTS
  Tasks,
  TimeoutKinds   \* is there a timeout: neither <= 0 nor Infinity?

ASSUME TimeoutAssumption == TimeoutKinds \subseteq BOOLEAN

VARIABLES
  hasTimeout,
  state,         \* of a task: new, running, done
  hung,          \* the tasks that never end by themselves
  list,          \* backgroundTasks
  waits,         \* the slice that Promise.all waits for
  pre,           \* doPreDestroy: no, racing, raced, done
  gaveUp,        \* history: tasks the timeout fired on
  late           \* history: tasks run after doPreDestroy was over

taskVars == <<hasTimeout, state, hung, list, waits, pre, gaveUp, late>>

Elements(s) == {s[i] : i \in DOMAIN s}
Done(s) == \A t \in Elements(s) : state[t] = "done"

TaskInit ==
  /\ hasTimeout \in TimeoutKinds
  /\ state = [t \in Tasks |-> "new"]
  /\ hung \in SUBSET Tasks
  /\ list = <<>> /\ waits = <<>>
  /\ pre = "no"
  /\ gaveUp = {} /\ late = {}

-----------------------------------------------------------------------------
\* run is called by the request, or by a task that is running.
MayRun == pre = "no" \/ \E t \in Tasks : state[t] = "running"

\* fn is called; when it throws at once its promise is resolved already.
Run(t) ==
  /\ MayRun /\ state[t] = "new"
  /\ \E s \in {"running", "done"} : state' = [state EXCEPT ![t] = s]
  /\ list' = Append(list, t)
  /\ late' = IF pre = "done" THEN late \cup {t} ELSE late
  /\ UNCHANGED <<hasTimeout, hung, waits, pre, gaveUp>>

\* fn resolves or rejects.
End(t) ==
  /\ state[t] = "running" /\ t \notin hung
  /\ state' = [state EXCEPT ![t] = "done"]
  /\ UNCHANGED <<hasTimeout, hung, list, waits, pre, gaveUp, late>>

-----------------------------------------------------------------------------
(* doPreDestroy *)

\* The quick quit, or the race for the tasks there are.
Race(l) ==
  /\ pre' = IF l = <<>> THEN "done" ELSE "racing"
  /\ waits' = l /\ list' = l

Begin ==
  /\ pre = "no" /\ Race(list)
  /\ UNCHANGED <<hasTimeout, state, hung, gaveUp, late>>

\* The tasks win.
TasksWin ==
  /\ pre = "racing" /\ Done(waits)
  /\ pre' = "raced"
  /\ UNCHANGED <<hasTimeout, state, hung, list, waits, gaveUp, late>>

\* The timeout wins.
TimeoutWins ==
  /\ pre = "racing" /\ hasTimeout
  /\ pre' = "raced"
  /\ gaveUp' = gaveUp \cup {t \in Elements(waits) : state[t] # "done"}
  /\ UNCHANGED <<hasTimeout, state, hung, list, waits, late>>

\* Mutation: the tasks that came meanwhile are forgotten.
Again_Bug ==
  /\ pre = "raced" /\ pre' = "done"
  /\ UNCHANGED <<hasTimeout, state, hung, list, waits, gaveUp, late>>

\* After the race: once more for the tasks that came meanwhile.
Again ==
  /\ pre = "raced"
  /\ IF Len(list) = Len(waits)
     THEN pre' = "done" /\ UNCHANGED <<list, waits>>
     ELSE Race(SubSeq(list, Len(waits) + 1, Len(list)))
  /\ UNCHANGED <<hasTimeout, state, hung, gaveUp, late>>

TaskNext ==
  \/ \E t \in Tasks : Run(t) \/ End(t)
  \/ Begin \/ TasksWin \/ TimeoutWins \/ Again

TaskSpec == TaskInit /\ [][TaskNext]_taskVars

\* Tasks that do not hang end; the timer fires; microtasks run.
TaskFairness ==
  /\ \A t \in Tasks : WF_taskVars(End(t))
  /\ WF_taskVars(TasksWin) /\ WF_taskVars(TimeoutWins) /\ WF_taskVars(Again)
FairTaskSpec == TaskSpec /\ TaskFairness

-----------------------------------------------------------------------------
(* Properties *)

\* Types; what is waited for is the front of the list.
TaskTypeOK ==
  /\ hasTimeout \in BOOLEAN /\ hung \subseteq Tasks
  /\ state \in [Tasks -> {"new", "running", "done"}]
  /\ list \in Seq(Tasks) /\ waits \in Seq(Tasks)
  /\ Len(waits) <= Len(list) /\ \A i \in 1 .. Len(waits) : waits[i] = list[i]
  /\ pre \in {"no", "racing", "raced", "done"}
  /\ gaveUp \subseteq Tasks /\ late \subseteq Tasks

\* When doPreDestroy returns every task run until then has ended or has had a
\* whole timeout to itself, the tasks that tasks ran during the wait included.
NoTaskIsForgotten ==
  pre = "done" =>
    \A t \in Tasks : state[t] = "running" => t \in gaveUp \cup late

\* doPreDestroy returns, whatever hangs, when there is a timeout, and without
\* one when nothing hangs.
NoWaitIsLeft == hasTimeout \/ hung = {} => pre \in {"no", "done"}
PreDestroyReturns == []<>NoWaitIsLeft
=============================================================================
