------------------------------ MODULE ClaudeTrace ------------------------------
(***************************************************************************)
(* Trace of ClaudeAgentTracer: the messages of one execution of an agent   *)
(* are turned into runs, each logged when it starts and when it ends.      *)
(*                                                                         *)
(* The root run starts with the init message and ends with the result; an  *)
(* assistant message is a run of the model, and each of its tool uses one  *)
(* that ends with its tool_result, or with the result of the whole.        *)
(***************************************************************************)
EXTENDS Naturals, Sequences, FiniteSets, FiniteSetsExt

CONSTANTS
  Tools,         \* ids of tool uses; the agent uses one only once
  MaxMessages    \* bound on the messages

TraceAssumption == IsFiniteSet(Tools) /\ MaxMessages \in Nat

VARIABLES
  rootRun,          \* null, or the root run
  executionOrder,
  pendingToolUses,  \* the tool runs without a result
  children,         \* rootRun.child_runs: their execution orders
  log,              \* what logTrace was given: run, status, execution order
  messages          \* history: messages so far

vars == <<rootRun, executionOrder, pendingToolUses, children, log, messages>>

\* Runs: of the whole, of a call of the model, of a tool.
Root == [type |-> "chain", order |-> 1]
LLM(order) == [type |-> "llm", order |-> order]
Tool(t, order) == [type |-> "tool", id |-> t, order |-> order]

Entry(run, status) == [run |-> run, status |-> status]

Init ==
  /\ rootRun = FALSE /\ executionOrder = 2 /\ pendingToolUses = {}
  /\ children = <<>> /\ log = <<>> /\ messages = 0

Takes == messages < MaxMessages /\ messages' = messages + 1

\* A message of another type, or one that comes before the init, is ignored.
Ignored == Takes /\ UNCHANGED <<rootRun, executionOrder, pendingToolUses, children, log>>

\* handleInit: every init message starts the root run again.
HandleInit ==
  /\ Takes /\ rootRun' = TRUE /\ children' = <<>>
  /\ log' = Append(log, Entry(Root, "start"))
  /\ UNCHANGED <<executionOrder, pendingToolUses>>

Used == {e.run.id : e \in {log[i] : i \in {j \in DOMAIN log : log[j].run.type = "tool"}}}

\* handleAssistant: a run of the model, and one of each tool it uses, in the
\* order of the blocks.  Without tool uses and text there is none.
HandleAssistant ==
  \E uses \in {s \in UNION {[1 .. n -> Tools \ Used] : n \in 0 .. Cardinality(Tools)} :
                 \A i, j \in DOMAIN s : s[i] = s[j] => i = j} :
    LET tool == [i \in DOMAIN uses |-> Tool(uses[i], executionOrder + i)]
        llm == LLM(executionOrder) IN
    /\ Takes /\ rootRun
    /\ executionOrder' = executionOrder + 1 + Len(uses)
    /\ pendingToolUses' = pendingToolUses \cup {tool[i] : i \in DOMAIN uses}
    /\ children' = children \o [i \in 1 .. Len(uses) + 1 |-> executionOrder + i - 1]
    /\ log' = Append(log, Entry(llm, "end")) \o [i \in DOMAIN uses |-> Entry(tool[i], "start")]
    /\ UNCHANGED rootRun

\* Mutation: the run stays among those without a result.
HandleUser_Bug ==
  \E run \in pendingToolUses, status \in {"end", "error"} :
    /\ Takes /\ log' = Append(log, Entry(run, status))
    /\ UNCHANGED <<rootRun, executionOrder, children, pendingToolUses>>

\* handleUser: a tool_result ends the run that waits for it.
HandleUser ==
  \E run \in pendingToolUses, status \in {"end", "error"} :
    /\ Takes /\ log' = Append(log, Entry(run, status))
    /\ pendingToolUses' = pendingToolUses \ {run}
    /\ UNCHANGED <<rootRun, executionOrder, children>>

\* The runs in the order of the map that holds them.
InOrder(runs) ==
  [i \in 1 .. Cardinality(runs) |->
     CHOOSE r \in runs : Cardinality({s \in runs : s.order < r.order}) = i - 1]

\* handleResult: the tool runs without a result end as errors, then the root.
HandleResult ==
  \E status \in {"end", "error"} :
    /\ Takes /\ rootRun
    /\ LET pending == InOrder(pendingToolUses) IN
       log' = log \o [i \in DOMAIN pending |-> Entry(pending[i], "error")]
                  \o <<Entry(Root, status)>>
    /\ pendingToolUses' = {}
    /\ UNCHANGED <<rootRun, executionOrder, children>>

Next == Ignored \/ HandleInit \/ HandleAssistant \/ HandleUser \/ HandleResult

Spec == Init /\ [][Next]_vars

-----------------------------------------------------------------------------
(* Properties *)

\* Types.
TypeOK ==
  /\ rootRun \in BOOLEAN /\ executionOrder \in Nat \ {0, 1} /\ messages \in 0 .. MaxMessages
  /\ \A r \in pendingToolUses : r.type = "tool" /\ r.id \in Tools

Logged(run, statuses) == {i \in DOMAIN log : log[i].run = run /\ log[i].status \in statuses}
Runs == {log[i].run : i \in DOMAIN log}

\* Read back, the log is one tree: a tool's run starts once, under a root that
\* has started, and ends at most once and after that; an order is given to one
\* run only, and a later one to a later run; and when the result has been
\* logged no run is open but those of messages that follow it.
TraceIsWellFormed ==
  /\ \A r \in Runs \ {Root} :
       /\ \E i \in Logged(Root, {"start"}) : \A j \in Logged(r, {"start", "end", "error"}) : i < j
       /\ Cardinality(Logged(r, {"end", "error"})) <= 1
       /\ r.type = "tool" =>
            /\ Cardinality(Logged(r, {"start"})) = 1
            /\ \A i \in Logged(r, {"start"}), j \in Logged(r, {"end", "error"}) : i < j
       /\ \A q \in Runs : q.order = r.order => q = r
  /\ \A i, j \in DOMAIN children : i < j => children[i] < children[j]
  /\ \A k \in Logged(Root, {"end", "error"}), i \in DOMAIN log :
       i < k /\ log[i].status = "start" /\ log[i].run # Root =>
         \E j \in Logged(log[i].run, {"end", "error"}) : j < k
=============================================================================
