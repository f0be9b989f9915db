---------------------------- MODULE AgentMessages ----------------------------
(***************************************************************************)
(* What becomes of the messages of a thread: AgentRuntime.normalize and    *)
(* annotateForStorage, MessageConverter, RuntimeMessage, and the readers   *)
(* OSSAgentStore.getThread and hasMessages.                                *)
(*                                                                         *)
(* An executor speaks V1 (Claude-shaped messages, whose meaning is told by *)
(* their type) or V2 (envelopes that say it, with an opaque payload); both *)
(* are normalized, streamed, and kept in the one file of the thread, which *)
(* is read back line by line.  Whether the next run resumes depends on the *)
(* file holding a message of the conversation; hasMessages looks at the    *)
(* first bytes of it, then at all.  AgentRun has the concurrency of a run; *)
(* here one run follows another.                                           *)
(***************************************************************************)
EXTENDS Naturals, Sequences

CONSTANTS
  Messages,   \* what an executor may yield, see MessageAssumption
  Inputs,     \* the input messages of a run: sequences of roles
  None,
  MaxYields, MaxRuns

\* type: that of a V1 message, or what the payload of a V2 one looks like;
\* (thinking_tokens stands for a system message of that subtype);
\* marked: it carries an eggExt.conversational of its own, which is false;
\* usage: what a result message, or such a payload, reports (0: nothing).
Shape == [type : STRING, marked : BOOLEAN, usage : Nat]
Envelope == [durable : BOOLEAN, conversational : BOOLEAN, committed : BOOLEAN,
             declares : Nat]

Roles == {"user", "assistant", "system"}

MessageAssumption ==
  /\ \A msg \in Messages :
       /\ msg.protocol \in {"v1", "v2"} /\ msg.shape \in Shape
       /\ msg.protocol = "v2" => msg.envelope \in Envelope
  /\ Inputs \subseteq Seq(Roles)
  /\ MaxYields \in Nat /\ MaxRuns \in Nat

VARIABLES
  file,        \* messages.jsonl: what each line says of itself
  phase,       \* none, running, completed, failed
  input, inputFlushed,
  normalized,  \* of the run: the messages in the order they were yielded
  committed, flushed,
  isResume,    \* what the executor was told
  usage,       \* of the last completed run: an amount, or None
  before,      \* history: the file when the run began
  runs

vars == <<file, phase, input, inputFlushed, normalized, committed, flushed,
          isResume, usage, before, runs>>

Init ==
  /\ file = <<>> /\ phase = "none" /\ input = <<>> /\ inputFlushed = FALSE
  /\ normalized = <<>> /\ committed = FALSE /\ flushed = 0
  /\ isResume = FALSE /\ usage = None /\ before = <<>> /\ runs = 0

-----------------------------------------------------------------------------
(* One message *)

isTransientMessage(shape) == shape.type \in {"stream_event", "thinking_tokens"}

Normalized(msg) ==
  IF msg.protocol = "v1"
  THEN [protocol |-> "v1", message |-> msg.shape, durable |-> ~isTransientMessage(msg.shape),
        conversational |-> msg.shape.type \in {"user", "assistant"}, declares |-> 0]
  ELSE [protocol |-> "v2", message |-> msg.shape, durable |-> msg.envelope.durable,
        conversational |-> msg.envelope.conversational, declares |-> msg.envelope.declares]

\* No isSessionCommitted hook: a V1 session is committed by its first message
\* that is not a system one, a V2 session when a message says so.
Commits(msg) ==
  IF msg.protocol = "v2" THEN msg.envelope.committed
  ELSE msg.shape.type \notin {"system", "thinking_tokens"}

Annotated(n) ==
  [type |-> n.message.type, stamped |-> n.protocol = "v2",
   says |-> IF n.protocol = "v2" THEN n.conversational ELSE IF n.message.marked THEN FALSE ELSE None]

isConversationMessage(line) ==
  IF line.stamped THEN line.says ELSE line.type \in {"user", "assistant"}

\* What of a sequence is in a set, in its order.
Within(s, S) ==
  LET kept[i \in 0 .. Len(s)] ==
        IF i = 0 THEN <<>>
        ELSE IF s[i] \in S THEN Append(kept[i - 1], s[i]) ELSE kept[i - 1] IN
  kept[Len(s)]

toAgentMessages(roles) ==
  LET kept == Within(roles, Roles \ {"system"}) IN
  [k \in DOMAIN kept |-> [type |-> kept[k], stamped |-> FALSE, says |-> None]]

-----------------------------------------------------------------------------
(* A run *)

Yieldable == {Normalized(msg) : msg \in Messages}
durable(ns) == Within(ns, {n \in Yieldable : n.durable})

Pending == durable(SubSeq(normalized', flushed + 1, Len(normalized')))
Lines == (IF inputFlushed THEN <<>> ELSE toAgentMessages(input))
         \o [k \in DOMAIN Pending |-> Annotated(Pending[k])]

Flush(force) ==
  IF force \/ committed'
  THEN file' = file \o Lines /\ flushed' = Len(normalized') /\ inputFlushed' = TRUE
  ELSE UNCHANGED <<file, flushed, inputFlushed>>

Conversation(lines) == {k \in DOMAIN lines : isConversationMessage(lines[k])}

\* Mutation: the range that holds no conversation is taken for the file.
hasMessages_Bug(k) == Conversation(SubSeq(file, 1, k)) # {}

\* k whole lines are in the range that is read first.
hasMessages(k) ==
  IF file = <<>> THEN FALSE
  ELSE Conversation(SubSeq(file, 1, k)) # {} \/ Conversation(file) # {}

\* ensureThread, and the run begins.
Begin ==
  /\ phase # "running" /\ runs < MaxRuns
  /\ runs' = runs + 1 /\ phase' = "running" /\ before' = file
  /\ input' \in Inputs
  /\ \E k \in 0 .. Len(file) : isResume' = hasMessages(k)
  /\ inputFlushed' = FALSE /\ normalized' = <<>> /\ committed' = FALSE
  /\ flushed' = 0
  /\ UNCHANGED <<file, usage>>

Yield(msg) ==
  /\ phase = "running" /\ Len(normalized) < MaxYields
  /\ normalized' = Append(normalized, Normalized(msg))
  /\ committed' = (committed \/ Commits(msg))
  /\ Flush(FALSE)
  /\ UNCHANGED <<phase, input, isResume, usage, before, runs>>

\* An error of the executor, or an envelope that is not well-formed.
Fail ==
  /\ phase = "running" /\ phase' = "failed"
  /\ UNCHANGED <<normalized, committed>>
  /\ Flush(FALSE)
  /\ UNCHANGED <<input, isResume, usage, before, runs>>

\* extractUsage: of the V1 messages alone, what the results add up to.
v1MessagesOf(ns) == Within(ns, {n \in Yieldable : n.protocol = "v1"})
reports(n) == n.message.type = "result" /\ n.message.usage # 0
extractUsage(ns) ==
  LET total[k \in 0 .. Len(ns)] ==
        IF k = 0 THEN 0 ELSE total[k - 1] + IF reports(ns[k]) THEN ns[k].message.usage ELSE 0 IN
  IF \E k \in DOMAIN ns : reports(ns[k]) THEN total[Len(ns)] ELSE None

\* The last one declared, or what the V1 messages add up to.
resolveUsage ==
  LET declared[k \in 0 .. Len(normalized)] ==
        IF k = 0 THEN 0
        ELSE IF normalized[k].declares # 0 THEN normalized[k].declares ELSE declared[k - 1]
      last == declared[Len(normalized)] IN
  IF last # 0 THEN last ELSE extractUsage(v1MessagesOf(normalized))

Complete ==
  /\ phase = "running" /\ phase' = "completed"
  /\ usage' = resolveUsage
  /\ UNCHANGED <<normalized, committed>>
  /\ Flush(TRUE)
  /\ UNCHANGED <<input, isResume, before, runs>>

Next == Begin \/ Fail \/ Complete \/ \E msg \in Messages : Yield(msg)
Spec == Init /\ [][Next]_vars

-----------------------------------------------------------------------------
(* Properties *)

\* What the run has told of a message, whatever its payload looks like.
Told(n) == IF n.protocol = "v2" THEN n.conversational
           ELSE n.message.type \in {"user", "assistant"}

Durable == durable(normalized)
Added == SubSeq(file, Len(before) + 1, Len(file))
NotSystem == Within(input, Roles \ {"system"})

\* Of a completed run the thread has the input and every durable message, once
\* and in the order they were yielded, and getThread shows of them what V1 infers
\* and V2 declares, even when a V1 message has an extension field of that name or
\* a V2 payload looks like another's message.  A run that fails leaves the thread
\* alone until its session is committed (annotateForStorage, isConversationMessage).
ThreadIsFaithful ==
  /\ phase = "completed" =>
       /\ Len(Added) = Len(NotSystem) + Len(Durable)
       /\ \A k \in DOMAIN Added :
            isConversationMessage(Added[k]) =
              IF k <= Len(NotSystem) THEN TRUE ELSE Told(Durable[k - Len(NotSystem)])
  /\ phase \in {"running", "failed"} /\ ~committed => file = before

\* A run is told to resume exactly when getThread would show it a conversation,
\* wherever the first range of the file happens to end (ensureThread, hasMessages).
ResumesWhatIsShown ==
  phase # "none" => (isResume <=> Conversation(before) # {})

\* The usage of a completed run is the last one that an envelope declares; without
\* one it is what the V1 results add up to, and never read out of a payload.
UsageIsReported ==
  phase = "completed" =>
    LET declared == {k \in DOMAIN normalized : normalized[k].declares # 0}
        results == {k \in DOMAIN normalized : normalized[k].protocol = "v1"
                                              /\ normalized[k].message.type = "result"
                                              /\ normalized[k].message.usage # 0}
        sum[k \in 0 .. Len(normalized)] ==
          IF k = 0 THEN 0 ELSE sum[k - 1] + IF k \in results THEN normalized[k].message.usage ELSE 0
    IN IF declared # {}
       THEN \E k \in declared : (\A j \in declared : j <= k) /\ usage = normalized[k].declares
       ELSE usage = IF results = {} THEN None ELSE sum[Len(normalized)]
=============================================================================
