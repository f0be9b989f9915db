------------------------------- MODULE OssAppend -------------------------------
(***************************************************************************)
(* OSSObjectStorageClient.append on one object, with any number of         *)
(* processes that write to it.                                             *)
(*                                                                         *)
(* OSS appends only at the object's length.  Each process remembers where  *)
(* its last append ended; when that is not the length any more, the client *)
(* asks for it and tries once again.  A request may fail after OSS has     *)
(* done it, and a process that restarts remembers nothing.                 *)
(***************************************************************************)
EXTENDS Naturals, Sequences, FiniteSets, FiniteSetTheorems, TLAPS

CONSTANTS
  Processes, Appends,
  WriterOf,      \* the process that makes each append
  MaxFaults      \* bound on faults and restarts

OssAssumption == WriterOf \in [Appends -> Processes] /\ MaxFaults \in Nat

VARIABLES
  object,           \* the appends in the object
  appendPositions,  \* per process
  pc,               \* of an append: idle, first, head, retry, done, failed
  position,         \* where it wants to append
  faults,
  begun, broken     \* history: the object's length at its call; a fault hit it

vars == <<object, appendPositions, pc, position, faults, begun, broken>>

Init ==
  /\ object = <<>> /\ appendPositions = [p \in Processes |-> 0]
  /\ pc = [a \in Appends |-> "idle"] /\ position = [a \in Appends |-> 0]
  /\ faults = 0 /\ begun = [a \in Appends |-> 0] /\ broken = {}

Goes(a, from, to) == pc[a] = from /\ pc' = [pc EXCEPT ![a] = to]

\* append(): the position it remembers; 0 for an object it has not written.
Call(a) ==
  /\ Goes(a, "idle", "first")
  /\ position' = [position EXCEPT ![a] = appendPositions[WriterOf[a]]]
  /\ begun' = [begun EXCEPT ![a] = Len(object)]
  /\ UNCHANGED <<object, appendPositions, faults, broken>>

Matches(a) == position[a] = Len(object)

\* OSS appends, and the client keeps the new position.
Appended(a) ==
  /\ pc[a] \in {"first", "retry"} /\ pc' = [pc EXCEPT ![a] = "done"]
  /\ Matches(a) /\ object' = Append(object, a)
  /\ appendPositions' = [appendPositions EXCEPT ![WriterOf[a]] = Len(object) + 1]
  /\ UNCHANGED <<position, faults, begun, broken>>

\* Mutation: any error of the first request asks for the length.
Mismatch_Bug(a) ==
  /\ Goes(a, "first", "head")
  /\ IF Matches(a) THEN object' = Append(object, a) ELSE UNCHANGED object
  /\ UNCHANGED <<appendPositions, position, faults, begun, broken>>

\* PositionNotEqualToLength
Mismatch(a) ==
  /\ Goes(a, "first", "head") /\ ~Matches(a)
  /\ UNCHANGED <<object, appendPositions, position, faults, begun, broken>>

\* HEAD tells the length.
Head1(a) ==
  /\ Goes(a, "head", "retry")
  /\ position' = [position EXCEPT ![a] = Len(object)]
  /\ UNCHANGED <<object, appendPositions, faults, begun, broken>>

\* The retry meets PositionNotEqualToLength: append throws it.
RetryFails(a) ==
  /\ Goes(a, "retry", "failed") /\ ~Matches(a)
  /\ UNCHANGED <<object, appendPositions, position, faults, begun, broken>>

\* Another error is thrown; OSS may have appended.
Fault(a) ==
  /\ faults < MaxFaults /\ faults' = faults + 1
  /\ pc[a] \in {"first", "head", "retry"} /\ pc' = [pc EXCEPT ![a] = "failed"]
  /\ broken' = broken \cup {a}
  /\ \/ UNCHANGED object
     \/ pc[a] # "head" /\ Matches(a) /\ object' = Append(object, a)
  /\ UNCHANGED <<appendPositions, position, begun>>

\* A process restarts: its calls are gone, and so is what it remembered.
Restart(p) ==
  /\ faults < MaxFaults /\ faults' = faults + 1
  /\ appendPositions' = [appendPositions EXCEPT ![p] = 0]
  /\ LET Lost == {a \in Appends : WriterOf[a] = p /\ pc[a] \in {"first", "head", "retry"}} IN
     /\ pc' = [a \in Appends |-> IF a \in Lost THEN "failed" ELSE pc[a]]
     /\ broken' = broken \cup Lost
  /\ UNCHANGED <<object, position, begun>>

Next ==
  \/ \E a \in Appends :
       Call(a) \/ Appended(a) \/ Mismatch(a) \/ Head1(a) \/ RetryFails(a) \/ Fault(a)
  \/ \E p \in Processes : Restart(p)

Spec == Init /\ [][Next]_vars

-----------------------------------------------------------------------------
(* Properties *)

\* Types.
TypeOK ==
  /\ object \in Seq(Appends) /\ appendPositions \in [Processes -> Nat]
  /\ pc \in [Appends -> {"idle", "first", "head", "retry", "done", "failed"}]
  /\ position \in [Appends -> Nat] /\ faults \in 0 .. MaxFaults
  /\ begun \in [Appends -> Nat] /\ broken \subseteq Appends

\* An append that returns is in the object exactly once; one that fails is not
\* in it, unless the store answered wrongly.  It fails only when others have
\* written twice since it began: once past the position, and once more between
\* the HEAD and the retry; or once, when its process did not know the length.
Occurrences(a) == Cardinality({i \in DOMAIN object : object[i] = a})
AppendedOnce ==
  \A a \in Appends :
    /\ Occurrences(a) <= 1
    /\ pc[a] = "done" => Occurrences(a) = 1
    /\ pc[a] = "failed" /\ a \notin broken => Occurrences(a) = 0 /\ Len(object) > begun[a]

-----------------------------------------------------------------------------
(* Proof of AppendedOnce, for any number of processes, appends and faults *)

In(a) == \E i \in DOMAIN object : object[i] = a
UnderWay == {"first", "head", "retry"}

\* No append is in the object twice, none that is under way is in it, and the
\* length a retry goes for is not less than that at the call.
AppendInv ==
  /\ TypeOK
  /\ \A i, j \in DOMAIN object : object[i] = object[j] => i = j
  /\ \A a \in Appends :
       /\ pc[a] \in UnderWay \cup {"idle"} => ~In(a)
       /\ pc[a] = "done" => In(a)
       /\ pc[a] \in UnderWay => begun[a] <= Len(object)
       /\ pc[a] = "retry" => begun[a] <= position[a] /\ position[a] <= Len(object)
       /\ pc[a] = "failed" /\ a \notin broken => ~In(a) /\ begun[a] < Len(object)

LEMMA InitAppend == ASSUME OssAssumption PROVE Init => AppendInv
BY DEF Init, AppendInv, TypeOK, OssAssumption, UnderWay, In

\* OSS appends what is not in the object yet.
LEMMA AppendKeeps ==
  ASSUME AppendInv, NEW a \in Appends, ~In(a), object' = Append(object, a)
  PROVE  /\ object' \in Seq(Appends) /\ Len(object') = Len(object) + 1
         /\ \A i, j \in DOMAIN object' : object'[i] = object'[j] => i = j
         /\ \A b \in Appends : In(b)' <=> In(b) \/ b = a
<1>1. object \in Seq(Appends)
  BY DEF AppendInv, TypeOK
<1>2. /\ object' \in Seq(Appends) /\ Len(object') = Len(object) + 1
      /\ \A i \in 1 .. Len(object) : object'[i] = object[i]
      /\ object'[Len(object) + 1] = a
      /\ DOMAIN object = 1 .. Len(object) /\ DOMAIN object' = 1 .. Len(object) + 1
  BY <1>1
<1>3. \A i \in 1 .. Len(object) : object'[i] # a
  BY <1>2 DEF In
<1>4. \A i \in DOMAIN object' : i \in 1 .. Len(object) \/ i = Len(object) + 1
  BY <1>1, <1>2
<1>5. \A i, j \in DOMAIN object' : object'[i] = object'[j] => i = j
  BY <1>2, <1>3, <1>4 DEF AppendInv
<1>6. \A b \in Appends : In(b)' <=> In(b) \/ b = a
  <2> TAKE b \in Appends
  <2>1. In(b)' => In(b) \/ b = a
    BY <1>2, <1>4 DEF In
  <2>2. In(b) => In(b)'
    BY <1>1, <1>2 DEF In
  <2>3. In(a)'
    <3>1. Len(object) + 1 \in DOMAIN object'
      BY <1>1, <1>2
    <3> QED BY <3>1, <1>2 DEF In
  <2> QED BY <2>1, <2>2, <2>3
<1> QED BY <1>2, <1>5, <1>6

LEMMA NextAppend == ASSUME OssAssumption PROVE AppendInv /\ [Next]_vars => AppendInv'
<1> SUFFICES ASSUME AppendInv, [Next]_vars PROVE AppendInv'
  OBVIOUS
<1> USE DEF AppendInv, UnderWay
<1>1. ASSUME NEW a \in Appends, Call(a) PROVE AppendInv'
  BY <1>1 DEF Call, Goes, TypeOK, In, OssAssumption
<1>2. ASSUME NEW a \in Appends, Appended(a) PROVE AppendInv'
  <2>1. ~In(a) /\ object' = Append(object, a)
    BY <1>2 DEF Appended
  <2>2. /\ pc' = [pc EXCEPT ![a] = "done"]
        /\ UNCHANGED <<position, faults, begun, broken>> /\ Len(object) \in Nat
    BY <1>2 DEF Appended, TypeOK
  <2>3. appendPositions' \in [Processes -> Nat]
    <3>1. appendPositions' = [appendPositions EXCEPT ![WriterOf[a]] = Len(object) + 1]
      BY <1>2 DEF Appended
    <3>2. Len(object) + 1 \in Nat
      BY <2>2
    <3>3. appendPositions \in [Processes -> Nat]
      BY DEF TypeOK
    <3> HIDE DEF AppendInv
    <3> QED BY <3>1, <3>2, <3>3
  <2>4. /\ object' \in Seq(Appends) /\ Len(object') = Len(object) + 1
        /\ \A i, j \in DOMAIN object' : object'[i] = object'[j] => i = j
        /\ \A b \in Appends : In(b)' <=> In(b) \/ b = a
    BY <2>1, AppendKeeps
  <2>5. TypeOK'
    BY <2>2, <2>3, <2>4 DEF TypeOK
  <2> QED BY <2>2, <2>4, <2>5 DEF TypeOK
<1>3. ASSUME NEW a \in Appends, Mismatch(a) \/ Head1(a) \/ RetryFails(a) PROVE AppendInv'
  <2>1. /\ UNCHANGED <<object, appendPositions, faults, begun, broken>>
        /\ \/ Goes(a, "first", "head") /\ position' = position
           \/ Goes(a, "head", "retry") /\ position' = [position EXCEPT ![a] = Len(object)]
           \/ Goes(a, "retry", "failed") /\ position' = position /\ position[a] # Len(object)
    BY <1>3 DEF Mismatch, Head1, RetryFails, Matches
  <2>2. Len(object) \in Nat /\ \A b \in Appends : In(b)' <=> In(b)
    BY <2>1 DEF In, TypeOK
  <2>3. TypeOK'
    BY <2>1, <2>2 DEF Goes, TypeOK
  <2> QED BY <2>1, <2>2, <2>3 DEF Goes, TypeOK
<1>4. ASSUME NEW a \in Appends, Fault(a) PROVE AppendInv'
  <2>1. ~In(a) /\ pc' = [pc EXCEPT ![a] = "failed"] /\ broken' = broken \cup {a}
        /\ UNCHANGED <<appendPositions, position, begun>> /\ faults' \in 0 .. MaxFaults
    BY <1>4 DEF Fault, TypeOK, OssAssumption
  <2>2. CASE object' = object
    BY <2>1, <2>2 DEF TypeOK, In
  <2>3. CASE object' = Append(object, a)
    BY <2>1, <2>3, AppendKeeps DEF TypeOK
  <2> QED BY <2>2, <2>3, <1>4 DEF Fault
<1>5. ASSUME NEW p \in Processes, Restart(p) PROVE AppendInv'
  BY <1>5 DEF Restart, TypeOK, In, OssAssumption
<1>6. CASE UNCHANGED vars
  BY <1>6 DEF vars, TypeOK, In
<1> QED BY <1>1, <1>2, <1>3, <1>4, <1>5, <1>6 DEF Next

\* However the processes' appends, faults and restarts interleave, an append
\* that returns is in the object once, and one that throws without a fault of
\* the store is not in it and was overtaken.
THEOREM Once == ASSUME OssAssumption PROVE Spec => []AppendedOnce
<1>1. ASSUME AppendInv PROVE AppendedOnce
  <2> SUFFICES ASSUME NEW a \in Appends
               PROVE  /\ In(a) => Occurrences(a) = 1
                      /\ ~In(a) => Occurrences(a) = 0
    BY <1>1 DEF AppendInv, AppendedOnce, UnderWay, TypeOK
  <2>1. CASE In(a)
    <3>1. PICK i \in DOMAIN object : {k \in DOMAIN object : object[k] = a} = {i}
      BY <2>1, <1>1 DEF In, AppendInv
    <3> QED BY <2>1, <3>1, FS_Singleton DEF Occurrences
  <2>2. CASE ~In(a)
    <3>1. {k \in DOMAIN object : object[k] = a} = {}
      BY <2>2 DEF In
    <3> QED BY <2>2, <3>1, FS_EmptySet DEF Occurrences
  <2> QED BY <2>1, <2>2
<1> QED BY <1>1, InitAppend, NextAppend, PTL DEF Spec
=============================================================================
