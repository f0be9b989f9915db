---------------------------- MODULE ThreadStoreProofs ----------------------------
(***************************************************************************)
(* Proofs about ThreadStore, for any calls on the thread and any faults:   *)
(* runExclusive serves one call per object, in the order of the calls      *)
(* (ServedInOrder), its maps do not leak (TailsAreDropped), and so the     *)
(* read-modify-write of a call is one step on the object (NoLostUpdate).   *)
(*                                                                         *)
(* The argument goes along asked[k], the calls in the order they asked for *)
(* key k: each is chained to its neighbour or came when all before it were *)
(* through (Chained), hence whoever is in, or through, has only finished   *)
(* calls before it (InTurn), and the entry of the map is the last caller   *)
(* (TailIsLast).                                                           *)
(***************************************************************************)
EXTENDS ThreadStore, SequenceTheorems, TLAPS

-----------------------------------------------------------------------------
(* The inductive invariant *)

Active(o) == pc[o] \in {"waiting", "reading", "writing"}
Over(o) == pc[o] \in {"done", "failed"}

LockTypes ==
  /\ tails \in [Keys -> Calls \cup {None}]
  /\ previous \in [Calls -> Calls \cup {None}]
  /\ released \subseteq Calls
  /\ asked \in [Keys -> Seq(Calls)]
  /\ pc \in [Calls -> Pc]
  /\ DOMAIN snapshot = Calls

\* The calls that asked for a key, each once: still active or through.
Askers(k) ==
  /\ \A i \in 1 .. Len(asked[k]) :
        KeyOf(asked[k][i]) = k /\ (Active(asked[k][i]) \/ asked[k][i] \in released)
  /\ \A i, j \in 1 .. Len(asked[k]) : asked[k][i] = asked[k][j] => i = j

ThroughBefore(k, i) == \A j \in 1 .. Len(asked[k]) : j < i => asked[k][j] \in released

Chained(k) ==
  \A i \in 1 .. Len(asked[k]) :
     \/ previous[asked[k][i]] = None /\ ThroughBefore(k, i)
     \/ i > 1 /\ previous[asked[k][i]] = asked[k][i - 1]

InTurn(k) ==
  \A i \in 1 .. Len(asked[k]) :
     asked[k][i] \in released \/ InSection(asked[k][i]) => ThroughBefore(k, i)

TailIsLast(k) ==
  /\ tails[k] = None => \A i \in 1 .. Len(asked[k]) : asked[k][i] \in released
  /\ tails[k] # None =>
       /\ Len(asked[k]) > 0 /\ tails[k] = asked[k][Len(asked[k])]
       /\ tails[k] \notin released

KeyInv(k) == Askers(k) /\ Chained(k) /\ InTurn(k) /\ TailIsLast(k)

CallInv(o) ==
  /\ Active(o) => \E i \in 1 .. Len(asked[KeyOf(o)]) : asked[KeyOf(o)][i] = o
  /\ o \in released => Over(o)

LockInv == LockTypes /\ (\A k \in Keys : KeyInv(k)) /\ \A o \in Calls : CallInv(o)

\* What a call has read is still what the object holds.
Fresh(o) == pc[o] = "writing" => snapshot[o] = Object(o)

\* With an atomic append no append asks for the lock.
OneWay(o) == o \in Appends /\ Active(o) => ~hasAppend

IInv == LockInv /\ \A o \in Calls : Fresh(o) /\ OneWay(o)

-----------------------------------------------------------------------------
(* The lock *)

LEMMA KeyOfCall == ASSUME NEW o \in Calls PROVE KeyOf(o) \in Keys
BY DEF KeyOf, Keys

\* Two calls in the section of one object are the same call.
LEMMA OneWriter ==
  ASSUME LockInv, NEW o \in Calls, NEW q \in Calls, InSection(o), InSection(q),
         KeyOf(o) = KeyOf(q)
  PROVE  o = q
<1> DEFINE k == KeyOf(o)
<1>1. k \in Keys /\ KeyInv(k) /\ CallInv(o) /\ CallInv(q) /\ Len(asked[k]) \in Nat
  BY KeyOfCall DEF LockInv, LockTypes
<1>2. PICK i \in 1 .. Len(asked[k]) : asked[k][i] = o
  BY <1>1 DEF CallInv, Active, InSection
<1>3. PICK j \in 1 .. Len(asked[k]) : asked[k][j] = q
  BY <1>1 DEF CallInv, Active, InSection
<1>4. o \notin released /\ q \notin released
  BY <1>1 DEF CallInv, Over, InSection
<1>5. ~(i < j) /\ ~(j < i)
  BY <1>1, <1>2, <1>3, <1>4 DEF KeyInv, InTurn, ThroughBefore
<1> QED
  BY <1>1, <1>2, <1>3, <1>5

\* A call that has not asked yet is nobody's predecessor.
LEMMA NotAsked ==
  ASSUME LockInv, NEW o \in Calls, pc[o] \in {"idle", "asking"}
  PROVE  /\ \A k \in Keys : \A i \in 1 .. Len(asked[k]) : asked[k][i] # o
         /\ o \notin released
<1>1. o \notin released /\ ~Active(o)
  BY DEF LockInv, CallInv, Over, Active
<1> QED
  BY <1>1 DEF LockInv, KeyInv, Askers

\* A call that moves without touching the lock: before it asks, or into and
\* within the section when it is its turn.
LEMMA MoveKeepsLock ==
  ASSUME LockInv, UNCHANGED lockVars, DOMAIN snapshot' = DOMAIN snapshot,
         NEW o \in Calls, NEW to \in Pc, Goes(o, to),
         \/ pc[o] \in {"idle", "asking"} /\ to \in {"asking", "done", "failed"}
         \/ /\ Active(o) /\ to \in {"reading", "writing"}
            /\ \A i \in 1 .. Len(asked[KeyOf(o)]) :
                  asked[KeyOf(o)][i] = o => ThroughBefore(KeyOf(o), i)
  PROVE  LockInv'
<1>1. /\ LockTypes' /\ pc'[o] = to /\ \A q \in Calls \ {o} : pc'[q] = pc[q]
      /\ UNCHANGED <<tails, previous, released, asked>>
      /\ \A k \in Keys : asked[k] \in Seq(Calls)
  BY DEF LockInv, LockTypes, Goes, lockVars
<1>2. ASSUME NEW q \in Calls
      PROVE  CallInv(q)'
  <2>1. CallInv(q) /\ CallInv(o)
    BY DEF LockInv
  <2> QED
    BY <1>1, <2>1 DEF CallInv, Active, Over
<1>3. ASSUME NEW k \in Keys
      PROVE  KeyInv(k)'
  <2>1. KeyInv(k) /\ \A i \in 1 .. Len(asked[k]) : asked[k][i] \in Calls
    BY <1>1 DEF LockInv
  <2>2. Askers(k)'
    <3>1. ASSUME NEW i \in 1 .. Len(asked[k])
          PROVE  Active(asked[k][i])' \/ asked[k][i] \in released
      BY <1>1, <2>1, NotAsked DEF KeyInv, Askers, Active
    <3> QED
      BY <1>1, <2>1, <3>1 DEF KeyInv, Askers
  <2>3. Chained(k)' /\ TailIsLast(k)'
    BY <1>1, <2>1 DEF KeyInv, Chained, TailIsLast, ThroughBefore
  <2>4. InTurn(k)'
    <3> SUFFICES ASSUME NEW i \in 1 .. Len(asked[k]),
                        asked[k][i] \in released \/ InSection(asked[k][i])'
                 PROVE  ThroughBefore(k, i)
      BY <1>1 DEF InTurn, ThroughBefore
    <3>1. CASE asked[k][i] # o
      BY <1>1, <2>1, <3>1 DEF KeyInv, InTurn, InSection
    <3>2. CASE asked[k][i] = o
      BY <1>1, <2>1, <3>2, NotAsked DEF KeyInv, Askers
    <3> QED
      BY <3>1, <3>2
  <2> QED
    BY <2>2, <2>3, <2>4 DEF KeyInv
<1> QED
  BY <1>1, <1>2, <1>3 DEF LockInv

\* A call that asks goes to the end of its chain.
LEMMA EnqueueKeepsLock ==
  ASSUME LockInv, DOMAIN snapshot' = DOMAIN snapshot,
         NEW o \in Calls, pc[o] \in {"idle", "asking"}, Goes(o, "waiting"), Enqueue(o),
         None \notin Calls
  PROVE  LockInv'
<1> DEFINE k == KeyOf(o)
           n == Len(asked[k])
<1>1. /\ k \in Keys /\ asked[k] \in Seq(Calls) /\ n \in Nat /\ KeyInv(k)
      /\ tails[k] \in Calls \cup {None} /\ LockTypes
  BY KeyOfCall DEF LockInv, LockTypes
<1>2. /\ pc'[o] = "waiting" /\ \A q \in Calls \ {o} : pc'[q] = pc[q]
      /\ previous'[o] = tails[k] /\ \A q \in Calls \ {o} : previous'[q] = previous[q]
      /\ tails'[k] = o /\ \A h \in Keys \ {k} : tails'[h] = tails[h] /\ asked'[h] = asked[h]
      /\ asked'[k] = Append(asked[k], o)
      /\ released' = released
  BY <1>1 DEF Enqueue, Goes, LockTypes
<1>3. LockTypes'
  <2>1. Append(asked[k], o) \in Seq(Calls)
    BY <1>1
  <2> QED
    BY <1>1, <2>1 DEF Enqueue, Goes, LockTypes, Pc
<1>4. /\ Len(asked'[k]) = n + 1 /\ asked'[k][n + 1] = o
      /\ \A i \in 1 .. n : asked'[k][i] = asked[k][i] /\ asked[k][i] \in Calls \ {o}
      /\ \A i \in 1 .. n + 1 : i \in 1 .. n \/ i = n + 1
      /\ o \notin released
  BY <1>1, <1>2, NotAsked
<1>5. Askers(k)'
  BY <1>1, <1>2, <1>4 DEF KeyInv, Askers, Active
<1>6. \A i \in 1 .. n : ThroughBefore(k, i) => ThroughBefore(k, i)'
  BY <1>1, <1>2, <1>4 DEF ThroughBefore
<1>7. Chained(k)'
  <2> SUFFICES ASSUME NEW i \in 1 .. n + 1
               PROVE  \/ previous'[asked'[k][i]] = None /\ ThroughBefore(k, i)'
                      \/ i > 1 /\ previous'[asked'[k][i]] = asked'[k][i - 1]
    BY <1>4 DEF Chained
  <2>1. CASE i \in 1 .. n
    <3>1. i > 1 => asked'[k][i - 1] = asked[k][i - 1]
      BY <1>1, <1>4, <2>1
    <3> QED
      BY <1>1, <1>2, <1>4, <1>6, <2>1, <3>1 DEF KeyInv, Chained
  <2>2. CASE i = n + 1
    <3>1. CASE tails[k] = None
      BY <1>1, <1>2, <1>4, <2>2, <3>1 DEF KeyInv, TailIsLast, ThroughBefore
    <3>2. CASE tails[k] # None
      <4>1. n > 0 /\ tails[k] = asked[k][n]
        BY <1>1, <3>2 DEF KeyInv, TailIsLast
      <4> QED
        BY <1>1, <1>2, <1>4, <2>2, <4>1
    <3> QED
      BY <3>1, <3>2
  <2> QED
    BY <1>4, <2>1, <2>2
<1>8. InTurn(k)'
  <2> SUFFICES ASSUME NEW i \in 1 .. n + 1,
                      asked'[k][i] \in released \/ pc'[asked'[k][i]] \in {"reading", "writing"}
               PROVE  ThroughBefore(k, i)'
    BY <1>2, <1>4 DEF InTurn, InSection
  <2>1. i \in 1 .. n
    BY <1>2, <1>4
  <2> QED
    BY <1>1, <1>2, <1>4, <1>6, <2>1 DEF KeyInv, InTurn, InSection
<1>9. TailIsLast(k)'
  BY <1>1, <1>2, <1>4 DEF TailIsLast
<1>10. ASSUME NEW h \in Keys \ {k}
       PROVE  KeyInv(h)'
  <2>1. KeyInv(h) /\ \A i \in 1 .. Len(asked[h]) : asked[h][i] \in Calls \ {o}
    BY <1>1, NotAsked DEF LockInv, LockTypes
  <2> QED
    BY <1>2, <2>1 DEF KeyInv, Askers, Chained, InTurn, TailIsLast, ThroughBefore, InSection, Active
<1>11. ASSUME NEW q \in Calls
       PROVE  CallInv(q)'
  <2>1. CallInv(q)
    BY DEF LockInv
  <2>2. CASE q = o
    BY <1>2, <1>4, <2>2 DEF CallInv
  <2>3. CASE q # o
    <3>1. KeyOf(q) \in Keys /\ Len(asked[KeyOf(q)]) \in Nat
      BY KeyOfCall, <1>1 DEF LockTypes
    <3>2. CASE KeyOf(q) = k
      BY <1>1, <1>2, <1>4, <2>1, <2>3, <3>2 DEF CallInv, Active, Over
    <3>3. CASE KeyOf(q) # k
      BY <1>2, <2>1, <2>3, <3>1, <3>3 DEF CallInv, Active, Over
    <3> QED
      BY <3>2, <3>3
  <2> QED
    BY <2>2, <2>3
<1> QED
  BY <1>3, <1>5, <1>7, <1>8, <1>9, <1>10, <1>11 DEF LockInv, KeyInv

\* The call in the section lets the next one in, and drops the entry when there
\* is none.
LEMMA ReleaseKeepsLock ==
  ASSUME LockInv, DOMAIN snapshot' = DOMAIN snapshot,
         NEW o \in Calls, InSection(o), NEW to \in {"done", "failed"}, Goes(o, to),
         Release(o), None \notin Calls
  PROVE  LockInv'
<1> DEFINE k == KeyOf(o)
<1>1. /\ k \in Keys /\ asked[k] \in Seq(Calls) /\ Len(asked[k]) \in Nat /\ KeyInv(k)
      /\ LockTypes /\ CallInv(o)
  BY KeyOfCall DEF LockInv, LockTypes
<1>2. /\ pc'[o] = to /\ \A q \in Calls \ {o} : pc'[q] = pc[q]
      /\ UNCHANGED <<previous, asked>>
      /\ tails'[k] = IF tails[k] = o THEN None ELSE tails[k]
      /\ \A h \in Keys \ {k} : tails'[h] = tails[h]
      /\ released' = released \cup {o}
  BY <1>1 DEF Release, Goes, LockTypes
<1>3. LockTypes'
  BY <1>1 DEF Release, Goes, LockTypes, Pc
<1>4. PICK n \in 1 .. Len(asked[k]) : asked[k][n] = o
  BY <1>1 DEF CallInv, Active, InSection
<1>5. ThroughBefore(k, n)
  BY <1>1, <1>4 DEF KeyInv, InTurn
<1>6. ASSUME NEW h \in Keys
      PROVE  KeyInv(h)'
  <2>1. /\ KeyInv(h) /\ Len(asked[h]) \in Nat
        /\ \A i \in 1 .. Len(asked[h]) : asked[h][i] \in Calls
    BY <1>1 DEF LockInv, LockTypes
  <2>2. Askers(h)'
    BY <1>2, <2>1 DEF KeyInv, Askers, Active
  <2>3. \A i \in 1 .. Len(asked[h]) : ThroughBefore(h, i) => ThroughBefore(h, i)'
    BY <1>2 DEF ThroughBefore
  <2>4. Chained(h)'
    BY <1>2, <2>1, <2>3 DEF KeyInv, Chained
  <2>5. InTurn(h)'
    <3> SUFFICES ASSUME NEW i \in 1 .. Len(asked[h]),
                        asked[h][i] \in released \cup {o} \/ InSection(asked[h][i])'
                 PROVE  ThroughBefore(h, i)'
      BY <1>2 DEF InTurn
    <3>1. asked[h][i] \in released \/ InSection(asked[h][i])
      BY <1>2, <2>1 DEF InSection
    <3> QED
      BY <2>1, <2>3, <3>1 DEF KeyInv, InTurn
  <2>6. TailIsLast(h)'
    <3>1. CASE h # k
      <4>1. tails[h] # o
        BY <1>1, <2>1, <3>1 DEF KeyInv, TailIsLast, Askers
      <4> QED
        BY <1>2, <2>1, <3>1, <4>1 DEF KeyInv, TailIsLast
    <3>2. CASE h = k /\ tails[k] = o
      <4>1. asked[k][Len(asked[k])] = o /\ Len(asked[k]) > 0
        BY <1>1, <3>2 DEF KeyInv, TailIsLast
      <4>2. n = Len(asked[k])
        BY <1>1, <1>4, <4>1 DEF KeyInv, Askers
      <4>3. \A i \in 1 .. Len(asked[k]) : asked[k][i] \in released \cup {o}
        BY <1>1, <1>4, <1>5, <4>2 DEF ThroughBefore
      <4> QED
        BY <1>2, <3>2, <4>3 DEF TailIsLast
    <3>3. CASE h = k /\ tails[k] # o
      BY <1>2, <2>1, <3>3 DEF KeyInv, TailIsLast
    <3> QED
      BY <3>1, <3>2, <3>3
  <2> QED
    BY <2>2, <2>4, <2>5, <2>6 DEF KeyInv
<1>7. ASSUME NEW q \in Calls
      PROVE  CallInv(q)'
  <2>1. CallInv(q)
    BY DEF LockInv
  <2> QED
    BY <1>2, <2>1 DEF CallInv, Active, Over
<1> QED
  BY <1>3, <1>6, <1>7 DEF LockInv

-----------------------------------------------------------------------------
(* The steps *)

\* Every step keeps the lock's invariant.
LEMMA LockStep ==
  ASSUME IInv, [Next]_vars
  PROVE  LockInv'
<1> LockInv /\ None \notin Calls
  BY CallsAssumption DEF IInv
<1>1. CASE UNCHANGED <<lockVars, pc, snapshot>>
  <2>1. UNCHANGED <<tails, previous, released, asked, pc, snapshot>>
    BY <1>1 DEF lockVars
  <2>2. LockTypes'
    BY <2>1 DEF LockInv, LockTypes
  <2>3. ASSUME NEW k \in Keys PROVE KeyInv(k)'
    <3>1. KeyInv(k)
      BY DEF LockInv
    <3> QED
      BY <2>1, <3>1 DEF KeyInv, Askers, Chained, InTurn, TailIsLast, ThroughBefore,
                        InSection, Active
  <2>4. ASSUME NEW o \in Calls PROVE CallInv(o)'
    <3>1. CallInv(o)
      BY DEF LockInv
    <3> QED
      BY <2>1, <3>1 DEF CallInv, Active, Over
  <2> QED BY <2>2, <2>3, <2>4 DEF LockInv
<1>2. ASSUME NEW o \in Calls, CallUpdate(o) \/ CallCreateRun(o) \/ AskForAppend(o)
      PROVE  LockInv'
  <2>1. pc[o] \in {"idle", "asking"} /\ Goes(o, "waiting") /\ Enqueue(o) /\ UNCHANGED snapshot
    BY <1>2 DEF CallUpdate, CallCreateRun, AskForAppend
  <2> QED
    BY <2>1, EnqueueKeepsLock
<1>3. ASSUME NEW o \in Calls, CallAppend(o) \/ AppendObject(o) \/ AskThrows(o)
      PROVE  LockInv'
  <2>1. /\ pc[o] \in {"idle", "asking"} /\ UNCHANGED <<lockVars, snapshot>>
        /\ \E to \in {"asking", "done", "failed"} : Goes(o, to)
    BY <1>3 DEF CallAppend, AppendObject, AskThrows
  <2>2. PICK to \in {"asking", "done", "failed"} : Goes(o, to)
    BY <2>1
  <2>3. to \in Pc
    BY DEF Pc
  <2> QED
    BY <2>1, <2>2, <2>3, MoveKeepsLock
<1>4. ASSUME NEW o \in Calls, Enter(o) \/ Get(o)
      PROVE  LockInv'
  <2> DEFINE k == KeyOf(o)
  <2>1. /\ UNCHANGED lockVars /\ DOMAIN snapshot' = DOMAIN snapshot
        /\ Active(o) /\ \E to \in {"reading", "writing"} : Goes(o, to)
        /\ InSection(o) \/ Served(o)
    BY <1>4 DEF Enter, Get, Active, InSection
  <2>2. PICK to \in {"reading", "writing"} : Goes(o, to)
    BY <2>1
  <2>3. k \in Keys /\ KeyInv(k) /\ Len(asked[k]) \in Nat
    BY KeyOfCall DEF LockInv, LockTypes
  <2>4. ASSUME NEW i \in 1 .. Len(asked[k]), asked[k][i] = o
        PROVE  ThroughBefore(k, i)
    <3>1. CASE InSection(o)
      BY <2>3, <2>4, <3>1 DEF KeyInv, InTurn
    <3>2. CASE Served(o) /\ i > 1 /\ previous[o] = asked[k][i - 1]
      <4>1. i - 1 \in 1 .. Len(asked[k]) /\ asked[k][i - 1] \in Calls
        BY <2>3, <3>2 DEF LockInv, LockTypes
      <4>2. asked[k][i - 1] \in released
        BY <3>2, <4>1 DEF Served
      <4>3. ThroughBefore(k, i - 1)
        BY <2>3, <4>1, <4>2 DEF KeyInv, InTurn
      <4> QED
        BY <2>3, <4>1, <4>2, <4>3 DEF ThroughBefore
    <3> QED
      BY <2>1, <2>3, <2>4, <3>1, <3>2 DEF KeyInv, Chained
  <2>5. to \in Pc
    BY DEF Pc
  <2> QED
    BY <2>1, <2>2, <2>4, <2>5, MoveKeepsLock
<1>5. ASSUME NEW o \in Calls, Put(o) \/ StorageThrows(o)
      PROVE  LockInv'
  <2>1. /\ InSection(o) /\ Release(o) /\ UNCHANGED snapshot
        /\ \E to \in {"done", "failed"} : Goes(o, to)
    BY <1>5 DEF Put, StorageThrows, InSection
  <2> QED
    BY <2>1, ReleaseKeepsLock
<1>6. ASSUME NEW p \in Tracked, Settle(p)
      PROVE  UNCHANGED <<lockVars, pc, snapshot>>
  BY <1>6 DEF Settle
<1>7. CASE Destroy \/ DrainAgain
  BY <1>1, <1>7 DEF Destroy, DrainAgain, Drain
<1>8. CASE Stopped \/ UNCHANGED vars
  BY <1>1, <1>8 DEF Stopped, vars
<1> QED
  BY <1>1, <1>2, <1>3, <1>4, <1>5, <1>6, <1>7, <1>8 DEF Next, Call, Step

\* What a step does to the two objects: nothing, or what one call brings.
ObjectStep ==
  \/ UNCHANGED storeVars
  \/ \E o \in Updates \cup Runs : meta' = Merged(meta, o) /\ UNCHANGED messages
  \/ \E a \in Appends : messages' = Append(messages, a) /\ UNCHANGED meta

\* A call writes what it read with its own part added; what it read still holds.
LEMMA WriteIsOneStep ==
  ASSUME IInv, NEW o \in Calls, pc[o] = "writing", Write(o)
  PROVE  /\ ObjectStep
         /\ \A q \in Calls : KeyOf(q) # KeyOf(o) => UNCHANGED Object(q)
<1>1. snapshot[o] = Object(o)
  BY DEF IInv, Fresh
<1>2. CASE o \in Appends
  <2>1. messages' = Append(messages, o) /\ UNCHANGED meta
    BY <1>1, <1>2 DEF Write, Object
  <2> QED
    BY <1>2, <2>1 DEF ObjectStep, Object, KeyOf
<1>3. CASE o \notin Appends
  <2>1. meta' = Merged(meta, o) /\ UNCHANGED messages
    BY <1>1, <1>3 DEF Write, Object
  <2>2. o \in Updates \cup Runs
    BY <1>3 DEF Calls
  <2> QED
    BY <1>3, <2>1, <2>2 DEF ObjectStep, Object, KeyOf
<1> QED
  BY <1>2, <1>3

LEMMA ObjectsStep ==
  ASSUME IInv, [Next]_vars
  PROVE  ObjectStep /\ \A q \in Calls : Fresh(q)' /\ OneWay(q)'
<1> USE CallsAssumption
<1> LockInv /\ LockTypes
  BY DEF IInv, LockInv
<1>1. CASE UNCHANGED <<storeVars, hasAppend, pc, snapshot>>
  BY <1>1 DEF IInv, Fresh, OneWay, Object, Active, ObjectStep, storeVars
<1>2. ASSUME NEW o \in Calls, NEW to \in Pc \ {"writing"}, Goes(o, to),
             UNCHANGED <<storeVars, hasAppend, snapshot>>,
             to \in {"waiting", "reading"} /\ o \in Appends => Active(o) \/ ~hasAppend
      PROVE  ObjectStep /\ \A q \in Calls : Fresh(q)' /\ OneWay(q)'
  <2>1. pc'[o] = to /\ \A q \in Calls \ {o} : pc'[q] = pc[q]
    BY <1>2 DEF Goes, LockTypes
  <2> QED
    BY <1>2, <2>1 DEF IInv, Fresh, OneWay, Object, Active, ObjectStep, storeVars
<1>3. ASSUME NEW o \in Updates \cup Runs, CallUpdate(o) \/ CallCreateRun(o)
      PROVE  ObjectStep /\ \A q \in Calls : Fresh(q)' /\ OneWay(q)'
  <2>1. o \in Calls /\ o \notin Appends
    BY DEF Calls
  <2> QED
    BY <1>2, <1>3, <2>1 DEF CallUpdate, CallCreateRun, Pc
<1>4. ASSUME NEW o \in Calls,
             CallAppend(o) \/ AskForAppend(o) \/ AskThrows(o) \/ Enter(o)
      PROVE  ObjectStep /\ \A q \in Calls : Fresh(q)' /\ OneWay(q)'
  BY <1>2, <1>4 DEF CallAppend, AskForAppend, AskThrows, Enter, Active, Pc
<1>5. ASSUME NEW o \in Calls, Get(o)
      PROVE  ObjectStep /\ \A q \in Calls : Fresh(q)' /\ OneWay(q)'
  <2>1. /\ pc[o] = "reading" /\ pc'[o] = "writing" /\ snapshot'[o] = Object(o)
        /\ \A q \in Calls \ {o} : pc'[q] = pc[q] /\ snapshot'[q] = snapshot[q]
        /\ UNCHANGED <<storeVars, hasAppend>>
    BY <1>5 DEF Get, Goes, LockTypes
  <2> QED
    BY <2>1 DEF IInv, Fresh, OneWay, Object, Active, ObjectStep, storeVars
<1>6. ASSUME NEW o \in Calls, pc[o] = "writing", Write(o), NEW to \in {"done", "failed"},
             Goes(o, to), UNCHANGED <<hasAppend, snapshot>>
      PROVE  ObjectStep /\ \A q \in Calls : Fresh(q)' /\ OneWay(q)'
  <2>1. pc'[o] = to /\ \A q \in Calls \ {o} : pc'[q] = pc[q]
    BY <1>6 DEF Goes, LockTypes
  <2>2. ASSUME NEW q \in Calls, pc'[q] = "writing"
        PROVE  snapshot'[q] = Object(q)'
    <3>1. q # o /\ pc[q] = "writing" /\ KeyOf(q) # KeyOf(o)
      BY <1>6, <2>1, <2>2, OneWriter DEF InSection
    <3> QED
      BY <1>6, <3>1, WriteIsOneStep DEF IInv, Fresh
  <2>3. \A q \in Calls : OneWay(q)'
    BY <1>6, <2>1 DEF IInv, OneWay, Active
  <2> QED
    BY <1>6, <2>2, <2>3, WriteIsOneStep DEF Fresh
<1>7. ASSUME NEW o \in Calls, Put(o) \/ StorageThrows(o)
      PROVE  ObjectStep /\ \A q \in Calls : Fresh(q)' /\ OneWay(q)'
  <2>1. \/ /\ pc[o] = "writing" /\ Write(o) /\ UNCHANGED <<hasAppend, snapshot>>
           /\ \E to \in {"done", "failed"} : Goes(o, to)
        \/ Goes(o, "failed") /\ UNCHANGED <<storeVars, hasAppend, snapshot>>
    BY <1>7 DEF Put, StorageThrows
  <2> QED
    BY <1>2, <1>6, <2>1 DEF Pc
<1>8. ASSUME NEW a \in Appends, AppendObject(a)
      PROVE  ObjectStep /\ \A q \in Calls : Fresh(q)' /\ OneWay(q)'
  <2>1. /\ hasAppend /\ a \in Calls /\ pc'[a] = "done" /\ \A q \in Calls \ {a} : pc'[q] = pc[q]
        /\ messages' = Append(messages, a) /\ UNCHANGED <<meta, hasAppend, snapshot>>
    BY <1>8 DEF AppendObject, Goes, LockTypes, Calls
  <2>2. ASSUME NEW q \in Calls, pc'[q] = "writing"
        PROVE  q \notin Appends /\ pc[q] = "writing"
    BY <2>1, <2>2 DEF IInv, OneWay, Active
  <2> QED
    BY <2>1, <2>2 DEF IInv, Fresh, OneWay, Object, Active, ObjectStep
<1>9. ASSUME NEW p \in Tracked, Settle(p)
      PROVE  UNCHANGED <<storeVars, hasAppend, pc, snapshot>>
  BY <1>9 DEF Settle
<1>10. CASE Destroy \/ DrainAgain \/ Stopped \/ UNCHANGED vars
  BY <1>1, <1>10 DEF Destroy, DrainAgain, Drain, Stopped, vars
<1>11. ASSUME NEW o \in Calls, Call(o) \/ Step(o) \/ AskThrows(o) \/ StorageThrows(o)
       PROVE  ObjectStep /\ \A q \in Calls : Fresh(q)' /\ OneWay(q)'
  <2>1. CASE Call(o)
    BY <1>3, <1>4, <2>1 DEF Call
  <2>2. CASE Step(o)
    BY <1>4, <1>5, <1>7, <1>8, <2>2 DEF Step
  <2> QED
    BY <1>4, <1>7, <1>11, <2>1, <2>2
<1> QED
  BY <1>1, <1>9, <1>10, <1>11 DEF Next

-----------------------------------------------------------------------------
(* Theorems *)

LEMMA Inductive == Spec => []IInv
<1>1. Init => IInv
  BY CallsAssumption DEF Init, IInv, LockInv, LockTypes, KeyInv, Askers, Chained, InTurn,
     TailIsLast, ThroughBefore, CallInv, Fresh, OneWay, Active, Over, InSection, Pc
<1>2. IInv /\ [Next]_vars => IInv'
  BY LockStep, ObjectsStep DEF IInv
<1> QED
  BY <1>1, <1>2, PTL DEF Spec

\* Types of the store, for any calls and fields.
THEOREM StoreTypes == Spec => []TypeOK
<1> USE CallsAssumption
<1>1. Init => TypeOK
  BY DEF Init, TypeOK, Nothing, T!Nothing, Pc
<1>2. IInv /\ IInv' /\ TypeOK /\ [Next]_vars => TypeOK'
  <2> SUFFICES ASSUME IInv, IInv', TypeOK, [Next]_vars PROVE TypeOK'
    OBVIOUS
  <2>1. LockTypes'
    BY DEF IInv, LockInv
  <2>2. /\ meta' \in [metadata : [Fields -> Updates \cup {None}], latestRunId : Runs \cup {None}]
        /\ messages' \in Seq(Appends)
    <3>1. ObjectStep
      BY ObjectsStep
    <3>2. ASSUME NEW u \in Updates, meta' = [meta EXCEPT !.metadata[FieldOf[u]] = u]
          PROVE  meta' \in [metadata : [Fields -> Updates \cup {None}],
                            latestRunId : Runs \cup {None}]
      BY <3>2 DEF TypeOK
    <3>3. ASSUME NEW r \in Runs, meta' = [meta EXCEPT !.latestRunId = r]
          PROVE  meta' \in [metadata : [Fields -> Updates \cup {None}],
                            latestRunId : Runs \cup {None}]
      BY <3>3 DEF TypeOK
    <3>4. ASSUME NEW a \in Appends, messages' = Append(messages, a)
          PROVE  messages' \in Seq(Appends)
      BY <3>4 DEF TypeOK
    <3>5. ASSUME NEW o \in Updates \cup Runs, meta' = Merged(meta, o)
          PROVE  meta' \in [metadata : [Fields -> Updates \cup {None}],
                            latestRunId : Runs \cup {None}]
      BY <3>2, <3>3, <3>5 DEF Merged, T!Merged
    <3> QED
      BY <3>1, <3>4, <3>5 DEF TypeOK, ObjectStep, storeVars
  <2>3. hasAppend' \in BOOLEAN /\ pending' \subseteq Tracked
    BY DEF TypeOK, Next, Call, CallUpdate, CallCreateRun, CallAppend, Step, AppendObject,
       AskForAppend, Enter, Get, Put, AskThrows, StorageThrows, Settle, Destroy, DrainAgain,
       Drain, Stopped, vars, drainVars, indexUnlessThrottled, writeThreadActivityIndex,
       Tracked, Calls
  <2>4. draining' \subseteq Tracked /\ phase' \in {"up", "draining", "down"}
    BY DEF TypeOK, Next, Call, CallUpdate, CallCreateRun, CallAppend, Step, AppendObject,
       AskForAppend, Enter, Get, Put, AskThrows, StorageThrows, Settle, Destroy, DrainAgain,
       Drain, Stopped, vars, drainVars
  <2>5. faults' \in 0 .. MaxFaults
    BY DEF TypeOK, Next, Call, CallUpdate, CallCreateRun, CallAppend, Step, AppendObject,
       AskForAppend, Enter, Get, Put, AskThrows, StorageThrows, Settle, Destroy, DrainAgain,
       Drain, Stopped, vars, Throws
  <2> QED
    BY <2>1, <2>2, <2>3, <2>4, <2>5 DEF TypeOK, LockTypes
<1> QED
  BY <1>1, <1>2, Inductive, PTL DEF Spec

\* runExclusive serves the calls on one object one at a time, in the order they
\* asked, whatever throws.
THEOREM FirstComeFirstServed == Spec => []ServedInOrder
<1>1. IInv => ServedInOrder
  <2> SUFFICES ASSUME IInv, NEW o \in Calls, InSection(o)
               PROVE  \E i \in 1 .. Len(asked[KeyOf(o)]) :
                         /\ asked[KeyOf(o)][i] = o
                         /\ \A j \in 1 .. i - 1 : asked[KeyOf(o)][j] \in released
    BY DEF ServedInOrder
  <2>1. /\ KeyOf(o) \in Keys /\ KeyInv(KeyOf(o)) /\ CallInv(o)
        /\ Len(asked[KeyOf(o)]) \in Nat
    BY KeyOfCall DEF IInv, LockInv, LockTypes
  <2>2. PICK i \in 1 .. Len(asked[KeyOf(o)]) : asked[KeyOf(o)][i] = o
    BY <2>1 DEF CallInv, Active, InSection
  <2>3. ThroughBefore(KeyOf(o), i)
    BY <2>1, <2>2 DEF KeyInv, InTurn
  <2> QED
    BY <2>1, <2>2, <2>3 DEF ThroughBefore
<1> QED
  BY <1>1, Inductive, PTL

\* The maps of promises hold no entry of a key nobody uses.
THEOREM NoLeak == Spec => []TailsAreDropped
<1>1. IInv => TailsAreDropped
  <2> SUFFICES ASSUME IInv, NEW k \in Keys, tails[k] # None
               PROVE  \E o \in Calls : KeyOf(o) = k /\ (pc[o] = "waiting" \/ InSection(o))
    BY DEF TailsAreDropped
  <2>1. /\ KeyInv(k) /\ tails[k] \in Calls /\ Len(asked[k]) \in Nat
    BY DEF IInv, LockInv, LockTypes
  <2>2. /\ KeyOf(tails[k]) = k /\ tails[k] \notin released
        /\ Active(tails[k])
    BY <2>1 DEF KeyInv, Askers, TailIsLast
  <2> QED
    BY <2>1, <2>2 DEF Active, InSection
<1> QED
  BY <1>1, Inductive, PTL

-----------------------------------------------------------------------------
(* The pointer to the latest run. *)

\* Nothing that counts happens to the runs recorded: the pointer stays, no run
\* is done that was not, and who asks anew is not done.
LEMMA NewestStays ==
  ASSUME IInv, LatestRunIsNewest, meta'.latestRunId = meta.latestRunId,
         \A r \in Runs : pc'[r] = "done" => pc[r] = "done",
         \/ asked'["meta"] = asked["meta"]
         \/ \E o \in Calls : pc'[o] = "waiting" /\ asked'["meta"] = Append(asked["meta"], o)
  PROVE  LatestRunIsNewest'
<1> DEFINE calls == asked["meta"]
<1>1. calls \in Seq(Calls) /\ Len(calls) \in Nat
  BY DEF IInv, LockInv, LockTypes, Keys
<1>2. CASE calls' = calls
  BY <1>1, <1>2 DEF LatestRunIsNewest
<1>3. ASSUME NEW o \in Calls, pc'[o] = "waiting", calls' = Append(calls, o)
      PROVE  LatestRunIsNewest'
  <2>1. /\ Len(calls') = Len(calls) + 1 /\ calls'[Len(calls) + 1] = o
        /\ \A i \in 1 .. Len(calls) : calls'[i] = calls[i]
    BY <1>1, <1>3
  <2> SUFFICES ASSUME NEW i \in 1 .. Len(calls'), NEW j \in 1 .. Len(calls'), i < j,
                      calls'[j] \in Runs, pc'[calls'[j]] = "done"
               PROVE  meta'.latestRunId # calls'[i]
    BY DEF LatestRunIsNewest
  <2>2. j # Len(calls) + 1
    BY <1>3, <2>1
  <2>3. i \in 1 .. Len(calls) /\ j \in 1 .. Len(calls)
    BY <1>1, <2>1, <2>2
  <2>4. calls[j] \in Runs /\ pc[calls[j]] = "done"
    BY <2>1, <2>3
  <2> QED BY <2>1, <2>3, <2>4 DEF LatestRunIsNewest
<1> QED BY <1>2, <1>3

\* A run that writes itself down: who asked before it is older, and nobody who
\* asked after it is through.
LEMMA NewestWritten ==
  ASSUME IInv, NEW r \in Runs, InSection(r), meta'.latestRunId = r,
         \A q \in Runs \ {r} : pc'[q] = "done" => pc[q] = "done",
         UNCHANGED asked
  PROVE  LatestRunIsNewest'
<1> DEFINE calls == asked["meta"]
<1>1. /\ "meta" \in Keys /\ KeyInv("meta") /\ Len(calls) \in Nat
      /\ r \in Calls /\ KeyOf(r) = "meta" /\ CallInv(r)
  BY CallsAssumption DEF IInv, LockInv, LockTypes, Keys, KeyOf, Calls
<1>2. PICK n \in 1 .. Len(calls) : calls[n] = r
  BY <1>1 DEF CallInv, Active, InSection
<1>3. r \notin released
  BY <1>1 DEF CallInv, Over, InSection
<1> SUFFICES ASSUME NEW i \in 1 .. Len(calls), NEW j \in 1 .. Len(calls), i < j,
                    calls[j] \in Runs, pc'[calls[j]] = "done"
             PROVE  r # calls[i]
  BY DEF LatestRunIsNewest
<1>4. SUFFICES ASSUME calls[i] = r PROVE FALSE
  OBVIOUS
<1>5. calls[j] # r
  BY <1>1, <1>4 DEF KeyInv, Askers
<1>6. calls[j] \in released
  BY <1>1, <1>5 DEF KeyInv, Askers, Active
<1>7. calls[i] \in released
  BY <1>1, <1>6 DEF KeyInv, InTurn, ThroughBefore
<1> QED BY <1>3, <1>4, <1>7

LEMMA NewestStep ==
  ASSUME IInv, TypeOK, LatestRunIsNewest, [Next]_vars
  PROVE  LatestRunIsNewest'
<1> USE CallsAssumption
<1>0. LockTypes /\ None \notin Calls
  BY DEF IInv, LockInv
<1>1. CASE UNCHANGED <<meta, pc, asked>>
  BY <1>1, NewestStays
<1>2. ASSUME NEW o \in Calls, NEW to \in Pc \ {"done"}, Goes(o, to), UNCHANGED <<meta, asked>>
      PROVE  LatestRunIsNewest'
  <2>1. \A q \in Runs : pc'[q] = "done" => pc[q] = "done"
    BY <1>0, <1>2 DEF Goes, LockTypes, Calls
  <2> QED BY <1>2, <2>1, NewestStays
<1>3. ASSUME NEW o \in Calls, CallUpdate(o) \/ CallCreateRun(o) \/ AskForAppend(o)
      PROVE  LatestRunIsNewest'
  <2>1. Goes(o, "waiting") /\ Enqueue(o) /\ UNCHANGED meta
    BY <1>3 DEF CallUpdate, CallCreateRun, AskForAppend, storeVars
  <2>2. pc'[o] = "waiting" /\ \A q \in Runs : pc'[q] = "done" => pc[q] = "done"
    BY <1>0, <2>1 DEF Goes, LockTypes, Calls
  <2>3. asked'["meta"] = asked["meta"] \/ asked'["meta"] = Append(asked["meta"], o)
    BY <1>0, <2>1 DEF Enqueue, LockTypes, Keys, KeyOf
  <2> QED BY <2>1, <2>2, <2>3, NewestStays
<1>4. ASSUME NEW o \in Calls, CallAppend(o) \/ AskThrows(o) \/ Enter(o) \/ Get(o)
      PROVE  LatestRunIsNewest'
  BY <1>2, <1>4 DEF CallAppend, AskThrows, Enter, Get, storeVars, lockVars, Pc
<1>5. ASSUME NEW a \in Appends, AppendObject(a)
      PROVE  LatestRunIsNewest'
  <2>1. Goes(a, "done") /\ UNCHANGED <<meta, asked>> /\ a \notin Runs /\ a \in Calls
    BY <1>5 DEF AppendObject, lockVars, Calls
  <2>2. \A q \in Runs : pc'[q] = "done" => pc[q] = "done"
    BY <1>0, <2>1 DEF Goes, LockTypes, Calls
  <2> QED BY <2>1, <2>2, NewestStays
<1>6. ASSUME NEW o \in Calls, Put(o) \/ StorageThrows(o)
      PROVE  LatestRunIsNewest'
  <2>1. /\ InSection(o) /\ UNCHANGED asked
        /\ \/ UNCHANGED meta /\ Goes(o, "failed")
           \/ pc[o] = "writing" /\ Write(o) /\ \E to \in {"done", "failed"} : Goes(o, to)
    BY <1>6 DEF Put, StorageThrows, Release, InSection, storeVars
  <2>2. \A q \in Runs \ {o} : pc'[q] = "done" => pc[q] = "done"
    BY <1>0, <2>1 DEF Goes, LockTypes, Calls
  <2>3. CASE UNCHANGED meta /\ Goes(o, "failed")
    BY <1>2, <2>1, <2>3 DEF Pc
  <2>4. CASE pc[o] = "writing" /\ Write(o)
    <3>1. snapshot[o] = Object(o)
      BY <2>4 DEF IInv, Fresh
    <3>2. CASE o \in Runs
      <4>1. meta' = [meta EXCEPT !.latestRunId = o]
        BY <2>4, <3>1, <3>2 DEF Write, Object, Merged, T!Merged
      <4>2. meta'.latestRunId = o
        BY <4>1 DEF TypeOK
      <4> QED BY <2>1, <2>2, <3>2, <4>2, NewestWritten
    <3>3. CASE o \notin Runs
      <4>1. CASE o \in Appends
        <5>1. UNCHANGED meta
          BY <2>4, <4>1 DEF Write
        <5> QED BY <2>1, <2>2, <3>3, <5>1, NewestStays
      <4>2. CASE o \in Updates
        <5>1. meta' = [meta EXCEPT !.metadata[FieldOf[o]] = o]
          BY <2>4, <3>1, <4>2 DEF Write, Object, Merged, T!Merged
        <5>2. meta'.latestRunId = meta.latestRunId
          BY <5>1 DEF TypeOK
        <5> QED BY <2>1, <2>2, <3>3, <5>2, NewestStays
      <4> QED BY <3>3, <4>1, <4>2 DEF Calls
    <3> QED BY <3>2, <3>3
  <2> QED BY <2>1, <2>3, <2>4
<1>7. ASSUME NEW p \in Tracked, Settle(p)
      PROVE  UNCHANGED <<meta, pc, asked>>
  BY <1>7 DEF Settle, storeVars, lockVars
<1>8. CASE Destroy \/ DrainAgain \/ Stopped \/ UNCHANGED vars
  BY <1>1, <1>8 DEF Destroy, DrainAgain, Drain, Stopped, vars, storeVars, lockVars
<1> QED
  BY <1>1, <1>3, <1>4, <1>5, <1>6, <1>7, <1>8 DEF Next, Call, Step

\* Neither the maps nor the pointer of a thread outlive what they stand for: no
\* entry without a call, and no older run once a newer one was recorded.
THEOREM Tidy == Spec => []ThreadIsTidy
<1>1. Init => LatestRunIsNewest
  BY DEF Init, LatestRunIsNewest, Keys
<1>2. TailsAreDropped /\ LatestRunIsNewest => ThreadIsTidy
  BY DEF ThreadIsTidy
<1> QED
  BY <1>1, <1>2, NewestStep, Inductive, StoreTypes, NoLeak, PTL DEF Spec

\* The store implements ThreadObject: no call undoes another.
THEOREM Implements == Spec => T!Spec
<1>1. Init => T!Init
  BY DEF Init, T!Init, Nothing
<1>2. IInv /\ [Next]_vars => [T!Next]_<<meta, messages>>
  BY ObjectsStep DEF ObjectStep, T!Next, Merged, storeVars
<1> QED
  BY <1>1, <1>2, Inductive, PTL DEF Spec, T!Spec

THEOREM NoUpdateIsLost == Spec => NoLostUpdate
BY Implements DEF NoLostUpdate

-----------------------------------------------------------------------------
(* The runs that destroy waits for *)

\* A run that has yet to record itself is tracked.
RecordsTracked ==
  \A r \in Runs : pc[r] \in {"idle", "done", "failed"} \/ (Active(r) /\ Record(r) \in pending)

LEMMA RecordsStep ==
  ASSUME LockTypes, RecordsTracked, [Next]_vars
  PROVE  RecordsTracked'
<1> SUFFICES ASSUME NEW r \in Runs
             PROVE  \/ pc'[r] \in {"idle", "done", "failed"}
                    \/ pc'[r] \in {"waiting", "reading", "writing"} /\ Record(r) \in pending'
  BY DEF RecordsTracked, Active
<1> USE CallsAssumption DEF LockTypes, RecordsTracked, Active, Goes, Calls
<1>1. ASSUME NEW o \in Calls, Call(o)
      PROVE  /\ pc' \in [Calls -> Pc] /\ \A q \in Calls : q # o => pc'[q] = pc[q]
             /\ o \in Runs => pc'[o] = "waiting" /\ Record(o) \in pending'
             /\ pending \subseteq pending'
  BY <1>1 DEF Call, CallUpdate, CallCreateRun, CallAppend, Pc, drainVars
<1>2. ASSUME NEW o \in Calls, Step(o)
      PROVE  /\ \A q \in Calls : q # o => pc'[q] = pc[q]
             /\ o \in Runs => \/ pc'[o] = "done"
                              \/ Active(o) /\ pc'[o] \in {"reading", "writing"}
             /\ pending \subseteq pending'
  BY <1>2 DEF Step, AppendObject, AskForAppend, Enter, Get, Put, drainVars,
     indexUnlessThrottled, writeThreadActivityIndex
<1>3. ASSUME NEW o \in Calls, AskThrows(o) \/ StorageThrows(o)
      PROVE  pc'[o] = "failed" /\ pending' = pending /\ \A q \in Calls : q # o => pc'[q] = pc[q]
  BY <1>3 DEF AskThrows, StorageThrows, drainVars
<1>4. ASSUME NEW p \in Tracked, Settle(p)
      PROVE  pc' = pc /\ (p = Record(r) => pc[r] \in {"done", "failed"}) /\ pending' = pending \ {p}
  BY <1>4 DEF Settle
<1>5. CASE Destroy \/ DrainAgain \/ Stopped \/ UNCHANGED vars
  BY <1>5 DEF Destroy, DrainAgain, Drain, Stopped, vars, drainVars
<1>6. r \in Calls
  OBVIOUS
<1>7. ASSUME NEW o \in Calls, Call(o)
      PROVE  \/ pc'[r] \in {"idle", "done", "failed"}
             \/ pc'[r] \in {"waiting", "reading", "writing"} /\ Record(r) \in pending'
  BY <1>1, <1>6, <1>7
<1>8. ASSUME NEW o \in Calls, Step(o)
      PROVE  \/ pc'[r] \in {"idle", "done", "failed"}
             \/ pc'[r] \in {"waiting", "reading", "writing"} /\ Record(r) \in pending'
  BY <1>2, <1>6, <1>8
<1>9. ASSUME NEW o \in Calls, AskThrows(o) \/ StorageThrows(o)
      PROVE  \/ pc'[r] \in {"idle", "done", "failed"}
             \/ pc'[r] \in {"waiting", "reading", "writing"} /\ Record(r) \in pending'
  BY <1>3, <1>6, <1>9
<1>10. ASSUME NEW p \in Tracked, Settle(p)
      PROVE  \/ pc'[r] \in {"idle", "done", "failed"}
             \/ pc'[r] \in {"waiting", "reading", "writing"} /\ Record(r) \in pending'
  BY <1>4, <1>6, <1>10
<1> QED BY <1>5, <1>7, <1>8, <1>9, <1>10 DEF Next

\* When destroy closes the client no run is on its way to record itself: its
\* promise is tracked, and the last look at what is tracked has found nothing
\* (awaitPendingWrites).
THEOREM RunsAreRecorded == Spec => RecordedBeforeDown
<1>1. Init => RecordsTracked
  BY CallsAssumption DEF Init, RecordsTracked, Calls
<1>2. IInv => LockTypes
  BY DEF IInv, LockInv
<1>3. RecordsTracked /\ [Next]_vars =>
        [phase' = "down" /\ phase # "down" =>
           \A r \in Runs : pc[r] \in {"idle", "done", "failed"}]_vars
  <2> SUFFICES ASSUME RecordsTracked, Next, phase' = "down", phase # "down"
               PROVE  \A r \in Runs : pc[r] \in {"idle", "done", "failed"}
    OBVIOUS
  <2>1. Drain
    BY DEF Next, Call, CallUpdate, CallCreateRun, CallAppend, Step, AppendObject, AskForAppend,
       Enter, Get, Put, AskThrows, StorageThrows, Settle, Destroy, DrainAgain, Stopped, vars,
       drainVars
  <2>2. pending = {}
    BY <2>1 DEF Drain
  <2> QED BY <2>2 DEF RecordsTracked
<1> QED BY <1>1, <1>2, <1>3, RecordsStep, Inductive, PTL DEF Spec, RecordedBeforeDown
=============================================================================
