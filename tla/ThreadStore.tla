------------------------------ MODULE ThreadStore ------------------------------
(***************************************************************************)
(* The thread half of OSSAgentStore: one thread of one process.            *)
(*                                                                         *)
(* updateThreadMetadata, the background recordLatestRunId of createRun and, *)
(* when the storage client has no append, appendMessages read an object,   *)
(* change it and write it back.  runExclusive makes each wait for the one  *)
(* that asked before it: a map keeps the promise of the last caller per    *)
(* key, a caller chains itself to it, and drops the entry when it is still *)
(* the last.  Index writes and latestRunId writes run in the background    *)
(* and are tracked, so that destroy can wait for them.                     *)
(***************************************************************************)
EXTENDS Naturals, Sequences, FiniteSets

CONSTANTS
  Updates, Runs, Appends, Fields, FieldOf, None,
  ClientKinds,   \* does the storage client have an atomic append?
  MaxFaults      \* bound on the storage calls that throw

Calls == Updates \cup Runs \cup Appends
Keys == {"meta", "messages"}

ASSUME CallsAssumption ==
  /\ Updates \cap Runs = {} /\ Updates \cap Appends = {} /\ Runs \cap Appends = {}
  /\ None \notin Calls
  /\ FieldOf \in [Updates -> Fields]
  /\ ClientKinds \subseteq BOOLEAN /\ MaxFaults \in Nat

VARIABLES
  meta,          \* meta.json
  messages,      \* messages.jsonl
  hasAppend,     \* the client's append is defined
  tails,         \* threadMetaWriteTails and threadAppendTails: the last caller
  previous,      \* whose promise a caller awaits
  released,      \* callers whose `current' promise is resolved
  pc,            \* where each call is
  snapshot,      \* what a call has read
  asked,         \* the calls in the order they asked for the lock of a key
  pending,       \* pendingIndexWrites
  phase,         \* the store: up, in destroy, down
  draining,      \* what Promise.allSettled waits for
  faults

T == INSTANCE ThreadObject
Nothing == T!Nothing
Merged(m, o) == T!Merged(m, o)

lockVars == <<tails, previous, released, asked>>
storeVars == <<meta, messages>>
drainVars == <<pending, phase, draining>>
vars == <<storeVars, hasAppend, lockVars, pc, snapshot, drainVars, faults>>

Pc == {"idle", "asking", "waiting", "reading", "writing", "done", "failed"}

KeyOf(o) == IF o \in Appends THEN "messages" ELSE "meta"
Object(o) == IF o \in Appends THEN messages ELSE meta

\* The background promises: an index write of a call, the record of a run.
Index(o) == <<"index", o>>
Record(r) == <<"record", r>>
Tracked == {Index(o) : o \in Updates \cup Appends} \cup {Record(r) : r \in Runs}

Init ==
  /\ meta = Nothing /\ messages = <<>>
  /\ hasAppend \in ClientKinds
  /\ tails = [k \in Keys |-> None]
  /\ previous = [o \in Calls |-> None]
  /\ released = {}
  /\ pc = [o \in Calls |-> "idle"]
  /\ snapshot = [o \in Calls |-> None]
  /\ asked = [k \in Keys |-> <<>>]
  /\ pending = {} /\ phase = "up" /\ draining = {}
  /\ faults = 0

-----------------------------------------------------------------------------
(* runExclusive *)

Goes(o, to) == pc' = [pc EXCEPT ![o] = to]

\* Mutation: the chain of another map: a new caller does not see the last one.
Enqueue_Bug(o) ==
  /\ previous' = [previous EXCEPT ![o] = None]
  /\ tails' = [tails EXCEPT ![KeyOf(o)] = o]
  /\ asked' = [asked EXCEPT ![KeyOf(o)] = Append(@, o)]
  /\ UNCHANGED released

\* The synchronous part of runExclusive: chain to the last caller.
Enqueue(o) ==
  /\ previous' = [previous EXCEPT ![o] = tails[KeyOf(o)]]
  /\ tails' = [tails EXCEPT ![KeyOf(o)] = o]
  /\ asked' = [asked EXCEPT ![KeyOf(o)] = Append(@, o)]
  /\ UNCHANGED released

\* `await previous' is over.
Served(o) == previous[o] \in released \cup {None}

\* Mutation: the entry is dropped only when the caller had nobody before it.
Release_Bug(o) ==
  /\ released' = released \cup {o}
  /\ tails' = IF tails[KeyOf(o)] = o /\ previous[o] = None
              THEN [tails EXCEPT ![KeyOf(o)] = None] ELSE tails
  /\ UNCHANGED <<previous, asked>>

\* The finally block.
Release(o) ==
  /\ released' = released \cup {o}
  /\ tails' = IF tails[KeyOf(o)] = o THEN [tails EXCEPT ![KeyOf(o)] = None] ELSE tails
  /\ UNCHANGED <<previous, asked>>

-----------------------------------------------------------------------------
(* The calls *)

Throws == faults < MaxFaults /\ faults' = faults + 1

\* updateThreadMetadata asks for the lock at once.
CallUpdate(u) ==
  /\ pc[u] = "idle"
  /\ Goes(u, "waiting")
  /\ Enqueue(u)
  /\ UNCHANGED <<storeVars, hasAppend, snapshot, drainVars, faults>>

\* createRun stores the run; the promise of recordLatestRunId is tracked and has
\* asked for the lock before createRun returns.
CallCreateRun(r) ==
  /\ pc[r] = "idle"
  /\ Goes(r, "waiting")
  /\ Enqueue(r)
  /\ pending' = pending \cup {Record(r)}
  /\ UNCHANGED <<storeVars, hasAppend, snapshot, phase, draining, faults>>

\* appendMessages reads the metadata first.
CallAppend(a) ==
  /\ pc[a] = "idle"
  /\ Goes(a, "asking")
  /\ UNCHANGED <<storeVars, hasAppend, lockVars, snapshot, drainVars, faults>>

\* The activity index entry is written in the background.
writeThreadActivityIndex(o) == pending' = pending \cup {Index(o)}

\* After an append the throttle may hold the entry back.
indexUnlessThrottled(a) == writeThreadActivityIndex(a) \/ UNCHANGED pending

\* The client has an atomic append.
AppendObject(a) ==
  /\ pc[a] = "asking" /\ hasAppend
  /\ messages' = Append(messages, a)
  /\ Goes(a, "done")
  /\ indexUnlessThrottled(a)
  /\ UNCHANGED <<meta, hasAppend, lockVars, snapshot, phase, draining, faults>>

\* It has none: get, concat and put under the lock.
AskForAppend(a) ==
  /\ pc[a] = "asking" /\ ~hasAppend
  /\ Goes(a, "waiting")
  /\ Enqueue(a)
  /\ UNCHANGED <<storeVars, hasAppend, snapshot, drainVars, faults>>

\* The storage call before the lock throws.
AskThrows(o) ==
  /\ \/ o \in Runs /\ pc[o] = "idle"
     \/ o \in Appends /\ pc[o] = "asking"
  /\ Throws
  /\ Goes(o, "failed")
  /\ UNCHANGED <<storeVars, hasAppend, lockVars, snapshot, drainVars>>

Enter(o) ==
  /\ pc[o] = "waiting" /\ Served(o)
  /\ Goes(o, "reading")
  /\ UNCHANGED <<storeVars, hasAppend, lockVars, snapshot, drainVars, faults>>

\* Mutation: a value read before the lock was held: the first one.
Get_Bug(o) ==
  /\ pc[o] = "reading"
  /\ snapshot' = [snapshot EXCEPT ![o] = IF o \in Appends THEN <<>> ELSE Nothing]
  /\ Goes(o, "writing")
  /\ UNCHANGED <<storeVars, hasAppend, lockVars, drainVars, faults>>

Get(o) ==
  /\ pc[o] = "reading"
  /\ snapshot' = [snapshot EXCEPT ![o] = Object(o)]
  /\ Goes(o, "writing")
  /\ UNCHANGED <<storeVars, hasAppend, lockVars, drainVars, faults>>

\* What the call writes back.
Write(o) ==
  IF o \in Appends THEN messages' = Append(snapshot[o], o) /\ UNCHANGED meta
  ELSE meta' = Merged(snapshot[o], o) /\ UNCHANGED messages

\* The write succeeds and the lock is released; the record of a run settles,
\* the other calls write the index.
Put(o) ==
  /\ pc[o] = "writing"
  /\ Write(o)
  /\ Release(o)
  /\ Goes(o, "done")
  /\ \/ o \in Updates /\ writeThreadActivityIndex(o)
     \/ o \in Appends /\ indexUnlessThrottled(o)
     \/ o \in Runs /\ UNCHANGED pending
  /\ UNCHANGED <<hasAppend, snapshot, phase, draining, faults>>

\* A read or a write throws, a write perhaps after it took effect.
StorageThrows(o) ==
  /\ \/ pc[o] \in {"reading", "writing"} /\ UNCHANGED storeVars
     \/ pc[o] = "writing" /\ Write(o)
  /\ Throws
  /\ Release(o)
  /\ Goes(o, "failed")
  /\ UNCHANGED <<hasAppend, snapshot, drainVars>>

\* A tracked promise settles: an index write whatever came of it, the record of
\* a run when it has written or given up.
Settle(p) ==
  /\ p \in pending
  /\ \A r \in Runs : p = Record(r) => pc[r] \in {"done", "failed"}
  /\ pending' = pending \ {p}
  /\ UNCHANGED <<storeVars, hasAppend, lockVars, pc, snapshot, phase,
                 draining, faults>>

-----------------------------------------------------------------------------
(* destroy *)

\* awaitPendingWrites looks: wait for what is there, or close the client.
Drain ==
  /\ IF pending = {} THEN phase' = "down" /\ draining' = {}
     ELSE phase' = "draining" /\ draining' = pending
  /\ UNCHANGED <<storeVars, hasAppend, lockVars, pc, snapshot, pending, faults>>

Destroy == phase = "up" /\ Drain

\* Mutation: one look is enough.
DrainAgain_Bug ==
  /\ phase = "draining" /\ draining \cap pending = {}
  /\ phase' = "down" /\ draining' = {}
  /\ UNCHANGED <<storeVars, hasAppend, lockVars, pc, snapshot, pending, faults>>

\* Everything it waited for has settled: look again.
DrainAgain == phase = "draining" /\ draining \cap pending = {} /\ Drain

\* Nothing is left to do.
Stopped ==
  /\ phase = "down" /\ pending = {}
  /\ \A o \in Calls : pc[o] \in {"done", "failed"}
  /\ UNCHANGED vars

-----------------------------------------------------------------------------

Call(o) ==
  \/ o \in Updates /\ CallUpdate(o)
  \/ o \in Runs /\ CallCreateRun(o)
  \/ o \in Appends /\ CallAppend(o)

Step(o) ==
  \/ o \in Appends /\ (AppendObject(o) \/ AskForAppend(o))
  \/ Enter(o) \/ Get(o) \/ Put(o)

Next ==
  \/ \E o \in Calls : Call(o) \/ Step(o) \/ AskThrows(o) \/ StorageThrows(o)
  \/ \E p \in Tracked : Settle(p)
  \/ Destroy \/ DrainAgain
  \/ Stopped

Spec == Init /\ [][Next]_vars

\* The storage answers and promise continuations run.
FairSpec ==
  /\ Spec
  /\ \A o \in Calls : WF_vars(Step(o) \/ StorageThrows(o))
  /\ \A p \in Tracked : WF_vars(Settle(p))
  /\ WF_vars(DrainAgain)

-----------------------------------------------------------------------------
(* Properties *)

TypeOK ==
  /\ meta \in [metadata : [Fields -> Updates \cup {None}], latestRunId : Runs \cup {None}]
  /\ messages \in Seq(Appends)
  /\ hasAppend \in BOOLEAN
  /\ tails \in [Keys -> Calls \cup {None}]
  /\ previous \in [Calls -> Calls \cup {None}]
  /\ released \subseteq Calls
  /\ pc \in [Calls -> Pc]
  /\ DOMAIN snapshot = Calls
  /\ asked \in [Keys -> Seq(Calls)]
  /\ pending \subseteq Tracked /\ draining \subseteq Tracked
  /\ phase \in {"up", "draining", "down"}
  /\ faults \in 0 .. MaxFaults

\* No call undoes another: the objects change as ThreadObject allows.
NoLostUpdate == T!Spec

InSection(o) == pc[o] \in {"reading", "writing"}

\* runExclusive serves in the order of the calls, one at a time: who reads and
\* writes an object asked for it, and all who asked before are through.
ServedInOrder ==
  \A o \in Calls :
     InSection(o) =>
       \E i \in 1 .. Len(asked[KeyOf(o)]) :
          /\ asked[KeyOf(o)][i] = o
          /\ \A j \in 1 .. i - 1 : asked[KeyOf(o)][j] \in released

\* The maps hold an entry only while a call uses the key: they do not grow with
\* the threads the process has seen.
TailsAreDropped ==
  \A k \in Keys :
     tails[k] # None => \E o \in Calls : KeyOf(o) = k /\ (pc[o] = "waiting" \/ InSection(o))

\* The pointer never shows an older run once a newer one was recorded.
LatestRunIsNewest ==
  LET calls == asked["meta"]
  IN  \A i, j \in 1 .. Len(calls) :
         i < j /\ calls[j] \in Runs /\ pc[calls[j]] = "done" => meta.latestRunId # calls[i]

\* A key keeps nothing of calls that are over, and the run that the thread names
\* is the newest of those recorded (runExclusive, recordLatestRunId).
ThreadIsTidy == TailsAreDropped /\ LatestRunIsNewest

\* destroy closes the client only when every run created so far has recorded
\* itself or given up.
RecordedBeforeDown ==
  [][phase' = "down" /\ phase # "down" =>
       \A r \in Runs : pc[r] \in {"idle", "done", "failed"}]_vars

\* A call that fails does not keep the others waiting, and destroy ends.
NoCallIsLeft ==
  /\ \A o \in Calls : pc[o] \in {"idle", "done", "failed"}
  /\ phase # "draining"
CallsReturn == []<>NoCallIsLeft


-----------------------------------------------------------------------------
\* What TLC takes for FieldOf: updates of one field.
OneField == [u \in Updates |-> CHOOSE f \in Fields : TRUE]
=============================================================================
