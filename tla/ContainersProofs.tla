-------------------------- MODULE ContainersProofs --------------------------
(***************************************************************************)
(* Proofs about what is created on demand and torn down once: a container  *)
(* (EggContainer), the objects of a request context (ContextObjects), and  *)
(* the tasks a request leaves behind (BackgroundTask), for every graph of  *)
(* protos, every set of callers and of tasks, and every bound.             *)
(***************************************************************************)
EXTENDS MCContainers, SequenceTheorems, TLAPS

(* One container.  The invariant ties a promise to the one call that created *)
(* it and to the map that call captured: what a map holds for a proto is      *)
(* written once, by the call whose promise is registered.                     *)

\* What a map holds is an object of the proto that has been READY.
Stores ==
  \A s \in Scopes, p \in Protos :
    store[s][p] # None => store[s][p][1] = p /\ status[store[s][p]] \in Built

Promises ==
  \A p \in Protos : promise[p] # None => promise[p][1] = p /\ status[promise[p]] # "absent"

\* Objects are numbered in the order they are constructed.
Counted ==
  \A o \in Objects : status[o] # "absent" => o[2] <= made[o[1]]

Users ==
  \A c \in Calls : pc[c] \in {"owner", "waiting"} =>
    uses[c] \in Objects /\ uses[c][1] = Want(c) /\ status[uses[c]] # "absent"

\* The creator's promise is registered and its map still has no object.
Owners ==
  \A c \in Calls : pc[c] = "owner" =>
    promise[Want(c)] = uses[c] /\ store[seen[c]][Want(c)] = None

OneOwner ==
  \A c, d \in Calls : pc[c] = "owner" /\ pc[d] = "owner" /\ uses[c] = uses[d] => c = d

\* While its promise is registered a waiter's map has no object ...
Waiters ==
  \A c \in Calls : pc[c] = "waiting" /\ promise[Want(c)] = uses[c] =>
    /\ store[seen[c]][Want(c)] = None
    /\ seen[c] = 0 => \A d \in Calls : pc[d] = "owner" /\ uses[d] = uses[c] => seen[d] = 0

\* ... and after that the first map has the object waited for.
Woken ==
  \A c \in Calls : pc[c] = "waiting" /\ promise[Want(c)] # uses[c] /\ seen[c] = 0 =>
    store[0][Want(c)] = uses[c]

Past == \A c \in Calls : seen[c] = 1 => scope = 1

Answered ==
  \A c \in Calls : pc[c] = "returned" =>
    got[c] # None /\ got[c] = store[seen[c]][Want(c)]

\* A failure in the first scope is a registered promise that rejected.
Failed ==
  \A c \in Calls : pc[c] = "failed" /\ seen[c] = 0 =>
    /\ uses[c] \in Objects /\ status[uses[c]] = "error"
    /\ promise[Want(c)] = uses[c] /\ store[0][Want(c)] = None

\* Objects leave only after destroy has begun.
LeavingInv == phase = "up" => leaving = {}

AllInjected == \A o \in Objects : status[o] \in Built => Injected(o)

ContainerInv ==
  /\ TypeOK /\ Stores /\ Promises /\ Counted /\ Users /\ Owners /\ OneOwner
  /\ Waiters /\ Woken /\ Past /\ Answered /\ Failed /\ AllInjected /\ LeavingInv

-----------------------------------------------------------------------------
(* The constants *)

\* Every call asks for a proto.
LEMMA Wanted == \A c \in Calls : Want(c) \in Protos
BY ContainerAssumption DEF Want, Calls, Injections

\* The injections of an object are calls of distinct protos.
LEMMA InjectionsAreDistinct ==
  ASSUME NEW o \in Objects
  PROVE  /\ InjectionsOf(o) \subseteq Calls
         /\ \A c, d \in InjectionsOf(o) : Want(c) = Want(d) => c = d
BY ContainerAssumption DEF InjectionsOf, Calls, Injections, Objects, Want

\* The next object of a proto has not been constructed.
LEMMA NewIsAbsent ==
  ASSUME TypeOK, Counted, NEW p \in Protos, made[p] < MaxRounds
  PROVE  New(p) \in Objects /\ New(p) # None /\ New(p)[1] = p /\ New(p)[2] = made[p] + 1
         /\ status[New(p)] = "absent"
<1>1. made[p] \in Nat /\ made[p] + 1 \in 1 .. MaxRounds
  BY ContainerAssumption DEF TypeOK
<1>2. New(p) \in Objects /\ New(p)[1] = p /\ New(p)[2] = made[p] + 1
  BY <1>1 DEF New, Objects
<1>3. New(p) # None
  BY <1>2, ContainerAssumption
<1> QED BY <1>1, <1>2, <1>3 DEF Counted

-----------------------------------------------------------------------------
(* The calls that ask in one turn *)

\* A turn of asks, by calls of distinct protos, in which objects only start or
\* reach their injection, keeps the invariant.
LEMMA AskedKeeps ==
  ASSUME ContainerInv,
         NEW C \in SUBSET Calls, \A c, d \in C : Want(c) = Want(d) => c = d,
         Asked(C), UNCHANGED <<downVars, faults>>,
         status' \in [Objects -> {"absent", "pending", "injecting", "error"} \cup Built],
         \A o \in Started(C) : status'[o] = "pending",
         \A o \in Objects \ Started(C) :
           status'[o] = status[o] \/ (status[o] = "pending" /\ status'[o] = "injecting"),
         \A o \in Objects : status[o] \in Built => InjectionsOf(o) \cap C = {}
  PROVE  ContainerInv'
<1> DEFINE Starting == {Want(c) : c \in {d \in C : Creates(d)}}
<1> USE DEF ContainerInv
<1>1. /\ pc' = [c \in Calls |-> IF c \notin C THEN pc[c]
                            ELSE IF Finds(c) THEN "returned"
                            ELSE IF Joins(c) THEN "waiting" ELSE "owner"]
      /\ seen' = [c \in Calls |-> IF c \in C THEN scope ELSE seen[c]]
      /\ uses' = [c \in Calls |-> IF c \notin C \/ Finds(c) THEN uses[c]
                              ELSE IF Joins(c) THEN promise[Want(c)] ELSE New(Want(c))]
      /\ got' = [c \in Calls |-> IF c \in C /\ Finds(c) THEN Stored(Want(c)) ELSE got[c]]
      /\ promise' = [p \in Protos |-> IF p \in Starting THEN New(p) ELSE promise[p]]
      /\ made' = [p \in Protos |-> IF p \in Starting THEN made[p] + 1 ELSE made[p]]
      /\ store' = store
  BY DEF Asked
<1>2. \A p \in Starting : p \in Protos /\ made[p] < MaxRounds
  BY Wanted DEF Asked
<1>3. \A p \in Starting : New(p) \in Objects /\ New(p) # None /\ New(p)[1] = p
                          /\ New(p)[2] = made[p] + 1 /\ status[New(p)] = "absent"
  BY <1>2, NewIsAbsent
<1>4. \A p \in Starting : store[scope][p] = None /\ promise[p] = None
  BY Wanted DEF Creates, Finds, Joins, Stored
<1>5. \A o \in Objects : o \in Started(C) <=> \E p \in Starting : o = New(p)
  BY DEF Started
<1>6. \A o \in Objects : /\ status[o] # "absent" => status'[o] # "absent" /\ o \notin Started(C)
                         /\ status[o] \in Built \/ status[o] = "error" => status'[o] = status[o]
                         /\ status'[o] \in Built => status[o] \in Built
                         /\ status'[o] # "absent" => status[o] # "absent" \/ o \in Started(C)
  <2> SUFFICES ASSUME NEW o \in Objects
               PROVE  /\ status[o] # "absent" => status'[o] # "absent" /\ o \notin Started(C)
                      /\ status[o] \in Built \/ status[o] = "error" => status'[o] = status[o]
                      /\ status'[o] \in Built => status[o] \in Built
                      /\ status'[o] # "absent" => status[o] # "absent" \/ o \in Started(C)
    OBVIOUS
  <2>1. o \in Started(C) => status[o] = "absent" /\ status'[o] = "pending"
    BY <1>3, <1>5
  <2>2. o \notin Started(C) =>
          status'[o] = status[o] \/ (status[o] = "pending" /\ status'[o] = "injecting")
    OBVIOUS
  <2> QED BY <2>1, <2>2 DEF Built
<1>7. scope' = scope /\ scope \in Scopes /\ phase' = phase /\ leaving' = leaving
      /\ settled' = settled /\ faults' = faults
  BY DEF downVars, TypeOK
<1>8. TypeOK'
  <2>1. pc' \in [Calls -> {"idle", "owner", "waiting", "returned", "failed"}]
    BY <1>1 DEF TypeOK
  <2>2. seen' \in [Calls -> Scopes] /\ got' \in [Calls -> Objects \cup {None}]
    BY <1>1, <1>7, Wanted DEF TypeOK, Stored
  <2>3. uses' \in [Calls -> Objects \cup {None}]
    <3>1. \A c \in C : ~Finds(c) /\ ~Joins(c) => Want(c) \in Starting
      BY DEF Creates
    <3> QED BY <1>1, <1>3, <3>1, Wanted DEF TypeOK
  <2>4. promise' \in [Protos -> Objects \cup {None}]
    BY <1>1, <1>3 DEF TypeOK
  <2>5. made' \in [Protos -> 0 .. MaxRounds]
    <3>1. \A p \in Protos : made[p] \in 0 .. MaxRounds
      BY DEF TypeOK
    <3>2. \A p \in Starting : made[p] + 1 \in 0 .. MaxRounds
      BY <1>2, <3>1, ContainerAssumption
    <3> QED BY <1>1, <3>1, <3>2
  <2> QED BY <1>1, <1>7, <2>1, <2>2, <2>3, <2>4, <2>5 DEF TypeOK
<1>9. Stores'
  BY <1>1, <1>6 DEF Stores, TypeOK
<1>10. Promises'
  <2> SUFFICES ASSUME NEW p \in Protos, promise'[p] # None
               PROVE  promise'[p][1] = p /\ status'[promise'[p]] # "absent"
    BY DEF Promises
  <2>1. CASE p \in Starting
    BY <2>1, <1>1, <1>3, <1>5
  <2>2. CASE p \notin Starting
    BY <2>2, <1>1, <1>6 DEF Promises, TypeOK
  <2> QED BY <2>1, <2>2
<1>11. Counted'
  <2> SUFFICES ASSUME NEW o \in Objects, status'[o] # "absent" PROVE o[2] <= made'[o[1]]
    BY DEF Counted
  <2>1. o[1] \in Protos /\ o[2] \in Nat /\ made[o[1]] \in Nat
    BY ContainerAssumption DEF Objects, TypeOK
  <2>2. CASE o \in Started(C)
    BY <2>1, <2>2, <1>1, <1>3, <1>5
  <2>3. CASE o \notin Started(C)
    BY <2>1, <2>3, <1>1, <1>6 DEF Counted
  <2> QED BY <2>2, <2>3
<1>12. \A c \in C : pc'[c] = "owner" => Want(c) \in Starting /\ uses'[c] = New(Want(c))
  BY <1>1 DEF Creates
<1>13. \A c \in C : pc'[c] = "waiting" => Joins(c) /\ uses'[c] = promise[Want(c)]
                                       /\ Want(c) \notin Starting
  BY <1>1, <1>4 DEF Joins
<1>14. \A c \in C : pc'[c] = "returned" => Finds(c) /\ got'[c] = Stored(Want(c))
  BY <1>1
<1>15. \A c \in C : pc'[c] # "failed" /\ pc'[c] # "idle"
  BY <1>1
<1>16. \A c \in Calls \ C : pc'[c] = pc[c] /\ seen'[c] = seen[c] /\ uses'[c] = uses[c]
                            /\ got'[c] = got[c]
  BY <1>1
<1>17. \A c \in C : seen'[c] = scope
  BY <1>1
<1>18. \A c \in Calls, p \in Starting :
         pc[c] \in {"owner", "waiting"} => uses[c] # New(p) /\ uses[c] # None
  BY <1>3, ContainerAssumption DEF Users
<1>19. Users'
  <2> SUFFICES ASSUME NEW c \in Calls, pc'[c] \in {"owner", "waiting"}
               PROVE  uses'[c] \in Objects /\ uses'[c][1] = Want(c) /\ status'[uses'[c]] # "absent"
    BY DEF Users
  <2>1. CASE c \in C /\ pc'[c] = "owner"
    BY <2>1, <1>3, <1>5, <1>12
  <2>2. CASE c \in C /\ pc'[c] = "waiting"
    BY <2>2, <1>6, <1>13, Wanted DEF Joins, Promises, TypeOK
  <2>3. CASE c \notin C
    BY <2>3, <1>6, <1>16 DEF Users
  <2> QED BY <2>1, <2>2, <2>3
<1>20. Owners'
  <2> SUFFICES ASSUME NEW c \in Calls, pc'[c] = "owner"
               PROVE  promise'[Want(c)] = uses'[c] /\ store'[seen'[c]][Want(c)] = None
    BY DEF Owners
  <2>1. CASE c \in C
    BY <2>1, <1>1, <1>4, <1>12, <1>17, Wanted
  <2>2. CASE c \notin C
    <3>1. promise[Want(c)] = uses[c] /\ store[seen[c]][Want(c)] = None /\ uses[c] # None
      BY <2>2, <1>16, ContainerAssumption DEF Owners, Users
    <3> QED BY <2>2, <3>1, <1>1, <1>4, <1>16, Wanted
  <2> QED BY <2>1, <2>2
<1>21. OneOwner'
  <2> SUFFICES ASSUME NEW c \in Calls, NEW d \in Calls,
                      pc'[c] = "owner", pc'[d] = "owner", uses'[c] = uses'[d]
               PROVE  c = d
    BY DEF OneOwner
  <2>1. CASE c \in C /\ d \in C
    BY <2>1, <1>3, <1>12
  <2>2. CASE c \notin C /\ d \notin C
    BY <2>2, <1>16 DEF OneOwner
  <2>3. CASE c \in C /\ d \notin C
    BY <2>3, <1>12, <1>16, <1>18
  <2>4. CASE c \notin C /\ d \in C
    BY <2>4, <1>12, <1>16, <1>18
  <2> QED BY <2>1, <2>2, <2>3, <2>4
<1>22. Past'
  BY <1>7, <1>16, <1>17 DEF Past
<1>23. Waiters'
  <2> SUFFICES ASSUME NEW c \in Calls, pc'[c] = "waiting", promise'[Want(c)] = uses'[c]
               PROVE  /\ store'[seen'[c]][Want(c)] = None
                      /\ seen'[c] = 0 => \A d \in Calls : pc'[d] = "owner" /\ uses'[d] = uses'[c]
                                                          => seen'[d] = 0
    BY DEF Waiters
  <2>1. CASE c \in C
    <3>1. store'[seen'[c]][Want(c)] = None
      BY <2>1, <1>1, <1>13, <1>17 DEF Joins, Stored
    <3>2. seen'[c] = 0 => \A d \in Calls : seen'[d] = 0
      BY <2>1, <1>7, <1>8, <1>17, <1>22 DEF Past, TypeOK, Scopes
    <3> QED BY <3>1, <3>2
  <2>2. CASE c \notin C
    <3>1. promise[Want(c)] = uses[c] /\ pc[c] = "waiting"
      BY <2>2, <1>1, <1>16, <1>18, Wanted
    <3>2. \A d \in Calls : pc'[d] = "owner" /\ uses'[d] = uses'[c] => d \notin C
      BY <2>2, <3>1, <1>12, <1>16, <1>18
    <3> QED BY <2>2, <3>1, <3>2, <1>1, <1>16 DEF Waiters
  <2> QED BY <2>1, <2>2
<1>24. Woken'
  <2> SUFFICES ASSUME NEW c \in Calls, pc'[c] = "waiting", promise'[Want(c)] # uses'[c],
                      seen'[c] = 0
               PROVE  store'[0][Want(c)] = uses'[c]
    BY DEF Woken
  <2>1. c \notin C
    BY <1>1, <1>13, Wanted
  <2>2. promise[Want(c)] # uses[c]
    BY <2>1, <1>1, <1>4, <1>16, <1>18, Wanted
  <2> QED BY <2>1, <2>2, <1>1, <1>16 DEF Woken
<1>25. Answered'
  <2> SUFFICES ASSUME NEW c \in Calls, pc'[c] = "returned"
               PROVE  got'[c] # None /\ got'[c] = store'[seen'[c]][Want(c)]
    BY DEF Answered
  <2>1. CASE c \in C
    BY <2>1, <1>1, <1>14, <1>17 DEF Finds, Stored
  <2>2. CASE c \notin C
    BY <2>2, <1>1, <1>16 DEF Answered
  <2> QED BY <2>1, <2>2
<1>26. Failed'
  <2> SUFFICES ASSUME NEW c \in Calls, pc'[c] = "failed", seen'[c] = 0
               PROVE  /\ uses'[c] \in Objects /\ status'[uses'[c]] = "error"
                      /\ promise'[Want(c)] = uses'[c] /\ store'[0][Want(c)] = None
    BY DEF Failed
  <2>1. c \notin C /\ pc[c] = "failed" /\ seen[c] = 0 /\ uses'[c] = uses[c]
    BY <1>15, <1>16
  <2>2. /\ uses[c] \in Objects /\ status[uses[c]] = "error"
        /\ promise[Want(c)] = uses[c] /\ store[0][Want(c)] = None
    BY <2>1 DEF Failed
  <2>3. uses[c] # None
    BY <2>2, ContainerAssumption
  <2> QED BY <2>1, <2>2, <2>3, <1>1, <1>4, <1>6, Wanted
<1>27. AllInjected'
  <2> SUFFICES ASSUME NEW o \in Objects, status'[o] \in Built PROVE Injected(o)'
    BY DEF AllInjected
  <2>1. Injected(o) /\ InjectionsOf(o) \cap C = {}
    BY <1>6 DEF AllInjected
  <2> QED BY <2>1, <1>16, InjectionsAreDistinct DEF Injected
<1>28. LeavingInv'
  BY <1>7 DEF LeavingInv
<1> QED BY <1>8, <1>9, <1>10, <1>11, <1>19, <1>20, <1>21, <1>22, <1>23, <1>24, <1>25,
           <1>26, <1>27, <1>28

-----------------------------------------------------------------------------
(* The steps that only move objects and the context *)

\* Objects that only go forward keep the invariant.
LEMMA ForwardKeeps ==
  ASSUME ContainerInv, TypeOK', UNCHANGED <<mapVars, callVars>>,
         scope = 1 => scope' = 1,
         LeavingInv',
         \A o \in Objects :
           /\ status[o] = "absent" <=> status'[o] = "absent"
           /\ status[o] = "error" => status'[o] = "error"
           /\ status[o] \in Built => status'[o] \in Built
           /\ status'[o] \in Built => status[o] \in Built \/ Injected(o)
  PROVE  ContainerInv'
<1> USE DEF ContainerInv, mapVars, callVars
<1>1. Stores' BY DEF Stores, TypeOK
<1>2. Promises' BY DEF Promises, TypeOK
<1>3. Counted' BY DEF Counted
<1>4. Users' BY DEF Users
<1>5. Owners' /\ OneOwner' BY DEF Owners, OneOwner
<1>6. Waiters' /\ Woken' BY DEF Waiters, Woken
<1>7. Past' BY DEF Past
<1>8. Answered' BY DEF Answered
<1>9. Failed' BY DEF Failed
<1>10. AllInjected'
  <2>1. \A o \in Objects : Injected(o) => Injected(o)'
    BY DEF Injected
  <2> QED BY <2>1 DEF AllInjected
<1> QED BY <1>1, <1>2, <1>3, <1>4, <1>5, <1>6, <1>7, <1>8, <1>9, <1>10

-----------------------------------------------------------------------------
(* The calls that resume *)

\* The creator stores its object where nothing was.
LEMMA OwnerKeeps ==
  ASSUME ContainerInv, NEW c \in Calls, OwnerStores(c)
  PROVE  ContainerInv'
<1> USE DEF ContainerInv
<1> DEFINE p == Want(c)  o == uses[c]  s == seen[c]
<1>1. /\ pc[c] = "owner" /\ status[o] \in Built
      /\ promise' = [promise EXCEPT ![p] = None]
      /\ store' = [store EXCEPT ![s][p] = o]
      /\ seen' = seen /\ uses' = uses /\ made' = made /\ status' = status
      /\ UNCHANGED downVars /\ faults' = faults
  BY DEF OwnerStores, Answers
<1>2. p \in Protos /\ s \in Scopes /\ o \in Objects /\ o # None /\ o[1] = p
  BY <1>1, Wanted, ContainerAssumption DEF Users, TypeOK
<1>3. pc' = [pc EXCEPT ![c] = "returned"] /\ got' = [got EXCEPT ![c] = o]
  BY <1>2 DEF OwnerStores, Answers
<1>4. promise[p] = o /\ store[s][p] = None
  BY <1>1 DEF Owners
<1>5. \A t \in Scopes, q \in Protos :
        store'[t][q] = IF t = s /\ q = p THEN o ELSE store[t][q]
  BY <1>1, <1>2 DEF TypeOK
<1>6. \A q \in Protos : promise'[q] = IF q = p THEN None ELSE promise[q]
  BY <1>1, <1>2 DEF TypeOK
<1>7. \A d \in Calls : d # c => pc'[d] = pc[d] /\ got'[d] = got[d]
  BY <1>3 DEF TypeOK
<1>8. pc'[c] = "returned" /\ got'[c] = o
  BY <1>3 DEF TypeOK
<1>9. 0 \in Scopes /\ \A d \in Calls : seen[d] \in Scopes
  BY DEF Scopes, TypeOK
<1>10. TypeOK'
  BY <1>1, <1>2, <1>3 DEF TypeOK, downVars
<1>11. Stores' BY <1>1, <1>2, <1>5 DEF Stores
<1>12. Promises' BY <1>1, <1>6 DEF Promises
<1>13. Counted' BY <1>1 DEF Counted
<1>14. Users' BY <1>1, <1>7, <1>8 DEF Users
<1>15. \A d \in Calls : d # c /\ pc[d] = "owner" => Want(d) # p
  <2> SUFFICES ASSUME NEW d \in Calls, d # c, pc[d] = "owner", Want(d) = p PROVE FALSE
    OBVIOUS
  <2>1. uses[d] = o
    BY <1>4 DEF Owners
  <2> QED BY <2>1, <1>1 DEF OneOwner
<1>16. Owners'
  BY <1>1, <1>5, <1>6, <1>7, <1>8, <1>9, <1>15, Wanted DEF Owners
<1>17. OneOwner' BY <1>1, <1>7, <1>8 DEF OneOwner
<1>18. Waiters'
  <2> SUFFICES ASSUME NEW d \in Calls, pc'[d] = "waiting", promise'[Want(d)] = uses[d]
               PROVE  /\ store'[seen[d]][Want(d)] = None
                      /\ seen[d] = 0 => \A e \in Calls : pc'[e] = "owner" /\ uses[e] = uses[d]
                                                         => seen[e] = 0
    BY <1>1 DEF Waiters
  <2>1. d # c /\ pc[d] = "waiting" /\ uses[d] # None
    BY <1>7, <1>8, ContainerAssumption DEF Users
  <2>2. Want(d) # p /\ promise[Want(d)] = uses[d]
    BY <2>1, <1>6, Wanted
  <2> QED BY <2>1, <2>2, <1>5, <1>7, <1>8, <1>9, Wanted DEF Waiters
<1>19. Woken'
  <2> SUFFICES ASSUME NEW d \in Calls, pc'[d] = "waiting", promise'[Want(d)] # uses[d],
                      seen[d] = 0
               PROVE  store'[0][Want(d)] = uses[d]
    BY <1>1 DEF Woken
  <2>1. d # c /\ pc[d] = "waiting" /\ uses[d] # None
    BY <1>7, <1>8, ContainerAssumption DEF Users
  <2>2. CASE promise[Want(d)] = uses[d]
    <3>1. Want(d) = p /\ uses[d] = o
      BY <2>2, <1>4, <1>6, Wanted
    <3>2. s = 0
      BY <2>1, <2>2, <3>1, <1>1 DEF Waiters
    <3> QED BY <3>1, <3>2, <1>2, <1>5
  <2>3. CASE promise[Want(d)] # uses[d]
    <3>1. store[0][Want(d)] = uses[d]
      BY <2>1, <2>3 DEF Woken
    <3> QED BY <2>1, <3>1, <1>4, <1>5, <1>9, Wanted
  <2> QED BY <2>2, <2>3
<1>20. Past' BY <1>1 DEF Past, downVars
<1>21. Answered'
  <2> SUFFICES ASSUME NEW d \in Calls, pc'[d] = "returned"
               PROVE  got'[d] # None /\ got'[d] = store'[seen[d]][Want(d)]
    BY <1>1 DEF Answered
  <2>1. CASE d = c
    BY <2>1, <1>2, <1>5, <1>8
  <2>2. CASE d # c
    <3>1. got[d] # None /\ got[d] = store[seen[d]][Want(d)]
      BY <2>2, <1>7 DEF Answered
    <3> QED BY <2>2, <3>1, <1>4, <1>5, <1>7, <1>9, Wanted
  <2> QED BY <2>1, <2>2
<1>22. Failed'
  <2> SUFFICES ASSUME NEW d \in Calls, pc'[d] = "failed", seen[d] = 0
               PROVE  /\ uses[d] \in Objects /\ status[uses[d]] = "error"
                      /\ promise'[Want(d)] = uses[d] /\ store'[0][Want(d)] = None
    BY <1>1 DEF Failed
  <2>1. /\ uses[d] \in Objects /\ status[uses[d]] = "error"
        /\ promise[Want(d)] = uses[d] /\ store[0][Want(d)] = None
    BY <1>7, <1>8 DEF Failed
  <2>2. Want(d) # p
    BY <2>1, <1>1, <1>4 DEF Built
  <2> QED BY <2>1, <2>2, <1>5, <1>6, <1>9, Wanted
<1>23. AllInjected'
  <2>1. \A q \in Objects : Injected(q) => Injected(q)'
    BY <1>7, <1>8, InjectionsAreDistinct DEF Injected
  <2> QED BY <2>1, <1>1 DEF AllInjected
<1>24. LeavingInv'
  BY <1>1 DEF LeavingInv, downVars
<1> QED BY <1>10, <1>11, <1>12, <1>13, <1>14, <1>16, <1>17, <1>18, <1>19, <1>20, <1>21,
           <1>22, <1>23, <1>24

\* A waiter, or a call whose creation failed, comes to rest.
LEMMA AnswerKeeps ==
  ASSUME ContainerInv, NEW c \in Calls, WaiterResumes(c) \/ CallFails(c)
  PROVE  ContainerInv'
<1> USE DEF ContainerInv
<1> DEFINE p == Want(c)  a == IF WaiterResumes(c) THEN store[seen[c]][p] ELSE None
<1>1. /\ UNCHANGED mapVars /\ status' = status /\ UNCHANGED downVars /\ faults' = faults
      /\ seen' = seen /\ uses' = uses
      /\ pc[c] \in {"owner", "waiting"}
  BY DEF WaiterResumes, CallFails, Answers
<1>2. p \in Protos /\ seen[c] \in Scopes /\ a \in Objects \cup {None}
  <2>1. TypeOK
    OBVIOUS
  <2> HIDE DEF ContainerInv
  <2>2. p \in Protos /\ seen[c] \in Scopes
    BY <2>1, Wanted DEF TypeOK
  <2>3. store[seen[c]][p] \in Objects \cup {None}
    <3>1. store \in [Scopes -> [Protos -> Objects \cup {None}]]
      BY <2>1 DEF TypeOK
    <3> QED BY <2>2, <3>1
  <2> QED BY <2>2, <2>3
<1>3. pc' = [pc EXCEPT ![c] = IF a = None THEN "failed" ELSE "returned"]
      /\ got' = [got EXCEPT ![c] = a]
  BY DEF WaiterResumes, CallFails, Answers
<1>4. store' = store /\ promise' = promise /\ made' = made
  BY <1>1 DEF mapVars
<1>5. \A d \in Calls : d # c => pc'[d] = pc[d] /\ got'[d] = got[d]
  BY <1>3 DEF TypeOK
<1>6. pc'[c] = (IF a = None THEN "failed" ELSE "returned") /\ got'[c] = a
  BY <1>3 DEF TypeOK
<1>7. TypeOK'
  BY <1>1, <1>2, <1>3, <1>4 DEF TypeOK, downVars
<1>8. Stores' /\ Promises' /\ Counted'
  BY <1>1, <1>4 DEF Stores, Promises, Counted
<1>9. Users' BY <1>1, <1>5, <1>6 DEF Users
<1>10. Owners' BY <1>1, <1>4, <1>5, <1>6 DEF Owners
<1>11. OneOwner' BY <1>1, <1>5, <1>6 DEF OneOwner
<1>12. Waiters' BY <1>1, <1>4, <1>5, <1>6 DEF Waiters
<1>13. Woken' BY <1>1, <1>4, <1>5, <1>6 DEF Woken
<1>14. Past' BY <1>1 DEF Past, downVars
<1>15. Answered'
  BY <1>1, <1>4, <1>5, <1>6 DEF Answered
<1>16. Failed'
  <2>1. ASSUME pc'[c] = "failed", seen[c] = 0
        PROVE  /\ uses[c] \in Objects /\ status[uses[c]] = "error"
               /\ promise[p] = uses[c] /\ store[0][p] = None
    <3>1. uses[c] \in Objects /\ uses[c] # None /\ uses[c][1] = p
      BY <1>1, ContainerAssumption DEF Users
    <3>2. ~WaiterResumes(c)
      <4> SUFFICES ASSUME WaiterResumes(c) PROVE FALSE
        OBVIOUS
      <4>1. store[0][p] = uses[c]
        BY <2>1 DEF Woken, WaiterResumes
      <4> QED BY <2>1, <3>1, <4>1, <1>6
    <3>3. status[uses[c]] = "error"
      BY <3>2 DEF CallFails
    <3>4. promise[p] = uses[c]
      <4>1. CASE pc[c] = "owner"
        BY <4>1 DEF Owners
      <4>2. CASE pc[c] = "waiting"
        <5> SUFFICES ASSUME promise[p] # uses[c] PROVE FALSE
          OBVIOUS
        <5>1. store[0][p] = uses[c]
          BY <4>2, <2>1 DEF Woken
        <5> QED BY <5>1, <3>1, <3>3, <1>2 DEF Stores, Built, Scopes
      <4> QED BY <4>1, <4>2, <1>1
    <3>5. store[0][p] = None
      BY <3>4, <2>1, <1>1 DEF Owners, Waiters
    <3> QED BY <3>1, <3>3, <3>4, <3>5
  <2> QED BY <2>1, <1>1, <1>4, <1>5 DEF Failed
<1>17. AllInjected'
  <2>1. \A q \in Objects : Injected(q) => Injected(q)'
    BY <1>1, <1>5, InjectionsAreDistinct DEF Injected
  <2> QED BY <2>1, <1>1 DEF AllInjected
<1>18. LeavingInv'
  BY <1>1 DEF LeavingInv, downVars
<1> QED BY <1>7, <1>8, <1>9, <1>10, <1>11, <1>12, <1>13, <1>14, <1>15, <1>16, <1>17, <1>18

-----------------------------------------------------------------------------
(* The steps of the specification *)

LEMMA InitContainer == Init => ContainerInv
<1> SUFFICES ASSUME Init PROVE ContainerInv
  OBVIOUS
<1>1. TypeOK
  <2>1. store \in [Scopes -> [Protos -> Objects \cup {None}]] /\ scope \in Scopes
        /\ seen \in [Calls -> Scopes]
    BY DEF Init, Scopes
  <2>2. made \in [Protos -> 0 .. MaxRounds] /\ faults \in 0 .. MaxFaults
    BY ContainerAssumption DEF Init
  <2>3. status \in [Objects -> {"absent", "pending", "injecting", "error"} \cup Built]
        /\ pc \in [Calls -> {"idle", "owner", "waiting", "returned", "failed"}]
    BY DEF Init
  <2> QED BY <2>1, <2>2, <2>3 DEF Init, TypeOK
<1> QED BY <1>1 DEF Init, ContainerInv, Stores, Promises, Counted, Users, Owners, OneOwner,
           Waiters, Woken, Past, Answered, Failed, AllInjected, LeavingInv, Built

LEMMA AskKeeps ==
  ASSUME ContainerInv, NEW r \in Requests, Ask(r)
  PROVE  ContainerInv'
<1>1. r \in Calls /\ pc[r] = "idle" /\ Asked({r}) /\ UNCHANGED <<downVars, faults>>
  BY DEF Ask, Calls
<1>2. status' = Becomes(Started({r}), "pending")
  BY DEF Ask
<1>3. \A o \in Objects : r \notin InjectionsOf(o)
  BY ContainerAssumption DEF InjectionsOf, Injections, Objects
<1>4. /\ status' \in [Objects -> {"absent", "pending", "injecting", "error"} \cup Built]
      /\ \A o \in Objects : status'[o] = IF o \in Started({r}) THEN "pending" ELSE status[o]
  BY <1>2 DEF Becomes, ContainerInv, TypeOK
<1>5. Started({r}) \subseteq Objects
  <2>1. \A c \in {r} : Creates(c) => Want(c) \in Protos /\ made[Want(c)] < MaxRounds
    BY <1>1, Wanted DEF Asked
  <2> QED BY <2>1, NewIsAbsent DEF Started, ContainerInv
<1> QED BY <1>1, <1>3, <1>4, <1>5, AskedKeeps

LEMMA InjectKeeps ==
  ASSUME ContainerInv, NEW o \in Objects, Inject(o)
  PROVE  ContainerInv'
<1> DEFINE C == InjectionsOf(o)
<1>1. status[o] = "pending" /\ Asked(C) /\ UNCHANGED <<downVars, faults>>
  BY DEF Inject
<1>2. C \in SUBSET Calls /\ \A c, d \in C : Want(c) = Want(d) => c = d
  BY InjectionsAreDistinct
<1>3. Started(C) \subseteq Objects /\ \A q \in Started(C) : status[q] = "absent"
  <2>1. \A c \in C : Creates(c) => Want(c) \in Protos /\ made[Want(c)] < MaxRounds
    BY <1>1, <1>2, Wanted DEF Asked
  <2> QED BY <2>1, NewIsAbsent DEF Started, ContainerInv
<1>4. status' = [Becomes(Started(C), "pending") EXCEPT ![o] = "injecting"]
  BY DEF Inject
<1>5. \A q \in Objects : status'[q] = IF q = o THEN "injecting"
                                      ELSE IF q \in Started(C) THEN "pending" ELSE status[q]
  BY <1>4 DEF Becomes
<1>6. status' \in [Objects -> {"absent", "pending", "injecting", "error"} \cup Built]
  BY <1>4 DEF Becomes, ContainerInv, TypeOK
<1>7. o \notin Started(C)
  BY <1>1, <1>3
<1>8. \A q \in Objects : status[q] \in Built => InjectionsOf(q) \cap C = {}
  BY <1>1 DEF InjectionsOf, Built
<1> QED BY <1>1, <1>2, <1>3, <1>5, <1>6, <1>7, <1>8, AskedKeeps

LEMMA ForwardSteps ==
  ASSUME ContainerInv,
         \/ \E o \in Objects : Finish(o) \/ HookThrows(o) \/ InjectionFails(o)
         \/ Destroy \/ Destroyed
         \/ \E o \in Objects : DestroyObject(o) \/ DestroyThrows(o)
  PROVE  ContainerInv'
<1> USE DEF ContainerInv
<1>1. CASE \E o \in Objects : Finish(o) \/ HookThrows(o) \/ InjectionFails(o)
  <2>1. PICK o \in Objects : Finish(o) \/ HookThrows(o) \/ InjectionFails(o)
    BY <1>1
  <2>2. UNCHANGED <<mapVars, callVars, downVars>>
    BY <2>1 DEF Finish, HookThrows, InjectionFails
  <2>3. \/ status[o] \in {"pending", "injecting"} /\ status' = [status EXCEPT ![o] = "error"]
        \/ status[o] = "injecting" /\ Injected(o) /\ status' = [status EXCEPT ![o] = "ready"]
    BY <2>1 DEF Finish, HookThrows, InjectionFails
  <2>4. faults' \in 0 .. MaxFaults
    BY <2>1, ContainerAssumption DEF Finish, HookThrows, InjectionFails, TypeOK
  <2>5. TypeOK'
    BY <2>2, <2>3, <2>4 DEF TypeOK, Built, mapVars, callVars, downVars
  <2>6. \A q \in Objects :
           /\ status[q] = "absent" <=> status'[q] = "absent"
           /\ status[q] = "error" => status'[q] = "error"
           /\ status[q] \in Built => status'[q] \in Built
           /\ status'[q] \in Built => status[q] \in Built \/ Injected(q)
    BY <2>3 DEF TypeOK, Built
  <2> QED BY <2>2, <2>5, <2>6, ForwardKeeps DEF downVars, LeavingInv
<1>2. CASE Destroy
  <2>1. UNCHANGED <<mapVars, callVars, faults>> /\ scope' = 1 /\ phase' = "destroying"
    BY <1>2 DEF Destroy
  <2>2. \A q \in Objects : status'[q] = IF q \in Kept /\ status[q] = "ready"
                                        THEN "destroying" ELSE status[q]
    BY <1>2 DEF Destroy
  <2>3. leaving' \subseteq Objects /\ settled' \in BOOLEAN
    BY <1>2 DEF Destroy, Kept, TypeOK
  <2>4. status' \in [Objects -> {"absent", "pending", "injecting", "error"} \cup Built]
    BY <1>2 DEF Destroy, TypeOK, Built
  <2>5. TypeOK'
    BY <2>1, <2>3, <2>4 DEF TypeOK, Scopes, mapVars, callVars
  <2>6. \A q \in Objects :
           /\ status[q] = "absent" <=> status'[q] = "absent"
           /\ status[q] = "error" => status'[q] = "error"
           /\ status[q] \in Built => status'[q] \in Built
           /\ status'[q] \in Built => status[q] \in Built \/ Injected(q)
    BY <2>2 DEF Built
  <2> QED BY <2>1, <2>5, <2>6, ForwardKeeps DEF LeavingInv
<1>3. CASE Destroyed
  <2>1. UNCHANGED <<mapVars, callVars, status, scope, leaving, settled, faults>>
        /\ phase = "destroying" /\ phase' = "destroyed"
    BY <1>3 DEF Destroyed
  <2>2. TypeOK'
    BY <2>1 DEF TypeOK, mapVars, callVars
  <2> QED BY <2>1, <2>2, ForwardKeeps DEF LeavingInv
<1>4. CASE \E o \in Objects : DestroyObject(o) \/ DestroyThrows(o)
  <2>1. PICK o \in Objects : DestroyObject(o) \/ DestroyThrows(o)
    BY <1>4
  <2>2. UNCHANGED <<mapVars, callVars, scope, settled>> /\ leaving' = leaving \ {o}
        /\ o \in leaving
    BY <2>1 DEF DestroyObject, DestroyThrows
  <2>3. \/ status' = status
        \/ status' = [status EXCEPT ![o] = IF @ = "destroying" THEN "destroyed" ELSE @]
    BY <2>1 DEF DestroyObject, DestroyThrows
  <2>4. faults' \in 0 .. MaxFaults
    BY <2>1, ContainerAssumption DEF DestroyObject, DestroyThrows, TypeOK
  <2>5. phase' = phase \/ (phase' = "broken" /\ phase # "up")
    BY <2>1, <2>2 DEF DestroyObject, DestroyThrows, LeavingInv
  <2>6. TypeOK'
    BY <2>2, <2>3, <2>4, <2>5 DEF TypeOK, Built, mapVars, callVars
  <2>7. \A q \in Objects :
           /\ status[q] = "absent" <=> status'[q] = "absent"
           /\ status[q] = "error" => status'[q] = "error"
           /\ status[q] \in Built => status'[q] \in Built
           /\ status'[q] \in Built => status[q] \in Built \/ Injected(q)
    BY <2>3 DEF TypeOK, Built
  <2> QED BY <2>2, <2>5, <2>6, <2>7, ForwardKeeps DEF LeavingInv
<1> QED BY <1>1, <1>2, <1>3, <1>4

LEMMA NextContainer == ContainerInv /\ [Next]_vars => ContainerInv'
<1> SUFFICES ASSUME ContainerInv, [Next]_vars PROVE ContainerInv'
  OBVIOUS
<1>1. CASE \E r \in Requests : Ask(r)
  BY <1>1, AskKeeps
<1>2. CASE \E o \in Objects : Inject(o)
  BY <1>2, InjectKeeps
<1>3. CASE \/ \E o \in Objects : Finish(o) \/ HookThrows(o) \/ InjectionFails(o)
           \/ Destroy \/ Destroyed
           \/ \E o \in Objects : DestroyObject(o) \/ DestroyThrows(o)
  BY <1>3, ForwardSteps
<1>4. CASE \E c \in Calls : CallStep(c)
  BY <1>4, OwnerKeeps, AnswerKeeps DEF CallStep
<1>5. CASE UNCHANGED vars
  <2>1. /\ UNCHANGED <<mapVars, callVars>> /\ status' = status /\ scope' = scope
        /\ phase' = phase /\ leaving' = leaving /\ settled' = settled /\ faults' = faults
    BY <1>5 DEF vars, downVars
  <2>2. TypeOK' /\ LeavingInv'
    BY <2>1 DEF ContainerInv, TypeOK, LeavingInv, mapVars, callVars
  <2> QED BY <2>1, <2>2, ForwardKeeps
<1> QED BY <1>1, <1>2, <1>3, <1>4, <1>5 DEF Next, ObjectStep

LEMMA ContainerInvariant == Spec => []ContainerInv
BY InitContainer, NextContainer, PTL DEF Spec

-----------------------------------------------------------------------------
(* What destroy collects *)

\* An object that is under way has its creator, one that is not is in a map.
Sourced ==
  \A o \in Objects : status[o] \notin {"absent", "error"} =>
    \/ \E c \in Calls : pc[c] = "owner" /\ uses[c] = o
    \/ \E s \in Scopes : store[s][o[1]] = o

\* The injections of an object are asked for once.
AsksOnce ==
  \A o \in Objects : status[o] \in {"absent", "pending"} =>
    \A c \in InjectionsOf(o) : pc[c] = "idle"

LaterIsEmpty == scope = 0 => \A p \in Protos : store[1][p] = None

NotYet == phase = "up" => \A o \in Objects : status[o] \notin {"destroying", "destroyed"}

NobodyLeft == phase = "destroyed" => leaving = {}

\* After a calm destroy only those who asked later are on the way.
Calm ==
  settled => phase # "up" /\ \A c \in Calls : pc[c] \in {"owner", "waiting"} => seen[c] = 1

Disturbed == \E c \in Calls : pc[c] # "idle" /\ seen[c] = 1

\* When nobody asks after a calm destroy, every object goes the way of destroy.
Collected ==
  phase # "up" /\ settled /\ ~Disturbed =>
    \A o \in Objects :
      \/ status[o] \in {"absent", "error", "destroyed"}
      \/ status[o] = "destroying" /\ (o \in leaving \/ phase = "broken")

CalmInv ==
  Sourced /\ AsksOnce /\ LaterIsEmpty /\ NotYet /\ NobodyLeft /\ Calm /\ Collected

LEMMA InitCalm == Init => CalmInv
<1> SUFFICES ASSUME Init PROVE CalmInv
  OBVIOUS
<1>1. AsksOnce
  BY InjectionsAreDistinct DEF Init, AsksOnce
<1>2. Sourced /\ NotYet
  BY DEF Init, Sourced, NotYet
<1> QED BY <1>1, <1>2 DEF Init, CalmInv, LaterIsEmpty, NobodyLeft, Calm, Collected, Scopes

\* A turn of asks by calls that have not asked.
LEMMA AskedStaysCalm ==
  ASSUME ContainerInv, CalmInv,
         NEW C \in SUBSET Calls, \A c \in C : pc[c] = "idle",
         Asked(C), UNCHANGED downVars,
         \A o \in Objects :
           \/ /\ o \in Started(C)
              /\ status[o] = "absent" /\ status'[o] = "pending"
           \/ /\ o \notin Started(C)
              /\ status'[o] = status[o]
           \/ /\ status[o] = "pending"
              /\ status'[o] = "injecting",
         \A o \in Objects : status'[o] \in {"absent", "pending"} => InjectionsOf(o) \cap C = {},
         C # {} \/ \E o \in Objects : status[o] = "pending"
  PROVE  CalmInv'
<1>1. /\ \A c \in Calls \ C : pc'[c] = pc[c] /\ seen'[c] = seen[c] /\ uses'[c] = uses[c]
      /\ \A c \in C : pc'[c] # "idle" /\ seen'[c] = scope
      /\ \A c \in C : Creates(c) => pc'[c] = "owner" /\ uses'[c] = New(Want(c))
      /\ store' = store
  BY DEF Asked, Creates, ContainerInv, TypeOK
<1>2. scope' = scope /\ phase' = phase /\ leaving' = leaving /\ settled' = settled
  BY DEF downVars
<1>3. Sourced'
  <2> SUFFICES ASSUME NEW o \in Objects, status'[o] \notin {"absent", "error"}
               PROVE  \/ \E c \in Calls : pc'[c] = "owner" /\ uses'[c] = o
                      \/ \E s \in Scopes : store'[s][o[1]] = o
    BY DEF Sourced
  <2>1. CASE o \in Started(C)
    <3>1. PICK c \in C : Creates(c) /\ o = New(Want(c))
      BY <2>1 DEF Started
    <3> QED BY <3>1, <1>1
  <2>2. CASE o \notin Started(C)
    <3>1. status[o] \notin {"absent", "error"}
      BY <2>2
    <3>2. CASE \E c \in Calls : pc[c] = "owner" /\ uses[c] = o
      <4>1. PICK c \in Calls : pc[c] = "owner" /\ uses[c] = o
        BY <3>2
      <4>2. c \notin C
        BY <4>1
      <4> QED BY <4>1, <4>2, <1>1
    <3> QED BY <3>1, <3>2, <1>1 DEF CalmInv, Sourced
  <2> QED BY <2>1, <2>2
<1>4. AsksOnce'
  <2> SUFFICES ASSUME NEW o \in Objects, status'[o] \in {"absent", "pending"},
                      NEW c \in InjectionsOf(o)
               PROVE  pc'[c] = "idle"
    BY DEF AsksOnce
  <2>1. c \in Calls \ C /\ status[o] \in {"absent", "pending"}
    BY InjectionsAreDistinct
  <2> QED BY <2>1, <1>1 DEF CalmInv, AsksOnce
<1>5. LaterIsEmpty' /\ NobodyLeft'
  BY <1>1, <1>2 DEF CalmInv, LaterIsEmpty, NobodyLeft
<1>6. NotYet'
  <2> SUFFICES ASSUME phase = "up", NEW o \in Objects
               PROVE  status'[o] \notin {"destroying", "destroyed"}
    BY <1>2 DEF NotYet
  <2> QED BY DEF CalmInv, NotYet
<1>7. phase # "up" => scope = 1
  BY DEF ContainerInv, TypeOK
<1>8. Calm'
  <2>1. settled => phase # "up"
    BY DEF CalmInv, Calm
  <2> QED BY <1>1, <1>2, <1>7, <2>1 DEF CalmInv, Calm
<1>9. Collected'
  <2> SUFFICES ASSUME phase # "up", settled, ~Disturbed' PROVE FALSE
    BY <1>2 DEF Collected
  <2>1. C = {}
    BY <1>1, <1>7 DEF Disturbed
  <2>2. ~Disturbed
    BY <2>1, <1>1 DEF Disturbed
  <2> QED BY <2>1, <2>2 DEF CalmInv, Collected
<1> QED BY <1>3, <1>4, <1>5, <1>6, <1>8, <1>9 DEF CalmInv

LEMMA AsksStayCalm ==
  ASSUME ContainerInv, CalmInv,
         (\E r \in Requests : Ask(r)) \/ (\E o \in Objects : Inject(o))
  PROVE  CalmInv'
<1>1. CASE \E r \in Requests : Ask(r)
  <2>1. PICK r \in Requests : Ask(r)
    BY <1>1
  <2>2. {r} \in SUBSET Calls /\ pc[r] = "idle" /\ Asked({r}) /\ UNCHANGED downVars
    BY <2>1 DEF Ask, Calls
  <2>3. \A o \in Objects : r \notin InjectionsOf(o)
    BY ContainerAssumption DEF InjectionsOf, Injections, Objects
  <2>4. \A o \in Objects : status'[o] = IF o \in Started({r}) THEN "pending" ELSE status[o]
    BY <2>1 DEF Ask, Becomes
  <2>5. \A o \in Started({r}) : status[o] = "absent"
    <3>1. Creates(r) => Want(r) \in Protos /\ made[Want(r)] < MaxRounds
      BY <2>2, Wanted DEF Asked
    <3> QED BY <3>1, NewIsAbsent DEF Started, ContainerInv
  <2> QED BY <2>2, <2>3, <2>4, <2>5, AskedStaysCalm
<1>2. CASE \E o \in Objects : Inject(o)
  <2>1. PICK o \in Objects : Inject(o)
    BY <1>2
  <2> DEFINE C == InjectionsOf(o)
  <2>2. C \in SUBSET Calls /\ Asked(C) /\ status[o] = "pending" /\ UNCHANGED downVars
    BY <2>1, InjectionsAreDistinct DEF Inject
  <2>3. \A c \in C : pc[c] = "idle"
    BY <2>2 DEF CalmInv, AsksOnce
  <2>4. \A q \in Started(C) : status[q] = "absent"
    <3>1. \A c \in C : Creates(c) => Want(c) \in Protos /\ made[Want(c)] < MaxRounds
      BY <2>2, Wanted DEF Asked
    <3> QED BY <3>1, NewIsAbsent DEF Started, ContainerInv
  <2>5. \A q \in Objects : status'[q] = IF q = o THEN "injecting"
                                        ELSE IF q \in Started(C) THEN "pending" ELSE status[q]
    BY <2>1 DEF Inject, Becomes
  <2>6. \A q \in Objects : q # o => InjectionsOf(q) \cap C = {}
    BY DEF InjectionsOf
  <2> QED BY <2>2, <2>3, <2>4, <2>5, <2>6, AskedStaysCalm
<1> QED BY <1>1, <1>2

LEMMA CallsStayCalm ==
  ASSUME ContainerInv, CalmInv, NEW c \in Calls, CallStep(c)
  PROVE  CalmInv'
<1>1. /\ pc[c] \in {"owner", "waiting"} /\ pc'[c] \in {"returned", "failed"}
      /\ \A d \in Calls : d # c => pc'[d] = pc[d]
      /\ seen' = seen /\ uses' = uses /\ status' = status
  BY DEF CallStep, OwnerStores, WaiterResumes, CallFails, Answers, ContainerInv, TypeOK
<1>2. scope' = scope /\ phase' = phase /\ leaving' = leaving /\ settled' = settled
  BY DEF CallStep, OwnerStores, WaiterResumes, CallFails, mapVars, downVars
<1>3. OwnerStores(c) \/ store' = store
  BY DEF CallStep, WaiterResumes, CallFails, mapVars
<1>4. ASSUME OwnerStores(c)
      PROVE  /\ seen[c] \in Scopes /\ Want(c) \in Protos /\ uses[c] \in Objects
             /\ uses[c][1] = Want(c) /\ store[seen[c]][Want(c)] = None
             /\ store'[seen[c]][Want(c)] = uses[c]
             /\ \A s \in Scopes, p \in Protos :
                  (s = seen[c] /\ p = Want(c)) \/ store'[s][p] = store[s][p]
  <2>1. seen[c] \in Scopes /\ Want(c) \in Protos /\ uses[c] \in Objects
        /\ uses[c][1] = Want(c) /\ store[seen[c]][Want(c)] = None
    BY <1>4, Wanted DEF OwnerStores, ContainerInv, TypeOK, Users, Owners
  <2>2. store \in [Scopes -> [Protos -> Objects \cup {None}]]
        /\ store' = [store EXCEPT ![seen[c]][Want(c)] = uses[c]]
    BY <1>4 DEF OwnerStores, ContainerInv, TypeOK
  <2> QED BY <2>1, <2>2
<1>5. Sourced'
  <2> SUFFICES ASSUME NEW o \in Objects, status[o] \notin {"absent", "error"}
               PROVE  \/ \E d \in Calls : pc'[d] = "owner" /\ uses'[d] = o
                      \/ \E s \in Scopes : store'[s][o[1]] = o
    BY <1>1 DEF Sourced
  <2>1. o[1] \in Protos /\ o # None
    BY ContainerAssumption DEF Objects
  <2>2. CASE \E s \in Scopes : store[s][o[1]] = o
    <3>1. PICK s \in Scopes : store[s][o[1]] = o
      BY <2>2
    <3>2. store'[s][o[1]] = o
      BY <3>1, <2>1, <1>3, <1>4
    <3> QED BY <3>2
  <2>3. CASE \E d \in Calls : pc[d] = "owner" /\ uses[d] = o
    <3>1. PICK d \in Calls : pc[d] = "owner" /\ uses[d] = o
      BY <2>3
    <3>2. CASE d # c
      BY <3>1, <3>2, <1>1
    <3>3. CASE d = c
      <4>1. OwnerStores(c)
        BY <3>1, <3>3 DEF CallStep, WaiterResumes, CallFails
      <4> QED BY <4>1, <3>1, <3>3, <1>4
    <3> QED BY <3>2, <3>3
  <2> QED BY <2>2, <2>3 DEF CalmInv, Sourced
<1>6. AsksOnce'
  BY <1>1, InjectionsAreDistinct DEF CalmInv, AsksOnce
<1>7. LaterIsEmpty'
  <2>1. scope = 0 => seen[c] # 1
    BY DEF ContainerInv, Past
  <2> QED BY <2>1, <1>2, <1>3, <1>4 DEF CalmInv, LaterIsEmpty, Scopes
<1>8. NotYet' /\ NobodyLeft'
  BY <1>1, <1>2 DEF CalmInv, NotYet, NobodyLeft
<1>9. Calm'
  BY <1>1, <1>2 DEF CalmInv, Calm
<1>10. Collected'
  <2>1. Disturbed => Disturbed'
    BY <1>1 DEF Disturbed
  <2> QED BY <2>1, <1>1, <1>2 DEF CalmInv, Collected
<1> QED BY <1>5, <1>6, <1>7, <1>8, <1>9, <1>10 DEF CalmInv

LEMMA ObjectsStayCalm ==
  ASSUME ContainerInv, CalmInv, NEW o \in Objects,
         Finish(o) \/ HookThrows(o) \/ InjectionFails(o)
  PROVE  CalmInv'
<1>1. UNCHANGED <<mapVars, callVars, downVars>>
  BY DEF Finish, HookThrows, InjectionFails
<1>2. /\ status[o] \in {"pending", "injecting"} /\ status'[o] \in {"ready", "error"}
      /\ \A q \in Objects : q # o => status'[q] = status[q]
  BY DEF Finish, HookThrows, InjectionFails, ContainerInv, TypeOK
<1>3. Disturbed' <=> Disturbed
  BY <1>1 DEF Disturbed, callVars
<1>4. Sourced'
  BY <1>1, <1>2 DEF CalmInv, Sourced, mapVars, callVars
<1>5. AsksOnce'
  BY <1>1, <1>2 DEF CalmInv, AsksOnce, callVars
<1>6. LaterIsEmpty' /\ NobodyLeft' /\ Calm'
  BY <1>1 DEF CalmInv, LaterIsEmpty, NobodyLeft, Calm, mapVars, callVars, downVars
<1>7. NotYet'
  BY <1>1, <1>2 DEF CalmInv, NotYet, downVars
<1>8. Collected'
  <2>1. ~(phase # "up" /\ settled /\ ~Disturbed)
    BY <1>2 DEF CalmInv, Collected
  <2> QED BY <2>1, <1>1, <1>3 DEF Collected, downVars
<1> QED BY <1>4, <1>5, <1>6, <1>7, <1>8 DEF CalmInv

\* What destroy finds in the maps is, when nobody is on the way, everything.
LEMMA DestroyIsCalm ==
  ASSUME ContainerInv, CalmInv, Destroy
  PROVE  CalmInv'
<1>1. /\ UNCHANGED <<mapVars, callVars>> /\ phase = "up" /\ phase' = "destroying"
      /\ scope' = 1 /\ leaving' = Kept /\ settled' = \A c \in Calls : Rests(c)
  BY DEF Destroy
<1>2. scope = 0
  BY <1>1 DEF ContainerInv, TypeOK
<1>3. \A o \in Objects : status'[o] = IF o \in Kept /\ status[o] = "ready"
                                      THEN "destroying" ELSE status[o]
  BY DEF Destroy
<1>4. Sourced' /\ AsksOnce'
  BY <1>1, <1>3 DEF CalmInv, Sourced, AsksOnce, mapVars, callVars
<1>5. LaterIsEmpty' /\ NotYet' /\ NobodyLeft'
  BY <1>1 DEF LaterIsEmpty, NotYet, NobodyLeft
<1>6. Calm'
  BY <1>1 DEF Calm, Rests, callVars
<1>7. Collected'
  <2> SUFFICES ASSUME settled', NEW o \in Objects,
                      status[o] \notin {"absent", "error"}
               PROVE  status'[o] = "destroying" /\ o \in Kept
    BY <1>1, <1>3 DEF Collected
  <2>1. o[1] \in Protos /\ o # None
    BY ContainerAssumption DEF Objects
  <2>2. \A c \in Calls : pc[c] # "owner"
    BY <1>1 DEF Rests
  <2>3. store[0][o[1]] = o
    <3>1. PICK s \in Scopes : store[s][o[1]] = o
      BY <2>2 DEF CalmInv, Sourced
    <3>2. store[1][o[1]] = None
      BY <2>1, <1>2 DEF CalmInv, LaterIsEmpty
    <3> QED BY <3>1, <3>2, <2>1 DEF Scopes
  <2>4. o \in Kept
    BY <2>1, <2>3, <1>2 DEF Kept
  <2>5. status[o] = "ready"
    BY <2>1, <2>3, <1>1 DEF ContainerInv, Stores, Built, CalmInv, NotYet, Scopes
  <2> QED BY <2>4, <2>5, <1>3
<1> QED BY <1>4, <1>5, <1>6, <1>7 DEF CalmInv

LEMMA DestroyingIsCalm ==
  ASSUME ContainerInv, CalmInv,
         Destroyed \/ \E o \in Objects : DestroyObject(o) \/ DestroyThrows(o)
  PROVE  CalmInv'
<1>1. /\ UNCHANGED <<mapVars, callVars>> /\ scope' = scope /\ settled' = settled
      /\ phase # "up" /\ phase' # "up"
  BY DEF Destroyed, DestroyObject, DestroyThrows, ContainerInv, LeavingInv
<1>2. \/ phase = "destroying" /\ leaving = {} /\ phase' = "destroyed" /\ leaving' = {}
         /\ status' = status
      \/ \E o \in leaving :
           /\ leaving' = leaving \ {o}
           /\ \/ /\ phase' = phase
                 /\ status'[o] = IF status[o] = "destroying" THEN "destroyed" ELSE status[o]
              \/ phase' = "broken" /\ status'[o] = status[o]
           /\ \A q \in Objects : q # o => status'[q] = status[q]
  BY DEF Destroyed, DestroyObject, DestroyThrows, ContainerInv, TypeOK
<1>3. \A q \in Objects :
         status'[q] = status[q] \/ (status[q] = "destroying" /\ status'[q] = "destroyed")
  <2> SUFFICES ASSUME NEW q \in Objects, status'[q] # status[q]
               PROVE  status[q] = "destroying" /\ status'[q] = "destroyed"
    OBVIOUS
  <2>1. status' # status
    OBVIOUS
  <2>2. PICK o \in leaving :
           /\ status'[o] \in
                {status[o], IF status[o] = "destroying" THEN "destroyed" ELSE status[o]}
           /\ \A r \in Objects : r # o => status'[r] = status[r]
    BY <2>1, <1>2
  <2> QED BY <2>2
<1>4. Sourced' /\ AsksOnce'
  BY <1>1, <1>3 DEF CalmInv, Sourced, AsksOnce, mapVars, callVars
<1>5. LaterIsEmpty' /\ NotYet' /\ Calm'
  BY <1>1 DEF CalmInv, LaterIsEmpty, NotYet, Calm, mapVars, callVars
<1>6. NobodyLeft'
  BY <1>2 DEF CalmInv, NobodyLeft
<1>7. Collected'
  <2>1. Disturbed' <=> Disturbed
    BY <1>1 DEF Disturbed, callVars
  <2> SUFFICES ASSUME settled, ~Disturbed, NEW q \in Objects
               PROVE  \/ status'[q] \in {"absent", "error", "destroyed"}
                      \/ status'[q] = "destroying" /\ (q \in leaving' \/ phase' = "broken")
    BY <2>1, <1>1 DEF Collected
  <2>2. \/ status[q] \in {"absent", "error", "destroyed"}
        \/ status[q] = "destroying" /\ (q \in leaving \/ phase = "broken")
    BY <1>1 DEF CalmInv, Collected
  <2> QED BY <2>2, <1>2, <1>3
<1> QED BY <1>4, <1>5, <1>6, <1>7 DEF CalmInv

LEMMA NextCalm == ContainerInv /\ CalmInv /\ [Next]_vars => CalmInv'
<1> SUFFICES ASSUME ContainerInv, CalmInv, [Next]_vars PROVE CalmInv'
  OBVIOUS
<1>1. CASE UNCHANGED vars
  BY <1>1 DEF vars, mapVars, callVars, downVars, CalmInv, Sourced, AsksOnce, LaterIsEmpty,
              NotYet, NobodyLeft, Calm, Collected, Disturbed
<1> QED BY <1>1, AsksStayCalm, CallsStayCalm, ObjectsStayCalm, DestroyIsCalm,
           DestroyingIsCalm DEF Next, ObjectStep

-----------------------------------------------------------------------------
(* Theorems *)

\* Every reachable state has the types of the maps and calls of the container.
THEOREM ContainerTypes == Spec => []TypeOK
<1>1. ContainerInv => TypeOK
  BY DEF ContainerInv
<1> QED BY <1>1, ContainerInvariant, PTL

\* The callers of a proto in one scope get one object, whatever the order of
\* their asks, of the creation and of destroy: a map is written once.
THEOREM SingleFlight == Spec => []OneObjectPerScope
<1>1. ContainerInv => OneObjectPerScope
  BY DEF ContainerInv, Answered, OneObjectPerScope
<1> QED BY <1>1, ContainerInvariant, PTL

\* Nobody is handed an object that is not built, and an object is built after
\* everything it injects.
THEOREM DependenciesFirst == Spec => []InjectedFirst
<1>1. ASSUME ContainerInv PROVE InjectedFirst
  <2>1. ASSUME NEW c \in Calls, pc[c] = "returned"
        PROVE  got[c] \in Objects /\ status[got[c]] \in Built
    <3>1. Want(c) \in Protos /\ seen[c] \in Scopes /\ got[c] \in Objects \cup {None}
      BY Wanted, <1>1 DEF ContainerInv, TypeOK
    <3> QED BY <2>1, <3>1, <1>1 DEF ContainerInv, Answered, Stores
  <2> QED BY <2>1, <1>1 DEF ContainerInv, AllInjected, InjectedFirst
<1> QED BY <1>1, ContainerInvariant, PTL

\* In a live context a failed creation fails every caller of the proto.
THEOREM SharedFate == Spec => []FailureIsShared
<1>1. ContainerInv => FailureIsShared
  BY DEF ContainerInv, Answered, Failed, FailureIsShared
<1> QED BY <1>1, ContainerInvariant, PTL

\* A destroy that found nobody on the way, and nobody asked after, leaves no
\* object alive: who is not in the maps was never built.
THEOREM CalmDestroy == Spec => []CalmDestroyCollects
<1>1. ContainerInv /\ CalmInv => CalmDestroyCollects
  <2> SUFFICES ASSUME ContainerInv, CalmInv, phase = "destroyed", settled,
                      \A c \in Calls : pc[c] # "idle" => seen[c] = 0,
                      NEW o \in Objects
               PROVE  status[o] \in {"absent", "error", "destroyed"}
    BY DEF CalmDestroyCollects
  <2>1. ~Disturbed /\ leaving = {}
    BY DEF Disturbed, CalmInv, NobodyLeft
  <2> QED BY <2>1 DEF CalmInv, Collected
<1> QED BY <1>1, InitCalm, NextCalm, ContainerInvariant, PTL DEF Spec

-----------------------------------------------------------------------------
(* Background tasks.  A task that runs is in the list, or the timeout fired   *)
(* on it, or it came too late; and when the race is over nothing of the front *)
(* of the list is unaccounted for.                                            *)

Listed ==
  \A t \in Tasks : state[t] = "running" => t \in Elements(list) \cup gaveUp \cup late

Settled ==
  pre = "raced" => \A t \in Elements(waits) : state[t] = "done" \/ t \in gaveUp

Types ==
  /\ state \in [Tasks -> {"new", "running", "done"}]
  /\ list \in Seq(Tasks) /\ waits \in Seq(Tasks)
  /\ Len(waits) <= Len(list) /\ \A i \in 1 .. Len(waits) : waits[i] = list[i]

TaskInv == Types /\ Listed /\ Settled /\ NoTaskIsForgotten

\* Appending a task to a list keeps what the list had.
LEMMA AppendKeeps ==
  ASSUME NEW l \in Seq(Tasks), NEW t \in Tasks
  PROVE  /\ Append(l, t) \in Seq(Tasks) /\ Len(Append(l, t)) = Len(l) + 1
         /\ \A i \in 1 .. Len(l) : Append(l, t)[i] = l[i]
         /\ Elements(Append(l, t)) = Elements(l) \cup {t}
<1>1. /\ Append(l, t) \in Seq(Tasks) /\ Len(Append(l, t)) = Len(l) + 1
      /\ \A i \in 1 .. Len(l) : Append(l, t)[i] = l[i]
      /\ Append(l, t)[Len(l) + 1] = t
  OBVIOUS
<1>2. DOMAIN l = 1 .. Len(l) /\ DOMAIN Append(l, t) = 1 .. (Len(l) + 1) /\ Len(l) \in Nat
  BY <1>1
<1>3. 1 .. (Len(l) + 1) = (1 .. Len(l)) \cup {Len(l) + 1}
  BY <1>2
<1> QED BY <1>1, <1>2, <1>3 DEF Elements

\* What follows a front of a list has the elements the front has not.
LEMMA RestKeeps ==
  ASSUME NEW l \in Seq(Tasks), NEW w \in Seq(Tasks), Len(w) < Len(l),
         \A i \in 1 .. Len(w) : w[i] = l[i]
  PROVE  LET r == SubSeq(l, Len(w) + 1, Len(l)) IN
         /\ r \in Seq(Tasks) /\ r # <<>>
         /\ Elements(l) \subseteq Elements(w) \cup Elements(r)
<1> DEFINE m == Len(w)  n == Len(l)  r == SubSeq(l, m + 1, n)
<1>1. m \in Nat /\ n \in Nat /\ DOMAIN w = 1 .. m /\ DOMAIN l = 1 .. n
      /\ m < n /\ \A i \in 1 .. m : w[i] = l[i]
  BY LenProperties
<1>2. \A i \in m + 1 .. n : l[i] \in Tasks
  BY <1>1, ElementOfSeq
<1>3. /\ r \in Seq(Tasks)
      /\ Len(r) = IF m + 1 <= n THEN n - (m + 1) + 1 ELSE 0
      /\ \A i \in 1 .. n - (m + 1) + 1 : r[i] = l[m + 1 + i - 1]
  BY <1>1, <1>2, SubSeqProperties
<1> HIDE DEF m, n, r
<1>4. Len(r) = n - m /\ \A i \in 1 .. n - m : r[i] = l[m + i]
  BY <1>1, <1>3
<1>5. DOMAIN r = 1 .. n - m
  BY <1>3, <1>4, LenProperties
<1>6. r # <<>>
  BY <1>1, <1>4
<1>7. ASSUME NEW j \in 1 .. n PROVE l[j] \in Elements(w) \cup Elements(r)
  <2>1. CASE j <= m
    <3>1. j \in DOMAIN w /\ w[j] = l[j]
      BY <2>1, <1>1
    <3> QED BY <3>1 DEF Elements
  <2>2. CASE j > m
    <3> DEFINE k == j - m
    <3>1. k \in 1 .. n - m /\ m + k = j
      BY <2>2, <1>1
    <3>2. k \in DOMAIN r /\ r[k] = l[j]
      BY <3>1, <1>4, <1>5
    <3> QED BY <3>2 DEF Elements
  <2> QED BY <2>1, <2>2, <1>1
<1>8. Elements(l) \subseteq Elements(w) \cup Elements(r)
  BY <1>1, <1>7 DEF Elements
<1> QED BY <1>3, <1>6, <1>8 DEF m, n, r

LEMMA InitTasks == TaskInit => TaskInv
BY DEF TaskInit, TaskInv, Types, Listed, Settled, NoTaskIsForgotten, Elements

LEMMA NextTasks == TaskInv /\ [TaskNext]_taskVars => TaskInv'
<1> SUFFICES ASSUME TaskInv, [TaskNext]_taskVars PROVE TaskInv'
  OBVIOUS
<1> USE DEF TaskInv
<1>1. ASSUME NEW t \in Tasks, Run(t) PROVE TaskInv'
  <2>1. /\ list' = Append(list, t) /\ waits' = waits /\ pre' = pre /\ gaveUp' = gaveUp
        /\ late' = IF pre = "done" THEN late \cup {t} ELSE late
        /\ state[t] = "new"
        /\ \E s \in {"running", "done"} : state' = [state EXCEPT ![t] = s]
    BY <1>1 DEF Run
  <2>2. Types'
    BY <2>1, AppendKeeps DEF Types
  <2>3. Elements(list') = Elements(list) \cup {t} /\ Elements(waits') = Elements(waits)
    BY <2>1, AppendKeeps DEF Types
  <2>4. \A q \in Tasks : q # t => state'[q] = state[q]
    BY <2>1 DEF Types
  <2>5. Listed'
    BY <2>1, <2>3, <2>4 DEF Listed
  <2>6. Settled'
    <3>1. pre = "raced" => t \notin Elements(waits) \/ t \in gaveUp
      BY <2>1 DEF Settled
    <3>2. Elements(waits) \subseteq Tasks
      BY DEF Types, Elements
    <3> QED BY <2>1, <2>3, <2>4, <3>1, <3>2 DEF Settled
  <2>7. NoTaskIsForgotten'
    BY <2>1, <2>4 DEF NoTaskIsForgotten
  <2> QED BY <2>2, <2>5, <2>6, <2>7
<1>2. ASSUME NEW t \in Tasks, End(t) PROVE TaskInv'
  <2>1. /\ state' = [state EXCEPT ![t] = "done"]
        /\ UNCHANGED <<list, waits, pre, gaveUp, late>>
    BY <1>2 DEF End
  <2>2. \A q \in Tasks : state'[q] = state[q] \/ state'[q] = "done"
    BY <2>1 DEF Types
  <2>3. Types'
    BY <2>1 DEF Types
  <2>4. Elements(waits) \subseteq Tasks /\ Elements(waits') = Elements(waits)
        /\ Elements(list') = Elements(list)
    BY <2>1 DEF Types, Elements
  <2> QED BY <2>1, <2>2, <2>3, <2>4 DEF Listed, Settled, NoTaskIsForgotten
<1>3. CASE Begin
  <2>1. /\ waits' = list /\ list' = list /\ pre' = IF list = <<>> THEN "done" ELSE "racing"
        /\ UNCHANGED <<state, gaveUp, late>>
    BY <1>3 DEF Begin, Race
  <2>2. Types' /\ Settled' /\ Listed'
    BY <2>1 DEF Types, Settled, Listed, Elements
  <2>3. list = <<>> => Elements(list) = {}
    BY DEF Elements
  <2> QED BY <2>1, <2>2, <2>3 DEF NoTaskIsForgotten, Listed
<1>4. CASE TasksWin
  <2>1. /\ pre' = "raced" /\ Done(waits) /\ UNCHANGED <<state, list, waits, gaveUp, late>>
    BY <1>4 DEF TasksWin
  <2> QED BY <2>1 DEF Types, Listed, Settled, NoTaskIsForgotten, Done, Elements
<1>5. CASE TimeoutWins
  <2>1. /\ pre' = "raced" /\ UNCHANGED <<state, list, waits, late>>
        /\ gaveUp' = gaveUp \cup {t \in Elements(waits) : state[t] # "done"}
    BY <1>5 DEF TimeoutWins
  <2>2. Elements(waits') = Elements(waits) /\ Elements(list') = Elements(list)
    BY <2>1 DEF Elements
  <2> QED BY <2>1, <2>2 DEF Types, Listed, Settled, NoTaskIsForgotten
<1>6. CASE Again
  <2>1. pre = "raced" /\ UNCHANGED <<state, gaveUp, late>>
    BY <1>6 DEF Again
  <2>2. CASE Len(list) = Len(waits)
    <3>1. pre' = "done" /\ UNCHANGED <<list, waits>>
      BY <2>2, <1>6 DEF Again
    <3>2. Elements(list) = Elements(waits)
      BY <2>2 DEF Types, Elements
    <3>3. \A t \in Tasks : state[t] = "running" => t \in gaveUp \cup late
      BY <2>1, <3>2 DEF Listed, Settled
    <3> QED BY <2>1, <3>1, <3>3 DEF Types, Listed, Settled, NoTaskIsForgotten, Elements
  <2>3. CASE Len(list) # Len(waits)
    <3> DEFINE r == SubSeq(list, Len(waits) + 1, Len(list))
    <3>1. Len(waits) < Len(list)
      BY <2>3 DEF Types
    <3>2. r \in Seq(Tasks) /\ r # <<>> /\ Elements(list) \subseteq Elements(waits) \cup Elements(r)
      BY <3>1, RestKeeps DEF Types
    <3>3. waits' = r /\ list' = r /\ pre' = "racing"
      BY <2>3, <3>2, <1>6 DEF Again, Race
    <3>4. Types'
      BY <2>1, <3>2, <3>3 DEF Types
    <3>5. Elements(list') = Elements(r)
      BY <3>3 DEF Elements
    <3>6. Listed'
      BY <2>1, <3>2, <3>5 DEF Listed, Settled
    <3> QED BY <3>3, <3>4, <3>6 DEF Settled, NoTaskIsForgotten
  <2> QED BY <2>2, <2>3
<1>7. CASE UNCHANGED taskVars
  BY <1>7 DEF taskVars, Types, Listed, Settled, NoTaskIsForgotten, Elements
<1> QED BY <1>1, <1>2, <1>3, <1>4, <1>5, <1>6, <1>7 DEF TaskNext

\* Types; what doPreDestroy waits for is the front of the list of tasks.
THEOREM TaskTypes == TaskSpec => []TaskTypeOK
<1>1. TaskInit => TaskTypeOK
  BY TimeoutAssumption DEF TaskInit, TaskTypeOK
<1>2. TaskTypeOK /\ Types' /\ [TaskNext]_taskVars => TaskTypeOK'
  <2> SUFFICES ASSUME TaskTypeOK, Types', [TaskNext]_taskVars PROVE TaskTypeOK'
    OBVIOUS
  <2>1. Elements(waits) \subseteq Tasks
    BY DEF TaskTypeOK, Elements
  <2>2. /\ hasTimeout' \in BOOLEAN /\ hung' \subseteq Tasks
        /\ pre' \in {"no", "racing", "raced", "done"}
        /\ gaveUp' \subseteq Tasks /\ late' \subseteq Tasks
    BY <2>1 DEF TaskTypeOK, TaskNext, Run, End, Begin, TasksWin, TimeoutWins, Again, Race, taskVars
  <2> QED BY <2>2 DEF TaskTypeOK, Types
<1>3. TaskInv => Types
  BY DEF TaskInv
<1> QED BY <1>1, <1>2, <1>3, InitTasks, NextTasks, PTL DEF TaskSpec

\* When doPreDestroy returns every task run until then has ended, or the
\* timeout fired on it.
THEOREM EveryTaskIsWaitedFor == TaskSpec => []NoTaskIsForgotten
<1>1. TaskInv => NoTaskIsForgotten
  BY DEF TaskInv
<1> QED BY <1>1, InitTasks, NextTasks, PTL DEF TaskSpec

-----------------------------------------------------------------------------
(* A request context *)

\* Who initialises an object, or has initialised it, has the object.
HadInv ==
  \A k \in Context!Calls : call[k] \in {"init", "returned"} => object[Context!Want(k)] = "ready"

\* Only a call of a listed object returns without the initialisation ...
FinishedInv ==
  \A k \in Context!Calls :
    call[k] = "returned" /\ k[1] # "list" => record[Context!Want(k)] = "done"

\* ... which is over when everything read through a getter has been given.
RecordedInv ==
  \A p \in CtxProtos :
    record[p] = "done" => \A k \in Context!InitsOf(p) : call[k] = "returned"

\* What preCreate, init and postCreate ask for.
PreCall == <<"pre", None, Helper>>
ListCall(p) == <<"list", None, p>>
PostCall == <<"post", None, root>>

\* What the middleware waits for is asked before the place is reached.
PlaceInv ==
  /\ place # "new" /\ root # None => call[PreCall] # "idle"
  /\ place \in {"post", "handler"} /\ root # None =>
       call[PreCall] = "returned" /\ call[PostCall] # "idle"
  /\ place = "handler" /\ root # None => call[PostCall] = "returned"
  /\ place \in {"post", "handler"} /\ root = None =>
       \A p \in InContext : call[ListCall(p)] = "returned"

ContextInv == Context!TypeOK /\ HadInv /\ FinishedInv /\ RecordedInv /\ PlaceInv

\* Every call is for a proto; nothing else is read through a getter than what is
\* of the context.
LEMMA ContextWants ==
  /\ \A k \in Context!Calls : Context!Want(k) \in CtxProtos
  /\ \A q, d : d \in Context!Getters(q) => d \in InContext
<1>1. InContext \subseteq CtxProtos
  BY InstancesAssumption DEF Context!ContextAssumption
<1>2. \A k \in Context!Calls : Context!Want(k) \in CtxProtos
  BY <1>1 DEF Context!Calls, Context!Want
<1> QED BY <1>2 DEF Context!Getters

\* What an initialisation and an injection ask for.
LEMMA InitCalls ==
  ASSUME NEW p \in CtxProtos, NEW k \in Context!InitsOf(p)
  PROVE  k \in Context!Calls /\ k[1] = "init" /\ k[2] = p
<1>1. Context!ContextProtos(p) \subseteq InContext
  BY ContextWants DEF Context!ContextProtos
<1> QED BY <1>1 DEF Context!InitsOf, Context!Calls

LEMMA InjectCalls ==
  ASSUME NEW p \in CtxProtos, NEW k \in Context!InjectionsOf(p)
  PROVE  k[1] = "inject"
BY DEF Context!InjectionsOf

\* What the middleware asks for.
LEMMA PlaceCalls ==
  ASSUME Context!TypeOK
  PROVE  /\ Helper \in CtxProtos /\ InContext \subseteq CtxProtos
         /\ root # None => root \in CtxProtos
         /\ PreCall \in Context!Calls /\ PreCall[1] = "pre" /\ Context!Want(PreCall) = Helper
         /\ \A p \in InContext : /\ ListCall(p) \in Context!Calls /\ ListCall(p)[1] = "list"
                                /\ Context!Want(ListCall(p)) = p
         /\ root # None => /\ PostCall \in Context!Calls /\ PostCall[1] = "post"
                           /\ Context!Want(PostCall) = root
<1>1. /\ Helper \in CtxProtos /\ InContext \subseteq CtxProtos
      /\ root # None => root \in CtxProtos
  BY InstancesAssumption DEF Context!TypeOK, Context!ContextAssumption
<1>2. ASSUME NEW p \in CtxProtos, NEW why \in {"pre", "list", "post"}
      PROVE  /\ <<why, None, p>> \in Context!Calls /\ <<why, None, p>>[1] = why
             /\ Context!Want(<<why, None, p>>) = p
  BY DEF Context!Calls, Context!Want
<1> QED BY <1>1, <1>2 DEF PreCall, ListCall, PostCall

LEMMA InitContext == Context!Init => ContextInv
<1> SUFFICES ASSUME Context!Init PROVE ContextInv
  OBVIOUS
<1> USE DEF Context!Init
<1>1. Context!TypeOK
  BY InstancesAssumption DEF Context!TypeOK, Context!ContextAssumption
<1>2. HadInv /\ FinishedInv /\ RecordedInv /\ PlaceInv
  BY InitCalls DEF HadInv, FinishedInv, RecordedInv, PlaceInv
<1> QED BY <1>1, <1>2 DEF ContextInv

\* Calls that are asked for without the initialisation of an object.
LEMMA AskedContext ==
  ASSUME ContextInv, NEW K \in SUBSET Context!Calls, Context!Asked(K, call),
         \A k \in K : k[1] \in {"pre", "list", "post", "handler"},
         root' = root, record' = record, contextFaults' = contextFaults
  PROVE  /\ object' \in [CtxProtos -> {"absent", "creating", "injecting", "ready", "failed"}]
         /\ call' \in [Context!Calls -> {"idle", "object", "init", "returned", "failed"}]
         /\ HadInv' /\ FinishedInv' /\ RecordedInv'
<1> USE DEF ContextInv
<1>1. /\ call' = [k \in Context!Calls |-> IF k \in K THEN "object" ELSE call[k]]
      /\ \A p \in CtxProtos : object[p] = "ready" => object'[p] = "ready"
      /\ object' \in [CtxProtos -> {"absent", "creating", "injecting", "ready", "failed"}]
  BY DEF Context!Asked, Context!TypeOK
<1>2. call' \in [Context!Calls -> {"idle", "object", "init", "returned", "failed"}]
  BY <1>1 DEF Context!TypeOK
<1>3. HadInv'
  BY <1>1, ContextWants DEF HadInv
<1>4. FinishedInv'
  BY <1>1 DEF FinishedInv
<1>5. RecordedInv'
  BY <1>1, InitCalls DEF RecordedInv
<1> QED BY <1>1, <1>2, <1>3, <1>4, <1>5

\* Every step of a request keeps the invariant.
LEMMA StepContext == ContextInv /\ Context!Step => ContextInv'
<1> SUFFICES ASSUME ContextInv, Context!Step PROVE ContextInv'
  OBVIOUS
<1> USE DEF ContextInv
<1>1. ASSUME NEW p \in CtxProtos, Context!Inject(p) PROVE ContextInv'
  <2>1. /\ call' = [k \in Context!Calls |->
                     IF k \in Context!InjectionsOf(p) THEN "object" ELSE call[k]]
        /\ object' \in [CtxProtos -> {"absent", "creating", "injecting", "ready", "failed"}]
        /\ \A q \in CtxProtos : object[q] = "ready" => object'[q] = "ready"
        /\ UNCHANGED <<root, place, record, contextFaults>>
    BY <1>1 DEF Context!Inject, Context!TypeOK
  <2>2. Context!TypeOK'
    BY <2>1 DEF Context!TypeOK
  <2>3. HadInv' /\ FinishedInv'
    BY <2>1, ContextWants DEF HadInv, FinishedInv
  <2>4. RecordedInv'
    BY <2>1, InitCalls, InjectCalls DEF RecordedInv
  <2>5. PlaceInv'
    BY <2>1, PlaceCalls, InjectCalls DEF PlaceInv, PostCall
  <2> QED BY <2>2, <2>3, <2>4, <2>5
<1>2. ASSUME NEW p \in CtxProtos, Context!Made(p) \/ Context!Breaks(p) PROVE ContextInv'
  <2>1. /\ object' \in [CtxProtos -> {"absent", "creating", "injecting", "ready", "failed"}]
        /\ \A q \in CtxProtos : object[q] = "ready" => object'[q] = "ready"
        /\ contextFaults' \in 0 .. MaxFaults
        /\ UNCHANGED <<root, place, record, call>>
    BY <1>2, InstancesAssumption
    DEF Context!Made, Context!Breaks, Context!TypeOK, Context!ContextAssumption
  <2>2. Context!TypeOK'
    BY <2>1 DEF Context!TypeOK
  <2>3. HadInv'
    BY <2>1, ContextWants DEF HadInv
  <2> QED BY <2>1, <2>2, <2>3 DEF FinishedInv, RecordedInv, PlaceInv, PreCall, ListCall, PostCall
<1>3. ASSUME NEW p \in CtxProtos, Context!Initiated(p) \/ Context!InitiationFails(p)
      PROVE  ContextInv'
  <2>1. /\ record[p] = "running" /\ record' \in [CtxProtos -> {"none", "running", "done", "failed"}]
        /\ \A q \in CtxProtos : q # p => record'[q] = record[q]
        /\ record'[p] = "done" => \A k \in Context!InitsOf(p) : call[k] = "returned"
        /\ UNCHANGED <<root, place, object, call, contextFaults>>
    BY <1>3 DEF Context!Initiated, Context!InitiationFails, Context!TypeOK
  <2>2. Context!TypeOK'
    BY <2>1 DEF Context!TypeOK
  <2>3. FinishedInv'
    BY <2>1, ContextWants DEF FinishedInv
  <2>4. RecordedInv'
    BY <2>1 DEF RecordedInv
  <2> QED BY <2>1, <2>2, <2>3, <2>4 DEF HadInv, PlaceInv, PreCall, ListCall, PostCall
<1>4. ASSUME NEW k \in Context!Calls, Context!Got(k), k[1] = "list" PROVE ContextInv'
  <2>1. /\ object[Context!Want(k)] = "ready" /\ call[k] = "object"
        /\ call' = [call EXCEPT ![k] = "returned"]
        /\ UNCHANGED <<root, place, object, record, contextFaults>>
    BY <1>4 DEF Context!Got
  <2>2. \A j \in Context!Calls : call'[j] = IF j = k THEN "returned" ELSE call[j]
    BY <2>1 DEF Context!TypeOK
  <2>3. Context!TypeOK'
    BY <2>1 DEF Context!TypeOK
  <2>4. HadInv' /\ FinishedInv'
    BY <1>4, <2>1, <2>2 DEF HadInv, FinishedInv
  <2>5. RecordedInv'
    BY <2>1, <2>2, InitCalls DEF RecordedInv
  <2>6. PlaceInv'
    BY <2>1, <2>2, PlaceCalls DEF PlaceInv, PostCall
  <2> QED BY <2>3, <2>4, <2>5, <2>6
<1>5. ASSUME NEW k \in Context!Calls, Context!Got(k), k[1] # "list" PROVE ContextInv'
  <2> DEFINE p == Context!Want(k)
             K == IF record[p] = "none" THEN Context!InitsOf(p) ELSE {}
  <2>0. p \in CtxProtos /\ K \subseteq Context!Calls
    BY ContextWants, InitCalls
  <2>1. /\ object[p] = "ready" /\ call[k] = "object"
        /\ UNCHANGED <<root, place, contextFaults>> /\ Context!Starts(k)
    BY <1>5 DEF Context!Got
  <2>2. /\ object' \in [CtxProtos -> {"absent", "creating", "injecting", "ready", "failed"}]
        /\ \A q \in CtxProtos : object[q] = "ready" => object'[q] = "ready"
    BY <2>0, <2>1 DEF Context!Starts, Context!Asked, Context!TypeOK
  <2>3. \A j \in Context!Calls :
          call'[j] = IF j \in K THEN "object" ELSE IF j = k THEN "init" ELSE call[j]
    BY <2>0, <2>1 DEF Context!Starts, Context!Asked, Context!TypeOK
  <2>4. call' \in [Context!Calls -> {"idle", "object", "init", "returned", "failed"}]
    BY <2>0, <2>1 DEF Context!Starts, Context!Asked, Context!TypeOK
  <2>5. /\ record' \in [CtxProtos -> {"none", "running", "done", "failed"}]
        /\ \A q \in CtxProtos : q # p => record'[q] = record[q]
        /\ record'[p] = IF record[p] = "none" THEN "running" ELSE record[p]
    BY <2>0, <2>1 DEF Context!Starts, Context!TypeOK
  <2> HIDE DEF p, K
  <2>6. Context!TypeOK'
    BY <2>1, <2>2, <2>4, <2>5 DEF Context!TypeOK
  <2>7. HadInv'
    BY <2>1, <2>2, <2>3, ContextWants DEF HadInv, p
  <2>8. FinishedInv'
    BY <2>0, <2>1, <2>3, <2>5, ContextWants DEF FinishedInv
  <2>9. RecordedInv'
    <3> SUFFICES ASSUME NEW q \in CtxProtos, record'[q] = "done", NEW j \in Context!InitsOf(q)
                 PROVE  call'[j] = "returned"
      BY DEF RecordedInv
    <3>1. record[q] = "done"
      BY <2>0, <2>5
    <3>2. call[j] = "returned" /\ j \in Context!Calls /\ j[2] = q
      BY <3>1, InitCalls DEF RecordedInv
    <3>3. j \notin K
      BY <2>0, <3>1, <3>2, InitCalls DEF K
    <3> QED BY <2>1, <2>3, <3>2, <3>3
  <2>10. \A j \in K : j[1] = "init"
    BY <2>0, InitCalls DEF K
  <2>11. PlaceInv'
    BY <2>1, <2>3, <2>10, PlaceCalls DEF PlaceInv, PostCall
  <2> QED BY <2>6, <2>7, <2>8, <2>9, <2>11
<1>6. ASSUME NEW k \in Context!Calls, Context!Return(k) \/ Context!Throw(k) PROVE ContextInv'
  <2>1. /\ call[k] = "init" \/ call[k] = "object"
        /\ call' \in [Context!Calls -> {"idle", "object", "init", "returned", "failed"}]
        /\ \A j \in Context!Calls : j # k => call'[j] = call[j]
        /\ \/ call'[k] = "failed"
           \/ call'[k] = "returned" /\ call[k] = "init" /\ record[Context!Want(k)] = "done"
        /\ UNCHANGED <<root, place, object, record, contextFaults>>
    BY <1>6 DEF Context!Return, Context!Throw, Context!TypeOK
  <2>2. Context!TypeOK'
    BY <2>1 DEF Context!TypeOK
  <2>3. HadInv' /\ FinishedInv'
    BY <2>1 DEF HadInv, FinishedInv
  <2>4. RecordedInv'
    BY <2>1, InitCalls DEF RecordedInv
  <2>5. PlaceInv'
    BY <2>1, PlaceCalls DEF PlaceInv, PostCall
  <2> QED BY <2>2, <2>3, <2>4, <2>5
<1> QED BY <1>1, <1>2, <1>3, <1>4, <1>5, <1>6 DEF Context!Step

\* So does every step of the middleware.
LEMMA MiddlewareContext == ContextInv /\ Context!Middleware => ContextInv'
<1> SUFFICES ASSUME ContextInv, Context!Middleware PROVE ContextInv'
  OBVIOUS
<1> USE DEF ContextInv
<1>1. ASSUME NEW why \in {"pre", "list", "post", "handler"}, NEW P \in SUBSET CtxProtos,
             Context!AsksFor(why, P), UNCHANGED <<root, record, contextFaults>>,
             place' \in {"pre", "post", "handler"}
      PROVE  /\ Context!TypeOK' /\ HadInv' /\ FinishedInv' /\ RecordedInv'
             /\ \A k \in Context!Calls :
                  call'[k] = IF k \in {why} \X {None} \X P THEN "object" ELSE call[k]
  <2> DEFINE K == {why} \X {None} \X P
  <2>1. K \in SUBSET Context!Calls /\ \A k \in K : k[1] = why
    BY <1>1 DEF Context!Calls
  <2>2. Context!Asked(K, call)
    BY <1>1 DEF Context!AsksFor
  <2>3. \A k \in Context!Calls : call'[k] = IF k \in K THEN "object" ELSE call[k]
    BY <2>2 DEF Context!Asked
  <2> HIDE DEF K
  <2>4. /\ object' \in [CtxProtos -> {"absent", "creating", "injecting", "ready", "failed"}]
        /\ call' \in [Context!Calls -> {"idle", "object", "init", "returned", "failed"}]
        /\ HadInv' /\ FinishedInv' /\ RecordedInv'
    BY <1>1, <2>1, <2>2, AskedContext
  <2>5. Context!TypeOK'
    BY <1>1, <2>4 DEF Context!TypeOK
  <2> QED BY <2>3, <2>4, <2>5 DEF K
<1>2. CASE Context!PreCreate
  <2> DEFINE P == IF root = None THEN {} ELSE {Helper}
  <2>1. /\ Context!AsksFor("pre", P) /\ place' = "pre" /\ place = "new"
        /\ UNCHANGED <<root, record, contextFaults>> /\ P \in SUBSET CtxProtos
    BY <1>2, PlaceCalls DEF Context!PreCreate
  <2>2. /\ Context!TypeOK' /\ HadInv' /\ FinishedInv' /\ RecordedInv'
        /\ \A k \in Context!Calls :
             call'[k] = IF k \in {"pre"} \X {None} \X P THEN "object" ELSE call[k]
    BY <2>1, <1>1
  <2>3. root # None => call'[PreCall] = "object"
    BY <2>1, <2>2, PlaceCalls DEF PreCall
  <2>4. PlaceInv'
    BY <2>1, <2>3 DEF PlaceInv, PreCall
  <2> QED BY <2>2, <2>4
<1>3. CASE Context!CreateListed
  <2>1. PICK p \in InContext \ Context!Listed : Context!AsksFor("list", {p})
    BY <1>3 DEF Context!CreateListed
  <2>2. /\ place = "pre" /\ root = None /\ {p} \in SUBSET CtxProtos
        /\ UNCHANGED <<root, place, record, contextFaults>>
    BY <1>3, PlaceCalls DEF Context!CreateListed
  <2>3. Context!TypeOK' /\ HadInv' /\ FinishedInv' /\ RecordedInv'
    BY <2>1, <2>2, <1>1
  <2>4. PlaceInv'
    BY <2>2 DEF PlaceInv, PostCall
  <2> QED BY <2>3, <2>4
<1>4. CASE Context!PostCreate
  <2> DEFINE P == IF root = None THEN {} ELSE {root}
  <2>1. /\ Context!AsksFor("post", P) /\ place' = "post" /\ place = "pre"
        /\ Context!Over("pre") /\ Context!Over("list")
        /\ root = None => Context!Listed = InContext
        /\ UNCHANGED <<root, record, contextFaults>> /\ P \in SUBSET CtxProtos
    BY <1>4, PlaceCalls DEF Context!PostCreate
  <2>2. /\ Context!TypeOK' /\ HadInv' /\ FinishedInv' /\ RecordedInv'
        /\ \A k \in Context!Calls :
             call'[k] = IF k \in {"post"} \X {None} \X P THEN "object" ELSE call[k]
    BY <2>1, <1>1
  <2>3. root # None => call[PreCall] = "returned"
    BY <2>1, PlaceCalls DEF PlaceInv, Context!Over, Context!Of
  <2>4. ASSUME root = None, NEW p \in InContext PROVE call[ListCall(p)] = "returned"
    <3>1. PICK k \in Context!Of("list") : p = Context!Want(k)
      BY <2>1, <2>4 DEF Context!Listed
    <3>2. k \in Context!Calls /\ k[1] = "list" /\ k[3] = p /\ call[k] = "returned"
      BY <3>1, <2>1 DEF Context!Of, Context!Over, Context!Want
    <3>3. k = ListCall(p)
      BY <3>2 DEF Context!Calls, ListCall
    <3> QED BY <3>2, <3>3
  <2>5. PlaceInv'
    BY <2>1, <2>2, <2>3, <2>4, PlaceCalls DEF PlaceInv, PostCall
  <2> QED BY <2>2, <2>5
<1>5. CASE Context!Handle
  <2>1. /\ Context!AsksFor("handler", Handler) /\ place' = "handler" /\ place = "post"
        /\ Context!Over("post") /\ UNCHANGED <<root, record, contextFaults>>
        /\ Handler \in SUBSET CtxProtos
    BY <1>5, InstancesAssumption DEF Context!Handle, Context!ContextAssumption
  <2>2. /\ Context!TypeOK' /\ HadInv' /\ FinishedInv' /\ RecordedInv'
        /\ \A k \in Context!Calls :
             call'[k] = IF k \in {"handler"} \X {None} \X Handler THEN "object" ELSE call[k]
    BY <2>1, <1>1
  <2>3. root # None => call[PostCall] = "returned"
    BY <2>1, PlaceCalls DEF PlaceInv, Context!Over, Context!Of
  <2>4. PlaceInv'
    BY <2>1, <2>2, <2>3, PlaceCalls DEF PlaceInv, PostCall
  <2> QED BY <2>2, <2>4
<1>6. CASE Context!Refuse
  <2>1. /\ place' = "failed" /\ place # "new"
        /\ UNCHANGED <<root, object, record, call, contextFaults>>
    BY <1>6 DEF Context!Refuse
  <2> QED BY <2>1 DEF Context!TypeOK, HadInv, FinishedInv, RecordedInv, PlaceInv
<1> QED BY <1>2, <1>3, <1>4, <1>5, <1>6 DEF Context!Middleware

LEMMA NextContext == ContextInv /\ [Context!Next]_(Context!vars) => ContextInv'
<1> SUFFICES ASSUME ContextInv, [Context!Next]_(Context!vars) PROVE ContextInv'
  OBVIOUS
<1>1. CASE UNCHANGED Context!vars
  BY <1>1 DEF Context!vars, ContextInv, Context!TypeOK, HadInv, FinishedInv, RecordedInv,
              PlaceInv, PreCall, ListCall, PostCall
<1> QED BY <1>1, StepContext, MiddlewareContext DEF Context!Next

\* The invariant gives every object that somebody may read.
LEMMA ContextReads == ContextInv => Context!AccessFinds
<1> SUFFICES ASSUME ContextInv PROVE Context!AccessFinds
  OBVIOUS
<1> USE DEF ContextInv
<1>1. ASSUME NEW k \in Context!Calls, call[k] = "returned", k[1] # "list"
      PROVE  Context!Readable(Context!Want(k))
  <2> DEFINE p == Context!Want(k)
  <2>1. p \in CtxProtos /\ record[p] = "done"
    BY <1>1, ContextWants DEF FinishedInv
  <2>2. ASSUME NEW q \in Context!Below(p), NEW d \in Context!Getters(q)
        PROVE  object[d] = "ready"
    <3>1. <<"init", p, d>> \in Context!InitsOf(p)
      BY DEF Context!InitsOf, Context!ContextProtos
    <3>2. call[<<"init", p, d>>] = "returned" /\ <<"init", p, d>> \in Context!Calls
      BY <2>1, <3>1, InitCalls DEF RecordedInv
    <3> QED BY <3>2 DEF HadInv, Context!Want
  <2> QED BY <2>2 DEF Context!Readable
<1>2. ASSUME place = "handler", root = None
      PROVE  \A p \in InContext : object[p] = "ready"
  BY <1>2, PlaceCalls DEF PlaceInv, HadInv
<1>3. ASSUME place = "handler", root = None, NEW p \in CtxProtos PROVE Context!Readable(p)
  BY <1>2, <1>3, ContextWants DEF Context!Readable
<1>4. ASSUME place = "handler" PROVE object[Helper] = "ready"
  <2>1. CASE root = None
    BY <1>2, <1>4, <2>1, InstancesAssumption DEF Context!ContextAssumption
  <2>2. CASE root # None
    BY <1>4, <2>2, PlaceCalls DEF PlaceInv, HadInv
  <2> QED BY <2>1, <2>2
<1>5. ASSUME place = "handler", root # None PROVE Context!Readable(root)
  <2>1. /\ PostCall \in Context!Calls /\ call[PostCall] = "returned"
        /\ PostCall[1] = "post" /\ Context!Want(PostCall) = root
    BY <1>5, PlaceCalls DEF PlaceInv
  <2> QED BY <2>1, <1>1
<1> QED BY <1>1, <1>3, <1>4, <1>5 DEF Context!AccessFinds

-----------------------------------------------------------------------------
(* All of them together *)

\* A behaviour of the whole is one of each part, or rests.
LEMMA PartsBehave ==
  MCSpec => /\ Init /\ [][Next]_vars
            /\ Context!Init /\ [][Context!Next]_(Context!vars)
<1>1. MCInit => Init /\ Context!Init
  BY DEF MCInit
<1>2. [MCNext]_allVars => [Next]_vars /\ [Context!Next]_(Context!vars)
  <2> SUFFICES ASSUME [MCNext]_allVars PROVE [Next]_vars /\ [Context!Next]_(Context!vars)
    OBVIOUS
  <2>1. contextVars' = contextVars <=> UNCHANGED Context!vars
    BY DEF contextVars, Context!vars
  <2> QED BY <2>1 DEF MCNext, allVars
<1> QED BY <1>1, <1>2, PTL DEF MCSpec

\* What was created is found and given back: who has its object reads through
\* every getter below it without finding one missing, and a container that is
\* destroyed while nobody creates leaves no object alive (ContextInitiator.init,
\* AbstractEggContext.destroy).
THEOREM ObjectsAreFoundAndCollected == MCSpec => []ObjectsAreAccountedFor
<1>1. Spec => []CalmDestroyCollects
  BY CalmDestroy
<1>2. ContextInv => Context!AccessFinds
  BY ContextReads
<1> QED BY <1>1, <1>2, InitContext, NextContext, PartsBehave, PTL DEF ObjectsAreAccountedFor, Spec
=============================================================================
