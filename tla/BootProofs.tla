------------------------------- MODULE BootProofs -------------------------------
(***************************************************************************)
(* Proofs about boot and shutdown: units and their instances, for any      *)
(* number of them and of calls of main(), and any hooks and objects that   *)
(* throw; properties of egg; modules and their configuration; the graph of *)
(* the prototypes, for any that are declared; and what a class with        *)
(* decorated members is constructed with.                                  *)
(***************************************************************************)
EXTENDS MCBoot, FiniteSetTheorems, SequenceTheorems, WellFoundedInduction, TLAPS

-----------------------------------------------------------------------------
(* Units, their instances, and the registries they are in *)

Places == {"idle", "load", "creating", "instance", "init", "ready", "failed", "destroying",
           "destroyed", "destroyFailed"}
LiveInstances == [unit : Boot!UnitIds, owner : Runs, by : Runs]

\* The first and the last unit of the batch of a unit.
Bottom(u) == IF Boot!Controllers(u) THEN UnitCount ELSE 1
Top(u) == IF host = "app" /\ u # UnitCount THEN UnitCount - 1 ELSE UnitCount

UnitTypes ==
  /\ Boot!TypeOK /\ host \in {"app", "standalone"} /\ pc \in [Runs -> Places]
  /\ live \subseteq LiveInstances /\ failed \subseteq Runs /\ overlapped \in BOOLEAN

\* What a run holds of the units, by how far it is.
PlaceOf(r) ==
  /\ pc[r] \in {"idle", "destroyed"} => \A u \in Boot!UnitIds : loadUnits[r][u] = Boot!Nobody
  /\ pc[r] = "idle" =>
       at[r] = 1 /\ \A u \in Boot!UnitIds : loadUnitInstances[r][u] = Boot!NoInstance
  /\ pc[r] \in {"load", "creating"} => \A u \in Boot!UnitIds :
       /\ u >= at[r] => loadUnits[r][u] = Boot!Nobody
       /\ u < at[r] /\ u >= Bottom(at[r]) => loadUnits[r][u] # Boot!Nobody
  /\ pc[r] \in {"instance", "init"} => \A u \in Boot!UnitIds :
       /\ u > Top(at[r]) => loadUnits[r][u] = Boot!Nobody
       /\ u <= Top(at[r]) /\ u >= Bottom(at[r]) => loadUnits[r][u] # Boot!Nobody
PlaceInv == \A r \in Runs : PlaceOf(r)

\* What is registered of a run, the run still holds, or it failed.
HooksRegistered ==
  /\ \A r \in Runs : pc[r] \notin {"idle", "destroyed"} => {r} \X Boot!HookKinds \subseteq lifecycles
  /\ \A h \in lifecycles : pc[h[1]] # "idle"
       /\ (pc[h[1]] = "destroyed" => host = "standalone" /\ h[2] = "configSource")
UnitsRegistered ==
  \A r \in Runs, u \in Boot!UnitIds : loadUnitMap[u] = r =>
    loadUnits[r][u] = r \/ (host = "standalone" /\ pc[r] = "failed")
ProtosRegistered ==
  \A u \in Boot!UnitIds, r \in Runs, k \in Boot!Configs : <<u, r, k>> \in publicProtoMap =>
    \/ loadUnits[r][u] = r \/ (host = "standalone" /\ (u = 1 \/ pc[r] = "failed"))
    \/ pc[r] = "destroyFailed"
RegisteredInv == HooksRegistered /\ UnitsRegistered /\ ProtosRegistered

\* Runs one after the other, only one in an application; one whose boot failed.
SequenceInv ==
  /\ \A r \in Runs : r > 1 /\ pc[r] # "idle" => host = "standalone"
  /\ \A r \in Runs : pc[r] = "failed" => r \in failed
  /\ \A r \in failed : pc[r] # "idle" /\ (host = "standalone" => pc[r] = "failed")
  /\ ~overlapped => \A q, r \in Runs :
       q < r /\ pc[r] # "idle" => pc[q] \in {"destroyed", "destroyFailed"}

\* The instance of the unit was created for this run, or found.
Instantiated(r, u) ==
  \/ pc[r] \in {"ready", "destroying"}
  \/ pc[r] \in {"load", "creating"} /\ Boot!Controllers(at[r]) /\ u < at[r]
  \/ pc[r] \in {"instance", "init"} /\ u < at[r]

\* Who has singletons is registered, with its unit, but for a boot that failed.
SingletonsRegistered ==
  \A i \in live : pc[i.by] # "idle" /\ (i.by \notin failed =>
    /\ instanceMap[i.unit] = i
    /\ loadUnitMap[i.unit] = i.owner \/ Boot!Controllers(i.unit))
\* The run in hand holds what is registered.
InstancesHeld ==
  \A r \in Runs \ failed, u \in Boot!UnitIds :
    Instantiated(r, u) => loadUnitInstances[r][u] = instanceMap[u]
CreatingIsNew == \A r \in Runs : pc[r] = "creating" => loadUnitMap[at[r]] = Boot!Nobody
InitIsRegistered ==
  \A r \in Runs : pc[r] = "init" =>
    instanceMap[at[r]] = Boot!Instance(at[r], loadUnits[r][at[r]], r)
DestroyedIsGone ==
  \A r \in Runs \ failed : pc[r] = "destroyed" =>
    (\A u \in Boot!UnitIds : instanceMap[u].by # r) /\ \A i \in live : i.by # r
LiveInv ==
  ~overlapped =>
    SingletonsRegistered /\ InstancesHeld /\ CreatingIsNew /\ InitIsRegistered /\ DestroyedIsGone

UnitsInv == UnitTypes /\ PlaceInv /\ RegisteredInv /\ SequenceInv /\ LiveInv
-----------------------------------------------------------------------------
(* Batches of units *)

LEMMA Counts ==
  /\ UnitCount \in Nat /\ UnitCount >= 2 /\ MaxFaults \in Nat
  /\ Runs \subseteq Nat /\ \A r \in Runs : r > 0
BY InstancesAssumption DEF Boot!BootAssumption

LEMMA EarlierRuns == \A r \in Runs : r = 1 \/ r - 1 \in Runs
BY InstancesAssumption DEF Boot!BootAssumption

LEMMA BatchIs ==
  ASSUME host \in {"app", "standalone"}, NEW u \in Boot!UnitIds
  PROVE  /\ Boot!Batch(u) = Bottom(u) .. Top(u) /\ Boot!First(Boot!Batch(u)) = Bottom(u)
         /\ Bottom(u) \in Boot!UnitIds /\ Top(u) \in Boot!UnitIds
         /\ Bottom(u) <= u /\ u <= Top(u)
         /\ \A v \in Bottom(u) .. Top(u) : Bottom(v) = Bottom(u) /\ Top(v) = Top(u)
         /\ \A v \in Boot!UnitIds : v \in Bottom(u) .. Top(u) <=>
              (Boot!Controllers(v) <=> Boot!Controllers(u))
<1>1. /\ Bottom(u) \in Boot!UnitIds /\ Top(u) \in Boot!UnitIds
      /\ Bottom(u) <= u /\ u <= Top(u)
      /\ \A v \in Bottom(u) .. Top(u) : Bottom(v) = Bottom(u) /\ Top(v) = Top(u)
      /\ \A v \in Boot!UnitIds : v \in Bottom(u) .. Top(u) <=>
           (Boot!Controllers(v) <=> Boot!Controllers(u))
  BY Counts DEF Bottom, Top, Boot!UnitIds, Boot!Controllers
<1>2. Boot!Batch(u) = Bottom(u) .. Top(u)
  BY <1>1, Counts DEF Boot!Batch, Boot!UnitIds, Boot!Controllers
<1>3. Boot!First(Boot!Batch(u)) = Bottom(u)
  <2>1. Bottom(u) \in Boot!Batch(u) /\ \A v \in Boot!Batch(u) : Bottom(u) <= v
    BY <1>1, <1>2, Counts DEF Boot!UnitIds
  <2>2. \A f \in Boot!Batch(u) : (\A v \in Boot!Batch(u) : f <= v) => f = Bottom(u)
    BY <1>1, <1>2, <2>1, Counts DEF Boot!UnitIds
  <2> QED
    BY <2>1, <2>2 DEF Boot!First
<1> QED
  BY <1>1, <1>2, <1>3

LEMMA LeastOf ==
  ASSUME NEW S \in SUBSET Nat, S # {}
  PROVE  \E n \in S : \A m \in S : n <= m
<1>1. PICK n \in S : \A m \in Nat : <<m, n>> \in OpToRel(<, Nat) => m \notin S
  BY NatLessThanWellFounded, WFMin
<1>2. \A m \in S : ~(m < n)
  BY <1>1 DEF OpToRel
<1> QED
  BY <1>2

\* destroy() takes the controllers, or the first unit it holds.
LEMMA ForemostIs ==
  ASSUME host \in {"app", "standalone"}, NEW s, s \subseteq Boot!UnitIds, s # {}
  PROVE  /\ Boot!Foremost(s) \in s
         /\ (\E u \in s : Boot!Controllers(u)) => Boot!Foremost(s) = UnitCount
<1>1. CASE \E u \in s : Boot!Controllers(u)
  BY <1>1 DEF Boot!Foremost, Boot!Controllers
<1>2. CASE ~ \E u \in s : Boot!Controllers(u)
  <2>1. s \subseteq Nat
    BY Counts DEF Boot!UnitIds
  <2>2. \E n \in s : \A v \in s : n <= v
    BY <2>1, LeastOf
  <2>3. Boot!First(s) \in s
    BY <2>2 DEF Boot!First
  <2> QED
    BY <1>2, <2>3 DEF Boot!Foremost
<1> QED
  BY <1>1, <1>2

\* What comes after a unit that was loaded.
LEMMA UnitDoneIs ==
  ASSUME UnitTypes, NEW r \in Runs, Boot!UnitDone(r)
  PROVE  \/ /\ at[r] < Top(at[r]) /\ Top(at[r] + 1) = Top(at[r]) /\ Bottom(at[r] + 1) = Bottom(at[r])
            /\ pc' = [pc EXCEPT ![r] = "load"] /\ at' = [at EXCEPT ![r] = at[r] + 1]
         \/ /\ at[r] = Top(at[r]) /\ Top(Bottom(at[r])) = Top(at[r])
            /\ Bottom(Bottom(at[r])) = Bottom(at[r])
            /\ pc' = [pc EXCEPT ![r] = "instance"] /\ at' = [at EXCEPT ![r] = Bottom(at[r])]
<1>1. at[r] \in Boot!UnitIds /\ at[r] \in Nat
  BY Counts DEF UnitTypes, Boot!TypeOK, Boot!UnitIds
<1> USE DEF Boot!UnitDone, Boot!Go
<1>2. CASE at[r] + 1 \in Boot!Batch(at[r])
  <2>1. at[r] + 1 \in Bottom(at[r]) .. Top(at[r]) /\ Top(at[r]) \in Nat
    BY <1>1, <1>2, BatchIs, Counts DEF UnitTypes, Boot!UnitIds
  <2>2. Top(at[r] + 1) = Top(at[r]) /\ Bottom(at[r] + 1) = Bottom(at[r])
    BY <1>1, <2>1, BatchIs DEF UnitTypes
  <2> QED
    BY <1>1, <1>2, <2>1, <2>2
<1>3. CASE at[r] + 1 \notin Boot!Batch(at[r])
  BY <1>1, <1>3, BatchIs, Counts DEF UnitTypes, Boot!UnitIds
<1> QED
  BY <1>2, <1>3

\* What comes after an instance that is ready.
LEMMA InstanceDoneIs ==
  ASSUME UnitTypes, NEW r \in Runs, Boot!InstanceDone(r)
  PROVE  \/ /\ at[r] < Top(at[r]) /\ Top(at[r] + 1) = Top(at[r]) /\ Bottom(at[r] + 1) = Bottom(at[r])
            /\ pc' = [pc EXCEPT ![r] = "instance"] /\ at' = [at EXCEPT ![r] = at[r] + 1]
         \/ /\ host = "app" /\ at[r] = UnitCount - 1
            /\ pc' = [pc EXCEPT ![r] = "load"] /\ at' = [at EXCEPT ![r] = UnitCount]
         \/ /\ at[r] = UnitCount
            /\ pc' = [pc EXCEPT ![r] = "ready"] /\ at' = [at EXCEPT ![r] = 1]
<1>1. at[r] \in Boot!UnitIds /\ at[r] \in Nat
  BY Counts DEF UnitTypes, Boot!TypeOK, Boot!UnitIds
<1> USE DEF Boot!InstanceDone, Boot!Go
<1>2. CASE at[r] + 1 \in Boot!Batch(at[r])
  <2>1. at[r] + 1 \in Bottom(at[r]) .. Top(at[r]) /\ Top(at[r]) \in Nat
    BY <1>1, <1>2, BatchIs, Counts DEF UnitTypes, Boot!UnitIds
  <2>2. Top(at[r] + 1) = Top(at[r]) /\ Bottom(at[r] + 1) = Bottom(at[r])
    BY <1>1, <2>1, BatchIs DEF UnitTypes
  <2> QED
    BY <1>1, <1>2, <2>1, <2>2
<1>3. CASE at[r] + 1 \notin Boot!Batch(at[r])
  <2>1. at[r] = Top(at[r])
    BY <1>1, <1>3, BatchIs, Counts DEF UnitTypes, Boot!UnitIds
  <2>2. CASE at[r] < UnitCount
    BY <1>1, <1>3, <2>1, <2>2, Counts DEF UnitTypes, Top
  <2>3. CASE at[r] = UnitCount
    BY <1>1, <1>3, <2>3, Counts DEF UnitTypes
  <2> QED
    BY <1>1, <2>2, <2>3, Counts DEF Boot!UnitIds
<1> QED
  BY <1>2, <1>3
LEMMA Next1Types ==
  ASSUME UnitTypes, NEW r \in Runs, Boot!UnitDone(r) \/ Boot!InstanceDone(r)
  PROVE  pc' \in [Runs -> Places] /\ at' \in [Runs -> Boot!UnitIds]
<1>1. at[r] \in Boot!UnitIds /\ at[r] \in Nat
  BY Counts DEF UnitTypes, Boot!TypeOK, Boot!UnitIds
<1>2. Bottom(at[r]) \in Boot!UnitIds /\ Top(at[r]) \in Boot!UnitIds /\ UnitCount \in Boot!UnitIds
      /\ 1 \in Boot!UnitIds
  BY <1>1, BatchIs, Counts DEF UnitTypes, Boot!UnitIds
<1>3. at[r] < Top(at[r]) => at[r] + 1 \in Boot!UnitIds
  BY <1>1, <1>2, Counts DEF Boot!UnitIds
<1>4. at \in [Runs -> Boot!UnitIds] /\ pc \in [Runs -> Places]
  BY DEF UnitTypes, Boot!TypeOK
<1>5. CASE Boot!UnitDone(r)
  BY <1>2, <1>3, <1>4, <1>5, UnitDoneIs DEF Places
<1>6. CASE Boot!InstanceDone(r)
  BY <1>2, <1>3, <1>4, <1>6, InstanceDoneIs DEF Places
<1> QED
  BY <1>5, <1>6

UnitStep(r) ==
  \/ Boot!Start(r) \/ Boot!LoadUnitKnown(r) \/ Boot!CreateLoadUnit(r)
  \/ Boot!LoadUnitCreated(r) \/ Boot!LoadUnitFails(r) \/ Boot!CreateInstance(r)
  \/ Boot!Initialized(r) \/ Boot!InitFails(r) \/ Boot!Close(r)
  \/ Boot!DestroyInstance(r) \/ Boot!DestroyUnit(r) \/ Boot!Destroyed(r)

\* The types that an action cannot disturb at once.
LEMMA HeldTypes ==
  ASSUME UnitTypes, NEW r \in Runs, NEW u \in Boot!UnitIds, NEW by \in Runs,
         NEW owner \in Runs \cup {Boot!Nobody}
  PROVE  /\ [loadUnits EXCEPT ![r][u] = owner] \in [Runs -> [Boot!UnitIds -> Runs \cup {Boot!Nobody}]]
         /\ [loadUnitMap EXCEPT ![u] = owner] \in [Boot!UnitIds -> Runs \cup {Boot!Nobody}]
         /\ loadUnits[r][u] \in Runs \cup {Boot!Nobody} /\ loadUnitMap[u] \in Runs \cup {Boot!Nobody}
         /\ loadUnitInstances[r][u] \in Boot!Instances /\ instanceMap[u] \in Boot!Instances
         /\ owner # Boot!Nobody => Boot!Instance(u, owner, by) \in LiveInstances
         /\ LiveInstances \subseteq Boot!Instances /\ Boot!NoInstance \in Boot!Instances
         /\ \A i \in Boot!Instances :
              /\ [instanceMap EXCEPT ![u] = i] \in [Boot!UnitIds -> Boot!Instances]
              /\ [loadUnitInstances EXCEPT ![r][u] = i] \in [Runs -> [Boot!UnitIds -> Boot!Instances]]
<1> USE DEF UnitTypes, Boot!TypeOK
<1>1. /\ [loadUnits EXCEPT ![r][u] = owner] \in [Runs -> [Boot!UnitIds -> Runs \cup {Boot!Nobody}]]
      /\ [loadUnitMap EXCEPT ![u] = owner] \in [Boot!UnitIds -> Runs \cup {Boot!Nobody}]
      /\ loadUnits[r][u] \in Runs \cup {Boot!Nobody} /\ loadUnitMap[u] \in Runs \cup {Boot!Nobody}
      /\ loadUnitInstances[r][u] \in Boot!Instances /\ instanceMap[u] \in Boot!Instances
  OBVIOUS
<1>2. /\ owner # Boot!Nobody => Boot!Instance(u, owner, by) \in LiveInstances
      /\ LiveInstances \subseteq Boot!Instances /\ Boot!NoInstance \in Boot!Instances
  BY DEF Boot!Instance, LiveInstances, Boot!Instances
<1>3. \A i \in Boot!Instances :
        /\ [instanceMap EXCEPT ![u] = i] \in [Boot!UnitIds -> Boot!Instances]
        /\ [loadUnitInstances EXCEPT ![r][u] = i] \in [Runs -> [Boot!UnitIds -> Boot!Instances]]
  OBVIOUS
<1> QED
  BY <1>1, <1>2, <1>3

LEMMA UnitsTypes ==
  ASSUME UnitsInv, NEW r \in Runs,
         UnitStep(r)
  PROVE  UnitTypes'
<1> DEFINE u == at[r]
           i == Boot!Instance(u, loadUnits[r][u], r)
<1> USE Counts DEF UnitTypes, Boot!TypeOK, Boot!Goes, Boot!Stays, Boot!Go, Boot!registries
<1>a. u \in Boot!UnitIds /\ u \in Nat /\ 1 \in Boot!UnitIds /\ r \in Nat
  BY DEF UnitsInv, Boot!UnitIds
<1>b. UnitTypes
  BY DEF UnitsInv
<1>c. pc[r] \in {"instance", "init"} => loadUnits[r][u] \in Runs /\ i \in LiveInstances
  <2>1. Bottom(u) <= u /\ u <= Top(u)
    BY <1>a, <1>b, BatchIs
  <2>2. pc[r] \in {"instance", "init"} => loadUnits[r][u] # Boot!Nobody
    BY <1>a, <2>1 DEF UnitsInv, PlaceInv, PlaceOf
  <2>3. pc[r] \in {"instance", "init"} => loadUnits[r][u] \in Runs
    BY <1>a, <1>b, <2>2
  <2>4. loadUnits[r][u] \in Runs => i \in LiveInstances
    BY <1>a DEF LiveInstances, Boot!Instance
  <2> QED
    BY <2>3, <2>4
<1>d. \A v \in Boot!UnitIds :
        /\ loadUnitInstances[r][v] \in Boot!Instances /\ instanceMap[v] \in Boot!Instances
        /\ Boot!NoInstance \in Boot!Instances
        /\ \A j \in Boot!Instances :
             /\ [instanceMap EXCEPT ![v] = j] \in [Boot!UnitIds -> Boot!Instances]
             /\ [loadUnitInstances EXCEPT ![r][v] = j] \in [Runs -> [Boot!UnitIds -> Boot!Instances]]
  BY <1>b, HeldTypes
<1>1. CASE Boot!Start(r)
  BY <1>1 DEF UnitsInv, Boot!Start, Places
<1>2. CASE Boot!LoadUnitKnown(r)
  <2>1. loadUnits' \in [Runs -> [Boot!UnitIds -> Runs \cup {Boot!Nobody}]]
    BY <1>2, <1>a, <1>b, HeldTypes DEF Boot!LoadUnitKnown
  <2> QED
    BY <1>2, <1>b, <2>1, Next1Types DEF Boot!LoadUnitKnown
<1>3. CASE Boot!CreateLoadUnit(r)
  BY <1>3 DEF UnitsInv, Boot!CreateLoadUnit, Places
<1>4. CASE Boot!LoadUnitCreated(r)
  <2>1. /\ loadUnits' \in [Runs -> [Boot!UnitIds -> Runs \cup {Boot!Nobody}]]
        /\ loadUnitMap' \in [Boot!UnitIds -> Runs \cup {Boot!Nobody}]
    BY <1>4, <1>a, <1>b, HeldTypes DEF Boot!LoadUnitCreated
  <2>2. publicProtoMap' \subseteq Boot!UnitIds \X Runs \X Boot!Configs
    BY <1>4, <1>a, <1>b DEF Boot!LoadUnitCreated, Boot!Configs, Boot!UnitIds
  <2> QED
    BY <1>4, <1>b, <2>1, <2>2, Next1Types DEF Boot!LoadUnitCreated
<1>5. CASE Boot!LoadUnitFails(r)
  BY <1>5, <1>a, <1>b DEF Boot!LoadUnitFails, Places
<1>6. CASE Boot!CreateInstance(r)
  <2>1. CASE instanceMap[u] # Boot!NoInstance
    <3>1. loadUnitInstances' \in [Runs -> [Boot!UnitIds -> Boot!Instances]]
      BY <1>6, <1>a, <1>d, <2>1 DEF Boot!CreateInstance
    <3> QED
      BY <1>6, <1>b, <2>1, <3>1, Next1Types DEF Boot!CreateInstance
  <2>2. CASE instanceMap[u] = Boot!NoInstance
    <3>1. instanceMap' \in [Boot!UnitIds -> Boot!Instances]
      BY <1>6, <1>a, <1>b, <1>c, <1>d, <2>2 DEF LiveInstances, Boot!Instances, Boot!CreateInstance
    <3> QED
      BY <1>6, <1>b, <2>2, <3>1 DEF Boot!CreateInstance, Places
  <2> QED
    BY <2>1, <2>2
<1>7. CASE Boot!Initialized(r)
  <2>1. i \in LiveInstances /\ live' = live \cup {i}
    BY <1>7, <1>c DEF Boot!Initialized
  <2>2. live' \subseteq LiveInstances /\ live' \subseteq Boot!Instances /\ i \in Boot!Instances
    BY <1>a, <1>b, <2>1, HeldTypes
  <2>3. loadUnitInstances' \in [Runs -> [Boot!UnitIds -> Boot!Instances]]
    BY <1>7, <1>a, <1>b, <2>2, HeldTypes DEF Boot!Initialized
  <2> QED
    BY <1>7, <1>b, <2>2, <2>3, Next1Types DEF Boot!Initialized
<1>8. CASE Boot!InitFails(r)
  <2>1. i \in LiveInstances /\ live' \subseteq live \cup {i}
    BY <1>8, <1>c DEF Boot!InitFails
  <2>2. live' \subseteq LiveInstances /\ live' \subseteq Boot!Instances
    BY <1>a, <1>b, <2>1, HeldTypes
  <2>3. loadUnitInstances' \in [Runs -> [Boot!UnitIds -> Boot!Instances]]
    BY <1>8, <1>a, <1>b, HeldTypes DEF Boot!InitFails
  <2> QED
    BY <1>8, <1>a, <1>b, <2>2, <2>3 DEF Boot!InitFails, Places
<1>9. CASE Boot!Close(r)
  BY <1>9 DEF UnitsInv, Boot!Close, Places
<1>10. CASE Boot!DestroyInstance(r)
  <2> DEFINE v == Boot!Foremost(Boot!Held(r))
  <2>1. v \in Boot!UnitIds
    BY <1>10, <1>b, ForemostIs DEF Boot!DestroyInstance, Boot!Held
  <2>2. [instanceMap EXCEPT ![v] = Boot!NoInstance] \in [Boot!UnitIds -> Boot!Instances]
    BY <1>a, <1>b, <2>1, HeldTypes
  <2>3. [loadUnitInstances EXCEPT ![r][v] = Boot!NoInstance]
          \in [Runs -> [Boot!UnitIds -> Boot!Instances]]
    BY <1>a, <1>b, <2>1, HeldTypes
  <2>4. live' \subseteq live /\ pc' \in [Runs -> Places]
    BY <1>10, <1>b DEF Boot!DestroyInstance, Boot!Fail, Places
  <2> QED
    BY <1>10, <1>b, <2>2, <2>3, <2>4 DEF Boot!DestroyInstance
<1>11. CASE Boot!DestroyUnit(r)
  <2> DEFINE v == Boot!Foremost(Boot!HeldUnits(r))
  <2>1. v \in Boot!UnitIds
    BY <1>11, <1>b, ForemostIs DEF Boot!DestroyUnit, Boot!HeldUnits
  <2>2. [loadUnitMap EXCEPT ![v] = Boot!Nobody] \in [Boot!UnitIds -> Runs \cup {Boot!Nobody}]
    BY <1>a, <1>b, <2>1, HeldTypes
  <2>3. [loadUnits EXCEPT ![r][v] = Boot!Nobody]
          \in [Runs -> [Boot!UnitIds -> Runs \cup {Boot!Nobody}]]
    BY <1>a, <1>b, <2>1, HeldTypes
  <2>4. publicProtoMap' \subseteq publicProtoMap /\ pc' \in [Runs -> Places]
    BY <1>11, <1>b DEF Boot!DestroyUnit, Boot!Fail, Places, Boot!Deleted
  <2> QED
    BY <1>11, <1>b, <2>2, <2>3, <2>4 DEF Boot!DestroyUnit
<1>12. CASE Boot!Destroyed(r)
  BY <1>12 DEF UnitsInv, Boot!Destroyed, Places
<1> QED
  BY <1>1, <1>2, <1>3, <1>4, <1>5, <1>6, <1>7, <1>8, <1>9, <1>10, <1>11, <1>12 DEF UnitStep
-----------------------------------------------------------------------------
(* What a step leaves alone, and what a run holds by its place *)

LEMMA OthersStay ==
  ASSUME UnitTypes, NEW r \in Runs, UnitStep(r), NEW q \in Runs, q # r
  PROVE  /\ pc'[q] = pc[q] /\ at'[q] = at[q]
         /\ loadUnits'[q] = loadUnits[q] /\ loadUnitInstances'[q] = loadUnitInstances[q]
<1> USE DEF UnitTypes, Boot!TypeOK, Boot!Goes, Boot!Stays, Boot!Go, Boot!registries
<1>1. CASE Boot!Start(r)
  BY <1>1 DEF Boot!Start
<1>2. CASE Boot!LoadUnitKnown(r)
  BY <1>2, UnitDoneIs DEF Boot!LoadUnitKnown
<1>3. CASE Boot!CreateLoadUnit(r)
  BY <1>3 DEF Boot!CreateLoadUnit
<1>4. CASE Boot!LoadUnitCreated(r)
  BY <1>4, UnitDoneIs DEF Boot!LoadUnitCreated
<1>5. CASE Boot!LoadUnitFails(r)
  BY <1>5 DEF Boot!LoadUnitFails
<1>6. CASE Boot!CreateInstance(r)
  BY <1>6, InstanceDoneIs DEF Boot!CreateInstance
<1>7. CASE Boot!Initialized(r)
  BY <1>7, InstanceDoneIs DEF Boot!Initialized
<1>8. CASE Boot!InitFails(r)
  BY <1>8 DEF Boot!InitFails
<1>9. CASE Boot!Close(r)
  BY <1>9 DEF Boot!Close
<1>10. CASE Boot!DestroyInstance(r)
  BY <1>10 DEF Boot!DestroyInstance, Boot!Fail
<1>11. CASE Boot!DestroyUnit(r)
  BY <1>11 DEF Boot!DestroyUnit, Boot!Fail
<1>12. CASE Boot!Destroyed(r)
  BY <1>12 DEF Boot!Destroyed
<1> QED
  BY <1>1, <1>2, <1>3, <1>4, <1>5, <1>6, <1>7, <1>8, <1>9, <1>10, <1>11, <1>12 DEF UnitStep

LEMMA HostStays ==
  ASSUME NEW r \in Runs, UnitStep(r)
  PROVE  /\ host' = host
         /\ \A u : Bottom(u)' = Bottom(u) /\ Top(u)' = Top(u)
                  /\ (Boot!Controllers(u)' <=> Boot!Controllers(u))
<1>1. host' = host
  BY DEF UnitStep, Boot!Start, Boot!LoadUnitKnown, Boot!CreateLoadUnit, Boot!LoadUnitCreated,
    Boot!LoadUnitFails, Boot!CreateInstance, Boot!Initialized, Boot!InitFails, Boot!Close,
    Boot!DestroyInstance, Boot!DestroyUnit, Boot!Destroyed, Boot!Stays
<1> QED
  BY <1>1 DEF Bottom, Top, Boot!Controllers

LEMMA UnitsPlace ==
  ASSUME UnitsInv, UnitTypes', NEW r \in Runs, UnitStep(r)
  PROVE  PlaceInv'
<1> DEFINE u == at[r]
<1>a. UnitTypes /\ UnitTypes' /\ \A q \in Runs : PlaceOf(q)
  BY DEF UnitsInv, PlaceInv
<1>b. \A q \in Runs : q # r => PlaceOf(q)'
  BY <1>a, OthersStay, HostStays DEF PlaceOf
<1>c. /\ u \in Boot!UnitIds /\ u \in Nat /\ r \in Nat /\ Bottom(u) \in Nat /\ Top(u) \in Nat
      /\ Bottom(u) <= u /\ u <= Top(u) /\ Top(u) <= UnitCount /\ Bottom(u) >= 1
  BY <1>a, BatchIs, Counts DEF UnitTypes, Boot!TypeOK, Boot!UnitIds
<1>d. host' = host /\ \A v : Bottom(v)' = Bottom(v) /\ Top(v)' = Top(v)
  BY HostStays
<1>e. PlaceOf(r) /\ \A v \in Boot!UnitIds : v \in 1 .. UnitCount
  BY <1>a DEF Boot!UnitIds
<1> USE Counts DEF UnitTypes, Boot!TypeOK, Boot!Goes, Boot!Stays
<1>f. PlaceOf(r)'
  <2>1. CASE Boot!Start(r)
    BY <1>a, <1>d, <1>e, <2>1 DEF Boot!Start, PlaceOf, Bottom, Boot!Controllers, Boot!UnitIds
  <2>2. ASSUME pc[r] \in {"load", "creating"}, Boot!UnitDone(r), NEW n, n # Boot!Nobody,
               loadUnits' = [loadUnits EXCEPT ![r][u] = n], UNCHANGED loadUnitInstances
        PROVE  PlaceOf(r)'
    <3>1. \A v \in Boot!UnitIds : loadUnits'[r][v] = IF v = u THEN n ELSE loadUnits[r][v]
      BY <1>a, <1>c, <2>2
    <3>2. CASE u < Top(u) /\ Bottom(u + 1) = Bottom(u) /\ pc'[r] = "load" /\ at'[r] = u + 1
      BY <1>c, <1>d, <1>e, <2>2, <3>1, <3>2 DEF PlaceOf
    <3>3. CASE /\ u = Top(u) /\ Top(Bottom(u)) = Top(u) /\ Bottom(Bottom(u)) = Bottom(u)
               /\ pc'[r] = "instance" /\ at'[r] = Bottom(u)
      BY <1>c, <1>d, <1>e, <2>2, <3>1, <3>3, SMTT(40) DEF PlaceOf
    <3> QED
      BY <1>a, <2>2, <3>2, <3>3, UnitDoneIs
  <2>3. CASE Boot!LoadUnitKnown(r)
    BY <1>a, <2>2, <2>3 DEF Boot!LoadUnitKnown
  <2>4. CASE Boot!CreateLoadUnit(r)
    BY <1>a, <1>d, <1>e, <2>4 DEF Boot!CreateLoadUnit, PlaceOf
  <2>5. CASE Boot!LoadUnitCreated(r)
    <3>1. r # Boot!Nobody
      BY <1>c DEF Boot!Nobody
    <3>2. /\ pc[r] = "creating" /\ Boot!UnitDone(r)
          /\ loadUnits' = [loadUnits EXCEPT ![r][u] = r] /\ UNCHANGED loadUnitInstances
      BY <2>5 DEF Boot!LoadUnitCreated
    <3> QED
      BY <2>2, <3>1, <3>2
  <2>6. CASE Boot!LoadUnitFails(r)
    BY <1>a, <2>6 DEF Boot!LoadUnitFails, Boot!Go, PlaceOf
  <2>7. ASSUME pc[r] \in {"instance", "init"}, Boot!InstanceDone(r), UNCHANGED loadUnits
        PROVE  PlaceOf(r)'
    <3>2. CASE /\ u < Top(u) /\ Top(u + 1) = Top(u) /\ Bottom(u + 1) = Bottom(u)
               /\ pc'[r] = "instance" /\ at'[r] = u + 1
      BY <1>c, <1>d, <1>e, <2>7, <3>2 DEF PlaceOf
    <3>3. CASE host = "app" /\ u = UnitCount - 1 /\ pc'[r] = "load" /\ at'[r] = UnitCount
      BY <1>c, <1>d, <1>e, <2>7, <3>3 DEF PlaceOf, Top, Bottom, Boot!Controllers
    <3>4. CASE u = UnitCount /\ pc'[r] = "ready" /\ at'[r] = 1
      BY <3>4 DEF PlaceOf
    <3> QED
      BY <1>a, <2>7, <3>2, <3>3, <3>4, InstanceDoneIs
  <2>8. CASE Boot!CreateInstance(r)
    <3>1. CASE instanceMap[u] # Boot!NoInstance
      BY <2>7, <2>8, <3>1 DEF Boot!CreateInstance
    <3>2. CASE instanceMap[u] = Boot!NoInstance
      BY <1>a, <1>d, <1>e, <2>8, <3>2 DEF Boot!CreateInstance, PlaceOf
    <3> QED
      BY <3>1, <3>2
  <2>9. CASE Boot!Initialized(r)
    BY <2>7, <2>9 DEF Boot!Initialized
  <2>10. CASE Boot!InitFails(r)
    BY <1>a, <2>10 DEF Boot!InitFails, Boot!Go, PlaceOf
  <2>11. CASE Boot!Close(r)
    BY <1>a, <2>11 DEF Boot!Close, PlaceOf
  <2>12. CASE Boot!DestroyInstance(r)
    BY <1>a, <2>12 DEF Boot!DestroyInstance, Boot!Fail, PlaceOf
  <2>13. CASE Boot!DestroyUnit(r)
    BY <1>a, <2>13 DEF Boot!DestroyUnit, Boot!Fail, PlaceOf
  <2>14. CASE Boot!Destroyed(r)
    BY <1>a, <2>14 DEF Boot!Destroyed, Boot!HeldUnits, PlaceOf
  <2> QED
    BY <2>1, <2>3, <2>4, <2>5, <2>6, <2>8, <2>9, <2>10, <2>11, <2>12, <2>13, <2>14 DEF UnitStep
<1> QED
  BY <1>b, <1>f DEF PlaceInv
-----------------------------------------------------------------------------
(* Runs, one after the other *)

LEMMA Moves ==
  ASSUME UnitTypes, NEW r \in Runs, UnitStep(r)
  PROVE  /\ pc'[r] # "idle" /\ pc[r] \notin {"destroyed", "destroyFailed"}
         /\ pc[r] = "idle" => Boot!Start(r)
         /\ pc[r] = "failed" => host = "app"
         /\ (failed' = failed /\ pc'[r] # "failed") \/ (failed' = failed \cup {r} /\ pc'[r] = "failed")
         /\ (overlapped' <=> overlapped) \/ Boot!Start(r)
         /\ overlapped => overlapped'
         /\ pc'[r] = "destroyed" => Boot!Destroyed(r)
         /\ pc'[r] = "init" => Boot!CreateInstance(r)
         /\ pc'[r] = "creating" => Boot!CreateLoadUnit(r)
<1> USE DEF UnitTypes, Boot!TypeOK, Boot!Goes, Boot!Stays, Boot!Go
<1>1. CASE Boot!Start(r)
  BY <1>1 DEF Boot!Start
<1>2. CASE Boot!LoadUnitKnown(r)
  BY <1>2, UnitDoneIs DEF Boot!LoadUnitKnown
<1>3. CASE Boot!CreateLoadUnit(r)
  BY <1>3 DEF Boot!CreateLoadUnit
<1>4. CASE Boot!LoadUnitCreated(r)
  BY <1>4, UnitDoneIs DEF Boot!LoadUnitCreated
<1>5. CASE Boot!LoadUnitFails(r)
  BY <1>5 DEF Boot!LoadUnitFails
<1>6. CASE Boot!CreateInstance(r)
  BY <1>6, InstanceDoneIs DEF Boot!CreateInstance
<1>7. CASE Boot!Initialized(r)
  BY <1>7, InstanceDoneIs DEF Boot!Initialized
<1>8. CASE Boot!InitFails(r)
  BY <1>8 DEF Boot!InitFails
<1>9. CASE Boot!Close(r)
  BY <1>9 DEF Boot!Close
<1>10. CASE Boot!DestroyInstance(r)
  BY <1>10 DEF Boot!DestroyInstance, Boot!Fail
<1>11. CASE Boot!DestroyUnit(r)
  BY <1>11 DEF Boot!DestroyUnit, Boot!Fail
<1>12. CASE Boot!Destroyed(r)
  BY <1>12 DEF Boot!Destroyed
<1> QED
  BY <1>1, <1>2, <1>3, <1>4, <1>5, <1>6, <1>7, <1>8, <1>9, <1>10, <1>11, <1>12 DEF UnitStep

\* A run starts when the last one was destroyed.
LEMMA StartsAfter ==
  ASSUME NEW r \in Runs, r > 1, Boot!Start(r), ~overlapped'
  PROVE  r - 1 \in Runs /\ pc[r - 1] \in {"destroyed", "destroyFailed"}
<1>1. pc[r - 1] \in {"destroying", "destroyed", "destroyFailed"}
  BY DEF Boot!Start
<1>2. ~(r > 1 /\ pc[r - 1] = "destroying")
  BY Zenon DEF Boot!Start
<1> QED
  BY <1>1, <1>2, EarlierRuns

LEMMA UnitsSequence ==
  ASSUME UnitsInv, NEW r \in Runs, UnitStep(r)
  PROVE  SequenceInv'
<1> USE Counts DEF SequenceInv
<1>1. UnitTypes /\ SequenceInv /\ host' = host
  BY HostStays DEF UnitsInv
<1>2. \A q \in Runs : q # r => pc'[q] = pc[q]
  BY <1>1, OthersStay
<1>3. \A q \in Runs : q > 1 /\ pc'[q] # "idle" => host' = "standalone"
  BY <1>1, <1>2, Moves DEF Boot!Start
<1>4. /\ \A q \in Runs : pc'[q] = "failed" => q \in failed'
      /\ \A q \in failed' : pc'[q] # "idle" /\ (host' = "standalone" => pc'[q] = "failed")
  BY <1>1, <1>2, Moves DEF UnitTypes
<1>5. ASSUME ~overlapped', NEW p \in Runs, NEW q \in Runs, q < p, pc'[p] # "idle"
      PROVE  pc'[q] \in {"destroyed", "destroyFailed"}
  <2>1. ~overlapped
    BY <1>1, <1>5, Moves DEF UnitTypes
  <2>2. CASE pc[p] # "idle"
    BY <1>1, <1>2, <1>5, <2>1, <2>2, Moves
  <2>3. CASE pc[p] = "idle"
    <3>1. p = r /\ Boot!Start(r)
      BY <1>1, <1>2, <1>5, <2>3, Moves
    <3>2. p - 1 \in Runs /\ pc[p - 1] \in {"destroyed", "destroyFailed"}
      BY <1>5, <3>1, StartsAfter
    <3>3. q = p - 1 \/ q < p - 1
      BY <1>5
    <3> QED
      BY <1>1, <1>2, <1>5, <2>1, <3>1, <3>2, <3>3
  <2> QED
    BY <2>2, <2>3
<1> QED
  BY <1>3, <1>4, <1>5

\* While no run began too early, only one of them is at work.
LEMMA OnlyOne ==
  ASSUME UnitsInv, NEW r \in Runs, UnitStep(r), ~overlapped'
  PROVE  /\ ~overlapped
         /\ \A q \in Runs : q # r => pc[q] \in {"idle", "destroyed", "destroyFailed"} /\ pc'[q] = pc[q]
         /\ host = "app" /\ pc[r] # "idle" => r = 1 /\ \A q \in Runs : q # r => pc[q] = "idle"
<1>1. UnitTypes /\ SequenceInv
  BY DEF UnitsInv
<1>2. ~overlapped
  BY <1>1, Moves DEF UnitTypes
<1>3. pc[r] \notin {"destroyed", "destroyFailed"}
  BY <1>1, Moves
<1>4. ASSUME NEW q \in Runs, q # r
      PROVE  pc[q] \in {"idle", "destroyed", "destroyFailed"}
  <2>1. CASE q < r /\ pc[r] # "idle"
    BY <1>1, <1>2, <2>1 DEF SequenceInv
  <2>2. CASE q < r /\ pc[r] = "idle"
    <3>1. Boot!Start(r)
      BY <1>1, <2>2, Moves
    <3>2. r - 1 \in Runs /\ pc[r - 1] \in {"destroyed", "destroyFailed"}
      BY <2>2, <3>1, Counts, StartsAfter
    <3>3. q = r - 1 \/ q < r - 1
      BY <2>2, Counts
    <3> QED
      BY <1>1, <1>2, <3>2, <3>3, Counts DEF SequenceInv
  <2>3. CASE r < q
    BY <1>1, <1>2, <1>3, <2>3 DEF SequenceInv
  <2> QED
    BY <1>4, <2>1, <2>2, <2>3, Counts
<1>5. host = "app" /\ pc[r] # "idle" => r = 1 /\ \A q \in Runs : q # r => pc[q] = "idle"
  BY <1>1, Counts DEF SequenceInv
<1> QED
  BY <1>1, <1>2, <1>4, <1>5, OthersStay
-----------------------------------------------------------------------------
(* What is registered of a run *)

LEMMA UnitsHooks ==
  ASSUME UnitsInv, UnitTypes', NEW r \in Runs, UnitStep(r)
  PROVE  HooksRegistered'
<1> USE Counts DEF UnitTypes, Boot!TypeOK, Boot!Goes, Boot!Stays, Boot!Go, Boot!registries
<1>a. /\ UnitTypes /\ PlaceOf(r) /\ at[r] \in Boot!UnitIds /\ host' = host
      /\ \A q \in Runs : q # r => pc'[q] = pc[q] /\ loadUnits'[q] = loadUnits[q]
  BY HostStays, OthersStay DEF UnitsInv, PlaceInv
<1>b. HooksRegistered /\ lifecycles' \subseteq Runs \X Boot!HookKinds
  BY DEF UnitsInv, RegisteredInv
<1>c. Boot!UnitDone(r) \/ Boot!InstanceDone(r) => pc'[r] \in {"load", "instance", "ready"}
  BY <1>a, UnitDoneIs, InstanceDoneIs
<1> USE DEF HooksRegistered
<1>1. CASE Boot!Start(r)
  BY <1>1, <1>a, <1>b DEF Boot!Start
<1>2. CASE Boot!LoadUnitKnown(r)
  BY <1>2, <1>a, <1>b, <1>c DEF Boot!LoadUnitKnown
<1>3. CASE Boot!CreateLoadUnit(r)
  BY <1>3, <1>a, <1>b DEF Boot!CreateLoadUnit
<1>4. CASE Boot!LoadUnitCreated(r)
  <2>1. /\ pc[r] = "creating" /\ pc'[r] \in {"load", "instance", "ready"}
        /\ UNCHANGED lifecycles
    BY <1>4, <1>c DEF Boot!LoadUnitCreated
  <2> QED
    BY <1>a, <1>b, <2>1
<1>5. CASE Boot!LoadUnitFails(r)
  BY <1>5, <1>a, <1>b DEF Boot!LoadUnitFails
<1>6. CASE Boot!CreateInstance(r)
  BY <1>6, InstanceDoneIs, <1>a, <1>b DEF Boot!CreateInstance
<1>7. CASE Boot!Initialized(r)
  BY <1>7, <1>a, <1>b, <1>c DEF Boot!Initialized
<1>8. CASE Boot!InitFails(r)
  BY <1>8, <1>a, <1>b DEF Boot!InitFails
<1>9. CASE Boot!Close(r)
  BY <1>9, <1>a, <1>b DEF Boot!Close
<1>10. CASE Boot!DestroyInstance(r)
  BY <1>10, <1>a, <1>b DEF Boot!DestroyInstance, Boot!Fail
<1>11. CASE Boot!DestroyUnit(r)
  BY <1>11, <1>a, <1>b DEF Boot!DestroyUnit, Boot!Fail
<1>12. CASE Boot!Destroyed(r)
  BY <1>12, <1>a, <1>b DEF Boot!Destroyed, Boot!HooksDeleted, Boot!HookKinds
<1> QED
  BY <1>1, <1>2, <1>3, <1>4, <1>5, <1>6, <1>7, <1>8, <1>9, <1>10, <1>11, <1>12 DEF UnitStep

LEMMA UnitsUnits ==
  ASSUME UnitsInv, UnitTypes', NEW r \in Runs, UnitStep(r)
  PROVE  UnitsRegistered'
<1> USE Counts DEF UnitTypes, Boot!TypeOK, Boot!Goes, Boot!Stays, Boot!Go, Boot!registries
<1>a. /\ UnitTypes /\ PlaceOf(r) /\ at[r] \in Boot!UnitIds /\ host' = host
      /\ \A q \in Runs : q # r => pc'[q] = pc[q] /\ loadUnits'[q] = loadUnits[q]
  BY HostStays, OthersStay DEF UnitsInv, PlaceInv
<1>b. UnitsRegistered
  BY DEF UnitsInv, RegisteredInv
<1>c. pc[r] = "failed" => host = "app"
  BY <1>a, Moves
<1> USE DEF UnitsRegistered
<1>1. CASE Boot!Start(r)
  BY <1>1, <1>a, <1>b, <1>c DEF Boot!Start
<1>2. CASE Boot!LoadUnitKnown(r)
  BY <1>2, UnitDoneIs, <1>a, <1>b, <1>c DEF Boot!LoadUnitKnown, PlaceOf
<1>3. CASE Boot!CreateLoadUnit(r)
  BY <1>3, <1>a, <1>b, <1>c DEF Boot!CreateLoadUnit
<1>4. CASE Boot!LoadUnitCreated(r)
  BY <1>4, UnitDoneIs, <1>a, <1>b, <1>c DEF Boot!LoadUnitCreated
<1>5. CASE Boot!LoadUnitFails(r)
  BY <1>5, <1>a, <1>b, <1>c DEF Boot!LoadUnitFails
<1>6. CASE Boot!CreateInstance(r)
  BY <1>6, InstanceDoneIs, <1>a, <1>b, <1>c DEF Boot!CreateInstance
<1>7. CASE Boot!Initialized(r)
  BY <1>7, InstanceDoneIs, <1>a, <1>b, <1>c DEF Boot!Initialized
<1>8. CASE Boot!InitFails(r)
  BY <1>8, <1>a, <1>b, <1>c DEF Boot!InitFails
<1>9. CASE Boot!Close(r)
  BY <1>9, <1>a, <1>b, <1>c DEF Boot!Close
<1>10. CASE Boot!DestroyInstance(r)
  BY <1>10, <1>a, <1>b, <1>c DEF Boot!DestroyInstance, Boot!Fail
<1>11. CASE Boot!DestroyUnit(r)
  <2> DEFINE v == Boot!Foremost(Boot!HeldUnits(r))
  <2>1. v \in Boot!UnitIds
    BY <1>11, <1>a, ForemostIs DEF Boot!DestroyUnit, Boot!HeldUnits
  <2>2. CASE loadUnitMap'[v] = Boot!Nobody /\ loadUnitMap' = [loadUnitMap EXCEPT ![v] = Boot!Nobody]
    BY <1>11, <1>a, <1>b, <1>c, <2>1, <2>2 DEF Boot!DestroyUnit, Boot!Nobody
  <2>3. CASE UNCHANGED <<loadUnitMap, loadUnits>> /\ pc'[r] # "failed"
    BY <1>a, <1>b, <1>c, <2>3, <1>11 DEF Boot!DestroyUnit
  <2> QED
    BY <1>11, <1>a, <2>1, <2>2, <2>3 DEF Boot!DestroyUnit, Boot!Fail
<1>12. CASE Boot!Destroyed(r)
  BY <1>12, <1>a, <1>b, <1>c DEF Boot!Destroyed
<1> QED
  BY <1>1, <1>2, <1>3, <1>4, <1>5, <1>6, <1>7, <1>8, <1>9, <1>10, <1>11, <1>12 DEF UnitStep

LEMMA UnitsProtos ==
  ASSUME UnitsInv, UnitTypes', NEW r \in Runs, UnitStep(r)
  PROVE  ProtosRegistered'
<1> USE Counts DEF UnitTypes, Boot!TypeOK, Boot!Goes, Boot!Stays, Boot!Go, Boot!registries
<1>a. /\ UnitTypes /\ PlaceOf(r) /\ at[r] \in Boot!UnitIds /\ host' = host
      /\ \A q \in Runs : q # r => pc'[q] = pc[q] /\ loadUnits'[q] = loadUnits[q]
  BY HostStays, OthersStay DEF UnitsInv, PlaceInv
<1>b. ProtosRegistered
  BY DEF UnitsInv, RegisteredInv
<1>c. pc[r] = "failed" => host = "app"
  BY <1>a, Moves
<1> USE DEF ProtosRegistered
<1>1. CASE Boot!Start(r)
  BY <1>1, <1>a, <1>b, <1>c DEF Boot!Start
<1>2. CASE Boot!LoadUnitKnown(r)
  <2>1. \A w \in Boot!UnitIds :
          loadUnits[r][w] = r => loadUnits'[r][w] = r
    <3>1. r # Boot!Nobody /\ loadUnits[r][at[r]] = Boot!Nobody
      BY <1>2, <1>a DEF Boot!LoadUnitKnown, PlaceOf, Boot!Nobody, Boot!UnitIds
    <3> QED
      BY <1>2, <1>a, <3>1 DEF Boot!LoadUnitKnown
  <2>2. pc[r] = "load" /\ UNCHANGED publicProtoMap
        /\ \A q \in Runs : q # r => loadUnits'[q] = loadUnits[q] /\ pc'[q] = pc[q]
    BY <1>2, <1>a DEF Boot!LoadUnitKnown
  <2> QED
    BY <1>a, <1>b, <2>1, <2>2
<1>3. CASE Boot!CreateLoadUnit(r)
  BY <1>3, <1>a, <1>b, <1>c DEF Boot!CreateLoadUnit
<1>4. CASE Boot!LoadUnitCreated(r)
  BY <1>4, UnitDoneIs, <1>a, <1>b, <1>c DEF Boot!LoadUnitCreated, PlaceOf
<1>5. CASE Boot!LoadUnitFails(r)
  BY <1>5, <1>a, <1>b, <1>c DEF Boot!LoadUnitFails
<1>6. CASE Boot!CreateInstance(r)
  BY <1>6, InstanceDoneIs, <1>a, <1>b, <1>c DEF Boot!CreateInstance
<1>7. CASE Boot!Initialized(r)
  BY <1>7, InstanceDoneIs, <1>a, <1>b, <1>c DEF Boot!Initialized
<1>8. CASE Boot!InitFails(r)
  BY <1>8, <1>a, <1>b, <1>c DEF Boot!InitFails
<1>9. CASE Boot!Close(r)
  BY <1>9, <1>a, <1>b, <1>c DEF Boot!Close
<1>10. CASE Boot!DestroyInstance(r)
  BY <1>10, <1>a, <1>b, <1>c DEF Boot!DestroyInstance, Boot!Fail
<1>11. CASE Boot!DestroyUnit(r)
  <2> DEFINE v == Boot!Foremost(Boot!HeldUnits(r))
  <2>1. v \in Boot!UnitIds
    BY <1>11, <1>a, ForemostIs DEF Boot!DestroyUnit, Boot!HeldUnits
  <2>2. CASE pc'[r] = "destroyFailed" /\ publicProtoMap' \subseteq publicProtoMap /\ UNCHANGED loadUnits
    BY <1>11, <1>a, <1>b, <1>c, <2>2 DEF Boot!DestroyUnit
  <2>3. CASE /\ publicProtoMap' = publicProtoMap \ Boot!Deleted(v, loadUnits[r][v])
             /\ loadUnits' = [loadUnits EXCEPT ![r][v] = Boot!Nobody] /\ UNCHANGED pc
    <3>1. \A w \in Boot!UnitIds, q \in Runs, k \in Boot!Configs :
            <<w, q, k>> \in publicProtoMap' =>
              /\ <<w, q, k>> \in publicProtoMap
              /\ w = v /\ q = loadUnits[r][v] => host = "standalone" /\ w = 1
      <4> SUFFICES ASSUME NEW w \in Boot!UnitIds, NEW q \in Runs, NEW k \in Boot!Configs,
                          <<w, q, k>> \in publicProtoMap'
                   PROVE  /\ <<w, q, k>> \in publicProtoMap
                          /\ w = v /\ q = loadUnits[r][v] => host = "standalone" /\ w = 1
        OBVIOUS
      <4>1. <<w, q, k>> \in publicProtoMap /\ <<w, q, k>> \notin Boot!Deleted(v, loadUnits[r][v])
        BY <2>3
      <4>2. w = v /\ q = loadUnits[r][v] => ~(host = "standalone" => w > 1)
        BY <4>1 DEF Boot!Deleted
      <4>3. w > 1 \/ w = 1
        BY DEF Boot!UnitIds
      <4> QED
        BY <4>1, <4>2, <4>3
    <3>2. /\ \A w \in Boot!UnitIds : w # v => loadUnits'[r][w] = loadUnits[r][w]
          /\ pc' = pc
      BY <1>a, <2>1, <2>3
    <3> QED
      BY <1>a, <1>b, <3>1, <3>2
  <2> QED
    BY <1>11, <1>a, <2>2, <2>3 DEF Boot!DestroyUnit, Boot!Fail, Boot!Deleted
<1>12. CASE Boot!Destroyed(r)
  BY <1>12, <1>a, <1>b, <1>c DEF Boot!Destroyed
<1> QED
  BY <1>1, <1>2, <1>3, <1>4, <1>5, <1>6, <1>7, <1>8, <1>9, <1>10, <1>11, <1>12 DEF UnitStep

-----------------------------------------------------------------------------
(* Singletons *)

LEMMA InstanceIs ==
  /\ \A u, o, r : /\ Boot!Instance(u, o, r).unit = u /\ Boot!Instance(u, o, r).owner = o
                 /\ Boot!Instance(u, o, r).by = r
  /\ Boot!NoInstance.by = 0 /\ Boot!NoInstance.unit = 0
  /\ \A i \in LiveInstances : i # Boot!NoInstance /\ i.unit \in Boot!UnitIds /\ i.by \in Runs
                          /\ i.owner \in Runs
BY Counts DEF Boot!Instance, Boot!NoInstance, LiveInstances, Boot!UnitIds

\* A run that destroys, and whose boot had failed, is alone in its process.
LEMMA FailedIsAlone ==
  ASSUME UnitsInv, NEW r \in Runs, UnitStep(r), ~overlapped', r \in failed
  PROVE  \A i \in live : i.by \in failed
<1>1. /\ UnitTypes /\ SequenceInv /\ SingletonsRegistered
  BY OnlyOne DEF UnitsInv, LiveInv
<1>2. host = "app" /\ pc[r] # "idle"
  BY <1>1, Moves DEF SequenceInv, UnitTypes
<1>3. \A i \in live : i.by = r
  BY <1>1, <1>2, OnlyOne, InstanceIs DEF SingletonsRegistered, UnitTypes
<1> QED
  BY <1>3

LEMMA UnitsSingletons ==
  ASSUME UnitsInv, UnitTypes', NEW r \in Runs, UnitStep(r), ~overlapped'
  PROVE  SingletonsRegistered'
<1> DEFINE u == at[r]
           i == Boot!Instance(u, loadUnits[r][u], r)
<1> USE Counts DEF UnitTypes, Boot!TypeOK, Boot!Goes, Boot!Stays, Boot!Go, Boot!registries
<1>a. /\ UnitTypes /\ PlaceOf(r) /\ u \in Boot!UnitIds /\ u \in Nat /\ host' = host
      /\ \A v : Boot!Controllers(v)' <=> Boot!Controllers(v)
  BY HostStays DEF UnitsInv, PlaceInv, Boot!UnitIds
<1>b. /\ \A q \in Runs : q # r => pc[q] \in {"idle", "destroyed", "destroyFailed"} /\ pc'[q] = pc[q]
      /\ \A q \in Runs : q # r => /\ at'[q] = at[q] /\ loadUnits'[q] = loadUnits[q]
                                 /\ loadUnitInstances'[q] = loadUnitInstances[q]
  BY <1>a, OnlyOne, OthersStay
<1>c. SingletonsRegistered /\ InstancesHeld /\ CreatingIsNew /\ InitIsRegistered /\ DestroyedIsGone
  BY OnlyOne DEF UnitsInv, LiveInv
<1>d. pc'[r] # "idle" /\ failed \subseteq failed' /\ failed' \subseteq failed \cup {r}
  BY <1>a, Moves
<1>e. \A j \in live : /\ j # Boot!NoInstance /\ j.unit \in Boot!UnitIds /\ j.by \in Runs
                        /\ j.owner \in Runs /\ pc'[j.by] # "idle"
  BY <1>a, <1>b, <1>c, <1>d, InstanceIs DEF SingletonsRegistered
<1>f. ASSUME live' \subseteq live, UNCHANGED <<loadUnitMap, instanceMap>>
      PROVE  SingletonsRegistered'
  BY <1>a, <1>c, <1>d, <1>e, <1>f DEF SingletonsRegistered
<1>1. CASE Boot!Start(r)
  BY <1>1, <1>f DEF Boot!Start
<1>2. CASE Boot!LoadUnitKnown(r)
  BY <1>2, <1>f DEF Boot!LoadUnitKnown
<1>3. CASE Boot!CreateLoadUnit(r)
  BY <1>3, <1>f DEF Boot!CreateLoadUnit
<1>4. CASE Boot!LoadUnitCreated(r)
  <2>1. loadUnitMap[u] = Boot!Nobody
    BY <1>4, <1>c DEF Boot!LoadUnitCreated, CreatingIsNew
  <2>2. loadUnitMap' = [loadUnitMap EXCEPT ![u] = r] /\ UNCHANGED <<live, instanceMap>>
    BY <1>4 DEF Boot!LoadUnitCreated
  <2>3. \A j \in live : loadUnitMap[j.unit] = j.owner => j.unit # u
    BY <1>e, <2>1 DEF Boot!Nobody
  <2> QED
    BY <1>a, <1>c, <1>d, <1>e, <2>2, <2>3 DEF SingletonsRegistered
<1>5. CASE Boot!LoadUnitFails(r)
  BY <1>5, <1>f DEF Boot!LoadUnitFails
<1>6. CASE Boot!CreateInstance(r)
  <2>1. CASE instanceMap[u] # Boot!NoInstance
    BY <1>6, <1>f, <2>1 DEF Boot!CreateInstance
  <2>2. CASE instanceMap[u] = Boot!NoInstance
    BY <1>6, <1>a, <1>c, <1>d, <1>e, <2>2 DEF Boot!CreateInstance, SingletonsRegistered
  <2> QED
    BY <2>1, <2>2
<1>7. CASE Boot!Initialized(r)
  <2>1. /\ pc[r] = "init" /\ loadUnitMap[u] = i.owner /\ live' = live \cup {i}
        /\ UNCHANGED <<loadUnitMap, instanceMap>>
    BY <1>7 DEF Boot!Initialized
  <2>2. instanceMap[u] = i
    BY <1>c, <2>1 DEF InitIsRegistered
  <2>3. i.unit = u /\ i.by = r
    BY InstanceIs
  <2> HIDE DEF i
  <2> QED
    BY <1>a, <1>c, <1>d, <1>e, <2>1, <2>2, <2>3 DEF SingletonsRegistered
<1>8. CASE Boot!InitFails(r)
  <2>1. live' \subseteq live \cup {i} /\ UNCHANGED <<loadUnitMap, instanceMap>> /\ r \in failed'
    BY <1>8 DEF Boot!InitFails
  <2>2. i.unit = u /\ i.by = r
    BY InstanceIs
  <2> HIDE DEF i
  <2> QED
    BY <1>a, <1>c, <1>d, <1>e, <2>1, <2>2 DEF SingletonsRegistered
<1>9. CASE Boot!Close(r)
  BY <1>9, <1>f DEF Boot!Close
<1>10. CASE Boot!DestroyInstance(r)
  <2> DEFINE v == Boot!Foremost(Boot!Held(r))
  <2>1. CASE live' \subseteq live /\ UNCHANGED instanceMap
    BY <1>10, <1>f, <2>1 DEF Boot!DestroyInstance
  <2>2. CASE /\ live' = live \ {loadUnitInstances[r][v]}
             /\ instanceMap' = [instanceMap EXCEPT ![v] = Boot!NoInstance]
    <3>1. pc[r] = "destroying" /\ UNCHANGED <<loadUnitMap, failed>>
      BY <1>10 DEF Boot!DestroyInstance
    <3>2. \A j \in live' : j.by \notin failed => j.unit # v
      <4>1. CASE r \in failed
        BY <2>2, <4>1, FailedIsAlone
      <4>2. CASE r \notin failed
        BY <1>c, <1>e, <2>2, <3>1, <4>2 DEF SingletonsRegistered, InstancesHeld, Instantiated
      <4> QED
        BY <4>1, <4>2
    <3> QED
      BY <1>a, <1>c, <1>d, <1>e, <2>2, <3>1, <3>2 DEF SingletonsRegistered
  <2> QED
    BY <1>10, <2>1, <2>2 DEF Boot!DestroyInstance
<1>11. CASE Boot!DestroyUnit(r)
  <2> DEFINE v == Boot!Foremost(Boot!HeldUnits(r))
  <2>1. CASE UNCHANGED loadUnitMap
    BY <1>11, <1>f, <2>1 DEF Boot!DestroyUnit
  <2>2. CASE loadUnitMap' = [loadUnitMap EXCEPT ![v] = Boot!Nobody]
    <3>1. pc[r] = "destroying" /\ UNCHANGED <<live, instanceMap, failed>> /\ ~Boot!InstancesFirst(r)
      BY <1>11 DEF Boot!DestroyUnit
    <3>2. \A j \in live : j.by \notin failed => j.unit # v \/ Boot!Controllers(v)
      <4>1. CASE r \in failed
        BY <4>1, FailedIsAlone
      <4>2. CASE Boot!ControllersUp(r)
        <5>1. PICK w \in Boot!HeldUnits(r) : Boot!Controllers(w)
          BY <4>2 DEF Boot!ControllersUp
        <5>2. v = UnitCount /\ Boot!HeldUnits(r) \subseteq Boot!UnitIds
          BY <1>a, <5>1, ForemostIs DEF Boot!HeldUnits
        <5> QED
          BY <5>1, <5>2 DEF Boot!Controllers
      <4>3. CASE r \notin failed /\ Boot!Held(r) = {}
        <5>1. \A w \in Boot!UnitIds : loadUnitInstances[r][w] = Boot!NoInstance
          BY <4>3 DEF Boot!Held
        <5> QED
          BY <1>c, <1>e, <3>1, <4>3, <5>1 DEF SingletonsRegistered, InstancesHeld, Instantiated
      <4> QED
        BY <3>1, <4>1, <4>2, <4>3 DEF Boot!InstancesFirst
    <3> QED
      BY <1>a, <1>c, <1>d, <1>e, <2>2, <3>1, <3>2 DEF SingletonsRegistered
  <2> QED
    BY <1>11, <2>1, <2>2 DEF Boot!DestroyUnit
<1>12. CASE Boot!Destroyed(r)
  BY <1>12, <1>f DEF Boot!Destroyed
<1> QED
  BY <1>1, <1>2, <1>3, <1>4, <1>5, <1>6, <1>7, <1>8, <1>9, <1>10, <1>11, <1>12 DEF UnitStep

LEMMA UnitsHeld ==
  ASSUME UnitsInv, UnitTypes', NEW r \in Runs, UnitStep(r), ~overlapped'
  PROVE  InstancesHeld'
<1> DEFINE u == at[r]
           i == Boot!Instance(u, loadUnits[r][u], r)
<1> USE Counts DEF UnitTypes, Boot!TypeOK, Boot!Goes, Boot!Stays, Boot!Go, Boot!registries
<1>a. /\ UnitTypes /\ PlaceOf(r) /\ u \in Boot!UnitIds /\ u \in Nat /\ host' = host
      /\ \A v : Boot!Controllers(v)' <=> Boot!Controllers(v)
  BY HostStays DEF UnitsInv, PlaceInv, Boot!UnitIds
<1>b. /\ \A q \in Runs : q # r => pc[q] \in {"idle", "destroyed", "destroyFailed"} /\ pc'[q] = pc[q]
      /\ \A q \in Runs : q # r => /\ at'[q] = at[q] /\ loadUnits'[q] = loadUnits[q]
                                 /\ loadUnitInstances'[q] = loadUnitInstances[q]
  BY <1>a, OnlyOne, OthersStay
<1>c. SingletonsRegistered /\ InstancesHeld /\ CreatingIsNew /\ InitIsRegistered /\ DestroyedIsGone
  BY OnlyOne DEF UnitsInv, LiveInv
<1>d. pc'[r] # "idle" /\ failed \subseteq failed' /\ failed' \subseteq failed \cup {r}
  BY <1>a, Moves
<1>e. \A q \in Runs \ failed', v \in Boot!UnitIds : q # r => ~Instantiated(q, v)'
  BY <1>b DEF Instantiated
<1>f. ASSUME \A v \in Boot!UnitIds : r \notin failed' /\ Instantiated(r, v)' =>
               loadUnitInstances'[r][v] = instanceMap'[v]
      PROVE  InstancesHeld'
  BY <1>e, <1>f DEF InstancesHeld
<1>g. pc'[r] \in {"failed", "destroyed", "destroyFailed"} => InstancesHeld'
  BY <1>f DEF Instantiated
<1>h. ASSUME Boot!UnitDone(r), pc[r] \in {"load", "creating"},
             UNCHANGED <<loadUnitInstances, instanceMap>>
      PROVE  InstancesHeld'
  <2>1. Bottom(u) <= u /\ Bottom(u) \in Boot!UnitIds /\ Top(u) <= UnitCount
    BY <1>a, BatchIs DEF Boot!UnitIds
  <2>2. CASE u < Top(u) /\ Bottom(u + 1) = Bottom(u) /\ pc'[r] = "load" /\ at'[r] = u + 1
    <3>1. ~Boot!Controllers(u + 1)
      BY <1>a, <2>1, <2>2 DEF Bottom, Boot!Controllers
    <3> QED
      BY <1>a, <1>f, <2>2, <3>1 DEF Instantiated
  <2>3. CASE pc'[r] = "instance" /\ at'[r] = Bottom(u)
    <3>1. \A v \in Boot!UnitIds : Instantiated(r, v)' => Instantiated(r, v)
      BY <1>a, <1>h, <2>1, <2>3 DEF Instantiated, Bottom, Boot!UnitIds
    <3> QED
      BY <1>c, <1>d, <1>f, <1>h, <3>1 DEF InstancesHeld
  <2> QED
    BY <1>a, <1>h, <2>2, <2>3, UnitDoneIs
<1>i. ASSUME Boot!InstanceDone(r), pc[r] \in {"instance", "init"}, UNCHANGED instanceMap,
             loadUnitInstances' = [loadUnitInstances EXCEPT ![r][u] = instanceMap[u]]
      PROVE  InstancesHeld'
  <2>1. \A v \in Boot!UnitIds : Instantiated(r, v)' => v <= u
    BY <1>a, <1>i, InstanceDoneIs DEF Instantiated, Boot!UnitIds
  <2>2. \A v \in Boot!UnitIds : v <= u => v = u \/ Instantiated(r, v)
    BY <1>a, <1>i DEF Instantiated, Boot!UnitIds
  <2> QED
    BY <1>a, <1>c, <1>d, <1>f, <1>i, <2>1, <2>2 DEF InstancesHeld
<1>1. CASE Boot!Start(r)
  <2>1. pc'[r] = "load" /\ at'[r] = 1 /\ ~Boot!Controllers(1)
    BY <1>1, <1>a DEF Boot!Start, PlaceOf, Boot!Controllers
  <2> QED
    BY <1>a, <1>f, <2>1 DEF Instantiated
<1>2. CASE Boot!LoadUnitKnown(r)
  BY <1>2, <1>h DEF Boot!LoadUnitKnown
<1>3. CASE Boot!CreateLoadUnit(r)
  BY <1>3, <1>a, <1>c, <1>d, <1>f DEF Boot!CreateLoadUnit, InstancesHeld, Instantiated
<1>4. CASE Boot!LoadUnitCreated(r)
  BY <1>4, <1>h DEF Boot!LoadUnitCreated
<1>5. CASE Boot!LoadUnitFails(r)
  BY <1>5, <1>a, <1>g DEF Boot!LoadUnitFails
<1>6. CASE Boot!CreateInstance(r)
  <2>1. CASE instanceMap[u] # Boot!NoInstance
    BY <1>6, <1>i, <2>1 DEF Boot!CreateInstance
  <2>2. CASE instanceMap[u] = Boot!NoInstance
    BY <1>6, <1>a, <1>c, <1>d, <1>f, <2>2 DEF Boot!CreateInstance, InstancesHeld, Instantiated, Boot!UnitIds
  <2> QED
    BY <2>1, <2>2
<1>7. CASE Boot!Initialized(r)
  BY <1>7, <1>c, <1>i DEF Boot!Initialized, InitIsRegistered
<1>8. CASE Boot!InitFails(r)
  BY <1>8, <1>a, <1>g DEF Boot!InitFails
<1>9. CASE Boot!Close(r)
  <2>1. /\ pc[r] = "ready" \/ r \in failed
        /\ pc'[r] = "destroying" /\ UNCHANGED <<instanceMap, loadUnitInstances, failed>>
    BY <1>9, <1>a DEF Boot!Close, UnitsInv, SequenceInv
  <2> QED
    BY <1>c, <1>f, <2>1 DEF InstancesHeld, Instantiated
<1>10. CASE Boot!DestroyInstance(r)
  <2> DEFINE v == Boot!Foremost(Boot!Held(r))
  <2>1. CASE Boot!Fail(r)
    BY <1>a, <1>g, <2>1 DEF Boot!Fail
  <2>2. CASE /\ instanceMap' = [instanceMap EXCEPT ![v] = Boot!NoInstance]
             /\ loadUnitInstances' = [loadUnitInstances EXCEPT ![r][v] = Boot!NoInstance]
             /\ UNCHANGED pc
    <3>1. v \in Boot!UnitIds
      BY <1>10, <1>a, ForemostIs DEF Boot!DestroyInstance, Boot!Held
    <3>2. pc[r] = "destroying" /\ UNCHANGED failed
      BY <1>10 DEF Boot!DestroyInstance
    <3> QED
      BY <1>a, <1>c, <1>f, <2>2, <3>1, <3>2 DEF InstancesHeld, Instantiated
  <2> QED
    BY <1>10, <2>1, <2>2 DEF Boot!DestroyInstance
<1>11. CASE Boot!DestroyUnit(r)
  <2>1. CASE Boot!Fail(r)
    BY <1>a, <1>g, <2>1 DEF Boot!Fail
  <2>2. CASE UNCHANGED pc
    BY <1>11, <1>c, <1>f, <2>2 DEF Boot!DestroyUnit, InstancesHeld, Instantiated
  <2> QED
    BY <1>11, <2>1, <2>2 DEF Boot!DestroyUnit
<1>12. CASE Boot!Destroyed(r)
  BY <1>12, <1>a, <1>g DEF Boot!Destroyed
<1> QED
  BY <1>1, <1>2, <1>3, <1>4, <1>5, <1>6, <1>7, <1>8, <1>9, <1>10, <1>11, <1>12 DEF UnitStep

LEMMA UnitsNew ==
  ASSUME UnitsInv, UnitTypes', NEW r \in Runs, UnitStep(r), ~overlapped'
  PROVE  CreatingIsNew' /\ InitIsRegistered'
<1> DEFINE u == at[r]
           i == Boot!Instance(u, loadUnits[r][u], r)
<1> USE Counts DEF UnitTypes, Boot!TypeOK, Boot!Goes, Boot!Stays, Boot!Go, Boot!registries
<1>a. /\ UnitTypes /\ PlaceOf(r) /\ u \in Boot!UnitIds /\ u \in Nat /\ host' = host
      /\ \A v : Boot!Controllers(v)' <=> Boot!Controllers(v)
  BY HostStays DEF UnitsInv, PlaceInv, Boot!UnitIds
<1>b. /\ \A q \in Runs : q # r => pc[q] \in {"idle", "destroyed", "destroyFailed"} /\ pc'[q] = pc[q]
      /\ \A q \in Runs : q # r => /\ at'[q] = at[q] /\ loadUnits'[q] = loadUnits[q]
                                 /\ loadUnitInstances'[q] = loadUnitInstances[q]
  BY <1>a, OnlyOne, OthersStay
<1>c. SingletonsRegistered /\ InstancesHeld /\ CreatingIsNew /\ InitIsRegistered /\ DestroyedIsGone
  BY OnlyOne DEF UnitsInv, LiveInv
<1>d. pc'[r] # "idle" /\ failed \subseteq failed' /\ failed' \subseteq failed \cup {r}
  BY <1>a, Moves
<1>1. CreatingIsNew'
  <2>1. \A q \in Runs : q # r => pc'[q] # "creating"
    BY <1>b
  <2>2. pc'[r] = "creating" => loadUnitMap'[at'[r]] = Boot!Nobody
    BY <1>a, Moves DEF Boot!CreateLoadUnit
  <2> QED
    BY <2>1, <2>2 DEF CreatingIsNew
<1>2. InitIsRegistered'
  <2>1. \A q \in Runs : q # r => pc'[q] # "init"
    BY <1>b
  <2>2. ASSUME pc'[r] = "init"
        PROVE  instanceMap'[at'[r]] = Boot!Instance(at'[r], loadUnits'[r][at'[r]], r)
    <3>1. Boot!CreateInstance(r)
      BY <1>a, <2>2, Moves
    <3>2. CASE instanceMap[u] # Boot!NoInstance
      BY <1>a, <2>2, <3>1, <3>2, InstanceDoneIs DEF Boot!CreateInstance
    <3>3. CASE instanceMap[u] = Boot!NoInstance
      BY <1>a, <3>1, <3>3 DEF Boot!CreateInstance
    <3> QED
      BY <3>2, <3>3
  <2> QED
    BY <2>1, <2>2 DEF InitIsRegistered
<1> QED
  BY <1>1, <1>2

LEMMA UnitsGone ==
  ASSUME UnitsInv, UnitTypes', NEW r \in Runs, UnitStep(r), ~overlapped'
  PROVE  DestroyedIsGone'
<1> DEFINE u == at[r]
           i == Boot!Instance(u, loadUnits[r][u], r)
<1> USE Counts DEF UnitTypes, Boot!TypeOK, Boot!Goes, Boot!Stays, Boot!Go, Boot!registries
<1>a. /\ UnitTypes /\ PlaceOf(r) /\ u \in Boot!UnitIds /\ u \in Nat /\ host' = host
      /\ \A v : Boot!Controllers(v)' <=> Boot!Controllers(v)
  BY HostStays DEF UnitsInv, PlaceInv, Boot!UnitIds
<1>b. /\ \A q \in Runs : q # r => pc[q] \in {"idle", "destroyed", "destroyFailed"} /\ pc'[q] = pc[q]
      /\ \A q \in Runs : q # r => /\ at'[q] = at[q] /\ loadUnits'[q] = loadUnits[q]
                                 /\ loadUnitInstances'[q] = loadUnitInstances[q]
  BY <1>a, OnlyOne, OthersStay
<1>c. SingletonsRegistered /\ InstancesHeld /\ CreatingIsNew /\ InitIsRegistered /\ DestroyedIsGone
  BY OnlyOne DEF UnitsInv, LiveInv
<1>d. pc'[r] # "idle" /\ failed \subseteq failed' /\ failed' \subseteq failed \cup {r}
  BY <1>a, Moves
<1>e. \A j \in live : j # Boot!NoInstance /\ j.unit \in Boot!UnitIds /\ j.by \in Runs
  BY <1>a, InstanceIs
<1>f. ASSUME \A v \in Boot!UnitIds : instanceMap'[v] = instanceMap[v] \/ instanceMap'[v].by \in {0, r},
             \A j \in live' : j \in live \/ j.by = r,
             pc'[r] # "destroyed"
      PROVE  DestroyedIsGone'
  BY <1>b, <1>c, <1>d, <1>f DEF DestroyedIsGone
<1>g. UNCHANGED <<instanceMap, live>> /\ pc'[r] # "destroyed" => DestroyedIsGone'
  BY <1>f
<1>h. Boot!UnitDone(r) \/ Boot!InstanceDone(r) => pc'[r] # "destroyed"
  BY <1>a, UnitDoneIs, InstanceDoneIs
<1>1. CASE Boot!Start(r)
  BY <1>1, <1>a, <1>g DEF Boot!Start
<1>2. CASE Boot!LoadUnitKnown(r)
  BY <1>2, <1>g, <1>h DEF Boot!LoadUnitKnown
<1>3. CASE Boot!CreateLoadUnit(r)
  BY <1>3, <1>a, <1>g DEF Boot!CreateLoadUnit
<1>4. CASE Boot!LoadUnitCreated(r)
  BY <1>4, <1>g, <1>h DEF Boot!LoadUnitCreated
<1>5. CASE Boot!LoadUnitFails(r)
  BY <1>5, <1>a, <1>g DEF Boot!LoadUnitFails
<1>6. CASE Boot!CreateInstance(r)
  <2>1. CASE instanceMap[u] # Boot!NoInstance
    BY <1>6, <1>g, <1>h, <2>1 DEF Boot!CreateInstance
  <2>2. CASE instanceMap[u] = Boot!NoInstance
    <3>1. /\ instanceMap' = [instanceMap EXCEPT ![u] = i] /\ UNCHANGED live /\ pc'[r] # "destroyed"
      BY <1>6, <1>a, <2>2 DEF Boot!CreateInstance
    <3>2. i.by = r
      BY InstanceIs
    <3> HIDE DEF i
    <3> QED
      BY <1>a, <1>f, <3>1, <3>2
  <2> QED
    BY <2>1, <2>2
<1>7. CASE Boot!Initialized(r)
  <2>1. live' = live \cup {i} /\ UNCHANGED instanceMap /\ pc'[r] # "destroyed"
    BY <1>7, <1>h DEF Boot!Initialized
  <2>2. i.by = r
    BY InstanceIs
  <2> HIDE DEF i
  <2> QED
    BY <1>f, <2>1, <2>2
<1>8. CASE Boot!InitFails(r)
  <2>1. live' \subseteq live \cup {i} /\ UNCHANGED instanceMap /\ pc'[r] # "destroyed"
    BY <1>8, <1>a DEF Boot!InitFails
  <2>2. i.by = r
    BY InstanceIs
  <2> HIDE DEF i
  <2> QED
    BY <1>f, <2>1, <2>2
<1>9. CASE Boot!Close(r)
  BY <1>9, <1>a, <1>g DEF Boot!Close
<1>10. CASE Boot!DestroyInstance(r)
  <2> DEFINE v == Boot!Foremost(Boot!Held(r))
  <2>1. pc'[r] # "destroyed" /\ live' \subseteq live
    BY <1>10, <1>a DEF Boot!DestroyInstance, Boot!Fail
  <2>2. instanceMap' \in {instanceMap, [instanceMap EXCEPT ![v] = Boot!NoInstance]}
    BY <1>10 DEF Boot!DestroyInstance
  <2>3. \A w \in Boot!UnitIds : instanceMap'[w] = instanceMap[w] \/ instanceMap'[w].by \in {0, r}
    BY <1>a, <2>2, InstanceIs
  <2> QED
    BY <1>f, <2>1, <2>3
<1>11. CASE Boot!DestroyUnit(r)
  BY <1>11, <1>a, <1>g DEF Boot!DestroyUnit, Boot!Fail
<1>12. CASE Boot!Destroyed(r)
  <2>1. /\ pc[r] = "destroying" /\ UNCHANGED <<instanceMap, live, failed>>
        /\ \A v \in Boot!UnitIds : loadUnitInstances[r][v] = Boot!NoInstance
    BY <1>12 DEF Boot!Destroyed, Boot!Held
  <2>2. r \notin failed => \A v \in Boot!UnitIds : instanceMap[v] = Boot!NoInstance
    BY <1>c, <2>1 DEF InstancesHeld, Instantiated
  <2>3. r \notin failed => \A j \in live : j.by # r
    BY <1>c, <1>e, <2>2 DEF SingletonsRegistered
  <2> QED
    BY <1>b, <1>c, <2>1, <2>2, <2>3, InstanceIs DEF DestroyedIsGone
<1> QED
  BY <1>1, <1>2, <1>3, <1>4, <1>5, <1>6, <1>7, <1>8, <1>9, <1>10, <1>11, <1>12 DEF UnitStep

-----------------------------------------------------------------------------
(* The invariant of boot and shutdown *)

LEMMA UnitsStep ==
  ASSUME UnitsInv, NEW r \in Runs, UnitStep(r)
  PROVE  UnitsInv'
<1>1. UnitTypes'
  BY UnitsTypes
<1>2. PlaceInv' /\ RegisteredInv' /\ SequenceInv'
  BY <1>1, UnitsPlace, UnitsHooks, UnitsUnits, UnitsProtos, UnitsSequence DEF RegisteredInv
<1>3. LiveInv'
  BY <1>1, UnitsSingletons, UnitsHeld, UnitsNew, UnitsGone DEF LiveInv
<1> QED
  BY <1>1, <1>2, <1>3 DEF UnitsInv

LEMMA UnitsInit == Boot!Init => UnitsInv
<1> SUFFICES ASSUME Boot!Init PROVE UnitsInv
  OBVIOUS
<1> USE Counts DEF Boot!Init
<1>1. UnitTypes
  <2>1. Boot!NoInstance \in Boot!Instances /\ 1 \in Boot!UnitIds
    BY DEF Boot!Instances, Boot!UnitIds
  <2> QED
    BY <2>1 DEF UnitTypes, Boot!TypeOK, Places
<1>2. PlaceInv
  BY DEF PlaceInv, PlaceOf
<1>3. RegisteredInv
  BY DEF RegisteredInv, HooksRegistered, UnitsRegistered, ProtosRegistered, Boot!Nobody
<1>4. SequenceInv
  BY DEF SequenceInv
<1>5. LiveInv
  BY DEF LiveInv, SingletonsRegistered, InstancesHeld, CreatingIsNew, InitIsRegistered,
    DestroyedIsGone, Instantiated
<1> QED
  BY <1>1, <1>2, <1>3, <1>4, <1>5 DEF UnitsInv

LEMMA UnitsHold == UnitsInv => BootIsUndone
<1> SUFFICES ASSUME UnitsInv PROVE BootIsUndone
  OBVIOUS
<1>1. UnitTypes /\ PlaceInv /\ RegisteredInv /\ SequenceInv /\ LiveInv
  BY DEF UnitsInv
<1>2. Boot!LiveHasUnit
  BY <1>1 DEF Boot!LiveHasUnit, LiveInv, SingletonsRegistered
<1>3. Boot!HooksOutliveUnits
  <2> SUFFICES ASSUME NEW u \in Boot!UnitIds, loadUnitMap[u] # Boot!Nobody
               PROVE  {loadUnitMap[u]} \X Boot!HookKinds \subseteq lifecycles
    BY DEF Boot!HooksOutliveUnits
  <2>1. PICK r \in Runs : r = loadUnitMap[u]
    BY <1>1 DEF UnitTypes, Boot!TypeOK
  <2>2. loadUnits[r][u] = r \/ pc[r] = "failed"
    BY <1>1, <2>1 DEF RegisteredInv, UnitsRegistered
  <2>3. pc[r] \notin {"idle", "destroyed"}
    BY <1>1, <2>1, <2>2, Counts DEF PlaceInv, PlaceOf, Boot!Nobody
  <2> QED
    BY <1>1, <2>1, <2>3 DEF RegisteredInv, HooksRegistered
<1>4. Boot!NothingIsLeft
  <2> SUFFICES ASSUME NEW r \in Runs, pc[r] = "destroyed", r \notin failed, ~overlapped
               PROVE  /\ \A u \in Boot!UnitIds : loadUnitMap[u] # r /\ instanceMap[u].by # r
                      /\ \A i \in live : i.by # r
                      /\ \A p \in publicProtoMap : p[2] = r => host = "standalone" /\ p[1] = 1
                      /\ \A h \in lifecycles : h[1] = r => host = "standalone" /\ h[2] = "configSource"
    BY DEF Boot!NothingIsLeft
  <2>1. (\A u \in Boot!UnitIds : instanceMap[u].by # r) /\ \A i \in live : i.by # r
    BY <1>1 DEF LiveInv, DestroyedIsGone
  <2>2. \A u \in Boot!UnitIds : loadUnits[r][u] # r
    BY <1>1, Counts DEF PlaceInv, PlaceOf, Boot!Nobody
  <2>3. \A u \in Boot!UnitIds : loadUnitMap[u] # r
    BY <1>1, <2>2 DEF RegisteredInv, UnitsRegistered
  <2>4. \A p \in publicProtoMap : p[2] = r => host = "standalone" /\ p[1] = 1
    <3> SUFFICES ASSUME NEW p \in publicProtoMap, p[2] = r
                 PROVE  host = "standalone" /\ p[1] = 1
      OBVIOUS
    <3>1. p[1] \in Boot!UnitIds /\ p[3] \in Boot!Configs /\ p = <<p[1], r, p[3]>>
      BY <1>1 DEF UnitTypes, Boot!TypeOK
    <3> QED
      BY <1>1, <2>2, <3>1 DEF RegisteredInv, ProtosRegistered
  <2>5. \A h \in lifecycles : h[1] = r => host = "standalone" /\ h[2] = "configSource"
    BY <1>1 DEF RegisteredInv, HooksRegistered
  <2> QED
    BY <2>1, <2>3, <2>4, <2>5
<1> QED
  BY <1>2, <1>3, <1>4 DEF BootIsUndone

\* Whatever an application or a standalone process loads, in however many units and
\* calls of main(), and whatever fails: the hooks of a boot are there for all its
\* units; and unless main() was called again before the last run was destroyed,
\* singletons do not outlive their unit, and a run that was destroyed leaves nothing
\* but what the standalone runner forgets.
THEOREM BootUndone == MCSpec => []BootIsUndone
<1>1. MCInit => UnitsInv
  BY UnitsInit DEF MCInit
<1>2. UnitsInv /\ [MCNext]_<<part, vars, bootVars, moduleVars, eggVars, classVars>> => UnitsInv'
  <2> SUFFICES ASSUME UnitsInv, [MCNext]_<<part, vars, bootVars, moduleVars, eggVars, classVars>>
               PROVE  UnitsInv'
    OBVIOUS
  <2>1. CASE Boot!Next
    BY <2>1, UnitsStep DEF Boot!Next, UnitStep
  <2>2. CASE UNCHANGED bootVars
    BY <2>2 DEF bootVars, UnitsInv, UnitTypes, Boot!TypeOK, PlaceInv, PlaceOf, Bottom, Top, Boot!Controllers,
      RegisteredInv, HooksRegistered, UnitsRegistered, ProtosRegistered, SequenceInv, LiveInv,
      SingletonsRegistered, InstancesHeld, CreatingIsNew, InitIsRegistered, DestroyedIsGone, Instantiated
  <2> QED
    BY <2>1, <2>2 DEF MCNext, bootVars
<1>3. UnitsInv => BootIsUndone
  BY UnitsHold
<1> QED
  BY <1>1, <1>2, <1>3, PTL DEF MCSpec

-----------------------------------------------------------------------------
(* The properties of egg as objects *)

LEMMA EggCounts == \A S : E!Cardinality(S) = Cardinality(S)
BY DEF E!Cardinality, Cardinality

LEMMA OneOf == \A e : Cardinality({e}) = 1
BY FS_Singleton

EggInv ==
  /\ loggers \cap E!AppBlackList = {} /\ given \subseteq Names
  /\ cache \in [Names -> {cache[n] : n \in Names}]
  /\ \A n \in Names : cache[n] # NoValue => cache[n] = "value" /\ n \in given
  /\ E!ReadIsCurrent

LEMMA EggStep == ASSUME EggInv, E!Next PROVE EggInv'
<1> USE DEF EggInv, E!ReadIsCurrent
<1>1. CASE E!End
  BY <1>1 DEF E!End
<1>2. ASSUME NEW c \in Contexts, E!Begin(c) PROVE EggInv'
  BY <1>2 DEF E!Begin
<1>3. ASSUME NEW n \in Names, E!Give(n) PROVE EggInv'
  BY <1>3 DEF E!Give
<1>4. ASSUME NEW p \in [name : Names, type : {"APP", "CONTEXT", "none"}], E!Obj(p) PROVE EggInv'
  <2>1. /\ UNCHANGED <<loggers, given, current>> /\ p.name \in Names
        /\ read' = [proto |-> p, value |-> E!Value(p)]
        /\ cache' = IF E!Keeps(p) THEN [cache EXCEPT ![p.name] = E!Value(p)] ELSE cache
    BY <1>4 DEF E!Obj
  <2>2. E!Value(p) = IF p.type = "CONTEXT" THEN current
                     ELSE IF p.name \in given THEN "value" ELSE NoValue
    BY <2>1 DEF E!Value, E!Constructed, E!Keeps
  <2>3. cache' \in [Names -> {cache'[n] : n \in Names}]
    BY <2>1
  <2>4. \A n \in Names : cache'[n] # NoValue => cache'[n] = "value" /\ n \in given
    BY <2>1, <2>2 DEF E!Keeps
  <2>5. E!ReadIsCurrent'
    BY <2>1, <2>2
  <2> QED
    BY <2>1, <2>3, <2>4, <2>5
<1> QED
  BY <1>1, <1>2, <1>3, <1>4 DEF E!Next

\* The lists of names, and what the hook asks for, agree: only the loader's own lists matter.
LEMMA EggNames == ASSUME EggInv PROVE E!OneObjectForAName
<1> SUFFICES ASSUME NEW n \in Names
             PROVE  E!Cardinality(E!Found(n)) =
               IF n \in appProperties \cup contextProperties \cup loggers \cup E!DefaultContext
                        \cup {p.name : p \in E!Inner}
                 THEN IF n \in E!ContextBlackList /\ n \notin appProperties \cup loggers THEN 0 ELSE 1
                 ELSE 0
  BY DEF E!OneObjectForAName
<1> USE DEF E!Found, E!Protos, E!Added, E!Inner, E!Proto, E!IsContextObject, E!IsAppObject,
  E!AppNames, E!ContextNames, E!LoggerNames, E!AppBlackList, E!ContextBlackList, E!DefaultContext
<1>1. {p.name : p \in E!Inner} = {"eggObjectFactory", "moduleConfigs"}
  OBVIOUS
<1>2. CASE E!IsContextObject(n)
  <2>1. E!Found(n) = {E!Proto(n, "CONTEXT")}
    BY <1>2
  <2> QED
    BY <1>1, <1>2, <2>1, EggCounts, OneOf
<1>3. CASE ~E!IsContextObject(n) /\ n \in {"eggObjectFactory", "moduleConfigs"}
  <2>1. E!Found(n) = {E!Proto(n, IF n = "moduleConfigs" THEN "APP" ELSE "none")}
    BY <1>3 DEF EggInv
  <2> QED
    BY <1>1, <1>3, <2>1, EggCounts, OneOf
<1>4. CASE /\ ~E!IsContextObject(n) /\ n \notin {"eggObjectFactory", "moduleConfigs"}
           /\ n \in appProperties \cup loggers
  <2>1. E!Found(n) = {E!Proto(n, "APP")}
    BY <1>4
  <2> QED
    BY <1>1, <1>4, <2>1, EggCounts, OneOf
<1>5. CASE /\ ~E!IsContextObject(n) /\ n \notin {"eggObjectFactory", "moduleConfigs"}
           /\ n \notin appProperties \cup loggers
  <2>1. E!Found(n) = {}
    BY <1>5
  <2>2. n \in contextProperties \cup E!DefaultContext => n \in E!ContextBlackList
    BY <1>5
  <2> QED
    BY <1>1, <1>5, <2>1, <2>2, EggCounts, FS_EmptySet
<1> QED
  BY <1>2, <1>3, <1>4, <1>5

\* Whatever properties, plugins and loggers an application has, and whatever requests come
\* and go: an injected name means one object, and what is read of it is current.
THEOREM PropertiesObjects == MCSpec => []PropertiesAreObjects
<1>1. MCInit => EggInv
  BY DEF MCInit, E!Init, EggInv, E!ReadIsCurrent
<1>2. EggInv /\ [MCNext]_<<part, vars, bootVars, moduleVars, eggVars, classVars>> => EggInv'
  <2> SUFFICES ASSUME EggInv, [MCNext]_<<part, vars, bootVars, moduleVars, eggVars, classVars>>
               PROVE  EggInv'
    OBVIOUS
  <2>1. CASE E!Next
    BY <2>1, EggStep
  <2>2. CASE UNCHANGED eggVars
    BY <2>2 DEF eggVars, EggInv, E!ReadIsCurrent
  <2> QED
    BY <2>1, <2>2 DEF MCNext, eggVars
<1>3. EggInv => PropertiesAreObjects
  BY EggNames DEF EggInv, PropertiesAreObjects
<1> QED
  BY <1>1, <1>2, <1>3, PTL DEF MCSpec

-----------------------------------------------------------------------------
(* Functions defined by recursion over 0 .. n *)

Computes(f, n, x0, G) == f[0] = x0 /\ \A i \in 1 .. n : f[i] = G[i][f[i - 1]]
Computed(n, X, x0, G) == \E f \in [0 .. n -> X] : Computes(f, n, x0, G)

LEMMA Recursion ==
  ASSUME NEW n \in Nat, NEW X, NEW x0 \in X, NEW G \in [1 .. n -> [X -> X]]
  PROVE  Computed(n, X, x0, G)
<1> DEFINE Upto(m) == \E f \in [0 .. m -> X] : f[0] = x0 /\ \A i \in 1 .. m : f[i] = G[i][f[i - 1]]
           S == {m \in 0 .. n : ~Upto(m)}
<1>1. Upto(0)
  <2> DEFINE f == [i \in 0 .. 0 |-> x0]
  <2>1. f \in [0 .. 0 -> X] /\ f[0] = x0
    OBVIOUS
  <2>2. \A i \in 1 .. 0 : f[i] = G[i][f[i - 1]]
    OBVIOUS
  <2> HIDE DEF f
  <2> QED
    BY <2>1, <2>2
<1>2. ASSUME NEW m \in 1 .. n, Upto(m - 1) PROVE Upto(m)
  <2>1. PICK f \in [0 .. m - 1 -> X] :
          f[0] = x0 /\ \A i \in 1 .. m - 1 : f[i] = G[i][f[i - 1]]
    BY <1>2
  <2> DEFINE g == [i \in 0 .. m |-> IF i = m THEN G[m][f[m - 1]] ELSE f[i]]
  <2>2. G[m][f[m - 1]] \in X
    OBVIOUS
  <2>3. g \in [0 .. m -> X] /\ g[0] = x0
    BY <2>1, <2>2
  <2>4. \A i \in 1 .. m : g[i] = G[i][g[i - 1]]
    <3> TAKE i \in 1 .. m
    <3>1. CASE i = m
      BY <3>1
    <3>2. CASE i # m
      <4>1. i \in 1 .. m - 1 /\ i - 1 # m /\ i \in 0 .. m /\ i - 1 \in 0 .. m
        BY <3>2
      <4> QED
        BY <2>1, <3>2, <4>1
    <3> QED
      BY <3>1, <3>2
  <2> QED
    BY <2>3, <2>4
<1> HIDE DEF Upto
<1>3. S = {}
  <2> SUFFICES ASSUME S # {} PROVE FALSE
    OBVIOUS
  <2>0. S \in SUBSET Nat
    OBVIOUS
  <2>1. PICK m \in S : \A k \in S : m <= k
    BY <2>0, LeastOf
  <2>2. m # 0
    BY <1>1, <2>1
  <2>3. m \in 1 .. n /\ m - 1 \in 0 .. n /\ m - 1 \notin S
    BY <2>1, <2>2
  <2> QED
    BY <1>2, <2>1, <2>3
<1>4. Upto(n)
  BY <1>3
<1> QED
  BY <1>4 DEF Upto, Computed, Computes

-----------------------------------------------------------------------------
(* Modules and their configuration *)

LEMMA ModulesOfAre ==
  ASSUME NEW s \in Seq(Dirs), NEW once
  PROVE  M!ModulesOf(s, once) \in Seq(Dirs)
<1> DEFINE n == Len(s)
           Kept(i, t) == IF M!IsModule(s[i]) /\ ~(once /\ s[i] \in M!Range(t)) THEN Append(t, s[i]) ELSE t
           Body(f) == [i \in 0 .. n |-> IF i = 0 THEN <<>> ELSE Kept(i, f[i - 1])]
           kept == CHOOSE f : f = Body(f)
           G == [i \in 1 .. n |-> [t \in Seq(Dirs) |-> Kept(i, t)]]
           S == {i \in 0 .. n : kept[i] \notin Seq(Dirs)}
<1>1. n \in Nat /\ \A i \in 1 .. n : s[i] \in Dirs
  OBVIOUS
<1>2. \A i \in 1 .. n, t \in Seq(Dirs) : Kept(i, t) \in Seq(Dirs)
  BY <1>1, AppendProperties
<1> HIDE DEF Kept
<1>3. kept = Body(kept)
  <2>1. G \in [1 .. n -> [Seq(Dirs) -> Seq(Dirs)]]
    BY <1>1, <1>2
  <2>2. <<>> \in Seq(Dirs)
    OBVIOUS
  <2> HIDE DEF n, G
  <2>3. Computed(n, Seq(Dirs), <<>>, G)
    BY <1>1, <2>1, <2>2, Recursion
  <2>4. PICK f \in [0 .. n -> Seq(Dirs)] : f[0] = <<>> /\ \A i \in 1 .. n : f[i] = G[i][f[i - 1]]
    BY <2>3 DEF Computed, Computes
  <2>5. \A i \in 1 .. n : f[i - 1] \in Seq(Dirs)
    BY <1>1, <2>4
  <2>6. \A i \in 1 .. n : f[i] = Kept(i, f[i - 1])
    BY <1>1, <2>4, <2>5 DEF G
  <2>7. f = Body(f)
    BY <1>1, <2>4, <2>6
  <2> QED
    BY <2>7
<1> HIDE DEF kept, n
<1>4. kept[0] = <<>> /\ \A i \in 1 .. n : kept[i] = Kept(i, kept[i - 1])
  BY <1>1, <1>3
<1>5. S = {}
  <2> SUFFICES ASSUME S # {} PROVE FALSE
    OBVIOUS
  <2>0. S \in SUBSET Nat
    OBVIOUS
  <2>1. PICK m \in S : \A k \in S : m <= k
    BY <2>0, LeastOf
  <2>2. m # 0
    <3>1. kept[m] \notin Seq(Dirs) /\ <<>> \in Seq(Dirs)
      BY <2>1
    <3> QED
      BY <1>4, <3>1
  <2>3. m \in 1 .. n /\ kept[m - 1] \in Seq(Dirs)
    BY <1>1, <2>1, <2>2
  <2> QED
    BY <1>2, <1>4, <2>3
<1>6. kept[n] \in Seq(Dirs)
  BY <1>1, <1>5
<1> QED
  BY <1>6 DEF M!ModulesOf, kept, n, Kept

ModuleRefs == [path : Dirs, name : {tree[d].name : d \in Dirs}, optional : BOOLEAN]
LEMMA ReadIs ==
  ASSUME NEW l \in Listings, NEW opt \in BOOLEAN
  PROVE  /\ M!Read(l, opt) \in Seq(ModuleRefs)
         /\ \A i \in 1 .. Len(M!Read(l, opt)) : M!Read(l, opt)[i].name = tree[M!Read(l, opt)[i].path].name
<1>1. l.dirs \in Seq(Dirs) /\ l.deps \in Seq(Dirs)
  BY InstancesAssumption DEF M!ModuleConfigAssumption
<1>2. M!ModulesOf(l.dirs, TRUE) \o M!Dependencies(l) \in Seq(Dirs)
  BY <1>1, ModulesOfAre, ConcatProperties DEF M!Dependencies
<1>3. ASSUME NEW s \in Seq(Dirs)
      PROVE  /\ M!Refs(s, opt) \in Seq(ModuleRefs)
             /\ \A i \in 1 .. Len(M!Refs(s, opt)) : M!Refs(s, opt)[i].name = tree[M!Refs(s, opt)[i].path].name
  <2>1. \A i \in 1 .. Len(s) : M!Ref(s[i], opt) \in ModuleRefs
          /\ M!Ref(s[i], opt).name = tree[M!Ref(s[i], opt).path].name
    BY DEF M!Ref, ModuleRefs
  <2>2. M!Refs(s, opt) = [i \in 1 .. Len(s) |-> M!Ref(s[i], opt)]
    BY DEF M!Refs
  <2>3. M!Refs(s, opt) \in Seq(ModuleRefs) /\ Len(M!Refs(s, opt)) = Len(s)
    BY <2>1, <2>2
  <2> QED
    BY <2>1, <2>2, <2>3
<1> QED
  BY <1>1, <1>2, <1>3 DEF M!Read

\* The modules read so far, and the two maps of them.
Seen == {refs[i] : i \in {j \in DOMAIN refs : j < next}}
MapsInv ==
  /\ \A p \in DOMAIN moduleMap :
       /\ moduleMap[p].path = p /\ moduleMap[p] \in Seen
       /\ moduleMap[p].optional = (\A r \in Seen : r.path = p => r.optional)
  /\ {moduleMap[p] : p \in DOMAIN moduleMap} = {nameMap[n] : n \in DOMAIN nameMap}
  /\ \A n \in DOMAIN nameMap : nameMap[n].name = n
  /\ DOMAIN moduleMap = {r.path : r \in Seen}
ModulesInv ==
  /\ next \in Nat /\ refs \in Seq(ModuleRefs)
  /\ \A i \in 1 .. Len(refs) : refs[i].name = tree[refs[i].path].name
  /\ listings \in Listings \X Listings
  /\ next = 0 => refs = <<>>
  /\ error = "none" => MapsInv
  /\ error = "name" => \E r, s \in Seen : r.name = s.name /\ r.path # s.path

LEMMA ModulesInit == M!Init => ModulesInv
<1> SUFFICES ASSUME M!Init PROVE ModulesInv
  OBVIOUS
<1>1. Seen = {} /\ DOMAIN moduleMap = {} /\ DOMAIN nameMap = {}
  BY DEF M!Init, M!NoFunction, Seen
<1> QED
  BY <1>1 DEF M!Init, ModulesInv, MapsInv

LEMMA AllRead == ASSUME ModulesInv, M!ReadAll PROVE ModulesInv'
<1>1. CASE UNCHANGED <<refs, next>> /\ error' = "read"
  BY <1>1 DEF M!ReadAll, ModulesInv, ModuleRefs
<1>2. CASE /\ next' = 1 /\ UNCHANGED error
           /\ refs' = IF kind = "egg" THEN M!Read(listings[1], FALSE) \o M!Read(listings[2], TRUE)
                      ELSE M!Read(listings[2], FALSE) \o M!Read(listings[1], FALSE)
  <2>1. listings[1] \in Listings /\ listings[2] \in Listings
    BY DEF ModulesInv
  <2>2. ASSUME NEW l \in Listings, NEW k \in Listings, NEW o \in BOOLEAN,
               refs' = M!Read(l, FALSE) \o M!Read(k, o)
        PROVE  /\ refs' \in Seq(ModuleRefs)
               /\ \A i \in 1 .. Len(refs') : refs'[i].name = tree[refs'[i].path].name
    <3> DEFINE a == M!Read(l, FALSE)
               b == M!Read(k, o)
    <3>1. /\ a \in Seq(ModuleRefs) /\ \A i \in 1 .. Len(a) : a[i].name = tree[a[i].path].name
          /\ b \in Seq(ModuleRefs) /\ \A i \in 1 .. Len(b) : b[i].name = tree[b[i].path].name
      BY <2>2, ReadIs
    <3> HIDE DEF a, b
    <3>2. refs' = a \o b
      BY <2>2 DEF a, b
    <3>3. refs' \in Seq(ModuleRefs) /\ Len(refs') = Len(a) + Len(b)
      BY <3>1, <3>2, ConcatProperties
    <3>4. \A i \in 1 .. Len(refs') : refs'[i] = IF i <= Len(a) THEN a[i] ELSE b[i - Len(a)]
      BY <3>1, <3>2, ConcatProperties
    <3>5. ASSUME NEW i \in 1 .. Len(refs') PROVE refs'[i].name = tree[refs'[i].path].name
      <4>1. CASE i <= Len(a)
        BY <3>1, <3>3, <3>4, <4>1
      <4>2. CASE i > Len(a)
        <5>1. i - Len(a) \in 1 .. Len(b)
          BY <3>1, <3>3, <4>2
        <5>2. refs'[i] = b[i - Len(a)]
          BY <3>1, <3>4, <4>2
        <5>3. \A j \in 1 .. Len(b) : b[j].name = tree[b[j].path].name
          BY <3>1
        <5> QED
          BY <5>1, <5>2, <5>3
      <4> QED
        BY <3>1, <4>1, <4>2
    <3> QED
      BY <3>3, <3>5
  <2>3. /\ refs' \in Seq(ModuleRefs)
        /\ \A i \in 1 .. Len(refs') : refs'[i].name = tree[refs'[i].path].name
    BY <1>2, <2>1, <2>2
  <2>4. next = 0 /\ error = "none" /\ UNCHANGED <<tree, listings, moduleMap, nameMap>>
    BY DEF M!ReadAll
  <2>5. Seen = {} /\ Seen' = {}
    <3>1. \A j \in DOMAIN refs' : ~(j < 1)
      BY <2>3
    <3>2. \A j \in DOMAIN refs : ~(j < 0)
      BY DEF ModulesInv
    <3> QED
      BY <1>2, <2>4, <3>1, <3>2 DEF Seen
  <2>6. DOMAIN moduleMap = {} /\ DOMAIN nameMap = {}
    <3>1. MapsInv
      BY <2>4 DEF ModulesInv
    <3>2. DOMAIN moduleMap = {}
      BY <2>5, <3>1 DEF MapsInv
    <3>3. \A n \in DOMAIN nameMap : nameMap[n] \in {moduleMap[p] : p \in DOMAIN moduleMap}
      BY <3>1 DEF MapsInv
    <3> QED
      BY <3>2, <3>3
  <2>7. MapsInv'
    BY <2>4, <2>5, <2>6 DEF MapsInv
  <2>8. ModuleRefs' = ModuleRefs
    BY <2>4 DEF ModuleRefs
  <2> QED
    <3>1. /\ next' \in Nat /\ next' # 0 /\ error' = "none"
          /\ refs' \in Seq(ModuleRefs') /\ listings' \in Listings \X Listings
          /\ \A i \in 1 .. Len(refs') : refs'[i].name = tree'[refs'[i].path].name
      <4>1. next' = 1 /\ error' = "none" /\ tree' = tree /\ listings' = listings
        BY <1>2, <2>4
      <4>2. listings \in Listings \X Listings
        BY DEF ModulesInv
      <4> QED
        BY <2>3, <2>8, <4>1, <4>2
    <3> QED
      BY <2>7, <3>1 DEF ModulesInv
<1> QED
  BY <1>1, <1>2 DEF M!ReadAll

LEMMA NameTwice ==
  ASSUME MapsInv, NEW p \in DOMAIN moduleMap
  PROVE  moduleMap[p].name \in DOMAIN nameMap /\ nameMap[moduleMap[p].name] = moduleMap[p]
<1>1. PICK n \in DOMAIN nameMap : nameMap[n] = moduleMap[p]
  BY DEF MapsInv
<1> QED
  BY <1>1 DEF MapsInv

LEMMA PathOfName ==
  ASSUME MapsInv, NEW n \in DOMAIN nameMap
  PROVE  \E p \in DOMAIN moduleMap : moduleMap[p] = nameMap[n] /\ p = nameMap[n].path
<1>1. nameMap[n] \in {moduleMap[p] : p \in DOMAIN moduleMap}
  BY DEF MapsInv
<1>2. PICK p \in DOMAIN moduleMap : moduleMap[p] = nameMap[n]
  BY <1>1
<1>3. moduleMap[p].path = p
  BY DEF MapsInv
<1> QED
  BY <1>2, <1>3

LEMMA Deduplicated == ASSUME ModulesInv, M!Deduplicate PROVE ModulesInv'
<1> DEFINE r == refs[next]
<1>1. /\ next \in 1 .. Len(refs) /\ error = "none" /\ next' = next + 1
      /\ UNCHANGED <<tree, listings, refs>>
  BY DEF M!Deduplicate
<1>2. MapsInv /\ r \in ModuleRefs /\ r.name = tree[r.path].name
  BY <1>1 DEF ModulesInv
<1>3. Seen' = Seen \cup {r} /\ \A s \in Seen : s.name = tree[s.path].name /\ s \in ModuleRefs
  BY <1>1 DEF Seen, ModulesInv
<1> HIDE DEF r
<1>a. ModuleRefs' = ModuleRefs
  BY <1>1 DEF ModuleRefs
<1>b. r.path \in DOMAIN moduleMap => moduleMap[r.path].name = r.name
  BY <1>2, <1>3 DEF MapsInv
<1>4. CASE M!Collides(r) /\ error' = "name" /\ UNCHANGED <<moduleMap, nameMap>>
  <2>1. r.path \notin DOMAIN moduleMap
    BY <1>b, <1>4 DEF M!Collides, M!Replaces
  <2>2. PICK p \in DOMAIN moduleMap : moduleMap[p] = nameMap[r.name] /\ p = nameMap[r.name].path
    BY <1>2, <1>4, PathOfName DEF M!Collides
  <2>3. moduleMap[p] \in Seen' /\ r \in Seen'
    BY <1>2, <1>3, <2>2 DEF MapsInv
  <2>4. r.name = moduleMap[p].name /\ r.path # moduleMap[p].path
    BY <1>2, <1>4, <2>1, <2>2 DEF M!Collides, MapsInv
  <2> QED
    BY <1>1, <1>a, <1>4, <2>3, <2>4 DEF ModulesInv
<1>5. CASE /\ ~M!Collides(r) /\ (r.path \notin DOMAIN moduleMap \/ M!Replaces(r))
           /\ moduleMap' = M!Set(moduleMap, r.path, r)
           /\ nameMap' = M!Set(IF r.path \in DOMAIN moduleMap
                                THEN M!Without(nameMap, moduleMap[r.path].name) ELSE nameMap, r.name, r)
           /\ UNCHANGED error
  <2>1. /\ DOMAIN moduleMap' = DOMAIN moduleMap \cup {r.path} /\ moduleMap'[r.path] = r
        /\ \A p \in DOMAIN moduleMap : p # r.path => moduleMap'[p] = moduleMap[p]
    BY <1>5 DEF M!Set
  <2>2. r.path \in DOMAIN moduleMap => moduleMap[r.path].name = r.name
    BY <1>b
  <2>3. /\ DOMAIN nameMap' = DOMAIN nameMap \cup {r.name} /\ nameMap'[r.name] = r
        /\ \A n \in DOMAIN nameMap : n # r.name => nameMap'[n] = nameMap[n]
    BY <1>5, <2>2 DEF M!Set, M!Without
  <2>4. r.path \notin DOMAIN moduleMap => r.name \notin DOMAIN nameMap
    BY <1>5 DEF M!Collides
  <2>5. \A p \in DOMAIN moduleMap' : moduleMap'[p].path = p /\ moduleMap'[p] \in Seen'
    BY <1>2, <1>3, <2>1 DEF MapsInv
  <2>6. DOMAIN moduleMap' = {s.path : s \in Seen'}
    BY <1>2, <1>3, <2>1 DEF MapsInv
  <2>7. \A p \in DOMAIN moduleMap' :
          moduleMap'[p].optional = (\A s \in Seen' : s.path = p => s.optional)
    <3> SUFFICES ASSUME NEW p \in DOMAIN moduleMap'
                 PROVE  moduleMap'[p].optional = (\A s \in Seen' : s.path = p => s.optional)
      OBVIOUS
    <3>1. CASE p # r.path
      BY <1>2, <1>3, <2>1, <3>1 DEF MapsInv
    <3>2. CASE p = r.path /\ r.path \notin DOMAIN moduleMap
      <4>1. \A s \in Seen' : s.path = p => s = r
        BY <1>2, <1>3, <3>2 DEF MapsInv
      <4> QED
        BY <1>2, <1>3, <2>1, <3>2, <4>1 DEF ModuleRefs
    <3>3. CASE p = r.path /\ M!Replaces(r)
      <4>1. moduleMap'[p].optional = FALSE /\ r \in Seen' /\ r.path = p /\ ~r.optional
        BY <1>2, <1>3, <2>1, <3>3 DEF M!Replaces, ModuleRefs
      <4> QED
        BY <4>1
    <3> QED
      BY <1>5, <3>1, <3>2, <3>3
  <2>8. \A n \in DOMAIN nameMap' : nameMap'[n].name = n
    BY <1>2, <2>3 DEF MapsInv
  <2>9. {moduleMap'[p] : p \in DOMAIN moduleMap'} = {nameMap'[n] : n \in DOMAIN nameMap'}
    <3>1. ASSUME NEW p \in DOMAIN moduleMap'
          PROVE  \E n \in DOMAIN nameMap' : moduleMap'[p] = nameMap'[n]
      <4>1. CASE p = r.path
        BY <2>1, <2>3, <4>1
      <4>2. CASE p # r.path
        <5>1. p \in DOMAIN moduleMap /\ moduleMap[p].path = p
          BY <1>2, <2>1, <4>2 DEF MapsInv
        <5>2. moduleMap[p].name \in DOMAIN nameMap /\ nameMap[moduleMap[p].name] = moduleMap[p]
          BY <1>2, <5>1, NameTwice
        <5>3. moduleMap[p].name # r.name
          <6>1. CASE r.path \notin DOMAIN moduleMap
            BY <2>4, <5>2, <6>1
          <6>2. CASE r.path \in DOMAIN moduleMap
            <7>1. nameMap[r.name] = moduleMap[r.path] /\ moduleMap[r.path].path = r.path
              BY <1>2, <2>2, <6>2, NameTwice DEF MapsInv
            <7> QED
              BY <4>2, <5>1, <5>2, <7>1
          <6> QED
            BY <6>1, <6>2
        <5> QED
          BY <2>1, <2>3, <4>2, <5>1, <5>2, <5>3
      <4> QED
        BY <4>1, <4>2
    <3>2. ASSUME NEW n \in DOMAIN nameMap'
          PROVE  \E p \in DOMAIN moduleMap' : moduleMap'[p] = nameMap'[n]
      <4>1. CASE n = r.name
        BY <2>1, <2>3, <4>1
      <4>2. CASE n # r.name
        <5>1. PICK p \in DOMAIN moduleMap : moduleMap[p] = nameMap[n]
          BY <1>2, <2>3, <4>2, PathOfName
        <5>2. p # r.path
          BY <1>2, <2>2, <2>3, <4>2, <5>1 DEF MapsInv
        <5> QED
          BY <2>1, <2>3, <4>2, <5>1, <5>2
      <4> QED
        BY <4>1, <4>2
    <3> QED
      BY <3>1, <3>2
  <2>10. MapsInv'
    BY <2>5, <2>6, <2>7, <2>8, <2>9 DEF MapsInv
  <2> QED
    BY <1>1, <1>a, <1>5, <2>10 DEF ModulesInv
<1>6. CASE /\ r.path \in DOMAIN moduleMap /\ ~M!Replaces(r)
           /\ UNCHANGED <<moduleMap, nameMap, error>>
  <2>1. r.optional \/ ~moduleMap[r.path].optional
    BY <1>6 DEF M!Replaces
  <2>2. \A p \in DOMAIN moduleMap :
          moduleMap[p].optional = (\A s \in Seen' : s.path = p => s.optional)
    <3> SUFFICES ASSUME NEW p \in DOMAIN moduleMap
                 PROVE  moduleMap[p].optional = (\A s \in Seen' : s.path = p => s.optional)
      OBVIOUS
    <3>1. moduleMap[p].optional = (\A s \in Seen : s.path = p => s.optional)
      BY <1>2 DEF MapsInv
    <3>2. (\A s \in Seen' : s.path = p => s.optional) <=> (\A s \in Seen : s.path = p => s.optional)
      BY <1>3, <1>6, <2>1, <3>1
    <3> QED
      BY <3>1, <3>2
  <2>3. MapsInv'
    <3>1. /\ \A p \in DOMAIN moduleMap : moduleMap[p].path = p /\ moduleMap[p] \in Seen'
          /\ {moduleMap[p] : p \in DOMAIN moduleMap} = {nameMap[n] : n \in DOMAIN nameMap}
          /\ \A n \in DOMAIN nameMap : nameMap[n].name = n
      BY <1>2, <1>3 DEF MapsInv
    <3>2. DOMAIN moduleMap = {s.path : s \in Seen'}
      BY <1>2, <1>3, <1>6 DEF MapsInv
    <3>3. moduleMap' = moduleMap /\ nameMap' = nameMap
      BY <1>6
    <3>4. \A p \in DOMAIN moduleMap' :
            /\ moduleMap'[p].path = p /\ moduleMap'[p] \in Seen'
            /\ moduleMap'[p].optional = (\A s \in Seen' : s.path = p => s.optional)
      BY <2>2, <3>1, <3>3
    <3>5. /\ {moduleMap'[p] : p \in DOMAIN moduleMap'} = {nameMap'[n] : n \in DOMAIN nameMap'}
          /\ \A n \in DOMAIN nameMap' : nameMap'[n].name = n
      BY <3>1, <3>3
    <3>6. DOMAIN moduleMap' = {s.path : s \in Seen'}
      BY <3>2, <3>3
    <3> QED
      BY <3>4, <3>5, <3>6 DEF MapsInv
  <2> QED
    BY <1>1, <1>a, <1>6, <2>3 DEF ModulesInv
<1> QED
  BY <1>4, <1>5, <1>6 DEF M!Deduplicate, r

LEMMA ModulesFrame ==
  ASSUME ModulesInv, UNCHANGED <<tree, listings, refs, next, moduleMap, nameMap, error>>
  PROVE  ModulesInv'
<1>1. Seen' = Seen /\ ModuleRefs' = ModuleRefs
  BY DEF Seen, ModuleRefs
<1>2. MapsInv => MapsInv'
  <2> SUFFICES ASSUME MapsInv PROVE MapsInv'
    OBVIOUS
  <2> USE DEF MapsInv
  <2>1. \A p \in DOMAIN moduleMap' :
          /\ moduleMap'[p].path = p /\ moduleMap'[p] \in Seen'
          /\ moduleMap'[p].optional = (\A r \in Seen' : r.path = p => r.optional)
    BY <1>1
  <2>2. {moduleMap'[p] : p \in DOMAIN moduleMap'} = {nameMap'[n] : n \in DOMAIN nameMap'}
    <3>1. {moduleMap[p] : p \in DOMAIN moduleMap} = {nameMap[n] : n \in DOMAIN nameMap}
      OBVIOUS
    <3>2. moduleMap' = moduleMap /\ nameMap' = nameMap
      OBVIOUS
    <3> HIDE DEF MapsInv
    <3> QED
      BY <3>1, <3>2
  <2>3. (\A n \in DOMAIN nameMap' : nameMap'[n].name = n) /\ DOMAIN moduleMap' = {r.path : r \in Seen'}
    BY <1>1
  <2> QED
    BY <2>1, <2>2, <2>3
<1> QED
  BY <1>1, <1>2 DEF ModulesInv

\* Two sequences merged, of the files that LoadOne finds.
FileNames == {"module", "module.default"} \cup Envs
Files == FileNames \X {"yml", "json"}
LEMMA FlattenTwo ==
  ASSUME NEW seqs, Len(seqs) = 2
  PROVE  M!FlattenSeq(seqs) = seqs[1] \o seqs[2]
<1> DEFINE Body(f) == [i \in 1 .. Len(seqs) |-> IF i = 1 THEN seqs[i] ELSE f[i - 1] \o seqs[i]]
           flatten == CHOOSE f : f = Body(f)
           g == [i \in 1 .. 2 |-> IF i = 1 THEN seqs[1] ELSE seqs[1] \o seqs[2]]
<1>1. g = Body(g)
  OBVIOUS
<1>2. flatten = Body(flatten)
  <2> HIDE DEF g, Body
  <2> QED
    BY <1>1
<1> HIDE DEF flatten
<1>3. flatten[1] = seqs[1]
  BY <1>2
<1>4. flatten[2] = seqs[1] \o seqs[2]
  <2>1. Body(flatten)[2] = flatten[2 - 1] \o seqs[2]
    OBVIOUS
  <2> QED
    BY <1>2, <1>3, <2>1
<1>5. Len(seqs) # 0
  OBVIOUS
<1>6. M!FlattenSeq(seqs) = flatten[Len(seqs)]
  BY <1>5, Zenon DEF M!FlattenSeq, flatten
<1> QED
  BY <1>4, <1>6

LEMMA LoadIs ==
  ASSUME NEW a \in FileNames, NEW b \in FileNames
  PROVE  /\ M!Load(<<a, b>>) = M!LoadName(a) \o M!LoadName(b)
         /\ M!LoadName(a) \in Seq(Files) /\ M!LoadName(b) \in Seq(Files)
<1>1. \A c \in FileNames : M!LoadOne(c) \in Seq(Files)
  BY DEF M!LoadOne, Files, FileNames
<1>2. \A c \in FileNames : M!LoadName(c) \in Seq(Files)
  BY <1>1 DEF M!LoadName, FileNames
<1>3. [i \in DOMAIN <<a, b>> |-> M!LoadName(<<a, b>>[i])] = <<M!LoadName(a), M!LoadName(b)>>
  OBVIOUS
<1> QED
  BY <1>2, <1>3, FlattenTwo, Len(<<M!LoadName(a), M!LoadName(b)>>) = 2 DEF M!Load

\* What is read by the names of an environment: its own file is the last.
LEMMA ReadsOfEnv ==
  ASSUME NEW env \in Envs, NEW h
  PROVE  LET merged == M!ReadsTwice(env, M!NamesOf(env)) IN
         merged \in Seq(Files)
         /\ M!OfItsEnv([host |-> h, env |-> env, read |-> merged, closed |-> FALSE])
<1> DEFINE one == M!LoadName("module") \o M!LoadName(env)
           two == M!LoadName("module.default") \o M!LoadName(env)
           merged == one \o two
           own == M!LoadOne(env)
<1>1. M!ReadsTwice(env, M!NamesOf(env)) = merged
  BY LoadIs DEF M!ReadsTwice, M!NamesOf, FileNames
<1>2. M!LoadName("module") \in Seq(Files) /\ M!LoadName("module.default") \in Seq(Files)
      /\ M!LoadName(env) \in Seq(Files)
  BY LoadIs DEF FileNames
<1>3. env \notin {"module", "module.default"}
  BY InstancesAssumption DEF M!ModuleConfigAssumption
<1>4. M!LoadName(env) = own /\ (own # <<>> => Len(own) = 1)
  BY <1>3 DEF M!LoadName, M!LoadOne
<1>5. \A c \in FileNames : \A i \in 1 .. Len(M!LoadName(c)) :
        M!LoadName(c)[i][1] \in {c} \cup {"module", "module.default"}
  BY DEF M!LoadName, M!LoadOne
<1> DEFINE Own(f) == f[1] \in {env, "module", "module.default"}
<1>6. ASSUME NEW s \in Seq(Files), NEW t \in Seq(Files),
             \A i \in 1 .. Len(s) : Own(s[i]), \A i \in 1 .. Len(t) : Own(t[i])
      PROVE  s \o t \in Seq(Files) /\ \A i \in 1 .. Len(s \o t) : Own((s \o t)[i])
  <2>1. s \o t \in Seq(Files) /\ Len(s \o t) = Len(s) + Len(t)
    BY ConcatProperties
  <2>2. ASSUME NEW i \in 1 .. Len(s \o t) PROVE Own((s \o t)[i])
    <3>1. (s \o t)[i] = IF i <= Len(s) THEN s[i] ELSE t[i - Len(s)]
      BY <2>1, ConcatProperties
    <3>2. CASE i <= Len(s)
      BY <1>6, <2>1, <3>1, <3>2
    <3>3. CASE i > Len(s)
      <4>1. i - Len(s) \in 1 .. Len(t)
        BY <2>1, <3>3
      <4>2. Own(t[i - Len(s)])
        BY <1>6, <4>1
      <4> QED
        BY <2>1, <3>1, <3>3, <4>2
    <3> QED
      BY <2>1, <3>2, <3>3
  <2> QED
    BY <2>1, <2>2
<1>7. merged \in Seq(Files) /\ \A i \in 1 .. Len(merged) : Own(merged[i])
  <2>1. /\ \A i \in 1 .. Len(M!LoadName("module")) : Own(M!LoadName("module")[i])
        /\ \A i \in 1 .. Len(M!LoadName("module.default")) : Own(M!LoadName("module.default")[i])
        /\ \A i \in 1 .. Len(M!LoadName(env)) : Own(M!LoadName(env)[i])
    BY <1>5 DEF FileNames
  <2> HIDE DEF Own
  <2>2. one \in Seq(Files) /\ \A i \in 1 .. Len(one) : Own(one[i])
    BY <1>2, <1>6, <2>1
  <2>3. two \in Seq(Files) /\ \A i \in 1 .. Len(two) : Own(two[i])
    BY <1>2, <1>6, <2>1
  <2> QED
    BY <1>6, <2>2, <2>3
<1>8. own # <<>> => merged # <<>> /\ merged[Len(merged)] = own[1]
  <2> SUFFICES ASSUME own # <<>> PROVE merged # <<>> /\ merged[Len(merged)] = own[1]
    OBVIOUS
  <2> DEFINE n == Len(one)
             m == Len(M!LoadName("module.default"))
  <2>1. n \in Nat /\ m \in Nat /\ one \in Seq(Files) /\ two \in Seq(Files) /\ Len(two) = m + 1
        /\ two[m + 1] = own[1]
    <3>1. Len(M!LoadName(env)) = 1 /\ M!LoadName(env)[1] = own[1]
      BY <1>4
    <3>2. n \in Nat /\ m \in Nat /\ one \in Seq(Files) /\ two \in Seq(Files) /\ Len(two) = m + 1
      <4>1. one \in Seq(Files) /\ two \in Seq(Files) /\ Len(two) = m + Len(M!LoadName(env))
        BY <1>2, ConcatProperties
      <4> QED
        BY <1>2, <3>1, <4>1
    <3>3. two[m + 1] = M!LoadName(env)[m + 1 - m]
      BY <1>2, <3>1, <3>2, ConcatProperties
    <3> QED
      BY <3>1, <3>2, <3>3
  <2> HIDE DEF n, m
  <2>2. Len(merged) = n + (m + 1) /\ merged[n + (m + 1)] = two[m + 1]
    <3>1. Len(merged) = n + (m + 1) /\ n + (m + 1) \in 1 .. Len(merged)
      <4>1. Len(merged) = n + Len(two)
        BY <2>1, ConcatProperties DEF n
      <4> QED
        BY <2>1, <4>1
    <3>2. merged[n + (m + 1)] = two[n + (m + 1) - n]
      BY <2>1, <3>1, ConcatProperties DEF n
    <3> QED
      BY <2>1, <3>1, <3>2
  <2> QED
    BY <2>1, <2>2
<1>9. \A f \in M!Range(merged) : f[1] \notin Envs \ {env}
  <2>1. Envs \cap {"module", "module.default"} = {}
    BY InstancesAssumption DEF M!ModuleConfigAssumption
  <2> QED
    BY <1>7, <2>1 DEF M!Range
<1> HIDE DEF merged
<1> QED
  BY <1>1, <1>7, <1>8, <1>9 DEF M!OfItsEnv

LEMMA ReadsByNames ==
  ASSUME NEW env \in Envs PROVE M!Load(M!NamesNow(M!NamesOf(env))) \in Seq(Files)
<1>1. M!NamesNow(M!NamesOf(env)) = <<"module.default", env>>
  BY DEF M!NamesNow, M!NamesOf
<1> QED
  BY <1>1, LoadIs, ConcatProperties DEF FileNames

Apps == [host : {"egg", "standalone"}, env : Envs, read : Seq(Files), closed : BOOLEAN]
ConfigInv ==
  /\ configNames \in {<<>>} \cup {M!NamesOf(e) : e \in Envs}
  /\ apps \in Seq(Apps)
  /\ \A i \in 1 .. Len(apps) : apps[i].host = "egg" => M!OfItsEnv(apps[i])

LEMMA ConfigStep == ASSUME ConfigInv, M!Configuration PROVE ConfigInv'
<1> USE DEF ConfigInv
<1>a. files' = files
  BY DEF M!Configuration, M!EggClose, M!RunnerDestroy, M!Closes, M!EggBoot, M!Run
<1>b. \A a : M!OfItsEnv(a)' = M!OfItsEnv(a)
  BY <1>a DEF M!OfItsEnv, M!LoadOne
<1>c. ASSUME NEW h \in {"egg", "standalone"}, NEW env \in Envs, NEW merged \in Seq(Files),
             LET a == [host |-> h, env |-> env, read |-> merged, closed |-> FALSE] IN
               apps' = Append(apps, a) /\ (h = "egg" => M!OfItsEnv(a))
      PROVE  /\ apps' \in Seq(Apps)
             /\ \A i \in 1 .. Len(apps') : apps'[i].host = "egg" => M!OfItsEnv(apps'[i])
  <2> DEFINE a == [host |-> h, env |-> env, read |-> merged, closed |-> FALSE]
  <2>1. a \in Apps /\ a.host = h /\ apps' = Append(apps, a) /\ (h = "egg" => M!OfItsEnv(a))
    BY <1>c DEF Apps
  <2> HIDE DEF a
  <2>2. apps' \in Seq(Apps) /\ Len(apps') = Len(apps) + 1 /\ apps'[Len(apps) + 1] = a
        /\ \A i \in 1 .. Len(apps) : apps'[i] = apps[i]
    BY <2>1, AppendProperties
  <2> QED
    BY <2>1, <2>2
<1>1. ASSUME NEW h, M!Closes(h), configNames' \in {<<>>, configNames} PROVE ConfigInv'
  <2>1. PICK i \in DOMAIN apps : apps' = [apps EXCEPT ![i].closed = TRUE]
    BY <1>1 DEF M!Closes
  <2>2. \A j \in 1 .. Len(apps) : apps[j] \in Apps /\ i \in 1 .. Len(apps)
    OBVIOUS
  <2> DEFINE b == [apps[i] EXCEPT !.closed = TRUE]
  <2>a. b \in Apps /\ b.host = apps[i].host /\ b.env = apps[i].env /\ b.read = apps[i].read
    <3>1. apps[i] \in Apps
      BY <2>2
    <3> QED
      BY <3>1 DEF Apps
  <2>b. apps' = [apps EXCEPT ![i] = b]
    BY <2>1
  <2> HIDE DEF b
  <2>c. apps' \in Seq(Apps) /\ Len(apps') = Len(apps)
        /\ \A j \in 1 .. Len(apps) : apps'[j] = IF j = i THEN b ELSE apps[j]
    BY <2>2, <2>a, <2>b
  <2>3. \A j \in 1 .. Len(apps) :
          /\ apps'[j].host = apps[j].host
          /\ apps'[j].env = apps[j].env /\ apps'[j].read = apps[j].read
    BY <2>a, <2>c
  <2>5. \A j \in 1 .. Len(apps) : M!OfItsEnv(apps'[j]) <=> M!OfItsEnv(apps[j])
    BY <2>3, Zenon DEF M!OfItsEnv
  <2> QED
    BY <1>1, <1>b, <2>3, <2>5, <2>c
<1>2. ASSUME NEW env \in Envs, M!EggBoot(env) PROVE ConfigInv'
  <2> DEFINE merged == M!ReadsTwice(env, M!NamesOf(env))
  <2>1. configNames' = M!NamesOf(env) /\ apps' = Append(apps,
                     [host |-> "egg", env |-> env, read |-> merged, closed |-> FALSE])
    BY <1>2 DEF M!EggBoot, M!SetConfigNames
  <2>2. merged \in Seq(Files)
        /\ M!OfItsEnv([host |-> "egg", env |-> env, read |-> merged, closed |-> FALSE])
    BY ReadsOfEnv
  <2> HIDE DEF merged
  <2> QED
    BY <1>b, <1>c, <2>1, <2>2
<1>3. ASSUME NEW env \in Envs, M!Run(env) PROVE ConfigInv'
  <2>1. configNames' \in {M!NamesOf(e) : e \in Envs}
    BY <1>3 DEF M!Run
  <2> DEFINE merged == M!Load(M!NamesNow(configNames'))
  <2>2. merged \in Seq(Files)
    BY <2>1, ReadsByNames
  <2>3. apps' = Append(apps,
                     [host |-> "standalone", env |-> env, read |-> merged, closed |-> FALSE])
    BY <1>3 DEF M!Run
  <2> HIDE DEF merged
  <2> QED
    BY <1>b, <1>c, <2>1, <2>2, <2>3
<1> QED
  BY <1>1, <1>2, <1>3 DEF M!Configuration, M!EggClose, M!RunnerDestroy

\* Whatever directories, names and links an application and its framework have, and in
\* whatever order applications and runners start and end in one process: each module is there
\* once, by path and by name, or the application is told; and an egg application has the
\* configuration of its own environment.
THEOREM ModulesWhole == MCSpec => []ModulesAreWhole
<1>1. MCInit => ModulesInv /\ ConfigInv
  BY ModulesInit DEF MCInit, M!Init, ConfigInv
<1>2. ModulesInv /\ ConfigInv /\ [MCNext]_<<part, vars, bootVars, moduleVars, eggVars, classVars>>
        => (ModulesInv /\ ConfigInv)'
  <2> SUFFICES ASSUME ModulesInv, ConfigInv,
                      [MCNext]_<<part, vars, bootVars, moduleVars, eggVars, classVars>>
               PROVE  (ModulesInv /\ ConfigInv)'
    OBVIOUS
  <2>1. CASE M!References
    <3>1. ModulesInv'
      BY <2>1, AllRead, Deduplicated DEF M!References
    <3>2. UNCHANGED <<files, configNames, apps>>
      BY <2>1 DEF M!References, M!ReadAll, M!Deduplicate, M!configVars
    <3>3. ConfigInv'
      BY <3>2 DEF ConfigInv, M!OfItsEnv, M!LoadOne
    <3> QED
      BY <3>1, <3>3
  <2>2. CASE M!Configuration
    <3>1. UNCHANGED <<tree, listings, refs, next, moduleMap, nameMap, error>>
      BY <2>2 DEF M!Configuration, M!EggClose, M!RunnerDestroy, M!Closes, M!EggBoot, M!Run, M!refVars
    <3>2. ModulesInv'
      BY <3>1, ModulesFrame
    <3> QED
      BY <2>2, <3>2, ConfigStep
  <2>3. CASE UNCHANGED moduleVars
    <3>1. ModulesInv'
      BY <2>3, ModulesFrame DEF moduleVars
    <3>2. ConfigInv'
      BY <2>3 DEF moduleVars, ConfigInv, M!OfItsEnv, M!LoadOne
    <3> QED
      BY <3>1, <3>2
  <2> QED
    BY <2>1, <2>2, <2>3 DEF MCNext, moduleVars
<1>3. ModulesInv /\ ConfigInv => ModulesAreWhole
  <2> SUFFICES ASSUME ModulesInv, ConfigInv PROVE ModulesAreWhole
    OBVIOUS
  <2>1. M!ModulesAreUnique
    BY DEF M!ModulesAreUnique, ModulesInv, MapsInv, Seen
  <2>2. M!EggConfigIsOfItsEnv
    BY DEF M!EggConfigIsOfItsEnv, ConfigInv, M!Range
  <2> QED
    BY <2>1, <2>2 DEF ModulesAreWhole
<1> QED
  BY <1>1, <1>2, <1>3, PTL DEF MCSpec

-----------------------------------------------------------------------------
(* The two searches of a graph: what is accessed, when there is no loop *)

\* Induction over 0 .. n.
LEMMA Climb ==
  ASSUME NEW n \in Nat, NEW S, 0 \in S, \A i \in 1 .. n : i - 1 \in S => i \in S
  PROVE  0 .. n \subseteq S
<1> DEFINE T == {i \in 0 .. n : i \notin S}
<1> SUFFICES ASSUME T # {} PROVE FALSE
  OBVIOUS
<1>1. T \in SUBSET Nat
  OBVIOUS
<1>2. PICK m \in T : \A k \in T : m <= k
  BY <1>1, LeastOf
<1>3. m \in 1 .. n
  BY <1>2
<1>4. m - 1 \notin T /\ m - 1 \in 0 .. n
  BY <1>2, <1>3
<1> QED
  BY <1>2, <1>3, <1>4

\* A graph of finitely many nodes.
GraphOf(D, graph) == IsFiniteSet(D) /\ graph \in [D -> Seq(D)]

\* Each node once, after all it points to.
Once(s) == \A i, j \in DOMAIN s : s[i] = s[j] => i = j
Sorted(graph, s) ==
  /\ s \in Seq(DOMAIN graph) /\ Once(s)
  /\ \A j \in DOMAIN s : \A to \in Range(graph[s[j]]) : \E i \in DOMAIN s : i < j /\ s[i] = to

\* What an access of some nodes makes of t, when those of the path are under way.
Accessed(graph, r, t, nodes, path) ==
  /\ Sorted(graph, r) /\ Range(t) \cup nodes \subseteq Range(r)
  /\ Range(r) \cap path \subseteq Range(t)

Accesses(D) == [Seq(D) -> [D -> Seq(D)]]

\* The results of visits of one node after the other.
Visits(v, f, res, nodes) ==
  /\ v[0] = res /\ \A i \in 1 .. Len(nodes) : v[i] = f[v[i - 1]][nodes[i]]
  /\ Visit(f, res, nodes) = v[Len(nodes)]

LEMMA VisitIs ==
  ASSUME NEW D, NEW f \in Accesses(D), NEW res \in Seq(D), NEW nodes \in Seq(D)
  PROVE  \E v \in [0 .. Len(nodes) -> Seq(D)] : Visits(v, f, res, nodes)
<1> DEFINE n == Len(nodes)
           After(i, t) == f[t][nodes[i]]
           Body(v) == [i \in 0 .. n |-> IF i = 0 THEN res ELSE After(i, v[i - 1])]
           visited == CHOOSE v : v = Body(v)
           G == [i \in 1 .. n |-> [t \in Seq(D) |-> After(i, t)]]
           S == {i \in 0 .. n : visited[i] \in Seq(D)}
<1>1. n \in Nat /\ \A i \in 1 .. n : nodes[i] \in D
  OBVIOUS
<1>2. \A i \in 1 .. n, t \in Seq(D) : After(i, t) \in Seq(D)
  BY <1>1 DEF Accesses
<1> HIDE DEF After
<1>3. visited = Body(visited)
  <2>1. G \in [1 .. n -> [Seq(D) -> Seq(D)]]
    BY <1>2
  <2> HIDE DEF n, G
  <2>2. Computed(n, Seq(D), res, G)
    BY <1>1, <2>1, Recursion
  <2>3. PICK v \in [0 .. n -> Seq(D)] : v[0] = res /\ \A i \in 1 .. n : v[i] = G[i][v[i - 1]]
    BY <2>2 DEF Computed, Computes
  <2>4. \A i \in 1 .. n : v[i - 1] \in Seq(D)
    BY <1>1, <2>3
  <2>5. \A i \in 1 .. n : v[i] = After(i, v[i - 1])
    BY <1>1, <2>3, <2>4 DEF G
  <2>6. v = Body(v)
    BY <1>1, <2>3, <2>5
  <2> QED
    BY <2>6
<1> HIDE DEF visited, n
<1>4. visited[0] = res /\ \A i \in 1 .. n : visited[i] = After(i, visited[i - 1])
  BY <1>1, <1>3
<1>5. 0 .. n \subseteq S
  <2>1. 0 \in S
    BY <1>1, <1>4
  <2>2. \A i \in 1 .. n : i - 1 \in S => i \in S
    BY <1>1, <1>2, <1>4
  <2> HIDE DEF S
  <2> QED
    BY <1>1, <2>1, <2>2, Climb
<1>6. visited \in [0 .. n -> Seq(D)]
  BY <1>3, <1>5
<1>7. Visit(f, res, nodes) = visited[n]
  BY DEF Visit, visited, n, After
<1> QED
  BY <1>4, <1>6, <1>7 DEF Visits, n, After

\* The nodes of a sequence, accessed one after the other.
LEMMA VisitSorts ==
  ASSUME NEW D, NEW graph, GraphOf(D, graph), NEW f \in Accesses(D), NEW res \in Seq(D),
         NEW nodes \in Seq(D), NEW path \in SUBSET D, Sorted(graph, res),
         \A t \in Seq(D), i \in 1 .. Len(nodes) :
           Sorted(graph, t) => Accessed(graph, f[t][nodes[i]], t, {nodes[i]}, path)
  PROVE  Accessed(graph, Visit(f, res, nodes), res, Range(nodes), path)
<1> DEFINE n == Len(nodes)
           Had(i) == {nodes[j] : j \in 1 .. i}
<1>1. PICK v \in [0 .. n -> Seq(D)] : Visits(v, f, res, nodes)
  BY VisitIs
<1> DEFINE S == {i \in 0 .. n : Accessed(graph, v[i], res, Had(i), path)}
<1>2. /\ n \in Nat /\ v[0] = res /\ \A i \in 1 .. n : v[i] = f[v[i - 1]][nodes[i]]
      /\ Visit(f, res, nodes) = v[n]
  BY <1>1 DEF Visits
<1>3. /\ Had(0) = {} /\ Had(n) = Range(nodes)
      /\ \A i \in 1 .. n : Had(i) = Had(i - 1) \cup {nodes[i]}
  <2>1. Had(0) = {} /\ Had(n) = Range(nodes)
    BY DEF Range
  <2>2. ASSUME NEW i \in 1 .. n PROVE Had(i) = Had(i - 1) \cup {nodes[i]}
    <3>1. 1 .. i = (1 .. i - 1) \cup {i}
      OBVIOUS
    <3> QED
      BY <3>1
  <2> QED
    BY <2>1, <2>2
<1> HIDE DEF n, Had
<1>4. 0 \in S
  BY <1>2, <1>3 DEF Accessed
<1>5. ASSUME NEW i \in 1 .. n, i - 1 \in S PROVE i \in S
  <2>1. Accessed(graph, v[i - 1], res, Had(i - 1), path) /\ v[i - 1] \in Seq(D)
    BY <1>1, <1>2, <1>5
  <2>2. Accessed(graph, v[i], v[i - 1], {nodes[i]}, path)
    <3>1. Sorted(graph, v[i - 1]) /\ v[i] = f[v[i - 1]][nodes[i]]
      BY <1>2, <2>1 DEF Accessed
    <3>2. i \in 1 .. Len(nodes)
      BY DEF n
    <3> QED
      BY <2>1, <3>1, <3>2
  <2>3. Accessed(graph, v[i], res, Had(i), path)
    BY <1>3, <2>1, <2>2 DEF Accessed
  <2> QED
    BY <1>2, <2>3
<1>6. n \in S
  <2> HIDE DEF S
  <2>1. 0 .. n \subseteq S
    BY <1>2, <1>4, <1>5, Climb
  <2> QED
    BY <1>2, <2>1
<1> QED
  BY <1>2, <1>3, <1>6

\* What accessNode is, at a depth, from what it is one deeper; and the loops likewise.
NextAccess(graph, f, res, node) ==
  IF Contains(res, node) THEN res ELSE Append(Visit(f, res, graph[node]), node)
NextLoops(graph, f, node, path) ==
  node \in path \/ \E to \in Range(graph[node]) : f[to][path \cup {node}]
AccessDepths(graph, f) ==
  /\ AccessNode(graph) = f[Depth(graph)]
  /\ \A n \in 1 .. Depth(graph) : \A res \in Seq(DOMAIN graph), node \in DOMAIN graph :
       f[n][res][node] = NextAccess(graph, f[n - 1], res, node)
LoopDepths(graph, f) ==
  /\ HasLoop(graph) = \E node \in DOMAIN graph : f[Depth(graph)][node][{}]
  /\ \A node \in DOMAIN graph, path \in SUBSET DOMAIN graph : f[0][node][path] = (node \in path)
  /\ \A n \in 1 .. Depth(graph) : \A node \in DOMAIN graph, path \in SUBSET DOMAIN graph :
       f[n][node][path] = NextLoops(graph, f[n - 1], node, path)

LEMMA AccessIs ==
  ASSUME NEW D, NEW graph, GraphOf(D, graph)
  PROVE  \E f \in [0 .. Depth(graph) -> Accesses(D)] : AccessDepths(graph, f)
<1> DEFINE d == Depth(graph)
           Level(n, f) == [res \in Seq(D) |-> [node \in D |->
                           IF n = 0 \/ Contains(res, node) THEN res
                           ELSE Append(Visit(f, res, graph[node]), node)]]
           Body(f) == [n \in 0 .. d |-> Level(n, f[n - 1])]
           access == CHOOSE f : f = Body(f)
           x0 == [res \in Seq(D) |-> [node \in D |-> res]]
           G == [n \in 1 .. d |-> [f \in Accesses(D) |-> Level(n, f)]]
           S == {n \in 0 .. d : access[n] \in Accesses(D)}
<1>1. d \in Nat /\ DOMAIN graph = D /\ graph \in [D -> Seq(D)]
  BY FS_CardinalityType DEF GraphOf, Depth
<1>2. \A n \in 1 .. d, f \in Accesses(D) : Level(n, f) \in Accesses(D)
  <2> TAKE n \in 1 .. d, f \in Accesses(D)
  <2>1. ASSUME NEW res \in Seq(D), NEW node \in D
        PROVE  Append(Visit(f, res, graph[node]), node) \in Seq(D)
    <3>1. graph[node] \in Seq(D) /\ Len(graph[node]) \in Nat
      BY <1>1
    <3>2. PICK v \in [0 .. Len(graph[node]) -> Seq(D)] : Visits(v, f, res, graph[node])
      BY <3>1, VisitIs
    <3>3. Visit(f, res, graph[node]) \in Seq(D)
      BY <3>1, <3>2 DEF Visits
    <3> QED
      BY <3>3, AppendProperties
  <2> QED
    BY <2>1 DEF Accesses
<1>3. x0 \in Accesses(D) /\ \A f : Level(0, f) = x0
  BY DEF Accesses
<1> HIDE DEF Level, x0, d
<1>4. access = Body(access)
  <2>1. G \in [1 .. d -> [Accesses(D) -> Accesses(D)]]
    BY <1>2
  <2> HIDE DEF G
  <2>2. Computed(d, Accesses(D), x0, G)
    BY <1>1, <1>3, <2>1, Recursion
  <2>3. PICK f \in [0 .. d -> Accesses(D)] : f[0] = x0 /\ \A n \in 1 .. d : f[n] = G[n][f[n - 1]]
    BY <2>2 DEF Computed, Computes
  <2>4. \A n \in 1 .. d : f[n - 1] \in Accesses(D)
    BY <1>1, <2>3
  <2>5. \A n \in 1 .. d : f[n] = Level(n, f[n - 1])
    BY <1>1, <2>3, <2>4 DEF G
  <2>6. \A n \in 0 .. d : f[n] = Level(n, f[n - 1])
    BY <1>1, <1>3, <2>3, <2>5
  <2>7. f = Body(f)
    BY <2>3, <2>6
  <2> QED
    BY <2>7
<1> HIDE DEF access
<1>5. access[0] = x0 /\ \A n \in 1 .. d : access[n] = Level(n, access[n - 1])
  BY <1>1, <1>3, <1>4
<1>6. 0 .. d \subseteq S
  <2>1. 0 \in S
    BY <1>1, <1>3, <1>5
  <2>2. \A n \in 1 .. d : n - 1 \in S => n \in S
    BY <1>1, <1>2, <1>5
  <2> HIDE DEF S
  <2> QED
    BY <1>1, <2>1, <2>2, Climb
<1>7. access \in [0 .. d -> Accesses(D)]
  BY <1>4, <1>6
<1>8. AccessNode(graph) = access[d]
  BY <1>1 DEF AccessNode, access, Level, d
<1>9. ASSUME NEW n \in 1 .. d, NEW res \in Seq(D), NEW node \in D
      PROVE  access[n][res][node] = NextAccess(graph, access[n - 1], res, node)
  <2>1. n # 0 /\ access[n] = Level(n, access[n - 1])
    BY <1>1, <1>5
  <2>2. Level(n, access[n - 1])[res][node] = NextAccess(graph, access[n - 1], res, node)
    BY <2>1, Zenon DEF Level, NextAccess
  <2> QED
    BY <2>1, <2>2
<1> QED
  BY <1>1, <1>7, <1>8, <1>9 DEF AccessDepths, d

LEMMA LoopsAre ==
  ASSUME NEW D, NEW graph, GraphOf(D, graph)
  PROVE  \E f \in [0 .. Depth(graph) -> [D -> [SUBSET D -> BOOLEAN]]] : LoopDepths(graph, f)
<1> DEFINE d == Depth(graph)
           X == [D -> [SUBSET D -> BOOLEAN]]
           Level(n, f) == [node \in D |-> [path \in SUBSET D |->
                           \/ node \in path
                           \/ n > 0 /\ \E to \in Range(graph[node]) : f[to][path \cup {node}]]]
           Body(f) == [n \in 0 .. d |-> Level(n, f[n - 1])]
           loops == CHOOSE f : f = Body(f)
           x0 == [node \in D |-> [path \in SUBSET D |-> node \in path]]
           G == [n \in 1 .. d |-> [f \in X |-> Level(n, f)]]
           S == {n \in 0 .. d : loops[n] \in X}
<1>1. d \in Nat /\ DOMAIN graph = D /\ graph \in [D -> Seq(D)]
  BY FS_CardinalityType DEF GraphOf, Depth
<1>2. \A n, f : Level(n, f) \in X
  OBVIOUS
<1>3. x0 \in X /\ \A f : Level(0, f) = x0
  <2>1. x0 \in X
    OBVIOUS
  <2>2. ASSUME NEW f PROVE Level(0, f) = x0
    <3>1. ~(0 > 0)
      OBVIOUS
    <3>2. ASSUME NEW node \in D, NEW path \in SUBSET D
          PROVE  Level(0, f)[node][path] <=> x0[node][path]
      BY <3>1, Zenon
    <3>3. Level(0, f) \in X
      BY <1>2
    <3> HIDE DEF Level, x0
    <3> QED
      BY <2>1, <3>2, <3>3
  <2> QED
    BY <2>1, <2>2
<1> HIDE DEF Level, x0, d, X
<1>4. loops = Body(loops)
  <2>1. G \in [1 .. d -> [X -> X]]
    BY <1>2
  <2> HIDE DEF G
  <2>2. Computed(d, X, x0, G)
    BY <1>1, <1>3, <2>1, Recursion
  <2>3. PICK f \in [0 .. d -> X] : f[0] = x0 /\ \A n \in 1 .. d : f[n] = G[n][f[n - 1]]
    BY <2>2 DEF Computed, Computes
  <2>4. \A n \in 1 .. d : f[n - 1] \in X
    BY <1>1, <2>3
  <2>5. \A n \in 1 .. d : f[n] = Level(n, f[n - 1])
    BY <1>1, <2>3, <2>4 DEF G
  <2>6. \A n \in 0 .. d : f[n] = Level(n, f[n - 1])
    BY <1>1, <1>3, <2>3, <2>5
  <2>7. f = Body(f)
    BY <2>3, <2>6
  <2> QED
    BY <2>7
<1> HIDE DEF loops
<1>5. loops[0] = x0 /\ \A n \in 1 .. d : loops[n] = Level(n, loops[n - 1])
  BY <1>1, <1>3, <1>4
<1>6. loops \in [0 .. d -> X]
  BY <1>1, <1>2, <1>4
<1>7. HasLoop(graph) = \E node \in D : loops[d][node][{}]
  BY <1>1, ZenonT(40) DEF HasLoop, loops, Level, d
<1>8. ASSUME NEW n \in 1 .. d, NEW node \in D, NEW path \in SUBSET D
      PROVE  loops[n][node][path] = NextLoops(graph, loops[n - 1], node, path)
  <2>1. n > 0 /\ loops[n][node] = Level(n, loops[n - 1])[node]
    BY <1>5
  <2>2. Level(n, loops[n - 1])[node][path] = NextLoops(graph, loops[n - 1], node, path)
    BY <2>1, Zenon DEF Level, NextLoops
  <2> QED
    BY <2>1, <2>2
<1>9. \A node \in D, path \in SUBSET D : loops[0][node][path] = (node \in path)
  <2>1. loops[0] = x0
    BY <1>5
  <2> TAKE node \in D, path \in SUBSET D
  <2>2. x0[node] = [p \in SUBSET D |-> node \in p]
    BY DEF x0
  <2>3. x0[node][path] = (node \in path)
    BY <2>2, Zenon
  <2> QED
    BY <2>1, <2>3
<1> QED
  <2>1. LoopDepths(graph, loops)
    BY <1>1, <1>7, <1>8, <1>9, Zenon DEF LoopDepths, d
  <2> QED
    BY <1>6, <2>1 DEF d, X

LEMMA AppendSorts ==
  ASSUME NEW D, NEW graph, GraphOf(D, graph), NEW s, Sorted(graph, s), NEW node \in D,
         node \notin Range(s), Range(graph[node]) \subseteq Range(s)
  PROVE  Sorted(graph, Append(s, node)) /\ Range(Append(s, node)) = Range(s) \cup {node}
<1> DEFINE t == Append(s, node)
           n == Len(s)
<1>1. DOMAIN graph = D /\ s \in Seq(D) /\ n \in Nat /\ DOMAIN s = 1 .. n
  BY DEF GraphOf, Sorted
<1>2. /\ t \in Seq(D) /\ Len(t) = n + 1 /\ DOMAIN t = 1 .. n + 1 /\ t[n + 1] = node
      /\ \A i \in 1 .. n : t[i] = s[i]
  BY <1>1, AppendProperties
<1>3. \A i \in 1 .. n + 1 : i \in 1 .. n \/ i = n + 1
  BY <1>1
<1> HIDE DEF t, n
<1>4. Range(t) = Range(s) \cup {node}
  <2>1. Range(t) = {t[i] : i \in 1 .. n + 1} /\ Range(s) = {s[i] : i \in 1 .. n}
    BY <1>1, <1>2 DEF Range
  <2>2. n + 1 \in 1 .. n + 1 /\ 1 .. n \subseteq 1 .. n + 1
    BY <1>1
  <2> QED
    BY <1>2, <1>3, <2>1, <2>2
<1>5. \A i \in 1 .. n : s[i] # node
  BY <1>1 DEF Range
<1>6. Once(t)
  <2>1. \A i, j \in 1 .. n : s[i] = s[j] => i = j
    BY <1>1 DEF Sorted, Once
  <2> QED
    BY <1>2, <1>3, <1>5, <2>1 DEF Once
<1>7. ASSUME NEW j \in DOMAIN t, NEW to \in Range(graph[t[j]])
      PROVE  \E i \in DOMAIN t : i < j /\ t[i] = to
  <2>1. CASE j = n + 1
    <3>1. PICK i \in 1 .. n : s[i] = to
      BY <1>1, <1>2, <1>7, <2>1 DEF Range
    <3> QED
      BY <1>1, <1>2, <2>1, <3>1
  <2>2. CASE j \in 1 .. n
    <3>1. PICK i \in DOMAIN s : i < j /\ s[i] = to
      BY <1>1, <1>2, <1>7, <2>2 DEF Sorted
    <3> QED
      BY <1>1, <1>2, <3>1
  <2> QED
    BY <1>2, <1>3, <2>1, <2>2
<1> QED
  BY <1>1, <1>2, <1>4, <1>6, <1>7 DEF Sorted, t

\* A path that has all the nodes has the one at its end; so what has no loop is sorted
\* within that depth.
LEMMA NodeSorts ==
  ASSUME NEW D, NEW graph, GraphOf(D, graph), NEW f \in [0 .. Depth(graph) -> Accesses(D)],
         AccessDepths(graph, f), NEW l, LoopDepths(graph, l)
  PROVE  \A n \in 0 .. Depth(graph) : \A node \in D, path \in SUBSET D, res \in Seq(D) :
           Cardinality(path) + n = Depth(graph) /\ ~l[n][node][path] /\ Sorted(graph, res)
             => Accessed(graph, f[n][res][node], res, {node}, path)
<1> DEFINE d == Depth(graph)
           Good(n) == \A node \in D, path \in SUBSET D, res \in Seq(D) :
             Cardinality(path) + n = d /\ ~l[n][node][path] /\ Sorted(graph, res)
               => Accessed(graph, f[n][res][node], res, {node}, path)
           S == {n \in 0 .. d : Good(n)}
<1>1. d \in Nat /\ d = Cardinality(D) /\ DOMAIN graph = D /\ graph \in [D -> Seq(D)] /\ IsFiniteSet(D)
  BY FS_CardinalityType DEF GraphOf, Depth
<1>2. \A path \in SUBSET D : IsFiniteSet(path) /\ Cardinality(path) \in Nat
  BY <1>1, FS_Subset, FS_CardinalityType
<1>a. /\ f \in [0 .. d -> Accesses(D)]
      /\ \A n \in 1 .. d : \A res \in Seq(D), node \in D :
           f[n][res][node] = NextAccess(graph, f[n - 1], res, node)
  BY <1>1 DEF AccessDepths
<1>b. /\ \A node \in D, path \in SUBSET D : l[0][node][path] = (node \in path)
      /\ \A n \in 1 .. d : \A node \in D, path \in SUBSET D :
           l[n][node][path] = NextLoops(graph, l[n - 1], node, path)
  BY <1>1 DEF LoopDepths
<1> HIDE DEF d
<1>3. Good(0)
  <2> SUFFICES ASSUME NEW node \in D, NEW path \in SUBSET D, Cardinality(path) = d
               PROVE  l[0][node][path]
    BY <1>2
  <2>1. path = D
    BY <1>1, FS_Subset
  <2> QED
    BY <1>1, <1>b, <2>1
<1>4. ASSUME NEW n \in 1 .. d, Good(n - 1) PROVE Good(n)
  <2> SUFFICES ASSUME NEW node \in D, NEW path \in SUBSET D, NEW res \in Seq(D),
                      Cardinality(path) + n = d, ~l[n][node][path], Sorted(graph, res)
               PROVE  Accessed(graph, f[n][res][node], res, {node}, path)
    OBVIOUS
  <2> DEFINE r == Visit(f[n - 1], res, graph[node])
             more == path \cup {node}
  <2>1. ~NextLoops(graph, l[n - 1], node, path)
    BY <1>b
  <2>2. f[n][res][node] = NextAccess(graph, f[n - 1], res, node)
    BY <1>a
  <2>3. CASE Contains(res, node)
    <3>1. f[n][res][node] = res
      BY <2>2, <2>3 DEF NextAccess
    <3>2. node \in Range(res)
      BY <2>3 DEF Contains, Range
    <3> QED
      BY <3>1, <3>2 DEF Accessed
  <2>4. CASE ~Contains(res, node)
    <3>1. node \notin path /\ \A to \in Range(graph[node]) : ~l[n - 1][to][more]
      BY <2>1 DEF NextLoops
    <3>2. more \in SUBSET D /\ Cardinality(more) + (n - 1) = d
      <4>1. Cardinality(more) = Cardinality(path) + 1
        BY <1>2, <3>1, FS_AddElement
      <4>2. Cardinality(path) \in Nat /\ n \in Nat /\ d \in Nat
        BY <1>1, <1>2
      <4>3. more \in SUBSET D
        OBVIOUS
      <4> HIDE DEF more
      <4> QED
        BY <4>1, <4>2, <4>3
    <3>3. /\ f[n - 1] \in Accesses(D) /\ graph[node] \in Seq(D) /\ DOMAIN graph[node] = 1 .. Len(graph[node])
          /\ \A i \in 1 .. Len(graph[node]) : graph[node][i] \in D /\ graph[node][i] \in Range(graph[node])
      <4>1. graph[node] \in Seq(D)
        BY <1>1
      <4>2. f[n - 1] \in Accesses(D)
        <5>1. n - 1 \in 0 .. d
          BY <1>1
        <5> QED
          BY <1>a, <5>1
      <4> QED
        BY <4>1, <4>2 DEF Range
    <3>4. Accessed(graph, r, res, Range(graph[node]), more)
      <4>1. ASSUME NEW t \in Seq(D), NEW i \in 1 .. Len(graph[node]), Sorted(graph, t)
            PROVE  Accessed(graph, f[n - 1][t][graph[node][i]], t, {graph[node][i]}, more)
        BY <1>4, <3>1, <3>2, <3>3, <4>1
      <4> QED
        BY <3>2, <3>3, <4>1, VisitSorts
    <3>5. node \notin Range(res)
      BY <2>4 DEF Contains, Range
    <3>6. Sorted(graph, r) /\ node \notin Range(r) /\ Range(graph[node]) \subseteq Range(r)
      BY <3>4, <3>5 DEF Accessed
    <3>7. Sorted(graph, Append(r, node)) /\ Range(Append(r, node)) = Range(r) \cup {node}
      BY <3>6, AppendSorts
    <3>8. f[n][res][node] = Append(r, node)
      BY <2>2, <2>4 DEF NextAccess
    <3> HIDE DEF r
    <3> QED
      BY <3>1, <3>4, <3>7, <3>8 DEF Accessed
  <2> QED
    BY <2>3, <2>4
<1>5. 0 .. d \subseteq S
  <2> HIDE DEF Good
  <2>1. 0 \in S
    BY <1>1, <1>3
  <2>2. \A n \in 1 .. d : n - 1 \in S => n \in S
    BY <1>1, <1>4
  <2> HIDE DEF S
  <2> QED
    BY <1>1, <2>1, <2>2, Climb
<1> QED
  BY <1>5 DEF d

LEMMA SortSorts ==
  ASSUME NEW D, NEW graph, GraphOf(D, graph), ~HasLoop(graph), NEW nodes \in Seq(D)
  PROVE  Sorted(graph, Sort(graph, nodes)) /\ Range(nodes) \subseteq Range(Sort(graph, nodes))
<1> DEFINE d == Depth(graph)
<1>1. d \in Nat /\ d = Cardinality(D) /\ DOMAIN graph = D
  BY FS_CardinalityType DEF GraphOf, Depth
<1>2. PICK f \in [0 .. d -> Accesses(D)] : AccessDepths(graph, f)
  BY AccessIs
<1>3. PICK l : LoopDepths(graph, l)
  BY LoopsAre
<1>4. /\ f[d] \in Accesses(D) /\ AccessNode(graph) = f[d]
      /\ \A node \in D : ~l[d][node][{}]
  BY <1>1, <1>2, <1>3 DEF AccessDepths, LoopDepths
<1>5. Cardinality({}) + d = d
  BY <1>1, FS_EmptySet
<1>6. \A t \in Seq(D), i \in 1 .. Len(nodes) :
        Sorted(graph, t) => Accessed(graph, f[d][t][nodes[i]], t, {nodes[i]}, {})
  <2> TAKE t \in Seq(D), i \in 1 .. Len(nodes)
  <2>1. nodes[i] \in D /\ d \in 0 .. d
    BY <1>1
  <2> QED
    BY <1>2, <1>3, <1>4, <1>5, <2>1, NodeSorts
<1>7. Sorted(graph, <<>>) /\ <<>> \in Seq(D)
  BY <1>1 DEF Sorted, Once
<1>8. Accessed(graph, Visit(f[d], <<>>, nodes), <<>>, Range(nodes), {})
  BY <1>4, <1>6, <1>7, VisitSorts
<1> QED
  BY <1>4, <1>8 DEF Accessed, Sort

-----------------------------------------------------------------------------
(* Sequences that are sorted: parts of them, and one after the other *)

Precedes(s, x, y) == \E i, j \in DOMAIN s : i < j /\ s[i] = x /\ s[j] = y

LEMMA AppendOnce ==
  ASSUME NEW D, NEW s \in Seq(D), Once(s), NEW e \in D, e \notin Range(s)
  PROVE  /\ Append(s, e) \in Seq(D) /\ Once(Append(s, e)) /\ Range(Append(s, e)) = Range(s) \cup {e}
         /\ \A x, y : Precedes(s, x, y) => Precedes(Append(s, e), x, y)
         /\ \A x \in Range(s) : Precedes(Append(s, e), x, e)
<1> DEFINE t == Append(s, e)
           n == Len(s)
<1>1. n \in Nat /\ DOMAIN s = 1 .. n
  OBVIOUS
<1>2. /\ t \in Seq(D) /\ DOMAIN t = 1 .. n + 1 /\ t[n + 1] = e /\ \A i \in 1 .. n : t[i] = s[i]
  BY <1>1, AppendProperties
<1>3. /\ \A i \in 1 .. n + 1 : i \in 1 .. n \/ i = n + 1
      /\ n + 1 \in 1 .. n + 1 /\ \A i \in 1 .. n : i \in 1 .. n + 1 /\ i < n + 1
  BY <1>1
<1> HIDE DEF t, n
<1>4. \A i \in 1 .. n : s[i] # e
  BY <1>1 DEF Range
<1>5. Once(t)
  <2>1. \A i, j \in 1 .. n : s[i] = s[j] => i = j
    BY <1>1 DEF Once
  <2> QED
    BY <1>2, <1>3, <1>4, <2>1 DEF Once
<1>6. Range(t) = Range(s) \cup {e}
  <2>1. Range(t) = {t[i] : i \in 1 .. n + 1} /\ Range(s) = {s[i] : i \in 1 .. n}
    BY <1>1, <1>2 DEF Range
  <2> QED
    BY <1>2, <1>3, <2>1
<1>7. \A x, y : Precedes(s, x, y) => Precedes(t, x, y)
  BY <1>1, <1>2, <1>3 DEF Precedes
<1>8. ASSUME NEW x \in Range(s) PROVE Precedes(t, x, e)
  <2>1. PICK i \in 1 .. n : s[i] = x
    BY <1>1 DEF Range
  <2> QED
    BY <1>2, <1>3, <2>1 DEF Precedes
<1> QED
  BY <1>2, <1>5, <1>6, <1>7, <1>8 DEF t

\* What is within a set, of a sequence that has each element once.
LEMMA WithinIs ==
  ASSUME NEW D, NEW s \in Seq(D), Once(s), NEW S
  PROVE  /\ Within(s, S) \in Seq(D) /\ Once(Within(s, S)) /\ Range(Within(s, S)) = Range(s) \cap S
         /\ \A x, y \in S : Precedes(s, x, y) => Precedes(Within(s, S), x, y)
<1> DEFINE n == Len(s)
           Kept(i, t) == IF s[i] \in S THEN Append(t, s[i]) ELSE t
           Body(f) == [i \in 0 .. n |-> IF i = 0 THEN <<>> ELSE Kept(i, f[i - 1])]
           kept == CHOOSE f : f = Body(f)
           G == [i \in 1 .. n |-> [t \in Seq(D) |-> Kept(i, t)]]
           Had(i) == {s[j] : j \in 1 .. i}
           Part(i, t) ==
             /\ t \in Seq(D) /\ Once(t) /\ Range(t) = Had(i) \cap S
             /\ \A j, k \in 1 .. i : j < k /\ s[j] \in S /\ s[k] \in S => Precedes(t, s[j], s[k])
           T == {i \in 0 .. n : Part(i, kept[i])}
<1>1. n \in Nat /\ DOMAIN s = 1 .. n /\ \A i \in 1 .. n : s[i] \in D
  OBVIOUS
<1>2. \A i \in 1 .. n, t \in Seq(D) : Kept(i, t) \in Seq(D)
  BY <1>1, AppendProperties
<1> HIDE DEF Kept
<1>3. kept = Body(kept)
  <2>1. G \in [1 .. n -> [Seq(D) -> Seq(D)]]
    BY <1>1, <1>2
  <2>2. <<>> \in Seq(D)
    OBVIOUS
  <2> HIDE DEF n, G
  <2>3. Computed(n, Seq(D), <<>>, G)
    BY <1>1, <2>1, <2>2, Recursion
  <2>4. PICK f \in [0 .. n -> Seq(D)] : f[0] = <<>> /\ \A i \in 1 .. n : f[i] = G[i][f[i - 1]]
    BY <2>3 DEF Computed, Computes
  <2>5. \A i \in 1 .. n : f[i - 1] \in Seq(D)
    BY <1>1, <2>4
  <2>6. \A i \in 1 .. n : f[i] = Kept(i, f[i - 1])
    BY <1>1, <2>4, <2>5 DEF G
  <2>7. f = Body(f)
    BY <1>1, <2>4, <2>6
  <2> QED
    BY <2>7
<1> HIDE DEF kept
<1>4. kept[0] = <<>> /\ \A i \in 1 .. n : kept[i] = Kept(i, kept[i - 1])
  BY <1>1, <1>3
<1>5. Within(s, S) = kept[n]
  BY DEF Within, kept, Kept
<1>6. Once(s) /\ \A i, j \in 1 .. n : s[i] = s[j] => i = j
  BY <1>1 DEF Once
<1> HIDE DEF n
<1>7. Had(0) = {} /\ Had(n) = Range(s)
  BY <1>1 DEF Range
<1>8. \A i \in 1 .. n : Had(i) = Had(i - 1) \cup {s[i]} /\ s[i] \notin Had(i - 1)
  <2> TAKE i \in 1 .. n
  <2>1. 1 .. i = (1 .. i - 1) \cup {i}
    BY <1>1
  <2>2. \A j \in 1 .. i - 1 : s[j] # s[i]
    BY <1>1, <1>6
  <2> QED
    BY <2>1, <2>2
<1>9. 0 \in T
  <2>1. Part(0, <<>>)
    BY <1>7 DEF Once, Range
  <2> HIDE DEF Part
  <2> QED
    BY <1>1, <1>4, <2>1
<1>10. ASSUME NEW i \in 1 .. n, i - 1 \in T PROVE i \in T
  <2> DEFINE t == kept[i - 1]
  <2>1. Part(i - 1, t) /\ kept[i] = Kept(i, t)
    BY <1>4, <1>10
  <2> HIDE DEF t
  <2>2. \A j \in 1 .. i : j \in 1 .. i - 1 \/ j = i
    BY <1>1
  <2>3. CASE s[i] \notin S
    <3>1. kept[i] = t
      BY <2>1, <2>3 DEF Kept
    <3>2. Had(i) \cap S = Had(i - 1) \cap S
      BY <1>8, <2>3
    <3> HIDE DEF Had
    <3>3. Part(i, t)
      BY <2>1, <2>2, <2>3, <3>2
    <3> QED
      BY <3>1, <3>3
  <2>4. CASE s[i] \in S
    <3>1. kept[i] = Append(t, s[i])
      BY <2>1, <2>4 DEF Kept
    <3>2. s[i] \notin Range(t) /\ t \in Seq(D) /\ Once(t) /\ s[i] \in D
      BY <1>1, <1>8, <2>1
    <3>3. /\ kept[i] \in Seq(D) /\ Once(kept[i]) /\ Range(kept[i]) = Range(t) \cup {s[i]}
          /\ \A x, y : Precedes(t, x, y) => Precedes(kept[i], x, y)
          /\ \A x \in Range(t) : Precedes(kept[i], x, s[i])
      BY <3>1, <3>2, AppendOnce
    <3>4. Range(kept[i]) = Had(i) \cap S
      BY <1>8, <2>1, <2>4, <3>3
    <3>5. ASSUME NEW j \in 1 .. i, NEW k \in 1 .. i, j < k, s[j] \in S, s[k] \in S
          PROVE  Precedes(kept[i], s[j], s[k])
      <4>1. j \in 1 .. i - 1
        BY <1>1, <3>5
      <4>2. CASE k = i
        <5>1. s[j] \in Range(t)
          BY <2>1, <3>5, <4>1
        <5> QED
          BY <3>3, <4>2, <5>1
      <4>3. CASE k \in 1 .. i - 1
        BY <2>1, <3>3, <3>5, <4>1, <4>3
      <4> QED
        BY <2>2, <4>2, <4>3
    <3> HIDE DEF Had
    <3> QED
      BY <3>3, <3>4, <3>5
  <2> QED
    BY <2>3, <2>4
<1>11. Part(n, kept[n])
  <2> HIDE DEF T
  <2>1. 0 .. n \subseteq T
    BY <1>1, <1>9, <1>10, Climb
  <2> HIDE DEF Part
  <2> QED
    BY <1>1, <2>1 DEF T
<1>12. ASSUME NEW x \in S, NEW y \in S, Precedes(s, x, y) PROVE Precedes(kept[n], x, y)
  BY <1>1, <1>11, <1>12 DEF Precedes
<1> QED
  BY <1>5, <1>7, <1>11, <1>12

LEMMA ConcatSorts ==
  ASSUME NEW D, NEW graph, DOMAIN graph = D, NEW s, Sorted(graph, s), NEW t \in Seq(D), Once(t),
         Range(s) \cap Range(t) = {},
         \A y \in Range(t) : \A x \in Range(graph[y]) : x \in Range(s) \/ Precedes(t, x, y)
  PROVE  Sorted(graph, s \o t) /\ Range(s \o t) = Range(s) \cup Range(t)
<1> DEFINE u == s \o t
           m == Len(s)
           n == Len(t)
<1>1. s \in Seq(D) /\ m \in Nat /\ n \in Nat /\ DOMAIN s = 1 .. m /\ DOMAIN t = 1 .. n
  BY DEF Sorted
<1>2. /\ u \in Seq(D) /\ DOMAIN u = 1 .. m + n
      /\ \A i \in 1 .. m : u[i] = s[i] /\ i \in 1 .. m + n
      /\ \A i \in 1 .. n : u[m + i] = t[i] /\ m + i \in 1 .. m + n
  <2>1. u \in Seq(D) /\ Len(u) = m + n /\ \A i \in 1 .. m + n : u[i] = IF i <= m THEN s[i] ELSE t[i - m]
    BY <1>1, ConcatProperties
  <2> HIDE DEF u, m, n
  <2> QED
    BY <1>1, <2>1
<1>3. \A i \in 1 .. m + n : i \in 1 .. m \/ (i - m \in 1 .. n /\ m + (i - m) = i)
  BY <1>1
<1> HIDE DEF u, m, n
<1>4. Range(u) = Range(s) \cup Range(t)
  <2>1. Range(u) = {u[i] : i \in 1 .. m + n} /\ Range(s) = {s[i] : i \in 1 .. m}
        /\ Range(t) = {t[i] : i \in 1 .. n}
    BY <1>1, <1>2 DEF Range
  <2> QED
    BY <1>2, <1>3, <2>1
<1>5. \A i \in 1 .. m, j \in 1 .. n : s[i] # t[j]
  BY <1>1 DEF Range
<1>6. Once(u)
  <2>1. (\A i, j \in 1 .. m : s[i] = s[j] => i = j) /\ \A i, j \in 1 .. n : t[i] = t[j] => i = j
    BY <1>1 DEF Once, Sorted
  <2> SUFFICES ASSUME NEW i \in 1 .. m + n, NEW j \in 1 .. m + n, u[i] = u[j] PROVE i = j
    BY <1>2 DEF Once
  <2>2. CASE i \in 1 .. m /\ j \in 1 .. m
    BY <1>2, <2>1, <2>2
  <2>3. CASE i \in 1 .. m /\ j \notin 1 .. m
    <3>1. j - m \in 1 .. n /\ m + (j - m) = j
      BY <1>3, <2>3
    <3> QED
      BY <1>2, <1>5, <2>3, <3>1
  <2>4. CASE i \notin 1 .. m /\ j \in 1 .. m
    <3>1. i - m \in 1 .. n /\ m + (i - m) = i
      BY <1>3, <2>4
    <3> QED
      BY <1>2, <1>5, <2>4, <3>1
  <2>5. CASE i \notin 1 .. m /\ j \notin 1 .. m
    <3>1. j - m \in 1 .. n /\ m + (j - m) = j /\ i - m \in 1 .. n /\ m + (i - m) = i
      BY <1>3, <2>5
    <3>2. i - m = j - m
      BY <1>2, <2>1, <3>1
    <3> QED
      BY <3>1, <3>2
  <2> QED
    BY <2>2, <2>3, <2>4, <2>5
<1>7. ASSUME NEW j \in 1 .. m + n, NEW x \in Range(graph[u[j]])
      PROVE  \E i \in 1 .. m + n : i < j /\ u[i] = x
  <2>1. CASE j \in 1 .. m
    <3>1. j \in DOMAIN s /\ x \in Range(graph[s[j]])
      BY <1>1, <1>2, <1>7, <2>1
    <3>2. PICK i \in 1 .. m : i < j /\ s[i] = x
      BY <1>1, <3>1 DEF Sorted
    <3> QED
      BY <1>2, <3>2
  <2>2. CASE j \notin 1 .. m
    <3>1. j - m \in 1 .. n /\ m + (j - m) = j
      BY <1>3, <2>2
    <3>2. u[j] = t[j - m] /\ t[j - m] \in Range(t)
      BY <1>1, <1>2, <3>1 DEF Range
    <3>3. CASE x \in Range(s)
      <4>1. PICK i \in 1 .. m : s[i] = x
        BY <1>1, <3>3 DEF Range
      <4>2. i < j
        BY <1>1, <3>1
      <4> QED
        BY <1>2, <4>1, <4>2
    <3>4. CASE Precedes(t, x, t[j - m])
      <4>1. PICK i, k \in 1 .. n : i < k /\ t[i] = x /\ t[k] = t[j - m]
        BY <1>1, <3>4 DEF Precedes
      <4>2. k = j - m
        BY <1>1, <3>1, <4>1 DEF Once
      <4>3. m + i < j
        BY <1>1, <3>1, <4>1, <4>2
      <4> QED
        BY <1>2, <4>1, <4>3
    <3> QED
      BY <1>7, <3>2, <3>3, <3>4
  <2> QED
    BY <2>1, <2>2
<1> QED
  <2>1. Sorted(graph, u)
    <3>1. u \in Seq(DOMAIN graph) /\ DOMAIN u = 1 .. m + n
      BY <1>2
    <3>2. \A j \in DOMAIN u : \A x \in Range(graph[u[j]]) : \E i \in DOMAIN u : i < j /\ u[i] = x
      BY <1>7, <3>1
    <3> QED
      BY <1>6, <3>1, <3>2 DEF Sorted
  <2> QED
    BY <1>4, <2>1 DEF u

-----------------------------------------------------------------------------
(* The graphs of prototypes and of modules, as they are built *)

Graphs == [proto : [Nodes -> Seq(Nodes)], module : [Range(Units) -> Seq(Range(Units))]]

\* The modules are linked as their prototypes are.
Linked(g) ==
  \A n \in Nodes : \A to \in Range(g.proto[n]) :
    protos[n].unit # protos[to].unit => protos[to].unit \in Range(g.module[protos[n].unit])
LinkedGraphs == {g \in Graphs : Linked(g)}
Keeps(g, h) == \A n \in Nodes : Range(g.proto[n]) \subseteq Range(h.proto[n])
\* What one inject may be wired to.
OneWired == \A n \in Nodes : \A i \in DOMAIN protos[n].injects : \A x, y \in Wired(n, i) : x = y

LEMMA ProtosAre ==
  ASSUME protos \in Seq(Shapes)
  PROVE  \A n \in Nodes :
           /\ protos[n] \in Shapes /\ protos[n].unit \in Range(Units)
           /\ protos[n].public \in BOOLEAN
           /\ Len(protos[n].injects) \in Nat
           /\ DOMAIN protos[n].injects = 1 .. Len(protos[n].injects)
           /\ \A i \in DOMAIN protos[n].injects :
                DOMAIN protos[n].injects[i].qualifiers \subseteq {"init", "unit"}
<1> TAKE n \in Nodes
<1>1. protos[n] \in Shapes
  BY DEF Nodes
<1>2. protos[n].injects \in Seq(Range(protos[n].injects))
  BY <1>1, InjectAssumption DEF IsSequence
<1>3. Len(protos[n].injects) \in Nat /\ DOMAIN protos[n].injects = 1 .. Len(protos[n].injects)
  BY <1>2
<1> QED
  BY <1>1, <1>3, InjectAssumption

LEMMA EdgeAdded ==
  ASSUME NEW D, NEW graph \in [D -> Seq(D)], NEW froms, NEW to \in D
  PROVE  /\ AddEdge(graph, froms, to) \in [D -> Seq(D)]
         /\ \A n \in D : \A x : x \in Range(AddEdge(graph, froms, to)[n])
                                <=> x \in Range(graph[n]) \/ (n \in froms /\ x = to)
<1> DEFINE h == AddEdge(graph, froms, to)
<1>1. DOMAIN h = D /\ \A n \in D :
        h[n] = IF n \in froms /\ ~Contains(graph[n], to) THEN Append(graph[n], to) ELSE graph[n]
  BY DEF AddEdge
<1>2. h = [n \in D |-> h[n]]
  BY DEF AddEdge
<1> HIDE DEF h
<1>3. ASSUME NEW n \in D
      PROVE  /\ h[n] \in Seq(D)
             /\ \A x : x \in Range(h[n]) <=> x \in Range(graph[n]) \/ (n \in froms /\ x = to)
  <2>1. graph[n] \in Seq(D)
    OBVIOUS
  <2>2. Contains(graph[n], to) <=> to \in Range(graph[n])
    <3>1. Contains(graph[n], to) <=> \E i \in 1 .. Len(graph[n]) : graph[n][i] = to
      BY DEF Contains
    <3>2. DOMAIN graph[n] = 1 .. Len(graph[n])
      BY <2>1
    <3> QED
      BY <3>1, <3>2, Zenon DEF Range
  <2>3. /\ Append(graph[n], to) \in Seq(D)
        /\ Range(Append(graph[n], to)) = Range(graph[n]) \cup {to}
    <3> DEFINE s == graph[n]
               t == Append(s, to)
    <3>1. /\ t \in Seq(D) /\ Len(s) \in Nat /\ DOMAIN s = 1 .. Len(s) /\ DOMAIN t = 1 .. Len(s) + 1
          /\ t[Len(s) + 1] = to /\ \A i \in 1 .. Len(s) : t[i] = s[i]
      BY <2>1, AppendProperties
    <3>2. /\ \A i \in 1 .. Len(s) + 1 : i \in 1 .. Len(s) \/ i = Len(s) + 1
          /\ Len(s) + 1 \in 1 .. Len(s) + 1 /\ \A i \in 1 .. Len(s) : i \in 1 .. Len(s) + 1
      BY <3>1
    <3> HIDE DEF s, t
    <3>3. Range(t) = {t[i] : i \in 1 .. Len(s) + 1} /\ Range(s) = {s[i] : i \in 1 .. Len(s)}
      BY <3>1 DEF Range
    <3>4. Range(t) = Range(s) \cup {to}
      BY <3>1, <3>2, <3>3
    <3> QED
      BY <3>1, <3>4 DEF s, t
  <2>4. CASE n \in froms /\ ~Contains(graph[n], to)
    <3>1. h[n] = Append(graph[n], to)
      BY <1>1, <2>4
    <3> QED
      BY <2>3, <2>4, <3>1
  <2>5. CASE ~(n \in froms /\ ~Contains(graph[n], to))
    <3>1. h[n] = graph[n]
      BY <1>1, <2>5
    <3> QED
      BY <2>1, <2>2, <2>5, <3>1
  <2> QED
    BY <2>4, <2>5
<1>4. h \in [D -> Seq(D)]
  BY <1>1, <1>2, <1>3
<1> QED
  BY <1>3, <1>4 DEF h

LEMMA InjectAdded ==
  ASSUME protos \in Seq(Shapes), NEW g \in LinkedGraphs, NEW froms \in SUBSET Nodes, NEW to \in Nodes
  PROVE  /\ AddInject(g, froms, to) \in LinkedGraphs /\ Keeps(g, AddInject(g, froms, to))
         /\ \A n \in froms : to \in Range(AddInject(g, froms, to).proto[n])
<1> DEFINE unit == protos[to].unit
           others == {protos[n].unit : n \in froms} \ {unit}
           p == AddEdge(g.proto, froms, to)
           m == AddEdge(g.module, others, unit)
           h == AddInject(g, froms, to)
<1>1. h.proto = p /\ h.module = m /\ h = [proto |-> p, module |-> m]
  BY DEF AddInject
<1>2. g.proto \in [Nodes -> Seq(Nodes)] /\ g.module \in [Range(Units) -> Seq(Range(Units))] /\ Linked(g)
  BY DEF LinkedGraphs, Graphs
<1>3. unit \in Range(Units) /\ \A n \in Nodes : protos[n].unit \in Range(Units)
  BY ProtosAre
<1> HIDE DEF h, unit, others
<1>4. /\ p \in [Nodes -> Seq(Nodes)]
      /\ \A n \in Nodes : \A x :
           x \in Range(p[n]) <=> x \in Range(g.proto[n]) \/ (n \in froms /\ x = to)
  <2> DEFINE gp == g.proto
  <2>1. gp \in [Nodes -> Seq(Nodes)]
    BY <1>2
  <2> HIDE DEF gp
  <2>2. /\ AddEdge(gp, froms, to) \in [Nodes -> Seq(Nodes)]
        /\ \A n \in Nodes : \A x : x \in Range(AddEdge(gp, froms, to)[n])
                                   <=> x \in Range(gp[n]) \/ (n \in froms /\ x = to)
    BY <2>1, EdgeAdded
  <2> QED
    BY <2>2, Zenon DEF gp
<1>5. /\ m \in [Range(Units) -> Seq(Range(Units))]
      /\ \A u \in Range(Units) :
           \A x : x \in Range(m[u]) <=> x \in Range(g.module[u]) \/ (u \in others /\ x = unit)
  <2> DEFINE gm == g.module
  <2>1. gm \in [Range(Units) -> Seq(Range(Units))]
    BY <1>2
  <2> HIDE DEF gm
  <2>2. /\ AddEdge(gm, others, unit) \in [Range(Units) -> Seq(Range(Units))]
        /\ \A u \in Range(Units) : \A x : x \in Range(AddEdge(gm, others, unit)[u])
                                         <=> x \in Range(gm[u]) \/ (u \in others /\ x = unit)
    BY <1>3, <2>1, EdgeAdded
  <2> QED
    BY <2>2, Zenon DEF gm
<1>6. h \in Graphs
  BY <1>1, <1>4, <1>5 DEF Graphs
<1> HIDE DEF p, m
<1>7. Linked(h)
  <2> SUFFICES ASSUME NEW n \in Nodes, NEW x \in Range(p[n]), protos[n].unit # protos[x].unit
               PROVE  protos[x].unit \in Range(m[protos[n].unit])
    BY <1>1 DEF Linked, unit
  <2>1. CASE x \in Range(g.proto[n])
    BY <1>2, <1>3, <1>5, <2>1 DEF Linked
  <2>2. CASE n \in froms /\ x = to
    <3>1. protos[n].unit \in others
      BY <2>2 DEF others, unit
    <3> QED
      BY <1>3, <1>5, <2>2, <3>1 DEF unit
  <2> QED
    BY <1>4, <2>1, <2>2
<1> QED
  BY <1>1, <1>4, <1>6, <1>7 DEF LinkedGraphs, Keeps, h

LEMMA FoundIn == \A p, r : FindDependency(p, r) \subseteq Nodes
<1>1. \A p, name, qualifiers : Pick(p, name, qualifiers) \subseteq Nodes
  <2> TAKE p, name, qualifiers
  <2> DEFINE With(more) ==
               {n \in Nodes : Select(protos[n], name, p.unit, Merge(qualifiers, more))}
  <2>1. \A more : With(more) \subseteq Nodes
    OBVIOUS
  <2>2. Pick(p, name, qualifiers) \in {With(<<>>), With([init |-> "CONTEXT"]), With([init |-> p.init])}
    BY DEF Pick
  <2> HIDE DEF With
  <2> QED
    BY <2>1, <2>2
<1> QED
  BY <1>1, Zenon DEF FindDependency

LEMMA WiredIn == \A n, i : Wired(n, i) \subseteq Nodes
BY FoundIn DEF Wired

HasWired(g, n, i) == Wired(n, i) \subseteq Range(g.proto[n])

LEMMA BuildInjectIs ==
  ASSUME protos \in Seq(Shapes), OneWired, NEW g \in LinkedGraphs, NEW n \in Nodes,
         NEW i \in DOMAIN protos[n].injects
  PROVE  /\ BuildInject(g, n, i) \in LinkedGraphs /\ Keeps(g, BuildInject(g, n, i))
         /\ HasWired(BuildInject(g, n, i), n, i)
<1>1. CASE Wired(n, i) = {}
  BY <1>1 DEF BuildInject, Keeps, HasWired
<1>2. CASE Wired(n, i) # {}
  <2> DEFINE to == CHOOSE x \in Wired(n, i) : TRUE
             h == AddInject(g, {n}, to)
  <2>1. to \in Wired(n, i) /\ to \in Nodes /\ Wired(n, i) = {to}
    BY <1>2, WiredIn DEF OneWired
  <2>2. BuildInject(g, n, i) = h
    BY <1>2 DEF BuildInject
  <2> HIDE DEF to
  <2>3. /\ AddInject(g, {n}, to) \in LinkedGraphs /\ Keeps(g, AddInject(g, {n}, to))
        /\ to \in Range(AddInject(g, {n}, to).proto[n])
    BY <2>1, InjectAdded
  <2> QED
    BY <2>1, <2>2, <2>3 DEF HasWired
<1> QED
  BY <1>1, <1>2

LEMMA BuildNodeIs ==
  ASSUME protos \in Seq(Shapes), OneWired, NEW g \in LinkedGraphs, NEW n \in Nodes
  PROVE  /\ BuildNode(g, n) \in LinkedGraphs /\ Keeps(g, BuildNode(g, n))
         /\ \A i \in DOMAIN protos[n].injects : HasWired(BuildNode(g, n), n, i)
<1> DEFINE k == Len(protos[n].injects)
           Body(f) == [i \in 0 .. k |-> IF i = 0 THEN g ELSE BuildInject(f[i - 1], n, i)]
           edges == CHOOSE f : f = Body(f)
           G == [i \in 1 .. k |-> [h \in LinkedGraphs |-> BuildInject(h, n, i)]]
           Good(i, h) == /\ h \in LinkedGraphs /\ Keeps(g, h)
                         /\ \A j \in 1 .. i : HasWired(h, n, j)
           S == {i \in 0 .. k : Good(i, edges[i])}
<1>1. k \in Nat /\ DOMAIN protos[n].injects = 1 .. k
  BY ProtosAre
<1> HIDE DEF k
<1>2. \A i \in 1 .. k, h \in LinkedGraphs :
        /\ BuildInject(h, n, i) \in LinkedGraphs /\ Keeps(h, BuildInject(h, n, i))
        /\ HasWired(BuildInject(h, n, i), n, i)
  BY <1>1, BuildInjectIs
<1>3. edges = Body(edges)
  <2>1. G \in [1 .. k -> [LinkedGraphs -> LinkedGraphs]]
    BY <1>2
  <2> HIDE DEF G
  <2>2. Computed(k, LinkedGraphs, g, G)
    BY <1>1, <2>1, Recursion
  <2>3. PICK f \in [0 .. k -> LinkedGraphs] : f[0] = g /\ \A i \in 1 .. k : f[i] = G[i][f[i - 1]]
    BY <2>2 DEF Computed, Computes
  <2>4. \A i \in 1 .. k : f[i - 1] \in LinkedGraphs
    BY <1>1, <2>3
  <2>5. \A i \in 1 .. k : f[i] = BuildInject(f[i - 1], n, i)
    BY <1>1, <2>3, <2>4 DEF G
  <2>6. f = Body(f)
    BY <1>1, <2>3, <2>5
  <2> QED
    BY <2>6
<1> HIDE DEF edges
<1>4. edges[0] = g /\ \A i \in 1 .. k : edges[i] = BuildInject(edges[i - 1], n, i)
  <2>1. \A i \in 0 .. k : edges[i] = IF i = 0 THEN g ELSE BuildInject(edges[i - 1], n, i)
    BY <1>3
  <2> QED
    BY <1>1, <2>1
<1>5. 0 \in S
  BY <1>1, <1>4 DEF Keeps
<1>6. ASSUME NEW i \in 1 .. k, i - 1 \in S PROVE i \in S
  <2> DEFINE a == edges[i - 1]
             b == edges[i]
  <2>1. Good(i - 1, a) /\ b = BuildInject(a, n, i)
    BY <1>4, <1>6
  <2> HIDE DEF a, b
  <2>2. b \in LinkedGraphs /\ Keeps(a, b) /\ HasWired(b, n, i)
    BY <1>2, <2>1
  <2>3. \A j \in 1 .. i : j \in 1 .. i - 1 \/ j = i
    BY <1>1
  <2>4. Good(i, b)
    BY <2>1, <2>2, <2>3 DEF Keeps, HasWired
  <2> HIDE DEF Good
  <2> QED
    BY <1>1, <2>4 DEF b
<1>7. Good(k, edges[k])
  <2> HIDE DEF S, Good
  <2>1. 0 .. k \subseteq S
    BY <1>1, <1>5, <1>6, Climb
  <2> QED
    BY <1>1, <2>1 DEF S
<1>8. BuildNode(g, n) = edges[k]
  BY DEF BuildNode, edges, k
<1> QED
  BY <1>1, <1>7, <1>8

LEMMA BuildGraphsAre ==
  ASSUME protos \in Seq(Shapes), OneWired
  PROVE  /\ BuildGraphs \in LinkedGraphs
         /\ \A n \in Nodes : \A i \in DOMAIN protos[n].injects : HasWired(BuildGraphs, n, i)
<1> DEFINE k == Len(protos)
           none == [proto |-> [n \in Nodes |-> <<>>], module |-> [u \in Range(Units) |-> <<>>]]
           Body(f) == [n \in 0 .. k |-> IF n = 0 THEN none ELSE BuildNode(f[n - 1], n)]
           edges == CHOOSE f : f = Body(f)
           G == [n \in 1 .. k |-> [h \in LinkedGraphs |-> BuildNode(h, n)]]
           Good(m, h) == /\ h \in LinkedGraphs
                         /\ \A n \in 1 .. m : \A i \in DOMAIN protos[n].injects : HasWired(h, n, i)
           S == {n \in 0 .. k : Good(n, edges[n])}
<1>1. k \in Nat /\ Nodes = 1 .. k
  BY DEF Nodes
<1>2. none \in LinkedGraphs
  <2>1. none.proto \in [Nodes -> Seq(Nodes)] /\ none.module \in [Range(Units) -> Seq(Range(Units))]
    OBVIOUS
  <2>2. \A n \in Nodes : Range(none.proto[n]) = {}
    BY DEF Range
  <2>3. none \in Graphs
    BY <2>1 DEF Graphs
  <2> HIDE DEF none
  <2> QED
    BY <2>2, <2>3 DEF LinkedGraphs, Linked
<1>8. BuildGraphs = edges[k]
  BY DEF BuildGraphs
<1> HIDE DEF k, none
<1>3. \A n \in 1 .. k, h \in LinkedGraphs :
        /\ BuildNode(h, n) \in LinkedGraphs /\ Keeps(h, BuildNode(h, n))
        /\ \A i \in DOMAIN protos[n].injects : HasWired(BuildNode(h, n), n, i)
  BY <1>1, BuildNodeIs
<1>4. edges = Body(edges)
  <2>1. G \in [1 .. k -> [LinkedGraphs -> LinkedGraphs]]
    BY <1>3
  <2> HIDE DEF G
  <2>2. Computed(k, LinkedGraphs, none, G)
    BY <1>1, <1>2, <2>1, Recursion
  <2>3. PICK f \in [0 .. k -> LinkedGraphs] : f[0] = none /\ \A n \in 1 .. k : f[n] = G[n][f[n - 1]]
    BY <2>2 DEF Computed, Computes
  <2>4. \A n \in 1 .. k : f[n - 1] \in LinkedGraphs
    BY <1>1, <2>3
  <2>5. \A n \in 1 .. k : f[n] = BuildNode(f[n - 1], n)
    BY <1>1, <2>3, <2>4 DEF G
  <2>6. f = Body(f)
    BY <1>1, <2>3, <2>5
  <2> QED
    BY <2>6
<1> HIDE DEF edges
<1>5. edges[0] = none /\ \A n \in 1 .. k : edges[n] = BuildNode(edges[n - 1], n)
  BY <1>1, <1>4
<1>6. 0 \in S
  BY <1>1, <1>2, <1>5
<1>7. ASSUME NEW m \in 1 .. k, m - 1 \in S PROVE m \in S
  <2> DEFINE a == edges[m - 1]
             b == edges[m]
  <2>1. Good(m - 1, a) /\ b = BuildNode(a, m)
    BY <1>5, <1>7
  <2> HIDE DEF a, b
  <2>2. /\ b \in LinkedGraphs /\ Keeps(a, b)
        /\ \A i \in DOMAIN protos[m].injects : HasWired(b, m, i)
    BY <1>3, <2>1
  <2>3. \A n \in 1 .. m : n \in Nodes /\ (n \in 1 .. m - 1 \/ n = m)
    BY <1>1
  <2>4. Good(m, b)
    BY <2>1, <2>2, <2>3 DEF Keeps, HasWired
  <2> HIDE DEF Good
  <2> QED
    BY <1>1, <2>4 DEF b
<1>9. Good(k, edges[k])
  <2> HIDE DEF S, Good
  <2>1. 0 .. k \subseteq S
    BY <1>1, <1>6, <1>7, Climb
  <2> QED
    BY <1>1, <2>1 DEF S
<1> QED
  BY <1>1, <1>8, <1>9

-----------------------------------------------------------------------------
(* The order in which the prototypes are created *)

LEMMA SortedPrecedes ==
  ASSUME NEW graph, NEW s, Sorted(graph, s), NEW y \in Range(s), NEW x \in Range(graph[y])
  PROVE  Precedes(s, x, y)
<1>1. PICK j \in DOMAIN s : s[j] = y
  BY DEF Range
<1>2. PICK i \in DOMAIN s : i < j /\ s[i] = x
  BY <1>1 DEF Sorted
<1> QED
  BY <1>1, <1>2 DEF Precedes

LEMMA UnitsAreFinite == Units \in Seq(Range(Units)) /\ IsFiniteSet(Range(Units))
<1>1. Units \in Seq(Range(Units))
  BY InjectAssumption DEF IsSequence
<1>2. Len(Units) \in Nat /\ DOMAIN Units = 1 .. Len(Units)
  BY <1>1
<1>3. IsFiniteSet(1 .. Len(Units))
  BY <1>2, FS_Interval
<1>4. Units \in [1 .. Len(Units) -> Range(Units)]
  BY <1>1, <1>2
<1>5. Units \in Surjection(1 .. Len(Units), Range(Units))
  BY <1>2, <1>4, Zenon DEF Surjection, Range
<1> QED
  BY <1>1, <1>3, <1>5, FS_Surjection

GraphsNow == [proto |-> protoGraph, module |-> moduleGraph]

LEMMA GraphsAre ==
  ASSUME protos \in Seq(Shapes), GraphsNow \in LinkedGraphs
  PROVE  /\ GraphOf(Nodes, protoGraph) /\ GraphOf(Range(Units), moduleGraph)
         /\ DOMAIN protoGraph = Nodes /\ DOMAIN moduleGraph = Range(Units)
<1>1. IsFiniteSet(Nodes)
  BY FS_Interval DEF Nodes
<1>2. /\ protoGraph \in [Nodes -> Seq(Nodes)]
      /\ moduleGraph \in [Range(Units) -> Seq(Range(Units))]
  BY DEF LinkedGraphs, Graphs, GraphsNow
<1> QED
  BY <1>1, <1>2, UnitsAreFinite DEF GraphOf

LEMMA OrderIs ==
  ASSUME protos \in Seq(Shapes), GraphsNow \in LinkedGraphs,
         ~HasLoop(moduleGraph), ~HasLoop(protoGraph)
  PROVE  Sorted(protoGraph, Joined(SortModule))
<1> DEFINE all == Sort(moduleGraph, Units)
           wanted == {u \in Range(Units) : u \notin optional \/ IsUsed(u)}
           us == SortModule
           ps == Sort(protoGraph, [n \in Nodes |-> n])
           k == Len(us)
           After(i, s) == s \o SortClazz(us[i])
           Body(f) == [i \in 0 .. k |-> IF i = 0 THEN <<>> ELSE After(i, f[i - 1])]
           joined == CHOOSE f : f = Body(f)
           G == [i \in 1 .. k |-> [s \in Seq(Nodes) |-> After(i, s)]]
           Upto(i) == {n \in Nodes : \E j \in 1 .. i : us[j] = protos[n].unit}
           Good(i, s) == Sorted(protoGraph, s) /\ Range(s) = Upto(i)
           S == {i \in 0 .. k : Good(i, joined[i])}
<1>1. /\ GraphOf(Nodes, protoGraph) /\ GraphOf(Range(Units), moduleGraph)
      /\ DOMAIN protoGraph = Nodes /\ DOMAIN moduleGraph = Range(Units)
  BY GraphsAre
<1>2. Sorted(moduleGraph, all) /\ Range(Units) \subseteq Range(all) /\ all \in Seq(Range(Units))
      /\ Once(all)
  <2>1. Sorted(moduleGraph, Sort(moduleGraph, Units)) /\ Range(Units) \subseteq Range(Sort(moduleGraph, Units))
    BY <1>1, UnitsAreFinite, SortSorts
  <2>2. Sorted(moduleGraph, all) /\ Range(Units) \subseteq Range(all)
    BY <2>1
  <2> HIDE DEF all
  <2> QED
    BY <1>1, <2>2 DEF Sorted
<1>3. Sorted(protoGraph, ps) /\ Range(ps) = Nodes /\ ps \in Seq(Nodes) /\ Once(ps)
  <2> DEFINE nodes == [n \in Nodes |-> n]
  <2>1. nodes \in Seq(Nodes)
    BY DEF Nodes
  <2>2. Range(nodes) = Nodes
    BY DEF Range
  <2> HIDE DEF nodes
  <2>3. Sorted(protoGraph, Sort(protoGraph, nodes)) /\ Nodes \subseteq Range(Sort(protoGraph, nodes))
    BY <1>1, <2>1, <2>2, SortSorts
  <2>4. Sorted(protoGraph, ps) /\ Nodes \subseteq Range(ps)
    BY <2>3 DEF nodes
  <2> HIDE DEF ps
  <2>5. ps \in Seq(Nodes) /\ Once(ps)
    BY <1>1, <2>4 DEF Sorted
  <2>6. Range(ps) \subseteq Nodes
    BY <2>5 DEF Range
  <2> QED
    BY <2>4, <2>5, <2>6
<1> HIDE DEF all, ps
<1>4. /\ us \in Seq(Range(Units)) /\ Once(us) /\ Range(us) = Range(all) \cap wanted
      /\ \A x, y \in wanted : Precedes(all, x, y) => Precedes(us, x, y)
  BY <1>2, WithinIs DEF SortModule, all
<1>5. \A u : /\ SortClazz(u) \in Seq(Nodes) /\ Once(SortClazz(u)) /\ Range(SortClazz(u)) = Of(u)
             /\ \A x, y \in Of(u) : Precedes(ps, x, y) => Precedes(SortClazz(u), x, y)
  <2> TAKE u
  <2>1. SortClazz(u) = Within(ps, Of(u))
    BY DEF SortClazz, ps
  <2>2. Of(u) \subseteq Nodes
    BY DEF Of
  <2>3. /\ Within(ps, Of(u)) \in Seq(Nodes) /\ Once(Within(ps, Of(u)))
        /\ Range(Within(ps, Of(u))) = Range(ps) \cap Of(u)
        /\ \A x, y \in Of(u) : Precedes(ps, x, y) => Precedes(Within(ps, Of(u)), x, y)
    BY <1>3, WithinIs
  <2> QED
    BY <1>3, <2>1, <2>2, <2>3
<1>6. k \in Nat /\ DOMAIN us = 1 .. k
  BY <1>4
<1>7. Joined(us) = joined[k]
  BY DEF Joined
<1> HIDE DEF us, k
<1>8. joined = Body(joined)
  <2>1. \A i \in 1 .. k, s \in Seq(Nodes) : After(i, s) \in Seq(Nodes)
    BY <1>5, ConcatProperties
  <2> HIDE DEF After
  <2>2. G \in [1 .. k -> [Seq(Nodes) -> Seq(Nodes)]]
    BY <2>1
  <2>3. <<>> \in Seq(Nodes)
    OBVIOUS
  <2> HIDE DEF G
  <2>4. Computed(k, Seq(Nodes), <<>>, G)
    BY <1>6, <2>2, <2>3, Recursion
  <2>5. PICK f \in [0 .. k -> Seq(Nodes)] : f[0] = <<>> /\ \A i \in 1 .. k : f[i] = G[i][f[i - 1]]
    BY <2>4 DEF Computed, Computes
  <2>6. \A i \in 1 .. k : f[i - 1] \in Seq(Nodes)
    BY <1>6, <2>5
  <2>7. \A i \in 1 .. k : f[i] = After(i, f[i - 1])
    BY <1>6, <2>5, <2>6 DEF G
  <2>8. f = Body(f)
    BY <1>6, <2>5, <2>7
  <2> QED
    BY <2>8
<1> HIDE DEF joined
<1>9. joined[0] = <<>> /\ \A i \in 1 .. k : joined[i] = joined[i - 1] \o SortClazz(us[i])
  <2> HIDE DEF After
  <2>1. \A i \in 0 .. k : joined[i] = IF i = 0 THEN <<>> ELSE After(i, joined[i - 1])
    BY <1>8
  <2>2. joined[0] = <<>> /\ \A i \in 1 .. k : joined[i] = After(i, joined[i - 1])
    BY <1>6, <2>1
  <2> QED
    BY <2>2 DEF After
<1>10. 0 \in S
  <2>1. Sorted(protoGraph, <<>>) /\ Range(<<>>) = {}
    BY DEF Sorted, Once, Range
  <2>2. Upto(0) = {}
    OBVIOUS
  <2> HIDE DEF Upto
  <2>3. Good(0, <<>>)
    BY <2>1, <2>2
  <2> HIDE DEF Good
  <2> QED
    BY <1>6, <1>9, <2>3
<1>11. ASSUME NEW i \in 1 .. k, i - 1 \in S PROVE i \in S
  <2> DEFINE u == us[i]
             s == joined[i - 1]
             t == SortClazz(u)
  <2>1. Good(i - 1, s) /\ joined[i] = s \o t
    BY <1>9, <1>11
  <2>2. t \in Seq(Nodes) /\ Once(t) /\ Range(t) = Of(u)
        /\ \A x, y \in Of(u) : Precedes(ps, x, y) => Precedes(t, x, y)
    BY <1>5
  <2>3. \A j \in 1 .. i - 1 : us[j] # u
    BY <1>4, <1>6 DEF Once
  <2>4. u \in wanted
    <3>1. u \in Range(us)
      BY <1>6 DEF Range
    <3> QED
      BY <1>4, <3>1
  <2> HIDE DEF s, t, u
  <2>5. Range(s) \cap Range(t) = {}
    BY <2>1, <2>2, <2>3 DEF Of
  <2>6. Upto(i) = Upto(i - 1) \cup Of(u)
    <3>1. \A j \in 1 .. i : j \in 1 .. i - 1 \/ j = i
      BY <1>6
    <3>2. \A j \in 1 .. i - 1 : j \in 1 .. i
      BY <1>6
    <3>3. i \in 1 .. i
      BY <1>6
    <3> QED
      BY <3>1, <3>2, <3>3 DEF Of, u
  <2>7. ASSUME NEW y \in Range(t), NEW x \in Range(protoGraph[y])
        PROVE  x \in Range(s) \/ Precedes(t, x, y)
    <3>1. y \in Nodes /\ protos[y].unit = u
      BY <2>2 DEF Of
    <3>2. Precedes(ps, x, y)
      BY <1>3, <3>1, SortedPrecedes
    <3>3. x \in Nodes
      BY <1>3, <3>2 DEF Precedes
    <3>4. CASE protos[x].unit = u
      <4>1. x \in Of(u) /\ y \in Of(u)
        BY <3>1, <3>3, <3>4 DEF Of
      <4> QED
        BY <2>2, <3>2, <4>1
    <3>5. CASE protos[x].unit # u
      <4> DEFINE v == protos[x].unit
      <4>1. v \in Range(moduleGraph[u])
        BY <2>7, <3>1, <3>5 DEF LinkedGraphs, Linked, GraphsNow
      <4>2. v \in Range(Units) /\ u \in Range(Units)
        BY <2>4, <3>3, ProtosAre
      <4>3. IsUsed(v)
        <5>1. moduleGraph[u] \in Seq(Range(Units))
          BY <1>1, <4>2 DEF GraphOf
        <5>2. PICK a \in DOMAIN moduleGraph[u] : moduleGraph[u][a] = v
          BY <4>1 DEF Range
        <5>3. a \in 1 .. Len(moduleGraph[u])
          BY <5>1, <5>2
        <5> QED
          BY <1>1, <4>2, <5>2, <5>3 DEF IsUsed, Contains
      <4>4. Precedes(all, v, u)
        BY <1>2, <4>1, <4>2, SortedPrecedes
      <4>5. Precedes(us, v, u)
        BY <1>4, <2>4, <4>2, <4>3, <4>4
      <4>6. PICK a, b \in 1 .. k : a < b /\ us[a] = v /\ us[b] = u
        BY <1>6, <4>5 DEF Precedes
      <4>7. b = i
        BY <1>4, <1>6, <4>6 DEF Once, u
      <4>8. a \in 1 .. i - 1
        BY <1>6, <4>6, <4>7
      <4>9. x \in Upto(i - 1)
        BY <3>3, <4>6, <4>8
      <4> QED
        BY <2>1, <4>9
    <3> QED
      BY <3>4, <3>5
  <2>8. Sorted(protoGraph, s \o t) /\ Range(s \o t) = Range(s) \cup Range(t)
    <3>1. Sorted(protoGraph, s)
      BY <2>1
    <3> QED
      BY <1>1, <2>2, <2>5, <2>7, <3>1, ConcatSorts
  <2>9. Good(i, joined[i])
    <3> HIDE DEF Upto
    <3> QED
      BY <2>1, <2>2, <2>6, <2>8
  <2> HIDE DEF Good
  <2> QED
    BY <1>6, <2>9
<1>12. Good(k, joined[k])
  <2> HIDE DEF S, Good
  <2>1. 0 .. k \subseteq S
    BY <1>6, <1>10, <1>11, Climb
  <2> QED
    BY <1>6, <2>1 DEF S
<1> QED
  BY <1>7, <1>12 DEF us

-----------------------------------------------------------------------------
(* What an inject is wired to is what is found at the creation *)

LEMMA CountsOfNodes ==
  \A T \in SUBSET Nodes :
    /\ Cardinality(T) \in Nat
    /\ Cardinality(T) = 0 <=> T = {}
    /\ Cardinality(T) = 1 <=> \E x \in T : T = {x}
    /\ Cardinality(T) <= 1 <=> \A x, y \in T : x = y
<1> TAKE T \in SUBSET Nodes
<1>1. IsFiniteSet(Nodes)
  BY FS_Interval DEF Nodes
<1>2. IsFiniteSet(T)
  BY <1>1, FS_Subset
<1>3. Cardinality(T) \in Nat
  BY <1>2, FS_CardinalityType
<1>4. Cardinality(T) = 0 <=> T = {}
  BY <1>2, FS_EmptySet
<1>5. Cardinality(T) = 1 <=> \E x : T = {x}
  BY <1>2, FS_Singleton
<1>6. Cardinality(T) <= 1 <=> Cardinality(T) = 0 \/ Cardinality(T) = 1
  BY <1>3
<1>7. (\A x, y \in T : x = y) <=> T = {} \/ \E x \in T : T = {x}
  OBVIOUS
<1>8. (\E x : T = {x}) <=> \E x \in T : T = {x}
  OBVIOUS
<1> QED
  BY <1>3, <1>4, <1>5, <1>6, <1>7, <1>8

\* The declared prototypes that one may be given for a name and qualifiers.
Fits(p, name, q) == {m \in Nodes : Select(protos[m], name, p.unit, q)}

\* No more qualifier, or one of an attribute that was not asked for.
LEMMA MergeNone ==
  ASSUME NEW m, NEW q, NEW name, NEW unit
  PROVE  Select(m, name, unit, Merge(q, <<>>)) <=> Select(m, name, unit, q)
<1> DEFINE z == Merge(q, <<>>)
           own == Qualifiers(m)
<1>1. DOMAIN z = DOMAIN q /\ \A a \in DOMAIN q : z[a] = q[a]
  BY DEF Merge
<1> HIDE DEF z, own
<1>2. (\A a \in DOMAIN z : own[a] = z[a]) <=> (\A a \in DOMAIN q : own[a] = q[a])
  BY <1>1
<1> QED
  BY <1>2, Zenon DEF Select, MatchQualifiers, z, own

LEMMA MergeMore ==
  ASSUME NEW m, NEW q, NEW name, NEW unit, NEW more, NEW e,
         e \notin DOMAIN q, DOMAIN more = {e}
  PROVE  Select(m, name, unit, Merge(q, more))
           <=> Select(m, name, unit, q) /\ Qualifiers(m)[e] = more[e]
<1> DEFINE z == Merge(q, more)
           own == Qualifiers(m)
<1>1. /\ DOMAIN z = DOMAIN q \cup {e} /\ z[e] = more[e]
      /\ \A a \in DOMAIN q : z[a] = q[a]
  BY DEF Merge
<1> HIDE DEF z, own
<1>2. (\A a \in DOMAIN z : own[a] = z[a])
        <=> (\A a \in DOMAIN q : own[a] = q[a]) /\ own[e] = more[e]
  BY <1>1
<1> QED
  BY <1>2, Zenon DEF Select, MatchQualifiers, z, own

\* Those of an init type, and of a module.
OfInit(T, t) == {x \in T : protos[x].init = t}
OfUnit(T, unit) == {x \in T : protos[x].unit = unit}

LEMMA FitsMore ==
  ASSUME NEW p, NEW name, NEW q
  PROVE  LET fit == Fits(p, name, q) IN
         /\ "init" \notin DOMAIN q =>
              \A t : Fits(p, name, Merge(q, [init |-> t])) = OfInit(fit, t)
         /\ "unit" \notin DOMAIN q =>
              \A u : Fits(p, name, Merge(q, [unit |-> u])) = OfUnit(fit, u)
<1> DEFINE fit == Fits(p, name, q)
<1>1. ASSUME NEW e, NEW more, e \notin DOMAIN q, DOMAIN more = {e}
      PROVE  Fits(p, name, Merge(q, more)) = {x \in fit : Qualifiers(protos[x])[e] = more[e]}
  <2>1. \A x : Select(protos[x], name, p.unit, Merge(q, more))
                <=> Select(protos[x], name, p.unit, q) /\ Qualifiers(protos[x])[e] = more[e]
    BY <1>1, MergeMore
  <2> QED
    BY <2>1 DEF Fits
<1>2. \A x : Qualifiers(protos[x])["init"] = protos[x].init
              /\ Qualifiers(protos[x])["unit"] = protos[x].unit
  BY DEF Qualifiers
<1> HIDE DEF fit
<1>3. ASSUME "init" \notin DOMAIN q, NEW t
      PROVE  Fits(p, name, Merge(q, [init |-> t])) = OfInit(fit, t)
  <2> DEFINE more == [init |-> t]
  <2>1. DOMAIN more = {"init"} /\ more["init"] = t
    OBVIOUS
  <2> HIDE DEF more
  <2>2. Fits(p, name, Merge(q, more)) = {x \in fit : Qualifiers(protos[x])["init"] = more["init"]}
    BY <1>1, <1>3, <2>1
  <2>3. Fits(p, name, Merge(q, more)) = OfInit(fit, t)
    BY <1>2, <2>1, <2>2 DEF OfInit
  <2> QED
    BY <2>3 DEF more
<1>4. ASSUME "unit" \notin DOMAIN q, NEW u
      PROVE  Fits(p, name, Merge(q, [unit |-> u])) = OfUnit(fit, u)
  <2> DEFINE more == [unit |-> u]
  <2>1. DOMAIN more = {"unit"} /\ more["unit"] = u
    OBVIOUS
  <2> HIDE DEF more
  <2>2. Fits(p, name, Merge(q, more)) = {x \in fit : Qualifiers(protos[x])["unit"] = more["unit"]}
    BY <1>1, <1>4, <2>1
  <2>3. Fits(p, name, Merge(q, more)) = OfUnit(fit, u)
    BY <1>2, <2>1, <2>2 DEF OfUnit
  <2> QED
    BY <2>3 DEF more
<1> QED
  BY <1>3, <1>4 DEF fit

\* What is picked: all that fit, or those of one init type.
LEMMA PickIs ==
  ASSUME NEW p, NEW name, NEW q
  PROVE  LET fit == Fits(p, name, q)
             pick == Pick(p, name, q) IN
         /\ Cardinality(fit) <= 1 => pick = fit
         /\ "init" \notin DOMAIN q => pick \in {fit, OfInit(fit, "CONTEXT"), OfInit(fit, p.init)}
<1> DEFINE fit == Fits(p, name, q)
           pick == Pick(p, name, q)
           With(more) == {n \in Nodes : Select(protos[n], name, p.unit, Merge(q, more))}
           context == With([init |-> "CONTEXT"])
           self == With([init |-> p.init])
<1>1. With(<<>>) = fit
  BY MergeNone DEF Fits
<1>2. Cardinality(fit) <= 1 => pick = With(<<>>)
  <2>1. Cardinality(With(<<>>)) \in Nat
    BY CountsOfNodes
  <2> DEFINE c == Cardinality(With(<<>>))
  <2>2. pick = CASE c <= 1 -> With(<<>>)
                 [] c > 1 /\ Cardinality(context) = 1 -> context
                 [] c > 1 /\ Cardinality(context) # 1 /\ Cardinality(self) = 1 -> self
                 [] OTHER -> With(<<>>)
    BY Zenon DEF Pick
  <2>3. c \in Nat
    BY <2>1
  <2> HIDE DEF With, c, pick
  <2>4. c <= 1 => pick = With(<<>>)
    BY <2>2, <2>3
  <2> QED
    BY <1>1, <2>4 DEF c
<1>3. pick \in {With(<<>>), context, self}
  BY DEF Pick
<1>4. \A more : With(more) = Fits(p, name, Merge(q, more))
  BY DEF Fits
<1> HIDE DEF fit, pick, With
<1>5. ASSUME "init" \notin DOMAIN q, NEW t PROVE With([init |-> t]) = OfInit(fit, t)
  <2>1. Fits(p, name, Merge(q, [init |-> t])) = OfInit(fit, t)
    BY <1>5, FitsMore DEF fit
  <2>2. With([init |-> t]) = Fits(p, name, Merge(q, [init |-> t]))
    BY <1>4, Zenon
  <2> QED
    BY <2>1, <2>2, Zenon
<1> QED
  BY <1>1, <1>2, <1>3, <1>5 DEF fit, pick

\* Why one prototype is wired: it is the only one, or of the context, or the only
\* one of the own init type; of all that fit, or of those of the own module.
LEMMA WiredIs ==
  ASSUME NEW n, NEW i
  PROVE  LET p == protos[n]
             r == p.injects[i]
             fit == Fits(p, r.name, r.qualifiers)
             own == OfUnit(fit, p.unit) IN
         /\ Cardinality(fit) <= 1 => Wired(n, i) = fit
         /\ "init" \notin DOMAIN r.qualifiers =>
              /\ Wired(n, i) \subseteq fit
              /\ \A w : Wired(n, i) = {w} =>
                   \/ fit = {w} \/ own = {w} \/ protos[w].init = "CONTEXT"
                   \/ OfInit(fit, p.init) = {w} \/ OfInit(own, p.init) = {w}
<1> DEFINE p == protos[n]
           r == p.injects[i]
           q == r.qualifiers
           name == r.name
           fit == Fits(p, name, q)
           own == OfUnit(fit, p.unit)
           first == Pick(p, name, q)
           qm == Merge(q, [unit |-> p.unit])
           second == Pick(p, name, qm)
<1>1. Wired(n, i) = IF Cardinality(first) <= 1 \/ "unit" \in DOMAIN q THEN first ELSE second
  BY DEF Wired, FindDependency
<1>2. "init" \notin DOMAIN q => "init" \notin DOMAIN qm
  BY DEF Merge
<1> HIDE DEF p, r, q, name
<1>3. "unit" \notin DOMAIN q => Fits(p, name, qm) = own
  BY FitsMore
<1> HIDE DEF qm
<1>4. ASSUME Cardinality(fit) <= 1 PROVE Wired(n, i) = fit
  <2>1. first = fit
    BY <1>4, PickIs
  <2> QED
    BY <1>1, <1>4, <2>1
<1>5. ASSUME "init" \notin DOMAIN q
      PROVE  Wired(n, i) \in {fit, OfInit(fit, "CONTEXT"), OfInit(fit, p.init),
                              own, OfInit(own, "CONTEXT"), OfInit(own, p.init)}
  <2>1. first \in {fit, OfInit(fit, "CONTEXT"), OfInit(fit, p.init)}
    BY <1>5, PickIs
  <2>2. "unit" \notin DOMAIN q => second \in {own, OfInit(own, "CONTEXT"), OfInit(own, p.init)}
    BY <1>2, <1>3, <1>5, PickIs
  <2> HIDE DEF first, second, fit, own
  <2> QED
    BY <1>1, <2>1, <2>2
<1>6. own \subseteq fit
  BY DEF OfUnit
<1> HIDE DEF fit, own, first, second
<1>7. ASSUME "init" \notin DOMAIN q
      PROVE  /\ Wired(n, i) \subseteq fit
             /\ \A w : Wired(n, i) = {w} =>
                  \/ fit = {w} \/ own = {w} \/ protos[w].init = "CONTEXT"
                  \/ OfInit(fit, p.init) = {w} \/ OfInit(own, p.init) = {w}
  BY <1>5, <1>6, <1>7 DEF OfInit
<1> QED
  BY <1>4, <1>7 DEF p, r, q, name, fit, own

\* What the builder gets: of those that are registered and fit, the own ones, if any.
LEMMA GetIs ==
  ASSUME Registered \subseteq Nodes, NEW p, NEW name, NEW q
  PROVE  LET fit == Registered \cap Fits(p, name, q)
             got == GetPrototype(p.unit, name, q) IN
         /\ got \subseteq fit /\ (got = {} => fit = {})
         /\ \/ \A x \in got : protos[x].unit = p.unit
            \/ got = fit /\ \A x \in fit : protos[x].unit # p.unit
<1> DEFINE fit == Registered \cap Fits(p, name, q)
           got == GetPrototype(p.unit, name, q)
           named == {n \in Registered : protos[n].name = name /\ VerifyQualifiers(protos[n], q)}
           own == {n \in named : protos[n].unit = p.unit}
           public == {n \in named : protos[n].public}
<1>1. fit = {n \in named : protos[n].public \/ protos[n].unit = p.unit}
  BY DEF Fits, Select, MatchQualifiers, VerifyQualifiers
<1>2. (own # {} /\ got = own) \/ (own = {} /\ got = public)
  BY DEF GetPrototype
<1> HIDE DEF fit, got, named
<1> QED
  <2>1. CASE own # {} /\ got = own
    BY <1>1, <2>1 DEF fit, got
  <2>2. CASE own = {} /\ got = public
    <3>1. \A n \in named : protos[n].unit # p.unit
      BY <2>2
    <3>2. fit = public
      BY <1>1, <3>1
    <3>3. \A x \in fit : protos[x].unit # p.unit
      BY <3>1, <3>2
    <3> QED
      BY <2>2, <3>2, <3>3 DEF fit, got
  <2> QED
    BY <1>2, <2>1, <2>2

\* No two prototypes of a module have one name and one init type.
Distinct == \A m, n \in Nodes : ProtoId(protos[m]) = ProtoId(protos[n]) => m = n

LEMMA FindInjectFinds ==
  ASSUME OneWired, Registered \subseteq Nodes,
         NEW n \in Nodes, NEW i \in DOMAIN protos[n].injects,
         Wired(n, i) \subseteq Registered, Wired(n, i) # {},
         "init" \notin DOMAIN protos[n].injects[i].qualifiers
  PROVE  LET p == protos[n]
             r == p.injects[i] IN
         /\ FindInject(p, r) # {}
         /\ Cardinality(OfContext(p, r)) <= 1 => Cardinality(FindInject(p, r)) = 1
<1> DEFINE p == protos[n]
           r == p.injects[i]
           q == r.qualifiers
           name == r.name
           fit == Fits(p, name, q)
           here == Registered \cap fit
           own == OfUnit(fit, p.unit)
           qn == Merge(q, <<>>)
           With(t) == Merge(q, [init |-> t])
           asked == GetPrototype(p.unit, name, qn)
           context == GetPrototype(p.unit, name, With("CONTEXT"))
           self == GetPrototype(p.unit, name, With(p.init))
<1>1. PICK w \in Wired(n, i) : Wired(n, i) = {w}
  <2>1. \A x, y \in Wired(n, i) : x = y
    BY DEF OneWired
  <2> QED
    BY <2>1
<1>2. /\ w \in here
      /\ \/ fit = {w} \/ own = {w} \/ protos[w].init = "CONTEXT"
         \/ OfInit(fit, p.init) = {w} \/ OfInit(own, p.init) = {w}
  BY <1>1, WiredIs
<1>3. Fits(p, name, qn) = fit /\ \A t : Fits(p, name, With(t)) = OfInit(fit, t)
  <2>1. Fits(p, name, qn) = fit
    BY MergeNone DEF Fits
  <2>2. "init" \notin DOMAIN q
    OBVIOUS
  <2> HIDE DEF p, q, name
  <2>3. ASSUME NEW t PROVE Fits(p, name, With(t)) = OfInit(fit, t)
    BY <2>2, FitsMore
  <2> QED
    BY <2>1, <2>3
<1>4. OfContext(p, r) = OfInit(fit, "CONTEXT")
  <2>1. OfContext(p, r) = Fits(p, name, With("CONTEXT"))
    BY DEF OfContext, Fits
  <2> QED
    BY <1>3, <2>1
<1>5. asked \subseteq here
      /\ ((\A x \in asked : protos[x].unit = p.unit) \/ \A x \in here : protos[x].unit # p.unit)
  BY <1>3, GetIs
<1>6. /\ context \subseteq Registered \cap OfInit(fit, "CONTEXT")
      /\ context = {} => Registered \cap OfInit(fit, "CONTEXT") = {}
  BY <1>3, GetIs
<1>7. /\ self \subseteq Registered \cap OfInit(fit, p.init)
      /\ self = {} => Registered \cap OfInit(fit, p.init) = {}
      /\ \/ \A x \in self : protos[x].unit = p.unit
         \/ \A x \in Registered \cap OfInit(fit, p.init) : protos[x].unit # p.unit
  BY <1>3, GetIs
<1>8. fit \subseteq Nodes
  BY DEF Fits
<1>9. \A T \in SUBSET Nodes :
        /\ Cardinality(T) <= 1 <=> \A x, y \in T : x = y
        /\ (\E x \in T : T = {x}) => Cardinality(T) = 1
        /\ Cardinality(T) \in Nat
  BY CountsOfNodes
<1>10. FindInject(p, r) =
         CASE Cardinality(asked) <= 1 \/ "init" \in DOMAIN q -> asked
           [] Cardinality(asked) > 1 /\ "init" \notin DOMAIN q /\ context # {} -> context
           [] OTHER -> self
  BY Zenon DEF FindInject, TryFind
<1>11. "init" \notin DOMAIN q /\ asked # {}
  BY <1>2, <1>3, GetIs
<1> HIDE DEF p, r, q, name, fit, own, asked, context, self
<1>12. asked \subseteq Nodes /\ context \subseteq Nodes /\ self \subseteq Nodes
       /\ OfInit(fit, "CONTEXT") \subseteq Nodes
  BY <1>5, <1>6, <1>7, <1>8 DEF OfInit
<1>13. CASE \A x, y \in asked : x = y
  <2>1. Cardinality(asked) <= 1 /\ Cardinality(asked) = 1
    BY <1>9, <1>11, <1>12, <1>13
  <2>2. FindInject(p, r) = asked
    BY <1>9, <1>10, <1>12, <2>1
  <2> QED
    BY <1>11, <2>1, <2>2 DEF p, r
<1>14. CASE ~(\A x, y \in asked : x = y)
  <2>1. ~(Cardinality(asked) <= 1) /\ Cardinality(asked) > 1
    BY <1>9, <1>12, <1>14
  <2>2. CASE context # {}
    <3>1. FindInject(p, r) = context
      BY <1>10, <1>11, <2>1, <2>2
    <3>2. Cardinality(OfContext(p, r)) <= 1 => Cardinality(context) = 1
      BY <1>4, <1>6, <1>9, <1>12, <2>2
    <3> QED
      BY <2>2, <3>1, <3>2 DEF p, r
  <2>3. CASE context = {}
    <3>1. FindInject(p, r) = self
      BY <1>10, <1>11, <2>1, <2>3
    <3>2. protos[w].init # "CONTEXT"
      BY <1>2, <1>6, <2>3 DEF OfInit
    <3>3. fit # {w}
      BY <1>5, <1>14
    <3>4. own # {w}
      <4> SUFFICES ASSUME own = {w} PROVE FALSE
        OBVIOUS
      <4>1. protos[w].unit = p.unit
        BY DEF own, OfUnit
      <4>2. \A x \in asked : x \in own
        BY <1>2, <1>5, <4>1 DEF own, OfUnit
      <4> QED
        BY <1>14, <4>2
    <3>5. self = {w}
      <4>1. CASE OfInit(fit, p.init) = {w}
        BY <1>2, <1>7, <4>1
      <4>2. CASE OfInit(own, p.init) = {w}
        <5>1. w \in Registered \cap OfInit(fit, p.init) /\ protos[w].unit = p.unit
          BY <1>2, <4>2 DEF OfInit, OfUnit, own
        <5>2. \A x \in self : x \in OfInit(own, p.init)
          BY <1>7, <5>1 DEF OfInit, OfUnit, own
        <5> QED
          BY <1>7, <4>2, <5>1, <5>2
      <4> QED
        BY <1>2, <3>2, <3>3, <3>4, <4>1, <4>2
    <3>6. Cardinality(self) = 1
      BY <1>9, <1>12, <3>5
    <3> QED
      BY <3>1, <3>5, <3>6 DEF p, r
  <2> QED
    BY <2>2, <2>3
<1> QED
  BY <1>13, <1>14

\* What one prototype alone can answer, and is registered, is what is found.
LEMMA FindInjectOne ==
  ASSUME Registered \subseteq Nodes, NEW n, NEW i,
         Cardinality(Fits(protos[n], protos[n].injects[i].name, protos[n].injects[i].qualifiers)) = 1,
         Wired(n, i) \subseteq Registered
  PROVE  FindInject(protos[n], protos[n].injects[i])
           = Fits(protos[n], protos[n].injects[i].name, protos[n].injects[i].qualifiers)
<1> DEFINE p == protos[n]
           r == p.injects[i]
           q == r.qualifiers
           name == r.name
           fit == Fits(p, name, q)
           qn == Merge(q, <<>>)
           asked == GetPrototype(p.unit, name, qn)
<1>1. fit \subseteq Nodes
  BY DEF Fits
<1>2. Cardinality(fit) = 1 /\ Cardinality(fit) <= 1
  OBVIOUS
<1>3. Wired(n, i) = fit
  BY <1>2, WiredIs
<1>4. Fits(p, name, qn) = fit
  BY MergeNone DEF Fits
<1>5. asked \subseteq Registered \cap fit /\ (asked = {} => Registered \cap fit = {})
  BY <1>4, GetIs
<1>6. Cardinality(asked) <= 1 => FindInject(p, r) = asked
  <2> DEFINE context == GetPrototype(p.unit, name, Merge(q, [init |-> "CONTEXT"]))
             self == GetPrototype(p.unit, name, Merge(q, [init |-> p.init]))
  <2>1. FindInject(p, r) =
          CASE Cardinality(asked) <= 1 \/ "init" \in DOMAIN q -> asked
            [] Cardinality(asked) > 1 /\ "init" \notin DOMAIN q /\ context # {} -> context
            [] OTHER -> self
    BY Zenon DEF FindInject, TryFind
  <2>2. Cardinality(asked) \in Nat
    BY <1>1, <1>5, CountsOfNodes
  <2> HIDE DEF asked, context, self, q
  <2> QED
    BY <2>1, <2>2
<1> HIDE DEF fit, asked, p, r
<1>7. \E x \in fit : fit = {x}
  BY <1>1, <1>2, CountsOfNodes
<1>8. asked = fit
  BY <1>3, <1>5, <1>7 DEF fit, asked, p, r
<1> QED
  BY <1>2, <1>6, <1>8 DEF fit, p, r

-----------------------------------------------------------------------------
(* From the declaration to the boot *)

Failures == {"duplicate proto", "multi prototype", "recursive deps"}
BootFailures == {"multi at boot", "not found at boot"}
BootPhases == {"boot", "done"} \cup BootFailures
Founds == UNION {[DOMAIN s.injects -> Nat] : s \in Shapes}

GraphTypes ==
  /\ protos \in Seq(Shapes) /\ Distinct
  /\ phase \in {"declare", "built"} \cup Failures \cup BootPhases
  /\ created \in Nat /\ created <= Len(order)
  /\ injected \in Seq(Founds) /\ Len(injected) = created
  /\ phase \notin BootPhases => order = <<>>

\* Once it is built, the graph has an edge for each inject that is wired.
WiredInv ==
  phase \in {"built"} \cup BootPhases =>
    /\ GraphsNow \in LinkedGraphs /\ OneWired
    /\ \A n \in Nodes : \A i \in DOMAIN protos[n].injects : HasWired(GraphsNow, n, i)

\* The order of the boot is one of the graph.
OrderInv == phase \in BootPhases => Sorted(protoGraph, order)

GraphInv == GraphTypes /\ WiredInv /\ OrderInv /\ UnambiguousIsInjected

LEMMA GraphInit == Init => GraphInv
<1> SUFFICES ASSUME Init PROVE GraphInv
  OBVIOUS
<1>1. protos = <<>> /\ phase = "declare" /\ order = <<>> /\ created = 0 /\ injected = <<>>
  BY DEF Init
<1>2. protos \in Seq(Shapes) /\ injected \in Seq(Founds) /\ Len(injected) = 0 /\ Len(order) = 0
  BY <1>1
<1>3. Nodes = {}
  BY <1>1 DEF Nodes
<1>4. DOMAIN injected = {}
  BY <1>1
<1> QED
  BY <1>1, <1>2, <1>3, <1>4
  DEF GraphInv, GraphTypes, WiredInv, OrderInv, UnambiguousIsInjected, Distinct,
      Failures, BootFailures, BootPhases

LEMMA GraphDeclare == ASSUME GraphInv, NEW s \in Shapes, Declare(s) PROVE GraphInv'
<1> USE DEF GraphInv
<1>a. /\ phase = "declare" /\ order = <<>> /\ created = 0 /\ Len(injected) = 0
      /\ injected \in Seq(Founds) /\ protos \in Seq(Shapes)
  <2>1. phase = "declare"
    BY DEF Declare
  <2>2. order = <<>>
    BY <2>1 DEF GraphTypes, BootFailures, BootPhases
  <2>3. Len(order) = 0
    BY <2>2
  <2> QED
    BY <2>1, <2>2, <2>3 DEF GraphTypes
<1>b. UNCHANGED <<protoGraph, moduleGraph, order, created, injected>>
  BY DEF Declare, graphVars
<1>c. DOMAIN injected = {}
  BY <1>a
<1>1. CASE phase' = "duplicate proto" /\ UNCHANGED protos
  BY <1>1, <1>a, <1>b, <1>c
  DEF GraphTypes, WiredInv, OrderInv, UnambiguousIsInjected, Distinct, Nodes,
      Failures, BootFailures, BootPhases
<1>2. CASE /\ ~\E n \in Nodes : ProtoId(protos[n]) = ProtoId(s)
           /\ protos' = Append(protos, s) /\ UNCHANGED phase
  <2>1. /\ protos' \in Seq(Shapes) /\ Len(protos') = Len(protos) + 1
        /\ protos'[Len(protos) + 1] = s /\ \A n \in 1 .. Len(protos) : protos'[n] = protos[n]
    BY <1>2, <1>a, AppendProperties
  <2>2. \A n \in Nodes' : n \in Nodes \/ n = Len(protos) + 1
    BY <1>a, <2>1 DEF Nodes
  <2>3. \A n \in Nodes : protos'[n] = protos[n]
    BY <2>1 DEF Nodes
  <2>4. Distinct'
    <3> DEFINE id == [n \in Nodes' |-> ProtoId(protos'[n])]
    <3>1. \A n \in Nodes : n \in Nodes' /\ n # Len(protos) + 1 /\ id[n] = ProtoId(protos[n])
      BY <1>a, <2>1, <2>3 DEF Nodes
    <3>2. id[Len(protos) + 1] = ProtoId(s)
      BY <1>a, <2>1 DEF Nodes
    <3>3. \A m, n \in Nodes : id[m] = id[n] => m = n
      BY <3>1 DEF GraphTypes, Distinct
    <3>4. \A n \in Nodes : id[n] # id[Len(protos) + 1]
      BY <1>2, <3>1, <3>2
    <3>5. \A m, n \in Nodes' : id[m] = id[n] => m = n
      BY <2>2, <3>3, <3>4
    <3> QED
      BY <3>5 DEF Distinct, ProtoId
  <2> QED
    BY <1>2, <1>a, <1>b, <1>c, <2>1, <2>4
    DEF GraphTypes, WiredInv, OrderInv, UnambiguousIsInjected,
        Failures, BootFailures, BootPhases
<1> QED
  BY <1>1, <1>2 DEF Declare

\* What the properties read of the declaration stays.
LEMMA GraphFrame ==
  ASSUME UNCHANGED protos
  PROVE  /\ Nodes' = Nodes /\ Distinct' = Distinct /\ OneWired' = OneWired
         /\ \A n, i : Wired(n, i)' = Wired(n, i)
         /\ LinkedGraphs' = LinkedGraphs
         /\ \A p, name, q : Fits(p, name, q)' = Fits(p, name, q)
<1>1. Nodes' = Nodes
  BY DEF Nodes
<1>2. \A p, name, q : Fits(p, name, q)' = Fits(p, name, q)
  BY <1>1 DEF Fits, Select
<1>3. \A n, i : Wired(n, i)' = Wired(n, i)
  BY DEF Wired, FindDependency, Pick, Nodes
<1>4. Distinct' = Distinct
  BY <1>1, Zenon DEF Distinct, ProtoId
<1>5. OneWired' = OneWired
  BY <1>1, <1>3, Zenon DEF OneWired
<1>6. LinkedGraphs' = LinkedGraphs
  BY <1>1, Zenon DEF LinkedGraphs, Graphs, Linked
<1> QED
  BY <1>1, <1>2, <1>3, <1>4, <1>5, <1>6

\* Before the boot nothing is created.
LEMMA NothingYet ==
  ASSUME GraphTypes, phase \notin BootPhases
  PROVE  order = <<>> /\ created = 0 /\ DOMAIN injected = {}
<1>1. order = <<>>
  BY DEF GraphTypes
<1>2. Len(order) = 0
  BY <1>1
<1>3. created = 0
  BY <1>2 DEF GraphTypes
<1> QED
  BY <1>1, <1>3 DEF GraphTypes

\* A step before the boot that declares nothing.
LEMMA GraphBefore ==
  ASSUME GraphInv, phase \notin BootPhases, phase' \in {"declare", "built"} \cup Failures,
         UNCHANGED <<protos, order, created, injected>>, WiredInv'
  PROVE  GraphInv'
<1>1. DOMAIN injected' = {}
  BY NothingYet DEF GraphInv
<1>2. GraphTypes'
  BY GraphFrame, NothingYet DEF GraphInv, GraphTypes, Failures, BootPhases, BootFailures
<1>3. OrderInv' /\ UnambiguousIsInjected'
  BY <1>1 DEF OrderInv, UnambiguousIsInjected, Failures, BootPhases, BootFailures
<1> QED
  BY <1>2, <1>3 DEF GraphInv

LEMMA GraphBuild == ASSUME GraphInv, Build PROVE GraphInv'
<1>1. /\ phase = "declare" /\ phase \notin BootPhases
      /\ UNCHANGED <<protos, order, created, injected>>
  BY DEF Build, BootPhases, BootFailures
<1>2. CASE phase' = "multi prototype"
  <2>1. WiredInv'
    BY <1>2 DEF WiredInv, BootPhases, BootFailures
  <2> QED
    BY <1>1, <1>2, <2>1, GraphBefore DEF Failures
<1>3. CASE /\ ~\E ni \in Injects : Cardinality(Wired(ni[1], ni[2])) > 1
           /\ phase' = "built" /\ protoGraph' = BuildGraphs.proto /\ moduleGraph' = BuildGraphs.module
  <2>1. protos \in Seq(Shapes)
    BY DEF GraphInv, GraphTypes
  <2>2. OneWired
    <3> SUFFICES ASSUME NEW n \in Nodes, NEW i \in DOMAIN protos[n].injects,
                        NEW x \in Wired(n, i), NEW y \in Wired(n, i)
                 PROVE  x = y
      BY DEF OneWired
    <3> DEFINE ni == <<n, i>>
    <3>1. ni \in Injects
      BY DEF Injects
    <3>2. ni[1] = n /\ ni[2] = i
      OBVIOUS
    <3> HIDE DEF ni
    <3>3. ~(Cardinality(Wired(n, i)) > 1)
      BY <1>3, <3>1, <3>2
    <3>4. Wired(n, i) \subseteq Nodes
      BY WiredIn
    <3>5. Cardinality(Wired(n, i)) \in Nat
          /\ (Cardinality(Wired(n, i)) <= 1 <=> \A a, b \in Wired(n, i) : a = b)
      BY <3>4, CountsOfNodes
    <3> QED
      BY <3>3, <3>5
  <2>3. /\ BuildGraphs \in LinkedGraphs
        /\ \A n \in Nodes : \A i \in DOMAIN protos[n].injects : HasWired(BuildGraphs, n, i)
    BY <2>1, <2>2, BuildGraphsAre
  <2>4. GraphsNow' = BuildGraphs
    BY <1>3, <2>3 DEF GraphsNow, LinkedGraphs, Graphs
  <2>5. OneWired' /\ LinkedGraphs' = LinkedGraphs /\ Nodes' = Nodes /\ protos' = protos
        /\ \A n, i : Wired(n, i)' = Wired(n, i)
    BY <1>1, <2>2, GraphFrame
  <2>6. \A n \in Nodes : \A i \in DOMAIN protos[n].injects : HasWired(GraphsNow, n, i)'
    BY <2>3, <2>4, <2>5 DEF HasWired
  <2>7. WiredInv'
    BY <2>3, <2>4, <2>5, <2>6 DEF WiredInv
  <2> QED
    BY <1>1, <1>3, <2>7, GraphBefore
<1> QED
  BY <1>2, <1>3 DEF Build

LEMMA GraphHooked ==
  ASSUME GraphInv, phase = "built", NEW froms \in SUBSET Nodes, NEW to \in Nodes,
         Hooked(froms, to), UNCHANGED <<protos, optional, phase, order, created, injected>>
  PROVE  GraphInv'
<1>1. protos \in Seq(Shapes) /\ phase \notin BootPhases /\ phase' = "built"
  BY DEF GraphInv, GraphTypes, BootPhases, BootFailures
<1>2. /\ GraphsNow \in LinkedGraphs /\ OneWired
      /\ \A n \in Nodes : \A i \in DOMAIN protos[n].injects : HasWired(GraphsNow, n, i)
  BY DEF GraphInv, WiredInv
<1> DEFINE h == AddInject(GraphsNow, froms, to)
<1>3. h \in LinkedGraphs /\ Keeps(GraphsNow, h)
  BY <1>1, <1>2, InjectAdded
<1>4. protoGraph' = h.proto /\ moduleGraph' = h.module
  BY DEF Hooked, GraphsNow
<1> HIDE DEF h
<1>5. GraphsNow' = h
  BY <1>3, <1>4 DEF GraphsNow, LinkedGraphs, Graphs
<1>6. OneWired' /\ LinkedGraphs' = LinkedGraphs /\ Nodes' = Nodes /\ protos' = protos
      /\ \A n, i : Wired(n, i)' = Wired(n, i)
  BY <1>2, GraphFrame
<1>7. \A n \in Nodes : \A i \in DOMAIN protos[n].injects : HasWired(GraphsNow, n, i)'
  BY <1>2, <1>3, <1>5, <1>6 DEF HasWired, Keeps
<1>8. WiredInv'
  BY <1>3, <1>5, <1>6, <1>7 DEF WiredInv
<1> QED
  BY <1>1, <1>8, GraphBefore

LEMMA GraphPointCut ==
  ASSUME GraphInv, NEW n \in Nodes, NEW name, PointCutGraphHook(n, name)
  PROVE  GraphInv'
<1> DEFINE found == FindDependency(protos[n], [name |-> name, qualifiers |-> <<>>])
<1>1. phase = "built" /\ UNCHANGED <<protos, optional, order, created, injected>>
  BY DEF PointCutGraphHook
<1>2. \/ Cardinality(found) = 1 /\ Hooked({n}, CHOOSE to \in found : TRUE) /\ UNCHANGED phase
      \/ phase' = "multi prototype"
  BY DEF PointCutGraphHook
<1>3. found \subseteq Nodes
  BY FoundIn
<1> HIDE DEF found
<1>4. CASE Cardinality(found) = 1 /\ Hooked({n}, CHOOSE to \in found : TRUE) /\ UNCHANGED phase
  <2>1. (CHOOSE to \in found : TRUE) \in Nodes
    BY <1>3, <1>4, CountsOfNodes
  <2> QED
    BY <1>1, <1>4, <2>1, GraphHooked
<1>5. CASE phase' = "multi prototype"
  <2>1. WiredInv'
    BY <1>5 DEF WiredInv, BootPhases, BootFailures
  <2> QED
    BY <1>1, <1>5, <2>1, GraphBefore DEF Failures, BootPhases, BootFailures
<1> QED
  BY <1>2, <1>4, <1>5

LEMMA GraphSort == ASSUME GraphInv, SortAll PROVE GraphInv'
<1>1. /\ phase = "built" /\ phase \notin BootPhases
      /\ UNCHANGED <<protos, optional, protoGraph, moduleGraph, created, injected>>
  BY DEF SortAll, BootPhases, BootFailures
<1>2. CASE phase' = "recursive deps" /\ UNCHANGED order
  <2>1. WiredInv'
    BY <1>2 DEF WiredInv, BootPhases, BootFailures
  <2> QED
    BY <1>1, <1>2, <2>1, GraphBefore DEF Failures
<1>3. CASE /\ ~HasLoop(moduleGraph) /\ ~HasLoop(protoGraph)
           /\ phase' = "boot" /\ order' = Joined(SortModule)
  <2>1. /\ protos \in Seq(Shapes) /\ GraphsNow \in LinkedGraphs /\ OneWired
        /\ \A n \in Nodes : \A i \in DOMAIN protos[n].injects : HasWired(GraphsNow, n, i)
    BY <1>1 DEF GraphInv, GraphTypes, WiredInv
  <2>2. Sorted(protoGraph, Joined(SortModule))
    BY <1>3, <2>1, OrderIs
  <2>3. OrderInv'
    BY <1>1, <1>3, <2>2 DEF OrderInv, Sorted, Once
  <2>4. Len(order') \in Nat
    BY <1>3, <2>2 DEF Sorted
  <2>5. created = 0 /\ DOMAIN injected = {}
    BY <1>1, NothingYet DEF GraphInv
  <2>6. GraphTypes'
    BY <1>1, <1>3, <2>4, <2>5, GraphFrame DEF GraphInv, GraphTypes, BootPhases
  <2>7. OneWired' /\ LinkedGraphs' = LinkedGraphs /\ Nodes' = Nodes /\ GraphsNow' = GraphsNow
        /\ \A n, i : Wired(n, i)' = Wired(n, i)
    BY <1>1, <2>1, GraphFrame DEF GraphsNow
  <2>8. \A n \in Nodes : \A i \in DOMAIN protos[n].injects : HasWired(GraphsNow, n, i)'
    BY <2>1, <2>7 DEF HasWired
  <2>9. WiredInv'
    BY <1>1, <2>1, <2>7, <2>8 DEF WiredInv
  <2>10. UnambiguousIsInjected'
    BY <1>1, <1>3, <2>5 DEF UnambiguousIsInjected
  <2> QED
    BY <2>3, <2>6, <2>9, <2>10 DEF GraphInv
<1> QED
  BY <1>2, <1>3 DEF SortAll

LEMMA InjectedStays ==
  ASSUME UnambiguousIsInjected, UNCHANGED <<protos, order, injected>>
  PROVE  UnambiguousIsInjected'
<1>1. Nodes' = Nodes
  BY DEF Nodes
<1> QED
  BY <1>1 DEF UnambiguousIsInjected, Select

LEMMA GraphStays ==
  ASSUME WiredInv, OrderInv, UNCHANGED <<protos, protoGraph, moduleGraph, order>>,
         phase' = phase \/ (phase \in BootPhases /\ phase' \in BootPhases)
  PROVE  WiredInv' /\ OrderInv'
<1>1. /\ OneWired' = OneWired /\ LinkedGraphs' = LinkedGraphs /\ Nodes' = Nodes
      /\ GraphsNow' = GraphsNow /\ \A n, i : Wired(n, i)' = Wired(n, i)
  BY GraphFrame DEF GraphsNow
<1>2. \A n, i : HasWired(GraphsNow, n, i)' = HasWired(GraphsNow, n, i)
  BY <1>1 DEF HasWired
<1>3. WiredInv'
  BY <1>1, <1>2 DEF WiredInv
<1>4. OrderInv'
  BY DEF OrderInv, Sorted, Once
<1> QED
  BY <1>3, <1>4

\* What the next prototype was wired to is registered.
LEMMA WiredBefore ==
  ASSUME created \in Nat, created < Len(order), order \in Seq(Nodes), Sorted(protoGraph, order),
         \A m \in Nodes : \A i \in DOMAIN protos[m].injects : HasWired(GraphsNow, m, i)
  PROVE  LET n == order[created + 1] IN
         /\ created + 1 \in DOMAIN order /\ n \in Nodes /\ Registered \subseteq Nodes
         /\ \A i \in DOMAIN protos[n].injects : Wired(n, i) \subseteq Registered
<1> DEFINE n == order[created + 1]
<1>1. created + 1 \in DOMAIN order /\ n \in Nodes
  OBVIOUS
<1>2. \A j \in 1 .. created : j \in DOMAIN order /\ order[j] \in Nodes
  OBVIOUS
<1>3. Registered \subseteq Nodes
  BY <1>2 DEF Registered
<1>4. \A j \in DOMAIN order : j < created + 1 => order[j] \in Registered
  <2>1. \A j \in DOMAIN order : j < created + 1 => j \in 1 .. created
    OBVIOUS
  <2> QED
    BY <2>1 DEF Registered
<1>5. ASSUME NEW i \in DOMAIN protos[n].injects, NEW to \in Wired(n, i)
      PROVE  to \in Registered
  <2>1. to \in Range(protoGraph[n])
    BY <1>1, <1>5 DEF HasWired, GraphsNow
  <2>2. PICK j \in DOMAIN order : j < created + 1 /\ order[j] = to
    BY <1>1, <2>1 DEF Sorted
  <2> QED
    BY <1>4, <2>2
<1> QED
  BY <1>1, <1>3, <1>5

LEMMA GraphCreate == ASSUME GraphInv, Create PROVE GraphInv'
<1> DEFINE n == order[created + 1]
           p == protos[n]
           found == [i \in DOMAIN p.injects |-> FindInject(p, p.injects[i])]
           got == [i \in DOMAIN found |->
                     IF found[i] = {} THEN NotFound ELSE CHOOSE m \in found[i] : TRUE]
<1>1. /\ phase = "boot" /\ phase \in BootPhases /\ created < Len(order)
      /\ UNCHANGED <<protos, optional, protoGraph, moduleGraph, hooks, order>>
  BY DEF Create, BootPhases, graphVars
<1>2. \/ IsBuilt(p, found) /\ created' = created + 1 /\ UNCHANGED phase
         /\ injected' = Append(injected, got)
      \/ /\ ~IsBuilt(p, found) /\ UNCHANGED <<created, injected>>
         /\ phase' = IF \E i \in DOMAIN found : Cardinality(found[i]) > 1
                     THEN "multi at boot" ELSE "not found at boot"
  BY Zenon DEF Create
<1>3. /\ protos \in Seq(Shapes) /\ Distinct /\ created \in Nat /\ created <= Len(order)
      /\ injected \in Seq(Founds) /\ Len(injected) = created
      /\ GraphsNow \in LinkedGraphs /\ OneWired
      /\ \A m \in Nodes : \A i \in DOMAIN protos[m].injects : HasWired(GraphsNow, m, i)
      /\ Sorted(protoGraph, order)
  BY <1>1 DEF GraphInv, GraphTypes, WiredInv, OrderInv
<1>4. DOMAIN protoGraph = Nodes /\ order \in Seq(Nodes)
  BY <1>3, GraphsAre DEF Sorted
<1>5. /\ created + 1 \in DOMAIN order /\ n \in Nodes /\ Registered \subseteq Nodes
      /\ \A i \in DOMAIN p.injects : Wired(n, i) \subseteq Registered
  BY <1>1, <1>3, <1>4, WiredBefore
<1>7. p \in Shapes /\ DOMAIN found = DOMAIN p.injects
      /\ \A i \in DOMAIN p.injects : found[i] = FindInject(p, p.injects[i])
  BY <1>3, <1>5 DEF Nodes
<1>8. \A i \in DOMAIN p.injects : found[i] \subseteq Nodes
  <2> TAKE i \in DOMAIN p.injects
  <2> DEFINE r == p.injects[i]
  <2>1. \A more : TryFind(p, r, more) \subseteq Nodes
    BY <1>5, GetIs DEF TryFind, Fits
  <2>2. FindInject(p, r) \in
          {TryFind(p, r, <<>>), TryFind(p, r, [init |-> "CONTEXT"]), TryFind(p, r, [init |-> p.init])}
    BY DEF FindInject
  <2> QED
    BY <1>7, <2>1, <2>2
<1> HIDE DEF found
<1>9. CASE IsBuilt(p, found) /\ created' = created + 1 /\ UNCHANGED phase
           /\ injected' = Append(injected, got)
  <2>1. got \in Founds
    <3>1. \A i \in DOMAIN found : got[i] \in Nat
      <4> TAKE i \in DOMAIN found
      <4> DEFINE m == CHOOSE m \in found[i] : TRUE
      <4>1. found[i] \subseteq Nat
        BY <1>7, <1>8 DEF Nodes
      <4>2. got[i] = IF found[i] = {} THEN 0 ELSE m
        BY DEF NotFound
      <4> HIDE DEF got
      <4>3. found[i] # {} => m \in found[i]
        OBVIOUS
      <4> HIDE DEF m
      <4> QED
        BY <4>1, <4>2, <4>3
    <3>2. got \in [DOMAIN p.injects -> Nat]
      BY <1>7, <3>1
    <3> HIDE DEF got, p
    <3> QED
      BY <1>7, <3>2 DEF Founds
  <2> HIDE DEF got
  <2>2. /\ injected' \in Seq(Founds) /\ Len(injected') = created + 1
        /\ injected'[created + 1] = got /\ \A c \in 1 .. created : injected'[c] = injected[c]
    BY <1>3, <1>9, <2>1, AppendProperties
  <2>3. GraphTypes'
    BY <1>1, <1>3, <1>4, <1>9, <2>2, GraphFrame DEF GraphInv, GraphTypes
  <2>4. \A i \in DOMAIN got :
          LET fit == Fits(p, p.injects[i].name, p.injects[i].qualifiers) IN
          Cardinality(fit) = 1 => got[i] \in fit
    <3> SUFFICES ASSUME NEW i \in DOMAIN p.injects,
                        Cardinality(Fits(p, p.injects[i].name, p.injects[i].qualifiers)) = 1
                 PROVE  got[i] \in Fits(p, p.injects[i].name, p.injects[i].qualifiers)
      BY <1>7 DEF got
    <3> DEFINE fit == Fits(p, p.injects[i].name, p.injects[i].qualifiers)
    <3>1. found[i] = fit
      BY <1>5, <1>7, FindInjectOne
    <3>2. fit # {}
      <4>1. fit \subseteq Nodes
        BY DEF Fits
      <4> QED
        BY <4>1, CountsOfNodes
    <3> HIDE DEF fit, p
    <3>3. got[i] = CHOOSE m \in fit : TRUE
      BY <1>7, <3>1, <3>2 DEF got
    <3> QED
      BY <3>2, <3>3 DEF fit
  <2>5. UnambiguousIsInjected'
    <3> SUFFICES ASSUME NEW c \in DOMAIN injected', NEW i \in DOMAIN injected'[c],
                        Cardinality(Fits(protos[order[c]], protos[order[c]].injects[i].name,
                                         protos[order[c]].injects[i].qualifiers)) = 1
                 PROVE  injected'[c][i] \in Fits(protos[order[c]], protos[order[c]].injects[i].name,
                                                 protos[order[c]].injects[i].qualifiers)
      BY <1>1, GraphFrame DEF UnambiguousIsInjected, Fits
    <3>1. c \in 1 .. created \/ c = created + 1
      BY <1>3, <2>2
    <3>2. CASE c \in 1 .. created
      BY <1>3, <2>2, <3>2 DEF GraphInv, UnambiguousIsInjected, Fits
    <3>3. CASE c = created + 1
      BY <2>2, <2>4, <3>3
    <3> QED
      BY <3>1, <3>2, <3>3
  <2>6. WiredInv' /\ OrderInv'
    BY <1>1, <1>9, GraphStays DEF GraphInv
  <2> QED
    BY <2>3, <2>5, <2>6 DEF GraphInv
<1>10. CASE /\ ~IsBuilt(p, found) /\ UNCHANGED <<created, injected>>
            /\ phase' = IF \E i \in DOMAIN found : Cardinality(found[i]) > 1
                        THEN "multi at boot" ELSE "not found at boot"
  <2>1. phase' \in BootFailures
    BY <1>10 DEF BootFailures
  <2>2. GraphTypes' /\ UnambiguousIsInjected'
    <3>1. GraphTypes'
      BY <1>1, <1>3, <1>10, <2>1, GraphFrame DEF GraphTypes, BootPhases
    <3>2. UnambiguousIsInjected'
      BY <1>1, <1>10, InjectedStays DEF GraphInv
    <3> QED
      BY <3>1, <3>2
  <2>3. WiredInv' /\ OrderInv'
    BY <1>1, <2>1, GraphStays DEF GraphInv, BootPhases
  <2> QED
    BY <2>2, <2>3 DEF GraphInv
<1> QED
  BY <1>2, <1>9, <1>10

LEMMA GraphForeseen == GraphInv => GraphForeseesBoot
<1> SUFFICES ASSUME GraphInv PROVE GraphForeseesBoot
  OBVIOUS
<1>1. CreatedAfterWired
  <2> SUFFICES ASSUME phase \in {"boot", "done"}, NEW i \in DOMAIN order,
                      NEW to \in Range(protoGraph[order[i]])
               PROVE  Contains(order, to) /\ Position(to) < i
    BY DEF CreatedAfterWired
  <2>1. Sorted(protoGraph, order)
    BY DEF GraphInv, OrderInv, BootPhases
  <2>2. PICK j \in DOMAIN order : j < i /\ order[j] = to
    BY <2>1 DEF Sorted
  <2>3. Position(to) \in DOMAIN order /\ order[Position(to)] = to
    BY <2>2 DEF Position
  <2>4. Position(to) = j
    BY <2>1, <2>2, <2>3 DEF Sorted, Once
  <2>5. Contains(order, to)
    BY <2>1, <2>2 DEF Contains, Sorted
  <2> QED
    BY <2>2, <2>4, <2>5
<1>2. WiredIsFound
  <2> SUFFICES ASSUME created < Len(order) PROVE WiredIsFound
    BY DEF WiredIsFound
  <2> DEFINE n == order[created + 1]
  <2>1. phase \in BootPhases
    <3>1. phase \notin BootPhases => order = <<>>
      BY DEF GraphInv, GraphTypes
    <3>2. order = <<>> => Len(order) = 0
      OBVIOUS
    <3> QED
      BY <3>1, <3>2 DEF GraphInv, GraphTypes
  <2>2. /\ protos \in Seq(Shapes) /\ created \in Nat /\ GraphsNow \in LinkedGraphs /\ OneWired
        /\ \A m \in Nodes : \A i \in DOMAIN protos[m].injects : HasWired(GraphsNow, m, i)
        /\ Sorted(protoGraph, order)
    BY <2>1 DEF GraphInv, GraphTypes, WiredInv, OrderInv
  <2>3. order \in Seq(Nodes)
    BY <2>2, GraphsAre DEF Sorted
  <2>4. /\ n \in Nodes /\ Registered \subseteq Nodes
        /\ \A i \in DOMAIN protos[n].injects : Wired(n, i) \subseteq Registered
    BY <2>2, <2>3, WiredBefore
  <2> HIDE DEF n
  <2>5. \A i \in DOMAIN protos[n].injects :
          LET r == protos[n].injects[i]
              found == FindInject(protos[n], r) IN
          Wired(n, i) # {} /\ "init" \notin DOMAIN r.qualifiers =>
            found # {} /\ (Cardinality(OfContext(protos[n], r)) <= 1 => Cardinality(found) = 1)
    BY <2>2, <2>4, FindInjectFinds
  <2> QED
    BY <2>5, Zenon DEF WiredIsFound, n
<1> QED
  BY <1>1, <1>2 DEF GraphInv, GraphForeseesBoot

\* Whatever an application declares, with whatever injects, optional modules and edges
\* added by hooks: a boot creates each prototype after all it was wired to, gives an
\* inject that one prototype alone can answer that one, and fails at a prototype only for
\* an inject of it that the graph left out, that asks for an init type, or that several
\* prototypes of the context answer.
THEOREM GraphForesees == MCSpec => []GraphForeseesBoot
<1>1. MCInit => GraphInv
  BY GraphInit DEF MCInit
<1>2. GraphInv /\ [MCNext]_<<part, vars, bootVars, moduleVars, eggVars, classVars>> => GraphInv'
  <2> SUFFICES ASSUME GraphInv, [MCNext]_<<part, vars, bootVars, moduleVars, eggVars, classVars>>
               PROVE  GraphInv'
    OBVIOUS
  <2>1. CASE Next
    <3>1. ASSUME NEW s \in Shapes, Declare(s) PROVE GraphInv'
      BY <3>1, GraphDeclare
    <3>2. CASE Build
      BY <3>2, GraphBuild
    <3>3. ASSUME NEW advice \in Nodes, NEW matched \in SUBSET Nodes,
                 CrossCutGraphHook(advice, matched)
          PROVE  GraphInv'
      BY <3>3, GraphHooked DEF CrossCutGraphHook
    <3>4. ASSUME NEW n \in Nodes, NEW name, PointCutGraphHook(n, name) PROVE GraphInv'
      BY <3>4, GraphPointCut
    <3>5. ASSUME NEW controller \in Nodes, NEW middleware \in Nodes,
                 MiddlewareGraphHook(controller, middleware)
          PROVE  GraphInv'
      <4>1. {controller} \in SUBSET Nodes
        OBVIOUS
      <4> QED
        BY <3>5, <4>1, GraphHooked DEF MiddlewareGraphHook
    <3>6. CASE SortAll
      BY <3>6, GraphSort
    <3>7. CASE Create
      BY <3>7, GraphCreate
    <3>8. CASE Booted
      <4>1. UNCHANGED <<protos, protoGraph, moduleGraph, order, created, injected>>
            /\ phase \in BootPhases /\ phase' \in BootPhases
        BY <3>8 DEF Booted, BootPhases, graphVars
      <4>2. WiredInv' /\ OrderInv'
        BY <4>1, GraphStays DEF GraphInv
      <4>3. GraphTypes'
        BY <3>8, <4>1, GraphFrame DEF GraphInv, GraphTypes, Booted
      <4>4. UnambiguousIsInjected'
        BY <4>1, InjectedStays DEF GraphInv
      <4> QED
        BY <4>2, <4>3, <4>4 DEF GraphInv
    <3> QED
      BY <2>1, <3>1, <3>2, <3>3, <3>4, <3>5, <3>6, <3>7, <3>8 DEF Next
  <2>2. CASE UNCHANGED vars
    <3>1. UNCHANGED <<protos, phase, protoGraph, moduleGraph, order, created, injected>>
      BY <2>2 DEF vars, graphVars
    <3>2. GraphTypes' /\ UnambiguousIsInjected'
      <4>1. GraphTypes'
        BY <3>1, GraphFrame DEF GraphInv, GraphTypes
      <4>2. UnambiguousIsInjected'
        BY <3>1, InjectedStays DEF GraphInv
      <4> QED
        BY <4>1, <4>2
    <3>3. WiredInv' /\ OrderInv'
      BY <3>1, GraphStays DEF GraphInv, WiredInv, OrderInv
    <3> QED
      BY <3>2, <3>3 DEF GraphInv
  <2> QED
    BY <2>1, <2>2 DEF MCNext
<1>3. GraphInv => GraphForeseesBoot
  BY GraphForeseen
<1> QED
  BY <1>1, <1>2, <1>3, PTL DEF MCSpec

-----------------------------------------------------------------------------
(* What a class declares, and what its object gets *)

LEMMA InjectionCounts ==
  /\ \A S : I!Cardinality(S) = Cardinality(S)
  /\ \A f : I!Range(f) = {f[k] : k \in DOMAIN f}
BY DEF I!Cardinality, Cardinality, I!Range

\* As many records as indices.
LEMMA IndexCount ==
  ASSUME NEW K \in SUBSET Nat, IsFiniteSet(K), NEW ent, \A k \in K : ent[k].index = k
  PROVE  /\ IsFiniteSet({ent[k] : k \in K})
         /\ Cardinality({ent[k] : k \in K}) = Cardinality(K)
<1> DEFINE S == {ent[k] : k \in K}
           f == [k \in K |-> ent[k]]
<1>1. f \in [K -> S]
  OBVIOUS
<1>2. \A k, j \in K : f[k] = f[j] => k = j
  BY <1>1
<1>3. \A s \in S : \E k \in K : f[k] = s
  OBVIOUS
<1> HIDE DEF f, S
<1>4. f \in Injection(K, S)
  BY <1>1, <1>2 DEF Injection, IsInjective
<1>5. f \in Surjection(K, S)
  BY <1>1, <1>3 DEF Surjection
<1>6. ExistsBijection(K, S)
  BY <1>4, <1>5 DEF ExistsBijection, Bijection
<1> QED
  BY <1>6, FS_Bijection DEF S

\* The indices up to k, without that of the ObjectInfo.
LEMMA UpToCount ==
  ASSUME NEW k \in Nat, NEW info \in Nat
  PROVE  /\ IsFiniteSet((1 .. k) \ {info})
         /\ Cardinality((1 .. k) \ {info}) = IF info \in 1 .. k THEN k - 1 ELSE k
<1>1. IsFiniteSet(1 .. k) /\ Cardinality(1 .. k) = k
  <2>1. /\ IsFiniteSet(1 .. k) /\ Cardinality(1 .. k) = IF 1 > k THEN 0 ELSE k - 1 + 1
    BY FS_Interval
  <2> QED
    BY <2>1
<1> QED
  BY <1>1, FS_RemoveElement

\* Where a parameter is among those without the ObjectInfo's, and which is at a place.
Ranked(info, k) == IF info # 0 /\ info < k THEN k - 1 ELSE k
RankedAt(info, k) == IF info = 0 \/ k < info THEN k ELSE k + 1

\* Of the first n parameters, those but the ObjectInfo's, sorted by their index.
LEMMA Placing ==
  ASSUME NEW n \in Nat, NEW info \in 0 .. n, NEW ent,
         \A k \in (1 .. n) \ {info} : ent[k].index = k,
         NEW T, T = {ent[k] : k \in (1 .. n) \ {info}},
         NEW m, m = IF info = 0 THEN n ELSE n - 1
  PROVE  /\ I!InOrder(T) = [k \in 1 .. m |-> I!InOrder(T)[k]]
         /\ \A k \in 1 .. m : I!InOrder(T)[k] = ent[RankedAt(info, k)]
<1> DEFINE K == (1 .. n) \ {info}
           S == {ent[k] : k \in K}
           Rank(r) == I!Cardinality({s \in S : s.index <= r.index})
<1>1. K \in SUBSET Nat /\ IsFiniteSet(K) /\ Cardinality(K) = m
  <2>1. info \in 1 .. n <=> info # 0
    OBVIOUS
  <2>2. IsFiniteSet(K) /\ Cardinality(K) = IF info \in 1 .. n THEN n - 1 ELSE n
    BY UpToCount
  <2> QED
    BY <2>1, <2>2
<1>2. \A k \in K : ent[k].index = k
  OBVIOUS
<1>3. Cardinality(S) = m
  BY <1>1, <1>2, IndexCount
<1>4. \A k \in K : Rank(ent[k]) = Ranked(info, k)
  <2> SUFFICES ASSUME NEW k \in K PROVE Rank(ent[k]) = Ranked(info, k)
    OBVIOUS
  <2> DEFINE L == (1 .. k) \ {info}
  <2>1. k \in Nat /\ k >= 1 /\ k <= n /\ k # info
    OBVIOUS
  <2>2. L \in SUBSET Nat /\ L \subseteq K
    BY <2>1
  <2>3. IsFiniteSet(L) /\ Cardinality(L) = IF info \in 1 .. k THEN k - 1 ELSE k
    <3>1. info \in Nat
      OBVIOUS
    <3> QED
      BY <2>1, <3>1, UpToCount
  <2>4. Cardinality(L) = Ranked(info, k)
    BY <2>1, <2>3 DEF Ranked
  <2>5. {s \in S : s.index <= ent[k].index} = {ent[j] : j \in L}
    <3>1. ASSUME NEW s \in S, s.index <= ent[k].index PROVE \E j \in L : s = ent[j]
      <4>1. PICK j \in K : s = ent[j]
        OBVIOUS
      <4>2. j <= k
        BY <1>2, <3>1, <4>1
      <4>3. j \in L
        BY <4>2, <2>1
      <4> QED
        BY <4>1, <4>3
    <3>2. ASSUME NEW j \in L PROVE ent[j] \in S /\ ent[j].index <= ent[k].index
      <4>1. j \in K /\ j <= k
        BY <2>1
      <4> QED
        BY <1>2, <4>1
    <3> HIDE DEF S, L, K
    <3> QED
      BY <3>1, <3>2
  <2>6. Cardinality({ent[j] : j \in L}) = Cardinality(L)
    BY <1>2, <2>2, <2>3, IndexCount
  <2> QED
    BY <2>4, <2>5, <2>6, InjectionCounts
<1>5. \A k, j \in K : Ranked(info, k) = Ranked(info, j) => k = j
  BY DEF Ranked
<1>6. \A k \in 1 .. m : RankedAt(info, k) \in K /\ Ranked(info, RankedAt(info, k)) = k
  BY DEF Ranked, RankedAt
<1>7. I!InOrder(S) = [k \in 1 .. m |-> CHOOSE r \in S : Rank(r) = k]
  <2>1. I!Cardinality(S) = m
    BY <1>3, InjectionCounts
  <2> QED
    BY <2>1 DEF I!InOrder
<1>8. ASSUME NEW k \in 1 .. m PROVE (CHOOSE r \in S : Rank(r) = k) = ent[RankedAt(info, k)]
  <2>1. /\ ent[RankedAt(info, k)] \in S /\ Rank(ent[RankedAt(info, k)]) = k
    BY <1>4, <1>6
  <2>2. \A r \in S : Rank(r) = k => r = ent[RankedAt(info, k)]
    <3> SUFFICES ASSUME NEW r \in S, Rank(r) = k PROVE r = ent[RankedAt(info, k)]
      OBVIOUS
    <3>1. PICK j \in K : r = ent[j]
      OBVIOUS
    <3>2. Ranked(info, j) = k
      BY <3>1, <1>4
    <3>3. j = RankedAt(info, k)
      BY <3>2, <1>5, <1>6
    <3> QED
      BY <3>1, <3>3
  <2> HIDE DEF Rank, S
  <2> QED
    BY <2>1, <2>2
<1> HIDE DEF S, Rank
<1>9. \A k \in 1 .. m : I!InOrder(S)[k] = ent[RankedAt(info, k)]
  BY <1>7, <1>8
<1>10. I!InOrder(S) = [k \in 1 .. m |-> I!InOrder(S)[k]]
  BY <1>7
<1> QED
  BY <1>9, <1>10 DEF S

\* A decorator, and what is noted of one that injects.
DecoratorAt(p) == I!Members(p.where)[p.index].decorators[p.nth]
NotedOf(p) ==
  [index |-> p.index, optional |-> DecoratorAt(p) = "optional",
   name |-> I!ObjName(I!Members(p.where)[p.index], DecoratorAt(p))]
WereApplied == I!Applied(class) \ todo
Injecting == {p \in WereApplied : DecoratorAt(p) \in {"inject", "optional"}}

\* What is noted of a class is what its decorators said so far, unless they were
\* refused; the constructor is called once with what they said; and the modules
\* described have the instances as they were declared.
ClassTypes ==
  /\ class \in Classes /\ todo \subseteq I!Applied(class) /\ described \in Nat
  /\ DOMAIN initType = 1 .. Len(class.properties) + Len(class.parameters)
  /\ injects \in Seq(I!Range(injects))
  /\ thrown = "none" => injectType \in {"none", "PROPERTY", "CONSTRUCTOR"}
NotedInv ==
  thrown = "none" =>
    /\ I!Range(injects) = {NotedOf(p) : p \in Injecting}
    /\ \A p \in Injecting : p.where = injectType
    /\ \A p \in WereApplied : DecoratorAt(p) = "asked" => initType[p.index] = "asked"
    /\ \/ infoIndex = 0 /\ \A p \in WereApplied : DecoratorAt(p) # "info"
       \/ \E p \in WereApplied : DecoratorAt(p) = "info" /\ infoIndex = p.index
ConstructedInv ==
  /\ described # 0 => todo = {}
  /\ args # None => /\ thrown = "none" /\ todo = {}
                    /\ args = IF injectType = "CONSTRUCTOR" THEN I!ConstructArgs ELSE <<>>
InstancesInv ==
  /\ units = [o \in class.instances |-> o.unit]
  /\ I!InstancesAreTheModules
ClassInv == ClassTypes /\ NotedInv /\ ConstructedInv /\ InstancesInv

LEMMA ClassAssumed == I!InjectionAssumption
BY InstancesAssumption DEF InstancesAssumption

\* The places of decorators.
LEMMA PlacesAre ==
  \A c, p : p \in I!Applied(c) <=>
    \E where \in {"PROPERTY", "CONSTRUCTOR"} :
      LET members == IF where = "PROPERTY" THEN c.properties ELSE c.parameters IN
      \E i \in DOMAIN members : \E k \in DOMAIN members[i].decorators :
        p = [where |-> where, index |-> i, nth |-> k]
<1> SUFFICES ASSUME NEW c, NEW p
             PROVE  p \in I!Applied(c) <=>
                      \E where \in {"PROPERTY", "CONSTRUCTOR"} :
                        LET members == IF where = "PROPERTY" THEN c.properties ELSE c.parameters
                        IN  \E i \in DOMAIN members : \E k \in DOMAIN members[i].decorators :
                              p = [where |-> where, index |-> i, nth |-> k]
  OBVIOUS
<1>1. ASSUME NEW where, NEW members
      PROVE  p \in I!Of(where, members) <=>
               \E i \in DOMAIN members : \E k \in DOMAIN members[i].decorators :
                 p = [where |-> where, index |-> i, nth |-> k]
  <2> DEFINE U == UNION {{i} \X DOMAIN members[i].decorators : i \in DOMAIN members}
  <2>1. ASSUME NEW i \in DOMAIN members, NEW k \in DOMAIN members[i].decorators
        PROVE  <<i, k>> \in U
    OBVIOUS
  <2>2. ASSUME NEW x \in U
        PROVE  \E i \in DOMAIN members : \E k \in DOMAIN members[i].decorators : x = <<i, k>>
    OBVIOUS
  <2>3. I!Of(where, members) = {[where |-> where, index |-> x[1], nth |-> x[2]] : x \in U}
    BY DEF I!Of
  <2> HIDE DEF U
  <2>4. ASSUME p \in I!Of(where, members)
        PROVE  \E i \in DOMAIN members : \E k \in DOMAIN members[i].decorators :
                 p = [where |-> where, index |-> i, nth |-> k]
    <3>1. PICK x \in U : p = [where |-> where, index |-> x[1], nth |-> x[2]]
      BY <2>3, <2>4
    <3>2. PICK i \in DOMAIN members : \E k \in DOMAIN members[i].decorators : x = <<i, k>>
      BY <2>2
    <3>3. PICK k \in DOMAIN members[i].decorators : x = <<i, k>>
      BY <3>2
    <3> QED
      BY <3>1, <3>3
  <2>5. ASSUME NEW i \in DOMAIN members, NEW k \in DOMAIN members[i].decorators,
               p = [where |-> where, index |-> i, nth |-> k]
        PROVE  p \in I!Of(where, members)
    <3>1. <<i, k>> \in U /\ <<i, k>>[1] = i /\ <<i, k>>[2] = k
      BY <2>1
    <3> QED
      BY <2>3, <2>5, <3>1
  <2> QED
    BY <2>4, <2>5
<1> HIDE DEF I!Of
<1>2. I!Applied(c) = I!Of("PROPERTY", c.properties) \cup I!Of("CONSTRUCTOR", c.parameters)
  BY DEF I!Applied
<1> QED
  BY <1>1, <1>2

LEMMA AppliedIs ==
  ASSUME class \in Classes, NEW p \in I!Applied(class)
  PROVE  /\ p.where \in {"PROPERTY", "CONSTRUCTOR"}
         /\ p.index \in 1 .. Len(class.properties) + Len(class.parameters)
         /\ p.index \in DOMAIN I!Members(p.where)
         /\ p.nth \in DOMAIN I!Members(p.where)[p.index].decorators
         /\ p = [where |-> p.where, index |-> p.index, nth |-> p.nth]
<1>1. PICK where \in {"PROPERTY", "CONSTRUCTOR"} :
        LET members == IF where = "PROPERTY" THEN class.properties ELSE class.parameters IN
        \E i \in DOMAIN members : \E k \in DOMAIN members[i].decorators :
          p = [where |-> where, index |-> i, nth |-> k]
  BY PlacesAre
<1> DEFINE members == I!Members(where)
<1>2. members = IF where = "PROPERTY" THEN class.properties ELSE class.parameters
  BY DEF I!Members
<1>3. Len(members) \in Nat /\ DOMAIN members = 1 .. Len(members)
  BY <1>1, <1>2, ClassAssumed DEF I!InjectionAssumption
<1>4. Len(class.properties) \in Nat /\ Len(class.parameters) \in Nat
  BY ClassAssumed DEF I!InjectionAssumption
<1> HIDE DEF members
<1>5. PICK i \in DOMAIN members : \E k \in DOMAIN members[i].decorators :
        p = [where |-> where, index |-> i, nth |-> k]
  BY <1>1, <1>2
<1>6. PICK k \in DOMAIN members[i].decorators : p = [where |-> where, index |-> i, nth |-> k]
  BY <1>5
<1>7. p.where = where /\ p.index = i /\ p.nth = k
  BY <1>6
<1>8. i \in 1 .. Len(class.properties) + Len(class.parameters)
  <2> DEFINE first == Len(class.properties)
             second == Len(class.parameters)
  <2>1. Len(members) \in {first, second}
    BY <1>2
  <2>2. first \in Nat /\ second \in Nat
    BY <1>4
  <2> HIDE DEF first, second
  <2>3. i \in 1 .. first \/ i \in 1 .. second
    BY <1>3, <1>5, <2>1
  <2>4. i \in 1 .. first + second
    BY <2>2, <2>3
  <2> QED
    BY <2>4 DEF first, second
<1> QED
  BY <1>6, <1>7, <1>8 DEF members

LEMMA ClassInit == ASSUME class \in Classes, I!Init PROVE ClassInv
<1>1. /\ todo = I!Applied(class) /\ injectType = "none" /\ injects = <<>> /\ infoIndex = 0
      /\ initType = [i \in 1 .. (Len(class.properties) + Len(class.parameters)) |-> "none"]
      /\ units = [o \in class.instances |-> o.unit] /\ described = 0 /\ descriptors = {}
      /\ args = None /\ thrown = "none"
  BY DEF I!Init
<1>2. WereApplied = {} /\ Injecting = {}
  BY <1>1 DEF WereApplied, Injecting
<1>3. I!Range(injects) = {}
  <2>1. DOMAIN injects = {}
    BY <1>1
  <2> QED
    BY <2>1, InjectionCounts
<1>4. ClassTypes
  BY <1>1 DEF ClassTypes
<1>5. NotedInv
  <2>1. {NotedOf(p) : p \in Injecting} = {}
    BY <1>2
  <2> QED
    BY <1>1, <1>2, <1>3, <2>1 DEF NotedInv
<1>6. ConstructedInv
  BY <1>1 DEF ConstructedInv
<1>7. InstancesInv
  <2>1. 1 .. described = {}
    BY <1>1
  <2>2. {n \in {Modules[k] : k \in 1 .. described} : class.kind = "dynamic" \/ n = Home} = {}
    BY <2>1
  <2> QED
    BY <1>1, <2>2 DEF InstancesInv, I!InstancesAreTheModules
<1> QED
  BY <1>4, <1>5, <1>6, <1>7 DEF ClassInv

LEMMA NotedAppend ==
  ASSUME NEW s, s \in Seq(I!Range(s)), NEW r, NEW t, t = Append(s, r)
  PROVE  I!Range(t) = I!Range(s) \cup {r} /\ t \in Seq(I!Range(t))
<1> DEFINE Z == I!Range(s) \cup {r}
           n == Len(s)
<1>1. s \in Seq(Z)
  <2>1. I!Range(s) \subseteq Z
    OBVIOUS
  <2> HIDE DEF Z
  <2> QED
    BY <2>1
<1>2. r \in Z
  OBVIOUS
<1> HIDE DEF Z
<1>3. /\ n \in Nat /\ DOMAIN s = 1 .. n /\ t \in Seq(Z) /\ DOMAIN t = 1 .. n + 1
      /\ t[n + 1] = r /\ \A k \in 1 .. n : t[k] = s[k]
  BY <1>1, <1>2, AppendProperties
<1>4. \A k \in 1 .. n + 1 : k \in 1 .. n \/ k = n + 1
  BY <1>3
<1>5. n + 1 \in 1 .. n + 1 /\ \A k \in 1 .. n : k \in 1 .. n + 1
  BY <1>3
<1> HIDE DEF n
<1>6. {t[k] : k \in DOMAIN t} = {s[k] : k \in DOMAIN s} \cup {r}
  BY <1>3, <1>4, <1>5
<1>7. I!Range(t) = Z
  BY <1>6, InjectionCounts DEF Z
<1> QED
  BY <1>3, <1>7 DEF Z

LEMMA ClassDecorate == ASSUME ClassInv, I!Decorate PROVE ClassInv'
<1> DEFINE d(p) == I!Members(p.where)[p.index].decorators[p.nth]
<1>1. PICK here \in todo :
        /\ \/ d(here) \in {"inject", "optional"} /\ I!Inject(here.where, here.index, d(here))
              /\ UNCHANGED infoIndex
           \/ /\ d(here) = "asked" /\ initType' = [initType EXCEPT ![here.index] = "asked"]
              /\ UNCHANGED <<injectType, injects, infoIndex, thrown>>
           \/ /\ d(here) = "info" /\ infoIndex' = here.index
              /\ UNCHANGED <<injectType, injects, initType, thrown>>
        /\ todo' = todo \ {here}
  BY DEF I!Decorate
<1>2. thrown = "none" /\ UNCHANGED <<class, units, described, descriptors, args>>
  BY DEF I!Decorate
<1>3. d(here) = DecoratorAt(here)
  BY DEF DecoratorAt
<1> HIDE DEF d
<1>4. here \in I!Applied(class) /\ todo # {} /\ described = 0 /\ args = None
  BY <1>2 DEF ClassInv, ClassTypes, ConstructedInv
<1>5. ConstructedInv'
  BY <1>2, <1>4 DEF ConstructedInv
<1>6. InstancesInv'
  BY <1>2 DEF ClassInv, InstancesInv, I!InstancesAreTheModules
<1>7. WereApplied' = WereApplied \cup {here}
  BY <1>1, <1>2, <1>4 DEF WereApplied
<1>8. \A p : DecoratorAt(p)' = DecoratorAt(p)
  BY <1>2 DEF DecoratorAt, I!Members
<1>9. \A p : NotedOf(p)' = NotedOf(p)
  BY <1>2, <1>8 DEF NotedOf, I!Members
<1>10. Injecting' = IF d(here) \in {"inject", "optional"} THEN Injecting \cup {here} ELSE Injecting
  BY <1>3, <1>7, <1>8 DEF Injecting
<1>11. here.index \in DOMAIN initType /\ here.where \in {"PROPERTY", "CONSTRUCTOR"}
  BY <1>4, AppliedIs DEF ClassInv, ClassTypes
<1>12. /\ I!Range(injects) = {NotedOf(p) : p \in Injecting}
       /\ \A p \in Injecting : p.where = injectType
       /\ \A p \in WereApplied : DecoratorAt(p) = "asked" => initType[p.index] = "asked"
       /\ \/ infoIndex = 0 /\ \A p \in WereApplied : DecoratorAt(p) # "info"
          \/ \E p \in WereApplied : DecoratorAt(p) = "info" /\ infoIndex = p.index
  BY <1>2 DEF ClassInv, NotedInv
<1>13. /\ injects \in Seq(I!Range(injects)) /\ injectType \in {"none", "PROPERTY", "CONSTRUCTOR"}
       /\ class \in Classes /\ todo \subseteq I!Applied(class) /\ described \in Nat
       /\ DOMAIN initType = 1 .. Len(class.properties) + Len(class.parameters)
  BY <1>2 DEF ClassInv, ClassTypes
<1>14. class' \in Classes /\ todo' \subseteq I!Applied(class') /\ described' \in Nat
  BY <1>1, <1>2, <1>13
<1>15. CASE d(here) \in {"inject", "optional"}
  <2>1. I!Inject(here.where, here.index, d(here)) /\ UNCHANGED infoIndex
    BY <1>1, <1>15
  <2> DEFINE member == I!Members(here.where)[here.index]
             noted == [index |-> here.index, optional |-> d(here) = "optional",
                       name |-> I!ObjName(member, d(here))]
  <2>2. noted = NotedOf(here)
    BY <1>3 DEF NotedOf
  <2>3. CASE injectType \notin {"none", here.where}
    <3>1. thrown' = "mixed" /\ UNCHANGED <<injectType, injects, initType>>
      BY <2>1, <2>3 DEF I!Inject
    <3>2. ClassTypes' /\ NotedInv'
      BY <1>2, <1>13, <1>14, <3>1, InjectionCounts DEF ClassTypes, NotedInv
    <3> QED
      BY <1>5, <1>6, <3>2 DEF ClassInv
  <2>4. CASE injectType \in {"none", here.where}
    <3>1. /\ injectType' = here.where /\ injects' = Append(injects, noted) /\ thrown' = thrown
          /\ initType' \in {initType, [initType EXCEPT ![here.index] = I!Guessed(here.index)]}
      BY <2>1, <2>4 DEF I!Inject
    <3> HIDE DEF noted
    <3>2. I!Range(injects)' = I!Range(injects) \cup {noted} /\ injects' \in Seq(I!Range(injects)')
      BY <1>13, <3>1, NotedAppend
    <3>3. DOMAIN initType' = DOMAIN initType
      BY <3>1
    <3>4. \A i \in DOMAIN initType : initType[i] = "asked" => initType'[i] = "asked"
      BY <3>1 DEF I!Guessed
    <3>5. ClassTypes'
      BY <1>2, <1>11, <1>13, <1>14, <3>1, <3>2, <3>3 DEF ClassTypes
    <3>6. I!Range(injects)' = {NotedOf(p)' : p \in Injecting'}
      <4>1. Injecting' = Injecting \cup {here}
        BY <1>10, <1>15
      <4>2. {NotedOf(p)' : p \in Injecting'} = {NotedOf(p) : p \in Injecting \cup {here}}
        BY <4>1, <1>9
      <4> QED
        BY <1>12, <2>2, <3>2, <4>2
    <3>7. \A p \in Injecting' : p.where = injectType'
      <4>1. \A p \in Injecting : p.where = injectType
        BY <1>12
      <4>2. \A p \in Injecting : p.where \in {"PROPERTY", "CONSTRUCTOR"}
        <5>1. \A p \in Injecting : p \in I!Applied(class)
          BY DEF Injecting, WereApplied
        <5>2. \A p \in I!Applied(class) : p.where \in {"PROPERTY", "CONSTRUCTOR"}
          BY <1>13, AppliedIs
        <5> QED
          BY <5>1, <5>2
      <4> QED
        BY <1>10, <1>15, <2>4, <3>1, <4>1, <4>2
    <3>8. \A p \in WereApplied : p.index \in DOMAIN initType
      <4> SUFFICES ASSUME NEW p \in WereApplied PROVE p.index \in DOMAIN initType
        OBVIOUS
      <4>1. p \in I!Applied(class)
        BY DEF WereApplied
      <4> QED
        BY <1>13, <4>1, AppliedIs
    <3>9. \A p \in WereApplied' : DecoratorAt(p)' = "asked" => initType'[p.index] = "asked"
      BY <1>3, <1>7, <1>8, <1>12, <1>15, <3>4, <3>8
    <3>10. \/ infoIndex' = 0 /\ \A p \in WereApplied' : DecoratorAt(p)' # "info"
           \/ \E p \in WereApplied' : DecoratorAt(p)' = "info" /\ infoIndex' = p.index
      BY <1>3, <1>7, <1>8, <1>12, <1>15, <2>1
    <3>11. NotedInv'
      BY <3>6, <3>7, <3>9, <3>10 DEF NotedInv
    <3> QED
      BY <1>5, <1>6, <3>5, <3>11 DEF ClassInv
  <2> QED
    BY <2>3, <2>4
<1>16. CASE d(here) \notin {"inject", "optional"}
  <2>1. UNCHANGED <<injectType, injects, thrown>>
    BY <1>1, <1>16
  <2>2. Injecting' = Injecting
    BY <1>10, <1>16
  <2>3. \/ d(here) = "asked" /\ initType' = [initType EXCEPT ![here.index] = "asked"]
           /\ UNCHANGED infoIndex
        \/ d(here) = "info" /\ infoIndex' = here.index /\ UNCHANGED initType
    BY <1>1, <1>16
  <2>4. /\ DOMAIN initType' = DOMAIN initType
        /\ \A i \in DOMAIN initType : initType[i] = "asked" => initType'[i] = "asked"
    BY <2>3
  <2>5. ClassTypes'
    BY <1>2, <1>13, <1>14, <2>1, <2>4, InjectionCounts DEF ClassTypes
  <2>6. I!Range(injects)' = {NotedOf(p)' : p \in Injecting'}
    <3>1. {NotedOf(p)' : p \in Injecting'} = {NotedOf(p) : p \in Injecting}
      BY <1>9, <2>2
    <3>2. I!Range(injects)' = I!Range(injects)
      BY <2>1, InjectionCounts
    <3> QED
      BY <1>12, <3>1, <3>2
  <2>7. \A p \in WereApplied : DecoratorAt(p) = "asked" => p.index \in DOMAIN initType
    <3> SUFFICES ASSUME NEW p \in WereApplied PROVE p.index \in DOMAIN initType
      OBVIOUS
    <3>1. p \in I!Applied(class)
      BY DEF WereApplied
    <3> QED
      BY <1>13, <3>1, AppliedIs
  <2>8. \A p \in WereApplied' : DecoratorAt(p)' = "asked" => initType'[p.index] = "asked"
    <3> SUFFICES ASSUME NEW p \in WereApplied', DecoratorAt(p) = "asked"
                 PROVE  initType'[p.index] = "asked"
      BY <1>8
    <3>1. CASE p \in WereApplied
      BY <1>12, <2>4, <2>7, <3>1
    <3>2. CASE p = here
      BY <1>3, <1>11, <2>3, <3>2
    <3> QED
      BY <1>7, <3>1, <3>2
  <2>9. \/ infoIndex' = 0 /\ \A p \in WereApplied' : DecoratorAt(p)' # "info"
        \/ \E p \in WereApplied' : DecoratorAt(p)' = "info" /\ infoIndex' = p.index
    BY <1>3, <1>7, <1>8, <1>12, <2>3
  <2>10. NotedInv'
    BY <1>12, <2>1, <2>2, <2>6, <2>8, <2>9 DEF NotedInv
  <2> QED
    BY <1>5, <1>6, <2>5, <2>10 DEF ClassInv
<1> QED
  BY <1>15, <1>16

LEMMA ClassDescribe == ASSUME ClassInv, I!Describe PROVE ClassInv'
<1> DEFINE m == Modules[described + 1]
<1>1. /\ todo = {} /\ described' = described + 1 /\ described < Len(Modules)
      /\ descriptors' = descriptors \cup
           {[module |-> m, object |-> o, unit |-> I!UnitOf(o, m)] : o \in I!Objects(m)}
      /\ units' = [o \in DOMAIN units |->
                     IF o \in I!Objects(m) THEN I!Written(o, m) ELSE units[o]]
      /\ UNCHANGED <<class, todo, injectType, injects, initType, infoIndex, args, thrown>>
  BY DEF I!Describe, I!declared
<1>2. described \in Nat
  BY DEF ClassInv, ClassTypes
<1>3. ClassTypes'
  <2>1. I!Range(injects)' = I!Range(injects)
    BY <1>1, InjectionCounts
  <2> QED
    BY <1>1, <1>2, <2>1 DEF ClassInv, ClassTypes
<1>4. NotedInv'
  <2>1. WereApplied' = WereApplied
    BY <1>1 DEF WereApplied
  <2>2. \A p : DecoratorAt(p)' = DecoratorAt(p) /\ NotedOf(p)' = NotedOf(p)
    BY <1>1 DEF DecoratorAt, NotedOf, I!Members
  <2>3. Injecting' = Injecting
    BY <2>1, <2>2 DEF Injecting
  <2>4. {NotedOf(p)' : p \in Injecting'} = {NotedOf(p) : p \in Injecting}
    BY <2>2, <2>3
  <2>5. I!Range(injects)' = I!Range(injects)
    BY <1>1, InjectionCounts
  <2> QED
    BY <1>1, <2>1, <2>2, <2>3, <2>4, <2>5 DEF ClassInv, NotedInv
<1>5. ConstructedInv'
  <2>1. I!ConstructArgs' = I!ConstructArgs
    BY <1>1 DEF I!ConstructArgs, I!Found, I!Range
  <2> QED
    BY <1>1, <2>1 DEF ClassInv, ConstructedInv
<1>6. units = [o \in class.instances |-> o.unit]
  BY DEF ClassInv, InstancesInv
<1>7. units' = units
  BY <1>1, <1>6 DEF I!Written
<1>8. I!InstancesAreTheModules'
  <2> DEFINE described1(mods) == {n \in mods : class.kind = "dynamic" \/ n = Home}
             of(n, o) == [module |-> n, object |-> o,
                          unit |-> IF o.unit = None THEN n ELSE o.unit]
             before == {Modules[k] : k \in 1 .. described}
             after == {Modules[k] : k \in 1 .. described + 1}
  <2>1. after = before \cup {m}
    <3>1. 1 .. described + 1 = 1 .. described \cup {described + 1}
      BY <1>2
    <3> QED
      BY <3>1
  <2>2. descriptors = {of(n, o) : n \in described1(before), o \in class.instances}
    BY DEF ClassInv, InstancesInv, I!InstancesAreTheModules
  <2>3. \A o \in class.instances : I!UnitOf(o, m) = IF o.unit = None THEN m ELSE o.unit
    BY <1>6 DEF I!UnitOf
  <2>4. I!Objects(m) = IF m \in described1({m}) THEN class.instances ELSE {}
    BY DEF I!Objects
  <2>5. {[module |-> m, object |-> o, unit |-> I!UnitOf(o, m)] : o \in I!Objects(m)}
          = {of(n, o) : n \in described1({m}), o \in class.instances}
    BY <2>3, <2>4
  <2>6. described1(after) = described1(before) \cup described1({m})
    BY <2>1
  <2> DEFINE B == described1(before)
             C == described1({m})
             D == described1(after)
             O == class.instances
  <2>7. D = B \cup C
    BY <2>6
  <2>8. /\ descriptors = {of(n, o) : n \in B, o \in O}
        /\ descriptors' = descriptors \cup {of(n, o) : n \in C, o \in O}
    BY <1>1, <2>2, <2>5
  <2> HIDE DEF described1, of, before, after, m, B, C, D, O
  <2>9. {of(n, o) : n \in D, o \in O} = {of(n, o) : n \in B, o \in O} \cup {of(n, o) : n \in C, o \in O}
    BY <2>7
  <2>10. descriptors' = {of(n, o) : n \in D, o \in O}
    BY <2>8, <2>9
  <2> QED
    BY <1>1, <2>10 DEF I!InstancesAreTheModules, described1, of, after, D, O
<1> QED
  BY <1>1, <1>3, <1>4, <1>5, <1>6, <1>7, <1>8 DEF ClassInv, InstancesInv

\* What the class said stays, once its decorators were applied.
LEMMA ClassStays ==
  ASSUME ClassInv, UNCHANGED <<class, todo, injectType, injects, initType, infoIndex, units,
                               described, descriptors>>
  PROVE  /\ ClassTypes' \/ (thrown' = "none" /\ thrown # "none")
         /\ NotedInv' \/ (thrown' = "none" /\ thrown # "none")
         /\ InstancesInv' /\ I!ConstructArgs' = I!ConstructArgs
<1>1. I!Range(injects)' = I!Range(injects)
  BY InjectionCounts
<1>2. WereApplied' = WereApplied
  BY DEF WereApplied
<1>3. \A p : DecoratorAt(p)' = DecoratorAt(p) /\ NotedOf(p)' = NotedOf(p)
  BY DEF DecoratorAt, NotedOf, I!Members
<1>4. Injecting' = Injecting
  BY <1>2, <1>3 DEF Injecting
<1>5. {NotedOf(p)' : p \in Injecting'} = {NotedOf(p) : p \in Injecting}
  BY <1>3, <1>4
<1>6. NotedInv' \/ (thrown' = "none" /\ thrown # "none")
  BY <1>1, <1>2, <1>3, <1>4, <1>5 DEF ClassInv, NotedInv
<1>7. ClassTypes' \/ (thrown' = "none" /\ thrown # "none")
  BY <1>1 DEF ClassInv, ClassTypes
<1>8. InstancesInv'
  BY DEF ClassInv, InstancesInv, I!InstancesAreTheModules
<1>9. I!ConstructArgs' = I!ConstructArgs
  BY DEF I!ConstructArgs, I!Found, I!Range
<1> QED
  BY <1>6, <1>7, <1>8, <1>9

LEMMA ClassConstruct == ASSUME ClassInv, I!Construct PROVE ClassInv'
<1>1. /\ described = Len(Modules) /\ args = None /\ thrown = "none"
      /\ \/ /\ args' = IF injectType = "CONSTRUCTOR" THEN I!ConstructArgs ELSE <<>>
            /\ UNCHANGED thrown
         \/ thrown' = "not found" /\ UNCHANGED args
      /\ UNCHANGED <<class, todo, injectType, injects, initType, infoIndex, units, described,
                     descriptors>>
  BY DEF I!Construct, I!declared
<1>2. Len(Modules) # 0
  <2>1. Modules \in Seq(I!Range(Modules)) /\ Home \in I!Range(Modules)
    BY ClassAssumed DEF I!InjectionAssumption
  <2>2. I!Range(Modules) = {Modules[k] : k \in DOMAIN Modules}
    BY InjectionCounts
  <2>3. DOMAIN Modules = 1 .. Len(Modules) /\ DOMAIN Modules # {}
    BY <2>1, <2>2
  <2> QED
    BY <2>3
<1>3. todo = {}
  BY <1>1, <1>2 DEF ClassInv, ConstructedInv
<1>4. ClassTypes' /\ NotedInv' /\ InstancesInv' /\ I!ConstructArgs' = I!ConstructArgs
  BY <1>1, ClassStays
<1>5. ConstructedInv'
  BY <1>1, <1>3, <1>4 DEF ConstructedInv
<1> QED
  BY <1>4, <1>5 DEF ClassInv

LEMMA ClassStep == ASSUME ClassInv, I!Next \/ UNCHANGED classVars PROVE ClassInv'
<1>1. CASE UNCHANGED classVars
  <2>1. UNCHANGED <<class, todo, injectType, injects, initType, infoIndex, units, described,
                    descriptors, args, thrown>>
    BY <1>1 DEF classVars
  <2>2. ClassTypes' /\ NotedInv' /\ InstancesInv' /\ I!ConstructArgs' = I!ConstructArgs
    BY <2>1, ClassStays
  <2>3. ConstructedInv'
    BY <2>1, <2>2 DEF ClassInv, ConstructedInv
  <2> QED
    BY <2>2, <2>3 DEF ClassInv
<1> QED
  BY <1>1, ClassDecorate, ClassDescribe, ClassConstruct DEF I!Next

\* The first of the parameters that are missing, if one is.
LEMMA MissingFrom ==
  ASSUME NEW n \in Nat, NEW U \in SUBSET (1 .. n),
         \A k \in U : \A j \in 1 .. n : j > k => j \in U
  PROVE  \E q \in 0 .. n : \A k \in 1 .. n : k \in U <=> k > q
<1>1. CASE U = {}
  <2>1. \A k \in 1 .. n : k \in U <=> k > n
    BY <1>1
  <2>2. n \in 0 .. n
    OBVIOUS
  <2> QED
    BY <2>1, <2>2
<1>2. CASE U # {}
  <2>1. U \in SUBSET Nat
    OBVIOUS
  <2>2. PICK least \in U : \A k \in U : least <= k
    BY <1>2, <2>1, LeastOf
  <2>3. least - 1 \in 0 .. n
    OBVIOUS
  <2>4. \A k \in 1 .. n : k \in U <=> k > least - 1
    BY <2>2
  <2> QED
    BY <2>3, <2>4
<1> QED
  BY <1>1, <1>2

\* A parameter's decorators, when all of them were applied.
ParameterHas(j, S) ==
  \E k \in DOMAIN class.parameters[j].decorators : class.parameters[j].decorators[k] \in S
NameOf(j) ==
  I!ObjName(class.parameters[j], IF ParameterHas(j, {"inject"}) THEN "inject" ELSE "optional")
NotedAt(j) ==
  [index |-> j, optional |-> ~ParameterHas(j, {"inject"}), name |-> NameOf(j)]

LEMMA HasIs ==
  \A j, x : I!Has(class.parameters[j], x) <=> ParameterHas(j, {x})
BY InjectionCounts DEF I!Has, ParameterHas

LEMMA ParametersAre ==
  ASSUME class \in Classes
  PROVE  /\ Len(class.parameters) \in Nat /\ DOMAIN class.parameters = 1 .. Len(class.parameters)
         /\ \A j \in DOMAIN class.parameters : \A k, l \in DOMAIN class.parameters[j].decorators :
              /\ class.parameters[j].decorators[k] \in {"inject", "optional", "info"}
              /\ class.parameters[j].decorators[l] \in {"inject", "optional", "info"}
              => k = l
         /\ \A j, k \in DOMAIN class.parameters :
              ParameterHas(j, {"info"}) /\ ParameterHas(k, {"info"}) => j = k
<1>1. /\ \A members \in {class.properties, class.parameters} :
            /\ Len(members) \in Nat /\ DOMAIN members = 1 .. Len(members)
            /\ \A i \in DOMAIN members :
                 \A j, k \in DOMAIN members[i].decorators :
                   /\ members[i].decorators[j] \in I!Injections
                   /\ members[i].decorators[k] \in I!Injections
                   => j = k
      /\ \A i, j \in I!Infos(class) : i = j
  BY ClassAssumed DEF I!InjectionAssumption
<1>2. I!Injections = {"inject", "optional", "info"}
  BY DEF I!Injections
<1>3. \A j \in DOMAIN class.parameters : ParameterHas(j, {"info"}) => j \in I!Infos(class)
  BY InjectionCounts DEF I!Infos, ParameterHas
<1> QED
  BY <1>1, <1>2, <1>3

\* A constructor that was called knows which of its parameters has the ObjectInfo, and
\* noted each of the others if all are decorated.
LEMMA AllNoted ==
  ASSUME ClassInv, thrown = "none", todo = {}, injectType = "CONSTRUCTOR",
         \A j \in DOMAIN class.parameters : ParameterHas(j, {"inject", "optional", "info"})
  PROVE  /\ infoIndex \in 0 .. Len(class.parameters)
         /\ \A j \in DOMAIN class.parameters : ParameterHas(j, {"info"}) <=> j = infoIndex
         /\ I!Range(injects) = {NotedAt(j) : j \in (DOMAIN class.parameters) \ {infoIndex}}
<1> DEFINE n == Len(class.parameters)
           P == DOMAIN class.parameters
           place(j, k) == [where |-> "CONSTRUCTOR", index |-> j, nth |-> k]
<1>1. class \in Classes /\ WereApplied = I!Applied(class)
  BY DEF ClassInv, ClassTypes, WereApplied
<1>2. n \in Nat /\ P = 1 .. n
  BY <1>1, ParametersAre
<1>3. /\ I!Range(injects) = {NotedOf(p) : p \in Injecting}
      /\ \A p \in Injecting : p.where = "CONSTRUCTOR"
      /\ \/ infoIndex = 0 /\ \A p \in WereApplied : DecoratorAt(p) # "info"
         \/ \E p \in WereApplied : DecoratorAt(p) = "info" /\ infoIndex = p.index
  BY DEF ClassInv, NotedInv
<1>4. ASSUME NEW j \in P, NEW k \in DOMAIN class.parameters[j].decorators
      PROVE  /\ place(j, k) \in WereApplied
             /\ DecoratorAt(place(j, k)) = class.parameters[j].decorators[k]
  BY <1>1, PlacesAre DEF DecoratorAt, I!Members
<1>5. ASSUME NEW p \in WereApplied, p.where = "CONSTRUCTOR"
      PROVE  /\ p.index \in P /\ p.nth \in DOMAIN class.parameters[p.index].decorators
             /\ DecoratorAt(p) = class.parameters[p.index].decorators[p.nth]
  BY <1>1, <1>5, AppliedIs DEF DecoratorAt, I!Members
<1>6. ASSUME NEW p \in WereApplied, DecoratorAt(p) = "info" PROVE p.where = "CONSTRUCTOR"
  <2> SUFFICES ASSUME p.where = "PROPERTY" PROVE FALSE
    BY <1>1, AppliedIs
  <2>1. /\ p.index \in DOMAIN class.properties
        /\ p.nth \in DOMAIN class.properties[p.index].decorators
        /\ class.properties[p.index].decorators[p.nth] = "info"
    BY <1>1, <1>6, AppliedIs DEF DecoratorAt, I!Members
  <2>2. "info" \in I!Range(class.properties[p.index].decorators)
    BY <2>1, InjectionCounts
  <2> QED
    BY <1>1, <2>1, <2>2, ClassAssumed DEF I!InjectionAssumption
<1>7. \A j \in P : ParameterHas(j, {"info"}) <=> j = infoIndex
  <2>1. CASE infoIndex = 0 /\ \A p \in WereApplied : DecoratorAt(p) # "info"
    <3>1. \A j \in P : ~ParameterHas(j, {"info"})
      BY <1>4, <2>1 DEF ParameterHas
    <3>2. \A j \in P : j # 0
      BY <1>2
    <3> QED
      BY <2>1, <3>1, <3>2
  <2>2. ASSUME NEW p \in WereApplied, DecoratorAt(p) = "info", infoIndex = p.index
        PROVE  \A j \in P : ParameterHas(j, {"info"}) <=> j = infoIndex
    <3>1. p.index \in P /\ ParameterHas(p.index, {"info"})
      BY <1>5, <1>6, <2>2 DEF ParameterHas
    <3> QED
      BY <1>1, <2>2, <3>1, ParametersAre
  <2> QED
    BY <1>3, <2>1, <2>2
<1>8. infoIndex \in 0 .. n
  <2>1. CASE infoIndex = 0
    BY <1>2, <2>1
  <2>2. ASSUME NEW p \in WereApplied, DecoratorAt(p) = "info", infoIndex = p.index
        PROVE  infoIndex \in 0 .. n
    BY <1>2, <1>5, <1>6, <2>2
  <2> QED
    BY <1>3, <2>1, <2>2
<1>9. \A j \in P : \A k, l \in DOMAIN class.parameters[j].decorators :
        /\ class.parameters[j].decorators[k] \in {"inject", "optional", "info"}
        /\ class.parameters[j].decorators[l] \in {"inject", "optional", "info"}
        => k = l
  BY <1>1, ParametersAre
<1>10. ASSUME NEW j \in P, NEW k \in DOMAIN class.parameters[j].decorators,
              class.parameters[j].decorators[k] \in {"inject", "optional"}
       PROVE  /\ j # infoIndex /\ place(j, k) \in Injecting
              /\ NotedOf(place(j, k)) = NotedAt(j)
  <2>1. place(j, k) \in Injecting
    BY <1>4, <1>10 DEF Injecting
  <2>2. ~ParameterHas(j, {"info"})
    BY <1>9, <1>10 DEF ParameterHas
  <2>3. ParameterHas(j, {"inject"}) <=> class.parameters[j].decorators[k] = "inject"
    BY <1>9, <1>10 DEF ParameterHas
  <2>4. DecoratorAt(place(j, k)) = IF ParameterHas(j, {"inject"}) THEN "inject" ELSE "optional"
    BY <1>4, <1>10, <2>3
  <2>5. I!Members(place(j, k).where)[place(j, k).index] = class.parameters[j]
    BY DEF I!Members
  <2>6. NotedOf(place(j, k)) = NotedAt(j)
    BY <2>4, <2>5 DEF NotedOf, NotedAt, NameOf
  <2> QED
    BY <1>7, <2>1, <2>2, <2>6
<1>11. ASSUME NEW p \in Injecting
       PROVE  p.index \in P \ {infoIndex} /\ NotedOf(p) = NotedAt(p.index)
  <2>1. p \in WereApplied /\ p.where = "CONSTRUCTOR" /\ DecoratorAt(p) \in {"inject", "optional"}
    BY <1>3 DEF Injecting
  <2>2. /\ p.index \in P /\ p.nth \in DOMAIN class.parameters[p.index].decorators
        /\ class.parameters[p.index].decorators[p.nth] \in {"inject", "optional"}
    BY <1>5, <2>1
  <2>3. p = place(p.index, p.nth)
    BY <1>1, <2>1, AppliedIs
  <2> HIDE DEF place
  <2> QED
    BY <1>10, <2>2, <2>3
<1>12. ASSUME NEW j \in P \ {infoIndex} PROVE \E p \in Injecting : NotedOf(p) = NotedAt(j)
  <2>1. ~ParameterHas(j, {"info"})
    BY <1>7
  <2>2. PICK k \in DOMAIN class.parameters[j].decorators :
          class.parameters[j].decorators[k] \in {"inject", "optional", "info"}
    BY DEF ParameterHas
  <2>3. class.parameters[j].decorators[k] \in {"inject", "optional"}
    BY <2>1, <2>2 DEF ParameterHas
  <2> HIDE DEF place
  <2> QED
    BY <1>10, <2>3
<1>13. {NotedOf(p) : p \in Injecting} = {NotedAt(j) : j \in P \ {infoIndex}}
  BY <1>11, <1>12
<1> QED
  BY <1>3, <1>7, <1>8, <1>13

LEMMA ArgumentsHold == ASSUME ClassInv PROVE I!ArgumentsAreInPlace
<1> SUFFICES ASSUME I!Regular, args # None, NEW i \in I!Parameters
             PROVE  I!Argument(i) = I!Meant(class.parameters[i])
  BY DEF I!ArgumentsAreInPlace, I!InPlace
<1> DEFINE n == Len(class.parameters)
           Wanted(j) == I!Meant(class.parameters[j])
<1>1. injectType = "CONSTRUCTOR" /\ I!Parameters = DOMAIN class.parameters
  BY DEF I!Parameters
<1>2. thrown = "none" /\ todo = {} /\ args = I!ConstructArgs /\ class \in Classes
  BY <1>1 DEF ClassInv, ConstructedInv, ClassTypes
<1>3. n \in Nat /\ DOMAIN class.parameters = 1 .. n
  BY <1>2, ParametersAre
<1>4. \A j \in 1 .. n : ParameterHas(j, {"inject", "optional", "info"})
  <2> SUFFICES ASSUME NEW j \in 1 .. n PROVE ParameterHas(j, {"inject", "optional", "info"})
    OBVIOUS
  <2>1. I!Injected(class.parameters[j]) \/ I!Has(class.parameters[j], "info")
    BY <1>1, <1>3 DEF I!Regular
  <2>2. \E x \in {"inject", "optional", "info"} : ParameterHas(j, {x})
    BY <2>1, HasIs DEF I!Injected
  <2> QED
    BY <2>2 DEF ParameterHas
<1>5. /\ infoIndex \in 0 .. n
      /\ \A j \in 1 .. n : ParameterHas(j, {"info"}) <=> j = infoIndex
      /\ I!Range(injects) = {NotedAt(j) : j \in (1 .. n) \ {infoIndex}}
  BY <1>1, <1>2, <1>3, <1>4, AllNoted
<1>6. \A j \in 1 .. n :
        Wanted(j) = IF j = infoIndex THEN "info"
                    ELSE IF NameOf(j) \in Present THEN NameOf(j) ELSE "undefined"
  BY <1>5, HasIs DEF I!Meant, NameOf
<1>7. "undefined" \notin Present
  BY ClassAssumed DEF I!InjectionAssumption
<1>8. \A j \in 1 .. n : j # infoIndex => (NameOf(j) \in Present <=> Wanted(j) # "undefined")
  BY <1>6, <1>7
<1>9. infoIndex # 0 => Wanted(infoIndex) # "undefined"
  BY <1>5, <1>6
<1>10. \A j, k \in 1 .. n : Wanted(j) = "undefined" /\ k > j => Wanted(k) = "undefined"
  BY <1>1, <1>3 DEF I!Regular
<1> HIDE DEF Wanted, n
<1>11. PICK q \in 0 .. n : \A k \in 1 .. n : Wanted(k) = "undefined" <=> k > q
  <2> DEFINE U == {k \in 1 .. n : Wanted(k) = "undefined"}
  <2>1. U \in SUBSET (1 .. n) /\ \A k \in U : \A j \in 1 .. n : j > k => j \in U
    BY <1>10
  <2>2. \A k \in 1 .. n : k \in U <=> Wanted(k) = "undefined"
    OBVIOUS
  <2> HIDE DEF U
  <2>3. \E q \in 0 .. n : \A k \in 1 .. n : k \in U <=> k > q
    BY <1>3, <2>1, MissingFrom
  <2> QED
    BY <2>2, <2>3
<1>12. q \in Nat /\ infoIndex \in 0 .. q
  BY <1>3, <1>5, <1>9, <1>11
<1> DEFINE ent == [j \in 1 .. n |-> NotedAt(j)]
           S == {ent[j] : j \in (1 .. q) \ {infoIndex}}
           m == IF infoIndex = 0 THEN q ELSE q - 1
<1>13. \A j \in 1 .. n : ent[j].index = j /\ ent[j].name = NameOf(j)
  BY DEF NotedAt
<1>14. \A k \in (1 .. q) \ {infoIndex} : ent[k].index = k
  BY <1>3, <1>12, <1>13
<1>15. {r \in I!Range(injects) : r.name \in Present} = S
  <2>1. \A j \in 1 .. n : ent[j] = NotedAt(j)
    OBVIOUS
  <2>2. \A j \in (1 .. n) \ {infoIndex} : NameOf(j) \in Present <=> j \in (1 .. q) \ {infoIndex}
    BY <1>3, <1>8, <1>11, <1>12
  <2>3. \A j \in (1 .. q) \ {infoIndex} : j \in (1 .. n) \ {infoIndex}
    BY <1>3, <1>11
  <2> DEFINE J == (1 .. q) \ {infoIndex}
             K == (1 .. n) \ {infoIndex}
  <2>4. I!Range(injects) = {NotedAt(j) : j \in K} /\ K \subseteq 1 .. n
    BY <1>5
  <2>5. /\ \A j \in K : NameOf(j) \in Present <=> j \in J
        /\ J \subseteq K
    BY <2>2, <2>3
  <2> HIDE DEF J, K, ent
  <2>6. S = {ent[j] : j \in J}
    BY DEF J
  <2> HIDE DEF S
  <2> QED
    BY <1>13, <2>1, <2>4, <2>5, <2>6
<1> HIDE DEF ent
<1>16. /\ I!InOrder(S) = [k \in 1 .. m |-> I!InOrder(S)[k]]
       /\ \A k \in 1 .. m : I!InOrder(S)[k] = ent[RankedAt(infoIndex, k)]
  <2>1. S = {ent[k] : k \in (1 .. q) \ {infoIndex}} /\ m = IF infoIndex = 0 THEN q ELSE q - 1
    OBVIOUS
  <2> HIDE DEF S, m
  <2> QED
    BY <1>12, <1>14, <2>1, Placing
<1> HIDE DEF S
<1>17. I!Found = I!InOrder(S)
  BY <1>15 DEF I!Found
<1>18. m \in Nat /\ DOMAIN I!Found = 1 .. m /\ I!Found \in Seq({I!Found[k] : k \in 1 .. m})
  <2>1. m \in Nat
    BY <1>12
  <2> HIDE DEF m
  <2>2. I!Found = [k \in 1 .. m |-> I!Found[k]]
    BY <1>16, <1>17
  <2> DEFINE Z == {I!Found[k] : k \in 1 .. m}
  <2>3. I!Found \in [1 .. m -> Z]
    BY <2>2
  <2> HIDE DEF Z
  <2>4. I!Found \in Seq(Z)
    BY <2>1, <2>3
  <2> QED
    BY <2>1, <2>3, <2>4 DEF Z
<1>19. Len(I!Found) = m
  BY <1>18
<1>20. \A k \in 1 .. m : I!Found[k].name = NameOf(RankedAt(infoIndex, k))
  <2>1. \A k \in 1 .. m : RankedAt(infoIndex, k) \in 1 .. n
    BY <1>3, <1>5, <1>11, <1>12 DEF RankedAt
  <2> QED
    BY <1>13, <1>16, <1>17, <2>1
<1>21. i \in 1 .. n
  BY <1>1, <1>3
<1>22. i \in 1 .. q => Wanted(i) = IF i = infoIndex THEN "info" ELSE NameOf(i)
  BY <1>6, <1>11, <1>12, <1>21 DEF Wanted
<1>23. i \notin 1 .. q => Wanted(i) = "undefined"
  BY <1>11, <1>12, <1>21
<1>24. DOMAIN args = 1 .. q /\ (i \in 1 .. q => args[i] = Wanted(i))
  <2>1. CASE infoIndex = 0
    <3>1. m = q /\ args = [k \in 1 .. m |-> I!Found[k].name]
      BY <1>2, <1>18, <2>1 DEF I!ConstructArgs
    <3>2. i \in 1 .. q => RankedAt(infoIndex, i) = i
      BY <2>1 DEF RankedAt
    <3>3. i \in 1 .. q => i # infoIndex
      BY <2>1
    <3> QED
      BY <1>20, <1>22, <3>1, <3>2, <3>3
  <2>2. CASE infoIndex # 0
    <3>1. m = q - 1 /\ infoIndex \in 1 .. q
      BY <1>12, <2>2
    <3>2. (IF infoIndex > Len(I!Found) THEN Len(I!Found) + 1 ELSE infoIndex) = infoIndex
      BY <1>12, <1>19, <3>1
    <3>3. args = [k \in 1 .. (m + 1) |->
                    IF k < infoIndex THEN I!Found[k].name
                    ELSE IF k = infoIndex THEN "info" ELSE I!Found[k - 1].name]
      BY <1>2, <1>19, <2>2, <3>2 DEF I!ConstructArgs
    <3>4. m + 1 = q
      BY <1>12, <3>1
    <3>5. i \in 1 .. q /\ i < infoIndex => i \in 1 .. m /\ RankedAt(infoIndex, i) = i
      BY <1>12, <3>1 DEF RankedAt
    <3>6. i \in 1 .. q /\ i > infoIndex => i - 1 \in 1 .. m /\ RankedAt(infoIndex, i - 1) = i
      BY <1>12, <3>1 DEF RankedAt
    <3>7. i \in 1 .. q => i < infoIndex \/ i = infoIndex \/ i > infoIndex
      BY <1>12, <3>1
    <3>8. i < infoIndex => i # infoIndex
      BY <1>12, <1>21, <1>3
    <3>9. i > infoIndex => i # infoIndex /\ ~(i < infoIndex)
      BY <1>12, <1>21, <1>3
    <3> HIDE DEF m
    <3>10. DOMAIN args = 1 .. q
      BY <3>3, <3>4
    <3>11. CASE i \in 1 .. q /\ i < infoIndex
      BY <1>20, <1>22, <3>3, <3>4, <3>5, <3>8, <3>11
    <3>12. CASE i \in 1 .. q /\ i = infoIndex
      <4>1. ~(i < infoIndex)
        BY <1>12, <3>12
      <4> QED
        BY <1>22, <3>3, <3>4, <3>10, <3>12, <4>1
    <3>13. CASE i \in 1 .. q /\ i > infoIndex
      BY <1>20, <1>22, <3>3, <3>4, <3>6, <3>9, <3>13
    <3> QED
      BY <3>7, <3>10, <3>11, <3>12, <3>13
  <2> QED
    BY <2>1, <2>2
<1> QED
  BY <1>23, <1>24 DEF I!Argument, Wanted

LEMMA AskedHold == ASSUME ClassInv PROVE I!AskedIsKept
<1> SUFFICES ASSUME todo = {}, thrown = "none", NEW i \in DOMAIN I!Members(injectType),
                    I!Has(I!Members(injectType)[i], "asked")
             PROVE  initType[i] = "asked"
  BY DEF I!AskedIsKept
<1> DEFINE where == IF injectType = "PROPERTY" THEN "PROPERTY" ELSE "CONSTRUCTOR"
<1>1. PICK k \in DOMAIN I!Members(injectType)[i].decorators :
        I!Members(injectType)[i].decorators[k] = "asked"
  BY InjectionCounts DEF I!Has
<1> DEFINE p == [where |-> where, index |-> i, nth |-> k]
<1>2. I!Members(where) = I!Members(injectType) /\ where \in {"PROPERTY", "CONSTRUCTOR"}
  BY DEF I!Members
<1>3. I!Members(where) = IF where = "PROPERTY" THEN class.properties ELSE class.parameters
  BY DEF I!Members
<1> HIDE DEF where
<1>4. p \in WereApplied
  BY <1>2, <1>3, PlacesAre DEF WereApplied
<1>5. DecoratorAt(p) = "asked" /\ p.index = i
  BY <1>1, <1>2 DEF DecoratorAt
<1> HIDE DEF p
<1> QED
  BY <1>4, <1>5 DEF ClassInv, NotedInv

\* However the decorators of a class were applied, its constructor is called with the
\* object of each parameter at its place, and the ObjectInfo at its own, if every
\* parameter is decorated and only the last ones are missing; a qualifier that asks for
\* an init type outlives what the type of the member would say; and each module has the
\* instances the class described for it.
THEOREM DeclaredHolds == MCSpec => []DeclaredIsInjected
<1>1. MCInit => ClassInv
  <2> SUFFICES ASSUME MCInit PROVE ClassInv
    OBVIOUS
  <2>1. I!Init
    BY DEF MCInit
  <2> QED
    BY <2>1, ClassInit DEF I!Init
<1>2. ClassInv /\ [MCNext]_<<part, vars, bootVars, moduleVars, eggVars, classVars>> => ClassInv'
  <2>1. [MCNext]_<<part, vars, bootVars, moduleVars, eggVars, classVars>>
          => I!Next \/ UNCHANGED classVars
    BY DEF MCNext
  <2> QED
    BY <2>1, ClassStep
<1>3. ClassInv => DeclaredIsInjected
  BY ArgumentsHold, AskedHold DEF ClassInv, InstancesInv, DeclaredIsInjected
<1> QED
  BY <1>1, <1>2, <1>3, PTL DEF MCSpec
=============================================================================
