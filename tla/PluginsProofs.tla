---------------------------- MODULE PluginsProofs ----------------------------
(***************************************************************************)
(* Proofs about what plugins keep for an application: the DNS cache and    *)
(* appends to an OSS object, ORM realms and schedules, aspects and         *)
(* language graphs, the trace of an execution, and data sources with their *)
(* transactions, each as the instance that MCPlugins has of it.            *)
(***************************************************************************)
EXTENDS MCPlugins, FiniteSetTheorems, FunctionTheorems, SequenceTheorems, WellFoundedInduction,
        TLAPS

-----------------------------------------------------------------------------
(* Counting in sequences *)

\* How often e is in s.
Occurs(s, e) == Cardinality({k \in DOMAIN s : s[k] = e})

\* An element that is appended is there once more, the others are not.
LEMMA OccursAppend ==
  ASSUME NEW S, NEW s \in Seq(S), NEW e \in S, NEW x
  PROVE  /\ Occurs(s, x) \in Nat
         /\ Occurs(Append(s, e), x) = Occurs(s, x) + (IF e = x THEN 1 ELSE 0)
<1> DEFINE P == {k \in DOMAIN s : s[k] = x}
           Q == {k \in DOMAIN Append(s, e) : Append(s, e)[k] = x}
<1>1. /\ DOMAIN s = 1 .. Len(s) /\ Len(s) \in Nat /\ DOMAIN Append(s, e) = 1 .. Len(s) + 1
      /\ \A k \in 1 .. Len(s) : Append(s, e)[k] = s[k]
      /\ Append(s, e)[Len(s) + 1] = e
  OBVIOUS
<1>2. IsFiniteSet(P)
  <2>1. IsFiniteSet(1 .. Len(s))
    BY <1>1, FS_Interval
  <2>2. P \in SUBSET (1 .. Len(s))
    BY <1>1
  <2> QED BY <2>1, <2>2, FS_Subset
<1>3. Q = IF e = x THEN P \cup {Len(s) + 1} ELSE P
  BY <1>1
<1>4. Len(s) + 1 \notin P
  BY <1>1
<1>5. Cardinality(P) \in Nat
  BY <1>2, FS_CardinalityType
<1>6. Cardinality(Q) = Cardinality(P) + (IF e = x THEN 1 ELSE 0)
  <2> HIDE DEF P, Q
  <2>1. CASE e = x
    BY <1>2, <1>3, <1>4, <1>5, <2>1, FS_AddElement
  <2>2. CASE e # x
    BY <1>3, <1>5, <2>2
  <2> QED BY <2>1, <2>2
<1> QED BY <1>5, <1>6 DEF Occurs

LEMMA OccursEmpty == \A x : Occurs(<<>>, x) = 0
<1> SUFFICES ASSUME NEW x PROVE Occurs(<<>>, x) = 0
  OBVIOUS
<1>1. {k \in DOMAIN <<>> : <<>>[k] = x} = {}
  OBVIOUS
<1> QED BY <1>1, FS_EmptySet DEF Occurs

-----------------------------------------------------------------------------
(* The DNS cache *)

\* The instance counts as its extended module does.
LEMMA DnsCounts == \A S : Dns!Cardinality(S) = Cardinality(S)
BY DEF Dns!Cardinality, Cardinality

Held(generation) == {h \in Hosts : generation[h] # None}

\* The generations are within their bounds, and hold answers for their hosts.
GenerationInv ==
  /\ recent \in [Hosts -> Lookups \cup {None}] /\ older \in [Hosts -> Lookups \cup {None}]
  /\ IsFiniteSet(Held(recent)) /\ Cardinality(Held(recent)) < MaxCacheSize
  /\ IsFiniteSet(Held(older)) /\ Cardinality(Held(older)) <= MaxCacheSize

Good(h, x) == x # None => HostOf[x] = h /\ entry[x] # Dns!NoEntry

\* As many uses of each address, and one more of those before the index.
Even(x) ==
  \E q \in Nat : \A k \in 0 .. entry[x].n - 1 :
    Occurs(used[x], k) = IF k < entry[x].currentIndex THEN q + 1 ELSE q

\* The index of an entry is one of its addresses.
LiveEntries == {e \in Dns!Entries : e.currentIndex < e.n}

DnsInv ==
  /\ Dns!TypeOK /\ entry \in [Lookups -> LiveEntries \cup {Dns!NoEntry}]
  /\ used \in [Lookups -> Seq(Nat)] /\ GenerationInv
  /\ \A h \in Hosts : Good(h, recent[h]) /\ Good(h, older[h])
  /\ \A l \in Lookups : pc[l] # "done" => entry[l] = Dns!NoEntry
  /\ \A l \in Lookups : entry[l] = Dns!NoEntry => used[l] = <<>>
  /\ addressRotation => \A x \in Lookups : Even(x)

LEMMA InitDns == ASSUME Dns!DnsAssumption, Dns!Init PROVE DnsInv
<1>1. GenerationInv
  <2>1. Held(Dns!Empty) = {}
    BY DEF Held, Dns!Empty
  <2>2. recent = Dns!Empty /\ older = Dns!Empty /\ Dns!Empty \in [Hosts -> Lookups \cup {None}]
    BY DEF Dns!Init, Dns!Empty
  <2>3. IsFiniteSet({}) /\ Cardinality({}) = 0
    BY FS_EmptySet
  <2> QED BY <2>1, <2>2, <2>3 DEF GenerationInv, Dns!DnsAssumption
<1>2. Dns!TypeOK
  BY DEF Dns!Init, Dns!TypeOK, Dns!Empty, Dns!Answers
<1>3. \A x \in Lookups : Even(x)
  <2> SUFFICES ASSUME NEW x \in Lookups PROVE Even(x)
    OBVIOUS
  <2>1. entry[x].n = 0
    BY DEF Dns!Init, Dns!NoEntry
  <2> QED BY <2>1 DEF Even
<1>4. /\ used \in [Lookups -> Seq(Nat)]
      /\ \A l \in Lookups : entry[l] = Dns!NoEntry /\ used[l] = <<>>
      /\ \A h \in Hosts : recent[h] = None /\ older[h] = None
  BY DEF Dns!Init, Dns!Empty
<1>5. entry \in [Lookups -> LiveEntries \cup {Dns!NoEntry}]
  BY DEF Dns!Init
<1> QED BY <1>1, <1>2, <1>3, <1>4, <1>5 DEF DnsInv, Good

\* What a generation holds when x is put into it.
LEMMA HeldPut ==
  ASSUME NEW gen \in [Hosts -> Lookups \cup {None}], NEW h \in Hosts, NEW x \in Lookups,
         Dns!DnsAssumption, IsFiniteSet(Held(gen))
  PROVE  LET new == [gen EXCEPT ![h] = x] IN
         /\ new \in [Hosts -> Lookups \cup {None}]
         /\ IsFiniteSet(Held(new))
         /\ Cardinality(Held(new)) = Cardinality(Held(gen)) + (IF gen[h] = None THEN 1 ELSE 0)
<1> DEFINE new == [gen EXCEPT ![h] = x]
<1>1. Held(new) = Held(gen) \cup {h}
  BY DEF Held, Dns!DnsAssumption
<1>2. h \in Held(gen) <=> gen[h] # None
  BY DEF Held
<1>3. /\ IsFiniteSet(Held(gen) \cup {h})
      /\ Cardinality(Held(gen) \cup {h}) =
           IF h \in Held(gen) THEN Cardinality(Held(gen)) ELSE Cardinality(Held(gen)) + 1
  BY FS_AddElement
<1>4. Cardinality(Held(gen)) \in Nat
  BY FS_CardinalityType
<1>5. new \in [Hosts -> Lookups \cup {None}]
  OBVIOUS
<1> HIDE DEF new
<1>6. Cardinality(Held(new)) = Cardinality(Held(gen)) + (IF gen[h] = None THEN 1 ELSE 0)
  BY <1>1, <1>2, <1>3, <1>4
<1> QED BY <1>1, <1>3, <1>5, <1>6 DEF new

\* The LRU stays within its bounds, and forgets or keeps, but mixes nothing.
LEMMA PutKeeps ==
  ASSUME GenerationInv, Dns!DnsAssumption, NEW h \in Hosts, NEW x \in Lookups, Dns!Put(h, x)
  PROVE  /\ GenerationInv'
         /\ \A k \in Hosts : /\ \/ recent'[k] \in {None, recent[k]}
                                \/ k = h /\ recent'[k] = x
                             /\ \/ older'[k] \in {None, recent[k], older[k]}
                                \/ k = h /\ older'[k] = x
<1> DEFINE new == [recent EXCEPT ![h] = x]
<1>1. /\ new \in [Hosts -> Lookups \cup {None}] /\ IsFiniteSet(Held(new))
      /\ Cardinality(Held(new)) = Cardinality(Held(recent)) + (IF recent[h] = None THEN 1 ELSE 0)
  BY HeldPut DEF GenerationInv
<1>2. Cardinality(Held(recent)) \in Nat
  BY FS_CardinalityType DEF GenerationInv
<1>3. Dns!Cardinality({k \in Hosts : new[k] # None}) = Cardinality(Held(new))
  BY DnsCounts DEF Held
<1>4. \A k \in Hosts : new[k] = IF k = h THEN x ELSE recent[k]
  BY DEF GenerationInv
<1> HIDE DEF new
<1>5. CASE recent[h] = None /\ Cardinality(Held(new)) >= MaxCacheSize
  <2>1. recent' = Dns!Empty /\ older' = new
    BY <1>3, <1>5 DEF Dns!Put, new
  <2>2. Held(recent') = {} /\ \A k \in Hosts : recent'[k] = None
    BY <2>1 DEF Held, Dns!Empty
  <2>3. recent' \in [Hosts -> Lookups \cup {None}]
    BY <2>1 DEF Dns!Empty
  <2>4. IsFiniteSet({}) /\ Cardinality({}) = 0
    BY FS_EmptySet
  <2>5. Cardinality(Held(new)) <= MaxCacheSize
    BY <1>1, <1>2 DEF GenerationInv, Dns!DnsAssumption
  <2>6. GenerationInv'
    BY <1>1, <2>1, <2>2, <2>3, <2>4, <2>5 DEF GenerationInv, Dns!DnsAssumption
  <2> QED BY <1>4, <2>1, <2>2, <2>6
<1>6. CASE ~(recent[h] = None /\ Cardinality(Held(new)) >= MaxCacheSize)
  <2>1. recent' = new /\ older' = older
    BY <1>3, <1>6 DEF Dns!Put, new
  <2>2. Cardinality(Held(new)) < MaxCacheSize
    BY <1>1, <1>2, <1>6 DEF GenerationInv, Dns!DnsAssumption
  <2>3. GenerationInv'
    BY <1>1, <2>1, <2>2 DEF GenerationInv
  <2> QED BY <1>4, <2>1, <2>3
<1> QED BY <1>5, <1>6

\* A read moves an entry to the recent generation at most.
LEMMA GetKeeps ==
  ASSUME DnsInv, Dns!DnsAssumption, NEW h \in Hosts, Dns!Get(h)
  PROVE  /\ GenerationInv'
         /\ \A k \in Hosts : /\ recent'[k] \in {None, recent[k], older[k]}
                             /\ older'[k] \in {None, recent[k], older[k]}
<1>1. CASE recent[h] = None /\ older[h] # None
  <2>1. Dns!Put(h, older[h]) /\ older[h] \in Lookups
    BY <1>1 DEF Dns!Get, DnsInv, Dns!TypeOK
  <2> QED BY <2>1, PutKeeps DEF DnsInv
<1>2. CASE ~(recent[h] = None /\ older[h] # None)
  <2>1. recent' = recent /\ older' = older
    BY <1>2 DEF Dns!Get
  <2> QED BY <2>1 DEF DnsInv, GenerationInv
<1> QED BY <1>1, <1>2

LEMMA LiveIsNotNone ==
  ASSUME Dns!DnsAssumption, NEW e \in LiveEntries
  PROVE  /\ e # Dns!NoEntry /\ e.n \in Nat \ {0} /\ e.n <= MaxAddresses
         /\ e.currentIndex \in 0 .. e.n - 1 /\ e.expired \in BOOLEAN /\ e \in Dns!Entries
         /\ Dns!Next1(e) = IF e.currentIndex + 1 = e.n THEN 0 ELSE e.currentIndex + 1
<1>1. /\ e.n \in Nat \ {0} /\ e.n <= MaxAddresses /\ e.currentIndex \in 0 .. e.n - 1
      /\ e.expired \in BOOLEAN /\ e \in Dns!Entries
  BY DEF LiveEntries, Dns!Entries, Dns!DnsAssumption
<1>2. e # Dns!NoEntry
  BY <1>1 DEF Dns!NoEntry
<1>3. CASE e.currentIndex + 1 = e.n
  BY <1>1, <1>2, <1>3 DEF Dns!Next1
<1>4. CASE e.currentIndex + 1 < e.n
  BY <1>1, <1>2, <1>4 DEF Dns!Next1
<1> QED BY <1>1, <1>3, <1>4

\* A use of entry e, of lookup x, by lookup l.
LEMMA GiveKeeps ==
  ASSUME Dns!DnsAssumption, DnsInv, NEW l \in Lookups, NEW x \in Lookups,
         NEW e \in LiveEntries, NEW q \in Nat,
         addressRotation => \A k \in 0 .. e.n - 1 :
            Occurs(used[x], k) = IF k < e.currentIndex THEN q + 1 ELSE q,
         Dns!Give(l, x, e)
  PROVE  /\ entry' \in [Lookups -> LiveEntries \cup {Dns!NoEntry}] /\ entry'[x] \in LiveEntries
         /\ used' \in [Lookups -> Seq(Nat)] /\ answer' \in [Lookups -> Dns!Answers]
         /\ \A y \in Lookups \ {x} : entry'[y] = entry[y] /\ used'[y] = used[y]
         /\ addressRotation => \E p \in Nat : \A k \in 0 .. entry'[x].n - 1 :
              Occurs(used'[x], k) = IF k < entry'[x].currentIndex THEN p + 1 ELSE p
<1> DEFINE f == [e EXCEPT !.currentIndex = IF addressRotation THEN Dns!Next1(e) ELSE @]
<1>1. /\ entry' = [entry EXCEPT ![x] = f]
      /\ used' = [used EXCEPT ![x] = Append(used[x], e.currentIndex)]
      /\ answer' = [answer EXCEPT ![l] = <<x, e.currentIndex>>]
  BY DEF Dns!Give
<1>2. /\ e.n \in Nat \ {0} /\ e.n <= MaxAddresses /\ e.currentIndex \in 0 .. e.n - 1
      /\ Dns!Next1(e) = IF e.currentIndex + 1 = e.n THEN 0 ELSE e.currentIndex + 1
      /\ e \in Dns!Entries
  BY LiveIsNotNone
<1>3. /\ f \in LiveEntries /\ f.n = e.n
      /\ f.currentIndex = IF addressRotation THEN Dns!Next1(e) ELSE e.currentIndex
  BY <1>2 DEF LiveEntries, Dns!Entries, Dns!DnsAssumption
<1> HIDE DEF f
<1>4. /\ entry' \in [Lookups -> LiveEntries \cup {Dns!NoEntry}] /\ entry'[x] = f
      /\ \A y \in Lookups \ {x} : entry'[y] = entry[y]
  BY <1>1, <1>3 DEF DnsInv
<1>5. /\ used' \in [Lookups -> Seq(Nat)] /\ used'[x] = Append(used[x], e.currentIndex)
      /\ \A y \in Lookups \ {x} : used'[y] = used[y]
  <2>1. used[x] \in Seq(Nat) /\ e.currentIndex \in Nat
    BY <1>2 DEF DnsInv
  <2>2. Append(used[x], e.currentIndex) \in Seq(Nat)
    BY <2>1
  <2> QED BY <1>1, <2>2 DEF DnsInv
<1>6. answer' \in [Lookups -> Dns!Answers]
  <2>1. <<x, e.currentIndex>> \in Dns!Answers
    BY <1>2 DEF Dns!Answers, Dns!DnsAssumption
  <2> QED BY <1>1, <2>1 DEF DnsInv, Dns!TypeOK
<1>7. ASSUME addressRotation
      PROVE  \E p \in Nat : \A k \in 0 .. f.n - 1 :
               Occurs(used'[x], k) = IF k < f.currentIndex THEN p + 1 ELSE p
  <2>1. \A k \in 0 .. e.n - 1 :
          Occurs(used'[x], k) = Occurs(used[x], k) + (IF e.currentIndex = k THEN 1 ELSE 0)
    BY <1>2, <1>5, OccursAppend DEF DnsInv
  <2>2. \A k \in 0 .. e.n - 1 : Occurs(used[x], k) = IF k < e.currentIndex THEN q + 1 ELSE q
    BY <1>7
  <2>3. CASE e.currentIndex + 1 = e.n
    <3>1. \A k \in 0 .. f.n - 1 : Occurs(used'[x], k) = IF k < f.currentIndex THEN q + 2 ELSE q + 1
      BY <1>2, <1>3, <1>7, <2>1, <2>2, <2>3
    <3> QED BY <3>1
  <2>4. CASE e.currentIndex + 1 # e.n
    <3>1. \A k \in 0 .. f.n - 1 : Occurs(used'[x], k) = IF k < f.currentIndex THEN q + 1 ELSE q
      BY <1>2, <1>3, <1>7, <2>1, <2>2, <2>4
    <3> QED BY <3>1
  <2> QED BY <2>3, <2>4
<1> QED BY <1>3, <1>4, <1>5, <1>6, <1>7

LEMMA HitKeeps ==
  ASSUME Dns!DnsAssumption, DnsInv, NEW l \in Lookups, Dns!Hit(l)
  PROVE  DnsInv'
<1> DEFINE h == HostOf[l]
           x == Dns!Cached(h)
<1>1. h \in Hosts /\ x \in Lookups /\ HostOf[x] = h /\ entry[x] # Dns!NoEntry
  BY DEF Dns!Hit, Dns!Cached, DnsInv, Dns!TypeOK, Good, Dns!DnsAssumption
<1>2. /\ Dns!Give(l, x, entry[x]) /\ Dns!Get(h) /\ addressRotation' = addressRotation
      /\ pc[l] = "idle" /\ pc' = [pc EXCEPT ![l] = pc'[l]] /\ pc'[l] \in {"refreshing", "done"}
      /\ pc' \in [Lookups -> {"idle", "waiting", "refreshing", "done"}]
  BY DEF Dns!Hit, DnsInv, Dns!TypeOK
<1>3. entry[l] = Dns!NoEntry /\ l # x /\ entry[x] \in LiveEntries
  BY <1>1, <1>2 DEF DnsInv
<1> HIDE DEF x, h
<1>4. /\ GenerationInv'
      /\ \A k \in Hosts : /\ recent'[k] \in {None, recent[k], older[k]}
                          /\ older'[k] \in {None, recent[k], older[k]}
  BY <1>1, <1>2, GetKeeps
<1>5. PICK q \in Nat : addressRotation => \A k \in 0 .. entry[x].n - 1 :
                          Occurs(used[x], k) = IF k < entry[x].currentIndex THEN q + 1 ELSE q
  BY <1>1 DEF DnsInv, Even
<1>6. /\ entry' \in [Lookups -> LiveEntries \cup {Dns!NoEntry}] /\ entry'[x] \in LiveEntries
      /\ used' \in [Lookups -> Seq(Nat)] /\ answer' \in [Lookups -> Dns!Answers]
      /\ \A y \in Lookups \ {x} : entry'[y] = entry[y] /\ used'[y] = used[y]
      /\ addressRotation => \E p \in Nat : \A k \in 0 .. entry'[x].n - 1 :
           Occurs(used'[x], k) = IF k < entry'[x].currentIndex THEN p + 1 ELSE p
  BY ZenonT(60), <1>1, <1>2, <1>3, <1>5, GiveKeeps
<1>7. entry'[x] # Dns!NoEntry
  BY <1>6, LiveIsNotNone
<1>8. Dns!TypeOK'
  BY <1>2, <1>4, <1>6 DEF Dns!TypeOK, GenerationInv, LiveEntries
<1>9. \A k \in Hosts : Good(k, recent[k])' /\ Good(k, older[k])'
  <2>1. \A k \in Hosts, y \in Lookups \cup {None} :
          Good(k, y) => (y # None => HostOf[y] = k /\ entry'[y] # Dns!NoEntry)
    BY <1>6, <1>7 DEF Good
  <2>2. \A k \in Hosts : /\ Good(k, None) /\ Good(k, recent[k]) /\ Good(k, older[k])
                         /\ recent[k] \in Lookups \cup {None} /\ older[k] \in Lookups \cup {None}
    BY DEF DnsInv, Good, Dns!TypeOK
  <2>3. \A k \in Hosts :
          /\ recent'[k] # None => HostOf[recent'[k]] = k /\ entry'[recent'[k]] # Dns!NoEntry
          /\ older'[k] # None => HostOf[older'[k]] = k /\ entry'[older'[k]] # Dns!NoEntry
    BY <1>4, <2>1, <2>2
  <2> QED BY <2>3 DEF Good
<1>10. ASSUME addressRotation', NEW y \in Lookups PROVE Even(y)'
  <2>1. CASE y = x
    BY <1>2, <1>6, <1>10, <2>1 DEF Even
  <2>2. CASE y # x
    <3>1. addressRotation /\ entry'[y] = entry[y] /\ used'[y] = used[y]
      BY <1>2, <1>6, <1>10, <2>2
    <3>2. Even(y)
      BY <3>1 DEF DnsInv
    <3> QED BY <3>1, <3>2 DEF Even
  <2> QED BY <2>1, <2>2
<1>11. /\ \A y \in Lookups : pc'[y] # "done" => entry'[y] = Dns!NoEntry
       /\ \A y \in Lookups : entry'[y] = Dns!NoEntry => used'[y] = <<>>
  BY <1>1, <1>2, <1>3, <1>6, <1>7 DEF DnsInv, Dns!TypeOK
<1> QED BY <1>4, <1>6, <1>8, <1>9, <1>10, <1>11 DEF DnsInv

LEMMA AnsweredKeeps ==
  ASSUME Dns!DnsAssumption, DnsInv, NEW l \in Lookups, Dns!Answered(l)
  PROVE  DnsInv'
<1>1. PICK n \in 1 .. MaxAddresses, expired \in BOOLEAN :
        LET e == [n |-> n, currentIndex |-> 0, expired |-> expired] IN
        /\ pc[l] \in {"waiting", "refreshing"} /\ pc' = [pc EXCEPT ![l] = "done"]
        /\ Dns!Put(HostOf[l], l)
        /\ IF pc[l] = "waiting" THEN Dns!Give(l, l, e)
           ELSE entry' = [entry EXCEPT ![l] = e] /\ UNCHANGED <<answer, used, last>>
        /\ UNCHANGED addressRotation
  BY DEF Dns!Answered
<1> DEFINE e == [n |-> n, currentIndex |-> 0, expired |-> expired]
<1>2. e \in LiveEntries /\ e.n = n /\ e.currentIndex = 0
  BY DEF LiveEntries, Dns!Entries, Dns!DnsAssumption
<1>3. /\ HostOf[l] \in Hosts /\ entry[l] = Dns!NoEntry /\ used[l] = <<>> /\ l # None
      /\ addressRotation' = addressRotation /\ pc' = [pc EXCEPT ![l] = "done"]
  BY <1>1 DEF DnsInv, Dns!DnsAssumption
<1>4. /\ GenerationInv'
      /\ \A k \in Hosts : /\ \/ recent'[k] \in {None, recent[k]}
                             \/ k = HostOf[l] /\ recent'[k] = l
                          /\ \/ older'[k] \in {None, recent[k], older[k]}
                             \/ k = HostOf[l] /\ older'[k] = l
  BY <1>1, <1>3, PutKeeps DEF DnsInv
<1> HIDE DEF e
<1>5. /\ entry' \in [Lookups -> LiveEntries \cup {Dns!NoEntry}] /\ entry'[l] \in LiveEntries
      /\ used' \in [Lookups -> Seq(Nat)] /\ answer' \in [Lookups -> Dns!Answers]
      /\ \A y \in Lookups \ {l} : entry'[y] = entry[y] /\ used'[y] = used[y]
      /\ addressRotation => \E p \in Nat : \A k \in 0 .. entry'[l].n - 1 :
           Occurs(used'[l], k) = IF k < entry'[l].currentIndex THEN p + 1 ELSE p
  <2>1. PICK q \in Nat : addressRotation => \A k \in 0 .. e.n - 1 :
                            Occurs(used[l], k) = IF k < e.currentIndex THEN q + 1 ELSE q
    <3>1. \A k \in 0 .. e.n - 1 : Occurs(used[l], k) = IF k < e.currentIndex THEN 0 + 1 ELSE 0
      BY <1>2, <1>3, OccursEmpty
    <3> QED BY <3>1
  <2>2. CASE pc[l] = "waiting"
    <3>1. Dns!Give(l, l, e)
      BY <1>1, <2>2 DEF e
    <3> QED
      <4>1. l \in Lookups /\ e \in LiveEntries /\ q \in Nat
        BY <1>2, <2>1
      <4>2. addressRotation => \A k \in 0 .. e.n - 1 :
              Occurs(used[l], k) = IF k < e.currentIndex THEN q + 1 ELSE q
        BY <2>1
      <4> HIDE DEF LiveEntries
      <4> QED BY <3>1, <4>1, <4>2, GiveKeeps
  <2>3. CASE pc[l] # "waiting"
    <3>1. entry' = [entry EXCEPT ![l] = e] /\ UNCHANGED <<answer, used>>
      BY <1>1, <2>3 DEF e
    <3>2. entry'[l] = e /\ used'[l] = used[l]
      BY <3>1 DEF DnsInv
    <3> QED BY <1>2, <2>1, <3>1, <3>2 DEF DnsInv, Dns!TypeOK
  <2> QED BY <2>2, <2>3
<1>6. entry'[l] # Dns!NoEntry
  BY <1>5, LiveIsNotNone
<1>7. Dns!TypeOK'
  BY <1>3, <1>4, <1>5 DEF DnsInv, Dns!TypeOK, GenerationInv, LiveEntries
<1>8. \A k \in Hosts : Good(k, recent[k])' /\ Good(k, older[k])'
  <2>1. \A k \in Hosts, y \in Lookups \cup {None} : Good(k, y) => Good(k, y)'
    BY <1>3, <1>5 DEF Good
  <2>2. Good(HostOf[l], l)'
    BY <1>6 DEF Good
  <2> QED BY <1>4, <2>1, <2>2 DEF DnsInv, Good, Dns!TypeOK
<1>9. addressRotation' => \A y \in Lookups : Even(y)'
  BY <1>3, <1>5 DEF DnsInv, Even
<1>10. /\ \A y \in Lookups : pc'[y] # "done" => entry'[y] = Dns!NoEntry
       /\ \A y \in Lookups : entry'[y] = Dns!NoEntry => used'[y] = <<>>
  BY <1>3, <1>5, <1>6 DEF DnsInv, Dns!TypeOK
<1> QED BY <1>4, <1>5, <1>7, <1>8, <1>9, <1>10 DEF DnsInv

LEMMA ExpireKeeps ==
  ASSUME Dns!DnsAssumption, DnsInv, NEW h \in Hosts, Dns!Expire(h)
  PROVE  DnsInv'
<1> DEFINE x == Dns!Cached(h)
<1>1. x \in Lookups /\ entry[x] # Dns!NoEntry
  BY DEF Dns!Expire, Dns!Cached, DnsInv, Dns!TypeOK, Good
<1>2. /\ entry' = [entry EXCEPT ![x] = [entry[x] EXCEPT !.expired = TRUE]]
      /\ UNCHANGED <<addressRotation, recent, older, pc, answer, used>>
  BY DEF Dns!Expire, Dns!lookupVars
<1> HIDE DEF x
<1>3. entry[x] \in LiveEntries
  BY <1>1 DEF DnsInv
<1>4. LET f == [entry[x] EXCEPT !.expired = TRUE] IN
      f \in LiveEntries /\ f.n = entry[x].n /\ f.currentIndex = entry[x].currentIndex
  BY <1>3 DEF LiveEntries, Dns!Entries
<1>5. /\ entry' \in [Lookups -> LiveEntries \cup {Dns!NoEntry}] /\ entry'[x] \in LiveEntries
      /\ \A y \in Lookups : entry'[y].n = entry[y].n /\ entry'[y].currentIndex = entry[y].currentIndex
      /\ \A y \in Lookups \ {x} : entry'[y] = entry[y]
  BY <1>1, <1>2, <1>4 DEF DnsInv
<1>6. entry'[x] # Dns!NoEntry
  BY <1>5, LiveIsNotNone
<1>7. Dns!TypeOK' /\ GenerationInv'
  BY <1>2, <1>5 DEF DnsInv, Dns!TypeOK, GenerationInv, LiveEntries
<1>8. \A k \in Hosts : Good(k, recent[k])' /\ Good(k, older[k])'
  BY <1>2, <1>5, <1>6 DEF DnsInv, Good, Dns!TypeOK
<1>9. addressRotation' => \A y \in Lookups : Even(y)'
  BY <1>2, <1>5 DEF DnsInv, Even
<1>10. /\ \A y \in Lookups : pc'[y] # "done" => entry'[y] = Dns!NoEntry
       /\ \A y \in Lookups : entry'[y] = Dns!NoEntry => used'[y] = <<>>
  BY <1>1, <1>2, <1>5, <1>6 DEF DnsInv
<1> QED BY <1>2, <1>5, <1>7, <1>8, <1>9, <1>10 DEF DnsInv

\* What leaves entries and uses alone.
LEMMA EntriesStay ==
  ASSUME Dns!DnsAssumption, DnsInv, UNCHANGED <<addressRotation, entry, used>>, GenerationInv',
         \A k \in Hosts : /\ recent'[k] \in {None, recent[k], older[k]}
                         /\ older'[k] \in {None, recent[k], older[k]},
         pc' \in [Lookups -> {"idle", "waiting", "refreshing", "done"}],
         \A l \in Lookups : pc'[l] # "done" => pc[l] # "done",
         answer' \in [Lookups -> Dns!Answers]
  PROVE  DnsInv'
<1>1. Dns!TypeOK'
  BY DEF DnsInv, Dns!TypeOK, GenerationInv
<1>2. \A k \in Hosts : Good(k, recent[k])' /\ Good(k, older[k])'
  BY DEF DnsInv, Good, Dns!TypeOK
<1>3. addressRotation' => \A y \in Lookups : Even(y)'
  BY DEF DnsInv, Even
<1> QED BY <1>1, <1>2, <1>3 DEF DnsInv

LEMMA NextDns ==
  ASSUME Dns!DnsAssumption, DnsInv, [Dns!Next]_(Dns!vars) PROVE DnsInv'
<1>1. ASSUME NEW l \in Lookups, Dns!Miss(l) \/ Dns!Fails(l) PROVE DnsInv'
  <2>1. /\ UNCHANGED <<addressRotation, recent, older, entry, used>>
        /\ pc[l] # "done" /\ pc' \in {[pc EXCEPT ![l] = "waiting"], [pc EXCEPT ![l] = "done"]}
        /\ answer' \in {answer, [answer EXCEPT ![l] = <<"error">>]}
    BY <1>1 DEF Dns!Miss, Dns!Fails, Dns!cacheVars
  <2>2. /\ pc' \in [Lookups -> {"idle", "waiting", "refreshing", "done"}]
        /\ \A y \in Lookups : pc'[y] # "done" => pc[y] # "done"
        /\ answer' \in [Lookups -> Dns!Answers]
    BY <2>1 DEF DnsInv, Dns!TypeOK, Dns!Answers
  <2>3. GenerationInv'
    BY <2>1 DEF DnsInv, GenerationInv
  <2> QED BY <2>1, <2>2, <2>3, EntriesStay
<1>2. ASSUME NEW h \in Hosts, Dns!Peek(h) PROVE DnsInv'
  <2>1. Dns!Get(h) /\ UNCHANGED <<addressRotation, entry, pc, answer, used>>
    BY <1>2 DEF Dns!Peek, Dns!lookupVars
  <2> QED BY <2>1, GetKeeps, EntriesStay DEF DnsInv, Dns!TypeOK
<1>3. CASE Dns!Reset
  <2>1. /\ UNCHANGED <<addressRotation, entry, pc, answer, used>>
        /\ recent' = Dns!Empty /\ older' = Dns!Empty
    BY <1>3 DEF Dns!Reset, Dns!lookupVars
  <2>2. Held(Dns!Empty) = {} /\ Dns!Empty \in [Hosts -> Lookups \cup {None}]
        /\ \A k \in Hosts : Dns!Empty[k] = None
    BY DEF Held, Dns!Empty
  <2>3. IsFiniteSet({}) /\ Cardinality({}) = 0
    BY FS_EmptySet
  <2>4. GenerationInv'
    BY <2>1, <2>2, <2>3 DEF GenerationInv, Dns!DnsAssumption
  <2> QED BY <2>1, <2>2, <2>4, EntriesStay DEF DnsInv, Dns!TypeOK
<1>4. CASE UNCHANGED Dns!vars
  <2>1. UNCHANGED <<addressRotation, recent, older, entry, pc, answer, used>>
    BY <1>4 DEF Dns!vars, Dns!cacheVars, Dns!lookupVars
  <2>2. GenerationInv'
    BY <2>1 DEF DnsInv, GenerationInv
  <2> QED BY <2>1, <2>2, EntriesStay DEF DnsInv, Dns!TypeOK
<1> QED BY <1>1, <1>2, <1>3, <1>4, HitKeeps, AnsweredKeeps, ExpireKeeps DEF Dns!Next

LEMMA DnsHolds ==
  ASSUME Dns!DnsAssumption, DnsInv PROVE Dns!RotationIsFair /\ Dns!CacheHoldsAnswers
<1>1. Dns!RotationIsFair
  <2> SUFFICES ASSUME addressRotation, NEW x \in Lookups,
                      NEW m \in 0 .. entry[x].n - 1, NEW n \in 0 .. entry[x].n - 1
               PROVE  Dns!Times(x, m) <= Dns!Times(x, n) + 1
    BY DEF Dns!RotationIsFair
  <2>1. /\ Dns!Times(x, m) = Occurs(used[x], m) /\ Dns!Times(x, n) = Occurs(used[x], n)
    BY DnsCounts DEF Dns!Times, Occurs
  <2> QED BY <2>1 DEF DnsInv, Even
<1>2. Dns!CacheHoldsAnswers
  <2>1. \A h \in Hosts : Dns!Cached(h) # None =>
          HostOf[Dns!Cached(h)] = h /\ entry[Dns!Cached(h)] # Dns!NoEntry
    BY DEF DnsInv, Good, Dns!Cached
  <2>2. /\ Dns!Cardinality({h \in Hosts : recent[h] # None}) = Cardinality(Held(recent))
        /\ Dns!Cardinality({h \in Hosts : older[h] # None}) = Cardinality(Held(older))
    BY DnsCounts DEF Held
  <2> QED BY <2>1, <2>2 DEF Dns!CacheHoldsAnswers, DnsInv, GenerationInv
<1> QED BY <1>1, <1>2

-----------------------------------------------------------------------------
(* What a client keeps of the outside *)

LEMMA InitPlugins ==
  ASSUME MCInit
  PROVE  Dns!Init /\ Oss!Init /\ Realm!Init /\ Schedule!Init /\ Trace!Init /\ Aspect!Init
         /\ Language!Init
BY DEF MCInit

\* A step of the composition is one of each part, or leaves the part alone.
LEMMA ClientsStep ==
  ASSUME [MCNext]_<<part, tableVars, text, sourceVars, aopVars, graphVars, ormVars,
                    scheduleVars, dnsVars, ossVars, traceVars>>
  PROVE  [Dns!Next]_(Dns!vars) /\ [Oss!Next]_(Oss!vars) /\ [Trace!Next]_(Trace!vars)
<1>1. Dns!Next \/ UNCHANGED dnsVars
  BY DEF MCNext, NoClient
<1>2. Oss!Next \/ UNCHANGED ossVars
  BY DEF MCNext, NoClient
<1>3. Trace!Next \/ UNCHANGED traceVars
  BY DEF MCNext, NoClient
<1> QED BY <1>1, <1>2, <1>3 DEF dnsVars, ossVars, traceVars, Dns!vars, Dns!cacheVars, Dns!lookupVars,
        Oss!vars, Trace!vars

\* Whatever lookups, refreshes, failures and evictions interleave, the addresses of
\* an entry that rotates are used equally often but for one, a host is served from
\* an answer for that host, and the cache keeps its bounds; and whatever appends,
\* faults and restarts do, an append that returned is in the object once, and one
\* that threw is not, unless a fault of the store hit that very call.
THEOREM ClientsHold == MCSpec => []ClientsKeepTheTruth
<1>1. MCInit => DnsInv /\ Oss!Init
  BY InitPlugins, InitDns, InstancesAssumption DEF InstancesAssumption
<1>2. DnsInv /\ [MCNext]_<<part, tableVars, text, sourceVars, aopVars, graphVars, ormVars,
                    scheduleVars, dnsVars, ossVars, traceVars>>
        => DnsInv' /\ [Oss!Next]_(Oss!vars)
  BY ClientsStep, NextDns, InstancesAssumption DEF InstancesAssumption
<1>3. DnsInv => Dns!RotationIsFair /\ Dns!CacheHoldsAnswers
  BY DnsHolds, InstancesAssumption DEF InstancesAssumption
<1>4. Oss!Spec => []Oss!AppendedOnce
  BY Oss!Once, InstancesAssumption DEF InstancesAssumption
<1>5. ClientsKeepTheTruth <=> Dns!RotationIsFair /\ Dns!CacheHoldsAnswers /\ Oss!AppendedOnce
  BY DEF ClientsKeepTheTruth
<1> QED BY <1>1, <1>2, <1>3, <1>4, <1>5, PTL DEF MCSpec, Oss!Spec

-----------------------------------------------------------------------------
(* Schedules *)

\* A path has the task of a class in its file, and only one that is tracked; a
\* closed worker has none.  The rest is of the tasks.
ScheduleInv ==
  /\ agent \in Schedule!AgentRegistered /\ worker \in [Paths -> Classes \cup {None}]
  /\ \A p \in Paths : worker[p] # None => p \in tracked /\ File[worker[p]] = p
  /\ closed => \A p \in Paths : worker[p] = None
  /\ \A t \in tasks : /\ t.ticked \in Classes /\ t.called \in Classes
                      /\ File[t.ticked] = File[t.called]
                      /\ t.runs => t.called \notin Disabled
                      /\ ~t.late

LEMMA InitSchedule == ASSUME Schedule!ScheduleAssumption, Schedule!Init PROVE ScheduleInv
BY DEF Schedule!Init, ScheduleInv, Schedule!ScheduleAssumption

LEMMA NextSchedule ==
  ASSUME Schedule!ScheduleAssumption, ScheduleInv, [Schedule!Next]_(Schedule!vars)
  PROVE  ScheduleInv'
<1> USE DEF ScheduleInv, Schedule!ScheduleAssumption
<1>1. ASSUME NEW c \in Classes, Schedule!WorkerRegister(c) PROVE ScheduleInv'
  BY <1>1 DEF Schedule!WorkerRegister, Schedule!Tracked
<1>2. ASSUME NEW c \in Classes, Schedule!Unregister(c) PROVE ScheduleInv'
  BY <1>2 DEF Schedule!Unregister
<1>3. CASE Schedule!UnregisterAll
  BY <1>3 DEF Schedule!UnregisterAll
<1>4. ASSUME NEW p \in Paths, Schedule!Fire(p) PROVE ScheduleInv'
  <2> DEFINE t == [ticked |-> agent[p], called |-> worker[p],
                   runs |-> worker[p] \notin Disabled, late |-> closed]
  <2>1. /\ worker[p] # None /\ tasks' = tasks \cup {t}
        /\ UNCHANGED <<agent, worker, tracked, closed>>
    BY <1>4 DEF Schedule!Fire
  <2>2. /\ t.ticked \in Classes /\ t.called \in Classes /\ File[t.ticked] = File[t.called]
        /\ t.runs => t.called \notin Disabled
        /\ ~t.late
    BY <2>1 DEF Schedule!AgentRegistered
  <2> QED BY <2>1, <2>2
<1>5. CASE UNCHANGED Schedule!vars
  BY <1>5 DEF Schedule!vars
<1> QED BY <1>1, <1>2, <1>3, <1>4, <1>5 DEF Schedule!Next

LEMMA ScheduleHolds == ASSUME ScheduleInv PROVE Schedule!TicksCallTheirClass
BY DEF ScheduleInv, Schedule!TicksCallTheirClass, Schedule!Alone

-----------------------------------------------------------------------------
(* Realms *)

LEMMA RealmCounts == \A S : Realm!Cardinality(S) = Cardinality(S)
BY DEF Realm!Cardinality, Cardinality

LEMMA LeastOf ==
  ASSUME NEW S \in SUBSET Nat, S # {}
  PROVE  \E n \in S : \A m \in S : n <= m
<1>1. PICK n \in S : \A m \in Nat : <<m, n>> \in OpToRel(<, Nat) => m \notin S
  BY NatLessThanWellFounded, WFMin
<1>2. \A m \in S : ~(m < n)
  BY <1>1 DEF OpToRel
<1> QED BY <1>2

\* The realm that was given out for a database is the database's, each model is
\* registered with the one of its database, and that one was connected.
RealmInv ==
  /\ listed \in Lists /\ database \in [Models -> Realm!Databases \cup {None}]
  /\ models \in Seq(Models) /\ realms \in Nat /\ realmMap \in [Realm!Databases -> Nat]
  /\ realmOf \in [Models -> Nat]
  /\ \A a \in given : a[1] \in Realm!Databases /\ a[2] = realmMap[a[1]] /\ a[2] # 0
  /\ stage \in {"connecting", "ready"} => \A m \in Models :
       LET d == Realm!GetConfig(database[m]) IN
       /\ d \in Realm!Databases /\ realmOf[m] = realmMap[d] /\ realmMap[d] # 0
       /\ realmOf[m] \in connecting
  /\ stage = "ready" => connecting \subseteq connected

\* A config that is there is that of the name asked for.
LEMMA ConfigIsOfName ==
  ASSUME Realm!OrmAssumption, listed \in Lists, NEW d, Realm!GetConfig(d) # None
  PROVE  /\ Realm!GetConfig(d) \in Realm!Databases
         /\ d \in Realm!Databases => Realm!GetConfig(d) = d
         /\ Single \in Realm!Databases
<1>1. /\ Single \in Realm!Databases /\ Single # None /\ None \notin Realm!Databases
      /\ \A e \in listed : e \in Realm!Databases
  BY DEF Realm!Databases, Realm!OrmAssumption
<1>2. CASE d = None
  BY <1>1, <1>2 DEF Realm!GetConfig
<1>3. CASE d # None
  BY <1>1, <1>3 DEF Realm!GetConfig, Realm!Configs
<1> QED BY <1>1, <1>2, <1>3

LEMMA InitRealm == ASSUME Realm!OrmAssumption, Realm!Init PROVE RealmInv
BY DEF Realm!Init, RealmInv

\* What a realm is given out for has it, and no other realm is replaced.
LEMMA GetClientKeeps ==
  ASSUME Realm!OrmAssumption, RealmInv, NEW d \in Realm!Databases, Realm!GetClient(d)
  PROVE  RealmInv'
<1> DEFINE got == Realm!GetOrCreate(realmMap, realms, Realm!GetConfig(d))
<1>1. /\ Realm!GetConfig(d) = d /\ Realm!GetConfig(d) # None
      /\ realmMap' = got.realms /\ realms' = got.made
      /\ given' = given \cup {<<d, got.realms[d]>>}
      /\ UNCHANGED <<listed, database, stage, models, connecting, connected, realmOf>>
  BY ConfigIsOfName DEF Realm!GetClient, RealmInv, Realm!config
<1>2. /\ got.realms \in [Realm!Databases -> Nat] /\ got.made \in Nat /\ got.realms[d] # 0
      /\ \A e \in Realm!Databases : realmMap[e] # 0 => got.realms[e] = realmMap[e]
  <2>1. CASE realmMap[d] # 0
    BY <1>1, <2>1 DEF Realm!GetOrCreate, RealmInv
  <2>2. CASE realmMap[d] = 0
    BY <1>1, <2>2 DEF Realm!GetOrCreate, RealmInv
  <2> QED BY <2>1, <2>2
<1> HIDE DEF got
<1>3. \A n : Realm!GetConfig(n)' = Realm!GetConfig(n)
  BY <1>1 DEF Realm!GetConfig, Realm!Configs
<1>4. \A a \in given' : a[1] \in Realm!Databases /\ a[2] = realmMap'[a[1]] /\ a[2] # 0
  BY <1>1, <1>2 DEF RealmInv
<1>5. stage' \in {"connecting", "ready"} => \A m \in Models :
        LET c == Realm!GetConfig(database[m]) IN
        /\ c \in Realm!Databases /\ realmOf'[m] = realmMap'[c] /\ realmMap'[c] # 0
        /\ realmOf'[m] \in connecting'
  BY <1>1, <1>2 DEF RealmInv
<1> QED BY <1>1, <1>2, <1>3, <1>4, <1>5 DEF RealmInv, Realm!Databases

\* Models are registered with the realm of their database, one that is there stays.
LEMMA RegisterKeeps ==
  ASSUME Realm!OrmAssumption, RealmInv, Realm!Register
  PROVE  RealmInv'
<1> DEFINE of(k) == Realm!GetConfig(database[models[k]])
           named == {k \in DOMAIN models : \A j \in 1 .. k : of(j) # None}
           firsts == {k \in named : realmMap[of(k)] = 0 /\ \A j \in 1 .. k - 1 : of(j) # of(k)}
           number(k) == realms + Realm!Cardinality({j \in firsts : j <= k})
           first(d) == CHOOSE k \in firsts : of(k) = d
           map == [d \in Realm!Databases |->
                     IF \E k \in firsts : of(k) = d THEN number(first(d)) ELSE realmMap[d]]
           register == [m \in Models |-> IF \E k \in named : models[k] = m
                                         THEN map[Realm!GetConfig(database[m])] ELSE realmOf[m]]
<1> USE DEF RealmInv
<1>1. /\ realmMap' = map /\ realms' = realms + Realm!Cardinality(firsts) /\ realmOf' = register
      /\ connecting' = IF named = DOMAIN models THEN {map[d] : d \in Realm!Databases} \ {0} ELSE {}
      /\ stage' = IF named # DOMAIN models THEN "failed"
                  ELSE IF connecting' = {} THEN "ready" ELSE "connecting"
      /\ UNCHANGED <<listed, database, models, connected, given>>
      /\ \A m \in Models : Realm!Contains(models, m)
  BY ZenonT(60) DEF Realm!Register, Realm!Registered, Realm!config
<1>2. DOMAIN models = 1 .. Len(models) /\ Len(models) \in Nat
  OBVIOUS
<1>3. IsFiniteSet(firsts) /\ Realm!Cardinality(firsts) \in Nat
  <2>1. IsFiniteSet(1 .. Len(models)) /\ firsts \in SUBSET (1 .. Len(models))
    BY <1>2, FS_Interval
  <2> HIDE DEF firsts
  <2> QED BY <2>1, FS_Subset, FS_CardinalityType, RealmCounts
<1>4. \A k \in firsts : number(k) \in Nat \ {0}
  <2> SUFFICES ASSUME NEW k \in firsts PROVE number(k) \in Nat \ {0}
    OBVIOUS
  <2> DEFINE before == {j \in firsts : j <= k}
  <2>1. IsFiniteSet(before) /\ before # {}
    <3>1. before \in SUBSET firsts
      OBVIOUS
    <3>2. k \in before
      BY <1>2
    <3> HIDE DEF before
    <3> QED BY <1>3, <3>1, <3>2, FS_Subset
  <2> HIDE DEF before
  <2>2. Realm!Cardinality(before) \in Nat \ {0}
    BY <2>1, FS_CardinalityType, FS_EmptySet, RealmCounts
  <2> QED BY <2>2 DEF before
<1>5. \A d \in Realm!Databases : (\E k \in firsts : of(k) = d) => first(d) \in firsts
  OBVIOUS
<1>6. /\ map \in [Realm!Databases -> Nat]
      /\ \A d \in Realm!Databases : realmMap[d] # 0 => map[d] = realmMap[d]
      /\ \A d \in Realm!Databases : (\E k \in firsts : of(k) = d) => map[d] # 0
  <2> HIDE DEF named, number, first, of
  <2>1. \A k \in firsts : realmMap[of(k)] = 0
    OBVIOUS
  <2> HIDE DEF firsts
  <2> QED BY <1>4, <1>5, <2>1
<1>7. \A k \in named : of(k) \in Realm!Databases /\ map[of(k)] # 0
  <2> SUFFICES ASSUME NEW k \in named PROVE of(k) \in Realm!Databases /\ map[of(k)] # 0
    OBVIOUS
  <2>1. of(k) # None /\ k \in 1 .. Len(models)
    BY <1>2
  <2>2. of(k) \in Realm!Databases
    BY <2>1, ConfigIsOfName
  <2>3. CASE realmMap[of(k)] # 0
    BY <1>6, <2>2, <2>3
  <2>4. CASE realmMap[of(k)] = 0
    <3> DEFINE same == {j \in 1 .. k : of(j) = of(k)}
    <3>1. same \in SUBSET Nat /\ k \in same
      BY <2>1
    <3>2. PICK f \in same : \A j \in same : f <= j
      BY <3>1, LeastOf
    <3>3. f \in 1 .. k /\ of(f) = of(k) /\ \A j \in 1 .. f - 1 : of(j) # of(k)
      BY <2>1, <3>2
    <3>4. f \in named
      BY <1>2, <2>1, <3>3
    <3>5. f \in firsts
      BY <2>4, <3>3, <3>4
    <3> HIDE DEF firsts, map
    <3> QED BY <1>6, <2>2, <3>3, <3>5
  <2> QED BY <2>2, <2>3, <2>4
<1> HIDE DEF named, firsts, number, first, map, of
<1>8. \A m \in Models : \E k \in DOMAIN models : models[k] = m
  BY <1>1, <1>2 DEF Realm!Contains
<1>9. register \in [Models -> Nat]
  <2> SUFFICES ASSUME NEW m \in Models PROVE register[m] \in Nat
    OBVIOUS
  <2>1. CASE \E k \in named : models[k] = m
    BY <1>6, <1>7, <2>1 DEF of
  <2>2. CASE ~\E k \in named : models[k] = m
    BY <2>2
  <2> QED BY <2>1, <2>2
<1>10. \A n : Realm!GetConfig(n)' = Realm!GetConfig(n)
  BY <1>1 DEF Realm!GetConfig, Realm!Configs
<1>11. \A a \in given' : a[1] \in Realm!Databases /\ a[2] = realmMap'[a[1]] /\ a[2] # 0
  BY <1>1, <1>6
<1>12. ASSUME stage' \in {"connecting", "ready"}, NEW m \in Models
       PROVE  /\ Realm!GetConfig(database[m]) \in Realm!Databases
              /\ realmOf'[m] = realmMap'[Realm!GetConfig(database[m])]
              /\ realmMap'[Realm!GetConfig(database[m])] # 0
              /\ realmOf'[m] \in connecting'
  <2>1. named = DOMAIN models
    BY <1>1, <1>12
  <2>2. PICK k \in named : models[k] = m
    BY <1>8, <2>1
  <2>3. of(k) = Realm!GetConfig(database[m]) /\ of(k) \in Realm!Databases /\ map[of(k)] # 0
    BY <1>7, <2>2 DEF of
  <2>4. register[m] = map[of(k)]
    BY <2>2, <2>3
  <2> QED BY <1>1, <2>1, <2>3, <2>4
<1>13. stage' = "ready" => connecting' \subseteq connected'
  BY <1>1
<1>14. realms' \in Nat
  BY <1>1, <1>3
<1> HIDE DEF RealmInv, register
<1>15. realmMap' \in [Realm!Databases -> Nat] /\ realmOf' \in [Models -> Nat]
       /\ listed' \in Lists /\ models' \in Seq(Models)
       /\ database' \in [Models -> Realm!Databases \cup {None}]
       /\ database' = database
  BY <1>1, <1>6, <1>9 DEF RealmInv
<1> QED BY <1>10, <1>11, <1>12, <1>13, <1>14, <1>15 DEF RealmInv, Realm!Databases

LEMMA NextRealm ==
  ASSUME Realm!OrmAssumption, RealmInv, [Realm!Next]_(Realm!vars)
  PROVE  RealmInv'
<1>1. ASSUME NEW m \in Models, Realm!AddProto(m) PROVE RealmInv'
  <2>1. /\ stage' = "loading" /\ models' = Append(models, m)
        /\ UNCHANGED <<listed, database, realms, realmMap, connecting, connected, realmOf, given>>
    BY <1>1 DEF Realm!AddProto, Realm!config
  <2>2. models' \in Seq(Models)
    BY <2>1 DEF RealmInv
  <2> QED BY <2>1, <2>2 DEF RealmInv, Realm!Databases, Realm!GetConfig, Realm!Configs
<1>2. CASE Realm!Client
  <2>1. /\ realmMap[Single] # 0 /\ given' = given \cup {<<Single, realmMap[Single]>>}
        /\ UNCHANGED <<listed, database, stage, models, realms, realmMap, connecting, connected,
                       realmOf>>
    BY <1>2 DEF Realm!Client, Realm!config
  <2>2. Single \in Realm!Databases
    BY DEF Realm!Databases
  <2> QED BY <2>1, <2>2 DEF RealmInv, Realm!Databases, Realm!GetConfig, Realm!Configs
<1>3. ASSUME NEW r, Realm!Connected(r) PROVE RealmInv'
  <2>1. /\ stage = "connecting" /\ stage' \in {"connecting", "ready", "failed"}
        /\ stage' = "ready" => connecting \subseteq connected'
        /\ UNCHANGED <<listed, database, models, realms, realmMap, connecting, realmOf, given>>
    BY <1>3 DEF Realm!Connected, Realm!config
  <2> QED BY <2>1 DEF RealmInv, Realm!Databases, Realm!GetConfig, Realm!Configs
<1>4. CASE UNCHANGED Realm!vars
  BY <1>4 DEF RealmInv, Realm!vars, Realm!config, Realm!Databases, Realm!GetConfig, Realm!Configs
<1> QED BY <1>1, <1>2, <1>3, <1>4, GetClientKeeps, RegisterKeeps DEF Realm!Next

LEMMA RealmHolds == ASSUME Realm!OrmAssumption, RealmInv PROVE Realm!OneRealmForADatabase
BY DEF RealmInv, Realm!OneRealmForADatabase

LEMMA PluginStep ==
  ASSUME [MCNext]_<<part, tableVars, text, sourceVars, aopVars, graphVars, ormVars,
                    scheduleVars, dnsVars, ossVars, traceVars>>
  PROVE  [Realm!Next]_(Realm!vars) /\ [Schedule!Next]_(Schedule!vars)
<1>1. Realm!Next \/ UNCHANGED ormVars
  BY DEF MCNext, NoPlugin
<1>2. Schedule!Next \/ UNCHANGED scheduleVars
  BY DEF MCNext, NoPlugin
<1> QED BY <1>1, <1>2 DEF ormVars, scheduleVars, Realm!vars, Realm!config, Schedule!vars

\* Whoever asks the Orm object for a database, before the models are registered or
\* after, gets the realm that the database's models are in, which is connected once
\* the application is ready; and a tick calls a class of the file it ticks for.
THEOREM OneOfEachHolds == MCSpec => []OneOfEach
<1>1. MCInit => RealmInv /\ ScheduleInv
  BY InitPlugins, InitRealm, InitSchedule, InstancesAssumption DEF InstancesAssumption
<1>2. RealmInv /\ ScheduleInv
        /\ [MCNext]_<<part, tableVars, text, sourceVars, aopVars, graphVars, ormVars,
                      scheduleVars, dnsVars, ossVars, traceVars>>
        => RealmInv' /\ ScheduleInv'
  BY PluginStep, NextRealm, NextSchedule, InstancesAssumption DEF InstancesAssumption
<1>3. RealmInv /\ ScheduleInv => OneOfEach
  BY RealmHolds, ScheduleHolds, InstancesAssumption DEF InstancesAssumption, OneOfEach
<1> QED BY <1>1, <1>2, <1>3, PTL DEF MCSpec

-----------------------------------------------------------------------------
(* Ranks *)

\* In a finite set that is strictly ordered an element is told by how many precede
\* it, and every number below the size is that of one.
LEMMA Ranking ==
  ASSUME NEW S, IsFiniteSet(S), NEW R,
         \A x \in S : <<x, x>> \notin R,
         \A x, y, z \in S : <<x, y>> \in R /\ <<y, z>> \in R => <<x, z>> \in R,
         \A x, y \in S : x # y => <<x, y>> \in R \/ <<y, x>> \in R
  PROVE  /\ Cardinality(S) \in Nat
         /\ \A x, y \in S : Cardinality({z \in S : <<z, x>> \in R}) =
                            Cardinality({z \in S : <<z, y>> \in R}) => x = y
         /\ \A n \in 1 .. Cardinality(S) :
              \E x \in S : Cardinality({z \in S : <<z, x>> \in R}) = n - 1
         /\ \A x \in S : /\ Cardinality({z \in S : <<z, x>> \in R}) \in Nat
                        /\ Cardinality({z \in S : <<z, x>> \in R}) + 1 \in 1 .. Cardinality(S)
<1> DEFINE below(x) == {z \in S : <<z, x>> \in R}
           rank == [x \in S |-> Cardinality(below(x)) + 1]
<1>1. Cardinality(S) \in Nat
  BY FS_CardinalityType
<1>2. \A x \in S : /\ IsFiniteSet(below(x)) /\ Cardinality(below(x)) \in Nat
                   /\ Cardinality(below(x)) + 1 \in 1 .. Cardinality(S)
  <2> SUFFICES ASSUME NEW x \in S
               PROVE  /\ IsFiniteSet(below(x)) /\ Cardinality(below(x)) \in Nat
                      /\ Cardinality(below(x)) + 1 \in 1 .. Cardinality(S)
    OBVIOUS
  <2>1. below(x) \in SUBSET S /\ x \in S \ below(x)
    OBVIOUS
  <2> HIDE DEF below
  <2>2. /\ IsFiniteSet(below(x)) /\ Cardinality(below(x)) <= Cardinality(S)
        /\ Cardinality(S) # Cardinality(below(x)) /\ Cardinality(below(x)) \in Nat
    BY <2>1, FS_Subset, FS_CardinalityType
  <2> QED BY <1>1, <2>2
<1>3. \A x, y \in S : <<x, y>> \in R => Cardinality(below(x)) < Cardinality(below(y))
  <2> SUFFICES ASSUME NEW x \in S, NEW y \in S, <<x, y>> \in R
               PROVE  Cardinality(below(x)) < Cardinality(below(y))
    OBVIOUS
  <2>1. below(x) \in SUBSET below(y) /\ x \in below(y) \ below(x)
    OBVIOUS
  <2> HIDE DEF below
  <2>2. /\ Cardinality(below(x)) <= Cardinality(below(y))
        /\ Cardinality(below(y)) # Cardinality(below(x))
    BY <1>2, <2>1, FS_Subset
  <2> QED BY <1>2, <2>2
<1>4. \A x, y \in S : Cardinality(below(x)) = Cardinality(below(y)) => x = y
  <2> SUFFICES ASSUME NEW x \in S, NEW y \in S, x # y,
                      Cardinality(below(x)) = Cardinality(below(y))
               PROVE  FALSE
    OBVIOUS
  <2>1. <<x, y>> \in R \/ <<y, x>> \in R
    OBVIOUS
  <2>2. /\ <<x, y>> \in R => Cardinality(below(x)) < Cardinality(below(y))
        /\ <<y, x>> \in R => Cardinality(below(y)) < Cardinality(below(x))
    BY <1>3
  <2>3. Cardinality(below(x)) \in Nat /\ Cardinality(below(y)) \in Nat
    BY <1>2
  <2> HIDE DEF below
  <2> QED BY <2>1, <2>2, <2>3
<1>5. \A n \in 1 .. Cardinality(S) : \E x \in S : rank[x] = n
  <2>1. rank \in [S -> 1 .. Cardinality(S)]
    BY <1>2
  <2>2. \A x, y \in S : rank[x] = rank[y] => x = y
    <3> HIDE DEF below
    <3> QED BY <1>2, <1>4
  <2> HIDE DEF rank
  <2>3. rank \in Injection(S, 1 .. Cardinality(S))
    BY <2>1, <2>2, Fun_IsInj
  <2>4. IsFiniteSet(1 .. Cardinality(S)) /\ Cardinality(1 .. Cardinality(S)) = Cardinality(S)
    BY <1>1, FS_Interval
  <2>5. rank \in Surjection(S, 1 .. Cardinality(S))
    BY <2>3, <2>4, FS_Injection
  <2> QED BY <2>5, Fun_SurjectionProperties
<1>6. \A n \in 1 .. Cardinality(S) : \E x \in S : Cardinality(below(x)) = n - 1
  <2> SUFFICES ASSUME NEW n \in 1 .. Cardinality(S)
               PROVE  \E x \in S : Cardinality(below(x)) = n - 1
    OBVIOUS
  <2>1. PICK x \in S : Cardinality(below(x)) + 1 = n
    BY <1>5
  <2> HIDE DEF below
  <2> QED BY <1>2, <2>1
<1> QED BY <1>1, <1>2, <1>4, <1>6

-----------------------------------------------------------------------------
(* The trace of an execution *)

LEMMA TraceCounts == \A S : Trace!Cardinality(S) = Cardinality(S)
BY DEF Trace!Cardinality, Cardinality

\* A map in the order of its runs has each of them once.
LEMMA RunsInOrder ==
  ASSUME NEW S, IsFiniteSet(S), \A r \in S : r.order \in Nat,
         \A q, r \in S : q.order = r.order => q = r
  PROVE  /\ Cardinality(S) \in Nat /\ Trace!InOrder(S) \in [1 .. Cardinality(S) -> S]
         /\ \A k, j \in 1 .. Cardinality(S) : Trace!InOrder(S)[k] = Trace!InOrder(S)[j] => k = j
         /\ \A r \in S : \E k \in 1 .. Cardinality(S) : Trace!InOrder(S)[k] = r
<1> DEFINE R == {p \in S \X S : p[1].order < p[2].order}
           below(x) == {z \in S : <<z, x>> \in R}
<1>1. /\ \A x \in S : <<x, x>> \notin R
      /\ \A x, y, z \in S : <<x, y>> \in R /\ <<y, z>> \in R => <<x, z>> \in R
      /\ \A x, y \in S : x # y => <<x, y>> \in R \/ <<y, x>> \in R
  OBVIOUS
<1>2. \A r \in S : {s \in S : s.order < r.order} = below(r)
  OBVIOUS
<1> HIDE DEF R
<1>3. /\ Cardinality(S) \in Nat
      /\ \A x, y \in S : Cardinality(below(x)) = Cardinality(below(y)) => x = y
      /\ \A n \in 1 .. Cardinality(S) : \E x \in S : Cardinality(below(x)) = n - 1
      /\ \A x \in S : /\ Cardinality(below(x)) \in Nat
                     /\ Cardinality(below(x)) + 1 \in 1 .. Cardinality(S)
  BY <1>1, Ranking
<1>4. Trace!InOrder(S) =
        [k \in 1 .. Trace!Cardinality(S) |->
           CHOOSE r \in S : Trace!Cardinality({s \in S : s.order < r.order}) = k - 1]
  BY DEF Trace!InOrder
<1>5. \A k \in 1 .. Cardinality(S) : /\ Trace!InOrder(S)[k] \in S
                                     /\ Cardinality(below(Trace!InOrder(S)[k])) = k - 1
  <2> SUFFICES ASSUME NEW k \in 1 .. Cardinality(S)
               PROVE  /\ Trace!InOrder(S)[k] \in S
                      /\ Cardinality(below(Trace!InOrder(S)[k])) = k - 1
    OBVIOUS
  <2>1. \A x \in S : Trace!Cardinality({s \in S : s.order < x.order}) = Cardinality(below(x))
    <3>1. \A T : Trace!Cardinality(T) = Cardinality(T)
      BY TraceCounts
    <3> HIDE DEF below
    <3> QED BY <1>2, <3>1
  <2>2. PICK x \in S : Trace!Cardinality({s \in S : s.order < x.order}) = k - 1
    <3> HIDE DEF below
    <3> QED BY <1>3, <2>1
  <2>3. Trace!InOrder(S)[k] =
          CHOOSE r \in S : Trace!Cardinality({s \in S : s.order < r.order}) = k - 1
    BY <1>4, TraceCounts
  <2>4. /\ Trace!InOrder(S)[k] \in S
        /\ Trace!Cardinality({s \in S : s.order < Trace!InOrder(S)[k].order}) = k - 1
    BY <2>2, <2>3
  <2> HIDE DEF below
  <2> QED BY <2>1, <2>4
<1> HIDE DEF below
<1>6. Trace!InOrder(S) \in [1 .. Cardinality(S) -> S]
  BY <1>4, <1>5, TraceCounts
<1>7. \A k, j \in 1 .. Cardinality(S) : Trace!InOrder(S)[k] = Trace!InOrder(S)[j] => k = j
  BY <1>3, <1>5
<1>8. \A r \in S : \E k \in 1 .. Cardinality(S) : Trace!InOrder(S)[k] = r
  <2> SUFFICES ASSUME NEW r \in S PROVE \E k \in 1 .. Cardinality(S) : Trace!InOrder(S)[k] = r
    OBVIOUS
  <2>1. Cardinality(below(r)) + 1 \in 1 .. Cardinality(S)
    BY <1>3
  <2>2. PICK k \in 1 .. Cardinality(S) : k = Cardinality(below(r)) + 1
    BY <2>1
  <2>3. Cardinality(below(Trace!InOrder(S)[k])) = Cardinality(below(r))
    <3>1. Cardinality(below(Trace!InOrder(S)[k])) = k - 1
      BY <1>5
    <3>2. Cardinality(below(r)) \in Int
      BY <1>3
    <3> QED BY <2>2, <3>1, <3>2
  <2> QED BY <1>3, <1>5, <2>3
<1> QED BY <1>3, <1>6, <1>7, <1>8

TraceRuns ==
  {Trace!Root} \cup {Trace!LLM(n) : n \in Nat \ {0, 1}}
    \cup {Trace!Tool(u, n) : u \in ToolUses, n \in Nat \ {0, 1}}
TraceEntries == [run : TraceRuns, status : {"start", "end", "error"}]

LEMMA RunFacts ==
  /\ Trace!Root \in TraceRuns /\ Trace!Root.type # "tool"
  /\ \A n \in Nat \ {0, 1} : /\ Trace!LLM(n) \in TraceRuns /\ Trace!LLM(n).order = n
                             /\ Trace!LLM(n).type # "tool"
  /\ \A u \in ToolUses, n \in Nat \ {0, 1} : /\ Trace!Tool(u, n) \in TraceRuns
                                             /\ Trace!Tool(u, n).order = n
                                             /\ Trace!Tool(u, n).type = "tool"
  /\ \A r \in TraceRuns : r.order \in Nat \ {0} /\ (r.order = 1 <=> r = Trace!Root)
  /\ \A e \in TraceEntries : e.run \in TraceRuns /\ e = Trace!Entry(e.run, e.status)
  /\ \A r \in TraceRuns, s \in {"start", "end", "error"} :
       /\ Trace!Entry(r, s) \in TraceEntries
       /\ Trace!Entry(r, s).run = r /\ Trace!Entry(r, s).status = s
<1>1. /\ Trace!Root \in TraceRuns /\ Trace!Root.type # "tool" /\ Trace!Root.order = 1
  BY DEF TraceRuns, Trace!Root
<1>2. \A n \in Nat \ {0, 1} : /\ Trace!LLM(n) \in TraceRuns /\ Trace!LLM(n).order = n
                              /\ Trace!LLM(n).type # "tool"
  BY DEF TraceRuns, Trace!LLM
<1>3. \A u \in ToolUses, n \in Nat \ {0, 1} : /\ Trace!Tool(u, n) \in TraceRuns
                                              /\ Trace!Tool(u, n).order = n
                                              /\ Trace!Tool(u, n).type = "tool"
  BY DEF TraceRuns, Trace!Tool
<1>4. ASSUME NEW x \in TraceRuns PROVE x.order \in Nat \ {0} /\ (x.order = 1 <=> x = Trace!Root)
  <2>1. \/ x = Trace!Root
        \/ \E n \in Nat \ {0, 1} : x = Trace!LLM(n)
        \/ \E u \in ToolUses, n \in Nat \ {0, 1} : x = Trace!Tool(u, n)
    BY DEF TraceRuns
  <2> QED BY <1>1, <1>2, <1>3, <2>1
<1>5. /\ \A e \in TraceEntries : e.run \in TraceRuns /\ e = Trace!Entry(e.run, e.status)
      /\ \A x \in TraceRuns, s \in {"start", "end", "error"} :
           /\ Trace!Entry(x, s) \in TraceEntries
           /\ Trace!Entry(x, s).run = x /\ Trace!Entry(x, s).status = s
  BY DEF TraceEntries, Trace!Entry
<1> QED BY <1>1, <1>2, <1>3, <1>4, <1>5

Ends(e) == e.status \in {"end", "error"}
Starts(e) == e.status = "start" /\ e.run # Trace!Root

\* What is logged, and which runs wait for a result: those of tools that were
\* started and have not ended.
LogInv ==
  /\ log \in Seq(TraceEntries) /\ executionOrder \in Nat \ {0, 1}
  /\ IsFiniteSet(pendingToolUses)
  /\ rootRun => log # <<>>
  /\ log # <<>> => log[1] = Trace!Entry(Trace!Root, "start")
  /\ \A k \in DOMAIN log : log[k].run # Trace!Root => log[k].run.order < executionOrder
  /\ \A k, j \in DOMAIN log : log[k].run.order = log[j].run.order => log[k].run = log[j].run
  /\ \A k, j \in DOMAIN log :
       log[k].run = log[j].run /\ log[k].run # Trace!Root
         /\ (Ends(log[k]) <=> Ends(log[j])) => k = j
  /\ \A j \in DOMAIN log : log[j].run.type = "tool" /\ Ends(log[j]) =>
       \E k \in DOMAIN log : k < j /\ log[k].run = log[j].run /\ Starts(log[k])
  /\ \A r \in pendingToolUses :
       /\ r \in TraceRuns /\ r.type = "tool"
       /\ \E k \in DOMAIN log : log[k].run = r /\ Starts(log[k])
       /\ \A k \in DOMAIN log : log[k].run = r => ~Ends(log[k])
  /\ \A k \in DOMAIN log : Starts(log[k]) =>
       \/ log[k].run \in pendingToolUses
       \/ \E j \in DOMAIN log : log[j].run = log[k].run /\ Ends(log[j])
  /\ \A k \in DOMAIN log : log[k].run = Trace!Root /\ Ends(log[k]) =>
       \A m \in DOMAIN log : m < k /\ Starts(log[m]) =>
         \E j \in DOMAIN log : j < k /\ log[j].run = log[m].run /\ Ends(log[j])

\* The children are in the order of their runs.
ChildrenInv ==
  /\ children \in Seq(Nat)
  /\ \A k \in DOMAIN children : children[k] < executionOrder
  /\ \A k, j \in DOMAIN children : k < j => children[k] < children[j]

\* What a step may log: runs that wait, once, as ended; and new ones, as started
\* when they are of tools, which wait from then on.  The root is not ended but
\* after all that waits.
Logs(n, f) ==
  /\ log' \in Seq(TraceEntries) /\ Len(log') = Len(log) + n
  /\ \A k \in 1 .. Len(log) : log'[k] = log[k]
  /\ \A k \in 1 .. n : log'[Len(log) + k] = f[k]
  /\ executionOrder' \in Nat \ {0, 1} /\ executionOrder' >= executionOrder
  /\ IsFiniteSet(pendingToolUses')
  /\ rootRun' => rootRun \/ n > 0
  /\ log = <<>> /\ n > 0 => f[1] = Trace!Entry(Trace!Root, "start")
  /\ \A k \in 1 .. n : f[k].run # Trace!Root =>
       /\ f[k].run.order < executionOrder'
       /\ \/ f[k].run \in pendingToolUses /\ Ends(f[k])
          \/ f[k].run.order >= executionOrder /\ (f[k].run.type = "tool" => ~Ends(f[k]))
  /\ \A k, j \in 1 .. n : f[k].run # Trace!Root /\ f[k].run.order = f[j].run.order => k = j
  /\ \A x : x \in pendingToolUses' <=>
       \/ x \in pendingToolUses /\ \A k \in 1 .. n : f[k].run # x
       \/ \E k \in 1 .. n : x = f[k].run /\ Starts(f[k])
  /\ \A k \in 1 .. n : Starts(f[k]) => f[k].run.type = "tool"
  /\ \A k \in 1 .. n : f[k].run = Trace!Root /\ Ends(f[k]) =>
       /\ \A x \in pendingToolUses : \E j \in 1 .. k - 1 : f[j].run = x
       /\ \A j \in 1 .. k - 1 : ~Starts(f[j])

LEMMA LogKeeps ==
  ASSUME LogInv, NEW n \in Nat, NEW f \in [1 .. n -> TraceEntries], Logs(n, f)
  PROVE  LogInv'
<1> USE DEF Logs
<1> DEFINE L == Len(log)
           Old == 1 .. L
           New == 1 .. L + n
<1>1. /\ L \in Nat /\ DOMAIN log = Old /\ DOMAIN log' = New
      /\ \A k \in Old : log[k] \in TraceEntries /\ log[k].run \in TraceRuns
      /\ \A k \in 1 .. n : f[k] \in TraceEntries /\ f[k].run \in TraceRuns
  <2>1. log \in Seq(TraceEntries)
    BY DEF LogInv
  <2>2. \A e \in TraceEntries : e.run \in TraceRuns
    BY RunFacts
  <2>3. L \in Nat /\ DOMAIN log = Old /\ \A k \in Old : log[k] \in TraceEntries
    BY <2>1
  <2>4. log' \in Seq(TraceEntries) /\ Len(log') = L + n
    OBVIOUS
  <2>5. DOMAIN log' = New
    BY ONLY <2>4
  <2>6. \A k \in 1 .. n : f[k] \in TraceEntries
    OBVIOUS
  <2> QED BY ONLY <2>2, <2>3, <2>5, <2>6
<1>2. /\ \A k \in Old : k \in New /\ log'[k] = log[k]
      /\ \A k \in 1 .. n : L + k \in New /\ log'[L + k] = f[k]
      /\ \A k \in New : k \in Old \/ \E j \in 1 .. n : k = L + j
  <2>1. ASSUME NEW k \in New, k \notin Old PROVE \E j \in 1 .. n : k = L + j
    <3>1. k - L \in 1 .. n /\ k = L + (k - L)
      BY <1>1, <2>1
    <3> QED BY <3>1
  <2> QED BY <1>1, <2>1
<1>3. \A x \in TraceRuns : x.order \in Nat \ {0} /\ (x.order = 1 <=> x = Trace!Root)
  BY RunFacts
\* The conjuncts of the invariant, of what was logged.
<1>old0. DOMAIN log = Old
  BY <1>1
<1> HIDE DEF Old
<1>old1. \A k \in Old : log[k].run # Trace!Root => log[k].run.order < executionOrder
  BY <1>old0 DEF LogInv
<1>old2. \A k, j \in Old : log[k].run.order = log[j].run.order => log[k].run = log[j].run
  BY <1>old0 DEF LogInv
<1>old3. \A k, j \in Old :
           log[k].run = log[j].run /\ log[k].run # Trace!Root
             /\ (Ends(log[k]) <=> Ends(log[j])) => k = j
  BY <1>old0 DEF LogInv
<1>old4. \A j \in Old : log[j].run.type = "tool" /\ Ends(log[j]) =>
           \E k \in Old : k < j /\ log[k].run = log[j].run /\ Starts(log[k])
  BY <1>old0 DEF LogInv
<1>old5. \A x \in pendingToolUses :
           /\ x \in TraceRuns /\ x.type = "tool"
           /\ \E k \in Old : log[k].run = x /\ Starts(log[k])
           /\ \A k \in Old : log[k].run = x => ~Ends(log[k])
  BY <1>old0 DEF LogInv
<1>old6. \A k \in Old : Starts(log[k]) =>
           \/ log[k].run \in pendingToolUses
           \/ \E j \in Old : log[j].run = log[k].run /\ Ends(log[j])
  BY <1>old0 DEF LogInv
<1>old7. \A k \in Old : log[k].run = Trace!Root /\ Ends(log[k]) =>
           \A m \in Old : m < k /\ Starts(log[m]) =>
             \E j \in Old : j < k /\ log[j].run = log[m].run /\ Ends(log[j])
  BY <1>old0 DEF LogInv
<1>old8. executionOrder \in Nat /\ executionOrder' \in Nat
  BY DEF LogInv
<1> USE DEF Old
\* A run that was logged and one that is now.
<1>4. ASSUME NEW k \in Old, NEW j \in 1 .. n, log[k].run.order = f[j].run.order
      PROVE  /\ log[k].run = f[j].run
             /\ f[j].run # Trace!Root =>
                  /\ f[j].run \in pendingToolUses /\ Ends(f[j]) /\ ~Ends(log[k])
                  /\ Starts(log[k])
  <2> HIDE DEF Old, New, L
  <2>1. CASE f[j].run = Trace!Root
    BY <1>1, <1>3, <1>4, <2>1
  <2>2. CASE f[j].run # Trace!Root
    <3>1. log[k].run # Trace!Root /\ log[k].run.order < executionOrder
      BY <1>1, <1>3, <1>4, <1>old1, <2>2
    <3>2. f[j].run \in pendingToolUses /\ Ends(f[j])
      <4>1. f[j].run.order \in Nat /\ ~(f[j].run.order >= executionOrder)
        BY <1>1, <1>3, <1>4, <1>old8, <3>1
      <4> QED BY <2>2, <4>1
    <3>3. PICK m \in Old : log[m].run = f[j].run
      BY <1>old5, <3>2
    <3>4. log[k].run = f[j].run
      <4>1. log[k].run.order = log[m].run.order
        BY <1>4, <3>3
      <4> QED BY <1>old2, <3>3, <4>1
    <3>5. ~Ends(log[k])
      BY <1>old5, <3>2, <3>4
    <3>6. Starts(log[k])
      BY <1>1, <3>1, <3>5 DEF Starts, Ends, TraceEntries
    <3> QED BY <3>2, <3>4, <3>5, <3>6
  <2> QED BY <2>1, <2>2
<1>5. \A k \in New : log'[k].run # Trace!Root => log'[k].run.order < executionOrder'
  <2> SUFFICES ASSUME NEW k \in New, log'[k].run # Trace!Root
               PROVE  log'[k].run.order < executionOrder'
    OBVIOUS
  <2> HIDE DEF Old, New, L
  <2>1. CASE k \in Old
    <3>1. log[k].run.order < executionOrder /\ log[k].run.order \in Nat
      BY <1>1, <1>2, <1>3, <1>old1, <2>1
    <3> QED BY <1>2, <1>old8, <2>1, <3>1
  <2>2. ASSUME NEW j \in 1 .. n, k = L + j PROVE log'[k].run.order < executionOrder'
    BY <1>2, <2>2
  <2> QED BY <1>2, <2>1, <2>2
<1>6. \A k, j \in New : log'[k].run.order = log'[j].run.order => log'[k].run = log'[j].run
  <2> SUFFICES ASSUME NEW k \in New, NEW j \in New, log'[k].run.order = log'[j].run.order
               PROVE  log'[k].run = log'[j].run
    OBVIOUS
  <2> HIDE DEF Old, New, L
  <2>1. CASE k \in Old /\ j \in Old
    BY SMTT(30), <1>2, <1>old2, <2>1
  <2>2. ASSUME NEW x \in 1 .. n, k = L + x, j \in Old PROVE log'[k].run = log'[j].run
    <3>1. log[j].run.order = f[x].run.order
      BY <1>2, <2>2
    <3> QED BY <1>2, <1>4, <2>2, <3>1
  <2>3. ASSUME NEW x \in 1 .. n, j = L + x, k \in Old PROVE log'[k].run = log'[j].run
    <3>1. log[k].run.order = f[x].run.order
      BY <1>2, <2>3
    <3> QED BY <1>2, <1>4, <2>3, <3>1
  <2>4. ASSUME NEW x \in 1 .. n, NEW y \in 1 .. n, k = L + x, j = L + y
        PROVE  log'[k].run = log'[j].run
    <3>1. f[x].run.order = f[y].run.order
      BY <1>2, <2>4
    <3>2. f[x].run = Trace!Root <=> f[y].run = Trace!Root
      BY <1>1, <1>3, <3>1
    <3> QED BY <1>2, <2>4, <3>1, <3>2
  <2> QED BY <1>2, <2>1, <2>2, <2>3, <2>4
<1>7. \A k, j \in New :
        log'[k].run = log'[j].run /\ log'[k].run # Trace!Root
          /\ (Ends(log'[k]) <=> Ends(log'[j])) => k = j
  <2> SUFFICES ASSUME NEW k \in New, NEW j \in New, log'[k].run = log'[j].run,
                      log'[k].run # Trace!Root, Ends(log'[k]) <=> Ends(log'[j])
               PROVE  k = j
    OBVIOUS
  <2> HIDE DEF Old, New, L
  <2>1. CASE k \in Old /\ j \in Old
    BY <1>2, <1>old3, <2>1
  <2>2. ASSUME NEW x \in 1 .. n, k = L + x, j \in Old PROVE FALSE
    <3>1. log[j].run.order = f[x].run.order /\ f[x].run # Trace!Root
          /\ (Ends(log[j]) <=> Ends(f[x]))
      BY <1>2, <2>2
    <3> QED BY <1>4, <2>2, <3>1
  <2>3. ASSUME NEW x \in 1 .. n, j = L + x, k \in Old PROVE FALSE
    <3>1. log[k].run.order = f[x].run.order /\ f[x].run # Trace!Root
          /\ (Ends(log[k]) <=> Ends(f[x]))
      BY <1>2, <2>3
    <3> QED BY <1>4, <2>3, <3>1
  <2>4. ASSUME NEW x \in 1 .. n, NEW y \in 1 .. n, k = L + x, j = L + y PROVE k = j
    <3>1. f[x].run.order = f[y].run.order /\ f[x].run # Trace!Root
      BY <1>2, <2>4
    <3> QED BY <2>4, <3>1
  <2> QED BY <1>2, <2>1, <2>2, <2>3, <2>4
<1>8. \A j \in New : log'[j].run.type = "tool" /\ Ends(log'[j]) =>
        \E k \in New : k < j /\ log'[k].run = log'[j].run /\ Starts(log'[k])
  <2> SUFFICES ASSUME NEW j \in New, log'[j].run.type = "tool", Ends(log'[j])
               PROVE  \E k \in New : k < j /\ log'[k].run = log'[j].run /\ Starts(log'[k])
    OBVIOUS
  <2>0. \A x \in Old, y \in 1 .. n : x < L + y
    BY <1>1
  <2> HIDE DEF Old, New, L
  <2>1. CASE j \in Old
    <3>1. PICK k \in Old : k < j /\ log[k].run = log[j].run /\ Starts(log[k])
      BY <1>2, <1>old4, <2>1
    <3>2. k \in New /\ log'[k] = log[k] /\ log'[j] = log[j]
      BY <1>2, <2>1
    <3> QED BY <3>1, <3>2
  <2>2. ASSUME NEW m \in 1 .. n, j = L + m
        PROVE  \E k \in New : k < j /\ log'[k].run = log'[j].run /\ Starts(log'[k])
    <3>1. log'[j] = f[m] /\ f[m].run.type = "tool" /\ Ends(f[m])
      BY <1>2, <2>2
    <3>2. f[m].run \in pendingToolUses
      BY <3>1, RunFacts
    <3>3. PICK k \in Old : log[k].run = f[m].run /\ Starts(log[k])
      BY <1>old5, <3>2
    <3>4. k \in New /\ log'[k] = log[k] /\ k < j
      BY <1>2, <2>0, <2>2
    <3> QED BY <3>1, <3>3, <3>4
  <2> QED BY <1>2, <2>1, <2>2
<1>9. ASSUME NEW x \in pendingToolUses'
      PROVE  /\ x \in TraceRuns /\ x.type = "tool"
             /\ \E k \in New : log'[k].run = x /\ Starts(log'[k])
             /\ \A k \in New : log'[k].run = x => ~Ends(log'[k])
  <2> HIDE DEF Old, New, L
  <2>1. CASE x \in pendingToolUses /\ \A k \in 1 .. n : f[k].run # x
    <3>1. PICK k \in Old : log[k].run = x /\ Starts(log[k])
      BY <1>old5, <2>1
    <3>2. k \in New /\ log'[k] = log[k]
      BY <1>2
    <3>3. \A m \in New : log'[m].run = x => ~Ends(log'[m])
      BY <1>2, <1>old5, <2>1
    <3> QED BY <1>old5, <2>1, <3>1, <3>2, <3>3
  <2>2. ASSUME NEW m \in 1 .. n, x = f[m].run, Starts(f[m])
        PROVE  /\ x \in TraceRuns /\ x.type = "tool"
               /\ \E k \in New : log'[k].run = x /\ Starts(log'[k])
               /\ \A k \in New : log'[k].run = x => ~Ends(log'[k])
    <3>1. f[m].run # Trace!Root /\ ~Ends(f[m])
      BY <2>2 DEF Starts, Ends
    <3>2. ASSUME NEW k \in New, log'[k].run = x PROVE ~Ends(log'[k])
      <4>1. k \notin Old
        <5>1. k \in Old => log[k].run.order = f[m].run.order
          BY <1>2, <2>2, <3>2
        <5> QED BY <1>4, <3>1, <5>1
      <4>2. PICK j \in 1 .. n : k = L + j
        BY <1>2, <4>1
      <4>3. f[j].run = f[m].run /\ log'[k] = f[j]
        BY <1>2, <2>2, <3>2, <4>2
      <4>4. m = j
        BY <3>1, <4>3
      <4> QED BY <3>1, <4>3, <4>4
    <3>3. L + m \in New /\ log'[L + m] = f[m]
      BY <1>2
    <3> QED BY <1>1, <2>2, <3>2, <3>3
  <2> QED BY <1>9, <2>1, <2>2
<1>10. ASSUME NEW k \in New, Starts(log'[k])
       PROVE  \/ log'[k].run \in pendingToolUses'
              \/ \E j \in New : log'[j].run = log'[k].run /\ Ends(log'[j])
  <2> HIDE DEF Old, New, L
  <2>1. CASE k \in Old
    <3>1. log'[k] = log[k] /\ log[k].run # Trace!Root /\ Starts(log[k])
      BY <1>2, <1>10, <2>1 DEF Starts
    <3>2. CASE \E j \in Old : log[j].run = log[k].run /\ Ends(log[j])
      BY <1>2, <3>1, <3>2
    <3>3. CASE log[k].run \in pendingToolUses
      <4>1. CASE \A j \in 1 .. n : f[j].run # log[k].run
        BY <3>1, <3>3, <4>1
      <4>2. ASSUME NEW j \in 1 .. n, f[j].run = log[k].run
            PROVE  \E m \in New : log'[m].run = log'[k].run /\ Ends(log'[m])
        <5>1. Ends(f[j])
          BY <1>4, <2>1, <3>1, <4>2
        <5>2. L + j \in New /\ log'[L + j] = f[j]
          BY <1>2
        <5> QED BY <3>1, <4>2, <5>1, <5>2
      <4> QED BY <4>1, <4>2
    <3> QED BY <1>old6, <2>1, <3>1, <3>2, <3>3
  <2>2. ASSUME NEW j \in 1 .. n, k = L + j PROVE log'[k].run \in pendingToolUses'
    <3>1. log'[k] = f[j] /\ Starts(f[j])
      BY <1>2, <1>10, <2>2
    <3> QED BY <3>1
  <2> QED BY <1>2, <2>1, <2>2
<1>11. ASSUME NEW k \in New, log'[k].run = Trace!Root, Ends(log'[k]),
              NEW m \in New, m < k, Starts(log'[m])
       PROVE  \E j \in New : j < k /\ log'[j].run = log'[m].run /\ Ends(log'[j])
  <2>0. /\ \A x \in Old, y \in 1 .. n : x < L + y
        /\ \A x, y \in 1 .. n : L + x < L + y => x \in 1 .. y - 1
        /\ \A y \in 1 .. n : \A x \in 1 .. y - 1 : x \in 1 .. n /\ L + x < L + y
        /\ \A x \in Old, y \in New : y < x => y \in Old
    BY <1>1
  <2> HIDE DEF Old, New, L
  <2>1. CASE k \in Old
    <3>1. m \in Old /\ log'[k] = log[k] /\ log'[m] = log[m]
      BY <1>2, <1>11, <2>0, <2>1
    <3>2. PICK j \in Old : j < k /\ log[j].run = log[m].run /\ Ends(log[j])
      BY <1>11, <1>old7, <2>1, <3>1
    <3>3. j \in New /\ log'[j] = log[j]
      BY <1>2
    <3> QED BY <3>1, <3>2, <3>3
  <2>2. ASSUME NEW x \in 1 .. n, k = L + x
        PROVE  \E j \in New : j < k /\ log'[j].run = log'[m].run /\ Ends(log'[j])
    <3>1. /\ \A q \in pendingToolUses : \E j \in 1 .. x - 1 : f[j].run = q
          /\ \A j \in 1 .. x - 1 : ~Starts(f[j])
      <4>1. log'[k] = f[x]
        BY <1>2, <2>2
      <4> QED BY <1>11, <4>1
    <3>2. m \in Old
      <4>1. ASSUME NEW y \in 1 .. n, m = L + y PROVE FALSE
        <5>1. y \in 1 .. x - 1 /\ log'[m] = f[y]
          BY <1>2, <1>11, <2>0, <2>2, <4>1
        <5> QED BY <1>11, <3>1, <5>1
      <4> QED BY <1>2, <4>1
    <3>3. log'[m] = log[m] /\ log[m].run # Trace!Root
      BY <1>2, <1>11, <3>2 DEF Starts
    <3>4. CASE \E j \in Old : log[j].run = log[m].run /\ Ends(log[j])
      <4>1. PICK j \in Old : log[j].run = log[m].run /\ Ends(log[j])
        BY <3>4
      <4>2. j \in New /\ log'[j] = log[j] /\ j < k
        BY <1>2, <2>0, <2>2
      <4> QED BY <3>3, <4>1, <4>2
    <3>5. CASE log[m].run \in pendingToolUses
      <4>1. PICK j \in 1 .. x - 1 : f[j].run = log[m].run
        BY <3>1, <3>5
      <4>2. j \in 1 .. n /\ L + j < k /\ L + j \in New /\ log'[L + j] = f[j]
        BY <1>2, <2>0, <2>2
      <4>3. Ends(f[j])
        BY <1>4, <3>2, <3>3, <4>1, <4>2
      <4> QED BY <3>3, <4>1, <4>2, <4>3
    <3> QED BY <1>11, <1>old6, <3>2, <3>3, <3>4, <3>5
  <2> QED BY <1>2, <2>1, <2>2
<1>12. log' # <<>> => log'[1] = Trace!Entry(Trace!Root, "start")
  <2>1. CASE log = <<>>
    <3>1. log' # <<>> => n > 0
      BY <2>1
    <3>2. n > 0 => log'[1] = f[1]
      BY <2>1
    <3> QED BY <2>1, <3>1, <3>2
  <2>2. CASE log # <<>>
    <3>1. 1 \in Old
      BY <1>1, <2>2
    <3> QED BY <1>2, <2>2, <3>1 DEF LogInv
  <2> QED BY <2>1, <2>2
<1>13. rootRun' => log' # <<>>
  <2>1. CASE n > 0
    BY <1>1, <2>1
  <2>2. CASE rootRun
    <3>1. log # <<>>
      BY <2>2 DEF LogInv
    <3>2. L > 0
      BY <1>1, <3>1 DEF LogInv
    <3> QED BY <1>1, <3>2
  <2> QED BY <2>1, <2>2
<1> HIDE DEF Old, New, L
<1>14. /\ log' \in Seq(TraceEntries) /\ executionOrder' \in Nat \ {0, 1}
       /\ IsFiniteSet(pendingToolUses') /\ DOMAIN log' = New
  BY <1>1
<1> HIDE DEF Logs
<1> QED BY <1>5, <1>6, <1>7, <1>8, <1>9, <1>10, <1>11, <1>12, <1>13, <1>14 DEF LogInv

LEMMA InitTrace == ASSUME Trace!Init PROVE LogInv /\ ChildrenInv
<1>1. log = <<>> /\ children = <<>> /\ pendingToolUses = {} /\ executionOrder = 2 /\ ~rootRun
  BY DEF Trace!Init
<1>2. IsFiniteSet({}) /\ DOMAIN log = {} /\ DOMAIN children = {}
  BY <1>1, FS_EmptySet
<1>3. log \in Seq(TraceEntries) /\ children \in Seq(Nat)
  BY <1>1
<1> QED BY <1>1, <1>2, <1>3 DEF LogInv, ChildrenInv

\* What is appended to a sequence is behind what was there.
LEMMA Appended2 ==
  ASSUME NEW S, NEW s \in Seq(S), NEW e \in S
  PROVE  /\ Append(s, e) \in Seq(S) /\ Len(Append(s, e)) = Len(s) + 1
         /\ \A k \in 1 .. Len(s) : Append(s, e)[k] = s[k]
         /\ Append(s, e)[Len(s) + 1] = e
OBVIOUS

LEMMA Concatenated ==
  ASSUME NEW S, NEW s \in Seq(S), NEW t \in Seq(S), NEW u, u = s \o t
  PROVE  /\ u \in Seq(S) /\ Len(u) = Len(s) + Len(t)
         /\ \A k \in 1 .. Len(s) : u[k] = s[k]
         /\ \A k \in 1 .. Len(t) : u[Len(s) + k] = t[k]
<1>1. /\ u \in Seq(S) /\ Len(u) = Len(s) + Len(t)
      /\ \A k \in 1 .. Len(s) + Len(t) :
           u[k] = IF k <= Len(s) THEN s[k] ELSE t[k - Len(s)]
  OBVIOUS
<1>2. Len(s) \in Nat /\ Len(t) \in Nat
  OBVIOUS
<1>3. ASSUME NEW k \in 1 .. Len(t) PROVE u[Len(s) + k] = t[k]
  <2>1. /\ Len(s) + k \in 1 .. Len(s) + Len(t) /\ ~(Len(s) + k <= Len(s))
        /\ (Len(s) + k) - Len(s) = k
    BY <1>2
  <2> QED BY <1>1, <2>1
<1>4. \A k \in 1 .. Len(s) : k \in 1 .. Len(s) + Len(t) /\ k <= Len(s)
  BY <1>2
<1> QED BY <1>1, <1>3, <1>4

\* A function on 1 .. n is a sequence.
LEMMA FunctionIsSeq ==
  ASSUME NEW S, NEW n \in Nat, NEW f \in [1 .. n -> S] PROVE f \in Seq(S) /\ Len(f) = n
OBVIOUS

\* One entry of the log.
LEMMA OneIsLogged ==
  ASSUME LogInv, NEW e \in TraceEntries, log' = Append(log, e),
         executionOrder' = executionOrder,
         \/ /\ e = Trace!Entry(Trace!Root, "start")
            /\ pendingToolUses' = pendingToolUses
         \/ /\ e.run \in pendingToolUses /\ Ends(e) /\ rootRun' = rootRun
            /\ pendingToolUses' = pendingToolUses \ {e.run}
  PROVE  LogInv'
<1> DEFINE f == [k \in 1 .. 1 |-> e]
<1>1. /\ f \in [1 .. 1 -> TraceEntries] /\ f[1] = e /\ log' \in Seq(TraceEntries)
      /\ Len(log') = Len(log) + 1 /\ \A k \in 1 .. Len(log) : log'[k] = log[k]
      /\ log'[Len(log) + 1] = e
  BY Appended2 DEF LogInv
<1>2. \A k \in 1 .. 1 : k = 1 /\ f[k] = e
  BY <1>1
<1> HIDE DEF f
<1>3. e = Trace!Entry(Trace!Root, "start") =>
        e.run = Trace!Root /\ e.status = "start" /\ ~Ends(e) /\ ~Starts(e)
  BY RunFacts DEF Ends, Starts
<1>4. \A x \in pendingToolUses : /\ x # Trace!Root /\ x \in TraceRuns /\ x.order < executionOrder
                                 /\ log # <<>>
  <2> SUFFICES ASSUME NEW x \in pendingToolUses
               PROVE  /\ x # Trace!Root /\ x \in TraceRuns /\ x.order < executionOrder
                      /\ log # <<>>
    OBVIOUS
  <2>1. PICK k \in DOMAIN log : log[k].run = x /\ Starts(log[k])
    BY DEF LogInv
  <2>2. x \in TraceRuns /\ x # Trace!Root
    BY <2>1 DEF LogInv, Starts
  <2>3. x.order < executionOrder /\ log # <<>>
    BY <2>1, <2>2 DEF LogInv
  <2> QED BY <2>2, <2>3
<1>5. /\ IsFiniteSet(pendingToolUses') /\ executionOrder \in Nat \ {0, 1}
  BY FS_RemoveElement DEF LogInv
<1>6. Ends(e) => ~Starts(e)
  BY DEF Ends, Starts
<1>7. executionOrder' >= executionOrder
  BY <1>5
<1>8. CASE e = Trace!Entry(Trace!Root, "start") /\ pendingToolUses' = pendingToolUses
  <2>1. \A x : x \in pendingToolUses' <=>
          \/ x \in pendingToolUses /\ \A k \in 1 .. 1 : f[k].run # x
          \/ \E k \in 1 .. 1 : x = f[k].run /\ Starts(f[k])
    BY <1>1, <1>2, <1>3, <1>4, <1>8
  <2>2. Logs(1, f)
    BY <1>1, <1>2, <1>3, <1>5, <1>7, <1>8, <2>1 DEF Logs
  <2> QED BY <1>1, <2>2, LogKeeps
<1>9. CASE /\ e.run \in pendingToolUses /\ Ends(e) /\ rootRun' = rootRun
           /\ pendingToolUses' = pendingToolUses \ {e.run}
  <2>1. \A x : x \in pendingToolUses' <=>
          \/ x \in pendingToolUses /\ \A k \in 1 .. 1 : f[k].run # x
          \/ \E k \in 1 .. 1 : x = f[k].run /\ Starts(f[k])
    BY <1>1, <1>2, <1>6, <1>9
  <2>2. Logs(1, f)
    BY <1>1, <1>2, <1>4, <1>5, <1>6, <1>7, <1>9, <2>1 DEF Logs
  <2> QED BY <1>1, <2>2, LogKeeps
<1> QED BY <1>8, <1>9

\* The values of a function on 1 .. n are finitely many.
LEMMA FiniteRange ==
  ASSUME NEW n \in Nat, NEW S, NEW f \in [1 .. n -> S]
  PROVE  IsFiniteSet({f[k] : k \in 1 .. n})
<1> DEFINE T == {f[k] : k \in 1 .. n}
<1>1. f \in [1 .. n -> T] /\ \A t \in T : \E k \in 1 .. n : f[k] = t
  OBVIOUS
<1> HIDE DEF T
<1>2. f \in Surjection(1 .. n, T)
  BY <1>1, Fun_IsSurj
<1>3. IsFiniteSet(1 .. n)
  BY FS_Interval
<1>4. IsFiniteSet(T)
  BY <1>2, <1>3, FS_Surjection
<1> QED BY <1>4 DEF T

\* An assistant's message: a run of the model, then those of its tools.
LEMMA AssistantKeeps ==
  ASSUME LogInv, ChildrenInv, Trace!HandleAssistant PROVE LogInv' /\ ChildrenInv'
<1>0. PICK uses \in UNION {[1 .. n -> ToolUses \ Trace!Used] : n \in 0 .. Trace!Cardinality(ToolUses)} :
        LET tool == [k \in DOMAIN uses |-> Trace!Tool(uses[k], executionOrder + k)] IN
        /\ rootRun /\ rootRun' = rootRun
        /\ executionOrder' = executionOrder + 1 + Len(uses)
        /\ pendingToolUses' = pendingToolUses \cup {tool[k] : k \in DOMAIN uses}
        /\ children' = children \o [k \in 1 .. Len(uses) + 1 |-> executionOrder + k - 1]
        /\ log' = Append(log, Trace!Entry(Trace!LLM(executionOrder), "end"))
                    \o [k \in DOMAIN uses |-> Trace!Entry(tool[k], "start")]
  BY DEF Trace!HandleAssistant
<1>1. PICK m \in Nat : uses \in [1 .. m -> ToolUses]
  <2>1. PICK n \in 0 .. Trace!Cardinality(ToolUses) : uses \in [1 .. n -> ToolUses \ Trace!Used]
    OBVIOUS
  <2> QED BY <2>1
<1> DEFINE o == executionOrder
           e1 == Trace!Entry(Trace!LLM(o), "end")
           tool == [k \in 1 .. m |-> Trace!Tool(uses[k], o + k)]
           starts == [k \in 1 .. m |-> Trace!Entry(tool[k], "start")]
           f == [k \in 1 .. m + 1 |-> IF k = 1 THEN e1 ELSE starts[k - 1]]
           kids == [k \in 1 .. m + 1 |-> o + k - 1]
<1>2. DOMAIN uses = 1 .. m /\ Len(uses) = m
  BY <1>1, FunctionIsSeq
<1>3. /\ rootRun /\ rootRun' = rootRun /\ o \in Nat \ {0, 1}
      /\ o' = o + 1 + m /\ pendingToolUses' = pendingToolUses \cup {tool[k] : k \in 1 .. m}
      /\ children' = children \o kids
      /\ log' = Append(log, e1) \o starts
  BY <1>0, <1>2 DEF LogInv
<1>4. /\ e1 \in TraceEntries /\ e1.run = Trace!LLM(o) /\ e1.run.order = o /\ e1.run.type # "tool"
      /\ Ends(e1) /\ ~Starts(e1) /\ e1.run # Trace!Root
  BY <1>3, RunFacts DEF Ends, Starts
<1>5. \A k \in 1 .. m : /\ starts[k] \in TraceEntries /\ starts[k].run = tool[k]
                        /\ tool[k].order = o + k /\ tool[k].type = "tool" /\ tool[k] \in TraceRuns
                        /\ Starts(starts[k]) /\ ~Ends(starts[k]) /\ tool[k] # Trace!Root
  <2> SUFFICES ASSUME NEW k \in 1 .. m
               PROVE  /\ starts[k] \in TraceEntries /\ starts[k].run = tool[k]
                      /\ tool[k].order = o + k /\ tool[k].type = "tool" /\ tool[k] \in TraceRuns
                      /\ Starts(starts[k]) /\ ~Ends(starts[k]) /\ tool[k] # Trace!Root
    OBVIOUS
  <2>1. o + k \in Nat \ {0, 1} /\ uses[k] \in ToolUses /\ tool[k] = Trace!Tool(uses[k], o + k)
    BY <1>1, <1>3
  <2>2. tool[k].order = o + k /\ tool[k].type = "tool" /\ tool[k] \in TraceRuns
    BY <2>1, RunFacts
  <2>3. starts[k] = Trace!Entry(tool[k], "start")
    OBVIOUS
  <2> HIDE DEF tool, starts
  <2>4. starts[k] \in TraceEntries /\ starts[k].run = tool[k] /\ starts[k].status = "start"
    BY <2>2, <2>3, RunFacts
  <2> QED BY <2>2, <2>4, RunFacts DEF Starts, Ends
<1>6. starts \in [1 .. m -> TraceEntries] /\ tool \in [1 .. m -> TraceRuns]
  BY <1>5
<1>7. IsFiniteSet({tool[k] : k \in 1 .. m})
  BY <1>6, FiniteRange
<1> HIDE DEF e1, tool, starts
<1>8. /\ f \in [1 .. m + 1 -> TraceEntries] /\ f[1] = e1
      /\ \A k \in 1 .. m : k + 1 \in 1 .. m + 1 /\ f[k + 1] = starts[k]
      /\ \A k \in 1 .. m + 1 : k = 1 \/ \E j \in 1 .. m : k = j + 1
  <2>1. ASSUME NEW k \in 1 .. m + 1, k # 1 PROVE k - 1 \in 1 .. m /\ k = (k - 1) + 1
    BY <2>1
  <2>2. \A k \in 1 .. m : k + 1 \in 1 .. m + 1 /\ k + 1 # 1 /\ (k + 1) - 1 = k
    OBVIOUS
  <2> QED BY <1>4, <1>6, <2>1, <2>2
<1> HIDE DEF f
<1>9. /\ log' \in Seq(TraceEntries) /\ Len(log') = Len(log) + (m + 1)
      /\ \A k \in 1 .. Len(log) : log'[k] = log[k]
      /\ log'[Len(log) + 1] = e1
      /\ \A k \in 1 .. m : log'[Len(log) + 1 + k] = starts[k]
  <2>1. starts \in Seq(TraceEntries) /\ Len(starts) = m
    BY <1>6, FunctionIsSeq
  <2> DEFINE l1 == Append(log, e1)
  <2>2. /\ l1 \in Seq(TraceEntries) /\ Len(l1) = Len(log) + 1 /\ Len(log) \in Nat
        /\ \A k \in 1 .. Len(log) : l1[k] = log[k]
        /\ l1[Len(log) + 1] = e1
    BY <1>4, Appended2 DEF LogInv
  <2>3. log' = l1 \o starts
    BY <1>3
  <2> HIDE DEF l1
  <2>4. /\ log' \in Seq(TraceEntries) /\ Len(log') = Len(l1) + Len(starts)
        /\ \A k \in 1 .. Len(l1) : log'[k] = l1[k]
        /\ \A k \in 1 .. Len(starts) : log'[Len(l1) + k] = starts[k]
    <3>1. l1 \in Seq(TraceEntries) /\ starts \in Seq(TraceEntries)
      BY <2>1, <2>2
    <3> QED BY <2>3, <3>1, Concatenated
  <2>5. /\ \A k \in 1 .. Len(log) : k \in 1 .. Len(l1)
        /\ Len(log) + 1 \in 1 .. Len(l1) /\ Len(l1) + m = Len(log) + (m + 1)
    BY SMTT(30), <2>2
  <2> QED BY <2>1, <2>2, <2>3, <2>4, <2>5
<1>10. \A k \in 1 .. m + 1 : log'[Len(log) + k] = f[k]
  <2> SUFFICES ASSUME NEW k \in 1 .. m + 1 PROVE log'[Len(log) + k] = f[k]
    OBVIOUS
  <2>1. CASE k = 1
    BY <1>8, <1>9, <2>1
  <2>2. ASSUME NEW j \in 1 .. m, k = j + 1 PROVE log'[Len(log) + k] = f[k]
    <3>1. Len(log) \in Nat
      BY DEF LogInv
    <3>2. Len(log) + k = Len(log) + 1 + j
      BY <2>2, <3>1
    <3> QED BY <1>8, <1>9, <2>2, <3>2
  <2> QED BY <1>8, <2>1, <2>2
<1>11. \A x \in pendingToolUses : x.order \in Nat /\ x.order < o
  <2> SUFFICES ASSUME NEW x \in pendingToolUses PROVE x.order \in Nat /\ x.order < o
    OBVIOUS
  <2>1. x \in TraceRuns /\ \E k \in DOMAIN log : log[k].run = x /\ Starts(log[k])
    BY DEF LogInv
  <2>2. x # Trace!Root
    BY <2>1 DEF Starts
  <2> QED BY <2>1, <2>2, RunFacts DEF LogInv
\* Each entry: the model's, or a tool's.
<1>12. \A k \in 1 .. m + 1 :
         /\ f[k].run.order = o + k - 1 /\ f[k].run # Trace!Root
         /\ \/ k = 1 /\ f[k].run.type # "tool" /\ ~Starts(f[k])
            \/ k # 1 /\ f[k].run.type = "tool" /\ ~Ends(f[k]) /\ Starts(f[k])
  <2> SUFFICES ASSUME NEW k \in 1 .. m + 1
               PROVE  /\ f[k].run.order = o + k - 1 /\ f[k].run # Trace!Root
                      /\ \/ k = 1 /\ f[k].run.type # "tool" /\ ~Starts(f[k])
                         \/ k # 1 /\ f[k].run.type = "tool" /\ ~Ends(f[k]) /\ Starts(f[k])
    OBVIOUS
  <2>1. CASE k = 1
    BY <1>3, <1>4, <1>8, <2>1
  <2>2. ASSUME NEW j \in 1 .. m, k = j + 1
        PROVE  /\ f[k].run.order = o + k - 1 /\ f[k].run # Trace!Root
               /\ k # 1 /\ f[k].run.type = "tool" /\ ~Ends(f[k]) /\ Starts(f[k])
    <3>1. f[k] = starts[j] /\ o + k - 1 = o + j /\ k # 1
      BY <1>3, <1>8, <2>2
    <3> QED BY <1>5, <3>1
  <2> QED BY <1>8, <2>1, <2>2
<1>13. \A x : x \in pendingToolUses' <=>
         \/ x \in pendingToolUses /\ \A k \in 1 .. m + 1 : f[k].run # x
         \/ \E k \in 1 .. m + 1 : x = f[k].run /\ Starts(f[k])
  <2>1. ASSUME NEW x \in pendingToolUses, NEW k \in 1 .. m + 1 PROVE f[k].run # x
    <3>1. x.order \in Nat /\ x.order < o /\ f[k].run.order = o + k - 1
      BY <1>11, <1>12
    <3> QED BY <1>3, <3>1
  <2>2. ASSUME NEW k \in 1 .. m PROVE \E j \in 1 .. m + 1 : tool[k] = f[j].run /\ Starts(f[j])
    <3>1. k + 1 \in 1 .. m + 1 /\ tool[k] = f[k + 1].run /\ Starts(f[k + 1])
      BY <1>5, <1>8
    <3> QED BY <3>1
  <2>3. ASSUME NEW k \in 1 .. m + 1, Starts(f[k]) PROVE \E j \in 1 .. m : f[k].run = tool[j]
    <3>1. k # 1
      BY <1>12, <2>3
    <3>2. PICK j \in 1 .. m : k = j + 1
      BY <1>8, <3>1
    <3> QED BY <1>5, <1>8, <3>2
  <2>4. \A x : x \in pendingToolUses' <=> x \in pendingToolUses \/ \E k \in 1 .. m : x = tool[k]
    BY <1>3
  <2>5. ASSUME NEW x, x \in pendingToolUses'
        PROVE  \/ x \in pendingToolUses /\ \A k \in 1 .. m + 1 : f[k].run # x
               \/ \E k \in 1 .. m + 1 : x = f[k].run /\ Starts(f[k])
    <3>1. CASE x \in pendingToolUses
      BY <2>1, <3>1
    <3>2. ASSUME NEW k \in 1 .. m, x = tool[k]
          PROVE  \E j \in 1 .. m + 1 : x = f[j].run /\ Starts(f[j])
      BY <2>2, <3>2
    <3> QED BY <2>4, <2>5, <3>1, <3>2
  <2>6. ASSUME NEW k \in 1 .. m + 1, Starts(f[k]) PROVE f[k].run \in pendingToolUses'
    BY <2>3, <2>4, <2>6
  <2>7. \A x \in pendingToolUses : x \in pendingToolUses'
    BY <2>4
  <2> QED BY <2>5, <2>6, <2>7
<1>14. IsFiniteSet(pendingToolUses')
  BY <1>3, <1>7, FS_Union DEF LogInv
<1>15. Logs(m + 1, f)
  <2>1. /\ o' \in Nat \ {0, 1} /\ o' >= o
        /\ \A k \in 1 .. m + 1 : o + k - 1 < o' /\ o + k - 1 >= o
        /\ \A k, j \in 1 .. m + 1 : o + k - 1 = o + j - 1 => k = j
        /\ m + 1 > 0
    BY <1>3
  <2>2. log # <<>>
    BY <1>3 DEF LogInv
  <2>3. \A k \in 1 .. m + 1 : f[k].run.order < o' /\ f[k].run.order >= o
    BY <1>12, <2>1
  <2>4. ASSUME NEW k \in 1 .. m + 1, NEW j \in 1 .. m + 1, f[k].run.order = f[j].run.order
        PROVE  k = j
    <3>1. o + k - 1 = o + j - 1
      BY <1>12, <2>4
    <3> QED BY <2>1, <3>1
  <2> HIDE DEF o
  <2> QED BY <1>3, <1>9, <1>10, <1>12, <1>13, <1>14, <2>1, <2>2, <2>3, <2>4 DEF Logs, o
<1>16. LogInv'
  BY <1>8, <1>15, LogKeeps
<1>17. ChildrenInv'
  <2>1. kids \in [1 .. m + 1 -> Nat] /\ \A k \in 1 .. m + 1 : kids[k] = o + k - 1
    BY <1>3
  <2> DEFINE L == Len(children)
  <2>2. kids \in Seq(Nat) /\ Len(kids) = m + 1 /\ children \in Seq(Nat) /\ L \in Nat
        /\ DOMAIN children = 1 .. L
    BY <2>1, FunctionIsSeq DEF ChildrenInv
  <2> HIDE DEF kids
  <2>3. /\ children' \in Seq(Nat) /\ DOMAIN children' = 1 .. L + (m + 1)
        /\ \A k \in 1 .. L : children'[k] = children[k] /\ children[k] \in Nat
        /\ \A k \in 1 .. m + 1 : children'[L + k] = o + k - 1
    <3>1. children \in Seq(Nat) /\ kids \in Seq(Nat) /\ children' = children \o kids
      BY <1>3, <2>2
    <3>2. /\ children' \in Seq(Nat) /\ Len(children') = L + Len(kids)
          /\ \A k \in 1 .. L : children'[k] = children[k]
          /\ \A k \in 1 .. Len(kids) : children'[L + k] = kids[k]
      BY <3>1, Concatenated
    <3>3. \A k \in 1 .. L : children[k] \in Nat
      BY <2>2
    <3> QED BY <2>1, <2>2, <3>1, <3>2, <3>3
  <2>4. /\ \A k \in 1 .. L : children[k] < o
        /\ \A k, j \in 1 .. L : k < j => children[k] < children[j]
    BY <2>2 DEF ChildrenInv
  <2>5. \A k \in 1 .. L + (m + 1) : k \in 1 .. L \/ (k - L \in 1 .. m + 1 /\ k = L + (k - L))
    BY <2>2
  <2> HIDE DEF L
  <2>6. \A k \in 1 .. L + (m + 1) : /\ k \in 1 .. L => children'[k] = children[k] /\ children[k] < o
                                    /\ k \notin 1 .. L => children'[k] = o + (k - L) - 1 /\ k > L
    <3> SUFFICES ASSUME NEW k \in 1 .. L + (m + 1)
                 PROVE  /\ k \in 1 .. L => children'[k] = children[k] /\ children[k] < o
                        /\ k \notin 1 .. L => children'[k] = o + (k - L) - 1 /\ k > L
      OBVIOUS
    <3>1. CASE k \in 1 .. L
      BY <2>3, <2>4, <3>1
    <3>2. CASE k \notin 1 .. L
      <4>1. k - L \in 1 .. m + 1 /\ k = L + (k - L) /\ k > L
        BY <2>2, <2>5, <3>2
      <4>2. children'[L + (k - L)] = o + (k - L) - 1
        BY <2>3, <4>1
      <4> QED BY <3>2, <4>1, <4>2
    <3> QED BY <3>1, <3>2
  <2>7. \A k \in 1 .. L + (m + 1) : children'[k] < o'
    BY <1>3, <2>2, <2>3, <2>5, <2>6
  <2>8. ASSUME NEW k \in 1 .. L + (m + 1), NEW j \in 1 .. L + (m + 1), k < j
        PROVE  children'[k] < children'[j]
    <3>1. CASE j \in 1 .. L
      <4>1. k \in 1 .. L
        BY <2>2, <2>8, <3>1
      <4> QED BY <2>4, <2>6, <2>8, <3>1, <4>1
    <3>2. CASE j \notin 1 .. L /\ k \in 1 .. L
      <4>1. children'[j] = o + (j - L) - 1 /\ j > L /\ children'[k] < o /\ children'[k] \in Nat
        BY <2>3, <2>6, <3>2
      <4> QED BY SMTT(30), <1>3, <2>2, <4>1
    <3>3. CASE j \notin 1 .. L /\ k \notin 1 .. L
      <4>1. /\ children'[k] = o + (k - L) - 1 /\ children'[j] = o + (j - L) - 1
            /\ o \in Nat /\ L \in Nat /\ k \in Nat /\ j \in Nat
        BY <1>3, <2>2, <2>6, <3>3
      <4> HIDE DEF o
      <4> QED BY <2>8, <4>1
    <3> QED BY <3>1, <3>2, <3>3
  <2> HIDE DEF o
  <2> QED BY <2>3, <2>7, <2>8 DEF ChildrenInv, o
<1> QED BY <1>16, <1>17

\* The result: all that waits ends as an error, in the order of the runs, then the
\* root ends.
LEMMA ResultKeeps == ASSUME LogInv, ChildrenInv, Trace!HandleResult PROVE LogInv' /\ ChildrenInv'
<1> DEFINE m == Cardinality(pendingToolUses)
           P == Trace!InOrder(pendingToolUses)
<1>1. PICK status \in {"end", "error"} :
        /\ rootRun /\ UNCHANGED <<rootRun, executionOrder, children>> /\ pendingToolUses' = {}
        /\ log' = log \o [k \in DOMAIN P |-> Trace!Entry(P[k], "error")]
                      \o <<Trace!Entry(Trace!Root, status)>>
  BY DEF Trace!HandleResult
<1>2. /\ IsFiniteSet(pendingToolUses)
      /\ \A x \in pendingToolUses : x \in TraceRuns /\ x.order \in Nat /\ x # Trace!Root
      /\ \A x, y \in pendingToolUses : x.order = y.order => x = y
  <2>1. \A x \in pendingToolUses : /\ x \in TraceRuns
                                   /\ \E k \in DOMAIN log : log[k].run = x /\ Starts(log[k])
    BY DEF LogInv
  <2>2. \A x, y \in pendingToolUses : x.order = y.order => x = y
    BY <2>1 DEF LogInv
  <2> QED BY <2>1, <2>2, RunFacts DEF LogInv, Starts
<1>3. /\ m \in Nat /\ P \in [1 .. m -> pendingToolUses]
      /\ \A k, j \in 1 .. m : P[k] = P[j] => k = j
      /\ \A x \in pendingToolUses : \E k \in 1 .. m : P[k] = x
  BY <1>2, RunsInOrder
<1> HIDE DEF m, P
<1> DEFINE ends == [k \in 1 .. m |-> Trace!Entry(P[k], "error")]
           last1 == Trace!Entry(Trace!Root, status)
           f == [k \in 1 .. m + 1 |-> IF k = m + 1 THEN last1 ELSE ends[k]]
<1>4. /\ last1 \in TraceEntries /\ last1.run = Trace!Root /\ Ends(last1) /\ ~Starts(last1)
  BY RunFacts DEF Ends, Starts
<1>5. \A k \in 1 .. m : /\ ends[k] \in TraceEntries /\ ends[k].run = P[k] /\ Ends(ends[k])
                        /\ ~Starts(ends[k]) /\ P[k] \in pendingToolUses
  <2> SUFFICES ASSUME NEW k \in 1 .. m
               PROVE  /\ ends[k] \in TraceEntries /\ ends[k].run = P[k] /\ Ends(ends[k])
                      /\ ~Starts(ends[k]) /\ P[k] \in pendingToolUses
    OBVIOUS
  <2>1. P[k] \in pendingToolUses /\ P[k] \in TraceRuns /\ ends[k] = Trace!Entry(P[k], "error")
    BY <1>2, <1>3
  <2> HIDE DEF ends
  <2>2. ends[k] \in TraceEntries /\ ends[k].run = P[k] /\ ends[k].status = "error"
    BY <2>1, RunFacts
  <2> QED BY <2>1, <2>2 DEF Ends, Starts
<1>6. /\ ends \in [1 .. m -> TraceEntries]
      /\ log' = log \o ends \o <<last1>>
  BY <1>1, <1>3, <1>5
<1> HIDE DEF ends, last1
<1>7. /\ f \in [1 .. m + 1 -> TraceEntries] /\ f[m + 1] = last1
      /\ \A k \in 1 .. m : k \in 1 .. m + 1 /\ k # m + 1 /\ f[k] = ends[k]
      /\ \A k \in 1 .. m + 1 : k \in 1 .. m \/ k = m + 1
  BY <1>3, <1>4, <1>6
<1> HIDE DEF f
<1>8. /\ log' \in Seq(TraceEntries) /\ Len(log') = Len(log) + (m + 1)
      /\ \A k \in 1 .. Len(log) : log'[k] = log[k]
      /\ \A k \in 1 .. m : log'[Len(log) + k] = ends[k]
      /\ log'[Len(log) + (m + 1)] = last1
  <2> DEFINE l1 == log \o ends
  <2>1. ends \in Seq(TraceEntries) /\ Len(ends) = m /\ log \in Seq(TraceEntries) /\ Len(log) \in Nat
    BY <1>3, <1>6, FunctionIsSeq DEF LogInv
  <2>2. log' = l1 \o <<last1>>
    BY <1>6
  <2>0. l1 = log \o ends
    OBVIOUS
  <2> HIDE DEF l1
  <2>3. /\ l1 \in Seq(TraceEntries) /\ Len(l1) = Len(log) + Len(ends)
        /\ \A k \in 1 .. Len(log) : l1[k] = log[k]
        /\ \A k \in 1 .. Len(ends) : l1[Len(log) + k] = ends[k]
    <3>1. log \in Seq(TraceEntries) /\ ends \in Seq(TraceEntries)
      BY <2>1
    <3> QED BY <2>0, <3>1, Concatenated
  <2>4. <<last1>> \in Seq(TraceEntries) /\ Len(<<last1>>) = 1 /\ <<last1>>[1] = last1
    BY <1>4
  <2>5. /\ log' \in Seq(TraceEntries) /\ Len(log') = Len(l1) + Len(<<last1>>)
        /\ \A k \in 1 .. Len(l1) : log'[k] = l1[k]
        /\ \A k \in 1 .. Len(<<last1>>) : log'[Len(l1) + k] = <<last1>>[k]
    BY <2>2, <2>3, <2>4, Concatenated
  <2>6. /\ Len(log') = Len(l1) + 1 /\ log'[Len(l1) + 1] = last1
    BY <2>4, <2>5
  <2>7. /\ \A k \in 1 .. Len(log) : k \in 1 .. Len(l1)
        /\ \A k \in 1 .. m : Len(log) + k \in 1 .. Len(l1)
        /\ Len(l1) + 1 = Len(log) + (m + 1)
    BY <1>3, <2>1, <2>3
  <2> QED BY <2>1, <2>3, <2>5, <2>6, <2>7
<1>9. \A k \in 1 .. m + 1 : log'[Len(log) + k] = f[k]
  BY <1>7, <1>8
<1>10. \A k \in 1 .. m + 1 : f[k].run # Trace!Root =>
         k \in 1 .. m /\ f[k].run = P[k] /\ f[k].run \in pendingToolUses /\ Ends(f[k])
  BY <1>4, <1>5, <1>7
<1>11. \A k \in 1 .. m + 1 : ~Starts(f[k])
  BY <1>4, <1>5, <1>7
<1>12. \A k, j \in 1 .. m + 1 : f[k].run # Trace!Root /\ f[k].run.order = f[j].run.order => k = j
  <2> SUFFICES ASSUME NEW k \in 1 .. m + 1, NEW j \in 1 .. m + 1, f[k].run # Trace!Root,
                      f[k].run.order = f[j].run.order
               PROVE  k = j
    OBVIOUS
  <2>1. k \in 1 .. m /\ f[k].run = P[k] /\ P[k] \in pendingToolUses
    BY <1>10
  <2>2. f[j].run # Trace!Root
    <3>1. P[k] \in TraceRuns /\ P[k] # Trace!Root
      BY <1>2, <2>1
    <3> QED BY <2>1, <3>1, RunFacts
  <2>3. j \in 1 .. m /\ f[j].run = P[j] /\ P[j] \in pendingToolUses
    BY <1>10, <2>2
  <2> QED BY <1>2, <1>3, <2>1, <2>3
<1>13. \A x \in pendingToolUses : \E k \in 1 .. m : k \in 1 .. m + 1 /\ f[k].run = x
  BY <1>3, <1>5, <1>7
<1>14. Logs(m + 1, f)
  <2>1. log # <<>> /\ executionOrder \in Nat \ {0, 1}
    BY <1>1 DEF LogInv
  <2>2. executionOrder' \in Nat \ {0, 1} /\ executionOrder' >= executionOrder
    BY <1>1, <2>1
  <2>3. IsFiniteSet(pendingToolUses')
    BY <1>1, FS_EmptySet
  <2>4. \A x : x \in pendingToolUses' <=>
          \/ x \in pendingToolUses /\ \A k \in 1 .. m + 1 : f[k].run # x
          \/ \E k \in 1 .. m + 1 : x = f[k].run /\ Starts(f[k])
    BY <1>1, <1>11, <1>13
  <2>5. \A k \in 1 .. m + 1 : f[k].run = Trace!Root /\ Ends(f[k]) =>
          /\ \A x \in pendingToolUses : \E j \in 1 .. k - 1 : f[j].run = x
          /\ \A j \in 1 .. k - 1 : ~Starts(f[j])
    <3> SUFFICES ASSUME NEW k \in 1 .. m + 1, f[k].run = Trace!Root
                 PROVE  /\ \A x \in pendingToolUses : \E j \in 1 .. k - 1 : f[j].run = x
                        /\ \A j \in 1 .. k - 1 : ~Starts(f[j])
      OBVIOUS
    <3>1. k = m + 1
      BY <1>2, <1>5, <1>7
    <3>2. k - 1 = m /\ \A j \in 1 .. k - 1 : j \in 1 .. m + 1
      BY <1>3, <3>1
    <3> QED BY <1>11, <1>13, <3>2
  <2>6. \A k \in 1 .. m + 1 : f[k].run # Trace!Root =>
          /\ f[k].run.order < executionOrder'
          /\ f[k].run \in pendingToolUses /\ Ends(f[k])
    <3>1. \A x \in pendingToolUses : x.order < executionOrder
      <4>1. \A x \in pendingToolUses : \E k \in DOMAIN log : log[k].run = x /\ Starts(log[k])
        BY DEF LogInv
      <4> QED BY <1>2, <4>1 DEF LogInv
    <3> QED BY <1>1, <1>10, <3>1
  <2> QED BY <1>1, <1>8, <1>9, <1>11, <1>12, <2>1, <2>2, <2>3, <2>4, <2>5, <2>6 DEF Logs
<1>15. m + 1 \in Nat
  BY <1>3
<1>16. LogInv'
  BY <1>7, <1>14, <1>15, LogKeeps
<1> QED BY <1>1, <1>16 DEF ChildrenInv

LEMMA NextTrace ==
  ASSUME LogInv, ChildrenInv, [Trace!Next]_(Trace!vars) PROVE LogInv' /\ ChildrenInv'
<1>1. CASE Trace!Ignored \/ UNCHANGED Trace!vars
  <2>1. UNCHANGED <<rootRun, executionOrder, pendingToolUses, children, log>>
    BY <1>1 DEF Trace!Ignored, Trace!vars
  <2>2. LogInv'
    BY <2>1 DEF LogInv, Ends, Starts
  <2> QED BY <2>1, <2>2 DEF ChildrenInv
<1>2. CASE Trace!HandleInit
  <2>1. /\ log' = Append(log, Trace!Entry(Trace!Root, "start")) /\ children' = <<>>
        /\ UNCHANGED <<executionOrder, pendingToolUses>>
    BY <1>2 DEF Trace!HandleInit
  <2>2. LogInv'
    BY <2>1, OneIsLogged, RunFacts
  <2>3. ChildrenInv'
    BY <2>1 DEF ChildrenInv
  <2> QED BY <2>2, <2>3
<1>3. CASE Trace!HandleUser
  <2>1. PICK x \in pendingToolUses, status \in {"end", "error"} :
          /\ log' = Append(log, Trace!Entry(x, status))
          /\ pendingToolUses' = pendingToolUses \ {x}
          /\ UNCHANGED <<rootRun, executionOrder, children>>
    BY <1>3 DEF Trace!HandleUser
  <2> DEFINE e == Trace!Entry(x, status)
  <2>2. e \in TraceEntries /\ e.run = x /\ Ends(e)
    BY RunFacts DEF LogInv, Ends
  <2> HIDE DEF e
  <2>3. log' = Append(log, e)
    BY <2>1 DEF e
  <2>4. LogInv'
    BY <2>1, <2>2, <2>3, OneIsLogged
  <2> QED BY <2>1, <2>4 DEF ChildrenInv
<1> QED BY <1>1, <1>2, <1>3, AssistantKeeps, ResultKeeps DEF Trace!Next

LEMMA TraceHolds == ASSUME LogInv, ChildrenInv PROVE Trace!TraceIsWellFormed
<1> DEFINE ended(x) == {k \in DOMAIN log : log[k].run = x /\ Ends(log[k])}
           started(x) == {k \in DOMAIN log : log[k].run = x /\ log[k].status = "start"}
<1>1. \A k \in DOMAIN log : /\ log[k] \in TraceEntries /\ log[k].run \in TraceRuns
                            /\ log[k].status \in {"start", "end", "error"}
  <2>1. \A k \in DOMAIN log : log[k] \in TraceEntries
    BY DEF LogInv
  <2> QED BY <2>1, RunFacts DEF TraceEntries
<1>2. IsFiniteSet(DOMAIN log) /\ DOMAIN log \subseteq Nat \ {0}
  <2>1. DOMAIN log = 1 .. Len(log) /\ Len(log) \in Nat
    BY DEF LogInv
  <2>2. IsFiniteSet(1 .. Len(log))
    BY <2>1, FS_Interval
  <2> QED BY <2>1, <2>2
<1>3. \A x \in TraceRuns \ {Trace!Root} :
        /\ \A k, j \in ended(x) : k = j
        /\ \A k, j \in started(x) : k = j
  <2> SUFFICES ASSUME NEW x \in TraceRuns \ {Trace!Root}, NEW k \in DOMAIN log,
                      NEW j \in DOMAIN log, log[k].run = x, log[j].run = x,
                      Ends(log[k]) <=> Ends(log[j])
               PROVE  k = j
    BY DEF Ends
  <2> QED BY DEF LogInv
<1>4. ASSUME NEW S \in SUBSET DOMAIN log, \A k, j \in S : k = j
      PROVE  Cardinality(S) \in {0, 1} /\ (Cardinality(S) = 0 => S = {})
  <2>1. CASE S = {}
    BY <2>1, FS_EmptySet
  <2>2. CASE S # {}
    <3>1. PICK k \in S : S = {k}
      BY <1>4, <2>2
    <3> QED BY <3>1, FS_Singleton
  <2> QED BY <2>1, <2>2
<1>5. ASSUME NEW x \in TraceRuns \ {Trace!Root}
      PROVE  /\ Cardinality(ended(x)) <= 1 /\ Cardinality(started(x)) \in {0, 1}
             /\ Cardinality(started(x)) = 0 => started(x) = {}
  <2>1. ended(x) \in SUBSET DOMAIN log /\ started(x) \in SUBSET DOMAIN log
    OBVIOUS
  <2>2. /\ \A k, j \in ended(x) : k = j
        /\ \A k, j \in started(x) : k = j
    BY <1>3
  <2> HIDE DEF ended, started
  <2> QED BY <1>4, <2>1, <2>2
<1>6. ASSUME NEW x \in TraceRuns \ {Trace!Root}, x.type = "tool", NEW n \in DOMAIN log,
             log[n].run = x
      PROVE  \E k \in DOMAIN log : log[k].run = x /\ log[k].status = "start" /\ k <= n
  <2>1. CASE Ends(log[n])
    <3>1. PICK k \in DOMAIN log : k < n /\ log[k].run = x /\ Starts(log[k])
      BY <1>6, <2>1 DEF LogInv
    <3> QED BY <1>2, <3>1 DEF Starts
  <2>2. CASE ~Ends(log[n])
    BY <1>1, <1>2, <1>6, <2>2 DEF Ends
  <2> QED BY <2>1, <2>2
<1>7. \A x : /\ Trace!Logged(x, {"end", "error"}) = ended(x)
             /\ Trace!Logged(x, {"start"}) = started(x)
  BY DEF Trace!Logged, Ends
<1>8. ASSUME NEW x \in Trace!Runs \ {Trace!Root}
      PROVE  /\ \E k \in Trace!Logged(Trace!Root, {"start"}) :
                  \A j \in Trace!Logged(x, {"start", "end", "error"}) : k < j
             /\ Trace!Cardinality(Trace!Logged(x, {"end", "error"})) <= 1
             /\ x.type = "tool" =>
                  /\ Trace!Cardinality(Trace!Logged(x, {"start"})) = 1
                  /\ \A k \in Trace!Logged(x, {"start"}), j \in Trace!Logged(x, {"end", "error"}) :
                       k < j
             /\ \A q \in Trace!Runs : q.order = x.order => q = x
  <2>1. PICK n \in DOMAIN log : log[n].run = x
    BY DEF Trace!Runs
  <2>2. x \in TraceRuns \ {Trace!Root}
    BY <1>1, <2>1
  <2>3. log[1] = Trace!Entry(Trace!Root, "start") /\ 1 \in DOMAIN log
    <3>1. log # <<>> /\ log \in Seq(TraceEntries)
      BY <2>1 DEF LogInv
    <3>2. 1 \in DOMAIN log
      BY <2>1, <3>1
    <3> QED BY <3>1, <3>2 DEF LogInv
  <2>4. log[1].run = Trace!Root /\ log[1].status = "start"
    BY <2>3, RunFacts
  <2>5. \E k \in Trace!Logged(Trace!Root, {"start"}) :
          \A j \in Trace!Logged(x, {"start", "end", "error"}) : k < j
    <3>1. 1 \in Trace!Logged(Trace!Root, {"start"})
      BY <2>3, <2>4 DEF Trace!Logged
    <3>2. ASSUME NEW j \in Trace!Logged(x, {"start", "end", "error"}) PROVE 1 < j
      <4>1. j \in DOMAIN log /\ log[j].run = x
        BY DEF Trace!Logged
      <4>2. j # 1
        BY <2>2, <2>4, <4>1
      <4> QED BY <1>2, <4>1, <4>2
    <3> QED BY <3>1, <3>2
  <2>6. Trace!Cardinality(Trace!Logged(x, {"end", "error"})) <= 1
    <3> HIDE DEF ended, started
    <3> QED BY <1>5, <1>7, <2>2, TraceCounts
  <2>7. ASSUME x.type = "tool"
        PROVE  /\ Trace!Cardinality(Trace!Logged(x, {"start"})) = 1
               /\ \A k \in Trace!Logged(x, {"start"}), j \in Trace!Logged(x, {"end", "error"}) :
                    k < j
    <3>1. \E k \in DOMAIN log : log[k].run = x /\ log[k].status = "start"
      BY <1>6, <2>1, <2>2, <2>7
    <3>2. started(x) # {}
      BY <3>1
    <3>3. Trace!Cardinality(Trace!Logged(x, {"start"})) = 1
      <4> HIDE DEF ended, started
      <4> QED BY <1>5, <1>7, <2>2, <3>2, TraceCounts
    <3>4. ASSUME NEW k \in started(x), NEW j \in ended(x) PROVE k < j
      <4>1. PICK n1 \in DOMAIN log : log[n1].run = x /\ log[n1].status = "start" /\ n1 <= j
        BY <1>6, <2>2, <2>7
      <4>2. n1 = k
        BY <1>3, <2>2, <4>1
      <4>3. k # j
        BY DEF Ends
      <4> QED BY <1>2, <4>1, <4>2, <4>3
    <3> QED BY <1>7, <3>3, <3>4
  <2>8. \A q \in Trace!Runs : q.order = x.order => q = x
    BY <2>1 DEF Trace!Runs, LogInv
  <2> QED BY <2>5, <2>6, <2>7, <2>8
<1>9. \A k, j \in DOMAIN children : k < j => children[k] < children[j]
  BY DEF ChildrenInv
<1>10. ASSUME NEW k \in Trace!Logged(Trace!Root, {"end", "error"}), NEW m \in DOMAIN log,
              m < k, log[m].status = "start", log[m].run # Trace!Root
       PROVE  \E j \in Trace!Logged(log[m].run, {"end", "error"}) : j < k
  <2>1. k \in DOMAIN log /\ log[k].run = Trace!Root /\ Ends(log[k])
    BY DEF Trace!Logged, Ends
  <2>2. \E j \in DOMAIN log : j < k /\ log[j].run = log[m].run /\ Ends(log[j])
    BY <1>10, <2>1 DEF LogInv, Starts
  <2> QED BY <1>7, <2>2
<1> HIDE DEF ended, started
<1> QED BY <1>8, <1>9, <1>10 DEF Trace!TraceIsWellFormed

\* Whatever messages come and in which order, the runs that are logged are one tree
\* in the order they were made, a tool's run ends at most once and after its start,
\* and all that was open is closed before the root is.
THEOREM TraceIsOneTree == MCSpec => []TraceIsWellFormed
<1>1. MCInit => LogInv /\ ChildrenInv
  BY InitPlugins, InitTrace
<1>2. LogInv /\ ChildrenInv
        /\ [MCNext]_<<part, tableVars, text, sourceVars, aopVars, graphVars, ormVars,
                      scheduleVars, dnsVars, ossVars, traceVars>>
        => LogInv' /\ ChildrenInv'
  BY ClientsStep, NextTrace
<1>3. LogInv /\ ChildrenInv => TraceIsWellFormed
  BY TraceHolds DEF TraceIsWellFormed
<1> QED BY <1>1, <1>2, <1>3, PTL DEF MCSpec

-----------------------------------------------------------------------------

(* The advices of a method *)

LEMMA SeqFacts ==
  ASSUME NEW Z, NEW s \in Seq(Z)
  PROVE  Len(s) \in Nat /\ DOMAIN s = 1 .. Len(s) /\ \A j \in DOMAIN s : s[j] \in Z
OBVIOUS

LEMMA AspectCounts ==
  /\ \A S : Aspect!Cardinality(S) = Cardinality(S)
  /\ \A f : Aspect!Range(f) = {f[k] : k \in DOMAIN f}
BY DEF Aspect!Cardinality, Cardinality, Aspect!Range

LEMMA JoinedRange ==
  ASSUME NEW Z, NEW s \in Seq(Z), NEW t \in Seq(Z), NEW u, u = s \o t
  PROVE  Aspect!Range(u) = Aspect!Range(s) \cup Aspect!Range(t)
<1>1. /\ u \in Seq(Z) /\ Len(u) = Len(s) + Len(t)
      /\ \A k \in 1 .. Len(s) : u[k] = s[k]
      /\ \A k \in 1 .. Len(t) : u[Len(s) + k] = t[k]
  BY Concatenated
<1>2. /\ Len(s) \in Nat /\ DOMAIN s = 1 .. Len(s) /\ Len(t) \in Nat /\ DOMAIN t = 1 .. Len(t)
      /\ DOMAIN u = 1 .. Len(u)
  BY <1>1
<1>3. ASSUME NEW k \in 1 .. Len(u)
      PROVE  (\E j \in 1 .. Len(s) : u[k] = s[j]) \/ \E j \in 1 .. Len(t) : u[k] = t[j]
  <2>1. CASE k <= Len(s)
    BY <1>1, <1>2, <2>1
  <2>2. CASE k > Len(s)
    <3>1. k - Len(s) \in 1 .. Len(t) /\ k = Len(s) + (k - Len(s))
      BY <1>1, <1>2, <2>2
    <3> QED BY <1>1, <3>1
  <2> QED BY <1>1, <1>2, <2>1, <2>2
<1>4. \A k \in 1 .. Len(s) : k \in 1 .. Len(u)
  BY <1>1, <1>2
<1>5. \A k \in 1 .. Len(t) : Len(s) + k \in 1 .. Len(u)
  BY <1>1, <1>2
<1> DEFINE U == {u[k] : k \in DOMAIN u}
<1>6. U \subseteq {s[k] : k \in DOMAIN s} \cup {t[k] : k \in DOMAIN t}
  BY <1>2, <1>3
<1>7. {s[k] : k \in DOMAIN s} \subseteq U /\ {t[k] : k \in DOMAIN t} \subseteq U
  <2>1. ASSUME NEW k \in DOMAIN s PROVE s[k] \in U
    <3>1. s[k] = u[k] /\ k \in DOMAIN u
      BY <1>1, <1>2, <1>4
    <3> QED BY <3>1
  <2>2. ASSUME NEW k \in DOMAIN t PROVE t[k] \in U
    <3>1. t[k] = u[Len(s) + k] /\ Len(s) + k \in DOMAIN u
      BY <1>1, <1>2, <1>5
    <3> QED BY <3>1
  <2> HIDE DEF U
  <2> QED BY <2>1, <2>2
<1>8. U = {s[k] : k \in DOMAIN s} \cup {t[k] : k \in DOMAIN t}
  BY <1>6, <1>7
<1> QED BY <1>8, AspectCounts

LEMMA AppendedRange ==
  ASSUME NEW Z, NEW s \in Seq(Z), NEW e \in Z, NEW u, u = Append(s, e)
  PROVE  Aspect!Range(u) = Aspect!Range(s) \cup {e}
<1>1. /\ u \in Seq(Z) /\ Len(u) = Len(s) + 1 /\ u[Len(s) + 1] = e
      /\ \A k \in 1 .. Len(s) : u[k] = s[k]
  BY Appended2
<1>2. Len(s) \in Nat /\ DOMAIN s = 1 .. Len(s) /\ DOMAIN u = 1 .. Len(s) + 1
  BY <1>1
<1>3. {u[k] : k \in DOMAIN u} = {s[k] : k \in DOMAIN s} \cup {e}
  BY <1>1, <1>2
<1> QED BY <1>3, AspectCounts

\* The design of the application, as the assumption has it.
DesignInv ==
  /\ design \in Designs /\ IsFiniteSet(Aspect!AppClasses)
  /\ \A c \in Aspect!AppClasses :
       design.pointcuts[c] \in Seq([advice : DOMAIN design.crosscuts, order : Nat])
  /\ \A a \in DOMAIN design.crosscuts :
       design.crosscuts[a] \in Seq([class : Aspect!AppClasses, order : Nat])
  /\ DOMAIN design.crosscuts \subseteq Aspect!AppClasses
  /\ \A c \in Aspect!AppClasses : design.home[c] \in Aspect!AppModules

LEMMA DesignFacts == ASSUME Aspect!DesignAssumption, design \in Designs PROVE DesignInv
<1>1. \A c \in Aspect!AppClasses : design.home[c] \in Aspect!AppModules
  BY AspectCounts DEF Aspect!AppClasses, Aspect!AppModules
<1>2. design.needs = design.needs /\ IsFiniteSet(DOMAIN design.home)
  BY DEF Aspect!DesignAssumption, Aspect!IsFiniteSet, IsFiniteSet
<1>3. /\ DOMAIN design.pointcuts = DOMAIN design.home
      /\ DOMAIN design.crosscuts \subseteq DOMAIN design.home
      /\ \A c \in DOMAIN design.pointcuts :
           design.pointcuts[c] \in Seq([advice : DOMAIN design.crosscuts, order : Nat])
      /\ \A a \in DOMAIN design.crosscuts :
           design.crosscuts[a] \in Seq([class : DOMAIN design.home, order : Nat])
  BY DEF Aspect!DesignAssumption
<1> QED BY <1>1, <1>2, <1>3 DEF DesignInv, Aspect!AppClasses

\* Sorted by their orders and places, all advices are there.
LEMMA AdvicesInOrder ==
  ASSUME NEW S, IsFiniteSet(S),
         \A x \in S : x.order \in Nat /\ x.at[1] \in Nat /\ x.at[2] \in Nat,
         \A x, y \in S : x.at[1] = y.at[1] /\ x.at[2] = y.at[2] => x = y
  PROVE  /\ Cardinality(S) \in Nat
         /\ \A n \in 1 .. Cardinality(S) : Aspect!ByOrder(S)[n] \in S
         /\ \A x \in S : \E n \in 1 .. Cardinality(S) : Aspect!ByOrder(S)[n] = x
<1> DEFINE R == {p \in S \X S : Aspect!Before(p[1], p[2])}
           below(x) == {z \in S : <<z, x>> \in R}
<1>1. /\ \A x \in S : ~Aspect!Before(x, x)
      /\ \A x, y, z \in S : Aspect!Before(x, y) /\ Aspect!Before(y, z) => Aspect!Before(x, z)
      /\ \A x, y \in S : x # y => Aspect!Before(x, y) \/ Aspect!Before(y, x)
  BY DEF Aspect!Before
<1>2. /\ \A x \in S : <<x, x>> \notin R
      /\ \A x, y, z \in S : <<x, y>> \in R /\ <<y, z>> \in R => <<x, z>> \in R
      /\ \A x, y \in S : x # y => <<x, y>> \in R \/ <<y, x>> \in R
  BY <1>1
<1>3. \A x \in S : {y \in S : Aspect!Before(y, x)} = below(x)
  OBVIOUS
<1> HIDE DEF R
<1>4. /\ Cardinality(S) \in Nat
      /\ \A x, y \in S : Cardinality(below(x)) = Cardinality(below(y)) => x = y
      /\ \A n \in 1 .. Cardinality(S) : \E x \in S : Cardinality(below(x)) = n - 1
      /\ \A x \in S : /\ Cardinality(below(x)) \in Nat
                     /\ Cardinality(below(x)) + 1 \in 1 .. Cardinality(S)
  BY <1>2, Ranking
<1>5. Aspect!ByOrder(S) =
        [n \in 1 .. Aspect!Cardinality(S) |->
           CHOOSE x \in S : Aspect!Cardinality({y \in S : Aspect!Before(y, x)}) = n - 1]
  BY DEF Aspect!ByOrder
<1>6. \A x \in S : Aspect!Cardinality({y \in S : Aspect!Before(y, x)}) = Cardinality(below(x))
  <2>1. \A T : Aspect!Cardinality(T) = Cardinality(T)
    BY AspectCounts
  <2> HIDE DEF below
  <2> QED BY <1>3, <2>1
<1> HIDE DEF below
<1>7. \A n \in 1 .. Cardinality(S) : /\ Aspect!ByOrder(S)[n] \in S
                                     /\ Cardinality(below(Aspect!ByOrder(S)[n])) = n - 1
  <2> SUFFICES ASSUME NEW n \in 1 .. Cardinality(S)
               PROVE  /\ Aspect!ByOrder(S)[n] \in S
                      /\ Cardinality(below(Aspect!ByOrder(S)[n])) = n - 1
    OBVIOUS
  <2>1. PICK b \in S : Aspect!Cardinality({y \in S : Aspect!Before(y, b)}) = n - 1
    BY <1>4, <1>6
  <2>2. Aspect!ByOrder(S)[n] =
          CHOOSE x \in S : Aspect!Cardinality({y \in S : Aspect!Before(y, x)}) = n - 1
    BY <1>5, AspectCounts
  <2>3. /\ Aspect!ByOrder(S)[n] \in S
        /\ Aspect!Cardinality({y \in S : Aspect!Before(y, Aspect!ByOrder(S)[n])}) = n - 1
    BY <2>1, <2>2
  <2> QED BY <1>6, <2>3
<1>8. ASSUME NEW x \in S PROVE \E n \in 1 .. Cardinality(S) : Aspect!ByOrder(S)[n] = x
  <2>1. PICK n \in 1 .. Cardinality(S) : n = Cardinality(below(x)) + 1
    BY <1>4
  <2>2. Cardinality(below(Aspect!ByOrder(S)[n])) = Cardinality(below(x))
    <3>1. Cardinality(below(Aspect!ByOrder(S)[n])) = n - 1 /\ Cardinality(below(x)) \in Nat
      BY <1>4, <1>7
    <3> QED BY <2>1, <3>1
  <2> QED BY <1>4, <1>7, <2>2
<1> QED BY <1>4, <1>7, <1>8

\* What a method gets: the advices of the list that are cut into it, and those it
\* points to.
LEMMA AspectOfMethod ==
  ASSUME DesignInv, NEW c \in Aspect!AppClasses, NEW list \in Seq(DOMAIN design.crosscuts)
  PROVE  /\ Aspect!Aspect(list, c) \in Seq(DOMAIN design.crosscuts)
         /\ Aspect!Range(Aspect!Aspect(list, c)) =
              {a \in Aspect!Range(list) : Aspect!Cuts(a, c)}
                \cup {a \in DOMAIN design.crosscuts : Aspect!Points(c, a)}
<1> DEFINE X == DOMAIN design.crosscuts
           cut(k) == design.crosscuts[list[k]]
           Of(k) == {j \in DOMAIN cut(k) : cut(k)[j].class = c}
           Infos(k) == {Aspect!Info(list[k], cut(k)[j].order, k, j) : j \in Of(k)}
           M == Aspect!Matching(list, c)
           P == Aspect!Pointed(list, c)
           S == M \cup P
           pts == design.pointcuts[c]
<1>1. /\ Len(list) \in Nat /\ DOMAIN list = 1 .. Len(list)
      /\ \A k \in 1 .. Len(list) : list[k] \in X
  OBVIOUS
<1>2. /\ pts \in Seq([advice : X, order : Nat]) /\ Len(pts) \in Nat /\ DOMAIN pts = 1 .. Len(pts)
      /\ \A j \in DOMAIN pts : pts[j].advice \in X /\ pts[j].order \in Nat
  <2>1. pts \in Seq([advice : X, order : Nat])
    BY DEF DesignInv
  <2> HIDE DEF pts, X
  <2>2. Len(pts) \in Nat /\ DOMAIN pts = 1 .. Len(pts) /\ \A j \in DOMAIN pts : pts[j] \in [advice : X, order : Nat]
    BY <2>1, SeqFacts
  <2> QED BY <2>1, <2>2
<1>3. \A k \in 1 .. Len(list) :
        /\ cut(k) \in Seq([class : Aspect!AppClasses, order : Nat]) /\ Len(cut(k)) \in Nat
        /\ DOMAIN cut(k) = 1 .. Len(cut(k))
        /\ \A j \in DOMAIN cut(k) : cut(k)[j].order \in Nat
  <2> SUFFICES ASSUME NEW k \in 1 .. Len(list)
               PROVE  /\ cut(k) \in Seq([class : Aspect!AppClasses, order : Nat])
                      /\ Len(cut(k)) \in Nat /\ DOMAIN cut(k) = 1 .. Len(cut(k))
                      /\ \A j \in DOMAIN cut(k) : cut(k)[j].order \in Nat
    OBVIOUS
  <2>1. cut(k) \in Seq([class : Aspect!AppClasses, order : Nat])
    BY <1>1 DEF DesignInv
  <2> HIDE DEF cut
  <2>2. /\ Len(cut(k)) \in Nat /\ DOMAIN cut(k) = 1 .. Len(cut(k))
        /\ \A j \in DOMAIN cut(k) : cut(k)[j] \in [class : Aspect!AppClasses, order : Nat]
    BY <2>1, SeqFacts
  <2> QED BY <2>1, <2>2
<1>4. M = UNION {Infos(k) : k \in 1 .. Len(list)}
  BY <1>1 DEF Aspect!Matching
<1>5. P = {Aspect!Info(pts[j].advice, pts[j].order, Len(list) + 1, j) : j \in DOMAIN pts}
  BY DEF Aspect!Pointed
<1> HIDE DEF M, P, pts, cut, X
<1>6. IsFiniteSet(P)
  <2> DEFINE f == [j \in 1 .. Len(pts) |-> Aspect!Info(pts[j].advice, pts[j].order, Len(list) + 1, j)]
  <2>1. f \in [1 .. Len(pts) -> P] /\ {f[j] : j \in 1 .. Len(pts)} = P
    BY <1>2, <1>5
  <2> HIDE DEF f
  <2>2. IsFiniteSet({f[j] : j \in 1 .. Len(pts)})
    BY <1>2, <2>1, FiniteRange
  <2> QED BY <2>1, <2>2
<1>7. IsFiniteSet(M)
  <2>1. ASSUME NEW k \in 1 .. Len(list) PROVE IsFiniteSet(Infos(k))
    <3> DEFINE f == [j \in 1 .. Len(cut(k)) |-> Aspect!Info(list[k], cut(k)[j].order, k, j)]
               T == {f[j] : j \in 1 .. Len(cut(k))}
    <3>1. f \in [1 .. Len(cut(k)) -> T] /\ Infos(k) \in SUBSET T
      BY <1>3
    <3> HIDE DEF f, Infos
    <3>2. IsFiniteSet({f[j] : j \in 1 .. Len(cut(k))})
      <4>1. Len(cut(k)) \in Nat
        BY <1>3
      <4> QED BY <3>1, <4>1, FiniteRange
    <3> QED BY <3>1, <3>2, FS_Subset
  <2> DEFINE g == [k \in 1 .. Len(list) |-> Infos(k)]
             T == {Infos(k) : k \in 1 .. Len(list)}
  <2>2. g \in [1 .. Len(list) -> T] /\ {g[k] : k \in 1 .. Len(list)} = T
    OBVIOUS
  <2>3. \A t \in T : IsFiniteSet(t)
    BY <2>1
  <2> HIDE DEF g, T
  <2>4. IsFiniteSet({g[k] : k \in 1 .. Len(list)})
    <3>1. Len(list) \in Nat
      BY <1>1
    <3> QED BY <2>2, <3>1, FiniteRange
  <2>5. IsFiniteSet(T)
    BY <2>2, <2>4
  <2>6. IsFiniteSet(UNION T)
    BY <2>3, <2>5, FS_UNION
  <2> QED BY <1>4, <2>6 DEF T
<1>8. IsFiniteSet(S)
  BY <1>6, <1>7, FS_Union
<1>9. \A x \in M : \E k \in 1 .. Len(list) : \E j \in Of(k) :
        x = Aspect!Info(list[k], cut(k)[j].order, k, j)
  BY <1>4
<1>10. ASSUME NEW x \in S
       PROVE  /\ x.order \in Nat /\ x.at[1] \in Nat /\ x.at[2] \in Nat /\ x.advice \in X
              /\ \/ /\ x.at[1] \in 1 .. Len(list) /\ x.at[2] \in Of(x.at[1])
                    /\ x = Aspect!Info(list[x.at[1]], cut(x.at[1])[x.at[2]].order, x.at[1], x.at[2])
                 \/ /\ x.at[1] = Len(list) + 1 /\ x.at[2] \in DOMAIN pts
                    /\ x = Aspect!Info(pts[x.at[2]].advice, pts[x.at[2]].order, Len(list) + 1, x.at[2])
  <2>1. CASE x \in M
    <3>1. PICK k \in 1 .. Len(list) : \E j \in Of(k) :
            x = Aspect!Info(list[k], cut(k)[j].order, k, j)
      BY <1>9, <2>1
    <3>2. PICK j \in Of(k) : x = Aspect!Info(list[k], cut(k)[j].order, k, j)
      BY <3>1
    <3>3. x.at[1] = k /\ x.at[2] = j /\ x.order = cut(k)[j].order /\ x.advice = list[k]
      BY <3>2 DEF Aspect!Info
    <3>4. j \in Nat /\ j \in DOMAIN cut(k)
      BY <1>3
    <3> QED BY <1>1, <1>3, <3>2, <3>3, <3>4
  <2>2. CASE x \in P
    <3>1. PICK j \in DOMAIN pts : x = Aspect!Info(pts[j].advice, pts[j].order, Len(list) + 1, j)
      BY <1>5, <2>2
    <3>2. /\ x.at[1] = Len(list) + 1 /\ x.at[2] = j /\ x.order = pts[j].order
          /\ x.advice = pts[j].advice
      BY <3>1 DEF Aspect!Info
    <3>3. j \in Nat /\ pts[j].order \in Nat /\ pts[j].advice \in X /\ Len(list) + 1 \in Nat
      BY <1>1, <1>2
    <3>4. x = Aspect!Info(pts[x.at[2]].advice, pts[x.at[2]].order, Len(list) + 1, x.at[2])
      BY ONLY <3>1, <3>2
    <3> QED BY <3>2, <3>3, <3>4
  <2> QED BY <2>1, <2>2
<1>11. \A x, y \in S : x.at[1] = y.at[1] /\ x.at[2] = y.at[2] => x = y
  <2> SUFFICES ASSUME NEW x \in S, NEW y \in S, x.at[1] = y.at[1], x.at[2] = y.at[2] PROVE x = y
    OBVIOUS
  <2> HIDE DEF S
  <2>1. x.at[1] \in 1 .. Len(list) => x.at[1] # Len(list) + 1
    BY <1>1
  <2> QED BY <1>10, <2>1
<1> HIDE DEF S
<1>12. /\ Cardinality(S) \in Nat
       /\ \A n \in 1 .. Cardinality(S) : Aspect!ByOrder(S)[n] \in S
       /\ \A x \in S : \E n \in 1 .. Cardinality(S) : Aspect!ByOrder(S)[n] = x
  BY <1>8, <1>10, <1>11, AdvicesInOrder
<1>13. Aspect!Aspect(list, c) = [n \in 1 .. Cardinality(S) |-> Aspect!ByOrder(S)[n].advice]
  BY AspectCounts DEF Aspect!Aspect, S, M, P
<1>14. Aspect!Aspect(list, c) \in [1 .. Cardinality(S) -> X]
  BY <1>10, <1>12, <1>13
<1>15. Aspect!Range(Aspect!Aspect(list, c)) = {x.advice : x \in S}
  BY <1>12, <1>13, AspectCounts
<1>16. ASSUME NEW a \in {x.advice : x \in S}
       PROVE  \/ a \in Aspect!Range(list) /\ Aspect!Cuts(a, c)
              \/ a \in X /\ Aspect!Points(c, a)
  <2>1. PICK x \in S : a = x.advice
    OBVIOUS
  <2>2. CASE /\ x.at[1] \in 1 .. Len(list) /\ x.at[2] \in Of(x.at[1])
             /\ x = Aspect!Info(list[x.at[1]], cut(x.at[1])[x.at[2]].order, x.at[1], x.at[2])
    <3>1. a = list[x.at[1]]
      BY <2>1, <2>2 DEF Aspect!Info
    <3>2. a \in Aspect!Range(list)
      BY <1>1, <2>2, <3>1, AspectCounts
    <3>3. Aspect!Cuts(a, c)
      BY <2>2, <3>1 DEF Aspect!Cuts, cut
    <3> QED BY <3>2, <3>3
  <2>3. CASE /\ x.at[1] = Len(list) + 1 /\ x.at[2] \in DOMAIN pts
             /\ x = Aspect!Info(pts[x.at[2]].advice, pts[x.at[2]].order, Len(list) + 1, x.at[2])
    <3>1. a = pts[x.at[2]].advice
      BY <2>1, <2>3 DEF Aspect!Info
    <3> QED BY <1>2, <2>3, <3>1 DEF Aspect!Points, pts
  <2> QED BY <1>10, <2>2, <2>3
<1>17. ASSUME NEW a \in Aspect!Range(list), Aspect!Cuts(a, c) PROVE \E x \in S : x.advice = a
  <2>1. PICK k \in 1 .. Len(list) : list[k] = a
    BY <1>1, AspectCounts
  <2>2. PICK j \in Of(k) : TRUE
    BY <1>17, <2>1 DEF Aspect!Cuts, cut
  <2> DEFINE x == Aspect!Info(list[k], cut(k)[j].order, k, j)
  <2>3. x \in Infos(k) /\ x.advice = a
    BY <2>1, <2>2 DEF Aspect!Info
  <2> HIDE DEF x
  <2>4. x \in S
    BY <1>4, <2>3 DEF S
  <2> QED BY <2>3, <2>4
<1>18. ASSUME NEW a \in X, Aspect!Points(c, a) PROVE \E x \in S : x.advice = a
  <2>1. PICK j \in DOMAIN pts : pts[j].advice = a
    BY <1>18 DEF Aspect!Points, pts
  <2> DEFINE x == Aspect!Info(pts[j].advice, pts[j].order, Len(list) + 1, j)
  <2>2. x \in P /\ x.advice = a
    BY <1>5, <2>1 DEF Aspect!Info
  <2> QED BY <2>2 DEF S
<1>19. Aspect!Aspect(list, c) \in Seq(X)
  BY <1>12, <1>14, FunctionIsSeq
<1> QED BY <1>15, <1>16, <1>17, <1>18, <1>19 DEF X

\* Any order of a finite set has all of it.
LEMMA AnyOrder ==
  ASSUME NEW S, IsFiniteSet(S), NEW s \in Aspect!SetToSeqs(S)
  PROVE  s \in Seq(S) /\ {s[k] : k \in DOMAIN s} = S
<1> DEFINE D == 1 .. Cardinality(S)
<1>1. Cardinality(S) \in Nat
  BY FS_CardinalityType
<1>2. s \in [D -> S] /\ \A k, j \in D : k # j => s[k] # s[j]
  BY AspectCounts DEF Aspect!SetToSeqs
<1>3. s \in Injection(D, S)
  BY <1>2 DEF Injection, IsInjective
<1>4. Cardinality(D) = Cardinality(S)
  BY <1>1, FS_Interval
<1> HIDE DEF D
<1>5. s \in Surjection(D, S)
  BY <1>3, <1>4, FS_Injection
<1>6. {s[k] : k \in DOMAIN s} = S
  BY <1>2, <1>5 DEF Surjection
<1> QED BY <1>1, <1>2, <1>6, FunctionIsSeq DEF D

-----------------------------------------------------------------------------
(* The advices are woven *)

\* What is registered are the crosscut advices of the load units that there are;
\* no load unit comes before one that it needs; and a class whose load unit is
\* there has the advices that are declared for it.
RegisteredInv ==
  /\ registered \in Seq(DOMAIN design.crosscuts)
  /\ \A a \in DOMAIN design.crosscuts :
       design.crosscuts[a] # <<>> /\ design.home[a] \in Aspect!Range(classes) =>
         a \in Aspect!Range(registered)
EdgesInv ==
  /\ boot = "hooks" => classes = <<>>
  /\ boot # "hooks" => \A p \in Aspect!Pairs : design.home[p[1]] # design.home[p[2]] =>
                         <<design.home[p[1]], design.home[p[2]]>> \in edges
  /\ classes \in Seq(Aspect!AppModules)
  /\ \A m \in Aspect!Range(classes), n \in Aspect!AppModules :
       <<m, n>> \in edges => n \in Aspect!Range(classes)
AspectsInv ==
  /\ \A c \in Aspect!AppClasses : design.home[c] \in Aspect!Range(classes) =>
       /\ aspects[c] \in Seq(DOMAIN design.crosscuts)
       /\ Aspect!Range(aspects[c]) = Aspect!Declared(c)
  /\ boot = "up" => Aspect!AppModules = Aspect!Range(classes)
  /\ boot # "advice_not_found"
WeavingInv == DesignInv /\ RegisteredInv /\ EdgesInv /\ AspectsInv

LEMMA InitWeaving == ASSUME Aspect!DesignAssumption, Aspect!Init PROVE WeavingInv
<1>1. /\ design \in Designs /\ classes = <<>> /\ registered = <<>> /\ boot = "hooks"
  BY DEF Aspect!Init
<1>2. Aspect!Range(classes) = {}
  BY <1>1, AspectCounts
<1>3. DesignInv
  BY <1>1, DesignFacts
<1>4. RegisteredInv
  BY <1>1, <1>2 DEF RegisteredInv
<1>5. EdgesInv
  BY <1>1, <1>2 DEF EdgesInv
<1>6. AspectsInv
  BY <1>1, <1>2 DEF AspectsInv
<1> QED BY <1>3, <1>4, <1>5, <1>6 DEF WeavingInv

LEMMA HooksBuilt == ASSUME WeavingInv, Aspect!BuildHooks PROVE WeavingInv'
<1> DEFINE homes == {<<design.home[p[1]], design.home[p[2]]>> : p \in Aspect!Pairs}
<1>1. /\ UNCHANGED <<design, classes, registered, aspects>>
      /\ boot = "hooks" /\ boot' \in {"recursive deps", "units"}
      /\ edges' = edges \cup {e \in homes : e[1] # e[2]}
  BY DEF Aspect!BuildHooks, Aspect!Woven
<1>2. classes = <<>> /\ Aspect!Range(classes) = {}
  <2>1. classes = <<>>
    BY <1>1 DEF WeavingInv, EdgesInv
  <2> QED BY <2>1, AspectCounts
<1>3. /\ Aspect!Range(classes)' = Aspect!Range(classes)
      /\ Aspect!Range(registered)' = Aspect!Range(registered)
      /\ Aspect!AppModules' = Aspect!AppModules /\ Aspect!AppClasses' = Aspect!AppClasses
      /\ Aspect!Pairs' = Aspect!Pairs
  BY <1>1 DEF Aspect!Range, Aspect!AppModules, Aspect!AppClasses, Aspect!Pairs, Aspect!Cuts,
              Aspect!Points
<1>4. \A p \in Aspect!Pairs : design.home[p[1]] # design.home[p[2]] =>
        <<design.home[p[1]], design.home[p[2]]>> \in edges'
  BY <1>1
<1>5. EdgesInv'
  BY <1>1, <1>2, <1>3, <1>4 DEF WeavingInv, EdgesInv
<1>6. DesignInv' /\ RegisteredInv' 
  BY <1>1, <1>2, <1>3 DEF WeavingInv, DesignInv, RegisteredInv
<1>7. AspectsInv'
  BY <1>1, <1>2, <1>3 DEF AspectsInv
<1> QED BY <1>5, <1>6, <1>7 DEF WeavingInv

LEMMA UnitCreated ==
  ASSUME WeavingInv, NEW m \in Aspect!AppModules, Aspect!CreateUnit(m) PROVE WeavingInv'
<1> DEFINE X == DOMAIN design.crosscuts
           R == Aspect!Range(classes)
           own == Aspect!ClassesOf(m)
<1>1. PICK s \in Aspect!SetToSeqs(Aspect!Cutting(m)) :
        LET list == registered \o s IN
        /\ registered' = list
        /\ aspects' = [c \in Aspect!AppClasses |->
                         IF c \in own THEN Aspect!Aspect(list, c) ELSE aspects[c]]
        /\ boot' = IF \E c \in own : \E a \in Aspect!Range(Aspect!Aspect(list, c)) :
                        ~Aspect!HasProto(a, m)
                   THEN "advice_not_found"
                   ELSE IF Aspect!AppModules = R \cup {m} THEN "up" ELSE "units"
  BY DEF Aspect!CreateUnit
<1> DEFINE list == registered \o s
<1>2. /\ boot = "units" /\ m \notin R /\ \A n \in Aspect!AppModules : <<m, n>> \in edges => n \in R
      /\ classes' = Append(classes, m) /\ UNCHANGED <<design, edges>>
  BY DEF Aspect!CreateUnit
<1>3. DesignInv
  BY DEF WeavingInv
<1>4. /\ own = {c \in Aspect!AppClasses : design.home[c] = m}
      /\ Aspect!Cutting(m) = {a \in X : design.home[a] = m /\ design.crosscuts[a] # <<>>}
      /\ IsFiniteSet(Aspect!Cutting(m))
  <2>1. own = {c \in Aspect!AppClasses : design.home[c] = m}
    BY DEF Aspect!ClassesOf
  <2>2. Aspect!Cutting(m) = {a \in X : design.home[a] = m /\ design.crosscuts[a] # <<>>}
    BY <1>3, <2>1 DEF Aspect!Cutting, DesignInv
  <2>3. Aspect!Cutting(m) \in SUBSET Aspect!AppClasses
    BY <1>3, <2>2 DEF DesignInv
  <2> QED BY <1>3, <2>1, <2>2, <2>3, FS_Subset DEF DesignInv
<1>5. s \in Seq(Aspect!Cutting(m)) /\ {s[k] : k \in DOMAIN s} = Aspect!Cutting(m)
  BY <1>1, <1>4, AnyOrder
<1>6. registered \in Seq(X) /\ classes \in Seq(Aspect!AppModules)
  BY DEF WeavingInv, RegisteredInv, EdgesInv
<1>7. s \in Seq(X)
  BY <1>4, <1>5
<1>8. list \in Seq(X) /\ Aspect!Range(list) = Aspect!Range(registered) \cup Aspect!Cutting(m)
  <2>1. PICK q : q = registered \o s
    OBVIOUS
  <2> HIDE DEF X
  <2>2. q \in Seq(X)
    BY <1>6, <1>7, <2>1
  <2>3. Aspect!Range(q) = Aspect!Range(registered) \cup Aspect!Range(s)
    <3>1. registered \in Seq(X) /\ s \in Seq(X)
      BY <1>6, <1>7
    <3>2. \A f, g \in Seq(X) : Aspect!Range(f \o g) = Aspect!Range(f) \cup Aspect!Range(g)
      BY ZenonT(60), JoinedRange
    <3> QED BY <2>1, <3>1, <3>2
  <2>4. q = list
    BY <2>1
  <2> HIDE DEF list
  <2> QED BY <1>5, <2>2, <2>3, <2>4, AspectCounts
<1>9. Aspect!Range(classes') = R \cup {m} /\ classes' \in Seq(Aspect!AppModules)
  <2>1. Aspect!Range(classes') = Aspect!Range(classes) \cup {m}
    BY <1>2, <1>6, AppendedRange
  <2> HIDE DEF R
  <2>2. classes' \in Seq(Aspect!AppModules)
    BY <1>2, <1>6
  <2> QED BY <2>1, <2>2 DEF R
<1> HIDE DEF list
<1>10. ASSUME NEW a \in X, NEW c \in own, Aspect!Cuts(a, c) \/ Aspect!Points(c, a)
       PROVE  design.home[a] \in R \cup {m}
  <2>1. <<c, a>> \in Aspect!Pairs /\ design.home[c] = m /\ design.home[a] \in Aspect!AppModules
    BY <1>3, <1>4, <1>10 DEF Aspect!Pairs, DesignInv
  <2>2. design.home[a] # m => <<m, design.home[a]>> \in edges
    BY <1>2, <2>1 DEF WeavingInv, EdgesInv
  <2> QED BY <1>2, <2>1, <2>2
<1>11. ASSUME NEW a \in X, NEW c \in own, Aspect!Cuts(a, c)
       PROVE  a \in Aspect!Range(list)
  <2>1. design.crosscuts[a] # <<>>
    BY <1>11 DEF Aspect!Cuts
  <2>2. design.home[a] \in R \cup {m}
    BY <1>10, <1>11
  <2>3. design.home[a] \in R => a \in Aspect!Range(registered)
    BY <2>1 DEF WeavingInv, RegisteredInv
  <2> QED BY <1>4, <1>8, <2>1, <2>2, <2>3
<1>12. ASSUME NEW c \in own
       PROVE  /\ Aspect!Aspect(list, c) \in Seq(X)
              /\ Aspect!Range(Aspect!Aspect(list, c)) = Aspect!Declared(c)
  <2>1. /\ Aspect!Aspect(list, c) \in Seq(X)
        /\ Aspect!Range(Aspect!Aspect(list, c)) =
              {a \in Aspect!Range(list) : Aspect!Cuts(a, c)} \cup {a \in X : Aspect!Points(c, a)}
    BY <1>3, <1>4, <1>8, AspectOfMethod
  <2>2. \A a \in Aspect!Range(list) : a \in X
    BY <1>4, <1>6, <1>8, AspectCounts
  <2>3. Aspect!Declared(c) = {a \in X : Aspect!Cuts(a, c) \/ Aspect!Points(c, a)}
    BY DEF Aspect!Declared
  <2> QED BY <1>11, <2>1, <2>2, <2>3
<1>13. \A c \in own : \A a \in Aspect!Range(Aspect!Aspect(list, c)) : Aspect!HasProto(a, m)
  BY <1>10, <1>12 DEF Aspect!HasProto, Aspect!Declared
<1>14. /\ registered' = list
       /\ aspects' = [c \in Aspect!AppClasses |->
                        IF c \in own THEN Aspect!Aspect(list, c) ELSE aspects[c]]
       /\ boot' = IF Aspect!AppModules = R \cup {m} THEN "up" ELSE "units"
  BY <1>1, <1>13 DEF list
<1>15. /\ Aspect!AppModules' = Aspect!AppModules /\ Aspect!AppClasses' = Aspect!AppClasses
       /\ Aspect!Pairs' = Aspect!Pairs
       /\ \A c : Aspect!Declared(c)' = Aspect!Declared(c)
       /\ Aspect!Range(classes)' = R \cup {m} /\ Aspect!Range(registered)' = Aspect!Range(list)
       /\ X' = X
  <2>1. Aspect!Range(classes)' = Aspect!Range(classes')
    BY DEF Aspect!Range
  <2>2. Aspect!Range(registered)' = Aspect!Range(list)
    BY <1>14 DEF Aspect!Range
  <2> QED
    BY <1>2, <1>9, <2>1, <2>2
       DEF Aspect!AppModules, Aspect!AppClasses, Aspect!Pairs, Aspect!Cuts, Aspect!Points,
           Aspect!Declared, Aspect!Range
<1>16. DesignInv'
  BY <1>2, <1>3, <1>15 DEF DesignInv
<1>17. RegisteredInv'
  BY <1>2, <1>4, <1>8, <1>14, <1>15 DEF WeavingInv, RegisteredInv
<1>18. EdgesInv'
  <2> HIDE DEF R
  <2>1. \A p, n : p \in R /\ n \in Aspect!AppModules /\ <<p, n>> \in edges => n \in R
    BY DEF WeavingInv, EdgesInv, R
  <2> QED BY <1>2, <1>9, <1>14, <1>15, <2>1 DEF WeavingInv, EdgesInv
<1>19. AspectsInv'
  <2>1. ASSUME NEW c \in Aspect!AppClasses, design.home[c] \in R \cup {m}
        PROVE  aspects'[c] \in Seq(X) /\ Aspect!Range(aspects'[c]) = Aspect!Declared(c)
    <3>1. CASE c \in own
      BY <1>12, <1>14, <3>1
    <3>2. CASE c \notin own
      <4>1. design.home[c] \in R /\ aspects'[c] = aspects[c]
        BY <1>4, <1>14, <2>1, <3>2
      <4> QED BY <4>1 DEF WeavingInv, AspectsInv
    <3> QED BY <3>1, <3>2
  <2>2. boot' # "advice_not_found" /\ (boot' = "up" => Aspect!AppModules = R \cup {m})
    BY <1>14
  <2> QED BY <1>2, <1>15, <2>1, <2>2 DEF AspectsInv, Aspect!Range
<1> QED BY <1>16, <1>17, <1>18, <1>19 DEF WeavingInv

-----------------------------------------------------------------------------
(* The hooks of a call *)

Places(q, hook) == {k \in DOMAIN q : q[k][1] = hook}
Turns(q, hook) ==
  \A k \in Places(q, hook) : q[k][2] = Cardinality({j \in Places(q, hook) : j <= k})
Times(q, hook) == Cardinality(Places(q, hook))
Hooks ==
  {"beforeCall", "replaces", "around", "afterReturn", "afterThrow", "afterFinally"}
Hearings == Seq(Hooks \X Nat)

LEMMA HeardIsPlaces ==
  /\ \A hook : Aspect!Heard(hook) = Places(heard, hook)
  /\ \A hook : Aspect!InTurn(hook) <=> Turns(heard, hook)
<1>1. \A hook : Aspect!Heard(hook) = Places(heard, hook)
  BY DEF Aspect!Heard, Places
<1>2. \A S : Aspect!Cardinality(S) = Cardinality(S)
  BY AspectCounts
<1> QED BY <1>1, <1>2 DEF Aspect!InTurn, Turns

LEMMA PlacesAreFinite ==
  ASSUME NEW q \in Hearings, NEW hook
  PROVE  /\ Places(q, hook) \in SUBSET (1 .. Len(q)) /\ IsFiniteSet(Places(q, hook))
         /\ Times(q, hook) \in Nat
         /\ Len(q) \in Nat /\ DOMAIN q = 1 .. Len(q)
<1>1. Len(q) \in Nat /\ DOMAIN q = 1 .. Len(q)
  BY DEF Hearings
<1>2. Places(q, hook) \in SUBSET (1 .. Len(q))
  BY <1>1 DEF Places
<1>3. IsFiniteSet(1 .. Len(q))
  BY <1>1, FS_Interval
<1> QED BY <1>1, <1>2, <1>3, FS_Subset, FS_CardinalityType DEF Times

LEMMA AppendTwice ==
  ASSUME NEW Z, NEW s \in Seq(Z), NEW e \in Z, NEW f \in Z
  PROVE  s \o <<e, f>> = Append(Append(s, e), f)
OBVIOUS

\* One more hook is heard.
HearsOne(q, u, hook, n) ==
  /\ u \in Hearings
  /\ \A h : h # hook => /\ Places(u, h) = Places(q, h) /\ Times(u, h) = Times(q, h)
                        /\ Turns(q, h) => Turns(u, h)
  /\ Places(u, hook) = Places(q, hook) \cup {Len(q) + 1}
  /\ Times(u, hook) = Times(q, hook) + 1
  /\ Times(q, hook) + 1 = n /\ Turns(q, hook) => Turns(u, hook)
  /\ \A k \in 1 .. Len(q) : u[k] = q[k]
  /\ u[Len(q) + 1] = <<hook, n>>

LEMMA OneIsHeard ==
  ASSUME NEW q \in Hearings, NEW hook \in Hooks, NEW n \in Nat,
         NEW u, u = Append(q, <<hook, n>>)
  PROVE  HearsOne(q, u, hook, n)
<1> PICK e : e = <<hook, n>>
  OBVIOUS
<1>11. e \in Hooks \X Nat /\ e[1] = hook /\ e[2] = n
  OBVIOUS
<1>1. /\ u \in Hearings /\ Len(u) = Len(q) + 1 /\ u[Len(q) + 1] = e
      /\ \A k \in 1 .. Len(q) : u[k] = q[k]
  <2> DEFINE Z == Hooks \X Nat
  <2>1. q \in Seq(Z) /\ u = Append(q, e) /\ e \in Z /\ Hearings = Seq(Z)
    BY DEF Hearings
  <2> HIDE DEF Z
  <2> QED BY <2>1, Appended2
<1>2. Len(q) \in Nat /\ DOMAIN q = 1 .. Len(q) /\ DOMAIN u = 1 .. Len(q) + 1
  BY <1>1 DEF Hearings
<1>3. u[Len(q) + 1][1] = hook /\ u[Len(q) + 1][2] = n
  BY <1>11, <1>1
<1>12. \A k : k \in 1 .. Len(q) + 1 <=> k \in 1 .. Len(q) \/ k = Len(q) + 1
  BY <1>2
<1>4. ASSUME NEW h, h # hook PROVE Places(u, h) = Places(q, h)
  <2>1. \A k \in 1 .. Len(q) + 1 : u[k][1] = h => k \in 1 .. Len(q)
    BY <1>3, <1>4, <1>12
  <2> QED BY <1>1, <1>2, <1>12, <2>1 DEF Places
<1>5. Places(u, hook) = Places(q, hook) \cup {Len(q) + 1}
  BY <1>1, <1>2, <1>3, <1>12 DEF Places
<1>6. ASSUME NEW h, h # hook, Turns(q, h) PROVE Turns(u, h)
  <2>1. Places(u, h) = Places(q, h) /\ Places(q, h) \in SUBSET (1 .. Len(q))
    BY <1>4, <1>6, PlacesAreFinite
  <2>2. \A k \in Places(q, h) : u[k] = q[k]
    BY <1>1, <2>1
  <2> QED BY <1>6, <2>1, <2>2 DEF Turns
<1>7. /\ IsFiniteSet(Places(q, hook)) /\ Times(q, hook) \in Nat
      /\ \A k \in Places(q, hook) : k \in 1 .. Len(q) /\ k # Len(q) + 1
  <2>1. Places(q, hook) \in SUBSET (1 .. Len(q))
    BY PlacesAreFinite
  <2>2. \A k \in 1 .. Len(q) : k # Len(q) + 1
    BY <1>2
  <2> QED BY <2>1, <2>2, PlacesAreFinite
<1>8. Times(u, hook) = Times(q, hook) + 1
  <2>1. Len(q) + 1 \notin Places(q, hook)
    BY <1>7
  <2> QED BY <1>5, <1>7, <2>1, FS_AddElement DEF Times
<1>9. ASSUME Times(q, hook) + 1 = n, Turns(q, hook) PROVE Turns(u, hook)
  <2> SUFFICES ASSUME NEW k \in Places(u, hook)
               PROVE  u[k][2] = Cardinality({j \in Places(u, hook) : j <= k})
    BY DEF Turns
  <2> DEFINE upto == {j \in Places(u, hook) : j <= k}
  <2>1. CASE k = Len(q) + 1
    <3>1. \A j \in Places(u, hook) : j <= Len(q) + 1
      <4>1. \A j \in 1 .. Len(q) : j <= Len(q) + 1
        BY <1>2
      <4>2. Len(q) + 1 <= Len(q) + 1
        BY <1>2
      <4> QED BY <1>5, <1>7, <4>1, <4>2
    <3>4. upto = Places(u, hook)
      BY <2>1, <3>1
    <3> HIDE DEF upto
    <3>2. Cardinality(upto) = n
      BY <1>8, <1>9, <3>4 DEF Times
    <3> QED BY <1>3, <2>1, <3>2 DEF upto
  <2>2. CASE k \in Places(q, hook)
    <3>1. upto = {j \in Places(q, hook) : j <= k}
      <4>1. k \in 1 .. Len(q)
        BY <1>7, <2>2
      <4>2. ~(Len(q) + 1 <= k)
        BY <1>2, <4>1
      <4> QED BY <1>5, <4>2
    <3>2. u[k] = q[k]
      BY <1>1, <1>7, <2>2
    <3> QED BY <1>9, <2>2, <3>1, <3>2 DEF Turns
  <2> QED BY <1>5, <2>1, <2>2
<1>10. \A h : h # hook => Times(u, h) = Times(q, h)
  BY <1>4 DEF Times
<1> QED BY <1>1, <1>4, <1>5, <1>6, <1>8, <1>9, <1>10 DEF HearsOne

-----------------------------------------------------------------------------
(* A call of an advised method *)

FramingHooks == {"beforeCall", "afterReturn", "afterThrow", "afterFinally"}

\* How far each phase of the call has come.
PhaseInv ==
  /\ at \in {"idle", "beforeCall", "around", "back", "afterReturn", "afterThrow",
             "afterFinally", "done"}
  /\ at = "idle" => heard = <<>> /\ called = None /\ args = 0
  /\ at = "beforeCall" =>
       /\ i \in 1 .. Aspect!N /\ Times(heard, "beforeCall") = i - 1
       /\ Places(heard, "around") = {} /\ called = None
  /\ at \in {"beforeCall", "around", "back"} => Times(heard, "afterReturn") = 0
  /\ at \in {"beforeCall", "around", "back", "afterReturn"} => Times(heard, "afterThrow") = 0
  /\ at \in {"beforeCall", "around", "back", "afterReturn", "afterThrow"} =>
       Times(heard, "afterFinally") = 0
  /\ at = "around" => i \in 1 .. Aspect!N + 1
  /\ at = "back" => i \in 0 .. Aspect!N
  /\ at \in {"afterReturn", "afterThrow", "afterFinally"} =>
       i \in 1 .. Aspect!N /\ Times(heard, at) = i - 1
  /\ at = "done" => \/ Places(heard, "around") = {}
                    \/ Times(heard, "afterFinally") = Aspect!N
                    \/ outcome = "error" /\ Places(heard, "afterFinally") # {}
ArgsInv ==
  /\ \/ Places(heard, "replaces") = {} /\ args = 0
     \/ \E k \in Places(heard, "replaces") :
          /\ \A j \in Places(heard, "replaces") : j <= k
          /\ args = heard[k][2]
  /\ called # None => called = args
CalledInv ==
  /\ heard \in Hearings /\ throws \in Nat /\ (outcome = "error" => throws > 0)
  /\ at # "idle" => Aspect!N \in Nat \ {0} /\ boot = "up"
  /\ \A hook \in FramingHooks : Turns(heard, hook)
CallInv == PhaseInv /\ ArgsInv /\ CalledInv

LEMMA NothingIsHeard ==
  \A hook : Places(<<>>, hook) = {} /\ Times(<<>>, hook) = 0 /\ Turns(<<>>, hook)
<1>1. \A hook : Places(<<>>, hook) = {}
  BY DEF Places
<1> QED BY <1>1, FS_EmptySet DEF Times, Turns

LEMMA InitCall == ASSUME Aspect!Init PROVE CallInv
<1>1. at = "idle" /\ heard = <<>> /\ called = None /\ args = 0 /\ throws = 0 /\ outcome = "none"
  BY DEF Aspect!Init
<1>2. <<>> \in Hearings
  BY DEF Hearings
<1>3. PhaseInv
  BY <1>1 DEF PhaseInv
<1>4. ArgsInv
  BY <1>1, NothingIsHeard DEF ArgsInv
<1>5. CalledInv
  BY <1>1, <1>2, NothingIsHeard DEF CalledInv
<1> QED BY <1>3, <1>4, <1>5 DEF CallInv

\* The arguments stay those of the last that replaced them.
LEMMA ArgsStay ==
  ASSUME ArgsInv, UNCHANGED <<args, called>>, Places(heard', "replaces") = Places(heard, "replaces"),
         \A k \in Places(heard, "replaces") : heard'[k] = heard[k]
  PROVE  ArgsInv'
BY DEF ArgsInv

\* What a step does to what is heard, when it hears one hook.
LEMMA HearKeeps ==
  ASSUME CallInv, NEW hook \in Hooks, hook # "replaces", i \in Nat, Aspect!Hear(hook),
         UNCHANGED <<args, called>>, hook \in FramingHooks => Times(heard, hook) + 1 = i
  PROVE  /\ heard' \in Hearings /\ ArgsInv'
         /\ \A h \in FramingHooks : Turns(heard', h)
         /\ \A h : h # hook => /\ Places(heard', h) = Places(heard, h)
                               /\ Times(heard', h) = Times(heard, h)
         /\ Times(heard', hook) = Times(heard, hook) + 1 /\ Places(heard', hook) # {}
<1>1. heard \in Hearings /\ heard' = Append(heard, <<hook, i>>)
  BY DEF CallInv, CalledInv, Aspect!Hear
<1>6. HearsOne(heard, heard', hook, i)
  BY <1>1, OneIsHeard
<1>2. /\ heard' \in Hearings
      /\ \A h : h # hook => /\ Places(heard', h) = Places(heard, h)
                            /\ Times(heard', h) = Times(heard, h)
                            /\ Turns(heard, h) => Turns(heard', h)
      /\ Places(heard', hook) = Places(heard, hook) \cup {Len(heard) + 1}
      /\ Times(heard', hook) = Times(heard, hook) + 1
      /\ Times(heard, hook) + 1 = i /\ Turns(heard, hook) => Turns(heard', hook)
      /\ \A k \in 1 .. Len(heard) : heard'[k] = heard[k]
  BY <1>6 DEF HearsOne
<1>3. Places(heard, "replaces") \in SUBSET (1 .. Len(heard))
  BY <1>1, PlacesAreFinite
<1>4. ArgsInv'
  BY <1>2, <1>3, ArgsStay DEF CallInv
<1>5. \A h \in FramingHooks : Turns(heard', h)
  BY <1>2 DEF CallInv, CalledInv
<1> QED BY <1>2, <1>4, <1>5

LEMMA WeavingStays ==
  ASSUME WeavingInv, UNCHANGED Aspect!weaving
  PROVE  WeavingInv' /\ UNCHANGED <<aspects, boot>>
<1>1. UNCHANGED <<design, edges, classes, registered, aspects, boot>>
  BY DEF Aspect!weaving
<1>2. DesignInv' = DesignInv
  BY <1>1 DEF DesignInv, Aspect!AppClasses, Aspect!AppModules, Aspect!Range
<1>3. RegisteredInv' = RegisteredInv
  BY <1>1 DEF RegisteredInv, Aspect!Range
<1>4. EdgesInv' = EdgesInv
  BY <1>1 DEF EdgesInv, Aspect!Range, Aspect!Pairs, Aspect!Cuts, Aspect!Points,
             Aspect!AppClasses, Aspect!AppModules
<1>5. AspectsInv' = AspectsInv
  BY <1>1 DEF AspectsInv, Aspect!Range, Aspect!Declared, Aspect!Cuts, Aspect!Points,
             Aspect!AppClasses, Aspect!AppModules
<1> QED BY <1>1, <1>2, <1>3, <1>4, <1>5 DEF WeavingInv

\* The counts that a step of the call does not touch stay.
LEMMA CallBegins ==
  ASSUME WeavingInv, CallInv, NEW c \in Aspect!AppClasses, Aspect!Call(c) PROVE CallInv'
<1>1. /\ boot = "up" /\ at = "idle" /\ aspects[c] # <<>> /\ class' = c /\ at' = "beforeCall" /\ i' = 1
      /\ UNCHANGED <<args, called, outcome, heard, throws>> /\ UNCHANGED Aspect!weaving
  BY DEF Aspect!Call, Aspect!Goes
<1>2. UNCHANGED <<aspects, boot>>
  BY <1>1, WeavingStays
<1>3. heard = <<>> /\ called = None /\ args = 0
  BY <1>1 DEF CallInv, PhaseInv
<1>4. aspects[c] \in Seq(DOMAIN design.crosscuts)
  BY <1>1 DEF WeavingInv, DesignInv, AspectsInv
<1>5. Aspect!N' \in Nat \ {0}
  <2>1. Aspect!N' = Len(aspects[c])
    BY <1>1, <1>2 DEF Aspect!N
  <2> QED BY <1>1, <1>4, <2>1
<1>6. PhaseInv'
  BY <1>1, <1>3, <1>5, NothingIsHeard DEF PhaseInv
<1>7. ArgsInv'
  BY <1>1 DEF CallInv, ArgsInv
<1>8. CalledInv'
  BY <1>1, <1>2, <1>5 DEF CallInv, CalledInv
<1> QED BY <1>6, <1>7, <1>8 DEF CallInv

LEMMA BeforeCallKeeps ==
  ASSUME WeavingInv, CallInv, Aspect!BeforeCall PROVE CallInv'
<1>1. /\ at = "beforeCall" /\ UNCHANGED <<class, called>> /\ UNCHANGED Aspect!weaving
  BY DEF Aspect!BeforeCall
<1>2. UNCHANGED <<aspects, boot>> /\ Aspect!N' = Aspect!N
  BY <1>1, WeavingStays DEF Aspect!N
<1>3. /\ Aspect!N \in Nat \ {0} /\ boot = "up" /\ i \in 1 .. Aspect!N /\ i \in Nat
      /\ Times(heard, "beforeCall") = i - 1 /\ Times(heard, "beforeCall") + 1 = i
      /\ Places(heard, "around") = {} /\ called = None /\ throws \in Nat
      /\ heard \in Hearings
      /\ Times(heard, "afterReturn") = 0 /\ Times(heard, "afterThrow") = 0
      /\ Times(heard, "afterFinally") = 0
  BY <1>1 DEF CallInv, PhaseInv, CalledInv
<1>4. CASE Aspect!Hear("beforeCall") /\ UNCHANGED args
  <2>1. /\ heard' \in Hearings /\ ArgsInv'
        /\ \A h \in FramingHooks : Turns(heard', h)
        /\ \A h : h # "beforeCall" => /\ Places(heard', h) = Places(heard, h)
                                      /\ Times(heard', h) = Times(heard, h)
        /\ Times(heard', "beforeCall") = i
    <3>1. "beforeCall" \in Hooks /\ "beforeCall" # "replaces"
      BY DEF Hooks
    <3> QED BY <1>1, <1>3, <1>4, <3>1, HearKeeps
  <2>2. CASE /\ IF i < Aspect!N THEN Aspect!Goes("beforeCall", i + 1) ELSE Aspect!Goes("around", 1)
             /\ UNCHANGED <<throws, outcome>>
    <3>1. PhaseInv'
      BY <1>1, <1>2, <1>3, <2>1, <2>2 DEF PhaseInv, Aspect!Goes
    <3>2. CalledInv'
      BY <1>1, <1>2, <1>3, <2>1, <2>2 DEF CallInv, CalledInv
    <3> QED BY <2>1, <3>1, <3>2 DEF CallInv
  <2>3. CASE Aspect!Throws /\ outcome' = "error" /\ Aspect!Goes("done", 0)
    <3>1. PhaseInv'
      BY <1>1, <1>2, <1>3, <2>1, <2>3 DEF PhaseInv, Aspect!Goes
    <3>2. CalledInv'
      BY <1>1, <1>2, <1>3, <2>1, <2>3 DEF CallInv, CalledInv, Aspect!Throws
    <3> QED BY <2>1, <3>1, <3>2 DEF CallInv
  <2>4. \/ /\ IF i < Aspect!N THEN Aspect!Goes("beforeCall", i + 1) ELSE Aspect!Goes("around", 1)
           /\ UNCHANGED <<throws, outcome>>
        \/ Aspect!Throws /\ outcome' = "error" /\ Aspect!Goes("done", 0)
        \/ heard' = heard \o <<<<"beforeCall", i>>, <<"replaces", i>>>>
    BY DEF Aspect!BeforeCall
  <2>5. heard' # heard \o <<<<"beforeCall", i>>, <<"replaces", i>>>>
    <3>1. Len(heard') = Len(heard) + 1 /\ Len(heard) \in Nat
      BY <1>3, <1>4 DEF Aspect!Hear, Hearings
    <3>2. Len(heard \o <<<<"beforeCall", i>>, <<"replaces", i>>>>) = Len(heard) + 2
      BY <1>3 DEF Hearings
    <3> QED BY <3>1, <3>2
  <2> QED BY <2>2, <2>3, <2>4, <2>5
<1>5. CASE /\ heard' = heard \o <<<<"beforeCall", i>>, <<"replaces", i>>>> /\ args' = i
           /\ IF i < Aspect!N THEN Aspect!Goes("beforeCall", i + 1) ELSE Aspect!Goes("around", 1)
           /\ UNCHANGED <<throws, outcome>>
  <2>1. PICK u : u = Append(heard, <<"beforeCall", i>>)
    OBVIOUS
  <2>2. heard' = Append(u, <<"replaces", i>>)
    <3>1. heard \o <<<<"beforeCall", i>>, <<"replaces", i>>>> =
            Append(Append(heard, <<"beforeCall", i>>), <<"replaces", i>>)
      <4> DEFINE Z == Hooks \X Nat
      <4>1. heard \in Seq(Z) /\ <<"beforeCall", i>> \in Z /\ <<"replaces", i>> \in Z
        BY <1>3 DEF Hearings, Hooks
      <4> HIDE DEF Z
      <4> QED BY <4>1, AppendTwice
    <3> QED BY <1>5, <2>1, <3>1
  <2>9. {"beforeCall", "replaces"} \subseteq Hooks
    BY DEF Hooks
  <2>3. HearsOne(heard, u, "beforeCall", i)
    BY <1>3, <2>1, <2>9, OneIsHeard
  <2>4. HearsOne(u, heard', "replaces", i)
    <3>1. u \in Hearings
      BY <2>3 DEF HearsOne
    <3> QED BY <1>3, <2>2, <2>9, <3>1, OneIsHeard
  <2>5. /\ heard' \in Hearings
        /\ \A h \in FramingHooks : Turns(heard', h)
        /\ \A h : h \notin {"beforeCall", "replaces"} =>
             Places(heard', h) = Places(heard, h) /\ Times(heard', h) = Times(heard, h)
        /\ Times(heard', "beforeCall") = i
    <3>1. \A h \in FramingHooks : Turns(u, h)
      BY <1>3, <2>3 DEF HearsOne, CallInv, CalledInv
    <3> QED BY <1>3, <2>3, <2>4, <3>1 DEF HearsOne, FramingHooks
  <2>6. PhaseInv'
    <3>1. \/ i < Aspect!N /\ at' = "beforeCall" /\ i' = i + 1
          \/ at' = "around" /\ i' = 1
      BY <1>5 DEF Aspect!Goes
    <3>2. /\ Times(heard', "afterReturn") = 0 /\ Times(heard', "afterThrow") = 0
          /\ Times(heard', "afterFinally") = 0 /\ Places(heard', "around") = {}
      BY <1>3, <2>5
    <3> QED BY <1>1, <1>2, <1>3, <2>5, <3>1, <3>2 DEF PhaseInv
  <2>7. CalledInv'
    BY <1>1, <1>2, <1>3, <1>5, <2>5 DEF CallInv, CalledInv
  <2>8. ArgsInv'
    <3> DEFINE k == Len(u) + 1
    <3>1. /\ Places(heard', "replaces") = Places(u, "replaces") \cup {k}
          /\ heard'[k] = <<"replaces", i>>
      BY <2>4 DEF HearsOne
    <3>2. u \in Hearings
      BY <2>3 DEF HearsOne
    <3>3. Places(u, "replaces") \in SUBSET (1 .. Len(u)) /\ Len(u) \in Nat
      BY <3>2, PlacesAreFinite
    <3>4. \A j \in 1 .. Len(u) : j <= k
      BY <3>3
    <3>5. heard'[k][2] = i /\ k <= k
      BY <3>1, <3>3
    <3> HIDE DEF k
    <3> QED BY <1>1, <1>3, <1>5, <3>1, <3>3, <3>4, <3>5 DEF ArgsInv
  <2> QED BY <2>6, <2>7, <2>8 DEF CallInv
<1> QED BY <1>4, <1>5 DEF Aspect!BeforeCall, Aspect!ArgsOf

LEMMA AroundKeeps ==
  ASSUME WeavingInv, CallInv, Aspect!Around \/ Aspect!Method \/ Aspect!Back \/ Aspect!Executed
  PROVE  CallInv'
<1>1. UNCHANGED <<class, args>> /\ UNCHANGED Aspect!weaving /\ at \in {"around", "back"}
  BY DEF Aspect!Around, Aspect!Method, Aspect!Back, Aspect!Executed
<1>2. UNCHANGED <<aspects, boot>> /\ Aspect!N' = Aspect!N
  BY <1>1, WeavingStays DEF Aspect!N
<1>3. /\ Aspect!N \in Nat \ {0} /\ boot = "up" /\ throws \in Nat /\ heard \in Hearings
      /\ Times(heard, "afterReturn") = 0 /\ Times(heard, "afterThrow") = 0
      /\ Times(heard, "afterFinally") = 0
      /\ at = "around" => i \in 1 .. Aspect!N + 1
      /\ at = "back" => i \in 0 .. Aspect!N
      /\ \A h \in FramingHooks : Turns(heard, h)
      /\ i \in Nat
  BY <1>1 DEF CallInv, PhaseInv, CalledInv
<1>4. CASE Aspect!Around
  <2>1. at = "around" /\ i <= Aspect!N /\ Aspect!Hear("around") /\ UNCHANGED called
    BY <1>4 DEF Aspect!Around
  <2>2. /\ heard' \in Hearings /\ ArgsInv'
        /\ \A h \in FramingHooks : Turns(heard', h)
        /\ \A h : h # "around" => /\ Places(heard', h) = Places(heard, h)
                                  /\ Times(heard', h) = Times(heard, h)
    <3>1. "around" \in Hooks /\ "around" \notin FramingHooks
      BY DEF Hooks, FramingHooks
    <3> QED BY <1>1, <1>3, <2>1, <3>1, HearKeeps
  <2>3. \/ at' = "around" /\ i' = i + 1 /\ UNCHANGED <<throws, outcome>>
        \/ outcome' = "value" /\ at' = "back" /\ i' = i - 1 /\ UNCHANGED throws
        \/ throws' = throws + 1 /\ outcome' = "error" /\ at' = "back" /\ i' = i - 1
    BY <1>4 DEF Aspect!Around, Aspect!Goes, Aspect!Throws
  <2>4. PhaseInv'
    BY <1>2, <1>3, <2>1, <2>2, <2>3 DEF PhaseInv
  <2>5. CalledInv'
    BY <1>2, <1>3, <2>1, <2>2, <2>3 DEF CallInv, CalledInv
  <2> QED BY <2>2, <2>4, <2>5 DEF CallInv
<1>5. CASE Aspect!Method
  <2>1. /\ at = "around" /\ i = Aspect!N + 1 /\ called' = args /\ UNCHANGED heard
        /\ at' = "back" /\ i' = Aspect!N
        /\ \/ outcome' = "value" /\ UNCHANGED throws
           \/ throws' = throws + 1 /\ outcome' = "error"
    BY <1>5 DEF Aspect!Method, Aspect!Goes, Aspect!Throws
  <2>2. PhaseInv'
    BY <1>2, <1>3, <2>1 DEF PhaseInv
  <2>3. CalledInv'
    BY <1>2, <1>3, <2>1 DEF CallInv, CalledInv
  <2>4. ArgsInv'
    BY <1>1, <2>1 DEF CallInv, ArgsInv
  <2> QED BY <2>2, <2>3, <2>4 DEF CallInv
<1>6. CASE Aspect!Back
  <2>1. /\ at = "back" /\ i > 0 /\ UNCHANGED <<called, heard>> /\ at' = "back" /\ i' = i - 1
        /\ \/ outcome' \in {outcome, "value"} /\ UNCHANGED throws
           \/ throws' = throws + 1 /\ outcome' = "error"
    BY <1>6 DEF Aspect!Back, Aspect!Goes, Aspect!Throws
  <2>2. PhaseInv'
    BY <1>2, <1>3, <2>1 DEF PhaseInv
  <2>3. CalledInv'
    BY <1>2, <1>3, <2>1 DEF CallInv, CalledInv
  <2>4. ArgsInv'
    BY <1>1, <2>1 DEF CallInv, ArgsInv
  <2> QED BY <2>2, <2>3, <2>4 DEF CallInv
<1>7. CASE Aspect!Executed
  <2>1. /\ UNCHANGED <<called, heard, outcome, throws>>
        /\ at' \in {"afterReturn", "afterThrow"} /\ i' = 1
    BY <1>7 DEF Aspect!Executed, Aspect!Goes
  <2>2. PhaseInv'
    BY <1>2, <1>3, <2>1 DEF PhaseInv
  <2>3. CalledInv'
    BY <1>1, <1>2, <1>3, <2>1 DEF CallInv, CalledInv
  <2>4. ArgsInv'
    BY <1>1, <2>1 DEF CallInv, ArgsInv
  <2> QED BY <2>2, <2>3, <2>4 DEF CallInv
<1> QED BY <1>4, <1>5, <1>6, <1>7

LEMMA AfterKeeps ==
  ASSUME WeavingInv, CallInv, Aspect!After \/ Aspect!AfterFinally
  PROVE  CallInv'
<1>1. /\ UNCHANGED <<class, args, called>> /\ UNCHANGED Aspect!weaving
      /\ at \in {"afterReturn", "afterThrow", "afterFinally"} /\ Aspect!Hear(at)
  BY DEF Aspect!After, Aspect!AfterFinally
<1>2. UNCHANGED <<aspects, boot>> /\ Aspect!N' = Aspect!N
  BY <1>1, WeavingStays DEF Aspect!N
<1>3. /\ Aspect!N \in Nat \ {0} /\ boot = "up" /\ throws \in Nat /\ heard \in Hearings
      /\ i \in 1 .. Aspect!N /\ i \in Nat /\ Times(heard, at) + 1 = i
      /\ at = "afterReturn" => Times(heard, "afterThrow") = 0
      /\ at # "afterFinally" => Times(heard, "afterFinally") = 0
  BY <1>1 DEF CallInv, PhaseInv, CalledInv
<1>4. /\ heard' \in Hearings /\ ArgsInv'
      /\ \A h \in FramingHooks : Turns(heard', h)
      /\ \A h : h # at => /\ Places(heard', h) = Places(heard, h)
                          /\ Times(heard', h) = Times(heard, h)
      /\ Times(heard', at) = i /\ Places(heard', at) # {}
  <2>1. at \in Hooks /\ at # "replaces"
    BY <1>1 DEF Hooks
  <2> QED BY <1>1, <1>3, <2>1, HearKeeps
<1>5. \/ i < Aspect!N /\ at' = at /\ i' = i + 1 /\ UNCHANGED <<throws, outcome>>
      \/ /\ ~(i < Aspect!N) /\ at # "afterFinally" /\ at' = "afterFinally" /\ i' = 1
         /\ UNCHANGED <<throws, outcome>>
      \/ /\ ~(i < Aspect!N) /\ at = "afterFinally" /\ at' = "done" /\ i' = 0
         /\ UNCHANGED <<throws, outcome>>
      \/ /\ throws' = throws + 1 /\ outcome' = "error"
         /\ \/ at = "afterReturn" /\ at' = "afterThrow" /\ i' = 1
            \/ at = "afterThrow" /\ at' = "afterFinally" /\ i' = 1
            \/ at = "afterFinally" /\ at' = "done" /\ i' = 0
  BY DEF Aspect!After, Aspect!AfterFinally, Aspect!Goes, Aspect!Throws, Aspect!Thrown
<1>6. PhaseInv'
  BY <1>1, <1>2, <1>3, <1>4, <1>5 DEF PhaseInv
<1>7. CalledInv'
  BY <1>1, <1>2, <1>3, <1>4, <1>5 DEF CallInv, CalledInv
<1> QED BY <1>4, <1>6, <1>7 DEF CallInv

LEMMA NextAspect ==
  ASSUME WeavingInv, CallInv, [Aspect!Next]_(Aspect!vars) PROVE WeavingInv' /\ CallInv'
<1>1. CASE UNCHANGED Aspect!vars \/ (UNCHANGED Aspect!calling /\ boot # "up" /\ WeavingInv')
  <2>1. WeavingInv'
    BY <1>1, WeavingStays DEF Aspect!vars
  <2>2. UNCHANGED <<at, i, class, args, called, outcome, heard, throws>>
    BY <1>1 DEF Aspect!vars, Aspect!calling
  <2>3. /\ PhaseInv /\ ArgsInv /\ CalledInv
        /\ \/ at = "idle"
           \/ UNCHANGED <<boot, aspects>>
    BY <1>1 DEF CallInv, CalledInv, Aspect!vars, Aspect!weaving
  <2>4. at = "idle" \/ Aspect!N' = Aspect!N
    BY <2>2, <2>3 DEF Aspect!N
  <2>5. PhaseInv'
    <3>1. CASE at = "idle"
      BY <2>2, <2>3, <3>1 DEF PhaseInv
    <3>2. CASE Aspect!N' = Aspect!N
      BY <2>2, <2>3, <3>2 DEF PhaseInv
    <3> QED BY <2>4, <3>1, <3>2
  <2>6. ArgsInv'
    BY <2>2, <2>3 DEF ArgsInv
  <2>7. CalledInv'
    BY <2>2, <2>3, <2>4 DEF CalledInv
  <2> QED BY <2>1, <2>5, <2>6, <2>7 DEF CallInv
<1>2. CASE Aspect!BuildHooks
  <2>1. WeavingInv' /\ UNCHANGED Aspect!calling /\ boot # "up"
    BY <1>2, HooksBuilt DEF Aspect!BuildHooks, Aspect!calling
  <2> QED BY <1>1, <2>1
<1>3. ASSUME NEW m \in Aspect!AppModules, Aspect!CreateUnit(m) PROVE WeavingInv' /\ CallInv'
  <2>1. WeavingInv' /\ UNCHANGED Aspect!calling /\ boot # "up"
    BY <1>3, UnitCreated DEF Aspect!CreateUnit, Aspect!calling
  <2> QED BY <1>1, <2>1
<1>4. ASSUME NEW c \in Aspect!AppClasses, Aspect!Call(c) PROVE WeavingInv' /\ CallInv'
  <2>1. UNCHANGED Aspect!weaving
    BY <1>4 DEF Aspect!Call
  <2> QED BY <1>4, <2>1, CallBegins, WeavingStays
<1>5. CASE Aspect!BeforeCall
  <2>1. UNCHANGED Aspect!weaving
    BY <1>5 DEF Aspect!BeforeCall
  <2> QED BY <1>5, <2>1, BeforeCallKeeps, WeavingStays
<1>6. CASE Aspect!Around \/ Aspect!Method \/ Aspect!Back \/ Aspect!Executed
  <2>1. UNCHANGED Aspect!weaving
    BY <1>6 DEF Aspect!Around, Aspect!Method, Aspect!Back, Aspect!Executed
  <2> QED BY <1>6, <2>1, AroundKeeps, WeavingStays
<1>7. CASE Aspect!After \/ Aspect!AfterFinally
  <2>1. UNCHANGED Aspect!weaving
    BY <1>7 DEF Aspect!After, Aspect!AfterFinally
  <2> QED BY <1>7, <2>1, AfterKeeps, WeavingStays
<1> QED BY <1>1, <1>2, <1>3, <1>4, <1>5, <1>6, <1>7 DEF Aspect!Next

LEMMA AspectHolds ==
  ASSUME WeavingInv, CallInv PROVE Aspect!WovenAsDeclared /\ Aspect!CallIsFramed
<1>1. Aspect!WovenAsDeclared
  <2>1. ASSUME boot = "up", NEW c \in Aspect!AppClasses
        PROVE  Aspect!Range(aspects[c]) = Aspect!Declared(c)
    <3>1. design.home[c] \in Aspect!AppModules
      BY AspectCounts DEF Aspect!AppModules, Aspect!AppClasses
    <3> QED BY <2>1, <3>1 DEF WeavingInv, AspectsInv
  <2> QED BY <2>1 DEF WeavingInv, AspectsInv, Aspect!WovenAsDeclared
<1>2. \A hook \in FramingHooks : Aspect!InTurn(hook)
  BY HeardIsPlaces DEF CallInv, CalledInv
<1>3. ASSUME called # None, Places(heard, "replaces") # {}
      PROVE  called = Aspect!LastOf("replaces")
  <2>1. PICK k \in Places(heard, "replaces") :
          (\A j \in Places(heard, "replaces") : j <= k) /\ called = heard[k][2]
    BY <1>3 DEF CallInv, ArgsInv
  <2>2. \A j \in Places(heard, "replaces") : j \in Nat
    <3>1. heard \in Hearings
      BY DEF CallInv, CalledInv
    <3>2. Places(heard, "replaces") \in SUBSET (1 .. Len(heard)) /\ Len(heard) \in Nat
      BY <3>1, PlacesAreFinite
    <3>3. \A j \in 1 .. Len(heard) : j \in Nat
      BY <3>2
    <3> QED BY <3>2, <3>3
  <2>3. \A m \in Places(heard, "replaces") :
          (\A j \in Places(heard, "replaces") : j <= m) => m = k
    BY <2>1, <2>2
  <2>4. k = CHOOSE m \in Places(heard, "replaces") :
              \A j \in Places(heard, "replaces") : j <= m
    BY <2>1, <2>3
  <2> QED BY <2>1, <2>4, HeardIsPlaces DEF Aspect!LastOf
<1>4. ASSUME called # None, Places(heard, "replaces") = {} PROVE called = 0
  BY <1>4 DEF CallInv, ArgsInv
<1>5. outcome = "error" => throws > 0
  BY DEF CallInv, CalledInv
<1>6. at = "done" /\ Places(heard, "around") # {} =>
        \/ Times(heard, "afterFinally") = Aspect!N
        \/ outcome = "error" /\ Places(heard, "afterFinally") # {}
  BY DEF CallInv, PhaseInv
<1>7. Aspect!CallIsFramed
  BY <1>2, <1>3, <1>4, <1>5, <1>6, HeardIsPlaces, AspectCounts
     DEF Aspect!CallIsFramed, FramingHooks, Times
<1> QED BY <1>1, <1>7

-----------------------------------------------------------------------------
(* What is in a sequence, and what is in it once *)

IsIn(s, q) == \E k \in DOMAIN s : s[k] = q
IsOnce(s, q) == \E k \in DOMAIN s : s[k] = q /\ \A j \in DOMAIN s : s[j] = q => j = k

LEMMA InAppended ==
  ASSUME NEW Z, NEW s \in Seq(Z), NEW e \in Z
  PROVE  /\ Append(s, e) \in Seq(Z)
         /\ \A q : q # e => /\ IsIn(Append(s, e), q) <=> IsIn(s, q)
                            /\ IsOnce(s, q) => IsOnce(Append(s, e), q)
         /\ IsIn(Append(s, e), e) /\ (~IsIn(s, e) => IsOnce(Append(s, e), e))
<1>1. PICK u : u = Append(s, e)
  OBVIOUS
<1>2. /\ u \in Seq(Z) /\ Len(u) = Len(s) + 1 /\ u[Len(s) + 1] = e
      /\ \A k \in 1 .. Len(s) : u[k] = s[k]
  BY <1>1, Appended2
<1>3. Len(s) \in Nat /\ DOMAIN s = 1 .. Len(s) /\ DOMAIN u = 1 .. Len(s) + 1
  BY <1>2
<1>4. \A k : k \in DOMAIN u <=> k \in DOMAIN s \/ k = Len(s) + 1
  BY <1>3
<1>5. Len(s) + 1 \notin DOMAIN s /\ \A k \in DOMAIN s : u[k] = s[k]
  BY <1>2, <1>3
<1> DEFINE end == Len(s) + 1
<1> HIDE DEF end
<1>6. /\ \A k : k \in DOMAIN u <=> k \in DOMAIN s \/ k = end
      /\ end \notin DOMAIN s /\ u[end] = e
  BY <1>2, <1>4, <1>5 DEF end
<1>7. ASSUME NEW q, q # e
      PROVE  (IsIn(u, q) <=> IsIn(s, q)) /\ (IsOnce(s, q) => IsOnce(u, q))
  <2>1. IsIn(u, q) <=> IsIn(s, q)
    BY <1>5, <1>6, <1>7 DEF IsIn
  <2>2. ASSUME IsOnce(s, q) PROVE IsOnce(u, q)
    <3>1. PICK k \in DOMAIN s : s[k] = q /\ \A j \in DOMAIN s : s[j] = q => j = k
      BY <2>2 DEF IsOnce
    <3>2. k \in DOMAIN u /\ u[k] = q /\ \A j \in DOMAIN u : u[j] = q => j = k
      BY <1>5, <1>6, <1>7, <3>1
    <3> QED BY <3>2 DEF IsOnce
  <2> QED BY <2>1, <2>2
<1>8. IsIn(u, e)
  BY <1>6 DEF IsIn
<1>9. ASSUME ~IsIn(s, e) PROVE IsOnce(u, e)
  <2>1. \A j \in DOMAIN u : u[j] = e => j = end
    BY <1>5, <1>6, <1>9 DEF IsIn
  <2> QED BY <1>6, <2>1 DEF IsOnce
<1> QED BY <1>1, <1>2, <1>7, <1>8, <1>9

LEMMA InJoined ==
  ASSUME NEW Z, NEW s \in Seq(Z), NEW t \in Seq(Z)
  PROVE  /\ s \o t \in Seq(Z)
         /\ \A q : /\ IsIn(s \o t, q) <=> IsIn(s, q) \/ IsIn(t, q)
                   /\ IsOnce(s, q) /\ ~IsIn(t, q) => IsOnce(s \o t, q)
                   /\ ~IsIn(s, q) /\ IsOnce(t, q) => IsOnce(s \o t, q)
<1>1. PICK u : u = s \o t
  OBVIOUS
<1>2. /\ u \in Seq(Z) /\ Len(u) = Len(s) + Len(t)
      /\ \A k \in 1 .. Len(s) : u[k] = s[k]
      /\ \A k \in 1 .. Len(t) : u[Len(s) + k] = t[k]
  BY <1>1, Concatenated
<1>3. /\ Len(s) \in Nat /\ DOMAIN s = 1 .. Len(s) /\ Len(t) \in Nat /\ DOMAIN t = 1 .. Len(t)
      /\ DOMAIN u = 1 .. Len(u)
  BY <1>2
<1> DEFINE Of(k) == Len(s) + k
<1>4. /\ \A k \in DOMAIN s : k \in DOMAIN u /\ u[k] = s[k]
      /\ \A k \in DOMAIN t : Of(k) \in DOMAIN u /\ u[Of(k)] = t[k] /\ Of(k) \notin DOMAIN s
  BY <1>2, <1>3
<1>5. ASSUME NEW k \in DOMAIN u PROVE k \in DOMAIN s \/ \E j \in DOMAIN t : k = Of(j)
  <2>1. CASE k <= Len(s)
    BY <1>2, <1>3, <2>1
  <2>2. CASE k > Len(s)
    <3>1. k - Len(s) \in DOMAIN t /\ k = Of(k - Len(s))
      BY <1>2, <1>3, <2>2
    <3> QED BY <3>1
  <2> QED BY <1>2, <1>3, <2>1, <2>2
<1> HIDE DEF Of
<1>6. \A q : IsIn(u, q) <=> IsIn(s, q) \/ IsIn(t, q)
  BY <1>4, <1>5 DEF IsIn
<1>7. ASSUME NEW q, IsOnce(s, q), ~IsIn(t, q) PROVE IsOnce(u, q)
  <2>1. PICK k \in DOMAIN s : s[k] = q /\ \A j \in DOMAIN s : s[j] = q => j = k
    BY <1>7 DEF IsOnce
  <2>2. \A j \in DOMAIN u : u[j] = q => j = k
    BY <1>4, <1>5, <1>7, <2>1 DEF IsIn
  <2> QED BY <1>4, <2>1, <2>2 DEF IsOnce
<1>8. ASSUME NEW q, ~IsIn(s, q), IsOnce(t, q) PROVE IsOnce(u, q)
  <2>1. PICK k \in DOMAIN t : t[k] = q /\ \A j \in DOMAIN t : t[j] = q => j = k
    BY <1>8 DEF IsOnce
  <2>2. \A j \in DOMAIN u : u[j] = q => j = Of(k)
    BY <1>4, <1>5, <1>8, <2>1 DEF IsIn
  <2> QED BY <1>4, <2>1, <2>2 DEF IsOnce
<1> QED BY <1>1, <1>2, <1>6, <1>7, <1>8

LEMMA InEmpty == \A q : ~IsIn(<<>>, q)
BY DEF IsIn

\* A finite set as a sequence has each element once.
LEMMA InSequence ==
  ASSUME NEW S, IsFiniteSet(S)
  PROVE  /\ Language!SetToSeq(S) \in Seq(S)
         /\ \A q \in S : IsOnce(Language!SetToSeq(S), q)
         /\ \A q : q \notin S => ~IsIn(Language!SetToSeq(S), q)
<1> DEFINE D == 1 .. Cardinality(S)
<1>1. Cardinality(S) \in Nat /\ ExistsBijection(D, S)
  BY FS_CardinalityType
<1>2. PICK f \in [D -> S] : f \in Bijection(D, S)
  BY <1>1 DEF ExistsBijection, Bijection, Injection
<1>3. \A a, b \in DOMAIN f : f[a] = f[b] => a = b
  BY <1>2 DEF Bijection, Injection, IsInjective
<1>4. \A R : Language!Cardinality(R) = Cardinality(R)
  BY DEF Language!Cardinality, Cardinality
<1> DEFINE s == Language!SetToSeq(S)
<1>5. s \in [D -> S] /\ \A a, b \in DOMAIN s : s[a] = s[b] => a = b
  BY <1>2, <1>3, <1>4 DEF Language!SetToSeq, Language!IsInjective
<1> HIDE DEF s
<1>6. s \in Injection(D, S)
  BY <1>5 DEF Injection, IsInjective
<1>7. IsFiniteSet(D) /\ Cardinality(D) = Cardinality(S)
  BY <1>1, FS_Interval
<1>8. s \in Seq(S)
  BY <1>1, <1>5, FunctionIsSeq
<1> HIDE DEF D
<1>9. s \in Surjection(D, S)
  BY <1>6, <1>7, FS_Injection
<1>10. \A q \in S : IsOnce(s, q)
  BY <1>5, <1>9 DEF Surjection, IsOnce
<1>11. \A q : q \notin S => ~IsIn(s, q)
  BY <1>5 DEF IsIn
<1> QED BY <1>8, <1>10, <1>11 DEF s

\* Counted as the graph counts.
LEMMA OnceIsOne ==
  ASSUME NEW Z, NEW s \in Seq(Z), NEW q, NEW K, K = {k \in DOMAIN s : s[k] = q}
  PROVE  /\ IsOnce(s, q) => Cardinality(K) = 1
         /\ IsIn(s, q) => Cardinality(K) >= 1
<1>1. Len(s) \in Nat /\ DOMAIN s = 1 .. Len(s)
  OBVIOUS
<1>2. IsFiniteSet(K)
  <2>1. K \in SUBSET (1 .. Len(s)) /\ IsFiniteSet(1 .. Len(s))
    BY <1>1, FS_Interval
  <2> QED BY <2>1, FS_Subset
<1>3. Cardinality(K) \in Nat /\ (Cardinality(K) = 0 <=> K = {})
  BY <1>2, FS_CardinalityType, FS_EmptySet
<1>4. ASSUME IsOnce(s, q) PROVE Cardinality(K) = 1
  <2>1. \E k : K = {k}
    BY <1>4 DEF IsOnce
  <2> QED BY <2>1, FS_Singleton
<1>5. ASSUME IsIn(s, q) PROVE Cardinality(K) >= 1
  <2>1. K # {}
    BY <1>5 DEF IsIn
  <2> QED BY <1>3, <2>1
<1> QED BY <1>4, <1>5

-----------------------------------------------------------------------------
(* What nodes and graphs inject *)

Parts(g) == NodesOf[g] \cup EdgesOf[g]
Servers == UNION {ServersOf[n] : n \in Nodes}
Refs == Language!Protos \cup Servers \cup {"checkpoint"}

\* What the assumption of the graphs says, kind by kind.
LangFacts ==
  /\ \A A \in {Tools, Nodes, Edges, Graphs, Clients, Savers, {ChatSaver}} :
       A \subseteq Language!Protos
  /\ Tools \cap Nodes = {} /\ Tools \cap Graphs = {} /\ Nodes \cap Edges = {}
  /\ Nodes \cap Graphs = {} /\ Nodes \cap Clients = {} /\ Nodes \cap Savers = {}
  /\ Tools \cap Edges = {} /\ Tools \cap Clients = {} /\ Tools \cap Savers = {}
  /\ Edges \cap Graphs = {} /\ Edges \cap Clients = {} /\ Edges \cap Savers = {}
  /\ Graphs \cap Clients = {} /\ Graphs \cap Savers = {} /\ Clients \cap Savers = {}
  /\ ChatSaver \notin Tools \cup Nodes \cup Edges \cup Graphs \cup Clients \cup Savers
  /\ "checkpoint" \notin Language!Protos
  /\ None \notin Language!Protos /\ None \notin Calls
  /\ \A n \in Nodes : /\ ToolsOf[n] \subseteq Tools /\ IsFiniteSet(ToolsOf[n])
                      /\ ServersOf[n] \cap Language!Protos = {} /\ IsFiniteSet(ServersOf[n])
                      /\ ServersOf[n] # {} => Clients # {}
                      /\ ServersOf[n] \subseteq Servers
  /\ \A g \in Graphs : /\ NodesOf[g] \subseteq Nodes /\ EdgesOf[g] \subseteq Edges
                       /\ IsFiniteSet(Parts(g)) /\ Parts(g) \subseteq Nodes \cup Edges
  /\ \A k \in Calls : GraphOf[k] \in Graphs

LEMMA LanguageFacts == ASSUME Language!LangGraphAssumption PROVE LangFacts
<1>1. /\ \A j, k \in 1 .. 7 : j # k => Language!Kinds[j] \cap Language!Kinds[k] = {}
      /\ Language!Kinds[1] = Tools /\ Language!Kinds[2] = Nodes /\ Language!Kinds[3] = Edges
      /\ Language!Kinds[4] = Graphs /\ Language!Kinds[5] = Clients
      /\ Language!Kinds[6] = Savers /\ Language!Kinds[7] = {ChatSaver}
  BY DEF Language!LangGraphAssumption, Language!Kinds
<1>2. /\ Tools \cap Nodes = {} /\ Tools \cap Graphs = {} /\ Nodes \cap Edges = {}
      /\ Nodes \cap Graphs = {} /\ Nodes \cap Clients = {} /\ Nodes \cap Savers = {}
      /\ Tools \cap Edges = {} /\ Tools \cap Clients = {} /\ Tools \cap Savers = {}
      /\ Edges \cap Graphs = {} /\ Edges \cap Clients = {} /\ Edges \cap Savers = {}
      /\ Graphs \cap Clients = {} /\ Graphs \cap Savers = {} /\ Clients \cap Savers = {}
      /\ Tools \cap {ChatSaver} = {} /\ Nodes \cap {ChatSaver} = {}
      /\ Edges \cap {ChatSaver} = {} /\ Graphs \cap {ChatSaver} = {}
      /\ Clients \cap {ChatSaver} = {} /\ Savers \cap {ChatSaver} = {}
  BY <1>1
<1>3. \A A \in {Tools, Nodes, Edges, Graphs, Clients, Savers, {ChatSaver}} :
        A \subseteq Language!Protos
  BY DEF Language!Protos
<1>4. "checkpoint" \notin Language!Protos /\ None \notin Language!Protos \cup Calls
  BY DEF Language!LangGraphAssumption
<1>5. \A n \in Nodes : /\ ToolsOf[n] \subseteq Tools /\ IsFiniteSet(ToolsOf[n])
                       /\ ServersOf[n] \cap Language!Protos = {} /\ IsFiniteSet(ServersOf[n])
                       /\ ServersOf[n] # {} => Clients # {}
  BY DEF Language!LangGraphAssumption, Language!IsFiniteSet, IsFiniteSet
<1>6. \A n \in Nodes : ServersOf[n] \subseteq Servers
  BY DEF Servers
<1>7. \A g \in Graphs : /\ NodesOf[g] \subseteq Nodes /\ IsFiniteSet(NodesOf[g])
                        /\ EdgesOf[g] \subseteq Edges /\ IsFiniteSet(EdgesOf[g])
  BY DEF Language!LangGraphAssumption, Language!IsFiniteSet, IsFiniteSet
<1>8. \A g \in Graphs : IsFiniteSet(Parts(g)) /\ Parts(g) \subseteq Nodes \cup Edges
  BY <1>7, FS_Union DEF Parts
<1>9. \A k \in Calls : GraphOf[k] \in Graphs
  BY DEF Language!LangGraphAssumption
<1> QED BY <1>2, <1>3, <1>4, <1>5, <1>6, <1>7, <1>8, <1>9 DEF LangFacts

\* A tool is in its node, and a node or an edge in its graph, once both are there and
\* not before; a node has its servers once a client is there; and what a graph has
\* not got, it waits for.
TypesInv ==
  /\ protos \subseteq Language!Protos
  /\ injects \in [Nodes \cup Graphs -> Seq(Refs)]
  /\ DOMAIN missing = Graphs
OnceInv(n, t) ==
  IF {n, t} \subseteq protos THEN IsOnce(injects[n], t) ELSE ~IsIn(injects[n], t)
NodesInv ==
  \A n \in Nodes :
    /\ \A t \in ToolsOf[n] : OnceInv(n, t)
    /\ n \in protos /\ client # None => \A s \in ServersOf[n] : IsIn(injects[n], s)
PartsInv ==
  \A g \in Graphs : SaverOf[g] # None =>
    /\ \A p \in Parts(g) : OnceInv(g, p)
    /\ g \in protos => \A p \in Parts(g) \ protos : p \in missing[g]
ClientInv == Clients \cap protos # {} => client # None
InjectInv == TypesInv /\ NodesInv /\ PartsInv /\ ClientInv

LEMMA InitInject == ASSUME LangFacts, Language!Init PROVE InjectInv
<1>1. /\ protos = {} /\ injects = [p \in Nodes \cup Graphs |-> <<>>]
      /\ missing = [g \in Graphs |-> {}]
  BY DEF Language!Init
<1>2. <<>> \in Seq(Refs)
  OBVIOUS
<1>3. TypesInv
  BY <1>1, <1>2 DEF TypesInv
<1>4. NodesInv
  BY <1>1, InEmpty DEF NodesInv, OnceInv
<1>5. PartsInv
  BY <1>1, InEmpty DEF PartsInv, OnceInv
<1> QED BY <1>1, <1>3, <1>4, <1>5 DEF InjectInv, ClientInv

\* One more ref for some of the nodes and graphs.
LEMMA AddedTo ==
  ASSUME TypesInv, NEW P, NEW ref \in Refs
  PROVE  /\ Language!AddTo(P, ref) \in [Nodes \cup Graphs -> Seq(Refs)]
         /\ \A p \in Nodes \cup Graphs : \A q :
              p \notin P \/ q # ref =>
                /\ IsIn(Language!AddTo(P, ref)[p], q) <=> IsIn(injects[p], q)
                /\ IsOnce(injects[p], q) => IsOnce(Language!AddTo(P, ref)[p], q)
         /\ \A p \in (Nodes \cup Graphs) \cap P : ~IsIn(injects[p], ref) =>
              IsOnce(Language!AddTo(P, ref)[p], ref)
<1>1. injects \in [Nodes \cup Graphs -> Seq(Refs)]
  BY DEF TypesInv
<1> DEFINE I == Language!AddTo(P, ref)
<1>2. I = [p \in Nodes \cup Graphs |->
             IF p \in P THEN Append(injects[p], ref) ELSE injects[p]]
  BY <1>1 DEF Language!AddTo
<1> HIDE DEF I
<1>3. ASSUME NEW p \in Nodes \cup Graphs
      PROVE  /\ I[p] \in Seq(Refs)
             /\ \A q : p \notin P \/ q # ref =>
                  /\ IsIn(I[p], q) <=> IsIn(injects[p], q)
                  /\ IsOnce(injects[p], q) => IsOnce(I[p], q)
             /\ p \in P /\ ~IsIn(injects[p], ref) => IsOnce(I[p], ref)
  <2>1. injects[p] \in Seq(Refs)
    BY <1>1
  <2>2. CASE p \in P
    <3>1. I[p] = Append(injects[p], ref)
      BY <1>2, <2>2
    <3> HIDE DEF Refs
    <3> QED BY <2>1, <2>2, <3>1, InAppended
  <2>3. CASE p \notin P
    <3>1. I[p] = injects[p]
      BY <1>2, <2>3
    <3> QED BY <2>1, <2>3, <3>1
  <2> QED BY <2>2, <2>3
<1>4. I \in [Nodes \cup Graphs -> Seq(Refs)]
  BY <1>2, <1>3
<1> QED BY <1>3, <1>4 DEF I

LEMMA HasIsIn ==
  ASSUME NEW p, NEW ref PROVE Language!Has(p, ref) <=> IsIn(injects[p], ref)
BY DEF Language!Has, Language!ToSet, IsIn

\* What a step that creates p does not touch.
LEMMA OnceStays ==
  ASSUME NEW n, NEW t, NEW p, OnceInv(n, t), protos' = protos \cup {p}, n # p, t # p,
         IsIn(injects'[n], t) <=> IsIn(injects[n], t),
         IsOnce(injects[n], t) => IsOnce(injects'[n], t)
  PROVE  OnceInv(n, t)'
<1>1. {n, t} \subseteq protos' <=> {n, t} \subseteq protos
  OBVIOUS
<1> QED BY <1>1 DEF OnceInv

LEMMA ToolKeeps ==
  ASSUME LangFacts, InjectInv, NEW t \in Tools, Language!CreateTool(t) PROVE InjectInv'
<1> DEFINE P == {n \in Nodes \cap protos : t \in ToolsOf[n]}
<1>1. /\ t \notin protos /\ protos' = protos \cup {t} /\ UNCHANGED <<client, missing>>
      /\ injects' = Language!AddTo(P, t)
  BY DEF Language!CreateTool, Language!Creates
<1>2. /\ t \in Language!Protos /\ t \in Refs /\ t \notin Nodes /\ t \notin Graphs /\ t \notin Edges
      /\ t \notin Clients
  BY DEF LangFacts, Refs
<1>3. TypesInv /\ NodesInv /\ PartsInv /\ ClientInv
  BY DEF InjectInv
<1>4. /\ injects' \in [Nodes \cup Graphs -> Seq(Refs)]
      /\ \A p \in Nodes \cup Graphs : \A q : p \notin P \/ q # t =>
           /\ IsIn(injects'[p], q) <=> IsIn(injects[p], q)
           /\ IsOnce(injects[p], q) => IsOnce(injects'[p], q)
      /\ \A p \in (Nodes \cup Graphs) \cap P : ~IsIn(injects[p], t) => IsOnce(injects'[p], t)
  BY <1>1, <1>2, <1>3, AddedTo
<1>5. TypesInv'
  BY <1>1, <1>2, <1>3, <1>4 DEF TypesInv
<1>6. ASSUME NEW n \in Nodes, NEW u \in ToolsOf[n] PROVE OnceInv(n, u)'
  <2>1. OnceInv(n, u) /\ n # t
    BY <1>2, <1>3 DEF NodesInv
  <2>2. CASE u # t
    BY <1>1, <1>4, <2>1, <2>2, OnceStays
  <2>3. CASE u = t
    <3>1. ~IsIn(injects[n], t)
      BY <1>1, <2>1, <2>3 DEF OnceInv
    <3>2. CASE n \in protos
      BY <1>1, <1>4, <2>3, <3>1, <3>2 DEF OnceInv
    <3>3. CASE n \notin protos
      BY <1>1, <1>4, <2>1, <2>3, <3>1, <3>3 DEF OnceInv
    <3> QED BY <3>2, <3>3
  <2> QED BY <2>2, <2>3
<1>7. ASSUME NEW n \in Nodes, n \in protos', client' # None, NEW s \in ServersOf[n]
      PROVE  IsIn(injects'[n], s)
  <2>1. n \in protos /\ s # t
    BY <1>1, <1>2, <1>7 DEF LangFacts
  <2>2. IsIn(injects[n], s)
    BY <1>1, <1>3, <1>7, <2>1 DEF NodesInv
  <2> QED BY <1>4, <2>1, <2>2
<1>8. ASSUME NEW g \in Graphs, SaverOf[g] # None, NEW p \in Parts(g)
      PROVE  OnceInv(g, p)' /\ (g \in protos' /\ p \notin protos' => p \in missing'[g])
  <2>1. p \in Nodes \cup Edges
    BY DEF LangFacts
  <2>2. g \notin P /\ g # t /\ p # t
    BY <1>2, <2>1 DEF LangFacts
  <2>3. OnceInv(g, p)'
    BY <1>1, <1>3, <1>4, <1>8, <2>2, OnceStays DEF PartsInv
  <2> QED BY <1>1, <1>3, <1>8, <2>2, <2>3 DEF PartsInv
<1>9. NodesInv'
  BY <1>6, <1>7 DEF NodesInv
<1>10. PartsInv'
  BY <1>8 DEF PartsInv, Parts
<1>11. ClientInv'
  BY <1>1, <1>2, <1>3 DEF ClientInv
<1> QED BY <1>5, <1>9, <1>10, <1>11 DEF InjectInv

LEMMA ClientKeeps ==
  ASSUME LangFacts, InjectInv, NEW c \in Clients, Language!CreateClient(c) PROVE InjectInv'
<1>1. /\ c \notin protos /\ protos' = protos \cup {c} /\ client' = c /\ UNCHANGED missing
      /\ injects' = [p \in DOMAIN injects |->
                       IF p \in Nodes \cap protos
                       THEN injects[p] \o Language!SetToSeq(ServersOf[p]) ELSE injects[p]]
  BY DEF Language!CreateClient, Language!Creates
<1>2. /\ c \in Language!Protos /\ c # None /\ c \notin Nodes /\ c \notin Graphs /\ c \notin Tools
      /\ c \notin Edges
  BY DEF LangFacts
<1>3. TypesInv /\ NodesInv /\ PartsInv
  BY DEF InjectInv
<1>4. ASSUME NEW p \in Nodes \cup Graphs
      PROVE  /\ injects'[p] \in Seq(Refs)
             /\ \A q : q \in Language!Protos \/ p \notin Nodes =>
                         /\ IsIn(injects'[p], q) <=> IsIn(injects[p], q)
                         /\ IsOnce(injects[p], q) => IsOnce(injects'[p], q)
             /\ p \in Nodes \cap protos => \A s \in ServersOf[p] : IsIn(injects'[p], s)
  <2>1. injects[p] \in Seq(Refs) /\ DOMAIN injects = Nodes \cup Graphs
    BY <1>3 DEF TypesInv
  <2>2. CASE p \in Nodes \cap protos
    <3>1. PICK t : t = Language!SetToSeq(ServersOf[p])
      OBVIOUS
    <3>2. /\ t \in Seq(ServersOf[p]) /\ \A q \in ServersOf[p] : IsOnce(t, q)
          /\ \A q : q \notin ServersOf[p] => ~IsIn(t, q)
      BY <2>2, <3>1, InSequence DEF LangFacts
    <3>3. t \in Seq(Refs)
      <4>1. ServersOf[p] \subseteq Refs
        BY <2>2 DEF LangFacts, Refs
      <4> HIDE DEF Refs
      <4> QED BY <3>2, <4>1
    <3>4. \A q \in ServersOf[p] : IsIn(t, q)
      BY <3>2 DEF IsOnce, IsIn
    <3>5. \A q \in Language!Protos : ~IsIn(t, q)
      BY <2>2, <3>2 DEF LangFacts
    <3>6. injects'[p] = injects[p] \o t
      BY <1>1, <2>1, <2>2, <3>1
    <3> HIDE DEF Refs
    <3> QED BY <2>1, <2>2, <3>3, <3>4, <3>5, <3>6, InJoined
  <2>3. CASE p \notin Nodes \cap protos
    BY <1>1, <2>1, <2>3
  <2> QED BY <2>2, <2>3
<1>5. TypesInv'
  <2>1. injects' \in [Nodes \cup Graphs -> Seq(Refs)]
    BY <1>1, <1>3, <1>4 DEF TypesInv
  <2> QED BY <1>1, <1>2, <1>3, <2>1 DEF TypesInv
<1>6. ASSUME NEW n \in Nodes, NEW u \in ToolsOf[n] PROVE OnceInv(n, u)'
  <2>1. OnceInv(n, u) /\ n # c /\ u # c /\ u \in Language!Protos
    BY <1>2, <1>3 DEF NodesInv, LangFacts
  <2> QED BY <1>1, <1>4, <2>1, OnceStays
<1>7. ASSUME NEW n \in Nodes, n \in protos', NEW s \in ServersOf[n] PROVE IsIn(injects'[n], s)
  BY <1>1, <1>2, <1>4, <1>7
<1>8. ASSUME NEW g \in Graphs, SaverOf[g] # None, NEW p \in Parts(g)
      PROVE  OnceInv(g, p)' /\ (g \in protos' /\ p \notin protos' => p \in missing'[g])
  <2>1. p \in Nodes \cup Edges /\ g \notin Nodes
    BY DEF LangFacts
  <2>2. g # c /\ p # c
    BY <1>2, <2>1
  <2>3. OnceInv(g, p)'
    BY <1>1, <1>3, <1>4, <1>8, <2>1, <2>2, OnceStays DEF PartsInv
  <2> QED BY <1>1, <1>3, <1>8, <2>2, <2>3 DEF PartsInv
<1>9. NodesInv'
  BY <1>6, <1>7 DEF NodesInv
<1>10. PartsInv'
  BY <1>8 DEF PartsInv, Parts
<1>11. ClientInv'
  BY <1>1, <1>2 DEF ClientInv
<1> QED BY <1>5, <1>9, <1>10, <1>11 DEF InjectInv

\* A node or an edge goes to the graphs that wait for it.
LEMMA WaitersGetIt ==
  ASSUME LangFacts, InjectInv, NEW p \in Nodes \cup Edges, p \notin protos,
         protos' = protos \cup {p}, UNCHANGED missing,
         \A g \in Graphs : injects'[g] = Language!AddTo(Language!Waiting(p), p)[g]
  PROVE  PartsInv'
<1>1. p \in Refs /\ p \notin Graphs
  BY DEF LangFacts, Refs
<1>2. TypesInv /\ PartsInv
  BY DEF InjectInv
<1>3. /\ \A g \in Graphs : \A q : g \notin Language!Waiting(p) \/ q # p =>
           /\ IsIn(injects'[g], q) <=> IsIn(injects[g], q)
           /\ IsOnce(injects[g], q) => IsOnce(injects'[g], q)
      /\ \A g \in Graphs \cap Language!Waiting(p) :
           ~IsIn(injects[g], p) => IsOnce(injects'[g], p)
  <2> DEFINE P == Language!Waiting(p)
  <2> HIDE DEF P
  <2>1. /\ \A g \in Nodes \cup Graphs : \A q : g \notin P \/ q # p =>
             /\ IsIn(Language!AddTo(P, p)[g], q) <=> IsIn(injects[g], q)
             /\ IsOnce(injects[g], q) => IsOnce(Language!AddTo(P, p)[g], q)
        /\ \A g \in (Nodes \cup Graphs) \cap P :
             ~IsIn(injects[g], p) => IsOnce(Language!AddTo(P, p)[g], p)
    BY <1>1, <1>2, AddedTo
  <2>2. \A g \in Graphs : injects'[g] = Language!AddTo(P, p)[g]
    BY DEF P
  <2>3. P = Language!Waiting(p)
    BY DEF P
  <2> QED BY <2>1, <2>2, <2>3
<1>4. ASSUME NEW g \in Graphs, SaverOf[g] # None, NEW q \in Parts(g)
      PROVE  OnceInv(g, q)' /\ (g \in protos' /\ q \notin protos' => q \in missing'[g])
  <2>1. OnceInv(g, q) /\ g # p /\ (g \in protos /\ q \notin protos => q \in missing[g])
    BY <1>1, <1>2, <1>4 DEF PartsInv
  <2>2. CASE q # p
    <3>1. OnceInv(g, q)'
      BY <1>3, <2>1, <2>2, OnceStays
    <3> QED BY <2>1, <3>1
  <2>3. CASE q = p
    <3>1. ~IsIn(injects[g], p)
      BY <2>1, <2>3 DEF OnceInv
    <3>2. CASE g \in protos
      <4>1. g \in Language!Waiting(p)
        BY <2>1, <2>3, <3>1, <3>2, HasIsIn DEF Language!Waiting
      <4>2. IsOnce(injects'[g], p)
        BY <1>3, <3>1, <4>1
      <4> QED BY <2>3, <3>2, <4>2 DEF OnceInv
    <3>3. CASE g \notin protos
      <4>1. g \notin Language!Waiting(p)
        BY <3>3 DEF Language!Waiting
      <4>2. ~IsIn(injects'[g], p)
        BY <1>3, <3>1, <4>1
      <4> QED BY <2>1, <2>3, <3>3, <4>2 DEF OnceInv
    <3> QED BY <2>3, <3>2, <3>3
  <2> QED BY <2>2, <2>3
<1> QED BY <1>4 DEF PartsInv, Parts

LEMMA EdgeKeeps ==
  ASSUME LangFacts, InjectInv, NEW e \in Edges, Language!CreateEdge(e) PROVE InjectInv'
<1> DEFINE P == Language!Waiting(e)
<1>1. /\ e \notin protos /\ protos' = protos \cup {e} /\ UNCHANGED <<client, missing>>
      /\ injects' = Language!AddTo(P, e)
  BY DEF Language!CreateEdge, Language!Creates
<1>2. /\ e \in Language!Protos /\ e \in Refs /\ e \notin Nodes /\ e \notin Tools
      /\ e \notin Clients
  BY DEF LangFacts, Refs
<1>3. TypesInv /\ NodesInv /\ ClientInv
  BY DEF InjectInv
<1>4. \A n \in Nodes : n \notin P
  BY DEF Language!Waiting, LangFacts
<1> HIDE DEF P
<1>5. /\ injects' \in [Nodes \cup Graphs -> Seq(Refs)]
      /\ \A p \in Nodes : \A q :
           /\ IsIn(injects'[p], q) <=> IsIn(injects[p], q)
           /\ IsOnce(injects[p], q) => IsOnce(injects'[p], q)
  BY <1>1, <1>2, <1>3, <1>4, AddedTo
<1>6. TypesInv'
  BY <1>1, <1>2, <1>3, <1>5 DEF TypesInv
<1>7. ASSUME NEW n \in Nodes, NEW u \in ToolsOf[n] PROVE OnceInv(n, u)'
  <2>1. OnceInv(n, u) /\ n # e /\ u # e
    BY <1>2, <1>3 DEF NodesInv, LangFacts
  <2> QED BY <1>1, <1>5, <2>1, OnceStays
<1>8. ASSUME NEW n \in Nodes, n \in protos', client' # None, NEW s \in ServersOf[n]
      PROVE  IsIn(injects'[n], s)
  BY <1>1, <1>2, <1>3, <1>5, <1>8 DEF NodesInv
<1>9. NodesInv'
  BY <1>7, <1>8 DEF NodesInv
<1>10. PartsInv'
  BY <1>1, WaitersGetIt DEF P
<1>11. ClientInv'
  BY <1>1, <1>2, <1>3 DEF ClientInv
<1> QED BY <1>6, <1>9, <1>10, <1>11 DEF InjectInv

LEMMA NodeKeeps ==
  ASSUME LangFacts, InjectInv, NEW n \in Nodes, Language!CreateNode(n) PROVE InjectInv'
<1> DEFINE P == Language!Waiting(n)
           tools == Language!SetToSeq(ToolsOf[n] \cap protos)
           servers == IF client = None THEN <<>> ELSE Language!SetToSeq(ServersOf[n])
<1>1. /\ n \notin protos /\ protos' = protos \cup {n} /\ UNCHANGED <<client, missing>>
      /\ injects' = [Language!AddTo(P, n) EXCEPT ![n] = tools \o servers]
  BY DEF Language!CreateNode, Language!Creates
<1>2. /\ n \in Language!Protos /\ n \in Refs /\ n \notin Graphs /\ n \notin Tools
      /\ n \notin Clients
  BY DEF LangFacts, Refs
<1>3. TypesInv /\ NodesInv /\ ClientInv
  BY DEF InjectInv
<1>4. \A m \in Nodes : m \notin P
  BY DEF Language!Waiting, LangFacts
<1> HIDE DEF P
<1>5. /\ Language!AddTo(P, n) \in [Nodes \cup Graphs -> Seq(Refs)]
      /\ \A p \in Nodes : \A q : LET I == Language!AddTo(P, n) IN
           /\ IsIn(I[p], q) <=> IsIn(injects[p], q)
           /\ IsOnce(injects[p], q) => IsOnce(I[p], q)
  BY <1>1, <1>2, <1>3, <1>4, AddedTo
<1>6. /\ tools \in Seq(Refs)
      /\ \A q \in ToolsOf[n] \cap protos : IsOnce(tools, q)
      /\ \A q : q \notin ToolsOf[n] \cap protos => ~IsIn(tools, q)
  <2> DEFINE S == ToolsOf[n] \cap protos
  <2>1. IsFiniteSet(S) /\ S \subseteq Refs
    <3>1. IsFiniteSet(ToolsOf[n]) /\ S \in SUBSET ToolsOf[n]
      BY DEF LangFacts
    <3> QED BY <1>3, <3>1, FS_Subset DEF TypesInv, Refs
  <2> HIDE DEF S, Refs
  <2>2. /\ Language!SetToSeq(S) \in Seq(S)
        /\ \A q \in S : IsOnce(Language!SetToSeq(S), q)
        /\ \A q : q \notin S => ~IsIn(Language!SetToSeq(S), q)
    BY <2>1, InSequence
  <2>3. Language!SetToSeq(S) \in Seq(Refs)
    BY <2>1, <2>2
  <2> QED BY <2>2, <2>3 DEF S
<1>7. /\ servers \in Seq(Refs)
      /\ client # None => \A s \in ServersOf[n] : IsIn(servers, s)
      /\ \A q \in Language!Protos : ~IsIn(servers, q)
  <2>1. CASE client = None
    <3>1. servers = <<>>
      BY <2>1
    <3>2. <<>> \in Seq(Refs)
      OBVIOUS
    <3> QED BY <2>1, <3>1, <3>2, InEmpty
  <2>2. CASE client # None
    <3>1. servers = Language!SetToSeq(ServersOf[n])
      BY <2>2
    <3>2. /\ servers \in Seq(ServersOf[n]) /\ \A q \in ServersOf[n] : IsOnce(servers, q)
          /\ \A q : q \notin ServersOf[n] => ~IsIn(servers, q)
      BY <3>1, InSequence DEF LangFacts
    <3>3. servers \in Seq(Refs)
      <4>1. ServersOf[n] \subseteq Refs
        BY DEF LangFacts, Refs
      <4> HIDE DEF servers, Refs
      <4> QED BY <3>2, <4>1
    <3>4. \A q \in ServersOf[n] : IsIn(servers, q)
      BY <3>2 DEF IsOnce, IsIn
    <3>5. \A q \in Language!Protos : ~IsIn(servers, q)
      BY <3>2 DEF LangFacts
    <3> QED BY <3>3, <3>4, <3>5
  <2> QED BY <2>1, <2>2
<1> HIDE DEF tools, servers
<1>8. /\ tools \o servers \in Seq(Refs)
      /\ \A q \in ToolsOf[n] : IF q \in protos THEN IsOnce(tools \o servers, q)
                               ELSE ~IsIn(tools \o servers, q)
      /\ client # None => \A s \in ServersOf[n] : IsIn(tools \o servers, s)
  <2>1. ToolsOf[n] \subseteq Language!Protos
    BY DEF LangFacts
  <2>2. \A q \in ToolsOf[n] : ~IsIn(servers, q)
    BY <1>7, <2>1
  <2> HIDE DEF Refs
  <2> QED BY <1>6, <1>7, <2>2, InJoined
<1> PICK new : new = tools \o servers
  OBVIOUS
<1>9. /\ injects' = [Language!AddTo(P, n) EXCEPT ![n] = new] /\ new \in Seq(Refs)
      /\ \A q \in ToolsOf[n] : IF q \in protos THEN IsOnce(new, q) ELSE ~IsIn(new, q)
      /\ client # None => \A s \in ServersOf[n] : IsIn(new, s)
  BY <1>1, <1>8
<1>10. injects' \in [Nodes \cup Graphs -> Seq(Refs)] /\ injects'[n] = new
  BY <1>5, <1>9
<1>11. \A p \in Nodes \cup Graphs : p # n => injects'[p] = Language!AddTo(P, n)[p]
  BY <1>5, <1>9
<1>12. TypesInv'
  BY <1>1, <1>2, <1>3, <1>10 DEF TypesInv
<1>13. ASSUME NEW m \in Nodes, NEW u \in ToolsOf[m] PROVE OnceInv(m, u)'
  <2>1. OnceInv(m, u) /\ u # n
    BY <1>2, <1>3 DEF NodesInv, LangFacts
  <2>2. CASE m # n
    BY <1>1, <1>5, <1>11, <2>1, <2>2, OnceStays
  <2>3. CASE m = n
    <3>1. {m, u} \subseteq protos' <=> u \in protos
      BY <1>1, <2>1, <2>3
    <3> QED BY <1>9, <1>10, <2>3, <3>1 DEF OnceInv
  <2> QED BY <2>2, <2>3
<1>14. ASSUME NEW m \in Nodes, m \in protos', client' # None, NEW s \in ServersOf[m]
       PROVE  IsIn(injects'[m], s)
  <2>1. CASE m # n
    <3>1. IsIn(injects[m], s)
      BY <1>1, <1>3, <1>14, <2>1 DEF NodesInv
    <3> QED BY <1>5, <1>11, <2>1, <3>1
  <2>2. CASE m = n
    BY <1>1, <1>9, <1>10, <1>14, <2>2
  <2> QED BY <2>1, <2>2
<1>15. NodesInv'
  BY <1>13, <1>14 DEF NodesInv
<1>16. PartsInv'
  BY <1>1, <1>2, <1>11, WaitersGetIt DEF P
<1>17. ClientInv'
  BY <1>1, <1>2, <1>3 DEF ClientInv
<1> QED BY <1>12, <1>15, <1>16, <1>17 DEF InjectInv

LEMMA GraphKeeps ==
  ASSUME LangFacts, InjectInv, NEW g \in Graphs, Language!CreateGraph(g) PROVE InjectInv'
<1> DEFINE parts == Language!SetToSeq(Parts(g) \cap protos)
<1>1. /\ g \notin protos /\ protos' = protos \cup {g} /\ UNCHANGED client
      /\ \/ SaverOf[g] = None /\ UNCHANGED <<injects, missing>>
         \/ /\ SaverOf[g] # None
            /\ \E first \in {<<"checkpoint">>, <<>>} :
                 injects' = [injects EXCEPT ![g] = first \o parts]
            /\ missing' = [missing EXCEPT ![g] = Parts(g) \ protos]
  BY DEF Language!CreateGraph, Language!Creates, Parts
<1>2. /\ g \in Language!Protos /\ g \notin Nodes /\ g \notin Edges /\ g \notin Tools
      /\ g \notin Clients
  BY DEF LangFacts
<1>3. TypesInv /\ NodesInv /\ PartsInv /\ ClientInv
  BY DEF InjectInv
<1>4. /\ parts \in Seq(Refs)
      /\ \A q \in Parts(g) \cap protos : IsOnce(parts, q)
      /\ \A q : q \notin Parts(g) \cap protos => ~IsIn(parts, q)
  <2> DEFINE S == Parts(g) \cap protos
  <2>1. IsFiniteSet(S) /\ S \subseteq Refs
    <3>1. IsFiniteSet(Parts(g)) /\ S \in SUBSET Parts(g)
      BY DEF LangFacts
    <3> QED BY <1>3, <3>1, FS_Subset DEF TypesInv, Refs
  <2> HIDE DEF S, Refs
  <2>2. /\ Language!SetToSeq(S) \in Seq(S)
        /\ \A q \in S : IsOnce(Language!SetToSeq(S), q)
        /\ \A q : q \notin S => ~IsIn(Language!SetToSeq(S), q)
    BY <2>1, InSequence
  <2>3. Language!SetToSeq(S) \in Seq(Refs)
    BY <2>1, <2>2
  <2> QED BY <2>2, <2>3 DEF S
<1> HIDE DEF parts
<1>5. ASSUME NEW first \in {<<"checkpoint">>, <<>>}
      PROVE  /\ first \o parts \in Seq(Refs)
             /\ \A q \in Parts(g) : IF q \in protos THEN IsOnce(first \o parts, q)
                                    ELSE ~IsIn(first \o parts, q)
  <2>1. first \in Seq(Refs)
    <3>1. <<>> \in Seq(Refs) /\ \A r \in Refs : <<r>> \in Seq(Refs)
      OBVIOUS
    <3>2. "checkpoint" \in Refs
      BY DEF Refs
    <3> HIDE DEF Refs
    <3> QED BY <3>1, <3>2
  <2>2. \A q \in Parts(g) : ~IsIn(first, q)
    <3>1. \A q \in Parts(g) : q # "checkpoint"
      BY DEF LangFacts
    <3> QED BY <3>1 DEF IsIn
  <2> HIDE DEF Refs
  <2> QED BY <1>4, <2>1, <2>2, InJoined
<1>6. \E new \in Seq(Refs) :
        /\ \A q \in Parts(g) : IF q \in protos THEN IsOnce(new, q) ELSE ~IsIn(new, q)
        /\ \/ SaverOf[g] = None /\ UNCHANGED <<injects, missing>>
           \/ /\ SaverOf[g] # None
              /\ injects' = [injects EXCEPT ![g] = new]
              /\ missing' = [missing EXCEPT ![g] = Parts(g) \ protos]
  <2>1. CASE SaverOf[g] = None
    <3>1. <<>> \o parts \in Seq(Refs)
      BY <1>5
    <3> QED BY <1>1, <1>5, <2>1, <3>1
  <2>2. CASE SaverOf[g] # None
    BY <1>1, <1>5, <2>2
  <2> QED BY <2>1, <2>2
<1> PICK new \in Seq(Refs) :
       /\ \A q \in Parts(g) : IF q \in protos THEN IsOnce(new, q) ELSE ~IsIn(new, q)
       /\ \/ SaverOf[g] = None /\ UNCHANGED <<injects, missing>>
          \/ /\ SaverOf[g] # None
             /\ injects' = [injects EXCEPT ![g] = new]
             /\ missing' = [missing EXCEPT ![g] = Parts(g) \ protos]
  BY <1>6
<1>7. /\ injects' \in [Nodes \cup Graphs -> Seq(Refs)] /\ DOMAIN missing' = Graphs
      /\ \A p \in Nodes \cup Graphs : p # g => injects'[p] = injects[p]
      /\ \A h \in Graphs : h # g => missing'[h] = missing[h]
      /\ SaverOf[g] # None => injects'[g] = new /\ missing'[g] = Parts(g) \ protos
  BY <1>3 DEF TypesInv
<1>8. TypesInv'
  BY <1>1, <1>2, <1>3, <1>7 DEF TypesInv
<1>9. ASSUME NEW n \in Nodes, NEW u \in ToolsOf[n] PROVE OnceInv(n, u)'
  <2>1. OnceInv(n, u) /\ n # g /\ u # g
    BY <1>2, <1>3 DEF NodesInv, LangFacts
  <2> QED BY <1>1, <1>7, <2>1, OnceStays
<1>10. ASSUME NEW n \in Nodes, n \in protos', client' # None, NEW s \in ServersOf[n]
       PROVE  IsIn(injects'[n], s)
  <2>1. n # g
    BY <1>2
  <2> QED BY <1>1, <1>3, <1>7, <1>10, <2>1 DEF NodesInv
<1>11. ASSUME NEW h \in Graphs, SaverOf[h] # None, NEW p \in Parts(h)
       PROVE  OnceInv(h, p)' /\ (h \in protos' /\ p \notin protos' => p \in missing'[h])
  <2>1. OnceInv(h, p) /\ (h \in protos /\ p \notin protos => p \in missing[h])
    BY <1>3, <1>11 DEF PartsInv
  <2>2. p # g
    BY <1>2 DEF LangFacts
  <2>3. CASE h # g
    BY <1>1, <1>7, <2>1, <2>2, <2>3, OnceStays
  <2>4. CASE h = g
    <3>1. {g, p} \subseteq protos' <=> p \in protos
      BY <1>1, <2>2
    <3> QED BY <1>1, <1>7, <1>11, <2>4, <3>1 DEF OnceInv
  <2> QED BY <2>3, <2>4
<1>12. NodesInv'
  BY <1>9, <1>10 DEF NodesInv
<1>13. PartsInv'
  BY <1>11 DEF PartsInv, Parts
<1>14. ClientInv'
  BY <1>1, <1>2, <1>3 DEF ClientInv
<1> QED BY <1>8, <1>12, <1>13, <1>14 DEF InjectInv

\* A saver changes no ref but the checkpoint.
LEMMA SaverKeeps ==
  ASSUME LangFacts, InjectInv, NEW s \in Savers \cup {ChatSaver},
         Language!CreateSaver(s) \/ (s = ChatSaver /\ Language!CreateChatSaver)
  PROVE  InjectInv'
<1>1. /\ s \notin protos /\ protos' = protos \cup {s} /\ UNCHANGED <<client, missing>>
      /\ \/ UNCHANGED injects
         \/ \E P \in SUBSET Graphs : injects' = Language!AddTo(P, "checkpoint")
  <2>1. CASE Language!CreateSaver(s)
    <3>1. {g \in Graphs \cap protos : SaverOf[g] = s /\ Language!Has(g, "checkpoint")}
            \in SUBSET Graphs
      OBVIOUS
    <3> QED BY <2>1, <3>1 DEF Language!CreateSaver, Language!Creates
  <2>2. CASE s = ChatSaver /\ Language!CreateChatSaver
    BY <2>2 DEF Language!CreateChatSaver, Language!Creates
  <2> QED BY <2>1, <2>2
<1>2. /\ s \in Language!Protos /\ s \notin Nodes /\ s \notin Graphs /\ s \notin Edges
      /\ s \notin Tools /\ s \notin Clients
  BY DEF LangFacts
<1>3. TypesInv /\ NodesInv /\ PartsInv /\ ClientInv
  BY DEF InjectInv
<1>4. /\ injects' \in [Nodes \cup Graphs -> Seq(Refs)]
      /\ \A p \in Nodes \cup Graphs : \A q : p \in Nodes \/ q # "checkpoint" =>
           /\ IsIn(injects'[p], q) <=> IsIn(injects[p], q)
           /\ IsOnce(injects[p], q) => IsOnce(injects'[p], q)
  <2>1. CASE UNCHANGED injects
    BY <1>3, <2>1 DEF TypesInv
  <2>2. ASSUME NEW P \in SUBSET Graphs, injects' = Language!AddTo(P, "checkpoint")
        PROVE  /\ injects' \in [Nodes \cup Graphs -> Seq(Refs)]
               /\ \A p \in Nodes \cup Graphs : \A q : p \in Nodes \/ q # "checkpoint" =>
                    /\ IsIn(injects'[p], q) <=> IsIn(injects[p], q)
                    /\ IsOnce(injects[p], q) => IsOnce(injects'[p], q)
    <3>1. "checkpoint" \in Refs
      BY DEF Refs
    <3>2. \A p \in Nodes : p \notin P
      BY DEF LangFacts
    <3> QED BY <1>3, <2>2, <3>1, <3>2, AddedTo
  <2> QED BY <1>1, <2>1, <2>2
<1>5. TypesInv'
  BY <1>1, <1>2, <1>3, <1>4 DEF TypesInv
<1>6. ASSUME NEW n \in Nodes, NEW u \in ToolsOf[n] PROVE OnceInv(n, u)'
  <2>1. OnceInv(n, u) /\ n # s /\ u # s
    BY <1>2, <1>3 DEF NodesInv, LangFacts
  <2> QED BY <1>1, <1>4, <2>1, OnceStays
<1>7. ASSUME NEW n \in Nodes, n \in protos', client' # None, NEW r \in ServersOf[n]
      PROVE  IsIn(injects'[n], r)
  BY <1>1, <1>2, <1>3, <1>4, <1>7 DEF NodesInv
<1>8. ASSUME NEW g \in Graphs, SaverOf[g] # None, NEW p \in Parts(g)
      PROVE  OnceInv(g, p)' /\ (g \in protos' /\ p \notin protos' => p \in missing'[g])
  <2>1. OnceInv(g, p) /\ (g \in protos /\ p \notin protos => p \in missing[g])
    BY <1>3, <1>8 DEF PartsInv
  <2>2. p \in Nodes \cup Edges /\ p # "checkpoint"
    BY DEF LangFacts
  <2>3. p # s /\ g # s
    BY <1>2, <2>2
  <2> QED BY <1>1, <1>4, <2>1, <2>2, <2>3, OnceStays
<1>9. NodesInv'
  BY <1>6, <1>7 DEF NodesInv
<1>10. PartsInv'
  BY <1>8 DEF PartsInv, Parts
<1>11. ClientInv'
  BY <1>1, <1>2, <1>3 DEF ClientInv
<1> QED BY <1>5, <1>9, <1>10, <1>11 DEF InjectInv

LEMMA InjectStays == ASSUME InjectInv, UNCHANGED Language!protoVars PROVE InjectInv'
<1>1. UNCHANGED <<protos, client, injects, missing>>
  BY DEF Language!protoVars
<1> QED BY <1>1 DEF InjectInv, TypesInv, NodesInv, PartsInv, ClientInv, OnceInv

-----------------------------------------------------------------------------
(* What is compiled, and who traces a call *)

CompiledInv ==
  /\ DOMAIN bound = Nodes /\ DOMAIN compiled = Graphs
  /\ \A n \in Nodes : bound[n].state \in {"none", "error", "done"}
  /\ \A g \in Graphs : compiled[g].state = "done" =>
       /\ compiled[g].edges = EdgesOf[g] /\ compiled[g].nodes = NodesOf[g]
       /\ \A n \in NodesOf[g] : bound[n].state = "done"

\* An id that a config has is that of a call with it; a call that asks for its id has
\* put its tracer there; and a config of one call is as that call left it.
Alone(k) == \A j \in Calls \ {k} : ConfigOf[j] # ConfigOf[k]
OfIts(k, id) == id \in {j \in Calls : ConfigOf[j] = ConfigOf[k]}
CallTypes ==
  /\ config \in [{ConfigOf[k] : k \in Calls} -> [tracers : Nat, runId : Calls \cup {None}]]
  /\ call \in [Calls -> [state : {"none", "asks", "runs"}, tracers : Nat,
                         runId : Calls \cup {None}]]
CallOf(k) ==
  LET c == config[ConfigOf[k]] IN
  /\ c.runId # None => OfIts(k, c.runId)
  /\ call[k].state = "asks" => c.tracers > 0 /\ (Alone(k) => c.tracers = 1)
  /\ call[k].state = "none" /\ Alone(k) => c.tracers = 0 /\ c.runId = None
  /\ call[k].state = "runs" =>
       /\ call[k].tracers > 0 /\ OfIts(k, call[k].runId)
       /\ Alone(k) => call[k].tracers = 1 /\ call[k].runId = k
CallsInv == CallTypes /\ \A k \in Calls : CallOf(k)
LanguageInv == InjectInv /\ CompiledInv /\ CallsInv

LEMMA InitLanguage == ASSUME LangFacts, Language!Init PROVE LanguageInv
<1>1. CompiledInv
  BY DEF Language!Init, CompiledInv, Language!NotYet
<1>2. /\ config = [c \in {ConfigOf[k] : k \in Calls} |-> [tracers |-> 0, runId |-> None]]
      /\ call = [k \in Calls |-> [state |-> "none", tracers |-> 0, runId |-> None]]
  BY DEF Language!Init, Language!NoCall
<1>3. CallTypes
  BY <1>2 DEF CallTypes
<1>4. \A k \in Calls : CallOf(k)
  BY <1>2 DEF CallOf
<1> QED BY <1>1, <1>3, <1>4, InitInject DEF LanguageInv, CallsInv

LEMMA CompiledStays == ASSUME CompiledInv, UNCHANGED Language!objVars PROVE CompiledInv'
BY DEF CompiledInv, Language!objVars

LEMMA CallsStay == ASSUME CallsInv, UNCHANGED <<config, call>> PROVE CallsInv'
BY DEF CallsInv, CallTypes, CallOf, OfIts, Alone

LEMMA ObjectsKeep ==
  ASSUME LangFacts, LanguageInv,
         \/ \E n \in Nodes : Language!BindNode(n)
         \/ \E g \in Graphs : Language!Compile(g)
  PROVE  LanguageInv'
<1>1. InjectInv /\ CompiledInv /\ CallsInv
  BY DEF LanguageInv
<1>2. UNCHANGED Language!protoVars /\ UNCHANGED <<config, call>>
  BY DEF Language!BindNode, Language!Compile, Language!callVars
<1>3. ASSUME NEW n \in Nodes, Language!BindNode(n) PROVE CompiledInv'
  <2>1. /\ bound[n].state = "none" /\ UNCHANGED compiled
        /\ \E s \in {"error", "done"} : \E f :
             bound' = [bound EXCEPT ![n] = [state |-> s, fields |-> f]]
    BY <1>3 DEF Language!BindNode
  <2> QED BY <1>1, <2>1 DEF CompiledInv
<1>4. ASSUME NEW g \in Graphs, Language!Compile(g) PROVE CompiledInv'
  <2>1. /\ UNCHANGED bound /\ \A n \in NodesOf[g] : bound[n].state # "none"
        /\ \/ compiled' = [compiled EXCEPT ![g] = Language!NotYet("error")]
           \/ /\ \A n \in NodesOf[g] : bound[n].state # "error"
              /\ compiled' = [compiled EXCEPT ![g] = Language!Built(g)]
    BY <1>4 DEF Language!Compile
  <2>2. \A n \in NodesOf[g] : n \in Nodes
    BY DEF LangFacts
  <2>3. Language!NotYet("error").state # "done"
    BY DEF Language!NotYet
  <2>4. CASE compiled' = [compiled EXCEPT ![g] = Language!NotYet("error")]
    BY <1>1, <2>1, <2>3, <2>4 DEF CompiledInv
  <2>5. CASE /\ \A n \in NodesOf[g] : bound[n].state # "error"
             /\ compiled' = [compiled EXCEPT ![g] = Language!Built(g)]
    <3>1. \A n \in NodesOf[g] : bound[n].state = "done"
      BY <1>1, <2>1, <2>2, <2>5 DEF CompiledInv
    <3>2. Language!Built(g).edges = EdgesOf[g] /\ Language!Built(g).nodes = NodesOf[g]
      BY DEF Language!Built
    <3> QED BY <1>1, <2>1, <2>5, <3>1, <3>2 DEF CompiledInv
  <2> QED BY <2>1, <2>4, <2>5
<1>5. InjectInv' /\ CallsInv'
  BY <1>1, <1>2, InjectStays, CallsStay
<1> QED BY <1>3, <1>4, <1>5 DEF LanguageInv

LEMMA CallStarts == ASSUME LangFacts, CallsInv, NEW k \in Calls, Language!Start(k) PROVE CallsInv'
<1> DEFINE c == ConfigOf[k]
           n == config[c].tracers + 1
           id == config[c].runId
<1>1. /\ c \in {ConfigOf[j] : j \in Calls} /\ config[c].tracers \in Nat
      /\ id \in Calls \cup {None}
      /\ CallTypes /\ \A j \in Calls : CallOf(j)
  BY DEF CallsInv, CallTypes
<1>2. /\ DOMAIN config = {ConfigOf[j] : j \in Calls} /\ DOMAIN call = Calls
      /\ config[c] = [tracers |-> config[c].tracers, runId |-> id]
      /\ call[k].state = "none"
  BY <1>1 DEF Language!Start, CallTypes
<1>3. Language!Traced(k) = [tracers |-> n, runId |-> id]
  BY <1>1, <1>2 DEF Language!Traced
<1>4. /\ config' = [config EXCEPT ![c] = [tracers |-> n, runId |-> id]]
      /\ \/ id = None /\ call' = [call EXCEPT ![k] = [@ EXCEPT !.state = "asks"]]
         \/ /\ id # None
            /\ call' = [call EXCEPT ![k] = [state |-> "runs", tracers |-> n, runId |-> id]]
  <2>1. /\ config' = [config EXCEPT ![c] = Language!Traced(k)]
        /\ call' = [call EXCEPT ![k] =
             IF Language!Traced(k).runId = None THEN [@ EXCEPT !.state = "asks"]
             ELSE [state |-> "runs", tracers |-> Language!Traced(k).tracers,
                   runId |-> Language!Traced(k).runId]]
    BY DEF Language!Start
  <2> HIDE DEF n, id
  <2>2. Language!Traced(k).tracers = n /\ Language!Traced(k).runId = id
    BY <1>3
  <2> QED BY <1>3, <2>1, <2>2
<1>5. CallTypes'
  <2>1. config' \in [{ConfigOf[j] : j \in Calls} -> [tracers : Nat, runId : Calls \cup {None}]]
    BY <1>1, <1>4 DEF CallTypes
  <2>2. call' \in [Calls -> [state : {"none", "asks", "runs"}, tracers : Nat,
                             runId : Calls \cup {None}]]
    BY <1>1, <1>4 DEF CallTypes
  <2> QED BY <2>1, <2>2 DEF CallTypes
<1>6. /\ config'[c].tracers = n /\ config'[c].runId = id
      /\ \A d \in {ConfigOf[j] : j \in Calls} : d # c => config'[d] = config[d]
      /\ \A j \in Calls : j # k => call'[j] = call[j]
      /\ \/ id = None /\ call'[k].state = "asks"
         \/ /\ id # None /\ call'[k].state = "runs"
            /\ call'[k].tracers = n /\ call'[k].runId = id
  <2>1. [call[k] EXCEPT !.state = "asks"].state = "asks"
    BY <1>1 DEF CallTypes
  <2> HIDE DEF n, id
  <2>2. /\ config'[c] = [tracers |-> n, runId |-> id]
        /\ \A d \in {ConfigOf[j] : j \in Calls} : d # c => config'[d] = config[d]
    BY <1>1, <1>2, <1>4
  <2>3. config'[c].tracers = n /\ config'[c].runId = id
    BY <2>2
  <2>4. \A j \in Calls : j # k => call'[j] = call[j]
    BY <1>2, <1>4
  <2>5. \/ id = None /\ call'[k] = [call[k] EXCEPT !.state = "asks"]
        \/ id # None /\ call'[k] = [state |-> "runs", tracers |-> n, runId |-> id]
    BY <1>2, <1>4
  <2>6. CASE id = None /\ call'[k] = [call[k] EXCEPT !.state = "asks"]
    <3>1. call'[k].state = "asks"
      BY <2>1, <2>6
    <3> QED BY <2>2, <2>3, <2>4, <2>6, <3>1
  <2>7. CASE id # None /\ call'[k] = [state |-> "runs", tracers |-> n, runId |-> id]
    <3>1. call'[k].state = "runs" /\ call'[k].tracers = n /\ call'[k].runId = id
      BY <2>7
    <3> QED BY <2>2, <2>3, <2>4, <2>7, <3>1
  <2> QED BY <2>5, <2>6, <2>7
<1>7. n > 0 /\ n \in Nat
  BY <1>1
<1>8. ASSUME NEW j \in Calls, j # k PROVE CallOf(j)'
  <2>1. CallOf(j)
    BY <1>1
  <2>2. CASE ConfigOf[j] # c
    BY <1>6, <1>8, <2>1, <2>2 DEF CallOf, OfIts, Alone
  <2>3. CASE ConfigOf[j] = c
    <3>1. ~Alone(j)
      BY <1>8, <2>3 DEF Alone
    <3> HIDE DEF n, id
    <3>2. id = config[c].runId
      BY DEF id
    <3> QED BY <1>6, <1>7, <1>8, <2>1, <2>3, <3>1, <3>2 DEF CallOf, OfIts, Alone
  <2> QED BY <2>2, <2>3
<1>9. CallOf(k)'
  <2>1. /\ id # None => OfIts(k, id)
        /\ Alone(k) => config[c].tracers = 0 /\ id = None
    BY <1>1, <1>2 DEF CallOf
  <2>2. Alone(k) => n = 1
    BY <2>1
  <2> HIDE DEF n, id
  <2> QED BY <1>6, <1>7, <2>1, <2>2 DEF CallOf, OfIts, Alone
<1> QED BY <1>5, <1>8, <1>9 DEF CallsInv

LEMMA IdIsSet == ASSUME LangFacts, CallsInv, NEW k \in Calls, Language!SetRunId(k) PROVE CallsInv'
<1> DEFINE c == ConfigOf[k]
           n == config[c].tracers
<1>1. /\ c \in {ConfigOf[j] : j \in Calls} /\ n \in Nat
      /\ CallTypes /\ \A j \in Calls : CallOf(j)
  BY DEF CallsInv, CallTypes
<1>2. /\ DOMAIN config = {ConfigOf[j] : j \in Calls} /\ DOMAIN call = Calls
      /\ config[c] = [tracers |-> n, runId |-> config[c].runId]
      /\ call[k].state = "asks"
  BY <1>1 DEF Language!SetRunId, CallTypes
<1>3. /\ config' = [config EXCEPT ![c] = [tracers |-> n, runId |-> k]]
      /\ call' = [call EXCEPT ![k] = [state |-> "runs", tracers |-> n, runId |-> k]]
  <2>1. /\ config' = [config EXCEPT ![c] = [config[c] EXCEPT !.runId = k]]
        /\ call' = [call EXCEPT ![k] = [state |-> "runs", tracers |-> n, runId |-> k]]
    BY DEF Language!SetRunId
  <2>2. [config[c] EXCEPT !.runId = k] = [tracers |-> n, runId |-> k]
    BY <1>2
  <2> QED BY <2>1, <2>2
<1>4. CallTypes'
  <2>1. config' \in [{ConfigOf[j] : j \in Calls} -> [tracers : Nat, runId : Calls \cup {None}]]
    BY <1>1, <1>3 DEF CallTypes
  <2>2. call' \in [Calls -> [state : {"none", "asks", "runs"}, tracers : Nat,
                             runId : Calls \cup {None}]]
    BY <1>1, <1>3 DEF CallTypes
  <2> QED BY <2>1, <2>2 DEF CallTypes
<1>5. /\ config'[c].tracers = n /\ config'[c].runId = k
      /\ \A d \in {ConfigOf[j] : j \in Calls} : d # c => config'[d] = config[d]
      /\ \A j \in Calls : j # k => call'[j] = call[j]
      /\ call'[k].state = "runs" /\ call'[k].tracers = n /\ call'[k].runId = k
  BY <1>1, <1>2, <1>3
<1>6. n > 0 /\ (Alone(k) => n = 1) /\ OfIts(k, k) /\ k # None
  BY <1>1, <1>2 DEF CallOf, OfIts, LangFacts
<1>7. ASSUME NEW j \in Calls, j # k PROVE CallOf(j)'
  <2>1. CallOf(j)
    BY <1>1
  <2>2. CASE ConfigOf[j] # c
    BY <1>5, <1>7, <2>1, <2>2 DEF CallOf, OfIts, Alone
  <2>3. CASE ConfigOf[j] = c
    <3>1. ~Alone(j)
      BY <1>7, <2>3 DEF Alone
    <3>2. OfIts(j, k)
      BY <2>3 DEF OfIts
    <3> QED BY <1>5, <1>7, <2>1, <2>3, <3>1, <3>2 DEF CallOf, OfIts, Alone
  <2> QED BY <2>2, <2>3
<1>8. CallOf(k)'
  <2> HIDE DEF n
  <2> QED BY <1>5, <1>6 DEF CallOf, OfIts, Alone
<1> QED BY <1>4, <1>7, <1>8 DEF CallsInv

LEMMA NextLanguage ==
  ASSUME LangFacts, LanguageInv, [Language!Next]_(Language!vars) PROVE LanguageInv'
<1>1. InjectInv /\ CompiledInv /\ CallsInv
  BY DEF LanguageInv
<1>2. CASE UNCHANGED Language!vars
  <2>1. UNCHANGED Language!protoVars /\ UNCHANGED Language!objVars /\ UNCHANGED <<config, call>>
    BY <1>2 DEF Language!vars, Language!callVars
  <2> QED BY <1>1, <2>1, InjectStays, CompiledStays, CallsStay DEF LanguageInv
<1>3. ASSUME \/ \E t \in Tools : Language!CreateTool(t)
             \/ \E c \in Clients : Language!CreateClient(c)
             \/ \E n \in Nodes : Language!CreateNode(n)
             \/ \E e \in Edges : Language!CreateEdge(e)
             \/ \E g \in Graphs : Language!CreateGraph(g)
             \/ \E s \in Savers : Language!CreateSaver(s)
             \/ Language!CreateChatSaver
      PROVE  LanguageInv'
  <2>1. InjectInv'
    BY <1>1, <1>3, ToolKeeps, ClientKeeps, NodeKeeps, EdgeKeeps, GraphKeeps, SaverKeeps
  <2>2. UNCHANGED Language!objVars /\ UNCHANGED <<config, call>>
    BY <1>3 DEF Language!CreateTool, Language!CreateClient, Language!CreateNode,
                Language!CreateEdge, Language!CreateGraph, Language!CreateSaver,
                Language!CreateChatSaver, Language!Creates, Language!callVars
  <2> QED BY <1>1, <2>1, <2>2, CompiledStays, CallsStay DEF LanguageInv
<1>4. CASE (\E n \in Nodes : Language!BindNode(n)) \/ \E g \in Graphs : Language!Compile(g)
  BY <1>4, ObjectsKeep
<1>5. ASSUME NEW k \in Calls,
             Language!Start(k) \/ Language!SetRunId(k) \/ Language!PersistRun(k)
      PROVE  LanguageInv'
  <2>1. UNCHANGED Language!protoVars /\ UNCHANGED Language!objVars
    BY <1>5 DEF Language!Start, Language!SetRunId, Language!PersistRun
  <2>2. CallsInv'
    <3>1. CASE Language!PersistRun(k)
      BY <1>1, <3>1, CallsStay DEF Language!PersistRun
    <3> QED BY <1>1, <1>5, <3>1, CallStarts, IdIsSet
  <2> QED BY <1>1, <2>1, <2>2, InjectStays, CompiledStays DEF LanguageInv
<1> QED BY <1>2, <1>3, <1>4, <1>5 DEF Language!Next

LEMMA LanguageHolds ==
  ASSUME LangFacts, LanguageInv PROVE Language!GraphIsWhole /\ Language!OwnConfigOwnTrace
<1>1. InjectInv /\ CompiledInv /\ CallsInv
  BY DEF LanguageInv
<1>2. ASSUME NEW p \in Nodes \cup Graphs, NEW q
      PROVE  /\ IsOnce(injects[p], q) => Language!Count(p, q) = 1
             /\ IsIn(injects[p], q) => Language!Count(p, q) >= 1
  <2>1. injects[p] \in Seq(Refs)
    BY <1>1 DEF InjectInv, TypesInv
  <2>2. PICK K : K = {k \in DOMAIN injects[p] : injects[p][k] = q}
    OBVIOUS
  <2>3. Language!Count(p, q) = Cardinality(K)
    <3>1. \A S : Language!Cardinality(S) = Cardinality(S)
      BY DEF Language!Cardinality, Cardinality
    <3> QED BY <2>2, <3>1 DEF Language!Count
  <2> HIDE DEF Refs
  <2> QED BY <2>1, <2>2, <2>3, OnceIsOne
<1>3. ASSUME Language!AllThere, NEW n \in Nodes
      PROVE  /\ \A t \in ToolsOf[n] : Language!Count(n, t) = 1
             /\ \A s \in ServersOf[n] : Language!Count(n, s) >= 1
  <2>1. protos = Language!Protos /\ n \in protos
    BY <1>3 DEF Language!AllThere, LangFacts
  <2>2. \A t \in ToolsOf[n] : t \in protos
    BY <2>1 DEF LangFacts
  <2>3. \A t \in ToolsOf[n] : IsOnce(injects[n], t)
    BY <1>1, <2>1, <2>2 DEF InjectInv, NodesInv, OnceInv
  <2>4. ASSUME NEW s \in ServersOf[n] PROVE IsIn(injects[n], s)
    <3>1. Clients # {} /\ Clients \subseteq protos
      BY <2>1 DEF LangFacts
    <3>2. client # None
      BY <1>1, <3>1 DEF InjectInv, ClientInv
    <3> QED BY <1>1, <2>1, <3>2 DEF InjectInv, NodesInv
  <2> QED BY <1>2, <2>3, <2>4
<1>4. ASSUME Language!AllThere, NEW g \in Graphs, SaverOf[g] # None, NEW p \in Parts(g)
      PROVE  Language!Count(g, p) = 1
  <2>1. protos = Language!Protos /\ g \in protos /\ p \in protos
    BY <1>4 DEF Language!AllThere, LangFacts
  <2>2. IsOnce(injects[g], p)
    BY <1>1, <1>4, <2>1 DEF InjectInv, PartsInv, OnceInv
  <2> QED BY <1>2, <2>2
<1>5. \A g \in Graphs : compiled[g].state = "done" =>
        compiled[g].edges = EdgesOf[g] /\ \A n \in compiled[g].nodes : bound[n].state = "done"
  BY <1>1 DEF CompiledInv
<1>6. Language!GraphIsWhole
  BY <1>3, <1>4, <1>5 DEF Language!GraphIsWhole, Parts
<1>7. Language!OwnConfigOwnTrace
  BY <1>1 DEF Language!OwnConfigOwnTrace, CallsInv, CallOf, OfIts, Alone
<1> QED BY <1>6, <1>7

\* A step of the composition is one of the aspects and one of the graphs.
LEMMA HooksStep ==
  ASSUME [MCNext]_<<part, tableVars, text, sourceVars, aopVars, graphVars, ormVars,
                    scheduleVars, dnsVars, ossVars, traceVars>>
  PROVE  [Aspect!Next]_(Aspect!vars) /\ [Language!Next]_(Language!vars)
<1>1. Aspect!Next \/ UNCHANGED aopVars
  BY DEF MCNext, NoAop
<1>2. Language!Next \/ UNCHANGED graphVars
  BY DEF MCNext, NoGraph
<1> QED BY <1>1, <1>2 DEF aopVars, graphVars, Aspect!vars, Aspect!weaving, Aspect!calling,
        Language!vars, Language!protoVars, Language!objVars, Language!callVars

\* Whatever order load units and prototypes come in, a class that is up has every
\* advice that is declared for it, and a graph that is compiled all that it names; a
\* call hears its advices in turn to the end, whatever throws; and a call with a
\* config of its own is traced once, under its own id.
THEOREM HooksHold == MCSpec => []HooksSeeTheWhole
<1>1. LangFacts
  BY LanguageFacts, InstancesAssumption DEF InstancesAssumption
<1>2. MCInit => WeavingInv /\ CallInv /\ LanguageInv
  BY <1>1, InitPlugins, InitWeaving, InitCall, InitLanguage, InstancesAssumption
     DEF InstancesAssumption
<1>3. WeavingInv /\ CallInv /\ LanguageInv
        /\ [MCNext]_<<part, tableVars, text, sourceVars, aopVars, graphVars, ormVars,
                      scheduleVars, dnsVars, ossVars, traceVars>>
        => WeavingInv' /\ CallInv' /\ LanguageInv'
  BY <1>1, HooksStep, NextAspect, NextLanguage
<1>4. WeavingInv /\ CallInv /\ LanguageInv => HooksSeeTheWhole
  BY <1>1, AspectHolds, LanguageHolds DEF HooksSeeTheWhole
<1> QED BY <1>2, <1>3, <1>4, PTL DEF MCSpec
-----------------------------------------------------------------------------
(* Data sources *)

\* A client has a configuration with its key; what is indexed is the key of the
\* module's own source, and a client; a module whose hook ran has its sources
\* indexed, and connected once its prototypes are there; a delegate has the client
\* of its source.
PhasesInv == phase \in [DOMAIN Modules -> {"off", "wired", "hook", "protos", "up", "failed"}]
Client(k) == [config : Source!Given(k), state : {"connecting", "ready", "failed"}]
ClientsInv == \A k \in DOMAIN clients : clients[k] \in Client(k)
IndicesInv ==
  \A p \in DOMAIN indices : /\ indices[p] = Source!SourceKey(p[1], p[2])
                            /\ indices[p] \in DOMAIN clients
WiredInv ==
  \A m \in DOMAIN Modules : \A n \in Source!Names(m) :
    /\ phase[m] \in {"hook", "protos", "up"} => <<m, n>> \in DOMAIN indices
    /\ phase[m] \in {"protos", "up"} => clients[Source!SourceKey(m, n)].state = "ready"
DelegatesInv ==
  \A d \in DOMAIN delegates : /\ <<d[1], d[2]>> \in DOMAIN indices
                              /\ delegates[d] = indices[<<d[1], d[2]>>]
SourceInv == PhasesInv /\ ClientsInv /\ IndicesInv /\ WiredInv /\ DelegatesInv

\* The configuration of a source is one of those that have its key, and within a module
\* the only one.
LEMMA KeyIs ==
  ASSUME NEW m \in DOMAIN Modules, NEW n \in Source!Names(m)
  PROVE  /\ Modules[m].sources[n] \in Source!Given(Source!SourceKey(m, n))
         /\ \A o : Source!SourceKey(m, o) = Source!SourceKey(m, n) => o = n
BY DEF Source!SourceKey, Source!Given

LEMMA InitSource == ASSUME Source!Init PROVE SourceInv
<1>1. /\ clients = <<>> /\ indices = <<>> /\ delegates = <<>>
      /\ phase = [m \in DOMAIN Modules |-> "off"]
  BY DEF Source!Init
<1>2. DOMAIN clients = {} /\ DOMAIN indices = {} /\ DOMAIN delegates = {}
  BY <1>1
<1>3. \A m \in DOMAIN Modules : phase[m] = "off"
  BY <1>1
<1>4. PhasesInv
  BY <1>1 DEF PhasesInv
<1>5. ClientsInv /\ IndicesInv /\ DelegatesInv
  BY <1>2 DEF ClientsInv, IndicesInv, DelegatesInv
<1>6. WiredInv
  BY <1>3 DEF WiredInv
<1> QED BY <1>4, <1>5, <1>6 DEF SourceInv

\* What leaves the sources and their index alone, and makes no module wait for more.
LEMMA SourcesStay ==
  ASSUME SourceInv, UNCHANGED <<clients, indices, delegates>>, PhasesInv',
         \A m \in DOMAIN Modules :
           /\ phase'[m] \in {"hook", "protos", "up"} => phase[m] \in {"hook", "protos", "up"}
           /\ phase'[m] \in {"protos", "up"} =>
                \/ phase[m] \in {"protos", "up"}
                \/ \A n \in Source!Names(m) : clients[Source!SourceKey(m, n)].state = "ready"
  PROVE  SourceInv'
<1>1. ClientsInv'
  BY DEF SourceInv, ClientsInv
<1>2. IndicesInv'
  BY DEF SourceInv, IndicesInv, Source!SourceKey
<1>3. DelegatesInv'
  BY DEF SourceInv, DelegatesInv
<1>4. WiredInv'
  <2> SUFFICES ASSUME NEW m \in DOMAIN Modules, NEW n \in Source!Names(m)
               PROVE  /\ phase'[m] \in {"hook", "protos", "up"} => <<m, n>> \in DOMAIN indices
                      /\ phase'[m] \in {"protos", "up"} =>
                           clients[Source!SourceKey(m, n)].state = "ready"
    BY DEF WiredInv, Source!Names, Source!SourceKey
  <2> QED BY DEF SourceInv, WiredInv
<1> QED BY <1>1, <1>2, <1>3, <1>4 DEF SourceInv

LEMMA SourcesCreated ==
  ASSUME SourceInv, NEW m \in DOMAIN Modules, Source!CreateDataSources(m)
  PROVE  SourceInv'
<1> DEFINE keys == {Source!SourceKey(m, n) : n \in Source!Names(m)}
           configured(k) ==
             Modules[m].sources[CHOOSE n \in Source!Names(m) : Source!SourceKey(m, n) = k]
           fresh == [k \in keys |-> [config |-> configured(k), state |-> "connecting"]]
           mine == {<<m, n>> : n \in Source!Names(m)}
           named == [p \in mine |-> Source!SourceKey(m, p[2])]
<1>1. /\ phase[m] = "wired" /\ phase' = [phase EXCEPT ![m] = "hook"]
      /\ clients' = Source!Over(clients, fresh) /\ indices' = Source!Over(named, indices)
      /\ delegates' = delegates
  BY DEF Source!CreateDataSources
<1>2. PhasesInv'
  BY <1>1 DEF SourceInv, PhasesInv
<1>3. \A k \in DOMAIN clients : k \in DOMAIN clients' /\ clients'[k] = clients[k]
  BY <1>1 DEF Source!Over
<1>4. keys \subseteq DOMAIN clients'
  BY <1>1 DEF Source!Over
<1>5. ASSUME NEW k \in keys PROVE configured(k) \in Source!Given(k)
  <2>1. PICK n \in Source!Names(m) : k = Source!SourceKey(m, n)
    OBVIOUS
  <2>2. (CHOOSE o \in Source!Names(m) : Source!SourceKey(m, o) = k) = n
    BY <2>1, KeyIs
  <2> QED BY <2>1, <2>2, KeyIs
<1>6. ClientsInv'
  <2> SUFFICES ASSUME NEW k \in DOMAIN clients'
               PROVE  clients'[k] \in Client(k)
    BY DEF ClientsInv, Client, Source!Given, Source!Names, Source!SourceKey
  <2>1. CASE k \in DOMAIN clients
    BY <2>1, <1>3 DEF SourceInv, ClientsInv
  <2>2. CASE k \notin DOMAIN clients
    <3>1. k \in keys /\ clients'[k] = fresh[k]
      BY <2>2, <1>1 DEF Source!Over
    <3>2. clients'[k] = [config |-> configured(k), state |-> "connecting"]
      BY <3>1
    <3> HIDE DEF configured, keys, fresh
    <3> QED BY <3>1, <3>2, <1>5 DEF Client
  <2> QED BY <2>1, <2>2
<1>7. \A p \in DOMAIN indices' :
        \/ p \in mine /\ indices'[p] = Source!SourceKey(m, p[2])
        \/ p \in DOMAIN indices /\ p \notin mine /\ indices'[p] = indices[p]
  <2> HIDE DEF mine
  <2>1. DOMAIN named = mine /\ \A p \in mine : named[p] = Source!SourceKey(m, p[2])
    OBVIOUS
  <2> HIDE DEF named
  <2> QED BY <1>1, <2>1 DEF Source!Over
<1>8. mine \cup DOMAIN indices \subseteq DOMAIN indices'
  <2>1. DOMAIN named = mine
    OBVIOUS
  <2> HIDE DEF named, mine
  <2> QED BY <1>1, <2>1 DEF Source!Over
<1>9. \A p \in DOMAIN indices' : indices'[p] = Source!SourceKey(p[1], p[2])
  BY <1>7 DEF SourceInv, IndicesInv
<1>10. IndicesInv'
  <2> SUFFICES ASSUME NEW p \in DOMAIN indices' PROVE indices'[p] \in DOMAIN clients'
    BY <1>9 DEF IndicesInv, Source!SourceKey
  <2>1. CASE p \in mine
    <3>1. PICK n \in Source!Names(m) : p = <<m, n>>
      BY <2>1
    <3>2. indices'[p] \in keys
      BY <3>1, <1>9
    <3> QED BY <3>2, <1>4
  <2>2. CASE p \notin mine
    <3>1. p \in DOMAIN indices /\ indices'[p] = indices[p]
      BY <2>2, <1>7
    <3> QED BY <3>1, <1>3 DEF SourceInv, IndicesInv
  <2> QED BY <2>1, <2>2
<1>11. DelegatesInv'
  <2> SUFFICES ASSUME NEW d \in DOMAIN delegates
               PROVE  /\ <<d[1], d[2]>> \in DOMAIN indices'
                      /\ delegates[d] = indices'[<<d[1], d[2]>>]
    BY <1>1 DEF DelegatesInv
  <2>1. <<d[1], d[2]>> \in DOMAIN indices /\ delegates[d] = indices[<<d[1], d[2]>>]
    BY DEF SourceInv, DelegatesInv
  <2>2. indices[<<d[1], d[2]>>] = Source!SourceKey(d[1], d[2])
    BY <2>1 DEF SourceInv, IndicesInv
  <2>3. <<d[1], d[2]>> \in DOMAIN indices'
    BY <2>1, <1>8
  <2>4. indices'[<<d[1], d[2]>>] = Source!SourceKey(d[1], d[2])
    BY <2>3, <1>9
  <2> QED BY <2>1, <2>2, <2>3, <2>4
<1>12. WiredInv'
  <2> SUFFICES ASSUME NEW o \in DOMAIN Modules, NEW n \in Source!Names(o)
               PROVE  /\ phase'[o] \in {"hook", "protos", "up"} => <<o, n>> \in DOMAIN indices'
                      /\ phase'[o] \in {"protos", "up"} =>
                           clients'[Source!SourceKey(o, n)].state = "ready"
    BY DEF WiredInv, Source!Names, Source!SourceKey
  <2>1. CASE o = m
    <3>1. phase'[o] = "hook"
      BY <1>1, <2>1 DEF SourceInv, PhasesInv
    <3>2. <<o, n>> \in mine
      BY <2>1
    <3> QED BY <3>1, <3>2, <1>8
  <2>2. CASE o # m
    <3>1. phase'[o] = phase[o]
      BY <1>1, <2>2 DEF SourceInv, PhasesInv
    <3>2. phase[o] \in {"hook", "protos", "up"} => <<o, n>> \in DOMAIN indices
      BY DEF SourceInv, WiredInv
    <3>3. <<o, n>> \in DOMAIN indices => Source!SourceKey(o, n) \in DOMAIN clients
      BY DEF SourceInv, IndicesInv
    <3>4. phase[o] \in {"protos", "up"} => clients[Source!SourceKey(o, n)].state = "ready"
      BY DEF SourceInv, WiredInv
    <3> QED BY <3>1, <3>2, <3>3, <3>4, <1>3, <1>8
  <2> QED BY <2>1, <2>2
<1> QED BY <1>2, <1>6, <1>10, <1>11, <1>12 DEF SourceInv

\* A connection ends ready or failed, once.
LEMMA ClientMoves ==
  ASSUME SourceInv, NEW k \in DOMAIN clients, clients[k].state = "connecting",
         NEW state \in {"ready", "failed"}, clients' = [clients EXCEPT ![k].state = state],
         UNCHANGED <<indices, phase, delegates>>
  PROVE  SourceInv'
<1>1. DOMAIN clients' = DOMAIN clients
  OBVIOUS
<1>2. clients'[k] \in Client(k) /\ clients'[k].state = state
  <2>1. clients[k] \in Client(k)
    BY DEF SourceInv, ClientsInv
  <2>2. clients'[k] = [clients[k] EXCEPT !.state = state]
    OBVIOUS
  <2> QED BY <2>1, <2>2 DEF Client
<1>3. \A j \in DOMAIN clients : j # k => clients'[j] = clients[j]
  OBVIOUS
<1>4. ClientsInv'
  <2> SUFFICES ASSUME NEW j \in DOMAIN clients'
               PROVE  clients'[j] \in Client(j)
    BY DEF ClientsInv, Client, Source!Given, Source!Names, Source!SourceKey
  <2>1. CASE j = k
    BY <2>1, <1>2
  <2>2. CASE j # k
    BY <2>2, <1>1, <1>3 DEF SourceInv, ClientsInv
  <2> QED BY <2>1, <2>2
<1>5. IndicesInv'
  BY <1>1 DEF SourceInv, IndicesInv, Source!SourceKey
<1>6. WiredInv'
  <2> SUFFICES ASSUME NEW o \in DOMAIN Modules, NEW n \in Source!Names(o)
               PROVE  /\ phase[o] \in {"hook", "protos", "up"} => <<o, n>> \in DOMAIN indices
                      /\ phase[o] \in {"protos", "up"} =>
                           clients'[Source!SourceKey(o, n)].state = "ready"
    BY DEF WiredInv, Source!Names, Source!SourceKey
  <2>1. phase[o] \in {"hook", "protos", "up"} => <<o, n>> \in DOMAIN indices
    BY DEF SourceInv, WiredInv
  <2>2. <<o, n>> \in DOMAIN indices => Source!SourceKey(o, n) \in DOMAIN clients
    BY DEF SourceInv, IndicesInv
  <2>3. phase[o] \in {"protos", "up"} => clients[Source!SourceKey(o, n)].state = "ready"
    BY DEF SourceInv, WiredInv
  <2> HIDE DEF Source!SourceKey
  <2> QED BY <2>1, <2>2, <2>3, <1>3
<1>7. PhasesInv' /\ DelegatesInv'
  BY DEF SourceInv, PhasesInv, DelegatesInv
<1> QED BY <1>4, <1>5, <1>6, <1>7 DEF SourceInv

LEMMA DelegatesCreated ==
  ASSUME SourceInv, NEW m \in DOMAIN Modules, Source!CreateDelegates(m)
  PROVE  SourceInv'
<1> DEFINE mine == [d \in Source!DelegateNames(m) |-> Source!Indexed(m, d[2])]
<1>1. /\ phase[m] = "protos" /\ phase'[m] \in {"up", "failed"}
      /\ \E s \in {"up", "failed"} : phase' = [phase EXCEPT ![m] = s]
      /\ UNCHANGED <<clients, indices>>
      /\ delegates' \in {delegates, Source!Over(mine, delegates)}
  BY DEF Source!CreateDelegates, SourceInv, PhasesInv
<1>2. PhasesInv'
  BY <1>1 DEF SourceInv, PhasesInv
<1>3. ClientsInv' /\ IndicesInv'
  BY <1>1 DEF SourceInv, ClientsInv, IndicesInv, Source!SourceKey
<1>4. WiredInv'
  <2> SUFFICES ASSUME NEW o \in DOMAIN Modules, NEW n \in Source!Names(o)
               PROVE  /\ phase'[o] \in {"hook", "protos", "up"} => <<o, n>> \in DOMAIN indices
                      /\ phase'[o] \in {"protos", "up"} =>
                           clients[Source!SourceKey(o, n)].state = "ready"
    BY <1>1 DEF WiredInv, Source!Names, Source!SourceKey
  <2>1. o # m => phase'[o] = phase[o]
    BY <1>1 DEF SourceInv, PhasesInv
  <2>2. phase[o] \in {"hook", "protos", "up"} => <<o, n>> \in DOMAIN indices
    BY DEF SourceInv, WiredInv
  <2>3. phase[o] \in {"protos", "up"} => clients[Source!SourceKey(o, n)].state = "ready"
    BY DEF SourceInv, WiredInv
  <2> QED BY <2>1, <2>2, <2>3, <1>1
<1>5. \A d \in Source!DelegateNames(m) :
        /\ d[1] = m /\ d[2] \in Source!Names(m)
        /\ <<m, d[2]>> \in DOMAIN indices /\ mine[d] = indices[<<m, d[2]>>]
  <2> TAKE d \in Source!DelegateNames(m)
  <2>1. d[1] = m /\ d[2] \in Source!Names(m)
    BY DEF Source!DelegateNames
  <2>2. <<m, d[2]>> \in DOMAIN indices
    BY <1>1, <2>1 DEF SourceInv, WiredInv
  <2> QED BY <2>1, <2>2 DEF Source!Indexed
<1>6. DelegatesInv'
  <2> SUFFICES ASSUME NEW d \in DOMAIN delegates'
               PROVE  /\ <<d[1], d[2]>> \in DOMAIN indices
                      /\ delegates'[d] = indices[<<d[1], d[2]>>]
    BY <1>1 DEF DelegatesInv
  <2>1. CASE d \in Source!DelegateNames(m) /\ delegates' # delegates
    <3>1. DOMAIN mine = Source!DelegateNames(m)
      OBVIOUS
    <3> HIDE DEF mine
    <3>2. delegates'[d] = mine[d]
      BY <2>1, <3>1, <1>1 DEF Source!Over
    <3> QED BY <3>2, <2>1, <1>5
  <2>2. CASE d \notin Source!DelegateNames(m) \/ delegates' = delegates
    <3>1. DOMAIN mine = Source!DelegateNames(m)
      OBVIOUS
    <3> HIDE DEF mine
    <3>2. d \in DOMAIN delegates /\ delegates'[d] = delegates[d]
      BY <2>2, <3>1, <1>1 DEF Source!Over
    <3> QED BY <3>2 DEF SourceInv, DelegatesInv
  <2> QED BY <2>1, <2>2
<1> QED BY <1>2, <1>3, <1>4, <1>6 DEF SourceInv

LEMMA NextSource == ASSUME SourceInv, [Source!Next]_(Source!vars) PROVE SourceInv'
<1>1. CASE Source!BuildGraph
  <2>1. /\ UNCHANGED <<clients, indices, delegates>>
        /\ phase' = [m \in DOMAIN Modules |->
                       IF \A n \in DOMAIN phase : Source!Resolved(n) THEN "wired" ELSE "failed"]
    BY <1>1 DEF Source!BuildGraph, SourceInv, PhasesInv
  <2>2. \A m \in DOMAIN Modules : phase'[m] \in {"wired", "failed"}
    BY <2>1
  <2>3. PhasesInv'
    BY <2>1 DEF PhasesInv
  <2> QED BY <2>1, <2>2, <2>3, SourcesStay
<1>2. CASE \E m \in DOMAIN Modules : Source!CreateDataSources(m)
  BY <1>2, SourcesCreated
<1>3. ASSUME NEW m \in DOMAIN Modules, Source!CreatePrototypes(m) PROVE SourceInv'
  <2>1. /\ UNCHANGED <<clients, indices, delegates>> /\ phase[m] = "hook"
        /\ \E s \in {"failed", "protos"} : phase' = [phase EXCEPT ![m] = s]
    BY <1>3 DEF Source!CreatePrototypes
  <2>2. \A n \in Source!Names(m) : clients[Source!SourceKey(m, n)].state = "ready"
    <3> SUFFICES ASSUME NEW n \in Source!Names(m)
                 PROVE  clients[Source!SourceKey(m, n)].state = "ready"
      OBVIOUS
    <3>1. <<m, n>> \in DOMAIN indices
      BY <2>1 DEF SourceInv, WiredInv
    <3>2. Source!Indexed(m, n) = Source!SourceKey(m, n)
      BY <3>1 DEF SourceInv, IndicesInv, Source!Indexed
    <3>3. n \in Source!Awaited(m, "ready")
      BY <1>3 DEF Source!CreatePrototypes, Source!SourcesReady
    <3> QED BY <3>2, <3>3 DEF Source!Awaited
  <2>3. PhasesInv'
    BY <2>1 DEF SourceInv, PhasesInv
  <2>4. \A o \in DOMAIN Modules : o # m => phase'[o] = phase[o]
    BY <2>1 DEF SourceInv, PhasesInv
  <2> QED BY <2>1, <2>2, <2>3, <2>4, SourcesStay
<1>4. ASSUME NEW m \in DOMAIN Modules, Source!FailHook(m) PROVE SourceInv'
  <2>1. /\ UNCHANGED <<clients, indices, delegates>>
        /\ phase' = [phase EXCEPT ![m] = "failed"]
    BY <1>4 DEF Source!FailHook
  <2>2. PhasesInv'
    BY <2>1 DEF SourceInv, PhasesInv
  <2>3. \A o \in DOMAIN Modules : phase'[o] \in {phase[o], "failed"}
    BY <2>1 DEF SourceInv, PhasesInv
  <2> QED BY <2>1, <2>2, <2>3, SourcesStay
<1>5. CASE \E m \in DOMAIN Modules : Source!CreateDelegates(m)
  BY <1>5, DelegatesCreated
<1>6. ASSUME NEW k \in DOMAIN clients, Source!Connect(k) PROVE SourceInv'
  BY <1>6, ClientMoves DEF Source!Connect
<1>7. ASSUME NEW k \in DOMAIN clients, Source!Retry(k) PROVE SourceInv'
  <2>1. CASE clients' = clients
    <3>1. UNCHANGED <<clients, indices, delegates, phase>>
      BY <1>7, <2>1 DEF Source!Retry
    <3>2. PhasesInv'
      BY <3>1 DEF SourceInv, PhasesInv
    <3> QED BY <3>1, <3>2, SourcesStay
  <2>2. CASE clients' # clients
    <3>1. clients[k].state = "connecting" /\ clients' = [clients EXCEPT ![k].state = "failed"]
      BY <1>7, <2>2 DEF Source!Retry
    <3>2. UNCHANGED <<indices, phase, delegates>>
      BY <1>7 DEF Source!Retry
    <3> QED BY <3>1, <3>2, ClientMoves
  <2> QED BY <2>1, <2>2
<1>8. CASE Source!Close
  <2>1. /\ clients' = clients /\ indices' = <<>> /\ delegates' = <<>>
        /\ phase' = [m \in DOMAIN Modules |-> "off"]
    BY <1>8 DEF Source!Close
  <2>2. DOMAIN indices' = {} /\ DOMAIN delegates' = {}
    BY <2>1
  <2>3. \A m \in DOMAIN Modules : phase'[m] = "off"
    BY <2>1
  <2>4. PhasesInv'
    BY <2>1 DEF PhasesInv
  <2>5. ClientsInv'
    BY <2>1 DEF SourceInv, ClientsInv
  <2>6. IndicesInv' /\ DelegatesInv'
    BY <2>2 DEF IndicesInv, DelegatesInv
  <2>7. WiredInv'
    BY <2>3 DEF WiredInv
  <2> QED BY <2>4, <2>5, <2>6, <2>7 DEF SourceInv
<1>9. CASE UNCHANGED Source!vars
  <2>1. UNCHANGED <<clients, indices, delegates, phase>>
    BY <1>9 DEF Source!vars
  <2>2. PhasesInv'
    BY <2>1 DEF SourceInv, PhasesInv
  <2> QED BY <2>1, <2>2, SourcesStay
<1> QED BY <1>1, <1>2, <1>3, <1>4, <1>5, <1>6, <1>7, <1>8, <1>9 DEF Source!Next

LEMMA SourceHolds == ASSUME SourceInv PROVE Source!TransactionsCoverTheirWrites
<1> SUFFICES ASSUME NEW m \in Source!Up
             PROVE  /\ \A n \in Source!Names(m) :
                         /\ clients[Source!Indexed(m, n)].state = "ready"
                         /\ clients[Source!Indexed(m, n)].config
                              \in Source!Given(Source!SourceKey(m, n))
                    /\ \A p \in DOMAIN advices, d \in DOMAIN delegates :
                         p[1] = m /\ d[1] = m /\ d[2] = advices[p] =>
                           delegates[d] = Source!Indexed(m, advices[p])
  BY DEF Source!TransactionsCoverTheirWrites
<1>1. m \in DOMAIN Modules /\ phase[m] = "up"
  BY DEF Source!Up, SourceInv, PhasesInv
<1>2. ASSUME NEW n \in Source!Names(m)
      PROVE  /\ clients[Source!Indexed(m, n)].state = "ready"
             /\ clients[Source!Indexed(m, n)].config \in Source!Given(Source!SourceKey(m, n))
  <2>1. <<m, n>> \in DOMAIN indices /\ clients[Source!SourceKey(m, n)].state = "ready"
    BY <1>1 DEF SourceInv, WiredInv
  <2>2. Source!Indexed(m, n) = Source!SourceKey(m, n) /\ Source!SourceKey(m, n) \in DOMAIN clients
    BY <2>1 DEF SourceInv, IndicesInv, Source!Indexed
  <2>3. clients[Source!SourceKey(m, n)].config \in Source!Given(Source!SourceKey(m, n))
    BY <2>2 DEF SourceInv, ClientsInv, Client
  <2> QED BY <2>1, <2>2, <2>3
<1>3. ASSUME NEW p \in DOMAIN advices, NEW d \in DOMAIN delegates,
             p[1] = m, d[1] = m, d[2] = advices[p]
      PROVE  delegates[d] = Source!Indexed(m, advices[p])
  <2>1. <<d[1], d[2]>> \in DOMAIN indices /\ delegates[d] = indices[<<d[1], d[2]>>]
    BY DEF SourceInv, DelegatesInv
  <2> QED BY <1>3, <2>1 DEF Source!Indexed
<1> QED BY <1>2, <1>3

\* Whatever order connections, retries, failures and boots come in, every transaction
\* of a module that is up runs on the client that the delegates of that source have,
\* which is connected with a configuration that has the key of the module's own, also
\* after the application was closed and booted again in one process.
THEOREM TransactionsHold == MCSpec => []Source!TransactionsCoverTheirWrites
<1>1. MCInit => SourceInv
  BY InitSource DEF MCInit
<1>2. [MCNext]_<<part, tableVars, text, sourceVars, aopVars, graphVars, ormVars,
                 scheduleVars, dnsVars, ossVars, traceVars>>
        => [Source!Next]_(Source!vars)
  <2>1. MCNext => Source!Next \/ UNCHANGED sourceVars
    BY DEF MCNext, NoDal
  <2> QED BY <2>1 DEF sourceVars, Source!vars
<1>3. SourceInv /\ [MCNext]_<<part, tableVars, text, sourceVars, aopVars, graphVars, ormVars,
                              scheduleVars, dnsVars, ossVars, traceVars>>
        => SourceInv'
  BY <1>2, NextSource
<1>4. SourceInv => Source!TransactionsCoverTheirWrites
  BY SourceHolds
<1> QED BY <1>1, <1>3, <1>4, PTL DEF MCSpec
=============================================================================
