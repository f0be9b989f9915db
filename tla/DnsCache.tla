-------------------------------- MODULE DnsCache --------------------------------
(***************************************************************************)
(* DnsResolver: the lookup function of the HTTP client, with its cache.    *)
(*                                                                         *)
(* A hit is served at once, and starts a query of its own when the entry   *)
(* has outlived its time; a miss waits for its query.  An answer makes a   *)
(* new entry.  The entries are objects that the lookups share: each use    *)
(* moves the entry's index to its next address.                            *)
(***************************************************************************)
EXTENDS Naturals, Sequences, FiniteSets

CONSTANTS
  Hosts, Lookups,
  HostOf,         \* the host each lookup names
  None,
  MaxCacheSize, MaxAddresses

DnsAssumption ==
  /\ HostOf \in [Lookups -> Hosts] /\ None \notin Lookups
  /\ MaxCacheSize \in Nat \ {0} /\ MaxAddresses \in Nat \ {0}

VARIABLES
  addressRotation,
  recent, older,   \* the two generations of the LRU: host to entry
  entry,           \* the entry the query of a lookup made
  pc,              \* idle, waiting (a miss), refreshing (a hit), done
  answer,          \* none, an error, or the address: entry and index
  used,            \* history: the indexes each entry has given
  last             \* history: what each host was given last, <<size, index>>

cacheVars == <<recent, older, entry>>
lookupVars == <<pc, answer, used, last>>
vars == <<addressRotation, cacheVars, lookupVars>>

NoEntry == [n |-> 0, currentIndex |-> 0, expired |-> FALSE]
Entries == [n : 1 .. MaxAddresses, currentIndex : 0 .. MaxAddresses - 1, expired : BOOLEAN]
Answers == {<<"none">>, <<"error">>} \cup (Lookups \X (0 .. MaxAddresses - 1))

Empty == [h \in Hosts |-> None]

Init ==
  /\ addressRotation \in BOOLEAN
  /\ recent = Empty /\ older = Empty
  /\ entry = [l \in Lookups |-> NoEntry]
  /\ pc = [l \in Lookups |-> "idle"] /\ answer = [l \in Lookups |-> <<"none">>]
  /\ used = [l \in Lookups |-> <<>>] /\ last = [h \in Hosts |-> <<0, 0>>]

-----------------------------------------------------------------------------
(* The LRU: a full generation becomes the older one *)

Cached(h) == IF recent[h] # None THEN recent[h] ELSE older[h]

Put(h, e) ==
  LET newer == [recent EXCEPT ![h] = e]
      Full == Cardinality({k \in Hosts : newer[k] # None}) >= MaxCacheSize IN
  IF recent[h] = None /\ Full
  THEN recent' = Empty /\ older' = newer
  ELSE recent' = newer /\ UNCHANGED older

\* A read of an entry of the older generation makes it a recent one.
Get(h) ==
  IF recent[h] = None /\ older[h] # None THEN Put(h, older[h]) ELSE UNCHANGED <<recent, older>>

-----------------------------------------------------------------------------
(* The lookups *)

\* The index for the next use.
Next1(e) == (e.currentIndex + 1) % e.n

\* _callbackWithRecord: lookup l is given an address of entry x.
Give(l, x, e) ==
  /\ answer' = [answer EXCEPT ![l] = <<x, e.currentIndex>>]
  /\ used' = [used EXCEPT ![x] = Append(@, e.currentIndex)]
  /\ last' = [last EXCEPT ![HostOf[l]] = <<e.n, e.currentIndex>>]
  /\ entry' = [entry EXCEPT ![x] =
                 [e EXCEPT !.currentIndex = IF addressRotation THEN Next1(e) ELSE @]]

\* The cached value is served, refreshed in the background when it has expired.
Hit(l) ==
  LET x == Cached(HostOf[l]) IN
  /\ pc[l] = "idle" /\ x # None
  /\ Give(l, x, entry[x]) /\ Get(HostOf[l])
  /\ pc' = [pc EXCEPT ![l] = IF entry[x].expired THEN "refreshing" ELSE "done"]
  /\ UNCHANGED addressRotation

Miss(l) ==
  /\ pc[l] = "idle" /\ Cached(HostOf[l]) = None
  /\ pc' = [pc EXCEPT ![l] = "waiting"]
  /\ UNCHANGED <<addressRotation, cacheVars, answer, used, last>>

\* _updateDNS: the addresses are here.  A record may have no time to live.
Answered(l) ==
  \E n \in 1 .. MaxAddresses, expired \in BOOLEAN :
    LET e == [n |-> n, currentIndex |-> 0, expired |-> expired] IN
    /\ pc[l] \in {"waiting", "refreshing"} /\ pc' = [pc EXCEPT ![l] = "done"]
    /\ Put(HostOf[l], l)
    /\ IF pc[l] = "waiting"
       THEN Give(l, l, e)
       ELSE entry' = [entry EXCEPT ![l] = e] /\ UNCHANGED <<answer, used, last>>
    /\ UNCHANGED addressRotation

\* The query fails, or there is no address: whoever waits gets the error.
Fails(l) ==
  /\ pc[l] \in {"waiting", "refreshing"} /\ pc' = [pc EXCEPT ![l] = "done"]
  /\ answer' = IF pc[l] = "waiting" THEN [answer EXCEPT ![l] = <<"error">>] ELSE answer
  /\ UNCHANGED <<addressRotation, cacheVars, used, last>>

\* Time passes.
Expire(h) ==
  LET x == Cached(h) IN
  /\ x # None /\ ~entry[x].expired
  /\ entry' = [entry EXCEPT ![x].expired = TRUE]
  /\ UNCHANGED <<addressRotation, recent, older, lookupVars>>

\* getCacheRecord
Peek(h) == Get(h) /\ UNCHANGED <<addressRotation, entry, lookupVars>>

\* resetCache, beforeClose
Reset ==
  /\ recent' = Empty /\ older' = Empty
  /\ UNCHANGED <<addressRotation, entry, lookupVars>>

Next ==
  \/ \E l \in Lookups : Hit(l) \/ Miss(l) \/ Answered(l) \/ Fails(l)
  \/ \E h \in Hosts : Expire(h) \/ Peek(h)
  \/ Reset

Spec == Init /\ [][Next]_vars

-----------------------------------------------------------------------------
(* Properties *)

\* Types.
TypeOK ==
  /\ recent \in [Hosts -> Lookups \cup {None}] /\ older \in [Hosts -> Lookups \cup {None}]
  /\ entry \in [Lookups -> Entries \cup {NoEntry}]
  /\ pc \in [Lookups -> {"idle", "waiting", "refreshing", "done"}]
  /\ answer \in [Lookups -> Answers]

Times(x, i) == Cardinality({k \in DOMAIN used[x] : used[x][k] = i})

\* As long as an entry lives its addresses share the load: whoever looks it up,
\* waited for it, or still holds it when another one has replaced it, no
\* address is given more than once more often than another.
RotationIsFair ==
  addressRotation =>
    \A x \in Lookups : \A i, j \in 0 .. entry[x].n - 1 : Times(x, i) <= Times(x, j) + 1

\* What is cached for a host is the answer to a query for that host, and a host
\* is not cached twice beyond the two generations.
CacheHoldsAnswers ==
  /\ \A h \in Hosts : Cached(h) # None =>
       HostOf[Cached(h)] = h /\ entry[Cached(h)] # NoEntry
  /\ Cardinality({h \in Hosts : recent[h] # None}) < MaxCacheSize
  /\ Cardinality({h \in Hosts : older[h] # None}) <= MaxCacheSize

\* The README says: "Each request to the same hostname will use the next IP
\* address in rotation."
EachUsesTheNext ==
  [][addressRotation =>
       \A h \in Hosts :
         last'[h] # last[h] /\ last[h][1] > 1 /\ last'[h][1] = last[h][1]
           => last'[h][2] = (last[h][2] + 1) % last[h][1]]_vars
=============================================================================
