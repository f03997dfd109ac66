---------------------------- MODULE ProxyCacheProofs ---------------------------
(* Proofs about ProxyCache for every set of goroutines, instances and tenants,  *)
(* every cache size and every number of rotations.                              *)
EXTENDS ProxyCache, SequenceTheorems, TLAPS

Entries(K, V) == [key : K, value : V]

--------------------------------------------------------------------------------
(* The LRU operators. *)

(* Position finds a position that holds the key. *)
LEMMA PositionIsOne ==
  ASSUME NEW c, NEW k, Contains(c, k)
  PROVE  Position(c, k) \in Positions(c, k)
BY DEF Contains, Position

(* Putting an entry in front of the others, in place of the one at i, keeps     *)
(* keys unique when no other entry has its key, changes no length, and brings   *)
(* in no entry but the new one.                                                 *)
LEMMA ToFrontFacts ==
  ASSUME NEW E, NEW c \in Seq(E), NEW i \in 1..Len(c), NEW e \in E,
         UniqueKeys(c),
         \A j \in 1..Len(c) : c[j].key = e.key => j = i
  PROVE  /\ ToFront(c, i, e) \in Seq(E)
         /\ Len(ToFront(c, i, e)) = Len(c)
         /\ UniqueKeys(ToFront(c, i, e))
         /\ \A j \in 1..Len(c) : \/ ToFront(c, i, e)[j] = e
                                 \/ \E m \in 1..Len(c) : ToFront(c, i, e)[j] = c[m]
<1> DEFINE d == ToFront(c, i, e)
<1>1. /\ Len(c) \in Nat
      /\ \A j \in 1..Len(c) : c[j] \in E
  OBVIOUS
<1>2. d \in [1..Len(c) -> E]
  BY <1>1 DEF ToFront
<1>3. d \in Seq(E) /\ Len(d) = Len(c)
  BY <1>1, <1>2, SeqDef, LenProperties
<1>4. \A j \in 1..Len(c) : d[j] = e \/ \E m \in 1..Len(c) : d[j] = c[m]
  BY <1>1 DEF ToFront
<1>5. UniqueKeys(d)
  BY <1>1, <1>3 DEF ToFront, UniqueKeys
<1> QED BY <1>3, <1>4, <1>5

(* Touch reorders the entries. *)
LEMMA TouchFacts ==
  ASSUME NEW E, NEW c \in Seq(E), NEW k, NEW n \in Nat,
         WellFormed(c, n), Contains(c, k)
  PROVE  /\ Touch(c, k) \in Seq(E)
         /\ WellFormed(Touch(c, k), n)
         /\ \A j \in 1..Len(Touch(c, k)) :
              \E m \in 1..Len(c) : Touch(c, k)[j] = c[m]
<1> DEFINE i == Position(c, k)
<1>1. i \in 1..Len(c)
  BY PositionIsOne DEF Positions
<1>2. c[i] \in E
  BY <1>1
<1>3. UniqueKeys(c) /\ Len(c) <= n
  BY DEF WellFormed
<1>4. \A j \in 1..Len(c) : c[j].key = c[i].key => j = i
  BY <1>1, <1>3 DEF UniqueKeys
<1> HIDE DEF i
<1>5. /\ ToFront(c, i, c[i]) \in Seq(E)
      /\ Len(ToFront(c, i, c[i])) = Len(c)
      /\ UniqueKeys(ToFront(c, i, c[i]))
      /\ \A j \in 1..Len(c) : \/ ToFront(c, i, c[i])[j] = c[i]
                              \/ \E m \in 1..Len(c) : ToFront(c, i, c[i])[j] = c[m]
  BY <1>1, <1>2, <1>3, <1>4, ToFrontFacts
<1>6. Touch(c, k) = ToFront(c, i, c[i])
  BY DEF Touch, i
<1> QED BY <1>1, <1>3, <1>5, <1>6 DEF WellFormed

(* Add keeps the cache well formed and brings in no entry but the new one. *)
LEMMA AddFacts ==
  ASSUME NEW K, NEW V, NEW c \in Seq(Entries(K, V)), NEW k \in K, NEW v \in V,
         NEW n \in Nat \ {0}, WellFormed(c, n)
  PROVE  /\ Add(c, k, v, n) \in Seq(Entries(K, V))
         /\ WellFormed(Add(c, k, v, n), n)
         /\ \A j \in 1..Len(Add(c, k, v, n)) :
              \/ Add(c, k, v, n)[j] = [key |-> k, value |-> v]
              \/ \E m \in 1..Len(c) : Add(c, k, v, n)[j] = c[m]
<1> DEFINE E == Entries(K, V)
           e == [key |-> k, value |-> v]
           d == Add(c, k, v, n)
<1>1. e \in E /\ e.key = k
  BY DEF Entries
<1>2. UniqueKeys(c) /\ Len(c) <= n /\ Len(c) \in Nat
  BY DEF WellFormed
<1> HIDE DEF E, e
<1> SUFFICES /\ d \in Seq(E) /\ WellFormed(d, n)
             /\ \A j \in 1..Len(d) : d[j] = e \/ \E m \in 1..Len(c) : d[j] = c[m]
  BY DEF E, e
<1>3. CASE Contains(c, k)
  <2> DEFINE i == Position(c, k)
  <2>1. i \in 1..Len(c) /\ c[i].key = k
    BY <1>3, PositionIsOne DEF Positions
  <2>2. \A j \in 1..Len(c) : c[j].key = e.key => j = i
    BY <1>1, <1>2, <2>1 DEF UniqueKeys
  <2>3. d = ToFront(c, i, e)
    BY <1>3 DEF Add, e
  <2> HIDE DEF i, d
  <2>4. c \in Seq(E)
    BY DEF E
  <2> QED BY <1>1, <1>2, <2>1, <2>2, <2>3, <2>4, ToFrontFacts DEF WellFormed
<1>4. CASE ~Contains(c, k) /\ Len(c) >= n
  <2>1. Len(c) \in 1..Len(c)
    BY <1>2, <1>4
  <2>2. \A j \in 1..Len(c) : c[j].key = e.key => j = Len(c)
    BY <1>1, <1>4 DEF Contains, Positions
  <2>3. d = ToFront(c, Len(c), e)
    BY <1>2, <1>4 DEF Add, e
  <2> HIDE DEF d
  <2>4. c \in Seq(E)
    BY DEF E
  <2> QED BY <1>1, <1>2, <2>1, <2>2, <2>3, <2>4, ToFrontFacts, SMTT(30) DEF WellFormed
<1>5. CASE ~Contains(c, k) /\ Len(c) < n
  <2>1. d = [j \in 1..(Len(c) + 1) |-> IF j = 1 THEN e ELSE c[j - 1]]
    BY <1>5 DEF Add, e
  <2> HIDE DEF d
  <2>2. \A j \in 1..Len(c) : c[j] \in E /\ c[j].key # e.key
    BY <1>1, <1>5 DEF Contains, Positions, E
  <2>3. d \in [1..(Len(c) + 1) -> E]
    BY <1>1, <1>2, <2>1, <2>2
  <2>4. d \in Seq(E) /\ Len(d) = Len(c) + 1
    BY <1>2, <2>3, SeqDef, LenProperties
  <2>5. UniqueKeys(d)
    BY <1>1, <1>2, <2>1, <2>2, <2>4 DEF UniqueKeys
  <2>6. \A j \in 1..Len(d) : d[j] = e \/ \E m \in 1..Len(c) : d[j] = c[m]
    <3> SUFFICES ASSUME NEW j \in 1..Len(d), j # 1
                 PROVE  \E m \in 1..Len(c) : d[j] = c[m]
      BY <1>2, <2>1, <2>4
    <3>1. j - 1 \in 1..Len(c) /\ d[j] = c[j - 1]
      BY <1>2, <2>1, <2>4
    <3> QED BY <3>1
  <2> QED BY <1>2, <1>5, <2>4, <2>5, <2>6 DEF WellFormed
<1> QED BY <1>2, <1>3, <1>4, <1>5

--------------------------------------------------------------------------------
(* The inductive invariant.  ServesItsOwnKey and the others say what is true of *)
(* a request at the end; Watched and Holds say what a goroutine knows on the way. *)

ListedIsEver == \A k \in Kinds : listed[k] \subseteq ever

(* What the history variables record of the two lists. *)
Watched(r) ==
  /\ seen[r] => key[r][1] \in ever
  /\ InFlight(r) =>
       \A k \in Kinds : /\ key[r][1] \in listed[k] => seen[r]
                        /\ key[r][1] \notin listed[k] => k \in missing[r]
  /\ inStacks[r] => seen[r]
  /\ pc[r] = "monoliths" /\ ~inStacks[r] => "TempoStack" \in missing[r]
  /\ pc[r] \in {"create", "add"} => seen[r]
  /\ answer[r] = "notListed" => missing[r] = Kinds

(* What the goroutine holds. *)
Holds(r) ==
  /\ IF pc[r] = "idle" THEN key[r] = NoKey ELSE key[r] \in Keys
  /\ pc[r] # "done" => answer[r] = "none"
  /\ pc[r] \in {"idle", "get"} => ~inStacks[r]
  /\ pc[r] \in {"add", "serve"} => proxy[r] \in Proxies
  /\ pc[r] \in {"add", "serve"} \/ answer[r] \in {"proxied", "badGateway"}
       => /\ proxy[r].target = key[r]
          /\ key[r][1] \in ever
  /\ caSeen[r] <= caFile.generation
  /\ pc[r] = "add" => proxy[r].ca >= caSeen[r]

Inv == /\ TypeOK
       /\ ListedIsEver
       /\ CacheWellFormed
       /\ CacheIsSound
       /\ CachedOnMissOnlyIfRaced
       /\ \A r \in Reqs : Watched(r) /\ Holds(r)

LEMMA InitInv == Init => Inv
<1> SUFFICES ASSUME Init PROVE Inv
  OBVIOUS
<1>1. TypeOK
  BY MaxRotationsAssumption DEF Init, TypeOK, Steps, Answers, NoProxy
<1>2. ListedIsEver
  BY DEF Init, ListedIsEver
<1>3. CacheWellFormed /\ CacheIsSound /\ CachedOnMissOnlyIfRaced
  BY CacheSizeAssumption
     DEF Init, CacheWellFormed, WellFormed, UniqueKeys, CacheIsSound,
         CachedOnMissOnlyIfRaced, OnMissPath
<1>4. \A r \in Reqs : Watched(r) /\ Holds(r)
  BY DEF Init, Watched, Holds, InFlight
<1> QED BY <1>1, <1>2, <1>3, <1>4 DEF Inv

(* A resource appears. *)
LEMMA PublishInv ==
  ASSUME Inv,
         NEW k \in Kinds,
         NEW i \in Instances,
         Publish(k, i)
  PROVE  Inv'
<1> USE DEF Inv
<1>1. TypeOK'
  BY DEF TypeOK, Publish, cluster, local, history, Answers
<1>2. ListedIsEver'
  BY DEF TypeOK, ListedIsEver, Publish, cluster, history
<1>3. CacheWellFormed' /\ CacheIsSound'
  BY DEF CacheWellFormed, CacheIsSound, Publish, cluster
<1>4. CachedOnMissOnlyIfRaced'
  BY DEF CachedOnMissOnlyIfRaced, OnMissPath, Contains, Positions, Publish,
         local
<1>5. ASSUME NEW q \in Reqs PROVE Watched(q)'
  <2>1. \A h \in Kinds : listed'[h] = IF h = k THEN listed[h] \union {i} ELSE listed[h]
    BY DEF TypeOK, Publish
  <2>2. seen'[q] = (seen[q] \/ (InFlight(q) /\ key[q][1] = i))
    BY DEF TypeOK, Publish
  <2>3. UNCHANGED <<pc, key, inStacks, missing, answer>> /\ ever' = ever \union {i}
    BY DEF Publish, local
  <2>4. Watched(q)
    OBVIOUS
  <2> QED BY <2>1, <2>2, <2>3, <2>4 DEF Watched, InFlight
<1>6. ASSUME NEW q \in Reqs PROVE Holds(q)'
  BY <1>1 DEF TypeOK, Holds, Publish, cluster, local
<1> QED BY <1>1, <1>2, <1>3, <1>4, <1>5, <1>6 DEF Inv

(* A resource goes away. *)
LEMMA WithdrawInv ==
  ASSUME Inv,
         NEW k \in Kinds,
         NEW i \in Instances,
         Withdraw(k, i)
  PROVE  Inv'
<1> USE DEF Inv
<1>1. TypeOK'
  BY DEF TypeOK, Withdraw, cluster, local, history, Answers
<1>2. ListedIsEver'
  BY DEF TypeOK, ListedIsEver, Withdraw, cluster, history
<1>3. CacheWellFormed' /\ CacheIsSound'
  BY DEF CacheWellFormed, CacheIsSound, Withdraw, cluster
<1>4. CachedOnMissOnlyIfRaced'
  BY DEF CachedOnMissOnlyIfRaced, OnMissPath, Contains, Positions, Withdraw,
         local
<1>5. ASSUME NEW q \in Reqs PROVE Watched(q)'
  BY <1>1 DEF TypeOK, Watched, InFlight, Withdraw, local
<1>6. ASSUME NEW q \in Reqs PROVE Holds(q)'
  BY <1>1 DEF Holds, Watched, InFlight, Withdraw, local
<1> QED BY <1>1, <1>2, <1>3, <1>4, <1>5, <1>6 DEF Inv

(* The CA file is rotated. *)
LEMMA RotateCAInv ==
  ASSUME Inv,
         RotateCA
  PROVE  Inv'
<1> USE DEF Inv
<1>1. TypeOK'
  <2>1. caFile' \in [generation : 0..MaxRotations, readable : BOOLEAN]
    <3>1. /\ caFile.generation \in 0..MaxRotations
          /\ caFile.readable \in BOOLEAN
          /\ caFile' = [generation |-> caFile.generation + 1,
                       readable |-> caFile.readable]
      BY DEF TypeOK, RotateCA
    <3>2. caFile.generation + 1 \in 0..MaxRotations
      BY <3>1, MaxRotationsAssumption DEF RotateCA
    <3> QED BY <3>1, <3>2
  <2> QED BY <2>1 DEF TypeOK, RotateCA, local, history
<1>2. ListedIsEver'
  BY DEF TypeOK, ListedIsEver, RotateCA, cluster, history
<1>3. CacheWellFormed' /\ CacheIsSound'
  BY DEF CacheWellFormed, CacheIsSound, RotateCA, history
<1>4. CachedOnMissOnlyIfRaced'
  BY DEF CachedOnMissOnlyIfRaced, OnMissPath, Contains, Positions, RotateCA,
         local, history
<1>5. ASSUME NEW q \in Reqs PROVE Watched(q)'
  BY <1>1 DEF Watched, InFlight, RotateCA, local, history
<1>6. ASSUME NEW q \in Reqs PROVE Holds(q)'
  BY <1>1 DEF TypeOK, Holds, Watched, InFlight, RotateCA, local, history
<1> QED BY <1>1, <1>2, <1>3, <1>4, <1>5, <1>6 DEF Inv

(* The CA file becomes readable or unreadable. *)
LEMMA ToggleCAInv ==
  ASSUME Inv,
         ToggleCA
  PROVE  Inv'
<1> USE DEF Inv
<1>1. TypeOK'
  BY MaxRotationsAssumption DEF TypeOK, ToggleCA, local, history
<1>2. ListedIsEver'
  BY DEF TypeOK, ListedIsEver, ToggleCA, local, history
<1>3. CacheWellFormed' /\ CacheIsSound'
  BY DEF CacheWellFormed, CacheIsSound, ToggleCA, history
<1>4. CachedOnMissOnlyIfRaced'
  BY DEF CachedOnMissOnlyIfRaced, OnMissPath, Contains, Positions, ToggleCA,
         local, history
<1>5. ASSUME NEW q \in Reqs PROVE Watched(q)'
  BY <1>1 DEF Watched, InFlight, ToggleCA, local, history
<1>6. ASSUME NEW q \in Reqs PROVE Holds(q)'
  BY <1>1 DEF Holds, Watched, InFlight, ToggleCA, local, history
<1> QED BY <1>1, <1>2, <1>3, <1>4, <1>5, <1>6 DEF Inv

(* A request arrives and a goroutine takes it. *)
LEMMA ArriveInv ==
  ASSUME Inv,
         NEW r \in Reqs,
         Arrive(r)
  PROVE  Inv'
<1> USE DEF Inv
<1>1. TypeOK'
  BY DEF TypeOK, Arrive, cluster, local, history, Steps
<1>2. ListedIsEver'
  BY DEF TypeOK, ListedIsEver, Arrive, cluster, history
<1>3. CacheWellFormed' /\ CacheIsSound'
  BY DEF CacheWellFormed, CacheIsSound, Arrive, cluster
<1>4. CachedOnMissOnlyIfRaced'
  BY DEF CachedOnMissOnlyIfRaced, OnMissPath, Contains, Positions, Arrive
<1>5. ASSUME NEW q \in Reqs PROVE Watched(q)'
  <2>1. CASE q # r
    BY <2>1 DEF TypeOK, Watched, InFlight, Arrive, cluster
  <2>2. CASE q = r
    <3>1. PICK w \in Keys : /\ key'[r] = w
                           /\ missing'[r] = {k \in Kinds : w[1] \notin listed[k]}
                           /\ seen'[r] = \E k \in Kinds : w[1] \in listed[k]
      BY DEF TypeOK, Arrive
    <3>2. pc'[r] = "get" /\ ~inStacks'[r] /\ answer'[r] = "none"
      BY DEF TypeOK, Arrive, Holds
    <3>3. ever' = ever /\ listed' = listed
      BY DEF Arrive, cluster
    <3> QED BY <2>2, <3>1, <3>2, <3>3 DEF Watched, ListedIsEver, InFlight
  <2> QED BY <2>1, <2>2
<1>6. ASSUME NEW q \in Reqs PROVE Holds(q)'
  BY <1>1 DEF TypeOK, Holds, Arrive, cluster, local, history
<1> QED BY <1>1, <1>2, <1>3, <1>4, <1>5, <1>6 DEF Inv

(* The cache has the key. *)
LEMMA CacheHitInv ==
  ASSUME Inv,
         NEW r \in Reqs,
         CacheHit(r)
  PROVE  Inv'
<1> USE DEF Inv
<1> DEFINE E == [key : Keys, value : Proxies]
<1>0. /\ cache' \in Seq(E)
      /\ WellFormed(cache', CacheSize)
      /\ \A j \in 1..Len(cache') : \E m \in 1..Len(cache) : cache'[j] = cache[m]
  BY CacheSizeAssumption, TouchFacts, CacheSize \in Nat
     DEF TypeOK, CacheHit, CacheWellFormed
<1>00. proxy'[r] \in Proxies /\ proxy'[r].target = key[r] /\ key[r][1] \in ever
  <2>1. Position(cache, key[r]) \in 1..Len(cache)
    BY PositionIsOne DEF CacheHit, Positions
  <2>2. cache[Position(cache, key[r])].key = key[r]
    BY PositionIsOne DEF CacheHit, Positions
  <2>3. cache[Position(cache, key[r])] \in E
    BY <2>1, ElementOfSeq DEF TypeOK
  <2> QED BY <2>1, <2>2, <2>3 DEF TypeOK, CacheHit, Lookup, CacheIsSound
<1>1. TypeOK'
  BY <1>0, <1>00 DEF TypeOK, CacheHit, cluster, history, Steps
<1>2. ListedIsEver'
  BY DEF TypeOK, ListedIsEver, CacheHit, cluster, history
<1>3. CacheWellFormed' /\ CacheIsSound'
  BY <1>0 DEF CacheWellFormed, CacheIsSound, CacheHit, history
<1>4. CachedOnMissOnlyIfRaced'
  <2>1. ASSUME NEW k, Contains(cache, k)' PROVE Contains(cache, k)
    BY <1>0, <2>1 DEF Contains, Positions
  <2> QED BY <2>1 DEF TypeOK, CachedOnMissOnlyIfRaced, OnMissPath, CacheHit, history
<1>5. ASSUME NEW q \in Reqs PROVE Watched(q)'
  BY <1>1 DEF Watched, InFlight, CacheHit, cluster, history
<1>6. ASSUME NEW q \in Reqs PROVE Holds(q)'
  BY <1>00 DEF TypeOK, Holds, CacheHit, cluster, history
<1> QED BY <1>1, <1>2, <1>3, <1>4, <1>5, <1>6 DEF Inv

(* The cache does not have the key. *)
LEMMA CacheMissInv ==
  ASSUME Inv,
         NEW r \in Reqs,
         CacheMiss(r)
  PROVE  Inv'
<1> USE DEF Inv
<1>1. TypeOK'
  BY DEF TypeOK, CacheMiss, cluster, local, history, Steps
<1>2. ListedIsEver'
  BY DEF TypeOK, ListedIsEver, CacheMiss, cluster, history
<1>3. CacheWellFormed' /\ CacheIsSound'
  BY DEF CacheWellFormed, CacheIsSound, CacheMiss, history
<1>4. CachedOnMissOnlyIfRaced'
  BY DEF CachedOnMissOnlyIfRaced, OnMissPath, Contains, Positions, CacheMiss,
         local, history
<1>5. ASSUME NEW q \in Reqs PROVE Watched(q)'
  BY <1>1 DEF Watched, InFlight, CacheMiss, cluster, local, history
<1>6. ASSUME NEW q \in Reqs PROVE Holds(q)'
  BY <1>1 DEF Holds, Watched, InFlight, CacheMiss, cluster, local, history
<1> QED BY <1>1, <1>2, <1>3, <1>4, <1>5, <1>6 DEF Inv

(* The first list call answers. *)
LEMMA ListStacksInv ==
  ASSUME Inv,
         NEW r \in Reqs,
         ListStacks(r)
  PROVE  Inv'
<1> USE DEF Inv
<1>1. TypeOK'
  BY DEF TypeOK, ListStacks, cluster, local, history, Steps
<1>2. ListedIsEver'
  BY DEF TypeOK, ListedIsEver, ListStacks, cluster, history
<1>3. CacheWellFormed' /\ CacheIsSound'
  BY DEF CacheWellFormed, CacheIsSound, ListStacks, history
<1>4. CachedOnMissOnlyIfRaced'
  BY DEF CachedOnMissOnlyIfRaced, OnMissPath, Contains, Positions, ListStacks,
         history
<1>5. ASSUME NEW q \in Reqs PROVE Watched(q)'
  BY <1>1 DEF TypeOK, Watched, InFlight, ListStacks, cluster, history, Kinds
<1>6. ASSUME NEW q \in Reqs PROVE Holds(q)'
  BY <1>1 DEF TypeOK, Holds, Watched, InFlight, ListStacks, cluster, history
<1> QED BY <1>1, <1>2, <1>3, <1>4, <1>5, <1>6 DEF Inv

(* The second list call answers, and the instance is looked up. *)
LEMMA ListMonolithsInv ==
  ASSUME Inv,
         NEW r \in Reqs,
         ListMonoliths(r)
  PROVE  Inv'
<1> USE DEF Inv
<1>1. TypeOK'
  BY DEF TypeOK, ListMonoliths, cluster, local, history, Fail, Steps, Answers
<1>2. ListedIsEver'
  BY DEF TypeOK, ListedIsEver, ListMonoliths, cluster, local, history
<1>3. CacheWellFormed' /\ CacheIsSound'
  BY DEF CacheWellFormed, CacheIsSound, ListMonoliths, cluster, history
<1>4. CachedOnMissOnlyIfRaced'
  BY SMTT(30) DEF TypeOK, CachedOnMissOnlyIfRaced, OnMissPath, Contains, Positions,
         ListMonoliths, Fail, local, history
<1>5. ASSUME NEW q \in Reqs PROVE Watched(q)'
  <2>1. /\ UNCHANGED <<cluster, local, history>>
        /\ q # r => pc'[q] = pc[q] /\ answer'[q] = answer[q]
    BY DEF TypeOK, ListMonoliths, Fail
  <2>2. CASE q # r
    BY <2>1, <2>2 DEF Watched, InFlight, cluster, local, history
  <2>3. CASE q = r
    <3>1. pc[r] = "monoliths" /\ Watched(r)
      BY DEF ListMonoliths
    <3>2. CASE Valid(r)
      <4>1. pc'[r] = "create" /\ answer'[r] = answer[r] /\ seen[r]
        BY <3>1, <3>2 DEF TypeOK, ListMonoliths, Valid, Watched, InFlight, Kinds
      <4> QED BY <2>1, <2>3, <3>1, <4>1
              DEF Watched, InFlight, cluster, local, history
    <3>3. CASE ~Valid(r)
      <4>1. pc'[r] = "done" /\ missing[r] = Kinds
        BY <3>1, <3>3
           DEF TypeOK, ListMonoliths, Fail, Valid, Watched, InFlight, Kinds
      <4> QED BY <2>1, <2>3, <3>1, <4>1
              DEF Watched, InFlight, cluster, local, history
    <3> QED BY <3>2, <3>3
  <2> QED BY <2>2, <2>3
<1>6. ASSUME NEW q \in Reqs PROVE Holds(q)'
  BY <1>1
     DEF TypeOK, Holds, Watched, InFlight, ListMonoliths, Fail, cluster,
         local, history
<1> QED BY <1>1, <1>2, <1>3, <1>4, <1>5, <1>6 DEF Inv

(* A list call fails. *)
LEMMA ListFailsInv ==
  ASSUME Inv,
         NEW r \in Reqs,
         ListFails(r)
  PROVE  Inv'
<1> USE DEF Inv
<1>1. TypeOK'
  BY DEF TypeOK, ListFails, cluster, local, history, Fail, Steps, Answers
<1>2. ListedIsEver'
  BY DEF TypeOK, ListedIsEver, ListFails, cluster, local, history
<1>3. CacheWellFormed' /\ CacheIsSound'
  BY DEF CacheWellFormed, CacheIsSound, ListFails, cluster, history
<1>4. CachedOnMissOnlyIfRaced'
  BY DEF CachedOnMissOnlyIfRaced, OnMissPath, Contains, Positions, ListFails,
         Fail, local, history
<1>5. ASSUME NEW q \in Reqs PROVE Watched(q)'
  BY <1>1 DEF Watched, InFlight, ListFails, Fail, cluster, local, history
<1>6. ASSUME NEW q \in Reqs PROVE Holds(q)'
  BY <1>1
     DEF TypeOK, Holds, Watched, InFlight, ListFails, Fail, cluster, local,
         history
<1> QED BY <1>1, <1>2, <1>3, <1>4, <1>5, <1>6 DEF Inv

(* A proxy is built from the CA file of the moment. *)
LEMMA CreateProxyInv ==
  ASSUME Inv,
         NEW r \in Reqs,
         CreateProxy(r)
  PROVE  Inv'
<1> USE DEF Inv
<1>0. proxy' \in [Reqs -> Proxies \union {NoProxy}]
  <2>1. [target |-> key[r], ca |-> caFile.generation] \in Proxies
    BY DEF TypeOK, CreateProxy, Holds, Proxies
  <2>2. proxy \in [Reqs -> Proxies \union {NoProxy}]
    BY DEF TypeOK
  <2>3. \/ proxy' = proxy
        \/ proxy' = [proxy EXCEPT ![r] =
                       [target |-> key[r], ca |-> caFile.generation]]
    BY DEF CreateProxy
  <2> QED BY <2>1, <2>2, <2>3
<1>1. TypeOK'
  BY <1>0 DEF TypeOK, CreateProxy, Fail, cluster, history, Steps, Answers
<1>2. ListedIsEver'
  BY DEF TypeOK, ListedIsEver, CreateProxy, cluster, history
<1>3. CacheWellFormed' /\ CacheIsSound'
  BY DEF CacheWellFormed, CacheIsSound, CreateProxy, history
<1>4. CachedOnMissOnlyIfRaced'
  BY DEF TypeOK, CachedOnMissOnlyIfRaced, OnMissPath, Contains, Positions,
         CreateProxy, Fail, history
<1>5. ASSUME NEW q \in Reqs PROVE Watched(q)'
  <2>1. UNCHANGED <<listed, key, inStacks, seen, missing, ever>>
    BY DEF CreateProxy, cluster, history
  <2>2. /\ pc'[q] \in {pc[q], "add", "done"}
        /\ pc'[q] # pc[q] => pc[q] = "create"
        /\ answer'[q] = "notListed" => answer[q] = "notListed"
    BY DEF TypeOK, CreateProxy, Fail
  <2>3. Watched(q)
    OBVIOUS
  <2> QED BY <2>1, <2>2, <2>3 DEF Watched, InFlight
<1>6. ASSUME NEW q \in Reqs PROVE Holds(q)'
  BY <1>1
     DEF TypeOK, Holds, Watched, CreateProxy, Fail, cluster, history, Proxies
<1> QED BY <1>1, <1>2, <1>3, <1>4, <1>5, <1>6 DEF Inv

(* The new proxy enters the cache, over another one perhaps. *)
LEMMA AddToCacheInv ==
  ASSUME Inv,
         NEW r \in Reqs,
         AddToCache(r)
  PROVE  Inv'
<1> USE DEF Inv
<1> DEFINE E == [key : Keys, value : Proxies]
           new == [key |-> key[r], value |-> proxy[r]]
<1>a. key[r] \in Keys /\ proxy[r] \in Proxies
  BY DEF AddToCache, Holds
<1>b. /\ cache' \in Seq(E)
      /\ WellFormed(cache', CacheSize)
      /\ \A j \in 1..Len(cache') : \/ cache'[j] = new
                                   \/ \E m \in 1..Len(cache) : cache'[j] = cache[m]
  <2>1. cache \in Seq(Entries(Keys, Proxies)) /\ WellFormed(cache, CacheSize)
    BY DEF TypeOK, CacheWellFormed, Entries
  <2>2. cache' = Add(cache, key[r], proxy[r], CacheSize)
    BY DEF AddToCache
  <2>3. E = Entries(Keys, Proxies)
    BY DEF Entries
  <2> HIDE DEF E
  <2> QED BY <1>a, <2>1, <2>2, <2>3, CacheSizeAssumption, AddFacts
<1>1. TypeOK'
  BY <1>b DEF TypeOK, AddToCache, cluster, local, Steps
<1>2. ListedIsEver'
  BY DEF TypeOK, ListedIsEver, AddToCache, cluster, history
<1>3. CacheWellFormed' /\ CacheIsSound'
  <2>1. new.value.target = new.key /\ new.key[1] \in ever /\ ever' = ever
    BY DEF AddToCache, Holds
  <2> QED BY <1>b, <2>1 DEF CacheWellFormed, CacheIsSound
<1>4. CachedOnMissOnlyIfRaced'
  <2>1. ASSUME NEW k, Contains(cache, k)', k # key[r] PROVE Contains(cache, k)
    BY <1>b, <2>1 DEF Contains, Positions
  <2> QED BY <2>1 DEF TypeOK, CachedOnMissOnlyIfRaced, OnMissPath, AddToCache, local
<1>5. ASSUME NEW q \in Reqs PROVE Watched(q)'
  BY <1>1 DEF Watched, InFlight, AddToCache, cluster, local
<1>6. ASSUME NEW q \in Reqs PROVE Holds(q)'
  BY <1>1 DEF Holds, Watched, InFlight, AddToCache, cluster, local
<1> QED BY <1>1, <1>2, <1>3, <1>4, <1>5, <1>6 DEF Inv

(* The proxy takes the request. *)
LEMMA ServeInv ==
  ASSUME Inv,
         NEW r \in Reqs,
         Serve(r)
  PROVE  Inv'
<1> USE DEF Inv
<1>1. TypeOK'
  BY DEF TypeOK, Serve, cluster, local, history, Steps, Answers
<1>2. ListedIsEver'
  BY DEF TypeOK, ListedIsEver, Serve, cluster, local, history
<1>3. CacheWellFormed' /\ CacheIsSound'
  BY DEF CacheWellFormed, CacheIsSound, Serve, cluster, history
<1>4. CachedOnMissOnlyIfRaced'
  BY DEF CachedOnMissOnlyIfRaced, OnMissPath, Contains, Positions, Serve,
         local, history
<1>5. ASSUME NEW q \in Reqs PROVE Watched(q)'
  BY <1>1 DEF Watched, InFlight, Serve, cluster, local, history
<1>6. ASSUME NEW q \in Reqs PROVE Holds(q)'
  BY <1>1 DEF TypeOK, Holds, Watched, InFlight, Serve, cluster, local, history
<1> QED BY <1>1, <1>2, <1>3, <1>4, <1>5, <1>6 DEF Inv

(* The goroutine ends. *)
LEMMA FinishInv ==
  ASSUME Inv,
         NEW r \in Reqs,
         Finish(r)
  PROVE  Inv'
<1> USE DEF Inv
<1>1. TypeOK'
  BY MaxRotationsAssumption
     DEF TypeOK, Finish, cluster, Steps, Answers
<1>2. ListedIsEver'
  BY DEF TypeOK, ListedIsEver, Finish, cluster, history
<1>3. CacheWellFormed' /\ CacheIsSound'
  BY DEF CacheWellFormed, CacheIsSound, Finish, cluster
<1>4. CachedOnMissOnlyIfRaced'
  BY DEF CachedOnMissOnlyIfRaced, OnMissPath, Contains, Positions, Finish
<1>5. ASSUME NEW q \in Reqs PROVE Watched(q)'
  BY <1>1 DEF TypeOK, Watched, InFlight, Finish, cluster
<1>6. ASSUME NEW q \in Reqs PROVE Holds(q)'
  BY <1>1 DEF TypeOK, Holds, Watched, InFlight, Finish, cluster
<1> QED BY <1>1, <1>2, <1>3, <1>4, <1>5, <1>6 DEF Inv

--------------------------------------------------------------------------------
(* Every step keeps the invariant. *)
LEMMA StepInv == Inv /\ [Next]_vars => Inv'
<1> SUFFICES ASSUME Inv, [Next]_vars PROVE Inv'
  OBVIOUS
<1>1. ASSUME NEW k \in Kinds, NEW i \in Instances, Publish(k, i) PROVE Inv'
  BY <1>1, PublishInv
<1>2. ASSUME NEW k \in Kinds, NEW i \in Instances, Withdraw(k, i) PROVE Inv'
  BY <1>2, WithdrawInv
<1>3. CASE RotateCA
  BY <1>3, RotateCAInv
<1>4. CASE ToggleCA
  BY <1>4, ToggleCAInv
<1>5. ASSUME NEW r \in Reqs, Arrive(r) \/ Finish(r) PROVE Inv'
  BY <1>5, ArriveInv, FinishInv
<1>6. ASSUME NEW r \in Reqs, Handle(r) PROVE Inv'
  BY <1>6, CacheHitInv, CacheMissInv, ListStacksInv, ListMonolithsInv,
     ListFailsInv, CreateProxyInv, AddToCacheInv, ServeInv DEF Handle
<1>7. CASE UNCHANGED vars
  BY <1>7 DEF vars, cluster, local, history, Inv, TypeOK, ListedIsEver,
     CacheWellFormed, CacheIsSound, CachedOnMissOnlyIfRaced, OnMissPath,
     Contains, Positions, Watched, Holds, InFlight
<1> QED BY <1>1, <1>2, <1>3, <1>4, <1>5, <1>6, <1>7 DEF Next, Environment

(* The invariant holds in every reachable state. *)
THEOREM Invariance == Spec => []Inv
<1>1. Init => Inv
  BY InitInv
<1>2. Inv /\ [Next]_vars => Inv'
  BY StepInv
<1> QED BY <1>1, <1>2, PTL DEF Spec

(* Every variable keeps its type, whatever is cached, evicted or overridden. *)
THEOREM TypeCorrect == Spec => []TypeOK
<1>1. Inv => TypeOK
  BY DEF Inv
<1> QED BY <1>1, Invariance, PTL

(* The cache never stores a key twice and never outgrows its size, although     *)
(* simultaneous misses all add (proxy.go:194-211).                              *)
THEOREM CacheBounded == Spec => []CacheWellFormed
<1>1. Inv => CacheWellFormed
  BY DEF Inv
<1> QED BY <1>1, Invariance, PTL

(* No entry leads to another tenant or to an instance that was never listed.    *)
THEOREM CacheSound == Spec => []CacheIsSound
<1>1. Inv => CacheIsSound
  BY DEF Inv
<1> QED BY <1>1, Invariance, PTL

(* A request is forwarded to the instance and tenant it named and to no other   *)
(* (ServeHTTP, proxy.go:174-215).                                               *)
THEOREM OwnKeyServed == Spec => []ServesItsOwnKey
<1>1. Inv => ServesItsOwnKey
  BY DEF Inv, Holds, ServesItsOwnKey
<1> QED BY <1>1, Invariance, PTL

(* A miss builds a proxy only for an instance that has been listed since the    *)
(* request came (proxy.go:198-211).                                             *)
THEOREM MissesValidated == Spec => []MissNeedsListing
<1>1. Inv => MissNeedsListing
  BY DEF Inv, Watched, MissNeedsListing
<1> QED BY <1>1, Invariance, PTL

(* "not found" is answered only if each of the two lists lacked the instance at *)
(* some time while the request was under way (lookupTempoResource,              *)
(* proxy.go:217-237).                                                           *)
THEOREM RefusalsJustified == Spec => []RefusalIsJustified
<1>1. Inv => RefusalIsJustified
  BY DEF Inv, Watched, RefusalIsJustified
<1> QED BY <1>1, Invariance, PTL

(* A proxy that is built trusts a CA no older than the file was when the        *)
(* request came (buildTLSConfig, proxy.go:70-94).                               *)
THEOREM MissesReadTheCA == Spec => []MissReadsTheCA
<1>1. Inv => MissReadsTheCA
  BY DEF Inv, Holds, MissReadsTheCA
<1> QED BY <1>1, Invariance, PTL

(* What a goroutine on the way of a miss finds cached under its key was put     *)
(* there meanwhile (proxy.go:194).                                              *)
THEOREM MissesRaceOnly == Spec => []CachedOnMissOnlyIfRaced
<1>1. Inv => CachedOnMissOnlyIfRaced
  BY DEF Inv
<1> QED BY <1>1, Invariance, PTL

--------------------------------------------------------------------------------
(* The refinement. *)

(* The initial states are initial states of ProxyDirectory. *)
LEMMA InitRefines == Init => Directory!DInit
BY DEF Init, Directory!DInit, Phase, Target, Directory!NoTarget, NoKey

(* How a step of goroutine r shows in ProxyDirectory. *)
LEMMA PhaseStep ==
  ASSUME Inv, NEW r \in Reqs, NEW s \in Steps, NEW a \in Answers,
         pc' = [pc EXCEPT ![r] = s], answer' = [answer EXCEPT ![r] = a],
         \A q \in Reqs : q # r => proxy'[q] = proxy[q]
  PROVE  /\ Phase' = [Phase EXCEPT ![r] = CASE s = "idle" -> "idle"
                                             [] s = "done" -> "answered"
                                             [] OTHER      -> "pending"]
         /\ Target' = [Target EXCEPT ![r] =
                          IF a \in {"proxied", "badGateway"}
                            THEN proxy'[r].target ELSE NoKey]
BY DEF Inv, TypeOK, Phase, Target

(* A step of a goroutine that neither starts nor answers its request stutters.  *)
LEMMA PendingStutters ==
  ASSUME Inv, Inv', NEW r \in Reqs, InFlight(r), InFlight(r)',
         pc' = [pc EXCEPT ![r] = pc'[r]],
         \A q \in Reqs : q # r => proxy'[q] = proxy[q],
         UNCHANGED <<listed, ever, key, missing, answer>>
  PROVE  UNCHANGED Directory!dvars
<1>1. Phase' = Phase
  BY DEF Phase, InFlight, Inv, TypeOK
<1>2. answer[r] = "none"
  BY DEF Inv, Holds, InFlight
<1>3. Target' = Target
  BY <1>2 DEF Target
<1> QED BY <1>1, <1>3 DEF Directory!dvars

(* An error answer of the handler is a refusal or a failure of ProxyDirectory.  *)
LEMMA FailRefines ==
  ASSUME Inv, Inv', NEW r \in Reqs, InFlight(r),
         NEW a \in {"notListed", "listError", "caError", "badPath"},
         a = "notListed" => missing[r] = Kinds,
         pc' = [pc EXCEPT ![r] = "done"], answer' = [answer EXCEPT ![r] = a],
         UNCHANGED <<listed, ever, key, missing, proxy>>
  PROVE  Directory!RefuseIt(r) \/ Directory!FailIt(r)
<1>1. Phase[r] = "pending"
  BY DEF Phase, InFlight
<1>2. /\ Phase' = [Phase EXCEPT ![r] = "answered"]
      /\ Target' = [Target EXCEPT ![r] = NoKey]
  BY PhaseStep, "done" \in Steps, a \in Answers DEF Steps, Answers
<1> QED BY <1>1, <1>2 DEF Directory!RefuseIt, Directory!FailIt, Directory!Answer,
       Directory!Refused, Directory!Failed, Directory!NoTarget, NoKey

(* Every step of the handler is a step of ProxyDirectory or a stutter. *)
LEMMA StepRefines ==
  ASSUME Inv, Inv', [Next]_vars
  PROVE  [Directory!DNext]_Directory!dvars
<1>1. ASSUME NEW k \in Kinds, NEW i \in Instances, Publish(k, i)
      PROVE  Directory!Publish(k, i)
  BY <1>1 DEF Publish, local, Directory!Publish, Phase, Target
<1>2. ASSUME NEW k \in Kinds, NEW i \in Instances, Withdraw(k, i)
      PROVE  Directory!Withdraw(k, i)
  BY <1>2 DEF Withdraw, local, Directory!Withdraw, Phase, Target, InFlight
<1>3. ASSUME RotateCA \/ ToggleCA \/ UNCHANGED vars
      PROVE  UNCHANGED Directory!dvars
  BY <1>3 DEF RotateCA, ToggleCA, vars, cluster, local, history,
              Directory!dvars, Phase, Target
<1>4. ASSUME NEW r \in Reqs, Arrive(r) PROVE Directory!Ask(r)
  <2>1. Phase[r] = "idle" /\ Phase' = [Phase EXCEPT ![r] = "pending"]
    BY <1>4 DEF Arrive, Phase, Inv, TypeOK
  <2>2. Target' = Target
    BY <1>4 DEF Arrive, Target
  <2> QED BY <1>4, <2>1, <2>2 DEF Arrive, cluster, Directory!Ask, Keys
<1>5. ASSUME NEW r \in Reqs, CacheHit(r) \/ CacheMiss(r) \/ ListStacks(r) \/ AddToCache(r)
      PROVE  UNCHANGED Directory!dvars
  <2>1. InFlight(r) /\ InFlight(r)' /\ pc' = [pc EXCEPT ![r] = pc'[r]]
    BY <1>5 DEF CacheHit, CacheMiss, ListStacks, AddToCache, InFlight, Inv, TypeOK
  <2>2. /\ UNCHANGED <<listed, ever, key, missing, answer>>
        /\ \A q \in Reqs : q # r => proxy'[q] = proxy[q]
    BY <1>5 DEF CacheHit, CacheMiss, ListStacks, AddToCache, cluster, local,
                history, Inv, TypeOK
  <2> QED BY <2>1, <2>2, PendingStutters
<1>6. ASSUME NEW r \in Reqs, ListMonoliths(r)
      PROVE  Directory!RefuseIt(r) \/ UNCHANGED Directory!dvars
  <2>1. CASE Valid(r)
    <3>1. InFlight(r) /\ InFlight(r)' /\ pc' = [pc EXCEPT ![r] = pc'[r]]
      BY <1>6, <2>1 DEF ListMonoliths, InFlight, Inv, TypeOK
    <3>2. UNCHANGED <<listed, ever, key, missing, answer, proxy>>
      BY <1>6, <2>1 DEF ListMonoliths, cluster, local, history
    <3> QED BY <3>1, <3>2, PendingStutters
  <2>2. CASE ~Valid(r)
    <3>1. "TempoStack" \in missing[r] /\ "TempoMonolithic" \in missing[r]
      BY <1>6, <2>2 DEF ListMonoliths, Valid, Inv, Watched, InFlight, Kinds
    <3>2. missing[r] = Kinds
      BY <3>1 DEF Inv, TypeOK, Kinds
    <3>3. /\ InFlight(r) /\ pc' = [pc EXCEPT ![r] = "done"]
          /\ answer' = [answer EXCEPT ![r] = "notListed"]
          /\ UNCHANGED <<listed, ever, key, missing, proxy>>
      BY <1>6, <2>2 DEF ListMonoliths, Fail, InFlight, cluster, local, history
    <3>4. Directory!RefuseIt(r) \/ Directory!FailIt(r)
      BY <3>2, <3>3, FailRefines
    <3>5. answer'[r] = "notListed"
      BY <3>3 DEF Inv, TypeOK
    <3>6. ~Directory!FailIt(r)
      BY <3>5 DEF Directory!FailIt, Directory!Answer, Directory!Failed, Inv, TypeOK
    <3> QED BY <3>4, <3>6
  <2> QED BY <2>1, <2>2
<1>7. ASSUME NEW r \in Reqs, ListFails(r)
      PROVE  Directory!RefuseIt(r) \/ Directory!FailIt(r)
  BY <1>7, FailRefines DEF ListFails, Fail, InFlight, cluster, local, history
<1>8. ASSUME NEW r \in Reqs, CreateProxy(r)
      PROVE  \/ Directory!RefuseIt(r) \/ Directory!FailIt(r)
             \/ UNCHANGED Directory!dvars
  <2>1. CASE caFile.readable
    <3>1. InFlight(r) /\ InFlight(r)' /\ pc' = [pc EXCEPT ![r] = pc'[r]]
      BY <1>8, <2>1 DEF CreateProxy, InFlight, Inv, TypeOK
    <3>2. /\ UNCHANGED <<listed, ever, key, missing, answer>>
          /\ \A q \in Reqs : q # r => proxy'[q] = proxy[q]
      BY <1>8, <2>1 DEF CreateProxy, cluster, history, Inv, TypeOK
    <3> QED BY <3>1, <3>2, PendingStutters
  <2>2. CASE ~caFile.readable
    BY <1>8, <2>2, FailRefines DEF CreateProxy, Fail, InFlight, cluster, history
  <2> QED BY <2>1, <2>2
<1>9. ASSUME NEW r \in Reqs, Serve(r)
      PROVE  Directory!ForwardIt(r) \/ Directory!RefuseIt(r) \/ Directory!FailIt(r)
  <2>1. /\ InFlight(r) /\ pc' = [pc EXCEPT ![r] = "done"]
        /\ UNCHANGED <<listed, ever, key, missing, proxy>>
    BY <1>9 DEF Serve, InFlight, cluster, local, history
  <2>2. PICK a \in {"badPath", "proxied", "badGateway"} :
          answer' = [answer EXCEPT ![r] = a]
    BY <1>9 DEF Serve
  <2>3. CASE a = "badPath"
    BY <2>1, <2>2, <2>3, FailRefines
  <2>4. CASE a # "badPath"
    <3>1. /\ Phase' = [Phase EXCEPT ![r] = "answered"]
          /\ Target' = [Target EXCEPT ![r] = proxy[r].target]
      BY <2>1, <2>2, <2>4, PhaseStep DEF Steps, Answers
    <3>2. proxy[r].target = key[r] /\ key[r][1] \in ever
      BY <1>9 DEF Serve, Inv, Holds
    <3>3. Phase[r] = "pending"
      BY <2>1 DEF Phase, InFlight
    <3> QED BY <2>1, <2>2, <2>4, <3>1, <3>2, <3>3
            DEF Directory!ForwardIt, Directory!Answer, Directory!Forwarded
  <2> QED BY <2>2, <2>3, <2>4
<1>10. ASSUME NEW r \in Reqs, Finish(r) PROVE Directory!Retire(r)
  <2>1. Phase[r] = "answered"
    BY <1>10 DEF Finish, Phase
  <2>2. /\ Phase' = [Phase EXCEPT ![r] = "idle"]
        /\ Target' = [Target EXCEPT ![r] = NoKey]
    BY <1>10 DEF Finish, Phase, Target, Inv, TypeOK
  <2> QED BY <1>10, <2>1, <2>2
          DEF Finish, cluster, Directory!Retire, Directory!NoTarget, NoKey
<1> QED BY <1>1, <1>2, <1>3, <1>4, <1>5, <1>6, <1>7, <1>8, <1>9, <1>10
        DEF Next, Environment, Handle, Directory!DNext

(* The handler with its cache, its races and its evictions keeps the promise of *)
(* ProxyDirectory: every answer is one the specification without a cache gives. *)
THEOREM Refinement == Spec => ImplementsDirectory
<1>1. Init => Directory!DInit
  BY InitRefines
<1>2. Inv /\ Inv' /\ [Next]_vars => [Directory!DNext]_Directory!dvars
  BY StepRefines
<1> QED BY <1>1, <1>2, Invariance, PTL
        DEF Spec, ImplementsDirectory, Directory!DSpec
================================================================================
