------------------------------ MODULE ProxyCache -------------------------------
(* The proxy endpoint of the Go backend (pkg/proxy/proxy.go): net/http runs one *)
(* goroutine per request, all of them share one LRU cache of reverse proxies,   *)
(* and meanwhile the cluster's Tempo resources and the CA file change.  A step  *)
(* is what a goroutine does between two points where another can run: a cache   *)
(* operation, one list call to the API server, the read of the CA file.         *)
(*                                                                              *)
(* A Tempo resource is abstracted to whether listTempos returns it (module      *)
(* TempoResources models which ones it returns).  A cancelled request makes a   *)
(* list call fail and nothing else, which ListFails allows at any time.         *)
EXTENDS LRU

CONSTANTS
  Reqs,            \* request goroutines; one is reused when it is done
  Instances,       \* namespace/name pairs
  Tenants,         \* values of the {tenant} path parameter
  EscapedTenants,  \* those of them that url.PathEscape changes
  CacheSize,       \* 128 in the code
  MaxRotations     \* bound on the rotations of the CA file

ASSUME CacheSizeAssumption == CacheSize \in Nat \ {0}
ASSUME MaxRotationsAssumption == MaxRotations \in Nat
ASSUME TenantsAssumption == EscapedTenants \subseteq Tenants

Kinds == {"TempoStack", "TempoMonolithic"}

Keys == Instances \X Tenants

(* A reverse proxy: the gateway it sends to, named by the instance and tenant   *)
(* that are part of its URL, and the CA it trusts.                              *)
Proxies == [target : Keys, ca : 0..MaxRotations]

NoKey == <<>>

NoProxy == [target |-> NoKey, ca |-> 0]

VARIABLES
  listed,     \* [Kinds -> SUBSET Instances]: what a list call returns now
  caFile,     \* [generation, readable]: the file named by serviceCAfile
  cache,      \* proxyCache
  pc,         \* [Reqs -> Steps]: where each goroutine is in ServeHTTP
  key,        \* [Reqs -> Keys \union {NoKey}]: cacheKey
  inStacks,   \* [Reqs -> BOOLEAN]: the first list call returned the instance
  proxy,      \* [Reqs -> Proxies \union {NoProxy}]
  answer,     \* [Reqs -> Answers]: how the request was answered
  (* History, read by the properties only. *)
  ever,       \* instances that have been listed at some time
  missing,    \* [Reqs -> SUBSET Kinds]: lists that lacked the instance since r came
  seen,       \* [Reqs -> BOOLEAN]: a list has had the instance since r came
  caSeen,     \* [Reqs -> Nat]: generation of the CA file when r came
  raced       \* [Reqs -> BOOLEAN]: another request added r's key after r missed it

cluster == <<listed, caFile>>
local   == <<key, inStacks, proxy>>
history == <<ever, missing, seen, caSeen, raced>>
vars    == <<cluster, cache, pc, local, answer, history>>

Steps == {"idle", "get", "stacks", "monoliths", "create", "add", "serve", "done"}

Answers == {"none", "proxied", "badGateway", "badPath", "notListed",
            "listError", "caError"}

InFlight(r) == pc[r] \notin {"idle", "done"}

(* Between a miss and the Add that answers it. *)
OnMissPath(r) == pc[r] \in {"stacks", "monoliths", "create", "add"}

TypeOK ==
  /\ listed \in [Kinds -> SUBSET Instances]
  /\ caFile \in [generation : 0..MaxRotations, readable : BOOLEAN]
  /\ cache \in Seq([key : Keys, value : Proxies])
  /\ pc \in [Reqs -> Steps]
  /\ key \in [Reqs -> Keys \union {NoKey}]
  /\ inStacks \in [Reqs -> BOOLEAN]
  /\ proxy \in [Reqs -> Proxies \union {NoProxy}]
  /\ answer \in [Reqs -> Answers]
  /\ ever \in SUBSET Instances
  /\ missing \in [Reqs -> SUBSET Kinds]
  /\ seen \in [Reqs -> BOOLEAN]
  /\ caSeen \in [Reqs -> 0..MaxRotations]
  /\ raced \in [Reqs -> BOOLEAN]

Init ==
  /\ listed \in [Kinds -> SUBSET Instances]
  /\ caFile \in [generation : {0}, readable : BOOLEAN]
  /\ cache = <<>>
  /\ pc = [r \in Reqs |-> "idle"]
  /\ key = [r \in Reqs |-> NoKey]
  /\ inStacks = [r \in Reqs |-> FALSE]
  /\ proxy = [r \in Reqs |-> NoProxy]
  /\ answer = [r \in Reqs |-> "none"]
  /\ ever = UNION {listed[k] : k \in Kinds}
  /\ missing = [r \in Reqs |-> {}]
  /\ seen = [r \in Reqs |-> FALSE]
  /\ caSeen = [r \in Reqs |-> 0]
  /\ raced = [r \in Reqs |-> FALSE]

--------------------------------------------------------------------------------
(* The environment: resources are created, edited and deleted, the CA file is   *)
(* rotated, and it may be missing or hold no certificate for a while.           *)

Publish(k, i) ==
  /\ i \notin listed[k]
  /\ listed' = [listed EXCEPT ![k] = @ \union {i}]
  /\ ever' = ever \union {i}
  /\ seen' = [r \in Reqs |-> seen[r] \/ (InFlight(r) /\ key[r][1] = i)]
  /\ UNCHANGED <<caFile, cache, pc, local, answer, missing, caSeen, raced>>

Withdraw(k, i) ==
  /\ i \in listed[k]
  /\ listed' = [listed EXCEPT ![k] = @ \ {i}]
  /\ missing' = [r \in Reqs |-> IF InFlight(r) /\ key[r][1] = i
                                  THEN missing[r] \union {k} ELSE missing[r]]
  /\ UNCHANGED <<caFile, cache, pc, local, answer, ever, seen, caSeen, raced>>

RotateCA ==
  /\ caFile.generation < MaxRotations
  /\ caFile' = [caFile EXCEPT !.generation = @ + 1]
  /\ UNCHANGED <<listed, cache, pc, local, answer, history>>

ToggleCA ==
  /\ caFile' = [caFile EXCEPT !.readable = ~@]
  /\ UNCHANGED <<listed, cache, pc, local, answer, history>>

--------------------------------------------------------------------------------
(* ServeHTTP, step by step. *)

(* The router only matches three path segments that are not empty, so the two   *)
(* 400 answers of ServeHTTP are not reached.                                    *)
Arrive(r) ==
  /\ pc[r] = "idle"
  /\ pc' = [pc EXCEPT ![r] = "get"]
  /\ \E q \in Keys :
       /\ key' = [key EXCEPT ![r] = q]
       /\ missing' = [missing EXCEPT ![r] = {k \in Kinds : q[1] \notin listed[k]}]
       /\ seen' = [seen EXCEPT ![r] = \E k \in Kinds : q[1] \in listed[k]]
  /\ caSeen' = [caSeen EXCEPT ![r] = caFile.generation]
  /\ UNCHANGED <<cluster, cache, inStacks, proxy, answer, ever, raced>>

(* Mutant: the cache key lacks the tenant. *)
CacheHitAnyTenant(r) ==
  /\ pc[r] = "get"
  /\ \E j \in 1..Len(cache) :
       /\ cache[j].key[1] = key[r][1]
       /\ proxy' = [proxy EXCEPT ![r] = cache[j].value]
  /\ pc' = [pc EXCEPT ![r] = "serve"]
  /\ UNCHANGED <<cluster, cache, key, inStacks, answer, history>>

CacheHit(r) ==
  /\ pc[r] = "get"
  /\ Contains(cache, key[r])
  /\ proxy' = [proxy EXCEPT ![r] = Lookup(cache, key[r])]
  /\ cache' = Touch(cache, key[r])
  /\ pc' = [pc EXCEPT ![r] = "serve"]
  /\ UNCHANGED <<cluster, key, inStacks, answer, history>>

(* Mutant: the lookup is not consulted before a proxy is built. *)
CacheMissAlways(r) ==
  /\ pc[r] = "get"
  /\ pc' = [pc EXCEPT ![r] = "stacks"]
  /\ UNCHANGED <<cluster, cache, local, answer, history>>

CacheMiss(r) ==
  /\ pc[r] = "get"
  /\ ~Contains(cache, key[r])
  /\ pc' = [pc EXCEPT ![r] = "stacks"]
  /\ UNCHANGED <<cluster, cache, local, answer, history>>

(* The handler writes an error response and returns. *)
Fail(r, a) ==
  /\ pc' = [pc EXCEPT ![r] = "done"]
  /\ answer' = [answer EXCEPT ![r] = a]

(* The two list calls of ListTempoResources, the stacks first. *)
ListStacks(r) ==
  /\ pc[r] = "stacks"
  /\ inStacks' = [inStacks EXCEPT ![r] = key[r][1] \in listed["TempoStack"]]
  /\ pc' = [pc EXCEPT ![r] = "monoliths"]
  /\ UNCHANGED <<cluster, cache, key, proxy, answer, history>>

(* Mutants: the search accepts everything, wants both lists, or reads a list    *)
(* that is never refreshed.                                                     *)
ValidUnchecked(r) == TRUE
ValidInBoth(r)    == inStacks[r] /\ key[r][1] \in listed["TempoMonolithic"]
ValidEver(r)      == key[r][1] \in ever

(* The second list call and the search of lookupTempoResource. *)
Valid(r) == inStacks[r] \/ key[r][1] \in listed["TempoMonolithic"]

ListMonoliths(r) ==
  /\ pc[r] = "monoliths"
  /\ \/ /\ Valid(r)
        /\ pc' = [pc EXCEPT ![r] = "create"]
        /\ UNCHANGED answer
     \/ /\ ~Valid(r)
        /\ Fail(r, "notListed")
  /\ UNCHANGED <<cluster, cache, local, history>>

(* Mutant: a failed list call is taken for an empty list. *)
ListFailsEmpty(r) ==
  /\ pc[r] \in {"stacks", "monoliths"}
  /\ Fail(r, "notListed")
  /\ UNCHANGED <<cluster, cache, local, history>>

(* Either call fails: API server, permissions, CRD missing, client gone. *)
ListFails(r) ==
  /\ pc[r] \in {"stacks", "monoliths"}
  /\ Fail(r, "listError")
  /\ UNCHANGED <<cluster, cache, local, history>>

(* Mutants: the error of buildTLSConfig is ignored; the CA is read once, at      *)
(* start; the handler waits for the CA file.                                    *)
CreateProxyUnchecked(r) ==
  /\ pc[r] = "create"
  /\ IF caFile.readable
       THEN proxy' = [proxy EXCEPT ![r] = [target |-> key[r], ca |-> caFile.generation]]
       ELSE UNCHANGED proxy
  /\ pc' = [pc EXCEPT ![r] = "add"]
  /\ UNCHANGED <<cluster, cache, key, inStacks, answer, history>>

CreateProxyCAOnce(r) ==
  /\ pc[r] = "create"
  /\ proxy' = [proxy EXCEPT ![r] = [target |-> key[r], ca |-> 0]]
  /\ pc' = [pc EXCEPT ![r] = "add"]
  /\ UNCHANGED <<cluster, cache, key, inStacks, answer, history>>

CreateProxyWaits(r) ==
  /\ pc[r] = "create"
  /\ caFile.readable
  /\ proxy' = [proxy EXCEPT ![r] = [target |-> key[r], ca |-> caFile.generation]]
  /\ pc' = [pc EXCEPT ![r] = "add"]
  /\ UNCHANGED <<cluster, cache, key, inStacks, answer, history>>

(* createProxy reads the CA file anew for every proxy.  The target does not     *)
(* depend on the kind: listTempos returns multi-tenant instances only.          *)
CreateProxy(r) ==
  /\ pc[r] = "create"
  /\ \/ /\ caFile.readable
        /\ proxy' = [proxy EXCEPT ![r] =
                       [target |-> key[r], ca |-> caFile.generation]]
        /\ pc' = [pc EXCEPT ![r] = "add"]
        /\ UNCHANGED answer
     \/ /\ ~caFile.readable
        /\ Fail(r, "caError")
        /\ UNCHANGED proxy
  /\ UNCHANGED <<cluster, cache, key, inStacks, history>>

(* Mutant: a list that is only ever added to. *)
AddToCacheUnbounded(r) ==
  /\ pc[r] = "add"
  /\ cache' = <<[key |-> key[r], value |-> proxy[r]]>> \o cache
  /\ pc' = [pc EXCEPT ![r] = "serve"]
  /\ raced' = [q \in Reqs |-> raced[q] \/ (q # r /\ OnMissPath(q) /\ key[q] = key[r])]
  /\ UNCHANGED <<cluster, local, answer, ever, missing, seen, caSeen>>

AddToCache(r) ==
  /\ pc[r] = "add"
  /\ cache' = Add(cache, key[r], proxy[r], CacheSize)
  /\ pc' = [pc EXCEPT ![r] = "serve"]
  /\ raced' = [q \in Reqs |-> raced[q] \/ (q # r /\ OnMissPath(q) /\ key[q] = key[r])]
  /\ UNCHANGED <<cluster, local, answer, ever, missing, seen, caSeen>>

(* http.StripPrefix looks for the escaped prefix in the decoded path, so a      *)
(* tenant that url.PathEscape changes is answered 404.  Otherwise the request   *)
(* goes upstream, and ErrorHandler answers 502 when that fails.                 *)
Serve(r) ==
  /\ pc[r] = "serve"
  /\ pc' = [pc EXCEPT ![r] = "done"]
  /\ \E a \in IF key[r][2] \in EscapedTenants THEN {"badPath"}
              ELSE {"proxied", "badGateway"} : answer' = [answer EXCEPT ![r] = a]
  /\ UNCHANGED <<cluster, cache, local, history>>

(* The goroutine ends, and what it knew with it. *)
Finish(r) ==
  /\ pc[r] = "done"
  /\ pc' = [pc EXCEPT ![r] = "idle"]
  /\ key' = [key EXCEPT ![r] = NoKey]
  /\ inStacks' = [inStacks EXCEPT ![r] = FALSE]
  /\ proxy' = [proxy EXCEPT ![r] = NoProxy]
  /\ answer' = [answer EXCEPT ![r] = "none"]
  /\ missing' = [missing EXCEPT ![r] = {}]
  /\ seen' = [seen EXCEPT ![r] = FALSE]
  /\ caSeen' = [caSeen EXCEPT ![r] = 0]
  /\ raced' = [raced EXCEPT ![r] = FALSE]
  /\ UNCHANGED <<cluster, cache, ever>>

Handle(r) == \/ CacheHit(r) \/ CacheMiss(r)
             \/ ListStacks(r) \/ ListMonoliths(r) \/ ListFails(r)
             \/ CreateProxy(r) \/ AddToCache(r) \/ Serve(r)

Environment == \/ \E k \in Kinds, i \in Instances : Publish(k, i) \/ Withdraw(k, i)
               \/ RotateCA \/ ToggleCA

Next == Environment \/ \E r \in Reqs : Arrive(r) \/ Handle(r) \/ Finish(r)

Spec == Init /\ [][Next]_vars

(* A goroutine that can run is scheduled, and a list call ends: with an answer, *)
(* with an error, or because the client or the connection went away.            *)
FairSpec == Spec /\ \A r \in Reqs : WF_vars(Handle(r))

--------------------------------------------------------------------------------
(* Correctness. *)

(* The cache never holds two proxies for one key and never outgrows its size,   *)
(* although two requests that missed at the same time both add (proxy.go:194).  *)
CacheWellFormed == WellFormed(cache, CacheSize)

(* What is cached under a key is a proxy to the gateway of that instance and    *)
(* that tenant, and the instance was validated against the cluster when it got  *)
(* there: no interleaving of misses, overrides and evictions plants a proxy of  *)
(* another tenant or of an instance that was never listed.                      *)
CacheIsSound ==
  \A j \in 1..Len(cache) : /\ cache[j].value.target = cache[j].key
                           /\ cache[j].key[1] \in ever

(* A request is forwarded to the instance and tenant it named.                  *)
ServesItsOwnKey ==
  \A r \in Reqs : pc[r] = "serve" \/ answer[r] \in {"proxied", "badGateway"}
                     => proxy[r].target = key[r]

(* A request that missed the cache gets a proxy only if a list has had the      *)
(* instance since the request came: an instance that was deleted before can be  *)
(* reached only through an entry cached while it existed.                       *)
MissNeedsListing ==
  \A r \in Reqs : pc[r] \in {"create", "add"} => seen[r]

(* "not a valid Tempo resource" is answered only if each of the two lists lacked *)
(* the instance at some time since the request came (not necessarily at the     *)
(* same time: the two list calls are not one snapshot).                         *)
RefusalIsJustified ==
  \A r \in Reqs : answer[r] = "notListed" => missing[r] = Kinds

(* A request that missed the cache leaves a proxy in it that trusts a CA no     *)
(* older than the CA file was when the request came, so that an eviction is     *)
(* enough to pick up a rotation.                                                *)
MissReadsTheCA ==
  \A r \in Reqs : pc[r] = "add" => proxy[r].ca >= caSeen[r]

(* The key of a request on the miss path is cached only if another request for  *)
(* it has added it meanwhile.                                                   *)
CachedOnMissOnlyIfRaced ==
  \A r \in Reqs : OnMissPath(r) /\ Contains(cache, key[r]) => raced[r]

(* The proxy endpoint keeps the promise of ProxyDirectory.                      *)
Phase == [r \in Reqs |-> CASE pc[r] = "idle" -> "idle"
                           [] pc[r] = "done" -> "answered"
                           [] OTHER          -> "pending"]

Target == [r \in Reqs |-> IF answer[r] \in {"proxied", "badGateway"}
                            THEN proxy[r].target ELSE NoKey]

Directory == INSTANCE ProxyDirectory WITH phase <- Phase, target <- Target

ImplementsDirectory == Directory!DSpec

(* Every request is answered, whatever the other requests, the API server and   *)
(* the CA file do.                                                              *)
EveryRequestAnswered == Directory!DAnswered

(* A request that reached the handler is forwarded to Tempo or refused for one  *)
(* of the reasons ServeHTTP handles: the instance, the list or the CA.  The     *)
(* comment at server.go:165 says the route forwards requests to an instance.    *)
NeverLosesThePath == \A r \in Reqs : answer[r] # "badPath"
================================================================================
