---------------------------- MODULE ProxyDirectory -----------------------------
(* What the proxy endpoint promises its clients, without its cache: a request   *)
(* for <<instance, tenant>> is forwarded to exactly that instance and tenant,   *)
(* and only if the cluster has listed the instance at some time; it is refused  *)
(* as "not a valid Tempo resource" only if the instance was missing from both   *)
(* lists at some time while the request was pending; any other answer is an     *)
(* internal error.                                                              *)
EXTENDS Naturals

CONSTANTS Reqs, Instances, Tenants, Kinds

VARIABLES
  listed,     \* [Kinds -> SUBSET Instances]: what the cluster would list now
  ever,       \* instances that have been listed at some time
  phase,      \* [Reqs -> {"idle", "pending", "answered"}]
  key,        \* [Reqs -> (Instances \X Tenants) \union {NoTarget}]: what was asked
  missing,    \* [Reqs -> SUBSET Kinds]: lists that lacked the instance meanwhile
  answer,     \* [Reqs -> Answers]
  target      \* [Reqs -> {NoTarget} \union (Instances \X Tenants)]: who got it

dvars == <<listed, ever, phase, key, missing, answer, target>>

NoTarget == <<>>

Forwarded == {"proxied", "badGateway"}
Refused   == {"notListed"}
Failed    == {"listError", "caError", "badPath"}
Answers   == {"none"} \union Forwarded \union Refused \union Failed

DInit == /\ listed \in [Kinds -> SUBSET Instances]
         /\ ever = UNION {listed[k] : k \in Kinds}
         /\ phase = [r \in Reqs |-> "idle"]
         /\ key = [r \in Reqs |-> NoTarget]
         /\ missing = [r \in Reqs |-> {}]
         /\ answer = [r \in Reqs |-> "none"]
         /\ target = [r \in Reqs |-> NoTarget]

Publish(k, i) == /\ listed' = [listed EXCEPT ![k] = @ \union {i}]
                 /\ ever' = ever \union {i}
                 /\ UNCHANGED <<phase, key, missing, answer, target>>

Withdraw(k, i) == /\ listed' = [listed EXCEPT ![k] = @ \ {i}]
                  /\ missing' = [r \in Reqs |->
                       IF phase[r] = "pending" /\ key[r][1] = i
                         THEN missing[r] \union {k} ELSE missing[r]]
                  /\ UNCHANGED <<ever, phase, key, answer, target>>

Ask(r) == /\ phase[r] = "idle"
          /\ \E q \in Instances \X Tenants :
               /\ key' = [key EXCEPT ![r] = q]
               /\ missing' = [missing EXCEPT ![r] =
                                {k \in Kinds : q[1] \notin listed[k]}]
          /\ phase' = [phase EXCEPT ![r] = "pending"]
          /\ UNCHANGED <<listed, ever, answer, target>>

Answer(r, as, to) == /\ \E a \in as : answer' = [answer EXCEPT ![r] = a]
                     /\ target' = [target EXCEPT ![r] = to]
                     /\ phase' = [phase EXCEPT ![r] = "answered"]
                     /\ UNCHANGED <<listed, ever, key, missing>>

ForwardIt(r) == /\ phase[r] = "pending"
                /\ key[r][1] \in ever
                /\ Answer(r, Forwarded, key[r])

RefuseIt(r)  == /\ phase[r] = "pending"
                /\ missing[r] = Kinds
                /\ Answer(r, Refused, NoTarget)

FailIt(r)    == /\ phase[r] = "pending"
                /\ Answer(r, Failed, NoTarget)

Retire(r) == /\ phase[r] = "answered"
             /\ phase' = [phase EXCEPT ![r] = "idle"]
             /\ key' = [key EXCEPT ![r] = NoTarget]
             /\ missing' = [missing EXCEPT ![r] = {}]
             /\ answer' = [answer EXCEPT ![r] = "none"]
             /\ target' = [target EXCEPT ![r] = NoTarget]
             /\ UNCHANGED <<listed, ever>>

DNext == \/ \E k \in Kinds, i \in Instances : Publish(k, i) \/ Withdraw(k, i)
         \/ \E r \in Reqs : Ask(r) \/ ForwardIt(r) \/ RefuseIt(r) \/ FailIt(r)
                            \/ Retire(r)

DSpec == DInit /\ [][DNext]_dvars

(* Every request that was asked is answered. *)
DAnswered == \A r \in Reqs : phase[r] = "pending" ~> phase[r] = "answered"
================================================================================
