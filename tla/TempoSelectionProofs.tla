-------------------------- MODULE TempoSelectionProofs -------------------------
(* Proofs about TempoResources and TempoSelection, for any tenants, custom      *)
(* resources, shapes of them and number of changes of the cluster.              *)
EXTENDS TempoSelection, TLAPS

--------------------------------------------------------------------------------
(* The list that the backend makes. *)

(* What is read out of a resource is a list of tenants that it declares.        *)
LEMMA TenancyIsDeclared ==
  ASSUME NEW r \in Resources, ReadTenantsFromCR(r).ok
  PROVE  /\ ReadTenantsFromCR(r).tenants \in Seq(Tenants)
         /\ \A i \in DOMAIN ReadTenantsFromCR(r).tenants :
              ReadTenantsFromCR(r).tenants[i] \in Declared(r)
<1> DEFINE list == r.spec.entries
           names == ReadTenantsFromCR(r)
<1>1. r.spec \in Specs /\ r.kind \in Kinds
  BY DEF Resources
<1>2. list \in Seq(Tenants \union {Bad})
  BY <1>1 DEF Specs
<1>3. list \in [1..Len(list) -> Tenants \union {Bad}] /\ Len(list) \in Nat
  BY <1>2
<1>4. <<>> \in Seq(Tenants)
  OBVIOUS
<1>5. CASE names = Names(<<>>)
  BY <1>4, <1>5 DEF Names
<1>6. CASE names = Names(list) /\ ~Contains(list, Bad)
           /\ r.spec.authentication = "list" /\ r.spec.mode = "openshift"
           /\ (r.kind = "TempoMonolithic" => r.spec.enabled = "true")
  <2>1. names.tenants = list
    BY <1>6 DEF Names
  <2>2. \A i \in 1..Len(list) : list[i] \in Tenants
    BY <1>3, <1>6 DEF Contains
  <2>3. list \in Seq(Tenants)
    BY <1>2, <2>2
  <2>4. \A i \in DOMAIN list : list[i] \in Declared(r)
    BY <1>3, <1>6, <2>2 DEF Declared
  <2> QED BY <2>1, <2>3, <2>4
<1>7. names = Names(<<>>) \/ names = Failed
        \/ /\ names = Names(list) /\ ~Contains(list, Bad)
           /\ r.spec.authentication = "list" /\ r.spec.mode = "openshift"
           /\ (r.kind = "TempoMonolithic" => r.spec.enabled = "true")
  BY <1>1 DEF ReadTenantsFromCR, ReadTenancy, ExtractTenantNames, Kinds, Specs, Absent, Bad
<1>8. names # Failed
  BY DEF Failed
<1> QED BY <1>5, <1>6, <1>7, <1>8

(* The list has exactly the resources that declare a tenant, but for those with *)
(* a broken entry, and with exactly the tenants that they declare: a failure to *)
(* read one field neither invents a tenant nor hides another one (tempo.go).    *)
THEOREM ListedIsDeclared ==
  ASSUME NEW r \in Resources
  PROVE  /\ Listed(r) <=> Declared(r) # {} /\ ~Contains(r.spec.entries, Bad)
         /\ Listed(r) => Range(ReadTenantsFromCR(r).tenants) = Declared(r)
<1> DEFINE list == r.spec.entries
           names == ReadTenantsFromCR(r)
           Tenancy == /\ r.spec.mode = "openshift" /\ r.spec.authentication = "list"
                      /\ r.kind = "TempoMonolithic" => r.spec.enabled = "true"
<1>1. r.spec \in Specs /\ r.kind \in Kinds
  BY DEF Resources
<1>2. list \in Seq(Tenants \union {Bad})
  BY <1>1 DEF Specs
<1> DEFINE m == Len(list)
<1>3. m \in Nat /\ DOMAIN list = 1..m /\ \A i \in 1..m : list[i] \in Tenants \union {Bad}
  BY <1>2
<1>4. CASE Tenancy
  <2>1. names = IF Contains(list, Bad) THEN Failed ELSE Names(list)
    BY <1>1, <1>4 DEF ReadTenantsFromCR, ReadTenancy, ExtractTenantNames, Kinds,
                      Absent, Bad
  <2>2. Listed(r) <=> ~Contains(list, Bad) /\ list # <<>>
    BY <2>1 DEF Listed, Names, Failed
  <2>3. Declared(r) = {t \in Tenants : \E i \in 1..m : list[i] = t}
    BY <1>3, <1>4 DEF Declared
  <2>4. ~Contains(list, Bad) => \A i \in 1..m : list[i] \in Tenants
    BY <1>3 DEF Contains
  <2>5. ~Contains(list, Bad) => Range(list) = Declared(r)
    BY <1>3, <2>3, <2>4 DEF Range
  <2>6. Declared(r) # {} => m # 0
    BY <2>3
  <2>7. ~Contains(list, Bad) /\ m # 0 => Declared(r) # {}
    <3>1. m # 0 => 1 \in 1..m
      BY <1>3
    <3> QED BY <3>1, <2>3, <2>4
  <2>8. list # <<>> <=> m # 0
    BY <1>2, <1>3
  <2>9. Listed(r) => names.tenants = list
    BY <2>1, <2>2 DEF Names
  <2> QED BY <2>2, <2>5, <2>6, <2>7, <2>8, <2>9
<1>5. CASE ~Tenancy
  <2>1. Declared(r) = {}
    BY <1>5 DEF Declared
  <2>2. names = Names(<<>>) \/ names = Failed
    BY <1>1, <1>5 DEF ReadTenantsFromCR, ReadTenancy, ExtractTenantNames, Kinds,
                      Specs, Absent, Bad
  <2>3. ~Listed(r)
    BY <2>2 DEF Listed, Names, Failed
  <2> QED BY <2>1, <2>3
<1> QED BY <1>4, <1>5

(* An entry of the list: at least one tenant, all of them declared.             *)
DeclaredOnly(o) ==
  /\ o.tenants # <<>>
  /\ \A i \in DOMAIN o.tenants : o.tenants[i] \in Declared(o.source)

(* A list call returns such entries, made of the resources of its kind.         *)
LEMMA ListTemposFacts ==
  ASSUME TypeOK, NEW kind \in Kinds
  PROVE  /\ ListTempos(kind) \subseteq Options
         /\ \A o \in ListTempos(kind) : DeclaredOnly(o)
<1> SUFFICES ASSUME NEW e \in ListTempos(kind)
             PROVE  e \in Options /\ DeclaredOnly(e)
  OBVIOUS
<1>1. PICK o \in Objects :
        /\ o.kind = kind /\ cluster[o] # Gone /\ Listed(Resource(o))
        /\ e = [kind |-> kind, instance |-> o.instance,
                tenants |-> ReadTenantsFromCR(Resource(o)).tenants,
                source |-> Resource(o)]
  BY DEF ListTempos
<1>2. Resource(o) \in Resources
  <2>1. cluster[o] \in Shapes
    BY <1>1 DEF TypeOK
  <2>2. SpecOf[cluster[o]] \in Specs
    BY <2>1, SpecsAssumption
  <2> QED BY <2>2, <1>1 DEF Resource, Resources
<1>3. /\ ReadTenantsFromCR(Resource(o)).tenants \in Seq(Tenants)
      /\ ReadTenantsFromCR(Resource(o)).tenants # <<>>
      /\ \A i \in DOMAIN ReadTenantsFromCR(Resource(o)).tenants :
           ReadTenantsFromCR(Resource(o)).tenants[i] \in Declared(Resource(o))
  BY <1>1, <1>2, TenancyIsDeclared DEF Listed
<1>4. o.instance \in Instances
  BY DEF Instances
<1> QED BY <1>1, <1>2, <1>3, <1>4 DEF Options, DeclaredOnly

--------------------------------------------------------------------------------
(* The invariant. *)

(* Every entry is one of ListTempos, also while the answer is on its way.       *)
ListsAreDeclared == \A o \in answer \union query.data : DeclaredOnly(o)

(* A missing operator is known from the backend's phase to the error that the   *)
(* page shows; a request under way may have another cause than the error that   *)
(* is still there.                                                              *)
NotFoundIsTrue ==
  /\ fetch = "notFound" => cause = "notFound"
  /\ ~Fetching /\ query.error = "TempoCRDNotFound" => cause = "notFound"

Inv == TypeOK /\ ListsAreDeclared /\ NotFoundIsTrue

LEMMA NoQueryFacts ==
  /\ NoQuery \in QueryStates
  /\ NoQuery.status = "loading" /\ NoQuery.error = None
  /\ NoQuery.hasData = FALSE /\ NoQuery.data = {}
BY DEF NoQuery, QueryStates

LEMMA InitInv == Init => Inv
<1> SUFFICES ASSUME Init PROVE Inv
  OBVIOUS
<1>1. TypeOK
  <2>1. query \in QueryStates
    BY DEF Init, NoQuery, QueryStates
  <2>2. tempo \in Tempos /\ changes \in 0..MaxChanges
    BY MaxChangesAssumption DEF Init, Tempos
  <2> QED BY <2>1, <2>2 DEF Init, TypeOK, NoQuery, Phases, None
<1>2. ListsAreDeclared /\ NotFoundIsTrue
  BY DEF Init, NoQuery, ListsAreDeclared, NotFoundIsTrue, Fetching, None
<1> QED BY <1>1, <1>2 DEF Inv

(* A list call adds the entries of its kind, or fails for a reason that the     *)
(* phase tells.                                                                 *)
LEMMA ListCallInv ==
  ASSUME Inv, NEW from \in Phases, NEW to \in {"stacks", "listed"},
         NEW kind \in Kinds, ListCall(from, to, kind)
  PROVE  Inv'
<1>1. CASE ListReturns(to, kind)
  <2>1. answer' \subseteq Options
    BY <1>1, ListTemposFacts DEF ListReturns, Inv, TypeOK
  <2>2. TypeOK'
    BY <1>1, <2>1 DEF ListReturns, ListCall, Inv, TypeOK, Phases, backendVars
  <2>3. ListsAreDeclared'
    BY <1>1, ListTemposFacts DEF ListReturns, ListCall, Inv, ListsAreDeclared
  <2>4. NotFoundIsTrue'
    BY <1>1 DEF ListReturns, ListCall, Inv, NotFoundIsTrue, Fetching
  <2> QED BY <2>2, <2>3, <2>4 DEF Inv
<1>2. CASE \E why \in {"notFound", "failed"} : ListFails(why, why)
  <2>1. TypeOK'
    BY <1>2 DEF ListFails, ListCall, Inv, TypeOK, Phases, backendVars
  <2>2. ListsAreDeclared'
    BY <1>2 DEF ListFails, ListCall, Inv, ListsAreDeclared
  <2>3. NotFoundIsTrue'
    BY <1>2 DEF ListFails, ListCall, Inv, NotFoundIsTrue, Fetching
  <2> QED BY <2>1, <2>2, <2>3 DEF Inv
<1> QED BY <1>1, <1>2 DEF ListCall

(* The end of a request: a list that is declared, or an error whose cause is    *)
(* the one that it names.                                                       *)
LEMMA EndedInv ==
  ASSUME Inv, NEW q, NEW c, Ended(q, c),
         c \in {"list", "notFound", "failed", "timeout", None},
         \/ q = [status |-> "success", error |-> None, hasData |-> TRUE, data |-> answer]
         \/ \E e \in {"TempoCRDNotFound", "other"} :
              q = WithError(e) /\ (e = "TempoCRDNotFound" => c = "notFound")
  PROVE  Inv'
<1> DEFINE success == [status |-> "success", error |-> None, hasData |-> TRUE,
                       data |-> answer]
<1>1. query \in QueryStates /\ answer \subseteq Options
  BY DEF Inv, TypeOK
<1>2. CASE q = success
  <2>1. q \in QueryStates
    BY <1>1, <1>2 DEF QueryStates
  <2>2. TypeOK'
    BY <1>2, <2>1 DEF Ended, Inv, TypeOK, Phases, backendVars, None
  <2>3. ListsAreDeclared'
    BY <1>2 DEF Ended, Inv, ListsAreDeclared
  <2>4. NotFoundIsTrue'
    BY <1>2 DEF Ended, NotFoundIsTrue, Fetching, None
  <2> QED BY <2>2, <2>3, <2>4 DEF Inv
<1>3. ASSUME NEW e \in {"TempoCRDNotFound", "other"}, q = WithError(e),
             e = "TempoCRDNotFound" => c = "notFound"
      PROVE  Inv'
  <2>1. /\ q \in QueryStates
        /\ q.status = "error" /\ q.error = e
        /\ q.hasData = query.hasData /\ q.data = query.data
    BY <1>1, <1>3 DEF WithError, QueryStates
  <2>2. TypeOK'
    BY <2>1 DEF Ended, Inv, TypeOK, Phases, backendVars, None
  <2>3. ListsAreDeclared'
    BY <2>1 DEF Ended, Inv, ListsAreDeclared
  <2>4. NotFoundIsTrue'
    BY <1>3, <2>1 DEF Ended, NotFoundIsTrue, Fetching
  <2> QED BY <2>2, <2>3, <2>4 DEF Inv
<1> QED BY <1>2, <1>3

LEMMA ReceiveInv == ASSUME Inv, Receive PROVE Inv'
<1>1. CASE fetch = "listed" /\ Ended([status |-> "success", error |-> None,
                                      hasData |-> TRUE, data |-> answer], "list")
  BY <1>1, EndedInv
<1>2. CASE fetch = "notFound" /\ Ended(WithError("TempoCRDNotFound"), cause)
  <2>1. cause = "notFound"
    BY <1>2 DEF Inv, NotFoundIsTrue
  <2> QED BY <1>2, <2>1, EndedInv
<1>3. CASE fetch = "failed" /\ Ended(WithError("other"), cause)
  <2>1. cause \in {"list", "notFound", "failed", "timeout", None}
    BY DEF Inv, TypeOK
  <2> QED BY <1>3, <2>1, EndedInv
<1> QED BY <1>1, <1>2, <1>3 DEF Receive

LEMMA TimeoutInv == ASSUME Inv, Timeout PROVE Inv'
BY EndedInv DEF Timeout

(* The page begins to observe the list: what it shows stays, or it has nothing. *)
LEMMA FetchIfStaleInv ==
  ASSUME Inv, FetchIfStale, UNCHANGED <<backendVars, answer, stale, cause>>,
         mounted' \in BOOLEAN, tempo' \in Tempos
  PROVE  Inv'
<1>1. TypeOK'
  BY NoQueryFacts DEF FetchIfStale, Inv, TypeOK, Phases, Fetching, backendVars
<1>2. ListsAreDeclared'
  BY DEF FetchIfStale, Inv, ListsAreDeclared, NoQuery
<1>3. NotFoundIsTrue'
  BY DEF FetchIfStale, Inv, NotFoundIsTrue, NoQuery, Fetching, None
<1> QED BY <1>1, <1>2, <1>3 DEF Inv

(* Everything else that leaves the request and its cause alone.                 *)
LEMMA OthersInv ==
  ASSUME Inv, UNCHANGED <<fetch, answer, cause>>,
         \/ UNCHANGED query
         \/ query' = NoQuery /\ ~stale',
         cluster' \in [Objects -> Shapes \union {Gone}], installed' \subseteq Kinds,
         changes' \in 0..MaxChanges,
         stale' \in BOOLEAN, mounted' \in BOOLEAN, tempo' \in Tempos
  PROVE  Inv'
<1>1. TypeOK'
  BY NoQueryFacts DEF Inv, TypeOK
<1>2. ListsAreDeclared'
  BY DEF Inv, ListsAreDeclared, NoQuery
<1>3. NotFoundIsTrue'
  BY DEF Inv, NotFoundIsTrue, NoQuery, Fetching, None
<1> QED BY <1>1, <1>2, <1>3 DEF Inv

--------------------------------------------------------------------------------
(* What the dropdown selects. *)

(* find returns an option of the instance.                                      *)
LEMMA OptionIsOffered ==
  ASSUME NEW i, Offered(i) # {}
  PROVE  Option(i) \in Offered(i)
<1>1. \E o \in Offered(i) :
        \A p \in Offered(i) : p.kind = "TempoStack" => o.kind = "TempoStack"
  <2>1. CASE \E o \in Offered(i) : o.kind = "TempoStack"
    BY <2>1
  <2>2. CASE ~\E o \in Offered(i) : o.kind = "TempoStack"
    BY <2>2
  <2> QED BY <2>1, <2>2
<1> QED BY <1>1 DEF Option

(* An entry of the loaded list, as the types and the invariant describe it.     *)
LEMMA EntryFacts ==
  ASSUME Inv, NEW o \in query.data
  PROVE  /\ o.instance \in Instances /\ DeclaredOnly(o)
         /\ \E m \in Nat : o.tenants \in [1..m -> Tenants]
<1>1. o \in Options
  BY DEF Inv, TypeOK, QueryStates
<1>2. o.instance \in Instances /\ o.tenants \in Seq(Tenants)
  BY <1>1 DEF Options
<1>3. \E m \in Nat : o.tenants \in [1..m -> Tenants]
  BY <1>2
<1>4. DeclaredOnly(o)
  BY DEF Inv, ListsAreDeclared
<1> QED BY <1>2, <1>3, <1>4

LEMMA OnSelectFacts ==
  ASSUME Inv, NEW i, OnSelect(i)
  PROVE  /\ tempo' \in Tempos
         /\ \E o \in query.data : /\ tempo'.instance = o.instance
                                  /\ tempo'.tenant \in Declared(o.source)
<1> DEFINE o == Option(i)
<1>1. o \in query.data /\ o.instance = i
  BY OptionIsOffered DEF OnSelect, Offered
<1>2. i \in Instances /\ DeclaredOnly(o)
  BY <1>1, EntryFacts
<1>3. PICK m \in Nat : o.tenants \in [1..m -> Tenants]
  BY <1>1, EntryFacts
<1>4. o.tenants # <<>> /\ m # 0
  BY <1>2, <1>3 DEF DeclaredOnly
<1>5. FirstTenant(o) = o.tenants[1] /\ 1 \in DOMAIN o.tenants
  BY <1>3, <1>4 DEF FirstTenant
<1>6. FirstTenant(o) \in Declared(o.source) /\ FirstTenant(o) \in Tenants
  BY <1>2, <1>3, <1>5 DEF DeclaredOnly
<1>7. tempo' = Tempo(i, FirstTenant(o))
  BY DEF OnSelect, SetTempo
<1>8. tempo' \in Tempos
  BY <1>2, <1>6, <1>7 DEF Tempos
<1>9. tempo'.instance = o.instance /\ tempo'.tenant \in Declared(o.source)
  BY <1>1, <1>6, <1>7 DEF Tempo
<1> QED BY <1>1, <1>8, <1>9

LEMMA PickTenantFacts ==
  ASSUME Inv, NEW t, PickTenant(t)
  PROVE  \E o \in query.data :
           /\ tempo'.instance = o.instance /\ o.instance \in Instances
           /\ tempo'.tenant \in Declared(o.source) /\ tempo'.tenant \in Tenants
           /\ tempo' = Tempo(tempo'.instance, tempo'.tenant)
<1>1. Selected = tempo.instance /\ Offered(tempo.instance) # {}
  BY DEF PickTenant, Selected
<1> DEFINE o == Option(tempo.instance)
<1>2. o \in query.data /\ o.instance = tempo.instance
  BY <1>1, OptionIsOffered DEF Offered
<1>3. o.instance \in Instances /\ DeclaredOnly(o)
  BY <1>2, EntryFacts
<1>4. PICK m \in Nat : o.tenants \in [1..m -> Tenants]
  BY <1>2, EntryFacts
<1>5. PICK n \in 1..Len(o.tenants) : o.tenants[n] = t
  BY <1>1 DEF PickTenant, Contains
<1>6. n \in DOMAIN o.tenants
  BY <1>4, <1>5
<1>7. t \in Declared(o.source) /\ t \in Tenants
  BY <1>3, <1>4, <1>5, <1>6 DEF DeclaredOnly
<1>8. tempo' = Tempo(tempo.instance, t)
  BY DEF PickTenant, SetTempo
<1>9. tempo'.instance = o.instance /\ tempo'.tenant = t
  BY <1>2, <1>8 DEF Tempo
<1> QED BY <1>2, <1>3, <1>7, <1>8, <1>9

LEMMA NextInv == Inv /\ [Next]_vars => Inv'
<1> SUFFICES ASSUME Inv, [Next]_vars PROVE Inv'
  OBVIOUS
<1> USE DEF backendVars, listVars
<1>1. CASE ListStacks
  BY <1>1, ListCallInv DEF ListStacks, Phases, Kinds
<1>2. CASE ListMonoliths
  BY <1>2, ListCallInv DEF ListMonoliths, Phases, Kinds
<1>3. CASE Receive
  BY <1>3, ReceiveInv
<1>4. CASE Timeout
  BY <1>4, TimeoutInv
<1>5. CASE Reconnect
  BY <1>5, FetchIfStaleInv DEF Reconnect, Inv, TypeOK
<1>6. CASE BecomeStale
  BY <1>6, OthersInv DEF BecomeStale, Inv, TypeOK
<1>7. CASE Collect
  BY <1>7, OthersInv DEF Collect, Inv, TypeOK
<1>8. ASSUME NEW t \in Tempos, Open(t) PROVE Inv'
  BY <1>8, FetchIfStaleInv DEF Open
<1>9. ASSUME NEW t \in Tempos, Navigate(t) PROVE Inv'
  BY <1>9, OthersInv DEF Navigate, SetTempo, Inv, TypeOK
<1>10. CASE Leave
  <2>1. NoTempo \in Tempos
    BY DEF Tempos
  <2> QED BY <1>10, <2>1, OthersInv DEF Leave, Inv, TypeOK
<1>11. ASSUME NEW i, OnSelect(i) PROVE Inv'
  BY <1>11, OnSelectFacts, OthersInv DEF OnSelect, SetTempo, Inv, TypeOK
<1>12. CASE Preselect
  BY <1>11, <1>12 DEF Preselect
<1>13. ASSUME NEW i \in Instances, PickInstance(i) PROVE Inv'
  BY <1>11, <1>13 DEF PickInstance
<1>14. ASSUME NEW t \in Tenants, PickTenant(t) PROVE Inv'
  <2>1. tempo' \in Tempos
    BY <1>14, PickTenantFacts DEF Tempos
  <2> QED BY <1>14, <2>1, OthersInv DEF PickTenant, SetTempo, Inv, TypeOK
<1>15. CASE Change
  <2>1. changes' \in 0..MaxChanges
    BY <1>15, MaxChangesAssumption DEF Change, Inv, TypeOK
  <2>2. cluster' \in [Objects -> Shapes \union {Gone}] /\ installed' \subseteq Kinds
    BY <1>15 DEF Change, Inv, TypeOK
  <2> QED BY <1>15, <2>1, <2>2, OthersInv DEF Change, Inv, TypeOK
<1>16. CASE UNCHANGED vars
  BY <1>16, OthersInv DEF vars, Inv, TypeOK
<1> QED
  BY <1>1, <1>2, <1>3, <1>4, <1>5, <1>6, <1>7, <1>8, <1>9, <1>10, <1>12, <1>13,
     <1>14, <1>15, <1>16 DEF Next

--------------------------------------------------------------------------------
(* The theorems. *)

(* Inv holds in every reachable state.                                          *)
THEOREM SelectionInvariance == Spec => []Inv
BY InitInv, NextInv, PTL DEF Spec

(* The values of the variables never leave their types, an error comes with the *)
(* status "error" and data without it.                                          *)
THEOREM SelectionTypeCorrect == Spec => []TypeOK
BY SelectionInvariance, PTL DEF Inv

(* "Tempo operator isn't installed yet" is never shown for another reason.      *)
THEOREM NotInstalledIsTrueAlways == Spec => []NotInstalledIsTrue
<1>1. Inv => NotInstalledIsTrue
  BY DEF Inv, NotFoundIsTrue, NotInstalledIsTrue, Page
<1> QED BY <1>1, SelectionInvariance, PTL

(* Every selection is of a declared tenant of a listed instance.                *)
THEOREM SelectsDeclaredTenantAlways == Spec => SelectsDeclaredTenant
<1>1. ASSUME Inv, Selects PROVE IsDeclared(tempo')
  <2>1. ASSUME NEW i, OnSelect(i) PROVE IsDeclared(tempo')
    BY <1>1, <2>1, OnSelectFacts DEF IsDeclared
  <2>2. ASSUME NEW t, PickTenant(t) PROVE IsDeclared(tempo')
    BY <1>1, <2>2, PickTenantFacts DEF IsDeclared
  <2> QED BY <1>1, <2>1, <2>2 DEF Selects, Preselect, PickInstance
<1>2. Inv => [Selects => IsDeclared(tempo')]_vars
  BY <1>1
<1> QED BY <1>2, SelectionInvariance, PTL DEF SelectsDeclaredTenant
================================================================================
