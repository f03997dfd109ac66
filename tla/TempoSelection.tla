---------------------------- MODULE TempoSelection ----------------------------
(* How the traces page comes to a Tempo instance and tenant: the backend lists  *)
(* the custom resources, cancellableFetch brings the list or gives up,          *)
(* react-query keeps it (useTempoResources), TracesPageBody decides what to     *)
(* show, and TempoInstanceDropdown offers the instances, selects the only one   *)
(* by itself, and keeps the selection in the URL (useTempoInstance).            *)
(*                                                                              *)
(* The browser is online; otherwise react-query does not fetch at all.          *)
EXTENDS TempoResources, FiniteSets

CONSTANTS
  Objects,    \* the custom resources that may exist: [kind, instance], where an
              \* instance stands for a namespace and a name
  Shapes,     \* what they may look like
  SpecOf,     \* [Shapes -> Specs]
  MaxChanges  \* bound on the changes of the cluster

ASSUME ObjectsAssumption == \A o \in Objects : o.kind \in Kinds
ASSUME SpecsAssumption == \A s \in Shapes : SpecOf[s] \in Specs
ASSUME MaxChangesAssumption == MaxChanges \in Nat

None == "none"

Gone == "gone"

Instances == {o.instance : o \in Objects}

(* The URL without an instance names none.                                      *)
ASSUME NoneAssumption == None \notin Instances

Tempo(i, t) == [instance |-> i, tenant |-> t]

NoTempo == Tempo(None, None)

Tempos == {NoTempo} \union {Tempo(i, t) : i \in Instances, t \in Tenants \union {None}}

VARIABLES
  cluster,    \* [Objects -> Shapes \union {Gone}]
  installed,  \* the kinds whose CRD the operator has brought
  changes,    \* for the bound
  fetch,      \* the request in flight: how far the backend is
  answer,     \* its list so far
  query,      \* react-query: status, error, data
  stale,      \* the data is older than staleTime
  mounted,    \* the traces page is the page of the console
  tempo,      \* the selection in the URL
  cause       \* history: what the last request really came to

backendVars == <<cluster, installed, changes>>
listVars    == <<fetch, answer, query, stale, cause>>
vars == <<backendVars, listVars, mounted, tempo>>

Phases == {"idle", "sent", "stacks", "listed", "notFound", "failed"}

(* An entry of the list; source is history, the resource it was made of.        *)
Options == [kind : Kinds, instance : Instances, tenants : Seq(Tenants),
            source : Resources]

(* What react-query knows of the list.                                          *)
QueryStates == [status : {"loading", "success", "error"},
                error : {None, "TempoCRDNotFound", "other"},
                hasData : BOOLEAN, data : SUBSET Options]

TypeOK ==
  /\ cluster \in [Objects -> Shapes \union {Gone}]
  /\ installed \subseteq Kinds
  /\ changes \in 0..MaxChanges
  /\ fetch \in Phases
  /\ answer \subseteq Options
  /\ query \in QueryStates
  /\ stale \in BOOLEAN /\ mounted \in BOOLEAN
  /\ tempo \in Tempos
  /\ cause \in {None, "list", "notFound", "failed", "timeout"}
  /\ query.status = "success" => query.hasData
  /\ query.status = "loading" => ~query.hasData
  /\ query.status = "error" <=> query.error # None

NoQuery == [status |-> "loading", error |-> None, hasData |-> FALSE, data |-> {}]

Init ==
  /\ cluster \in [Objects -> Shapes \union {Gone}]
  /\ installed \in SUBSET Kinds
  /\ changes = 0
  /\ fetch = "idle" /\ answer = {}
  /\ query = NoQuery /\ stale = FALSE
  /\ mounted = FALSE /\ tempo = NoTempo
  /\ cause = None

Fetching == fetch # "idle"

--------------------------------------------------------------------------------
(* The backend: ListTempoResourcesHandler. *)

Resource(o) == [kind |-> o.kind, spec |-> SpecOf[cluster[o]]]

ListTempos(kind) ==
  {[kind |-> kind, instance |-> o.instance,
    tenants |-> ReadTenantsFromCR(Resource(o)).tenants, source |-> Resource(o)] :
     o \in {o \in Objects : /\ o.kind = kind /\ cluster[o] # Gone
                            /\ Listed(Resource(o))}}

(* The call fails with the error why; what the handler makes of it is phase.    *)
ListFails(phase, why) == fetch' = phase /\ answer' = {} /\ cause' = why

ListReturns(to, kind) ==
  /\ kind \in installed
  /\ fetch' = to /\ answer' = answer \union ListTempos(kind)
  /\ UNCHANGED cause

(* Mutant: any error of the API server is taken for a missing CRD.              *)
ListCallAnyNotFound(from, to, kind) ==
  /\ fetch = from
  /\ \/ ListReturns(to, kind)
     \/ kind \notin installed /\ ListFails("notFound", "notFound")
     \/ ListFails("notFound", "failed")
  /\ UNCHANGED <<backendVars, query, stale, mounted, tempo>>

(* One of the two list calls.  Without the CRD of its kind it ends in           *)
(* IsNotFound, which the handler takes for a missing operator even if the other *)
(* kind is there; any other failure may happen with the CRD and without it.     *)
ListCall(from, to, kind) ==
  /\ fetch = from
  /\ \/ ListReturns(to, kind)
     \/ kind \notin installed /\ ListFails("notFound", "notFound")
     \/ ListFails("failed", "failed")
  /\ UNCHANGED <<backendVars, query, stale, mounted, tempo>>

ListStacks == ListCall("sent", "stacks", "TempoStack")

ListMonoliths == ListCall("stacks", "listed", "TempoMonolithic")

--------------------------------------------------------------------------------
(* The list in the browser. *)

Ended(q, c) ==
  /\ query' = q
  /\ cause' = c
  /\ fetch' = "idle" /\ answer' = {}
  /\ stale' = (stale /\ q.status = "error")
  /\ UNCHANGED <<backendVars, mounted, tempo>>

(* An error keeps the data of an earlier answer; there is no retry.             *)
WithError(e) == [query EXCEPT !.status = "error", !.error = e]

Receive ==
  \/ fetch = "listed" /\ Ended([status |-> "success", error |-> None,
                                hasData |-> TRUE, data |-> answer], "list")
  \/ fetch = "notFound" /\ Ended(WithError("TempoCRDNotFound"), cause)
  \/ fetch = "failed" /\ Ended(WithError("other"), cause)

(* Mutant: the timer is for the backend, no longer for its answer.              *)
TimeoutOfBackend == fetch = "sent" /\ Ended(WithError("other"), "timeout")

(* The timer of cancellableFetch ends the request however far it is.            *)
Timeout == Fetching /\ Ended(WithError("other"), "timeout")

(* Mutant: the status is loading whenever a request is in flight.               *)
FetchIfStaleLoading ==
  IF query.hasData /\ ~stale THEN UNCHANGED <<fetch, query>>
  ELSE /\ fetch' = IF Fetching THEN fetch ELSE "sent"
       /\ query' = [query EXCEPT !.status = "loading", !.error = None]

(* A new observer or a new connection fetches the list unless it is fresh; a    *)
(* request in flight serves all.  Without data the status is loading again.     *)
FetchIfStale ==
  IF query.hasData /\ ~stale THEN UNCHANGED <<fetch, query>>
  ELSE /\ fetch' = IF Fetching THEN fetch ELSE "sent"
       /\ query' = IF query.hasData THEN query ELSE NoQuery

Reconnect ==
  /\ mounted /\ ~Fetching
  /\ FetchIfStale
  /\ Fetching'
  /\ UNCHANGED <<backendVars, answer, stale, mounted, tempo, cause>>

(* staleTime has passed.                                                        *)
BecomeStale ==
  /\ query.status = "success" /\ ~stale
  /\ stale' = TRUE
  /\ UNCHANGED <<backendVars, fetch, answer, query, mounted, tempo, cause>>

(* Without an observer the list is dropped after a while.                       *)
Collect ==
  /\ ~mounted /\ ~Fetching
  /\ query # NoQuery
  /\ query' = NoQuery
  /\ stale' = FALSE
  /\ UNCHANGED <<backendVars, fetch, answer, mounted, tempo, cause>>

--------------------------------------------------------------------------------
(* The page. *)

IsLoading == query.status = "loading"

(* TracesPageBody.                                                              *)
Page ==
  CASE tempo = NoTempo /\ IsLoading -> "Loading"
    [] query.error = "TempoCRDNotFound" -> "NotInstalled"
    [] query.error = "other" -> "Error"
    [] query.error = None /\ query.hasData /\ query.data = {} -> "NoInstance"
    [] OTHER -> "Browser"

(* The page is opened from the menu of the console or from a link.              *)
Open(t) ==
  /\ ~mounted
  /\ mounted' = TRUE
  /\ tempo' = t
  /\ FetchIfStale
  /\ UNCHANGED <<backendVars, answer, stale, cause>>

Leave ==
  /\ mounted
  /\ mounted' = FALSE
  /\ tempo' = NoTempo
  /\ UNCHANGED <<backendVars, listVars>>

SetTempo(t) ==
  /\ tempo' = t
  /\ UNCHANGED <<backendVars, listVars, mounted>>

(* A link within the console to the page that is already shown.                 *)
Navigate(t) == mounted /\ t # tempo /\ SetTempo(t)

--------------------------------------------------------------------------------
(* TempoInstanceDropdown. *)

Dropdown == mounted /\ Page = "Browser"

Offered(i) == {o \in query.data : o.instance = i}

(* The instance that the dropdown shows as selected.  While the list is loading *)
(* that of the URL is the only option.                                          *)
Selected ==
  IF IsLoading \/ Offered(tempo.instance) # {} THEN tempo.instance ELSE None

(* Two resources of one name make two options; find takes the first, and stacks *)
(* come first in the list.                                                      *)
Option(i) ==
  CHOOSE o \in Offered(i) :
    \A p \in Offered(i) : p.kind = "TempoStack" => o.kind = "TempoStack"

(* tenants?.[0] of an option.                                                   *)
FirstTenant(o) == IF o.tenants = <<>> THEN None ELSE o.tenants[1]

(* onSelect.                                                                    *)
OnSelect(i) ==
  /\ ~IsLoading
  /\ Offered(i) # {} /\ i # Selected
  /\ SetTempo(Tempo(i, FirstTenant(Option(i))))

(* Mutant: only an empty selection is replaced.                                 *)
PreselectIfNone ==
  /\ Dropdown
  /\ tempo = NoTempo
  /\ Cardinality(query.data) = 1
  /\ \E o \in query.data : OnSelect(o.instance)

(* In a render without a selection that the list knows, and with one option.    *)
Preselect ==
  /\ Dropdown
  /\ Selected = None
  /\ Cardinality(query.data) = 1
  /\ \E o \in query.data : OnSelect(o.instance)

PickInstance(i) == Dropdown /\ OnSelect(i)

PickTenant(t) ==
  /\ Dropdown /\ ~IsLoading
  /\ Selected # None
  /\ Contains(Option(Selected).tenants, t)
  /\ t # tempo.tenant
  /\ SetTempo(Tempo(tempo.instance, t))

--------------------------------------------------------------------------------
(* The cluster. *)

(* Resources come, change and go, and so do the CRDs of the operator.           *)
Change ==
  /\ changes < MaxChanges
  /\ changes' = changes + 1
  /\ \/ \E o \in Objects : \E s \in (Shapes \union {Gone}) \ {cluster[o]} :
          /\ cluster' = [cluster EXCEPT ![o] = s]
          /\ UNCHANGED installed
     \/ installed' \in (SUBSET Kinds) \ {installed} /\ UNCHANGED cluster
  /\ UNCHANGED <<listVars, mounted, tempo>>

Next ==
  \/ ListStacks \/ ListMonoliths
  \/ Receive \/ Timeout \/ Reconnect \/ BecomeStale \/ Collect
  \/ \E t \in Tempos : Open(t) \/ Navigate(t)
  \/ Leave \/ Preselect
  \/ \E i \in Instances : PickInstance(i)
  \/ \E t \in Tenants : PickTenant(t)
  \/ Change

(* Timers fire and a render does what it does; the network owes nothing.        *)
Spec == Init /\ [][Next]_vars /\ WF_vars(Timeout) /\ WF_vars(Preselect)

--------------------------------------------------------------------------------
(* Correctness. *)

Selects == \/ Preselect
           \/ \E i \in Instances : PickInstance(i)
           \/ \E t \in Tenants : PickTenant(t)

IsDeclared(t) == \E o \in query.data : /\ t.instance = o.instance
                                       /\ t.tenant \in Declared(o.source)

(* What the dropdown selects, by itself or for a user, is an instance of the    *)
(* loaded list with one of the tenants that its resource declared when it was   *)
(* listed: the proxy is never asked for a tenant that the page made up.         *)
SelectsDeclaredTenant == [][Selects => IsDeclared(tempo')]_vars

(* "Tempo operator isn't installed yet" is shown only if a CRD was missing when *)
(* the last request was answered: not after a timeout, another failure (with or *)
(* without the CRDs) or a list.                                                 *)
NotInstalledIsTrue ==
  mounted /\ ~Fetching /\ Page = "NotInstalled" => cause = "notFound"

(* A page that shows the loading state gets out of it, even if the network      *)
(* never answers.                                                               *)
LoadingEnds == mounted /\ Page = "Loading" ~> ~(mounted /\ Page = "Loading")

(* If the list has one instance the page ends up with it, also when the URL     *)
(* names one that no longer exists, unless the user or a new list intervenes.   *)
OnlyOneIsSelected ==
  Dropdown /\ ~IsLoading /\ Cardinality(query.data) = 1
    ~> \/ ~Dropdown \/ IsLoading \/ Cardinality(query.data) # 1
       \/ \E o \in query.data : tempo.instance = o.instance
================================================================================
