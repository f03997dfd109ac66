------------------------------ MODULE TraceResults -----------------------------
(* What the traces page (QueryBrowser) and the trace detail page show for the   *)
(* selected Tempo instance.  Perses runs the query of a page, and react-query   *)
(* keeps the results of both pages in one cache.  A result is filed under the   *)
(* query and a refresh counter, not under the instance: that is why             *)
(* QueryBrowserBody calls refresh() in an effect.                               *)
(*                                                                              *)
(* Perses and react-query are modelled from how the code uses them: a key that  *)
(* a page begins to observe is fetched from the data source of that render, a   *)
(* result that is cached is there meanwhile, nothing is retried                 *)
(* (TracingApp.tsx), and the request for a key that no page observes any more   *)
(* is aborted.  The time range is absolute, so that a page that is opened again *)
(* can find its key in the cache; with a relative one every key is new, as if   *)
(* its entry had been collected.  An instance stands for a TempoInstance with   *)
(* its tenant.                                                                  *)
EXTENDS FiniteSets, Naturals

CONSTANTS
  Instances,   \* Tempo instances that can be selected
  Queries,     \* TraceQL queries of the traces page
  EmptyQuery,  \* {}
  Limits,      \* of the traces page
  Traces,      \* trace ids
  None,        \* no instance, no request, no error, no data
  MaxEpoch,    \* bound on refresh() while a page is open
  MaxEntries   \* bound on the entries of the cache

ASSUME NoneAssumption == None \notin Instances
ASSUME EmptyQueryAssumption == EmptyQuery \in Queries
ASSUME EpochAssumption == MaxEpoch \in Nat

VARIABLES
  page,             \* the page of the console
  tempo,            \* the instance in the URL
  spec,             \* the query of the page: a search or a trace id
  epoch,            \* refresh counter of PersesDashboardWrapper
  pluginLoaded,     \* the TempoTraceQuery plugin is loaded
  isInitialRender,  \* the ref of QueryBrowserBody
  effect,           \* its effect is due: a dependency has changed
  cache,            \* react-query: [Keys -> Entries]
  request           \* where the request for the key is sent to

url  == <<page, tempo, spec>>
vars == <<url, epoch, pluginLoaded, isInitialRender, effect, cache, request>>

Searches == [query : Queries, limit : Limits]
Details  == [traceId : Traces]
Specs    == Searches \union Details
Epochs   == 0..MaxEpoch
Keys     == Specs \X Epochs

(* The instance an answer came from, and whether it has a trace in it.          *)
Answers == [from : Instances, found : BOOLEAN]

(* An error keeps the data of an earlier answer.                                *)
Entries == [data : Answers \union {None}, error : Instances \union {None}]

NoEntry == [data |-> None, error |-> None]

TypeOK ==
  /\ page \in {"none", "search", "trace"}
  /\ tempo \in Instances \union {None}
  /\ spec \in Specs
  /\ page = "search" => spec \in Searches
  /\ page = "trace" => spec \in Details /\ ~effect
  /\ epoch \in Epochs
  /\ pluginLoaded \in BOOLEAN /\ isInitialRender \in BOOLEAN /\ effect \in BOOLEAN
  /\ isInitialRender => effect
  /\ cache \in [Keys -> Entries]
  /\ request \in Instances \union {None}

Init ==
  /\ page = "none" /\ tempo = None
  /\ spec \in Specs /\ epoch = 0
  /\ pluginLoaded = FALSE /\ isInitialRender = FALSE /\ effect = FALSE
  /\ cache = [k \in Keys |-> NoEntry]
  /\ request = None

--------------------------------------------------------------------------------
(* PersesWrapper.tsx: the data source and the queries of the page. *)

Key == <<spec, epoch>>

Entry == cache[Key]

(* Without an instance there is no DataQueriesProvider, and before the plugin   *)
(* is loaded the query is not enabled.                                          *)
Observed == page # "none" /\ tempo # None /\ pluginLoaded

(* Every render observes the key of its page.  A request that goes on keeps its *)
(* data source; a key that is new to the page is fetched from the data source   *)
(* that useMemo makes for tempo.                                                *)
Observe ==
  request' = CASE ~Observed'                              -> None
               [] Observed' /\ Observed /\ Key' = Key     -> request
               [] Observed' /\ ~(Observed /\ Key' = Key)  -> tempo'

(* Mutant: only a query without data is loading.                                *)
LoadingIfNoData == ~Observed \/ Entry = NoEntry

(* isLoading, isFetching, or queryResults empty until the plugin is loaded.     *)
Loading == ~Observed \/ Entry = NoEntry \/ request # None

HasTraceData == Entry.data # None /\ Entry.data.found

(* PersesPanelPluginWrapper, and PersesTracePanelWrapper in the same way; only  *)
(* the trace table has noResults.                                               *)
Panel(noResults) ==
  CASE tempo = None                           -> "noInstance"
    [] tempo # None /\ Loading                -> "loading"
    [] ~Loading /\ Entry.error # None         -> "error"
    [] ~Loading /\ Entry.error = None
        /\ noResults /\ ~HasTraceData         -> "noResults"
    [] ~Loading /\ Entry.error = None
        /\ ~(noResults /\ ~HasTraceData)      -> "panel"

TraceTable == Panel(TRUE)

GanttChart == Panel(FALSE)

(* The answer to the request, and its failure.                                  *)
Answer(e) ==
  /\ request # None
  /\ \/ Entry # NoEntry
     \/ Cardinality({k \in Keys : cache[k] # NoEntry}) < MaxEntries
  /\ cache' = [cache EXCEPT ![Key] = e]
  /\ request' = None
  /\ UNCHANGED <<url, epoch, pluginLoaded, isInitialRender, effect>>

Respond(found) ==
  Answer([data |-> [from |-> request, found |-> found], error |-> None])

Fail == Answer([Entry EXCEPT !.error = request])

(* An entry that no page observes is dropped after a while.                     *)
Collect(k) ==
  /\ ~(Observed /\ k = Key)
  /\ cache[k] # NoEntry
  /\ cache' = [cache EXCEPT ![k] = NoEntry]
  /\ UNCHANGED <<url, epoch, pluginLoaded, isInitialRender, effect, request>>

PluginLoaded ==
  /\ page # "none" /\ ~pluginLoaded
  /\ pluginLoaded' = TRUE
  /\ UNCHANGED <<url, epoch, isInitialRender, effect, cache>>
  /\ Observe

--------------------------------------------------------------------------------
(* Pages that are opened and left. *)

(* A page comes with providers of its own: the counter and the plugins start    *)
(* anew, and QueryBrowserBody with its initial render.                          *)
Mount(p, t, s) ==
  /\ page' = p /\ tempo' = t /\ spec' = s
  /\ epoch' = 0 /\ pluginLoaded' = FALSE
  /\ isInitialRender' = (p = "search")
  /\ effect' = (p = "search")
  /\ UNCHANGED cache
  /\ Observe

(* From the menu of the console, by a link or after an error of TracesPageBody. *)
Open(p, t, s) ==
  /\ page = "none"
  /\ s \in IF p = "search" THEN Searches ELSE Details
  /\ Mount(p, t, s)

(* A row of the table or a dot of the chart: linkToTrace keeps the parameters.  *)
OpenTrace(s) == page = "search" /\ ~effect /\ TraceTable = "panel" /\ Mount("trace", tempo, s)

(* The breadcrumb takes the parameters back.                                    *)
Breadcrumb(s) == page = "trace" /\ Mount("search", tempo, s)

(* The page is left, or TracesPageBody shows something else in its place.       *)
Leave ==
  /\ page # "none"
  /\ page' = "none" /\ tempo' = None
  /\ epoch' = 0 /\ pluginLoaded' = FALSE
  /\ isInitialRender' = FALSE /\ effect' = FALSE
  /\ UNCHANGED <<spec, cache>>
  /\ Observe

--------------------------------------------------------------------------------
(* QueryBrowserBody.  React runs an effect that is due before the next event    *)
(* is rendered; only an answer can come in between.                             *)

Idle == page = "search" /\ ~effect

(* Mutant: the effect depends on refresh only.                                  *)
RenderNoTempo(t, s, e) ==
  /\ tempo' = t /\ spec' = s /\ epoch' = e
  /\ UNCHANGED <<page, pluginLoaded, isInitialRender, effect, cache>>
  /\ Observe

(* A render with other parameters in the URL or after a refresh; tempo is a     *)
(* dependency of the effect.                                                    *)
Render(t, s, e) ==
  /\ tempo' = t /\ spec' = s /\ epoch' = e
  /\ effect' = (effect \/ t # tempo)
  /\ UNCHANGED <<page, pluginLoaded, isInitialRender, cache>>
  /\ Observe

(* Mutant: the ref keeps saying that this is the initial render. *)
RunEffectKeepsRef ==
  /\ page = "search" /\ effect
  /\ effect' = FALSE
  /\ \/ isInitialRender /\ UNCHANGED epoch
     \/ ~isInitialRender /\ epoch' = epoch + 1
  /\ UNCHANGED <<url, pluginLoaded, isInitialRender, cache>>
  /\ Observe

RunEffect ==
  /\ page = "search" /\ effect
  /\ effect' = FALSE
  /\ \/ isInitialRender /\ isInitialRender' = FALSE /\ UNCHANGED epoch
     \/ ~isInitialRender /\ epoch' = epoch + 1 /\ UNCHANGED isInitialRender
  /\ UNCHANGED <<url, pluginLoaded, cache>>
  /\ Observe

(* The dropdown, or a link to the traces page: other parameters at once.        *)
Navigate(t, s) ==
  /\ Idle
  /\ t # tempo => epoch < MaxEpoch
  /\ Render(t, s, epoch)

RunQuery(q) ==
  /\ Idle /\ epoch < MaxEpoch
  /\ Render(tempo, [spec EXCEPT !.query = q], epoch + 1)

(* LimitSelect does not refresh: the limit is part of the query.                *)
SetLimit(l) == Idle /\ Render(tempo, [spec EXCEPT !.limit = l], epoch)

(* The button of the empty table sets the query and nothing else.               *)
ClearAllFilters ==
  /\ Idle /\ TraceTable = "noResults"
  /\ Render(tempo, [spec EXCEPT !.query = EmptyQuery], epoch)

--------------------------------------------------------------------------------
(* TraceDetailPageBody, which does not refresh. *)

(* A link of the chart to another trace; the page stays mounted.  No link       *)
(* changes the instance of an open detail page.                                 *)
LinkedTrace(s) ==
  /\ page = "trace" /\ GanttChart = "panel"
  /\ Render(tempo, s, epoch)

(* Mutant: the button is next to the title, whatever the chart shows.           *)
AttachmentOfData ==
  IF page = "trace" /\ HasTraceData THEN Entry.data.from ELSE None

(* The trace that the Lightspeed button of the chart hands on, by the instance  *)
(* it came from.                                                                *)
Attachment ==
  IF page = "trace" /\ GanttChart = "panel" /\ HasTraceData THEN Entry.data.from
  ELSE None

Next ==
  \/ \E found \in BOOLEAN : Respond(found)
  \/ Fail
  \/ \E k \in Keys : Collect(k)
  \/ PluginLoaded
  \/ \E p \in {"search", "trace"}, t \in Instances \union {None}, s \in Specs :
       Open(p, t, s)
  \/ \E s \in Details : OpenTrace(s) \/ LinkedTrace(s)
  \/ \E s \in Searches : Breadcrumb(s)
  \/ Leave
  \/ RunEffect
  \/ \E t \in Instances \union {None}, s \in Searches : Navigate(t, s)
  \/ \E q \in Queries : RunQuery(q)
  \/ \E l \in Limits : SetLimit(l)
  \/ ClearAllFilters

Spec == Init /\ [][Next]_vars

--------------------------------------------------------------------------------
(* Correctness. *)

(* The instance behind what a page shows: the error, the table or the absence   *)
(* of results, the chart.                                                       *)
ShownFrom ==
  IF page = "none" \/ Loading THEN None
  ELSE IF Entry.error # None THEN Entry.error
  ELSE Entry.data.from

(* Once the effects of a render have run, the traces page shows the traces, the *)
(* error or the absence of results of the selected instance and tenant, however *)
(* it came to it: not those of an instance that was selected before, neither    *)
(* from the cache nor from a request that was under way.                        *)
ShownIsSelected ==
  page = "search" /\ ~effect => ShownFrom \in {None, tempo}

(* The detail page does without a refresh: what the chart shows and what is     *)
(* handed to Lightspeed is the trace of the instance in the URL, also if the    *)
(* same trace id was looked at in another tenant.                               *)
TraceIsSelected ==
  page = "trace" => {ShownFrom, Attachment} \subseteq {None, tempo}
================================================================================
