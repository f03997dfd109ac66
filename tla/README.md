# Verification of the distributed tracing console plugin

TLA+ modules that model the Go backend and the React frontend of the plugin,
TLC configurations that check them on small instances, and TLAPS proofs of the
results that hold for every instance. Everything is translated from the source;
`PROJECT.json` names, for each definition, the lines it stands for.

    tlc -workers 2 -config ProxyCache.cfg MCProxyCache     # one run
    tlapm ProxyCacheProofs.tla                             # the proofs

Contents: [inventory](#1-inventory) - [modules](#2-modules) - [runs](#3-runs) -
[proofs](#4-proofs) - [disagreements found](#5-where-code-and-documentation-disagree) -
[not modelled](#6-what-is-not-modelled) - [plan](#7-plan).

## 1. Inventory

### Backend (Go, `pkg/`, `cmd/`)

| Component | State | Operations | Hard behaviour | What makes it correct |
|---|---|---|---|---|
| Proxy endpoint, `pkg/proxy/proxy.go` | an LRU cache of reverse proxies (128 entries), shared by all request goroutines; each proxy holds the CA it was built with | `ServeHTTP`: look up, list the resources twice, build a proxy, add it, strip the prefix, forward | misses race; entries are overridden and evicted while in use; the cluster and the CA file change meanwhile; the two lists are no snapshot | a request goes to the instance and tenant it named; an instance is reached only if it was validated; refusals are justified; the cache stays within its size |
| Resource listing API, `pkg/api/tempo.go` | none | `ListTempoResources`: two list calls, tenants read out of each resource | one call fails after the other succeeded; missing CRDs; resources with absent or malformed fields | lists exactly the instances with tenants; tells a missing operator from other errors |
| Serving certificate, `pkg/server.go:105-148` | certificate and key in memory, two work queues, watches | start, file watcher, loader, controller | two files replaced one after the other, with reads in between; watches that get lost; crashes | a pair is never mixed and never older than one served before; a rotation is served in the end |
| Startup and configuration, `cmd/`, `pkg/server.go` | none after startup | merge arguments, environment and defaults | boundaries (a timeout of 0, `PORT`) | precedence |
| Manifest and static files | patched manifest, constant | one JSON patch per feature | - | - |
| `pkg/proxy/sanitize.go` | none | `DNSName` | - | a DNS label of the same length |

### Frontend (React, `web/src/`)

| Component | State | Operations | Hard behaviour | What makes it correct |
|---|---|---|---|---|
| Loading the list, `useTempoResources`, `cancellableFetch` | react-query's status, error, data, staleness; a timer | fetch, answer, timeout, refetch | answer and timer race; an error hides data; data is stale when used | loading ends; errors are told apart |
| Instance and tenant, `useTempoInstance`, `TempoInstanceDropdown`, `TracesPage` | the selection in the URL | pick, preselect the only instance, links with any selection | the page selects while it renders, from a list that may be old | selects declared tenants only; comes to the only instance there is |
| Filter toolbar, `FilterToolbar`, `AttributeFilters`, `DebouncedTextInput` | the query in the URL, drafts of inputs, pending timers with the closures they call | type, blur, pick, delete a label, switch modes | closures of older renders fire later; renders replace debounced functions | an edit changes its own field; inputs end up with what holds |
| TraceQL editor, `TraceQLFilter`, `TraceQLEditor` | the text, a ref, the query prop | type, run, navigate | a ref is read while rendering and set after it | no keystroke is lost; what is shown is what will run |
| Typeahead menus, `TypeaheadSelect`, `TypeaheadCheckboxSelect` | text, filter, shown options, focused index | mouse, keyboard, text, new lists | effects that change what they depend on; a focus that survives its list | the menu holds what matches; what is chosen can be unchosen |
| Conversion of filters, `Filter/*.ts` | none; each edit goes through both directions | filter to TraceQL and back, check whether a query survives | escaping, several values of one attribute, losses that add up over edits | round trip; an edit keeps the other matchers; the query selects what was picked |
| Query browser and Perses | query, limit, time range in the URL; a refresh counter, a ref, react-query's cache | run, refresh, switch instance | results are cached under the query, not under the instance | results belong to the selected instance |
| Trace detail page | trace id in the URL; the same cache | open, follow links, back, hand the trace to Lightspeed | never refreshes; the same trace id in another tenant | what is shown and handed on is of the instance in the URL |
| Selects, alerts, translations | little or none | rendering | - | - |

### How they interact

The page loads the list from the listing API, keeps it in react-query, and the
dropdown turns it into a selection in the URL. The selection becomes the URL of
the proxy endpoint (`hooks/api.ts`, `PersesWrapper.tsx`), which validates it
against the cluster again with the same `ListTempoResources`, unless it has a
proxy for that key in its cache. The toolbar turns inputs into a query in the
URL; Perses sends it through the proxy, and keeps its answers in a cache that
the traces page shares with the trace detail page. In the frontend everything runs in one
thread: what interleaves are event handlers, timers, answers and renders. In the
backend goroutines interleave at the cache's lock and at every call that leaves
the process.

## 2. Modules

| Module | Models | Extends / instantiates |
|---|---|---|
| `LRU` | `golang-lru`: `Get` and `Add` on the sequence of entries, most recent first (external) | |
| `ProxyDirectory` | abstract: what the proxy endpoint promises, without a cache | |
| `ProxyCache` | `ServeHTTP` per goroutine, the cluster, the CA file | `LRU`, instantiates `ProxyDirectory` |
| `ProxyCacheProofs` | the theorems | `ProxyCache` |
| `TempoResources` | pure: tenants read out of a custom resource | |
| `TempoSelection` | listing API, request, react-query, traces page, dropdown | `TempoResources` |
| `TempoSelectionProofs` | the theorems about both | `TempoSelection` |
| `FilterToolbar` | both modes of the toolbar, debounced inputs, editor | |
| `FilterToolbarProofs` | the theorems about it | `FilterToolbar` |
| `Lists` | `Array.filter` (external) | |
| `ListProofs` | lemmas about lists: induction, `Filtered`, concatenation, flattening | `Lists` |
| `MenuKeys` | arrow keys and the empty entry, common to both menus | `Lists` |
| `TypeaheadSelect`, `TypeaheadCheckboxSelect` | the menus | `MenuKeys` |
| `ToolbarMenus` | both menus in one toolbar, each rendered by the other's changes | instantiates both |
| `ToolbarMenusProofs` | the theorems about all three | `ToolbarMenus`, `ListProofs` |
| `ServingCertificate` | abstract: clients get one consistent pair, never an older one | |
| `CertReload` | `Start` with TLS: main, loader, watcher, controller; rotation of the files; crashes | instantiates `ServingCertificate` |
| `CertReloadProofs` | the theorems about it | `CertReload` |
| `TraceQL` | pure: both conversions, escaping, splitting of custom attributes | `Lists` |
| `FilterQuery` | a session of edits, each of which goes through both conversions | `TraceQL` |
| `FilterQueryProofs` | the theorems about both | `FilterQuery`, `ListProofs` |
| `TraceResults` | query browser, panels, trace detail page, the cache they share | |
| `TraceResultsProofs` | the theorems about it | `TraceResults` |
| `MC...` | constants for TLC | |

### ProxyCache

A step is what a goroutine does between two points where another one can run.
`pc[r]` walks through `ServeHTTP`:

    idle --Arrive--> get --CacheHit------------------------------------> serve
                      \--CacheMiss--> stacks --> monoliths --> create --> add --^
    serve --Serve--> done --Finish--> idle        (ListFails, notListed, caError: --> done)

`ListStacks` and `ListMonoliths` are the two list calls of `ListTempoResources`,
`CreateProxy` reads the CA file, `AddToCache` is `lru.Add` (one lock, so atomic).
`Publish` and `Withdraw` change what the two lists return, `RotateCA` and
`ToggleCA` the file; these four are the environment's (external). `ever`, `missing`, `seen`, `caSeen` and `raced` are history
that only properties read. A key is a pair of instance and tenant, as
`cacheKey` of the code. Whether a resource is listed is an atom here;
`TempoResources` says which ones are.

`ProxyDirectory` has no cache, no CA and no second list: a request is pending
and is then forwarded to what it named (only if that was ever listed), refused
(only if each list lacked it while it was pending), or failed.

### TempoSelection

`ListCall` is one of the two list calls. Each kind of resource has a CRD of its
own (`installed`); a call without the CRD of its kind ends in *not found*, and any
call may fail otherwise. What comes back is a list of tenants of any length;
that no resource declares more than two is the choice of `MCTempoSelection`. `Receive`
is the answer in the browser, `Timeout` the timer of `cancellableFetch`, which
ends a request however far it is. `query`, `stale` and `FetchIfStale` are
react-query 4 as the hook uses it (no retry, no refetch on focus:
`TracingApp.tsx`; `staleTime`: `useTempoResources.ts:49`), external but for its
options. `Page` is the cascade of `TracesPageBody`. The dropdown selects in
`OnSelect`; `Preselect` is the call of `onSelect` in its body, while rendering.
The browser is taken to be online. Entries of the list carry the resource they
were made of, for the properties.

### FilterToolbar

`url` is the query, `shown` the query of the last render. Each pending timer
carries the text that was typed and the filter that its closure captured. A
render makes every callback new, so `useMemo` makes a new debounced function:
`live` holds the inputs whose present function has a pending call. `Blur`
flushes that one only. User handlers run on a page that shows the current URL
(React renders after each event); timers and navigation come at any time. A
query is split into the ends of the duration, the custom attributes, the label
filters and whether it holds anything the filters cannot represent.

### ToolbarMenus

Each menu is a record; a handler makes a new one and a later step runs the
effects. Handlers of the user meet a component whose effects have run
(React flushes effects of discrete events at once) or one that was rendered for
another reason and whose effects are still to run (`background`). `ranFilter`,
`ranOpen` and `ranInput` are the dependencies as the last effect saw them. The
user works in one menu per behaviour (`used`), the other one is rendered again
whenever the first changes the URL. What a menu shows for a value is `Content`:
"namespace / name" for the instances, the value itself for the tenants, which
is the instance of `MenuReopens.cfg`. `SameText` says which texts differ in
upper and lower case at most, as the check for the entry "create" compares them.

### CertReload

`server.go` starts and connects four threads; their bodies are in
`k8s.io/apiserver` (external). A step is one read of a file, one operation on a
queue or one store of an atomic pointer. A file is its generation, and a
certificate fits the key of its own generation only, because each rotation makes
a new key; `Write` replaces one of the two files, so any step may see half of a
rotation.

    down --Restart--> loadCert --> loadKey --> runOnce --> wire --> listenCert --> listenKey --> listening
                                      |                                                |
                                      +---- a pair that does not fit: the process ends-+

`Wire` stands for `AddListener` and the two goroutines (`server.go:128-135`). The
server reads the files twice, in `NewDynamicServingContentFromFiles` and in
`ListenAndServeTLS`; what clients get is `served`, since `GetConfigForClient`
replaces the pair that `ListenAndServeTLS` has read (`static`). `WatcherFails`,
`Crash` and the loss of a watch when a file is replaced are the faults.
`newest` is history: the newest generation any client could get.

`ServingCertificate` has one pair, replaced at once by one that is not older than
what any client got and has been written completely, and gone while the server
is down. `published` maps to the generation both files have reached, `pair` to
`served` once the server listens.

### TraceQL and FilterQuery

`TraceQL` has no state. A text is a sequence of characters, of which only quote,
backslash, bar and blank mean anything to the conversions; attribute names,
operators and durations count as one character. A query is a conjunction of
disjunctions of matchers, whose values are kept as written. The parser is that of
`@grafana/lezer-traceql` and is taken to read a matcher as it was written.
`replaceAll`, `split` and the loop of `splitByUnquotedWhitespace` are recursive
functions, so that they can be reasoned about; `Characters` is what texts are
made of (all strings in the run, any set that holds the special ones in the
proofs).

`FilterQuery` is what the controls of `AttributeFilters` do to the query:
`SetField` converts the query to a filter, changes a field and converts back, the
trailing conversion being part of every action. `DeleteDurationLabel` clears both
ends of a duration at once. `wanted` is history: the filter
that the user has put together if no conversion lost anything, and `lossy` tells
that the last edit asked for one that a query cannot hold. Only `spanDuration` is
edited; `traceDuration` is a second instance of the same component, and what
the user does not edit here comes with a query from elsewhere. A span is what
the properties need of it: one value per field of the filter, two lengths, and
whether it has the custom attributes.

### TraceResults

Perses files a result under the query of the page and a counter that `refresh()`
increments. `Key` is that pair; `Observe`, a part of every step that renders,
says where the request for the key goes. External assumptions, taken from the
options in `TracingApp.tsx` and from how the code uses Perses: results are stale
at once and nothing is retried; a key that a page begins to observe is fetched
from the data source of that render, with the cached result there meanwhile; a
request that no page observes any more is aborted. The time range is absolute:
with a relative one every key is new, which behaves like a key whose entry was
collected. `effect` is the effect of `QueryBrowserBody` that is due;
`isInitialRender` its ref. The instance of an open detail page is changed by no
link; editing its URL by hand or a jump in the history is left out.

## 3. Runs

| Run | Instance | States | What it shows |
|---|---|---|---|
| `proxy_cache` | 2 goroutines, 1 instance, 2 tenants, cache of 1, 1 rotation | 690 000 | the cache is well formed and sound; requests get their own proxy; misses are validated and read the CA anew; a key is cached on the miss path only after a race |
| `proxy_refines` | the same, no rotation, fair | 370 000 | `ImplementsDirectory`; `EveryRequestAnswered` |
| `filter_toolbar` | a duration and the custom input, 2 timers, 1 navigation | 950 000 | live edits change their own field; inputs and editor settle |
| `toolbar_menus` | 2 instances, 1 known and 2 created tags | 250 000 | the menus hold what matches; what is chosen can be unchosen; no value is listed twice |
| `tempo_selection` | 3 resources (two of one name), 4 shapes, 2 CRDs, 1 change | 330 000 | declared tenants only; a missing operator is told apart; loading ends; the only instance is selected |
| `cert_reload` | 2 rotations, 1 crash, fair | 79 000 | `ImplementsServingCertificate`: never a mixed or older pair; what was loaded is notified; `RotationServed` |
| `filter_query` | 3 service names, 2 span names, 2 states, both ends of a duration, 3 texts of custom attributes, 5 foreign queries; 3 fields set at once, 3 values in a field | 4 400 | any number of edits reads back as what was put together, keeps the other matchers and selects what was picked |
| `trace_results` | 2 instances, 2 queries, 2 limits, 2 traces, 2 refreshes, 2 cached results | 690 000 | results, errors and attachments are of the selected instance |
| `proxy_path`, `filter_editor`, `menu_reopens`, `menu_arrows` | as above | - | violations, see section 5 |

### Why the bounds are enough

- *Proxy.* A race needs two requests for one key, an eviction two keys and a
  cache of one: both happen (with `CacheSize = 1` every second key evicts). A
  goroutine is reused when it is done, so sequences of requests are unbounded.
  Goroutines and tenants are interchangeable, hence the symmetry of
  `ProxyCache.cfg`; the run with liveness has none. The theorems lift all but
  liveness to every number of goroutines, instances and tenants and every size.
- *Filter.* The two inputs differ in all that the code tells apart (validation,
  normalisation, waiting time, filter they belong to); a third would repeat one.
  Two timers give a live and an orphaned call. One navigation stands for each
  way the query changes behind the toolbar's back.
- *Menus.* Lists of none, one and two options, a filter that matches one and one
  that matches none, a text that is an option, one that is an option but for a
  capital letter, and one that is neither.
- *Selection.* A stack and a monolith of the same name make the two options that
  `find` cannot tell apart; the shapes are: two tenants, none, switched off
  (for the kind that has a switch), and an entry without a name. One change of
  the cluster, of a resource or of any of the CRDs, lies between any two steps of a
  request. Two tenants can be confused with each other; more would repeat them,
  and the theorems have no such bound.

- *Certificate.* The second rotation can meet the reload of the first one in each
  of its steps. A crash after the first rotation starts a process with other
  files than one that has served. `MaxRotations` and `MaxCrashes` bound the
  environment only; the theorems hold for all values of both.
- *Conversions.* The values hold each special character alone and next to each
  other: a quote first, a backslash last, a bar, and two backslashes, a blank and
  a quote in a row; one value also has a plus sign, which only a regular expression
  reads differently. `MaxValues` bounds the values that are picked for one field:
  with two a regular expression is made, with three one between two others can be
  toggled. The menus have no limit, and neither have the theorems. `MaxFields` bounds the fields that are set at once: three are enough for
  an edit to meet a field before and one after its own.
- *Results.* Two instances can be mixed up and switched back; two queries, limits
  and traces are enough to leave a key and to return to it; `MaxEpoch` allows two
  refreshes of one visit of the page; `MaxEntries` lets an old result lie next
  to the current one. Instances, limits and traces are interchangeable, hence the
  symmetry. The theorems lift all bounds.

### Fairness

- `ProxyCache`: weak fairness of each goroutine's `Handle`. The Go scheduler runs
  what can run, and a list call ends, with an answer or an error. Nothing is
  assumed of clients, of the cluster or of the CA file.
- `TempoSelection`: weak fairness of `Timeout` (a timer of 30 seconds that is
  set for each request fires) and of `Preselect` (a render does what it does).
  Backend and network owe nothing: `LoadingEnds` holds with a backend that never
  answers.

- `CertReload`: weak fairness of `MainStep` (main runs, and the kubelet starts an
  ended container again), of `LoaderStep`, `WatcherStep` and `SyncCerts`
  (goroutines are scheduled), of `LoaderRetry` (the delay of a rate limited
  item ends) and of `FinishRotation` (whoever replaced one file replaces the
  other). Nothing is assumed of `BeginRotation`, `Crash` and `WatcherFails`, nor
  of `MinuteTick`: a rotation is served without the minutely check.

The other modules state safety only. Where a user may simply stop, there is no
fairness that the code could justify.

## 4. Proofs

`ProxyCacheProofs` proves, for any constants that satisfy the three named
assumptions of `ProxyCache` (a cache of at least one entry, a natural bound,
escaped tenants are tenants):

| Theorem | Statement |
|---|---|
| `Invariance` | `Spec => []Inv` |
| `TypeCorrect` | `Spec => []TypeOK` |
| `CacheBounded` | `Spec => []CacheWellFormed` |
| `CacheSound` | `Spec => []CacheIsSound` |
| `OwnKeyServed` | `Spec => []ServesItsOwnKey` |
| `MissesValidated` | `Spec => []MissNeedsListing` |
| `RefusalsJustified` | `Spec => []RefusalIsJustified` |
| `MissesReadTheCA` | `Spec => []MissReadsTheCA` |
| `MissesRaceOnly` | `Spec => []CachedOnMissOnlyIfRaced` |
| `Refinement` | `Spec => ImplementsDirectory` |

None of the safety properties is inductive. That a request serves its own key
needs the soundness of the cache at the hit; soundness of the cache needs the
soundness of the proxy a goroutine carries from `create` to `add`, and that the
instance it found in a list was listed at some time; a justified refusal needs,
in between the two list calls, that a request which did not find its instance
in the first list has `TempoStack` among `missing`. The strengthening is

    Inv == TypeOK /\ ListedIsEver /\ CacheWellFormed /\ CacheIsSound
           /\ CachedOnMissOnlyIfRaced /\ \A r \in Reqs : Watched(r) /\ Holds(r)

where `Watched(r)` says that what a list lacks now is among `missing[r]`, and
`Holds(r)` what goroutine `r` knows at each `pc`. There is one lemma for each
action. The facts about the cache (`ToFrontFacts`, `TouchFacts`, `AddFacts`: no
duplicate key, the size, which entries remain) are lemmas about `LRU` and
mention no variable. The refinement maps `get` to `add` to *pending*; every
action is a step of `ProxyDirectory` or leaves its variables unchanged.

`CertReloadProofs` proves, for any number of rotations and crashes:

| Theorem | Statement |
|---|---|
| `ReloadInvariance` | `Spec => []Inv` |
| `ReloadTypeCorrect` | `Spec => []TypeOK` |
| `LoadedIsNotifiedAlways` | `Spec => []LoadedIsNotified` |
| `ReloadRefinement` | `Spec => ImplementsServingCertificate` |

That no client gets an older pair than another one before holds because of an
order that every thread keeps, which is the heart of `Inv`:

    newest <= served <= content <= certificate just read <= files

for the loader; main stays below the files in the same way while it starts.
`Sound` adds that a loaded pair is of one generation. `ThreadsRun` says which
threads exist at which step of main, without which a notification could come
before its listener.

`TraceResultsProofs` proves, for any instances, queries, limits and traces and
any bounds:

| Theorem | Statement |
|---|---|
| `ResultsInvariance` | `Spec => []Inv` |
| `ResultsTypeCorrect` | `Spec => []TypeOK` |
| `ShownIsSelectedAlways` | `Spec => []ShownIsSelected` |
| `TraceIsSelectedAlways` | `Spec => []TraceIsSelected` |

`ShownIsSelected` says nothing of a request that is under way, so it is not
inductive. `Current` is: unless a refresh is due, the key that the page observes
is being fetched from the selected instance or holds an answer or an error of it.
`DueFits` keeps the refresh that is due within the bound. `ObserveKeeps`, one
lemma about the shared part of every render, carries most of the proof.

`TempoSelectionProofs` proves, for any set of resources of any shape, any number
of changes of the cluster and lists of tenants of any length (`Seq` in `TempoResources`):

| Theorem | Statement |
|---|---|
| `ListedIsDeclared` | a resource is listed if and only if it declares a tenant and no entry is broken, and then with exactly the tenants it declares |
| `SelectionInvariance` | `Spec => []Inv` |
| `SelectionTypeCorrect` | `Spec => []TypeOK` |
| `NotInstalledIsTrueAlways` | `Spec => []NotInstalledIsTrue` |
| `SelectsDeclaredTenantAlways` | `Spec => SelectsDeclaredTenant` |

`Inv == TypeOK /\ ListsAreDeclared /\ NotFoundIsTrue`. What the page selects comes
from a list that left the backend long ago, so that its entries are declared has
to be known of the answer on its way and of the cached data, too; that a missing
operator is the cause has to be known from the backend's first call on, and of
an error that stays on the screen while nothing is under way. `ListedIsDeclared`
is a statement about `readTenantsFromCR` alone and is where the length of the
lists matters: no entry after a broken one may be lost or kept by accident.

`FilterToolbarProofs` proves, for any set of inputs, any durations, any number of
timers and of navigations:

| Theorem | Statement |
|---|---|
| `ToolbarInvariance` | `Spec => []Inv` |
| `ToolbarTypeCorrect` | `Spec => []TypeOK` |
| `LiveCallsAreCurrentAlways` | `Spec => []LiveCallsAreCurrent` |
| `InputsSettleAlways` | `Spec => []InputsSettle` |
| `EditorKeepsDraftAlways` | `Spec => []EditorKeepsDraft` |
| `EditChangesOneFieldAlways` | `Spec => EditChangesOneField` |
| `RerenderKeepsDraftAlways` | `Spec => RerenderKeepsDraft` |

`InputsSettle` speaks of a settled page and is not inductive. `DraftsFollow` is:
in every state what an input shows is what its last pending call will commit, or
is about to be replaced by a render, or is what the query holds, or does not
parse. `CallsAreKnown` says that the present debounced function of an input owns
the last of its timers, which is why `Blur` and `Type` replace the right one.
`DurationsAssumption` (a duration is not one of the atoms that stand for other
texts) keeps the atoms of the model apart.

`ToolbarMenusProofs` proves, for any lists, values, texts and matches:

| Theorem | Statement |
|---|---|
| `MenusInvariance` | `Spec => []Inv` |
| `MenusTypeCorrect` | `Spec => []TypeOK` |
| `MenuFollowsAlways` | `Spec => []MenuFollows` |
| `ChosenAreOfferedAlways` | `Spec => []ChosenAreOffered` |
| `OptionsAreDistinctAlways` | `Spec => []OptionsAreDistinct` |

`Inv` is one invariant per menu, each kept by the other one's steps. The link
that is missing from the properties is `background => fresh`: after a render that
the user did not cause, the effects are due, so that no handler that runs before
them leaves a state that looks settled and is not. `ChosenAreOffered` follows
from `OptionsFollow`: a settled menu shows what `Shown` makes of its text.

`FilterQueryProofs` proves, for texts of any length over any characters, any
values, durations and custom attributes, any query the parser accepts and
sessions of any length:

| Theorem | Statement |
|---|---|
| `UnescapeEscape` | `Unescape(Escape(text)) = text` |
| `StringFieldReadsBack` | the values of a string field are read back, each as it was and in order, unless `HasBar` |
| `FilterReadsBack` | `~Lossy(g)` implies `SameFilter(TraceQLToFilter(FilterToTraceQL(g)), g)` |
| `QueryIsRead` | any query is read as a filter, whose custom matchers have no field of their own |
| `CustomTextIsParsed` | splitting and parsing the text of the custom attributes gives the custom attributes |
| `QueryInvariance` | `Spec => []QueryInv` |
| `QueryTypeCorrect` | `Spec => []TypeOK` |
| `ReadsBackAlways` | `Spec => []ReadsBack` |
| `SelectsWhatWasPickedAlways` | `Spec => []SelectsWhatWasPicked` |
| `SimpleKeepsOthersAlways` | `Spec => SimpleKeepsOthers` |

The argument is that of the table, from top to bottom. Escaping is undone because
a literal can be read in only one way: `Replace` is shown to mark each quote, then
each backslash, and unmarking to invert either. Joining and splitting at a bar
invert each other if no value holds one. A query is seven parts, one per field
(`Seven`, `PartsOf`); what is read of one attribute is what its own part holds, and
nothing of the six others. For the text of the custom attributes the invariant
runs over its positions: after each typed matcher no quote is open (`Closed`), so
that the blanks between matchers are the ones that cut (`Chunks`).

`ReadsBack` alone is not inductive, because a toggle of a value works on what the
query is read as and on what the user wants, and these two agree only if nothing
that has a field of its own is among the custom matchers; and what a query
selects is known from how it was made, not from how it is read:

    QueryInv == TypeOK /\ ReadsBack /\ NoneKnown(wanted.customMatchers)
                /\ (filtered /\ ~lossy => \E g : MadeOf(g))

where `MadeOf(g)` says that the query is `FilterToTraceQL(g)` and that `g` is the
wanted filter but for the order of custom matchers of different attributes.
`SelectsWhatWasPicked` speaks of a field with several values only if they are
`Plain`, free of every character that means something in a regular expression: for
the others the code does select something else (section 5). The five assumptions of `FilterQuery` say that the characters with a meaning are
characters, that values, durations and foreign queries are made of texts, and that
a custom attribute is typed as the grammar has it (`IsTyped`, with the exception
`HidesItsEnd` of section 5). TLC evaluates all five, with the set of all strings
for `Characters`.

### Recursive functions

The library's induction theorems take an operator as a parameter, which the
provers cannot instantiate. `ListProofs` states them with sets in place of
operators: `Induction` (a set that holds 0 and with each number the next one holds
all of `Nat`) and `ListInduction` (the same for sequences, which grow at the end).
A property of a recursive function over texts is then the set of the numbers, or
of the texts, that have it. That the functions exist at all is proved the same
way (`ReplacingExists`). So what `Replace`, `Pieces`, `Quoted`, `Filtered`
and `FlattenSeq` compute is proved for every input.

### Only model-checked

Liveness (`EveryRequestAnswered`, `LoadingEnds`, `OnlyOneIsSelected`,
`RotationServed`), which is beyond the prover under fairness, as is `ENABLED`.
Every other property of a passing run is stated by a theorem.

## 5. Where code and documentation disagree

| Run | Property | What happens |
|---|---|---|
| `proxy_path` | `NeverLosesThePath` | `proxy.go:214` strips an encoded prefix from a decoded path: a tenant that needs encoding passes every check and is answered 404 |
| `filter_editor` | `EditorShowsDraft` | `TraceQLFilter.tsx:27`: after a navigation the editor shows the old query and "Run query" runs the new one |
| `menu_reopens` | `OpensOnNewText` | `TypeaheadSelect.tsx:205`: closing the menu while a text filters it runs the effect that opens it |
| `menu_arrows` | `ArrowsFindAnOption` | `TypeaheadCheckboxSelect.tsx:182`: the focused index survives a list that became shorter, the next arrow key reads beyond its end |

Each is quoted with its line in `PROJECT.json`, under `findings`. The properties
of the passing runs say what holds nevertheless: `LiveCallsAreCurrent` and
`EditChangesOneField` speak of calls that no render orphaned, `EditorKeepsDraft`
of a ref that equals the text or the executed query.

Seen in the models, without a run of its own:

- `DebouncedTextInput.tsx:59` flushes the debounced function of the last render:
  a call that a render orphaned is not flushed and waits for its timer after the
  cursor has left.
- `FilterToolbar.tsx:56`: "Hide query" shows the attribute filters for a query
  that they cannot represent, and the next edit drops what they lack
  (`SimpleKeepsOthers` speaks of queries that they can represent).
- `AttributeFilters.tsx:342`: the example `duration>5s` of the popover is of an
  attribute with a field of its own, so it is not read back as a custom
  attribute and is gone after the edit (`Lossy`).
- `filter.ts:25`: a literal that ends in an escaped backslash has no end for
  `splitByUnquotedWhitespace`, which looks one character back; an assumption of
  `FilterQuery` (`HidesItsEnd`) keeps such texts out of its instances.
- `traceql_from_filter.ts:26`: no character of a regular expression is escaped when
  a field has several values. With a second value picked, `a+b` and
  `GET /users/{id}` do not match themselves (`RegexCharacters`, `Plain`), and a bar
  in a value is read back as two values (`HasBar`).
- `tempo.go:79-84` with `tempo.go:52`: if only one of the two CRDs is there, the
  handler answers `TempoCRDNotFound`, and the page says that the operator is not
  installed although there may be instances of the other kind. `NotInstalledIsTrue`
  says no more than that some CRD was missing.
- `TypeaheadSelect.tsx:232`: `closeMenu` looks for the value `selected`, which holds
  the content of the option until something is picked in the menu. With the
  instances, whose content is not their value, a menu that is closed before the
  first pick keeps the text that was typed.
- `TraceDetailPage.tsx:168`: the title keeps the name of the cached trace while
  that trace is loading or after it failed to load.

`InputsSettle` has two exceptions that the code has too: a duration that does
not parse stays in the input, and a value that two changes of the URL took away
and back before a render leaves the draft as it is, because the effect compares
values (`overwritten`).

## 6. What is not modelled

- Bodies, headers and connections of proxied requests; `net/http` and the
  transports do that. An entry that leaves the cache keeps its idle connections.
- The text of queries in `FilterToolbar`: it knows which queries survive the
  conversion to a filter and back, `FilterQuery` knows their characters and not
  the timers.
- The TLS handshake beyond the pair it gets: protocols, ciphers, HTTP/2. A start
  without TLS. A certificate file that cannot be read takes the path of a pair
  that does not fit, which ends in the same retry or the same exit. The
  certificate file that `server.go:182` hands to the proxy as CA file is the CA
  file of `ProxyCache`.
- Startup and configuration (see the plan), manifest patches, `DNSName`.
- `transformTrace` (a conversion of formats), the toggle that hides the graph, the
  alert about more results, themes, the size limit of the Lightspeed button.
- Charts, tables, translations: rendering without state that a property could be
  about.
- The clear button and `isCreatable` of `TypeaheadSelect`: no caller uses them.

## 7. Plan

The order was: the proxy endpoint first, for it is shared by all users and races
by design; then what a user's own steps can interleave with, the toolbar, the
menus and the selection; then the reload of the certificate, the conversions
that the toolbar rests on, and the results of a query. Left:

1. An abstract session of `FilterQuery`, a filter that is edited field by field
   without a query, and the proof from `QueryInv` that the session implements it.
2. `CancellableFetch`: the turns of the microtask queue, which of `AbortError`
   and `TimeoutError` a caller sees.
3. The display of a closed menu (`closeMenu` compares a content with values).
4. Startup: precedence of arguments, environment and defaults; timeouts of zero.
