----------------------------- MODULE FilterToolbar -----------------------------
(* The search toolbar of the traces page: FilterToolbar.tsx with its two modes, *)
(* AttributeFilters.tsx with the debounced inputs of DebouncedTextInput.tsx, and *)
(* the editor of TraceQLFilter.tsx.  The query is kept in the URL; a component  *)
(* sees it as of its last render, and a callback as of the render that made it. *)
(*                                                                              *)
(* A query is abstracted to the parts the toolbar treats differently: the two   *)
(* ends of a duration, the custom attributes, the label filters (service, span, *)
(* namespace, status), and whether it also has matchers that traceQLToFilter    *)
(* drops.  The handlers of a user run on a page that shows the current URL;     *)
(* timers and navigation do not wait for a render.                              *)
EXTENDS Naturals, Sequences, SequencesExt

CONSTANTS
  Inputs,         \* the debounced inputs with a cursor: of "min", "max", "custom"
  Durations,      \* texts that match durationFormatRegex
  MaxTimers,      \* bound on the pending debounce timers
  MaxNavigations  \* bound on the URL changes that come from elsewhere

Empty == ""

Bad == "soon"          \* does not match durationFormatRegex

Custom == "a=1"

Spaced == "a=1 "       \* the same with a blank that splitByUnquotedWhitespace drops

ASSUME InputsAssumption == Inputs \subseteq {"min", "max", "custom"}
ASSUME DurationsAssumption == Durations \intersect {Bad, Custom, Spaced} = {}
ASSUME MaxTimersAssumption == MaxTimers \in Nat \ {0}
ASSUME MaxNavigationsAssumption == MaxNavigations \in Nat

(* What can be typed into an input, and what an input can show of a query.      *)
Texts(f) == IF f = "custom" THEN {Empty, Custom, Spaced}
            ELSE {Empty, Bad} \union Durations

AllTexts == {Empty, Bad, Custom, Spaced} \union Durations

(* The debounced callback ignores a duration that the regular expression        *)
(* rejects; custom attributes have none.                                        *)
Valid(f, text) == f = "custom" \/ text # Bad

(* The text as the filter keeps it and a later render shows it.                 *)
Normal(text) == IF text = Spaced THEN Custom ELSE text

Wait(f) == IF f = "custom" THEN 5000 ELSE 1000

Filters == [min : {Empty} \union Durations, max : {Empty} \union Durations,
            custom : {Empty, Custom}, labels : {Empty, "label"}]

NoFilter == [min |-> Empty, max |-> Empty, custom |-> Empty, labels |-> Empty]

Queries == [filter : Filters, more : BOOLEAN]

(* filterToTraceQL: what the toolbar does not know is not in the query.         *)
ToQuery(filter) == [filter |-> filter, more |-> FALSE]

(* isSimpleTraceQLQuery: the query survives the way to a filter and back.       *)
Simple(q) == ToQuery(q.filter) = q

VARIABLES
  url,          \* the query in the URL
  shown,        \* the query of the last render
  attributes,   \* showAttributeFilters
  active,       \* activeFilter: "duration", "custom" or "labels"
  focus,        \* the input with the cursor, or Empty
  draft,        \* [Inputs -> text]: draftValue
  timers,       \* pending debounced calls, in the order of their last call
  live,         \* inputs whose present debounced function has a pending call
  overwritten,  \* history: inputs whose value changed twice between two renders
  doc,          \* what the TraceQL editor shows
  draftQuery,   \* the ref of TraceQLFilter
  prop,         \* the query the editor was last rendered with
  navigations   \* URL changes from elsewhere, for the bound

inputVars  == <<focus, draft, timers, live>>
editorVars == <<doc, draftQuery, prop>>
vars == <<url, shown, attributes, active, inputVars, overwritten, editorVars,
          navigations>>

Timers == [field : Inputs, text : AllTexts, snapshot : Filters]

(* The filter an input belongs to; it is mounted while that filter is active.   *)
FilterOf(f) == IF f = "custom" THEN "custom" ELSE "duration"

Mounted(f) == attributes /\ active = FilterOf(f)

TypeOK ==
  /\ url \in Queries /\ shown \in Queries
  /\ attributes \in BOOLEAN
  /\ active \in {"duration", "custom", "labels"}
  /\ focus \in Inputs \union {Empty}
  /\ draft \in [Inputs -> AllTexts]
  /\ \A f \in Inputs : draft[f] \in Texts(f)
  /\ timers \in Seq(Timers) /\ Len(timers) <= MaxTimers
  /\ \A i \in DOMAIN timers : timers[i].text \in Texts(timers[i].field)
  /\ live \in SUBSET Inputs
  /\ overwritten \in SUBSET Inputs
  /\ doc \in Queries /\ draftQuery \in Queries /\ prop \in Queries
  /\ navigations \in 0..MaxNavigations

(* Leaving a component forgets its state; it starts anew from the query.        *)
Drafts(q, a) == [f \in Inputs |-> IF FilterOf(f) = a THEN q.filter[f] ELSE Empty]

Mount(q, isAttributes) == IF isAttributes THEN ToQuery(NoFilter) ELSE q

Init ==
  /\ url \in {ToQuery(NoFilter), [filter |-> NoFilter, more |-> TRUE]}
  /\ shown = url
  /\ attributes = Simple(url)
  /\ active = "labels"
  /\ focus = Empty
  /\ draft = Drafts(url, "labels")
  /\ timers = <<>>
  /\ live = {}
  /\ overwritten = {}
  /\ doc = Mount(url, attributes) /\ draftQuery = doc /\ prop = doc
  /\ navigations = 0

Rendered == shown = url

(* runQuery and setQuery change the URL; the page renders it later.             *)
SetUrl(q) ==
  /\ url' = q
  /\ overwritten' = overwritten \union
       {f \in Inputs : /\ url.filter[f] # shown.filter[f]
                       /\ q.filter[f] # url.filter[f]}

--------------------------------------------------------------------------------
(* The debounced inputs. *)

(* Mutant: setFilter without the fields of the other filters. *)
CommittedAlone(t) == [NoFilter EXCEPT ![t.field] = Normal(t.text)]

(* setFilter of the render that made the callback: all fields but one are those *)
(* of that render.                                                              *)
Committed(t) == [t.snapshot EXCEPT ![t.field] = Normal(t.text)]

(* Mutant: the regular expression only marks the input as invalid. *)
RunUnchecked(t) == SetUrl(ToQuery(Committed(t)))

(* What a debounced call does when its time has come or it is flushed.          *)
Run(t) == IF Valid(t.field, t.text) THEN SetUrl(ToQuery(Committed(t)))
          ELSE UNCHANGED <<url, overwritten>>

(* The pending call of the present debounced function is the field's last one.  *)
IsLive(i) == /\ timers[i].field \in live
             /\ \A j \in DOMAIN timers : j > i => timers[j].field # timers[i].field

Calls(f) == {i \in DOMAIN timers : timers[i].field = f /\ IsLive(i)}

Others(f) == IF f \in live THEN RemoveAt(timers, CHOOSE i \in Calls(f) : TRUE)
             ELSE timers

(* handleChange: another call of the same debounced function replaces the last. *)
Type(f, text) ==
  /\ Mounted(f) /\ Rendered
  /\ focus \in {Empty, f}
  /\ text # draft[f]
  /\ Len(Others(f)) < MaxTimers
  /\ focus' = f
  /\ draft' = [draft EXCEPT ![f] = text]
  /\ timers' = Append(Others(f),
                      [field |-> f, text |-> text, snapshot |-> shown.filter])
  /\ live' = live \union {f}
  /\ overwritten' = overwritten \ {f}
  /\ UNCHANGED <<url, shown, attributes, active, editorVars, navigations>>

(* handleBlur flushes the present debounced function, and only that one.        *)
Blur ==
  /\ focus # Empty
  /\ focus' = Empty
  /\ \/ /\ focus \in live
        /\ Run(timers[CHOOSE i \in Calls(focus) : TRUE])
        /\ timers' = Others(focus)
        /\ live' = live \ {focus}
     \/ /\ focus \notin live
        /\ UNCHANGED <<url, overwritten, timers, live>>
  /\ UNCHANGED <<shown, attributes, active, draft, editorVars, navigations>>

(* Calls with the same wait time end in the order they were made.               *)
Fire(i) ==
  /\ i \in DOMAIN timers
  /\ \A j \in 1..(i - 1) : Wait(timers[j].field) > Wait(timers[i].field)
  /\ Run(timers[i])
  /\ live' = IF IsLive(i) THEN live \ {timers[i].field} ELSE live
  /\ timers' = RemoveAt(timers, i)
  /\ UNCHANGED <<shown, attributes, active, focus, draft, editorVars, navigations>>

--------------------------------------------------------------------------------
(* The other controls of the attribute filters: a click, after the blur of the  *)
(* input that had the cursor.                                                   *)
Clicked == Rendered /\ focus = Empty

PickLabel(x) ==
  /\ Clicked /\ attributes
  /\ x # shown.filter.labels
  /\ SetUrl(ToQuery([shown.filter EXCEPT !.labels = x]))
  /\ UNCHANGED <<shown, attributes, active, inputVars, editorVars, navigations>>

(* The labels under the toolbar: durations go together, custom ones alone.      *)
DeleteLabel ==
  /\ Clicked /\ attributes
  /\ \E g \in {[shown.filter EXCEPT !.min = Empty, !.max = Empty],
               [shown.filter EXCEPT !.custom = Empty]} :
       g # shown.filter /\ SetUrl(ToQuery(g))
  /\ UNCHANGED <<shown, attributes, active, inputVars, editorVars, navigations>>

(* Another filter is selected: inputs mount and unmount, their timers stay.     *)
SelectFilter(a) ==
  /\ Clicked /\ attributes
  /\ a # active
  /\ active' = a
  /\ draft' = Drafts(shown, a)
  /\ live' = {}
  /\ overwritten' = {}
  /\ UNCHANGED <<url, shown, attributes, focus, timers, editorVars, navigations>>

(* "Show query" and "Hide query" replace one mode by the other, whatever the    *)
(* query.                                                                       *)
Toggle ==
  /\ Clicked
  /\ attributes' = ~attributes
  /\ active' = "labels"
  /\ draft' = Drafts(shown, "labels")
  /\ live' = {}
  /\ overwritten' = {}
  /\ doc' = Mount(shown, ~attributes) /\ draftQuery' = doc' /\ prop' = doc'
  /\ UNCHANGED <<url, shown, focus, timers, navigations>>

--------------------------------------------------------------------------------
(* The TraceQL editor. *)

EditorTexts == {ToQuery(NoFilter),
                [filter |-> [NoFilter EXCEPT !.labels = "label"], more |-> TRUE]}

TypeQuery(q) ==
  /\ ~attributes /\ Rendered
  /\ q # doc
  /\ doc' = q
  /\ draftQuery' = q
  /\ UNCHANGED <<url, shown, attributes, active, inputVars, overwritten, prop, navigations>>

RunDraftQuery ==
  /\ ~attributes /\ Rendered
  /\ draftQuery # url
  /\ SetUrl(draftQuery)
  /\ UNCHANGED <<shown, attributes, active, inputVars, editorVars, navigations>>

--------------------------------------------------------------------------------
(* The page. *)

(* "Clear all filters" of the trace table, a link, the back button.             *)
Navigate(q) ==
  /\ navigations < MaxNavigations
  /\ navigations' = navigations + 1
  /\ q # url
  /\ SetUrl(q)
  /\ UNCHANGED <<shown, attributes, active, inputVars, editorVars>>

(* Mutants: debounced functions that outlive a render; an input without its     *)
(* effect; an editor that is given the query instead of the ref; an effect that *)
(* runs after every render.                                                     *)
RenderInputsMemo ==
  /\ attributes
  /\ ~Rendered \/ live # {}
  /\ draft' = [f \in Inputs |-> IF Mounted(f) /\ url.filter[f] # shown.filter[f]
                                  THEN url.filter[f] ELSE draft[f]]
  /\ UNCHANGED <<editorVars, live>>

RenderInputsNoEffect ==
  /\ attributes
  /\ ~Rendered \/ live # {}
  /\ live' = {}
  /\ UNCHANGED <<editorVars, draft>>

RenderEditorQuery ==
  /\ ~attributes
  /\ ~Rendered \/ prop # draftQuery \/ doc # draftQuery
  /\ prop' = url
  /\ doc' = url
  /\ draftQuery' = IF Rendered THEN draftQuery ELSE url
  /\ UNCHANGED <<draft, live>>

RenderEditorNoDeps ==
  /\ ~attributes
  /\ ~Rendered \/ prop # draftQuery \/ doc # draftQuery
  /\ prop' = draftQuery
  /\ doc' = IF prop # draftQuery THEN draftQuery ELSE doc
  /\ draftQuery' = url
  /\ UNCHANGED <<draft, live>>

(* AttributeFilters renders: every callback is new, so useMemo makes new        *)
(* debounced functions; the effect of an input runs if its value has changed.   *)
RenderInputs ==
  /\ attributes
  /\ ~Rendered \/ live # {}
  /\ draft' = [f \in Inputs |-> IF Mounted(f) /\ url.filter[f] # shown.filter[f]
                                  THEN url.filter[f] ELSE draft[f]]
  /\ live' = {}
  /\ UNCHANGED editorVars

(* TraceQLFilter renders: the editor takes the value of the ref, and only then  *)
(* the effect sets the ref to a query that has changed.                         *)
RenderEditor ==
  /\ ~attributes
  /\ ~Rendered \/ prop # draftQuery \/ doc # draftQuery
  /\ prop' = draftQuery
  /\ doc' = IF prop # draftQuery THEN draftQuery ELSE doc
  /\ draftQuery' = IF Rendered THEN draftQuery ELSE url
  /\ UNCHANGED <<draft, live>>

Render ==
  /\ RenderInputs \/ RenderEditor
  /\ shown' = url
  /\ overwritten' = overwritten \ {f \in Inputs : url.filter[f] # shown.filter[f]}
  /\ UNCHANGED <<url, attributes, active, focus, timers, navigations>>

Next ==
  \/ \E f \in Inputs : \E text \in Texts(f) : Type(f, text)
  \/ Blur
  \/ \E i \in 1..MaxTimers : Fire(i)
  \/ \E x \in {Empty, "label"} : PickLabel(x)
  \/ DeleteLabel
  \/ \E a \in {"duration", "custom", "labels"} : SelectFilter(a)
  \/ Toggle
  \/ \E q \in EditorTexts : TypeQuery(q) \/ Navigate(q)
  \/ RunDraftQuery
  \/ Render

Spec == Init /\ [][Next]_vars

--------------------------------------------------------------------------------
(* Correctness. *)

(* The pending call of an input's present debounced function was made from the  *)
(* query that is on the screen; a call that has become orphaned by a render     *)
(* need not have been.                                                          *)
LiveCallsAreCurrent ==
  \A i \in DOMAIN timers : IsLive(i) => timers[i].snapshot = shown.filter

(* A live call that fires or is flushed on a rendered page leaves every field   *)
(* as it is but the one that was typed into.                                    *)
EditsOneField ==
  \A i \in DOMAIN timers :
    timers' = RemoveAt(timers, i) /\ IsLive(i) /\ Rendered
      => \A g \in DOMAIN url.filter \ {timers[i].field} :
           url'.filter[g] = url.filter[g]

(* The call of a debounced function undoes no other filter, whatever is edited  *)
(* in between; but for the calls that a render has orphaned.                    *)
EditChangesOneField == [][EditsOneField]_vars

(* Once an input has no pending call it shows what the query holds, whatever    *)
(* edits, label clicks, navigations and renders came in between; but for an     *)
(* invalid duration, and for a value that a second change of the URL took back  *)
(* before React had rendered the first.                                         *)
InputsSettle ==
  \A f \in Inputs :
    (/\ Mounted(f) /\ Rendered /\ f \notin overwritten
     /\ \A i \in DOMAIN timers : timers[i].field # f
     /\ Valid(f, draft[f]))
      => Normal(draft[f]) = shown.filter[f]

(* The editor shows the text that "Run query" would run, or the text that would *)
(* run is the executed query: no keystroke is lost to a ref that went its own   *)
(* way (TraceQLFilter.tsx:19-27).                                               *)
EditorKeepsDraft == ~attributes /\ doc # draftQuery => draftQuery = shown

(* While the executed query stays the same, the ref changes only with the text  *)
(* on the screen: re-rendering the toolbar does not discard what was typed.     *)
RerenderKeepsDraft ==
  [][~attributes /\ ~attributes' /\ Rendered /\ draftQuery' # draftQuery
       => doc' = draftQuery']_vars

(* What TraceQLFilter.tsx:18 says of the ref: it holds the query of the editor. *)
EditorShowsDraft == ~attributes => doc = draftQuery
================================================================================
