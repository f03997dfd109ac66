------------------------------- MODULE FilterQuery -----------------------------
(* A user's session with the attribute filters of the toolbar                   *)
(* (AttributeFilters.tsx): every edit converts the query to a filter, changes   *)
(* one field and converts it back, so that whatever a conversion loses is lost  *)
(* to all later edits.  Debouncing and rendering are FilterToolbar's.           *)
EXTENDS TraceQL

CONSTANTS
  Characters,    \* what texts are made of; an attribute, an operator count as one
  Values,        \* [string fields of the filter -> sets of texts that can be picked]
  Durations,     \* the durations, as a sequence from short to long
  CustomInputs,  \* sequences of matchers that can be typed as custom attributes
  Queries,       \* queries that the TraceQL editor or a link can bring
  MaxFields,     \* bound on the fields of the filter that are set at once
  MaxValues      \* bound on the values that are picked for one field

StringFields == {"serviceName", "spanName", "namespace"}

Texts == Seq(Characters)

Matchers == [attribute : Characters, operator : Characters, value : Texts \ {<<>>},
             spaced : BOOLEAN]

ParsedQueries == Seq(Seq(Matchers) \ {<<>>})

DurationFields == [min : Texts, max : Texts]

CustomMatchers == {m \in Matchers : ~m.spaced}

Filters == [serviceName : Seq(Texts), spanName : Seq(Texts), namespace : Seq(Texts),
            status : Seq(Texts \ {<<>>}), spanDuration : DurationFields,
            traceDuration : DurationFields, customMatchers : Seq(CustomMatchers)]

(* A value as the grammar has it: a literal, in which a backslash precedes each *)
(* quote, or a word.                                                            *)
IsStatic(value) ==
  \/ Range(value) \intersect {Quote, Blank} = {}
  \/ /\ Len(value) > 1 /\ value[1] = Quote /\ value[Len(value)] = Quote
     /\ \A i \in 2..(Len(value) - 1) : value[i] = Quote => value[i - 1] = Backslash

(* A literal that ends in an escaped backslash has no end for                   *)
(* SplitByUnquotedWhitespace, which looks one character back: it and the next   *)
(* matcher stay one chunk, and the query cannot be parsed.                      *)
HidesItsEnd(m) == Len(m.value) > 2 /\ m.value[Len(m.value) - 1] = Backslash

IsTyped(m) == /\ {m.attribute, m.operator} \intersect {Quote, Blank, Backslash} = {}
              /\ IsStatic(m.value) /\ ~HidesItsEnd(m)

ASSUME CharactersAssumption ==
  {Backslash, Quote, Bar, Blank, "=", "=~", ">=", "<=", "ok", "error"}
    \union KnownAttributes \subseteq Characters

ASSUME ValuesAssumption ==
  /\ DOMAIN Values \subseteq StringFields
  /\ \A field \in DOMAIN Values : Values[field] \subseteq Texts

ASSUME DurationsAssumption == Durations \in Seq(Texts \ {<<>>})

ASSUME CustomInputsAssumption ==
  /\ CustomInputs \subseteq Seq(CustomMatchers)
  /\ \A matchers \in CustomInputs : \A m \in Range(matchers) : IsTyped(m)

ASSUME QueriesAssumption == Queries \subseteq ParsedQueries

VARIABLES
  query,    \* the query in the URL
  (* History, read by the properties only. *)
  wanted,   \* the filter that the user has put together
  lossy,    \* the last edit wanted a filter that a query cannot hold
  filtered  \* the query was made by the attribute filters

vars == <<query, wanted, lossy, filtered>>

Statuses == {<<"ok">>, <<"error">>}

NoDuration == [min |-> <<>>, max |-> <<>>]

NoFilter == [serviceName |-> <<>>, spanName |-> <<>>, namespace |-> <<>>,
             status |-> <<>>, spanDuration |-> NoDuration,
             traceDuration |-> NoDuration, customMatchers |-> <<>>]

TypeOK == /\ query \in ParsedQueries
          /\ wanted \in Filters
          /\ lossy \in BOOLEAN /\ filtered \in BOOLEAN

Init == query = <<>> /\ wanted = NoFilter /\ lossy = FALSE /\ filtered = FALSE

--------------------------------------------------------------------------------
(* What a query cannot hold. *)

(* Several values of one attribute become a regular expression, in which a bar  *)
(* separates them.                                                              *)
HasBar(values) == Len(values) > 1 /\ \E v \in Range(values) : Bar \in Range(v)

(* A custom matcher for an attribute with a field of its own is that field's,   *)
(* or, with an operator the field does not have, nobody's.                      *)
IsKnown(m) == m.attribute \in KnownAttributes

Lossy(f) == \/ \E field \in StringFields : HasBar(f[field])
            \/ \E m \in Range(f.customMatchers) : IsKnown(m)

--------------------------------------------------------------------------------
(* The controls. *)

Removed(list, x) == Filtered(list, Range(list) \ {x})

Toggle(values, v) == IF v \in Range(values) THEN Removed(values, v)
                     ELSE Append(values, v)

(* setFilter on the filter of the query, and the same on what the user wants;   *)
(* what could not be held is taken over as it is then shown.                    *)
SetField(field, new, meant) ==
  LET goal == [wanted EXCEPT ![field] = meant]
  IN /\ Cardinality({g \in DOMAIN goal : goal[g] # NoFilter[g]}) <= MaxFields
     /\ query' = FilterToTraceQL([TraceQLToFilter(query) EXCEPT ![field] = new])
     /\ lossy' = Lossy(goal)
     /\ wanted' = IF lossy' THEN TraceQLToFilter(query') ELSE goal
     /\ filtered' = TRUE

(* A value is checked or unchecked in the menu, or its label deleted.           *)
PickValue(field, v) ==
  LET shown == TraceQLToFilter(query)[field]
  IN /\ v \in Range(shown) \/ Len(shown) < MaxValues
     /\ SetField(field, Toggle(shown, v), Toggle(wanted[field], v))

(* A label group is deleted. *)
DeleteLabelGroup(field) == SetField(field, <<>>, <<>>)

SetDuration(end, d) ==
  SetField("spanDuration",
           [TraceQLToFilter(query).spanDuration EXCEPT ![end] = d],
           [wanted.spanDuration EXCEPT ![end] = d])

(* The label of a duration, one for both ends, is deleted. *)
DeleteDurationLabel == SetField("spanDuration", NoDuration, NoDuration)

(* The custom attributes are typed as one text. *)
SetCustom(matchers) ==
  SetField("customMatchers",
           Map(Parsed, SplitByUnquotedWhitespace(Join(Map(Typed, matchers), Blank))),
           matchers)

(* The label of one custom attribute is deleted. *)
DeleteCustomLabel(m) ==
  LET shown == TraceQLToFilter(query).customMatchers
  IN /\ m \in Range(shown)
     /\ SetField("customMatchers", Removed(shown, m), Removed(wanted.customMatchers, m))

(* Clear all filters of the trace table, the editor, a link: the query is       *)
(* replaced.                                                                    *)
RunQuery(q) ==
  /\ query' = q
  /\ wanted' = TraceQLToFilter(q)
  /\ lossy' = FALSE
  /\ filtered' = FALSE

Edit == \/ \E field \in DOMAIN Values : \E v \in Values[field] : PickValue(field, v)
        \/ \E s \in Statuses : PickValue("status", s)
        \/ \E field \in DOMAIN Values \union {"status"} : DeleteLabelGroup(field)
        \/ \E end \in {"min", "max"}, d \in Range(Durations) \union {<<>>} :
             SetDuration(end, d)
        \/ DeleteDurationLabel
        \/ \E matchers \in CustomInputs : SetCustom(matchers)
        \/ \E m \in Range(wanted.customMatchers) : DeleteCustomLabel(m)

Next == Edit \/ \E q \in Queries \union {<<>>} : RunQuery(q)

Spec == Init /\ [][Next]_vars

--------------------------------------------------------------------------------
(* Correctness. *)

(* The toolbar shows what the user has put together, field by field and in      *)
(* order, after any number of edits through any number of conversions: no       *)
(* quote, backslash or separator in a value breaks out of it.  The custom       *)
(* matchers may be ordered by attribute.                                        *)
SameMatchers(ms, ns) ==
  \A a \in {m.attribute : m \in Range(ms) \union Range(ns)} :
    OfAttribute(ms, a) = OfAttribute(ns, a)

SameFilter(f, g) ==
  /\ \A field \in DOMAIN NoFilter \ {"customMatchers"} : f[field] = g[field]
  /\ SameMatchers(f.customMatchers, g.customMatchers)

ReadsBack == SameFilter(TraceQLToFilter(query), wanted)

(* An edit changes the matchers of its own field: a query that the attribute    *)
(* filters can represent keeps its other matchers, as they are written, in      *)
(* their order.                                                                 *)
Without(q, attributes) ==
  Filtered(q, {part \in Range(q) :
                 \A m \in Range(part) : m.attribute \notin attributes})

AttributesOf(field, f, g) ==
  CASE field = "serviceName"    -> {"resource.service.name"}
    [] field = "spanName"       -> {"name"}
    [] field = "namespace"      -> {"resource.k8s.namespace.name"}
    [] field = "status"         -> {"status"}
    [] field = "spanDuration"   -> {"duration"}
    [] field = "traceDuration"  -> {"traceDuration"}
    [] field = "customMatchers" ->
         {m.attribute : m \in Range(f.customMatchers) \union Range(g.customMatchers)}

KeepsOthers ==
  IsSimpleTraceQLQuery(query) /\ ~lossy' =>
    \A field \in DOMAIN wanted :
      (filtered' /\ wanted'[field] # wanted[field]) =>
        LET mine == AttributesOf(field, wanted, wanted')
        IN Without(query', mine) = Without(query, mine)

SimpleKeepsOthers == [][KeepsOthers]_vars

(* The query that the attribute filters make selects the spans that the filter  *)
(* describes: one of the values of each field, a duration between the ends,     *)
(* every custom attribute.  This is TraceQL's meaning of the operators; nothing *)
(* escapes what means something in a regular expression, so that values with    *)
(* such characters are excepted where there are several.                        *)
RegexCharacters == {Bar, Backslash, ".", "+", "*", "?", "(", ")", "[", "]",
                    "{", "}", "^", "$"}

Plain(values) ==
  Len(values) <= 1 \/ \A v \in Range(values) : Range(v) \intersect RegexCharacters = {}

Rank(d) == CHOOSE i \in DOMAIN Durations : Durations[i] = d

Picked(field) == IF field \in DOMAIN Values THEN Values[field] ELSE {}

Lengths == 0..(Len(Durations) + 1)  \* shorter than all, as long as one, longer

Spans == [serviceName   : Picked("serviceName") \union {<<"z">>},
          spanName      : Picked("spanName") \union {<<"z">>},
          namespace     : Picked("namespace") \union {<<"z">>},
          status        : Statuses,
          duration      : Lengths,
          traceDuration : Lengths,
          custom        : BOOLEAN]  \* it has all custom attributes, or none

Literal(value) == Unescape(SubSeq(value, 2, Len(value) - 1))

(* Of plain values joined by bars, as which the alternatives are read.          *)
Alternatives(value) == Range(Split(Literal(value), Bar))

Compares(m, text) == CASE m.operator = "="  -> text = Literal(m.value)
                       [] m.operator = "=~" -> text \in Alternatives(m.value)

Bounds(m, length) == IF m.operator = ">=" THEN length >= Rank(m.value)
                                          ELSE length <= Rank(m.value)

Holds(m, span) ==
  CASE m.attribute = "resource.service.name"       -> Compares(m, span.serviceName)
    [] m.attribute = "name"                        -> Compares(m, span.spanName)
    [] m.attribute = "resource.k8s.namespace.name" -> Compares(m, span.namespace)
    [] m.attribute = "status"                      -> m.value = span.status
    [] m.attribute = "duration"                    -> Bounds(m, span.duration)
    [] m.attribute = "traceDuration"               -> Bounds(m, span.traceDuration)
    [] OTHER                                       -> span.custom

Selects(q, span) == \A part \in Range(q) : \E m \in Range(part) : Holds(m, span)

OneOf(values, text) == values = <<>> \/ text \in Range(values)

Between(d, length) == /\ d.min = <<>> \/ length >= Rank(d.min)
                      /\ d.max = <<>> \/ length <= Rank(d.max)

Describes(f, span) ==
  /\ \A field \in StringFields \union {"status"} : OneOf(f[field], span[field])
  /\ Between(f.spanDuration, span.duration)
  /\ Between(f.traceDuration, span.traceDuration)
  /\ f.customMatchers = <<>> \/ span.custom

SelectsWhatWasPicked ==
  (filtered /\ ~lossy /\ \A field \in StringFields : Plain(wanted[field]))
    => \A span \in Spans : Selects(query, span) <=> Describes(wanted, span)
================================================================================
