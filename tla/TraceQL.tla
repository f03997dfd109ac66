--------------------------------- MODULE TraceQL -------------------------------
(* The conversions between the filter of the toolbar and a TraceQL query:       *)
(* traceql_from_filter.ts, traceql_to_filter.ts, filter.ts.                     *)
(*                                                                              *)
(* A text is a sequence of characters; an attribute, an operator, a keyword and *)
(* a duration count as one.  A matcher keeps its value as it is written, quotes *)
(* and all, and whether blanks surround its operator.  A query is the sequence  *)
(* of what && joins; each part is the sequence of the matchers that || joins.   *)
(* The grammar is @grafana/lezer-traceql's: an attribute, an operator and a     *)
(* value make a matcher, wherever they stand.                                   *)
EXTENDS Lists, SequencesExt

Backslash == "\\"
Quote     == "\""
Bar       == "|"
Blank     == " "

Map(f(_), s) == [i \in DOMAIN s |-> f(s[i])]

(* String.replaceAll: from left to right, without overlap. *)
Replace(text, old, new) ==
  LET from[i \in 1..(Len(text) + 1)] ==
        IF i > Len(text) THEN <<>>
        ELSE IF IsPrefix(old, SubSeq(text, i, Len(text)))
             THEN new \o from[i + Len(old)]
             ELSE <<text[i]>> \o from[i + 1]
  IN from[1]

(* Array.join and the pieces of a text between the positions of cuts. *)
Join(texts, separator) ==
  FlattenSeq([i \in DOMAIN texts |->
                IF i = 1 THEN texts[i] ELSE <<separator>> \o texts[i]])

Pieces(text, cuts) ==
  LET from[i \in 1..(Len(text) + 1)] ==
        IF i > Len(text) THEN <<<<>>>>
        ELSE IF i \in cuts THEN <<<<>>>> \o from[i + 1]
        ELSE <<<<text[i]>> \o Head(from[i + 1])>> \o Tail(from[i + 1])
  IN from[1]

(* String.split. *)
Split(text, separator) == Pieces(text, {i \in DOMAIN text : text[i] = separator})

Matcher(a, op, value, spaced) ==
  [attribute |-> a, operator |-> op, value |-> value, spaced |-> spaced]

(* The matchers of an attribute, of an operator, in their order. *)
OfAttribute(matchers, a) == Filtered(matchers, {m \in Range(matchers) : m.attribute = a})

OfOperator(matchers, op) == Filtered(matchers, {m \in Range(matchers) : m.operator = op})

--------------------------------------------------------------------------------
(* From a filter to a query. *)

(* Mutant: the quotes first. *)
EscapeQuotesFirst(text) ==
  Replace(Replace(text, <<Quote>>, <<Backslash, Quote>>),
          <<Backslash>>, <<Backslash, Backslash>>)

Escape(text) ==
  Replace(Replace(text, <<Backslash>>, <<Backslash, Backslash>>),
          <<Quote>>, <<Backslash, Quote>>)

(* One value is compared, several make a regular expression. *)
StringMatcher(a, values) ==
  LET literal  == <<Quote>> \o Join(Map(Escape, values), Bar) \o <<Quote>>
      operator == IF Len(values) = 1 THEN "=" ELSE "=~"
  IN IF values = <<>> THEN <<>> ELSE <<<<Matcher(a, operator, literal, TRUE)>>>>

(* Mutants: no value makes an empty part; the values are joined by &&. *)
IntrinsicMatcherEmpty(a, values) ==
  <<[i \in DOMAIN values |-> Matcher(a, "=", values[i], TRUE)]>>

IntrinsicMatcherAnd(a, values) ==
  [i \in DOMAIN values |-> <<Matcher(a, "=", values[i], TRUE)>>]

IntrinsicMatcher(a, values) ==
  IF values = <<>> THEN <<>>
  ELSE <<[i \in DOMAIN values |-> Matcher(a, "=", values[i], TRUE)]>>

DurationMatcher(a, d) ==
  (IF d.min = <<>> THEN <<>> ELSE <<<<Matcher(a, ">=", d.min, TRUE)>>>>)
    \o (IF d.max = <<>> THEN <<>> ELSE <<<<Matcher(a, "<=", d.max, TRUE)>>>>)

CustomMatcher(matchers) == [i \in DOMAIN matchers |-> <<matchers[i]>>]

FilterToTraceQL(f) ==
  StringMatcher("resource.service.name", f.serviceName)
    \o StringMatcher("name", f.spanName)
    \o StringMatcher("resource.k8s.namespace.name", f.namespace)
    \o IntrinsicMatcher("status", f.status)
    \o DurationMatcher("duration", f.spanDuration)
    \o DurationMatcher("traceDuration", f.traceDuration)
    \o CustomMatcher(f.customMatchers)

--------------------------------------------------------------------------------
(* From a query to a filter. *)

Unescape(text) ==
  Replace(Replace(text, <<Backslash, Quote>>, <<Quote>>),
          <<Backslash, Backslash>>, <<Backslash>>)

ReverseStringMatcher(matchers) ==
  LET unescaped(m) == Unescape(SubSeq(m.value, 2, Len(m.value) - 1))
      values(m) ==
        CASE m.operator = "="  -> <<unescaped(m)>>
          [] m.operator = "=~" -> Split(unescaped(m), Bar)
          [] OTHER -> <<>>
  IN FlattenSeq(Map(values, matchers))

ReverseIntrinsicMatcher(matchers) ==
  LET value(m) == m.value
  IN Map(value, OfOperator(matchers, "="))

(* The last matcher of an operator wins. *)
ReverseDurationMatcher(matchers) ==
  LET end(op) == LET ms == OfOperator(matchers, op)
                 IN IF ms = <<>> THEN <<>> ELSE Last(ms).value
  IN [min |-> end(">="), max |-> end("<=")]

KnownAttributes == {"resource.service.name", "name", "resource.k8s.namespace.name",
                    "status", "duration", "traceDuration"}

(* The other matchers, those of one attribute together, in the order in which   *)
(* the attributes come first; written without blanks.                           *)
Others(matchers) ==
  Filtered(matchers, {m \in Range(matchers) : m.attribute \notin KnownAttributes})

ByAttribute(matchers) ==
  LET isFirst(i) == \A j \in 1..(i - 1) : matchers[j].attribute # matchers[i].attribute
  IN FlattenSeq([i \in DOMAIN matchers |->
                   IF isFirst(i) THEN OfAttribute(matchers, matchers[i].attribute)
                                 ELSE <<>>])

ReverseCustomMatcher(matchers) ==
  LET tight(m) == [m EXCEPT !.spaced = FALSE]
  IN Map(tight, ByAttribute(Others(matchers)))

TraceQLToFilter(query) ==
  LET matchers == FlattenSeq(query)
      of(a) == OfAttribute(matchers, a)
  IN [serviceName    |-> ReverseStringMatcher(of("resource.service.name")),
      spanName       |-> ReverseStringMatcher(of("name")),
      namespace      |-> ReverseStringMatcher(of("resource.k8s.namespace.name")),
      status         |-> ReverseIntrinsicMatcher(of("status")),
      spanDuration   |-> ReverseDurationMatcher(of("duration")),
      traceDuration  |-> ReverseDurationMatcher(of("traceDuration")),
      customMatchers |-> ReverseCustomMatcher(matchers)]

(* Mutant: what is compared is the filter. *)
IsSimpleTraceQLQueryByFilter(query) ==
  TraceQLToFilter(FilterToTraceQL(TraceQLToFilter(query))) = TraceQLToFilter(query)

IsSimpleTraceQLQuery(query) == FilterToTraceQL(TraceQLToFilter(query)) = query

--------------------------------------------------------------------------------
(* The custom attributes as a text. *)

(* A quote opens or closes unless a backslash precedes it. *)
IsQuote(text, i) == text[i] = Quote /\ (i = 1 \/ text[i - 1] # Backslash)

UnquotedBlanks(text) ==
  LET quoted[i \in 0..Len(text)] ==
        IF i = 0 THEN FALSE
        ELSE IF IsQuote(text, i) THEN ~quoted[i - 1] ELSE quoted[i - 1]
  IN {i \in DOMAIN text : text[i] = Blank /\ ~quoted[i]}

SplitByUnquotedWhitespace(text) ==
  LET chunks == Pieces(text, UnquotedBlanks(text))
  IN Filtered(chunks, {chunk \in Range(chunks) : chunk # <<>>})

(* A matcher as it is typed, and what the grammar makes of such a text. *)
Typed(m) == <<m.attribute, m.operator>> \o m.value

Parsed(chunk) == Matcher(chunk[1], chunk[2], SubSeq(chunk, 3, Len(chunk)), FALSE)
================================================================================
