----------------------------- MODULE MCFilterQuery -----------------------------
(* Instance of FilterQuery for TLC: values with each of the characters that the *)
(* conversions treat specially, alone and next to each other.                   *)
EXTENDS FilterQuery

MCCharacters == STRING

MCValues ==
  [serviceName |-> {<<"a">>, <<Quote, "b">>, <<"b", Backslash>>},
   spanName    |-> {<<"a", Bar, "+", Backslash, Backslash, Blank, Quote>>}]

MCDurations == <<<<"5s">>>>

Quoted(text) == <<Quote>> \o text \o <<Quote>>

Status(v)  == Matcher("span.status", "=", v, FALSE)
Method(v)  == Matcher("span.method", "=", Quoted(v), FALSE)
Long       == Matcher("duration", ">", <<"5s">>, FALSE)

MCCustomInputs ==
  {<<>>,
   <<Status(<<"200">>), Method(<<Backslash, Quote, Blank, "a">>), Status(<<"404">>)>>,
   <<Status(<<"200">>), Long>>}

(* A negation that the filters do not have, one attribute twice, a regular      *)
(* expression of one value, a query in another layout, and one of the fields    *)
(* that nothing else sets here.                                                 *)
Name(op, v) == <<Matcher("name", op, Quoted(v), TRUE)>>

MCQueries ==
  {<<Name("!=", <<"a">>)>>,
   <<Name("=", <<"a">>), Name("=", <<"b">>)>>,
   <<Name("=~", <<"a">>), <<Status(<<"200">>)>>>>,
   <<<<Matcher("status", "=", <<"ok">>, FALSE)>>>>,
   <<<<Matcher("resource.k8s.namespace.name", "=~", Quoted(<<"a", Bar, "b">>), TRUE)>>,
     <<Matcher("traceDuration", ">=", <<"5s">>, TRUE)>>>>}
================================================================================
