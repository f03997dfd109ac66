---------------------------- MODULE MCToolbarMenus ----------------------------
(* Two instances, a known tag value and what a user may type: another value, or *)
(* the same with a capital letter.                                              *)
EXTENDS ToolbarMenus

MCContent == [v \in Values |-> IF v = "ns__a" THEN "ns / a" ELSE "ns / b"]

MCMatches == [f \in Filters |-> IF f = "a" THEN {"ns__a"} ELSE {}]

MCLists == {<<>>, <<"ns__b">>, <<"ns__a", "ns__b">>}

(* The dropdown of the tenants, which shows the values themselves.              *)
MCTenantContent == [v \in Values |-> v]

MCTenantMatches == [f \in Filters |-> IF f = "d" THEN {"dev", "prod"} ELSE {}]

MCTenantLists == {<<>>, <<"dev">>, <<"dev", "prod">>}

MCTagMatches ==
  [t \in Tags \union Created |->
    IF t = "other" THEN {"other"} ELSE {"frontend", "Frontend"}]

MCTagLists == {<<>>, <<"frontend">>}
================================================================================
