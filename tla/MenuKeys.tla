------------------------------- MODULE MenuKeys -------------------------------
(* What the two typeahead menus have in common: handleMenuArrowKeys and the     *)
(* entry that stands for an empty list.  The index of the focused option is     *)
(* counted from 1, with 0 for null.  No caller sets isDisabled, the loops that  *)
(* skip disabled options end at once.                                           *)
EXTENDS Lists

NoFocus == 0

NoResults == "no results"

Empty == ""

(* "At the first index, focus to the last", and the other way round.            *)
Above(focus, n) == IF focus \in {NoFocus, 1} THEN n ELSE focus - 1

Below(focus, n) == IF focus \in {NoFocus, n} THEN 1 ELSE focus + 1

(* The index after an arrow key.  One beyond the list is undefined, reading it  *)
(* throws and the focus stays as it is; an empty list is left alone.            *)
AfterArrow(focus, n, index) == IF index \in 1..n THEN index ELSE focus

(* An empty menu still has one entry, which cannot be selected.                 *)
OrNoResults(list) == IF list = <<>> THEN <<NoResults>> ELSE list
================================================================================
