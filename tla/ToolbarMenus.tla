----------------------------- MODULE ToolbarMenus -----------------------------
(* FilterToolbar.tsx renders the dropdown of the instances and the checkboxes   *)
(* of an attribute filter: what one of them selects changes the URL, and both   *)
(* are rendered again, in whatever state the other one is.                      *)
EXTENDS MenuKeys, SequencesExt

CONSTANTS Values, Content, Filters, Matches, Lists,
          Tags, Created, TagMatches, SameText, TagLists

ASSUME FiltersAssumption == Empty \notin Filters
ASSUME ListsAssumption == \A l \in Lists : l \in Seq(Values) /\ IsInjective(l)
ASSUME CreatedAssumption == Tags \intersect Created = {}
ASSUME SameTextAssumption == \A t \in Tags \union Created : t \in SameText[t]
ASSUME TagMatchesAssumption == \A t \in Tags \union Created : t \in TagMatches[t]
ASSUME TagListsAssumption == \A l \in TagLists : l \in Seq(Tags) /\ IsInjective(l)

VARIABLES
  offered, value, select,  \* TypeaheadSelect
  tags, chosen, menu,      \* TypeaheadCheckboxSelect
  used                     \* the menu that the user works in

Select   == INSTANCE TypeaheadSelect
Checkbox == INSTANCE TypeaheadCheckboxSelect

vars == <<offered, value, select, tags, chosen, menu, used>>

TypeOK == Select!TypeOK /\ Checkbox!TypeOK

(* The menus share nothing but the renders: it is enough to use one of them,    *)
(* while the other is closed and rendered again and again.                      *)
Init ==
  /\ Select!Init
  /\ Checkbox!Init
  /\ used \in {"select", "checkbox"}

(* Another instance: the values of the tags will be asked of it.                *)
SelectStep ==
  /\ \/ used = "select" /\ Select!Next
     \/ used = "checkbox" /\ Select!RunEffects
  /\ menu' = IF value' # value THEN Checkbox!Rerendered(menu) ELSE menu
  /\ UNCHANGED <<tags, chosen, used>>

(* Another query.                                                               *)
CheckboxStep ==
  /\ \/ used = "checkbox" /\ Checkbox!Next
     \/ used = "select" /\ Checkbox!RunEffect
  /\ select' = IF chosen' # chosen THEN Select!Rerendered(select) ELSE select
  /\ UNCHANGED <<offered, value, used>>

Next == SelectStep \/ CheckboxStep

Spec == Init /\ [][Next]_vars

--------------------------------------------------------------------------------
(* Correctness: the properties of each menu, in the company of the other.       *)

(* TypeaheadSelect: the menu holds what matches, once the effects have run.     *)
MenuFollows == Select!MenuFollows

(* TypeaheadCheckboxSelect: what is chosen can be unchosen.                     *)
ChosenAreOffered == Checkbox!ChosenAreOffered

(* TypeaheadCheckboxSelect: no option is listed twice.                          *)
OptionsAreDistinct == Checkbox!OptionsAreDistinct

(* TypeaheadSelect: the effect opens the menu for a new text only.              *)
OpensOnNewText == Select!OpensOnNewText

(* TypeaheadCheckboxSelect: an arrow key focuses an option.                     *)
ArrowsFindAnOption == Checkbox!ArrowsFindAnOption
================================================================================
