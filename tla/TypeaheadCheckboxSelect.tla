------------------------ MODULE TypeaheadCheckboxSelect ------------------------
(* TypeaheadCheckboxSelect.tsx as AttributeFilters.tsx uses it: a menu of       *)
(* checkboxes over the values of a tag.  A text that is no option can be chosen *)
(* too; it stays an option as long as it is chosen.  Options show their value.  *)
EXTENDS MenuKeys, SequencesExt

CONSTANTS
  Tags,         \* the values of the tag that the cluster may know
  Created,      \* texts a user types that are no such value
  TagMatches,   \* [Tags \union Created -> SUBSET (Tags \union Created)]: the
                \* options that include the text
  SameText,     \* [Tags \union Created -> SUBSET (Tags \union Created)]: the
                \* options that are the text but for upper and lower case
  TagLists      \* the results that useTagValues may have

VARIABLES
  tags,    \* the options of the parent
  chosen,  \* its value: the selected options
  menu     \* the component

vars == <<tags, chosen, menu>>

Names == Tags \union Created

MenuStates ==
  [isOpen : BOOLEAN, inputValue : {Empty} \union Names,
   selectOptions : Seq(Names \union {NoResults}), focus : Nat,
   fresh : BOOLEAN, background : BOOLEAN,   \* as in TypeaheadSelect
   ranInput : {Empty} \union Names, ranOpen : BOOLEAN]

TypeOK ==
  /\ tags \in TagLists
  /\ chosen \in Seq(Names) /\ IsInjective(chosen)
  /\ menu \in MenuStates

(* Mutant: what was created is forgotten once it is chosen.                     *)
InitialTagsOnly == tags

(* The options of the parent, and the chosen ones that are not among them.      *)
InitialSelectOptions ==
  tags \o Filtered(chosen, Names \ Range(tags))

Init ==
  /\ tags \in TagLists
  /\ chosen \in {<<>>} \union {<<v>> : v \in Created}
  /\ menu = [isOpen |-> FALSE, inputValue |-> Empty,
             selectOptions |-> InitialSelectOptions, focus |-> NoFocus,
             fresh |-> TRUE, background |-> TRUE,
             ranInput |-> Empty, ranOpen |-> FALSE]

--------------------------------------------------------------------------------
Settled ==
  /\ ~menu.fresh
  /\ menu.inputValue = menu.ranInput
  /\ menu.isOpen = menu.ranOpen

(* Mutant: the option to create is added whenever there is a text.              *)
ShownAlways(text) ==
  OrNoResults(
    IF text = Empty THEN InitialSelectOptions
    ELSE Filtered(InitialSelectOptions, TagMatches[text])
         \o <<text>>)

(* Both the filter and the search for an option that is the text ignore case.   *)
Shown(text) ==
  OrNoResults(
    IF text = Empty THEN InitialSelectOptions
    ELSE Filtered(InitialSelectOptions, TagMatches[text])
         \o (IF Range(InitialSelectOptions) \intersect SameText[text] # {}
               THEN <<>> ELSE <<text>>))

RunEffect ==
  /\ ~Settled
  /\ menu' = [menu EXCEPT !.selectOptions = Shown(menu.inputValue),
                          !.fresh = FALSE, !.background = FALSE,
                          !.ranInput = menu.inputValue, !.ranOpen = menu.isOpen]
  /\ UNCHANGED <<tags, chosen>>

Ready == Settled \/ menu.background

Close(s) == [s EXCEPT !.isOpen = FALSE, !.focus = NoFocus]

Handle(s) ==
  /\ Ready
  /\ menu' = [s EXCEPT !.background = FALSE]

Stay == UNCHANGED <<tags, chosen>>

InputClick ==
  /\ \/ ~menu.isOpen /\ Handle([menu EXCEPT !.isOpen = TRUE])
     \/ menu.isOpen /\ menu.inputValue = Empty /\ Handle(Close(menu))
  /\ Stay

ToggleClick == Handle([menu EXCEPT !.isOpen = ~@]) /\ Stay

Dismiss == menu.isOpen /\ Handle(Close(menu)) /\ Stay

Type(text) ==
  /\ text # menu.inputValue
  /\ Handle([menu EXCEPT !.inputValue = text, !.focus = NoFocus])
  /\ Stay

Arrow(index) ==
  /\ Handle([menu EXCEPT !.isOpen = TRUE,
                         !.focus = AfterArrow(@, Len(menu.selectOptions), index)])
  /\ Stay

ArrowDown == Arrow(Below(menu.focus, Len(menu.selectOptions)))

ArrowUp == Arrow(Above(menu.focus, Len(menu.selectOptions)))

(* setSelected of the parent, which renders with the new value.                 *)
Choose(list) ==
  /\ chosen' = list
  /\ UNCHANGED tags

(* Mutant: a checked option is checked again.                                   *)
ToggledAppends(v) == Append(chosen, v)

Toggled(v) ==
  IF v \in Range(chosen) THEN Filtered(chosen, Names \ {v})
  ELSE Append(chosen, v)

(* A selection leaves the menu open, the text and the focus as they are.        *)
OnSelect(v) ==
  /\ v # NoResults
  /\ Choose(Toggled(v))
  /\ Handle([menu EXCEPT !.fresh = TRUE])

Pick(v) == menu.isOpen /\ v \in Range(menu.selectOptions) /\ OnSelect(v)

Focused ==
  IF menu.focus \in DOMAIN menu.selectOptions
    THEN menu.selectOptions[menu.focus] ELSE NoResults

Enter ==
  \/ menu.isOpen /\ OnSelect(Focused)
  \/ ~menu.isOpen /\ Handle([menu EXCEPT !.isOpen = TRUE]) /\ Stay

(* The clear button is there while something is chosen.                         *)
ClearButtonClick ==
  /\ chosen # <<>>
  /\ Choose(<<>>)
  /\ Handle([menu EXCEPT !.inputValue = Empty, !.focus = NoFocus, !.fresh = TRUE])

--------------------------------------------------------------------------------
(* The parent. *)

Rerendered(s) == [s EXCEPT !.fresh = TRUE, !.background = TRUE]

(* useTagValues has a result for the present query, or another part of the      *)
(* toolbar made it render again.                                                *)
ParentRenders(list) ==
  /\ Ready
  /\ tags' = list
  /\ menu' = Rerendered(menu)
  /\ UNCHANGED chosen

(* A label under the toolbar is deleted; the click also closes an open menu.    *)
DeleteLabel(v) ==
  /\ ~menu.isOpen
  /\ v \in Range(chosen)
  /\ Choose(Filtered(chosen, Names \ {v}))
  /\ Handle([menu EXCEPT !.fresh = TRUE])

Next ==
  \/ RunEffect
  \/ InputClick \/ ToggleClick \/ Dismiss
  \/ \E text \in {Empty} \union Names : Type(text)
  \/ ArrowDown \/ ArrowUp \/ Enter \/ ClearButtonClick
  \/ \E v \in Names : Pick(v) \/ DeleteLabel(v)
  \/ \E list \in TagLists : ParentRenders(list)

Spec == Init /\ [][Next]_vars

--------------------------------------------------------------------------------
(* Correctness. *)

(* A chosen value can be unchosen in the menu: whenever it matches the text, it *)
(* is an option, although the cluster may not know it or no longer know it.     *)
ChosenAreOffered ==
  Settled => \A v \in Range(chosen) :
    (menu.inputValue = Empty \/ v \in TagMatches[menu.inputValue])
      => v \in Range(menu.selectOptions)

(* Options are React keys and ids: a value is never listed twice, be it known,  *)
(* chosen, typed, or all of these.                                              *)
OptionsAreDistinct == IsInjective(menu.selectOptions)

(* What TypeaheadCheckboxSelect.tsx:161 and 178 say of the arrow keys: they     *)
(* focus the first or last option, or the one before or after.                  *)
ArrowsFindAnOption ==
  [][ArrowDown \/ ArrowUp
       => menu.selectOptions = <<>> \/ menu'.focus \in DOMAIN menu.selectOptions]_vars
================================================================================
