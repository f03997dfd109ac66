---------------------------- MODULE TypeaheadSelect ----------------------------
(* TypeaheadSelect.tsx as ControlledSelects.tsx and TempoInstanceDropdown.tsx   *)
(* use it: a menu whose entries are filtered by the text in its input.  The     *)
(* state of the component is the record select; a handler of the user makes a   *)
(* new state, React renders it and then runs the two effects, which may change  *)
(* it again.                                                                    *)
(*                                                                              *)
(* Every caller sets allowClear to false and none isCreatable, so the clear     *)
(* button and the entry that creates an option are left out.                    *)
EXTENDS MenuKeys, SequencesExt

CONSTANTS
  Values,   \* the values of options
  Content,  \* [Values -> text]: what an option shows
  Filters,  \* texts a user types to find an option
  Matches,  \* [Filters -> SUBSET Values]: the options whose content includes it
  Lists     \* the lists of options that the parent may have

None == "none"

VARIABLES
  offered,  \* the options of the parent
  value,    \* its selected option, or None
  select    \* the component

vars == <<offered, value, select>>

Texts == {Empty} \union Filters \union {Content[v] : v \in Values}

SelectStates ==
  [isOpen : BOOLEAN, selected : Values \union Texts, inputValue : Texts,
   filterValue : {Empty} \union Filters,
   selectOptions : Seq(Values \union {NoResults}), focus : Nat,
   fresh : BOOLEAN,        \* initialOptions is new to the effects
   background : BOOLEAN,   \* rendered for a reason other than the user
   ranFilter : {Empty} \union Filters, ranOpen : BOOLEAN]  \* the last effect saw this

TypeOK ==
  /\ offered \in Lists
  /\ value \in Values \union {None}
  /\ select \in SelectStates

(* The content of the option that the parent has selected.                      *)
Display == IF value \in Range(offered) THEN Content[value] ELSE Empty

Init ==
  /\ offered \in Lists
  /\ value \in Values \union {None}
  /\ select = [isOpen |-> FALSE,
               selected |-> Display, inputValue |-> Display, filterValue |-> Empty,
               selectOptions |-> offered, focus |-> NoFocus,
               fresh |-> TRUE, background |-> TRUE,
               ranFilter |-> Empty, ranOpen |-> FALSE]

--------------------------------------------------------------------------------
(* The effects. *)

Settled ==
  /\ ~select.fresh
  /\ select.filterValue = select.ranFilter
  /\ select.isOpen = select.ranOpen

Shown(filter) ==
  OrNoResults(IF filter = Empty THEN offered
              ELSE Filtered(offered, Matches[filter]))

(* Mutant: an effect that ignores a new list.                                   *)
RunEffectsSameList ==
  /\ ~Settled
  /\ select' = [select EXCEPT
       !.selectOptions = IF select.filterValue = select.ranFilter THEN @
                         ELSE Shown(select.filterValue),
       !.isOpen = @ \/ select.filterValue # Empty,
       !.inputValue = IF select.fresh THEN Display ELSE @,
       !.fresh = FALSE, !.background = FALSE,
       !.ranFilter = select.filterValue, !.ranOpen = select.isOpen]
  /\ UNCHANGED <<offered, value>>

(* The first effect depends on the filter, on initialOptions and, through       *)
(* openMenu, on isOpen; the second on initialOptions only.                      *)
RunEffects ==
  /\ ~Settled
  /\ select' = [select EXCEPT
       !.selectOptions = Shown(select.filterValue),
       !.isOpen = @ \/ select.filterValue # Empty,
       !.inputValue = IF select.fresh THEN Display ELSE @,
       !.fresh = FALSE, !.background = FALSE,
       !.ranFilter = select.filterValue, !.ranOpen = select.isOpen]
  /\ UNCHANGED <<offered, value>>

--------------------------------------------------------------------------------
(* The handlers. *)

(* React runs the effects of an event before the next one; those of another     *)
(* render may still be due.                                                     *)
Ready == Settled \/ select.background

Open(s) == [s EXCEPT !.isOpen = TRUE]

Close(s) ==
  [s EXCEPT !.isOpen = FALSE, !.focus = NoFocus,
            !.inputValue = IF s.selected \in Range(offered)
                             THEN Content[s.selected] ELSE @]

Handle(s) ==
  /\ Ready
  /\ select' = [s EXCEPT !.background = FALSE]

Stay == UNCHANGED <<offered, value>>

InputClick ==
  /\ \/ ~select.isOpen /\ Handle(Open(select))
     \/ select.isOpen /\ select.inputValue = Empty /\ Handle(Close(select))
  /\ Stay

ToggleClick == Handle([select EXCEPT !.isOpen = ~@]) /\ Stay

(* Escape, Tab and a click elsewhere call onOpenChange(false).                  *)
Dismiss == select.isOpen /\ Handle(Close(select)) /\ Stay

Type(text) ==
  /\ text # select.inputValue
  /\ Handle([select EXCEPT !.inputValue = text, !.filterValue = text,
                           !.focus = NoFocus])
  /\ Stay

Arrow(index) ==
  /\ Handle([Open(select) EXCEPT
       !.focus = AfterArrow(@, Len(select.selectOptions), index)])
  /\ Stay

ArrowDown == Arrow(Below(select.focus, Len(select.selectOptions)))

ArrowUp == Arrow(Above(select.focus, Len(select.selectOptions)))

(* onSelect of the parent, which looks for the option in its present list.      *)
OnSelect(v) ==
  /\ value' = IF v \in Range(offered) THEN v ELSE value
  /\ UNCHANGED offered

(* selectOption.  closeMenu reads the selected of this render, but its text     *)
(* comes after that of the option.                                              *)
SelectOption(v) ==
  /\ OnSelect(v)
  /\ LET s == Close([select EXCEPT !.inputValue = Content[v]])
     IN Handle([s EXCEPT !.selected = v, !.filterValue = Empty,
                         !.fresh = @ \/ value' # value])

Pick(v) ==
  /\ select.isOpen
  /\ v \in Range(select.selectOptions) \ {NoResults}
  /\ SelectOption(v)

Focused ==
  IF select.focus \in DOMAIN select.selectOptions
    THEN select.selectOptions[select.focus] ELSE NoResults

(* After selectOption, openMenu of the same render sees an open menu and does   *)
(* nothing.                                                                     *)
Enter ==
  \/ select.isOpen /\ Focused # NoResults /\ SelectOption(Focused)
  \/ ~select.isOpen /\ Handle(Open(select)) /\ Stay

--------------------------------------------------------------------------------
(* The parent. *)

Rerendered(s) == [s EXCEPT !.fresh = TRUE, !.background = TRUE]

(* The list of instances was loaded again, another instance was selected        *)
(* elsewhere, or nothing changed: options is a new array in every render.       *)
ParentRenders(list, v) ==
  /\ offered' = list
  /\ value' = v
  /\ Settled \/ select.background
  /\ select' = Rerendered(select)

Next ==
  \/ RunEffects
  \/ InputClick \/ ToggleClick \/ Dismiss
  \/ \E text \in {Empty} \union Filters : Type(text)
  \/ ArrowDown \/ ArrowUp \/ Enter
  \/ \E v \in Values : Pick(v)
  \/ \E list \in Lists : \E v \in Values \union {None} : ParentRenders(list, v)

Spec == Init /\ [][Next]_vars

--------------------------------------------------------------------------------
(* Correctness. *)

(* Once the effects have run, the menu holds the options of the parent that     *)
(* match the filter, whichever of a new list, a keystroke and a selection came  *)
(* last.                                                                        *)
MenuFollows == Settled => select.selectOptions = Shown(select.filterValue)

(* What TypeaheadSelect.tsx:181 says of the effect: it opens the menu when the  *)
(* input changes and the new text is not empty.                                 *)
OpensOnNewText ==
  [][RunEffects /\ ~select.isOpen /\ select'.isOpen
       => select.filterValue # select.ranFilter]_vars
================================================================================
