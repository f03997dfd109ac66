-------------------------- MODULE ToolbarMenusProofs ---------------------------
(* Proofs about ToolbarMenus, for any options, lists of them and texts.         *)
EXTENDS ToolbarMenus, ListProofs

--------------------------------------------------------------------------------
(* The menus use these operators through their instances.                       *)
LEMMA SameOperators ==
  ASSUME NEW list, NEW S
  PROVE  /\ Select!Filtered(list, S) = Filtered(list, S)
         /\ Checkbox!Filtered(list, S) = Filtered(list, S)
         /\ Select!Range(list) = Range(list) /\ Checkbox!Range(list) = Range(list)
         /\ Checkbox!IsInjective(list) = IsInjective(list)
         /\ Select!OrNoResults(list) = OrNoResults(list)
         /\ Checkbox!OrNoResults(list) = OrNoResults(list)
         /\ Select!NoResults = NoResults /\ Checkbox!NoResults = NoResults
         /\ Select!Empty = Empty /\ Checkbox!Empty = Empty
         /\ Select!NoFocus = 0 /\ Checkbox!NoFocus = 0
BY DEF Select!Filtered, Checkbox!Filtered, Filtered, Select!Range, Checkbox!Range, Range,
       Checkbox!IsInjective, IsInjective, Select!OrNoResults, Checkbox!OrNoResults,
       OrNoResults, Select!NoResults, Checkbox!NoResults, NoResults,
       Select!Empty, Checkbox!Empty, Empty, Select!NoFocus, Checkbox!NoFocus

(* An arrow key moves the focus to an index.                                    *)
LEMMA AfterArrowFacts ==
  ASSUME NEW focus \in Nat, NEW n \in Nat, NEW index
  PROVE  Select!AfterArrow(focus, n, index) \in Nat /\ Checkbox!AfterArrow(focus, n, index) \in Nat
BY DEF Select!AfterArrow, Checkbox!AfterArrow

(* An empty list gets an entry.                                                 *)
LEMMA OrNoResultsFacts ==
  ASSUME NEW V, NEW list \in Seq(V)
  PROVE  /\ OrNoResults(list) \in Seq(V \union {NoResults})
         /\ Range(list) \subseteq Range(OrNoResults(list))
         /\ IsInjective(list) => IsInjective(OrNoResults(list))
<1>1. CASE list = <<>>
  <2>1. OrNoResults(list) = <<NoResults>>
    BY <1>1 DEF OrNoResults
  <2>2. IsInjective(<<NoResults>>)
    BY DEF IsInjective
  <2>3. Range(list) = {}
    BY <1>1 DEF Range
  <2> QED BY <2>1, <2>2, <2>3
<1>2. CASE list # <<>>
  <2>1. OrNoResults(list) = list
    BY <1>2 DEF OrNoResults
  <2> QED BY <2>1
<1> QED BY <1>1, <1>2

--------------------------------------------------------------------------------
(* TypeaheadSelect. *)

(* A render from the background leaves the effects due: no handler that runs    *)
(* before them can make the menu look settled.                                  *)
SelectInv ==
  /\ Select!TypeOK
  /\ select.background => select.fresh
  /\ Select!MenuFollows

LEMMA SelectShownFacts ==
  ASSUME Select!TypeOK, NEW filter
  PROVE  Select!Shown(filter) \in Seq(Values \union {NoResults})
<1>1. offered \in Seq(Values)
  BY ListsAssumption DEF Select!TypeOK
<1>2. Filtered(offered, Matches[filter]) \in Seq(Values)
  BY <1>1, FilteredFacts
<1> DEFINE list == IF filter = Select!Empty THEN offered
                   ELSE Select!Filtered(offered, Matches[filter])
<1>3. list \in Seq(Values)
  BY <1>1, <1>2, SameOperators
<1>4. Select!Shown(filter) = Select!OrNoResults(list)
  BY DEF Select!Shown
<1> HIDE DEF list
<1>5. OrNoResults(list) \in Seq(Values \union {NoResults})
  BY <1>3, OrNoResultsFacts
<1>6. Select!OrNoResults(list) = OrNoResults(list)
  BY SameOperators
<1> QED BY <1>4, <1>5, <1>6

LEMMA SelectDisplayFacts ==
  ASSUME offered \in Lists
  PROVE  Select!Display \in Select!Texts
<1>1. offered \in Seq(Values)
  BY ListsAssumption
<1>2. Range(offered) \subseteq Values
  BY <1>1 DEF Range
<1> QED BY <1>2, SameOperators DEF Select!Display, Select!Texts

(* A handler that leaves the options of the parent alone.                       *)
LEMMA SelectHandleInv ==
  ASSUME SelectInv, NEW s \in Select!SelectStates, Select!Handle(s),
         UNCHANGED offered, value' \in Values \union {Select!None},
         s.selectOptions = select.selectOptions,
         select.fresh => s.fresh,
         /\ s.ranFilter = select.ranFilter /\ s.ranOpen = select.ranOpen
  PROVE  SelectInv'
<1>1. select' = [s EXCEPT !.background = FALSE] /\ Select!Ready
  BY DEF Select!Handle
<1>2. /\ select' \in Select!SelectStates
      /\ select'.selectOptions = select.selectOptions
      /\ select'.fresh = s.fresh /\ select'.background = FALSE
      /\ select'.filterValue = s.filterValue /\ select'.isOpen = s.isOpen
      /\ select'.ranFilter = select.ranFilter /\ select'.ranOpen = select.ranOpen
  BY <1>1 DEF Select!SelectStates
<1>3. Select!TypeOK'
  BY <1>2 DEF SelectInv, Select!TypeOK
<1>4. Select!Settled' => /\ Select!Settled /\ select'.filterValue = select.filterValue
                        /\ select'.isOpen = select.isOpen
  BY <1>1, <1>2 DEF SelectInv, Select!Ready, Select!Settled
<1>5. Select!MenuFollows'
  <2> SUFFICES ASSUME Select!Settled'
               PROVE  select'.selectOptions = Select!Shown(select.filterValue)'
    BY DEF Select!MenuFollows
  <2>1. select.selectOptions = Select!Shown(select.filterValue)
    BY <1>4 DEF SelectInv, Select!MenuFollows
  <2> QED BY <1>2, <1>4, <2>1 DEF Select!Shown
<1> QED BY <1>2, <1>3, <1>5 DEF SelectInv

(* Another render leaves the effects due.                                       *)
LEMMA SelectRenderInv ==
  ASSUME SelectInv, select' = Select!Rerendered(select),
         offered' \in Lists, value' \in Values \union {Select!None}
  PROVE  SelectInv'
<1>1. select' \in Select!SelectStates /\ select'.fresh
  BY DEF SelectInv, Select!TypeOK, Select!SelectStates, Select!Rerendered
<1> QED
  BY <1>1 DEF SelectInv, Select!TypeOK, Select!MenuFollows, Select!Settled

LEMMA SelectEffectsInv == ASSUME SelectInv, Select!RunEffects PROVE SelectInv'
<1> USE DEF Select!RunEffects
<1>1. Select!Shown(select.filterValue) \in Seq(Values \union {NoResults})
  BY SelectShownFacts DEF SelectInv
<1>2. Select!Display \in Select!Texts
  BY SelectDisplayFacts DEF SelectInv, Select!TypeOK
<1>3. /\ select' \in Select!SelectStates
      /\ select'.background = FALSE /\ select'.filterValue = select.filterValue
      /\ select'.ranOpen = select.isOpen
      /\ select'.isOpen = (select.isOpen \/ select.filterValue # Select!Empty)
      /\ select'.selectOptions = Select!Shown(select.filterValue)
  BY <1>1, <1>2, SameOperators DEF SelectInv, Select!TypeOK, Select!SelectStates
<1>4. Select!TypeOK'
  BY <1>3 DEF SelectInv, Select!TypeOK
<1>5. Select!MenuFollows'
  BY <1>3 DEF Select!MenuFollows, Select!Shown
<1> QED BY <1>3, <1>4, <1>5 DEF SelectInv

(* Opening and closing the menu leave the options, the filter and what the      *)
(* effects have seen as they are.                                               *)
LEMMA OpenCloseFacts ==
  ASSUME offered \in Lists, NEW s \in Select!SelectStates
  PROVE  \A t \in {Select!Open(s), Select!Close(s)} :
           /\ t \in Select!SelectStates
           /\ t.selectOptions = s.selectOptions /\ t.filterValue = s.filterValue
           /\ t.fresh = s.fresh /\ t.ranFilter = s.ranFilter /\ t.ranOpen = s.ranOpen
<1>1. \A v \in Select!Range(offered) : Content[v] \in Select!Texts
  <2>1. offered \in Seq(Values)
    BY ListsAssumption
  <2>2. Range(offered) \subseteq Values
    BY <2>1 DEF Range
  <2> QED BY <2>2, SameOperators DEF Select!Texts
<1>2. /\ Select!Open(s) \in Select!SelectStates
      /\ Select!Open(s).selectOptions = s.selectOptions
      /\ Select!Open(s).filterValue = s.filterValue
      /\ Select!Open(s).fresh = s.fresh /\ Select!Open(s).ranFilter = s.ranFilter
      /\ Select!Open(s).ranOpen = s.ranOpen
  BY DEF Select!Open, Select!SelectStates
<1> DEFINE text == IF s.selected \in Select!Range(offered)
                     THEN Content[s.selected] ELSE s.inputValue
<1>3. text \in Select!Texts
  BY <1>1 DEF Select!SelectStates
<1>4. Select!Close(s) = [s EXCEPT !.isOpen = FALSE, !.focus = Select!NoFocus,
                                  !.inputValue = text]
  BY DEF Select!Close
<1> HIDE DEF text
<1>5. Select!NoFocus = 0
  BY SameOperators
<1>6. /\ Select!Close(s) \in Select!SelectStates
      /\ Select!Close(s).selectOptions = s.selectOptions
      /\ Select!Close(s).filterValue = s.filterValue
      /\ Select!Close(s).fresh = s.fresh /\ Select!Close(s).ranFilter = s.ranFilter
      /\ Select!Close(s).ranOpen = s.ranOpen
  <2> DEFINE c == [s EXCEPT !.isOpen = FALSE, !.focus = 0, !.inputValue = text]
  <2>1. /\ c \in Select!SelectStates
        /\ c.selectOptions = s.selectOptions /\ c.filterValue = s.filterValue
        /\ c.fresh = s.fresh /\ c.ranFilter = s.ranFilter /\ c.ranOpen = s.ranOpen
    BY <1>3 DEF Select!SelectStates
  <2>2. Select!Close(s) = c
    BY <1>4, <1>5
  <2> QED BY <2>1, <2>2
<1> QED BY <1>2, <1>6

LEMMA SelectArrowInv ==
  ASSUME SelectInv, NEW index, Select!Arrow(index)
  PROVE  SelectInv'
<1> DEFINE s == Select!Open(select)
           f == Select!AfterArrow(s.focus, Len(select.selectOptions), index)
           t == [s EXCEPT !.focus = f]
<1>1. select \in Select!SelectStates /\ offered \in Lists
  BY DEF SelectInv, Select!TypeOK
<1>2. /\ s \in Select!SelectStates
      /\ s.selectOptions = select.selectOptions
      /\ s.fresh = select.fresh /\ s.ranFilter = select.ranFilter
      /\ s.ranOpen = select.ranOpen
  BY <1>1, OpenCloseFacts
<1>3. f \in Nat
  <2>1. select.selectOptions \in Seq(Values \union {Select!NoResults}) /\ s.focus \in Nat
    BY <1>1, <1>2 DEF Select!SelectStates
  <2>2. Len(select.selectOptions) \in Nat
    BY <2>1
  <2> QED BY <2>1, <2>2, AfterArrowFacts
<1>4. Select!Handle(t) /\ UNCHANGED <<offered, value>>
  BY DEF Select!Arrow, Select!Stay
<1> HIDE DEF s, f
<1>5. /\ t \in Select!SelectStates /\ t.selectOptions = s.selectOptions
      /\ t.fresh = s.fresh /\ t.ranFilter = s.ranFilter /\ t.ranOpen = s.ranOpen
  BY <1>2, <1>3 DEF Select!SelectStates
<1>6. value' \in Values \union {Select!None}
  BY <1>4 DEF SelectInv, Select!TypeOK
<1> HIDE DEF t
<1> QED BY <1>2, <1>4, <1>5, <1>6, SelectHandleInv

LEMMA SelectOptionInv ==
  ASSUME SelectInv, NEW v \in Values, Select!SelectOption(v)
  PROVE  SelectInv'
<1> DEFINE r == [select EXCEPT !.inputValue = Content[v]]
           s == Select!Close(r)
           t == [s EXCEPT !.selected = v, !.filterValue = Select!Empty,
                          !.fresh = @ \/ value' # value]
<1>1. select \in Select!SelectStates /\ offered \in Lists
  BY DEF SelectInv, Select!TypeOK
<1>2. /\ r \in Select!SelectStates /\ r.selectOptions = select.selectOptions
      /\ r.fresh = select.fresh /\ r.ranFilter = select.ranFilter
      /\ r.ranOpen = select.ranOpen
  BY <1>1 DEF Select!SelectStates, Select!Texts
<1> HIDE DEF r
<1>3. /\ s \in Select!SelectStates /\ s.selectOptions = select.selectOptions
      /\ s.fresh = select.fresh /\ s.ranFilter = select.ranFilter
      /\ s.ranOpen = select.ranOpen
  BY <1>1, <1>2, OpenCloseFacts
<1>4. Select!Handle(t) /\ Select!OnSelect(v)
  BY DEF Select!SelectOption, r
<1> HIDE DEF s
<1>5. /\ t \in Select!SelectStates /\ t.selectOptions = s.selectOptions
      /\ t.fresh = (s.fresh \/ value' # value)
      /\ t.ranFilter = s.ranFilter /\ t.ranOpen = s.ranOpen
  BY <1>3 DEF Select!SelectStates
<1> HIDE DEF t
<1>6. value' \in Values \union {Select!None} /\ UNCHANGED offered
  BY <1>4 DEF Select!OnSelect, SelectInv, Select!TypeOK
<1> QED BY <1>3, <1>4, <1>5, <1>6, SelectHandleInv

LEMMA SelectNextInv == ASSUME SelectInv, Select!Next PROVE SelectInv'
<1>1. /\ select \in Select!SelectStates /\ offered \in Lists
      /\ value \in Values \union {Select!None}
      /\ select.selectOptions \in Seq(Values \union {Select!NoResults})
  BY DEF SelectInv, Select!TypeOK, Select!SelectStates
<1>2. ASSUME Select!Stay, NEW s \in {Select!Open(select), Select!Close(select)},
             Select!Handle(s)
      PROVE  SelectInv'
  <2>1. /\ s \in Select!SelectStates /\ s.selectOptions = select.selectOptions
        /\ s.fresh = select.fresh /\ s.ranFilter = select.ranFilter
        /\ s.ranOpen = select.ranOpen
    BY <1>1, <1>2, OpenCloseFacts
  <2> QED BY <1>1, <1>2, <2>1, SelectHandleInv DEF Select!Stay
<1>3. CASE Select!RunEffects
  BY <1>3, SelectEffectsInv
<1>4. CASE Select!InputClick
  BY <1>2, <1>4 DEF Select!InputClick
<1>5. CASE Select!ToggleClick
  <2> DEFINE s == [select EXCEPT !.isOpen = ~@]
  <2>1. /\ s \in Select!SelectStates /\ s.selectOptions = select.selectOptions
        /\ s.fresh = select.fresh /\ s.ranFilter = select.ranFilter
        /\ s.ranOpen = select.ranOpen
    BY <1>1 DEF Select!SelectStates
  <2>2. Select!Handle(s) /\ Select!Stay
    BY <1>5 DEF Select!ToggleClick
  <2> HIDE DEF s
  <2> QED BY <1>1, <2>1, <2>2, SelectHandleInv DEF Select!Stay
<1>6. CASE Select!Dismiss
  BY <1>2, <1>6 DEF Select!Dismiss
<1>7. ASSUME NEW text \in {Select!Empty} \union Filters, Select!Type(text) PROVE SelectInv'
  <2> DEFINE s == [select EXCEPT !.inputValue = text, !.filterValue = text,
                                 !.focus = Select!NoFocus]
  <2>1. Select!NoFocus = 0 /\ text \in Select!Texts
    BY SameOperators DEF Select!Texts
  <2>2. /\ s \in Select!SelectStates /\ s.selectOptions = select.selectOptions
        /\ s.fresh = select.fresh /\ s.ranFilter = select.ranFilter
        /\ s.ranOpen = select.ranOpen
    BY <1>1, <2>1 DEF Select!SelectStates
  <2>3. Select!Handle(s) /\ Select!Stay
    BY <1>7 DEF Select!Type
  <2> HIDE DEF s
  <2> QED BY <1>1, <2>2, <2>3, SelectHandleInv DEF Select!Stay
<1>8. CASE Select!ArrowDown \/ Select!ArrowUp
  BY <1>8, SelectArrowInv DEF Select!ArrowDown, Select!ArrowUp
<1>9. CASE Select!Enter
  <2>1. CASE select.isOpen /\ Select!Focused # Select!NoResults
             /\ Select!SelectOption(Select!Focused)
    <3>1. Select!Focused \in Values
      BY <1>1, <2>1 DEF Select!Focused
    <3> QED BY <2>1, <3>1, SelectOptionInv
  <2>2. CASE ~select.isOpen /\ Select!Handle(Select!Open(select)) /\ Select!Stay
    BY <1>2, <2>2
  <2> QED BY <1>9, <2>1, <2>2 DEF Select!Enter
<1>10. ASSUME NEW v \in Values, Select!Pick(v) PROVE SelectInv'
  BY <1>10, SelectOptionInv DEF Select!Pick
<1>11. ASSUME NEW list \in Lists, NEW v \in Values \union {Select!None},
              Select!ParentRenders(list, v)
       PROVE  SelectInv'
  BY <1>11, SelectRenderInv DEF Select!ParentRenders
<1> QED BY <1>3, <1>4, <1>5, <1>6, <1>7, <1>8, <1>9, <1>10, <1>11 DEF Select!Next

--------------------------------------------------------------------------------
(* TypeaheadCheckboxSelect. *)

(* What the menu lists without a text: each known and each chosen value once.   *)
LEMMA InitialOptionsFacts ==
  ASSUME tags \in TagLists, chosen \in Seq(Checkbox!Names), IsInjective(chosen)
  PROVE  /\ Checkbox!InitialSelectOptions \in Seq(Checkbox!Names)
         /\ IsInjective(Checkbox!InitialSelectOptions)
         /\ Range(Checkbox!InitialSelectOptions) = Range(tags) \union Range(chosen)
<1> DEFINE N == Checkbox!Names
           more == Filtered(chosen, N \ Range(tags))
<1>1. tags \in Seq(N) /\ IsInjective(tags)
  <2>1. tags \in Seq(Tags) /\ IsInjective(tags)
    BY TagListsAssumption
  <2>2. Tags \subseteq N
    BY DEF Checkbox!Names
  <2> QED BY <2>1, <2>2
<1>2. Range(chosen) \subseteq N
  BY DEF Range
<1> HIDE DEF N
<1>3. /\ more \in Seq(N) /\ IsInjective(more)
      /\ Range(more) = Range(chosen) \intersect (N \ Range(tags))
  <2>1. chosen \in Seq(N)
    BY DEF N
  <2> QED BY <2>1, FilteredFacts
<1>4. Checkbox!InitialSelectOptions = tags \o more
  BY SameOperators DEF Checkbox!InitialSelectOptions, N
<1> HIDE DEF more
<1>5. /\ tags \o more \in Seq(N) /\ Range(tags \o more) = Range(tags) \union Range(more)
      /\ IsInjective(tags \o more)
  <2>1. Range(tags) \intersect Range(more) = {}
    BY <1>3
  <2> QED BY <1>1, <1>3, <2>1, ConcatFacts
<1>6. Range(tags) \union Range(more) = Range(tags) \union Range(chosen)
  BY <1>2, <1>3
<1> QED BY <1>4, <1>5, <1>6 DEF N

(* What it lists for a text: each value that matches, and none twice.           *)
LEMMA CheckboxShownFacts ==
  ASSUME tags \in TagLists, chosen \in Seq(Checkbox!Names), IsInjective(chosen),
         NEW text \in {Empty} \union Checkbox!Names
  PROVE  /\ Checkbox!Shown(text) \in Seq(Checkbox!Names \union {NoResults})
         /\ IsInjective(Checkbox!Shown(text))
         /\ \A v \in Range(chosen) : text = Empty \/ v \in TagMatches[text]
               => v \in Range(Checkbox!Shown(text))
<1> DEFINE N == Checkbox!Names
           all == Checkbox!InitialSelectOptions
           match == Filtered(all, TagMatches[text])
           created == IF Range(all) \intersect SameText[text] # {} THEN <<>> ELSE <<text>>
           list == IF text = Empty THEN all ELSE match \o created
<1>1. /\ all \in Seq(N) /\ IsInjective(all)
      /\ Range(all) = Range(tags) \union Range(chosen)
  BY InitialOptionsFacts
<1> HIDE DEF N, all
<1>2. /\ match \in Seq(N) /\ IsInjective(match)
      /\ Range(match) = Range(all) \intersect TagMatches[text]
  BY <1>1, FilteredFacts
<1> HIDE DEF match
<1>3. ASSUME text # Empty
      PROVE  /\ created \in Seq(N) /\ IsInjective(created)
             /\ Range(created) \intersect Range(all) = {}
  <2>1. CASE Range(all) \intersect SameText[text] # {}
    <3>1. created = <<>>
      BY <2>1
    <3>2. Range(created) = {} /\ IsInjective(created)
      BY <3>1 DEF Range, IsInjective
    <3> QED BY <3>1, <3>2
  <2>2. CASE Range(all) \intersect SameText[text] = {}
    <3>1. created = <<text>> /\ text \in N
      BY <1>3, <2>2 DEF N
    <3>2. Range(created) = {text} /\ IsInjective(created)
      BY <3>1 DEF Range, IsInjective
    <3>3. text \in SameText[text]
      BY <3>1, SameTextAssumption DEF N, Checkbox!Names
    <3> QED BY <2>2, <3>1, <3>2, <3>3
  <2> QED BY <2>1, <2>2
<1> HIDE DEF created
<1>4. /\ list \in Seq(N) /\ IsInjective(list)
      /\ \A v \in Range(chosen) : text = Empty \/ v \in TagMatches[text]
            => v \in Range(list)
  <2>1. CASE text = Empty
    BY <1>1, <2>1
  <2>2. CASE text # Empty
    <3>1. created \in Seq(N) /\ IsInjective(created)
          /\ Range(match) \intersect Range(created) = {}
      BY <1>2, <1>3, <2>2
    <3>2. /\ match \o created \in Seq(N) /\ IsInjective(match \o created)
          /\ Range(match \o created) = Range(match) \union Range(created)
      BY <1>2, <3>1, ConcatFacts
    <3> QED BY <1>1, <1>2, <2>2, <3>2
  <2> QED BY <2>1, <2>2
<1>5. Checkbox!Shown(text) = Checkbox!OrNoResults(list)
  BY SameOperators DEF Checkbox!Shown, list, created, match, all
<1> HIDE DEF list
<1>6. Checkbox!Shown(text) = OrNoResults(list)
  BY <1>5, SameOperators
<1>7. /\ OrNoResults(list) \in Seq(N \union {NoResults})
      /\ Range(list) \subseteq Range(OrNoResults(list))
      /\ IsInjective(OrNoResults(list))
  BY <1>4, OrNoResultsFacts
<1> QED BY <1>4, <1>6, <1>7 DEF N

(* The options that are shown, once the effect has run; that a value is never   *)
(* shown twice is true before that, too.                                        *)
OptionsFollow ==
  Checkbox!Settled => menu.selectOptions = Checkbox!Shown(menu.inputValue)

CheckboxInv ==
  /\ Checkbox!TypeOK
  /\ menu.background => menu.fresh
  /\ OptionsFollow
  /\ Checkbox!OptionsAreDistinct

LEMMA CheckboxHandleInv ==
  ASSUME CheckboxInv, NEW s \in Checkbox!MenuStates, Checkbox!Handle(s),
         UNCHANGED tags, chosen' \in Seq(Checkbox!Names), IsInjective(chosen'),
         s.selectOptions = menu.selectOptions,
         menu.fresh \/ chosen' # chosen => s.fresh,
         s.ranInput = menu.ranInput /\ s.ranOpen = menu.ranOpen
  PROVE  CheckboxInv'
<1>1. menu' = [s EXCEPT !.background = FALSE] /\ Checkbox!Ready
  BY DEF Checkbox!Handle
<1>2. /\ menu' \in Checkbox!MenuStates
      /\ menu'.selectOptions = menu.selectOptions
      /\ menu'.fresh = s.fresh /\ menu'.background = FALSE
      /\ menu'.inputValue = s.inputValue /\ menu'.isOpen = s.isOpen
      /\ menu'.ranInput = menu.ranInput /\ menu'.ranOpen = menu.ranOpen
  BY <1>1 DEF Checkbox!MenuStates
<1>3. Checkbox!TypeOK'
  BY <1>2, SameOperators DEF CheckboxInv, Checkbox!TypeOK, Checkbox!IsInjective, IsInjective
<1>4. Checkbox!Settled' => /\ Checkbox!Settled /\ menu'.inputValue = menu.inputValue
                          /\ chosen' = chosen
  BY <1>1, <1>2 DEF CheckboxInv, Checkbox!Ready, Checkbox!Settled
<1>5. OptionsFollow'
  <2> SUFFICES ASSUME Checkbox!Settled'
               PROVE  menu'.selectOptions = Checkbox!Shown(menu.inputValue)'
    BY DEF OptionsFollow
  <2>1. menu.selectOptions = Checkbox!Shown(menu.inputValue)
    BY <1>4 DEF CheckboxInv, OptionsFollow
  <2> QED BY <1>2, <1>4, <2>1 DEF Checkbox!Shown, Checkbox!InitialSelectOptions
<1>6. Checkbox!OptionsAreDistinct'
  BY <1>2 DEF CheckboxInv, Checkbox!OptionsAreDistinct, Checkbox!IsInjective
<1> QED BY <1>2, <1>3, <1>5, <1>6 DEF CheckboxInv

LEMMA CheckboxRenderInv ==
  ASSUME CheckboxInv, menu' = Checkbox!Rerendered(menu), tags' \in TagLists,
         UNCHANGED chosen
  PROVE  CheckboxInv'
<1>1. /\ menu' \in Checkbox!MenuStates /\ menu'.fresh
      /\ menu'.selectOptions = menu.selectOptions
  BY DEF CheckboxInv, Checkbox!TypeOK, Checkbox!MenuStates, Checkbox!Rerendered
<1> QED
  BY <1>1 DEF CheckboxInv, Checkbox!TypeOK, OptionsFollow, Checkbox!Settled,
              Checkbox!OptionsAreDistinct, Checkbox!IsInjective

LEMMA CheckboxEffectInv == ASSUME CheckboxInv, Checkbox!RunEffect PROVE CheckboxInv'
<1> USE DEF Checkbox!RunEffect
<1> DEFINE shown == Checkbox!Shown(menu.inputValue)
<1>1. /\ menu \in Checkbox!MenuStates /\ menu.inputValue \in {Empty} \union Checkbox!Names
      /\ tags \in TagLists /\ chosen \in Seq(Checkbox!Names) /\ IsInjective(chosen)
  BY SameOperators DEF CheckboxInv, Checkbox!TypeOK, Checkbox!MenuStates
<1>2. shown \in Seq(Checkbox!Names \union {Checkbox!NoResults}) /\ IsInjective(shown)
  BY <1>1, CheckboxShownFacts, SameOperators
<1>3. menu' = [menu EXCEPT !.selectOptions = shown, !.fresh = FALSE, !.background = FALSE,
                           !.ranInput = menu.inputValue, !.ranOpen = menu.isOpen]
  OBVIOUS
<1>4. shown = Checkbox!Shown(menu.inputValue)
  OBVIOUS
<1> HIDE DEF shown
<1>5. /\ menu' \in Checkbox!MenuStates
      /\ menu'.background = FALSE /\ menu'.inputValue = menu.inputValue
      /\ menu'.selectOptions = shown
  BY <1>1, <1>2, <1>3 DEF Checkbox!MenuStates
<1>6. Checkbox!TypeOK'
  BY <1>5 DEF CheckboxInv, Checkbox!TypeOK, Checkbox!IsInjective
<1>7. OptionsFollow'
  BY <1>4, <1>5 DEF OptionsFollow, Checkbox!Shown, Checkbox!InitialSelectOptions
<1>8. Checkbox!OptionsAreDistinct'
  BY <1>2, <1>5, SameOperators DEF Checkbox!OptionsAreDistinct, Checkbox!IsInjective, IsInjective
<1> QED BY <1>5, <1>6, <1>7, <1>8 DEF CheckboxInv

(* A handler of the menu that selects nothing.                                  *)
LEMMA CheckboxStayInv ==
  ASSUME CheckboxInv, NEW s \in Checkbox!MenuStates, Checkbox!Handle(s), Checkbox!Stay,
         s.selectOptions = menu.selectOptions, s.fresh = menu.fresh,
         s.ranInput = menu.ranInput /\ s.ranOpen = menu.ranOpen
  PROVE  CheckboxInv'
<1>1. chosen \in Seq(Checkbox!Names) /\ IsInjective(chosen)
  BY SameOperators DEF CheckboxInv, Checkbox!TypeOK
<1>2. chosen' = chosen /\ tags' = tags
  BY DEF Checkbox!Stay
<1>3. IsInjective(chosen')
  BY <1>1, <1>2
<1> QED BY <1>1, <1>2, <1>3, CheckboxHandleInv

(* A handler of the menu or of a label that makes another selection.            *)
LEMMA CheckboxChooseInv ==
  ASSUME CheckboxInv, NEW s \in Checkbox!MenuStates, Checkbox!Handle(s),
         NEW list \in Seq(Checkbox!Names), IsInjective(list), Checkbox!Choose(list),
         s.selectOptions = menu.selectOptions, s.fresh,
         s.ranInput = menu.ranInput /\ s.ranOpen = menu.ranOpen
  PROVE  CheckboxInv'
<1>1. chosen' = list /\ tags' = tags
  BY DEF Checkbox!Choose
<1>2. IsInjective(chosen')
  BY <1>1
<1> QED BY <1>1, <1>2, CheckboxHandleInv

LEMMA CheckboxArrowInv ==
  ASSUME CheckboxInv, NEW index, Checkbox!Arrow(index)
  PROVE  CheckboxInv'
<1> DEFINE f == Checkbox!AfterArrow(menu.focus, Len(menu.selectOptions), index)
           s == [menu EXCEPT !.isOpen = TRUE, !.focus = f]
<1>1. /\ menu \in Checkbox!MenuStates /\ menu.focus \in Nat
      /\ menu.selectOptions \in Seq(Checkbox!Names \union {Checkbox!NoResults})
  BY DEF CheckboxInv, Checkbox!TypeOK, Checkbox!MenuStates
<1>2. f \in Nat
  <2>1. Len(menu.selectOptions) \in Nat
    BY <1>1
  <2> QED BY <1>1, <2>1, AfterArrowFacts
<1>3. Checkbox!Handle(s) /\ Checkbox!Stay
  BY DEF Checkbox!Arrow
<1> HIDE DEF f
<1>4. /\ s \in Checkbox!MenuStates /\ s.selectOptions = menu.selectOptions
      /\ s.fresh = menu.fresh /\ s.ranInput = menu.ranInput /\ s.ranOpen = menu.ranOpen
  BY <1>1, <1>2 DEF Checkbox!MenuStates
<1> HIDE DEF s
<1> QED BY <1>3, <1>4, CheckboxStayInv

LEMMA CheckboxNextInv == ASSUME CheckboxInv, Checkbox!Next PROVE CheckboxInv'
<1> DEFINE N == Checkbox!Names
           same(s) == /\ s \in Checkbox!MenuStates
                      /\ s.selectOptions = menu.selectOptions
                      /\ s.ranInput = menu.ranInput /\ s.ranOpen = menu.ranOpen
           fresh == [menu EXCEPT !.fresh = TRUE]
<1>1. /\ menu \in Checkbox!MenuStates /\ tags \in TagLists
      /\ chosen \in Seq(N) /\ IsInjective(chosen)
      /\ menu.selectOptions \in Seq(N \union {Checkbox!NoResults})
  BY SameOperators DEF CheckboxInv, Checkbox!TypeOK, Checkbox!MenuStates
<1>2. Checkbox!NoFocus = 0 /\ Checkbox!Empty = Empty
  BY SameOperators
<1>3. same(fresh) /\ fresh.fresh
  BY <1>1 DEF Checkbox!MenuStates
<1>4. \A v \in N : /\ Filtered(chosen, N \ {v}) \in Seq(N)
                   /\ IsInjective(Filtered(chosen, N \ {v}))
  BY <1>1, FilteredFacts
<1>5. ASSUME NEW v \in N, Checkbox!OnSelect(v) PROVE CheckboxInv'
  <2>1. Checkbox!Toggled(v) \in Seq(N) /\ IsInjective(Checkbox!Toggled(v))
    <3>1. CASE v \in Range(chosen)
      BY <1>4, <3>1, SameOperators DEF Checkbox!Toggled
    <3>2. CASE v \notin Range(chosen)
      <4>1. Checkbox!Toggled(v) = Append(chosen, v)
        BY <3>2, SameOperators DEF Checkbox!Toggled
      <4> QED BY <1>1, <3>2, <4>1, AppendFacts
    <3> QED BY <3>1, <3>2
  <2>2. Checkbox!Choose(Checkbox!Toggled(v)) /\ Checkbox!Handle(fresh)
    BY <1>5 DEF Checkbox!OnSelect
  <2> HIDE DEF fresh
  <2> QED BY <1>3, <2>1, <2>2, CheckboxChooseInv
<1>6. ASSUME Checkbox!Stay, NEW s, Checkbox!Handle(s), same(s), s.fresh = menu.fresh
      PROVE  CheckboxInv'
  BY <1>6, CheckboxStayInv
<1>7. CASE Checkbox!RunEffect
  BY <1>7, CheckboxEffectInv
<1>8. \A o \in BOOLEAN : same([menu EXCEPT !.isOpen = o])
                         /\ [menu EXCEPT !.isOpen = o].fresh = menu.fresh
  BY <1>1 DEF Checkbox!MenuStates
<1>9. same(Checkbox!Close(menu)) /\ Checkbox!Close(menu).fresh = menu.fresh
  <2>1. Checkbox!Close(menu) = [menu EXCEPT !.isOpen = FALSE, !.focus = 0]
    BY <1>2 DEF Checkbox!Close
  <2>2. /\ same([menu EXCEPT !.isOpen = FALSE, !.focus = 0])
        /\ [menu EXCEPT !.isOpen = FALSE, !.focus = 0].fresh = menu.fresh
    BY <1>1 DEF Checkbox!MenuStates
  <2> QED BY <2>1, <2>2
<1>10. CASE Checkbox!InputClick \/ Checkbox!Dismiss
  <2>1. Checkbox!Stay /\ \/ Checkbox!Handle([menu EXCEPT !.isOpen = TRUE])
                         \/ Checkbox!Handle(Checkbox!Close(menu))
    BY <1>10 DEF Checkbox!InputClick, Checkbox!Dismiss
  <2> HIDE DEF same
  <2> QED BY <1>6, <1>8, <1>9, <2>1
<1>11. CASE Checkbox!ToggleClick
  <2>1. Checkbox!Stay /\ Checkbox!Handle([menu EXCEPT !.isOpen = ~menu.isOpen])
    BY <1>11 DEF Checkbox!ToggleClick
  <2> HIDE DEF same
  <2> QED BY <1>6, <1>8, <2>1
<1>12. ASSUME NEW text \in {Checkbox!Empty} \union N, Checkbox!Type(text)
       PROVE  CheckboxInv'
  <2> DEFINE s == [menu EXCEPT !.inputValue = text, !.focus = Checkbox!NoFocus]
  <2>1. same(s) /\ s.fresh = menu.fresh
    BY <1>1, <1>2 DEF Checkbox!MenuStates
  <2>2. Checkbox!Handle(s) /\ Checkbox!Stay
    BY <1>12 DEF Checkbox!Type
  <2> HIDE DEF s, same
  <2> QED BY <1>6, <2>1, <2>2
<1>13. CASE Checkbox!ArrowDown \/ Checkbox!ArrowUp
  BY <1>13, CheckboxArrowInv DEF Checkbox!ArrowDown, Checkbox!ArrowUp
<1>14. CASE Checkbox!Enter
  <2>1. CASE menu.isOpen /\ Checkbox!OnSelect(Checkbox!Focused)
    <3>1. Checkbox!Focused # Checkbox!NoResults
      BY <2>1 DEF Checkbox!OnSelect
    <3>2. Checkbox!Focused \in N
      BY <1>1, <3>1 DEF Checkbox!Focused
    <3> QED BY <1>5, <2>1, <3>2
  <2>2. CASE Checkbox!Handle([menu EXCEPT !.isOpen = TRUE]) /\ Checkbox!Stay
    <3> HIDE DEF same
    <3> QED BY <1>6, <1>8, <2>2
  <2> QED BY <1>14, <2>1, <2>2 DEF Checkbox!Enter
<1>15. CASE Checkbox!ClearButtonClick
  <2> DEFINE s == [menu EXCEPT !.inputValue = Checkbox!Empty,
                               !.focus = Checkbox!NoFocus, !.fresh = TRUE]
  <2>1. same(s) /\ s.fresh
    BY <1>1, <1>2 DEF Checkbox!MenuStates
  <2>2. Checkbox!Handle(s) /\ Checkbox!Choose(<<>>)
    BY <1>15 DEF Checkbox!ClearButtonClick
  <2>3. <<>> \in Seq(N) /\ IsInjective(<<>>)
    BY DEF IsInjective
  <2> HIDE DEF s
  <2> QED BY <2>1, <2>2, <2>3, CheckboxChooseInv
<1>16. ASSUME NEW v \in N, Checkbox!Pick(v) PROVE CheckboxInv'
  BY <1>5, <1>16 DEF Checkbox!Pick
<1>17. ASSUME NEW v \in N, Checkbox!DeleteLabel(v) PROVE CheckboxInv'
  <2>1. Checkbox!Handle(fresh) /\ Checkbox!Choose(Filtered(chosen, N \ {v}))
    BY <1>17, SameOperators DEF Checkbox!DeleteLabel
  <2> HIDE DEF fresh
  <2> QED BY <1>3, <1>4, <2>1, CheckboxChooseInv
<1>18. ASSUME NEW list \in TagLists, Checkbox!ParentRenders(list) PROVE CheckboxInv'
  BY <1>18, CheckboxRenderInv DEF Checkbox!ParentRenders
<1> QED
  BY <1>5, <1>7, <1>10, <1>11, <1>12, <1>13, <1>14, <1>15, <1>16, <1>17, <1>18
  DEF Checkbox!Next

--------------------------------------------------------------------------------
(* The two menus together. *)

Inv == SelectInv /\ CheckboxInv

LEMMA InitInv == Init => Inv
<1> SUFFICES ASSUME Init PROVE Inv
  OBVIOUS
<1>1. SelectInv
  <2> USE DEF Init, Select!Init
  <2>1. Select!Display \in Select!Texts
    BY SelectDisplayFacts
  <2>2. offered \in Seq(Values \union {Select!NoResults})
    BY ListsAssumption
  <2>3. select \in Select!SelectStates
    BY <2>1, <2>2, SameOperators DEF Select!SelectStates
  <2> QED BY <2>3 DEF SelectInv, Select!TypeOK, Select!MenuFollows,
                      Select!Settled
<1>2. CheckboxInv
  <2> USE DEF Init, Checkbox!Init
  <2>1. chosen \in Seq(Checkbox!Names) /\ IsInjective(chosen) /\ tags \in TagLists
    <3>1. CASE chosen = <<>>
      BY <3>1 DEF IsInjective
    <3>2. ASSUME NEW v \in Created, chosen = <<v>>
          PROVE  chosen \in Seq(Checkbox!Names) /\ IsInjective(chosen)
      BY <3>2 DEF Checkbox!Names, IsInjective
    <3> QED BY <3>1, <3>2
  <2>2. /\ Checkbox!InitialSelectOptions \in Seq(Checkbox!Names)
        /\ IsInjective(Checkbox!InitialSelectOptions)
    BY <2>1, InitialOptionsFacts
  <2>3. menu \in Checkbox!MenuStates
    <3>1. Checkbox!InitialSelectOptions \in Seq(Checkbox!Names \union {Checkbox!NoResults})
      BY <2>2
    <3> QED BY <3>1, SameOperators DEF Checkbox!MenuStates
  <2>4. Checkbox!OptionsAreDistinct
    BY <2>2, SameOperators DEF Checkbox!OptionsAreDistinct
  <2> QED BY <2>1, <2>3, <2>4, SameOperators
          DEF CheckboxInv, Checkbox!TypeOK, OptionsFollow, Checkbox!Settled
<1> QED BY <1>1, <1>2 DEF Inv

LEMMA NextInv == Inv /\ [Next]_vars => Inv'
<1> SUFFICES ASSUME Inv, [Next]_vars PROVE Inv'
  OBVIOUS
<1>1. ASSUME UNCHANGED <<offered, value, select>> PROVE SelectInv'
  BY <1>1 DEF Inv, SelectInv, Select!TypeOK, Select!MenuFollows, Select!Shown,
              Select!Settled
<1>2. ASSUME UNCHANGED <<tags, chosen, menu>> PROVE CheckboxInv'
  BY <1>2 DEF Inv, CheckboxInv, Checkbox!TypeOK, OptionsFollow, Checkbox!Shown,
              Checkbox!InitialSelectOptions, Checkbox!Settled, Checkbox!IsInjective,
              Checkbox!OptionsAreDistinct
<1>3. CASE SelectStep
  <2>1. SelectInv'
    BY <1>3, SelectNextInv, SelectEffectsInv DEF SelectStep, Inv
  <2>2. CASE menu' = menu
    BY <1>2, <1>3, <2>1, <2>2 DEF SelectStep, Inv
  <2>3. CASE menu' = Checkbox!Rerendered(menu)
    <3>1. CheckboxInv'
      BY <1>3, <2>3, CheckboxRenderInv DEF SelectStep, Inv, CheckboxInv, Checkbox!TypeOK
    <3> QED BY <2>1, <3>1 DEF Inv
  <2> QED BY <1>3, <2>2, <2>3 DEF SelectStep
<1>4. CASE CheckboxStep
  <2>1. CheckboxInv'
    BY <1>4, CheckboxNextInv, CheckboxEffectInv DEF CheckboxStep, Inv
  <2>2. CASE select' = select
    BY <1>1, <1>4, <2>1, <2>2 DEF CheckboxStep, Inv
  <2>3. CASE select' = Select!Rerendered(select)
    <3>1. SelectInv'
      BY <1>4, <2>3, SelectRenderInv DEF CheckboxStep, Inv, SelectInv, Select!TypeOK
    <3> QED BY <2>1, <3>1 DEF Inv
  <2> QED BY <1>4, <2>2, <2>3 DEF CheckboxStep
<1>5. CASE UNCHANGED vars
  BY <1>1, <1>2, <1>5 DEF vars, Inv
<1> QED BY <1>3, <1>4, <1>5 DEF Next

--------------------------------------------------------------------------------
(* The theorems. *)

(* Inv holds in every reachable state.                                          *)
THEOREM MenusInvariance == Spec => []Inv
BY InitInv, NextInv, PTL DEF Spec

(* The values of the variables never leave their types; what is chosen has no   *)
(* value twice.                                                                 *)
THEOREM MenusTypeCorrect == Spec => []TypeOK
<1>1. Inv => TypeOK
  BY DEF Inv, SelectInv, CheckboxInv, TypeOK
<1> QED BY <1>1, MenusInvariance, PTL

(* A settled menu holds the options of the parent that match its filter.        *)
THEOREM MenuFollowsAlways == Spec => []MenuFollows
<1>1. Inv => MenuFollows
  BY DEF Inv, SelectInv, MenuFollows
<1> QED BY <1>1, MenusInvariance, PTL

(* What is chosen can be unchosen in the menu.                                  *)
THEOREM ChosenAreOfferedAlways == Spec => []ChosenAreOffered
<1>1. ASSUME Inv PROVE ChosenAreOffered
  <2> SUFFICES ASSUME Checkbox!Settled, NEW v \in Range(chosen),
                      menu.inputValue = Empty \/ v \in TagMatches[menu.inputValue]
               PROVE  v \in Range(menu.selectOptions)
    BY SameOperators DEF ChosenAreOffered, Checkbox!ChosenAreOffered
  <2>1. menu.selectOptions = Checkbox!Shown(menu.inputValue)
    BY <1>1 DEF Inv, CheckboxInv, OptionsFollow
  <2>2. /\ menu.inputValue \in {Empty} \union Checkbox!Names
        /\ tags \in TagLists /\ chosen \in Seq(Checkbox!Names) /\ IsInjective(chosen)
    BY <1>1, SameOperators DEF Inv, CheckboxInv, Checkbox!TypeOK, Checkbox!MenuStates
  <2> QED BY <2>1, <2>2, CheckboxShownFacts
<1> QED BY <1>1, MenusInvariance, PTL

(* The menu never lists a value twice, whether or not its effect has run.       *)
THEOREM OptionsAreDistinctAlways == Spec => []OptionsAreDistinct
<1>1. Inv => OptionsAreDistinct
  BY DEF Inv, CheckboxInv, OptionsAreDistinct
<1> QED BY <1>1, MenusInvariance, PTL
================================================================================
