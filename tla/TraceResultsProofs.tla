--------------------------- MODULE TraceResultsProofs --------------------------
(* Proofs about TraceResults, for any instances, queries, limits and traces and *)
(* any bounds.  ShownIsSelected is not inductive: it says nothing of a request, *)
(* whose answer is shown later, nor of the key that is shown again once a due   *)
(* effect has refreshed.  Current says that what the observed key holds or is   *)
(* being fetched from belongs to the selected instance, unless a refresh is     *)
(* due.                                                                         *)
EXTENDS TraceResults, TLAPS

(* No refresh is due; the effect of the initial render does not make one.       *)
Fresh == ~effect \/ isInitialRender

AnswerIsFrom(e, t) ==
  \/ e.error = t
  \/ e.error = None /\ e.data.from = t

Current ==
  Fresh /\ Observed =>
    \/ request = tempo
    \/ request = None /\ AnswerIsFrom(Entry, tempo)

(* The refresh that is due fits the bound.                                      *)
DueFits == effect /\ ~isInitialRender => epoch < MaxEpoch

Inv == TypeOK /\ Current /\ DueFits

(* A render keeps Current if an observation that goes on is one of the same     *)
(* instance, and request a place a request can be sent to.                      *)
LEMMA ObserveKeeps ==
  ASSUME TypeOK, tempo' \in Instances \union {None}, Observe, UNCHANGED cache,
         Current,
         Fresh' /\ Observed' /\ Observed /\ Key' = Key => Fresh /\ tempo' = tempo
  PROVE  request' \in Instances \union {None} /\ Current'
<1>1. CASE ~Observed'
  BY <1>1 DEF Observe, Current
<1>2. CASE Observed' /\ Observed /\ Key' = Key
  <2>1. request' = request
    BY <1>2 DEF Observe
  <2>2. Entry' = Entry
    BY <1>2 DEF Entry
  <2> QED
    BY <1>2, <2>1, <2>2 DEF Current, TypeOK
<1>3. CASE Observed' /\ ~(Observed /\ Key' = Key)
  <2>1. request' = tempo'
    BY <1>3 DEF Observe
  <2> QED
    BY <2>1 DEF Current
<1> QED
  BY <1>1, <1>2, <1>3

LEMMA ZeroIsEpoch == 0 \in Epochs
BY EpochAssumption DEF Epochs

LEMMA EmptyCache == [k \in Keys |-> NoEntry] \in [Keys -> Entries]
<1>1. NoEntry \in Entries
  BY DEF NoEntry, Entries
<1> QED
  BY <1>1

(* The initial states satisfy the invariant. *)
LEMMA InitInv == Init => Inv
<1> SUFFICES ASSUME Init PROVE Inv
  OBVIOUS
<1>1. TypeOK
  BY ZeroIsEpoch, EmptyCache DEF Init, TypeOK
<1> QED
  BY <1>1 DEF Inv, Init, Current, Observed, DueFits

(* An answer keeps the invariant if it is filed under its own instance. *)
LEMMA AnswerKeeps ==
  ASSUME Inv, NEW e \in Entries, Answer(e), AnswerIsFrom(e, request)
  PROVE  Inv'
<1> USE DEF Inv, Answer, url
<1>1. Key \in Keys
  BY DEF TypeOK, Key, Keys
<1>2. TypeOK'
  BY <1>1 DEF TypeOK
<1>3. Entry' = e
  BY <1>1 DEF Entry, Key, TypeOK
<1>4. Current'
  <2> SUFFICES ASSUME Fresh', Observed' PROVE AnswerIsFrom(Entry', tempo')
    BY DEF Current, Entry, AnswerIsFrom
  <2>1. request = tempo
    BY DEF Current, Fresh, Observed
  <2> QED
    BY <2>1, <1>3
<1>5. DueFits'
  BY DEF DueFits
<1> QED
  BY <1>2, <1>4, <1>5

(* A page that is mounted observes nothing until its plugin is loaded. *)
LEMMA MountKeeps ==
  ASSUME Inv, NEW p \in {"search", "trace"}, NEW t \in Instances \union {None},
         NEW s \in Specs, Mount(p, t, s),
         p = "search" => s \in Searches, p = "trace" => s \in Details
  PROVE  Inv'
<1> USE DEF Inv, Mount
<1>1. request' = None /\ ~Observed'
  BY DEF Observe, Observed
<1>2. TypeOK'
  BY <1>1, ZeroIsEpoch DEF TypeOK
<1> QED
  BY <1>1, <1>2 DEF Current, DueFits

(* A render of an open page keeps the invariant. *)
LEMMA RenderKeeps ==
  ASSUME Inv, ~effect, NEW t \in Instances \union {None}, NEW s \in Specs,
         NEW e \in Epochs, Render(t, s, e),
         page = "search" => s \in Searches,
         page = "trace" => s \in Details /\ t = tempo,
         t # tempo => e < MaxEpoch
  PROVE  Inv'
<1> USE DEF Inv, Render
<1>1. effect' <=> t # tempo
  BY DEF TypeOK
<1>2. ~isInitialRender
  BY DEF TypeOK
<1>3. request' \in Instances \union {None} /\ Current'
  BY <1>1, <1>2, ObserveKeeps DEF Fresh
<1>4. TypeOK'
  BY <1>1, <1>2, <1>3 DEF TypeOK
<1>5. DueFits'
  BY <1>1 DEF DueFits
<1> QED
  BY <1>3, <1>4, <1>5

(* Every step keeps the invariant. *)
LEMMA NextInv == Inv /\ [Next]_vars => Inv'
<1> SUFFICES ASSUME Inv, [Next]_vars PROVE Inv'
  OBVIOUS
<1>t. TypeOK /\ Current /\ DueFits
  BY DEF Inv
<1>1. ASSUME NEW found \in BOOLEAN, Respond(found) PROVE Inv'
  <2> DEFINE e == [data |-> [from |-> request, found |-> found], error |-> None]
  <2>1. request \in Instances
    BY <1>1, <1>t DEF Respond, Answer, TypeOK
  <2>2. e \in Entries
    BY <2>1 DEF Answers, Entries
  <2>3. AnswerIsFrom(e, request)
    BY DEF AnswerIsFrom
  <2> QED
    BY <1>1, <2>2, <2>3, AnswerKeeps DEF Respond
<1>2. CASE Fail
  <2> DEFINE e == [Entry EXCEPT !.error = request]
  <2>1. request \in Instances
    BY <1>2, <1>t DEF Fail, Answer, TypeOK
  <2>2. Entry \in Entries
    BY <1>t DEF TypeOK, Entry, Key, Keys
  <2>3. e \in Entries /\ e.error = request
    BY <2>1, <2>2 DEF Entries
  <2>4. AnswerIsFrom(e, request)
    BY <2>3 DEF AnswerIsFrom
  <2> QED
    BY <1>2, <2>3, <2>4, AnswerKeeps DEF Fail
<1>3. ASSUME NEW k \in Keys, Collect(k) PROVE Inv'
  <2> USE DEF Collect, url
  <2>1. TypeOK'
    BY <1>3, <1>t DEF TypeOK, NoEntry, Entries
  <2>2. Current'
    <3>1. Observed' = Observed /\ Fresh' = Fresh /\ Key' = Key
      BY <1>3 DEF Observed, Fresh, Key
    <3>2. Observed => Entry' = Entry
      BY <1>3, <3>1 DEF Entry
    <3> QED
      BY <1>3, <1>t, <3>1, <3>2 DEF Current
  <2>3. DueFits'
    BY <1>3, <1>t DEF DueFits
  <2> QED
    BY <2>1, <2>2, <2>3 DEF Inv
<1>4. CASE PluginLoaded
  <2> USE DEF PluginLoaded, url
  <2>1. ~Observed
    BY <1>4 DEF Observed
  <2>2. request' \in Instances \union {None} /\ Current'
    BY <1>4, <1>t, <2>1, ObserveKeeps DEF TypeOK
  <2>3. TypeOK'
    BY <1>4, <1>t, <2>2 DEF TypeOK
  <2>4. DueFits'
    BY <1>4, <1>t DEF DueFits
  <2> QED
    BY <2>2, <2>3, <2>4 DEF Inv
<1>5. ASSUME NEW p \in {"search", "trace"}, NEW t \in Instances \union {None},
             NEW s \in Specs, Open(p, t, s)
      PROVE  Inv'
  BY <1>5, MountKeeps DEF Open
<1>6. ASSUME NEW s \in Details, OpenTrace(s) PROVE Inv'
  <2>1. s \in Specs /\ tempo \in Instances \union {None}
    BY <1>t DEF TypeOK, Specs
  <2> QED
    BY <1>6, <2>1, MountKeeps DEF OpenTrace
<1>7. ASSUME NEW s \in Details, LinkedTrace(s) PROVE Inv'
  <2>1. s \in Specs /\ tempo \in Instances \union {None} /\ epoch \in Epochs
    BY <1>t DEF TypeOK, Specs
  <2>2. page = "trace" /\ ~effect
    BY <1>7, <1>t DEF TypeOK, LinkedTrace
  <2> QED
    BY <1>7, <2>1, <2>2, RenderKeeps DEF LinkedTrace
<1>8. ASSUME NEW s \in Searches, Breadcrumb(s) PROVE Inv'
  <2>1. s \in Specs /\ tempo \in Instances \union {None}
    BY <1>t DEF TypeOK, Specs
  <2> QED
    BY <1>8, <2>1, MountKeeps DEF Breadcrumb
<1>9. CASE Leave
  <2> USE DEF Leave
  <2>1. request' = None /\ ~Observed'
    BY <1>9 DEF Observe, Observed
  <2>2. TypeOK'
    BY <1>9, <1>t, <2>1, ZeroIsEpoch DEF TypeOK
  <2> QED
    BY <1>9, <2>1, <2>2 DEF Inv, Current, DueFits
<1>10. CASE RunEffect
  <2> USE DEF RunEffect, url
  <2>1. epoch' \in Epochs /\ (~isInitialRender => Key' # Key)
    BY <1>10, <1>t, EpochAssumption DEF TypeOK, DueFits, Epochs, Key
  <2>2. isInitialRender' = FALSE /\ (isInitialRender => Fresh)
    BY <1>10, <1>t DEF TypeOK, Fresh
  <2>3. tempo' = tempo /\ tempo \in Instances \union {None}
    BY <1>10, <1>t DEF TypeOK
  <2>4. request' \in Instances \union {None} /\ Current'
    BY <1>10, <1>t, <2>1, <2>2, <2>3, ObserveKeeps
  <2>5. TypeOK'
    BY <1>10, <1>t, <2>1, <2>2, <2>4 DEF TypeOK
  <2>6. DueFits'
    BY <1>10 DEF DueFits
  <2> QED
    BY <2>4, <2>5, <2>6 DEF Inv
<1>11. ASSUME NEW t \in Instances \union {None}, NEW s \in Searches, Navigate(t, s)
       PROVE  Inv'
  <2>1. s \in Specs /\ epoch \in Epochs
    BY <1>t DEF TypeOK, Specs
  <2>2. page = "search" /\ ~effect /\ (t # tempo => epoch < MaxEpoch)
    BY <1>11 DEF Navigate, Idle
  <2> QED
    BY <1>11, <2>1, <2>2, RenderKeeps DEF Navigate
<1>12. ASSUME NEW s \in Searches, NEW e \in Epochs, page = "search", ~effect,
              Render(tempo, s, e)
       PROVE  Inv'
  <2>1. s \in Specs /\ tempo \in Instances \union {None}
    BY <1>t DEF TypeOK, Specs
  <2> QED
    BY <1>12, <2>1, RenderKeeps
<1>13. ASSUME NEW q \in Queries, RunQuery(q) PROVE Inv'
  <2>1. page = "search" /\ ~effect /\ spec \in Searches
    BY <1>13, <1>t DEF RunQuery, Idle, TypeOK
  <2>2. [spec EXCEPT !.query = q] \in Searches
    BY <2>1 DEF Searches
  <2>3. epoch + 1 \in Epochs
    BY <1>13, <1>t, EpochAssumption DEF RunQuery, TypeOK, Epochs
  <2> QED
    BY <1>12, <1>13, <2>1, <2>2, <2>3 DEF RunQuery
<1>14. ASSUME NEW l \in Limits, SetLimit(l) PROVE Inv'
  <2>1. page = "search" /\ ~effect /\ spec \in Searches /\ epoch \in Epochs
    BY <1>14, <1>t DEF SetLimit, Idle, TypeOK
  <2>2. [spec EXCEPT !.limit = l] \in Searches
    BY <2>1 DEF Searches
  <2> QED
    BY <1>12, <1>14, <2>1, <2>2 DEF SetLimit
<1>15. CASE ClearAllFilters
  <2>1. page = "search" /\ ~effect /\ spec \in Searches /\ epoch \in Epochs
    BY <1>15, <1>t DEF ClearAllFilters, Idle, TypeOK
  <2>2. [spec EXCEPT !.query = EmptyQuery] \in Searches
    BY <2>1, EmptyQueryAssumption DEF Searches
  <2> QED
    BY <1>12, <1>15, <2>1, <2>2 DEF ClearAllFilters
<1>16. CASE UNCHANGED vars
  <2> USE DEF vars, url
  <2>1. TypeOK'
    BY <1>16, <1>t DEF TypeOK
  <2>2. Current' /\ DueFits'
    BY <1>16, <1>t DEF Current, Fresh, Observed, Entry, Key, AnswerIsFrom, DueFits
  <2> QED
    BY <2>1, <2>2 DEF Inv
<1> QED
  BY <1>1, <1>2, <1>3, <1>4, <1>5, <1>6, <1>7, <1>8, <1>9, <1>10, <1>11, <1>13,
     <1>14, <1>15, <1>16 DEF Next

(* The invariant holds in every reachable state. *)
THEOREM ResultsInvariance == Spec => []Inv
<1>1. Init => Inv
  BY InitInv
<1>2. Inv /\ [Next]_vars => Inv'
  BY NextInv
<1> QED
  BY <1>1, <1>2, PTL DEF Spec

(* The pages have the states that the code gives them. *)
THEOREM ResultsTypeCorrect == Spec => []TypeOK
<1>1. Inv => TypeOK
  BY DEF Inv
<1> QED
  BY <1>1, ResultsInvariance, PTL

(* What a page shows without loading is that of an observed key. *)
LEMMA ShownIsCurrent ==
  ASSUME Inv, ~effect
  PROVE  ShownFrom \in {None, tempo}
<1> SUFFICES ASSUME page # "none", ~Loading PROVE ShownFrom \in {None, tempo}
  BY DEF ShownFrom
<1>1. Observed /\ request = None
  BY DEF Loading
<1>2. tempo \in Instances
  BY <1>1 DEF Inv, TypeOK, Observed
<1>3. AnswerIsFrom(Entry, tempo)
  BY <1>1, <1>2, NoneAssumption DEF Inv, Current, Fresh
<1>4. CASE Entry.error = tempo
  BY <1>2, <1>4, NoneAssumption DEF ShownFrom
<1>5. CASE Entry.error = None /\ Entry.data.from = tempo
  BY <1>5 DEF ShownFrom
<1> QED
  BY <1>3, <1>4, <1>5 DEF AnswerIsFrom

(* The traces page shows the results of the selected instance as soon as its    *)
(* effects have run (QueryBrowser.tsx:37-48).                                   *)
THEOREM ShownIsSelectedAlways == Spec => []ShownIsSelected
<1>1. Inv => ShownIsSelected
  BY ShownIsCurrent DEF ShownIsSelected
<1> QED
  BY <1>1, ResultsInvariance, PTL

(* The detail page shows, and hands to Lightspeed, the trace of the instance in *)
(* the URL (TraceDetailPage.tsx:49-127).                                        *)
THEOREM TraceIsSelectedAlways == Spec => []TraceIsSelected
<1>1. Inv => TraceIsSelected
  <2> SUFFICES ASSUME Inv, page = "trace"
               PROVE  ShownFrom \in {None, tempo} /\ Attachment \in {None, tempo}
    BY DEF TraceIsSelected
  <2>1. ~effect
    BY DEF Inv, TypeOK
  <2>2. ShownFrom \in {None, tempo}
    BY <2>1, ShownIsCurrent
  <2>3. Attachment \in {None, ShownFrom}
    BY DEF Attachment, GanttChart, Panel, ShownFrom
  <2> QED
    BY <2>2, <2>3
<1> QED
  BY <1>1, ResultsInvariance, PTL
================================================================================
