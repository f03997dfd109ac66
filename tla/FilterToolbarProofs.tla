-------------------------- MODULE FilterToolbarProofs --------------------------
(* Proofs about FilterToolbar, for any inputs, durations, number of pending     *)
(* calls and number of navigations.                                             *)
EXTENDS FilterToolbar, SequenceTheorems, WellFoundedInduction, TLAPS

--------------------------------------------------------------------------------
(* Texts and filters. *)

(* The field of a filter holds a text that its input can show and that stays    *)
(* as it is when it is committed.                                               *)
LEMMA FieldFacts ==
  ASSUME NEW g \in Filters, NEW f \in Inputs
  PROVE  /\ f \in DOMAIN g
         /\ g[f] \in Texts(f) /\ g[f] \in AllTexts
         /\ Normal(g[f]) = g[f] /\ Valid(f, g[f])
<1> USE InputsAssumption, DurationsAssumption
        DEF Filters, Texts, AllTexts, Normal, Valid, Empty, Bad, Custom, Spaced
<1>1. CASE f = "min"
  <2>1. g[f] \in {Empty} \union Durations /\ f \in DOMAIN g
    BY <1>1
  <2> QED BY <1>1, <2>1
<1>2. CASE f = "max"
  <2>1. g[f] \in {Empty} \union Durations /\ f \in DOMAIN g
    BY <1>2
  <2> QED BY <1>2, <2>1
<1>3. CASE f = "custom"
  <2>1. g[f] \in {Empty, Custom} /\ f \in DOMAIN g
    BY <1>3
  <2> QED BY <1>3, <2>1
<1> QED BY <1>1, <1>2, <1>3

(* A valid text makes a filter that differs in one field.                       *)
LEMMA CommittedFacts ==
  ASSUME NEW t \in Timers, t.text \in Texts(t.field), Valid(t.field, t.text)
  PROVE  /\ Committed(t) \in Filters
         /\ Committed(t)[t.field] = Normal(t.text)
         /\ \A g \in {"min", "max", "custom", "labels"} \ {t.field} :
              Committed(t)[g] = t.snapshot[g]
<1>1. t.field \in Inputs /\ t.snapshot \in Filters /\ t.field \in DOMAIN t.snapshot
  BY FieldFacts DEF Timers
<1>2. t.field \in {"min", "max", "custom"}
  BY <1>1, InputsAssumption
<1>3. DOMAIN t.snapshot = {"min", "max", "custom", "labels"}
  BY <1>1 DEF Filters
<1>4. Committed(t)[t.field] = Normal(t.text)
  BY <1>1 DEF Committed
<1>5. \A g \in {"min", "max", "custom", "labels"} \ {t.field} :
        Committed(t)[g] = t.snapshot[g]
  BY <1>1, <1>3 DEF Committed
<1>6. Committed(t) \in Filters
  <2> USE DurationsAssumption
          DEF Filters, Texts, Normal, Valid, Committed, Empty, Bad, Custom, Spaced
  <2>1. CASE t.field = "min"
    BY <1>1, <2>1
  <2>2. CASE t.field = "max"
    BY <1>1, <2>2
  <2>3. CASE t.field = "custom"
    BY <1>1, <2>3
  <2> QED BY <1>2, <2>1, <2>2, <2>3
<1> QED BY <1>4, <1>5, <1>6

--------------------------------------------------------------------------------
(* The pending calls. *)

LEMMA RemoveAtFacts ==
  ASSUME NEW S, NEW s \in Seq(S), NEW i \in 1..Len(s)
  PROVE  /\ RemoveAt(s, i) \in Seq(S)
         /\ Len(RemoveAt(s, i)) = Len(s) - 1
         /\ \A j \in 1..(Len(s) - 1) :
              RemoveAt(s, i)[j] = IF j < i THEN s[j] ELSE s[j + 1]
<1> DEFINE a == SubSeq(s, 1, i - 1)
           b == SubSeq(s, i + 1, Len(s))
<1>1. Len(s) \in Nat /\ \A j \in 1..Len(s) : s[j] \in S
  OBVIOUS
<1>2. a \in Seq(S) /\ Len(a) = i - 1 /\ \A j \in 1..(i - 1) : a[j] = s[j]
  <2>1. \A j \in 1..(i - 1) : s[j] \in S
    BY <1>1
  <2>2. /\ a \in Seq(S)
        /\ Len(a) = IF 1 <= i - 1 THEN i - 1 - 1 + 1 ELSE 0
        /\ \A j \in 1..(i - 1 - 1 + 1) : a[j] = s[1 + j - 1]
    BY <2>1, SubSeqProperties
  <2> QED BY <2>2
<1>3. b \in Seq(S) /\ Len(b) = Len(s) - i /\ \A j \in 1..(Len(s) - i) : b[j] = s[i + j]
  <2>1. \A j \in (i + 1)..Len(s) : s[j] \in S
    BY <1>1
  <2>2. /\ b \in Seq(S)
        /\ Len(b) = IF i + 1 <= Len(s) THEN Len(s) - (i + 1) + 1 ELSE 0
        /\ \A j \in 1..(Len(s) - (i + 1) + 1) : b[j] = s[i + 1 + j - 1]
    BY <1>1, <2>1, SubSeqProperties
  <2> QED BY <1>1, <2>2
<1> HIDE DEF a, b
<1>4. /\ a \o b \in Seq(S)
      /\ Len(a \o b) = Len(s) - 1
      /\ \A j \in 1..(Len(s) - 1) : (a \o b)[j] = IF j <= Len(a) THEN a[j] ELSE b[j - Len(a)]
  <2>1. /\ a \o b \in Seq(S)
        /\ Len(a \o b) = Len(a) + Len(b)
        /\ \A j \in 1..(Len(a) + Len(b)) :
             (a \o b)[j] = IF j <= Len(a) THEN a[j] ELSE b[j - Len(a)]
    BY <1>2, <1>3, ConcatProperties
  <2>2. Len(a) + Len(b) = Len(s) - 1
    BY <1>1, <1>2, <1>3
  <2> QED BY <2>1, <2>2
<1>5. \A j \in 1..(Len(s) - 1) : (a \o b)[j] = IF j < i THEN s[j] ELSE s[j + 1]
  BY <1>1, <1>2, <1>3, <1>4
<1> QED BY <1>4, <1>5 DEF RemoveAt, a, b

(* The last call of its field.                                                  *)
IsLastOf(ts, i) == \A j \in DOMAIN ts : j > i => ts[j].field # ts[i].field

(* Removing a call leaves the others in their order.  A call that is the last   *)
(* of its field stays it, and none becomes it but one of the field whose last   *)
(* call was removed.                                                            *)
LEMMA RemoveKeepsLast ==
  ASSUME NEW ts \in Seq(Timers), NEW i \in DOMAIN ts
  PROVE  /\ \A j \in DOMAIN RemoveAt(ts, i) : \E k \in DOMAIN ts \ {i} :
              /\ RemoveAt(ts, i)[j] = ts[k]
              /\ IsLastOf(RemoveAt(ts, i), j)
                   => \/ IsLastOf(ts, k)
                      \/ ts[k].field = ts[i].field /\ IsLastOf(ts, i)
         /\ \A k \in DOMAIN ts \ {i} : \E j \in DOMAIN RemoveAt(ts, i) :
              /\ RemoveAt(ts, i)[j] = ts[k]
              /\ IsLastOf(ts, k) => IsLastOf(RemoveAt(ts, i), j)
<1> DEFINE r == RemoveAt(ts, i)
           n == Len(ts)
           old(j) == IF j < i THEN j ELSE j + 1
<1>1. n \in Nat /\ DOMAIN ts = 1..n /\ i \in 1..n
  BY LenProperties
<1>2. DOMAIN r = 1..(n - 1) /\ \A j \in 1..(n - 1) : r[j] = ts[old(j)]
  BY <1>1, RemoveAtFacts, LenProperties
<1> HIDE DEF r
<1>3. \A k \in (1..n) \ {i} : \E j \in 1..(n - 1) : k = old(j)
  <2> SUFFICES ASSUME NEW k \in (1..n) \ {i} PROVE \E j \in 1..(n - 1) : k = old(j)
    OBVIOUS
  <2>1. CASE k < i
    BY <1>1, <2>1
  <2>2. CASE k > i
    <3>1. k - 1 \in 1..(n - 1) /\ old(k - 1) = k
      BY <1>1, <2>2
    <3> QED BY <3>1
  <2> QED BY <1>1, <2>1, <2>2
<1>4. \A j \in 1..(n - 1) : old(j) \in (1..n) \ {i}
  BY <1>1
<1>5. \A j, m \in 1..(n - 1) : j < m <=> old(j) < old(m)
  BY <1>1
<1> HIDE DEF old
<1>6. ASSUME NEW j \in 1..(n - 1), IsLastOf(r, j),
             ts[old(j)].field # ts[i].field \/ ~IsLastOf(ts, i)
      PROVE  IsLastOf(ts, old(j))
  <2> SUFFICES ASSUME NEW m \in 1..n, m > old(j), ts[m].field = ts[old(j)].field
               PROVE  FALSE
    BY <1>1 DEF IsLastOf
  <2>1. ASSUME NEW x \in (1..n) \ {i}, x > old(j) PROVE ts[x].field # ts[old(j)].field
    <3>1. PICK y \in 1..(n - 1) : x = old(y)
      BY <1>3
    <3>2. y > j
      BY <2>1, <3>1, <1>4, <1>5, <1>1
    <3>3. r[y].field # r[j].field
      BY <3>2, <1>6, <1>2 DEF IsLastOf
    <3> QED BY <3>1, <3>3, <1>2
  <2>2. m = i
    BY <2>1
  <2>3. PICK x \in 1..n : x > i /\ ts[x].field = ts[i].field
    BY <2>2, <1>6, <1>1 DEF IsLastOf
  <2>4. x > old(j) /\ x # i
    BY <2>2, <2>3, <1>1, <1>4
  <2> QED BY <2>1, <2>2, <2>3, <2>4
<1>7. ASSUME NEW j \in 1..(n - 1), IsLastOf(ts, old(j))
      PROVE  IsLastOf(r, j)
  <2> SUFFICES ASSUME NEW m \in 1..(n - 1), m > j
               PROVE  r[m].field # r[j].field
    BY <1>2 DEF IsLastOf
  <2>1. old(m) > old(j) /\ old(m) \in 1..n
    BY <1>4, <1>5, <1>1
  <2> QED BY <2>1, <1>7, <1>1, <1>2 DEF IsLastOf
<1>8. ASSUME NEW j \in DOMAIN r
      PROVE  \E k \in DOMAIN ts \ {i} :
               /\ r[j] = ts[k]
               /\ IsLastOf(r, j) => \/ IsLastOf(ts, k)
                                    \/ ts[k].field = ts[i].field /\ IsLastOf(ts, i)
  <2>1. old(j) \in DOMAIN ts \ {i} /\ r[j] = ts[old(j)]
    BY <1>1, <1>2, <1>4
  <2>2. IsLastOf(r, j) => \/ IsLastOf(ts, old(j))
                          \/ ts[old(j)].field = ts[i].field /\ IsLastOf(ts, i)
    BY <1>2, <1>6
  <2> QED BY <2>1, <2>2
<1>9. ASSUME NEW k \in DOMAIN ts \ {i}
      PROVE  \E j \in DOMAIN r : /\ r[j] = ts[k]
                                 /\ IsLastOf(ts, k) => IsLastOf(r, j)
  <2>1. PICK j \in 1..(n - 1) : k = old(j)
    BY <1>1, <1>3
  <2> QED BY <2>1, <1>2, <1>7
<1> QED BY <1>8, <1>9 DEF r
--------------------------------------------------------------------------------
(* The invariant. *)

(* A debounced function exists in a mounted input; if it has a pending call it  *)
(* is the input's last one.                                                     *)
CallsAreKnown ==
  /\ \A f \in live : Mounted(f) /\ \E i \in DOMAIN timers :
       timers[i].field = f /\ IsLastOf(timers, i)
  /\ focus # Empty => Mounted(focus)

(* What an input shows is about to be committed by its last pending call, about *)
(* to be replaced by a render, what the query holds, or invalid.                *)
Follows(f) ==
  \/ \E i \in DOMAIN timers : /\ timers[i].field = f /\ IsLastOf(timers, i)
                              /\ draft[f] = timers[i].text
  \/ url.filter[f] # shown.filter[f]
  \/ Normal(draft[f]) = shown.filter[f]
  \/ ~Valid(f, draft[f])

DraftsFollow == \A f \in Inputs : Mounted(f) /\ f \notin overwritten => Follows(f)

Inv == /\ TypeOK
       /\ CallsAreKnown
       /\ LiveCallsAreCurrent
       /\ DraftsFollow
       /\ EditorKeepsDraft

LEMMA IsLiveFacts ==
  ASSUME NEW i
  PROVE  IsLive(i) <=> timers[i].field \in live /\ IsLastOf(timers, i)
BY DEF IsLive, IsLastOf

(* The pending call of an input's present debounced function.                   *)
LEMMA CallsFacts ==
  ASSUME Inv, NEW f \in live
  PROVE  /\ (CHOOSE i \in Calls(f) : TRUE) \in DOMAIN timers
         /\ timers[CHOOSE i \in Calls(f) : TRUE].field = f
         /\ IsLastOf(timers, CHOOSE i \in Calls(f) : TRUE)
<1>1. PICK i \in DOMAIN timers : timers[i].field = f /\ IsLastOf(timers, i)
  BY DEF Inv, CallsAreKnown
<1>2. i \in Calls(f)
  BY <1>1, IsLiveFacts DEF Calls
<1>3. (CHOOSE k \in Calls(f) : TRUE) \in Calls(f)
  BY <1>2
<1> QED BY <1>3, IsLiveFacts DEF Calls

(* The pending calls of the other functions keep their order and their places.  *)
LEMMA OthersFacts ==
  ASSUME Inv, NEW f \in Inputs
  PROVE  /\ Others(f) \in Seq(Timers)
         /\ \A j \in DOMAIN Others(f) : \E k \in DOMAIN timers :
              /\ Others(f)[j] = timers[k]
              /\ IsLastOf(Others(f), j) /\ timers[k].field # f => IsLastOf(timers, k)
         /\ \A k \in DOMAIN timers : timers[k].field # f /\ IsLastOf(timers, k) =>
              \E j \in DOMAIN Others(f) : /\ Others(f)[j] = timers[k]
                                          /\ IsLastOf(Others(f), j)
<1>1. timers \in Seq(Timers)
  BY DEF Inv, TypeOK
<1>2. CASE f \in live
  <2> DEFINE i == CHOOSE x \in Calls(f) : TRUE
  <2>1. i \in DOMAIN timers /\ timers[i].field = f /\ Others(f) = RemoveAt(timers, i)
    BY <1>2, CallsFacts DEF Others
  <2> HIDE DEF i
  <2>2. i \in 1..Len(timers)
    BY <1>1, <2>1
  <2>3. Others(f) \in Seq(Timers)
    BY <1>1, <2>1, <2>2, RemoveAtFacts
  <2>4. \A j \in DOMAIN Others(f) : \E k \in DOMAIN timers :
          /\ Others(f)[j] = timers[k]
          /\ IsLastOf(Others(f), j) /\ timers[k].field # f => IsLastOf(timers, k)
    BY <1>1, <2>1, RemoveKeepsLast
  <2>5. \A k \in DOMAIN timers : timers[k].field # f /\ IsLastOf(timers, k) =>
          \E j \in DOMAIN Others(f) : /\ Others(f)[j] = timers[k]
                                      /\ IsLastOf(Others(f), j)
    BY <1>1, <2>1, RemoveKeepsLast
  <2> QED BY <2>3, <2>4, <2>5
<1>3. CASE f \notin live
  BY <1>1, <1>3 DEF Others
<1> QED BY <1>2, <1>3

LEMMA InitInv == Init => Inv
<1> SUFFICES ASSUME Init PROVE Inv
  OBVIOUS
<1>1. NoFilter \in Filters
  BY DEF NoFilter, Filters
<1>2. url \in Queries
  <2>1. \A m \in BOOLEAN : [filter |-> NoFilter, more |-> m] \in Queries
    BY <1>1 DEF Queries
  <2>2. ToQuery(NoFilter) \in Queries
    BY <2>1 DEF ToQuery
  <2> QED BY <2>1, <2>2 DEF Init
<1>3. doc \in Queries
  BY <1>1, <1>2 DEF Init, Mount, ToQuery, Queries
<1>4. \A f \in Inputs : FilterOf(f) # "labels"
  BY DEF FilterOf
<1>5. draft = [f \in Inputs |-> Empty]
  BY <1>4 DEF Init, Drafts
<1>6. TypeOK
  <2>1. attributes \in BOOLEAN
    BY DEF Init, Simple
  <2>2. timers \in Seq(Timers) /\ Len(timers) = 0 /\ DOMAIN timers = {}
    BY DEF Init
  <2>3. 0 <= MaxTimers /\ navigations \in 0..MaxNavigations
    BY MaxTimersAssumption, MaxNavigationsAssumption DEF Init
  <2>4. draft \in [Inputs -> AllTexts] /\ \A f \in Inputs : draft[f] \in Texts(f)
    BY <1>5 DEF AllTexts, Texts
  <2> QED BY <1>2, <1>3, <2>1, <2>2, <2>3, <2>4 DEF Init, TypeOK
<1>7. \A f \in Inputs : ~Mounted(f)
  BY <1>4 DEF Init, Mounted
<1> QED
  BY <1>6, <1>7 DEF Init, Inv, CallsAreKnown, LiveCallsAreCurrent, DraftsFollow,
                    EditorKeepsDraft

--------------------------------------------------------------------------------
(* The steps. *)

(* A change of the URL: an input that followed by one of the last three ways    *)
(* follows by one of them afterwards, unless it is overwritten.                 *)
LEMMA SetUrlFollows ==
  ASSUME TypeOK, NEW q \in Queries, SetUrl(q), UNCHANGED <<shown, draft>>,
         NEW f \in Inputs, f \notin overwritten',
         \/ url.filter[f] # shown.filter[f]
         \/ Normal(draft[f]) = shown.filter[f]
         \/ ~Valid(f, draft[f])
  PROVE  Follows(f)' /\ f \notin overwritten
BY DEF SetUrl, Follows

(* The controls that only change the URL.                                       *)
LEMMA SetUrlInv ==
  ASSUME Inv, NEW q \in Queries, SetUrl(q),
         UNCHANGED <<shown, attributes, active, inputVars, editorVars>>,
         navigations' \in 0..MaxNavigations
  PROVE  Inv'
<1> USE DEF inputVars, editorVars
<1>1. overwritten' \subseteq Inputs /\ url' \in Queries
  BY DEF SetUrl, Inv, TypeOK
<1>2. TypeOK'
  BY <1>1 DEF Inv, TypeOK
<1>3. CallsAreKnown'
  BY DEF Inv, CallsAreKnown, Mounted, IsLastOf
<1>4. LiveCallsAreCurrent'
  BY DEF Inv, LiveCallsAreCurrent, IsLive
<1>5. DraftsFollow'
  <2> SUFFICES ASSUME NEW f \in Inputs, Mounted(f)', f \notin overwritten'
               PROVE  Follows(f)'
    BY DEF DraftsFollow
  <2>1. Mounted(f) /\ f \notin overwritten
    BY DEF Mounted, SetUrl
  <2>2. Follows(f)
    BY <2>1 DEF Inv, DraftsFollow
  <2>3. CASE \E i \in DOMAIN timers : /\ timers[i].field = f /\ IsLastOf(timers, i)
                                      /\ draft[f] = timers[i].text
    BY <2>3 DEF Follows, IsLastOf
  <2>4. CASE ~\E i \in DOMAIN timers : /\ timers[i].field = f /\ IsLastOf(timers, i)
                                       /\ draft[f] = timers[i].text
    BY <2>2, <2>4, SetUrlFollows DEF Follows, Inv
  <2> QED BY <2>3, <2>4
<1>6. EditorKeepsDraft'
  BY DEF Inv, EditorKeepsDraft
<1> QED BY <1>2, <1>3, <1>4, <1>5, <1>6 DEF Inv

(* A pending call that is made, by its timer or by a flush, is pending no more. *)
LEMMA CallInv ==
  ASSUME Inv, NEW i \in DOMAIN timers, Run(timers[i]),
         timers' = RemoveAt(timers, i),
         live' = IF IsLive(i) THEN live \ {timers[i].field} ELSE live,
         focus' \in {focus, Empty},
         UNCHANGED <<shown, attributes, active, draft, editorVars, navigations>>
  PROVE  Inv'
<1> DEFINE t == timers[i]
<1> USE DEF editorVars
<1>1. timers \in Seq(Timers) /\ i \in 1..Len(timers) /\ Len(timers) <= MaxTimers
  BY DEF Inv, TypeOK
<1>2. t \in Timers /\ t.text \in Texts(t.field) /\ t.field \in Inputs
  <2>1. t \in Timers
    BY <1>1
  <2> QED BY <2>1 DEF Inv, TypeOK, Timers
<1>3. /\ timers' \in Seq(Timers) /\ Len(timers') = Len(timers) - 1
      /\ \A j \in DOMAIN timers' : \E k \in DOMAIN timers \ {i} :
           /\ timers'[j] = timers[k]
           /\ IsLastOf(timers', j)
                => \/ IsLastOf(timers, k)
                   \/ timers[k].field = t.field /\ IsLastOf(timers, i)
      /\ \A k \in DOMAIN timers \ {i} : \E j \in DOMAIN timers' :
           /\ timers'[j] = timers[k]
           /\ IsLastOf(timers, k) => IsLastOf(timers', j)
  <2>1. RemoveAt(timers, i) \in Seq(Timers) /\ Len(RemoveAt(timers, i)) = Len(timers) - 1
    BY <1>1, RemoveAtFacts
  <2>2. timers \in Seq(Timers)
    BY <1>1
  <2> DEFINE r == RemoveAt(timers, i)
  <2>3. /\ \A j \in DOMAIN r : \E k \in DOMAIN timers \ {i} :
             /\ r[j] = timers[k]
             /\ IsLastOf(r, j)
                  => \/ IsLastOf(timers, k)
                     \/ timers[k].field = t.field /\ IsLastOf(timers, i)
        /\ \A k \in DOMAIN timers \ {i} : \E j \in DOMAIN r :
             /\ r[j] = timers[k]
             /\ IsLastOf(timers, k) => IsLastOf(r, j)
    BY <2>2, RemoveKeepsLast
  <2>4. timers' = r
    OBVIOUS
  <2> HIDE DEF r
  <2> QED BY <2>1, <2>3, <2>4 DEF r
<1>4. IsLive(i) <=> t.field \in live /\ IsLastOf(timers, i)
  BY IsLiveFacts
<1>5. \/ /\ Valid(t.field, t.text) /\ Committed(t) \in Filters
         /\ SetUrl(ToQuery(Committed(t))) /\ ToQuery(Committed(t)) \in Queries
      \/ ~Valid(t.field, t.text) /\ UNCHANGED <<url, overwritten>>
  <2>1. Valid(t.field, t.text) => Committed(t) \in Filters
    BY <1>2, CommittedFacts
  <2>2. Committed(t) \in Filters => ToQuery(Committed(t)) \in Queries
    BY DEF ToQuery, Queries
  <2> QED BY <2>1, <2>2 DEF Run
<1>6. TypeOK'
  <2>1. url' \in Queries /\ overwritten' \in SUBSET Inputs
    BY <1>5 DEF SetUrl, Inv, TypeOK
  <2>2. \A j \in DOMAIN timers' : timers'[j].text \in Texts(timers'[j].field)
    BY <1>3 DEF Inv, TypeOK
  <2>3. Len(timers') <= MaxTimers
    BY <1>1, <1>3, MaxTimersAssumption
  <2> QED BY <1>3, <2>1, <2>2, <2>3 DEF Inv, TypeOK
<1>7. CallsAreKnown'
  <2> SUFFICES ASSUME NEW h \in live'
               PROVE  /\ Mounted(h)'
                      /\ \E j \in DOMAIN timers' :
                           timers'[j].field = h /\ IsLastOf(timers', j)
    BY DEF Inv, CallsAreKnown, Mounted
  <2>1. h \in live /\ ~(h = t.field /\ IsLastOf(timers, i))
    BY <1>4
  <2>2. PICK k \in DOMAIN timers : timers[k].field = h /\ IsLastOf(timers, k)
    BY <2>1 DEF Inv, CallsAreKnown
  <2>3. k # i
    BY <2>1, <2>2
  <2>4. \E j \in DOMAIN timers' : timers'[j].field = h /\ IsLastOf(timers', j)
    BY <1>3, <2>2, <2>3
  <2> QED BY <2>1, <2>4 DEF Inv, CallsAreKnown, Mounted
<1>8. LiveCallsAreCurrent'
  <2> SUFFICES ASSUME NEW j \in DOMAIN timers', IsLive(j)'
               PROVE  timers'[j].snapshot = shown'.filter
    BY DEF LiveCallsAreCurrent
  <2>1. timers'[j].field \in live' /\ IsLastOf(timers', j)
    BY DEF IsLive, IsLastOf
  <2>2. PICK k \in DOMAIN timers \ {i} :
          /\ timers'[j] = timers[k]
          /\ \/ IsLastOf(timers, k)
             \/ timers[k].field = t.field /\ IsLastOf(timers, i)
    BY <1>3, <2>1
  <2>3. timers[k].field \in live /\ IsLastOf(timers, k)
    BY <1>4, <2>1, <2>2
  <2>4. timers[k].snapshot = shown.filter
    BY <2>3, IsLiveFacts DEF Inv, LiveCallsAreCurrent
  <2> QED BY <2>2, <2>4
<1>9. DraftsFollow'
  <2> SUFFICES ASSUME NEW f \in Inputs, Mounted(f)', f \notin overwritten'
               PROVE  Follows(f)'
    BY DEF DraftsFollow
  <2>1. Mounted(f) /\ f \notin overwritten
    BY <1>5 DEF Mounted, SetUrl
  <2>2. Follows(f)
    BY <2>1 DEF Inv, DraftsFollow
  <2>3. CASE \E k \in DOMAIN timers \ {i} : /\ timers[k].field = f /\ IsLastOf(timers, k)
                                            /\ draft[f] = timers[k].text
    BY <1>3, <2>3 DEF Follows
  <2>4. CASE t.field = f /\ draft[f] = t.text
    <3>1. CASE Valid(f, draft[f])
      <4>1. url'.filter[f] = Normal(draft[f])
        BY <1>2, <1>5, <2>4, <3>1, CommittedFacts DEF SetUrl, ToQuery
      <4> QED BY <4>1 DEF Follows
    <3>2. CASE ~Valid(f, draft[f])
      BY <3>2 DEF Follows
    <3> QED BY <3>1, <3>2
  <2>5. CASE \/ url.filter[f] # shown.filter[f]
             \/ Normal(draft[f]) = shown.filter[f]
             \/ ~Valid(f, draft[f])
    <3>1. CASE UNCHANGED <<url, overwritten>>
      BY <2>5, <3>1 DEF Follows
    <3> QED BY <1>5, <2>5, <3>1, SetUrlFollows DEF Inv
  <2> QED BY <2>2, <2>3, <2>4, <2>5 DEF Follows
<1>10. EditorKeepsDraft'
  BY DEF Inv, EditorKeepsDraft
<1> QED BY <1>6, <1>7, <1>8, <1>9, <1>10 DEF Inv

LEMMA TypeInv ==
  ASSUME Inv, NEW f \in Inputs, NEW text \in Texts(f), Type(f, text)
  PROVE  Inv'
<1> DEFINE new == [field |-> f, text |-> text, snapshot |-> shown.filter]
           kept == Others(f)
           n == Len(kept) + 1
<1> USE DEF Type, editorVars
<1>1. text \in AllTexts
  BY DEF Texts, AllTexts
<1>2. new \in Timers
  BY <1>1 DEF Inv, TypeOK, Queries, Timers
<1>3. kept \in Seq(Timers) /\ Len(kept) \in Nat /\ DOMAIN kept = 1..Len(kept)
  BY OthersFacts
<1>4. /\ timers' = Append(kept, new) /\ timers' \in Seq(Timers)
      /\ Len(timers') = n /\ DOMAIN timers' = 1..n
      /\ timers'[n] = new /\ \A j \in 1..Len(kept) : timers'[j] = kept[j]
  <2>1. timers' = Append(kept, new)
    OBVIOUS
  <2> HIDE DEF kept, new
  <2>2. /\ Append(kept, new) \in Seq(Timers)
        /\ Len(Append(kept, new)) = n
        /\ \A j \in 1..Len(kept) : Append(kept, new)[j] = kept[j]
        /\ Append(kept, new)[n] = new
    BY <1>2, <1>3, AppendProperties
  <2>3. DOMAIN timers' = 1..n
    BY <2>1, <2>2, LenProperties
  <2> QED BY <2>1, <2>2, <2>3
<1>5. draft' \in [Inputs -> AllTexts] /\ draft'[f] = text
      /\ \A g \in Inputs \ {f} : draft'[g] = draft[g]
  BY <1>1 DEF Inv, TypeOK
<1>6. \A k \in DOMAIN timers : timers[k].field # f /\ IsLastOf(timers, k) =>
        \E j \in 1..Len(kept) : timers'[j] = timers[k] /\ IsLastOf(timers', j)
  <2> SUFFICES ASSUME NEW k \in DOMAIN timers, timers[k].field # f, IsLastOf(timers, k)
               PROVE  \E j \in 1..Len(kept) :
                        timers'[j] = timers[k] /\ IsLastOf(timers', j)
    OBVIOUS
  <2>1. PICK j \in DOMAIN kept : kept[j] = timers[k] /\ IsLastOf(kept, j)
    BY OthersFacts
  <2>2. timers'[j] = timers[k] /\ j \in 1..Len(kept)
    BY <1>3, <1>4, <2>1
  <2>3. ASSUME NEW m \in 1..n, m > j PROVE timers'[m].field # timers'[j].field
    <3>1. CASE m = n
      BY <1>4, <2>2, <3>1
    <3>2. CASE m # n
      <4>1. m \in DOMAIN kept
        BY <1>3, <3>2
      <4> QED BY <1>3, <1>4, <2>1, <2>2, <2>3, <4>1 DEF IsLastOf
    <3> QED BY <3>1, <3>2
  <2> QED BY <1>4, <2>2, <2>3 DEF IsLastOf
<1>7. IsLastOf(timers', n) /\ n \in DOMAIN timers' /\ timers'[n] = new
  BY <1>3, <1>4 DEF IsLastOf
<1> HIDE DEF kept, n
<1>8. TypeOK'
  <2>1. \A j \in DOMAIN timers' : timers'[j].text \in Texts(timers'[j].field)
    <3> SUFFICES ASSUME NEW j \in DOMAIN timers'
                 PROVE  timers'[j].text \in Texts(timers'[j].field)
      OBVIOUS
    <3>1. CASE j = n
      BY <1>4, <3>1
    <3>2. CASE j # n
      <4>1. j \in DOMAIN kept
        BY <1>3, <1>4, <3>2 DEF n
      <4>2. PICK k \in DOMAIN timers : kept[j] = timers[k]
        BY <4>1, OthersFacts DEF kept
      <4> QED BY <1>3, <1>4, <4>1, <4>2 DEF Inv, TypeOK
    <3> QED BY <3>1, <3>2
  <2>2. \A g \in Inputs : draft'[g] \in Texts(g)
    BY <1>5 DEF Inv, TypeOK
  <2>3. Len(timers') <= MaxTimers
    BY <1>3, <1>4, MaxTimersAssumption DEF n, kept
  <2>4. live' \in SUBSET Inputs /\ overwritten' \in SUBSET Inputs /\ focus' \in Inputs
    BY DEF Inv, TypeOK
  <2> QED BY <1>4, <1>5, <2>1, <2>2, <2>3, <2>4 DEF Inv, TypeOK
<1>9. CallsAreKnown'
  <2>1. ASSUME NEW h \in live'
        PROVE  /\ Mounted(h)'
               /\ \E j \in DOMAIN timers' : timers'[j].field = h /\ IsLastOf(timers', j)
    <3>1. CASE h = f
      BY <1>7, <3>1 DEF Mounted
    <3>2. CASE h # f
      <4>1. h \in live
        BY <3>2
      <4>2. Mounted(h)'
        BY <4>1 DEF Inv, CallsAreKnown, Mounted
      <4>3. PICK k \in DOMAIN timers : timers[k].field = h /\ IsLastOf(timers, k)
        BY <4>1 DEF Inv, CallsAreKnown
      <4>4. PICK j \in 1..Len(kept) : timers'[j] = timers[k] /\ IsLastOf(timers', j)
        BY <1>6, <3>2, <4>3
      <4>5. j \in DOMAIN timers'
        BY <1>3, <1>4, <4>4 DEF n
      <4> QED BY <4>2, <4>3, <4>4, <4>5
    <3> QED BY <3>1, <3>2
  <2>2. Mounted(focus)'
    BY DEF Mounted
  <2> QED BY <2>1, <2>2 DEF CallsAreKnown
<1>10. LiveCallsAreCurrent'
  <2> SUFFICES ASSUME NEW j \in DOMAIN timers', IsLive(j)'
               PROVE  timers'[j].snapshot = shown'.filter
    BY DEF LiveCallsAreCurrent
  <2>1. timers'[j].field \in live' /\ IsLastOf(timers', j)
    BY DEF IsLive, IsLastOf
  <2>2. CASE j = n
    BY <1>4, <2>2
  <2>3. CASE j # n
    <3>1. j \in DOMAIN kept /\ j \in 1..Len(kept) /\ n > j /\ n \in DOMAIN timers'
      BY <1>3, <1>4, <2>3 DEF n
    <3>2. kept[j].field # f
      BY <1>4, <2>1, <3>1 DEF IsLastOf
    <3>3. IsLastOf(kept, j)
      <4> SUFFICES ASSUME NEW m \in DOMAIN kept, m > j PROVE kept[m].field # kept[j].field
        BY DEF IsLastOf
      <4>1. m \in DOMAIN timers' /\ m \in 1..Len(kept)
        BY <1>3, <1>4 DEF n
      <4> QED BY <1>4, <2>1, <3>1, <4>1 DEF IsLastOf
    <3>4. PICK k \in DOMAIN timers :
            kept[j] = timers[k] /\ IsLastOf(timers, k)
      BY <3>1, <3>2, <3>3, OthersFacts DEF kept
    <3>5. timers[k].field \in live
      BY <1>4, <2>1, <3>1, <3>2, <3>4
    <3>6. timers[k].snapshot = shown.filter
      BY <3>4, <3>5, IsLiveFacts DEF Inv, LiveCallsAreCurrent
    <3> QED BY <1>4, <3>1, <3>4, <3>6
  <2> QED BY <2>2, <2>3
<1>11. DraftsFollow'
  <2> SUFFICES ASSUME NEW g \in Inputs, Mounted(g)', g \notin overwritten'
               PROVE  Follows(g)'
    BY DEF DraftsFollow
  <2>1. CASE g = f
    BY <1>5, <1>7, <2>1 DEF Follows
  <2>2. CASE g # f
    <3>1. Follows(g)
      BY <2>2 DEF Inv, DraftsFollow, Mounted
    <3>2. CASE \E k \in DOMAIN timers : /\ timers[k].field = g /\ IsLastOf(timers, k)
                                        /\ draft[g] = timers[k].text
      <4>1. PICK k \in DOMAIN timers : /\ timers[k].field = g /\ IsLastOf(timers, k)
                                      /\ draft[g] = timers[k].text
        BY <3>2
      <4>2. PICK j \in 1..Len(kept) : timers'[j] = timers[k] /\ IsLastOf(timers', j)
        BY <1>6, <2>2, <4>1
      <4>3. j \in DOMAIN timers'
        BY <1>3, <1>4, <4>2 DEF n
      <4> QED BY <1>5, <2>2, <4>1, <4>2, <4>3 DEF Follows
    <3>3. CASE \/ url.filter[g] # shown.filter[g]
               \/ Normal(draft[g]) = shown.filter[g]
               \/ ~Valid(g, draft[g])
      BY <1>5, <2>2, <3>3 DEF Follows
    <3> QED BY <3>1, <3>2, <3>3 DEF Follows
  <2> QED BY <2>1, <2>2
<1>12. EditorKeepsDraft'
  BY DEF Inv, EditorKeepsDraft
<1> QED BY <1>8, <1>9, <1>10, <1>11, <1>12 DEF Inv

LEMMA BlurInv == ASSUME Inv, Blur PROVE Inv'
<1> USE DEF Blur, editorVars
<1>1. CASE focus \in live
  <2> DEFINE i == CHOOSE x \in Calls(focus) : TRUE
  <2>1. /\ i \in DOMAIN timers /\ timers[i].field = focus /\ IsLastOf(timers, i)
        /\ Others(focus) = RemoveAt(timers, i) /\ Run(timers[i])
    BY <1>1, CallsFacts DEF Others
  <2> HIDE DEF i
  <2>2. IsLive(i)
    BY <1>1, <2>1, IsLiveFacts
  <2> QED BY <1>1, <2>1, <2>2, CallInv
<1>2. CASE focus \notin live
  <2>1. TypeOK'
    BY <1>2 DEF Inv, TypeOK
  <2>2. CallsAreKnown'
    BY <1>2 DEF Inv, CallsAreKnown, Mounted, IsLastOf
  <2>3. LiveCallsAreCurrent'
    BY <1>2 DEF Inv, LiveCallsAreCurrent, IsLive
  <2>4. DraftsFollow'
    BY <1>2 DEF Inv, DraftsFollow, Mounted, Follows, IsLastOf
  <2>5. EditorKeepsDraft'
    BY DEF Inv, EditorKeepsDraft
  <2> QED BY <2>1, <2>2, <2>3, <2>4, <2>5 DEF Inv
<1> QED BY <1>1, <1>2

(* A component that mounts shows what the query holds.                          *)
LEMMA DraftsFacts ==
  ASSUME NEW q \in Queries, NEW a
  PROVE  /\ Drafts(q, a) \in [Inputs -> AllTexts]
         /\ \A f \in Inputs :
              /\ Drafts(q, a)[f] \in Texts(f)
              /\ FilterOf(f) = a => Normal(Drafts(q, a)[f]) = q.filter[f]
<1>1. q.filter \in Filters
  BY DEF Queries
<1>2. \A f \in Inputs : Empty \in Texts(f) /\ Empty \in AllTexts
  BY DEF Texts, AllTexts
<1> QED BY <1>1, <1>2, FieldFacts DEF Drafts

LEMMA SelectFilterInv ==
  ASSUME Inv, NEW a \in {"duration", "custom", "labels"}, SelectFilter(a)
  PROVE  Inv'
<1> USE DEF SelectFilter, Clicked, editorVars
<1>1. shown \in Queries
  BY DEF Inv, TypeOK
<1>2. TypeOK'
  BY <1>1, DraftsFacts DEF Inv, TypeOK
<1>3. CallsAreKnown' /\ LiveCallsAreCurrent'
  BY DEF CallsAreKnown, LiveCallsAreCurrent, IsLive
<1>4. DraftsFollow'
  BY <1>1, DraftsFacts DEF DraftsFollow, Mounted, Follows
<1>5. EditorKeepsDraft'
  BY DEF Inv, EditorKeepsDraft
<1> QED BY <1>2, <1>3, <1>4, <1>5 DEF Inv

LEMMA ToggleInv == ASSUME Inv, Toggle PROVE Inv'
<1> USE DEF Toggle, Clicked
<1>1. shown \in Queries /\ attributes' \in BOOLEAN
  BY DEF Inv, TypeOK
<1>2. doc' \in Queries
  <2>1. NoFilter \in Filters
    BY DEF NoFilter, Filters
  <2>2. ToQuery(NoFilter) \in Queries
    BY <2>1 DEF ToQuery, Queries
  <2> QED BY <1>1, <2>2 DEF Mount
<1>3. TypeOK'
  BY <1>1, <1>2, DraftsFacts DEF Inv, TypeOK
<1>4. CallsAreKnown' /\ LiveCallsAreCurrent'
  BY DEF CallsAreKnown, LiveCallsAreCurrent, IsLive
<1>5. DraftsFollow'
  BY DEF DraftsFollow, Mounted, FilterOf
<1>6. EditorKeepsDraft'
  BY DEF EditorKeepsDraft
<1> QED BY <1>3, <1>4, <1>5, <1>6 DEF Inv

LEMMA TypeQueryInv ==
  ASSUME Inv, NEW q \in Queries, TypeQuery(q)
  PROVE  Inv'
<1> USE DEF TypeQuery, inputVars
<1>1. TypeOK'
  BY DEF Inv, TypeOK
<1>2. CallsAreKnown' /\ LiveCallsAreCurrent'
  BY DEF Inv, CallsAreKnown, LiveCallsAreCurrent, Mounted, IsLastOf, IsLive
<1>3. DraftsFollow'
  BY DEF DraftsFollow, Mounted
<1>4. EditorKeepsDraft'
  BY DEF EditorKeepsDraft
<1> QED BY <1>1, <1>2, <1>3, <1>4 DEF Inv

LEMMA RenderInv == ASSUME Inv, Render PROVE Inv'
<1> USE DEF Render, editorVars
<1>1. url \in Queries /\ url.filter \in Filters
  BY DEF Inv, TypeOK, Queries
<1>2. CASE RenderInputs
  <2> USE DEF RenderInputs
  <2>1. TypeOK'
    BY <1>1, <1>2, FieldFacts DEF Inv, TypeOK
  <2>2. CallsAreKnown' /\ LiveCallsAreCurrent'
    BY <1>2 DEF Inv, CallsAreKnown, LiveCallsAreCurrent, IsLive, Mounted
  <2>3. DraftsFollow'
    <3> SUFFICES ASSUME NEW f \in Inputs, Mounted(f)', f \notin overwritten'
                 PROVE  Follows(f)'
      BY DEF DraftsFollow
    <3>1. Mounted(f)
      BY DEF Mounted
    <3>2. CASE url.filter[f] # shown.filter[f]
      <4>1. draft'[f] = url.filter[f]
        BY <1>2, <3>1, <3>2
      <4>2. Normal(draft'[f]) = shown'.filter[f]
        BY <1>1, <4>1, FieldFacts
      <4> QED BY <4>2 DEF Follows
    <3>3. CASE url.filter[f] = shown.filter[f]
      <4>1. draft'[f] = draft[f] /\ f \notin overwritten
        BY <1>2, <3>3
      <4>2. Follows(f)
        BY <3>1, <4>1 DEF Inv, DraftsFollow
      <4> QED BY <3>3, <4>1, <4>2 DEF Follows, IsLastOf
    <3> QED BY <3>2, <3>3
  <2>4. EditorKeepsDraft'
    BY <1>2 DEF EditorKeepsDraft
  <2> QED BY <2>1, <2>2, <2>3, <2>4 DEF Inv
<1>3. CASE RenderEditor
  <2> USE DEF RenderEditor
  <2>1. TypeOK'
    BY <1>1, <1>3 DEF Inv, TypeOK
  <2>2. live = {}
    BY <1>3 DEF Inv, CallsAreKnown, Mounted
  <2>3. CallsAreKnown' /\ LiveCallsAreCurrent'
    BY <1>3, <2>2 DEF Inv, CallsAreKnown, LiveCallsAreCurrent, IsLive, Mounted
  <2>4. DraftsFollow'
    BY <1>3 DEF DraftsFollow, Mounted
  <2>5. EditorKeepsDraft'
    BY <1>3 DEF Inv, EditorKeepsDraft, Rendered
  <2> QED BY <2>1, <2>3, <2>4, <2>5 DEF Inv
<1> QED BY <1>2, <1>3

LEMMA NextInv == Inv /\ [Next]_vars => Inv'
<1> SUFFICES ASSUME Inv, [Next]_vars PROVE Inv'
  OBVIOUS
<1>1. navigations \in 0..MaxNavigations /\ shown \in Queries /\ url \in Queries
  BY DEF Inv, TypeOK
<1>2. \A g \in Filters : ToQuery(g) \in Queries
  BY DEF ToQuery, Queries
<1>3. EditorTexts \subseteq Queries
  <2>1. NoFilter \in Filters /\ [NoFilter EXCEPT !.labels = "label"] \in Filters
    BY DEF NoFilter, Filters
  <2>2. [filter |-> [NoFilter EXCEPT !.labels = "label"], more |-> TRUE] \in Queries
    BY <2>1 DEF Queries
  <2> QED BY <1>2, <2>1, <2>2 DEF EditorTexts
<1>4. shown.filter \in Filters
  BY <1>1 DEF Queries
<1>5. ASSUME NEW f \in Inputs, NEW text \in Texts(f), Type(f, text) PROVE Inv'
  BY <1>5, TypeInv
<1>6. CASE Blur
  BY <1>6, BlurInv
<1>7. ASSUME NEW i \in 1..MaxTimers, Fire(i) PROVE Inv'
  BY <1>7, CallInv DEF Fire
<1>8. ASSUME NEW x \in {Empty, "label"}, PickLabel(x) PROVE Inv'
  <2>1. [shown.filter EXCEPT !.labels = x] \in Filters
    BY <1>4 DEF Filters
  <2> QED BY <1>1, <1>2, <1>8, <2>1, SetUrlInv DEF PickLabel
<1>9. CASE DeleteLabel
  <2>1. /\ [shown.filter EXCEPT !.min = Empty, !.max = Empty] \in Filters
        /\ [shown.filter EXCEPT !.custom = Empty] \in Filters
    BY <1>4 DEF Filters
  <2>2. PICK g \in Filters : SetUrl(ToQuery(g))
    BY <1>9, <2>1 DEF DeleteLabel
  <2> QED BY <1>1, <1>2, <1>9, <2>2, SetUrlInv DEF DeleteLabel
<1>10. ASSUME NEW a \in {"duration", "custom", "labels"}, SelectFilter(a) PROVE Inv'
  BY <1>10, SelectFilterInv
<1>11. CASE Toggle
  BY <1>11, ToggleInv
<1>12. ASSUME NEW q \in EditorTexts, TypeQuery(q) PROVE Inv'
  BY <1>3, <1>12, TypeQueryInv
<1>13. ASSUME NEW q \in EditorTexts, Navigate(q) PROVE Inv'
  <2>1. navigations' \in 0..MaxNavigations
    BY <1>1, <1>13, MaxNavigationsAssumption DEF Navigate
  <2> QED BY <1>3, <1>13, <2>1, SetUrlInv DEF Navigate
<1>14. CASE RunDraftQuery
  BY <1>1, <1>14, SetUrlInv DEF RunDraftQuery, Inv, TypeOK
<1>15. CASE Render
  BY <1>15, RenderInv
<1>16. CASE UNCHANGED vars
  <2> USE <1>16 DEF vars, inputVars, editorVars
  <2>1. TypeOK'
    BY DEF Inv, TypeOK
  <2>2. CallsAreKnown' /\ LiveCallsAreCurrent'
    BY DEF Inv, CallsAreKnown, LiveCallsAreCurrent, Mounted, IsLastOf, IsLive
  <2>3. DraftsFollow'
    BY DEF Inv, DraftsFollow, Mounted, Follows, IsLastOf
  <2>4. EditorKeepsDraft'
    BY DEF Inv, EditorKeepsDraft
  <2> QED BY <2>1, <2>2, <2>3, <2>4 DEF Inv
<1> QED
  BY <1>5, <1>6, <1>7, <1>8, <1>9, <1>10, <1>11, <1>12, <1>13, <1>14, <1>15, <1>16
  DEF Next

--------------------------------------------------------------------------------
(* A call that has ended. *)

(* Two calls whose removal leaves the same sequence are equal: between them     *)
(* every call is equal to its neighbour.                                        *)
LEMMA SameCallRemoved ==
  ASSUME NEW S, NEW s \in Seq(S), NEW i \in 1..Len(s), NEW k \in 1..Len(s),
         RemoveAt(s, i) = RemoveAt(s, k)
  PROVE  s[i] = s[k]
<1>1. Len(s) \in Nat
  OBVIOUS
<1>2. ASSUME NEW a \in 1..Len(s), NEW b \in 1..Len(s), a < b,
             RemoveAt(s, a) = RemoveAt(s, b)
      PROVE  s[a] = s[b]
  <2>1. \A j \in a..(b - 1) : s[j] = s[j + 1]
    <3> SUFFICES ASSUME NEW j \in a..(b - 1) PROVE s[j] = s[j + 1]
      OBVIOUS
    <3>1. j \in 1..(Len(s) - 1) /\ ~(j < a) /\ j < b
      BY <1>1, <1>2
    <3>2. RemoveAt(s, a)[j] = s[j + 1]
      BY <1>1, <3>1, RemoveAtFacts
    <3>3. RemoveAt(s, b)[j] = s[j]
      BY <1>1, <3>1, RemoveAtFacts
    <3> QED BY <1>2, <3>2, <3>3
  <2> DEFINE T == {j \in (a + 1)..b : s[j] # s[a]}
  <2>2. T = {}
    <3> SUFFICES ASSUME T # {} PROVE FALSE
      OBVIOUS
    <3>1. T \subseteq Nat
      BY <1>1
    <3>2. PICK x \in T : \A y \in T : ~(<<y, x>> \in OpToRel(<, Nat))
      BY <3>1, NatLessThanWellFounded, WFMin
    <3>3. x - 1 \notin T
      <4>1. x \in Nat /\ x - 1 \in Nat /\ x - 1 < x
        BY <1>1
      <4>2. <<x - 1, x>> \in OpToRel(<, Nat)
        BY <4>1 DEF OpToRel
      <4> QED BY <3>2, <4>2
    <3>4. x - 1 \in a..(b - 1) /\ s[x - 1] = s[x]
      <4>1. x \in (a + 1)..b
        OBVIOUS
      <4>2. x - 1 \in a..(b - 1) /\ (x - 1) + 1 = x
        BY <1>1, <4>1
      <4> QED BY <2>1, <4>2
    <3>5. x - 1 = a \/ s[x - 1] = s[a]
      BY <1>1, <3>3, <3>4
    <3> QED BY <3>2, <3>4, <3>5
  <2>3. b \in (a + 1)..b
    BY <1>1, <1>2
  <2> QED BY <2>2, <2>3
<1>3. i = k \/ i < k \/ k < i
  BY <1>1
<1> QED BY <1>2, <1>3

(* The change of a step in which a live call ends.                              *)
LEMMA EditStep ==
  ASSUME Inv, [Next]_vars, NEW i \in DOMAIN timers,
         timers' = RemoveAt(timers, i), IsLive(i), Rendered
  PROVE  \A g \in DOMAIN url.filter \ {timers[i].field} : url'.filter[g] = url.filter[g]
<1> DEFINE t == timers[i]
<1>1. timers \in Seq(Timers) /\ i \in 1..Len(timers) /\ Len(timers) \in Nat
  BY DEF Inv, TypeOK
<1>2. Len(timers') = Len(timers) - 1
  BY <1>1, RemoveAtFacts
<1>3. ASSUME NEW k \in DOMAIN timers, Run(timers[k]), timers' = RemoveAt(timers, k)
      PROVE  \A g \in DOMAIN url.filter \ {t.field} : url'.filter[g] = url.filter[g]
  <2>1. timers[k] = t
    <3>1. k \in 1..Len(timers)
      BY <1>1
    <3> QED BY <1>1, <1>3, <3>1, SameCallRemoved
  <2>2. t \in Timers /\ t.text \in Texts(t.field)
    <3>1. t \in Timers
      BY <1>1
    <3> QED BY <3>1 DEF Inv, TypeOK
  <2>3. t.snapshot = url.filter /\ url.filter \in Filters
    BY DEF Inv, LiveCallsAreCurrent, Rendered, TypeOK, Queries
  <2>4. DOMAIN url.filter = {"min", "max", "custom", "labels"}
    BY <2>3 DEF Filters
  <2>5. CASE Valid(t.field, t.text)
    <3>1. url' = ToQuery(Committed(t))
      BY <1>3, <2>1, <2>5 DEF Run, SetUrl
    <3>2. url'.filter = Committed(t)
      BY <3>1 DEF ToQuery
    <3>3. \A g \in {"min", "max", "custom", "labels"} \ {t.field} :
            Committed(t)[g] = t.snapshot[g]
      BY <2>2, <2>5, CommittedFacts
    <3> QED BY <2>3, <2>4, <3>2, <3>3
  <2>6. CASE ~Valid(t.field, t.text)
    BY <1>3, <2>1, <2>6 DEF Run
  <2> QED BY <2>5, <2>6
<1>4. timers' # timers
  BY <1>1, <1>2
<1>5. ASSUME NEW f \in Inputs, NEW text \in Texts(f), Type(f, text) PROVE FALSE
  <2>1. Others(f) \in Seq(Timers) /\ Len(timers') = Len(Others(f)) + 1
    BY <1>5, OthersFacts, AppendProperties DEF Type
  <2>2. Len(Others(f)) = Len(timers) \/ Len(Others(f)) = Len(timers) - 1
    <3>1. CASE f \in live
      <4> DEFINE k == CHOOSE x \in Calls(f) : TRUE
      <4>1. k \in DOMAIN timers /\ Others(f) = RemoveAt(timers, k)
        BY <3>1, CallsFacts DEF Others
      <4> HIDE DEF k
      <4>2. k \in 1..Len(timers)
        BY <1>1, <4>1
      <4> QED BY <1>1, <4>1, <4>2, RemoveAtFacts
    <3>2. CASE f \notin live
      BY <3>2 DEF Others
    <3> QED BY <3>1, <3>2
  <2> QED BY <1>1, <1>2, <2>1, <2>2
<1>6. CASE Blur
  <2>1. focus \in live
    BY <1>4, <1>6 DEF Blur
  <2> DEFINE k == CHOOSE x \in Calls(focus) : TRUE
  <2>2. /\ k \in DOMAIN timers /\ Run(timers[k])
        /\ timers' = RemoveAt(timers, k)
    BY <1>6, <2>1, CallsFacts DEF Blur, Others
  <2> HIDE DEF k
  <2> QED BY <1>3, <2>2
<1>7. ASSUME NEW k \in 1..MaxTimers, Fire(k)
      PROVE  \A g \in DOMAIN url.filter \ {t.field} : url'.filter[g] = url.filter[g]
  BY <1>3, <1>7 DEF Fire
<1>8. \/ \E f \in Inputs : \E text \in Texts(f) : Type(f, text)
      \/ Blur
      \/ \E k \in 1..MaxTimers : Fire(k)
  BY <1>4 DEF Next, vars, inputVars, PickLabel, DeleteLabel, SelectFilter, Toggle,
              TypeQuery, Navigate, RunDraftQuery, Render
<1> QED BY <1>5, <1>6, <1>7, <1>8

--------------------------------------------------------------------------------
(* The theorems. *)

(* Inv holds in every reachable state.                                          *)
THEOREM ToolbarInvariance == Spec => []Inv
BY InitInv, NextInv, PTL DEF Spec

(* The values of the variables never leave their types.                         *)
THEOREM ToolbarTypeCorrect == Spec => []TypeOK
BY ToolbarInvariance, PTL DEF Inv

(* A pending call of an input's present debounced function was made from the    *)
(* query on the screen.                                                         *)
THEOREM LiveCallsAreCurrentAlways == Spec => []LiveCallsAreCurrent
BY ToolbarInvariance, PTL DEF Inv

(* When such a call runs on a rendered page it changes the field that was typed *)
(* into and no other.                                                           *)
THEOREM EditChangesOneFieldAlways == Spec => EditChangesOneField
<1>1. Inv /\ [Next]_vars => [EditsOneField]_vars
  BY EditStep DEF EditsOneField
<1> QED BY <1>1, ToolbarInvariance, PTL DEF Spec, EditChangesOneField

(* An input without a pending call shows what the query holds.                  *)
THEOREM InputsSettleAlways == Spec => []InputsSettle
<1>1. Inv => InputsSettle
  BY DEF Inv, DraftsFollow, Follows, InputsSettle, Rendered
<1> QED BY <1>1, ToolbarInvariance, PTL

(* The editor shows what "Run query" would run, or the executed query would be  *)
(* run again.                                                                   *)
THEOREM EditorKeepsDraftAlways == Spec => []EditorKeepsDraft
BY ToolbarInvariance, PTL DEF Inv

(* Re-rendering the editor does not discard what was typed.                     *)
THEOREM RerenderKeepsDraftAlways == Spec => RerenderKeepsDraft
<1>1. ASSUME [Next]_vars, ~attributes, ~attributes', Rendered, draftQuery' # draftQuery
      PROVE  doc' = draftQuery'
  <2> USE <1>1 DEF editorVars
  <2>1. ASSUME NEW f \in Inputs, NEW text \in Texts(f), Type(f, text) PROVE FALSE
    BY <2>1 DEF Type
  <2>2. CASE Blur
    BY <2>2 DEF Blur
  <2>3. ASSUME NEW i \in 1..MaxTimers, Fire(i) PROVE FALSE
    BY <2>3 DEF Fire
  <2>4. ASSUME NEW x \in {Empty, "label"}, PickLabel(x) PROVE FALSE
    BY <2>4 DEF PickLabel
  <2>5. CASE DeleteLabel
    BY <2>5 DEF DeleteLabel
  <2>6. ASSUME NEW a \in {"duration", "custom", "labels"}, SelectFilter(a) PROVE FALSE
    BY <2>6 DEF SelectFilter
  <2>7. CASE Toggle
    BY <2>7 DEF Toggle
  <2>8. ASSUME NEW q \in EditorTexts, TypeQuery(q) PROVE doc' = draftQuery'
    BY <2>8 DEF TypeQuery
  <2>9. ASSUME NEW q \in EditorTexts, Navigate(q) PROVE FALSE
    BY <2>9 DEF Navigate
  <2>10. CASE RunDraftQuery
    BY <2>10 DEF RunDraftQuery
  <2>11. CASE Render
    BY <2>11 DEF Render, RenderInputs, RenderEditor
  <2>12. CASE UNCHANGED vars
    BY <2>12 DEF vars
  <2> QED
    BY <2>1, <2>2, <2>3, <2>4, <2>5, <2>6, <2>7, <2>8, <2>9, <2>10, <2>11, <2>12
    DEF Next
<1>2. [Next]_vars =>
        [~attributes /\ ~attributes' /\ Rendered /\ draftQuery' # draftQuery
           => doc' = draftQuery']_vars
  BY <1>1
<1> QED BY <1>2, PTL DEF Spec, RerenderKeepsDraft

================================================================================
