------------------------------ MODULE FilterQueryProofs ------------------------
(* Proofs about TraceQL and FilterQuery, for texts of any length.               *)
EXTENDS FilterQuery, ListProofs

--------------------------------------------------------------------------------
(* String.replaceAll. *)

(* What Replace has made of the end of a text, from each position on.           *)
Replaced(f, i, text, old, new) ==
  IF i > Len(text) THEN <<>>
  ELSE IF IsPrefix(old, SubSeq(text, i, Len(text)))
       THEN new \o f[i + Len(old)]
       ELSE <<text[i]>> \o f[i + 1]

IsReplacing(f, text, old, new) ==
  f = [i \in 1..(Len(text) + 1) |-> Replaced(f, i, text, old, new)]

(* What is a prefix of the end of a text is no longer than it.                  *)
LEMMA PrefixFits ==
  ASSUME NEW V, NEW text \in Seq(V), NEW old \in Seq(V), old # <<>>,
         NEW i \in 1..Len(text), IsPrefix(old, SubSeq(text, i, Len(text)))
  PROVE  Len(old) \in Nat \ {0} /\ i + Len(old) <= Len(text) + 1
<1>1. Len(old) \in Nat \ {0} /\ Len(text) \in Nat
  BY EmptySeq
<1>2. Len(SubSeq(text, i, Len(text))) = Len(text) - i + 1
  <2>1. \A j \in i..Len(text) : text[j] \in V
    BY ElementOfSeq, <1>1
  <2> QED BY <1>1, <2>1, SubSeqProperties
<1>3. Len(old) <= Len(text) - i + 1
  BY <1>2 DEF IsPrefix
<1> QED BY <1>1, <1>3

LEMMA ReplacingExists ==
  ASSUME NEW V, NEW text \in Seq(V), NEW old \in Seq(V), old # <<>>, NEW new
  PROVE  \E f : IsReplacing(f, text, old, new) /\ Replace(text, old, new) = f[1]
<1> DEFINE n == Len(text)
           part(f, k) == f = [i \in (n + 1 - k)..(n + 1) |-> Replaced(f, i, text, old, new)]
           X == {k \in Nat : k <= n => \E f : part(f, k)}
<1>1. n \in Nat
  BY LenProperties
<1>2. 0 \in X
  <2> DEFINE f == [i \in (n + 1)..(n + 1) |-> <<>>]
  <2>1. \A i \in (n + 1)..(n + 1) : Replaced(f, i, text, old, new) = <<>>
    BY <1>1 DEF Replaced
  <2>2. f = [i \in (n + 1 - 0)..(n + 1) |-> Replaced(f, i, text, old, new)]
    <3>1. (n + 1 - 0)..(n + 1) = (n + 1)..(n + 1)
      BY <1>1
    <3> QED BY <2>1, <3>1
  <2> HIDE DEF f
  <2>3. part(f, 0)
    BY <2>2
  <2> QED BY <2>3
<1>3. ASSUME NEW k \in X PROVE k + 1 \in X
  <2> SUFFICES ASSUME k + 1 <= n PROVE \E g : part(g, k + 1)
    OBVIOUS
  <2>1. k \in Nat /\ k <= n
    BY <1>1
  <2>2. PICK f : part(f, k)
    BY <2>1
  <2> DEFINE m == n - k
             g == [i \in m..(n + 1) |-> IF i = m THEN Replaced(f, m, text, old, new)
                                        ELSE f[i]]
  <2>3. m \in 1..n /\ n + 1 - (k + 1) = m /\ n + 1 - k = m + 1
    BY <1>1, <2>1
  <2>4. \A i \in (m + 1)..(n + 1) : f[i] = Replaced(f, i, text, old, new)
    BY <2>2, <2>3
  <2>5. \A i \in (m + 1)..(n + 1) : g[i] = f[i]
    BY <1>1, <2>3
  <2>6. \A i \in m..(n + 1) : Replaced(g, i, text, old, new) = Replaced(f, i, text, old, new)
    <3> SUFFICES ASSUME NEW i \in m..n
                 PROVE  Replaced(g, i, text, old, new) = Replaced(f, i, text, old, new)
      <4>1. \A i \in m..(n + 1) : i \in m..n \/ i > n
        BY <1>1, <2>3
      <4> QED BY <4>1 DEF Replaced
    <3> HIDE DEF g
    <3>1. i \in 1..n /\ i + 1 \in (m + 1)..(n + 1)
      BY <1>1, <2>3
    <3>2. CASE IsPrefix(old, SubSeq(text, i, Len(text)))
      <4>1. i + Len(old) \in (m + 1)..(n + 1)
        <5>1. Len(old) \in Nat \ {0} /\ i + Len(old) <= n + 1
          BY <3>1, <3>2, PrefixFits
        <5> QED BY <1>1, <2>3, <5>1
      <4> QED BY <2>5, <3>2, <4>1 DEF Replaced
    <3>3. CASE ~IsPrefix(old, SubSeq(text, i, Len(text)))
      BY <2>5, <3>1, <3>3 DEF Replaced
    <3> QED BY <3>2, <3>3
  <2>7. \A i \in m..(n + 1) : g[i] = Replaced(f, i, text, old, new)
    <3> SUFFICES ASSUME NEW i \in m..(n + 1) PROVE g[i] = Replaced(f, i, text, old, new)
      OBVIOUS
    <3>1. CASE i = m
      BY <3>1
    <3>2. CASE i # m
      <4>1. i \in (m + 1)..(n + 1)
        <5> HIDE DEF g, m
        <5> QED BY <1>1, <2>3, <3>2
      <4> QED BY <2>4, <2>5, <4>1
    <3> QED BY <3>1, <3>2
  <2>8. g = [i \in m..(n + 1) |-> Replaced(g, i, text, old, new)]
    <3>1. \A i \in m..(n + 1) : g[i] = Replaced(g, i, text, old, new)
      BY <2>6, <2>7
    <3>2. g = [i \in m..(n + 1) |-> g[i]]
      OBVIOUS
    <3> HIDE DEF g
    <3> QED BY <3>1, <3>2
  <2> HIDE DEF g
  <2>9. part(g, k + 1)
    BY <2>3, <2>8
  <2> QED BY <2>9
<1>4. \E f : IsReplacing(f, text, old, new)
  <2>1. n \in X
    <3> HIDE DEF X
    <3>1. X = Nat
      <4>1. X \in SUBSET Nat
        BY DEF X
      <4> QED BY <1>2, <1>3, <4>1, Induction
    <3> QED BY <1>1, <3>1
  <2>2. PICK f : part(f, n)
    BY <1>1, <2>1
  <2>3. n + 1 - n = 1
    BY <1>1
  <2> QED BY <2>2, <2>3 DEF IsReplacing
<1> DEFINE F == CHOOSE h : IsReplacing(h, text, old, new)
<1>5. IsReplacing(F, text, old, new)
  BY <1>4
<1>6. Replace(text, old, new) = F[1]
  BY DEF Replace, IsReplacing, Replaced
<1> QED BY <1>5, <1>6

(* Replace reads a text from left to right: a text that starts with old, and    *)
(* one that does not.                                                           *)
LEMMA ReplaceEmpty ==
  ASSUME NEW V, NEW old \in Seq(V), old # <<>>, NEW new
  PROVE  Replace(<<>>, old, new) = <<>>
<1>1. PICK f : IsReplacing(f, <<>>, old, new) /\ Replace(<<>>, old, new) = f[1]
  <2>1. <<>> \in Seq(V)
    OBVIOUS
  <2> QED BY <2>1, ReplacingExists
<1>2. 1 \in 1..(Len(<<>>) + 1) /\ 1 > Len(<<>>)
  OBVIOUS
<1>3. f[1] = Replaced(f, 1, <<>>, old, new)
  BY <1>1, <1>2 DEF IsReplacing
<1> QED BY <1>1, <1>2, <1>3 DEF Replaced

(* The rest of a text is replaced as if it stood alone.                         *)
LEMMA ReplacedRest ==
  ASSUME NEW V, NEW p \in Seq(V), NEW r \in Seq(V), NEW old \in Seq(V), old # <<>>,
         NEW new, NEW f, IsReplacing(f, p \o r, old, new)
  PROVE  f[Len(p) + 1] = Replace(r, old, new)
<1> DEFINE n == Len(r)
           k == Len(p)
           t == p \o r
<1>1. n \in Nat /\ k \in Nat
  BY LenProperties
<1>2. t \in Seq(V) /\ Len(t) = k + n /\ \A i \in 1..n : t[k + i] = r[i]
  <2>1. \A i \in 1..n : k + i \in 1..(k + n) /\ ~(k + i <= k) /\ (k + i) - k = i
    BY <1>1
  <2> QED BY <2>1, ConcatProperties
<1>3. PICK g : IsReplacing(g, r, old, new) /\ Replace(r, old, new) = g[1]
  BY ReplacingExists
<1>4. \A i \in 1..(n + 1) : g[i] = Replaced(g, i, r, old, new)
  BY <1>3 DEF IsReplacing
<1>5. \A i \in 1..(n + 1) : f[k + i] = Replaced(f, k + i, t, old, new)
  <2>1. \A i \in 1..(n + 1) : k + i \in 1..(Len(t) + 1)
    BY <1>1, <1>2
  <2> HIDE DEF t, k, n
  <2>2. \A j \in 1..(Len(t) + 1) : f[j] = Replaced(f, j, t, old, new)
    BY DEF IsReplacing, t
  <2> QED BY <2>1, <2>2
<1>6. \A i \in 1..n : SubSeq(t, k + i, Len(t)) = SubSeq(r, i, n)
  <2> SUFFICES ASSUME NEW i \in 1..n PROVE SubSeq(t, k + i, Len(t)) = SubSeq(r, i, n)
    OBVIOUS
  <2>1. k + i \in (k + 1)..(k + n) /\ k + n \in (k + 1)..(k + n)
        /\ (k + i) - k = i /\ (k + n) - k = n
    BY <1>1
  <2>2. SubSeq(t, k + i, k + n) = SubSeq(r, (k + i) - k, (k + n) - k)
    BY <2>1, SubSeqOfConcat2
  <2> QED BY <1>2, <2>1, <2>2
<1> HIDE DEF n, k, t
<1> DEFINE X == {d \in Nat : \A i \in 1..(n + 1) : n + 1 - i <= d => f[k + i] = g[i]}
<1>7. 0 \in X
  <2> SUFFICES ASSUME NEW i \in 1..(n + 1), n + 1 - i <= 0 PROVE f[k + i] = g[i]
    OBVIOUS
  <2>1. i > n /\ k + i > Len(t)
    BY <1>1, <1>2
  <2> QED BY <1>4, <1>5, <2>1 DEF Replaced, n
<1>8. ASSUME NEW d \in X PROVE d + 1 \in X
  <2> SUFFICES ASSUME NEW i \in 1..(n + 1), n + 1 - i = d + 1 PROVE f[k + i] = g[i]
    <3>1. d \in Nat
      OBVIOUS
    <3>2. \A i \in 1..(n + 1) : n + 1 - i <= d + 1 => n + 1 - i <= d \/ n + 1 - i = d + 1
      BY <1>1, <3>1
    <3> QED BY <3>2
  <2>1. d \in Nat /\ \A j \in 1..(n + 1) : n + 1 - j <= d => f[k + j] = g[j]
    OBVIOUS
  <2>2. i \in 1..n /\ ~(i > n) /\ ~(k + i > Len(t))
    BY <1>1, <1>2, <2>1
  <2>3. f[k + (i + 1)] = g[i + 1] /\ (k + i) + 1 = k + (i + 1)
    <3>1. i + 1 \in 1..(n + 1) /\ n + 1 - (i + 1) <= d /\ (k + i) + 1 = k + (i + 1)
      BY <1>1, <2>1, <2>2
    <3> QED BY <2>1, <3>1
  <2>4. t[k + i] = r[i]
    BY <1>2, <2>2
  <2>5. f[k + i] = IF IsPrefix(old, SubSeq(r, i, n)) THEN new \o f[(k + i) + Len(old)]
                   ELSE <<r[i]>> \o g[i + 1]
    BY <1>5, <1>6, <2>2, <2>3, <2>4 DEF Replaced
  <2>6. g[i] = IF IsPrefix(old, SubSeq(r, i, n)) THEN new \o g[i + Len(old)]
               ELSE <<r[i]>> \o g[i + 1]
    BY <1>4, <2>2 DEF Replaced, n
  <2>7. IsPrefix(old, SubSeq(r, i, n)) => f[(k + i) + Len(old)] = g[i + Len(old)]
    <3> SUFFICES ASSUME IsPrefix(old, SubSeq(r, i, n))
                 PROVE  f[(k + i) + Len(old)] = g[i + Len(old)]
      OBVIOUS
    <3>1. Len(old) \in Nat \ {0} /\ i + Len(old) <= n + 1
      BY <2>2, PrefixFits DEF n
    <3>2. i + Len(old) \in 1..(n + 1) /\ n + 1 - (i + Len(old)) <= d
          /\ (k + i) + Len(old) = k + (i + Len(old))
      BY <1>1, <2>1, <2>2, <3>1
    <3> QED BY <2>1, <3>2
  <2> QED BY <2>5, <2>6, <2>7
<1>9. f[k + 1] = g[1]
  <2>1. X = Nat
    <3> HIDE DEF X
    <3>1. X \in SUBSET Nat
      BY DEF X
    <3> QED BY <1>7, <1>8, <3>1, Induction
  <2>2. n \in X
    <3> HIDE DEF X
    <3> QED BY <1>1, <2>1
  <2>3. 1 \in 1..(n + 1) /\ n + 1 - 1 <= n
    BY <1>1
  <2> QED BY <2>2, <2>3
<1> QED BY <1>3, <1>9 DEF k

LEMMA ReplaceOld ==
  ASSUME NEW V, NEW r \in Seq(V), NEW old \in Seq(V), old # <<>>, NEW new
  PROVE  Replace(old \o r, old, new) = new \o Replace(r, old, new)
<1> DEFINE t == old \o r
<1>1. Len(old) \in Nat \ {0} /\ Len(r) \in Nat
  BY EmptySeq, LenProperties
<1>2. t \in Seq(V) /\ Len(t) = Len(old) + Len(r)
  BY ConcatProperties
<1>3. PICK f : IsReplacing(f, t, old, new) /\ Replace(t, old, new) = f[1]
  BY <1>2, ReplacingExists
<1>4. IsPrefix(old, SubSeq(t, 1, Len(t)))
  <2>1. SubSeq(t, 1, Len(t)) = t
    BY <1>2, SubSeqFull
  <2>2. SubSeq(t, 1, Len(old)) = SubSeq(old, 1, Len(old))
    BY <1>1, SubSeqOfConcat1
  <2>3. Len(old) <= Len(t)
    BY <1>1, <1>2
  <2> QED BY <2>1, <2>2, <2>3 DEF IsPrefix
<1>5. f[Len(old) + 1] = Replace(r, old, new)
  BY <1>3, ReplacedRest
<1> HIDE DEF t
<1>6. f[1] = Replaced(f, 1, t, old, new)
  <2>1. 1 \in 1..(Len(t) + 1)
    BY <1>1, <1>2
  <2> QED BY <1>3, <2>1 DEF IsReplacing
<1>7. ~(1 > Len(t)) /\ 1 + Len(old) = Len(old) + 1
  BY <1>1, <1>2
<1> QED BY <1>3, <1>4, <1>5, <1>6, <1>7 DEF Replaced, t

LEMMA ReplaceOther ==
  ASSUME NEW V, NEW x \in V, NEW r \in Seq(V), NEW old \in Seq(V), old # <<>>, NEW new,
         ~IsPrefix(old, <<x>> \o r)
  PROVE  Replace(<<x>> \o r, old, new) = <<x>> \o Replace(r, old, new)
<1> DEFINE t == <<x>> \o r
<1>1. <<x>> \in Seq(V) /\ Len(<<x>>) = 1 /\ Len(r) \in Nat
  BY LenProperties
<1>2. t \in Seq(V) /\ Len(t) = 1 + Len(r) /\ t[1] = x
  BY <1>1, ConcatProperties
<1>3. PICK f : IsReplacing(f, t, old, new) /\ Replace(t, old, new) = f[1]
  BY <1>2, ReplacingExists
<1>4. ~IsPrefix(old, SubSeq(t, 1, Len(t)))
  <2>1. SubSeq(t, 1, Len(t)) = t
    BY <1>2, SubSeqFull
  <2> QED BY <2>1
<1>5. f[1 + 1] = Replace(r, old, new)
  <2>1. \A p \in Seq(V) : IsReplacing(f, p \o r, old, new)
                           => f[Len(p) + 1] = Replace(r, old, new)
    BY ReplacedRest
  <2>2. PICK p : p = <<x>>
    OBVIOUS
  <2>3. p \in Seq(V) /\ Len(p) = 1 /\ IsReplacing(f, p \o r, old, new)
    BY <1>1, <1>3, <2>2
  <2>4. f[Len(p) + 1] = Replace(r, old, new)
    BY <2>1, <2>3
  <2> QED BY <2>3, <2>4
<1> HIDE DEF t
<1>6. f[1] = Replaced(f, 1, t, old, new)
  <2>1. 1 \in 1..(Len(t) + 1)
    BY <1>1, <1>2
  <2> QED BY <1>3, <2>1 DEF IsReplacing
<1>7. ~(1 > Len(t))
  BY <1>1, <1>2
<1> QED BY <1>2, <1>3, <1>4, <1>5, <1>6, <1>7 DEF Replaced, t

--------------------------------------------------------------------------------
(* Escaping and its inverse. *)

(* Two characters that are not at the front of a text.                          *)
LEMMA NotPrefix ==
  ASSUME NEW V, NEW x \in V, NEW r \in Seq(V), NEW a \in V, NEW b \in V,
         IsPrefix(<<a, b>>, <<x>> \o r)
  PROVE  x = a /\ r # <<>> /\ r[1] = b
<1> DEFINE t == <<x>> \o r
           old == <<a, b>>
<1>1. Len(r) \in Nat /\ old \in Seq(V) /\ Len(old) = 2 /\ old[1] = a /\ old[2] = b
  BY LenProperties
<1>2. t \in Seq(V) /\ Len(t) = 1 + Len(r) /\ t[1] = x
      /\ \A i \in 1..Len(r) : t[i + 1] = r[i]
  OBVIOUS
<1> HIDE DEF t, old
<1>3. 2 <= Len(t) /\ SubSeq(old, 1, 2) = SubSeq(t, 1, 2)
  BY <1>1 DEF IsPrefix, t, old
<1>4. SubSeq(t, 1, 2)[1] = t[1] /\ SubSeq(t, 1, 2)[2] = t[2]
  <2>1. \A i \in 1..2 : t[i] \in V
    BY <1>1, <1>2, <1>3
  <2> QED BY <2>1, SubSeqProperties
<1>5. SubSeq(old, 1, 2) = old
  BY <1>1, SubSeqFull
<1>6. x = a /\ t[2] = b
  BY <1>1, <1>2, <1>3, <1>4, <1>5
<1>7. 1 \in 1..Len(r) /\ t[1 + 1] = r[1]
  BY <1>1, <1>2, <1>3
<1> QED BY <1>6, <1>7

(* One character, at the front of a text or not.                                *)
LEMMA OnePrefix ==
  ASSUME NEW V, NEW x \in V, NEW r \in Seq(V), NEW a \in V, IsPrefix(<<a>>, <<x>> \o r)
  PROVE  x = a
<1> DEFINE t == <<x>> \o r
           old == <<a>>
<1>1. Len(r) \in Nat /\ old \in Seq(V) /\ Len(old) = 1 /\ old[1] = a
  BY LenProperties
<1>2. t \in Seq(V) /\ Len(t) = 1 + Len(r) /\ t[1] = x
  OBVIOUS
<1> HIDE DEF t, old
<1>3. SubSeq(old, 1, 1) = SubSeq(t, 1, 1)
  BY <1>1 DEF IsPrefix, t, old
<1>4. SubSeq(t, 1, 1)[1] = t[1]
  <2>1. \A i \in 1..1 : t[i] \in V
    BY <1>1, <1>2
  <2> QED BY <2>1, SubSeqProperties
<1>5. SubSeq(old, 1, 1) = old
  BY <1>1, SubSeqFull
<1> QED BY <1>1, <1>2, <1>3, <1>4, <1>5

(* Putting a backslash before each c: the character c becomes two, any other    *)
(* one stays, and the rest is done as if it stood alone.                        *)
Mark(text, c) == Replace(text, <<c>>, <<Backslash, c>>)

Unmark(text, c) == Replace(text, <<Backslash, c>>, <<c>>)

LEMMA MarkFacts ==
  ASSUME NEW V, NEW c \in V, Backslash \in V, NEW x \in V, NEW r \in Seq(V),
         Mark(r, c) \in Seq(V)
  PROVE  /\ x = c => Mark(Cons(x, r), c) = Cons(Backslash, Cons(c, Mark(r, c)))
         /\ x # c => Mark(Cons(x, r), c) = Cons(x, Mark(r, c))
<1> DEFINE old == <<c>>
           new == <<Backslash, c>>
<1>1. old \in Seq(V) /\ old # <<>>
  OBVIOUS
<1>2. x # c => ~IsPrefix(old, <<x>> \o r)
  BY OnePrefix
<1>3. x = c => Cons(x, r) = old \o r
  BY DEF Cons
<1> HIDE DEF old, new
<1>4. Replace(old \o r, old, new) = new \o Replace(r, old, new)
  BY <1>1, ReplaceOld
<1>5. x # c => Replace(<<x>> \o r, old, new) = <<x>> \o Replace(r, old, new)
  BY <1>1, <1>2, ReplaceOther
<1>6. new \o Mark(r, c) = Cons(Backslash, Cons(c, Mark(r, c)))
  BY TwoFirst DEF new
<1>7. Mark(r, c) = Replace(r, old, new) /\ Mark(Cons(x, r), c) = Replace(Cons(x, r), old, new)
  BY DEF Mark, old, new
<1>8. x = c => Mark(Cons(x, r), c) = Cons(Backslash, Cons(c, Mark(r, c)))
  BY <1>3, <1>4, <1>6, <1>7
<1>9. x # c => Mark(Cons(x, r), c) = Cons(x, Mark(r, c))
  BY <1>5, <1>7 DEF Cons
<1> QED BY <1>8, <1>9

LEMMA UnmarkFacts ==
  ASSUME NEW V, NEW c \in V, Backslash \in V, NEW x \in V, NEW r \in Seq(V)
  PROVE  /\ Unmark(Cons(Backslash, Cons(c, r)), c) = Cons(c, Unmark(r, c))
         /\ ~(x = Backslash /\ r # <<>> /\ r[1] = c)
              => Unmark(Cons(x, r), c) = Cons(x, Unmark(r, c))
<1> DEFINE old == <<Backslash, c>>
           new == <<c>>
<1>1. old \in Seq(V) /\ old # <<>>
  OBVIOUS
<1>2. ~(x = Backslash /\ r # <<>> /\ r[1] = c) => ~IsPrefix(old, <<x>> \o r)
  BY NotPrefix
<1>3. old \o r = Cons(Backslash, Cons(c, r))
  BY TwoFirst
<1> HIDE DEF old, new
<1>4. Replace(old \o r, old, new) = new \o Replace(r, old, new)
  BY <1>1, ReplaceOld
<1>5. ~(x = Backslash /\ r # <<>> /\ r[1] = c)
        => Replace(<<x>> \o r, old, new) = <<x>> \o Replace(r, old, new)
  BY <1>1, <1>2, ReplaceOther
<1>6. \A t : Unmark(t, c) = Replace(t, old, new)
  BY DEF Unmark, old, new
<1>7. new \o Unmark(r, c) = Cons(c, Unmark(r, c))
  BY DEF Cons, new
<1>8. Unmark(Cons(Backslash, Cons(c, r)), c) = Cons(c, Unmark(r, c))
  BY <1>3, <1>4, <1>6, <1>7
<1>9. ~(x = Backslash /\ r # <<>> /\ r[1] = c)
        => Unmark(Cons(x, r), c) = Cons(x, Unmark(r, c))
  BY <1>5, <1>6 DEF Cons
<1> QED BY <1>8, <1>9

(* What is marked and what follows from it.                                     *)
MarkedWell(text, c, V) ==
  /\ Mark(text, c) \in Seq(V)
  /\ Unmark(Mark(text, c), c) = text
  /\ c # Backslash /\ Mark(text, c) # <<>> => Mark(text, c)[1] # c

LEMMA MarkedEmpty ==
  ASSUME NEW V, NEW c \in V, Backslash \in V
  PROVE  Mark(<<>>, c) = <<>> /\ MarkedWell(<<>>, c, V)
<1>1. <<>> \in Seq(V) /\ <<c>> \in Seq(V) /\ <<Backslash, c>> \in Seq(V)
      /\ <<c>> # <<>> /\ <<Backslash, c>> # <<>>
  OBVIOUS
<1>2. Mark(<<>>, c) = <<>> /\ Unmark(<<>>, c) = <<>>
  BY <1>1, ReplaceEmpty DEF Mark, Unmark
<1> QED BY <1>1, <1>2 DEF MarkedWell

LEMMA MarkedStep ==
  ASSUME NEW V, NEW c \in V, Backslash \in V, NEW x \in V, NEW r \in Seq(V),
         MarkedWell(r, c, V)
  PROVE  MarkedWell(Cons(x, r), c, V)
<1> DEFINE m == Mark(r, c)
<1>1. m \in Seq(V) /\ Unmark(m, c) = r /\ (c # Backslash /\ m # <<>> => m[1] # c)
  BY DEF MarkedWell
<1> HIDE DEF m
<1>2. CASE x = c
  <2>1. Mark(Cons(x, r), c) = Cons(Backslash, Cons(c, m))
    BY <1>1, <1>2, MarkFacts DEF m
  <2>2. /\ Cons(Backslash, Cons(c, m)) \in Seq(V)
        /\ Cons(Backslash, Cons(c, m))[1] = Backslash
    BY <1>1, ConsFacts
  <2>3. Unmark(Cons(Backslash, Cons(c, m)), c) = Cons(c, r)
    BY <1>1, UnmarkFacts
  <2> QED BY <1>2, <2>1, <2>2, <2>3 DEF MarkedWell
<1>3. CASE x # c
  <2>1. Mark(Cons(x, r), c) = Cons(x, m)
    BY <1>1, <1>3, MarkFacts DEF m
  <2>2. Cons(x, m) \in Seq(V) /\ Cons(x, m)[1] = x
    BY <1>1, ConsFacts
  <2>3. ~(x = Backslash /\ m # <<>> /\ m[1] = c)
    BY <1>1, <1>3
  <2>4. Unmark(Cons(x, m), c) = Cons(x, r)
    BY <1>1, <2>3, UnmarkFacts
  <2> QED BY <1>3, <2>1, <2>2, <2>4 DEF MarkedWell
<1> QED BY <1>2, <1>3

LEMMA Marked ==
  ASSUME NEW V, NEW c \in V, Backslash \in V
  PROVE  \A text \in Seq(V) : MarkedWell(text, c, V)
<1> DEFINE S == {text \in Seq(V) : MarkedWell(text, c, V)}
<1>1. <<>> \in S
  BY MarkedEmpty
<1>2. ASSUME NEW x \in V, NEW r \in S PROVE Cons(x, r) \in S
  BY MarkedStep, ConsFacts
<1>3. S = Seq(V)
  <2>1. S \in SUBSET Seq(V)
    OBVIOUS
  <2> HIDE DEF S
  <2> QED BY <1>1, <1>2, <2>1, ListInduction
<1> QED BY <1>3

(* The reader of a query takes out of a string literal what the writer put in,  *)
(* for values of any length and any characters: replaceAll of two characters,   *)
(* in the one order and in the opposite one, loses nothing (escape of           *)
(* traceql_from_filter.ts, unescape of traceql_to_filter.ts).                   *)
THEOREM UnescapeEscape ==
  ASSUME NEW V, Backslash \in V, Quote \in V, NEW text \in Seq(V)
  PROVE  Escape(text) \in Seq(V) /\ Unescape(Escape(text)) = text
<1> DEFINE inner == Mark(text, Backslash)
<1>1. inner \in Seq(V) /\ Unmark(inner, Backslash) = text
  BY Marked DEF MarkedWell
<1> HIDE DEF inner
<1>2. Mark(inner, Quote) \in Seq(V) /\ Unmark(Mark(inner, Quote), Quote) = inner
  BY <1>1, Marked DEF MarkedWell
<1>3. Escape(text) = Mark(inner, Quote)
  BY DEF Escape, Mark, inner
<1>4. Unescape(Escape(text)) = Unmark(Unmark(Mark(inner, Quote), Quote), Backslash)
  BY <1>3 DEF Unescape, Unmark
<1> QED BY <1>1, <1>2, <1>3, <1>4

--------------------------------------------------------------------------------
(* Splitting a text. *)

(* What Pieces has made of the end of a text, from each position on.            *)
Cut(f, i, text, cuts) ==
  IF i > Len(text) THEN <<<<>>>>
  ELSE IF i \in cuts THEN <<<<>>>> \o f[i + 1]
  ELSE <<<<text[i]>> \o Head(f[i + 1])>> \o Tail(f[i + 1])

IsCutting(f, text, cuts) == f = [i \in 1..(Len(text) + 1) |-> Cut(f, i, text, cuts)]

LEMMA CuttingExists ==
  ASSUME NEW V, NEW text \in Seq(V), NEW cuts
  PROVE  \E f : IsCutting(f, text, cuts) /\ Pieces(text, cuts) = f[1]
<1> DEFINE n == Len(text)
           part(f, k) == f = [i \in (n + 1 - k)..(n + 1) |-> Cut(f, i, text, cuts)]
           X == {k \in Nat : k <= n => \E f : part(f, k)}
<1>1. n \in Nat
  BY LenProperties
<1>2. 0 \in X
  <2> DEFINE f == [i \in (n + 1)..(n + 1) |-> <<<<>>>>]
  <2>1. \A i \in (n + 1)..(n + 1) : Cut(f, i, text, cuts) = <<<<>>>>
    BY <1>1 DEF Cut
  <2>2. f = [i \in (n + 1 - 0)..(n + 1) |-> Cut(f, i, text, cuts)]
    <3>1. (n + 1 - 0)..(n + 1) = (n + 1)..(n + 1)
      BY <1>1
    <3> QED BY <2>1, <3>1
  <2> HIDE DEF f
  <2>3. part(f, 0)
    BY <2>2
  <2> QED BY <2>3
<1>3. ASSUME NEW k \in X PROVE k + 1 \in X
  <2> SUFFICES ASSUME k + 1 <= n PROVE \E g : part(g, k + 1)
    OBVIOUS
  <2>1. k \in Nat /\ k <= n
    BY <1>1
  <2>2. PICK f : part(f, k)
    BY <2>1
  <2> DEFINE m == n - k
             g == [i \in m..(n + 1) |-> IF i = m THEN Cut(f, m, text, cuts) ELSE f[i]]
  <2>3. m \in 1..n /\ n + 1 - (k + 1) = m /\ n + 1 - k = m + 1
    BY <1>1, <2>1
  <2>4. \A i \in (m + 1)..(n + 1) : f[i] = Cut(f, i, text, cuts)
    BY <2>2, <2>3
  <2>5. \A i \in (m + 1)..(n + 1) : g[i] = f[i]
    BY <1>1, <2>3
  <2>6. \A i \in m..(n + 1) : Cut(g, i, text, cuts) = Cut(f, i, text, cuts)
    <3>1. \A i \in m..(n + 1) : i + 1 \in (m + 1)..(n + 1) \/ i > n
      BY <1>1, <2>3
    <3> HIDE DEF g
    <3> QED BY <2>5, <3>1 DEF Cut
  <2>7. \A i \in m..(n + 1) : g[i] = Cut(f, i, text, cuts)
    <3> SUFFICES ASSUME NEW i \in m..(n + 1) PROVE g[i] = Cut(f, i, text, cuts)
      OBVIOUS
    <3>1. CASE i = m
      BY <3>1
    <3>2. CASE i # m
      <4>1. i \in (m + 1)..(n + 1)
        <5> HIDE DEF g, m
        <5> QED BY <1>1, <2>3, <3>2
      <4> QED BY <2>4, <2>5, <4>1
    <3> QED BY <3>1, <3>2
  <2>8. g = [i \in m..(n + 1) |-> Cut(g, i, text, cuts)]
    <3>1. \A i \in m..(n + 1) : g[i] = Cut(g, i, text, cuts)
      BY <2>6, <2>7
    <3>2. g = [i \in m..(n + 1) |-> g[i]]
      OBVIOUS
    <3> HIDE DEF g
    <3> QED BY <3>1, <3>2
  <2> HIDE DEF g
  <2>9. part(g, k + 1)
    BY <2>3, <2>8
  <2> QED BY <2>9
<1>4. \E f : IsCutting(f, text, cuts)
  <2>1. n \in X
    <3> HIDE DEF X
    <3>1. X = Nat
      <4>1. X \in SUBSET Nat
        BY DEF X
      <4> QED BY <1>2, <1>3, <4>1, Induction
    <3> QED BY <1>1, <3>1
  <2>2. PICK f : part(f, n)
    BY <1>1, <2>1
  <2>3. n + 1 - n = 1
    BY <1>1
  <2> QED BY <2>2, <2>3 DEF IsCutting
<1> DEFINE F == CHOOSE h : IsCutting(h, text, cuts)
<1>5. IsCutting(F, text, cuts)
  BY <1>4
<1>6. Pieces(text, cuts) = F[1]
  BY DEF Pieces, IsCutting, Cut
<1> QED BY <1>5, <1>6

LEMMA PiecesEmpty ==
  ASSUME NEW cuts
  PROVE  Pieces(<<>>, cuts) = <<<<>>>>
<1>1. PICK f : IsCutting(f, <<>>, cuts) /\ Pieces(<<>>, cuts) = f[1]
  <2>1. <<>> \in Seq(Nat)
    OBVIOUS
  <2> QED BY <2>1, CuttingExists
<1>2. 1 \in 1..(Len(<<>>) + 1) /\ 1 > Len(<<>>)
  OBVIOUS
<1>3. f[1] = Cut(f, 1, <<>>, cuts)
  BY <1>1, <1>2 DEF IsCutting
<1> QED BY <1>1, <1>2, <1>3 DEF Cut

(* The pieces ps with x at the front of the first one.                          *)
Longer(x, ps) == Cons(Cons(x, Head(ps)), Tail(ps))

(* The first character is cut off or put before the first piece of the rest.    *)
LEMMA PiecesStep ==
  ASSUME NEW V, NEW x \in V, NEW r \in Seq(V), NEW cuts, NEW rest,
         \A i \in 1..Len(r) : i \in rest <=> i + 1 \in cuts
  PROVE  /\ 1 \in cuts => Pieces(Cons(x, r), cuts) = Cons(<<>>, Pieces(r, rest))
         /\ 1 \notin cuts => Pieces(Cons(x, r), cuts) = Longer(x, Pieces(r, rest))
<1> DEFINE n == Len(r)
           t == <<x>> \o r
<1>1. n \in Nat
  BY LenProperties
<1>2. t \in Seq(V) /\ Len(t) = n + 1 /\ t[1] = x /\ \A i \in 1..n : t[i + 1] = r[i]
  OBVIOUS
<1> HIDE DEF t
<1>3. PICK f : IsCutting(f, t, cuts) /\ Pieces(t, cuts) = f[1]
  BY <1>2, CuttingExists
<1>4. PICK g : IsCutting(g, r, rest) /\ Pieces(r, rest) = g[1]
  BY CuttingExists
<1>5. \A i \in 1..(n + 2) : f[i] = Cut(f, i, t, cuts)
  <2>1. 1..(n + 2) = 1..(Len(t) + 1)
    BY <1>1, <1>2
  <2> QED BY <1>3, <2>1 DEF IsCutting
<1>6. \A i \in 1..(n + 1) : g[i] = Cut(g, i, r, rest)
  BY <1>4 DEF IsCutting
<1>7. \A i \in 1..n : i \in rest <=> i + 1 \in cuts
  OBVIOUS
<1> HIDE DEF n
<1> DEFINE X == {d \in Nat : \A i \in 1..(n + 1) : n + 1 - i <= d => f[i + 1] = g[i]}
<1>8. 0 \in X
  <2> SUFFICES ASSUME NEW i \in 1..(n + 1), n + 1 - i <= 0 PROVE f[i + 1] = g[i]
    OBVIOUS
  <2>1. i > n /\ i + 1 > Len(t) /\ i + 1 \in 1..(n + 2)
    BY <1>1, <1>2
  <2> QED BY <1>5, <1>6, <2>1 DEF Cut, n
<1>9. ASSUME NEW d \in X PROVE d + 1 \in X
  <2>1. d \in Nat /\ \A j \in 1..(n + 1) : n + 1 - j <= d => f[j + 1] = g[j]
    OBVIOUS
  <2> SUFFICES ASSUME NEW i \in 1..(n + 1), n + 1 - i = d + 1 PROVE f[i + 1] = g[i]
    <3>1. \A i \in 1..(n + 1) : n + 1 - i <= d + 1 => n + 1 - i <= d \/ n + 1 - i = d + 1
      BY <1>1, <2>1
    <3> QED BY <2>1, <3>1
  <2>2. i \in 1..n /\ ~(i > n) /\ ~(i + 1 > Len(t)) /\ i + 1 \in 1..(n + 2)
    BY <1>1, <1>2, <2>1
  <2>3. f[(i + 1) + 1] = g[i + 1]
    <3>1. i + 1 \in 1..(n + 1) /\ n + 1 - (i + 1) <= d
      BY <1>1, <2>1, <2>2
    <3> QED BY <2>1, <3>1
  <2>4. t[i + 1] = r[i] /\ (i \in rest <=> i + 1 \in cuts)
    BY <1>2, <1>7, <2>2
  <2> QED BY <1>5, <1>6, <2>2, <2>3, <2>4 DEF Cut, n
<1>10. f[1 + 1] = g[1]
  <2>1. X = Nat
    <3> HIDE DEF X
    <3>1. X \in SUBSET Nat
      BY DEF X
    <3> QED BY <1>8, <1>9, <3>1, Induction
  <2>2. n \in X
    <3> HIDE DEF X
    <3> QED BY <1>1, <2>1
  <2>3. 1 \in 1..(n + 1) /\ n + 1 - 1 <= n
    BY <1>1
  <2> QED BY <2>2, <2>3
<1>11. 1 \in 1..(n + 2) /\ ~(1 > Len(t))
  BY <1>1, <1>2
<1>12. f[1] = Cut(f, 1, t, cuts)
  BY <1>5, <1>11
<1> QED BY <1>2, <1>3, <1>4, <1>10, <1>11, <1>12 DEF Cut, t, Cons, Longer

(* String.split reads a text from left to right.                                *)
LEMMA SplitEmpty ==
  ASSUME NEW c
  PROVE  Split(<<>>, c) = <<<<>>>>
BY PiecesEmpty DEF Split

LEMMA SplitFacts ==
  ASSUME NEW V, NEW c, NEW x \in V, NEW r \in Seq(V)
  PROVE  /\ x = c => Split(Cons(x, r), c) = Cons(<<>>, Split(r, c))
         /\ x # c => Split(Cons(x, r), c) = Longer(x, Split(r, c))
<1> DEFINE t == Cons(x, r)
           cuts == {i \in DOMAIN t : t[i] = c}
           rest == {i \in DOMAIN r : r[i] = c}
<1>1. Len(r) \in Nat /\ DOMAIN r = 1..Len(r)
  OBVIOUS
<1>2. DOMAIN t = 1..(Len(r) + 1) /\ t[1] = x /\ \A i \in 1..Len(r) : t[i + 1] = r[i]
  <2> HIDE DEF t
  <2>1. t \in Seq(V) /\ Len(t) = Len(r) + 1 /\ t[1] = x /\ \A i \in 1..Len(r) : t[i + 1] = r[i]
    BY ConsFacts DEF t
  <2> QED BY <2>1
<1> HIDE DEF t
<1>3. \A i \in 1..Len(r) : i \in rest <=> i + 1 \in cuts
  BY <1>1, <1>2
<1>4. 1 \in cuts <=> x = c
  BY <1>1, <1>2
<1> HIDE DEF cuts, rest
<1>5. /\ 1 \in cuts => Pieces(Cons(x, r), cuts) = Cons(<<>>, Pieces(r, rest))
      /\ 1 \notin cuts => Pieces(Cons(x, r), cuts) = Longer(x, Pieces(r, rest))
  BY <1>3, PiecesStep
<1>6. Split(t, c) = Pieces(Cons(x, r), cuts) /\ Split(r, c) = Pieces(r, rest)
  BY DEF Split, t, cuts, rest
<1> QED BY <1>4, <1>5, <1>6 DEF t

LEMMA LongerFacts ==
  ASSUME NEW V, NEW x \in V, NEW ps \in Seq(Seq(V)), ps # <<>>
  PROVE  /\ Longer(x, ps) \in Seq(Seq(V)) /\ Longer(x, ps) # <<>>
         /\ \A v \in Seq(V) : Longer(x, Append(ps, v)) = Append(Longer(x, ps), v)
<1>1. PICK T : T = Seq(V)
  OBVIOUS
<1> DEFINE h == Cons(x, Head(ps))
           q == Tail(ps)
<1>2. Head(ps) \in T /\ q \in Seq(T)
  BY <1>1, HeadTailProperties
<1>3. h \in T
  BY <1>1, <1>2, ConsFacts
<1> HIDE DEF h, q
<1>4. Cons(h, q) \in Seq(T) /\ Cons(h, q) # <<>>
  BY <1>2, <1>3, ConsFacts
<1>5. ASSUME NEW v \in T PROVE Longer(x, Append(ps, v)) = Append(Cons(h, q), v)
  <2>1. ps \in Seq(T) /\ ps # <<>>
    BY <1>1
  <2>2. Head(Append(ps, v)) = Head(ps) /\ Tail(Append(ps, v)) = Append(Tail(ps), v)
    BY <2>1, HeadTailAppend
  <2>3. Cons(h, Append(q, v)) = Append(Cons(h, q), v)
    BY <1>2, <1>3, ConsAppend
  <2> QED BY <2>2, <2>3 DEF Longer, h, q
<1> QED BY <1>1, <1>4, <1>5 DEF Longer, h, q

LEMMA SplitType ==
  ASSUME NEW V, NEW c, NEW text \in Seq(V)
  PROVE  Split(text, c) \in Seq(Seq(V)) /\ Split(text, c) # <<>>
<1> DEFINE typed(t) == Split(t, c) \in Seq(Seq(V)) /\ Split(t, c) # <<>>
           S == {t \in Seq(V) : typed(t)}
<1>1. <<>> \in S
  <2>1. <<>> \in Seq(V) /\ <<<<>>>> \in Seq(Seq(V)) /\ <<<<>>>> # <<>>
    OBVIOUS
  <2> QED BY <2>1, SplitEmpty
<1>2. ASSUME NEW x \in V, NEW r \in Seq(V), typed(r) PROVE typed(Cons(x, r))
  <2> DEFINE ps == Split(r, c)
  <2>1. ps \in Seq(Seq(V)) /\ ps # <<>>
    BY <1>2
  <2>2. /\ x = c => Split(Cons(x, r), c) = Cons(<<>>, ps)
        /\ x # c => Split(Cons(x, r), c) = Longer(x, ps)
    BY SplitFacts
  <2> HIDE DEF ps
  <2>3. Longer(x, ps) \in Seq(Seq(V)) /\ Longer(x, ps) # <<>>
    BY <2>1, LongerFacts
  <2>4. PICK T : T = Seq(V)
    OBVIOUS
  <2>5. <<>> \in T /\ ps \in Seq(T)
    BY <2>1, <2>4
  <2>6. Cons(<<>>, ps) \in Seq(T) /\ Cons(<<>>, ps) # <<>>
    BY <2>5, ConsFacts
  <2> QED BY <2>2, <2>3, <2>4, <2>6
<1>3. S = Seq(V)
  <2>1. S \in SUBSET Seq(V)
    OBVIOUS
  <2>2. \A x \in V, r \in S : Cons(x, r) \in S
    <3> HIDE DEF typed
    <3> QED BY <1>2, ConsFacts
  <2> HIDE DEF S
  <2> QED BY <1>1, <2>1, <2>2, ListInduction
<1> QED BY <1>3

(* A text without the separator is one piece; what follows the last separator   *)
(* is the last one.                                                             *)
LEMMA SplitPlain ==
  ASSUME NEW V, NEW c, NEW text \in Seq(V), c \notin Range(text)
  PROVE  Split(text, c) = <<text>>
<1> DEFINE whole(t) == c \notin Range(t) => Split(t, c) = <<t>>
           S == {t \in Seq(V) : whole(t)}
<1>1. <<>> \in S
  BY SplitEmpty
<1>2. ASSUME NEW x \in V, NEW r \in Seq(V), whole(r) PROVE whole(Cons(x, r))
  <2> SUFFICES ASSUME c \notin Range(Cons(x, r)) PROVE Split(Cons(x, r), c) = <<Cons(x, r)>>
    OBVIOUS
  <2>1. x # c /\ c \notin Range(r)
    BY ConsFacts
  <2>2. Split(Cons(x, r), c) = Longer(x, Split(r, c))
    BY <2>1, SplitFacts
  <2>3. Split(r, c) = <<r>>
    BY <1>2, <2>1
  <2>4. Longer(x, <<r>>) = <<Cons(x, r)>>
    <3>1. Head(<<r>>) = r /\ Tail(<<r>>) = <<>>
      OBVIOUS
    <3>2. \A h : Cons(h, <<>>) = <<h>>
      BY DEF Cons
    <3> QED BY <3>1, <3>2 DEF Longer
  <2> QED BY <2>2, <2>3, <2>4
<1>3. S = Seq(V)
  <2>1. S \in SUBSET Seq(V)
    OBVIOUS
  <2>2. \A x \in V, r \in S : Cons(x, r) \in S
    <3> HIDE DEF whole
    <3> QED BY <1>2, ConsFacts
  <2> HIDE DEF S
  <2> QED BY <1>1, <2>1, <2>2, ListInduction
<1> QED BY <1>3

LEMMA SplitLast ==
  ASSUME NEW V, NEW c \in V, NEW text \in Seq(V), NEW v \in Seq(V), c \notin Range(v)
  PROVE  Split(Cat(text, Cons(c, v)), c) = Append(Split(text, c), v)
<1> DEFINE w == Cons(c, v)
           ends(t) == Split(Cat(t, w), c) = Append(Split(t, c), v)
           S == {t \in Seq(V) : ends(t)}
<1>1. w \in Seq(V)
  BY ConsFacts
<1>2. <<>> \in S
  <2>1. Split(w, c) = Cons(<<>>, Split(v, c))
    BY SplitFacts
  <2>2. Split(v, c) = <<v>>
    BY SplitPlain
  <2> HIDE DEF w
  <2>3. Cat(<<>>, w) = w /\ <<>> \in Seq(V)
    BY <1>1, CatEmpty
  <2>4. Append(<<<<>>>>, v) = Cons(<<>>, <<v>>)
    BY DEF Cons
  <2> QED BY <2>1, <2>2, <2>3, <2>4, SplitEmpty
<1> HIDE DEF w
<1>3. \A x \in V, r \in Seq(V) : Cat(Cons(x, r), w) = Cons(x, Cat(r, w))
  BY <1>1, ConsCat
<1>4. ASSUME NEW x \in V, NEW r \in Seq(V), ends(r) PROVE ends(Cons(x, r))
  <2>1. PICK T : T = Seq(V)
    OBVIOUS
  <2> DEFINE ps == Split(r, c)
             u == Cat(r, w)
  <2>2. u \in Seq(V) /\ Cat(Cons(x, r), w) = Cons(x, u)
    <3>1. u \in Seq(V)
      BY <1>1, CatFacts
    <3>2. Cat(Cons(x, r), w) = Cons(x, u)
      BY <1>3
    <3> QED BY <3>1, <3>2
  <2>3. Split(u, c) = Append(ps, v)
    BY <1>4
  <2>4. ps \in Seq(Seq(V)) /\ ps # <<>>
    BY SplitType
  <2>5. /\ x = c => Split(Cons(x, r), c) = Cons(<<>>, ps)
        /\ x # c => Split(Cons(x, r), c) = Longer(x, ps)
    BY SplitFacts
  <2> HIDE DEF ps, u
  <2>6. /\ x = c => Split(Cons(x, u), c) = Cons(<<>>, Append(ps, v))
        /\ x # c => Split(Cons(x, u), c) = Longer(x, Append(ps, v))
    <3>1. /\ x = c => Split(Cons(x, u), c) = Cons(<<>>, Split(u, c))
          /\ x # c => Split(Cons(x, u), c) = Longer(x, Split(u, c))
      BY <2>2, SplitFacts
    <3> QED BY <2>3, <3>1
  <2>7. Longer(x, Append(ps, v)) = Append(Longer(x, ps), v)
    BY <2>4, LongerFacts
  <2>8. Cons(<<>>, Append(ps, v)) = Append(Cons(<<>>, ps), v)
    <3>1. ps \in Seq(T) /\ <<>> \in T /\ v \in T
      BY <2>1, <2>4
    <3> QED BY <3>1, ConsAppend
  <2> QED BY <2>2, <2>5, <2>6, <2>7, <2>8
<1>5. S = Seq(V)
  <2>1. S \in SUBSET Seq(V)
    OBVIOUS
  <2>2. \A x \in V, r \in S : Cons(x, r) \in S
    <3> HIDE DEF ends
    <3> QED BY <1>4, ConsFacts
  <2> HIDE DEF S
  <2> QED BY <1>2, <2>1, <2>2, ListInduction
<1> QED BY <1>5 DEF w

--------------------------------------------------------------------------------
(* Joining texts. *)

LEMMA JoinOne ==
  ASSUME NEW V, NEW v \in Seq(V), NEW c
  PROVE  Join(<<>>, c) = <<>> /\ Join(<<v>>, c) = v
<1> DEFINE parts(texts) == [i \in DOMAIN texts |->
                              IF i = 1 THEN texts[i] ELSE <<c>> \o texts[i]]
<1>1. parts(<<>>) = <<>>
  OBVIOUS
<1>2. parts(<<v>>) = <<v>>
  OBVIOUS
<1>3. \A texts : Join(texts, c) = FlattenSeq(parts(texts))
  BY DEF Join
<1> HIDE DEF parts
<1>4. FlattenSeq(<<v>>) = v
  BY FlattenOne
<1> QED BY <1>1, <1>2, <1>3, <1>4, FlattenEmpty

LEMMA JoinAppend ==
  ASSUME NEW V, NEW c \in V, NEW s \in Seq(Seq(V)), s # <<>>, NEW v \in Seq(V)
  PROVE  Join(Append(s, v), c) = Cat(Join(s, c), Cons(c, v))
<1> DEFINE parts(texts) == [i \in DOMAIN texts |->
                              IF i = 1 THEN texts[i] ELSE Cons(c, texts[i])]
           n == Len(s)
           a == Append(s, v)
           p == parts(s)
           q == Append(p, Cons(c, v))
<1>0. PICK T : T = Seq(V)
  OBVIOUS
<1>1. n \in Nat \ {0} /\ DOMAIN s = 1..n /\ \A i \in 1..n : s[i] \in T
  <2>1. s \in Seq(T)
    BY <1>0
  <2> QED BY <2>1, EmptySeq, LenProperties, ElementOfSeq
<1>2. /\ a \in Seq(T) /\ Len(a) = n + 1 /\ DOMAIN a = 1..(n + 1)
      /\ a[n + 1] = v /\ \A i \in 1..n : a[i] = s[i]
  <2>1. s \in Seq(T) /\ v \in T
    BY <1>0
  <2>2. a \in Seq(T) /\ Len(a) = n + 1 /\ a[n + 1] = v /\ \A i \in 1..n : a[i] = s[i]
    BY <2>1, AppendProperties
  <2> QED BY <2>2, LenProperties
<1>3. \A t \in T : Cons(c, t) \in T
  BY <1>0, ConsFacts
<1> HIDE DEF a, n
<1>4. p \in Seq(T) /\ Len(p) = n
  <2>1. \A i \in 1..n : p[i] \in T
    BY <1>1, <1>3
  <2>2. p = [i \in 1..n |-> p[i]]
    BY <1>1
  <2> HIDE DEF p, q, parts
  <2>3. p \in [1..n -> T]
    BY <2>1, <2>2
  <2> QED BY <1>1, <2>3
<1>5. parts(a) = q
  <2>1. /\ q \in Seq(T) /\ Len(q) = n + 1 /\ q[n + 1] = Cons(c, v)
        /\ \A i \in 1..n : q[i] = p[i]
    <3>1. Cons(c, v) \in T
      BY <1>0, <1>3
    <3> HIDE DEF p
    <3> QED BY <1>4, <3>1, AppendProperties
  <2>2. \A i \in 1..n : p[i] = IF i = 1 THEN s[i] ELSE Cons(c, s[i])
    BY <1>1
  <2> DEFINE b == parts(a)
  <2>3. \A i \in 1..(n + 1) : b[i] = IF i = 1 THEN a[i] ELSE Cons(c, a[i])
    BY <1>2
  <2>4. b = [i \in 1..(n + 1) |-> b[i]]
    BY <1>2
  <2> HIDE DEF b, q, p
  <2>5. \A i \in 1..(n + 1) : b[i] = q[i]
    <3>1. \A i \in 1..(n + 1) : i \in 1..n \/ (i = n + 1 /\ i # 1)
      BY <1>1
    <3> QED BY <1>2, <2>1, <2>2, <2>3, <3>1
  <2>6. q = [i \in 1..(n + 1) |-> q[i]]
    BY <1>1, <2>1
  <2>7. b = q
    <3> HIDE DEF parts
    <3>1. [i \in 1..(n + 1) |-> b[i]] = [i \in 1..(n + 1) |-> q[i]]
      BY <2>5
    <3> QED BY <2>4, <2>6, <3>1
  <2> QED BY <2>7 DEF b
<1>6. \A texts : Join(texts, c) = FlattenSeq(parts(texts))
  BY DEF Join, Cons
<1> HIDE DEF parts
<1>7. FlattenSeq(q) = Cat(FlattenSeq(p), Cons(c, v))
  <2>1. p \in Seq(Seq(V)) /\ Cons(c, v) \in Seq(V)
    BY <1>0, <1>3, <1>4
  <2> HIDE DEF p
  <2> QED BY <2>1, FlattenAppend DEF Cat
<1> QED BY <1>5, <1>6, <1>7 DEF a

LEMMA JoinType ==
  ASSUME NEW V, NEW c \in V, NEW texts \in Seq(Seq(V))
  PROVE  Join(texts, c) \in Seq(V)
<1> DEFINE S == {s \in Seq(Seq(V)) : Join(s, c) \in Seq(V)}
<1>1. <<>> \in S
  <2>1. <<>> \in Seq(Seq(V)) /\ <<>> \in Seq(V)
    OBVIOUS
  <2> QED BY <2>1, JoinOne
<1>2. ASSUME NEW s \in S, NEW v \in Seq(V) PROVE Append(s, v) \in S
  <2>1. s \in Seq(Seq(V)) /\ Join(s, c) \in Seq(V)
    OBVIOUS
  <2>2. Append(s, v) \in Seq(Seq(V))
    BY <2>1, AppendProperties
  <2>3. CASE s = <<>>
    <3>1. Append(s, v) = <<v>>
      BY <2>3
    <3> QED BY <2>2, <3>1, JoinOne
  <2>4. CASE s # <<>>
    <3>1. Join(Append(s, v), c) = Cat(Join(s, c), Cons(c, v))
      BY <2>1, <2>4, JoinAppend
    <3>2. Cons(c, v) \in Seq(V)
      BY ConsFacts
    <3> QED BY <2>1, <2>2, <3>1, <3>2, CatFacts
  <2> QED BY <2>3, <2>4
<1>3. S = Seq(Seq(V))
  <2>1. S \in SUBSET Seq(Seq(V))
    OBVIOUS
  <2> HIDE DEF S
  <2> QED BY <1>1, <1>2, <2>1, ListInduction
<1> QED BY <1>3

(* What was joined by a character that no text holds is split into the texts.   *)
LEMMA SplitJoin ==
  ASSUME NEW V, NEW c \in V, NEW texts \in Seq(Seq(V)), texts # <<>>,
         \A i \in DOMAIN texts : c \notin Range(texts[i])
  PROVE  Split(Join(texts, c), c) = texts
<1> DEFINE free(s) == \A i \in DOMAIN s : c \notin Range(s[i])
           S == {s \in Seq(Seq(V)) : s # <<>> /\ free(s) => Split(Join(s, c), c) = s}
<1>1. <<>> \in S
  OBVIOUS
<1>2. ASSUME NEW s \in S, NEW v \in Seq(V) PROVE Append(s, v) \in S
  <2>1. s \in Seq(Seq(V)) /\ (s # <<>> /\ free(s) => Split(Join(s, c), c) = s)
    OBVIOUS
  <2>2. Append(s, v) \in Seq(Seq(V))
    BY <2>1, AppendProperties
  <2> SUFFICES ASSUME free(Append(s, v)) PROVE Split(Join(Append(s, v), c), c) = Append(s, v)
    BY <2>2
  <2>3. free(s) /\ c \notin Range(v)
    <3>1. PICK T : T = Seq(V)
      OBVIOUS
    <3> DEFINE a == Append(s, v)
    <3>2. /\ Len(a) = Len(s) + 1 /\ a[Len(s) + 1] = v
          /\ \A i \in 1..Len(s) : a[i] = s[i]
      BY <2>1, <3>1, AppendProperties
    <3>3. Len(s) \in Nat /\ DOMAIN s = 1..Len(s) /\ DOMAIN a = 1..Len(a)
      BY <2>1, <2>2, LenProperties
    <3> HIDE DEF a
    <3>4. Len(s) + 1 \in DOMAIN a /\ \A i \in DOMAIN s : i \in DOMAIN a
      BY <3>2, <3>3
    <3>5. \A i \in DOMAIN a : c \notin Range(a[i])
      BY DEF a
    <3> QED BY <3>2, <3>3, <3>4, <3>5
  <2>4. CASE s = <<>>
    <3>1. Append(s, v) = <<v>>
      BY <2>4
    <3> QED BY <2>3, <3>1, JoinOne, SplitPlain
  <2>5. CASE s # <<>>
    <3>1. Join(Append(s, v), c) = Cat(Join(s, c), Cons(c, v))
      BY <2>1, <2>5, JoinAppend
    <3>2. Join(s, c) \in Seq(V)
      BY <2>1, JoinType
    <3> HIDE DEF free
    <3> QED BY <2>1, <2>3, <2>5, <3>1, <3>2, SplitLast
  <2> QED BY <2>4, <2>5
<1>3. S = Seq(Seq(V))
  <2>1. S \in SUBSET Seq(Seq(V))
    OBVIOUS
  <2> HIDE DEF S
  <2> QED BY <1>1, <1>2, <2>1, ListInduction
<1>4. texts \in S
  <2> HIDE DEF S
  <2> QED BY <1>3
<1> QED BY <1>4

--------------------------------------------------------------------------------
(* Several values in one literal. *)

LEMMA MarkCat ==
  ASSUME NEW V, NEW c \in V, Backslash \in V, NEW text \in Seq(V), NEW w \in Seq(V)
  PROVE  Mark(Cat(text, w), c) = Cat(Mark(text, c), Mark(w, c))
<1> DEFINE apart(t) == Mark(Cat(t, w), c) = Cat(Mark(t, c), Mark(w, c))
           S == {t \in Seq(V) : apart(t)}
           m == Mark(w, c)
<1>1. \A t \in Seq(V) : Mark(t, c) \in Seq(V)
  BY Marked DEF MarkedWell
<1>2. <<>> \in S
  <2>1. Cat(<<>>, w) = w /\ Cat(<<>>, m) = m
    BY <1>1, CatEmpty
  <2> QED BY <2>1, MarkedEmpty
<1>3. ASSUME NEW x \in V, NEW r \in Seq(V), apart(r) PROVE apart(Cons(x, r))
  <2> DEFINE u == Cat(r, w)
             n == Mark(r, c)
  <2>1. u \in Seq(V) /\ Cat(Cons(x, r), w) = Cons(x, u)
    BY CatFacts, ConsCat
  <2>2. n \in Seq(V) /\ m \in Seq(V) /\ Mark(u, c) = Cat(n, m) /\ Mark(u, c) \in Seq(V)
    BY <1>1, <1>3, <2>1
  <2> HIDE DEF u, n, m
  <2>3. CASE x = c
    <3>1. Mark(Cons(x, u), c) = Cons(Backslash, Cons(c, Mark(u, c)))
      BY <2>1, <2>2, <2>3, MarkFacts
    <3>2. Mark(Cons(x, r), c) = Cons(Backslash, Cons(c, n))
      BY <2>2, <2>3, MarkFacts DEF n
    <3>3. Cat(Cons(c, n), m) = Cons(c, Cat(n, m)) /\ Cons(c, n) \in Seq(V)
      BY <2>2, ConsCat, ConsFacts
    <3>4. Cat(Cons(Backslash, Cons(c, n)), m) = Cons(Backslash, Cat(Cons(c, n), m))
      BY <2>2, <3>3, ConsCat
    <3> QED BY <2>1, <2>2, <3>1, <3>2, <3>3, <3>4 DEF m
  <2>4. CASE x # c
    <3>1. Mark(Cons(x, u), c) = Cons(x, Mark(u, c))
      BY <2>1, <2>2, <2>4, MarkFacts
    <3>2. Mark(Cons(x, r), c) = Cons(x, n)
      BY <2>2, <2>4, MarkFacts DEF n
    <3>3. Cat(Cons(x, n), m) = Cons(x, Cat(n, m))
      BY <2>2, ConsCat
    <3> QED BY <2>1, <2>2, <3>1, <3>2, <3>3 DEF m
  <2> QED BY <2>3, <2>4
<1>4. S = Seq(V)
  <2>1. S \in SUBSET Seq(V)
    OBVIOUS
  <2>2. \A x \in V, r \in S : Cons(x, r) \in S
    <3> HIDE DEF apart
    <3> QED BY <1>3, ConsFacts
  <2> HIDE DEF S
  <2> QED BY <1>2, <2>1, <2>2, ListInduction
<1> QED BY <1>4

LEMMA EscapeIsMark == \A text : Escape(text) = Mark(Mark(text, Backslash), Quote)
BY DEF Escape, Mark

(* Characters are escaped one by one, and a bar stays a bar.                    *)
LEMMA EscapeCat ==
  ASSUME NEW V, Backslash \in V, Quote \in V, NEW text \in Seq(V), NEW w \in Seq(V)
  PROVE  Escape(Cat(text, w)) = Cat(Escape(text), Escape(w))
<1>1. \A t \in Seq(V) : Mark(t, Backslash) \in Seq(V)
  BY Marked DEF MarkedWell
<1>2. Mark(Cat(text, w), Backslash) = Cat(Mark(text, Backslash), Mark(w, Backslash))
  BY MarkCat
<1>3. Mark(Cat(Mark(text, Backslash), Mark(w, Backslash)), Quote)
        = Cat(Mark(Mark(text, Backslash), Quote), Mark(Mark(w, Backslash), Quote))
  BY <1>1, MarkCat
<1> QED BY <1>2, <1>3, EscapeIsMark

LEMMA EscapeBar ==
  ASSUME NEW V, Backslash \in V, Quote \in V, Bar \in V, NEW text \in Seq(V)
  PROVE  Escape(Cons(Bar, text)) = Cons(Bar, Escape(text))
<1>1. Bar # Backslash /\ Bar # Quote
  BY DEF Bar, Backslash, Quote
<1>2. \A c \in V : \A t \in Seq(V) : Mark(t, c) \in Seq(V)
  BY Marked DEF MarkedWell
<1>3. Mark(Cons(Bar, text), Backslash) = Cons(Bar, Mark(text, Backslash))
  BY <1>1, <1>2, MarkFacts
<1>4. Mark(text, Backslash) \in Seq(V) /\ Mark(Mark(text, Backslash), Quote) \in Seq(V)
  BY <1>2
<1>5. Mark(Cons(Bar, Mark(text, Backslash)), Quote)
        = Cons(Bar, Mark(Mark(text, Backslash), Quote))
  BY <1>1, <1>4, MarkFacts
<1> QED BY <1>3, <1>5, EscapeIsMark

LEMMA EscapeJoin ==
  ASSUME NEW V, Backslash \in V, Quote \in V, Bar \in V, NEW values \in Seq(Seq(V))
  PROVE  Join(Map(Escape, values), Bar) = Escape(Join(values, Bar))
<1> DEFINE escaped(s) == [i \in DOMAIN s |-> Escape(s[i])]
           S == {s \in Seq(Seq(V)) : /\ escaped(s) \in Seq(Seq(V))
                                     /\ Len(escaped(s)) = Len(s)
                                     /\ Join(escaped(s), Bar) = Escape(Join(s, Bar))}
<1>1. \A t \in Seq(V) : Escape(t) \in Seq(V)
  BY UnescapeEscape
<1>2. Escape(<<>>) = <<>>
  BY MarkedEmpty, EscapeIsMark
<1>3. <<>> \in S
  <2>1. escaped(<<>>) = <<>> /\ <<>> \in Seq(Seq(V)) /\ <<>> \in Seq(V)
    OBVIOUS
  <2>2. Join(<<>>, Bar) = <<>>
    BY <2>1, JoinOne
  <2> HIDE DEF escaped
  <2> QED BY <1>2, <2>1, <2>2
<1>4. ASSUME NEW s \in S, NEW v \in Seq(V) PROVE Append(s, v) \in S
  <2> DEFINE a == Append(s, v)
             e == escaped(s)
             n == Len(s)
  <2>1. /\ s \in Seq(Seq(V)) /\ e \in Seq(Seq(V)) /\ Len(e) = n
        /\ Join(e, Bar) = Escape(Join(s, Bar))
    OBVIOUS
  <2>2. PICK T : T = Seq(V)
    OBVIOUS
  <2>3. n \in Nat /\ DOMAIN s = 1..n
    BY <2>1, LenProperties
  <2>4. /\ a \in Seq(T) /\ Len(a) = n + 1 /\ DOMAIN a = 1..(n + 1)
        /\ a[n + 1] = v /\ \A i \in 1..n : a[i] = s[i]
    <3>1. s \in Seq(T) /\ v \in T
      BY <2>1, <2>2
    <3>2. a \in Seq(T) /\ Len(a) = n + 1 /\ a[n + 1] = v /\ \A i \in 1..n : a[i] = s[i]
      BY <3>1, AppendProperties
    <3> QED BY <3>2, LenProperties
  <2>5. escaped(a) = Append(e, Escape(v))
    <3> DEFINE b == escaped(a)
               q == Append(e, Escape(v))
    <3>1. Escape(v) \in T /\ e \in Seq(T)
      BY <1>1, <2>1, <2>2
    <3>2. /\ q \in Seq(T) /\ Len(q) = n + 1 /\ q[n + 1] = Escape(v)
          /\ \A i \in 1..n : q[i] = e[i]
      <4> HIDE DEF e
      <4> QED BY <2>1, <3>1, AppendProperties
    <3>3. \A i \in 1..n : e[i] = Escape(s[i])
      BY <2>3
    <3>4. b = [i \in 1..(n + 1) |-> Escape(a[i])]
      BY <2>4
    <3>5. q = [i \in 1..(n + 1) |-> q[i]]
      <4> HIDE DEF q
      <4> QED BY <2>3, <3>2
    <3> HIDE DEF q, e, a, n, escaped
    <3>6. \A i \in 1..(n + 1) : Escape(a[i]) = q[i]
      <4>1. \A i \in 1..(n + 1) : i \in 1..n \/ i = n + 1
        BY <2>3
      <4> QED BY <2>4, <3>2, <3>3, <4>1
    <3>7. [i \in 1..(n + 1) |-> Escape(a[i])] = [i \in 1..(n + 1) |-> q[i]]
      BY <3>6
    <3> QED BY <3>4, <3>5, <3>7 DEF q
  <2> HIDE DEF e, escaped
  <2>6. Escape(v) \in Seq(V)
    BY <1>1
  <2>7. Append(e, Escape(v)) \in Seq(Seq(V)) /\ Len(Append(e, Escape(v))) = n + 1
    BY <2>1, <2>6, AppendProperties
  <2>8. Join(Append(e, Escape(v)), Bar) = Escape(Join(a, Bar))
    <3>1. CASE s = <<>>
      <4>1. n = 0 /\ a = <<v>>
        BY <3>1
      <4>2. e = <<>>
        BY <2>1, <4>1, EmptySeq
      <4>3. Append(e, Escape(v)) = <<Escape(v)>>
        BY <4>2
      <4>4. Join(<<v>>, Bar) = v /\ Join(<<Escape(v)>>, Bar) = Escape(v)
        BY <2>6, JoinOne
      <4> QED BY <4>1, <4>3, <4>4
    <3>2. CASE s # <<>>
      <4>1. e # <<>>
        <5>1. n \in Nat \ {0}
          BY <2>1, <3>2, EmptySeq
        <5> QED BY <2>1, <5>1, EmptySeq
      <4>2. Join(a, Bar) = Cat(Join(s, Bar), Cons(Bar, v))
        BY <2>1, <3>2, JoinAppend
      <4>3. Join(Append(e, Escape(v)), Bar) = Cat(Join(e, Bar), Cons(Bar, Escape(v)))
        BY <2>1, <2>6, <4>1, JoinAppend
      <4>4. Join(s, Bar) \in Seq(V) /\ Cons(Bar, v) \in Seq(V)
        BY <2>1, JoinType, ConsFacts
      <4>5. Escape(Cat(Join(s, Bar), Cons(Bar, v)))
              = Cat(Escape(Join(s, Bar)), Escape(Cons(Bar, v)))
        BY <4>4, EscapeCat
      <4>6. Escape(Cons(Bar, v)) = Cons(Bar, Escape(v))
        BY EscapeBar
      <4> QED BY <2>1, <4>2, <4>3, <4>5, <4>6
    <3> QED BY <3>1, <3>2
  <2>9. a \in Seq(Seq(V)) /\ Len(a) = n + 1
    BY <2>2, <2>4
  <2> QED BY <2>5, <2>7, <2>8, <2>9
<1>5. S = Seq(Seq(V))
  <2>1. S \in SUBSET Seq(Seq(V))
    OBVIOUS
  <2> HIDE DEF S
  <2> QED BY <1>3, <1>4, <2>1, ListInduction
<1>6. Join(escaped(values), Bar) = Escape(Join(values, Bar))
  BY <1>5
<1> QED BY <1>6 DEF Map

(* A text between two quotes.                                                   *)
LEMMA Within ==
  ASSUME NEW V, NEW q \in V, NEW text \in Seq(V)
  PROVE  LET literal == <<q>> \o text \o <<q>>
         IN  SubSeq(literal, 2, Len(literal) - 1) = text
<1> DEFINE n == Len(text)
           literal == <<q>> \o text \o <<q>>
           s == SubSeq(literal, 2, n + 1)
<1>1. n \in Nat
  BY LenProperties
<1>2. literal \in Seq(V) /\ Len(literal) = n + 2 /\ \A i \in 1..n : literal[i + 1] = text[i]
  OBVIOUS
<1> HIDE DEF literal, n
<1>3. s \in Seq(V) /\ Len(s) = n /\ \A i \in 1..n : s[i] = literal[i + 1]
  <2>1. \A i \in 2..(n + 1) : literal[i] \in V
    <3>1. \A i \in 2..(n + 1) : i - 1 \in 1..n /\ (i - 1) + 1 = i
      BY <1>1
    <3>2. \A i \in 1..n : text[i] \in V
      BY ElementOfSeq DEF n
    <3> QED BY <1>2, <3>1, <3>2
  <2>2. /\ s \in Seq(V) /\ Len(s) = (IF 2 <= n + 1 THEN (n + 1) - 2 + 1 ELSE 0)
        /\ \A i \in 1..((n + 1) - 2 + 1) : s[i] = literal[2 + i - 1]
    BY <1>1, <2>1, SubSeqProperties
  <2>3. (IF 2 <= n + 1 THEN (n + 1) - 2 + 1 ELSE 0) = n /\ (n + 1) - 2 + 1 = n
        /\ \A i \in 1..n : 2 + i - 1 = i + 1
    BY <1>1
  <2> HIDE DEF s
  <2> QED BY <2>2, <2>3
<1>4. s = text
  <2> HIDE DEF s
  <2>1. \A i \in 1..n : s[i] = text[i]
    BY <1>2, <1>3
  <2> QED BY <1>3, <2>1, SeqEqual DEF n
<1>5. Len(literal) - 1 = n + 1
  BY <1>1, <1>2
<1> QED BY <1>4, <1>5 DEF literal

(* A label filter of any values survives the conversion to TraceQL and back:    *)
(* the values are read back, each as it was and in their order, unless several  *)
(* of them are joined and one holds the bar that joins them (stringMatcher of   *)
(* traceql_from_filter.ts, reverseStringMatcher of traceql_to_filter.ts).       *)
THEOREM StringFieldReadsBack ==
  ASSUME NEW V, Backslash \in V, Quote \in V, Bar \in V, NEW a,
         NEW values \in Seq(Seq(V)), ~HasBar(values)
  PROVE  ReverseStringMatcher(FlattenSeq(StringMatcher(a, values))) = values
<1> DEFINE unescaped(m) == Unescape(SubSeq(m.value, 2, Len(m.value) - 1))
           read(m) == CASE m.operator = "="  -> <<unescaped(m)>>
                        [] m.operator = "=~" -> Split(unescaped(m), Bar)
                        [] OTHER -> <<>>
<1>1. \A ms : ReverseStringMatcher(ms) = FlattenSeq([i \in DOMAIN ms |-> read(ms[i])])
  BY DEF ReverseStringMatcher, Map
<1>2. CASE values = <<>>
  <2>1. StringMatcher(a, values) = <<>>
    BY <1>2 DEF StringMatcher
  <2>2. [i \in DOMAIN <<>> |-> read(<<>>[i])] = <<>>
    OBVIOUS
  <2> HIDE DEF read
  <2> QED BY <1>1, <1>2, <2>1, <2>2, FlattenEmpty
<1>3. CASE values # <<>>
  <2> DEFINE literal == <<Quote>> \o Join(Map(Escape, values), Bar) \o <<Quote>>
             op == IF Len(values) = 1 THEN "=" ELSE "=~"
             m == Matcher(a, op, literal, TRUE)
             joined == Join(values, Bar)
  <2>1. StringMatcher(a, values) = <<<<m>>>>
    BY <1>3 DEF StringMatcher
  <2>2. m.operator = op /\ m.value = literal
    BY DEF Matcher
  <2>3. joined \in Seq(V) /\ Escape(joined) \in Seq(V) /\ Unescape(Escape(joined)) = joined
    <3>1. joined \in Seq(V)
      BY JoinType
    <3> QED BY <3>1, UnescapeEscape
  <2>4. literal = <<Quote>> \o Escape(joined) \o <<Quote>>
    BY EscapeJoin
  <2>5. SubSeq(literal, 2, Len(literal) - 1) = Escape(joined)
    <3>1. PICK e \in Seq(V) : e = Escape(joined)
      BY <2>3
    <3> QED BY <2>4, <3>1, Within
  <2> HIDE DEF literal, joined, op
  <2>6. unescaped(m) = joined
    BY <2>2, <2>3, <2>5
  <2>7. read(m) = values
    <3>1. CASE Len(values) = 1
      <4>1. values = <<values[1]>> /\ values[1] \in Seq(V)
        BY <3>1, OneEntry
      <4>2. joined = values[1]
        BY <4>1, JoinOne DEF joined
      <4>3. op = "="
        BY <3>1 DEF op
      <4> HIDE DEF m, unescaped
      <4> QED BY <2>2, <2>6, <4>1, <4>2, <4>3
    <3>2. CASE Len(values) # 1
      <4>1. Len(values) > 1
        <5>1. Len(values) \in Nat \ {0}
          BY <1>3, EmptySeq
        <5> QED BY <3>2, <5>1
      <4>2. \A i \in DOMAIN values : Bar \notin Range(values[i])
        BY <4>1 DEF HasBar, Range
      <4>3. Split(joined, Bar) = values
        BY <1>3, <4>2, SplitJoin DEF joined
      <4>4. op = "=~" /\ op # "="
        BY <3>2 DEF op
      <4> HIDE DEF m, unescaped
      <4> QED BY <2>2, <2>6, <4>3, <4>4
    <3> QED BY <3>1, <3>2
  <2> HIDE DEF m, read
  <2>8. FlattenSeq(<<<<m>>>>) = <<m>>
    <3>1. <<m>> \in Seq({m})
      OBVIOUS
    <3> QED BY <3>1, FlattenOne
  <2>9. [i \in DOMAIN <<m>> |-> read(<<m>>[i])] = <<values>>
    BY <2>7
  <2>10. FlattenSeq(<<values>>) = values
    BY FlattenOne
  <2> QED BY <1>1, <2>1, <2>8, <2>9, <2>10
<1> QED BY <1>2, <1>3

--------------------------------------------------------------------------------
(* What the reader makes of any text.                                           *)

LEMMA UnmarkType ==
  ASSUME NEW V, NEW c \in V, Backslash \in V, NEW text \in Seq(V)
  PROVE  Unmark(text, c) \in Seq(V)
<1> DEFINE typed(t) == Unmark(t, c) \in Seq(V)
           S == {t \in Seq(V) : typed(t) /\ \A x \in V : typed(Cons(x, t))}
<1>1. ASSUME NEW t \in Seq(V), typed(t), NEW x \in V,
             ~(x = Backslash /\ t # <<>> /\ t[1] = c)
      PROVE  typed(Cons(x, t))
  <2>1. Unmark(Cons(x, t), c) = Cons(x, Unmark(t, c))
    BY <1>1, UnmarkFacts
  <2>2. PICK u \in Seq(V) : u = Unmark(t, c)
    BY <1>1
  <2> QED BY <2>1, <2>2, ConsFacts
<1>2. <<>> \in S
  <2>1. <<>> \in Seq(V)
    OBVIOUS
  <2>2. typed(<<>>)
    <3>1. <<Backslash, c>> \in Seq(V) /\ <<Backslash, c>> # <<>>
      OBVIOUS
    <3>2. Unmark(<<>>, c) = <<>>
      BY <3>1, ReplaceEmpty DEF Unmark
    <3> QED BY <2>1, <3>2
  <2> HIDE DEF typed
  <2>3. \A x \in V : typed(Cons(x, <<>>))
    BY <1>1, <2>1, <2>2
  <2> QED BY <2>1, <2>2, <2>3
<1>3. ASSUME NEW y \in V, NEW t \in S PROVE Cons(y, t) \in S
  <2>1. t \in Seq(V) /\ typed(t) /\ typed(Cons(y, t)) /\ Cons(y, t) \in Seq(V)
        /\ Cons(y, t)[1] = y
    BY ConsFacts
  <2>2. ASSUME NEW x \in V PROVE typed(Cons(x, Cons(y, t)))
    <3>1. CASE x = Backslash /\ y = c
      <4>1. Unmark(Cons(Backslash, Cons(c, t)), c) = Cons(c, Unmark(t, c))
        BY <2>1, UnmarkFacts
      <4>2. PICK u \in Seq(V) : u = Unmark(t, c)
        BY <2>1
      <4> QED BY <3>1, <4>1, <4>2, ConsFacts
    <3>2. CASE ~(x = Backslash /\ y = c)
      <4> HIDE DEF typed
      <4> QED BY <1>1, <2>1, <3>2
    <3> QED BY <3>1, <3>2
  <2> HIDE DEF typed
  <2> QED BY <2>1, <2>2
<1>4. S = Seq(V)
  <2>1. S \in SUBSET Seq(V)
    OBVIOUS
  <2> HIDE DEF S
  <2> QED BY <1>2, <1>3, <2>1, ListInduction
<1>5. typed(text)
  BY <1>4
<1> QED BY <1>5

LEMMA UnescapeType ==
  ASSUME NEW V, Backslash \in V, Quote \in V, NEW text \in Seq(V)
  PROVE  Unescape(text) \in Seq(V)
<1>1. PICK t \in Seq(V) : t = Unmark(text, Quote)
  BY UnmarkType
<1>2. Unmark(t, Backslash) \in Seq(V)
  BY UnmarkType
<1> QED BY <1>1, <1>2 DEF Unescape, Unmark

--------------------------------------------------------------------------------
(* The matchers of an attribute.                                                *)

LEMMA OfAttributeFacts ==
  ASSUME NEW V, NEW ms \in Seq(V), NEW a
  PROVE  /\ OfAttribute(ms, a) \in Seq(V)
         /\ Range(OfAttribute(ms, a)) = {m \in Range(ms) : m.attribute = a}
BY FilteredFacts DEF OfAttribute

(* The set in its definition can be any that has the matchers of the attribute. *)
LEMMA OfAttributeSame ==
  ASSUME NEW V, NEW ms \in Seq(V), NEW a, NEW S,
         \A m \in Range(ms) : m \in S <=> m.attribute = a
  PROVE  OfAttribute(ms, a) = Filtered(ms, S)
<1>1. \A m \in Range(ms) : m \in {n \in Range(ms) : n.attribute = a} <=> m \in S
  OBVIOUS
<1> QED BY <1>1, FilteredSame DEF OfAttribute

LEMMA OfAttributeAll ==
  ASSUME NEW V, NEW ms \in Seq(V), NEW a, \A m \in Range(ms) : m.attribute = a
  PROVE  OfAttribute(ms, a) = ms
<1>1. Range(ms) \subseteq {n \in Range(ms) : n.attribute = a}
  OBVIOUS
<1> QED BY <1>1, FilteredAll DEF OfAttribute

LEMMA OfAttributeNone ==
  ASSUME NEW V, NEW ms \in Seq(V), NEW a, \A m \in Range(ms) : m.attribute # a
  PROVE  OfAttribute(ms, a) = <<>>
<1>1. Range(ms) \intersect {n \in Range(ms) : n.attribute = a} = {}
  OBVIOUS
<1> QED BY <1>1, FilteredNone DEF OfAttribute

--------------------------------------------------------------------------------
(* The seven parts that a query is made of.                                     *)

Seven(a, b, c, d, e, f, g) == Cat(Cat(Cat(Cat(Cat(Cat(a, b), c), d), e), f), g)

AreLists(V, a, b, c, d, e, f, g) ==
  /\ a \in Seq(V) /\ b \in Seq(V) /\ c \in Seq(V) /\ d \in Seq(V)
  /\ e \in Seq(V) /\ f \in Seq(V) /\ g \in Seq(V)

LEMMA SevenFacts ==
  ASSUME NEW V, NEW a, NEW b, NEW c, NEW d, NEW e, NEW f, NEW g,
         AreLists(V, a, b, c, d, e, f, g)
  PROVE  /\ Seven(a, b, c, d, e, f, g) \in Seq(V)
         /\ Range(Seven(a, b, c, d, e, f, g))
              = Range(a) \union Range(b) \union Range(c) \union Range(d) \union Range(e)
                  \union Range(f) \union Range(g)
<1>0. /\ a \in Seq(V) /\ b \in Seq(V) /\ c \in Seq(V) /\ d \in Seq(V)
      /\ e \in Seq(V) /\ f \in Seq(V) /\ g \in Seq(V)
  BY DEF AreLists
<1> USE <1>0
<1>1. PICK x1 \in Seq(V) : x1 = Cat(a, b) /\ Range(x1) = Range(a) \union Range(b)
  BY CatFacts
<1>2. PICK x2 \in Seq(V) : x2 = Cat(x1, c) /\ Range(x2) = Range(x1) \union Range(c)
  BY CatFacts
<1>3. PICK x3 \in Seq(V) : x3 = Cat(x2, d) /\ Range(x3) = Range(x2) \union Range(d)
  BY CatFacts
<1>4. PICK x4 \in Seq(V) : x4 = Cat(x3, e) /\ Range(x4) = Range(x3) \union Range(e)
  BY CatFacts
<1>5. PICK x5 \in Seq(V) : x5 = Cat(x4, f) /\ Range(x5) = Range(x4) \union Range(f)
  BY CatFacts
<1>6. PICK x6 \in Seq(V) : x6 = Cat(x5, g) /\ Range(x6) = Range(x5) \union Range(g)
  BY CatFacts
<1>7. Seven(a, b, c, d, e, f, g) = x6
  BY <1>1, <1>2, <1>3, <1>4, <1>5, <1>6 DEF Seven
<1>8. Range(x6) = Range(a) \union Range(b) \union Range(c) \union Range(d) \union Range(e)
                    \union Range(f) \union Range(g)
  BY <1>1, <1>2, <1>3, <1>4, <1>5, <1>6
<1> QED BY <1>7, <1>8

LEMMA SevenFiltered ==
  ASSUME NEW V, NEW S, NEW a, NEW b, NEW c, NEW d, NEW e, NEW f, NEW g,
         AreLists(V, a, b, c, d, e, f, g)
  PROVE  Filtered(Seven(a, b, c, d, e, f, g), S)
           = Seven(Filtered(a, S), Filtered(b, S), Filtered(c, S), Filtered(d, S),
                   Filtered(e, S), Filtered(f, S), Filtered(g, S))
<1>0. /\ a \in Seq(V) /\ b \in Seq(V) /\ c \in Seq(V) /\ d \in Seq(V)
      /\ e \in Seq(V) /\ f \in Seq(V) /\ g \in Seq(V)
  BY DEF AreLists
<1> USE <1>0
<1>1. PICK x1 \in Seq(V) : x1 = Cat(a, b)
  BY CatFacts
<1>2. PICK x2 \in Seq(V) : x2 = Cat(x1, c)
  BY CatFacts
<1>3. PICK x3 \in Seq(V) : x3 = Cat(x2, d)
  BY CatFacts
<1>4. PICK x4 \in Seq(V) : x4 = Cat(x3, e)
  BY CatFacts
<1>5. PICK x5 \in Seq(V) : x5 = Cat(x4, f)
  BY CatFacts
<1>6. Seven(a, b, c, d, e, f, g) = Cat(x5, g)
  BY <1>1, <1>2, <1>3, <1>4, <1>5 DEF Seven
<1>7. \A s \in Seq(V), t \in Seq(V) :
        Filtered(Cat(s, t), S) = Cat(Filtered(s, S), Filtered(t, S))
  BY FilteredCat
<1>8. /\ Filtered(x1, S) = Cat(Filtered(a, S), Filtered(b, S))
      /\ Filtered(x2, S) = Cat(Filtered(x1, S), Filtered(c, S))
      /\ Filtered(x3, S) = Cat(Filtered(x2, S), Filtered(d, S))
      /\ Filtered(x4, S) = Cat(Filtered(x3, S), Filtered(e, S))
      /\ Filtered(x5, S) = Cat(Filtered(x4, S), Filtered(f, S))
      /\ Filtered(Cat(x5, g), S) = Cat(Filtered(x5, S), Filtered(g, S))
  BY <1>1, <1>2, <1>3, <1>4, <1>5, <1>7
<1> QED BY <1>6, <1>8 DEF Seven

LEMMA SevenFlattened ==
  ASSUME NEW W, NEW a, NEW b, NEW c, NEW d, NEW e, NEW f, NEW g,
         AreLists(Seq(W), a, b, c, d, e, f, g)
  PROVE  FlattenSeq(Seven(a, b, c, d, e, f, g))
           = Seven(FlattenSeq(a), FlattenSeq(b), FlattenSeq(c), FlattenSeq(d),
                   FlattenSeq(e), FlattenSeq(f), FlattenSeq(g))
<1>w. PICK V : V = Seq(W)
  OBVIOUS
<1>0. /\ a \in Seq(V) /\ b \in Seq(V) /\ c \in Seq(V) /\ d \in Seq(V)
      /\ e \in Seq(V) /\ f \in Seq(V) /\ g \in Seq(V)
  BY <1>w DEF AreLists
<1> USE <1>0
<1>1. PICK x1 \in Seq(V) : x1 = Cat(a, b)
  BY CatFacts
<1>2. PICK x2 \in Seq(V) : x2 = Cat(x1, c)
  BY CatFacts
<1>3. PICK x3 \in Seq(V) : x3 = Cat(x2, d)
  BY CatFacts
<1>4. PICK x4 \in Seq(V) : x4 = Cat(x3, e)
  BY CatFacts
<1>5. PICK x5 \in Seq(V) : x5 = Cat(x4, f)
  BY CatFacts
<1>6. Seven(a, b, c, d, e, f, g) = Cat(x5, g)
  BY <1>1, <1>2, <1>3, <1>4, <1>5 DEF Seven
<1>7. \A s \in Seq(V), t \in Seq(V) :
        FlattenSeq(Cat(s, t)) = Cat(FlattenSeq(s), FlattenSeq(t))
  BY <1>w, FlattenCat
<1>8. /\ FlattenSeq(x1) = Cat(FlattenSeq(a), FlattenSeq(b))
      /\ FlattenSeq(x2) = Cat(FlattenSeq(x1), FlattenSeq(c))
      /\ FlattenSeq(x3) = Cat(FlattenSeq(x2), FlattenSeq(d))
      /\ FlattenSeq(x4) = Cat(FlattenSeq(x3), FlattenSeq(e))
      /\ FlattenSeq(x5) = Cat(FlattenSeq(x4), FlattenSeq(f))
      /\ FlattenSeq(Cat(x5, g)) = Cat(FlattenSeq(x5), FlattenSeq(g))
  BY <1>1, <1>2, <1>3, <1>4, <1>5, <1>7
<1> QED BY <1>6, <1>8 DEF Seven

(* One part alone.                                                              *)
LEMMA SevenOne ==
  ASSUME NEW V, NEW x \in Seq(V)
  PROVE  /\ Seven(x, <<>>, <<>>, <<>>, <<>>, <<>>, <<>>) = x
         /\ Seven(<<>>, x, <<>>, <<>>, <<>>, <<>>, <<>>) = x
         /\ Seven(<<>>, <<>>, x, <<>>, <<>>, <<>>, <<>>) = x
         /\ Seven(<<>>, <<>>, <<>>, x, <<>>, <<>>, <<>>) = x
         /\ Seven(<<>>, <<>>, <<>>, <<>>, x, <<>>, <<>>) = x
         /\ Seven(<<>>, <<>>, <<>>, <<>>, <<>>, x, <<>>) = x
         /\ Seven(<<>>, <<>>, <<>>, <<>>, <<>>, <<>>, x) = x
<1>1. PICK n \in Seq(V) : n = <<>>
  <2>1. <<>> \in Seq(V)
    OBVIOUS
  <2> QED BY <2>1
<1>2. Cat(n, n) = n /\ Cat(n, x) = x /\ Cat(x, n) = x
  BY <1>1, CatEmpty
<1> QED BY <1>1, <1>2 DEF Seven

--------------------------------------------------------------------------------
(* The parts of a query that stand for one field.                               *)

Parts == Seq(Matchers) \ {<<>>}

PartsOf(s, a) == \A part \in Range(s) : \A m \in Range(part) : m.attribute = a

(* A matcher with blanks.                                                       *)
Spaced(a, op, value) == Matcher(a, op, value, TRUE)

LEMMA MatcherFacts ==
  ASSUME NEW a \in Characters, NEW op \in Characters, NEW value \in Texts, value # <<>>
  PROVE  /\ Spaced(a, op, value) \in Matchers
         /\ Spaced(a, op, value).attribute = a
         /\ Spaced(a, op, value).operator = op
         /\ Spaced(a, op, value).value = value
BY DEF Spaced, Matcher, Matchers

LEMMA MatcherFields ==
  ASSUME NEW m \in Matchers
  PROVE  /\ m.attribute \in Characters /\ m.operator \in Characters
         /\ m.value \in Texts /\ m.value # <<>> /\ m.spaced \in BOOLEAN
BY DEF Matchers

(* A query is flattened into its matchers.                                      *)
LEMMA MatchersOfQuery ==
  ASSUME NEW q \in ParsedQueries
  PROVE  q \in Seq(Parts) /\ q \in Seq(Seq(Matchers)) /\ FlattenSeq(q) \in Seq(Matchers)
<1>1. q \in Seq(Parts)
  BY DEF ParsedQueries, Parts
<1>2. q \in Seq(Seq(Matchers))
  <2>1. PICK M : M = Seq(Matchers)
    OBVIOUS
  <2>2. PICK n \in Nat : q \in [1..n -> Parts]
    BY <1>1, SeqDef
  <2>3. Parts \subseteq M
    BY <2>1 DEF Parts
  <2>4. q \in [1..n -> M]
    BY <2>2, <2>3
  <2> QED BY <2>1, <2>4, SeqDef
<1> QED BY <1>1, <1>2, FlattenType

LEMMA MatchersOfParts ==
  ASSUME NEW q \in ParsedQueries, NEW a, PartsOf(q, a)
  PROVE  \A m \in Range(FlattenSeq(q)) : m.attribute = a
<1>1. Range(FlattenSeq(q)) = UNION {Range(s) : s \in Range(q)}
  BY MatchersOfQuery, FlattenRange
<1> QED BY <1>1 DEF PartsOf

LEMMA NoPart ==
  ASSUME NEW a
  PROVE  /\ <<>> \in ParsedQueries /\ PartsOf(<<>>, a) /\ FlattenSeq(<<>>) = <<>>
         /\ <<>> \in Seq(Matchers)
<1>1. Range(<<>>) = {}
  BY DEF Range
<1>2. <<>> \in ParsedQueries /\ <<>> \in Seq(Matchers)
  BY DEF ParsedQueries
<1> QED BY <1>1, <1>2, FlattenEmpty DEF PartsOf

LEMMA OnePart ==
  ASSUME NEW part \in Seq(Matchers), part # <<>>, NEW a, \A m \in Range(part) : m.attribute = a
  PROVE  /\ <<part>> \in ParsedQueries /\ PartsOf(<<part>>, a)
         /\ FlattenSeq(<<part>>) = part
         /\ Range(<<part>>) = {part}
<1>1. <<part>> \in ParsedQueries
  <2>1. PICK P : P = Parts
    OBVIOUS
  <2>2. part \in P
    BY <2>1 DEF Parts
  <2>3. <<part>> \in Seq(P)
    BY <2>2
  <2> QED BY <2>1, <2>3 DEF ParsedQueries, Parts
<1>2. Range(<<part>>) = {part}
  BY DEF Range
<1> QED BY <1>1, <1>2, FlattenOne DEF PartsOf

LEMMA OneMatcher ==
  ASSUME NEW m \in Matchers
  PROVE  <<m>> \in Seq(Matchers) /\ <<m>> # <<>> /\ Range(<<m>>) = {m}
<1>1. <<m>> \in Seq(Matchers)
  OBVIOUS
<1> QED BY <1>1 DEF Range

LEMMA MatcherParts ==
  ASSUME NEW m \in Matchers
  PROVE  /\ <<<<m>>>> \in ParsedQueries /\ PartsOf(<<<<m>>>>, m.attribute)
         /\ FlattenSeq(<<<<m>>>>) = <<m>>
         /\ Range(<<<<m>>>>) = {<<m>>}
<1>1. PICK part \in Seq(Matchers) : part = <<m>> /\ part # <<>> /\ Range(part) = {m}
  BY OneMatcher
<1>2. \A n \in Range(part) : n.attribute = m.attribute
  BY <1>1
<1>3. /\ <<part>> \in ParsedQueries /\ PartsOf(<<part>>, m.attribute)
      /\ FlattenSeq(<<part>>) = part /\ Range(<<part>>) = {part}
  BY <1>1, <1>2, OnePart
<1> QED BY <1>1, <1>3

(* A literal is the text between quotes.                                        *)
LEMMA LiteralFacts ==
  ASSUME NEW values \in Seq(Texts)
  PROVE  LET literal == <<Quote>> \o Join(Map(Escape, values), Bar) \o <<Quote>>
         IN  literal \in Texts /\ literal # <<>>
<1>1. PICK V : V = Characters
  OBVIOUS
<1>2. Quote \in V /\ Backslash \in V /\ Bar \in V /\ Texts = Seq(V)
  <2>1. Quote \in Characters /\ Backslash \in Characters /\ Bar \in Characters
    BY CharactersAssumption
  <2> QED BY <1>1, <2>1 DEF Texts
<1>3. Join(values, Bar) \in Seq(V)
  BY <1>2, JoinType
<1>4. PICK e \in Seq(V) : e = Escape(Join(values, Bar))
  BY <1>2, <1>3, UnescapeEscape
<1>5. Join(Map(Escape, values), Bar) = e
  BY <1>2, <1>4, EscapeJoin
<1>6. PICK q \in Seq(V) : q = <<Quote>>
  <2>1. <<Quote>> \in Seq(V)
    BY <1>2
  <2> QED BY <2>1
<1>7. Cat(Cat(q, e), q) \in Seq(V) /\ Range(Cat(Cat(q, e), q)) = Range(q) \union Range(e)
  <2>1. Cat(q, e) \in Seq(V) /\ Range(Cat(q, e)) = Range(q) \union Range(e)
    BY CatFacts
  <2>2. /\ Cat(Cat(q, e), q) \in Seq(V)
        /\ Range(Cat(Cat(q, e), q)) = Range(Cat(q, e)) \union Range(q)
    BY <2>1, CatFacts
  <2> QED BY <2>1, <2>2
<1>8. Quote \in Range(q) /\ Range(<<>>) = {}
  BY <1>6 DEF Range
<1>9. Cat(Cat(q, e), q) # <<>>
  BY <1>7, <1>8
<1> QED BY <1>2, <1>5, <1>6, <1>7, <1>9 DEF Cat

LEMMA StringParts ==
  ASSUME NEW values \in Seq(Texts), NEW a \in Characters
  PROVE  StringMatcher(a, values) \in ParsedQueries /\ PartsOf(StringMatcher(a, values), a)
<1>1. CASE values = <<>>
  BY <1>1, NoPart DEF StringMatcher
<1>2. CASE values # <<>>
  <2> DEFINE literal == <<Quote>> \o Join(Map(Escape, values), Bar) \o <<Quote>>
             op == IF Len(values) = 1 THEN "=" ELSE "=~"
  <2>1. literal \in Texts /\ literal # <<>>
    BY LiteralFacts
  <2>2. StringMatcher(a, values) = <<<<Spaced(a, op, literal)>>>>
    BY <1>2 DEF StringMatcher, Spaced
  <2>3. op \in Characters
    <3>1. "=" \in Characters /\ "=~" \in Characters
      BY CharactersAssumption
    <3> QED BY <3>1
  <2> HIDE DEF literal, op
  <2>4. PICK m \in Matchers : m = Spaced(a, op, literal) /\ m.attribute = a
    BY <2>1, <2>3, MatcherFacts
  <2> QED BY <2>2, <2>4, MatcherParts
<1> QED BY <1>1, <1>2

LEMMA IntrinsicParts ==
  ASSUME NEW values \in Seq(Texts \ {<<>>}), NEW a \in Characters
  PROVE  /\ IntrinsicMatcher(a, values) \in ParsedQueries
         /\ PartsOf(IntrinsicMatcher(a, values), a)
         /\ ReverseIntrinsicMatcher(FlattenSeq(IntrinsicMatcher(a, values))) = values
<1> DEFINE part == [i \in DOMAIN values |-> Spaced(a, "=", values[i])]
           read(ms) == [i \in DOMAIN OfOperator(ms, "=") |-> OfOperator(ms, "=")[i].value]
<1>0. \A ms : ReverseIntrinsicMatcher(ms) = read(ms)
  BY DEF ReverseIntrinsicMatcher, Map
<1>1. CASE values = <<>>
  <2>1. IntrinsicMatcher(a, values) = <<>>
    BY <1>1 DEF IntrinsicMatcher
  <2>2. OfOperator(<<>>, "=") = <<>>
    BY FilteredEmpty DEF OfOperator
  <2>3. read(<<>>) = <<>>
    BY <2>2
  <2> HIDE DEF read
  <2> QED BY <1>0, <1>1, <2>1, <2>3, NoPart
<1>2. CASE values # <<>>
  <2>1. PICK n \in Nat : values \in [1..n -> Texts \ {<<>>}]
    BY SeqDef
  <2>2. n # 0
    BY <1>2, <2>1
  <2> HIDE DEF part
  <2>3. \A i \in 1..n : /\ Spaced(a, "=", values[i]) \in Matchers
                        /\ Spaced(a, "=", values[i]).attribute = a
                        /\ Spaced(a, "=", values[i]).operator = "="
                        /\ Spaced(a, "=", values[i]).value = values[i]
    <3>1. "=" \in Characters
      BY CharactersAssumption
    <3>2. \A i \in 1..n : values[i] \in Texts /\ values[i] # <<>>
      BY <2>1
    <3> QED BY <3>1, <3>2, MatcherFacts
  <2>4. DOMAIN part = 1..n /\ \A i \in 1..n : part[i] = Spaced(a, "=", values[i])
    BY <2>1 DEF part
  <2>5. part \in [1..n -> Matchers]
    <3>1. part = [i \in 1..n |-> Spaced(a, "=", values[i])]
      BY <2>1 DEF part
    <3> QED BY <2>3, <3>1
  <2>6. part \in Seq(Matchers)
    BY <2>5, SeqDef
  <2>7. \A m \in Range(part) : m.attribute = a /\ m.operator = "="
    BY <2>3, <2>4 DEF Range
  <2>8. part # <<>>
    <3>1. 1 \in DOMAIN part /\ DOMAIN <<>> = {}
      BY <2>2, <2>4
    <3> QED BY <3>1
  <2>9. IntrinsicMatcher(a, values) = <<part>>
    BY <1>2 DEF IntrinsicMatcher, part, Spaced
  <2> HIDE DEF read
  <2>10. /\ <<part>> \in ParsedQueries /\ PartsOf(<<part>>, a) /\ FlattenSeq(<<part>>) = part
    BY <2>6, <2>7, <2>8, OnePart
  <2>11. OfOperator(part, "=") = part
    <3>1. Range(part) \subseteq {m \in Range(part) : m.operator = "="}
      BY <2>7
    <3> QED BY <2>6, <3>1, FilteredAll DEF OfOperator
  <2>12. read(part) = values
    <3>1. read(part) = [i \in 1..n |-> part[i].value]
      BY <2>4, <2>11 DEF read
    <3>2. \A i \in 1..n : part[i].value = values[i]
      BY <2>3, <2>4
    <3> QED BY <2>1, <3>1, <3>2
  <2> QED BY <1>0, <2>9, <2>10, <2>12
<1> QED BY <1>1, <1>2

(* The ends of a duration.                                                      *)
LEMMA OfOperatorFacts ==
  ASSUME NEW V, NEW s \in Seq(V), NEW t \in Seq(V), NEW op
  PROVE  /\ OfOperator(s, op) \in Seq(V)
         /\ OfOperator(Cat(s, t), op) = Cat(OfOperator(s, op), OfOperator(t, op))
<1> DEFINE S == {m \in V : m.operator = op}
<1>1. ASSUME NEW l \in Seq(V) PROVE OfOperator(l, op) = Filtered(l, S)
  <2>1. \A m \in Range(l) : m \in V
    BY DEF Range
  <2>2. \A m \in Range(l) : m \in {n \in Range(l) : n.operator = op} <=> m \in S
    BY <2>1
  <2> QED BY <2>2, FilteredSame DEF OfOperator
<1> HIDE DEF S
<1>2. Cat(s, t) \in Seq(V)
  BY CatFacts
<1>3. Filtered(Cat(s, t), S) = Cat(Filtered(s, S), Filtered(t, S)) /\ Filtered(s, S) \in Seq(V)
  BY FilteredCat, FilteredType
<1>4. /\ OfOperator(s, op) = Filtered(s, S) /\ OfOperator(t, op) = Filtered(t, S)
      /\ OfOperator(Cat(s, t), op) = Filtered(Cat(s, t), S)
  BY <1>1, <1>2
<1> QED BY <1>3, <1>4

LEMMA OfOperatorOne ==
  ASSUME NEW m \in Matchers, NEW op
  PROVE  OfOperator(<<m>>, op) = IF m.operator = op THEN <<m>> ELSE <<>>
<1>1. PICK l \in Seq(Matchers) : l = <<m>> /\ Range(l) = {m}
  BY OneMatcher
<1>2. CASE m.operator = op
  <2>1. Range(l) \subseteq {n \in Range(l) : n.operator = op}
    BY <1>1, <1>2
  <2> QED BY <1>1, <1>2, <2>1, FilteredAll DEF OfOperator
<1>3. CASE m.operator # op
  <2>1. Range(l) \intersect {n \in Range(l) : n.operator = op} = {}
    BY <1>1, <1>3
  <2> QED BY <1>1, <1>3, <2>1, FilteredNone DEF OfOperator
<1> QED BY <1>2, <1>3

(* One end: its part of the query, and what is read of it.                      *)
End(a, op, value) == IF value = <<>> THEN <<>> ELSE <<<<Spaced(a, op, value)>>>>

ReadEnd(ms, op) == IF OfOperator(ms, op) = <<>> THEN <<>> ELSE Last(OfOperator(ms, op)).value

LEMMA EndFacts ==
  ASSUME NEW value \in Texts, NEW a \in Characters, NEW op \in Characters
  PROVE  /\ End(a, op, value) \in ParsedQueries /\ PartsOf(End(a, op, value), a)
         /\ FlattenSeq(End(a, op, value)) \in Seq(Matchers)
         /\ OfOperator(FlattenSeq(End(a, op, value)), op) = FlattenSeq(End(a, op, value))
         /\ ReadEnd(FlattenSeq(End(a, op, value)), op) = value
         /\ \A other : other # op => OfOperator(FlattenSeq(End(a, op, value)), other) = <<>>
<1>1. CASE value = <<>>
  <2>1. End(a, op, value) = <<>>
    BY <1>1 DEF End
  <2>2. \A o : OfOperator(<<>>, o) = <<>>
    BY FilteredEmpty DEF OfOperator
  <2> QED BY <1>1, <2>1, <2>2, NoPart DEF ReadEnd
<1>2. CASE value # <<>>
  <2>1. PICK m \in Matchers : /\ m = Spaced(a, op, value) /\ m.attribute = a
                              /\ m.operator = op /\ m.value = value
    BY <1>2, MatcherFacts
  <2>2. End(a, op, value) = <<<<m>>>>
    BY <1>2, <2>1 DEF End
  <2>3. /\ <<<<m>>>> \in ParsedQueries /\ PartsOf(<<<<m>>>>, a)
        /\ FlattenSeq(<<<<m>>>>) = <<m>>
    BY <2>1, MatcherParts
  <2>4. \A o : OfOperator(<<m>>, o) = IF m.operator = o THEN <<m>> ELSE <<>>
    BY OfOperatorOne
  <2>5. <<m>> \in Seq(Matchers) /\ <<m>> # <<>> /\ Last(<<m>>) = m
    BY OneMatcher DEF Last
  <2>6. ReadEnd(<<m>>, op) = value
    BY <2>1, <2>4, <2>5 DEF ReadEnd
  <2> QED BY <2>1, <2>2, <2>3, <2>4, <2>5, <2>6
<1> QED BY <1>1, <1>2

LEMMA DurationParts ==
  ASSUME NEW d \in DurationFields, NEW a \in Characters
  PROVE  /\ DurationMatcher(a, d) \in ParsedQueries
         /\ PartsOf(DurationMatcher(a, d), a)
         /\ ReverseDurationMatcher(FlattenSeq(DurationMatcher(a, d))) = d
<1>1. /\ d.min \in Texts /\ d.max \in Texts /\ d = [min |-> d.min, max |-> d.max]
      /\ ">=" \in Characters /\ "<=" \in Characters /\ ">=" # "<="
  BY CharactersAssumption DEF DurationFields
<1> DEFINE lo == End(a, ">=", d.min)
           hi == End(a, "<=", d.max)
           ml == FlattenSeq(lo)
           mh == FlattenSeq(hi)
<1>2. /\ lo \in ParsedQueries /\ PartsOf(lo, a) /\ ml \in Seq(Matchers)
      /\ OfOperator(ml, ">=") = ml /\ ReadEnd(ml, ">=") = d.min /\ OfOperator(ml, "<=") = <<>>
  BY <1>1, EndFacts
<1>3. /\ hi \in ParsedQueries /\ PartsOf(hi, a) /\ mh \in Seq(Matchers)
      /\ OfOperator(mh, "<=") = mh /\ ReadEnd(mh, "<=") = d.max /\ OfOperator(mh, ">=") = <<>>
  BY <1>1, EndFacts
<1>4. DurationMatcher(a, d) = Cat(lo, hi)
  BY DEF DurationMatcher, End, Spaced, Cat
<1> HIDE DEF lo, hi
<1>5. Cat(lo, hi) \in ParsedQueries /\ Range(Cat(lo, hi)) = Range(lo) \union Range(hi)
  <2>1. PICK P : P = Seq(Matchers) \ {<<>>}
    OBVIOUS
  <2>2. lo \in Seq(P) /\ hi \in Seq(P)
    BY <1>2, <1>3, <2>1 DEF ParsedQueries
  <2> QED BY <2>1, <2>2, CatFacts DEF ParsedQueries
<1>6. PartsOf(Cat(lo, hi), a)
  BY <1>2, <1>3, <1>5 DEF PartsOf
<1>7. FlattenSeq(Cat(lo, hi)) = Cat(ml, mh)
  BY <1>2, <1>3, MatchersOfQuery, FlattenCat
<1> HIDE DEF ml, mh
<1>8. OfOperator(Cat(ml, mh), ">=") = ml /\ OfOperator(Cat(ml, mh), "<=") = mh
  <2>1. \A op : OfOperator(Cat(ml, mh), op) = Cat(OfOperator(ml, op), OfOperator(mh, op))
    BY <1>2, <1>3, OfOperatorFacts
  <2>2. Cat(ml, <<>>) = ml /\ Cat(<<>>, mh) = mh
    BY <1>2, <1>3, CatEmpty
  <2> QED BY <1>2, <1>3, <2>1, <2>2
<1>9. ReadEnd(Cat(ml, mh), ">=") = d.min /\ ReadEnd(Cat(ml, mh), "<=") = d.max
  BY <1>2, <1>3, <1>8 DEF ReadEnd
<1>10. ReverseDurationMatcher(Cat(ml, mh))
         = [min |-> ReadEnd(Cat(ml, mh), ">="), max |-> ReadEnd(Cat(ml, mh), "<=")]
  BY DEF ReverseDurationMatcher, ReadEnd
<1> QED BY <1>1, <1>4, <1>5, <1>6, <1>7, <1>9, <1>10

(* The custom matchers, each a part of its own.                                 *)
LEMMA CustomParts ==
  ASSUME NEW ms \in Seq(CustomMatchers)
  PROVE  /\ CustomMatcher(ms) \in ParsedQueries
         /\ FlattenSeq(CustomMatcher(ms)) = ms
         /\ Range(CustomMatcher(ms)) = {<<m>> : m \in Range(ms)}
<1>1. PICK n \in Nat : ms \in [1..n -> CustomMatchers]
  BY SeqDef
<1>2. CustomMatchers \subseteq Matchers
  BY DEF CustomMatchers
<1>3. CustomMatcher(ms) = [i \in DOMAIN ms |-> <<ms[i]>>]
  BY DEF CustomMatcher
<1>4. PICK P : P = Seq(Matchers) \ {<<>>}
  OBVIOUS
<1>5. \A m \in Matchers : <<m>> \in P
  BY <1>4, OneMatcher
<1>6. [i \in DOMAIN ms |-> <<ms[i]>>] \in [1..n -> P]
  BY <1>1, <1>2, <1>5
<1>7. CustomMatcher(ms) \in Seq(P)
  BY <1>3, <1>6, SeqDef
<1>8. Range(CustomMatcher(ms)) = {<<m>> : m \in Range(ms)}
  BY <1>3 DEF Range
<1> QED BY <1>3, <1>4, <1>7, <1>8, FlattenSingles DEF ParsedQueries

--------------------------------------------------------------------------------
(* The custom matchers of a query.                                              *)

(* The matchers of one attribute come together, in their order, and none is     *)
(* lost.                                                                        *)
LEMMA ByAttributeFacts ==
  ASSUME NEW V, NEW ms \in Seq(V)
  PROVE  /\ ByAttribute(ms) \in Seq(V)
         /\ \A a : OfAttribute(ByAttribute(ms), a) = OfAttribute(ms, a)
<1> DEFINE n == Len(ms)
           first(i) == \A j \in 1..(i - 1) : ms[j].attribute # ms[i].attribute
           group(i) == IF first(i) THEN OfAttribute(ms, ms[i].attribute) ELSE <<>>
           G == [i \in DOMAIN ms |-> group(i)]
<1>1. n \in Nat /\ DOMAIN ms = 1..n /\ \A i \in 1..n : ms[i] \in V
  BY ElementOfSeq
<1>2. <<>> \in Seq(V) /\ \A a : OfAttribute(ms, a) \in Seq(V)
  BY OfAttributeFacts
<1>3. ByAttribute(ms) = FlattenSeq(G)
  BY DEF ByAttribute
<1>4. \A i \in 1..n : G[i] = group(i) /\ group(i) \in Seq(V)
  BY <1>1, <1>2
<1>5. G \in Seq(Seq(V)) /\ DOMAIN G = 1..n
  <2>1. PICK T : T = Seq(V)
    OBVIOUS
  <2>2. G = [i \in 1..n |-> group(i)]
    BY <1>1
  <2>3. G \in [1..n -> T]
    BY <1>4, <2>1, <2>2
  <2> QED BY <1>1, <2>1, <2>3, SeqDef
<1> HIDE DEF G
<1>6. ByAttribute(ms) \in Seq(V)
  BY <1>3, <1>5, FlattenType
<1>7. ASSUME NEW a PROVE OfAttribute(ByAttribute(ms), a) = OfAttribute(ms, a)
  <2> DEFINE S == {m \in V : m.attribute = a}
             part == [s \in Seq(V) |-> Filtered(s, S)]
             H == Mapped(G, part)
  <2>1. ASSUME NEW s \in Seq(V) PROVE OfAttribute(s, a) = Filtered(s, S)
    <3>1. \A m \in Range(s) : m \in V
      BY DEF Range
    <3>2. \A m \in Range(s) : m \in S <=> m.attribute = a
      BY <3>1
    <3> QED BY <3>2, OfAttributeSame
  <2> HIDE DEF S
  <2>2. OfAttribute(ByAttribute(ms), a) = FlattenSeq(H)
    BY <1>3, <1>5, <1>6, <2>1, FilteredFlatten
  <2>3. /\ H \in Seq(Seq(V)) /\ DOMAIN H = 1..n
        /\ \A i \in 1..n : H[i] = Filtered(G[i], S)
    <3>1. PICK T : T = Seq(V)
      OBVIOUS
    <3>2. \A s \in T : part[s] \in T /\ part[s] = Filtered(s, S)
      BY <3>1, FilteredType
    <3> HIDE DEF part
    <3>0. G \in Seq(T) /\ \A v \in T : part[v] \in T
      BY <1>5, <3>1, <3>2
    <3>3. H \in Seq(T) /\ DOMAIN H = DOMAIN G /\ \A i \in DOMAIN G : H[i] = part[G[i]]
      BY <3>0, MappedType
    <3>4. \A i \in 1..n : G[i] \in T
      BY <1>4, <3>1
    <3> QED BY <1>5, <3>1, <3>2, <3>3, <3>4
  <2> HIDE DEF H
  <2>4. ASSUME NEW i \in 1..n
        PROVE  H[i] = IF first(i) /\ ms[i].attribute = a THEN OfAttribute(ms, a) ELSE <<>>
    <3>1. CASE ~first(i)
      BY <1>4, <2>3, <3>1, FilteredEmpty
    <3>2. CASE first(i)
      <4>1. PICK l \in Seq(V) : /\ l = OfAttribute(ms, ms[i].attribute)
                                /\ Range(l) = {m \in Range(ms) : m.attribute = ms[i].attribute}
        BY OfAttributeFacts
      <4>2. H[i] = OfAttribute(l, a)
        BY <1>4, <2>1, <2>3, <3>2, <4>1
      <4>3. CASE ms[i].attribute = a
        BY <3>2, <4>1, <4>2, <4>3, OfAttributeAll
      <4>4. CASE ms[i].attribute # a
        <5>1. \A m \in Range(l) : m.attribute # a
          BY <4>1, <4>4
        <5> QED BY <4>1, <4>2, <4>4, <5>1, OfAttributeNone
      <4> QED BY <4>3, <4>4
    <3> QED BY <3>1, <3>2
  <2> DEFINE at == {i \in 1..n : ms[i].attribute = a}
  <2>5. CASE at = {}
    <3>1. \A i \in DOMAIN H : H[i] = <<>>
      BY <2>3, <2>4, <2>5
    <3>2. \A m \in Range(ms) : m.attribute # a
      BY <1>1, <2>5 DEF Range
    <3> QED BY <2>2, <2>3, <3>1, <3>2, FlattenNone, OfAttributeNone
  <2>6. CASE at # {}
    <3>1. PICK k \in at : \A i \in at : k <= i
      <4>1. at \subseteq Nat
        BY <1>1
      <4> HIDE DEF at
      <4> QED BY <2>6, <4>1, Least
    <3>2. k \in 1..n /\ ms[k].attribute = a /\ k \in Nat
      BY <3>1
    <3>3. first(k)
      <4> SUFFICES ASSUME NEW j \in 1..(k - 1), ms[j].attribute = a PROVE FALSE
        BY <3>2
      <4>1. j \in at /\ j < k
        BY <1>1, <3>2
      <4> QED BY <3>1, <3>2, <4>1
    <3>4. H[k] = OfAttribute(ms, a)
      BY <2>4, <3>2, <3>3
    <3>5. ASSUME NEW i \in DOMAIN H \ {k} PROVE H[i] = <<>>
      <4>1. i \in 1..n /\ i # k
        BY <2>3
      <4>2. ~(first(i) /\ ms[i].attribute = a)
        <5> SUFFICES ASSUME ms[i].attribute = a, first(i) PROVE FALSE
          OBVIOUS
        <5>1. k <= i
          BY <3>1, <4>1
        <5>2. k \in 1..(i - 1)
          BY <3>2, <4>1, <5>1
        <5> QED BY <3>2, <5>2
      <4> QED BY <2>4, <4>1, <4>2
    <3>6. FlattenSeq(H) = H[k]
      BY <2>3, <3>2, <3>5, FlattenOnly
    <3> QED BY <2>2, <3>4, <3>6
  <2> QED BY <2>5, <2>6
<1> QED BY <1>6, <1>7

LEMMA SameRange ==
  ASSUME NEW V, NEW ms \in Seq(V), NEW ns \in Seq(V),
         \A a : OfAttribute(ms, a) = OfAttribute(ns, a)
  PROVE  Range(ms) = Range(ns)
<1>1. \A a : /\ Range(OfAttribute(ms, a)) = {m \in Range(ms) : m.attribute = a}
             /\ Range(OfAttribute(ns, a)) = {m \in Range(ns) : m.attribute = a}
  BY OfAttributeFacts
<1>2. \A m \in Range(ms) : m \in Range(OfAttribute(ms, m.attribute))
  BY <1>1
<1>3. \A m \in Range(ns) : m \in Range(OfAttribute(ns, m.attribute))
  BY <1>1
<1>4. \A m \in Range(ms) : m \in Range(ns)
  BY <1>1, <1>2
<1>5. \A m \in Range(ns) : m \in Range(ms)
  BY <1>1, <1>3
<1> QED BY <1>4, <1>5

(* SameMatchers says it of the attributes that occur, which are all that        *)
(* matter.                                                                      *)
LEMMA SameMatchersFacts ==
  ASSUME NEW V, NEW ms \in Seq(V), NEW ns \in Seq(V)
  PROVE  SameMatchers(ms, ns) <=> \A a : OfAttribute(ms, a) = OfAttribute(ns, a)
<1>1. ASSUME SameMatchers(ms, ns), NEW a PROVE OfAttribute(ms, a) = OfAttribute(ns, a)
  <2>1. CASE \E m \in Range(ms) \union Range(ns) : m.attribute = a
    BY <1>1, <2>1 DEF SameMatchers
  <2>2. CASE ~\E m \in Range(ms) \union Range(ns) : m.attribute = a
    <3>1. OfAttribute(ms, a) = <<>>
      BY <2>2, OfAttributeNone
    <3>2. OfAttribute(ns, a) = <<>>
      BY <2>2, OfAttributeNone
    <3> QED BY <3>1, <3>2
  <2> QED BY <2>1, <2>2
<1> QED BY <1>1 DEF SameMatchers

NoneKnown(ms) == \A m \in Range(ms) : ~IsKnown(m)

LEMMA OthersFacts ==
  ASSUME NEW V, NEW ms \in Seq(V)
  PROVE  /\ Others(ms) \in Seq(V) /\ NoneKnown(Others(ms))
         /\ NoneKnown(ms) => Others(ms) = ms
<1>1. Others(ms) \in Seq(V) /\ NoneKnown(Others(ms))
  BY FilteredFacts DEF Others, NoneKnown, IsKnown
<1>2. ASSUME NoneKnown(ms) PROVE Others(ms) = ms
  <2>1. Range(ms) \subseteq {m \in Range(ms) : m.attribute \notin KnownAttributes}
    BY <1>2 DEF NoneKnown, IsKnown
  <2> QED BY <2>1, FilteredAll DEF Others
<1> QED BY <1>1, <1>2

Tight(m) == [m EXCEPT !.spaced = FALSE]

LEMMA TightFacts ==
  ASSUME NEW m \in Matchers
  PROVE  /\ Tight(m) \in CustomMatchers /\ Tight(m).attribute = m.attribute
         /\ ~m.spaced => Tight(m) = m
BY DEF Tight, Matchers, CustomMatchers

(* Whatever is read as custom matchers has none of an attribute with a field of *)
(* its own; custom matchers are read back, ordered by attribute.                *)
LEMMA ReverseCustomFacts ==
  ASSUME NEW ms \in Seq(Matchers)
  PROVE  /\ ReverseCustomMatcher(ms) \in Seq(CustomMatchers)
         /\ NoneKnown(ReverseCustomMatcher(ms))
<1> DEFINE b == ByAttribute(Others(ms))
           r == ReverseCustomMatcher(ms)
<1>1. Others(ms) \in Seq(Matchers) /\ NoneKnown(Others(ms))
  BY OthersFacts
<1>2. b \in Seq(Matchers) /\ \A a : OfAttribute(b, a) = OfAttribute(Others(ms), a)
  BY <1>1, ByAttributeFacts
<1>3. Range(b) = Range(Others(ms))
  BY <1>1, <1>2, SameRange
<1>4. r = [i \in DOMAIN b |-> Tight(b[i])]
  BY DEF ReverseCustomMatcher, Map, Tight
<1> HIDE DEF b, r
<1>5. PICK n \in Nat : b \in [1..n -> Matchers]
  BY <1>2, SeqDef
<1>6. \A i \in 1..n : /\ Tight(b[i]) \in CustomMatchers
                      /\ Tight(b[i]).attribute = b[i].attribute
  BY <1>5, TightFacts
<1>7. r \in [1..n -> CustomMatchers]
  BY <1>4, <1>5, <1>6
<1>8. r \in Seq(CustomMatchers)
  BY <1>7, SeqDef
<1>9. \A i \in 1..n : ~IsKnown(r[i])
  <2>1. \A i \in 1..n : b[i] \in Range(Others(ms))
    BY <1>3, <1>5 DEF Range
  <2>2. \A i \in 1..n : r[i].attribute = b[i].attribute
    BY <1>4, <1>5, <1>6
  <2> QED BY <1>1, <2>1, <2>2 DEF NoneKnown, IsKnown
<1>10. NoneKnown(r)
  BY <1>7, <1>9 DEF NoneKnown, Range
<1> QED BY <1>8, <1>10 DEF r

LEMMA ReverseCustomSame ==
  ASSUME NEW ms \in Seq(CustomMatchers), NoneKnown(ms)
  PROVE  SameMatchers(ReverseCustomMatcher(ms), ms)
<1> DEFINE b == ByAttribute(ms)
           r == ReverseCustomMatcher(ms)
<1>1. Others(ms) = ms
  BY OthersFacts
<1>2. b \in Seq(CustomMatchers) /\ \A a : OfAttribute(b, a) = OfAttribute(ms, a)
  BY ByAttributeFacts
<1>3. r = [i \in DOMAIN b |-> Tight(b[i])]
  BY <1>1 DEF ReverseCustomMatcher, Map, Tight
<1> HIDE DEF b, r
<1>4. PICK n \in Nat : b \in [1..n -> CustomMatchers]
  BY <1>2, SeqDef
<1>5. \A m \in CustomMatchers : Tight(m) = m
  BY TightFacts DEF CustomMatchers
<1>6. r = b
  BY <1>3, <1>4, <1>5
<1> QED BY <1>2, <1>6, SameMatchersFacts DEF r

--------------------------------------------------------------------------------
(* What is read from a query is a filter.                                       *)

Unquoted(m) == Unescape(SubSeq(m.value, 2, Len(m.value) - 1))

LEMMA UnquotedType ==
  ASSUME NEW m \in Matchers
  PROVE  Unquoted(m) \in Texts
<1>1. PICK text \in Seq(Characters) : text = m.value /\ text # <<>>
  BY MatcherFields DEF Texts
<1>2. SubSeq(text, 2, Len(text) - 1) \in Seq(Characters)
  <2>1. PICK n \in Nat : text \in [1..n -> Characters]
    BY SeqDef
  <2>2. SubSeq(text, 2, n - 1) \in Seq(Characters)
    <3>1. CASE n <= 2
      <4>1. SubSeq(text, 2, n - 1) = <<>>
        BY <2>1, <3>1
      <4>2. <<>> \in Seq(Characters)
        OBVIOUS
      <4> QED BY <4>1, <4>2, Zenon
    <3>2. CASE n > 2
      BY <2>1, <3>2
    <3> QED BY <2>1, <3>1, <3>2
  <2> QED BY <2>1, <2>2
<1> QED BY <1>1, <1>2, UnescapeType, CharactersAssumption DEF Unquoted, Texts

ReadValues(m) == CASE m.operator = "="  -> <<Unquoted(m)>>
                   [] m.operator = "=~" -> Split(Unquoted(m), Bar)
                   [] OTHER -> <<>>

LEMMA ReadStringType ==
  ASSUME NEW ms \in Seq(Matchers)
  PROVE  ReverseStringMatcher(ms) \in Seq(Texts)
<1>1. ReverseStringMatcher(ms) = FlattenSeq([i \in DOMAIN ms |-> ReadValues(ms[i])])
  BY DEF ReverseStringMatcher, Map, ReadValues, Unquoted
<1>2. ASSUME NEW m \in Matchers PROVE ReadValues(m) \in Seq(Texts)
  <2>1. Unquoted(m) \in Texts
    BY UnquotedType
  <2>2. Split(Unquoted(m), Bar) \in Seq(Texts)
    BY <2>1, SplitType DEF Texts
  <2> QED BY <2>1, <2>2 DEF ReadValues
<1>3. PICK T : T = Seq(Texts)
  OBVIOUS
<1>4. PICK n \in Nat : ms \in [1..n -> Matchers]
  BY SeqDef
<1>5. [i \in DOMAIN ms |-> ReadValues(ms[i])] \in [1..n -> T]
  BY <1>2, <1>3, <1>4
<1>6. [i \in DOMAIN ms |-> ReadValues(ms[i])] \in Seq(Seq(Texts))
  BY <1>3, <1>5, SeqDef
<1> QED BY <1>1, <1>6, FlattenType

LEMMA ReadIntrinsicType ==
  ASSUME NEW ms \in Seq(Matchers)
  PROVE  ReverseIntrinsicMatcher(ms) \in Seq(Texts \ {<<>>})
<1> DEFINE l == OfOperator(ms, "=")
<1>1. l \in Seq(Matchers)
  BY OfOperatorFacts
<1>2. ReverseIntrinsicMatcher(ms) = [i \in DOMAIN l |-> l[i].value]
  BY DEF ReverseIntrinsicMatcher, Map
<1> HIDE DEF l
<1>3. PICK n \in Nat : l \in [1..n -> Matchers]
  BY <1>1, SeqDef
<1>4. \A i \in 1..n : l[i].value \in Texts \ {<<>>}
  BY <1>3, MatcherFields
<1>5. [i \in DOMAIN l |-> l[i].value] \in [1..n -> Texts \ {<<>>}]
  BY <1>3, <1>4
<1> QED BY <1>2, <1>5, SeqDef

LEMMA ReadEndType ==
  ASSUME NEW ms \in Seq(Matchers), NEW op
  PROVE  ReadEnd(ms, op) \in Texts
<1>1. OfOperator(ms, op) \in Seq(Matchers)
  BY OfOperatorFacts
<1>2. CASE OfOperator(ms, op) = <<>>
  BY <1>2 DEF ReadEnd, Texts
<1>3. CASE OfOperator(ms, op) # <<>>
  <2>1. Last(OfOperator(ms, op)) \in Matchers
    BY <1>1, <1>3 DEF Last
  <2> QED BY <1>3, <2>1, MatcherFields DEF ReadEnd
<1> QED BY <1>2, <1>3

LEMMA ReadDurationType ==
  ASSUME NEW ms \in Seq(Matchers)
  PROVE  ReverseDurationMatcher(ms) \in DurationFields
<1>1. ReverseDurationMatcher(ms) = [min |-> ReadEnd(ms, ">="), max |-> ReadEnd(ms, "<=")]
  BY DEF ReverseDurationMatcher, ReadEnd
<1> QED BY <1>1, ReadEndType DEF DurationFields

(* The fields of the filter of a query, of a filter.                            *)
LEMMA FieldsOfQuery ==
  ASSUME NEW q
  PROVE  LET f == TraceQLToFilter(q)
             of(a) == OfAttribute(FlattenSeq(q), a)
         IN  /\ f.serviceName = ReverseStringMatcher(of("resource.service.name"))
             /\ f.spanName = ReverseStringMatcher(of("name"))
             /\ f.namespace = ReverseStringMatcher(of("resource.k8s.namespace.name"))
             /\ f.status = ReverseIntrinsicMatcher(of("status"))
             /\ f.spanDuration = ReverseDurationMatcher(of("duration"))
             /\ f.traceDuration = ReverseDurationMatcher(of("traceDuration"))
             /\ f.customMatchers = ReverseCustomMatcher(FlattenSeq(q))
BY DEF TraceQLToFilter

LEMMA FieldsOfFilter ==
  ASSUME NEW f \in Filters
  PROVE  /\ f.serviceName \in Seq(Texts) /\ f.spanName \in Seq(Texts)
         /\ f.namespace \in Seq(Texts) /\ f.status \in Seq(Texts \ {<<>>})
         /\ f.spanDuration \in DurationFields /\ f.traceDuration \in DurationFields
         /\ f.customMatchers \in Seq(CustomMatchers)
         /\ DOMAIN f = DOMAIN NoFilter
BY DEF Filters, NoFilter

(* Whatever query there is, it is read as a filter, and nothing that has a      *)
(* field of its own is among the custom matchers (traceQLToFilter).             *)
THEOREM QueryIsRead ==
  ASSUME NEW q \in ParsedQueries
  PROVE  TraceQLToFilter(q) \in Filters /\ NoneKnown(TraceQLToFilter(q).customMatchers)
<1> DEFINE ms == FlattenSeq(q)
           f == TraceQLToFilter(q)
<1>1. ms \in Seq(Matchers)
  BY MatchersOfQuery
<1>2. \A a : OfAttribute(ms, a) \in Seq(Matchers)
  BY <1>1, OfAttributeFacts
<1>3. /\ ReverseCustomMatcher(ms) \in Seq(CustomMatchers)
      /\ NoneKnown(ReverseCustomMatcher(ms))
  BY <1>1, ReverseCustomFacts
<1>4. \A a : /\ ReverseStringMatcher(OfAttribute(ms, a)) \in Seq(Texts)
             /\ ReverseIntrinsicMatcher(OfAttribute(ms, a)) \in Seq(Texts \ {<<>>})
             /\ ReverseDurationMatcher(OfAttribute(ms, a)) \in DurationFields
  BY <1>2, ReadStringType, ReadIntrinsicType, ReadDurationType
<1>5. f = [serviceName    |-> ReverseStringMatcher(OfAttribute(ms, "resource.service.name")),
           spanName       |-> ReverseStringMatcher(OfAttribute(ms, "name")),
           namespace      |-> ReverseStringMatcher(OfAttribute(ms, "resource.k8s.namespace.name")),
           status         |-> ReverseIntrinsicMatcher(OfAttribute(ms, "status")),
           spanDuration   |-> ReverseDurationMatcher(OfAttribute(ms, "duration")),
           traceDuration  |-> ReverseDurationMatcher(OfAttribute(ms, "traceDuration")),
           customMatchers |-> ReverseCustomMatcher(ms)]
  BY DEF TraceQLToFilter
<1> HIDE DEF ms, f
<1>6. f \in Filters
  BY <1>3, <1>4, <1>5 DEF Filters
<1> QED BY <1>3, <1>5, <1>6 DEF f

--------------------------------------------------------------------------------
(* A filter that a query can hold is read back from its query.                  *)

(* The seven parts of the query of a filter.                                    *)
LEMMA QueryOfFilter ==
  ASSUME NEW g
  PROVE  FilterToTraceQL(g)
           = Seven(StringMatcher("resource.service.name", g.serviceName),
                   StringMatcher("name", g.spanName),
                   StringMatcher("resource.k8s.namespace.name", g.namespace),
                   IntrinsicMatcher("status", g.status),
                   DurationMatcher("duration", g.spanDuration),
                   DurationMatcher("traceDuration", g.traceDuration),
                   CustomMatcher(g.customMatchers))
BY DEF FilterToTraceQL, Seven, Cat

LEMMA PartsOfFilter ==
  ASSUME NEW g \in Filters
  PROVE  LET a == StringMatcher("resource.service.name", g.serviceName)
             b == StringMatcher("name", g.spanName)
             c == StringMatcher("resource.k8s.namespace.name", g.namespace)
             d == IntrinsicMatcher("status", g.status)
             e == DurationMatcher("duration", g.spanDuration)
             f == DurationMatcher("traceDuration", g.traceDuration)
             h == CustomMatcher(g.customMatchers)
         IN  /\ {a, b, c, d, e, f, h} \subseteq ParsedQueries
             /\ PartsOf(a, "resource.service.name") /\ PartsOf(b, "name")
             /\ PartsOf(c, "resource.k8s.namespace.name") /\ PartsOf(d, "status")
             /\ PartsOf(e, "duration") /\ PartsOf(f, "traceDuration")
<1>1. KnownAttributes \subseteq Characters
  BY CharactersAssumption
<1>2. /\ "resource.service.name" \in Characters /\ "name" \in Characters
      /\ "resource.k8s.namespace.name" \in Characters /\ "status" \in Characters
      /\ "duration" \in Characters /\ "traceDuration" \in Characters
  BY <1>1 DEF KnownAttributes
<1>3. \A a \in Characters, values \in Seq(Texts) :
        StringMatcher(a, values) \in ParsedQueries /\ PartsOf(StringMatcher(a, values), a)
  BY StringParts
<1>4. \A a \in Characters, values \in Seq(Texts \ {<<>>}) :
        IntrinsicMatcher(a, values) \in ParsedQueries /\ PartsOf(IntrinsicMatcher(a, values), a)
  BY IntrinsicParts
<1>5. \A a \in Characters, d \in DurationFields :
        DurationMatcher(a, d) \in ParsedQueries /\ PartsOf(DurationMatcher(a, d), a)
  BY DurationParts
<1>6. CustomMatcher(g.customMatchers) \in ParsedQueries
  BY FieldsOfFilter, CustomParts
<1> QED BY <1>2, <1>3, <1>4, <1>5, <1>6, FieldsOfFilter

LEMMA FilterIsWritten ==
  ASSUME NEW g \in Filters
  PROVE  FilterToTraceQL(g) \in ParsedQueries
<1>1. AreLists(Parts, StringMatcher("resource.service.name", g.serviceName),
                      StringMatcher("name", g.spanName),
                      StringMatcher("resource.k8s.namespace.name", g.namespace),
                      IntrinsicMatcher("status", g.status),
                      DurationMatcher("duration", g.spanDuration),
                      DurationMatcher("traceDuration", g.traceDuration),
                      CustomMatcher(g.customMatchers))
  BY PartsOfFilter DEF AreLists, ParsedQueries, Parts
<1> QED BY <1>1, QueryOfFilter, SevenFacts DEF ParsedQueries, Parts

(* The matchers of an attribute, among those of a list that are all of another. *)
LEMMA OfAttributeOnly ==
  ASSUME NEW V, NEW ms \in Seq(V), NEW b, \A m \in Range(ms) : m.attribute = b, NEW a
  PROVE  OfAttribute(ms, a) = IF a = b THEN ms ELSE <<>>
<1>1. CASE a = b
  BY <1>1, OfAttributeAll
<1>2. CASE a # b
  BY <1>2, OfAttributeNone
<1> QED BY <1>1, <1>2

LEMMA OfAttributeFlattened ==
  ASSUME NEW q \in ParsedQueries, NEW b, PartsOf(q, b), NEW a
  PROVE  OfAttribute(FlattenSeq(q), a) = IF a = b THEN FlattenSeq(q) ELSE <<>>
BY MatchersOfQuery, MatchersOfParts, OfAttributeOnly

LEMMA SevenOfAttribute ==
  ASSUME NEW V, NEW x, NEW a, NEW b, NEW c, NEW d, NEW e, NEW f, NEW g,
         AreLists(V, a, b, c, d, e, f, g)
  PROVE  OfAttribute(Seven(a, b, c, d, e, f, g), x)
           = Seven(OfAttribute(a, x), OfAttribute(b, x), OfAttribute(c, x),
                   OfAttribute(d, x), OfAttribute(e, x), OfAttribute(f, x),
                   OfAttribute(g, x))
<1> DEFINE S == {m \in V : m.attribute = x}
<1>1. ASSUME NEW s \in Seq(V) PROVE OfAttribute(s, x) = Filtered(s, S)
  <2>1. \A m \in Range(s) : m \in V
    BY DEF Range
  <2>2. \A m \in Range(s) : m \in S <=> m.attribute = x
    BY <2>1
  <2> QED BY <2>2, OfAttributeSame
<1> HIDE DEF S
<1>2. OfAttribute(Seven(a, b, c, d, e, f, g), x) = Filtered(Seven(a, b, c, d, e, f, g), S)
  BY <1>1, SevenFacts
<1>3. /\ OfAttribute(a, x) = Filtered(a, S) /\ OfAttribute(b, x) = Filtered(b, S)
      /\ OfAttribute(c, x) = Filtered(c, S) /\ OfAttribute(d, x) = Filtered(d, S)
      /\ OfAttribute(e, x) = Filtered(e, S) /\ OfAttribute(f, x) = Filtered(f, S)
      /\ OfAttribute(g, x) = Filtered(g, S)
  BY <1>1 DEF AreLists
<1> QED BY <1>2, <1>3, SevenFiltered

(* What is read of each attribute is the part that was written for it.          *)
AreFields(a, b, c, d, e, f, g) ==
  /\ a \in ParsedQueries /\ PartsOf(a, "resource.service.name")
  /\ b \in ParsedQueries /\ PartsOf(b, "name")
  /\ c \in ParsedQueries /\ PartsOf(c, "resource.k8s.namespace.name")
  /\ d \in ParsedQueries /\ PartsOf(d, "status")
  /\ e \in ParsedQueries /\ PartsOf(e, "duration")
  /\ f \in ParsedQueries /\ PartsOf(f, "traceDuration")
  /\ g \in ParsedQueries /\ NoneKnown(FlattenSeq(g))

LEMMA MatchersReadBack ==
  ASSUME NEW a, NEW b, NEW c, NEW d, NEW e, NEW f, NEW g, AreFields(a, b, c, d, e, f, g)
  PROVE  LET of(x) == OfAttribute(FlattenSeq(Seven(a, b, c, d, e, f, g)), x)
         IN  /\ of("resource.service.name") = FlattenSeq(a)
             /\ of("name") = FlattenSeq(b)
             /\ of("resource.k8s.namespace.name") = FlattenSeq(c)
             /\ of("status") = FlattenSeq(d)
             /\ of("duration") = FlattenSeq(e)
             /\ of("traceDuration") = FlattenSeq(f)
             /\ Others(FlattenSeq(Seven(a, b, c, d, e, f, g))) = FlattenSeq(g)
<1> DEFINE A == FlattenSeq(a)
           B == FlattenSeq(b)
           C == FlattenSeq(c)
           D == FlattenSeq(d)
           E == FlattenSeq(e)
           F == FlattenSeq(f)
           G == FlattenSeq(g)
           all == FlattenSeq(Seven(a, b, c, d, e, f, g))
<1>f. /\ a \in ParsedQueries /\ PartsOf(a, "resource.service.name")
      /\ b \in ParsedQueries /\ PartsOf(b, "name")
      /\ c \in ParsedQueries /\ PartsOf(c, "resource.k8s.namespace.name")
      /\ d \in ParsedQueries /\ PartsOf(d, "status")
      /\ e \in ParsedQueries /\ PartsOf(e, "duration")
      /\ f \in ParsedQueries /\ PartsOf(f, "traceDuration")
      /\ g \in ParsedQueries /\ NoneKnown(FlattenSeq(g))
  BY DEF AreFields
<1>1. /\ A \in Seq(Matchers) /\ B \in Seq(Matchers) /\ C \in Seq(Matchers)
      /\ D \in Seq(Matchers) /\ E \in Seq(Matchers) /\ F \in Seq(Matchers)
      /\ G \in Seq(Matchers)
  BY <1>f, MatchersOfQuery
<1>2. all = Seven(A, B, C, D, E, F, G)
  <2>1. AreLists(Seq(Matchers), a, b, c, d, e, f, g)
    BY <1>f, MatchersOfQuery DEF AreLists
  <2> QED BY <2>1, SevenFlattened
<1>3. \A x : /\ OfAttribute(A, x) = IF x = "resource.service.name" THEN A ELSE <<>>
             /\ OfAttribute(B, x) = IF x = "name" THEN B ELSE <<>>
             /\ OfAttribute(C, x) = IF x = "resource.k8s.namespace.name" THEN C ELSE <<>>
             /\ OfAttribute(D, x) = IF x = "status" THEN D ELSE <<>>
             /\ OfAttribute(E, x) = IF x = "duration" THEN E ELSE <<>>
             /\ OfAttribute(F, x) = IF x = "traceDuration" THEN F ELSE <<>>
  BY <1>f, OfAttributeFlattened
<1>4. \A x \in KnownAttributes : OfAttribute(G, x) = <<>>
  <2>1. \A m \in Range(G) : m.attribute \notin KnownAttributes
    BY <1>f DEF NoneKnown, IsKnown
  <2> QED BY <1>1, <2>1, OfAttributeNone
<1>5. /\ \A m \in Range(A) : m.attribute = "resource.service.name"
      /\ \A m \in Range(B) : m.attribute = "name"
      /\ \A m \in Range(C) : m.attribute = "resource.k8s.namespace.name"
      /\ \A m \in Range(D) : m.attribute = "status"
      /\ \A m \in Range(E) : m.attribute = "duration"
      /\ \A m \in Range(F) : m.attribute = "traceDuration"
      /\ \A m \in Range(G) : m.attribute \notin KnownAttributes
  BY <1>f, MatchersOfParts DEF NoneKnown, IsKnown
<1> HIDE DEF A, B, C, D, E, F, G
<1>0. AreLists(Matchers, A, B, C, D, E, F, G)
  BY <1>1 DEF AreLists
<1>6. \A x : OfAttribute(all, x)
               = Seven(OfAttribute(A, x), OfAttribute(B, x), OfAttribute(C, x),
                       OfAttribute(D, x), OfAttribute(E, x), OfAttribute(F, x),
                       OfAttribute(G, x))
  BY <1>0, <1>2, SevenOfAttribute
<1>7. Others(all) = G
  <2> DEFINE S == {m \in Range(all) : m.attribute \notin KnownAttributes}
  <2>1. /\ "resource.service.name" \in KnownAttributes /\ "name" \in KnownAttributes
        /\ "resource.k8s.namespace.name" \in KnownAttributes
        /\ "status" \in KnownAttributes
        /\ "duration" \in KnownAttributes /\ "traceDuration" \in KnownAttributes
    BY DEF KnownAttributes
  <2>2. /\ Range(A) \intersect S = {} /\ Range(B) \intersect S = {}
        /\ Range(C) \intersect S = {} /\ Range(D) \intersect S = {}
        /\ Range(E) \intersect S = {} /\ Range(F) \intersect S = {}
    BY <1>5, <2>1
  <2>3. Range(G) \subseteq S
    <3>1. Range(G) \subseteq Range(all)
      BY <1>0, <1>2, SevenFacts
    <3> QED BY <1>5, <3>1
  <2>4. Others(all) = Filtered(all, S)
    BY DEF Others
  <2> HIDE DEF S, all
  <2>5. /\ Filtered(A, S) = <<>> /\ Filtered(B, S) = <<>> /\ Filtered(C, S) = <<>>
        /\ Filtered(D, S) = <<>> /\ Filtered(E, S) = <<>> /\ Filtered(F, S) = <<>>
    BY <1>1, <2>2, FilteredNone
  <2>6. Filtered(G, S) = G
    BY <1>1, <2>3, FilteredAll
  <2>7. Filtered(all, S) = Seven(<<>>, <<>>, <<>>, <<>>, <<>>, <<>>, G)
    BY <1>0, <1>2, <2>5, <2>6, SevenFiltered
  <2> QED BY <1>1, <2>4, <2>7, SevenOne
<1> HIDE DEF all
<1>8. /\ OfAttribute(all, "resource.service.name") = A
      /\ OfAttribute(all, "name") = B
      /\ OfAttribute(all, "resource.k8s.namespace.name") = C
      /\ OfAttribute(all, "status") = D
      /\ OfAttribute(all, "duration") = E
      /\ OfAttribute(all, "traceDuration") = F
  <2>1. OfAttribute(all, "resource.service.name")
          = Seven(A, <<>>, <<>>, <<>>, <<>>, <<>>, <<>>)
    BY <1>3, <1>4, <1>6 DEF KnownAttributes
  <2>2. OfAttribute(all, "name") = Seven(<<>>, B, <<>>, <<>>, <<>>, <<>>, <<>>)
    BY <1>3, <1>4, <1>6 DEF KnownAttributes
  <2>3. OfAttribute(all, "resource.k8s.namespace.name")
          = Seven(<<>>, <<>>, C, <<>>, <<>>, <<>>, <<>>)
    BY <1>3, <1>4, <1>6 DEF KnownAttributes
  <2>4. OfAttribute(all, "status") = Seven(<<>>, <<>>, <<>>, D, <<>>, <<>>, <<>>)
    BY <1>3, <1>4, <1>6 DEF KnownAttributes
  <2>5. OfAttribute(all, "duration") = Seven(<<>>, <<>>, <<>>, <<>>, E, <<>>, <<>>)
    BY <1>3, <1>4, <1>6 DEF KnownAttributes
  <2>6. OfAttribute(all, "traceDuration") = Seven(<<>>, <<>>, <<>>, <<>>, <<>>, F, <<>>)
    BY <1>3, <1>4, <1>6 DEF KnownAttributes
  <2> QED BY <1>1, <2>1, <2>2, <2>3, <2>4, <2>5, <2>6, SevenOne
<1> QED BY <1>7, <1>8 DEF A, B, C, D, E, F, G, all

(* The filter, converted to a query and back, is the filter again: no value of  *)
(* any field breaks out of it, nothing of one field is taken for another's.     *)
(* Only the custom matchers may come in another order, ordered by attribute     *)
(* (filterToTraceQL and traceQLToFilter).                                       *)
THEOREM FilterReadsBack ==
  ASSUME NEW g \in Filters, ~Lossy(g)
  PROVE  SameFilter(TraceQLToFilter(FilterToTraceQL(g)), g)
<1> DEFINE a == StringMatcher("resource.service.name", g.serviceName)
           b == StringMatcher("name", g.spanName)
           c == StringMatcher("resource.k8s.namespace.name", g.namespace)
           d == IntrinsicMatcher("status", g.status)
           e == DurationMatcher("duration", g.spanDuration)
           f == DurationMatcher("traceDuration", g.traceDuration)
           h == CustomMatcher(g.customMatchers)
           q == FilterToTraceQL(g)
           r == TraceQLToFilter(q)
<1>0. KnownAttributes \subseteq Characters
  BY CharactersAssumption
<1>1. q = Seven(a, b, c, d, e, f, h)
  BY QueryOfFilter
<1>2. /\ a \in ParsedQueries /\ b \in ParsedQueries /\ c \in ParsedQueries
      /\ d \in ParsedQueries /\ e \in ParsedQueries /\ f \in ParsedQueries
      /\ h \in ParsedQueries
      /\ PartsOf(a, "resource.service.name") /\ PartsOf(b, "name")
      /\ PartsOf(c, "resource.k8s.namespace.name") /\ PartsOf(d, "status")
      /\ PartsOf(e, "duration") /\ PartsOf(f, "traceDuration")
  BY PartsOfFilter
<1>3. FlattenSeq(h) = g.customMatchers /\ NoneKnown(g.customMatchers)
  <2>1. NoneKnown(g.customMatchers)
    BY DEF Lossy, NoneKnown
  <2> QED BY <2>1, FieldsOfFilter, CustomParts
<1>4. /\ ReverseStringMatcher(FlattenSeq(a)) = g.serviceName
      /\ ReverseStringMatcher(FlattenSeq(b)) = g.spanName
      /\ ReverseStringMatcher(FlattenSeq(c)) = g.namespace
  <2>1. ~HasBar(g.serviceName) /\ ~HasBar(g.spanName) /\ ~HasBar(g.namespace)
    BY DEF Lossy, StringFields
  <2> QED BY <2>1, FieldsOfFilter, StringFieldReadsBack, CharactersAssumption DEF Texts
<1>5. ReverseIntrinsicMatcher(FlattenSeq(d)) = g.status
  BY <1>0, FieldsOfFilter, IntrinsicParts DEF KnownAttributes
<1>6. /\ ReverseDurationMatcher(FlattenSeq(e)) = g.spanDuration
      /\ ReverseDurationMatcher(FlattenSeq(f)) = g.traceDuration
  BY <1>0, FieldsOfFilter, DurationParts DEF KnownAttributes
<1>7. ReverseCustomMatcher(g.customMatchers) \in Seq(CustomMatchers)
      /\ SameMatchers(ReverseCustomMatcher(g.customMatchers), g.customMatchers)
  <2>1. g.customMatchers \in Seq(CustomMatchers)
    BY FieldsOfFilter
  <2>2. g.customMatchers \in Seq(Matchers)
    BY <2>1 DEF CustomMatchers
  <2>3. ReverseCustomMatcher(g.customMatchers) \in Seq(CustomMatchers)
    BY <2>2, ReverseCustomFacts
  <2> QED BY <1>3, <2>1, <2>3, ReverseCustomSame
<1> HIDE DEF a, b, c, d, e, f, h
<1>8. /\ OfAttribute(FlattenSeq(q), "resource.service.name") = FlattenSeq(a)
      /\ OfAttribute(FlattenSeq(q), "name") = FlattenSeq(b)
      /\ OfAttribute(FlattenSeq(q), "resource.k8s.namespace.name") = FlattenSeq(c)
      /\ OfAttribute(FlattenSeq(q), "status") = FlattenSeq(d)
      /\ OfAttribute(FlattenSeq(q), "duration") = FlattenSeq(e)
      /\ OfAttribute(FlattenSeq(q), "traceDuration") = FlattenSeq(f)
      /\ Others(FlattenSeq(q)) = FlattenSeq(h)
  <2>1. AreFields(a, b, c, d, e, f, h)
    BY <1>2, <1>3 DEF AreFields
  <2> QED BY <1>1, <2>1, MatchersReadBack
<1>9. ReverseCustomMatcher(FlattenSeq(q)) = ReverseCustomMatcher(g.customMatchers)
  <2>1. Others(g.customMatchers) = g.customMatchers
    BY <1>3, FieldsOfFilter, OthersFacts
  <2> QED BY <1>3, <1>8, <2>1 DEF ReverseCustomMatcher
<1> HIDE DEF q, r
<1>10. /\ r.serviceName = g.serviceName /\ r.spanName = g.spanName
       /\ r.namespace = g.namespace /\ r.status = g.status
       /\ r.spanDuration = g.spanDuration /\ r.traceDuration = g.traceDuration
       /\ r.customMatchers = ReverseCustomMatcher(g.customMatchers)
  BY <1>4, <1>5, <1>6, <1>8, <1>9, FieldsOfQuery DEF r
<1> QED BY <1>7, <1>10 DEF SameFilter, NoFilter, q, r

--------------------------------------------------------------------------------
(* Texts that are cut where they were joined.                                   *)

Rest(cuts) == {i \in Nat : i + 1 \in cuts}

LEMMA RestFacts ==
  ASSUME NEW cuts, NEW i \in Nat
  PROVE  i \in Rest(cuts) <=> i + 1 \in cuts
BY DEF Rest

LEMMA PiecesRest ==
  ASSUME NEW V, NEW x \in V, NEW r \in Seq(V), NEW cuts
  PROVE  /\ 1 \in cuts => Pieces(Cons(x, r), cuts) = Cons(<<>>, Pieces(r, Rest(cuts)))
         /\ 1 \notin cuts => Pieces(Cons(x, r), cuts) = Longer(x, Pieces(r, Rest(cuts)))
<1>1. \A i \in 1..Len(r) : i \in Rest(cuts) <=> i + 1 \in cuts
  BY RestFacts
<1> QED BY <1>1, PiecesStep

LEMMA PiecesType ==
  ASSUME NEW V, NEW text \in Seq(V), NEW cuts
  PROVE  Pieces(text, cuts) \in Seq(Seq(V)) /\ Pieces(text, cuts) # <<>>
<1> DEFINE ok(t) == \A c : Pieces(t, c) \in Seq(Seq(V)) /\ Pieces(t, c) # <<>>
           S == {t \in Seq(V) : ok(t)}
<1>1. <<>> \in S
  <2>1. <<<<>>>> \in Seq(Seq(V)) /\ <<<<>>>> # <<>> /\ <<>> \in Seq(V)
    OBVIOUS
  <2> QED BY <2>1, PiecesEmpty
<1>2. ASSUME NEW x \in V, NEW r \in Seq(V), ok(r) PROVE ok(Cons(x, r))
  <2> SUFFICES ASSUME NEW c
               PROVE  /\ Pieces(Cons(x, r), c) \in Seq(Seq(V))
                      /\ Pieces(Cons(x, r), c) # <<>>
    OBVIOUS
  <2> DEFINE rest == Rest(c)
  <2>1. /\ 1 \in c => Pieces(Cons(x, r), c) = Cons(<<>>, Pieces(r, rest))
        /\ 1 \notin c => Pieces(Cons(x, r), c) = Longer(x, Pieces(r, rest))
    BY PiecesRest
  <2>2. Pieces(r, rest) \in Seq(Seq(V)) /\ Pieces(r, rest) # <<>>
    BY <1>2
  <2>3. Longer(x, Pieces(r, rest)) \in Seq(Seq(V)) /\ Longer(x, Pieces(r, rest)) # <<>>
    BY <2>2, LongerFacts
  <2>4. PICK T : T = Seq(V)
    OBVIOUS
  <2>5. <<>> \in T /\ Pieces(r, rest) \in Seq(T)
    BY <2>2, <2>4
  <2>6. Cons(<<>>, Pieces(r, rest)) \in Seq(T) /\ Cons(<<>>, Pieces(r, rest)) # <<>>
    BY <2>5, ConsFacts
  <2> QED BY <2>1, <2>3, <2>4, <2>6
<1>3. S = Seq(V)
  <2>1. S \in SUBSET Seq(V)
    OBVIOUS
  <2>2. \A x \in V, r \in S : Cons(x, r) \in S
    <3> HIDE DEF ok
    <3> QED BY <1>2, ConsFacts
  <2> HIDE DEF S
  <2> QED BY <1>1, <2>1, <2>2, ListInduction
<1> QED BY <1>3

LEMMA PiecesNone ==
  ASSUME NEW V, NEW text \in Seq(V), NEW cuts, \A i \in 1..Len(text) : i \notin cuts
  PROVE  Pieces(text, cuts) = <<text>>
<1> DEFINE whole(t) == \A c : (\A i \in 1..Len(t) : i \notin c) => Pieces(t, c) = <<t>>
           S == {t \in Seq(V) : whole(t)}
<1>1. <<>> \in S
  BY PiecesEmpty
<1>2. ASSUME NEW x \in V, NEW r \in Seq(V), whole(r) PROVE whole(Cons(x, r))
  <2> SUFFICES ASSUME NEW c, \A i \in 1..Len(Cons(x, r)) : i \notin c
               PROVE  Pieces(Cons(x, r), c) = <<Cons(x, r)>>
    OBVIOUS
  <2> DEFINE rest == Rest(c)
  <2>1. /\ \A i \in Nat : i \in rest <=> i + 1 \in c
        /\ 1 \notin c => Pieces(Cons(x, r), c) = Longer(x, Pieces(r, rest))
    BY PiecesRest, RestFacts
  <2>2. Len(r) \in Nat /\ Len(Cons(x, r)) = Len(r) + 1
    BY ConsFacts, LenProperties
  <2>3. 1 \notin c
    BY <2>2
  <2>4. \A i \in 1..Len(r) : i \notin rest
    <3>1. \A i \in 1..Len(r) : i \in Nat /\ i + 1 \in 1..(Len(r) + 1)
      BY <2>2
    <3> QED BY <2>1, <2>2, <3>1
  <2>5. Pieces(r, rest) = <<r>>
    BY <1>2, <2>4
  <2>6. Longer(x, <<r>>) = <<Cons(x, r)>>
    <3>1. Head(<<r>>) = r /\ Tail(<<r>>) = <<>>
      OBVIOUS
    <3>2. \A h : Cons(h, <<>>) = <<h>>
      BY DEF Cons
    <3> QED BY <3>1, <3>2 DEF Longer
  <2> QED BY <2>1, <2>3, <2>5, <2>6
<1>3. S = Seq(V)
  <2>1. S \in SUBSET Seq(V)
    OBVIOUS
  <2>2. \A x \in V, r \in S : Cons(x, r) \in S
    <3> HIDE DEF whole
    <3> QED BY <1>2, ConsFacts
  <2> HIDE DEF S
  <2> QED BY <1>1, <2>1, <2>2, ListInduction
<1> QED BY <1>3

(* A text that follows a last cut is the last piece.                            *)
CutsAfter(t, v, cuts, all) ==
  /\ \A i \in 1..Len(t) : i \in all <=> i \in cuts
  /\ Len(t) + 1 \in all
  /\ \A i \in 1..Len(v) : Len(t) + 1 + i \notin all

LEMMA PiecesLast ==
  ASSUME NEW V, NEW c \in V, NEW text \in Seq(V), NEW v \in Seq(V), NEW cuts, NEW all,
         CutsAfter(text, v, cuts, all)
  PROVE  Pieces(Cat(text, Cons(c, v)), all) = Append(Pieces(text, cuts), v)
<1> DEFINE w == Cons(c, v)
           ends(t) == \A k, a : CutsAfter(t, v, k, a)
                                  => Pieces(Cat(t, w), a) = Append(Pieces(t, k), v)
           S == {t \in Seq(V) : ends(t)}
<1>1. w \in Seq(V)
  BY ConsFacts
<1>0. Len(v) \in Nat
  BY LenProperties
<1>2. <<>> \in S
  <2> SUFFICES ASSUME NEW k, NEW a, CutsAfter(<<>>, v, k, a)
               PROVE  Pieces(Cat(<<>>, w), a) = Append(Pieces(<<>>, k), v)
    OBVIOUS
  <2> DEFINE rest == Rest(a)
  <2>1. /\ \A i \in Nat : i \in rest <=> i + 1 \in a
        /\ 1 \in a => Pieces(w, a) = Cons(<<>>, Pieces(v, rest))
    BY PiecesRest, RestFacts
  <2>2. Len(<<>>) = 0
    OBVIOUS
  <2>3. 1 \in a /\ \A i \in 1..Len(v) : 1 + i \notin a
    BY <1>0, <2>2 DEF CutsAfter
  <2>4. \A i \in 1..Len(v) : i \notin rest
    BY <1>0, <2>1, <2>3
  <2>5. Pieces(v, rest) = <<v>>
    BY <2>4, PiecesNone
  <2> HIDE DEF w
  <2>6. Cat(<<>>, w) = w
    BY <1>1, CatEmpty
  <2>7. Append(<<<<>>>>, v) = Cons(<<>>, <<v>>)
    BY DEF Cons
  <2> QED BY <2>1, <2>3, <2>5, <2>6, <2>7, PiecesEmpty
<1> HIDE DEF w
<1>3. \A x \in V, r \in Seq(V) : Cat(Cons(x, r), w) = Cons(x, Cat(r, w))
  BY <1>1, ConsCat
<1>4. ASSUME NEW x \in V, NEW r \in Seq(V), ends(r) PROVE ends(Cons(x, r))
  <2> SUFFICES ASSUME NEW k, NEW a, CutsAfter(Cons(x, r), v, k, a)
               PROVE  Pieces(Cat(Cons(x, r), w), a) = Append(Pieces(Cons(x, r), k), v)
    OBVIOUS
  <2>1. PICK T : T = Seq(V)
    OBVIOUS
  <2> DEFINE u == Cat(r, w)
  <2>2. u \in Seq(V) /\ Cat(Cons(x, r), w) = Cons(x, u)
    <3>1. u \in Seq(V)
      BY <1>1, CatFacts
    <3>2. Cat(Cons(x, r), w) = Cons(x, u)
      BY <1>3
    <3> QED BY <3>1, <3>2
  <2> DEFINE ra == Rest(a)
             rk == Rest(k)
  <2>3. /\ \A i \in Nat : i \in ra <=> i + 1 \in a
        /\ 1 \in a => Pieces(Cons(x, u), a) = Cons(<<>>, Pieces(u, ra))
        /\ 1 \notin a => Pieces(Cons(x, u), a) = Longer(x, Pieces(u, ra))
    BY <2>2, PiecesRest, RestFacts
  <2>4. /\ \A i \in Nat : i \in rk <=> i + 1 \in k
        /\ 1 \in k => Pieces(Cons(x, r), k) = Cons(<<>>, Pieces(r, rk))
        /\ 1 \notin k => Pieces(Cons(x, r), k) = Longer(x, Pieces(r, rk))
    <3>1. \A i \in Nat : i \in rk <=> i + 1 \in k
      BY RestFacts
    <3> QED BY <3>1, PiecesRest
  <2>5. Len(r) \in Nat /\ Len(Cons(x, r)) = Len(r) + 1
    BY ConsFacts, LenProperties
  <2>6. /\ \A i \in 1..(Len(r) + 1) : i \in a <=> i \in k
        /\ Len(r) + 2 \in a
        /\ \A i \in 1..Len(v) : Len(r) + 2 + i \notin a
    <3>1. Len(r) + 1 + 1 = Len(r) + 2
      BY <2>5
    <3> QED BY <2>5, <3>1 DEF CutsAfter
  <2>7. CutsAfter(r, v, rk, ra)
    <3>1. \A i \in 1..Len(r) : i \in ra <=> i \in rk
      <4>1. \A i \in 1..Len(r) : i \in Nat /\ i + 1 \in 1..(Len(r) + 1)
        BY <2>5
      <4> QED BY <2>3, <2>4, <2>6, <4>1
    <3>2. Len(r) + 1 \in ra
      <4>1. Len(r) + 1 \in Nat /\ Len(r) + 1 + 1 = Len(r) + 2
        BY <2>5
      <4> QED BY <2>3, <2>6, <4>1
    <3>3. \A i \in 1..Len(v) : Len(r) + 1 + i \notin ra
      <4>1. \A i \in 1..Len(v) : /\ Len(r) + 1 + i \in Nat
                                 /\ (Len(r) + 1 + i) + 1 = Len(r) + 2 + i
        BY <1>0, <2>5
      <4> QED BY <2>3, <2>6, <4>1
    <3> QED BY <3>1, <3>2, <3>3 DEF CutsAfter
  <2> DEFINE ps == Pieces(r, rk)
  <2>8. Pieces(u, ra) = Append(ps, v)
    BY <1>4, <2>7
  <2>9. ps \in Seq(Seq(V)) /\ ps # <<>>
    BY PiecesType
  <2>10. 1 \in a <=> 1 \in k
    BY <2>5, <2>6
  <2> HIDE DEF ps, u
  <2>11. Longer(x, Append(ps, v)) = Append(Longer(x, ps), v)
    BY <2>9, LongerFacts
  <2>12. Cons(<<>>, Append(ps, v)) = Append(Cons(<<>>, ps), v)
    <3>1. ps \in Seq(T) /\ <<>> \in T /\ v \in T
      BY <2>1, <2>9
    <3> QED BY <3>1, ConsAppend
  <2>13. /\ 1 \in k => Pieces(Cons(x, r), k) = Cons(<<>>, ps)
         /\ 1 \notin k => Pieces(Cons(x, r), k) = Longer(x, ps)
    BY <2>4 DEF ps
  <2>14. /\ 1 \in a => Pieces(Cons(x, u), a) = Cons(<<>>, Append(ps, v))
         /\ 1 \notin a => Pieces(Cons(x, u), a) = Longer(x, Append(ps, v))
    BY <2>3, <2>8
  <2> QED BY <2>2, <2>10, <2>11, <2>12, <2>13, <2>14
<1>5. S = Seq(V)
  <2>1. S \in SUBSET Seq(V)
    OBVIOUS
  <2>2. \A x \in V, r \in S : Cons(x, r) \in S
    <3> HIDE DEF ends
    <3> QED BY <1>4, ConsFacts
  <2> HIDE DEF S
  <2> QED BY <1>2, <2>1, <2>2, ListInduction
<1> QED BY <1>5 DEF w

--------------------------------------------------------------------------------
(* What is between quotes.                                                      *)

(* After each character, whether a quote is open.                               *)
Quoted(text) ==
  LET quoted[i \in 0..Len(text)] ==
        IF i = 0 THEN FALSE
        ELSE IF IsQuote(text, i) THEN ~quoted[i - 1] ELSE quoted[i - 1]
  IN quoted

LEMMA UnquotedIs ==
  ASSUME NEW text
  PROVE  UnquotedBlanks(text) = {i \in DOMAIN text : text[i] = Blank /\ ~Quoted(text)[i]}
BY DEF UnquotedBlanks, Quoted

IsQuoting(f, text, n) ==
  f = [i \in 0..n |-> IF i = 0 THEN FALSE
                      ELSE IF IsQuote(text, i) THEN ~f[i - 1] ELSE f[i - 1]]

LEMMA QuotedFacts ==
  ASSUME NEW V, NEW text \in Seq(V)
  PROVE  /\ ~Quoted(text)[0]
         /\ \A i \in 1..Len(text) :
              Quoted(text)[i] <=> ~(IsQuote(text, i) <=> Quoted(text)[i - 1])
<1> DEFINE step(f, i) == IF IsQuote(text, i) THEN ~f[i - 1] ELSE f[i - 1]
           upTo(f, n) == f = [i \in 0..n |-> IF i = 0 THEN FALSE ELSE step(f, i)]
           X == {n \in Nat : \E f : upTo(f, n)}
<1>1. 0 \in X
  <2>1. upTo([i \in 0..0 |-> FALSE], 0)
    OBVIOUS
  <2> QED BY <2>1
<1>2. ASSUME NEW n \in X PROVE n + 1 \in X
  <2>1. PICK f : upTo(f, n)
    OBVIOUS
  <2> DEFINE g == [i \in 0..(n + 1) |-> IF i = n + 1 THEN step(f, n + 1) ELSE f[i]]
  <2>2. n \in Nat
    OBVIOUS
  <2>3. \A i \in 0..n : g[i] = f[i]
    BY <2>2
  <2>4. \A i \in 0..n : f[i] = IF i = 0 THEN FALSE ELSE step(f, i)
    BY <2>1
  <2>5. \A i \in 1..(n + 1) : step(g, i) = step(f, i)
    BY <2>2, <2>3
  <2>6. \A i \in 0..(n + 1) : g[i] = IF i = 0 THEN FALSE ELSE step(g, i)
    <3> SUFFICES ASSUME NEW i \in 0..(n + 1)
                 PROVE  g[i] = IF i = 0 THEN FALSE ELSE step(g, i)
      OBVIOUS
    <3>1. CASE i = n + 1
      <4> HIDE DEF step
      <4>1. g[i] = step(f, i)
        BY <3>1
      <4>2. i # 0 /\ i \in 1..(n + 1)
        BY <2>2, <3>1
      <4>3. g[i] = step(g, i)
        BY <2>5, <4>1, <4>2, Zenon
      <4> QED BY <4>2, <4>3
    <3>2. CASE i # n + 1
      <4>1. i \in 0..n /\ (i # 0 => i \in 1..(n + 1))
        BY <2>2, <3>2
      <4> QED BY <2>3, <2>4, <2>5, <4>1
    <3> QED BY <3>1, <3>2
  <2> HIDE DEF step
  <2>7. upTo(g, n + 1)
    BY <2>6
  <2> HIDE DEF g
  <2>8. \E h : upTo(h, n + 1)
    BY <2>7
  <2>9. n + 1 \in Nat
    BY <2>2
  <2> HIDE DEF upTo
  <2> QED BY <2>8, <2>9
<1>3. Len(text) \in X
  <2> HIDE DEF X
  <2>1. X = Nat
    <3>1. X \in SUBSET Nat
      BY DEF X
    <3> QED BY <1>1, <1>2, <3>1, Induction
  <2> QED BY <2>1
<1>4. PICK f : IsQuoting(f, text, Len(text))
  BY <1>3 DEF IsQuoting
<1> DEFINE F == CHOOSE h : IsQuoting(h, text, Len(text))
<1>5. F = Quoted(text)
  BY DEF Quoted, IsQuoting
<1> HIDE DEF F
<1>6. IsQuoting(F, text, Len(text))
  BY <1>4 DEF F
<1>7. \A i \in 0..Len(text) :
        F[i] = IF i = 0 THEN FALSE ELSE IF IsQuote(text, i) THEN ~F[i - 1] ELSE F[i - 1]
  BY <1>6 DEF IsQuoting
<1>8. 0 \in 0..Len(text) /\ \A i \in 1..Len(text) : i \in 0..Len(text) /\ i # 0
  BY LenProperties
<1>9. ~F[0]
  BY <1>7, <1>8
<1>10. \A i \in 0..Len(text) : F[i] \in BOOLEAN
  <2> DEFINE Y == {i \in Nat : i <= Len(text) => F[i] \in BOOLEAN}
  <2>1. 0 \in Y
    BY <1>7, <1>8
  <2>2. ASSUME NEW i \in Y PROVE i + 1 \in Y
    <3> SUFFICES ASSUME i + 1 <= Len(text) PROVE F[i + 1] \in BOOLEAN
      OBVIOUS
    <3>1. F[i] \in BOOLEAN
      BY LenProperties
    <3>2. i + 1 \in 0..Len(text) /\ i + 1 # 0 /\ (i + 1) - 1 = i
      BY LenProperties
    <3>3. F[i + 1] = IF IsQuote(text, i + 1) THEN ~F[i] ELSE F[i]
      BY <1>7, <3>2
    <3> QED BY <3>1, <3>3
  <2> HIDE DEF Y
  <2>3. Y = Nat
    <3>1. Y \in SUBSET Nat
      BY DEF Y
    <3> QED BY <2>1, <2>2, <3>1, Induction
  <2> QED BY <2>3, LenProperties DEF Y
<1>11. \A i \in 1..Len(text) : F[i] <=> ~(IsQuote(text, i) <=> F[i - 1])
  <2> SUFFICES ASSUME NEW i \in 1..Len(text)
               PROVE  F[i] <=> ~(IsQuote(text, i) <=> F[i - 1])
    OBVIOUS
  <2>1. F[i] = IF IsQuote(text, i) THEN ~F[i - 1] ELSE F[i - 1]
    BY <1>7, <1>8
  <2>2. F[i] \in BOOLEAN /\ F[i - 1] \in BOOLEAN
    <3>1. i \in 0..Len(text) /\ i - 1 \in 0..Len(text)
      BY LenProperties
    <3> QED BY <1>10, <3>1
  <2>3. CASE IsQuote(text, i)
    <3>1. F[i] = ~F[i - 1]
      BY <2>1, <2>3
    <3> QED BY <2>2, <2>3, <3>1
  <2>4. CASE ~IsQuote(text, i)
    <3>1. F[i] = F[i - 1]
      BY <2>1, <2>4
    <3> QED BY <2>2, <2>4, <3>1
  <2> QED BY <2>3, <2>4
<1> QED BY <1>5, <1>9, <1>11

(* A text within another one, after k characters, where no quote is open.       *)
LEMMA QuotedWithin ==
  ASSUME NEW V, NEW t \in Seq(V), NEW u \in Seq(V), NEW k \in Nat, k + Len(t) <= Len(u),
         ~Quoted(u)[k], \A i \in 1..Len(t) : IsQuote(u, k + i) <=> IsQuote(t, i)
  PROVE  \A i \in 0..Len(t) : Quoted(u)[k + i] <=> Quoted(t)[i]
<1> DEFINE n == Len(t)
           X == {i \in Nat : i <= n => (Quoted(u)[k + i] <=> Quoted(t)[i])}
<1>1. n \in Nat /\ Len(u) \in Nat
  BY LenProperties
<1>2. 0 \in X
  <2>1. k + 0 = k
    OBVIOUS
  <2> QED BY <2>1, QuotedFacts
<1>3. ASSUME NEW i \in X PROVE i + 1 \in X
  <2> SUFFICES ASSUME i + 1 <= n PROVE Quoted(u)[k + (i + 1)] <=> Quoted(t)[i + 1]
    OBVIOUS
  <2>1. Quoted(u)[k + i] <=> Quoted(t)[i]
    BY <1>1
  <2>2. /\ i + 1 \in 1..Len(t) /\ (i + 1) - 1 = i
        /\ k + (i + 1) \in 1..Len(u) /\ (k + (i + 1)) - 1 = k + i
    BY <1>1
  <2>3. IsQuote(u, k + (i + 1)) <=> IsQuote(t, i + 1)
    BY <2>2
  <2>4. Quoted(t)[i + 1] <=> ~(IsQuote(t, i + 1) <=> Quoted(t)[i])
    BY <2>2, QuotedFacts
  <2>5. Quoted(u)[k + (i + 1)] <=> ~(IsQuote(u, k + (i + 1)) <=> Quoted(u)[k + i])
    BY <2>2, QuotedFacts
  <2> QED BY <2>1, <2>3, <2>4, <2>5
<1> HIDE DEF X
<1>4. X = Nat
  <2>1. X \in SUBSET Nat
    BY DEF X
  <2> QED BY <1>2, <1>3, <2>1, Induction
<1> SUFFICES ASSUME NEW i \in 0..n PROVE Quoted(u)[k + i] <=> Quoted(t)[i]
  OBVIOUS
<1>5. i \in X /\ i <= n
  BY <1>1, <1>4
<1> QED BY <1>5 DEF X

--------------------------------------------------------------------------------
(* The custom attributes are read from the text that they are typed as.         *)

LEMMA TypedFacts ==
  ASSUME NEW m \in CustomMatchers
  PROVE  /\ Typed(m) \in Texts /\ Typed(m) # <<>>
         /\ Len(m.value) \in Nat \ {0} /\ Len(Typed(m)) = Len(m.value) + 2
         /\ Typed(m)[1] = m.attribute /\ Typed(m)[2] = m.operator
         /\ \A i \in 1..Len(m.value) : Typed(m)[i + 2] = m.value[i]
<1>1. m \in Matchers
  BY DEF CustomMatchers
<1>2. PICK a \in Characters, op \in Characters, v \in Seq(Characters) :
        a = m.attribute /\ op = m.operator /\ v = m.value /\ v # <<>>
  BY <1>1, MatcherFields DEF Texts
<1>3. /\ <<a, op>> \o v \in Seq(Characters) /\ Len(<<a, op>> \o v) = Len(v) + 2
      /\ (<<a, op>> \o v)[1] = a /\ (<<a, op>> \o v)[2] = op
      /\ \A i \in 1..Len(v) : (<<a, op>> \o v)[i + 2] = v[i]
  OBVIOUS
<1>4. Len(v) \in Nat \ {0}
  BY <1>2, EmptySeq
<1>5. Typed(m) = <<a, op>> \o v
  BY <1>2 DEF Typed
<1>6. Typed(m) # <<>>
  BY <1>3, <1>4, <1>5
<1> QED BY <1>2, <1>3, <1>4, <1>5, <1>6 DEF Texts

LEMMA ParsedTyped ==
  ASSUME NEW m \in CustomMatchers
  PROVE  Parsed(Typed(m)) = m
<1> DEFINE c == Typed(m)
           n == Len(m.value)
           s == SubSeq(c, 3, n + 2)
<1>1. /\ c \in Texts /\ n \in Nat \ {0} /\ Len(c) = n + 2
      /\ c[1] = m.attribute /\ c[2] = m.operator
      /\ \A i \in 1..n : c[i + 2] = m.value[i]
  BY TypedFacts
<1>2. m \in Matchers /\ ~m.spaced
  BY DEF CustomMatchers
<1>3. m.value \in Seq(Characters) /\ m.spaced = FALSE
  BY <1>2, MatcherFields DEF Texts
<1> HIDE DEF c
<1>4. s \in Seq(Characters) /\ Len(s) = n /\ \A i \in 1..n : s[i] = c[i + 2]
  <2>1. \A i \in 3..(n + 2) : c[i] \in Characters
    <3>1. \A i \in 3..(n + 2) : i \in 1..Len(c)
      BY <1>1
    <3>2. \A i \in 1..Len(c) : c[i] \in Characters
      BY <1>1, ElementOfSeq DEF Texts
    <3> QED BY <3>1, <3>2
  <2>2. 3 \in Int /\ n + 2 \in Int
    BY <1>1
  <2> HIDE DEF n
  <2>3. /\ s \in Seq(Characters)
        /\ Len(s) = (IF 3 <= n + 2 THEN (n + 2) - 3 + 1 ELSE 0)
        /\ \A i \in 1..((n + 2) - 3 + 1) : s[i] = c[3 + i - 1]
    BY <2>1, <2>2, SubSeqProperties
  <2>4. (IF 3 <= n + 2 THEN (n + 2) - 3 + 1 ELSE 0) = n /\ (n + 2) - 3 + 1 = n
        /\ \A i \in 1..n : 3 + i - 1 = i + 2
    BY <1>1
  <2> HIDE DEF s
  <2> QED BY <2>3, <2>4
<1>5. s = m.value
  <2> HIDE DEF s
  <2>1. \A i \in 1..n : s[i] = m.value[i]
    BY <1>1, <1>4
  <2> QED BY <1>3, <1>4, <2>1, SeqEqual
<1>6. Parsed(c) = Matcher(m.attribute, m.operator, m.value, FALSE)
  BY <1>1, <1>5 DEF Parsed
<1>7. m = Matcher(m.attribute, m.operator, m.value, FALSE)
  BY <1>2, <1>3 DEF Matchers, Matcher
<1> QED BY <1>6, <1>7 DEF c

(* No quote is open after it, and every blank in it is between quotes.          *)
Closed(c) == /\ ~Quoted(c)[Len(c)]
             /\ \A i \in 1..Len(c) : c[i] = Blank => Quoted(c)[i]

LEMMA TypedIsClosed ==
  ASSUME NEW m \in CustomMatchers, IsTyped(m)
  PROVE  Closed(Typed(m))
<1> DEFINE c == Typed(m)
           v == m.value
           n == Len(v)
<1>1. /\ c \in Seq(Characters) /\ n \in Nat \ {0} /\ Len(c) = n + 2
      /\ c[1] = m.attribute /\ c[2] = m.operator
      /\ \A i \in 1..n : c[i + 2] = v[i]
  BY TypedFacts DEF Texts
<1>2. /\ \A x \in {c[1], c[2]} : x # Quote /\ x # Blank /\ x # Backslash
      /\ IsStatic(v) /\ ~HidesItsEnd(m)
  BY <1>1 DEF IsTyped
<1>3. v \in Seq(Characters)
  BY MatcherFields DEF CustomMatchers, Texts
<1>4. Quote # Blank /\ Quote # Backslash /\ Backslash # Blank
  BY DEF Quote, Blank, Backslash
<1> HIDE DEF c, v
<1>5. \A i \in 1..(n + 2) : i = 1 \/ i = 2 \/ (i - 2 \in 1..n /\ c[i] = v[i - 2])
  BY <1>1
<1>6. ASSUME NEW open, ~open[0],
             \A i \in 1..(n + 2) : open[i] <=> ~(IsQuote(c, i) <=> open[i - 1])
      PROVE  \A i \in 0..(n + 2) : Quoted(c)[i] <=> open[i]
  <2> DEFINE X == {i \in Nat : i <= n + 2 => (Quoted(c)[i] <=> open[i])}
  <2>1. 0 \in X
    BY <1>1, <1>6, QuotedFacts
  <2>2. ASSUME NEW i \in X PROVE i + 1 \in X
    <3> SUFFICES ASSUME i + 1 <= n + 2 PROVE Quoted(c)[i + 1] <=> open[i + 1]
      OBVIOUS
    <3>1. Quoted(c)[i] <=> open[i]
      BY <1>1
    <3>2. i + 1 \in 1..(n + 2) /\ (i + 1) - 1 = i
      BY <1>1
    <3>3. Quoted(c)[i + 1] <=> ~(IsQuote(c, i + 1) <=> Quoted(c)[i])
      BY <1>1, <3>2, QuotedFacts
    <3>4. open[i + 1] <=> ~(IsQuote(c, i + 1) <=> open[i])
      BY <1>6, <3>2
    <3> QED BY <3>1, <3>3, <3>4
  <2> HIDE DEF X
  <2>3. X = Nat
    <3>1. X \in SUBSET Nat
      BY DEF X
    <3> QED BY <2>1, <2>2, <3>1, Induction
  <2> SUFFICES ASSUME NEW i \in 0..(n + 2) PROVE Quoted(c)[i] <=> open[i]
    OBVIOUS
  <2>4. i \in X /\ i <= n + 2
    BY <1>1, <2>3
  <2> QED BY <2>4 DEF X
<1>7. CASE Range(v) \intersect {Quote, Blank} = {}
  <2>1. \A i \in 1..n : v[i] # Quote /\ v[i] # Blank
    <3>1. \A i \in 1..n : v[i] \in Range(v)
      BY <1>3 DEF Range
    <3> QED BY <1>7, <3>1
  <2>2. \A i \in 1..(n + 2) : c[i] # Quote /\ c[i] # Blank
    BY <1>2, <1>5, <2>1
  <2> DEFINE open == [i \in 0..(n + 2) |-> FALSE]
  <2>3. ~open[0] /\ \A i \in 1..(n + 2) : ~open[i] /\ ~open[i - 1]
    BY <1>1
  <2>4. \A i \in 1..(n + 2) : ~IsQuote(c, i)
    BY <2>2 DEF IsQuote
  <2> HIDE DEF open
  <2>5. \A i \in 0..(n + 2) : Quoted(c)[i] <=> open[i]
    BY <1>6, <2>3, <2>4
  <2>6. n + 2 \in 1..(n + 2) /\ n + 2 \in 0..(n + 2)
    BY <1>1
  <2>7. ~Quoted(c)[Len(c)]
    BY <1>1, <2>3, <2>5, <2>6
  <2> QED BY <1>1, <2>2, <2>7 DEF Closed, c
<1>8. CASE /\ n > 1 /\ v[1] = Quote /\ v[n] = Quote
           /\ \A i \in 2..(n - 1) : v[i] = Quote => v[i - 1] = Backslash
  <2> DEFINE open == [i \in 0..(n + 2) |-> 3 <= i /\ i < n + 2]
  <2>1. /\ ~open[0]
        /\ \A i \in 1..(n + 2) : /\ open[i] <=> 3 <= i /\ i < n + 2
                                 /\ open[i - 1] <=> 4 <= i
    <3>0. \A i \in 0..(n + 2) : open[i] = (3 <= i /\ i < n + 2)
      BY Zenon
    <3> HIDE DEF open
    <3>1. ~open[0]
      <4>1. 0 \in 0..(n + 2) /\ ~(3 <= 0)
        BY <1>1
      <4> QED BY <3>0, <4>1
    <3>2. \A i \in 1..(n + 2) : open[i] <=> 3 <= i /\ i < n + 2
      <4>1. \A i \in 1..(n + 2) : i \in 0..(n + 2)
        BY <1>1
      <4> QED BY <3>0, <4>1
    <3>3. \A i \in 1..(n + 2) : open[i - 1] <=> 4 <= i
      <4>1. \A i \in 1..(n + 2) : i - 1 \in 0..(n + 2)
        BY <1>1
      <4>2. \A i \in 1..(n + 2) : open[i - 1] <=> 3 <= i - 1 /\ i - 1 < n + 2
        BY <3>0, <4>1
      <4> QED BY <1>1, <4>2
    <3> QED BY <3>1, <3>2, <3>3
  <2> HIDE DEF open
  <2>2. ~IsQuote(c, 1) /\ ~IsQuote(c, 2)
    BY <1>2 DEF IsQuote
  <2>3. IsQuote(c, 3)
    <3>1. c[3] = v[1]
      BY <1>1, <1>8
    <3> QED BY <1>2, <1>8, <3>1 DEF IsQuote
  <2>4. IsQuote(c, n + 2)
    <3>1. c[n + 2] = v[n] /\ n + 2 # 1 /\ (n + 2) - 1 = n + 1
      BY <1>1, <1>8
    <3>2. c[n + 1] # Backslash
      <4>1. n - 1 \in 1..n /\ (n - 1) + 2 = n + 1
        BY <1>1, <1>8
      <4>2. c[n + 1] = v[n - 1]
        BY <1>1, <4>1
      <4>3. CASE n = 2
        BY <1>4, <1>8, <4>2, <4>3
      <4>4. CASE n > 2
        BY <1>2, <4>2, <4>4 DEF HidesItsEnd, v
      <4>5. n = 2 \/ n > 2
        <5>1. n > 1 /\ n \in Nat
          BY <1>1, <1>8
        <5> HIDE DEF n
        <5> QED BY <5>1
      <4> QED BY <4>3, <4>4, <4>5
    <3> QED BY <1>8, <3>1, <3>2 DEF IsQuote
  <2>5. ASSUME NEW i \in 4..(n + 1) PROVE ~IsQuote(c, i)
    <3> SUFFICES ASSUME c[i] = Quote PROVE i # 1 /\ c[i - 1] = Backslash
      BY DEF IsQuote
    <3>1. i - 2 \in 2..(n - 1) /\ i - 2 \in 1..n /\ (i - 2) - 1 \in 1..n
          /\ ((i - 2) - 1) + 2 = i - 1 /\ (i - 2) + 2 = i /\ i # 1
      BY <1>1
    <3>2. c[i] = v[i - 2] /\ c[i - 1] = v[(i - 2) - 1]
      BY <1>1, <3>1
    <3> QED BY <1>8, <3>1, <3>2
  <2>6. \A i \in 1..(n + 2) : open[i] <=> ~(IsQuote(c, i) <=> open[i - 1])
    <3> SUFFICES ASSUME NEW i \in 1..(n + 2)
                 PROVE  open[i] <=> ~(IsQuote(c, i) <=> open[i - 1])
      OBVIOUS
    <3>1. CASE i \in {1, 2}
      BY <2>1, <2>2, <3>1
    <3>2. CASE i = 3
      BY <1>1, <1>8, <2>1, <2>3, <3>2
    <3>3. CASE i \in 4..(n + 1)
      BY <1>1, <2>1, <2>5, <3>3
    <3>4. CASE i = n + 2
      BY <1>1, <1>8, <2>1, <2>4, <3>4
    <3> QED BY <1>1, <3>1, <3>2, <3>3, <3>4
  <2>7. \A i \in 0..(n + 2) : Quoted(c)[i] <=> open[i]
    BY <1>6, <2>1, <2>6
  <2>8. n + 2 \in 1..(n + 2) /\ n + 2 \in 0..(n + 2) /\ ~(n + 2 < n + 2)
    BY <1>1
  <2>9. ~Quoted(c)[Len(c)]
    BY <1>1, <2>1, <2>7, <2>8
  <2>10. ASSUME NEW i \in 1..(n + 2), c[i] = Blank PROVE Quoted(c)[i]
    <3>1. i # 1 /\ i # 2
      BY <1>2, <2>10
    <3>2. i # n + 2
      <4>1. c[n + 2] = v[n]
        BY <1>1
      <4> QED BY <1>4, <1>8, <2>10, <4>1
    <3>3. 3 <= i /\ i < n + 2 /\ i \in 0..(n + 2)
      BY <1>1, <3>1, <3>2
    <3> QED BY <2>1, <2>7, <3>3
  <2> QED BY <1>1, <2>9, <2>10 DEF Closed, c
<1> QED BY <1>2, <1>7, <1>8 DEF IsStatic

Spread(t, c) == Cat(t, Cons(Blank, c))

LEMMA CatBlank ==
  ASSUME NEW V, Blank \in V, NEW t \in Seq(V), NEW c \in Seq(V)
  PROVE  /\ Spread(t, c) \in Seq(V) /\ Len(Spread(t, c)) = Len(t) + 1 + Len(c)
         /\ \A i \in 1..Len(t) : Spread(t, c)[i] = t[i]
         /\ Spread(t, c)[Len(t) + 1] = Blank
         /\ \A i \in 1..Len(c) : Spread(t, c)[Len(t) + 1 + i] = c[i]
<1> DEFINE u == Spread(t, c)
<1>1. PICK w \in Seq(V) : /\ w = Cons(Blank, c) /\ Len(w) = Len(c) + 1 /\ w[1] = Blank
                          /\ \A i \in 1..Len(c) : w[i + 1] = c[i]
  BY ConsFacts
<1>2. Len(t) \in Nat /\ Len(c) \in Nat
  BY LenProperties
<1>3. /\ t \o w \in Seq(V) /\ Len(t \o w) = Len(t) + Len(w)
      /\ \A i \in 1..Len(t) : (t \o w)[i] = t[i]
      /\ \A i \in 1..Len(w) : (t \o w)[Len(t) + i] = w[i]
  OBVIOUS
<1>4. u = t \o w
  BY <1>1 DEF Cat, Spread
<1> HIDE DEF u
<1>5. /\ u \in Seq(V) /\ Len(u) = Len(t) + Len(w)
      /\ \A i \in 1..Len(t) : u[i] = t[i]
      /\ \A i \in 1..Len(w) : u[Len(t) + i] = w[i]
  BY <1>3, <1>4
<1>6. u[Len(t) + 1] = Blank
  <2>1. 1 \in 1..Len(w)
    BY <1>1, <1>2
  <2> QED BY <1>1, <1>5, <2>1
<1>7. \A i \in 1..Len(c) : u[Len(t) + 1 + i] = c[i]
  <2> SUFFICES ASSUME NEW i \in 1..Len(c) PROVE u[Len(t) + 1 + i] = c[i]
    OBVIOUS
  <2>1. i + 1 \in 1..Len(w) /\ Len(t) + (i + 1) = Len(t) + 1 + i
    <3>1. Len(w) = Len(c) + 1
      BY <1>1
    <3> QED BY <1>2, <3>1
  <2>2. u[Len(t) + (i + 1)] = w[i + 1]
    BY <1>5, <2>1
  <2> QED BY <1>1, <2>1, <2>2
<1>8. Len(u) = Len(t) + 1 + Len(c)
  BY <1>1, <1>2, <1>5
<1> QED BY <1>5, <1>6, <1>7, <1>8 DEF u

LEMMA ClosedLast ==
  ASSUME NEW V, Blank \in V, NEW t \in Seq(V), NEW c \in Seq(V),
         ~Quoted(t)[Len(t)], Closed(c)
  PROVE  LET u == Spread(t, c)
         IN  /\ ~Quoted(u)[Len(u)]
             /\ Pieces(u, UnquotedBlanks(u)) = Append(Pieces(t, UnquotedBlanks(t)), c)
<1> DEFINE u == Spread(t, c)
           k == Len(t)
           n == Len(c)
<1>1. /\ u \in Seq(V) /\ Len(u) = k + 1 + n
      /\ \A i \in 1..k : u[i] = t[i]
      /\ u[k + 1] = Blank
      /\ \A i \in 1..n : u[k + 1 + i] = c[i]
  <2>1. u \in Seq(V) /\ Len(u) = k + 1 + n
    BY CatBlank
  <2>2. \A i \in 1..k : u[i] = t[i]
    BY CatBlank
  <2>3. u[k + 1] = Blank
    BY CatBlank
  <2>4. \A i \in 1..n : u[k + 1 + i] = c[i]
    BY CatBlank
  <2> QED BY <2>1, <2>2, <2>3, <2>4
<1>2. k \in Nat /\ n \in Nat /\ DOMAIN u = 1..(k + 1 + n) /\ DOMAIN t = 1..k
  BY <1>1, LenProperties
<1>3. Quote # Blank /\ Backslash # Blank
  BY DEF Quote, Blank, Backslash
<1> HIDE DEF u
<1>4. \A i \in 0..k : Quoted(u)[i] <=> Quoted(t)[i]
  <2>1. \A i \in 1..k : IsQuote(u, i) <=> IsQuote(t, i)
    <3>1. \A i \in 1..k : i # 1 => i - 1 \in 1..k
      BY <1>2
    <3> QED BY <1>1, <3>1 DEF IsQuote
  <2>2. \A i \in 1..k : 0 + i = i
    BY <1>2
  <2>3. \A i \in 1..k : IsQuote(u, 0 + i) <=> IsQuote(t, i)
    BY <2>1, <2>2
  <2>4. ~Quoted(u)[0] /\ 0 + k <= Len(u)
    BY <1>1, <1>2, QuotedFacts
  <2>5. \A i \in 0..k : Quoted(u)[0 + i] <=> Quoted(t)[i]
    BY <1>1, <2>3, <2>4, QuotedWithin
  <2>6. \A i \in 0..k : 0 + i = i
    BY <1>2
  <2> QED BY <2>5, <2>6
<1>5. ~Quoted(u)[k + 1]
  <2>1. k + 1 \in 1..Len(u) /\ (k + 1) - 1 = k /\ k \in 0..k
    BY <1>1, <1>2
  <2>2. ~IsQuote(u, k + 1)
    BY <1>1, <1>3 DEF IsQuote
  <2>3. Quoted(u)[k + 1] <=> ~(IsQuote(u, k + 1) <=> Quoted(u)[k])
    BY <1>1, <2>1, QuotedFacts
  <2> QED BY <1>4, <2>1, <2>2, <2>3
<1>6. \A i \in 0..n : Quoted(u)[k + 1 + i] <=> Quoted(c)[i]
  <2>1. ASSUME NEW i \in 1..n PROVE IsQuote(u, k + 1 + i) <=> IsQuote(c, i)
    <3>1. k + 1 + i # 1 /\ u[k + 1 + i] = c[i]
      BY <1>1, <1>2
    <3>2. CASE i = 1
      <4>1. (k + 1 + i) - 1 = k + 1
        BY <1>2, <3>2
      <4> QED BY <1>1, <1>3, <3>1, <3>2, <4>1 DEF IsQuote
    <3>3. CASE i # 1
      <4>1. i - 1 \in 1..n /\ (k + 1 + i) - 1 = k + 1 + (i - 1)
        BY <1>2, <3>3
      <4>2. u[(k + 1 + i) - 1] = c[i - 1]
        BY <1>1, <4>1
      <4> QED BY <3>1, <3>3, <4>2 DEF IsQuote
    <3> QED BY <3>2, <3>3
  <2>2. PICK j \in Nat : j = k + 1
    BY <1>2
  <2>3. j + n <= Len(u) /\ ~Quoted(u)[j] /\ \A i \in 1..n : IsQuote(u, j + i) <=> IsQuote(c, i)
    BY <1>1, <1>2, <1>5, <2>1, <2>2
  <2>4. \A i \in 0..n : Quoted(u)[j + i] <=> Quoted(c)[i]
    BY <1>1, <2>3, QuotedWithin
  <2> QED BY <2>2, <2>4
<1>7. ~Quoted(u)[Len(u)]
  <2>1. n \in 0..n
    BY <1>2
  <2> QED BY <1>1, <1>6, <2>1 DEF Closed
<1>8. CutsAfter(t, c, UnquotedBlanks(t), UnquotedBlanks(u))
  <2>1. \A i \in 1..(k + 1 + n) :
          i \in UnquotedBlanks(u) <=> u[i] = Blank /\ ~Quoted(u)[i]
    BY <1>2, UnquotedIs
  <2>2. \A i \in 1..k : i \in UnquotedBlanks(t) <=> t[i] = Blank /\ ~Quoted(t)[i]
    BY <1>2, UnquotedIs
  <2>3. \A i \in 1..k : i \in UnquotedBlanks(u) <=> i \in UnquotedBlanks(t)
    <3>1. \A i \in 1..k : i \in 1..(k + 1 + n) /\ i \in 0..k
      BY <1>2
    <3> QED BY <1>1, <1>4, <2>1, <2>2, <3>1
  <2>4. k + 1 \in UnquotedBlanks(u)
    <3>1. k + 1 \in 1..(k + 1 + n)
      BY <1>2
    <3> QED BY <1>1, <1>5, <2>1, <3>1
  <2>5. \A i \in 1..n : k + 1 + i \notin UnquotedBlanks(u)
    <3> SUFFICES ASSUME NEW i \in 1..n PROVE k + 1 + i \notin UnquotedBlanks(u)
      OBVIOUS
    <3>1. k + 1 + i \in 1..(k + 1 + n) /\ i \in 0..n
      BY <1>2
    <3>2. u[k + 1 + i] = Blank => Quoted(u)[k + 1 + i]
      BY <1>1, <1>6, <3>1 DEF Closed
    <3> QED BY <2>1, <3>1, <3>2
  <2> QED BY <2>3, <2>4, <2>5 DEF CutsAfter
<1>9. Pieces(u, UnquotedBlanks(u)) = Append(Pieces(t, UnquotedBlanks(t)), c)
  <2>1. u = Cat(t, Cons(Blank, c))
    BY DEF u, Spread
  <2> QED BY <1>8, <2>1, PiecesLast
<1> QED BY <1>7, <1>9 DEF u

LEMMA ClosedAlone ==
  ASSUME NEW V, NEW c \in Seq(V), Closed(c)
  PROVE  Pieces(c, UnquotedBlanks(c)) = <<c>>
<1>1. \A i \in 1..Len(c) : i \notin UnquotedBlanks(c)
  BY UnquotedIs DEF Closed
<1> QED BY <1>1, PiecesNone

(* What is typed as custom attributes, with a blank between one and the next.   *)
TypedText(ms) == Join(Map(Typed, ms), Blank)

Chunks(ms) == [i \in DOMAIN ms |-> Typed(ms[i])]

LEMMA ChunksFacts ==
  ASSUME NEW ms \in Seq(CustomMatchers)
  PROVE  /\ Chunks(ms) \in Seq(Texts) /\ DOMAIN Chunks(ms) = DOMAIN ms
         /\ \A i \in DOMAIN ms : Chunks(ms)[i] = Typed(ms[i])
         /\ \A chunk \in Range(Chunks(ms)) : chunk # <<>>
<1>1. PICK n \in Nat : ms \in [1..n -> CustomMatchers]
  BY SeqDef
<1>2. \A m \in CustomMatchers : Typed(m) \in Texts /\ Typed(m) # <<>>
  BY TypedFacts
<1>3. Chunks(ms) \in [1..n -> Texts] /\ \A i \in 1..n : Chunks(ms)[i] = Typed(ms[i])
  BY <1>1, <1>2 DEF Chunks
<1>4. Chunks(ms) \in Seq(Texts) /\ DOMAIN Chunks(ms) = DOMAIN ms
  BY <1>1, <1>3, SeqDef
<1>5. \A i \in 1..n : Chunks(ms)[i] # <<>>
  BY <1>1, <1>2, <1>3
<1>6. \A chunk \in Range(Chunks(ms)) : chunk # <<>>
  BY <1>3, <1>5 DEF Range
<1> QED BY <1>1, <1>3, <1>4, <1>6

LEMMA ChunksAppend ==
  ASSUME NEW ms \in Seq(CustomMatchers), NEW m \in CustomMatchers
  PROVE  Chunks(Append(ms, m)) = Append(Chunks(ms), Typed(m))
<1> DEFINE f == [x \in CustomMatchers |-> Typed(x)]
           a == Append(ms, m)
<1>1. a \in Seq(CustomMatchers)
  BY AppendProperties
<1>2. ASSUME NEW s \in Seq(CustomMatchers) PROVE Chunks(s) = Mapped(s, f)
  <2>1. \A i \in DOMAIN s : s[i] \in CustomMatchers
    BY ElementOfSeq, LenProperties
  <2>2. \A i \in DOMAIN s : f[s[i]] = Typed(s[i])
    BY <2>1
  <2> HIDE DEF f
  <2> QED BY <2>2 DEF Chunks, Mapped
<1>3. f[m] = Typed(m)
  OBVIOUS
<1> HIDE DEF f, a
<1>4. Mapped(a, f) = Append(Mapped(ms, f), f[m])
  BY MappedAppend DEF a
<1> QED BY <1>1, <1>2, <1>3, <1>4 DEF a

LEMMA TypedTextParts ==
  ASSUME NEW ms \in Seq(CustomMatchers), \A m \in Range(ms) : IsTyped(m), ms # <<>>
  PROVE  Pieces(TypedText(ms), UnquotedBlanks(TypedText(ms))) = Chunks(ms)
<1> DEFINE T == {m \in CustomMatchers : IsTyped(m)}
           ok(s) == s # <<>> =>
                      /\ TypedText(s) \in Texts
                      /\ ~Quoted(TypedText(s))[Len(TypedText(s))]
                      /\ Pieces(TypedText(s), UnquotedBlanks(TypedText(s))) = Chunks(s)
           S == {s \in Seq(T) : ok(s)}
<1>0. Blank \in Characters
  BY CharactersAssumption
<1>1. \A s \in Seq(T) : s \in Seq(CustomMatchers)
  OBVIOUS
<1>2. \A s : TypedText(s) = Join(Chunks(s), Blank)
  BY DEF TypedText, Map, Chunks
<1>3. \A m \in T : /\ Typed(m) \in Seq(Characters) /\ Closed(Typed(m))
                   /\ ~Quoted(Typed(m))[Len(Typed(m))]
  BY TypedFacts, TypedIsClosed DEF Texts, Closed
<1>4. <<>> \in S
  OBVIOUS
<1>5. ASSUME NEW s \in Seq(T), ok(s), NEW m \in T PROVE ok(Append(s, m))
  <2> DEFINE c == Typed(m)
             a == Append(s, m)
  <2>1. s \in Seq(CustomMatchers) /\ m \in CustomMatchers
    BY <1>1
  <2>2. Chunks(a) = Append(Chunks(s), c)
    BY <2>1, ChunksAppend
  <2>3. Chunks(s) \in Seq(Seq(Characters))
    BY <2>1, ChunksFacts DEF Texts
  <2>4. c \in Seq(Characters) /\ Closed(c) /\ ~Quoted(c)[Len(c)]
    BY <1>3
  <2> HIDE DEF c, a
  <2>5. CASE s = <<>>
    <3>1. Chunks(s) = <<>>
      BY <2>5 DEF Chunks
    <3>2. Chunks(a) = <<c>>
      BY <2>2, <3>1
    <3>3. TypedText(a) = c
      BY <1>2, <2>4, <3>2, JoinOne
    <3>4. Pieces(c, UnquotedBlanks(c)) = <<c>>
      BY <2>4, ClosedAlone
    <3> QED BY <2>4, <3>2, <3>3, <3>4 DEF a, Texts
  <2>6. CASE s # <<>>
    <3> DEFINE t == TypedText(s)
    <3>1. /\ t \in Seq(Characters) /\ ~Quoted(t)[Len(t)]
          /\ Pieces(t, UnquotedBlanks(t)) = Chunks(s)
      BY <1>5, <2>6 DEF Texts
    <3>2. Chunks(s) # <<>>
      <4>1. Len(s) \in Nat \ {0} /\ DOMAIN s = 1..Len(s)
        BY <2>1, <2>6, EmptySeq, LenProperties
      <4>2. 1 \in DOMAIN Chunks(s)
        BY <2>1, <4>1, ChunksFacts
      <4> QED BY <4>2
    <3>3. t = Join(Chunks(s), Blank) /\ TypedText(a) = Join(Append(Chunks(s), c), Blank)
      BY <1>2, <2>2
    <3> HIDE DEF t
    <3>4. TypedText(a) = Cat(t, Cons(Blank, c))
      BY <1>0, <2>3, <2>4, <3>2, <3>3, JoinAppend
    <3>5. TypedText(a) = Spread(t, c)
      BY <3>4 DEF Spread
    <3>6. /\ ~Quoted(Spread(t, c))[Len(Spread(t, c))]
          /\ Pieces(Spread(t, c), UnquotedBlanks(Spread(t, c)))
               = Append(Pieces(t, UnquotedBlanks(t)), c)
      BY <1>0, <2>4, <3>1, ClosedLast
    <3>7. Spread(t, c) \in Texts
      BY <1>0, <2>4, <3>1, CatBlank DEF Texts
    <3> QED BY <2>2, <3>1, <3>5, <3>6, <3>7 DEF a
  <2> QED BY <2>5, <2>6
<1>6. S = Seq(T)
  <2>1. S \in SUBSET Seq(T)
    OBVIOUS
  <2>2. \A s \in S, m \in T : Append(s, m) \in S
    <3> HIDE DEF ok, T
    <3>1. \A s \in Seq(T), m \in T : Append(s, m) \in Seq(T)
      BY AppendProperties
    <3> QED BY <1>5, <3>1
  <2> HIDE DEF S, T
  <2> QED BY <1>4, <2>1, <2>2, ListInduction
<1>7. ms \in Seq(T)
  <2>1. PICK n \in Nat : ms \in [1..n -> CustomMatchers]
    BY SeqDef
  <2>2. \A i \in 1..n : ms[i] \in T
    BY <2>1 DEF Range
  <2>3. ms \in [1..n -> T]
    BY <2>1, <2>2
  <2> HIDE DEF T
  <2> QED BY <2>3, SeqDef
<1>8. ok(ms)
  BY <1>6, <1>7
<1> QED BY <1>8

(* What is typed as custom attributes is what is parsed: a blank, a quote or a  *)
(* backslash in a literal ends neither the literal nor the matcher              *)
(* (splitByUnquotedWhitespace of filter.ts).                                    *)
THEOREM CustomTextIsParsed ==
  ASSUME NEW ms \in Seq(CustomMatchers), \A m \in Range(ms) : IsTyped(m)
  PROVE  Map(Parsed, SplitByUnquotedWhitespace(Join(Map(Typed, ms), Blank))) = ms
<1> DEFINE text == TypedText(ms)
           pieces == Pieces(text, UnquotedBlanks(text))
<1>1. SplitByUnquotedWhitespace(text) = Filtered(pieces, {chunk \in Range(pieces) : chunk # <<>>})
  BY DEF SplitByUnquotedWhitespace
<1>2. Chunks(ms) \in Seq(Texts) /\ DOMAIN Chunks(ms) = DOMAIN ms
      /\ (\A i \in DOMAIN ms : Chunks(ms)[i] = Typed(ms[i]))
      /\ \A chunk \in Range(Chunks(ms)) : chunk # <<>>
  BY ChunksFacts
<1>3. SplitByUnquotedWhitespace(text) = Chunks(ms)
  <2>1. CASE ms = <<>>
    <3>1. Chunks(ms) = <<>>
      BY <2>1 DEF Chunks
    <3>2. text = <<>>
      <4>1. text = Join(Chunks(ms), Blank)
        BY DEF TypedText, Map, Chunks
      <4>2. <<>> \in Seq(Characters)
        OBVIOUS
      <4> QED BY <3>1, <4>1, <4>2, JoinOne
    <3>3. pieces = <<<<>>>>
      BY <3>2, PiecesEmpty
    <3>4. Filtered(<<<<>>>>, {chunk \in Range(<<<<>>>>) : chunk # <<>>}) = <<>>
      <4>1. <<>> \notin {chunk \in Range(<<<<>>>>) : chunk # <<>>}
        OBVIOUS
      <4>2. <<>> \in Texts
        BY DEF Texts
      <4> QED BY <4>1, <4>2, FilteredOne
    <3> QED BY <1>1, <3>1, <3>3, <3>4
  <2>2. CASE ms # <<>>
    <3>1. pieces = Chunks(ms)
      BY <2>2, TypedTextParts
    <3> HIDE DEF pieces
    <3>2. pieces \in Seq(Texts) /\ Range(pieces) \subseteq {chunk \in Range(pieces) : chunk # <<>>}
      BY <1>2, <3>1
    <3>3. Filtered(pieces, {chunk \in Range(pieces) : chunk # <<>>}) = pieces
      BY <3>2, FilteredAll
    <3> QED BY <1>1, <3>1, <3>3
  <2> QED BY <2>1, <2>2
<1> HIDE DEF text
<1>4. PICK n \in Nat : ms \in [1..n -> CustomMatchers]
  BY SeqDef
<1>5. \A i \in 1..n : Parsed(Chunks(ms)[i]) = ms[i]
  <2>1. \A m \in CustomMatchers : Parsed(Typed(m)) = m
    BY ParsedTyped
  <2> QED BY <1>2, <1>4, <2>1
<1>6. Map(Parsed, Chunks(ms)) = ms
  <2>1. Map(Parsed, Chunks(ms)) = [i \in 1..n |-> Parsed(Chunks(ms)[i])]
    BY <1>2, <1>4 DEF Map
  <2>2. [i \in 1..n |-> Parsed(Chunks(ms)[i])] = [i \in 1..n |-> ms[i]]
    BY <1>5
  <2> QED BY <1>4, <2>1, <2>2
<1> QED BY <1>3, <1>6 DEF text, TypedText

--------------------------------------------------------------------------------
(* The session.                                                                 *)

LEMMA SameMatchersFrom ==
  ASSUME NEW V, NEW ms \in Seq(V), NEW ns \in Seq(V)
  PROVE  /\ SameMatchers(ms, ms)
         /\ SameMatchers(ms, ns) => Range(ms) = Range(ns)
<1>1. SameMatchers(ms, ms)
  BY SameMatchersFacts
<1>2. ASSUME SameMatchers(ms, ns) PROVE Range(ms) = Range(ns)
  <2>1. \A a : OfAttribute(ms, a) = OfAttribute(ns, a)
    BY <1>2, SameMatchersFacts
  <2> QED BY <2>1, SameRange
<1> QED BY <1>1, <1>2

LEMMA SameMatchersTransitive ==
  ASSUME NEW V, NEW ms \in Seq(V), NEW ns \in Seq(V), NEW os \in Seq(V),
         SameMatchers(ms, ns), SameMatchers(ns, os)
  PROVE  SameMatchers(ms, os)
<1>1. \A a : OfAttribute(ms, a) = OfAttribute(ns, a)
  BY SameMatchersFacts
<1>2. \A a : OfAttribute(ns, a) = OfAttribute(os, a)
  BY SameMatchersFacts
<1>3. \A a : OfAttribute(ms, a) = OfAttribute(os, a)
  BY <1>1, <1>2
<1> QED BY <1>3, SameMatchersFacts

LEMMA SameFilterFields ==
  ASSUME NEW f, NEW g
  PROVE  SameFilter(f, g) <=>
           /\ f.serviceName = g.serviceName /\ f.spanName = g.spanName
           /\ f.namespace = g.namespace /\ f.status = g.status
           /\ f.spanDuration = g.spanDuration /\ f.traceDuration = g.traceDuration
           /\ SameMatchers(f.customMatchers, g.customMatchers)
BY DEF SameFilter, NoFilter

LEMMA SameFilterFacts ==
  ASSUME NEW f \in Filters, NEW g \in Filters
  PROVE  /\ SameFilter(f, f)
         /\ SameFilter(f, g) => /\ Range(f.customMatchers) = Range(g.customMatchers)
                                /\ Lossy(f) <=> Lossy(g)
<1>1. f.customMatchers \in Seq(CustomMatchers) /\ g.customMatchers \in Seq(CustomMatchers)
  BY FieldsOfFilter
<1>2. SameFilter(f, f)
  BY <1>1, SameFilterFields, SameMatchersFrom
<1>3. ASSUME SameFilter(f, g)
      PROVE  Range(f.customMatchers) = Range(g.customMatchers) /\ (Lossy(f) <=> Lossy(g))
  <2>1. Range(f.customMatchers) = Range(g.customMatchers)
    BY <1>1, <1>3, SameFilterFields, SameMatchersFrom
  <2>2. \A field \in StringFields : f[field] = g[field]
    BY <1>3, SameFilterFields DEF StringFields
  <2> QED BY <2>1, <2>2 DEF Lossy
<1> QED BY <1>2, <1>3

LEMMA SameFilterTransitive ==
  ASSUME NEW f \in Filters, NEW g \in Filters, NEW h \in Filters,
         SameFilter(f, g), SameFilter(g, h)
  PROVE  SameFilter(f, h)
<1>1. /\ f.customMatchers \in Seq(CustomMatchers) /\ g.customMatchers \in Seq(CustomMatchers)
      /\ h.customMatchers \in Seq(CustomMatchers)
  BY FieldsOfFilter
<1>2. /\ SameMatchers(f.customMatchers, g.customMatchers)
      /\ SameMatchers(g.customMatchers, h.customMatchers)
  BY SameFilterFields
<1>3. SameMatchers(f.customMatchers, h.customMatchers)
  BY <1>1, <1>2, SameMatchersTransitive
<1> QED BY <1>3, SameFilterFields

(* A field of a filter, set.                                                    *)
FieldType(field) ==
  CASE field \in StringFields -> Seq(Texts)
    [] field = "status" -> Seq(Texts \ {<<>>})
    [] field \in {"spanDuration", "traceDuration"} -> DurationFields
    [] field = "customMatchers" -> Seq(CustomMatchers)

Fields == {"serviceName", "spanName", "namespace", "status", "spanDuration",
           "traceDuration", "customMatchers"}

LEMMA FieldIsSet ==
  ASSUME NEW f \in Filters, NEW field \in Fields, NEW x \in FieldType(field)
  PROVE  [f EXCEPT ![field] = x] \in Filters
<1> DEFINE g == [f EXCEPT ![field] = x]
<1>1. /\ f.serviceName \in Seq(Texts) /\ f.spanName \in Seq(Texts)
      /\ f.namespace \in Seq(Texts) /\ f.status \in Seq(Texts \ {<<>>})
      /\ f.spanDuration \in DurationFields /\ f.traceDuration \in DurationFields
      /\ f.customMatchers \in Seq(CustomMatchers)
      /\ f = [serviceName |-> f.serviceName, spanName |-> f.spanName,
              namespace |-> f.namespace, status |-> f.status,
              spanDuration |-> f.spanDuration, traceDuration |-> f.traceDuration,
              customMatchers |-> f.customMatchers]
  BY DEF Filters
<1>2. CASE field = "serviceName"
  BY <1>1, <1>2 DEF FieldType, StringFields, Filters
<1>3. CASE field = "spanName"
  BY <1>1, <1>3 DEF FieldType, StringFields, Filters
<1>4. CASE field = "namespace"
  BY <1>1, <1>4 DEF FieldType, StringFields, Filters
<1>5. CASE field = "status"
  BY <1>1, <1>5 DEF FieldType, StringFields, Filters
<1>6. CASE field = "spanDuration"
  BY <1>1, <1>6 DEF FieldType, StringFields, Filters
<1>7. CASE field = "traceDuration"
  BY <1>1, <1>7 DEF FieldType, StringFields, Filters
<1>8. CASE field = "customMatchers"
  BY <1>1, <1>8 DEF FieldType, StringFields, Filters
<1> QED BY <1>2, <1>3, <1>4, <1>5, <1>6, <1>7, <1>8 DEF Fields

LEMMA FieldAfter ==
  ASSUME NEW f \in Filters, NEW field \in Fields, NEW x, NEW other \in Fields
  PROVE  [f EXCEPT ![field] = x][other] = IF other = field THEN x ELSE f[other]
BY FieldsOfFilter DEF Fields, NoFilter

(* The same change of the same field leaves filters the same.                   *)
SameField(field, x, y) ==
  IF field = "customMatchers" THEN SameMatchers(x, y) ELSE x = y

LEMMA SameAfter ==
  ASSUME NEW f \in Filters, NEW g \in Filters, SameFilter(f, g), NEW field \in Fields,
         NEW x, NEW y, SameField(field, x, y)
  PROVE  SameFilter([f EXCEPT ![field] = x], [g EXCEPT ![field] = y])
<1> DEFINE h == [f EXCEPT ![field] = x]
           k == [g EXCEPT ![field] = y]
<1>1. \A other \in Fields : /\ h[other] = IF other = field THEN x ELSE f[other]
                            /\ k[other] = IF other = field THEN y ELSE g[other]
  BY FieldAfter
<1> HIDE DEF h, k
<1>2. SameFilter(f, g)
  OBVIOUS
<1>3. \A other \in Fields \ {"customMatchers"} : f[other] = g[other]
  BY <1>2, SameFilterFields DEF Fields
<1>4. \A other \in Fields \ {"customMatchers"} : h[other] = k[other]
  BY <1>1, <1>3 DEF SameField
<1>5. SameMatchers(f.customMatchers, g.customMatchers)
  BY <1>2, SameFilterFields
<1>6. SameMatchers(h.customMatchers, k.customMatchers)
  <2>1. "customMatchers" \in Fields
    BY DEF Fields
  <2>2. CASE field = "customMatchers"
    BY <1>1, <2>1, <2>2 DEF SameField
  <2>3. CASE field # "customMatchers"
    BY <1>1, <1>5, <2>1, <2>3
  <2> QED BY <2>2, <2>3
<1>7. /\ h.serviceName = k.serviceName /\ h.spanName = k.spanName
      /\ h.namespace = k.namespace /\ h.status = k.status
      /\ h.spanDuration = k.spanDuration /\ h.traceDuration = k.traceDuration
  BY <1>4 DEF Fields
<1>8. SameFilter(h, k)
  BY <1>6, <1>7, SameFilterFields
<1> QED BY <1>8 DEF h, k

(* The invariant: the query is read as the filter that the user has put         *)
(* together, in which nothing that has a field of its own is a custom matcher,  *)
(* and it was made of that filter when the attribute filters made it.           *)
MadeOf(g) == g \in Filters /\ query = FilterToTraceQL(g) /\ SameFilter(g, wanted)

QueryInv == /\ TypeOK
            /\ ReadsBack
            /\ NoneKnown(wanted.customMatchers)
            /\ filtered /\ ~lossy => \E g : MadeOf(g)

LEMMA QueryInvInit ==
  ASSUME Init
  PROVE  QueryInv
<1>1. <<>> \in ParsedQueries /\ <<>> \in Seq(Texts) /\ <<>> \in Seq(Texts \ {<<>>})
      /\ <<>> \in Texts /\ <<>> \in Seq(CustomMatchers)
  BY DEF ParsedQueries, Texts
<1>2. NoFilter \in Filters
  BY <1>1 DEF NoFilter, Filters, NoDuration, DurationFields
<1>3. TypeOK
  BY <1>1, <1>2 DEF Init, TypeOK
<1>4. NoneKnown(NoFilter.customMatchers)
  BY DEF NoneKnown, NoFilter, Range
<1>5. FilterToTraceQL(NoFilter) = <<>>
  <2>1. \A a : /\ StringMatcher(a, <<>>) = <<>> /\ IntrinsicMatcher(a, <<>>) = <<>>
               /\ CustomMatcher(<<>>) = <<>>
    BY DEF StringMatcher, IntrinsicMatcher, CustomMatcher
  <2>2. \A a : DurationMatcher(a, NoDuration) = <<>>
    BY DEF DurationMatcher, NoDuration
  <2>3. FilterToTraceQL(NoFilter) = Seven(<<>>, <<>>, <<>>, <<>>, <<>>, <<>>, <<>>)
    BY <2>1, <2>2, QueryOfFilter DEF NoFilter
  <2> QED BY <1>1, <2>3, SevenOne
<1>6. ~Lossy(NoFilter)
  BY DEF Lossy, NoFilter, StringFields, HasBar, Range
<1>7. SameFilter(TraceQLToFilter(<<>>), NoFilter)
  BY <1>2, <1>5, <1>6, FilterReadsBack
<1> QED BY <1>3, <1>4, <1>7 DEF Init, QueryInv, ReadsBack

(* Every control sets one field of the filter of the query, and the same of     *)
(* what the user wants.                                                         *)
Sets(field, new, meant) ==
  /\ field \in Fields /\ new \in FieldType(field) /\ meant \in FieldType(field)
  /\ SameField(field, new, meant)
  /\ SetField(field, new, meant)

LEMMA QueryInvSet ==
  ASSUME QueryInv, NEW field, NEW new, NEW meant, Sets(field, new, meant)
  PROVE  QueryInv'
<1> DEFINE f == TraceQLToFilter(query)
           g == [f EXCEPT ![field] = new]
           goal == [wanted EXCEPT ![field] = meant]
<1>1. /\ query' = FilterToTraceQL(g) /\ lossy' = Lossy(goal)
      /\ wanted' = (IF lossy' THEN TraceQLToFilter(query') ELSE goal)
      /\ filtered' = TRUE
  BY DEF Sets, SetField
<1>2. /\ query \in ParsedQueries /\ wanted \in Filters /\ SameFilter(f, wanted)
      /\ field \in Fields /\ new \in FieldType(field) /\ meant \in FieldType(field)
      /\ SameField(field, new, meant)
  BY DEF QueryInv, TypeOK, ReadsBack, Sets
<1>3. f \in Filters
  BY <1>2, QueryIsRead
<1> HIDE DEF f
<1>4. g \in Filters /\ goal \in Filters
  BY <1>2, <1>3, FieldIsSet
<1>5. SameFilter(g, goal)
  BY <1>2, <1>3, SameAfter
<1> HIDE DEF g, goal
<1>6. query' \in ParsedQueries
  BY <1>1, <1>4, FilterIsWritten
<1>7. TraceQLToFilter(query') \in Filters /\ NoneKnown(TraceQLToFilter(query').customMatchers)
  BY <1>6, QueryIsRead
<1>8. Lossy(goal) \in BOOLEAN
  BY DEF Lossy
<1>9. TypeOK'
  <2>1. wanted' \in Filters
    BY <1>1, <1>4, <1>7
  <2> QED BY <1>1, <1>6, <1>8, <2>1 DEF TypeOK
<1>10. CASE Lossy(goal)
  <2>1. lossy' /\ wanted' = TraceQLToFilter(query')
    BY <1>1, <1>10
  <2>2. SameFilter(TraceQLToFilter(query'), wanted')
    BY <1>7, <2>1, SameFilterFacts
  <2> QED BY <1>7, <1>9, <2>1, <2>2 DEF QueryInv, ReadsBack
<1>11. CASE ~Lossy(goal)
  <2>1. wanted' = goal
    BY <1>1, <1>11
  <2>2. ~Lossy(g)
    BY <1>4, <1>5, <1>11, SameFilterFacts
  <2>3. SameFilter(TraceQLToFilter(query'), g)
    BY <1>1, <1>4, <2>2, FilterReadsBack
  <2>4. SameFilter(TraceQLToFilter(query'), wanted')
    BY <1>4, <1>5, <1>7, <2>1, <2>3, SameFilterTransitive
  <2>5. NoneKnown(wanted'.customMatchers)
    BY <1>11, <2>1 DEF Lossy, NoneKnown
  <2>6. PICK h : h = g
    OBVIOUS
  <2>7. MadeOf(h)'
    BY <1>1, <1>4, <1>5, <2>1, <2>6 DEF MadeOf
  <2> QED BY <1>9, <2>4, <2>5, <2>7 DEF QueryInv, ReadsBack
<1> QED BY <1>10, <1>11

(* A list whose entries are toggled or removed.                                 *)
LEMMA RemovedType ==
  ASSUME NEW V, NEW list \in Seq(V), NEW x
  PROVE  Removed(list, x) \in Seq(V)
BY FilteredType DEF Removed

LEMMA ToggleType ==
  ASSUME NEW V, NEW values \in Seq(V), NEW v \in V
  PROVE  Toggle(values, v) \in Seq(V)
<1>1. Append(values, v) \in Seq(V)
  BY AppendProperties
<1> QED BY <1>1, RemovedType DEF Toggle

LEMMA SameRemoved ==
  ASSUME NEW V, NEW ms \in Seq(V), NEW ns \in Seq(V), NEW x, SameMatchers(ms, ns)
  PROVE  SameMatchers(Removed(ms, x), Removed(ns, x))
<1>1. \A a : OfAttribute(ms, a) = OfAttribute(ns, a)
  BY SameMatchersFacts
<1>2. ASSUME NEW s \in Seq(V), NEW a
      PROVE  OfAttribute(Removed(s, x), a) = Removed(OfAttribute(s, a), x)
  <2> DEFINE S == {m \in V : m.attribute = a}
             T == V \ {x}
  <2>1. \A m \in Range(s) : m \in V
    BY DEF Range
  <2>2. Removed(s, x) = Filtered(s, T)
    <3>1. \A m \in Range(s) : m \in Range(s) \ {x} <=> m \in T
      BY <2>1
    <3> QED BY <3>1, FilteredSame DEF Removed
  <2>3. OfAttribute(s, a) = Filtered(s, S)
    <3>1. \A m \in Range(s) : m \in S <=> m.attribute = a
      BY <2>1
    <3> QED BY <3>1, OfAttributeSame
  <2> HIDE DEF S, T
  <2>4. Filtered(s, T) \in Seq(V) /\ Filtered(s, S) \in Seq(V)
    BY FilteredType
  <2>5. OfAttribute(Removed(s, x), a) = Filtered(Filtered(s, T), S)
    <3>1. \A m \in Range(Filtered(s, T)) : m \in V
      BY <2>4 DEF Range
    <3>2. \A m \in Range(Filtered(s, T)) : m \in S <=> m.attribute = a
      BY <3>1 DEF S
    <3> QED BY <2>2, <2>4, <3>2, OfAttributeSame
  <2>6. Removed(OfAttribute(s, a), x) = Filtered(Filtered(s, S), T)
    <3>1. \A m \in Range(Filtered(s, S)) : m \in V
      BY <2>4 DEF Range
    <3>2. \A m \in Range(Filtered(s, S)) : m \in Range(Filtered(s, S)) \ {x} <=> m \in T
      BY <3>1 DEF T
    <3> QED BY <2>3, <2>4, <3>2, FilteredSame DEF Removed
  <2>7. Filtered(Filtered(s, T), S) = Filtered(s, T \intersect S)
    BY FilteredTwice
  <2>8. Filtered(Filtered(s, S), T) = Filtered(s, S \intersect T)
    BY FilteredTwice
  <2>9. T \intersect S = S \intersect T
    OBVIOUS
  <2> QED BY <2>5, <2>6, <2>7, <2>8, <2>9
<1>3. Removed(ms, x) \in Seq(V) /\ Removed(ns, x) \in Seq(V)
  BY RemovedType
<1>4. \A a : OfAttribute(Removed(ms, x), a) = OfAttribute(Removed(ns, x), a)
  BY <1>1, <1>2
<1> QED BY <1>3, <1>4, SameMatchersFacts

LEMMA StatusesType == Statuses \subseteq Texts \ {<<>>}
<1>1. "ok" \in Characters /\ "error" \in Characters
  BY CharactersAssumption
<1> QED BY <1>1 DEF Statuses, Texts

(* What the fields of the filter of the query have to do with what the user     *)
(* wants.                                                                       *)
LEMMA ShownIsWanted ==
  ASSUME QueryInv
  PROVE  /\ TraceQLToFilter(query) \in Filters /\ wanted \in Filters
         /\ \A field \in Fields : /\ TraceQLToFilter(query)[field] \in FieldType(field)
                                  /\ wanted[field] \in FieldType(field)
                                  /\ SameField(field, TraceQLToFilter(query)[field], wanted[field])
<1> DEFINE f == TraceQLToFilter(query)
<1>1. query \in ParsedQueries /\ wanted \in Filters /\ SameFilter(f, wanted)
  BY DEF QueryInv, TypeOK, ReadsBack
<1>2. f \in Filters
  BY <1>1, QueryIsRead
<1> HIDE DEF f
<1>3. ASSUME NEW h \in Filters, NEW field \in Fields PROVE h[field] \in FieldType(field)
  BY FieldsOfFilter DEF Fields, FieldType, StringFields
<1>4. ASSUME NEW field \in Fields PROVE SameField(field, f[field], wanted[field])
  BY <1>1, SameFilterFields DEF Fields, SameField
<1> QED BY <1>1, <1>2, <1>3, <1>4 DEF f

LEMMA EditSets ==
  ASSUME QueryInv, Edit
  PROVE  \E field, new, meant : Sets(field, new, meant)
<1> DEFINE f == TraceQLToFilter(query)
<1>1. /\ f \in Filters /\ wanted \in Filters
      /\ \A field \in Fields : /\ f[field] \in FieldType(field)
                               /\ wanted[field] \in FieldType(field)
                               /\ SameField(field, f[field], wanted[field])
  BY ShownIsWanted
<1>2. StringFields \subseteq Fields /\ "status" \in Fields /\ "spanDuration" \in Fields
      /\ "customMatchers" \in Fields
  BY DEF StringFields, Fields
<1>3. ASSUME NEW field \in StringFields \union {"status"}, NEW V, FieldType(field) = Seq(V),
             NEW v \in V, PickValue(field, v)
      PROVE  \E fd, new, meant : Sets(fd, new, meant)
  <2>1. field \in Fields /\ field # "customMatchers"
    BY <1>2 DEF StringFields
  <2>2. f[field] = wanted[field] /\ f[field] \in Seq(V)
    BY <1>1, <1>3, <2>1 DEF SameField
  <2>3. Toggle(f[field], v) \in Seq(V)
    BY <2>2, ToggleType
  <2>4. SetField(field, Toggle(f[field], v), Toggle(wanted[field], v))
    BY <1>3 DEF PickValue
  <2> HIDE DEF f
  <2>5. Sets(field, Toggle(f[field], v), Toggle(wanted[field], v))
    BY <1>3, <2>1, <2>2, <2>3, <2>4 DEF Sets, SameField
  <2> QED BY <2>5
<1>4. ASSUME NEW field \in DOMAIN Values, NEW v \in Values[field], PickValue(field, v)
      PROVE  \E fd, new, meant : Sets(fd, new, meant)
  <2>1. field \in StringFields /\ v \in Texts
    BY ValuesAssumption
  <2>2. FieldType(field) = Seq(Texts)
    BY <2>1 DEF FieldType, StringFields
  <2> QED BY <1>3, <1>4, <2>1, <2>2
<1>5. ASSUME NEW s \in Statuses, PickValue("status", s)
      PROVE  \E fd, new, meant : Sets(fd, new, meant)
  <2>1. s \in Texts \ {<<>>}
    BY StatusesType
  <2>2. FieldType("status") = Seq(Texts \ {<<>>})
    BY DEF FieldType, StringFields
  <2> QED BY <1>3, <1>5, <2>1, <2>2
<1>6. ASSUME NEW field \in DOMAIN Values \union {"status"}, DeleteLabelGroup(field)
      PROVE  \E fd, new, meant : Sets(fd, new, meant)
  <2>1. field \in StringFields \union {"status"}
    BY ValuesAssumption
  <2>2. field \in Fields /\ <<>> \in FieldType(field) /\ SameField(field, <<>>, <<>>)
    BY <1>2, <2>1 DEF FieldType, StringFields, SameField
  <2>3. Sets(field, <<>>, <<>>)
    BY <1>6, <2>2 DEF Sets, DeleteLabelGroup
  <2> QED BY <2>3
<1>7. ASSUME NEW end \in {"min", "max"}, NEW d \in Range(Durations) \union {<<>>},
             SetDuration(end, d)
      PROVE  \E fd, new, meant : Sets(fd, new, meant)
  <2> DEFINE new == [f.spanDuration EXCEPT ![end] = d]
             meant == [wanted.spanDuration EXCEPT ![end] = d]
  <2>1. d \in Texts
    <3>1. <<>> \in Texts
      BY DEF Texts
    <3>2. Range(Durations) \subseteq Texts
      BY DurationsAssumption DEF Range
    <3> QED BY <3>1, <3>2
  <2>2. f.spanDuration = wanted.spanDuration /\ f.spanDuration \in DurationFields
    BY <1>1, FieldsOfFilter, SameFilterFields DEF SameField, Fields
  <2>3. SetField("spanDuration", new, meant)
    BY <1>7 DEF SetDuration
  <2> HIDE DEF f
  <2>4. new = meant /\ new \in DurationFields
    BY <2>1, <2>2 DEF DurationFields
  <2> HIDE DEF new, meant
  <2>5. Sets("spanDuration", new, meant)
    BY <1>2, <2>3, <2>4 DEF Sets, FieldType, StringFields, SameField
  <2> QED BY <2>5
<1>8. ASSUME NEW ms \in CustomInputs, SetCustom(ms)
      PROVE  \E fd, new, meant : Sets(fd, new, meant)
  <2> DEFINE new == Map(Parsed, SplitByUnquotedWhitespace(Join(Map(Typed, ms), Blank)))
  <2>1. ms \in Seq(CustomMatchers) /\ \A m \in Range(ms) : IsTyped(m)
    BY CustomInputsAssumption
  <2>2. new = ms
    BY <2>1, CustomTextIsParsed
  <2>3. SetField("customMatchers", new, ms)
    BY <1>8 DEF SetCustom
  <2> HIDE DEF new
  <2>4. SameMatchers(new, ms)
    BY <2>1, <2>2, SameMatchersFrom
  <2>5. Sets("customMatchers", new, ms)
    BY <1>2, <2>1, <2>2, <2>3, <2>4 DEF Sets, FieldType, StringFields, SameField
  <2> QED BY <2>5
<1>9. ASSUME NEW m, DeleteCustomLabel(m)
      PROVE  \E fd, new, meant : Sets(fd, new, meant)
  <2> DEFINE new == Removed(f.customMatchers, m)
             meant == Removed(wanted.customMatchers, m)
  <2>1. /\ f.customMatchers \in Seq(CustomMatchers)
        /\ wanted.customMatchers \in Seq(CustomMatchers)
        /\ SameMatchers(f.customMatchers, wanted.customMatchers)
    BY <1>1, <1>2, FieldsOfFilter DEF SameField
  <2>2. SetField("customMatchers", new, meant)
    BY <1>9 DEF DeleteCustomLabel
  <2> HIDE DEF f
  <2>3. /\ new \in Seq(CustomMatchers) /\ meant \in Seq(CustomMatchers)
        /\ SameMatchers(new, meant)
    BY <2>1, RemovedType, SameRemoved
  <2> HIDE DEF new, meant
  <2>4. Sets("customMatchers", new, meant)
    BY <1>2, <2>2, <2>3 DEF Sets, FieldType, StringFields, SameField
  <2> QED BY <2>4
<1> HIDE DEF f
<1>10. CASE \E field \in DOMAIN Values : \E v \in Values[field] : PickValue(field, v)
  BY <1>4, <1>10
<1>11. CASE \E s \in Statuses : PickValue("status", s)
  BY <1>5, <1>11
<1>12. CASE \E field \in DOMAIN Values \union {"status"} : DeleteLabelGroup(field)
  BY <1>6, <1>12
<1>13. CASE \E end \in {"min", "max"}, d \in Range(Durations) \union {<<>>} :
              SetDuration(end, d)
  BY <1>7, <1>13
<1>14. CASE \E ms \in CustomInputs : SetCustom(ms)
  BY <1>8, <1>14
<1>15. CASE \E m \in Range(wanted.customMatchers) : DeleteCustomLabel(m)
  BY <1>9, <1>15
<1>16. CASE DeleteDurationLabel
  <2>1. NoDuration \in DurationFields
    BY DEF NoDuration, DurationFields, Texts
  <2>2. Sets("spanDuration", NoDuration, NoDuration)
    BY <1>2, <1>16, <2>1 DEF DeleteDurationLabel, Sets, FieldType, StringFields, SameField
  <2> QED BY <2>2
<1> QED BY <1>10, <1>11, <1>12, <1>13, <1>14, <1>15, <1>16 DEF Edit

LEMMA QueryInvRun ==
  ASSUME NEW q \in Queries \union {<<>>}, RunQuery(q)
  PROVE  QueryInv'
<1>1. q \in ParsedQueries
  BY QueriesAssumption, NoPart
<1>2. TraceQLToFilter(q) \in Filters /\ NoneKnown(TraceQLToFilter(q).customMatchers)
  BY <1>1, QueryIsRead
<1>3. query' = q /\ wanted' = TraceQLToFilter(q) /\ lossy' = FALSE /\ filtered' = FALSE
  BY DEF RunQuery
<1>4. TypeOK'
  BY <1>1, <1>2, <1>3 DEF TypeOK
<1>5. SameFilter(TraceQLToFilter(query'), wanted')
  BY <1>2, <1>3, SameFilterFacts
<1> QED BY <1>2, <1>3, <1>4, <1>5 DEF QueryInv, ReadsBack

LEMMA QueryInvNext ==
  ASSUME QueryInv, [Next]_vars
  PROVE  QueryInv'
<1>1. CASE Edit
  BY <1>1, EditSets, QueryInvSet
<1>2. CASE \E q \in Queries \union {<<>>} : RunQuery(q)
  BY <1>2, QueryInvRun
<1>3. CASE UNCHANGED vars
  <2>1. UNCHANGED query /\ UNCHANGED wanted /\ UNCHANGED lossy /\ UNCHANGED filtered
    BY <1>3 DEF vars
  <2> QED BY <2>1 DEF QueryInv, TypeOK, ReadsBack, MadeOf
<1> QED BY <1>1, <1>2, <1>3 DEF Next

(* The invariant holds in every session: no edit, however many went before it,  *)
(* loses what the user has put together with the attribute filters.             *)
THEOREM QueryInvariance == Spec => []QueryInv
<1>1. Init => QueryInv
  BY QueryInvInit
<1>2. QueryInv /\ [Next]_vars => QueryInv'
  BY QueryInvNext
<1> QED BY <1>1, <1>2, PTL DEF Spec

--------------------------------------------------------------------------------
(* The parts of a query that are not an edit's own.                             *)

PartsFor(field, g) ==
  CASE field = "serviceName"    -> StringMatcher("resource.service.name", g.serviceName)
    [] field = "spanName"       -> StringMatcher("name", g.spanName)
    [] field = "namespace"      -> StringMatcher("resource.k8s.namespace.name", g.namespace)
    [] field = "status"         -> IntrinsicMatcher("status", g.status)
    [] field = "spanDuration"   -> DurationMatcher("duration", g.spanDuration)
    [] field = "traceDuration"  -> DurationMatcher("traceDuration", g.traceDuration)
    [] field = "customMatchers" -> CustomMatcher(g.customMatchers)

LEMMA PartsForFields ==
  ASSUME NEW g
  PROVE  /\ PartsFor("serviceName", g) = StringMatcher("resource.service.name", g.serviceName)
         /\ PartsFor("spanName", g) = StringMatcher("name", g.spanName)
         /\ PartsFor("namespace", g) = StringMatcher("resource.k8s.namespace.name", g.namespace)
         /\ PartsFor("status", g) = IntrinsicMatcher("status", g.status)
         /\ PartsFor("spanDuration", g) = DurationMatcher("duration", g.spanDuration)
         /\ PartsFor("traceDuration", g) = DurationMatcher("traceDuration", g.traceDuration)
         /\ PartsFor("customMatchers", g) = CustomMatcher(g.customMatchers)
BY DEF PartsFor

LEMMA QueryOfParts ==
  ASSUME NEW g \in Filters
  PROVE  /\ FilterToTraceQL(g)
              = Seven(PartsFor("serviceName", g), PartsFor("spanName", g),
                      PartsFor("namespace", g), PartsFor("status", g),
                      PartsFor("spanDuration", g), PartsFor("traceDuration", g),
                      PartsFor("customMatchers", g))
         /\ \A field \in Fields : PartsFor(field, g) \in ParsedQueries
<1>1. FilterToTraceQL(g)
              = Seven(PartsFor("serviceName", g), PartsFor("spanName", g),
                      PartsFor("namespace", g), PartsFor("status", g),
                      PartsFor("spanDuration", g), PartsFor("traceDuration", g),
                      PartsFor("customMatchers", g))
  BY QueryOfFilter, PartsForFields
<1>2. \A field \in Fields : PartsFor(field, g) \in ParsedQueries
  BY PartsOfFilter, PartsForFields DEF Fields
<1> QED BY <1>1, <1>2

(* What a part has to do with the attributes of its field.                      *)
Touches(p, attributes) ==
  \A part \in Range(p) : \E m \in Range(part) : m.attribute \in attributes

LEMMA PartsTouch ==
  ASSUME NEW p \in ParsedQueries, NEW a, PartsOf(p, a), NEW S, a \in S
  PROVE  Touches(p, S)
<1> SUFFICES ASSUME NEW part \in Range(p) PROVE \E m \in Range(part) : m.attribute \in S
  BY DEF Touches
<1>1. part \in Seq(Matchers) /\ part # <<>>
  BY DEF Range, ParsedQueries
<1>2. Range(part) # {}
  BY <1>1, NoEntry
<1>3. PICK m \in Range(part) : TRUE
  BY <1>2
<1>4. m.attribute = a
  BY DEF PartsOf
<1> QED BY <1>4

LEMMA OwnPartsTouch ==
  ASSUME NEW g \in Filters, NEW field \in Fields, NEW S,
         CASE field = "serviceName"    -> "resource.service.name" \in S
           [] field = "spanName"       -> "name" \in S
           [] field = "namespace"      -> "resource.k8s.namespace.name" \in S
           [] field = "status"         -> "status" \in S
           [] field = "spanDuration"   -> "duration" \in S
           [] field = "traceDuration"  -> "traceDuration" \in S
           [] field = "customMatchers" -> \A m \in Range(g.customMatchers) : m.attribute \in S
  PROVE  Touches(PartsFor(field, g), S)
<1>1. PartsFor(field, g) \in ParsedQueries
  BY QueryOfParts
<1>2. CASE field = "serviceName"
  BY <1>1, <1>2, PartsForFields, PartsOfFilter, PartsTouch
<1>3. CASE field = "spanName"
  BY <1>1, <1>3, PartsForFields, PartsOfFilter, PartsTouch
<1>4. CASE field = "namespace"
  BY <1>1, <1>4, PartsForFields, PartsOfFilter, PartsTouch
<1>5. CASE field = "status"
  BY <1>1, <1>5, PartsForFields, PartsOfFilter, PartsTouch
<1>6. CASE field = "spanDuration"
  BY <1>1, <1>6, PartsForFields, PartsOfFilter, PartsTouch
<1>7. CASE field = "traceDuration"
  BY <1>1, <1>7, PartsForFields, PartsOfFilter, PartsTouch
<1>8. CASE field = "customMatchers"
  <2>1. \A m \in Range(g.customMatchers) : m.attribute \in S
    BY <1>8
  <2>2. Range(CustomMatcher(g.customMatchers)) = {<<m>> : m \in Range(g.customMatchers)}
    BY FieldsOfFilter, CustomParts
  <2>3. \A m : Range(<<m>>) = {m}
    BY DEF Range
  <2>4. Touches(CustomMatcher(g.customMatchers), S)
    BY <2>1, <2>2, <2>3 DEF Touches
  <2> QED BY <1>8, <2>4, PartsForFields
<1> QED BY <1>2, <1>3, <1>4, <1>5, <1>6, <1>7, <1>8 DEF Fields

Untouched(S) == {part \in Parts : \A m \in Range(part) : m.attribute \notin S}

LEMMA WithoutFacts ==
  ASSUME NEW q \in ParsedQueries, NEW S
  PROVE  /\ Without(q, S) = Filtered(q, Untouched(S))
         /\ Touches(q, S) => Filtered(q, Untouched(S)) = <<>>
<1>1. q \in Seq(Parts)
  BY MatchersOfQuery
<1>2. \A part \in Range(q) : part \in Parts
  BY <1>1 DEF Range
<1>3. \A part \in Range(q) :
        part \in {p \in Range(q) : \A m \in Range(p) : m.attribute \notin S}
          <=> part \in Untouched(S)
  BY <1>2 DEF Untouched
<1>4. Without(q, S) = Filtered(q, Untouched(S))
  BY <1>1, <1>3, FilteredSame DEF Without
<1>5. ASSUME Touches(q, S) PROVE Filtered(q, Untouched(S)) = <<>>
  <2>1. Range(q) \intersect Untouched(S) = {}
    BY <1>5 DEF Touches, Untouched
  <2> QED BY <1>1, <2>1, FilteredNone
<1> QED BY <1>4, <1>5

LEMMA WithoutOwn ==
  ASSUME NEW f \in Filters, NEW g \in Filters, NEW S,
         \A field \in Fields : \/ PartsFor(field, f) = PartsFor(field, g)
                               \/ /\ Touches(PartsFor(field, f), S)
                                  /\ Touches(PartsFor(field, g), S)
  PROVE  Without(FilterToTraceQL(f), S) = Without(FilterToTraceQL(g), S)
<1> DEFINE W(x) == Filtered(x, Untouched(S))
<1>1. ASSUME NEW h \in Filters
      PROVE  Without(FilterToTraceQL(h), S)
               = Seven(W(PartsFor("serviceName", h)), W(PartsFor("spanName", h)),
                       W(PartsFor("namespace", h)), W(PartsFor("status", h)),
                       W(PartsFor("spanDuration", h)), W(PartsFor("traceDuration", h)),
                       W(PartsFor("customMatchers", h)))
  <2>1. AreLists(Parts, PartsFor("serviceName", h), PartsFor("spanName", h),
                 PartsFor("namespace", h), PartsFor("status", h),
                 PartsFor("spanDuration", h), PartsFor("traceDuration", h),
                 PartsFor("customMatchers", h))
    BY QueryOfParts, MatchersOfQuery DEF AreLists, Fields
  <2>2. Without(FilterToTraceQL(h), S) = W(FilterToTraceQL(h))
    BY FilterIsWritten, WithoutFacts
  <2> QED BY <2>1, <2>2, QueryOfParts, SevenFiltered
<1>2. ASSUME NEW field \in Fields PROVE W(PartsFor(field, f)) = W(PartsFor(field, g))
  <2>1. PartsFor(field, f) \in ParsedQueries /\ PartsFor(field, g) \in ParsedQueries
    BY QueryOfParts
  <2>2. CASE PartsFor(field, f) = PartsFor(field, g)
    BY <2>2
  <2>3. CASE Touches(PartsFor(field, f), S) /\ Touches(PartsFor(field, g), S)
    BY <2>1, <2>3, WithoutFacts
  <2> QED BY <2>2, <2>3
<1> HIDE DEF W
<1> QED BY <1>1, <1>2 DEF Fields

LEMMA PartsForSame ==
  ASSUME NEW f, NEW g, NEW field \in Fields, f[field] = g[field]
  PROVE  PartsFor(field, f) = PartsFor(field, g)
BY DEF PartsFor, Fields

LEMMA KeepsOthersSet ==
  ASSUME QueryInv, NEW field, NEW new, NEW meant, Sets(field, new, meant)
  PROVE  KeepsOthers
<1> DEFINE f == TraceQLToFilter(query)
           g == [f EXCEPT ![field] = new]
           goal == [wanted EXCEPT ![field] = meant]
           mine == AttributesOf(field, wanted, goal)
<1> SUFFICES ASSUME IsSimpleTraceQLQuery(query), ~lossy', NEW other \in DOMAIN wanted,
                    wanted'[other] # wanted[other]
             PROVE  LET S == AttributesOf(other, wanted, wanted')
                    IN  Without(query', S) = Without(query, S)
  BY DEF KeepsOthers
<1>1. /\ query' = FilterToTraceQL(g) /\ wanted' = goal
  BY DEF Sets, SetField
<1>2. /\ field \in Fields /\ new \in FieldType(field) /\ meant \in FieldType(field)
      /\ SameField(field, new, meant)
  BY DEF Sets
<1>3. /\ f \in Filters /\ wanted \in Filters
      /\ SameFilter(f, wanted)
  BY ShownIsWanted DEF QueryInv, ReadsBack
<1>4. query = FilterToTraceQL(f)
  BY DEF IsSimpleTraceQLQuery
<1> HIDE DEF f
<1>5. other \in Fields
  BY <1>3, FieldsOfFilter DEF Fields, NoFilter
<1>6. other = field
  BY <1>1, <1>2, <1>3, <1>5, FieldAfter
<1>7. g \in Filters /\ goal \in Filters
  BY <1>2, <1>3, FieldIsSet
<1>8. Range(f.customMatchers) = Range(wanted.customMatchers)
  BY <1>3, SameFilterFacts
<1>9. Range(g.customMatchers) = Range(goal.customMatchers)
  <2>1. SameFilter(g, goal)
    BY <1>2, <1>3, SameAfter
  <2> QED BY <1>7, <2>1, SameFilterFacts
<1>10. ASSUME NEW fd \in Fields, fd # field PROVE PartsFor(fd, g) = PartsFor(fd, f)
  <2>1. g[fd] = f[fd]
    BY <1>2, <1>3, <1>10, FieldAfter
  <2> QED BY <2>1, PartsForSame
<1> HIDE DEF g, goal
<1>11. /\ field = "serviceName" => "resource.service.name" \in mine
       /\ field = "spanName" => "name" \in mine
       /\ field = "namespace" => "resource.k8s.namespace.name" \in mine
       /\ field = "status" => "status" \in mine
       /\ field = "spanDuration" => "duration" \in mine
       /\ field = "traceDuration" => "traceDuration" \in mine
       /\ field = "customMatchers" =>
            \A m \in Range(wanted.customMatchers) \union Range(goal.customMatchers) :
              m.attribute \in mine
  BY DEF AttributesOf
<1> HIDE DEF mine
<1>12. Touches(PartsFor(field, f), mine)
  BY <1>2, <1>3, <1>8, <1>11, OwnPartsTouch DEF Fields
<1>13. Touches(PartsFor(field, g), mine)
  BY <1>2, <1>7, <1>9, <1>11, OwnPartsTouch DEF Fields
<1>14. Without(FilterToTraceQL(g), mine) = Without(FilterToTraceQL(f), mine)
  BY <1>3, <1>7, <1>10, <1>12, <1>13, WithoutOwn
<1> QED BY <1>1, <1>4, <1>6, <1>14 DEF mine

LEMMA KeepsOthersNext ==
  ASSUME QueryInv, [Next]_vars
  PROVE  [KeepsOthers]_vars
<1>1. CASE Edit
  BY <1>1, EditSets, KeepsOthersSet
<1>2. CASE \E q \in Queries \union {<<>>} : RunQuery(q)
  <2>1. ~filtered'
    BY <1>2 DEF RunQuery
  <2> QED BY <2>1 DEF KeepsOthers
<1>3. CASE UNCHANGED vars
  BY <1>3
<1> QED BY <1>1, <1>2, <1>3 DEF Next

--------------------------------------------------------------------------------
(* The spans that a query selects.                                              *)

LEMMA HoldsFacts ==
  ASSUME NEW m, NEW span, span.custom \in BOOLEAN
  PROVE  /\ m.attribute = "resource.service.name"
              => (Holds(m, span) <=> Compares(m, span.serviceName))
         /\ m.attribute = "name" => (Holds(m, span) <=> Compares(m, span.spanName))
         /\ m.attribute = "resource.k8s.namespace.name"
              => (Holds(m, span) <=> Compares(m, span.namespace))
         /\ m.attribute = "status" => (Holds(m, span) <=> m.value = span.status)
         /\ m.attribute = "duration" => (Holds(m, span) <=> Bounds(m, span.duration))
         /\ m.attribute = "traceDuration" => (Holds(m, span) <=> Bounds(m, span.traceDuration))
         /\ m.attribute \notin KnownAttributes => (Holds(m, span) <=> span.custom)
<1>1. CASE m.attribute = "resource.service.name"
  BY <1>1 DEF Holds, KnownAttributes
<1>2. CASE m.attribute = "name"
  BY <1>2 DEF Holds, KnownAttributes
<1>3. CASE m.attribute = "resource.k8s.namespace.name"
  BY <1>3 DEF Holds, KnownAttributes
<1>4. CASE m.attribute = "status"
  BY <1>4 DEF Holds, KnownAttributes
<1>5. CASE m.attribute = "duration"
  BY <1>5 DEF Holds, KnownAttributes
<1>6. CASE m.attribute = "traceDuration"
  BY <1>6 DEF Holds, KnownAttributes
<1>7. CASE m.attribute \notin KnownAttributes
  BY <1>7 DEF Holds, KnownAttributes
<1> QED BY <1>1, <1>2, <1>3, <1>4, <1>5, <1>6, <1>7 DEF KnownAttributes

LEMMA SelectsOne ==
  ASSUME NEW m, NEW span
  PROVE  /\ Selects(<<<<m>>>>, span) <=> Holds(m, span)
         /\ Selects(<<>>, span)
<1>1. Range(<<<<m>>>>) = {<<m>>} /\ Range(<<m>>) = {m} /\ Range(<<>>) = {}
  BY DEF Range
<1> QED BY <1>1 DEF Selects

LEMMA Several ==
  ASSUME NEW V, NEW s \in Seq(V), s # <<>>, Len(s) # 1
  PROVE  Len(s) > 1
<1>1. PICK k \in Nat : k = Len(s)
  OBVIOUS
<1>2. k # 0 /\ k # 1
  BY <1>1, EmptySeq
<1>3. k > 1
  BY <1>2
<1> QED BY <1>1, <1>3

(* Several plain values have no bar, which joins them.                          *)
LEMMA PlainHasNoBar ==
  ASSUME NEW values, Plain(values), Len(values) > 1
  PROVE  \A v \in Range(values) : Bar \notin Range(v)
<1>1. Bar \in RegexCharacters
  BY DEF RegexCharacters
<1>2. ~(Len(values) <= 1)
  OBVIOUS
<1>3. \A v \in Range(values) : Range(v) \intersect RegexCharacters = {}
  BY <1>2 DEF Plain
<1> QED BY <1>1, <1>3

(* The matcher of a string field compares with its values, all of them.         *)
LEMMA StringCompares ==
  ASSUME NEW values \in Seq(Texts), Plain(values), values # <<>>, NEW a
  PROVE  \E m : /\ StringMatcher(a, values) = <<<<m>>>> /\ m.attribute = a
                /\ \A text : Compares(m, text) <=> text \in Range(values)
<1> DEFINE literal == <<Quote>> \o Join(Map(Escape, values), Bar) \o <<Quote>>
           op == IF Len(values) = 1 THEN "=" ELSE "=~"
           m == Matcher(a, op, literal, TRUE)
           joined == Join(values, Bar)
<1>1. StringMatcher(a, values) = <<<<m>>>>
  BY DEF StringMatcher
<1>2. m.attribute = a /\ m.operator = op /\ m.value = literal
  BY DEF Matcher
<1>3. PICK V : V = Characters
  OBVIOUS
<1>4. Quote \in V /\ Backslash \in V /\ Bar \in V /\ Texts = Seq(V)
  <2>1. Quote \in Characters /\ Backslash \in Characters /\ Bar \in Characters
    BY CharactersAssumption
  <2> QED BY <1>3, <2>1 DEF Texts
<1>5. joined \in Seq(V) /\ Escape(joined) \in Seq(V) /\ Unescape(Escape(joined)) = joined
  <2>1. joined \in Seq(V)
    BY <1>4, JoinType
  <2> QED BY <1>4, <2>1, UnescapeEscape
<1>6. literal = <<Quote>> \o Escape(joined) \o <<Quote>>
  BY <1>4, EscapeJoin
<1>7. SubSeq(literal, 2, Len(literal) - 1) = Escape(joined)
  <2>1. PICK e \in Seq(V) : e = Escape(joined)
    BY <1>5
  <2> QED BY <1>4, <1>6, <2>1, Within
<1> HIDE DEF literal, joined, op
<1>8. Literal(literal) = joined
  BY <1>5, <1>7 DEF Literal
<1>9. \A text : Compares(m, text) <=> text \in Range(values)
  <2>1. CASE Len(values) = 1
    <3>1. values = <<values[1]>> /\ values[1] \in Seq(V)
      BY <1>4, <2>1, OneEntry
    <3>2. joined = values[1]
      BY <3>1, JoinOne DEF joined
    <3>3. op = "="
      BY <2>1 DEF op
    <3>4. Range(values) = {values[1]}
      BY <3>1 DEF Range
    <3> HIDE DEF m
    <3> QED BY <1>2, <1>8, <3>2, <3>3, <3>4 DEF Compares
  <2>2. CASE Len(values) # 1
    <3>1. Len(values) > 1
      BY <2>2, Several
    <3>2. \A i \in DOMAIN values : Bar \notin Range(values[i])
      BY <3>1, PlainHasNoBar DEF Range
    <3>3. Split(joined, Bar) = values
      BY <1>4, <3>2, SplitJoin DEF joined
    <3>4. op = "=~" /\ op # "="
      BY <2>2 DEF op
    <3> HIDE DEF m
    <3> QED BY <1>2, <1>8, <3>3, <3>4 DEF Compares, Alternatives
  <2> QED BY <2>1, <2>2
<1> HIDE DEF m
<1> QED BY <1>1, <1>2, <1>9

LEMMA StringSelects ==
  ASSUME NEW values \in Seq(Texts), Plain(values), NEW a, NEW span, NEW text,
         \A m : m.attribute = a => (Holds(m, span) <=> Compares(m, text))
  PROVE  Selects(StringMatcher(a, values), span) <=> OneOf(values, text)
<1>1. CASE values = <<>>
  BY <1>1, SelectsOne DEF StringMatcher, OneOf
<1>2. CASE values # <<>>
  <2>1. PICK m : /\ StringMatcher(a, values) = <<<<m>>>> /\ m.attribute = a
                 /\ \A t : Compares(m, t) <=> t \in Range(values)
    BY <1>2, StringCompares
  <2>2. Selects(StringMatcher(a, values), span) <=> Holds(m, span)
    BY <2>1, SelectsOne
  <2>3. Holds(m, span) <=> text \in Range(values)
    BY <2>1
  <2> QED BY <1>2, <2>2, <2>3 DEF OneOf
<1> QED BY <1>1, <1>2

LEMMA StatusSelects ==
  ASSUME NEW values \in Seq(Texts \ {<<>>}), NEW span, span.custom \in BOOLEAN
  PROVE  Selects(IntrinsicMatcher("status", values), span) <=> OneOf(values, span.status)
<1> DEFINE a == "status"
           text == span.status
<1>0. \A m : m.attribute = a => (Holds(m, span) <=> m.value = text)
  BY HoldsFacts
<1> HIDE DEF a, text
<1>1. Selects(IntrinsicMatcher(a, values), span) <=> OneOf(values, text)
  <2>1. CASE values = <<>>
    BY <2>1, SelectsOne DEF IntrinsicMatcher, OneOf
  <2>2. CASE values # <<>>
    <3> DEFINE part == [i \in DOMAIN values |-> Spaced(a, "=", values[i])]
    <3>1. IntrinsicMatcher(a, values) = <<part>>
      BY <2>2 DEF IntrinsicMatcher, Spaced
    <3>2. Range(<<part>>) = {part}
      BY DEF Range
    <3>3. Range(part) = {Spaced(a, "=", v) : v \in Range(values)}
      BY DEF Range
    <3> HIDE DEF part
    <3>4. \A v : Spaced(a, "=", v).attribute = a /\ Spaced(a, "=", v).value = v
      BY DEF Spaced, Matcher
    <3>5. \A v : Holds(Spaced(a, "=", v), span) <=> v = text
      BY <1>0, <3>4
    <3>6. Selects(<<part>>, span) <=> \E m \in Range(part) : Holds(m, span)
      BY <3>2 DEF Selects
    <3>7. (\E m \in Range(part) : Holds(m, span)) <=> text \in Range(values)
      BY <3>3, <3>5
    <3> QED BY <2>2, <3>1, <3>6, <3>7 DEF OneOf
  <2> QED BY <2>1, <2>2
<1> QED BY <1>1 DEF a, text

LEMMA EndSelects ==
  ASSUME NEW a, NEW op, NEW value, NEW span
  PROVE  Selects(End(a, op, value), span)
           <=> value = <<>> \/ Holds(Spaced(a, op, value), span)
BY SelectsOne DEF End

LEMMA DurationSelects ==
  ASSUME NEW d \in DurationFields, NEW a \in Characters, NEW span, NEW length,
         \A m : m.attribute = a => (Holds(m, span) <=> Bounds(m, length))
  PROVE  Selects(DurationMatcher(a, d), span) <=> Between(d, length)
<1> DEFINE lo == End(a, ">=", d.min)
           hi == End(a, "<=", d.max)
<1>1. /\ d.min \in Texts /\ d.max \in Texts
      /\ ">=" \in Characters /\ "<=" \in Characters /\ ">=" # "<="
  BY CharactersAssumption DEF DurationFields
<1>2. DurationMatcher(a, d) = Cat(lo, hi)
  BY DEF DurationMatcher, End, Spaced, Cat
<1>3. lo \in ParsedQueries /\ hi \in ParsedQueries
  BY <1>1, EndFacts
<1> HIDE DEF lo, hi
<1>4. Range(Cat(lo, hi)) = Range(lo) \union Range(hi)
  BY <1>3, MatchersOfQuery, CatFacts
<1>5. Selects(Cat(lo, hi), span) <=> Selects(lo, span) /\ Selects(hi, span)
  BY <1>4 DEF Selects
<1>6. \A op, v : /\ Spaced(a, op, v).attribute = a /\ Spaced(a, op, v).operator = op
                 /\ Spaced(a, op, v).value = v
  BY DEF Spaced, Matcher
<1>7. /\ Holds(Spaced(a, ">=", d.min), span) <=> length >= Rank(d.min)
      /\ Holds(Spaced(a, "<=", d.max), span) <=> length <= Rank(d.max)
  <2>1. /\ Holds(Spaced(a, ">=", d.min), span) <=> Bounds(Spaced(a, ">=", d.min), length)
        /\ Holds(Spaced(a, "<=", d.max), span) <=> Bounds(Spaced(a, "<=", d.max), length)
    BY <1>6
  <2>2. Bounds(Spaced(a, ">=", d.min), length) <=> length >= Rank(d.min)
    BY <1>6 DEF Bounds
  <2>3. Bounds(Spaced(a, "<=", d.max), length) <=> length <= Rank(d.max)
    BY <1>1, <1>6 DEF Bounds
  <2> QED BY <2>1, <2>2, <2>3
<1>8. /\ Selects(lo, span) <=> d.min = <<>> \/ length >= Rank(d.min)
      /\ Selects(hi, span) <=> d.max = <<>> \/ length <= Rank(d.max)
  BY <1>7, EndSelects DEF lo, hi
<1> QED BY <1>2, <1>5, <1>8 DEF Between

LEMMA CustomSelects ==
  ASSUME NEW ms \in Seq(CustomMatchers), NoneKnown(ms), NEW span, span.custom \in BOOLEAN
  PROVE  Selects(CustomMatcher(ms), span) <=> ms = <<>> \/ span.custom
<1>1. \A m \in Range(ms) : Holds(m, span) <=> span.custom
  BY HoldsFacts DEF NoneKnown, IsKnown
<1>2. Range(CustomMatcher(ms)) = {<<m>> : m \in Range(ms)}
  BY CustomParts
<1>3. \A m : Range(<<m>>) = {m}
  BY DEF Range
<1>4. Selects(CustomMatcher(ms), span) <=> \A m \in Range(ms) : Holds(m, span)
  BY <1>2, <1>3 DEF Selects
<1>5. CASE ms = <<>>
  <2>1. Range(ms) = {}
    BY <1>5 DEF Range
  <2> QED BY <1>4, <1>5, <2>1
<1>6. CASE ms # <<>>
  <2>1. Range(ms) # {}
    BY <1>6, NoEntry
  <2>2. PICK m \in Range(ms) : TRUE
    BY <2>1
  <2> QED BY <1>1, <1>4, <1>6, <2>2
<1> QED BY <1>5, <1>6

(* What selects a part of a query each selects the query.                       *)
LEMMA SelectsParts ==
  ASSUME NEW g \in Filters, NEW span
  PROVE  Selects(FilterToTraceQL(g), span)
           <=> \A field \in Fields : Selects(PartsFor(field, g), span)
<1>1. AreLists(Parts, PartsFor("serviceName", g), PartsFor("spanName", g),
               PartsFor("namespace", g), PartsFor("status", g),
               PartsFor("spanDuration", g), PartsFor("traceDuration", g),
               PartsFor("customMatchers", g))
  BY QueryOfParts, MatchersOfQuery DEF AreLists, Fields
<1>2. Range(FilterToTraceQL(g))
        = Range(PartsFor("serviceName", g)) \union Range(PartsFor("spanName", g))
            \union Range(PartsFor("namespace", g)) \union Range(PartsFor("status", g))
            \union Range(PartsFor("spanDuration", g)) \union Range(PartsFor("traceDuration", g))
            \union Range(PartsFor("customMatchers", g))
  BY <1>1, QueryOfParts, SevenFacts
<1> QED BY <1>2 DEF Selects, Fields

LEMMA SelectsDescribed ==
  ASSUME NEW g \in Filters, ~Lossy(g), \A field \in StringFields : Plain(g[field]),
         NEW span, span.custom \in BOOLEAN
  PROVE  Selects(FilterToTraceQL(g), span) <=> Describes(g, span)
<1>0. KnownAttributes \subseteq Characters
  BY CharactersAssumption
<1>1. /\ g.serviceName \in Seq(Texts) /\ Plain(g.serviceName)
      /\ g.spanName \in Seq(Texts) /\ Plain(g.spanName)
      /\ g.namespace \in Seq(Texts) /\ Plain(g.namespace)
      /\ g.status \in Seq(Texts \ {<<>>})
      /\ g.spanDuration \in DurationFields /\ g.traceDuration \in DurationFields
      /\ g.customMatchers \in Seq(CustomMatchers) /\ NoneKnown(g.customMatchers)
  BY FieldsOfFilter DEF StringFields, Lossy, NoneKnown
<1>2. Selects(PartsFor("serviceName", g), span) <=> OneOf(g.serviceName, span.serviceName)
  <2>1. \A m : m.attribute = "resource.service.name"
                 => (Holds(m, span) <=> Compares(m, span.serviceName))
    BY HoldsFacts
  <2> QED BY <1>1, <2>1, PartsForFields, StringSelects
<1>3. Selects(PartsFor("spanName", g), span) <=> OneOf(g.spanName, span.spanName)
  <2>1. \A m : m.attribute = "name" => (Holds(m, span) <=> Compares(m, span.spanName))
    BY HoldsFacts
  <2> QED BY <1>1, <2>1, PartsForFields, StringSelects
<1>4. Selects(PartsFor("namespace", g), span) <=> OneOf(g.namespace, span.namespace)
  <2>1. \A m : m.attribute = "resource.k8s.namespace.name"
                 => (Holds(m, span) <=> Compares(m, span.namespace))
    BY HoldsFacts
  <2> QED BY <1>1, <2>1, PartsForFields, StringSelects
<1>5. Selects(PartsFor("status", g), span) <=> OneOf(g.status, span.status)
  <2>1. PICK s \in Seq(Texts \ {<<>>}) : s = g.status
    BY <1>1
  <2>2. Selects(IntrinsicMatcher("status", s), span) <=> OneOf(s, span.status)
    BY StatusSelects
  <2> QED BY <2>1, <2>2, PartsForFields
<1>6. Selects(PartsFor("spanDuration", g), span) <=> Between(g.spanDuration, span.duration)
  <2>1. \A m : m.attribute = "duration" => (Holds(m, span) <=> Bounds(m, span.duration))
    BY HoldsFacts
  <2>2. "duration" \in Characters
    BY <1>0 DEF KnownAttributes
  <2> QED BY <1>1, <2>1, <2>2, PartsForFields, DurationSelects
<1>7. Selects(PartsFor("traceDuration", g), span)
        <=> Between(g.traceDuration, span.traceDuration)
  <2>1. \A m : m.attribute = "traceDuration"
                 => (Holds(m, span) <=> Bounds(m, span.traceDuration))
    BY HoldsFacts
  <2>2. "traceDuration" \in Characters
    BY <1>0 DEF KnownAttributes
  <2> QED BY <1>1, <2>1, <2>2, PartsForFields, DurationSelects
<1>8. Selects(PartsFor("customMatchers", g), span) <=> g.customMatchers = <<>> \/ span.custom
  BY <1>1, PartsForFields, CustomSelects
<1>9. Selects(FilterToTraceQL(g), span) <=>
        /\ Selects(PartsFor("serviceName", g), span) /\ Selects(PartsFor("spanName", g), span)
        /\ Selects(PartsFor("namespace", g), span) /\ Selects(PartsFor("status", g), span)
        /\ Selects(PartsFor("spanDuration", g), span)
        /\ Selects(PartsFor("traceDuration", g), span)
        /\ Selects(PartsFor("customMatchers", g), span)
  BY SelectsParts DEF Fields
<1>10. Describes(g, span) <=>
         /\ OneOf(g.serviceName, span.serviceName) /\ OneOf(g.spanName, span.spanName)
         /\ OneOf(g.namespace, span.namespace) /\ OneOf(g.status, span.status)
         /\ Between(g.spanDuration, span.duration)
         /\ Between(g.traceDuration, span.traceDuration)
         /\ g.customMatchers = <<>> \/ span.custom
  BY DEF Describes, StringFields
<1> QED BY <1>2, <1>3, <1>4, <1>5, <1>6, <1>7, <1>8, <1>9, <1>10

LEMMA SelectsFromInv ==
  ASSUME QueryInv
  PROVE  SelectsWhatWasPicked
<1> SUFFICES ASSUME filtered, ~lossy, \A field \in StringFields : Plain(wanted[field]),
                    NEW span \in Spans
             PROVE  Selects(query, span) <=> Describes(wanted, span)
  BY DEF SelectsWhatWasPicked
<1>1. PICK g : g \in Filters /\ query = FilterToTraceQL(g) /\ SameFilter(g, wanted)
  BY DEF QueryInv, MadeOf
<1>2. wanted \in Filters /\ NoneKnown(wanted.customMatchers)
  BY DEF QueryInv, TypeOK
<1>3. /\ g.serviceName = wanted.serviceName /\ g.spanName = wanted.spanName
      /\ g.namespace = wanted.namespace /\ g.status = wanted.status
      /\ g.spanDuration = wanted.spanDuration /\ g.traceDuration = wanted.traceDuration
  BY <1>1, SameFilterFields
<1>4. /\ Range(g.customMatchers) = Range(wanted.customMatchers)
      /\ g.customMatchers = <<>> <=> wanted.customMatchers = <<>>
  <2>1. Range(g.customMatchers) = Range(wanted.customMatchers)
    BY <1>1, <1>2, SameFilterFacts
  <2>2. g.customMatchers \in Seq(CustomMatchers) /\ wanted.customMatchers \in Seq(CustomMatchers)
    BY <1>1, <1>2, FieldsOfFilter
  <2>3. Range(<<>>) = {}
    BY DEF Range
  <2> QED BY <2>1, <2>2, <2>3, NoEntry
<1>5. \A field \in StringFields : Plain(g[field])
  BY <1>3 DEF StringFields
<1>6. ~Lossy(g)
  <2>1. \A field \in StringFields : ~HasBar(g[field])
    BY <1>5, PlainHasNoBar DEF HasBar
  <2>2. \A m \in Range(g.customMatchers) : ~IsKnown(m)
    BY <1>2, <1>4 DEF NoneKnown
  <2> QED BY <2>1, <2>2 DEF Lossy
<1>7. span.custom \in BOOLEAN
  BY DEF Spans
<1>8. Selects(query, span) <=> Describes(g, span)
  BY <1>1, <1>5, <1>6, <1>7, SelectsDescribed
<1>9. Describes(g, span) <=> Describes(wanted, span)
  BY <1>3, <1>4 DEF Describes, StringFields
<1> QED BY <1>8, <1>9

--------------------------------------------------------------------------------
(* The query, the filter that is wanted and what is remembered of the last edit *)
(* are what they are declared to be, whatever is picked, typed, deleted or run. *)
THEOREM QueryTypeCorrect == Spec => []TypeOK
<1>1. QueryInv => TypeOK
  BY DEF QueryInv
<1> QED BY <1>1, QueryInvariance, PTL

(* The toolbar shows what the user has put together, whatever the values are,   *)
(* after any number of edits.                                                   *)
THEOREM ReadsBackAlways == Spec => []ReadsBack
<1>1. QueryInv => ReadsBack
  BY DEF QueryInv
<1> QED BY <1>1, QueryInvariance, PTL

(* The query that the attribute filters make selects the spans that the filter  *)
(* describes, unless it has several values of which one holds a character that  *)
(* is special in a regular expression.                                          *)
THEOREM SelectsWhatWasPickedAlways == Spec => []SelectsWhatWasPicked
<1>1. QueryInv => SelectsWhatWasPicked
  BY SelectsFromInv
<1> QED BY <1>1, QueryInvariance, PTL

(* An edit of a query that the attribute filters can represent changes the      *)
(* matchers of its own field only: what isSimpleTraceQLQuery accepts loses      *)
(* nothing.                                                                     *)
THEOREM SimpleKeepsOthersAlways == Spec => SimpleKeepsOthers
<1>1. QueryInv /\ [Next]_vars => [KeepsOthers]_vars
  BY KeepsOthersNext
<1> QED BY <1>1, QueryInvariance, PTL DEF Spec, SimpleKeepsOthers

================================================================================
