---------------------------------- MODULE ListProofs ---------------------------
(* What proofs about lists have in common: induction, and what the entries of   *)
(* a list are after something has been added to it.                             *)
EXTENDS Lists, SequencesExt, SequenceTheorems, WellFoundedInduction, TLAPS

(* A set of numbers with 0 and every successor has them all.                    *)
LEMMA Induction ==
  ASSUME NEW S \in SUBSET Nat, 0 \in S, \A n \in S : n + 1 \in S
  PROVE  S = Nat
<1> SUFFICES ASSUME S # Nat PROVE FALSE
  OBVIOUS
<1> DEFINE T == Nat \ S
<1>1. T # {} /\ T \subseteq Nat
  OBVIOUS
<1> HIDE DEF T
<1>2. PICK x \in T : \A y \in T : ~(<<y, x>> \in OpToRel(<, Nat))
  BY <1>1, NatLessThanWellFounded, WFMin
<1>3. x \in Nat /\ x - 1 \in Nat /\ x - 1 \notin S
  <2>1. x \in Nat /\ x \notin S
    BY DEF T
  <2> QED BY <2>1
<1>4. x - 1 \in T /\ <<x - 1, x>> \in OpToRel(<, Nat)
  BY <1>3 DEF T, OpToRel
<1> QED BY <1>2, <1>4

LEMMA Least ==
  ASSUME NEW S \in SUBSET Nat, S # {}
  PROVE  \E x \in S : \A y \in S : x <= y
<1>1. PICK x \in S : \A y \in S : ~(<<y, x>> \in OpToRel(<, Nat))
  BY NatLessThanWellFounded, WFMin
<1>2. \A y \in S : ~(y < x)
  BY <1>1 DEF OpToRel
<1> QED BY <1>2

(* The entries of a sequence.                                                   *)
LEMMA AppendFacts ==
  ASSUME NEW V, NEW s \in Seq(V), NEW v
  PROVE  /\ v \in V => Append(s, v) \in Seq(V)
         /\ Range(Append(s, v)) = Range(s) \union {v}
         /\ IsInjective(s) /\ v \notin Range(s) => IsInjective(Append(s, v))
<1> DEFINE a == Append(s, v)
<1>1. Len(s) \in Nat /\ DOMAIN s = 1..Len(s)
  OBVIOUS
<1>2. /\ DOMAIN a = 1..(Len(s) + 1)
      /\ a[Len(s) + 1] = v /\ \A i \in 1..Len(s) : a[i] = s[i]
  OBVIOUS
<1>3. v \in V => a \in Seq(V)
  OBVIOUS
<1> HIDE DEF a
<1>4. Range(a) = Range(s) \union {v}
  <2>1. ASSUME NEW x \in Range(a) PROVE x \in Range(s) \union {v}
    <3>1. PICK i \in 1..(Len(s) + 1) : x = a[i]
      BY <1>2 DEF Range
    <3>2. i = Len(s) + 1 \/ i \in 1..Len(s)
      BY <1>1
    <3> QED BY <1>1, <1>2, <3>1, <3>2 DEF Range
  <2>2. ASSUME NEW x \in Range(s) PROVE x \in Range(a)
    <3>1. PICK i \in 1..Len(s) : x = s[i]
      BY <1>1 DEF Range
    <3>2. i \in DOMAIN a /\ a[i] = x
      BY <1>1, <1>2, <3>1
    <3> QED BY <3>2 DEF Range
  <2>3. v \in Range(a)
    <3>1. Len(s) + 1 \in DOMAIN a
      BY <1>1, <1>2
    <3> QED BY <1>2, <3>1 DEF Range
  <2> QED BY <2>1, <2>2, <2>3
<1>5. ASSUME IsInjective(s), v \notin Range(s) PROVE IsInjective(a)
  <2> SUFFICES ASSUME NEW i \in DOMAIN a, NEW j \in DOMAIN a, a[i] = a[j]
               PROVE  i = j
    BY DEF IsInjective
  <2>1. \A k \in 1..Len(s) : a[k] # v
    BY <1>1, <1>2, <1>5 DEF Range
  <2>2. (i = Len(s) + 1 \/ i \in 1..Len(s)) /\ (j = Len(s) + 1 \/ j \in 1..Len(s))
    BY <1>1, <1>2
  <2> QED BY <1>1, <1>2, <1>5, <2>1, <2>2 DEF IsInjective
<1> QED BY <1>3, <1>4, <1>5 DEF a

LEMMA OneEntry ==
  ASSUME NEW V, NEW s \in Seq(V), Len(s) = 1
  PROVE  s = <<s[1]>> /\ s[1] \in V
OBVIOUS

(* Two lists, one after the other.                                             *)
LEMMA ConcatFacts ==
  ASSUME NEW V, NEW s \in Seq(V), NEW t \in Seq(V)
  PROVE  /\ s \o t \in Seq(V)
         /\ Range(s \o t) = Range(s) \union Range(t)
         /\ IsInjective(s) /\ IsInjective(t) /\ Range(s) \intersect Range(t) = {}
              => IsInjective(s \o t)
<1> DEFINE c == s \o t
           m == Len(s)
           n == Len(t)
<1>1. m \in Nat /\ n \in Nat /\ DOMAIN s = 1..m /\ DOMAIN t = 1..n
  OBVIOUS
<1>2. /\ c \in Seq(V) /\ DOMAIN c = 1..(m + n)
      /\ \A i \in 1..(m + n) : c[i] = IF i <= m THEN s[i] ELSE t[i - m]
  OBVIOUS
<1> HIDE DEF c, m, n
<1>3. \A i \in 1..(m + n) : \/ i \in 1..m /\ c[i] = s[i]
                            \/ i - m \in 1..n /\ ~(i \in 1..m) /\ c[i] = t[i - m]
  <2> SUFFICES ASSUME NEW i \in 1..(m + n)
               PROVE  \/ i \in 1..m /\ c[i] = s[i]
                      \/ i - m \in 1..n /\ ~(i \in 1..m) /\ c[i] = t[i - m]
    OBVIOUS
  <2>1. i <= m => i \in 1..m
    BY <1>1
  <2>2. ~(i <= m) => i - m \in 1..n /\ ~(i \in 1..m)
    BY <1>1
  <2> QED BY <1>2, <2>1, <2>2
<1>4. Range(c) = Range(s) \union Range(t)
  <2>1. Range(c) \subseteq Range(s) \union Range(t)
    BY <1>1, <1>2, <1>3 DEF Range
  <2>2. ASSUME NEW x \in Range(s) PROVE x \in Range(c)
    <3>1. PICK i \in 1..m : x = s[i]
      BY <1>1 DEF Range
    <3>2. i \in 1..(m + n) /\ c[i] = x
      BY <1>1, <1>2, <3>1
    <3> QED BY <1>2, <3>2 DEF Range
  <2>3. ASSUME NEW x \in Range(t) PROVE x \in Range(c)
    <3>1. PICK i \in 1..n : x = t[i]
      BY <1>1 DEF Range
    <3>2. m + i \in 1..(m + n) /\ c[m + i] = x
      <4>1. m + i \in 1..(m + n) /\ ~(m + i <= m) /\ (m + i) - m = i
        BY <1>1
      <4> QED BY <1>2, <3>1, <4>1
    <3> QED BY <1>2, <3>2 DEF Range
  <2> QED BY <2>1, <2>2, <2>3
<1>5. ASSUME IsInjective(s), IsInjective(t), Range(s) \intersect Range(t) = {}
      PROVE  IsInjective(c)
  <2> SUFFICES ASSUME NEW i \in 1..(m + n), NEW j \in 1..(m + n), c[i] = c[j]
               PROVE  i = j
    BY <1>2 DEF IsInjective
  <2>1. \A a \in 1..m, b \in 1..n : s[a] # t[b]
    BY <1>1, <1>5 DEF Range
  <2>2. CASE i \in 1..m /\ j \in 1..m
    BY <1>1, <1>3, <1>5, <2>2 DEF IsInjective
  <2>3. CASE ~(i \in 1..m) /\ ~(j \in 1..m)
    <3>1. i - m \in 1..n /\ j - m \in 1..n /\ t[i - m] = t[j - m]
      BY <1>3, <2>3
    <3>2. i - m = j - m
      BY <1>1, <1>5, <3>1 DEF IsInjective
    <3> QED BY <1>1, <3>2
  <2>4. CASE (i \in 1..m) # (j \in 1..m)
    BY <1>3, <2>1, <2>4
  <2> QED BY <2>2, <2>3, <2>4
<1> QED BY <1>2, <1>4, <1>5 DEF c

(* A list that begins with x.                                                   *)
LEMMA ConsFacts ==
  ASSUME NEW V, NEW x \in V, NEW r \in Seq(V)
  PROVE  /\ Cons(x, r) \in Seq(V) /\ Cons(x, r) # <<>>
         /\ Len(Cons(x, r)) = Len(r) + 1
         /\ Cons(x, r)[1] = x /\ \A i \in 1..Len(r) : Cons(x, r)[i + 1] = r[i]
         /\ Head(Cons(x, r)) = x /\ Tail(Cons(x, r)) = r
         /\ Range(Cons(x, r)) = {x} \union Range(r)
<1> DEFINE c == <<x>> \o r
<1>1. Len(r) \in Nat
  BY LenProperties
<1>2. c \in Seq(V) /\ c # <<>> /\ Len(c) = Len(r) + 1
      /\ c[1] = x /\ \A i \in 1..Len(r) : c[i + 1] = r[i]
  OBVIOUS
<1>3. Head(c) = x /\ Tail(c) = r
  <2> DEFINE t == Tail(c)
  <2>1. Head(c) = x /\ t \in Seq(V) /\ Len(t) = Len(r) /\ \A i \in 1..Len(t) : t[i] = c[i + 1]
    <3> HIDE DEF c
    <3> QED BY <1>1, <1>2, HeadTailProperties
  <2> HIDE DEF c, t
  <2>2. t = r
    BY <1>2, <2>1, SeqEqual
  <2> QED BY <2>1, <2>2 DEF t
<1>4. Range(c) = {x} \union Range(r)
  <2>1. PICK p : p = <<x>>
    OBVIOUS
  <2>2. p \in Seq(V) /\ DOMAIN p = {1} /\ p[1] = x
    BY <2>1
  <2>3. Range(p) = {x}
    BY <2>2 DEF Range
  <2>4. Range(p \o r) = Range(p) \union Range(r)
    BY <2>2, ConcatFacts
  <2> QED BY <2>1, <2>3, <2>4
<1> QED BY <1>2, <1>3, <1>4 DEF Cons

(* s \o t under a name: the provers rewrite \o itself, and then do not see that *)
(* a fact about it applies.                                                     *)
Cat(s, t) == s \o t

LEMMA CatEmpty ==
  ASSUME NEW V, NEW s \in Seq(V)
  PROVE  Cat(<<>>, s) = s /\ Cat(s, <<>>) = s
BY ConcatEmptySeq DEF Cat

LEMMA CatFacts ==
  ASSUME NEW V, NEW s \in Seq(V), NEW t \in Seq(V)
  PROVE  Cat(s, t) \in Seq(V) /\ Range(Cat(s, t)) = Range(s) \union Range(t)
BY ConcatFacts DEF Cat

LEMMA CatAssociative ==
  ASSUME NEW V, NEW s \in Seq(V), NEW t \in Seq(V), NEW u \in Seq(V)
  PROVE  Cat(Cat(s, t), u) = Cat(s, Cat(t, u))
BY ConcatAssociative DEF Cat

LEMMA ConsCat ==
  ASSUME NEW V, NEW x \in V, NEW r \in Seq(V), NEW s \in Seq(V)
  PROVE  Cat(Cons(x, r), s) = Cons(x, Cat(r, s))
<1>1. <<x>> \in Seq(V)
  OBVIOUS
<1> QED BY <1>1, ConcatAssociative DEF Cons, Cat

LEMMA TwoFirst ==
  ASSUME NEW V, NEW a \in V, NEW b \in V, NEW r \in Seq(V)
  PROVE  <<a, b>> \o r = Cons(a, Cons(b, r))
<1> DEFINE s == <<a, b>> \o r
           t == Cons(b, r)
           u == Cons(a, t)
           n == Len(r)
<1>1. n \in Nat
  BY LenProperties
<1>2. /\ t \in Seq(V) /\ Len(t) = n + 1 /\ t[1] = b
      /\ \A i \in 1..n : t[i + 1] = r[i]
  BY ConsFacts
<1>3. /\ s \in Seq(V) /\ Len(s) = n + 2 /\ s[1] = a /\ s[2] = b
      /\ \A i \in 1..n : s[i + 2] = r[i]
  OBVIOUS
<1> HIDE DEF s, t, n
<1>4. /\ u \in Seq(V) /\ Len(u) = n + 2 /\ u[1] = a
      /\ \A i \in 1..(n + 1) : u[i + 1] = t[i]
  <2>1. Len(u) = Len(t) + 1 /\ \A i \in 1..Len(t) : u[i + 1] = t[i]
    <3>1. t \in Seq(V)
      BY <1>2
    <3> QED BY <3>1, ConsFacts
  <2>2. u \in Seq(V) /\ u[1] = a
    BY <1>2, ConsFacts
  <2> QED BY <1>1, <1>2, <2>1, <2>2
<1> HIDE DEF u
<1>5. \A i \in 1..(n + 2) : s[i] = u[i]
  <2>1. 1 \in 1..(n + 1) /\ u[1 + 1] = t[1]
    BY <1>1, <1>4
  <2>2. \A i \in 1..n : u[i + 2] = r[i]
    <3> SUFFICES ASSUME NEW i \in 1..n PROVE u[i + 2] = r[i]
      OBVIOUS
    <3>1. i + 1 \in 1..(n + 1) /\ (i + 1) + 1 = i + 2
      BY <1>1
    <3>2. u[(i + 1) + 1] = t[i + 1]
      BY <1>4, <3>1
    <3> QED BY <1>2, <3>1, <3>2
  <2>3. \A i \in 1..(n + 2) : i = 1 \/ i = 2 \/ (i - 2 \in 1..n /\ (i - 2) + 2 = i)
    BY <1>1
  <2> QED BY <1>2, <1>3, <1>4, <2>1, <2>2, <2>3
<1> QED BY <1>3, <1>4, <1>5, SeqEqual DEF s, t, u

LEMMA ConsAppend ==
  ASSUME NEW V, NEW x \in V, NEW r \in Seq(V), NEW v \in V
  PROVE  Cons(x, Append(r, v)) = Append(Cons(x, r), v)
<1>1. PICK e : e = <<v>>
  OBVIOUS
<1>2. e \in Seq(V)
  BY <1>1
<1>3. Append(r, v) = Cat(r, e)
  BY <1>1, AppendIsConcat DEF Cat
<1>4. Append(Cons(x, r), v) = Cat(Cons(x, r), e)
  BY <1>1, AppendIsConcat, ConsFacts DEF Cat
<1>5. Cat(Cons(x, r), e) = Cons(x, Cat(r, e))
  BY <1>2, ConsCat
<1> QED BY <1>3, <1>4, <1>5

(* A list is empty, or an entry and a shorter list, at either end.              *)
LEMMA FirstAndRest ==
  ASSUME NEW V, NEW list \in Seq(V), list # <<>>
  PROVE  \E x \in V, r \in Seq(V) : list = Cons(x, r) /\ Len(list) = Len(r) + 1
<1> DEFINE x == Head(list)
           r == Tail(list)
<1>1. Len(list) \in Nat \ {0}
  BY EmptySeq
<1>2. x \in V /\ r \in Seq(V) /\ Len(r) = Len(list) - 1
  BY HeadTailProperties
<1>3. list = Cons(x, r)
  BY DEF Cons
<1>4. Len(list) = Len(r) + 1
  BY <1>1, <1>2
<1> HIDE DEF x, r
<1> QED BY <1>2, <1>3, <1>4

LEMMA FrontAndLast ==
  ASSUME NEW V, NEW list \in Seq(V), list # <<>>
  PROVE  \E s \in Seq(V), x \in V : list = Append(s, x) /\ Len(list) = Len(s) + 1
<1> DEFINE n == Len(list)
<1>1. n \in Nat \ {0}
  BY EmptySeq
<1>2. PICK k \in Nat : k = n - 1 /\ n = k + 1
  BY <1>1
<1> DEFINE s == SubSeq(list, 1, k)
           x == list[n]
<1>3. s \in Seq(V) /\ Len(s) = k /\ \A i \in 1..k : s[i] = list[i]
  <2>1. \A i \in 1..k : list[i] \in V
    BY <1>1, <1>2, ElementOfSeq
  <2>2. 1 \in Int /\ k \in Int /\ (IF 1 <= k THEN k - 1 + 1 ELSE 0) = k
        /\ k - 1 + 1 = k /\ \A i \in 1..k : 1 + i - 1 = i
    BY <1>2
  <2>3. /\ SubSeq(list, 1, k) \in Seq(V)
        /\ Len(SubSeq(list, 1, k)) = IF 1 <= k THEN k - 1 + 1 ELSE 0
        /\ \A i \in 1..(k - 1 + 1) : SubSeq(list, 1, k)[i] = list[1 + i - 1]
    BY <2>1, <2>2, SubSeqProperties
  <2> QED BY <2>2, <2>3
<1>4. x \in V
  BY <1>1, ElementOfSeq
<1> DEFINE a == Append(s, x)
<1>5. a \in Seq(V) /\ Len(a) = n /\ a[n] = x /\ \A i \in 1..k : a[i] = list[i]
  <2> HIDE DEF s, x, n
  <2> QED BY <1>2, <1>3, <1>4, AppendProperties
<1>6. list = a
  <2>1. \A i \in 1..n : i \in 1..k \/ i = n
    BY <1>1, <1>2
  <2> HIDE DEF a
  <2>2. \A i \in 1..n : a[i] = list[i]
    BY <1>5, <2>1 DEF x
  <2> QED BY <1>5, <2>2, SeqEqual
<1> HIDE DEF s, x
<1> QED BY <1>2, <1>3, <1>4, <1>6

(* Induction over lists, from either end.                                       *)
LEMMA ListInduction ==
  ASSUME NEW V, NEW S \in SUBSET Seq(V), <<>> \in S,
         \/ \A x \in V, r \in S : Cons(x, r) \in S
         \/ \A s \in S, x \in V : Append(s, x) \in S
  PROVE  S = Seq(V)
<1> DEFINE X == {n \in Nat : \A list \in Seq(V) : Len(list) = n => list \in S}
<1>1. 0 \in X
  <2> SUFFICES ASSUME NEW list \in Seq(V), Len(list) = 0 PROVE list \in S
    OBVIOUS
  <2>1. list = <<>>
    BY EmptySeq
  <2> QED BY <2>1
<1>2. ASSUME NEW n \in X PROVE n + 1 \in X
  <2>1. n \in Nat /\ \A r \in Seq(V) : Len(r) = n => r \in S
    OBVIOUS
  <2> SUFFICES ASSUME NEW list \in Seq(V), Len(list) = n + 1 PROVE list \in S
    BY <2>1
  <2>2. list # <<>>
    BY <2>1
  <2>3. CASE \A x \in V, r \in S : Cons(x, r) \in S
    <3>1. PICK x \in V, r \in Seq(V) : list = Cons(x, r) /\ Len(list) = Len(r) + 1
      BY <2>2, FirstAndRest
    <3>2. Len(r) = n
      BY <2>1, <3>1, LenProperties
    <3> QED BY <2>1, <2>3, <3>1, <3>2
  <2>4. CASE \A s \in S, x \in V : Append(s, x) \in S
    <3>1. PICK s \in Seq(V), x \in V : list = Append(s, x) /\ Len(list) = Len(s) + 1
      BY <2>2, FrontAndLast
    <3>2. Len(s) = n
      BY <2>1, <3>1, LenProperties
    <3> QED BY <2>1, <2>4, <3>1, <3>2
  <2> QED BY <2>3, <2>4
<1>3. X = Nat
  <2>1. X \in SUBSET Nat
    OBVIOUS
  <2> HIDE DEF X
  <2> QED BY <1>1, <1>2, <2>1, Induction
<1>4. \A list \in Seq(V) : Len(list) \in X
  <2> HIDE DEF X
  <2> QED BY <1>3, LenProperties
<1> QED BY <1>4

--------------------------------------------------------------------------------
(* Lists of lists.  *)

(* What FlattenSeq has put together, up to each position.                       *)
IsFlattening(f, seqs) ==
  f = [i \in 1..Len(seqs) |-> IF i = 1 THEN seqs[i] ELSE f[i - 1] \o seqs[i]]

LEMMA FlatteningExists ==
  ASSUME NEW V, NEW seqs \in Seq(V), seqs # <<>>
  PROVE  \E f : IsFlattening(f, seqs) /\ FlattenSeq(seqs) = f[Len(seqs)]
<1> DEFINE step(f, i) == IF i = 1 THEN seqs[i] ELSE f[i - 1] \o seqs[i]
           upTo(f, n) == f = [i \in 1..n |-> step(f, i)]
           X == {n \in Nat : \E f : upTo(f, n)}
<1>1. 0 \in X
  <2>1. upTo([i \in 1..0 |-> <<>>], 0)
    OBVIOUS
  <2> QED BY <2>1
<1>2. ASSUME NEW n \in X PROVE n + 1 \in X
  <2>1. PICK f : upTo(f, n)
    OBVIOUS
  <2> DEFINE g == [i \in 1..(n + 1) |-> IF i = n + 1 THEN step(f, n + 1) ELSE f[i]]
  <2>2. n \in Nat
    OBVIOUS
  <2>3. \A i \in 1..n : g[i] = f[i]
    BY <2>2
  <2>4. \A i \in 1..n : f[i] = step(f, i)
    BY <2>1
  <2>5. \A i \in 1..(n + 1) : step(g, i) = step(f, i)
    <3>1. \A i \in 1..(n + 1) : i = 1 \/ i - 1 \in 1..n
      BY <2>2
    <3> HIDE DEF g
    <3> QED BY <2>3, <3>1
  <2>6. \A i \in 1..(n + 1) : g[i] = step(g, i)
    <3> SUFFICES ASSUME NEW i \in 1..(n + 1) PROVE g[i] = step(g, i)
      OBVIOUS
    <3>1. CASE i = n + 1
      BY <2>2, <2>5, <3>1
    <3>2. CASE i # n + 1
      <4>1. i \in 1..n
        BY <2>2, <3>2
      <4> QED BY <2>3, <2>4, <2>5, <4>1
    <3> QED BY <3>1, <3>2
  <2> HIDE DEF step
  <2>7. upTo(g, n + 1)
    BY <2>6
  <2> HIDE DEF g
  <2> QED BY <2>2, <2>7
<1>3. Len(seqs) \in X
  <2> HIDE DEF X
  <2>1. X = Nat
    <3>1. X \in SUBSET Nat
      BY DEF X
    <3> QED BY <1>1, <1>2, <3>1, Induction
  <2> QED BY <2>1, LenProperties
<1>4. PICK f : IsFlattening(f, seqs)
  BY <1>3 DEF IsFlattening
<1> DEFINE F == CHOOSE h : IsFlattening(h, seqs)
<1>5. IsFlattening(F, seqs)
  BY <1>4
<1>6. Len(seqs) # 0
  BY EmptySeq
<1>7. FlattenSeq(seqs) = F[Len(seqs)]
  BY <1>6 DEF FlattenSeq, IsFlattening
<1> QED BY <1>5, <1>7

LEMMA FlattenEmpty == FlattenSeq(<<>>) = <<>>
BY DEF FlattenSeq

(* A list is flattened from left to right.                                      *)
LEMMA FlattenAppend ==
  ASSUME NEW W, NEW seqs \in Seq(Seq(W)), NEW x \in Seq(W)
  PROVE  FlattenSeq(Append(seqs, x)) = FlattenSeq(seqs) \o x
<1> DEFINE n == Len(seqs)
           s == Append(seqs, x)
<1>1. n \in Nat
  BY LenProperties
<1>2. /\ s \in Seq(Seq(W)) /\ s # <<>> /\ Len(s) = n + 1 /\ s[n + 1] = x
      /\ \A i \in 1..n : s[i] = seqs[i]
  BY AppendProperties, <1>1
<1> HIDE DEF s
<1>3. PICK f : IsFlattening(f, s) /\ FlattenSeq(s) = f[n + 1]
  BY <1>2, FlatteningExists
<1>4. \A i \in 1..(n + 1) : f[i] = IF i = 1 THEN s[i] ELSE f[i - 1] \o s[i]
  BY <1>2, <1>3 DEF IsFlattening
<1>5. CASE seqs = <<>>
  <2>1. n = 0 /\ 1 \in 1..(n + 1)
    BY <1>5
  <2>2. FlattenSeq(s) = x
    BY <1>2, <1>3, <1>4, <2>1
  <2>3. <<>> \o x = x
    OBVIOUS
  <2> QED BY <1>5, <2>2, <2>3, FlattenEmpty DEF s
<1>6. CASE seqs # <<>>
  <2>1. PICK g : IsFlattening(g, seqs) /\ FlattenSeq(seqs) = g[n]
    BY <1>6, FlatteningExists
  <2>2. \A i \in 1..n : g[i] = IF i = 1 THEN seqs[i] ELSE g[i - 1] \o seqs[i]
    BY <2>1 DEF IsFlattening
  <2>3. n > 0
    BY <1>6, EmptySeq
  <2> HIDE DEF n
  <2> DEFINE X == {m \in Nat : m \in 1..n => f[m] = g[m]}
  <2>4. 0 \in X
    OBVIOUS
  <2>5. ASSUME NEW m \in X PROVE m + 1 \in X
    <3> SUFFICES ASSUME m + 1 \in 1..n PROVE f[m + 1] = g[m + 1]
      OBVIOUS
    <3>1. m \in Nat /\ (m \in 1..n => f[m] = g[m])
      OBVIOUS
    <3>2. m + 1 \in 1..(n + 1) /\ (m + 1) - 1 = m /\ (m + 1 = 1 \/ m \in 1..n)
      BY <1>1, <3>1
    <3>3. s[m + 1] = seqs[m + 1]
      BY <1>2 DEF n
    <3> QED BY <1>4, <2>2, <3>1, <3>2, <3>3
  <2>6. X = Nat
    <3>1. X \in SUBSET Nat
      BY DEF X
    <3> HIDE DEF X
    <3> QED BY <2>4, <2>5, <3>1, Induction
  <2>7. f[n] = g[n]
    <3>1. n \in X
      <4> HIDE DEF X
      <4> QED BY <1>1, <2>6
    <3> QED BY <1>1, <2>3, <3>1
  <2>8. n + 1 \in 1..(n + 1) /\ n + 1 # 1 /\ (n + 1) - 1 = n
    BY <1>1, <2>3
  <2> QED BY <1>2, <1>3, <1>4, <2>1, <2>7, <2>8 DEF s, n
<1> QED BY <1>5, <1>6

LEMMA FlattenOne ==
  ASSUME NEW W, NEW x \in Seq(W)
  PROVE  FlattenSeq(<<x>>) = x
<1>1. <<>> \in Seq(Seq(W)) /\ Append(<<>>, x) = <<x>> /\ <<>> \o x = x
  OBVIOUS
<1>2. FlattenSeq(Append(<<>>, x)) = FlattenSeq(<<>>) \o x
  BY <1>1, FlattenAppend
<1> QED BY <1>1, <1>2, FlattenEmpty

LEMMA FlattenType ==
  ASSUME NEW W, NEW seqs \in Seq(Seq(W))
  PROVE  FlattenSeq(seqs) \in Seq(W)
<1> DEFINE S == {s \in Seq(Seq(W)) : FlattenSeq(s) \in Seq(W)}
<1>1. <<>> \in S
  <2>1. <<>> \in Seq(Seq(W)) /\ <<>> \in Seq(W)
    OBVIOUS
  <2> QED BY <2>1, FlattenEmpty
<1>2. ASSUME NEW s \in S, NEW x \in Seq(W) PROVE Append(s, x) \in S
  <2>1. s \in Seq(Seq(W)) /\ FlattenSeq(s) \in Seq(W)
    OBVIOUS
  <2>2. FlattenSeq(s) \o x \in Seq(W)
    BY <2>1, ConcatProperties
  <2>3. Append(s, x) \in Seq(Seq(W))
    BY <2>1, AppendProperties
  <2> QED BY <2>1, <2>2, <2>3, FlattenAppend
<1>3. S = Seq(Seq(W))
  <2>1. S \in SUBSET Seq(Seq(W))
    OBVIOUS
  <2> HIDE DEF S
  <2> QED BY <1>1, <1>2, <2>1, ListInduction
<1> QED BY <1>3

LEMMA FlattenConcatStep ==
  ASSUME NEW W, NEW s \in Seq(Seq(W)), NEW u \in Seq(Seq(W)), NEW x \in Seq(W),
         FlattenSeq(s \o u) = FlattenSeq(s) \o FlattenSeq(u)
  PROVE  FlattenSeq(s \o Append(u, x)) = FlattenSeq(s) \o FlattenSeq(Append(u, x))
<1>1. s \o Append(u, x) = Append(s \o u, x)
  <2>1. PICK e : e = <<x>>
    OBVIOUS
  <2>2. e \in Seq(Seq(W))
    BY <2>1
  <2>3. Cat(u, e) = Append(u, x) /\ Cat(Cat(s, u), e) = Append(Cat(s, u), x)
    BY <2>1, AppendIsConcat, ConcatProperties DEF Cat
  <2>4. Cat(Cat(s, u), e) = Cat(s, Cat(u, e))
    BY <2>2, CatAssociative
  <2> QED BY <2>3, <2>4 DEF Cat
<1>2. s \o u \in Seq(Seq(W))
  BY ConcatProperties
<1>3. FlattenSeq(Append(s \o u, x)) = FlattenSeq(s \o u) \o x
  BY <1>2, FlattenAppend
<1>4. FlattenSeq(Append(u, x)) = FlattenSeq(u) \o x
  BY FlattenAppend
<1> DEFINE p == FlattenSeq(s)
           q == FlattenSeq(u)
<1>5. p \in Seq(W) /\ q \in Seq(W)
  BY FlattenType
<1> HIDE DEF p, q
<1>6. Cat(Cat(p, q), x) = Cat(p, Cat(q, x))
  BY <1>5, CatAssociative
<1> QED BY <1>1, <1>3, <1>4, <1>6 DEF p, q, Cat

LEMMA FlattenConcat ==
  ASSUME NEW W, NEW s \in Seq(Seq(W)), NEW t \in Seq(Seq(W))
  PROVE  FlattenSeq(s \o t) = FlattenSeq(s) \o FlattenSeq(t)
<1> DEFINE S == {u \in Seq(Seq(W)) : FlattenSeq(s \o u) = FlattenSeq(s) \o FlattenSeq(u)}
<1>1. <<>> \in S
  <2>1. <<>> \in Seq(Seq(W)) /\ s \o <<>> = s
    BY ConcatEmptySeq
  <2>2. FlattenSeq(s) \o <<>> = FlattenSeq(s)
    BY FlattenType, ConcatEmptySeq
  <2> QED BY <2>1, <2>2, FlattenEmpty
<1>2. ASSUME NEW u \in S, NEW x \in Seq(W) PROVE Append(u, x) \in S
  <2>1. u \in Seq(Seq(W)) /\ Append(u, x) \in Seq(Seq(W))
    BY AppendProperties
  <2> QED BY <2>1, FlattenConcatStep
<1>3. S = Seq(Seq(W))
  <2>1. S \in SUBSET Seq(Seq(W))
    OBVIOUS
  <2> HIDE DEF S
  <2> QED BY <1>1, <1>2, <2>1, ListInduction
<1> QED BY <1>3

--------------------------------------------------------------------------------
(* Array.filter. *)

(* What Filtered has made of the first entries of a list.                       *)
IsFiltering(f, list, S) ==
  f = [i \in 0..Len(list) |->
         IF i = 0 THEN <<>>
         ELSE IF list[i] \in S THEN Append(f[i - 1], list[i]) ELSE f[i - 1]]

LEMMA FilteringExists ==
  ASSUME NEW V, NEW list \in Seq(V), NEW S
  PROVE  \E f : IsFiltering(f, list, S) /\ Filtered(list, S) = f[Len(list)]
<1> DEFINE step(f, i) == IF list[i] \in S THEN Append(f[i - 1], list[i]) ELSE f[i - 1]
           upTo(f, n) == f = [i \in 0..n |-> IF i = 0 THEN <<>> ELSE step(f, i)]
           X == {n \in Nat : \E f : upTo(f, n)}
<1>1. 0 \in X
  <2>1. upTo([i \in 0..0 |-> <<>>], 0)
    OBVIOUS
  <2> QED BY <2>1
<1>2. ASSUME NEW n \in X PROVE n + 1 \in X
  <2>1. PICK f : upTo(f, n)
    OBVIOUS
  <2> DEFINE g == [i \in 0..(n + 1) |-> IF i = n + 1 THEN step(f, n + 1) ELSE f[i]]
  <2>2. n \in Nat
    OBVIOUS
  <2>3. \A i \in 0..n : g[i] = f[i]
    BY <2>2
  <2>4. \A i \in 0..n : f[i] = IF i = 0 THEN <<>> ELSE step(f, i)
    BY <2>1
  <2>5. \A i \in 1..(n + 1) : step(g, i) = step(f, i)
    BY <2>2, <2>3
  <2>6. \A i \in 0..(n + 1) : g[i] = IF i = 0 THEN <<>> ELSE step(g, i)
    <3> SUFFICES ASSUME NEW i \in 0..(n + 1)
                 PROVE  g[i] = IF i = 0 THEN <<>> ELSE step(g, i)
      OBVIOUS
    <3>1. CASE i = n + 1
      BY <2>2, <2>5, <3>1
    <3>2. CASE i # n + 1
      <4>1. i \in 0..n /\ (i # 0 => i \in 1..(n + 1))
        BY <2>2, <3>2
      <4> QED BY <2>3, <2>4, <2>5, <4>1
    <3> QED BY <3>1, <3>2
  <2> HIDE DEF step
  <2>7. upTo(g, n + 1)
    BY <2>6
  <2> QED BY <2>2, <2>7
<1>3. Len(list) \in X
  <2> HIDE DEF X
  <2>1. X = Nat
    <3>1. X \in SUBSET Nat
      BY DEF X
    <3> QED BY <1>1, <1>2, <3>1, Induction
  <2> QED BY <2>1
<1>4. PICK f : IsFiltering(f, list, S)
  BY <1>3 DEF IsFiltering
<1> DEFINE F == CHOOSE h : IsFiltering(h, list, S)
<1>5. IsFiltering(F, list, S)
  BY <1>4
<1>6. Filtered(list, S) = F[Len(list)]
  BY DEF Filtered, IsFiltering
<1> QED BY <1>5, <1>6

(* Filtered keeps the entries that are in S and no other, each as often as it   *)
(* was there.                                                                   *)
LEMMA FilteredFacts ==
  ASSUME NEW V, NEW list \in Seq(V), NEW S
  PROVE  /\ Filtered(list, S) \in Seq(V)
         /\ Range(Filtered(list, S)) = Range(list) \intersect S
         /\ IsInjective(list) => IsInjective(Filtered(list, S))
<1> DEFINE n == Len(list)
<1>1. n \in Nat /\ DOMAIN list = 1..n /\ \A i \in 1..n : list[i] \in V
  OBVIOUS
<1>2. PICK f : IsFiltering(f, list, S) /\ Filtered(list, S) = f[n]
  BY FilteringExists
<1>3. f[0] = <<>> /\ \A i \in 1..n :
        f[i] = IF list[i] \in S THEN Append(f[i - 1], list[i]) ELSE f[i - 1]
  <2>1. \A i \in 0..n : f[i] = IF i = 0 THEN <<>>
                               ELSE IF list[i] \in S THEN Append(f[i - 1], list[i])
                               ELSE f[i - 1]
    BY <1>1, <1>2 DEF IsFiltering
  <2>2. 0 \in 0..n /\ \A i \in 1..n : i \in 0..n /\ i # 0
    BY <1>1
  <2> QED BY <2>1, <2>2
<1> HIDE DEF n
<1> DEFINE first(m) == {list[i] : i \in 1..m}
           good(m) == /\ f[m] \in Seq(V)
                      /\ Range(f[m]) = first(m) \intersect S
                      /\ IsInjective(list) => IsInjective(f[m])
           X == {m \in Nat : m <= n => good(m)}
<1>4. 0 \in X
  <2>1. first(0) = {}
    OBVIOUS
  <2>2. f[0] \in Seq(V) /\ Range(f[0]) = {} /\ IsInjective(f[0])
    BY <1>3 DEF Range, IsInjective
  <2> QED BY <2>1, <2>2
<1>5. ASSUME NEW m \in X PROVE m + 1 \in X
  <2> SUFFICES ASSUME m + 1 <= n PROVE good(m + 1)
    OBVIOUS
  <2>1. m \in Nat /\ m + 1 \in 1..n /\ (m + 1) - 1 = m /\ good(m)
    BY <1>1
  <2>2. first(m + 1) = first(m) \union {list[m + 1]}
    <3>1. \A i \in 1..(m + 1) : i \in 1..m \/ i = m + 1
      BY <2>1
    <3>2. \A i \in 1..m : i \in 1..(m + 1)
      BY <2>1
    <3>3. m + 1 \in 1..(m + 1)
      BY <2>1
    <3> QED BY <3>1, <3>2, <3>3
  <2>3. IsInjective(list) => list[m + 1] \notin first(m)
    <3> SUFFICES ASSUME IsInjective(list), NEW i \in 1..m, list[m + 1] = list[i]
                 PROVE  FALSE
      OBVIOUS
    <3>1. i \in 1..n /\ i # m + 1
      BY <1>1, <2>1
    <3> QED BY <1>1, <2>1, <3>1 DEF IsInjective
  <2> HIDE DEF first
  <2>4. CASE list[m + 1] \in S
    <3>1. f[m + 1] = Append(f[m], list[m + 1])
      BY <1>3, <2>1, <2>4
    <3>2. f[m] \in Seq(V) /\ list[m + 1] \in V
      BY <1>1, <2>1
    <3>3. IsInjective(list) => list[m + 1] \notin Range(f[m])
      BY <2>1, <2>3
    <3>4. /\ f[m + 1] \in Seq(V)
          /\ Range(f[m + 1]) = Range(f[m]) \union {list[m + 1]}
          /\ IsInjective(f[m]) /\ list[m + 1] \notin Range(f[m])
               => IsInjective(f[m + 1])
      BY <3>1, <3>2, AppendFacts
    <3> QED BY <2>1, <2>2, <2>4, <3>3, <3>4
  <2>5. CASE list[m + 1] \notin S
    <3>1. f[m + 1] = f[m]
      BY <1>3, <2>1, <2>5
    <3> QED BY <2>1, <2>2, <2>5, <3>1
  <2> QED BY <2>4, <2>5
<1>6. good(n)
  <2> HIDE DEF X, good
  <2>1. X = Nat
    <3>1. X \in SUBSET Nat
      BY DEF X
    <3> QED BY <1>4, <1>5, <3>1, Induction
  <2>2. n <= n
    BY <1>1
  <2> QED BY <1>1, <2>1, <2>2 DEF X
<1>7. first(n) = Range(list)
  BY <1>1 DEF Range
<1> QED BY <1>2, <1>6, <1>7

(* Filtered reads a list from left to right.                                    *)
LEMMA FilteredEmpty ==
  ASSUME NEW S
  PROVE  Filtered(<<>>, S) = <<>>
<1>1. PICK f : IsFiltering(f, <<>>, S) /\ Filtered(<<>>, S) = f[Len(<<>>)]
  <2>1. <<>> \in Seq(Nat)
    OBVIOUS
  <2> QED BY <2>1, FilteringExists
<1> QED BY <1>1 DEF IsFiltering

LEMMA FilteredAppend ==
  ASSUME NEW V, NEW s \in Seq(V), NEW x \in V, NEW S
  PROVE  Filtered(Append(s, x), S) =
           IF x \in S THEN Append(Filtered(s, S), x) ELSE Filtered(s, S)
<1> DEFINE n == Len(s)
           t == Append(s, x)
           step(h, l, i) == IF l[i] \in S THEN Append(h[i - 1], l[i]) ELSE h[i - 1]
<1>1. n \in Nat /\ t \in Seq(V) /\ Len(t) = n + 1
      /\ t[n + 1] = x /\ \A i \in 1..n : t[i] = s[i]
  OBVIOUS
<1>2. PICK f : IsFiltering(f, s, S) /\ Filtered(s, S) = f[n]
  BY FilteringExists
<1>3. PICK g : IsFiltering(g, t, S) /\ Filtered(t, S) = g[n + 1]
  BY <1>1, FilteringExists
<1> HIDE DEF t
<1>4. f[0] = <<>> /\ \A i \in 1..n : f[i] = step(f, s, i)
  <2>1. f = [i \in 0..n |-> IF i = 0 THEN <<>> ELSE step(f, s, i)]
    BY <1>2 DEF IsFiltering
  <2>2. \A i \in 0..n : f[i] = IF i = 0 THEN <<>> ELSE step(f, s, i)
    BY <2>1
  <2>3. 0 \in 0..n /\ \A i \in 1..n : i \in 0..n /\ i # 0
    BY <1>1
  <2> QED BY <2>2, <2>3
<1>5. g[0] = <<>> /\ \A i \in 1..(n + 1) : g[i] = step(g, t, i)
  <2>1. g = [i \in 0..(n + 1) |-> IF i = 0 THEN <<>> ELSE step(g, t, i)]
    BY <1>1, <1>3 DEF IsFiltering
  <2>2. \A i \in 0..(n + 1) : g[i] = IF i = 0 THEN <<>> ELSE step(g, t, i)
    BY <2>1
  <2>3. 0 \in 0..(n + 1) /\ \A i \in 1..(n + 1) : i \in 0..(n + 1) /\ i # 0
    BY <1>1
  <2> QED BY <2>2, <2>3
<1> DEFINE X == {k \in Nat : k <= n => g[k] = f[k]}
<1>6. 0 \in X
  BY <1>4, <1>5
<1>7. ASSUME NEW k \in X PROVE k + 1 \in X
  <2> SUFFICES ASSUME k + 1 <= n PROVE g[k + 1] = f[k + 1]
    OBVIOUS
  <2>1. k \in Nat /\ k + 1 \in 1..n /\ k + 1 \in 1..(n + 1) /\ (k + 1) - 1 = k
    BY <1>1
  <2>2. g[k] = f[k] /\ t[k + 1] = s[k + 1]
    BY <1>1, <2>1
  <2>3. g[k + 1] = step(g, t, k + 1) /\ f[k + 1] = step(f, s, k + 1)
    BY <1>4, <1>5, <2>1
  <2> QED BY <2>1, <2>2, <2>3
<1>8. g[n] = f[n]
  <2>1. X = Nat
    <3>1. X \in SUBSET Nat
      OBVIOUS
    <3> HIDE DEF X
    <3> QED BY <1>6, <1>7, <3>1, Induction
  <2> QED BY <1>1, <2>1
<1>9. g[n + 1] = step(g, t, n + 1) /\ (n + 1) - 1 = n
  BY <1>1, <1>5
<1> QED BY <1>1, <1>2, <1>3, <1>8, <1>9 DEF t

LEMMA FilteredType ==
  ASSUME NEW V, NEW s \in Seq(V), NEW S
  PROVE  Filtered(s, S) \in Seq(V)
BY FilteredFacts

LEMMA FilteredOne ==
  ASSUME NEW V, NEW x \in V, NEW S
  PROVE  Filtered(<<x>>, S) = IF x \in S THEN <<x>> ELSE <<>>
<1>1. PICK none : none = <<>>
  OBVIOUS
<1>2. none \in Seq(V) /\ Append(none, x) = <<x>>
  BY <1>1
<1>3. Filtered(none, S) = <<>>
  BY <1>1, FilteredEmpty
<1>4. Filtered(Append(none, x), S) =
        IF x \in S THEN Append(Filtered(none, S), x) ELSE Filtered(none, S)
  BY <1>2, FilteredAppend
<1> QED BY <1>1, <1>2, <1>3, <1>4

(* Only the entries matter.                                                     *)
LEMMA FilteredSame ==
  ASSUME NEW V, NEW s \in Seq(V), NEW S, NEW T,
         \A x \in Range(s) : x \in S <=> x \in T
  PROVE  Filtered(s, S) = Filtered(s, T)
<1> DEFINE same(l) == (\A x \in Range(l) : x \in S <=> x \in T)
                        => Filtered(l, S) = Filtered(l, T)
           X == {l \in Seq(V) : same(l)}
<1>1. <<>> \in X
  BY FilteredEmpty
<1>2. ASSUME NEW l \in X, NEW x \in V PROVE Append(l, x) \in X
  <2>1. l \in Seq(V) /\ same(l) /\ Append(l, x) \in Seq(V)
    BY AppendProperties
  <2>2. Range(Append(l, x)) = Range(l) \union {x}
    BY <2>1, AppendFacts
  <2>3. \A R : Filtered(Append(l, x), R) =
                 IF x \in R THEN Append(Filtered(l, R), x) ELSE Filtered(l, R)
    BY <2>1, FilteredAppend
  <2> QED BY <2>1, <2>2, <2>3
<1>3. X = Seq(V)
  <2>1. X \in SUBSET Seq(V)
    OBVIOUS
  <2> HIDE DEF X
  <2> QED BY <1>1, <1>2, <2>1, ListInduction
<1>4. same(s)
  BY <1>3
<1> QED BY <1>4

(* Filtering one after the other.                                               *)
LEMMA FilteredTwice ==
  ASSUME NEW V, NEW s \in Seq(V), NEW S, NEW T
  PROVE  Filtered(Filtered(s, S), T) = Filtered(s, S \intersect T)
<1> DEFINE twice(l) == Filtered(Filtered(l, S), T) = Filtered(l, S \intersect T)
           X == {l \in Seq(V) : twice(l)}
<1>1. <<>> \in X
  BY FilteredEmpty
<1>2. ASSUME NEW l \in X, NEW x \in V PROVE Append(l, x) \in X
  <2>1. l \in Seq(V) /\ twice(l) /\ Append(l, x) \in Seq(V)
    BY AppendProperties
  <2>2. \A R : \A k \in Seq(V) :
          Filtered(Append(k, x), R) =
                 IF x \in R THEN Append(Filtered(k, R), x) ELSE Filtered(k, R)
    BY FilteredAppend
  <2>3. Filtered(l, S) \in Seq(V)
    BY <2>1, FilteredType
  <2>4. Filtered(Append(l, x), S) =
          IF x \in S THEN Append(Filtered(l, S), x) ELSE Filtered(l, S)
    BY <2>1, <2>2
  <2>5. Filtered(Append(Filtered(l, S), x), T) =
          IF x \in T THEN Append(Filtered(Filtered(l, S), T), x)
                     ELSE Filtered(Filtered(l, S), T)
    BY <2>2, <2>3
  <2>6. Filtered(Append(l, x), S \intersect T) =
          IF x \in S \intersect T THEN Append(Filtered(l, S \intersect T), x)
                                 ELSE Filtered(l, S \intersect T)
    BY <2>1, <2>2
  <2>7. twice(Append(l, x))
    <3>1. CASE x \in S
      <4>1. Filtered(Filtered(Append(l, x), S), T) =
              IF x \in T THEN Append(Filtered(Filtered(l, S), T), x)
                         ELSE Filtered(Filtered(l, S), T)
        BY <2>4, <2>5, <3>1
      <4>2. Filtered(Filtered(l, S), T) = Filtered(l, S \intersect T)
        BY <2>1
      <4>3. x \in S \intersect T <=> x \in T
        BY <3>1
      <4> QED BY <2>6, <4>1, <4>2, <4>3
    <3>2. CASE x \notin S
      BY <2>1, <2>4, <2>6, <3>2
    <3> QED BY <3>1, <3>2
  <2> QED BY <2>1, <2>7
<1>3. X = Seq(V)
  <2>1. X \in SUBSET Seq(V)
    OBVIOUS
  <2> HIDE DEF X
  <2> QED BY <1>1, <1>2, <2>1, ListInduction
<1>4. twice(s)
  BY <1>3
<1> QED BY <1>4

LEMMA CatAppend ==
  ASSUME NEW V, NEW s \in Seq(V), NEW t \in Seq(V), NEW x \in V
  PROVE  Cat(s, Append(t, x)) = Append(Cat(s, t), x)
<1>1. PICK e : e = <<x>>
  OBVIOUS
<1>2. e \in Seq(V) /\ Cat(s, t) \in Seq(V)
  BY <1>1, CatFacts
<1>3. Cat(t, e) = Append(t, x) /\ Cat(Cat(s, t), e) = Append(Cat(s, t), x)
  BY <1>1, <1>2, AppendIsConcat DEF Cat
<1>4. Cat(Cat(s, t), e) = Cat(s, Cat(t, e))
  BY <1>2, CatAssociative
<1> QED BY <1>3, <1>4

(* Two lists after each other are filtered after each other.                    *)
LEMMA FilteredCat ==
  ASSUME NEW V, NEW s \in Seq(V), NEW t \in Seq(V), NEW S
  PROVE  Filtered(Cat(s, t), S) = Cat(Filtered(s, S), Filtered(t, S))
<1> DEFINE apart(l) == Filtered(Cat(s, l), S) = Cat(Filtered(s, S), Filtered(l, S))
           X == {l \in Seq(V) : apart(l)}
<1>1. Filtered(s, S) \in Seq(V) /\ Filtered(t, S) \in Seq(V)
  BY FilteredType
<1>2. <<>> \in X
  <2>1. Cat(s, <<>>) = s /\ Cat(Filtered(s, S), <<>>) = Filtered(s, S)
    BY <1>1, CatEmpty
  <2> QED BY <2>1, FilteredEmpty
<1>3. ASSUME NEW l \in X, NEW x \in V PROVE Append(l, x) \in X
  <2>1. l \in Seq(V) /\ apart(l) /\ Append(l, x) \in Seq(V)
        /\ Cat(s, l) \in Seq(V) /\ Filtered(l, S) \in Seq(V)
    BY AppendProperties, CatFacts, FilteredType
  <2>2. Cat(s, Append(l, x)) = Append(Cat(s, l), x)
    BY <2>1, CatAppend
  <2>3. Cat(Filtered(s, S), Append(Filtered(l, S), x))
          = Append(Cat(Filtered(s, S), Filtered(l, S)), x)
    BY <1>1, <2>1, CatAppend
  <2>4. /\ Filtered(Append(l, x), S) =
             IF x \in S THEN Append(Filtered(l, S), x) ELSE Filtered(l, S)
        /\ Filtered(Append(Cat(s, l), x), S) =
             IF x \in S THEN Append(Filtered(Cat(s, l), S), x) ELSE Filtered(Cat(s, l), S)
    <3>1. \A k \in Seq(V) : Filtered(Append(k, x), S) =
             IF x \in S THEN Append(Filtered(k, S), x) ELSE Filtered(k, S)
      BY FilteredAppend
    <3> QED BY <2>1, <3>1
  <2>5. apart(Append(l, x))
    BY <2>1, <2>2, <2>3, <2>4
  <2> QED BY <2>1, <2>5
<1>4. X = Seq(V)
  <2>1. X \in SUBSET Seq(V)
    OBVIOUS
  <2> HIDE DEF X
  <2> QED BY <1>2, <1>3, <2>1, ListInduction
<1>5. apart(t)
  BY <1>4
<1> QED BY <1>5

LEMMA FilteredAll ==
  ASSUME NEW V, NEW s \in Seq(V), NEW S, Range(s) \subseteq S
  PROVE  Filtered(s, S) = s
<1> DEFINE kept(l) == Range(l) \subseteq S => Filtered(l, S) = l
           X == {l \in Seq(V) : kept(l)}
<1>1. <<>> \in X
  BY FilteredEmpty
<1>2. ASSUME NEW l \in X, NEW x \in V PROVE Append(l, x) \in X
  <2>1. l \in Seq(V) /\ kept(l) /\ Append(l, x) \in Seq(V)
    BY AppendProperties
  <2>2. Range(Append(l, x)) = Range(l) \union {x}
    BY <2>1, AppendFacts
  <2>3. Filtered(Append(l, x), S) =
          IF x \in S THEN Append(Filtered(l, S), x) ELSE Filtered(l, S)
    BY <2>1, FilteredAppend
  <2> QED BY <2>1, <2>2, <2>3
<1>3. X = Seq(V)
  <2>1. X \in SUBSET Seq(V)
    OBVIOUS
  <2> HIDE DEF X
  <2> QED BY <1>1, <1>2, <2>1, ListInduction
<1>4. kept(s)
  BY <1>3
<1> QED BY <1>4

LEMMA NoEntry ==
  ASSUME NEW V, NEW s \in Seq(V), Range(s) = {}
  PROVE  s = <<>>
<1>1. \A i \in 1..Len(s) : s[i] \in Range(s)
  BY DEF Range
<1>2. Len(s) \in Nat /\ (Len(s) # 0 => 1 \in 1..Len(s))
  BY LenProperties
<1> QED BY <1>1, <1>2, EmptySeq

LEMMA FilteredNone ==
  ASSUME NEW V, NEW s \in Seq(V), NEW S, Range(s) \intersect S = {}
  PROVE  Filtered(s, S) = <<>>
<1>1. PICK l : l = Filtered(s, S)
  OBVIOUS
<1>2. l \in Seq(V) /\ Range(l) = {}
  BY <1>1, FilteredFacts
<1> QED BY <1>1, <1>2, NoEntry

LEMMA FlattenCat ==
  ASSUME NEW W, NEW s \in Seq(Seq(W)), NEW t \in Seq(Seq(W))
  PROVE  FlattenSeq(Cat(s, t)) = Cat(FlattenSeq(s), FlattenSeq(t))
BY FlattenConcat DEF Cat

(* The entries of a flattened list.                                             *)
LEMMA FlattenRange ==
  ASSUME NEW W, NEW seqs \in Seq(Seq(W))
  PROVE  Range(FlattenSeq(seqs)) = UNION {Range(s) : s \in Range(seqs)}
<1> DEFINE all(l) == Range(FlattenSeq(l)) = UNION {Range(s) : s \in Range(l)}
<1>1. PICK T : T = Seq(W)
  OBVIOUS
<1> DEFINE X == {l \in Seq(T) : all(l)}
<1>2. <<>> \in X
  <2>1. Range(<<>>) = {}
    BY DEF Range
  <2> QED BY <2>1, FlattenEmpty
<1>3. ASSUME NEW l \in X, NEW x \in T PROVE Append(l, x) \in X
  <2>1. l \in Seq(T) /\ all(l) /\ Append(l, x) \in Seq(T)
    BY AppendProperties
  <2>2. Range(Append(l, x)) = Range(l) \union {x}
    BY <2>1, AppendFacts
  <2>3. PICK p \in Seq(W) : p = FlattenSeq(l)
    BY <1>1, <2>1, FlattenType
  <2>4. FlattenSeq(Append(l, x)) = Cat(p, x)
    BY <1>1, <2>1, <2>3, FlattenAppend DEF Cat
  <2>5. Range(Cat(p, x)) = Range(p) \union Range(x)
    BY <1>1, <2>3, CatFacts
  <2> HIDE DEF X
  <2>6. all(Append(l, x))
    BY <2>1, <2>2, <2>3, <2>4, <2>5
  <2> QED BY <2>1, <2>6 DEF X
<1>4. X = Seq(T)
  <2>1. X \in SUBSET Seq(T)
    OBVIOUS
  <2> HIDE DEF X
  <2> QED BY <1>2, <1>3, <2>1, ListInduction
<1>5. all(seqs)
  BY <1>1, <1>4
<1> QED BY <1>5

(* Lists of no entry.                                                           *)
LEMMA FlattenNone ==
  ASSUME NEW W, NEW seqs \in Seq(Seq(W)), \A i \in DOMAIN seqs : seqs[i] = <<>>
  PROVE  FlattenSeq(seqs) = <<>>
<1>1. \A s \in Range(seqs) : s = <<>>
  BY DEF Range
<1>2. Range(<<>>) = {}
  BY DEF Range
<1>3. PICK l \in Seq(W) : l = FlattenSeq(seqs)
  BY FlattenType
<1>4. Range(l) = {}
  BY <1>1, <1>2, <1>3, FlattenRange
<1> QED BY <1>3, <1>4, NoEntry

(* One list among lists of no entry.                                            *)
LEMMA FlattenOnly ==
  ASSUME NEW W, NEW seqs \in Seq(Seq(W)), NEW k \in DOMAIN seqs,
         \A i \in DOMAIN seqs \ {k} : seqs[i] = <<>>
  PROVE  FlattenSeq(seqs) = seqs[k]
<1>1. PICK T : T = Seq(W)
  OBVIOUS
<1> DEFINE only(l) == \A j \in DOMAIN l :
                        (\A i \in DOMAIN l \ {j} : l[i] = <<>>) => FlattenSeq(l) = l[j]
           X == {l \in Seq(T) : only(l)}
<1>2. <<>> \in X
  OBVIOUS
<1>3. ASSUME NEW l \in X, NEW x \in T PROVE Append(l, x) \in X
  <2> DEFINE n == Len(l)
             a == Append(l, x)
  <2>1. l \in Seq(T) /\ only(l) /\ a \in Seq(T) /\ n \in Nat /\ DOMAIN l = 1..n
        /\ DOMAIN a = 1..(n + 1) /\ a[n + 1] = x /\ \A i \in 1..n : a[i] = l[i]
    OBVIOUS
  <2>2. PICK p \in Seq(W) : p = FlattenSeq(l)
    BY <1>1, <2>1, FlattenType
  <2>3. FlattenSeq(a) = Cat(p, x)
    BY <1>1, <2>1, <2>2, FlattenAppend DEF Cat
  <2> HIDE DEF a, X
  <2>4. ASSUME NEW j \in DOMAIN a, \A i \in DOMAIN a \ {j} : a[i] = <<>>
        PROVE  FlattenSeq(a) = a[j]
    <3>1. CASE j = n + 1
      <4>1. \A i \in DOMAIN l : l[i] = <<>>
        <5>1. \A i \in 1..n : i \in (1..(n + 1)) \ {j}
          BY <2>1, <3>1
        <5> QED BY <2>1, <2>4, <5>1
      <4>2. p = <<>>
        BY <1>1, <2>1, <2>2, <4>1, FlattenNone
      <4>3. Cat(<<>>, x) = x
        BY <1>1, CatEmpty
      <4> QED BY <2>1, <2>3, <3>1, <4>2, <4>3
    <3>2. CASE j # n + 1
      <4>1. j \in 1..n /\ n + 1 \in (1..(n + 1)) \ {j}
        BY <2>1, <3>2
      <4>2. x = <<>> /\ \A i \in DOMAIN l \ {j} : l[i] = <<>>
        <5>1. \A i \in 1..n : i \in 1..(n + 1)
          BY <2>1
        <5> QED BY <2>1, <2>4, <4>1, <5>1
      <4>3. p = l[j]
        BY <2>1, <2>2, <4>1, <4>2
      <4>4. Cat(p, <<>>) = p
        BY CatEmpty
      <4> QED BY <2>1, <2>3, <4>1, <4>2, <4>3, <4>4
    <3> QED BY <3>1, <3>2
  <2>5. only(a)
    BY <2>4
  <2> QED BY <2>1, <2>5 DEF X, a
<1>4. X = Seq(T)
  <2>1. X \in SUBSET Seq(T)
    OBVIOUS
  <2> HIDE DEF X
  <2> QED BY <1>2, <1>3, <2>1, ListInduction
<1>5. only(seqs)
  BY <1>1, <1>4
<1> QED BY <1>5

--------------------------------------------------------------------------------
(* Array.map, with a function.                                                  *)
Mapped(s, f) == [i \in DOMAIN s |-> f[s[i]]]

LEMMA MappedType ==
  ASSUME NEW V, NEW W, NEW s \in Seq(V), NEW f, \A v \in V : f[v] \in W
  PROVE  /\ Mapped(s, f) \in Seq(W) /\ DOMAIN Mapped(s, f) = DOMAIN s
         /\ \A i \in DOMAIN s : Mapped(s, f)[i] = f[s[i]]
<1>1. PICK n \in Nat : s \in [1..n -> V]
  BY SeqDef
<1>2. Mapped(s, f) \in [1..n -> W]
  BY <1>1 DEF Mapped
<1> QED BY <1>1, <1>2, SeqDef DEF Mapped

LEMMA MappedEmpty ==
  ASSUME NEW f
  PROVE  Mapped(<<>>, f) = <<>>
BY DEF Mapped

LEMMA MappedAppend ==
  ASSUME NEW V, NEW s \in Seq(V), NEW x \in V, NEW f
  PROVE  Mapped(Append(s, x), f) = Append(Mapped(s, f), f[x])
<1>0. PICK W : \A v \in V : f[v] \in W
  <2>1. \A v \in V : f[v] \in {f[w] : w \in V}
    OBVIOUS
  <2> QED BY <2>1
<1> DEFINE n == Len(s)
           a == Append(s, x)
           m == Mapped(s, f)
           l == Mapped(a, f)
           r == Append(m, f[x])
<1>1. n \in Nat /\ a \in Seq(V) /\ DOMAIN s = 1..n /\ DOMAIN a = 1..(n + 1)
      /\ a[n + 1] = x /\ \A i \in 1..n : a[i] = s[i]
  OBVIOUS
<1> HIDE DEF a
<1>2. m \in Seq(W) /\ DOMAIN m = 1..n /\ \A i \in 1..n : m[i] = f[s[i]]
  BY <1>0, <1>1, MappedType
<1>3. l \in Seq(W) /\ DOMAIN l = 1..(n + 1) /\ \A i \in 1..(n + 1) : l[i] = f[a[i]]
  BY <1>0, <1>1, MappedType
<1> HIDE DEF m, l
<1>4. Len(m) = n /\ Len(l) = n + 1
  BY <1>1, <1>2, <1>3, LenProperties
<1>5. r \in Seq(W) /\ Len(r) = n + 1 /\ r[n + 1] = f[x] /\ \A i \in 1..n : r[i] = m[i]
  <2>1. PICK y \in W : y = f[x]
    BY <1>0
  <2>2. /\ Append(m, y) \in Seq(W) /\ Len(Append(m, y)) = Len(m) + 1
        /\ Append(m, y)[Len(m) + 1] = y /\ \A i \in 1..Len(m) : Append(m, y)[i] = m[i]
    BY <1>2, AppendProperties
  <2> QED BY <1>4, <2>1, <2>2
<1> HIDE DEF r
<1>6. \A i \in 1..(n + 1) : l[i] = r[i]
  <2> SUFFICES ASSUME NEW i \in 1..(n + 1) PROVE l[i] = r[i]
    OBVIOUS
  <2>1. CASE i = n + 1
    BY <1>1, <1>3, <1>5, <2>1
  <2>2. CASE i # n + 1
    <3>1. i \in 1..n
      BY <1>1, <2>2
    <3> QED BY <1>1, <1>2, <1>3, <1>5, <3>1
  <2> QED BY <2>1, <2>2
<1>7. l = r
  BY <1>3, <1>4, <1>5, <1>6, SeqEqual
<1> QED BY <1>7 DEF l, r, m, a

(* Lists of one entry each.                                                     *)
LEMMA FlattenSingles ==
  ASSUME NEW W, NEW s \in Seq(W)
  PROVE  FlattenSeq([i \in DOMAIN s |-> <<s[i]>>]) = s
<1> DEFINE one == [x \in W |-> <<x>>]
           X == {l \in Seq(W) : FlattenSeq(Mapped(l, one)) = l}
<1>0. PICK T : T = Seq(W)
  OBVIOUS
<1>1. one \in [W -> T] /\ \A x \in W : one[x] = <<x>>
  BY <1>0
<1> HIDE DEF one
<1>6. \A l \in Seq(W), x \in W : Mapped(Append(l, x), one) = Append(Mapped(l, one), one[x])
  BY MappedAppend
<1>2. <<>> \in X
  BY MappedEmpty, FlattenEmpty
<1>3. ASSUME NEW l \in X, NEW x \in W PROVE Append(l, x) \in X
  <2>1. l \in Seq(W) /\ FlattenSeq(Mapped(l, one)) = l
    OBVIOUS
  <2> HIDE DEF X
  <2>2. PICK e \in Seq(W) : e = <<x>>
    <3>1. <<x>> \in Seq(W)
      OBVIOUS
    <3> QED BY <3>1
  <2>3. one[x] = e
    BY <1>1, <2>2
  <2>4. Mapped(l, one) \in Seq(Seq(W))
    BY <1>0, <1>1, <2>1, MappedType
  <2>5. Mapped(Append(l, x), one) = Append(Mapped(l, one), e)
    BY <1>6, <2>1, <2>3
  <2>6. FlattenSeq(Append(Mapped(l, one), e)) = Cat(l, e)
    <3>1. PICK m \in Seq(Seq(W)) : m = Mapped(l, one)
      BY <2>4
    <3>2. FlattenSeq(Append(m, e)) = FlattenSeq(m) \o e
      BY FlattenAppend
    <3> QED BY <2>1, <3>1, <3>2 DEF Cat
  <2>7. Cat(l, e) = Append(l, x) /\ Append(l, x) \in Seq(W)
    BY <2>1, <2>2, AppendIsConcat, AppendProperties DEF Cat
  <2> QED BY <2>5, <2>6, <2>7 DEF X
<1>4. X = Seq(W)
  <2>1. X \in SUBSET Seq(W)
    OBVIOUS
  <2> HIDE DEF X
  <2> QED BY <1>2, <1>3, <2>1, ListInduction
<1>5. FlattenSeq(Mapped(s, one)) = s
  BY <1>4
<1>7. \A i \in DOMAIN s : one[s[i]] = <<s[i]>>
  BY <1>1, ElementOfSeq
<1> QED BY <1>5, <1>7 DEF Mapped

(* A flattened list is filtered list by list.                                   *)
LEMMA FilteredFlatten ==
  ASSUME NEW W, NEW seqs \in Seq(Seq(W)), NEW S
  PROVE  Filtered(FlattenSeq(seqs), S)
           = FlattenSeq(Mapped(seqs, [s \in Seq(W) |-> Filtered(s, S)]))
<1> DEFINE part == [s \in Seq(W) |-> Filtered(s, S)]
           each(l) == Filtered(FlattenSeq(l), S) = FlattenSeq(Mapped(l, part))
<1>1. PICK T : T = Seq(W)
  OBVIOUS
<1>2. part \in [T -> T] /\ \A s \in T : part[s] = Filtered(s, S)
  BY <1>1, FilteredType
<1> HIDE DEF part
<1>7. \A l \in Seq(T), x \in T : Mapped(Append(l, x), part) = Append(Mapped(l, part), part[x])
  BY MappedAppend
<1> DEFINE X == {l \in Seq(T) : each(l)}
<1>3. <<>> \in X
  BY MappedEmpty, FlattenEmpty, FilteredEmpty
<1>4. ASSUME NEW l \in X, NEW x \in T PROVE Append(l, x) \in X
  <2>1. l \in Seq(T) /\ each(l) /\ Append(l, x) \in Seq(T)
    BY AppendProperties
  <2> HIDE DEF X
  <2>2. PICK p \in Seq(W) : p = FlattenSeq(l)
    BY <1>1, <2>1, FlattenType
  <2>3. FlattenSeq(Append(l, x)) = Cat(p, x)
    BY <1>1, <2>1, <2>2, FlattenAppend DEF Cat
  <2>4. Filtered(Cat(p, x), S) = Cat(Filtered(p, S), Filtered(x, S))
    BY <1>1, FilteredCat
  <2>5. Mapped(Append(l, x), part) = Append(Mapped(l, part), Filtered(x, S))
    <3>1. part[x] = Filtered(x, S)
      BY <1>2
    <3>2. Mapped(Append(l, x), part) = Append(Mapped(l, part), part[x])
      BY <1>7, <2>1
    <3> QED BY <3>1, <3>2
  <2>6. Mapped(l, part) \in Seq(T) /\ Filtered(x, S) \in T
    BY <1>1, <1>2, <2>1, MappedType, FilteredType
  <2>7. FlattenSeq(Append(Mapped(l, part), Filtered(x, S)))
          = Cat(FlattenSeq(Mapped(l, part)), Filtered(x, S))
    BY <1>1, <2>6, FlattenAppend DEF Cat
  <2>8. each(Append(l, x))
    BY <2>1, <2>2, <2>3, <2>4, <2>5, <2>7
  <2> QED BY <2>1, <2>8 DEF X
<1>5. X = Seq(T)
  <2>1. X \in SUBSET Seq(T)
    OBVIOUS
  <2> HIDE DEF X
  <2> QED BY <1>3, <1>4, <2>1, ListInduction
<1>6. each(seqs)
  BY <1>1, <1>5
<1> QED BY <1>6 DEF part

================================================================================
