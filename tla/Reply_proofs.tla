----------------------------- MODULE Reply_proofs -----------------------------
(***************************************************************************)
(* Reply's properties hold for every configuration, request, script and    *)
(* tool result.                                                            *)
(*                                                                         *)
(* The module goes from the bottom up: induction over sequences; what      *)
(* FlattenSeq computes; what the reader makes of a text, of an element, of *)
(* a verb and of a document; what the caller's parameters do to it; the    *)
(* handler's invariant; the signature; and what a document gives back.     *)
(***************************************************************************)
EXTENDS Reply, TLAPS, WellFoundedInduction, SequenceTheorems, FiniteSetTheorems

-----------------------------------------------------------------------------
(* Induction.  It is over sets rather than over predicates, so that a lemma *)
(* can be used by naming the set.                                           *)

\* Every set of naturals has a least element.
LEMMA LeastNat ==
  ASSUME NEW T, T \subseteq Nat, T # {}
  PROVE  \E m \in T : \A n \in T : m <= n
<1> DEFINE R == OpToRel(<, Nat)
<1>1. PICK m \in T : \A n \in T : <<n, m>> \notin R
  <2>1. IsWellFoundedOn(R, Nat)
    BY NatLessThanWellFounded
  <2> HIDE DEF R
  <2> QED BY <2>1, WFMin
<1>2. ASSUME NEW n \in T, n < m PROVE FALSE
  <2>1. <<n, m>> \in Nat \X Nat /\ <<n, m>>[1] < <<n, m>>[2]
    BY <1>2
  <2>2. <<n, m>> \in R
    BY <2>1 DEF OpToRel
  <2> QED BY <2>2, <1>1
<1> QED BY <1>2

\* Induction over the naturals.
LEMMA SetInduction ==
  ASSUME NEW T, 0 \in T, \A n \in Nat : n \in T => n + 1 \in T
  PROVE  \A n \in Nat : n \in T
<1> SUFFICES ASSUME Nat \ T # {} PROVE FALSE
  OBVIOUS
<1>1. PICK m \in Nat \ T : \A n \in Nat \ T : m <= n
  BY LeastNat
<1>2. m - 1 \in Nat /\ m - 1 \in T
  BY <1>1
<1> QED BY <1>1, <1>2

\* Induction over sequences.
LEMMA SeqInduction ==
  ASSUME NEW S, NEW T, <<>> \in T, \A x \in Seq(S), e \in S : x \in T => Append(x, e) \in T
  PROVE  \A x \in Seq(S) : x \in T
<1> DEFINE N == {n \in Nat : \A x \in Seq(S) : Len(x) = n => x \in T}
<1>1. 0 \in N
  <2>1. \A x \in Seq(S) : Len(x) = 0 => x = <<>>
    OBVIOUS
  <2> QED BY <2>1
<1>2. ASSUME NEW n \in Nat, n \in N PROVE n + 1 \in N
  <2>1. ASSUME NEW x \in Seq(S), Len(x) = n + 1 PROVE x \in T
    <3>1. PICK y \in Seq(S), e \in S : x = Append(y, e)
      <4>1. x # <<>>
        BY <2>1
      <4> QED BY <4>1, SequenceEmptyOrAppend
    <3>2. Len(y) = n
      BY <3>1, <2>1
    <3> QED BY <3>1, <3>2, <1>2
  <2> QED BY <2>1
<1>3. \A n \in Nat : n \in N
  <2> HIDE DEF N
  <2> QED BY <1>1, <1>2, SetInduction
<1> QED BY <1>3

-----------------------------------------------------------------------------
(* What FlattenSeq computes. *)

\* The recursive function in its definition exists.
LEMMA FlattenRec ==
  ASSUME NEW s, NEW n \in Nat
  PROVE  \E f : f = [i \in 1..n |-> IF i = 1 THEN s[i] ELSE f[i - 1] \o s[i]]
<1> DEFINE P(k) == \E f : f = [i \in 1..k |-> IF i = 1 THEN s[i] ELSE f[i - 1] \o s[i]]
           T == {k \in Nat : P(k)}
<1>1. P(0)
  <2> DEFINE f == [i \in 1..0 |-> s[i]]
  <2>1. f = [i \in 1..0 |-> IF i = 1 THEN s[i] ELSE f[i - 1] \o s[i]]
    OBVIOUS
  <2> QED BY <2>1
<1>2. ASSUME NEW k \in Nat, P(k) PROVE P(k + 1)
  <2>1. PICK f : f = [i \in 1..k |-> IF i = 1 THEN s[i] ELSE f[i - 1] \o s[i]]
    BY <1>2
  <2> DEFINE g == [i \in 1..(k + 1) |->
                     IF i <= k THEN f[i] ELSE IF i = 1 THEN s[i] ELSE f[i - 1] \o s[i]]
  <2>2. ASSUME NEW i \in 1..(k + 1) PROVE g[i] = IF i = 1 THEN s[i] ELSE g[i - 1] \o s[i]
    <3>1. CASE i <= k
      <4>1. f[i] = IF i = 1 THEN s[i] ELSE f[i - 1] \o s[i]
        <5> HIDE DEF g
        <5>1. i \in 1..k
          BY <3>1
        <5> QED BY <2>1, <5>1
      <4> QED BY <3>1, <4>1
    <3>2. CASE i = k + 1
      BY <3>2
    <3> QED BY <3>1, <3>2
  <2>3. g = [i \in 1..(k + 1) |-> IF i = 1 THEN s[i] ELSE g[i - 1] \o s[i]]
    <3>1. g = [i \in 1..(k + 1) |-> g[i]]
      OBVIOUS
    <3> HIDE DEF g
    <3> QED BY <2>2, <3>1
  <2> HIDE DEF g
  <2> QED BY <2>3
<1> HIDE DEF P
<1>3. \A k \in Nat : k \in T
  <2>1. 0 \in T /\ \A k \in Nat : k \in T => k + 1 \in T
    BY <1>1, <1>2
  <2> HIDE DEF T
  <2> QED BY <2>1, SetInduction
<1> QED BY <1>3 DEF P

\* What that function does.
Accumulates(f, s, n) == \A i \in 1..n : f[i] = IF i = 1 THEN s[i] ELSE f[i - 1] \o s[i]

\* FlattenSeq is the last value of a function that concatenates step by step.
LEMMA FlattenUnfold ==
  ASSUME NEW s, Len(s) \in Nat, Len(s) # 0
  PROVE  \E f : Accumulates(f, s, Len(s)) /\ FlattenSeq(s) = f[Len(s)]
<1> DEFINE f == CHOOSE g : g = [i \in 1..Len(s) |-> IF i = 1 THEN s[i] ELSE g[i - 1] \o s[i]]
<1>1. f = [i \in 1..Len(s) |-> IF i = 1 THEN s[i] ELSE f[i - 1] \o s[i]]
  <2>1. PICK g : g = [i \in 1..Len(s) |-> IF i = 1 THEN s[i] ELSE g[i - 1] \o s[i]]
    BY FlattenRec
  <2> QED BY <2>1
<1>2. FlattenSeq(s) = f[Len(s)]
  BY DEF FlattenSeq
<1> HIDE DEF f
<1>3. Accumulates(f, s, Len(s))
  BY <1>1 DEF Accumulates
<1> QED BY <1>2, <1>3

\* The recursive function has one value only, so that shorter sequences share it.
LEMMA FlattenUnique ==
  ASSUME NEW s, NEW t, NEW f, NEW g, NEW m \in Nat,
         \A i \in 1..m : s[i] = t[i],
         Accumulates(f, s, m), Accumulates(g, t, m)
  PROVE  \A i \in 1..m : f[i] = g[i]
<1> DEFINE T == {k \in Nat : k \in 1..m => f[k] = g[k]}
<1>1. 0 \in T
  OBVIOUS
<1>2. ASSUME NEW k \in Nat, k \in T PROVE k + 1 \in T
  <2>1. ASSUME k + 1 \in 1..m PROVE f[k + 1] = g[k + 1]
    <3>1. k + 1 - 1 = k
      OBVIOUS
    <3>2. f[k + 1] = IF k + 1 = 1 THEN s[k + 1] ELSE f[k] \o s[k + 1]
      <4>1. f[k + 1] = IF k + 1 = 1 THEN s[k + 1] ELSE f[(k + 1) - 1] \o s[k + 1]
        BY <2>1, Zenon DEF Accumulates
      <4> QED BY <4>1, <3>1
    <3>3. g[k + 1] = IF k + 1 = 1 THEN t[k + 1] ELSE g[k] \o t[k + 1]
      <4>1. g[k + 1] = IF k + 1 = 1 THEN t[k + 1] ELSE g[(k + 1) - 1] \o t[k + 1]
        BY <2>1, Zenon DEF Accumulates
      <4> QED BY <4>1, <3>1
    <3>4. s[k + 1] = t[k + 1]
      BY <2>1
    <3>5. k + 1 # 1 => f[k] = g[k]
      BY <1>2, <2>1
    <3> QED BY <3>2, <3>3, <3>4, <3>5
  <2> QED BY <2>1
<1>3. \A k \in Nat : k \in T
  <2> HIDE DEF T
  <2> QED BY <1>1, <1>2, SetInduction
<1> QED BY <1>3

\* FlattenSeq by recursion on its argument.
LEMMA FlattenEmpty == FlattenSeq(<<>>) = <<>>
  BY DEF FlattenSeq

\* Flattening one sequence more appends it.
LEMMA FlattenAppend ==
  ASSUME NEW S, NEW x \in Seq(S), NEW e \in S
  PROVE  FlattenSeq(Append(x, e)) = IF x = <<>> THEN e ELSE FlattenSeq(x) \o e
<1> DEFINE y == Append(x, e)
<1>1. /\ Len(y) = Len(x) + 1 /\ y[Len(x) + 1] = e /\ Len(x) \in Nat
      /\ \A i \in 1..Len(x) : x[i] = y[i]
  BY AppendProperties
<1> HIDE DEF y
<1>2. PICK g : Accumulates(g, y, Len(y)) /\ FlattenSeq(y) = g[Len(y)]
  BY <1>1, FlattenUnfold
<1>3. CASE x = <<>>
  BY <1>1, <1>2, <1>3 DEF y, Accumulates
<1>4. CASE x # <<>>
  <2>1. Len(x) # 0
    BY <1>4
  <2>2. PICK f : Accumulates(f, x, Len(x)) /\ FlattenSeq(x) = f[Len(x)]
    BY <1>1, <2>1, FlattenUnfold
  <2>3. f[Len(x)] = g[Len(x)]
    <3>1. Accumulates(g, y, Len(x))
      BY <1>1, <1>2 DEF Accumulates
    <3>2. \A i \in 1..Len(x) : x[i] = y[i]
      BY <1>1
    <3>3. \A i \in 1..Len(x) : f[i] = g[i]
      BY <1>1, <2>2, <3>1, <3>2, FlattenUnique
    <3> QED BY <3>3, <1>1, <2>1
  <2>4. g[Len(y)] = g[Len(x)] \o y[Len(y)]
    <3>1. Len(y) \in 1..Len(y) /\ Len(y) # 1 /\ Len(y) - 1 = Len(x)
      BY <1>1, <2>1
    <3> QED BY <1>2, <3>1, Zenon DEF Accumulates
  <2> QED BY <1>1, <1>2, <1>4, <2>2, <2>3, <2>4 DEF y
<1> QED BY <1>3, <1>4

\* Sequences of elements of S flatten to a sequence of elements of S.
LEMMA FlattenType ==
  ASSUME NEW S
  PROVE  \A x \in Seq(Seq(S)) : FlattenSeq(x) \in Seq(S)
<1> DEFINE T == {x \in Seq(Seq(S)) : FlattenSeq(x) \in Seq(S)}
<1>1. <<>> \in T
  BY FlattenEmpty, EmptySeq
<1>2. ASSUME NEW x \in Seq(Seq(S)), NEW e \in Seq(S), x \in T PROVE Append(x, e) \in T
  <2>1. FlattenSeq(Append(x, e)) = IF x = <<>> THEN e ELSE FlattenSeq(x) \o e
    BY FlattenAppend
  <2>2. FlattenSeq(x) \o e \in Seq(S)
    BY <1>2, ConcatProperties
  <2> QED BY <2>1, <2>2, AppendProperties
<1>3. \A x \in Seq(Seq(S)) : x \in T
  <2> HIDE DEF T
  <2> QED BY <1>1, <1>2, SeqInduction
<1> QED BY <1>3

-----------------------------------------------------------------------------
(* Replacing every element of a sequence by a sequence.  esc, Replace, the  *)
(* rendering of a list of verbs and what Twilio executes are of this form.  *)

\* A function on the first n numbers is a sequence of length n.
LEMMA FunctionIsSeq ==
  ASSUME NEW S, NEW n \in Nat, NEW f \in [1..n -> S]
  PROVE  f \in Seq(S) /\ Len(f) = n
<1>1. f \in UNION {[1..m -> S] : m \in Nat}
  OBVIOUS
<1>2. f \in Seq(S)
  BY <1>1, SeqDef, Zenon
<1> QED BY <1>2, LenProperties

\* Every element of x replaced by what g has for it.
Spread(g, x) == FlattenSeq([i \in DOMAIN x |-> g[x[i]]])

\* Nothing is spread to nothing.
LEMMA SpreadEmpty == \A g : Spread(g, <<>>) = <<>>
<1> TAKE g
<1>1. [i \in DOMAIN <<>> |-> g[<<>>[i]]] = <<>>
  OBVIOUS
<1> QED BY <1>1, FlattenEmpty DEF Spread

\* Spreading one element more appends what it is replaced by.
LEMMA SpreadAppend ==
  ASSUME NEW S, NEW T, NEW g \in [S -> Seq(T)]
  PROVE  /\ \A x \in Seq(S) : Spread(g, x) \in Seq(T)
         /\ \A x \in Seq(S), e \in S : Spread(g, Append(x, e)) = Spread(g, x) \o g[e]
<1> DEFINE M(x) == [i \in DOMAIN x |-> g[x[i]]]
<1>1. ASSUME NEW x \in Seq(S) PROVE M(x) \in Seq(Seq(T))
  <2>1. Len(x) \in Nat /\ DOMAIN x = 1..Len(x)
    OBVIOUS
  <2>2. M(x) \in [1..Len(x) -> Seq(T)]
    <3>1. \A i \in 1..Len(x) : g[x[i]] \in Seq(T)
      OBVIOUS
    <3> QED BY <2>1, <3>1
  <2> HIDE DEF M
  <2> QED BY <2>1, <2>2, FunctionIsSeq
<1>2. ASSUME NEW x \in Seq(S) PROVE Spread(g, x) \in Seq(T)
  BY <1>1, FlattenType DEF Spread
<1>3. ASSUME NEW x \in Seq(S), NEW e \in S PROVE Spread(g, Append(x, e)) = Spread(g, x) \o g[e]
  <2>1. M(Append(x, e)) = Append(M(x), g[e])
    <3>1. Append(x, e) \in Seq(S) /\ Len(Append(x, e)) = Len(x) + 1
      BY AppendProperties
    <3>2. M(Append(x, e)) \in Seq(Seq(T)) /\ Append(M(x), g[e]) \in Seq(Seq(T))
      BY <1>1, <3>1, AppendProperties
    <3>3. Len(M(Append(x, e))) = Len(x) + 1 /\ Len(Append(M(x), g[e])) = Len(x) + 1
      BY <3>1
    <3>4. ASSUME NEW i \in 1..(Len(x) + 1)
          PROVE  M(Append(x, e))[i] = Append(M(x), g[e])[i]
      BY <3>1
    <3> HIDE DEF M
    <3> QED BY <3>2, <3>3, <3>4, SeqEqual
  <2>2. M(x) \in Seq(Seq(T)) /\ g[e] \in Seq(T)
    BY <1>1
  <2>3. FlattenSeq(Append(M(x), g[e])) = IF M(x) = <<>> THEN g[e] ELSE FlattenSeq(M(x)) \o g[e]
    <3> HIDE DEF M
    <3> QED BY <2>2, FlattenAppend
  <2>4. M(x) = <<>> => FlattenSeq(M(x)) \o g[e] = g[e]
    <3> HIDE DEF M
    <3> QED BY <2>2, FlattenEmpty, ConcatEmptySeq
  <2> HIDE DEF M
  <2>5. FlattenSeq(M(Append(x, e))) = FlattenSeq(M(x)) \o g[e]
    BY <2>1, <2>3, <2>4
  <2> QED BY <2>5 DEF Spread, M
<1> QED BY <1>2, <1>3

\* A concatenation is spread part by part.
LEMMA SpreadConcat ==
  ASSUME NEW S, NEW T, NEW g \in [S -> Seq(T)], NEW x \in Seq(S)
  PROVE  \A y \in Seq(S) : Spread(g, x \o y) = Spread(g, x) \o Spread(g, y)
<1> DEFINE I == {y \in Seq(S) : Spread(g, x \o y) = Spread(g, x) \o Spread(g, y)}
<1>1. <<>> \in I
  BY SpreadEmpty, SpreadAppend, ConcatEmptySeq, EmptySeq
<1>2. ASSUME NEW y \in Seq(S), NEW e \in S, y \in I PROVE Append(y, e) \in I
  <2>1. x \o Append(y, e) = Append(x \o y, e) /\ x \o y \in Seq(S) /\ Append(y, e) \in Seq(S)
    OBVIOUS
  <2>2. Spread(g, Append(x \o y, e)) = Spread(g, x \o y) \o g[e]
    <3>1. \A z \in Seq(S), c \in S : Spread(g, Append(z, c)) = Spread(g, z) \o g[c]
      BY SpreadAppend
    <3> QED BY <3>1, <2>1, Zenon
  <2>3. Spread(g, Append(y, e)) = Spread(g, y) \o g[e]
    BY SpreadAppend, ZenonT(30)
  <2>4. Spread(g, x) \in Seq(T) /\ Spread(g, y) \in Seq(T) /\ g[e] \in Seq(T)
    BY SpreadAppend
  <2>5. (Spread(g, x) \o Spread(g, y)) \o g[e] = Spread(g, x) \o (Spread(g, y) \o g[e])
    BY <2>4, ConcatAssociative, SMTT(30)
  <2> QED BY <1>2, <2>1, <2>2, <2>3, <2>5
<1>3. \A y \in Seq(S) : y \in I
  <2> HIDE DEF I
  <2> QED BY <1>1, <1>2, SeqInduction
<1> QED BY <1>3

\* One element is spread to what it is replaced by.
LEMMA SpreadOne ==
  ASSUME NEW S, NEW T, NEW g \in [S -> Seq(T)], NEW e \in S
  PROVE  Spread(g, <<e>>) = g[e]
<1>1. <<e>> = Append(<<>>, e) /\ <<>> \in Seq(S)
  OBVIOUS
<1>2. Spread(g, Append(<<>>, e)) = Spread(g, <<>>) \o g[e]
  <2>1. \A z \in Seq(S), c \in S : Spread(g, Append(z, c)) = Spread(g, z) \o g[c]
    BY SpreadAppend
  <2> QED BY <2>1, <1>1, Zenon
<1>3. Spread(g, <<>>) = <<>>
  BY SpreadEmpty
<1>4. <<>> \o g[e] = g[e]
  BY ConcatEmptySeq
<1> QED BY <1>1, <1>2, <1>3, <1>4

\* Functions that agree on what occurs in a sequence spread it alike.
LEMMA SpreadAgree ==
  ASSUME NEW g, NEW h, NEW x, \A i \in DOMAIN x : g[x[i]] = h[x[i]]
  PROVE  Spread(g, x) = Spread(h, x)
<1>1. [i \in DOMAIN x |-> g[x[i]]] = [i \in DOMAIN x |-> h[x[i]]]
  OBVIOUS
<1> QED BY <1>1 DEF Spread

\* Two concatenations whose first parts are equally long.
LEMMA Cancel ==
  ASSUME NEW S, NEW a \in Seq(S), NEW b \in Seq(S), NEW c \in Seq(S), NEW d \in Seq(S),
         Len(a) = Len(c), a \o b = c \o d
  PROVE  a = c /\ b = d
<1>1. \A i \in 1..Len(a) : a[i] = (a \o b)[i] /\ c[i] = (c \o d)[i]
  OBVIOUS
<1>2. a = c
  BY <1>1, SeqEqual
<1> QED BY <1>2, ConcatSimplifications

-----------------------------------------------------------------------------
(* What Reading computes. *)

\* The recursive function in its definition exists.
HasReading(s, doc, n) ==
    \E f : f = [i \in 0..n |-> IF i = 0 THEN s ELSE Feed(f[i - 1], doc[i])]

\* The recursive function in Reading exists.
LEMMA ReadingRec ==
  ASSUME NEW s, NEW doc, NEW n \in Nat
  PROVE  HasReading(s, doc, n)
<1> DEFINE P(k) == \E f : f = [i \in 0..k |-> IF i = 0 THEN s ELSE Feed(f[i - 1], doc[i])]
           T == {k \in Nat : P(k)}
<1>1. P(0)
  <2> DEFINE f == [i \in 0..0 |-> s]
  <2>1. f = [i \in 0..0 |-> IF i = 0 THEN s ELSE Feed(f[i - 1], doc[i])]
    OBVIOUS
  <2> QED BY <2>1
<1>2. ASSUME NEW k \in Nat, P(k) PROVE P(k + 1)
  <2>1. PICK f : f = [i \in 0..k |-> IF i = 0 THEN s ELSE Feed(f[i - 1], doc[i])]
    BY <1>2
  <2> DEFINE g == [i \in 0..(k + 1) |->
                     IF i <= k THEN f[i] ELSE IF i = 0 THEN s ELSE Feed(f[i - 1], doc[i])]
  <2>2. ASSUME NEW i \in 0..(k + 1) PROVE g[i] = IF i = 0 THEN s ELSE Feed(g[i - 1], doc[i])
    <3>1. CASE i <= k
      <4>1. f[i] = IF i = 0 THEN s ELSE Feed(f[i - 1], doc[i])
        <5> HIDE DEF g
        <5>1. i \in 0..k
          BY <3>1
        <5> QED BY <2>1, <5>1
      <4>2. i # 0 => g[i - 1] = f[i - 1]
        BY <3>1
      <4>3. g[i] = f[i]
        BY <3>1
      <4> HIDE DEF g
      <4> QED BY <4>1, <4>2, <4>3
    <3>2. CASE i = k + 1
      <4>1. g[i] = Feed(f[i - 1], doc[i]) /\ g[i - 1] = f[i - 1] /\ i # 0
        BY <3>2
      <4> HIDE DEF g
      <4> QED BY <4>1
    <3> QED BY <3>1, <3>2
  <2>3. g = [i \in 0..(k + 1) |-> IF i = 0 THEN s ELSE Feed(g[i - 1], doc[i])]
    <3>1. g = [i \in 0..(k + 1) |-> g[i]]
      OBVIOUS
    <3> HIDE DEF g
    <3> QED BY <2>2, <3>1
  <2> HIDE DEF g
  <2> QED BY <2>3
<1> HIDE DEF P
<1>3. \A k \in Nat : k \in T
  <2>1. 0 \in T /\ \A k \in Nat : k \in T => k + 1 \in T
    BY <1>1, <1>2
  <2> HIDE DEF T
  <2> QED BY <2>1, SetInduction
<1> QED BY <1>3 DEF P, HasReading

\* f has the states that the first n tokens of doc take the reader through.
Feeds(f, s, doc, n) == f[0] = s /\ \A i \in 1..n : f[i] = Feed(f[i - 1], doc[i])

\* Reading is the last of the states that the tokens take the reader through.
LEMMA ReadingUnfold ==
  ASSUME NEW s, NEW doc, Len(doc) \in Nat
  PROVE  \E f : Feeds(f, s, doc, Len(doc)) /\ Reading(s, doc) = f[Len(doc)]
<1> DEFINE f == CHOOSE g : g = [i \in 0..Len(doc) |-> IF i = 0 THEN s ELSE Feed(g[i - 1], doc[i])]
<1>1. f = [i \in 0..Len(doc) |-> IF i = 0 THEN s ELSE Feed(f[i - 1], doc[i])]
  <2>1. HasReading(s, doc, Len(doc))
    BY ReadingRec
  <2>2. PICK g : g = [i \in 0..Len(doc) |-> IF i = 0 THEN s ELSE Feed(g[i - 1], doc[i])]
    BY <2>1 DEF HasReading
  <2> QED BY <2>2
<1>2. Reading(s, doc) = f[Len(doc)]
  BY DEF Reading
<1> HIDE DEF f
<1>3. Feeds(f, s, doc, Len(doc))
  BY <1>1 DEF Feeds
<1> QED BY <1>2, <1>3

\* The states up to the mth token depend on nothing but the first m tokens.
LEMMA FeedsUnique ==
  ASSUME NEW s, NEW x, NEW y, NEW f, NEW g, NEW m \in Nat,
         \A i \in 1..m : x[i] = y[i], Feeds(f, s, x, m), Feeds(g, s, y, m)
  PROVE  f[m] = g[m]
<1> DEFINE T == {k \in Nat : k \in 0..m => f[k] = g[k]}
<1>1. 0 \in T
  BY DEF Feeds
<1>2. ASSUME NEW k \in Nat, k \in T PROVE k + 1 \in T
  <2>1. ASSUME k + 1 \in 1..m PROVE f[k + 1] = g[k + 1]
    <3>1. f[k + 1] = Feed(f[(k + 1) - 1], x[k + 1]) /\ g[k + 1] = Feed(g[(k + 1) - 1], y[k + 1])
      BY <2>1, Zenon DEF Feeds
    <3>2. (k + 1) - 1 = k /\ x[k + 1] = y[k + 1] /\ f[k] = g[k]
      BY <1>2, <2>1
    <3> QED BY <3>1, <3>2
  <2> QED BY <2>1
<1>3. \A k \in Nat : k \in T
  <2> HIDE DEF T
  <2> QED BY <1>1, <1>2, SetInduction
<1> QED BY <1>3

\* Reading by recursion on the tokens read.
LEMMA ReadingEmpty == \A s : Reading(s, <<>>) = s
<1> TAKE s
<1>1. Len(<<>>) = 0
  OBVIOUS
<1>2. PICK f : Feeds(f, s, <<>>, Len(<<>>)) /\ Reading(s, <<>>) = f[Len(<<>>)]
  BY <1>1, ReadingUnfold
<1> QED BY <1>1, <1>2 DEF Feeds

\* The reader takes one token more by one Feed.
LEMMA ReadingAppend ==
  ASSUME NEW s, NEW S, NEW x \in Seq(S), NEW c \in S
  PROVE  Reading(s, Append(x, c)) = Feed(Reading(s, x), c)
<1> DEFINE y == Append(x, c)
<1>1. /\ Len(y) = Len(x) + 1 /\ y[Len(x) + 1] = c /\ Len(x) \in Nat
      /\ \A i \in 1..Len(x) : x[i] = y[i]
  BY AppendProperties
<1> HIDE DEF y
<1>2. PICK g : Feeds(g, s, y, Len(y)) /\ Reading(s, y) = g[Len(y)]
  BY <1>1, ReadingUnfold
<1>3. PICK f : Feeds(f, s, x, Len(x)) /\ Reading(s, x) = f[Len(x)]
  BY <1>1, ReadingUnfold
<1>4. Feeds(g, s, y, Len(x))
  BY <1>1, <1>2 DEF Feeds
<1>5. f[Len(x)] = g[Len(x)]
  BY <1>1, <1>3, <1>4, FeedsUnique
<1>6. g[Len(y)] = Feed(g[Len(y) - 1], y[Len(y)])
  <2>1. Len(y) \in 1..Len(y)
    BY <1>1
  <2> QED BY <1>2, <2>1, Zenon DEF Feeds
<1>7. Len(y) - 1 = Len(x)
  BY <1>1
<1> QED BY <1>1, <1>2, <1>3, <1>5, <1>6, <1>7 DEF y

\* A document in two parts is read one after the other.
LEMMA ReadingConcat ==
  ASSUME NEW s, NEW S, NEW x \in Seq(S)
  PROVE  \A y \in Seq(S) : Reading(s, x \o y) = Reading(Reading(s, x), y)
<1> DEFINE I == {y \in Seq(S) : Reading(s, x \o y) = Reading(Reading(s, x), y)}
<1>1. <<>> \in I
  BY ReadingEmpty, ConcatEmptySeq, EmptySeq
<1>2. ASSUME NEW y \in Seq(S), NEW c \in S, y \in I PROVE Append(y, c) \in I
  <2>1. x \o Append(y, c) = Append(x \o y, c) /\ x \o y \in Seq(S) /\ Append(y, c) \in Seq(S)
    OBVIOUS
  <2>2. Reading(s, Append(x \o y, c)) = Feed(Reading(s, x \o y), c)
    BY <2>1, ReadingAppend, ZenonT(30)
  <2>3. Reading(Reading(s, x), Append(y, c)) = Feed(Reading(Reading(s, x), y), c)
    BY ReadingAppend
  <2> QED BY <1>2, <2>1, <2>2, <2>3
<1>3. \A y \in Seq(S) : y \in I
  <2> HIDE DEF I
  <2> QED BY <1>1, <1>2, SeqInduction
<1> QED BY <1>3

\* One token is one Feed.
LEMMA ReadingOne ==
  ASSUME NEW s, NEW c
  PROVE  Reading(s, <<c>>) = Feed(s, c)
<1>1. <<c>> = Append(<<>>, c) /\ <<>> \in Seq({c})
  OBVIOUS
<1>2. Reading(s, Append(<<>>, c)) = Feed(Reading(s, <<>>), c)
  BY <1>1, ReadingAppend, ZenonT(30)
<1> QED BY <1>1, <1>2, ReadingEmpty

-----------------------------------------------------------------------------
(* Reading a text.  The reader's state but for the path is what it added to *)
(* the nodes; where an entity returned to is of no account after it.        *)

\* The tokens, with those named that a document is made with.
Lexeme ==
    Token
    \union {TWIML_HEADER, "<", ">", "/", "=", " ", "\"", "&", "'",
            "lt;", "gt;", "amp;", "quot;", "apos;"}
    \union {"Response", "Say", "Play", "Gather", "Record", "Dial", "Reject", "Hangup", "Pause",
            "Redirect", "Message", "Sip", "Client", "Conference", "Body", "Media"}
    \union {"voice", "language", "input", "action", "numDigits", "speechTimeout", "timeout",
            "maxLength", "playBeep", "callerId", "reason", "length"}

\* A part of a document.
String == Seq(Lexeme)

\* A text is made of tokens that a document may hold.
LEMMA TextIsString == Text \subseteq String
<1>1. Token \subseteq Lexeme
  BY DEF Lexeme
<1> QED BY <1>1, SeqMonotonic DEF Text, String

\* The names of the elements around a node.
Path == Seq(Lexeme)

\* A node that the reader keeps.
Node == [kind : {"open", "attribute", "text"}, path : Path, text : String]

\* A state of the reader.
At(mode, back, p, nodes) == [mode |-> mode, back |-> back, at |-> p, nodes |-> nodes]

\* A text node.
TextAt(p, x) == [kind |-> "text", path |-> p, text |-> x]

\* A text at p would go on with the last of the nodes.
Continues(nodes, p) ==
    nodes # <<>> /\ nodes[Len(nodes)].path = p /\ nodes[Len(nodes)].kind # "open"

\* The nodes after a text x was read at p.
Added(nodes, p, x) ==
    IF x = <<>> THEN nodes
    ELSE IF Continues(nodes, p)
    THEN [nodes EXCEPT ![Len(nodes)] =
            [kind |-> nodes[Len(nodes)].kind, path |-> p, text |-> nodes[Len(nodes)].text \o x]]
    ELSE Append(nodes, TextAt(p, x))

\* What esc makes of a token.
Escaped == [c \in Lexeme |-> IF c \in DOMAIN Entity THEN <<"&", Entity[c]>> ELSE <<c>>]

\* What one token is escaped to is a sequence of tokens.
LEMMA EscapedType == Escaped \in [Lexeme -> String]
<1> SUFFICES ASSUME NEW c \in Lexeme
             PROVE  (IF c \in DOMAIN Entity THEN <<"&", Entity[c]>> ELSE <<c>>) \in String
  BY DEF Escaped
<1>1. CASE c \in DOMAIN Entity
  <2>1. Entity[c] \in Lexeme /\ "&" \in Lexeme
    <3>1. "&" \in Lexeme
      BY DEF Lexeme
    <3>2. Entity[c] \in {"lt;", "gt;", "amp;", "quot;", "apos;"}
      BY <1>1 DEF Entity
    <3>3. {"lt;", "gt;", "amp;", "quot;", "apos;"} \subseteq Lexeme
      BY DEF Lexeme
    <3> QED BY <3>1, <3>2, <3>3
  <2> QED BY <1>1, <2>1 DEF String
<1>2. CASE c \notin DOMAIN Entity
  BY <1>2 DEF String
<1> QED BY <1>1, <1>2

\* esc replaces every token on its own (twiml.rs:112-116).
LEMMA EscIsSpread == \A x \in String : esc(x) = Spread(Escaped, x)
<1> TAKE x \in String
<1>1. \A i \in DOMAIN x : x[i] \in Lexeme
  BY DEF String
<1>2. [i \in DOMAIN x |-> IF x[i] \in DOMAIN Entity THEN <<"&", Entity[x[i]]>> ELSE <<x[i]>>]
        = [i \in DOMAIN x |-> Escaped[x[i]]]
  BY <1>1 DEF Escaped
<1> QED BY <1>2 DEF esc, Spread

\* Escaping a text token by token.
LEMMA EscProperties ==
    /\ esc(<<>>) = <<>>
    /\ \A x \in String : esc(x) \in String
    /\ \A x \in String, c \in Lexeme : esc(Append(x, c)) = esc(x) \o Escaped[c]
<1>1. esc(<<>>) = <<>>
  <2>1. <<>> \in String
    BY DEF String
  <2> QED BY <2>1, EscIsSpread, SpreadEmpty
<1>2. ASSUME NEW x \in String PROVE esc(x) \in String
  BY EscIsSpread, EscapedType, SpreadAppend DEF String
<1>3. ASSUME NEW x \in String, NEW c \in Lexeme PROVE esc(Append(x, c)) = esc(x) \o Escaped[c]
  <2>1. Append(x, c) \in String
    BY DEF String
  <2>2. \A z \in Seq(Lexeme), d \in Lexeme :
            Spread(Escaped, Append(z, d)) = Spread(Escaped, z) \o Escaped[d]
    BY EscapedType, SpreadAppend DEF String
  <2> QED BY <2>1, <2>2, EscIsSpread, Zenon DEF String
<1> QED BY <1>1, <1>2, <1>3

\* A token appended to the end of a concatenation is appended to its second
\* part.
LEMMA AppendLater ==
  ASSUME NEW S, NEW x \in Seq(S), NEW y \in Seq(S), NEW c \in S
  PROVE  (x \o y) \o <<c>> = x \o Append(y, c)
<1>1. <<c>> \in Seq(S)
  OBVIOUS
<1>2. (x \o y) \o <<c>> = x \o (y \o <<c>>)
  BY <1>1, ConcatAssociative
<1> QED BY <1>2, AppendIsConcat

\* One character more.
LEMMA NodeWithText ==
  ASSUME NEW n \in Node, NEW c \in Lexeme
  PROVE  [n EXCEPT !.text = Append(@, c)]
            = [kind |-> n.kind, path |-> n.path, text |-> n.text \o <<c>>]
<1>1. n.text \in String
  BY DEF Node
<1>2. Append(n.text, c) = n.text \o <<c>>
  BY <1>1 DEF String
<1>3. [n EXCEPT !.text = Append(@, c)]
        = [kind |-> n.kind, path |-> n.path, text |-> Append(n.text, c)]
  BY SMTT(30) DEF Node
<1> QED BY <1>2, <1>3

\* AddText makes a run of text one token longer, or begins one.
LEMMA AddTextAdded ==
  ASSUME NEW m, NEW b, NEW p \in Path, NEW nodes \in Seq(Node), NEW x \in String, NEW c \in Lexeme
  PROVE  /\ Added(nodes, p, x) \in Seq(Node)
         /\ AddText(At(m, b, p, Added(nodes, p, x)), c) = At(m, b, p, Added(nodes, p, Append(x, c)))
<1> DEFINE L == Len(nodes)
           last == nodes[L]
           A == Added(nodes, p, x)
           B == Added(nodes, p, Append(x, c))
<1>a. L \in Nat /\ (nodes # <<>> => L # 0 /\ last \in Node)
  OBVIOUS
<1>b. Append(x, c) # <<>> /\ Append(x, c) \in String
  BY DEF String
<1>1. ASSUME NEW M \in Seq(Node)
      PROVE  AddText(At(m, b, p, M), c) = At(m, b, p, Added(M, p, <<c>>))
  <2>1. CASE Continues(M, p)
    <3>1. Len(M) \in 1..Len(M) /\ M[Len(M)] \in Node
      BY <2>1 DEF Continues
    <3>2. [M[Len(M)] EXCEPT !.text = Append(@, c)]
            = [kind |-> M[Len(M)].kind, path |-> p, text |-> M[Len(M)].text \o <<c>>]
      BY <2>1, <3>1, NodeWithText DEF Continues
    <3>3. AddText(At(m, b, p, M), c) = At(m, b, p, [M EXCEPT ![Len(M)].text = Append(@, c)])
      BY <2>1 DEF AddText, At, Continues, Last
    <3> QED BY <2>1, <3>1, <3>2, <3>3 DEF Added
  <2>2. CASE ~Continues(M, p)
    <3>1. AddText(At(m, b, p, M), c) = At(m, b, p, Append(M, TextAt(p, <<c>>)))
      BY <2>2 DEF AddText, At, Continues, Last, TextAt
    <3> QED BY <2>2, <3>1 DEF Added
  <2> QED BY <2>1, <2>2
<1>2. A \in Seq(Node)
  <2>1. CASE x = <<>>
    BY <2>1 DEF Added
  <2>2. CASE x # <<>> /\ Continues(nodes, p)
    <3>1. L \in 1..L /\ last \in Node
      BY <2>2, <1>a DEF Continues
    <3>2. [kind |-> last.kind, path |-> p, text |-> last.text \o x] \in Node
      BY <3>1 DEF Node, String
    <3>3. A = [nodes EXCEPT ![L] = [kind |-> last.kind, path |-> p, text |-> last.text \o x]]
      BY <2>2 DEF Added
    <3> QED BY <3>1, <3>2, <3>3, ExceptSeq
  <2>3. CASE x # <<>> /\ ~Continues(nodes, p)
    <3>1. TextAt(p, x) \in Node
      BY DEF TextAt, Node
    <3>2. A = Append(nodes, TextAt(p, x))
      BY <2>3 DEF Added
    <3> QED BY <3>1, <3>2
  <2> QED BY <2>1, <2>2, <2>3
<1>3. Added(A, p, <<c>>) = B
  <2>1. CASE x = <<>>
    <3>1. A = nodes /\ Append(x, c) = <<c>>
      BY <2>1 DEF Added
    <3> QED BY <3>1
  <2>2. CASE x # <<>> /\ Continues(nodes, p)
    <3> DEFINE n == [kind |-> last.kind, path |-> p, text |-> last.text \o x]
    <3>1. L \in 1..L /\ last \in Node
      BY <2>2, <1>a DEF Continues
    <3>2. n \in Node
      BY <3>1 DEF Node, String
    <3>3. A = [nodes EXCEPT ![L] = n]
      BY <2>2 DEF Added
    <3>4. Len(A) = L /\ A[L] = n
      <4> HIDE DEF n, A
      <4> QED BY <3>1, <3>2, <3>3
    <3>5. Continues(A, p)
      BY <2>2, <3>4, <3>1 DEF Continues
    <3>6. Added(A, p, <<c>>) = [A EXCEPT ![L] = [kind |-> last.kind, path |-> p,
                                                text |-> (last.text \o x) \o <<c>>]]
      <4>1. n.kind = last.kind /\ n.text = last.text \o x
        OBVIOUS
      <4>2. <<c>> # <<>>
        OBVIOUS
      <4> HIDE DEF n, A
      <4> QED BY <4>1, <4>2, <3>4, <3>5 DEF Added
    <3>7. (last.text \o x) \o <<c>> = last.text \o Append(x, c)
      <4>1. last.text \in Seq(Lexeme) /\ x \in Seq(Lexeme)
        BY <3>1 DEF Node, String
      <4> HIDE DEF last
      <4>2. \A t \in Seq(Lexeme) : (t \o x) \o <<c>> = t \o Append(x, c)
        BY <4>1, AppendLater
      <4> QED BY <4>1, <4>2
    <3>8. B = [nodes EXCEPT ![L] = [kind |-> last.kind, path |-> p,
                                    text |-> last.text \o Append(x, c)]]
      BY <2>2, <1>b DEF Added
    <3> HIDE DEF n, A, B
    <3> QED BY <3>3, <3>6, <3>7, <3>8
  <2>3. CASE x # <<>> /\ ~Continues(nodes, p)
    <3>1. A = Append(nodes, TextAt(p, x))
      BY <2>3 DEF Added
    <3>2. TextAt(p, x) \in Node
      BY DEF TextAt, Node
    <3>3. Len(A) = L + 1 /\ A[L + 1] = TextAt(p, x) /\ \A i \in 1..L : A[i] = nodes[i]
      BY <3>1, <3>2, AppendProperties
    <3>4. Continues(A, p)
      BY <3>1, <3>3 DEF Continues, TextAt
    <3>5. Added(A, p, <<c>>) = [A EXCEPT ![L + 1] = TextAt(p, x \o <<c>>)]
      <4>1. TextAt(p, x).kind = "text" /\ TextAt(p, x).text = x
        BY DEF TextAt
      <4>2. <<c>> # <<>>
        OBVIOUS
      <4>3. TextAt(p, x \o <<c>>) = [kind |-> "text", path |-> p, text |-> x \o <<c>>]
        BY DEF TextAt
      <4> HIDE DEF A
      <4> QED BY <4>1, <4>2, <4>3, <3>3, <3>4 DEF Added
    <3>6. x \o <<c>> = Append(x, c)
      BY DEF String
    <3>7. TextAt(p, Append(x, c)) \in Node
      BY <1>b DEF TextAt, Node
    <3>8. [A EXCEPT ![L + 1] = TextAt(p, Append(x, c))] = Append(nodes, TextAt(p, Append(x, c)))
      <4> DEFINE t == TextAt(p, Append(x, c))
      <4>1. [A EXCEPT ![L + 1] = t] \in Seq(Node) /\ Append(nodes, t) \in Seq(Node)
        <5> HIDE DEF A, t
        <5>1. L + 1 \in 1..Len(A)
          BY <3>3
        <5> QED BY <5>1, <1>2, <3>7, ExceptSeq DEF t
      <4>2. Len([A EXCEPT ![L + 1] = t]) = L + 1 /\ Len(Append(nodes, t)) = L + 1
        <5> HIDE DEF A, t
        <5> QED BY <1>2, <3>3
      <4>3. \A i \in 1..(L + 1) : [A EXCEPT ![L + 1] = t][i] = Append(nodes, t)[i]
        <5> HIDE DEF A, t
        <5> QED BY <1>2, <3>3
      <4> HIDE DEF A, t
      <4>4. [A EXCEPT ![L + 1] = t] = Append(nodes, t)
        BY <4>1, <4>2, <4>3, SeqEqual
      <4> QED BY <4>4 DEF t
    <3>9. B = Append(nodes, TextAt(p, Append(x, c)))
      BY <2>3, <1>b DEF Added
    <3> QED BY <3>5, <3>6, <3>8, <3>9
  <2> QED BY <2>1, <2>2, <2>3
<1> HIDE DEF A, B
<1>4. AddText(At(m, b, p, A), c) = At(m, b, p, B)
  BY <1>1, <1>2, <1>3
<1> QED BY <1>2, <1>4 DEF A, B

\* Where an entity returned to is of no account.
IsAt(s, m, p, nodes) == s = At(m, s.back, p, nodes)

\* A state is where it says it is.
LEMMA IsAtAt == \A m, b, p, nodes : IsAt(At(m, b, p, nodes), m, p, nodes)
  BY DEF IsAt, At

\* Two tokens for an escaped character, one for any other.
LEMMA FeedEscaped ==
  ASSUME NEW m \in {"text", "value"}, NEW b, NEW p, NEW nodes, NEW c \in Lexeme
  PROVE  Reading(At(m, b, p, nodes), Escaped[c])
            = AddText(At(m, IF c \in DOMAIN Entity THEN m ELSE b, p, nodes), c)
<1>1. CASE c \in DOMAIN Entity
  <2>1. Escaped[c] = <<"&", Entity[c]>> /\ <<"&", Entity[c]>> = <<"&">> \o <<Entity[c]>>
    BY <1>1 DEF Escaped
  <2>2. Entity[c] \in Lexeme /\ "&" \in Lexeme
    <3>1. Entity[c] \in {"lt;", "gt;", "amp;", "quot;", "apos;"}
      BY <1>1 DEF Entity
    <3> QED BY <3>1 DEF Lexeme
  <2>3. Reading(At(m, b, p, nodes), <<"&">> \o <<Entity[c]>>)
            = Reading(Reading(At(m, b, p, nodes), <<"&">>), <<Entity[c]>>)
    <3>1. \A e \in Lexeme : <<"&">> \in Seq(Lexeme) /\ <<e>> \in Seq(Lexeme)
      BY <2>2
    <3>2. \A s, e : e \in Lexeme =>
            Reading(s, <<"&">> \o <<e>>) = Reading(Reading(s, <<"&">>), <<e>>)
      <4>1. \A s : \A x, y \in Seq(Lexeme) : Reading(s, x \o y) = Reading(Reading(s, x), y)
        BY ReadingConcat
      <4> QED BY <3>1, <4>1
    <3> QED BY <3>2, <2>2
  <2>4. Feed(At(m, b, p, nodes), "&") = At("entity", m, p, nodes)
    BY DEF Feed, At
  <2>5. Feed(At("entity", m, p, nodes), Entity[c]) = AddText(At(m, m, p, nodes), c)
    <3>1. \A e \in DOMAIN Entity : Entity[e] = Entity[c] => e = c
      BY <1>1 DEF Entity
    <3>2. (CHOOSE e \in DOMAIN Entity : Entity[e] = Entity[c]) = c
      BY <1>1, <3>1
    <3>3. Mode(At("entity", m, p, nodes), m) = At(m, m, p, nodes)
      BY DEF Mode, At
    <3>4. Feed(At("entity", m, p, nodes), Entity[c])
            = AddText(Mode(At("entity", m, p, nodes), m),
                      CHOOSE e \in DOMAIN Entity : Entity[e] = Entity[c])
      BY <1>1 DEF Feed, At
    <3> QED BY <3>2, <3>3, <3>4
  <2> QED BY <1>1, <2>1, <2>3, <2>4, <2>5, ReadingOne
<1>2. CASE c \notin DOMAIN Entity
  <2>1. Escaped[c] = <<c>>
    BY <1>2 DEF Escaped
  <2>2. c \notin {"&", "<", "\""}
    BY <1>2 DEF Entity
  <2>3. Feed(At(m, b, p, nodes), c) = AddText(At(m, b, p, nodes), c)
    BY <2>2 DEF Feed, At
  <2> QED BY <1>2, <2>1, <2>3, ReadingOne
<1> QED BY <1>1, <1>2

\* One escaped token is read as one token more of the text.
LEMMA ReadingEscaped ==
  ASSUME NEW m \in {"text", "value"}, NEW p \in Path, NEW nodes \in Seq(Node), NEW x \in String,
         NEW c \in Lexeme, NEW s, IsAt(s, m, p, Added(nodes, p, x))
  PROVE  IsAt(Reading(s, Escaped[c]), m, p, Added(nodes, p, Append(x, c)))
<1> DEFINE M == Added(nodes, p, x)
<1>1. s = At(m, s.back, p, M)
  BY DEF IsAt
<1> DEFINE b2 == IF c \in DOMAIN Entity THEN m ELSE s.back
<1>2. Reading(At(m, s.back, p, M), Escaped[c]) = AddText(At(m, b2, p, M), c)
  <2> HIDE DEF M
  <2> QED BY FeedEscaped
<1>3. AddText(At(m, b2, p, M), c) = At(m, b2, p, Added(nodes, p, Append(x, c)))
  BY AddTextAdded
<1> HIDE DEF M, b2
<1> QED BY <1>1, <1>2, <1>3, IsAtAt

\* An escaped text is read as the text it was, in content and in an attribute.
LEMMA ReadingText ==
  ASSUME NEW m \in {"text", "value"}, NEW p \in Path, NEW nodes \in Seq(Node),
         NEW s, IsAt(s, m, p, nodes)
  PROVE  \A x \in String : IsAt(Reading(s, esc(x)), m, p, Added(nodes, p, x))
<1> DEFINE I == {x \in String : IsAt(Reading(s, esc(x)), m, p, Added(nodes, p, x))}
<1>1. <<>> \in I
  <2>1. <<>> \in String
    BY DEF String
  <2>2. Added(nodes, p, <<>>) = nodes
    BY DEF Added
  <2> QED BY <2>1, <2>2, EscProperties, ReadingEmpty
<1>2. ASSUME NEW x \in Seq(Lexeme), NEW c \in Lexeme, x \in I PROVE Append(x, c) \in I
  <2>1. x \in String /\ Append(x, c) \in String
    BY DEF String
  <2>2. IsAt(Reading(s, esc(x)), m, p, Added(nodes, p, x))
    BY <1>2
  <2>3. esc(Append(x, c)) = esc(x) \o Escaped[c] /\ esc(x) \in Seq(Lexeme)
        /\ Escaped[c] \in Seq(Lexeme)
    BY <2>1, EscProperties, EscapedType DEF String
  <2>4. Reading(s, esc(Append(x, c))) = Reading(Reading(s, esc(x)), Escaped[c])
    BY <2>3, ReadingConcat
  <2>5. IsAt(Reading(Reading(s, esc(x)), Escaped[c]), m, p, Added(nodes, p, Append(x, c)))
    BY <2>1, <2>2, ReadingEscaped
  <2> QED BY <2>1, <2>4, <2>5
<1>3. \A x \in Seq(Lexeme) : x \in I
  <2> HIDE DEF I
  <2> QED BY <1>1, <1>2, SeqInduction
<1> QED BY <1>3 DEF String

-----------------------------------------------------------------------------
(* Reading an element. *)

\* A node.
NodeAt(kind, p, x) == [kind |-> kind, path |-> p, text |-> x]

\* A token that can be a name.
Name == Lexeme \ {" ", "=", "\"", ">", "/"}

\* A name appended to a path is its last, and the path is what precedes it.
LEMMA FrontLast ==
  ASSUME NEW p \in Path, NEW name \in Lexeme
  PROVE  /\ Append(p, name) \in Path /\ Append(p, name) # <<>> /\ Append(p, name) # p
         /\ Front(Append(p, name)) = p /\ Last(Append(p, name)) = name
<1> DEFINE q == Append(p, name)
<1>1. /\ q \in Path /\ q # <<>> /\ Len(q) = Len(p) + 1 /\ q[Len(p) + 1] = name /\ Len(p) \in Nat
      /\ \A i \in 1..Len(p) : q[i] = p[i]
  BY AppendProperties DEF Path
<1> HIDE DEF q
<1>2. Front(q) = SubSeq(q, 1, Len(p))
  <2>1. Len(q) - 1 = Len(p)
    BY <1>1
  <2> QED BY <2>1 DEF Front
<1>3. SubSeq(q, 1, Len(p)) = p
  <2>1. \A i \in 1..Len(p) : q[i] \in Lexeme
    BY <1>1 DEF Path
  <2>2. /\ SubSeq(q, 1, Len(p)) \in Seq(Lexeme)
        /\ Len(SubSeq(q, 1, Len(p))) = IF 1 <= Len(p) THEN Len(p) - 1 + 1 ELSE 0
        /\ \A i \in 1..(Len(p) - 1 + 1) : SubSeq(q, 1, Len(p))[i] = q[1 + i - 1]
    BY <2>1, <1>1, SubSeqProperties
  <2>3. Len(SubSeq(q, 1, Len(p))) = Len(p)
    BY <2>2, <1>1
  <2>4. \A i \in 1..Len(p) : SubSeq(q, 1, Len(p))[i] = p[i]
    BY <2>2, <1>1
  <2> QED BY <2>2, <2>3, <2>4, SeqEqual DEF Path
<1>4. Last(q) = name
  BY <1>1 DEF Last
<1>5. q # p
  BY <1>1
<1> QED BY <1>1, <1>2, <1>3, <1>4, <1>5 DEF q

\* The reader moved.
MovedTo(r, q, m) == [r EXCEPT !.at = q, !.mode = m]

\* The reader kept a node.
GrownTo(r, q, nodes) == [r EXCEPT !.at = q, !.nodes = nodes]

\* How the fields that a move of the reader changes are set.
LEMMA Updates ==
  ASSUME NEW m, NEW b, NEW p, NEW nodes, NEW m2, NEW q, NEW nodes2
  PROVE  /\ MovedTo(At(m, b, p, nodes), q, m2) = At(m2, b, q, nodes)
         /\ GrownTo(At(m, b, p, nodes), q, nodes2) = At(m, b, q, nodes2)
<1>1. [At(m, b, p, nodes) EXCEPT !.at = q] = At(m, b, q, nodes)
  BY DEF At
<1>2. [At(m, b, q, nodes) EXCEPT !.mode = m2] = At(m2, b, q, nodes)
  BY DEF At
<1>3. [At(m, b, q, nodes) EXCEPT !.nodes = nodes2] = At(m, b, q, nodes2)
  BY DEF At
<1>4. MovedTo(At(m, b, p, nodes), q, m2)
        = [[At(m, b, p, nodes) EXCEPT !.at = q] EXCEPT !.mode = m2]
  BY DEF MovedTo
<1>5. GrownTo(At(m, b, p, nodes), q, nodes2)
        = [[At(m, b, p, nodes) EXCEPT !.at = q] EXCEPT !.nodes = nodes2]
  BY DEF GrownTo
<1> QED BY <1>1, <1>2, <1>3, <1>4, <1>5

\* What Mode, Leave and Enter do to where the reader is.
LEMMA Moves ==
  ASSUME NEW s, NEW m, NEW p, NEW nodes, IsAt(s, m, p, nodes)
  PROVE  /\ s.mode = m /\ s.at = p /\ s.nodes = nodes
         /\ \A m2 : IsAt(Mode(s, m2), m2, p, nodes) /\ IsAt(Leave(s, m2), m2, Front(p), nodes)
         /\ \A kind, name : IsAt(Enter(s, kind, name), m, Append(p, name),
                                Append(nodes, NodeAt(kind, Append(p, name), <<>>)))
<1>1. s = At(m, s.back, p, nodes)
  BY DEF IsAt
<1>2. s.mode = m /\ s.at = p /\ s.nodes = nodes
  BY <1>1 DEF At
<1>3. ASSUME NEW m2 PROVE IsAt(Mode(s, m2), m2, p, nodes)
  <2>1. Mode(At(m, s.back, p, nodes), m2) = At(m2, s.back, p, nodes)
    BY DEF Mode, At
  <2> QED BY <1>1, <2>1, IsAtAt
<1>4. ASSUME NEW m2 PROVE IsAt(Leave(s, m2), m2, Front(p), nodes)
  <2>1. Leave(At(m, s.back, p, nodes), m2) = At(m2, s.back, Front(p), nodes)
    <3>1. At(m, s.back, p, nodes).at = p
      BY DEF At
    <3>2. Leave(At(m, s.back, p, nodes), m2)
            = MovedTo(At(m, s.back, p, nodes), Front(p), m2)
      BY <3>1 DEF Leave, MovedTo
    <3> QED BY <3>2, Updates
  <2> QED BY <1>1, <2>1, IsAtAt
<1>5. ASSUME NEW kind, NEW name
      PROVE  IsAt(Enter(s, kind, name), m, Append(p, name),
                  Append(nodes, NodeAt(kind, Append(p, name), <<>>)))
  <2>1. Enter(At(m, s.back, p, nodes), kind, name)
            = At(m, s.back, Append(p, name), Append(nodes, NodeAt(kind, Append(p, name), <<>>)))
    <3>1. At(m, s.back, p, nodes).at = p /\ At(m, s.back, p, nodes).nodes = nodes
      BY DEF At
    <3>2. Enter(At(m, s.back, p, nodes), kind, name)
            = GrownTo(At(m, s.back, p, nodes), Append(p, name),
                      Append(nodes, NodeAt(kind, Append(p, name), <<>>)))
      BY <3>1 DEF Enter, NodeAt, GrownTo
    <3>3. \A q, M : GrownTo(At(m, s.back, p, nodes), q, M) = At(m, s.back, q, M)
      BY Updates
    <3> QED BY <3>2, <3>3
  <2> QED BY <1>1, <2>1, IsAtAt
<1> QED BY <1>2, <1>3, <1>4, <1>5

\* What each token of markup does to the reader.
LEMMA FeedMarkup ==
  ASSUME NEW s, NEW p, NEW nodes, NEW name \in Name
  PROVE  /\ IsAt(s, "attributes", p, nodes) =>
              /\ IsAt(Feed(s, " "), "attributes", p, nodes)
              /\ IsAt(Feed(s, "="), "attributes", p, nodes)
              /\ IsAt(Feed(s, "\""), "value", p, nodes)
              /\ IsAt(Feed(s, ">"), "text", p, nodes)
              /\ IsAt(Feed(s, "/"), "end", Front(p), nodes)
              /\ IsAt(Feed(s, name), "attributes", Append(p, name),
                      Append(nodes, NodeAt("attribute", Append(p, name), <<>>)))
         /\ IsAt(s, "value", p, nodes) => IsAt(Feed(s, "\""), "attributes", Front(p), nodes)
         /\ IsAt(s, "text", p, nodes) => IsAt(Feed(s, "<"), "tag", p, nodes)
         /\ IsAt(s, "tag", p, nodes) =>
              /\ IsAt(Feed(s, "/"), "close", p, nodes)
              /\ IsAt(Feed(s, name), "attributes", Append(p, name),
                      Append(nodes, NodeAt("open", Append(p, name), <<>>)))
         /\ IsAt(s, "close", p, nodes) /\ p # <<>> /\ name = Last(p) =>
              IsAt(Feed(s, name), "end", Front(p), nodes)
         /\ IsAt(s, "end", p, nodes) => IsAt(Feed(s, ">"), "text", p, nodes)
<1>0. name \notin {" ", "=", "\"", ">", "/"}
  BY DEF Name
<1>1. ASSUME IsAt(s, "attributes", p, nodes)
      PROVE  /\ IsAt(Feed(s, " "), "attributes", p, nodes)
             /\ IsAt(Feed(s, "="), "attributes", p, nodes)
             /\ IsAt(Feed(s, "\""), "value", p, nodes)
             /\ IsAt(Feed(s, ">"), "text", p, nodes)
             /\ IsAt(Feed(s, "/"), "end", Front(p), nodes)
             /\ IsAt(Feed(s, name), "attributes", Append(p, name),
                     Append(nodes, NodeAt("attribute", Append(p, name), <<>>)))
  <2>1. s.mode = "attributes"
    BY <1>1, Moves
  <2>2. /\ Feed(s, " ") = s /\ Feed(s, "=") = s /\ Feed(s, "\"") = Mode(s, "value")
        /\ Feed(s, ">") = Mode(s, "text") /\ Feed(s, "/") = Leave(s, "end")
    BY <2>1 DEF Feed
  <2>3. Feed(s, name) = Enter(s, "attribute", name)
    BY <2>1, <1>0 DEF Feed
  <2>4. IsAt(Mode(s, "value"), "value", p, nodes) /\ IsAt(Mode(s, "text"), "text", p, nodes)
    BY <1>1, Moves
  <2>5. IsAt(Leave(s, "end"), "end", Front(p), nodes)
    BY <1>1, Moves
  <2>6. IsAt(Enter(s, "attribute", name), "attributes", Append(p, name),
             Append(nodes, NodeAt("attribute", Append(p, name), <<>>)))
    BY <1>1, Moves
  <2> QED BY <1>1, <2>2, <2>3, <2>4, <2>5, <2>6
<1>2. ASSUME IsAt(s, "value", p, nodes)
      PROVE  IsAt(Feed(s, "\""), "attributes", Front(p), nodes)
  <2>1. s.mode = "value"
    BY <1>2, Moves
  <2>2. Feed(s, "\"") = Leave(s, "attributes")
    BY <2>1 DEF Feed
  <2>3. IsAt(Leave(s, "attributes"), "attributes", Front(p), nodes)
    BY <1>2, Moves
  <2> QED BY <2>2, <2>3
<1>3. ASSUME IsAt(s, "text", p, nodes) PROVE IsAt(Feed(s, "<"), "tag", p, nodes)
  <2>1. s.mode = "text"
    BY <1>3, Moves
  <2>2. Feed(s, "<") = Mode(s, "tag")
    BY <2>1 DEF Feed
  <2> QED BY <1>3, <2>2, Moves
<1>4. ASSUME IsAt(s, "tag", p, nodes)
      PROVE  /\ IsAt(Feed(s, "/"), "close", p, nodes)
             /\ IsAt(Feed(s, name), "attributes", Append(p, name),
                     Append(nodes, NodeAt("open", Append(p, name), <<>>)))
  <2>1. s.mode = "tag"
    BY <1>4, Moves
  <2>2. Feed(s, "/") = Mode(s, "close")
    BY <2>1 DEF Feed
  <2>3. Feed(s, name) = Enter(Mode(s, "attributes"), "open", name)
    BY <2>1, <1>0 DEF Feed
  <2>4. IsAt(Mode(s, "close"), "close", p, nodes)
        /\ IsAt(Mode(s, "attributes"), "attributes", p, nodes)
    BY <1>4, Moves
  <2>5. IsAt(Enter(Mode(s, "attributes"), "open", name), "attributes", Append(p, name),
             Append(nodes, NodeAt("open", Append(p, name), <<>>)))
    BY <2>4, Moves
  <2> QED BY <2>2, <2>3, <2>4, <2>5
<1>5. ASSUME IsAt(s, "close", p, nodes), p # <<>>, name = Last(p)
      PROVE  IsAt(Feed(s, name), "end", Front(p), nodes)
  <2>1. s.mode = "close" /\ s.at = p
    BY <1>5, Moves
  <2>2. Feed(s, name) = Leave(s, "end")
    BY <2>1, <1>5 DEF Feed
  <2> QED BY <1>5, <2>2, Moves
<1>6. ASSUME IsAt(s, "end", p, nodes) PROVE IsAt(Feed(s, ">"), "text", p, nodes)
  <2>1. s.mode = "end"
    BY <1>6, Moves
  <2>2. Feed(s, ">") = Mode(s, "text")
    BY <2>1 DEF Feed
  <2> QED BY <1>6, <2>2, Moves
<1> QED BY <1>1, <1>2, <1>3, <1>4, <1>5, <1>6

\* One, two and four elements are sequences.
LEMMA FewIsSeq ==
  ASSUME NEW S, NEW a \in S, NEW b \in S, NEW c \in S, NEW d \in S
  PROVE  <<a>> \in Seq(S) /\ <<a, b>> \in Seq(S) /\ <<a, b, c, d>> \in Seq(S)
  OBVIOUS

\* Two tokens are two Feeds.
LEMMA ReadingTwo == \A s, a, b : Reading(s, <<a, b>>) = Feed(Feed(s, a), b)
<1> TAKE s, a, b
<1>1. <<a>> \in Seq({a, b}) /\ b \in {a, b} /\ <<a, b>> = Append(<<a>>, b)
  OBVIOUS
<1>2. Reading(s, Append(<<a>>, b)) = Feed(Reading(s, <<a>>), b)
  <2>1. \A x \in Seq({a, b}), e \in {a, b} : Reading(s, Append(x, e)) = Feed(Reading(s, x), e)
    BY ReadingAppend
  <2> QED BY <2>1, <1>1
<1> QED BY <1>1, <1>2, ReadingOne

\* Four tokens are four Feeds.
LEMMA ReadingFour ==
  \A s, a, b, c, d : Reading(s, <<a, b, c, d>>) = Feed(Feed(Feed(Feed(s, a), b), c), d)
<1> TAKE s, a, b, c, d
<1> DEFINE S == {a, b, c, d}
<1>1. <<a, b>> \in Seq(S) /\ c \in S /\ <<a, b, c>> = Append(<<a, b>>, c)
  OBVIOUS
<1>2. <<a, b, c>> \in Seq(S) /\ d \in S /\ <<a, b, c, d>> = Append(<<a, b, c>>, d)
  OBVIOUS
<1> HIDE DEF S
<1>3. \A x \in Seq(S), e \in S : Reading(s, Append(x, e)) = Feed(Reading(s, x), e)
  BY ReadingAppend
<1>4. Reading(s, <<a, b, c, d>>) = Feed(Reading(s, <<a, b, c>>), d)
  BY <1>2, <1>3
<1>5. Reading(s, <<a, b, c>>) = Feed(Reading(s, <<a, b>>), c)
  BY <1>1, <1>3
<1>6. Reading(s, <<a, b>>) = Feed(Feed(s, a), b)
  BY ReadingTwo
<1> QED BY <1>4, <1>5, <1>6

-----------------------------------------------------------------------------
(* What a part of a document adds to the nodes: read in mode m at p it is   *)
(* read to its end, and the reader is again in m at p.                      *)

\* Wherever the reader is at p in mode m, and a text does not go on, x is
\* read as the nodes M.
Takes(x, m, p, M) ==
    /\ x \in String /\ p \in Path /\ M \in Seq(Node)
    /\ \A s : \A nodes \in Seq(Node) :
          IsAt(s, m, p, nodes) /\ ~Continues(nodes, p) => IsAt(Reading(s, x), m, p, nodes \o M)

\* What it is for a part to be read as nodes, wherever it comes.
LEMMA TakesUse ==
  ASSUME NEW x, NEW m, NEW p, NEW M, Takes(x, m, p, M), NEW s, NEW nodes \in Seq(Node),
         IsAt(s, m, p, nodes), ~Continues(nodes, p)
  PROVE  IsAt(Reading(s, x), m, p, nodes \o M)
  BY DEF Takes

\* A part is read as one sequence of nodes.
LEMMA TakesUnique ==
  ASSUME NEW x, NEW m, NEW p, NEW M, NEW M2, Takes(x, m, p, M), Takes(x, m, p, M2)
  PROVE  M = M2
<1> DEFINE s == At(m, "text", p, <<>>)
<1>1. IsAt(s, m, p, <<>>) /\ <<>> \in Seq(Node) /\ ~Continues(<<>>, p)
  BY IsAtAt DEF Continues
<1> HIDE DEF s
<1>2. IsAt(Reading(s, x), m, p, <<>> \o M) /\ IsAt(Reading(s, x), m, p, <<>> \o M2)
  BY <1>1, TakesUse
<1>3. <<>> \o M = M /\ <<>> \o M2 = M2
  BY DEF Takes
<1>4. \A r, N : IsAt(r, m, p, N) => r.nodes = N
  BY Moves
<1> QED BY <1>2, <1>3, <1>4

\* Nothing is read as nothing.
LEMMA TakesNothing ==
  ASSUME NEW m, NEW p \in Path
  PROVE  Takes(<<>>, m, p, <<>>)
<1>1. <<>> \in String /\ <<>> \in Seq(Node) /\ \A nodes \in Seq(Node) : nodes \o <<>> = nodes
  BY DEF String
<1> QED BY <1>1, ReadingEmpty DEF Takes

\* What ends in no run of text still does after nodes before it.
LEMMA ContinuesConcat ==
  ASSUME NEW p, NEW M \in Seq(Node), NEW nodes \in Seq(Node), ~Continues(M, p), ~Continues(nodes, p)
  PROVE  ~Continues(nodes \o M, p)
<1>1. CASE M = <<>>
  BY <1>1
<1>2. CASE M # <<>>
  <2>1. Len(nodes \o M) = Len(nodes) + Len(M) /\ Len(M) \in Nat \ {0} /\ Len(nodes) \in Nat
    BY <1>2
  <2>2. (nodes \o M)[Len(nodes \o M)] = M[Len(M)]
    BY <2>1
  <2> QED BY <1>2, <2>2 DEF Continues
<1> QED BY <1>1, <1>2

\* Two parts are read as their nodes one after the other, unless a run of
\* text would go on from the first into the second.
LEMMA TakesConcat ==
  ASSUME NEW x, NEW y, NEW m, NEW p, NEW M, NEW M2,
         Takes(x, m, p, M), Takes(y, m, p, M2), ~Continues(M, p)
  PROVE  Takes(x \o y, m, p, M \o M2)
<1>0. x \in Seq(Lexeme) /\ y \in Seq(Lexeme) /\ M \in Seq(Node) /\ M2 \in Seq(Node) /\ p \in Path
  BY DEF Takes, String
<1>1. x \o y \in String /\ M \o M2 \in Seq(Node)
  BY <1>0 DEF String
<1>2. ASSUME NEW s, NEW nodes \in Seq(Node), IsAt(s, m, p, nodes), ~Continues(nodes, p)
      PROVE  IsAt(Reading(s, x \o y), m, p, nodes \o (M \o M2))
  <2>1. IsAt(Reading(s, x), m, p, nodes \o M)
    BY <1>2, TakesUse
  <2>2. nodes \o M \in Seq(Node) /\ ~Continues(nodes \o M, p)
    BY <1>0, <1>2, ContinuesConcat
  <2>3. IsAt(Reading(Reading(s, x), y), m, p, (nodes \o M) \o M2)
    BY <2>1, <2>2, TakesUse
  <2>4. Reading(s, x \o y) = Reading(Reading(s, x), y)
    BY <1>0, ReadingConcat
  <2>5. (nodes \o M) \o M2 = nodes \o (M \o M2)
    BY <1>0, ConcatAssociative, SMTT(30)
  <2> QED BY <2>3, <2>4, <2>5
<1> QED BY <1>0, <1>1, <1>2 DEF Takes

\* A list of parts.
LEMMA TakesSpread ==
  ASSUME NEW S, NEW g \in [S -> String], NEW h \in [S -> Seq(Node)], NEW m, NEW p \in Path,
         \A e \in S : Takes(g[e], m, p, h[e]) /\ ~Continues(h[e], p)
  PROVE  \A x \in Seq(S) :
            Takes(Spread(g, x), m, p, Spread(h, x)) /\ ~Continues(Spread(h, x), p)
<1> DEFINE I == {x \in Seq(S) :
                   Takes(Spread(g, x), m, p, Spread(h, x)) /\ ~Continues(Spread(h, x), p)}
<1>1. <<>> \in I
  <2>1. ~Continues(<<>>, p)
    BY DEF Continues
  <2>2. Spread(g, <<>>) = <<>> /\ Spread(h, <<>>) = <<>>
    BY SpreadEmpty
  <2> QED BY <2>1, <2>2, TakesNothing
<1>2. ASSUME NEW x \in Seq(S), NEW e \in S, x \in I PROVE Append(x, e) \in I
  <2>1. Spread(g, Append(x, e)) = Spread(g, x) \o g[e]
    BY SpreadAppend DEF String
  <2>2. Spread(h, Append(x, e)) = Spread(h, x) \o h[e] /\ Spread(h, x) \in Seq(Node)
    BY SpreadAppend
  <2>3. Takes(Spread(g, x) \o g[e], m, p, Spread(h, x) \o h[e])
    BY <1>2, TakesConcat
  <2>4. ~Continues(Spread(h, x) \o h[e], p)
    BY <1>2, <2>2, ContinuesConcat
  <2>5. Append(x, e) \in Seq(S)
    OBVIOUS
  <2>6. /\ Takes(Spread(g, Append(x, e)), m, p, Spread(h, Append(x, e)))
        /\ ~Continues(Spread(h, Append(x, e)), p)
    BY <2>1, <2>2, <2>3, <2>4
  <2> QED BY <2>5, <2>6
<1>3. \A x \in Seq(S) : x \in I
  <2> HIDE DEF I
  <2> QED BY <1>1, <1>2, SeqInduction
<1> QED BY <1>3

\* A text, where no text precedes it.
TextNode(p, x) == IF x = <<>> THEN <<>> ELSE <<TextAt(p, x)>>

\* An escaped text is read as one text node, or as nothing if it is empty.
LEMMA TakesText ==
  ASSUME NEW p \in Path, NEW x \in String
  PROVE  Takes(esc(x), "text", p, TextNode(p, x))
<1>1. esc(x) \in String
  BY EscProperties
<1>2. TextNode(p, x) \in Seq(Node)
  <2>1. TextAt(p, x) \in Node
    BY DEF TextAt, Node
  <2> QED BY <2>1 DEF TextNode
<1>3. ASSUME NEW s, NEW nodes \in Seq(Node), IsAt(s, "text", p, nodes), ~Continues(nodes, p)
      PROVE  IsAt(Reading(s, esc(x)), "text", p, nodes \o TextNode(p, x))
  <2>1. IsAt(Reading(s, esc(x)), "text", p, Added(nodes, p, x))
    BY <1>3, ReadingText
  <2>2. Added(nodes, p, x) = nodes \o TextNode(p, x)
    <3>1. TextAt(p, x) \in Node
      BY DEF TextAt, Node
    <3>2. Append(nodes, TextAt(p, x)) = nodes \o <<TextAt(p, x)>> /\ nodes \o <<>> = nodes
      BY <3>1
    <3> QED BY <1>3, <3>2 DEF Added, TextNode
  <2> QED BY <2>1, <2>2
<1> QED BY <1>1, <1>2, <1>3 DEF Takes

\* An attribute, if it has a value.
AttrNode(p, name, value) ==
    IF value = <<>> THEN <<>> ELSE <<NodeAt("attribute", Append(p, name), value[1])>>

\* An attribute is read as one node with its value, an absent one as nothing
\* (twiml.rs:118-129).
LEMMA TakesAttr ==
  ASSUME NEW p \in Path, NEW name \in Name, NEW value \in Option(Text)
  PROVE  /\ Takes(OptAttr(name, value), "attributes", p, AttrNode(p, name, value))
         /\ ~Continues(AttrNode(p, name, value), p)
<1>1. CASE value = <<>>
  <2>1. OptAttr(name, value) = <<>> /\ AttrNode(p, name, value) = <<>>
    BY <1>1 DEF OptAttr, AttrNode
  <2> QED BY <2>1, TakesNothing DEF Continues
<1>2. CASE value # <<>>
  <2> DEFINE x == value[1]
             q == Append(p, name)
             n == NodeAt("attribute", q, x)
             open == <<" ", name, "=", "\"">>
             a == esc(x)
  <2>1. x \in String
    <3>1. value \in Seq(Text)
      BY DEF Option
    <3>2. x \in Text
      BY <1>2, <3>1
    <3> QED BY <3>2, TextIsString
  <2>2. q \in Path /\ q # p /\ Front(q) = p /\ name \in Lexeme
    BY FrontLast DEF Name
  <2> HIDE DEF x
  <2>3. n \in Node /\ NodeAt("attribute", q, <<>>) \in Node
    BY <2>1, <2>2 DEF NodeAt, Node, String
  <2>4. open \in Seq(Lexeme) /\ a \in Seq(Lexeme) /\ <<"\"">> \in Seq(Lexeme)
    <3>1. {" ", "=", "\""} \subseteq Lexeme
      BY DEF Lexeme
    <3>2. a \in Seq(Lexeme)
      BY <2>1, EscProperties DEF String
    <3>3. <<" ", name, "=", "\"">> \in Seq(Lexeme) /\ <<"\"">> \in Seq(Lexeme)
      <4>1. " " \in Lexeme /\ "=" \in Lexeme /\ "\"" \in Lexeme /\ name \in Lexeme
        BY <3>1, <2>2
      <4> QED BY <4>1, FewIsSeq
    <3> HIDE DEF a
    <3> QED BY <3>2, <3>3
  <2>5. OptAttr(name, value) = (open \o a) \o <<"\"">> /\ AttrNode(p, name, value) = <<n>>
    BY <1>2 DEF OptAttr, AttrNode, x
  <2> HIDE DEF open, a
  <2>6. open \o a \in Seq(Lexeme) /\ OptAttr(name, value) \in String /\ <<n>> \in Seq(Node)
    <3>1. open \o a \in Seq(Lexeme)
      BY <2>4, ConcatProperties
    <3>2. (open \o a) \o <<"\"">> \in Seq(Lexeme)
      BY <3>1, <2>4, ConcatProperties
    <3>3. OptAttr(name, value) \in String
      BY <3>2, <2>5 DEF String
    <3> HIDE DEF n
    <3>4. <<n>> \in Seq(Node)
      BY <2>3
    <3> QED BY <3>1, <3>3, <3>4
  <2>7. ASSUME NEW s, NEW nodes \in Seq(Node), IsAt(s, "attributes", p, nodes)
        PROVE  IsAt(Reading(s, OptAttr(name, value)), "attributes", p, nodes \o <<n>>)
    <3> DEFINE M == Append(nodes, NodeAt("attribute", q, <<>>))
    <3>0. M \in Seq(Node)
      BY <2>3
    <3>1. IsAt(Reading(s, open), "value", q, M)
      <4>1. IsAt(Feed(s, " "), "attributes", p, nodes)
        BY <2>7, FeedMarkup
      <4>2. IsAt(Feed(Feed(s, " "), name), "attributes", q, M)
        BY <4>1, FeedMarkup
      <4> HIDE DEF M, q
      <4>3. IsAt(Feed(Feed(Feed(s, " "), name), "="), "attributes", q, M)
        BY <4>2, FeedMarkup
      <4>4. IsAt(Feed(Feed(Feed(Feed(s, " "), name), "="), "\""), "value", q, M)
        BY <4>3, FeedMarkup
      <4> DEFINE sp == " "
                 eq == "="
                 quote == "\""
      <4>5. open = <<sp, name, eq, quote>>
        BY DEF open
      <4>6. IsAt(Feed(Feed(Feed(Feed(s, sp), name), eq), quote), "value", q, M)
        BY <4>4
      <4> HIDE DEF sp, eq, quote
      <4>7. Reading(s, <<sp, name, eq, quote>>) = Feed(Feed(Feed(Feed(s, sp), name), eq), quote)
        BY ReadingFour
      <4> QED BY <4>5, <4>6, <4>7
    <3>2. Added(M, q, x) = nodes \o <<n>>
      <4>1. Len(M) = Len(nodes) + 1 /\ M[Len(nodes) + 1] = NodeAt("attribute", q, <<>>)
            /\ Len(nodes) \in Nat
        BY <2>3, AppendProperties
      <4>2. Continues(M, q)
        BY <4>1, <2>3 DEF Continues, NodeAt
      <4>3. <<>> \o x = x
        BY <2>1 DEF String
      <4>4. x # <<>> => Added(M, q, x) = [M EXCEPT ![Len(nodes) + 1] = n]
        <5>1. NodeAt("attribute", q, <<>>).kind = "attribute"
              /\ NodeAt("attribute", q, <<>>).text = <<>>
          BY DEF NodeAt
        <5> HIDE DEF M
        <5> QED BY <4>1, <4>2, <4>3, <5>1 DEF Added, NodeAt
      <4>5. [M EXCEPT ![Len(nodes) + 1] = n] = nodes \o <<n>>
        <5>1. /\ [M EXCEPT ![Len(nodes) + 1] = n] \in Seq(Node)
              /\ Len([M EXCEPT ![Len(nodes) + 1] = n]) = Len(nodes) + 1
              /\ \A i \in 1..(Len(nodes) + 1) : [M EXCEPT ![Len(nodes) + 1] = n][i]
                    = IF i = Len(nodes) + 1 THEN n ELSE M[i]
          <6>1. Len(nodes) + 1 \in 1..Len(M)
            BY <4>1
          <6> HIDE DEF M, n
          <6> QED BY <3>0, <4>1, <6>1, <2>3, ExceptSeq
        <5>2. \A i \in 1..Len(nodes) : M[i] = nodes[i]
          BY <2>3, AppendProperties
        <5>3. nodes \o <<n>> \in Seq(Node) /\ Len(nodes \o <<n>>) = Len(nodes) + 1
              /\ \A i \in 1..(Len(nodes) + 1) : (nodes \o <<n>>)[i]
                    = IF i = Len(nodes) + 1 THEN n ELSE nodes[i]
          <6> HIDE DEF n
          <6> QED BY <2>3
        <5> HIDE DEF M, n
        <5> QED BY <5>1, <5>2, <5>3, <4>1, SeqEqual
      <4>6. x = <<>> => M = nodes \o <<n>>
        <5>1. Append(nodes, n) = nodes \o <<n>>
          <6> HIDE DEF n
          <6> QED BY <2>3
        <5> QED BY <5>1
      <4>7. x = <<>> => Added(M, q, x) = M
        BY DEF Added
      <4> HIDE DEF M, n
      <4> QED BY <4>4, <4>5, <4>6, <4>7
    <3> HIDE DEF M
    <3>3. IsAt(Reading(Reading(s, open), a), "value", q, nodes \o <<n>>)
      <4>1. IsAt(Reading(Reading(s, open), esc(x)), "value", q, Added(M, q, x))
        BY <2>1, <2>2, <3>0, <3>1, ReadingText
      <4> QED BY <4>1, <3>2 DEF a
    <3>4. IsAt(Feed(Reading(Reading(s, open), a), "\""), "attributes", p, nodes \o <<n>>)
      <4> HIDE DEF q, n
      <4> QED BY <3>3, <2>2, FeedMarkup
    <3>5. Reading(s, (open \o a) \o <<"\"">>) = Feed(Reading(Reading(s, open), a), "\"")
      <4>1. \A r : \A y, z \in Seq(Lexeme) : Reading(r, y \o z) = Reading(Reading(r, y), z)
        BY ReadingConcat
      <4>2. open \o a \in Seq(Lexeme)
        BY <2>6
      <4>3. Reading(s, (open \o a) \o <<"\"">>) = Reading(Reading(s, open \o a), <<"\"">>)
        BY <4>1, <4>2, <2>4
      <4>4. Reading(s, open \o a) = Reading(Reading(s, open), a)
        BY <4>1, <2>4
      <4> QED BY <4>3, <4>4, ReadingOne
    <3> QED BY <3>4, <3>5, <2>5
  <2>8. ~Continues(<<n>>, p)
    BY <2>2 DEF Continues, NodeAt
  <2> HIDE DEF q, n
  <2> QED BY <2>5, <2>6, <2>7, <2>8 DEF Takes
<1> QED BY <1>1, <1>2

-----------------------------------------------------------------------------
(* Elements. *)

\* The tokens of markup that an element begins and ends with.
LEMMA MarkupTokens ==
  ASSUME NEW s, NEW name \in Lexeme
  PROVE  /\ <<"<", name>> \in Seq(Lexeme) /\ <<">">> \in Seq(Lexeme)
         /\ <<"/", ">">> \in Seq(Lexeme) /\ <<"<", "/", name, ">">> \in Seq(Lexeme)
         /\ Reading(s, <<"<", name>>) = Feed(Feed(s, "<"), name)
         /\ Reading(s, <<">">>) = Feed(s, ">")
         /\ Reading(s, <<"/", ">">>) = Feed(Feed(s, "/"), ">")
         /\ Reading(s, <<"<", "/", name, ">">>) = Feed(Feed(Feed(Feed(s, "<"), "/"), name), ">")
<1> DEFINE lt == "<"
           gt == ">"
           slash == "/"
<1>1. lt \in Lexeme /\ gt \in Lexeme /\ slash \in Lexeme
  BY DEF Lexeme
<1> HIDE DEF lt, gt, slash
<1>2. /\ <<lt, name>> \in Seq(Lexeme) /\ <<gt>> \in Seq(Lexeme)
      /\ <<slash, gt>> \in Seq(Lexeme) /\ <<lt, slash, name, gt>> \in Seq(Lexeme)
  BY <1>1, FewIsSeq
<1>3. /\ Reading(s, <<lt, name>>) = Feed(Feed(s, lt), name)
      /\ Reading(s, <<gt>>) = Feed(s, gt)
      /\ Reading(s, <<slash, gt>>) = Feed(Feed(s, slash), gt)
  BY ReadingOne, ReadingTwo
<1>4. Reading(s, <<lt, slash, name, gt>>) = Feed(Feed(Feed(Feed(s, lt), slash), name), gt)
  BY ReadingFour
<1> QED BY <1>2, <1>3, <1>4 DEF lt, gt, slash

\* After an opening tag and its attributes the reader is at the element,
\* among attributes, and has their nodes.
LEMMA ReadingOpened ==
  ASSUME NEW p \in Path, NEW name \in Name, NEW attrs, NEW A, ~Continues(A, Append(p, name)),
         Takes(attrs, "attributes", Append(p, name), A),
         NEW s, NEW nodes \in Seq(Node), IsAt(s, "text", p, nodes)
  PROVE  LET open == <<NodeAt("open", Append(p, name), <<>>)>>
         IN  /\ IsAt(Reading(s, <<"<", name>> \o attrs), "attributes", Append(p, name),
                     (nodes \o open) \o A)
             /\ (nodes \o open) \o A \in Seq(Node)
             /\ ~Continues((nodes \o open) \o A, Append(p, name))
<1> DEFINE q == Append(p, name)
           n == NodeAt("open", q, <<>>)
           M == nodes \o <<n>>
<1>1. q \in Path /\ name \in Lexeme
  BY FrontLast DEF Name
<1>2. n \in Node
  BY <1>1 DEF NodeAt, Node, String
<1>3. M = Append(nodes, n) /\ M \in Seq(Node) /\ M[Len(M)] = n
  <2> HIDE DEF n
  <2> QED BY <1>2
<1>4. ~Continues(M, q)
  <2>1. n.kind = "open"
    BY DEF NodeAt
  <2> HIDE DEF M, n
  <2> QED BY <2>1, <1>3 DEF Continues
<1>5. IsAt(Feed(s, "<"), "tag", p, nodes)
  BY FeedMarkup
<1>6. IsAt(Feed(Feed(s, "<"), name), "attributes", q, M)
  <2>1. IsAt(Feed(Feed(s, "<"), name), "attributes", Append(p, name),
             Append(nodes, NodeAt("open", Append(p, name), <<>>)))
    BY <1>5, FeedMarkup
  <2> QED BY <2>1, <1>3
<1> HIDE DEF M
<1>7. IsAt(Reading(Feed(Feed(s, "<"), name), attrs), "attributes", q, M \o A)
  BY <1>3, <1>4, <1>6, TakesUse
<1>8. A \in Seq(Node) /\ attrs \in Seq(Lexeme)
  BY DEF Takes, String
<1>9. M \o A \in Seq(Node) /\ ~Continues(M \o A, q)
  <2> HIDE DEF q
  <2>1. ~Continues(A, q)
    BY DEF q
  <2> QED BY <1>3, <1>4, <1>8, <2>1, ContinuesConcat, ConcatProperties
<1>10. Reading(s, <<"<", name>> \o attrs) = Reading(Feed(Feed(s, "<"), name), attrs)
  <2>1. Reading(s, <<"<", name>> \o attrs) = Reading(Reading(s, <<"<", name>>), attrs)
    <3> DEFINE start == <<"<", name>>
    <3>1. start \in Seq(Lexeme)
      BY <1>1, MarkupTokens
    <3> HIDE DEF start
    <3>2. Reading(s, start \o attrs) = Reading(Reading(s, start), attrs)
      BY <1>8, <3>1, ReadingConcat
    <3> QED BY <3>2 DEF start
  <2> QED BY <2>1, <1>1, MarkupTokens
<1> QED BY <1>7, <1>9, <1>10 DEF M

\* An element is read as its opening, its attributes and its content, and the
\* reader is where it was.
LEMMA TakesElement ==
  ASSUME NEW p \in Path, NEW name \in Name, NEW attrs, NEW A, ~Continues(A, Append(p, name)),
         Takes(attrs, "attributes", Append(p, name), A),
         NEW content, NEW C, Takes(content, "text", Append(p, name), C)
  PROVE  Takes(Element(name, attrs, content), "text", p,
               <<NodeAt("open", Append(p, name), <<>>)>> \o (A \o C))
<1> DEFINE q == Append(p, name)
           open == <<NodeAt("open", q, <<>>)>>
           x1 == <<"<", name>>
           x2 == <<">">>
           x3 == <<"<", "/", name, ">">>
<1>1. q \in Path /\ q # <<>> /\ Front(q) = p /\ Last(q) = name /\ name \in Lexeme
  BY FrontLast DEF Name
<1>2. open \in Seq(Node)
  <2>1. NodeAt("open", q, <<>>) \in Node
    BY <1>1 DEF NodeAt, Node, String
  <2> QED BY <2>1, FewIsSeq
<1>3. x1 \in Seq(Lexeme) /\ x2 \in Seq(Lexeme) /\ x3 \in Seq(Lexeme)
  BY <1>1, MarkupTokens
<1>4. A \in Seq(Node) /\ C \in Seq(Node) /\ attrs \in Seq(Lexeme) /\ content \in Seq(Lexeme)
  BY DEF Takes, String
<1>5. Element(name, attrs, content) = (((x1 \o attrs) \o x2) \o content) \o x3
  BY DEF Element
<1> HIDE DEF open, x1, x2, x3
<1>6. /\ x1 \o attrs \in Seq(Lexeme) /\ (x1 \o attrs) \o x2 \in Seq(Lexeme)
      /\ ((x1 \o attrs) \o x2) \o content \in Seq(Lexeme)
      /\ (((x1 \o attrs) \o x2) \o content) \o x3 \in Seq(Lexeme)
      /\ A \o C \in Seq(Node) /\ open \o (A \o C) \in Seq(Node)
  <2>1. x1 \o attrs \in Seq(Lexeme)
    BY <1>3, <1>4, ConcatProperties
  <2>2. (x1 \o attrs) \o x2 \in Seq(Lexeme)
    BY <2>1, <1>3, ConcatProperties
  <2>3. ((x1 \o attrs) \o x2) \o content \in Seq(Lexeme)
    BY <2>2, <1>4, ConcatProperties
  <2>4. (((x1 \o attrs) \o x2) \o content) \o x3 \in Seq(Lexeme)
    BY <2>3, <1>3, ConcatProperties
  <2>5. A \o C \in Seq(Node) /\ open \o (A \o C) \in Seq(Node)
    BY <1>2, <1>4, ConcatProperties
  <2> QED BY <2>1, <2>2, <2>3, <2>4, <2>5
<1>7. ASSUME NEW s, NEW nodes \in Seq(Node), IsAt(s, "text", p, nodes)
      PROVE  IsAt(Reading(s, Element(name, attrs, content)), "text", p, nodes \o (open \o (A \o C)))
  <2> DEFINE s1 == Reading(s, x1 \o attrs)
             M1 == (nodes \o open) \o A
             s2 == Reading(s1, x2)
             s3 == Reading(s2, content)
             M3 == M1 \o C
             s4 == Reading(s3, x3)
  <2>1. IsAt(s1, "attributes", q, M1) /\ M1 \in Seq(Node) /\ ~Continues(M1, q)
    BY <1>7, ReadingOpened DEF open, x1
  <2> HIDE DEF s1, M1, q
  <2>2. IsAt(s2, "text", q, M1)
    <3>1. Reading(s1, x2) = Feed(s1, ">")
      BY ReadingOne DEF x2
    <3> QED BY <2>1, <3>1, FeedMarkup
  <2> HIDE DEF s2
  <2>3. IsAt(s3, "text", q, M3)
    BY <2>1, <2>2, TakesUse DEF q
  <2> HIDE DEF s3, M3
  <2>4. IsAt(s4, "text", p, M3)
    <3>1. IsAt(Feed(s3, "<"), "tag", q, M3)
      BY <2>3, FeedMarkup
    <3>2. IsAt(Feed(Feed(s3, "<"), "/"), "close", q, M3)
      BY <3>1, FeedMarkup
    <3>3. IsAt(Feed(Feed(Feed(s3, "<"), "/"), name), "end", p, M3)
      BY <3>2, <1>1, FeedMarkup
    <3>4. IsAt(Feed(Feed(Feed(Feed(s3, "<"), "/"), name), ">"), "text", p, M3)
      BY <3>3, FeedMarkup
    <3> QED BY <3>4, <1>1, MarkupTokens DEF x3
  <2>5. Reading(s, Element(name, attrs, content)) = s4
    <3>1. \A r : \A y, z \in Seq(Lexeme) : Reading(r, y \o z) = Reading(Reading(r, y), z)
      BY ReadingConcat
    <3>2. Reading(s, (x1 \o attrs) \o x2) = s2
      BY <3>1, <1>3, <1>6 DEF s1, s2
    <3>3. Reading(s, ((x1 \o attrs) \o x2) \o content) = s3
      BY <3>1, <3>2, <1>4, <1>6 DEF s3
    <3>4. Reading(s, (((x1 \o attrs) \o x2) \o content) \o x3) = s4
      BY <3>1, <3>3, <1>3, <1>6, ZenonT(30)
    <3> QED BY <3>4, <1>5
  <2>6. M3 = nodes \o (open \o (A \o C))
    <3>1. (nodes \o open) \o A = nodes \o (open \o A)
      BY <1>2, <1>4, ConcatAssociative, SMTT(30)
    <3>2. open \o A \in Seq(Node)
      BY <1>2, <1>4, ConcatProperties
    <3>3. (nodes \o (open \o A)) \o C = nodes \o ((open \o A) \o C)
      <4> DEFINE oa == open \o A
      <4>1. oa \in Seq(Node)
        BY <3>2
      <4> HIDE DEF oa
      <4>2. (nodes \o oa) \o C = nodes \o (oa \o C)
        BY <4>1, <1>4, ConcatAssociative
      <4> QED BY <4>2 DEF oa
    <3>4. (open \o A) \o C = open \o (A \o C)
      BY <1>2, <1>4, ConcatAssociative
    <3> QED BY <3>1, <3>3, <3>4 DEF M3, M1
  <2> QED BY <2>4, <2>5, <2>6
<1>8. Element(name, attrs, content) \in String
  BY <1>5, <1>6 DEF String
<1> HIDE DEF q
<1>9. Takes(Element(name, attrs, content), "text", p, open \o (A \o C))
  BY <1>6, <1>7, <1>8 DEF Takes
<1> QED BY <1>9 DEF open, q

\* An element without content is read as its opening and its attributes.
LEMMA TakesEmptyElement ==
  ASSUME NEW p \in Path, NEW name \in Name, NEW attrs, NEW A, ~Continues(A, Append(p, name)),
         Takes(attrs, "attributes", Append(p, name), A)
  PROVE  Takes(EmptyElement(name, attrs), "text", p,
               <<NodeAt("open", Append(p, name), <<>>)>> \o A)
<1> DEFINE q == Append(p, name)
           open == <<NodeAt("open", q, <<>>)>>
           x1 == <<"<", name>>
           x2 == <<"/", ">">>
<1>1. q \in Path /\ q # <<>> /\ Front(q) = p /\ name \in Lexeme
  BY FrontLast DEF Name
<1>2. open \in Seq(Node)
  <2>1. NodeAt("open", q, <<>>) \in Node
    BY <1>1 DEF NodeAt, Node, String
  <2> QED BY <2>1, FewIsSeq
<1>3. x1 \in Seq(Lexeme) /\ x2 \in Seq(Lexeme)
  BY <1>1, MarkupTokens
<1>4. A \in Seq(Node) /\ attrs \in Seq(Lexeme)
  BY DEF Takes, String
<1>5. EmptyElement(name, attrs) = (x1 \o attrs) \o x2
  BY DEF EmptyElement
<1> HIDE DEF open, x1, x2
<1>6. x1 \o attrs \in Seq(Lexeme) /\ (x1 \o attrs) \o x2 \in Seq(Lexeme) /\ open \o A \in Seq(Node)
  BY <1>2, <1>3, <1>4, ConcatProperties
<1>7. ASSUME NEW s, NEW nodes \in Seq(Node), IsAt(s, "text", p, nodes)
      PROVE  IsAt(Reading(s, EmptyElement(name, attrs)), "text", p, nodes \o (open \o A))
  <2> DEFINE s1 == Reading(s, x1 \o attrs)
             M1 == (nodes \o open) \o A
  <2>1. IsAt(s1, "attributes", q, M1)
    BY <1>7, ReadingOpened DEF open, x1
  <2> HIDE DEF s1, M1, q
  <2>2. IsAt(Feed(s1, "/"), "end", p, M1)
    BY <2>1, <1>1, FeedMarkup
  <2>3. IsAt(Feed(Feed(s1, "/"), ">"), "text", p, M1)
    BY <2>2, FeedMarkup
  <2>4. Reading(s1, x2) = Feed(Feed(s1, "/"), ">")
    BY <1>1, MarkupTokens DEF x2
  <2>5. Reading(s, EmptyElement(name, attrs)) = Reading(s1, x2)
    <3>1. Reading(s, (x1 \o attrs) \o x2) = Reading(Reading(s, x1 \o attrs), x2)
      <4>1. \A r : \A y, z \in Seq(Lexeme) : Reading(r, y \o z) = Reading(Reading(r, y), z)
        BY ReadingConcat
      <4> QED BY <1>3, <1>6, <4>1
    <3> QED BY <3>1, <1>5 DEF s1
  <2>6. M1 = nodes \o (open \o A)
    BY <1>2, <1>4, ConcatAssociative DEF M1
  <2> QED BY <2>3, <2>4, <2>5, <2>6
<1>8. EmptyElement(name, attrs) \in String
  BY <1>5, <1>6 DEF String
<1> HIDE DEF q
<1>9. Takes(EmptyElement(name, attrs), "text", p, open \o A)
  BY <1>6, <1>7, <1>8 DEF Takes
<1> QED BY <1>9 DEF open, q

-----------------------------------------------------------------------------
(* Recursion on how deep <Gather>s nest. *)

\* The recursive function in Nest, up to n deep.
HasNest(leaves, n) ==
    \E f : f = [d \in 0..n |-> leaves \union IF d = 0 THEN {} ELSE Gathers(f[d - 1])]

\* The recursive function in Nest exists.
LEMMA NestRec ==
  ASSUME NEW leaves, NEW n \in Nat
  PROVE  HasNest(leaves, n)
<1> DEFINE T == {k \in Nat : HasNest(leaves, k)}
<1>1. HasNest(leaves, 0)
  <2> DEFINE f == [d \in 0..0 |-> leaves \union {}]
  <2>1. f = [d \in 0..0 |-> leaves \union IF d = 0 THEN {} ELSE Gathers(f[d - 1])]
    OBVIOUS
  <2> HIDE DEF f
  <2> QED BY <2>1 DEF HasNest
<1>2. ASSUME NEW k \in Nat, HasNest(leaves, k) PROVE HasNest(leaves, k + 1)
  <2>1. PICK f : f = [d \in 0..k |-> leaves \union IF d = 0 THEN {} ELSE Gathers(f[d - 1])]
    BY <1>2 DEF HasNest
  <2> DEFINE g == [d \in 0..(k + 1) |->
                     IF d <= k THEN f[d] ELSE leaves \union IF d = 0 THEN {} ELSE Gathers(f[d - 1])]
  <2>2. ASSUME NEW d \in 0..(k + 1)
        PROVE  g[d] = leaves \union IF d = 0 THEN {} ELSE Gathers(g[d - 1])
    <3>1. CASE d <= k
      <4>1. f[d] = leaves \union IF d = 0 THEN {} ELSE Gathers(f[d - 1])
        <5> HIDE DEF g
        <5>1. d \in 0..k
          BY <3>1
        <5> QED BY <2>1, <5>1
      <4>2. d # 0 => g[d - 1] = f[d - 1]
        BY <3>1
      <4>3. g[d] = f[d]
        BY <3>1
      <4> HIDE DEF g
      <4> QED BY <4>1, <4>2, <4>3
    <3>2. CASE d = k + 1
      <4>1. g[d] = leaves \union Gathers(f[d - 1]) /\ g[d - 1] = f[d - 1] /\ d # 0
        BY <3>2
      <4> HIDE DEF g
      <4> QED BY <4>1
    <3> QED BY <3>1, <3>2
  <2>3. g = [d \in 0..(k + 1) |-> leaves \union IF d = 0 THEN {} ELSE Gathers(g[d - 1])]
    <3>1. g = [d \in 0..(k + 1) |-> g[d]]
      OBVIOUS
    <3> HIDE DEF g
    <3> QED BY <2>2, <3>1
  <2> HIDE DEF g
  <2> QED BY <2>3 DEF HasNest
<1>3. \A k \in Nat : k \in T
  <2>1. 0 \in T /\ \A k \in Nat : k \in T => k + 1 \in T
    BY <1>1, <1>2
  <2> HIDE DEF T
  <2> QED BY <2>1, SetInduction
<1> QED BY <1>3

\* What nests up to d deep, from what nests less deep.
LEMMA NestUnfold ==
  ASSUME NEW leaves
  PROVE  \A d \in 0..MAX_NESTING :
            Nest(leaves)[d] = leaves \union IF d = 0 THEN {} ELSE Gathers(Nest(leaves)[d - 1])
<1> DEFINE f == CHOOSE g : g = [d \in 0..MAX_NESTING |->
                                  leaves \union IF d = 0 THEN {} ELSE Gathers(g[d - 1])]
<1>1. f = [d \in 0..MAX_NESTING |-> leaves \union IF d = 0 THEN {} ELSE Gathers(f[d - 1])]
  <2>1. HasNest(leaves, MAX_NESTING)
    BY NestingAssumption, NestRec DEF NestingAssumption
  <2>2. PICK g : g = [d \in 0..MAX_NESTING |-> leaves \union IF d = 0 THEN {} ELSE Gathers(g[d - 1])]
    BY <2>1 DEF HasNest
  <2> QED BY <2>2
<1>2. Nest(leaves) = f
  BY DEF Nest
<1> HIDE DEF f
<1> QED BY <1>1, <1>2

\* What a verb is rendered to, given how less deep ones are.
RenderedBy(h, v) ==
    RenderVerb(v, IF v.verb = "gather"
                  THEN FlattenSeq([i \in DOMAIN v.nested |-> h[v.nested[i]]]) ELSE <<>>)

\* The recursive function Rendered, up to n deep.
HasRendered(n) == \E f : f = [d \in 0..n |-> [v \in Verbs[d] |-> RenderedBy(f[d - 1], v)]]

\* The recursive function Rendered exists.
LEMMA RenderedRec ==
  ASSUME NEW n \in Nat, n <= MAX_NESTING
  PROVE  HasRendered(n)
<1> DEFINE T == {k \in Nat : k <= MAX_NESTING => HasRendered(k)}
<1>a. MAX_NESTING \in Nat
  BY NestingAssumption DEF NestingAssumption
<1>c. ASSUME NEW h, NEW v, v.verb # "gather" PROVE RenderedBy(h, v) = RenderVerb(v, <<>>)
  BY <1>c DEF RenderedBy
<1>b. \A v \in Verbs[0] : v.verb # "gather"
  <2>1. Verbs[0] = Leaf
    <3>1. 0 \in 0..MAX_NESTING
      BY <1>a
    <3>2. Nest(Leaf)[0] = Leaf \union IF 0 = 0 THEN {} ELSE Gathers(Nest(Leaf)[0 - 1])
      BY <3>1, NestUnfold, Zenon
    <3> QED BY <3>2 DEF Verbs
  <2> QED BY <2>1 DEF Leaf
<1>1. HasRendered(0)
  <2> DEFINE f == [d \in 0..0 |-> [v \in Verbs[d] |-> RenderVerb(v, <<>>)]]
  <2>1. ASSUME NEW g, NEW v \in Verbs[0] PROVE RenderedBy(g[0 - 1], v) = RenderVerb(v, <<>>)
    BY <1>b DEF RenderedBy
  <2>2. [v \in Verbs[0] |-> RenderVerb(v, <<>>)] = [v \in Verbs[0] |-> RenderedBy(f[0 - 1], v)]
    BY <2>1
  <2>3. f = [d \in 0..0 |-> [v \in Verbs[d] |-> RenderedBy(f[d - 1], v)]]
    <3>1. \A d \in 0..0 : d = 0
      OBVIOUS
    <3>2. \A d \in 0..0 : [v \in Verbs[d] |-> RenderVerb(v, <<>>)]
                            = [v \in Verbs[d] |-> RenderedBy(f[d - 1], v)]
      BY <2>2, <3>1
    <3> QED BY <3>2
  <2> HIDE DEF f
  <2> QED BY <2>3 DEF HasRendered
<1>2. ASSUME NEW k \in Nat, HasRendered(k) PROVE HasRendered(k + 1)
  <2>1. PICK f : f = [d \in 0..k |-> [v \in Verbs[d] |-> RenderedBy(f[d - 1], v)]]
    BY <1>2 DEF HasRendered
  <2> DEFINE g == [d \in 0..(k + 1) |->
                     IF d <= k THEN f[d] ELSE [v \in Verbs[d] |-> RenderedBy(f[d - 1], v)]]
  <2>b. \A d \in 0..k : [v \in Verbs[d] |-> RenderedBy(f[d - 1], v)]
                            = [v \in Verbs[d] |-> RenderedBy(g[d - 1], v)]
    <3>1. ASSUME NEW d \in 0..k, NEW v \in Verbs[d]
          PROVE  RenderedBy(f[d - 1], v) = RenderedBy(g[d - 1], v)
      <4>1. CASE d = 0
        <5>1. v.verb # "gather"
          BY <4>1, <1>b
        <5> HIDE DEF g
        <5>2. \A h : RenderedBy(h, v) = RenderVerb(v, <<>>)
          BY <5>1, <1>c
        <5> QED BY <5>2
      <4>2. CASE d # 0
        <5>1. f[d - 1] = g[d - 1]
          BY <4>2
        <5> HIDE DEF g
        <5> QED BY <5>1
      <4> QED BY <4>1, <4>2
    <3> HIDE DEF g
    <3> QED BY <3>1
  <2>2. ASSUME NEW d \in 0..(k + 1) PROVE g[d] = [v \in Verbs[d] |-> RenderedBy(g[d - 1], v)]
    <3>1. CASE d <= k
      <4>1. d \in 0..k /\ g[d] = f[d]
        BY <3>1
      <4> HIDE DEF g
      <4> QED BY <2>1, <2>b, <4>1
    <3>2. CASE d = k + 1
      <4>1. g[d] = [v \in Verbs[d] |-> RenderedBy(f[d - 1], v)] /\ g[d - 1] = f[d - 1]
        BY <3>2
      <4> HIDE DEF g
      <4> QED BY <4>1
    <3> QED BY <3>1, <3>2
  <2>3. g = [d \in 0..(k + 1) |-> [v \in Verbs[d] |-> RenderedBy(g[d - 1], v)]]
    <3>1. g = [d \in 0..(k + 1) |-> g[d]]
      OBVIOUS
    <3> HIDE DEF g
    <3> QED BY <2>2, <3>1
  <2> HIDE DEF g
  <2> QED BY <2>3 DEF HasRendered
<1>3. \A k \in Nat : k \in T
  <2>1. 0 \in T /\ \A k \in Nat : k \in T => k + 1 \in T
    BY <1>1, <1>2, <1>a
  <2> HIDE DEF T
  <2> QED BY <2>1, SetInduction
<1> QED BY <1>3

\* What a verb is rendered to, from what its nested verbs are rendered to.
LEMMA RenderedUnfold ==
  ASSUME NEW d \in 0..MAX_NESTING
  PROVE  /\ Rendered[d] = [v \in Verbs[d] |-> Rendered[d][v]]
         /\ \A v \in Verbs[d] :
              Rendered[d][v] = RenderVerb(v, IF v.verb = "gather"
                                             THEN Spread(Rendered[d - 1], v.nested) ELSE <<>>)
<1> DEFINE f == CHOOSE g : g = [k \in 0..MAX_NESTING |-> [v \in Verbs[k] |-> RenderedBy(g[k - 1], v)]]
<1>1. f = [k \in 0..MAX_NESTING |-> [v \in Verbs[k] |-> RenderedBy(f[k - 1], v)]]
  <2>1. MAX_NESTING \in Nat /\ HasRendered(MAX_NESTING)
    BY NestingAssumption, RenderedRec DEF NestingAssumption
  <2>2. PICK g : g = [k \in 0..MAX_NESTING |-> [v \in Verbs[k] |-> RenderedBy(g[k - 1], v)]]
    BY <2>1 DEF HasRendered
  <2> QED BY <2>2
<1>2. Rendered = f
  BY DEF Rendered, RenderedBy
<1> HIDE DEF f
<1>3. Rendered[d] = [v \in Verbs[d] |-> RenderedBy(Rendered[d - 1], v)]
  BY <1>1, <1>2
<1>4. \A v \in Verbs[d] : Rendered[d][v] = RenderedBy(Rendered[d - 1], v)
  BY <1>3
<1>5. Rendered[d] = [v \in Verbs[d] |-> Rendered[d][v]]
  BY <1>3
<1> QED BY <1>4, <1>5 DEF RenderedBy, Spread

-----------------------------------------------------------------------------
(* What the reader meets of a verb: its element, the attributes, and then   *)
(* what is inside of it.                                                    *)

\* q is p, or below it.
Extends(q, p) == Len(q) >= Len(p) /\ \A j \in 1..Len(p) : q[j] = p[j]

\* Nodes below the element at q, or texts in it.
Inside(M, q) ==
    /\ M \in Seq(Node)
    /\ \A i \in DOMAIN M : /\ Extends(M[i].path, q)
                           /\ Len(M[i].path) > Len(q) \/ M[i].kind = "text"

\* What an element below p named name opens with.
Open(p, name) == <<NodeAt("open", Append(p, name), <<>>)>>

\* The nodes of one element below p.
Block(M, p, name) == \E R : Inside(R, Append(p, name)) /\ M = Open(p, name) \o R

\* x is read as the attributes A of the element at q.
OkAttrs(x, q, A) == Takes(x, "attributes", q, A) /\ ~Continues(A, q) /\ Inside(A, q)

\* x is read as the content C of the element at q.
OkContent(x, q, C) == Takes(x, "text", q, C) /\ Inside(C, q)

\* x is read as one element below p, whose nodes are M.
OkElement(x, p, name, M) == Takes(x, "text", p, M) /\ Block(M, p, name) /\ ~Continues(M, p)

\* No nodes are inside of any element.
LEMMA InsideEmpty == \A q : Inside(<<>>, q)
  BY DEF Inside

\* Nodes inside of an element, one part after the other, are inside of it.
LEMMA InsideConcat ==
  ASSUME NEW q, NEW A, NEW B, Inside(A, q), Inside(B, q)
  PROVE  Inside(A \o B, q)
<1>1. A \in Seq(Node) /\ B \in Seq(Node)
  BY DEF Inside
<1>2. A \o B \in Seq(Node)
  BY <1>1, ConcatProperties
<1>3. ASSUME NEW i \in DOMAIN (A \o B)
      PROVE  \/ \E j \in DOMAIN A : (A \o B)[i] = A[j]
             \/ \E j \in DOMAIN B : (A \o B)[i] = B[j]
  <2>1. i \in 1..(Len(A) + Len(B)) /\ Len(A) \in Nat /\ Len(B) \in Nat
    BY <1>1
  <2>2. CASE i <= Len(A)
    <3>1. i \in DOMAIN A /\ (A \o B)[i] = A[i]
      BY <2>1, <2>2, <1>1
    <3> QED BY <3>1
  <2>3. CASE i > Len(A)
    <3>1. i - Len(A) \in DOMAIN B /\ (A \o B)[i] = B[i - Len(A)]
      BY <2>1, <2>3, <1>1
    <3> QED BY <3>1
  <2> QED BY <2>1, <2>2, <2>3
<1>4. \A i \in DOMAIN (A \o B) :
          /\ Extends((A \o B)[i].path, q)
          /\ Len((A \o B)[i].path) > Len(q) \/ (A \o B)[i].kind = "text"
  BY <1>3 DEF Inside
<1> QED BY <1>2, <1>4 DEF Inside

\* One node is inside of an element if it is below it or a text in it.
LEMMA InsideOne ==
  ASSUME NEW q, NEW n \in Node, Extends(n.path, q), Len(n.path) > Len(q) \/ n.kind = "text"
  PROVE  Inside(<<n>>, q)
<1>1. <<n>> \in Seq(Node) /\ \A i \in DOMAIN <<n>> : <<n>>[i] = n
  OBVIOUS
<1> QED BY <1>1 DEF Inside

\* A path with a name appended is below it, and so is what extends that.
LEMMA ExtendsAppend ==
  ASSUME NEW p \in Path, NEW name \in Lexeme
  PROVE  /\ Extends(p, p) /\ Extends(Append(p, name), p) /\ Len(Append(p, name)) = Len(p) + 1
         /\ Len(p) \in Nat /\ Append(p, name) \in Path
         /\ \A r \in Path : Extends(r, Append(p, name)) => Extends(r, p) /\ Len(r) > Len(p)
<1> DEFINE q == Append(p, name)
<1>1. Len(q) = Len(p) + 1 /\ Len(p) \in Nat /\ q \in Path /\ \A j \in 1..Len(p) : q[j] = p[j]
  BY AppendProperties DEF Path
<1>2. \A r \in Path : Len(r) \in Nat
  BY DEF Path
<1> HIDE DEF q
<1>3. Extends(p, p) /\ Extends(q, p)
  BY <1>1 DEF Extends
<1>4. ASSUME NEW r \in Path, Extends(r, q) PROVE Extends(r, p) /\ Len(r) > Len(p)
  BY <1>1, <1>2, <1>4 DEF Extends
<1> QED BY <1>1, <1>3, <1>4 DEF q

\* What is inside of an element below q is below q.
LEMMA BlockInside ==
  ASSUME NEW p \in Path, NEW name \in Lexeme, NEW M, Block(M, p, name)
  PROVE  /\ Inside(M, p) /\ M \in Seq(Node) /\ M # <<>> /\ ~Continues(M, p)
         /\ \A i \in DOMAIN M : Extends(M[i].path, Append(p, name)) /\ Len(M[i].path) > Len(p)
<1> DEFINE q == Append(p, name)
           n == NodeAt("open", q, <<>>)
<1>1. PICK R : Inside(R, q) /\ M = Open(p, name) \o R
  BY DEF Block
<1>2. q \in Path /\ Extends(q, q) /\ Len(q) = Len(p) + 1 /\ Len(p) \in Nat
      /\ \A r \in Path : Extends(r, q) => Extends(r, p) /\ Len(r) > Len(p)
  <2>1. q \in Path
    BY ExtendsAppend
  <2>2. \A z \in Path : Extends(z, z)
    BY ExtendsAppend
  <2> QED BY <2>1, <2>2, ExtendsAppend
<1> HIDE DEF q
<1>3. n \in Node /\ n.path = q
  BY <1>2 DEF NodeAt, Node, String
<1>4. Open(p, name) = <<n>>
  BY DEF Open, q
<1> HIDE DEF n
<1>5. R \in Seq(Node) /\ <<n>> \in Seq(Node)
  BY <1>1, <1>3 DEF Inside
<1>6. M \in Seq(Node) /\ Len(M) = 1 + Len(R) /\ Len(R) \in Nat
  BY <1>1, <1>4, <1>5, ConcatProperties
<1>7. ASSUME NEW i \in DOMAIN M
      PROVE  M[i] \in Node /\ Extends(M[i].path, q)
  <2>1. i \in 1..(1 + Len(R))
    BY <1>6
  <2>2. CASE i = 1
    <3>1. M[i] = n
      BY <2>2, <1>1, <1>4, <1>5
    <3> QED BY <3>1, <1>2, <1>3
  <2>3. CASE i > 1
    <3>1. M[i] = R[i - 1] /\ i - 1 \in DOMAIN R
      BY <2>1, <2>3, <1>1, <1>4, <1>5
    <3> QED BY <3>1, <1>1, <1>5 DEF Inside
  <2> QED BY <2>1, <2>2, <2>3
<1>8. \A i \in DOMAIN M : Extends(M[i].path, p) /\ Len(M[i].path) > Len(p)
  <2>1. \A i \in DOMAIN M : M[i].path \in Path
    BY <1>7 DEF Node
  <2> QED BY <2>1, <1>7, <1>2
<1>9. ~Continues(M, p)
  <2>1. Len(M) \in DOMAIN M
    BY <1>6
  <2> QED BY <2>1, <1>8, <1>2 DEF Continues
<1> QED BY <1>6, <1>7, <1>8, <1>9 DEF Inside, q

\* One attribute is read as one node at the element's path and its name.
LEMMA OkAttr ==
  ASSUME NEW q \in Path, NEW name \in Name, NEW value \in Option(Text)
  PROVE  OkAttrs(OptAttr(name, value), q, AttrNode(q, name, value))
<1>1. Takes(OptAttr(name, value), "attributes", q, AttrNode(q, name, value))
      /\ ~Continues(AttrNode(q, name, value), q)
  BY TakesAttr
<1>2. Inside(AttrNode(q, name, value), q)
  <2>1. CASE value = <<>>
    BY <2>1, InsideEmpty DEF AttrNode
  <2>2. CASE value # <<>>
    <3> DEFINE n == NodeAt("attribute", Append(q, name), value[1])
    <3>1. AttrNode(q, name, value) = <<n>>
      BY <2>2 DEF AttrNode
    <3>2. name \in Lexeme
      BY DEF Name
    <3>3. Append(q, name) \in Path /\ Extends(Append(q, name), q)
          /\ Len(Append(q, name)) > Len(q)
      BY <3>2, ExtendsAppend
    <3>4. n \in Node
      <4>1. <<n>> \in Seq(Node)
        BY <1>1, <3>1 DEF Takes
      <4> HIDE DEF n
      <4>2. Len(<<n>>) = 1 /\ <<n>>[1] = n
        OBVIOUS
      <4> QED BY <4>1, <4>2, ElementOfSeq
    <3>5. n.path = Append(q, name)
      BY DEF NodeAt
    <3> HIDE DEF n
    <3> QED BY <3>1, <3>3, <3>4, <3>5, InsideOne
  <2> QED BY <2>1, <2>2
<1> QED BY <1>1, <1>2 DEF OkAttrs

\* No attributes are read as none.
LEMMA OkNoAttrs ==
  ASSUME NEW q \in Path PROVE OkAttrs(<<>>, q, <<>>)
  BY TakesNothing, InsideEmpty DEF OkAttrs, Continues

\* Attributes are read one after the other.
LEMMA OkAttrsConcat ==
  ASSUME NEW q, NEW x, NEW A, NEW y, NEW B, OkAttrs(x, q, A), OkAttrs(y, q, B)
  PROVE  OkAttrs(x \o y, q, A \o B)
<1>1. Takes(x \o y, "attributes", q, A \o B)
  BY TakesConcat DEF OkAttrs
<1>2. Inside(A \o B, q)
  BY InsideConcat DEF OkAttrs
<1>3. ~Continues(A \o B, q)
  BY ContinuesConcat DEF OkAttrs, Inside
<1> QED BY <1>1, <1>2, <1>3 DEF OkAttrs

\* A text as the content of an element is read as itself.
LEMMA OkText ==
  ASSUME NEW q \in Path, NEW x \in Text
  PROVE  OkContent(esc(x), q, TextNode(q, x))
<1>0. x \in String
  BY TextIsString
<1>1. Takes(esc(x), "text", q, TextNode(q, x))
  BY <1>0, TakesText
<1>2. Inside(TextNode(q, x), q)
  <2>1. CASE x = <<>>
    BY <2>1, InsideEmpty DEF TextNode
  <2>2. CASE x # <<>>
    <3>1. TextAt(q, x) \in Node /\ TextAt(q, x).path = q /\ TextAt(q, x).kind = "text"
      BY <1>0 DEF TextAt, Node
    <3>2. Extends(q, q)
      BY DEF Path, Extends
    <3> QED BY <2>2, <3>1, <3>2, InsideOne DEF TextNode
  <2> QED BY <2>1, <2>2
<1> QED BY <1>1, <1>2 DEF OkContent

\* No content is read as none.
LEMMA OkNoContent ==
  ASSUME NEW q \in Path PROVE OkContent(<<>>, q, <<>>)
  BY TakesNothing, InsideEmpty DEF OkContent

\* An element is read as one block, if its attributes and its content are.
LEMMA OkElementOf ==
  ASSUME NEW p \in Path, NEW name \in Name, NEW attrs, NEW A, NEW content, NEW C,
         OkAttrs(attrs, Append(p, name), A), OkContent(content, Append(p, name), C)
  PROVE  OkElement(Element(name, attrs, content), p, name, Open(p, name) \o (A \o C))
<1>1. Takes(Element(name, attrs, content), "text", p, Open(p, name) \o (A \o C))
  BY TakesElement DEF OkAttrs, OkContent, Open
<1>2. Inside(A \o C, Append(p, name))
  BY InsideConcat DEF OkAttrs, OkContent
<1>3. Block(Open(p, name) \o (A \o C), p, name)
  BY <1>2 DEF Block
<1>4. name \in Lexeme
  BY DEF Name
<1> QED BY <1>1, <1>3, <1>4, BlockInside DEF OkElement

\* So is an element without content.
LEMMA OkEmptyElementOf ==
  ASSUME NEW p \in Path, NEW name \in Name, NEW attrs, NEW A, OkAttrs(attrs, Append(p, name), A)
  PROVE  OkElement(EmptyElement(name, attrs), p, name, Open(p, name) \o A)
<1>1. Takes(EmptyElement(name, attrs), "text", p, Open(p, name) \o A)
  BY TakesEmptyElement DEF OkAttrs, Open
<1>2. Block(Open(p, name) \o A, p, name)
  BY DEF Block, OkAttrs
<1>3. name \in Lexeme
  BY DEF Name
<1> QED BY <1>1, <1>2, <1>3, BlockInside DEF OkElement

-----------------------------------------------------------------------------
(* Verbs. *)

\* A list of elements is read as a list of blocks.
LEMMA OkList ==
  ASSUME NEW S, NEW g \in [S -> String], NEW h \in [S -> Seq(Node)], NEW p \in Path,
         \A e \in S : \E name \in Name : OkElement(g[e], p, name, h[e])
  PROVE  \A x \in Seq(S) :
            OkContent(Spread(g, x), p, Spread(h, x)) /\ ~Continues(Spread(h, x), p)
<1>1. \A e \in S : Takes(g[e], "text", p, h[e]) /\ ~Continues(h[e], p) /\ Inside(h[e], p)
  <2> TAKE e \in S
  <2>1. PICK name \in Name : OkElement(g[e], p, name, h[e])
    OBVIOUS
  <2>2. name \in Lexeme
    BY DEF Name
  <2> QED BY <2>1, <2>2, BlockInside DEF OkElement
<1>2. \A x \in Seq(S) : Takes(Spread(g, x), "text", p, Spread(h, x)) /\ ~Continues(Spread(h, x), p)
  BY <1>1, TakesSpread
<1> DEFINE I == {x \in Seq(S) : Inside(Spread(h, x), p)}
<1>3. <<>> \in I
  BY SpreadEmpty, InsideEmpty
<1>4. ASSUME NEW x \in Seq(S), NEW e \in S, x \in I PROVE Append(x, e) \in I
  <2>1. Spread(h, Append(x, e)) = Spread(h, x) \o h[e]
    BY SpreadAppend
  <2>2. Inside(Spread(h, x) \o h[e], p)
    BY <1>1, <1>4, InsideConcat
  <2>3. Append(x, e) \in Seq(S)
    OBVIOUS
  <2> QED BY <2>1, <2>2, <2>3
<1>5. \A x \in Seq(S) : x \in I
  <2> HIDE DEF I
  <2> QED BY <1>3, <1>4, SeqInduction
<1> QED BY <1>2, <1>5 DEF OkContent

\* An element that has a text and nothing else.
TextElementNodes(q, name) == [t \in Text |-> Open(q, name) \o (<<>> \o TextNode(Append(q, name), t))]

\* An element that has a text is read as one block.
LEMMA OkTextElement ==
  ASSUME NEW q \in Path, NEW name \in Name, NEW t \in Text
  PROVE  OkElement(Element(name, <<>>, esc(t)), q, name, TextElementNodes(q, name)[t])
<1>1. Append(q, name) \in Path
  BY ExtendsAppend DEF Name
<1>2. OkAttrs(<<>>, Append(q, name), <<>>)
  BY <1>1, OkNoAttrs
<1>3. OkContent(esc(t), Append(q, name), TextNode(Append(q, name), t))
  BY <1>1, OkText
<1>4. OkElement(Element(name, <<>>, esc(t)), q, name,
                Open(q, name) \o (<<>> \o TextNode(Append(q, name), t)))
  BY <1>2, <1>3, OkElementOf
<1> QED BY <1>4 DEF TextElementNodes

\* A list of such elements is read as a list of blocks.
LEMMA OkTextElements ==
  ASSUME NEW q \in Path, NEW name \in Name
  PROVE  /\ TextElementNodes(q, name) \in [Text -> Seq(Node)]
         /\ \A texts \in Seq(Text) :
              /\ OkContent(TextElements(name, texts), q, Spread(TextElementNodes(q, name), texts))
              /\ ~Continues(Spread(TextElementNodes(q, name), texts), q)
<1> DEFINE g == [t \in Text |-> Element(name, <<>>, esc(t))]
           h == TextElementNodes(q, name)
<1>1. \A t \in Text : OkElement(g[t], q, name, h[t])
  BY OkTextElement
<1>2. \A t \in Text : g[t] \in String /\ h[t] \in Seq(Node)
  <2> HIDE DEF g, h
  <2> QED BY <1>1 DEF OkElement, Takes
<1>3. g \in [Text -> String]
  BY <1>2
<1>4. h \in [Text -> Seq(Node)]
  BY <1>2 DEF TextElementNodes
<1>5. ASSUME NEW texts \in Seq(Text) PROVE TextElements(name, texts) = Spread(g, texts)
  <2>1. [i \in DOMAIN texts |-> Element(name, <<>>, esc(texts[i]))]
          = [i \in DOMAIN texts |-> g[texts[i]]]
    <3>1. \A i \in DOMAIN texts : texts[i] \in Text
      OBVIOUS
    <3> QED BY <3>1
  <2> HIDE DEF g
  <2> QED BY <2>1 DEF TextElements, Spread
<1> HIDE DEF g, h
<1>6. \A texts \in Seq(Text) :
          OkContent(Spread(g, texts), q, Spread(h, texts)) /\ ~Continues(Spread(h, texts), q)
  BY <1>1, <1>3, <1>4, OkList
<1> QED BY <1>4, <1>5, <1>6 DEF h

\* The attributes of a verb, and what is inside of it, given what is inside
\* of a <Gather>.
VerbAttrs(v, q) ==
    CASE v.verb = "say" -> AttrNode(q, "voice", v.voice) \o AttrNode(q, "language", v.language)
      [] v.verb = "gather" ->
           (((AttrNode(q, "input", v.input) \o AttrNode(q, "action", v.action))
               \o AttrNode(q, "numDigits", v.num_digits))
               \o AttrNode(q, "speechTimeout", v.speech_timeout))
               \o AttrNode(q, "timeout", v.timeout)
      [] v.verb = "record" ->
           (AttrNode(q, "action", v.action) \o AttrNode(q, "maxLength", v.max_length))
               \o AttrNode(q, "playBeep", v.play_beep)
      [] v.verb = "dial" -> AttrNode(q, "callerId", v.caller_id)
      [] v.verb = "reject" -> AttrNode(q, "reason", v.reason)
      [] v.verb = "pause" -> AttrNode(q, "length", v.length)
      [] OTHER -> <<>>

\* The destination of a <Dial>.
DestinationNodes(v, q) ==
    CASE v.number # <<>> -> TextNode(q, v.number[1])
      [] v.number = <<>> /\ v.sip # <<>> -> Spread(TextElementNodes(q, "Sip"), v.sip)
      [] v.number = <<>> /\ v.sip = <<>> /\ v.client # <<>> ->
           Spread(TextElementNodes(q, "Client"), v.client)
      [] OTHER -> Spread(TextElementNodes(q, "Conference"), v.conference)

\* The content of a verb.
VerbContent(v, q, C) ==
    CASE v.verb = "say" -> TextNode(q, v.text)
      [] v.verb \in {"play", "redirect"} -> TextNode(q, v.url)
      [] v.verb = "gather" -> C
      [] v.verb = "dial" -> DestinationNodes(v, q)
      [] v.verb = "message" ->
           TextElementNodes(q, "Body")[v.body] \o Spread(TextElementNodes(q, "Media"), v.media_url)
      [] OTHER -> <<>>

\* All of it.
VerbNodes(v, p, C) ==
    Open(p, ElementName[v.verb])
        \o (VerbAttrs(v, Append(p, ElementName[v.verb]))
               \o VerbContent(v, Append(p, ElementName[v.verb]), C))

\* The names of elements and attributes.
Names == {"Response", "Say", "Play", "Gather", "Record", "Dial", "Reject", "Hangup", "Pause",
          "Redirect", "Message", "Sip", "Client", "Conference", "Body", "Media",
          "voice", "language", "input", "action", "numDigits", "speechTimeout", "timeout",
          "maxLength", "playBeep", "callerId", "reason", "length"}

\* No name of an element or an attribute is a token of markup.
LEMMA NamesAreNames == Names \subseteq Name
  BY DEF Names, Name, Lexeme

\* The fields a verb has, by its kind.
LEMMA VerbFields ==
  ASSUME NEW verbs, NEW v \in Leaf \union Gathers(verbs)
  PROVE  /\ v.verb \in {"say", "play", "redirect", "record", "dial", "reject", "hangup", "pause",
                        "message", "gather"}
         /\ v.verb = "say" => v \in [verb : {"say"}, text : Text, voice : Option(Text),
                                     language : Option(Text)]
         /\ v.verb \in {"play", "redirect"} => v \in [verb : {"play", "redirect"}, url : Text]
         /\ v.verb = "record" => v \in [verb : {"record"}, action : Option(Text),
                                        max_length : Option(Text), play_beep : Option(Text)]
         /\ v.verb = "dial" => v \in [verb : {"dial"}, number : Option(Text), sip : Option(Text),
                                      client : Option(Text), conference : Option(Text),
                                      caller_id : Option(Text)]
         /\ v.verb = "reject" => v \in [verb : {"reject"}, reason : Option(Text)]
         /\ v.verb = "hangup" => v \in [verb : {"hangup"}]
         /\ v.verb = "pause" => v \in [verb : {"pause"}, length : Option(Text)]
         /\ v.verb = "message" => v \in [verb : {"message"}, body : Text, media_url : Seq(Text)]
         /\ v.verb = "gather" => v \in Gathers(verbs)
<1>1. CASE v \in Gathers(verbs)
  <2>1. v.verb = "gather"
    BY <1>1 DEF Gathers
  <2> QED BY <1>1, <2>1
<1>2. CASE v \in Leaf
  BY <1>2 DEF Leaf
<1> QED BY <1>1, <1>2

\* The three parts of a rendered verb.
RenderedAttrs(v) ==
    CASE v.verb = "say" -> OptAttr("voice", v.voice) \o OptAttr("language", v.language)
      [] v.verb = "gather" ->
           (((OptAttr("input", v.input) \o OptAttr("action", v.action))
               \o OptAttr("numDigits", v.num_digits))
               \o OptAttr("speechTimeout", v.speech_timeout))
               \o OptAttr("timeout", v.timeout)
      [] v.verb = "record" ->
           (OptAttr("action", v.action) \o OptAttr("maxLength", v.max_length))
               \o OptAttr("playBeep", v.play_beep)
      [] v.verb = "dial" -> OptAttr("callerId", v.caller_id)
      [] v.verb = "reject" -> OptAttr("reason", v.reason)
      [] v.verb = "pause" -> OptAttr("length", v.length)
      [] OTHER -> <<>>

\* The content.
RenderedContent(v, children) ==
    CASE v.verb = "say" -> esc(v.text)
      [] v.verb \in {"play", "redirect"} -> esc(v.url)
      [] v.verb = "gather" -> children
      [] v.verb = "dial" -> Destination(v)
      [] v.verb = "message" ->
           Element("Body", <<>>, esc(v.body)) \o TextElements("Media", v.media_url)
      [] OTHER -> <<>>

\* The kinds of verbs.
Kinds == {"say", "play", "redirect", "record", "dial", "reject", "hangup", "pause",
          "message", "gather"}

\* Those whose element has no content.
EmptyKinds == {"record", "reject", "hangup", "pause"}

\* A verb is one element, named for its kind, with its attributes and, but
\* for the four kinds that have none, its content (twiml.rs:131-224).
LEMMA RenderVerbParts ==
  ASSUME NEW v, v.verb \in Kinds, NEW children
  PROVE  /\ ElementName[v.verb] \in Names
         /\ v.verb \in EmptyKinds =>
              RenderVerb(v, children) = EmptyElement(ElementName[v.verb], RenderedAttrs(v))
         /\ v.verb \notin EmptyKinds =>
              RenderVerb(v, children)
                = Element(ElementName[v.verb], RenderedAttrs(v), RenderedContent(v, children))
<1>1. CASE v.verb = "say"
  BY <1>1 DEF RenderVerb, RenderedAttrs, RenderedContent, ElementName, EmptyKinds, Names
<1>2. CASE v.verb = "play"
  BY <1>2 DEF RenderVerb, RenderedAttrs, RenderedContent, ElementName, EmptyKinds, Names
<1>3. CASE v.verb = "redirect"
  BY <1>3 DEF RenderVerb, RenderedAttrs, RenderedContent, ElementName, EmptyKinds, Names
<1>4. CASE v.verb = "record"
  BY <1>4 DEF RenderVerb, RenderedAttrs, RenderedContent, ElementName, EmptyKinds, Names
<1>5. CASE v.verb = "dial"
  BY <1>5 DEF RenderVerb, RenderedAttrs, RenderedContent, ElementName, EmptyKinds, Names
<1>6. CASE v.verb = "reject"
  BY <1>6 DEF RenderVerb, RenderedAttrs, RenderedContent, ElementName, EmptyKinds, Names
<1>7. CASE v.verb = "hangup"
  BY <1>7 DEF RenderVerb, RenderedAttrs, RenderedContent, ElementName, EmptyKinds, Names
<1>8. CASE v.verb = "pause"
  BY <1>8 DEF RenderVerb, RenderedAttrs, RenderedContent, ElementName, EmptyKinds, Names
<1>9. CASE v.verb = "message"
  BY <1>9 DEF RenderVerb, RenderedAttrs, RenderedContent, ElementName, EmptyKinds, Names
<1>10. CASE v.verb = "gather"
  BY <1>10 DEF RenderVerb, RenderedAttrs, RenderedContent, ElementName, EmptyKinds, Names
<1> QED BY <1>1, <1>2, <1>3, <1>4, <1>5, <1>6, <1>7, <1>8, <1>9, <1>10 DEF Kinds

\* The attributes of a verb are read as its fields.
LEMMA OkVerbAttrs ==
  ASSUME NEW q \in Path, NEW verbs, NEW v \in Leaf \union Gathers(verbs)
  PROVE  OkAttrs(RenderedAttrs(v), q, VerbAttrs(v, q))
<1>0. ASSUME NEW name \in Names, NEW value \in Option(Text)
      PROVE  OkAttrs(OptAttr(name, value), q, AttrNode(q, name, value))
  BY NamesAreNames, OkAttr
<1>a. OkAttrs(<<>>, q, <<>>)
  BY OkNoAttrs
<1>1. CASE v.verb = "say"
  <2>1. v.voice \in Option(Text) /\ v.language \in Option(Text)
    BY <1>1, VerbFields
  <2>2. OkAttrs(OptAttr("voice", v.voice), q, AttrNode(q, "voice", v.voice))
    BY <1>0, <2>1 DEF Names
  <2>3. OkAttrs(OptAttr("language", v.language), q, AttrNode(q, "language", v.language))
    BY <1>0, <2>1 DEF Names
  <2> QED BY <1>1, <2>2, <2>3, OkAttrsConcat DEF RenderedAttrs, VerbAttrs
<1>2. CASE v.verb = "gather"
  <2>1. /\ v.input \in Option(Text) /\ v.action \in Option(Text) /\ v.num_digits \in Option(Text)
        /\ v.speech_timeout \in Option(Text) /\ v.timeout \in Option(Text)
    BY <1>2, VerbFields DEF Gathers
  <2> DEFINE x1 == OptAttr("input", v.input)
             x2 == OptAttr("action", v.action)
             x3 == OptAttr("numDigits", v.num_digits)
             x4 == OptAttr("speechTimeout", v.speech_timeout)
             x5 == OptAttr("timeout", v.timeout)
             A1 == AttrNode(q, "input", v.input)
             A2 == AttrNode(q, "action", v.action)
             A3 == AttrNode(q, "numDigits", v.num_digits)
             A4 == AttrNode(q, "speechTimeout", v.speech_timeout)
             A5 == AttrNode(q, "timeout", v.timeout)
  <2>2. /\ OkAttrs(x1, q, A1) /\ OkAttrs(x2, q, A2) /\ OkAttrs(x3, q, A3)
        /\ OkAttrs(x4, q, A4) /\ OkAttrs(x5, q, A5)
    BY <1>0, <2>1 DEF Names
  <2>3. /\ RenderedAttrs(v) = (((x1 \o x2) \o x3) \o x4) \o x5
        /\ VerbAttrs(v, q) = (((A1 \o A2) \o A3) \o A4) \o A5
    BY <1>2 DEF RenderedAttrs, VerbAttrs
  <2> HIDE DEF x1, x2, x3, x4, x5, A1, A2, A3, A4, A5
  <2>4. OkAttrs(x1 \o x2, q, A1 \o A2)
    BY <2>2, OkAttrsConcat
  <2>5. OkAttrs((x1 \o x2) \o x3, q, (A1 \o A2) \o A3)
    BY <2>2, <2>4, OkAttrsConcat
  <2>6. OkAttrs(((x1 \o x2) \o x3) \o x4, q, ((A1 \o A2) \o A3) \o A4)
    BY <2>2, <2>5, OkAttrsConcat
  <2>7. OkAttrs((((x1 \o x2) \o x3) \o x4) \o x5, q, (((A1 \o A2) \o A3) \o A4) \o A5)
    BY <2>2, <2>6, OkAttrsConcat
  <2> QED BY <2>3, <2>7
<1>3. CASE v.verb = "record"
  <2>1. v.action \in Option(Text) /\ v.max_length \in Option(Text) /\ v.play_beep \in Option(Text)
    BY <1>3, VerbFields
  <2> DEFINE x1 == OptAttr("action", v.action)
             x2 == OptAttr("maxLength", v.max_length)
             x3 == OptAttr("playBeep", v.play_beep)
             A1 == AttrNode(q, "action", v.action)
             A2 == AttrNode(q, "maxLength", v.max_length)
             A3 == AttrNode(q, "playBeep", v.play_beep)
  <2>2. OkAttrs(x1, q, A1) /\ OkAttrs(x2, q, A2) /\ OkAttrs(x3, q, A3)
    BY <1>0, <2>1 DEF Names
  <2>3. RenderedAttrs(v) = (x1 \o x2) \o x3 /\ VerbAttrs(v, q) = (A1 \o A2) \o A3
    BY <1>3 DEF RenderedAttrs, VerbAttrs
  <2> HIDE DEF x1, x2, x3, A1, A2, A3
  <2>4. OkAttrs(x1 \o x2, q, A1 \o A2)
    BY <2>2, OkAttrsConcat
  <2>5. OkAttrs((x1 \o x2) \o x3, q, (A1 \o A2) \o A3)
    BY <2>2, <2>4, OkAttrsConcat
  <2> QED BY <2>3, <2>5
<1>4. CASE v.verb = "dial"
  <2>1. v.caller_id \in Option(Text)
    BY <1>4, VerbFields
  <2>2. OkAttrs(OptAttr("callerId", v.caller_id), q, AttrNode(q, "callerId", v.caller_id))
    BY <1>0, <2>1 DEF Names
  <2> QED BY <1>4, <2>2 DEF RenderedAttrs, VerbAttrs
<1>5. CASE v.verb = "reject"
  <2>1. v.reason \in Option(Text)
    BY <1>5, VerbFields
  <2>2. OkAttrs(OptAttr("reason", v.reason), q, AttrNode(q, "reason", v.reason))
    BY <1>0, <2>1 DEF Names
  <2> QED BY <1>5, <2>2 DEF RenderedAttrs, VerbAttrs
<1>6. CASE v.verb = "pause"
  <2>1. v.length \in Option(Text)
    BY <1>6, VerbFields
  <2>2. OkAttrs(OptAttr("length", v.length), q, AttrNode(q, "length", v.length))
    BY <1>0, <2>1 DEF Names
  <2> QED BY <1>6, <2>2 DEF RenderedAttrs, VerbAttrs
<1>7. CASE v.verb \notin {"say", "gather", "record", "dial", "reject", "pause"}
  BY <1>7, <1>a DEF RenderedAttrs, VerbAttrs
<1> QED BY <1>1, <1>2, <1>3, <1>4, <1>5, <1>6, <1>7

\* The destination of a <Dial> is read as the field it comes from.
LEMMA OkDestination ==
  ASSUME NEW q \in Path, NEW verbs, NEW v \in Leaf \union Gathers(verbs), v.verb = "dial"
  PROVE  OkContent(Destination(v), q, DestinationNodes(v, q))
<1>0. /\ v.number \in Option(Text) /\ v.sip \in Option(Text) /\ v.client \in Option(Text)
      /\ v.conference \in Option(Text)
  BY VerbFields
<1>a. ASSUME NEW name \in {"Sip", "Client", "Conference"}, NEW value \in Option(Text)
      PROVE  OkContent(TextElements(name, value), q, Spread(TextElementNodes(q, name), value))
  <2>1. name \in Name /\ value \in Seq(Text)
    BY NamesAreNames DEF Names, Option
  <2> QED BY <2>1, OkTextElements
<1>1. CASE v.number # <<>>
  <2>1. v.number[1] \in Text
    <3>1. v.number \in Seq(Text)
      BY <1>0 DEF Option
    <3> QED BY <1>1, <3>1
  <2>2. OkContent(esc(v.number[1]), q, TextNode(q, v.number[1]))
    BY <2>1, OkText
  <2> QED BY <1>1, <2>2 DEF Destination, DestinationNodes
<1>2. CASE v.number = <<>> /\ v.sip # <<>>
  BY <1>2, <1>0, <1>a DEF Destination, DestinationNodes
<1>3. CASE v.number = <<>> /\ v.sip = <<>> /\ v.client # <<>>
  BY <1>3, <1>0, <1>a DEF Destination, DestinationNodes
<1>4. CASE v.number = <<>> /\ v.sip = <<>> /\ v.client = <<>>
  BY <1>4, <1>0, <1>a DEF Destination, DestinationNodes
<1> QED BY <1>1, <1>2, <1>3, <1>4

\* The content of a verb is read as its fields, if what is nested in it is
\* read.
LEMMA OkVerbContent ==
  ASSUME NEW q \in Path, NEW verbs, NEW v \in Leaf \union Gathers(verbs), NEW children, NEW C,
         v.verb = "gather" => OkContent(children, q, C)
  PROVE  OkContent(RenderedContent(v, children), q, VerbContent(v, q, C))
<1>1. CASE v.verb = "say"
  <2>1. v.text \in Text
    BY <1>1, VerbFields
  <2> QED BY <1>1, <2>1, OkText DEF RenderedContent, VerbContent
<1>2. CASE v.verb \in {"play", "redirect"}
  <2>1. v.url \in Text
    BY <1>2, VerbFields
  <2> QED BY <1>2, <2>1, OkText DEF RenderedContent, VerbContent
<1>3. CASE v.verb = "gather"
  BY <1>3 DEF RenderedContent, VerbContent
<1>4. CASE v.verb = "dial"
  BY <1>4, OkDestination DEF RenderedContent, VerbContent
<1>5. CASE v.verb = "message"
  <2>1. v.body \in Text /\ v.media_url \in Seq(Text)
    BY <1>5, VerbFields
  <2>2. "Body" \in Name /\ "Media" \in Name /\ "Body" \in Lexeme
    BY NamesAreNames DEF Names, Name
  <2> DEFINE B == TextElementNodes(q, "Body")[v.body]
             M == Spread(TextElementNodes(q, "Media"), v.media_url)
  <2>3. OkElement(Element("Body", <<>>, esc(v.body)), q, "Body", B)
    BY <2>1, <2>2, OkTextElement
  <2>4. OkContent(TextElements("Media", v.media_url), q, M)
    BY <2>1, <2>2, OkTextElements
  <2>5. VerbContent(v, q, C) = B \o M
    BY <1>5 DEF VerbContent
  <2>6. RenderedContent(v, children)
            = Element("Body", <<>>, esc(v.body)) \o TextElements("Media", v.media_url)
    BY <1>5 DEF RenderedContent
  <2> HIDE DEF B, M
  <2>7. Inside(B, q) /\ ~Continues(B, q)
    BY <2>2, <2>3, BlockInside DEF OkElement
  <2>8. Inside(B \o M, q)
    BY <2>4, <2>7, InsideConcat DEF OkContent
  <2>9. Takes(Element("Body", <<>>, esc(v.body)) \o TextElements("Media", v.media_url),
              "text", q, B \o M)
    BY <2>3, <2>4, <2>7, TakesConcat DEF OkElement, OkContent
  <2> QED BY <2>5, <2>6, <2>8, <2>9 DEF OkContent
<1>6. CASE v.verb \notin {"say", "play", "redirect", "gather", "dial", "message"}
  BY <1>6, OkNoContent DEF RenderedContent, VerbContent
<1> QED BY <1>1, <1>2, <1>3, <1>4, <1>5, <1>6

\* One verb, with whatever it nests.
LEMMA OkVerb ==
  ASSUME NEW p \in Path, NEW verbs, NEW v \in Leaf \union Gathers(verbs), NEW children, NEW C,
         v.verb = "gather" => OkContent(children, Append(p, "Gather"), C)
  PROVE  /\ ElementName[v.verb] \in Name
         /\ OkElement(RenderVerb(v, children), p, ElementName[v.verb], VerbNodes(v, p, C))
<1> DEFINE name == ElementName[v.verb]
           q == Append(p, name)
<1>1. v.verb \in Kinds
  BY VerbFields DEF Kinds
<1>2. name \in Name /\ name \in Lexeme
  BY <1>1, RenderVerbParts, NamesAreNames DEF Name
<1>3. q \in Path
  BY <1>2, ExtendsAppend
<1>4. v.verb = "gather" => name = "Gather"
  BY DEF ElementName
<1> HIDE DEF name
<1>5. OkAttrs(RenderedAttrs(v), q, VerbAttrs(v, q))
  BY <1>3, OkVerbAttrs
<1>6. OkContent(RenderedContent(v, children), q, VerbContent(v, q, C))
  BY <1>3, <1>4, OkVerbContent
<1>7. VerbNodes(v, p, C) = Open(p, name) \o (VerbAttrs(v, q) \o VerbContent(v, q, C))
  BY DEF VerbNodes, name
<1>8. CASE v.verb \in EmptyKinds
  <2>1. RenderVerb(v, children) = EmptyElement(name, RenderedAttrs(v))
    BY <1>1, <1>8, RenderVerbParts DEF name
  <2>2. OkElement(EmptyElement(name, RenderedAttrs(v)), p, name, Open(p, name) \o VerbAttrs(v, q))
    BY <1>2, <1>5, OkEmptyElementOf
  <2>3. VerbContent(v, q, C) = <<>>
    BY <1>8 DEF VerbContent, EmptyKinds
  <2>4. VerbAttrs(v, q) \o <<>> = VerbAttrs(v, q)
    BY <1>5, ConcatEmptySeq DEF OkAttrs, Takes
  <2> QED BY <1>2, <1>7, <2>1, <2>2, <2>3, <2>4 DEF name
<1>9. CASE v.verb \notin EmptyKinds
  <2>1. RenderVerb(v, children) = Element(name, RenderedAttrs(v), RenderedContent(v, children))
    BY <1>1, <1>9, RenderVerbParts DEF name
  <2>2. OkElement(Element(name, RenderedAttrs(v), RenderedContent(v, children)), p, name,
                  Open(p, name) \o (VerbAttrs(v, q) \o VerbContent(v, q, C)))
    BY <1>2, <1>5, <1>6, OkElementOf
  <2> QED BY <1>2, <1>7, <2>1, <2>2 DEF name
<1> QED BY <1>8, <1>9

-----------------------------------------------------------------------------
(* Whole documents. *)

\* What the reader makes of each verb below p.
NodesOf(d, p) == [v \in Verbs[d] |-> CHOOSE M : Takes(Rendered[d][v], "text", p, M)]

\* What is inside of a <Gather>.
NestedNodes(d, p, v) ==
    IF v.verb = "gather" THEN Spread(NodesOf(d, Append(p, "Gather")), v.nested) ELSE <<>>

\* Every verb that nests up to d deep is one well-formed element.
RenderedOk(d) ==
    /\ Rendered[d] \in [Verbs[d] -> String]
    /\ \A p \in Path :
         /\ NodesOf(d, p) \in [Verbs[d] -> Seq(Node)]
         /\ \A v \in Verbs[d] :
              /\ ElementName[v.verb] \in Name
              /\ OkElement(Rendered[d][v], p, ElementName[v.verb], NodesOf(d, p)[v])
              /\ NodesOf(d, p)[v] = VerbNodes(v, p, NestedNodes(d - 1, p, v))

\* A verb that nests up to d deep is a leaf, or a <Gather> of verbs that nest
\* less deep.
LEMMA VerbsUnfold ==
  ASSUME NEW d \in 0..MAX_NESTING
  PROVE  /\ Verbs[d] \subseteq Leaf \union Gathers(Verbs[d - 1])
         /\ \A v \in Verbs[d] : v.verb = "gather" =>
                d # 0 /\ v.nested \in Seq(Verbs[d - 1])
<1>1. Verbs[d] = Leaf \union IF d = 0 THEN {} ELSE Gathers(Verbs[d - 1])
  BY NestUnfold DEF Verbs
<1>2. \A v \in Leaf : v.verb # "gather"
  BY DEF Leaf
<1>3. ASSUME NEW W, NEW v \in Gathers(W) PROVE v.nested \in Seq(W)
  BY DEF Gathers
<1> QED BY <1>1, <1>2, <1>3

\* Rendered verbs are read as a list of blocks.
LEMMA ContentOfNested ==
  ASSUME NEW c, RenderedOk(c), NEW q \in Path, NEW x \in Seq(Verbs[c])
  PROVE  OkContent(Spread(Rendered[c], x), q, Spread(NodesOf(c, q), x))
         /\ ~Continues(Spread(NodesOf(c, q), x), q)
<1> DEFINE S == Verbs[c]
           g == Rendered[c]
           h == NodesOf(c, q)
<1>1. g \in [S -> String] /\ h \in [S -> Seq(Node)]
  BY DEF RenderedOk
<1>2. ASSUME NEW e \in S PROVE \E name \in Name : OkElement(g[e], q, name, h[e])
  BY DEF RenderedOk
<1> HIDE DEF S, g, h
<1>3. \A y \in Seq(S) : OkContent(Spread(g, y), q, Spread(h, y)) /\ ~Continues(Spread(h, y), q)
  BY <1>1, <1>2, OkList
<1> QED BY <1>3 DEF S, g, h

\* Verbs that nest one deeper are read too.
LEMMA RenderedStep ==
  ASSUME NEW d \in 0..MAX_NESTING, d # 0 => RenderedOk(d - 1)
  PROVE  RenderedOk(d)
<1>1. ASSUME NEW p \in Path, NEW v \in Verbs[d]
      PROVE  /\ ElementName[v.verb] \in Name
             /\ OkElement(Rendered[d][v], p, ElementName[v.verb],
                          VerbNodes(v, p, NestedNodes(d - 1, p, v)))
  <2> DEFINE q == Append(p, "Gather")
             c == d - 1
             C == NestedNodes(c, p, v)
             children == IF v.verb = "gather" THEN Spread(Rendered[c], v.nested) ELSE <<>>
  <2>1. /\ v \in Leaf \union Gathers(Verbs[c])
        /\ (v.verb = "gather" => d # 0 /\ v.nested \in Seq(Verbs[c]))
    BY VerbsUnfold
  <2>2. Rendered[d][v] = RenderVerb(v, children)
    BY RenderedUnfold
  <2>3. q \in Path
    <3>1. "Gather" \in Lexeme
      BY NamesAreNames DEF Names, Name
    <3> QED BY <3>1, ExtendsAppend
  <2>4. v.verb = "gather" => RenderedOk(c)
    BY <2>1
  <2> HIDE DEF c
  <2>5. v.verb = "gather" => OkContent(children, q, C)
    BY <2>1, <2>3, <2>4, ContentOfNested DEF NestedNodes
  <2> HIDE DEF C, children
  <2>6. /\ ElementName[v.verb] \in Name
        /\ OkElement(RenderVerb(v, children), p, ElementName[v.verb], VerbNodes(v, p, C))
    BY <2>1, <2>5, OkVerb
  <2> QED BY <2>2, <2>6 DEF C, c
<1>2. ASSUME NEW p \in Path, NEW v \in Verbs[d]
      PROVE  NodesOf(d, p)[v] = VerbNodes(v, p, NestedNodes(d - 1, p, v))
  <2> DEFINE M == VerbNodes(v, p, NestedNodes(d - 1, p, v))
             x == Rendered[d][v]
  <2>1. Takes(x, "text", p, M)
    BY <1>1 DEF OkElement
  <2> HIDE DEF M, x
  <2>2. (CHOOSE K : Takes(x, "text", p, K)) = M
    BY <2>1, TakesUnique
  <2> QED BY <2>2 DEF M, x, NodesOf
<1>3. ASSUME NEW p \in Path PROVE NodesOf(d, p) \in [Verbs[d] -> Seq(Node)]
  <2>1. \A v \in Verbs[d] : NodesOf(d, p)[v] \in Seq(Node)
    BY <1>1, <1>2 DEF OkElement, Takes
  <2> QED BY <2>1 DEF NodesOf
<1>4. Rendered[d] \in [Verbs[d] -> String]
  <2>1. Rendered[d] = [v \in Verbs[d] |-> Rendered[d][v]]
    BY RenderedUnfold
  <2>2. \A v \in Verbs[d] : Rendered[d][v] \in String
    <3>1. <<>> \in Path
      BY DEF Path
    <3> QED BY <1>1, <3>1 DEF OkElement, Takes
  <2> QED BY <2>1, <2>2
<1> QED BY <1>1, <1>2, <1>3, <1>4 DEF RenderedOk

\* However deep verbs nest, what they are rendered to is well formed and each
\* is read as one block.
LEMMA RenderedAlwaysOk == \A d \in 0..MAX_NESTING : RenderedOk(d)
<1> DEFINE T == {k \in Nat : k <= MAX_NESTING => RenderedOk(k)}
<1>a. MAX_NESTING \in Nat
  BY NestingAssumption DEF NestingAssumption
<1>1. 0 \in T
  BY <1>a, RenderedStep
<1>2. ASSUME NEW k \in Nat, k \in T PROVE k + 1 \in T
  <2>1. k + 1 <= MAX_NESTING => k + 1 \in 0..MAX_NESTING /\ k <= MAX_NESTING /\ (k + 1) - 1 = k
    BY <1>a
  <2> QED BY <1>2, <2>1, RenderedStep
<1>3. \A k \in Nat : k \in T
  <2> HIDE DEF T
  <2> QED BY <1>1, <1>2, SetInduction
<1> QED BY <1>3, <1>a

\* The path of <Response>.
Root == Append(<<>>, "Response")

\* What is inside of it.
BodyNodes(verbs) == Spread(NodesOf(MAX_NESTING, Root), verbs)

\* The whole document.
DocumentNodes(verbs) == Open(<<>>, "Response") \o (<<>> \o BodyNodes(verbs))

\* What follows the header is the document without it.
LEMMA TailOfConcat ==
  ASSUME NEW S, NEW h \in S, NEW y \in Seq(S)
  PROVE  Tail(<<h>> \o y) = y
<1> DEFINE z == <<h>> \o y
<1>1. /\ <<h>> \in Seq(S) /\ Len(<<h>>) = 1
  OBVIOUS
<1>2. z \in Seq(S) /\ Len(z) = 1 + Len(y) /\ Len(y) \in Nat /\ \A i \in 1..Len(y) : z[i + 1] = y[i]
  BY <1>1, ConcatProperties
<1>3. z # <<>>
  BY <1>2
<1> HIDE DEF z
<1>4. Tail(z) \in Seq(S) /\ Len(Tail(z)) = Len(y) /\ \A i \in 1..Len(y) : Tail(z)[i] = y[i]
  BY <1>2, <1>3, HeadTailProperties
<1>5. Tail(z) = y
  BY <1>4, SeqEqual
<1> QED BY <1>5 DEF z

\* The root element is a path of one name.
LEMMA RootIsPath ==
    /\ <<>> \in Path /\ Root \in Path /\ Root = <<"Response">> /\ Len(Root) = 1
    /\ "Response" \in Name
<1>1. "Response" \in Name /\ <<>> \in Path
  BY NamesAreNames DEF Names, Path
<1> DEFINE r == "Response"
<1>2. r \in Lexeme
  BY <1>1 DEF Name
<1>3. Root = Append(<<>>, r)
  BY DEF Root
<1> HIDE DEF r
<1>4. Append(<<>>, r) \in Path /\ Append(<<>>, r) = <<r>> /\ Len(<<r>>) = 1
  BY <1>2 DEF Path
<1> QED BY <1>1, <1>3, <1>4 DEF r

\* What is inside of <Response> is read as the verbs' nodes.
LEMMA BodyTaken ==
  ASSUME NEW verbs \in Seq(Verb)
  PROVE  /\ RenderedOk(MAX_NESTING)
         /\ OkContent(Spread(Rendered[MAX_NESTING], verbs), Root, BodyNodes(verbs))
         /\ BodyNodes(verbs) \in Seq(Node)
<1>1. RenderedOk(MAX_NESTING)
  BY RenderedAlwaysOk, NestingAssumption DEF NestingAssumption
<1>2. OkContent(Spread(Rendered[MAX_NESTING], verbs), Root, BodyNodes(verbs))
  BY <1>1, RootIsPath, ContentOfNested DEF Verb, BodyNodes
<1> QED BY <1>1, <1>2 DEF OkContent, Takes

\* Twilio reads one element, <Response>, with the verbs in it.
LEMMA ReadRendered ==
  ASSUME NEW verbs \in Seq(Verb)
  PROVE  /\ WellFormed(render(verbs))
         /\ Read(render(verbs)) = DocumentNodes(verbs)
         /\ DocumentNodes(verbs) \in Seq(Node)
<1> DEFINE content == Spread(Rendered[MAX_NESTING], verbs)
           e == Element("Response", <<>>, content)
           M == DocumentNodes(verbs)
<1>1. OkElement(e, <<>>, "Response", M)
  <2>1. OkAttrs(<<>>, Root, <<>>)
    BY RootIsPath, OkNoAttrs
  <2>2. OkContent(content, Root, BodyNodes(verbs))
    BY BodyTaken
  <2> HIDE DEF content
  <2> QED BY <2>1, <2>2, RootIsPath, OkElementOf DEF Root, DocumentNodes
<1>2. e \in Seq(Lexeme) /\ M \in Seq(Node) /\ Takes(e, "text", <<>>, M)
  BY <1>1 DEF OkElement, Takes, String
<1>3. Tail(render(verbs)) = e
  <2>1. render(verbs) = <<TWIML_HEADER>> \o e
    BY DEF render, Spread
  <2> DEFINE h == TWIML_HEADER
  <2>2. h \in Lexeme
    BY DEF Lexeme
  <2> HIDE DEF h, e
  <2>3. Tail(<<h>> \o e) = e
    BY <2>2, <1>2, TailOfConcat
  <2> QED BY <2>1, <2>3 DEF h
<1> HIDE DEF e, M
<1>4. IsAt(Start, "text", <<>>, <<>>)
  BY DEF IsAt, At, Start
<1>5. IsAt(Parsed(render(verbs)), "text", <<>>, <<>> \o M)
  <2>1. ~Continues(<<>>, <<>>) /\ <<>> \in Seq(Node)
    BY DEF Continues
  <2>2. IsAt(Reading(Start, e), "text", <<>>, <<>> \o M)
    BY <1>2, <1>4, <2>1, TakesUse
  <2> QED BY <1>3, <2>2 DEF Parsed
<1>6. <<>> \o M = M
  BY <1>2
<1>7. Parsed(render(verbs)).mode = "text" /\ Parsed(render(verbs)).at = <<>>
      /\ Parsed(render(verbs)).nodes = M
  BY <1>5, <1>6, Moves
<1> QED BY <1>2, <1>7 DEF WellFormed, Read, M

-----------------------------------------------------------------------------
(* What Twilio executes. *)

\* What is executed of a node.
TopElement == [n \in Node |-> IF n.kind = "open" /\ Len(n.path) = 2 THEN <<n.path[2]>> ELSE <<>>]

\* What is executed of one node is a sequence of names.
LEMMA TopElementType == TopElement \in [Node -> Seq(Lexeme)]
<1> SUFFICES ASSUME NEW n \in Node, Len(n.path) = 2 PROVE <<n.path[2]>> \in Seq(Lexeme)
  <2>1. <<>> \in Seq(Lexeme)
    OBVIOUS
  <2>2. \A n \in Node :
          (IF n.kind = "open" /\ Len(n.path) = 2 THEN <<n.path[2]>> ELSE <<>>) \in Seq(Lexeme)
    BY <2>1
  <2> QED BY <2>2 DEF TopElement
<1>1. n.path \in Seq(Lexeme)
  BY DEF Node, Path
<1>2. n.path[2] \in Lexeme
  BY <1>1
<1> QED BY <1>2

\* What is executed of two parts is executed one after the other.
LEMMA TopElementConcat ==
    \A y, z \in Seq(Node) :
        Spread(TopElement, y \o z) = Spread(TopElement, y) \o Spread(TopElement, z)
  BY TopElementType, SpreadConcat

\* Of what is inside of an element at a path of two names, nothing is executed.
LEMMA InsideNotTop ==
  ASSUME NEW q \in Path, Len(q) = 2, NEW R \in Seq(Node), Inside(R, q)
  PROVE  Spread(TopElement, R) = <<>>
<1> DEFINE none == [n \in Node |-> <<>>]
<1>1. \A i \in DOMAIN R : TopElement[R[i]] = none[R[i]]
  <2> TAKE i \in DOMAIN R
  <2>1. R[i] \in Node /\ (Len(R[i].path) > Len(q) \/ R[i].kind = "text")
    BY DEF Inside
  <2>2. ASSUME NEW e \in Node, Len(e.path) > 2 \/ e.kind = "text" PROVE TopElement[e] = none[e]
    <3>1. ~(e.kind = "open" /\ Len(e.path) = 2)
      <4> DEFINE k == Len(e.path)
      <4>1. k \in Nat
        BY DEF Node, Path
      <4>2. k > 2 \/ e.kind = "text"
        BY <2>2
      <4> HIDE DEF k, none
      <4>3. ~(e.kind = "open" /\ k = 2)
        BY <4>1, <4>2
      <4> QED BY <4>3 DEF k
    <3> QED BY <3>1 DEF TopElement
  <2> QED BY <2>1, <2>2
<1>2. none \in [Node -> Seq(Lexeme)] /\ \A n \in Node : none[n] = <<>>
  OBVIOUS
<1>3. Spread(TopElement, R) = Spread(none, R)
  BY <1>1, SpreadAgree
<1> HIDE DEF none
<1> DEFINE I == {x \in Seq(Node) : Spread(none, x) = <<>>}
<1>4. <<>> \in I
  BY SpreadEmpty
<1>5. ASSUME NEW x \in Seq(Node), NEW e \in Node, x \in I PROVE Append(x, e) \in I
  <2>1. Spread(none, Append(x, e)) = Spread(none, x) \o none[e]
    BY <1>2, SpreadAppend, SMTT(30)
  <2>2. Spread(none, x) = <<>> /\ none[e] = <<>> /\ <<>> \o <<>> = <<>>
    BY <1>2, <1>5
  <2>3. Append(x, e) \in Seq(Node)
    OBVIOUS
  <2> QED BY <2>1, <2>2, <2>3
<1>6. \A x \in Seq(Node) : x \in I
  <2> HIDE DEF I
  <2> QED BY <1>4, <1>5, SeqInduction
<1> QED BY <1>3, <1>6

\* Of one element below <Response>, its name is executed and nothing else.
LEMMA BlockTop ==
  ASSUME NEW M, NEW name \in Lexeme, Block(M, Root, name)
  PROVE  Spread(TopElement, M) = <<name>>
<1> DEFINE q == Append(Root, name)
           n == NodeAt("open", q, <<>>)
<1>1. PICK R : Inside(R, q) /\ M = Open(Root, name) \o R
  BY DEF Block
<1>2. q \in Path /\ Len(q) = 2 /\ q[2] = name
  BY RootIsPath, AppendProperties DEF Path
<1>3. Open(Root, name) = <<n>>
  BY DEF Open
<1> HIDE DEF q
<1>4. n \in Node /\ TopElement[n] = <<name>>
  BY <1>2 DEF TopElement, NodeAt, Node, String
<1> HIDE DEF n
<1>5. R \in Seq(Node) /\ <<n>> \in Seq(Node)
  BY <1>1, <1>4 DEF Inside
<1>6. Spread(TopElement, <<n>> \o R) = Spread(TopElement, <<n>>) \o Spread(TopElement, R)
  BY <1>5, TopElementConcat
<1>7. Spread(TopElement, <<n>>) = <<name>>
  BY <1>4, TopElementType, SpreadOne
<1>8. Spread(TopElement, R) = <<>>
  BY <1>1, <1>2, <1>5, InsideNotTop
<1>9. <<name>> \o <<>> = <<name>>
  OBVIOUS
<1> QED BY <1>1, <1>3, <1>6, <1>7, <1>8, <1>9

\* Twilio executes one element for each verb, in their order
\* (twiml.rs:103-224).
LEMMA ExecutedRendered ==
  ASSUME NEW verbs \in Seq(Verb)
  PROVE  Executed(render(verbs)) = [i \in DOMAIN verbs |-> ElementName[verbs[i].verb]]
<1> DEFINE h == NodesOf(MAX_NESTING, Root)
           N(x) == [i \in DOMAIN x |-> ElementName[x[i].verb]]
           I == {x \in Seq(Verb) : Spread(TopElement, Spread(h, x)) = N(x)}
<1>1. /\ h \in [Verb -> Seq(Node)]
      /\ \A v \in Verb : ElementName[v.verb] \in Lexeme
                         /\ Spread(TopElement, h[v]) = <<ElementName[v.verb]>>
  <2>1. RenderedOk(MAX_NESTING)
    BY RenderedAlwaysOk, NestingAssumption DEF NestingAssumption
  <2>2. ASSUME NEW v \in Verb
        PROVE  ElementName[v.verb] \in Lexeme /\ Block(h[v], Root, ElementName[v.verb])
    BY <2>1, RootIsPath DEF RenderedOk, OkElement, Name, Verb
  <2>3. h \in [Verb -> Seq(Node)]
    BY <2>1, RootIsPath DEF RenderedOk, Verb
  <2> HIDE DEF h
  <2> QED BY <2>2, <2>3, BlockTop
<1> HIDE DEF h
<1>a. \A x \in Seq(Verb), e \in Verb :
          Spread(h, Append(x, e)) = Spread(h, x) \o h[e] /\ Spread(h, x) \in Seq(Node)
  <2>1. h \in [Verb -> Seq(Node)]
    BY <1>1
  <2> HIDE DEF N, I
  <2>2. \A x \in Seq(Verb) : Spread(h, x) \in Seq(Node)
    BY <2>1, SpreadAppend
  <2>3. \A x \in Seq(Verb), e \in Verb : Spread(h, Append(x, e)) = Spread(h, x) \o h[e]
    BY <2>1, SpreadAppend
  <2> QED BY <2>2, <2>3
<1>2. <<>> \in I
  <2>1. Spread(h, <<>>) = <<>> /\ Spread(TopElement, <<>>) = <<>>
    BY SpreadEmpty
  <2>2. N(<<>>) = <<>>
    OBVIOUS
  <2> HIDE DEF N
  <2> QED BY <2>1, <2>2
<1>3. ASSUME NEW x \in Seq(Verb), NEW e \in Verb, x \in I PROVE Append(x, e) \in I
  <2>1. Append(x, e) \in Seq(Verb)
    OBVIOUS
  <2>2. Spread(h, Append(x, e)) = Spread(h, x) \o h[e] /\ Spread(h, x) \in Seq(Node)
    BY <1>a
  <2>4. Spread(TopElement, Spread(h, Append(x, e))) = N(x) \o <<ElementName[e.verb]>>
    <3>1. h[e] \in Seq(Node) /\ Spread(TopElement, h[e]) = <<ElementName[e.verb]>>
      BY <1>1
    <3>2. Spread(TopElement, Spread(h, x)) = N(x)
      BY <1>3
    <3> HIDE DEF N
    <3> QED BY <2>2, TopElementConcat, <3>1, <3>2
  <2>5. N(x) \o <<ElementName[e.verb]>> = N(Append(x, e))
    <3> DEFINE a == N(x) \o <<ElementName[e.verb]>>
               b == N(Append(x, e))
               S == Lexeme
    <3>1. \A y \in Seq(Verb) : N(y) \in Seq(S) /\ Len(N(y)) = Len(y)
      <4> TAKE y \in Seq(Verb)
      <4>1. \A i \in DOMAIN y : y[i] \in Verb
        OBVIOUS
      <4>2. N(y) \in [1..Len(y) -> S] /\ Len(y) \in Nat
        BY <1>1, <4>1
      <4> QED BY <4>2, FunctionIsSeq
    <3>2. <<ElementName[e.verb]>> \in Seq(S) /\ Len(<<ElementName[e.verb]>>) = 1
      BY <1>1
    <3>3. /\ Len(Append(x, e)) = Len(x) + 1 /\ Append(x, e)[Len(x) + 1] = e
          /\ \A i \in 1..Len(x) : Append(x, e)[i] = x[i] /\ Len(x) \in Nat
      BY AppendProperties
    <3>4. a \in Seq(S) /\ Len(a) = Len(x) + 1 /\ b \in Seq(S) /\ Len(b) = Len(x) + 1
      BY <3>1, <3>2, <3>3, <2>1, ConcatProperties
    <3>5. ASSUME NEW i \in 1..(Len(x) + 1) PROVE a[i] = b[i]
      <4>1. b[i] = ElementName[Append(x, e)[i].verb]
        BY <3>3, <2>1
      <4>2. CASE i = Len(x) + 1
        <5> DEFINE w == <<ElementName[e.verb]>>
                   y == N(x)
        <5>0. w = <<w[1]>> /\ w[1] \in S
          BY <1>1
        <5>1. w[1] = ElementName[e.verb] /\ w \in Seq(S) /\ y \in Seq(S) /\ Len(y) = Len(x)
              /\ Len(w) = 1 /\ a = y \o w
          BY <3>1, <3>2
        <5> HIDE DEF w, y, a, b, N, I
        <5>2. (y \o w)[Len(y) + 1] = w[1]
          <6>2. y \o w = Append(y, w[1])
            BY <5>0, <5>1, AppendIsConcat
          <6> QED BY <5>0, <5>1, <6>2, AppendProperties
        <5>3. a[i] = ElementName[e.verb]
          BY <5>1, <5>2, <4>2
        <5> QED BY <4>1, <4>2, <5>3, <3>3
      <4>3. CASE i <= Len(x)
        <5>1. a[i] = N(x)[i]
          BY <3>1, <3>2, <4>3, ConcatProperties
        <5>2. N(x)[i] = ElementName[x[i].verb]
          BY <4>3
        <5> QED BY <4>1, <4>3, <5>1, <5>2, <3>3
      <4> QED BY <4>2, <4>3, <3>3
    <3> HIDE DEF a, b
    <3>6. a = b
      BY <3>4, <3>5, SeqEqual
    <3> QED BY <3>6 DEF a, b
  <2> HIDE DEF N
  <2> QED BY <2>1, <2>4, <2>5
<1>4. \A x \in Seq(Verb) : x \in I
  <2> HIDE DEF I
  <2> QED BY <1>2, <1>3, SeqInduction
<1>5. Spread(TopElement, BodyNodes(verbs)) = N(verbs)
  BY <1>4 DEF h, BodyNodes
<1> HIDE DEF N
<1>6. Spread(TopElement, DocumentNodes(verbs)) = N(verbs)
  <2> DEFINE n == NodeAt("open", Root, <<>>)
             B == BodyNodes(verbs)
  <2>1. B \in Seq(Node)
    BY BodyTaken
  <2> HIDE DEF B
  <2>2. Open(<<>>, "Response") = <<n>>
    BY DEF Open, Root
  <2>3. n \in Node /\ TopElement[n] = <<>>
    BY RootIsPath, SMTT(30) DEF TopElement, NodeAt, Node, String
  <2> HIDE DEF n
  <2>5. Spread(TopElement, <<n>>) = <<>>
    BY <2>3, TopElementType, SpreadOne
  <2>6. <<>> \o B = B /\ <<n>> \in Seq(Node)
    BY <2>1, <2>3
  <2>7. Spread(TopElement, <<n>> \o B) = <<>> \o N(verbs)
    BY <2>1, TopElementConcat, <2>5, <2>6, <1>5 DEF B
  <2>8. <<>> \o N(verbs) = N(verbs)
    <3>1. Spread(TopElement, B) \in Seq(Lexeme)
      BY <2>1, TopElementType, SpreadAppend
    <3> QED BY <1>5, <3>1 DEF B
  <2> QED BY <2>2, <2>6, <2>7, <2>8 DEF DocumentNodes, B
<1>7. Executed(render(verbs)) = Spread(TopElement, Read(render(verbs)))
  <2> DEFINE R == Read(render(verbs))
  <2>1. R \in Seq(Node)
    BY ReadRendered
  <2> HIDE DEF R
  <2>2. \A i \in DOMAIN R : R[i] \in Node
    BY <2>1
  <2>3. [i \in DOMAIN R |-> IF R[i].kind = "open" /\ Len(R[i].path) = 2
                            THEN <<R[i].path[2]>> ELSE <<>>]
        = [i \in DOMAIN R |-> TopElement[R[i]]]
    BY <2>2 DEF TopElement
  <2> QED BY <2>3 DEF Executed, Spread, R
<1> QED BY <1>6, <1>7, ReadRendered DEF N

-----------------------------------------------------------------------------
(* Parameters, and putting them into a text. *)

\* What SpreadFacts says.
Spreads(g, S, T) ==
    /\ \A x \in Seq(S) : Spread(g, x) \in Seq(T)
    /\ \A x \in Seq(S), e \in S : Spread(g, Append(x, e)) = Spread(g, x) \o g[e]
    /\ \A x, y \in Seq(S) : Spread(g, x \o y) = Spread(g, x) \o Spread(g, y)

\* The facts about spreading that the lemmas below use, as one.
LEMMA SpreadFacts ==
  ASSUME NEW S, NEW T, NEW g \in [S -> Seq(T)]
  PROVE  Spreads(g, S, T)
<1>1. /\ \A x \in Seq(S) : Spread(g, x) \in Seq(T)
      /\ \A x \in Seq(S), e \in S : Spread(g, Append(x, e)) = Spread(g, x) \o g[e]
  BY SpreadAppend
<1>2. \A x, y \in Seq(S) : Spread(g, x \o y) = Spread(g, x) \o Spread(g, y)
  BY SpreadConcat
<1> QED BY <1>1, <1>2 DEF Spreads

\* A function that replaces no element of a sequence leaves it.
LEMMA SpreadIdentity ==
  ASSUME NEW S, NEW g \in [S -> Seq(S)]
  PROVE  \A x \in Seq(S) : (\A i \in DOMAIN x : g[x[i]] = <<x[i]>>) => Spread(g, x) = x
<1> DEFINE one == [c \in S |-> <<c>>]
           I == {x \in Seq(S) : Spread(one, x) = x}
<1>1. one \in [S -> Seq(S)] /\ \A c \in S : one[c] = <<c>>
  OBVIOUS
<1> HIDE DEF one
<1>2. <<>> \in I
  BY SpreadEmpty
<1>3. ASSUME NEW x \in Seq(S), NEW c \in S, x \in I PROVE Append(x, c) \in I
  <2>1. Spread(one, Append(x, c)) = Spread(one, x) \o one[c]
    BY <1>1, SpreadAppend, ZenonT(30)
  <2>2. Append(x, c) \in Seq(S) /\ x \o <<c>> = Append(x, c)
    BY AppendIsConcat
  <2> QED BY <1>1, <1>3, <2>1, <2>2
<1>4. \A x \in Seq(S) : x \in I
  <2> HIDE DEF I
  <2> QED BY <1>2, <1>3, SeqInduction
<1> TAKE x \in Seq(S)
<1> HAVE \A i \in DOMAIN x : g[x[i]] = <<x[i]>>
<1>5. \A i \in DOMAIN x : x[i] \in S
  OBVIOUS
<1>6. Spread(g, x) = Spread(one, x)
  <2>1. ASSUME NEW i \in DOMAIN x PROVE g[x[i]] = one[x[i]]
    <3>1. x[i] \in S /\ g[x[i]] = <<x[i]>>
      BY <1>5
    <3>2. one[x[i]] = <<x[i]>>
      BY <1>1, <3>1
    <3> QED BY <3>1, <3>2
  <2> HIDE DEF I
  <2> QED BY <2>1, SpreadAgree
<1> QED BY <1>4, <1>6

\* h does what f and then g do.
Composes(h, g, f, S, T, U) ==
    /\ f \in [S -> Seq(T)] /\ g \in [T -> Seq(U)] /\ h \in [S -> Seq(U)]
    /\ \A c \in S : h[c] = Spread(g, f[c])

\* Spreading twice is spreading once with the composition.
LEMMA SpreadSpread ==
  ASSUME NEW S, NEW T, NEW U, NEW f, NEW g, NEW h, Composes(h, g, f, S, T, U)
  PROVE  \A x \in Seq(S) : Spread(g, Spread(f, x)) = Spread(h, x)
<1>b. /\ f \in [S -> Seq(T)] /\ g \in [T -> Seq(U)] /\ h \in [S -> Seq(U)]
      /\ \A c \in S : h[c] = Spread(g, f[c])
  BY DEF Composes
<1>a. Spreads(f, S, T) /\ Spreads(h, S, U) /\ Spreads(g, T, U)
  BY <1>b, SpreadFacts
<1> DEFINE I == {x \in Seq(S) : Spread(g, Spread(f, x)) = Spread(h, x)}
<1>1. <<>> \in I
  BY SpreadEmpty
<1>2. ASSUME NEW x \in Seq(S), NEW c \in S, x \in I PROVE Append(x, c) \in I
  <2>1. Append(x, c) \in Seq(S) /\ f[c] \in Seq(T) /\ Spread(f, x) \in Seq(T)
    BY <1>a, <1>b DEF Spreads
  <2>2. Spread(f, Append(x, c)) = Spread(f, x) \o f[c]
    BY <1>a DEF Spreads
  <2>3. Spread(g, Spread(f, x) \o f[c]) = Spread(g, Spread(f, x)) \o Spread(g, f[c])
    BY <2>1, <1>a DEF Spreads
  <2>4. Spread(h, Append(x, c)) = Spread(h, x) \o h[c]
    BY <1>a DEF Spreads
  <2> QED BY <1>2, <1>b, <2>1, <2>2, <2>3, <2>4
<1>3. \A x \in Seq(S) : x \in I
  <2> HIDE DEF I
  <2> QED BY <1>1, <1>2, SeqInduction
<1> QED BY <1>3

\* A text stays a text if no token becomes nothing, and one that is not empty
\* does not become so.
LEMMA SpreadNotEmpty ==
  ASSUME NEW S, NEW T, NEW g \in [S -> Seq(T)], \A c \in S : g[c] # <<>>
  PROVE  \A x \in Seq(S) : Spread(g, x) = <<>> <=> x = <<>>
<1>a. \A x \in Seq(S), c \in S :
          Spread(g, Append(x, c)) = Spread(g, x) \o g[c] /\ Spread(g, x) \in Seq(T)
  BY SpreadAppend
<1> DEFINE I == {x \in Seq(S) : Spread(g, x) = <<>> <=> x = <<>>}
<1>1. <<>> \in I
  BY SpreadEmpty
<1>2. ASSUME NEW x \in Seq(S), NEW c \in S, x \in I PROVE Append(x, c) \in I
  <2>1. Append(x, c) \in Seq(S) /\ Append(x, c) # <<>>
    <3> HIDE DEF I
    <3>1. Append(x, c) \in Seq(S) /\ Len(Append(x, c)) = Len(x) + 1 /\ Len(x) \in Nat
      BY AppendProperties
    <3> QED BY <3>1, SMTT(30)
  <2>2. Spread(g, x) \o g[c] # <<>>
    <3>1. Spread(g, x) \in Seq(T) /\ g[c] \in Seq(T) /\ g[c] # <<>>
      BY <1>a
    <3>2. Len(Spread(g, x) \o g[c]) = Len(Spread(g, x)) + Len(g[c]) /\ Len(g[c]) # 0
          /\ Len(Spread(g, x)) \in Nat /\ Len(g[c]) \in Nat
      BY <3>1, ConcatProperties
    <3>3. Len(<<>>) = 0
      OBVIOUS
    <3> QED BY <3>2, <3>3
  <2> QED BY <1>a, <2>1, <2>2
<1>3. \A x \in Seq(S) : x \in I
  <2> HIDE DEF I
  <2> QED BY <1>1, <1>2, SeqInduction
<1> QED BY <1>3

\* Find returns the value of the first pair of the key.
LEMMA FindFirst ==
  ASSUME NEW pairs, Len(pairs) \in Nat, NEW key
  PROVE  \/ /\ Find(pairs, key) = <<>>
            /\ \A i \in 1..Len(pairs) : pairs[i][1] # key
         \/ \E i \in 1..Len(pairs) :
              /\ Find(pairs, key) = <<pairs[i][2]>>
              /\ pairs[i][1] = key
              /\ \A j \in 1..Len(pairs) : pairs[j][1] = key => i <= j
<1> DEFINE I == {i \in 1..Len(pairs) : pairs[i][1] = key}
           i == IF I # {} THEN Min(I) ELSE 0
<1>1. Find(pairs, key) = IF i = 0 THEN <<>> ELSE <<pairs[i][2]>>
  BY DEF Find, SelectInSeq
<1>2. CASE I = {}
  BY <1>1, <1>2
<1>3. CASE I # {}
  <2>1. i \in I /\ \A j \in I : i <= j
    <3>1. \E m \in I : \A n \in I : m <= n
      <4>1. I \subseteq Nat
        OBVIOUS
      <4> HIDE DEF I
      <4> QED BY <1>3, <4>1, LeastNat
    <3>2. Min(I) \in I /\ \A j \in I : Min(I) <= j
      <4> HIDE DEF I
      <4> QED BY <3>1 DEF Min
    <3> QED BY <1>3, <3>2
  <2> HIDE DEF i
  <2>2. i # 0
    BY <2>1
  <2>3. Find(pairs, key) = <<pairs[i][2]>>
    BY <1>1, <2>2
  <2> QED BY <2>1, <2>3
<1> QED BY <1>2, <1>3

\* What a form's parameters are.
Form == Seq(Range(SortedKeys) \X Text)

\* Find and Param return an option of a text, and Param no empty text
\* (webhook.rs:522-535).
LEMMA ParamType ==
  ASSUME NEW params \in Form, NEW key
  PROVE  /\ Find(params, key) \in Option(Text) /\ Param(params, key) \in Option(Text)
         /\ Param(params, key) # <<>> => Param(params, key)[1] \in Text \ {<<>>}
<1>1. Len(params) \in Nat /\ \A i \in 1..Len(params) : params[i][2] \in Text
  BY DEF Form
<1>2. Find(params, key) = <<>> \/ \E t \in Text : Find(params, key) = <<t>>
  BY <1>1, FindFirst
<1>3. CASE Find(params, key) = <<>>
  <2>1. Param(params, key) = <<>>
    BY <1>3 DEF Param
  <2> QED BY <1>3, <2>1 DEF Option
<1>4. ASSUME NEW t \in Text, Find(params, key) = <<t>>
      PROVE  /\ Find(params, key) \in Option(Text) /\ Param(params, key) \in Option(Text)
             /\ Param(params, key) # <<>> => Param(params, key)[1] \in Text \ {<<>>}
  <2>1. <<t>> \in Option(Text) /\ <<>> \in Option(Text) /\ <<t>>[1] = t
    BY DEF Option
  <2>2. Param(params, key) = IF t = <<>> THEN <<>> ELSE <<t>>
    BY <1>4 DEF Param
  <2> QED BY <1>4, <2>1, <2>2
<1> QED BY <1>2, <1>3, <1>4

\* The keys that have a placeholder.
PlaceholderKeys == {"From", "To", "Body"}

\* What putting in one parameter does to a token.
Put(params, key) ==
    [c \in Token |-> IF c = Placeholder[key] /\ Param(params, key) # <<>>
                     THEN Param(params, key)[1] ELSE <<c>>]

\* Putting in one parameter replaces every token on its own, and none by
\* nothing.
LEMMA PutIsSpread ==
  ASSUME NEW params \in Form, NEW key
  PROVE  /\ Put(params, key) \in [Token -> Text]
         /\ \A c \in Token : Put(params, key)[c] # <<>>
         /\ \A text \in Text : PutIn(text, params, key) = Spread(Put(params, key), text)
                               /\ PutIn(text, params, key) \in Text
<1> DEFINE g == Put(params, key)
           value == Param(params, key)
<1>1. \A c \in Token : <<c>> \in Text \ {<<>>}
  BY DEF Text
<1>2. \A c \in Token : g[c] = IF c = Placeholder[key] /\ value # <<>> THEN value[1] ELSE <<c>>
  BY DEF Put
<1>3. value # <<>> => value[1] \in Text \ {<<>>}
  BY ParamType
<1>4. g = [c \in Token |-> g[c]]
  BY DEF Put
<1> HIDE DEF g
<1>5. g \in [Token -> Text] /\ \A c \in Token : g[c] # <<>>
  BY <1>1, <1>2, <1>3, <1>4
<1>6. ASSUME NEW text \in Text PROVE PutIn(text, params, key) = Spread(g, text)
  <2>1. \A i \in DOMAIN text : text[i] \in Token
    BY DEF Text
  <2>2. CASE value = <<>>
    <3>1. PutIn(text, params, key) = text
      BY <2>2 DEF PutIn
    <3>2. \A i \in DOMAIN text : g[text[i]] = <<text[i]>>
      BY <1>2, <2>1, <2>2
    <3>3. Spread(g, text) = text
      BY <1>5, <3>2, SpreadIdentity, ZenonT(30) DEF Text
    <3> QED BY <3>1, <3>3
  <2>3. CASE value # <<>>
    <3>1. PutIn(text, params, key) = Replace(text, Placeholder[key], value[1])
      BY <2>3 DEF PutIn
    <3>2. ASSUME NEW i \in DOMAIN text
          PROVE  (IF text[i] = Placeholder[key] THEN value[1] ELSE <<text[i]>>) = g[text[i]]
      <4>1. text[i] \in Token
        BY <2>1
      <4> HIDE DEF value
      <4> QED BY <1>2, <4>1, <2>3
    <3>3. [i \in DOMAIN text |-> IF text[i] = Placeholder[key] THEN value[1] ELSE <<text[i]>>]
            = [i \in DOMAIN text |-> g[text[i]]]
      <4> HIDE DEF value
      <4> QED BY <3>2
    <3> QED BY <3>1, <3>3 DEF Replace, Spread
  <2> QED BY <2>2, <2>3
<1>7. ASSUME NEW text \in Text PROVE Spread(g, text) \in Text
  BY <1>5, SpreadFacts DEF Spreads, Text
<1> QED BY <1>5, <1>6, <1>7 DEF g

\* SpreadSpread, of texts.
LEMMA TextSpreadTwice ==
  ASSUME NEW f, NEW g, NEW h, f \in [Token -> Text], g \in [Token -> Text], h \in [Token -> Text],
         \A c \in Token : h[c] = Spread(g, f[c])
  PROVE  \A x \in Text : Spread(g, Spread(f, x)) = Spread(h, x)
<1>1. /\ f \in [Token -> Seq(Token)] /\ g \in [Token -> Seq(Token)] /\ h \in [Token -> Seq(Token)]
  BY DEF Text
<1>2. Composes(h, g, f, Token, Token, Token)
  BY <1>1 DEF Composes
<1>3. \A x \in Seq(Token) : Spread(g, Spread(f, x)) = Spread(h, x)
  BY <1>2, SpreadSpread
<1> QED BY <1>3 DEF Text

\* What putting in all three does to a token.
Putting(params) ==
    [c \in Token |-> Spread(Put(params, "Body"), Spread(Put(params, "To"), Put(params, "From")[c]))]

\* So does putting in all three, one after the other (webhook.rs:502-520).
LEMMA SubstituteIsSpread ==
  ASSUME NEW params \in Form
  PROVE  /\ Putting(params) \in [Token -> Text]
         /\ \A text \in Text : /\ Substitute(text, params) = Spread(Putting(params), text)
                               /\ Substitute(text, params) \in Text
                               /\ Substitute(text, params) = <<>> <=> text = <<>>
<1> DEFINE f == Put(params, "From")
           t == Put(params, "To")
           b == Put(params, "Body")
           ft == [c \in Token |-> Spread(t, f[c])]
           h == Putting(params)
<1>1. /\ f \in [Token -> Text] /\ t \in [Token -> Text] /\ b \in [Token -> Text]
      /\ \A c \in Token : f[c] # <<>> /\ t[c] # <<>> /\ b[c] # <<>>
  BY PutIsSpread
<1>2. ASSUME NEW text \in Text
      PROVE  /\ Substitute(text, params) = Spread(b, Spread(t, Spread(f, text)))
             /\ Substitute(text, params) \in Text
  <2>1. PutIn(text, params, "From") = Spread(f, text) /\ Spread(f, text) \in Text
    BY PutIsSpread
  <2>2. PutIn(Spread(f, text), params, "To") = Spread(t, Spread(f, text))
        /\ Spread(t, Spread(f, text)) \in Text
    BY <2>1, PutIsSpread
  <2>3. PutIn(Spread(t, Spread(f, text)), params, "Body") = Spread(b, Spread(t, Spread(f, text)))
        /\ Spread(b, Spread(t, Spread(f, text))) \in Text
    BY <2>2, PutIsSpread
  <2> HIDE DEF f, t, b
  <2> QED BY <2>1, <2>2, <2>3 DEF Substitute
<1>3. h = [c \in Token |-> Spread(b, ft[c])]
  BY DEF Putting
<1> HIDE DEF f, t, b, h
<1>4. /\ \A x \in Text : Spread(t, x) \in Text /\ (Spread(t, x) = <<>> <=> x = <<>>)
      /\ \A x \in Text : Spread(b, x) \in Text /\ (Spread(b, x) = <<>> <=> x = <<>>)
      /\ \A x \in Text : Spread(f, x) \in Text /\ (Spread(f, x) = <<>> <=> x = <<>>)
  <2>1. Spreads(t, Token, Token) /\ Spreads(b, Token, Token) /\ Spreads(f, Token, Token)
    BY <1>1, SpreadFacts DEF Text
  <2>2. ASSUME NEW g \in [Token -> Text], \A c \in Token : g[c] # <<>>
        PROVE  \A x \in Text : Spread(g, x) = <<>> <=> x = <<>>
    BY <2>2, SpreadNotEmpty DEF Text
  <2> QED BY <1>1, <2>1, <2>2 DEF Spreads, Text
<1>5. ft \in [Token -> Text] /\ \A c \in Token : ft[c] = Spread(t, f[c])
  BY <1>1, <1>4
<1> HIDE DEF ft
<1>6. h \in [Token -> Text] /\ \A c \in Token : h[c] = Spread(b, ft[c])
  BY <1>3, <1>4, <1>5
<1>7. \A x \in Text : Spread(t, Spread(f, x)) = Spread(ft, x)
  BY <1>1, <1>5, TextSpreadTwice
<1>8. \A x \in Text : Spread(b, Spread(ft, x)) = Spread(h, x)
  BY <1>1, <1>5, <1>6, TextSpreadTwice
<1> QED BY <1>2, <1>4, <1>6, <1>7, <1>8 DEF h

\* The placeholders.
Placeholders == {"${From}", "${To}", "${Body}"}

\* The three placeholders, by their keys.
LEMMA PlaceholderOf ==
    /\ Placeholder["From"] = "${From}" /\ Placeholder["To"] = "${To}"
    /\ Placeholder["Body"] = "${Body}" /\ DOMAIN Placeholder = PlaceholderKeys
    /\ \A key \in PlaceholderKeys : Placeholder[key] \in Placeholders
<1>1. /\ Placeholder["From"] = "${From}" /\ Placeholder["To"] = "${To}"
      /\ Placeholder["Body"] = "${Body}" /\ DOMAIN Placeholder = PlaceholderKeys
  BY DEF PlaceholderKeys, Placeholder
<1>2. \A key \in PlaceholderKeys : Placeholder[key] \in Placeholders
  BY <1>1 DEF PlaceholderKeys, Placeholders
<1> QED BY <1>1, <1>2

\* The form of a request is a sequence of pairs in which no key is twice.
LEMMA FormType ==
  ASSUME NEW r \in Requests
  PROVE  /\ r.body.form \in Form /\ Len(r.body.form) \in Nat
         /\ DOMAIN r.body.form = 1..Len(r.body.form)
         /\ \A i, j \in DOMAIN r.body.form : r.body.form[i][1] = r.body.form[j][1] => i = j
         /\ \A i \in DOMAIN r.body.form : r.body.form[i] \in Range(SortedKeys) \X Text
<1>1. r.body.form \in Form
  BY RequestTypes DEF RequestTypes, Form
<1>2. \A i, j \in DOMAIN r.body.form : r.body.form[i][1] = r.body.form[j][1] => i = j
  BY TwilioAssumption DEF TwilioAssumption
<1> QED BY <1>1, <1>2 DEF Form

\* What Find finds, now that no key is there twice.
LEMMA ParamIs ==
  ASSUME NEW r \in Requests, NEW key
  PROVE  \/ /\ Param(r.body.form, key) = <<>>
            /\ \A i \in DOMAIN r.body.form : r.body.form[i][1] = key => r.body.form[i][2] = <<>>
         \/ \E i \in DOMAIN r.body.form :
              /\ r.body.form[i][1] = key /\ r.body.form[i][2] # <<>>
              /\ Param(r.body.form, key) = <<r.body.form[i][2]>>
<1> DEFINE f == r.body.form
<1>1. /\ Len(f) \in Nat /\ DOMAIN f = 1..Len(f)
      /\ \A i, j \in DOMAIN f : f[i][1] = f[j][1] => i = j
  BY FormType
<1> HIDE DEF f
<1>2. CASE Find(f, key) = <<>> /\ \A i \in 1..Len(f) : f[i][1] # key
  BY <1>1, <1>2 DEF Param, f
<1>3. ASSUME NEW i \in 1..Len(f), Find(f, key) = <<f[i][2]>>, f[i][1] = key
      PROVE  \/ Param(f, key) = <<>> /\ \A j \in DOMAIN f : f[j][1] = key => f[j][2] = <<>>
             \/ \E j \in DOMAIN f : f[j][1] = key /\ f[j][2] # <<>> /\ Param(f, key) = <<f[j][2]>>
  <2>1. CASE f[i][2] = <<>>
    <3>1. Param(f, key) = <<>>
      BY <1>3, <2>1 DEF Param
    <3> QED BY <1>1, <1>3, <2>1, <3>1
  <2>2. CASE f[i][2] # <<>>
    <3>1. Param(f, key) = <<f[i][2]>>
      BY <1>3, <2>2 DEF Param
    <3> QED BY <1>1, <1>3, <2>2, <3>1
  <2> QED BY <2>1, <2>2
<1> QED BY <1>1, <1>2, <1>3, FindFirst, SMTT(30) DEF f

\* Numbers hold no placeholder, so that what is put in for one stays.
LEMMA NumberStays ==
  ASSUME NEW r \in Requests, NEW key \in {"From", "To"}, Param(r.body.form, key) # <<>>,
         NEW later \in PlaceholderKeys
  PROVE  Spread(Put(r.body.form, later), Param(r.body.form, key)[1]) = Param(r.body.form, key)[1]
<1> DEFINE f == r.body.form
           x == Param(f, key)[1]
<1>1. PICK i \in DOMAIN f : f[i][1] = key /\ Param(f, key) = <<f[i][2]>>
  BY ParamIs
<1>2. Range(f[i][2]) \cap Placeholders = {}
  BY <1>1, TwilioAssumption DEF TwilioAssumption, Placeholders
<1>3. x = f[i][2] /\ x \in Text
  BY <1>1, FormType
<1>4. Placeholder[later] \in Placeholders
  BY PlaceholderOf
<1>5. \A j \in DOMAIN x : x[j] \in Token /\ x[j] \in Range(x)
  BY <1>3 DEF Text, Range
<1> HIDE DEF x
<1>6. \A j \in DOMAIN x : Put(f, later)[x[j]] = <<x[j]>>
  BY <1>2, <1>3, <1>4, <1>5 DEF Put
<1>7. Put(f, later) \in [Token -> Text]
  BY FormType, PutIsSpread
<1> HIDE DEF f
<1>8. Spread(Put(f, later), x) = x
  BY <1>3, <1>6, <1>7, SpreadIdentity DEF Text
<1> QED BY <1>8 DEF x, f

\* What is put in for a token, by whatever rule.
PutFor(r, c) ==
    CASE c = "${From}" /\ Param(r.body.form, "From") # <<>> -> Param(r.body.form, "From")[1]
      [] c = "${To}" /\ Param(r.body.form, "To") # <<>> -> Param(r.body.form, "To")[1]
      [] c = "${Body}" /\ Param(r.body.form, "Body") # <<>> -> Param(r.body.form, "Body")[1]
      [] OTHER -> <<c>>

\* One parameter after the other puts in what PutFor says: no value put in is
\* searched again.
LEMMA PuttingIs ==
  ASSUME NEW r \in Requests, NEW c \in Token
  PROVE  Putting(r.body.form)[c] = PutFor(r, c)
<1> DEFINE p == r.body.form
           f == Put(p, "From")
           t == Put(p, "To")
           b == Put(p, "Body")
<1>1. /\ f \in [Token -> Text] /\ t \in [Token -> Text] /\ b \in [Token -> Text]
  BY FormType, PutIsSpread
<1>2. Putting(p)[c] = Spread(b, Spread(t, f[c]))
  BY DEF Putting
<1>3. /\ f[c] = IF c = "${From}" /\ Param(p, "From") # <<>> THEN Param(p, "From")[1] ELSE <<c>>
      /\ t[c] = IF c = "${To}" /\ Param(p, "To") # <<>> THEN Param(p, "To")[1] ELSE <<c>>
      /\ b[c] = IF c = "${Body}" /\ Param(p, "Body") # <<>> THEN Param(p, "Body")[1] ELSE <<c>>
  BY DEF Put, Placeholder
<1>4. /\ Param(p, "From") # <<>> => /\ Spread(t, Param(p, "From")[1]) = Param(p, "From")[1]
                                    /\ Spread(b, Param(p, "From")[1]) = Param(p, "From")[1]
      /\ Param(p, "To") # <<>> => Spread(b, Param(p, "To")[1]) = Param(p, "To")[1]
  BY NumberStays DEF PlaceholderKeys
<1> HIDE DEF f, t, b
<1>5. Spread(t, <<c>>) = t[c] /\ Spread(b, <<c>>) = b[c]
  BY <1>1, SpreadOne DEF Text
<1> HIDE DEF p
<1>6. CASE c = "${From}" /\ Param(p, "From") # <<>>
  BY <1>2, <1>3, <1>4, <1>6 DEF PutFor, p
<1>7. CASE c = "${To}" /\ Param(p, "To") # <<>>
  BY <1>2, <1>3, <1>4, <1>5, <1>7 DEF PutFor, p
<1>8. CASE ~(c = "${From}" /\ Param(p, "From") # <<>>) /\ ~(c = "${To}" /\ Param(p, "To") # <<>>)
  <2>1. Putting(p)[c] = b[c]
    BY <1>2, <1>3, <1>5, <1>8
  <2> QED BY <1>3, <1>8, <2>1 DEF PutFor, p
<1> QED BY <1>6, <1>7, <1>8

\* What Filled does to a token.
FilledAt(r, c) ==
    IF \E p \in ToSet(r.body.form) :
          p[1] \in DOMAIN Placeholder /\ Placeholder[p[1]] = c /\ p[2] # <<>>
    THEN (CHOOSE p \in ToSet(r.body.form) :
            p[1] \in DOMAIN Placeholder /\ Placeholder[p[1]] = c)[2]
    ELSE <<c>>

\* All at once puts in the same.
LEMMA FilledAtIs ==
  ASSUME NEW r \in Requests, NEW c
  PROVE  FilledAt(r, c) = PutFor(r, c)
<1> DEFINE f == r.body.form
           Is(p) == p[1] \in DOMAIN Placeholder /\ Placeholder[p[1]] = c
<1>0. ToSet(f) = {f[i] : i \in DOMAIN f}
  BY DEF ToSet
<1>1. ASSUME NEW key \in PlaceholderKeys, c = Placeholder[key]
      PROVE  FilledAt(r, c) = IF Param(f, key) # <<>> THEN Param(f, key)[1] ELSE <<c>>
  <2>1. \A p : Is(p) <=> p[1] = key
    BY <1>1, PlaceholderOf DEF PlaceholderKeys
  <2> HIDE DEF Is
  <2>2. CASE Param(f, key) = <<>> /\ \A i \in DOMAIN f : f[i][1] = key => f[i][2] = <<>>
    <3>1. ~\E p \in ToSet(f) : Is(p) /\ p[2] # <<>>
      BY <1>0, <2>1, <2>2
    <3> QED BY <2>2, <3>1 DEF FilledAt, Is
  <2>3. ASSUME NEW i \in DOMAIN f, f[i][1] = key, f[i][2] # <<>>, Param(f, key) = <<f[i][2]>>
        PROVE  FilledAt(r, c) = IF Param(f, key) # <<>> THEN Param(f, key)[1] ELSE <<c>>
    <3>1. f[i] \in ToSet(f) /\ Is(f[i])
      BY <1>0, <2>1, <2>3
    <3>2. \A p \in ToSet(f) : Is(p) => p = f[i]
      <4>1. \A j \in DOMAIN f : f[j][1] = key => j = i
        BY <2>3, FormType
      <4> HIDE DEF f
      <4> QED BY <1>0, <2>1, <4>1
    <3>3. (CHOOSE p \in ToSet(f) : Is(p)) = f[i]
      <4> HIDE DEF f
      <4> QED BY <3>1, <3>2
    <3>4. FilledAt(r, c) = f[i][2]
      BY <3>1, <3>3, <2>3 DEF FilledAt, Is
    <3>5. Param(f, key) # <<>> /\ Param(f, key)[1] = f[i][2]
      <4> HIDE DEF f
      <4> QED BY <2>3
    <3> QED BY <3>4, <3>5
  <2> QED BY <2>2, <2>3, ParamIs
<1>2. ASSUME \A key \in PlaceholderKeys : c # Placeholder[key]
      PROVE  FilledAt(r, c) = <<c>>
  BY <1>2, PlaceholderOf DEF FilledAt
<1>3. CASE c = "${From}"
  BY <1>1, <1>3, PlaceholderOf DEF PutFor, PlaceholderKeys
<1>4. CASE c = "${To}"
  BY <1>1, <1>4, PlaceholderOf DEF PutFor, PlaceholderKeys
<1>5. CASE c = "${Body}"
  BY <1>1, <1>5, PlaceholderOf DEF PutFor, PlaceholderKeys
<1>6. CASE c \notin Placeholders
  <2>1. PutFor(r, c) = <<c>>
    BY <1>6 DEF PutFor, Placeholders
  <2> QED BY <1>2, <1>6, <2>1, PlaceholderOf
<1> QED BY <1>3, <1>4, <1>5, <1>6 DEF Placeholders

\* Filled, token by token.
Filling(r) == [c \in Lexeme |-> FilledAt(r, c)]

\* Filling every token at once is what Substitute does to a text.
LEMMA FilledIsSpread ==
  ASSUME NEW r \in Requests
  PROVE  /\ Filling(r) \in [Lexeme -> String]
         /\ \A text \in Text :
              Spread(Filling(r), text) = Substitute(text, r.body.form)
<1>1. ASSUME NEW c \in Lexeme PROVE FilledAt(r, c) \in String
  <2>1. FilledAt(r, c) = PutFor(r, c)
    BY FilledAtIs
  <2>2. \A key : Param(r.body.form, key) # <<>> => Param(r.body.form, key)[1] \in String
    BY FormType, ParamType, TextIsString
  <2>3. <<c>> \in String
    BY DEF String
  <2> QED BY <2>1, <2>2, <2>3 DEF PutFor
<1>2. Filling(r) \in [Lexeme -> String]
  BY <1>1 DEF Filling
<1>3. ASSUME NEW text \in Text
      PROVE  Spread(Filling(r), text) = Substitute(text, r.body.form)
  <2>1. \A i \in DOMAIN text : text[i] \in Token
    BY DEF Text
  <2>2. Token \subseteq Lexeme
    BY DEF Lexeme
  <2>3. ASSUME NEW c \in Token PROVE Filling(r)[c] = Putting(r.body.form)[c]
    BY <2>2, FilledAtIs, PuttingIs DEF Filling
  <2>4. Spread(Filling(r), text) = Spread(Putting(r.body.form), text)
    BY <2>1, <2>3, SpreadAgree
  <2> QED BY <2>4, SubstituteIsSpread, FormType
<1> QED BY <1>2, <1>3

\* Filled replaces every token on its own.
LEMMA FilledIs ==
  ASSUME req \in Requests, NEW x \in String
  PROVE  Filled(x) = Spread(Filling(req), x)
<1>1. \A i \in DOMAIN x : x[i] \in Lexeme
  BY DEF String
<1>2. ASSUME NEW i \in DOMAIN x PROVE FilledAt(req, x[i]) = Filling(req)[x[i]]
  BY <1>1 DEF Filling
<1>3. [i \in DOMAIN x |-> FilledAt(req, x[i])] = [i \in DOMAIN x |-> Filling(req)[x[i]]]
  BY <1>2
<1> QED BY <1>3 DEF Filled, FilledAt, Spread

\* Where what is said or messaged is.
Spoken == {<<"Response", "Say">>, <<"Response", "Message", "Body">>}

\* What becomes of a node when the caller's parameters are put in.
Changed(r) ==
    [n \in Node |-> IF n.kind = "text" /\ n.path \in Spoken
                    THEN [n EXCEPT !.text = Spread(Filling(r), n.text)] ELSE n]

\* As a sequence of one node.
Changing(r) == [n \in Node |-> <<Changed(r)[n]>>]

\* M becomes N, node by node.
Becomes(r, M, N) == M \in Seq(Node) /\ N \in Seq(Node) /\ Spread(Changing(r), M) = N

\* A node that changes is still one node.
LEMMA ChangingType ==
  ASSUME NEW r \in Requests
  PROVE  /\ Changed(r) \in [Node -> Node]
         /\ Changing(r) \in [Node -> Seq(Node)]
         /\ Spreads(Changing(r), Node, Node)
<1>1. ASSUME NEW n \in Node PROVE Changed(r)[n] \in Node
  <2>1. n.text \in String
    BY DEF Node
  <2>2. Spread(Filling(r), n.text) \in String
    BY <2>1, FilledIsSpread, SpreadFacts DEF Spreads, String
  <2> QED BY <2>2 DEF Changed, Node
<1>2. Changed(r) \in [Node -> Node]
  BY <1>1 DEF Changed
<1>3. Changing(r) \in [Node -> Seq(Node)]
  BY <1>1 DEF Changing
<1> QED BY <1>2, <1>3, SpreadFacts

\* Two parts change part by part.
LEMMA BecomesConcat ==
  ASSUME NEW r \in Requests, NEW M, NEW N, NEW M2, NEW N2, Becomes(r, M, N), Becomes(r, M2, N2)
  PROVE  Becomes(r, M \o M2, N \o N2)
  BY ChangingType, ConcatProperties DEF Becomes, Spreads

\* No nodes stay none.
LEMMA BecomesEmpty ==
  ASSUME NEW r \in Requests
  PROVE  Becomes(r, <<>>, <<>>)
<1>1. <<>> \in Seq(Node)
  OBVIOUS
<1> QED BY <1>1, SpreadEmpty DEF Becomes

\* One node changes as Changed says.
LEMMA BecomesOne ==
  ASSUME NEW r \in Requests, NEW n \in Node
  PROVE  Becomes(r, <<n>>, <<Changed(r)[n]>>)
<1>1. <<n>> \in Seq(Node) /\ <<Changed(r)[n]>> \in Seq(Node)
  BY ChangingType
<1>2. Spread(Changing(r), <<n>>) = Changing(r)[n]
  BY ChangingType, SpreadOne
<1>3. Changing(r)[n] = <<Changed(r)[n]>>
  BY DEF Changing
<1> QED BY <1>1, <1>2, <1>3 DEF Becomes

\* Nodes that are neither said nor a message's body stay.
LEMMA BecomesSame ==
  ASSUME NEW r \in Requests, NEW M \in Seq(Node),
         \A i \in DOMAIN M : M[i].kind # "text" \/ M[i].path \notin Spoken
  PROVE  Becomes(r, M, M)
<1>1. ASSUME NEW i \in DOMAIN M PROVE Changing(r)[M[i]] = <<M[i]>>
  <2>1. M[i] \in Node
    OBVIOUS
  <2> QED BY <2>1 DEF Changing, Changed
<1>2. Spread(Changing(r), M) = M
  BY <1>1, ChangingType, SpreadIdentity
<1> QED BY <1>2 DEF Becomes

\* A text that is said or messaged becomes that text with the parameters put
\* in.
LEMMA BecomesText ==
  ASSUME NEW r \in Requests, NEW q \in Path, q \in Spoken, NEW x \in Text
  PROVE  Becomes(r, TextNode(q, x), TextNode(q, Substitute(x, r.body.form)))
<1> DEFINE y == Substitute(x, r.body.form)
<1>1. y \in Text /\ (y = <<>> <=> x = <<>>) /\ y = Spread(Filling(r), x)
  BY FormType, SubstituteIsSpread, FilledIsSpread
<1> HIDE DEF y
<1>2. CASE x = <<>>
  BY <1>1, <1>2, BecomesEmpty DEF TextNode, y
<1>3. CASE x # <<>>
  <2>1. TextAt(q, x) \in Node
    BY TextIsString DEF TextAt, Node
  <2>2. Changed(r)[TextAt(q, x)] = TextAt(q, y)
    BY <1>1, <2>1 DEF Changed, TextAt
  <2>3. TextNode(q, x) = <<TextAt(q, x)>> /\ TextNode(q, y) = <<TextAt(q, y)>>
    BY <1>1, <1>3 DEF TextNode
  <2> QED BY <2>1, <2>2, <2>3, BecomesOne DEF y
<1> QED BY <1>2, <1>3

\* An opening element stays.
LEMMA BecomesOpen ==
  ASSUME NEW r \in Requests, NEW p \in Path, NEW name \in Name
  PROVE  Becomes(r, Open(p, name), Open(p, name))
<1> DEFINE n == NodeAt("open", Append(p, name), <<>>)
<1>1. Append(p, name) \in Path
  BY ExtendsAppend DEF Name
<1>2. n \in Node /\ n.kind = "open"
  BY <1>1 DEF NodeAt, Node, String
<1>3. Open(p, name) = <<n>>
  BY DEF Open
<1> HIDE DEF n
<1>4. Changed(r)[n] = n
  BY <1>2 DEF Changed
<1> QED BY <1>2, <1>3, <1>4, BecomesOne

\* Elements below p, none of whose nodes changes, and a list of them.
LEMMA BecomesAttr ==
  ASSUME NEW r \in Requests, NEW q \in Path, NEW name \in Name, NEW value \in Option(Text)
  PROVE  Becomes(r, AttrNode(q, name, value), AttrNode(q, name, value))
<1>1. AttrNode(q, name, value) \in Seq(Node)
  BY TakesAttr DEF Takes
<1>2. \A i \in DOMAIN AttrNode(q, name, value) : AttrNode(q, name, value)[i].kind # "text"
  BY DEF AttrNode, NodeAt
<1> QED BY <1>1, <1>2, BecomesSame

\* A list changes element by element.
LEMMA BecomesList ==
  ASSUME NEW r \in Requests, NEW S, NEW f \in [S -> Seq(Node)], NEW g \in [S -> Seq(Node)],
         \A e \in S : Becomes(r, f[e], g[e])
  PROVE  \A x \in Seq(S) : Becomes(r, Spread(f, x), Spread(g, x))
<1>1. Composes(g, Changing(r), f, S, Node, Node)
  BY ChangingType DEF Composes, Becomes
<1>2. \A x \in Seq(S) : Spread(Changing(r), Spread(f, x)) = Spread(g, x)
  BY <1>1, SpreadSpread
<1>3. Spreads(f, S, Node) /\ Spreads(g, S, Node)
  BY SpreadFacts
<1> QED BY <1>2, <1>3 DEF Becomes, Spreads

\* Up to three elements, and their lengths.
LEMMA FewTokens ==
  ASSUME NEW a, NEW b, NEW c
  PROVE  /\ Len(<<a>>) = 1 /\ <<a>>[1] = a
         /\ Len(<<a, b>>) = 2 /\ <<a, b>>[1] = a /\ <<a, b>>[2] = b
         /\ Len(<<a, b, c>>) = 3 /\ <<a, b, c>>[1] = a /\ <<a, b, c>>[2] = b /\ <<a, b, c>>[3] = c
  OBVIOUS

\* Two names are one with one appended.
LEMMA AppendToOne ==
  ASSUME NEW a, NEW b
  PROVE  Append(<<a>>, b) = <<a, b>>
<1> DEFINE S == {a, b}
           x == Append(<<a>>, b)
           y == <<a, b>>
<1>1. <<a>> \in Seq(S) /\ y \in Seq(S) /\ b \in S
  OBVIOUS
<1>2. x \in Seq(S) /\ Len(x) = 2 /\ x[1] = a /\ x[2] = b
  BY <1>1, FewTokens, AppendProperties
<1>3. Len(y) = 2 /\ y[1] = a /\ y[2] = b
  BY FewTokens
<1> HIDE DEF x, y, S
<1>4. \A i \in 1..2 : x[i] = y[i]
  BY <1>2, <1>3
<1>5. x = y
  BY <1>1, <1>2, <1>3, <1>4, SeqEqual
<1> QED BY <1>5 DEF x, y

\* Three names are two with one appended.
LEMMA AppendToTwo ==
  ASSUME NEW a, NEW b, NEW c
  PROVE  Append(<<a, b>>, c) = <<a, b, c>>
<1> DEFINE S == {a, b, c}
           x == Append(<<a, b>>, c)
           y == <<a, b, c>>
<1>1. <<a, b>> \in Seq(S) /\ y \in Seq(S) /\ c \in S
  OBVIOUS
<1>2. x \in Seq(S) /\ Len(x) = 3 /\ x[1] = a /\ x[2] = b /\ x[3] = c
  BY <1>1, FewTokens, AppendProperties
<1>3. Len(y) = 3 /\ y[1] = a /\ y[2] = b /\ y[3] = c
  BY FewTokens
<1> HIDE DEF x, y, S
<1>4. \A i \in 1..3 : x[i] = y[i]
  BY <1>2, <1>3
<1>5. x = y
  BY <1>1, <1>2, <1>3, <1>4, SeqEqual
<1> QED BY <1>5 DEF x, y

\* What is said or messaged is at two paths, and at no other.
LEMMA SpokenPaths ==
    /\ Append(Root, "Say") \in Spoken
    /\ Append(Append(Root, "Message"), "Body") \in Spoken
    /\ \A q, name : name \notin {"Say", "Message"} /\ Extends(q, Append(Root, name)) => q \notin Spoken
    /\ \A q : Extends(q, Append(Append(Root, "Message"), "Media")) => q \notin Spoken
<1>1. \A name : Append(Root, name) = <<"Response", name>>
  BY RootIsPath, AppendToOne
<1>2. \A name : Append(Append(Root, "Message"), name) = <<"Response", "Message", name>>
  <2> DEFINE a == "Response"
             b == "Message"
  <2>1. Append(Root, b) = <<a, b>>
    BY <1>1
  <2> HIDE DEF a, b
  <2>2. \A name : Append(<<a, b>>, name) = <<a, b, name>>
    BY AppendToTwo
  <2>3. \A name : Append(Append(Root, b), name) = <<a, b, name>>
    BY <2>1, <2>2
  <2> QED BY <2>3 DEF a, b
<1>3. \A q \in Spoken :
        q[2] \in {"Say", "Message"} /\ (Len(q) = 3 => q[3] = "Body") /\ Len(q) \in {2, 3}
  BY FewTokens DEF Spoken
<1>4. ASSUME NEW q, NEW name, Extends(q, Append(Root, name))
      PROVE  q[2] = name
  <2>1. Len(<<"Response", name>>) = 2 /\ <<"Response", name>>[2] = name
    BY FewTokens
  <2> QED BY <1>1, <1>4, <2>1, SMTT(30) DEF Extends
<1>5. ASSUME NEW q, Extends(q, Append(Append(Root, "Message"), "Media"))
      PROVE  q[3] = "Media" /\ Len(q) >= 3
  <2> DEFINE w == <<"Response", "Message", "Media">>
  <2>1. Len(w) = 3 /\ w[3] = "Media"
    BY FewTokens
  <2>2. Extends(q, w)
    BY <1>2, <1>5
  <2> HIDE DEF w
  <2> QED BY <2>1, <2>2 DEF Extends
<1>6. ASSUME NEW q \in Spoken, Extends(q, Append(Append(Root, "Message"), "Media")) PROVE FALSE
  BY <1>3, <1>5, <1>6
<1> QED BY <1>1, <1>2, <1>3, <1>4, <1>6 DEF Spoken

-----------------------------------------------------------------------------
(* One verb, and a list of them. *)

\* Verbs are those that nest up to MAX_NESTING deep, leaves among them.
LEMMA VerbIs ==
    /\ Verb = Verbs[MAX_NESTING] /\ MAX_NESTING \in 0..MAX_NESTING
    /\ Verb \subseteq Leaf \union Gathers(Verbs[MAX_NESTING - 1]) /\ Leaf \subseteq Verb
    /\ RenderedOk(MAX_NESTING)
<1>1. MAX_NESTING \in 0..MAX_NESTING
  BY NestingAssumption DEF NestingAssumption
<1>2. Verbs[MAX_NESTING]
        = Leaf \union IF MAX_NESTING = 0 THEN {} ELSE Gathers(Verbs[MAX_NESTING - 1])
  BY <1>1, NestUnfold DEF Verbs
<1> QED BY <1>1, <1>2, RenderedAlwaysOk DEF Verb

\* What Twilio reads of one verb.
LEMMA NodesOfVerb ==
  ASSUME NEW v \in Verb
  PROVE  /\ ElementName[v.verb] \in Name
         /\ NodesOf(MAX_NESTING, Root)[v] \in Seq(Node)
         /\ Block(NodesOf(MAX_NESTING, Root)[v], Root, ElementName[v.verb])
         /\ \E C : NodesOf(MAX_NESTING, Root)[v] = VerbNodes(v, Root, C)
  BY VerbIs, RootIsPath DEF RenderedOk, OkElement

\* A verb with the parameters put in is a verb of the same kind
\* (webhook.rs:502-520).
LEMMA SubstituteVerbType ==
  ASSUME NEW r \in Requests, NEW v \in Verb
  PROVE  /\ SubstituteVerb(v, r.body.form) \in Verb
         /\ SubstituteVerb(v, r.body.form).verb = v.verb
<1> DEFINE p == r.body.form
<1>0. \A t \in Text : Substitute(t, p) \in Text
  BY FormType, SubstituteIsSpread
<1> HIDE DEF p
<1>1. CASE v.verb = "say"
  <2>1. v \in [verb : {"say"}, text : Text, voice : Option(Text), language : Option(Text)]
    BY <1>1, VerbIs, VerbFields
  <2>2. SubstituteVerb(v, p) \in [verb : {"say"}, text : Text, voice : Option(Text),
                                  language : Option(Text)]
    BY <1>0, <1>1, <2>1 DEF SubstituteVerb
  <2> QED BY <1>1, <2>2, VerbIs DEF Leaf, p
<1>2. CASE v.verb = "message"
  <2>1. v \in [verb : {"message"}, body : Text, media_url : Seq(Text)]
    BY <1>2, VerbIs, VerbFields
  <2>2. SubstituteVerb(v, p) \in [verb : {"message"}, body : Text, media_url : Seq(Text)]
    BY <1>0, <1>2, <2>1 DEF SubstituteVerb
  <2> QED BY <1>2, <2>2, VerbIs DEF Leaf, p
<1>3. CASE v.verb \notin {"say", "message"}
  BY <1>3 DEF SubstituteVerb, p
<1> QED BY <1>1, <1>2, <1>3

\* What is read of that verb is what is read of the verb, with the parameters
\* put in what it says or messages and nowhere else.
LEMMA BecomesVerb ==
  ASSUME NEW r \in Requests, NEW v \in Verb
  PROVE  Becomes(r, NodesOf(MAX_NESTING, Root)[v],
                 NodesOf(MAX_NESTING, Root)[SubstituteVerb(v, r.body.form)])
<1> DEFINE w == SubstituteVerb(v, r.body.form)
           M == NodesOf(MAX_NESTING, Root)[v]
           N == NodesOf(MAX_NESTING, Root)[w]
<1>0. w \in Verb /\ w.verb = v.verb
  BY SubstituteVerbType
<1>1. CASE v.verb = "say"
  <2> DEFINE q == Append(Root, "Say")
             y == Substitute(v.text, r.body.form)
             A == AttrNode(q, "voice", v.voice) \o AttrNode(q, "language", v.language)
  <2>1. v \in [verb : {"say"}, text : Text, voice : Option(Text), language : Option(Text)]
    BY <1>1, VerbIs, VerbFields
  <2>2. w.text = y /\ w.voice = v.voice /\ w.language = v.language /\ w.verb = "say"
    BY <1>1, <2>1 DEF SubstituteVerb
  <2>3. "Say" \in Name /\ "voice" \in Name /\ "language" \in Name
    BY NamesAreNames DEF Names
  <2>4. q \in Path /\ q \in Spoken
    BY <2>3, RootIsPath, ExtendsAppend, SpokenPaths DEF Name
  <2>5. ElementName["say"] = "Say"
    BY DEF ElementName
  <2> HIDE DEF w, q
  <2>6. M = Open(Root, "Say") \o (A \o TextNode(q, v.text))
    <3>1. PICK C : M = VerbNodes(v, Root, C)
      BY NodesOfVerb
    <3> HIDE DEF M
    <3> QED BY <1>1, <3>1, <2>5 DEF VerbNodes, VerbAttrs, VerbContent, q
  <2>7. N = Open(Root, "Say") \o (A \o TextNode(q, y))
    <3>1. PICK C : N = VerbNodes(w, Root, C)
      BY <1>0, NodesOfVerb
    <3> HIDE DEF N, y
    <3> QED BY <2>2, <3>1, <2>5 DEF VerbNodes, VerbAttrs, VerbContent, q
  <2>8. Becomes(r, A, A)
    <3>1. Becomes(r, AttrNode(q, "voice", v.voice), AttrNode(q, "voice", v.voice))
      BY <2>1, <2>3, <2>4, BecomesAttr
    <3>2. Becomes(r, AttrNode(q, "language", v.language), AttrNode(q, "language", v.language))
      BY <2>1, <2>3, <2>4, BecomesAttr
    <3> QED BY <3>1, <3>2, BecomesConcat
  <2>9. Becomes(r, TextNode(q, v.text), TextNode(q, y))
    BY <2>1, <2>4, BecomesText
  <2>10. Becomes(r, Open(Root, "Say"), Open(Root, "Say"))
    BY <2>3, RootIsPath, BecomesOpen
  <2> HIDE DEF A, y, M, N
  <2>11. Becomes(r, A \o TextNode(q, v.text), A \o TextNode(q, y))
    BY <2>8, <2>9, BecomesConcat
  <2>12. Becomes(r, M, N)
    BY <2>6, <2>7, <2>10, <2>11, BecomesConcat
  <2> QED BY <2>12 DEF M, N, w
<1>2. CASE v.verb = "message"
  <2> DEFINE q == Append(Root, "Message")
             qb == Append(q, "Body")
             y == Substitute(v.body, r.body.form)
             D == Spread(TextElementNodes(q, "Media"), v.media_url)
             B(t) == Open(q, "Body") \o (<<>> \o TextNode(qb, t))
  <2>1. v \in [verb : {"message"}, body : Text, media_url : Seq(Text)]
    BY <1>2, VerbIs, VerbFields
  <2>2. w.body = y /\ w.media_url = v.media_url /\ w.verb = "message" /\ y \in Text
    <3>1. y \in Text
      BY <2>1, FormType, SubstituteIsSpread
    <3> HIDE DEF y
    <3>2. w = [v EXCEPT !.body = y]
      BY <1>2 DEF SubstituteVerb, y
    <3> HIDE DEF w
    <3> QED BY <3>1, <3>2, <2>1
  <2>3. "Message" \in Name /\ "Body" \in Name /\ "Media" \in Name
    BY NamesAreNames DEF Names
  <2>4. q \in Path /\ qb \in Path /\ qb \in Spoken
    <3>1. q \in Path
      BY <2>3, RootIsPath, ExtendsAppend DEF Name
    <3>2. qb \in Path
      BY <2>3, <3>1, ExtendsAppend DEF Name
    <3> QED BY <3>1, <3>2, SpokenPaths
  <2>5. ElementName["message"] = "Message"
    BY DEF ElementName
  <2> HIDE DEF w
  <2>a. \A t \in Text : TextElementNodes(q, "Body")[t] = B(t)
    BY DEF TextElementNodes
  <2>6. M = Open(Root, "Message") \o (<<>> \o (B(v.body) \o D))
    <3>1. PICK C : M = VerbNodes(v, Root, C)
      BY NodesOfVerb
    <3>2. TextElementNodes(q, "Body")[v.body] = B(v.body)
      BY <2>1, <2>a
    <3>3. VerbNodes(v, Root, C)
            = Open(Root, "Message") \o (<<>> \o (TextElementNodes(q, "Body")[v.body] \o D))
      BY <1>2, <2>5 DEF VerbNodes, VerbAttrs, VerbContent
    <3> HIDE DEF M, B, D, q
    <3> QED BY <3>1, <3>2, <3>3
  <2>7. N = Open(Root, "Message") \o (<<>> \o (B(y) \o D))
    <3>1. PICK C : N = VerbNodes(w, Root, C)
      BY <1>0, NodesOfVerb
    <3>2. TextElementNodes(q, "Body")[y] = B(y)
      BY <2>2, <2>a
    <3> HIDE DEF y
    <3>3. VerbNodes(w, Root, C)
            = Open(Root, "Message") \o (<<>> \o (TextElementNodes(q, "Body")[y] \o D))
      BY <2>2, <2>5 DEF VerbNodes, VerbAttrs, VerbContent
    <3> HIDE DEF N, B, D, q
    <3> QED BY <3>1, <3>2, <3>3
  <2>8. Becomes(r, B(v.body), B(y))
    <3>1. Becomes(r, TextNode(qb, v.body), TextNode(qb, y))
      BY <2>1, <2>4, BecomesText
    <3>2. Becomes(r, <<>>, <<>>)
      BY BecomesEmpty
    <3>3. Becomes(r, Open(q, "Body"), Open(q, "Body"))
      BY <2>3, <2>4, BecomesOpen
    <3> HIDE DEF y, qb, q
    <3>4. Becomes(r, <<>> \o TextNode(qb, v.body), <<>> \o TextNode(qb, y))
      BY <3>1, <3>2, BecomesConcat
    <3> QED BY <3>3, <3>4, BecomesConcat
  <2>9. Becomes(r, D, D)
    <3> DEFINE f == TextElementNodes(q, "Media")
    <3>1. f \in [Text -> Seq(Node)]
      BY <2>3, <2>4, OkTextElements
    <3>2. ASSUME NEW t \in Text PROVE Becomes(r, f[t], f[t])
      <4>1. Block(f[t], q, "Media") /\ f[t] \in Seq(Node)
        BY <2>3, <2>4, <3>1, OkTextElement DEF OkElement
      <4>2. \A i \in DOMAIN f[t] : Extends(f[t][i].path, Append(q, "Media"))
        <5> HIDE DEF f, q
        <5>1. "Media" \in Lexeme
          BY <2>3 DEF Name
        <5> QED BY <2>4, <4>1, <5>1, BlockInside
      <4>3. \A i \in DOMAIN f[t] : f[t][i].path \notin Spoken
        BY <4>2, SpokenPaths
      <4> HIDE DEF f
      <4> QED BY <4>1, <4>3, BecomesSame
    <3> HIDE DEF f
    <3> QED BY <2>1, <3>1, <3>2, BecomesList DEF f
  <2>10. Becomes(r, Open(Root, "Message"), Open(Root, "Message"))
    BY <2>3, RootIsPath, BecomesOpen
  <2>11. Becomes(r, <<>>, <<>>)
    BY BecomesEmpty
  <2> HIDE DEF B, D, y, M, N, q, qb
  <2>12. Becomes(r, B(v.body) \o D, B(y) \o D)
    BY <2>8, <2>9, BecomesConcat
  <2>13. Becomes(r, <<>> \o (B(v.body) \o D), <<>> \o (B(y) \o D))
    BY <2>11, <2>12, BecomesConcat
  <2>14. Becomes(r, M, N)
    BY <2>6, <2>7, <2>10, <2>13, BecomesConcat
  <2> QED BY <2>14 DEF M, N, w
<1>3. CASE v.verb \notin {"say", "message"}
  <2>1. w = v
    BY <1>3 DEF SubstituteVerb
  <2> DEFINE name == ElementName[v.verb]
  <2>2. name \notin {"Say", "Message"}
    <3>1. v.verb \in Kinds
      BY VerbIs, VerbFields DEF Kinds
    <3> QED BY <1>3, <3>1 DEF ElementName, Kinds
  <2>3. M \in Seq(Node) /\ Block(M, Root, name) /\ name \in Lexeme
    BY NodesOfVerb DEF Name
  <2> HIDE DEF M, name
  <2>4. \A i \in DOMAIN M : Extends(M[i].path, Append(Root, name))
    BY <2>3, RootIsPath, BlockInside
  <2>5. \A i \in DOMAIN M : M[i].path \notin Spoken
    BY <2>2, <2>4, SpokenPaths
  <2>6. Becomes(r, M, M)
    BY <2>3, <2>5, BecomesSame
  <2> QED BY <2>1, <2>6 DEF M
<1> QED BY <1>1, <1>2, <1>3

\* The verbs a configured reply is rendered from.
FilledIn(verbs, r) == [i \in DOMAIN verbs |-> SubstituteVerb(verbs[i], r.body.form)]

\* A configured reply with the parameters put in is as many verbs of the same
\* kinds.
LEMMA FilledInType ==
  ASSUME NEW r \in Requests, NEW verbs \in Seq(Verb)
  PROVE  /\ FilledIn(verbs, r) \in Seq(Verb)
         /\ DOMAIN FilledIn(verbs, r) = DOMAIN verbs
         /\ \A i \in DOMAIN verbs :
              /\ FilledIn(verbs, r)[i] = SubstituteVerb(verbs[i], r.body.form)
              /\ FilledIn(verbs, r)[i].verb = verbs[i].verb
<1> DEFINE y == FilledIn(verbs, r)
<1>1. Len(verbs) \in Nat /\ DOMAIN verbs = 1..Len(verbs) /\ \A i \in DOMAIN verbs : verbs[i] \in Verb
  OBVIOUS
<1>2. DOMAIN y = DOMAIN verbs /\ \A i \in DOMAIN verbs : y[i] = SubstituteVerb(verbs[i], r.body.form)
  BY DEF FilledIn
<1>3. \A i \in DOMAIN verbs : SubstituteVerb(verbs[i], r.body.form) \in Verb
                               /\ SubstituteVerb(verbs[i], r.body.form).verb = verbs[i].verb
  BY <1>1, SubstituteVerbType
<1>4. y = [i \in 1..Len(verbs) |-> y[i]]
  BY <1>1 DEF FilledIn
<1> HIDE DEF y
<1>5. y \in [1..Len(verbs) -> Verb]
  BY <1>1, <1>2, <1>3, <1>4
<1>6. y \in Seq(Verb)
  BY <1>1, <1>5, FunctionIsSeq
<1> QED BY <1>2, <1>3, <1>6 DEF y

\* A function applied to each element is spread like one that makes a
\* sequence of each.
LEMMA MapIsSpread ==
  ASSUME NEW S, NEW F \in [S -> S], NEW g \in [S -> Seq(S)], \A e \in S : g[e] = <<F[e]>>,
         NEW x \in Seq(S)
  PROVE  [i \in DOMAIN x |-> F[x[i]]] = Spread(g, x)
<1> DEFINE y == [i \in DOMAIN x |-> F[x[i]]]
           one == [e \in S |-> <<e>>]
<1>1. Len(x) \in Nat /\ DOMAIN x = 1..Len(x) /\ \A i \in DOMAIN x : x[i] \in S
  OBVIOUS
<1>2. y \in [1..Len(x) -> S]
  BY <1>1
<1>3. y \in Seq(S) /\ DOMAIN y = DOMAIN x /\ \A i \in DOMAIN x : y[i] = F[x[i]] /\ y[i] \in S
  BY <1>1, <1>2, FunctionIsSeq
<1>4. one \in [S -> Seq(S)] /\ \A e \in S : one[e] = <<e>>
  OBVIOUS
<1> HIDE DEF one, y
<1>5. Spread(one, y) = y
  <2>1. \A i \in DOMAIN y : one[y[i]] = <<y[i]>>
    BY <1>3, <1>4
  <2>2. \A z \in Seq(S) : (\A i \in DOMAIN z : one[z[i]] = <<z[i]>>) => Spread(one, z) = z
    BY <1>4, SpreadIdentity
  <2> QED BY <1>3, <2>1, <2>2
<1>6. [i \in DOMAIN y |-> one[y[i]]] = [i \in DOMAIN x |-> g[x[i]]]
  <2>1. ASSUME NEW i \in DOMAIN x PROVE one[y[i]] = g[x[i]]
    BY <1>1, <1>3, <1>4
  <2> QED BY <1>3, <2>1
<1>7. Spread(one, y) = Spread(g, x)
  BY <1>6 DEF Spread
<1> QED BY <1>5, <1>7 DEF y

\* What Twilio reads of the document in which the parameters were put in.
LEMMA ReadFilledIn ==
  ASSUME NEW r \in Requests, NEW verbs \in Seq(Verb)
  PROVE  Becomes(r, Read(render(verbs)), Read(render(FilledIn(verbs, r))))
<1> DEFINE h == NodesOf(MAX_NESTING, Root)
           h2 == [v \in Verb |-> h[SubstituteVerb(v, r.body.form)]]
           y == FilledIn(verbs, r)
<1>1. h \in [Verb -> Seq(Node)]
  BY VerbIs, RootIsPath DEF RenderedOk
<1>2. \A v \in Verb : Becomes(r, h[v], h2[v])
  BY BecomesVerb
<1>3. h2 \in [Verb -> Seq(Node)]
  <2>1. \A v \in Verb : h[SubstituteVerb(v, r.body.form)] \in Seq(Node)
    BY <1>1, SubstituteVerbType
  <2> HIDE DEF h
  <2> QED BY <2>1
<1>4. Spread(h2, verbs) = Spread(h, y)
  <2>1. \A v \in Verb : h2[v] = h[SubstituteVerb(v, r.body.form)]
    OBVIOUS
  <2>2. \A i \in DOMAIN verbs : verbs[i] \in Verb
    OBVIOUS
  <2> HIDE DEF h, h2
  <2>3. ASSUME NEW i \in DOMAIN verbs PROVE h2[verbs[i]] = h[y[i]]
    BY <2>1, <2>2, FilledInType
  <2>4. [i \in DOMAIN verbs |-> h2[verbs[i]]] = [i \in DOMAIN y |-> h[y[i]]]
    <3>1. DOMAIN y = DOMAIN verbs
      BY FilledInType
    <3> HIDE DEF y
    <3> QED BY <2>3, <3>1
  <2> HIDE DEF y
  <2> QED BY <2>4 DEF Spread
<1> HIDE DEF h, h2
<1>5. Becomes(r, Spread(h, verbs), Spread(h2, verbs))
  BY <1>1, <1>2, <1>3, BecomesList
<1>6. Becomes(r, BodyNodes(verbs), BodyNodes(y))
  <2>1. BodyNodes(verbs) = Spread(h, verbs) /\ BodyNodes(y) = Spread(h, y)
    BY DEF BodyNodes, h
  <2> QED BY <1>4, <1>5, <2>1
<1>7. Becomes(r, Open(<<>>, "Response"), Open(<<>>, "Response"))
  BY RootIsPath, BecomesOpen
<1>8. Becomes(r, <<>> \o BodyNodes(verbs), <<>> \o BodyNodes(y))
  BY <1>6, BecomesEmpty, BecomesConcat
<1>9. Becomes(r, DocumentNodes(verbs), DocumentNodes(y))
  BY <1>7, <1>8, BecomesConcat DEF DocumentNodes
<1>10. y \in Seq(Verb)
  BY FilledInType
<1> HIDE DEF y
<1>11. Read(render(verbs)) = DocumentNodes(verbs) /\ Read(render(y)) = DocumentNodes(y)
  BY <1>10, ReadRendered
<1> QED BY <1>9, <1>11 DEF y

\* ReadsAsConfigured, of any list of verbs.
LEMMA ReadAsConfigured ==
  ASSUME req \in Requests, NEW verbs \in Seq(Verb)
  PROVE  /\ WellFormed(render(FilledIn(verbs, req)))
         /\ Read(render(FilledIn(verbs, req)))
              = LET nodes == Read(render(verbs))
                IN  [i \in DOMAIN nodes |->
                        IF nodes[i].kind = "text" /\ nodes[i].path \in
                                {<<"Response", "Say">>, <<"Response", "Message", "Body">>}
                        THEN [nodes[i] EXCEPT !.text = Filled(@)] ELSE nodes[i]]
<1> DEFINE nodes == Read(render(verbs))
           F(n) == IF n.kind = "text" /\ n.path \in
                            {<<"Response", "Say">>, <<"Response", "Message", "Body">>}
                   THEN [n EXCEPT !.text = Filled(@)] ELSE n
<1>1. WellFormed(render(FilledIn(verbs, req)))
  BY FilledInType, ReadRendered
<1>2. Becomes(req, nodes, Read(render(FilledIn(verbs, req))))
  BY ReadFilledIn
<1> HIDE DEF nodes
<1>3. nodes \in Seq(Node) /\ Read(render(FilledIn(verbs, req))) = Spread(Changing(req), nodes)
  BY <1>2 DEF Becomes
<1>4. Spread(Changing(req), nodes) = [i \in DOMAIN nodes |-> Changed(req)[nodes[i]]]
  <2>1. Changed(req) \in [Node -> Node] /\ Changing(req) \in [Node -> Seq(Node)]
    BY ChangingType
  <2>2. \A n \in Node : Changing(req)[n] = <<Changed(req)[n]>>
    BY DEF Changing
  <2> DEFINE C == Changed(req)
             g == Changing(req)
  <2> HIDE DEF C, g
  <2>3. \A z \in Seq(Node) : [i \in DOMAIN z |-> C[z[i]]] = Spread(g, z)
    BY <2>1, <2>2, MapIsSpread DEF C, g
  <2> QED BY <1>3, <2>3 DEF C, g
<1>5. ASSUME NEW i \in DOMAIN nodes PROVE Changed(req)[nodes[i]] = F(nodes[i])
  <2> DEFINE n == nodes[i]
  <2>0. n \in Node
    BY <1>3
  <2>1. n \in Node /\ n.text \in String
    <3> HIDE DEF n
    <3> QED BY <2>0 DEF Node
  <2> HIDE DEF n
  <2>2. Filled(n.text) = Spread(Filling(req), n.text)
    BY <2>1, FilledIs
  <2>3. Changed(req)[n] = F(n)
    BY <2>1, <2>2 DEF Changed, Spoken
  <2> QED BY <2>3 DEF n
<1>6. [i \in DOMAIN nodes |-> Changed(req)[nodes[i]]] = [i \in DOMAIN nodes |-> F(nodes[i])]
  BY <1>5
<1> QED BY <1>1, <1>3, <1>4, <1>6 DEF nodes

-----------------------------------------------------------------------------
(* The handler. *)

\* What is served is rendered from what was authored; the signature decided
\* once; nothing is served before the answer.
Served ==
    /\ source \in {"script", "tool"} =>
         authored \in Seq(Verb) /\ response.document = render(authored)
    /\ source = "template" =>
         authored \in Seq(Verb) /\ response.document = render(FilledIn(authored, req))

\* The inductive invariant: the configuration and the request stay what they
\* were; a request that is not answered was served nothing, and one that is
\* was refused exactly if its signature was wrong; what was served is
\* rendered from what was authored; a tool was asked with what was captured.
IInv ==
    /\ cfg \in Configs
    /\ req \in Requests
    /\ TypeOK
    /\ pc # "answered" => source = "none" /\ response.status = 0
    /\ pc # "new" => (response.status = 403 <=> ~CheckSignature(cfg, req))
    /\ Served
    /\ asked # <<>> => asked = <<Captured(req.body.form)>>

\* A configured SMS is a verb.
LEMMA MessageIsVerb == \A t \in Text : Message(t) \in Verb
<1> TAKE t \in Text
<1>1. Message(t) \in [verb : {"message"}, body : Text, media_url : Seq(Text)]
  <2>1. <<>> \in Seq(Text)
    OBVIOUS
  <2> QED BY <2>1 DEF Message
<1> QED BY <1>1, VerbIs DEF Leaf

\* The text of a tool, said, is a verb.
LEMMA SayIsVerb == \A t \in Text : Say(t) \in Verb
<1> TAKE t \in Text
<1>1. Say(t) \in [verb : {"say"}, text : Text, voice : Option(Text), language : Option(Text)]
  <2>1. <<>> \in Option(Text)
    BY DEF Option
  <2> QED BY <2>1 DEF Say
<1> QED BY <1>1, VerbIs DEF Leaf

\* A tool's verbs are verbs.
LEMMA ToolVerbs ==
  ASSUME NEW value \in ToolResults, VerbsFromToolResult(value) # <<>>
  PROVE  VerbsFromToolResult(value)[1] \in Seq(Verb)
<1>0. /\ value.parses => value.twiml_verbs \in Option(Seq(Verb))
      /\ value.text \in Option(Text)
  BY VerbTypes DEF VerbTypes
<1>1. CASE value.twiml_verbs # <<>> /\ value.parses
  <2>1. VerbsFromToolResult(value) = value.twiml_verbs
    BY <1>1 DEF VerbsFromToolResult
  <2>2. value.twiml_verbs \in Seq(Seq(Verb))
    BY <1>0, <1>1 DEF Option
  <2> QED BY <1>1, <2>1, <2>2
<1>2. CASE (value.twiml_verbs = <<>> \/ ~value.parses) /\ value.text # <<>>
  <2> DEFINE s == Say(value.text[1])
  <2>1. VerbsFromToolResult(value) = <<<<s>>>>
    BY <1>2 DEF VerbsFromToolResult
  <2>2. value.text[1] \in Text
    <3>1. value.text \in Seq(Text)
      BY <1>0 DEF Option
    <3> QED BY <1>2, <3>1
  <2>3. s \in Verb
    BY <2>2, SayIsVerb
  <2> HIDE DEF s
  <2>4. <<s>> \in Seq(Verb)
    BY <2>3
  <2> QED BY <2>1, <2>4
<1>3. CASE ~(value.twiml_verbs # <<>> /\ value.parses) /\ value.text = <<>>
  BY <1>3 DEF VerbsFromToolResult
<1> QED BY <1>1, <1>2, <1>3

\* The configured replies.
ConfiguredVerbs ==
    CASE Route(req) = "voice" -> cfg.inbound_voice.default_twiml_verbs
      [] Route(req) = "sms" ->
           [i \in DOMAIN cfg.inbound_sms.auto_reply |-> Message(cfg.inbound_sms.auto_reply[i])]
      [] OTHER -> <<>>

\* The configured replies are verbs.
LEMMA ConfiguredVerbsType ==
  ASSUME cfg \in Configs
  PROVE  ConfiguredVerbs \in Seq(Verb)
<1>1. cfg.inbound_voice.default_twiml_verbs \in Seq(Verb)
  BY ConfigTypes DEF ConfigTypes
<1> DEFINE a == cfg.inbound_sms.auto_reply
           y == [i \in DOMAIN a |-> Message(a[i])]
<1>2. a \in Seq(Text)
  BY ConfigTypes DEF ConfigTypes, Option
<1> HIDE DEF a
<1>3. Len(a) \in Nat /\ DOMAIN a = 1..Len(a) /\ \A i \in 1..Len(a) : a[i] \in Text
  BY <1>2
<1>4. y \in [1..Len(a) -> Verb]
  BY <1>3, MessageIsVerb
<1>5. y \in Seq(Verb)
  <2> HIDE DEF y
  <2> QED BY <1>3, <1>4, FunctionIsSeq
<1>6. <<>> \in Seq(Verb)
  OBVIOUS
<1> QED BY <1>1, <1>5, <1>6 DEF ConfiguredVerbs, a

\* What is captured is an option.
LEMMA CapturedLength ==
  ASSUME req \in Requests
  PROVE  Len(Captured(req.body.form)) <= 1
<1>1. \A key : Param(req.body.form, key) \in Option(Text)
  BY FormType, ParamType
<1>2. Len(<<>>) = 0
  OBVIOUS
<1> QED BY <1>1, <1>2 DEF Captured, Option

\* The invariant holds of a request that has just come.
LEMMA InitIInv ==
  ASSUME Init
  PROVE  IInv
<1>1. Len(<<>>) = 0 /\ DOMAIN <<>> = {}
  OBVIOUS
<1> QED BY <1>1 DEF Init, IInv, TypeOK, Served

\* What depends on the configuration and the request alone does not change.
LEMMA SameRequest ==
  ASSUME cfg' = cfg, req' = req
  PROVE  /\ CheckSignature(cfg, req)' = CheckSignature(cfg, req)
         /\ Captured(req.body.form)' = Captured(req.body.form)
         /\ Route(req)' = Route(req) /\ (cfg \in Configs)' = (cfg \in Configs)
         /\ (req \in Requests)' = (req \in Requests)
         /\ \A verbs : FilledIn(verbs, req)' = FilledIn(verbs, req)
  BY DEF Captured

\* Refuse keeps the invariant.
LEMMA RefuseIInv ==
  ASSUME IInv, Refuse
  PROVE  IInv'
<1>1. /\ pc = "new" /\ source = "none" /\ ~CheckSignature(cfg, req) /\ pc' = "answered"
      /\ response'.status = 403
      /\ cfg' = cfg /\ req' = req /\ source' = source /\ authored' = authored /\ asked' = asked
  BY DEF IInv, Refuse, Respond
<1>2. TypeOK'
  BY <1>1, SameRequest DEF IInv, TypeOK
<1>3. Served'
  BY <1>1 DEF Served
<1> QED BY <1>1, <1>2, <1>3, SameRequest DEF IInv

\* So does a status callback, or a path that is no route.
LEMMA HandleWithoutDocumentIInv ==
  ASSUME IInv, HandleWithoutDocument
  PROVE  IInv'
<1>1. /\ pc = "new" /\ source = "none" /\ CheckSignature(cfg, req) /\ pc' = "answered"
      /\ response'.status \in {204, 404}
      /\ cfg' = cfg /\ req' = req /\ source' = source /\ authored' = authored /\ asked' = asked
  BY DEF IInv, HandleWithoutDocument, Respond
<1>2. TypeOK'
  BY <1>1, SameRequest DEF IInv, TypeOK
<1>3. Served'
  BY <1>1 DEF Served
<1> QED BY <1>1, <1>2, <1>3, SameRequest DEF IInv

\* So does finding out who answers.
LEMMA HandleIInv ==
  ASSUME IInv, Handle
  PROVE  IInv'
<1>1. /\ pc = "new" /\ source = "none" /\ CheckSignature(cfg, req)
      /\ pc' \in {"script", "tool", "template"} /\ (pc' = "script" => Route(req) = "voice")
      /\ cfg' = cfg /\ req' = req /\ source' = source /\ authored' = authored /\ asked' = asked
      /\ response' = response
  BY DEF IInv, Handle, AskOrFallBack
<1>2. TypeOK'
  BY <1>1, SameRequest DEF IInv, TypeOK
<1>3. Served'
  BY <1>1 DEF Served
<1> QED BY <1>1, <1>2, <1>3, SameRequest DEF IInv

\* A step that serves verbs that its author wrote.
LEMMA ServeIInv ==
  ASSUME IInv, cfg' = cfg, req' = req, pc \in {"script", "tool", "template"},
         NEW from \in {"script", "tool", "template"}, NEW verbs \in Seq(Verb),
         from = "script" => pc = "script",
         Serve(from, verbs, IF from = "template" THEN render(FilledIn(verbs, req)) ELSE render(verbs)),
         asked' = asked \/ asked' = <<Captured(req.body.form)>>
  PROVE  IInv'
<1>1. /\ pc' = "answered" /\ source' = from /\ authored' = verbs /\ response'.status = 200
      /\ response'.document
           = IF from = "template" THEN render(FilledIn(verbs, req)) ELSE render(verbs)
  BY DEF Serve, Respond
<1>2. Len(<<Captured(req.body.form)>>) = 1 /\ Len(Captured(req.body.form)) <= 1
  BY CapturedLength DEF IInv
<1>3. TypeOK'
  <2>1. (Len(asked) <= 1 /\ \A i \in DOMAIN asked : Len(asked[i]) <= 1)'
    <3>1. CASE asked' = asked
      BY <3>1 DEF IInv, TypeOK
    <3>2. CASE asked' = <<Captured(req.body.form)>>
      <4> DEFINE w == Captured(req.body.form)
      <4>1. asked' = <<w>> /\ Len(w) <= 1
        BY <3>2, <1>2
      <4> HIDE DEF w
      <4> QED BY <4>1
    <3> QED BY <3>1, <3>2
  <2>2. from = "script" => Route(req) = "voice"
    BY DEF IInv, TypeOK
  <2> QED BY <1>1, <2>1, <2>2, SameRequest DEF TypeOK
<1>4. Served'
  BY <1>1, SameRequest DEF Served
<1>5. (response.status = 403)' <=> (~CheckSignature(cfg, req))'
  BY <1>1, SameRequest DEF IInv
<1> QED BY <1>1, <1>3, <1>4, <1>5, SameRequest DEF IInv

\* A step that serves nothing of an author's.
LEMMA GoOnIInv ==
  ASSUME IInv, cfg' = cfg, req' = req, pc \in {"script", "tool", "template"},
         source' = source, authored' = authored,
         \/ pc' \in {"tool", "template"} /\ response' = response
         \/ pc' = "answered" /\ response'.status = 200,
         asked' = asked \/ asked' = <<Captured(req.body.form)>>
  PROVE  IInv'
<1>1. source = "none" /\ response.status = 0
  BY DEF IInv
<1>2. Len(Captured(req.body.form)) <= 1
  BY CapturedLength DEF IInv
<1>3. TypeOK'
  <2>1. (Len(asked) <= 1 /\ \A i \in DOMAIN asked : Len(asked[i]) <= 1)'
    <3>1. CASE asked' = asked
      BY <3>1 DEF IInv, TypeOK
    <3>2. CASE asked' = <<Captured(req.body.form)>>
      <4> DEFINE w == Captured(req.body.form)
      <4>1. asked' = <<w>> /\ Len(w) <= 1
        BY <3>2, <1>2
      <4> HIDE DEF w
      <4> QED BY <4>1
    <3> QED BY <3>1, <3>2
  <2> QED BY <1>1, <2>1, SameRequest DEF TypeOK
<1>4. Served'
  BY <1>1 DEF Served
<1>5. (response.status = 403)' <=> (~CheckSignature(cfg, req))'
  BY <1>1, SameRequest DEF IInv
<1> QED BY <1>1, <1>3, <1>4, <1>5, SameRequest DEF IInv

\* So does looking for a staged script.
LEMMA TakeScriptIInv ==
  ASSUME IInv, TakeScript
  PROVE  IInv'
<1>1. pc = "script" /\ cfg' = cfg /\ req' = req /\ asked' = asked
  BY DEF TakeScript
<1>2. ASSUME NEW verbs \in Scripts, Serve("script", verbs, render(verbs)) PROVE IInv'
  <2>1. verbs \in Seq(Verb)
    BY VerbTypes DEF VerbTypes
  <2> QED BY <1>1, <1>2, <2>1, ServeIInv
<1>3. CASE AskOrFallBack /\ UNCHANGED <<source, authored, response>>
  BY <1>1, <1>3, GoOnIInv DEF AskOrFallBack
<1> QED BY <1>2, <1>3 DEF TakeScript

\* So does the handler's tool.
LEMMA RunHandlerToolIInv ==
  ASSUME IInv, RunHandlerTool
  PROVE  IInv'
<1>1. pc = "tool" /\ cfg' = cfg /\ req' = req /\ asked' = <<Captured(req.body.form)>>
  BY DEF RunHandlerTool
<1>2. ASSUME NEW value \in ToolResults, VerbsFromToolResult(value) # <<>>,
             Serve("tool", VerbsFromToolResult(value)[1], render(VerbsFromToolResult(value)[1]))
      PROVE  IInv'
  <2>1. VerbsFromToolResult(value)[1] \in Seq(Verb)
    BY <1>2, ToolVerbs
  <2> QED BY <1>1, <1>2, <2>1, ServeIInv
<1>3. CASE pc' = "template" /\ UNCHANGED <<source, authored, response>>
  BY <1>1, <1>3, GoOnIInv
<1> QED BY <1>2, <1>3 DEF RunHandlerTool

\* So does the configured reply.
LEMMA TemplateIInv ==
  ASSUME IInv, Template
  PROVE  IInv'
<1>1. pc = "template" /\ cfg' = cfg /\ req' = req /\ asked' = asked
  BY DEF Template
<1>2. CASE Serve("template", ConfiguredVerbs, render(FilledIn(ConfiguredVerbs, req)))
  <2>1. ConfiguredVerbs \in Seq(Verb)
    BY ConfiguredVerbsType DEF IInv
  <2> QED BY <1>1, <1>2, <2>1, ServeIInv
<1>3. ASSUME NEW document, Respond(200, document), UNCHANGED <<source, authored>> PROVE IInv'
  BY <1>1, <1>3, GoOnIInv DEF Respond
<1> QED BY <1>2, <1>3 DEF Template, ConfiguredVerbs, FilledIn

\* The invariant is inductive.
THEOREM Invariance == Spec => []IInv
<1>1. Init => IInv
  BY InitIInv
<1>2. IInv /\ [Next]_vars => IInv'
  <2> SUFFICES ASSUME IInv, [Next]_vars PROVE IInv'
    OBVIOUS
  <2>1. CASE UNCHANGED vars
    <3>1. cfg' = cfg /\ req' = req /\ pc' = pc /\ source' = source /\ authored' = authored
          /\ asked' = asked /\ response' = response
      BY <2>1 DEF vars
    <3>2. TypeOK' /\ Served'
      BY <3>1, SameRequest DEF IInv, TypeOK, Served
    <3> QED BY <3>1, <3>2, SameRequest DEF IInv
  <2> QED BY <2>1, RefuseIInv, HandleWithoutDocumentIInv, HandleIInv, TakeScriptIInv,
             RunHandlerToolIInv, TemplateIInv DEF Next
<1> QED BY <1>1, <1>2, PTL DEF Spec

\* The types of Reply's state; only calls are answered by a script
\* (webhook.rs:174-372).
THEOREM TypeCorrect == Spec => []TypeOK
<1>1. IInv => TypeOK
  BY DEF IInv
<1> QED BY <1>1, Invariance, PTL

\* Whatever verbs a script, a tool or an operator authored, Twilio executes
\* one element for each, in their order (twiml.rs:103-224,
\* webhook.rs:195-325).
THEOREM ExecutionInOrder == Spec => []ExecutedAsAuthored
<1>1. IInv => ExecutedAsAuthored
  <2> SUFFICES ASSUME IInv, source # "none"
               PROVE  /\ WellFormed(response.document)
                      /\ Executed(response.document)
                           = [i \in DOMAIN authored |-> ElementName[authored[i].verb]]
    BY DEF ExecutedAsAuthored
  <2>1. authored \in Seq(Verb) /\ req \in Requests
    BY DEF IInv, Served, TypeOK
  <2>2. CASE response.document = render(authored)
    BY <2>1, <2>2, ReadRendered, ExecutedRendered
  <2>3. CASE response.document = render(FilledIn(authored, req))
    <3> DEFINE y == FilledIn(authored, req)
    <3>1. y \in Seq(Verb) /\ DOMAIN y = DOMAIN authored
          /\ \A i \in DOMAIN authored : y[i].verb = authored[i].verb
      BY <2>1, FilledInType
    <3> HIDE DEF y
    <3>2. [i \in DOMAIN y |-> ElementName[y[i].verb]]
            = [i \in DOMAIN authored |-> ElementName[authored[i].verb]]
      BY <3>1
    <3>3. WellFormed(render(y)) /\ Executed(render(y)) = [i \in DOMAIN y |-> ElementName[y[i].verb]]
      BY <3>1, ReadRendered, ExecutedRendered
    <3> QED BY <2>3, <3>2, <3>3 DEF y
  <2>4. source \in {"script", "tool", "template"}
    BY DEF IInv, TypeOK
  <2> QED BY <2>2, <2>3, <2>4 DEF IInv, Served
<1> QED BY <1>1, Invariance, PTL

\* Twilio reads a configured reply as its operator wrote it, with what the
\* caller sent in place of the placeholders and nothing else moved
\* (webhook.rs:448-520, twiml.rs:112-224).
THEOREM ReadingAsConfigured == Spec => []ReadsAsConfigured
<1>1. IInv => ReadsAsConfigured
  <2> SUFFICES ASSUME IInv, source = "template" PROVE ReadsAsConfigured
    BY DEF ReadsAsConfigured
  <2>1. authored \in Seq(Verb) /\ req \in Requests
        /\ response.document = render(FilledIn(authored, req))
    BY DEF IInv, Served
  <2> QED BY <2>1, ReadAsConfigured DEF ReadsAsConfigured
<1> QED BY <1>1, Invariance, PTL

\* A tool is given what the caller entered, or else said, of a gather turn
\* and of no other request (webhook.rs:303-305, 372-385, 522-535).
THEOREM CapturedAsEntered == Spec => []CapturedIsEntered
<1>1. IInv => CapturedIsEntered
  <2> SUFFICES ASSUME IInv, asked # <<>> PROVE CapturedIsEntered
    BY DEF CapturedIsEntered
  <2> DEFINE f == req.body.form
             sent(key) == {p[2] : p \in {q \in ToSet(req.body.form) : q[1] = key /\ q[2] # <<>>}}
  <2>1. asked[1] = Captured(f)
    BY DEF IInv
  <2>2. ASSUME NEW key
        PROVE  /\ Param(f, key) = <<>> <=> sent(key) = {}
               /\ ToSet(Param(f, key)) = sent(key)
    <3>0. ToSet(f) = {f[i] : i \in DOMAIN f}
      BY DEF ToSet
    <3>1. sent(key) = {f[i][2] : i \in {j \in DOMAIN f : f[j][1] = key /\ f[j][2] # <<>>}}
      BY <3>0
    <3> HIDE DEF sent
    <3>2. req \in Requests /\ \A i, j \in DOMAIN f : f[i][1] = f[j][1] => i = j
      BY FormType DEF IInv
    <3>3. CASE Param(f, key) = <<>> /\ \A i \in DOMAIN f : f[i][1] = key => f[i][2] = <<>>
      <4>1. sent(key) = {}
        <5> HIDE DEF f
        <5> QED BY <3>1, <3>3
      <4>2. ToSet(<<>>) = {}
        BY DEF ToSet
      <4> QED BY <3>3, <4>1, <4>2
    <3>4. ASSUME NEW i \in DOMAIN f, f[i][1] = key, f[i][2] # <<>>, Param(f, key) = <<f[i][2]>>
          PROVE  /\ Param(f, key) # <<>> /\ sent(key) # {}
                 /\ ToSet(Param(f, key)) = sent(key)
      <4> DEFINE t == f[i][2]
      <4>1. sent(key) = {t}
        <5> HIDE DEF f
        <5> QED BY <3>1, <3>2, <3>4
      <4> HIDE DEF t
      <4>2. ToSet(<<t>>) = {t} /\ <<t>> # <<>>
        BY DEF ToSet
      <4> QED BY <3>4, <4>1, <4>2 DEF t
    <3> QED BY <3>2, <3>3, <3>4, ParamIs
  <2> HIDE DEF f
  <2>3. CASE Route(req) # "gather"
    BY <2>1, <2>3 DEF Captured, CapturedIsEntered
  <2>4. CASE Route(req) = "gather"
    <3>1. Captured(f) = IF Param(f, "Digits") # <<>> THEN Param(f, "Digits")
                        ELSE Param(f, "SpeechResult")
      BY <2>4 DEF Captured
    <3>2. ToSet(asked[1]) = IF sent("Digits") # {} THEN sent("Digits") ELSE sent("SpeechResult")
      <4> HIDE DEF sent
      <4> QED BY <2>1, <2>2, <3>1
    <3> QED BY <2>4, <3>2 DEF CapturedIsEntered
  <2> QED BY <2>3, <2>4
<1> QED BY <1>1, Invariance, PTL

-----------------------------------------------------------------------------
(* The sort of the parameters. *)

\* Each key once.
KeysOnce(y) == \A i, j \in DOMAIN y : y[i][1] = y[j][1] => i = j

\* What is there of a key.
Found(y, key, z) ==
    \/ z = <<>> /\ \A i \in DOMAIN y : y[i][1] # key
    \/ \E i \in DOMAIN y : y[i][1] = key /\ z = <<y[i]>>

\* PairsOf finds the one pair of a key, if there is one.
LEMMA PairsOfOne ==
  ASSUME NEW S, NEW key
  PROVE  \A y \in Seq(S) : KeysOnce(y) => Found(y, key, PairsOf(y, key))
<1> DEFINE g == [p \in S |-> IF p[1] = key THEN <<p>> ELSE <<>>]
           I == {y \in Seq(S) : KeysOnce(y) => Found(y, key, Spread(g, y))}
<1>1. g \in [S -> Seq(S)] /\ \A p \in S : g[p] = IF p[1] = key THEN <<p>> ELSE <<>>
  OBVIOUS
<1>2. ASSUME NEW y \in Seq(S) PROVE PairsOf(y, key) = Spread(g, y)
  <2>1. [i \in DOMAIN y |-> IF y[i][1] = key THEN <<y[i]>> ELSE <<>>] = [i \in DOMAIN y |-> g[y[i]]]
    <3>1. \A i \in DOMAIN y : y[i] \in S
      OBVIOUS
    <3> QED BY <3>1
  <2> HIDE DEF g
  <2> QED BY <2>1 DEF PairsOf, Spread
<1> HIDE DEF g
<1>3. <<>> \in I
  <2>1. Spread(g, <<>>) = <<>> /\ DOMAIN <<>> = {} /\ <<>> \in Seq(S)
    BY SpreadEmpty
  <2> QED BY <2>1 DEF Found
<1>4. ASSUME NEW y \in Seq(S), NEW p \in S, y \in I PROVE Append(y, p) \in I
  <2> DEFINE z == Append(y, p)
  <2>1. /\ z \in Seq(S) /\ DOMAIN z = 1..(Len(y) + 1) /\ DOMAIN y = 1..Len(y) /\ Len(y) \in Nat
        /\ z[Len(y) + 1] = p /\ \A i \in 1..Len(y) : z[i] = y[i]
    OBVIOUS
  <2>2. Spread(g, z) = Spread(g, y) \o g[p] /\ Spread(g, y) \in Seq(S)
    <3>1. /\ \A a \in Seq(S) : Spread(g, a) \in Seq(S)
          /\ \A a \in Seq(S), c \in S : Spread(g, Append(a, c)) = Spread(g, a) \o g[c]
      BY <1>1, SpreadAppend, ZenonT(30)
    <3> QED BY <3>1
  <2> HIDE DEF z
  <2>3. ASSUME KeysOnce(z) PROVE Found(z, key, Spread(g, z))
    <3>1. KeysOnce(y) /\ \A i \in DOMAIN y : y[i][1] # p[1]
      BY <2>1, <2>3 DEF KeysOnce
    <3>2. Found(y, key, Spread(g, y))
      BY <1>4, <3>1
    <3>3. CASE p[1] = key
      <4>1. Spread(g, y) = <<>>
        BY <3>1, <3>2, <3>3 DEF Found
      <4>2. Spread(g, z) = <<p>>
        BY <1>1, <2>2, <3>3, <4>1
      <4>3. Len(y) + 1 \in DOMAIN z
        BY <2>1
      <4> QED BY <2>1, <3>3, <4>2, <4>3 DEF Found
    <3>4. CASE p[1] # key
      <4>1. Spread(g, z) = Spread(g, y)
        BY <1>1, <2>2, <3>4
      <4>2. CASE Spread(g, y) = <<>> /\ \A i \in DOMAIN y : y[i][1] # key
        <5>1. \A i \in DOMAIN z : z[i][1] # key
          BY <2>1, <3>4, <4>2
        <5> QED BY <4>1, <4>2, <5>1 DEF Found
      <4>3. ASSUME NEW i \in DOMAIN y, y[i][1] = key, Spread(g, y) = <<y[i]>>
            PROVE  Found(z, key, Spread(g, z))
        <5>1. i \in DOMAIN z /\ z[i] = y[i]
          BY <2>1
        <5> QED BY <4>1, <4>3, <5>1 DEF Found
      <4> QED BY <3>2, <4>2, <4>3 DEF Found
    <3> QED BY <3>3, <3>4
  <2> QED BY <2>1, <2>3 DEF z
<1>5. \A y \in Seq(S) : y \in I
  <2> HIDE DEF I
  <2> QED BY <1>3, <1>4, SeqInduction
<1> QED BY <1>2, <1>5

\* y has the pairs of f whose keys are in x, in the order of x.
InOrder(x, f, y) ==
    /\ y \in Seq(ToSet(f))
    /\ \A p \in ToSet(f) : p[1] \in ToSet(x) => \E i \in DOMAIN y : y[i] = p
    /\ \A i \in DOMAIN y : y[i][1] \in ToSet(x)
    /\ \A i, j \in DOMAIN y : i < j =>
         \E a, b \in DOMAIN x : a < b /\ y[i][1] = x[a] /\ y[j][1] = x[b]

\* The pairs of one key more come last.
LEMMA InOrderAppend ==
  ASSUME NEW S, NEW K, NEW f \in Seq(S), KeysOnce(f),
         NEW x \in Seq(K), NEW key \in K, NEW y, InOrder(x, f, y), NEW z, Found(f, key, z)
  PROVE  InOrder(Append(x, key), f, y \o z)
<1> DEFINE w == Append(x, key)
<1>1. /\ DOMAIN w = 1..(Len(x) + 1) /\ DOMAIN x = 1..Len(x) /\ Len(x) \in Nat
      /\ w[Len(x) + 1] = key /\ \A i \in 1..Len(x) : w[i] = x[i]
  OBVIOUS
<1> HIDE DEF w
<1>2. ToSet(w) = ToSet(x) \union {key}
  BY <1>1 DEF ToSet
<1>3. y \in Seq(ToSet(f)) /\ Len(y) \in Nat /\ DOMAIN y = 1..Len(y)
  BY DEF InOrder
<1>4. CASE z = <<>> /\ \A i \in DOMAIN f : f[i][1] # key
  <2>1. y \o z = y
    BY <1>3, <1>4
  <2>2. \A p \in ToSet(f) : p[1] # key
    BY <1>4 DEF ToSet
  <2>3. \A p \in ToSet(f) : p[1] \in ToSet(w) => \E i \in DOMAIN y : y[i] = p
    BY <1>2, <2>2 DEF InOrder
  <2>4. ASSUME NEW i \in DOMAIN y, NEW j \in DOMAIN y, i < j
        PROVE  \E a, b \in DOMAIN w : a < b /\ y[i][1] = w[a] /\ y[j][1] = w[b]
    <3>1. PICK a \in DOMAIN x, b \in DOMAIN x : a < b /\ y[i][1] = x[a] /\ y[j][1] = x[b]
      BY <2>4 DEF InOrder
    <3> QED BY <1>1, <3>1
  <2>5. \A i \in DOMAIN y : y[i][1] \in ToSet(w)
    BY <1>2 DEF InOrder
  <2>6. InOrder(w, f, y)
    BY <1>3, <2>3, <2>4, <2>5 DEF InOrder
  <2> QED BY <2>1, <2>6 DEF w
<1>5. ASSUME NEW k \in DOMAIN f, f[k][1] = key, z = <<f[k]>> PROVE InOrder(w, f, y \o z)
  <2> DEFINE p == f[k]
             v == y \o <<p>>
  <2>1. p \in ToSet(f) /\ p[1] = key
    BY <1>5 DEF ToSet
  <2>2. \A q \in ToSet(f) : q[1] = key => q = p
    BY <1>5 DEF ToSet, KeysOnce
  <2> HIDE DEF p
  <2>3. /\ v \in Seq(ToSet(f)) /\ DOMAIN v = 1..(Len(y) + 1)
        /\ v[Len(y) + 1] = p /\ \A i \in 1..Len(y) : v[i] = y[i]
    BY <1>3, <2>1
  <2> HIDE DEF v
  <2>4. ASSUME NEW q \in ToSet(f), q[1] \in ToSet(w) PROVE \E i \in DOMAIN v : v[i] = q
    <3>1. CASE q[1] = key
      BY <1>3, <2>2, <2>3, <3>1, SMTT(30)
    <3>2. CASE q[1] \in ToSet(x)
      <4>1. PICK i \in DOMAIN y : y[i] = q
        BY <3>2 DEF InOrder
      <4> QED BY <1>3, <2>3, <4>1
    <3> QED BY <1>2, <2>4, <3>1, <3>2
  <2>5. ASSUME NEW i \in DOMAIN v PROVE v[i][1] \in ToSet(w)
    <3>1. CASE i \in 1..Len(y)
      BY <1>2, <1>3, <2>3, <3>1 DEF InOrder
    <3>2. CASE i = Len(y) + 1
      BY <1>2, <2>1, <2>3, <3>2
    <3> QED BY <1>3, <2>3, <3>1, <3>2
  <2>6. ASSUME NEW i \in DOMAIN v, NEW j \in DOMAIN v, i < j
        PROVE  \E a, b \in DOMAIN w : a < b /\ v[i][1] = w[a] /\ v[j][1] = w[b]
    <3>1. i \in 1..Len(y) /\ v[i] = y[i]
      BY <1>3, <2>3, <2>6
    <3>2. CASE j \in 1..Len(y)
      <4>1. PICK a \in DOMAIN x, b \in DOMAIN x : a < b /\ y[i][1] = x[a] /\ y[j][1] = x[b]
        BY <1>3, <2>6, <3>1, <3>2, SMTT(30) DEF InOrder
      <4> QED BY <1>1, <2>3, <3>1, <3>2, <4>1
    <3>3. CASE j = Len(y) + 1
      <4>1. y[i][1] \in ToSet(x)
        BY <1>3, <3>1 DEF InOrder
      <4>2. ToSet(x) = {x[a] : a \in DOMAIN x}
        BY DEF ToSet
      <4>3. PICK a \in DOMAIN x : y[i][1] = x[a]
        BY <4>1, <4>2
      <4>4. a \in DOMAIN w /\ Len(x) + 1 \in DOMAIN w /\ a < Len(x) + 1 /\ w[a] = x[a]
        BY <1>1, <4>3
      <4>5. v[j][1] = w[Len(x) + 1]
        BY <1>1, <2>1, <2>3, <3>3
      <4> QED BY <3>1, <4>3, <4>4, <4>5
    <3> QED BY <1>3, <2>3, <3>2, <3>3
  <2>7. InOrder(w, f, v)
    BY <2>3, <2>4, <2>5, <2>6 DEF InOrder
  <2> QED BY <1>5, <2>7 DEF v, p
<1> QED BY <1>4, <1>5 DEF Found, w

\* SortByKey lists the form in the order of the keys (signature.rs:32-48).
LEMMA SortByKeyInOrder ==
  ASSUME NEW f \in Seq(Range(SortedKeys) \X Text), KeysOnce(f)
  PROVE  InOrder(SortedKeys, f, SortByKey(f))
<1> DEFINE K == Range(SortedKeys)
           S == K \X Text
           g == [key \in K |-> PairsOf(f, key)]
           I == {x \in Seq(K) : InOrder(x, f, Spread(g, x))}
<1>1. SortedKeys \in Seq(K)
  <2>1. SortedKeys \in Seq(STRING)
    BY SortedKeysAssumption DEF SortedKeysAssumption
  <2>2. K = {SortedKeys[i] : i \in DOMAIN SortedKeys}
    BY DEF Range
  <2> HIDE DEF K
  <2>3. Len(SortedKeys) \in Nat /\ SortedKeys \in [1..Len(SortedKeys) -> K]
    BY <2>1, <2>2
  <2> QED BY <2>3, FunctionIsSeq
<1> HIDE DEF K
<1>2. ASSUME NEW key \in K PROVE Found(f, key, g[key])
  BY PairsOfOne DEF K
<1>3. g \in [K -> Seq(ToSet(f))]
  <2>1. ASSUME NEW key \in K PROVE g[key] \in Seq(ToSet(f))
    <3> DEFINE z == g[key]
    <3>1. Found(f, key, z)
      BY <1>2
    <3> HIDE DEF z, g
    <3>2. ASSUME NEW i \in DOMAIN f PROVE <<f[i]>> \in Seq(ToSet(f))
      <4> DEFINE p == f[i]
      <4>1. p \in ToSet(f)
        BY DEF ToSet
      <4> HIDE DEF p
      <4> QED BY <4>1 DEF p
    <3>3. z \in Seq(ToSet(f))
      <4>1. CASE z = <<>>
        BY <4>1
      <4>2. ASSUME NEW i \in DOMAIN f, z = <<f[i]>> PROVE z \in Seq(ToSet(f))
        <5>1. <<f[i]>> \in Seq(ToSet(f))
          BY <3>2
        <5> QED BY <5>1, <4>2, Zenon
      <4> QED BY <3>1, <4>1, <4>2 DEF Found
    <3> QED BY <3>3 DEF z
  <2> QED BY <2>1
<1>4. SortByKey(f) = Spread(g, SortedKeys)
  <2>1. [i \in DOMAIN SortedKeys |-> PairsOf(f, SortedKeys[i])]
          = [i \in DOMAIN SortedKeys |-> g[SortedKeys[i]]]
    <3>1. \A i \in DOMAIN SortedKeys : SortedKeys[i] \in K
      BY <1>1
    <3> QED BY <3>1
  <2> HIDE DEF g
  <2> QED BY <2>1 DEF SortByKey, Spread
<1> HIDE DEF g
<1>5. <<>> \in I
  <2>1. ToSet(<<>>) = {} /\ DOMAIN <<>> = {} /\ <<>> \in Seq(ToSet(f)) /\ <<>> \in Seq(K)
    BY DEF ToSet
  <2> QED BY <2>1, SpreadEmpty DEF InOrder
<1>6. ASSUME NEW x \in Seq(K), NEW key \in K, x \in I PROVE Append(x, key) \in I
  <2>1. Spread(g, Append(x, key)) = Spread(g, x) \o g[key]
    <3>1. \A a \in Seq(K), c \in K : Spread(g, Append(a, c)) = Spread(g, a) \o g[c]
      BY <1>3, SpreadAppend, ZenonT(30)
    <3> QED BY <3>1
  <2>2. InOrder(Append(x, key), f, Spread(g, x) \o g[key])
    BY <1>2, <1>6, InOrderAppend
  <2> QED BY <2>1, <2>2, AppendProperties
<1>7. \A x \in Seq(K) : x \in I
  <2> HIDE DEF I
  <2> QED BY <1>5, <1>6, SeqInduction
<1> QED BY <1>1, <1>4, <1>7

-----------------------------------------------------------------------------

\* No pair comes before itself, nor two before each other.
LEMMA BeforeIsStrict ==
  ASSUME NEW p, NEW q, Before(p, q)
  PROVE  p[1] # q[1] /\ ~Before(q, p)
<1>1. \A i, j \in DOMAIN SortedKeys : SortedKeys[i] = SortedKeys[j] => i = j
  BY SortedKeysAssumption DEF SortedKeysAssumption, IsInjective
<1>2. DOMAIN SortedKeys \subseteq Nat
  <2>1. SortedKeys \in Seq(STRING)
    BY SortedKeysAssumption DEF SortedKeysAssumption
  <2> QED BY <2>1
<1> QED BY <1>1, <1>2 DEF Before

\* A sequence of the elements of T in the order of their keys.
Ordering(T, s) ==
    /\ s \in SetToSeqs(T)
    /\ \A i, j \in DOMAIN s : i < j => Before(s[i], s[j])

\* An ordering of a finite set lists each of its elements once.
LEMMA OrderingIs ==
  ASSUME NEW T, IsFiniteSet(T), NEW s, Ordering(T, s)
  PROVE  /\ Cardinality(T) \in Nat /\ DOMAIN s = 1..Cardinality(T)
         /\ \A i, j \in 1..Cardinality(T) : s[i] = s[j] => i = j
         /\ \A i \in 1..Cardinality(T) : s[i] \in T
         /\ \A p \in T : \E i \in 1..Cardinality(T) : s[i] = p
         /\ s = [i \in 1..Cardinality(T) |-> s[i]]
<1> DEFINE n == Cardinality(T)
<1>1. n \in Nat
  BY FS_CardinalityType
<1>2. s \in [1..n -> T] /\ \A i, j \in 1..n : i # j => s[i] # s[j]
  BY DEF Ordering, SetToSeqs
<1>3. s \in Injection(1..n, T)
  BY <1>2 DEF Injection, IsInjective
<1>4. Cardinality(1..n) = n
  BY <1>1, FS_Interval
<1>5. s \in Surjection(1..n, T)
  BY <1>3, <1>4, FS_Injection
<1> QED BY <1>1, <1>2, <1>5 DEF Surjection

\* There is one such sequence.
LEMMA OneOrdering ==
  ASSUME NEW T, IsFiniteSet(T), NEW s, NEW t, Ordering(T, s), Ordering(T, t)
  PROVE  s = t
<1> DEFINE n == Cardinality(T)
           D == {i \in 1..n : s[i] # t[i]}
<1>1. /\ n \in Nat /\ DOMAIN s = 1..n
      /\ \A i, j \in 1..n : s[i] = s[j] => i = j
      /\ \A i \in 1..n : s[i] \in T
      /\ \A p \in T : \E i \in 1..n : s[i] = p
      /\ s = [i \in 1..n |-> s[i]]
  BY OrderingIs
<1>2. /\ DOMAIN t = 1..n
      /\ \A i, j \in 1..n : t[i] = t[j] => i = j
      /\ \A i \in 1..n : t[i] \in T
      /\ \A p \in T : \E i \in 1..n : t[i] = p
      /\ t = [i \in 1..n |-> t[i]]
  BY OrderingIs
<1>3. /\ \A i, j \in 1..n : i < j => Before(s[i], s[j])
      /\ \A i, j \in 1..n : i < j => Before(t[i], t[j])
  BY <1>1, <1>2 DEF Ordering
<1> HIDE DEF n
<1>4. ASSUME D # {} PROVE FALSE
  <2>1. D \subseteq Nat
    OBVIOUS
  <2>2. PICK m \in D : \A i \in D : m <= i
    BY <1>4, <2>1, LeastNat
  <2>3. \A i \in 1..n : i < m => s[i] = t[i]
    BY <2>2
  <2>4. PICK k \in 1..n : t[k] = s[m]
    BY <1>1, <1>2, <2>2
  <2>5. PICK l \in 1..n : s[l] = t[m]
    BY <1>1, <1>2, <2>2
  <2>6. m < k
    BY <1>1, <2>2, <2>3, <2>4
  <2>7. m < l
    BY <1>2, <2>2, <2>3, <2>5
  <2>8. Before(t[m], s[m]) /\ Before(s[m], t[m])
    BY <1>3, <2>2, <2>4, <2>5, <2>6, <2>7
  <2> QED BY <2>8, BeforeIsStrict
<1>5. \A i \in 1..n : s[i] = t[i]
  BY <1>4
<1>6. [i \in 1..n |-> s[i]] = [i \in 1..n |-> t[i]]
  BY <1>5
<1> QED BY <1>1, <1>2, <1>6

\* What the code sorts is what Twilio signs.
LEMMA SortByKeyIs ==
  ASSUME NEW r \in Requests
  PROVE  SortByKey(r.body.form) = InKeyOrder(r.body.form)
<1> DEFINE f == r.body.form
           y == SortByKey(f)
           T == ToSet(f)
<1>1. KeysOnce(f) /\ f \in Seq(Range(SortedKeys) \X Text)
  BY FormType DEF KeysOnce, Form
<1>2. InOrder(SortedKeys, f, y)
  BY <1>1, SortByKeyInOrder
<1> HIDE DEF f, y
<1>3. /\ y \in Seq(T) /\ Len(y) \in Nat /\ DOMAIN y = 1..Len(y)
      /\ \A i, j \in DOMAIN y : i < j => Before(y[i], y[j])
  BY <1>2 DEF InOrder, Before
<1>4. ASSUME NEW p \in T PROVE \E i \in DOMAIN y : y[i] = p
  <2>1. PICK i \in DOMAIN f : p = f[i]
    BY DEF ToSet
  <2>2. p[1] \in Range(SortedKeys)
    BY <1>1, <2>1
  <2>3. p[1] \in ToSet(SortedKeys)
    BY <2>2 DEF Range, ToSet
  <2> QED BY <1>2, <2>3 DEF InOrder
<1>5. \A i, j \in 1..Len(y) : i # j => y[i] # y[j]
  BY <1>3, BeforeIsStrict
<1>6. y \in [1..Len(y) -> T]
  BY <1>3
<1>7. y \in Bijection(1..Len(y), T)
  BY <1>3, <1>4, <1>5, <1>6 DEF Bijection, Injection, Surjection, IsInjective
<1>8. Cardinality(T) = Len(y) /\ IsFiniteSet(T)
  BY <1>3, <1>7, FS_CountingElements, FS_NatBijection DEF ExistsBijection
<1>9. Ordering(T, y)
  BY <1>3, <1>5, <1>6, <1>8 DEF Ordering, SetToSeqs
<1>10. Ordering(T, InKeyOrder(f))
  BY <1>9 DEF Ordering, InKeyOrder
<1> QED BY <1>8, <1>9, <1>10, OneOrdering DEF y, f

-----------------------------------------------------------------------------
(* The URL. *)

\* The slashes that TrimEnd takes are those that AtOrigin allows.
LEMMA TrimEndIs ==
  ASSUME NEW c \in Configs
  PROVE  /\ TrimEnd(c.public_base_url) \in Text
         /\ "?" \notin Range(TrimEnd(c.public_base_url))
         /\ TrimEnd(c.public_base_url) = ORIGIN <=> AtOrigin(c)
<1> DEFINE base == c.public_base_url
           kept == {i \in DOMAIN base : base[i] # "/"}
           k == CHOOSE i \in kept : \A j \in kept : j <= i
<1>1. /\ base \in Text /\ base # <<>> /\ base[1] \in {"https://", "http://"}
      /\ "?" \notin Range(base)
  BY ConfigAssumption, ConfigTypes, UrlAssumption
     DEF ConfigAssumption, ConfigValid, ConfigTypes, UrlAssumption
<1>2. ORIGIN \in Text /\ ORIGIN # <<>> /\ ORIGIN[Len(ORIGIN)] # "/"
  BY UrlAssumption DEF UrlAssumption, Last
<1>3. TrimEnd(base) = IF kept = {} THEN <<>> ELSE SubSeq(base, 1, k)
  BY DEF TrimEnd
<1>4. AtOrigin(c) <=> /\ IsPrefix(ORIGIN, base)
                      /\ \A i \in (Len(ORIGIN) + 1)..Len(base) : base[i] = "/"
  BY DEF AtOrigin
<1>5. IsPrefix(ORIGIN, base)
        <=> Len(ORIGIN) <= Len(base) /\ \A i \in 1..Len(ORIGIN) : ORIGIN[i] = base[i]
  <2>1. /\ Len(ORIGIN) <= Len(base) => SubSeq(base, 1, Len(ORIGIN)) \in Text
        /\ SubSeq(ORIGIN, 1, Len(ORIGIN)) = ORIGIN
    BY <1>1, <1>2 DEF Text
  <2> HIDE DEF base
  <2> QED BY <1>1, <1>2, <2>1 DEF IsPrefix, Text
<1> HIDE DEF base
<1>6. Len(base) \in Nat /\ DOMAIN base = 1..Len(base) /\ Len(ORIGIN) \in Nat \ {0}
      /\ Len(base) # 0
  BY <1>1, <1>2 DEF Text
<1>7. 1 \in kept
  BY <1>1, <1>6
<1>8. k \in kept /\ \A j \in kept : j <= k
  <2> DEFINE T == {Len(base) - i : i \in kept}
  <2>1. T \subseteq Nat /\ T # {}
    BY <1>6, <1>7
  <2>2. PICK m \in T : \A n \in T : m <= n
    <3> HIDE DEF T
    <3> QED BY <2>1, LeastNat
  <2>3. PICK i \in kept : m = Len(base) - i
    BY <2>2
  <2>4. ASSUME NEW j \in kept PROVE j <= i
    <3>1. Len(base) - j \in T
      OBVIOUS
    <3>2. Len(base) - i <= Len(base) - j
      BY <2>2, <2>3, <3>1
    <3> HIDE DEF T
    <3> QED BY <1>6, <3>2
  <2> QED BY <2>4
<1> HIDE DEF k
<1> DEFINE s == SubSeq(base, 1, k)
<1>9. /\ s \in Text /\ Len(s) = k /\ k \in 1..Len(base) /\ \A i \in 1..k : s[i] = base[i]
  BY <1>1, <1>6, <1>8 DEF Text
<1>10. TrimEnd(base) = s
  BY <1>3, <1>7
<1> HIDE DEF s
<1>11. "?" \notin Range(s)
  BY <1>1, <1>6, <1>9 DEF Range, Text
<1>12. ASSUME s = ORIGIN PROVE AtOrigin(c)
  BY <1>2, <1>4, <1>5, <1>6, <1>8, <1>9, <1>12
<1>13. ASSUME AtOrigin(c) PROVE s = ORIGIN
  <2>1. k = Len(ORIGIN)
    BY <1>2, <1>4, <1>5, <1>6, <1>8, <1>13
  <2>2. \A i \in 1..k : s[i] = ORIGIN[i]
    BY <1>4, <1>5, <1>9, <1>13, <2>1
  <2> QED BY <1>2, <1>9, <2>1, <2>2, SeqEqual DEF Text
<1> QED BY <1>9, <1>10, <1>11, <1>12, <1>13 DEF base

\* What a URL is made of.  No literal is known to be in STRING.
Glyph == Token \union {"?", "&", "=", "+", "%2B", "%26", "%3D"}

\* A URL, and what is signed.
Url == Seq(Glyph)

\* The tokens that a query is written with are tokens of a URL.
LEMMA GlyphTokens == {"?", "&", "=", "+", "%2B", "%26", "%3D"} \subseteq Glyph
  BY DEF Glyph

\* A text may be a part of a URL.
LEMMA TextIsUrl == Text \subseteq Url
<1>1. Token \subseteq Glyph
  BY DEF Glyph
<1> QED BY <1>1 DEF Text, Url

\* One token is a part of a URL.
LEMMA OneToken ==
  ASSUME NEW t \in Glyph
  PROVE  <<t>> \in Url /\ Len(<<t>>) = 1 /\ <<t>>[1] = t
  BY DEF Url

\* So are two.
LEMMA TwoTokens ==
  ASSUME NEW t \in Glyph, NEW u \in Glyph
  PROVE  <<t, u>> \in Url /\ Len(<<t, u>>) = 2
  BY DEF Url

\* A query is written as nothing only if there is none.
LEMMA QueryStringIs ==
  ASSUME NEW query \in Seq(STRING \X Text)
  PROVE  QueryString(query) \in Url /\ (QueryString(query) = <<>> <=> query = <<>>)
<1> DEFINE w(j) == (IF j = 1 THEN <<>> ELSE <<"&">>)
                       \o <<query[j][1], "=">> \o UrlEncoded(query[j][2])
           m == [i \in DOMAIN query |-> w(i)]
<1>1. Len(query) \in Nat /\ DOMAIN query = 1..Len(query)
  OBVIOUS
<1>2. ASSUME NEW i \in 1..Len(query) PROVE w(i) \in Url /\ w(i) # <<>>
  <2> DEFINE key == query[i][1]
             value == query[i][2]
             a == IF i = 1 THEN <<>> ELSE <<"&">>
             u == UrlEncoded(value)
  <2>1. key \in Glyph /\ value \in Url
    BY <1>1, TextIsUrl DEF Token, Glyph
  <2> HIDE DEF key, value
  <2>2. u \in Url
    <3> DEFINE h(j) == CASE value[j] = " " -> "+" [] value[j] = "+" -> "%2B"
                        [] value[j] = "&" -> "%26" [] value[j] = "=" -> "%3D" [] OTHER -> value[j]
    <3>2. Len(value) \in Nat /\ DOMAIN value = 1..Len(value)
          /\ \A k \in 1..Len(value) : value[k] \in Glyph
      BY <2>1 DEF Url
    <3>3. \A k \in 1..Len(value) : h(k) \in Glyph
      BY <3>2, GlyphTokens
    <3>4. u = [k \in 1..Len(value) |-> h(k)]
      BY <3>2 DEF UrlEncoded
    <3> HIDE DEF h
    <3>1. Len(value) \in Nat /\ u \in [1..Len(value) -> Glyph]
      BY <3>2, <3>3, <3>4
    <3> QED BY <3>1, FunctionIsSeq DEF Url
  <2> HIDE DEF u
  <2>3. a \in Url
    <3>1. <<"&">> \in Url /\ <<>> \in Url
      BY GlyphTokens, OneToken, EmptySeq DEF Url
    <3> QED BY <3>1, Zenon
  <2> HIDE DEF a
  <2>4. <<key, "=">> \in Url /\ Len(<<key, "=">>) = 2
    BY <2>1, GlyphTokens, TwoTokens DEF Url
  <2>5. a \o <<key, "=">> \in Url /\ Len(a \o <<key, "=">>) = Len(a) + 2
    <3> DEFINE e == <<key, "=">>
    <3>1. e \in Seq(Glyph) /\ Len(e) = 2
      BY <2>4 DEF Url
    <3> HIDE DEF e
    <3>2. a \o e \in Seq(Glyph) /\ Len(a \o e) = Len(a) + Len(e)
      BY <2>3, <3>1, ConcatProperties DEF Url
    <3> QED BY <3>1, <3>2 DEF e, Url
  <2>6. /\ (a \o <<key, "=">>) \o u \in Url
        /\ Len((a \o <<key, "=">>) \o u) = Len(a) + 2 + Len(u)
    BY <2>2, <2>5, ConcatProperties DEF Url
  <2>7. Len(a) \in Nat /\ Len(u) \in Nat /\ Len(<<>>) = 0
    BY <2>2, <2>3 DEF Url
  <2> QED BY <2>6, <2>7 DEF a, u, key, value
<1>3. m \in Seq(Url) /\ Len(m) = Len(query) /\ \A i \in 1..Len(query) : m[i] # <<>>
  <2> HIDE DEF w
  <2>1. m \in [1..Len(query) -> Url] /\ \A i \in 1..Len(query) : m[i] # <<>>
    BY <1>1, <1>2
  <2> HIDE DEF m
  <2> QED BY <1>1, <2>1, FunctionIsSeq
<1>4. QueryString(query) = FlattenSeq(m)
  BY DEF QueryString
<1> HIDE DEF m, w
<1>5. FlattenSeq(m) \in Url
  BY <1>3, FlattenType DEF Url
<1>6. CASE query = <<>>
  <2>1. m = <<>>
    BY <1>3, <1>6
  <2> QED BY <1>4, <1>6, <2>1, FlattenEmpty, <1>5
<1>7. CASE query # <<>>
  <2>1. PICK y \in Seq(Url), e \in Url : m = Append(y, e)
    <3>1. m # <<>>
      BY <1>1, <1>3, <1>7
    <3> QED BY <1>3, <3>1, SequenceEmptyOrAppend
  <2>2. e # <<>>
    <3>1. e = m[Len(m)] /\ Len(m) \in 1..Len(query)
      BY <1>1, <1>3, <1>7, <2>1
    <3> QED BY <1>3, <3>1
  <2>3. FlattenSeq(m) = IF y = <<>> THEN e ELSE FlattenSeq(y) \o e
    BY <2>1, FlattenAppend DEF Url
  <2>4. FlattenSeq(y) \in Url
    BY FlattenType DEF Url
  <2>5. FlattenSeq(y) \o e # <<>>
    BY <2>2, <2>4 DEF Url
  <2> QED BY <1>4, <1>5, <1>7, <2>2, <2>3, <2>5
<1> QED BY <1>6, <1>7

\* A query after its question mark.
WithMark(q) == IF q = <<>> THEN <<>> ELSE <<"?">> \o q

\* A query after its question mark begins with it.
LEMMA WithMarkIs ==
  ASSUME NEW q \in Url
  PROVE  /\ WithMark(q) \in Url
         /\ WithMark(q) # <<>> => WithMark(q)[1] = "?" /\ WithMark(q) = <<"?">> \o q
         /\ q = <<>> <=> WithMark(q) = <<>>
<1> DEFINE m == <<"?">>
<1>1. m \in Url /\ Len(m) = 1 /\ m[1] = "?"
  BY GlyphTokens, OneToken
<1> HIDE DEF m
<1>2. m \o q \in Url /\ Len(m \o q) = 1 + Len(q) /\ (m \o q)[1] = "?" /\ Len(q) \in Nat
  <2>1. m \o q \in Seq(Glyph) /\ Len(m \o q) = Len(m) + Len(q)
    BY <1>1, ConcatProperties DEF Url
  <2>2. Len(q) \in Nat /\ (m \o q)[1] = m[1]
    BY <1>1 DEF Url
  <2> QED BY <1>1, <2>1, <2>2 DEF Url
<1>3. <<>> \in Url /\ m \o q # <<>>
  BY <1>2 DEF Url
<1> QED BY <1>2, <1>3 DEF WithMark, m

\* The first question mark parts a URL.
LEMMA OneMark ==
  ASSUME NEW a \in Url, NEW b \in Url, NEW p \in Url, NEW q \in Url,
         "?" \notin Range(a), "?" \notin Range(b), a \o WithMark(p) = b \o WithMark(q)
  PROVE  a = b /\ p = q
<1> DEFINE v == WithMark(p)
           w == WithMark(q)
<1>1. v \in Url /\ (v # <<>> => v[1] = "?") /\ w \in Url /\ (w # <<>> => w[1] = "?")
  BY WithMarkIs
<1>2. a \o v = b \o w
  OBVIOUS
<1> HIDE DEF v, w
<1>3. /\ Len(a) \in Nat /\ Len(b) \in Nat /\ Len(v) \in Nat /\ Len(w) \in Nat
      /\ Len(a) + Len(v) = Len(b) + Len(w)
      /\ (v = <<>> <=> Len(v) = 0) /\ (w = <<>> <=> Len(w) = 0)
      /\ \A i \in 1..Len(a) : a[i] # "?"
      /\ \A i \in 1..Len(b) : b[i] # "?"
  <2>1. Len(a \o v) = Len(a) + Len(v) /\ Len(b \o w) = Len(b) + Len(w)
    BY <1>1, ConcatProperties DEF Url
  <2>2. \A i \in 1..Len(a) : a[i] # "?"
    BY DEF Range, Url
  <2>3. \A i \in 1..Len(b) : b[i] # "?"
    BY DEF Range, Url
  <2> QED BY <1>1, <1>2, <2>1, <2>2, <2>3 DEF Url
<1>4. ASSUME Len(a) < Len(b) PROVE FALSE
  <2>1. Len(v) > 0
    BY <1>3, <1>4
  <2>2. (a \o v)[Len(a) + 1] = v[1]
    BY <1>1, <1>3, <2>1 DEF Url
  <2>3. (b \o w)[Len(a) + 1] = b[Len(a) + 1]
    BY <1>1, <1>3, <1>4, SMTT(30) DEF Url
  <2> QED BY <1>1, <1>2, <1>3, <1>4, <2>1, <2>2, <2>3
<1>5. ASSUME Len(b) < Len(a) PROVE FALSE
  <2>1. Len(w) > 0
    BY <1>3, <1>5
  <2>2. (b \o w)[Len(b) + 1] = w[1]
    BY <1>1, <1>3, <2>1 DEF Url
  <2>3. (a \o v)[Len(b) + 1] = a[Len(b) + 1]
    BY <1>1, <1>3, <1>5, SMTT(30) DEF Url
  <2> QED BY <1>1, <1>2, <1>3, <1>5, <2>1, <2>2, <2>3
<1>6. Len(a) = Len(b)
  BY <1>3, <1>4, <1>5
<1>7. a = b /\ v = w
  BY <1>1, <1>2, <1>6, Cancel DEF Url
<1>8. p = q
  <2>1. CASE v = <<>>
    BY <1>7, <2>1, WithMarkIs DEF v, w
  <2>2. CASE v # <<>>
    <3>1. <<"?">> \o p = <<"?">> \o q
      BY <1>7, <2>2, WithMarkIs DEF v, w
    <3>2. <<"?">> \in Url
      BY GlyphTokens, OneToken
    <3> QED BY <3>1, <3>2, Cancel DEF Url
  <2> QED BY <2>1, <2>2
<1> QED BY <1>7, <1>8

-----------------------------------------------------------------------------
(* The signature. *)

\* Parts of a URL concatenate to a part of one.
LEMMA UrlConcat ==
  ASSUME NEW a \in Url, NEW b \in Url
  PROVE  a \o b \in Url /\ Len(a \o b) = Len(a) + Len(b) /\ Len(a) \in Nat /\ Len(b) \in Nat
  BY ConcatProperties DEF Url

\* Equal ends can be cancelled.
LEMMA CancelEnd ==
  ASSUME NEW a \in Url, NEW b \in Url, NEW c \in Url
  PROVE  a \o c = b \o c <=> a = b
<1> SUFFICES ASSUME a \o c = b \o c PROVE a = b
  OBVIOUS
<1>1. Len(a) = Len(b)
  <2>1. /\ Len(a \o c) = Len(a) + Len(c) /\ Len(b \o c) = Len(b) + Len(c)
        /\ Len(a) \in Nat /\ Len(b) \in Nat /\ Len(c) \in Nat
    BY UrlConcat
  <2> QED BY <2>1
<1> QED BY <1>1, Cancel DEF Url

\* The URL the gateway rebuilds, and the one Twilio was given.
LEMMA SameUrl ==
  ASSUME NEW c \in Configs, NEW r \in Requests
  PROVE  LET given == ORIGIN \o r.full_path \o WithMark(r.raw_query)
         IN  /\ ReconstructUrl(c, r) \in Url /\ given \in Url
             /\ ReconstructUrl(c, r) = given
                  <=> AtOrigin(c) /\ r.raw_query = QueryString(r.query)
<1> DEFINE b == TrimEnd(c.public_base_url)
           p == r.full_path
           q == QueryString(r.query)
           o == ORIGIN
           raw == r.raw_query
<1>1. /\ b \in Url /\ "?" \notin Range(b) /\ (b = o <=> AtOrigin(c))
  BY TrimEndIs, TextIsUrl
<1>2. /\ o \in Url /\ p \in Url /\ raw \in Url /\ "?" \notin Range(o) /\ "?" \notin Range(p)
  BY UrlAssumption, RequestTypes, TextIsUrl DEF UrlAssumption, RequestTypes
<1>3. q \in Url /\ (q = <<>> <=> r.query = <<>>)
  BY RequestTypes, QueryStringIs DEF RequestTypes
<1>4. ReconstructUrl(c, r) = b \o p \o WithMark(q)
  BY <1>3 DEF ReconstructUrl, WithMark
<1> HIDE DEF b, p, q, o, raw
<1>5. WithMark(q) \in Url /\ WithMark(raw) \in Url
  BY <1>2, <1>3, WithMarkIs
<1>6. /\ b \o p \in Url /\ o \o p \in Url
      /\ (b \o p) \o WithMark(q) \in Url /\ (o \o p) \o WithMark(raw) \in Url
  BY <1>1, <1>2, <1>5, UrlConcat
<1>7. \A a \in Url, d \in Url : "?" \notin Range(a) /\ "?" \notin Range(d) => "?" \notin Range(a \o d)
  BY DEF Range, Url
<1>8. (b \o p) \o WithMark(q) = (o \o p) \o WithMark(raw) <=> b = o /\ q = raw
  <2>1. ASSUME (b \o p) \o WithMark(q) = (o \o p) \o WithMark(raw) PROVE b = o /\ q = raw
    <3> DEFINE v == b \o p
               w == o \o p
    <3>1. v \in Url /\ w \in Url /\ "?" \notin Range(v) /\ "?" \notin Range(w)
      BY <1>1, <1>2, <1>6, <1>7
    <3>2. v \o WithMark(q) = w \o WithMark(raw)
      BY <2>1
    <3> HIDE DEF v, w
    <3>3. v = w /\ q = raw
      BY <1>2, <1>3, <3>1, <3>2, OneMark, ZenonT(30)
    <3> QED BY <1>1, <1>2, <3>3, CancelEnd DEF v, w
  <2> QED BY <2>1
<1> QED BY <1>1, <1>4, <1>6, <1>8 DEF p, o, q, raw

\* What follows the URL in what is signed.
SignedForm(r) == IF BodySha(r) # <<>> THEN <<>> ELSE Concatenated(InKeyOrder(r.body.form))

\* What follows the URL in what is signed is a sequence of tokens.
LEMMA SignedFormType == \A r \in Requests : SignedForm(r) \in Url
<1> TAKE r \in Requests
<1> DEFINE y == InKeyOrder(r.body.form)
           w == [i \in DOMAIN y |-> <<y[i][1]>> \o y[i][2]]
<1>1. y \in Seq(STRING \X Text)
  <2> DEFINE f == r.body.form
  <2>1. KeysOnce(f) /\ f \in Seq(Range(SortedKeys) \X Text)
    BY FormType DEF KeysOnce, Form
  <2>2. y \in Seq(ToSet(f))
    BY <2>1, SortByKeyInOrder, SortByKeyIs DEF InOrder
  <2>3. SortedKeys \in Seq(STRING)
    BY SortedKeysAssumption DEF SortedKeysAssumption
  <2> HIDE DEF f, y
  <2>4. ToSet(f) \subseteq STRING \X Text
    <3>1. Range(SortedKeys) \subseteq STRING
      BY <2>3 DEF Range
    <3> QED BY <2>1, <3>1 DEF ToSet
  <2> QED BY <2>2, <2>4
<1> HIDE DEF y
<1>2. Len(y) \in Nat /\ DOMAIN y = 1..Len(y)
  BY <1>1
<1>3. ASSUME NEW i \in 1..Len(y) PROVE <<y[i][1]>> \o y[i][2] \in Url
  <2> DEFINE k == y[i][1]
             v == y[i][2]
  <2>1. k \in Glyph /\ v \in Url
    BY <1>1, <1>2, TextIsUrl DEF Glyph, Token
  <2> HIDE DEF k, v
  <2> QED BY <2>1, OneToken, UrlConcat DEF k, v
<1>4. w \in [1..Len(y) -> Url]
  BY <1>2, <1>3
<1> HIDE DEF w
<1>5. w \in Seq(Url)
  BY <1>2, <1>4, FunctionIsSeq
<1>6. FlattenSeq(w) \in Url
  BY <1>5, FlattenType DEF Url
<1>7. <<>> \in Url
  BY EmptySeq DEF Url
<1> QED BY <1>6, <1>7 DEF SignedForm, Concatenated, w, y

\* What the signature of a request is compared with.
Compared(c, r) == HmacB64(c.auth_token, ReconstructUrl(c, r) \o SignedForm(r))

\* The body is the one the URL has the digest of.
BodyIsSigned(r) == BodySha(r) # <<>> => BodySha(r)[1] = <<r.body.sha256>>

\* A request passes if signatures are not checked, or if its header is the
\* code's own signature and its body the one the URL has the digest of
\* (webhook.rs:108-167).
LEMMA CheckSignatureIs ==
  ASSUME NEW c \in Configs, NEW r \in Requests
  PROVE  CheckSignature(c, r) <=>
           \/ ~c.validate_signature
           \/ r.header = <<Compared(c, r)>> /\ BodyIsSigned(r)
<1>1. r.header # <<>> => r.header = <<r.header[1]>>
  <2> DEFINE h == r.header
  <2>1. h \in Option([key : STRING, data : Text])
    BY RequestTypes DEF RequestTypes
  <2> HIDE DEF h
  <2>2. ASSUME h # <<>> PROVE h = <<h[1]>>
    BY <2>1, <2>2, SMTT(30) DEF Option
  <2> QED BY <2>2 DEF h
<1>2. ReconstructUrl(c, r) \in Url
  BY SameUrl
<1> DEFINE u == ReconstructUrl(c, r)
<1>3. CASE BodySha(r) # <<>>
  <2>1. u \o SignedForm(r) = u
    BY <1>2, <1>3 DEF SignedForm, Url
  <2>2. ExpectedSignatureJson(c.auth_token, u) = Compared(c, r)
    BY <2>1 DEF Compared, ExpectedSignatureJson
  <2> HIDE DEF u
  <2>3. CheckSignature(c, r) <=>
          \/ ~c.validate_signature
          \/ /\ r.header # <<>> /\ BodySha(r)[1] = <<r.body.sha256>>
             /\ Compared(c, r) = r.header[1]
    BY <1>3, <2>2 DEF CheckSignature, Verify, BodySha256Hex, u
  <2>4. r.header # <<>> /\ Compared(c, r) = r.header[1] <=> r.header = <<Compared(c, r)>>
    BY <1>1
  <2>5. BodySha(r)[1] = <<r.body.sha256>> <=> BodyIsSigned(r)
    BY <1>3 DEF BodyIsSigned
  <2> HIDE DEF u
  <2> QED BY <2>3, <2>4, <2>5
<1>4. CASE BodySha(r) = <<>>
  <2>1. ExpectedSignatureForm(c.auth_token, u, r.body.form) = Compared(c, r)
    BY <1>4, SortByKeyIs DEF Compared, ExpectedSignatureForm, SignedForm
  <2>2. CheckSignature(c, r) <=>
          \/ ~c.validate_signature
          \/ r.header # <<>> /\ Compared(c, r) = r.header[1]
    BY <1>4, <2>1 DEF CheckSignature, Verify
  <2> QED BY <1>1, <1>4, <2>2 DEF BodyIsSigned
<1> QED BY <1>3, <1>4

\* The code's own signature is Twilio's exactly if the base and the query are
\* rebuilt as Twilio was given them.
LEMMA GenuineIs ==
  ASSUME NEW c \in Configs, NEW r \in Requests
  PROVE  /\ Genuine(c, r) <=> r.header = <<TwilioSigns(c, r)>> /\ BodyIsSigned(r)
         /\ TwilioSigns(c, r).key = c.auth_token /\ Compared(c, r).key = c.auth_token
         /\ Compared(c, r) = TwilioSigns(c, r)
              <=> AtOrigin(c) /\ r.raw_query = QueryString(r.query)
<1> DEFINE u == ReconstructUrl(c, r)
           g == ORIGIN \o r.full_path \o WithMark(r.raw_query)
           s == SignedForm(r)
<1>1. TwilioSigns(c, r) = HmacB64(c.auth_token, g \o s)
  BY DEF TwilioSigns, WithMark, SignedForm
<1>2. Compared(c, r) = HmacB64(c.auth_token, u \o s)
  BY DEF Compared
<1>3. u \in Url /\ g \in Url /\ s \in Url
      /\ (u = g <=> AtOrigin(c) /\ r.raw_query = QueryString(r.query))
  BY SameUrl, SignedFormType
<1> HIDE DEF u, g, s
<1>4. Compared(c, r) = TwilioSigns(c, r) <=> u \o s = g \o s
  <2>1. \A k, d, e : HmacB64(k, d) = HmacB64(k, e) <=> d = e
    <3> SUFFICES ASSUME NEW k, NEW d, NEW e, HmacB64(k, d) = HmacB64(k, e) PROVE d = e
      OBVIOUS
    <3>1. HmacB64(k, d).data = d /\ HmacB64(k, e).data = e
      BY DEF HmacB64
    <3> QED BY <3>1
  <2>2. Compared(c, r) = TwilioSigns(c, r)
          <=> HmacB64(c.auth_token, u \o s) = HmacB64(c.auth_token, g \o s)
    BY <1>1, <1>2
  <2> QED BY <2>1, <2>2
<1>5. TwilioSigns(c, r).key = c.auth_token /\ Compared(c, r).key = c.auth_token
  BY <1>1, <1>2 DEF HmacB64
<1>6. u \o s = g \o s <=> u = g
  BY <1>3, CancelEnd
<1> QED BY <1>3, <1>4, <1>5, <1>6 DEF Genuine, BodyIsSigned

\* A request that Twilio signed is refused exactly if the URL is not rebuilt
\* as Twilio was given it; one it did not sign is refused, but for a header
\* made with the token for a URL rebuilt wrong (webhook.rs:108-167,
\* signature.rs:32-48).
THEOREM Refusal == Spec => []RefusedUnlessSigned
<1>1. IInv => RefusedUnlessSigned
  <2> SUFFICES ASSUME IInv, pc # "new" PROVE RefusedUnlessSigned
    BY DEF RefusedUnlessSigned
  <2>1. cfg \in Configs /\ req \in Requests /\ (response.status = 403 <=> ~CheckSignature(cfg, req))
    BY DEF IInv
  <2> DEFINE h == req.header
             a == Compared(cfg, req)
             t == TwilioSigns(cfg, req)
             rebuilt == AtOrigin(cfg) /\ req.raw_query = QueryString(req.query)
  <2>2. /\ CheckSignature(cfg, req) <=> (~cfg.validate_signature \/ (h = <<a>> /\ BodyIsSigned(req)))
        /\ Genuine(cfg, req) <=> h = <<t>> /\ BodyIsSigned(req)
        /\ a.key = cfg.auth_token /\ (a = t <=> rebuilt)
    BY <2>1, CheckSignatureIs, GenuineIs
  <2>3. RefusedUnlessSigned <=>
          /\ ~cfg.validate_signature => response.status # 403
          /\ cfg.validate_signature /\ Genuine(cfg, req) => (response.status = 403 <=> ~rebuilt)
          /\ cfg.validate_signature /\ ~Genuine(cfg, req)
               /\ (rebuilt \/ ~(h # <<>> /\ h[1].key = cfg.auth_token)) => response.status = 403
    BY DEF RefusedUnlessSigned
  <2> HIDE DEF h, a, t, rebuilt
  <2>4. <<a>> # <<>> /\ <<a>>[1] = a /\ (<<a>> = <<t>> <=> a = t)
    OBVIOUS
  <2> QED BY <2>1, <2>2, <2>3, <2>4
<1> QED BY <1>1, Invariance, PTL

-----------------------------------------------------------------------------
(* Nothing is lost: what was read gives back the verbs. *)

\* Two sequences that part where the elements of G end.
Parting(S, G, a, b, v, w) ==
    /\ a \in Seq(S) /\ b \in Seq(S) /\ v \in Seq(S) /\ w \in Seq(S)
    /\ \A i \in 1..Len(a) : a[i] \in G
    /\ \A i \in 1..Len(b) : b[i] \in G
    /\ v = <<>> \/ v[1] \notin G
    /\ w = <<>> \/ w[1] \notin G
    /\ a \o v = b \o w

\* Such a parting is where both agree.
LEMMA OneParting ==
  ASSUME NEW S, NEW G, NEW a, NEW b, NEW v, NEW w, Parting(S, G, a, b, v, w)
  PROVE  a = b /\ v = w
<1>0. /\ a \in Seq(S) /\ b \in Seq(S) /\ v \in Seq(S) /\ w \in Seq(S) /\ a \o v = b \o w
      /\ \A i \in 1..Len(a) : a[i] \in G
      /\ \A i \in 1..Len(b) : b[i] \in G
      /\ v = <<>> \/ v[1] \notin G
      /\ w = <<>> \/ w[1] \notin G
  BY DEF Parting
<1>1. /\ Len(a) \in Nat /\ Len(b) \in Nat /\ Len(v) \in Nat /\ Len(w) \in Nat
      /\ Len(a) + Len(v) = Len(b) + Len(w)
      /\ (v = <<>> <=> Len(v) = 0) /\ (w = <<>> <=> Len(w) = 0)
  <2>1. Len(a \o v) = Len(a) + Len(v) /\ Len(b \o w) = Len(b) + Len(w)
    BY <1>0, ConcatProperties
  <2> QED BY <1>0, <2>1
<1>2. ASSUME Len(a) < Len(b) PROVE FALSE
  <2>1. (a \o v)[Len(a) + 1] = v[1]
    BY <1>0, <1>1, <1>2
  <2>2. (b \o w)[Len(a) + 1] = b[Len(a) + 1]
    BY <1>0, <1>1, <1>2
  <2> QED BY <1>0, <1>1, <1>2, <2>1, <2>2
<1>3. ASSUME Len(b) < Len(a) PROVE FALSE
  <2>1. (b \o w)[Len(b) + 1] = w[1]
    BY <1>0, <1>1, <1>3
  <2>2. (a \o v)[Len(b) + 1] = a[Len(b) + 1]
    BY <1>0, <1>1, <1>3
  <2> QED BY <1>0, <1>1, <1>3, <2>1, <2>2
<1>4. Len(a) = Len(b)
  BY <1>1, <1>2, <1>3
<1> QED BY <1>0, <1>4, Cancel

\* A head, and no other after it.
Headed(m, H) == m # <<>> /\ m[1] \in H /\ \A i \in 2..Len(m) : m[i] \notin H

\* Two sequences with such an end.
Ending(S, H, a, b, v, w) ==
    /\ a \in Seq(S) /\ b \in Seq(S) /\ v \in Seq(S) /\ w \in Seq(S)
    /\ Headed(v, H) /\ Headed(w, H) /\ a \o v = b \o w

\* Two sequences that end in a headed block end in the same one.
LEMMA LastHeaded ==
  ASSUME NEW S, NEW H, NEW a, NEW b, NEW v, NEW w, Ending(S, H, a, b, v, w)
  PROVE  a = b /\ v = w
<1>0. /\ a \in Seq(S) /\ b \in Seq(S) /\ v \in Seq(S) /\ w \in Seq(S)
      /\ Headed(v, H) /\ Headed(w, H) /\ a \o v = b \o w
  BY DEF Ending
<1>1. /\ Len(a) \in Nat /\ Len(b) \in Nat /\ Len(v) \in Nat /\ Len(w) \in Nat
      /\ Len(a) + Len(v) = Len(b) + Len(w)
      /\ Len(v) # 0 /\ Len(w) # 0
  <2>1. Len(a \o v) = Len(a) + Len(v) /\ Len(b \o w) = Len(b) + Len(w)
    BY <1>0, ConcatProperties
  <2> QED BY <1>0, <2>1 DEF Headed
<1>2. /\ v[1] \in H /\ \A i \in 2..Len(v) : v[i] \notin H
      /\ w[1] \in H /\ \A i \in 2..Len(w) : w[i] \notin H
  BY <1>0 DEF Headed
<1>3. ASSUME Len(a) < Len(b) PROVE FALSE
  <2>1. (a \o v)[Len(b) + 1] = v[Len(b) + 1 - Len(a)]
    BY <1>0, <1>1, <1>3
  <2>2. (b \o w)[Len(b) + 1] = w[1]
    BY <1>0, <1>1, <1>3
  <2> QED BY <1>0, <1>1, <1>2, <1>3, <2>1, <2>2
<1>4. ASSUME Len(b) < Len(a) PROVE FALSE
  <2>1. (b \o w)[Len(a) + 1] = w[Len(a) + 1 - Len(b)]
    BY <1>0, <1>1, <1>4
  <2>2. (a \o v)[Len(a) + 1] = v[1]
    <3>1. Len(a) + 1 \in 1..(Len(a) + Len(v)) /\ Len(a) + 1 - Len(a) = 1 /\ ~(Len(a) + 1 <= Len(a))
      BY <1>1
    <3>2. (a \o v)[Len(a) + 1] = v[Len(a) + 1 - Len(a)]
      BY <1>0, <3>1, ConcatProperties
    <3> QED BY <3>1, <3>2
  <2> QED BY <1>0, <1>1, <1>2, <1>4, <2>1, <2>2
<1>5. Len(a) = Len(b)
  BY <1>1, <1>3, <1>4
<1> QED BY <1>0, <1>5, Cancel

\* Each element of S has sequences of its own, that can be told apart.
Tells(h, S, H) ==
    /\ \A e \in S : Headed(h[e], H)
    /\ \A e, f \in S : h[e] = h[f] => e = f

\* So that nothing is lost of a list of them.
LEMMA SpreadTells ==
  ASSUME NEW S, NEW T, NEW H, NEW h \in [S -> Seq(T)], Tells(h, S, H)
  PROVE  \A x, y \in Seq(S) : Spread(h, x) = Spread(h, y) => x = y
<1> DEFINE I == {x \in Seq(S) : \A y \in Seq(S) : Spread(h, x) = Spread(h, y) => x = y}
<1>1. Spreads(h, S, T)
  BY SpreadFacts
<1>2. ASSUME NEW z \in Seq(S), NEW e \in S
      PROVE  /\ Spread(h, z) \in Seq(T) /\ h[e] \in Seq(T)
             /\ Spread(h, Append(z, e)) = Spread(h, z) \o h[e]
             /\ Spread(h, Append(z, e)) # <<>>
  <2>1. /\ Spread(h, z) \in Seq(T) /\ h[e] \in Seq(T)
        /\ Spread(h, Append(z, e)) = Spread(h, z) \o h[e]
    BY <1>1 DEF Spreads
  <2>2. h[e] # <<>>
    BY DEF Tells, Headed
  <2> DEFINE a == Spread(h, z)
             b == h[e]
  <2>3. a \in Seq(T) /\ b \in Seq(T) /\ b # <<>>
    BY <2>1, <2>2
  <2> HIDE DEF a, b
  <2>4. a \o b # <<>>
    BY <2>3
  <2> QED BY <2>1, <2>4 DEF a, b
<1>3. <<>> \in I
  <2>1. ASSUME NEW y \in Seq(S), Spread(h, <<>>) = Spread(h, y) PROVE <<>> = y
    <3>1. Spread(h, <<>>) = <<>>
      BY SpreadEmpty
    <3>2. ASSUME y # <<>> PROVE FALSE
      <4>1. PICK z \in Seq(S), e \in S : y = Append(z, e)
        BY <3>2, SequenceEmptyOrAppend
      <4> QED BY <1>2, <2>1, <3>1, <4>1
    <3> QED BY <3>2
  <2> QED BY <2>1
<1>4. ASSUME NEW x \in Seq(S), NEW e \in S, x \in I PROVE Append(x, e) \in I
  <2>1. ASSUME NEW y \in Seq(S), Spread(h, Append(x, e)) = Spread(h, y) PROVE Append(x, e) = y
    <3>1. y # <<>>
      BY <1>2, <2>1, SpreadEmpty
    <3>2. PICK z \in Seq(S), f \in S : y = Append(z, f)
      BY <3>1, SequenceEmptyOrAppend
    <3>3. Spread(h, x) \o h[e] = Spread(h, z) \o h[f]
      BY <1>2, <2>1, <3>2
    <3>4. Headed(h[e], H) /\ Headed(h[f], H)
      BY DEF Tells
    <3>5. Spread(h, x) = Spread(h, z) /\ h[e] = h[f]
      <4> DEFINE a == Spread(h, x)
                 b == Spread(h, z)
                 v == h[e]
                 w == h[f]
      <4>1. Ending(T, H, a, b, v, w)
        BY <1>2, <3>3, <3>4 DEF Ending
      <4> HIDE DEF a, b, v, w
      <4>2. a = b /\ v = w
        BY <4>1, LastHeaded
      <4> QED BY <4>2 DEF a, b, v, w
    <3>6. x = z /\ e = f
      BY <1>4, <3>5 DEF Tells
    <3> QED BY <3>2, <3>6
  <2>2. Append(x, e) \in Seq(S)
    BY AppendProperties
  <2> QED BY <2>1, <2>2
<1>5. \A x \in Seq(S) : x \in I
  <2> HIDE DEF I
  <2> QED BY <1>3, <1>4, SeqInduction
<1> QED BY <1>5

\* What opens an element below q.
Opening(q) == {n \in Node : n.kind = "open" /\ Len(n.path) = Len(q) + 1}

\* What is read of an element is headed by its opening.
LEMMA BlockHeaded ==
  ASSUME NEW p \in Path, NEW name \in Lexeme, NEW M, Block(M, p, name)
  PROVE  /\ Headed(M, Opening(p)) /\ M \in Seq(Node)
         /\ M[1] = NodeAt("open", Append(p, name), <<>>)
<1> DEFINE o == NodeAt("open", Append(p, name), <<>>)
           q == Append(p, name)
<1>1. q \in Path /\ Len(q) = Len(p) + 1 /\ Len(p) \in Nat
  BY ExtendsAppend
<1>2. o \in Node /\ o.kind = "open" /\ o.path = q
  <2>1. <<>> \in String
    BY EmptySeq DEF String
  <2> QED BY <1>1, <2>1 DEF NodeAt, Node
<1>3. o \in Opening(p)
  BY <1>1, <1>2 DEF Opening
<1>4. PICK R : Inside(R, q) /\ M = <<o>> \o R
  BY DEF Block, Open
<1> HIDE DEF o, q
<1>5. <<o>> \in Seq(Node) /\ Len(<<o>>) = 1 /\ <<o>>[1] = o /\ R \in Seq(Node)
  BY <1>2, <1>4 DEF Inside
<1>6. /\ M \in Seq(Node) /\ M[1] = o /\ Len(M) = 1 + Len(R) /\ Len(R) \in Nat
      /\ \A i \in 2..Len(M) : M[i] = R[i - 1]
  BY <1>4, <1>5
<1>7. ASSUME NEW i \in 2..Len(M) PROVE M[i] \notin Opening(p)
  <2>1. i - 1 \in DOMAIN R
    BY <1>5, <1>6
  <2>2. Len(R[i - 1].path) > Len(q) \/ R[i - 1].kind = "text"
    BY <1>4, <2>1 DEF Inside
  <2>3. R[i - 1] \in Node
    BY <1>5, <2>1
  <2>4. M[i] = R[i - 1]
    BY <1>6
  <2>5. R[i - 1].path \in Path
    BY <2>3 DEF Node
  <2>6. Len(R[i - 1].path) \in Nat
    BY <2>5 DEF Path
  <2> QED BY <1>1, <2>2, <2>4, <2>6 DEF Opening
<1>8. M # <<>>
  BY <1>6
<1> QED BY <1>3, <1>6, <1>7, <1>8 DEF Headed, o, q

-----------------------------------------------------------------------------
(* Of the attributes. *)

\* Names appended to one path can be told apart.
LEMMA SameName ==
  ASSUME NEW q \in Path, NEW a \in Lexeme, NEW b \in Lexeme, Append(q, a) = Append(q, b)
  PROVE  a = b
  BY FrontLast

\* The attributes of q that X holds have their names in N.
Named(X, q, N) ==
    /\ X \in Seq(Node)
    /\ \A i \in 1..Len(X) : X[i].kind = "attribute" /\ \E n \in N : X[i].path = Append(q, n)

\* An attribute's node has its name and its value.
LEMMA AttrNodeIs ==
  ASSUME NEW q \in Path, NEW name \in Name, NEW value \in Option(Text)
  PROVE  /\ Named(AttrNode(q, name, value), q, {name})
         /\ value = <<>> <=> AttrNode(q, name, value) = <<>>
         /\ value # <<>> => /\ AttrNode(q, name, value)[1].path = Append(q, name)
                            /\ AttrNode(q, name, value)[1].text = value[1]
<1> DEFINE n == NodeAt("attribute", Append(q, name), value[1])
<1>1. CASE value = <<>>
  BY <1>1 DEF AttrNode, Named
<1>2. CASE value # <<>>
  <2>1. AttrNode(q, name, value) = <<n>>
    BY <1>2 DEF AttrNode
  <2>2. AttrNode(q, name, value) \in Seq(Node)
    BY OkAttr DEF OkAttrs, Takes
  <2>3. n.kind = "attribute" /\ n.path = Append(q, name) /\ n.text = value[1]
    BY DEF NodeAt
  <2> HIDE DEF n
  <2>4. Len(<<n>>) = 1 /\ <<n>>[1] = n /\ <<n>> # <<>>
    OBVIOUS
  <2> QED BY <1>2, <2>1, <2>2, <2>3, <2>4 DEF Named
<1> QED BY <1>1, <1>2

\* An attribute gives back its value, and whether it has one.
LEMMA AttrNodeTells ==
  ASSUME NEW q \in Path, NEW name \in Name, NEW v \in Option(Text), NEW w \in Option(Text),
         AttrNode(q, name, v) = AttrNode(q, name, w)
  PROVE  v = w
<1>1. CASE v = <<>>
  BY <1>1, AttrNodeIs
<1>2. CASE v # <<>>
  <2>0. /\ v = <<>> <=> AttrNode(q, name, v) = <<>>
        /\ w = <<>> <=> AttrNode(q, name, w) = <<>>
        /\ v # <<>> => AttrNode(q, name, v)[1].text = v[1]
        /\ w # <<>> => AttrNode(q, name, w)[1].text = w[1]
    BY AttrNodeIs
  <2>1. w # <<>> /\ v[1] = w[1]
    BY <1>2, <2>0
  <2>2. v \in Seq(Text) /\ Len(v) = 1 /\ w \in Seq(Text) /\ Len(w) = 1
    BY <1>2, <2>1, SMTT(30) DEF Option
  <2>3. \A i \in 1..1 : v[i] = w[i]
    BY <2>1
  <2> QED BY <2>2, <2>3, SeqEqual
<1> QED BY <1>1, <1>2

\* The names in two parts are those in either.
LEMMA NamedConcat ==
  ASSUME NEW q, NEW M, NEW N, NEW X, NEW Y, Named(X, q, M), Named(Y, q, N)
  PROVE  Named(X \o Y, q, M \union N)
<1>1. X \in Seq(Node) /\ Y \in Seq(Node)
  BY DEF Named
<1>2. /\ X \o Y \in Seq(Node) /\ Len(X \o Y) = Len(X) + Len(Y) /\ Len(X) \in Nat /\ Len(Y) \in Nat
  BY <1>1, ConcatProperties
<1>3. ASSUME NEW i \in 1..Len(X \o Y)
      PROVE  (X \o Y)[i].kind = "attribute" /\ \E n \in M \union N : (X \o Y)[i].path = Append(q, n)
  <2>1. CASE i <= Len(X)
    <3>1. (X \o Y)[i] = X[i] /\ i \in 1..Len(X)
      BY <1>1, <1>2, <2>1
    <3> QED BY <3>1 DEF Named
  <2>2. CASE i > Len(X)
    <3>1. (X \o Y)[i] = Y[i - Len(X)] /\ i - Len(X) \in 1..Len(Y)
      BY <1>1, <1>2, <2>2
    <3> QED BY <3>1 DEF Named
  <2> QED BY <1>2, <2>1, <2>2
<1> QED BY <1>2, <1>3 DEF Named

\* The last attribute can be taken off.
Peels(q, N, name, X, Y, v, w) ==
    /\ q \in Path /\ N \in SUBSET Lexeme /\ name \in Name /\ name \notin N
    /\ Named(X, q, N) /\ Named(Y, q, N) /\ v \in Option(Text) /\ w \in Option(Text)
    /\ X \o AttrNode(q, name, v) = Y \o AttrNode(q, name, w)

\* Attributes that end in one of the same name have the same value there, and
\* the same attributes before it.
LEMMA Peel ==
  ASSUME NEW q, NEW N, NEW name, NEW X, NEW Y, NEW v, NEW w, Peels(q, N, name, X, Y, v, w)
  PROVE  X = Y /\ v = w
<1>0. /\ q \in Path /\ N \in SUBSET Lexeme /\ name \in Name /\ name \notin N
      /\ Named(X, q, N) /\ Named(Y, q, N) /\ v \in Option(Text) /\ w \in Option(Text)
      /\ X \o AttrNode(q, name, v) = Y \o AttrNode(q, name, w)
  BY DEF Peels
<1> DEFINE G == {n \in Node : n.path # Append(q, name)}
           a == AttrNode(q, name, v)
           b == AttrNode(q, name, w)
<1>1. X \in Seq(Node) /\ Y \in Seq(Node) /\ a \in Seq(Node) /\ b \in Seq(Node)
  BY <1>0, AttrNodeIs DEF Named
<1>2. ASSUME NEW Z, Named(Z, q, N) PROVE \A i \in 1..Len(Z) : Z[i] \in G
  <2> TAKE i \in 1..Len(Z)
  <2>1. Z[i] \in Node
    BY <1>2 DEF Named
  <2>2. PICK n \in N : Z[i].path = Append(q, n)
    BY <1>2 DEF Named
  <2>3. n # name /\ n \in Lexeme /\ name \in Lexeme
    BY <1>0 DEF Name
  <2>4. Append(q, n) # Append(q, name)
    BY <1>0, <2>3, SameName
  <2> QED BY <2>1, <2>2, <2>4
<1>3. (a = <<>> \/ a[1] \notin G) /\ (b = <<>> \/ b[1] \notin G)
  BY <1>0, AttrNodeIs
<1>4. Parting(Node, G, X, Y, a, b)
  <2>1. X \o a = Y \o b
    BY <1>0
  <2> HIDE DEF a, b, G
  <2> QED BY <1>0, <1>1, <1>2, <1>3, <2>1 DEF Parting
<1> HIDE DEF G
<1>5. X = Y /\ a = b
  <2> HIDE DEF a, b
  <2> QED BY <1>4, OneParting
<1> QED BY <1>0, <1>5, AttrNodeTells

-----------------------------------------------------------------------------

\* Two and three attributes.
Attrs2(q, a1, v1, a2, v2) == AttrNode(q, a1, v1) \o AttrNode(q, a2, v2)

\* Three attributes.
Attrs3(q, a1, v1, a2, v2, a3, v3) == Attrs2(q, a1, v1, a2, v2) \o AttrNode(q, a3, v3)

\* Two attributes have their two names.
LEMMA Attrs2Named ==
  ASSUME NEW q \in Path, NEW a1 \in Name, NEW a2 \in Name \ {a1},
         NEW v1 \in Option(Text), NEW v2 \in Option(Text)
  PROVE  Named(Attrs2(q, a1, v1, a2, v2), q, {a1, a2})
<1>1. Named(AttrNode(q, a2, v2), q, {a2})
  BY AttrNodeIs
<1>2. Named(AttrNode(q, a1, v1), q, {a1})
  BY AttrNodeIs
<1>3. {a1} \union {a2} = {a1, a2}
  OBVIOUS
<1> QED BY <1>1, <1>2, <1>3, NamedConcat DEF Attrs2

\* Two attributes can be told.
Apart2(q, a1, a2) ==
    \A v1, v2, w1, w2 \in Option(Text) :
        Attrs2(q, a1, v1, a2, v2) = Attrs2(q, a1, w1, a2, w2)
          => v1 = w1 /\ v2 = w2

\* Two attributes give back their two values.
LEMMA Attrs2Tell ==
  ASSUME NEW q \in Path, NEW a1 \in Name, NEW a2 \in Name \ {a1}
  PROVE  Apart2(q, a1, a2)
<1>1. \A v1, w1 \in Option(Text) : AttrNode(q, a1, v1) = AttrNode(q, a1, w1) => v1 = w1
  BY AttrNodeTells
<1> SUFFICES ASSUME NEW v1 \in Option(Text), NEW v2 \in Option(Text), NEW w1 \in Option(Text),
                    NEW w2 \in Option(Text),
                    Attrs2(q, a1, v1, a2, v2) = Attrs2(q, a1, w1, a2, w2)
             PROVE  v1 = w1 /\ v2 = w2
  BY DEF Apart2
<1> DEFINE X == AttrNode(q, a1, v1)
           Y == AttrNode(q, a1, w1)
           N == {a1}
<1>2. Named(X, q, N) /\ Named(Y, q, N)
  BY AttrNodeIs
<1>3. N \in SUBSET Lexeme /\ a2 \in Name /\ a2 \notin N
  BY DEF Name
<1>4. X \o AttrNode(q, a2, v2) = Y \o AttrNode(q, a2, w2)
  BY DEF Attrs2
<1> HIDE DEF X, Y, N
<1>5. Peels(q, N, a2, X, Y, v2, w2)
  BY <1>2, <1>3, <1>4 DEF Peels
<1>6. X = Y /\ v2 = w2
  BY <1>5, Peel
<1>7. AttrNode(q, a1, v1) = AttrNode(q, a1, w1)
  BY <1>6 DEF X, Y
<1> QED BY <1>1, <1>6, <1>7

\* Three attributes have their three names.
LEMMA Attrs3Named ==
  ASSUME NEW q \in Path, NEW a1 \in Name, NEW a2 \in Name \ {a1}, NEW a3 \in Name \ {a1, a2},
         NEW v1 \in Option(Text), NEW v2 \in Option(Text), NEW v3 \in Option(Text)
  PROVE  Named(Attrs3(q, a1, v1, a2, v2, a3, v3), q, {a1, a2, a3})
<1>1. Named(AttrNode(q, a3, v3), q, {a3})
  BY AttrNodeIs
<1>2. Named(Attrs2(q, a1, v1, a2, v2), q, {a1, a2})
  BY Attrs2Named
<1>3. {a1, a2} \union {a3} = {a1, a2, a3}
  OBVIOUS
<1> QED BY <1>1, <1>2, <1>3, NamedConcat DEF Attrs3

\* Three can.
Apart3(q, a1, a2, a3) ==
    \A v1, v2, v3, w1, w2, w3 \in Option(Text) :
        Attrs3(q, a1, v1, a2, v2, a3, v3) = Attrs3(q, a1, w1, a2, w2, a3, w3)
          => v1 = w1 /\ v2 = w2 /\ v3 = w3

\* Three attributes give back their three values.
LEMMA Attrs3Tell ==
  ASSUME NEW q \in Path, NEW a1 \in Name, NEW a2 \in Name \ {a1}, NEW a3 \in Name \ {a1, a2}
  PROVE  Apart3(q, a1, a2, a3)
<1>1. Apart2(q, a1, a2)
  BY Attrs2Tell
<1> SUFFICES ASSUME NEW v1 \in Option(Text), NEW v2 \in Option(Text), NEW v3 \in Option(Text),
                    NEW w1 \in Option(Text), NEW w2 \in Option(Text), NEW w3 \in Option(Text),
                    Attrs3(q, a1, v1, a2, v2, a3, v3) = Attrs3(q, a1, w1, a2, w2, a3, w3)
             PROVE  v1 = w1 /\ v2 = w2 /\ v3 = w3
  BY DEF Apart3
<1> DEFINE X == Attrs2(q, a1, v1, a2, v2)
           Y == Attrs2(q, a1, w1, a2, w2)
           N == {a1, a2}
<1>2. Named(X, q, N) /\ Named(Y, q, N)
  BY Attrs2Named
<1>3. N \in SUBSET Lexeme /\ a3 \in Name /\ a3 \notin N
  BY DEF Name
<1>4. X \o AttrNode(q, a3, v3) = Y \o AttrNode(q, a3, w3)
  BY DEF Attrs3
<1> HIDE DEF X, Y, N
<1>5. Peels(q, N, a3, X, Y, v3, w3)
  BY <1>2, <1>3, <1>4 DEF Peels
<1>6. X = Y /\ v3 = w3
  BY <1>5, Peel
<1>7. Attrs2(q, a1, v1, a2, v2) = Attrs2(q, a1, w1, a2, w2)
  BY <1>6 DEF X, Y
<1> QED BY <1>1, <1>6, <1>7 DEF Apart2

\* The fields of two verbs of one kind that are attributes.
SameAttrs(v, w) ==
    /\ v.verb = "say" => v.voice = w.voice /\ v.language = w.language
    /\ v.verb = "gather" =>
         /\ v.input = w.input /\ v.action = w.action /\ v.num_digits = w.num_digits
         /\ v.speech_timeout = w.speech_timeout /\ v.timeout = w.timeout
    /\ v.verb = "record" =>
         v.action = w.action /\ v.max_length = w.max_length /\ v.play_beep = w.play_beep
    /\ v.verb = "dial" => v.caller_id = w.caller_id
    /\ v.verb = "reject" => v.reason = w.reason
    /\ v.verb = "pause" => v.length = w.length

\* The attributes of one verb have different names (twiml.rs:131-224).
LEMMA NamesDiffer ==
  /\ "voice" \in Name /\ "language" \in Name \ {"voice"}
  /\ "input" \in Name /\ "action" \in Name \ {"input"} /\ "numDigits" \in Name \ {"input", "action"}
  /\ "speechTimeout" \in Name \ {"input", "action", "numDigits"}
  /\ "timeout" \in Name \ {"input", "action", "numDigits", "speechTimeout"}
  /\ "action" \in Name /\ "maxLength" \in Name \ {"action"}
  /\ "playBeep" \in Name \ {"action", "maxLength"}
  /\ "callerId" \in Name /\ "reason" \in Name /\ "length" \in Name
  /\ {"input", "action", "numDigits", "speechTimeout"} \in SUBSET Lexeme
<1>1. Names \subseteq Name /\ Name \subseteq Lexeme
  BY NamesAreNames DEF Name
<1> QED BY <1>1 DEF Names

-----------------------------------------------------------------------------

\* The attributes of <Say>, of <Record> and the first three of <Gather> give
\* back their values.
LEMMA NamesApart ==
    /\ \A q \in Path : Apart2(q, "voice", "language")
    /\ \A q \in Path : Apart3(q, "action", "maxLength", "playBeep")
    /\ \A q \in Path : Apart3(q, "input", "action", "numDigits")
<1> DEFINE a1 == "voice"
           a2 == "language"
           b1 == "action"
           b2 == "maxLength"
           b3 == "playBeep"
           c1 == "input"
           c3 == "numDigits"
<1>1. /\ a1 \in Name /\ a2 \in Name \ {a1}
      /\ b1 \in Name /\ b2 \in Name \ {b1} /\ b3 \in Name \ {b1, b2}
      /\ c1 \in Name /\ b1 \in Name \ {c1} /\ c3 \in Name \ {c1, b1}
  BY NamesDiffer
<1> HIDE DEF a1, a2, b1, b2, b3, c1, c3
<1> SUFFICES ASSUME NEW q \in Path
             PROVE  Apart2(q, a1, a2) /\ Apart3(q, b1, b2, b3) /\ Apart3(q, c1, b1, c3)
  BY DEF a1, a2, b1, b2, b3, c1, c3
<1>2. Apart2(q, a1, a2)
  BY <1>1, Attrs2Tell
<1>3. Apart3(q, b1, b2, b3)
  BY <1>1, Attrs3Tell
<1>4. Apart3(q, c1, b1, c3)
  BY <1>1, Attrs3Tell
<1> QED BY <1>2, <1>3, <1>4

\* The first three and the first four of the five attributes of a <Gather>.
Gather3(v, q) == Attrs3(q, "input", v.input, "action", v.action, "numDigits", v.num_digits)

\* With the fourth.
Gather4(v, q) == Gather3(v, q) \o AttrNode(q, "speechTimeout", v.speech_timeout)

\* The optional fields that are attributes.
LEMMA AttrFields ==
  ASSUME NEW verbs, NEW v \in Leaf \union Gathers(verbs)
  PROVE  /\ v.verb = "say" => v.voice \in Option(Text) /\ v.language \in Option(Text)
         /\ v.verb = "gather" =>
              /\ v.input \in Option(Text) /\ v.action \in Option(Text)
              /\ v.num_digits \in Option(Text) /\ v.speech_timeout \in Option(Text)
              /\ v.timeout \in Option(Text)
         /\ v.verb = "record" =>
              /\ v.action \in Option(Text) /\ v.max_length \in Option(Text)
              /\ v.play_beep \in Option(Text)
         /\ v.verb = "dial" => v.caller_id \in Option(Text)
         /\ v.verb = "reject" => v.reason \in Option(Text)
         /\ v.verb = "pause" => v.length \in Option(Text)
<1>1. v.verb = "gather" =>
              /\ v.input \in Option(Text) /\ v.action \in Option(Text)
              /\ v.num_digits \in Option(Text) /\ v.speech_timeout \in Option(Text)
              /\ v.timeout \in Option(Text)
  BY VerbFields DEF Gathers
<1>2. v.verb = "say" => v.voice \in Option(Text) /\ v.language \in Option(Text)
  BY VerbFields
<1>3. v.verb = "record" => /\ v.action \in Option(Text) /\ v.max_length \in Option(Text)
                           /\ v.play_beep \in Option(Text)
  BY VerbFields
<1>4. /\ v.verb = "dial" => v.caller_id \in Option(Text)
      /\ v.verb = "reject" => v.reason \in Option(Text)
      /\ v.verb = "pause" => v.length \in Option(Text)
  BY VerbFields
<1> QED BY <1>1, <1>2, <1>3, <1>4

\* The first attributes of a <Gather> have none of the names of the last.
LEMMA GatherNamed ==
  ASSUME NEW q \in Path, NEW verbs, NEW v \in Leaf \union Gathers(verbs), v.verb = "gather"
  PROVE  /\ Named(Gather3(v, q), q, {"input", "action", "numDigits"})
         /\ Named(Gather4(v, q), q, {"input", "action", "numDigits", "speechTimeout"})
         /\ VerbAttrs(v, q) = Gather4(v, q) \o AttrNode(q, "timeout", v.timeout)
<1> DEFINE c1 == "input"
           c2 == "action"
           c3 == "numDigits"
           c4 == "speechTimeout"
           v1 == v.input
           v2 == v.action
           v3 == v.num_digits
           v4 == v.speech_timeout
<1>1. c1 \in Name /\ c2 \in Name \ {c1} /\ c3 \in Name \ {c1, c2} /\ c4 \in Name
  BY NamesDiffer
<1>2. v1 \in Option(Text) /\ v2 \in Option(Text) /\ v3 \in Option(Text) /\ v4 \in Option(Text)
  BY AttrFields
<1>3. Gather3(v, q) = Attrs3(q, c1, v1, c2, v2, c3, v3)
      /\ Gather4(v, q) = Gather3(v, q) \o AttrNode(q, c4, v4)
  BY DEF Gather3, Gather4
<1>4. {c1, c2, c3} = {"input", "action", "numDigits"}
      /\ {c1, c2, c3} \union {c4} = {"input", "action", "numDigits", "speechTimeout"}
  OBVIOUS
<1>5. VerbAttrs(v, q) = Gather4(v, q) \o AttrNode(q, "timeout", v.timeout)
  BY DEF VerbAttrs, Gather4, Gather3, Attrs3, Attrs2
<1> HIDE DEF c1, c2, c3, c4, v1, v2, v3, v4
<1>6. Named(Gather3(v, q), q, {c1, c2, c3}) /\ Named(AttrNode(q, c4, v4), q, {c4})
  <2>1. Named(Attrs3(q, c1, v1, c2, v2, c3, v3), q, {c1, c2, c3})
    BY <1>1, <1>2, Attrs3Named
  <2>2. Named(AttrNode(q, c4, v4), q, {c4})
    BY <1>1, <1>2, AttrNodeIs
  <2> QED BY <1>3, <2>1, <2>2
<1>7. Named(Gather4(v, q), q, {c1, c2, c3} \union {c4})
  BY <1>3, <1>6, NamedConcat
<1> QED BY <1>4, <1>5, <1>6, <1>7

\* The attributes of a verb give back the fields they come from.
LEMMA VerbAttrsTell ==
  ASSUME NEW q \in Path, NEW verbs, NEW v \in Leaf \union Gathers(verbs),
         NEW w \in Leaf \union Gathers(verbs),
         v.verb = w.verb, VerbAttrs(v, q) = VerbAttrs(w, q)
  PROVE  SameAttrs(v, w)
<1>1. CASE v.verb = "say"
  <2>1. VerbAttrs(v, q) = Attrs2(q, "voice", v.voice, "language", v.language)
        /\ VerbAttrs(w, q) = Attrs2(q, "voice", w.voice, "language", w.language)
    BY <1>1 DEF VerbAttrs, Attrs2
  <2>2. v.voice = w.voice /\ v.language = w.language
    <3>1. \A v1, v2, w1, w2 \in Option(Text) :
            Attrs2(q, "voice", v1, "language", v2)
              = Attrs2(q, "voice", w1, "language", w2)
            => v1 = w1 /\ v2 = w2
      BY NamesApart DEF Apart2
    <3>2. v.voice \in Option(Text) /\ v.language \in Option(Text)
      BY <1>1, AttrFields
    <3>3. w.voice \in Option(Text) /\ w.language \in Option(Text)
      BY <1>1, AttrFields
    <3> DEFINE a1 == v.voice
               a2 == v.language
               b1 == w.voice
               b2 == w.language
    <3>4. a1 \in Option(Text) /\ a2 \in Option(Text) /\ b1 \in Option(Text) /\ b2 \in Option(Text)
      BY <3>2, <3>3
    <3>5. Attrs2(q, "voice", a1, "language", a2)
            = Attrs2(q, "voice", b1, "language", b2)
      BY <2>1
    <3> HIDE DEF a1, a2, b1, b2
    <3>6. a1 = b1 /\ a2 = b2
      BY <3>1, <3>4, <3>5
    <3> QED BY <3>6 DEF a1, a2, b1, b2
  <2> QED BY <1>1, <2>2 DEF SameAttrs
<1>2. CASE v.verb = "gather"
  <2> DEFINE M == {"input", "action", "numDigits"}
             N == {"input", "action", "numDigits", "speechTimeout"}
             m == "speechTimeout"
             n == "timeout"
  <2>1. /\ v.input \in Option(Text) /\ v.action \in Option(Text) /\ v.num_digits \in Option(Text)
        /\ v.speech_timeout \in Option(Text) /\ v.timeout \in Option(Text)
    BY <1>2, AttrFields
  <2>2. /\ w.input \in Option(Text) /\ w.action \in Option(Text) /\ w.num_digits \in Option(Text)
        /\ w.speech_timeout \in Option(Text) /\ w.timeout \in Option(Text)
    BY <1>2, AttrFields
  <2>3. /\ N \in SUBSET Lexeme /\ n \in Name /\ n \notin N
        /\ M \in SUBSET Lexeme /\ m \in Name /\ m \notin M
    BY NamesDiffer
  <2>4. /\ Named(Gather3(v, q), q, M) /\ Named(Gather4(v, q), q, N)
        /\ Gather4(v, q) = Gather3(v, q) \o AttrNode(q, m, v.speech_timeout)
        /\ VerbAttrs(v, q) = Gather4(v, q) \o AttrNode(q, n, v.timeout)
    BY <1>2, GatherNamed DEF Gather4
  <2>5. /\ Named(Gather3(w, q), q, M) /\ Named(Gather4(w, q), q, N)
        /\ Gather4(w, q) = Gather3(w, q) \o AttrNode(q, m, w.speech_timeout)
        /\ VerbAttrs(w, q) = Gather4(w, q) \o AttrNode(q, n, w.timeout)
    BY <1>2, GatherNamed DEF Gather4
  <2>6. Gather4(v, q) = Gather4(w, q) /\ v.timeout = w.timeout
    <3> HIDE DEF M, N, m, n
    <3>1. Peels(q, N, n, Gather4(v, q), Gather4(w, q), v.timeout, w.timeout)
      BY <2>1, <2>2, <2>3, <2>4, <2>5 DEF Peels
    <3> QED BY <3>1, Peel
  <2>7. Gather3(v, q) = Gather3(w, q) /\ v.speech_timeout = w.speech_timeout
    <3> HIDE DEF M, N, m, n
    <3>1. Peels(q, M, m, Gather3(v, q), Gather3(w, q), v.speech_timeout, w.speech_timeout)
      BY <2>1, <2>2, <2>3, <2>4, <2>5, <2>6 DEF Peels
    <3> QED BY <3>1, Peel
  <2>8. v.input = w.input /\ v.action = w.action /\ v.num_digits = w.num_digits
    <3> DEFINE a1 == v.input
               a2 == v.action
               a3 == v.num_digits
               b1 == w.input
               b2 == w.action
               b3 == w.num_digits
    <3>1. /\ a1 \in Option(Text) /\ a2 \in Option(Text) /\ a3 \in Option(Text)
          /\ b1 \in Option(Text) /\ b2 \in Option(Text) /\ b3 \in Option(Text)
      BY <2>1, <2>2
    <3>2. Attrs3(q, "input", a1, "action", a2, "numDigits", a3)
            = Attrs3(q, "input", b1, "action", b2, "numDigits", b3)
      BY <2>7 DEF Gather3
    <3>3. Apart3(q, "input", "action", "numDigits")
      BY NamesApart
    <3> HIDE DEF a1, a2, a3, b1, b2, b3
    <3>4. a1 = b1 /\ a2 = b2 /\ a3 = b3
      BY <3>1, <3>2, <3>3 DEF Apart3
    <3> QED BY <3>4 DEF a1, a2, a3, b1, b2, b3
  <2> QED BY <1>2, <2>6, <2>7, <2>8 DEF SameAttrs
<1>3. CASE v.verb = "record"
  <2>1. /\ VerbAttrs(v, q) = Attrs3(q, "action", v.action, "maxLength", v.max_length,
                                    "playBeep", v.play_beep)
        /\ VerbAttrs(w, q) = Attrs3(q, "action", w.action, "maxLength", w.max_length,
                                    "playBeep", w.play_beep)
    BY <1>3 DEF VerbAttrs, Attrs2, Attrs3
  <2>2. v.action = w.action /\ v.max_length = w.max_length /\ v.play_beep = w.play_beep
    <3>1. \A v1, v2, v3, w1, w2, w3 \in Option(Text) :
            Attrs3(q, "action", v1, "maxLength", v2, "playBeep", v3)
              = Attrs3(q, "action", w1, "maxLength", w2, "playBeep", w3)
            => v1 = w1 /\ v2 = w2 /\ v3 = w3
      BY NamesApart DEF Apart3
    <3>2. v.action \in Option(Text) /\ v.max_length \in Option(Text) /\ v.play_beep \in Option(Text)
      BY <1>3, AttrFields
    <3>3. w.action \in Option(Text) /\ w.max_length \in Option(Text) /\ w.play_beep \in Option(Text)
      BY <1>3, AttrFields
    <3> DEFINE a1 == v.action
               a2 == v.max_length
               a3 == v.play_beep
               b1 == w.action
               b2 == w.max_length
               b3 == w.play_beep
    <3>4. a1 \in Option(Text) /\ a2 \in Option(Text) /\ a3 \in Option(Text)
          /\ b1 \in Option(Text) /\ b2 \in Option(Text) /\ b3 \in Option(Text)
      BY <3>2, <3>3
    <3>5. Attrs3(q, "action", a1, "maxLength", a2, "playBeep", a3)
            = Attrs3(q, "action", b1, "maxLength", b2, "playBeep", b3)
      BY <2>1
    <3> HIDE DEF a1, a2, a3, b1, b2, b3
    <3>6. a1 = b1 /\ a2 = b2 /\ a3 = b3
      BY <3>1, <3>4, <3>5
    <3> QED BY <3>6 DEF a1, a2, a3, b1, b2, b3
  <2> QED BY <1>3, <2>2 DEF SameAttrs
<1>4. CASE v.verb = "dial"
  <2>1. AttrNode(q, "callerId", v.caller_id) = AttrNode(q, "callerId", w.caller_id)
    BY <1>4 DEF VerbAttrs
  <2>2. v.caller_id = w.caller_id
    BY <1>4, <2>1, AttrFields, NamesDiffer, AttrNodeTells
  <2> QED BY <1>4, <2>2 DEF SameAttrs
<1>5. CASE v.verb = "reject"
  <2>1. AttrNode(q, "reason", v.reason) = AttrNode(q, "reason", w.reason)
    BY <1>5 DEF VerbAttrs
  <2>2. v.reason = w.reason
    BY <1>5, <2>1, AttrFields, NamesDiffer, AttrNodeTells
  <2> QED BY <1>5, <2>2 DEF SameAttrs
<1>6. CASE v.verb = "pause"
  <2>1. AttrNode(q, "length", v.length) = AttrNode(q, "length", w.length)
    BY <1>6 DEF VerbAttrs
  <2>2. v.length = w.length
    BY <1>6, <2>1, AttrFields, NamesDiffer, AttrNodeTells
  <2> QED BY <1>6, <2>2 DEF SameAttrs
<1>7. CASE v.verb \notin {"say", "gather", "record", "dial", "reject", "pause"}
  BY <1>7 DEF SameAttrs
<1> QED BY <1>1, <1>2, <1>3, <1>4, <1>5, <1>6, <1>7

\* They come before the content, and nothing of that is an attribute of q.
Attributes(q) == {n \in Node : n.kind = "attribute"}

\* They come before the content, and are attributes all.
LEMMA VerbAttrsAreAttributes ==
  ASSUME NEW q \in Path, NEW verbs, NEW v \in Leaf \union Gathers(verbs)
  PROVE  /\ VerbAttrs(v, q) \in Seq(Node)
         /\ \A i \in 1..Len(VerbAttrs(v, q)) : VerbAttrs(v, q)[i].kind = "attribute"
<1>0. ASSUME NEW name \in Names, NEW value \in Option(Text)
      PROVE  Named(AttrNode(q, name, value), q, {name})
  BY NamesAreNames, AttrNodeIs
<1>a. \A N, X : Named(X, q, N) =>
        X \in Seq(Node) /\ \A i \in 1..Len(X) : X[i].kind = "attribute"
  BY DEF Named
<1> SUFFICES \E N : Named(VerbAttrs(v, q), q, N)
  BY <1>a
<1>1. CASE v.verb = "say"
  <2>1. /\ Named(AttrNode(q, "voice", v.voice), q, {"voice"})
        /\ Named(AttrNode(q, "language", v.language), q, {"language"})
    BY <1>0, <1>1, AttrFields DEF Names
  <2>2. Named(AttrNode(q, "voice", v.voice) \o AttrNode(q, "language", v.language), q,
              {"voice"} \union {"language"})
    BY <2>1, NamedConcat
  <2> QED BY <1>1, <2>2 DEF VerbAttrs
<1>2. CASE v.verb = "gather"
  <2> DEFINE N == {"input", "action", "numDigits", "speechTimeout"}
  <2>1. /\ Named(Gather4(v, q), q, N) /\ Named(AttrNode(q, "timeout", v.timeout), q, {"timeout"})
        /\ VerbAttrs(v, q) = Gather4(v, q) \o AttrNode(q, "timeout", v.timeout)
    BY <1>0, <1>2, AttrFields, GatherNamed DEF Names
  <2> HIDE DEF N
  <2>3. Named(VerbAttrs(v, q), q, N \union {"timeout"})
    BY <2>1, NamedConcat
  <2> QED BY <2>3
<1>3. CASE v.verb = "record"
  <2> DEFINE A1 == AttrNode(q, "action", v.action)
             A2 == AttrNode(q, "maxLength", v.max_length)
             A3 == AttrNode(q, "playBeep", v.play_beep)
  <2>1. Named(A1, q, {"action"}) /\ Named(A2, q, {"maxLength"}) /\ Named(A3, q, {"playBeep"})
    BY <1>0, <1>3, AttrFields DEF Names
  <2>2. VerbAttrs(v, q) = (A1 \o A2) \o A3
    BY <1>3 DEF VerbAttrs
  <2> HIDE DEF A1, A2, A3
  <2>3. Named(A1 \o A2, q, {"action"} \union {"maxLength"})
    BY <2>1, NamedConcat
  <2>4. Named((A1 \o A2) \o A3, q, ({"action"} \union {"maxLength"}) \union {"playBeep"})
    BY <2>1, <2>3, NamedConcat
  <2> QED BY <2>2, <2>4
<1>4. CASE v.verb = "dial"
  <2>1. Named(AttrNode(q, "callerId", v.caller_id), q, {"callerId"})
    BY <1>0, <1>4, AttrFields DEF Names
  <2> QED BY <1>4, <2>1 DEF VerbAttrs
<1>5. CASE v.verb = "reject"
  <2>1. Named(AttrNode(q, "reason", v.reason), q, {"reason"})
    BY <1>0, <1>5, AttrFields DEF Names
  <2> QED BY <1>5, <2>1 DEF VerbAttrs
<1>6. CASE v.verb = "pause"
  <2>1. Named(AttrNode(q, "length", v.length), q, {"length"})
    BY <1>0, <1>6, AttrFields DEF Names
  <2> QED BY <1>6, <2>1 DEF VerbAttrs
<1>7. CASE v.verb \notin {"say", "gather", "record", "dial", "reject", "pause"}
  <2>1. VerbAttrs(v, q) = <<>>
    BY <1>7 DEF VerbAttrs
  <2>2. Named(<<>>, q, {})
    BY DEF Named
  <2> QED BY <2>1, <2>2
<1> QED BY <1>1, <1>2, <1>3, <1>4, <1>5, <1>6, <1>7

-----------------------------------------------------------------------------
(* Of the content. *)

\* Two sequences that begin with such a block.
Beginning(S, H, a, b, v, w) ==
    /\ a \in Seq(S) /\ b \in Seq(S) /\ v \in Seq(S) /\ w \in Seq(S)
    /\ Headed(a, H) /\ Headed(b, H)
    /\ v = <<>> \/ v[1] \in H
    /\ w = <<>> \/ w[1] \in H
    /\ a \o v = b \o w

\* Two sequences that begin with a headed block begin with the same one.
LEMMA FirstHeaded ==
  ASSUME NEW S, NEW H, NEW a, NEW b, NEW v, NEW w, Beginning(S, H, a, b, v, w)
  PROVE  a = b /\ v = w
<1>0. /\ a \in Seq(S) /\ b \in Seq(S) /\ v \in Seq(S) /\ w \in Seq(S) /\ a \o v = b \o w
      /\ v = <<>> \/ v[1] \in H
      /\ w = <<>> \/ w[1] \in H
      /\ \A i \in 2..Len(a) : a[i] \notin H
      /\ \A i \in 2..Len(b) : b[i] \notin H
      /\ a # <<>> /\ b # <<>>
  BY DEF Beginning, Headed
<1>1. /\ Len(a) \in Nat /\ Len(b) \in Nat /\ Len(v) \in Nat /\ Len(w) \in Nat
      /\ Len(a) + Len(v) = Len(b) + Len(w)
      /\ (v = <<>> <=> Len(v) = 0) /\ (w = <<>> <=> Len(w) = 0)
      /\ Len(a) # 0 /\ Len(b) # 0
  <2>1. Len(a \o v) = Len(a) + Len(v) /\ Len(b \o w) = Len(b) + Len(w)
    BY <1>0, ConcatProperties
  <2> QED BY <1>0, <2>1
<1>2. ASSUME Len(a) < Len(b) PROVE FALSE
  <2>1. (a \o v)[Len(a) + 1] = v[1]
    BY <1>0, <1>1, <1>2
  <2>2. (b \o w)[Len(a) + 1] = b[Len(a) + 1]
    BY <1>0, <1>1, <1>2
  <2> QED BY <1>0, <1>1, <1>2, <2>1, <2>2
<1>3. ASSUME Len(b) < Len(a) PROVE FALSE
  <2>1. (b \o w)[Len(b) + 1] = w[1]
    BY <1>0, <1>1, <1>3
  <2>2. (a \o v)[Len(b) + 1] = a[Len(b) + 1]
    BY <1>0, <1>1, <1>3
  <2> QED BY <1>0, <1>1, <1>3, <2>1, <2>2
<1>4. Len(a) = Len(b)
  BY <1>1, <1>2, <1>3
<1> QED BY <1>0, <1>4, Cancel

\* A list of headed blocks is empty or begins with a head.
LEMMA SpreadStarts ==
  ASSUME NEW S, NEW T, NEW H, NEW h \in [S -> Seq(T)], Tells(h, S, H)
  PROVE  \A x \in Seq(S) :
            /\ Spread(h, x) \in Seq(T)
            /\ Spread(h, x) = <<>> \/ Spread(h, x)[1] \in H
<1> DEFINE I == {x \in Seq(S) : Spread(h, x) = <<>> \/ Spread(h, x)[1] \in H}
<1>1. Spreads(h, S, T)
  BY SpreadFacts
<1>2. <<>> \in I
  BY SpreadEmpty
<1>3. ASSUME NEW x \in Seq(S), NEW e \in S, x \in I PROVE Append(x, e) \in I
  <2> DEFINE a == Spread(h, x)
             b == h[e]
  <2>1. a \in Seq(T) /\ b \in Seq(T) /\ Spread(h, Append(x, e)) = a \o b
    BY <1>1 DEF Spreads
  <2>2. b # <<>> /\ b[1] \in H
    BY DEF Tells, Headed
  <2>3. a = <<>> \/ a[1] \in H
    BY <1>3
  <2> HIDE DEF a, b
  <2>4. (a \o b)[1] \in H
    <3>1. CASE a = <<>>
      BY <3>1, <2>1, <2>2
    <3>2. CASE a # <<>>
      <4>1. (a \o b)[1] = a[1]
        BY <3>2, <2>1
      <4> QED BY <3>2, <4>1, <2>3
    <3> QED BY <3>1, <3>2
  <2>5. Append(x, e) \in Seq(S)
    BY AppendProperties
  <2> QED BY <2>1, <2>4, <2>5
<1>4. \A x \in Seq(S) : x \in I
  <2> HIDE DEF I
  <2> QED BY <1>2, <1>3, SeqInduction
<1> QED BY <1>1, <1>4 DEF Spreads

\* A text node gives back its text.
LEMMA TextNodeTells ==
  ASSUME NEW q, NEW t \in Text, NEW u \in Text, TextNode(q, t) = TextNode(q, u)
  PROVE  t = u
<1>1. CASE t = <<>> \/ u = <<>>
  BY <1>1 DEF TextNode
<1>2. CASE t # <<>> /\ u # <<>>
  <2> DEFINE a == TextAt(q, t)
             b == TextAt(q, u)
  <2>1. <<a>> = <<b>>
    BY <1>2 DEF TextNode
  <2>2. a.text = t /\ b.text = u
    BY DEF TextAt
  <2> HIDE DEF a, b
  <2>3. a = b
    BY <2>1
  <2> QED BY <2>2, <2>3
<1> QED BY <1>1, <1>2

\* An element that has a text gives it back.
LEMMA TextElementTells ==
  ASSUME NEW q \in Path, NEW name \in Name
  PROVE  /\ TextElementNodes(q, name) \in [Text -> Seq(Node)]
         /\ Tells(TextElementNodes(q, name), Text, Opening(q))
         /\ \A t \in Text :
              TextElementNodes(q, name)[t][1] = NodeAt("open", Append(q, name), <<>>)
<1> DEFINE h == TextElementNodes(q, name)
           p == Append(q, name)
<1>1. h \in [Text -> Seq(Node)]
  BY OkTextElements
<1>2. name \in Lexeme /\ p \in Path
  BY ExtendsAppend DEF Name
<1>3. ASSUME NEW t \in Text PROVE Headed(h[t], Opening(q)) /\ h[t][1] = NodeAt("open", p, <<>>)
  <2>1. Block(h[t], q, name)
    BY OkTextElement DEF OkElement
  <2> HIDE DEF h
  <2> QED BY <1>2, <2>1, BlockHeaded DEF p
<1>4. ASSUME NEW t \in Text, NEW u \in Text, h[t] = h[u] PROVE t = u
  <2> DEFINE a == Open(q, name)
             x == TextNode(p, t)
             y == TextNode(p, u)
  <2>1. x \in Seq(Node) /\ y \in Seq(Node)
    BY <1>2, TextIsString, TakesText DEF Takes
  <2>2. NodeAt("open", p, <<>>) \in Node
    <3>1. <<>> \in String
      BY EmptySeq DEF String
    <3> HIDE DEF p
    <3> QED BY <3>1, <1>2 DEF NodeAt, Node
  <2>3. a \in Seq(Node)
    <3> DEFINE n == NodeAt("open", p, <<>>)
    <3>1. a = <<n>>
      BY DEF Open
    <3> HIDE DEF n, a
    <3> QED BY <3>1, <2>2 DEF n
  <2>4. a \o (<<>> \o x) = a \o (<<>> \o y)
    BY <1>4 DEF TextElementNodes
  <2> HIDE DEF a, x, y, p
  <2>5. <<>> \o x = x /\ <<>> \o y = y
    BY <2>1, ConcatEmptySeq
  <2>6. a \o x = a \o y
    BY <2>4, <2>5
  <2>7. x = y
    BY <2>1, <2>3, <2>6, Cancel
  <2> QED BY <2>7, TextNodeTells DEF x, y
<1> QED BY <1>1, <1>3, <1>4 DEF Tells

\* A list of such elements gives back their texts.
LEMMA TextElementsTell ==
  ASSUME NEW q \in Path, NEW name \in Name
  PROVE  /\ \A x, y \in Seq(Text) :
              Spread(TextElementNodes(q, name), x) = Spread(TextElementNodes(q, name), y) => x = y
         /\ \A x \in Seq(Text) :
              /\ Spread(TextElementNodes(q, name), x) \in Seq(Node)
              /\ \/ Spread(TextElementNodes(q, name), x) = <<>>
                 \/ Spread(TextElementNodes(q, name), x)[1] \in Opening(q)
<1> DEFINE h == TextElementNodes(q, name)
           H == Opening(q)
<1>1. h \in [Text -> Seq(Node)] /\ Tells(h, Text, H)
  BY TextElementTells
<1> HIDE DEF h, H
<1>2. \A x, y \in Seq(Text) : Spread(h, x) = Spread(h, y) => x = y
  BY <1>1, SpreadTells
<1>3. \A x \in Seq(Text) :
        Spread(h, x) \in Seq(Node) /\ (Spread(h, x) = <<>> \/ Spread(h, x)[1] \in H)
  BY <1>1, SpreadStarts
<1> QED BY <1>2, <1>3 DEF h, H

-----------------------------------------------------------------------------
(* Of a destination. *)

\* What an element below q opens with.
OpenAt(q, name) == NodeAt("open", Append(q, name), <<>>)

\* An opening gives back the element's name.
LEMMA OpenAtTells ==
  ASSUME NEW q \in Path, NEW a \in Lexeme, NEW b \in Lexeme, OpenAt(q, a) = OpenAt(q, b)
  PROVE  a = b
<1>1. OpenAt(q, a).path = Append(q, a) /\ OpenAt(q, b).path = Append(q, b)
  BY DEF OpenAt, NodeAt
<1>2. Append(q, a) = Append(q, b)
  BY <1>1
<1> QED BY <1>2, SameName

\* An option is empty or has one value.
LEMMA OptionLength ==
  /\ Option(Text) \subseteq Seq(Text)
  /\ \A o \in Option(Text) : Len(o) \in Nat /\ (o # <<>> => Len(o) = 1)
<1>1. \A o \in Seq(Text) : Len(o) \in Nat /\ (o # <<>> => Len(o) # 0)
  BY EmptySeq
<1>2. \A o \in Option(Text) : o \in Seq(Text) /\ Len(o) <= 1
  BY DEF Option
<1>3. ASSUME NEW o \in Option(Text)
      PROVE  o \in Seq(Text) /\ Len(o) \in Nat /\ (o # <<>> => Len(o) = 1)
  <2>1. o \in Seq(Text) /\ Len(o) <= 1
    BY <1>2
  <2>2. Len(o) \in Nat /\ (o # <<>> => Len(o) # 0)
    BY <1>1, <2>1
  <2> DEFINE k == Len(o)
  <2>3. k <= 1 /\ k \in Nat /\ (o # <<>> => k # 0)
    BY <2>1, <2>2
  <2> HIDE DEF k
  <2>4. o # <<>> => k = 1
    BY <2>3
  <2> QED BY <2>1, <2>2, <2>4 DEF k
<1> QED BY <1>3

\* An option of a text, as elements.
LEMMA OptionNodes ==
  ASSUME NEW q \in Path, NEW name \in Name, NEW o \in Option(Text)
  PROVE  /\ o = <<>> => Spread(TextElementNodes(q, name), o) = <<>>
         /\ o # <<>> => /\ Spread(TextElementNodes(q, name), o) # <<>>
                        /\ Spread(TextElementNodes(q, name), o)[1] = OpenAt(q, name)
<1> DEFINE h == TextElementNodes(q, name)
<1>1. /\ h \in [Text -> Seq(Node)] /\ Tells(h, Text, Opening(q))
      /\ \A t \in Text : h[t][1] = OpenAt(q, name)
  BY TextElementTells DEF OpenAt
<1> HIDE DEF h
<1>2. CASE o = <<>>
  BY <1>2, SpreadEmpty DEF h
<1>3. CASE o # <<>>
  <2>1. o \in Seq(Text) /\ Len(o) = 1
    BY <1>3, OptionLength
  <2>2. o[1] \in Text /\ o = <<o[1]>>
    BY <2>1
  <2> DEFINE t == o[1]
  <2>3. t \in Text /\ o = <<t>>
    BY <2>2
  <2> HIDE DEF t
  <2>4. Spread(h, <<t>>) = h[t]
    BY <1>1, <2>3, SpreadOne
  <2>5. h[t] # <<>> /\ h[t][1] = OpenAt(q, name)
    BY <1>1, <2>3 DEF Tells, Headed
  <2> QED BY <1>3, <2>3, <2>4, <2>5 DEF h
<1> QED BY <1>2, <1>3

\* The fields of a <Dial> with one destination, by the first node of it.
OneOf(v) ==
    /\ v.number \in Option(Text) /\ v.sip \in Option(Text) /\ v.client \in Option(Text)
    /\ v.conference \in Option(Text) /\ v.number # <<<<>>>>
    /\ v.number # <<>> => v.sip = <<>> /\ v.client = <<>> /\ v.conference = <<>>
    /\ v.sip # <<>> => v.client = <<>> /\ v.conference = <<>>
    /\ v.client # <<>> => v.conference = <<>>

\* A <Dial> with one destination at most has one of its four fields at most.
LEMMA OneDestinationIs ==
  ASSUME NEW verbs, NEW v \in Leaf \union Gathers(verbs), v.verb = "dial", OneDestination(v)
  PROVE  OneOf(v)
<1>1. /\ v.number \in Option(Text) /\ v.sip \in Option(Text) /\ v.client \in Option(Text)
      /\ v.conference \in Option(Text)
  BY VerbFields
<1>2. \A o \in Option(Text) : Len(o) \in Nat /\ (o # <<>> => Len(o) = 1) /\ Len(<<>>) = 0
  BY OptionLength
<1>3. /\ Len(v.number) + Len(v.sip) + Len(v.client) + Len(v.conference) <= 1
      /\ v.number # <<<<>>>>
  BY DEF OneDestination
<1> DEFINE a == v.number
           b == v.sip
           c == v.client
           d == v.conference
<1>4. /\ a \in Option(Text) /\ b \in Option(Text) /\ c \in Option(Text) /\ d \in Option(Text)
      /\ Len(a) + Len(b) + Len(c) + Len(d) <= 1
  BY <1>1, <1>3
<1> HIDE DEF a, b, c, d
<1>5. /\ a # <<>> => b = <<>> /\ c = <<>> /\ d = <<>>
      /\ b # <<>> => c = <<>> /\ d = <<>>
      /\ c # <<>> => d = <<>>
  BY <1>2, <1>4
<1> QED BY <1>1, <1>3, <1>5 DEF a, b, c, d, OneOf

\* The nodes of one destination.
DialNodes(q, number, sip, client, conference, D) ==
    /\ number # <<>> => /\ D = TextNode(q, number[1]) /\ D # <<>> /\ D[1].kind = "text"
    /\ sip # <<>> => /\ D = Spread(TextElementNodes(q, "Sip"), sip)
                     /\ D # <<>> /\ D[1] = OpenAt(q, "Sip")
    /\ client # <<>> => /\ D = Spread(TextElementNodes(q, "Client"), client)
                        /\ D # <<>> /\ D[1] = OpenAt(q, "Client")
    /\ conference # <<>> => /\ D = Spread(TextElementNodes(q, "Conference"), conference)
                            /\ D # <<>> /\ D[1] = OpenAt(q, "Conference")
    /\ number = <<>> /\ sip = <<>> /\ client = <<>> /\ conference = <<>> => D = <<>>

\* The first node of a destination says which field it comes from
\* (twiml.rs:179-200).
LEMMA DialNodesAre ==
  ASSUME NEW q \in Path, NEW v, OneOf(v)
  PROVE  DialNodes(q, v.number, v.sip, v.client, v.conference, DestinationNodes(v, q))
<1>1. /\ v.number \in Option(Text) /\ v.sip \in Option(Text) /\ v.client \in Option(Text)
      /\ v.conference \in Option(Text) /\ v.number # <<<<>>>>
      /\ v.number # <<>> => v.sip = <<>> /\ v.client = <<>> /\ v.conference = <<>>
      /\ v.sip # <<>> => v.client = <<>> /\ v.conference = <<>>
      /\ v.client # <<>> => v.conference = <<>>
  BY DEF OneOf
<1>2. ASSUME NEW name \in {"Sip", "Client", "Conference"}, NEW o \in Option(Text)
      PROVE  /\ o = <<>> => Spread(TextElementNodes(q, name), o) = <<>>
             /\ o # <<>> => /\ Spread(TextElementNodes(q, name), o) # <<>>
                            /\ Spread(TextElementNodes(q, name), o)[1] = OpenAt(q, name)
  <2>1. name \in Name
    BY NamesAreNames DEF Names
  <2> QED BY <2>1, OptionNodes
<1>3. CASE v.number # <<>>
  <2> DEFINE t == v.number[1]
             n == TextAt(q, t)
  <2>1. v.number \in Seq(Text) /\ Len(v.number) = 1
    BY <1>1, <1>3, OptionLength
  <2>2. v.number = <<t>>
    BY <2>1
  <2>3. t # <<>>
    BY <1>1, <2>2
  <2>4. DestinationNodes(v, q) = TextNode(q, t)
    BY <1>3 DEF DestinationNodes
  <2>5. TextNode(q, t) = <<n>> /\ n.kind = "text"
    BY <2>3 DEF TextNode, TextAt
  <2> HIDE DEF n
  <2>6. <<n>> # <<>> /\ <<n>>[1] = n
    OBVIOUS
  <2> QED BY <1>1, <1>3, <2>4, <2>5, <2>6 DEF DialNodes
<1>4. CASE v.number = <<>> /\ v.sip # <<>>
  BY <1>1, <1>2, <1>4 DEF DialNodes, DestinationNodes
<1>5. CASE v.number = <<>> /\ v.sip = <<>> /\ v.client # <<>>
  BY <1>1, <1>2, <1>5 DEF DialNodes, DestinationNodes
<1>6. CASE v.number = <<>> /\ v.sip = <<>> /\ v.client = <<>>
  BY <1>1, <1>2, <1>6 DEF DialNodes, DestinationNodes
<1> QED BY <1>3, <1>4, <1>5, <1>6

\* A destination gives back the field it comes from.
LEMMA DestinationTells ==
  ASSUME NEW q \in Path, NEW v, NEW w, OneOf(v), OneOf(w),
         DestinationNodes(v, q) = DestinationNodes(w, q)
  PROVE  /\ v.number = w.number /\ v.sip = w.sip /\ v.client = w.client
         /\ v.conference = w.conference
<1>1. /\ "Sip" \in Name /\ "Client" \in Name /\ "Conference" \in Name
      /\ "Sip" \in Lexeme /\ "Client" \in Lexeme /\ "Conference" \in Lexeme
  BY NamesAreNames DEF Names, Name
<1>2. /\ OpenAt(q, "Sip") # OpenAt(q, "Client") /\ OpenAt(q, "Sip") # OpenAt(q, "Conference")
      /\ OpenAt(q, "Client") # OpenAt(q, "Conference")
  <2>1. "Sip" # "Client" /\ "Sip" # "Conference" /\ "Client" # "Conference"
    OBVIOUS
  <2> QED BY <1>1, <2>1, OpenAtTells
<1>3. /\ OpenAt(q, "Sip").kind # "text" /\ OpenAt(q, "Client").kind # "text"
      /\ OpenAt(q, "Conference").kind # "text"
  BY DEF OpenAt, NodeAt
<1> DEFINE D == DestinationNodes(v, q)
           a == v.number
           b == v.sip
           c == v.client
           d == v.conference
           e == w.number
           f == w.sip
           g == w.client
           h == w.conference
<1>4. DialNodes(q, a, b, c, d, D) /\ DialNodes(q, e, f, g, h, D)
  BY DialNodesAre
<1>5. /\ a \in Option(Text) /\ b \in Option(Text) /\ c \in Option(Text) /\ d \in Option(Text)
      /\ e \in Option(Text) /\ f \in Option(Text) /\ g \in Option(Text) /\ h \in Option(Text)
      /\ a # <<>> => b = <<>> /\ c = <<>> /\ d = <<>>
      /\ b # <<>> => c = <<>> /\ d = <<>>
      /\ c # <<>> => d = <<>>
      /\ e # <<>> => f = <<>> /\ g = <<>> /\ h = <<>>
      /\ f # <<>> => g = <<>> /\ h = <<>>
      /\ g # <<>> => h = <<>>
  BY DEF OneOf
<1> HIDE DEF D, a, b, c, d, e, f, g, h
<1>6. (a = <<>> <=> e = <<>>) /\ (b = <<>> <=> f = <<>>) /\ (c = <<>> <=> g = <<>>)
      /\ (d = <<>> <=> h = <<>>)
  BY <1>2, <1>3, <1>4, <1>5 DEF DialNodes
<1>7. Option(Text) \subseteq Seq(Text) /\ \A o \in Option(Text) : o # <<>> => Len(o) = 1
  BY OptionLength
<1>8. a = e
  <2>1. CASE a = <<>>
    BY <1>6, <2>1
  <2>2. CASE a # <<>>
    <3>1. TextNode(q, a[1]) = TextNode(q, e[1])
      BY <1>4, <1>6, <2>2 DEF DialNodes
    <3>2. a \in Seq(Text) /\ e \in Seq(Text) /\ Len(a) = 1 /\ Len(e) = 1
      BY <1>5, <1>6, <1>7, <2>2
    <3>3. a[1] \in Text /\ e[1] \in Text
      BY <3>2
    <3>4. a[1] = e[1]
      BY <3>1, <3>3, TextNodeTells
    <3>5. \A i \in 1..1 : a[i] = e[i]
      BY <3>4
    <3> QED BY <3>2, <3>5, SeqEqual
  <2> QED BY <2>1, <2>2
<1>9. ASSUME NEW name \in {"Sip", "Client", "Conference"}, NEW x \in Option(Text),
             NEW y \in Option(Text),
             Spread(TextElementNodes(q, name), x) = Spread(TextElementNodes(q, name), y)
      PROVE  x = y
  <2>1. name \in Name /\ x \in Seq(Text) /\ y \in Seq(Text)
    BY <1>1, <1>7
  <2> QED BY <1>9, <2>1, TextElementsTell
<1>10. b = f
  BY <1>4, <1>5, <1>6, <1>9 DEF DialNodes
<1>11. c = g
  BY <1>4, <1>5, <1>6, <1>9 DEF DialNodes
<1>12. d = h
  BY <1>4, <1>5, <1>6, <1>9 DEF DialNodes
<1> QED BY <1>8, <1>10, <1>11, <1>12 DEF a, b, c, d, e, f, g, h

-----------------------------------------------------------------------------
(* Of a verb. *)

\* What is inside of a <Gather> does not begin with an attribute of it.
Begun(C) == C \in Seq(Node) /\ (C = <<>> \/ C[1].kind # "attribute")

\* Content that begins with an element begins with no attribute.
LEMMA OpeningBegun ==
  ASSUME NEW q, NEW C \in Seq(Node), C = <<>> \/ C[1] \in Opening(q)
  PROVE  Begun(C)
  BY DEF Begun, Opening

\* Nor does a text.
LEMMA TextBegun ==
  ASSUME NEW q \in Path, NEW t \in Text
  PROVE  Begun(TextNode(q, t))
<1> DEFINE n == TextAt(q, t)
<1>1. TextNode(q, t) \in Seq(Node)
  BY TextIsString, TakesText DEF Takes
<1>2. TextNode(q, t) = <<>> \/ TextNode(q, t) = <<n>>
  BY DEF TextNode
<1>3. n.kind # "attribute"
  BY DEF TextAt
<1> HIDE DEF n
<1>4. <<n>>[1] = n
  OBVIOUS
<1> QED BY <1>1, <1>2, <1>3, <1>4 DEF Begun

\* Nor does a list of elements that have texts.
LEMMA ElementsBegun ==
  ASSUME NEW q \in Path, NEW name \in Name, NEW x \in Seq(Text)
  PROVE  Begun(Spread(TextElementNodes(q, name), x))
  BY TextElementsTell, OpeningBegun

\* The two parts of a message.
BodyNode(v, q) == TextElementNodes(q, "Body")[v.body]

\* Its media.
MediaNodes(v, q) == Spread(TextElementNodes(q, "Media"), v.media_url)

\* A message has a body, and then its media.
LEMMA MessageParts ==
  ASSUME NEW q \in Path, NEW verbs, NEW v \in Leaf \union Gathers(verbs), v.verb = "message"
  PROVE  /\ v.body \in Text /\ v.media_url \in Seq(Text)
         /\ BodyNode(v, q) \in Seq(Node) /\ Headed(BodyNode(v, q), Opening(q))
         /\ MediaNodes(v, q) \in Seq(Node)
         /\ MediaNodes(v, q) = <<>> \/ MediaNodes(v, q)[1] \in Opening(q)
<1>1. v.body \in Text /\ v.media_url \in Seq(Text)
  BY VerbFields
<1>2. "Body" \in Name /\ "Media" \in Name
  BY NamesAreNames DEF Names
<1>3. BodyNode(v, q) \in Seq(Node) /\ Headed(BodyNode(v, q), Opening(q))
  <2> DEFINE h == TextElementNodes(q, "Body")
             t == v.body
  <2>1. h \in [Text -> Seq(Node)] /\ Tells(h, Text, Opening(q)) /\ t \in Text
    BY <1>1, <1>2, TextElementTells
  <2> HIDE DEF h, t
  <2>2. h[t] \in Seq(Node) /\ Headed(h[t], Opening(q))
    BY <2>1 DEF Tells
  <2> QED BY <2>2 DEF h, t, BodyNode
<1>4. /\ MediaNodes(v, q) \in Seq(Node)
      /\ MediaNodes(v, q) = <<>> \/ MediaNodes(v, q)[1] \in Opening(q)
  BY <1>1, <1>2, TextElementsTell DEF MediaNodes
<1> QED BY <1>1, <1>3, <1>4

\* The content of no verb begins with an attribute.
LEMMA ContentBegun ==
  ASSUME NEW q \in Path, NEW verbs, NEW v \in Leaf \union Gathers(verbs), NEW C,
         v.verb = "gather" => Begun(C)
  PROVE  Begun(VerbContent(v, q, C))
<1>1. CASE v.verb = "say"
  <2>1. v.text \in Text
    BY <1>1, VerbFields
  <2> QED BY <1>1, <2>1, TextBegun DEF VerbContent
<1>2. CASE v.verb \in {"play", "redirect"}
  <2>1. v.url \in Text
    BY <1>2, VerbFields
  <2> QED BY <1>2, <2>1, TextBegun DEF VerbContent
<1>3. CASE v.verb = "gather"
  BY <1>3 DEF VerbContent
<1>4. CASE v.verb = "dial"
  <2>1. /\ v.number \in Option(Text) /\ v.sip \in Option(Text) /\ v.client \in Option(Text)
        /\ v.conference \in Option(Text)
    BY <1>4, VerbFields
  <2>2. VerbContent(v, q, C) = DestinationNodes(v, q)
    BY <1>4 DEF VerbContent
  <2>3. "Sip" \in Name /\ "Client" \in Name /\ "Conference" \in Name
    BY NamesAreNames DEF Names
  <2>4. CASE v.number # <<>>
    <3> DEFINE o == v.number
    <3>1. o \in Seq(Text) /\ Len(o) = 1
      BY <2>1, <2>4, OptionLength
    <3> HIDE DEF o
    <3>2. o[1] \in Text
      BY <3>1
    <3>3. Begun(TextNode(q, o[1]))
      BY <3>2, TextBegun
    <3> QED BY <2>2, <2>4, <3>3 DEF DestinationNodes, o
  <2>5. CASE v.number = <<>> /\ v.sip # <<>>
    BY <2>1, <2>2, <2>3, <2>5, OptionLength, ElementsBegun DEF DestinationNodes
  <2>6. CASE v.number = <<>> /\ v.sip = <<>> /\ v.client # <<>>
    BY <2>1, <2>2, <2>3, <2>6, OptionLength, ElementsBegun DEF DestinationNodes
  <2>7. CASE v.number = <<>> /\ v.sip = <<>> /\ v.client = <<>>
    BY <2>1, <2>2, <2>3, <2>7, OptionLength, ElementsBegun DEF DestinationNodes
  <2> QED BY <2>4, <2>5, <2>6, <2>7
<1>5. CASE v.verb = "message"
  <2> DEFINE a == BodyNode(v, q)
             b == MediaNodes(v, q)
  <2>1. a \in Seq(Node) /\ Headed(a, Opening(q)) /\ b \in Seq(Node)
    BY <1>5, MessageParts
  <2>2. VerbContent(v, q, C) = a \o b
    BY <1>5 DEF VerbContent, BodyNode, MediaNodes
  <2> HIDE DEF a, b
  <2>3. a # <<>> /\ a[1] \in Opening(q)
    BY <2>1 DEF Headed
  <2>4. (a \o b)[1] = a[1] /\ a \o b \in Seq(Node)
    BY <2>1, <2>3
  <2> QED BY <2>2, <2>3, <2>4, OpeningBegun
<1>6. CASE v.verb \notin {"say", "play", "redirect", "gather", "dial", "message"}
  <2>1. VerbContent(v, q, C) = <<>>
    BY <1>6 DEF VerbContent
  <2> QED BY <2>1 DEF Begun
<1> QED BY <1>1, <1>2, <1>3, <1>4, <1>5, <1>6

\* The fields of two verbs of one kind that are content.
SameContent(v, w) ==
    /\ v.verb = "say" => v.text = w.text
    /\ v.verb \in {"play", "redirect"} => v.url = w.url
    /\ v.verb = "gather" => v.nested = w.nested
    /\ v.verb = "dial" => /\ v.number = w.number /\ v.sip = w.sip /\ v.client = w.client
                          /\ v.conference = w.conference
    /\ v.verb = "message" => v.body = w.body /\ v.media_url = w.media_url

\* The content of a verb gives back the fields it comes from.
LEMMA ContentTells ==
  ASSUME NEW q \in Path, NEW verbs, NEW v \in Leaf \union Gathers(verbs),
         NEW w \in Leaf \union Gathers(verbs), v.verb = w.verb,
         OneDestination(v), OneDestination(w), NEW C, NEW D,
         VerbContent(v, q, C) = VerbContent(w, q, D),
         v.verb = "gather" /\ C = D => v.nested = w.nested
  PROVE  SameContent(v, w)
<1>1. CASE v.verb = "say"
  <2>1. v.text \in Text /\ w.text \in Text
    BY <1>1, VerbFields, ZenonT(30)
  <2>2. TextNode(q, v.text) = TextNode(q, w.text)
    BY <1>1 DEF VerbContent
  <2>3. v.text = w.text
    BY <2>1, <2>2, TextNodeTells
  <2> QED BY <1>1, <2>3 DEF SameContent
<1>2. CASE v.verb \in {"play", "redirect"}
  <2>1. v.url \in Text /\ w.url \in Text
    <3>1. w.verb \in {"play", "redirect"}
      BY <1>2
    <3>2. v.url \in Text
      BY <1>2, VerbFields
    <3>3. w.url \in Text
      BY <3>1, VerbFields
    <3> QED BY <3>2, <3>3
  <2>2. TextNode(q, v.url) = TextNode(q, w.url)
    BY <1>2 DEF VerbContent
  <2>3. v.url = w.url
    BY <2>1, <2>2, TextNodeTells
  <2> QED BY <1>2, <2>3 DEF SameContent
<1>3. CASE v.verb = "gather"
  BY <1>3 DEF VerbContent, SameContent
<1>4. CASE v.verb = "dial"
  <2>1. DestinationNodes(v, q) = DestinationNodes(w, q)
    BY <1>4 DEF VerbContent
  <2>2. OneOf(v) /\ OneOf(w)
    BY <1>4, OneDestinationIs
  <2> QED BY <1>4, <2>1, <2>2, DestinationTells DEF SameContent
<1>5. CASE v.verb = "message"
  <2> DEFINE H == Opening(q)
             a == BodyNode(v, q)
             b == BodyNode(w, q)
             x == MediaNodes(v, q)
             y == MediaNodes(w, q)
  <2>1. /\ a \in Seq(Node) /\ Headed(a, H) /\ x \in Seq(Node) /\ (x = <<>> \/ x[1] \in H)
        /\ v.body \in Text /\ v.media_url \in Seq(Text)
    BY <1>5, MessageParts
  <2>2. /\ b \in Seq(Node) /\ Headed(b, H) /\ y \in Seq(Node) /\ (y = <<>> \/ y[1] \in H)
        /\ w.body \in Text /\ w.media_url \in Seq(Text)
    BY <1>5, MessageParts
  <2>3. a \o x = b \o y
    BY <1>5 DEF VerbContent, BodyNode, MediaNodes
  <2>4. a = b /\ x = y
    <3> HIDE DEF H, a, b, x, y
    <3>1. Beginning(Node, H, a, b, x, y)
      BY <2>1, <2>2, <2>3 DEF Beginning
    <3> QED BY <3>1, FirstHeaded
  <2>5. "Body" \in Name /\ "Media" \in Name
    BY NamesAreNames DEF Names
  <2>6. v.media_url = w.media_url
    BY <2>1, <2>2, <2>4, <2>5, TextElementsTell DEF MediaNodes
  <2>7. v.body = w.body
    <3> DEFINE h == TextElementNodes(q, "Body")
    <3>1. \A t, u \in Text : h[t] = h[u] => t = u
      BY <2>5, TextElementTells DEF Tells
    <3> QED BY <2>1, <2>2, <2>4, <3>1 DEF BodyNode
  <2> QED BY <1>5, <2>6, <2>7 DEF SameContent
<1>6. CASE v.verb \notin {"say", "play", "redirect", "gather", "dial", "message"}
  BY <1>6 DEF SameContent
<1> QED BY <1>1, <1>2, <1>3, <1>4, <1>5, <1>6

\* A verb is its fields.
LEMMA SameVerb ==
  ASSUME NEW verbs, NEW v \in Leaf \union Gathers(verbs), NEW w \in Leaf \union Gathers(verbs),
         v.verb = w.verb, SameAttrs(v, w), SameContent(v, w)
  PROVE  v = w
<1>1. CASE v.verb = "say"
  <2>1. /\ v \in [verb : {"say"}, text : Text, voice : Option(Text), language : Option(Text)]
        /\ w \in [verb : {"say"}, text : Text, voice : Option(Text), language : Option(Text)]
    BY <1>1, VerbFields
  <2> QED BY <1>1, <2>1 DEF SameAttrs, SameContent
<1>2. CASE v.verb \in {"play", "redirect"}
  <2>1. /\ v \in [verb : {"play", "redirect"}, url : Text]
        /\ w \in [verb : {"play", "redirect"}, url : Text]
    BY <1>2, VerbFields
  <2> QED BY <1>2, <2>1 DEF SameContent
<1>3. CASE v.verb = "gather"
  <2>1. v \in Gathers(verbs) /\ w \in Gathers(verbs)
    BY <1>3, VerbFields
  <2>2. /\ v.input = w.input /\ v.action = w.action /\ v.num_digits = w.num_digits
        /\ v.speech_timeout = w.speech_timeout /\ v.timeout = w.timeout /\ v.nested = w.nested
    BY <1>3 DEF SameAttrs, SameContent
  <2> QED BY <2>1, <2>2 DEF Gathers
<1>4. CASE v.verb = "record"
  <2>1. /\ v \in [verb : {"record"}, action : Option(Text), max_length : Option(Text),
                  play_beep : Option(Text)]
        /\ w \in [verb : {"record"}, action : Option(Text), max_length : Option(Text),
                  play_beep : Option(Text)]
    BY <1>4, VerbFields
  <2> QED BY <1>4, <2>1 DEF SameAttrs
<1>5. CASE v.verb = "dial"
  <2>1. /\ v \in [verb : {"dial"}, number : Option(Text), sip : Option(Text),
                  client : Option(Text), conference : Option(Text), caller_id : Option(Text)]
        /\ w \in [verb : {"dial"}, number : Option(Text), sip : Option(Text),
                  client : Option(Text), conference : Option(Text), caller_id : Option(Text)]
    BY <1>5, VerbFields
  <2>2. /\ v.number = w.number /\ v.sip = w.sip /\ v.client = w.client
        /\ v.conference = w.conference /\ v.caller_id = w.caller_id
    BY <1>5 DEF SameAttrs, SameContent
  <2> QED BY <2>1, <2>2
<1>6. CASE v.verb = "reject"
  <2>1. /\ v \in [verb : {"reject"}, reason : Option(Text)]
        /\ w \in [verb : {"reject"}, reason : Option(Text)]
    BY <1>6, VerbFields
  <2> QED BY <1>6, <2>1 DEF SameAttrs
<1>7. CASE v.verb = "hangup"
  <2>1. v \in [verb : {"hangup"}] /\ w \in [verb : {"hangup"}]
    BY <1>7, VerbFields
  <2> QED BY <2>1
<1>8. CASE v.verb = "pause"
  <2>1. /\ v \in [verb : {"pause"}, length : Option(Text)]
        /\ w \in [verb : {"pause"}, length : Option(Text)]
    BY <1>8, VerbFields
  <2> QED BY <1>8, <2>1 DEF SameAttrs
<1>9. CASE v.verb = "message"
  <2>1. /\ v \in [verb : {"message"}, body : Text, media_url : Seq(Text)]
        /\ w \in [verb : {"message"}, body : Text, media_url : Seq(Text)]
    BY <1>9, VerbFields
  <2> QED BY <1>9, <2>1 DEF SameContent
<1> QED BY <1>1, <1>2, <1>3, <1>4, <1>5, <1>6, <1>7, <1>8, <1>9, VerbFields

-----------------------------------------------------------------------------

\* An element's name gives back the verb's kind.
LEMMA ElementNameTells ==
  ASSUME NEW a \in Kinds, NEW b \in Kinds, ElementName[a] = ElementName[b]
  PROVE  a = b
<1>1. /\ ElementName["say"] = "Say" /\ ElementName["play"] = "Play"
      /\ ElementName["gather"] = "Gather" /\ ElementName["record"] = "Record"
      /\ ElementName["dial"] = "Dial" /\ ElementName["reject"] = "Reject"
      /\ ElementName["hangup"] = "Hangup" /\ ElementName["pause"] = "Pause"
      /\ ElementName["redirect"] = "Redirect" /\ ElementName["message"] = "Message"
  BY DEF ElementName
<1> QED BY <1>1 DEF Kinds

\* A verb can be told from what is read of it.
LEMMA VerbTells ==
  ASSUME NEW p \in Path, NEW verbs, NEW v \in Leaf \union Gathers(verbs),
         NEW w \in Leaf \union Gathers(verbs), OneDestination(v), OneDestination(w),
         NEW C, NEW D, v.verb = "gather" => Begun(C), w.verb = "gather" => Begun(D),
         v.verb = "gather" /\ w.verb = "gather" /\ C = D => v.nested = w.nested,
         VerbNodes(v, p, C) = VerbNodes(w, p, D)
  PROVE  v = w
<1> DEFINE a == ElementName[v.verb]
           b == ElementName[w.verb]
           q == Append(p, a)
           r == Append(p, b)
           A == VerbAttrs(v, q)
           B == VerbAttrs(w, r)
           X == VerbContent(v, q, C)
           Y == VerbContent(w, r, D)
           m == OpenAt(p, a)
           n == OpenAt(p, b)
<1>1. v.verb \in Kinds /\ w.verb \in Kinds
  BY VerbFields DEF Kinds
<1>2. a \in Lexeme /\ b \in Lexeme
  BY <1>1, RenderVerbParts, NamesAreNames DEF Name
<1>3. q \in Path /\ r \in Path
  <2> HIDE DEF a, b
  <2> QED BY <1>2, ExtendsAppend
<1>4. m \in Node /\ n \in Node
  <2> HIDE DEF a, b
  <2>1. <<>> \in String
    BY EmptySeq DEF String
  <2> HIDE DEF q, r
  <2> QED BY <1>3, <2>1 DEF OpenAt, NodeAt, Node, q, r
<1>5. /\ A \in Seq(Node) /\ \A i \in 1..Len(A) : A[i].kind = "attribute"
      /\ B \in Seq(Node) /\ \A i \in 1..Len(B) : B[i].kind = "attribute"
  <2> HIDE DEF q, r
  <2> QED BY <1>3, VerbAttrsAreAttributes
<1>6. Begun(X) /\ Begun(Y)
  <2> HIDE DEF q, r
  <2> QED BY <1>3, ContentBegun
<1>7. <<m>> \o (A \o X) = <<n>> \o (B \o Y)
  BY DEF VerbNodes, Open, OpenAt
<1>8. m = n /\ A \o X = B \o Y
  <2> HIDE DEF m, n, A, B, X, Y
  <2>1. A \o X \in Seq(Node) /\ B \o Y \in Seq(Node)
    BY <1>5, <1>6, ConcatProperties DEF Begun
  <2>2. <<m>> \in Seq(Node) /\ <<n>> \in Seq(Node) /\ Len(<<m>>) = Len(<<n>>)
    BY <1>4
  <2>3. <<m>> = <<n>> /\ A \o X = B \o Y
    BY <1>7, <2>1, <2>2, Cancel
  <2> QED BY <2>3
<1>9. a = b
  <2> HIDE DEF a, b
  <2> QED BY <1>2, <1>8, OpenAtTells
<1>10. v.verb = w.verb
  BY <1>1, <1>9, ElementNameTells
<1>11. A = B /\ X = Y
  <2> DEFINE G == {e \in Node : e.kind = "attribute"}
  <2> HIDE DEF A, B, X, Y
  <2>1. /\ A \in Seq(Node) /\ B \in Seq(Node) /\ X \in Seq(Node) /\ Y \in Seq(Node)
        /\ \A i \in 1..Len(A) : A[i] \in G
        /\ \A i \in 1..Len(B) : B[i] \in G
    BY <1>5, <1>6 DEF Begun
  <2>2. /\ X = <<>> \/ X[1] \notin G
        /\ Y = <<>> \/ Y[1] \notin G
    BY <1>6 DEF Begun
  <2> HIDE DEF G
  <2>3. Parting(Node, G, A, B, X, Y)
    BY <1>8, <2>1, <2>2 DEF Parting
  <2> QED BY <2>3, OneParting
<1>12. VerbAttrs(v, q) = VerbAttrs(w, q) /\ VerbContent(v, q, C) = VerbContent(w, q, D)
  BY <1>9, <1>11
<1>13. SameAttrs(v, w)
  <2> HIDE DEF q
  <2> QED BY <1>3, <1>10, <1>12, VerbAttrsTell
<1>14. SameContent(v, w)
  <2> HIDE DEF q
  <2> QED BY <1>3, <1>10, <1>12, ContentTells
<1> QED BY <1>10, <1>13, <1>14, SameVerb

-----------------------------------------------------------------------------
(* Of a document. *)

\* The verbs a document gives back, up to d deep.
Exact == Nest({v \in Leaf : OneDestination(v)})

\* Such a verb is a leaf with one destination at most, or a <Gather> of such
\* verbs.
LEMMA ExactUnfold ==
  ASSUME NEW d \in 0..MAX_NESTING
  PROVE  \A v \in Exact[d] :
            /\ OneDestination(v)
            /\ v \in Leaf \/ (d # 0 /\ v \in Gathers(Exact[d - 1]))
<1>1. Exact[d] = {v \in Leaf : OneDestination(v)}
                   \union IF d = 0 THEN {} ELSE Gathers(Exact[d - 1])
  BY NestUnfold DEF Exact
<1>2. \A W : \A v \in Gathers(W) : OneDestination(v)
  BY DEF Gathers, OneDestination
<1> QED BY <1>1, <1>2

\* A <Gather> of some verbs is one of any more verbs.
LEMMA GathersMore ==
  ASSUME NEW V, NEW W, V \subseteq W
  PROVE  Gathers(V) \subseteq Gathers(W)
<1>1. ASSUME NEW x \in Seq(V) PROVE x \in Seq(W)
  <2>1. Len(x) \in Nat /\ x \in [1..Len(x) -> V]
    OBVIOUS
  <2>2. x \in [1..Len(x) -> W]
    BY <2>1
  <2> QED BY <2>1, <2>2, FunctionIsSeq
<1>2. Seq(V) \subseteq Seq(W)
  BY <1>1
<1> QED BY <1>2 DEF Gathers

\* Such verbs are verbs.
LEMMA ExactIsVerbs == \A d \in 0..MAX_NESTING : Exact[d] \subseteq Verbs[d]
<1> DEFINE T == {k \in Nat : k <= MAX_NESTING => Exact[k] \subseteq Verbs[k]}
<1>a. MAX_NESTING \in Nat
  BY NestingAssumption DEF NestingAssumption
<1>b. ASSUME NEW d \in 0..MAX_NESTING, d # 0 => Exact[d - 1] \subseteq Verbs[d - 1]
      PROVE  Exact[d] \subseteq Verbs[d]
  <2>1. Verbs[d] = Leaf \union IF d = 0 THEN {} ELSE Gathers(Verbs[d - 1])
    BY NestUnfold DEF Verbs
  <2>2. d # 0 => Gathers(Exact[d - 1]) \subseteq Gathers(Verbs[d - 1])
    BY <1>b, GathersMore
  <2> QED BY <2>1, <2>2, ExactUnfold
<1>1. 0 \in T
  BY <1>a, <1>b
<1>2. ASSUME NEW k \in Nat, k \in T PROVE k + 1 \in T
  <2>1. k + 1 <= MAX_NESTING => k + 1 \in 0..MAX_NESTING /\ k <= MAX_NESTING /\ (k + 1) - 1 = k
    BY <1>a
  <2> QED BY <1>2, <1>b, <2>1
<1>3. \A k \in Nat : k \in T
  <2> HIDE DEF T
  <2> QED BY <1>1, <1>2, SetInduction
<1> QED BY <1>3, <1>a

\* What is read of a verb that nests up to d deep gives back the verb.
Injective(d) ==
    \A p \in Path : \A v, w \in Exact[d] : NodesOf(d, p)[v] = NodesOf(d, p)[w] => v = w

\* What is read of a list of verbs gives back the list, if that of one gives
\* back the verb.
LEMMA NestedTells ==
  ASSUME NEW c \in 0..MAX_NESTING, Injective(c), NEW q \in Path
  PROVE  /\ \A x, y \in Seq(Exact[c]) :
              Spread(NodesOf(c, q), x) = Spread(NodesOf(c, q), y) => x = y
         /\ \A x \in Seq(Exact[c]) : Begun(Spread(NodesOf(c, q), x))
<1> DEFINE S == Exact[c]
           k == NodesOf(c, q)
           h == [v \in S |-> k[v]]
           H == Opening(q)
<1>1. S \subseteq Verbs[c]
  BY ExactIsVerbs
<1>2. \A v \in S : k[v] \in Seq(Node) /\ Headed(k[v], H)
  <2> TAKE v \in S
  <2>1. /\ ElementName[v.verb] \in Lexeme
        /\ OkElement(Rendered[c][v], q, ElementName[v.verb], k[v])
    BY <1>1, RenderedAlwaysOk DEF RenderedOk, Name
  <2>2. Block(k[v], q, ElementName[v.verb])
    BY <2>1 DEF OkElement
  <2> HIDE DEF k
  <2> QED BY <2>1, <2>2, BlockHeaded
<1>3. \A v, w \in S : k[v] = k[w] => v = w
  BY DEF Injective
<1> HIDE DEF S, k, H
<1>4. h \in [S -> Seq(Node)] /\ Tells(h, S, H)
  BY <1>2, <1>3 DEF Tells
<1>5. ASSUME NEW x \in Seq(S) PROVE Spread(k, x) = Spread(h, x)
  <2>1. \A i \in DOMAIN x : k[x[i]] = h[x[i]]
    <3>1. \A i \in DOMAIN x : x[i] \in S
      OBVIOUS
    <3> QED BY <3>1
  <2> HIDE DEF h
  <2> QED BY <2>1, SpreadAgree
<1> HIDE DEF h
<1>6. \A x, y \in Seq(S) : Spread(h, x) = Spread(h, y) => x = y
  BY <1>4, SpreadTells
<1>7. \A x \in Seq(S) : Begun(Spread(h, x))
  BY <1>4, SpreadStarts, OpeningBegun DEF H
<1> QED BY <1>5, <1>6, <1>7 DEF S, k

\* So it is for verbs that nest one deeper.
LEMMA InjectiveStep ==
  ASSUME NEW d \in 0..MAX_NESTING, d # 0 => Injective(d - 1)
  PROVE  Injective(d)
<1> SUFFICES ASSUME NEW p \in Path, NEW v \in Exact[d], NEW w \in Exact[d],
                    NodesOf(d, p)[v] = NodesOf(d, p)[w]
             PROVE  v = w
  BY DEF Injective
<1> DEFINE q == Append(p, "Gather")
           c == d - 1
           C == NestedNodes(c, p, v)
           D == NestedNodes(c, p, w)
<1>1. v \in Verbs[d] /\ w \in Verbs[d] /\ OneDestination(v) /\ OneDestination(w)
  BY ExactIsVerbs, ExactUnfold
<1>2. v \in Leaf \union Gathers(Verbs[c]) /\ w \in Leaf \union Gathers(Verbs[c])
  BY <1>1, VerbsUnfold
<1>3. NodesOf(d, p)[v] = VerbNodes(v, p, C) /\ NodesOf(d, p)[w] = VerbNodes(w, p, D)
  BY <1>1, RenderedAlwaysOk DEF RenderedOk
<1>4. q \in Path
  <2>1. "Gather" \in Lexeme
    BY NamesAreNames DEF Names, Name
  <2> QED BY <2>1, ExtendsAppend
<1>5. ASSUME NEW u \in Exact[d], u.verb = "gather"
      PROVE  c \in 0..MAX_NESTING /\ Injective(c) /\ u.nested \in Seq(Exact[c])
  <2>1. \A W, e : e \in Gathers(W) => e.nested \in Seq(W)
    BY DEF Gathers
  <2>2. \A e \in Leaf : e.verb # "gather"
    BY DEF Leaf
  <2>3. d # 0 /\ u \in Gathers(Exact[d - 1])
    BY <1>5, <2>2, ExactUnfold
  <2>4. MAX_NESTING \in Nat
    BY NestingAssumption DEF NestingAssumption
  <2> QED BY <2>1, <2>3, <2>4
<1>6. ASSUME NEW u \in Exact[d], u.verb = "gather" PROVE Begun(NestedNodes(c, p, u))
  <2>1. NestedNodes(c, p, u) = Spread(NodesOf(c, q), u.nested)
    BY <1>6 DEF NestedNodes
  <2> HIDE DEF c, q
  <2> QED BY <1>4, <1>5, <1>6, <2>1, NestedTells
<1>7. ASSUME v.verb = "gather", w.verb = "gather", C = D PROVE v.nested = w.nested
  <2>1. Spread(NodesOf(c, q), v.nested) = Spread(NodesOf(c, q), w.nested)
    BY <1>7 DEF NestedNodes
  <2> HIDE DEF c, q, C, D
  <2> QED BY <1>4, <1>5, <1>7, <2>1, NestedTells
<1>8. (v.verb = "gather" => Begun(C)) /\ (w.verb = "gather" => Begun(D))
  BY <1>6
<1>9. VerbNodes(v, p, C) = VerbNodes(w, p, D)
  BY <1>3
<1> HIDE DEF c, C, D
<1> QED BY <1>1, <1>2, <1>7, <1>8, <1>9, VerbTells

\* However deep verbs nest, what is read of one gives back the verb.
LEMMA AlwaysInjective == \A d \in 0..MAX_NESTING : Injective(d)
<1> DEFINE T == {k \in Nat : k <= MAX_NESTING => Injective(k)}
<1>a. MAX_NESTING \in Nat
  BY NestingAssumption DEF NestingAssumption
<1>1. 0 \in T
  BY <1>a, InjectiveStep
<1>2. ASSUME NEW k \in Nat, k \in T PROVE k + 1 \in T
  <2>1. k + 1 <= MAX_NESTING => k + 1 \in 0..MAX_NESTING /\ k <= MAX_NESTING /\ (k + 1) - 1 = k
    BY <1>a
  <2> QED BY <1>2, <2>1, InjectiveStep
<1>3. \A k \in Nat : k \in T
  <2> HIDE DEF T
  <2> QED BY <1>1, <1>2, SetInduction
<1> QED BY <1>3, <1>a

\* What is read of a document gives back its verbs.
LEMMA ReadTells ==
  ASSUME NEW x \in Seq(ExactVerb), NEW y \in Seq(ExactVerb), x \in Seq(Verb), y \in Seq(Verb),
         Read(render(x)) = Read(render(y))
  PROVE  x = y
<1>1. Open(<<>>, "Response") \o (<<>> \o BodyNodes(x))
        = Open(<<>>, "Response") \o (<<>> \o BodyNodes(y))
  BY ReadRendered DEF DocumentNodes
<1> DEFINE a == BodyNodes(x)
           b == BodyNodes(y)
           o == Open(<<>>, "Response")
<1>2. a \in Seq(Node) /\ b \in Seq(Node)
  BY BodyTaken
<1>3. o \in Seq(Node)
  <2> DEFINE n == NodeAt("open", Root, <<>>)
  <2>1. n \in Node
    <3>1. <<>> \in String
      BY EmptySeq DEF String
    <3> QED BY <3>1, RootIsPath DEF NodeAt, Node
  <2>2. o = <<n>>
    BY DEF Open, Root
  <2> HIDE DEF n, o
  <2> QED BY <2>1, <2>2
<1>4. a = b
  <2> HIDE DEF a, b, o
  <2>1. <<>> \o a = a /\ <<>> \o b = b
    BY <1>2, ConcatEmptySeq
  <2>2. o \o a = o \o b
    BY <1>1, <2>1 DEF a, b, o
  <2> QED BY <1>2, <1>3, <2>2, Cancel
<1>5. MAX_NESTING \in 0..MAX_NESTING /\ Injective(MAX_NESTING)
  BY VerbIs, AlwaysInjective
<1>6. x \in Seq(Exact[MAX_NESTING]) /\ y \in Seq(Exact[MAX_NESTING])
  BY DEF ExactVerb, Exact
<1> QED BY <1>4, <1>5, <1>6, RootIsPath, NestedTells DEF BodyNodes

\* Two lists of verbs that are read alike are the same list, whatever is in
\* their fields and however deep they nest, but for the second destination of
\* a <Dial> and an empty number in one (twiml.rs:112-224).
THEOREM Losslessness == Spec => []NothingLost
<1>1. IInv => NothingLost
  <2> SUFFICES ASSUME IInv, source \in {"script", "tool"}, authored \in Seq(ExactVerb),
                      NEW verbs \in Scripts, verbs \in Seq(ExactVerb),
                      Read(render(verbs)) = Read(response.document)
               PROVE  verbs = authored
    BY DEF NothingLost
  <2>1. authored \in Seq(Verb) /\ response.document = render(authored)
    BY DEF IInv, Served
  <2>2. verbs \in Seq(Verb)
    BY VerbTypes DEF VerbTypes
  <2> QED BY <2>1, <2>2, ReadTells
<1> QED BY <1>1, Invariance, PTL
===============================================================================
