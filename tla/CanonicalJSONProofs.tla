------------------------- MODULE CanonicalJSONProofs -------------------------
(***************************************************************************)
(* canonical.Encode, for values of any number, shape and depth: equal      *)
(* bytes are written for what says the same, and for nothing else.         *)
(*                                                                         *)
(* encoding is what is to be written, by recursion over the depth of a     *)
(* value.  From the bytes of a value, and whatever may follow it, one can  *)
(* tell where it ends and what it says (BytesTell): a quote ends a string  *)
(* because the ones in it are escaped, a comma or a bracket ends a number, *)
(* and a list of items can be told apart if each of them can (Parsed).     *)
(* The other way round, what a value says gives its bytes, because sorted  *)
(* keys are in one order only (MeaningDecides).  The invariant ties the    *)
(* program to encoding: what is in the buffer, and then what the stack     *)
(* stands for, make the encoding of the value.                             *)
(***************************************************************************)
EXTENDS CanonicalJSON, SequenceTheorems, FiniteSetTheorems, FunctionTheorems, WellFoundedInduction, TLAPS

(***************************************************************************)
(* A set of natural numbers has a least one: the form in which inductions  *)
(* are done here.                                                          *)
(***************************************************************************)
LEMMA Least ==
    ASSUME NEW T \in SUBSET Nat, T # {}
    PROVE  \E n \in T : \A m \in T : n <= m
<1> DEFINE R == OpToRel(<, Nat)
<1>1. PICK n \in T : \A m \in T : ~ (<<m, n>> \in R)
    BY NatLessThanWellFounded, WFMin
<1>2. \A m \in T : ~ (m < n)
    BY <1>1 DEF OpToRel
<1> QED  BY <1>2

\* Concatenation is associative, and can be cancelled on the left.
LEMMA ConcatLaws ==
    ASSUME NEW S
    PROVE  /\ \A a, b, c \in Seq(S) : (a \o b) \o c = a \o (b \o c)
           /\ \A a, b, c \in Seq(S) : a \o b = a \o c => b = c
<1>1. \A a, b, c \in Seq(S) : (a \o b) \o c = a \o (b \o c)
  BY ConcatAssociative
<1>2. \A a, b, c \in Seq(S) : a \o b = a \o c => b = c
  BY ConcatSimplifications
<1> QED  BY <1>1, <1>2

-----------------------------------------------------------------------------
(***************************************************************************)
(* FlattenSeq.  Its recursive function exists and is the only one, so that *)
(* FlattenSeq follows the operations on sequences.                         *)
(***************************************************************************)
NextFlat(f, seqs, i) == IF i = 1 THEN seqs[i] ELSE f[i - 1] \o seqs[i]
FlatEquation(f, m, seqs) == f = [i \in 1 .. m |-> NextFlat(f, seqs, i)]

LEMMA FlatExists ==
    ASSUME NEW seqs, NEW m \in Nat
    PROVE  \E f : FlatEquation(f, m, seqs)
<1> DEFINE T == {k \in Nat : ~ \E f : FlatEquation(f, k, seqs)}
<1>1. SUFFICES ASSUME T # {} PROVE FALSE
  OBVIOUS
<1>2. PICK k \in T : \A j \in T : k <= j
  <2>1. T \in SUBSET Nat
    OBVIOUS
  <2> QED  BY <1>1, <2>1, Least
<1>3. k # 0
  <2> DEFINE g == [i \in 1 .. 0 |-> NextFlat(<<>>, seqs, i)]
  <2>1. g = [i \in 1 .. 0 |-> NextFlat(g, seqs, i)]
    <3>1. 1 .. 0 = {}
      OBVIOUS
    <3> QED  BY <3>1
  <2>2. FlatEquation(g, 0, seqs)
    BY <2>1 DEF FlatEquation
  <2> QED  BY <1>2, <2>2
<1>4. k - 1 \in Nat /\ k - 1 \notin T /\ k \in Nat
  BY <1>2, <1>3
<1>5. PICK f : FlatEquation(f, k - 1, seqs)
  BY <1>4
<1> DEFINE g == [i \in 1 .. k |-> NextFlat(f, seqs, i)]
<1>6. \A i \in 1 .. k - 1 : g[i] = f[i]
  <2>1. \A i \in 1 .. k - 1 : f[i] = NextFlat(f, seqs, i)
    BY <1>5 DEF FlatEquation
  <2>2. \A i \in 1 .. k - 1 : i \in 1 .. k
    BY <1>4
  <2> QED  BY <2>1, <2>2
<1>7. \A i \in 1 .. k : NextFlat(g, seqs, i) = NextFlat(f, seqs, i)
  <2> TAKE i \in 1 .. k
  <2>1. i = 1 \/ i - 1 \in 1 .. k - 1
    BY <1>4
  <2>2. i = 1 \/ g[i - 1] = f[i - 1]
    BY <1>6, <2>1
  <2> QED  BY <2>2 DEF NextFlat
<1>8. FlatEquation(g, k, seqs)
  <2>1. \A i \in 1 .. k : g[i] = NextFlat(g, seqs, i)
    BY <1>7
  <2>2. g = [i \in 1 .. k |-> g[i]]
    OBVIOUS
  <2> HIDE DEF g
  <2> QED  BY <2>1, <2>2 DEF FlatEquation
<1> QED  BY <1>2, <1>8

\* The texts put together so far depend on those texts alone.
LEMMA FlatIsUnique ==
    ASSUME NEW m \in Nat, NEW k \in Nat, m <= k, NEW seqs, NEW more, NEW f, NEW g,
           FlatEquation(f, m, seqs), FlatEquation(g, k, more),
           \A i \in 1 .. m : seqs[i] = more[i]
    PROVE  \A i \in 1 .. m : f[i] = g[i]
<1> DEFINE T == {i \in 1 .. m : f[i] # g[i]}
<1>1. SUFFICES ASSUME T # {} PROVE FALSE
  OBVIOUS
<1>2. PICK i \in T : \A j \in T : i <= j
  <2>1. T \in SUBSET Nat
    OBVIOUS
  <2> QED  BY <1>1, <2>1, Least
<1>3. f[i] = NextFlat(f, seqs, i) /\ g[i] = NextFlat(g, more, i) /\ seqs[i] = more[i]
  <2>1. i \in 1 .. m /\ i \in 1 .. k
    OBVIOUS
  <2> QED  BY <2>1 DEF FlatEquation
<1>4. i = 1 \/ i - 1 \in (1 .. m) \ T
  BY <1>2
<1>5. i = 1 \/ f[i - 1] = g[i - 1]
  BY <1>4
<1>6. f[i] = g[i]
  BY <1>3, <1>5 DEF NextFlat
<1> QED  BY <1>6

LEMMA FlattenAppends ==
    ASSUME NEW S, NEW seqs \in Seq(Seq(S)), NEW last \in Seq(S),
           FlattenSeq(seqs) \in Seq(S)
    PROVE  FlattenSeq(Append(seqs, last)) = FlattenSeq(seqs) \o last
<1> DEFINE more == Append(seqs, last)
           n == Len(seqs)
<1>1. /\ n \in Nat /\ Len(more) = n + 1 /\ more[n + 1] = last
      /\ \A i \in 1 .. n : more[i] = seqs[i]
  BY AppendProperties, LenProperties
<1>2. PICK g : FlatEquation(g, n + 1, more) /\ FlattenSeq(more) = g[n + 1]
  <2> DEFINE g == CHOOSE g : FlatEquation(g, Len(more), more)
  <2> HIDE DEF more
  <2>1. Len(more) # 0 /\ Len(more) \in Nat
    BY <1>1
  <2>2. FlattenSeq(more) = g[Len(more)]
    BY <2>1 DEF FlattenSeq, FlatEquation, NextFlat
  <2>3. FlatEquation(g, Len(more), more)
    BY <2>1, FlatExists
  <2> HIDE DEF g
  <2> QED  BY <1>1, <2>2, <2>3
<1>3. g[n + 1] = NextFlat(g, more, n + 1)
  <2>1. n + 1 \in 1 .. n + 1
    BY <1>1
  <2> HIDE DEF more, n
  <2> QED  BY <1>2, <2>1 DEF FlatEquation
<1>4. CASE n = 0
  <2>1. seqs = <<>>
    BY <1>4, EmptySeq
  <2>2. FlattenSeq(seqs) = <<>>
    BY <1>4, <2>1 DEF FlattenSeq
  <2> QED  BY <1>1, <1>2, <1>3, <1>4, <2>2, ConcatEmptySeq DEF NextFlat
<1>5. CASE n # 0
  <2>1. PICK f : FlatEquation(f, n, seqs) /\ FlattenSeq(seqs) = f[n]
    <3> DEFINE f == CHOOSE f : FlatEquation(f, n, seqs)
    <3>1. FlattenSeq(seqs) = f[n]
      BY <1>5 DEF FlattenSeq, FlatEquation, NextFlat
    <3>2. FlatEquation(f, n, seqs)
      BY <1>1, FlatExists
    <3> QED  BY <3>1, <3>2
  <2>2. f[n] = g[n]
    <3>1. \A i \in 1 .. n : seqs[i] = more[i]
      BY <1>1
    <3>2. n <= n + 1 /\ n + 1 \in Nat
      BY <1>1
    <3> HIDE DEF more, n
    <3>3. \A i \in 1 .. n : f[i] = g[i]
      BY <1>1, <1>2, <2>1, <3>1, <3>2, FlatIsUnique
    <3> QED  BY <1>1, <1>5, <3>3
  <2>3. g[n + 1] = g[n] \o last
    BY <1>1, <1>3, <1>5 DEF NextFlat
  <2> QED  BY <1>2, <2>1, <2>2, <2>3
<1> QED  BY <1>4, <1>5

LEMMA FlattenEmpty == FlattenSeq(<<>>) = <<>>
BY DEF FlattenSeq

LEMMA FlattenType ==
    ASSUME NEW S, NEW seqs \in Seq(Seq(S))
    PROVE  FlattenSeq(seqs) \in Seq(S)
<1> DEFINE T == {n \in Nat : \E s \in Seq(Seq(S)) : Len(s) = n /\ FlattenSeq(s) \notin Seq(S)}
<1>1. SUFFICES ASSUME T # {} PROVE FALSE
  BY LenProperties
<1>2. PICK n \in T : \A j \in T : n <= j
  <2>1. T \in SUBSET Nat
    OBVIOUS
  <2> QED  BY <1>1, <2>1, Least
<1>3. PICK s \in Seq(Seq(S)) : Len(s) = n /\ FlattenSeq(s) \notin Seq(S)
  BY <1>2
<1>4. s # <<>>
  BY <1>3, FlattenEmpty, EmptySeq
<1>5. PICK t \in Seq(Seq(S)), last \in Seq(S) : s = Append(t, last)
  BY <1>4, SequenceEmptyOrAppend
<1>6. Len(t) \in Nat /\ Len(t) < n
  BY <1>3, <1>5, AppendProperties, LenProperties
<1>7. FlattenSeq(t) \in Seq(S)
  BY <1>2, <1>6
<1>8. FlattenSeq(s) = FlattenSeq(t) \o last
  BY <1>5, <1>7, FlattenAppends
<1> QED  BY <1>3, <1>7, <1>8, ConcatProperties

\* A text of its own is what it flattens to.
LEMMA FlattenOne ==
    ASSUME NEW S, NEW text \in Seq(S)
    PROVE  FlattenSeq(<<text>>) = text
<1>1. <<>> \in Seq(Seq(S)) /\ <<>> \in Seq(S) /\ <<text>> = Append(<<>>, text)
  BY EmptySeq
<1>2. FlattenSeq(<<text>>) = <<>> \o text
  BY <1>1, FlattenAppends, FlattenEmpty
<1> QED  BY <1>2, ConcatEmptySeq

LEMMA FlattenConcat ==
    ASSUME NEW S, NEW s \in Seq(Seq(S)), NEW t \in Seq(Seq(S))
    PROVE  FlattenSeq(s \o t) = FlattenSeq(s) \o FlattenSeq(t)
<1> DEFINE T == {n \in Nat : \E u \in Seq(Seq(S)) :
                     Len(u) = n /\ FlattenSeq(s \o u) # FlattenSeq(s) \o FlattenSeq(u)}
<1>1. SUFFICES ASSUME T # {} PROVE FALSE
  BY LenProperties
<1>2. PICK n \in T : \A j \in T : n <= j
  <2>1. T \in SUBSET Nat
    OBVIOUS
  <2> QED  BY <1>1, <2>1, Least
<1>3. PICK u \in Seq(Seq(S)) :
          Len(u) = n /\ FlattenSeq(s \o u) # FlattenSeq(s) \o FlattenSeq(u)
  BY <1>2
<1>4. u # <<>>
  <2>1. s \o <<>> = s /\ FlattenSeq(s) \o <<>> = FlattenSeq(s)
    BY FlattenType, ConcatEmptySeq
  <2> QED  BY <1>3, <2>1, FlattenEmpty
<1>5. PICK w \in Seq(Seq(S)), last \in Seq(S) : u = Append(w, last)
  BY <1>4, SequenceEmptyOrAppend
<1>6. Len(w) \in Nat /\ Len(w) < n
  BY <1>3, <1>5, AppendProperties, LenProperties
<1>7. FlattenSeq(s \o w) = FlattenSeq(s) \o FlattenSeq(w)
  BY <1>2, <1>6
<1>8. s \o w \in Seq(Seq(S)) /\ s \o u = Append(s \o w, last)
  <2>1. u = w \o <<last>> /\ <<last>> \in Seq(Seq(S))
    BY <1>5, AppendIsConcat
  <2>2. s \o w \in Seq(Seq(S))
    BY ConcatProperties
  <2>3. s \o u = (s \o w) \o <<last>>
    BY <2>1, ConcatAssociative
  <2> QED  BY <2>2, <2>3, AppendIsConcat
<1>9. FlattenSeq(s \o u) = (FlattenSeq(s) \o FlattenSeq(w)) \o last
  BY <1>7, <1>8, FlattenAppends, FlattenType
<1>10. FlattenSeq(u) = FlattenSeq(w) \o last
  BY <1>5, FlattenAppends, FlattenType
<1>11. (FlattenSeq(s) \o FlattenSeq(w)) \o last = FlattenSeq(s) \o (FlattenSeq(w) \o last)
  <2>1. FlattenSeq(s) \in Seq(S) /\ FlattenSeq(w) \in Seq(S) /\ last \in Seq(S)
    BY FlattenType
  <2>2. \A a, b, c \in Seq(S) : (a \o b) \o c = a \o (b \o c)
    BY ConcatLaws, Zenon
  <2> QED  BY <2>1, <2>2, Zenon
<1> QED  BY <1>3, <1>9, <1>10, <1>11

\* A sequence is its first element before the others.
LEMMA FirstAndRest ==
    ASSUME NEW S, NEW s \in Seq(S), s # <<>>
    PROVE  /\ s[1] \in S /\ Tail(s) \in Seq(S) /\ s = <<s[1]>> \o Tail(s)
           /\ Len(s) \in Nat /\ Len(s) > 0 /\ Len(Tail(s)) = Len(s) - 1
           /\ \A i \in DOMAIN Tail(s) : i + 1 \in DOMAIN s /\ Tail(s)[i] = s[i + 1]
<1>1. Len(s) \in Nat /\ Len(s) > 0 /\ DOMAIN s = 1 .. Len(s)
  BY EmptySeq, LenProperties
<1>2. s[1] \in S
  BY <1>1, ElementOfSeq
<1>3. /\ Tail(s) \in Seq(S) /\ Len(Tail(s)) = Len(s) - 1
      /\ \A i \in 1 .. Len(Tail(s)) : Tail(s)[i] = s[i + 1]
  BY HeadTailProperties
<1>4. DOMAIN Tail(s) = 1 .. Len(s) - 1
  BY <1>3, LenProperties
<1>5. s = <<s[1]>> \o Tail(s)
  <2>1. <<s[1]>> \in Seq(S) /\ Len(<<s[1]>>) = 1 /\ <<s[1]>>[1] = s[1]
    BY <1>2
  <2>2. /\ <<s[1]>> \o Tail(s) \in Seq(S)
        /\ Len(<<s[1]>> \o Tail(s)) = Len(s)
        /\ \A i \in 1 .. Len(s) : (<<s[1]>> \o Tail(s))[i] = s[i]
    <3>1. /\ <<s[1]>> \o Tail(s) \in Seq(S)
          /\ Len(<<s[1]>> \o Tail(s)) = 1 + (Len(s) - 1)
          /\ \A i \in 1 .. 1 + (Len(s) - 1) :
                (<<s[1]>> \o Tail(s))[i] = IF i <= 1 THEN <<s[1]>>[i] ELSE Tail(s)[i - 1]
      BY <1>3, <2>1, ConcatProperties
    <3>2. \A i \in 1 .. Len(s) : i <= 1 => i = 1
      BY <1>1
    <3>3. \A i \in 1 .. Len(s) : i > 1 => Tail(s)[i - 1] = s[i]
      BY <1>1, <1>3
    <3> QED  BY <1>1, <2>1, <3>1, <3>2, <3>3
  <2> QED  BY <2>2, SeqEqual
<1> QED  BY <1>1, <1>2, <1>3, <1>4, <1>5

LEMMA FlattenFirst ==
    ASSUME NEW S, NEW seqs \in Seq(Seq(S)), seqs # <<>>
    PROVE  FlattenSeq(seqs) = seqs[1] \o FlattenSeq(Tail(seqs))
<1>1. seqs[1] \in Seq(S) /\ Tail(seqs) \in Seq(Seq(S)) /\ seqs = <<seqs[1]>> \o Tail(seqs)
  BY FirstAndRest
<1>2. <<seqs[1]>> \in Seq(Seq(S))
  BY <1>1
<1>3. FlattenSeq(<<seqs[1]>> \o Tail(seqs)) = FlattenSeq(<<seqs[1]>>) \o FlattenSeq(Tail(seqs))
  BY <1>1, <1>2, FlattenConcat
<1> QED  BY <1>1, <1>3, FlattenOne

LEMMA FlattenFirstBefore ==
    ASSUME NEW S, NEW seqs \in Seq(Seq(S)), seqs # <<>>, NEW x \in Seq(S)
    PROVE  /\ FlattenSeq(seqs) \o x = seqs[1] \o (FlattenSeq(Tail(seqs)) \o x)
           /\ FlattenSeq(Tail(seqs)) \o x \in Seq(S)
           /\ seqs[1] \in Seq(S) /\ 1 \in DOMAIN seqs
<1>1. seqs[1] \in Seq(S) /\ Tail(seqs) \in Seq(Seq(S)) /\ 1 \in DOMAIN seqs
  BY FirstAndRest, LenProperties
<1>2. FlattenSeq(seqs) = seqs[1] \o FlattenSeq(Tail(seqs))
  BY FlattenFirst
<1>3. FlattenSeq(Tail(seqs)) \in Seq(S)
  BY <1>1, FlattenType
<1>4. \A a, b, c \in Seq(S) : (a \o b) \o c = a \o (b \o c)
  BY ConcatLaws, Zenon
<1>5. (seqs[1] \o FlattenSeq(Tail(seqs))) \o x = seqs[1] \o (FlattenSeq(Tail(seqs)) \o x)
  BY <1>1, <1>3, <1>4, Zenon
<1>6. FlattenSeq(Tail(seqs)) \o x \in Seq(S)
  BY <1>3, ConcatProperties
<1> QED  BY <1>1, <1>2, <1>5, <1>6, Zenon

-----------------------------------------------------------------------------
(***************************************************************************)
(* How a text is told into its parts.  Two sequences of texts, f with x    *)
(* after it and g with y after it, can be parsed in E if each of f is told *)
(* from that of g by what it starts with, as long as what follows is in E, *)
(* and none is taken for the end.                                          *)
(***************************************************************************)
Parsable(S, E, f, g, x, y) ==
    /\ \A i \in DOMAIN f \intersect DOMAIN g : \A a, b \in E :
          f[i] \o a = g[i] \o b => f[i] = g[i]
    /\ \A i \in DOMAIN f : \A a \in Seq(S) : f[i] \o a # y
    /\ \A i \in DOMAIN g : \A a \in Seq(S) : g[i] \o a # x
    /\ \A i \in DOMAIN f : i # 1 => \A a \in Seq(S) : f[i] \o a \in E
    /\ \A i \in DOMAIN g : i # 1 => \A a \in Seq(S) : g[i] \o a \in E

LEMMA ParsableRest ==
    ASSUME NEW S, NEW E \in SUBSET Seq(S), NEW f \in Seq(Seq(S)), NEW g \in Seq(Seq(S)),
           NEW x \in E, NEW y \in E, Parsable(S, E, f, g, x, y), f # <<>>, g # <<>>
    PROVE  Parsable(S, E, Tail(f), Tail(g), x, y)
<1>1. \A i \in DOMAIN Tail(f) : i + 1 \in DOMAIN f /\ Tail(f)[i] = f[i + 1] /\ i \in Nat
  <2>1. DOMAIN Tail(f) \subseteq Nat
    BY FirstAndRest, LenProperties
  <2> QED  BY <2>1, FirstAndRest
<1>2. \A i \in DOMAIN Tail(g) : i + 1 \in DOMAIN g /\ Tail(g)[i] = g[i + 1] /\ i \in Nat
  <2>1. DOMAIN Tail(g) \subseteq Nat
    BY FirstAndRest, LenProperties
  <2> QED  BY <2>1, FirstAndRest
<1>3. \A i \in DOMAIN Tail(f) \intersect DOMAIN Tail(g) : \A a, b \in E :
         Tail(f)[i] \o a = Tail(g)[i] \o b => Tail(f)[i] = Tail(g)[i]
  <2> TAKE i \in DOMAIN Tail(f) \intersect DOMAIN Tail(g)
  <2>1. i + 1 \in DOMAIN f \intersect DOMAIN g
    BY <1>1, <1>2
  <2> QED  BY <1>1, <1>2, <2>1 DEF Parsable
<1>4. \A i \in DOMAIN Tail(f) : \A a \in Seq(S) : Tail(f)[i] \o a # y
  BY <1>1 DEF Parsable
<1>5. \A i \in DOMAIN Tail(g) : \A a \in Seq(S) : Tail(g)[i] \o a # x
  BY <1>2 DEF Parsable
<1>6. \A i \in DOMAIN Tail(f) : i # 1 => \A a \in Seq(S) : Tail(f)[i] \o a \in E
  <2> TAKE i \in DOMAIN Tail(f)
  <2>1. i # 1 => i + 1 # 1
    BY <1>1
  <2> QED  BY <1>1, <2>1 DEF Parsable
<1>7. \A i \in DOMAIN Tail(g) : i # 1 => \A a \in Seq(S) : Tail(g)[i] \o a \in E
  <2> TAKE i \in DOMAIN Tail(g)
  <2>1. i # 1 => i + 1 # 1
    BY <1>2
  <2> QED  BY <1>2, <2>1 DEF Parsable
<1> QED  BY <1>3, <1>4, <1>5, <1>6, <1>7 DEF Parsable

\* What follows the first text is in E.
LEMMA RestInE ==
    ASSUME NEW S, NEW E \in SUBSET Seq(S), NEW f \in Seq(Seq(S)), NEW x \in E, f # <<>>,
           \A i \in DOMAIN f : i # 1 => \A a \in Seq(S) : f[i] \o a \in E
    PROVE  FlattenSeq(Tail(f)) \o x \in E
<1> DEFINE t == Tail(f)
<1>1. t \in Seq(Seq(S)) /\ \A i \in DOMAIN t : i + 1 \in DOMAIN f /\ t[i] = f[i + 1]
  BY FirstAndRest
<1> SUFFICES FlattenSeq(t) \o x \in E
  OBVIOUS
<1> HIDE DEF t
<1>2. CASE t = <<>>
  BY <1>2, FlattenEmpty, ConcatEmptySeq
<1>3. CASE t # <<>>
  <2>1. x \in Seq(S)
    OBVIOUS
  <2>2. /\ FlattenSeq(t) \o x = t[1] \o (FlattenSeq(Tail(t)) \o x)
        /\ FlattenSeq(Tail(t)) \o x \in Seq(S)
        /\ 1 \in DOMAIN t
    BY <1>1, <1>3, <2>1, FlattenFirstBefore
  <2> DEFINE rest == FlattenSeq(Tail(t)) \o x
  <2>3. /\ FlattenSeq(t) \o x = t[1] \o rest
        /\ rest \in Seq(S)
    BY <2>2
  <2> HIDE DEF rest
  <2>4. 1 + 1 \in DOMAIN f /\ t[1] = f[1 + 1]
    BY <1>1, <2>2
  <2>5. 2 \in DOMAIN f /\ t[1] = f[2]
    BY <2>4
  <2>6. \A i \in DOMAIN f : i # 1 => \A a \in Seq(S) : f[i] \o a \in E
    OBVIOUS
  <2>7. 2 # 1
    OBVIOUS
  <2>8. f[2] \o rest \in E
    BY <2>3, <2>5, <2>6, <2>7, Zenon
  <2>9. t[1] \o rest \in E
    BY <2>5, <2>8, Zenon
  <2> QED  BY <2>3, <2>9, Zenon
<1> QED  BY <1>2, <1>3

(***************************************************************************)
(* What can be parsed is told into the same parts, and the same rest.      *)
(***************************************************************************)
LEMMA Parsed ==
    ASSUME NEW S, NEW E \in SUBSET Seq(S), NEW f \in Seq(Seq(S)), NEW g \in Seq(Seq(S)),
           NEW x \in E, NEW y \in E, Parsable(S, E, f, g, x, y),
           FlattenSeq(f) \o x = FlattenSeq(g) \o y
    PROVE  f = g /\ x = y
<1> DEFINE Whole(h, k) == /\ Parsable(S, E, h, k, x, y)
                          /\ FlattenSeq(h) \o x = FlattenSeq(k) \o y
           T == {n \in Nat : \E h, k \in Seq(Seq(S)) :
                    Len(h) = n /\ Whole(h, k) /\ ~(h = k /\ x = y)}
<1>1. SUFFICES ASSUME T # {} PROVE FALSE
  BY LenProperties
<1>2. PICK n \in T : \A j \in T : n <= j
  <2>1. T \in SUBSET Nat
    OBVIOUS
  <2> QED  BY <1>1, <2>1, Least
<1>3. PICK h \in Seq(Seq(S)), k \in Seq(Seq(S)) :
          Len(h) = n /\ Whole(h, k) /\ ~(h = k /\ x = y)
  BY <1>2
<1>4. ASSUME NEW s \in Seq(Seq(S)), NEW z \in Seq(S), s # <<>>
      PROVE  /\ FlattenSeq(s) \o z = s[1] \o (FlattenSeq(Tail(s)) \o z)
             /\ FlattenSeq(Tail(s)) \o z \in Seq(S)
             /\ s[1] \in Seq(S) /\ 1 \in DOMAIN s
  BY <1>4, FlattenFirstBefore
<1>5. x \in Seq(S) /\ y \in Seq(S)
  OBVIOUS
<1>6. h # <<>>
  <2>1. SUFFICES ASSUME h = <<>> PROVE FALSE
    OBVIOUS
  <2>2. x = FlattenSeq(k) \o y
    BY <1>3, <1>5, <2>1, FlattenEmpty, ConcatEmptySeq
  <2>3. k = <<>>
    <3>1. SUFFICES ASSUME k # <<>> PROVE FALSE
      OBVIOUS
    <3>2. x = k[1] \o (FlattenSeq(Tail(k)) \o y)
      BY <1>4, <1>5, <2>2, <3>1, Zenon
    <3>3. \A i \in DOMAIN k : \A a \in Seq(S) : k[i] \o a # x
      BY <1>3 DEF Parsable
    <3> QED  BY <1>4, <1>5, <3>1, <3>2, <3>3, Zenon
  <2>4. x = y
    BY <1>5, <2>2, <2>3, FlattenEmpty, ConcatEmptySeq
  <2> QED  BY <1>3, <2>1, <2>3, <2>4
<1>7. k # <<>>
  <2>1. SUFFICES ASSUME k = <<>> PROVE FALSE
    OBVIOUS
  <2>2. y = FlattenSeq(h) \o x
    BY <1>3, <1>5, <2>1, FlattenEmpty, ConcatEmptySeq
  <2>3. y = h[1] \o (FlattenSeq(Tail(h)) \o x)
    BY <1>4, <1>5, <1>6, <2>2, Zenon
  <2>4. \A i \in DOMAIN h : \A a \in Seq(S) : h[i] \o a # y
    BY <1>3 DEF Parsable
  <2> QED  BY <1>4, <1>5, <1>6, <2>3, <2>4, Zenon
<1> DEFINE p == FlattenSeq(Tail(h)) \o x
           q == FlattenSeq(Tail(k)) \o y
<1>8. p \in E /\ q \in E
  BY <1>3, <1>6, <1>7, RestInE DEF Parsable
<1>9. h[1] \o p = k[1] \o q /\ h[1] \in Seq(S) /\ 1 \in DOMAIN h \intersect DOMAIN k
  BY <1>3, <1>4, <1>5, <1>6, <1>7
<1> HIDE DEF p, q
<1>10. h[1] = k[1]
  BY <1>3, <1>8, <1>9 DEF Parsable
<1>11. p = q
  BY <1>8, <1>9, <1>10, ConcatSimplifications
<1>12. /\ Tail(h) \in Seq(Seq(S)) /\ Len(Tail(h)) \in Nat /\ Len(Tail(h)) < n
       /\ Tail(k) \in Seq(Seq(S))
  <2>1. /\ Tail(h) \in Seq(Seq(S)) /\ Len(Tail(h)) = Len(h) - 1 /\ Len(h) \in Nat /\ Len(h) > 0
        /\ Tail(k) \in Seq(Seq(S))
    BY <1>6, <1>7, FirstAndRest
  <2> QED  BY <1>3, <2>1
<1>13. Parsable(S, E, Tail(h), Tail(k), x, y)
  BY <1>3, <1>6, <1>7, ParsableRest
<1>14. Tail(h) = Tail(k) /\ x = y
  <2>1. Whole(Tail(h), Tail(k))
    BY <1>11, <1>13 DEF p, q
  <2>2. n \in Nat
    OBVIOUS
  <2>3. Len(Tail(h)) \notin T
    <3> HIDE DEF T
    <3> QED  BY <1>2, <1>12, <2>2
  <2> HIDE DEF Whole
  <2> QED  BY <1>12, <2>1, <2>3
<1>15. h = <<h[1]>> \o Tail(h) /\ k = <<k[1]>> \o Tail(k)
  BY <1>6, <1>7, FirstAndRest
<1> QED  BY <1>3, <1>10, <1>14, <1>15

-----------------------------------------------------------------------------
(***************************************************************************)
(* Strings.  An escaped character is told from another by its first two    *)
(* bytes, and none begins with a quote: a string in quotes can be read     *)
(* back, whatever follows it.                                              *)
(***************************************************************************)
Chars ==
    Range(Bytes) \union NumberChars \union Range(HexDigits) \union
    {"QUOTE", "BACKSLASH", "n", "u", "0", "1", "l", "t", "r", "e", "f", "a", "s", "COMMA", "COLON",
     "LBRACKET", "RBRACKET", "LBRACE", "RBRACE"}
Output == Seq(Chars)
Quote == <<"QUOTE">>

LEMMA StringsAreOutput == Strings \subseteq Output
BY SeqMonotonic DEF Strings, Output, Chars

LEMMA QuoteType == Quote \in Output /\ Len(Quote) = 1 /\ Quote[1] = "QUOTE"
<1>1. "QUOTE" \in Chars
  BY DEF Chars
<1> QED  BY <1>1 DEF Quote, Output

\* What two texts have first, if what they begin is the same.
LEMMA SameStart ==
    ASSUME NEW S, NEW a \in Seq(S), NEW b \in Seq(S), NEW x \in Seq(S), NEW y \in Seq(S),
           a \o x = b \o y
    PROVE  \A i \in 1 .. Len(a) : i <= Len(b) => a[i] = b[i]
<1>1. Len(a) \in Nat /\ Len(b) \in Nat /\ Len(x) \in Nat /\ Len(y) \in Nat
  BY LenProperties
<1>2. \A i \in 1 .. Len(a) : (a \o x)[i] = a[i]
  BY <1>1, ConcatProperties
<1>3. \A i \in 1 .. Len(b) : (b \o y)[i] = b[i]
  BY <1>1, ConcatProperties
<1>4. \A i \in 1 .. Len(a) : i <= Len(b) => i \in 1 .. Len(b)
  BY <1>1
<1> QED  BY <1>2, <1>3, <1>4, Zenon

LEMMA SameLength ==
    ASSUME NEW m \in Nat, NEW n \in Nat, 1 .. m = 1 .. n
    PROVE  m = n
<1>1. m > n => m \in 1 .. m /\ m \notin 1 .. n
  OBVIOUS
<1>2. n > m => n \in 1 .. n /\ n \notin 1 .. m
  OBVIOUS
<1> QED  BY <1>1, <1>2

\* What is written of a character tells which one it is.
LEMMA LettersTell ==
    /\ DOMAIN Letters = {"QUOTE", "BACKSLASH", "BS", "FF", "LF", "CR", "TAB"}
    /\ \A c \in DOMAIN Letters : Letters[c] \in Chars /\ Letters[c] # "u"
    /\ \A c, d \in DOMAIN Letters : Letters[c] = Letters[d] => c = d
<1>1. DOMAIN Letters = {"QUOTE", "BACKSLASH", "BS", "FF", "LF", "CR", "TAB"}
  BY DEF Letters
<1>2. /\ Letters["QUOTE"] = "QUOTE" /\ Letters["BACKSLASH"] = "BACKSLASH"
      /\ Letters["BS"] = "b" /\ Letters["FF"] = "f" /\ Letters["LF"] = "n"
      /\ Letters["CR"] = "r" /\ Letters["TAB"] = "t"
  BY DEF Letters
<1>3. /\ "QUOTE" \in Chars /\ "BACKSLASH" \in Chars /\ "n" \in Chars
      /\ "r" \in Chars /\ "t" \in Chars /\ "f" \in Chars
  BY DEF Chars
<1>4. "b" \in Chars
  <2>1. 12 \in DOMAIN HexDigits /\ HexDigits[12] = "b"
    BY DEF HexDigits
  <2> QED  BY <2>1 DEF Range, Chars
<1> QED  BY <1>1, <1>2, <1>3, <1>4

LEMMA HexDigitsTell ==
    /\ DOMAIN HexDigits = 1 .. 16
    /\ \A m, n \in 1 .. 16 : HexDigits[m] = HexDigits[n] => m = n
BY DEF HexDigits

LEMMA DigitsTell ==
    ASSUME NEW m \in 0 .. 31, NEW n \in 0 .. 31, High(m) = High(n), Low(m) = Low(n)
    PROVE  m = n
<1>1. /\ (m \div 16) + 1 \in 1 .. 16 /\ (m % 16) + 1 \in 1 .. 16
      /\ (n \div 16) + 1 \in 1 .. 16 /\ (n % 16) + 1 \in 1 .. 16
  OBVIOUS
<1>2. (m \div 16) + 1 = (n \div 16) + 1 /\ (m % 16) + 1 = (n % 16) + 1
  BY <1>1, HexDigitsTell DEF High, Low
<1> QED  BY <1>2

LEMMA DigitsType ==
    ASSUME NEW n \in 0 .. 31
    PROVE  High(n) \in Chars /\ Low(n) \in Chars
<1>1. (n \div 16) + 1 \in 1 .. 16 /\ (n % 16) + 1 \in 1 .. 16
  OBVIOUS
<1> QED  BY <1>1, HexDigitsTell DEF High, Low, Range, Chars

LEMMA CodesTell ==
    ASSUME NEW c \in Range(Controls)
    PROVE  CodeOf(c) \in 0 .. 31 /\ Controls[CodeOf(c) + 1] = c
<1>1. DOMAIN Controls = 1 .. 32
  BY DEF Controls
<1>2. \E n \in DOMAIN Controls : Controls[n] = c
  BY DEF Range
<1> DEFINE k == CHOOSE n \in DOMAIN Controls : Controls[n] = c
<1>3. k \in 1 .. 32 /\ Controls[k] = c
  BY <1>1, <1>2
<1>4. CodeOf(c) = k - 1
  BY DEF CodeOf
<1> HIDE DEF k
<1>5. k - 1 \in 0 .. 31 /\ (k - 1) + 1 = k
  BY <1>3
<1> QED  BY <1>3, <1>4, <1>5

\* An escape is told from another by its second character, or by its last two.
IsEscapeOf(e, c) ==
    /\ Len(e) \in Nat /\ Len(e) >= 2 /\ e[1] = "BACKSLASH"
    /\ \/ c \in DOMAIN Letters /\ e[2] = Letters[c]
       \/ /\ c \in Range(Controls) /\ Len(e) = 6 /\ e[2] = "u"
          /\ e[5] = High(CodeOf(c)) /\ e[6] = Low(CodeOf(c))

LEMMA EscapeForm ==
    ASSUME NEW c \in Chars
    PROVE  LET e == Escape(c)
           IN  /\ e \in Output
               /\ \/ IsEscapeOf(e, c)
                  \/ Len(e) = 1 /\ e[1] = c /\ c \notin {"QUOTE", "BACKSLASH"}
<1>1. CASE c \in DOMAIN Letters
  <2> DEFINE l == Letters[c]
  <2>1. Escape(c) = <<"BACKSLASH", l>>
    BY <1>1 DEF Escape
  <2>2. "BACKSLASH" \in Chars /\ l \in Chars
    BY <1>1, LettersTell DEF Chars
  <2> HIDE DEF l
  <2> DEFINE e == <<"BACKSLASH", l>>
  <2>3. e \in Seq(Chars) /\ Len(e) = 2 /\ e[1] = "BACKSLASH" /\ e[2] = l
    BY <2>2
  <2> HIDE DEF e
  <2>4. Escape(c) = e
    BY <2>1 DEF e
  <2>5. IsEscapeOf(e, c)
    BY <1>1, <2>3 DEF IsEscapeOf, l
  <2> QED  BY <2>3, <2>4, <2>5 DEF Output
<1>2. CASE c \in Range(Controls) \ DOMAIN Letters
  <2> DEFINE h == High(CodeOf(c))
             l == Low(CodeOf(c))
  <2>1. Escape(c) = <<"BACKSLASH", "u", "0", "0", h, l>>
    BY <1>2 DEF Escape, FourDigits
  <2>2. /\ "BACKSLASH" \in Chars /\ "u" \in Chars /\ "0" \in Chars
        /\ h \in Chars /\ l \in Chars
    BY <1>2, CodesTell, DigitsType DEF Chars
  <2> HIDE DEF h, l
  <2> DEFINE e == <<"BACKSLASH", "u", "0", "0", h, l>>
  <2>3. /\ e \in Seq(Chars) /\ Len(e) = 6
        /\ e[1] = "BACKSLASH" /\ e[2] = "u" /\ e[5] = h /\ e[6] = l
    BY <2>2
  <2> HIDE DEF e
  <2>4. Escape(c) = e
    BY <2>1 DEF e
  <2>5. IsEscapeOf(e, c)
    BY <1>2, <2>3 DEF IsEscapeOf, h, l
  <2> QED  BY <2>3, <2>4, <2>5 DEF Output
<1>3. CASE c \notin Range(Controls) \union DOMAIN Letters
  <2>1. Escape(c) = <<c>>
    BY <1>3 DEF Escape
  <2>2. <<c>> \in Seq(Chars) /\ Len(<<c>>) = 1 /\ <<c>>[1] = c
    OBVIOUS
  <2>3. c \notin {"QUOTE", "BACKSLASH"}
    BY <1>3, LettersTell
  <2> QED  BY <2>1, <2>2, <2>3 DEF Output
<1> QED  BY <1>1, <1>2, <1>3

LEMMA EscapeTold ==
    ASSUME NEW c \in Chars, NEW d \in Chars, NEW a \in Output, NEW b \in Output,
           Escape(c) \o a = Escape(d) \o b
    PROVE  c = d
<1> DEFINE e == Escape(c)
           f == Escape(d)
<1>1. /\ e \in Output /\ f \in Output
      /\ \/ IsEscapeOf(e, c)
         \/ Len(e) = 1 /\ e[1] = c /\ c \notin {"QUOTE", "BACKSLASH"}
      /\ \/ IsEscapeOf(f, d)
         \/ Len(f) = 1 /\ f[1] = d /\ d \notin {"QUOTE", "BACKSLASH"}
  BY EscapeForm
<1>2. \A i \in 1 .. Len(e) : i <= Len(f) => e[i] = f[i]
  BY <1>1, SameStart DEF Output
<1> HIDE DEF e, f
<1>3. e[1] = f[1]
  BY <1>1, <1>2 DEF IsEscapeOf
<1>4. CASE IsEscapeOf(e, c) /\ IsEscapeOf(f, d)
  <2>1. e[2] = f[2]
    BY <1>2, <1>4 DEF IsEscapeOf
  <2>2. CASE c \in DOMAIN Letters /\ e[2] = Letters[c]
    BY <1>4, <2>1, <2>2, LettersTell DEF IsEscapeOf
  <2>3. CASE /\ c \in Range(Controls) /\ Len(e) = 6 /\ e[2] = "u"
             /\ e[5] = High(CodeOf(c)) /\ e[6] = Low(CodeOf(c))
    <3>1. /\ d \in Range(Controls) /\ Len(f) = 6
          /\ f[5] = High(CodeOf(d)) /\ f[6] = Low(CodeOf(d))
      BY <1>4, <2>1, <2>3, LettersTell DEF IsEscapeOf
    <3>2. e[5] = f[5] /\ e[6] = f[6]
      BY <1>2, <2>3, <3>1
    <3>3. CodeOf(c) \in 0 .. 31 /\ CodeOf(d) \in 0 .. 31
      BY <2>3, <3>1, CodesTell
    <3>4. CodeOf(c) = CodeOf(d)
      BY <2>3, <3>1, <3>2, <3>3, DigitsTell
    <3> QED  BY <2>3, <3>1, <3>4, CodesTell
  <2> QED  BY <1>4, <2>2, <2>3 DEF IsEscapeOf
<1>5. CASE ~(IsEscapeOf(e, c) /\ IsEscapeOf(f, d))
  BY <1>1, <1>3, <1>5 DEF IsEscapeOf
<1> QED  BY <1>4, <1>5

LEMMA EscapedType ==
    ASSUME NEW s \in Output
    PROVE  /\ [n \in DOMAIN s |-> Escape(s[n])] \in Seq(Output)
           /\ Escaped(s) \in Output
<1>1. \A n \in 1 .. Len(s) : Escape(s[n]) \in Output
  <2>1. \A n \in 1 .. Len(s) : s[n] \in Chars
    BY ElementOfSeq DEF Output
  <2> QED  BY <2>1, EscapeForm
<1>2. DOMAIN s = 1 .. Len(s) /\ Len(s) \in Nat
  BY LenProperties DEF Output
<1>3. [n \in DOMAIN s |-> Escape(s[n])] \in Seq(Output)
  BY <1>1, <1>2
<1> QED  BY <1>3, FlattenType DEF Escaped, Output

\* An escaped string, the quote that ends it, and what follows.
Closed(s, x) == Escaped(s) \o (Quote \o x)

LEMMA EscapedTold ==
    ASSUME NEW s \in Output, NEW t \in Output, NEW x \in Output, NEW y \in Output,
           Closed(s, x) = Closed(t, y)
    PROVE  s = t /\ x = y
<1> DEFINE f == [n \in DOMAIN s |-> Escape(s[n])]
           g == [n \in DOMAIN t |-> Escape(t[n])]
<1>1. f \in Seq(Output) /\ g \in Seq(Output)
  BY EscapedType
<1>2. Quote \in Output /\ Len(Quote) = 1 /\ Quote[1] = "QUOTE"
  BY QuoteType
<1>3. Quote \o x \in Output /\ Quote \o y \in Output
  BY <1>2, ConcatProperties DEF Output
<1>4. /\ DOMAIN s = 1 .. Len(s) /\ DOMAIN t = 1 .. Len(t) /\ Len(s) \in Nat /\ Len(t) \in Nat
      /\ \A i \in DOMAIN s : s[i] \in Chars
      /\ \A i \in DOMAIN t : t[i] \in Chars
  BY LenProperties, ElementOfSeq DEF Output
<1>5. ASSUME NEW c \in Chars, NEW a \in Output, NEW b \in Output
      PROVE  Escape(c) \o a # Quote \o b
  <2>1. SUFFICES ASSUME Escape(c) \o a = Quote \o b PROVE FALSE
    OBVIOUS
  <2>2. Escape(c) \in Output /\ Len(Escape(c)) \in Nat /\ Len(Escape(c)) >= 1 /\ Escape(c)[1] # "QUOTE"
    BY EscapeForm DEF IsEscapeOf
  <2>3. \A i \in 1 .. Len(Escape(c)) : i <= Len(Quote) => Escape(c)[i] = Quote[i]
    BY <1>2, <2>1, <2>2, SameStart DEF Output
  <2> QED  BY <1>2, <2>2, <2>3
<1>6. Parsable(Chars, Output, f, g, Quote \o x, Quote \o y)
  <2>1. \A i \in DOMAIN f \intersect DOMAIN g : \A a, b \in Output :
           f[i] \o a = g[i] \o b => f[i] = g[i]
    <3> TAKE i \in DOMAIN f \intersect DOMAIN g
    <3>1. f[i] = Escape(s[i]) /\ g[i] = Escape(t[i]) /\ s[i] \in Chars /\ t[i] \in Chars
      BY <1>4
    <3>2. ASSUME NEW a \in Output, NEW b \in Output, f[i] \o a = g[i] \o b
          PROVE  f[i] = g[i]
      <4>1. Escape(s[i]) \o a = Escape(t[i]) \o b
        BY <3>1, <3>2, Zenon
      <4>2. s[i] = t[i]
        BY <3>1, <4>1, EscapeTold
      <4> QED  BY <3>1, <4>2, Zenon
    <3> QED  BY <3>2
  <2>2. \A i \in DOMAIN f : \A a \in Output : f[i] \o a # Quote \o y
    BY <1>4, <1>5
  <2>3. \A i \in DOMAIN g : \A a \in Output : g[i] \o a # Quote \o x
    BY <1>4, <1>5
  <2>4. \A i \in DOMAIN f : i # 1 => \A a \in Output : f[i] \o a \in Output
    BY <1>4, EscapeForm, ConcatProperties DEF Output, IsEscapeOf
  <2>5. \A i \in DOMAIN g : i # 1 => \A a \in Output : g[i] \o a \in Output
    BY <1>4, EscapeForm, ConcatProperties DEF Output, IsEscapeOf
  <2> HIDE DEF f, g
  <2> QED  BY <2>1, <2>2, <2>3, <2>4, <2>5 DEF Parsable, Output
<1>7. FlattenSeq(f) \o (Quote \o x) = FlattenSeq(g) \o (Quote \o y)
  BY DEF Escaped, Closed
<1>8. f = g /\ Quote \o x = Quote \o y
  <2> DEFINE p == Quote \o x
             q == Quote \o y
  <2>1. /\ p \in Output /\ q \in Output /\ Parsable(Chars, Output, f, g, p, q)
        /\ FlattenSeq(f) \o p = FlattenSeq(g) \o q
    BY <1>3, <1>6, <1>7
  <2> HIDE DEF f, g, p, q
  <2>2. f = g /\ p = q
    BY <1>1, <2>1, Parsed DEF Output
  <2> QED  BY <2>2 DEF p, q
<1>9. x = y
  BY <1>2, <1>8, ConcatLaws DEF Output
<1>10. s = t
  <2>1. DOMAIN s = DOMAIN t
    BY <1>8
  <2>2. \A i \in DOMAIN s : s[i] = t[i]
    <3> TAKE i \in DOMAIN s
    <3>1. Escape(s[i]) = Escape(t[i])
      <4>1. f[i] = g[i] /\ i \in DOMAIN t
        BY <1>8, <2>1
      <4> QED  BY <4>1
    <3>2. <<>> \in Output /\ Escape(s[i]) \o <<>> = Escape(t[i]) \o <<>>
      BY <3>1, EmptySeq DEF Output
    <3> QED  BY <1>4, <2>1, <3>2, EscapeTold
  <2>3. Len(s) = Len(t)
    BY <1>4, <2>1, SameLength
  <2> QED  BY <1>4, <2>2, <2>3, SeqEqual DEF Output
<1> QED  BY <1>9, <1>10

LEMMA QuotedType ==
    ASSUME NEW s \in Output
    PROVE  /\ Quoted(s) \in Output /\ Len(Quoted(s)) \in Nat /\ Len(Quoted(s)) >= 1
           /\ Quoted(s)[1] = "QUOTE"
           /\ \A x \in Output : Quoted(s) \o x = Quote \o (Escaped(s) \o (Quote \o x))
<1>1. Quote \in Output /\ Len(Quote) = 1 /\ Quote[1] = "QUOTE" /\ Escaped(s) \in Output
  BY EscapedType, QuoteType
<1>2. Quoted(s) = (Quote \o Escaped(s)) \o Quote
  BY DEF Quoted, Quote
<1>3. Quote \o Escaped(s) \in Output
  BY <1>1, ConcatProperties DEF Output
<1>4. \A a, b, c \in Output : (a \o b) \o c = a \o (b \o c)
  BY ConcatLaws, Zenon DEF Output
<1>5. Quoted(s) = Quote \o (Escaped(s) \o Quote)
  BY <1>1, <1>2, <1>4, Zenon
<1>6. Escaped(s) \o Quote \in Output
  BY <1>1, ConcatProperties DEF Output
<1>7. /\ Quoted(s) \in Output /\ Len(Quoted(s)) \in Nat /\ Len(Quoted(s)) >= 1
      /\ Quoted(s)[1] = "QUOTE"
  <2> DEFINE rest == Escaped(s) \o Quote
  <2>1. rest \in Output /\ Quoted(s) = Quote \o rest /\ Len(rest) \in Nat
    BY <1>5, <1>6, LenProperties DEF Output
  <2> HIDE DEF rest
  <2> QED  BY <1>1, <2>1, ConcatProperties DEF Output
<1>8. ASSUME NEW x \in Output
      PROVE  Quoted(s) \o x = Quote \o (Escaped(s) \o (Quote \o x))
  <2>1. Quote \o x \in Output
    BY <1>1, ConcatProperties DEF Output
  <2>2. Quoted(s) \o x = (Quote \o Escaped(s)) \o (Quote \o x)
    <3>1. ((Quote \o Escaped(s)) \o Quote) \o x = (Quote \o Escaped(s)) \o (Quote \o x)
      BY <1>1, <1>3, <1>4, Zenon
    <3> QED  BY <1>2, <3>1, Zenon
  <2>3. (Quote \o Escaped(s)) \o (Quote \o x) = Quote \o (Escaped(s) \o (Quote \o x))
    BY <1>1, <1>4, <2>1, Zenon
  <2> QED  BY <2>2, <2>3, Zenon
<1> QED  BY <1>7, <1>8

\* A string in quotes tells the string and where it ends.
LEMMA QuotedTold ==
    ASSUME NEW s \in Output, NEW t \in Output, NEW x \in Output, NEW y \in Output,
           Quoted(s) \o x = Quoted(t) \o y
    PROVE  s = t /\ x = y
<1>1. Quote \o (Escaped(s) \o (Quote \o x)) = Quote \o (Escaped(t) \o (Quote \o y))
  BY QuotedType, Zenon
<1>2. Quote \in Output /\ Quote \o x \in Output /\ Quote \o y \in Output
  <2>1. Quote \in Output
    BY QuoteType
  <2> QED  BY <2>1, ConcatProperties DEF Output
<1>3. Escaped(s) \o (Quote \o x) \in Output /\ Escaped(t) \o (Quote \o y) \in Output
  <2> DEFINE p == Quote \o x
             q == Quote \o y
  <2>1. p \in Output /\ q \in Output /\ Escaped(s) \in Output /\ Escaped(t) \in Output
    BY <1>2, EscapedType
  <2> HIDE DEF p, q
  <2>2. Escaped(s) \o p \in Output /\ Escaped(t) \o q \in Output
    BY <2>1, ConcatProperties DEF Output
  <2> QED  BY <2>2 DEF p, q
<1>4. \A a, b, c \in Output : a \o b = a \o c => b = c
  BY ConcatLaws, Zenon DEF Output
<1>5. Escaped(s) \o (Quote \o x) = Escaped(t) \o (Quote \o y)
  BY <1>1, <1>2, <1>3, <1>4, Zenon
<1>6. Closed(s, x) = Closed(t, y)
  BY <1>5 DEF Closed
<1> QED  BY <1>6, EscapedTold

-----------------------------------------------------------------------------
(***************************************************************************)
(* Keys.  Precedes is a strict order on strings, and total: the keys of an *)
(* object are sorted in one way, and in one way only.                      *)
(***************************************************************************)
LEMMA ByteOfIsInjective ==
    \A c, d \in Range(Bytes) :
        ByteOf(c) \in Int /\ (c # d => ByteOf(c) # ByteOf(d))
<1>1. \A c \in Range(Bytes) : ByteOf(c) \in DOMAIN Bytes /\ Bytes[ByteOf(c)] = c
  BY DEF ByteOf, Range
<1>2. DOMAIN Bytes \subseteq Int
  <2>1. Bytes \in Seq(Range(Bytes))
    BY ValuesAssumption
  <2>2. DOMAIN Bytes = 1 .. Len(Bytes) /\ Len(Bytes) \in Nat
    BY <2>1, LenProperties
  <2> QED  BY <2>2
<1> QED  BY <1>1, <1>2

\* What Precedes says: s and t are the same before n, and s is smaller there.
Smaller(s, t, n) ==
    /\ n \in DOMAIN t /\ n <= Len(s) + 1 /\ \A m \in 1 .. n - 1 : s[m] = t[m]
    /\ n <= Len(s) => ByteOf(s[n]) < ByteOf(t[n])

LEMMA StringFacts ==
    ASSUME NEW s \in Strings
    PROVE  /\ Len(s) \in Nat /\ DOMAIN s = 1 .. Len(s)
           /\ \A n \in 1 .. Len(s) : s[n] \in Range(Bytes) /\ ByteOf(s[n]) \in Int
<1>1. Len(s) \in Nat /\ DOMAIN s = 1 .. Len(s)
  BY LenProperties DEF Strings
<1>2. \A n \in 1 .. Len(s) : s[n] \in Range(Bytes)
  BY ElementOfSeq DEF Strings
<1> QED  BY <1>1, <1>2, ByteOfIsInjective

LEMMA PrecedesIsAsymmetric ==
    ASSUME NEW s \in Strings, NEW t \in Strings, Precedes(s, t)
    PROVE  ~Precedes(t, s)
<1>1. SUFFICES ASSUME Precedes(t, s) PROVE FALSE
  OBVIOUS
<1>2. PICK n \in DOMAIN t : Smaller(s, t, n)
  BY DEF Precedes, Smaller
<1>3. PICK m \in DOMAIN s : Smaller(t, s, m)
  BY <1>1 DEF Precedes, Smaller
<1>4. n \in 1 .. Len(t) /\ m \in 1 .. Len(s) /\ Len(s) \in Nat /\ Len(t) \in Nat
  BY StringFacts
<1>5. CASE n < m
  <2>1. t[n] = s[n] /\ n <= Len(s)
    BY <1>3, <1>4, <1>5 DEF Smaller
  <2>2. ByteOf(s[n]) < ByteOf(t[n]) /\ ByteOf(s[n]) \in Int
    BY <1>2, <1>4, <2>1, StringFacts DEF Smaller
  <2> QED  BY <2>1, <2>2
<1>6. CASE m < n
  <2>1. s[m] = t[m] /\ m <= Len(t)
    BY <1>2, <1>4, <1>6 DEF Smaller
  <2>2. ByteOf(t[m]) < ByteOf(s[m]) /\ ByteOf(s[m]) \in Int
    BY <1>3, <1>4, <2>1, StringFacts DEF Smaller
  <2> QED  BY <2>1, <2>2
<1>7. CASE m = n
  <2>1. ByteOf(s[n]) < ByteOf(t[n]) /\ ByteOf(t[n]) < ByteOf(s[n])
    BY <1>2, <1>3, <1>4, <1>7 DEF Smaller
  <2>2. ByteOf(s[n]) \in Int /\ ByteOf(t[n]) \in Int
    BY <1>4, <1>7, StringFacts
  <2> QED  BY <2>1, <2>2
<1> QED  BY <1>4, <1>5, <1>6, <1>7

LEMMA PrecedesIsTransitive ==
    ASSUME NEW s \in Strings, NEW t \in Strings, NEW u \in Strings,
           Precedes(s, t), Precedes(t, u)
    PROVE  Precedes(s, u)
<1>1. PICK n \in DOMAIN t : Smaller(s, t, n)
  BY DEF Precedes, Smaller
<1>2. PICK m \in DOMAIN u : Smaller(t, u, m)
  BY DEF Precedes, Smaller
<1>3. /\ n \in 1 .. Len(t) /\ m \in 1 .. Len(u)
      /\ Len(s) \in Nat /\ Len(t) \in Nat /\ Len(u) \in Nat /\ DOMAIN u = 1 .. Len(u)
  BY StringFacts
<1>4. CASE n < m
  <2>1. t[n] = u[n] /\ n \in DOMAIN u
    BY <1>2, <1>3, <1>4 DEF Smaller
  <2>2. \A k \in 1 .. n - 1 : s[k] = u[k]
    BY <1>1, <1>2, <1>3, <1>4 DEF Smaller
  <2>3. Smaller(s, u, n)
    BY <1>1, <2>1, <2>2 DEF Smaller
  <2> QED  BY <2>1, <2>3 DEF Precedes, Smaller
<1>5. CASE m < n
  <2>1. m <= Len(s) /\ m <= Len(t) /\ s[m] = t[m]
    BY <1>1, <1>3, <1>5 DEF Smaller
  <2>2. \A k \in 1 .. m - 1 : s[k] = u[k]
    BY <1>1, <1>2, <1>3, <1>5 DEF Smaller
  <2>3. Smaller(s, u, m)
    BY <1>2, <1>3, <2>1, <2>2 DEF Smaller
  <2> QED  BY <2>3 DEF Precedes, Smaller
<1>6. CASE m = n
  <2>1. m <= Len(t) /\ \A k \in 1 .. m - 1 : s[k] = u[k]
    BY <1>1, <1>2, <1>3, <1>6 DEF Smaller
  <2>2. m <= Len(s) => ByteOf(s[m]) < ByteOf(u[m])
    <3>1. SUFFICES ASSUME m <= Len(s) PROVE ByteOf(s[m]) < ByteOf(u[m])
      OBVIOUS
    <3>2. ByteOf(s[m]) < ByteOf(t[m]) /\ ByteOf(t[m]) < ByteOf(u[m])
      BY <1>1, <1>2, <1>6, <2>1, <3>1 DEF Smaller
    <3>3. ByteOf(s[m]) \in Int /\ ByteOf(t[m]) \in Int /\ ByteOf(u[m]) \in Int
      BY <1>3, <2>1, <3>1, StringFacts
    <3> QED  BY <3>2, <3>3
  <2>3. Smaller(s, u, m)
    BY <1>1, <1>2, <1>3, <1>6, <2>1, <2>2 DEF Smaller
  <2> QED  BY <2>3 DEF Precedes, Smaller
<1> QED  BY <1>3, <1>4, <1>5, <1>6

LEMMA PrecedesIsTotal ==
    ASSUME NEW s \in Strings, NEW t \in Strings, s # t
    PROVE  Precedes(s, t) \/ Precedes(t, s)
<1>1. /\ Len(s) \in Nat /\ Len(t) \in Nat
      /\ DOMAIN s = 1 .. Len(s) /\ DOMAIN t = 1 .. Len(t)
  BY StringFacts
<1> DEFINE T == {n \in Nat \ {0} : n > Len(s) \/ n > Len(t) \/ s[n] # t[n]}
<1>2. Len(s) + 1 \in T
  BY <1>1
<1>3. PICK n \in T : \A m \in T : n <= m
  <2>1. T \in SUBSET Nat /\ T # {}
    BY <1>2
  <2> QED  BY <2>1, Least
<1>4. n \in Nat /\ n > 0 /\ (n > Len(s) \/ n > Len(t) \/ s[n] # t[n])
  OBVIOUS
<1>5. \A m \in 1 .. n - 1 : m \notin T /\ m <= Len(s) /\ m <= Len(t) /\ s[m] = t[m]
  <2> TAKE m \in 1 .. n - 1
  <2>1. m \in Nat /\ m > 0 /\ ~(n <= m)
    BY <1>4
  <2>2. m \notin T
    BY <1>3, <2>1
  <2> QED  BY <1>1, <2>1, <2>2
<1>6. n <= Len(s) + 1 /\ n <= Len(t) + 1
  <2>1. n = 1 \/ (n - 1 <= Len(s) /\ n - 1 <= Len(t))
    BY <1>4, <1>5
  <2> QED  BY <1>1, <1>4, <2>1
<1> HIDE DEF T
<1>7. ~(n > Len(s) /\ n > Len(t))
  <2>1. SUFFICES ASSUME n > Len(s), n > Len(t) PROVE FALSE
    OBVIOUS
  <2>2. Len(s) = n - 1 /\ Len(t) = n - 1
    BY <1>1, <1>4, <1>6, <2>1
  <2>3. \A i \in 1 .. Len(s) : s[i] = t[i]
    BY <1>5, <2>2
  <2> QED  BY <2>2, <2>3, SeqEqual DEF Strings
<1>8. CASE n > Len(s)
  <2>1. Smaller(s, t, n) /\ n \in DOMAIN t
    BY <1>1, <1>4, <1>5, <1>6, <1>7, <1>8 DEF Smaller
  <2> QED  BY <2>1 DEF Precedes, Smaller
<1>9. CASE n > Len(t)
  <2>1. Smaller(t, s, n) /\ n \in DOMAIN s
    BY <1>1, <1>4, <1>5, <1>6, <1>7, <1>9 DEF Smaller
  <2> QED  BY <2>1 DEF Precedes, Smaller
<1>10. CASE n <= Len(s) /\ n <= Len(t)
  <2>1. n \in DOMAIN s /\ n \in DOMAIN t /\ s[n] # t[n]
    BY <1>1, <1>4, <1>10
  <2>2. ByteOf(s[n]) \in Int /\ ByteOf(t[n]) \in Int /\ ByteOf(s[n]) # ByteOf(t[n])
    <3>1. s[n] \in Range(Bytes) /\ t[n] \in Range(Bytes)
      BY <1>1, <2>1, StringFacts
    <3> QED  BY <2>1, <3>1, ByteOfIsInjective
  <2>3. CASE ByteOf(s[n]) < ByteOf(t[n])
    <3>1. Smaller(s, t, n)
      BY <1>5, <1>6, <2>1, <2>3 DEF Smaller
    <3> QED  BY <2>1, <3>1 DEF Precedes, Smaller
  <2>4. CASE ByteOf(t[n]) < ByteOf(s[n])
    <3>1. Smaller(t, s, n)
      BY <1>5, <1>6, <2>1, <2>4 DEF Smaller
    <3> QED  BY <2>1, <3>1 DEF Precedes, Smaller
  <2> QED  BY <2>2, <2>3, <2>4
<1> QED  BY <1>1, <1>4, <1>8, <1>9, <1>10

\* The strings of S, each once, in the order of Precedes.
Enumerates(keys, n, S) ==
    /\ keys \in [1 .. n -> S]
    /\ \A k \in S : \E i \in 1 .. n : keys[i] = k
    /\ \A i, j \in 1 .. n : i < j => Precedes(keys[i], keys[j])

LEMMA EnumerationExists ==
    ASSUME NEW S \in SUBSET Strings, IsFiniteSet(S)
    PROVE  \E n \in Nat : \E keys : Enumerates(keys, n, S)
<1> DEFINE Can(U) == \E n \in Nat : \E keys : Enumerates(keys, n, U)
           T == {n \in Nat : \E U \in SUBSET Strings :
                    IsFiniteSet(U) /\ Cardinality(U) = n /\ ~Can(U)}
<1>1. SUFFICES ASSUME T # {} PROVE FALSE
  BY FS_CardinalityType
<1>2. PICK c \in T : \A m \in T : c <= m
  <2>1. T \in SUBSET Nat
    OBVIOUS
  <2> QED  BY <1>1, <2>1, Least
<1>3. PICK U \in SUBSET Strings : IsFiniteSet(U) /\ Cardinality(U) = c /\ ~Can(U)
  BY <1>2
<1>4. U # {}
  <2>1. SUFFICES ASSUME U = {} PROVE FALSE
    OBVIOUS
  <2>2. Enumerates(<<>>, 0, {})
    <3>1. <<>> \in [1 .. 0 -> {}]
      OBVIOUS
    <3>2. 1 .. 0 = {}
      OBVIOUS
    <3> QED  BY <3>1, <3>2 DEF Enumerates
  <2> QED  BY <1>3, <2>1, <2>2
<1>5. PICK x \in U : TRUE
  BY <1>4
<1> DEFINE L == {k \in U : Precedes(k, x)}
           M == {k \in U : Precedes(x, k)}
<1>6. ASSUME NEW V \in SUBSET U, x \notin V
      PROVE  Can(V)
  <2>1. IsFiniteSet(V) /\ Cardinality(V) <= c /\ (c = Cardinality(V) => U = V)
    BY <1>3, FS_Subset
  <2>2. U # V
    BY <1>6
  <2>3. Cardinality(V) \in Nat /\ c \in Nat
    BY <2>1, FS_CardinalityType
  <2>4. Cardinality(V) \notin T
    <3>1. ~(c <= Cardinality(V))
      BY <2>1, <2>2, <2>3
    <3> HIDE DEF T
    <3> QED  BY <1>2, <3>1
  <2>5. V \in SUBSET Strings
    OBVIOUS
  <2> HIDE DEF Can
  <2> QED  BY <2>1, <2>3, <2>4, <2>5
<1>7. x \in Strings /\ ~Precedes(x, x) /\ L \in SUBSET U /\ M \in SUBSET U
  BY PrecedesIsAsymmetric
<1>8. PICK l \in Nat : \E lower : Enumerates(lower, l, L)
  <2>1. Can(L)
    BY <1>6, <1>7
  <2> QED  BY <2>1
<1>8a. PICK lower : Enumerates(lower, l, L)
  BY <1>8
<1>9. PICK m \in Nat : \E upper : Enumerates(upper, m, M)
  <2>1. Can(M)
    BY <1>6, <1>7
  <2> QED  BY <2>1
<1>9a. PICK upper : Enumerates(upper, m, M)
  BY <1>9
<1> HIDE DEF Can, T
<1> DEFINE n == l + 1 + m
           keys == [i \in 1 .. n |-> IF i <= l THEN lower[i]
                                     ELSE IF i = l + 1 THEN x ELSE upper[i - (l + 1)]]
<1>10. n \in Nat
  OBVIOUS
<1>11. /\ \A i \in 1 .. l : i \in 1 .. n /\ keys[i] = lower[i] /\ lower[i] \in L
       /\ l + 1 \in 1 .. n /\ keys[l + 1] = x
       /\ \A i \in 1 .. m : /\ l + 1 + i \in 1 .. n /\ keys[l + 1 + i] = upper[i]
                            /\ upper[i] \in M
  <2>1. \A i \in 1 .. l : i \in 1 .. n /\ keys[i] = lower[i]
    OBVIOUS
  <2>2. \A i \in 1 .. m : /\ l + 1 + i \in 1 .. n /\ keys[l + 1 + i] = upper[i]
    OBVIOUS
  <2>3. l + 1 \in 1 .. n /\ keys[l + 1] = x
    OBVIOUS
  <2>4. \A i \in 1 .. l : lower[i] \in L
    BY <1>8a DEF Enumerates
  <2>5. \A i \in 1 .. m : upper[i] \in M
    BY <1>9a DEF Enumerates
  <2> HIDE DEF n, keys, L, M
  <2> QED  BY <2>1, <2>2, <2>3, <2>4, <2>5
<1>12. ASSUME NEW i \in 1 .. n
       PROVE  \/ i \in 1 .. l
              \/ i = l + 1
              \/ i - (l + 1) \in 1 .. m /\ i = l + 1 + (i - (l + 1))
  OBVIOUS
<1>13. keys \in [1 .. n -> U]
  <2>1. \A i \in 1 .. n : keys[i] \in U
    <3> TAKE i \in 1 .. n
    <3>1. CASE i \in 1 .. l
      BY <1>11, <3>1
    <3>2. CASE i = l + 1
      BY <1>11, <3>2
    <3>3. CASE i - (l + 1) \in 1 .. m /\ i = l + 1 + (i - (l + 1))
      <4>1. keys[i] = upper[i - (l + 1)] /\ upper[i - (l + 1)] \in M
        BY <1>11, <3>3
      <4> QED  BY <4>1
    <3> HIDE DEF n, keys
    <3> QED  BY <1>12, <3>1, <3>2, <3>3
  <2>2. keys = [i \in 1 .. n |-> keys[i]]
    OBVIOUS
  <2> HIDE DEF keys, n
  <2> QED  BY <2>1, <2>2
<1>14. \A k \in U : \E i \in 1 .. n : keys[i] = k
  <2> TAKE k \in U
  <2> HIDE DEF n, keys
  <2>1. CASE k = x
    BY <1>11, <2>1
  <2>2. CASE Precedes(k, x)
    <3>1. PICK i \in 1 .. l : lower[i] = k
      BY <1>8a, <2>2 DEF Enumerates
    <3> QED  BY <1>11, <3>1
  <2>3. CASE Precedes(x, k)
    <3>1. PICK i \in 1 .. m : upper[i] = k
      BY <1>9a, <2>3 DEF Enumerates
    <3>2. keys[l + 1 + i] = k /\ l + 1 + i \in 1 .. n
      BY <1>11, <3>1
    <3> QED  BY <3>2
  <2>4. k \in Strings
    OBVIOUS
  <2> QED  BY <1>7, <2>1, <2>2, <2>3, <2>4, PrecedesIsTotal
<1>15. \A i, j \in 1 .. n : i < j => Precedes(keys[i], keys[j])
  <2> SUFFICES ASSUME NEW i \in 1 .. n, NEW j \in 1 .. n, i < j
               PROVE  Precedes(keys[i], keys[j])
    OBVIOUS
  <2>1. i \in Int /\ j \in Int
    OBVIOUS
  <2>2. /\ \/ i \in 1 .. l
           \/ i = l + 1
           \/ i - (l + 1) \in 1 .. m /\ i = l + 1 + (i - (l + 1))
        /\ \/ j \in 1 .. l
           \/ j = l + 1
           \/ j - (l + 1) \in 1 .. m /\ j = l + 1 + (j - (l + 1))
    BY <1>12
  <2> HIDE DEF n, keys
  <2>3. \A a \in L : \A b \in M : Precedes(a, x) /\ Precedes(x, b) /\ Precedes(a, b)
    <3> TAKE a \in L
    <3> TAKE b \in M
    <3>1. a \in Strings /\ b \in Strings /\ Precedes(a, x) /\ Precedes(x, b)
      OBVIOUS
    <3> QED  BY <1>7, <3>1, PrecedesIsTransitive
  <2> HIDE DEF L, M
  <2>4. CASE i \in 1 .. l /\ j \in 1 .. l
    <3>1. keys[i] = lower[i] /\ keys[j] = lower[j]
      BY <1>11, <2>4
    <3> QED  BY <1>8a, <2>4, <3>1 DEF Enumerates
  <2>5. CASE i \in 1 .. l /\ j = l + 1
    <3>1. Precedes(lower[i], x)
      <4>1. \A a \in L : Precedes(a, x)
        BY DEF L
      <4> QED  BY <1>11, <2>5, <4>1
    <3> QED  BY <1>11, <2>5, <3>1
  <2>6. CASE i \in 1 .. l /\ j - (l + 1) \in 1 .. m /\ j = l + 1 + (j - (l + 1))
    <3>1. keys[i] = lower[i] /\ lower[i] \in L
      BY <1>11, <2>6
    <3>2. keys[j] = upper[j - (l + 1)] /\ upper[j - (l + 1)] \in M
      BY <1>11, <2>6
    <3> QED  BY <2>3, <3>1, <3>2
  <2>7. CASE i = l + 1 /\ j - (l + 1) \in 1 .. m /\ j = l + 1 + (j - (l + 1))
    <3>1. keys[i] = x
      BY <1>11, <2>7
    <3>2. keys[j] = upper[j - (l + 1)] /\ upper[j - (l + 1)] \in M
      BY <1>11, <2>7
    <3>3. \A b \in M : Precedes(x, b)
      BY DEF M
    <3> QED  BY <3>1, <3>2, <3>3
  <2>8. CASE /\ i - (l + 1) \in 1 .. m /\ i = l + 1 + (i - (l + 1))
             /\ j - (l + 1) \in 1 .. m /\ j = l + 1 + (j - (l + 1))
    <3>1. keys[i] = upper[i - (l + 1)] /\ keys[j] = upper[j - (l + 1)]
      BY <1>11, <2>8
    <3>2. i - (l + 1) < j - (l + 1)
      BY <2>1
    <3> QED  BY <1>9a, <2>8, <3>1, <3>2 DEF Enumerates
  <2>9. ~(i = l + 1 /\ j \in 1 .. l) /\ ~(i = l + 1 /\ j = l + 1)
    BY <2>1
  <2>10. ~(i - (l + 1) \in 1 .. m /\ j \in 1 .. l) /\ ~(i - (l + 1) \in 1 .. m /\ j = l + 1)
    BY <2>1
  <2> QED  BY <2>2, <2>4, <2>5, <2>6, <2>7, <2>8, <2>9, <2>10
<1>16. Enumerates(keys, n, U)
  <2> HIDE DEF n, keys
  <2> QED  BY <1>13, <1>14, <1>15 DEF Enumerates
<1>17. Can(U)
  <2> HIDE DEF n, keys
  <2> QED  BY <1>10, <1>16 DEF Can
<1> QED  BY <1>3, <1>17

\* What SetToSeqs makes of the keys of a map: each of them is there.
LEMMA KeysFacts ==
    ASSUME NEW S, IsFiniteSet(S), NEW keys \in SetToSeqs(S)
    PROVE  /\ Cardinality(S) \in Nat /\ DOMAIN keys = 1 .. Cardinality(S)
           /\ keys \in [1 .. Cardinality(S) -> S] /\ keys \in Seq(S)
           /\ Len(keys) = Cardinality(S)
           /\ \A k \in S : \E i \in DOMAIN keys : keys[i] = k
           /\ \A i, j \in DOMAIN keys : i # j => keys[i] # keys[j]
<1> DEFINE n == Cardinality(S)
<1>1. n \in Nat
  BY FS_CardinalityType
<1>2. keys \in [1 .. n -> S] /\ \A i, j \in 1 .. n : i # j => keys[i] # keys[j]
  BY DEF SetToSeqs
<1>3. keys \in Injection(1 .. n, S)
  BY <1>2, Fun_IsInj
<1>4. IsFiniteSet(1 .. n) /\ Cardinality(1 .. n) = n
  <2>1. 1 \in Int /\ n \in Int /\ (1 > n => n = 0)
    BY <1>1
  <2> QED  BY <1>1, <2>1, FS_Interval
<1>5. keys \in Surjection(1 .. n, S)
  BY <1>3, <1>4, FS_Injection
<1>6. \A k \in S : \E i \in 1 .. n : keys[i] = k
  <2> HIDE DEF n
  <2> QED  BY <1>5 DEF Surjection
<1>7. DOMAIN keys = 1 .. n /\ keys \in Seq(S) /\ Len(keys) = n
  BY <1>1, <1>2
<1> QED  BY <1>1, <1>2, <1>6, <1>7

LEMMA SortedKeysExist ==
    ASSUME NEW S \in SUBSET Strings, IsFiniteSet(S)
    PROVE  \E keys \in SetToSeqs(S) : Sorted(keys)
<1>0. PICK n \in Nat : \E keys : Enumerates(keys, n, S)
  BY EnumerationExists
<1>1. PICK keys : Enumerates(keys, n, S)
  BY <1>0
<1>2. \A i, j \in 1 .. n : i # j => keys[i] # keys[j]
  <2> SUFFICES ASSUME NEW i \in 1 .. n, NEW j \in 1 .. n, i # j PROVE keys[i] # keys[j]
    OBVIOUS
  <2>1. i < j \/ j < i
    OBVIOUS
  <2>2. Precedes(keys[i], keys[j]) \/ Precedes(keys[j], keys[i])
    BY <1>1, <2>1 DEF Enumerates
  <2>3. keys[i] \in Strings /\ keys[j] \in Strings
    BY <1>1 DEF Enumerates
  <2> QED  BY <2>2, <2>3, PrecedesIsAsymmetric
<1>3. n = Cardinality(S)
  <2>1. keys \in Bijection(1 .. n, S)
    BY <1>1, <1>2, Fun_IsBij DEF Enumerates
  <2>2. ExistsBijection(1 .. n, S)
    BY <2>1, Fun_ExistsBij
  <2> QED  BY <2>2, FS_CountingElements
<1>4. keys \in SetToSeqs(S)
  BY <1>1, <1>2, <1>3 DEF Enumerates, SetToSeqs
<1>5. Sorted(keys)
  <2>1. DOMAIN keys = 1 .. n
    BY <1>1 DEF Enumerates
  <2>2. \A i \in 1 .. n : \A m \in 1 .. i - 1 : m \in 1 .. n /\ m < i
    OBVIOUS
  <2> QED  BY <1>1, <2>1, <2>2 DEF Sorted, Enumerates
<1> QED  BY <1>4, <1>5

LEMMA SortedKeysAreUnique ==
    ASSUME NEW S \in SUBSET Strings, IsFiniteSet(S),
           NEW a \in SetToSeqs(S), NEW b \in SetToSeqs(S), Sorted(a), Sorted(b)
    PROVE  a = b
<1> DEFINE n == Cardinality(S)
           T == {i \in 1 .. n : a[i] # b[i]}
<1>1. /\ n \in Nat /\ a \in [1 .. n -> S] /\ b \in [1 .. n -> S]
      /\ \A k \in S : (\E i \in 1 .. n : a[i] = k) /\ \E i \in 1 .. n : b[i] = k
      /\ \A i, j \in 1 .. n : i # j => a[i] # a[j] /\ b[i] # b[j]
      /\ DOMAIN a = 1 .. n /\ DOMAIN b = 1 .. n
  <2>1. ASSUME NEW c \in SetToSeqs(S)
        PROVE  /\ n \in Nat /\ c \in [1 .. n -> S] /\ DOMAIN c = 1 .. n
               /\ \A k \in S : \E i \in 1 .. n : c[i] = k
               /\ \A i, j \in 1 .. n : i # j => c[i] # c[j]
    <3>1. /\ Cardinality(S) \in Nat /\ DOMAIN c = 1 .. Cardinality(S)
          /\ c \in [1 .. Cardinality(S) -> S]
          /\ \A k \in S : \E i \in DOMAIN c : c[i] = k
          /\ \A i, j \in DOMAIN c : i # j => c[i] # c[j]
      BY KeysFacts
    <3> QED  BY <3>1
  <2> HIDE DEF n
  <2> QED  BY <2>1
<1>2. SUFFICES ASSUME T # {} PROVE FALSE
  BY <1>1
<1>3. PICK i \in T : \A m \in T : i <= m
  <2>1. T \in SUBSET Nat
    OBVIOUS
  <2> QED  BY <1>2, <2>1, Least
<1>4. i \in 1 .. n /\ a[i] # b[i] /\ \A m \in 1 .. i - 1 : m \in 1 .. n /\ a[m] = b[m]
  <2>1. i \in 1 .. n /\ a[i] # b[i]
    OBVIOUS
  <2>2. \A m \in 1 .. i - 1 : m \in 1 .. n /\ ~(i <= m)
    BY <1>1, <2>1
  <2> QED  BY <1>3, <2>1, <2>2
<1> HIDE DEF T, n
<1>5. PICK j \in 1 .. n : b[j] = a[i]
  BY <1>1, <1>4
<1>6. PICK k \in 1 .. n : a[k] = b[i]
  BY <1>1, <1>4
<1>7. i < j /\ i < k
  <2>1. j # i /\ k # i
    BY <1>4, <1>5, <1>6
  <2>2. ~(j \in 1 .. i - 1) /\ ~(k \in 1 .. i - 1)
    <3>1. j \in 1 .. i - 1 => a[j] = a[i]
      BY <1>4, <1>5
    <3>2. k \in 1 .. i - 1 => b[k] = b[i]
      BY <1>4, <1>6
    <3> QED  BY <1>1, <1>4, <2>1, <3>1, <3>2
  <2> QED  BY <1>1, <1>4, <2>1, <2>2
<1>8. i \in 1 .. j - 1 /\ i \in 1 .. k - 1
  BY <1>1, <1>4, <1>7
<1>9. Precedes(b[i], b[j]) /\ Precedes(a[i], a[k])
  BY <1>1, <1>8 DEF Sorted
<1>10. a[i] \in Strings /\ b[i] \in Strings
  BY <1>1, <1>4
<1> QED  BY <1>5, <1>6, <1>9, <1>10, PrecedesIsAsymmetric

-----------------------------------------------------------------------------
(***************************************************************************)
(* What Encode is to return for a value: its bytes, <<>> in the place of   *)
(* what is refused.                                                        *)
(***************************************************************************)
Comma(texts) ==
    [n \in DOMAIN texts |-> IF n = 1 THEN texts[n] ELSE <<"COMMA">> \o texts[n]]
Between(open, texts, close) == <<open>> \o (FlattenSeq(Comma(texts)) \o <<close>>)

SortedKeys(v) == CHOOSE keys \in SetToSeqs(DOMAIN v.of) : Sorted(keys)
Member(key, text) == Quoted(key) \o (<<"COLON">> \o text)

ItemTexts(v, f) == [n \in DOMAIN v.of |-> f[Item(v, n)]]
MemberTexts(v, f) ==
    [n \in DOMAIN SortedKeys(v) |-> Member(SortedKeys(v)[n], f[Item(v, SortedKeys(v)[n])])]

EncodingOf(v, f) ==
    IF v.kind \in Arrays THEN Between("LBRACKET", ItemTexts(v, f), "RBRACKET")
    ELSE IF v.kind \in Objects THEN Between("LBRACE", MemberTexts(v, f), "RBRACE")
    ELSE IF Foreign(v) THEN <<>> ELSE Scalar(v)

encoding[v \in Values] == EncodingOf(v, encoding)

\* meaning and parts, as functions of what they are for the items.
MeaningOf(v, f) ==
    CASE v.kind \in Numbers -> [number |-> v.of]
      [] v.kind \in Arrays -> [array |-> [n \in DOMAIN v.of |-> f[Item(v, n)]]]
      [] v.kind \in Objects -> [object |-> [key \in DOMAIN v.of |-> f[Item(v, key)]]]
      [] v.kind = "string" -> [string |-> v.of]
      [] v.kind = "bool" -> [bool |-> v.of]
      [] OTHER -> [other |-> v.kind]
PartsOf(v, f) == {v} \union UNION {f[u] : u \in Items(v)}

LEMMA SortedKeysFacts ==
    ASSUME NEW v \in Values, v.kind \in Objects
    PROVE  /\ SortedKeys(v) \in SetToSeqs(DOMAIN v.of) /\ Sorted(SortedKeys(v))
           /\ SortedKeys(v) \in Seq(DOMAIN v.of)
           /\ \A n \in DOMAIN SortedKeys(v) : SortedKeys(v)[n] \in DOMAIN v.of
           /\ \A k \in DOMAIN v.of : \E n \in DOMAIN SortedKeys(v) : SortedKeys(v)[n] = k
           /\ \A keys \in SetToSeqs(DOMAIN v.of) : Sorted(keys) => keys = SortedKeys(v)
<1>1. IsFiniteSet(DOMAIN v.of) /\ DOMAIN v.of \in SUBSET Strings
  BY ValuesAssumption
<1>2. SortedKeys(v) \in SetToSeqs(DOMAIN v.of) /\ Sorted(SortedKeys(v))
  BY <1>1, SortedKeysExist DEF SortedKeys
<1> DEFINE S == DOMAIN v.of
           keys == SortedKeys(v)
<1>3. IsFiniteSet(S) /\ S \in SUBSET Strings /\ keys \in SetToSeqs(S) /\ Sorted(keys)
  BY <1>1, <1>2
<1> SUFFICES /\ keys \in Seq(S)
             /\ \A n \in DOMAIN keys : keys[n] \in S
             /\ \A k \in S : \E n \in DOMAIN keys : keys[n] = k
             /\ \A others \in SetToSeqs(S) : Sorted(others) => others = keys
  BY <1>2
<1> HIDE DEF S, keys
<1>4. /\ Cardinality(S) \in Nat /\ DOMAIN keys = 1 .. Cardinality(S)
      /\ keys \in [1 .. Cardinality(S) -> S] /\ keys \in Seq(S)
      /\ \A k \in S : \E n \in DOMAIN keys : keys[n] = k
  BY <1>3, KeysFacts
<1>5. \A others \in SetToSeqs(S) : Sorted(others) => others = keys
  BY <1>3, SortedKeysAreUnique
<1> QED  BY <1>4, <1>5

\* What is written for a value depends on that of its items alone.
LEMMA ItemsDecide ==
    ASSUME NEW v \in Values, NEW f, NEW g, \A u \in Items(v) : f[u] = g[u]
    PROVE  /\ EncodingOf(v, f) = EncodingOf(v, g)
           /\ MeaningOf(v, f) = MeaningOf(v, g)
           /\ PartsOf(v, f) = PartsOf(v, g)
<1>1. v.kind \in Arrays \union Objects => \A n \in DOMAIN v.of : f[Item(v, n)] = g[Item(v, n)]
  BY DEF Items
<1>2. v.kind \in Arrays => ItemTexts(v, f) = ItemTexts(v, g)
  BY <1>1 DEF ItemTexts
<1>3. v.kind \in Objects => MemberTexts(v, f) = MemberTexts(v, g)
  <2>1. SUFFICES ASSUME v.kind \in Objects PROVE MemberTexts(v, f) = MemberTexts(v, g)
    OBVIOUS
  <2>2. \A n \in DOMAIN SortedKeys(v) :
           f[Item(v, SortedKeys(v)[n])] = g[Item(v, SortedKeys(v)[n])]
    BY <1>1, <2>1, SortedKeysFacts
  <2> QED  BY <2>2 DEF MemberTexts
<1>4. EncodingOf(v, f) = EncodingOf(v, g)
  BY <1>2, <1>3, Zenon DEF EncodingOf
<1>5. MeaningOf(v, f) = MeaningOf(v, g)
  <2>1. v.kind \in Arrays =>
           [n \in DOMAIN v.of |-> f[Item(v, n)]] = [n \in DOMAIN v.of |-> g[Item(v, n)]]
    BY <1>1
  <2>2. v.kind \in Objects =>
           [key \in DOMAIN v.of |-> f[Item(v, key)]] = [key \in DOMAIN v.of |-> g[Item(v, key)]]
    BY <1>1
  <2>3. CASE v.kind \in Numbers
    BY <2>3 DEF MeaningOf, Numbers, Arrays, Objects
  <2>4. CASE v.kind \in Arrays
    BY <2>1, <2>4 DEF MeaningOf, Numbers, Arrays, Objects
  <2>5. CASE v.kind \in Objects
    BY <2>2, <2>5 DEF MeaningOf, Numbers, Arrays, Objects
  <2>6. CASE v.kind \notin Numbers \union Arrays \union Objects
    BY <2>6 DEF MeaningOf, Numbers, Arrays, Objects
  <2> QED  BY <2>3, <2>4, <2>5, <2>6
<1>6. PartsOf(v, f) = PartsOf(v, g)
  BY DEF PartsOf
<1> QED  BY <1>4, <1>5, <1>6

(***************************************************************************)
(* The three functions exist for the values of less than any depth, they   *)
(* are the same for all of them, and so they exist for all values.         *)
(***************************************************************************)
Below(d) == {v \in Values : Depth[v] < d}
Defines(D, e, m, p) ==
    /\ e = [v \in D |-> EncodingOf(v, e)]
    /\ m = [v \in D |-> MeaningOf(v, m)]
    /\ p = [v \in D |-> PartsOf(v, p)]

LEMMA ItemsAreBelow ==
    ASSUME NEW v \in Values, NEW u \in Items(v)
    PROVE  /\ u \in Values /\ Depth[u] < Depth[v] /\ Depth[u] \in Nat /\ Depth[v] \in Nat
           /\ \A d \in Nat : v \in Below(d + 1) => u \in Below(d)
           /\ \A d \in Nat : v \in Below(d) => u \in Below(d)
<1>1. u \in Values /\ Depth[u] < Depth[v] /\ Depth[u] \in Nat /\ Depth[v] \in Nat
  BY ValuesAssumption
<1> QED  BY <1>1 DEF Below

LEMMA DefinedBelow ==
    ASSUME NEW d \in Nat
    PROVE  \E e, m, p : Defines(Below(d), e, m, p)
<1> DEFINE T == {k \in Nat : ~ \E e, m, p : Defines(Below(k), e, m, p)}
<1>1. SUFFICES ASSUME T # {} PROVE FALSE
  OBVIOUS
<1>2. PICK k \in T : \A j \in T : k <= j
  <2>1. T \in SUBSET Nat
    OBVIOUS
  <2> QED  BY <1>1, <2>1, Least
<1>3. k # 0
  <2> DEFINE z == [v \in {} |-> v]
  <2>1. Below(0) = {}
    BY ValuesAssumption DEF Below
  <2>2. Defines({}, z, z, z)
    BY DEF Defines
  <2> QED  BY <1>2, <2>1, <2>2
<1>4. k - 1 \in Nat /\ k - 1 \notin T /\ k \in Nat /\ k = (k - 1) + 1
  BY <1>2, <1>3
<1>5. PICK e, m, p : Defines(Below(k - 1), e, m, p)
  BY <1>4
<1> DEFINE a == [v \in Below(k) |-> EncodingOf(v, e)]
           b == [v \in Below(k) |-> MeaningOf(v, m)]
           c == [v \in Below(k) |-> PartsOf(v, p)]
<1>6. \A v \in Below(k - 1) : v \in Below(k) /\ a[v] = e[v] /\ b[v] = m[v] /\ c[v] = p[v]
  <2> TAKE v \in Below(k - 1)
  <2>1. v \in Below(k)
    BY <1>4, ValuesAssumption DEF Below
  <2>2. e[v] = EncodingOf(v, e) /\ m[v] = MeaningOf(v, m) /\ p[v] = PartsOf(v, p)
    BY <1>5 DEF Defines
  <2> QED  BY <2>1, <2>2
<1>7. ASSUME NEW v \in Below(k)
      PROVE  /\ EncodingOf(v, e) = EncodingOf(v, a)
             /\ MeaningOf(v, m) = MeaningOf(v, b)
             /\ PartsOf(v, p) = PartsOf(v, c)
  <2>1. v \in Values
    BY DEF Below
  <2>2. \A u \in Items(v) : u \in Below(k - 1)
    BY <1>4, <2>1, ItemsAreBelow
  <2> HIDE DEF a, b, c
  <2>3. \A u \in Items(v) : e[u] = a[u] /\ m[u] = b[u] /\ p[u] = c[u]
    BY <1>6, <2>2
  <2> QED  BY <2>1, <2>3, ItemsDecide
<1>8. Defines(Below(k), a, b, c)
  <2>1. a = [v \in Below(k) |-> EncodingOf(v, a)]
    BY <1>7
  <2>2. b = [v \in Below(k) |-> MeaningOf(v, b)]
    BY <1>7
  <2>3. c = [v \in Below(k) |-> PartsOf(v, c)]
    BY <1>7
  <2> HIDE DEF a, b, c
  <2> QED  BY <2>1, <2>2, <2>3 DEF Defines
<1> QED  BY <1>2, <1>8

LEMMA DefinedAlike ==
    ASSUME NEW d \in Nat, NEW k \in Nat, d <= k, NEW e, NEW m, NEW p, NEW a, NEW b, NEW c,
           Defines(Below(d), e, m, p), Defines(Below(k), a, b, c)
    PROVE  \A v \in Below(d) : e[v] = a[v] /\ m[v] = b[v] /\ p[v] = c[v]
<1> DEFINE Alike(v) == e[v] = a[v] /\ m[v] = b[v] /\ p[v] = c[v]
           T == {n \in Nat : \E v \in Below(d) : Depth[v] = n /\ ~Alike(v)}
<1>1. SUFFICES ASSUME T # {} PROVE FALSE
  BY ValuesAssumption DEF Below
<1>2. PICK n \in T : \A j \in T : n <= j
  <2>1. T \in SUBSET Nat
    OBVIOUS
  <2> QED  BY <1>1, <2>1, Least
<1>3. PICK v \in Below(d) : Depth[v] = n /\ ~Alike(v)
  BY <1>2
<1>4. v \in Values /\ v \in Below(k) /\ n \in Nat
  BY <1>2, ValuesAssumption DEF Below
<1>5. \A u \in Items(v) : u \in Below(d) /\ Depth[u] \in Nat /\ ~(n <= Depth[u])
  BY <1>3, <1>4, ItemsAreBelow
<1>6. \A u \in Items(v) : Alike(u)
  BY <1>2, <1>5
<1> HIDE DEF T
<1>7. /\ e[v] = EncodingOf(v, e) /\ a[v] = EncodingOf(v, a)
      /\ m[v] = MeaningOf(v, m) /\ b[v] = MeaningOf(v, b)
      /\ p[v] = PartsOf(v, p) /\ c[v] = PartsOf(v, c)
  BY <1>4 DEF Defines
<1> QED  BY <1>3, <1>4, <1>6, <1>7, ItemsDecide

LEMMA DefinedForAll == \E e, m, p : Defines(Values, e, m, p)
<1> DEFINE F(d) == CHOOSE t : Defines(Below(d), t[1], t[2], t[3])
<1>1. ASSUME NEW d \in Nat
      PROVE  Defines(Below(d), F(d)[1], F(d)[2], F(d)[3])
  <2>1. PICK e, m, p : Defines(Below(d), e, m, p)
    BY DefinedBelow
  <2>2. Defines(Below(d), <<e, m, p>>[1], <<e, m, p>>[2], <<e, m, p>>[3])
    BY <2>1
  <2>3. \E t : Defines(Below(d), t[1], t[2], t[3])
    BY <2>2
  <2> QED  BY <2>3
<1> HIDE DEF F
<1> DEFINE e == [v \in Values |-> F(Depth[v] + 1)[1][v]]
           m == [v \in Values |-> F(Depth[v] + 1)[2][v]]
           p == [v \in Values |-> F(Depth[v] + 1)[3][v]]
<1>2. ASSUME NEW d \in Nat, NEW v \in Below(d)
      PROVE  e[v] = F(d)[1][v] /\ m[v] = F(d)[2][v] /\ p[v] = F(d)[3][v]
  <2>1. /\ v \in Values /\ Depth[v] + 1 \in Nat /\ Depth[v] + 1 <= d
        /\ v \in Below(Depth[v] + 1)
    BY ValuesAssumption DEF Below
  <2>2. /\ Defines(Below(d), F(d)[1], F(d)[2], F(d)[3])
        /\ Defines(Below(Depth[v] + 1), F(Depth[v] + 1)[1], F(Depth[v] + 1)[2], F(Depth[v] + 1)[3])
    BY <1>1, <2>1
  <2>3. /\ F(Depth[v] + 1)[1][v] = F(d)[1][v]
        /\ F(Depth[v] + 1)[2][v] = F(d)[2][v]
        /\ F(Depth[v] + 1)[3][v] = F(d)[3][v]
    BY <2>1, <2>2, DefinedAlike
  <2> QED  BY <2>1, <2>3
<1>3. ASSUME NEW v \in Values
      PROVE  /\ e[v] = EncodingOf(v, e)
             /\ m[v] = MeaningOf(v, m)
             /\ p[v] = PartsOf(v, p)
  <2> DEFINE d == Depth[v] + 1
  <2>1. d \in Nat /\ v \in Below(d)
    BY ValuesAssumption DEF Below
  <2>2. \A u \in Items(v) : u \in Below(d)
    BY <2>1, ItemsAreBelow
  <2>3. Defines(Below(d), F(d)[1], F(d)[2], F(d)[3])
    BY <1>1, <2>1
  <2> HIDE DEF d, e, m, p
  <2>4. /\ e[v] = EncodingOf(v, F(d)[1])
        /\ m[v] = MeaningOf(v, F(d)[2])
        /\ p[v] = PartsOf(v, F(d)[3])
    <3>1. e[v] = F(d)[1][v] /\ m[v] = F(d)[2][v] /\ p[v] = F(d)[3][v]
      BY <1>2, <2>1
    <3> QED  BY <2>1, <2>3, <3>1 DEF Defines
  <2>5. \A u \in Items(v) : /\ e[u] = F(d)[1][u]
                            /\ m[u] = F(d)[2][u]
                            /\ p[u] = F(d)[3][u]
    BY <1>2, <2>1, <2>2
  <2> QED  BY <2>4, <2>5, ItemsDecide
<1>4. Defines(Values, e, m, p)
  <2>1. e = [v \in Values |-> EncodingOf(v, e)]
    BY <1>3
  <2>2. m = [v \in Values |-> MeaningOf(v, m)]
    BY <1>3
  <2>3. p = [v \in Values |-> PartsOf(v, p)]
    BY <1>3
  <2> HIDE DEF e, m, p
  <2> QED  BY <2>1, <2>2, <2>3 DEF Defines
<1> QED  BY <1>4

\* The equations of the three functions.
LEMMA Recursion ==
    \A v \in Values :
        /\ encoding[v] = EncodingOf(v, encoding)
        /\ meaning[v] = MeaningOf(v, meaning)
        /\ parts[v] = PartsOf(v, parts)
<1>1. PICK e, m, p : Defines(Values, e, m, p)
  BY DefinedForAll
<1>2. encoding = [v \in Values |-> EncodingOf(v, encoding)]
  <2>1. e = [v \in Values |-> EncodingOf(v, e)]
    BY <1>1 DEF Defines
  <2> QED  BY <2>1 DEF encoding
<1>3. meaning = [v \in Values |-> MeaningOf(v, meaning)]
  <2>1. m = [v \in Values |-> MeaningOf(v, m)]
    BY <1>1 DEF Defines
  <2> QED  BY <2>1 DEF meaning, MeaningOf
<1>4. parts = [v \in Values |-> PartsOf(v, parts)]
  <2>1. p = [v \in Values |-> PartsOf(v, p)]
    BY <1>1 DEF Defines
  <2> QED  BY <2>1 DEF parts, PartsOf
<1> QED  BY <1>2, <1>3, <1>4

-----------------------------------------------------------------------------
(***************************************************************************)
(* What each encoding begins with, and how those of arrays and objects     *)
(* go on.                                                                  *)
(***************************************************************************)
Begins(text, chars) == Len(text) \in Nat /\ Len(text) >= 1 /\ text[1] \in chars

Lead(kind) ==
    CASE kind \in Numbers -> NumberChars
      [] kind = "null" -> {"n"}
      [] kind = "bool" -> {"t", "f"}
      [] kind = "string" -> {"QUOTE"}
      [] kind \in Arrays -> {"LBRACKET"}
      [] kind \in Objects -> {"LBRACE"}
      [] OTHER -> {}

LEMMA BeginsBefore ==
    ASSUME NEW a \in Output, NEW b \in Output, NEW chars, Begins(a, chars)
    PROVE  a \o b \in Output /\ Begins(a \o b, chars)
<1>1. /\ a \o b \in Seq(Chars)
      /\ Len(a \o b) = Len(a) + Len(b)
      /\ \A i \in 1 .. Len(a) + Len(b) : i <= Len(a) => (a \o b)[i] = a[i]
  BY ConcatProperties DEF Output
<1>2. Len(a) \in Nat /\ Len(b) \in Nat /\ Len(a) >= 1
  BY LenProperties DEF Begins, Output
<1>3. 1 \in 1 .. Len(a) + Len(b) /\ 1 <= Len(a)
  BY <1>2
<1>4. (a \o b)[1] = a[1]
  BY <1>1, <1>3
<1> HIDE DEF Output
<1> QED  BY <1>1, <1>2, <1>4 DEF Begins, Output

LEMMA OneChar ==
    ASSUME NEW char \in Chars
    PROVE  <<char>> \in Output /\ Begins(<<char>>, {char})
BY DEF Output, Begins

LEMMA OutputConcat == \A a, b \in Output : a \o b \in Output
BY ConcatProperties DEF Output

LEMMA OutputLaws ==
    /\ \A a, b, c \in Output : (a \o b) \o c = a \o (b \o c)
    /\ \A a, b, c \in Output : a \o b = a \o c => b = c
    /\ \A a, b, c \in Output : b \o a = c \o a => b = c
<1>1. \A a, b, c \in Output : (a \o b) \o c = a \o (b \o c)
  BY ConcatLaws, Zenon DEF Output
<1>2. \A a, b, c \in Output : a \o b = a \o c => b = c
  BY ConcatLaws, Zenon DEF Output
<1>3. \A a, b, c \in Output : b \o a = c \o a => b = c
  BY ConcatSimplifications DEF Output
<1> QED  BY <1>1, <1>2, <1>3, Zenon

LEMMA Named ==
    {"COMMA", "COLON", "LBRACKET", "RBRACKET", "LBRACE", "RBRACE", "QUOTE"} \subseteq Chars
BY DEF Chars

LEMMA CommaType ==
    ASSUME NEW texts \in Seq(Output)
    PROVE  /\ Comma(texts) \in Seq(Output) /\ DOMAIN Comma(texts) = DOMAIN texts
           /\ FlattenSeq(Comma(texts)) \in Output
           /\ DOMAIN texts = 1 .. Len(texts) /\ Len(texts) \in Nat
           /\ \A i \in DOMAIN texts : texts[i] \in Output /\ Comma(texts)[i] \in Output
           /\ \A i \in DOMAIN texts : i = 1 => Comma(texts)[i] = texts[i]
           /\ \A i \in DOMAIN texts : i # 1 => Comma(texts)[i] = <<"COMMA">> \o texts[i]
<1>1. DOMAIN texts = 1 .. Len(texts) /\ Len(texts) \in Nat
  BY LenProperties
<1>2. \A i \in DOMAIN texts : texts[i] \in Output
  BY <1>1, ElementOfSeq
<1>3. /\ DOMAIN Comma(texts) = DOMAIN texts
      /\ \A i \in DOMAIN texts : i = 1 => Comma(texts)[i] = texts[i]
      /\ \A i \in DOMAIN texts : i # 1 => Comma(texts)[i] = <<"COMMA">> \o texts[i]
  BY DEF Comma
<1>4. <<"COMMA">> \in Output
  BY OneChar, Named
<1>5. \A i \in DOMAIN texts : Comma(texts)[i] \in Output
  BY <1>2, <1>3, <1>4, OutputConcat
<1>6. Comma(texts) \in Seq(Output)
  <2>1. Comma(texts) = [n \in 1 .. Len(texts) |-> Comma(texts)[n]]
    BY <1>1 DEF Comma
  <2> HIDE DEF Comma
  <2>2. [n \in 1 .. Len(texts) |-> Comma(texts)[n]] \in Seq(Output)
    BY <1>1, <1>5
  <2> QED  BY <2>1, <2>2
<1>7. FlattenSeq(Comma(texts)) \in Output
  BY <1>6, FlattenType DEF Output
<1> QED  BY <1>1, <1>2, <1>3, <1>5, <1>6, <1>7

LEMMA BetweenType ==
    ASSUME NEW texts \in Seq(Output), NEW open \in Chars, NEW close \in Chars
    PROVE  /\ Between(open, texts, close) \in Output
           /\ Begins(Between(open, texts, close), {open})
           /\ \A x \in Output : Between(open, texts, close) \o x
                  = <<open>> \o (FlattenSeq(Comma(texts)) \o (<<close>> \o x))
<1> DEFINE o == <<open>>
           c == <<close>>
           f == FlattenSeq(Comma(texts))
<1>1. o \in Output /\ c \in Output /\ Begins(o, {open}) /\ f \in Output
  BY OneChar, CommaType
<1>2. Between(open, texts, close) = o \o (f \o c)
  BY DEF Between
<1> SUFFICES /\ o \o (f \o c) \in Output
             /\ Begins(o \o (f \o c), {open})
             /\ \A x \in Output : (o \o (f \o c)) \o x = o \o (f \o (c \o x))
  BY <1>2, Zenon
<1> HIDE DEF o, c, f
<1>3. f \o c \in Output
  BY <1>1, OutputConcat
<1>9. \A a, b, d \in Output : (a \o b) \o d = a \o (b \o d)
  BY OutputLaws, Zenon
<1>4. ASSUME NEW x \in Output
      PROVE  (o \o (f \o c)) \o x = o \o (f \o (c \o x))
  <2>1. (o \o (f \o c)) \o x = o \o ((f \o c) \o x)
    BY <1>1, <1>3, <1>9, Zenon
  <2>2. (f \o c) \o x = f \o (c \o x)
    BY <1>1, <1>9, Zenon
  <2> QED  BY <2>1, <2>2, Zenon
<1>5. o \o (f \o c) \in Output /\ Begins(o \o (f \o c), {open})
  BY <1>1, <1>3, BeginsBefore
<1> QED  BY <1>4, <1>5, Zenon

LEMMA MemberType ==
    ASSUME NEW key \in Output, NEW text \in Output
    PROVE  /\ Member(key, text) \in Output /\ Begins(Member(key, text), {"QUOTE"})
           /\ \A x \in Output : Member(key, text) \o x
                  = Quoted(key) \o (<<"COLON">> \o (text \o x))
<1> DEFINE q == Quoted(key)
           c == <<"COLON">>
<1>1. q \in Output /\ c \in Output /\ Begins(q, {"QUOTE"})
  BY QuotedType, OneChar, Named DEF Begins
<1>2. Member(key, text) = q \o (c \o text)
  BY DEF Member
<1> SUFFICES /\ q \o (c \o text) \in Output
             /\ Begins(q \o (c \o text), {"QUOTE"})
             /\ \A x \in Output : (q \o (c \o text)) \o x = q \o (c \o (text \o x))
  BY <1>2, Zenon
<1> HIDE DEF q, c
<1>3. c \o text \in Output
  BY <1>1, OutputConcat
<1>9. \A a, b, d \in Output : (a \o b) \o d = a \o (b \o d)
  BY OutputLaws, Zenon
<1>4. ASSUME NEW x \in Output
      PROVE  (q \o (c \o text)) \o x = q \o (c \o (text \o x))
  <2>1. (q \o (c \o text)) \o x = q \o ((c \o text) \o x)
    <3>1. q \in Output
      BY <1>1
    <3> QED  BY <1>3, <1>9, <3>1, Zenon
  <2>2. (c \o text) \o x = c \o (text \o x)
    BY <1>1, <1>9, Zenon
  <2> QED  BY <2>1, <2>2, Zenon
<1>5. q \o (c \o text) \in Output /\ Begins(q \o (c \o text), {"QUOTE"})
  BY <1>1, <1>3, BeginsBefore
<1> QED  BY <1>4, <1>5, Zenon

\* A number that is not refused is one of its spellings.
LEMMA NumberIsSpelled ==
    ASSUME NEW v \in Values, v.kind \in Numbers, ~Foreign(v)
    PROVE  /\ Scalar(v) \in NumberTexts
           /\ \E style \in Styles : Scalar(v) = v.of.text[style]
<1>1. ASSUME NEW style \in Styles, style = "bare" => v.of.integral
      PROVE  v.of.text[style] \in NumberTexts
  BY <1>1, NumbersAssumption DEF Foreign
<1>2. CASE v.kind = "jsonNumber"
  <2>1. Scalar(v) = v.of.text[v.style]
    BY <1>2 DEF Scalar
  <2>2. v.style \in Styles /\ (v.style = "bare" => v.of.integral)
    BY <1>2, NumbersAssumption
  <2> QED  BY <1>1, <2>1, <2>2
<1>3. CASE v.kind = "float64"
  <2>1. Scalar(v) = v.of.text[FloatStyle(v.of)]
    BY <1>3 DEF Scalar
  <2>2. FloatStyle(v.of) \in Styles /\ (FloatStyle(v.of) = "bare" => v.of.integral)
    BY DEF FloatStyle, Styles
  <2> QED  BY <1>1, <2>1, <2>2
<1>4. CASE v.kind = "int"
  <2>1. Scalar(v) = v.of.text["bare"]
    BY <1>4 DEF Scalar
  <2>2. "bare" \in Styles /\ v.of.integral
    BY <1>4, NumbersAssumption DEF Styles
  <2> QED  BY <1>1, <2>1, <2>2
<1> QED  BY <1>2, <1>3, <1>4 DEF Numbers

LEMMA NumberTextsAreOutput ==
    \A text \in NumberTexts :
        /\ text \in Output /\ Begins(text, NumberChars)
        /\ Len(text) \in Nat /\ \A i \in 1 .. Len(text) : text[i] \in NumberChars
<1> TAKE text \in NumberTexts
<1>1. text \in Seq(NumberChars) /\ text # <<>>
  BY DEF NumberTexts
<1>2. NumberChars \subseteq Chars
  BY DEF Chars
<1>3. text \in Output
  BY <1>1, <1>2, SeqMonotonic DEF Output
<1>4. Len(text) \in Nat /\ Len(text) >= 1
  BY <1>1, EmptySeq, LenProperties
<1>5. \A i \in 1 .. Len(text) : text[i] \in NumberChars
  BY <1>1, ElementOfSeq
<1>6. text[1] \in NumberChars
  BY <1>4, <1>5
<1> QED  BY <1>3, <1>4, <1>5, <1>6 DEF Begins

LEMMA ScalarType ==
    ASSUME NEW v \in Values, v.kind \notin Arrays \union Objects, ~Foreign(v)
    PROVE  Scalar(v) \in Output /\ Begins(Scalar(v), Lead(v.kind))
<1>1. CASE v.kind = "null"
  <2>1. Scalar(v) = <<"n", "u", "l", "l">> /\ Lead(v.kind) = {"n"}
    BY <1>1 DEF Scalar, Lead, Numbers
  <2>2. <<"n", "u", "l", "l">> \in Output
    <3>1. "n" \in Chars /\ "u" \in Chars /\ "l" \in Chars
      BY DEF Chars
    <3> QED  BY <3>1 DEF Output
  <2>3. Begins(<<"n", "u", "l", "l">>, {"n"})
    BY DEF Begins
  <2> QED  BY <2>1, <2>2, <2>3
<1>2. CASE v.kind = "bool"
  <2>1. Scalar(v) \in {<<"t", "r", "u", "e">>, <<"f", "a", "l", "s", "e">>}
    BY <1>2 DEF Scalar
  <2>2. <<"t", "r", "u", "e">> \in Output /\ <<"f", "a", "l", "s", "e">> \in Output
    <3>1. /\ "t" \in Chars /\ "r" \in Chars /\ "u" \in Chars /\ "e" \in Chars
          /\ "f" \in Chars /\ "a" \in Chars /\ "l" \in Chars /\ "s" \in Chars
      BY DEF Chars
    <3>2. <<"t", "r", "u", "e">> \in Output
      BY <3>1 DEF Output
    <3>3. <<"f", "a", "l", "s", "e">> \in Output
      BY <3>1 DEF Output
    <3> QED  BY <3>2, <3>3
  <2>3. /\ Begins(<<"t", "r", "u", "e">>, {"t", "f"})
        /\ Begins(<<"f", "a", "l", "s", "e">>, {"t", "f"})
    BY DEF Begins
  <2>4. Lead(v.kind) = {"t", "f"}
    BY <1>2 DEF Lead, Numbers
  <2> QED  BY <2>1, <2>2, <2>3, <2>4
<1>3. CASE v.kind = "string"
  <2>1. Scalar(v) = Quoted(v.of) /\ Lead(v.kind) = {"QUOTE"}
    BY <1>3 DEF Scalar, Lead, Numbers
  <2>2. v.of \in Output
    BY <1>3, ValuesAssumption, StringsAreOutput
  <2> QED  BY <2>1, <2>2, QuotedType DEF Begins
<1>4. CASE v.kind \in Numbers
  <2>1. Lead(v.kind) = NumberChars
    BY <1>4 DEF Lead, Numbers, Arrays, Objects
  <2> QED  BY <1>4, <2>1, NumberIsSpelled, NumberTextsAreOutput
<1>5. v.kind \in Kinds
  BY ValuesAssumption
<1> QED  BY <1>1, <1>2, <1>3, <1>4, <1>5 DEF Kinds, Foreign

LEMMA EncodingIs ==
    ASSUME NEW v \in Values
    PROVE  /\ v.kind \in Arrays =>
                  encoding[v] = Between("LBRACKET", ItemTexts(v, encoding), "RBRACKET")
           /\ v.kind \in Objects =>
                  encoding[v] = Between("LBRACE", MemberTexts(v, encoding), "RBRACE")
           /\ v.kind \notin Arrays \union Objects =>
                  encoding[v] = IF Foreign(v) THEN <<>> ELSE Scalar(v)
<1>1. encoding[v] = EncodingOf(v, encoding)
  BY Recursion
<1>2. v.kind \in Objects => v.kind \notin Arrays
  BY DEF Objects, Arrays
<1> QED  BY <1>1, <1>2, Zenon DEF EncodingOf

\* What is in an array or an object, its keys included.
LEMMA ContentFacts ==
    ASSUME NEW v \in Values
    PROVE  /\ v.kind \in Arrays => \A n \in DOMAIN v.of : Item(v, n) \in Items(v)
           /\ v.kind \in Arrays => DOMAIN v.of = 1 .. Len(v.of) /\ Len(v.of) \in Nat
           /\ v.kind \in Objects => \A n \in DOMAIN SortedKeys(v) :
                  SortedKeys(v)[n] \in Output /\ Item(v, SortedKeys(v)[n]) \in Items(v)
           /\ v.kind \in Objects => /\ DOMAIN SortedKeys(v) = 1 .. Len(SortedKeys(v))
                                    /\ Len(SortedKeys(v)) \in Nat
           /\ v.kind \notin Arrays \union Objects => Items(v) = {}
<1>1. v.kind \in Arrays => \A n \in DOMAIN v.of : Item(v, n) \in Items(v)
  BY DEF Items
<1>2. v.kind \in Arrays => DOMAIN v.of = 1 .. Len(v.of) /\ Len(v.of) \in Nat
  <2>1. v.kind = "anys" => v.of \in Seq(Values)
    BY ValuesAssumption
  <2>2. v.kind = "strings" => v.of \in Seq(Strings)
    BY ValuesAssumption
  <2> QED  BY <2>1, <2>2, LenProperties DEF Arrays
<1>3. ASSUME v.kind \in Objects, NEW n \in DOMAIN SortedKeys(v)
      PROVE  SortedKeys(v)[n] \in Output /\ Item(v, SortedKeys(v)[n]) \in Items(v)
  <2>1. SortedKeys(v)[n] \in DOMAIN v.of
    BY <1>3, SortedKeysFacts
  <2>2. SortedKeys(v)[n] \in Strings
    BY <1>3, <2>1, ValuesAssumption
  <2> QED  BY <1>3, <2>1, <2>2, StringsAreOutput DEF Items
<1>4. v.kind \in Objects => /\ DOMAIN SortedKeys(v) = 1 .. Len(SortedKeys(v))
                            /\ Len(SortedKeys(v)) \in Nat
  <2>1. v.kind \in Objects => SortedKeys(v) \in Seq(DOMAIN v.of)
    BY SortedKeysFacts
  <2> QED  BY <2>1, LenProperties
<1>5. v.kind \notin Arrays \union Objects => Items(v) = {}
  BY DEF Items
<1> QED  BY <1>1, <1>2, <1>3, <1>4, <1>5

LEMMA TextsType ==
    ASSUME NEW v \in Values, \A u \in Items(v) : encoding[u] \in Output
    PROVE  /\ v.kind \in Arrays => ItemTexts(v, encoding) \in Seq(Output)
           /\ v.kind \in Objects => MemberTexts(v, encoding) \in Seq(Output)
<1>1. ASSUME v.kind \in Arrays
      PROVE  ItemTexts(v, encoding) \in Seq(Output)
  <2>1. DOMAIN v.of = 1 .. Len(v.of) /\ Len(v.of) \in Nat
    BY <1>1, ContentFacts
  <2>2. \A n \in DOMAIN v.of : encoding[Item(v, n)] \in Output
    BY <1>1, ContentFacts
  <2>3. [n \in 1 .. Len(v.of) |-> encoding[Item(v, n)]] \in Seq(Output)
    BY <2>1, <2>2
  <2> QED  BY <2>1, <2>3 DEF ItemTexts
<1>2. ASSUME v.kind \in Objects
      PROVE  MemberTexts(v, encoding) \in Seq(Output)
  <2> DEFINE keys == SortedKeys(v)
  <2>1. DOMAIN keys = 1 .. Len(keys) /\ Len(keys) \in Nat
    BY <1>2, ContentFacts
  <2>2. \A n \in DOMAIN keys : Member(keys[n], encoding[Item(v, keys[n])]) \in Output
    <3> TAKE n \in DOMAIN keys
    <3>1. keys[n] \in Output /\ encoding[Item(v, keys[n])] \in Output
      BY <1>2, ContentFacts
    <3> QED  BY <3>1, MemberType
  <2>3. MemberTexts(v, encoding)
            = [n \in 1 .. Len(keys) |-> Member(keys[n], encoding[Item(v, keys[n])])]
    BY <2>1 DEF MemberTexts
  <2> HIDE DEF keys
  <2>4. [n \in 1 .. Len(keys) |-> Member(keys[n], encoding[Item(v, keys[n])])] \in Seq(Output)
    BY <2>1, <2>2
  <2> QED  BY <2>3, <2>4
<1> QED  BY <1>1, <1>2

LEMMA EncodingType == \A v \in Values : encoding[v] \in Output
<1> DEFINE T == {n \in Nat : \E v \in Values : Depth[v] = n /\ encoding[v] \notin Output}
<1>1. SUFFICES ASSUME T # {} PROVE FALSE
  BY ValuesAssumption
<1>2. PICK n \in T : \A j \in T : n <= j
  <2>1. T \in SUBSET Nat
    OBVIOUS
  <2> QED  BY <1>1, <2>1, Least
<1>3. PICK v \in Values : Depth[v] = n /\ encoding[v] \notin Output
  BY <1>2
<1>4. \A u \in Items(v) : encoding[u] \in Output
  <2> TAKE u \in Items(v)
  <2>1. u \in Values /\ Depth[u] \in Nat /\ ~(n <= Depth[u])
    BY <1>3, ItemsAreBelow
  <2> QED  BY <1>2, <2>1
<1> HIDE DEF T
<1>5. "LBRACKET" \in Chars /\ "RBRACKET" \in Chars /\ "LBRACE" \in Chars /\ "RBRACE" \in Chars
  BY Named
<1>6. CASE v.kind \in Arrays
  BY <1>3, <1>4, <1>5, <1>6, TextsType, BetweenType, EncodingIs
<1>7. CASE v.kind \in Objects
  BY <1>3, <1>4, <1>5, <1>7, TextsType, BetweenType, EncodingIs
<1>8. CASE v.kind \notin Arrays \union Objects
  <2>1. <<>> \in Output
    BY DEF Output
  <2> QED  BY <1>3, <1>8, <2>1, ScalarType, EncodingIs
<1> QED  BY <1>6, <1>7, <1>8

LEMMA EncodingBegins ==
    ASSUME NEW v \in Values, ~Foreign(v)
    PROVE  Begins(encoding[v], Lead(v.kind))
<1>1. \A u \in Items(v) : encoding[u] \in Output
  BY ItemsAreBelow, EncodingType
<1>2. "LBRACKET" \in Chars /\ "RBRACKET" \in Chars /\ "LBRACE" \in Chars /\ "RBRACE" \in Chars
  BY Named
<1>3. CASE v.kind \in Arrays
  <2>1. Lead(v.kind) = {"LBRACKET"}
    BY <1>3 DEF Lead, Numbers, Arrays, Objects
  <2> QED  BY <1>1, <1>2, <1>3, <2>1, TextsType, BetweenType, EncodingIs
<1>4. CASE v.kind \in Objects
  <2>1. Lead(v.kind) = {"LBRACE"}
    BY <1>4 DEF Lead, Objects, Arrays, Numbers
  <2> QED  BY <1>1, <1>2, <1>4, <2>1, TextsType, BetweenType, EncodingIs
<1>5. CASE v.kind \notin Arrays \union Objects
  BY <1>5, ScalarType, EncodingIs
<1> QED  BY <1>3, <1>4, <1>5

-----------------------------------------------------------------------------
(***************************************************************************)
(* What is refused: a value that is foreign, or holds one that is refused. *)
(***************************************************************************)
Refused(v) == \E u \in parts[v] : Foreign(u)

LEMMA RefusedIs ==
    ASSUME NEW v \in Values
    PROVE  Refused(v) <=> Foreign(v) \/ \E u \in Items(v) : Refused(u)
<1>1. parts[v] = {v} \union UNION {parts[u] : u \in Items(v)}
  BY Recursion, Zenon DEF PartsOf
<1> QED  BY <1>1 DEF Refused

(***************************************************************************)
(* What may follow a value: nothing, a comma, or the end of what it is in. *)
(* No value begins with one of these, and none of them goes on with a      *)
(* number.                                                                 *)
(***************************************************************************)
Ends == {"COMMA", "RBRACKET", "RBRACE"}
Ended == {x \in Output : x # <<>> => x[1] \in Ends}

LEMMA EndedAfter ==
    ASSUME NEW char \in Ends, NEW a \in Output
    PROVE  <<char>> \o a \in Ended
<1>1. char \in Chars
  BY Named DEF Ends
<1>2. <<char>> \o a \in Output /\ Begins(<<char>> \o a, {char})
  BY <1>1, OneChar, BeginsBefore
<1> DEFINE z == <<char>> \o a
<1>3. z \in Output /\ z[1] = char
  BY <1>2 DEF Begins
<1> HIDE DEF z
<1>4. z \in Ended
  BY <1>3 DEF Ended
<1> QED  BY <1>4 DEF z

LEMMA FirstTheSame ==
    ASSUME NEW a \in Output, NEW b \in Output, NEW x \in Output, NEW y \in Output,
           NEW A, NEW B, Begins(a, A), Begins(b, B), a \o x = b \o y
    PROVE  \E char : char \in A /\ char \in B
<1>1. \A i \in 1 .. Len(a) : i <= Len(b) => a[i] = b[i]
  BY SameStart DEF Output
<1>2. 1 \in 1 .. Len(a) /\ 1 <= Len(b)
  BY DEF Begins
<1>3. a[1] = b[1]
  BY <1>1, <1>2
<1> QED  BY <1>3 DEF Begins

LEMMA NumberIsLongest ==
    ASSUME NEW a \in NumberTexts, NEW b \in NumberTexts, NEW x \in Ended, NEW y \in Ended,
           a \o x = b \o y
    PROVE  ~(Len(a) < Len(b))
<1>1. SUFFICES ASSUME Len(a) < Len(b) PROVE FALSE
  OBVIOUS
<1>2. /\ a \in Output /\ b \in Output /\ x \in Output /\ y \in Output
      /\ Len(a) \in Nat /\ Len(b) \in Nat /\ Len(x) \in Nat /\ Len(y) \in Nat
      /\ \A i \in 1 .. Len(b) : b[i] \in NumberChars
      /\ x # <<>> => x[1] \in Ends
  BY NumberTextsAreOutput, LenProperties DEF Ended, Output
<1> DEFINE i == Len(a) + 1
<1>3. /\ Len(b \o y) = Len(b) + Len(y)
      /\ \A j \in 1 .. Len(b) + Len(y) : j <= Len(b) => (b \o y)[j] = b[j]
  BY <1>2, ConcatProperties DEF Output
<1>4. /\ Len(a \o x) = Len(a) + Len(x)
      /\ \A j \in 1 .. Len(a) + Len(x) : j > Len(a) => (a \o x)[j] = x[j - Len(a)]
  BY <1>2, ConcatProperties DEF Output
<1>5. (b \o y)[i] \in NumberChars
  BY <1>1, <1>2, <1>3
<1>6. Len(x) >= 1
  BY <1>1, <1>2, <1>3, <1>4
<1>7. (a \o x)[i] = x[1]
  BY <1>2, <1>4, <1>6
<1>8. x[1] \in Ends
  BY <1>2, <1>6
<1>9. x[1] \in NumberChars
  BY <1>5, <1>7
<1> HIDE DEF i
<1> QED  BY <1>8, <1>9 DEF Ends, NumberChars

LEMMA NumberTold ==
    ASSUME NEW a \in NumberTexts, NEW b \in NumberTexts, NEW x \in Ended, NEW y \in Ended,
           a \o x = b \o y
    PROVE  a = b
<1>1. a \in Output /\ b \in Output /\ Len(a) \in Nat /\ Len(b) \in Nat
  BY NumberTextsAreOutput
<1>2. Len(a) = Len(b)
  <2>1. ~(Len(a) < Len(b))
    BY NumberIsLongest
  <2>2. ~(Len(b) < Len(a))
    BY NumberIsLongest
  <2> QED  BY <1>1, <2>1, <2>2
<1>3. \A i \in 1 .. Len(a) : i <= Len(b) => a[i] = b[i]
  BY <1>1, SameStart DEF Output, Ended
<1>4. \A i \in 1 .. Len(a) : a[i] = b[i]
  BY <1>1, <1>2, <1>3
<1> QED  BY <1>1, <1>2, <1>4, SeqEqual DEF Output

(***************************************************************************)
(* A list between brackets is told into its texts, when each of them can   *)
(* be told from the one in its place.                                      *)
(***************************************************************************)
Starts == Chars \ Ends

LEMMA ListTold ==
    ASSUME NEW F \in Seq(Output), NEW G \in Seq(Output),
           NEW open \in Chars, NEW close \in Ends \ {"COMMA"}, NEW x \in Ended, NEW y \in Ended,
           \A i \in DOMAIN F : Begins(F[i], Starts),
           \A i \in DOMAIN G : Begins(G[i], Starts),
           \A i \in DOMAIN F \intersect DOMAIN G : \A a, b \in Ended :
               F[i] \o a = G[i] \o b => F[i] = G[i],
           Between(open, F, close) \o x = Between(open, G, close) \o y
    PROVE  F = G
<1> DEFINE f == Comma(F)
           g == Comma(G)
           p == <<close>> \o x
           q == <<close>> \o y
           c == <<"COMMA">>
<1>1. /\ x \in Output /\ y \in Output /\ Ended \in SUBSET Seq(Chars)
      /\ close \in Chars /\ open \in Chars
  BY Named DEF Ended, Ends, Output
<1>2. p \in Ended /\ q \in Ended /\ p \in Output /\ q \in Output
  <2>1. p \in Ended /\ q \in Ended
    BY <1>1, EndedAfter
  <2> HIDE DEF p, q
  <2> QED  BY <2>1 DEF Ended
<1>3. c \in Output
  BY OneChar, Named
<1>4. /\ f \in Seq(Output) /\ DOMAIN f = DOMAIN F
      /\ g \in Seq(Output) /\ DOMAIN g = DOMAIN G
      /\ FlattenSeq(f) \in Output /\ FlattenSeq(g) \in Output
      /\ DOMAIN F = 1 .. Len(F) /\ Len(F) \in Nat
      /\ DOMAIN G = 1 .. Len(G) /\ Len(G) \in Nat
  BY CommaType
<1>5. /\ \A i \in DOMAIN F : F[i] \in Output /\ f[i] \in Output
      /\ \A i \in DOMAIN F : i = 1 => f[i] = F[i]
      /\ \A i \in DOMAIN F : i # 1 => f[i] = c \o F[i]
  BY CommaType
<1>6. /\ \A i \in DOMAIN G : G[i] \in Output /\ g[i] \in Output
      /\ \A i \in DOMAIN G : i = 1 => g[i] = G[i]
      /\ \A i \in DOMAIN G : i # 1 => g[i] = c \o G[i]
  BY CommaType
<1>7. FlattenSeq(f) \o p = FlattenSeq(g) \o q
  <2>1. Between(open, F, close) \o x = <<open>> \o (FlattenSeq(f) \o p)
    BY <1>1, BetweenType
  <2>2. Between(open, G, close) \o y = <<open>> \o (FlattenSeq(g) \o q)
    BY <1>1, BetweenType
  <2> DEFINE a == FlattenSeq(f) \o p
             b == FlattenSeq(g) \o q
  <2>3. a \in Output /\ b \in Output /\ <<open>> \in Output
    BY <1>1, <1>2, <1>4, OutputConcat, OneChar
  <2>4. <<open>> \o a = <<open>> \o b
    BY <2>1, <2>2, Zenon
  <2>5. \A r, s, t \in Output : r \o s = r \o t => s = t
    BY OutputLaws, Zenon
  <2> HIDE DEF a, b
  <2>6. a = b
    BY <2>3, <2>4, <2>5, Zenon
  <2> QED  BY <2>6 DEF a, b
<1> HIDE DEF f, g, p, q, c
<1>8. \A r, s, t \in Output : (r \o s) \o t = r \o (s \o t)
  BY OutputLaws, Zenon
<1>9. \A r, s, t \in Output : r \o s = r \o t => s = t
  BY OutputLaws, Zenon
<1>10. \A i \in DOMAIN f \intersect DOMAIN g : \A a, b \in Ended :
          f[i] \o a = g[i] \o b => f[i] = g[i]
  <2> SUFFICES ASSUME NEW i \in DOMAIN f \intersect DOMAIN g, NEW a \in Ended, NEW b \in Ended,
                      f[i] \o a = g[i] \o b
               PROVE  f[i] = g[i]
    OBVIOUS
  <2>1. a \in Output /\ b \in Output
    BY DEF Ended
  <2>2. i \in DOMAIN F \intersect DOMAIN G /\ F[i] \in Output /\ G[i] \in Output
    BY <1>4, <1>5, <1>6
  <2>3. CASE i = 1
    <3>1. f[i] = F[i] /\ g[i] = G[i]
      BY <1>5, <1>6, <2>2, <2>3
    <3> QED  BY <2>2, <3>1, Zenon
  <2>4. CASE i # 1
    <3>1. f[i] = c \o F[i] /\ g[i] = c \o G[i]
      BY <1>5, <1>6, <2>2, <2>4
    <3>2. f[i] \o a = c \o (F[i] \o a)
      <4>1. F[i] \in Output /\ a \in Output
        BY <2>1, <2>2
      <4>2. (c \o F[i]) \o a = c \o (F[i] \o a)
        BY <1>3, <1>8, <4>1, Zenon
      <4>3. f[i] = c \o F[i]
        BY <3>1
      <4> QED  BY <4>2, <4>3, Zenon
    <3>3. g[i] \o b = c \o (G[i] \o b)
      <4>1. G[i] \in Output /\ b \in Output
        BY <2>1, <2>2
      <4>2. (c \o G[i]) \o b = c \o (G[i] \o b)
        BY <1>3, <1>8, <4>1, Zenon
      <4>3. g[i] = c \o G[i]
        BY <3>1
      <4> QED  BY <4>2, <4>3, Zenon
    <3>4. F[i] \o a \in Output /\ G[i] \o b \in Output
      BY <2>1, <2>2, OutputConcat
    <3>5. F[i] \o a = G[i] \o b
      BY <1>3, <1>9, <3>2, <3>3, <3>4, Zenon
    <3>6. F[i] = G[i]
      BY <2>2, <3>5, Zenon
    <3> QED  BY <3>1, <3>6, Zenon
  <2> QED  BY <2>3, <2>4
<1>11. /\ \A i \in DOMAIN f : Begins(f[i], Starts \union {"COMMA"}) /\ f[i] \in Output
       /\ \A i \in DOMAIN g : Begins(g[i], Starts \union {"COMMA"}) /\ g[i] \in Output
  <2>1. Begins(c, {"COMMA"})
    BY DEF c, Begins
  <2>2. \A h \in Output : /\ Begins(h, Starts) => Begins(h, Starts \union {"COMMA"})
                          /\ Begins(c \o h, Starts \union {"COMMA"})
    <3> TAKE h \in Output
    <3>1. Begins(c \o h, {"COMMA"})
      BY <1>3, <2>1, BeginsBefore
    <3> QED  BY <3>1 DEF Begins
  <2>3. \A i \in DOMAIN F : i = 1 => Begins(f[i], Starts \union {"COMMA"})
    BY <1>5, <2>2
  <2>4. \A i \in DOMAIN F : i # 1 => Begins(f[i], Starts \union {"COMMA"})
    BY <1>5, <2>2
  <2>5. \A i \in DOMAIN G : i = 1 => Begins(g[i], Starts \union {"COMMA"})
    BY <1>6, <2>2
  <2>6. \A i \in DOMAIN G : i # 1 => Begins(g[i], Starts \union {"COMMA"})
    BY <1>6, <2>2
  <2> QED  BY <1>4, <1>5, <1>6, <2>3, <2>4, <2>5, <2>6
<1>12. ASSUME NEW h \in Output, NEW z \in Output, NEW a \in Output,
              Begins(h, Starts \union {"COMMA"})
       PROVE  h \o a # <<close>> \o z
  <2>1. SUFFICES ASSUME h \o a = <<close>> \o z PROVE FALSE
    OBVIOUS
  <2>2. <<close>> \in Output /\ Begins(<<close>>, {close})
    BY <1>1, OneChar
  <2>3. \E char : char \in Starts \union {"COMMA"} /\ char \in {close}
    BY <1>12, <2>1, <2>2, FirstTheSame
  <2> QED  BY <2>3 DEF Starts
<1>13. /\ \A i \in DOMAIN f : \A a \in Output : f[i] \o a # q
       /\ \A i \in DOMAIN g : \A a \in Output : g[i] \o a # p
  BY <1>1, <1>11, <1>12 DEF p, q
<1>14. /\ \A i \in DOMAIN f : i # 1 => \A a \in Output : f[i] \o a \in Ended
       /\ \A i \in DOMAIN g : i # 1 => \A a \in Output : g[i] \o a \in Ended
  <2>1. ASSUME NEW h \in Output, NEW a \in Output
        PROVE  (c \o h) \o a \in Ended
    <3>1. (c \o h) \o a = c \o (h \o a)
      BY <1>3, <1>8, Zenon
    <3>2. h \o a \in Output
      BY OutputConcat
    <3>3. c \o (h \o a) \in Ended
      <4>1. "COMMA" \in Ends
        BY DEF Ends
      <4> QED  BY <3>2, <4>1, EndedAfter DEF c
    <3> QED  BY <3>1, <3>3, Zenon
  <2>2. \A i \in DOMAIN f : i # 1 => \A a \in Output : f[i] \o a \in Ended
    BY <1>4, <1>5, <2>1
  <2>3. \A i \in DOMAIN g : i # 1 => \A a \in Output : g[i] \o a \in Ended
    BY <1>4, <1>6, <2>1
  <2> QED  BY <2>2, <2>3
<1>15. Parsable(Chars, Ended, f, g, p, q)
  BY <1>10, <1>13, <1>14 DEF Parsable, Output
<1>16. f = g
  BY <1>1, <1>2, <1>4, <1>7, <1>15, Parsed DEF Output
<1>17. DOMAIN F = DOMAIN G /\ \A i \in DOMAIN F : F[i] = G[i]
  <2>1. DOMAIN F = DOMAIN G
    BY <1>4, <1>16
  <2>2. \A i \in DOMAIN F : i = 1 => F[i] = G[i]
    BY <1>5, <1>6, <1>16, <2>1
  <2>3. ASSUME NEW i \in DOMAIN F, i # 1
        PROVE  F[i] = G[i]
    <3>1. c \o F[i] = c \o G[i] /\ F[i] \in Output /\ G[i] \in Output
      BY <1>5, <1>6, <1>16, <2>1, <2>3
    <3> QED  BY <1>3, <1>9, <3>1, Zenon
  <2> QED  BY <2>1, <2>2, <2>3
<1>18. Len(F) = Len(G)
  BY <1>4, <1>17, SameLength
<1> QED  BY <1>4, <1>17, <1>18, SeqEqual

-----------------------------------------------------------------------------
(***************************************************************************)
(* The bytes tell the value: two values whose bytes begin the same way,    *)
(* each followed by nothing, by a comma or by the end of what it is in,    *)
(* have the same bytes and say the same.                                   *)
(***************************************************************************)
Told(v, w) ==
    \A x, y \in Ended : encoding[v] \o x = encoding[w] \o y
                        => encoding[v] = encoding[w] /\ meaning[v] = meaning[w]

\* What is in v can be told from what is in w.
ItemsTold(v, w) ==
    /\ \A u \in Items(v) : ~Foreign(u)
    /\ \A z \in Items(w) : ~Foreign(z)
    /\ \A u \in Items(v) : \A z \in Items(w) : Told(u, z)

LEMMA SameBytesSameMeaning ==
    ASSUME NEW u, NEW z, Told(u, z), encoding[u] = encoding[z]
    PROVE  meaning[u] = meaning[z]
<1>1. <<>> \in Ended
  BY DEF Ended, Output
<1> QED  BY <1>1, Zenon DEF Told

LEMMA ItemBegins ==
    ASSUME NEW u \in Values, ~Foreign(u)
    PROVE  encoding[u] \in Output /\ Begins(encoding[u], Starts)
<1>1. encoding[u] \in Output /\ Begins(encoding[u], Lead(u.kind))
  BY EncodingType, EncodingBegins
<1>2. NumberChars \subseteq Starts
  BY DEF NumberChars, Starts, Chars, Ends
<1>3. {"n", "t", "f", "QUOTE", "LBRACKET", "LBRACE"} \subseteq Starts
  BY DEF Starts, Chars, Ends
<1>4. u.kind \in Kinds
  BY ValuesAssumption
<1>5. Lead(u.kind) \subseteq Starts
  <2>1. CASE u.kind \in Numbers
    BY <1>2, <2>1 DEF Lead, Numbers, Arrays, Objects
  <2>2. CASE u.kind \in Arrays
    BY <1>3, <2>2 DEF Lead, Numbers, Arrays, Objects
  <2>3. CASE u.kind \in Objects
    BY <1>3, <2>3 DEF Lead, Numbers, Arrays, Objects
  <2>4. CASE u.kind \in {"null", "bool", "string"}
    BY <1>3, <2>4 DEF Lead, Numbers, Arrays, Objects
  <2> QED  BY <1>4, <2>1, <2>2, <2>3, <2>4 DEF Kinds, Foreign
<1> QED  BY <1>1, <1>5 DEF Begins

LEMMA ArraysTold ==
    ASSUME NEW v \in Values, NEW w \in Values, v.kind \in Arrays, w.kind \in Arrays,
           ItemsTold(v, w)
    PROVE  Told(v, w)
<1>1. SUFFICES ASSUME NEW x \in Ended, NEW y \in Ended, encoding[v] \o x = encoding[w] \o y
               PROVE  encoding[v] = encoding[w] /\ meaning[v] = meaning[w]
  BY DEF Told
<1> DEFINE F == ItemTexts(v, encoding)
           G == ItemTexts(w, encoding)
<1>2. /\ encoding[v] = Between("LBRACKET", F, "RBRACKET")
      /\ encoding[w] = Between("LBRACKET", G, "RBRACKET")
  BY EncodingIs
<1>3. F \in Seq(Output) /\ G \in Seq(Output)
  <2>1. \A u \in Items(v) \union Items(w) : encoding[u] \in Output
    BY ItemsAreBelow, EncodingType
  <2> QED  BY <2>1, TextsType
<1>4. /\ DOMAIN F = DOMAIN v.of /\ DOMAIN G = DOMAIN w.of
      /\ \A i \in DOMAIN v.of : F[i] = encoding[Item(v, i)] /\ Item(v, i) \in Items(v)
      /\ \A i \in DOMAIN w.of : G[i] = encoding[Item(w, i)] /\ Item(w, i) \in Items(w)
  BY ContentFacts DEF ItemTexts
<1>5. /\ \A i \in DOMAIN F : Begins(F[i], Starts)
      /\ \A i \in DOMAIN G : Begins(G[i], Starts)
  <2>1. \A u \in Items(v) \union Items(w) : Begins(encoding[u], Starts)
    <3>1. \A u \in Items(v) \union Items(w) : u \in Values /\ ~Foreign(u)
      BY ItemsAreBelow DEF ItemsTold
    <3> QED  BY <3>1, ItemBegins
  <2> HIDE DEF F, G
  <2> QED  BY <1>4, <2>1
<1> HIDE DEF F, G
<1>6. \A i \in DOMAIN F \intersect DOMAIN G : \A a, b \in Ended :
          F[i] \o a = G[i] \o b => F[i] = G[i]
  <2> SUFFICES ASSUME NEW i \in DOMAIN F \intersect DOMAIN G, NEW a \in Ended, NEW b \in Ended,
                      F[i] \o a = G[i] \o b
               PROVE  F[i] = G[i]
    OBVIOUS
  <2> DEFINE u == Item(v, i)
             z == Item(w, i)
  <2>1. F[i] = encoding[u] /\ G[i] = encoding[z] /\ u \in Items(v) /\ z \in Items(w)
    BY <1>4
  <2> HIDE DEF u, z
  <2>2. encoding[u] \o a = encoding[z] \o b
    BY <2>1, Zenon
  <2>3. Told(u, z)
    BY <2>1 DEF ItemsTold
  <2>4. encoding[u] = encoding[z]
    BY <2>2, <2>3, Zenon DEF Told
  <2> QED  BY <2>1, <2>4, Zenon
<1>7. F = G
  <2>1. "LBRACKET" \in Chars /\ "RBRACKET" \in Ends \ {"COMMA"}
    BY Named DEF Ends
  <2>2. Between("LBRACKET", F, "RBRACKET") \o x = Between("LBRACKET", G, "RBRACKET") \o y
    BY <1>1, <1>2, Zenon
  <2> QED  BY <1>3, <1>5, <1>6, <2>1, <2>2, ListTold
<1>8. meaning[v] = meaning[w]
  <2>1. \A i \in DOMAIN v.of : meaning[Item(v, i)] = meaning[Item(w, i)]
    <3> TAKE i \in DOMAIN v.of
    <3>1. /\ encoding[Item(v, i)] = encoding[Item(w, i)]
          /\ Item(v, i) \in Items(v) /\ Item(w, i) \in Items(w)
      BY <1>4, <1>7
    <3> QED  BY <3>1, SameBytesSameMeaning DEF ItemsTold
  <2>2. DOMAIN v.of = DOMAIN w.of
    BY <1>4, <1>7
  <2>3. [i \in DOMAIN v.of |-> meaning[Item(v, i)]] = [i \in DOMAIN w.of |-> meaning[Item(w, i)]]
    BY <2>1, <2>2
  <2>4. /\ meaning[v] = [array |-> [i \in DOMAIN v.of |-> meaning[Item(v, i)]]]
        /\ meaning[w] = [array |-> [i \in DOMAIN w.of |-> meaning[Item(w, i)]]]
    <3>1. meaning[v] = MeaningOf(v, meaning) /\ meaning[w] = MeaningOf(w, meaning)
      BY Recursion
    <3> QED  BY <3>1 DEF MeaningOf, Numbers, Arrays, Objects
  <2> QED  BY <2>3, <2>4
<1> QED  BY <1>2, <1>7, <1>8

QuotedBefore(s, x) == Quoted(s) \o x

LEMMA QuotesTold ==
    \A s, t, x, y \in Output : QuotedBefore(s, x) = QuotedBefore(t, y) => s = t /\ x = y
BY QuotedTold DEF QuotedBefore

MemberBefore(key, text, x) == Member(key, text) \o x

LEMMA MembersTold ==
    ASSUME NEW k \in Output, NEW m \in Output, NEW u \in Values, NEW z \in Values,
           NEW a \in Ended, NEW b \in Ended, Told(u, z),
           MemberBefore(k, encoding[u], a) = MemberBefore(m, encoding[z], b)
    PROVE  k = m /\ encoding[u] = encoding[z] /\ Member(k, encoding[u]) = Member(m, encoding[z])
<1> DEFINE c == <<"COLON">>
           s == encoding[u] \o a
           t == encoding[z] \o b
<1>1. /\ encoding[u] \in Output /\ encoding[z] \in Output /\ a \in Output /\ b \in Output
      /\ c \in Output
  BY EncodingType, OneChar, Named DEF Ended
<1>2. s \in Output /\ t \in Output
  BY <1>1, OutputConcat
<1>3. Quoted(k) \o (c \o s) = Quoted(m) \o (c \o t)
  <2>1. Member(k, encoding[u]) \o a = Quoted(k) \o (c \o s)
    <3>1. \A x \in Output : Member(k, encoding[u]) \o x = Quoted(k) \o (c \o (encoding[u] \o x))
      BY <1>1, MemberType
    <3> QED  BY <1>1, <3>1, Zenon
  <2>2. Member(m, encoding[z]) \o b = Quoted(m) \o (c \o t)
    <3>1. \A x \in Output : Member(m, encoding[z]) \o x = Quoted(m) \o (c \o (encoding[z] \o x))
      BY <1>1, MemberType
    <3> QED  BY <1>1, <3>1, Zenon
  <2> HIDE DEF c, s, t
  <2> QED  BY <2>1, <2>2, Zenon DEF MemberBefore
<1> HIDE DEF c, s, t
<1>4. c \o s \in Output /\ c \o t \in Output
  BY <1>1, <1>2, OutputConcat
<1>5. k = m /\ c \o s = c \o t
  <2> DEFINE p == c \o s
             q == c \o t
  <2>1. p \in Output /\ q \in Output /\ QuotedBefore(k, p) = QuotedBefore(m, q)
    BY <1>3, <1>4 DEF QuotedBefore
  <2> HIDE DEF p, q
  <2>2. k = m /\ p = q
    BY <2>1, QuotesTold
  <2> QED  BY <2>2 DEF p, q
<1>6. \A d, e, f \in Output : d \o e = d \o f => e = f
  BY OutputLaws, Zenon
<1>7. s = t
  <2>1. c \in Output
    BY <1>1
  <2> QED  BY <1>2, <1>5, <1>6, <2>1, Zenon
<1>8. encoding[u] = encoding[z]
  <2>1. encoding[u] \o a = encoding[z] \o b
    BY <1>7 DEF s, t
  <2> QED  BY <2>1, Zenon DEF Told
<1> QED  BY <1>5, <1>8, Zenon

LEMMA ObjectsTold ==
    ASSUME NEW v \in Values, NEW w \in Values, v.kind \in Objects, w.kind \in Objects,
           ItemsTold(v, w)
    PROVE  Told(v, w)
<1>1. SUFFICES ASSUME NEW x \in Ended, NEW y \in Ended, encoding[v] \o x = encoding[w] \o y
               PROVE  encoding[v] = encoding[w] /\ meaning[v] = meaning[w]
  BY DEF Told
<1> DEFINE F == MemberTexts(v, encoding)
           G == MemberTexts(w, encoding)
           k == SortedKeys(v)
           m == SortedKeys(w)
<1>2. /\ encoding[v] = Between("LBRACE", F, "RBRACE")
      /\ encoding[w] = Between("LBRACE", G, "RBRACE")
  BY EncodingIs
<1>3. F \in Seq(Output) /\ G \in Seq(Output)
  <2>1. \A u \in Items(v) \union Items(w) : encoding[u] \in Output
    BY ItemsAreBelow, EncodingType
  <2> QED  BY <2>1, TextsType
<1>4. /\ DOMAIN F = DOMAIN k /\ DOMAIN G = DOMAIN m
      /\ \A i \in DOMAIN k : F[i] = Member(k[i], encoding[Item(v, k[i])])
      /\ \A i \in DOMAIN m : G[i] = Member(m[i], encoding[Item(w, m[i])])
  BY DEF MemberTexts
<1>5. /\ \A i \in DOMAIN k : k[i] \in Output /\ Item(v, k[i]) \in Items(v)
      /\ \A i \in DOMAIN m : m[i] \in Output /\ Item(w, m[i]) \in Items(w)
      /\ DOMAIN k = 1 .. Len(k) /\ Len(k) \in Nat /\ DOMAIN m = 1 .. Len(m) /\ Len(m) \in Nat
  BY ContentFacts
<1>6. /\ k \in Seq(DOMAIN v.of) /\ m \in Seq(DOMAIN w.of)
      /\ \A i \in DOMAIN k : k[i] \in DOMAIN v.of
      /\ \A i \in DOMAIN m : m[i] \in DOMAIN w.of
      /\ \A key \in DOMAIN v.of : \E i \in DOMAIN k : k[i] = key
      /\ \A key \in DOMAIN w.of : \E i \in DOMAIN m : m[i] = key
  BY SortedKeysFacts
<1> HIDE DEF F, G, k, m
<1>7. \A u \in Items(v) \union Items(w) : u \in Values /\ encoding[u] \in Output
  BY ItemsAreBelow, EncodingType
<1>8. /\ \A i \in DOMAIN F : Begins(F[i], Starts)
      /\ \A i \in DOMAIN G : Begins(G[i], Starts)
  <2>1. \A h : Begins(h, {"QUOTE"}) => Begins(h, Starts)
    BY Named DEF Begins, Starts, Ends
  <2>2. \A key \in Output : \A u \in Items(v) \union Items(w) :
            Begins(Member(key, encoding[u]), {"QUOTE"})
    BY <1>7, MemberType
  <2> QED  BY <1>4, <1>5, <2>1, <2>2
<1>9. \A i \in DOMAIN F \intersect DOMAIN G : \A a, b \in Ended :
          F[i] \o a = G[i] \o b => F[i] = G[i] /\ k[i] = m[i]
                                   /\ encoding[Item(v, k[i])] = encoding[Item(w, m[i])]
  <2> SUFFICES ASSUME NEW i \in DOMAIN F \intersect DOMAIN G, NEW a \in Ended, NEW b \in Ended,
                      F[i] \o a = G[i] \o b
               PROVE  F[i] = G[i] /\ k[i] = m[i]
                      /\ encoding[Item(v, k[i])] = encoding[Item(w, m[i])]
    OBVIOUS
  <2> DEFINE u == Item(v, k[i])
             z == Item(w, m[i])
  <2>1. /\ F[i] = Member(k[i], encoding[u]) /\ G[i] = Member(m[i], encoding[z])
        /\ u \in Items(v) /\ z \in Items(w) /\ k[i] \in Output /\ m[i] \in Output
    BY <1>4, <1>5
  <2> SUFFICES F[i] = G[i] /\ k[i] = m[i] /\ encoding[u] = encoding[z]
    OBVIOUS
  <2> HIDE DEF u, z
  <2>2. Member(k[i], encoding[u]) \o a = Member(m[i], encoding[z]) \o b
    BY <2>1, Zenon
  <2>3. Told(u, z) /\ u \in Values /\ z \in Values
    BY <1>7, <2>1 DEF ItemsTold
  <2> DEFINE r == k[i]
             t == m[i]
  <2>4. /\ r \in Output /\ t \in Output /\ Told(u, z) /\ u \in Values /\ z \in Values
        /\ MemberBefore(r, encoding[u], a) = MemberBefore(t, encoding[z], b)
    BY <2>1, <2>2, <2>3 DEF MemberBefore
  <2> HIDE DEF r, t
  <2>5. r = t /\ encoding[u] = encoding[z] /\ Member(r, encoding[u]) = Member(t, encoding[z])
    BY <2>4, MembersTold
  <2> QED  BY <2>1, <2>5, Zenon DEF r, t
<1>10. F = G
  <2>1. "LBRACE" \in Chars /\ "RBRACE" \in Ends \ {"COMMA"}
    BY Named DEF Ends
  <2>2. Between("LBRACE", F, "RBRACE") \o x = Between("LBRACE", G, "RBRACE") \o y
    BY <1>1, <1>2, Zenon
  <2>3. \A i \in DOMAIN F \intersect DOMAIN G : \A a, b \in Ended :
            F[i] \o a = G[i] \o b => F[i] = G[i]
    BY <1>9, Zenon
  <2> QED  BY <1>3, <1>8, <2>1, <2>2, <2>3, ListTold
<1>11. /\ DOMAIN k = DOMAIN m
       /\ \A i \in DOMAIN k : k[i] = m[i] /\ meaning[Item(v, k[i])] = meaning[Item(w, k[i])]
  <2>1. DOMAIN k = DOMAIN m
    BY <1>4, <1>10
  <2>2. <<>> \in Ended
    BY DEF Ended, Output
  <2> SUFFICES ASSUME NEW i \in DOMAIN k
               PROVE  k[i] = m[i] /\ meaning[Item(v, k[i])] = meaning[Item(w, k[i])]
    BY <2>1
  <2>3. i \in DOMAIN F \intersect DOMAIN G /\ F[i] \o <<>> = G[i] \o <<>>
    BY <1>4, <1>10, <2>1
  <2>4. k[i] = m[i] /\ encoding[Item(v, k[i])] = encoding[Item(w, m[i])]
    BY <1>9, <2>2, <2>3, Zenon
  <2>5. Told(Item(v, k[i]), Item(w, m[i]))
    BY <1>5, <2>1 DEF ItemsTold
  <2> QED  BY <2>4, <2>5, SameBytesSameMeaning
<1>12. meaning[v] = meaning[w]
  <2>1. DOMAIN v.of = DOMAIN w.of
    <3>1. \A key \in DOMAIN v.of : key \in DOMAIN w.of
      BY <1>6, <1>11
    <3>2. \A key \in DOMAIN w.of : key \in DOMAIN v.of
      BY <1>6, <1>11
    <3> QED  BY <3>1, <3>2
  <2>2. \A key \in DOMAIN v.of : meaning[Item(v, key)] = meaning[Item(w, key)]
    BY <1>6, <1>11
  <2>3. [key \in DOMAIN v.of |-> meaning[Item(v, key)]]
            = [key \in DOMAIN w.of |-> meaning[Item(w, key)]]
    BY <2>1, <2>2
  <2>4. /\ meaning[v] = [object |-> [key \in DOMAIN v.of |-> meaning[Item(v, key)]]]
        /\ meaning[w] = [object |-> [key \in DOMAIN w.of |-> meaning[Item(w, key)]]]
    <3>1. meaning[v] = MeaningOf(v, meaning) /\ meaning[w] = MeaningOf(w, meaning)
      BY Recursion
    <3> QED  BY <3>1 DEF MeaningOf, Numbers, Arrays, Objects
  <2> QED  BY <2>3, <2>4
<1> QED  BY <1>2, <1>10, <1>12

LEMMA SameLead ==
    ASSUME NEW v \in Values, NEW w \in Values, NEW char,
           char \in Lead(v.kind), char \in Lead(w.kind)
    PROVE  \/ v.kind \in Numbers /\ w.kind \in Numbers
           \/ v.kind \in Arrays /\ w.kind \in Arrays
           \/ v.kind \in Objects /\ w.kind \in Objects
           \/ v.kind = w.kind /\ v.kind \in {"null", "bool", "string"}
<1>1. v.kind \in Kinds /\ w.kind \in Kinds
  BY ValuesAssumption
<1>2. ASSUME NEW k \in Kinds
      PROVE  \/ k \in Numbers /\ Lead(k) = NumberChars
             \/ k = "null" /\ Lead(k) = {"n"}
             \/ k = "bool" /\ Lead(k) = {"t", "f"}
             \/ k = "string" /\ Lead(k) = {"QUOTE"}
             \/ k \in Arrays /\ Lead(k) = {"LBRACKET"}
             \/ k \in Objects /\ Lead(k) = {"LBRACE"}
             \/ k = "foreign" /\ Lead(k) = {}
  <2>1. CASE k \in Numbers
    BY <2>1 DEF Lead, Numbers, Arrays, Objects
  <2>2. CASE k \in Arrays
    BY <2>2 DEF Lead, Numbers, Arrays, Objects
  <2>3. CASE k \in Objects
    BY <2>3 DEF Lead, Numbers, Arrays, Objects
  <2>4. CASE k \in {"null", "bool", "string", "foreign"}
    BY <2>4 DEF Lead, Numbers, Arrays, Objects
  <2> QED  BY <2>1, <2>2, <2>3, <2>4 DEF Kinds
<1>3. /\ "n" \notin NumberChars /\ "t" \notin NumberChars /\ "f" \notin NumberChars
      /\ "QUOTE" \notin NumberChars /\ "LBRACKET" \notin NumberChars
      /\ "LBRACE" \notin NumberChars
  BY DEF NumberChars
<1> DEFINE k == v.kind
           h == w.kind
<1>4. /\ \/ k \in Numbers /\ Lead(k) = NumberChars
         \/ k = "null" /\ Lead(k) = {"n"}
         \/ k = "bool" /\ Lead(k) = {"t", "f"}
         \/ k = "string" /\ Lead(k) = {"QUOTE"}
         \/ k \in Arrays /\ Lead(k) = {"LBRACKET"}
         \/ k \in Objects /\ Lead(k) = {"LBRACE"}
         \/ k = "foreign" /\ Lead(k) = {}
      /\ \/ h \in Numbers /\ Lead(h) = NumberChars
         \/ h = "null" /\ Lead(h) = {"n"}
         \/ h = "bool" /\ Lead(h) = {"t", "f"}
         \/ h = "string" /\ Lead(h) = {"QUOTE"}
         \/ h \in Arrays /\ Lead(h) = {"LBRACKET"}
         \/ h \in Objects /\ Lead(h) = {"LBRACE"}
         \/ h = "foreign" /\ Lead(h) = {}
  BY <1>1, <1>2
<1> QED  BY <1>3, <1>4

LEMMA TrueIsNotFalse ==
    \A x, y \in Output :
        /\ <<"t", "r", "u", "e">> \o x # <<"f", "a", "l", "s", "e">> \o y
        /\ <<"f", "a", "l", "s", "e">> \o x # <<"t", "r", "u", "e">> \o y
<1> DEFINE t == <<"t", "r", "u", "e">>
           f == <<"f", "a", "l", "s", "e">>
<1>1. t \in Output /\ f \in Output /\ Begins(t, {"t"}) /\ Begins(f, {"f"})
  <2>1. /\ "t" \in Chars /\ "r" \in Chars /\ "u" \in Chars /\ "e" \in Chars
        /\ "f" \in Chars /\ "a" \in Chars /\ "l" \in Chars /\ "s" \in Chars
    BY DEF Chars
  <2>2. t \in Output
    BY <2>1 DEF Output
  <2>3. f \in Output
    BY <2>1 DEF Output
  <2> QED  BY <2>2, <2>3 DEF Begins
<1> HIDE DEF t, f
<1>2. ASSUME NEW x \in Output, NEW y \in Output, t \o x = f \o y
      PROVE  FALSE
  <2> DEFINE A == {"t"}
             B == {"f"}
  <2>1. Begins(t, A) /\ Begins(f, B) /\ t \in Output /\ f \in Output
    BY <1>1
  <2> HIDE DEF A, B
  <2>2. \E char : char \in A /\ char \in B
    BY <1>2, <2>1, FirstTheSame
  <2> QED  BY <2>2 DEF A, B
<1>3. \A x, y \in Output : t \o x # f \o y /\ f \o x # t \o y
  BY <1>2
<1> QED  BY <1>3 DEF t, f

LEMMA ScalarsTold ==
    ASSUME NEW v \in Values, NEW w \in Values, ~Foreign(v), ~Foreign(w),
           \/ v.kind \in Numbers /\ w.kind \in Numbers
           \/ v.kind = w.kind /\ v.kind \in {"null", "bool", "string"}
    PROVE  Told(v, w)
<1>1. SUFFICES ASSUME NEW x \in Ended, NEW y \in Ended, encoding[v] \o x = encoding[w] \o y
               PROVE  encoding[v] = encoding[w] /\ meaning[v] = meaning[w]
  BY DEF Told
<1>2. encoding[v] = Scalar(v) /\ encoding[w] = Scalar(w)
  <2>1. v.kind \notin Arrays \union Objects /\ w.kind \notin Arrays \union Objects
    BY DEF Numbers, Arrays, Objects
  <2> QED  BY <2>1, EncodingIs
<1>3. meaning[v] = MeaningOf(v, meaning) /\ meaning[w] = MeaningOf(w, meaning)
  BY Recursion
<1>4. x \in Output /\ y \in Output
  BY DEF Ended
<1>5. CASE v.kind \in Numbers /\ w.kind \in Numbers
  <2>1. Scalar(v) \in NumberTexts /\ Scalar(w) \in NumberTexts
    BY <1>5, NumberIsSpelled
  <2>2. Scalar(v) = Scalar(w)
    <3>1. Scalar(v) \o x = Scalar(w) \o y
      BY <1>1, <1>2, Zenon
    <3> QED  BY <2>1, <3>1, NumberTold
  <2>3. v.of = w.of
    <3>1. PICK s \in Styles : Scalar(v) = v.of.text[s]
      BY <1>5, NumberIsSpelled
    <3>2. PICK t \in Styles : Scalar(w) = w.of.text[t]
      BY <1>5, NumberIsSpelled
    <3>3. Scalar(v) # <<>>
      BY <2>1 DEF NumberTexts
    <3>4. v.of.text[s] = w.of.text[t] /\ v.of.text[s] # <<>>
      BY <2>2, <3>1, <3>2, <3>3
    <3> QED  BY <1>5, <3>4, NumbersAssumption
  <2>4. meaning[v] = [number |-> v.of] /\ meaning[w] = [number |-> w.of]
    BY <1>3, <1>5 DEF MeaningOf, Numbers, Arrays, Objects
  <2> QED  BY <1>2, <2>2, <2>3, <2>4
<1>6. CASE v.kind = "null" /\ w.kind = "null"
  <2>1. Scalar(v) = <<"n", "u", "l", "l">> /\ Scalar(w) = <<"n", "u", "l", "l">>
    BY <1>6 DEF Scalar
  <2>2. meaning[v] = [other |-> "null"] /\ meaning[w] = [other |-> "null"]
    BY <1>3, <1>6 DEF MeaningOf, Numbers, Arrays, Objects
  <2> QED  BY <1>2, <2>1, <2>2
<1>7. CASE v.kind = "bool" /\ w.kind = "bool"
  <2>1. v.of \in BOOLEAN /\ w.of \in BOOLEAN
    BY <1>7, ValuesAssumption
  <2> DEFINE t == <<"t", "r", "u", "e">>
             f == <<"f", "a", "l", "s", "e">>
  <2>2. /\ v.of = TRUE => Scalar(v) = t
        /\ v.of = FALSE => Scalar(v) = f
    BY <1>7 DEF Scalar
  <2>3. /\ w.of = TRUE => Scalar(w) = t
        /\ w.of = FALSE => Scalar(w) = f
    BY <1>7 DEF Scalar
  <2> HIDE DEF t, f
  <2>5. Scalar(v) \o x = Scalar(w) \o y
    BY <1>1, <1>2, Zenon
  <2>6. t \o x # f \o y /\ f \o x # t \o y
    BY <1>4, TrueIsNotFalse DEF t, f
  <2>7. v.of = w.of
    <3>1. CASE v.of = TRUE /\ w.of = FALSE
      <4>1. Scalar(v) = t /\ Scalar(w) = f
        BY <2>2, <2>3, <3>1
      <4> QED  BY <2>5, <2>6, <4>1, Zenon
    <3>2. CASE v.of = FALSE /\ w.of = TRUE
      <4>1. Scalar(v) = f /\ Scalar(w) = t
        BY <2>2, <2>3, <3>2
      <4> QED  BY <2>5, <2>6, <4>1, Zenon
    <3>3. (v.of = TRUE \/ v.of = FALSE) /\ (w.of = TRUE \/ w.of = FALSE)
      BY <2>1
    <3>4. CASE v.of = TRUE /\ w.of = TRUE
      BY <3>4
    <3>5. CASE v.of = FALSE /\ w.of = FALSE
      BY <3>5
    <3> QED  BY <3>1, <3>2, <3>3, <3>4, <3>5, Zenon
  <2>8. meaning[v] = [bool |-> v.of] /\ meaning[w] = [bool |-> w.of]
    BY <1>3, <1>7 DEF MeaningOf, Numbers, Arrays, Objects
  <2>9. Scalar(v) = Scalar(w)
    <3>1. CASE v.of = TRUE
      BY <2>2, <2>3, <2>7, <3>1
    <3>2. CASE v.of = FALSE
      BY <2>2, <2>3, <2>7, <3>2
    <3> QED  BY <2>1, <3>1, <3>2
  <2> QED  BY <1>2, <2>7, <2>8, <2>9, Zenon
<1>8. CASE v.kind = "string" /\ w.kind = "string"
  <2>1. Scalar(v) = Quoted(v.of) /\ Scalar(w) = Quoted(w.of)
    BY <1>8 DEF Scalar
  <2>2. v.of \in Output /\ w.of \in Output
    BY <1>8, ValuesAssumption, StringsAreOutput
  <2>3. Quoted(v.of) \o x = Quoted(w.of) \o y
    BY <1>1, <1>2, <2>1, Zenon
  <2>4. v.of = w.of
    BY <1>4, <2>2, <2>3, QuotedTold
  <2>5. meaning[v] = [string |-> v.of] /\ meaning[w] = [string |-> w.of]
    BY <1>3, <1>8 DEF MeaningOf, Numbers, Arrays, Objects
  <2>6. Scalar(v) = Scalar(w)
    BY <2>1, <2>4, Zenon
  <2> QED  BY <1>2, <2>4, <2>5, <2>6, Zenon
<1> QED  BY <1>5, <1>6, <1>7, <1>8

LEMMA BytesTell ==
    \A v, w \in Values : ~Refused(v) /\ ~Refused(w) => Told(v, w)
<1> DEFINE Bad(v) == \E w \in Values : ~Refused(v) /\ ~Refused(w) /\ ~Told(v, w)
           T == {n \in Nat : \E v \in Values : Depth[v] = n /\ Bad(v)}
<1>1. SUFFICES ASSUME T # {} PROVE FALSE
  BY ValuesAssumption
<1>2. PICK n \in T : \A j \in T : n <= j
  <2>1. T \in SUBSET Nat
    OBVIOUS
  <2> QED  BY <1>1, <2>1, Least
<1>3. PICK v \in Values : Depth[v] = n /\ Bad(v)
  BY <1>2
<1>4. PICK w \in Values : ~Refused(v) /\ ~Refused(w) /\ ~Told(v, w)
  BY <1>3
<1>5. \A u \in Items(v) : ~Bad(u)
  <2> TAKE u \in Items(v)
  <2>1. u \in Values /\ Depth[u] \in Nat /\ ~(n <= Depth[u])
    BY <1>3, ItemsAreBelow
  <2> QED  BY <1>2, <2>1
<1> HIDE DEF T
<1>6. /\ ~Foreign(v) /\ \A u \in Items(v) : u \in Values /\ ~Refused(u) /\ ~Foreign(u)
      /\ ~Foreign(w) /\ \A z \in Items(w) : z \in Values /\ ~Refused(z) /\ ~Foreign(z)
  <2>1. ASSUME NEW s \in Values, ~Refused(s)
        PROVE  ~Foreign(s) /\ \A u \in Items(s) : u \in Values /\ ~Refused(u)
    BY <2>1, RefusedIs, ItemsAreBelow
  <2> QED  BY <1>4, <2>1
<1>7. ItemsTold(v, w)
  <2>1. \A u \in Items(v) : \A z \in Items(w) : Told(u, z)
    BY <1>5, <1>6
  <2> HIDE DEF Bad
  <2> QED  BY <1>6, <2>1 DEF ItemsTold
<1>8. PICK x \in Ended, y \in Ended :
          /\ encoding[v] \o x = encoding[w] \o y
          /\ ~(encoding[v] = encoding[w] /\ meaning[v] = meaning[w])
  BY <1>4 DEF Told
<1>9. PICK char : char \in Lead(v.kind) /\ char \in Lead(w.kind)
  <2>1. /\ encoding[v] \in Output /\ encoding[w] \in Output /\ x \in Output /\ y \in Output
        /\ Begins(encoding[v], Lead(v.kind)) /\ Begins(encoding[w], Lead(w.kind))
    BY <1>6, EncodingType, EncodingBegins DEF Ended
  <2> QED  BY <1>8, <2>1, FirstTheSame
<1>10. Told(v, w)
  BY <1>6, <1>7, <1>9, SameLead, ArraysTold, ObjectsTold, ScalarsTold
<1> QED  BY <1>4, <1>10

-----------------------------------------------------------------------------
(***************************************************************************)
(* The value decides the bytes: what says the same, and holds no odd       *)
(* number, is refused alike or has the same bytes.                         *)
(***************************************************************************)
Plain(v) == \A u \in parts[v] : ~Odd(u)

LEMMA PlainIs ==
    ASSUME NEW v \in Values, Plain(v)
    PROVE  ~Odd(v) /\ \A u \in Items(v) : Plain(u)
<1>1. parts[v] = {v} \union UNION {parts[u] : u \in Items(v)}
  BY Recursion, Zenon DEF PartsOf
<1> QED  BY <1>1 DEF Plain

\* What a meaning is, for each kind of value.
LEMMA MeaningIs ==
    ASSUME NEW v \in Values
    PROVE  \/ v.kind \in Numbers /\ meaning[v] = [number |-> v.of]
           \/ v.kind \in Arrays
              /\ meaning[v] = [array |-> [n \in DOMAIN v.of |-> meaning[Item(v, n)]]]
           \/ v.kind \in Objects
              /\ meaning[v] = [object |-> [n \in DOMAIN v.of |-> meaning[Item(v, n)]]]
           \/ v.kind = "string" /\ meaning[v] = [string |-> v.of]
           \/ v.kind = "bool" /\ meaning[v] = [bool |-> v.of]
           \/ v.kind \in {"null", "foreign"} /\ meaning[v] = [other |-> v.kind]
<1>1. meaning[v] = MeaningOf(v, meaning) /\ v.kind \in Kinds
  BY Recursion, ValuesAssumption
<1>2. CASE v.kind \in Numbers
  BY <1>1, <1>2 DEF MeaningOf, Numbers, Arrays, Objects
<1>3. CASE v.kind \in Arrays
  BY <1>1, <1>3 DEF MeaningOf, Numbers, Arrays, Objects
<1>4. CASE v.kind \in Objects
  BY <1>1, <1>4 DEF MeaningOf, Numbers, Arrays, Objects
<1>5. CASE v.kind = "string"
  BY <1>1, <1>5 DEF MeaningOf, Numbers, Arrays, Objects
<1>6. CASE v.kind = "bool"
  BY <1>1, <1>6 DEF MeaningOf, Numbers, Arrays, Objects
<1>7. CASE v.kind \in {"null", "foreign"}
  BY <1>1, <1>7 DEF MeaningOf, Numbers, Arrays, Objects
<1> QED  BY <1>1, <1>2, <1>3, <1>4, <1>5, <1>6, <1>7 DEF Kinds

LEMMA RecordsDiffer ==
    \A a, b :
        /\ [number |-> a] # [array |-> b] /\ [number |-> a] # [object |-> b]
        /\ [number |-> a] # [string |-> b] /\ [number |-> a] # [bool |-> b]
        /\ [number |-> a] # [other |-> b] /\ [array |-> a] # [object |-> b]
        /\ [array |-> a] # [string |-> b] /\ [array |-> a] # [bool |-> b]
        /\ [array |-> a] # [other |-> b] /\ [object |-> a] # [string |-> b]
        /\ [object |-> a] # [bool |-> b] /\ [object |-> a] # [other |-> b]
        /\ [string |-> a] # [bool |-> b] /\ [string |-> a] # [other |-> b]
        /\ [bool |-> a] # [other |-> b]
        /\ [number |-> a] = [number |-> b] => a = b
        /\ [array |-> a] = [array |-> b] => a = b
        /\ [object |-> a] = [object |-> b] => a = b
        /\ [string |-> a] = [string |-> b] => a = b
        /\ [bool |-> a] = [bool |-> b] => a = b
        /\ [other |-> a] = [other |-> b] => a = b
OBVIOUS

LEMMA SameMeaning ==
    ASSUME NEW v \in Values, NEW w \in Values, meaning[v] = meaning[w]
    PROVE  \/ v.kind \in Numbers /\ w.kind \in Numbers /\ v.of = w.of
           \/ /\ v.kind \in Arrays /\ w.kind \in Arrays
              /\ [n \in DOMAIN v.of |-> meaning[Item(v, n)]]
                    = [n \in DOMAIN w.of |-> meaning[Item(w, n)]]
           \/ /\ v.kind \in Objects /\ w.kind \in Objects
              /\ [n \in DOMAIN v.of |-> meaning[Item(v, n)]]
                    = [n \in DOMAIN w.of |-> meaning[Item(w, n)]]
           \/ v.kind = w.kind /\ v.kind \in {"string", "bool"} /\ v.of = w.of
           \/ v.kind = w.kind /\ v.kind \in {"null", "foreign"}
<1> DEFINE f == [n \in DOMAIN v.of |-> meaning[Item(v, n)]]
           g == [n \in DOMAIN w.of |-> meaning[Item(w, n)]]
           mv == meaning[v]
           mw == meaning[w]
<1>1. \/ v.kind \in Numbers /\ mv = [number |-> v.of]
      \/ v.kind \in Arrays /\ mv = [array |-> f]
      \/ v.kind \in Objects /\ mv = [object |-> f]
      \/ v.kind = "string" /\ mv = [string |-> v.of]
      \/ v.kind = "bool" /\ mv = [bool |-> v.of]
      \/ v.kind \in {"null", "foreign"} /\ mv = [other |-> v.kind]
  BY MeaningIs, Zenon
<1>2. \/ w.kind \in Numbers /\ mw = [number |-> w.of]
      \/ w.kind \in Arrays /\ mw = [array |-> g]
      \/ w.kind \in Objects /\ mw = [object |-> g]
      \/ w.kind = "string" /\ mw = [string |-> w.of]
      \/ w.kind = "bool" /\ mw = [bool |-> w.of]
      \/ w.kind \in {"null", "foreign"} /\ mw = [other |-> w.kind]
  BY MeaningIs, Zenon
<1>3. mv = mw
  OBVIOUS
<1> HIDE DEF f, g, mv, mw
<1>4. \/ v.kind \in Numbers /\ w.kind \in Numbers /\ v.of = w.of
      \/ v.kind \in Arrays /\ w.kind \in Arrays /\ f = g
      \/ v.kind \in Objects /\ w.kind \in Objects /\ f = g
      \/ v.kind = w.kind /\ v.kind \in {"string", "bool"} /\ v.of = w.of
      \/ v.kind = w.kind /\ v.kind \in {"null", "foreign"}
  BY <1>1, <1>2, <1>3
<1> QED  BY <1>4 DEF f, g

\* Numbers that are not odd are spelled as JavaScript does, and refused alike.
LEMMA PlainNumber ==
    ASSUME NEW v \in Values, v.kind \in Numbers, ~Odd(v), ~Foreign(v)
    PROVE  encoding[v] = v.of.text[StyleInJS(v.of)]
<1>1. encoding[v] = Scalar(v)
  BY EncodingIs DEF Numbers, Arrays, Objects
<1>2. v.of.exp \in Int
  BY NumbersAssumption
<1>3. CASE v.kind = "jsonNumber"
  BY <1>1, <1>3 DEF Scalar, Odd
<1>4. CASE v.kind = "float64"
  <2>1. Scalar(v) = v.of.text[FloatStyle(v.of)]
    BY <1>4 DEF Scalar
  <2>2. v.of.integral => v.of.exp >= 0
    BY NumbersAssumption
  <2>3. IF v.of.integral THEN v.of.exp < 15 ELSE v.of.exp \in -4 .. 5
    BY <1>4 DEF Odd
  <2>4. FloatStyle(v.of) = StyleInJS(v.of)
    <3>1. CASE v.of.integral
      <4>1. v.of.exp < 15 /\ v.of.exp >= 0
        BY <2>2, <2>3, <3>1
      <4>2. FloatStyle(v.of) = "bare"
        BY <3>1, <4>1 DEF FloatStyle
      <4>3. StyleInJS(v.of) = "bare"
        BY <1>2, <3>1, <4>1 DEF StyleInJS
      <4> QED  BY <4>2, <4>3
    <3>2. CASE ~v.of.integral
      <4>1. v.of.exp \in -4 .. 5
        BY <2>3, <3>2
      <4>2. FloatStyle(v.of) = "point"
        BY <3>2, <4>1 DEF FloatStyle
      <4>3. StyleInJS(v.of) = "point"
        BY <3>2, <4>1 DEF StyleInJS
      <4> QED  BY <4>2, <4>3
    <3> QED  BY <3>1, <3>2
  <2> QED  BY <1>1, <2>1, <2>4
<1>5. CASE v.kind = "int"
  <2>1. Scalar(v) = v.of.text["bare"]
    BY <1>5 DEF Scalar
  <2>2. v.of.integral /\ v.of.exp <= 18 /\ v.of.exp >= 0
    BY <1>5, NumbersAssumption
  <2>3. StyleInJS(v.of) = "bare"
    BY <1>2, <2>2 DEF StyleInJS
  <2> QED  BY <1>1, <2>1, <2>3
<1> QED  BY <1>3, <1>4, <1>5 DEF Numbers

LEMMA SameNumbers ==
    ASSUME NEW v \in Values, NEW w \in Values, v.kind \in Numbers, w.kind \in Numbers,
           v.of = w.of, ~Odd(v), ~Odd(w)
    PROVE  encoding[v] = encoding[w] /\ (Foreign(v) <=> Foreign(w))
<1>1. ASSUME NEW s \in Values, NEW t \in Values, s.kind \in Numbers, t.kind \in Numbers,
             s.of = t.of, ~Odd(s), Foreign(s)
      PROVE  Foreign(t)
  <2>1. s.kind = "float64" /\ ~s.of.finite
    BY <1>1 DEF Foreign, Numbers
  <2>2. IF s.of.integral THEN s.of.exp < 15 ELSE s.of.exp \in -4 .. 5
    BY <1>1, <2>1 DEF Odd
  <2>3. s.of.exp \in Int /\ s.of.exp < 15
    BY <1>1, <2>2, NumbersAssumption
  <2>4. SUFFICES ASSUME t.kind # "float64" PROVE FALSE
    BY <1>1, <2>1 DEF Foreign
  <2>5. t.of.exp >= 308
    BY <1>1, <2>1, <2>4, NumbersAssumption
  <2> QED  BY <1>1, <2>3, <2>5
<1>2. Foreign(v) <=> Foreign(w)
  BY <1>1
<1>3. CASE Foreign(v) /\ Foreign(w)
  <2>1. encoding[v] = <<>> /\ encoding[w] = <<>>
    BY <1>3, EncodingIs DEF Numbers, Arrays, Objects
  <2> QED  BY <1>2, <2>1
<1>4. CASE ~Foreign(v) /\ ~Foreign(w)
  BY <1>2, <1>4, PlainNumber
<1> QED  BY <1>2, <1>3, <1>4

\* The two are refused alike, or have the same bytes.
SameOut(v, w) == encoding[v] = encoding[w] /\ (Refused(v) <=> Refused(w))

LEMMA SameScalars ==
    ASSUME NEW v \in Values, NEW w \in Values, ~Odd(v), ~Odd(w),
           \/ v.kind \in Numbers /\ w.kind \in Numbers /\ v.of = w.of
           \/ v.kind = w.kind /\ v.kind \in {"string", "bool"} /\ v.of = w.of
           \/ v.kind = w.kind /\ v.kind \in {"null", "foreign"}
    PROVE  SameOut(v, w)
<1>1. v.kind \notin Arrays \union Objects /\ w.kind \notin Arrays \union Objects
  BY DEF Numbers, Arrays, Objects
<1>2. (Refused(v) <=> Foreign(v)) /\ (Refused(w) <=> Foreign(w))
  <2>1. Items(v) = {} /\ Items(w) = {}
    BY <1>1, ContentFacts
  <2> QED  BY <2>1, RefusedIs
<1>3. encoding[v] = encoding[w] /\ (Foreign(v) <=> Foreign(w))
  <2>1. CASE v.kind \in Numbers /\ w.kind \in Numbers /\ v.of = w.of
    BY <2>1, SameNumbers
  <2>2. CASE v.kind = w.kind /\ v.kind \in {"string", "bool"} /\ v.of = w.of
    <3>1. ~Foreign(v) /\ ~Foreign(w)
      BY <2>2 DEF Foreign
    <3>2. encoding[v] = Scalar(v) /\ encoding[w] = Scalar(w)
      BY <1>1, <3>1, EncodingIs
    <3>3. Scalar(v) = Scalar(w)
      BY <2>2 DEF Scalar
    <3> QED  BY <3>1, <3>2, <3>3
  <2>3. CASE v.kind = w.kind /\ v.kind = "null"
    <3>1. ~Foreign(v) /\ ~Foreign(w)
      BY <2>3 DEF Foreign
    <3>2. encoding[v] = Scalar(v) /\ encoding[w] = Scalar(w)
      BY <1>1, <3>1, EncodingIs
    <3>3. Scalar(v) = <<"n", "u", "l", "l">> /\ Scalar(w) = <<"n", "u", "l", "l">>
      BY <2>3 DEF Scalar
    <3> QED  BY <3>1, <3>2, <3>3
  <2>4. CASE v.kind = w.kind /\ v.kind = "foreign"
    <3>1. Foreign(v) /\ Foreign(w)
      BY <2>4 DEF Foreign
    <3>2. encoding[v] = <<>> /\ encoding[w] = <<>>
      BY <1>1, <3>1, EncodingIs
    <3> QED  BY <3>1, <3>2
  <2> QED  BY <2>1, <2>2, <2>3, <2>4
<1> QED  BY <1>2, <1>3 DEF SameOut

LEMMA SameContents ==
    ASSUME NEW v \in Values, NEW w \in Values,
           \/ v.kind \in Arrays /\ w.kind \in Arrays
           \/ v.kind \in Objects /\ w.kind \in Objects,
           DOMAIN v.of = DOMAIN w.of,
           \A n \in DOMAIN v.of : SameOut(Item(v, n), Item(w, n))
    PROVE  SameOut(v, w)
<1>1. \A n \in DOMAIN v.of : /\ encoding[Item(v, n)] = encoding[Item(w, n)]
                             /\ Refused(Item(v, n)) <=> Refused(Item(w, n))
  BY DEF SameOut
<1>2. encoding[v] = encoding[w]
  <2>1. CASE v.kind \in Arrays /\ w.kind \in Arrays
    <3>1. ItemTexts(v, encoding) = ItemTexts(w, encoding)
      BY <1>1 DEF ItemTexts
    <3> QED  BY <2>1, <3>1, EncodingIs
  <2>2. CASE v.kind \in Objects /\ w.kind \in Objects
    <3>1. SortedKeys(v) = SortedKeys(w)
      BY DEF SortedKeys
    <3>2. \A i \in DOMAIN SortedKeys(v) : SortedKeys(v)[i] \in DOMAIN v.of
      BY <2>2, SortedKeysFacts
    <3>3. MemberTexts(v, encoding) = MemberTexts(w, encoding)
      BY <1>1, <3>1, <3>2 DEF MemberTexts
    <3> QED  BY <2>2, <3>3, EncodingIs
  <2> QED  BY <2>1, <2>2
<1>3. Refused(v) <=> Refused(w)
  <2>1. ~Foreign(v) /\ ~Foreign(w)
    BY DEF Foreign, Arrays, Objects
  <2>2. /\ Items(v) = {Item(v, n) : n \in DOMAIN v.of}
        /\ Items(w) = {Item(w, n) : n \in DOMAIN w.of}
    BY DEF Items
  <2>3. (\E u \in Items(v) : Refused(u)) <=> \E z \in Items(w) : Refused(z)
    BY <1>1, <2>2
  <2> QED  BY <2>1, <2>3, RefusedIs
<1> QED  BY <1>2, <1>3 DEF SameOut

LEMMA MeaningDecides ==
    \A v, w \in Values : meaning[v] = meaning[w] /\ Plain(v) /\ Plain(w) => SameOut(v, w)
<1> DEFINE Bad(v) == \E w \in Values :
               meaning[v] = meaning[w] /\ Plain(v) /\ Plain(w) /\ ~SameOut(v, w)
           T == {n \in Nat : \E v \in Values : Depth[v] = n /\ Bad(v)}
<1>1. SUFFICES ASSUME T # {} PROVE FALSE
  BY ValuesAssumption
<1>2. PICK n \in T : \A j \in T : n <= j
  <2>1. T \in SUBSET Nat
    OBVIOUS
  <2> QED  BY <1>1, <2>1, Least
<1>3. PICK v \in Values : Depth[v] = n /\ Bad(v)
  BY <1>2
<1>4. PICK w \in Values : meaning[v] = meaning[w] /\ Plain(v) /\ Plain(w) /\ ~SameOut(v, w)
  BY <1>3
<1>5. \A u \in Items(v) : ~Bad(u)
  <2> TAKE u \in Items(v)
  <2>1. u \in Values /\ Depth[u] \in Nat /\ ~(n <= Depth[u])
    BY <1>3, ItemsAreBelow
  <2> QED  BY <1>2, <2>1
<1> HIDE DEF T
<1>6. /\ ~Odd(v) /\ \A u \in Items(v) : u \in Values /\ Plain(u)
      /\ ~Odd(w) /\ \A z \in Items(w) : z \in Values /\ Plain(z)
  BY <1>4, PlainIs, ItemsAreBelow
<1>7. \A u \in Items(v) : \A z \in Items(w) : meaning[u] = meaning[z] => SameOut(u, z)
  BY <1>5, <1>6
<1> DEFINE f == [i \in DOMAIN v.of |-> meaning[Item(v, i)]]
           g == [i \in DOMAIN w.of |-> meaning[Item(w, i)]]
<1>8. \/ v.kind \in Numbers /\ w.kind \in Numbers /\ v.of = w.of
      \/ v.kind \in Arrays /\ w.kind \in Arrays /\ f = g
      \/ v.kind \in Objects /\ w.kind \in Objects /\ f = g
      \/ v.kind = w.kind /\ v.kind \in {"string", "bool"} /\ v.of = w.of
      \/ v.kind = w.kind /\ v.kind \in {"null", "foreign"}
  BY <1>4, SameMeaning, Zenon
<1>9. /\ DOMAIN f = DOMAIN v.of /\ \A i \in DOMAIN v.of : f[i] = meaning[Item(v, i)]
      /\ DOMAIN g = DOMAIN w.of /\ \A i \in DOMAIN w.of : g[i] = meaning[Item(w, i)]
  OBVIOUS
<1> HIDE DEF f, g, Bad
<1>10. ASSUME f = g, \/ v.kind \in Arrays /\ w.kind \in Arrays
                     \/ v.kind \in Objects /\ w.kind \in Objects
       PROVE  SameOut(v, w)
  <2>1. /\ \A i \in DOMAIN v.of : Item(v, i) \in Items(v)
        /\ \A i \in DOMAIN w.of : Item(w, i) \in Items(w)
    BY <1>10 DEF Items
  <2>2. DOMAIN v.of = DOMAIN w.of
    BY <1>9, <1>10
  <2>3. \A i \in DOMAIN v.of : SameOut(Item(v, i), Item(w, i))
    BY <1>7, <1>9, <1>10, <2>1, <2>2
  <2> QED  BY <1>10, <2>2, <2>3, SameContents
<1>11. CASE v.kind \in Numbers /\ w.kind \in Numbers /\ v.of = w.of
  BY <1>4, <1>6, <1>11, SameScalars
<1>12. CASE v.kind \in Arrays /\ w.kind \in Arrays /\ f = g
  BY <1>4, <1>10, <1>12, Zenon
<1>13. CASE v.kind \in Objects /\ w.kind \in Objects /\ f = g
  BY <1>4, <1>10, <1>13, Zenon
<1>14. CASE v.kind = w.kind /\ v.kind \in {"string", "bool"} /\ v.of = w.of
  BY <1>4, <1>6, <1>14, SameScalars
<1>15. CASE v.kind = w.kind /\ v.kind \in {"null", "foreign"}
  BY <1>4, <1>6, <1>15, SameScalars
<1> QED  BY <1>8, <1>11, <1>12, <1>13, <1>14, <1>15, Zenon

-----------------------------------------------------------------------------
(***************************************************************************)
(* The stack.  What it is to become, and whether Encode is to fail on it.  *)
(***************************************************************************)
LEMMA ConcatEqual ==
    ASSUME NEW S, NEW f \in Seq(S), NEW g \in Seq(S), NEW h \in Seq(S),
           Len(h) = Len(f) + Len(g),
           \A n \in 1 .. Len(f) : h[n] = f[n],
           \A n \in 1 .. Len(g) : h[Len(f) + n] = g[n]
    PROVE  h = f \o g
<1>1. /\ f \o g \in Seq(S) /\ Len(f \o g) = Len(f) + Len(g)
      /\ \A n \in 1 .. Len(f) + Len(g) : (f \o g)[n] = IF n <= Len(f) THEN f[n] ELSE g[n - Len(f)]
  BY ConcatProperties
<1>2. Len(f) \in Nat /\ Len(g) \in Nat
  BY LenProperties
<1>3. \A n \in 1 .. Len(f) + Len(g) : h[n] = (f \o g)[n]
  <2> TAKE n \in 1 .. Len(f) + Len(g)
  <2>1. CASE n <= Len(f)
    BY <1>1, <1>2, <2>1
  <2>2. CASE n > Len(f)
    <3>1. n - Len(f) \in 1 .. Len(g) /\ Len(f) + (n - Len(f)) = n /\ ~(n <= Len(f))
      BY <1>2, <2>2
    <3>2. h[n] = g[n - Len(f)]
      BY <3>1
    <3> QED  BY <1>1, <3>1, <3>2
  <2> QED  BY <1>2, <2>1, <2>2
<1> DEFINE fg == f \o g
<1>4. fg \in Seq(S) /\ Len(fg) = Len(h) /\ \A n \in 1 .. Len(h) : h[n] = fg[n]
  BY <1>1, <1>3
<1> HIDE DEF fg
<1>5. h = fg
  BY <1>4, SeqEqual
<1> QED  BY <1>5 DEF fg

LEMMA AppendEqual ==
    ASSUME NEW S, NEW f \in Seq(S), NEW z \in S, NEW h \in Seq(S),
           Len(h) = Len(f) + 1, \A n \in 1 .. Len(f) : h[n] = f[n], h[Len(f) + 1] = z
    PROVE  h = Append(f, z)
<1>1. /\ Append(f, z) \in Seq(S) /\ Len(Append(f, z)) = Len(f) + 1
      /\ \A n \in 1 .. Len(f) : Append(f, z)[n] = f[n]
      /\ Append(f, z)[Len(f) + 1] = z
  BY AppendProperties
<1>2. Len(f) \in Nat
  BY LenProperties
<1>3. \A n \in 1 .. Len(h) : n = Len(f) + 1 \/ n \in 1 .. Len(f)
  BY <1>2
<1> DEFINE fz == Append(f, z)
<1>4. fz \in Seq(S) /\ Len(fz) = Len(h) /\ \A n \in 1 .. Len(h) : h[n] = fz[n]
  BY <1>1, <1>3
<1> HIDE DEF fz
<1>5. h = fz
  BY <1>4, SeqEqual
<1> QED  BY <1>5 DEF fz

Entries == Values \union {Text(x) : x \in Output}
TextOf(entry) == IF entry.kind = "text" THEN entry.of ELSE encoding[entry]
Texts(entries) == [n \in DOMAIN entries |-> TextOf(entries[n])]
Written(entries) == FlattenSeq(Texts(entries))
RefusedIn(entries) == \E n \in DOMAIN entries : entries[n] \in Values /\ Refused(entries[n])

LEMMA EntryFacts ==
    /\ \A v \in Values : /\ v \in Entries /\ TextOf(v) = encoding[v]
                         /\ v.kind \in Kinds /\ v.kind # "text"
    /\ \A x \in Output : Text(x) \in Entries /\ TextOf(Text(x)) = x /\ Text(x) \notin Values
    /\ \A entry \in Entries : /\ TextOf(entry) \in Output
                              /\ entry.kind \in Kinds \union {"text"}
                              /\ entry \in Values <=> entry.kind # "text"
<1>1. \A v \in Values : v.kind \in Kinds /\ v.kind # "text"
  BY ValuesAssumption DEF Kinds, Arrays, Objects, Numbers
<1>2. \A x \in Output : Text(x).kind = "text" /\ Text(x).of = x
  BY DEF Text
<1>3. \A v \in Values : encoding[v] \in Output
  BY EncodingType
<1> QED  BY <1>1, <1>2, <1>3 DEF Entries, TextOf

LEMMA TextsFacts ==
    ASSUME NEW s \in Seq(Entries)
    PROVE  /\ Texts(s) \in Seq(Output) /\ Len(Texts(s)) = Len(s) /\ Len(s) \in Nat
           /\ DOMAIN s = 1 .. Len(s)
           /\ \A n \in 1 .. Len(s) : s[n] \in Entries /\ Texts(s)[n] = TextOf(s[n])
           /\ Written(s) \in Output
<1>1. Len(s) \in Nat /\ DOMAIN s = 1 .. Len(s)
  BY LenProperties
<1>2. \A n \in 1 .. Len(s) : s[n] \in Entries
  BY ElementOfSeq
<1>3. \A n \in 1 .. Len(s) : TextOf(s[n]) \in Output
  BY <1>2, EntryFacts
<1>4. Texts(s) = [n \in 1 .. Len(s) |-> TextOf(s[n])]
  BY <1>1 DEF Texts
<1>5. Texts(s) \in Seq(Output) /\ Len(Texts(s)) = Len(s)
  BY <1>1, <1>3, <1>4
<1>6. Written(s) \in Output
  BY <1>5, FlattenType DEF Written, Output
<1> QED  BY <1>1, <1>2, <1>4, <1>5, <1>6

LEMMA WrittenConcat ==
    ASSUME NEW s \in Seq(Entries), NEW t \in Seq(Entries)
    PROVE  /\ s \o t \in Seq(Entries)
           /\ Written(s \o t) = Written(s) \o Written(t)
           /\ RefusedIn(s \o t) <=> RefusedIn(s) \/ RefusedIn(t)
<1> DEFINE st == s \o t
<1>1. /\ st \in Seq(Entries) /\ Len(st) = Len(s) + Len(t)
      /\ \A n \in 1 .. Len(s) + Len(t) : st[n] = IF n <= Len(s) THEN s[n] ELSE t[n - Len(s)]
  BY ConcatProperties
<1> HIDE DEF st
<1>2. Len(s) \in Nat /\ Len(t) \in Nat /\ DOMAIN s = 1 .. Len(s) /\ DOMAIN t = 1 .. Len(t)
  BY TextsFacts
<1>3. DOMAIN st = 1 .. Len(s) + Len(t)
  BY <1>1, LenProperties
<1>4. Texts(st) = Texts(s) \o Texts(t)
  <2> DEFINE f == Texts(s)
             g == Texts(t)
             h == Texts(st)
  <2>1. /\ f \in Seq(Output) /\ Len(f) = Len(s) /\ \A n \in 1 .. Len(s) : f[n] = TextOf(s[n])
        /\ g \in Seq(Output) /\ Len(g) = Len(t) /\ \A n \in 1 .. Len(t) : g[n] = TextOf(t[n])
        /\ h \in Seq(Output) /\ Len(h) = Len(st) /\ \A n \in 1 .. Len(st) : h[n] = TextOf(st[n])
    BY <1>1, TextsFacts
  <2> HIDE DEF f, g, h
  <2>2. \A n \in 1 .. Len(f) : h[n] = f[n]
    <3> TAKE n \in 1 .. Len(f)
    <3>1. n \in 1 .. Len(st) /\ n \in 1 .. Len(s) + Len(t) /\ n \in 1 .. Len(s) /\ n <= Len(s)
      BY <1>1, <1>2, <2>1
    <3>2. st[n] = s[n]
      BY <1>1, <3>1
    <3> QED  BY <2>1, <3>1, <3>2
  <2>3. \A n \in 1 .. Len(g) : h[Len(f) + n] = g[n]
    <3> TAKE n \in 1 .. Len(g)
    <3>1. /\ n \in 1 .. Len(t) /\ Len(s) + n \in 1 .. Len(st) /\ ~(Len(s) + n <= Len(s))
          /\ Len(s) + n \in 1 .. Len(s) + Len(t) /\ (Len(s) + n) - Len(s) = n
      BY <1>1, <1>2, <2>1
    <3>2. st[Len(s) + n] = t[n]
      BY <1>1, <3>1
    <3> QED  BY <2>1, <3>1, <3>2
  <2>4. h = f \o g
    <3>1. f \in Seq(Output) /\ g \in Seq(Output) /\ h \in Seq(Output)
      BY <2>1
    <3>2. Len(h) = Len(f) + Len(g)
      BY <1>1, <2>1
    <3> QED  BY <2>2, <2>3, <3>1, <3>2, ConcatEqual, Zenon
  <2> QED  BY <2>4 DEF f, g, h
<1>5. Written(st) = Written(s) \o Written(t)
  <2>1. Texts(s) \in Seq(Output) /\ Texts(t) \in Seq(Output)
    BY TextsFacts
  <2> QED  BY <1>4, <2>1, FlattenConcat DEF Written, Output
<1>6. RefusedIn(st) <=> RefusedIn(s) \/ RefusedIn(t)
  <2>1. ASSUME RefusedIn(st) PROVE RefusedIn(s) \/ RefusedIn(t)
    <3>1. PICK n \in 1 .. Len(s) + Len(t) : st[n] \in Values /\ Refused(st[n])
      BY <1>3, <2>1 DEF RefusedIn
    <3>2. CASE n <= Len(s)
      BY <1>1, <1>2, <3>1, <3>2 DEF RefusedIn
    <3>3. CASE n > Len(s)
      <4>1. n - Len(s) \in 1 .. Len(t) /\ ~(n <= Len(s))
        BY <1>2, <3>3
      <4> QED  BY <1>1, <1>2, <3>1, <4>1 DEF RefusedIn
    <3> QED  BY <1>2, <3>2, <3>3
  <2>2. ASSUME RefusedIn(s) PROVE RefusedIn(st)
    <3>1. PICK n \in 1 .. Len(s) : s[n] \in Values /\ Refused(s[n])
      BY <1>2, <2>2 DEF RefusedIn
    <3>2. n \in 1 .. Len(s) + Len(t) /\ n <= Len(s)
      BY <1>2
    <3> QED  BY <1>1, <1>3, <3>1, <3>2 DEF RefusedIn
  <2>3. ASSUME RefusedIn(t) PROVE RefusedIn(st)
    <3>1. PICK n \in 1 .. Len(t) : t[n] \in Values /\ Refused(t[n])
      BY <1>2, <2>3 DEF RefusedIn
    <3>2. /\ Len(s) + n \in 1 .. Len(s) + Len(t) /\ ~(Len(s) + n <= Len(s))
          /\ (Len(s) + n) - Len(s) = n
      BY <1>2
    <3>3. st[Len(s) + n] = t[n]
      BY <1>1, <3>2
    <3> QED  BY <1>3, <3>1, <3>2, <3>3 DEF RefusedIn
  <2> QED  BY <2>1, <2>2, <2>3
<1> QED  BY <1>1, <1>5, <1>6 DEF st

LEMMA WrittenOne ==
    /\ <<>> \in Seq(Entries) /\ Written(<<>>) = <<>> /\ ~RefusedIn(<<>>)
    /\ \A entry \in Entries :
          /\ <<entry>> \in Seq(Entries) /\ Written(<<entry>>) = TextOf(entry)
          /\ RefusedIn(<<entry>>) <=> entry \in Values /\ Refused(entry)
<1>1. <<>> \in Seq(Entries) /\ Written(<<>>) = <<>> /\ ~RefusedIn(<<>>)
  <2>1. Texts(<<>>) = <<>>
    BY DEF Texts
  <2> QED  BY <2>1, FlattenEmpty DEF Written, RefusedIn
<1>2. ASSUME NEW entry \in Entries
      PROVE  /\ <<entry>> \in Seq(Entries) /\ Written(<<entry>>) = TextOf(entry)
             /\ RefusedIn(<<entry>>) <=> entry \in Values /\ Refused(entry)
  <2>1. Texts(<<entry>>) = <<TextOf(entry)>>
    BY DEF Texts
  <2>2. Written(<<entry>>) = TextOf(entry)
    <3>1. TextOf(entry) \in Seq(Chars)
      BY EntryFacts DEF Output
    <3> QED  BY <2>1, <3>1, FlattenOne DEF Written
  <2>3. RefusedIn(<<entry>>) <=> entry \in Values /\ Refused(entry)
    <3>1. DOMAIN <<entry>> = {1} /\ <<entry>>[1] = entry
      OBVIOUS
    <3> QED  BY <3>1 DEF RefusedIn
  <2> QED  BY <2>2, <2>3
<1> QED  BY <1>1, <1>2

\* Texts of sequences of entries.
EachWritten(seqs) == [n \in DOMAIN seqs |-> Written(seqs[n])]
SomeRefused(seqs) == \E n \in DOMAIN seqs : RefusedIn(seqs[n])

LEMMA EachWrittenFacts ==
    ASSUME NEW seqs \in Seq(Seq(Entries))
    PROVE  /\ EachWritten(seqs) \in Seq(Output) /\ Len(EachWritten(seqs)) = Len(seqs)
           /\ Len(seqs) \in Nat /\ DOMAIN seqs = 1 .. Len(seqs)
           /\ \A n \in 1 .. Len(seqs) : /\ seqs[n] \in Seq(Entries)
                                        /\ EachWritten(seqs)[n] = Written(seqs[n])
<1>1. Len(seqs) \in Nat /\ DOMAIN seqs = 1 .. Len(seqs)
  BY LenProperties
<1>2. \A n \in 1 .. Len(seqs) : seqs[n] \in Seq(Entries)
  BY ElementOfSeq
<1>3. \A n \in 1 .. Len(seqs) : Written(seqs[n]) \in Output
  BY <1>2, TextsFacts
<1>4. EachWritten(seqs) = [n \in 1 .. Len(seqs) |-> Written(seqs[n])]
  BY <1>1 DEF EachWritten
<1> QED  BY <1>1, <1>2, <1>3, <1>4

LEMMA WrittenFlatten ==
    \A seqs \in Seq(Seq(Entries)) :
        /\ FlattenSeq(seqs) \in Seq(Entries)
        /\ Written(FlattenSeq(seqs)) = FlattenSeq(EachWritten(seqs))
        /\ RefusedIn(FlattenSeq(seqs)) <=> SomeRefused(seqs)
<1> DEFINE Right(s) == /\ Written(FlattenSeq(s)) = FlattenSeq(EachWritten(s))
                       /\ RefusedIn(FlattenSeq(s)) <=> SomeRefused(s)
           T == {n \in Nat : \E s \in Seq(Seq(Entries)) : Len(s) = n /\ ~Right(s)}
<1>1. SUFFICES ASSUME T # {} PROVE FALSE
  BY LenProperties, FlattenType
<1>2. PICK n \in T : \A j \in T : n <= j
  <2>1. T \in SUBSET Nat
    OBVIOUS
  <2> QED  BY <1>1, <2>1, Least
<1>3. PICK s \in Seq(Seq(Entries)) : Len(s) = n /\ ~Right(s)
  BY <1>2
<1>4. s # <<>>
  <2>1. Right(<<>>)
    <3>1. EachWritten(<<>>) = <<>> /\ ~SomeRefused(<<>>)
      BY DEF EachWritten, SomeRefused
    <3> QED  BY <3>1, FlattenEmpty, WrittenOne
  <2> QED  BY <1>3, <2>1
<1>5. PICK t \in Seq(Seq(Entries)), last \in Seq(Entries) : s = Append(t, last)
  BY <1>4, SequenceEmptyOrAppend
<1>6. Len(t) \in Nat /\ Len(s) = Len(t) + 1 /\ s[Len(t) + 1] = last
      /\ \A i \in 1 .. Len(t) : s[i] = t[i]
  BY <1>5, AppendProperties, LenProperties
<1>7. Right(t)
  <2>1. Len(t) \in Nat /\ ~(n <= Len(t))
    BY <1>3, <1>6
  <2>2. Len(t) \notin T
    BY <1>2, <2>1
  <2> HIDE DEF Right
  <2> QED  BY <2>1, <2>2
<1> HIDE DEF T
<1>8. FlattenSeq(t) \in Seq(Entries) /\ FlattenSeq(s) = FlattenSeq(t) \o last
  BY <1>5, FlattenType, FlattenAppends
<1>9. EachWritten(s) = Append(EachWritten(t), Written(last))
  <2> DEFINE f == EachWritten(s)
             g == EachWritten(t)
  <2>1. /\ f \in Seq(Output) /\ Len(f) = Len(s) /\ \A i \in 1 .. Len(s) : f[i] = Written(s[i])
        /\ g \in Seq(Output) /\ Len(g) = Len(t) /\ \A i \in 1 .. Len(t) : g[i] = Written(t[i])
    BY EachWrittenFacts
  <2>2. Written(last) \in Output
    BY TextsFacts
  <2> HIDE DEF f, g
  <2>3. Len(f) = Len(g) + 1 /\ \A i \in 1 .. Len(g) : f[i] = g[i]
    <3>1. \A i \in 1 .. Len(t) : i \in 1 .. Len(s)
      BY <1>6
    <3> QED  BY <1>6, <2>1, <3>1
  <2>4. f[Len(g) + 1] = Written(last)
    <3>1. Len(t) + 1 \in 1 .. Len(s)
      BY <1>6
    <3> QED  BY <1>6, <2>1, <3>1
  <2>5. f = Append(g, Written(last))
    BY <2>1, <2>2, <2>3, <2>4, AppendEqual
  <2> QED  BY <2>5 DEF f, g
<1>10. Written(FlattenSeq(s)) = FlattenSeq(EachWritten(s))
  <2>1. EachWritten(t) \in Seq(Seq(Chars)) /\ Written(last) \in Seq(Chars)
    BY EachWrittenFacts, TextsFacts DEF Output
  <2>2. FlattenSeq(EachWritten(t)) \in Seq(Chars)
    BY <2>1, FlattenType
  <2>3. FlattenSeq(EachWritten(s)) = FlattenSeq(EachWritten(t)) \o Written(last)
    BY <1>9, <2>1, <2>2, FlattenAppends
  <2>4. Written(FlattenSeq(s)) = Written(FlattenSeq(t)) \o Written(last)
    BY <1>8, WrittenConcat
  <2> QED  BY <1>7, <2>3, <2>4, Zenon
<1>11. RefusedIn(FlattenSeq(s)) <=> SomeRefused(s)
  <2>1. RefusedIn(FlattenSeq(s)) <=> RefusedIn(FlattenSeq(t)) \/ RefusedIn(last)
    BY <1>8, WrittenConcat
  <2>2. DOMAIN s = 1 .. Len(t) + 1 /\ DOMAIN t = 1 .. Len(t)
    BY <1>6, EachWrittenFacts
  <2>3. SomeRefused(s) <=> SomeRefused(t) \/ RefusedIn(last)
    <3>1. ASSUME SomeRefused(s) PROVE SomeRefused(t) \/ RefusedIn(last)
      <4>1. PICK i \in 1 .. Len(t) + 1 : RefusedIn(s[i])
        BY <2>2, <3>1 DEF SomeRefused
      <4>2. CASE i = Len(t) + 1
        BY <1>6, <4>1, <4>2
      <4>3. CASE i \in 1 .. Len(t)
        BY <1>6, <2>2, <4>1, <4>3 DEF SomeRefused
      <4> QED  BY <1>6, <4>2, <4>3
    <3>2. ASSUME SomeRefused(t) PROVE SomeRefused(s)
      <4>1. PICK i \in 1 .. Len(t) : RefusedIn(t[i])
        BY <2>2, <3>2 DEF SomeRefused
      <4>2. i \in 1 .. Len(t) + 1
        BY <1>6
      <4> QED  BY <1>6, <2>2, <4>1, <4>2 DEF SomeRefused
    <3>3. ASSUME RefusedIn(last) PROVE SomeRefused(s)
      <4>1. Len(t) + 1 \in 1 .. Len(t) + 1
        BY <1>6
      <4> QED  BY <1>6, <2>2, <3>3, <4>1 DEF SomeRefused
    <3> QED  BY <3>1, <3>2, <3>3
  <2> QED  BY <1>7, <2>1, <2>3
<1> QED  BY <1>3, <1>10, <1>11

\* What stands between brackets, and what follows it.
LEMMA WrittenBetween ==
    ASSUME NEW seqs \in Seq(Seq(Entries)), NEW rest \in Seq(Entries),
           NEW open \in Chars, NEW close \in Chars
    PROVE  LET new == <<Text(<<open>>)>> \o Separated(seqs) \o <<Text(<<close>>)>> \o rest
           IN  /\ new \in Seq(Entries)
               /\ Written(new) = Between(open, EachWritten(seqs), close) \o Written(rest)
               /\ RefusedIn(new) <=> SomeRefused(seqs) \/ RefusedIn(rest)
<1> DEFINE c == <<Text(<<"COMMA">>)>>
           f == [n \in DOMAIN seqs |-> IF n = 1 THEN seqs[n] ELSE c \o seqs[n]]
<1>1. /\ Len(seqs) \in Nat /\ DOMAIN seqs = 1 .. Len(seqs)
      /\ \A n \in 1 .. Len(seqs) : seqs[n] \in Seq(Entries)
      /\ EachWritten(seqs) \in Seq(Output) /\ DOMAIN EachWritten(seqs) = 1 .. Len(seqs)
      /\ \A n \in 1 .. Len(seqs) : EachWritten(seqs)[n] = Written(seqs[n])
  BY EachWrittenFacts DEF EachWritten
<1>2. c \in Seq(Entries) /\ Written(c) = <<"COMMA">> /\ ~RefusedIn(c)
  <2>1. <<"COMMA">> \in Output
    BY OneChar, Named
  <2> QED  BY <2>1, EntryFacts, WrittenOne
<1> HIDE DEF c
<1>3. \A n \in 1 .. Len(seqs) : f[n] \in Seq(Entries)
  BY <1>1, <1>2, WrittenConcat
<1>4. f \in Seq(Seq(Entries)) /\ DOMAIN f = 1 .. Len(seqs)
  <2>1. f = [n \in 1 .. Len(seqs) |-> f[n]]
    BY <1>1
  <2>2. DOMAIN f = 1 .. Len(seqs)
    BY <1>1
  <2> HIDE DEF f
  <2>3. [n \in 1 .. Len(seqs) |-> f[n]] \in Seq(Seq(Entries))
    BY <1>1, <1>3
  <2> QED  BY <2>1, <2>2, <2>3
<1>5. \A n \in 1 .. Len(seqs) : /\ Written(f[n]) = Comma(EachWritten(seqs))[n]
                                /\ RefusedIn(f[n]) <=> RefusedIn(seqs[n])
  <2> TAKE n \in 1 .. Len(seqs)
  <2>1. CASE n = 1
    <3>1. f[n] = seqs[n]
      BY <1>1, <2>1
    <3>2. Comma(EachWritten(seqs))[n] = EachWritten(seqs)[n]
      BY <1>1, <2>1 DEF Comma
    <3> QED  BY <1>1, <3>1, <3>2
  <2>2. CASE n # 1
    <3>1. f[n] = c \o seqs[n]
      BY <1>1, <2>2
    <3>2. Comma(EachWritten(seqs))[n] = <<"COMMA">> \o EachWritten(seqs)[n]
      BY <1>1, <2>2 DEF Comma
    <3>3. /\ Written(c \o seqs[n]) = Written(c) \o Written(seqs[n])
          /\ RefusedIn(c \o seqs[n]) <=> RefusedIn(c) \/ RefusedIn(seqs[n])
      BY <1>1, <1>2, WrittenConcat
    <3>4. EachWritten(seqs)[n] = Written(seqs[n])
      BY <1>1
    <3>5. Written(c) = <<"COMMA">> /\ ~RefusedIn(c)
      BY <1>2
    <3> HIDE DEF f
    <3> QED  BY <3>1, <3>2, <3>3, <3>4, <3>5, Zenon
  <2> QED  BY <2>1, <2>2
<1>6. /\ Separated(seqs) = FlattenSeq(f)
  BY DEF Separated, c
<1> HIDE DEF f
<1>7. EachWritten(f) = Comma(EachWritten(seqs)) /\ (SomeRefused(f) <=> SomeRefused(seqs))
  <2>1. DOMAIN Comma(EachWritten(seqs)) = 1 .. Len(seqs)
    BY <1>1 DEF Comma
  <2>2. Comma(EachWritten(seqs)) = [n \in 1 .. Len(seqs) |-> Comma(EachWritten(seqs))[n]]
    BY <2>1 DEF Comma
  <2>3. EachWritten(f) = [n \in 1 .. Len(seqs) |-> Written(f[n])]
    BY <1>4 DEF EachWritten
  <2>4. EachWritten(f) = Comma(EachWritten(seqs))
    BY <1>5, <2>2, <2>3
  <2>5. SomeRefused(f) <=> SomeRefused(seqs)
    BY <1>1, <1>4, <1>5 DEF SomeRefused
  <2> QED  BY <2>4, <2>5
<1> DEFINE o == <<Text(<<open>>)>>
           e == <<Text(<<close>>)>>
           s == Separated(seqs)
           body == FlattenSeq(Comma(EachWritten(seqs)))
<1>8. /\ s \in Seq(Entries) /\ Written(s) = body /\ (RefusedIn(s) <=> SomeRefused(seqs))
  BY <1>4, <1>6, <1>7, WrittenFlatten
<1>9. /\ o \in Seq(Entries) /\ Written(o) = <<open>> /\ ~RefusedIn(o)
      /\ e \in Seq(Entries) /\ Written(e) = <<close>> /\ ~RefusedIn(e)
  <2>1. <<open>> \in Output /\ <<close>> \in Output
    BY OneChar
  <2> QED  BY <2>1, EntryFacts, WrittenOne
<1>10. \A x \in Output : Between(open, EachWritten(seqs), close) \o x
                             = <<open>> \o (body \o (<<close>> \o x))
  BY <1>1, BetweenType
<1> SUFFICES LET new == o \o s \o e \o rest
             IN  /\ new \in Seq(Entries)
                 /\ Written(new) = Between(open, EachWritten(seqs), close) \o Written(rest)
                 /\ RefusedIn(new) <=> SomeRefused(seqs) \/ RefusedIn(rest)
  OBVIOUS
<1> HIDE DEF o, e, s, body
<1>11. o \o s \o e \o rest = o \o (s \o (e \o rest))
  <2>1. \A i, j, k \in Seq(Entries) : (i \o j) \o k = i \o (j \o k)
    BY ConcatLaws, Zenon
  <2>2. o \o s \in Seq(Entries) /\ e \o rest \in Seq(Entries)
    BY <1>8, <1>9, WrittenConcat
  <2>3. ((o \o s) \o e) \o rest = (o \o s) \o (e \o rest)
    <3>1. e \in Seq(Entries)
      BY <1>9
    <3> QED  BY <2>1, <2>2, <3>1, Zenon
  <2>4. (o \o s) \o (e \o rest) = o \o (s \o (e \o rest))
    <3>1. o \in Seq(Entries) /\ s \in Seq(Entries)
      BY <1>8, <1>9
    <3> QED  BY <2>1, <2>2, <3>1, Zenon
  <2> QED  BY <2>3, <2>4, Zenon
<1> DEFINE u == e \o rest
           w == s \o u
<1>12. /\ u \in Seq(Entries) /\ Written(u) = <<close>> \o Written(rest)
       /\ RefusedIn(u) <=> RefusedIn(rest)
  <2>1. /\ u \in Seq(Entries) /\ Written(u) = Written(e) \o Written(rest)
        /\ RefusedIn(u) <=> RefusedIn(e) \/ RefusedIn(rest)
    BY <1>9, WrittenConcat
  <2> HIDE DEF u
  <2> QED  BY <1>9, <2>1, Zenon
<1> HIDE DEF u
<1>13. /\ w \in Seq(Entries) /\ Written(w) = body \o Written(u)
       /\ RefusedIn(w) <=> SomeRefused(seqs) \/ RefusedIn(rest)
  BY <1>8, <1>12, WrittenConcat
<1> HIDE DEF w
<1>14. /\ o \o w \in Seq(Entries) /\ Written(o \o w) = <<open>> \o Written(w)
       /\ RefusedIn(o \o w) <=> SomeRefused(seqs) \/ RefusedIn(rest)
  <2>1. /\ o \o w \in Seq(Entries) /\ Written(o \o w) = Written(o) \o Written(w)
        /\ RefusedIn(o \o w) <=> RefusedIn(o) \/ RefusedIn(w)
    BY <1>9, <1>13, WrittenConcat
  <2>2. Written(o) = <<open>> /\ ~RefusedIn(o)
    BY <1>9
  <2> QED  BY <1>13, <2>1, <2>2, Zenon
<1>15. Written(o \o w) = Between(open, EachWritten(seqs), close) \o Written(rest)
  <2>1. Written(rest) \in Output
    BY TextsFacts
  <2>2. Between(open, EachWritten(seqs), close) \o Written(rest)
            = <<open>> \o (body \o (<<close>> \o Written(rest)))
    BY <1>10, <2>1, Zenon
  <2>3. Written(o \o w) = <<open>> \o (body \o (<<close>> \o Written(rest)))
    BY <1>12, <1>13, <1>14, Zenon
  <2> QED  BY <2>2, <2>3, Zenon
<1> QED  BY <1>11, <1>14, <1>15, Zenon DEF u, w

-----------------------------------------------------------------------------
(***************************************************************************)
(* The invariant: while Encode runs, what is in the buffer and what is to  *)
(* be written yet make the encoding of its value, and something that is to *)
(* be written is refused exactly if the value is.                          *)
(***************************************************************************)
Result(v) == IF Refused(v) THEN <<>> ELSE encoding[v]

Types ==
    /\ pair \in Values \X Values
    /\ todo \in Seq(Entries) /\ buf \in Output
    /\ outs \in Seq(Output) /\ Len(outs) <= 2

Returned == \A n \in 1 .. Len(outs) : outs[n] = Result(pair[n])

Encoding(v) == /\ buf \o Written(todo) = encoding[v]
               /\ RefusedIn(todo) <=> Refused(v)

IInv ==
    /\ Types
    /\ Returned
    /\ Running => Encoding(pair[Len(outs) + 1])

LEMMA Started ==
    ASSUME NEW v \in Values
    PROVE  /\ <<v>> \in Seq(Entries) /\ <<>> \in Output
           /\ <<>> \o Written(<<v>>) = encoding[v]
           /\ RefusedIn(<<v>>) <=> Refused(v)
<1>1. v \in Entries /\ TextOf(v) = encoding[v] /\ encoding[v] \in Output
  BY EntryFacts, EncodingType
<1>2. /\ <<v>> \in Seq(Entries) /\ Written(<<v>>) = encoding[v]
      /\ RefusedIn(<<v>>) <=> Refused(v)
  BY <1>1, WrittenOne
<1>3. <<>> \in Output /\ <<>> \o encoding[v] = encoding[v]
  BY <1>1, ConcatEmptySeq DEF Output
<1> QED  BY <1>2, <1>3, Zenon

LEMMA InitIInv == Init => IInv
<1> SUFFICES ASSUME Init PROVE IInv
  OBVIOUS
<1>1. pair \in Values \X Values /\ pair[1] \in Values
  BY DEF Init
<1>2. todo = <<pair[1]>> /\ buf = <<>> /\ outs = <<>>
  BY DEF Init
<1>3. outs \in Seq(Output) /\ Len(outs) = 0
  BY <1>2
<1>4. Types
  BY <1>1, <1>2, <1>3, Started DEF Types
<1>5. Returned
  BY <1>3 DEF Returned
<1>6. Encoding(pair[Len(outs) + 1])
  <2>1. Len(outs) + 1 = 1
    BY <1>3
  <2>2. Encoding(pair[1])
    BY <1>1, <1>2, Started, Zenon DEF Encoding
  <2> QED  BY <2>1, <2>2
<1> QED  BY <1>4, <1>5, <1>6 DEF IInv

\* The head of the stack and the rest.
LEMMA Popped ==
    ASSUME Types, todo # <<>>
    PROVE  /\ This \in Entries /\ Tail(todo) \in Seq(Entries)
           /\ Written(todo) = TextOf(This) \o Written(Tail(todo))
           /\ TextOf(This) \in Output /\ Written(Tail(todo)) \in Output
           /\ RefusedIn(todo) <=> (This \in Values /\ Refused(This)) \/ RefusedIn(Tail(todo))
<1>1. todo \in Seq(Entries)
  BY DEF Types
<1> DEFINE e == todo[1]
           t == Tail(todo)
<1>2. e \in Entries /\ t \in Seq(Entries) /\ todo = <<e>> \o t
  BY <1>1, FirstAndRest
<1>3. This = e
  BY DEF This
<1> HIDE DEF e, t
<1>4. /\ <<e>> \in Seq(Entries) /\ Written(<<e>>) = TextOf(e)
      /\ RefusedIn(<<e>>) <=> e \in Values /\ Refused(e)
      /\ TextOf(e) \in Output /\ Written(t) \in Output
  BY <1>2, WrittenOne, EntryFacts, TextsFacts
<1>5. /\ Written(<<e>> \o t) = Written(<<e>>) \o Written(t)
      /\ RefusedIn(<<e>> \o t) <=> RefusedIn(<<e>>) \/ RefusedIn(t)
  BY <1>2, <1>4, WrittenConcat
<1>6. /\ Written(todo) = TextOf(e) \o Written(t)
      /\ RefusedIn(todo) <=> (e \in Values /\ Refused(e)) \/ RefusedIn(t)
  BY <1>2, <1>4, <1>5, Zenon
<1> QED  BY <1>2, <1>3, <1>4, <1>6 DEF t

\* A step that only turns the head of the stack into what it stands for.
LEMMA Expanded ==
    ASSUME IInv, Pending, UNCHANGED <<pair, outs>>,
           todo' \in Seq(Entries), buf' \in Output,
           buf' \o Written(todo') = buf \o Written(todo),
           RefusedIn(todo') <=> RefusedIn(todo)
    PROVE  IInv'
<1>1. Types'
  BY DEF IInv, Types
<1>2. Returned'
  BY DEF IInv, Returned
<1>3. Running /\ (Running)' /\ Encoding(pair[Len(outs) + 1])
  BY DEF IInv, Pending, Running
<1>4. Encoding(pair[Len(outs) + 1])'
  <2> DEFINE v == pair[Len(outs) + 1]
  <2>1. v' = v
    OBVIOUS
  <2>2. buf \o Written(todo) = encoding[v] /\ (RefusedIn(todo) <=> Refused(v))
    BY <1>3 DEF Encoding
  <2> SUFFICES buf' \o Written(todo') = encoding[v] /\ (RefusedIn(todo') <=> Refused(v))
    BY <2>1 DEF Encoding
  <2> HIDE DEF v
  <2> QED  BY <2>2, Zenon
<1> QED  BY <1>1, <1>2, <1>4 DEF IInv

LEMMA ScalarStep ==
    ASSUME IInv, WriteScalar
    PROVE  IInv'
<1>1. Types /\ Pending /\ todo # <<>> /\ IsScalar(This) /\ UNCHANGED <<pair, outs>>
  BY DEF IInv, WriteScalar, Pending
<1>2. buf' = buf \o Scalar(This) /\ todo' = Tail(todo)
  BY DEF WriteScalar
<1> DEFINE t == Tail(todo)
<1>3. /\ This \in Entries /\ t \in Seq(Entries)
      /\ Written(todo) = TextOf(This) \o Written(t)
      /\ TextOf(This) \in Output /\ Written(t) \in Output
      /\ RefusedIn(todo) <=> (This \in Values /\ Refused(This)) \/ RefusedIn(t)
  BY <1>1, Popped
<1>4. TextOf(This) = Scalar(This) /\ ~(This \in Values /\ Refused(This))
  <2>1. CASE This.kind = "text"
    <3>1. TextOf(This) = This.of /\ Scalar(This) = This.of
      BY <2>1 DEF TextOf, Scalar
    <3>2. This \notin Values
      BY <1>3, <2>1, EntryFacts
    <3> QED  BY <3>1, <3>2
  <2>2. CASE This.kind # "text"
    <3>1. This \in Values /\ TextOf(This) = encoding[This]
      BY <1>3, <2>2, EntryFacts
    <3>2. This.kind \notin Arrays \union Objects /\ ~Foreign(This)
      BY <1>1 DEF IsScalar, Scalars, Arrays, Objects, Foreign
    <3>3. encoding[This] = Scalar(This)
      BY <3>1, <3>2, EncodingIs
    <3>4. Items(This) = {}
      BY <3>1, <3>2, ContentFacts
    <3>5. ~Refused(This)
      BY <3>1, <3>2, <3>4, RefusedIs
    <3> QED  BY <3>1, <3>3, <3>5
  <2> QED  BY <2>1, <2>2
<1> DEFINE s == Scalar(This)
<1>5. s \in Output /\ buf \in Output
  BY <1>1, <1>3, <1>4 DEF Types
<1> HIDE DEF s, t
<1>6. (buf \o s) \o Written(t) = buf \o (s \o Written(t))
  <2>1. \A a, b, c \in Output : (a \o b) \o c = a \o (b \o c)
    BY OutputLaws, Zenon
  <2>2. Written(t) \in Output
    BY <1>3
  <2> QED  BY <1>5, <2>1, <2>2, Zenon
<1>7. buf' \in Output /\ todo' \in Seq(Entries) /\ todo' = t /\ buf' = buf \o s
  <2>1. buf \o s \in Output
    BY <1>5, OutputConcat
  <2> QED  BY <1>2, <1>3, <2>1 DEF s, t
<1>8. buf' \o Written(todo') = buf \o Written(todo)
  <2>1. Written(todo) = s \o Written(t)
    BY <1>3, <1>4, Zenon DEF s
  <2> QED  BY <1>6, <1>7, <2>1, Zenon
<1>9. RefusedIn(todo') <=> RefusedIn(todo)
  BY <1>3, <1>4, <1>7, Zenon
<1> QED  BY <1>1, <1>7, <1>8, <1>9, Expanded

\* What stands for v on the stack before the rest.
Stands(new, v, rest) ==
    /\ new \in Seq(Entries)
    /\ Written(new) = encoding[v] \o Written(rest)
    /\ RefusedIn(new) <=> Refused(v) \/ RefusedIn(rest)

LEMMA ExpandedValue ==
    ASSUME IInv, Pending, UNCHANGED <<pair, buf, outs>>, This \in Values,
           Stands(todo', This, Tail(todo))
    PROVE  IInv'
<1>1. Types /\ todo # <<>>
  BY DEF IInv, Pending
<1> DEFINE t == Tail(todo)
<1>2. /\ Written(todo) = TextOf(This) \o Written(t)
      /\ RefusedIn(todo) <=> (This \in Values /\ Refused(This)) \/ RefusedIn(t)
  BY <1>1, Popped
<1>3. TextOf(This) = encoding[This]
  BY EntryFacts
<1>4. /\ todo' \in Seq(Entries) /\ Written(todo') = encoding[This] \o Written(t)
      /\ RefusedIn(todo') <=> Refused(This) \/ RefusedIn(t)
  BY DEF Stands
<1> HIDE DEF t
<1>5. Written(todo') = Written(todo)
  BY <1>2, <1>3, <1>4, Zenon
<1>6. RefusedIn(todo') <=> RefusedIn(todo)
  BY <1>2, <1>4
<1>7. buf' \in Output /\ UNCHANGED <<pair, outs>> /\ buf' = buf
  BY <1>1 DEF Types
<1>8. buf' \o Written(todo') = buf \o Written(todo)
  BY <1>5, <1>7, Zenon
<1> QED  BY <1>4, <1>6, <1>7, <1>8, Expanded

LEMMA ArrayStep ==
    ASSUME IInv, WriteArray
    PROVE  IInv'
<1>1. Types /\ Pending /\ todo # <<>> /\ This.kind \in Arrays /\ UNCHANGED <<pair, buf, outs>>
  BY DEF IInv, WriteArray, Pending
<1> DEFINE v == This
           t == Tail(todo)
           seqs == [n \in DOMAIN v.of |-> <<Item(v, n)>>]
<1>2. v \in Entries /\ t \in Seq(Entries) /\ v.kind # "text"
  BY <1>1, Popped DEF Arrays
<1>3. v \in Values /\ v.kind \in Arrays
  BY <1>1, <1>2, EntryFacts
<1>4. todo' = <<Text(<<"LBRACKET">>)>> \o Separated(seqs) \o <<Text(<<"RBRACKET">>)>> \o t
  BY DEF WriteArray
<1> HIDE DEF v, t
<1>5. /\ DOMAIN v.of = 1 .. Len(v.of) /\ Len(v.of) \in Nat
      /\ \A n \in DOMAIN v.of : /\ Item(v, n) \in Items(v) /\ Item(v, n) \in Values
                                /\ Item(v, n) \in Entries
  <2>1. DOMAIN v.of = 1 .. Len(v.of) /\ Len(v.of) \in Nat
    BY <1>3, ContentFacts
  <2>2. \A n \in DOMAIN v.of : Item(v, n) \in Items(v)
    BY <1>3, ContentFacts
  <2>3. \A n \in DOMAIN v.of : Item(v, n) \in Values
    BY <1>3, <2>2, ItemsAreBelow
  <2> QED  BY <2>1, <2>2, <2>3, EntryFacts
<1>6. \A n \in DOMAIN v.of :
         /\ <<Item(v, n)>> \in Seq(Entries) /\ Written(<<Item(v, n)>>) = encoding[Item(v, n)]
         /\ RefusedIn(<<Item(v, n)>>) <=> Refused(Item(v, n))
  BY <1>5, Started, WrittenOne, EntryFacts
<1>7. seqs \in Seq(Seq(Entries))
  <2>1. [n \in 1 .. Len(v.of) |-> <<Item(v, n)>>] \in Seq(Seq(Entries))
    BY <1>5, <1>6
  <2> QED  BY <1>5, <2>1
<1>8. EachWritten(seqs) = ItemTexts(v, encoding)
  BY <1>6 DEF EachWritten, ItemTexts
<1>9. SomeRefused(seqs) <=> Refused(v)
  <2>1. SomeRefused(seqs) <=> \E n \in DOMAIN v.of : Refused(Item(v, n))
    BY <1>6 DEF SomeRefused
  <2>2. Items(v) = {Item(v, n) : n \in DOMAIN v.of} /\ ~Foreign(v)
    BY <1>3 DEF Items, Foreign, Arrays
  <2>3. Refused(v) <=> \E n \in DOMAIN v.of : Refused(Item(v, n))
    BY <1>3, <2>2, RefusedIs
  <2> QED  BY <2>1, <2>3
<1>10. encoding[v] = Between("LBRACKET", ItemTexts(v, encoding), "RBRACKET")
  BY <1>3, EncodingIs
<1> HIDE DEF seqs
<1> DEFINE new == <<Text(<<"LBRACKET">>)>> \o Separated(seqs) \o <<Text(<<"RBRACKET">>)>> \o t
<1>11. /\ new \in Seq(Entries)
       /\ Written(new) = Between("LBRACKET", EachWritten(seqs), "RBRACKET") \o Written(t)
       /\ RefusedIn(new) <=> SomeRefused(seqs) \/ RefusedIn(t)
  BY <1>2, <1>7, WrittenBetween, Named
<1> HIDE DEF new
<1>12. Stands(new, v, t)
  BY <1>8, <1>9, <1>10, <1>11, Zenon DEF Stands
<1>13. Stands(todo', This, Tail(todo))
  BY <1>4, <1>12 DEF new, v, t
<1> QED  BY <1>1, <1>3, <1>13, ExpandedValue DEF v

LEMMA ObjectStep ==
    ASSUME IInv, WriteObject
    PROVE  IInv'
<1>1. Types /\ Pending /\ todo # <<>> /\ This.kind \in Objects /\ UNCHANGED <<pair, buf, outs>>
  BY DEF IInv, WriteObject, Pending
<1> DEFINE v == This
           t == Tail(todo)
<1>2. v \in Entries /\ t \in Seq(Entries) /\ v.kind # "text"
  BY <1>1, Popped DEF Objects
<1>3. v \in Values /\ v.kind \in Objects
  BY <1>1, <1>2, EntryFacts
<1>4. PICK keys \in SetToSeqs(DOMAIN v.of) :
         /\ Sorted(keys)
         /\ todo' = <<Text(<<"LBRACE">>)>>
                    \o Separated([n \in DOMAIN keys |->
                           <<Text(Quoted(keys[n]) \o <<"COLON">>), Item(v, keys[n])>>])
                    \o <<Text(<<"RBRACE">>)>> \o t
  BY DEF WriteObject
<1> HIDE DEF v, t
<1>5. keys = SortedKeys(v)
  BY <1>3, <1>4, SortedKeysFacts
<1>6. /\ DOMAIN keys = 1 .. Len(keys) /\ Len(keys) \in Nat
      /\ \A n \in DOMAIN keys : keys[n] \in Output /\ keys[n] \in DOMAIN v.of
                                /\ Item(v, keys[n]) \in Values
      /\ \A k \in DOMAIN v.of : \E n \in DOMAIN keys : keys[n] = k
  <2>1. /\ DOMAIN keys = 1 .. Len(keys) /\ Len(keys) \in Nat
        /\ \A n \in DOMAIN keys : keys[n] \in Output /\ Item(v, keys[n]) \in Items(v)
    BY <1>3, <1>5, ContentFacts
  <2>2. /\ \A n \in DOMAIN keys : keys[n] \in DOMAIN v.of
        /\ \A k \in DOMAIN v.of : \E n \in DOMAIN keys : keys[n] = k
    BY <1>3, <1>5, SortedKeysFacts
  <2>3. \A n \in DOMAIN keys : Item(v, keys[n]) \in Values
    BY <1>3, <2>1, ItemsAreBelow
  <2> QED  BY <2>1, <2>2, <2>3
<1> DEFINE member(n) == <<Text(Quoted(keys[n]) \o <<"COLON">>), Item(v, keys[n])>>
           seqs == [n \in DOMAIN keys |-> member(n)]
<1>7. ASSUME NEW n \in DOMAIN keys
      PROVE  /\ member(n) \in Seq(Entries)
             /\ Written(member(n)) = Member(keys[n], encoding[Item(v, keys[n])])
             /\ RefusedIn(member(n)) <=> Refused(Item(v, keys[n]))
  <2> DEFINE q == Quoted(keys[n])
             c == <<"COLON">>
             u == Item(v, keys[n])
             a == <<Text(q \o c)>>
             b == <<u>>
  <2>1. /\ q \in Output /\ c \in Output /\ u \in Values /\ encoding[u] \in Output
        /\ q \o c \in Output
    <3>1. q \in Output /\ c \in Output /\ u \in Values
      BY <1>6, QuotedType, OneChar, Named
    <3> HIDE DEF q, c, u
    <3> QED  BY <3>1, OutputConcat, EncodingType
  <2>2. /\ a \in Seq(Entries) /\ Written(a) = q \o c /\ ~RefusedIn(a)
    BY <2>1, EntryFacts, WrittenOne
  <2>3. /\ b \in Seq(Entries) /\ Written(b) = encoding[u] /\ (RefusedIn(b) <=> Refused(u))
    BY <2>1, EntryFacts, WrittenOne
  <2>4. member(n) = a \o b
    OBVIOUS
  <2>5. Member(keys[n], encoding[u]) = q \o (c \o encoding[u])
    BY DEF Member
  <2> SUFFICES /\ a \o b \in Seq(Entries)
               /\ Written(a \o b) = q \o (c \o encoding[u])
               /\ RefusedIn(a \o b) <=> Refused(u)
    BY <2>4, <2>5, Zenon
  <2> HIDE DEF a, b, q, c, u
  <2>6. /\ a \o b \in Seq(Entries) /\ Written(a \o b) = Written(a) \o Written(b)
        /\ RefusedIn(a \o b) <=> RefusedIn(a) \/ RefusedIn(b)
    BY <2>2, <2>3, WrittenConcat
  <2>7. (q \o c) \o encoding[u] = q \o (c \o encoding[u])
    <3>1. \A d, e, f \in Output : (d \o e) \o f = d \o (e \o f)
      BY OutputLaws, Zenon
    <3>2. q \in Output /\ c \in Output /\ encoding[u] \in Output
      BY <2>1
    <3> QED  BY <3>1, <3>2, Zenon
  <2> QED  BY <2>2, <2>3, <2>6, <2>7, Zenon
<1>8. todo' = <<Text(<<"LBRACE">>)>> \o Separated(seqs) \o <<Text(<<"RBRACE">>)>> \o t
  BY <1>4
<1> HIDE DEF member
<1>9. seqs \in Seq(Seq(Entries))
  <2>1. [n \in 1 .. Len(keys) |-> member(n)] \in Seq(Seq(Entries))
    BY <1>6, <1>7
  <2> QED  BY <1>6, <2>1
<1>10. EachWritten(seqs) = MemberTexts(v, encoding)
  BY <1>5, <1>7 DEF EachWritten, MemberTexts
<1>11. SomeRefused(seqs) <=> Refused(v)
  <2>1. SomeRefused(seqs) <=> \E n \in DOMAIN keys : Refused(Item(v, keys[n]))
    BY <1>7 DEF SomeRefused
  <2>2. Items(v) = {Item(v, k) : k \in DOMAIN v.of} /\ ~Foreign(v)
    BY <1>3 DEF Items, Foreign, Objects
  <2>3. Refused(v) <=> \E k \in DOMAIN v.of : Refused(Item(v, k))
    BY <1>3, <2>2, RefusedIs
  <2>4. (\E k \in DOMAIN v.of : Refused(Item(v, k)))
            <=> \E n \in DOMAIN keys : Refused(Item(v, keys[n]))
    BY <1>6
  <2> QED  BY <2>1, <2>3, <2>4
<1>12. encoding[v] = Between("LBRACE", MemberTexts(v, encoding), "RBRACE")
  BY <1>3, EncodingIs
<1> HIDE DEF seqs
<1> DEFINE new == <<Text(<<"LBRACE">>)>> \o Separated(seqs) \o <<Text(<<"RBRACE">>)>> \o t
<1>13. /\ new \in Seq(Entries)
       /\ Written(new) = Between("LBRACE", EachWritten(seqs), "RBRACE") \o Written(t)
       /\ RefusedIn(new) <=> SomeRefused(seqs) \/ RefusedIn(t)
  BY <1>2, <1>9, WrittenBetween, Named
<1> HIDE DEF new
<1>14. Stands(new, v, t)
  BY <1>10, <1>11, <1>12, <1>13, Zenon DEF Stands
<1>15. Stands(todo', This, Tail(todo))
  BY <1>8, <1>14 DEF new, v, t
<1> QED  BY <1>1, <1>3, <1>15, ExpandedValue DEF v

\* Encode returns for one value, and starts with the other.
LEMMA ReturnStep ==
    ASSUME IInv, Running, NEW out, EncodeReturns(out), out = Result(pair[Len(outs) + 1])
    PROVE  IInv'
<1>1. /\ pair \in Values \X Values /\ outs \in Seq(Output) /\ Len(outs) \in Nat /\ Len(outs) < 2
      /\ pair[1] \in Values /\ pair[2] \in Values
  <2>1. pair \in Values \X Values /\ outs \in Seq(Output)
    BY DEF IInv, Types
  <2> QED  BY <2>1, LenProperties DEF Running
<1>2. outs' = Append(outs, out) /\ todo' = <<pair[2]>> /\ buf' = <<>> /\ pair' = pair
  BY DEF EncodeReturns
<1>3. out \in Output
  <2>1. pair[Len(outs) + 1] \in Values
    <3>1. Len(outs) + 1 = 1 \/ Len(outs) + 1 = 2
      BY <1>1
    <3> QED  BY <1>1, <3>1
  <2>2. <<>> \in Output
    BY DEF Output
  <2> QED  BY <2>1, <2>2, EncodingType DEF Result
<1>4. /\ outs' \in Seq(Output) /\ Len(outs') = Len(outs) + 1
      /\ \A n \in 1 .. Len(outs) : outs'[n] = outs[n]
      /\ outs'[Len(outs) + 1] = out
  <2>1. /\ Append(outs, out) \in Seq(Output) /\ Len(Append(outs, out)) = Len(outs) + 1
        /\ \A n \in 1 .. Len(outs) : Append(outs, out)[n] = outs[n]
        /\ Append(outs, out)[Len(outs) + 1] = out
    BY <1>1, <1>3, AppendProperties
  <2> QED  BY <1>2, <2>1
<1>5. Types'
  <2>1. todo' \in Seq(Entries) /\ buf' \in Output
    BY <1>1, <1>2, Started
  <2> QED  BY <1>1, <1>2, <1>4, <2>1 DEF Types
<1>6. Returned'
  <2>1. \A n \in 1 .. Len(outs) + 1 : outs'[n] = Result(pair[n])
    <3> TAKE n \in 1 .. Len(outs) + 1
    <3>1. CASE n = Len(outs) + 1
      BY <1>4, <3>1
    <3>2. CASE n \in 1 .. Len(outs)
      BY <1>4, <3>2 DEF IInv, Returned
    <3> QED  BY <1>1, <3>1, <3>2
  <2>2. Len(outs') = Len(outs) + 1
    BY <1>4
  <2> QED  BY <1>2, <2>1, <2>2 DEF Returned, Result
<1>7. ASSUME Running' PROVE Encoding(pair[Len(outs) + 1])'
  <2>1. Len(outs') + 1 = 2
    BY <1>1, <1>4, <1>7 DEF Running
  <2>2. /\ buf' \o Written(todo') = encoding[pair[2]]
        /\ RefusedIn(todo') <=> Refused(pair[2])
    BY <1>1, <1>2, Started, Zenon
  <2>3. pair'[Len(outs') + 1] = pair[2]
    BY <1>2, <2>1
  <2> QED  BY <2>2, <2>3, Zenon DEF Encoding
<1> QED  BY <1>5, <1>6, <1>7 DEF IInv

LEMMA FailStep ==
    ASSUME IInv, Fail
    PROVE  IInv'
<1>1. Types /\ Running /\ todo # <<>> /\ Encoding(pair[Len(outs) + 1]) /\ EncodeReturns(<<>>)
  BY DEF IInv, Fail, Pending
<1>2. Foreign(This)
  BY DEF Fail, Foreign
<1>3. This \in Entries /\ This.kind # "text"
  BY <1>1, <1>2, Popped DEF Foreign
<1>4. This \in Values
  BY <1>3, EntryFacts
<1>5. Refused(This)
  BY <1>2, <1>4, RefusedIs
<1>6. RefusedIn(todo)
  BY <1>1, <1>4, <1>5, Popped
<1>7. Refused(pair[Len(outs) + 1])
  BY <1>1, <1>6 DEF Encoding
<1> QED  BY <1>1, <1>7, ReturnStep DEF Result

LEMMA ReturnsStep ==
    ASSUME IInv, Return
    PROVE  IInv'
<1>1. Types /\ Running /\ todo = <<>> /\ Encoding(pair[Len(outs) + 1]) /\ EncodeReturns(buf)
  BY DEF IInv, Return
<1>2. Written(todo) = <<>> /\ ~RefusedIn(todo)
  BY <1>1, WrittenOne
<1>3. buf \o <<>> = buf
  BY <1>1, ConcatEmptySeq DEF Types, Output
<1>4. buf = Result(pair[Len(outs) + 1])
  BY <1>1, <1>2, <1>3, Zenon DEF Encoding, Result
<1> QED  BY <1>1, <1>4, ReturnStep

LEMMA NextIInv ==
    ASSUME IInv, [Next]_vars
    PROVE  IInv'
<1>1. CASE WriteScalar
  BY <1>1, ScalarStep
<1>2. CASE WriteArray
  BY <1>2, ArrayStep
<1>3. CASE WriteObject
  BY <1>3, ObjectStep
<1>4. CASE Fail
  BY <1>4, FailStep
<1>5. CASE Return
  BY <1>5, ReturnsStep
<1>6. CASE UNCHANGED vars
  BY <1>6 DEF vars, IInv, Types, Returned, Encoding, Running
<1> QED  BY <1>1, <1>2, <1>3, <1>4, <1>5, <1>6 DEF Next

\* In every state the buffer and the stack make the encoding of the value, and
\* what was returned is the encoding, or nothing if the value is refused.
THEOREM Invariant == Spec => []IInv
<1>1. Init => IInv
  BY InitIInv
<1>2. IInv /\ [Next]_vars => IInv'
  BY NextIInv
<1> QED  BY <1>1, <1>2, PTL DEF Spec

-----------------------------------------------------------------------------
(***************************************************************************)
(* What follows from it.                                                   *)
(***************************************************************************)
LEMMA IInvTypeOK == IInv => EncoderTypeOK
<1> SUFFICES ASSUME IInv PROVE EncoderTypeOK
  OBVIOUS
<1>1. /\ pair \in Values \X Values /\ todo \in Seq(Entries) /\ buf \in Output
      /\ outs \in Seq(Output) /\ Len(outs) <= 2
  BY DEF IInv, Types
<1>2. \A n \in DOMAIN todo : todo[n].kind \in Kinds \union {"text"}
  BY <1>1, TextsFacts, EntryFacts
<1>3. ASSUME Running, todo = <<pair[Len(outs) + 1]>>
      PROVE  buf = <<>>
  <2> DEFINE v == pair[Len(outs) + 1]
  <2>1. v \in Values
    <3>1. Len(outs) \in Nat /\ Len(outs) < 2
      BY <1>1, <1>3, LenProperties DEF Running
    <3>2. Len(outs) + 1 = 1 \/ Len(outs) + 1 = 2
      BY <3>1
    <3> QED  BY <1>1, <3>2
  <2>2. buf \o Written(todo) = encoding[v]
    BY <1>3 DEF IInv, Encoding
  <2>3. todo = <<v>>
    BY <1>3
  <2> HIDE DEF v
  <2>4. <<v>> \in Seq(Entries) /\ <<>> \in Output /\ <<>> \o Written(<<v>>) = encoding[v]
    BY <2>1, Started
  <2>5. Written(<<v>>) \in Output
    BY <2>4, TextsFacts
  <2>6. buf \o Written(<<v>>) = <<>> \o Written(<<v>>)
    BY <2>2, <2>3, <2>4, Zenon
  <2>7. \A a, b, c \in Output : b \o a = c \o a => b = c
    BY OutputLaws, Zenon
  <2> QED  BY <1>1, <2>4, <2>5, <2>6, <2>7, Zenon
<1> QED  BY <1>1, <1>2, <1>3 DEF EncoderTypeOK

\* When both calls have returned: each failed exactly if its value is refused.
LEMMA BothReturned ==
    ASSUME IInv, Finished
    PROVE  \A n \in 1 .. 2 : /\ pair[n] \in Values
                             /\ outs[n] = Result(pair[n])
                             /\ Failed(n) <=> Refused(pair[n])
<1>1. pair \in Values \X Values /\ outs \in Seq(Output) /\ Len(outs) <= 2
  BY DEF IInv, Types
<1>2. Len(outs) = 2
  BY <1>1, LenProperties DEF Finished, Running
<1> TAKE n \in 1 .. 2
<1>3. pair[n] \in Values
  <2>1. n = 1 \/ n = 2
    OBVIOUS
  <2> QED  BY <1>1, <2>1
<1>4. outs[n] = Result(pair[n])
  BY <1>2 DEF IInv, Returned
<1>5. ASSUME ~Refused(pair[n]) PROVE encoding[pair[n]] # <<>>
  <2>1. ~Foreign(pair[n])
    BY <1>3, <1>5, RefusedIs
  <2>2. Len(encoding[pair[n]]) >= 1
    BY <1>3, <2>1, EncodingBegins DEF Begins
  <2> QED  BY <2>2
<1> QED  BY <1>3, <1>4, <1>5, Zenon DEF Failed, Result

LEMMA IInvBytes == IInv => EqualBytesSayTheSame
<1> SUFFICES ASSUME IInv, Finished
    PROVE  /\ \A n \in 1 .. 2 : Failed(n) <=> Refused(pair[n])
           /\ outs[1] = outs[2] /\ ~Failed(1) => meaning[pair[1]] = meaning[pair[2]]
  BY DEF EqualBytesSayTheSame, Refused
<1>1. \A n \in 1 .. 2 : /\ pair[n] \in Values
                        /\ outs[n] = Result(pair[n])
                        /\ Failed(n) <=> Refused(pair[n])
  BY BothReturned
<1> DEFINE v == pair[1]
           w == pair[2]
<1>2. ASSUME outs[1] = outs[2], ~Failed(1)
      PROVE  meaning[v] = meaning[w]
  <2>1. /\ v \in Values /\ outs[1] = Result(v) /\ ~Refused(v)
        /\ w \in Values /\ outs[2] = Result(w) /\ (Failed(2) <=> Refused(w))
    BY <1>1, <1>2
  <2>2. Failed(1) <=> Failed(2)
    BY <1>2 DEF Failed
  <2> HIDE DEF v, w
  <2>3. ~Refused(w) /\ encoding[v] = encoding[w]
    BY <1>2, <2>1, <2>2, Zenon DEF Result
  <2>4. Told(v, w)
    BY <2>1, <2>3, BytesTell
  <2> QED  BY <2>3, <2>4, SameBytesSameMeaning
<1> QED  BY <1>1, <1>2

LEMMA IInvValues == IInv => TheSameHasEqualBytes
<1> DEFINE v == pair[1]
           w == pair[2]
<1> SUFFICES ASSUME IInv, Finished, meaning[v] = meaning[w],
                    \A u \in parts[v] \union parts[w] : ~Odd(u)
             PROVE  outs[1] = outs[2]
  BY DEF TheSameHasEqualBytes
<1>1. v \in Values /\ outs[1] = Result(v) /\ w \in Values /\ outs[2] = Result(w)
  BY BothReturned
<1> HIDE DEF v, w
<1>2. Plain(v) /\ Plain(w)
  BY DEF Plain
<1>3. SameOut(v, w)
  BY <1>1, <1>2, MeaningDecides
<1> QED  BY <1>1, <1>3, Zenon DEF SameOut, Result

\* Encode begins each value with an empty buffer.
THEOREM EncoderTypesOK == Spec => []EncoderTypeOK
<1> QED  BY Invariant, IInvTypeOK, PTL

\* Equal bytes are written only for values that say the same, whatever their
\* strings hold and however deep they are nested; and only what is foreign,
\* at any depth, is refused.
THEOREM BytesSayTheSame == Spec => []EqualBytesSayTheSame
<1> QED  BY Invariant, IInvBytes, PTL

\* Values that say the same and have no odd number get equal bytes, in whatever
\* order their maps are ranged over and whatever Go types hold them.
THEOREM SameValuesSameBytes == Spec => []TheSameHasEqualBytes
<1> QED  BY Invariant, IInvValues, PTL

===============================================================================
