------------------------- MODULE ConfigurationProofs -------------------------
(***************************************************************************)
(* Every handler runs with what the lines of the files say, and no         *)
(* reference is without its object: for all files, handlers and names.     *)
(*                                                                         *)
(* What lines say of a module does not depend on how they are spread over  *)
(* blocks: WithLines, line after line, makes of a module what Said takes   *)
(* from all of its lines together (SaidAll).  That is by induction over    *)
(* sequences: NatSet and SeqSet derive it, in terms of a set closed under  *)
(* the constructors, from the least counterexample that a well-founded     *)
(* order has.                                                              *)
(*                                                                         *)
(* Two invariants come on top of IInv.  ReadInv: what was parsed so far is *)
(* what the blocks up to there say.  LeadInv: references lead to objects,  *)
(* and no copy is made before its handler inherits.                        *)
(***************************************************************************)

EXTENDS InheritanceProofs, SequenceTheorems, WellFoundedInduction

-----------------------------------------------------------------------------
(* Induction: a set that is closed under the constructors is all there is *)

\* A set of numbers that has 0 and every successor has them all.
LEMMA NatSet ==
    ASSUME NEW S \in SUBSET Nat, 0 \in S, \A n \in S : n + 1 \in S
    PROVE  S = Nat
<1> SUFFICES ASSUME Nat \ S # {} PROVE FALSE
  OBVIOUS
<1>1. PICK R : R = OpToRel(<, Nat)
  OBVIOUS
<1>2. IsWellFoundedOn(R, Nat)
  BY <1>1, NatLessThanWellFounded
<1>3. PICK x \in Nat \ S : \A y \in Nat \ S : ~ (<<y, x>> \in R)
  BY <1>2, WFMin
<1>4. \A y \in Nat : y < x => <<y, x>> \in R
  BY <1>1, <1>3 DEF OpToRel
<1>5. x # 0 /\ x - 1 \in Nat /\ x - 1 < x
  BY <1>3
<1>6. x - 1 \in S
  BY <1>3, <1>4, <1>5
<1>7. (x - 1) + 1 \in S
  BY <1>6
<1> QED
  BY <1>3, <1>7

\* A set of sequences that has the empty one and every longer one has them all.
LEMMA SeqSet ==
    ASSUME NEW A, NEW T \in SUBSET Seq(A), <<>> \in T,
           \A s \in T, x \in A : Append(s, x) \in T
    PROVE  T = Seq(A)
<1> DEFINE N == {n \in Nat : \A s \in Seq(A) : Len(s) = n => s \in T}
<1>1. 0 \in N
  <2> SUFFICES ASSUME NEW s \in Seq(A), Len(s) = 0 PROVE s \in T
    OBVIOUS
  <2> QED
    BY EmptySeq
<1>2. ASSUME NEW n \in N PROVE n + 1 \in N
  <2> SUFFICES ASSUME NEW s \in Seq(A), Len(s) = n + 1 PROVE s \in T
    OBVIOUS
  <2>1. s # <<>> /\ n \in Nat
    OBVIOUS
  <2>2. PICK t \in Seq(A), x \in A : s = Append(t, x)
    BY <2>1, SequenceEmptyOrAppend
  <2>3. Len(t) = n
    BY <2>1, <2>2
  <2> QED
    BY <2>2, <2>3
<1>3. N = Nat
  <2> HIDE DEF N
  <2>1. N \in SUBSET Nat
    BY DEF N
  <2> QED
    BY <1>1, <1>2, <2>1, NatSet
<1>4. \A s \in Seq(A) : Len(s) \in N
  BY <1>3, LenProperties
<1> QED
  BY <1>4

\* Of numbers up to a bound there is a greatest.
LEMMA Greatest ==
    ASSUME NEW n \in Nat, NEW I \in SUBSET (1 .. n), I # {}
    PROVE  Max(I) \in I /\ \A j \in I : j <= Max(I)
<1> DEFINE N == {k \in Nat : \A J \in SUBSET (1 .. k) : J # {} => \E x \in J : \A y \in J : x >= y}
<1>1. 0 \in N
  <2>1. 1 .. 0 = {}
    OBVIOUS
  <2> QED
    BY <2>1
<1>2. ASSUME NEW k \in N PROVE k + 1 \in N
  <2> SUFFICES ASSUME NEW J \in SUBSET (1 .. k + 1), J # {}
               PROVE  \E x \in J : \A y \in J : x >= y
    OBVIOUS
  <2>1. CASE k + 1 \in J
    BY <2>1
  <2>2. CASE k + 1 \notin J
    <3>1. J \in SUBSET (1 .. k)
      BY <2>2
    <3> QED
      BY <3>1
  <2> QED
    BY <2>1, <2>2
<1>3. N = Nat
  <2> HIDE DEF N
  <2>1. N \in SUBSET Nat
    BY DEF N
  <2> QED
    BY <1>1, <1>2, <2>1, NatSet
<1>4. \E x \in I : \A y \in I : x >= y
  BY <1>3
<1>5. Max(I) \in I /\ \A j \in I : Max(I) >= j
  BY <1>4 DEF Max
<1> QED
  BY <1>5

-----------------------------------------------------------------------------
(* Flattening a sequence *)

Flattening(ss, n, f) ==
    f = [i \in 1 .. n |-> IF i = 1 THEN ss[i] ELSE f[i - 1] \o ss[i]]

LEMMA FlatteningExists ==
    ASSUME NEW ss, NEW n \in Nat
    PROVE  \E f : Flattening(ss, n, f)
<1> DEFINE N == {k \in Nat : \E f : Flattening(ss, k, f)}
<1>1. 0 \in N
  <2>1. 1 .. 0 = {}
    OBVIOUS
  <2>2. Flattening(ss, 0, <<>>)
    BY <2>1 DEF Flattening
  <2> QED
    BY <2>2
<1>2. ASSUME NEW k \in N PROVE k + 1 \in N
  <2>1. PICK f : Flattening(ss, k, f)
    OBVIOUS
  <2>2. PICK g : g = [i \in 1 .. k + 1 |-> IF i <= k THEN f[i]
                                          ELSE IF i = 1 THEN ss[i] ELSE f[i - 1] \o ss[i]]
    OBVIOUS
  <2>3. k \in Nat
    OBVIOUS
  <2>4. DOMAIN g = 1 .. k + 1 /\ \A i \in 1 .. k : g[i] = f[i]
    <3>1. \A i \in 1 .. k : i \in 1 .. k + 1 /\ i <= k
      BY <2>3
    <3> QED
      BY <2>2, <3>1
  <2>5. ASSUME NEW i \in 1 .. k + 1
        PROVE  g[i] = IF i = 1 THEN ss[i] ELSE g[i - 1] \o ss[i]
    <3>1. CASE i <= k
      <4>1. i \in 1 .. k /\ (i # 1 => i - 1 \in 1 .. k)
        BY <3>1, <2>3
      <4>2. f[i] = IF i = 1 THEN ss[i] ELSE f[i - 1] \o ss[i]
        BY <4>1, <2>1 DEF Flattening
      <4> QED
        BY <4>1, <4>2, <2>4
    <3>2. CASE i = k + 1
      <4>1. g[i] = IF i = 1 THEN ss[i] ELSE f[i - 1] \o ss[i]
        BY <3>2, <2>2, <2>3
      <4>2. i # 1 => i - 1 \in 1 .. k
        BY <3>2, <2>3
      <4> QED
        BY <4>1, <4>2, <2>4
    <3> QED
      BY <3>1, <3>2, <2>3
  <2>6. Flattening(ss, k + 1, g)
    BY <2>2, <2>5 DEF Flattening
  <2> QED
    BY <2>3, <2>6
<1>3. N = Nat
  <2> HIDE DEF N
  <2>1. N \in SUBSET Nat
    BY DEF N
  <2> QED
    BY <1>1, <1>2, <2>1, NatSet
<1> QED
  BY <1>3

LEMMA FlattenIs ==
    ASSUME NEW ss, Len(ss) \in Nat \ {0}
    PROVE  \E f : Flattening(ss, Len(ss), f) /\ FlattenSeq(ss) = f[Len(ss)]
<1>1. PICK f : f = CHOOSE g : Flattening(ss, Len(ss), g)
  OBVIOUS
<1>2. Flattening(ss, Len(ss), f)
  BY <1>1, FlatteningExists
<1>3. FlattenSeq(ss) = f[Len(ss)]
  BY <1>1 DEF FlattenSeq, Flattening
<1> QED
  BY <1>2, <1>3

LEMMA FlattenEmpty == FlattenSeq(<<>>) = <<>>
  BY DEF FlattenSeq

LEMMA FlattenAppend ==
    ASSUME NEW A, NEW ss \in Seq(Seq(A)), NEW s \in Seq(A)
    PROVE  FlattenSeq(Append(ss, s)) = FlattenSeq(ss) \o s
<1>1. PICK n \in Nat : n = Len(ss)
  BY LenProperties
<1>2. PICK tt \in Seq(Seq(A)) : tt = Append(ss, s)
  BY AppendProperties
<1>3. Len(tt) = n + 1 /\ tt[n + 1] = s /\ \A i \in 1 .. n : tt[i] = ss[i]
  BY <1>1, <1>2, AppendProperties
<1>4. PICK g : Flattening(tt, n + 1, g) /\ FlattenSeq(tt) = g[n + 1]
  <2>1. Len(tt) \in Nat \ {0}
    BY <1>3
  <2> QED
    BY <2>1, <1>3, FlattenIs
<1>5. CASE n = 0
  <2>1. ss = <<>>
    BY <1>1, <1>5, EmptySeq
  <2>2. g[1] = s
    BY <1>3, <1>4, <1>5 DEF Flattening
  <2>3. FlattenSeq(ss) = <<>>
    BY <2>1, FlattenEmpty
  <2> QED
    BY <1>2, <1>4, <1>5, <2>2, <2>3, ConcatEmptySeq
<1>6. CASE n # 0
  <2>1. PICK f : Flattening(ss, n, f) /\ FlattenSeq(ss) = f[n]
    BY <1>1, <1>6, FlattenIs
  <2> DEFINE N == {k \in Nat : k + 1 \in 1 .. n => g[k + 1] = f[k + 1]}
  <2>2. 0 \in N
    BY <1>3, <1>4, <1>6, <2>1 DEF Flattening
  <2>3. ASSUME NEW k \in N PROVE k + 1 \in N
    <3> SUFFICES ASSUME k + 2 \in 1 .. n PROVE g[k + 2] = f[k + 2]
      OBVIOUS
    <3>1. k \in Nat /\ k + 1 \in 1 .. n /\ g[k + 1] = f[k + 1]
      OBVIOUS
    <3>2. k + 2 # 1 /\ (k + 2) - 1 = k + 1 /\ k + 2 \in 1 .. n + 1
      BY <3>1
    <3>3. g[k + 2] = g[k + 1] \o tt[k + 2]
      BY <3>2, <1>4 DEF Flattening
    <3>4. f[k + 2] = f[k + 1] \o ss[k + 2]
      BY <3>2, <2>1 DEF Flattening
    <3> QED
      BY <3>1, <3>3, <3>4, <1>3
  <2>4. N = Nat
    <3> HIDE DEF N
    <3>1. N \in SUBSET Nat
      BY DEF N
    <3> QED
      BY <2>2, <2>3, <3>1, NatSet
  <2>5. n - 1 \in N /\ (n - 1) + 1 = n
    <3>1. n - 1 \in Nat /\ (n - 1) + 1 = n
      BY <1>6
    <3> HIDE DEF N
    <3> QED
      BY <2>4, <3>1
  <2>6. g[n] = f[n]
    BY <2>5, <1>6
  <2>7. g[n + 1] = g[n] \o tt[n + 1]
    <3>1. n + 1 \in 1 .. n + 1 /\ n + 1 # 1 /\ (n + 1) - 1 = n
      BY <1>6
    <3> QED
      BY <3>1, <1>4 DEF Flattening
  <2> QED
    BY <1>2, <1>3, <1>4, <2>1, <2>6, <2>7
<1> QED
  BY <1>5, <1>6

LEMMA FlattenType ==
    ASSUME NEW A, NEW ss \in Seq(Seq(A))
    PROVE  FlattenSeq(ss) \in Seq(A)
<1> DEFINE T == {tt \in Seq(Seq(A)) : FlattenSeq(tt) \in Seq(A)}
<1>1. <<>> \in T
  BY FlattenEmpty, EmptySeq
<1>2. ASSUME NEW tt \in T, NEW s \in Seq(A) PROVE Append(tt, s) \in T
  BY FlattenAppend, AppendProperties, ConcatProperties
<1>3. T = Seq(Seq(A))
  <2> HIDE DEF T
  <2>1. T \in SUBSET Seq(Seq(A))
    BY DEF T
  <2> QED
    BY <1>1, <1>2, <2>1, SeqSet
<1> QED
  BY <1>3

LEMMA FlattenConcat ==
    ASSUME NEW A, NEW ss \in Seq(Seq(A)), NEW uu \in Seq(Seq(A))
    PROVE  FlattenSeq(ss \o uu) = FlattenSeq(ss) \o FlattenSeq(uu)
<1> DEFINE T == {tt \in Seq(Seq(A)) : FlattenSeq(ss \o tt) = FlattenSeq(ss) \o FlattenSeq(tt)}
<1>1. <<>> \in T
  BY FlattenEmpty, FlattenType, EmptySeq, ConcatEmptySeq
<1>2. ASSUME NEW tt \in T, NEW s \in Seq(A) PROVE Append(tt, s) \in T
  <2>1. tt \in Seq(Seq(A)) /\ ss \o tt \in Seq(Seq(A)) /\ Append(tt, s) \in Seq(Seq(A))
    BY AppendProperties, ConcatProperties
  <2>2. ss \o Append(tt, s) = Append(ss \o tt, s)
    OBVIOUS
  <2>3. FlattenSeq(Append(ss \o tt, s)) = FlattenSeq(ss \o tt) \o s
    BY <2>1, FlattenAppend
  <2>4. FlattenSeq(Append(tt, s)) = FlattenSeq(tt) \o s
    BY <2>1, FlattenAppend
  <2>5. (FlattenSeq(ss) \o FlattenSeq(tt)) \o s = FlattenSeq(ss) \o (FlattenSeq(tt) \o s)
    BY <2>1, FlattenType, ConcatAssociative
  <2> QED
    BY <2>1, <2>2, <2>3, <2>4, <2>5
<1>3. T = Seq(Seq(A))
  <2> HIDE DEF T
  <2>1. T \in SUBSET Seq(Seq(A))
    BY DEF T
  <2> QED
    BY <1>1, <1>2, <2>1, SeqSet
<1> QED
  BY <1>3

-----------------------------------------------------------------------------
(* Parsing lines one after the other *)

Parsing(m, lines, n, f) ==
    f = [i \in 0 .. n |-> IF i = 0 THEN m ELSE WithLine(f[i - 1], lines[i])]

LEMMA ParsingExists ==
    ASSUME NEW m, NEW lines, NEW n \in Nat
    PROVE  \E f : Parsing(m, lines, n, f)
<1> DEFINE N == {k \in Nat : \E f : Parsing(m, lines, k, f)}
<1>1. 0 \in N
  <2>1. \A i \in 0 .. 0 : i = 0
    OBVIOUS
  <2>2. PICK f : f = [i \in 0 .. 0 |-> m]
    OBVIOUS
  <2>3. Parsing(m, lines, 0, f)
    BY <2>1, <2>2 DEF Parsing
  <2> QED
    BY <2>3
<1>2. ASSUME NEW k \in N PROVE k + 1 \in N
  <2>1. PICK f : Parsing(m, lines, k, f)
    OBVIOUS
  <2>2. k \in Nat
    OBVIOUS
  <2>3. PICK last : last = WithLine(f[k], lines[k + 1])
    OBVIOUS
  <2>4. PICK g : g = [i \in 0 .. k + 1 |-> IF i <= k THEN f[i] ELSE last]
    OBVIOUS
  <2>5. \A i \in 0 .. k : g[i] = f[i]
    <3>1. \A i \in 0 .. k : i \in 0 .. k + 1 /\ i <= k
      BY <2>2
    <3> QED
      BY <2>4, <3>1
  <2>6. ASSUME NEW i \in 0 .. k + 1
        PROVE  g[i] = IF i = 0 THEN m ELSE WithLine(g[i - 1], lines[i])
    <3>1. CASE i <= k
      <4>1. i \in 0 .. k /\ (i # 0 => i - 1 \in 0 .. k)
        BY <3>1, <2>2
      <4>2. f[i] = IF i = 0 THEN m ELSE WithLine(f[i - 1], lines[i])
        BY <4>1, <2>1 DEF Parsing
      <4> QED
        BY <4>1, <4>2, <2>5
    <3>2. CASE i = k + 1
      <4>1. g[i] = last /\ i # 0 /\ i - 1 \in 0 .. k /\ i - 1 = k
        BY <3>2, <2>2, <2>4
      <4> QED
        BY <4>1, <3>2, <2>3, <2>5
    <3> QED
      BY <3>1, <3>2, <2>2
  <2>7. Parsing(m, lines, k + 1, g)
    BY <2>4, <2>6 DEF Parsing
  <2> QED
    BY <2>2, <2>7
<1>3. N = Nat
  <2> HIDE DEF N
  <2>1. N \in SUBSET Nat
    BY DEF N
  <2> QED
    BY <1>1, <1>2, <2>1, NatSet
<1> QED
  BY <1>3

LEMMA WithLinesIs ==
    ASSUME NEW m, NEW lines, Len(lines) \in Nat
    PROVE  \E f : Parsing(m, lines, Len(lines), f) /\ WithLines(m, lines) = f[Len(lines)]
<1>1. PICK f : f = CHOOSE g : Parsing(m, lines, Len(lines), g)
  OBVIOUS
<1>2. Parsing(m, lines, Len(lines), f)
  BY <1>1, ParsingExists
<1>3. WithLines(m, lines) = f[Len(lines)]
  BY <1>1 DEF WithLines, Parsing
<1> QED
  BY <1>2, <1>3

\* No line changes nothing.
LEMMA NoLine == ASSUME NEW m PROVE WithLines(m, <<>>) = m
<1>1. Len(<<>>) = 0
  OBVIOUS
<1>2. PICK f : Parsing(m, <<>>, 0, f) /\ WithLines(m, <<>>) = f[0]
  BY <1>1, WithLinesIs
<1>3. f[0] = m
  BY <1>2 DEF Parsing
<1> QED
  BY <1>2, <1>3

\* A line more is parsed last.
LEMMA OneMoreLine ==
    ASSUME NEW A, NEW m, NEW ls \in Seq(A), NEW l \in A
    PROVE  WithLines(m, Append(ls, l)) = WithLine(WithLines(m, ls), l)
<1>1. PICK n \in Nat : n = Len(ls)
  BY LenProperties
<1>2. PICK ks \in Seq(A) : ks = Append(ls, l)
  BY AppendProperties
<1>3. Len(ks) = n + 1 /\ ks[n + 1] = l /\ \A i \in 1 .. n : ks[i] = ls[i]
  BY <1>1, <1>2, AppendProperties
<1>4. PICK g : Parsing(m, ks, n + 1, g) /\ WithLines(m, ks) = g[n + 1]
  <2>1. Len(ks) \in Nat
    BY <1>3
  <2> QED
    BY <2>1, <1>3, WithLinesIs
<1>5. PICK f : Parsing(m, ls, n, f) /\ WithLines(m, ls) = f[n]
  BY <1>1, WithLinesIs
<1> DEFINE N == {k \in Nat : k \in 0 .. n => g[k] = f[k]}
<1>6. 0 \in N
  <2>1. 0 \in 0 .. n /\ 0 \in 0 .. n + 1
    OBVIOUS
  <2> QED
    BY <1>4, <1>5, <2>1 DEF Parsing
<1>7. ASSUME NEW k \in N PROVE k + 1 \in N
  <2> SUFFICES ASSUME k + 1 \in 0 .. n PROVE g[k + 1] = f[k + 1]
    OBVIOUS
  <2>1. k \in Nat /\ k \in 0 .. n /\ g[k] = f[k]
    OBVIOUS
  <2>2. k + 1 # 0 /\ (k + 1) - 1 = k /\ k + 1 \in 0 .. n + 1 /\ k + 1 \in 1 .. n
    BY <2>1
  <2>3. g[k + 1] = WithLine(g[k], ks[k + 1])
    BY <2>2, <1>4 DEF Parsing
  <2>4. f[k + 1] = WithLine(f[k], ls[k + 1])
    BY <2>2, <1>5 DEF Parsing
  <2> QED
    BY <2>1, <2>2, <2>3, <2>4, <1>3
<1>8. N = Nat
  <2> HIDE DEF N
  <2>1. N \in SUBSET Nat
    BY DEF N
  <2> QED
    BY <1>6, <1>7, <2>1, NatSet
<1>9. g[n] = f[n]
  <2>1. n \in N /\ n \in 0 .. n
    BY <1>8
  <2> QED
    BY <2>1
<1>10. g[n + 1] = WithLine(g[n], ks[n + 1])
  <2>1. n + 1 \in 0 .. n + 1 /\ n + 1 # 0 /\ (n + 1) - 1 = n
    OBVIOUS
  <2> QED
    BY <2>1, <1>4 DEF Parsing
<1> QED
  BY <1>2, <1>3, <1>4, <1>5, <1>9, <1>10

-----------------------------------------------------------------------------
(* What lines say, and what one more adds to it *)

\* Lines without errors.
ProperLines == {l \in Lines : LineAccepted(l)}

\* Words behind authenticate.
KnownWords == {w \in STRING : w \in Authenticators \union Flags}

\* Another option's last line stays the last.
LEMMA LastStays ==
    ASSUME NEW ls \in Seq(Lines), NEW l \in Lines, NEW option, l.option # option
    PROVE  /\ Of(Append(ls, l), option) = Of(ls, option)
           /\ Of(ls, option) # {} =>
                Append(ls, l)[Max(Of(ls, option))] = ls[Max(Of(ls, option))]
<1>1. /\ DOMAIN ls = 1 .. Len(ls) /\ Len(ls) \in Nat
      /\ DOMAIN Append(ls, l) = 1 .. Len(ls) + 1
      /\ \A i \in 1 .. Len(ls) : Append(ls, l)[i] = ls[i]
      /\ Append(ls, l)[Len(ls) + 1] = l
  BY LenProperties, AppendProperties
<1>2. Of(Append(ls, l), option) = Of(ls, option)
  BY <1>1 DEF Of
<1>3. ASSUME Of(ls, option) # {} PROVE Max(Of(ls, option)) \in 1 .. Len(ls)
  <2>1. Of(ls, option) \in SUBSET (1 .. Len(ls))
    BY <1>1 DEF Of
  <2> QED
    BY <1>1, <1>3, <2>1, Greatest
<1> QED
  BY <1>1, <1>2, <1>3

\* A line is the last of its option.
LEMMA LastIs ==
    ASSUME NEW ls \in Seq(Lines), NEW l \in Lines
    PROVE  /\ Of(Append(ls, l), l.option) # {}
           /\ Append(ls, l)[Max(Of(Append(ls, l), l.option))] = l
<1>1. PICK n \in Nat : n = Len(ls)
  BY LenProperties
<1>2. PICK ks \in Seq(Lines) : ks = Append(ls, l)
  BY AppendProperties
<1>3. DOMAIN ks = 1 .. n + 1 /\ ks[n + 1] = l
  BY <1>1, <1>2, AppendProperties, LenProperties
<1>4. PICK I : I = Of(ks, l.option)
  OBVIOUS
<1>5. n + 1 \in I /\ I \in SUBSET (1 .. n + 1)
  BY <1>3, <1>4 DEF Of
<1>6. PICK x : x = Max(I)
  OBVIOUS
<1>7. x \in I /\ n + 1 <= x
  <2>1. n + 1 \in Nat /\ I # {}
    BY <1>5
  <2> QED
    BY <1>5, <1>6, <2>1, Greatest
<1>8. x = n + 1
  BY <1>5, <1>7
<1> QED
  BY <1>2, <1>3, <1>4, <1>5, <1>6, <1>8

\* The arguments a line has for an option, and those of all lines, each by itself.
ArgsFor(l, option)        == IF l.option = option THEN l.args ELSE <<>>
ArgsByLine(lines, option) == [i \in DOMAIN lines |-> ArgsFor(lines[i], option)]

LEMMA ArgsOfLines == \A lines, option : ArgsOf(lines, option) = FlattenSeq(ArgsByLine(lines, option))
  BY DEF ArgsOf, ArgsByLine, ArgsFor

\* They are in A.
ArgsIn(l, option, A)        == l.option = option => l.args \in Seq(A)
TakesArgs(lines, option, A) == \A i \in DOMAIN lines : ArgsIn(lines[i], option, A)

LEMMA ArgsByLineType ==
    ASSUME NEW A, NEW ls \in Seq(Lines), NEW option,
           TakesArgs(ls, option, A)
    PROVE  ArgsByLine(ls, option) \in Seq(Seq(A)) /\ ArgsOf(ls, option) \in Seq(A)
<1>1. DOMAIN ls = 1 .. Len(ls) /\ Len(ls) \in Nat
  BY LenProperties
<1>2. ArgsByLine(ls, option) \in [1 .. Len(ls) -> Seq(A)]
  BY <1>1, EmptySeq DEF ArgsByLine, ArgsFor, TakesArgs, ArgsIn
<1>3. ArgsByLine(ls, option) \in Seq(Seq(A))
  BY <1>1, <1>2, SeqDef
<1>4. ArgsOf(ls, option) \in Seq(A)
  BY <1>3, FlattenType, ArgsOfLines
<1> QED
  BY <1>3, <1>4

LEMMA ArgsAppend ==
    ASSUME NEW A, NEW ls \in Seq(Lines), NEW l \in Lines, NEW option,
           TakesArgs(ls, option, A),
           ArgsIn(l, option, A)
    PROVE  ArgsOf(Append(ls, l), option)
             = ArgsOf(ls, option) \o ArgsFor(l, option)
<1>1. /\ DOMAIN ls = 1 .. Len(ls) /\ Len(ls) \in Nat
      /\ DOMAIN Append(ls, l) = 1 .. Len(ls) + 1
      /\ \A i \in 1 .. Len(ls) : Append(ls, l)[i] = ls[i]
      /\ Append(ls, l)[Len(ls) + 1] = l
  BY LenProperties, AppendProperties
<1>2. PICK args : args = ArgsFor(l, option)
  OBVIOUS
<1>3. args \in Seq(A) /\ ArgsByLine(ls, option) \in Seq(Seq(A))
  BY <1>2, ArgsByLineType, EmptySeq DEF ArgsIn, ArgsFor
<1>4. ArgsByLine(Append(ls, l), option) = Append(ArgsByLine(ls, option), args)
  <2>1. PICK ss \in Seq(Seq(A)) : ss = ArgsByLine(ls, option)
    BY <1>3
  <2>2. DOMAIN ss = 1 .. Len(ls) /\ Len(ss) = Len(ls)
    BY <1>1, <2>1, LenProperties DEF ArgsByLine
  <2>3. PICK tt : tt = ArgsByLine(Append(ls, l), option)
    OBVIOUS
  <2>4. /\ tt = [i \in 1 .. Len(ls) + 1 |-> tt[i]]
        /\ \A i \in 1 .. Len(ls) : tt[i] = ss[i]
        /\ tt[Len(ls) + 1] = args
    BY <1>1, <1>2, <2>1, <2>3 DEF ArgsByLine
  <2>5. PICK uu \in Seq(Seq(A)) : uu = Append(ss, args)
    BY <1>3, AppendProperties
  <2>6. /\ DOMAIN uu = 1 .. Len(ls) + 1 /\ uu[Len(ls) + 1] = args
        /\ \A i \in 1 .. Len(ls) : uu[i] = ss[i]
    BY <1>3, <2>2, <2>5, AppendProperties, LenProperties
  <2>7. uu = [i \in 1 .. Len(ls) + 1 |-> uu[i]]
    BY <2>6, LenProperties
  <2>8. \A i \in 1 .. Len(ls) + 1 : uu[i] = tt[i]
    <3>1. \A i \in 1 .. Len(ls) + 1 : i \in 1 .. Len(ls) \/ i = Len(ls) + 1
      BY <1>1
    <3> QED
      BY <2>4, <2>6, <3>1
  <2> QED
    BY <2>1, <2>3, <2>4, <2>5, <2>7, <2>8
<1> QED
  BY <1>2, <1>3, <1>4, FlattenAppend, ArgsOfLines

LEMMA ArgsOfNone ==
    ASSUME NEW ls \in Seq(Lines), NEW option, Of(ls, option) = {}
    PROVE  ArgsOf(ls, option) = <<>>
<1> DEFINE T == {ks \in Seq(Lines) : Of(ks, option) = {} => ArgsOf(ks, option) = <<>>}
<1>1. <<>> \in T
  <2>1. ArgsByLine(<<>>, option) = <<>>
    BY DEF ArgsByLine
  <2> QED
    BY <2>1, FlattenEmpty, EmptySeq, ArgsOfLines
<1>2. ASSUME NEW ks \in T, NEW l \in Lines PROVE Append(ks, l) \in T
  <2>1. Append(ks, l) \in Seq(Lines)
    BY AppendProperties
  <2> SUFFICES ASSUME Of(Append(ks, l), option) = {} PROVE ArgsOf(Append(ks, l), option) = <<>>
    BY <2>1
  <2>2. l.option # option
    BY LastIs
  <2>3. Of(ks, option) = {}
    BY <2>2, LastStays
  <2>4. TakesArgs(ks, option, STRING)
    BY <2>3 DEF Of, TakesArgs, ArgsIn
  <2>5. ArgsIn(l, option, STRING)
    BY <2>2 DEF ArgsIn
  <2>6. ArgsOf(Append(ks, l), option) = ArgsOf(ks, option) \o <<>>
    <3>1. ks \in Seq(Lines)
      OBVIOUS
    <3> HIDE DEF T
    <3>2. ArgsOf(Append(ks, l), option)
            = ArgsOf(ks, option) \o ArgsFor(l, option)
      BY <3>1, <2>4, <2>5, ArgsAppend, ZenonT(60)
    <3> QED
      BY <3>2, <2>2 DEF ArgsFor
  <2> QED
    BY <2>3, <2>6
<1>3. T = Seq(Lines)
  <2> HIDE DEF T
  <2>1. T \in SUBSET Seq(Lines)
    BY DEF T
  <2> QED
    BY <1>1, <1>2, <2>1, SeqSet
<1> QED
  BY <1>3

-----------------------------------------------------------------------------
(* Authenticators add up *)

NamedBy(words) == [i \in DOMAIN words |-> Named(words[i])]

LEMMA NamedType ==
    ASSUME NEW words \in Seq(KnownWords)
    PROVE  NamedBy(words) \in Seq(Seq(Authenticators)) /\ Len(NamedBy(words)) = Len(words)
<1>1. DOMAIN words = 1 .. Len(words) /\ Len(words) \in Nat
  BY LenProperties
<1>2. ASSUME NEW w \in KnownWords PROVE Named(w) \in Seq(Authenticators)
  <2>1. CASE w = "default"
    BY <2>1, CaddyfileAssumption DEF CaddyfileAssumption, Named
  <2>2. CASE w # "default" /\ w \in Flags
    BY <2>2, EmptySeq DEF Named
  <2>3. CASE w # "default" /\ w \notin Flags
    <3>1. w \in Authenticators
      BY <2>3 DEF KnownWords
    <3> QED
      BY <2>3, <3>1 DEF Named
  <2> QED
    BY <2>1, <2>2, <2>3
<1>3. NamedBy(words) \in [1 .. Len(words) -> Seq(Authenticators)]
  BY <1>1, <1>2 DEF NamedBy
<1>4. NamedBy(words) \in Seq(Seq(Authenticators))
  BY <1>1, <1>3, SeqDef
<1>5. Len(NamedBy(words)) = Len(words)
  BY <1>1, <1>3, <1>4, LenProperties
<1> QED
  BY <1>4, <1>5

LEMMA NamedConcat ==
    ASSUME NEW u \in Seq(KnownWords), NEW w \in Seq(KnownWords)
    PROVE  NamedBy(u \o w) = NamedBy(u) \o NamedBy(w)
<1>1. PICK v \in Seq(KnownWords) : v = u \o w
  BY ConcatProperties
<1>2. /\ Len(v) = Len(u) + Len(w)
      /\ \A i \in 1 .. Len(u) + Len(w) : v[i] = IF i <= Len(u) THEN u[i] ELSE w[i - Len(u)]
  BY <1>1, ConcatProperties
<1>3. PICK a \in Seq(Seq(Authenticators)) : a = NamedBy(u)
  BY NamedType
<1>4. PICK b \in Seq(Seq(Authenticators)) : b = NamedBy(w)
  BY NamedType
<1>5. PICK c \in Seq(Seq(Authenticators)) : c = NamedBy(v)
  BY NamedType
<1>6. PICK d \in Seq(Seq(Authenticators)) : d = a \o b
  BY ConcatProperties
<1>7. Len(a) = Len(u) /\ Len(b) = Len(w) /\ Len(c) = Len(v) /\ Len(d) = Len(v)
  BY <1>2, <1>3, <1>4, <1>5, <1>6, NamedType, ConcatProperties
<1>8. ASSUME NEW i \in 1 .. Len(c) PROVE c[i] = d[i]
  <2>1. /\ Len(u) \in Nat /\ Len(w) \in Nat
        /\ DOMAIN u = 1 .. Len(u) /\ DOMAIN w = 1 .. Len(w) /\ DOMAIN v = 1 .. Len(v)
    BY LenProperties
  <2>2. c[i] = Named(v[i])
    BY <1>5, <1>7, <2>1 DEF NamedBy
  <2>3. d[i] = IF i <= Len(u) THEN a[i] ELSE b[i - Len(u)]
    <3>1. i \in 1 .. Len(a) + Len(b)
      BY <1>2, <1>7
    <3>2. (a \o b)[i] = IF i <= Len(a) THEN a[i] ELSE b[i - Len(a)]
      BY <3>1, ConcatProperties
    <3> QED
      BY <1>6, <1>7, <3>2
  <2>4. CASE i <= Len(u)
    <3>1. i \in 1 .. Len(u)
      BY <2>1, <2>4, <1>2, <1>7
    <3> QED
      BY <2>1, <2>2, <2>3, <2>4, <3>1, <1>2, <1>3, <1>7 DEF NamedBy
  <2>5. CASE ~ (i <= Len(u))
    <3>1. i - Len(u) \in 1 .. Len(w)
      BY <2>1, <2>5, <1>2, <1>7
    <3> QED
      BY <2>1, <2>2, <2>3, <2>5, <3>1, <1>2, <1>4, <1>7 DEF NamedBy
  <2> QED
    BY <2>4, <2>5
<1>9. c = d
  BY <1>7, <1>8, SeqEqual
<1> QED
  BY <1>1, <1>3, <1>4, <1>5, <1>6, <1>9

LEMMA WithAuthenticatorsType ==
    ASSUME NEW set \in AuthenticatorSets, NEW words \in Seq(KnownWords)
    PROVE  WithAuthenticators(set, words) \in AuthenticatorSets
<1>1. FlattenSeq(NamedBy(words)) \in Seq(Authenticators)
  BY NamedType, FlattenType
<1>2. set.raw \o FlattenSeq(NamedBy(words)) \in Seq(Authenticators)
  BY <1>1, ConcatProperties DEF AuthenticatorSets
<1> QED
  BY <1>2 DEF WithAuthenticators, NamedBy, AuthenticatorSets

LEMMA EmptySetType == EmptySet \in AuthenticatorSets
  BY EmptySeq DEF EmptySet, AuthenticatorSets

LEMMA AuthenticatorsAddUp ==
    ASSUME NEW set \in AuthenticatorSets, NEW u \in Seq(KnownWords), NEW w \in Seq(KnownWords)
    PROVE  WithAuthenticators(WithAuthenticators(set, u), w) = WithAuthenticators(set, u \o w)
<1>1. PICK a, b, c : /\ a = FlattenSeq(NamedBy(u)) /\ b = FlattenSeq(NamedBy(w))
                     /\ c = FlattenSeq(NamedBy(u \o w))
  OBVIOUS
<1>2. a \in Seq(Authenticators) /\ b \in Seq(Authenticators) /\ c = a \o b
  BY <1>1, NamedType, NamedConcat, FlattenType, FlattenConcat
<1>3. (set.raw \o a) \o b = set.raw \o c
  BY <1>2, ConcatAssociative DEF AuthenticatorSets
<1>4. ToSet(u \o w) = ToSet(u) \union ToSet(w)
  <2>1. Range(u \o w) = Range(u) \union Range(w)
    BY RangeConcatenation
  <2> QED
    BY <2>1 DEF Range, ToSet
<1> QED
  BY <1>1, <1>3, <1>4 DEF WithAuthenticators, NamedBy, AuthenticatorSets

-----------------------------------------------------------------------------
(* What lines say *)

\* The last line of an option, where there is one.
Latest(lines, option) == lines[Max(Of(lines, option))]

LEMMA SaidFields ==
    ASSUME NEW ls
    PROVE  /\ DOMAIN Said(ls) = Fields
           /\ Said(ls).issuer =
                IF Of(ls, "issuer") = {} THEN Unset ELSE Head(Latest(ls, "issuer").args)
           /\ Said(ls).username =
                IF Of(ls, "username") = {} THEN Unset ELSE Head(Latest(ls, "username").args)
           /\ Said(ls).tls_insecure_skip_verify =
                IF Of(ls, "tls_insecure_skip_verify") = {} THEN Unset ELSE TRUE
           /\ Said(ls).scope = NotEmpty(ArgsOf(ls, "scope"))
           /\ Said(ls).authenticators =
                IF Of(ls, "authenticate") = {} THEN Unset
                ELSE WithAuthenticators(EmptySet, ArgsOf(ls, "authenticate"))
           /\ Said(ls).metadata =
                IF Of(ls, "protected_resource_metadata") = {} THEN Unset
                ELSE Metadata(Latest(ls, "protected_resource_metadata"))
           /\ Said(ls).token_params =
                IF Of(ls, "token_params") = {} THEN Unset
                ELSE NotEmpty(TokenParams(Latest(ls, "token_params")))
  BY DEF Said, LastOf, Latest, Fields, Values, References

\* Two modules are the same if their fields are.
LEMMA SameModule ==
    ASSUME NEW m, NEW k, DOMAIN m = Fields, DOMAIN k = Fields,
           m = [f \in Fields |-> m[f]], k = [f \in Fields |-> k[f]],
           m.issuer = k.issuer, m.username = k.username,
           m.tls_insecure_skip_verify = k.tls_insecure_skip_verify, m.scope = k.scope,
           m.authenticators = k.authenticators, m.metadata = k.metadata,
           m.token_params = k.token_params
    PROVE  m = k
<1>1. \A f \in Fields : m[f] = k[f]
  BY DEF Fields, Values, References
<1> QED
  BY <1>1

LEMMA SaidIsModule == ASSUME NEW ls PROVE Said(ls) = [f \in Fields |-> Said(ls)[f]]
  BY DEF Said, Fields, Values, References

LEMMA SaidNothing == Said(<<>>) = Nothing
<1>1. \A option : Of(<<>>, option) = {} /\ ArgsOf(<<>>, option) = <<>>
  <2>1. \A option : ArgsByLine(<<>>, option) = <<>>
    BY DEF ArgsByLine
  <2> QED
    BY <2>1, FlattenEmpty, ArgsOfLines DEF Of
<1>2. Said(<<>>) = [f \in Fields |-> Said(<<>>)[f]]
  BY SaidIsModule
<1>3. \A f \in Fields : Said(<<>>)[f] = Unset
  BY <1>1, SaidFields DEF NotEmpty, Fields, Values, References
<1> QED
  BY <1>2, <1>3 DEF Nothing

\* The words behind authenticate that were accepted.
LEMMA AuthenticateWords ==
    ASSUME NEW l \in ProperLines
    PROVE  l \in Lines /\ l.args \in Seq(STRING) /\ ArgsIn(l, "authenticate", KnownWords)
<1>1. l \in Lines /\ l.args \in Seq(STRING) /\ LineAccepted(l)
  BY DEF ProperLines, Lines
<1>2. ASSUME l.option = "authenticate" PROVE l.args \in Seq(KnownWords)
  <2>1. ToSet(l.args) \subseteq Authenticators \union Flags
    BY <1>1, <1>2 DEF LineAccepted, Words
  <2>2. PICK args \in Seq(STRING) : args = l.args
    BY <1>1
  <2>3. args \in [1 .. Len(args) -> STRING] /\ Len(args) \in Nat
    BY LenProperties
  <2>4. \A i \in 1 .. Len(args) : args[i] \in KnownWords
    BY <2>1, <2>2, <2>3 DEF ToSet, KnownWords
  <2>5. args \in [1 .. Len(args) -> KnownWords]
    BY <2>3, <2>4
  <2> QED
    BY <2>2, <2>3, <2>5, SeqDef
<1> QED
  BY <1>1, <1>2 DEF ArgsIn

LEMMA SaidTypes ==
    ASSUME NEW ls \in Seq(ProperLines)
    PROVE  /\ ls \in Seq(Lines)
           /\ TakesArgs(ls, "scope", STRING) /\ TakesArgs(ls, "authenticate", KnownWords)
           /\ ArgsOf(ls, "scope") \in Seq(STRING)
           /\ ArgsOf(ls, "authenticate") \in Seq(KnownWords)
           /\ Said(ls).authenticators \in AuthenticatorSets \union {Unset}
<1>1. ProperLines \subseteq Lines /\ ls \in Seq(Lines)
  BY SeqMonotonic DEF ProperLines
<1>2. \A i \in DOMAIN ls : ls[i] \in ProperLines
  BY LenProperties, ElementOfSeq
<1>3. TakesArgs(ls, "scope", STRING) /\ TakesArgs(ls, "authenticate", KnownWords)
  BY <1>2, AuthenticateWords DEF TakesArgs, ArgsIn
<1>4. ArgsOf(ls, "scope") \in Seq(STRING)
  BY <1>1, <1>3, ArgsByLineType
<1>5. ArgsOf(ls, "authenticate") \in Seq(KnownWords)
  BY <1>1, <1>3, ArgsByLineType
<1>6. Said(ls).authenticators \in AuthenticatorSets \union {Unset}
  BY <1>5, EmptySetType, WithAuthenticatorsType DEF Said
<1> QED
  BY <1>1, <1>3, <1>4, <1>5, <1>6

\* The line changes the field it is about, and no other.
LEMMA SaidOneMore ==
    ASSUME NEW ls \in Seq(ProperLines), NEW l \in ProperLines
    PROVE  Said(Append(ls, l)) = WithLine(Said(ls), l)
<1>1. PICK ks : ks = Append(ls, l)
  OBVIOUS
<1>2. /\ ls \in Seq(Lines) /\ l \in Lines /\ LineAccepted(l) /\ l.args \in Seq(STRING)
      /\ ArgsIn(l, "scope", STRING) /\ ArgsIn(l, "authenticate", KnownWords)
  BY SaidTypes, AuthenticateWords DEF ProperLines, ArgsIn
<1>3. ASSUME NEW option, l.option # option
      PROVE  /\ Of(ks, option) = Of(ls, option)
             /\ Of(ls, option) # {} => Latest(ks, option) = Latest(ls, option)
  BY <1>1, <1>2, <1>3, LastStays DEF Latest
<1>4. Of(ks, l.option) # {} /\ Latest(ks, l.option) = l
  BY <1>1, <1>2, LastIs DEF Latest
<1>5. ArgsOf(ks, "scope") = ArgsOf(ls, "scope") \o ArgsFor(l, "scope")
  BY <1>1, <1>2, SaidTypes, ArgsAppend, Zenon
<1>6. ArgsOf(ks, "authenticate") = ArgsOf(ls, "authenticate") \o ArgsFor(l, "authenticate")
  BY <1>1, <1>2, SaidTypes, ArgsAppend, Zenon
<1>7. PICK m, k : m = Said(ls) /\ k = Said(ks)
  OBVIOUS
<1>8. /\ DOMAIN m = Fields /\ DOMAIN k = Fields
      /\ m = [f \in Fields |-> m[f]] /\ k = [f \in Fields |-> k[f]]
  BY <1>7, SaidFields, SaidIsModule
<1>9. /\ l.option # "issuer" => k.issuer = m.issuer
      /\ l.option # "username" => k.username = m.username
      /\ l.option # "tls_insecure_skip_verify" =>
           k.tls_insecure_skip_verify = m.tls_insecure_skip_verify
      /\ l.option # "protected_resource_metadata" => k.metadata = m.metadata
      /\ l.option # "token_params" => k.token_params = m.token_params
  BY <1>3, <1>7, SaidFields
<1>10. l.option # "scope" => k.scope = m.scope
  <2> SUFFICES ASSUME l.option # "scope" PROVE k.scope = m.scope
    OBVIOUS
  <2>1. ArgsOf(ks, "scope") = ArgsOf(ls, "scope")
    BY <1>5, SaidTypes, ConcatEmptySeq DEF ArgsFor
  <2> QED
    BY <2>1, <1>7, SaidFields
<1>11. l.option # "authenticate" => k.authenticators = m.authenticators
  <2> SUFFICES ASSUME l.option # "authenticate" PROVE k.authenticators = m.authenticators
    OBVIOUS
  <2>1. ArgsOf(ks, "authenticate") = ArgsOf(ls, "authenticate")
    BY <1>6, SaidTypes, ConcatEmptySeq DEF ArgsFor
  <2> QED
    BY <2>1, <1>3, <1>7, SaidFields
<1>12. PICK n : n = WithLine(m, l)
  OBVIOUS
<1>13. CASE l.option \in {"issuer", "username"}
  <2>1. n = [m EXCEPT ![l.option] = l.args[1]]
    BY <1>12, <1>13 DEF WithLine
  <2>2. Len(l.args) = 1 /\ Head(l.args) = l.args[1]
    BY <1>2, <1>13 DEF LineAccepted
  <2>3. k[l.option] = l.args[1]
    BY <1>4, <1>7, <1>13, <2>2, SaidFields
  <2> QED
    BY <1>1, <1>7, <1>8, <1>9, <1>10, <1>11, <1>12, <1>13, <2>1, <2>3, SameModule
       DEF Fields, Values, References
<1>14. CASE l.option = "tls_insecure_skip_verify"
  <2>0. PICK yes : yes = TRUE
    OBVIOUS
  <2>1. n = [m EXCEPT !.tls_insecure_skip_verify = yes]
    BY <1>12, <1>14, <2>0 DEF WithLine
  <2>2. k.tls_insecure_skip_verify = yes
    BY <1>4, <1>7, <1>14, <2>0, SaidFields
  <2> QED
    BY <1>1, <1>7, <1>8, <1>9, <1>10, <1>11, <1>12, <1>14, <2>1, <2>2, SameModule
       DEF Fields, Values, References
<1>15. CASE l.option = "scope"
  <2>1. n = [m EXCEPT !.scope = NotEmpty(Else(m.scope, <<>>) \o l.args)]
    BY <1>8, <1>12, <1>15 DEF WithLine
  <2>2. Else(m.scope, <<>>) = ArgsOf(ls, "scope")
    <3>1. ArgsOf(ls, "scope") # Unset
      BY SaidTypes, CaddyfileAssumption DEF CaddyfileAssumption
    <3> QED
      BY <1>7, <3>1, SaidFields DEF Else, NotEmpty
  <2>3. k.scope = NotEmpty(ArgsOf(ls, "scope") \o l.args)
    BY <1>5, <1>7, <1>15, SaidFields DEF ArgsFor
  <2> QED
    BY <1>1, <1>7, <1>8, <1>9, <1>10, <1>11, <1>12, <1>15, <2>1, <2>2, <2>3, SameModule
       DEF Fields, Values, References
<1>16. CASE l.option = "authenticate"
  <2>1. n = [m EXCEPT !.authenticators = WithAuthenticators(Else(m.authenticators, EmptySet), l.args)]
    BY <1>8, <1>12, <1>16 DEF WithLine
  <2>2. k.authenticators = WithAuthenticators(EmptySet, ArgsOf(ls, "authenticate") \o l.args)
    BY <1>4, <1>6, <1>7, <1>16, SaidFields DEF ArgsFor
  <2>3. l.args \in Seq(KnownWords) /\ ArgsOf(ls, "authenticate") \in Seq(KnownWords)
    BY <1>2, <1>16, SaidTypes DEF ArgsIn
  <2>4. k.authenticators = WithAuthenticators(Else(m.authenticators, EmptySet), l.args)
    <3>1. CASE Of(ls, "authenticate") = {}
      <4>1. ArgsOf(ls, "authenticate") = <<>> /\ m.authenticators = Unset
        BY <1>2, <1>7, <3>1, ArgsOfNone, SaidFields
      <4>2. <<>> \o l.args = l.args
        BY <1>2, ConcatEmptySeq
      <4> QED
        BY <2>2, <4>1, <4>2 DEF Else
    <3>2. CASE Of(ls, "authenticate") # {}
      <4>1. m.authenticators = WithAuthenticators(EmptySet, ArgsOf(ls, "authenticate"))
        BY <1>7, <3>2, SaidFields
      <4>2. m.authenticators # Unset
        BY <2>3, <4>1, EmptySetType, WithAuthenticatorsType, CaddyfileAssumption
           DEF CaddyfileAssumption
      <4> QED
        BY <2>2, <2>3, <4>1, <4>2, EmptySetType, AuthenticatorsAddUp DEF Else
    <3> QED
      BY <3>1, <3>2
  <2> QED
    BY <1>1, <1>7, <1>8, <1>9, <1>10, <1>11, <1>12, <1>16, <2>1, <2>4, SameModule
       DEF Fields, Values, References
<1>17. CASE l.option = "protected_resource_metadata"
  <2>1. n = [m EXCEPT !.metadata = Metadata(l)]
    BY <1>12, <1>17 DEF WithLine
  <2>2. k.metadata = Metadata(l)
    BY <1>4, <1>7, <1>17, SaidFields
  <2> QED
    BY <1>1, <1>7, <1>8, <1>9, <1>10, <1>11, <1>12, <1>17, <2>1, <2>2, SameModule
       DEF Fields, Values, References
<1>18. CASE l.option = "token_params"
  <2>1. n = [m EXCEPT !.token_params = NotEmpty(TokenParams(l))]
    BY <1>12, <1>18 DEF WithLine
  <2>2. k.token_params = NotEmpty(TokenParams(l))
    BY <1>4, <1>7, <1>18, SaidFields
  <2> QED
    BY <1>1, <1>7, <1>8, <1>9, <1>10, <1>11, <1>12, <1>18, <2>1, <2>2, SameModule
       DEF Fields, Values, References
<1>19. CASE l.option = "postgres"
  <2>1. n = m
    BY <1>12, <1>19 DEF WithLine
  <2> QED
    BY <1>1, <1>7, <1>8, <1>9, <1>10, <1>11, <1>12, <1>19, <2>1, SameModule
<1> QED
  BY <1>2, <1>13, <1>14, <1>15, <1>16, <1>17, <1>18, <1>19 DEF LineAccepted

\* What some lines said, and then others.
LEMMA SaidMore ==
    ASSUME NEW ls \in Seq(ProperLines), NEW ks \in Seq(ProperLines)
    PROVE  WithLines(Said(ls), ks) = Said(ls \o ks)
<1> DEFINE T == {js \in Seq(ProperLines) : WithLines(Said(ls), js) = Said(ls \o js)}
<1>1. <<>> \in T
  BY NoLine, EmptySeq, ConcatEmptySeq
<1>2. ASSUME NEW js \in T, NEW l \in ProperLines PROVE Append(js, l) \in T
  <2>1. js \in Seq(ProperLines) /\ ls \o js \in Seq(ProperLines)
    BY ConcatProperties
  <2>2. Append(js, l) \in Seq(ProperLines)
    BY <2>1, AppendProperties
  <2>3. ls \o Append(js, l) = Append(ls \o js, l)
    BY <2>1
  <2>4. WithLines(Said(ls), Append(js, l)) = WithLine(WithLines(Said(ls), js), l)
    BY <2>1, OneMoreLine
  <2>5. Said(Append(ls \o js, l)) = WithLine(Said(ls \o js), l)
    BY <2>1, SaidOneMore
  <2> QED
    BY <2>2, <2>3, <2>4, <2>5
<1>3. T = Seq(ProperLines)
  <2> HIDE DEF T
  <2>1. T \in SUBSET Seq(ProperLines)
    BY DEF T
  <2> QED
    BY <1>1, <1>2, <2>1, SeqSet
<1> QED
  BY <1>3

\* Lines by themselves.
LEMMA SaidAll ==
    ASSUME NEW ks \in Seq(ProperLines) PROVE WithLines(Nothing, ks) = Said(ks)
<1>1. <<>> \in Seq(ProperLines) /\ <<>> \o ks = ks
  BY EmptySeq, ConcatEmptySeq
<1> QED
  BY <1>1, SaidNothing, SaidMore

-----------------------------------------------------------------------------
(* What the blocks of a file say of a module *)

BlockFor(b, o) == IF b.name = o THEN b.lines ELSE <<>>

\* The lines about o in the first n blocks.
LinesIn(blocks, o, n) == FlattenSeq([i \in 1 .. n |-> BlockFor(blocks[i], o)])

\* The first n blocks are without errors.
ProperUpTo(blocks, n) == \A i \in 1 .. n : blocks[i].lines \in Seq(ProperLines)

LEMMA NoBlocks == ASSUME NEW blocks, NEW o PROVE LinesIn(blocks, o, 0) = <<>>
<1>1. [i \in 1 .. 0 |-> BlockFor(blocks[i], o)] = <<>>
  OBVIOUS
<1> QED
  BY <1>1, FlattenEmpty DEF LinesIn

LEMMA LinesInType ==
    ASSUME NEW blocks, NEW o, NEW n \in Nat, ProperUpTo(blocks, n)
    PROVE  /\ [i \in 1 .. n |-> BlockFor(blocks[i], o)] \in Seq(Seq(ProperLines))
           /\ LinesIn(blocks, o, n) \in Seq(ProperLines)
<1>1. \A i \in 1 .. n : BlockFor(blocks[i], o) \in Seq(ProperLines)
  BY EmptySeq DEF BlockFor, ProperUpTo
<1>2. [i \in 1 .. n |-> BlockFor(blocks[i], o)] \in [1 .. n -> Seq(ProperLines)]
  BY <1>1
<1>3. [i \in 1 .. n |-> BlockFor(blocks[i], o)] \in Seq(Seq(ProperLines))
  BY <1>2, SeqDef
<1> QED
  BY <1>3, FlattenType DEF LinesIn

LEMMA LinesInNext ==
    ASSUME NEW blocks, NEW o, NEW n \in Nat, ProperUpTo(blocks, n + 1)
    PROVE  LinesIn(blocks, o, n + 1) = LinesIn(blocks, o, n) \o BlockFor(blocks[n + 1], o)
<1>1. n + 1 \in Nat /\ ProperUpTo(blocks, n)
  BY DEF ProperUpTo
<1>2. PICK ss \in Seq(Seq(ProperLines)) : ss = [i \in 1 .. n |-> BlockFor(blocks[i], o)]
  BY <1>1, LinesInType
<1>3. PICK tt \in Seq(Seq(ProperLines)) : tt = [i \in 1 .. n + 1 |-> BlockFor(blocks[i], o)]
  BY <1>1, LinesInType
<1>4. PICK b \in Seq(ProperLines) : b = BlockFor(blocks[n + 1], o)
  <2>1. n + 1 \in 1 .. n + 1
    OBVIOUS
  <2> QED
    BY <2>1, EmptySeq DEF BlockFor, ProperUpTo
<1>5. PICK uu \in Seq(Seq(ProperLines)) : uu = Append(ss, b)
  BY AppendProperties
<1>6. Len(ss) = n /\ Len(tt) = n + 1
  BY <1>1, <1>2, <1>3, LenProperties
<1>7. Len(uu) = n + 1 /\ uu[n + 1] = b /\ \A i \in 1 .. n : uu[i] = ss[i]
  BY <1>5, <1>6, AppendProperties
<1>8. \A i \in 1 .. n + 1 : i \in 1 .. n \/ i = n + 1
  OBVIOUS
<1>9. tt = uu
  <2>1. \A i \in 1 .. Len(tt) : tt[i] = uu[i]
    BY <1>2, <1>3, <1>4, <1>6, <1>7, <1>8
  <2> QED
    BY <2>1, <1>6, <1>7, SeqEqual
<1> QED
  BY <1>2, <1>3, <1>4, <1>5, <1>9, FlattenAppend DEF LinesIn

-----------------------------------------------------------------------------
(* What was parsed, and where references lead *)

Parsed(h) ==
    pc[h] \in {"parsed", "inherited", "provisioned", "created", "done"} \/ provider[h] # Unset =>
        next = Len(file) + 1 /\ directive[h] \in Seq(ProperLines)

\* A reference leads to an object.
Leads(o) ==
    \A f \in References : /\ module[o][f] \in Addresses \union {Unset}
                          /\ module[o][f] # Unset => heap[module[o][f]] # Unset

\* The copy is made when a handler inherits.
NotCopied(h) == pc[h] \in {"file", "parsed"} => \A f \in References : module[Copy(h)][f] = Unset

ReadInv ==
    /\ \A h \in Handlers : directive[h] \in Seq(Lines)
    /\ ProperUpTo(file, next - 1)
    /\ \A o \in Globals : Written(o) = Said(LinesIn(file, o, next - 1))
    /\ \A h \in Handlers : Parsed(h)

LeadInv ==
    /\ \A o \in Owners : Leads(o)
    /\ \A h \in Handlers : NotCopied(h)

LEMMA InitRead == Init => ReadInv /\ LeadInv
<1> SUFFICES ASSUME Init PROVE ReadInv /\ LeadInv
  OBVIOUS
<1>1. ASSUME NEW h \in Handlers PROVE directive[h] \in Seq(Lines)
  BY InheritanceAssumption DEF Init, InheritanceAssumption
<1>2. next - 1 = 0
  BY DEF Init
<1>3. ProperUpTo(file, next - 1)
  BY <1>2 DEF ProperUpTo
<1>4. ASSUME NEW o \in Globals PROVE Written(o) = Said(LinesIn(file, o, next - 1))
  <2>1. Said(LinesIn(file, o, next - 1)) = Nothing
    BY <1>2, NoBlocks, SaidNothing
  <2>2. module[o] = Nothing
    BY Apart DEF Init
  <2> QED
    BY <2>1, <2>2 DEF Written, Nothing
<1>5. ASSUME NEW h \in Handlers PROVE Parsed(h)
  BY DEF Init, Parsed
<1>6. ASSUME NEW o \in Owners PROVE \A f \in References : module[o][f] = Unset
  BY FieldNames DEF Init, Nothing
<1>7. LeadInv
  BY <1>6, Apart DEF LeadInv, Leads, NotCopied
<1> QED
  BY <1>1, <1>3, <1>4, <1>5, <1>7 DEF ReadInv

\* Lines that Caddy goes on with.
LEMMA AcceptedLines ==
    ASSUME NEW o, NEW ls \in Seq(Lines), Accepted(o, ls) PROVE ls \in Seq(ProperLines)
<1>1. ls \in [1 .. Len(ls) -> Lines] /\ Len(ls) \in Nat
  BY LenProperties
<1>2. \A i \in 1 .. Len(ls) : ls[i] \in ProperLines
  BY <1>1 DEF Accepted, ToSet, ProperLines
<1>3. ls \in [1 .. Len(ls) -> ProperLines]
  BY <1>1, <1>2
<1> QED
  BY <1>1, <1>3, SeqDef

LEMMA ParseBlockRead ==
    ASSUME IInv, ReadInv, LeadInv, ParseBlock PROVE ReadInv' /\ LeadInv'
<1>1. PICK n \in Nat : n = next - 1
  BY DEF IInv, Shapes
<1>2. PICK o, ls : o = file[next].name /\ ls = file[next].lines
  OBVIOUS
<1>3. /\ Shapes /\ next \in 1 .. Len(file) /\ o \in Globals /\ o \in Owners
      /\ ls \in Seq(Lines) /\ n + 1 = next /\ next' - 1 = n + 1
  BY <1>1, <1>2, FileBlocks, Apart DEF ParseBlock, IInv, Shapes
<1>4. ls \in Seq(ProperLines) /\ UNCHANGED <<given, pc, provider>> /\ Fresh
  BY <1>2, <1>3, AcceptedLines DEF ParseBlock
<1>5. PICK m : m = WithLines(Written(o), ls) /\ Read(o, m)
  BY <1>2 DEF ParseBlock, BlockOf
<1>6. ProperUpTo(file, n + 1)
  <2>1. \A i \in 1 .. n + 1 : i \in 1 .. n \/ i = next
    BY <1>3
  <2> QED
    BY <1>1, <1>2, <1>4, <2>1 DEF ReadInv, ProperUpTo
<1>7. ASSUME NEW p \in Globals PROVE Written(p)' = Said(LinesIn(file, p, n + 1))
  <2>1. /\ ProperUpTo(file, n) /\ Written(p) = Said(LinesIn(file, p, n))
        /\ LinesIn(file, p, n) \in Seq(ProperLines)
    BY <1>1, LinesInType DEF ReadInv
  <2>2. LinesIn(file, p, n + 1) = LinesIn(file, p, n) \o BlockFor(file[n + 1], p)
    BY <1>6, LinesInNext
  <2>3. CASE p = o
    <3>1. BlockFor(file[n + 1], p) = ls
      BY <1>2, <1>3, <2>3 DEF BlockFor
    <3>2. m = Said(LinesIn(file, p, n + 1))
      BY <1>4, <1>5, <2>1, <2>2, <2>3, <3>1, SaidMore
    <3>3. Written(p)' = [f \in Fields |-> Written(p)'[f]]
      BY DEF Written
    <3>4. \A f \in Fields : Written(p)'[f] = m[f]
      BY <1>3, <1>5, <2>3, ReadStruct
    <3> QED
      BY <3>2, <3>3, <3>4, SaidIsModule
  <2>4. CASE p # o
    <3>1. BlockFor(file[n + 1], p) = <<>>
      BY <1>2, <1>3, <2>4 DEF BlockFor
    <3>2. LinesIn(file, p, n + 1) = LinesIn(file, p, n)
      BY <2>1, <2>2, <3>1, ConcatEmptySeq
    <3>3. Written(p)' = Written(p)
      BY <1>3, <1>5, <2>4, ReadStruct, Stays, Apart DEF IInv
    <3> QED
      BY <2>1, <3>2, <3>3
  <2> QED
    BY <2>3, <2>4
<1>8. ASSUME NEW h \in Handlers PROVE Parsed(h)'
  <2>1. pc[h] = "file" /\ provider[h] = Unset
    BY <1>4, NoneYet DEF Fresh
  <2> QED
    BY <1>4, <2>1 DEF Parsed
<1>9. ReadInv'
  BY <1>3, <1>4, <1>6, <1>7, <1>8 DEF ReadInv, given
<1>10. ASSUME NEW p \in Owners PROVE Leads(p)'
  <2>1. CASE p = o
    BY <1>3, <1>5, <2>1, ReadStruct, Apart DEF Leads, Owns, Backed
  <2>2. CASE p # o /\ p \in Globals \union Handlers
    <3>1. Owns(p) /\ Leads(p)
      BY <2>2 DEF IInv, LeadInv
    <3>2. module'[p] = module[p] /\ \A f \in References : heap'[<<p, f>>] = heap[<<p, f>>]
      BY <1>3, <1>5, <2>2, ReadStruct
    <3> QED
      BY <3>1, <3>2 DEF Leads, Owns
  <2>3. CASE p \notin Globals \union Handlers
    <3>1. PICK h \in Handlers : p = Copy(h)
      BY <2>3 DEF Owners
    <3>2. \A f \in References : module[p][f] = Unset
      BY <1>4, <3>1 DEF LeadInv, NotCopied, Fresh
    <3>3. module'[p] = module[p]
      BY <1>3, <1>5, <2>3, ReadStruct
    <3> QED
      BY <3>2, <3>3 DEF Leads
  <2> QED
    BY <2>1, <2>2, <2>3
<1>11. ASSUME NEW h \in Handlers PROVE NotCopied(h)'
  <2>1. module'[Copy(h)] = module[Copy(h)]
    BY <1>3, <1>5, ReadStruct, Apart
  <2> QED
    BY <1>4, <2>1 DEF NotCopied, LeadInv
<1> QED
  BY <1>9, <1>10, <1>11 DEF LeadInv

\* The steps of handler h.
HandlerSteps(h) ==
    \/ ParseDirective(h) \/ ParseDirectiveFails(h)
    \/ InheritDefault(h) \/ InheritNamed(h) \/ InheritMissing(h)
    \/ ProvisionModule(h) \/ ProvisionFails(h)
    \/ Create(h) \/ Validate(h) \/ ValidateFails(h)

LEMMA HandlerFrame ==
    ASSUME IInv, NEW h \in Handlers, HandlerSteps(h)
    PROVE  /\ IInv' /\ Elsewhere(h) /\ UNCHANGED <<given, app>>
           /\ \A g \in Handlers \ {h} : pc'[g] = pc[g] /\ provider'[g] = provider[g]
<1>1. IInv' /\ Elsewhere(h)
  BY HandlerInv DEF HandlerSteps
<1>2. UNCHANGED <<given, app>>
  BY DEF HandlerSteps, ParseDirective, ParseDirectiveFails, InheritDefault, InheritNamed,
         InheritMissing, ProvisionModule, ProvisionFails, Create, Validate, ValidateFails, Abort
<1>3. \E place \in PCs : Become(h, place)
  BY DEF HandlerSteps, ParseDirective, ParseDirectiveFails, InheritDefault, InheritNamed,
         InheritMissing, ProvisionModule, ProvisionFails, Create, Validate, ValidateFails, Abort,
         Become, PCs
<1>4. \A g \in Handlers \ {h} : pc'[g] = pc[g]
  BY <1>3, Becomes DEF IInv
<1>5. \A g \in Handlers \ {h} : provider'[g] = provider[g]
  <2>1. CASE Create(h)
    BY <2>1 DEF Create, IInv, Shapes
  <2>2. CASE ~Create(h)
    BY <2>2 DEF HandlerSteps, ParseDirective, ParseDirectiveFails, InheritDefault, InheritNamed,
         InheritMissing, ProvisionModule, ProvisionFails, Validate, ValidateFails, Abort
  <2> QED
    BY <2>1, <2>2
<1> QED
  BY <1>1, <1>2, <1>4, <1>5

LEMMA HandlerRead ==
    ASSUME IInv, ReadInv, NEW h \in Handlers, HandlerSteps(h) PROVE ReadInv'
<1>1. /\ Elsewhere(h) /\ UNCHANGED <<given, app>>
      /\ \A g \in Handlers \ {h} : pc'[g] = pc[g] /\ provider'[g] = provider[g]
  BY HandlerFrame
<1>2. ASSUME NEW o \in Globals PROVE Written(o)' = Written(o)
  BY <1>1, OthersStand, Apart
<1>3. Parsed(h)'
  <2>1. CASE ParseDirective(h)
    <3>1. next = Len(file) + 1
      BY <2>1, FileBlocks DEF ParseDirective, Unparsed, IInv, Shapes
    <3>2. directive[h] \in Seq(ProperLines)
      BY <2>1, AcceptedLines DEF ParseDirective, ReadInv
    <3> QED
      BY <1>1, <3>1, <3>2 DEF Parsed, given, app
  <2>2. CASE ParseDirectiveFails(h)
    <3>1. provider[h] = Unset
      BY <2>2, NoneYet DEF ParseDirectiveFails, Unparsed
    <3> QED
      BY <2>2, <3>1 DEF ParseDirectiveFails, Parsed, IInv, Shapes
  <2>3. CASE ~ParseDirective(h) /\ ~ParseDirectiveFails(h)
    <3>1. pc[h] \in {"parsed", "inherited", "provisioned", "created"}
      BY <2>3 DEF HandlerSteps, InheritDefault, InheritNamed, InheritMissing, ProvisionModule,
           ProvisionFails, Create, Validate, ValidateFails, Turn
    <3> QED
      BY <1>1, <3>1 DEF Parsed, ReadInv, given, app
  <2> QED
    BY <2>1, <2>2, <2>3
<1>4. ASSUME NEW g \in Handlers PROVE Parsed(g)'
  BY <1>1, <1>3 DEF Parsed, ReadInv, given, app
<1> QED
  BY <1>1, <1>2, <1>4 DEF ReadInv, given, app

\* No object goes away.
Grows == \A a \in Addresses : heap[a] # Unset => heap'[a] # Unset

LEMMA LeadsOn ==
    ASSUME NEW o, Leads(o), module'[o] = module[o], Grows PROVE Leads(o)'
  BY DEF Leads, Grows

\* Nor in a clone.
LEMMA ClonesGrow ==
    ASSUME NEW objects, NEW o, NEW dst, NEW src, heap' = Cloned(objects, o, dst, src),
           \A a \in Addresses : heap[a] # Unset => objects[a] # Unset,
           \A f \in References : src[f] # Unset => src[f] \in Addresses /\ objects[src[f]] # Unset
    PROVE  Grows
<1> SUFFICES ASSUME NEW a \in Addresses, heap[a] # Unset PROVE heap'[a] # Unset
  BY DEF Grows
<1>1. a[2] \in References
  BY DEF Addresses
<1>2. CASE a[1] = o /\ a[2] \in Filled(dst, src)
  BY <1>1, <1>2 DEF Cloned, Filled
<1>3. CASE ~ (a[1] = o /\ a[2] \in Filled(dst, src))
  BY <1>3 DEF Cloned
<1> QED
  BY <1>2, <1>3

LEMMA InheritDefaultLead ==
    ASSUME IInv, LeadInv, NEW h \in Handlers, InheritDefault(h)
    PROVE  Grows /\ Leads(h)' /\ Leads(Copy(h))'
<1>1. IInv' /\ Elsewhere(h) /\ Shapes /\ Leads(Default) /\ Leads(Copy(h))
  BY InheritDefaultInv, Apart DEF LeadInv, IInv, Globals
<1>2. Grows
  <2>1. \A f \in References : module[Default][f] # Unset =>
           module[Default][f] \in Addresses /\ heap[module[Default][f]] # Unset
    BY <1>1 DEF Leads
  <2>2. heap' = Cloned(heap, h, module[h], module[Default])
    BY DEF InheritDefault
  <2> QED
    BY <2>1, <2>2, ClonesGrow
<1>3. Leads(h)'
  <2>1. pc'[h] = "inherited"
    BY <1>1 DEF InheritDefault, Become, Shapes
  <2>2. Owns(h)' /\ Backed(h)'
    BY <1>1, <2>1 DEF IInv, Progress
  <2> QED
    BY <2>2, Apart DEF Leads, Owns, Backed
<1>4. module'[Copy(h)] = module[Copy(h)]
  BY <1>1, Apart DEF InheritDefault, Shapes
<1> QED
  BY <1>1, <1>2, <1>3, <1>4, LeadsOn

LEMMA InheritNamedLead ==
    ASSUME IInv, LeadInv, NEW h \in Handlers, InheritNamed(h)
    PROVE  Grows /\ Leads(h)' /\ Leads(Copy(h))'
<1>1. PICK n : n = inherits[h]
  OBVIOUS
<1>2. PICK full : full = Applied(Copy(h), module[n], module[Default])
  OBVIOUS
<1>3. PICK objects : objects = Cloned(heap, Copy(h), module[n], module[Default])
  OBVIOUS
<1>4. /\ module' = [module EXCEPT ![Copy(h)] = full, ![h] = Applied(h, module[h], full)]
      /\ heap' = Cloned(objects, h, module[h], full) /\ Become(h, "inherited")
  BY <1>1, <1>2, <1>3 DEF InheritNamed
<1>5. /\ IInv' /\ Shapes /\ n \in Globals /\ Default \in Globals
      /\ Owns(n) /\ Backed(n) /\ Owns(Default) /\ Backed(Default) /\ Leads(Default)
      /\ Copy(h) \in Owners \ {h} /\ h \in Owners
  BY <1>1, InheritNamedInv, Apart DEF InheritNamed, LeadInv, IInv, Globals
<1>6. /\ \A f \in References : full[f] # Unset => full[f] \in Addresses /\ objects[full[f]] # Unset
      /\ \A p \in Owners \ {Copy(h)} : \A f \in References : objects[<<p, f>>] = heap[<<p, f>>]
  BY <1>2, <1>3, <1>5, ApplyCopy
<1>7. \A a \in Addresses : heap[a] # Unset => objects[a] # Unset
  <2> SUFFICES ASSUME NEW a \in Addresses, heap[a] # Unset PROVE objects[a] # Unset
    OBVIOUS
  <2>1. \A f \in References : module[Default][f] # Unset =>
           heap[module[Default][f]] # Unset
    BY <1>5 DEF Leads
  <2>2. a[2] \in References
    BY DEF Addresses
  <2>3. CASE a[1] = Copy(h) /\ a[2] \in Filled(module[n], module[Default])
    BY <1>3, <2>1, <2>2, <2>3 DEF Cloned, Filled
  <2>4. CASE ~ (a[1] = Copy(h) /\ a[2] \in Filled(module[n], module[Default]))
    BY <1>3, <2>4 DEF Cloned
  <2> QED
    BY <2>3, <2>4
<1>8. Grows
  BY <1>4, <1>6, <1>7, ClonesGrow
<1>9. Leads(h)'
  <2>1. pc'[h] = "inherited"
    BY <1>4, <1>5 DEF Become, Shapes
  <2>2. Owns(h)' /\ Backed(h)'
    BY <1>5, <2>1 DEF IInv, Progress
  <2> QED
    BY <1>5, <2>2, Apart DEF Leads, Owns, Backed
<1>10. Leads(Copy(h))'
  <2>1. module'[Copy(h)] = full
    BY <1>4, <1>5 DEF Shapes
  <2>2. \A f \in References : full[f] \in Addresses \union {Unset}
    BY <1>6
  <2>3. ASSUME NEW f \in References, full[f] # Unset PROVE heap'[full[f]] # Unset
    <3>1. PICK a : a = full[f]
      OBVIOUS
    <3>2. a \in Addresses /\ objects[a] # Unset /\ a[2] \in References
      BY <1>6, <2>3, <3>1 DEF Addresses
    <3>3. CASE a[1] = h /\ a[2] \in Filled(module[h], full)
      BY <1>4, <1>6, <3>1, <3>2, <3>3 DEF Cloned, Filled
    <3>4. CASE ~ (a[1] = h /\ a[2] \in Filled(module[h], full))
      BY <1>4, <3>1, <3>2, <3>4 DEF Cloned
    <3> QED
      BY <3>1, <3>3, <3>4
  <2> QED
    BY <2>1, <2>2, <2>3 DEF Leads
<1> QED
  BY <1>8, <1>9, <1>10

-----------------------------------------------------------------------------
(* What a handler inherits, is what was said *)

\* What lines say is what the parser made of them, for every module of handler h.
LEMMA ParsedIsSaid ==
    ASSUME IInv, ReadInv, NEW h \in Handlers,
           pc[h] \in {"parsed", "inherited", "provisioned", "created", "done"} \/ provider[h] # Unset
    PROVE  /\ \A o \in Globals : /\ LinesOf(o) \in Seq(ProperLines)
                                 /\ Written(o) = Said(LinesOf(o))
           /\ LinesOf(h) \in Seq(ProperLines)
           /\ WithLines(Nothing, directive[h]) = Said(LinesOf(h))
<1>1. next = Len(file) + 1 /\ directive[h] \in Seq(ProperLines) /\ file \in Files
  BY DEF ReadInv, Parsed, IInv, Shapes
<1>2. PICK n \in Nat : n = Len(file) /\ next - 1 = n /\ DOMAIN file = 1 .. n
  <2>1. Len(file) \in Nat /\ DOMAIN file = 1 .. Len(file)
    BY <1>1, FileBlocks
  <2>2. (Len(file) + 1) - 1 = Len(file)
    BY <2>1
  <2> QED
    BY <1>1, <2>1, <2>2
<1>3. ASSUME NEW o \in Globals
      PROVE  LinesOf(o) \in Seq(ProperLines) /\ Written(o) = Said(LinesOf(o))
  <2>1. o \notin Handlers
    BY Apart
  <2>2. LinesOf(o) = LinesIn(file, o, n)
    BY <1>2, <2>1 DEF LinesOf, LinesIn, BlockFor
  <2> QED
    BY <1>2, <2>2, LinesInType DEF ReadInv
<1>4. LinesOf(h) = directive[h]
  BY DEF LinesOf
<1> QED
  BY <1>1, <1>3, <1>4, SaidAll

\* A set of authenticators is one, or there is none.
LEMMA NearestSet ==
    ASSUME IInv, ReadInv, NEW h \in Handlers,
           pc[h] \in {"parsed", "inherited", "provisioned", "created", "done"} \/ provider[h] # Unset
    PROVE  Nearest(h).authenticators \in AuthenticatorSets \union {Unset}
<1>1. \A o \in Globals : Written(o).authenticators \in AuthenticatorSets \union {Unset}
  BY ParsedIsSaid, SaidTypes
<1>2. WithLines(Nothing, directive[h]).authenticators \in AuthenticatorSets \union {Unset}
  BY ParsedIsSaid, SaidTypes
<1>3. Default \in Globals /\ Names \subseteq Globals
  BY DEF Globals
<1> QED
  BY <1>1, <1>2, <1>3, FieldNames DEF Nearest, Else

LEMMA LoadedType ==
    ASSUME NEW set \in AuthenticatorSets PROVE Loaded(set) \in AuthenticatorSets
<1>1. set.raw \in Seq(Authenticators) /\ set.loaded \in Seq(Authenticators)
  BY DEF AuthenticatorSets
<1>2. PICK made : made = set.loaded \o (IF set.raw = <<>> THEN DefaultAuthenticators ELSE set.raw)
  OBVIOUS
<1>3. made \in Seq(Authenticators)
  BY <1>1, <1>2, CaddyfileAssumption, ConcatProperties DEF CaddyfileAssumption
<1>4. Loaded(set) = [set EXCEPT !.loaded = made, !.raw = <<>>]
  BY <1>2 DEF Loaded, AuthenticatorSets
<1> QED
  BY <1>3, <1>4, EmptySeq DEF AuthenticatorSets

LEMMA ProvisionLead ==
    ASSUME IInv, ReadInv, LeadInv, NEW h \in Handlers, ProvisionModule(h)
    PROVE  Grows /\ Leads(h)' /\ Leads(Copy(h))'
<1>1. /\ Shapes /\ pc[h] = "inherited" /\ Owns(h) /\ Backed(h) /\ Written(h) = Nearest(h)
      /\ h \in Owners /\ Copy(h) \in Owners \ {h} /\ Leads(h) /\ Leads(Copy(h))
  BY Apart DEF IInv, LeadInv, ProvisionModule, Turn, Progress
<1>2. \A f \in References : Made(h, f) = <<h, f>>
  BY <1>1 DEF Made, Owns
<1>3. PICK set, scope, metadata :
        /\ set = Loaded(IF heap[<<h, "authenticators">>] = Unset THEN EmptySet
                        ELSE heap[<<h, "authenticators">>])
        /\ scope = IF heap[<<h, "scope">>] = Unset THEN DefaultScope ELSE heap[<<h, "scope">>]
        /\ metadata = IF heap[<<h, "metadata">>] = Unset THEN Enabled ELSE heap[<<h, "metadata">>]
  OBVIOUS
<1>4. /\ heap' = [heap EXCEPT ![<<h, "authenticators">>] = set, ![<<h, "scope">>] = scope,
                              ![<<h, "metadata">>] = metadata]
      /\ module' = [module EXCEPT
                      ![h].authenticators = <<h, "authenticators">>, ![h].scope = <<h, "scope">>,
                      ![h].metadata = <<h, "metadata">>,
                      ![h].username = IF @ = Unset THEN DefaultUsername ELSE @]
  BY <1>2, <1>3, FieldNames DEF ProvisionModule
<1>5. set # Unset
  <2>1. Written(h).authenticators \in AuthenticatorSets \union {Unset}
    BY <1>1, NearestSet
  <2>2. heap[<<h, "authenticators">>] \in AuthenticatorSets \union {Unset}
    BY <1>1, <2>1, FieldNames DEF Written, Owns, Backed
  <2>3. set \in AuthenticatorSets
    BY <1>3, <2>2, EmptySetType, LoadedType
  <2> QED
    BY <2>3, CaddyfileAssumption DEF CaddyfileAssumption
<1>6. scope # Unset /\ metadata # Unset
  <2>1. Enabled \in MetadataConfigurations
    BY DEF Enabled, MetadataConfigurations
  <2>2. Enabled # Unset
    BY <2>1, CaddyfileAssumption DEF CaddyfileAssumption
  <2> QED
    BY <1>3, <2>2, InheritanceAssumption DEF InheritanceAssumption
<1>7. Grows
  BY <1>1, <1>4, <1>5, <1>6 DEF Grows, Shapes
<1>8. module'[Copy(h)] = module[Copy(h)]
  BY <1>1, <1>4 DEF Shapes
<1>9. Leads(h)'
  <2>1. /\ heap'[<<h, "authenticators">>] = set /\ heap'[<<h, "scope">>] = scope
        /\ heap'[<<h, "metadata">>] = metadata
        /\ module'[h].authenticators = <<h, "authenticators">>
        /\ module'[h].scope = <<h, "scope">> /\ module'[h].metadata = <<h, "metadata">>
        /\ module'[h].token_params = module[h].token_params
    BY <1>1, <1>4, Apart DEF Shapes, Fields, Values, References
  <2>2. "token_params" \in References /\ Leads(h)
    BY <1>1 DEF References
  <2>3. /\ module'[h].token_params \in Addresses \union {Unset}
        /\ module'[h].token_params # Unset => heap'[module'[h].token_params] # Unset
    BY <1>7, <2>1, <2>2 DEF Leads, Grows
  <2>4. \A f \in References : <<h, f>> \in Addresses
    BY <1>1, Apart
  <2> QED
    BY <1>5, <1>6, <2>1, <2>3, <2>4 DEF Leads, References
<1> QED
  BY <1>1, <1>7, <1>8, <1>9, LeadsOn

LEMMA HandlerLead ==
    ASSUME IInv, ReadInv, LeadInv, NEW h \in Handlers, HandlerSteps(h)
    PROVE  LeadInv'
<1>1. /\ Elsewhere(h) /\ \A g \in Handlers \ {h} : pc'[g] = pc[g]
      /\ Shapes /\ IInv'
  BY HandlerFrame DEF IInv
<1>2. CASE ParseDirective(h)
  <2>1. PICK m : Read(h, m)
    BY <1>2 DEF ParseDirective
  <2>2. /\ h \in Owners /\ pc'[h] = "parsed"
        /\ \A g \in Handlers : pc[g] \in {"file", "parsed"}
    BY <1>1, <1>2, Apart DEF ParseDirective, Unparsed, Become, Shapes
  <2>3. \A g \in Handlers : Copy(g) \in Owners \ {h} /\ module'[Copy(g)] = module[Copy(g)]
    BY <1>1, <2>1, <2>2, ReadStruct, Apart
  <2>4. \A g \in Handlers : \A f \in References : module'[Copy(g)][f] = Unset
    BY <2>2, <2>3 DEF LeadInv, NotCopied
  <2>5. ASSUME NEW p \in Owners PROVE Leads(p)'
    <3>1. CASE p = h
      BY <1>1, <2>1, <2>2, <3>1, ReadStruct, Apart DEF Leads, Owns, Backed
    <3>2. CASE p # h /\ p \in Globals \union Handlers
      <4>1. Owns(p) /\ Leads(p)
        BY <3>2 DEF IInv, LeadInv
      <4>2. module'[p] = module[p] /\ \A f \in References : heap'[<<p, f>>] = heap[<<p, f>>]
        BY <1>1, <2>1, <2>2, <3>2, ReadStruct
      <4> QED
        BY <4>1, <4>2 DEF Leads, Owns
    <3>3. CASE p \notin Globals \union Handlers
      <4>1. PICK g \in Handlers : p = Copy(g)
        BY <3>3 DEF Owners
      <4> QED
        BY <2>4, <4>1 DEF Leads
    <3> QED
      BY <3>1, <3>2, <3>3
  <2> QED
    BY <2>4, <2>5 DEF LeadInv, NotCopied
<1>3. CASE ~ParseDirective(h)
  <2>1. Grows /\ Leads(h)' /\ Leads(Copy(h))'
    <3>1. CASE InheritDefault(h) \/ InheritNamed(h) \/ ProvisionModule(h)
      BY <3>1, InheritDefaultLead, InheritNamedLead, ProvisionLead
    <3>2. CASE UNCHANGED <<module, heap>>
      BY <3>2, Apart DEF Grows, Leads, LeadInv
    <3> QED
      BY <1>3, <3>1, <3>2 DEF HandlerSteps, ParseDirectiveFails, InheritMissing, ProvisionFails,
           Create, Validate, ValidateFails, Abort
  <2>2. ASSUME NEW p \in Owners PROVE Leads(p)'
    <3>1. CASE p \in {h, Copy(h)}
      BY <2>1, <3>1
    <3>2. CASE p \notin {h, Copy(h)}
      BY <1>1, <2>1, <3>2, LeadsOn DEF Elsewhere, LeadInv
    <3> QED
      BY <3>1, <3>2
  <2>3. pc'[h] \notin {"file", "parsed"}
    BY <1>1, <1>3 DEF HandlerSteps, ParseDirectiveFails, InheritDefault, InheritNamed,
         InheritMissing, ProvisionModule, ProvisionFails, Create, Validate, ValidateFails, Abort,
         Become, Shapes
  <2>4. ASSUME NEW g \in Handlers, g # h PROVE NotCopied(g)'
    <3>1. Copy(g) # Copy(h)
      BY <2>4 DEF Copy
    <3>2. module'[Copy(g)] = module[Copy(g)]
      BY <1>1, <3>1, Apart DEF Elsewhere
    <3> QED
      BY <1>1, <2>4, <3>2 DEF NotCopied, LeadInv
  <2> QED
    BY <2>2, <2>3, <2>4 DEF LeadInv, NotCopied
<1> QED
  BY <1>2, <1>3

LEMMA StepRead == IInv /\ ReadInv /\ LeadInv /\ [Next]_vars => ReadInv' /\ LeadInv'
<1> SUFFICES ASSUME IInv, ReadInv, LeadInv, [Next]_vars PROVE ReadInv' /\ LeadInv'
  OBVIOUS
<1>1. CASE ParseBlock
  BY <1>1, ParseBlockRead
<1>2. CASE ParseFails
  <2>1. UNCHANGED <<given, app, module, heap, provider>> /\ pc' = [h \in Handlers |-> "failed"]
    BY <1>2 DEF ParseFails
  <2>2. \A h \in Handlers : provider[h] = Unset
    BY <1>2, NoneYet DEF ParseFails, Fresh
  <2> QED
    BY <2>1, <2>2 DEF ReadInv, LeadInv, Parsed, NotCopied, Leads, Written, given, app
<1>3. CASE \E h \in Handlers : HandlerSteps(h)
  BY <1>3, HandlerRead, HandlerLead
<1>4. CASE UNCHANGED vars
  BY <1>4 DEF vars, given, app, ReadInv, LeadInv, Parsed, NotCopied, Leads, Written
<1> QED
  BY <1>1, <1>2, <1>3, <1>4 DEF Next, HandlerSteps

\* At any time the modules that were parsed say what the lines up to there say, and their
\* references lead to objects (app.go, parseGlobalConfig).
THEOREM ReadThroughout == Spec => [](IInv /\ ReadInv /\ LeadInv)
  BY InitInv, StepInv, InitRead, StepRead, PTL DEF Spec

-----------------------------------------------------------------------------

\* Every reference leads to an object, at any time, and a handler has a provider only once
\* it came so far (provider_module.go, Provision dereferences them).
THEOREM TypeCorrect == Spec => []TypeOK
<1>1. IInv /\ LeadInv => TypeOK
  BY DEF IInv, Shapes, Progress, LeadInv, Leads, TypeOK
<1> QED
  BY <1>1, ReadThroughout, PTL

\* The nearest module that says anything of a field, said with Else.
LEMMA SaysNearest ==
    ASSUME inherits \in [Handlers -> Globals], NEW h \in Handlers, NEW f
    PROVE  Says(h, f) =
             Else(Said(LinesOf(h))[f],
                  IF inherits[h] \in Names
                  THEN Else(Said(LinesOf(inherits[h]))[f], Said(LinesOf(Default))[f])
                  ELSE Said(LinesOf(Default))[f])
<1>1. CASE inherits[h] \in Names
  <2>1. PICK x, y, z : /\ x = Said(LinesOf(h))[f] /\ y = Said(LinesOf(inherits[h]))[f]
                       /\ z = Said(LinesOf(Default))[f]
    OBVIOUS
  <2>2. PICK said : said = [i \in DOMAIN Chain(h) |-> Said(LinesOf(Chain(h)[i]))[f]]
    OBVIOUS
  <2>3. DOMAIN Chain(h) = 1 .. 3
    BY <1>1 DEF Chain
  <2>4. said[1] = x /\ said[2] = y /\ said[3] = z /\ DOMAIN said = 1 .. 3
    BY <1>1, <2>1, <2>2, <2>3 DEF Chain
  <2>5. PICK heard : heard = {i \in DOMAIN said : said[i] # Unset}
    OBVIOUS
  <2>6. Says(h, f) = IF heard = {} THEN Unset
                     ELSE said[CHOOSE i \in heard : \A j \in heard : i <= j]
    BY <2>2, <2>5 DEF Says
  <2>7. heard = {i \in {1, 2, 3} : said[i] # Unset}
    BY <2>4, <2>5
  <2>8. CASE x # Unset
    <3>1. (CHOOSE i \in heard : \A j \in heard : i <= j) = 1
      BY <2>4, <2>7, <2>8
    <3> QED
      BY <1>1, <2>1, <2>4, <2>6, <2>7, <2>8, <3>1 DEF Else
  <2>9. CASE x = Unset /\ y # Unset
    <3>1. (CHOOSE i \in heard : \A j \in heard : i <= j) = 2
      BY <2>4, <2>7, <2>9
    <3> QED
      BY <1>1, <2>1, <2>4, <2>6, <2>7, <2>9, <3>1 DEF Else
  <2>10. CASE x = Unset /\ y = Unset /\ z # Unset
    <3>1. (CHOOSE i \in heard : \A j \in heard : i <= j) = 3
      BY <2>4, <2>7, <2>10
    <3> QED
      BY <1>1, <2>1, <2>4, <2>6, <2>7, <2>10, <3>1 DEF Else
  <2>11. CASE x = Unset /\ y = Unset /\ z = Unset
    BY <1>1, <2>1, <2>4, <2>6, <2>7, <2>11 DEF Else
  <2> QED
    BY <2>8, <2>9, <2>10, <2>11
<1>2. CASE inherits[h] \notin Names
  <2>1. PICK x, z : x = Said(LinesOf(h))[f] /\ z = Said(LinesOf(Default))[f]
    OBVIOUS
  <2>2. PICK said : said = [i \in DOMAIN Chain(h) |-> Said(LinesOf(Chain(h)[i]))[f]]
    OBVIOUS
  <2>3. DOMAIN Chain(h) = 1 .. 2
    BY <1>2 DEF Chain
  <2>4. said[1] = x /\ said[2] = z /\ DOMAIN said = 1 .. 2
    BY <1>2, <2>1, <2>2, <2>3 DEF Chain
  <2>5. PICK heard : heard = {i \in DOMAIN said : said[i] # Unset}
    OBVIOUS
  <2>6. Says(h, f) = IF heard = {} THEN Unset
                     ELSE said[CHOOSE i \in heard : \A j \in heard : i <= j]
    BY <2>2, <2>5 DEF Says
  <2>7. heard = {i \in {1, 2} : said[i] # Unset}
    BY <2>4, <2>5
  <2>8. CASE x # Unset
    <3>1. (CHOOSE i \in heard : \A j \in heard : i <= j) = 1
      BY <2>4, <2>7, <2>8
    <3> QED
      BY <1>2, <2>1, <2>4, <2>6, <2>7, <2>8, <3>1 DEF Else
  <2>9. CASE x = Unset /\ z # Unset
    <3>1. (CHOOSE i \in heard : \A j \in heard : i <= j) = 2
      BY <2>4, <2>7, <2>9
    <3> QED
      BY <1>2, <2>1, <2>4, <2>6, <2>7, <2>9, <3>1 DEF Else
  <2>10. CASE x = Unset /\ z = Unset
    BY <1>2, <2>1, <2>4, <2>6, <2>7, <2>10 DEF Else
  <2> QED
    BY <2>8, <2>9, <2>10
<1> QED
  BY <1>1, <1>2

\* The set of authenticators that lines make is yet to be loaded.
LEMMA SaidUnloaded ==
    ASSUME NEW ls \in Seq(ProperLines), Said(ls).authenticators # Unset
    PROVE  Said(ls).authenticators.loaded = <<>>
<1>1. PICK words : words = ArgsOf(ls, "authenticate")
  OBVIOUS
<1>2. Said(ls).authenticators = WithAuthenticators(EmptySet, words)
  BY <1>1, SaidFields
<1>3. PICK set \in AuthenticatorSets : set = EmptySet
  BY EmptySetType
<1>4. set.loaded = <<>>
  BY <1>3 DEF EmptySet
<1>5. PICK raw, required, preserve :
        WithAuthenticators(set, words)
          = [set EXCEPT !.raw = raw, !.required = required, !.preserve = preserve]
  BY DEF WithAuthenticators
<1>6. [set EXCEPT !.raw = raw, !.required = required, !.preserve = preserve].loaded = set.loaded
  BY DEF AuthenticatorSets
<1> QED
  BY <1>2, <1>3, <1>4, <1>5, <1>6

\* A handler with a provider runs with what is said of each field.
LEMMA SaidIsNearest ==
    ASSUME IInv, ReadInv, NEW h \in Handlers, provider[h] # Unset
    PROVE  /\ \A f \in Fields : Nearest(h)[f] = Says(h, f)
           /\ Says(h, "authenticators") \in AuthenticatorSets \union {Unset}
           /\ Says(h, "authenticators") # Unset => Says(h, "authenticators").loaded = <<>>
<1>1. inherits \in [Handlers -> Globals] /\ Default \in Globals /\ inherits[h] \in Globals
  BY DEF IInv, Shapes, Globals
<1>2. /\ \A o \in Globals : LinesOf(o) \in Seq(ProperLines) /\ Written(o) = Said(LinesOf(o))
      /\ LinesOf(h) \in Seq(ProperLines)
      /\ WithLines(Nothing, directive[h]) = Said(LinesOf(h))
  BY ParsedIsSaid
<1>3. \A f \in Fields : Nearest(h)[f] = Says(h, f)
  BY <1>1, <1>2, SaysNearest DEF Nearest
<1>4. Says(h, "authenticators") \in AuthenticatorSets \union {Unset}
  BY <1>3, NearestSet, FieldNames
<1>5. Says(h, "authenticators") # Unset => Says(h, "authenticators").loaded = <<>>
  <2>1. \A o \in Globals \union {h} :
          Said(LinesOf(o)).authenticators # Unset => Said(LinesOf(o)).authenticators.loaded = <<>>
    BY <1>2, SaidUnloaded
  <2> QED
    BY <1>1, <2>1, SaysNearest DEF Else
<1> QED
  BY <1>3, <1>4, <1>5

\* Every handler runs with the configuration the files give it, field by field from its
\* nearest ancestor, whichever blocks the lines are spread over and whichever handlers came
\* before (app.go, parseGlobalConfig and GetInheritedProvider; provider_module.go, Provision
\* and Create).
THEOREM ConfiguredAsSaid == Spec => []EffectiveConfiguration
<1>1. ASSUME IInv, ReadInv, NEW h \in Handlers, provider[h] # Unset
      PROVE  LET set == Else(Says(h, "authenticators"), EmptySet)
             IN  provider[h] =
                   [issuer |-> Says(h, "issuer"),
                    username |-> Else(Says(h, "username"), DefaultUsername),
                    tls_insecure_skip_verify |-> Says(h, "tls_insecure_skip_verify"),
                    scope |-> Else(Says(h, "scope"), DefaultScope),
                    metadata |-> Else(Says(h, "metadata"), Enabled),
                    token_params |-> Says(h, "token_params"),
                    authenticators |->
                      [loaded |-> IF set.raw = <<>> THEN DefaultAuthenticators ELSE set.raw,
                       required |-> set.required, preserve |-> set.preserve]]
  <2>1. PICK m : m = Nearest(h)
    OBVIOUS
  <2>2. /\ provider[h] = Created(Provisioned(m)) /\ DOMAIN m = Fields
        /\ m = [f \in Fields |-> m[f]]
    BY <1>1, <2>1 DEF IInv, Progress, Nearest
  <2>3. \A f \in Fields : m[f] = Says(h, f)
    BY <1>1, <2>1, SaidIsNearest
  <2>4. PICK set : set = Else(Says(h, "authenticators"), EmptySet)
    OBVIOUS
  <2>5. set \in AuthenticatorSets /\ set.loaded = <<>>
    BY <1>1, <2>4, SaidIsNearest, EmptySetType DEF Else, EmptySet
  <2>6. PICK made : made = IF set.raw = <<>> THEN DefaultAuthenticators ELSE set.raw
    OBVIOUS
  <2>7. made \in Seq(Authenticators) /\ <<>> \o made = made
    <3>1. made \in Seq(Authenticators)
      BY <2>5, <2>6, CaddyfileAssumption DEF CaddyfileAssumption, AuthenticatorSets
    <3> QED
      BY <3>1, ConcatEmptySeq
  <2>8. /\ Loaded(set).loaded = made /\ Loaded(set).required = set.required
        /\ Loaded(set).preserve = set.preserve
    BY <2>5, <2>6, <2>7 DEF Loaded, AuthenticatorSets
  <2>9. PICK p : p = Provisioned(m)
    OBVIOUS
  <2>10. /\ DOMAIN p = Fields /\ p = [f \in Fields |-> p[f]]
         /\ p.issuer = m.issuer /\ p.username = Else(m.username, DefaultUsername)
         /\ p.tls_insecure_skip_verify = m.tls_insecure_skip_verify
         /\ p.scope = Else(m.scope, DefaultScope) /\ p.metadata = Else(m.metadata, Enabled)
         /\ p.token_params = m.token_params
         /\ p.authenticators = Loaded(Else(m.authenticators, EmptySet))
    BY <2>2, <2>9 DEF Provisioned, Fields, Values, References
  <2>11. p.authenticators = Loaded(set)
    BY <2>3, <2>4, <2>10, FieldNames
  <2>12. provider[h] = [p EXCEPT !.authenticators =
                          [loaded |-> made, required |-> set.required, preserve |-> set.preserve]]
    BY <2>2, <2>8, <2>9, <2>11 DEF Created
  <2> QED
    BY <2>3, <2>4, <2>6, <2>10, <2>12 DEF Fields, Values, References
<1>2. IInv /\ ReadInv => EffectiveConfiguration
  BY <1>1 DEF EffectiveConfiguration
<1> QED
  BY <1>2, ReadThroughout, PTL

=============================================================================
