-------------------------- MODULE CalculatorProofs --------------------------
(***************************************************************************)
(* Proofs about the battle calculator, for every mod, every game and every *)
(* sequence of moves:                                                      *)
(*                                                                         *)
(*   Typed           what is played stays a game                           *)
(*   DamageNeverHelps, GiversCount, TurnAndHashing                         *)
(*                   what no step changes of the answers about a unit      *)
(*   LatestDecides   who decides the variant                               *)
(*   StrengthIsNear  how far firepower and defense stray from exact sums   *)
(*                                                                         *)
(* The invariant is TypeOK, and the rest of the argument is about one game *)
(* or about two games a step apart.  An answer is a fold over the effects  *)
(* of all players that reach a unit.  What such a list is worth (Worth) is *)
(* the sum of what each player's effects are worth, in whatever order the  *)
(* map is walked (WorthOfWalks, AllWorth); so two games give the same      *)
(* answer when each player gives the same effects that reach, or none that *)
(* does (AlikeAround, SameGiven, SameUnitAnswers).  What is left is what a *)
(* step changes of that.                                                   *)
(*                                                                         *)
(* The functions that are recursive over a sequence (Total, Keep,          *)
(* FlattenSeq, MovementVariant) are unfolded one element at a time.        *)
(* Induction is over sets of numbers (Induction): the set of the lengths   *)
(* for which a fact holds.                                                 *)
(***************************************************************************)
EXTENDS Calculator, WellFoundedInduction, FiniteSetTheorems, SequenceTheorems,
        TLAPS

LessThan == {p \in Nat \X Nat : p[1] < p[2]}

\* There is no infinite descent of natural numbers.
LEMMA LessThanWellFounded == IsWellFoundedOn(LessThan, Nat)
<1>1. LessThan = OpToRel(<, Nat)
  BY DEF LessThan, OpToRel
<1>2. QED
  BY <1>1, NatLessThanWellFounded

\* Natural numbers have a least.
LEMMA Least ==
  ASSUME NEW S \in SUBSET Nat, S # {}
  PROVE  \E x \in S : \A y \in S : x <= y
<1>1. PICK x \in S : \A y \in S : ~(<<y, x>> \in LessThan)
  BY LessThanWellFounded, WFMin
<1>2. ASSUME NEW y \in S PROVE x <= y
  <2>1. <<y, x>> \in Nat \X Nat /\ <<y, x>>[1] = y /\ <<y, x>>[2] = x
    OBVIOUS
  <2>2. ~(y < x)
    BY <2>1, <1>1 DEF LessThan
  <2>3. QED
    BY <2>2
<1>3. QED
  BY <1>2

\* Induction, with a set where the library's theorem has an operator.
LEMMA Induction ==
  ASSUME NEW S, 0 \in S, \A n \in Nat : n \in S => n + 1 \in S
  PROVE  Nat \subseteq S
<1> SUFFICES ASSUME Nat \ S # {} PROVE FALSE
  OBVIOUS
<1>1. PICK x \in Nat \ S : \A y \in Nat \ S : x <= y
  BY Least, Zenon
<1>2. x # 0 /\ x - 1 \in Nat /\ x - 1 \in S
  BY <1>1
<1>3. QED
  BY <1>2, <1>1

\* A function on 0..n that goes on from base as F says, step by step.
Goes(h, n, base, F) == h[0] = base /\ \A i \in 1..n : h[i] = F[i][h[i - 1]]

HasPath(n, V, base, F) == \E h \in [0..n -> V] : Goes(h, n, base, F)

\* Such a function is there for any base and any steps.
LEMMA Recursion ==
  ASSUME NEW n \in Nat, NEW V, NEW base \in V, NEW F \in [1..n -> [V -> V]]
  PROVE  HasPath(n, V, base, F)
<1> DEFINE Good(k, h) == h[0] = base /\ \A i \in 1..k : h[i] = F[i][h[i - 1]]
           S == {k \in Nat : k <= n => \E h \in [0..k -> V] : Good(k, h)}
<1>1. 0 \in S
  <2> DEFINE h == [i \in 0..0 |-> base]
  <2>1. h \in [0..0 -> V] /\ Good(0, h)
    OBVIOUS
  <2>2. QED
    BY <2>1, Zenon
<1>2. ASSUME NEW k \in Nat, k \in S PROVE k + 1 \in S
  <2> SUFFICES ASSUME k + 1 <= n PROVE \E h \in [0..k + 1 -> V] : Good(k + 1, h)
    OBVIOUS
  <2>1. PICK h \in [0..k -> V] : Good(k, h)
    BY <1>2
  <2> DEFINE g == [i \in 0..k + 1 |-> IF i <= k THEN h[i] ELSE F[k + 1][h[k]]]
  <2>2. h[k] \in V /\ F[k + 1] \in [V -> V] /\ F[k + 1][h[k]] \in V
    OBVIOUS
  <2>3. g \in [0..k + 1 -> V]
    BY <2>2
  <2>4. \A i \in 0..k : g[i] = h[i]
    OBVIOUS
  <2>5. g[k + 1] = F[k + 1][g[k]]
    BY <2>4
  <2>6. ASSUME NEW i \in 1..k + 1 PROVE g[i] = F[i][g[i - 1]]
    <3>1. CASE i = k + 1
      BY <3>1, <2>5
    <3>2. CASE i # k + 1
      <4>1. i \in 1..k /\ i \in 0..k /\ i - 1 \in 0..k
        BY <3>2
      <4>2. QED
        BY <4>1, <2>4, <2>1, Zenon
    <3>3. QED
      BY <3>1, <3>2
  <2>7. g[0] = base
    BY <2>1, <2>4
  <2> HIDE DEF g
  <2>8. Good(k + 1, g)
    BY <2>6, <2>7
  <2>9. QED
    BY <2>3, <2>8, Zenon
<1>3. Nat \subseteq S
  <2> HIDE DEF S
  <2>1. QED
    BY <1>1, <1>2, Induction, Zenon
<1>4. n \in S
  BY <1>3, Zenon
<1>5. \E h \in [0..n -> V] : Good(n, h)
  BY <1>4
<1>6. QED
  BY <1>5, Zenon DEF HasPath, Goes

\* Two functions on 0..n that begin and go on alike are alike.
Agree(n, g, h) == \A i \in 0..n : g[i] = h[i]

LEMMA Alike ==
  ASSUME NEW n \in Nat, NEW g, NEW h, g[0] = h[0],
         \A i \in 1..n : g[i - 1] = h[i - 1] => g[i] = h[i]
  PROVE  Agree(n, g, h)
<1> DEFINE S == {k \in Nat : k <= n => g[k] = h[k]}
<1>1. 0 \in S
  OBVIOUS
<1>2. ASSUME NEW k \in Nat, k \in S PROVE k + 1 \in S
  <2> SUFFICES ASSUME k + 1 <= n PROVE g[k + 1] = h[k + 1]
    OBVIOUS
  <2>1. k + 1 \in 1..n /\ (k + 1) - 1 = k /\ g[k] = h[k]
    BY <1>2
  <2>2. QED
    BY <2>1, Zenon
<1>3. Nat \subseteq S
  <2> HIDE DEF S
  <2>1. QED
    BY <1>1, <1>2, Induction, Zenon
<1>4. QED
  BY <1>3 DEF Agree

-----------------------------------------------------------------------------
(* The recursive functions of the model, unfolded.                         *)

\* The sums of the first i numbers.
Totals(v) ==
  CHOOSE h : h = [i \in 0..Len(v) |-> IF i = 0 THEN 0 ELSE h[i - 1] + v[i]]

\* A sum goes on from the sum of the numbers before.
LEMMA TotalUnfold ==
  ASSUME NEW v \in Seq(Int)
  PROVE  /\ Totals(v) \in [0..Len(v) -> Int]
         /\ Totals(v)[0] = 0
         /\ \A i \in 1..Len(v) : Totals(v)[i] = Totals(v)[i - 1] + v[i]
         /\ Total(v) = Totals(v)[Len(v)]
<1> DEFINE n == Len(v)
           c == Totals(v)
           Is(h) == h = [i \in 0..n |-> IF i = 0 THEN 0 ELSE h[i - 1] + v[i]]
           F == [i \in 1..n |-> [x \in Int |-> x + v[i]]]
<1>1. n \in Nat /\ 0 \in Int /\ F \in [1..n -> [Int -> Int]]
  OBVIOUS
<1>2. HasPath(n, Int, 0, F)
  <2> HIDE DEF F, n
  <2>1. QED
    BY <1>1, Recursion
<1>3. PICK h \in [0..n -> Int] : Goes(h, n, 0, F)
  BY <1>2, Zenon DEF HasPath
<1>4. ASSUME NEW i \in 1..n PROVE h[i] = h[i - 1] + v[i]
  <2>1. h[i] = F[i][h[i - 1]]
    BY <1>3, Zenon DEF Goes
  <2>2. h[i - 1] \in Int
    OBVIOUS
  <2>3. QED
    BY <2>1, <2>2
<1>5. h[0] = 0
  BY <1>3, Zenon DEF Goes
<1>6. Is(h)
  BY <1>5, <1>4
<1>7. Is(c)
  BY <1>6, Zenon DEF Totals
<1>8. Total(v) = c[n]
  BY Zenon DEF Total, Totals
<1> HIDE DEF c
<1>9. c[0] = 0
  BY <1>7
<1>10. ASSUME NEW i \in 1..n PROVE c[i] = c[i - 1] + v[i]
  BY <1>7
<1>11. Agree(n, c, h)
  <2>1. \A i \in 1..n : c[i - 1] = h[i - 1] => c[i] = h[i]
    BY <1>10, <1>4, Zenon
  <2> HIDE DEF n
  <2>2. QED
    BY <2>1, <1>9, <1>5, <1>1, Alike
<1>12. c \in [0..n -> Int]
  BY <1>7, <1>11 DEF Agree
<1>13. QED
  BY <1>12, <1>9, <1>10, <1>8, Zenon DEF c

\* What is kept of the first i elements.
Kept(s, S) ==
  CHOOSE h : h = [i \in 0..Len(s) |->
                    IF i = 0 THEN <<>>
                    ELSE IF s[i] \in S THEN Append(h[i - 1], s[i])
                    ELSE h[i - 1]]

\* What is kept of a sequence goes on from what is kept before.
LEMMA KeepUnfold ==
  ASSUME NEW T, NEW s \in Seq(T), NEW S
  PROVE  /\ Kept(s, S) \in [0..Len(s) -> Seq(T)]
         /\ Kept(s, S)[0] = <<>>
         /\ \A i \in 1..Len(s) :
              Kept(s, S)[i] = IF s[i] \in S THEN Append(Kept(s, S)[i - 1], s[i])
                              ELSE Kept(s, S)[i - 1]
         /\ Keep(s, S) = Kept(s, S)[Len(s)]
<1> DEFINE n == Len(s)
           c == Kept(s, S)
           Is(h) == h = [i \in 0..n |->
                           IF i = 0 THEN <<>>
                           ELSE IF s[i] \in S THEN Append(h[i - 1], s[i])
                           ELSE h[i - 1]]
           F == [i \in 1..n |-> [x \in Seq(T) |->
                  IF s[i] \in S THEN Append(x, s[i]) ELSE x]]
<1>1. n \in Nat /\ <<>> \in Seq(T) /\ F \in [1..n -> [Seq(T) -> Seq(T)]]
  OBVIOUS
<1>2. HasPath(n, Seq(T), <<>>, F)
  <2> HIDE DEF F, n
  <2>1. QED
    BY <1>1, Recursion, Zenon
<1>3. PICK h \in [0..n -> Seq(T)] : Goes(h, n, <<>>, F)
  BY <1>2, Zenon DEF HasPath
<1>4. ASSUME NEW i \in 1..n
      PROVE  h[i] = IF s[i] \in S THEN Append(h[i - 1], s[i]) ELSE h[i - 1]
  <2>1. h[i] = F[i][h[i - 1]]
    BY <1>3, Zenon DEF Goes
  <2>2. i - 1 \in 0..n /\ h[i - 1] \in Seq(T)
    OBVIOUS
  <2>3. F[i][h[i - 1]] = IF s[i] \in S THEN Append(h[i - 1], s[i]) ELSE h[i - 1]
    BY <2>2, Zenon
  <2>4. QED
    BY <2>1, <2>3, Zenon
<1>5. h[0] = <<>>
  BY <1>3, Zenon DEF Goes
<1>6. Is(h)
  <2>1. h = [i \in 0..n |-> h[i]]
    BY Zenon
  <2>2. ASSUME NEW i \in 0..n
        PROVE  h[i] = IF i = 0 THEN <<>>
                      ELSE IF s[i] \in S THEN Append(h[i - 1], s[i])
                      ELSE h[i - 1]
    <3>1. CASE i = 0
      BY <3>1, <1>5, Zenon
    <3>2. CASE i # 0
      <4>1. i \in 1..n
        BY <3>2
      <4>2. QED
        BY <4>1, <3>2, <1>4, Zenon
    <3>3. QED
      BY <3>1, <3>2
  <2>3. QED
    BY <2>1, <2>2, Zenon
<1>7. Is(c)
  BY <1>6, Zenon DEF Kept
<1>8. Keep(s, S) = c[n]
  BY Zenon DEF Keep, Kept
<1> HIDE DEF c
<1>9. c[0] = <<>>
  <2>1. 0 \in 0..n
    OBVIOUS
  <2>2. QED
    BY <2>1, <1>7, Zenon
<1>10. ASSUME NEW i \in 1..n
       PROVE  c[i] = IF s[i] \in S THEN Append(c[i - 1], s[i]) ELSE c[i - 1]
  <2>1. i \in 0..n /\ i # 0
    OBVIOUS
  <2>2. QED
    BY <2>1, <1>7, Zenon
<1>11. Agree(n, c, h)
  <2>1. \A i \in 1..n : c[i - 1] = h[i - 1] => c[i] = h[i]
    BY <1>10, <1>4, Zenon
  <2>2. c[0] = h[0]
    BY <1>9, <1>5
  <2> HIDE DEF n
  <2>3. QED
    BY <2>1, <2>2, <1>1, Alike
<1>12. c \in [0..n -> Seq(T)]
  <2>1. c = [i \in 0..n |-> c[i]]
    BY <1>7, Zenon
  <2>2. \A i \in 0..n : c[i] \in Seq(T)
    BY <1>11, Zenon DEF Agree
  <2>3. QED
    BY <2>1, <2>2, Zenon
<1>13. QED
  BY <1>12, <1>9, <1>10, <1>8, Zenon DEF c

\* The first i sequences, one after the other.
Pieces(ss) ==
  CHOOSE h : h = [i \in 1..Len(ss) |->
                    IF i = 1 THEN ss[i] ELSE h[i - 1] \o ss[i]]

Joined(ss) == [i \in 0..Len(ss) |-> IF i = 0 THEN <<>> ELSE Pieces(ss)[i]]

\* Sequences are joined one after the other.
LEMMA FlattenUnfold ==
  ASSUME NEW T, NEW ss \in Seq(Seq(T))
  PROVE  /\ Joined(ss) \in [0..Len(ss) -> Seq(T)]
         /\ Joined(ss)[0] = <<>>
         /\ \A i \in 1..Len(ss) : Joined(ss)[i] = Joined(ss)[i - 1] \o ss[i]
         /\ FlattenSeq(ss) = Joined(ss)[Len(ss)]
<1> DEFINE n == Len(ss)
           c == Pieces(ss)
           d == Joined(ss)
           Is(h) == h = [i \in 1..n |-> IF i = 1 THEN ss[i] ELSE h[i - 1] \o ss[i]]
           F == [i \in 1..n |-> [x \in Seq(T) |-> x \o ss[i]]]
<1>1. n \in Nat /\ <<>> \in Seq(T) /\ F \in [1..n -> [Seq(T) -> Seq(T)]]
  OBVIOUS
<1>2. HasPath(n, Seq(T), <<>>, F)
  <2> HIDE DEF F, n
  <2>1. QED
    BY <1>1, Recursion, Zenon
<1>3. PICK h \in [0..n -> Seq(T)] : Goes(h, n, <<>>, F)
  BY <1>2, Zenon DEF HasPath
<1>4. ASSUME NEW i \in 1..n PROVE h[i] = h[i - 1] \o ss[i]
  <2>1. h[i] = F[i][h[i - 1]]
    BY <1>3, Zenon DEF Goes
  <2>2. i - 1 \in 0..n
    OBVIOUS
  <2>3. h[i - 1] \in Seq(T)
    BY <2>2, Zenon
  <2>4. QED
    BY <2>1, <2>3, Zenon
<1>5. h[0] = <<>>
  BY <1>3, Zenon DEF Goes
<1>6. ASSUME NEW i \in 1..n, i = 1 PROVE h[i] = ss[i]
  <2>1. i - 1 = 0 /\ ss[i] \in Seq(T)
    BY <1>6
  <2>2. h[i] = <<>> \o ss[i]
    BY <1>4, <1>5, <2>1
  <2>3. QED
    BY <2>1, <2>2
<1>7. \E b : Is(b)
  <2> DEFINE b == [i \in 1..n |-> h[i]]
  <2>1. ASSUME NEW i \in 1..n
        PROVE  b[i] = IF i = 1 THEN ss[i] ELSE b[i - 1] \o ss[i]
    <3>1. CASE i = 1
      BY <3>1, <1>6, Zenon
    <3>2. CASE i # 1
      <4>1. i - 1 \in 1..n
        BY <3>2
      <4>2. QED
        BY <4>1, <3>2, <1>4, Zenon
    <3>3. QED
      BY <3>1, <3>2
  <2>2. b = [i \in 1..n |-> b[i]]
    BY Zenon
  <2> HIDE DEF b
  <2>3. Is(b)
    BY <2>1, <2>2, Zenon
  <2>4. QED
    BY <2>3, Zenon
<1>8. Is(c)
  BY <1>7, Zenon DEF Pieces
<1>9. FlattenSeq(ss) = IF n = 0 THEN ss ELSE c[n]
  BY Zenon DEF FlattenSeq, Pieces
<1> HIDE DEF c
<1>10. d = [i \in 0..n |-> IF i = 0 THEN <<>> ELSE c[i]]
  BY Zenon DEF Joined, c
<1> HIDE DEF d
<1>11. ASSUME NEW i \in 1..n PROVE d[i] = d[i - 1] \o ss[i]
  <2>1. i \in 0..n /\ i # 0 /\ d[i] = c[i] /\ ss[i] \in Seq(T)
    BY <1>10
  <2>2. CASE i = 1
    <3>1. c[i] = ss[i]
      BY <1>8, <2>2, Zenon
    <3>2. i - 1 \in 0..n /\ i - 1 = 0
      BY <2>2
    <3>3. d[i - 1] = <<>>
      BY <3>2, <1>10, Zenon
    <3>4. <<>> \o ss[i] = ss[i]
      BY <2>1
    <3>5. QED
      BY <3>1, <3>3, <3>4, <2>1, Zenon
  <2>3. CASE i # 1
    <3>1. i - 1 \in 0..n /\ i - 1 # 0
      BY <2>3
    <3>2. d[i - 1] = c[i - 1]
      BY <3>1, <1>10, Zenon
    <3>3. c[i] = c[i - 1] \o ss[i]
      BY <1>8, <2>3, Zenon
    <3>4. QED
      BY <3>2, <3>3, <2>1, Zenon
  <2>4. QED
    BY <2>2, <2>3
<1>12. d[0] = <<>>
  <2>1. 0 \in 0..n
    OBVIOUS
  <2>2. QED
    BY <2>1, <1>10, Zenon
<1>13. Agree(n, d, h)
  <2>1. \A i \in 1..n : d[i - 1] = h[i - 1] => d[i] = h[i]
    BY <1>11, <1>4, Zenon
  <2>2. d[0] = h[0]
    BY <1>12, <1>5
  <2> HIDE DEF n
  <2>3. QED
    BY <2>1, <2>2, <1>1, Alike
<1>14. d \in [0..n -> Seq(T)]
  <2>1. d = [i \in 0..n |-> d[i]]
    BY <1>10, Zenon
  <2>2. \A i \in 0..n : d[i] \in Seq(T)
    BY <1>13, Zenon DEF Agree
  <2>3. QED
    BY <2>1, <2>2, Zenon
<1>15. FlattenSeq(ss) = d[n]
  <2>1. CASE n = 0
    <3>1. ss = <<>>
      BY <2>1
    <3>2. QED
      BY <3>1, <2>1, <1>9, <1>12
  <2>2. CASE n # 0
    <3>1. n \in 0..n
      BY <1>1
    <3>2. d[n] = c[n]
      BY <3>1, <2>2, <1>10, Zenon
    <3>3. QED
      BY <3>2, <2>2, <1>9, Zenon
  <2>3. QED
    BY <2>1, <2>2
<1>16. QED
  BY <1>14, <1>12, <1>11, <1>15, Zenon DEF d

\* The variant after the last i rules.
Afters(given, variant) ==
  CHOOSE h : h = [i \in 0..Len(given) |->
                    IF i = 0 THEN variant
                    ELSE IF h[i - 1] = given[Len(given) + 1 - i].effect.movementClassVariantReplace
                    THEN given[Len(given) + 1 - i].effect.movementClassVariantOverride
                    ELSE h[i - 1]]

\* Rules are applied one after the other.
LEMMA VariantUnfold ==
  ASSUME NEW T, NEW given \in Seq(T), NEW variant
  PROVE  /\ Afters(given, variant)[0] = variant
         /\ \A i \in 1..Len(given) :
              LET one == given[Len(given) + 1 - i].effect
                  before == Afters(given, variant)[i - 1]
              IN  Afters(given, variant)[i] =
                    IF before = one.movementClassVariantReplace
                    THEN one.movementClassVariantOverride
                    ELSE before
         /\ MovementVariant(given, variant) = Afters(given, variant)[Len(given)]
<1> DEFINE n == Len(given)
           one(i) == given[n + 1 - i].effect
           c == Afters(given, variant)
           Step(h, i) == IF h[i - 1] = one(i).movementClassVariantReplace
                         THEN one(i).movementClassVariantOverride
                         ELSE h[i - 1]
           Is(h) == h = [i \in 0..n |-> IF i = 0 THEN variant ELSE Step(h, i)]
           V == {variant} \cup {one(i).movementClassVariantOverride : i \in 1..n}
           F == [i \in 1..n |-> [x \in V |->
                   IF x = one(i).movementClassVariantReplace
                   THEN one(i).movementClassVariantOverride ELSE x]]
<1>1. n \in Nat /\ variant \in V /\ F \in [1..n -> [V -> V]]
  <2>1. n \in Nat /\ variant \in V
    OBVIOUS
  <2>2. \A i \in 1..n, x \in V :
          (IF x = one(i).movementClassVariantReplace
           THEN one(i).movementClassVariantOverride ELSE x) \in V
    BY Zenon
  <2> HIDE DEF V, one, n
  <2>3. F \in [1..n -> [V -> V]]
    BY <2>2, Zenon
  <2>4. QED
    BY <2>1, <2>3, Zenon
<1>2. HasPath(n, V, variant, F)
  <2> HIDE DEF F, n, V
  <2>1. QED
    BY <1>1, Recursion, Zenon
<1>3. PICK h \in [0..n -> V] : Goes(h, n, variant, F)
  BY <1>2, Zenon DEF HasPath
<1> HIDE DEF one, V
<1>4. ASSUME NEW i \in 1..n PROVE h[i] = Step(h, i)
  <2>1. h[i] = F[i][h[i - 1]]
    BY <1>3, Zenon DEF Goes
  <2>2. i - 1 \in 0..n /\ h[i - 1] \in V
    OBVIOUS
  <2>3. QED
    BY <2>1, <2>2, Zenon
<1> HIDE DEF Step
<1>5. h[0] = variant
  BY <1>3, Zenon DEF Goes
<1>6. Is(h)
  <2>1. h = [i \in 0..n |-> h[i]]
    BY Zenon
  <2>2. ASSUME NEW i \in 0..n
        PROVE  h[i] = IF i = 0 THEN variant ELSE Step(h, i)
    <3>1. CASE i = 0
      BY <3>1, <1>5, Zenon
    <3>2. CASE i # 0
      <4>1. i \in 1..n
        BY <3>2
      <4>2. QED
        BY <4>1, <3>2, <1>4, Zenon
    <3>3. QED
      BY <3>1, <3>2
  <2>3. QED
    BY <2>1, <2>2, Zenon
<1>7. Is(c)
  BY <1>6, Zenon DEF Afters, Step, one
<1>8. MovementVariant(given, variant) = c[n]
  BY Zenon DEF MovementVariant, Afters
<1> HIDE DEF c
<1>9. c[0] = variant
  <2>1. 0 \in 0..n
    OBVIOUS
  <2>2. QED
    BY <2>1, <1>7, Zenon
<1>10. ASSUME NEW i \in 1..n PROVE c[i] = Step(c, i)
  <2>1. i \in 0..n /\ i # 0
    OBVIOUS
  <2>2. QED
    BY <2>1, <1>7, Zenon
<1>11. QED
  BY <1>9, <1>10, <1>8, Zenon DEF c, Step, one

-----------------------------------------------------------------------------
(* Sums.                                                                   *)

\* The sum of two sequences is the sum of their sums.
LEMMA TotalConcat ==
  ASSUME NEW a \in Seq(Int), NEW b \in Seq(Int)
  PROVE  Total(a \o b) = Total(a) + Total(b)
<1> DEFINE m == Len(a)
           n == Len(b)
           ab == a \o b
           A == Totals(a)
           B == Totals(b)
           C == Totals(ab)
<1>1. /\ m \in Nat /\ n \in Nat
      /\ ab \in Seq(Int) /\ Len(ab) = m + n
      /\ \A i \in 1..m : ab[i] = a[i]
      /\ \A i \in 1..n : ab[m + i] = b[i]
  OBVIOUS
<1>2. /\ A \in [0..m -> Int] /\ A[0] = 0 /\ Total(a) = A[m]
      /\ \A i \in 1..m : A[i] = A[i - 1] + a[i]
  BY TotalUnfold, Zenon
<1>3. /\ B \in [0..n -> Int] /\ B[0] = 0 /\ Total(b) = B[n]
      /\ \A i \in 1..n : B[i] = B[i - 1] + b[i]
  BY TotalUnfold, Zenon
<1>4. /\ C \in [0..m + n -> Int] /\ C[0] = 0 /\ Total(ab) = C[m + n]
      /\ \A i \in 1..m + n : C[i] = C[i - 1] + ab[i]
  <2> HIDE DEF ab, C
  <2>1. /\ Totals(ab) \in [0..Len(ab) -> Int] /\ Totals(ab)[0] = 0
        /\ Total(ab) = Totals(ab)[Len(ab)]
        /\ \A i \in 1..Len(ab) : Totals(ab)[i] = Totals(ab)[i - 1] + ab[i]
    BY <1>1, TotalUnfold, Zenon
  <2>2. Len(ab) = m + n
    BY <1>1
  <2>3. QED
    BY <2>1, <2>2, Zenon DEF C
<1> HIDE DEF m, n, ab, A, B, C
<1>5. C[m] = A[m]
  <2>1. \A i \in 1..m : C[i - 1] = A[i - 1] => C[i] = A[i]
    BY <1>1, <1>2, <1>4
  <2>2. Agree(m, C, A)
    BY <2>1, <1>1, <1>2, <1>4, Alike
  <2>3. QED
    BY <2>2, <1>1 DEF Agree
<1>6. C[m + n] = A[m] + B[n]
  <2> DEFINE g == [i \in 0..n |-> C[m + i]]
             h == [i \in 0..n |-> A[m] + B[i]]
  <2>1. g[0] = h[0]
    BY <1>1, <1>2, <1>3, <1>5
  <2>2. ASSUME NEW i \in 1..n, g[i - 1] = h[i - 1] PROVE g[i] = h[i]
    <3>0. m \in Nat /\ n \in Nat /\ i \in Nat
      BY <1>1
    <3>1. /\ m + i \in 1..m + n /\ (m + i) - 1 = m + (i - 1)
          /\ i \in 0..n /\ i - 1 \in 0..n
      BY <3>0
    <3>2. C[m + i] = C[m + (i - 1)] + b[i]
      BY <3>1, <1>4, <1>1
    <3>3. C[m + (i - 1)] = A[m] + B[i - 1]
      BY <2>2, <3>1
    <3>4. B[i] = B[i - 1] + b[i]
      BY <1>3
    <3>5. A[m] \in Int /\ B[i - 1] \in Int /\ b[i] \in Int
      <4>1. A[m] \in Int
        BY <1>2, <3>0
      <4>2. B[i - 1] \in Int
        BY <1>3, <3>1
      <4>3. b[i] \in Int
        BY DEF n
      <4>4. QED
        BY <4>1, <4>2, <4>3
    <3>6. C[m + i] = A[m] + B[i]
      BY <3>2, <3>3, <3>4, <3>5
    <3>7. QED
      BY <3>1, <3>6
  <2>3. Agree(n, g, h)
    <3> HIDE DEF g, h
    <3>1. QED
      BY <2>1, <2>2, <1>1, Alike
  <2>4. QED
    BY <2>3, <1>1 DEF Agree
<1>7. QED
  BY <1>2, <1>3, <1>4, <1>6 DEF ab

\* Integers add up to one.
LEMMA TotalType ==
  ASSUME NEW v \in Seq(Int)
  PROVE  Total(v) \in Int
<1>1. Totals(v) \in [0..Len(v) -> Int]
  BY TotalUnfold, Zenon
<1>2. Totals(v)[Len(v)] \in Int
  BY <1>1
<1>3. QED
  BY <1>2, TotalUnfold, Zenon

\* Nothing adds up to 0.
LEMMA TotalEmpty == Total(<<>>) = 0
<1>1. <<>> \in Seq(Int) /\ Len(<<>>) = 0
  OBVIOUS
<1>2. QED
  BY <1>1, TotalUnfold

\* One number is its own sum.
LEMMA TotalOne ==
  ASSUME NEW x \in Int
  PROVE  Total(<<x>>) = x
<1> DEFINE v == <<x>>
<1>1. v \in Seq(Int) /\ Len(v) = 1 /\ v[1] = x
  OBVIOUS
<1> HIDE DEF v
<1>2. /\ Totals(v)[0] = 0 /\ Total(v) = Totals(v)[Len(v)]
      /\ \A i \in 1..Len(v) : Totals(v)[i] = Totals(v)[i - 1] + v[i]
  BY <1>1, TotalUnfold, Zenon
<1>3. Totals(v)[1] = Totals(v)[0] + v[1]
  BY <1>1, <1>2
<1>4. QED
  BY <1>1, <1>2, <1>3 DEF v

\* What a sequence is worth whose elements have values.
Worth(s, V) == Total([i \in DOMAIN s |-> V[s[i]]])

\* The values of the elements are integers.
LEMMA ValuesType ==
  ASSUME NEW T, NEW s \in Seq(T), NEW V \in [T -> Int]
  PROVE  /\ [i \in DOMAIN s |-> V[s[i]]] \in Seq(Int)
         /\ Len([i \in DOMAIN s |-> V[s[i]]]) = Len(s)
<1> DEFINE n == Len(s)
           v == [i \in DOMAIN s |-> V[s[i]]]
<1>1. n \in Nat /\ DOMAIN s = 1..n /\ \A i \in 1..n : s[i] \in T
  OBVIOUS
<1>2. \A i \in 1..n : V[s[i]] \in Int
  BY <1>1
<1> HIDE DEF n
<1>3. v \in [1..n -> Int]
  BY <1>1, <1>2
<1>4. v \in Seq(Int) /\ Len(v) = n
  BY <1>3, <1>1
<1>5. QED
  BY <1>4 DEF n

\* A sequence is worth an integer.
LEMMA WorthType ==
  ASSUME NEW T, NEW s \in Seq(T), NEW V \in [T -> Int]
  PROVE  Worth(s, V) \in Int
BY ValuesType, TotalType, Zenon DEF Worth

\* Nothing is worth nothing.
LEMMA WorthEmpty == \A V : Worth(<<>>, V) = 0
<1> TAKE V
<1>1. [i \in DOMAIN <<>> |-> V[<<>>[i]]] = <<>>
  OBVIOUS
<1>2. QED
  BY <1>1, TotalEmpty DEF Worth

\* One element is worth its value.
LEMMA WorthOne ==
  ASSUME NEW T, NEW x \in T, NEW V \in [T -> Int]
  PROVE  Worth(<<x>>, V) = V[x]
<1>1. [i \in DOMAIN <<x>> |-> V[<<x>>[i]]] = <<V[x]>>
  OBVIOUS
<1>2. V[x] \in Int
  OBVIOUS
<1>3. QED
  BY <1>1, <1>2, TotalOne DEF Worth

\* Two sequences together are worth what both are.
LEMMA WorthConcat ==
  ASSUME NEW T, NEW a \in Seq(T), NEW b \in Seq(T), NEW V \in [T -> Int]
  PROVE  Worth(a \o b, V) = Worth(a, V) + Worth(b, V)
<1> DEFINE va == [i \in DOMAIN a |-> V[a[i]]]
           vb == [i \in DOMAIN b |-> V[b[i]]]
           ab == a \o b
           v == [i \in DOMAIN ab |-> V[ab[i]]]
<1>1. /\ va \in Seq(Int) /\ Len(va) = Len(a)
      /\ vb \in Seq(Int) /\ Len(vb) = Len(b)
  BY ValuesType, Zenon
<1>2. ab \in Seq(T) /\ Len(ab) = Len(a) + Len(b)
  OBVIOUS
<1>3. v \in Seq(Int) /\ Len(v) = Len(ab)
  <2> HIDE DEF ab
  <2>1. QED
    BY <1>2, ValuesType, Zenon
<1>4. \A i \in 1..Len(a) + Len(b) :
        ab[i] = IF i <= Len(a) THEN a[i] ELSE b[i - Len(a)]
  BY ConcatProperties
<1>5. \A i \in 1..Len(va) + Len(vb) :
        (va \o vb)[i] = IF i <= Len(va) THEN va[i] ELSE vb[i - Len(va)]
  <2> HIDE DEF va, vb
  <2>1. QED
    BY <1>1, ConcatProperties
<1>6. v = va \o vb
  <2>1. va \o vb \in Seq(Int) /\ Len(va \o vb) = Len(a) + Len(b)
    <3> HIDE DEF va, vb
    <3>1. va \o vb \in Seq(Int) /\ Len(va \o vb) = Len(va) + Len(vb)
      BY <1>1, ConcatProperties, Zenon
    <3>2. QED
      BY <3>1, <1>1, Zenon
  <2>2. ASSUME NEW i \in 1..Len(v) PROVE v[i] = (va \o vb)[i]
    <3>1. Len(a) \in Nat /\ Len(b) \in Nat /\ i \in 1..Len(a) + Len(b)
      BY <1>2, <1>3
    <3>2. i \in DOMAIN ab /\ v[i] = V[ab[i]]
      BY <1>2, <3>1
    <3>3. CASE i <= Len(a)
      <4>1. i \in DOMAIN a
        BY <3>1, <3>3
      <4>2. va[i] = V[a[i]]
        BY <4>1, Zenon
      <4>3. ab[i] = a[i] /\ (va \o vb)[i] = va[i]
        BY <3>1, <3>3, <1>1, <1>4, <1>5
      <4>4. QED
        BY <3>2, <4>2, <4>3, Zenon
    <3>4. CASE ~(i <= Len(a))
      <4>1. i - Len(a) \in DOMAIN b
        BY <3>1, <3>4
      <4>2. vb[i - Len(a)] = V[b[i - Len(a)]]
        BY <4>1, Zenon
      <4>3. ab[i] = b[i - Len(a)] /\ (va \o vb)[i] = vb[i - Len(a)]
        BY <3>1, <3>4, <1>1, <1>4, <1>5
      <4>4. QED
        BY <3>2, <4>2, <4>3, Zenon
    <3>5. QED
      BY <3>3, <3>4
  <2>3. Len(v) = Len(va \o vb)
    BY <1>2, <1>3, <2>1
  <2> HIDE DEF v, va, vb, ab
  <2>4. QED
    BY <1>3, <2>1, <2>2, <2>3, SeqEqual
<1>7. Total(va \o vb) = Total(va) + Total(vb)
  BY <1>1, TotalConcat, Zenon
<1>8. QED
  BY <1>6, <1>7, Zenon DEF Worth

\* An element more is worth its value more.
LEMMA WorthAppend ==
  ASSUME NEW T, NEW s \in Seq(T), NEW x \in T, NEW V \in [T -> Int]
  PROVE  Worth(Append(s, x), V) = Worth(s, V) + V[x]
<1>1. Append(s, x) = s \o <<x>> /\ <<x>> \in Seq(T)
  OBVIOUS
<1>2. Worth(s \o <<x>>, V) = Worth(s, V) + Worth(<<x>>, V)
  BY <1>1, WorthConcat, Zenon
<1>3. Worth(<<x>>, V) = V[x]
  BY WorthOne, Zenon
<1>4. QED
  BY <1>1, <1>2, <1>3, Zenon

\* The same values where the elements of S alone count.
Within(T, S, V) == [x \in T |-> IF x \in S THEN V[x] ELSE 0]

\* What is kept is worth what it was worth before.
LEMMA WorthKeep ==
  ASSUME NEW T, NEW s \in Seq(T), NEW S, NEW V \in [T -> Int]
  PROVE  Worth(Keep(s, S), V) = Worth(s, Within(T, S, V))
<1> DEFINE n == Len(s)
           W == Within(T, S, V)
           v == [i \in DOMAIN s |-> W[s[i]]]
           K == Kept(s, S)
           g == [i \in 0..n |-> Worth(K[i], V)]
<1>1. n \in Nat /\ DOMAIN s = 1..n /\ \A i \in 1..n : s[i] \in T
  OBVIOUS
<1>2. W \in [T -> Int] /\ \A x \in T : W[x] = IF x \in S THEN V[x] ELSE 0
  BY DEF Within
<1>3. v \in Seq(Int) /\ Len(v) = n
  <2> HIDE DEF W
  <2>1. QED
    BY <1>2, ValuesType, Zenon
<1>4. /\ K \in [0..n -> Seq(T)] /\ K[0] = <<>> /\ Keep(s, S) = K[n]
      /\ \A i \in 1..n : K[i] = IF s[i] \in S THEN Append(K[i - 1], s[i])
                                ELSE K[i - 1]
  BY KeepUnfold
<1>5. \A i \in 1..n : v[i] = IF s[i] \in S THEN V[s[i]] ELSE 0
  BY <1>1, <1>2, Zenon
<1> HIDE DEF v, K
<1>6. /\ Totals(v) \in [0..n -> Int] /\ Totals(v)[0] = 0
      /\ Total(v) = Totals(v)[n]
      /\ \A i \in 1..n : Totals(v)[i] = Totals(v)[i - 1] + v[i]
  BY <1>3, TotalUnfold
<1> HIDE DEF n
<1>7. g[0] = Totals(v)[0]
  <2>1. 0 \in 0..n
    BY <1>1
  <2>2. g[0] = Worth(<<>>, V)
    BY <2>1, <1>4, Zenon
  <2>3. QED
    BY <2>2, <1>6, WorthEmpty
<1>8. ASSUME NEW i \in 1..n, g[i - 1] = Totals(v)[i - 1]
      PROVE  g[i] = Totals(v)[i]
  <2>1. i \in 0..n /\ i - 1 \in 0..n /\ s[i] \in T
    BY <1>1
  <2>2. K[i - 1] \in Seq(T) /\ Worth(K[i - 1], V) = Totals(v)[i - 1]
    BY <2>1, <1>4, <1>8, Zenon
  <2>3. Totals(v)[i] = Totals(v)[i - 1] + v[i] /\ Totals(v)[i - 1] \in Int
    BY <2>1, <1>6
  <2>4. CASE s[i] \in S
    <3>1. K[i] = Append(K[i - 1], s[i]) /\ v[i] = V[s[i]]
      BY <2>4, <1>4, <1>5, Zenon
    <3>2. Worth(K[i], V) = Worth(K[i - 1], V) + V[s[i]]
      BY <3>1, <2>1, <2>2, WorthAppend
    <3>3. QED
      BY <3>1, <3>2, <2>1, <2>2, <2>3, Zenon
  <2>5. CASE s[i] \notin S
    <3>1. K[i] = K[i - 1] /\ v[i] = 0
      BY <2>5, <1>4, <1>5, Zenon
    <3>2. Totals(v)[i] = Totals(v)[i - 1]
      BY <2>3, <3>1
    <3>3. QED
      BY <3>1, <3>2, <2>1, <2>2, Zenon
  <2>6. QED
    BY <2>4, <2>5
<1>9. Agree(n, g, Totals(v))
  <2> HIDE DEF g
  <2>1. QED
    BY <1>1, <1>7, <1>8, Alike
<1>10. n \in 0..n
  BY <1>1
<1>11. g[n] = Total(v)
  BY <1>9, <1>10, <1>6, Zenon DEF Agree
<1>12. QED
  BY <1>11, <1>10, <1>4, Zenon DEF Worth, v, n

\* Sequences one after the other are worth what each of them is.
LEMMA WorthFlatten ==
  ASSUME NEW T, NEW ss \in Seq(Seq(T)), NEW V \in [T -> Int]
  PROVE  Worth(FlattenSeq(ss), V) = Worth(ss, [s \in Seq(T) |-> Worth(s, V)])
<1> DEFINE n == Len(ss)
           W == [s \in Seq(T) |-> Worth(s, V)]
           v == [i \in DOMAIN ss |-> W[ss[i]]]
           J == Joined(ss)
           g == [i \in 0..n |-> Worth(J[i], V)]
<1>1. n \in Nat /\ DOMAIN ss = 1..n /\ \A i \in 1..n : ss[i] \in Seq(T)
  OBVIOUS
<1>2. W \in [Seq(T) -> Int]
  BY WorthType, Zenon
<1>3. v \in Seq(Int) /\ Len(v) = n
  <2> DEFINE Q == Seq(T)
  <2> HIDE DEF W, Q
  <2>1. ss \in Seq(Q) /\ W \in [Q -> Int]
    BY <1>2 DEF Q
  <2>2. QED
    BY <2>1, ValuesType, Zenon
<1>4. /\ J \in [0..n -> Seq(T)] /\ J[0] = <<>> /\ FlattenSeq(ss) = J[n]
      /\ \A i \in 1..n : J[i] = J[i - 1] \o ss[i]
  BY FlattenUnfold, Zenon
<1>5. \A i \in 1..n : v[i] = Worth(ss[i], V)
  BY <1>1, Zenon
<1> HIDE DEF v, J
<1>6. /\ Totals(v) \in [0..n -> Int] /\ Totals(v)[0] = 0
      /\ Total(v) = Totals(v)[n]
      /\ \A i \in 1..n : Totals(v)[i] = Totals(v)[i - 1] + v[i]
  BY <1>3, TotalUnfold
<1> HIDE DEF n
<1>7. g[0] = Totals(v)[0]
  <2>1. 0 \in 0..n
    BY <1>1
  <2>2. g[0] = Worth(<<>>, V)
    BY <2>1, <1>4, Zenon
  <2>3. QED
    BY <2>2, <1>6, WorthEmpty
<1>8. ASSUME NEW i \in 1..n, g[i - 1] = Totals(v)[i - 1]
      PROVE  g[i] = Totals(v)[i]
  <2>1. i \in 0..n /\ i - 1 \in 0..n
    BY <1>1
  <2>2. /\ J[i - 1] \in Seq(T) /\ ss[i] \in Seq(T)
        /\ Worth(J[i - 1], V) = Totals(v)[i - 1]
    BY <2>1, <1>1, <1>4, <1>8, Zenon
  <2>3. Worth(J[i - 1] \o ss[i], V) = Worth(J[i - 1], V) + Worth(ss[i], V)
    BY <2>2, WorthConcat, Zenon
  <2>4. QED
    BY <2>1, <2>2, <2>3, <1>4, <1>5, <1>6, Zenon
<1>9. Agree(n, g, Totals(v))
  <2> HIDE DEF g
  <2>1. QED
    BY <1>1, <1>7, <1>8, Alike
<1>10. n \in 0..n
  BY <1>1
<1>11. g[n] = Total(v)
  BY <1>9, <1>10, <1>6, Zenon DEF Agree
<1>12. QED
  BY <1>11, <1>10, <1>4, Zenon DEF Worth, v, n

\* A sequence of numbers without the k-th of them.
Without(v, k) == [i \in 1..Len(v) - 1 |-> v[IF i < k THEN i ELSE i + 1]]

\* It is a sequence of one number less.
LEMMA WithoutType ==
  ASSUME NEW T, NEW v \in Seq(T), NEW k \in 1..Len(v)
  PROVE  /\ Without(v, k) \in Seq(T) /\ Len(Without(v, k)) = Len(v) - 1
         /\ \A i \in 1..Len(v) - 1 :
              Without(v, k)[i] = IF i < k THEN v[i] ELSE v[i + 1]
<1> DEFINE n == Len(v) - 1
<1>1. n \in Nat /\ Len(v) = n + 1
  OBVIOUS
<1>2. \A i \in 1..n : (IF i < k THEN i ELSE i + 1) \in 1..Len(v)
  OBVIOUS
<1>3. \A i \in 1..n : v[IF i < k THEN i ELSE i + 1] \in T
  BY <1>2, ElementOfSeq
<1> HIDE DEF n
<1>4. Without(v, k) = [i \in 1..n |-> v[IF i < k THEN i ELSE i + 1]]
  BY Zenon DEF Without, n
<1>5. Without(v, k) \in [1..n -> T]
  BY <1>3, <1>4, Zenon
<1>6. Without(v, k) \in Seq(T) /\ Len(Without(v, k)) = n
  BY <1>1, <1>5
<1>7. \A i \in 1..n : Without(v, k)[i] = IF i < k THEN v[i] ELSE v[i + 1]
  BY <1>4, Zenon
<1>8. QED
  BY <1>6, <1>7, Zenon DEF n

\* And its sum is less by the k-th number.
LEMMA TotalWithout ==
  ASSUME NEW v \in Seq(Int), NEW k \in 1..Len(v)
  PROVE  Total(v) = Total(Without(v, k)) + v[k]
<1> DEFINE n == Len(v) - 1
           v2 == Without(v, k)
           H == Totals(v)
           H2 == Totals(v2)
           g == [i \in 0..n |-> IF i < k THEN H[i] ELSE H[i + 1] - v[k]]
<1>1. n \in Nat /\ Len(v) = n + 1 /\ k \in 1..n + 1
  OBVIOUS
<1>2. /\ v2 \in Seq(Int) /\ Len(v2) = n
      /\ \A i \in 1..n : v2[i] = IF i < k THEN v[i] ELSE v[i + 1]
  BY WithoutType, Zenon
<1>3. /\ H \in [0..n + 1 -> Int] /\ H[0] = 0 /\ Total(v) = H[n + 1]
      /\ \A i \in 1..n + 1 : H[i] = H[i - 1] + v[i]
  <2> HIDE DEF n
  <2>1. QED
    BY <1>1, TotalUnfold
<1>4. /\ H2 \in [0..n -> Int] /\ H2[0] = 0 /\ Total(v2) = H2[n]
      /\ \A i \in 1..n : H2[i] = H2[i - 1] + v2[i]
  <2> HIDE DEF n, v2
  <2>1. QED
    BY <1>2, TotalUnfold
<1>5. \A i \in 1..n + 1 : v[i] \in Int
  OBVIOUS
<1> HIDE DEF n, v2, H, H2
<1>6. g[0] = H2[0]
  BY <1>1, <1>3, <1>4
<1>7. ASSUME NEW i \in 1..n, g[i - 1] = H2[i - 1] PROVE g[i] = H2[i]
  <2>1. /\ i \in 0..n /\ i - 1 \in 0..n /\ i \in 1..n + 1 /\ i + 1 \in 1..n + 1
        /\ (i + 1) - 1 = i /\ (i - 1) + 1 = i /\ k \in Int /\ i \in Int
    BY <1>1
  <2>2. /\ g[i] = IF i < k THEN H[i] ELSE H[i + 1] - v[k]
        /\ g[i - 1] = IF i - 1 < k THEN H[i - 1] ELSE H[i] - v[k]
    BY <2>1, Zenon
  <2>3. H[i] = H[i - 1] + v[i] /\ H[i + 1] = H[i] + v[i + 1]
    BY <2>1, <1>3, Zenon
  <2>4. H2[i] = H2[i - 1] + v2[i] /\ v2[i] = IF i < k THEN v[i] ELSE v[i + 1]
    BY <1>2, <1>4, Zenon
  <2>5. /\ v[i] \in Int /\ v[i + 1] \in Int /\ v[k] \in Int
        /\ H[i - 1] \in Int /\ H[i] \in Int /\ H[i + 1] \in Int
        /\ H2[i - 1] \in Int
    <3>1. v[i] \in Int /\ v[i + 1] \in Int /\ v[k] \in Int
      BY <2>1, <1>1, <1>5, Zenon
    <3>2. i - 1 \in 0..n + 1 /\ i \in 0..n + 1 /\ i + 1 \in 0..n + 1
      BY <1>1, <2>1
    <3>3. QED
      BY <3>1, <3>2, <2>1, <1>3, <1>4, Zenon
  <2> HIDE DEF g
  <2>6. CASE i < k
    BY <2>6, <2>1, <2>2, <2>3, <2>4, <2>5, <1>7
  <2>7. CASE i = k
    <3>1. g[i] = H[i + 1] - v[i] /\ g[i - 1] = H[i - 1] /\ v2[i] = v[i + 1]
      BY <2>7, <2>1, <2>2, <2>4
    <3>2. H[i + 1] = (H[i - 1] + v[i]) + v[i + 1]
      BY <2>3, Zenon
    <3>3. ((H[i - 1] + v[i]) + v[i + 1]) - v[i] = H[i - 1] + v[i + 1]
      BY <2>5, SMT
    <3>4. g[i] = H[i - 1] + v[i + 1]
      BY <3>1, <3>2, <3>3, Zenon
    <3>5. QED
      BY <3>1, <3>4, <2>4, <1>7, Zenon
  <2>8. CASE i > k
    <3>1. /\ g[i] = H[i + 1] - v[k] /\ g[i - 1] = H[i] - v[k]
          /\ v2[i] = v[i + 1]
      BY <2>8, <2>1, <2>2, <2>4
    <3>2. \A a, b, c \in Int : (a + b) - c = (a - c) + b
      OBVIOUS
    <3>3. (H[i] + v[i + 1]) - v[k] = (H[i] - v[k]) + v[i + 1]
      BY <3>2, <2>5, Zenon
    <3>4. g[i] = (H[i] - v[k]) + v[i + 1]
      BY <3>1, <3>3, <2>3, Zenon
    <3>5. QED
      BY <3>1, <3>4, <2>4, <1>7, Zenon
  <2>9. QED
    BY <2>6, <2>7, <2>8, <2>1
<1>8. Agree(n, g, H2)
  <2> HIDE DEF g
  <2>1. QED
    BY <1>1, <1>6, <1>7, Alike
<1>9. n \in 0..n /\ n + 1 \in 1..n + 1 /\ (n + 1) - 1 = n /\ k <= n + 1
  BY <1>1
<1>10. g[n] = Total(v2)
  BY <1>8, <1>9, <1>4, Zenon DEF Agree
<1>11. g[n] = IF n < k THEN H[n] ELSE H[n + 1] - v[k]
  BY <1>9, Zenon
<1>12. H[n + 1] = H[n] + v[n + 1]
  BY <1>9, <1>3, Zenon
<1>13. H[n] \in Int /\ H[n + 1] \in Int /\ v[k] \in Int
  BY <1>1, <1>3, <1>5
<1> HIDE DEF g
<1>14. H[n + 1] = Total(v2) + v[k]
  <2>1. CASE n < k
    <3>1. k = n + 1
      BY <2>1, <1>1
    <3>2. QED
      BY <3>1, <2>1, <1>10, <1>11, <1>12
  <2>2. CASE ~(n < k)
    BY <2>2, <1>10, <1>11, <1>13
  <2>3. QED
    BY <2>1, <2>2
<1>15. QED
  BY <1>14, <1>3 DEF v2

\* So a sequence is worth its k-th element and what is left without it.
LEMMA WorthWithout ==
  ASSUME NEW T, NEW s \in Seq(T), NEW k \in 1..Len(s), NEW V \in [T -> Int]
  PROVE  Worth(s, V) = Worth(Without(s, k), V) + V[s[k]]
<1> DEFINE n == Len(s) - 1
           v == [i \in DOMAIN s |-> V[s[i]]]
           s2 == Without(s, k)
           v2 == [i \in DOMAIN s2 |-> V[s2[i]]]
<1>1. v \in Seq(Int) /\ Len(v) = Len(s) /\ DOMAIN s = 1..Len(s)
  BY ValuesType
<1>2. /\ s2 \in Seq(T) /\ Len(s2) = n
      /\ \A i \in 1..n : s2[i] = IF i < k THEN s[i] ELSE s[i + 1]
  BY WithoutType, Zenon
<1>3. v2 \in Seq(Int) /\ Len(v2) = n /\ DOMAIN s2 = 1..n
  <2> HIDE DEF s2, n
  <2>1. v2 \in Seq(Int) /\ Len(v2) = Len(s2)
    BY <1>2, ValuesType, Zenon
  <2>2. DOMAIN s2 = 1..Len(s2)
    BY <1>2
  <2>3. QED
    BY <2>1, <2>2, <1>2, Zenon
<1>4. /\ Without(v, k) \in Seq(Int) /\ Len(Without(v, k)) = n
      /\ \A i \in 1..n : Without(v, k)[i] = IF i < k THEN v[i] ELSE v[i + 1]
  <2> HIDE DEF v
  <2>1. QED
    BY <1>1, WithoutType
<1>5. \A i \in 1..n : v2[i] = Without(v, k)[i]
  <2> TAKE i \in 1..n
  <2>1. v2[i] = V[s2[i]] /\ i \in DOMAIN s /\ i + 1 \in DOMAIN s
    BY <1>3
  <2>2. v[i] = V[s[i]] /\ v[i + 1] = V[s[i + 1]]
    BY <2>1, Zenon
  <2> HIDE DEF v2, v, n, s2
  <2>3. QED
    BY <2>1, <2>2, <1>2, <1>4, Zenon
<1>6. v2 = Without(v, k)
  <2> HIDE DEF v2, v, n
  <2>1. QED
    BY <1>3, <1>4, <1>5, SeqEqual
<1>7. Total(v) = Total(Without(v, k)) + v[k]
  <2> HIDE DEF v
  <2>1. QED
    BY <1>1, TotalWithout
<1>8. v[k] = V[s[k]]
  BY <1>1
<1>9. QED
  BY <1>6, <1>7, <1>8, Zenon DEF Worth

\* A sequence without repetition that meets each element of a set once.
Walks(n, Q) ==
  {w \in [1..n -> Q] : /\ \A i, j \in 1..n : i # j => w[i] # w[j]
                       /\ \A x \in Q : \E i \in 1..n : w[i] = x}

\* In which order a walk goes makes no difference to what it is worth.
LEMMA WorthOfWalks ==
  ASSUME NEW P, NEW V \in [P -> Int], NEW n \in Nat,
         NEW a \in Walks(n, P), NEW b \in Walks(n, P)
  PROVE  Worth(a, V) = Worth(b, V)
<1> DEFINE Same(Q, k) == \A w1, w2 \in Walks(k, Q) : Worth(w1, V) = Worth(w2, V)
           S == {k \in Nat : \A Q \in SUBSET P : Same(Q, k)}
<1>1. 0 \in S
  <2> SUFFICES ASSUME NEW Q \in SUBSET P, NEW w1 \in Walks(0, Q), NEW w2 \in Walks(0, Q)
               PROVE  Worth(w1, V) = Worth(w2, V)
    OBVIOUS
  <2>1. w1 = w2
    BY DEF Walks
  <2>2. QED
    BY <2>1, Zenon
<1>2. ASSUME NEW k \in Nat, k \in S PROVE k + 1 \in S
  <2> SUFFICES ASSUME NEW Q \in SUBSET P,
                      NEW w1 \in Walks(k + 1, Q), NEW w2 \in Walks(k + 1, Q)
               PROVE  Worth(w1, V) = Worth(w2, V)
    OBVIOUS
  <2> DEFINE x == w1[k + 1]
             R == Q \ {x}
  <2>1. k + 1 \in 1..k + 1 /\ x \in Q
    BY DEF Walks
  <2>2. ASSUME NEW w \in Walks(k + 1, Q), NEW m \in 1..k + 1, w[m] = x
        PROVE  /\ Without(w, m) \in Walks(k, R)
               /\ Worth(w, V) = Worth(Without(w, m), V) + V[x]
    <3> HIDE DEF x
    <3>1. /\ w \in [1..k + 1 -> Q]
          /\ \A i, j \in 1..k + 1 : i # j => w[i] # w[j]
          /\ \A y \in Q : \E i \in 1..k + 1 : w[i] = y
      BY DEF Walks
    <3>2. w \in Seq(Q) /\ w \in Seq(P) /\ Len(w) = k + 1 /\ Len(w) - 1 = k
      BY <3>1
    <3> DEFINE u == Without(w, m)
    <3>3. /\ u \in Seq(Q) /\ Len(u) = k
          /\ \A i \in 1..k : u[i] = IF i < m THEN w[i] ELSE w[i + 1]
      BY <3>2, WithoutType
    <3>4. Worth(w, V) = Worth(u, V) + V[w[m]]
      BY <3>2, WorthWithout
    <3> HIDE DEF u
    <3>5. \A i \in 1..k : \E j \in 1..k + 1 :
            /\ u[i] = w[j] /\ j # m
            /\ j = IF i < m THEN i ELSE i + 1
      <4> TAKE i \in 1..k
      <4>1. CASE i < m
        <5>1. i \in 1..k + 1 /\ i # m /\ u[i] = w[i]
          BY <4>1, <3>3
        <5>2. QED
          BY <5>1, <4>1, Zenon
      <4>2. CASE ~(i < m)
        <5>1. i + 1 \in 1..k + 1 /\ i + 1 # m /\ u[i] = w[i + 1]
          BY <4>2, <3>3
        <5>2. QED
          BY <5>1, <4>2, Zenon
      <4>3. QED
        BY <4>1, <4>2
    <3>6. \A i \in 1..k : u[i] \in R
      BY <3>1, <3>5, <2>2
    <3>7. \A i, j \in 1..k : i # j => u[i] # u[j]
      <4> SUFFICES ASSUME NEW i \in 1..k, NEW j \in 1..k, i # j PROVE u[i] # u[j]
        OBVIOUS
      <4>1. PICK i2 \in 1..k + 1 : u[i] = w[i2] /\ i2 = IF i < m THEN i ELSE i + 1
        BY <3>5, Zenon
      <4>2. PICK j2 \in 1..k + 1 : u[j] = w[j2] /\ j2 = IF j < m THEN j ELSE j + 1
        BY <3>5, Zenon
      <4>3. i2 # j2
        BY <4>1, <4>2
      <4>4. QED
        BY <4>1, <4>2, <4>3, <3>1, Zenon
    <3>8. \A y \in R : \E i \in 1..k : u[i] = y
      <4> TAKE y \in R
      <4>1. PICK j \in 1..k + 1 : w[j] = y
        BY <3>1, Zenon
      <4>2. j # m
        BY <4>1, <2>2
      <4>3. CASE j < m
        <5>1. j \in 1..k
          BY <4>3
        <5>2. u[j] = w[j]
          BY <5>1, <4>3, <3>3, Zenon
        <5>3. QED
          BY <5>1, <5>2, <4>1, Zenon
      <4>4. CASE j > m
        <5>1. j - 1 \in 1..k /\ ~(j - 1 < m) /\ (j - 1) + 1 = j
          BY <4>4
        <5>2. u[j - 1] = w[j]
          BY <5>1, <3>3, Zenon
        <5>3. QED
          BY <5>1, <5>2, <4>1, Zenon
      <4>5. QED
        BY <4>2, <4>3, <4>4
    <3>9. u \in [1..k -> R]
      <4>1. u \in [1..k -> Q]
        BY <3>3
      <4>2. QED
        BY <4>1, <3>6
    <3>10. QED
      BY <3>4, <3>7, <3>8, <3>9, <2>2, Zenon DEF u, Walks
  <2>3. PICK m \in 1..k + 1 : w2[m] = x
    BY <2>1, Zenon DEF Walks
  <2>4. R \in SUBSET P
    OBVIOUS
  <2> HIDE DEF R
  <2>5. /\ Without(w1, k + 1) \in Walks(k, R)
        /\ Worth(w1, V) = Worth(Without(w1, k + 1), V) + V[x]
    BY <2>1, <2>2, Zenon
  <2>6. /\ Without(w2, m) \in Walks(k, R)
        /\ Worth(w2, V) = Worth(Without(w2, m), V) + V[x]
    BY <2>3, <2>2, Zenon
  <2>7. Worth(Without(w1, k + 1), V) = Worth(Without(w2, m), V)
    BY <2>4, <2>5, <2>6, <1>2, Zenon
  <2>8. QED
    BY <2>5, <2>6, <2>7, Zenon
<1>3. Nat \subseteq S
  <2> HIDE DEF S
  <2>1. QED
    BY <1>1, <1>2, Induction, Zenon
<1>4. Same(P, n)
  BY <1>3, Zenon
<1>5. QED
  BY <1>4, Zenon

-----------------------------------------------------------------------------
(* Elements.                                                               *)

\* The elements of a sequence with one more.
LEMMA SetOfAppend ==
  ASSUME NEW T, NEW s \in Seq(T), NEW x \in T
  PROVE  ToSet(Append(s, x)) = ToSet(s) \cup {x}
<1>1. /\ DOMAIN s = 1..Len(s) /\ Len(s) \in Nat
      /\ DOMAIN Append(s, x) = 1..Len(s) + 1
      /\ \A i \in 1..Len(s) : Append(s, x)[i] = s[i]
      /\ Append(s, x)[Len(s) + 1] = x
  BY AppendProperties, LenProperties
<1>2. \A i \in 1..Len(s) : i \in 1..Len(s) + 1
  BY <1>1
<1>3. Len(s) + 1 \in 1..Len(s) + 1
  BY <1>1
<1>4. \A i \in 1..Len(s) + 1 : i \in 1..Len(s) \/ i = Len(s) + 1
  BY <1>1
<1>5. QED
  BY <1>1, <1>2, <1>3, <1>4, Zenon DEF ToSet

\* The elements of two sequences together.
LEMMA SetOfConcat ==
  ASSUME NEW T, NEW a \in Seq(T), NEW b \in Seq(T)
  PROVE  ToSet(a \o b) = ToSet(a) \cup ToSet(b)
<1> DEFINE m == Len(a)
           n == Len(b)
<1>1. m \in Nat /\ n \in Nat /\ DOMAIN a = 1..m /\ DOMAIN b = 1..n
  OBVIOUS
<1>2. /\ DOMAIN (a \o b) = 1..m + n
      /\ \A i \in 1..m + n : (a \o b)[i] = IF i <= m THEN a[i] ELSE b[i - m]
  <2>1. a \o b \in Seq(T) /\ Len(a \o b) = m + n
    BY ConcatProperties
  <2>2. DOMAIN (a \o b) = 1..Len(a \o b)
    BY <2>1
  <2>3. QED
    BY <2>1, <2>2, ConcatProperties
<1> HIDE DEF m, n
<1>3. \A i \in 1..m : i \in 1..m + n /\ i <= m
  BY <1>1
<1>4. \A i \in 1..n : m + i \in 1..m + n /\ ~(m + i <= m) /\ (m + i) - m = i
  BY <1>1
<1>5. ASSUME NEW i \in 1..m + n
      PROVE  (i \in 1..m /\ i <= m) \/ (i - m \in 1..n /\ ~(i <= m))
  <2>0. m \in Nat /\ n \in Nat
    BY <1>1
  <2>1. i \in Int /\ i >= 1 /\ i <= m + n
    BY <2>0
  <2>2. i <= m \/ ~(i <= m)
    OBVIOUS
  <2>3. i <= m => i \in 1..m
    BY <2>0, <2>1
  <2>4. ~(i <= m) => i - m \in 1..n
    BY <2>0, <2>1
  <2>5. QED
    BY <2>2, <2>3, <2>4, Zenon
<1>6. ASSUME NEW x \in ToSet(a \o b) PROVE x \in ToSet(a) \cup ToSet(b)
  <2>1. PICK i \in 1..m + n : x = (a \o b)[i]
    BY <1>2, Zenon DEF ToSet
  <2>2. CASE i \in 1..m /\ i <= m
    BY <2>1, <2>2, <1>1, <1>2, Zenon DEF ToSet
  <2>3. CASE i - m \in 1..n /\ ~(i <= m)
    BY <2>1, <2>3, <1>1, <1>2, Zenon DEF ToSet
  <2>4. QED
    BY <2>2, <2>3, <1>5, Zenon
<1>7. ASSUME NEW i \in 1..m PROVE a[i] \in ToSet(a \o b)
  BY <1>2, <1>3, Zenon DEF ToSet
<1>8. ASSUME NEW i \in 1..n PROVE b[i] \in ToSet(a \o b)
  <2>1. (a \o b)[m + i] = b[i]
    BY <1>2, <1>4, Zenon
  <2>2. QED
    BY <2>1, <1>2, <1>4, Zenon DEF ToSet
<1>9. ToSet(a) \cup ToSet(b) \subseteq ToSet(a \o b)
  BY <1>1, <1>7, <1>8, Zenon DEF ToSet
<1>10. QED
  BY <1>6, <1>9, Zenon

\* What is kept is the part of the sequence that is in the set.
LEMMA KeepSet ==
  ASSUME NEW T, NEW s \in Seq(T), NEW S
  PROVE  Keep(s, S) \in Seq(T) /\ ToSet(Keep(s, S)) = ToSet(s) \cap S
<1> DEFINE n == Len(s)
           K == Kept(s, S)
           g == [i \in 0..n |-> ToSet(K[i])]
           h == [i \in 0..n |-> {s[j] : j \in 1..i} \cap S]
<1>1. n \in Nat /\ DOMAIN s = 1..n /\ \A i \in 1..n : s[i] \in T
  OBVIOUS
<1>2. /\ K \in [0..n -> Seq(T)] /\ K[0] = <<>> /\ Keep(s, S) = K[n]
      /\ \A i \in 1..n : K[i] = IF s[i] \in S THEN Append(K[i - 1], s[i])
                                ELSE K[i - 1]
  BY KeepUnfold
<1> HIDE DEF n, K
<1>3. g[0] = h[0]
  <2>1. 0 \in 0..n /\ 1..0 = {} /\ ToSet(<<>>) = {}
    BY <1>1 DEF ToSet
  <2>2. QED
    BY <2>1, <1>2, Zenon
<1>4. ASSUME NEW i \in 1..n, g[i - 1] = h[i - 1] PROVE g[i] = h[i]
  <2>1. i \in 0..n /\ i - 1 \in 0..n /\ 1..i = (1..i - 1) \cup {i} /\ s[i] \in T
    BY <1>1
  <2>2. {s[j] : j \in 1..i} = {s[j] : j \in 1..i - 1} \cup {s[i]}
    BY <2>1, Zenon
  <2>3. K[i - 1] \in Seq(T) /\ ToSet(K[i - 1]) = {s[j] : j \in 1..i - 1} \cap S
    BY <2>1, <1>2, <1>4, Zenon
  <2>4. CASE s[i] \in S
    <3>1. ToSet(Append(K[i - 1], s[i])) = ToSet(K[i - 1]) \cup {s[i]}
      BY <2>1, <2>3, SetOfAppend
    <3>2. ToSet(K[i]) = ToSet(K[i - 1]) \cup {s[i]}
      BY <3>1, <2>4, <1>2, Zenon
    <3>3. ({s[j] : j \in 1..i - 1} \cap S) \cup {s[i]}
            = ({s[j] : j \in 1..i - 1} \cup {s[i]}) \cap S
      BY <2>4, Zenon
    <3>4. QED
      BY <3>2, <3>3, <2>1, <2>2, <2>3, Zenon
  <2>5. CASE s[i] \notin S
    <3>1. ToSet(K[i]) = ToSet(K[i - 1])
      BY <2>5, <1>2, Zenon
    <3>2. {s[j] : j \in 1..i - 1} \cap S
            = ({s[j] : j \in 1..i - 1} \cup {s[i]}) \cap S
      BY <2>5, Zenon
    <3>3. QED
      BY <3>1, <3>2, <2>1, <2>2, <2>3, Zenon
  <2>6. QED
    BY <2>4, <2>5
<1>5. Agree(n, g, h)
  <2> HIDE DEF g, h
  <2>1. QED
    BY <1>1, <1>3, <1>4, Alike
<1>6. n \in 0..n
  BY <1>1
<1>7. ToSet(K[n]) = {s[j] : j \in 1..n} \cap S
  BY <1>5, <1>6, Zenon DEF Agree
<1>8. K[n] \in Seq(T)
  BY <1>2, <1>6, Zenon
<1>9. ToSet(s) = {s[j] : j \in 1..n}
  BY <1>1, Zenon DEF ToSet
<1>10. QED
  BY <1>2, <1>7, <1>8, <1>9, Zenon

\* Sequences one after the other have the elements of each.
LEMMA SetOfFlatten ==
  ASSUME NEW T, NEW ss \in Seq(Seq(T))
  PROVE  /\ FlattenSeq(ss) \in Seq(T)
         /\ ToSet(FlattenSeq(ss)) = UNION {ToSet(ss[j]) : j \in 1..Len(ss)}
<1> DEFINE n == Len(ss)
           J == Joined(ss)
           g == [i \in 0..n |-> ToSet(J[i])]
           h == [i \in 0..n |-> UNION {ToSet(ss[j]) : j \in 1..i}]
<1>0. n = Len(ss)
  OBVIOUS
<1>1. n \in Nat /\ DOMAIN ss = 1..n /\ \A i \in 1..n : ss[i] \in Seq(T)
  OBVIOUS
<1>2. /\ J \in [0..n -> Seq(T)] /\ J[0] = <<>> /\ FlattenSeq(ss) = J[n]
      /\ \A i \in 1..n : J[i] = J[i - 1] \o ss[i]
  BY FlattenUnfold
<1> HIDE DEF n, J
<1>3. g[0] = h[0]
  <2>1. 0 \in 0..n /\ 1..0 = {} /\ ToSet(<<>>) = {}
    BY <1>1 DEF ToSet
  <2>2. QED
    BY <2>1, <1>2, Zenon
<1>4. ASSUME NEW i \in 1..n, g[i - 1] = h[i - 1] PROVE g[i] = h[i]
  <2>1. i \in 0..n /\ i - 1 \in 0..n /\ 1..i = (1..i - 1) \cup {i}
    BY <1>1
  <2>2. UNION {ToSet(ss[j]) : j \in 1..i}
          = (UNION {ToSet(ss[j]) : j \in 1..i - 1}) \cup ToSet(ss[i])
    BY <2>1, Zenon
  <2>3. /\ J[i - 1] \in Seq(T) /\ ss[i] \in Seq(T)
        /\ ToSet(J[i - 1]) = UNION {ToSet(ss[j]) : j \in 1..i - 1}
    BY <2>1, <1>1, <1>2, <1>4, Zenon
  <2>4. ToSet(J[i - 1] \o ss[i]) = ToSet(J[i - 1]) \cup ToSet(ss[i])
    <3> DEFINE a == J[i - 1]
               b == ss[i]
    <3>1. a \in Seq(T) /\ b \in Seq(T)
      BY <2>3, Zenon
    <3> HIDE DEF a, b
    <3>2. ToSet(a \o b) = ToSet(a) \cup ToSet(b)
      BY <3>1, SetOfConcat
    <3>3. QED
      BY <3>2, Zenon DEF a, b
  <2>5. QED
    BY <2>1, <2>2, <2>3, <2>4, <1>2, Zenon
<1>5. Agree(n, g, h)
  <2> HIDE DEF g, h
  <2>1. QED
    BY <1>1, <1>3, <1>4, Alike
<1>6. n \in 0..n
  BY <1>1
<1>7. ToSet(J[n]) = UNION {ToSet(ss[j]) : j \in 1..n}
  BY <1>5, <1>6, Zenon DEF Agree
<1>8. QED
  BY <1>0, <1>2, <1>6, <1>7, Zenon

-----------------------------------------------------------------------------
(* What is played stays a game.                                            *)

\* One member is set, and the others are left.
LEMMA Setting ==
  ASSUME NEW record, NEW field, NEW value
  PROVE  /\ DOMAIN With(record, field, value) = DOMAIN record \cup {field}
         /\ With(record, field, value)[field] = value
         /\ \A f \in DOMAIN record \ {field} :
              With(record, field, value)[f] = record[f]
BY Zenon DEF With

\* One member of a game is set in its place: the others are left.
LEMMA Placing ==
  ASSUME NEW g, NEW field \in DOMAIN g, NEW value,
         NEW next, next = [g EXCEPT ![field] = value]
  PROVE  /\ DOMAIN next = DOMAIN g /\ next[field] = value
         /\ \A f \in DOMAIN g \ {field} : next[f] = g[f]
BY Zenon

\* One value of a function is set in its place: the others are left.
LEMMA Replacing ==
  ASSUME NEW f, NEW x \in DOMAIN f, NEW value,
         NEW next, next = [f EXCEPT ![x] = value]
  PROVE  /\ DOMAIN next = DOMAIN f /\ next[x] = value
         /\ \A y \in DOMAIN f : y # x => next[y] = f[y]
BY Zenon

\* The invariant holds where the recorded game begins.
LEMMA TypedInit == Init => TypeOK
<1> SUFFICES ASSUME Init PROVE TypeOK
  OBVIOUS
<1>1. IsGame(game)
  BY GamesAssumption, Zenon DEF Init
<1>2. walk \in SetToSeqs(DOMAIN game.players)
  BY Zenon DEF Init
<1>3. moves \in 0..MaxMoves
  BY GamesAssumption DEF Init
<1>4. QED
  BY <1>1, <1>2, <1>3, Zenon DEF TypeOK

\* A move to a game with the same players keeps the invariant.
LEMMA TypedPlay ==
  ASSUME TypeOK, NEW next, Play(next), IsGame(next),
         DOMAIN next.players = DOMAIN game.players
  PROVE  TypeOK'
<1>1. IsGame(game')
  BY Zenon DEF Play
<1>2. walk' \in SetToSeqs(DOMAIN game'.players)
  BY Zenon DEF Play, TypeOK
<1>3. moves' \in 0..MaxMoves
  BY GamesAssumption DEF Play, TypeOK
<1>4. QED
  BY <1>1, <1>2, <1>3, Zenon DEF TypeOK

\* A player's powers or funds are set.
LEMMA PlayerMoves ==
  ASSUME NEW g, IsGame(g), NEW p \in DOMAIN g.players, NEW player,
         IsPlayer(player),
         NEW next, next = [g EXCEPT !.players[p] = player]
  PROVE  IsGame(next) /\ DOMAIN next.players = DOMAIN g.players
<1> DEFINE q == [g.players EXCEPT ![p] = player]
<1>1. "players" \in DOMAIN g
  BY DEF IsGame
<1>2. next = [g EXCEPT !["players"] = q]
  BY Zenon
<1>3. /\ DOMAIN q = DOMAIN g.players /\ q[p] = player
      /\ \A r \in DOMAIN g.players : r # p => q[r] = g.players[r]
  BY Replacing, Zenon
<1> HIDE DEF q
<1>4. /\ DOMAIN next = DOMAIN g /\ next.players = q
      /\ \A f \in DOMAIN g \ {"players"} : next[f] = g[f]
  BY <1>1, <1>2, Placing, Zenon
<1>5. /\ next.playerOrder = g.playerOrder /\ next.playerTurn = g.playerTurn
      /\ next.terrains = g.terrains /\ next.units = g.units
  BY <1>4 DEF IsGame
<1>6. \A r \in DOMAIN q : IsPlayer(q[r])
  BY <1>3, Zenon DEF IsGame
<1>7. QED
  BY <1>3, <1>4, <1>5, <1>6, Zenon DEF IsGame

\* A unit's hit points or its place are set.
LEMMA UnitMoves ==
  ASSUME NEW g, IsGame(g), NEW u \in DOMAIN g.units, NEW unit,
         IsUnit(unit),
         NEW next, next = [g EXCEPT !.units[u] = unit]
  PROVE  IsGame(next) /\ DOMAIN next.players = DOMAIN g.players
<1> DEFINE q == [g.units EXCEPT ![u] = unit]
<1>1. "units" \in DOMAIN g
  BY DEF IsGame
<1>2. next = [g EXCEPT !["units"] = q]
  BY Zenon
<1>3. /\ DOMAIN q = DOMAIN g.units /\ q[u] = unit
      /\ \A r \in DOMAIN g.units : r # u => q[r] = g.units[r]
  BY Replacing, Zenon
<1> HIDE DEF q
<1>4. /\ DOMAIN next = DOMAIN g /\ next.units = q
      /\ \A f \in DOMAIN g \ {"units"} : next[f] = g[f]
  BY <1>1, <1>2, Placing, Zenon
<1>5. /\ next.playerOrder = g.playerOrder /\ next.playerTurn = g.playerTurn
      /\ next.terrains = g.terrains /\ next.players = g.players
  BY <1>4 DEF IsGame
<1>6. \A r \in DOMAIN q : IsUnit(q[r])
  BY <1>3, Zenon DEF IsGame
<1>7. QED
  BY <1>4, <1>5, <1>6, Zenon DEF IsGame

\* A terrain gets another owner.
LEMMA TerrainMoves ==
  ASSUME NEW g, IsGame(g), NEW place \in DOMAIN g.terrains, NEW terrain,
         "name" \in DOMAIN terrain,
         NEW next, next = [g EXCEPT !.terrains[place] = terrain]
  PROVE  IsGame(next) /\ DOMAIN next.players = DOMAIN g.players
<1> DEFINE q == [g.terrains EXCEPT ![place] = terrain]
<1>1. "terrains" \in DOMAIN g
  BY DEF IsGame
<1>2. next = [g EXCEPT !["terrains"] = q]
  BY Zenon
<1>3. /\ DOMAIN q = DOMAIN g.terrains /\ q[place] = terrain
      /\ \A x \in DOMAIN g.terrains : x # place => q[x] = g.terrains[x]
  BY Replacing, Zenon
<1> HIDE DEF q
<1>4. /\ DOMAIN next = DOMAIN g /\ next.terrains = q
      /\ \A f \in DOMAIN g \ {"terrains"} : next[f] = g[f]
  BY <1>1, <1>2, Placing, Zenon
<1>5. /\ next.playerOrder = g.playerOrder /\ next.playerTurn = g.playerTurn
      /\ next.units = g.units /\ next.players = g.players
  BY <1>4 DEF IsGame
<1>6. \A x \in DOMAIN q : "name" \in DOMAIN q[x]
  BY <1>3, Zenon DEF IsGame
<1>7. QED
  BY <1>3, <1>4, <1>5, <1>6, Zenon DEF IsGame

\* The next player has the turn.
LEMMA TurnMoves ==
  ASSUME NEW g, IsGame(g), g.playerOrder # <<>>,
         NEW next,
         next = [g EXCEPT !.playerTurn = (@ + 1) % Len(g.playerOrder)]
  PROVE  /\ IsGame(next) /\ DOMAIN next.players = DOMAIN g.players
         /\ next.playerTurn + 1 \in DOMAIN next.playerOrder
<1> DEFINE turn == (g.playerTurn + 1) % Len(g.playerOrder)
<1>1. "playerTurn" \in DOMAIN g
  BY DEF IsGame
<1>2. next = [g EXCEPT !["playerTurn"] = turn]
  BY Zenon
<1>3. turn \in Nat /\ turn + 1 \in DOMAIN g.playerOrder
  <2>1. g.playerOrder \in Seq(Int) /\ g.playerTurn \in Nat
    BY DEF IsGame
  <2>2. Len(g.playerOrder) \in Nat \ {0}
    BY <2>1
  <2>3. turn \in 0..Len(g.playerOrder) - 1
    BY <2>1, <2>2
  <2>4. DOMAIN g.playerOrder = 1..Len(g.playerOrder)
    BY <2>1
  <2> HIDE DEF turn
  <2>5. QED
    BY <2>2, <2>3, <2>4
<1> HIDE DEF turn
<1>4. /\ DOMAIN next = DOMAIN g /\ next.playerTurn = turn
      /\ \A f \in DOMAIN g \ {"playerTurn"} : next[f] = g[f]
  BY <1>1, <1>2, Placing, Zenon
<1>5. /\ next.playerOrder = g.playerOrder /\ next.terrains = g.terrains
      /\ next.units = g.units /\ next.players = g.players
  BY <1>4 DEF IsGame
<1>6. QED
  BY <1>3, <1>4, <1>5, Zenon DEF IsGame

\* Every step keeps the invariant.
LEMMA TypedNext == TypeOK /\ [Next]_vars => TypeOK'
<1> SUFFICES ASSUME TypeOK, [Next]_vars PROVE TypeOK'
  OBVIOUS
<1>0. IsGame(game)
  BY DEF TypeOK
<1>1. CASE PassTurn
  BY <1>0, <1>1, TurnMoves, TypedPlay, Zenon DEF PassTurn
<1>2. ASSUME NEW p \in DOMAIN game.players, NEW power, UsePower(p, power)
      PROVE  TypeOK'
  <2> DEFINE player == With(game.players[p], "powerActive", power)
             next == [game EXCEPT !.players[p] = player]
  <2>1. IsPlayer(game.players[p])
    BY <1>0, Zenon DEF IsGame
  <2>2. IsPlayer(player)
    BY <2>1 DEF With, IsPlayer
  <2>3. IsGame(next) /\ DOMAIN next.players = DOMAIN game.players
    <3> HIDE DEF player
    <3>1. QED
      BY <1>0, <2>2, PlayerMoves
  <2>4. Play(next)
    BY <1>2 DEF UsePower
  <2> HIDE DEF next
  <2>5. QED
    BY <2>3, <2>4, TypedPlay
<1>3. ASSUME NEW p \in DOMAIN game.players, NEW funds \in Funds, Earn(p, funds)
      PROVE  TypeOK'
  <2> DEFINE player == [game.players[p] EXCEPT !.funds = funds]
             next == [game EXCEPT !.players[p] = player]
  <2>1. IsPlayer(game.players[p])
    BY <1>0, Zenon DEF IsGame
  <2>2. IsPlayer(player)
    BY <2>1, GamesAssumption DEF IsPlayer
  <2>3. IsGame(next) /\ DOMAIN next.players = DOMAIN game.players
    <3> HIDE DEF player
    <3>1. QED
      BY <1>0, <2>2, PlayerMoves
  <2>4. Play(next)
    BY <1>3 DEF Earn
  <2> HIDE DEF next
  <2>5. QED
    BY <2>3, <2>4, TypedPlay
<1>4. ASSUME NEW place \in DOMAIN game.terrains, NEW p, Capture(place, p)
      PROVE  TypeOK'
  <2> DEFINE terrain == With(game.terrains[place], "owner", p)
             next == [game EXCEPT !.terrains[place] = terrain]
  <2>1. IsGame(next) /\ DOMAIN next.players = DOMAIN game.players
    <3>1. "name" \in DOMAIN terrain
      BY <1>0, Zenon DEF IsGame, With
    <3> HIDE DEF terrain
    <3>2. QED
      BY <1>0, <3>1, TerrainMoves
  <2>2. Play(next)
    BY <1>4 DEF Capture
  <2> HIDE DEF next
  <2>3. QED
    BY <2>1, <2>2, TypedPlay
<1>5. ASSUME NEW u \in DOMAIN game.units, NEW h \in HitPoints,
             SetHitPoints(u, h)
      PROVE  TypeOK'
  <2> DEFINE unit == With(game.units[u], "hitPoints", h)
             next == [game EXCEPT !.units[u] = unit]
  <2>1. IsUnit(unit)
    <3>1. IsUnit(game.units[u])
      BY <1>0, Zenon DEF IsGame
    <3>2. QED
      BY <3>1, GamesAssumption DEF IsUnit, ValueOr, With
  <2>2. IsGame(next) /\ DOMAIN next.players = DOMAIN game.players
    <3> HIDE DEF unit
    <3>1. QED
      BY <1>0, <2>1, UnitMoves
  <2>3. Play(next)
    BY <1>5 DEF SetHitPoints
  <2> HIDE DEF next
  <2>4. QED
    BY <2>2, <2>3, TypedPlay
<1>6. ASSUME NEW u \in DOMAIN game.units, NEW place, MoveUnit(u, place)
      PROVE  TypeOK'
  <2> DEFINE unit == [game.units[u] EXCEPT !.place = place]
             next == [game EXCEPT !.units[u] = unit]
  <2>1. IsUnit(unit)
    <3>1. IsUnit(game.units[u])
      BY <1>0, Zenon DEF IsGame
    <3>2. QED
      BY <3>1 DEF IsUnit, ValueOr
  <2>2. IsGame(next) /\ DOMAIN next.players = DOMAIN game.players
    <3> HIDE DEF unit
    <3>1. QED
      BY <1>0, <2>1, UnitMoves
  <2>3. Play(next)
    BY <1>6 DEF MoveUnit
  <2> HIDE DEF next
  <2>4. QED
    BY <2>2, <2>3, TypedPlay
<1>7. CASE Rehash
  BY <1>0, <1>7, GamesAssumption DEF Rehash, TypeOK
<1>8. CASE UNCHANGED vars
  BY <1>8 DEF vars, TypeOK
<1>9. QED
  BY <1>1, <1>2, <1>3, <1>4, <1>5, <1>6, <1>7, <1>8, Zenon DEF Next

\* What is played stays a game whose map holds each player once: the turn and
\* the hit points stay natural numbers, the funds integers, and nobody joins.
THEOREM Typed == Spec => []TypeOK
<1>1. QED
  BY TypedInit, TypedNext, PTL DEF Spec

-----------------------------------------------------------------------------
(* Walks of the players, and what their commanders give.                   *)

\* The order of the map is a sequence of the players, each met once.
LEMMA WalkOfPlayers ==
  ASSUME NEW P, IsFiniteSet(P), NEW w \in SetToSeqs(P)
  PROVE  /\ Cardinality(P) \in Nat /\ w \in Walks(Cardinality(P), P)
         /\ w \in Seq(P) /\ ToSet(w) = P
<1> DEFINE n == Cardinality(P)
           D == 1..n
<1>1. n \in Nat
  BY FS_CardinalityType
<1>2. w \in [D -> P] /\ \A i, j \in D : i # j => w[i] # w[j]
  BY DEF SetToSeqs
<1>3. Cardinality(D) = n
  BY <1>1, FS_Interval
<1>4. w \in Injection(D, P)
  BY <1>2 DEF Injection, IsInjective
<1>5. w \in Surjection(D, P)
  BY <1>3, <1>4, FS_Injection
<1>6. \A x \in P : \E i \in D : w[i] = x
  BY <1>5 DEF Surjection
<1>7. w \in Walks(n, P)
  BY <1>2, <1>6, Zenon DEF Walks
<1>8. w \in Seq(P)
  BY <1>1, <1>2
<1>9. ToSet(w) = P
  BY <1>2, <1>6 DEF ToSet
<1>10. QED
  BY <1>1, <1>7, <1>8, <1>9

\* Lists of names, where a mod has them.
LEMMA ListsType ==
  ASSUME NEW name, NEW kind \in Kinds, NEW power
  PROVE  CommanderLists(name, kind, power) \in Seq(STRING)
<1> DEFINE lists == ModData.commanders[name][kind]
           a == ValueOr(lists, "d2d", <<>>)
           b == ValueOr(lists, power, <<>>)
<1>1. CASE name \notin DOMAIN ModData.commanders
  BY <1>1 DEF CommanderLists
<1>2. CASE name \in DOMAIN ModData.commanders
  <2>1. a \in Seq(STRING)
    BY <1>2, ModAssumption, Zenon DEF Powers
  <2>2. power \in {"cop", "scop"} => b \in Seq(STRING)
    BY <1>2, ModAssumption, Zenon DEF Powers
  <2>3. CommanderLists(name, kind, power)
          = a \o (IF power \in {"cop", "scop"} THEN b ELSE <<>>)
    BY <1>2, Zenon DEF CommanderLists
  <2> HIDE DEF a, b
  <2>4. (IF power \in {"cop", "scop"} THEN b ELSE <<>>) \in Seq(STRING)
    <3>1. <<>> \in Seq(STRING)
      OBVIOUS
    <3>2. QED
      BY <2>2, <3>1, Zenon
  <2>5. QED
    BY <2>1, <2>3, <2>4
<1>3. QED
  BY <1>1, <1>2

\* The names of the effects a player's commanders give, unknown ones too.
Named(g, p, kind) ==
  LET player == g.players[p]
      power == ValueOr(player, "powerActive", "none")
  IN  CommanderLists(Baseline(player), kind, power)
        \o (IF g.coPowers
            THEN CommanderLists(player.commanderName, kind, power)
            ELSE <<>>)

\* They are sequences of names.
LEMMA NamedType ==
  ASSUME NEW g, NEW p, NEW kind \in Kinds
  PROVE  Named(g, p, kind) \in Seq(STRING)
<1> DEFINE player == g.players[p]
           power == ValueOr(player, "powerActive", "none")
           a == CommanderLists(Baseline(player), kind, power)
           b == CommanderLists(player.commanderName, kind, power)
<1>1. a \in Seq(STRING) /\ b \in Seq(STRING)
  BY ListsType, Zenon
<1>2. Named(g, p, kind) = a \o (IF g.coPowers THEN b ELSE <<>>)
  BY Zenon DEF Named
<1> HIDE DEF a, b
<1>3. (IF g.coPowers THEN b ELSE <<>>) \in Seq(STRING)
  <2>1. <<>> \in Seq(STRING)
    OBVIOUS
  <2>2. QED
    BY <1>1, <2>1, Zenon
<1>4. QED
  BY <1>1, <1>2, <1>3

GiftsOf(g, p, kind) ==
  {[effect |-> ModData.effects[kind][name], giver |-> p] :
     name \in ToSet(Named(g, p, kind)) \cap DOMAIN ModData.effects[kind]}

\* What a player gives are effects of the mod, each with its giver.
LEMMA EffectsType ==
  ASSUME NEW g, NEW p \in DOMAIN g.players, NEW kind \in Kinds
  PROVE  /\ EffectsOf(g, p, kind) \in Seq(Gifts(g, kind))
         /\ ToSet(EffectsOf(g, p, kind)) = GiftsOf(g, p, kind)
<1> DEFINE D == DOMAIN ModData.effects[kind]
           known == Keep(Named(g, p, kind), D)
           gift(name) == [effect |-> ModData.effects[kind][name], giver |-> p]
<1>1. EffectsOf(g, p, kind) = [i \in DOMAIN known |-> gift(known[i])]
  BY Zenon DEF EffectsOf, Named
<1>2. known \in Seq(STRING) /\ ToSet(known) = ToSet(Named(g, p, kind)) \cap D
  <2> HIDE DEF D
  <2>1. QED
    BY NamedType, KeepSet
<1>3. DOMAIN known = 1..Len(known) /\ Len(known) \in Nat
  <2> HIDE DEF known
  <2>1. QED
    BY <1>2
<1>4. \A i \in DOMAIN known : known[i] \in D
  BY <1>2, Zenon DEF ToSet
<1> DEFINE n == Len(known)
<1> HIDE DEF known, n
<1>5. \A name \in D : gift(name) \in Gifts(g, kind)
  BY Zenon DEF Gifts
<1>6. EffectsOf(g, p, kind) = [i \in 1..n |-> gift(known[i])]
  BY <1>1, <1>3, Zenon DEF n
<1>7. \A i \in 1..n : gift(known[i]) \in Gifts(g, kind)
  BY <1>3, <1>4, <1>5, Zenon DEF n
<1>8. n \in Nat
  BY <1>3 DEF n
<1> HIDE DEF gift
<1>9. EffectsOf(g, p, kind) \in Seq(Gifts(g, kind))
  BY <1>6, <1>7, <1>8
<1>10. ToSet(EffectsOf(g, p, kind)) = {gift(name) : name \in ToSet(known)}
  BY <1>6, <1>3, Zenon DEF ToSet, n
<1>11. QED
  BY <1>2, <1>9, <1>10, Zenon DEF gift, GiftsOf

\* The effects of some players that reach, and what those of each are worth.
ReachedBy(g, Q, kind, R) ==
  UNION {ToSet(EffectsOf(g, p, kind)) \cap R : p \in Q}

WorthOfEach(g, kind, R, V) ==
  [p \in DOMAIN g.players |->
     Worth(EffectsOf(g, p, kind), Within(Gifts(g, kind), R, V))]

\* The effects of all players have those elements of each that reach.
LEMMA AllType ==
  ASSUME NEW g, NEW kind \in Kinds, NEW w \in Seq(DOMAIN g.players), NEW R
  PROVE  /\ EffectsOfAll(g, w, kind, R) \in Seq(Gifts(g, kind))
         /\ ToSet(EffectsOfAll(g, w, kind, R)) = ReachedBy(g, ToSet(w), kind, R)
<1> DEFINE P == DOMAIN g.players
           T == Gifts(g, kind)
           n == Len(w)
           ss == [i \in DOMAIN w |-> Keep(EffectsOf(g, w[i], kind), R)]
<1>1. DOMAIN w = 1..n /\ n \in Nat /\ \A i \in 1..n : w[i] \in P
  OBVIOUS
<1>2. \A p \in P : /\ Keep(EffectsOf(g, p, kind), R) \in Seq(T)
                   /\ ToSet(Keep(EffectsOf(g, p, kind), R))
                        = ToSet(EffectsOf(g, p, kind)) \cap R
  <2> TAKE p \in P
  <2>1. EffectsOf(g, p, kind) \in Seq(T)
    BY EffectsType, Zenon
  <2> HIDE DEF T
  <2>2. QED
    BY <2>1, KeepSet
<1> HIDE DEF n, T
<1>3. ss \in Seq(Seq(T)) /\ Len(ss) = n
  <2> DEFINE Q == Seq(T)
  <2>1. \A i \in 1..n : Keep(EffectsOf(g, w[i], kind), R) \in Q
    BY <1>1, <1>2, Zenon
  <2> HIDE DEF Q
  <2>2. ss = [i \in 1..n |-> Keep(EffectsOf(g, w[i], kind), R)]
    BY <1>1, Zenon
  <2>3. ss \in [1..n -> Q]
    BY <2>1, <2>2, Zenon
  <2> HIDE DEF ss
  <2>4. ss \in Seq(Q) /\ Len(ss) = n
    BY <1>1, <2>3
  <2>5. QED
    BY <2>4, Zenon DEF Q
<1>4. \A i \in 1..n : ToSet(ss[i]) = ToSet(EffectsOf(g, w[i], kind)) \cap R
  BY <1>1, <1>2, Zenon
<1>5. EffectsOfAll(g, w, kind, R) = FlattenSeq(ss)
  BY Zenon DEF EffectsOfAll
<1> HIDE DEF ss
<1>6. /\ FlattenSeq(ss) \in Seq(T)
      /\ ToSet(FlattenSeq(ss)) = UNION {ToSet(ss[j]) : j \in 1..n}
  BY <1>3, SetOfFlatten, Zenon
<1>7. {ToSet(ss[j]) : j \in 1..n}
        = {ToSet(EffectsOf(g, p, kind)) \cap R : p \in ToSet(w)}
  <2> DEFINE E(p) == ToSet(EffectsOf(g, p, kind)) \cap R
  <2>1. \A j \in 1..n : ToSet(ss[j]) = E(w[j])
    BY <1>4, Zenon
  <2>2. ToSet(w) = {w[j] : j \in 1..n}
    BY <1>1, Zenon DEF ToSet
  <2> HIDE DEF E
  <2>3. {ToSet(ss[j]) : j \in 1..n} = {E(w[j]) : j \in 1..n}
    BY <2>1, Zenon
  <2>4. {E(w[j]) : j \in 1..n} = {E(p) : p \in {w[j] : j \in 1..n}}
    BY Zenon
  <2>5. {ToSet(ss[j]) : j \in 1..n} = {E(p) : p \in ToSet(w)}
    BY <2>2, <2>3, <2>4, Zenon
  <2>6. QED
    BY <2>5, Zenon DEF E
<1>8. QED
  BY <1>5, <1>6, <1>7, Zenon DEF T, ReachedBy

\* They are worth what those of each are that reach.
LEMMA AllWorth ==
  ASSUME NEW g, NEW kind \in Kinds, NEW w \in Seq(DOMAIN g.players), NEW R,
         NEW V \in [Gifts(g, kind) -> Int]
  PROVE  Worth(EffectsOfAll(g, w, kind, R), V)
           = Worth(w, WorthOfEach(g, kind, R, V))
<1> DEFINE P == DOMAIN g.players
           T == Gifts(g, kind)
           n == Len(w)
           ss == [i \in DOMAIN w |-> Keep(EffectsOf(g, w[i], kind), R)]
           A == [s \in Seq(T) |-> Worth(s, V)]
           B == [p \in P |-> Worth(EffectsOf(g, p, kind), Within(T, R, V))]
<1>1. DOMAIN w = 1..n /\ n \in Nat /\ \A i \in 1..n : w[i] \in P
  OBVIOUS
<1>2. \A p \in P : /\ Keep(EffectsOf(g, p, kind), R) \in Seq(T)
                   /\ Worth(Keep(EffectsOf(g, p, kind), R), V) = B[p]
  <2> TAKE p \in P
  <2>1. EffectsOf(g, p, kind) \in Seq(T)
    BY EffectsType, Zenon
  <2>2. B[p] = Worth(EffectsOf(g, p, kind), Within(T, R, V))
    BY Zenon
  <2> DEFINE s == EffectsOf(g, p, kind)
  <2>3. V \in [T -> Int]
    OBVIOUS
  <2> HIDE DEF T, s
  <2>4. s \in Seq(T)
    BY <2>1 DEF s
  <2>5. Worth(Keep(s, R), V) = Worth(s, Within(T, R, V))
    BY <2>3, <2>4, WorthKeep
  <2>6. Keep(s, R) \in Seq(T)
    BY <2>4, KeepSet
  <2>7. QED
    BY <2>2, <2>5, <2>6, Zenon DEF s
<1>3. V \in [T -> Int]
  OBVIOUS
<1> HIDE DEF n, T, B
<1>4. ss \in Seq(Seq(T)) /\ Len(ss) = n
  <2> DEFINE Q == Seq(T)
  <2>1. \A i \in 1..n : Keep(EffectsOf(g, w[i], kind), R) \in Q
    BY <1>1, <1>2, Zenon
  <2> HIDE DEF Q
  <2>2. ss = [i \in 1..n |-> Keep(EffectsOf(g, w[i], kind), R)]
    BY <1>1, Zenon
  <2>3. ss \in [1..n -> Q]
    BY <2>1, <2>2, Zenon
  <2> HIDE DEF ss
  <2>4. ss \in Seq(Q) /\ Len(ss) = n
    BY <1>1, <2>3
  <2>5. QED
    BY <2>4, Zenon DEF Q
<1>5. \A i \in 1..n : A[ss[i]] = B[w[i]]
  BY <1>1, <1>2, Zenon
<1>6. EffectsOfAll(g, w, kind, R) = FlattenSeq(ss)
  BY Zenon DEF EffectsOfAll
<1> HIDE DEF ss
<1>7. Worth(FlattenSeq(ss), V) = Worth(ss, A)
  BY <1>3, <1>4, WorthFlatten, Zenon
<1>8. DOMAIN ss = 1..n
  <2> DEFINE Q == Seq(T)
  <2> HIDE DEF Q
  <2>1. ss \in Seq(Q) /\ Len(ss) = n
    BY <1>4, Zenon DEF Q
  <2>2. QED
    BY <2>1
<1> HIDE DEF A
<1>9. [i \in DOMAIN ss |-> A[ss[i]]] = [i \in DOMAIN w |-> B[w[i]]]
  BY <1>1, <1>5, <1>8, Zenon
<1>10. Worth(ss, A) = Worth(w, B)
  BY <1>9, Zenon DEF Worth
<1>11. QED
  BY <1>6, <1>7, <1>10, Zenon DEF B, T, WorthOfEach

-----------------------------------------------------------------------------
(* What a change of the game leaves of the effects.                        *)

\* Values stay integers.
LEMMA WithinType ==
  ASSUME NEW T, NEW R, NEW V \in [T -> Int]
  PROVE  Within(T, R, V) \in [T -> Int]
BY DEF Within

\* Only the empty sequence has no elements.
LEMMA EmptySet ==
  ASSUME NEW T, NEW s \in Seq(T), ToSet(s) = {}
  PROVE  s = <<>>
<1>1. DOMAIN s = 1..Len(s) /\ Len(s) \in Nat
  OBVIOUS
<1>2. \A i \in DOMAIN s : FALSE
  BY Zenon DEF ToSet
<1>3. Len(s) = 0
  <2>1. 1 \in 1..Len(s) \/ Len(s) = 0
    BY <1>1
  <2>2. QED
    BY <2>1, <1>1, <1>2, Zenon
<1>4. QED
  BY <1>3

\* Values count only where they reach.
LEMMA SameValues ==
  ASSUME NEW T, NEW s \in Seq(T), NEW R, NEW V, NEW V2,
         \A x \in ToSet(s) \cap R : V2[x] = V[x]
  PROVE  Worth(s, Within(T, R, V2)) = Worth(s, Within(T, R, V))
<1>1. \A i \in DOMAIN s : s[i] \in T /\ s[i] \in ToSet(s)
  BY DEF ToSet
<1>2. \A i \in DOMAIN s : Within(T, R, V2)[s[i]] = Within(T, R, V)[s[i]]
  BY <1>1, Zenon DEF Within
<1>3. [i \in DOMAIN s |-> Within(T, R, V2)[s[i]]]
        = [i \in DOMAIN s |-> Within(T, R, V)[s[i]]]
  BY <1>2, Zenon
<1>4. QED
  BY <1>3, Zenon DEF Worth

\* What does not reach is worth nothing.
LEMMA NoReach ==
  ASSUME NEW T, NEW s \in Seq(T), NEW R, NEW V \in [T -> Int],
         ToSet(s) \cap R = {}
  PROVE  Worth(s, Within(T, R, V)) = 0
<1>1. Keep(s, R) \in Seq(T) /\ ToSet(Keep(s, R)) = {}
  BY KeepSet
<1>2. Keep(s, R) = <<>>
  BY <1>1, EmptySet
<1>3. Worth(Keep(s, R), V) = Worth(s, Within(T, R, V))
  BY WorthKeep
<1>4. QED
  BY <1>2, <1>3, WorthEmpty

\* In both games each player gives the same, or nothing that reaches.
AlikeFor(g, g2, kind, R) ==
  /\ DOMAIN g2.players = DOMAIN g.players
  /\ \A p \in DOMAIN g.players :
       \/ EffectsOf(g2, p, kind) = EffectsOf(g, p, kind)
       \/ /\ ToSet(EffectsOf(g, p, kind)) \cap R = {}
          /\ ToSet(EffectsOf(g2, p, kind)) \cap R = {}

\* Then the same effects reach.
LEMMA SameReach ==
  ASSUME NEW g, NEW g2, NEW kind \in Kinds, NEW R, AlikeFor(g, g2, kind, R),
         NEW w \in Seq(DOMAIN g.players), NEW w2 \in Seq(DOMAIN g.players),
         ToSet(w2) = ToSet(w)
  PROVE  ToSet(EffectsOfAll(g2, w2, kind, R)) = ToSet(EffectsOfAll(g, w, kind, R))
<1> DEFINE E(p) == ToSet(EffectsOf(g, p, kind)) \cap R
           E2(p) == ToSet(EffectsOf(g2, p, kind)) \cap R
<1>1. \A p \in DOMAIN g.players : E2(p) = E(p)
  BY Zenon DEF AlikeFor
<1>2. ToSet(w) \subseteq DOMAIN g.players
  BY DEF ToSet
<1>3. DOMAIN g2.players = DOMAIN g.players
  BY Zenon DEF AlikeFor
<1>4. /\ ToSet(EffectsOfAll(g, w, kind, R)) = UNION {E(p) : p \in ToSet(w)}
      /\ ToSet(EffectsOfAll(g2, w2, kind, R)) = UNION {E2(p) : p \in ToSet(w2)}
  <2>1. ToSet(EffectsOfAll(g, w, kind, R)) = ReachedBy(g, ToSet(w), kind, R)
    BY AllType
  <2>2. w2 \in Seq(DOMAIN g2.players)
    BY <1>3, Zenon
  <2>3. ToSet(EffectsOfAll(g2, w2, kind, R)) = ReachedBy(g2, ToSet(w2), kind, R)
    BY <2>2, AllType
  <2>4. QED
    BY <2>1, <2>3, Zenon DEF ReachedBy
<1> HIDE DEF E, E2
<1>5. {E2(p) : p \in ToSet(w2)} = {E(p) : p \in ToSet(w)}
  BY <1>1, <1>2, Zenon
<1>6. QED
  BY <1>4, <1>5, Zenon

\* And they are worth the same in any order of the players, where each that
\* reaches is worth the same.
LEMMA SameWorth ==
  ASSUME NEW g, NEW g2, NEW kind \in Kinds, NEW R, AlikeFor(g, g2, kind, R),
         IsFiniteSet(DOMAIN g.players),
         NEW w \in SetToSeqs(DOMAIN g.players),
         NEW w2 \in SetToSeqs(DOMAIN g.players),
         NEW V \in [Gifts(g, kind) -> Int], NEW V2 \in [Gifts(g, kind) -> Int],
         \A p \in DOMAIN g.players :
           \A x \in ToSet(EffectsOf(g, p, kind)) \cap R : V2[x] = V[x]
  PROVE  Worth(EffectsOfAll(g2, w2, kind, R), V2)
           = Worth(EffectsOfAll(g, w, kind, R), V)
<1> DEFINE P == DOMAIN g.players
           T == Gifts(g, kind)
           n == Cardinality(P)
           B == [p \in P |-> Worth(EffectsOf(g, p, kind), Within(T, R, V))]
           B2 == [p \in P |-> Worth(EffectsOf(g2, p, kind), Within(T, R, V2))]
<1>1. /\ n \in Nat /\ w \in Walks(n, P) /\ w2 \in Walks(n, P)
      /\ w \in Seq(P) /\ w2 \in Seq(P)
  BY WalkOfPlayers, Zenon
<1>2. DOMAIN g2.players = P /\ Gifts(g2, kind) = T
  BY Zenon DEF AlikeFor, Gifts
<1>3. \A p \in P : EffectsOf(g, p, kind) \in Seq(T) /\ EffectsOf(g2, p, kind) \in Seq(T)
  BY <1>2, EffectsType, Zenon
<1>4. Within(T, R, V) \in [T -> Int] /\ Within(T, R, V2) \in [T -> Int]
  BY WithinType, Zenon
<1>5. /\ Worth(EffectsOfAll(g, w, kind, R), V) = Worth(w, B)
      /\ Worth(EffectsOfAll(g2, w2, kind, R), V2) = Worth(w2, B2)
  <2>1. Worth(EffectsOfAll(g, w, kind, R), V)
          = Worth(w, WorthOfEach(g, kind, R, V))
    BY <1>1, AllWorth
  <2>2. V2 \in [Gifts(g2, kind) -> Int] /\ w2 \in Seq(DOMAIN g2.players)
    BY <1>1, <1>2, Zenon
  <2>3. Worth(EffectsOfAll(g2, w2, kind, R), V2)
          = Worth(w2, WorthOfEach(g2, kind, R, V2))
    BY <2>2, AllWorth
  <2>4. QED
    BY <2>1, <2>3, <1>2, Zenon DEF WorthOfEach
<1> HIDE DEF T, n
<1>6. \A p \in P : B[p] \in Int
  <2> TAKE p \in P
  <2>1. Worth(EffectsOf(g, p, kind), Within(T, R, V)) \in Int
    BY <1>3, <1>4, WorthType, Zenon
  <2>2. QED
    BY <2>1, Zenon
<1>7. \A p \in P : B2[p] = B[p]
  <2> TAKE p \in P
  <2>1. CASE EffectsOf(g2, p, kind) = EffectsOf(g, p, kind)
    <3>1. Worth(EffectsOf(g, p, kind), Within(T, R, V2))
            = Worth(EffectsOf(g, p, kind), Within(T, R, V))
      <4> DEFINE s == EffectsOf(g, p, kind)
      <4>1. s \in Seq(T) /\ \A x \in ToSet(s) \cap R : V2[x] = V[x]
        BY <1>3, Zenon
      <4> HIDE DEF s
      <4>2. Worth(s, Within(T, R, V2)) = Worth(s, Within(T, R, V))
        BY <4>1, SameValues
      <4>3. QED
        BY <4>2, Zenon DEF s
    <3>2. QED
      BY <2>1, <3>1, Zenon
  <2>2. CASE /\ ToSet(EffectsOf(g, p, kind)) \cap R = {}
             /\ ToSet(EffectsOf(g2, p, kind)) \cap R = {}
    <3> DEFINE s == EffectsOf(g, p, kind)
               s2 == EffectsOf(g2, p, kind)
    <3>1. /\ s \in Seq(T) /\ s2 \in Seq(T)
          /\ ToSet(s) \cap R = {} /\ ToSet(s2) \cap R = {}
          /\ V \in [T -> Int] /\ V2 \in [T -> Int]
      BY <1>3, <2>2, Zenon DEF T
    <3> HIDE DEF s, s2
    <3>2. Worth(s, Within(T, R, V)) = 0
      BY <3>1, NoReach
    <3>3. Worth(s2, Within(T, R, V2)) = 0
      BY <3>1, NoReach
    <3>4. QED
      BY <3>2, <3>3, Zenon DEF s, s2
  <2>3. QED
    BY <2>1, <2>2, Zenon DEF AlikeFor
<1>8. B2 = B
  BY <1>7, Zenon
<1>9. B \in [P -> Int]
  BY <1>6, Zenon
<1> HIDE DEF B, B2, P
<1>10. Worth(w2, B) = Worth(w, B)
  BY <1>1, <1>9, WorthOfWalks, Zenon
<1>11. QED
  BY <1>5, <1>8, <1>10, Zenon

-----------------------------------------------------------------------------
(* Sums over the effects that reach a unit.                                *)

\* A member of an effect on units that is a number, or its default.
LEMMA FieldType ==
  ASSUME NEW g, NEW x \in Gifts(g, "unit")
  PROVE  /\ \A field \in Numbers : ValueOr(x.effect, field, 0) \in Int
         /\ \A field \in NumbersByName \cap DOMAIN x.effect :
              /\ IsFiniteSet(DOMAIN x.effect[field])
              /\ \A name \in DOMAIN x.effect[field] : x.effect[field][name] \in Int
<1>1. PICK n \in DOMAIN ModData.effects["unit"] :
        x.effect = ModData.effects["unit"][n]
  BY Zenon DEF Gifts
<1>2. QED
  BY <1>1, ModAssumption, Zenon

\* A share for a variant is a number.
LEMMA ShareByVariant ==
  ASSUME NEW g, NEW x \in Gifts(g, "unit"), NEW field \in NumbersByName,
         NEW variant
  PROVE  VariantShare(x.effect, field, variant) \in Int
<1>1. CASE field \in DOMAIN x.effect
  <2> DEFINE shares == x.effect[field]
  <2>1. \A name \in DOMAIN shares : shares[name] \in Int
    BY <1>1, FieldType, Zenon
  <2>2. VariantShare(x.effect, field, variant) = ValueOr(shares, variant, 0)
    BY <1>1, Zenon DEF VariantShare
  <2> HIDE DEF shares
  <2>3. 0 \in Int
    OBVIOUS
  <2>4. QED
    BY <2>1, <2>2, <2>3, Zenon DEF ValueOr
<1>2. CASE field \notin DOMAIN x.effect
  BY <1>2 DEF VariantShare
<1>3. QED
  BY <1>1, <1>2

\* The effects with some of the members that reach a unit.
Given(g, w, unit, members) ==
  EffectsOfAll(g, w, "unit", ReachingUnit(g, unit, members))

\* They are effects of the mod.
LEMMA GivenType ==
  ASSUME NEW g, IsFiniteSet(DOMAIN g.players),
         NEW w \in SetToSeqs(DOMAIN g.players), NEW unit, NEW members
  PROVE  /\ w \in Seq(DOMAIN g.players)
         /\ Given(g, w, unit, members) \in Seq(Gifts(g, "unit"))
<1>1. w \in Seq(DOMAIN g.players)
  BY WalkOfPlayers
<1>2. "unit" \in Kinds
  BY DEF Kinds
<1> DEFINE kind == "unit"
<1> HIDE DEF kind
<1>3. kind \in Kinds
  BY <1>2 DEF kind
<1>4. EffectsOfAll(g, w, kind, ReachingUnit(g, unit, members)) \in Seq(Gifts(g, kind))
  BY <1>1, <1>3, AllType
<1>5. QED
  BY <1>1, <1>4, Zenon DEF Given, kind

\* A sum over a sequence, with a function for what each element counts.
LEMMA SumIsWorth ==
  ASSUME NEW T, NEW s \in Seq(T), NEW V, NEW f,
         f = [i \in DOMAIN s |-> V[s[i]]]
  PROVE  Total(f) = Worth(s, V)
BY Zenon DEF Worth

FieldValues(g, field) ==
  [x \in Gifts(g, "unit") |-> ValueOr(x.effect, field, 0)]

\* The values of a member are integers.
LEMMA FieldValuesType ==
  ASSUME NEW g, NEW field \in Numbers
  PROVE  FieldValues(g, field) \in [Gifts(g, "unit") -> Int]
BY FieldType, Zenon DEF FieldValues

\* The elements of a sequence of T are in T.
LEMMA ElementsOf ==
  ASSUME NEW T, NEW s \in Seq(T)
  PROVE  \A i \in DOMAIN s : s[i] \in T
OBVIOUS

\* The fold of the calculator is the worth of the effects that reach.
LEMMA ModSumWorth ==
  ASSUME NEW g, IsFiniteSet(DOMAIN g.players),
         NEW w \in SetToSeqs(DOMAIN g.players), NEW unit, NEW fields,
         NEW field, NEW base
  PROVE  ModSum(g, w, unit, fields, field, base)
           = base + Worth(Given(g, w, unit, fields), FieldValues(g, field))
<1> DEFINE T == Gifts(g, "unit")
           given == Given(g, w, unit, fields)
           V == FieldValues(g, field)
           f == [i \in DOMAIN given |-> ValueOr(given[i].effect, field, 0)]
<1>1. given \in Seq(T)
  BY GivenType, Zenon
<1>2. getAllPassiveUnitEffects(g, w, unit, fields) = given
  BY Zenon DEF getAllPassiveUnitEffects, Given
<1>3. ModSum(g, w, unit, fields, field, base) = base + Total(f)
  BY <1>2, Zenon DEF ModSum
<1> HIDE DEF given
<1>4. \A i \in DOMAIN given : given[i] \in T
  BY <1>1, ElementsOf, Zenon
<1>5. \A i \in DOMAIN given : ValueOr(given[i].effect, field, 0) = V[given[i]]
  BY <1>4, Zenon DEF FieldValues
<1>6. f = [i \in DOMAIN given |-> V[given[i]]]
  BY <1>5, Zenon
<1>7. Total(f) = Worth(given, V)
  BY <1>6, Zenon DEF Worth
<1>8. QED
  BY <1>3, <1>7, Zenon DEF given

\* It is an integer.
LEMMA ModSumType ==
  ASSUME NEW g, IsFiniteSet(DOMAIN g.players),
         NEW w \in SetToSeqs(DOMAIN g.players), NEW unit, NEW fields,
         NEW field \in Numbers, NEW base \in Int
  PROVE  ModSum(g, w, unit, fields, field, base) \in Int
<1> DEFINE T == Gifts(g, "unit")
           given == Given(g, w, unit, fields)
           V == FieldValues(g, field)
           m == Worth(given, V)
<1>1. given \in Seq(T)
  BY GivenType, Zenon
<1>2. V \in [T -> Int]
  BY FieldValuesType, Zenon
<1>3. ModSum(g, w, unit, fields, field, base) = base + m
  BY ModSumWorth, Zenon
<1> HIDE DEF T, given, V
<1>4. m \in Int
  BY <1>1, <1>2, WorthType
<1> HIDE DEF m
<1>5. QED
  BY <1>3, <1>4

\* In both games the same effects reach the unit, or nothing of a player does.
AlikeAround(g, g2, unit, unit2) ==
  \A members :
    /\ ReachingUnit(g2, unit2, members) = ReachingUnit(g, unit, members)
    /\ AlikeFor(g, g2, "unit", ReachingUnit(g, unit, members))

\* Then the same effects reach it.
LEMMA SameElements ==
  ASSUME NEW g, NEW g2, NEW unit, NEW unit2, AlikeAround(g, g2, unit, unit2),
         IsFiniteSet(DOMAIN g.players),
         NEW w \in SetToSeqs(DOMAIN g.players),
         NEW w2 \in SetToSeqs(DOMAIN g.players), NEW members
  PROVE  /\ ToSet(Given(g2, w2, unit2, members))
              = ToSet(Given(g, w, unit, members))
         /\ Given(g2, w2, unit2, members) = <<>>
              <=> Given(g, w, unit, members) = <<>>
<1> DEFINE kind == "unit"
           R == ReachingUnit(g, unit, members)
<1>1. ReachingUnit(g2, unit2, members) = R /\ AlikeFor(g, g2, kind, R)
  BY Zenon DEF AlikeAround
<1>2. kind \in Kinds
  BY DEF Kinds
<1>3. DOMAIN g2.players = DOMAIN g.players /\ Gifts(g2, kind) = Gifts(g, kind)
  BY <1>1, Zenon DEF AlikeFor, Gifts
<1>4. /\ w \in Seq(DOMAIN g.players) /\ w2 \in Seq(DOMAIN g.players)
      /\ ToSet(w) = DOMAIN g.players /\ ToSet(w2) = DOMAIN g.players
  BY WalkOfPlayers, Zenon
<1>5. /\ Given(g2, w2, unit2, members) = EffectsOfAll(g2, w2, kind, R)
      /\ Given(g, w, unit, members) = EffectsOfAll(g, w, kind, R)
  BY <1>1, Zenon DEF Given
<1>6. /\ Given(g2, w2, unit2, members) \in Seq(Gifts(g, kind))
      /\ Given(g, w, unit, members) \in Seq(Gifts(g, kind))
  <2>1. Given(g, w, unit, members) \in Seq(Gifts(g, kind))
    BY GivenType, Zenon
  <2>2. IsFiniteSet(DOMAIN g2.players) /\ w2 \in SetToSeqs(DOMAIN g2.players)
    BY <1>3, Zenon
  <2>3. Given(g2, w2, unit2, members) \in Seq(Gifts(g2, kind))
    BY <2>2, GivenType, Zenon
  <2>4. QED
    BY <2>1, <2>3, <1>3, Zenon
<1> HIDE DEF kind, R
<1>7. ToSet(EffectsOfAll(g2, w2, kind, R)) = ToSet(EffectsOfAll(g, w, kind, R))
  BY <1>1, <1>2, <1>4, SameReach
<1> DEFINE a == Given(g, w, unit, members)
           b == Given(g2, w2, unit2, members)
           T == Gifts(g, kind)
<1>8. ToSet(b) = ToSet(a) /\ a \in Seq(T) /\ b \in Seq(T)
  BY <1>5, <1>6, <1>7, Zenon
<1> HIDE DEF a, b, T
<1>9. a = <<>> <=> b = <<>>
  <2>1. ToSet(<<>>) = {}
    BY DEF ToSet
  <2>2. a = <<>> => b = <<>>
    BY <2>1, <1>8, EmptySet
  <2>3. b = <<>> => a = <<>>
    BY <2>1, <1>8, EmptySet
  <2>4. QED
    BY <2>2, <2>3
<1>10. QED
  BY <1>5, <1>7, <1>9, Zenon DEF a, b

\* And they are worth the same, where each that counts is.
LEMMA SameGiven ==
  ASSUME NEW g, NEW g2, NEW unit, NEW unit2, AlikeAround(g, g2, unit, unit2),
         IsFiniteSet(DOMAIN g.players),
         NEW w \in SetToSeqs(DOMAIN g.players),
         NEW w2 \in SetToSeqs(DOMAIN g.players), NEW members,
         NEW V \in [Gifts(g, "unit") -> Int],
         NEW V2 \in [Gifts(g, "unit") -> Int],
         \A p \in DOMAIN g.players :
           \A x \in ToSet(EffectsOf(g, p, "unit"))
                      \cap ReachingUnit(g, unit, members) : V2[x] = V[x]
  PROVE  Worth(Given(g2, w2, unit2, members), V2)
           = Worth(Given(g, w, unit, members), V)
<1> DEFINE kind == "unit"
           R == ReachingUnit(g, unit, members)
<1>1. ReachingUnit(g2, unit2, members) = R /\ AlikeFor(g, g2, kind, R)
  BY Zenon DEF AlikeAround
<1>2. kind \in Kinds
  BY DEF Kinds
<1>3. /\ V \in [Gifts(g, kind) -> Int] /\ V2 \in [Gifts(g, kind) -> Int]
      /\ \A p \in DOMAIN g.players :
           \A x \in ToSet(EffectsOf(g, p, kind)) \cap R : V2[x] = V[x]
  BY Zenon
<1>4. /\ Given(g2, w2, unit2, members) = EffectsOfAll(g2, w2, kind, R)
      /\ Given(g, w, unit, members) = EffectsOfAll(g, w, kind, R)
  BY <1>1, Zenon DEF Given
<1> HIDE DEF kind, R
<1>5. Worth(EffectsOfAll(g2, w2, kind, R), V2) = Worth(EffectsOfAll(g, w, kind, R), V)
  BY <1>1, <1>2, <1>3, SameWorth
<1>6. QED
  BY <1>4, <1>5, Zenon

\* So a sum over one of its members is the same.
LEMMA SameModSum ==
  ASSUME NEW g, NEW g2, NEW unit, NEW unit2, AlikeAround(g, g2, unit, unit2),
         IsFiniteSet(DOMAIN g.players),
         NEW w \in SetToSeqs(DOMAIN g.players),
         NEW w2 \in SetToSeqs(DOMAIN g.players), NEW fields,
         NEW field \in Numbers, NEW base
  PROVE  ModSum(g2, w2, unit2, fields, field, base)
           = ModSum(g, w, unit, fields, field, base)
<1> DEFINE V == FieldValues(g, field)
           T == Gifts(g, "unit")
<1>1. DOMAIN g2.players = DOMAIN g.players
  BY Zenon DEF AlikeAround, AlikeFor
<1>2. FieldValues(g2, field) = V
  BY <1>1, Zenon DEF FieldValues, Gifts
<1>3. V \in [T -> Int]
  BY FieldValuesType, Zenon
<1>4. ModSum(g, w, unit, fields, field, base) = base + Worth(Given(g, w, unit, fields), V)
  BY ModSumWorth
<1>5. ModSum(g2, w2, unit2, fields, field, base) = base + Worth(Given(g2, w2, unit2, fields), V)
  <2>1. IsFiniteSet(DOMAIN g2.players) /\ w2 \in SetToSeqs(DOMAIN g2.players)
    BY <1>1, Zenon
  <2>2. ModSum(g2, w2, unit2, fields, field, base)
          = base + Worth(Given(g2, w2, unit2, fields), FieldValues(g2, field))
    BY <2>1, ModSumWorth
  <2>3. QED
    BY <2>2, <1>2, Zenon
<1> HIDE DEF V
<1>6. Worth(Given(g2, w2, unit2, fields), V) = Worth(Given(g, w, unit, fields), V)
  BY <1>3, SameGiven
<1>7. QED
  BY <1>4, <1>5, <1>6, Zenon

-----------------------------------------------------------------------------
(* What alliances, and with them what reaches, depend on.                  *)

SameTeams(g, g2) ==
  /\ DOMAIN g2.players = DOMAIN g.players
  /\ \A p \in DOMAIN g.players :
       ValueOr(g2.players[p], "team", NoPlayer)
         = ValueOr(g.players[p], "team", NoPlayer)

\* Where the teams are the same, so are the alliances.
LEMMA SameAlliance ==
  ASSUME NEW g, NEW g2, SameTeams(g, g2),
         NEW a \in DOMAIN g.players \cup {NoPlayer},
         NEW b \in DOMAIN g.players \cup {NoPlayer}
  PROVE  getAlliance(g2, a, b) = getAlliance(g, a, b)
<1>1. CASE a = NoPlayer \/ b = NoPlayer
  BY <1>1, Zenon DEF getAlliance
<1>2. CASE a # NoPlayer /\ b # NoPlayer
  <2>1. /\ ValueOr(g2.players[a], "team", NoPlayer)
             = ValueOr(g.players[a], "team", NoPlayer)
        /\ ValueOr(g2.players[b], "team", NoPlayer)
             = ValueOr(g.players[b], "team", NoPlayer)
    BY <1>2, Zenon DEF SameTeams
  <2>2. QED
    BY <2>1, Zenon DEF getAlliance
<1>3. QED
  BY <1>1, <1>2

\* An owner that is found is a player.
LEMMA OwnerIsPlayer ==
  ASSUME NEW g, NEW thing
  PROVE  OwnerOf(g, thing) \in DOMAIN g.players \cup {NoPlayer}
BY Zenon DEF OwnerOf

\* What reaches a unit depends on its name, on its owner, on the terrain that
\* it stands on and on the teams.
LEMMA SameReachingUnit ==
  ASSUME NEW g, NEW g2, SameTeams(g, g2), NEW unit, NEW unit2,
         unit2.name = unit.name, OwnerOf(g2, unit2) = OwnerOf(g, unit),
         TerrainUnder(g2, unit2) = TerrainUnder(g, unit), NEW members
  PROVE  ReachingUnit(g2, unit2, members) = ReachingUnit(g, unit, members)
<1> DEFINE owner == OwnerOf(g, unit)
           T == Gifts(g, "unit")
           A(x) == getAlliance(g, x.giver, owner)
           C(x, alliance) ==
             /\ alliance # "NEUTRAL"
             /\ Names(x.effect, "targets", alliance)
             /\ unitMatchesEffect(unit, TerrainUnder(g, unit), x.effect)
             /\ DOMAIN x.effect \cap members # {}
<1>1. \A x \in T : getAlliance(g2, x.giver, owner) = A(x)
  <2> TAKE x \in T
  <2>1. x.giver \in DOMAIN g.players \cup {NoPlayer}
    BY Zenon DEF Gifts
  <2>2. owner \in DOMAIN g.players \cup {NoPlayer}
    BY OwnerIsPlayer, Zenon
  <2> HIDE DEF owner
  <2>3. QED
    BY <2>1, <2>2, SameAlliance, Zenon
<1>2. Gifts(g2, "unit") = T
  BY Zenon DEF Gifts, SameTeams
<1>3. \A x : unitMatchesEffect(unit2, TerrainUnder(g, unit), x.effect)
               = unitMatchesEffect(unit, TerrainUnder(g, unit), x.effect)
  BY Zenon DEF unitMatchesEffect
<1>4. ReachingUnit(g, unit, members) = {x \in T : C(x, A(x))}
  BY Zenon DEF ReachingUnit
<1>5. ReachingUnit(g2, unit2, members)
        = {x \in T : C(x, getAlliance(g2, x.giver, owner))}
  BY <1>2, <1>3, Zenon DEF ReachingUnit
<1> HIDE DEF C, A, T
<1>6. {x \in T : C(x, getAlliance(g2, x.giver, owner))} = {x \in T : C(x, A(x))}
  BY <1>1, Zenon
<1>7. QED
  BY <1>4, <1>5, <1>6, Zenon

\* Players of whom nothing has changed give what they gave.
LEMMA SameEffects ==
  ASSUME NEW g, NEW g2, NEW p, NEW kind, g2.players[p] = g.players[p],
         g2.coPowers = g.coPowers
  PROVE  EffectsOf(g2, p, kind) = EffectsOf(g, p, kind)
BY Zenon DEF EffectsOf

-----------------------------------------------------------------------------
(* Damage never helps a capture.                                           *)

\* Hit points counted in tens are natural numbers.
LEMMA HitPointsType ==
  ASSUME NEW unit, IsUnit(unit)
  PROVE  UnitHitPoints(unit) \in Nat
<1> DEFINE h == ValueOr(unit, "hitPoints", 100)
<1>1. h \in Nat
  BY DEF IsUnit
<1>2. UnitHitPoints(unit) = -(10 * ((-h) \div 10))
  BY DEF UnitHitPoints, flatHitPoints
<1> HIDE DEF h
<1>3. QED
  BY <1>1, <1>2

\* Fewer hit points yield a smaller product, or one that is not positive.
LEMMA ProductsGrow ==
  ASSUME NEW rate \in Int, NEW a \in Nat, NEW b \in Nat, a <= b
  PROVE  rate * a <= rate * b \/ rate * a <= 0
<1>1. CASE rate >= 0
  <2>1. rate * (b - a) >= 0
    BY <1>1
  <2>2. rate * (b - a) = rate * b - rate * a
    OBVIOUS
  <2>3. rate * a \in Int /\ rate * b \in Int
    OBVIOUS
  <2>4. QED
    BY <2>1, <2>2, <2>3
<1>2. CASE rate < 0
  BY <1>2
<1>3. QED
  BY <1>1, <1>2

CapturePoints(product) == Larger(0, Quotient(product, 10000))

\* A smaller product never yields more points.
LEMMA PointsGrow ==
  ASSUME NEW x \in Int, NEW y \in Int, x <= y \/ x <= 0
  PROVE  CapturePoints(x) <= CapturePoints(y)
BY DEF Larger, Quotient, CapturePoints

\* The capture points, as a product and a division.
LEMMA CaptureUnfold ==
  ASSUME NEW g, NEW w, NEW unit
  PROVE  calculateUnitCapturePoints(g, w, unit)
           = IF unit.name \in DOMAIN ModData.units
             THEN CapturePoints(
                    ModSum(g, w, unit, {"captureRateMod"}, "captureRateMod", 100)
                      * ValueOr(TypeOf(unit), "captureSpeed", 0)
                      * UnitHitPoints(unit))
             ELSE Throws
BY DEF calculateUnitCapturePoints, Asked, CapturePoints

\* Where only a unit's hit points are set, the same effects reach it.
LEMMA DamageAround ==
  ASSUME NEW g, IsGame(g), NEW u \in DOMAIN g.units, NEW after,
         AlikeBut("hitPoints", g.units[u], after), "name" \in DOMAIN after,
         NEW g2, g2 = [g EXCEPT !.units[u] = after]
  PROVE  AlikeAround(g, g2, g.units[u], after)
<1> DEFINE unit == g.units[u]
           q == [g.units EXCEPT ![u] = after]
<1>1. "units" \in DOMAIN g
  BY DEF IsGame
<1>2. g2 = [g EXCEPT !["units"] = q]
  BY Zenon
<1> HIDE DEF q
<1>3. \A f \in DOMAIN g \ {"units"} : g2[f] = g[f]
  BY <1>1, <1>2, Placing, Zenon
<1>4. /\ g2.players = g.players /\ g2.coPowers = g.coPowers
      /\ g2.terrains = g.terrains
  BY <1>3 DEF IsGame
<1>5. /\ "name" \in DOMAIN unit /\ "place" \in DOMAIN unit
  BY DEF IsGame, IsUnit
<1> HIDE DEF unit
<1>6. AlikeBut("hitPoints", unit, after)
  BY DEF unit
<1>7. /\ after.name = unit.name /\ after.place = unit.place
      /\ ValueOr(after, "owner", NoPlayer) = ValueOr(unit, "owner", NoPlayer)
  BY <1>5, <1>6 DEF AlikeBut, ValueOr
<1>8. SameTeams(g, g2)
  BY <1>4, Zenon DEF SameTeams
<1>9. OwnerOf(g2, after) = OwnerOf(g, unit)
  BY <1>4, <1>7, Zenon DEF OwnerOf
<1>10. TerrainUnder(g2, after) = TerrainUnder(g, unit)
  BY <1>4, <1>7 DEF TerrainUnder
<1>11. \A p, kind : EffectsOf(g2, p, kind) = EffectsOf(g, p, kind)
  <2> TAKE p, kind
  <2>1. QED
    BY <1>4, Zenon DEF EffectsOf
<1>12. \A members :
         ReachingUnit(g2, after, members) = ReachingUnit(g, unit, members)
  BY <1>7, <1>8, <1>9, <1>10, SameReachingUnit
<1>13. QED
  BY <1>4, <1>11, <1>12, Zenon DEF AlikeAround, AlikeFor, unit

\* No step that sets hit points lower makes a unit capture faster.
LEMMA DamagedSlower == TypeOK /\ TypeOK' => DamageStep
<1> SUFFICES ASSUME TypeOK, TypeOK', NEW u \in DOMAIN game.units,
                    game' = [game EXCEPT !.units[u] = game'.units[u]],
                    AlikeBut("hitPoints", game.units[u], game'.units[u]),
                    UnitHitPoints(game'.units[u]) <= UnitHitPoints(game.units[u]),
                    calculateUnitCapturePoints(game, walk, game.units[u]) # Throws
             PROVE  calculateUnitCapturePoints(game', walk', game'.units[u])
                      <= calculateUnitCapturePoints(game, walk, game.units[u])
  BY Zenon DEF DamageStep
<1> DEFINE unit == game.units[u]
           after == game'.units[u]
           fields == {"captureRateMod"}
           rate == ModSum(game, walk, unit, fields, "captureRateMod", 100)
           rate2 == ModSum(game', walk', after, fields, "captureRateMod", 100)
           speed == ValueOr(TypeOf(unit), "captureSpeed", 0)
           a == UnitHitPoints(after)
           b == UnitHitPoints(unit)
<1>1. /\ IsGame(game) /\ IsGame(game') /\ walk \in SetToSeqs(DOMAIN game.players)
      /\ walk' \in SetToSeqs(DOMAIN game'.players)
  BY Zenon DEF TypeOK
<1>2. "units" \in DOMAIN game /\ u \in DOMAIN game'.units
  <2>1. "units" \in DOMAIN game
    BY <1>1 DEF IsGame
  <2>2. QED
    BY <2>1
<1>3. game'.players = game.players
  <2>1. "players" \in DOMAIN game
    BY <1>1 DEF IsGame
  <2>2. QED
    BY <2>1
<1>4. IsUnit(unit) /\ IsUnit(after)
  BY <1>1, <1>2, Zenon DEF IsGame
<1>5. "name" \in DOMAIN unit /\ "name" \in DOMAIN after
  BY <1>4, Zenon DEF IsUnit
<1>6. after.name = unit.name
  BY <1>5 DEF AlikeBut
<1>7. AlikeAround(game, game', unit, after)
  <2> HIDE DEF after
  <2>1. game' = [game EXCEPT !.units[u] = after]
    BY Zenon DEF after
  <2>2. AlikeBut("hitPoints", game.units[u], after)
    BY Zenon DEF after
  <2>3. QED
    BY <1>1, <1>5, <2>1, <2>2, DamageAround
<1>8. IsFiniteSet(DOMAIN game.players) /\ "captureRateMod" \in Numbers
  BY <1>1 DEF IsGame, Numbers
<1>9. unit.name \in DOMAIN ModData.units
  BY CaptureUnfold, Zenon
<1>10. speed \in Int /\ ValueOr(TypeOf(after), "captureSpeed", 0) = speed
  BY <1>6, <1>9, ModAssumption, Zenon DEF TypeOf
<1>11. a \in Nat /\ b \in Nat /\ a <= b
  BY <1>4, HitPointsType, Zenon
<1>12. /\ calculateUnitCapturePoints(game, walk, unit)
            = CapturePoints(rate * speed * b)
       /\ calculateUnitCapturePoints(game', walk', after)
            = CapturePoints(rate2 * speed * a)
  <2>1. calculateUnitCapturePoints(game, walk, unit)
          = CapturePoints(rate * speed * b)
    BY <1>9, CaptureUnfold
  <2>2. calculateUnitCapturePoints(game', walk', after)
          = CapturePoints(rate2 * ValueOr(TypeOf(after), "captureSpeed", 0) * a)
    BY <1>6, <1>9, CaptureUnfold
  <2> HIDE DEF rate, rate2, speed, a, b
  <2>3. QED
    BY <1>10, <2>1, <2>2, Zenon
<1> HIDE DEF unit, after, fields, speed, a, b
<1>13. rate2 = rate
  BY <1>1, <1>3, <1>7, <1>8, SameModSum
<1>14. rate \in Int
  BY <1>1, <1>8, ModSumType
<1> HIDE DEF rate, rate2
<1> DEFINE k == rate * speed
<1>15. k \in Int
  BY <1>10, <1>14
<1> HIDE DEF k
<1>16. k * a <= k * b \/ k * a <= 0
  BY <1>11, <1>15, ProductsGrow
<1>17. k * a \in Int /\ k * b \in Int
  BY <1>11, <1>15
<1>18. CapturePoints(k * a) <= CapturePoints(k * b)
  <2> DEFINE x == k * a
             y == k * b
  <2>1. x \in Int /\ y \in Int /\ (x <= y \/ x <= 0)
    BY <1>16, <1>17
  <2> HIDE DEF x, y
  <2>2. CapturePoints(x) <= CapturePoints(y)
    BY <2>1, PointsGrow
  <2>3. QED
    BY <2>2, Zenon DEF x, y
<1>19. QED
  BY <1>12, <1>13, <1>18, Zenon DEF k, unit, after

\* A unit that is damaged never captures faster than before, whatever the mod
\* and whatever effects reach it.
THEOREM DamageNeverHelps == Spec => DamageNeverHelpsCapture
<1>1. QED
  BY Typed, DamagedSlower, PTL DEF DamageNeverHelpsCapture

-----------------------------------------------------------------------------
(* The share of an effect in firepower or defense.                         *)

IsSide(side) ==
  /\ {side.mod, side.extra, side.stars, side.flat, side.funds} \subseteq Numbers
  /\ {side.variantMods, side.terrain} \subseteq NumbersByName

\* The sides of a battle are records of members of effects.
LEMMA SidesType ==
  ASSUME NEW b \in BOOLEAN
  PROVE  IsSide(FirepowerSide(b)) /\ IsSide(DefenseSide(b))
BY DEF IsSide, FirepowerSide, DefenseSide, Numbers, NumbersByName

\* A division that truncates is an integer.
LEMMA QuotientType ==
  ASSUME NEW a \in Int, NEW b \in Nat, b # 0
  PROVE  Quotient(a, b) \in Int
BY DEF Quotient

\* The elements of a finite set, one after the other.
LEMMA SetToSeqType ==
  ASSUME NEW S, IsFiniteSet(S)
  PROVE  SetToSeq(S) \in Seq(S) /\ ToSet(SetToSeq(S)) = S
<1> DEFINE n == Cardinality(S)
           D == 1..n
<1>1. n \in Nat /\ ExistsBijection(D, S)
  BY FS_CardinalityType
<1>2. PICK f \in Bijection(D, S) : TRUE
  BY <1>1 DEF ExistsBijection
<1>3. f \in [D -> S] /\ IsInjective(f)
  BY <1>2 DEF Bijection, Injection
<1>4. SetToSeq(S) \in [D -> S] /\ IsInjective(SetToSeq(S))
  BY <1>3, Zenon DEF SetToSeq
<1> DEFINE s == SetToSeq(S)
<1>5. Cardinality(D) = n
  BY <1>1, FS_Interval
<1> HIDE DEF s
<1>6. s \in Injection(D, S)
  BY <1>4, Zenon DEF Injection, s
<1>7. s \in Surjection(D, S)
  BY <1>5, <1>6, FS_Injection
<1>8. ToSet(s) = S
  BY <1>7 DEF Surjection, ToSet
<1>9. s \in Seq(S)
  BY <1>1, <1>4 DEF s
<1>10. QED
  BY <1>8, <1>9, Zenon DEF s

\* A count of terrains is a natural number.
LEMMA CountType ==
  ASSUME NEW g, IsFiniteSet(DOMAIN g.terrains), NEW p, NEW name
  PROVE  countTerrainsOwnedByPlayer(g, p, name) \in Nat
<1> DEFINE S == {place \in DOMAIN g.terrains :
                   /\ g.terrains[place].name = name
                   /\ ValueOr(g.terrains[place], "owner", NoPlayer) = p}
<1>1. S \subseteq DOMAIN g.terrains
  OBVIOUS
<1> HIDE DEF S
<1>2. Cardinality(S) \in Nat
  BY <1>1, FS_Subset, FS_CardinalityType
<1>3. QED
  BY <1>2, Zenon DEF countTerrainsOwnedByPlayer, S

\* The part of a share that counts terrains is an integer.
LEMMA FromTerrainsType ==
  ASSUME NEW g, IsGame(g), NEW side, IsSide(side), NEW x \in Gifts(g, "unit")
  PROVE  FromTerrains(g, side, x) \in Int
<1> DEFINE mods == ValueOr(x.effect, side.terrain, <<>>)
           names == SetToSeq(DOMAIN mods)
           count(name) == countTerrainsOwnedByPlayer(g, x.giver, name)
           f == [i \in DOMAIN names |-> mods[names[i]] * count(names[i])]
<1>1. IsFiniteSet(DOMAIN mods) /\ \A name \in DOMAIN mods : mods[name] \in Int
  <2>1. CASE side.terrain \in DOMAIN x.effect
    <3>1. side.terrain \in NumbersByName \cap DOMAIN x.effect
      BY <2>1 DEF IsSide
    <3>2. mods = x.effect[side.terrain]
      BY <2>1, Zenon DEF ValueOr
    <3> HIDE DEF mods
    <3>3. QED
      BY <3>1, <3>2, FieldType, Zenon
  <2>2. CASE side.terrain \notin DOMAIN x.effect
    <3>1. mods = <<>>
      BY <2>2, Zenon DEF ValueOr
    <3>2. DOMAIN mods = {}
      BY <3>1
    <3> HIDE DEF mods
    <3>3. IsFiniteSet({})
      BY FS_EmptySet
    <3>4. QED
      BY <3>2, <3>3, Zenon
  <2>3. QED
    BY <2>1, <2>2, Zenon
<1>2. FromTerrains(g, side, x) = Total(f)
  BY Zenon DEF FromTerrains
<1> DEFINE D == DOMAIN mods
<1> HIDE DEF mods
<1>3. names \in Seq(D)
  BY <1>1, SetToSeqType, Zenon
<1> HIDE DEF names
<1>4. \A i \in DOMAIN names : names[i] \in D
  <2> HIDE DEF D
  <2>1. QED
    BY <1>3, ElementsOf, Zenon
<1>5. \A name : count(name) \in Nat
  BY CountType, Zenon DEF IsGame
<1> HIDE DEF count
<1>6. \A i \in DOMAIN names : mods[names[i]] * count(names[i]) \in Int
  <2> TAKE i \in DOMAIN names
  <2> DEFINE a == mods[names[i]]
             b == count(names[i])
  <2>1. a \in Int /\ b \in Nat
    BY <1>1, <1>4, <1>5, Zenon
  <2> HIDE DEF a, b
  <2>2. a * b \in Int
    BY <2>1
  <2>3. QED
    BY <2>2, Zenon DEF a, b
<1>7. DOMAIN names = 1..Len(names) /\ Len(names) \in Nat
  <2> HIDE DEF D
  <2>1. QED
    BY <1>3
<1> DEFINE n == Len(names)
           c(i) == mods[names[i]] * count(names[i])
<1>8. f = [i \in 1..n |-> c(i)] /\ n \in Nat /\ \A i \in 1..n : c(i) \in Int
  BY <1>6, <1>7, Zenon
<1> HIDE DEF f, n, c
<1>9. f \in Seq(Int)
  BY <1>8
<1>10. QED
  BY <1>2, <1>9, TotalType, Zenon

\* So is the part that counts funds.
LEMMA FromFundsType ==
  ASSUME NEW g, IsGame(g), NEW side, IsSide(side), NEW x \in Gifts(g, "unit")
  PROVE  FromFunds(g, side, x) \in Int
<1> DEFINE a == ValueOr(x.effect, side.funds, 0)
           b == g.players[x.giver].funds
<1>1. a \in Int
  BY FieldType, Zenon DEF IsSide
<1>2. b \in Int
  <2>1. x.giver \in DOMAIN g.players
    BY Zenon DEF Gifts
  <2>2. QED
    BY <2>1, Zenon DEF IsGame, IsPlayer
<1> HIDE DEF a, b
<1>3. a * b \in Int
  BY <1>1, <1>2
<1>4. Quotient(a * b, 1000) \in Int
  BY <1>3, QuotientType
<1>5. FromFunds(g, side, x) = Quotient(a * b, 1000)
  BY DEF FromFunds, a, b
<1>6. QED
  BY <1>4, <1>5

\* So is the part that counts stars.
LEMMA FromStarsType ==
  ASSUME NEW g, NEW side, IsSide(side), NEW x \in Gifts(g, "unit"),
         NEW unit, IsUnit(unit), NEW stars \in Int
  PROVE  FromStars(side, unit, stars, x) \in Int
<1> DEFINE a == ValueOr(x.effect, side.stars, 0)
           b == ValueOr(x.effect, side.flat, 0)
           h == UnitHitPoints(unit)
           share == a * stars + b
<1>1. a \in Int /\ b \in Int
  BY FieldType, Zenon DEF IsSide
<1>2. h \in Nat
  BY HitPointsType, Zenon
<1>3. FromStars(side, unit, stars, x)
        = IF ValueOr(ModData.config, side.scales, FALSE)
          THEN Quotient(share * h, 100) ELSE share
  BY DEF FromStars
<1> HIDE DEF a, b, h
<1>4. share \in Int
  BY <1>1
<1> HIDE DEF share
<1>5. share * h \in Int
  BY <1>2, <1>4
<1>6. Quotient(share * h, 100) \in Int
  BY <1>5, QuotientType
<1>7. QED
  BY <1>3, <1>4, <1>6

\* And so is the share.
LEMMA ShareType ==
  ASSUME NEW g, IsGame(g), NEW side, IsSide(side), NEW x \in Gifts(g, "unit"),
         NEW unit, IsUnit(unit), NEW stars \in Int, NEW variant
  PROVE  Share(g, unit, side, variant, stars, x) \in Int
<1> DEFINE a == ValueOr(x.effect, side.mod, 0)
           b == VariantShare(x.effect, side.variantMods, variant)
           c == IF side.useExtra THEN ValueOr(x.effect, side.extra, 0) ELSE 0
           d == FromStars(side, unit, stars, x)
           e == FromTerrains(g, side, x)
           f == FromFunds(g, side, x)
<1>1. a \in Int /\ ValueOr(x.effect, side.extra, 0) \in Int
  BY FieldType, Zenon DEF IsSide
<1>2. b \in Int
  <2>1. side.variantMods \in NumbersByName
    BY DEF IsSide
  <2>2. QED
    BY <2>1, ShareByVariant
<1>3. c \in Int
  BY <1>1
<1>4. d \in Int /\ e \in Int /\ f \in Int
  BY FromStarsType, FromTerrainsType, FromFundsType, Zenon
<1>5. Share(g, unit, side, variant, stars, x) = a + b + c + d + e + f
  BY Zenon DEF Share
<1> HIDE DEF a, b, c, d, e, f
<1>6. QED
  BY <1>1, <1>2, <1>3, <1>4, <1>5

\* The stars of a terrain are an integer where they do not throw.
LEMMA StarsType ==
  ASSUME NEW g, IsGame(g), NEW w \in SetToSeqs(DOMAIN g.players), NEW unit,
         calculateUnitTerrainStars(g, w, unit) # Throws
  PROVE  calculateUnitTerrainStars(g, w, unit) \in Int
<1> DEFINE name == TerrainUnder(g, unit)
           fields == {"terrainStarsMod", "terrainStarsFlatMod"}
           a == ModSum(g, w, unit, fields, "terrainStarsFlatMod",
                       ModData.terrains[name].stars)
           b == ModSum(g, w, unit, fields, "terrainStarsMod", 0)
           stars == Quotient(a * b, 100)
<1>1. calculateUnitTerrainStars(g, w, unit)
        = IF unit.name \in DOMAIN ModData.units
          THEN IF name \notin DOMAIN ModData.terrains THEN Throws
               ELSE Larger(ValueOr(ModData.config, "minTerrainStars", stars), stars)
          ELSE Throws
  BY DEF calculateUnitTerrainStars, Asked
<1>2. name \in DOMAIN ModData.terrains
  BY <1>1
<1>3. ModData.terrains[name].stars \in Int
  BY <1>2, ModAssumption, Zenon
<1>4. "terrainStarsFlatMod" \in Numbers /\ "terrainStarsMod" \in Numbers
  BY DEF Numbers
<1>5. IsFiniteSet(DOMAIN g.players)
  BY DEF IsGame
<1>6. a \in Int /\ b \in Int
  <2>1. 0 \in Int
    OBVIOUS
  <2>2. QED
    BY <1>3, <1>4, <1>5, <2>1, ModSumType, Zenon
<1>7. calculateUnitTerrainStars(g, w, unit)
        = Larger(ValueOr(ModData.config, "minTerrainStars", stars), stars)
  BY <1>1
<1> HIDE DEF a, b
<1>8. a * b \in Int
  BY <1>6
<1>9. stars \in Int
  BY <1>8, QuotientType
<1> HIDE DEF stars
<1>10. ValueOr(ModData.config, "minTerrainStars", stars) \in Int
  BY <1>9, ModAssumption, Zenon DEF ValueOr
<1>11. QED
  BY <1>7, <1>9, <1>10 DEF Larger

-----------------------------------------------------------------------------
(* The answers about a unit that no change of its game has touched.        *)

\* What a player's effects may be multiplied by is the same.
SameMeans(g, g2, p) ==
  /\ g2.players[p].funds = g.players[p].funds
  /\ \A name : countTerrainsOwnedByPlayer(g2, p, name)
                 = countTerrainsOwnedByPlayer(g, p, name)

\* Everything that the answers about a unit depend on is the same.
SameAround(g, g2, unit) ==
  /\ AlikeAround(g, g2, unit, unit)
  /\ SameTeams(g, g2)
  /\ TerrainUnder(g2, unit) = TerrainUnder(g, unit)
  /\ getCurrentVariant(g2) = getCurrentVariant(g)
  /\ \A p \in DOMAIN g.players :
       \/ SameMeans(g, g2, p)
       \/ \A members : ToSet(EffectsOf(g, p, "unit"))
                         \cap ReachingUnit(g, unit, members) = {}

\* The giver of an effect is a player.
LEMMA GiftsGiver ==
  ASSUME NEW g, NEW p \in DOMAIN g.players
  PROVE  \A x \in ToSet(EffectsOf(g, p, "unit")) :
           x \in Gifts(g, "unit") /\ x.giver = p
<1> DEFINE kind == "unit"
<1>1. kind \in Kinds
  BY DEF Kinds
<1> HIDE DEF kind
<1>2. /\ EffectsOf(g, p, kind) \in Seq(Gifts(g, kind))
      /\ ToSet(EffectsOf(g, p, kind)) = GiftsOf(g, p, kind)
  BY <1>1, EffectsType
<1>3. ASSUME NEW x \in ToSet(EffectsOf(g, p, kind)) PROVE x.giver = p
  <2>1. PICK name : x = [effect |-> ModData.effects[kind][name], giver |-> p]
    BY <1>2, Zenon DEF GiftsOf
  <2>2. QED
    BY <2>1
<1>4. \A x \in ToSet(EffectsOf(g, p, kind)) : x \in Gifts(g, kind)
  BY <1>2, ElementsOf, Zenon DEF ToSet
<1>5. QED
  BY <1>3, <1>4, Zenon DEF kind

\* An effect that reaches has the share it had.
LEMMA SameShare ==
  ASSUME NEW g, NEW g2, NEW side, NEW unit, NEW variant, NEW stars,
         NEW x, SameMeans(g, g2, x.giver)
  PROVE  Share(g2, unit, side, variant, stars, x)
           = Share(g, unit, side, variant, stars, x)
<1>1. FromFunds(g2, side, x) = FromFunds(g, side, x)
  BY DEF FromFunds, SameMeans
<1>2. FromTerrains(g2, side, x) = FromTerrains(g, side, x)
  <2> DEFINE mods == ValueOr(x.effect, side.terrain, <<>>)
             names == SetToSeq(DOMAIN mods)
             c(name) == countTerrainsOwnedByPlayer(g, x.giver, name)
             c2(name) == countTerrainsOwnedByPlayer(g2, x.giver, name)
  <2>1. FromTerrains(g, side, x)
          = Total([i \in DOMAIN names |-> mods[names[i]] * c(names[i])])
    BY Zenon DEF FromTerrains
  <2>2. FromTerrains(g2, side, x)
          = Total([i \in DOMAIN names |-> mods[names[i]] * c2(names[i])])
    BY Zenon DEF FromTerrains
  <2>3. \A name : c2(name) = c(name)
    BY Zenon DEF SameMeans
  <2> HIDE DEF c, c2, names, mods
  <2>4. [i \in DOMAIN names |-> mods[names[i]] * c2(names[i])]
          = [i \in DOMAIN names |-> mods[names[i]] * c(names[i])]
    BY <2>3, Zenon
  <2>5. QED
    BY <2>1, <2>2, <2>4, Zenon
<1>3. QED
  BY <1>1, <1>2, Zenon DEF Share

\* The stars of the terrain under the unit are the same.
LEMMA SameStars ==
  ASSUME NEW g, NEW g2, IsGame(g), NEW w \in SetToSeqs(DOMAIN g.players),
         NEW w2 \in SetToSeqs(DOMAIN g.players), NEW unit,
         SameAround(g, g2, unit)
  PROVE  calculateUnitTerrainStars(g2, w2, unit)
           = calculateUnitTerrainStars(g, w, unit)
<1> DEFINE name == TerrainUnder(g, unit)
           fields == {"terrainStarsMod", "terrainStarsFlatMod"}
           base == ModData.terrains[name].stars
<1>1. /\ AlikeAround(g, g2, unit, unit) /\ IsFiniteSet(DOMAIN g.players)
      /\ TerrainUnder(g2, unit) = name
  BY Zenon DEF SameAround, IsGame
<1>2. "terrainStarsFlatMod" \in Numbers /\ "terrainStarsMod" \in Numbers
  BY DEF Numbers
<1> HIDE DEF name, fields, base
<1>3. ModSum(g2, w2, unit, fields, "terrainStarsFlatMod", base)
        = ModSum(g, w, unit, fields, "terrainStarsFlatMod", base)
  BY <1>1, <1>2, SameModSum
<1>4. ModSum(g2, w2, unit, fields, "terrainStarsMod", 0)
        = ModSum(g, w, unit, fields, "terrainStarsMod", 0)
  BY <1>1, <1>2, SameModSum
<1> DEFINE stars(a, b) == Quotient(a * b, 100)
           answer(s) ==
             Asked(unit,
                   IF name \notin DOMAIN ModData.terrains THEN Throws
                   ELSE Larger(ValueOr(ModData.config, "minTerrainStars", s), s))
<1>5. calculateUnitTerrainStars(g, w, unit)
        = answer(stars(ModSum(g, w, unit, fields, "terrainStarsFlatMod", base),
                       ModSum(g, w, unit, fields, "terrainStarsMod", 0)))
  BY DEF calculateUnitTerrainStars, name, fields, base
<1>6. calculateUnitTerrainStars(g2, w2, unit)
        = answer(stars(ModSum(g2, w2, unit, fields, "terrainStarsFlatMod", base),
                       ModSum(g2, w2, unit, fields, "terrainStarsMod", 0)))
  <2> HIDE DEF answer, stars
  <2>1. QED
    BY <1>1 DEF calculateUnitTerrainStars, name, fields, base, answer, stars
<1> HIDE DEF stars, answer
<1>7. QED
  BY <1>3, <1>4, <1>5, <1>6, Zenon

\* Firepower and defense are the same.
LEMMA SameStrength ==
  ASSUME NEW g, NEW g2, IsGame(g), IsGame(g2),
         NEW w \in SetToSeqs(DOMAIN g.players),
         NEW w2 \in SetToSeqs(DOMAIN g.players), NEW unit, IsUnit(unit),
         SameAround(g, g2, unit), NEW side, IsSide(side)
  PROVE  Strength(g2, w2, unit, side) = Strength(g, w, unit, side)
<1> DEFINE T == Gifts(g, "unit")
           variant == getCurrentVariant(g)
           stars == calculateUnitTerrainStars(g, w, unit)
           given == Given(g, w, unit, side.filter)
           given2 == Given(g2, w2, unit, side.filter)
           V == [x \in T |-> Share(g, unit, side, variant, stars, x)]
           V2 == [x \in T |-> Share(g2, unit, side, variant, stars, x)]
           R == ReachingUnit(g, unit, side.filter)
           f == [i \in DOMAIN given |->
                   Share(g, unit, side, variant, stars, given[i])]
           f2 == [i \in DOMAIN given2 |->
                    Share(g2, unit, side, variant, stars, given2[i])]
           answer(s, none) ==
             Asked(unit,
               IF variant = Throws \/ (~none /\ stars = Throws) THEN Throws
               ELSE 100 + s)
<1>1. /\ AlikeAround(g, g2, unit, unit) /\ IsFiniteSet(DOMAIN g.players)
      /\ DOMAIN g2.players = DOMAIN g.players
      /\ getCurrentVariant(g2) = variant
  BY Zenon DEF SameAround, SameTeams, IsGame
<1>2. calculateUnitTerrainStars(g2, w2, unit) = stars
  BY SameStars
<1>3. /\ getAllPassiveUnitEffects(g, w, unit, side.filter) = given
      /\ getAllPassiveUnitEffects(g2, w2, unit, side.filter) = given2
  BY Zenon DEF getAllPassiveUnitEffects, Given
<1>4. Strength(g, w, unit, side) = answer(Total(f), given = <<>>)
  BY <1>3, Zenon DEF Strength
<1>5. Strength(g2, w2, unit, side) = answer(Total(f2), given2 = <<>>)
  BY <1>1, <1>2, <1>3, Zenon DEF Strength
<1>6. given \in Seq(T) /\ given2 \in Seq(T)
  <2>1. given \in Seq(T)
    BY <1>1, GivenType, Zenon
  <2>2. Gifts(g2, "unit") = T
    BY <1>1, Zenon DEF Gifts
  <2>3. IsFiniteSet(DOMAIN g2.players) /\ w2 \in SetToSeqs(DOMAIN g2.players)
    BY <1>1, Zenon
  <2>4. Given(g2, w2, unit, side.filter) \in Seq(Gifts(g2, "unit"))
    BY <2>3, GivenType
  <2>5. QED
    BY <2>1, <2>2, <2>4, Zenon
<1>7. \A p \in DOMAIN g.players :
        \A x \in ToSet(EffectsOf(g, p, "unit")) \cap R : V2[x] = V[x]
  <2> TAKE p \in DOMAIN g.players
  <2> TAKE x \in ToSet(EffectsOf(g, p, "unit")) \cap R
  <2>1. x \in T /\ x.giver = p
    BY GiftsGiver, Zenon
  <2>2. SameMeans(g, g2, p)
    BY Zenon DEF SameAround
  <2>3. Share(g2, unit, side, variant, stars, x)
          = Share(g, unit, side, variant, stars, x)
    <3> HIDE DEF variant, stars
    <3>1. SameMeans(g, g2, x.giver)
      BY <2>1, <2>2, Zenon
    <3>2. QED
      BY <3>1, SameShare
  <2>4. QED
    BY <2>1, <2>3, Zenon
<1> HIDE DEF answer
<1>8. CASE stars # Throws
  <2>1. stars \in Int
    BY <1>8, StarsType, Zenon
  <2>2. \A x \in T : /\ Share(g, unit, side, variant, stars, x) \in Int
                     /\ Share(g2, unit, side, variant, stars, x) \in Int
    <3> TAKE x \in T
    <3>1. x \in Gifts(g2, "unit")
      BY <1>1, Zenon DEF Gifts
    <3> HIDE DEF stars, variant
    <3>2. Share(g, unit, side, variant, stars, x) \in Int
      BY <2>1, ShareType
    <3>3. Share(g2, unit, side, variant, stars, x) \in Int
      BY <2>1, <3>1, ShareType
    <3>4. QED
      BY <3>2, <3>3
  <2>3. V \in [T -> Int] /\ V2 \in [T -> Int]
    BY <2>2, Zenon
  <2>4. Total(f) = Worth(given, V)
    <3>1. \A i \in DOMAIN given : given[i] \in T
      <4> HIDE DEF given, T
      <4>1. QED
        BY <1>6, ElementsOf
    <3>2. f = [i \in DOMAIN given |-> V[given[i]]]
      BY <3>1, Zenon
    <3>3. QED
      BY <3>2, Zenon DEF Worth
  <2>5. Total(f2) = Worth(given2, V2)
    <3>1. \A i \in DOMAIN given2 : given2[i] \in T
      <4> HIDE DEF given2, T
      <4>1. QED
        BY <1>6, ElementsOf
    <3>2. f2 = [i \in DOMAIN given2 |-> V2[given2[i]]]
      BY <3>1, Zenon
    <3>3. QED
      BY <3>2, Zenon DEF Worth
  <2>6. Worth(given2, V2) = Worth(given, V)
    <3> HIDE DEF V, V2
    <3>1. QED
      BY <1>1, <1>7, <2>3, SameGiven
  <2> HIDE DEF f, f2, given, given2, variant, stars, V, V2
  <2>7. Total(f2) = Total(f)
    BY <2>4, <2>5, <2>6, Zenon
  <2>8. \A t : answer(t, given2 = <<>>) = answer(t, given = <<>>)
    BY <1>8 DEF answer
  <2>9. QED
    BY <1>4, <1>5, <2>7, <2>8, Zenon
<1>9. CASE stars = Throws
  <2>1. given2 = <<>> <=> given = <<>>
    BY <1>1, SameElements
  <2>2. CASE given = <<>>
    <3>1. given2 = <<>>
      BY <2>1, <2>2
    <3> HIDE DEF given, given2, stars, variant
    <3>2. f = <<>> /\ f2 = <<>>
      BY <2>2, <3>1
    <3>3. QED
      BY <1>4, <1>5, <2>2, <3>1, <3>2, Zenon
  <2>3. CASE given # <<>>
    <3>1. given2 # <<>>
      BY <2>1, <2>3
    <3> DEFINE s == Total(f)
               s2 == Total(f2)
    <3> HIDE DEF given, given2, stars, variant, s, s2
    <3>2. \A t : answer(t, FALSE) = answer(s, FALSE)
      BY <1>9, Zenon DEF answer
    <3>3. (given = <<>>) = FALSE /\ (given2 = <<>>) = FALSE
      BY <2>3, <3>1
    <3>4. QED
      BY <1>4, <1>5, <3>2, <3>3, Zenon DEF s, s2
  <2>4. QED
    BY <2>2, <2>3
<1>10. QED
  BY <1>8, <1>9

\* The vision is the same.
LEMMA SameVision ==
  ASSUME NEW g, NEW g2, IsGame(g), IsGame(g2),
         NEW w \in SetToSeqs(DOMAIN g.players),
         NEW w2 \in SetToSeqs(DOMAIN g.players), NEW unit,
         SameAround(g, g2, unit)
  PROVE  calculateUnitVisionRange(g2, w2, unit)
           = calculateUnitVisionRange(g, w, unit)
<1> DEFINE T == Gifts(g, "unit")
           members == {"visionMod", "visionVariantMods"}
           variant == getCurrentVariant(g)
           given == Given(g, w, unit, members)
           given2 == Given(g2, w2, unit, members)
           sight(x) == VariantShare(x.effect, "visionVariantMods", variant)
                         + ValueOr(x.effect, "visionMod", 0)
           V == [x \in T |-> sight(x)]
           f == [i \in DOMAIN given |-> sight(given[i])]
           f2 == [i \in DOMAIN given2 |-> sight(given2[i])]
           answer(t) == Asked(unit, IF variant = Throws THEN Throws
                                    ELSE TypeOf(unit).visionRange + t)
<1>1. /\ AlikeAround(g, g2, unit, unit) /\ IsFiniteSet(DOMAIN g.players)
      /\ DOMAIN g2.players = DOMAIN g.players
      /\ getCurrentVariant(g2) = variant
  BY Zenon DEF SameAround, SameTeams, IsGame
<1>2. /\ getAllPassiveUnitEffects(g, w, unit, members) = given
      /\ getAllPassiveUnitEffects(g2, w2, unit, members) = given2
  BY Zenon DEF getAllPassiveUnitEffects, Given
<1>3. calculateUnitVisionRange(g, w, unit) = answer(Total(f))
  BY <1>2, Zenon DEF calculateUnitVisionRange
<1>4. calculateUnitVisionRange(g2, w2, unit) = answer(Total(f2))
  BY <1>1, <1>2, Zenon DEF calculateUnitVisionRange
<1> HIDE DEF members, variant, answer
<1>5. given \in Seq(T) /\ given2 \in Seq(T)
  <2>1. given \in Seq(T)
    BY <1>1, GivenType, Zenon
  <2>2. Gifts(g2, "unit") = T
    BY <1>1, Zenon DEF Gifts
  <2>3. IsFiniteSet(DOMAIN g2.players) /\ w2 \in SetToSeqs(DOMAIN g2.players)
    BY <1>1, Zenon
  <2>4. Given(g2, w2, unit, members) \in Seq(Gifts(g2, "unit"))
    BY <2>3, GivenType
  <2>5. QED
    BY <2>1, <2>2, <2>4, Zenon
<1>6. \A x \in T : sight(x) \in Int
  <2> TAKE x \in T
  <2> DEFINE a == VariantShare(x.effect, "visionVariantMods", variant)
             b == ValueOr(x.effect, "visionMod", 0)
  <2>1. "visionVariantMods" \in NumbersByName /\ "visionMod" \in Numbers
    BY DEF NumbersByName, Numbers
  <2>2. a \in Int
    BY <2>1, ShareByVariant
  <2>3. b \in Int
    BY <2>1, FieldType, Zenon
  <2> HIDE DEF a, b
  <2>4. a + b \in Int
    BY <2>2, <2>3
  <2>5. QED
    BY <2>4, Zenon DEF a, b
<1> HIDE DEF sight
<1>7. V \in [T -> Int]
  BY <1>6, Zenon
<1>8. Total(f) = Worth(given, V)
  <2>1. \A i \in DOMAIN given : given[i] \in T
    <3> HIDE DEF given, T
    <3>1. QED
      BY <1>5, ElementsOf
  <2>2. f = [i \in DOMAIN given |-> V[given[i]]]
    BY <2>1, Zenon
  <2>3. QED
    BY <2>2, Zenon DEF Worth
<1>9. Total(f2) = Worth(given2, V)
  <2>1. \A i \in DOMAIN given2 : given2[i] \in T
    <3> HIDE DEF given2, T
    <3>1. QED
      BY <1>5, ElementsOf
  <2>2. f2 = [i \in DOMAIN given2 |-> V[given2[i]]]
    BY <2>1, Zenon
  <2>3. QED
    BY <2>2, Zenon DEF Worth
<1>10. Worth(given2, V) = Worth(given, V)
  <2> HIDE DEF V
  <2>1. QED
    BY <1>1, <1>7, SameGiven
<1>11. QED
  BY <1>3, <1>4, <1>8, <1>9, <1>10, Zenon

\* What an observer may know of the unit is the same.
LEMMA SameIntel ==
  ASSUME NEW g, NEW g2, IsGame(g), IsGame(g2),
         NEW w \in SetToSeqs(DOMAIN g.players),
         NEW w2 \in SetToSeqs(DOMAIN g.players), NEW unit,
         SameAround(g, g2, unit),
         NEW o \in DOMAIN g.players \cup {NoPlayer}
  PROVE  getUnitIntel(g2, w2, unit, o) = getUnitIntel(g, w, unit, o)
<1> DEFINE T == Gifts(g, "unit")
           fields == [HIDE_HITPOINTS |-> "hiddenHitPoints",
                      EXACT_HITPOINTS |-> "hpPartVisible",
                      LUCK |-> "luckPointsVisible"]
           members == {fields[f] : f \in DOMAIN fields}
           given == Given(g, w, unit, members)
           given2 == Given(g2, w2, unit, members)
           A(x) == getAlliance(g, o, x.giver)
           known(f, x) == Names(x.effect, fields[f], A(x))
           flags == {f \in DOMAIN fields :
                       \E i \in DOMAIN given : known(f, given[i])}
           flags2 == {f \in DOMAIN fields : \E i \in DOMAIN given2 :
                        Names(given2[i].effect, fields[f],
                              getAlliance(g2, o, given2[i].giver))}
<1>1. /\ AlikeAround(g, g2, unit, unit) /\ IsFiniteSet(DOMAIN g.players)
      /\ DOMAIN g2.players = DOMAIN g.players /\ SameTeams(g, g2)
  BY Zenon DEF SameAround, SameTeams, IsGame
<1>2. /\ getAllPassiveUnitEffects(g, w, unit, members) = given
      /\ getAllPassiveUnitEffects(g2, w2, unit, members) = given2
  BY Zenon DEF getAllPassiveUnitEffects, Given
<1>3. getUnitIntel(g, w, unit, o) = Asked(unit, flags)
  BY <1>2, Zenon DEF getUnitIntel
<1>4. getUnitIntel(g2, w2, unit, o) = Asked(unit, flags2)
  BY <1>2, Zenon DEF getUnitIntel
<1> HIDE DEF fields, members
<1>5. given2 \in Seq(T)
  <2>1. Gifts(g2, "unit") = T
    BY <1>1, Zenon DEF Gifts
  <2>2. IsFiniteSet(DOMAIN g2.players) /\ w2 \in SetToSeqs(DOMAIN g2.players)
    BY <1>1, Zenon
  <2>3. Given(g2, w2, unit, members) \in Seq(Gifts(g2, "unit"))
    BY <2>2, GivenType
  <2>4. QED
    BY <2>1, <2>3, Zenon
<1>6. ToSet(given2) = ToSet(given)
  BY <1>1, SameElements
<1>7. \A x \in T : getAlliance(g2, o, x.giver) = A(x)
  <2> TAKE x \in T
  <2>1. x.giver \in DOMAIN g.players \cup {NoPlayer}
    BY Zenon DEF Gifts
  <2>2. QED
    BY <1>1, <2>1, SameAlliance
<1>8. \A i \in DOMAIN given2 : given2[i] \in T
  <2> HIDE DEF given2, T
  <2>1. QED
    BY <1>5, ElementsOf
<1> HIDE DEF given, given2, T, A
<1>9. flags2 = {f \in DOMAIN fields :
                  \E i \in DOMAIN given2 : known(f, given2[i])}
  BY <1>7, <1>8, Zenon
<1> HIDE DEF known
<1>10. flags = {f \in DOMAIN fields : \E x \in ToSet(given) : known(f, x)}
  BY Zenon DEF ToSet
<1>11. flags2 = {f \in DOMAIN fields : \E x \in ToSet(given2) : known(f, x)}
  BY <1>9, Zenon DEF ToSet
<1>12. flags2 = flags
  BY <1>6, <1>10, <1>11, Zenon
<1>13. QED
  BY <1>3, <1>4, <1>12, Zenon

\* All answers are the same.
LEMMA SameUnitAnswers ==
  ASSUME NEW g, NEW g2, IsGame(g), IsGame(g2),
         NEW w \in SetToSeqs(DOMAIN g.players),
         NEW w2 \in SetToSeqs(DOMAIN g.players), NEW unit, IsUnit(unit),
         SameAround(g, g2, unit)
  PROVE  UnitAnswers(g2, w2, unit) = UnitAnswers(g, w, unit)
<1>1. /\ AlikeAround(g, g2, unit, unit) /\ IsFiniteSet(DOMAIN g.players)
      /\ DOMAIN g2.players = DOMAIN g.players
  BY Zenon DEF SameAround, SameTeams, IsGame
<1>2. \A fields : \A field \in Numbers : \A base :
        ModSum(g2, w2, unit, fields, field, base)
          = ModSum(g, w, unit, fields, field, base)
  <2> TAKE fields
  <2> TAKE field \in Numbers
  <2> TAKE base
  <2>1. QED
    BY <1>1, SameModSum
<1>3. /\ "movementMod" \in Numbers /\ "goodLuckMod" \in Numbers
      /\ "badLuckMod" \in Numbers /\ "maxRangeMod" \in Numbers
      /\ "minRangeMod" \in Numbers /\ "captureRateMod" \in Numbers
      /\ "unitCostMod" \in Numbers
  BY DEF Numbers
<1>4. calculateUnitMovementRange(g2, w2, unit)
        = calculateUnitMovementRange(g, w, unit)
  BY <1>2, <1>3, Zenon DEF calculateUnitMovementRange
<1>5. calculateUnitVisionRange(g2, w2, unit)
        = calculateUnitVisionRange(g, w, unit)
  BY SameVision
<1>6. /\ calculateUnitFirepower(g2, w2, unit, FALSE)
            = calculateUnitFirepower(g, w, unit, FALSE)
      /\ calculateUnitDefense(g2, w2, unit, TRUE)
            = calculateUnitDefense(g, w, unit, TRUE)
  <2> DEFINE fire == FirepowerSide(FALSE)
             defend == DefenseSide(TRUE)
  <2>1. IsSide(fire) /\ IsSide(defend)
    BY SidesType
  <2> HIDE DEF fire, defend
  <2>2. Strength(g2, w2, unit, fire) = Strength(g, w, unit, fire)
    BY <2>1, SameStrength
  <2>3. Strength(g2, w2, unit, defend) = Strength(g, w, unit, defend)
    BY <2>1, SameStrength
  <2>4. QED
    BY <2>2, <2>3, Zenon
       DEF calculateUnitFirepower, calculateUnitDefense, fire, defend
<1>7. \A b \in BOOLEAN :
        calculateUnitLuck(g2, w2, unit, b) = calculateUnitLuck(g, w, unit, b)
  BY <1>2, <1>3, Zenon DEF calculateUnitLuck
<1>8. \A b \in BOOLEAN :
        calculateUnitRange(g2, w2, unit, 0, b) = calculateUnitRange(g, w, unit, 0, b)
  BY <1>2, <1>3, Zenon DEF calculateUnitRange
<1>9. calculateUnitTerrainStars(g2, w2, unit)
        = calculateUnitTerrainStars(g, w, unit)
  BY SameStars
<1>10. \A o \in DOMAIN g.players \cup {NoPlayer} :
         getUnitIntel(g2, w2, unit, o) = getUnitIntel(g, w, unit, o)
  BY SameIntel
<1>11. calculateUnitCapturePoints(g2, w2, unit)
         = calculateUnitCapturePoints(g, w, unit)
  <2> DEFINE rate == ModSum(g, w, unit, {"captureRateMod"}, "captureRateMod", 100)
             rate2 == ModSum(g2, w2, unit, {"captureRateMod"}, "captureRateMod", 100)
             speed == ValueOr(TypeOf(unit), "captureSpeed", 0)
             h == UnitHitPoints(unit)
             answer(r) == IF unit.name \in DOMAIN ModData.units
                          THEN CapturePoints(r * speed * h) ELSE Throws
  <2>1. rate2 = rate
    BY <1>2, <1>3
  <2>2. calculateUnitCapturePoints(g, w, unit) = answer(rate)
    BY CaptureUnfold
  <2>3. calculateUnitCapturePoints(g2, w2, unit) = answer(rate2)
    BY CaptureUnfold
  <2> HIDE DEF rate, rate2, answer
  <2>4. QED
    BY <2>1, <2>2, <2>3, Zenon
<1>12. calculateUnitCost(g2, w2, unit) = calculateUnitCost(g, w, unit)
  <2> DEFINE rate == ModSum(g, w, unit, {"unitCostMod"}, "unitCostMod", 100)
             rate2 == ModSum(g2, w2, unit, {"unitCostMod"}, "unitCostMod", 100)
             answer(r) == Asked(unit,
                                Quotient(Larger(0, r) * TypeOf(unit).cost, 100))
  <2>1. rate2 = rate
    BY <1>2, <1>3
  <2>2. calculateUnitCost(g, w, unit) = answer(rate)
    BY DEF calculateUnitCost
  <2>3. calculateUnitCost(g2, w2, unit) = answer(rate2)
    BY DEF calculateUnitCost
  <2> HIDE DEF rate, rate2, answer
  <2>4. QED
    BY <2>1, <2>2, <2>3, Zenon
<1>13. /\ [b \in BOOLEAN |-> calculateUnitLuck(g2, w2, unit, b)]
            = [b \in BOOLEAN |-> calculateUnitLuck(g, w, unit, b)]
       /\ [b \in BOOLEAN |-> calculateUnitRange(g2, w2, unit, 0, b)]
            = [b \in BOOLEAN |-> calculateUnitRange(g, w, unit, 0, b)]
       /\ [o \in DOMAIN g2.players \cup {NoPlayer} |->
             getUnitIntel(g2, w2, unit, o)]
            = [o \in DOMAIN g.players \cup {NoPlayer} |->
                 getUnitIntel(g, w, unit, o)]
  BY <1>1, <1>7, <1>8, <1>10, Zenon
<1>14. QED
  BY <1>4, <1>5, <1>6, <1>9, <1>11, <1>12, <1>13, Zenon DEF UnitAnswers

-----------------------------------------------------------------------------
(* What a player may ever give.                                            *)

\* A list of effects is no answer of a call that throws.
LEMMA AllNoThrow ==
  ASSUME NEW g, IsGame(g), NEW kind \in Kinds, NEW w \in Seq(DOMAIN g.players),
         NEW R
  PROVE  EffectsOfAll(g, w, kind, R) # Throws
<1> DEFINE T == Gifts(g, kind)
           U == [effect : {ModData.effects[kind][n] : n \in DOMAIN ModData.effects[kind]},
                 giver : Int]
           s == EffectsOfAll(g, w, kind, R)
<1>1. T \subseteq U
  BY Zenon DEF Gifts, IsGame
<1>2. s \in Seq(T)
  BY AllType
<1>3. Throws \notin Seq(U)
  BY ThrowsAssumption, Zenon
<1> HIDE DEF s, T, U
<1>4. s \in Seq(U)
  BY <1>1, <1>2
<1>5. QED
  BY <1>3, <1>4, Zenon DEF s

\* A power adds to what is given day to day.
LEMMA ListsGrow ==
  ASSUME NEW name, NEW kind \in Kinds, NEW power
  PROVE  ToSet(CommanderLists(name, kind, power))
           \subseteq ToSet(CommanderLists(name, kind,
                             IF power = "scop" THEN "scop" ELSE "cop"))
<1>1. CASE power \in {"cop", "scop"}
  BY <1>1
<1>2. CASE power \notin {"cop", "scop"}
  <2> DEFINE lists == ModData.commanders[name][kind]
             a == ValueOr(lists, "d2d", <<>>)
             b == ValueOr(lists, "cop", <<>>)
             S == Seq(STRING)
  <2>1. CASE name \notin DOMAIN ModData.commanders
    BY <2>1, Zenon DEF CommanderLists
  <2>2. CASE name \in DOMAIN ModData.commanders
    <3>1. a \in S /\ b \in S
      BY <2>2, ModAssumption, Zenon DEF Powers
    <3>2. /\ CommanderLists(name, kind, power) = a \o <<>>
          /\ CommanderLists(name, kind, "cop") = a \o b
      BY <1>2, <2>2, Zenon DEF CommanderLists
    <3> HIDE DEF a, b
    <3>3. a \o <<>> = a
      BY <3>1
    <3>4. ToSet(a \o b) = ToSet(a) \cup ToSet(b)
      BY <3>1, SetOfConcat
    <3>5. power # "scop"
      BY <1>2
    <3>6. QED
      BY <3>2, <3>3, <3>4, <3>5, Zenon
  <2>3. QED
    BY <2>1, <2>2
<1>3. QED
  BY <1>1, <1>2

\* The names of the effects that are known.
LEMMA NamedSet ==
  ASSUME NEW g, NEW p, NEW kind \in Kinds
  PROVE  LET player == g.players[p]
             power == ValueOr(player, "powerActive", "none")
         IN  ToSet(Named(g, p, kind))
               = ToSet(CommanderLists(Baseline(player), kind, power))
                   \cup (IF g.coPowers
                         THEN ToSet(CommanderLists(player.commanderName, kind, power))
                         ELSE {})
<1> DEFINE player == g.players[p]
           power == ValueOr(player, "powerActive", "none")
           a == CommanderLists(Baseline(player), kind, power)
           b == CommanderLists(player.commanderName, kind, power)
<1>1. a \in Seq(STRING) /\ b \in Seq(STRING)
  BY ListsType, Zenon
<1>2. Named(g, p, kind) = a \o (IF g.coPowers THEN b ELSE <<>>)
  BY Zenon DEF Named
<1> HIDE DEF a, b
<1>3. ToSet(a \o b) = ToSet(a) \cup ToSet(b)
  BY <1>1, SetOfConcat
<1>4. a \o <<>> = a
  BY <1>1
<1>5. ToSet(Named(g, p, kind))
        = ToSet(a) \cup (IF g.coPowers THEN ToSet(b) ELSE {})
  BY <1>2, <1>3, <1>4, Zenon
<1>6. QED
  BY <1>5, Zenon DEF a, b

\* Whatever power is in use, and whether there are powers at all, what is
\* given is in the repertoire.
LEMMA InRepertoire ==
  ASSUME NEW g, IsGame(g), NEW p \in DOMAIN g.players, NEW kind \in Kinds,
         NEW g2, p \in DOMAIN g2.players,
         g2.players[p].playerType = g.players[p].playerType,
         g2.players[p].commanderName = g.players[p].commanderName
  PROVE  ToSet(EffectsOf(g2, p, kind)) \subseteq Repertoire(g, p, kind)
<1> DEFINE D == DOMAIN ModData.effects[kind]
           gift(name) == [effect |-> ModData.effects[kind][name], giver |-> p]
           power2 == ValueOr(g2.players[p], "powerActive", "none")
           power == IF power2 = "scop" THEN "scop" ELSE "cop"
           player == With(g.players[p], "powerActive", power)
           h == [g EXCEPT !.coPowers = TRUE, !.players[p] = player]
           base == Baseline(g.players[p])
           name2 == g.players[p].commanderName
<1>1. IsPlayer(g.players[p]) /\ "players" \in DOMAIN g /\ "coPowers" \in DOMAIN g
  BY DEF IsGame
<1>2. /\ h.coPowers = TRUE /\ p \in DOMAIN h.players
      /\ h.players[p] = player
  <2> HIDE DEF player
  <2>1. QED
    BY <1>1
<1>3. /\ player.playerType = g.players[p].playerType
      /\ player.commanderName = g.players[p].commanderName
      /\ ValueOr(player, "powerActive", "none") = power
  <2> HIDE DEF power
  <2>1. QED
    BY <1>1 DEF IsPlayer, With, ValueOr
<1> HIDE DEF h, player
<1>4. Baseline(player) = base /\ Baseline(g2.players[p]) = base
  BY <1>3, Zenon DEF Baseline
<1>5. ToSet(Named(h, p, kind))
        = ToSet(CommanderLists(base, kind, power))
            \cup ToSet(CommanderLists(name2, kind, power))
  BY <1>2, <1>3, <1>4, NamedSet, Zenon
<1>6. ToSet(Named(g2, p, kind))
        \subseteq ToSet(CommanderLists(base, kind, power2))
                    \cup ToSet(CommanderLists(name2, kind, power2))
  <2> DEFINE a == ToSet(CommanderLists(Baseline(g2.players[p]), kind, power2))
             b == ToSet(CommanderLists(g2.players[p].commanderName, kind, power2))
  <2>1. ToSet(Named(g2, p, kind)) = a \cup (IF g2.coPowers THEN b ELSE {})
    BY NamedSet, Zenon
  <2>2. /\ a = ToSet(CommanderLists(base, kind, power2))
        /\ b = ToSet(CommanderLists(name2, kind, power2))
    BY <1>4, Zenon
  <2> HIDE DEF a, b
  <2>3. QED
    BY <2>1, <2>2, Zenon
<1>7. /\ ToSet(CommanderLists(base, kind, power2))
           \subseteq ToSet(CommanderLists(base, kind, power))
      /\ ToSet(CommanderLists(name2, kind, power2))
           \subseteq ToSet(CommanderLists(name2, kind, power))
  BY ListsGrow, Zenon
<1>8. ToSet(Named(g2, p, kind)) \subseteq ToSet(Named(h, p, kind))
  BY <1>5, <1>6, <1>7, Zenon
<1>9. ToSet(EffectsOf(g2, p, kind)) = {gift(n) : n \in ToSet(Named(g2, p, kind)) \cap D}
  <2>1. ToSet(EffectsOf(g2, p, kind)) = GiftsOf(g2, p, kind)
    BY EffectsType
  <2>2. QED
    BY <2>1, Zenon DEF GiftsOf
<1>10. ToSet(EffectsOf(h, p, kind)) = {gift(n) : n \in ToSet(Named(h, p, kind)) \cap D}
  <2>1. ToSet(EffectsOf(h, p, kind)) = GiftsOf(h, p, kind)
    BY <1>2, EffectsType
  <2>2. QED
    BY <2>1, Zenon DEF GiftsOf
<1>11. ToSet(EffectsOf(g2, p, kind)) \subseteq ToSet(EffectsOf(h, p, kind))
  <2> HIDE DEF gift, D
  <2>1. QED
    BY <1>8, <1>9, <1>10, Zenon
<1>12. power \in {"cop", "scop"}
  OBVIOUS
<1>13. ToSet(EffectsOf(h, p, kind)) \subseteq Repertoire(g, p, kind)
  <2> HIDE DEF power
  <2>1. QED
    BY <1>12, Zenon DEF Repertoire, h, player
<1>14. QED
  BY <1>11, <1>13, Zenon

-----------------------------------------------------------------------------
(* Only givers count.                                                      *)

SamePerson(a, b) ==
  /\ b.playerType = a.playerType /\ b.commanderName = a.commanderName
  /\ ValueOr(b, "team", NoPlayer) = ValueOr(a, "team", NoPlayer)

\* What no step changes of the players and of the terrains.
SamePeople(g, g2) ==
  /\ DOMAIN g2.players = DOMAIN g.players
  /\ \A p \in DOMAIN g.players : SamePerson(g.players[p], g2.players[p])
  /\ DOMAIN g2.terrains = DOMAIN g.terrains
  /\ \A place \in DOMAIN g.terrains :
       g2.terrains[place].name = g.terrains[place].name

\* A step changes of a player the power and the funds only.
LEMMA PlayerStays ==
  ASSUME NEW g, IsGame(g), NEW p \in DOMAIN g.players, NEW player,
         SamePerson(g.players[p], player),
         NEW next, next = [g EXCEPT !.players[p] = player]
  PROVE  SamePeople(g, next)
<1> DEFINE q == [g.players EXCEPT ![p] = player]
<1>1. "players" \in DOMAIN g /\ "terrains" \in DOMAIN g
  BY DEF IsGame
<1>2. next = [g EXCEPT !["players"] = q]
  BY Zenon
<1>3. /\ DOMAIN q = DOMAIN g.players /\ q[p] = player
      /\ \A r \in DOMAIN g.players : r # p => q[r] = g.players[r]
  BY Replacing, Zenon
<1> HIDE DEF q
<1>4. /\ next.players = q
      /\ \A f \in DOMAIN g \ {"players"} : next[f] = g[f]
  BY <1>1, <1>2, Placing, Zenon
<1>5. next.terrains = g.terrains
  BY <1>1, <1>4
<1>6. \A r \in DOMAIN g.players : SamePerson(g.players[r], q[r])
  <2> TAKE r \in DOMAIN g.players
  <2>1. CASE r = p
    BY <2>1, <1>3, Zenon
  <2>2. CASE r # p
    BY <2>2, <1>3, Zenon DEF SamePerson
  <2>3. QED
    BY <2>1, <2>2
<1>7. QED
  BY <1>3, <1>4, <1>5, <1>6, Zenon DEF SamePeople

\* A step changes of a terrain the owner only.
LEMMA TerrainStays ==
  ASSUME NEW g, IsGame(g), NEW place \in DOMAIN g.terrains, NEW p,
         NEW next,
         next = [g EXCEPT !.terrains[place] = With(g.terrains[place], "owner", p)]
  PROVE  SamePeople(g, next)
<1> DEFINE terrain == With(g.terrains[place], "owner", p)
           q == [g.terrains EXCEPT ![place] = terrain]
<1>1. "players" \in DOMAIN g /\ "terrains" \in DOMAIN g
  BY DEF IsGame
<1>2. next = [g EXCEPT !["terrains"] = q]
  BY Zenon
<1>3. "name" \in DOMAIN g.terrains[place]
  BY Zenon DEF IsGame
<1>4. terrain.name = g.terrains[place].name
  BY <1>3 DEF With
<1> HIDE DEF terrain
<1>5. /\ DOMAIN q = DOMAIN g.terrains /\ q[place] = terrain
      /\ \A x \in DOMAIN g.terrains : x # place => q[x] = g.terrains[x]
  BY Replacing, Zenon
<1> HIDE DEF q
<1>6. /\ next.terrains = q
      /\ \A f \in DOMAIN g \ {"terrains"} : next[f] = g[f]
  BY <1>1, <1>2, Placing, Zenon
<1>7. next.players = g.players
  BY <1>1, <1>6
<1>8. \A x \in DOMAIN g.terrains : q[x].name = g.terrains[x].name
  BY <1>4, <1>5, Zenon
<1>9. QED
  BY <1>5, <1>6, <1>7, <1>8, Zenon DEF SamePeople, SamePerson

\* Nothing changes in a game that stays.
LEMMA AlikeStays ==
  ASSUME NEW g, NEW next, next.players = g.players, next.terrains = g.terrains
  PROVE  SamePeople(g, next)
BY Zenon DEF SamePeople, SamePerson

\* So no step changes the teams, the names and the places.
LEMMA PeopleStay == TypeOK /\ Next => SamePeople(game, game')
<1> SUFFICES ASSUME TypeOK, Next PROVE SamePeople(game, game')
  OBVIOUS
<1>0. /\ IsGame(game)
      /\ "players" \in DOMAIN game /\ "terrains" \in DOMAIN game
  BY DEF TypeOK, IsGame
<1>1. CASE PassTurn
  <2>1. game'.players = game.players /\ game'.terrains = game.terrains
    BY <1>0, <1>1 DEF PassTurn, Play
  <2>2. QED
    BY <2>1, AlikeStays
<1>2. ASSUME NEW p \in DOMAIN game.players, NEW power, UsePower(p, power)
      PROVE  SamePeople(game, game')
  <2> DEFINE player == With(game.players[p], "powerActive", power)
  <2>1. IsPlayer(game.players[p])
    BY <1>0, Zenon DEF IsGame
  <2>2. SamePerson(game.players[p], player)
    BY <2>1 DEF IsPlayer, SamePerson, With, ValueOr
  <2>3. game' = [game EXCEPT !.players[p] = player]
    BY <1>2, Zenon DEF UsePower, Play
  <2> HIDE DEF player
  <2>4. QED
    BY <1>0, <2>2, <2>3, PlayerStays
<1>3. ASSUME NEW p \in DOMAIN game.players, NEW funds, Earn(p, funds)
      PROVE  SamePeople(game, game')
  <2> DEFINE player == [game.players[p] EXCEPT !.funds = funds]
  <2>1. IsPlayer(game.players[p])
    BY <1>0, Zenon DEF IsGame
  <2>2. SamePerson(game.players[p], player)
    BY <2>1 DEF IsPlayer, SamePerson, ValueOr
  <2>3. game' = [game EXCEPT !.players[p] = player]
    BY <1>3, Zenon DEF Earn, Play
  <2> HIDE DEF player
  <2>4. QED
    BY <1>0, <2>2, <2>3, PlayerStays
<1>4. ASSUME NEW place \in DOMAIN game.terrains, NEW p, Capture(place, p)
      PROVE  SamePeople(game, game')
  <2>1. game' = [game EXCEPT !.terrains[place]
                               = With(game.terrains[place], "owner", p)]
    BY <1>4, Zenon DEF Capture, Play
  <2>2. QED
    BY <1>0, <2>1, TerrainStays
<1>5. ASSUME NEW u \in DOMAIN game.units, NEW h, SetHitPoints(u, h)
      PROVE  SamePeople(game, game')
  <2>1. game'.players = game.players /\ game'.terrains = game.terrains
    BY <1>0, <1>5 DEF SetHitPoints, Play
  <2>2. QED
    BY <2>1, AlikeStays
<1>6. ASSUME NEW u \in DOMAIN game.units, NEW place, MoveUnit(u, place)
      PROVE  SamePeople(game, game')
  <2>1. game'.players = game.players /\ game'.terrains = game.terrains
    BY <1>0, <1>6 DEF MoveUnit, Play
  <2>2. QED
    BY <2>1, AlikeStays
<1>7. CASE Rehash
  <2>1. game'.players = game.players /\ game'.terrains = game.terrains
    BY <1>7 DEF Rehash
  <2>2. QED
    BY <2>1, AlikeStays
<1>8. QED
  BY <1>1, <1>2, <1>3, <1>4, <1>5, <1>6, <1>7, Zenon DEF Next

\* The teams are the same,
LEMMA PeopleSameTeams ==
  ASSUME NEW g, NEW g2, SamePeople(g, g2)
  PROVE  SameTeams(g, g2)
BY Zenon DEF SamePeople, SamePerson, SameTeams

\* the terrain under a unit is
LEMMA PeopleTerrainUnder ==
  ASSUME NEW g, NEW g2, SamePeople(g, g2), NEW unit
  PROVE  TerrainUnder(g2, unit) = TerrainUnder(g, unit)
BY Zenon DEF SamePeople, TerrainUnder

\* and so is the owner of what has not changed.
LEMMA PeopleOwner ==
  ASSUME NEW g, NEW g2, SamePeople(g, g2), NEW thing
  PROVE  OwnerOf(g2, thing) = OwnerOf(g, thing)
BY Zenon DEF SamePeople, OwnerOf

\* What a player gives before or after is in the repertoire.
LEMMA PeopleRepertoire ==
  ASSUME NEW g, IsGame(g), NEW g2, SamePeople(g, g2),
         NEW p \in DOMAIN g.players, NEW kind \in Kinds
  PROVE  /\ ToSet(EffectsOf(g, p, kind)) \subseteq Repertoire(g, p, kind)
         /\ ToSet(EffectsOf(g2, p, kind)) \subseteq Repertoire(g, p, kind)
<1>1. ToSet(EffectsOf(g, p, kind)) \subseteq Repertoire(g, p, kind)
  BY InRepertoire
<1>2. /\ p \in DOMAIN g2.players
      /\ g2.players[p].playerType = g.players[p].playerType
      /\ g2.players[p].commanderName = g.players[p].commanderName
  BY Zenon DEF SamePeople, SamePerson
<1>3. ToSet(EffectsOf(g2, p, kind)) \subseteq Repertoire(g, p, kind)
  BY <1>2, InRepertoire
<1>4. QED
  BY <1>1, <1>3

\* Who cannot reach a unit gives nothing that does, before or after.
LEMMA Unreached ==
  ASSUME NEW g, IsGame(g), NEW g2, SamePeople(g, g2),
         NEW p \in DOMAIN g.players, NEW unit, CannotReachUnit(g, p, unit),
         NEW members
  PROVE  /\ ToSet(EffectsOf(g, p, "unit")) \cap ReachingUnit(g, unit, members) = {}
         /\ ToSet(EffectsOf(g2, p, "unit")) \cap ReachingUnit(g, unit, members) = {}
<1> DEFINE E == ToSet(EffectsOf(g, p, "unit"))
           E2 == ToSet(EffectsOf(g2, p, "unit"))
           alliance == getAlliance(g, p, OwnerOf(g, unit))
<1>1. E \subseteq Repertoire(g, p, "unit") /\ E2 \subseteq Repertoire(g, p, "unit")
  BY PeopleRepertoire, Zenon DEF Kinds
<1>2. p \in DOMAIN g2.players
  BY Zenon DEF SamePeople
<1>3. \A x \in E \cup E2 : x.giver = p
  BY <1>2, GiftsGiver, Zenon
<1>4. \A x \in ReachingUnit(g, unit, members) : x.giver = p =>
        alliance # "NEUTRAL" /\ Names(x.effect, "targets", alliance)
  BY Zenon DEF ReachingUnit
<1>5. \A x \in Repertoire(g, p, "unit") :
        alliance = "NEUTRAL" \/ ~Names(x.effect, "targets", alliance)
  BY Zenon DEF CannotReachUnit, Targets, Names
<1> HIDE DEF E, E2, alliance
<1>6. E \cap ReachingUnit(g, unit, members) = {}
  BY <1>1, <1>3, <1>4, <1>5, Zenon
<1>7. E2 \cap ReachingUnit(g, unit, members) = {}
  BY <1>1, <1>3, <1>4, <1>5, Zenon
<1>8. QED
  BY <1>6, <1>7, Zenon DEF E, E2

\* What a step leaves of a player: the player, and the terrains owned.
Left(g, g2, p) ==
  /\ g2.players[p] = g.players[p]
  /\ \A place \in DOMAIN g.terrains :
       \/ g2.terrains[place] = g.terrains[place]
       \/ p \notin {ValueOr(g.terrains[place], "owner", NoPlayer),
                    ValueOr(g2.terrains[place], "owner", NoPlayer)}

\* Who is left alone owns as many terrains of each name as before.
LEMMA LeftMeans ==
  ASSUME NEW g, NEW g2, SamePeople(g, g2), NEW p, Left(g, g2, p)
  PROVE  SameMeans(g, g2, p)
<1>1. g2.players[p].funds = g.players[p].funds
  BY Zenon DEF Left
<1>2. ASSUME NEW name
      PROVE  countTerrainsOwnedByPlayer(g2, p, name)
               = countTerrainsOwnedByPlayer(g, p, name)
  <2> DEFINE Own(terrain) ==
               terrain.name = name /\ ValueOr(terrain, "owner", NoPlayer) = p
  <2>1. \A place \in DOMAIN g.terrains :
          Own(g2.terrains[place]) <=> Own(g.terrains[place])
    <3> TAKE place \in DOMAIN g.terrains
    <3>1. g2.terrains[place].name = g.terrains[place].name
      BY Zenon DEF SamePeople
    <3>2. \/ g2.terrains[place] = g.terrains[place]
          \/ /\ ValueOr(g.terrains[place], "owner", NoPlayer) # p
             /\ ValueOr(g2.terrains[place], "owner", NoPlayer) # p
      BY Zenon DEF Left
    <3>3. QED
      BY <3>1, <3>2, Zenon
  <2>2. DOMAIN g2.terrains = DOMAIN g.terrains
    BY Zenon DEF SamePeople
  <2>3. {place \in DOMAIN g2.terrains : Own(g2.terrains[place])}
          = {place \in DOMAIN g.terrains : Own(g.terrains[place])}
    <3> HIDE DEF Own
    <3>1. QED
      BY <2>1, <2>2, Zenon
  <2>4. QED
    BY <2>3, Zenon DEF countTerrainsOwnedByPlayer
<1>3. QED
  BY <1>1, <1>2, Zenon DEF SameMeans

\* Where everyone is left alone or cannot reach, nothing changes for a unit.
LEMMA NothingAround ==
  ASSUME NEW g, IsGame(g), NEW g2, SamePeople(g, g2),
         g2.coPowers = g.coPowers,
         getCurrentVariant(g2) = getCurrentVariant(g), NEW unit,
         \A p \in DOMAIN g.players :
           Left(g, g2, p) \/ CannotReachUnit(g, p, unit)
  PROVE  SameAround(g, g2, unit)
<1>1. /\ SameTeams(g, g2) /\ TerrainUnder(g2, unit) = TerrainUnder(g, unit)
      /\ OwnerOf(g2, unit) = OwnerOf(g, unit)
      /\ DOMAIN g2.players = DOMAIN g.players
  <2>1. SameTeams(g, g2)
    BY PeopleSameTeams
  <2>2. TerrainUnder(g2, unit) = TerrainUnder(g, unit)
    BY PeopleTerrainUnder
  <2>3. OwnerOf(g2, unit) = OwnerOf(g, unit)
    BY PeopleOwner
  <2>4. QED
    BY <2>1, <2>2, <2>3, Zenon DEF SamePeople
<1>2. \A members : ReachingUnit(g2, unit, members) = ReachingUnit(g, unit, members)
  <2> TAKE members
  <2>1. QED
    BY <1>1, SameReachingUnit
<1>3. ASSUME NEW p \in DOMAIN g.players, CannotReachUnit(g, p, unit), NEW members
      PROVE  /\ ToSet(EffectsOf(g, p, "unit")) \cap ReachingUnit(g, unit, members) = {}
             /\ ToSet(EffectsOf(g2, p, "unit")) \cap ReachingUnit(g, unit, members) = {}
  BY <1>3, Unreached
<1>4. ASSUME NEW p \in DOMAIN g.players, Left(g, g2, p)
      PROVE  EffectsOf(g2, p, "unit") = EffectsOf(g, p, "unit")
  <2>1. g2.players[p] = g.players[p]
    BY <1>4, Zenon DEF Left
  <2>2. QED
    BY <2>1, SameEffects
<1>5. AlikeAround(g, g2, unit, unit)
  BY <1>1, <1>2, <1>3, <1>4, Zenon DEF AlikeAround, AlikeFor
<1>6. ASSUME NEW p \in DOMAIN g.players, Left(g, g2, p)
      PROVE  SameMeans(g, g2, p)
  BY <1>6, LeftMeans
<1>7. QED
  BY <1>1, <1>3, <1>5, <1>6, Zenon DEF SameAround

\* What reaches a terrain depends on its name and owner, on the teams and on
\* who has the turn.
LEMMA SameReachingTerrain ==
  ASSUME NEW g, NEW g2, SameTeams(g, g2), NEW terrain,
         OwnerOf(g2, terrain) = OwnerOf(g, terrain),
         activePlayer(g) \in DOMAIN g.players,
         activePlayer(g2) = activePlayer(g)
  PROVE  ReachingTerrain(g2, terrain) = ReachingTerrain(g, terrain)
<1> DEFINE T == Gifts(g, "terrain")
           active == activePlayer(g)
           owner == OwnerOf(g, terrain)
           A(x) == getAlliance(g, x.giver, active)
           C(x, alliance, powerAlliance) ==
             /\ Names(x.effect, "targets", alliance)
             /\ powerAlliance # "NEUTRAL"
             /\ Names(x.effect, "affects", powerAlliance)
             /\ terrainMatchesEffect(terrain.name, x.effect)
           B == getAlliance(g, owner, active)
<1>1. getAlliance(g2, owner, active) = B
  <2>1. owner \in DOMAIN g.players \cup {NoPlayer}
    BY OwnerIsPlayer, Zenon
  <2>2. active \in DOMAIN g.players \cup {NoPlayer}
    BY Zenon
  <2> HIDE DEF owner, active
  <2>3. QED
    BY <2>1, <2>2, SameAlliance
<1>2. \A x \in T : getAlliance(g2, x.giver, active) = A(x)
  <2> TAKE x \in T
  <2>1. x.giver \in DOMAIN g.players \cup {NoPlayer}
    BY Zenon DEF Gifts
  <2>2. active \in DOMAIN g.players \cup {NoPlayer}
    BY Zenon
  <2> HIDE DEF active
  <2>3. QED
    BY <2>1, <2>2, SameAlliance, Zenon
<1>3. Gifts(g2, "terrain") = T
  BY Zenon DEF Gifts, SameTeams
<1>4. ReachingTerrain(g, terrain) = {x \in T : C(x, B, A(x))}
  BY Zenon DEF ReachingTerrain
<1>5. ReachingTerrain(g2, terrain)
        = {x \in T : C(x, B, getAlliance(g2, x.giver, active))}
  <2>1. ReachingTerrain(g2, terrain)
          = {x \in Gifts(g2, "terrain") :
               C(x, getAlliance(g2, owner, active), getAlliance(g2, x.giver, active))}
    BY Zenon DEF ReachingTerrain
  <2> HIDE DEF C, A, T, B
  <2>2. QED
    BY <2>1, <1>1, <1>3, Zenon
<1> HIDE DEF C, A, T, B
<1>6. {x \in T : C(x, B, getAlliance(g2, x.giver, active))} = {x \in T : C(x, B, A(x))}
  BY <1>2, Zenon
<1>7. QED
  BY <1>4, <1>5, <1>6, Zenon

\* What reaches a terrain, as a set, in games where everyone gives the same
\* or nothing that reaches it.
LEMMA SameTerrainAnswer ==
  ASSUME NEW g, NEW g2, IsGame(g), SamePeople(g, g2),
         g2.playerOrder = g.playerOrder, g2.playerTurn = g.playerTurn,
         NEW w \in SetToSeqs(DOMAIN g.players),
         NEW w2 \in SetToSeqs(DOMAIN g.players), IsGame(g2),
         NEW place, g2.terrains[place] = g.terrains[place],
         ActiveIsKnown(g) =>
           AlikeFor(g, g2, "terrain", ReachingTerrain(g, g.terrains[place]))
  PROVE  TerrainAnswer(g2, w2, place) = TerrainAnswer(g, w, place)
<1> DEFINE terrain == g.terrains[place]
           R == ReachingTerrain(g, terrain)
           kind == "terrain"
           s == EffectsOfAll(g, w, kind, R)
           s2 == EffectsOfAll(g2, w2, kind, R)
           fails == terrain.name \notin DOMAIN ModData.terrains \/ ~ActiveIsKnown(g)
<1>1. activePlayer(g2) = activePlayer(g) /\ DOMAIN g2.players = DOMAIN g.players
  BY Zenon DEF activePlayer, SamePeople
<1>2. ActiveIsKnown(g2) <=> ActiveIsKnown(g)
  BY <1>1, Zenon DEF ActiveIsKnown
<1>3. CASE fails
  <2>1. /\ getAllPassiveTerrainEffects(g, w, place) = Throws
        /\ getAllPassiveTerrainEffects(g2, w2, place) = Throws
    BY <1>2, <1>3, Zenon DEF getAllPassiveTerrainEffects
  <2>2. QED
    BY <2>1, Zenon DEF TerrainAnswer
<1>4. CASE ~fails
  <2>1. ReachingTerrain(g2, terrain) = R
    <3>1. SameTeams(g, g2)
      BY PeopleSameTeams
    <3>2. OwnerOf(g2, terrain) = OwnerOf(g, terrain)
      BY PeopleOwner
    <3>3. activePlayer(g) \in DOMAIN g.players
      BY <1>4, Zenon DEF ActiveIsKnown
    <3>4. QED
      BY <1>1, <3>1, <3>2, <3>3, SameReachingTerrain
  <2>2. getAllPassiveTerrainEffects(g, w, place) = s
    BY <1>4, Zenon DEF getAllPassiveTerrainEffects
  <2>3. getAllPassiveTerrainEffects(g2, w2, place) = s2
    <3>1. g2.terrains[place] = terrain
      BY Zenon
    <3>2. getAllPassiveTerrainEffects(g2, w2, place)
            = EffectsOfAll(g2, w2, kind, ReachingTerrain(g2, terrain))
      BY <1>2, <1>4, <3>1, Zenon DEF getAllPassiveTerrainEffects
    <3>3. QED
      BY <2>1, <3>2, Zenon
  <2>4. /\ w \in Seq(DOMAIN g.players) /\ w2 \in Seq(DOMAIN g.players)
        /\ ToSet(w) = DOMAIN g.players /\ ToSet(w2) = DOMAIN g.players
        /\ w2 \in Seq(DOMAIN g2.players)
    <3>1. IsFiniteSet(DOMAIN g.players)
      BY Zenon DEF IsGame
    <3>2. /\ w \in Seq(DOMAIN g.players) /\ w2 \in Seq(DOMAIN g.players)
          /\ ToSet(w) = DOMAIN g.players /\ ToSet(w2) = DOMAIN g.players
      BY <3>1, WalkOfPlayers, Zenon
    <3>3. QED
      BY <1>1, <3>2, Zenon
  <2>5. AlikeFor(g, g2, kind, R) /\ kind \in Kinds
    BY <1>4, Zenon DEF Kinds
  <2> HIDE DEF kind, R, terrain
  <2>6. ToSet(s2) = ToSet(s)
    BY <2>4, <2>5, SameReach
  <2>7. s # Throws
    BY <2>4, <2>5, AllNoThrow
  <2>8. s2 # Throws
    BY <2>4, <2>5, AllNoThrow
  <2>9. QED
    BY <2>2, <2>3, <2>6, <2>7, <2>8, Zenon DEF TerrainAnswer
<1>5. QED
  BY <1>3, <1>4

\* Who affects nobody in the turn gives nothing that reaches a terrain.
LEMMA UnreachedTerrain ==
  ASSUME NEW g, IsGame(g), NEW g2, SamePeople(g, g2),
         NEW p \in DOMAIN g.players, CannotReachTerrains(g, p), NEW terrain
  PROVE  /\ ToSet(EffectsOf(g, p, "terrain")) \cap ReachingTerrain(g, terrain) = {}
         /\ ToSet(EffectsOf(g2, p, "terrain")) \cap ReachingTerrain(g, terrain) = {}
<1> DEFINE E == ToSet(EffectsOf(g, p, "terrain"))
           E2 == ToSet(EffectsOf(g2, p, "terrain"))
           alliance == getAlliance(g, p, activePlayer(g))
<1>1. E \subseteq Repertoire(g, p, "terrain") /\ E2 \subseteq Repertoire(g, p, "terrain")
  BY PeopleRepertoire, Zenon DEF Kinds
<1>2. p \in DOMAIN g2.players
  BY Zenon DEF SamePeople
<1>3. \A x \in E \cup E2 : x.giver = p
  <2>1. "terrain" \in Kinds
    BY DEF Kinds
  <2>2. E = GiftsOf(g, p, "terrain") /\ E2 = GiftsOf(g2, p, "terrain")
    BY <1>2, <2>1, EffectsType, Zenon
  <2> HIDE DEF E, E2
  <2>3. TAKE x \in E \cup E2
  <2>4. PICK name : x = [effect |-> ModData.effects["terrain"][name], giver |-> p]
    BY <2>2, Zenon DEF GiftsOf
  <2>5. QED
    BY <2>4
<1>4. \A x \in ReachingTerrain(g, terrain) : x.giver = p =>
        Names(x.effect, "affects", alliance)
  BY Zenon DEF ReachingTerrain
<1>5. \A x \in Repertoire(g, p, "terrain") : ~Names(x.effect, "affects", alliance)
  BY Zenon DEF CannotReachTerrains, Names
<1> HIDE DEF E, E2, alliance
<1>6. E \cap ReachingTerrain(g, terrain) = {} /\ E2 \cap ReachingTerrain(g, terrain) = {}
  BY <1>1, <1>3, <1>4, <1>5, Zenon
<1>7. QED
  BY <1>6, Zenon DEF E, E2

\* A step changes nothing where it touches nobody that can reach.
LEMMA GiversOnly == TypeOK /\ TypeOK' /\ Next => OnlyGiversStep
<1> SUFFICES ASSUME TypeOK, TypeOK', Next,
                    game' = [game EXCEPT !.players = game'.players,
                                         !.terrains = game'.terrains]
             PROVE  /\ SameVariant =>
                         \A u \in DOMAIN game.units :
                           (\A p \in Touched : CannotReachUnit(game, p, game.units[u]))
                             => SameAnswers(u)
                    /\ (\A p \in Touched : CannotReachTerrains(game, p)) =>
                         \A place \in DOMAIN game.terrains :
                           game'.terrains[place] = game.terrains[place] =>
                             TerrainAnswer(game', walk', place)
                               = TerrainAnswer(game, walk, place)
  BY Zenon DEF OnlyGiversStep
<1>1. /\ IsGame(game) /\ IsGame(game') /\ SamePeople(game, game')
      /\ walk \in SetToSeqs(DOMAIN game.players)
      /\ walk' \in SetToSeqs(DOMAIN game.players)
  <2>1. SamePeople(game, game')
    BY PeopleStay
  <2>2. DOMAIN game'.players = DOMAIN game.players
    BY <2>1, Zenon DEF SamePeople
  <2>3. QED
    BY <2>1, <2>2, Zenon DEF TypeOK
<1>2. /\ game'.coPowers = game.coPowers /\ game'.units = game.units
      /\ game'.playerOrder = game.playerOrder /\ game'.playerTurn = game.playerTurn
  <2>1. /\ "coPowers" \in DOMAIN game /\ "units" \in DOMAIN game
        /\ "playerOrder" \in DOMAIN game /\ "playerTurn" \in DOMAIN game
    BY <1>1 DEF IsGame
  <2>2. QED
    BY <2>1
<1>3. \A p \in DOMAIN game.players \ Touched : Left(game, game', p)
  BY Zenon DEF Touched, Left
<1>4. ASSUME SameVariant, NEW u \in DOMAIN game.units,
             \A p \in Touched : CannotReachUnit(game, p, game.units[u])
      PROVE  SameAnswers(u)
  <2> DEFINE unit == game.units[u]
  <2>1. \A p \in DOMAIN game.players :
          Left(game, game', p) \/ CannotReachUnit(game, p, unit)
    BY <1>3, <1>4, Zenon
  <2>2. getCurrentVariant(game') = getCurrentVariant(game)
    BY <1>4, Zenon DEF SameVariant
  <2>3. IsUnit(unit)
    BY <1>1, Zenon DEF IsGame
  <2> HIDE DEF unit
  <2>4. SameAround(game, game', unit)
    BY <1>1, <1>2, <2>1, <2>2, NothingAround
  <2>5. UnitAnswers(game', walk', unit) = UnitAnswers(game, walk, unit)
    BY <1>1, <2>3, <2>4, SameUnitAnswers
  <2>6. QED
    BY <1>2, <2>5, Zenon DEF SameAnswers, unit
<1>5. ASSUME \A p \in Touched : CannotReachTerrains(game, p),
             NEW place \in DOMAIN game.terrains,
             game'.terrains[place] = game.terrains[place]
      PROVE  TerrainAnswer(game', walk', place) = TerrainAnswer(game, walk, place)
  <2> DEFINE R == ReachingTerrain(game, game.terrains[place])
  <2>1. \A p \in Touched :
          /\ ToSet(EffectsOf(game, p, "terrain")) \cap R = {}
          /\ ToSet(EffectsOf(game', p, "terrain")) \cap R = {}
    <3> TAKE p \in Touched
    <3>1. p \in DOMAIN game.players /\ CannotReachTerrains(game, p)
      BY <1>5, Zenon DEF Touched
    <3>2. QED
      BY <1>1, <3>1, UnreachedTerrain
  <2>2. \A p \in DOMAIN game.players \ Touched :
          EffectsOf(game', p, "terrain") = EffectsOf(game, p, "terrain")
    <3> TAKE p \in DOMAIN game.players \ Touched
    <3>1. game'.players[p] = game.players[p]
      BY <1>3, Zenon DEF Left
    <3>2. QED
      BY <1>2, <3>1, SameEffects
  <2> HIDE DEF R
  <2>3. AlikeFor(game, game', "terrain", R)
    BY <1>1, <2>1, <2>2, Zenon DEF AlikeFor, SamePeople
  <2>4. QED
    BY <1>1, <1>2, <1>5, <2>3, SameTerrainAnswer DEF R
<1>6. QED
  BY <1>4, <1>5, Zenon

\* What a player who can reach a unit with no effect earns, invokes, takes or
\* loses changes no answer about the unit, in games with any number of players
\* and under any mod: the effects are looked up by who gives them
\* (getAllPassiveUnitEffects, getAllPassiveTerrainEffects).
THEOREM GiversCount == Spec => OnlyGiversCount
<1>1. TypeOK /\ TypeOK' /\ [Next]_vars => OnlyGiversStep \/ UNCHANGED vars
  BY GiversOnly, Zenon
<1>2. QED
  BY <1>1, Typed, PTL DEF Spec, OnlyGiversCount

-----------------------------------------------------------------------------
(* Turn and hashing do not matter.                                         *)

\* A turn is itself modulo the length of a round, one round later too.
LEMMA Rounds ==
  ASSUME NEW n \in Nat, NEW a \in 0..(n - 1)
  PROVE  a % n = a /\ (a + n) % n = a
OBVIOUS

\* The players in turn are those of the order, whoever begins.
LEMMA OrderedSet ==
  ASSUME NEW g, IsGame(g), g.playerTurn + 1 \in DOMAIN g.playerOrder
  PROVE  /\ orderedPlayers(g) \in Seq(ToSet(g.playerOrder))
         /\ ToSet(orderedPlayers(g)) = ToSet(g.playerOrder)
<1> DEFINE order == g.playerOrder
           n == Len(order)
           t == g.playerTurn
           seat(i) == ((t + i - 1) % n) + 1
<1>1. order \in Seq(Int) /\ t \in Nat
  BY Zenon DEF IsGame
<1> HIDE DEF order, t
<1>2. n \in Nat /\ DOMAIN order = 1..n
  BY <1>1
<1>3. t \in 0..(n - 1)
  <2>1. t + 1 \in DOMAIN order
    BY Zenon DEF order, t
  <2>2. QED
    BY <1>1, <1>2, <2>1
<1>4. orderedPlayers(g) = [i \in 1..n |-> order[seat(i)]]
  BY Zenon DEF orderedPlayers, order, t
<1> HIDE DEF n
<1>5. \A i \in 1..n : seat(i) \in 1..n
  BY <1>2, <1>3
<1>6. ASSUME NEW j \in 1..n PROVE \E i \in 1..n : seat(i) = j
  <2>1. j - 1 \in 0..(n - 1)
    BY <1>2
  <2>2. (j - 1) % n = j - 1 /\ ((j - 1) + n) % n = j - 1
    BY <2>1, <1>2, Rounds
  <2>3. CASE j - 1 >= t
    <3>1. j - t \in 1..n /\ t + (j - t) - 1 = j - 1
      BY <1>2, <1>3, <2>3
    <3>2. seat(j - t) = j
      BY <1>2, <2>2, <3>1
    <3>3. QED
      BY <3>1, <3>2, Zenon
  <2>4. CASE j - 1 < t
    <3>1. (j - t) + n \in 1..n /\ t + ((j - t) + n) - 1 = (j - 1) + n
      BY <1>2, <1>3, <2>4
    <3>2. seat((j - t) + n) = j
      BY <1>2, <2>2, <3>1
    <3>3. QED
      BY <3>1, <3>2, Zenon
  <2>5. QED
    BY <2>1, <2>3, <2>4, <1>2, <1>3
<1> HIDE DEF seat
<1>7. \A i \in 1..n : order[seat(i)] \in ToSet(order)
  BY <1>2, <1>5, Zenon DEF ToSet
<1>8. orderedPlayers(g) \in Seq(ToSet(order))
  BY <1>2, <1>4, <1>7
<1>9. ToSet(orderedPlayers(g)) = {order[seat(i)] : i \in 1..n}
  BY <1>4, Zenon DEF ToSet
<1>10. ToSet(order) = {order[j] : j \in 1..n}
  BY <1>2, Zenon DEF ToSet
<1>11. {order[seat(i)] : i \in 1..n} = {order[j] : j \in 1..n}
  BY <1>5, <1>6, Zenon
<1>12. QED
  BY <1>8, <1>9, <1>10, <1>11, Zenon DEF order

\* The rule for a variant, where rules do not build on one another.
RuleOf(S, variant) ==
  IF \E x \in S : x.effect.movementClassVariantReplace = variant
  THEN (CHOOSE x \in S : x.effect.movementClassVariantReplace = variant)
         .effect.movementClassVariantOverride
  ELSE variant

\* It decides, in whatever order the rules are applied.
LEMMA RulesUnchained ==
  ASSUME NEW T, NEW given \in Seq(T), Unchained(given), NEW variant
  PROVE  MovementVariant(given, variant) = RuleOf(ToSet(given), variant)
<1> DEFINE n == Len(given)
           c == Afters(given, variant)
           from(i) == given[n + 1 - i].effect.movementClassVariantReplace
           to(i) == given[n + 1 - i].effect.movementClassVariantOverride
           Ruled(i) ==
             \/ c[i] = variant /\ \A k \in 1..i : from(k) # variant
             \/ \E k \in 1..i : from(k) = variant /\ c[i] = to(k)
           S == {i \in Nat : i <= n => Ruled(i)}
<1>1. n \in Nat /\ DOMAIN given = 1..n
  OBVIOUS
<1>2. /\ c[0] = variant
      /\ \A i \in 1..n : c[i] = IF c[i - 1] = from(i) THEN to(i) ELSE c[i - 1]
      /\ MovementVariant(given, variant) = c[n]
  BY VariantUnfold, Zenon
<1> HIDE DEF c, n
<1>3. \A i \in 1..n : n + 1 - i \in 1..n
  BY <1>1
<1>4. \A i, j \in 1..n : /\ to(i) # from(j)
                         /\ from(i) = from(j) => to(i) = to(j)
  BY <1>1, <1>3, Zenon DEF Unchained
<1> HIDE DEF from, to
<1>5. 0 \in S
  BY <1>2
<1>6. ASSUME NEW i \in Nat, i \in S PROVE i + 1 \in S
  <2> SUFFICES ASSUME i + 1 <= n PROVE Ruled(i + 1)
    OBVIOUS
  <2>1. /\ Ruled(i) /\ i + 1 \in 1..n /\ (i + 1) - 1 = i
        /\ 1..i \subseteq 1..n /\ 1..(i + 1) = 1..i \cup {i + 1}
    BY <1>1, <1>6
  <2>2. c[i + 1] = IF c[i] = from(i + 1) THEN to(i + 1) ELSE c[i]
    BY <1>2, <2>1, Zenon
  <2>3. CASE c[i] = variant /\ \A k \in 1..i : from(k) # variant
    BY <2>1, <2>2, <2>3, Zenon
  <2>4. CASE \E k \in 1..i : from(k) = variant /\ c[i] = to(k)
    BY <2>1, <2>2, <2>4, <1>4, Zenon
  <2>5. QED
    BY <2>1, <2>3, <2>4
<1>7. Ruled(n)
  <2> HIDE DEF Ruled
  <2>1. Nat \subseteq S
    <3> HIDE DEF S
    <3>1. QED
      BY <1>5, <1>6, Induction, Zenon
  <2>2. QED
    BY <1>1, <2>1
<1>8. \A x \in ToSet(given) : \E k \in 1..n :
         /\ from(k) = x.effect.movementClassVariantReplace
         /\ to(k) = x.effect.movementClassVariantOverride
  <2> TAKE x \in ToSet(given)
  <2>1. PICK j \in 1..n : x = given[j]
    BY <1>1, Zenon DEF ToSet
  <2>2. n + 1 - j \in 1..n /\ n + 1 - (n + 1 - j) = j
    BY <1>1
  <2>3. QED
    BY <2>1, <2>2, Zenon DEF from, to
<1>9. CASE c[n] = variant /\ \A k \in 1..n : from(k) # variant
  BY <1>2, <1>8, <1>9, Zenon DEF RuleOf
<1>10. ASSUME NEW k \in 1..n, from(k) = variant, c[n] = to(k)
       PROVE  MovementVariant(given, variant) = RuleOf(ToSet(given), variant)
  <2> DEFINE Is(x) == x.effect.movementClassVariantReplace = variant
             x0 == CHOOSE x \in ToSet(given) : Is(x)
  <2>1. \E x \in ToSet(given) : Is(x)
    BY <1>1, <1>3, <1>10, Zenon DEF from, ToSet
  <2>2. x0 \in ToSet(given) /\ Is(x0)
    BY <2>1, Zenon
  <2>3. RuleOf(ToSet(given), variant) = x0.effect.movementClassVariantOverride
    BY <2>1, Zenon DEF RuleOf
  <2> HIDE DEF x0
  <2>4. x0.effect.movementClassVariantOverride = to(k)
    BY <1>4, <1>8, <1>10, <2>2, Zenon
  <2>5. QED
    BY <1>2, <1>10, <2>3, <2>4, Zenon
<1>11. QED
  BY <1>7, <1>9, <1>10, Zenon

\* What reaches a player depends on the teams.
LEMMA SameReachingPlayer ==
  ASSUME NEW g, NEW g2, SameTeams(g, g2),
         NEW target \in DOMAIN g.players \cup {NoPlayer}, NEW members
  PROVE  ReachingPlayer(g2, target, members) = ReachingPlayer(g, target, members)
<1> DEFINE T == Gifts(g, "global")
           A(x) == getAlliance(g, x.giver, target)
           C(x, alliance) == /\ Names(x.effect, "targets", alliance)
                             /\ members \subseteq DOMAIN x.effect
<1>1. \A x \in T : getAlliance(g2, x.giver, target) = A(x)
  <2> TAKE x \in T
  <2>1. x.giver \in DOMAIN g.players \cup {NoPlayer}
    BY Zenon DEF Gifts
  <2>2. QED
    BY <2>1, SameAlliance, Zenon
<1>2. Gifts(g2, "global") = T
  BY Zenon DEF Gifts, SameTeams
<1>3. ReachingPlayer(g, target, members) = {x \in T : C(x, A(x))}
  BY Zenon DEF ReachingPlayer
<1>4. ReachingPlayer(g2, target, members)
        = {x \in T : C(x, getAlliance(g2, x.giver, target))}
  BY <1>2, Zenon DEF ReachingPlayer
<1> HIDE DEF C, A, T
<1>5. {x \in T : C(x, getAlliance(g2, x.giver, target))} = {x \in T : C(x, A(x))}
  BY <1>1, Zenon
<1>6. QED
  BY <1>3, <1>4, <1>5, Zenon

\* The players in turn are players of the game.
LEMMA OrderedPlayers ==
  ASSUME NEW g, IsGame(g), ActiveIsKnown(g),
         ToSet(g.playerOrder) \subseteq DOMAIN g.players
  PROVE  /\ orderedPlayers(g) \in Seq(DOMAIN g.players)
         /\ ToSet(orderedPlayers(g)) = ToSet(g.playerOrder)
<1>1. g.playerTurn + 1 \in DOMAIN g.playerOrder
  BY Zenon DEF ActiveIsKnown
<1>2. /\ orderedPlayers(g) \in Seq(ToSet(g.playerOrder))
      /\ ToSet(orderedPlayers(g)) = ToSet(g.playerOrder)
  BY <1>1, OrderedSet
<1> DEFINE s == orderedPlayers(g)
           U == ToSet(g.playerOrder)
           P == DOMAIN g.players
<1>3. s \in Seq(U) /\ U \subseteq P
  BY <1>2, Zenon
<1> HIDE DEF s, U, P
<1>4. s \in Seq(P)
  BY <1>3
<1>5. QED
  BY <1>2, <1>4, Zenon DEF s, P

\* The effects on a player who is named, unless the turn order throws.
LEMMA GlobalUnfold ==
  ASSUME NEW g, IsGame(g), NEW target, target # NoPlayer, NEW members
  PROVE  LET ready == /\ ActiveIsKnown(g)
                      /\ ToSet(g.playerOrder) \subseteq DOMAIN g.players
             answer == getAllPassiveGlobalEffects(g, target, members)
         IN  /\ answer # Throws <=> ready
             /\ ready => answer = EffectsOfAll(g, orderedPlayers(g), "global",
                                    ReachingPlayer(g, target, members))
<1> DEFINE ready == /\ ActiveIsKnown(g)
                    /\ ToSet(g.playerOrder) \subseteq DOMAIN g.players
           answer == getAllPassiveGlobalEffects(g, target, members)
           given == EffectsOfAll(g, orderedPlayers(g), "global",
                                 ReachingPlayer(g, target, members))
<1>1. answer = IF ready THEN given ELSE Throws
  BY Zenon DEF getAllPassiveGlobalEffects
<1>2. ASSUME ready PROVE given # Throws
  <2>1. orderedPlayers(g) \in Seq(DOMAIN g.players)
    BY <1>2, OrderedPlayers
  <2>2. "global" \in Kinds
    BY DEF Kinds
  <2>3. QED
    BY <2>1, <2>2, AllNoThrow
<1> HIDE DEF ready, answer, given
<1>3. QED
  BY <1>1, <1>2, Zenon DEF ready, answer, given

\* What an owned unit pays to move is the same in every turn, where the rules
\* that replace the variant do not build on one another.
LEMMA SameMovement ==
  ASSUME NEW g, IsGame(g), NEW g2, IsGame(g2), g2.players = g.players,
         g2.coPowers = g.coPowers, g2.playerOrder = g.playerOrder,
         g2.playerTurn + 1 \in DOMAIN g2.playerOrder,
         getCurrentVariant(g2) = getCurrentVariant(g), NEW unit,
         OwnerOf(g, unit) # NoPlayer,
         getAllPassiveGlobalEffects(g, OwnerOf(g, unit), ReplacesVariant) # Throws,
         Unchained(getAllPassiveGlobalEffects(g, OwnerOf(g, unit), ReplacesVariant)),
         NEW name
  PROVE  calculateMovementCost(g2, unit, name) = calculateMovementCost(g, unit, name)
<1> DEFINE target == OwnerOf(g, unit)
           R == ReachingPlayer(g, target, ReplacesVariant)
           a == getAllPassiveGlobalEffects(g, target, ReplacesVariant)
           b == getAllPassiveGlobalEffects(g2, target, ReplacesVariant)
           v == getCurrentVariant(g)
           T == Gifts(g, "global")
<1>1. OwnerOf(g2, unit) = target /\ SameTeams(g, g2)
  BY Zenon DEF OwnerOf, SameTeams
<1>2. ActiveIsKnown(g) /\ ToSet(g.playerOrder) \subseteq DOMAIN g.players
  BY GlobalUnfold, Zenon
<1>3. ActiveIsKnown(g2) /\ ToSet(g2.playerOrder) \subseteq DOMAIN g2.players
  <2>1. activePlayer(g2) \in ToSet(g2.playerOrder)
    BY Zenon DEF activePlayer, ToSet
  <2>2. QED
    BY <1>2, <2>1, Zenon DEF ActiveIsKnown
<1>4. a = EffectsOfAll(g, orderedPlayers(g), "global", R)
  BY <1>2, GlobalUnfold, Zenon
<1>5. b # Throws /\ b = EffectsOfAll(g2, orderedPlayers(g2), "global", R)
  <2>1. target \in DOMAIN g.players \cup {NoPlayer}
    BY OwnerIsPlayer, Zenon
  <2> HIDE DEF target
  <2>2. ReachingPlayer(g2, target, ReplacesVariant) = R
    BY <1>1, <2>1, SameReachingPlayer
  <2>3. target # NoPlayer
    BY Zenon DEF target
  <2>4. /\ b # Throws
        /\ b = EffectsOfAll(g2, orderedPlayers(g2), "global",
                            ReachingPlayer(g2, target, ReplacesVariant))
    BY <1>3, <2>3, GlobalUnfold, Zenon
  <2>5. QED
    BY <2>2, <2>4, Zenon
<1>6. /\ orderedPlayers(g) \in Seq(DOMAIN g.players)
      /\ orderedPlayers(g2) \in Seq(DOMAIN g.players)
      /\ ToSet(orderedPlayers(g2)) = ToSet(orderedPlayers(g))
  <2>1. /\ orderedPlayers(g) \in Seq(DOMAIN g.players)
        /\ ToSet(orderedPlayers(g)) = ToSet(g.playerOrder)
    BY <1>2, OrderedPlayers
  <2>2. /\ orderedPlayers(g2) \in Seq(DOMAIN g2.players)
        /\ ToSet(orderedPlayers(g2)) = ToSet(g2.playerOrder)
    BY <1>3, OrderedPlayers
  <2>3. QED
    BY <2>1, <2>2, Zenon
<1>7. \A p \in DOMAIN g.players : EffectsOf(g2, p, "global") = EffectsOf(g, p, "global")
  <2> TAKE p \in DOMAIN g.players
  <2>1. g2.players[p] = g.players[p]
    BY Zenon
  <2>2. QED
    BY <2>1, SameEffects
<1>8. AlikeFor(g, g2, "global", R) /\ "global" \in Kinds
  <2> HIDE DEF R
  <2>1. QED
    BY <1>7, Zenon DEF AlikeFor, Kinds
<1>9. a \in Seq(T) /\ b \in Seq(T)
  <2> DEFINE kind == "global"
             w == orderedPlayers(g)
             w2 == orderedPlayers(g2)
  <2>1. w \in Seq(DOMAIN g.players) /\ w2 \in Seq(DOMAIN g2.players) /\ kind \in Kinds
    BY <1>6, <1>8, Zenon
  <2> HIDE DEF w, w2, kind, R
  <2>2. EffectsOfAll(g, w, kind, R) \in Seq(Gifts(g, kind))
    BY <2>1, AllType
  <2>3. EffectsOfAll(g2, w2, kind, R) \in Seq(Gifts(g2, kind))
    BY <2>1, AllType
  <2>4. Gifts(g2, kind) = Gifts(g, kind)
    BY Zenon DEF Gifts
  <2>5. QED
    BY <1>4, <1>5, <2>2, <2>3, <2>4, Zenon DEF w, w2, kind
<1>10. ToSet(b) = ToSet(a)
  <2> DEFINE kind == "global"
  <2>1. AlikeFor(g, g2, kind, R) /\ kind \in Kinds
    BY <1>8, Zenon
  <2> HIDE DEF kind, R
  <2>2. ToSet(EffectsOfAll(g2, orderedPlayers(g2), kind, R))
          = ToSet(EffectsOfAll(g, orderedPlayers(g), kind, R))
    BY <1>6, <2>1, SameReach
  <2>3. QED
    BY <1>4, <1>5, <2>2, Zenon DEF kind
<1>11. Unchained(a) /\ a # Throws
  BY Zenon
<1> HIDE DEF a, b, T, R
<1>12. Unchained(b)
  <2>1. \A i \in DOMAIN b : \E j \in DOMAIN a : b[i] = a[j]
    <3>1. \A i \in DOMAIN b : b[i] \in ToSet(a)
      BY <1>10, Zenon DEF ToSet
    <3>2. QED
      BY <3>1, Zenon DEF ToSet
  <2> DEFINE from(x) == x.effect.movementClassVariantReplace
             to(x) == x.effect.movementClassVariantOverride
  <2>2. \A i, j \in DOMAIN a : /\ to(a[i]) # from(a[j])
                               /\ from(a[i]) = from(a[j]) => to(a[i]) = to(a[j])
    BY <1>11, Zenon DEF Unchained
  <2>3. \A i, j \in DOMAIN b : /\ to(b[i]) # from(b[j])
                               /\ from(b[i]) = from(b[j]) => to(b[i]) = to(b[j])
    <3> HIDE DEF from, to
    <3> TAKE i \in DOMAIN b, j \in DOMAIN b
    <3>1. PICK i2 \in DOMAIN a : b[i] = a[i2]
      BY <2>1
    <3>2. PICK j2 \in DOMAIN a : b[j] = a[j2]
      BY <2>1
    <3>3. QED
      BY <2>2, <3>1, <3>2, Zenon
  <2>4. QED
    BY <2>3, Zenon DEF Unchained
<1>13. MovementVariant(b, v) = MovementVariant(a, v)
  <2> HIDE DEF v
  <2>1. MovementVariant(a, v) = RuleOf(ToSet(a), v)
    BY <1>9, <1>11, RulesUnchained
  <2>2. MovementVariant(b, v) = RuleOf(ToSet(b), v)
    BY <1>9, <1>12, RulesUnchained
  <2>3. QED
    BY <1>10, <2>1, <2>2, Zenon
<1> DEFINE class == ModData.movements[TypeOf(unit).movementClass]
           Answer(given, variant) ==
             LET mods == ValueOr(class.variantMods, variant, <<>>)
                 mod == IF name \in DOMAIN mods THEN mods[name] ELSE 0
             IN  Asked(unit,
                   IF \/ TypeOf(unit).movementClass \notin DOMAIN ModData.movements
                      \/ given = Throws
                   THEN Throws
                   ELSE IF name \notin DOMAIN class.movementCosts THEN "none"
                   ELSE Larger(0, class.movementCosts[name] + mod))
<1>14. calculateMovementCost(g, unit, name) = Answer(a, MovementVariant(a, v))
  BY Zenon DEF calculateMovementCost, a
<1>15. calculateMovementCost(g2, unit, name) = Answer(b, MovementVariant(b, v))
  <2>1. /\ getAllPassiveGlobalEffects(g2, OwnerOf(g2, unit), ReplacesVariant) = b
        /\ getCurrentVariant(g2) = v
    BY <1>1, Zenon DEF b
  <2>2. QED
    BY <2>1, Zenon DEF calculateMovementCost
<1>16. \A x : Answer(a, x) = Answer(b, x)
  BY <1>5, <1>11, Zenon
<1> HIDE DEF Answer
<1>17. QED
  BY <1>13, <1>14, <1>15, <1>16, Zenon

\* A step that changes the turn leaves one that there is.
LEMMA TurnThere ==
  TypeOK /\ Next /\ game.playerTurn + 1 \in DOMAIN game.playerOrder
  => game'.playerTurn + 1 \in DOMAIN game'.playerOrder
<1> SUFFICES ASSUME TypeOK, Next, game.playerTurn + 1 \in DOMAIN game.playerOrder
             PROVE  game'.playerTurn + 1 \in DOMAIN game'.playerOrder
  OBVIOUS
<1>0. /\ IsGame(game)
      /\ "playerOrder" \in DOMAIN game /\ "playerTurn" \in DOMAIN game
  BY DEF TypeOK, IsGame
<1>1. CASE PassTurn
  BY <1>0, <1>1, TurnMoves, Zenon DEF PassTurn, Play
<1>2. CASE /\ game'.playerTurn = game.playerTurn
           /\ game'.playerOrder = game.playerOrder
  BY <1>2, Zenon
<1>3. ASSUME NEW p \in DOMAIN game.players, NEW power, UsePower(p, power)
      PROVE  /\ game'.playerTurn = game.playerTurn
             /\ game'.playerOrder = game.playerOrder
  BY <1>0, <1>3 DEF UsePower, Play
<1>4. ASSUME NEW p \in DOMAIN game.players, NEW funds, Earn(p, funds)
      PROVE  /\ game'.playerTurn = game.playerTurn
             /\ game'.playerOrder = game.playerOrder
  BY <1>0, <1>4 DEF Earn, Play
<1>5. ASSUME NEW place \in DOMAIN game.terrains, NEW p, Capture(place, p)
      PROVE  /\ game'.playerTurn = game.playerTurn
             /\ game'.playerOrder = game.playerOrder
  BY <1>0, <1>5 DEF Capture, Play
<1>6. ASSUME NEW u \in DOMAIN game.units, NEW h, SetHitPoints(u, h)
      PROVE  /\ game'.playerTurn = game.playerTurn
             /\ game'.playerOrder = game.playerOrder
  BY <1>0, <1>6 DEF SetHitPoints, Play
<1>7. ASSUME NEW u \in DOMAIN game.units, NEW place, MoveUnit(u, place)
      PROVE  /\ game'.playerTurn = game.playerTurn
             /\ game'.playerOrder = game.playerOrder
  BY <1>0, <1>7 DEF MoveUnit, Play
<1>8. CASE Rehash
  BY <1>8, <1>2 DEF Rehash
<1>9. QED
  BY <1>1, <1>2, <1>3, <1>4, <1>5, <1>6, <1>7, <1>8, Zenon DEF Next

\* A step of the turn or of the map leaves the answers.
LEMMA TurnOnly == TypeOK /\ TypeOK' /\ Next => TurnAndHashingStep
<1> SUFFICES ASSUME TypeOK, TypeOK', Next
             PROVE  TurnAndHashingStep
  OBVIOUS
<1>1. /\ IsGame(game) /\ IsGame(game') /\ SamePeople(game, game')
      /\ walk \in SetToSeqs(DOMAIN game.players)
      /\ walk' \in SetToSeqs(DOMAIN game.players)
  <2>1. SamePeople(game, game')
    BY PeopleStay
  <2>2. DOMAIN game'.players = DOMAIN game.players
    BY <2>1, Zenon DEF SamePeople
  <2>3. QED
    BY <2>1, <2>2, Zenon DEF TypeOK
<1>2. ASSUME game' = [game EXCEPT !.playerTurn = game'.playerTurn], SameVariant,
             NEW u \in DOMAIN game.units
      PROVE  SameAnswers(u) /\ SameMovementCost(u)
  <2> DEFINE unit == game.units[u]
  <2>1. /\ game'.coPowers = game.coPowers /\ game'.units = game.units
        /\ game'.playerOrder = game.playerOrder
        /\ game'.players = game.players /\ game'.terrains = game.terrains
    <3>1. /\ "coPowers" \in DOMAIN game /\ "units" \in DOMAIN game
          /\ "playerOrder" \in DOMAIN game /\ "players" \in DOMAIN game
          /\ "terrains" \in DOMAIN game
      BY <1>1 DEF IsGame
    <3>2. QED
      BY <1>2, <3>1
  <2>2. getCurrentVariant(game') = getCurrentVariant(game)
    BY <1>2, Zenon DEF SameVariant
  <2>3. IsUnit(unit)
    BY <1>1, <1>2, Zenon DEF IsGame
  <2>4. \A p \in DOMAIN game.players : Left(game, game', p)
    BY <2>1, Zenon DEF Left
  <2> HIDE DEF unit
  <2>5. SameAround(game, game', unit)
    BY <1>1, <2>1, <2>2, <2>4, NothingAround
  <2>6. UnitAnswers(game', walk', unit) = UnitAnswers(game, walk, unit)
    BY <1>1, <2>3, <2>5, SameUnitAnswers
  <2>7. SameAnswers(u)
    BY <2>1, <2>6, Zenon DEF SameAnswers, unit
  <2> DEFINE given == getAllPassiveGlobalEffects(game, OwnerOf(game, unit),
                                                 ReplacesVariant)
  <2>8. ASSUME given # Throws, Unchained(given), OwnerOf(game, unit) # NoPlayer,
               NEW name
        PROVE  calculateMovementCost(game', unit, name)
                 = calculateMovementCost(game, unit, name)
    <3>1. game.playerTurn + 1 \in DOMAIN game.playerOrder
      BY <1>1, <2>8, GlobalUnfold, Zenon DEF ActiveIsKnown
    <3>2. game'.playerTurn + 1 \in DOMAIN game'.playerOrder
      BY <3>1, TurnThere
    <3>3. QED
      BY <1>1, <2>1, <2>2, <2>8, <3>2, SameMovement
  <2>9. SameMovementCost(u)
    BY <2>8, Zenon DEF SameMovementCost, unit
  <2>10. QED
    BY <2>7, <2>9
<1>3. ASSUME game' = game, NEW place \in DOMAIN game.terrains
      PROVE  TerrainAnswer(game', walk', place) = TerrainAnswer(game, walk, place)
  <2> DEFINE R == ReachingTerrain(game, game.terrains[place])
  <2>1. AlikeFor(game, game', "terrain", R)
    BY <1>3, Zenon DEF AlikeFor
  <2>2. /\ game'.playerOrder = game.playerOrder
        /\ game'.playerTurn = game.playerTurn
        /\ game'.terrains[place] = game.terrains[place]
    BY <1>3, Zenon
  <2> HIDE DEF R
  <2>3. QED
    BY <1>1, <2>1, <2>2, SameTerrainAnswer DEF R
<1>4. QED
  BY <1>2, <1>3, Zenon DEF TurnAndHashingStep

\* Neither the order of the unordered map nor whose turn it is changes an
\* answer about a unit, but for the variant; nor what an owned unit pays to
\* move where the rules that replace the variant do not build on one another:
\* the folds of the calculator add up the same effects in any order.
THEOREM TurnAndHashing == Spec => TurnAndHashingDoNotMatter
<1>1. TypeOK /\ TypeOK' /\ [Next]_vars => TurnAndHashingStep \/ UNCHANGED vars
  BY TurnOnly, Zenon
<1>2. QED
  BY <1>1, Typed, PTL DEF Spec, TurnAndHashingDoNotMatter

-----------------------------------------------------------------------------
(* The latest turn decides the variant.                                    *)

\* Numbers up to a bound have a greatest.
LEMMA Greatest ==
  ASSUME NEW n \in Nat, NEW Q, Q \subseteq 1..n, Q # {}
  PROVE  \E m \in Q : \A i \in Q : i <= m
<1> DEFINE L == {k \in Nat : n - k \in Q}
<1>1. PICK q : q \in Q
  BY Zenon
<1>2. n - q \in L
  BY <1>1
<1>3. PICK least \in L : \A k \in L : least <= k
  BY <1>2, Least
<1>4. n - least \in Q
  BY <1>3
<1>5. \A i \in Q : i <= n - least
  <2> TAKE i \in Q
  <2>1. n - i \in L
    OBVIOUS
  <2>2. least <= n - i
    BY <1>3, <2>1, Zenon
  <2>3. QED
    BY <1>3, <2>2
<1>6. QED
  BY <1>4, <1>5, Zenon

\* The greatest of a set of numbers is Max of it.
LEMMA MaxOf ==
  ASSUME NEW Q, Q \subseteq Int, NEW m \in Q, \A i \in Q : i <= m
  PROVE  Max(Q) = m
<1>1. \A y \in Q : m >= y
  OBVIOUS
<1>2. Max(Q) \in Q /\ \A y \in Q : Max(Q) >= y
  BY <1>1, Zenon DEF Max
<1>3. Max(Q) >= m /\ m >= Max(Q) /\ m \in Int /\ Max(Q) \in Int
  BY <1>1, <1>2
<1>4. QED
  BY <1>3

\* The last that is kept is the last that is in the set.
LEMMA KeepLast ==
  ASSUME NEW T, NEW s \in Seq(T), NEW S, NEW m \in DOMAIN s, s[m] \in S,
         \A i \in DOMAIN s : i > m => s[i] \notin S
  PROVE  Keep(s, S) # <<>> /\ Last(Keep(s, S)) = s[m]
<1> DEFINE n == Len(s)
           K == Kept(s, S)
           Q == {k \in Nat : m <= k /\ k <= n => K[k] = K[m]}
<1>1. n \in Nat /\ DOMAIN s = 1..n /\ m \in 1..n /\ \A i \in 1..n : s[i] \in T
  OBVIOUS
<1>2. /\ K \in [0..n -> Seq(T)] /\ Keep(s, S) = K[n]
      /\ \A i \in 1..n : K[i] = IF s[i] \in S THEN Append(K[i - 1], s[i])
                                ELSE K[i - 1]
  BY KeepUnfold
<1>3. \A i \in 1..n : i > m => s[i] \notin S
  BY <1>1, Zenon
<1> HIDE DEF n, K
<1>4. K[m - 1] \in Seq(T) /\ K[m] = Append(K[m - 1], s[m])
  <2>1. m - 1 \in 0..n
    BY <1>1
  <2>2. QED
    BY <1>1, <1>2, <2>1, Zenon
<1>5. Q = Nat
  <2>1. 0 \in Q
    BY <1>1
  <2>2. ASSUME NEW k \in Nat, k \in Q PROVE k + 1 \in Q
    <3> SUFFICES ASSUME m <= k + 1, k + 1 <= n PROVE K[k + 1] = K[m]
      OBVIOUS
    <3>1. CASE m = k + 1
      BY <3>1
    <3>2. CASE m # k + 1
      <4>1. m <= k /\ k <= n /\ k + 1 \in 1..n /\ k + 1 > m /\ (k + 1) - 1 = k
        BY <1>1, <3>2
      <4>2. K[k] = K[m]
        BY <2>2, <4>1
      <4>3. K[k + 1] = K[k]
        BY <1>2, <1>3, <4>1, Zenon
      <4>4. QED
        BY <4>2, <4>3
    <3>3. QED
      BY <3>1, <3>2
  <2> HIDE DEF Q
  <2>3. Nat \subseteq Q
    BY <2>1, <2>2, Induction, Zenon
  <2>4. Q \subseteq Nat
    BY DEF Q
  <2>5. QED
    BY <2>3, <2>4, Zenon
<1>6. K[n] = K[m]
  <2>1. n \in Q
    BY <1>1, <1>5, Zenon
  <2>2. QED
    BY <1>1, <2>1
<1> DEFINE a == K[m - 1]
           x == s[m]
<1>7. a \in Seq(T) /\ x \in T /\ Keep(s, S) = Append(a, x)
  BY <1>1, <1>2, <1>4, <1>6, Zenon
<1> HIDE DEF a, x
<1>8. Append(a, x) # <<>> /\ Append(a, x)[Len(Append(a, x))] = x
  BY <1>7
<1>9. QED
  BY <1>7, <1>8, Zenon DEF Last, x

\* The last of sequences one after the other is that of the last with any.
LEMMA FlattenLast ==
  ASSUME NEW T, NEW ss \in Seq(Seq(T)), NEW m \in DOMAIN ss, ss[m] # <<>>,
         \A i \in DOMAIN ss : i > m => ss[i] = <<>>
  PROVE  FlattenSeq(ss) # <<>> /\ Last(FlattenSeq(ss)) = Last(ss[m])
<1> DEFINE n == Len(ss)
           J == Joined(ss)
           Q == {k \in Nat : m <= k /\ k <= n => J[k] = J[m]}
<1>1. n \in Nat /\ DOMAIN ss = 1..n /\ m \in 1..n /\ \A i \in 1..n : ss[i] \in Seq(T)
  OBVIOUS
<1>2. /\ J \in [0..n -> Seq(T)] /\ FlattenSeq(ss) = J[n]
      /\ \A i \in 1..n : J[i] = J[i - 1] \o ss[i]
  BY FlattenUnfold
<1>3. \A i \in 1..n : i > m => ss[i] = <<>>
  BY <1>1, Zenon
<1> HIDE DEF n, J
<1>4. J[m - 1] \in Seq(T) /\ J[m] = J[m - 1] \o ss[m] /\ ss[m] \in Seq(T)
  <2>1. m - 1 \in 0..n
    BY <1>1
  <2>2. QED
    BY <1>1, <1>2, <2>1, Zenon
<1>5. Q = Nat
  <2>1. 0 \in Q
    BY <1>1
  <2>2. ASSUME NEW k \in Nat, k \in Q PROVE k + 1 \in Q
    <3> SUFFICES ASSUME m <= k + 1, k + 1 <= n PROVE J[k + 1] = J[m]
      OBVIOUS
    <3>1. CASE m = k + 1
      BY <3>1
    <3>2. CASE m # k + 1
      <4>1. /\ m <= k /\ k <= n /\ k + 1 \in 1..n /\ k + 1 > m
            /\ (k + 1) - 1 = k /\ k \in 0..n
        BY <1>1, <3>2
      <4>2. J[k] = J[m]
        BY <2>2, <4>1
      <4>3. J[k + 1] = J[k] \o <<>>
        BY <1>2, <1>3, <4>1, Zenon
      <4>4. J[k] \in Seq(T)
        BY <1>2, <4>1, Zenon
      <4>5. J[k] \o <<>> = J[k]
        BY <4>4
      <4>6. QED
        BY <4>2, <4>3, <4>5, Zenon
    <3>3. QED
      BY <3>1, <3>2
  <2> HIDE DEF Q
  <2>3. Nat \subseteq Q
    BY <2>1, <2>2, Induction, Zenon
  <2>4. Q \subseteq Nat
    BY DEF Q
  <2>5. QED
    BY <2>3, <2>4, Zenon
<1>6. J[n] = J[m]
  <2>1. n \in Q
    BY <1>1, <1>5, Zenon
  <2>2. QED
    BY <1>1, <2>1
<1> DEFINE a == J[m - 1]
           b == ss[m]
<1>7. /\ a \in Seq(T) /\ b \in Seq(T) /\ b # <<>>
      /\ FlattenSeq(ss) = a \o b
  BY <1>2, <1>4, <1>6, Zenon
<1> HIDE DEF a, b
<1>8. /\ Len(a \o b) = Len(a) + Len(b) /\ Len(b) \in Nat \ {0} /\ Len(a) \in Nat
      /\ (a \o b)[Len(a) + Len(b)] = b[Len(b)]
  BY <1>7
<1>9. a \o b # <<>>
  BY <1>7, <1>8
<1>10. QED
  BY <1>7, <1>8, <1>9, Zenon DEF Last, b

\* The effect j of player m is the last that reaches.
IsLast(g, kind, w, R, m, j) ==
  /\ m \in DOMAIN w
  /\ j \in DOMAIN EffectsOf(g, w[m], kind)
  /\ EffectsOf(g, w[m], kind)[j] \in R
  /\ \A k \in DOMAIN EffectsOf(g, w[m], kind) :
       k > j => EffectsOf(g, w[m], kind)[k] \notin R
  /\ \A i \in DOMAIN w : i > m => ToSet(EffectsOf(g, w[i], kind)) \cap R = {}

Ends(given, x) == given # <<>> /\ Last(given) = x

\* Then it is the last of all.
LEMMA LastGiven ==
  ASSUME NEW g, NEW kind \in Kinds, NEW w \in Seq(DOMAIN g.players), NEW R,
         NEW m, NEW j, IsLast(g, kind, w, R, m, j)
  PROVE  Ends(EffectsOfAll(g, w, kind, R), EffectsOf(g, w[m], kind)[j])
<1> DEFINE P == DOMAIN g.players
           T == Gifts(g, kind)
           ss == [i \in DOMAIN w |-> Keep(EffectsOf(g, w[i], kind), R)]
           e == EffectsOf(g, w[m], kind)
<1>0. /\ m \in DOMAIN w /\ j \in DOMAIN e /\ e[j] \in R
      /\ \A k \in DOMAIN e : k > j => e[k] \notin R
      /\ \A i \in DOMAIN w : i > m => ToSet(EffectsOf(g, w[i], kind)) \cap R = {}
  BY Zenon DEF IsLast
<1>1. DOMAIN w = 1..Len(w) /\ Len(w) \in Nat /\ \A i \in DOMAIN w : w[i] \in P
  OBVIOUS
<1>2. \A p \in P : /\ Keep(EffectsOf(g, p, kind), R) \in Seq(T)
                   /\ ToSet(Keep(EffectsOf(g, p, kind), R))
                        = ToSet(EffectsOf(g, p, kind)) \cap R
  <2> TAKE p \in P
  <2>1. EffectsOf(g, p, kind) \in Seq(T)
    BY EffectsType, Zenon
  <2> HIDE DEF T
  <2>2. QED
    BY <2>1, KeepSet
<1>3. e \in Seq(T)
  BY <1>0, <1>1, EffectsType, Zenon
<1> HIDE DEF T
<1>4. ss \in Seq(Seq(T))
  <2> DEFINE Q == Seq(T)
             n == Len(w)
  <2>1. \A i \in DOMAIN w : Keep(EffectsOf(g, w[i], kind), R) \in Q
    BY <1>1, <1>2, Zenon
  <2>2. n \in Nat /\ DOMAIN w = 1..n
    BY <1>1
  <2> HIDE DEF Q, n
  <2>3. ss \in [1..n -> Q]
    BY <2>1, <2>2, Zenon
  <2> HIDE DEF ss
  <2>4. ss \in Seq(Q)
    BY <2>2, <2>3
  <2>5. QED
    BY <2>4, Zenon DEF Q
<1>5. Keep(e, R) # <<>> /\ Last(Keep(e, R)) = e[j]
  <2> HIDE DEF e
  <2>1. QED
    BY <1>0, <1>3, KeepLast
<1>6. ss[m] = Keep(e, R) /\ DOMAIN ss = DOMAIN w
  BY <1>0, Zenon
<1>7. \A i \in DOMAIN ss : i > m => ss[i] = <<>>
  <2> SUFFICES ASSUME NEW i \in DOMAIN w, i > m
               PROVE  Keep(EffectsOf(g, w[i], kind), R) = <<>>
    BY <1>6, Zenon
  <2>1. /\ Keep(EffectsOf(g, w[i], kind), R) \in Seq(T)
        /\ ToSet(Keep(EffectsOf(g, w[i], kind), R)) = {}
    BY <1>0, <1>1, <1>2, Zenon
  <2>2. QED
    BY <2>1, EmptySet
<1>8. EffectsOfAll(g, w, kind, R) = FlattenSeq(ss)
  BY Zenon DEF EffectsOfAll
<1> HIDE DEF ss, e
<1>9. FlattenSeq(ss) # <<>> /\ Last(FlattenSeq(ss)) = Last(ss[m])
  <2>1. m \in DOMAIN ss /\ ss[m] # <<>>
    BY <1>0, <1>5, <1>6, Zenon
  <2>2. QED
    BY <1>4, <1>7, <2>1, FlattenLast
<1>10. QED
  BY <1>5, <1>6, <1>8, <1>9, Zenon DEF e, Ends

\* The rank of a player in turn is the number of turns until that turn.
TurnsUntil(g, p) ==
  LET turns == Len(g.playerOrder)
      seat == CHOOSE i \in 1..turns : g.playerOrder[i] = p
  IN  (seat - 1 - g.playerTurn + turns) % turns

\* Players in turn have different ranks, from 0 up.
LEMMA RankInTurn ==
  ASSUME NEW g, IsGame(g), g.playerTurn + 1 \in DOMAIN g.playerOrder
  PROVE  /\ DOMAIN orderedPlayers(g) = 1..Len(g.playerOrder)
         /\ \A i \in 1..Len(g.playerOrder) :
              TurnsUntil(g, orderedPlayers(g)[i]) = i - 1
<1> DEFINE order == g.playerOrder
           n == Len(order)
           t == g.playerTurn
           at(i) == ((t + i - 1) % n) + 1
<1>1. order \in Seq(Int) /\ t \in Nat /\ IsInjective(order)
  BY Zenon DEF IsGame
<1>2. t + 1 \in DOMAIN order
  BY Zenon
<1>3. orderedPlayers(g) = [i \in 1..n |-> order[at(i)]]
  BY Zenon DEF orderedPlayers
<1> HIDE DEF order, t
<1>4. n \in Nat /\ DOMAIN order = 1..n /\ t \in 0..(n - 1)
  BY <1>1, <1>2
<1>5. \A a, b \in 1..n : order[a] = order[b] => a = b
  BY <1>1, <1>4, Zenon DEF IsInjective
<1> HIDE DEF n
<1>6. ASSUME NEW i \in 1..n
      PROVE  at(i) \in 1..n /\ (at(i) - 1 - t + n) % n = i - 1
  <2>1. i - 1 \in 0..(n - 1)
    BY <1>4
  <2>2. (i - 1) % n = i - 1 /\ ((i - 1) + n) % n = i - 1
    BY <1>4, <2>1, Rounds
  <2>3. CASE t + i - 1 < n
    <3>1. t + i - 1 \in 0..(n - 1)
      BY <1>4, <2>3
    <3>2. (t + i - 1) % n = t + i - 1
      BY <1>4, <3>1, Rounds
    <3>3. at(i) \in 1..n /\ at(i) - 1 - t + n = (i - 1) + n
      BY <1>4, <3>1, <3>2
    <3>4. QED
      BY <2>2, <3>3, Zenon
  <2>4. CASE t + i - 1 >= n
    <3>1. t + i - 1 - n \in 0..(n - 1) /\ t + i - 1 = (t + i - 1 - n) + n
      BY <1>4, <2>4
    <3>2. ((t + i - 1 - n) + n) % n = t + i - 1 - n
      BY <1>4, <3>1, Rounds
    <3>3. (t + i - 1) % n = t + i - 1 - n
      BY <3>1, <3>2
    <3>4. at(i) \in 1..n /\ at(i) - 1 - t + n = i - 1
      BY <1>4, <3>1, <3>3
    <3>5. QED
      BY <2>2, <3>4, Zenon
  <2>5. QED
    BY <1>4, <2>3, <2>4
<1>7. ASSUME NEW i \in 1..n PROVE TurnsUntil(g, orderedPlayers(g)[i]) = i - 1
  <2> DEFINE seat == CHOOSE k \in 1..n : order[k] = order[at(i)]
  <2>1. orderedPlayers(g)[i] = order[at(i)]
    BY <1>3, Zenon
  <2>2. TurnsUntil(g, orderedPlayers(g)[i]) = (seat - 1 - t + n) % n
    BY <2>1, Zenon DEF TurnsUntil, order, n, t
  <2>3. at(i) \in 1..n /\ (at(i) - 1 - t + n) % n = i - 1
    BY <1>6
  <2> HIDE DEF at
  <2>4. seat \in 1..n /\ order[seat] = order[at(i)]
    BY <2>3, Zenon
  <2>5. seat = at(i)
    BY <1>5, <2>3, <2>4, Zenon
  <2>6. QED
    BY <2>2, <2>3, <2>5, Zenon
<1>8. QED
  BY <1>3, <1>7, Zenon DEF n, order

\* The effects with which a player changes the variant, and who does.
Changes(g, p) ==
  {i \in DOMAIN EffectsOf(g, p, "global") :
     LET given == EffectsOf(g, p, "global")[i]
     IN  /\ GivesVariant \subseteq DOMAIN given.effect
         /\ Targets(given, getAlliance(g, p, activePlayer(g)))}

Speakers(g) == {p \in ToSet(g.playerOrder) : Changes(g, p) # {}}

Speaker(g) ==
  CHOOSE p \in Speakers(g) :
    \A q \in Speakers(g) : TurnsUntil(g, q) <= TurnsUntil(g, p)

\* They are those that reach the active player.
LEMMA ChangesReach ==
  ASSUME NEW g, NEW p \in DOMAIN g.players
  PROVE  LET R == ReachingPlayer(g, activePlayer(g), GivesVariant)
             e == EffectsOf(g, p, "global")
         IN  /\ Changes(g, p) = {i \in DOMAIN e : e[i] \in R}
             /\ Changes(g, p) = {} <=> ToSet(e) \cap R = {}
             /\ \E n \in Nat : DOMAIN e = 1..n
<1> DEFINE R == ReachingPlayer(g, activePlayer(g), GivesVariant)
           kind == "global"
           e == EffectsOf(g, p, kind)
           T == Gifts(g, kind)
           alliance == getAlliance(g, p, activePlayer(g))
<1>1. e \in Seq(T) /\ ToSet(e) = GiftsOf(g, p, kind)
  BY EffectsType, Zenon DEF Kinds
<1>2. \A i \in DOMAIN e : e[i] \in T
  BY <1>1, ElementsOf, Zenon
<1>3. \A i \in DOMAIN e : e[i].giver = p
  <2> TAKE i \in DOMAIN e
  <2>1. e[i] \in GiftsOf(g, p, kind)
    BY <1>1, Zenon DEF ToSet
  <2> HIDE DEF e
  <2>2. PICK name : e[i] = [effect |-> ModData.effects[kind][name], giver |-> p]
    BY <2>1, Zenon DEF GiftsOf
  <2>3. QED
    BY <2>2
<1>4. \A x \in T : x.giver = p =>
        (x \in R <=> /\ GivesVariant \subseteq DOMAIN x.effect
                     /\ Targets(x, alliance))
  BY Zenon DEF ReachingPlayer, Names, Targets
<1>5. Changes(g, p) = {i \in DOMAIN e : /\ GivesVariant \subseteq DOMAIN e[i].effect
                                        /\ Targets(e[i], alliance)}
  BY Zenon DEF Changes
<1>6. \E n \in Nat : DOMAIN e = 1..n
  <2> HIDE DEF e
  <2>1. DOMAIN e = 1..Len(e) /\ Len(e) \in Nat
    BY <1>1
  <2>2. QED
    BY <2>1, Zenon
<1> HIDE DEF R, e, T, alliance
<1>7. Changes(g, p) = {i \in DOMAIN e : e[i] \in R}
  BY <1>2, <1>3, <1>4, <1>5, Zenon
<1>8. Changes(g, p) = {} <=> ToSet(e) \cap R = {}
  BY <1>7, Zenon DEF ToSet
<1>9. QED
  BY <1>6, <1>7, <1>8, Zenon DEF R, e, kind

\* The variant, where the turn order does not throw.
LEMMA VariantUnlessThrows ==
  ASSUME NEW g, IsGame(g), getCurrentVariant(g) # Throws
  PROVE  LET R == ReachingPlayer(g, activePlayer(g), GivesVariant)
             given == EffectsOfAll(g, orderedPlayers(g), "global", R)
         IN  /\ ActiveIsKnown(g)
             /\ ToSet(g.playerOrder) \subseteq DOMAIN g.players
             /\ getCurrentVariant(g) = IF given = <<>> THEN g.variant
                                       ELSE Last(given).effect.variantMod
<1> DEFINE R == ReachingPlayer(g, activePlayer(g), GivesVariant)
           given == EffectsOfAll(g, orderedPlayers(g), "global", R)
           ready == /\ ActiveIsKnown(g)
                    /\ ToSet(g.playerOrder) \subseteq DOMAIN g.players
           answer == getAllPassiveGlobalEffects(g, NoPlayer, GivesVariant)
<1>1. answer = IF ready THEN given ELSE Throws
  BY Zenon DEF getAllPassiveGlobalEffects
<1>2. getCurrentVariant(g) = IF answer = Throws THEN Throws
                             ELSE IF answer = <<>> THEN g.variant
                             ELSE Last(answer).effect.variantMod
  BY Zenon DEF getCurrentVariant
<1> HIDE DEF ready, given, answer
<1>3. answer # Throws
  BY <1>2, Zenon
<1>4. ready /\ answer = given
  BY <1>1, <1>3, Zenon
<1>5. QED
  BY <1>2, <1>3, <1>4, Zenon DEF ready, given

\* The last effect of the speaker decides the variant.
LEMMA VariantDecided ==
  ASSUME NEW g, IsGame(g), getCurrentVariant(g) # Throws
  PROVE  getCurrentVariant(g) =
           IF Speakers(g) = {} THEN g.variant
           ELSE EffectsOf(g, Speaker(g), "global")[Max(Changes(g, Speaker(g)))]
                  .effect.variantMod
<1> DEFINE R == ReachingPlayer(g, activePlayer(g), GivesVariant)
           kind == "global"
           w == orderedPlayers(g)
           given == EffectsOfAll(g, w, kind, R)
           n == Len(g.playerOrder)
           P == DOMAIN g.players
<1>1. /\ ActiveIsKnown(g) /\ ToSet(g.playerOrder) \subseteq P
      /\ getCurrentVariant(g) = IF given = <<>> THEN g.variant
                                ELSE Last(given).effect.variantMod
  BY VariantUnlessThrows, Zenon
<1>2. w \in Seq(P) /\ ToSet(w) = ToSet(g.playerOrder)
  BY <1>1, OrderedPlayers
<1>3. DOMAIN w = 1..n /\ \A i \in 1..n : TurnsUntil(g, w[i]) = i - 1
  <2>1. g.playerTurn + 1 \in DOMAIN g.playerOrder
    BY <1>1, Zenon DEF ActiveIsKnown
  <2>2. QED
    BY <2>1, RankInTurn
<1>4. n \in Nat
  <2>1. g.playerOrder \in Seq(Int)
    BY Zenon DEF IsGame
  <2>2. QED
    BY <2>1
<1>5. \A p \in P :
        /\ Changes(g, p) = {i \in DOMAIN EffectsOf(g, p, kind) :
                              EffectsOf(g, p, kind)[i] \in R}
        /\ Changes(g, p) = {} <=> ToSet(EffectsOf(g, p, kind)) \cap R = {}
        /\ \E k \in Nat : DOMAIN EffectsOf(g, p, kind) = 1..k
  BY ChangesReach, Zenon
<1>6. kind \in Kinds
  BY DEF Kinds
<1> HIDE DEF R, kind, w, n, given, P
<1>7. Speakers(g) \subseteq P /\ \A i \in 1..n : w[i] \in ToSet(g.playerOrder)
  BY <1>1, <1>2, <1>3, Zenon DEF Speakers, ToSet
<1>8. CASE Speakers(g) = {}
  <2>1. \A p \in ToSet(w) : ToSet(EffectsOf(g, p, kind)) \cap R = {}
    BY <1>1, <1>2, <1>5, <1>8, Zenon DEF Speakers
  <2>2. /\ given \in Seq(Gifts(g, kind))
        /\ ToSet(given) = ReachedBy(g, ToSet(w), kind, R)
    BY <1>2, <1>6, AllType DEF given, P
  <2>3. ToSet(given) = {}
    BY <2>1, <2>2, Zenon DEF ReachedBy
  <2>4. given = <<>>
    BY <2>2, <2>3, EmptySet
  <2>5. QED
    BY <1>1, <1>8, <2>4, Zenon
<1>9. CASE Speakers(g) # {}
  <2> DEFINE Q == {i \in 1..n : w[i] \in Speakers(g)}
  <2>1. \A p \in Speakers(g) : \E i \in Q : p = w[i]
    <3> TAKE p \in Speakers(g)
    <3>1. p \in ToSet(w)
      BY <1>2, Zenon DEF Speakers
    <3>2. QED
      BY <1>3, <3>1, Zenon DEF ToSet
  <2>2. Q # {} /\ Q \subseteq 1..n
    BY <1>9, <2>1, Zenon
  <2> HIDE DEF Q
  <2>3. PICK m \in Q : \A i \in Q : i <= m
    BY <1>4, <2>2, Greatest
  <2>4. m \in 1..n /\ w[m] \in Speakers(g)
    BY <2>3, Zenon DEF Q
  <2>5. Speaker(g) = w[m]
    <3>1. \A q \in Speakers(g) : TurnsUntil(g, q) <= TurnsUntil(g, w[m])
      <4> TAKE q \in Speakers(g)
      <4>1. PICK i \in Q : q = w[i]
        BY <2>1
      <4>2. i \in 1..n /\ i <= m
        BY <2>2, <2>3, Zenon
      <4>3. TurnsUntil(g, q) = i - 1 /\ TurnsUntil(g, w[m]) = m - 1
        BY <1>3, <2>4, <4>1, <4>2, Zenon
      <4>4. QED
        BY <1>4, <2>4, <4>2, <4>3
    <3>2. /\ Speaker(g) \in Speakers(g)
          /\ \A q \in Speakers(g) : TurnsUntil(g, q) <= TurnsUntil(g, Speaker(g))
      BY <2>4, <3>1, Zenon DEF Speaker
    <3>3. PICK i \in Q : Speaker(g) = w[i]
      BY <2>1, <3>2
    <3>4. i \in 1..n /\ i <= m
      BY <2>2, <2>3, Zenon
    <3>5. TurnsUntil(g, w[m]) <= TurnsUntil(g, w[i])
      BY <2>4, <3>2, <3>3, Zenon
    <3>6. TurnsUntil(g, w[i]) = i - 1 /\ TurnsUntil(g, w[m]) = m - 1
      BY <1>3, <2>4, <3>4, Zenon
    <3>7. i = m
      BY <1>4, <2>4, <3>4, <3>5, <3>6
    <3>8. QED
      BY <3>3, <3>7
  <2> DEFINE p == w[m]
             e == EffectsOf(g, p, kind)
  <2>6. p \in P /\ Changes(g, p) # {}
    BY <1>7, <2>4, Zenon DEF Speakers
  <2>7. PICK k \in Nat : DOMAIN e = 1..k
    BY <1>5, <2>6
  <2>8. Changes(g, p) = {i \in DOMAIN e : e[i] \in R}
    BY <1>5, <2>6, Zenon
  <2> HIDE DEF e, p
  <2>9. Changes(g, p) \subseteq 1..k
    BY <2>7, <2>8, Zenon
  <2>10. PICK j \in Changes(g, p) : \A i \in Changes(g, p) : i <= j
    BY <2>6, <2>9, Greatest
  <2>11. Max(Changes(g, p)) = j
    <3>1. Changes(g, p) \subseteq Int
      BY <2>9
    <3>2. QED
      BY <2>10, <3>1, MaxOf
  <2>12. /\ j \in DOMAIN e /\ e[j] \in R
         /\ \A i \in DOMAIN e : i > j => e[i] \notin R
    <3>1. j \in DOMAIN e /\ e[j] \in R
      BY <2>8, <2>10, Zenon
    <3>2. ASSUME NEW i \in DOMAIN e, i > j PROVE e[i] \notin R
      <4>1. e[i] \in R => i <= j
        BY <2>8, <2>10, Zenon
      <4>2. i \in 1..k /\ j \in 1..k
        BY <2>7, <3>1, Zenon
      <4>3. ~(i <= j)
        BY <3>2, <4>2
      <4>4. QED
        BY <4>1, <4>3
    <3>3. QED
      BY <3>1, <3>2, Zenon
  <2>13. \A i \in DOMAIN w : i > m => ToSet(EffectsOf(g, w[i], kind)) \cap R = {}
    <3> SUFFICES ASSUME NEW i \in 1..n, i > m
                 PROVE  ToSet(EffectsOf(g, w[i], kind)) \cap R = {}
      BY <1>3, Zenon
    <3>1. i \in Q => i <= m
      BY <2>3
    <3>2. i \notin Q
      BY <1>4, <2>4, <3>1
    <3>3. w[i] \notin Speakers(g)
      BY <3>2, Zenon DEF Q
    <3>4. Changes(g, w[i]) = {} /\ w[i] \in P
      BY <1>1, <1>7, <3>3, Zenon DEF Speakers
    <3>5. QED
      BY <1>5, <3>4, Zenon
  <2>14. /\ given # <<>>
         /\ Last(given) = e[j]
    <3>1. IsLast(g, kind, w, R, m, j)
      BY <1>3, <2>4, <2>12, <2>13, Zenon DEF e, p, IsLast
    <3>2. w \in Seq(DOMAIN g.players)
      BY <1>2, Zenon DEF P
    <3>3. Ends(EffectsOfAll(g, w, kind, R), EffectsOf(g, w[m], kind)[j])
      BY <1>6, <3>1, <3>2, LastGiven, Zenon
    <3>4. QED
      BY <3>3, Zenon DEF given, e, p, Ends
  <2>15. getCurrentVariant(g) = e[j].effect.variantMod
    BY <1>1, <2>14, Zenon
  <2>16. EffectsOf(g, Speaker(g), kind)[Max(Changes(g, Speaker(g)))] = e[j]
    BY <2>5, <2>11, Zenon DEF e, p
  <2>17. QED
    BY <1>9, <2>15, <2>16, Zenon DEF kind
<1>10. QED
  BY <1>8, <1>9

\* The player whose turn was the latest decides the variant ("always using
\* the most recent player", getCurrentVariant), whatever the turn order, and
\* that player's last effect does.
THEOREM LatestDecides == Spec => []LatestTurnDecidesVariant
<1>1. ASSUME IsGame(game), getCurrentVariant(game) # Throws
      PROVE  getCurrentVariant(game) =
               IF Speakers(game) = {} THEN game.variant
               ELSE EffectsOf(game, Speaker(game), "global")
                      [Max(Changes(game, Speaker(game)))].effect.variantMod
  BY <1>1, VariantDecided
<1>2. TypeOK => LatestTurnDecidesVariant
  BY <1>1, Zenon DEF TypeOK, LatestTurnDecidesVariant, Speakers, Speaker,
                     Changes, TurnsUntil
<1>3. QED
  BY <1>2, Typed, PTL

-----------------------------------------------------------------------------
(* Firepower and defense stray little from the exact sums.                 *)

\* A sum of n shares is near the exact sum, in units of 1/10000: off by no more
\* than the slack, and by less if there is a share.
Near(answer, exact, slack, n) ==
  /\ -(slack - n) <= 10000 * answer - exact
  /\ 10000 * answer - exact <= slack - n

\* Nearness adds up.
LEMMA NearSum ==
  ASSUME NEW a \in Int, NEW b \in Int, NEW c \in Int, NEW d \in Int,
         NEW s \in Int, NEW t \in Int, NEW n \in Nat,
         Near(a, b, s, n), Near(c, d, t, 1)
  PROVE  Near(a + c, b + d, s + t, n + 1)
BY SMT DEF Near

\* Values that are near add up to worths that are.
LEMMA WorthNear ==
  ASSUME NEW T, NEW s \in Seq(T), NEW V \in [T -> Int], NEW X \in [T -> Int],
         NEW S \in [T -> Int], \A x \in T : Near(V[x], X[x], S[x], 1)
  PROVE  /\ Worth(s, V) \in Int /\ Worth(s, X) \in Int /\ Worth(s, S) \in Int
         /\ Near(Worth(s, V), Worth(s, X), Worth(s, S), Len(s))
         /\ Len(s) = 0 => Worth(s, S) = 0
<1> DEFINE n == Len(s)
           v == [i \in DOMAIN s |-> V[s[i]]]
           x == [i \in DOMAIN s |-> X[s[i]]]
           o == [i \in DOMAIN s |-> S[s[i]]]
<1>1. n \in Nat /\ DOMAIN s = 1..n /\ \A i \in 1..n : s[i] \in T
  OBVIOUS
<1>2. /\ v \in Seq(Int) /\ Len(v) = n /\ x \in Seq(Int) /\ Len(x) = n
      /\ o \in Seq(Int) /\ Len(o) = n
  <2>1. v \in Seq(Int) /\ Len(v) = n
    BY ValuesType, Zenon
  <2>2. x \in Seq(Int) /\ Len(x) = n
    BY ValuesType, Zenon
  <2>3. o \in Seq(Int) /\ Len(o) = n
    BY ValuesType, Zenon
  <2> HIDE DEF v, x, o, n
  <2>4. QED
    BY <2>1, <2>2, <2>3, Zenon
<1>3. \A i \in 1..n : Near(v[i], x[i], o[i], 1)
  BY <1>1, Zenon
<1>4. \A i \in 1..n : v[i] \in Int /\ x[i] \in Int /\ o[i] \in Int
  BY <1>1
<1>5. Worth(s, V) = Total(v) /\ Worth(s, X) = Total(x) /\ Worth(s, S) = Total(o)
  BY Zenon DEF Worth
<1> HIDE DEF v, x, o, n
<1> DEFINE A == Totals(v)
           B == Totals(x)
           C == Totals(o)
           Q == {k \in Nat : k <= n => Near(A[k], B[k], C[k], k)}
<1>6. /\ A \in [0..n -> Int] /\ A[0] = 0 /\ Total(v) = A[n]
      /\ \A i \in 1..n : A[i] = A[i - 1] + v[i]
  BY <1>2, TotalUnfold, Zenon
<1>7. /\ B \in [0..n -> Int] /\ B[0] = 0 /\ Total(x) = B[n]
      /\ \A i \in 1..n : B[i] = B[i - 1] + x[i]
  BY <1>2, TotalUnfold, Zenon
<1>8. /\ C \in [0..n -> Int] /\ C[0] = 0 /\ Total(o) = C[n]
      /\ \A i \in 1..n : C[i] = C[i - 1] + o[i]
  BY <1>2, TotalUnfold, Zenon
<1> HIDE DEF A, B, C
<1>9. 0 \in Q
  BY <1>6, <1>7, <1>8 DEF Near
<1>10. ASSUME NEW k \in Nat, k \in Q PROVE k + 1 \in Q
  <2> SUFFICES ASSUME k + 1 <= n
               PROVE  Near(A[k + 1], B[k + 1], C[k + 1], k + 1)
    OBVIOUS
  <2>1. k + 1 \in 1..n /\ (k + 1) - 1 = k /\ k \in 0..n /\ k <= n
    BY <1>1
  <2>2. Near(A[k], B[k], C[k], k)
    BY <1>10, <2>1
  <2>3. /\ A[k + 1] = A[k] + v[k + 1] /\ B[k + 1] = B[k] + x[k + 1]
        /\ C[k + 1] = C[k] + o[k + 1]
    BY <1>6, <1>7, <1>8, <2>1, Zenon
  <2>4. Near(v[k + 1], x[k + 1], o[k + 1], 1)
    BY <1>3, <2>1, Zenon
  <2>5. v[k + 1] \in Int /\ x[k + 1] \in Int /\ o[k + 1] \in Int
    BY <1>4, <2>1, Zenon
  <2>6. A[k] \in Int /\ B[k] \in Int /\ C[k] \in Int
    BY <1>6, <1>7, <1>8, <2>1, Zenon
  <2>7. Near(A[k] + v[k + 1], B[k] + x[k + 1], C[k] + o[k + 1], k + 1)
    BY <2>2, <2>4, <2>5, <2>6, NearSum
  <2>8. QED
    BY <2>3, <2>7, Zenon
<1>11. Near(A[n], B[n], C[n], n)
  <2> HIDE DEF Q
  <2>1. Nat \subseteq Q
    BY <1>9, <1>10, Induction, Zenon
  <2>2. n \in Q
    BY <1>1, <2>1, Zenon
  <2>3. QED
    BY <1>1, <2>2 DEF Q
<1>12. A[n] \in Int /\ B[n] \in Int /\ C[n] \in Int
  BY <1>1, <1>6, <1>7, <1>8
<1>13. n = 0 => C[n] = 0
  BY <1>8, Zenon
<1>14. QED
  BY <1>5, <1>6, <1>7, <1>8, <1>11, <1>12, <1>13, Zenon DEF n

\* A division cuts off less than 1.
LEMMA QuotientNear ==
  ASSUME NEW z \in Int
  PROVE  /\ -99 <= 100 * Quotient(z, 100) - z
         /\ 100 * Quotient(z, 100) - z <= 99
         /\ -999 <= 1000 * Quotient(z, 1000) - z
         /\ 1000 * Quotient(z, 1000) - z <= 999
BY DEF Quotient

\* The size of a number.
Size(q) == Larger(q, -q)

\* A product with a number below 100 is below the hundredfold.
LEMMA ProductBound ==
  ASSUME NEW q \in Int, NEW r \in Int, -99 <= r, r <= 99
  PROVE  -(100 * Size(q)) <= q * r /\ q * r <= 100 * Size(q)
<1>1. ASSUME NEW a \in Int, NEW b \in Int, 0 <= a, 0 <= b PROVE 0 <= a * b
  BY <1>1
<1>2. CASE q >= 0
  <2>1. 0 <= q * (100 - r) /\ 0 <= q * (100 + r)
    <3>1. 100 - r \in Int /\ 100 + r \in Int /\ 0 <= 100 - r /\ 0 <= 100 + r
      OBVIOUS
    <3>2. QED
      BY <1>1, <1>2, <3>1
  <2>2. Size(q) = q
    BY <1>2 DEF Size, Larger
  <2>3. q * (100 - r) = 100 * q - q * r /\ q * (100 + r) = 100 * q + q * r
    OBVIOUS
  <2> DEFINE k == q * r
  <2>4. k \in Int
    OBVIOUS
  <2> HIDE DEF k
  <2>5. 0 <= 100 * q - k /\ 0 <= 100 * q + k
    BY <2>1, <2>3 DEF k
  <2>6. QED
    BY <2>2, <2>4, <2>5 DEF k
<1>3. CASE q < 0
  <2>1. 0 <= (-q) * (100 - r) /\ 0 <= (-q) * (100 + r)
    <3>1. 100 - r \in Int /\ 100 + r \in Int /\ 0 <= 100 - r /\ 0 <= 100 + r
      OBVIOUS
    <3>2. -q \in Int /\ 0 <= -q
      BY <1>3
    <3>3. QED
      BY <1>1, <3>1, <3>2
  <2>2. Size(q) = -q
    BY <1>3 DEF Size, Larger
  <2>3. (-q) * (100 - r) = q * r - 100 * q /\ (-q) * (100 + r) = -(100 * q) - q * r
    OBVIOUS
  <2> DEFINE k == q * r
  <2>4. k \in Int
    OBVIOUS
  <2> HIDE DEF k
  <2>5. 0 <= k - 100 * q /\ 0 <= -(100 * q) - k
    BY <2>1, <2>3 DEF k
  <2>6. QED
    BY <2>2, <2>4, <2>5 DEF k
<1>4. QED
  BY <1>2, <1>3

\* The size of a product with a natural number.
LEMMA SizeProduct ==
  ASSUME NEW h \in Nat, NEW s \in Int
  PROVE  Size(h * s) = h * Size(s)
<1>1. CASE s >= 0
  <2>1. h * s >= 0
    BY <1>1
  <2>2. QED
    BY <1>1, <2>1 DEF Size, Larger
<1>2. CASE s < 0
  <2>1. h * s <= 0 /\ h * (-s) = -(h * s)
    BY <1>2
  <2>2. QED
    BY <1>2, <2>1 DEF Size, Larger
<1>3. QED
  BY <1>1, <1>2

\* Where it counts terrains, the calculator finds those of the giver.
LEMMA OwnedCount ==
  ASSUME NEW g, IsGame(g), NEW p \in DOMAIN g.players, NEW name
  PROVE  countTerrainsOwnedByPlayer(g, p, name)
           = Cardinality({place \in DOMAIN g.terrains :
               /\ g.terrains[place].name = name
               /\ OwnerOf(g, g.terrains[place]) = p})
<1>1. p # NoPlayer
  BY Zenon DEF IsGame
<1>2. \A terrain : OwnerOf(g, terrain) = p <=> ValueOr(terrain, "owner", NoPlayer) = p
  BY <1>1, Zenon DEF OwnerOf
<1> DEFINE Own(place) == /\ g.terrains[place].name = name
                         /\ OwnerOf(g, g.terrains[place]) = p
           Has(place) == /\ g.terrains[place].name = name
                         /\ ValueOr(g.terrains[place], "owner", NoPlayer) = p
<1>3. \A place : Own(place) <=> Has(place)
  BY <1>2, Zenon
<1>4. {place \in DOMAIN g.terrains : Own(place)}
        = {place \in DOMAIN g.terrains : Has(place)}
  <2> HIDE DEF Own, Has
  <2>1. QED
    BY <1>3, Zenon
<1>5. QED
  BY <1>4, Zenon DEF countTerrainsOwnedByPlayer

FromOwned(g, side, x) ==
  LET mods == ValueOr(x.effect, side.terrain, <<>>)
      names == SetToSeq(DOMAIN mods)
      owned(name) ==
        Cardinality({place \in DOMAIN g.terrains :
          /\ g.terrains[place].name = name
          /\ OwnerOf(g, g.terrains[place]) = x.giver})
  IN  Total([i \in DOMAIN names |-> mods[names[i]] * owned(names[i])])

\* The shares by terrains are exact.
LEMMA ExactTerrains ==
  ASSUME NEW g, IsGame(g), NEW side, NEW x \in Gifts(g, "unit")
  PROVE  FromTerrains(g, side, x) = FromOwned(g, side, x)
<1> DEFINE mods == ValueOr(x.effect, side.terrain, <<>>)
           names == SetToSeq(DOMAIN mods)
           owned(name) ==
             Cardinality({place \in DOMAIN g.terrains :
               /\ g.terrains[place].name = name
               /\ OwnerOf(g, g.terrains[place]) = x.giver})
           c(name) == countTerrainsOwnedByPlayer(g, x.giver, name)
<1>1. x.giver \in DOMAIN g.players
  BY Zenon DEF Gifts
<1>2. \A name : c(name) = owned(name)
  <2> TAKE name
  <2>1. QED
    BY <1>1, OwnedCount
<1>3. FromTerrains(g, side, x) = Total([i \in DOMAIN names |-> mods[names[i]] * c(names[i])])
  BY Zenon DEF FromTerrains
<1> HIDE DEF c, owned, mods, names
<1>4. [i \in DOMAIN names |-> mods[names[i]] * c(names[i])]
        = [i \in DOMAIN names |-> mods[names[i]] * owned(names[i])]
  BY <1>2, Zenon
<1>5. QED
  BY <1>3, <1>4, Zenon DEF mods, names, owned, FromOwned

\* The stars are cut off by less than 1.
LEMMA StarsNear ==
  ASSUME NEW g, IsGame(g), NEW w \in SetToSeqs(DOMAIN g.players), NEW unit
  PROVE  /\ ExactStars(g, w, unit) \in Int
         /\ calculateUnitTerrainStars(g, w, unit) # Throws =>
              /\ -99 <= 100 * calculateUnitTerrainStars(g, w, unit)
                          - ExactStars(g, w, unit)
              /\ 100 * calculateUnitTerrainStars(g, w, unit)
                   - ExactStars(g, w, unit) <= 99
<1> DEFINE name == TerrainUnder(g, unit)
           fields == {"terrainStarsMod", "terrainStarsFlatMod"}
           base == ModData.terrains[name].stars
           a == ModSum(g, w, unit, fields, "terrainStarsFlatMod", base)
           b == ModSum(g, w, unit, fields, "terrainStarsMod", 0)
           stars == Quotient(a * b, 100)
           given == getAllPassiveUnitEffects(g, w, unit, fields)
           sum(field) == Total([i \in DOMAIN given |->
                                  ValueOr(given[i].effect, field, 0)])
           z == (base + sum("terrainStarsFlatMod")) * sum("terrainStarsMod")
           least == "minTerrainStars" \in DOMAIN ModData.config
           min == ModData.config.minTerrainStars
           known == name \in DOMAIN ModData.terrains
           answer == calculateUnitTerrainStars(g, w, unit)
<1>1. answer = IF unit.name \in DOMAIN ModData.units
               THEN IF ~known THEN Throws
                    ELSE Larger(ValueOr(ModData.config, "minTerrainStars", stars), stars)
               ELSE Throws
  BY DEF calculateUnitTerrainStars, Asked
<1>2. ExactStars(g, w, unit) = IF ~known THEN 0
                               ELSE IF least THEN Larger(100 * min, z) ELSE z
  BY SMT DEF ExactStars
<1>3. a = base + sum("terrainStarsFlatMod") /\ b = 0 + sum("terrainStarsMod")
  BY Zenon DEF ModSum
<1>4. IsFiniteSet(DOMAIN g.players)
  BY Zenon DEF IsGame
<1>5. sum("terrainStarsMod") \in Int
  <2>1. "terrainStarsMod" \in Numbers
    BY DEF Numbers
  <2>2. ModSum(g, w, unit, fields, "terrainStarsMod", 0) \in Int
    BY <1>4, <2>1, ModSumType
  <2> DEFINE f == "terrainStarsMod"
             V == FieldValues(g, f)
             T == Gifts(g, "unit")
  <2>3. V \in [T -> Int]
    BY <2>1, FieldValuesType, Zenon
  <2>4. Given(g, w, unit, fields) \in Seq(T)
    BY <1>4, GivenType, Zenon
  <2>5. given = Given(g, w, unit, fields)
    BY Zenon DEF getAllPassiveUnitEffects, Given
  <2> HIDE DEF given, T
  <2>6. \A i \in DOMAIN given : given[i] \in T
    BY <2>4, <2>5, ElementsOf, Zenon
  <2>7. \A i \in DOMAIN given : ValueOr(given[i].effect, f, 0) = V[given[i]]
    BY <2>6, Zenon DEF FieldValues, T
  <2>8. [i \in DOMAIN given |-> ValueOr(given[i].effect, f, 0)]
          = [i \in DOMAIN given |-> V[given[i]]]
    BY <2>7, Zenon
  <2>9. sum(f) = Worth(given, V)
    BY <2>8, Zenon DEF Worth
  <2> HIDE DEF V, sum
  <2>10. Worth(given, V) \in Int
    BY <2>3, <2>4, <2>5, WorthType, Zenon
  <2>11. QED
    BY <2>9, <2>10
<1>6. b = sum("terrainStarsMod")
  <2> HIDE DEF sum, b
  <2>1. QED
    BY <1>3, <1>5
<1>7. a * b = z
  <2>1. (base + sum("terrainStarsFlatMod")) = a /\ sum("terrainStarsMod") = b
    BY <1>3, <1>6, Zenon
  <2> HIDE DEF a, b, sum
  <2>2. QED
    BY <2>1, Zenon
<1>8. CASE ~known
  <2>1. ExactStars(g, w, unit) = 0 /\ answer = Throws
    BY <1>1, <1>2, <1>8, Zenon
  <2>2. QED
    BY <2>1, SMT
<1>9. CASE known
  <2>1. base \in Int
    BY <1>9, ModAssumption, Zenon
  <2>2. "terrainStarsFlatMod" \in Numbers /\ "terrainStarsMod" \in Numbers
    BY DEF Numbers
  <2>3. a \in Int
    BY <1>4, <2>1, <2>2, ModSumType
  <2>4. b \in Int
    BY <1>5, <1>6
  <2>5. least => min \in Int
    BY ModAssumption, Zenon DEF ValueOr
  <2>6. ValueOr(ModData.config, "minTerrainStars", stars) = IF least THEN min ELSE stars
    BY Zenon DEF ValueOr
  <2> HIDE DEF a, b, given, sum, known, base, fields, least, min
  <2>7. z \in Int
    <3>1. a * b \in Int
      BY <2>3, <2>4
    <3>2. QED
      BY <1>7, <3>1, Zenon
  <2>8. stars = Quotient(z, 100)
    BY <1>7, Zenon
  <2> HIDE DEF z, stars
  <2>9. stars \in Int
    BY <2>7, <2>8, QuotientType
  <2>10. -99 <= 100 * stars - z /\ 100 * stars - z <= 99
    <3>1. /\ -99 <= 100 * Quotient(z, 100) - z
          /\ 100 * Quotient(z, 100) - z <= 99
      BY <2>7, QuotientNear
    <3>2. QED
      BY <2>8, <3>1
  <2>11. ExactStars(g, w, unit) = IF least THEN Larger(100 * min, z) ELSE z
    BY <1>2, <1>9, Zenon
  <2> DEFINE E == ExactStars(g, w, unit)
  <2>12. E \in Int
    BY <2>5, <2>7, <2>11 DEF Larger
  <2>13. answer # Throws => answer = Larger(IF least THEN min ELSE stars, stars)
    BY <1>1, <2>6, Zenon
  <2> HIDE DEF E, answer
  <2>14. answer # Throws => -99 <= 100 * answer - E /\ 100 * answer - E <= 99
    <3>1. CASE least
      BY <3>1, <2>5, <2>7, <2>9, <2>10, <2>11, <2>13, SMT DEF Larger, E
    <3>2. CASE ~least
      BY <3>2, <2>7, <2>9, <2>10, <2>11, <2>13, SMT DEF Larger, E
    <3>3. QED
      BY <3>1, <3>2
  <2>15. QED
    BY <2>12, <2>14 DEF E, answer
<1>10. QED
  BY <1>8, <1>9

\* What a share is near to, for stars that are cut off by less than 1.
CutOff(stars, exact) == -99 <= 100 * stars - exact /\ 100 * stars - exact <= 99

\* Two quotients are cut off for each effect, besides the stars.
LEMMA ShareNear ==
  ASSUME NEW g, IsGame(g), NEW side, IsSide(side), NEW x \in Gifts(g, "unit"),
         NEW unit, IsUnit(unit), NEW stars \in Int, NEW full \in Int,
         CutOff(stars, full), NEW variant
  PROVE  /\ ExactShare(g, unit, side, variant, full, x) \in Int
         /\ Slack(unit, side, x) \in Int
         /\ Near(Share(g, unit, side, variant, stars, x),
                 ExactShare(g, unit, side, variant, full, x),
                 Slack(unit, side, x), 1)
<1> DEFINE a == ValueOr(x.effect, side.mod, 0)
           b == VariantShare(x.effect, side.variantMods, variant)
           c == IF side.useExtra THEN ValueOr(x.effect, side.extra, 0) ELSE 0
           d == FromStars(side, unit, stars, x)
           e == FromTerrains(g, side, x)
           f == FromFunds(g, side, x)
           s == ValueOr(x.effect, side.stars, 0)
           t == ValueOr(x.effect, side.flat, 0)
           h == UnitHitPoints(unit)
           scales == ValueOr(ModData.config, side.scales, FALSE)
           m == ValueOr(x.effect, side.funds, 0)
           funds == g.players[x.giver].funds
           scale == Scale(side, unit)
<1>1. a \in Int /\ ValueOr(x.effect, side.extra, 0) \in Int /\ s \in Int /\ t \in Int /\ m \in Int
  BY FieldType, Zenon DEF IsSide
<1>2. b \in Int
  <2>1. side.variantMods \in NumbersByName
    BY DEF IsSide
  <2>2. QED
    BY <2>1, ShareByVariant
<1>3. c \in Int
  BY <1>1
<1>4. e \in Int
  BY FromTerrainsType, Zenon
<1>5. h \in Nat /\ funds \in Int
  <2>1. h \in Nat
    BY HitPointsType, Zenon
  <2>2. x.giver \in DOMAIN g.players
    BY Zenon DEF Gifts
  <2>3. funds \in Int
    BY <2>2, Zenon DEF IsGame, IsPlayer
  <2>4. QED
    BY <2>1, <2>3
<1>6. Share(g, unit, side, variant, stars, x) = a + b + c + d + e + f
  BY Zenon DEF Share
<1>7. d = IF scales THEN Quotient((s * stars + t) * h, 100) ELSE s * stars + t
  BY DEF FromStars
<1>8. f = Quotient(m * funds, 1000)
  BY DEF FromFunds
<1>9. scale = IF scales THEN h ELSE 100
  BY Zenon DEF Scale
<1>10. ExactShare(g, unit, side, variant, full, x)
         = 10000 * (a + b + c + e) + scale * (s * full + 100 * t) + 10 * m * funds
  <2> DEFINE e2 == FromOwned(g, side, x)
  <2>1. e = e2
    BY ExactTerrains
  <2>2. ExactShare(g, unit, side, variant, full, x)
          = 10000 * (a + b + c + e2) + scale * (s * full + 100 * t) + 10 * m * funds
    BY DEF ExactShare, FromOwned
  <2> HIDE DEF a, b, c, e, e2, s, t, m, funds, scale
  <2>3. QED
    BY <2>1, <2>2
<1>11. Slack(unit, side, x) = 20000 + 100 * scale * Size(s)
  BY DEF Slack, Size
<1> DEFINE z == s * stars + t
           y == m * funds
           u == z * scale
           q == scale * s
           r == 100 * stars - full
           k == q * r
           v == scale * (s * full + 100 * t)
<1> HIDE DEF a, b, c, d, e, f, s, t, h, scales, m, funds, scale
<1>12. scale \in Nat
  BY <1>5, <1>9
<1>13. z \in Int /\ y \in Int /\ u \in Int /\ q \in Int /\ r \in Int /\ k \in Int /\ v \in Int
  BY <1>1, <1>5, <1>12
<1>14. 100 * u = v + k
  <2>1. z * scale = scale * (s * stars) + scale * t
    BY <1>1, <1>12
  <2>2. v = scale * (s * full) + 100 * (scale * t)
    BY <1>1, <1>12
  <2>3. k = 100 * (scale * (s * stars)) - scale * (s * full)
    BY <1>1, <1>12
  <2> DEFINE i == scale * (s * stars)
             j == scale * (s * full)
             l == scale * t
  <2>4. i \in Int /\ j \in Int /\ l \in Int
    BY <1>1, <1>12
  <2> HIDE DEF i, j, l, k, v
  <2>5. u = i + l /\ v = j + 100 * l /\ k = 100 * i - j
    BY <2>1, <2>2, <2>3 DEF i, j, l
  <2> HIDE DEF u
  <2>6. QED
    BY <2>4, <2>5
<1>15. -(100 * Size(q)) <= k /\ k <= 100 * Size(q)
  <2>1. -99 <= r /\ r <= 99
    BY DEF CutOff
  <2> HIDE DEF q, r
  <2>2. QED
    BY <1>13, <2>1, ProductBound
<1>16. /\ Size(q) \in Int /\ Slack(unit, side, x) = 20000 + 100 * Size(q)
  <2>1. Size(q) = scale * Size(s)
    BY <1>1, <1>12, SizeProduct
  <2>2. Size(s) \in Int
    BY <1>1 DEF Size, Larger
  <2> HIDE DEF q
  <2>3. 100 * scale * Size(s) = 100 * (scale * Size(s))
    BY <1>12, <2>2
  <2>4. scale * Size(s) \in Int
    BY <1>12, <2>2
  <2>5. QED
    BY <1>11, <2>1, <2>3, <2>4
<1>17. 10 * m * funds = 10 * y /\ (scales => u = (s * stars + t) * h)
       /\ (~scales => u = 100 * z)
  BY <1>1, <1>5, <1>9, <1>12
<1>18. f = Quotient(y, 1000) /\ d = (IF scales THEN Quotient(u, 100) ELSE z)
  BY <1>7, <1>8, <1>17
<1>19. ExactShare(g, unit, side, variant, full, x) = 10000 * (a + b + c + e) + v + 10 * y
  BY <1>10, <1>17
<1> HIDE DEF z, y, u, q, r, k, v
<1>20. /\ -99 <= 100 * Quotient(u, 100) - u
       /\ 100 * Quotient(u, 100) - u <= 99
  BY <1>13, QuotientNear
<1>21. /\ -999 <= 1000 * Quotient(y, 1000) - y
       /\ 1000 * Quotient(y, 1000) - y <= 999
  BY <1>13, QuotientNear
<1>22. Quotient(u, 100) \in Int /\ Quotient(y, 1000) \in Int
  BY <1>13, QuotientType
<1>23. d \in Int /\ -9900 <= 10000 * d - 100 * u /\ 10000 * d - 100 * u <= 9900
  BY <1>13, <1>17, <1>18, <1>20, <1>22
<1>24. f \in Int /\ -9990 <= 10000 * f - 10 * y /\ 10000 * f - 10 * y <= 9990
  BY <1>13, <1>18, <1>21, <1>22
<1> DEFINE exact == ExactShare(g, unit, side, variant, full, x)
           share == Share(g, unit, side, variant, stars, x)
           slack == Slack(unit, side, x)
<1>25. exact \in Int
  BY <1>1, <1>2, <1>3, <1>4, <1>13, <1>19
<1>26. slack \in Int
  BY <1>16
<1>27. Near(share, exact, slack, 1)
  <2> DEFINE A == Size(q)
  <2> HIDE DEF A, exact, share, slack
  <2>1. A \in Int /\ slack = 20000 + 100 * A /\ -(100 * A) <= k /\ k <= 100 * A
    BY <1>15, <1>16 DEF A, slack
  <2>2. share = a + b + c + d + e + f
    BY <1>6 DEF share
  <2>3. exact = 10000 * (a + b + c + e) + v + 10 * y
    BY <1>19 DEF exact
  <2>4. QED
    BY <1>1, <1>2, <1>3, <1>4, <1>13, <1>14, <1>23, <1>24, <2>1, <2>2, <2>3, SMT
       DEF Near
<1>28. QED
  BY <1>25, <1>26, <1>27

\* Of what reaches with more members, what counts is what reaches with fewer.
LEMMA WorthOfCounted ==
  ASSUME NEW g, NEW kind \in Kinds, NEW w \in Seq(DOMAIN g.players),
         NEW R, NEW R2, NEW C,
         \A x \in Gifts(g, kind) : x \in R <=> x \in R2 /\ x \in C,
         NEW V \in [Gifts(g, kind) -> Int]
  PROVE  Worth(EffectsOfAll(g, w, kind, R2), Within(Gifts(g, kind), C, V))
           = Worth(EffectsOfAll(g, w, kind, R), V)
<1> DEFINE T == Gifts(g, kind)
           VC == Within(T, C, V)
<1>1. VC \in [T -> Int]
  BY WithinType
<1>2. Within(T, R2, VC) = Within(T, R, V)
  <2>1. \A x \in T : (IF x \in R2 THEN VC[x] ELSE 0) = (IF x \in R THEN V[x] ELSE 0)
    BY Zenon DEF Within
  <2> HIDE DEF VC, T
  <2>2. QED
    BY <2>1, Zenon DEF Within
<1> HIDE DEF VC
<1>3. WorthOfEach(g, kind, R2, VC) = WorthOfEach(g, kind, R, V)
  BY <1>2, Zenon DEF WorthOfEach
<1>4. Worth(EffectsOfAll(g, w, kind, R2), VC) = Worth(w, WorthOfEach(g, kind, R2, VC))
  BY <1>1, AllWorth
<1>5. Worth(EffectsOfAll(g, w, kind, R), V) = Worth(w, WorthOfEach(g, kind, R, V))
  BY AllWorth
<1>6. QED
  BY <1>3, <1>4, <1>5, Zenon DEF VC, T

\* The flat share of the stars is all that is added and not filtered for.
FlatAlone(side) ==
  /\ side.flat \notin side.filter
  /\ Fields(side) = side.filter \cup {side.flat}

\* So it is on both sides: no other field is forgotten in a filter.
LEMMA SidesFlat ==
  ASSUME NEW b \in BOOLEAN
  PROVE  FlatAlone(FirepowerSide(b)) /\ FlatAlone(DefenseSide(b))
BY DEF FlatAlone, Fields, FirepowerSide, DefenseSide

\* What counts in the exact sum.
Counting(g, side) ==
  {x \in Gifts(g, "unit") :
     DOMAIN x.effect \cap Fields(side) # {side.flat}}

\* It is what reaches with the other members.
LEMMA CountingReach ==
  ASSUME NEW g, NEW unit, NEW side, FlatAlone(side)
  PROVE  \A x \in Gifts(g, "unit") :
           x \in ReachingUnit(g, unit, side.filter)
             <=> /\ x \in ReachingUnit(g, unit, Fields(side))
                 /\ x \in Counting(g, side)
<1> DEFINE all == Fields(side)
           alliance(x) == getAlliance(g, x.giver, OwnerOf(g, unit))
           Meets(x) == /\ alliance(x) # "NEUTRAL"
                       /\ Names(x.effect, "targets", alliance(x))
                       /\ unitMatchesEffect(unit, TerrainUnder(g, unit), x.effect)
<1> TAKE x \in Gifts(g, "unit")
<1>1. \A members : x \in ReachingUnit(g, unit, members)
                     <=> Meets(x) /\ DOMAIN x.effect \cap members # {}
  BY Zenon DEF ReachingUnit
<1>2. x \in Counting(g, side) <=> DOMAIN x.effect \cap all # {side.flat}
  BY Zenon DEF Counting
<1> HIDE DEF Meets
<1>3. DOMAIN x.effect \cap side.filter # {}
        <=> DOMAIN x.effect \cap all # {} /\ DOMAIN x.effect \cap all # {side.flat}
  <2> DEFINE D == DOMAIN x.effect
             F == side.filter
             f == side.flat
  <2>1. f \notin F /\ all = F \cup {f}
    BY Zenon DEF FlatAlone
  <2> HIDE DEF D, F, f, all
  <2>2. D \cap F # {} <=> D \cap (F \cup {f}) # {} /\ D \cap (F \cup {f}) # {f}
    BY <2>1, Zenon
  <2>3. QED
    BY <2>1, <2>2, Zenon DEF D, F, f
<1>4. QED
  BY <1>1, <1>2, <1>3, Zenon

\* Their worth is that of all that reaches, where only these count.
LEMMA CountedWorth ==
  ASSUME NEW g, IsGame(g), NEW w \in SetToSeqs(DOMAIN g.players),
         NEW unit, NEW side, FlatAlone(side),
         NEW Y \in [Gifts(g, "unit") -> Int]
  PROVE  Worth(Given(g, w, unit, Fields(side)),
               Within(Gifts(g, "unit"), Counting(g, side), Y))
           = Worth(Given(g, w, unit, side.filter), Y)
<1> DEFINE kind == "unit"
           R == ReachingUnit(g, unit, side.filter)
           R2 == ReachingUnit(g, unit, Fields(side))
           C == Counting(g, side)
<1>1. kind \in Kinds /\ IsFiniteSet(DOMAIN g.players)
  BY Zenon DEF IsGame, Kinds
<1>2. w \in Seq(DOMAIN g.players)
  BY <1>1, WalkOfPlayers
<1>3. \A x \in Gifts(g, kind) : x \in R <=> x \in R2 /\ x \in C
  BY CountingReach, Zenon
<1>4. Y \in [Gifts(g, kind) -> Int]
  OBVIOUS
<1>5. Given(g, w, unit, Fields(side)) = EffectsOfAll(g, w, kind, R2)
  BY Zenon DEF Given
<1>6. Given(g, w, unit, side.filter) = EffectsOfAll(g, w, kind, R)
  BY Zenon DEF Given
<1> HIDE DEF R, R2, C, kind
<1>7. Worth(EffectsOfAll(g, w, kind, R2), Within(Gifts(g, kind), C, Y))
        = Worth(EffectsOfAll(g, w, kind, R), Y)
  BY <1>1, <1>2, <1>3, <1>4, WorthOfCounted
<1>8. QED
  BY <1>5, <1>6, <1>7, Zenon DEF C, kind

Exactly(sum, slack) == [sum |-> 1000000 + sum, slack |-> slack]

\* What every effect is worth in the exact sum, and what may be cut off.
ExactShares(g, w, unit, side) ==
  [x \in Gifts(g, "unit") |->
     ExactShare(g, unit, side, getCurrentVariant(g), ExactStars(g, w, unit), x)]
Slacks(g, unit, side) == [x \in Gifts(g, "unit") |-> Slack(unit, side, x)]

\* The exact sum without the effects that have only a flat share is the worth
\* of the effects that the calculator picks.
LEMMA ExactWorth ==
  ASSUME NEW g, IsGame(g), NEW w \in SetToSeqs(DOMAIN g.players),
         NEW unit, NEW side, FlatAlone(side),
         ExactShares(g, w, unit, side) \in [Gifts(g, "unit") -> Int],
         Slacks(g, unit, side) \in [Gifts(g, "unit") -> Int]
  PROVE  ExactStrength(g, w, unit, side, {side.flat})
           = Exactly(Worth(Given(g, w, unit, side.filter),
                           ExactShares(g, w, unit, side)),
                     Worth(Given(g, w, unit, side.filter), Slacks(g, unit, side)))
<1> DEFINE kind == "unit"
           T == Gifts(g, kind)
           given == Given(g, w, unit, side.filter)
           all == Fields(side)
           given2 == getAllPassiveUnitEffects(g, w, unit, all)
           R == ReachingUnit(g, unit, side.filter)
           R2 == ReachingUnit(g, unit, all)
           C == Counting(g, side)
           stars == ExactStars(g, w, unit)
           variant == getCurrentVariant(g)
           X == ExactShares(g, w, unit, side)
           S == Slacks(g, unit, side)
           counts(i) == DOMAIN given2[i].effect \cap all # {side.flat}
           f == [i \in DOMAIN given2 |->
                   IF counts(i)
                   THEN ExactShare(g, unit, side, variant, stars, given2[i]) ELSE 0]
           o == [i \in DOMAIN given2 |->
                   IF counts(i) THEN Slack(unit, side, given2[i]) ELSE 0]
<1>1. IsFiniteSet(DOMAIN g.players) /\ kind \in Kinds
  BY Zenon DEF IsGame, Kinds
<1>2. given2 = Given(g, w, unit, all)
  BY Zenon DEF getAllPassiveUnitEffects, Given
<1>3. /\ w \in Seq(DOMAIN g.players)
      /\ given \in Seq(T) /\ given2 \in Seq(T)
  <2>1. w \in Seq(DOMAIN g.players) /\ given \in Seq(T)
    BY <1>1, GivenType, Zenon
  <2> HIDE DEF all, given2
  <2>2. given2 \in Seq(T)
    BY <1>1, <1>2, GivenType, Zenon
  <2>3. QED
    BY <2>1, <2>2
<1>4. ExactStrength(g, w, unit, side, {side.flat}) = Exactly(Total(f), Total(o))
  BY SMT DEF ExactStrength, Exactly
<1>5. X \in [T -> Int] /\ S \in [T -> Int]
  OBVIOUS
<1>6. \A x \in T : x \in R <=> x \in R2 /\ x \in C
  BY CountingReach, Zenon
<1>7. given = EffectsOfAll(g, w, kind, R) /\ given2 = EffectsOfAll(g, w, kind, R2)
  BY <1>2, Zenon DEF Given
<1>8. \A i \in DOMAIN given2 : given2[i] \in T
  <2> HIDE DEF given2, T
  <2>1. QED
    BY <1>3, ElementsOf, Zenon
<1>9. \A i \in DOMAIN given2 : counts(i) <=> given2[i] \in C
  BY <1>8, Zenon DEF Counting
<1>10. f = [i \in DOMAIN given2 |-> Within(T, C, X)[given2[i]]]
  <2> DEFINE E(x) == ExactShare(g, unit, side, variant, stars, x)
  <2>1. \A x \in T : X[x] = E(x)
    BY Zenon DEF ExactShares
  <2>2. f = [i \in DOMAIN given2 |-> IF counts(i) THEN E(given2[i]) ELSE 0]
    BY Zenon
  <2>3. \A x \in T : Within(T, C, X)[x] = IF x \in C THEN X[x] ELSE 0
    BY Zenon DEF Within
  <2> HIDE DEF E, X, T, C, given2, counts, f
  <2>4. \A i \in DOMAIN given2 :
          (IF counts(i) THEN E(given2[i]) ELSE 0) = Within(T, C, X)[given2[i]]
    BY <1>8, <1>9, <2>1, <2>3, Zenon
  <2>5. QED
    BY <2>2, <2>4, Zenon
<1>11. o = [i \in DOMAIN given2 |-> Within(T, C, S)[given2[i]]]
  <2> DEFINE E(x) == Slack(unit, side, x)
  <2>1. \A x \in T : S[x] = E(x)
    BY Zenon DEF Slacks
  <2>2. o = [i \in DOMAIN given2 |-> IF counts(i) THEN E(given2[i]) ELSE 0]
    BY Zenon
  <2>3. \A x \in T : Within(T, C, S)[x] = IF x \in C THEN S[x] ELSE 0
    BY Zenon DEF Within
  <2> HIDE DEF E, S, T, C, given2, counts, o
  <2>4. \A i \in DOMAIN given2 :
          (IF counts(i) THEN E(given2[i]) ELSE 0) = Within(T, C, S)[given2[i]]
    BY <1>8, <1>9, <2>1, <2>3, Zenon
  <2>5. QED
    BY <2>2, <2>4, Zenon
<1> HIDE DEF f, o, X, S, T, C, R, R2, given, given2, kind
<1>12. Total(f) = Worth(given2, Within(T, C, X)) /\ Total(o) = Worth(given2, Within(T, C, S))
  BY <1>10, <1>11, Zenon DEF Worth
<1>13. ASSUME NEW Y \in [T -> Int]
       PROVE  Worth(given2, Within(T, C, Y)) = Worth(given, Y)
  <2>1. Y \in [Gifts(g, "unit") -> Int]
    BY Zenon DEF T, kind
  <2>2. Worth(Given(g, w, unit, Fields(side)),
              Within(Gifts(g, "unit"), Counting(g, side), Y))
          = Worth(Given(g, w, unit, side.filter), Y)
    BY <2>1, CountedWorth
  <2>3. QED
    BY <1>2, <2>2, Zenon DEF T, C, given, kind
<1>14. Total(f) = Worth(given, X) /\ Total(o) = Worth(given, S)
  BY <1>5, <1>12, <1>13, Zenon
<1>15. QED
  BY <1>4, <1>14, Zenon DEF given, X, S

\* Nearness of sums is the nearness of the property.
LEMMA NearEnough ==
  ASSUME NEW a \in Int, NEW b \in Int, NEW s \in Int, NEW n \in Nat,
         Near(a, b, s, n), n = 0 => s = 0
  PROVE  NearExact(100 + a, Exactly(b, s))
<1> DEFINE off == 10000 * (100 + a) - (1000000 + b)
<1>1. off = 10000 * a - b
  BY SMT
<1>2. n = 0 => off = 0
  BY <1>1, SMT DEF Near
<1>3. n # 0 => -s < off /\ off < s
  BY <1>1, SMT DEF Near
<1>4. Exactly(b, s).sum = 1000000 + b /\ Exactly(b, s).slack = s
  BY SMT DEF Exactly
<1>5. QED
  BY <1>2, <1>3, <1>4, SMT DEF NearExact

\* Nothing is asked of a call that throws.
LEMMA ThrowsIsNear ==
  ASSUME NEW exact
  PROVE  NearExact(Throws, exact)
BY SMT DEF NearExact

\* Firepower and defense are near the exact sums.
LEMMA StrengthStays ==
  ASSUME NEW g, IsGame(g), NEW w \in SetToSeqs(DOMAIN g.players),
         NEW unit, IsUnit(unit), NEW side, IsSide(side), FlatAlone(side)
  PROVE  NearExact(Strength(g, w, unit, side),
                   ExactStrength(g, w, unit, side, {side.flat}))
<1> DEFINE answer == Strength(g, w, unit, side)
           T == Gifts(g, "unit")
           variant == getCurrentVariant(g)
           full == ExactStars(g, w, unit)
           stars == calculateUnitTerrainStars(g, w, unit)
           stars0 == IF stars = Throws THEN Quotient(full, 100) ELSE stars
           given == Given(g, w, unit, side.filter)
           V == [x \in T |-> Share(g, unit, side, variant, stars0, x)]
           X == ExactShares(g, w, unit, side)
           S == Slacks(g, unit, side)
           f == [i \in DOMAIN given |->
                   Share(g, unit, side, variant, stars, given[i])]
<1>1. CASE answer = Throws
  BY <1>1, ThrowsIsNear, Zenon
<1>2. CASE answer # Throws
  <2>1. getAllPassiveUnitEffects(g, w, unit, side.filter) = given
    BY Zenon DEF getAllPassiveUnitEffects, Given
  <2>2. answer = Asked(unit,
           IF variant = Throws \/ (given # <<>> /\ stars = Throws) THEN Throws
           ELSE 100 + Total(f))
    BY <2>1, Zenon DEF Strength
  <2>3. answer = 100 + Total(f) /\ (given # <<>> => stars # Throws)
    <3> HIDE DEF answer, variant, given, stars, f
    <3>1. QED
      BY <1>2, <2>2, Zenon DEF Asked
  <2>4. full \in Int
    BY StarsNear, Zenon
  <2>5. stars0 \in Int /\ CutOff(stars0, full)
    <3>1. stars # Throws => stars \in Int
      BY StarsType, Zenon
    <3>2. stars # Throws => -99 <= 100 * stars - full /\ 100 * stars - full <= 99
      BY StarsNear, Zenon
    <3> HIDE DEF stars, full
    <3>3. CASE stars = Throws
      <4>1. Quotient(full, 100) \in Int
        BY <2>4, QuotientType
      <4>2. /\ -99 <= 100 * Quotient(full, 100) - full
            /\ 100 * Quotient(full, 100) - full <= 99
        BY <2>4, QuotientNear
      <4>3. stars0 = Quotient(full, 100)
        BY <3>3, Zenon
      <4>4. QED
        BY <4>1, <4>2, <4>3 DEF CutOff
    <3>4. CASE stars # Throws
      <4>1. stars0 = stars
        BY <3>4, Zenon
      <4>2. QED
        BY <3>1, <3>2, <3>4, <4>1, Zenon DEF CutOff
    <3>5. QED
      BY <3>3, <3>4
  <2>6. given \in Seq(T)
    BY GivenType, Zenon DEF IsGame
  <2>7. given # <<>> => stars0 = stars
    BY <2>3, Zenon
  <2> HIDE DEF stars0, variant, full
  <2>8. \A x \in T :
          /\ Share(g, unit, side, variant, stars0, x) \in Int
          /\ ExactShare(g, unit, side, variant, full, x) \in Int
          /\ Slack(unit, side, x) \in Int
          /\ Near(Share(g, unit, side, variant, stars0, x),
                  ExactShare(g, unit, side, variant, full, x),
                  Slack(unit, side, x), 1)
    <3> TAKE x \in T
    <3>1. Share(g, unit, side, variant, stars0, x) \in Int
      BY <2>5, ShareType
    <3>2. /\ ExactShare(g, unit, side, variant, full, x) \in Int
          /\ Slack(unit, side, x) \in Int
          /\ Near(Share(g, unit, side, variant, stars0, x),
                  ExactShare(g, unit, side, variant, full, x),
                  Slack(unit, side, x), 1)
      BY <2>4, <2>5, ShareNear
    <3>3. QED
      BY <3>1, <3>2
  <2>9. X = [x \in T |-> ExactShare(g, unit, side, variant, full, x)]
    BY Zenon DEF ExactShares, variant, full
  <2>10. S = [x \in T |-> Slack(unit, side, x)]
    BY Zenon DEF Slacks
  <2>11. V \in [T -> Int] /\ X \in [T -> Int] /\ S \in [T -> Int]
    BY <2>8, <2>9, <2>10, Zenon
  <2>12. \A x \in T : Near(V[x], X[x], S[x], 1)
    <3> HIDE DEF X, S
    <3>1. QED
      BY <2>8, <2>9, <2>10, Zenon
  <2>13. ExactStrength(g, w, unit, side, {side.flat})
           = Exactly(Worth(given, X), Worth(given, S))
    BY <2>11, ExactWorth, Zenon
  <2>14. Total(f) = Worth(given, V)
    <3>1. \A i \in DOMAIN given : given[i] \in T
      <4> HIDE DEF given, T
      <4>1. QED
        BY <2>6, ElementsOf
    <3>2. \A i \in DOMAIN given : stars0 = stars
      <4>1. DOMAIN <<>> = {}
        OBVIOUS
      <4> HIDE DEF given, stars
      <4>2. QED
        BY <2>7, <4>1, Zenon
    <3>3. \A i \in DOMAIN given :
            Share(g, unit, side, variant, stars, given[i]) = V[given[i]]
      <4> HIDE DEF given, stars
      <4>1. QED
        BY <3>1, <3>2, Zenon
    <3>4. f = [i \in DOMAIN given |-> V[given[i]]]
      <4> HIDE DEF given, stars, V
      <4>1. QED
        BY <3>3, Zenon
    <3>5. QED
      BY <3>4, Zenon DEF Worth
  <2> HIDE DEF answer, f, V, X, S, T, given
  <2>15. /\ Worth(given, V) \in Int /\ Worth(given, X) \in Int /\ Worth(given, S) \in Int
         /\ Near(Worth(given, V), Worth(given, X), Worth(given, S), Len(given))
         /\ Len(given) = 0 => Worth(given, S) = 0
    BY <2>6, <2>11, <2>12, WorthNear
  <2>16. Len(given) \in Nat
    BY <2>6
  <2>17. NearExact(100 + Worth(given, V), Exactly(Worth(given, X), Worth(given, S)))
    BY <2>15, <2>16, NearEnough
  <2>18. NearExact(answer, ExactStrength(g, w, unit, side, {side.flat}))
    <3>1. answer = 100 + Worth(given, V)
      BY <2>3, <2>14, Zenon
    <3>2. QED
      BY <2>13, <2>17, <3>1, Zenon
  <2>19. QED
    BY <2>18 DEF answer
<1>3. QED
  BY <1>1, <1>2

\* Firepower and defense stray from the exact sum over all effects that reach,
\* of all fields that are added, by less than two points for each effect and
\* one for each of its points per star, whatever the numbers of the mod, the
\* funds and the hit points are: the divisions of an effect's share (funds by
\* 1000, hit points by 100) and of the stars (by 100) are all that is cut off.
\* The only effects left out are those with no other field than a flat share
\* of the stars, which the filters of calculateUnitFirepower and
\* calculateUnitDefense do not ask for: no other field is picked and not
\* added, or added and not picked.
THEOREM StrengthIsNear == Spec => []StrengthNearExact
<1>1. ASSUME TypeOK PROVE StrengthNearExact
  <2> SUFFICES ASSUME NEW u \in DOMAIN game.units, NEW side \in Sides
               PROVE  \E without \in {{}, {side.flat}} :
                        NearExact(Strength(game, walk, game.units[u], side),
                                  ExactStrength(game, walk, game.units[u], side,
                                                without))
    BY Zenon DEF StrengthNearExact
  <2>1. /\ IsGame(game) /\ walk \in SetToSeqs(DOMAIN game.players)
        /\ IsUnit(game.units[u])
    BY <1>1, Zenon DEF TypeOK, IsGame
  <2>2. IsSide(side) /\ FlatAlone(side)
    <3>1. PICK b \in BOOLEAN : side = FirepowerSide(b) \/ side = DefenseSide(b)
      BY Zenon DEF Sides
    <3>2. QED
      BY <3>1, SidesType, SidesFlat, Zenon
  <2>3. NearExact(Strength(game, walk, game.units[u], side),
                  ExactStrength(game, walk, game.units[u], side, {side.flat}))
    BY <2>1, <2>2, StrengthStays
  <2>4. QED
    BY <2>3, Zenon
<1>2. QED
  BY <1>1, Typed, PTL
=============================================================================
