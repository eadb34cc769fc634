--------------------------- MODULE KeepingProofs ---------------------------
(***************************************************************************)
(* What Keep computes, for every sequence and every set, and facts about   *)
(* sequences without repetitions.  Induction is done with sets of numbers  *)
(* in place of predicates, which needs no higher-order instance: a set     *)
(* that has 0 and is closed under successors has every number, because     *)
(* the numbers are well founded.                                           *)
(***************************************************************************)
EXTENDS Keeping, FiniteSets, SequencesExt, SequenceTheorems, FiniteSetTheorems,
        WellFoundedInduction, TLAPS

-----------------------------------------------------------------------------
(* Induction and recursion.                                                *)

\* The order of the numbers, as a relation.
NatLess == {p \in Nat \X Nat : p[1] < p[2]}

\* Every set of numbers that is not empty has a smallest element.
LEMMA Smallest ==
  ASSUME NEW S \in SUBSET Nat, S # {}
  PROVE \E n \in S : \A m \in S : n <= m
<1>0. IsWellFoundedOn(NatLess, Nat)
  BY NatLessThanWellFounded DEF NatLess, OpToRel
<1>1. \E x \in S : \A y \in S : ~(<<y,x>> \in NatLess)
  BY <1>0, WFMin
<1>2. PICK x \in S : \A y \in S : ~(<<y,x>> \in NatLess) BY <1>1
<1>3. ASSUME NEW y \in S PROVE x <= y
  <2>1. x \in Nat /\ y \in Nat /\ <<y, x>> \notin NatLess BY <1>2
  <2>2. <<y,x>>[1] = y /\ <<y,x>>[2] = x /\ <<y,x>> \in Nat \X Nat BY <2>1
  <2>. QED BY <2>1, <2>2 DEF NatLess
<1>. QED BY <1>3

\* Mathematical induction over a set of numbers.
LEMMA Induction ==
  ASSUME NEW S, 0 \in S, \A n \in Nat : n \in S => n + 1 \in S
  PROVE  Nat \subseteq S
<1>. SUFFICES ASSUME Nat \ S # {} PROVE FALSE OBVIOUS
<1>1. PICK n \in Nat \ S : \A m \in Nat \ S : n <= m
  <2>. Nat \ S \in SUBSET Nat OBVIOUS
  <2>. QED BY Smallest
<1>2. n # 0 /\ n - 1 \in Nat OBVIOUS
<1>3. n - 1 \in S BY <1>1, <1>2
<1>4. (n - 1) + 1 = n OBVIOUS
<1>. QED BY <1>2, <1>3, <1>4

\* f starts with b and goes on with g.
Iterates(f, N, b, g) == f[0] = b /\ \A i \in 1..N : f[i] = g[<<f[i-1], i>>]

\* A recursive function over 0..N exists.
LEMMA Recursion ==
  ASSUME NEW X, NEW b \in X, NEW N \in Nat, NEW g \in [X \X (1..N) -> X]
  PROVE  \E f \in [0..N -> X] : Iterates(f, N, b, g)
<1>. DEFINE Good(n, f) == f[0] = b /\ \A i \in 1..n : f[i] = g[<<f[i-1], i>>]
            S == {n \in Nat : n <= N => \E f \in [0..n -> X] : Good(n, f)}
<1>1. 0 \in S
  <2>1. [i \in 0..0 |-> b] \in [0..0 -> X] /\ Good(0, [i \in 0..0 |-> b])  OBVIOUS
  <2>. QED  BY <2>1
<1>2. ASSUME NEW n \in Nat, n \in S, n + 1 <= N PROVE \E f \in [0..(n+1) -> X] : Good(n+1, f)
  <2>1. PICK f \in [0..n -> X] : Good(n, f)  BY <1>2
  <2>. DEFINE h == [i \in 0..(n+1) |-> IF i <= n THEN f[i] ELSE g[<<f[n], n+1>>]]
  <2>2. f[n] \in X /\ n + 1 \in 1..N  BY <1>2
  <2>3. g[<<f[n], n+1>>] \in X  BY <2>2
  <2>4. h \in [0..(n+1) -> X]  BY <2>3
  <2>5. h[0] = b  BY <2>1
  <2>6. ASSUME NEW i \in 1..(n+1) PROVE h[i] = g[<<h[i-1], i>>]
    <3>1. CASE i \in 1..n  BY <2>1, <3>1
    <3>2. CASE i = n + 1  BY <3>2
    <3>. QED  BY <3>1, <3>2
  <2>. QED  BY <2>4, <2>5, <2>6
<1>3. \A n \in Nat : n \in S => n + 1 \in S  BY <1>2
<1>. HIDE DEF S
<1>4. N \in S  BY <1>1, <1>3, Induction
<1>. QED  BY <1>4 DEF S, Iterates

-----------------------------------------------------------------------------
(* Keep.                                                                   *)

\* The function that defines Keep satisfies its equation.
LEMMA KeptEquation ==
  ASSUME NEW T, NEW s \in Seq(T), NEW S
  PROVE  KeptUpTo(s, S) = [i \in 0..Len(s) |->
           IF i = 0 THEN <<>>
           ELSE IF s[i] \in S THEN Append(KeptUpTo(s, S)[i-1], s[i])
                ELSE KeptUpTo(s, S)[i-1]]
<1>. DEFINE X == Seq(T)
            g == [p \in X \X (1..Len(s)) |-> IF s[p[2]] \in S THEN Append(p[1], s[p[2]]) ELSE p[1]]
            Eq(f) == f = [i \in 0..Len(s) |->
           IF i = 0 THEN <<>>
           ELSE IF s[i] \in S THEN Append(f[i-1], s[i]) ELSE f[i-1]]
<1>1. g \in [X \X (1..Len(s)) -> X]
  <2>1. ASSUME NEW x \in X, NEW i \in 1..Len(s)
        PROVE (IF s[i] \in S THEN Append(x, s[i]) ELSE x) \in X
    OBVIOUS
  <2>. QED  BY <2>1
<1>2. PICK f \in [0..Len(s) -> X] : f[0] = <<>> /\ \A i \in 1..Len(s) : f[i] = g[<<f[i-1], i>>]
  <2>. DEFINE N == Len(s)
              b == <<>>
  <2>1. b \in X /\ N \in Nat /\ g \in [X \X (1..N) -> X]  BY <1>1
  <2>. HIDE DEF X, g, N, b
  <2>2. \E f \in [0..N -> X] : Iterates(f, N, b, g)
    BY <2>1, Recursion
  <2>. QED  BY <2>2 DEF N, b, Iterates
<1>3. Eq(f)
  <2>1. ASSUME NEW i \in 1..Len(s) PROVE f[i] = IF s[i] \in S THEN Append(f[i-1], s[i]) ELSE f[i-1]
    <3>1. f[i-1] \in X  OBVIOUS
    <3>2. <<f[i-1], i>> \in X \X (1..Len(s))  BY <3>1
    <3>. QED  BY <1>2, <3>2
  <2>. DEFINE h == [i \in 0..Len(s) |-> IF i = 0 THEN <<>>
           ELSE IF s[i] \in S THEN Append(f[i-1], s[i]) ELSE f[i-1]]
  <2>2. ASSUME NEW i \in 0..Len(s) PROVE f[i] = h[i]
    <3>1. i = 0 \/ i \in 1..Len(s)  OBVIOUS
    <3>. QED  BY <1>2, <2>1, <3>1
  <2>3. DOMAIN f = DOMAIN h /\ f = [i \in DOMAIN f |-> f[i]] /\ h = [i \in DOMAIN h |-> h[i]]  OBVIOUS
  <2>. HIDE DEF h
  <2>4. f = h  BY <2>2, <2>3
  <2>. QED  BY <2>4 DEF h
<1>4. KeptUpTo(s, S) = CHOOSE h : Eq(h)  BY DEF KeptUpTo
<1>. HIDE DEF Eq
<1>5. Eq(CHOOSE h : Eq(h))  BY <1>3
<1>6. Eq(KeptUpTo(s, S)) BY <1>4, <1>5
<1>. QED  BY <1>6 DEF Eq

\* f tells where in s, up to n, the elements of t are: all that are in S, in order.
Embeds(f, t, s, n, S) ==
  /\ f \in [1..Len(t) -> 1..n]
  /\ \A i, j \in 1..Len(t) : i < j => f[i] < f[j]
  /\ \A i \in 1..Len(t) : t[i] = s[f[i]] /\ s[f[i]] \in S
  /\ \A j \in 1..n : s[j] \in S => \E i \in 1..Len(t) : f[i] = j

\* One more element that is kept.
LEMMA EmbedsMore ==
  ASSUME NEW T, NEW s \in Seq(T), NEW S, NEW n \in Nat, n + 1 \in 1..Len(s),
         NEW t \in Seq(T), NEW f, Embeds(f, t, s, n, S), s[n+1] \in S
  PROVE  \E h : Embeds(h, Append(t, s[n+1]), s, n+1, S)
<1>. DEFINE u == Append(t, s[n+1])
            L == Len(t)
            h == [i \in 1..(L+1) |-> IF i <= L THEN f[i] ELSE n+1]
<1>1. u \in Seq(T) /\ Len(u) = L + 1 /\ L \in Nat /\ u[L+1] = s[n+1]
      /\ \A i \in 1..L : u[i] = t[i]
  OBVIOUS
<1>2. \A i \in 1..L : f[i] \in 1..n  BY DEF Embeds
<1>3. h \in [1..(L+1) -> 1..(n+1)]  BY <1>1, <1>2
<1>4. ASSUME NEW i \in 1..(L+1), NEW j \in 1..(L+1), i < j PROVE h[i] < h[j]
  <2>1. i \in 1..L /\ h[i] = f[i] /\ f[i] \in 1..n  BY <1>1, <1>2, <1>4
  <2>2. CASE j \in 1..L  BY <1>4, <2>1, <2>2 DEF Embeds
  <2>3. CASE j = L+1  BY <1>1, <2>1, <2>3
  <2>. QED  BY <1>1, <2>2, <2>3
<1>5. ASSUME NEW i \in 1..(L+1) PROVE u[i] = s[h[i]] /\ s[h[i]] \in S
  <2>1. CASE i \in 1..L  BY <1>1, <2>1 DEF Embeds
  <2>2. CASE i = L+1  BY <1>1, <2>2
  <2>. QED  BY <1>1, <2>1, <2>2
<1>6. ASSUME NEW j \in 1..(n+1), s[j] \in S PROVE \E i \in 1..(L+1) : h[i] = j
  <2>1. CASE j \in 1..n
    <3>1. PICK i \in 1..L : f[i] = j  BY <1>6, <2>1 DEF Embeds
    <3>. QED  BY <1>1, <3>1
  <2>2. CASE j = n+1  BY <1>1, <2>2
  <2>. QED  BY <2>1, <2>2
<1>. HIDE DEF h, u, L
<1>7. Embeds(h, u, s, n+1, S)  BY <1>1, <1>3, <1>4, <1>5, <1>6 DEF Embeds
<1>. QED  BY <1>7 DEF u

\* What Keep computes: the elements of s in S, in the order of s.
LEMMA KeepEmbeds ==
  ASSUME NEW T, NEW s \in Seq(T), NEW S
  PROVE  /\ Keep(s, S) \in Seq(T)
         /\ \E f : Embeds(f, Keep(s, S), s, Len(s), S)
<1>. DEFINE K == KeptUpTo(s, S)
            Good(n) == K[n] \in Seq(T) /\ \E f : Embeds(f, K[n], s, n, S)
            G == {n \in Nat : n <= Len(s) => Good(n)}
<1>1. /\ K[0] = <<>>
      /\ \A i \in 1..Len(s) :
           K[i] = IF s[i] \in S THEN Append(K[i-1], s[i]) ELSE K[i-1]
  <2>. DEFINE h == [i \in 0..Len(s) |->
           IF i = 0 THEN <<>>
           ELSE IF s[i] \in S THEN Append(K[i-1], s[i]) ELSE K[i-1]]
  <2>1. K = h  BY KeptEquation
  <2>2. h[0] = <<>> /\ \A i \in 1..Len(s) :
           h[i] = IF s[i] \in S THEN Append(K[i-1], s[i]) ELSE K[i-1]
    <3>. HIDE DEF K
    <3>. QED  OBVIOUS
  <2>. HIDE DEF K, h
  <2>. QED  BY <2>1, <2>2
<1>. HIDE DEF K
<1>2. Good(0)
  <2>1. Embeds(<<>>, <<>>, s, 0, S)  BY DEF Embeds
  <2>2. Embeds(<<>>, K[0], s, 0, S)  BY <1>1, <2>1
  <2>3. K[0] \in Seq(T)  BY <1>1
  <2>. QED  BY <2>2, <2>3
<1>3. ASSUME NEW n \in Nat, Good(n), n + 1 <= Len(s) PROVE Good(n+1)
  <2>1. K[n] \in Seq(T) /\ n + 1 \in 1..Len(s) /\ s[n+1] \in T  BY <1>3
  <2>2. PICK f : Embeds(f, K[n], s, n, S)  BY <1>3
  <2>3. K[n+1] = IF s[n+1] \in S THEN Append(K[n], s[n+1]) ELSE K[n]
    BY <1>1, <2>1
  <2>4. CASE s[n+1] \in S
    <3>1. \E h : Embeds(h, Append(K[n], s[n+1]), s, n+1, S)
      BY <2>1, <2>2, <2>4, EmbedsMore
    <3>. QED  BY <2>1, <2>3, <2>4, <3>1
  <2>5. CASE s[n+1] \notin S
    <3>1. Embeds(f, K[n], s, n+1, S)
      BY <2>1, <2>2, <2>5 DEF Embeds
    <3>. QED  BY <2>1, <2>3, <2>5, <3>1
  <2>. QED  BY <2>4, <2>5
<1>. HIDE DEF Good
<1>4. \A n \in Nat : n \in G => n + 1 \in G  BY <1>3
<1>5. 0 \in G  BY <1>2
<1>. HIDE DEF G
<1>6. Len(s) \in G  BY <1>5, <1>4, Induction
<1>7. Good(Len(s))  BY <1>6 DEF G
<1>. QED  BY <1>7 DEF Good, Keep, K

\* The elements of Keep(s, S).
LEMMA KeepInS ==
  ASSUME NEW T, NEW s \in Seq(T), NEW S
  PROVE  /\ Keep(s, S) \in Seq(T)
         /\ ToSet(Keep(s, S)) = ToSet(s) \cap S
<1>. DEFINE t == Keep(s, S)
<1>1. t \in Seq(T)  BY KeepEmbeds
<1>2. PICK f : Embeds(f, t, s, Len(s), S)  BY KeepEmbeds
<1>. HIDE DEF t
<1>3. DOMAIN t = 1..Len(t) /\ DOMAIN s = 1..Len(s)  BY <1>1
<1>4. ASSUME NEW i \in DOMAIN t PROVE t[i] \in ToSet(s) \cap S
  BY <1>2, <1>3 DEF Embeds, ToSet
<1>5. ASSUME NEW j \in DOMAIN s, s[j] \in S PROVE s[j] \in ToSet(t)
  <2>1. PICK i \in 1..Len(t) : f[i] = j  BY <1>2, <1>3, <1>5 DEF Embeds
  <2>2. t[i] = s[j]  BY <1>2, <2>1 DEF Embeds
  <2>. QED  BY <1>3, <2>2 DEF ToSet
<1>6. ToSet(t) = ToSet(s) \cap S  BY <1>4, <1>5 DEF ToSet
<1>. QED BY <1>1, <1>6 DEF t

\* Keep repeats no element that s does not repeat.
LEMMA KeepInjective ==
  ASSUME NEW T, NEW s \in Seq(T), NEW S, IsInjective(s)
  PROVE  IsInjective(Keep(s, S))
<1>. DEFINE t == Keep(s, S)
<1>1. t \in Seq(T)  BY KeepEmbeds
<1>2. PICK f : Embeds(f, t, s, Len(s), S)  BY KeepEmbeds
<1>. HIDE DEF t
<1>3. ASSUME NEW i \in 1..Len(t), NEW j \in 1..Len(t), t[i] = t[j] PROVE i = j
  <2>1. f[i] \in DOMAIN s /\ f[j] \in DOMAIN s /\ s[f[i]] = s[f[j]]
    BY <1>2, <1>3 DEF Embeds
  <2>2. f[i] = f[j]  BY <2>1 DEF IsInjective
  <2>3. ~(i < j) /\ ~(j < i)  BY <1>2, <2>1, <2>2 DEF Embeds
  <2>. QED  BY <1>1, <2>3
<1>4. IsInjective(t)  BY <1>1, <1>3 DEF IsInjective
<1>. QED BY <1>4 DEF t

\* The elements of an injective sequence are as many as its length.
LEMMA InjectiveLength ==
  ASSUME NEW T, NEW s \in Seq(T), IsInjective(s)
  PROVE  IsFiniteSet(ToSet(s)) /\ Cardinality(ToSet(s)) = Len(s)
<1>1. s \in [1..Len(s) -> ToSet(s)]  BY DEF ToSet
<1>2. s \in Injection(1..Len(s), ToSet(s))  BY <1>1 DEF IsInjective, Injection
<1>3. s \in Surjection(1..Len(s), ToSet(s))  BY <1>1 DEF ToSet, Surjection
<1>4. ExistsBijection(1..Len(s), ToSet(s))  BY <1>2, <1>3 DEF Bijection, ExistsBijection
<1>5. Len(s) \in Nat OBVIOUS
<1>. HIDE DEF IsInjective
<1>6. IsFiniteSet(1..Len(s)) /\ Cardinality(1..Len(s)) = Len(s)
  BY <1>5, FS_Interval
<1>. QED BY <1>4, <1>6, FS_Bijection

\* Nothing is kept exactly when nothing is in S.
LEMMA KeepNothing ==
  ASSUME NEW T, NEW s \in Seq(T), NEW S
  PROVE  Keep(s, S) = <<>> <=> ToSet(s) \cap S = {}
<1>. DEFINE t == Keep(s, S)
<1>1. t \in Seq(T) /\ ToSet(t) = ToSet(s) \cap S  BY KeepInS
<1>. HIDE DEF t
<1>2. t = <<>> <=> DOMAIN t = {}  BY <1>1
<1>3. DOMAIN t = {} <=> ToSet(t) = {}  BY DEF ToSet
<1>. QED  BY <1>1, <1>2, <1>3 DEF t

\* How many elements are kept of a sequence without repetitions.
LEMMA KeepLength ==
  ASSUME NEW T, NEW s \in Seq(T), NEW S, IsInjective(s)
  PROVE  /\ IsFiniteSet(ToSet(s) \cap S)
         /\ Len(Keep(s, S)) = Cardinality(ToSet(s) \cap S)
         /\ Len(Keep(s, S)) <= Len(s)
<1>1. Keep(s, S) \in Seq(T) /\ ToSet(Keep(s, S)) = ToSet(s) \cap S  BY KeepInS
<1>2. IsInjective(Keep(s, S))  BY KeepInjective
<1>3. /\ IsFiniteSet(ToSet(s)) /\ Cardinality(ToSet(s)) = Len(s)
      /\ Cardinality(ToSet(Keep(s, S))) = Len(Keep(s, S))
  BY <1>1, <1>2, InjectiveLength
<1>4. ToSet(s) \cap S \in SUBSET ToSet(s)  OBVIOUS
<1>. QED  BY <1>1, <1>3, <1>4, FS_Subset

-----------------------------------------------------------------------------
(* Sequences.                                                              *)

\* The elements of a sequence over S are in S.
LEMMA ToSetOfSeq ==
  ASSUME NEW T, NEW s \in Seq(T)
  PROVE  ToSet(s) \subseteq T /\ \A i \in 1..Len(s) : s[i] \in ToSet(s)
BY DEF ToSet

\* Append adds one element.
LEMMA ToSetAppend ==
  ASSUME NEW T, NEW s \in Seq(T), NEW x \in T
  PROVE  ToSet(Append(s, x)) = ToSet(s) \cup {x}
<1>. DEFINE t == Append(s, x)
<1>1. /\ t \in Seq(T) /\ Len(t) = Len(s) + 1 /\ t[Len(s)+1] = x /\ Len(s) \in Nat
      /\ \A i \in 1..Len(s) : t[i] = s[i]
  OBVIOUS
<1>. HIDE DEF t
<1>2. DOMAIN t = 1..(Len(s)+1) /\ DOMAIN s = 1..Len(s)  BY <1>1
<1>3. ToSet(t) \subseteq ToSet(s) \cup {x}
  <2>1. ASSUME NEW i \in 1..(Len(s)+1) PROVE t[i] \in ToSet(s) \cup {x}
    <3>1. i \in 1..Len(s) \/ i = Len(s)+1  BY <1>1
    <3>. QED  BY <1>1, <1>2, <3>1 DEF ToSet
  <2>. QED  BY <1>2, <2>1 DEF ToSet
<1>4. ToSet(s) \cup {x} \subseteq ToSet(t)
  <2>1. \A i \in 1..Len(s) : i \in DOMAIN t /\ t[i] = s[i]  BY <1>1, <1>2
  <2>2. Len(s)+1 \in DOMAIN t  BY <1>1, <1>2
  <2>. QED  BY <1>1, <1>2, <2>1, <2>2 DEF ToSet
<1>. QED  BY <1>3, <1>4 DEF t

\* Appending an element that is not there repeats none.
LEMMA InjectiveAppend ==
  ASSUME NEW T, NEW s \in Seq(T), NEW x \in T, IsInjective(s), x \notin ToSet(s)
  PROVE  IsInjective(Append(s, x))
<1>. DEFINE t == Append(s, x)
<1>1. /\ Len(t) = Len(s) + 1 /\ t[Len(s)+1] = x /\ Len(s) \in Nat
      /\ \A i \in 1..Len(s) : t[i] = s[i]
      /\ DOMAIN t = 1..(Len(s)+1) /\ DOMAIN s = 1..Len(s)
  OBVIOUS
<1>. HIDE DEF t
<1>2. \A i \in 1..Len(s) : t[i] # x  BY <1>1 DEF ToSet
<1>3. ASSUME NEW i \in DOMAIN t, NEW j \in DOMAIN t, t[i] = t[j] PROVE i = j
  <2>1. (i \in 1..Len(s) \/ i = Len(s)+1) /\ (j \in 1..Len(s) \/ j = Len(s)+1)
    BY <1>1
  <2>. QED  BY <1>1, <1>2, <1>3, <2>1 DEF IsInjective
<1>. QED  BY <1>3 DEF IsInjective, t

\* The tail of a sequence without repetitions lacks exactly its head.
LEMMA InjectiveTail ==
  ASSUME NEW T, NEW s \in Seq(T), IsInjective(s), s # <<>>
  PROVE  IsInjective(Tail(s)) /\ ToSet(Tail(s)) = ToSet(s) \ {Head(s)}
<1>. DEFINE t == Tail(s)
<1>1. /\ DOMAIN t = 1..(Len(s)-1) /\ DOMAIN s = 1..Len(s) /\ Len(s) \in Nat \ {0}
      /\ \A i \in 1..(Len(s)-1) : t[i] = s[i+1] /\ i + 1 \in 1..Len(s)
      /\ Head(s) = s[1]
  OBVIOUS
<1>. HIDE DEF t
<1>2. IsInjective(t)
  <2>1. ASSUME NEW i \in DOMAIN t, NEW j \in DOMAIN t, t[i] = t[j] PROVE i = j
    <3>1. s[i+1] = s[j+1] /\ i+1 \in DOMAIN s /\ j+1 \in DOMAIN s  BY <1>1, <2>1
    <3>2. i + 1 = j + 1  BY <3>1 DEF IsInjective
    <3>. QED  BY <1>1, <3>2
  <2>. QED  BY <2>1 DEF IsInjective
<1>3. ToSet(t) \subseteq ToSet(s) \ {Head(s)}
  <2>1. ASSUME NEW i \in DOMAIN t PROVE t[i] \in ToSet(s) \ {Head(s)}
    <3>1. i + 1 \in DOMAIN s /\ t[i] = s[i+1] /\ 1 \in DOMAIN s /\ i + 1 # 1  BY <1>1
    <3>2. s[i+1] # s[1]  BY <3>1 DEF IsInjective
    <3>. QED  BY <1>1, <3>1, <3>2 DEF ToSet
  <2>. QED  BY <2>1 DEF ToSet
<1>4. ToSet(s) \ {Head(s)} \subseteq ToSet(t)
  <2>1. ASSUME NEW i \in DOMAIN s, s[i] # Head(s) PROVE s[i] \in ToSet(t)
    <3>1. i # 1 /\ i - 1 \in 1..(Len(s)-1) /\ (i - 1) + 1 = i  BY <1>1, <2>1
    <3>2. t[i-1] = s[i] /\ i-1 \in DOMAIN t  BY <1>1, <3>1
    <3>. QED  BY <3>2 DEF ToSet
  <2>. QED  BY <2>1 DEF ToSet
<1>. QED  BY <1>2, <1>3, <1>4 DEF t

\* A prefix repeats nothing.
LEMMA InjectivePrefix ==
  ASSUME NEW T, NEW s \in Seq(T), NEW k \in Nat, k <= Len(s), IsInjective(s)
  PROVE  LET first == {s[i] : i \in 1..k}
         IN  IsFiniteSet(first) /\ Cardinality(first) = k /\ first \subseteq ToSet(s)
<1>. DEFINE first == {s[i] : i \in 1..k}
            f == [i \in 1..k |-> s[i]]
<1>1. 1..k \subseteq DOMAIN s  OBVIOUS
<1>2. f \in [1..k -> first]  OBVIOUS
<1>3. f \in Injection(1..k, first)  BY <1>1, <1>2 DEF IsInjective, Injection
<1>4. f \in Surjection(1..k, first)  BY <1>2 DEF Surjection
<1>5. ExistsBijection(1..k, first)  BY <1>3, <1>4 DEF Bijection, ExistsBijection
<1>6. IsFiniteSet(1..k) /\ Cardinality(1..k) = k  BY FS_Interval
<1>7. first \subseteq ToSet(s)  BY <1>1 DEF ToSet
<1>. HIDE DEF first
<1>8. IsFiniteSet(first) /\ Cardinality(first) = k  BY <1>5, <1>6, FS_Bijection
<1>. QED  BY <1>7, <1>8 DEF first
=============================================================================
