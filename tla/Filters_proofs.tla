--------------------------- MODULE Filters_proofs ---------------------------
(***************************************************************************)
(* What Filter returns, by induction on the length of the list, and what   *)
(* Append does.  The induction is over sets of numbers: the rule of the    *)
(* library takes a predicate, which cannot be instantiated.                *)
(***************************************************************************)
EXTENDS Filters, WellFoundedInduction, TLAPS

(* Induction for a set of numbers, by its smallest counterexample.         *)
LEMMA SetInduction ==
    ASSUME NEW T \in SUBSET Nat, 0 \in T, \A n \in T : n + 1 \in T
    PROVE  T = Nat
<1> SUFFICES ASSUME Nat \ T # {} PROVE FALSE
  OBVIOUS
<1>1. PICK n \in Nat \ T : \A y \in Nat \ T : ~(<<y, n>> \in OpToRel(<, Nat))
  BY NatLessThanWellFounded, WFMin
<1>2. n - 1 \in Nat \ T /\ n - 1 < n
  OBVIOUS
<1>3. <<n - 1, n>> \in OpToRel(<, Nat)
  BY <1>2 DEF OpToRel
<1>4. QED
  BY <1>1, <1>2, <1>3

(* One element of the recursion in Filter.                                 *)
Step(s, S, g, i) ==
    IF i = 0 THEN <<>> ELSE IF s[i] \in S THEN Append(g[i - 1], s[i]) ELSE g[i - 1]

(* The recursion has a solution for every length.                          *)
LEMMA FilterExists ==
    ASSUME NEW s, NEW S, NEW n \in Nat
    PROVE  \E g : g = [i \in 0 .. n |-> Step(s, S, g, i)]
<1> DEFINE T == {k \in Nat : \E g : g = [i \in 0 .. k |-> Step(s, S, g, i)]}
<1>1. 0 \in T
  <2> DEFINE g == [i \in 0 .. 0 |-> <<>>]
  <2>1. g = [i \in 0 .. 0 |-> Step(s, S, g, i)]
    BY DEF Step
  <2>2. QED
    BY <2>1
<1>2. ASSUME NEW k \in T PROVE k + 1 \in T
  <2>1. PICK g : g = [i \in 0 .. k |-> Step(s, S, g, i)]
    OBVIOUS
  <2> DEFINE h == [i \in 0 .. k + 1 |-> IF i = k + 1 THEN Step(s, S, g, i) ELSE g[i]]
  <2>2. ASSUME NEW i \in 0 .. k + 1 PROVE h[i] = Step(s, S, h, i)
    <3>1. i # 0 => h[i - 1] = g[i - 1]
      OBVIOUS
    <3>2. i # k + 1 => g[i] = Step(s, S, g, i)
      BY <2>1
    <3>3. Step(s, S, h, i) = Step(s, S, g, i)
      BY <3>1 DEF Step
    <3>4. QED
      BY <3>2, <3>3
  <2>3. h = [i \in 0 .. k + 1 |-> Step(s, S, h, i)]
    BY <2>2
  <2> HIDE DEF h
  <2>4. k + 1 \in Nat /\ \E f : f = [i \in 0 .. k + 1 |-> Step(s, S, f, i)]
    BY <2>3
  <2>5. QED
    BY <2>4
<1> HIDE DEF T
<1>3. T = Nat
  <2>1. T \in SUBSET Nat
    BY DEF T
  <2>2. QED
    BY <1>1, <1>2, <2>1, SetInduction
<1>4. QED
  BY <1>3 DEF T

(* Filter is the last value of such a solution.                            *)
LEMMA FilterRecursion ==
    ASSUME NEW s, NEW S, Len(s) \in Nat
    PROVE  \E g : /\ Filter(s, S) = g[Len(s)]
                  /\ g = [i \in 0 .. Len(s) |-> Step(s, S, g, i)]
<1> DEFINE g == CHOOSE f : f = [i \in 0 .. Len(s) |->
              IF i = 0 THEN <<>> ELSE IF s[i] \in S THEN Append(f[i - 1], s[i]) ELSE f[i - 1]]
<1>1. Filter(s, S) = g[Len(s)]
  BY DEF Filter
<1>2. g = [i \in 0 .. Len(s) |-> Step(s, S, g, i)]
  <2>1. \E f : f = [i \in 0 .. Len(s) |-> Step(s, S, f, i)]
    BY FilterExists
  <2>2. \E f : f = [i \in 0 .. Len(s) |->
              IF i = 0 THEN <<>> ELSE IF s[i] \in S THEN Append(f[i - 1], s[i]) ELSE f[i - 1]]
    BY <2>1 DEF Step
  <2>3. g = [i \in 0 .. Len(s) |->
              IF i = 0 THEN <<>> ELSE IF s[i] \in S THEN Append(g[i - 1], s[i]) ELSE g[i - 1]]
    BY <2>2, Zenon
  <2>4. QED
    BY <2>3, Zenon DEF Step
<1>3. QED
  BY <1>1, <1>2

(* Push adds one element, which the list may not hold twice.               *)
LEMMA AppendElement ==
    ASSUME NEW A, NEW s \in Seq(A), NEW x \in A
    PROVE  /\ Append(s, x) \in Seq(A)
           /\ ToSet(Append(s, x)) = ToSet(s) \cup {x}
           /\ IsInjective(s) /\ x \notin ToSet(s) => IsInjective(Append(s, x))
<1> DEFINE t == Append(s, x)
<1>1. /\ t \in Seq(A)
      /\ Len(s) \in Nat
      /\ DOMAIN s = 1 .. Len(s)
      /\ DOMAIN t = 1 .. Len(s) + 1
      /\ t[Len(s) + 1] = x
      /\ \A i \in 1 .. Len(s) : t[i] = s[i]
  OBVIOUS
<1> HIDE DEF t
<1>2. /\ Len(s) + 1 \in DOMAIN t
      /\ \A i \in DOMAIN t : i \in DOMAIN s \/ i = Len(s) + 1
      /\ \A i \in DOMAIN s : i \in DOMAIN t /\ t[i] = s[i]
  BY <1>1
<1>3. ToSet(t) = ToSet(s) \cup {x}
  <2>1. \A i \in DOMAIN t : t[i] \in ToSet(s) \cup {x}
    BY <1>1, <1>2 DEF ToSet
  <2>2. \A y \in ToSet(s) : \E i \in DOMAIN t : y = t[i]
    BY <1>2 DEF ToSet
  <2>3. \E i \in DOMAIN t : x = t[i]
    BY <1>1, <1>2
  <2>4. QED
    BY <2>1, <2>2, <2>3 DEF ToSet
<1>4. ASSUME IsInjective(s), x \notin ToSet(s) PROVE IsInjective(t)
  <2>1. \A i \in DOMAIN s : s[i] # x
    BY <1>4 DEF ToSet
  <2>2. \A i, j \in DOMAIN s : s[i] = s[j] => i = j
    BY <1>4 DEF IsInjective
  <2>3. QED
    BY <1>1, <1>2, <2>1, <2>2 DEF IsInjective
<1>5. QED
  BY <1>1, <1>3, <1>4 DEF t

(* Filter keeps the elements that are in S, and none twice.                *)
THEOREM FilterProperties ==
    ASSUME NEW A, NEW s \in Seq(A), NEW S
    PROVE  /\ Filter(s, S) \in Seq(A)
           /\ ToSet(Filter(s, S)) = ToSet(s) \cap S
           /\ IsInjective(s) => IsInjective(Filter(s, S))
<1>1. Len(s) \in Nat /\ DOMAIN s = 1 .. Len(s) /\ \A i \in 1 .. Len(s) : s[i] \in A
  OBVIOUS
<1>2. PICK g : /\ Filter(s, S) = g[Len(s)]
               /\ g = [i \in 0 .. Len(s) |-> Step(s, S, g, i)]
  BY <1>1, FilterRecursion
<1>3. \A i \in 0 .. Len(s) : g[i] = Step(s, S, g, i)
  BY <1>2, Zenon
<1> DEFINE Good(n) ==
      /\ g[n] \in Seq(A)
      /\ ToSet(g[n]) = {s[i] : i \in 1 .. n} \cap S
      /\ IsInjective(s) => IsInjective(g[n])
    T == {n \in Nat : n <= Len(s) => Good(n)}
<1>4. 0 \in T
  <2>1. g[0] = <<>>
    BY <1>1, <1>2 DEF Step
  <2>2. ToSet(<<>>) = {} /\ IsInjective(<<>>) /\ {s[i] : i \in 1 .. 0} = {}
    BY DEF ToSet, IsInjective
  <2>3. {s[i] : i \in 1 .. 0} \cap S = {}
    BY <2>2
  <2>4. g[0] \in Seq(A) /\ IsInjective(g[0]) /\ ToSet(g[0]) = {}
    BY <2>1, <2>2
  <2>5. Good(0)
    BY <2>3, <2>4, Zenon
  <2>6. QED
    BY <2>5
<1>5. ASSUME NEW n \in T PROVE n + 1 \in T
  <2> SUFFICES ASSUME n + 1 <= Len(s) PROVE Good(n + 1)
    OBVIOUS
  <2>1. Good(n) /\ n \in 0 .. Len(s) /\ n + 1 \in 1 .. Len(s) /\ s[n + 1] \in A
    BY <1>1
  <2>2. g[n + 1] = IF s[n + 1] \in S THEN Append(g[n], s[n + 1]) ELSE g[n]
    <3>1. g[n + 1] = Step(s, S, g, n + 1)
      BY <1>1, <1>3
    <3>2. QED
      BY <2>1, <3>1 DEF Step
  <2>3. {s[i] : i \in 1 .. n + 1} = {s[i] : i \in 1 .. n} \cup {s[n + 1]}
    BY <2>1
  <2>4. CASE s[n + 1] \notin S
    BY <2>1, <2>2, <2>3, <2>4
  <2>5. CASE s[n + 1] \in S
    <3>1. g[n + 1] = Append(g[n], s[n + 1])
      BY <2>2, <2>5
    <3>2. /\ g[n + 1] \in Seq(A)
          /\ ToSet(g[n + 1]) = ToSet(g[n]) \cup {s[n + 1]}
          /\ IsInjective(g[n]) /\ s[n + 1] \notin ToSet(g[n]) => IsInjective(g[n + 1])
      <4>1. g[n] \in Seq(A) /\ s[n + 1] \in A
        BY <2>1
      <4> HIDE DEF T, Good
      <4>2. /\ Append(g[n], s[n + 1]) \in Seq(A)
            /\ ToSet(Append(g[n], s[n + 1])) = ToSet(g[n]) \cup {s[n + 1]}
            /\ IsInjective(g[n]) /\ s[n + 1] \notin ToSet(g[n])
                  => IsInjective(Append(g[n], s[n + 1]))
        BY <4>1, AppendElement
      <4>3. QED
        BY <3>1, <4>2
    <3>3. IsInjective(s) => s[n + 1] \notin ToSet(g[n])
      BY <1>1, <2>1 DEF IsInjective
    <3>4. QED
      BY <2>1, <2>3, <2>5, <3>2, <3>3
  <2>6. QED
    BY <2>4, <2>5
<1> HIDE DEF Good
<1>6. T = Nat
  BY <1>4, <1>5, SetInduction
<1>7. Good(Len(s))
  BY <1>1, <1>6
<1>8. QED
  BY <1>1, <1>2, <1>7 DEF Good, ToSet
=============================================================================
