-------------------------- MODULE FilteringProofs --------------------------
(***************************************************************************)
(* What Without returns for every list.  It is a recursive function, so    *)
(* that it exists and what it keeps is shown by induction, in the form     *)
(* "a set that contains 0 and with each n also n + 1 contains Nat".        *)
(***************************************************************************)
EXTENDS Filtering, TLAPS, WellFoundedInduction

\* Induction, from the least number that is not in S.
LEMMA SetInduction ==
  ASSUME NEW S, 0 \in S, \A n \in Nat : n \in S => n + 1 \in S
  PROVE  Nat \subseteq S
<1> DEFINE R == {ss \in Nat \X Nat : ss[1] < ss[2]}
<1>1. IsWellFoundedOn(R, Nat)
  BY NatLessThanWellFounded DEF OpToRel
<1>2. SUFFICES ASSUME Nat \ S # {} PROVE FALSE
  OBVIOUS
<1>3. PICK x \in Nat \ S : \A y \in Nat \ S : ~(<<y, x>> \in R)
  <2> HIDE DEF R
  <2>1. QED BY <1>1, <1>2, WFMin
<1>4. x - 1 \in Nat /\ <<x - 1, x>> \in R
  BY <1>3
<1>5. x - 1 \in S
  BY <1>3, <1>4
<1>6. QED
  BY <1>3, <1>4, <1>5

\* A filtered list has the type of the list, holds the members of the list
\* that were not left out and no others, and none twice when the list holds
\* none twice.
LEMMA WithoutKeeps ==
  ASSUME NEW K, NEW list \in Seq(K), NEW gone
  PROVE  LET new == Without(list, gone)
         IN /\ new \in Seq(K)
            /\ \A a \in DOMAIN new :
                 new[a] \in {list[j] : j \in DOMAIN list} \ gone
            /\ \A j \in DOMAIN list :
                 list[j] \notin gone => \E a \in DOMAIN new : new[a] = list[j]
            /\ (\A a, b \in DOMAIN list : list[a] = list[b] => a = b) =>
                 \A a, b \in DOMAIN new : new[a] = new[b] => a = b
<1> DEFINE Body(g, i) == IF i = 0 THEN <<>>
        ELSE IF list[i] \in gone THEN g[i - 1] ELSE Append(g[i - 1], list[i])
           N == Len(list)
           Is(m, g) == g = [i \in 0..m |-> Body(g, i)]
           E == {m \in Nat : m <= N => \E g : Is(m, g)}
           kept == CHOOSE g : Is(N, g)
<1>1. N \in Nat
  OBVIOUS
<1>2. 0 \in E
  <2>1. Is(0, [i \in 0..0 |-> <<>>])
    OBVIOUS
  <2> QED BY <2>1
<1>3. ASSUME NEW m \in Nat, m \in E PROVE m + 1 \in E
  <2> SUFFICES ASSUME m + 1 <= N PROVE \E g : Is(m + 1, g)
    <3> HIDE DEF Is, N
    <3> QED OBVIOUS
  <2>1. PICK g : Is(m, g)
    BY <1>1, <1>3
  <2> DEFINE h == [i \in 0..(m + 1) |-> IF i = m + 1 THEN Body(g, m + 1) ELSE g[i]]
  <2>2. \A i \in 0..m : h[i] = g[i]
    OBVIOUS
  <2>3. \A i \in 0..m : g[i] = Body(g, i)
    <3> HIDE DEF Body
    <3> QED BY <2>1
  <2>4. ASSUME NEW i \in 0..(m + 1) PROVE h[i] = Body(h, i)
    <3>1. CASE i = m + 1
      <4>1. h[m] = g[m]
        BY <2>2
      <4>2. h[i] = Body(g, m + 1)
        BY <3>1
      <4>3. i - 1 = m /\ i # 0
        BY <3>1
      <4> HIDE DEF h
      <4> QED BY <4>1, <4>2, <4>3, <3>1
    <3>2. CASE i # m + 1
      <4>1. i \in 0..m /\ (i # 0 => i - 1 \in 0..m)
        BY <3>2
      <4>2. h[i] = g[i] /\ (i # 0 => h[i - 1] = g[i - 1])
        BY <4>1, <2>2
      <4>3. g[i] = Body(g, i)
        BY <4>1, <2>3
      <4> HIDE DEF h
      <4> QED BY <4>2, <4>3
    <3> QED BY <3>1, <3>2
  <2>5. Is(m + 1, h)
    <3>1. h = [i \in 0..(m + 1) |-> h[i]]
      OBVIOUS
    <3> HIDE DEF h, Body
    <3>2. [i \in 0..(m + 1) |-> h[i]] = [i \in 0..(m + 1) |-> Body(h, i)]
      BY <2>4
    <3> QED BY <3>1, <3>2
  <2> QED BY <2>5
<1>4. N \in E
  <2> HIDE DEF E
  <2> QED BY <1>1, <1>2, <1>3, SetInduction
<1>5. Is(N, kept)
  <2>1. \E g : Is(N, g)
    BY <1>1, <1>4
  <2> HIDE DEF Is
  <2> QED BY <2>1
<1>6. \A i \in 0..N : kept[i] = Body(kept, i)
  <2> HIDE DEF kept, Body
  <2> QED BY <1>5
<1>7. Without(list, gone) = kept[N]
  BY DEF Without
<1> DEFINE Among(m) == {list[j] : j \in 1..m} \ gone
           Good(m) == /\ kept[m] \in Seq(K)
                      /\ \A a \in DOMAIN kept[m] : kept[m][a] \in Among(m)
                      /\ \A j \in 1..m : list[j] \notin gone =>
                           \E a \in DOMAIN kept[m] : kept[m][a] = list[j]
                      /\ (\A a, b \in DOMAIN list : list[a] = list[b] => a = b)
                           => \A a, b \in DOMAIN kept[m] :
                                kept[m][a] = kept[m][b] => a = b
           T == {m \in Nat : m <= N => Good(m)}
<1> HIDE DEF kept
<1>8. 0 \in T
  <2>1. kept[0] = Body(kept, 0)
    BY <1>1, <1>6
  <2>2. kept[0] = <<>>
    BY <2>1
  <2>3. <<>> \in Seq(K) /\ DOMAIN <<>> = {} /\ 1..0 = {}
    OBVIOUS
  <2> HIDE DEF Among
  <2> QED BY <2>2, <2>3
<1>9. ASSUME NEW m \in Nat, m \in T PROVE m + 1 \in T
  <2> SUFFICES ASSUME m + 1 <= N PROVE Good(m + 1)
    <3> HIDE DEF Good, N
    <3> QED OBVIOUS
  <2>1. Good(m)
    BY <1>1, <1>9
  <2>2. kept[m + 1] = IF list[m + 1] \in gone THEN kept[m] ELSE Append(kept[m], list[m + 1])
    <3>1. m + 1 \in 0..N /\ m + 1 # 0 /\ (m + 1) - 1 = m
      BY <1>1
    <3>2. kept[m + 1] = Body(kept, m + 1)
      BY <3>1, <1>6
    <3> QED BY <3>1, <3>2
  <2>3. list[m + 1] \in K /\ m + 1 \in DOMAIN list
    BY <1>1
  <2>4. Among(m) \subseteq Among(m + 1)
    OBVIOUS
  <2>5. CASE list[m + 1] \in gone
    <3>1. kept[m + 1] = kept[m]
      BY <2>2, <2>5
    <3>2. \A j \in 1..(m + 1) : list[j] \notin gone => j \in 1..m
      BY <2>5
    <3> HIDE DEF Among
    <3> QED BY <2>1, <2>4, <3>1, <3>2
  <2>6. CASE list[m + 1] \notin gone
    <3> DEFINE old == kept[m]
               x == list[m + 1]
               new == Append(old, x)
    <3>1. kept[m + 1] = new
      BY <2>2, <2>6
    <3>2. old \in Seq(K) /\ new \in Seq(K) /\ Len(new) = Len(old) + 1
      BY <2>1, <2>3
    <3>3. \A a \in DOMAIN new : a = Len(old) + 1 \/ a \in DOMAIN old
      BY <3>2
    <3>4. new[Len(old) + 1] = x /\ \A a \in DOMAIN old : new[a] = old[a]
      BY <3>2
    <3>5. x \in Among(m + 1)
      BY <2>6
    <3>6. \A a \in DOMAIN old : old[a] \in Among(m)
      BY <2>1
    <3>7. \A a \in DOMAIN new : new[a] \in Among(m + 1)
      <4> HIDE DEF Among, new, old, x
      <4> QED BY <3>3, <3>4, <3>5, <3>6, <2>4
    <3>8. ASSUME \A a, b \in DOMAIN list : list[a] = list[b] => a = b
          PROVE  \A a, b \in DOMAIN new : new[a] = new[b] => a = b
      <4>1. x \notin Among(m)
        <5>1. SUFFICES ASSUME NEW j \in 1..m, list[j] = x PROVE FALSE
          OBVIOUS
        <5>2. j \in DOMAIN list /\ j # m + 1
          BY <1>1, <2>3
        <5> QED BY <3>8, <5>1, <5>2, <2>3
      <4>2. \A a, b \in DOMAIN old : old[a] = old[b] => a = b
        BY <2>1, <3>8
      <4> HIDE DEF Among, new, old, x
      <4> QED BY <3>3, <3>4, <3>6, <4>1, <4>2
    <3>9. ASSUME NEW j \in 1..(m + 1), list[j] \notin gone
          PROVE  \E a \in DOMAIN new : new[a] = list[j]
      <4>1. CASE j = m + 1
        <5>1. Len(old) + 1 \in DOMAIN new
          BY <3>2
        <5> QED BY <4>1, <5>1, <3>4
      <4>2. CASE j # m + 1
        <5>1. j \in 1..m
          BY <4>2
        <5>2. PICK a \in DOMAIN old : old[a] = list[j]
          BY <5>1, <3>9, <2>1
        <5>3. a \in DOMAIN new
          BY <3>2, <5>2
        <5> QED BY <5>2, <5>3, <3>4
      <4> QED BY <4>1, <4>2
    <3> HIDE DEF Among, new, old, x
    <3> QED BY <3>1, <3>2, <3>7, <3>8, <3>9
  <2> QED BY <2>5, <2>6
<1>10. N \in T
  <2> HIDE DEF T
  <2> QED BY <1>1, <1>8, <1>9, SetInduction
<1>11. Good(N)
  <2> HIDE DEF Good
  <2> QED BY <1>1, <1>10
<1>12. Among(N) \subseteq {list[j] : j \in DOMAIN list} \ gone
  OBVIOUS
<1>13. DOMAIN list = 1..N
  OBVIOUS
<1> HIDE DEF Among, N
<1> QED BY <1>7, <1>11, <1>12, <1>13
=============================================================================
