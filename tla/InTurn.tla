-------------------------------- MODULE InTurn --------------------------------
(***************************************************************************)
(* Something done to each member of a list in turn, as the loops over a    *)
(* container's members, an exit's destinations or all objects do: Do is    *)
(* what is done, c what stays the same from one turn to the next, and      *)
(* Over(c, x, s) what is left of x when everything in s has had its turn.  *)
(***************************************************************************)
EXTENDS Integers, Sequences, WellFoundedInduction, TLAPS

CONSTANT Do(_, _, _)

Over(c, x, s) ==
    LET after[i \in 0 .. Len(s)] ==
            IF i = 0 THEN x ELSE Do(c, after[i - 1], s[i])
    IN  after[Len(s)]

-----------------------------------------------------------------------------
(* What can be said of it whatever Do is.                                  *)

\* Induction over the natural numbers, stated of a set of them.
LEMMA Numbers ==
  ASSUME NEW T, 0 \in T, \A n \in Nat : n \in T => n + 1 \in T
  PROVE  Nat \subseteq T
<1> DEFINE B == Nat \ T
<1>1. SUFFICES ASSUME B # {} PROVE FALSE
  OBVIOUS
<1>2. PICK x \in B : \A y \in B : ~(<<y, x>> \in OpToRel(<, Nat))
  BY <1>1, NatLessThanWellFounded, WFMin
<1>3. \A y \in B : ~(y < x)
  BY <1>2 DEF OpToRel
<1>4. x # 0 /\ x - 1 \in Nat
  OBVIOUS
<1>5. x - 1 \in T
  BY <1>3, <1>4
<1> QED BY <1>4, <1>5

\* The turns, one after the other.
Turns(f, c, x, s, n) ==
    f = [i \in 0 .. n |-> IF i = 0 THEN x ELSE Do(c, f[i - 1], s[i])]

\* However many turns there are, they can be taken.
LEMMA TurnsExist ==
  ASSUME NEW c, NEW x, NEW s, NEW n \in Nat
  PROVE  \E f : Turns(f, c, x, s, n)
<1> DEFINE T == {m \in Nat : \E f : Turns(f, c, x, s, m)}
<1>1. 0 \in T
  <2>1. Turns([i \in 0..0 |-> x], c, x, s, 0)
    BY DEF Turns
  <2> QED BY <2>1
<1>2. ASSUME NEW m \in Nat, m \in T PROVE m + 1 \in T
  <2>1. PICK h : Turns(h, c, x, s, m)
    BY <1>2
  <2> DEFINE f == [i \in 0 .. m + 1 |-> IF i = m + 1 THEN Do(c, h[m], s[m + 1]) ELSE h[i]]
  <2>2. \A i \in 0..m : f[i] = h[i] /\ h[i] = IF i = 0 THEN x ELSE Do(c, h[i - 1], s[i])
    BY <2>1 DEF Turns
  <2>3. ASSUME NEW i \in 0 .. m + 1
        PROVE  f[i] = IF i = 0 THEN x ELSE Do(c, f[i - 1], s[i])
    <3>1. CASE i = m + 1
      <4>1. m \in 0..m /\ i - 1 = m /\ i # 0
        BY <3>1
      <4> QED BY <3>1, <4>1, <2>2
    <3>2. CASE i # m + 1
      <4>1. i \in 0..m /\ (i # 0 => i - 1 \in 0..m)
        BY <3>2
      <4> QED BY <4>1, <2>2
    <3> QED BY <3>1, <3>2
  <2>4. Turns(f, c, x, s, m + 1)
    BY <2>3 DEF Turns
  <2> HIDE DEF f
  <2> QED BY <2>4
<1>3. n \in T
  <2> HIDE DEF T
  <2> QED BY <1>1, <1>2, Numbers
<1> QED BY <1>3

\* What there is after each turn: what the one before left, done to.
After(f, c, x, s) ==
    /\ f[0] = x
    /\ \A i \in 1 .. Len(s) : f[i] = Do(c, f[i - 1], s[i])
    /\ Over(c, x, s) = f[Len(s)]

\* Each turn follows from the one before, and the last is what is left.
THEOREM Unfolds ==
  ASSUME NEW c, NEW x, NEW s, Len(s) \in Nat
  PROVE  \E f : After(f, c, x, s)
<1> DEFINE f == CHOOSE f : f = [i \in 0 .. Len(s) |->
                                  IF i = 0 THEN x ELSE Do(c, f[i - 1], s[i])]
<1>1. \E h : Turns(h, c, x, s, Len(s))
  BY TurnsExist
<1>2. f = [i \in 0 .. Len(s) |-> IF i = 0 THEN x ELSE Do(c, f[i - 1], s[i])]
  BY <1>1 DEF Turns
<1>3. Over(c, x, s) = f[Len(s)]
  BY DEF Over
<1> HIDE DEF f
<1>4. DOMAIN f = 0 .. Len(s) /\ f[0] = x
  BY <1>2
<1>5. \A i \in 1 .. Len(s) : f[i] = Do(c, f[i - 1], s[i])
  BY <1>2
<1>6. After(f, c, x, s)
  BY <1>3, <1>4, <1>5 DEF After
<1> QED BY <1>6

\* What one turn keeps, all of them keep.
THEOREM Keeps ==
  ASSUME NEW c, NEW W, NEW x \in W, NEW s, Len(s) \in Nat,
         \A y \in W, i \in 1 .. Len(s) : Do(c, y, s[i]) \in W
  PROVE  Over(c, x, s) \in W
<1>0. PICK f : After(f, c, x, s)
  BY Unfolds
<1>1. /\ f[0] = x
      /\ \A i \in 1 .. Len(s) : f[i] = Do(c, f[i - 1], s[i])
      /\ Over(c, x, s) = f[Len(s)]
  BY <1>0 DEF After
<1> DEFINE T == {i \in Nat : i <= Len(s) => f[i] \in W}
<1>2. 0 \in T
  BY <1>1
<1>3. ASSUME NEW i \in Nat, i \in T PROVE i + 1 \in T
  <2>1. CASE i + 1 <= Len(s)
    <3>1. i + 1 \in 1 .. Len(s) /\ f[i] \in W /\ (i + 1) - 1 = i
      BY <2>1, <1>3
    <3>2. f[i + 1] = Do(c, f[i], s[i + 1])
      BY <3>1, <1>1
    <3> QED BY <3>1, <3>2
  <2> QED BY <2>1
<1>4. Len(s) \in T
  <2> HIDE DEF T
  <2> QED BY <1>2, <1>3, Numbers
<1> QED BY <1>1, <1>4
===============================================================================
