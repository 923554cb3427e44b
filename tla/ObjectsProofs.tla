----------------------------- MODULE ObjectsProofs -----------------------------
(***************************************************************************)
(* What the operations on the object graph keep, whatever the world: its   *)
(* shape, the free list, the lists and the walks outward.                  *)
(***************************************************************************)
EXTENDS Movement, Sanity, FiniteSetTheorems, SequenceTheorems, TLAPS

-----------------------------------------------------------------------------
\* Worlds.

Object == [type : Types, owner : Int, loc : Int, contents : Int, exits : Int,
           next : Int, link : Int, dest : Seq(Int), flags : SUBSET FlagNames]

World == [objs : UNION {[0 .. n -> Object] : n \in Nat}, free : Seq(Int),
          secure : BOOLEAN, stranded : SUBSET Int, loose : BOOLEAN,
          edits : Int, damaged : BOOLEAN]

\* The refs of a world are the numbers below some number.
LEMMA Tops ==
  ASSUME NEW g \in World
  PROVE  \E n \in Nat : /\ DOMAIN g.objs = 0 .. n
                        /\ g.objs \in [0 .. n -> Object]
                        /\ IsFiniteSet(DOMAIN g.objs)
                        /\ Cardinality(DOMAIN g.objs) = n + 1
<1>1. PICK n \in Nat : g.objs \in [0 .. n -> Object]
  BY DEF World
<1>2. DOMAIN g.objs = 0 .. n
  BY <1>1
<1>3. IsFiniteSet(0 .. n) /\ Cardinality(0 .. n) = n + 1
  BY FS_Interval
<1> QED BY <1>1, <1>2, <1>3

\* What is in a world is an object.
LEMMA Typed ==
  ASSUME NEW g \in World, NEW r \in DOMAIN g.objs
  PROVE  g.objs[r] \in Object /\ r \in Nat /\ r # Nothing
<1>1. PICK n \in Nat : DOMAIN g.objs = 0 .. n /\ g.objs \in [0 .. n -> Object]
  BY Tops
<1> QED BY <1>1 DEF Nothing

\* Any objects in place of a world's own make a world.
LEMMA Replaced ==
  ASSUME NEW g \in World, NEW objs, DOMAIN objs = DOMAIN g.objs,
         objs = [r \in DOMAIN objs |-> objs[r]],
         \A r \in DOMAIN objs : objs[r] \in Object
  PROVE  [g EXCEPT !.objs = objs] \in World
<1>1. PICK n \in Nat : DOMAIN g.objs = 0 .. n
  BY Tops
<1>2. objs \in [0 .. n -> Object]
  BY <1>1
<1> QED BY <1>2 DEF World

\* Writing an object, of those there are or not, leaves a world.
LEMMA Written ==
  ASSUME NEW g \in World, NEW r, NEW o \in Object
  PROVE  [g EXCEPT !.objs[r] = o] \in World
<1> DEFINE objs == [g.objs EXCEPT ![r] = o]
<1>1. DOMAIN objs = DOMAIN g.objs /\ \A x \in DOMAIN objs : objs[x] \in Object
  BY Typed
<1>2. objs = [x \in DOMAIN objs |-> objs[x]]
  BY Tops
<1>3. [g EXCEPT !.objs = objs] \in World
  <2> HIDE DEF objs
  <2> QED BY <1>1, <1>2, Replaced
<1> QED BY <1>3

-----------------------------------------------------------------------------
\* Walks: one step from where the last one led.

NextOut(g, r, x) == Loc(g, r)
GoingOut == INSTANCE InTurn WITH Do <- NextOut

NextOn(g, chain, x) == Threaded(g, chain)
GoingOn == INSTANCE InTurn WITH Do <- NextOn

\* The walk outward goes from each object to its location.
LEMMA OutwardStep ==
  ASSUME NEW g \in World, NEW r
  PROVE  LET up == Outward(g, r)
             n == Cardinality(DOMAIN g.objs)
         IN  /\ n \in Nat
             /\ DOMAIN up = 0 .. n
             /\ up[0] = r
             /\ \A i \in 1 .. n : up[i] = Loc(g, up[i - 1])
<1> DEFINE n == Cardinality(DOMAIN g.objs)
           up == CHOOSE up : up = [i \in 0 .. n |-> IF i = 0 THEN r ELSE Loc(g, up[i - 1])]
<1>1. n \in Nat
  BY Tops
<1>2. \E f : GoingOut!Turns(f, g, r, <<>>, n)
  <2> HIDE DEF n
  <2> QED BY <1>1, GoingOut!TurnsExist
<1>3. up = [i \in 0 .. n |-> IF i = 0 THEN r ELSE Loc(g, up[i - 1])]
  BY <1>2 DEF GoingOut!Turns, NextOut
<1>4. Outward(g, r) = up
  BY DEF Outward
<1> HIDE DEF up, n
<1>5. DOMAIN up = 0 .. n /\ up[0] = r /\ \A i \in 1 .. n : up[i] = Loc(g, up[i - 1])
  BY <1>1, <1>3
<1> QED BY <1>1, <1>4, <1>5 DEF n

\* A chain is what is threaded from its head, one member at a time.
LEMMA ChainStep ==
  ASSUME NEW g \in World, NEW head, head # Nothing
  PROVE  LET n == Cardinality(DOMAIN g.objs)
         IN  /\ n \in Nat
             /\ \E from : /\ from[0] = <<head>>
                          /\ \A i \in 1 .. n : from[i] = Threaded(g, from[i - 1])
                          /\ Chain(g, head) = from[n]
<1> DEFINE n == Cardinality(DOMAIN g.objs)
           from == CHOOSE from : from = [i \in 0 .. n |->
                       IF i = 0 THEN <<head>> ELSE Threaded(g, from[i - 1])]
<1>1. n \in Nat
  BY Tops
<1>2. \E f : GoingOn!Turns(f, g, <<head>>, <<>>, n)
  <2> HIDE DEF n
  <2> QED BY <1>1, GoingOn!TurnsExist
<1>3. from = [i \in 0 .. n |-> IF i = 0 THEN <<head>> ELSE Threaded(g, from[i - 1])]
  BY <1>2 DEF GoingOn!Turns, NextOn
<1>4. Chain(g, head) = from[n]
  BY DEF Chain
<1> HIDE DEF from, n
<1>5. from[0] = <<head>> /\ \A i \in 1 .. n : from[i] = Threaded(g, from[i - 1])
  BY <1>1, <1>3
<1>6. \E f : /\ f[0] = <<head>> /\ \A i \in 1 .. n : f[i] = Threaded(g, f[i - 1])
             /\ Chain(g, head) = f[n]
  BY <1>4, <1>5
<1> QED BY <1>1, <1>6 DEF n

-----------------------------------------------------------------------------
\* Sequences without repetition.

Distinct(s) == \A i, j \in 1 .. Len(s) : s[i] = s[j] => i = j

\* There are as many members as places just when none is named twice.
LEMMA DistinctCounts ==
  ASSUME NEW S, NEW s \in Seq(S)
  PROVE  /\ IsFiniteSet(Elems(s))
         /\ Distinct(s) <=> Len(s) = Cardinality(Elems(s))
<1> DEFINE n == Len(s)
<1>1. n \in Nat /\ DOMAIN s = 1 .. n /\ s \in [1 .. n -> Elems(s)]
  BY DEF Elems
<1>2. IsFiniteSet(1 .. n) /\ Cardinality(1 .. n) = n
  BY <1>1, FS_Interval, SMTT(40)
<1>3. s \in Surjection(1 .. n, Elems(s))
  BY <1>1 DEF Surjection, Elems
<1>4. IsFiniteSet(Elems(s))
  BY <1>2, <1>3, FS_Surjection
<1>5. ASSUME Distinct(s) PROVE n = Cardinality(Elems(s))
  <2>1. s \in Bijection(1 .. n, Elems(s))
    BY <1>1, <1>3, <1>5 DEF Bijection, Injection, IsInjective, Distinct
  <2>2. ExistsBijection(1 .. n, Elems(s))
    BY <2>1 DEF ExistsBijection
  <2> QED BY <1>2, <2>2, FS_Bijection, FS_SameCardinalityBij, <1>4
<1>6. ASSUME n = Cardinality(Elems(s)) PROVE Distinct(s)
  <2>1. s \in Injection(1 .. n, Elems(s))
    BY <1>2, <1>3, <1>4, <1>6, FS_SurjSameCardinalityImpliesInj
  <2> QED BY <1>1, <2>1 DEF Distinct, Injection, IsInjective
<1> QED BY <1>4, <1>5, <1>6

\* A set of a world's refs in ref order: each of them, once.
LEMMA InOrderIs ==
  ASSUME NEW g \in World, NEW S \in SUBSET (DOMAIN g.objs)
  PROVE  /\ InOrder(g, S) \in Seq(S)
         /\ Elems(InOrder(g, S)) = S
         /\ Distinct(InOrder(g, S))
<1>1. PICK n \in Nat : DOMAIN g.objs = 0 .. n /\ Cardinality(DOMAIN g.objs) = n + 1
  BY Tops
<1>2. Len(Refs(g)) = n + 1 /\ \A i \in 1 .. n + 1 : Refs(g)[i] = i - 1
  BY <1>1 DEF Refs
<1>3. PICK f : /\ f[0] = <<>>
               /\ \A i \in 1 .. n + 1 : f[i] = Picked(S, f[i - 1], i - 1)
               /\ InOrder(g, S) = f[n + 1]
  <2> DEFINE s == Refs(g)
  <2>1. Len(s) \in Nat
    BY <1>2
  <2>2. InOrder(g, S) = Picking!Over(S, <<>>, s)
    BY DEF InOrder
  <2> HIDE DEF s
  <2>3. \E f : Picking!After(f, S, <<>>, s)
    BY <2>1, Picking!Unfolds
  <2> QED BY <1>2, <2>2, <2>3 DEF s, Picking!After
<1>r. \A r \in S : r \in Nat
  BY <1>1
<1> DEFINE Good(i) == /\ f[i] \in Seq(S)
                      /\ \A r \in S : r < i <=> \E k \in 1 .. Len(f[i]) : f[i][k] = r
                      /\ \A k \in 1 .. Len(f[i]) : f[i][k] < i
                      /\ Distinct(f[i])
           T == {i \in Nat : i <= n + 1 => Good(i)}
<1>4. 0 \in T
  <2>1. \A r \in S : ~(r < 0)
    BY <1>r
  <2>2. <<>> \in Seq(S) /\ Len(<<>>) = 0
    OBVIOUS
  <2>3. Good(0)
    BY <1>3, <2>1, <2>2 DEF Distinct
  <2> QED BY <2>3
<1>5. ASSUME NEW i \in Nat, i \in T PROVE i + 1 \in T
  <2> SUFFICES ASSUME i + 1 <= n + 1 PROVE Good(i + 1)
    OBVIOUS
  <2>1. Good(i)
    BY <1>5
  <2>2. f[i + 1] = Picked(S, f[i], i)
    BY <1>3
  <2>3. CASE i \notin S
    <3>1. f[i + 1] = f[i]
      BY <2>2, <2>3 DEF Picked
    <3>2. \A r \in S : r < i + 1 <=> r < i
      BY <1>1, <2>3
    <3>3. \A k \in 1 .. Len(f[i]) : f[i][k] < i + 1
      BY <2>1, <1>r
    <3> QED BY <2>1, <3>1, <3>2, <3>3
  <2>4. CASE i \in S
    <3>1. f[i + 1] = Append(f[i], i)
      BY <2>2, <2>4 DEF Picked
    <3> DEFINE old == f[i]
               new == f[i + 1]
    <3>2. /\ old \in Seq(S) /\ new \in Seq(S) /\ Len(new) = Len(old) + 1
          /\ new[Len(old) + 1] = i
          /\ \A k \in 1 .. Len(old) : new[k] = old[k]
      BY <2>1, <2>4, <3>1
    <3>3. \A r \in S : r \in Int
      BY <1>r
    <3> HIDE DEF old, new
    <3>4. \A k \in 1 .. Len(old) : old[k] < i /\ old[k] \in S
      BY <2>1, <3>2 DEF old
    <3>l. Len(old) \in Nat /\ i \in Int
      BY <3>2
    <3>5. \A k \in 1 .. Len(new) : new[k] < i + 1
      <4> TAKE k \in 1 .. Len(new)
      <4>1. k \in 1 .. Len(old) \/ k = Len(old) + 1
        BY <3>2, <3>l
      <4> QED BY <3>2, <3>3, <3>4, <3>l, <4>1, SMTT(40)
    <3>6. Distinct(new)
      <4> SUFFICES ASSUME NEW j \in 1 .. Len(new), NEW k \in 1 .. Len(new), new[j] = new[k]
                   PROVE  j = k
        BY DEF Distinct
      <4>1. /\ j \in 1 .. Len(old) \/ j = Len(old) + 1
            /\ k \in 1 .. Len(old) \/ k = Len(old) + 1
        BY <3>2, <3>l
      <4>2. Distinct(old)
        BY <2>1 DEF old
      <4> QED BY <3>2, <3>3, <3>4, <3>l, <4>1, <4>2 DEF Distinct
    <3>7. \A r \in S : r < i + 1 <=> \E k \in 1 .. Len(new) : new[k] = r
      <4> TAKE r \in S
      <4>1. CASE r = i
        BY <3>2, <3>3, <4>1
      <4>2. CASE r # i
        <5>1. r < i + 1 <=> r < i
          BY <3>3, <4>2
        <5>2. r < i <=> \E k \in 1 .. Len(old) : old[k] = r
          BY <2>1 DEF old
        <5> QED BY <3>2, <4>2, <5>1, <5>2
      <4> QED BY <4>1, <4>2
    <3> QED BY <3>2, <3>5, <3>6, <3>7 DEF new
  <2> QED BY <2>3, <2>4
<1>6. Good(n + 1)
  <2> HIDE DEF T, Good
  <2>1. n + 1 \in T
    BY <1>4, <1>5, Picking!Numbers
  <2> QED BY <2>1 DEF T
<1>7. Elems(InOrder(g, S)) = S
  <2>1. \A r \in S : r < n + 1
    BY <1>1
  <2>2. InOrder(g, S) \in Seq(S)
    BY <1>3, <1>6
  <2>3. \A r \in S : \E k \in 1 .. Len(InOrder(g, S)) : InOrder(g, S)[k] = r
    BY <1>3, <1>6, <2>1
  <2> QED BY <2>2, <2>3 DEF Elems
<1> QED BY <1>3, <1>6, <1>7

-----------------------------------------------------------------------------
\* A list well threaded: each member names the next, and the last nothing.

Thread(g, head, s) ==
    /\ s \in Seq(DOMAIN g.objs)
    /\ Distinct(s)
    /\ head = IF s = <<>> THEN Nothing ELSE s[1]
    /\ \A i \in 1 .. Len(s) : g.objs[s[i]].next = IF i = Len(s) THEN Nothing ELSE s[i + 1]

\* No more than there are objects.
LEMMA Short ==
  ASSUME NEW g \in World, NEW s \in Seq(Int), Elems(s) \subseteq DOMAIN g.objs, Distinct(s)
  PROVE  Len(s) <= Cardinality(DOMAIN g.objs)
<1>1. IsFiniteSet(DOMAIN g.objs)
  BY Tops
<1>2. Cardinality(Elems(s)) <= Cardinality(DOMAIN g.objs)
  BY <1>1, FS_Subset
<1> QED BY <1>2, DistinctCounts

\* The first member of a list is a list of one.
LEMMA First ==
  ASSUME NEW S, NEW s \in Seq(S), s # <<>>
  PROVE  SubSeq(s, 1, 1) = <<s[1]>>
<1>1. Len(s) \in Nat /\ Len(s) >= 1 /\ s[1] \in S
  OBVIOUS
<1>2. Len(SubSeq(s, 1, 1)) = 1 /\ SubSeq(s, 1, 1)[1] = s[1]
  BY <1>1
<1>3. SubSeq(s, 1, 1) \in Seq(S)
  BY <1>1
<1>4. <<s[1]>> \in Seq(S) /\ Len(<<s[1]>>) = 1
  BY <1>1
<1> DEFINE one == SubSeq(s, 1, 1)
<1> HIDE DEF one
<1>5. \A i \in 1 .. Len(one) : one[i] = <<s[1]>>[i]
  BY <1>2 DEF one
<1>6. one \in Seq(S) /\ Len(one) = Len(<<s[1]>>)
  BY <1>2, <1>3, <1>4 DEF one
<1>7. one = <<s[1]>>
  BY <1>4, <1>5, <1>6, SeqEqual
<1> QED BY <1>7 DEF one

\* A list well threaded is what a walk from its head finds.
LEMMA ThreadIsChain ==
  ASSUME NEW g \in World, NEW head, NEW s, Thread(g, head, s)
  PROVE  Chain(g, head) = s
<1>0. /\ s \in Seq(DOMAIN g.objs)
      /\ Distinct(s)
      /\ head = IF s = <<>> THEN Nothing ELSE s[1]
      /\ \A i \in 1 .. Len(s) : g.objs[s[i]].next = IF i = Len(s) THEN Nothing ELSE s[i + 1]
  BY DEF Thread
<1>a. \A r \in DOMAIN g.objs : r \in Nat /\ r # Nothing
  BY Typed
<1>1. CASE s = <<>>
  <2>1. Chain(g, Nothing) = <<>>
    BY DEF Chain
  <2> QED BY <1>0, <1>1, <2>1
<1>2. CASE s # <<>>
  <2>1. head = s[1] /\ Len(s) \in Nat /\ Len(s) >= 1 /\ \A i \in 1 .. Len(s) : s[i] \in DOMAIN g.objs
    BY <1>0, <1>2
  <2>2. head # Nothing
    BY <2>1, <1>a
  <2> DEFINE n == Cardinality(DOMAIN g.objs)
  <2>3. PICK from : /\ from[0] = <<head>>
                    /\ \A i \in 1 .. n : from[i] = Threaded(g, from[i - 1])
                    /\ Chain(g, head) = from[n]
    BY <2>2, ChainStep
  <2>4. n \in Nat
    BY Tops
  <2>5. Len(s) <= n
    <3>1. s \in Seq(Int) /\ Elems(s) \subseteq DOMAIN g.objs
      BY <1>0, <1>a, <2>1 DEF Elems
    <3> QED BY <3>1, <1>0, Short
  <2> HIDE DEF n
  <2> DEFINE upto(i) == IF i + 1 <= Len(s) THEN i + 1 ELSE Len(s)
             T == {i \in Nat : i <= n => from[i] = SubSeq(s, 1, upto(i))}
  <2>6. 0 \in T
    <3>1. upto(0) = 1
      BY <2>1
    <3>2. SubSeq(s, 1, 1) = <<s[1]>>
      BY <1>0, <1>2, First
    <3> QED BY <2>1, <2>3, <3>1, <3>2
  <2>7. ASSUME NEW i \in Nat, i \in T PROVE i + 1 \in T
    <3> SUFFICES ASSUME i + 1 <= n PROVE from[i + 1] = SubSeq(s, 1, upto(i + 1))
      OBVIOUS
    <3> DEFINE k == upto(i)
    <3>1. from[i + 1] = Threaded(g, SubSeq(s, 1, k))
      <4>1. i <= n /\ (i + 1) - 1 = i /\ i + 1 \in 1 .. n
        BY <2>4
      <4>2. from[i] = SubSeq(s, 1, k)
        BY <2>7, <4>1
      <4> HIDE DEF k
      <4> QED BY <2>3, <4>1, <4>2
    <3>2. k \in 1 .. Len(s)
      BY <2>1
    <3>3. upto(i + 1) = IF k = Len(s) THEN k ELSE k + 1
      BY <2>1
    <3> HIDE DEF k, upto
    <3>4. Len(SubSeq(s, 1, k)) = k /\ SubSeq(s, 1, k)[k] = s[k]
      BY <1>0, <2>1, <3>2
    <3>5. NextOf(g, s[k]) = IF k = Len(s) THEN Nothing ELSE s[k + 1]
      BY <1>0, <2>1, <3>2 DEF NextOf, Exists
    <3>6. k # Len(s) => s[k + 1] # Nothing
      BY <1>a, <2>1, <3>2
    <3>7. k # Len(s) => Append(SubSeq(s, 1, k), s[k + 1]) = SubSeq(s, 1, k + 1)
      BY <1>0, <2>1, <3>2
    <3> QED BY <3>1, <3>3, <3>4, <3>5, <3>6, <3>7 DEF Threaded
  <2>8. n \in T
    <3> HIDE DEF T
    <3> QED BY <2>4, <2>6, <2>7, Picking!Numbers
  <2>9. SubSeq(s, 1, Len(s)) = s
    BY <1>0
  <2>10. upto(n) = Len(s)
    BY <2>1, <2>4, <2>5
  <2>11. from[n] = SubSeq(s, 1, upto(n))
    BY <2>4, <2>8
  <2> QED BY <2>3, <2>9, <2>10, <2>11
<1> QED BY <1>1, <1>2

\* What a walk finds, when it finds objects and none of them twice, is a list
\* well threaded.
LEMMA ChainIsThread ==
  ASSUME NEW g \in World, NEW head \in Int
  PROVE  /\ Chain(g, head) \in Seq(Int)
         /\ (/\ Elems(Chain(g, head)) \subseteq DOMAIN g.objs
             /\ Distinct(Chain(g, head))) => Thread(g, head, Chain(g, head))
<1>1. CASE head = Nothing
  <2>1. Chain(g, head) = <<>>
    BY <1>1 DEF Chain
  <2>2. Thread(g, Nothing, <<>>)
    BY DEF Thread, Distinct
  <2>3. <<>> \in Seq(Int)
    OBVIOUS
  <2> QED BY <1>1, <2>1, <2>2, <2>3
<1>2. CASE head # Nothing
  <2> DEFINE n == Cardinality(DOMAIN g.objs)
  <2>1. n \in Nat
    BY Tops
  <2>2. PICK from : /\ from[0] = <<head>>
                    /\ \A i \in 1 .. n : from[i] = Threaded(g, from[i - 1])
                    /\ Chain(g, head) = from[n]
    BY <1>2, ChainStep
  <2>3. \A r : NextOf(g, r) \in Int
    BY Typed DEF NextOf, Nothing, Exists, Object
  <2> DEFINE Ok(c, i) ==
               /\ c \in Seq(Int) /\ Len(c) >= 1 /\ Len(c) <= i + 1
               /\ c[1] = head
               /\ \A k \in 1 .. Len(c) - 1 : NextOf(g, c[k]) = c[k + 1]
               /\ NextOf(g, c[Len(c)]) = Nothing \/ Len(c) = i + 1
             T == {i \in Nat : i <= n => Ok(from[i], i)}
  <2> HIDE DEF n
  <2>4. 0 \in T
    <3>1. Ok(<<head>>, 0)
      OBVIOUS
    <3> QED BY <2>2, <3>1
  <2>5. ASSUME NEW i \in Nat, i \in T PROVE i + 1 \in T
    <3> SUFFICES ASSUME i + 1 <= n PROVE Ok(from[i + 1], i + 1)
      <4> HIDE DEF Ok
      <4> QED OBVIOUS
    <3> DEFINE c == from[i]
               next == NextOf(g, c[Len(c)])
    <3>1. Ok(c, i)
      <4> HIDE DEF Ok
      <4> QED BY <2>1, <2>5
    <3>2. from[i + 1] = IF next = Nothing THEN c ELSE Append(c, next)
      BY <2>1, <2>2 DEF Threaded
    <3>3. next \in Int
      BY <2>3
    <3>4. CASE next = Nothing
      BY <3>1, <3>2, <3>4
    <3>5. CASE next # Nothing
      <4> DEFINE d == Append(c, next)
      <4>1. Len(c) = i + 1
        BY <3>1, <3>5
      <4>2. d \in Seq(Int) /\ Len(d) = i + 2 /\ d[i + 2] = next /\ \A k \in 1 .. i + 1 : d[k] = c[k]
        <5>1. c \in Seq(Int)
          BY <3>1
        <5> HIDE DEF c, next
        <5> QED BY <5>1, <3>3, <4>1
      <4>3. \A k \in 1 .. i + 1 : NextOf(g, d[k]) = d[k + 1]
        <5> TAKE k \in 1 .. i + 1
        <5>1. CASE k = i + 1
          BY <4>1, <4>2, <5>1
        <5>2. CASE k # i + 1
          <6>1. k \in 1 .. Len(c) - 1 /\ k + 1 \in 1 .. i + 1
            BY <4>1, <5>2
          <6> HIDE DEF d, c, next
          <6>2. NextOf(g, c[k]) = c[k + 1]
            BY <3>1, <6>1
          <6> QED BY <4>2, <6>1, <6>2
        <5> QED BY <5>1, <5>2
      <4>4. from[i + 1] = d
        BY <3>2, <3>5
      <4> HIDE DEF d
      <4>5. d[1] = head
        BY <3>1, <4>2
      <4> QED BY <4>2, <4>3, <4>4, <4>5
    <3> QED BY <3>4, <3>5
  <2>6. Ok(Chain(g, head), n)
    <3>1. n \in T
      <4> HIDE DEF T
      <4> QED BY <2>1, <2>4, <2>5, Picking!Numbers
    <3> QED BY <2>1, <2>2, <3>1
  <2> DEFINE c == Chain(g, head)
  <2>7. ASSUME Elems(c) \subseteq DOMAIN g.objs, Distinct(c)
        PROVE  Thread(g, head, c)
    <3>1. Len(c) <= n
      BY <2>6, <2>7, Short DEF n
    <3> HIDE DEF c
    <3>2. c \in Seq(DOMAIN g.objs)
      BY <2>6, <2>7 DEF Elems, c
    <3>3. NextOf(g, c[Len(c)]) = Nothing
      BY <2>1, <2>6, <3>1 DEF c
    <3>4. \A i \in 1 .. Len(c) : g.objs[c[i]].next = NextOf(g, c[i])
      BY <3>2 DEF NextOf, Exists
    <3>5. \A i \in 1 .. Len(c) : g.objs[c[i]].next = IF i = Len(c) THEN Nothing ELSE c[i + 1]
      <4> TAKE i \in 1 .. Len(c)
      <4>1. CASE i = Len(c)
        BY <3>3, <3>4, <4>1
      <4>2. CASE i # Len(c)
        <5>1. i \in 1 .. Len(c) - 1
          BY <3>2, <4>2
        <5>2. NextOf(g, c[i]) = c[i + 1]
          BY <5>1, <2>6 DEF c
        <5> QED BY <3>4, <4>2, <5>2
      <4> QED BY <4>1, <4>2
    <3>6. c # <<>> /\ head = c[1]
      BY <2>6 DEF c
    <3> QED BY <2>7, <3>2, <3>5, <3>6 DEF Thread
  <2> QED BY <2>6, <2>7
<1> QED BY <1>1, <1>2

-----------------------------------------------------------------------------
\* What the moves change: places, lists and the ghost of who is stranded.

\* One world is another but for that.
Relisted(g, h) ==
    /\ h \in World
    /\ DOMAIN h.objs = DOMAIN g.objs
    /\ h.free = g.free /\ h.secure = g.secure /\ h.loose = g.loose
    /\ h.edits = g.edits /\ h.damaged = g.damaged
    /\ \A r \in DOMAIN g.objs :
          /\ h.objs[r].type = g.objs[r].type
          /\ h.objs[r].owner = g.objs[r].owner
          /\ h.objs[r].link = g.objs[r].link
          /\ h.objs[r].dest = g.objs[r].dest
          /\ h.objs[r].flags = g.objs[r].flags

\* A list is a field of an object, and no other depends on it.
LEMMA ListField ==
  ASSUME NEW o \in Object, NEW list \in {"contents", "exits"}, NEW v \in Int
  PROVE  LET p == [o EXCEPT ![list] = v]
         IN  /\ p \in Object
             /\ p[list] = v
             /\ \A other \in {"contents", "exits"} : other # list => p[other] = o[other]
             /\ p.type = o.type /\ p.owner = o.owner /\ p.link = o.link
             /\ p.dest = o.dest /\ p.flags = o.flags /\ p.loc = o.loc /\ p.next = o.next
             /\ o[list] \in Int
<1>1. CASE list = "contents"
  BY <1>1 DEF Object
<1>2. CASE list = "exits"
  BY <1>2 DEF Object
<1> QED BY <1>1, <1>2

\* Unlinking changes one list or one member's next, and places nobody.
LEMMA RemovedFrame ==
  ASSUME NEW g \in World, NEW container, NEW member
  PROVE  LET h == RemoveFromChain(g, container, member)
         IN  /\ Relisted(g, h)
             /\ h.stranded = g.stranded
             /\ \A r \in DOMAIN g.objs : h.objs[r].loc = g.objs[r].loc
<1> DEFINE h == RemoveFromChain(g, container, member)
           list == ListOf(Type(g, member))
           after == g.objs[member].next
           chain == Chain(g, g.objs[container][list])
           before == {r \in Elems(chain) : Exists(g, r) /\ g.objs[r].next = member}
           b == CHOOSE r \in before : TRUE
<1>0. Relisted(g, g)
  BY DEF Relisted
<1>1. CASE h = g
  BY <1>0, <1>1, SMTT(40)
<1>2. CASE h # g
  <2>1. Exists(g, container) /\ Exists(g, member)
    BY <1>2 DEF RemoveFromChain
  <2>2. h = IF g.objs[container][list] = member
            THEN [g EXCEPT !.objs[container][list] = after]
            ELSE IF before = {} THEN g ELSE [g EXCEPT !.objs[b].next = after]
    BY <2>1 DEF RemoveFromChain
  <2>3. after \in Int /\ list \in {"contents", "exits"}
    BY <2>1, Typed DEF Exists, Object, ListOf
  <2> HIDE DEF h, after, list
  <2>4. CASE h = [g EXCEPT !.objs[container][list] = after]
    <3> DEFINE p == [g.objs[container] EXCEPT ![list] = after]
    <3>1. h = [g EXCEPT !.objs[container] = p]
      BY <2>4
    <3>2. /\ p \in Object
          /\ p.type = g.objs[container].type /\ p.owner = g.objs[container].owner
          /\ p.link = g.objs[container].link /\ p.dest = g.objs[container].dest
          /\ p.flags = g.objs[container].flags /\ p.loc = g.objs[container].loc
      BY <2>1, <2>3, Typed, ListField DEF Exists
    <3> HIDE DEF p
    <3>3. h \in World
      BY <3>1, <3>2, Written
    <3> QED BY <3>1, <3>2, <3>3 DEF Relisted, World, h
  <2>5. CASE h = [g EXCEPT !.objs[b].next = after] /\ before # {}
    <3>1. b \in DOMAIN g.objs
      BY <2>5 DEF Exists
    <3> HIDE DEF b
    <3> DEFINE p == [g.objs[b] EXCEPT !.next = after]
    <3>2. h = [g EXCEPT !.objs[b] = p]
      BY <2>5
    <3>3. /\ p \in Object
          /\ p.type = g.objs[b].type /\ p.owner = g.objs[b].owner
          /\ p.link = g.objs[b].link /\ p.dest = g.objs[b].dest
          /\ p.flags = g.objs[b].flags /\ p.loc = g.objs[b].loc
      BY <3>1, <2>3, Typed DEF Object
    <3> HIDE DEF p
    <3>4. h \in World
      BY <3>2, <3>3, Written
    <3> QED BY <3>2, <3>3, <3>4 DEF Relisted, World, h
  <2> QED BY <1>2, <2>2, <2>4, <2>5
<1> QED BY <1>1, <1>2

\* A refused move writes nothing (world.go:524).
LEMMA MoveRefused ==
  ASSUME NEW g, NEW what, NEW dest, ~MayMove(g, what, dest)
  PROVE  MoveTo(g, what, dest) = g
BY Zenon DEF MoveTo

\* Moving leaves what an object is and whose it is alone, and puts it where
\* it was sent.
LEMMA MovedFrame ==
  ASSUME NEW g \in World, NEW what, NEW dest
  PROVE  LET h == MoveTo(g, what, dest)
         IN  /\ Relisted(g, h)
             /\ MayMove(g, what, dest) =>
                   /\ h.stranded = g.stranded \ {what}
                   /\ \A r \in DOMAIN g.objs :
                         h.objs[r].loc = IF r = what THEN dest ELSE g.objs[r].loc
<1> DEFINE h == MoveTo(g, what, dest)
           out == IF Loc(g, what) = Nothing THEN g
                  ELSE RemoveFromChain(g, Loc(g, what), what)
           list == ListOf(Type(g, what))
           head == IF dest = Nothing THEN Nothing ELSE out.objs[dest][list]
           placed == [out EXCEPT !.objs[what] = [@ EXCEPT !.loc = dest, !.next = head],
                                 !.stranded = @ \ {what}]
<1>0. Relisted(g, g)
  BY DEF Relisted
<1>1. CASE ~MayMove(g, what, dest)
  BY <1>0, <1>1, MoveRefused
<1>2. CASE MayMove(g, what, dest)
  <2>1. /\ what \in DOMAIN g.objs
        /\ dest = Nothing \/ (dest \in DOMAIN g.objs /\ dest # what)
        /\ dest \in Int
    BY <1>2, Typed DEF MayMove, Exists, Nothing
  <2>2. /\ Relisted(g, out) /\ out.stranded = g.stranded
        /\ \A r \in DOMAIN g.objs : out.objs[r].loc = g.objs[r].loc
    BY <1>0, RemovedFrame
  <2>3. h = IF dest = Nothing THEN placed ELSE [placed EXCEPT !.objs[dest][list] = what]
    BY <1>2 DEF MoveTo
  <2>4. list \in {"contents", "exits"}
    BY DEF ListOf
  <2>5. head \in Int
    <3>1. dest # Nothing => out.objs[dest] \in Object
      BY <2>1, <2>2, Typed DEF Relisted
    <3> HIDE DEF out, list
    <3> QED BY <2>4, <3>1 DEF Nothing, Object
  <2> HIDE DEF out, list, head, h
  <2> DEFINE p == [out.objs[what] EXCEPT !.loc = dest, !.next = head]
             moved == [out EXCEPT !.objs[what] = p]
  <2>6. /\ p \in Object /\ p.loc = dest
        /\ p.type = g.objs[what].type /\ p.owner = g.objs[what].owner
        /\ p.link = g.objs[what].link /\ p.dest = g.objs[what].dest
        /\ p.flags = g.objs[what].flags
    <3>1. out.objs[what] \in Object
      BY <2>1, <2>2, Typed DEF Relisted
    <3> QED BY <2>1, <2>2, <2>5, <3>1 DEF Object, Relisted
  <2>7. placed = [moved EXCEPT !.stranded = @ \ {what}]
    BY <2>2 DEF World, Relisted
  <2>8. moved \in World
    BY <2>2, <2>6, Written DEF Relisted
  <2>9. placed \in World
    <3> HIDE DEF moved, placed
    <3> QED BY <2>7, <2>8 DEF World
  <2>10. /\ placed.objs = [out.objs EXCEPT ![what] = p]
         /\ placed.stranded = g.stranded \ {what}
         /\ placed.free = g.free /\ placed.secure = g.secure /\ placed.loose = g.loose
         /\ placed.edits = g.edits /\ placed.damaged = g.damaged
    <3> HIDE DEF p
    <3> QED BY <2>2, <2>7 DEF World, Relisted, moved
  <2> HIDE DEF placed, p, moved
  <2>11. /\ Relisted(g, placed)
         /\ \A r \in DOMAIN g.objs :
               placed.objs[r].loc = IF r = what THEN dest ELSE g.objs[r].loc
    BY <2>1, <2>2, <2>6, <2>9, <2>10 DEF Relisted
  <2>12. CASE dest = Nothing
    BY <2>3, <2>10, <2>11, <2>12 DEF h
  <2>13. CASE dest # Nothing
    <3> DEFINE q == [placed.objs[dest] EXCEPT ![list] = what]
    <3>1. h = [placed EXCEPT !.objs[dest] = q]
      BY <2>3, <2>13
    <3>2. placed.objs[dest] \in Object /\ what \in Int
      BY <2>1, <2>11, <2>13, Typed DEF Relisted
    <3>3. /\ q \in Object
          /\ q.type = placed.objs[dest].type /\ q.owner = placed.objs[dest].owner
          /\ q.link = placed.objs[dest].link /\ q.dest = placed.objs[dest].dest
          /\ q.flags = placed.objs[dest].flags /\ q.loc = placed.objs[dest].loc
      BY <2>4, <3>2, ListField
    <3> HIDE DEF q
    <3>4. h \in World
      BY <2>9, <3>1, <3>3, Written
    <3>5. h.objs = [placed.objs EXCEPT ![dest] = q] /\ h.stranded = placed.stranded
          /\ h.free = placed.free /\ h.secure = placed.secure /\ h.loose = placed.loose
          /\ h.edits = placed.edits /\ h.damaged = placed.damaged
      BY <2>9, <3>1 DEF World
    <3> QED BY <2>10, <2>11, <3>3, <3>4, <3>5 DEF Relisted, h
  <2> QED BY <2>12, <2>13
<1> QED BY <1>1, <1>2

-----------------------------------------------------------------------------
\* What the moves of what is there keep, everything that moves keeps.

MovesKeep(W) ==
    /\ W \subseteq World
    /\ \A g \in W : \A what, dest : Valid(g, what) => MoveTo(g, what, dest) \in W

\* What a place holds is a list of refs.
LEMMA ContentsAreRefs ==
  ASSUME NEW g \in World, NEW r
  PROVE  Contents(g, r) \in Seq(Int) /\ Exits(g, r) \in Seq(Int)
<1>1. CASE Exists(g, r)
  <2>1. g.objs[r].contents \in Int /\ g.objs[r].exits \in Int
    BY <1>1, Typed DEF Exists, Object
  <2> QED BY <1>1, <2>1, ChainIsThread DEF Contents, Exits
<1>2. CASE ~Exists(g, r)
  BY <1>2 DEF Contents, Exits
<1> QED BY <1>1, <1>2

\* moveto moves what there is, or nothing.
LEMMA MoveObjectKeeps ==
  ASSUME NEW W, MovesKeep(W), NEW g \in W, NEW what, NEW where
  PROVE  MoveObject(g, what, where) \in W
BY DEF MovesKeep, MoveObject, MoveOrDrop

\* So does sending away what lies in a place.
LEMMA SendContentsKeeps ==
  ASSUME NEW W, MovesKeep(W), NEW g \in W, NEW loc, NEW dest
  PROVE  SendContents(g, loc, dest) \in W
<1> DEFINE s == Contents(g, loc)
<1>1. Len(s) \in Nat
  <2>1. s \in Seq(Int)
    BY ContentsAreRefs DEF MovesKeep
  <2> QED BY <2>1
<1>2. \A h \in W : \A r : Sent(dest, h, r) \in W
  BY MoveObjectKeeps DEF Sent
<1>3. \A h \in W, i \in 1 .. Len(s) : Sent(dest, h, s[i]) \in W
  BY <1>2
<1> HIDE DEF s
<1>4. Sending!Over(dest, g, s) \in W
  BY <1>1, <1>3, Sending!Keeps
<1> QED BY <1>4 DEF SendContents, s

\* And entering a room, with the sweep of the one left behind.
LEMMA TravelKeeps ==
  ASSUME NEW W, MovesKeep(W), NEW g \in W, NEW what, NEW dest, NEW enters
  PROVE  Travel(g, what, dest, enters) \in W
<1>1. \A h \in W : \A room : Sweep(h, room) \in W
  BY SendContentsKeeps DEF Sweep
<1>2. \A to : MoveObject(g, what, to) \in W
  BY MoveObjectKeeps
<1> QED BY <1>1, <1>2 DEF Travel

\* Of some numbers one is the smallest.
LEMMA Smallest ==
  ASSUME NEW S \in SUBSET Nat, S # {}
  PROVE  \E i \in S : \A j \in S : i <= j
<1> SUFFICES ASSUME \A i \in S : \E j \in S : ~(i <= j)
             PROVE  FALSE
  OBVIOUS
<1> DEFINE T == {n \in Nat : \A j \in S : n <= j}
<1>1. 0 \in T
  OBVIOUS
<1>2. \A n \in Nat : n \in T => n + 1 \in T
  <2> SUFFICES ASSUME NEW n \in Nat, n \in T, NEW j \in S PROVE n + 1 <= j
    OBVIOUS
  <2>1. n \notin S
    OBVIOUS
  <2> QED BY <2>1
<1>3. Nat \subseteq T
  <2> HIDE DEF T
  <2> QED BY <1>1, <1>2, Picking!Numbers
<1>4. PICK j \in S : TRUE
  OBVIOUS
<1>5. j + 1 \in T
  BY <1>3
<1> QED BY <1>5

Job == {"go", "bring", "back"} \X Int \X Int

\* What there is to do on the way through an exit is a list of jobs.
LEMMA ErrandsAreJobs ==
  ASSUME NEW g \in World, NEW exit \in DOMAIN g.objs
  PROVE  Errands(g, exit) \in Seq(Job)
<1> DEFINE D == [DOMAIN g.objs -> Seq(Job)]
<1>1. ASSUME NEW deeper \in D, NEW e \in DOMAIN g.objs
      PROVE  ErrandsOf(g, exit, deeper, e) \in Seq(Job)
  <2> DEFINE c == [g |-> g, exit |-> exit, deeper |-> deeper, e |-> e]
             dest == g.objs[e].dest
             runs == {i \in DOMAIN dest : Type(g, dest[i]) = "program"}
             before(d) == Adding!Over(c, <<>>, d)
             k == CHOOSE i \in runs : \A j \in runs : i <= j
  <2>1. dest \in Seq(Int) /\ e \in Int
    BY Typed DEF Object
  <2>2. ASSUME NEW done \in Seq(Job), NEW x \in Int
        PROVE  Errand(c, done, x) \in Seq(Job)
    <3>1. Type(g, x) = "exit" => deeper[x] \in Seq(Job)
      BY DEF Type, Exists
    <3>2. <<"bring", e, x>> \in Job /\ <<"go", e, x>> \in Job
      BY <2>1 DEF Job
    <3>3. \A t \in Seq(Job) : done \o t \in Seq(Job)
      OBVIOUS
    <3>4. /\ <<<<"bring", e, x>>>> \in Seq(Job)
          /\ <<<<"go", e, x>>>> \in Seq(Job)
          /\ <<>> \in Seq(Job)
      BY <3>2
    <3> QED BY <3>1, <3>3, <3>4 DEF Errand
  <2>3. ASSUME NEW d \in Seq(Int) PROVE before(d) \in Seq(Job)
    <3>1. Len(d) \in Nat /\ <<>> \in Seq(Job)
      OBVIOUS
    <3>2. \A i \in 1 .. Len(d) : d[i] \in Int
      OBVIOUS
    <3>3. \A done \in Seq(Job), i \in 1 .. Len(d) : Errand(c, done, d[i]) \in Seq(Job)
      <4> HIDE DEF c
      <4> QED BY <2>2, <3>2
    <3> HIDE DEF c
    <3> QED BY <3>1, <3>3, Adding!Keeps
  <2>4. CASE runs = {}
    <3>1. Append(before(dest), <<"back", e, Nothing>>) \in Seq(Job)
      <4>1. <<"back", e, Nothing>> \in Job
        BY <2>1 DEF Job, Nothing
      <4> HIDE DEF before
      <4> QED BY <2>1, <2>3, <4>1
    <3> QED BY <2>4, <3>1 DEF ErrandsOf
  <2>5. CASE runs # {}
    <3>1. k \in runs
      <4>1. runs \subseteq Nat
        BY <2>1
      <4> HIDE DEF runs
      <4> QED BY <2>5, <4>1, Smallest
    <3>2. SubSeq(dest, 1, k - 1) \in Seq(Int)
      <4> HIDE DEF k
      <4> QED BY <2>1, <3>1
    <3>3. before(SubSeq(dest, 1, k - 1)) \in Seq(Job)
      <4> HIDE DEF before, k, dest
      <4> QED BY <2>3, <3>2
    <3> QED BY <2>5, <3>3 DEF ErrandsOf
  <2> QED BY <2>4, <2>5
<1> DEFINE c == [g |-> g, exit |-> exit]
           none == [e \in DOMAIN g.objs |-> <<>>]
<1>2. \A deeper \in D, i \in 1 .. Len(Refs(g)) : Deepened(c, deeper, Refs(g)[i]) \in D
  BY <1>1 DEF Deepened
<1>3. Len(Refs(g)) \in Nat
  BY Tops DEF Refs
<1>4. none \in D
  OBVIOUS
<1>5. Deepening!Over(c, none, Refs(g)) \in D
  <2> HIDE DEF c, D, none
  <2> QED BY <1>2, <1>3, <1>4, Deepening!Keeps
<1> QED BY <1>5 DEF Errands

\* And going through an exit.
LEMMA TriggerKeeps ==
  ASSUME NEW W, MovesKeep(W), NEW g \in W, NEW who, NEW exit \in DOMAIN g.objs
  PROVE  Trigger(g, who, exit) \in W
<1> DEFINE s == Errands(g, exit)
           V == [g : W, acted : SUBSET Int]
           x == [g |-> g, acted |-> {}]
<1>1. s \in Seq(Job)
  BY ErrandsAreJobs DEF MovesKeep
<1>2. Len(s) \in Nat
  BY <1>1
<1>3. ASSUME NEW y \in V, NEW errand \in Job
      PROVE  RunErrand(who, y, errand) \in V
  <2>1. \A what, dest, enters : Travel(y.g, what, dest, enters) \in W
    BY TravelKeeps
  <2>2. errand[2] \in Int
    BY DEF Job
  <2> QED BY <2>1, <2>2 DEF RunErrand
<1>4. \A y \in V, i \in 1 .. Len(s) : RunErrand(who, y, s[i]) \in V
  BY <1>1, <1>3
<1>5. x \in V
  OBVIOUS
<1>6. Running!Over(who, x, s) \in V
  <2> HIDE DEF s, V, x
  <2> QED BY <1>2, <1>4, <1>5, Running!Keeps
<1> QED BY <1>6 DEF Trigger

-----------------------------------------------------------------------------
\* The free list: every recycled ref, once.

FreeExact(g) ==
    /\ Elems(g.free) = {r \in DOMAIN g.objs : Type(g, r) = "garbage"}
    /\ Len(g.free) = Cardinality(Elems(g.free))

\* Exact is: garbage all of it, all of the garbage, and each of it once.
LEMMA FreeIs ==
  ASSUME NEW g \in World
  PROVE  FreeExact(g) <=>
            /\ \A i \in 1 .. Len(g.free) : Type(g, g.free[i]) = "garbage"
            /\ \A r \in DOMAIN g.objs :
                  Type(g, r) = "garbage" => \E i \in 1 .. Len(g.free) : g.free[i] = r
            /\ Distinct(g.free)
<1>1. g.free \in Seq(Int)
  BY DEF World
<1>2. Distinct(g.free) <=> Len(g.free) = Cardinality(Elems(g.free))
  BY <1>1, DistinctCounts
<1>3. Elems(g.free) = {g.free[i] : i \in 1 .. Len(g.free)}
  BY <1>1 DEF Elems
<1>4. \A r : Type(g, r) = "garbage" => r \in DOMAIN g.objs
  BY DEF Type, Exists
<1>5. Elems(g.free) = {r \in DOMAIN g.objs : Type(g, r) = "garbage"} <=>
            /\ \A i \in 1 .. Len(g.free) : Type(g, g.free[i]) = "garbage"
            /\ \A r \in DOMAIN g.objs :
                  Type(g, r) = "garbage" => \E i \in 1 .. Len(g.free) : g.free[i] = r
  BY <1>3, <1>4
<1> QED BY <1>2, <1>5 DEF FreeExact

\* It is about what is garbage, and nothing else.
LEMMA FreeKept ==
  ASSUME NEW g \in World, FreeExact(g), NEW h \in World,
         DOMAIN h.objs = DOMAIN g.objs, h.free = g.free,
         \A r \in DOMAIN g.objs : Type(h, r) = "garbage" <=> Type(g, r) = "garbage"
  PROVE  FreeExact(h)
BY DEF FreeExact

Live == Types \ {"garbage"}

\* The next ref is nobody's, and the free list is what is left without it.
LEMMA NextRefIs ==
  ASSUME NEW g \in World, FreeExact(g), NEW t
  PROVE  LET new == NextRef(g, t)
         IN  \/ /\ new.ref = Cardinality(DOMAIN g.objs)
                /\ new.free = g.free
             \/ /\ g.free # <<>>
                /\ new.ref = g.free[Len(g.free)]
                /\ new.free = SubSeq(g.free, 1, Len(g.free) - 1)
<1> DEFINE usable == {i \in DOMAIN g.free : ~Valid(g, g.free[i])}
           i == CHOOSE i \in usable : \A j \in usable : j <= i
<1>1. g.free \in Seq(Int) /\ DOMAIN g.free = 1 .. Len(g.free) /\ Len(g.free) \in Nat
  BY DEF World
<1>2. usable = 1 .. Len(g.free)
  BY <1>1, FreeIs DEF Valid, Type
<1>3. CASE t = "player"
  BY <1>3 DEF NextRef
<1>4. CASE t # "player" /\ usable = {}
  <2>1. g.free = <<>>
    BY <1>1, <1>2, <1>4
  <2> QED BY <1>4, <2>1 DEF NextRef
<1>5. CASE t # "player" /\ usable # {}
  <2>1. Len(g.free) \in usable /\ \A j \in usable : j <= Len(g.free)
    BY <1>1, <1>2, <1>5
  <2>2. \A k \in usable : (\A j \in usable : j <= k) => k = Len(g.free)
    BY <1>1, <1>2, <2>1
  <2>3. i = Len(g.free)
    <3> HIDE DEF usable
    <3> QED BY <2>1, <2>2
  <2>4. NextRef(g, t) = [ref |-> g.free[i], free |-> SubSeq(g.free, 1, i - 1)]
    BY <1>5 DEF NextRef
  <2>5. g.free # <<>>
    BY <1>1, <1>2, <1>5
  <2> HIDE DEF usable, i
  <2> QED BY <2>3, <2>4, <2>5
<1> QED BY <1>3, <1>4, <1>5

\* Creating adds one object, new or in the place of garbage.
LEMMA CreatedFrame ==
  ASSUME NEW g \in World, FreeExact(g), NEW t \in Live, NEW owner \in Int
  PROVE  LET new == NextRef(g, t).ref
             h == Create(g, t, owner)
         IN  /\ h \in World /\ FreeExact(h)
             /\ new \in Nat /\ ~Valid(g, new)
             /\ DOMAIN h.objs = DOMAIN g.objs \cup {new}
             /\ h.objs[new] = NewObject(t, owner)
             /\ \A r \in DOMAIN g.objs \ {new} : h.objs[r] = g.objs[r]
             /\ h.stranded = (g.stranded \ {new}) \cup Members(g, new)
             /\ h.secure = g.secure /\ h.loose = g.loose
             /\ h.edits = g.edits /\ h.damaged = g.damaged
<1> DEFINE new == NextRef(g, t)
           h == Create(g, t, owner)
           objs == [r \in DOMAIN g.objs \cup {new.ref} |->
                       IF r = new.ref THEN NewObject(t, owner) ELSE g.objs[r]]
<1>1. PICK n \in Nat : DOMAIN g.objs = 0 .. n /\ Cardinality(DOMAIN g.objs) = n + 1
  BY Tops
<1>2. g.free \in Seq(Int) /\ Len(g.free) \in Nat
  BY DEF World
<1>3. /\ \A i \in 1 .. Len(g.free) : Type(g, g.free[i]) = "garbage"
      /\ \A r \in DOMAIN g.objs :
            Type(g, r) = "garbage" => \E i \in 1 .. Len(g.free) : g.free[i] = r
      /\ Distinct(g.free)
  BY FreeIs
<1>4. NewObject(t, owner) \in Object /\ NewObject(t, owner).type = t
  <2>1. <<>> \in Seq(Int) /\ {} \in SUBSET FlagNames
    OBVIOUS
  <2> QED BY <2>1 DEF NewObject, Object, Live, Nothing
<1>5. h = [g EXCEPT !.objs = objs, !.free = new.free,
                    !.stranded = (@ \ {new.ref}) \cup Members(g, new.ref)]
  BY DEF Create
<1>6. /\ h.objs = objs /\ h.free = new.free
      /\ h.stranded = (g.stranded \ {new.ref}) \cup Members(g, new.ref)
      /\ h.secure = g.secure /\ h.loose = g.loose
      /\ h.edits = g.edits /\ h.damaged = g.damaged
  <2> HIDE DEF objs, new
  <2> QED BY <1>5 DEF World
<1>7. Members(g, new.ref) \subseteq Int
  BY ContentsAreRefs DEF Members, Elems
<1>8. /\ objs[new.ref] = NewObject(t, owner)
      /\ \A r \in DOMAIN g.objs \ {new.ref} : objs[r] = g.objs[r]
      /\ DOMAIN objs = DOMAIN g.objs \cup {new.ref}
      /\ \A r \in DOMAIN objs : objs[r] \in Object
  <2>1. \A r \in DOMAIN g.objs : g.objs[r] \in Object
    BY Typed
  <2> QED BY <1>4, <2>1
<1>w. ASSUME NEW m \in Nat, DOMAIN objs = 0 .. m, new.free \in Seq(Int)
      PROVE  h \in World
  <2>1. objs \in [0 .. m -> Object]
    BY <1>8, <1>w
  <2> HIDE DEF objs, new
  <2>2. h = [objs |-> objs, free |-> new.free, secure |-> g.secure,
             stranded |-> (g.stranded \ {new.ref}) \cup Members(g, new.ref),
             loose |-> g.loose, edits |-> g.edits, damaged |-> g.damaged]
    BY <1>5 DEF World
  <2>3. g.stranded \in SUBSET Int /\ g.secure \in BOOLEAN /\ g.loose \in BOOLEAN
        /\ g.edits \in Int /\ g.damaged \in BOOLEAN
    BY DEF World
  <2> HIDE DEF h
  <2> QED BY <1>7, <1>w, <2>1, <2>2, <2>3 DEF World
<1>9. CASE new.ref = n + 1 /\ new.free = g.free
  <2>1. DOMAIN objs = 0 .. n + 1 /\ new.ref \notin DOMAIN g.objs
    BY <1>1, <1>8, <1>9
  <2>2. h \in World
    BY <1>2, <1>9, <1>w, <2>1
  <2> HIDE DEF objs, h
  <2>3. \A r \in DOMAIN h.objs : Type(h, r) = "garbage" <=> (r # n + 1 /\ Type(g, r) = "garbage")
    BY <1>4, <1>6, <1>8, <1>9, <2>1 DEF Type, Exists, Live
  <2>g. \A r : Type(g, r) = "garbage" => r \in DOMAIN g.objs /\ r # n + 1
    BY <1>1 DEF Type, Exists
  <2>k. DOMAIN h.objs = 0 .. n + 1 /\ h.free = g.free
    BY <1>6, <1>9, <2>1
  <2>5. \A i \in 1 .. Len(h.free) : Type(h, h.free[i]) = "garbage"
    <3> TAKE i \in 1 .. Len(h.free)
    <3>1. Type(g, g.free[i]) = "garbage"
      BY <1>3, <2>k
    <3>2. g.free[i] \in DOMAIN h.objs /\ g.free[i] # n + 1
      BY <1>1, <2>g, <2>k, <3>1
    <3> QED BY <2>3, <2>k, <3>1, <3>2
  <2>6. \A r \in DOMAIN h.objs :
            Type(h, r) = "garbage" => \E i \in 1 .. Len(h.free) : h.free[i] = r
    BY <1>3, <2>3, <2>g, <2>k
  <2>4. FreeExact(h)
    BY <1>3, <2>2, <2>5, <2>6, <2>k, FreeIs
  <2> QED BY <1>6, <1>8, <1>9, <2>1, <2>2, <2>4 DEF Valid, Exists, h
<1>10. CASE /\ g.free # <<>> /\ new.ref = g.free[Len(g.free)]
            /\ new.free = SubSeq(g.free, 1, Len(g.free) - 1)
  <2> DEFINE l == Len(g.free)
  <2>1. l \in 1 .. l
    BY <1>2, <1>10
  <2>2. Type(g, new.ref) = "garbage" /\ new.ref \in 0 .. n
    <3>1. Type(g, new.ref) = "garbage"
      BY <1>3, <1>10, <2>1
    <3> QED BY <1>1, <3>1 DEF Type, Exists
  <2>3. DOMAIN objs = 0 .. n
    BY <1>1, <1>8, <2>2
  <2>4. /\ new.free \in Seq(Int) /\ Len(new.free) = l - 1
        /\ \A i \in 1 .. l - 1 : new.free[i] = g.free[i]
    BY <1>2, <1>10, <2>1
  <2>5. h \in World
    BY <1>w, <2>3, <2>4
  <2> HIDE DEF objs, h
  <2>6. \A r : Type(h, r) = "garbage" <=> (r # new.ref /\ Type(g, r) = "garbage")
    BY <1>4, <1>6, <1>8, <1>1, <2>2, <2>3 DEF Type, Exists, Live
  <2>7. /\ \A i \in 1 .. l - 1 : g.free[i] # new.ref
        /\ \A i \in 1 .. l : g.free[i] = new.ref => i = l
        /\ Distinct(new.free)
    <3>1. l \in Nat /\ l >= 1 /\ l = Len(g.free) /\ Len(new.free) = l - 1
      BY <1>2, <2>1, <2>4
    <3>2. \A i, j \in 1 .. l : g.free[i] = g.free[j] => i = j
      BY <1>3 DEF Distinct
    <3>3. g.free[l] = new.ref
      BY <1>10
    <3> HIDE DEF l, new
    <3>4. \A i \in 1 .. l : g.free[i] = new.ref => i = l
      BY <3>1, <3>2, <3>3
    <3>5. \A i \in 1 .. l - 1 : i \in 1 .. l /\ i # l
      BY <3>1
    <3>6. Distinct(new.free)
      BY <2>4, <3>1, <3>2, <3>5 DEF Distinct
    <3> QED BY <3>4, <3>5, <3>6
  <2>8. FreeExact(h)
    <3>1. \A i \in 1 .. Len(h.free) : Type(h, h.free[i]) = "garbage"
      BY <1>2, <1>3, <1>6, <2>4, <2>6, <2>7, SMTT(40)
    <3>2. \A r \in DOMAIN h.objs :
              Type(h, r) = "garbage" => \E i \in 1 .. Len(h.free) : h.free[i] = r
      <4> SUFFICES ASSUME NEW r \in DOMAIN h.objs, Type(h, r) = "garbage"
                   PROVE  \E i \in 1 .. Len(h.free) : h.free[i] = r
        OBVIOUS
      <4>1. r # new.ref /\ Type(g, r) = "garbage" /\ r \in DOMAIN g.objs
        BY <1>1, <1>6, <2>3, <2>6
      <4>2. PICK i \in 1 .. l : g.free[i] = r
        BY <1>3, <4>1
      <4>3. i # l
        BY <1>10, <4>1, <4>2
      <4>4. i \in 1 .. l - 1
        BY <1>2, <4>3
      <4> QED BY <1>6, <2>4, <4>2, <4>4
    <3> QED BY <1>6, <2>5, <2>7, <3>1, <3>2, FreeIs
  <2> QED BY <1>1, <1>6, <1>8, <2>2, <2>5, <2>8 DEF Valid, Type, h
<1> QED BY <1>1, <1>9, <1>10, NextRefIs

\* Recycling leaves garbage where there was something, and remembers it.
LEMMA RecycledFrame ==
  ASSUME NEW g \in World, FreeExact(g), NEW r, Valid(g, r)
  PROVE  LET out == IF Loc(g, r) = Nothing THEN g ELSE RemoveFromChain(g, Loc(g, r), r)
             h == Recycle(g, r)
         IN  /\ h \in World /\ FreeExact(h)
             /\ Relisted(g, out) /\ out.stranded = g.stranded
             /\ \A x \in DOMAIN g.objs : out.objs[x].loc = g.objs[x].loc
             /\ h.objs = [out.objs EXCEPT ![r] = GarbageObject(g.objs[r].link)]
             /\ h.stranded = (g.stranded \ {r}) \cup (Members(g, r) \ {r})
             /\ h.secure = g.secure /\ h.loose = g.loose
             /\ h.edits = g.edits /\ h.damaged = g.damaged
<1> DEFINE out == IF Loc(g, r) = Nothing THEN g ELSE RemoveFromChain(g, Loc(g, r), r)
           h == Recycle(g, r)
           o == GarbageObject(g.objs[r].link)
<1>1. /\ Relisted(g, out) /\ out.stranded = g.stranded
      /\ \A x \in DOMAIN g.objs : out.objs[x].loc = g.objs[x].loc
  BY RemovedFrame DEF Relisted
<1>2. h = [out EXCEPT !.objs[r] = o, !.free = Append(@, r),
                      !.stranded = (@ \ {r}) \cup (Members(g, r) \ {r})]
  BY DEF Recycle
<1>3. r \in DOMAIN g.objs /\ r \in Int /\ Type(g, r) # "garbage"
  BY Typed DEF Valid, Exists, Type
<1>4. o \in Object /\ o.type = "garbage"
  <2>1. <<>> \in Seq(Int) /\ {} \in SUBSET FlagNames /\ g.objs[r].link \in Int
    BY <1>3, Typed DEF Object
  <2> DEFINE new == NewObject("garbage", Nothing)
  <2>2. new \in Object /\ new.type = "garbage"
    BY <2>1 DEF NewObject, Object, Types, Nothing
  <2>3. o = [new EXCEPT !.link = g.objs[r].link]
    BY DEF GarbageObject
  <2> HIDE DEF o, new
  <2> QED BY <2>1, <2>2, <2>3 DEF Object
<1>5. Members(g, r) \subseteq Int
  BY ContentsAreRefs DEF Members, Elems
<1>6. out \in World /\ g.free \in Seq(Int) /\ g.stranded \in SUBSET Int
  BY <1>1 DEF Relisted, World
<1> DEFINE w == [out EXCEPT !.objs[r] = o]
<1> HIDE DEF out, o, h
<1>7. w \in World
  BY <1>4, <1>6, Written
<1>8. h = [w EXCEPT !.free = Append(@, r),
                    !.stranded = (@ \ {r}) \cup (Members(g, r) \ {r})]
  BY <1>2, <1>6 DEF World
<1>9. /\ w.objs = [out.objs EXCEPT ![r] = o]
      /\ w.free = g.free /\ w.stranded = g.stranded
      /\ w.secure = g.secure /\ w.loose = g.loose
      /\ w.edits = g.edits /\ w.damaged = g.damaged
  BY <1>1, <1>6 DEF World, Relisted
<1> HIDE DEF w
<1>10. /\ h.objs = [out.objs EXCEPT ![r] = o]
       /\ h.free = Append(g.free, r)
       /\ h.stranded = (g.stranded \ {r}) \cup (Members(g, r) \ {r})
       /\ h.secure = g.secure /\ h.loose = g.loose
       /\ h.edits = g.edits /\ h.damaged = g.damaged
  BY <1>7, <1>8, <1>9 DEF World
<1>11. h \in World
  <2>1. Append(g.free, r) \in Seq(Int) /\ (g.stranded \ {r}) \cup (Members(g, r) \ {r}) \in SUBSET Int
    BY <1>3, <1>5, <1>6
  <2> QED BY <1>7, <1>8, <1>9, <2>1 DEF World
<1>12. FreeExact(h)
  <2>1. DOMAIN h.objs = DOMAIN g.objs
    BY <1>1, <1>10 DEF Relisted
  <2>2. \A x : Type(h, x) = "garbage" <=> (x = r \/ Type(g, x) = "garbage")
    BY <1>1, <1>3, <1>4, <1>10, <2>1 DEF Type, Exists, Relisted
  <2>3. /\ \A i \in 1 .. Len(g.free) : Type(g, g.free[i]) = "garbage"
        /\ \A x \in DOMAIN g.objs :
              Type(g, x) = "garbage" => \E i \in 1 .. Len(g.free) : g.free[i] = x
        /\ Distinct(g.free)
    BY FreeIs
  <2> DEFINE l == Len(g.free)
  <2>4. /\ l \in Nat /\ Len(h.free) = l + 1 /\ h.free[l + 1] = r
        /\ \A i \in 1 .. l : h.free[i] = g.free[i]
    BY <1>3, <1>6, <1>10
  <2> HIDE DEF l
  <2>i. \A i \in 1 .. l + 1 : i \in 1 .. l \/ i = l + 1
    BY <2>4
  <2>5. \A i \in 1 .. l : h.free[i] # r /\ Type(g, h.free[i]) = "garbage"
    BY <1>3, <2>3, <2>4 DEF l
  <2>6. \A i \in 1 .. Len(h.free) : Type(h, h.free[i]) = "garbage"
    BY <2>2, <2>4, <2>5, <2>i
  <2>7. \A x \in DOMAIN h.objs :
            Type(h, x) = "garbage" => \E i \in 1 .. Len(h.free) : h.free[i] = x
    <3> SUFFICES ASSUME NEW x \in DOMAIN h.objs, Type(h, x) = "garbage"
                 PROVE  \E i \in 1 .. l + 1 : h.free[i] = x
      BY <2>4
    <3>1. CASE x = r
      BY <2>4, <3>1
    <3>2. CASE x # r
      <4>1. PICK i \in 1 .. l : g.free[i] = x
        BY <2>1, <2>2, <2>3, <3>2 DEF l
      <4> QED BY <2>4, <4>1
    <3> QED BY <3>1, <3>2
  <2>8. Distinct(h.free)
    <3> SUFFICES ASSUME NEW i \in 1 .. l + 1, NEW j \in 1 .. l + 1, h.free[i] = h.free[j]
                 PROVE  i = j
      BY <2>4 DEF Distinct
    <3>1. CASE i \in 1 .. l /\ j \in 1 .. l
      BY <2>3, <2>4, <3>1 DEF Distinct, l
    <3> QED BY <2>4, <2>5, <2>i, <3>1
  <2> QED BY <1>11, <2>6, <2>7, <2>8, FreeIs
<1> QED BY <1>1, <1>10, <1>11, <1>12 DEF out, h, o


-----------------------------------------------------------------------------
\* The repair of the lists.

\* One world is another but for lists: nobody has another place.
Rethreaded(g, h) ==
    /\ Relisted(g, h)
    /\ h.stranded = g.stranded
    /\ \A r \in DOMAIN g.objs : h.objs[r].loc = g.objs[r].loc

\* Relinking a list threads its members in turn, and touches no other object.
LEMMA Relinked ==
  ASSUME NEW g \in World, NEW r \in DOMAIN g.objs, NEW list \in {"contents", "exits"},
         NEW s \in Seq(DOMAIN g.objs), Distinct(s)
  PROVE  LET h == Relink(g, r, list, s)
         IN  /\ Rethreaded(g, h)
             /\ Thread(h, h.objs[r][list], s)
             /\ \A m \in DOMAIN g.objs \ Elems(s) : h.objs[m].next = g.objs[m].next
             /\ \A m \in DOMAIN g.objs, other \in {"contents", "exits"} :
                   <<m, other>> # <<r, list>> => h.objs[m][other] = g.objs[m][other]
<1> DEFINE h == Relink(g, r, list, s)
           at(m) == CHOOSE i \in DOMAIN s : s[i] = m
           next(m) == IF at(m) = Len(s) THEN Nothing ELSE s[at(m) + 1]
           head == IF s = <<>> THEN Nothing ELSE s[1]
           threaded(m) == [g.objs[m] EXCEPT !.next = IF m \in Elems(s) THEN next(m) ELSE @]
           new(m) == [g.objs[m] EXCEPT !.next = IF m \in Elems(s) THEN next(m) ELSE @,
                                       ![list] = IF m = r THEN head ELSE @]
           objs == [m \in DOMAIN g.objs |-> new(m)]
<1>1. h = [g EXCEPT !.objs = objs]
  BY DEF Relink
<1>2. /\ Len(s) \in Nat /\ DOMAIN s = 1 .. Len(s)
      /\ \A i \in 1 .. Len(s) : s[i] \in DOMAIN g.objs /\ s[i] \in Int
      /\ Elems(s) = {s[i] : i \in 1 .. Len(s)}
  BY Typed DEF Elems
<1>3. \A i \in 1 .. Len(s) : at(s[i]) = i
  BY <1>2 DEF Distinct
<1>4. \A i \in 1 .. Len(s) : next(s[i]) = IF i = Len(s) THEN Nothing ELSE s[i + 1]
  <2> HIDE DEF at
  <2> QED BY <1>3
<1>5. head \in Int /\ \A m \in Elems(s) : next(m) \in Int
  <2> HIDE DEF next
  <2>1. head \in Int
    BY <1>2 DEF Nothing
  <2>2. \A i \in 1 .. Len(s) : next(s[i]) \in Int
    <3> TAKE i \in 1 .. Len(s)
    <3>1. CASE i = Len(s)
      BY <1>4, <3>1, SMTT(40) DEF Nothing
    <3>2. CASE i # Len(s)
      <4>1. Len(s) \in Nat
        OBVIOUS
      <4>2. i + 1 \in 1 .. Len(s)
        BY <3>2, <4>1
      <4> QED BY <1>2, <1>4, <3>2, <4>2
    <3> QED BY <3>1, <3>2
  <2> QED BY <1>2, <2>1, <2>2
<1> HIDE DEF next, head, at
<1>6. ASSUME NEW m \in DOMAIN g.objs
      PROVE  LET o == g.objs[m]
                 t == threaded(m)
             IN  /\ t \in Object
                 /\ t.type = o.type /\ t.owner = o.owner /\ t.link = o.link
                 /\ t.dest = o.dest /\ t.flags = o.flags /\ t.loc = o.loc
                 /\ t.contents = o.contents /\ t.exits = o.exits
                 /\ t.next = IF m \in Elems(s) THEN next(m) ELSE o.next
  <2>1. g.objs[m] \in Object
    BY Typed
  <2> QED BY <1>5, <2>1 DEF Object
<1>7. ASSUME NEW m \in DOMAIN g.objs
      PROVE  LET o == g.objs[m]
                 p == new(m)
             IN  /\ p \in Object
                 /\ p.type = o.type /\ p.owner = o.owner /\ p.link = o.link
                 /\ p.dest = o.dest /\ p.flags = o.flags /\ p.loc = o.loc
                 /\ p.next = IF m \in Elems(s) THEN next(m) ELSE o.next
                 /\ m = r => p[list] = head
                 /\ \A other \in {"contents", "exits"} :
                       <<m, other>> # <<r, list>> => p[other] = o[other]
  <2> DEFINE t == threaded(m)
             v == IF m = r THEN head ELSE g.objs[m][list]
             p == [t EXCEPT ![list] = v]
  <2>1. new(m) = p
    OBVIOUS
  <2> HIDE DEF threaded, new
  <2>2. t \in Object /\ t[list] \in Int
    BY <1>6 DEF Object
  <2>4. \A other \in {"contents", "exits"} : t[other] = g.objs[m][other]
    BY <1>6
  <2>3. v \in Int
    BY <1>5, <2>2, <2>4
  <2>5. m # r => v = t[list]
    BY <2>4
  <2>6. m = r => v = head
    OBVIOUS
  <2> HIDE DEF v, t
  <2>7. /\ p \in Object /\ p[list] = v
        /\ \A other \in {"contents", "exits"} : other # list => p[other] = t[other]
        /\ p.type = t.type /\ p.owner = t.owner /\ p.link = t.link
        /\ p.dest = t.dest /\ p.flags = t.flags /\ p.loc = t.loc /\ p.next = t.next
    BY <2>2, <2>3, ListField
  <2> HIDE DEF p
  <2>8. \A other \in {"contents", "exits"} :
            <<m, other>> # <<r, list>> => p[other] = g.objs[m][other]
    <3> TAKE other \in {"contents", "exits"}
    <3>1. CASE other = list
      BY <2>4, <2>5, <2>7, <3>1
    <3>2. CASE other # list
      BY <2>4, <2>7, <3>2
    <3> QED BY <3>1, <3>2
  <2> QED BY <1>6, <2>1, <2>6, <2>7, <2>8 DEF t
<1> HIDE DEF new
<1>8. /\ DOMAIN objs = DOMAIN g.objs /\ objs = [m \in DOMAIN objs |-> objs[m]]
      /\ \A m \in DOMAIN objs : objs[m] = new(m)
  OBVIOUS
<1> HIDE DEF objs, h
<1>9. h \in World
  BY <1>1, <1>7, <1>8, Replaced
<1>10. /\ h.objs = objs /\ h.free = g.free /\ h.secure = g.secure /\ h.loose = g.loose
       /\ h.edits = g.edits /\ h.damaged = g.damaged /\ h.stranded = g.stranded
  BY <1>1 DEF World
<1>11. Rethreaded(g, h)
  BY <1>7, <1>8, <1>9, <1>10 DEF Rethreaded, Relisted
<1>12. \A m \in DOMAIN g.objs \ Elems(s) : h.objs[m].next = g.objs[m].next
  BY <1>7, <1>8, <1>10
<1>13. \A m \in DOMAIN g.objs, other \in {"contents", "exits"} :
           <<m, other>> # <<r, list>> => h.objs[m][other] = g.objs[m][other]
  BY <1>7, <1>8, <1>10
<1>14. Thread(h, h.objs[r][list], s)
  <2>1. h.objs[r][list] = head
    BY <1>7, <1>8, <1>10
  <2>2. \A i \in 1 .. Len(s) : h.objs[s[i]].next = next(s[i])
    BY <1>2, <1>7, <1>8, <1>10
  <2> QED BY <1>4, <1>8, <1>10, <2>1, <2>2 DEF Thread, head
<1> QED BY <1>11, <1>12, <1>13, <1>14 DEF h

\* A list that holds what it should, by what the objects of g say.
Holds(g, h, r, list) ==
    \E s : Thread(h, h.objs[r][list], s) /\ Elems(s) = Wanted(g, r, list)

\* A list that is repaired holds what it should, and the others what they did.
LEMMA RepairedList ==
  ASSUME NEW g \in World, NEW h, Rethreaded(g, h), NEW r \in DOMAIN g.objs,
         NEW list \in {"contents", "exits"}
  PROVE  LET k == RepairList(g, h, r, list)
         IN  /\ Rethreaded(g, k)
             /\ Holds(g, k, r, list)
             /\ \A m \in DOMAIN g.objs, other \in {"contents", "exits"} :
                   <<m, other>> # <<r, list>> /\ Holds(g, h, m, other) => Holds(g, k, m, other)
<1> DEFINE k == RepairList(g, h, r, list)
           wanted == Wanted(g, r, list)
           chain == Chain(h, h.objs[r][list])
<1>1. /\ h \in World /\ DOMAIN h.objs = DOMAIN g.objs /\ wanted \subseteq DOMAIN g.objs
  BY DEF Rethreaded, Relisted, Wanted
<1>2. h.objs[r][list] \in Int
  BY <1>1, Typed DEF Object
<1>3. CASE SameMembers(chain, wanted)
  <2>1. k = h
    BY <1>3 DEF RepairList
  <2>2. chain \in Seq(Int)
    BY <1>1, <1>2, ChainIsThread
  <2>3. Elems(chain) = wanted /\ Len(chain) = Cardinality(Elems(chain))
    BY <1>3 DEF SameMembers
  <2> HIDE DEF chain
  <2>4. Distinct(chain)
    BY <2>2, <2>3, DistinctCounts
  <2> HIDE DEF wanted
  <2>5. Thread(h, h.objs[r][list], chain)
    BY <1>1, <1>2, <2>3, <2>4, ChainIsThread DEF chain
  <2> HIDE DEF k
  <2> QED BY <2>1, <2>3, <2>5 DEF Holds, wanted, k
<1>4. CASE ~SameMembers(chain, wanted)
  <2> DEFINE s == InOrder(g, wanted)
  <2>1. k = Relink(h, r, list, s)
    BY <1>4 DEF RepairList
  <2>2. s \in Seq(wanted) /\ Elems(s) = wanted /\ Distinct(s)
    BY <1>1, InOrderIs
  <2> HIDE DEF s
  <2>3. s \in Seq(DOMAIN h.objs)
    <3>1. \A i \in 1 .. Len(s) : s[i] \in DOMAIN h.objs
      BY <1>1, <2>2
    <3> QED BY <2>2, <3>1
  <2> HIDE DEF k
  <2>4. /\ Rethreaded(h, k)
        /\ Thread(k, k.objs[r][list], s)
        /\ \A m \in DOMAIN h.objs \ Elems(s) : k.objs[m].next = h.objs[m].next
        /\ \A m \in DOMAIN h.objs, other \in {"contents", "exits"} :
              <<m, other>> # <<r, list>> => k.objs[m][other] = h.objs[m][other]
    BY <1>1, <2>1, <2>2, <2>3, Relinked
  <2>5. Rethreaded(g, k)
    BY <2>4 DEF Rethreaded, Relisted
  <2>6. Holds(g, k, r, list)
    BY <2>2, <2>4 DEF Holds
  <2>7. ASSUME NEW m \in DOMAIN g.objs, NEW other \in {"contents", "exits"},
               <<m, other>> # <<r, list>>, Holds(g, h, m, other)
        PROVE  Holds(g, k, m, other)
    <3>1. PICK t : Thread(h, h.objs[m][other], t) /\ Elems(t) = Wanted(g, m, other)
      BY <2>7 DEF Holds
    <3>2. \A x : ~(x \in Wanted(g, m, other) /\ x \in wanted)
      BY <2>7 DEF Wanted
    <3>3. t \in Seq(DOMAIN h.objs) /\ \A i \in 1 .. Len(t) : t[i] \in Elems(t) /\ t[i] \in DOMAIN h.objs
      BY <3>1 DEF Thread, Elems
    <3>4. \A i \in 1 .. Len(t) : k.objs[t[i]].next = h.objs[t[i]].next
      BY <2>2, <2>4, <3>1, <3>2, <3>3
    <3>5. k.objs[m][other] = h.objs[m][other] /\ DOMAIN k.objs = DOMAIN h.objs
      BY <1>1, <2>4, <2>7 DEF Rethreaded, Relisted
    <3>6. Thread(k, k.objs[m][other], t)
      BY <3>1, <3>4, <3>5 DEF Thread
    <3> QED BY <3>1, <3>6 DEF Holds
  <2> QED BY <2>5, <2>6, <2>7 DEF k
<1> QED BY <1>3, <1>4


\* After the repair every list holds what it should.
LEMMA Repaired ==
  ASSUME NEW g \in World
  PROVE  LET h == RepairChains(g)
         IN  /\ Relisted(g, h) /\ h.stranded = {}
             /\ \A r \in DOMAIN g.objs : h.objs[r].loc = g.objs[r].loc
             /\ \A r \in DOMAIN g.objs, list \in {"contents", "exits"} : Holds(g, h, r, list)
<1> DEFINE s == InOrder(g, DOMAIN g.objs)
           lists == {"contents", "exits"}
           all == Repairing!Over(g, g, s)
<1>1. s \in Seq(DOMAIN g.objs) /\ Elems(s) = DOMAIN g.objs
  BY InOrderIs
<1>2. Len(s) \in Nat /\ DOMAIN s = 1 .. Len(s) /\ \A i \in 1 .. Len(s) : s[i] \in DOMAIN g.objs
  <2> HIDE DEF s
  <2> QED BY <1>1
<1> HIDE DEF s
<1>3. PICK f : /\ f[0] = g
               /\ \A i \in 1 .. Len(s) : f[i] = RepairBoth(g, f[i - 1], s[i])
               /\ all = f[Len(s)]
  <2>1. \E f : Repairing!After(f, g, g, s)
    BY <1>2, Repairing!Unfolds
  <2> QED BY <2>1 DEF Repairing!After
<1> DEFINE Good(i) == /\ Rethreaded(g, f[i])
                      /\ \A j \in 1 .. i : \A list \in lists : Holds(g, f[i], s[j], list)
           T == {i \in Nat : i <= Len(s) => Good(i)}
<1>4. 0 \in T
  BY <1>3 DEF Rethreaded, Relisted
<1>5. ASSUME NEW i \in Nat, i \in T PROVE i + 1 \in T
  <2> SUFFICES ASSUME i + 1 <= Len(s) PROVE Good(i + 1)
    OBVIOUS
  <2>1. Good(i) /\ i + 1 \in 1 .. Len(s) /\ s[i + 1] \in DOMAIN g.objs
    <3>1. i <= Len(s) /\ i + 1 \in 1 .. Len(s)
      BY <1>2
    <3> HIDE DEF Good
    <3> QED BY <1>2, <1>5, <3>1
  <2> DEFINE r == s[i + 1]
             h == f[i]
             half == RepairList(g, h, r, "contents")
             k == RepairList(g, half, r, "exits")
  <2>2. f[i + 1] = k
    <3>1. (i + 1) - 1 = i
      OBVIOUS
    <3> QED BY <1>3, <2>1, <3>1 DEF RepairBoth
  <2>3. Rethreaded(g, h) /\ \A j \in 1 .. i : \A list \in lists : Holds(g, h, s[j], list)
    BY <2>1
  <2>r. r \in DOMAIN g.objs
    BY <2>1
  <2>j. \A j \in 1 .. i : s[j] \in DOMAIN g.objs
    BY <1>2, <2>1
  <2> HIDE DEF r, h, half, k
  <2>4. /\ Rethreaded(g, half)
        /\ Holds(g, half, r, "contents")
        /\ \A m \in DOMAIN g.objs, other \in lists :
              <<m, other>> # <<r, "contents">> /\ Holds(g, h, m, other) => Holds(g, half, m, other)
    BY <2>3, <2>r, RepairedList DEF half
  <2>5. /\ Rethreaded(g, k)
        /\ Holds(g, k, r, "exits")
        /\ \A m \in DOMAIN g.objs, other \in lists :
              <<m, other>> # <<r, "exits">> /\ Holds(g, half, m, other) => Holds(g, k, m, other)
    BY <2>4, <2>r, RepairedList DEF k
  <2>6. \A list \in lists : Holds(g, k, r, list)
    BY <2>4, <2>5, <2>r
  <2>7. \A j \in 1 .. i : \A list \in lists : Holds(g, k, s[j], list)
    <3> TAKE j \in 1 .. i
    <3> TAKE list \in lists
    <3>1. CASE s[j] = r
      BY <2>6, <3>1
    <3>2. CASE s[j] # r
      BY <2>3, <2>4, <2>5, <2>j, <3>2
    <3> QED BY <3>1, <3>2
  <2>8. \A j \in 1 .. i + 1 : j \in 1 .. i \/ j = i + 1
    OBVIOUS
  <2>9. \A j \in 1 .. i + 1 : \A list \in lists : Holds(g, k, s[j], list)
    BY <2>6, <2>7, <2>8 DEF r
  <2> QED BY <2>2, <2>5, <2>9
<1>6. Good(Len(s))
  <2>1. Len(s) \in T
    <3> HIDE DEF T
    <3> QED BY <1>2, <1>4, <1>5, Repairing!Numbers
  <2> HIDE DEF Good
  <2> QED BY <1>2, <2>1
<1>7. \A r \in DOMAIN g.objs, list \in lists : Holds(g, all, r, list)
  <2>1. \A r \in DOMAIN g.objs : \E j \in 1 .. Len(s) : s[j] = r
    BY <1>1, <1>2 DEF Elems
  <2> HIDE DEF all
  <2> QED BY <1>3, <1>6, <2>1
<1>8. Rethreaded(g, all)
  BY <1>3, <1>6
<1> DEFINE h == RepairChains(g)
<1>9. h = [all EXCEPT !.stranded = {}]
  BY <1>1, <1>2 DEF RepairChains, s
<1> HIDE DEF all, h
<1>10. h \in World /\ h.objs = all.objs /\ h.free = all.free /\ h.secure = all.secure
       /\ h.loose = all.loose /\ h.edits = all.edits /\ h.damaged = all.damaged
       /\ h.stranded = {}
  BY <1>8, <1>9 DEF Rethreaded, Relisted, World
<1>11. \A r \in DOMAIN g.objs, list \in lists : Holds(g, h, r, list)
  BY <1>7, <1>10, SMTT(40) DEF Holds, Thread
<1> QED BY <1>8, <1>10, <1>11 DEF Rethreaded, Relisted, h

\* Rebuilt, the free list is exact.
LEMMA Rebuilt ==
  ASSUME NEW g \in World
  PROVE  LET h == RebuildRecyclable(g)
         IN  h \in World /\ FreeExact(h) /\ h = [g EXCEPT !.free = h.free]
<1> DEFINE S == {r \in DOMAIN g.objs : Type(g, r) = "garbage"}
           s == InOrder(g, S)
           h == RebuildRecyclable(g)
<1>1. s \in Seq(S) /\ Elems(s) = S /\ Distinct(s)
  BY InOrderIs
<1>2. h = [g EXCEPT !.free = s]
  BY DEF RebuildRecyclable
<1>3. s \in Seq(Int)
  <2>1. S \subseteq Int
    BY Typed
  <2> HIDE DEF s, S
  <2>0. \A i \in 1 .. Len(s) : s[i] \in S
    BY <1>1
  <2>2. \A i \in 1 .. Len(s) : s[i] \in Int
    BY <2>0, <2>1
  <2>3. s = [i \in 1 .. Len(s) |-> s[i]] /\ Len(s) \in Nat
    BY <1>1
  <2>4. s \in [1 .. Len(s) -> Int]
    BY <2>2, <2>3
  <2> QED BY <2>3, <2>4
<1>4. Len(s) = Cardinality(Elems(s))
  <2> HIDE DEF s, S
  <2> QED BY <1>1, <1>3, DistinctCounts
<1> HIDE DEF s, h
<1>5. h \in World /\ h.free = s /\ h.objs = g.objs
  BY <1>2, <1>3 DEF World
<1>6. S = {r \in DOMAIN h.objs : Type(h, r) = "garbage"}
  BY <1>5 DEF Type, Exists
<1>7. FreeExact(h)
  <2> HIDE DEF S
  <2> QED BY <1>1, <1>4, <1>5, <1>6 DEF FreeExact
<1> QED BY <1>2, <1>5, <1>7 DEF h


-----------------------------------------------------------------------------
\* Sound worlds: everybody is somewhere that is there, on the list of where
\* they are unless stranded, and no walk outward goes round.

Lists == {"contents", "exits"}

\* Who should be on a list, and is not stranded.
Awaited(g, r, list) == Wanted(g, r, list) \ g.stranded

Listed(g, r, list) == \E s : Thread(g, g.objs[r][list], s) /\ Elems(s) = Awaited(g, r, list)

\* However objects are chosen, one of them is in none of the others.
NoRing(g) ==
    \A S \in SUBSET (DOMAIN g.objs) :
        S # {} => \E r \in S : g.objs[r].loc \notin S

Sound(g) ==
    /\ g \in World
    /\ Placed(g)
    /\ NoRing(g)
    /\ \A r \in DOMAIN g.objs, list \in Lists : Listed(g, r, list)

\* A list with one member fewer.
Without(s, i) == [j \in 1 .. Len(s) - 1 |-> IF j < i THEN s[j] ELSE s[j + 1]]

\* Its members are the others.
LEMMA WithoutIs ==
  ASSUME NEW S, NEW s \in Seq(S), Distinct(s), NEW i \in 1 .. Len(s)
  PROVE  /\ Without(s, i) \in Seq(S) /\ Len(Without(s, i)) = Len(s) - 1
         /\ Distinct(Without(s, i))
         /\ Elems(Without(s, i)) = Elems(s) \ {s[i]}
<1> DEFINE n == Len(s)
           t == Without(s, i)
<1>1. n \in Nat /\ i \in Int /\ n >= 1 /\ i \in 1 .. n /\ \A j \in 1 .. n : s[j] \in S
  OBVIOUS
<1>2. \A j \in 1 .. n - 1 : /\ j \in 1 .. n /\ j + 1 \in 1 .. n
                            /\ j # i \/ j + 1 # i
                            /\ t[j] = IF j < i THEN s[j] ELSE s[j + 1]
  BY <1>1 DEF Without
<1>3. \A j \in 1 .. n - 1 : t[j] \in S
  BY <1>1, <1>2
<1>4. t \in [1 .. n - 1 -> S]
  BY <1>3 DEF Without
<1>5. t \in Seq(S) /\ Len(t) = n - 1 /\ DOMAIN t = 1 .. n - 1 /\ n - 1 \in Nat
  <2> HIDE DEF t
  <2>1. n - 1 \in Nat
    BY <1>1
  <2> HIDE DEF n
  <2> QED BY <1>4, <2>1
<1>6. \A j, k \in 1 .. n : s[j] = s[k] => j = k
  BY DEF Distinct
<1>7. Distinct(t)
  <2> SUFFICES ASSUME NEW j \in 1 .. n - 1, NEW k \in 1 .. n - 1, t[j] = t[k]
               PROVE  j = k
    BY <1>5 DEF Distinct
  <2> HIDE DEF t, n
  <2>1. /\ j \in Int /\ k \in Int
        /\ j \in 1 .. n /\ j + 1 \in 1 .. n /\ k \in 1 .. n /\ k + 1 \in 1 .. n
    BY <1>1, <1>2
  <2>2. CASE j < i /\ k < i
    BY <1>2, <1>6, <2>1, <2>2
  <2>3. CASE j < i /\ ~(k < i)
    <3>1. s[j] = s[k + 1]
      BY <1>2, <2>3
    <3>2. j = k + 1
      BY <1>6, <2>1, <3>1
    <3> QED BY <1>1, <2>1, <2>3, <3>2
  <2>4. CASE ~(j < i) /\ k < i
    <3>1. s[j + 1] = s[k]
      BY <1>2, <2>4
    <3>2. j + 1 = k
      BY <1>6, <2>1, <3>1
    <3> QED BY <1>1, <2>1, <2>4, <3>2
  <2>5. CASE ~(j < i) /\ ~(k < i)
    <3>1. s[j + 1] = s[k + 1]
      BY <1>2, <2>5
    <3>2. j + 1 = k + 1
      BY <1>6, <2>1, <3>1
    <3> QED BY <2>1, <3>2
  <2> QED BY <2>2, <2>3, <2>4, <2>5
<1>8. ASSUME NEW x PROVE x \in Elems(t) <=> x \in Elems(s) /\ x # s[i]
  <2>1. x \in Elems(s) <=> \E j \in 1 .. n : s[j] = x
    BY DEF Elems
  <2>2. x \in Elems(t) <=> \E j \in 1 .. n - 1 : t[j] = x
    BY <1>5 DEF Elems
  <2> HIDE DEF t, n
  <2>3. ASSUME NEW j \in 1 .. n - 1, t[j] = x PROVE x # s[i] /\ \E k \in 1 .. n : s[k] = x
    <3>1. CASE j < i
      BY <1>1, <1>2, <1>6, <2>3, <3>1
    <3>2. CASE ~(j < i)
      <4>1. s[j + 1] = x /\ j + 1 \in 1 .. n
        BY <1>2, <2>3, <3>2
      <4>2. j + 1 # i
        BY <1>1, <3>2
      <4> QED BY <1>1, <1>6, <4>1, <4>2
    <3> QED BY <3>1, <3>2
  <2>4. ASSUME NEW j \in 1 .. n, s[j] = x, x # s[i] PROVE \E k \in 1 .. n - 1 : t[k] = x
    <3>1. CASE j < i
      <4>1. j \in 1 .. n - 1
        BY <1>1, <3>1
      <4> QED BY <1>2, <2>4, <3>1, <4>1
    <3>2. CASE j > i
      <4>1. j - 1 \in 1 .. n - 1 /\ ~(j - 1 < i) /\ (j - 1) + 1 = j
        BY <1>1, <3>2
      <4> QED BY <1>2, <2>4, <4>1
    <3> QED BY <1>1, <2>4, <3>1, <3>2
  <2> QED BY <2>1, <2>2, <2>3, <2>4
<1> QED BY <1>5, <1>7, <1>8

\* A thread without its i-th member, when the one before, or the head, names
\* the one after it.
LEMMA Unthreaded ==
  ASSUME NEW g, NEW head, NEW s, Thread(g, head, s), NEW i \in 1 .. Len(s),
         NEW h, DOMAIN h.objs = DOMAIN g.objs,
         NEW to, to = IF i = 1 THEN g.objs[s[1]].next ELSE head,
         \A j \in 1 .. Len(s) : j # i /\ j + 1 # i => h.objs[s[j]].next = g.objs[s[j]].next,
         i > 1 => h.objs[s[i - 1]].next = g.objs[s[i]].next
  PROVE  Thread(h, to, Without(s, i))
<1> DEFINE n == Len(s)
           t == Without(s, i)
<1>1. /\ s \in Seq(DOMAIN g.objs) /\ n \in Nat /\ Distinct(s)
      /\ head = IF s = <<>> THEN Nothing ELSE s[1]
      /\ \A j \in 1 .. n : g.objs[s[j]].next = IF j = n THEN Nothing ELSE s[j + 1]
  BY DEF Thread
<1>2. t \in Seq(DOMAIN h.objs) /\ Len(t) = n - 1 /\ Distinct(t)
  BY <1>1, WithoutIs
<1>3. \A j \in 1 .. n - 1 : t[j] = IF j < i THEN s[j] ELSE s[j + 1]
  BY <1>1 DEF Without
<1>n. n >= 1 /\ i \in Int /\ 1 <= i /\ i <= n
  BY <1>1
<1> HIDE DEF t, n
<1>4. to = IF t = <<>> THEN Nothing ELSE t[1]
  <2>1. t = <<>> <=> n = 1
    BY <1>2, <1>1
  <2>2. CASE i = 1 /\ n = 1
    BY <1>1, <1>n, <2>1, <2>2
  <2>3. CASE i = 1 /\ n # 1
    <3>1. to = s[2]
      BY <1>1, <1>n, <2>3
    <3>2. t[1] = s[2]
      <4>1. 1 \in 1 .. n - 1 /\ ~(1 < i)
        BY <1>1, <1>n, <2>3
      <4> QED BY <1>3, <4>1
    <3> QED BY <2>1, <2>3, <3>1, <3>2
  <2>4. CASE i # 1
    <3>1. n # 1 /\ 1 \in 1 .. n - 1 /\ 1 < i
      BY <1>1, <1>n, <2>4
    <3>2. s # <<>>
      BY <1>1, <1>n DEF n
    <3> QED BY <1>1, <1>3, <2>1, <2>4, <3>1, <3>2
  <2> QED BY <2>2, <2>3, <2>4
<1>5. \A j \in 1 .. n - 1 : h.objs[t[j]].next = IF j = n - 1 THEN Nothing ELSE t[j + 1]
  <2> TAKE j \in 1 .. n - 1
  <2>1. j \in Int /\ j \in 1 .. n /\ j + 1 \in 1 .. n /\ (j # n - 1 => j + 1 \in 1 .. n - 1)
    BY <1>1
  <2>2. CASE j + 1 < i
    <3>1. h.objs[s[j]].next = g.objs[s[j]].next
      BY <1>n, <2>1, <2>2 DEF n
    <3>2. j # n /\ j # n - 1 /\ j < i
      BY <1>1, <1>n, <2>1, <2>2
    <3> QED BY <1>1, <1>3, <2>1, <2>2, <3>1, <3>2
  <2>3. CASE j + 1 = i
    <3>1. t[j] = s[i - 1] /\ i > 1 /\ i - 1 = j
      BY <1>3, <1>n, <2>1, <2>3
    <3>2. h.objs[t[j]].next = IF i = n THEN Nothing ELSE s[i + 1]
      BY <1>1, <3>1
    <3>3. i = n <=> j = n - 1
      BY <1>1, <1>n, <2>3
    <3>4. j # n - 1 => t[j + 1] = s[i + 1]
      BY <1>3, <1>n, <2>1, <2>3
    <3> QED BY <3>2, <3>3, <3>4
  <2>4. CASE j + 1 > i
    <3>1. t[j] = s[j + 1]
      BY <1>3, <1>n, <2>1, <2>4
    <3>2. h.objs[s[j + 1]].next = g.objs[s[j + 1]].next
      <4>1. j + 1 # i /\ (j + 1) + 1 # i
        BY <1>n, <2>1, <2>4
      <4> QED BY <2>1, <4>1 DEF n
    <3>3. j + 1 = n <=> j = n - 1
      BY <1>1, <2>1
    <3>4. j # n - 1 => t[j + 1] = s[(j + 1) + 1]
      BY <1>3, <1>n, <2>1, <2>4
    <3> QED BY <1>1, <2>1, <3>1, <3>2, <3>3, <3>4
  <2> QED BY <1>n, <2>1, <2>2, <2>3, <2>4
<1> QED BY <1>2, <1>4, <1>5 DEF Thread, t


\* A list nobody touches stays as it is.
LEMMA Untouched ==
  ASSUME NEW g, NEW head, NEW s, Thread(g, head, s), NEW h, DOMAIN h.objs = DOMAIN g.objs,
         \A i \in 1 .. Len(s) : h.objs[s[i]].next = g.objs[s[i]].next
  PROVE  Thread(h, head, s)
BY DEF Thread

\* On one list at most: where it is, and of its kind.
LEMMA OneList ==
  ASSUME NEW g \in World, NEW m \in DOMAIN g.objs, NEW r, NEW list \in Lists
  PROVE  m \in Wanted(g, r, list) <=> r = g.objs[m].loc /\ list = ListOf(g.objs[m].type)
BY DEF Wanted, Loc, Type, Exists, ListOf, Lists

\* Unlinked, it is on no list, and the others are where they were.
LEMMA Unlisted ==
  ASSUME NEW g, Sound(g), NEW what \in DOMAIN g.objs
  PROVE  LET out == IF Loc(g, what) = Nothing THEN g
                    ELSE RemoveFromChain(g, Loc(g, what), what)
         IN  \A r \in DOMAIN g.objs, list \in Lists :
                \E s : /\ Thread(out, out.objs[r][list], s)
                       /\ Elems(s) = Awaited(g, r, list) \ {what}
<1> DEFINE out == IF Loc(g, what) = Nothing THEN g
                  ELSE RemoveFromChain(g, Loc(g, what), what)
           c == g.objs[what].loc
           home == ListOf(g.objs[what].type)
           after == g.objs[what].next
<1>0. /\ g \in World /\ c \in DOMAIN g.objs \cup {Nothing}
      /\ \A r \in DOMAIN g.objs, list \in Lists : Listed(g, r, list)
      /\ \A r \in DOMAIN g.objs : g.objs[r] \in Object /\ r \in Int /\ r # Nothing
  BY Typed DEF Sound, Placed
<1>1. Loc(g, what) = c /\ Type(g, what) = g.objs[what].type /\ home \in Lists
  BY DEF Loc, Type, Exists, Lists, ListOf
<1>2. \A list \in Lists : \A r : what \in Wanted(g, r, list) <=> r = c /\ list = home
  BY <1>0, OneList
<1>3. \A list, list2 \in Lists : \A r, r2, m :
          m \in Awaited(g, r, list) /\ m \in Awaited(g, r2, list2) => r = r2 /\ list = list2
  BY <1>0, OneList DEF Awaited, Wanted
<1> SUFFICES ASSUME NEW r \in DOMAIN g.objs, NEW list \in Lists
             PROVE  \E s : /\ Thread(out, out.objs[r][list], s)
                           /\ Elems(s) = Awaited(g, r, list) \ {what}
  OBVIOUS
<1>4. PICK s : Thread(g, g.objs[r][list], s) /\ Elems(s) = Awaited(g, r, list)
  BY <1>0 DEF Listed
<1>5. CASE out = g /\ ~(r = c /\ list = home /\ what \notin g.stranded)
  <2>1. what \notin Awaited(g, r, list)
    BY <1>2, <1>5 DEF Awaited
  <2>2. Awaited(g, r, list) \ {what} = Awaited(g, r, list)
    BY <2>1
  <2> QED BY <1>4, <1>5, <2>2
<1>6. CASE c = Nothing
  <2>1. r # c
    BY <1>0, <1>6
  <2> QED BY <1>1, <1>5, <1>6, <2>1
<1>7. CASE c # Nothing
  <2>0. c \in DOMAIN g.objs
    BY <1>0, <1>7
  <2>1. PICK t : Thread(g, g.objs[c][home], t) /\ Elems(t) = Awaited(g, c, home)
    BY <1>0, <1>1, <2>0 DEF Listed
  <2> DEFINE n == Len(t)
             head == g.objs[c][home]
             before == {x \in Elems(t) : Exists(g, x) /\ g.objs[x].next = what}
             b == CHOOSE x \in before : TRUE
  <2>2. Chain(g, head) = t
    BY <1>0, <2>1, ThreadIsChain
  <2>3. out = IF head = what THEN [g EXCEPT !.objs[c][home] = after]
              ELSE IF before = {} THEN g
              ELSE [g EXCEPT !.objs[b].next = after]
    BY <1>1, <1>7, <2>0, <2>2 DEF RemoveFromChain, Exists
  <2>4. /\ t \in Seq(DOMAIN g.objs) /\ n \in Nat /\ Distinct(t)
        /\ head = IF t = <<>> THEN Nothing ELSE t[1]
        /\ \A i \in 1 .. n : /\ g.objs[t[i]].next = IF i = n THEN Nothing ELSE t[i + 1]
                             /\ t[i] \in DOMAIN g.objs
    BY <2>1 DEF Thread
  <2>5. \A x : x \in Elems(t) <=> \E i \in 1 .. n : t[i] = x
    BY <2>4 DEF Elems
  <2>t. t = <<>> <=> n = 0
    BY <2>4
  <2>6. what # Nothing /\ what \in Int /\ after \in Int
    BY <1>0 DEF Object
  <2> HIDE DEF out, b, n, head, after
  <2>7. CASE what \in g.stranded
    <3>1. what \notin Elems(t)
      BY <2>1, <2>7 DEF Awaited
    <3>2. head # what
      <4>1. t # <<>> => 1 \in 1 .. n
        BY <2>4, <2>t
      <4> QED BY <2>4, <2>5, <2>6, <3>1, <4>1
    <3>3. before = {}
      <4> SUFFICES ASSUME NEW i \in 1 .. n, g.objs[t[i]].next = what PROVE FALSE
        BY <2>5
      <4>1. i # n /\ t[i + 1] = what
        BY <2>4, <2>6
      <4>2. i + 1 \in 1 .. n
        BY <2>4, <4>1
      <4> QED BY <2>5, <3>1, <4>1, <4>2
    <3> QED BY <1>5, <2>3, <2>7, <3>2, <3>3
  <2>8. CASE what \notin g.stranded
    <3>1. PICK i \in 1 .. n : t[i] = what
      <4>1. what \in Elems(t)
        BY <1>1, <1>2, <2>1, <2>8 DEF Awaited
      <4> QED BY <2>5, <4>1
    <3>2. i \in Int /\ n >= 1 /\ n \in Nat /\ t # <<>>
      BY <2>4, <2>t
    <3>3. /\ DOMAIN out.objs = DOMAIN g.objs
          /\ \A m \in DOMAIN g.objs :
                ~(i > 1 /\ m = t[i - 1]) => out.objs[m].next = g.objs[m].next
          /\ \A m \in DOMAIN g.objs, other \in Lists :
                <<m, other>> # <<c, home>> => out.objs[m][other] = g.objs[m][other]
          /\ out.objs[c][home] = IF i = 1 THEN after ELSE head
          /\ i > 1 => out.objs[t[i - 1]].next = after
      <4>1. CASE i = 1
        <5>1. head = what
          BY <2>4, <3>1, <3>2, <4>1
        <5> DEFINE p == [g.objs[c] EXCEPT ![home] = after]
        <5>2. out = [g EXCEPT !.objs[c] = p]
          BY <2>3, <5>1
        <5>3. /\ p[home] = after /\ p.next = g.objs[c].next
              /\ \A other \in Lists : other # home => p[other] = g.objs[c][other]
          <6>1. g.objs[c] \in Object
            BY <1>0, <2>0
          <6>2. Lists = {"contents", "exits"}
            BY DEF Lists
          <6> HIDE DEF home, c
          <6>h. home \in {"contents", "exits"} /\ after \in Int
            BY <1>1, <2>6, <6>2
          <6> DEFINE o == g.objs[c]
          <6> HIDE DEF o
          <6>o. o \in Object
            BY <6>1 DEF o
          <6> DEFINE q == [o EXCEPT ![home] = after]
          <6>3. /\ q[home] = after /\ q.next = o.next
                /\ \A other \in {"contents", "exits"} : other # home => q[other] = o[other]
            <7>1. CASE home = "contents"
              BY <6>o, <7>1 DEF Object
            <7>2. CASE home = "exits"
              BY <6>o, <7>2 DEF Object
            <7> QED BY <6>h, <7>1, <7>2
          <6> QED BY <6>2, <6>3 DEF o
        <5> HIDE DEF p
        <5>4. out.objs = [g.objs EXCEPT ![c] = p]
          BY <1>0, <5>2 DEF World
        <5> QED BY <2>0, <3>2, <4>1, <5>3, <5>4
      <4>2. CASE i # 1
        <5>1. i > 1 /\ i - 1 \in 1 .. n /\ 1 \in 1 .. n
          BY <3>2, <4>2
        <5>2. head # what
          BY <2>4, <3>1, <3>2, <4>2, <5>1 DEF Distinct, n
        <5>3. t[i - 1] \in before
          <6>1. g.objs[t[i - 1]].next = what
            BY <2>4, <3>1, <3>2, <5>1
          <6> QED BY <2>4, <2>5, <5>1, <6>1 DEF Exists
        <5>4. b = t[i - 1]
          <6> SUFFICES ASSUME NEW x \in before PROVE x = t[i - 1]
            <7> HIDE DEF before
            <7> QED BY <5>3 DEF b
          <6>1. PICK j \in 1 .. n : t[j] = x
            BY <2>5
          <6>2. g.objs[t[j]].next = what
            BY <6>1
          <6>3. j # n /\ t[j + 1] = what
            BY <2>4, <2>6, <6>2
          <6>4. j + 1 \in 1 .. n
            BY <2>4, <6>3
          <6>5. j + 1 = i
            BY <2>4, <3>1, <6>3, <6>4 DEF Distinct, n
          <6> QED BY <6>1, <6>5
        <5>5. out = [g EXCEPT !.objs[t[i - 1]].next = after]
          BY <2>3, <5>2, <5>3, <5>4
        <5> DEFINE x == t[i - 1]
                   p == [g.objs[x] EXCEPT !.next = after]
        <5>6. x \in DOMAIN g.objs /\ g.objs[x] \in Object
          BY <1>0, <2>4, <5>1
        <5>7. out = [g EXCEPT !.objs[x] = p]
          BY <5>5
        <5> HIDE DEF x
        <5>8. p.next = after /\ \A other \in Lists : p[other] = g.objs[x][other]
          BY <5>6 DEF Object, Lists
        <5> HIDE DEF p
        <5>9. out.objs = [g.objs EXCEPT ![x] = p]
          BY <1>0, <5>7, SMTT(40) DEF World
        <5> QED BY <2>0, <1>1, <4>2, <5>1, <5>6, <5>8, <5>9 DEF x, head
      <4> QED BY <4>1, <4>2
    <3>4. CASE r = c /\ list = home
      <4>1. Thread(out, out.objs[c][home], Without(t, i))
        <5> DEFINE to == out.objs[c][home]
        <5>1. to = IF i = 1 THEN g.objs[t[1]].next ELSE head
          BY <3>1, <3>3 DEF after
        <5>2. \A j \in 1 .. Len(t) : j # i /\ j + 1 # i => out.objs[t[j]].next = g.objs[t[j]].next
          <6> TAKE j \in 1 .. Len(t)
          <6> SUFFICES ASSUME j # i, j + 1 # i PROVE out.objs[t[j]].next = g.objs[t[j]].next
            OBVIOUS
          <6>1. i > 1 => t[j] # t[i - 1]
            <7>1. i > 1 => i - 1 \in 1 .. n /\ j # i - 1
              BY <3>2 DEF n
            <7> QED BY <2>4, <7>1 DEF Distinct, n
          <6>2. t[j] \in DOMAIN g.objs
            BY <2>4 DEF n
          <6> QED BY <3>3, <6>1, <6>2
        <5>3. i > 1 => out.objs[t[i - 1]].next = g.objs[t[i]].next
          BY <3>1, <3>3 DEF after
        <5>4. i \in 1 .. Len(t) /\ Thread(g, head, t) /\ DOMAIN out.objs = DOMAIN g.objs
          BY <2>1, <3>3 DEF n, head
        <5> HIDE DEF to
        <5>5. Thread(out, to, Without(t, i))
          BY <5>1, <5>2, <5>3, <5>4, Unthreaded
        <5> QED BY <5>5 DEF to
      <4>2. Elems(Without(t, i)) = Elems(t) \ {what}
        BY <2>4, <3>1, WithoutIs DEF n
      <4> QED BY <2>1, <3>4, <4>1, <4>2
    <3>5. CASE ~(r = c /\ list = home)
      <4>1. out.objs[r][list] = g.objs[r][list]
        BY <3>3, <3>5
      <4>2. \A j \in 1 .. Len(s) : out.objs[s[j]].next = g.objs[s[j]].next
        <5> TAKE j \in 1 .. Len(s)
        <5>1. s[j] \in Elems(s) /\ s[j] \in DOMAIN g.objs
          BY <1>4 DEF Thread, Elems
        <5>2. i > 1 => t[i - 1] \in Elems(t)
          <6>1. i > 1 => i - 1 \in 1 .. n
            BY <3>2
          <6> QED BY <2>5, <6>1
        <5>3. i > 1 => s[j] # t[i - 1]
          BY <1>1, <1>3, <1>4, <2>1, <3>5, <5>1, <5>2
        <5> QED BY <3>3, <5>1, <5>3
      <4>3. Thread(out, out.objs[r][list], s)
        BY <1>4, <3>3, <4>1, <4>2, Untouched
      <4>4. what \notin Awaited(g, r, list)
        BY <1>2, <3>5 DEF Awaited
      <4>5. Awaited(g, r, list) \ {what} = Awaited(g, r, list)
        BY <4>4
      <4> QED BY <1>4, <4>3, <4>5
    <3> QED BY <3>4, <3>5
  <2> QED BY <2>7, <2>8
<1> QED BY <1>6, <1>7


\* A list with one member more, at its head.
Onto(x, s) == [j \in 1 .. Len(s) + 1 |-> IF j = 1 THEN x ELSE s[j - 1]]

\* What is put at the head of a list, and names the old head, is its first.
LEMMA Prepended ==
  ASSUME NEW g, NEW head, NEW s, Thread(g, head, s),
         NEW x \in DOMAIN g.objs, x \notin Elems(s),
         NEW h, DOMAIN h.objs = DOMAIN g.objs, h.objs[x].next = head,
         \A i \in 1 .. Len(s) : h.objs[s[i]].next = g.objs[s[i]].next
  PROVE  Thread(h, x, Onto(x, s)) /\ Elems(Onto(x, s)) = Elems(s) \cup {x}
<1> DEFINE n == Len(s)
           t == Onto(x, s)
<1>1. /\ s \in Seq(DOMAIN g.objs) /\ n \in Nat /\ DOMAIN s = 1 .. n
      /\ head = IF s = <<>> THEN Nothing ELSE s[1]
      /\ \A i \in 1 .. n : g.objs[s[i]].next = IF i = n THEN Nothing ELSE s[i + 1]
  BY DEF Thread
<1>d. \A i, j \in 1 .. n : s[i] = s[j] => i = j
  BY DEF Thread, Distinct
<1>e. s = <<>> <=> n = 0
  <2>1. s \in Seq(DOMAIN g.objs)
    BY <1>1
  <2> QED BY <2>1, SMTT(40)
<1>2. t = [j \in 1 .. n + 1 |-> IF j = 1 THEN x ELSE s[j - 1]]
  BY SMTT(40) DEF Onto
<1>n. n \in Nat
  BY <1>1
<1>4. \A i \in 1 .. n : s[i] # x /\ s[i] \in DOMAIN g.objs
  <2> TAKE i \in 1 .. n
  <2>1. i \in DOMAIN s /\ s[i] \in Elems(s)
    <3>1. i \in DOMAIN s
      BY <1>1, Zenon
    <3> HIDE DEF n
    <3> QED BY <3>1, ZenonT(60) DEF Elems
  <2>2. s \in Seq(DOMAIN g.objs)
    BY <1>1
  <2> HIDE DEF n
  <2>3. s[i] \in DOMAIN g.objs
    BY <2>1, <2>2
  <2> QED BY <2>1, <2>3
<1> HIDE DEF t, n
<1>3. \A j \in 1 .. n + 1 : j = 1 \/ (j - 1 \in 1 .. n /\ j # 1)
  BY <1>n
<1>5. t \in [1 .. n + 1 -> DOMAIN h.objs] /\ n + 1 \in Nat
  <2>1. \A j \in 1 .. n + 1 : t[j] \in DOMAIN h.objs
    <3> TAKE j \in 1 .. n + 1
    <3>1. t[j] = IF j = 1 THEN x ELSE s[j - 1]
      BY <1>2
    <3> QED BY <1>3, <1>4, <3>1
  <2> QED BY <1>n, <1>2, <2>1
<1>6. t \in Seq(DOMAIN h.objs) /\ Len(t) = n + 1 /\ DOMAIN t = 1 .. n + 1
  BY <1>5
<1>7. t[1] = x /\ \A i \in 1 .. n : t[i + 1] = s[i]
  <2>1. \A i \in 1 .. n : i + 1 \in 1 .. n + 1 /\ i + 1 # 1 /\ (i + 1) - 1 = i
    BY <1>n
  <2>2. 1 \in 1 .. n + 1
    BY <1>n
  <2> QED BY <1>2, <2>1, <2>2
<1>8. Distinct(t)
  <2> SUFFICES ASSUME NEW i \in 1 .. n + 1, NEW j \in 1 .. n + 1, t[i] = t[j]
               PROVE  i = j
    BY <1>6 DEF Distinct
  <2>1. CASE i = 1 /\ j = 1
    BY <2>1
  <2>2. CASE i = 1 /\ j # 1
    <3>1. t[j] = s[j - 1] /\ t[i] = x /\ j - 1 \in 1 .. n
      BY <1>2, <1>3, <2>2
    <3> QED BY <1>4, <3>1
  <2>3. CASE i # 1 /\ j = 1
    <3>1. t[i] = s[i - 1] /\ t[j] = x /\ i - 1 \in 1 .. n
      BY <1>2, <1>3, <2>3
    <3> QED BY <1>4, <3>1
  <2>4. CASE i # 1 /\ j # 1
    <3>1. s[i - 1] = s[j - 1] /\ i - 1 \in 1 .. n /\ j - 1 \in 1 .. n
      BY <1>2, <1>3, <2>4
    <3>2. i - 1 = j - 1
      BY <1>d, <3>1 DEF n
    <3> QED BY <3>2
  <2> QED BY <2>1, <2>2, <2>3, <2>4
<1>9. \A j \in 1 .. n + 1 : h.objs[t[j]].next = IF j = n + 1 THEN Nothing ELSE t[j + 1]
  <2> TAKE j \in 1 .. n + 1
  <2>1. CASE j = 1
    <3>1. h.objs[t[j]].next = head
      BY <1>7, <2>1
    <3>2. n # 0 => 1 \in 1 .. n
      BY <1>1
    <3>3. n # 0 => t[j + 1] = s[1]
      BY <1>7, <2>1, <3>2
    <3>4. n = 0 <=> j = n + 1
      BY <1>1, <2>1
    <3> QED BY <1>1, <1>e, <3>1, <3>3, <3>4
  <2>2. CASE j # 1
    <3>1. j - 1 \in 1 .. n /\ t[j] = s[j - 1] /\ (j - 1 = n <=> j = n + 1) /\ (j - 1) + 1 = j
      BY <1>1, <1>2, <1>3, <2>2
    <3>2. h.objs[t[j]].next = g.objs[s[j - 1]].next
      BY <3>1 DEF n
    <3>3. j # n + 1 => j \in 1 .. n
      BY <1>1, <2>2
    <3>4. j # n + 1 => t[j + 1] = s[j]
      BY <1>7, <3>3, SMTT(40)
    <3>5. g.objs[s[j - 1]].next = IF j - 1 = n THEN Nothing ELSE s[(j - 1) + 1]
      BY <1>1, <3>1 DEF n
    <3> QED BY <3>1, <3>2, <3>4, <3>5
  <2> QED BY <2>1, <2>2
<1>10. t # <<>>
  BY <1>1, <1>6
<1>11. Thread(h, x, t)
  BY <1>6, <1>7, <1>8, <1>9, <1>10 DEF Thread
<1>12. Elems(t) = Elems(s) \cup {x}
  <2>1. \A y : y \in Elems(t) <=> \E j \in 1 .. n + 1 : t[j] = y
    BY <1>6, SMTT(40) DEF Elems
  <2>2. \A y : y \in Elems(s) <=> \E j \in 1 .. n : s[j] = y
    BY <1>1 DEF Elems, n
  <2>3. ASSUME NEW y, y \in Elems(t) PROVE y \in Elems(s) \cup {x}
    <3>1. PICK j \in 1 .. n + 1 : t[j] = y
      BY <2>1, <2>3
    <3> QED BY <1>2, <1>3, <2>2, <3>1
  <2>4. ASSUME NEW y, y \in Elems(s) \cup {x} PROVE y \in Elems(t)
    <3>1. 1 \in 1 .. n + 1
      BY <1>1
    <3>2. CASE y = x
      BY <1>7, <2>1, <3>1, <3>2
    <3>3. CASE y \in Elems(s)
      <4>1. PICK i \in 1 .. n : s[i] = y
        BY <2>2, <3>3
      <4>2. i + 1 \in 1 .. n + 1
        BY <1>n
      <4> QED BY <1>7, <2>1, <4>1, <4>2
    <3> QED BY <2>4, <3>2, <3>3
  <2> QED BY <2>3, <2>4
<1> QED BY <1>11, <1>12 DEF t

\* A move writes the place and the next of what moves, and one head.
LEMMA MovedLists ==
  ASSUME NEW g \in World, NEW what, NEW dest, MayMove(g, what, dest)
  PROVE  LET out == IF Loc(g, what) = Nothing THEN g
                    ELSE RemoveFromChain(g, Loc(g, what), what)
             list == ListOf(g.objs[what].type)
             h == MoveTo(g, what, dest)
         IN  /\ \A m \in DOMAIN g.objs \ {what} : h.objs[m].next = out.objs[m].next
             /\ h.objs[what].next = IF dest = Nothing THEN Nothing ELSE out.objs[dest][list]
             /\ \A m \in DOMAIN g.objs, other \in Lists :
                   h.objs[m][other] = IF m = dest /\ other = list THEN what
                                      ELSE out.objs[m][other]
<1> DEFINE h == MoveTo(g, what, dest)
           out == IF Loc(g, what) = Nothing THEN g
                  ELSE RemoveFromChain(g, Loc(g, what), what)
           list == ListOf(g.objs[what].type)
           head == IF dest = Nothing THEN Nothing ELSE out.objs[dest][list]
           placed == [out EXCEPT !.objs[what] = [@ EXCEPT !.loc = dest, !.next = head],
                                 !.stranded = @ \ {what}]
<1>1. /\ what \in DOMAIN g.objs
      /\ dest = Nothing \/ (dest \in DOMAIN g.objs /\ dest # what)
      /\ dest \in Int /\ Type(g, what) = g.objs[what].type
      /\ \A m \in DOMAIN g.objs : m # Nothing
  BY Typed DEF MayMove, Exists, Nothing, Type
<1>2. out \in World /\ DOMAIN out.objs = DOMAIN g.objs
  BY RemovedFrame DEF Relisted
<1>3. h = IF dest = Nothing THEN placed ELSE [placed EXCEPT !.objs[dest][list] = what]
  BY <1>1 DEF MoveTo
<1>4. list \in {"contents", "exits"} /\ Lists = {"contents", "exits"}
  BY DEF ListOf, Lists
<1> HIDE DEF out, list, h
<1>5. head \in Int
  <2>1. dest # Nothing => out.objs[dest] \in Object
    BY <1>1, <1>2, Typed
  <2> QED BY <1>4, <2>1 DEF Nothing, Object
<1>h. head = IF dest = Nothing THEN Nothing ELSE out.objs[dest][list]
  OBVIOUS
<1> HIDE DEF head
<1> DEFINE p == [out.objs[what] EXCEPT !.loc = dest, !.next = head]
           moved == [out EXCEPT !.objs[what] = p]
<1>6. p \in Object /\ p.next = head /\ \A other \in Lists : p[other] = out.objs[what][other]
  <2>1. out.objs[what] \in Object
    BY <1>1, <1>2, Typed
  <2> QED BY <1>1, <1>4, <1>5, <2>1 DEF Object
<1>7. placed = [moved EXCEPT !.stranded = @ \ {what}]
  BY <1>1, <1>2 DEF World, Relisted
<1>8. placed.objs = [out.objs EXCEPT ![what] = p] /\ placed \in World
  <2>1. moved \in World
    BY <1>2, <1>6, Written
  <2> HIDE DEF p, placed
  <2>2. moved.objs = [out.objs EXCEPT ![what] = p]
    BY <1>2 DEF World
  <2> HIDE DEF moved
  <2> QED BY <1>7, <2>1, <2>2 DEF World
<1> HIDE DEF p, placed, moved
<1>9. /\ \A m \in DOMAIN g.objs \ {what} : placed.objs[m].next = out.objs[m].next
      /\ placed.objs[what].next = head
      /\ \A m \in DOMAIN g.objs, other \in Lists : placed.objs[m][other] = out.objs[m][other]
      /\ DOMAIN placed.objs = DOMAIN g.objs
  BY <1>1, <1>2, <1>6, <1>8
<1>10. CASE dest = Nothing
  BY <1>1, <1>3, <1>9, <1>10, <1>h DEF h, out, list
<1>11. CASE dest # Nothing
  <2> DEFINE o == placed.objs[dest]
             q == [o EXCEPT ![list] = what]
  <2>1. h = [placed EXCEPT !.objs[dest] = q]
    BY <1>3, <1>11
  <2>2. o \in Object
    BY <1>1, <1>8, <1>9, <1>11, Typed
  <2>3. h.objs = [placed.objs EXCEPT ![dest] = q]
    <3> HIDE DEF q
    <3> QED BY <1>8, <2>1 DEF World
  <2>o. o = placed.objs[dest]
    OBVIOUS
  <2> HIDE DEF o
  <2>4. q.next = o.next /\ q[list] = what /\ \A other \in Lists : other # list => q[other] = o[other]
    <3>1. CASE list = "contents"
      BY <1>4, <2>2, <3>1 DEF Object
    <3>2. CASE list = "exits"
      BY <1>4, <2>2, <3>2 DEF Object
    <3> QED BY <1>4, <3>1, <3>2
  <2> HIDE DEF q
  <2>5. /\ \A m \in DOMAIN g.objs : h.objs[m].next = placed.objs[m].next
        /\ \A m \in DOMAIN g.objs, other \in Lists :
              h.objs[m][other] = IF m = dest /\ other = list THEN what ELSE placed.objs[m][other]
    BY <1>1, <1>9, <1>11, <2>3, <2>4, <2>o
  <2> QED BY <1>1, <1>9, <1>11, <1>h, <2>5 DEF h, out, list
<1> QED BY <1>10, <1>11

\* Every walk outward through a sound world comes to an end.
LEMMA WalksEnd ==
  ASSUME NEW g \in World, Placed(g), NoRing(g), NEW r \in DOMAIN g.objs
  PROVE  LET up == Outward(g, r) IN \E i \in DOMAIN up : up[i] = Nothing
<1> DEFINE up == Outward(g, r)
           n == Cardinality(DOMAIN g.objs)
<1>1. /\ n \in Nat /\ DOMAIN up = 0 .. n /\ up[0] = r
      /\ \A i \in 1 .. n : up[i] = Loc(g, up[i - 1])
  BY OutwardStep
<1>2. /\ IsFiniteSet(DOMAIN g.objs)
      /\ \A x \in DOMAIN g.objs : Loc(g, x) = g.objs[x].loc
      /\ \A x \in DOMAIN g.objs : g.objs[x].loc \in DOMAIN g.objs \cup {Nothing}
  BY Tops DEF Loc, Exists, Placed
<1>n. Cardinality(DOMAIN g.objs) = n
  OBVIOUS
<1> HIDE DEF up, n
<1> SUFFICES ASSUME \A i \in 0 .. n : up[i] # Nothing PROVE FALSE
  BY <1>1 DEF up
<1> DEFINE T == {i \in Nat : i <= n => up[i] \in DOMAIN g.objs}
<1>3. \A i \in 0 .. n : up[i] \in DOMAIN g.objs
  <2>1. 0 \in T
    BY <1>1
  <2>2. ASSUME NEW i \in Nat, i \in T PROVE i + 1 \in T
    <3> SUFFICES ASSUME i + 1 <= n PROVE up[i + 1] \in DOMAIN g.objs
      OBVIOUS
    <3>1. i + 1 \in 1 .. n /\ i + 1 \in 0 .. n /\ (i + 1) - 1 = i /\ i <= n
      BY <1>1
    <3>2. up[i] \in DOMAIN g.objs
      BY <2>2, <3>1
    <3>3. up[i + 1] = Loc(g, up[i]) /\ up[i + 1] # Nothing
      BY <1>1, <3>1
    <3> QED BY <1>2, <3>2, <3>3
  <2>3. \A i \in Nat : i \in T
    <3> HIDE DEF T
    <3> QED BY <2>1, <2>2, GoingOut!Numbers
  <2> QED BY <1>1, <2>3
<1>4. PICK i, j \in 0 .. n : i # j /\ up[i] = up[j]
  <2> DEFINE f == [k \in 0 .. n |-> up[k]]
  <2>1. f \in [0 .. n -> DOMAIN g.objs]
    BY <1>3
  <2>2. IsFiniteSet(0 .. n) /\ Cardinality(0 .. n) = n + 1
    BY <1>1, FS_Interval
  <2> DEFINE D == DOMAIN g.objs
             N == 0 .. n
  <2>3. IsFiniteSet(N) /\ IsFiniteSet(D) /\ Cardinality(D) < Cardinality(N) /\ f \in [N -> D]
    BY <1>1, <1>2, <1>n, <2>1, <2>2
  <2> HIDE DEF f, N, D
  <2>4. \E i, j \in N : i # j /\ f[i] = f[j]
    BY <2>3, FS_PigeonHole
  <2> QED BY <2>4 DEF f, N
<1>5. ASSUME NEW a \in 0 .. n, NEW b \in 0 .. n, a < b, up[a] = up[b] PROVE FALSE
  <2> DEFINE S == {up[k] : k \in a .. b - 1}
  <2>0. a \in Int /\ b \in Int /\ 0 <= a /\ b <= n
    BY <1>1
  <2>1. \A k \in a .. b - 1 : k \in 0 .. n /\ k + 1 \in 1 .. n /\ (k + 1) - 1 = k
    BY <1>1, <1>5, <2>0
  <2>2. S \in SUBSET (DOMAIN g.objs)
    BY <1>3, <2>1
  <2>3. a \in a .. b - 1
    BY <1>5, <2>0
  <2>4. up[a] \in S
    BY <2>3
  <2>5. ASSUME NEW x \in S PROVE g.objs[x].loc \in S
    <3>1. PICK k \in a .. b - 1 : x = up[k]
      BY <2>5
    <3>2. g.objs[x].loc = up[k + 1]
      BY <1>1, <1>2, <1>3, <2>1, <3>1
    <3>3. k + 1 \in a .. b - 1 \/ k + 1 = b
      BY <2>0
    <3> QED BY <1>5, <2>4, <3>2, <3>3
  <2> HIDE DEF S
  <2> QED BY <2>2, <2>4, <2>5 DEF NoRing
<1> QED BY <1>1, <1>4, <1>5

\* A move that is not refused closes no ring.
LEMMA MovedNoRing ==
  ASSUME NEW g \in World, Placed(g), NoRing(g), NEW what, NEW dest, MayMove(g, what, dest),
         NEW h, DOMAIN h.objs = DOMAIN g.objs,
         \A r \in DOMAIN g.objs : h.objs[r].loc = IF r = what THEN dest ELSE g.objs[r].loc
  PROVE  NoRing(h)
<1> SUFFICES ASSUME NEW S \in SUBSET (DOMAIN g.objs), S # {},
                    \A r \in S : h.objs[r].loc \in S
             PROVE  FALSE
  BY DEF NoRing
<1>1. CASE what \notin S
  <2>1. \A r \in S : g.objs[r].loc \in S
    BY <1>1
  <2> QED BY <2>1 DEF NoRing
<1>2. CASE what \in S
  <2>1. dest \in S /\ dest # Nothing
    BY <1>2, Typed
  <2> DEFINE up == Outward(g, dest)
             n == Cardinality(DOMAIN g.objs)
  <2>2. /\ n \in Nat /\ DOMAIN up = 0 .. n /\ up[0] = dest
        /\ \A i \in 1 .. n : up[i] = Loc(g, up[i - 1])
    BY OutwardStep
  <2>3. \A i \in 0 .. n : up[i] = what => up[i] = Nothing
    BY <2>1, <2>2 DEF MayMove, Encloses
  <2>4. \E i \in 0 .. n : up[i] = Nothing
    BY <2>1, <2>2, WalksEnd
  <2> HIDE DEF up, n
  <2>5. \A x \in S : x \in DOMAIN g.objs /\ x # Nothing
    BY Typed
  <2> DEFINE T == {i \in Nat : i <= n => up[i] \in S}
  <2>6. 0 \in T
    BY <2>1, <2>2
  <2>7. ASSUME NEW i \in Nat, i \in T PROVE i + 1 \in T
    <3> SUFFICES ASSUME i + 1 <= n PROVE up[i + 1] \in S
      OBVIOUS
    <3>1. i + 1 \in 1 .. n /\ i \in 0 .. n /\ (i + 1) - 1 = i /\ i <= n
      BY <2>2
    <3>2. up[i] \in S
      BY <2>7, <3>1
    <3>3. up[i] # what
      BY <2>3, <2>5, <3>1, <3>2
    <3>4. up[i + 1] = g.objs[up[i]].loc
      BY <2>2, <2>5, <3>1, <3>2 DEF Loc, Exists
    <3> QED BY <2>5, <3>2, <3>3, <3>4
  <2>8. \A i \in Nat : i \in T
    <3> HIDE DEF T
    <3> QED BY <2>6, <2>7, GoingOut!Numbers
  <2> QED BY <2>2, <2>4, <2>5, <2>8
<1> QED BY <1>1, <1>2

\* What moves is on the list of where it goes, and on no other.
LEMMA MovedListed ==
  ASSUME NEW g, Sound(g), NEW what, NEW dest, MayMove(g, what, dest)
  PROVE  LET h == MoveTo(g, what, dest)
         IN  \A r \in DOMAIN g.objs, list \in Lists : Listed(h, r, list)
<1> DEFINE h == MoveTo(g, what, dest)
           out == IF Loc(g, what) = Nothing THEN g
                  ELSE RemoveFromChain(g, Loc(g, what), what)
           kind == ListOf(g.objs[what].type)
<1>1. /\ g \in World /\ what \in DOMAIN g.objs
      /\ dest = Nothing \/ (dest \in DOMAIN g.objs /\ dest # Nothing)
      /\ \A r \in DOMAIN g.objs : r # Nothing
  BY Typed DEF Sound, MayMove, Exists
<1>2. /\ Relisted(g, h) /\ h.stranded = g.stranded \ {what}
      /\ \A r \in DOMAIN g.objs : h.objs[r].loc = IF r = what THEN dest ELSE g.objs[r].loc
  BY <1>1, MovedFrame
<1>3. /\ \A m \in DOMAIN g.objs \ {what} : h.objs[m].next = out.objs[m].next
      /\ h.objs[what].next = IF dest = Nothing THEN Nothing ELSE out.objs[dest][kind]
      /\ \A m \in DOMAIN g.objs, other \in Lists :
            h.objs[m][other] = IF m = dest /\ other = kind THEN what ELSE out.objs[m][other]
  BY <1>1, MovedLists
<1>4. \A r \in DOMAIN g.objs, list \in Lists :
         \E s : /\ Thread(out, out.objs[r][list], s)
                /\ Elems(s) = Awaited(g, r, list) \ {what}
  BY <1>1, Unlisted
<1>5. DOMAIN out.objs = DOMAIN g.objs
  BY <1>1, RemovedFrame DEF Relisted
<1> HIDE DEF h, out
<1>6. DOMAIN h.objs = DOMAIN g.objs /\ h \in World
  BY <1>2 DEF Relisted
<1>k. kind \in Lists
  BY DEF Lists, ListOf
<1>7. ASSUME NEW r \in DOMAIN g.objs, NEW list \in Lists
      PROVE  Awaited(h, r, list) = (Awaited(g, r, list) \ {what})
                  \cup (IF r = dest /\ list = kind THEN {what} ELSE {})
  <2>1. \A m \in DOMAIN g.objs :
           /\ m \in Wanted(g, r, list) <=> r = g.objs[m].loc /\ list = ListOf(g.objs[m].type)
           /\ m \in Wanted(h, r, list) <=> r = h.objs[m].loc /\ list = ListOf(h.objs[m].type)
           /\ h.objs[m].type = g.objs[m].type
    BY <1>1, <1>2, <1>6, OneList DEF Relisted
  <2>2. Wanted(g, r, list) \subseteq DOMAIN g.objs /\ Wanted(h, r, list) \subseteq DOMAIN g.objs
    BY <1>6 DEF Wanted
  <2>3. \A m \in DOMAIN g.objs \ {what} : m \in Wanted(h, r, list) <=> m \in Wanted(g, r, list)
    BY <1>2, <2>1
  <2>4. what \in Wanted(h, r, list) <=> r = dest /\ list = kind
    BY <1>1, <1>2, <2>1
  <2> QED BY <1>2, <2>2, <2>3, <2>4 DEF Awaited
<1> SUFFICES ASSUME NEW r \in DOMAIN g.objs, NEW list \in Lists PROVE Listed(h, r, list)
  BY DEF h
<1>8. PICK s : /\ Thread(out, out.objs[r][list], s)
               /\ Elems(s) = Awaited(g, r, list) \ {what}
  BY <1>4
<1>9. \A i \in 1 .. Len(s) : h.objs[s[i]].next = out.objs[s[i]].next
  <2> TAKE i \in 1 .. Len(s)
  <2>1. s[i] \in Elems(s) /\ s[i] \in DOMAIN g.objs
    BY <1>5, <1>8 DEF Thread, Elems
  <2> QED BY <1>3, <1>8, <2>1
<1>10. CASE r = dest /\ list = kind
  <2>1. h.objs[what].next = out.objs[r][list] /\ h.objs[r][list] = what
    BY <1>1, <1>3, <1>10, <1>k
  <2>2. what \notin Elems(s) /\ what \in DOMAIN out.objs /\ DOMAIN h.objs = DOMAIN out.objs
    BY <1>1, <1>5, <1>6, <1>8
  <2> DEFINE head == out.objs[r][list]
  <2>3. Thread(out, head, s) /\ h.objs[what].next = head
    BY <1>8, <2>1
  <2> HIDE DEF head
  <2>4. Thread(h, what, Onto(what, s)) /\ Elems(Onto(what, s)) = Elems(s) \cup {what}
    BY <1>9, <2>2, <2>3, Prepended
  <2>5. Elems(Onto(what, s)) = Awaited(h, r, list)
    BY <1>7, <1>8, <1>10, <2>4
  <2> QED BY <2>1, <2>4, <2>5 DEF Listed
<1>11. CASE ~(r = dest /\ list = kind)
  <2>1. h.objs[r][list] = out.objs[r][list]
    BY <1>3, <1>11
  <2>2. Thread(h, out.objs[r][list], s)
    BY <1>5, <1>6, <1>8, <1>9, Untouched
  <2>3. Awaited(h, r, list) = Awaited(g, r, list) \ {what}
    BY <1>7, <1>11
  <2> QED BY <1>8, <2>1, <2>2, <2>3 DEF Listed
<1> QED BY <1>10, <1>11

\* A sound world is sound after a move of what is no garbage.
LEMMA MovedSound ==
  ASSUME NEW g, Sound(g), NEW what, NEW dest, Valid(g, what)
  PROVE  Sound(MoveTo(g, what, dest))
<1> DEFINE h == MoveTo(g, what, dest)
<1>1. CASE ~MayMove(g, what, dest)
  BY <1>1 DEF MoveTo
<1>2. CASE MayMove(g, what, dest)
  <2>1. g \in World /\ Placed(g) /\ NoRing(g)
    BY DEF Sound
  <2>2. /\ Relisted(g, h)
        /\ \A r \in DOMAIN g.objs : h.objs[r].loc = IF r = what THEN dest ELSE g.objs[r].loc
    BY <1>2, <2>1, MovedFrame
  <2>3. \A r \in DOMAIN g.objs, list \in Lists : Listed(h, r, list)
    BY <1>2, MovedListed
  <2> HIDE DEF h
  <2>4. DOMAIN h.objs = DOMAIN g.objs /\ h \in World
        /\ \A r \in DOMAIN g.objs : h.objs[r].type = g.objs[r].type
    BY <2>2 DEF Relisted
  <2>5. NoRing(h)
    BY <1>2, <2>1, <2>2, <2>4, MovedNoRing
  <2>6. Placed(h)
    <3>1. dest \in DOMAIN g.objs \cup {Nothing} /\ g.objs[what].type # "garbage"
      BY <1>2 DEF MayMove, Exists, Valid
    <3> QED BY <2>1, <2>2, <2>4, <3>1 DEF Placed, Type, Exists
  <2> QED BY <2>3, <2>4, <2>5, <2>6 DEF Sound, h
<1> QED BY <1>1, <1>2

\* Who is on a place's lists: whoever is there, but for the stranded.
LEMMA MembersAre ==
  ASSUME NEW g, Sound(g), NEW x \in DOMAIN g.objs
  PROVE  /\ Elems(Contents(g, x)) = Awaited(g, x, "contents")
         /\ \A m : m \in Members(g, x) <=>
                      m \in DOMAIN g.objs /\ g.objs[m].loc = x /\ m \notin g.stranded
<1>0. g \in World /\ \A list \in Lists : Listed(g, x, list)
  BY DEF Sound
<1>1. ASSUME NEW list \in Lists PROVE Elems(Chain(g, g.objs[x][list])) = Awaited(g, x, list)
  <2> DEFINE head == g.objs[x][list]
  <2>1. PICK s : Thread(g, head, s) /\ Elems(s) = Awaited(g, x, list)
    BY <1>0 DEF Listed
  <2> HIDE DEF head
  <2>2. Chain(g, head) = s
    BY <1>0, <2>1, ThreadIsChain
  <2> QED BY <2>1, <2>2 DEF head
<1>2. /\ Elems(Contents(g, x)) = Awaited(g, x, "contents")
      /\ Elems(Exits(g, x)) = Awaited(g, x, "exits")
  <2>1. Elems(Chain(g, g.objs[x]["contents"])) = Awaited(g, x, "contents")
    BY <1>1 DEF Lists
  <2>2. Elems(Chain(g, g.objs[x]["exits"])) = Awaited(g, x, "exits")
    BY <1>1 DEF Lists
  <2> QED BY <2>1, <2>2 DEF Contents, Exits, Exists
<1>3. \A m : m \in Wanted(g, x, "contents") \/ m \in Wanted(g, x, "exits") <=>
                m \in DOMAIN g.objs /\ g.objs[m].loc = x
  BY DEF Wanted, Loc, Exists
<1> QED BY <1>2, <1>3 DEF Members, Awaited

\* Lists that nobody joins or leaves, in a world that threads them as before.
LEMMA StaysListed ==
  ASSUME NEW g, NEW h, NEW r, NEW list, NEW s,
         Thread(g, g.objs[r][list], s), Elems(s) = Awaited(h, r, list),
         DOMAIN g.objs \subseteq DOMAIN h.objs,
         h.objs[r][list] = g.objs[r][list],
         \A m \in Elems(s) : h.objs[m].next = g.objs[m].next
  PROVE  Listed(h, r, list)
<1> DEFINE head == g.objs[r][list]
<1>1. /\ s \in Seq(DOMAIN g.objs) /\ Distinct(s)
      /\ head = IF s = <<>> THEN Nothing ELSE s[1]
      /\ \A i \in 1 .. Len(s) : g.objs[s[i]].next = IF i = Len(s) THEN Nothing ELSE s[i + 1]
  BY DEF Thread
<1> HIDE DEF head
<1>2. \A i \in 1 .. Len(s) : s[i] \in Elems(s)
  BY <1>1 DEF Elems
<1>3. s \in Seq(DOMAIN h.objs)
  <2>1. \A i \in 1 .. Len(s) : s[i] \in DOMAIN g.objs
    BY <1>1
  <2>2. \A i \in 1 .. Len(s) : s[i] \in DOMAIN h.objs
    BY <2>1
  <2>3. Len(s) \in Nat /\ s = [i \in 1 .. Len(s) |-> s[i]]
    BY <1>1
  <2>4. s \in [1 .. Len(s) -> DOMAIN h.objs]
    BY <2>2, <2>3
  <2> QED BY <2>3, <2>4
<1>4. Thread(h, head, s)
  BY <1>1, <1>2, <1>3 DEF Thread
<1> QED BY <1>4 DEF Listed, head

\* What is recycled is on no list and nowhere, and strands what it held.
LEMMA RecycledSound ==
  ASSUME NEW g, Sound(g), FreeExact(g), NEW what, what # Root
  PROVE  Sound(Recycle(g, what))
<1>1. CASE ~Valid(g, what)
  BY <1>1 DEF Recycle
<1>2. CASE Valid(g, what)
  <2> DEFINE out == IF Loc(g, what) = Nothing THEN g
                    ELSE RemoveFromChain(g, Loc(g, what), what)
             h == Recycle(g, what)
             o == GarbageObject(g.objs[what].link)
  <2>1. /\ g \in World /\ Placed(g) /\ NoRing(g) /\ what \in DOMAIN g.objs
        /\ \A r \in DOMAIN g.objs : r # Nothing
    BY <1>2, Typed DEF Sound, Valid, Exists
  <2>2. /\ h \in World /\ Relisted(g, out)
        /\ \A x \in DOMAIN g.objs : out.objs[x].loc = g.objs[x].loc
        /\ h.objs = [out.objs EXCEPT ![what] = o]
        /\ h.stranded = (g.stranded \ {what}) \cup (Members(g, what) \ {what})
    BY <1>2, <2>1, RecycledFrame
  <2>3. \A r \in DOMAIN g.objs, list \in Lists :
           \E s : /\ Thread(out, out.objs[r][list], s)
                  /\ Elems(s) = Awaited(g, r, list) \ {what}
    BY <2>1, Unlisted
  <2>4. o.type = "garbage" /\ o.loc = Nothing /\ o.next = Nothing
        /\ \A list \in Lists : o[list] = Nothing
    BY DEF GarbageObject, NewObject, Lists
  <2> HIDE DEF out, h, o
  <2>5. /\ DOMAIN h.objs = DOMAIN g.objs /\ DOMAIN out.objs = DOMAIN g.objs
        /\ h.objs[what] = o
        /\ \A x \in DOMAIN g.objs \ {what} :
              /\ h.objs[x] = out.objs[x] /\ h.objs[x].loc = g.objs[x].loc
              /\ h.objs[x].type = g.objs[x].type
    BY <2>1, <2>2 DEF Relisted
  <2>6. \A m : m \in Members(g, what) <=>
                  m \in DOMAIN g.objs /\ g.objs[m].loc = what /\ m \notin g.stranded
    BY <2>1, MembersAre
  <2>7. ASSUME NEW r \in DOMAIN g.objs, NEW list \in Lists
        PROVE  Awaited(h, r, list) =
                  IF r = what THEN {} ELSE Awaited(g, r, list) \ {what}
    <3>1. \A m \in DOMAIN g.objs :
             /\ m \in Wanted(g, r, list) <=> r = g.objs[m].loc /\ list = ListOf(g.objs[m].type)
             /\ m \in Wanted(h, r, list) <=> r = h.objs[m].loc /\ list = ListOf(h.objs[m].type)
      BY <2>1, <2>2, <2>5, OneList
    <3>2. Wanted(g, r, list) \subseteq DOMAIN g.objs /\ Wanted(h, r, list) \subseteq DOMAIN g.objs
      BY <2>5 DEF Wanted
    <3>3. what \notin Wanted(h, r, list)
      BY <2>1, <2>4, <2>5, <3>1
    <3>4. \A m \in DOMAIN g.objs \ {what} : m \in Wanted(h, r, list) <=> m \in Wanted(g, r, list)
      BY <2>5, <3>1
    <3>5. \A m \in DOMAIN g.objs \ {what} :
             m \in h.stranded <=> m \in g.stranded \/ g.objs[m].loc = what
      BY <2>2, <2>6
    <3> QED BY <3>1, <3>2, <3>3, <3>4, <3>5 DEF Awaited
  <2>8. ASSUME NEW r \in DOMAIN g.objs, NEW list \in Lists PROVE Listed(h, r, list)
    <3>1. CASE r = what
      <4>1. Thread(h, Nothing, <<>>) /\ Elems(<<>>) = {}
        BY DEF Thread, Distinct, Elems
      <4>2. h.objs[r][list] = Nothing /\ Awaited(h, r, list) = {}
        BY <2>4, <2>5, <2>7, <3>1
      <4> QED BY <4>1, <4>2 DEF Listed
    <3>2. CASE r # what
      <4>1. PICK s : /\ Thread(out, out.objs[r][list], s)
                     /\ Elems(s) = Awaited(g, r, list) \ {what}
        BY <2>3
      <4>2. Elems(s) = Awaited(h, r, list)
        BY <2>7, <3>2, <4>1
      <4>3. \A m \in Elems(s) : h.objs[m].next = out.objs[m].next
        <5>1. Elems(s) \subseteq DOMAIN g.objs \ {what}
          BY <4>1 DEF Awaited, Wanted
        <5> QED BY <2>5, <5>1
      <4>4. h.objs[r][list] = out.objs[r][list]
        BY <2>5, <3>2
      <4> QED BY <2>5, <4>1, <4>2, <4>3, <4>4, StaysListed
    <3> QED BY <3>1, <3>2
  <2>9. NoRing(h)
    <3> SUFFICES ASSUME NEW S \in SUBSET (DOMAIN g.objs), S # {},
                        \A r \in S : h.objs[r].loc \in S
                 PROVE  FALSE
      BY <2>5 DEF NoRing
    <3>1. what \notin S
      BY <2>1, <2>4, <2>5
    <3>2. \A r \in S : g.objs[r].loc \in S
      BY <2>5, <3>1
    <3> QED BY <2>1, <3>2 DEF NoRing
  <2>10. Placed(h)
    BY <2>1, <2>4, <2>5 DEF Placed, Type, Exists
  <2> QED BY <2>2, <2>5, <2>8, <2>9, <2>10 DEF Sound, h
<1> QED BY <1>1, <1>2

\* What is made is nowhere and holds nothing; who was in the garbage whose ref
\* it got is stranded.
LEMMA CreatedSound ==
  ASSUME NEW g, Sound(g), FreeExact(g), NEW t \in Live, NEW owner \in Int
  PROVE  Sound(Create(g, t, owner))
<1> DEFINE h == Create(g, t, owner)
           new == NextRef(g, t).ref
           o == NewObject(t, owner)
<1>1. /\ g \in World /\ Placed(g) /\ NoRing(g)
      /\ \A r \in DOMAIN g.objs : r # Nothing
      /\ \A r \in DOMAIN g.objs, list \in Lists : Listed(g, r, list)
  BY Typed DEF Sound
<1>2. /\ h \in World /\ new \in Nat /\ ~Valid(g, new)
      /\ DOMAIN h.objs = DOMAIN g.objs \cup {new}
      /\ h.objs[new] = o
      /\ \A r \in DOMAIN g.objs \ {new} : h.objs[r] = g.objs[r]
      /\ h.stranded = (g.stranded \ {new}) \cup Members(g, new)
  BY <1>1, CreatedFrame
<1>3. /\ o.loc = Nothing /\ o.next = Nothing /\ o.type = t
      /\ \A list \in Lists : o[list] = Nothing
  BY DEF NewObject, Lists
<1> HIDE DEF h, new, o
<1>4. /\ new # Nothing /\ new # Root
      /\ new \in DOMAIN g.objs => g.objs[new].loc = Nothing
  BY <1>1, <1>2 DEF Valid, Exists, Placed, Type, Nothing
<1>5. \A m : m \in Members(g, new) <=>
                /\ new \in DOMAIN g.objs
                /\ m \in DOMAIN g.objs /\ g.objs[m].loc = new /\ m \notin g.stranded
  <2>1. CASE new \in DOMAIN g.objs
    BY <2>1, MembersAre
  <2>2. CASE new \notin DOMAIN g.objs
    <3>1. Members(g, new) = {}
      BY <2>2 DEF Members, Contents, Exits, Exists, Elems
    <3> QED BY <2>2, <3>1
  <2> QED BY <2>1, <2>2
<1>6. ASSUME NEW r \in DOMAIN h.objs, NEW list \in Lists
      PROVE  Awaited(h, r, list) = IF r = new THEN {} ELSE Awaited(g, r, list)
  <2>1. \A m \in DOMAIN g.objs :
           m \in Wanted(g, r, list) <=> r = g.objs[m].loc /\ list = ListOf(g.objs[m].type)
    BY <1>1, OneList
  <2>2. \A m \in DOMAIN h.objs :
           m \in Wanted(h, r, list) <=> r = h.objs[m].loc /\ list = ListOf(h.objs[m].type)
    BY <1>2, OneList
  <2>3. Wanted(g, r, list) \subseteq DOMAIN g.objs /\ Wanted(h, r, list) \subseteq DOMAIN h.objs
    BY DEF Wanted
  <2>4. r # Nothing
    BY <1>1, <1>2, <1>4
  <2>5. new \notin Wanted(h, r, list) /\ new \notin Wanted(g, r, list)
    BY <1>2, <1>3, <1>4, <2>1, <2>2, <2>3, <2>4
  <2>6. \A m \in DOMAIN g.objs \ {new} : m \in Wanted(h, r, list) <=> m \in Wanted(g, r, list)
    BY <1>2, <2>1, <2>2
  <2>7. \A m \in DOMAIN g.objs \ {new} :
           m \in h.stranded <=> m \in g.stranded \/ g.objs[m].loc = new
    <3>1. \A m \in DOMAIN g.objs : g.objs[m].loc = new => new \in DOMAIN g.objs
      BY <1>1, <1>4 DEF Placed
    <3> QED BY <1>2, <1>5, <3>1
  <2> QED BY <1>2, <2>1, <2>3, <2>5, <2>6, <2>7 DEF Awaited
<1>7. ASSUME NEW r \in DOMAIN h.objs, NEW list \in Lists PROVE Listed(h, r, list)
  <2>1. CASE r = new
    <3>1. Thread(h, Nothing, <<>>) /\ Elems(<<>>) = {}
      BY DEF Thread, Distinct, Elems
    <3>2. h.objs[r][list] = Nothing /\ Awaited(h, r, list) = {}
      BY <1>2, <1>3, <1>6, <2>1
    <3> QED BY <3>1, <3>2 DEF Listed
  <2>2. CASE r # new
    <3>0. r \in DOMAIN g.objs
      BY <1>2, <2>2
    <3>1. PICK s : Thread(g, g.objs[r][list], s) /\ Elems(s) = Awaited(g, r, list)
      BY <1>1, <3>0 DEF Listed
    <3>2. Elems(s) = Awaited(h, r, list)
      BY <1>6, <2>2, <3>1
    <3>3. \A m \in Elems(s) : h.objs[m].next = g.objs[m].next
      <4>1. Elems(s) \subseteq DOMAIN g.objs
        BY <3>1 DEF Awaited, Wanted
      <4>2. new \notin Wanted(h, r, list)
        <5>1. new \in Wanted(h, r, list) => r = h.objs[new].loc
          BY DEF Wanted, Loc, Exists
        <5> QED BY <1>1, <1>2, <1>3, <3>0, <5>1
      <4>3. new \notin Elems(s)
        BY <3>2, <4>2 DEF Awaited
      <4> QED BY <1>2, <4>1, <4>3
    <3>4. h.objs[r][list] = g.objs[r][list] /\ DOMAIN g.objs \subseteq DOMAIN h.objs
      BY <1>2, <2>2, <3>0
    <3> QED BY <3>1, <3>2, <3>3, <3>4, StaysListed
  <2> QED BY <2>1, <2>2
<1>8. NoRing(h)
  <2> SUFFICES ASSUME NEW S \in SUBSET (DOMAIN h.objs), S # {},
                      \A r \in S : h.objs[r].loc \in S
               PROVE  FALSE
    BY DEF NoRing
  <2>1. new \notin S
    BY <1>1, <1>2, <1>3, <1>4
  <2>2. S \in SUBSET (DOMAIN g.objs) /\ \A r \in S : g.objs[r].loc \in S
    BY <1>2, <2>1
  <2> QED BY <1>1, <2>2 DEF NoRing
<1>9. Placed(h)
  <2>1. t # "garbage"
    BY DEF Live
  <2>2. Root \in DOMAIN g.objs /\ g.objs[Root].type = "room"
    BY <1>1 DEF Placed, Type, Exists
  <2>3. Type(h, Root) = "room"
    BY <1>2, <1>4, <2>2 DEF Type, Exists
  <2> QED BY <1>1, <1>2, <1>3, <2>1, <2>3 DEF Placed
<1> QED BY <1>2, <1>7, <1>8, <1>9 DEF Sound, h
===============================================================================
