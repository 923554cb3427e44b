--------------------------- MODULE ConnectionsProofs ---------------------------
(***************************************************************************)
(* Theorems about Connections, for any connections, hosts, players, limits *)
(* and bounds.                                                             *)
(***************************************************************************)
EXTENDS Connections, SequenceTheorems, FiniteSetTheorems, WellFoundedInduction,
        TLAPS

-------------------------------------------------------------------------------
(* Lists of descriptors.                                                   *)

\* There is a least in any set of numbers.
LEMMA LeastOf ==
    ASSUME NEW I \in SUBSET Nat, I # {}
    PROVE  Min(I) \in I /\ \A y \in I : Min(I) <= y
<1>1. \E x \in I : \A y \in I : ~ (<<y, x>> \in OpToRel(<, Nat))
  BY NatLessThanWellFounded, WFMin
<1>2. PICK x \in I : \A y \in I : ~ (<<y, x>> \in OpToRel(<, Nat))
  BY <1>1
<1>3. \A y \in I : x <= y
  <2> SUFFICES ASSUME NEW y \in I, y < x PROVE FALSE
    OBVIOUS
  <2>1. <<y, x>> \in Nat \X Nat
    OBVIOUS
  <2>2. <<y, x>>[1] < <<y, x>>[2]
    OBVIOUS
  <2>3. <<y, x>> \in OpToRel(<, Nat)
    BY <2>1, <2>2, Zenon DEF OpToRel
  <2> QED BY <1>2, <2>3
<1> QED BY <1>3 DEF Min

\* unindex takes exactly the descriptor out of a list that names it once.
LEMMA RemoveFirstOnce ==
    ASSUME NEW S, NEW s \in Seq(S), NEW e, IsInjective(s)
    PROVE  /\ RemoveFirst(s, e) \in Seq(S)
           /\ IsInjective(RemoveFirst(s, e))
           /\ ToSet(RemoveFirst(s, e)) = ToSet(s) \ {e}
<1> DEFINE t == RemoveFirst(s, e)
<1>0. Len(s) \in Nat /\ DOMAIN s = 1..Len(s)
  BY LenProperties
<1>1. CASE \A i \in 1..Len(s) : s[i] # e
  <2>1. t = s
    BY <1>1 DEF RemoveFirst
  <2>2. e \notin ToSet(s)
    BY <1>0, <1>1 DEF ToSet
  <2> QED BY <2>1, <2>2
<1>2. CASE \E i \in 1..Len(s) : s[i] = e
  <2> DEFINE I == {i \in 1..Len(s) : s[i] = e}
             m == Min(I)
  <2>1. m \in 1..Len(s) /\ s[m] = e
    <3>1. I \in SUBSET Nat /\ I # {}
      BY <1>2
    <3>2. m \in I
      BY <3>1, LeastOf
    <3> QED BY <3>2
  <2>2. t = SubSeq(s, 1, m - 1) \o SubSeq(s, m + 1, Len(s))
    <3>1. SelectInSeq(s, LAMBDA v : v = e) = m
      BY <1>2 DEF SelectInSeq
    <3> QED BY <1>2, <3>1 DEF RemoveFirst, RemoveAt
  <2> HIDE DEF m, I
  <2>3. /\ SubSeq(s, 1, m - 1) \in Seq(S) /\ Len(SubSeq(s, 1, m - 1)) = m - 1
        /\ \A k \in 1..(m - 1) : SubSeq(s, 1, m - 1)[k] = s[k]
    <3>1. 1 \in Int /\ m - 1 \in Int /\ \A i \in 1..(m - 1) : s[i] \in S
      BY <1>0, <2>1
    <3> QED BY <1>0, <2>1, <3>1, SubSeqProperties
  <2>4. /\ SubSeq(s, m + 1, Len(s)) \in Seq(S)
        /\ Len(SubSeq(s, m + 1, Len(s))) = Len(s) - m
        /\ \A k \in 1..(Len(s) - m) : SubSeq(s, m + 1, Len(s))[k] = s[m + k]
    <3>1. m + 1 \in Int /\ \A i \in (m + 1)..Len(s) : s[i] \in S
      BY <1>0, <2>1
    <3>2. /\ SubSeq(s, m + 1, Len(s)) \in Seq(S)
          /\ Len(SubSeq(s, m + 1, Len(s)))
                = IF m + 1 <= Len(s) THEN Len(s) - (m + 1) + 1 ELSE 0
          /\ \A k \in 1..(Len(s) - (m + 1) + 1) :
                SubSeq(s, m + 1, Len(s))[k] = s[(m + 1) + k - 1]
      BY <1>0, <3>1, SubSeqProperties
    <3>3. /\ Len(s) - (m + 1) + 1 = Len(s) - m
          /\ \A k \in 1..(Len(s) - m) : (m + 1) + k - 1 = m + k
      BY <1>0, <2>1
    <3>4. (IF m + 1 <= Len(s) THEN Len(s) - (m + 1) + 1 ELSE 0) = Len(s) - m
      <4>1. CASE m + 1 <= Len(s)
        BY <3>3, <4>1
      <4>2. CASE ~(m + 1 <= Len(s))
        <5>1. m \in Nat /\ m <= Len(s) /\ Len(s) \in Nat
          BY <1>0, <2>1
        <5>2. Len(s) = m
          BY <4>2, <5>1
        <5>3. Len(s) - m = 0
          BY <5>1, <5>2
        <5> QED BY <4>2, <5>3
      <4> QED BY <4>1, <4>2
    <3>5. 1..(Len(s) - (m + 1) + 1) = 1..(Len(s) - m)
      BY <3>3
    <3> QED BY <3>2, <3>3, <3>4, <3>5
  <2>5. /\ t \in Seq(S) /\ Len(t) = Len(s) - 1 /\ DOMAIN t = 1..(Len(s) - 1)
        /\ \A k \in 1..(Len(s) - 1) : t[k] = IF k < m THEN s[k] ELSE s[k + 1]
    <3> DEFINE u == SubSeq(s, 1, m - 1)
               v == SubSeq(s, m + 1, Len(s))
    <3>1. u \in Seq(S) /\ v \in Seq(S) /\ Len(u) = m - 1 /\ Len(v) = Len(s) - m
      BY <2>3, <2>4
    <3>2. \A k \in 1..(m - 1) : u[k] = s[k]
      BY <2>3
    <3>3. \A k \in 1..(Len(s) - m) : v[k] = s[m + k]
      BY <2>4
    <3> HIDE DEF u, v, t
    <3>4. t = u \o v
      BY <2>2 DEF u, v
    <3>5. /\ t \in Seq(S) /\ Len(t) = Len(u) + Len(v)
          /\ \A i \in 1..(Len(u) + Len(v)) :
                t[i] = IF i <= Len(u) THEN u[i] ELSE v[i - Len(u)]
      BY <3>1, <3>4, ConcatProperties
    <3>6. Len(u) + Len(v) = Len(s) - 1
      BY <1>0, <2>1, <3>1
    <3>7. ASSUME NEW k \in 1..(Len(s) - 1)
          PROVE  t[k] = IF k < m THEN s[k] ELSE s[k + 1]
      <4>0. t[k] = IF k <= m - 1 THEN u[k] ELSE v[k - (m - 1)]
        <5>1. k \in 1..(Len(u) + Len(v)) /\ Len(u) = m - 1
          BY <3>1, <3>6
        <5> QED BY <3>5, <5>1, Zenon
      <4>1. CASE k < m
        <5>1. k \in 1..(m - 1) /\ k <= m - 1
          BY <1>0, <2>1, <4>1
        <5> QED BY <3>2, <4>0, <4>1, <5>1, Zenon
      <4>2. CASE ~(k < m)
        <5>1. k - (m - 1) \in 1..(Len(s) - m) /\ m + (k - (m - 1)) = k + 1 /\ ~(k <= m - 1)
          BY <1>0, <2>1, <4>2
        <5>2. t[k] = v[k - (m - 1)]
          BY <4>0, <5>1, Zenon
        <5> QED BY <3>3, <4>2, <5>1, <5>2, Zenon
      <4> QED BY <4>1, <4>2
    <3> QED BY <3>5, <3>6, <3>7, LenProperties
  <2> HIDE DEF t
  <2>6. IsInjective(t)
    <3> SUFFICES ASSUME NEW j \in DOMAIN t, NEW k \in DOMAIN t, t[j] = t[k]
                 PROVE  j = k
      BY DEF IsInjective
    <3>0. \A i \in 1..(Len(s) - 1) : /\ (IF i < m THEN i ELSE i + 1) \in 1..Len(s)
                                    /\ t[i] = s[IF i < m THEN i ELSE i + 1]
      BY <1>0, <2>1, <2>5
    <3>1. PICK x \in 1..Len(s) : t[j] = s[x] /\ x = IF j < m THEN j ELSE j + 1
      BY <2>5, <3>0, Zenon
    <3>2. PICK y \in 1..Len(s) : t[k] = s[y] /\ y = IF k < m THEN k ELSE k + 1
      BY <2>5, <3>0, Zenon
    <3>3. x = y
      BY <1>0, <3>1, <3>2 DEF IsInjective
    <3> QED BY <1>0, <2>1, <2>5, <3>1, <3>2, <3>3
  <2>7. \A k \in DOMAIN t : t[k] \in ToSet(s) \ {e}
    <3> TAKE k \in DOMAIN t
    <3>1. PICK i \in 1..Len(s) : t[k] = s[i] /\ i # m
      BY <1>0, <2>1, <2>5
    <3>2. s[i] # s[m]
      BY <1>0, <2>1, <3>1 DEF IsInjective
    <3>3. s[i] \in ToSet(s)
      BY <1>0, <3>1 DEF ToSet
    <3> QED BY <2>1, <3>1, <3>2, <3>3
  <2>8. \A x \in ToSet(s) \ {e} : \E k \in DOMAIN t : t[k] = x
    <3> SUFFICES ASSUME NEW i \in 1..Len(s), s[i] # e
                 PROVE  \E k \in DOMAIN t : t[k] = s[i]
      BY <1>0 DEF ToSet
    <3>1. CASE i < m
      BY <1>0, <2>1, <2>5, <3>1
    <3>2. CASE i > m
      <4>1. i - 1 \in DOMAIN t /\ ~(i - 1 < m) /\ (i - 1) + 1 = i
        BY <1>0, <2>1, <2>5, <3>2
      <4> QED BY <2>5, <4>1
    <3> QED BY <1>0, <2>1, <3>1, <3>2
  <2>9. ToSet(t) = ToSet(s) \ {e}
    <3>1. ToSet(t) \subseteq ToSet(s) \ {e}
      BY <2>7, Zenon DEF ToSet
    <3>2. ToSet(s) \ {e} \subseteq ToSet(t)
      BY <2>8, Zenon DEF ToSet
    <3> QED BY <3>1, <3>2, Zenon
  <2> QED BY <2>5, <2>6, <2>9, Zenon DEF t
<1> QED BY <1>1, <1>2

-------------------------------------------------------------------------------
(* The queue of operations.                                                *)

\* What a goroutine submits comes after what is queued.
LEMMA Submitted ==
    ASSUME ops \in Seq(Ops), NEW e \in Ops, ops' = Append(ops, e)
    PROVE  /\ ops' \in Seq(Ops)
           /\ DOMAIN ops = 1..Len(ops) /\ Len(ops) \in Nat
           /\ DOMAIN ops' = 1..(Len(ops) + 1)
           /\ \A k \in DOMAIN ops : ops'[k] = ops[k]
           /\ ops'[Len(ops) + 1] = e
OBVIOUS

\* What the world handles was the first, and the others move up.
LEMMA Handled ==
    ASSUME ops \in Seq(Ops), NEW w, NEW c, Handles(w, c)
    PROVE  /\ ops' \in Seq(Ops)
           /\ DOMAIN ops = 1..Len(ops) /\ Len(ops) \in Nat
           /\ 1 \in DOMAIN ops /\ ops[1] = Op(w, c)
           /\ DOMAIN ops' = 1..(Len(ops) - 1)
           /\ \A k \in DOMAIN ops' : k + 1 \in DOMAIN ops /\ ops'[k] = ops[k + 1]
<1>1. ops # <<>> /\ Head(ops) = Op(w, c) /\ ops' = Tail(ops)
  BY DEF Handles
<1> QED BY <1>1

\* Where the handler is of a connection whose operation is handled.
LEMMA HeadHandled ==
    ASSUME ops \in Seq(Ops), OpsFollowTheHandler, NEW w, NEW c \in Conn, Handles(w, c)
    PROVE  /\ w = "connect" => at[c] = "connecting" /\ OpsOf(c) = {1}
           /\ w = "line" => at[c] \notin {"away", "handshake", "connecting"}
           /\ w = "disconnect" => at[c] = "gone" /\ OpsOf(c) = {1}
<1>0. Op(w, c).conn = c /\ Op(w, c).what = w
  BY DEF Op
<1>1. 1 \in OpsOf(c) /\ ops[1].what = w
  BY <1>0, Handled DEF OpsOf
<1>2. \A j \in OpsOf(c) : j <= 1 => j = 1
  BY Handled DEF OpsOf
<1> QED BY <1>1, <1>2 DEF OpsFollowTheHandler

-------------------------------------------------------------------------------
(* The gate counts those that are inside.                                  *)

TransOK ==
    /\ at \in [Conn -> ReaderAt] /\ writer \in [Conn -> WriterAt]
    /\ peer \in [Conn -> {"ok", "stuck", "lost"}] /\ sock \in [Conn -> {"open", "shut"}]

GateOK ==
    /\ total \in 0..Total /\ held \in [Host -> 0..PerHost]
    /\ DOMAIN recent \subseteq Host /\ \A h \in DOMAIN recent : recent[h] \in 0..Rate

GateInv == GateOK /\ GateCountsTheLiving /\ FewInside

\* Every step leaves the transport's variables within their types.
LEMMA TransStep ==
    TransOK /\ [Next]_vars => TransOK'
<1> SUFFICES ASSUME TransOK, [Next]_vars PROVE TransOK'
  OBVIOUS
<1> USE DEF ReaderAt, WriterAt
<1>1. CASE UNCHANGED vars
  BY <1>1 DEF TransOK, vars, transVars
<1>2. ASSUME NEW c \in Conn, Reader(c) \/ Dial(c) \/ ReadChunk(c)
      PROVE  TransOK'
  BY <1>2 DEF TransOK, Reader, Dial, ReadChunk, HandshakeFails, Connect, Begin,
     Input, TakeAgain, TakeGivesUp, EndChunk, ReadFails, Depart
<1>3. ASSUME NEW c \in Conn, Writer(c) \/ PeerChanges(c)
      PROVE  TransOK'
  BY <1>3 DEF TransOK, Writer, PeerChanges, TakeLine, WriteOk, WriteFails, Part, Parted
<1>4. ASSUME NEW c \in Conn, Operation(c)
      PROVE  TransOK'
  <2>1. CASE Welcome(c)
    BY <2>1 DEF TransOK, Welcome
  <2>2. CASE Line(c) \/ Disconnect(c)
    BY <2>2 DEF TransOK, Line, Disconnect, transVars
  <2> QED BY <1>4, <2>1, <2>2 DEF Operation
<1>5. ASSUME NEW h \in Host, Age(h) PROVE TransOK'
  BY <1>5 DEF TransOK, Age, transVars
<1>6. ASSUME NEW refill, NEW idle, Tick(refill, idle) PROVE TransOK'
  BY <1>6 DEF TransOK, Tick, transVars
<1> QED BY <1>1, <1>2, <1>3, <1>4, <1>5, <1>6 DEF Next

\* A step that neither brings a connection inside nor lets one out, and leaves
\* the gate alone, keeps its counts right.
LEMMA GateSame ==
    ASSUME GateInv, UNCHANGED gateVars,
           \A c \in Conn : at[c] \in {"away", "gone"} <=> at'[c] \in {"away", "gone"}
    PROVE  GateInv'
<1>1. Inside' = Inside
  BY DEF Inside
<1> QED BY <1>1 DEF GateInv, GateOK, GateCountsTheLiving, FewInside, gateVars

\* One that is admitted counts once more, in all and for its host.
LEMMA GateEnter ==
    ASSUME TransOK, GateInv, NEW c \in Conn, at[c] = "away", Admit(HostOf[c]),
           at' = [at EXCEPT ![c] = "handshake"]
    PROVE  GateInv'
<1> USE ConnectionsAssumption
<1>1. Inside' = Inside \cup {c} /\ c \notin Inside
  BY DEF Inside, TransOK
<1>2. /\ IsFiniteSet(Inside') /\ Cardinality(Inside') = Cardinality(Inside) + 1
  BY <1>1, FS_AddElement DEF GateInv, FewInside
<1>3. ASSUME NEW h \in Host
      PROVE  Cardinality({d \in Inside' : HostOf[d] = h})
                = IF h = HostOf[c] THEN held[h] + 1 ELSE held[h]
  <2> DEFINE I == {d \in Inside : HostOf[d] = h}
             J == {d \in Inside' : HostOf[d] = h}
  <2>1. IsFiniteSet(I) /\ c \notin I /\ Cardinality(I) = held[h]
    BY <1>1, FS_Subset DEF GateInv, FewInside, GateCountsTheLiving
  <2>2. CASE h = HostOf[c]
    <3>1. J = I \cup {c}
      BY <1>1, <2>2
    <3>2. Cardinality(J) = Cardinality(I) + 1
      BY <2>1, <3>1, FS_AddElement
    <3> QED BY <2>1, <2>2, <3>2
  <2>3. CASE h # HostOf[c]
    <3>1. J = I
      BY <1>1, <2>3
    <3> QED BY <2>1, <2>3, <3>1
  <2> QED BY <2>2, <2>3
<1>4. GateOK'
  <2>1. HostOf[c] \in Host /\ Total \in Nat /\ PerHost \in Nat /\ Rate \in Nat
    OBVIOUS
  <2>2. total' \in 0..Total
    BY <2>1 DEF GateInv, GateOK, Admit, Admissible
  <2>3. held' \in [Host -> 0..PerHost]
    BY <2>1 DEF GateInv, GateOK, Admit, Admissible
  <2>4. DOMAIN recent' \subseteq Host /\ \A h \in DOMAIN recent' : recent'[h] \in 0..Rate
    BY <2>1 DEF GateInv, GateOK, Admit, Admissible, RecentOf
  <2> QED BY <2>2, <2>3, <2>4 DEF GateOK
<1>5. total' = Cardinality(Inside')
  BY <1>2 DEF Admit, GateInv, GateCountsTheLiving
<1>6. \A h \in Host : held'[h] = Cardinality({d \in Inside' : HostOf[d] = h})
  BY <1>3 DEF Admit, GateInv, GateOK
<1> QED BY <1>2, <1>4, <1>5, <1>6 DEF GateInv, GateCountsTheLiving, FewInside

\* One that goes gives its slot back, in all and for its host, and both counts
\* had it.
LEMMA GateLeave ==
    ASSUME TransOK, GateInv, NEW c \in Conn, at[c] \notin {"away", "gone"},
           Release(HostOf[c]), at' = [at EXCEPT ![c] = "gone"]
    PROVE  GateInv'
<1> USE ConnectionsAssumption
<1>1. Inside' = Inside \ {c} /\ c \in Inside
  BY DEF Inside, TransOK
<1>2. /\ IsFiniteSet(Inside') /\ Cardinality(Inside') = Cardinality(Inside) - 1
      /\ Cardinality(Inside') \in Nat
  BY <1>1, FS_RemoveElement, FS_CardinalityType DEF GateInv, FewInside
<1>3. ASSUME NEW h \in Host
      PROVE  /\ Cardinality({d \in Inside' : HostOf[d] = h})
                   = IF h = HostOf[c] THEN held[h] - 1 ELSE held[h]
             /\ Cardinality({d \in Inside' : HostOf[d] = h}) \in Nat
  <2> DEFINE I == {d \in Inside : HostOf[d] = h}
             J == {d \in Inside' : HostOf[d] = h}
  <2>1. IsFiniteSet(I) /\ Cardinality(I) = held[h]
    BY <1>1, FS_Subset DEF GateInv, FewInside, GateCountsTheLiving
  <2>2. IsFiniteSet(J)
    BY <1>2, FS_Subset
  <2>3. Cardinality(J) \in Nat
    BY <2>2, FS_CardinalityType
  <2>4. CASE h = HostOf[c]
    <3>1. J = I \ {c} /\ c \in I
      BY <1>1, <2>4
    <3>2. Cardinality(J) = Cardinality(I) - 1
      <4> HIDE DEF I, J
      <4> QED BY <2>1, <3>1, FS_RemoveElement, Zenon
    <3>3. Cardinality(J) = held[h] - 1
      BY <2>1, <3>2
    <3> QED BY <2>3, <2>4, <3>3
  <2>5. CASE h # HostOf[c]
    <3>1. J = I
      BY <1>1, <2>5
    <3> QED BY <2>1, <2>3, <2>5, <3>1
  <2> QED BY <2>4, <2>5
<1>4. total' = Cardinality(Inside')
  BY <1>2 DEF Release, GateInv, GateCountsTheLiving
<1>5. \A h \in Host : held'[h] = Cardinality({d \in Inside' : HostOf[d] = h})
  BY <1>3 DEF Release, GateInv, GateOK
<1>6. GateOK'
  <2>1. HostOf[c] \in Host /\ Total \in Nat /\ PerHost \in Nat /\ Rate \in Nat
    OBVIOUS
  <2>2. total' \in 0..Total
    BY <1>2, <1>4, <2>1 DEF GateInv, GateOK, Release
  <2>3. held' \in [Host -> 0..PerHost]
    <3>1. held[HostOf[c]] - 1 \in Nat
      BY <1>3, <2>1
    <3> QED BY <2>1, <3>1 DEF GateInv, GateOK, Release
  <2>4. DOMAIN recent' \subseteq Host /\ \A h \in DOMAIN recent' : recent'[h] \in 0..Rate
    BY <2>1 DEF GateInv, GateOK, Release
  <2> QED BY <2>2, <2>3, <2>4 DEF GateOK
<1> QED BY <1>2, <1>4, <1>5, <1>6 DEF GateInv, GateCountsTheLiving, FewInside

\* "A caller that is admitted must call Release exactly once": whatever a
\* handler does next, the gate's counts are of those inside.
LEMMA GateStep ==
    TransOK /\ ops \in Seq(Ops) /\ OpsFollowTheHandler /\ GateInv /\ [Next]_vars => GateInv'
<1> SUFFICES ASSUME TransOK, ops \in Seq(Ops), OpsFollowTheHandler, GateInv, [Next]_vars
             PROVE  GateInv'
  OBVIOUS
<1>1. CASE UNCHANGED vars
  BY <1>1, GateSame DEF vars, transVars
<1>2. ASSUME NEW c \in Conn, Dial(c) PROVE GateInv'
  <2>1. CASE Admissible(HostOf[c])
    BY <1>2, <2>1, GateEnter DEF Dial
  <2>2. CASE ~Admissible(HostOf[c])
    <3>1. /\ UNCHANGED gateVars /\ at[c] = "away"
          /\ at' = [at EXCEPT ![c] = "gone"]
      BY <1>2, <2>2 DEF Dial, Admit
    <3> QED BY <3>1, GateSame DEF TransOK
  <2> QED BY <2>1, <2>2
<1>3. ASSUME NEW c \in Conn, Reader(c) \/ ReadChunk(c) PROVE GateInv'
  <2>1. CASE HandshakeFails(c)
    BY <2>1, GateLeave DEF HandshakeFails
  <2>2. CASE Depart(c)
    BY <2>2, GateLeave DEF Depart
  <2>3. CASE \/ Connect(c) \/ Begin(c) \/ Input(c) \/ TakeAgain(c) \/ TakeGivesUp(c)
             \/ EndChunk(c) \/ ReadFails(c) \/ ReadChunk(c)
    <3>1. /\ UNCHANGED gateVars
          /\ \A d \in Conn : at[d] \in {"away", "gone"} <=> at'[d] \in {"away", "gone"}
      BY <2>3 DEF TransOK, Connect, Begin, Input, TakeAgain, TakeGivesUp, EndChunk,
         ReadFails, ReadChunk
    <3> QED BY <3>1, GateSame
  <2> QED BY <1>3, <2>1, <2>2, <2>3 DEF Reader
<1>4. ASSUME NEW c \in Conn, Writer(c) \/ PeerChanges(c) PROVE GateInv'
  <2>1. UNCHANGED <<gateVars, at>>
    BY <1>4 DEF Writer, PeerChanges, TakeLine, WriteOk, WriteFails, Part, Parted
  <2> QED BY <2>1, GateSame
<1>5. ASSUME NEW c \in Conn, Operation(c) PROVE GateInv'
  <2>1. CASE Welcome(c)
    <3>1. UNCHANGED gateVars /\ at' = [at EXCEPT ![c] = "welcomed"]
      BY <2>1 DEF Welcome
    <3>2. at[c] = "connecting"
      BY <2>1, HeadHandled DEF Welcome
    <3> QED BY <3>1, <3>2, GateSame DEF TransOK
  <2>2. CASE Line(c) \/ Disconnect(c)
    <3>1. UNCHANGED <<gateVars, at>>
      BY <2>2 DEF Line, Disconnect, transVars
    <3> QED BY <3>1, GateSame
  <2> QED BY <1>5, <2>1, <2>2 DEF Operation
<1>6. ASSUME NEW h \in Host, Age(h) PROVE GateInv'
  <2>1. Inside' = Inside
    BY <1>6 DEF Age, transVars, Inside
  <2>2. GateOK'
    BY <1>6, ConnectionsAssumption, SMTT(40) DEF GateInv, GateOK, Age, RecentOf
  <2> QED BY <1>6, <2>1, <2>2 DEF GateInv, GateCountsTheLiving, FewInside, Age
<1>7. ASSUME NEW refill, NEW idle, Tick(refill, idle) PROVE GateInv'
  <2>1. UNCHANGED <<gateVars, at>>
    BY <1>7 DEF Tick, transVars
  <2> QED BY <2>1, GateSame
<1> QED BY <1>1, <1>2, <1>3, <1>4, <1>5, <1>6, <1>7 DEF Next

-------------------------------------------------------------------------------
(* The hub's two maps.                                                     *)

HubOK ==
    /\ bound \in [Conn -> Player \cup {Nobody}]
    /\ byID \subseteq Conn /\ byPlayer \in [Player -> Seq(Conn)] /\ program \subseteq Player

HubInv == HubOK /\ HubIndexSound

\* A list that did not have a descriptor has it once when it is put at its end.
LEMMA AppendOnce ==
    ASSUME NEW S, NEW s \in Seq(S), NEW e \in S, IsInjective(s), e \notin ToSet(s)
    PROVE  /\ Append(s, e) \in Seq(S)
           /\ IsInjective(Append(s, e))
           /\ ToSet(Append(s, e)) = ToSet(s) \cup {e}
<1> DEFINE t == Append(s, e)
<1>1. /\ t \in Seq(S) /\ Len(s) \in Nat /\ DOMAIN s = 1..Len(s)
      /\ DOMAIN t = 1..(Len(s) + 1)
      /\ \A k \in DOMAIN s : t[k] = s[k]
      /\ t[Len(s) + 1] = e
  OBVIOUS
<1>2. \A k \in DOMAIN s : s[k] \in ToSet(s) /\ s[k] # e
  BY DEF ToSet
<1> HIDE DEF t
<1>3. IsInjective(t)
  BY <1>1, <1>2 DEF IsInjective
<1>4. ToSet(t) = ToSet(s) \cup {e}
  BY <1>1 DEF ToSet
<1> QED BY <1>1, <1>3, <1>4 DEF t

\* unindex leaves a descriptor in nobody's list, and the others where they are.
LEMMA UnindexedOnce ==
    ASSUME HubInv, NEW c \in Conn
    PROVE  /\ Unindexed(c) \in [Player -> Seq(Conn)]
           /\ \A p \in Player : /\ IsInjective(Unindexed(c)[p])
                                /\ ToSet(Unindexed(c)[p]) = On(p) \ {c}
<1> USE ConnectionsAssumption
<1>1. \A p \in Player : /\ byPlayer[p] \in Seq(Conn) /\ IsInjective(byPlayer[p])
                        /\ (c \in On(p) => bound[c] = p)
  BY DEF HubInv, HubOK, HubIndexSound
<1>2. CASE bound[c] = Nobody
  <2>1. Unindexed(c) = byPlayer
    BY <1>2 DEF Unindexed
  <2>2. \A p \in Player : c \notin On(p)
    BY <1>1, <1>2
  <2>3. \A p \in Player : ToSet(byPlayer[p]) = On(p) \ {c}
    BY <2>2 DEF On
  <2> QED BY <1>1, <2>1, <2>3 DEF HubInv, HubOK
<1>3. CASE bound[c] # Nobody
  <2> DEFINE q == bound[c]
             r == RemoveFirst(byPlayer[q], c)
  <2>1. q \in Player
    BY <1>3 DEF HubInv, HubOK
  <2>2. Unindexed(c) = [byPlayer EXCEPT ![q] = r]
    BY <1>3 DEF Unindexed
  <2>3. r \in Seq(Conn) /\ IsInjective(r) /\ ToSet(r) = ToSet(byPlayer[q]) \ {c}
    BY <1>1, <2>1, RemoveFirstOnce
  <2> HIDE DEF r
  <2>4. ASSUME NEW p \in Player, p # q PROVE ToSet(byPlayer[p]) = On(p) \ {c}
    BY <1>1, <2>4 DEF On
  <2>5. ToSet(r) = On(q) \ {c}
    BY <2>3 DEF On
  <2>6. Unindexed(c) \in [Player -> Seq(Conn)]
    BY <2>2, <2>3 DEF HubInv, HubOK
  <2>7. \A p \in Player : Unindexed(c)[p] = IF p = q THEN r ELSE byPlayer[p]
    BY <2>2 DEF HubInv, HubOK
  <2> QED BY <1>1, <2>3, <2>4, <2>5, <2>6, <2>7
<1> QED BY <1>2, <1>3

\* Unbinding, binding, or taking out of the hub leaves the maps in agreement,
\* with the descriptor where it was put and nowhere else.
LEMMA BindKeeps ==
    ASSUME HubInv, NEW c \in Conn, NEW p \in Player, Bind(c, p), UNCHANGED <<byID, program>>
    PROVE  /\ HubInv'
           /\ \A d \in Conn \ {c} : (InHub(d)' => InHub(d)) /\ bound'[d] = bound[d]
<1> USE ConnectionsAssumption
<1> DEFINE u == Unindexed(c)
<1>1. u \in [Player -> Seq(Conn)] /\ \A q \in Player : IsInjective(u[q]) /\ ToSet(u[q]) = On(q) \ {c}
  BY UnindexedOnce
<1> HIDE DEF u
<1>2. /\ Append(u[p], c) \in Seq(Conn) /\ IsInjective(Append(u[p], c))
      /\ ToSet(Append(u[p], c)) = ToSet(u[p]) \cup {c}
  BY <1>1, AppendOnce
<1>3. byPlayer' = [u EXCEPT ![p] = Append(u[p], c)] /\ bound' = [bound EXCEPT ![c] = p]
  BY DEF Bind, u
<1>4. \A q \in Player : byPlayer'[q] = IF q = p THEN Append(u[p], c) ELSE u[q]
  BY <1>1, <1>3
<1>5. ASSUME NEW q \in Player
      PROVE  /\ byPlayer'[q] \in Seq(Conn) /\ IsInjective(byPlayer'[q])
             /\ ToSet(byPlayer'[q]) = IF q = p THEN On(q) \cup {c} ELSE On(q) \ {c}
  BY <1>1, <1>2, <1>4 DEF On
<1>6. HubOK'
  BY <1>1, <1>3, <1>5 DEF HubInv, HubOK
<1>7. \A d \in Conn : bound'[d] = IF d = c THEN p ELSE bound[d]
  BY <1>3 DEF HubInv, HubOK
<1>8. HubIndexSound'
  <2>1. ASSUME NEW q \in Player, NEW d \in ToSet(byPlayer'[q]) PROVE bound'[d] = q
    <3>1. d \in Conn
      BY <1>5, <2>1 DEF On, ToSet
    <3>2. d \in On(q) => bound[d] = q
      BY DEF HubInv, HubIndexSound
    <3>3. IF q = p THEN d \in On(q) \/ d = c ELSE d \in On(q) /\ d # c
      BY <1>5, <2>1
    <3> QED BY <1>7, <3>1, <3>2, <3>3
  <2>2. ASSUME NEW d \in byID', bound'[d] # Nobody PROVE d \in ToSet(byPlayer'[bound'[d]])
    <3>1. d \in Conn /\ d \in byID
      BY <2>2 DEF HubInv, HubOK
    <3>2. CASE d = c
      BY <1>5, <1>7, <3>1, <3>2
    <3>3. CASE d # c
      <4>1. bound'[d] = bound[d] /\ bound[d] \in Player /\ d \in On(bound[d])
        BY <1>7, <2>2, <3>1, <3>3 DEF HubInv, HubOK, HubIndexSound
      <4> QED BY <1>5, <3>3, <4>1
    <3> QED BY <3>2, <3>3
  <2> QED BY <1>5, <2>1, <2>2 DEF HubIndexSound, On
<1>9. \A d \in Conn \ {c} : InHub(d)' => InHub(d)
  BY <1>5 DEF InHub, On
<1> QED BY <1>6, <1>7, <1>8, <1>9 DEF HubInv

\* The same of what takes a descriptor from its player's list, and unbinds it
\* or takes it out of the hub altogether.
LEMMA UnindexKeeps ==
    ASSUME HubInv, NEW c \in Conn, byPlayer' = Unindexed(c), program' \subseteq Player,
           \/ UNCHANGED byID /\ bound' = [bound EXCEPT ![c] = Nobody]
           \/ byID' = byID \ {c} /\ UNCHANGED bound
    PROVE  /\ HubInv'
           /\ \A d \in Conn : (InHub(d)' => InHub(d)) /\ (d # c => bound'[d] = bound[d])
           /\ c \notin byID' => ~InHub(c)'
<1> USE ConnectionsAssumption
<1>1. /\ byPlayer' \in [Player -> Seq(Conn)]
      /\ \A q \in Player : IsInjective(byPlayer'[q]) /\ ToSet(byPlayer'[q]) = On(q) \ {c}
  BY UnindexedOnce DEF On
<1>2. HubOK'
  BY <1>1 DEF HubInv, HubOK
<1>3. \A d \in Conn : /\ d # c => bound'[d] = bound[d]
                      /\ d \in byID' => d \in byID /\ (d = c => bound'[d] = Nobody)
  BY DEF HubInv, HubOK
<1>4. HubIndexSound'
  <2>1. ASSUME NEW q \in Player, NEW d \in ToSet(byPlayer'[q]) PROVE bound'[d] = q
    <3>1. byPlayer[q] \in Seq(Conn)
      BY DEF HubInv, HubOK
    <3>2. d \in On(q) /\ d # c
      BY <1>1, <2>1
    <3>3. d \in Conn
      BY <3>1, <3>2 DEF On, ToSet
    <3> QED BY <1>3, <3>2, <3>3 DEF HubInv, HubIndexSound
  <2>2. ASSUME NEW d \in byID', bound'[d] # Nobody PROVE d \in ToSet(byPlayer'[bound'[d]])
    <3>1. d \in Conn
      BY <1>2, <2>2 DEF HubOK
    <3>2. d # c /\ d \in byID /\ bound'[d] = bound[d]
      BY <1>3, <2>2, <3>1
    <3>3. bound[d] \in Player /\ d \in On(bound[d])
      BY <2>2, <3>1, <3>2 DEF HubInv, HubOK, HubIndexSound
    <3> QED BY <1>1, <3>2, <3>3
  <2> QED BY <1>1, <2>1, <2>2 DEF HubIndexSound, On
<1>5. \A d \in Conn : InHub(d)' => InHub(d)
  BY <1>1, <1>3 DEF InHub, On
<1>6. c \notin byID' => ~InHub(c)'
  BY <1>1 DEF InHub, On
<1> QED BY <1>2, <1>3, <1>4, <1>5, <1>6 DEF HubInv

\* What a line does to the hub: it may list its own connection, and otherwise
\* lists nobody who was in neither map.
LEMMA LineKeeps ==
    ASSUME HubInv, NEW c \in Conn, Line(c)
    PROVE  /\ HubInv'
           /\ \A d \in Conn \ {c} : /\ InHub(d)' => InHub(d)
                                    /\ InHub(d) \/ bound'[d] = bound[d]
<1> USE ConnectionsAssumption
<1> DEFINE Goal == /\ HubInv'
                   /\ \A d \in Conn \ {c} : /\ InHub(d)' => InHub(d)
                                            /\ InHub(d) \/ bound'[d] = bound[d]
<1>1. ASSUME UNCHANGED <<byID, byPlayer, bound>>, program' \subseteq Player PROVE Goal
  BY <1>1 DEF HubInv, HubOK, HubIndexSound, InHub, On
<1> HIDE DEF Goal
<1>2. CASE Login(c)
  <2>1. CASE UNCHANGED <<byPlayer, bound>>
    BY <1>1, <1>2, <2>1 DEF Login, HubInv, HubOK, Goal
  <2>2. ASSUME NEW p \in Player, Bind(c, p) PROVE Goal
    BY <1>2, <2>2, BindKeeps DEF Login, Goal
  <2> QED BY <1>2, <2>1, <2>2 DEF Login, Goal
<1>3. CASE Quit(c) \/ \E p \in Player : Tell(p) \/ Boot(p)
  BY <1>1, <1>3 DEF Quit, Tell, Boot, hubVars, HubInv, HubOK, Goal
<1>4. ASSUME NEW d \in Conn, DescrBoot(d) PROVE Goal
  <2>1. /\ byPlayer' = Unindexed(d) /\ byID' = byID \ {d} /\ UNCHANGED <<bound, program>>
    BY <1>4 DEF DescrBoot, RemoveFromHub
  <2> QED BY <2>1, UnindexKeeps DEF HubInv, HubOK, Goal
<1>5. ASSUME NEW d \in Conn, NEW p \in Player \cup {Nobody}, SetUser(d, p) PROVE Goal
  <2>1. UNCHANGED <<byID, program>> /\ InHub(d)
    BY <1>5 DEF SetUser, InHub
  <2>2. CASE p = Nobody
    <3>1. byPlayer' = Unindexed(d) /\ bound' = [bound EXCEPT ![d] = Nobody]
      BY <1>5, <2>2 DEF SetUser, Unbind
    <3> QED BY <2>1, <3>1, UnindexKeeps DEF HubInv, HubOK, Goal
  <2>3. CASE p # Nobody
    <3>1. Bind(d, p) /\ p \in Player
      BY <1>5, <2>3 DEF SetUser
    <3> QED BY <2>1, <3>1, BindKeeps DEF Goal
  <2> QED BY <2>2, <2>3
<1>6. CASE /\ bound[c] # Nobody /\ program' = program \cup {bound[c]}
           /\ UNCHANGED <<out, closed, bye, byID, byPlayer, bound>>
  BY <1>1, <1>6 DEF HubInv, HubOK, Goal
<1> QED BY <1>2, <1>3, <1>4, <1>5, <1>6 DEF Line, Goal

-------------------------------------------------------------------------------
(* The queue's operations follow the handlers.                             *)

Neutral == ReaderAt \ {"away", "handshake", "connecting", "gone"}

\* OpsFollowTheHandler, of one connection.
Follows(c) ==
    /\ at[c] \in {"away", "handshake"} => OpsOf(c) = {}
    /\ at[c] \in {"away", "handshake", "connecting"} => ~InHub(c) /\ bound[c] = Nobody
    /\ \A k \in OpsOf(c) :
          /\ ops[k].what = "connect" => at[c] = "connecting" /\ OpsOf(c) = {k}
          /\ ops[k].what = "line" => at[c] # "connecting"
          /\ ops[k].what = "disconnect" =>
                at[c] = "gone" /\ \A j \in OpsOf(c) : j <= k
          /\ at[c] = "gone" =>
                \E j \in OpsOf(c) : j >= k /\ ops[j].what = "disconnect"
    /\ InHub(c) /\ at[c] = "gone" =>
          \E j \in OpsOf(c) : ops[j].what = "disconnect"

\* With the queue as it was, nothing changes for a connection whose handler
\* stays, or goes on without an operation.
LEMMA FollowsKept ==
    ASSUME NEW x \in Conn, Follows(x), UNCHANGED ops,
           InHub(x)' => InHub(x), bound'[x] = bound[x] \/ InHub(x),
           at'[x] = at[x] \/ (at[x] \in Neutral /\ at'[x] \in Neutral)
    PROVE  Follows(x)'
<1>1. OpsOf(x)' = OpsOf(x)
  BY DEF OpsOf
<1> QED BY <1>1 DEF Follows, Neutral

\* Nor does it when an operation of another connection is queued.
LEMMA FollowsSubmitted ==
    ASSUME NEW x \in Conn, Follows(x), ops \in Seq(Ops), NEW e \in Ops,
           ops' = Append(ops, e), e.conn # x,
           InHub(x)' => InHub(x), bound'[x] = bound[x], at'[x] = at[x]
    PROVE  Follows(x)'
<1>1. OpsOf(x)' = OpsOf(x)
  BY Submitted DEF OpsOf
<1>2. \A k \in OpsOf(x) : ops'[k] = ops[k]
  BY Submitted DEF OpsOf
<1>3. \A k \in OpsOf(x) :
          /\ ops'[k].what = "connect" => at'[x] = "connecting" /\ OpsOf(x) = {k}
          /\ ops'[k].what = "line" => at'[x] # "connecting"
          /\ ops'[k].what = "disconnect" =>
                at'[x] = "gone" /\ \A j \in OpsOf(x) : j <= k
  BY <1>2 DEF Follows
<1>4. ASSUME NEW k \in OpsOf(x), at'[x] = "gone"
      PROVE  \E j \in OpsOf(x) : j >= k /\ ops'[j].what = "disconnect"
  <2>1. PICK j \in OpsOf(x) : j >= k /\ ops[j].what = "disconnect"
    BY <1>4 DEF Follows
  <2> QED BY <1>2, <2>1
<1>5. InHub(x)' /\ at'[x] = "gone" => \E j \in OpsOf(x) : ops'[j].what = "disconnect"
  BY <1>2 DEF Follows
<1>6. /\ at'[x] \in {"away", "handshake"} => OpsOf(x)' = {}
      /\ at'[x] \in {"away", "handshake", "connecting"} => ~InHub(x)' /\ bound'[x] = Nobody
  BY <1>1 DEF Follows
<1>7. \A k \in OpsOf(x)' :
          at'[x] = "gone" => \E j \in OpsOf(x)' : j >= k /\ ops'[j].what = "disconnect"
  BY <1>1, <1>4
<1>8. \A k \in OpsOf(x)' :
          /\ ops'[k].what = "connect" => at'[x] = "connecting" /\ OpsOf(x)' = {k}
          /\ ops'[k].what = "line" => at'[x] # "connecting"
          /\ ops'[k].what = "disconnect" =>
                at'[x] = "gone" /\ \A j \in OpsOf(x)' : j <= k
  BY <1>1, <1>3
<1>9. InHub(x)' /\ at'[x] = "gone" => \E j \in OpsOf(x)' : ops'[j].what = "disconnect"
  BY <1>1, <1>5
<1> QED BY <1>6, <1>7, <1>8, <1>9 DEF Follows

\* Nor when one of another is handled, or a line of its own: a disconnection
\* still to come is not what was handled.
LEMMA FollowsHandled ==
    ASSUME NEW x \in Conn, Follows(x), ops \in Seq(Ops), NEW w, NEW d, Handles(w, d),
           d # x \/ w = "line",
           InHub(x)' => InHub(x) \/ d = x,
           bound'[x] = bound[x] \/ InHub(x) \/ d = x, at'[x] = at[x]
    PROVE  Follows(x)'
<1>1. /\ DOMAIN ops = 1..Len(ops) /\ Len(ops) \in Nat /\ 1 \in DOMAIN ops
      /\ DOMAIN ops' = 1..(Len(ops) - 1)
      /\ \A k \in DOMAIN ops' : k + 1 \in DOMAIN ops /\ ops'[k] = ops[k + 1]
  BY Handled
<1>2. ops[1].conn = d /\ ops[1].what = w
  <2>1. Op(w, d).conn = d /\ Op(w, d).what = w
    BY DEF Op
  <2> QED BY <2>1, Handled
<1>3. \A k \in OpsOf(x)' : k \in Nat /\ k + 1 \in OpsOf(x) /\ ops'[k] = ops[k + 1]
  BY <1>1 DEF OpsOf
<1>4. ASSUME NEW j \in OpsOf(x), ops[j].what = "disconnect"
      PROVE  j - 1 \in OpsOf(x)' /\ ops'[j - 1] = ops[j] /\ j \in Nat
  <2>1. j # 1 /\ j \in 1..Len(ops) /\ ops[j].conn = x
    BY <1>1, <1>2, <1>4 DEF OpsOf
  <2>2. j - 1 \in DOMAIN ops' /\ (j - 1) + 1 = j
    BY <1>1, <2>1
  <2> QED BY <1>1, <2>1, <2>2 DEF OpsOf
<1>5. d = x => at[x] \notin {"away", "handshake", "connecting"}
  BY <1>1, <1>2 DEF Follows, OpsOf
<1>6. d = x /\ at[x] = "gone" => \E j \in OpsOf(x) : ops[j].what = "disconnect"
  BY <1>1, <1>2 DEF Follows, OpsOf
<1>7. at'[x] \in {"away", "handshake"} => OpsOf(x)' = {}
  BY <1>3 DEF Follows
<1>8. at'[x] \in {"away", "handshake", "connecting"} => ~InHub(x)' /\ bound'[x] = Nobody
  BY <1>5 DEF Follows
<1>9. InHub(x)' /\ at'[x] = "gone" => \E j \in OpsOf(x)' : ops'[j].what = "disconnect"
  BY <1>4, <1>6 DEF Follows
<1>10. ASSUME NEW k \in OpsOf(x)'
       PROVE  /\ ops'[k].what = "connect" => at'[x] = "connecting" /\ OpsOf(x)' = {k}
              /\ ops'[k].what = "line" => at'[x] # "connecting"
              /\ ops'[k].what = "disconnect" =>
                    at'[x] = "gone" /\ \A j \in OpsOf(x)' : j <= k
              /\ at'[x] = "gone" =>
                    \E j \in OpsOf(x)' : j >= k /\ ops'[j].what = "disconnect"
  <2>1. k \in Nat /\ k + 1 \in OpsOf(x) /\ ops'[k] = ops[k + 1]
    BY <1>3
  <2>2. ops'[k].what = "connect" => at'[x] = "connecting" /\ OpsOf(x)' = {k}
    <3> SUFFICES ASSUME ops'[k].what = "connect"
                 PROVE  at'[x] = "connecting" /\ \A j \in OpsOf(x)' : j = k
      OBVIOUS
    <3>1. at[x] = "connecting" /\ OpsOf(x) = {k + 1}
      BY <2>1 DEF Follows
    <3>2. \A j \in OpsOf(x)' : j \in Nat /\ j + 1 = k + 1
      BY <1>3, <3>1
    <3> QED BY <2>1, <3>1, <3>2
  <2>3. ops'[k].what = "line" => at'[x] # "connecting"
    BY <2>1 DEF Follows
  <2>4. ops'[k].what = "disconnect" => at'[x] = "gone" /\ \A j \in OpsOf(x)' : j <= k
    <3> SUFFICES ASSUME ops'[k].what = "disconnect"
                 PROVE  at'[x] = "gone" /\ \A j \in OpsOf(x)' : j <= k
      OBVIOUS
    <3>1. at[x] = "gone" /\ \A j \in OpsOf(x) : j <= k + 1
      BY <2>1 DEF Follows
    <3>2. \A j \in OpsOf(x)' : j \in Nat /\ j + 1 <= k + 1
      BY <1>3, <3>1
    <3> QED BY <2>1, <3>1, <3>2
  <2>5. at'[x] = "gone" => \E j \in OpsOf(x)' : j >= k /\ ops'[j].what = "disconnect"
    <3> SUFFICES ASSUME at[x] = "gone"
                 PROVE  \E j \in OpsOf(x)' : j >= k /\ ops'[j].what = "disconnect"
      OBVIOUS
    <3>1. PICK j \in OpsOf(x) : j >= k + 1 /\ ops[j].what = "disconnect"
      BY <2>1 DEF Follows
    <3>2. j - 1 \in OpsOf(x)' /\ ops'[j - 1] = ops[j] /\ j \in Nat
      BY <1>4, <3>1
    <3>3. j - 1 >= k
      BY <2>1, <3>1, <3>2
    <3> QED BY <3>1, <3>2, <3>3
  <2> QED BY <2>2, <2>3, <2>4, <2>5
<1> QED BY <1>7, <1>8, <1>9, <1>10 DEF Follows

\* What a connection's own handler submits.
LEMMA FollowsOwn ==
    ASSUME NEW c \in Conn, Follows(c), ops \in Seq(Ops), NEW w,
           w \in {"connect", "line", "disconnect"},
           ops' = Append(ops, Op(w, c)), UNCHANGED hubVars,
           \/ w = "connect" /\ at[c] = "handshake" /\ at'[c] = "connecting"
           \/ w = "line" /\ at[c] \in Neutral /\ at'[c] \in Neutral
           \/ w = "disconnect" /\ at[c] \in Neutral /\ at'[c] = "gone"
    PROVE  Follows(c)'
<1> DEFINE n == Len(ops) + 1
<1>1. Op(w, c) \in Ops /\ Op(w, c).conn = c /\ Op(w, c).what = w
  BY DEF Op, Ops
<1>2. /\ DOMAIN ops = 1..Len(ops) /\ Len(ops) \in Nat /\ DOMAIN ops' = 1..n
      /\ \A k \in DOMAIN ops : ops'[k] = ops[k]
      /\ ops'[n] = Op(w, c)
  BY <1>1, Submitted
<1> HIDE DEF n
<1>3. /\ OpsOf(c)' = OpsOf(c) \cup {n} /\ ops'[n].what = w
      /\ \A k \in OpsOf(c) : ops'[k] = ops[k] /\ k \in Nat /\ k <= n
      /\ n \in Nat
  BY <1>1, <1>2 DEF OpsOf, n
<1>4. InHub(c)' = InHub(c) /\ bound'[c] = bound[c]
  BY DEF InHub, On, hubVars
<1>5. CASE w = "connect" /\ at[c] = "handshake" /\ at'[c] = "connecting"
  <2>1. OpsOf(c) = {} /\ ~InHub(c) /\ bound[c] = Nobody
    BY <1>5 DEF Follows
  <2> QED BY <1>3, <1>4, <1>5, <2>1 DEF Follows
<1>6. CASE w = "line" /\ at[c] \in Neutral /\ at'[c] \in Neutral
  <2>1. \A k \in OpsOf(c) : ops[k].what # "connect" /\ ops[k].what # "disconnect"
    BY <1>6 DEF Follows, Neutral
  <2> QED BY <1>3, <1>4, <1>6, <2>1 DEF Follows, Neutral
<1>7. CASE w = "disconnect" /\ at[c] \in Neutral /\ at'[c] = "gone"
  <2>1. \A k \in OpsOf(c) : ops[k].what # "connect" /\ ops[k].what # "disconnect"
    BY <1>7 DEF Follows, Neutral
  <2>2. ASSUME NEW k \in OpsOf(c)'
        PROVE  /\ ops'[k].what # "connect" /\ (ops'[k].what = "disconnect" => k = n)
               /\ k <= n /\ n >= k
    <3>1. CASE k = n
      <4>1. ops'[n].what = "disconnect" /\ n <= n /\ n >= n
        BY <1>3, <1>7
      <4> QED BY <3>1, <4>1
    <3>2. CASE k \in OpsOf(c)
      BY <1>3, <2>1, <3>2
    <3> QED BY <1>3, <3>1, <3>2
  <2>3. n \in OpsOf(c)' /\ ops'[n].what = "disconnect"
    BY <1>3, <1>7
  <2>4. at'[c] \notin {"away", "handshake", "connecting"}
    BY <1>7
  <2> QED BY <1>7, <2>2, <2>3, <2>4 DEF Follows
<1> QED BY <1>5, <1>6, <1>7

\* The operations queued follow the handlers, and the hub's maps agree, after
\* every step; each needs the other.
LEMMA PlaceStep ==
    TransOK /\ ops \in Seq(Ops) /\ HubInv /\ OpsFollowTheHandler /\ [Next]_vars =>
        ops' \in Seq(Ops) /\ HubInv' /\ OpsFollowTheHandler'
<1> SUFFICES ASSUME TransOK, ops \in Seq(Ops), HubInv, OpsFollowTheHandler, [Next]_vars
             PROVE  /\ ops' \in Seq(Ops) /\ HubInv'
                    /\ \A x \in Conn : Follows(x)'
  BY DEF OpsFollowTheHandler, Follows
<1>0. \A x \in Conn : Follows(x)
  BY DEF OpsFollowTheHandler, Follows
<1>a. ASSUME UNCHANGED hubVars
      PROVE  HubInv' /\ \A x \in Conn : InHub(x)' = InHub(x) /\ bound'[x] = bound[x]
  BY <1>a DEF hubVars, HubInv, HubOK, HubIndexSound, On, InHub
<1>1. ASSUME UNCHANGED <<hubVars, ops>>,
             \A x \in Conn : \/ at'[x] = at[x]
                             \/ at[x] \in Neutral /\ at'[x] \in Neutral
      PROVE  ops' \in Seq(Ops) /\ HubInv' /\ \A x \in Conn : Follows(x)'
  BY <1>0, <1>1, <1>a, FollowsKept
<1>2. CASE UNCHANGED vars
  BY <1>1, <1>2 DEF vars, transVars
<1>3. ASSUME NEW c \in Conn, Dial(c) \/ HandshakeFails(c)
      PROVE  ops' \in Seq(Ops) /\ HubInv' /\ \A x \in Conn : Follows(x)'
  <2>1. /\ UNCHANGED <<hubVars, ops>> /\ at[c] \in {"away", "handshake"}
        /\ at'[c] \in {"handshake", "gone"}
        /\ \A x \in Conn \ {c} : at'[x] = at[x]
    BY <1>3 DEF Dial, HandshakeFails, TransOK
  <2>2. OpsOf(c)' = {} /\ ~InHub(c)' /\ bound'[c] = Nobody
    BY <1>0, <1>a, <2>1 DEF Follows, OpsOf
  <2>3. Follows(c)'
    BY <2>2 DEF Follows
  <2>4. \A x \in Conn \ {c} : Follows(x)'
    BY <1>0, <1>a, <2>1, FollowsKept
  <2> QED BY <1>a, <2>1, <2>3, <2>4
<1>4. ASSUME NEW c \in Conn, NEW w \in {"connect", "line", "disconnect"},
             ops' = Append(ops, Op(w, c)), UNCHANGED hubVars,
             \A x \in Conn \ {c} : at'[x] = at[x],
             \/ w = "connect" /\ at[c] = "handshake" /\ at'[c] = "connecting"
             \/ w = "line" /\ at[c] \in Neutral /\ at'[c] \in Neutral
             \/ w = "disconnect" /\ at[c] \in Neutral /\ at'[c] = "gone"
      PROVE  ops' \in Seq(Ops) /\ HubInv' /\ \A x \in Conn : Follows(x)'
  <2>1. Op(w, c) \in Ops /\ Op(w, c).conn = c
    BY DEF Op, Ops
  <2>2. ops' \in Seq(Ops)
    BY <1>4, <2>1, Submitted
  <2>3. Follows(c)'
    BY <1>0, <1>4, FollowsOwn
  <2>4. \A x \in Conn \ {c} : Follows(x)'
    BY <1>0, <1>4, <1>a, <2>1, FollowsSubmitted
  <2> QED BY <1>4, <1>a, <2>2, <2>3, <2>4
<1>5. ASSUME NEW c \in Conn, Reader(c) \/ ReadChunk(c)
      PROVE  ops' \in Seq(Ops) /\ HubInv' /\ \A x \in Conn : Follows(x)'
  <2> USE DEF TransOK, Neutral, ReaderAt
  <2>1. CASE Connect(c)
    BY <1>4, <2>1 DEF Connect
  <2>2. CASE Depart(c)
    <3>1. /\ ops' = Append(ops, Op("disconnect", c)) /\ UNCHANGED hubVars
          /\ at[c] \in Neutral /\ at'[c] = "gone"
          /\ \A x \in Conn \ {c} : at'[x] = at[x]
      BY <2>2 DEF Depart
    <3> QED BY <1>4, <3>1
  <2>3. CASE Input(c) \/ TakeAgain(c)
    <3>1. /\ UNCHANGED hubVars /\ at[c] \in Neutral /\ at'[c] \in Neutral
          /\ \A x \in Conn \ {c} : at'[x] = at[x]
          /\ ops' = ops \/ ops' = Append(ops, Op("line", c))
      BY <2>3 DEF Input, TakeAgain, Typed
    <3>2. CASE ops' = ops
      BY <1>1, <3>1, <3>2
    <3>3. CASE ops' = Append(ops, Op("line", c))
      BY <1>4, <3>1, <3>3
    <3> QED BY <3>1, <3>2, <3>3
  <2>4. CASE \/ Begin(c) \/ TakeGivesUp(c) \/ EndChunk(c) \/ ReadFails(c) \/ ReadChunk(c)
    <3>1. /\ UNCHANGED <<hubVars, ops>> /\ at[c] \in Neutral /\ at'[c] \in Neutral
          /\ \A x \in Conn \ {c} : at'[x] = at[x]
      BY <2>4 DEF Begin, TakeGivesUp, EndChunk, ReadFails, ReadChunk
    <3> QED BY <1>1, <3>1
  <2> QED BY <1>3, <1>5, <2>1, <2>2, <2>3, <2>4 DEF Reader
<1>6. ASSUME NEW c \in Conn, Writer(c) \/ PeerChanges(c)
      PROVE  ops' \in Seq(Ops) /\ HubInv' /\ \A x \in Conn : Follows(x)'
  <2>1. UNCHANGED <<hubVars, ops, at>>
    BY <1>6 DEF Writer, PeerChanges, TakeLine, WriteOk, WriteFails, Part, Parted
  <2> QED BY <1>1, <2>1
<1>7. ASSUME NEW c \in Conn, Operation(c)
      PROVE  ops' \in Seq(Ops) /\ HubInv' /\ \A x \in Conn : Follows(x)'
  <2>1. CASE Welcome(c)
    <3>1. Handles("connect", c) /\ at' = [at EXCEPT ![c] = "welcomed"]
          /\ byID' = byID \cup {c} /\ UNCHANGED <<byPlayer, bound, program>>
      BY <2>1 DEF Welcome
    <3>2. at[c] = "connecting" /\ OpsOf(c) = {1} /\ ops' \in Seq(Ops)
      BY <3>1, HeadHandled, Handled
    <3>3. bound[c] = Nobody
      BY <1>0, <3>2 DEF Follows
    <3>4. HubInv'
      BY <3>1, <3>3 DEF HubInv, HubOK, HubIndexSound, On
    <3>5. \A x \in Conn \ {c} : Follows(x)'
      <4>1. ASSUME NEW x \in Conn \ {c}
            PROVE  InHub(x)' => InHub(x)
        BY <3>1 DEF InHub, On
      <4>2. \A x \in Conn \ {c} : at'[x] = at[x] /\ bound'[x] = bound[x]
        BY <3>1 DEF TransOK
      <4> QED BY <1>0, <3>1, <4>1, <4>2, FollowsHandled
    <3>6. OpsOf(c)' = {}
      <4>1. \A k \in OpsOf(c)' : k \in Nat \ {0} /\ k + 1 \in OpsOf(c)
        BY <3>1, Handled DEF OpsOf
      <4> QED BY <3>2, <4>1
    <3>7. at'[c] = "welcomed"
      BY <3>1 DEF TransOK
    <3>8. Follows(c)'
      BY <3>6, <3>7 DEF Follows
    <3> QED BY <3>2, <3>4, <3>5, <3>8
  <2>2. CASE Line(c)
    <3>1. Handles("line", c) /\ UNCHANGED at
      BY <2>2 DEF Line, transVars
    <3>2. HubInv' /\ \A x \in Conn \ {c} : /\ InHub(x)' => InHub(x)
                                           /\ InHub(x) \/ bound'[x] = bound[x]
      BY <2>2, LineKeeps
    <3>3. \A x \in Conn : Follows(x)'
      BY <1>0, <3>1, <3>2, FollowsHandled
    <3> QED BY <3>1, <3>2, <3>3, Handled
  <2>3. CASE Disconnect(c)
    <3>1. /\ Handles("disconnect", c) /\ UNCHANGED at /\ RemoveFromHub(c)
          /\ program' \subseteq Player
      BY <2>3 DEF Disconnect, transVars, HubInv, HubOK
    <3>2. at[c] = "gone" /\ OpsOf(c) = {1} /\ ops' \in Seq(Ops)
      BY <3>1, HeadHandled, Handled
    <3>3. /\ HubInv' /\ ~InHub(c)'
          /\ \A x \in Conn : (InHub(x)' => InHub(x)) /\ (x # c => bound'[x] = bound[x])
      BY <3>1, UnindexKeeps DEF RemoveFromHub
    <3>4. \A x \in Conn \ {c} : Follows(x)'
      BY <1>0, <3>1, <3>3, FollowsHandled
    <3>5. OpsOf(c)' = {}
      <4>1. \A k \in OpsOf(c)' : k \in Nat \ {0} /\ k + 1 \in OpsOf(c)
        BY <3>1, Handled DEF OpsOf
      <4> QED BY <3>2, <4>1
    <3>6. Follows(c)'
      BY <3>1, <3>2, <3>3, <3>5 DEF Follows
    <3> QED BY <3>2, <3>3, <3>4, <3>6
  <2> QED BY <1>7, <2>1, <2>2, <2>3 DEF Operation
<1>8. ASSUME NEW h \in Host, Age(h)
      PROVE  ops' \in Seq(Ops) /\ HubInv' /\ \A x \in Conn : Follows(x)'
  BY <1>1, <1>8 DEF Age, transVars
<1>9. ASSUME NEW refill, NEW idle, Tick(refill, idle)
      PROVE  ops' \in Seq(Ops) /\ HubInv' /\ \A x \in Conn : Follows(x)'
  BY <1>1, <1>9 DEF Tick, transVars
<1> QED BY <1>2, <1>3, <1>5, <1>6, <1>7, <1>8, <1>9 DEF Next

-------------------------------------------------------------------------------
(* What is queued for a client, and how it ends.                           *)

QueueOK ==
    /\ out \in [Conn -> Seq({"line", "bye"})]
    /\ \A c \in Conn : Len(out[c]) <= OutputDepth
    /\ closed \in [Conn -> BOOLEAN]
    /\ bye \in [Conn -> {"none", "queued", "carried", "heard"}]

RestOK ==
    /\ tokens \in [Conn -> 0..Burst] /\ wait \in [Conn -> {"open", "closed"}]
    /\ lines \in 0..MaxLines

\* PartInv, of one connection.
Parts(c) ==
    /\ at[c] \in {"away", "handshake", "connecting", "welcomed"} =>
          writer[c] = "none" /\ sock[c] = "open"
    /\ at[c] = "departing" => peer[c] = "lost"
    /\ sock[c] = "shut" => writer[c] = "done" \/ peer[c] = "lost"
    /\ bye[c] # "none" => closed[c]
    /\ bye[c] = "queued" => out[c] # <<>>
    /\ \A k \in DOMAIN out[c] :
          out[c][k] = "bye" => bye[c] = "queued" /\ k = Len(out[c])
    /\ bye[c] = "queued" => out[c][Len(out[c])] = "bye"
    /\ writer[c] = "parting" => closed[c] /\ bye[c] # "queued"
    /\ bye[c] = "carried" /\ peer[c] = "ok" => writer[c] \in {"writing", "parting"}
    /\ writer[c] = "done" /\ peer[c] = "ok" => closed[c] /\ bye[c] # "queued"

\* Where nothing of a connection changes but a handler going on, or its client
\* getting worse, it ends as it would have.
LEMMA PartsKept ==
    ASSUME NEW x \in Conn, Parts(x),
           out'[x] = out[x], bye'[x] = bye[x], writer'[x] = writer[x], sock'[x] = sock[x],
           closed[x] => closed'[x],
           at'[x] \in {"away", "handshake", "connecting", "welcomed"} =>
              at[x] \in {"away", "handshake", "connecting", "welcomed"},
           at'[x] = "departing" => at[x] = "departing" \/ peer'[x] = "lost",
           \/ peer'[x] = peer[x]
           \/ peer[x] # "lost" /\ peer'[x] \in {"stuck", "lost"}
    PROVE  Parts(x)'
BY DEF Parts

\* sendRaw, and a close: a parting line goes only to one who is closed with it.
LEMMA SendParts ==
    ASSUME QueueOK, NEW S, NEW C, NEW m \in {"line", "bye"}, SendThenClose(S, m, C),
           m = "bye" => S \subseteq C
    PROVE  /\ QueueOK'
           /\ UNCHANGED <<writer, sock, peer>> =>
                 \A x \in Conn :
                     /\ Parts(x)
                     /\ \/ at'[x] = at[x]
                        \/ at[x] = "connecting" /\ at'[x] = "welcomed"
                     => Parts(x)'
<1> USE ConnectionsAssumption
<1> DEFINE open == {c \in S : ~closed[c]}
           full == {c \in open : ~HasRoom(c)}
<1>1. /\ out' = [c \in Conn |-> IF c \in open \ full THEN Append(out[c], m) ELSE out[c]]
      /\ closed' = [c \in Conn |-> closed[c] \/ c \in full \cup C]
      /\ bye' = [c \in Conn |-> IF m = "bye" /\ c \in open \ full THEN "queued" ELSE bye[c]]
  BY DEF SendThenClose
<1>2. ASSUME NEW x \in Conn
      PROVE  \/ /\ x \in S /\ ~closed[x] /\ Len(out[x]) < OutputDepth
                /\ out'[x] = Append(out[x], m)
                /\ bye'[x] = IF m = "bye" THEN "queued" ELSE bye[x]
                /\ m = "bye" => closed'[x]
             \/ out'[x] = out[x] /\ bye'[x] = bye[x]
  BY <1>1 DEF HasRoom
<1>3. \A x \in Conn : closed[x] => closed'[x]
  BY <1>1
<1>4. ASSUME NEW x \in Conn
      PROVE  /\ out[x] \in Seq({"line", "bye"}) /\ Len(out[x]) \in Nat /\ DOMAIN out[x] = 1..Len(out[x])
             /\ Append(out[x], m) \in Seq({"line", "bye"})
             /\ Len(Append(out[x], m)) = Len(out[x]) + 1
             /\ DOMAIN Append(out[x], m) = 1..(Len(out[x]) + 1)
             /\ \A k \in 1..Len(out[x]) : Append(out[x], m)[k] = out[x][k]
             /\ Append(out[x], m)[Len(out[x]) + 1] = m
             /\ bye[x] \in {"none", "queued", "carried", "heard"}
  BY DEF QueueOK
<1>5. QueueOK'
  <2>1. \A x \in Conn : /\ out'[x] \in Seq({"line", "bye"}) /\ Len(out'[x]) <= OutputDepth
                        /\ bye'[x] \in {"none", "queued", "carried", "heard"}
    <3> TAKE x \in Conn
    <3>1. CASE out'[x] = out[x] /\ bye'[x] = bye[x]
      BY <3>1 DEF QueueOK
    <3>2. CASE /\ Len(out[x]) < OutputDepth /\ out'[x] = Append(out[x], m)
               /\ bye'[x] = IF m = "bye" THEN "queued" ELSE bye[x]
      <4>1. Len(out[x]) + 1 <= OutputDepth
        BY <1>4, <3>2
      <4> QED BY <1>4, <3>2, <4>1
    <3> QED BY <1>2, <3>1, <3>2
  <2>2. \A x \in Conn : closed'[x] \in BOOLEAN
    BY <1>1 DEF QueueOK
  <2>3. /\ out' = [c \in Conn |-> out'[c]] /\ closed' = [c \in Conn |-> closed'[c]]
        /\ bye' = [c \in Conn |-> bye'[c]]
    BY <1>1
  <2> HIDE DEF open, full
  <2> QED BY <2>1, <2>2, <2>3 DEF QueueOK
<1> HIDE DEF open, full
<1>6. ASSUME UNCHANGED <<writer, sock, peer>>, NEW x \in Conn, Parts(x),
             \/ at'[x] = at[x]
             \/ at[x] = "connecting" /\ at'[x] = "welcomed"
      PROVE  Parts(x)'
  <2>1. CASE out'[x] = out[x] /\ bye'[x] = bye[x]
    <3>1. peer'[x] = peer[x] /\ writer'[x] = writer[x] /\ sock'[x] = sock[x]
      BY <1>6
    <3> QED BY <1>3, <1>6, <2>1, <3>1, PartsKept
  <2>2. CASE /\ ~closed[x] /\ out'[x] = Append(out[x], m)
             /\ bye'[x] = IF m = "bye" THEN "queued" ELSE bye[x]
             /\ m = "bye" => closed'[x]
    <3>1. bye[x] = "none" /\ \A k \in 1..Len(out[x]) : out[x][k] # "bye"
      BY <1>4, <1>6, <2>2 DEF Parts
    <3>2. bye'[x] = (IF m = "bye" THEN "queued" ELSE "none")
      BY <2>2, <3>1
    <3> DEFINE o == Append(out[x], m)
    <3>a. /\ Len(o) = Len(out[x]) + 1 /\ Len(out[x]) \in Nat /\ DOMAIN o = 1..(Len(out[x]) + 1)
          /\ \A k \in 1..Len(out[x]) : o[k] = out[x][k]
          /\ o[Len(out[x]) + 1] = m
      BY <1>4
    <3>b. out'[x] = o
      BY <2>2
    <3> HIDE DEF o
    <3>3. \A k \in DOMAIN out'[x] : out'[x][k] = "bye" => m = "bye" /\ k = Len(out'[x])
      <4> TAKE k \in DOMAIN out'[x]
      <4>1. k \in 1..Len(out[x]) \/ k = Len(out[x]) + 1
        BY <3>a, <3>b, SMTT(40)
      <4> QED BY <3>1, <3>a, <3>b, <4>1
    <3>4. out'[x] # <<>> /\ out'[x][Len(out'[x])] = m
      <4>1. Len(o) # 0
        BY <3>a
      <4> QED BY <3>a, <3>b, <4>1
    <3>5. writer'[x] # "parting" /\ ~(writer'[x] = "done" /\ peer'[x] = "ok")
      BY <1>6, <2>2 DEF Parts
    <3>6. /\ at'[x] \in {"away", "handshake", "connecting", "welcomed"} =>
                writer'[x] = "none" /\ sock'[x] = "open"
          /\ at'[x] = "departing" => peer'[x] = "lost"
          /\ sock'[x] = "shut" => writer'[x] = "done" \/ peer'[x] = "lost"
      BY <1>6 DEF Parts
    <3>7. bye'[x] # "none" => closed'[x]
      BY <2>2, <3>2
    <3> QED BY <3>2, <3>3, <3>4, <3>5, <3>6, <3>7 DEF Parts
  <2> QED BY <1>2, <2>1, <2>2
<1> QED BY <1>5, <1>6

\* What the writer takes from the queue, and whom it reaches.
LEMMA WriterParts ==
    ASSUME TransOK, QueueOK, PartInv, NEW c \in Conn, Writer(c)
    PROVE  QueueOK' /\ \A x \in Conn : Parts(x)'
<1>0. \A x \in Conn : Parts(x)
  BY DEF PartInv, SocketIsTheWriters, ByeIsLast, Parts
<1>1. /\ out[c] \in Seq({"line", "bye"}) /\ Len(out[c]) \in Nat /\ DOMAIN out[c] = 1..Len(out[c])
      /\ Len(out[c]) <= OutputDepth
      /\ bye[c] \in {"none", "queued", "carried", "heard"}
      /\ writer[c] \in WriterAt /\ peer[c] \in {"ok", "stuck", "lost"}
      /\ sock[c] \in {"open", "shut"} /\ closed[c] \in BOOLEAN
  BY DEF QueueOK, TransOK
<1>2. ASSUME NEW x \in Conn, x # c PROVE Parts(x)'
  <2>1. /\ out'[x] = out[x] /\ bye'[x] = bye[x] /\ writer'[x] = writer[x] /\ sock'[x] = sock[x]
        /\ closed' = closed /\ at' = at /\ peer' = peer
    BY <1>2 DEF Writer, TakeLine, WriteOk, WriteFails, Part, Parted, TransOK, QueueOK,
       Carried, Heard
  <2> QED BY <1>0, <2>1, PartsKept
<1>3. CASE TakeLine(c)
  <2>1. /\ out' = [out EXCEPT ![c] = Tail(@)] /\ out[c] # <<>> /\ writer[c] = "select"
        /\ writer' = [writer EXCEPT ![c] = "writing"]
        /\ bye' = IF Head(out[c]) = "bye" THEN [bye EXCEPT ![c] = "carried"] ELSE bye
        /\ UNCHANGED <<at, peer, sock, closed>>
    BY <1>3 DEF TakeLine, Carried
  <2>2. /\ Tail(out[c]) \in Seq({"line", "bye"}) /\ Len(Tail(out[c])) = Len(out[c]) - 1
        /\ Head(out[c]) = out[c][1] /\ 1 \in DOMAIN out[c]
        /\ \A k \in 1..(Len(out[c]) - 1) : Tail(out[c])[k] = out[c][k + 1] /\ k + 1 \in DOMAIN out[c]
        /\ DOMAIN Tail(out[c]) = 1..(Len(out[c]) - 1)
    BY <1>1, <2>1
  <2>3. QueueOK'
    <3>1. out' \in [Conn -> Seq({"line", "bye"})]
      BY <2>1, <2>2 DEF QueueOK
    <3>2. ASSUME NEW x \in Conn PROVE Len(out'[x]) <= OutputDepth
      BY <1>1, <2>1, <2>2, ConnectionsAssumption DEF QueueOK
    <3>3. bye' \in [Conn -> {"none", "queued", "carried", "heard"}]
      BY <2>1 DEF QueueOK
    <3> QED BY <2>1, <3>1, <3>2, <3>3 DEF QueueOK
  <2>4. /\ out'[c] = Tail(out[c]) /\ writer'[c] = "writing" /\ at'[c] = at[c]
        /\ peer'[c] = peer[c] /\ sock'[c] = sock[c] /\ closed'[c] = closed[c]
        /\ bye'[c] = IF Head(out[c]) = "bye" THEN "carried" ELSE bye[c]
    BY <2>1 DEF TransOK, QueueOK
  <2>5. Parts(c)
    BY <1>0
  <2>6. CASE Head(out[c]) = "bye"
    <3>1. Len(out[c]) = 1 /\ bye[c] = "queued"
      BY <2>2, <2>5, <2>6 DEF Parts
    <3>2. DOMAIN out'[c] = {}
      BY <2>2, <2>4, <3>1
    <3> QED BY <1>2, <2>1, <2>3, <2>4, <2>5, <2>6, <3>1, <3>2 DEF Parts
  <2>7. CASE Head(out[c]) # "bye"
    <3>1. bye[c] = "queued" => Len(out[c]) > 1
      <4>1. bye[c] = "queued" => out[c][Len(out[c])] = "bye"
        BY <2>5 DEF Parts
      <4>2. Len(out[c]) \in Nat /\ Len(out[c]) >= 1
        BY <1>1, <2>2
      <4> QED BY <2>2, <2>7, <4>1, <4>2
    <3> DEFINE o == Tail(out[c])
               n == Len(out[c]) - 1
    <3>a. /\ out'[c] = o /\ Len(o) = n /\ n \in Int /\ DOMAIN o = 1..n
          /\ \A k \in 1..n : o[k] = out[c][k + 1] /\ k + 1 \in DOMAIN out[c]
          /\ Len(out[c]) = n + 1
      BY <1>1, <2>2, <2>4
    <3>b. /\ bye[c] = "queued" => out[c][Len(out[c])] = "bye"
          /\ \A k \in DOMAIN out[c] : out[c][k] = "bye" => bye[c] = "queued" /\ k = Len(out[c])
      BY <2>5 DEF Parts
    <3>c. bye[c] = "queued" => n >= 1
      BY <3>1, <3>a
    <3> HIDE DEF o, n
    <3>2. bye[c] = "queued" => out'[c] # <<>> /\ out'[c][Len(out'[c])] = "bye"
      <4>1. o = <<>> => n = 0
        BY <3>a
      <4> QED BY <3>a, <3>b, <3>c, <4>1
    <3>3. \A k \in DOMAIN out'[c] : out'[c][k] = "bye" => bye[c] = "queued" /\ k = Len(out'[c])
      BY <3>a, <3>b
    <3>4. Parts(c)'
      BY <2>1, <2>4, <2>5, <2>7, <3>2, <3>3 DEF Parts
    <3> QED BY <1>2, <2>3, <3>4
  <2> QED BY <2>6, <2>7
<1>4. CASE WriteOk(c) \/ WriteFails(c) \/ Parted(c)
  <2>1. /\ UNCHANGED <<out, closed, at, peer>> /\ writer[c] \in {"writing", "parting"}
        /\ bye' = bye \/ bye' = Heard(c)
    BY <1>4 DEF WriteOk, WriteFails, Parted
  <2>2. QueueOK'
    BY <2>1 DEF QueueOK, Heard
  <2>3. Parts(c)
    BY <1>0
  <2>4. CASE WriteOk(c)
    <3>1. /\ writer'[c] = "select" /\ UNCHANGED sock /\ writer[c] = "writing"
          /\ bye'[c] = IF bye[c] = "carried" THEN "heard" ELSE bye[c]
      BY <2>4 DEF WriteOk, TransOK, QueueOK, Heard
    <3>2. Parts(c)'
      BY <2>1, <2>3, <3>1 DEF Parts
    <3> QED BY <1>2, <2>2, <3>2
  <2>5. CASE Parted(c)
    <3>1. /\ writer'[c] = "done" /\ sock'[c] = "shut" /\ writer[c] = "parting"
          /\ bye'[c] = IF bye[c] = "carried" THEN "heard" ELSE bye[c]
      BY <2>5 DEF Parted, TransOK, QueueOK, Heard
    <3>2. Parts(c)'
      BY <2>1, <2>3, <3>1 DEF Parts
    <3> QED BY <1>2, <2>2, <3>2
  <2>6. CASE WriteFails(c)
    <3>1. /\ writer'[c] = "done" /\ sock'[c] = "shut" /\ UNCHANGED bye
          /\ peer[c] = "lost" \/ sock[c] = "shut" \/ peer[c] = "stuck"
      BY <2>6 DEF WriteFails, TransOK
    <3>2. peer[c] # "ok"
      BY <2>1, <2>3, <3>1 DEF Parts
    <3>3. Parts(c)'
      BY <2>1, <2>3, <3>1, <3>2 DEF Parts
    <3> QED BY <1>2, <2>2, <3>3
  <2> QED BY <1>4, <2>4, <2>5, <2>6
<1>5. CASE Part(c)
  <2>1. closed[c] /\ writer[c] = "select" /\ UNCHANGED <<at, peer, closed>> /\ Parts(c)
    BY <1>0, <1>5 DEF Part
  <2>2. CASE out[c] = <<>>
    <3>1. /\ writer'[c] = "done" /\ sock'[c] = "shut" /\ UNCHANGED <<out, bye>>
      BY <1>5, <2>2 DEF Part, TransOK
    <3>2. QueueOK'
      BY <2>1, <3>1 DEF QueueOK
    <3>3. Parts(c)'
      BY <2>1, <2>2, <3>1 DEF Parts
    <3> QED BY <1>2, <3>2, <3>3
  <2>3. CASE out[c] # <<>>
    <3>1. /\ writer'[c] = "parting" /\ UNCHANGED sock /\ out' = [out EXCEPT ![c] = <<>>]
          /\ bye' = [bye EXCEPT ![c] = "carried"] \/ (bye' = bye /\ bye[c] # "queued")
      BY <1>5, <2>3 DEF Part, TransOK, Carried
    <3>2. <<>> \in Seq({"line", "bye"}) /\ Len(<<>>) = 0 /\ DOMAIN <<>> = {}
      OBVIOUS
    <3>3. out'[c] = <<>> /\ (bye'[c] = "carried" \/ (bye'[c] = bye[c] /\ bye[c] # "queued"))
      BY <3>1 DEF QueueOK
    <3>4. QueueOK'
      <4>1. out' \in [Conn -> Seq({"line", "bye"})]
        BY <3>1, <3>2 DEF QueueOK
      <4>2. ASSUME NEW x \in Conn PROVE Len(out'[x]) <= OutputDepth
        BY <3>1, <3>2, ConnectionsAssumption DEF QueueOK
      <4>3. bye' \in [Conn -> {"none", "queued", "carried", "heard"}]
        BY <3>1 DEF QueueOK
      <4> QED BY <2>1, <4>1, <4>2, <4>3 DEF QueueOK
    <3>5. Parts(c)'
      BY <2>1, <3>1, <3>2, <3>3 DEF Parts
    <3> QED BY <1>2, <3>4, <3>5
  <2> QED BY <2>2, <2>3
<1> QED BY <1>3, <1>4, <1>5 DEF Writer

\* What the queues hold, who is closed and which goodbye is on its way, after
\* every step.
LEMMA PartStep ==
    TransOK /\ ops \in Seq(Ops) /\ OpsFollowTheHandler /\ QueueOK /\ PartInv /\ [Next]_vars =>
        QueueOK' /\ PartInv'
<1> SUFFICES ASSUME TransOK, ops \in Seq(Ops), OpsFollowTheHandler, QueueOK, PartInv,
                    [Next]_vars
             PROVE  QueueOK' /\ \A x \in Conn : Parts(x)'
  BY DEF PartInv, SocketIsTheWriters, ByeIsLast, Parts
<1>0. \A x \in Conn : Parts(x)
  BY DEF PartInv, SocketIsTheWriters, ByeIsLast, Parts
<1>1. CASE UNCHANGED vars
  BY <1>0, <1>1, PartsKept DEF vars, transVars, QueueOK
<1>2. ASSUME NEW c \in Conn, Dial(c) \/ ReadChunk(c) \/ Reader(c)
      PROVE  QueueOK' /\ \A x \in Conn : Parts(x)'
  <2> USE DEF TransOK, QueueOK
  <2>1. CASE Begin(c)
    <3>1. /\ UNCHANGED <<peer, sock, out, closed, bye>> /\ at[c] = "welcomed"
          /\ writer' = [writer EXCEPT ![c] = "select"] /\ at'[c] \in {"reading", "departing"}
          /\ at'[c] = "departing" => peer[c] = "lost"
          /\ \A x \in Conn \ {c} : at'[x] = at[x] /\ writer'[x] = writer[x]
      BY <2>1 DEF Begin
    <3>2. Parts(c)'
      <4>1. writer[c] = "none" /\ sock[c] = "open" /\ Parts(c)
        BY <1>0, <3>1 DEF Parts
      <4>2. writer'[c] = "select"
        BY <3>1
      <4> QED BY <3>1, <4>1, <4>2 DEF Parts
    <3>3. \A x \in Conn \ {c} : Parts(x)'
      BY <1>0, <3>1, PartsKept
    <3> QED BY <3>1, <3>2, <3>3
  <2>2. CASE Depart(c)
    <3>1. /\ UNCHANGED <<peer, writer, out, closed, bye>>
          /\ at[c] = "departing" \/ writer[c] = "done"
          /\ at'[c] = "gone" /\ \A x \in Conn \ {c} : at'[x] = at[x] /\ sock'[x] = sock[x]
      BY <2>2 DEF Depart
    <3>2. Parts(c)'
      <4>1. Parts(c) /\ (peer[c] = "lost" \/ writer[c] = "done")
        BY <1>0, <3>1 DEF Parts
      <4> QED BY <3>1, <4>1 DEF Parts
    <3>3. \A x \in Conn \ {c} : Parts(x)'
      BY <1>0, <3>1, PartsKept
    <3> QED BY <3>1, <3>2, <3>3
  <2>3. CASE ReadFails(c)
    <3>1. /\ UNCHANGED <<peer, writer, sock, out, bye>> /\ at[c] = "reading" /\ at'[c] = "closing"
          /\ \A x \in Conn : closed[x] => closed'[x]
          /\ \A x \in Conn \ {c} : at'[x] = at[x]
          /\ closed' \in [Conn -> BOOLEAN]
      BY <2>3 DEF ReadFails
    <3> QED BY <1>0, <3>1, PartsKept
  <2>4. CASE \/ Dial(c) \/ ReadChunk(c) \/ HandshakeFails(c) \/ Connect(c) \/ Input(c)
             \/ TakeAgain(c) \/ TakeGivesUp(c) \/ EndChunk(c)
    <3>1. UNCHANGED <<peer, writer, sock, out, closed, bye>>
      BY <2>4 DEF Dial, ReadChunk, HandshakeFails, Connect, Input, TakeAgain, TakeGivesUp, EndChunk
    <3>2. \A x \in Conn : /\ at'[x] \in {"away", "handshake", "connecting", "welcomed"} =>
                                at[x] \in {"away", "handshake", "connecting", "welcomed"}
                          /\ at'[x] = "departing" => at[x] = "departing"
      BY <2>4 DEF Dial, ReadChunk, HandshakeFails, Connect, Input, TakeAgain, TakeGivesUp, EndChunk
    <3> QED BY <1>0, <3>1, <3>2, PartsKept
  <2> QED BY <1>2, <2>1, <2>2, <2>3, <2>4 DEF Reader
<1>3. ASSUME NEW c \in Conn, Writer(c) PROVE QueueOK' /\ \A x \in Conn : Parts(x)'
  BY <1>3, WriterParts
<1>4. ASSUME NEW c \in Conn, PeerChanges(c) PROVE QueueOK' /\ \A x \in Conn : Parts(x)'
  <2>1. /\ UNCHANGED <<at, writer, sock, out, closed, bye>>
        /\ \A x \in Conn : \/ peer'[x] = peer[x]
                           \/ peer[x] # "lost" /\ peer'[x] \in {"stuck", "lost"}
    BY <1>4 DEF PeerChanges, TransOK
  <2> QED BY <1>0, <2>1, PartsKept DEF QueueOK
<1>5. ASSUME NEW c \in Conn, Operation(c) PROVE QueueOK' /\ \A x \in Conn : Parts(x)'
  <2>1. CASE Welcome(c)
    <3>1. /\ UNCHANGED <<writer, peer, sock>> /\ at' = [at EXCEPT ![c] = "welcomed"]
          /\ SendThenClose({c}, "line", {}) /\ at[c] = "connecting"
      BY <2>1, HeadHandled DEF Welcome, Send
    <3>2. \A x \in Conn : \/ at'[x] = at[x]
                          \/ at[x] = "connecting" /\ at'[x] = "welcomed"
      <4>1. at'[c] = "welcomed" /\ \A x \in Conn \ {c} : at'[x] = at[x]
        BY <3>1 DEF TransOK
      <4> QED BY <3>1, <4>1
    <3> QED BY <1>0, <3>1, <3>2, SendParts
  <2>2. CASE Line(c) \/ Disconnect(c)
    <3>1. UNCHANGED <<writer, sock, at, peer>>
      BY <2>2 DEF Line, Disconnect, transVars
    <3>2. ASSUME NEW S, NEW C, NEW m \in {"line", "bye"}, SendThenClose(S, m, C),
                 m = "bye" => S \subseteq C
          PROVE  QueueOK' /\ \A x \in Conn : Parts(x)'
      BY <1>0, <3>1, <3>2, SendParts
    <3>3. CASE Disconnect(c)
      BY <3>2, <3>3 DEF Disconnect
    <3>4. CASE Line(c)
      <4>1. CASE Login(c)
        BY <3>2, <4>1 DEF Login, Send
      <4>2. CASE Quit(c)
        BY <3>2, <4>2 DEF Quit
      <4>3. ASSUME NEW p \in Player, Tell(p) \/ Boot(p)
            PROVE  QueueOK' /\ \A x \in Conn : Parts(x)'
        BY <3>2, <4>3 DEF Tell, Boot, Send
      <4>4. ASSUME NEW d \in Conn, DescrBoot(d)
            PROVE  QueueOK' /\ \A x \in Conn : Parts(x)'
        BY <3>2, <4>4 DEF DescrBoot
      <4>5. ASSUME NEW d \in Conn, NEW p \in Player \cup {Nobody}, SetUser(d, p)
            PROVE  QueueOK' /\ \A x \in Conn : Parts(x)'
        BY <3>2, <4>5 DEF SetUser, Send
      <4>6. CASE UNCHANGED <<out, closed, bye>>
        BY <1>0, <3>1, <4>6, PartsKept DEF QueueOK
      <4> QED BY <3>4, <4>1, <4>2, <4>3, <4>4, <4>5, <4>6 DEF Line
    <3> QED BY <2>2, <3>3, <3>4
  <2> QED BY <1>5, <2>1, <2>2 DEF Operation
<1>6. ASSUME NEW h \in Host, Age(h) PROVE QueueOK' /\ \A x \in Conn : Parts(x)'
  BY <1>0, <1>6, PartsKept DEF Age, transVars, QueueOK
<1>7. ASSUME NEW refill, NEW idle, Tick(refill, idle) PROVE QueueOK' /\ \A x \in Conn : Parts(x)'
  <2>1. /\ UNCHANGED <<writer, sock, at, peer>>
        /\ SendThenClose({c \in idle : bound[c] # Nobody}, "line", idle)
    BY <1>7 DEF Tick, transVars
  <2> QED BY <1>0, <2>1, SendParts
<1> QED BY <1>1, <1>2, <1>3, <1>4, <1>5, <1>6, <1>7 DEF Next

\* Tokens, waits and the count of lines keep their bounds.
LEMMA RestStep ==
    RestOK /\ [Next]_vars => RestOK'
<1> SUFFICES ASSUME RestOK, [Next]_vars PROVE RestOK'
  OBVIOUS
<1> USE ConnectionsAssumption DEF RestOK
<1>1. CASE UNCHANGED vars
  BY <1>1 DEF vars
<1>2. ASSUME NEW c \in Conn, Dial(c) \/ ReadChunk(c) \/ PeerChanges(c) PROVE RestOK'
  BY <1>2 DEF Dial, ReadChunk, PeerChanges
<1>3. ASSUME NEW c \in Conn, Reader(c) PROVE RestOK'
  <2>1. CASE Input(c) \/ TakeAgain(c)
    BY <2>1 DEF Input, TakeAgain
  <2>2. CASE \/ HandshakeFails(c) \/ Connect(c) \/ Begin(c) \/ TakeGivesUp(c)
             \/ EndChunk(c) \/ ReadFails(c) \/ Depart(c)
    BY <2>2 DEF HandshakeFails, Connect, Begin, TakeGivesUp, EndChunk, ReadFails, Depart
  <2> QED BY <1>3, <2>1, <2>2 DEF Reader
<1>4. ASSUME NEW c \in Conn, Writer(c) PROVE RestOK'
  BY <1>4 DEF Writer, TakeLine, WriteOk, WriteFails, Part, Parted
<1>5. ASSUME NEW c \in Conn, Operation(c) PROVE RestOK'
  BY <1>5, SMTT(40) DEF Operation, Welcome, Line, Disconnect
<1>6. ASSUME NEW h \in Host, Age(h) PROVE RestOK'
  BY <1>6 DEF Age
<1>7. ASSUME NEW refill \in BOOLEAN, NEW idle, Tick(refill, idle) PROVE RestOK'
  <2>1. CASE refill
    BY <1>7, <2>1 DEF Tick, Refill
  <2>2. CASE ~refill
    BY <1>7, <2>2 DEF Tick
  <2> QED BY <2>1, <2>2
<1> QED BY <1>1, <1>2, <1>3, <1>4, <1>5, <1>6, <1>7 DEF Next

-------------------------------------------------------------------------------
(* The theorems.                                                           *)

ConnInv ==
    /\ TransOK /\ QueueOK /\ RestOK /\ ops \in Seq(Ops)
    /\ HubInv /\ OpsFollowTheHandler /\ GateInv /\ PartInv

\* A server that nobody has dialled keeps all of it.
LEMMA ConnInit ==
    Init => ConnInv
<1> SUFFICES ASSUME Init PROVE ConnInv
  OBVIOUS
<1> USE ConnectionsAssumption
<1>1. TransOK /\ RestOK /\ QueueOK
  BY DEF Init, TransOK, RestOK, QueueOK, ReaderAt, WriterAt
<1>2. ops \in Seq(Ops) /\ ops = <<>> /\ DOMAIN ops = {}
  BY DEF Init
<1>3. \A p \in Player : byPlayer[p] = <<>> /\ On(p) = {}
  BY DEF Init, On, ToSet
<1>4. HubInv
  BY <1>3 DEF Init, HubInv, HubOK, HubIndexSound, IsInjective
<1>5. \A c \in Conn : OpsOf(c) = {} /\ ~InHub(c) /\ bound[c] = Nobody
  BY <1>2, <1>3 DEF Init, OpsOf, InHub
<1>6. OpsFollowTheHandler
  BY <1>5 DEF OpsFollowTheHandler
<1>7. Inside = {}
  BY DEF Init, Inside
<1>8. \A h \in Host : {c \in Inside : HostOf[c] = h} = {}
  BY <1>7
<1>9. GateInv
  BY <1>7, <1>8, FS_EmptySet DEF Init, GateInv, GateOK, GateCountsTheLiving, FewInside
<1>10. PartInv
  BY DEF Init, PartInv, SocketIsTheWriters, ByeIsLast
<1> QED BY <1>1, <1>2, <1>4, <1>6, <1>9, <1>10 DEF ConnInv

\* The invariant of connections: no handler, writer, client or operation of the
\* world breaks it.
THEOREM ConnectionsInvariant == Spec => []ConnInv
<1>1. ConnInv /\ [Next]_vars => ConnInv'
  BY TransStep, PlaceStep, GateStep, PartStep, RestStep DEF ConnInv
<1> QED BY ConnInit, <1>1, PTL DEF Spec

\* For any connections, hosts, players and limits: the gate counts exactly the
\* connections there are, the hub's maps agree, and one whose Disconnect has
\* been handled is in neither.
THEOREM LeavesNothingBehind == Spec => []NothingLeftBehind
<1>1. ConnInv => TypeOK
  BY DEF ConnInv, TransOK, QueueOK, RestOK, HubInv, HubOK, GateInv, GateOK, TypeOK
<1>2. ConnInv => GateCountsTheLiving /\ HubIndexSound
  BY DEF ConnInv, GateInv, HubInv
<1>3. ConnInv => GoneIsForgotten
  <2> SUFFICES ASSUME ConnInv, NEW c \in Conn, at[c] = "gone",
                      \A k \in DOMAIN ops : ops[k].conn # c
               PROVE  ~InHub(c)
    BY DEF GoneIsForgotten, InHub
  <2>1. OpsOf(c) = {}
    BY DEF OpsOf
  <2> QED BY <2>1 DEF ConnInv, OpsFollowTheHandler
<1> QED BY ConnectionsInvariant, <1>1, <1>2, <1>3, PTL DEF NothingLeftBehind

\* For any output depth and any clients: the answer to a QUIT is not lost to
\* the race between it and the disconnection, unless its client is.
THEOREM PartingIsHeard == Spec => []PartingHeard
<1>1. ConnInv => PartingHeard
  BY DEF ConnInv, QueueOK, PartInv, ByeIsLast, PartingHeard
<1> QED BY ConnectionsInvariant, <1>1, PTL
===============================================================================
