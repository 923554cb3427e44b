---------------------------- MODULE ProcQueueProofs ----------------------------
(***************************************************************************)
(* Theorems about ProcQueue, for any connections, timers, filters, limits  *)
(* and bounds.                                                             *)
(***************************************************************************)
EXTENDS ProcQueue, SequenceTheorems, FiniteSetTheorems, TLAPS

-------------------------------------------------------------------------------
(* The order of process ids, and of a frame's events.                      *)

\* There is an oldest event among those that match.
LEMMA LeastIs ==
    ASSUME NEW I \in SUBSET Nat, I # {}
    PROVE  LET k == CHOOSE k \in I : \A j \in I : k <= j
           IN  k \in I /\ \A j \in I : k <= j
<1>1. PICK x \in I : \A y \in I : ~ (<<y, x>> \in OpToRel(<, Nat))
  BY NatLessThanWellFounded, WFMin
<1>2. \A y \in I : x <= y
  <2> SUFFICES ASSUME NEW y \in I, y < x PROVE FALSE
    OBVIOUS
  <2>1. <<y, x>> \in Nat \X Nat
    OBVIOUS
  <2>2. <<y, x>>[1] < <<y, x>>[2]
    OBVIOUS
  <2>3. <<y, x>> \in OpToRel(<, Nat)
    BY <2>1, <2>2, Zenon DEF OpToRel
  <2> QED BY <1>1, <2>3
<1> QED BY <1>2

\* The processes a loop is to range over can be listed in pid order, each once.
LEMMA PidOrderIs ==
    ASSUME NEW n \in Nat, NEW S \in SUBSET (1..n)
    PROVE  /\ Cardinality(S) \in Nat
           /\ PidOrder(S) \in [1..Cardinality(S) -> S]
<1> DEFINE N == Cardinality(S)
           UpTo(p) == {q \in S : q <= p}
           rank == [p \in S |-> Cardinality(UpTo(p))]
<1>0. \A x \in S : x \in Nat
  OBVIOUS
<1>1. IsFiniteSet(1..n)
  BY FS_Interval
<1>2. IsFiniteSet(S) /\ N \in Nat
  BY <1>1, FS_Subset, FS_CardinalityType
<1>3. \A p \in S : IsFiniteSet(UpTo(p)) /\ Cardinality(UpTo(p)) \in Nat /\ Cardinality(UpTo(p)) <= N
  BY <1>2, FS_Subset, FS_CardinalityType
<1>4. ASSUME NEW p \in S, NEW q \in S, p < q
      PROVE  Cardinality(UpTo(p)) < Cardinality(UpTo(q))
  <2>1. q \in UpTo(q) /\ q \notin UpTo(p)
    BY <1>0, <1>4
  <2>2. \A x \in UpTo(p) : x \in UpTo(q)
    BY <1>0, <1>4
  <2>3. UpTo(p) \in SUBSET UpTo(q) /\ UpTo(p) # UpTo(q)
    BY <2>1, <2>2
  <2>4. /\ Cardinality(UpTo(p)) <= Cardinality(UpTo(q))
        /\ Cardinality(UpTo(q)) # Cardinality(UpTo(p))
    BY <1>3, <2>3, FS_Subset
  <2> QED BY <1>3, <2>4
<1>5. \A p \in S : Cardinality(UpTo(p)) # 0
  <2> TAKE p \in S
  <2>1. p \in UpTo(p)
    OBVIOUS
  <2> QED BY <1>3, <2>1, FS_EmptySet
<1>6. rank \in [S -> 1..N]
  BY <1>2, <1>3, <1>5
<1>7. \A p, q \in S : p < q => rank[p] < rank[q]
  BY <1>4
<1> HIDE DEF rank, UpTo
<1>8. \A p, q \in S : rank[p] = rank[q] => p = q
  <2> SUFFICES ASSUME NEW p \in S, NEW q \in S, rank[p] = rank[q], p # q PROVE FALSE
    OBVIOUS
  <2>1. p < q \/ q < p
    OBVIOUS
  <2>2. rank[p] \in Nat /\ rank[q] \in Nat
    BY <1>6
  <2> QED BY <1>7, <2>1, <2>2
<1>9. rank \in Injection(S, 1..N)
  BY <1>6, <1>8 DEF Injection, IsInjective
<1>10. IsFiniteSet(1..N) /\ Cardinality(1..N) = N
  BY <1>2, FS_Interval
<1>11. rank \in Surjection(S, 1..N)
  BY <1>2, <1>9, <1>10, FS_Injection
<1>12. \A i \in 1..N : \E p \in S : rank[p] = i
  BY <1>11 DEF Surjection
<1> DEFINE order == [i \in 1..N |-> CHOOSE p \in S : rank[p] = i]
<1>13. \A i \in 1..N : order[i] \in S /\ rank[order[i]] = i
  BY <1>12
<1>14. order \in [1..N -> S]
  BY <1>13
<1>15. \A i, j \in 1..N : i < j => order[i] < order[j]
  <2> HIDE DEF order
  <2> SUFFICES ASSUME NEW i \in 1..N, NEW j \in 1..N, i < j, ~(order[i] < order[j])
               PROVE  FALSE
    OBVIOUS
  <2>1. order[i] \in S /\ order[j] \in S /\ rank[order[i]] = i /\ rank[order[j]] = j
    BY <1>13
  <2>2. order[i] \in Nat /\ order[j] \in Nat /\ i \in Nat /\ j \in Nat
    <3>1. order[i] \in Nat /\ order[j] \in Nat
      BY <1>0, <2>1, Zenon
    <3>2. i \in Nat /\ j \in Nat
      BY <1>2
    <3> QED BY <3>1, <3>2
  <2>3. CASE order[j] = order[i]
    BY <2>1, <2>3
  <2>4. CASE order[j] < order[i]
    BY <1>7, <2>1, <2>2, <2>4
  <2> QED BY <2>2, <2>3, <2>4
<1>16. \E s \in [1..N -> S] : \A i, j \in 1..N : i < j => s[i] < s[j]
  BY <1>14, <1>15
<1> QED BY <1>2, <1>16 DEF PidOrder

\* A snapshot of processes is a list of them.
LEMMA PidOrderLists ==
    ASSUME NEW n \in Nat, NEW S \in SUBSET (1..n), NEW T, S \subseteq T
    PROVE  /\ PidOrder(S) \in Seq(T)
           /\ \A i \in DOMAIN PidOrder(S) : PidOrder(S)[i] \in S
<1> DEFINE s == PidOrder(S)
           N == Cardinality(S)
<1>1. N \in Nat /\ s \in [1..N -> S]
  BY PidOrderIs
<1> HIDE DEF s, N
<1>2. s \in [1..N -> T]
  BY <1>1
<1>3. s \in Seq(T) /\ DOMAIN s = 1..N
  BY <1>1, <1>2, SeqDef
<1> QED BY <1>1, <1>3 DEF s

\* So is any order of a finite set.
LEMMA OrdersLists ==
    ASSUME NEW D, IsFiniteSet(D), NEW T, D \subseteq T, NEW s \in Orders(D)
    PROVE  s \in Seq(T)
<1>1. Cardinality(D) \in Nat /\ s \in [1..Cardinality(D) -> T]
  BY FS_CardinalityType DEF Orders
<1> QED BY <1>1, SeqDef

-------------------------------------------------------------------------------
(* The call stack.                                                         *)

\* What an activation holds.
LEMMA ActFields ==
    ASSUME NEW a \in Act
    PROVE  /\ a.at \in Activations
           /\ a.at = "run" => a.pid \in Pid
           /\ a.at = "finish" => /\ a.pid \in Pid /\ a.k \in Nat \ {0}
                                 /\ a.arr \in Nat /\ a.len \in Nat
           /\ a.at \in {"sweep", "timers", "due"} => a.todo \in Seq(Pid)
           /\ a.at = "timers" => a.pid \in 0..MaxPid /\ a.due \in Seq(Timer)
BY DEF Act, Activations

\* SoundIn, of an activation that is the outermost or not, for the states,
\* processes and dead of some moment.
SoundAct(a, outer, st, nx, gn) ==
    /\ a.at = "run" => a.pid <= nx /\ st[a.pid] = "runnable" /\ a.pid \notin gn
    /\ a.at = "finish" => a.pid <= nx
    /\ a.at \in {"timers", "due"} =>
          outer /\ \A i \in DOMAIN a.todo : a.todo[i] \in (1..nx) \ gn
    /\ a.at = "sweep" => \A i \in DOMAIN a.todo : a.todo[i] <= nx
    /\ a.at = "timers" => a.pid <= nx /\ a.pid \notin gn
    /\ a.at = "timers" /\ a.due # <<>> => a.pid # 0

\* Nothing on a stack is a run of p.
NoRunOf(p, s) == \A k \in DOMAIN s : ~(s[k].at = "run" /\ s[k].pid = p)

\* StackInv, of any stack.
Fits(s, st, nx, gn) ==
    /\ s \in Seq(Act)
    /\ \A k \in DOMAIN s : SoundAct(s[k], k = Len(s), st, nx, gn)
    /\ \A j, k \in DOMAIN s :
          s[j].at = "run" /\ s[k].at = "run" /\ j # k => s[j].pid # s[k].pid

\* StackInv says it of the goroutine's.
LEMMA StackFits ==
    /\ StackInv <=> Fits(stack, state, next, gone)
    /\ StackInv' <=> Fits(stack', state', next', gone')
BY DEF StackInv, Fits, SoundIn, SoundAct, NoReentry

\* A stack is as sound when processes that it does not run change, and when
\* there are more of them.
LEMMA FitsLater ==
    ASSUME NEW s, NEW st, NEW nx \in Nat, NEW gn, Fits(s, st, nx, gn),
           NEW u, NEW m \in Nat, nx <= m,
           \A p \in Pid : NoRunOf(p, s) \/ u[p] = "runnable"
    PROVE  Fits(s, u, m, gn)
<1>1. ASSUME NEW k \in DOMAIN s
      PROVE  SoundAct(s[k], k = Len(s), u, m, gn)
  <2>1. s[k] \in Act /\ SoundAct(s[k], k = Len(s), st, nx, gn)
    BY DEF Fits
  <2>2. s[k].at = "run" => u[s[k].pid] = "runnable"
    BY <2>1, ActFields DEF NoRunOf
  <2>3. /\ s[k].at = "run" => s[k].pid \in Nat
        /\ s[k].at = "finish" => s[k].pid \in Nat
        /\ s[k].at = "timers" => s[k].pid \in Nat
    BY <2>1, ActFields DEF Pid
  <2>4. s[k].at = "sweep" => \A i \in DOMAIN s[k].todo : s[k].todo[i] \in Nat
    <3>1. s[k].at = "sweep" => \A i \in DOMAIN s[k].todo : s[k].todo[i] \in Pid
      BY <2>1, ActFields
    <3> QED BY <3>1 DEF Pid
  <2>5. s[k].at \in {"timers", "due"} =>
            \A i \in DOMAIN s[k].todo : s[k].todo[i] \in (1..m) \ gn
    BY <2>1 DEF SoundAct
  <2> QED BY <2>1, <2>2, <2>3, <2>4, <2>5 DEF SoundAct
<1> QED BY <1>1 DEF Fits

\* What is left when the innermost activation returns.
LEMMA FitsTail ==
    ASSUME NEW s, NEW st, NEW nx \in Nat, NEW gn, Fits(s, st, nx, gn), s # <<>>
    PROVE  /\ Fits(Tail(s), st, nx, gn)
           /\ Head(s) = s[1] /\ Head(s) \in Act /\ 1 \in DOMAIN s
           /\ SoundAct(Head(s), 1 = Len(s), st, nx, gn)
           /\ Len(Tail(s)) = Len(s) - 1 /\ Len(s) \in Nat
           /\ DOMAIN Tail(s) = 1..(Len(s) - 1) /\ DOMAIN s = 1..Len(s)
           /\ \A k \in DOMAIN Tail(s) : k + 1 \in DOMAIN s /\ Tail(s)[k] = s[k + 1]
           /\ Head(s).at = "run" => NoRunOf(Head(s).pid, Tail(s))
<1> DEFINE t == Tail(s)
<1>1. /\ s \in Seq(Act) /\ Len(s) \in Nat /\ DOMAIN s = 1..Len(s) /\ 1 \in DOMAIN s
      /\ Head(s) = s[1] /\ Head(s) \in Act
      /\ t \in Seq(Act) /\ Len(t) = Len(s) - 1 /\ DOMAIN t = 1..(Len(s) - 1)
      /\ \A k \in DOMAIN t : k + 1 \in DOMAIN s /\ t[k] = s[k + 1] /\ k \in Nat \ {0}
  BY DEF Fits
<1> HIDE DEF t
<1>2. ASSUME NEW k \in DOMAIN t PROVE SoundAct(t[k], k = Len(t), st, nx, gn)
  <2>1. SoundAct(s[k + 1], k + 1 = Len(s), st, nx, gn)
    BY <1>1 DEF Fits
  <2>2. (k + 1 = Len(s)) = (k = Len(t))
    BY <1>1
  <2> QED BY <1>1, <2>1, <2>2
<1>3. ASSUME NEW j \in DOMAIN t, NEW k \in DOMAIN t, t[j].at = "run", t[k].at = "run", j # k
      PROVE  t[j].pid # t[k].pid
  <2>1. j + 1 # k + 1
    BY <1>1, <1>3
  <2> QED BY <1>1, <1>3, <2>1 DEF Fits
<1>4. Head(s).at = "run" => NoRunOf(Head(s).pid, t)
  <2>1. \A k \in DOMAIN t : k + 1 # 1
    BY <1>1
  <2> QED BY <1>1, <2>1, SMTT(40) DEF Fits, NoRunOf
<1>5. SoundAct(Head(s), 1 = Len(s), st, nx, gn)
  BY <1>1 DEF Fits
<1>6. Fits(t, st, nx, gn)
  BY <1>1, <1>2, <1>3 DEF Fits
<1> QED BY <1>1, <1>4, <1>5, <1>6 DEF t

\* A sound activation may be pushed, unless it is of a process already running.
LEMMA FitsPush ==
    ASSUME NEW t, NEW st, NEW nx \in Nat, NEW gn, Fits(t, st, nx, gn),
           NEW a \in Act, SoundAct(a, t = <<>>, st, nx, gn),
           a.at = "run" => NoRunOf(a.pid, t)
    PROVE  /\ Fits(<<a>> \o t, st, nx, gn)
           /\ DOMAIN t = 1..Len(t) /\ Len(t) \in Nat
           /\ DOMAIN (<<a>> \o t) = 1..(Len(t) + 1)
           /\ (<<a>> \o t)[1] = a
           /\ \A k \in DOMAIN t : k + 1 \in DOMAIN (<<a>> \o t) /\ (<<a>> \o t)[k + 1] = t[k]
<1> DEFINE s == <<a>> \o t
<1>1. /\ t \in Seq(Act) /\ Len(t) \in Nat /\ DOMAIN t = 1..Len(t)
      /\ s \in Seq(Act) /\ Len(s) = Len(t) + 1 /\ DOMAIN s = 1..(Len(t) + 1)
      /\ s[1] = a /\ \A k \in DOMAIN t : k + 1 \in DOMAIN s /\ s[k + 1] = t[k]
      /\ t = <<>> <=> Len(t) = 0
  BY DEF Fits
<1> HIDE DEF s
<1>2. \A k \in DOMAIN s : k = 1 \/ (k - 1 \in DOMAIN t /\ s[k] = t[k - 1])
  <2> TAKE k \in DOMAIN s
  <2>1. k # 1 => k - 1 \in DOMAIN t /\ (k - 1) + 1 = k
    BY <1>1
  <2> QED BY <1>1, <2>1
<1>3. ASSUME NEW k \in DOMAIN s PROVE SoundAct(s[k], k = Len(s), st, nx, gn)
  <2>1. CASE k = 1
    <3>1. (k = Len(s)) = (t = <<>>)
      BY <1>1, <2>1
    <3> QED BY <1>1, <2>1, <3>1
  <2>2. CASE k # 1
    <3>1. k - 1 \in DOMAIN t /\ s[k] = t[k - 1] /\ (k = Len(s)) = (k - 1 = Len(t))
      BY <1>1, <1>2, <2>2
    <3> QED BY <3>1 DEF Fits
  <2> QED BY <2>1, <2>2
<1>4. ASSUME NEW j \in DOMAIN s, NEW k \in DOMAIN s, s[j].at = "run", s[k].at = "run", j # k
      PROVE  s[j].pid # s[k].pid
  <2>1. CASE j = 1
    BY <1>1, <1>2, <1>4, <2>1 DEF NoRunOf
  <2>2. CASE k = 1
    BY <1>1, <1>2, <1>4, <2>2 DEF NoRunOf
  <2>3. CASE j # 1 /\ k # 1
    <3>1. /\ j - 1 \in DOMAIN t /\ s[j] = t[j - 1] /\ k - 1 \in DOMAIN t /\ s[k] = t[k - 1]
          /\ j - 1 # k - 1
      BY <1>1, <1>2, <1>4, <2>3
    <3> QED BY <1>4, <3>1 DEF Fits
  <2> QED BY <2>1, <2>2, <2>3
<1>5. Fits(s, st, nx, gn)
  BY <1>1, <1>3, <1>4 DEF Fits
<1> QED BY <1>1, <1>5 DEF s

-------------------------------------------------------------------------------
(* Types, and what is queued on frames and connections.                    *)

BaseOK ==
    /\ next \in 0..MaxPid /\ live \subseteq 1..next
    /\ reading \in [Descr -> 0..MaxPid]
    /\ state \in [Pid -> States] /\ filter \in [Pid -> Filters \cup {{}}]
    /\ timers \in [Pid -> SUBSET Timer] /\ waitees \in [Pid -> SUBSET Pid]
    /\ descr \in [Pid -> Descr]
    /\ ops \in 0..MaxOps
    /\ asked \subseteq Pid \X Pid /\ owed \subseteq asked /\ gone \subseteq Pid

\* The part of the invariant that is of the queue and not of the stack.
Sound == BaseOK /\ QueueInv /\ ReadIndexSound

\* Sound, where none of the fields it is about changes.
LEMMA SoundKept ==
    ASSUME Sound,
           UNCHANGED <<next, live, reading, state, filter, timers, descr, pending>>,
           ops' \in 0..MaxOps, waitees' \in [Pid -> SUBSET Pid],
           gone' \in {gone, (1..next) \ live},
           asked' \subseteq Pid \X Pid, owed' \subseteq asked'
    PROVE  Sound'
<1>1. next \in Nat /\ 1..next \subseteq Pid
  BY ProcQueueAssumption DEF Sound, BaseOK, Pid
<1>2. BaseOK'
  BY <1>1 DEF Sound, BaseOK
<1>3. QueueInv'
  BY DEF Sound, QueueInv, Matching
<1>4. ReadIndexSound'
  BY DEF Sound, ReadIndexSound
<1> QED BY <1>2, <1>3, <1>4 DEF Sound

\* What is above the goroutine when a process's program has it.
LEMMA RunningFacts ==
    ASSUME Sound, StackInv, NEW p, Running(p)
    PROVE  /\ p \in Pid /\ p <= next /\ p \in 1..next /\ state[p] = "runnable" /\ p \notin gone
           /\ stack # <<>> /\ NoRunOf(p, Below)
           /\ Fits(stack, state, next, gone) /\ Fits(Below, state, next, gone)
           /\ next \in Nat
<1>1. stack # <<>> /\ Top.at = "run" /\ Top.pid = p
  BY DEF Running, Doing
<1>2. next \in Nat
  BY ProcQueueAssumption DEF Sound, BaseOK
<1>3. Fits(stack, state, next, gone)
  BY StackFits
<1>4. /\ Fits(Below, state, next, gone) /\ Head(stack) \in Act
      /\ SoundAct(Head(stack), 1 = Len(stack), state, next, gone)
      /\ Head(stack).at = "run" => NoRunOf(Head(stack).pid, Below)
  BY <1>1, <1>2, <1>3, FitsTail DEF Below
<1>5. p \in Pid
  BY <1>1, <1>4, ActFields DEF Top
<1> QED BY <1>1, <1>2, <1>3, <1>4, <1>5 DEF Top, SoundAct, Pid

\* deliverEvent takes nothing from a frame, and leaves no event that satisfies
\* a process blocked for it.
LEMMA DeliverKeeps ==
    ASSUME Sound, NEW q \in Pid, NEW e \in Event, NEW rest, Deliver(q, e, rest),
           UNCHANGED <<next, live, reading, filter, timers, descr, gone>>, ops' \in 0..MaxOps,
           waitees' \in [Pid -> SUBSET Pid], asked' \subseteq Pid \X Pid, owed' \subseteq asked'
    PROVE  Sound'
<1>1. CASE state[q] = "waiting" /\ Matches(e, filter[q])
  <2>1. state' = [state EXCEPT ![q] = "runnable"] /\ UNCHANGED pending
    BY <1>1 DEF Deliver
  <2>2. BaseOK'
    BY <2>1 DEF Sound, BaseOK, States
  <2>3. \A p \in Pid : state'[p] = "waiting" => Matching(p, filter[p])' = {}
    BY <2>1 DEF Sound, BaseOK, QueueInv, Matching
  <2>4. QueueInv'
    BY <2>1, <2>3 DEF Sound, QueueInv
  <2>5. ReadIndexSound'
    BY <1>1, <2>1 DEF Sound, BaseOK, ReadIndexSound
  <2> QED BY <2>2, <2>4, <2>5 DEF Sound
<1>2. CASE ~(state[q] = "waiting" /\ Matches(e, filter[q]))
  <2>1. pending' = [pending EXCEPT ![q] = Append(@, e)] /\ UNCHANGED state
    BY <1>2 DEF Deliver
  <2>2. BaseOK'
    BY <2>1 DEF Sound, BaseOK
  <2>3. /\ pending \in [Pid -> Seq(Event)] /\ pending' \in [Pid -> Seq(Event)]
        /\ \A p \in Pid : p # q => pending'[p] = pending[p]
        /\ pending'[q] = Append(pending[q], e)
    BY <2>1 DEF Sound, QueueInv
  <2>4. ASSUME NEW p \in Pid, state[p] = "waiting" PROVE Matching(p, filter[p])' = {}
    <3>1. Matching(p, filter[p]) = {}
      BY <2>4 DEF Sound, QueueInv
    <3>2. CASE p = q
      <4>1. ~Matches(e, filter[q])
        BY <1>2, <2>4, <3>2
      <4>2. /\ DOMAIN pending'[q] = DOMAIN pending[q] \cup {Len(pending[q]) + 1}
            /\ \A k \in DOMAIN pending[q] : pending'[q][k] = pending[q][k]
            /\ pending'[q][Len(pending[q]) + 1] = e
        <5>1. pending[q] \in Seq(Event)
          BY <2>3
        <5> QED BY <2>3, <5>1
      <4> QED BY <3>1, <3>2, <4>1, <4>2 DEF Matching
    <3>3. CASE p # q
      BY <2>3, <3>1, <3>3 DEF Matching
    <3> QED BY <3>2, <3>3
  <2>5. QueueInv'
    BY <2>1, <2>3, <2>4 DEF Sound, QueueInv
  <2>6. ReadIndexSound'
    BY <2>1 DEF Sound, ReadIndexSound
  <2> QED BY <2>2, <2>5, <2>6 DEF Sound
<1> QED BY <1>1, <1>2

\* resume forgets where its process was reading.
LEMMA ResumeKeeps ==
    ASSUME Sound, NEW p \in Pid, NEW rest, Resume(p, rest),
           UNCHANGED <<next, live, filter, timers, waitees, descr, pending, asked, owed>>,
           ops' \in 0..MaxOps, gone' \in {gone, (1..next) \ live}
    PROVE  Sound'
<1>1. /\ reading' = IF state[p] = "reading" THEN [reading EXCEPT ![descr[p]] = 0] ELSE reading
      /\ state' = [state EXCEPT ![p] = "runnable"]
  BY DEF Resume
<1>2. next \in Nat /\ 1..next \subseteq Pid
  BY ProcQueueAssumption DEF Sound, BaseOK, Pid
<1>3. reading' \in [Descr -> 0..MaxPid] /\ \A d \in Descr : reading'[d] = reading[d] \/ reading'[d] = 0
  BY <1>1, ProcQueueAssumption DEF Sound, BaseOK
<1>4. BaseOK'
  BY <1>1, <1>2, <1>3 DEF Sound, BaseOK, States
<1>5. QueueInv'
  <2>1. \A q \in Pid : state'[q] = "waiting" => Matching(q, filter[q])' = {}
    BY <1>1 DEF Sound, BaseOK, QueueInv, Matching
  <2>2. \A d \in Descr : reading'[d] <= next
    BY <1>2, <1>3 DEF Sound, QueueInv
  <2> QED BY <2>1, <2>2 DEF Sound, QueueInv
<1>6. ReadIndexSound'
  <2> SUFFICES ASSUME NEW d \in Descr, reading'[d] \in live
               PROVE  state'[reading'[d]] = "reading" /\ descr[reading'[d]] = d
    BY DEF ReadIndexSound
  <2>1. 0 \notin live
    BY <1>2 DEF Sound, BaseOK
  <2>2. reading'[d] = reading[d] /\ reading[d] \in live
    BY <1>3, <2>1
  <2>3. state[reading[d]] = "reading" /\ descr[reading[d]] = d
    BY <2>2 DEF Sound, ReadIndexSound
  <2>4. reading[d] # p
    BY <1>1, <2>1, <2>2, <2>3 DEF Sound, BaseOK
  <2> QED BY <1>1, <2>2, <2>3, <2>4 DEF Sound, BaseOK
<1> QED BY <1>4, <1>5, <1>6 DEF Sound

\* add gives out an id that nothing has had.
LEMMA AddKeeps ==
    ASSUME Sound, NEW s \in {"runnable", "sleeping"}, NEW d \in Descr, AddProcess(s, d),
           UNCHANGED <<reading, filter, timers, waitees, pending, asked, owed>>,
           ops' \in 0..MaxOps, gone' \in {gone, (1..next) \ live}
    PROVE  Sound' /\ next' = next + 1 /\ next \in Nat /\ next + 1 \in Pid
<1>1. /\ next < MaxPid /\ next' = next + 1 /\ live' = live \cup {next + 1}
      /\ state' = [state EXCEPT ![next + 1] = s] /\ descr' = [descr EXCEPT ![next + 1] = d]
  BY DEF AddProcess
<1>2. next \in Nat /\ MaxPid \in Nat /\ next + 1 \in Pid /\ 1..next \subseteq Pid
  BY <1>1, ProcQueueAssumption DEF Sound, BaseOK, Pid
<1>3. BaseOK'
  <2>1. next' \in 0..MaxPid /\ live' \subseteq 1..next' /\ gone' \subseteq Pid
    BY <1>1, <1>2 DEF Sound, BaseOK
  <2> QED BY <1>1, <1>2, <2>1 DEF Sound, BaseOK, States
<1>4. QueueInv'
  <2>1. \A q \in Pid : state'[q] = "waiting" => Matching(q, filter[q])' = {}
    BY <1>1 DEF Sound, BaseOK, QueueInv, Matching
  <2>2. \A c \in Descr : reading'[c] <= next'
    BY <1>1, <1>2 DEF Sound, QueueInv, BaseOK
  <2>3. gone' \subseteq (1..next') \ live'
    BY <1>1, <1>2 DEF Sound, QueueInv, BaseOK
  <2> QED BY <2>1, <2>2, <2>3 DEF Sound, QueueInv
<1>5. ReadIndexSound'
  <2> SUFFICES ASSUME NEW c \in Descr, reading[c] \in live'
               PROVE  state'[reading[c]] = "reading" /\ descr'[reading[c]] = c
    BY DEF ReadIndexSound
  <2>1. reading[c] # next + 1 /\ reading[c] \in live /\ reading[c] \in Pid
    BY <1>1, <1>2 DEF Sound, QueueInv, BaseOK
  <2> QED BY <1>1, <2>1 DEF Sound, BaseOK, ReadIndexSound
<1> QED BY <1>1, <1>2, <1>3, <1>4, <1>5 DEF Sound

\* What is on top when a loop has the goroutine.
LEMMA LoopFacts ==
    ASSUME Sound, StackInv, NEW w, Doing(w)
    PROVE  /\ stack # <<>> /\ Top \in Act /\ Top.at = w /\ next \in Nat
           /\ Fits(stack, state, next, gone) /\ Fits(Below, state, next, gone)
           /\ SoundAct(Top, 1 = Len(stack), state, next, gone)
           /\ w \in {"timers", "due"} => Below = <<>>
<1>1. stack # <<>> /\ Top.at = w
  BY DEF Doing
<1>2. next \in Nat
  BY ProcQueueAssumption DEF Sound, BaseOK
<1>3. Fits(stack, state, next, gone)
  BY StackFits
<1>4. /\ Fits(Below, state, next, gone) /\ Top \in Act
      /\ SoundAct(Top, 1 = Len(stack), state, next, gone)
      /\ Len(Below) = Len(stack) - 1 /\ Len(stack) \in Nat
  BY <1>1, <1>2, <1>3, FitsTail DEF Below, Top
<1>5. w \in {"timers", "due"} => Below = <<>>
  <2> SUFFICES ASSUME w \in {"timers", "due"} PROVE Below = <<>>
    OBVIOUS
  <2>1. 1 = Len(stack)
    BY <1>1, <1>4 DEF SoundAct
  <2>2. Below \in Seq(Act)
    BY <1>4 DEF Fits
  <2>3. Len(Below) = 0
    <3>1. Len(Below) = Len(stack) - 1
      BY <1>4, Zenon
    <3> QED BY <2>1, <3>1
  <2> QED BY <2>2, <2>3, EmptySeq
<1> QED BY <1>1, <1>2, <1>3, <1>4, <1>5

\* The calls a running program makes.
LEMMA ProgramSound ==
    ASSUME Sound, StackInv, NEW p \in Pid, Program(p) PROVE Sound'
<1> USE ProcQueueAssumption
<1>0. Running(p) /\ (Use => ops' \in 0..MaxOps)
  BY DEF Program, Fork, Queue, KillPID, WatchPID, SendEvent, TimerStart, TimerStop, WaitFor,
     Read, Pause, End, Use, Sound, BaseOK
<1>1. /\ p <= next /\ p \in 1..next /\ state[p] = "runnable" /\ next \in Nat
      /\ 1..next \subseteq Pid
  BY <1>0, RunningFacts DEF Sound, BaseOK, Pid
<1>2. CASE Fork(p) \/ Queue(p)
  <2>1. descr[p] \in Descr
    BY DEF Sound, BaseOK
  <2> QED BY <1>0, <1>2, <2>1, AddKeeps DEF Fork, Queue, histVars
<1>3. ASSUME NEW q \in Pid, KillPID(p, q) PROVE Sound'
  <2>1. /\ UNCHANGED <<next, live, reading, state, filter, timers, waitees, descr, pending,
                       asked, owed, gone>>
        /\ ops' \in 0..MaxOps
    BY <1>0, <1>3 DEF KillPID, histVars
  <2> QED BY <2>1, SoundKept DEF Sound, BaseOK
<1>4. ASSUME NEW q \in Pid, WatchPID(p, q) PROVE Sound'
  <2>1. /\ UNCHANGED <<next, live, reading, state, filter, timers, descr, gone>>
        /\ ops' \in 0..MaxOps /\ <<p, q>> \in Pid \X Pid
    BY <1>0, <1>4 DEF WatchPID
  <2>2. CASE q \in live
    <3>1. UNCHANGED pending /\ asked' = asked \cup {<<p, q>>}
          /\ (owed' = owed \/ owed' = owed \cup {<<p, q>>})
          /\ (waitees' = waitees \/ waitees' = [waitees EXCEPT ![p] = @ \cup {q}])
      BY <1>4, <2>2 DEF WatchPID
    <3>2. waitees' \in [Pid -> SUBSET Pid] /\ asked' \subseteq Pid \X Pid /\ owed' \subseteq asked'
      BY <2>1, <3>1 DEF Sound, BaseOK
    <3> QED BY <2>1, <3>1, <3>2, SoundKept
  <2>3. CASE q \notin live
    <3>1. /\ pending' = [pending EXCEPT ![p] = Append(@, Exit(q))]
          /\ asked' = asked \ {<<p, q>>} /\ owed' = owed \ {<<p, q>>} /\ UNCHANGED waitees
      BY <1>4, <2>3 DEF WatchPID, Told
    <3>2. Exit(q) \in Event
      BY DEF Event
    <3>3. pending' \in [Pid -> Seq(Event)] /\ \A r \in Pid : r # p => pending'[r] = pending[r]
      BY <3>1, <3>2 DEF Sound, QueueInv
    <3>4. BaseOK'
      BY <2>1, <3>1 DEF Sound, BaseOK
    <3>5. QueueInv'
      BY <1>1, <2>1, <3>3 DEF Sound, QueueInv, Matching
    <3>6. ReadIndexSound'
      BY <2>1 DEF Sound, ReadIndexSound
    <3> QED BY <3>4, <3>5, <3>6 DEF Sound
  <2> QED BY <2>2, <2>3
<1>5. ASSUME NEW q \in Pid, SendEvent(p, q) PROVE Sound'
  <2>1. /\ UNCHANGED <<next, live, reading, filter, timers, waitees, descr, asked, owed, gone>>
        /\ ops' \in 0..MaxOps /\ User \in Event
    BY <1>0, <1>5 DEF SendEvent, histVars, Event
  <2>2. CASE q = p
    <3>1. pending' = [pending EXCEPT ![p] = Append(@, User)] /\ UNCHANGED state
      BY <1>5, <2>2 DEF SendEvent
    <3>2. pending' \in [Pid -> Seq(Event)] /\ \A r \in Pid : r # p => pending'[r] = pending[r]
      BY <2>1, <3>1 DEF Sound, QueueInv
    <3>3. BaseOK' /\ ReadIndexSound'
      BY <2>1, <3>1 DEF Sound, BaseOK, ReadIndexSound
    <3>4. QueueInv'
      BY <1>1, <2>1, <3>1, <3>2 DEF Sound, QueueInv, Matching
    <3> QED BY <3>3, <3>4 DEF Sound
  <2>3. CASE q # p
    <3>1. Deliver(q, User, stack)
      BY <1>5, <2>3 DEF SendEvent
    <3> QED BY <2>1, <3>1, DeliverKeeps DEF Sound, BaseOK
  <2> QED BY <2>2, <2>3
<1>6. ASSUME NEW t \in Timer, TimerStart(p, t) \/ TimerStop(p, t) PROVE Sound'
  <2>1. /\ UNCHANGED <<next, live, reading, state, filter, waitees, descr, pending, histVars>>
        /\ ops' \in 0..MaxOps
        /\ \/ timers' = [timers EXCEPT ![p] = @ \cup {t}]
           \/ timers' = [timers EXCEPT ![p] = @ \ {t}]
    BY <1>0, <1>6 DEF TimerStart, TimerStop
  <2>2. IsFiniteSet(timers[p]) /\ timers[p] \subseteq Timer
    BY DEF Sound, BaseOK, QueueInv
  <2>3. IsFiniteSet(timers[p] \cup {t}) /\ IsFiniteSet(timers[p] \ {t})
    BY <2>2, FS_AddElement, FS_RemoveElement
  <2>4. timers' \in [Pid -> SUBSET Timer] /\ \A q \in Pid : IsFiniteSet(timers'[q])
    <3>1. timers \in [Pid -> SUBSET Timer] /\ \A q \in Pid : IsFiniteSet(timers[q])
      BY DEF Sound, BaseOK, QueueInv
    <3>2. CASE timers' = [timers EXCEPT ![p] = @ \cup {t}]
      BY <2>2, <2>3, <3>1, <3>2
    <3>3. CASE timers' = [timers EXCEPT ![p] = @ \ {t}]
      BY <2>2, <2>3, <3>1, <3>3
    <3> QED BY <2>1, <3>2, <3>3
  <2>5. BaseOK' /\ ReadIndexSound'
    BY <2>1, <2>4 DEF Sound, BaseOK, ReadIndexSound, histVars
  <2>6. QueueInv'
    BY <2>1, <2>4 DEF Sound, QueueInv, Matching, histVars
  <2> QED BY <2>5, <2>6 DEF Sound
<1>7. ASSUME NEW F \in Filters, WaitFor(p, F) PROVE Sound'
  <2>1. UNCHANGED <<next, live, reading, timers, waitees, descr, ops, histVars>>
    BY <1>7 DEF WaitFor
  <2>2. CASE Matching(p, F) # {}
    <3> DEFINE k == CHOOSE k \in Matching(p, F) : \A j \in Matching(p, F) : k <= j
               u == SubSeq(pending[p], 1, k - 1)
               v == SubSeq(pending[p], k + 1, Len(pending[p]))
    <3>1. pending' = [pending EXCEPT ![p] = u \o v] /\ UNCHANGED <<state, filter>>
      BY <1>7, <2>2 DEF WaitFor
    <3>2. pending[p] \in Seq(Event) /\ Matching(p, F) \in SUBSET Nat
          /\ DOMAIN pending[p] = 1..Len(pending[p]) /\ Len(pending[p]) \in Nat
      BY DEF Sound, QueueInv, Matching
    <3>3. k \in Matching(p, F)
      BY <2>2, <3>2, LeastIs
    <3>4. k \in 1..Len(pending[p])
      BY <3>2, <3>3 DEF Matching
    <3> HIDE DEF k
    <3>5. u \in Seq(Event) /\ v \in Seq(Event)
      BY <3>2, <3>4, SubSeqProperties
    <3>6. u \o v \in Seq(Event)
      BY <3>5, ConcatProperties
    <3> HIDE DEF u, v
    <3>7. pending' \in [Pid -> Seq(Event)] /\ \A r \in Pid : r # p => pending'[r] = pending[r]
      BY <3>1, <3>6 DEF Sound, QueueInv
    <3>8. BaseOK' /\ ReadIndexSound'
      BY <2>1, <3>1 DEF Sound, BaseOK, ReadIndexSound, histVars
    <3>9. QueueInv'
      BY <1>1, <2>1, <3>1, <3>7 DEF Sound, QueueInv, Matching, histVars
    <3> QED BY <3>8, <3>9 DEF Sound
  <2>3. CASE Matching(p, F) = {}
    <3>1. /\ state' = [state EXCEPT ![p] = "waiting"] /\ filter' = [filter EXCEPT ![p] = F]
          /\ UNCHANGED pending
      BY <1>7, <2>3 DEF WaitFor
    <3>2. BaseOK'
      BY <2>1, <3>1 DEF Sound, BaseOK, States, histVars
    <3>3. ReadIndexSound'
      BY <1>1, <2>1, <3>1 DEF Sound, BaseOK, ReadIndexSound
    <3>4. ASSUME NEW r \in Pid, state'[r] = "waiting" PROVE Matching(r, filter[r])' = {}
      <4>1. CASE r = p
        <5>1. filter'[r] = F
          BY <3>1, <4>1 DEF Sound, BaseOK
        <5> QED BY <2>3, <3>1, <4>1, <5>1 DEF Matching
      <4>2. CASE r # p
        BY <3>1, <3>4, <4>2 DEF Sound, BaseOK, QueueInv, Matching
      <4> QED BY <4>1, <4>2
    <3>5. QueueInv'
      BY <2>1, <3>1, <3>4 DEF Sound, QueueInv, histVars
    <3> QED BY <3>2, <3>3, <3>5 DEF Sound
  <2> QED BY <2>2, <2>3
<1>8. CASE Read(p)
  <2>1. /\ UNCHANGED <<next, live, filter, timers, waitees, descr, pending, ops, histVars>>
        /\ state' = [state EXCEPT ![p] = "reading"] /\ reading' = [reading EXCEPT ![descr[p]] = p]
    BY <1>8 DEF Read
  <2>2. BaseOK'
    BY <2>1 DEF Sound, BaseOK, States, histVars, Pid
  <2>3. ASSUME NEW d \in Descr
        PROVE  reading'[d] = IF d = descr[p] THEN p ELSE reading[d]
    BY <2>1 DEF Sound, BaseOK
  <2>4. ReadIndexSound'
    <3> SUFFICES ASSUME NEW d \in Descr, reading'[d] \in live
                 PROVE  state'[reading'[d]] = "reading" /\ descr[reading'[d]] = d
      BY <2>1 DEF ReadIndexSound
    <3>1. CASE d = descr[p]
      BY <2>1, <2>3, <3>1 DEF Sound, BaseOK
    <3>2. CASE d # descr[p]
      BY <1>1, <2>1, <2>3, <3>2 DEF Sound, BaseOK, ReadIndexSound
    <3> QED BY <3>1, <3>2
  <2>5. QueueInv'
    <3>1. \A d \in Descr : reading'[d] <= next
      BY <1>1, <2>3 DEF Sound, QueueInv
    <3>2. \A r \in Pid : state'[r] = "waiting" => Matching(r, filter[r])' = {}
      BY <2>1 DEF Sound, BaseOK, QueueInv, Matching
    <3> QED BY <2>1, <3>1, <3>2 DEF Sound, QueueInv, histVars
  <2> QED BY <2>2, <2>4, <2>5 DEF Sound
<1>9. ASSUME NEW how \in {"sleeping", "runnable"}, Pause(p, how) PROVE Sound'
  <2>1. /\ UNCHANGED <<next, live, reading, filter, timers, waitees, descr, pending, ops, histVars>>
        /\ state' = [state EXCEPT ![p] = how]
    BY <1>9 DEF Pause
  <2>2. BaseOK'
    BY <2>1 DEF Sound, BaseOK, States, histVars
  <2>3. ReadIndexSound'
    BY <1>1, <2>1 DEF Sound, BaseOK, ReadIndexSound
  <2>4. QueueInv'
    <3>1. \A r \in Pid : state'[r] = "waiting" => Matching(r, filter[r])' = {}
      BY <2>1 DEF Sound, BaseOK, QueueInv, Matching
    <3> QED BY <2>1, <3>1 DEF Sound, QueueInv, histVars
  <2> QED BY <2>2, <2>3, <2>4 DEF Sound
<1>10. CASE End(p)
  <2>1. UNCHANGED <<next, live, reading, state, filter, timers, waitees, descr, pending,
                    ops, asked, owed, gone>>
    BY <1>10 DEF End, histVars
  <2> QED BY <2>1, SoundKept DEF Sound, BaseOK
<1> QED BY <1>2, <1>3, <1>4, <1>5, <1>6, <1>7, <1>8, <1>9, <1>10 DEF Program

\* The operations of the world goroutine, and their loops.
LEMMA SoundStep ==
    Sound /\ StackInv /\ [Next]_vars => Sound'
<1> SUFFICES ASSUME Sound, StackInv, [Next]_vars PROVE Sound'
  OBVIOUS
<1> USE ProcQueueAssumption
<1>a. next \in Nat /\ 1..next \subseteq Pid /\ ops \in 0..MaxOps /\ (Use => ops' \in 0..MaxOps)
  BY DEF Sound, BaseOK, Pid, Use
<1>b. ASSUME UNCHANGED <<next, live, reading, state, filter, timers, waitees, descr, pending,
                         asked, owed>>,
             gone' \in {gone, (1..next) \ live}, ops' \in 0..MaxOps
      PROVE  Sound'
  BY <1>b, SoundKept DEF Sound, BaseOK
<1>1. CASE UNCHANGED vars
  BY <1>a, <1>b, <1>1 DEF vars, procVars, histVars
<1>2. ASSUME NEW d \in Descr, RunProgram(d) PROVE Sound'
  <2>1. AddProcess("runnable", d) /\ gone' \in {gone, (1..next) \ live} /\ ops' \in 0..MaxOps
    BY <1>a, <1>2 DEF RunProgram, Begin
  <2> QED BY <1>2, <2>1, AddKeeps DEF RunProgram
<1>3. ASSUME NEW d \in Descr, ReadInput(d) PROVE Sound'
  <2>1. ReaderFor(d) \in Pid
    BY <1>a, <1>3 DEF ReadInput, ReaderFor, Sound, BaseOK
  <2>2. gone' = (1..next) \ live /\ ops' \in 0..MaxOps /\ Resume(ReaderFor(d), <<>>)
    BY <1>a, <1>3 DEF ReadInput, Begin
  <2> QED BY <1>3, <2>1, <2>2, ResumeKeeps DEF ReadInput
<1>4. ASSUME NEW S, KillSweep(S) PROVE Sound'
  BY <1>a, <1>b, <1>4 DEF KillSweep, Begin, procVars
<1>5. CASE Tick
  BY <1>a, <1>b, <1>5 DEF Tick, Begin, procVars
<1>6. CASE SweepNext \/ SweepEnds \/ ListDue \/ TickEnds
  BY <1>a, <1>b, <1>6 DEF SweepNext, SweepEnds, ListDue, TickEnds, procVars, histVars
<1>7. CASE TimersOf
  <2> DEFINE p == Head(Top.todo)
  <2>1. Top.todo \in Seq(Pid) /\ Top.todo # <<>>
    BY <1>7, LoopFacts, ActFields DEF TimersOf
  <2>2. p \in Pid
    BY <2>1
  <2> HIDE DEF p
  <2>3. PICK D \in SUBSET timers[p] : timers' = [timers EXCEPT ![p] = @ \ D]
    BY <1>7 DEF TimersOf, p
  <2>4. UNCHANGED <<next, live, reading, state, filter, waitees, descr, pending, ops, histVars>>
    BY <1>7 DEF TimersOf
  <2>5. timers \in [Pid -> SUBSET Timer] /\ \A q \in Pid : IsFiniteSet(timers[q])
    BY DEF Sound, BaseOK, QueueInv
  <2>6. IsFiniteSet(timers[p] \ D)
    BY <2>2, <2>5, FS_Subset
  <2>7. timers' \in [Pid -> SUBSET Timer] /\ \A q \in Pid : IsFiniteSet(timers'[q])
    BY <2>2, <2>3, <2>5, <2>6
  <2>8. BaseOK' /\ ReadIndexSound'
    BY <2>4, <2>7 DEF Sound, BaseOK, ReadIndexSound, histVars
  <2>9. QueueInv'
    BY <2>4, <2>7 DEF Sound, QueueInv, Matching, histVars
  <2> QED BY <2>8, <2>9 DEF Sound
<1>8. CASE FireTimer
  <2>1. /\ Top.due \in Seq(Timer) /\ Top.due # <<>> /\ Top.pid \in 0..MaxPid /\ Top.pid # 0
    BY <1>8, LoopFacts, ActFields DEF FireTimer, SoundAct
  <2>2. Head(Top.due) \in Timer /\ Top.pid \in Pid
    BY <2>1 DEF Pid
  <2>3. Fired(Head(Top.due)) \in Event
    BY <2>2 DEF Event
  <2>4. /\ UNCHANGED <<next, live, reading, filter, timers, waitees, descr, ops, asked, owed, gone>>
        /\ \E rest : Deliver(Top.pid, Fired(Head(Top.due)), rest)
    BY <1>8 DEF FireTimer, histVars
  <2> QED BY <1>a, <2>2, <2>3, <2>4, DeliverKeeps DEF Sound, BaseOK
<1>9. CASE ResumeDue
  <2>1. Top.todo \in Seq(Pid) /\ Top.todo # <<>>
    BY <1>9, LoopFacts, ActFields DEF ResumeDue
  <2>2. Head(Top.todo) \in Pid
    BY <2>1
  <2>3. \E rest : Resume(Head(Top.todo), rest)
    BY <1>9 DEF ResumeDue
  <2> QED BY <1>a, <1>9, <2>2, <2>3, ResumeKeeps DEF ResumeDue, histVars
<1>10. CASE NotifyWaiter
  <2> DEFINE w == heap[Top.arr][Top.k]
             rest == <<[Top EXCEPT !.k = @ + 1]>> \o Below
  <2>1. Top.pid \in Pid /\ Exit(Top.pid) \in Event
    BY <1>10, LoopFacts, ActFields DEF NotifyWaiter, Event
  <2>2. UNCHANGED <<next, live, reading, filter, timers, descr, ops, gone>>
    BY <1>10 DEF NotifyWaiter
  <2>3. CASE w \in live
    <3>1. /\ waitees' = [waitees EXCEPT ![w] = @ \ {Top.pid}]
          /\ Deliver(w, Exit(Top.pid), rest)
          /\ asked' = asked \ {<<w, Top.pid>>} /\ owed' = owed \ {<<w, Top.pid>>}
      BY <1>10, <2>3 DEF NotifyWaiter, Told
    <3>2. w \in Pid
      BY <1>a, <2>3 DEF Sound, BaseOK
    <3> HIDE DEF w, rest
    <3>3. /\ waitees' \in [Pid -> SUBSET Pid] /\ asked' \subseteq Pid \X Pid /\ owed' \subseteq asked'
      BY <3>1, <3>2 DEF Sound, BaseOK
    <3> QED BY <1>a, <2>1, <2>2, <3>1, <3>2, <3>3, DeliverKeeps
  <2>4. CASE w \notin live
    <3>1. UNCHANGED <<state, pending, waitees, asked, owed>>
      BY <1>10, <2>4 DEF NotifyWaiter
    <3> QED BY <1>a, <1>b, <2>2, <3>1
  <2> QED BY <2>3, <2>4
<1>11. CASE Remove
  <2>1. /\ UNCHANGED <<next, state, filter, timers, waitees, descr, pending, ops, histVars>>
        /\ live' = live \ {Top.pid} /\ Top.pid \in Pid
        /\ reading' = IF Top.pid \in live /\ state[Top.pid] = "reading"
                      THEN [reading EXCEPT ![descr[Top.pid]] = 0] ELSE reading
    BY <1>11, LoopFacts, ActFields DEF Remove, procVars
  <2>2. /\ reading' \in [Descr -> 0..MaxPid]
        /\ \A d \in Descr : reading'[d] = reading[d] \/ reading'[d] = 0
    BY <2>1 DEF Sound, BaseOK
  <2>3. BaseOK'
    BY <2>1, <2>2 DEF Sound, BaseOK, histVars
  <2>4. ReadIndexSound'
    <3>1. 0 \notin live
      BY <1>a DEF Sound, BaseOK
    <3> QED BY <2>1, <2>2, <3>1 DEF Sound, ReadIndexSound
  <2>5. QueueInv'
    <3>1. \A d \in Descr : reading'[d] <= next
      BY <1>a, <2>2 DEF Sound, QueueInv
    <3> QED BY <2>1, <3>1 DEF Sound, QueueInv, Matching, histVars
  <2> QED BY <2>3, <2>4, <2>5 DEF Sound
<1>12. ASSUME NEW p \in Pid, Program(p) PROVE Sound'
  BY <1>12, ProgramSound
<1> QED BY <1>1, <1>2, <1>3, <1>4, <1>5, <1>6, <1>7, <1>8, <1>9, <1>10, <1>11, <1>12
        DEF Next, Loop

\* Who is runnable and has no activation may be given one.
LEMMA RunFits ==
    ASSUME NEW t, NEW st, NEW nx \in Nat, NEW gn, Fits(t, st, nx, gn),
           NEW q \in Pid, q <= nx, q \notin gn, st[q] = "runnable", NoRunOf(q, t)
    PROVE  Fits(<<Run(q)>> \o t, st, nx, gn)
<1>1. Run(q) \in Act /\ Run(q).at = "run" /\ Run(q).pid = q
  BY DEF Run, Act
<1>2. SoundAct(Run(q), t = <<>>, st, nx, gn)
  BY <1>1 DEF SoundAct
<1>3. Run(q).at = "run" => NoRunOf(Run(q).pid, t)
  BY <1>1
<1> HIDE DEF Run
<1> QED BY <1>1, <1>2, <1>3, FitsPush

\* deliverEvent runs nobody who is on the stack: those are not waiting.
LEMMA DeliverFits ==
    ASSUME Sound, NEW q \in Pid, NEW e, NEW rest, Deliver(q, e, rest),
           Fits(rest, state, next, gone), q <= next, q \notin gone
    PROVE  Fits(stack', state', next, gone)
<1>0. next \in Nat
  BY ProcQueueAssumption DEF Sound, BaseOK
<1>1. CASE state[q] = "waiting" /\ Matches(e, filter[q])
  <2>1. state' = [state EXCEPT ![q] = "runnable"] /\ stack' = <<Run(q)>> \o rest
    BY <1>1 DEF Deliver
  <2>2. NoRunOf(q, rest)
    BY <1>1 DEF Fits, SoundAct, NoRunOf
  <2>3. \A p \in Pid : NoRunOf(p, rest) \/ state'[p] = "runnable"
    <3> SUFFICES ASSUME NEW p \in Pid, NEW k \in DOMAIN rest, rest[k].at = "run", rest[k].pid = p
                 PROVE  state'[p] = "runnable"
      BY DEF NoRunOf
    <3>1. state[p] = "runnable"
      BY DEF Fits, SoundAct
    <3> QED BY <2>1, <3>1 DEF Sound, BaseOK
  <2>4. Fits(rest, state', next, gone)
    BY <1>0, <2>3, FitsLater
  <2>5. state'[q] = "runnable"
    BY <2>1 DEF Sound, BaseOK
  <2> QED BY <1>0, <2>1, <2>2, <2>4, <2>5, RunFits
<1>2. CASE ~(state[q] = "waiting" /\ Matches(e, filter[q]))
  BY <1>2 DEF Deliver
<1> QED BY <1>1, <1>2

\* A process may begin to end on any stack.
LEMMA FinishFits ==
    ASSUME Sound, SlicesInv, NEW p \in Pid, p <= next, NEW rest, Finish(p, rest),
           Fits(rest, state, next, gone)
    PROVE  Fits(stack', state, next, gone)
<1>0. next \in Nat
  BY ProcQueueAssumption DEF Sound, BaseOK
<1>1. waiters[p].arr \in Nat /\ waiters[p].len \in Nat
  BY DEF SlicesInv
<1>2. Ending(p, 1) \in Act /\ Ending(p, 1).at = "finish" /\ Ending(p, 1).pid = p
  BY <1>1 DEF Ending, Act
<1>3. SoundAct(Ending(p, 1), rest = <<>>, state, next, gone)
  BY <1>2 DEF SoundAct
<1> QED BY <1>0, <1>2, <1>3, FitsPush DEF Finish

\* The running program leaves a stack as sound as it found it.
LEMMA ProgramFits ==
    ASSUME Sound, StackInv, SlicesInv, NEW p \in Pid, Program(p) PROVE StackInv'
<1> USE ProcQueueAssumption
<1>0. Running(p)
  BY DEF Program, Fork, Queue, KillPID, WatchPID, SendEvent, TimerStart, TimerStop, WaitFor,
     Read, Pause, End
<1>1. /\ p <= next /\ p \in 1..next /\ state[p] = "runnable" /\ next \in Nat
      /\ Fits(stack, state, next, gone) /\ Fits(Below, state, next, gone) /\ NoRunOf(p, Below)
  BY <1>0, RunningFacts
<1>2. ASSUME UNCHANGED <<next, stack, state, gone>> PROVE StackInv'
  BY <1>1, <1>2, StackFits
<1>3. ASSUME NEW how, state' = [state EXCEPT ![p] = how], stack' = Below, UNCHANGED <<next, gone>>
      PROVE  StackInv'
  <2>1. \A q \in Pid : NoRunOf(q, Below) \/ state'[q] = "runnable"
    <3> SUFFICES ASSUME NEW q \in Pid, NEW k \in DOMAIN Below, Below[k].at = "run", Below[k].pid = q
                 PROVE  state'[q] = "runnable"
      BY DEF NoRunOf
    <3>1. state[q] = "runnable" /\ q # p
      BY <1>1 DEF Fits, SoundAct, NoRunOf
    <3> QED BY <1>3, <3>1 DEF Sound, BaseOK
  <2>2. Fits(Below, state', next, gone)
    BY <1>1, <2>1, FitsLater
  <2> QED BY <1>3, <2>2, StackFits
<1>4. CASE Fork(p) \/ Queue(p)
  <2>1. /\ UNCHANGED <<stack, gone>> /\ next' = next + 1
        /\ state' = [state EXCEPT ![next + 1] = "runnable"]
           \/ state' = [state EXCEPT ![next + 1] = "sleeping"]
    BY <1>4 DEF Fork, Queue, AddProcess, histVars
  <2>2. \A q \in Pid : NoRunOf(q, stack) \/ state'[q] = "runnable"
    <3> SUFFICES ASSUME NEW q \in Pid, NEW k \in DOMAIN stack, stack[k].at = "run", stack[k].pid = q
                 PROVE  state'[q] = "runnable"
      BY DEF NoRunOf
    <3>1. state[q] = "runnable" /\ q <= next /\ q \in Nat
      BY <1>1 DEF Fits, SoundAct, Pid
    <3> QED BY <1>1, <2>1, <3>1 DEF Sound, BaseOK
  <2>3. Fits(stack, state', next + 1, gone)
    BY <1>1, <2>2, FitsLater
  <2> QED BY <2>1, <2>3, StackFits
<1>5. ASSUME NEW q \in Pid, KillPID(p, q) PROVE StackInv'
  <2>1. q \in live /\ Finish(q, stack) /\ UNCHANGED <<next, state, gone>>
    BY <1>5 DEF KillPID, histVars
  <2>2. q <= next
    BY <1>1, <2>1 DEF Sound, BaseOK
  <2> QED BY <1>1, <2>1, <2>2, FinishFits, StackFits
<1>6. ASSUME NEW q \in Pid, WatchPID(p, q) PROVE StackInv'
  BY <1>2, <1>6 DEF WatchPID
<1>7. ASSUME NEW q \in Pid, SendEvent(p, q) PROVE StackInv'
  <2>1. UNCHANGED <<next, gone>>
    BY <1>7 DEF SendEvent, histVars
  <2>2. CASE q = p
    BY <1>2, <1>7, <2>1, <2>2 DEF SendEvent
  <2>3. CASE q # p
    <3>1. q \in live /\ Deliver(q, User, stack)
      BY <1>7, <2>3 DEF SendEvent
    <3>2. q <= next /\ q \notin gone
      BY <1>1, <3>1 DEF Sound, BaseOK, QueueInv
    <3> QED BY <1>1, <2>1, <3>1, <3>2, DeliverFits, StackFits
  <2> QED BY <2>2, <2>3
<1>8. ASSUME NEW t \in Timer, TimerStart(p, t) \/ TimerStop(p, t) PROVE StackInv'
  BY <1>2, <1>8 DEF TimerStart, TimerStop, histVars
<1>9. ASSUME NEW F \in Filters, WaitFor(p, F) PROVE StackInv'
  BY <1>2, <1>3, <1>9 DEF WaitFor, histVars
<1>10. CASE Read(p)
  BY <1>3, <1>10 DEF Read, histVars
<1>11. ASSUME NEW how \in {"sleeping", "runnable"}, Pause(p, how) PROVE StackInv'
  BY <1>3, <1>11 DEF Pause, histVars
<1>12. CASE End(p)
  <2>1. Finish(p, Below) /\ UNCHANGED <<next, state, gone>>
    BY <1>12 DEF End, histVars
  <2> QED BY <1>1, <2>1, FinishFits, StackFits
<1> QED BY <1>4, <1>5, <1>6, <1>7, <1>8, <1>9, <1>10, <1>11, <1>12 DEF Program

\* So do the world's operations and their loops.
LEMMA StackStep ==
    Sound /\ StackInv /\ SlicesInv /\ [Next]_vars => StackInv'
<1> SUFFICES ASSUME Sound, StackInv, SlicesInv, [Next]_vars PROVE StackInv'
  OBVIOUS
<1> USE ProcQueueAssumption
<1>a. next \in Nat /\ 1..next \subseteq Pid /\ live \subseteq (1..next) \ gone
  BY DEF Sound, BaseOK, QueueInv, Pid
<1>b. Fits(stack, state, next, gone)
  BY StackFits
<1>c. /\ <<>> \in Seq(Act) /\ DOMAIN <<>> = {} /\ \A s : s = <<>> => s \o <<>> = <<>>
      /\ \A st, nx, gn : Fits(<<>>, st, nx, gn)
  <2>1. <<>> \in Seq(Act) /\ DOMAIN <<>> = {}
    OBVIOUS
  <2> QED BY <2>1 DEF Fits
<1>1. CASE UNCHANGED vars
  BY <1>1, <1>b, StackFits DEF vars, procVars, histVars
<1>2. ASSUME NEW d \in Descr, RunProgram(d) PROVE StackInv'
  <2>1. /\ next' = next + 1 /\ next + 1 \in Pid /\ stack' = <<Run(next + 1)>> \o stack
        /\ state' = [state EXCEPT ![next + 1] = "runnable"]
    BY <1>a, <1>2 DEF RunProgram, AddProcess, Pid
  <2>2. state'[next + 1] = "runnable" /\ \A q \in Pid : q # next + 1 => state'[q] = state[q]
    BY <2>1 DEF Sound, BaseOK
  <2>3. Fits(stack, state', next + 1, gone')
    <3>1. CASE stack = <<>>
      BY <1>c, <3>1
    <3>2. CASE stack # <<>>
      <4>1. gone' = gone
        BY <1>2, <3>2 DEF RunProgram, Begin, Rest
      <4>2. \A q \in Pid : NoRunOf(q, stack) \/ state'[q] = "runnable"
        <5> SUFFICES ASSUME NEW q \in Pid, NEW k \in DOMAIN stack, stack[k].at = "run",
                            stack[k].pid = q
                     PROVE  state'[q] = "runnable"
          BY DEF NoRunOf
        <5>1. state[q] = "runnable" /\ q <= next /\ q \in Nat
          BY <1>b DEF Fits, SoundAct, Pid
        <5> QED BY <1>a, <2>2, <5>1
      <4> QED BY <1>a, <1>b, <4>1, <4>2, FitsLater
    <3> QED BY <3>1, <3>2
  <2>4. NoRunOf(next + 1, stack)
    BY <1>a, <1>b DEF Fits, SoundAct, NoRunOf
  <2>5. next + 1 \notin gone'
    BY <1>a, <1>2 DEF RunProgram, Begin, Sound, QueueInv
  <2>6. Run(next + 1) \in Act /\ Run(next + 1).at = "run" /\ Run(next + 1).pid = next + 1
    BY <2>1 DEF Run, Act
  <2>7. SoundAct(Run(next + 1), stack = <<>>, state', next + 1, gone')
    BY <1>a, <2>2, <2>5, <2>6 DEF SoundAct
  <2>8. Fits(stack', state', next + 1, gone')
    <3>1. next + 1 \in Nat
      BY <1>a
    <3>2. Fits(<<Run(next + 1)>> \o stack, state', next + 1, gone')
      BY <2>3, <2>4, <2>6, <2>7, <3>1, FitsPush
    <3> QED BY <2>1, <3>2
  <2> QED BY <2>1, <2>8, StackFits
<1>3. ASSUME NEW d \in Descr, ReadInput(d) PROVE StackInv'
  <2> DEFINE q == ReaderFor(d)
  <2>1. q \in live
    BY <1>3 DEF ReadInput, ReaderFor
  <2>2. /\ gone' = (1..next) \ live /\ next' = next /\ stack' = <<Run(q)>> \o <<>>
        /\ state' = [state EXCEPT ![q] = "runnable"]
    BY <1>3 DEF ReadInput, Begin, Resume
  <2> HIDE DEF q
  <2>3. q \in Pid /\ q <= next /\ q \notin gone' /\ state'[q] = "runnable"
    BY <1>a, <2>1, <2>2 DEF Sound, BaseOK
  <2>4. Fits(<<>>, state', next, gone')
    BY <1>c
  <2>5. NoRunOf(q, <<>>)
    BY <1>c DEF NoRunOf
  <2>6. Fits(stack', state', next, gone')
    BY <1>a, <2>2, <2>3, <2>4, <2>5, RunFits
  <2> QED BY <2>2, <2>6, StackFits
<1>4. ASSUME NEW S \in (SUBSET live) \ {{}}, KillSweep(S) PROVE StackInv'
  <2>1. /\ UNCHANGED <<next, state>> /\ stack' = <<Sweeping(PidOrder(S))>> \o stack
        /\ stack = <<>> \/ gone' = gone
    BY <1>4 DEF KillSweep, Begin, Rest, procVars
  <2>2. S \in SUBSET (1..next) /\ S \subseteq Pid
    BY <1>a
  <2>3. /\ PidOrder(S) \in Seq(Pid)
        /\ \A i \in DOMAIN PidOrder(S) : PidOrder(S)[i] \in S
    BY <1>a, <2>2, PidOrderLists
  <2>4. /\ Sweeping(PidOrder(S)) \in Act /\ Sweeping(PidOrder(S)).at = "sweep"
        /\ Sweeping(PidOrder(S)).todo = PidOrder(S)
    BY <2>3 DEF Sweeping, Act
  <2>5. SoundAct(Sweeping(PidOrder(S)), stack = <<>>, state, next, gone')
    <3>0. \A x \in S : x <= next
      BY <1>a, <2>2
    <3>1. \A i \in DOMAIN PidOrder(S) : PidOrder(S)[i] <= next
      BY <2>3, <3>0, Zenon
    <3> QED BY <2>4, <3>1, Zenon DEF SoundAct
  <2>6. Fits(stack, state, next, gone')
    BY <1>b, <1>c, <2>1
  <2>7. Fits(stack', state, next, gone')
    BY <1>a, <2>1, <2>4, <2>5, <2>6, FitsPush
  <2> QED BY <2>1, <2>7, StackFits
<1>5. CASE Tick
  <2> DEFINE a == Timing(PidOrder(live), 0, <<>>)
  <2>1. UNCHANGED <<next, state>> /\ stack' = <<a>> /\ gone' = (1..next) \ live
    BY <1>5 DEF Tick, Begin, procVars
  <2>2. /\ PidOrder(live) \in Seq(Pid)
        /\ \A i \in DOMAIN PidOrder(live) : PidOrder(live)[i] \in live
    BY <1>a, PidOrderLists
  <2>3. a \in Act /\ a.at = "timers" /\ a.todo = PidOrder(live) /\ a.pid = 0 /\ a.due = <<>>
    BY <2>2 DEF Timing, Act
  <2> HIDE DEF a
  <2>4. SoundAct(a, <<>> = <<>>, state, next, gone')
    <3>1. \A i \in DOMAIN a.todo : a.todo[i] \in (1..next) \ gone'
      BY <1>a, <2>1, <2>2, <2>3
    <3>2. 0 <= next /\ 0 \notin gone'
      BY <1>a, <2>1
    <3> QED BY <2>3, <3>1, <3>2, Zenon DEF SoundAct
  <2>5. <<a>> \o <<>> = <<a>>
    BY <2>3
  <2>7. Fits(<<>>, state, next, gone') /\ a.at # "run"
    BY <1>c, <2>3
  <2>6. Fits(stack', state, next, gone')
    <3>1. Fits(<<a>> \o <<>>, state, next, gone')
      BY <1>a, <2>3, <2>4, <2>7, FitsPush
    <3> QED BY <2>1, <2>5, <3>1
  <2> QED BY <2>1, <2>6, StackFits
<1>6. CASE SweepEnds \/ TickEnds
  <2>1. UNCHANGED <<next, state, gone>> /\ stack' = Below /\ \E w : Doing(w)
    BY <1>6 DEF SweepEnds, TickEnds, procVars, histVars
  <2> QED BY <2>1, LoopFacts, StackFits
<1>7. CASE SweepNext
  <2> DEFINE p == Head(Top.todo)
             b == Sweeping(Tail(Top.todo))
  <2>1. /\ UNCHANGED <<next, state, gone>> /\ Finish(p, <<b>> \o Below)
        /\ Doing("sweep") /\ Top.todo # <<>>
    BY <1>7 DEF SweepNext, histVars
  <2>2. /\ Top.todo \in Seq(Pid) /\ Fits(Below, state, next, gone)
        /\ \A i \in DOMAIN Top.todo : Top.todo[i] <= next
    BY <2>1, LoopFacts, ActFields DEF SoundAct
  <2>3. /\ p \in Pid /\ p <= next /\ Tail(Top.todo) \in Seq(Pid)
        /\ \A i \in DOMAIN Tail(Top.todo) : Tail(Top.todo)[i] <= next
    BY <2>1, <2>2
  <2>4. b \in Act /\ b.at = "sweep" /\ b.todo = Tail(Top.todo)
    BY <2>3 DEF Sweeping, Act
  <2> HIDE DEF b, p
  <2>5. SoundAct(b, Below = <<>>, state, next, gone)
    BY <2>3, <2>4 DEF SoundAct
  <2>6. Fits(<<b>> \o Below, state, next, gone)
    BY <1>a, <2>2, <2>4, <2>5, FitsPush
  <2> QED BY <2>1, <2>3, <2>6, FinishFits, StackFits
<1>8. CASE TimersOf
  <2>1. /\ Doing("timers") /\ Top.todo # <<>> /\ UNCHANGED <<next, state, gone>>
        /\ \E D \in SUBSET timers[Head(Top.todo)] : \E fired \in Orders(D) :
              stack' = <<Timing(Tail(Top.todo), Head(Top.todo), fired)>> \o Below
    BY <1>8 DEF TimersOf, histVars
  <2>a. PICK D \in SUBSET timers[Head(Top.todo)] : \E fired \in Orders(D) :
              stack' = <<Timing(Tail(Top.todo), Head(Top.todo), fired)>> \o Below
    BY <2>1
  <2>2. PICK fired \in Orders(D) :
              stack' = <<Timing(Tail(Top.todo), Head(Top.todo), fired)>> \o Below
    BY <2>a
  <2>3. /\ Top.todo \in Seq(Pid) /\ Below = <<>> /\ Fits(Below, state, next, gone)
        /\ \A i \in DOMAIN Top.todo : Top.todo[i] \in (1..next) \ gone
    BY <2>1, LoopFacts, ActFields DEF SoundAct
  <2>4. /\ Head(Top.todo) \in Pid /\ Head(Top.todo) \in (1..next) \ gone
        /\ Tail(Top.todo) \in Seq(Pid)
        /\ \A i \in DOMAIN Tail(Top.todo) : Tail(Top.todo)[i] \in (1..next) \ gone
    BY <2>1, <2>3
  <2>5. fired \in Seq(Timer)
    <3>1. IsFiniteSet(D) /\ D \subseteq Timer
      BY <2>2, <2>4, FS_Subset DEF Sound, BaseOK, QueueInv
    <3> QED BY <3>1, OrdersLists
  <2> DEFINE a == Timing(Tail(Top.todo), Head(Top.todo), fired)
  <2>6. a \in Act /\ a.at = "timers" /\ a.todo = Tail(Top.todo) /\ a.pid = Head(Top.todo)
    BY <2>4, <2>5 DEF Timing, Act, Pid
  <2>7. stack' = <<a>> \o Below
    BY <2>2
  <2> HIDE DEF a
  <2>8. SoundAct(a, Below = <<>>, state, next, gone)
    BY <1>a, <2>3, <2>4, <2>6 DEF SoundAct
  <2> QED BY <1>a, <2>1, <2>3, <2>6, <2>7, <2>8, FitsPush, StackFits
<1>9. CASE FireTimer
  <2> DEFINE a == Timing(Top.todo, Top.pid, Tail(Top.due))
  <2>1. /\ Doing("timers") /\ Top.due # <<>> /\ UNCHANGED <<next, gone>>
        /\ Deliver(Top.pid, Fired(Head(Top.due)), <<a>> \o Below)
    BY <1>9 DEF FireTimer, histVars
  <2>2. /\ Top \in Act /\ Top.at = "timers" /\ Below = <<>> /\ Fits(Below, state, next, gone)
        /\ SoundAct(Top, 1 = Len(stack), state, next, gone)
    BY <2>1, LoopFacts
  <2>3. /\ Top.todo \in Seq(Pid) /\ Top.pid \in Pid /\ Top.due \in Seq(Timer)
        /\ Top.pid <= next /\ Top.pid \notin gone
        /\ \A i \in DOMAIN Top.todo : Top.todo[i] \in (1..next) \ gone
    BY <2>1, <2>2, ActFields DEF SoundAct, Pid
  <2>4. Tail(Top.due) \in Seq(Timer)
    BY <2>1, <2>3
  <2>5. a \in Act /\ a.at = "timers" /\ a.todo = Top.todo /\ a.pid = Top.pid
    BY <2>3, <2>4 DEF Timing, Act, Pid
  <2> HIDE DEF a
  <2>6. SoundAct(a, Below = <<>>, state, next, gone)
    BY <2>2, <2>3, <2>5 DEF SoundAct, Pid
  <2>7. Fits(<<a>> \o Below, state, next, gone)
    BY <1>a, <2>2, <2>5, <2>6, FitsPush
  <2> QED BY <2>1, <2>3, <2>7, DeliverFits, StackFits
<1>10. CASE ListDue
  <2>1. PICK S \in SUBSET {p \in live : state[p] = "sleeping"} :
           stack' = <<Resuming(PidOrder({p \in live : state[p] = "runnable"} \cup S))>> \o Below
    BY <1>10 DEF ListDue
  <2> DEFINE L == {p \in live : state[p] = "runnable"} \cup S
             a == Resuming(PidOrder(L))
  <2>2. L \in SUBSET (1..next) /\ L \subseteq Pid /\ L \subseteq live
    BY <1>a
  <2> HIDE DEF L
  <2>3. PidOrder(L) \in Seq(Pid) /\ \A i \in DOMAIN PidOrder(L) : PidOrder(L)[i] \in L
    BY <1>a, <2>2, PidOrderLists
  <2>4. a \in Act /\ a.at = "due" /\ a.todo = PidOrder(L)
    BY <2>3 DEF Resuming, Act
  <2>5. stack' = <<a>> \o Below
    BY <2>1 DEF L
  <2>6. Doing("timers") /\ UNCHANGED <<next, state, gone>>
    BY <1>10 DEF ListDue, procVars, histVars
  <2>7. Below = <<>> /\ Fits(Below, state, next, gone)
    BY <2>6, LoopFacts
  <2> HIDE DEF a
  <2>8. SoundAct(a, Below = <<>>, state, next, gone)
    BY <1>a, <2>2, <2>3, <2>4, <2>7 DEF SoundAct
  <2> QED BY <1>a, <2>4, <2>5, <2>6, <2>7, <2>8, FitsPush, StackFits
<1>11. CASE ResumeDue
  <2> DEFINE a == Resuming(Tail(Top.todo))
             q == Head(Top.todo)
  <2>1. /\ Doing("due") /\ Top.todo # <<>> /\ UNCHANGED <<next, gone>>
        /\ state' = [state EXCEPT ![q] = "runnable"]
        /\ stack' = <<Run(q)>> \o (<<a>> \o Below)
    BY <1>11 DEF ResumeDue, Resume, histVars
  <2>2. /\ Top.todo \in Seq(Pid) /\ Below = <<>>
        /\ \A i \in DOMAIN Top.todo : Top.todo[i] \in (1..next) \ gone
    BY <2>1, LoopFacts, ActFields DEF SoundAct
  <2>3. /\ q \in Pid /\ q \in (1..next) \ gone /\ Tail(Top.todo) \in Seq(Pid)
        /\ \A i \in DOMAIN Tail(Top.todo) : Tail(Top.todo)[i] \in (1..next) \ gone
    BY <2>1, <2>2
  <2>4. a \in Act /\ a.at = "due" /\ a.todo = Tail(Top.todo)
    BY <2>3 DEF Resuming, Act
  <2> HIDE DEF a, q
  <2>6. SoundAct(a, Below = <<>>, state', next, gone)
    BY <2>2, <2>3, <2>4 DEF SoundAct
  <2>7. /\ Fits(<<a>> \o Below, state', next, gone) /\ DOMAIN Below = {}
        /\ DOMAIN (<<a>> \o Below) = {1} /\ (<<a>> \o Below)[1] = a
    <3>1. Fits(Below, state', next, gone) /\ a.at # "run"
      BY <1>c, <2>2, <2>4
    <3>2. /\ Fits(<<a>> \o Below, state', next, gone) /\ (<<a>> \o Below)[1] = a
          /\ DOMAIN (<<a>> \o Below) = 1..(Len(Below) + 1)
      BY <1>a, <2>4, <2>6, <3>1, FitsPush
    <3> QED BY <1>c, <2>2, <3>2
  <2>8. NoRunOf(q, <<a>> \o Below)
    BY <2>4, <2>7 DEF NoRunOf
  <2>9. q <= next /\ q \notin gone /\ state'[q] = "runnable"
    BY <1>a, <2>1, <2>3 DEF Sound, BaseOK
  <2> DEFINE t == <<a>> \o Below
  <2>10. Fits(t, state', next, gone) /\ NoRunOf(q, t) /\ stack' = <<Run(q)>> \o t
    BY <2>1, <2>7, <2>8
  <2> HIDE DEF t
  <2>11. Fits(stack', state', next, gone)
    BY <1>a, <2>3, <2>9, <2>10, RunFits
  <2> QED BY <2>1, <2>11, StackFits
<1>12. CASE NotifyWaiter
  <2> DEFINE w == heap[Top.arr][Top.k]
             a == [Top EXCEPT !.k = @ + 1]
  <2>1. Doing("finish") /\ UNCHANGED <<next, gone>>
    BY <1>12 DEF NotifyWaiter
  <2>2. /\ Top \in Act /\ Top.at = "finish" /\ Fits(Below, state, next, gone)
        /\ SoundAct(Top, 1 = Len(stack), state, next, gone)
    BY <2>1, LoopFacts
  <2>3. a \in Act /\ a.at = "finish" /\ a.pid = Top.pid
    BY <2>2 DEF Act
  <2>4. \/ w \in live /\ Deliver(w, Exit(Top.pid), <<a>> \o Below)
        \/ stack' = <<a>> \o Below /\ UNCHANGED state
    BY <1>12 DEF NotifyWaiter
  <2> HIDE DEF a, w
  <2>5. SoundAct(a, Below = <<>>, state, next, gone)
    BY <2>2, <2>3 DEF SoundAct
  <2>6. Fits(<<a>> \o Below, state, next, gone)
    BY <1>a, <2>2, <2>3, <2>5, FitsPush
  <2>7. CASE w \in live /\ Deliver(w, Exit(Top.pid), <<a>> \o Below)
    <3>1. w \in Pid /\ w <= next /\ w \notin gone
      BY <1>a, <2>7
    <3> QED BY <2>1, <2>6, <2>7, <3>1, DeliverFits, StackFits
  <2>8. CASE stack' = <<a>> \o Below /\ UNCHANGED state
    BY <2>1, <2>6, <2>8, StackFits
  <2> QED BY <2>4, <2>7, <2>8
<1>13. CASE Remove
  <2>1. UNCHANGED <<next, state, gone>> /\ stack' = Below /\ Doing("finish")
    BY <1>13 DEF Remove, procVars, histVars
  <2> QED BY <2>1, LoopFacts, StackFits
<1>14. ASSUME NEW p \in Pid, Program(p) PROVE StackInv'
  BY <1>14, ProgramFits
<1> QED BY <1>1, <1>2, <1>3, <1>4, <1>5, <1>6, <1>7, <1>8, <1>9, <1>10, <1>11, <1>12, <1>13,
        <1>14 DEF Next, Loop

-------------------------------------------------------------------------------
(* The arrays behind the lists of watchers.                                *)

\* SlicesInv without the stack, of any arrays, slices, lists and last pid.
Slices(hp, wt, we, nx) ==
    /\ hp \in Seq(Seq(0..MaxPid)) /\ wt \in [Pid -> [arr : Nat, len : Nat]]
    /\ \A p, q \in Pid : wt[p].arr = wt[q].arr => p = q
    /\ \A p \in Pid : /\ wt[p].arr \in DOMAIN hp
                      /\ wt[p].len <= Len(hp[wt[p].arr])
                      /\ \A j \in 1..wt[p].len : hp[wt[p].arr][j] \in 1..nx
    /\ \A p \in Pid : p \notin we[p] /\ (p > nx => wt[p].len = 0)

\* An array that a process being ended ranges over is its own or nobody's.
Ranged(a, hp, wt) ==
    a.at = "finish" => /\ a.arr \in DOMAIN hp
                       /\ \A q \in Pid : wt[q].arr = a.arr => q = a.pid

\* SlicesInv is the two, the second of every activation.
LEMMA SlicesAre ==
    /\ SlicesInv <=> /\ Slices(heap, waiters, waitees, next)
                     /\ \A k \in DOMAIN stack : Ranged(stack[k], heap, waiters)
    /\ SlicesInv' <=> /\ Slices(heap', waiters', waitees', next')
                      /\ \A k \in DOMAIN stack' : Ranged(stack'[k], heap', waiters')
BY DEF SlicesInv, Slices, Ranged

\* What a list's slice and its array are.
LEMMA SliceFacts ==
    ASSUME SlicesInv, NEW q \in Pid
    PROVE  /\ waiters[q].arr \in Nat /\ waiters[q].len \in Nat
           /\ waiters[q] = [arr |-> waiters[q].arr, len |-> waiters[q].len]
           /\ waiters[q].arr \in DOMAIN heap /\ heap[waiters[q].arr] \in Seq(0..MaxPid)
           /\ waiters[q].len <= Len(heap[waiters[q].arr])
           /\ Len(heap[waiters[q].arr]) \in Nat
           /\ DOMAIN heap[waiters[q].arr] = 1..Len(heap[waiters[q].arr])
           /\ Watching(waiters[q]) = {heap[waiters[q].arr][k] : k \in 1..waiters[q].len}
<1>1. /\ waiters[q] \in [arr : Nat, len : Nat] /\ waiters[q].arr \in DOMAIN heap
      /\ waiters[q].len <= Len(heap[waiters[q].arr]) /\ heap \in Seq(Seq(0..MaxPid))
  BY DEF SlicesInv
<1>2. heap[waiters[q].arr] \in Seq(0..MaxPid)
  BY <1>1, ElementOfSeq
<1> DEFINE s == heap[waiters[q].arr]
           n == waiters[q].len
<1>3. s \in Seq(0..MaxPid) /\ n \in Nat /\ n <= Len(s)
  BY <1>1, <1>2
<1> HIDE DEF s, n
<1>4. \A k \in 1..n : SubSeq(s, 1, n)[k] = s[k]
  BY <1>3
<1>5. {SubSeq(s, 1, n)[k] : k \in 1..n} = {s[k] : k \in 1..n}
  BY <1>4
<1>6. Watching(waiters[q]) = {SubSeq(s, 1, n)[k] : k \in 1..n}
  BY DEF Watching, Cells, s, n
<1>7. Len(s) \in Nat /\ DOMAIN s = 1..Len(s)
  BY <1>3
<1> QED BY <1>1, <1>2, <1>5, <1>6, <1>7 DEF s, n

\* removePID moves what is behind the first of w one cell forward, and leaves
\* the last cell as it was.
LEMMA ShiftOutIs ==
    ASSUME NEW T, NEW s \in Seq(T), NEW n \in Nat, n <= Len(s), NEW w,
           \E k \in 1..n : s[k] = w
    PROVE  /\ ShiftOut(s, n, w) \in Seq(T) /\ Len(ShiftOut(s, n, w)) = Len(s)
           /\ \E at \in 1..n :
                 /\ s[at] = w /\ \A j \in 1..(at - 1) : s[j] # w
                 /\ \A k \in 1..Len(s) :
                       ShiftOut(s, n, w)[k] = IF k >= at /\ k < n THEN s[k + 1] ELSE s[k]
<1> DEFINE First(k) == k \in 1..n /\ s[k] = w /\ \A j \in 1..(k - 1) : s[j] # w
           at == CHOOSE k \in 1..n : s[k] = w /\ \A j \in 1..(k - 1) : s[j] # w
           r == [k \in DOMAIN s |-> IF k >= at /\ k < n THEN s[k + 1] ELSE s[k]]
<1>1. \E k \in 1..n : First(k)
  <2> DEFINE I == {k \in 1..n : s[k] = w}
             l == CHOOSE k \in I : \A j \in I : k <= j
  <2>1. I \in SUBSET Nat /\ I # {}
    OBVIOUS
  <2>2. l \in I /\ \A j \in I : l <= j
    BY <2>1, LeastIs
  <2> HIDE DEF l
  <2>3. \A j \in 1..(l - 1) : s[j] # w
    BY <2>2
  <2> QED BY <2>2, <2>3
<1>2. at \in 1..n /\ s[at] = w /\ \A j \in 1..(at - 1) : s[j] # w
  BY <1>1
<1> HIDE DEF at
<1>3. /\ Len(s) \in Nat /\ DOMAIN s = 1..Len(s) /\ at \in Nat
      /\ \A k \in 1..Len(s) : s[k] \in T
  BY <1>2
<1>4. \A k \in 1..Len(s) : (IF k >= at /\ k < n THEN s[k + 1] ELSE s[k]) \in T
  <2> TAKE k \in 1..Len(s)
  <2>1. k < n => k + 1 \in 1..Len(s)
    BY <1>3
  <2> QED BY <1>3, <2>1
<1>5. r \in [1..Len(s) -> T]
  BY <1>3, <1>4
<1>6. r \in Seq(T) /\ Len(r) = Len(s)
  <2>1. r \in Seq(T)
    BY <1>3, <1>5, SeqDef
  <2>2. DOMAIN r = 1..Len(s)
    BY <1>5
  <2> HIDE DEF r
  <2> QED BY <1>3, <2>1, <2>2, LenProperties
<1>7. ShiftOut(s, n, w) = r
  BY DEF ShiftOut, at
<1>8. \A k \in 1..Len(s) : r[k] = IF k >= at /\ k < n THEN s[k + 1] ELSE s[k]
  BY <1>3
<1> HIDE DEF r
<1> QED BY <1>2, <1>6, <1>7, <1>8

\* The list of q's watchers loses the first w in it.
ShiftedOut(q, w) ==
    \E at \in 1..waiters[q].len :
       /\ heap[waiters[q].arr][at] = w
       /\ \A j \in 1..(at - 1) : heap[waiters[q].arr][j] # w
       /\ waiters'[q].len = waiters[q].len - 1
       /\ \A k \in 1..Len(heap[waiters[q].arr]) :
             heap'[waiters[q].arr][k] =
                 IF k >= at /\ k < waiters[q].len
                 THEN heap[waiters[q].arr][k + 1] ELSE heap[waiters[q].arr][k]

\* Those of S that hold w lose the first of it; nothing else changes.
LEMMA RemoveIs ==
    ASSUME SlicesInv, NEW S \in SUBSET Pid, NEW w, RemoveWaiter(S, w)
    PROVE  /\ heap' \in Seq(Seq(0..MaxPid)) /\ waiters' \in [Pid -> [arr : Nat, len : Nat]]
           /\ DOMAIN heap' = DOMAIN heap
           /\ \A a \in DOMAIN heap : Len(heap'[a]) = Len(heap[a])
           /\ \A q \in Pid : waiters'[q].arr = waiters[q].arr
           /\ \A q \in S : w \in Watching(waiters[q]) => ShiftedOut(q, w)
           /\ \A q \in Pid : ~(q \in S /\ w \in Watching(waiters[q])) =>
                 waiters'[q] = waiters[q] /\ heap'[waiters[q].arr] = heap[waiters[q].arr]
           /\ \A a \in DOMAIN heap : (\A q \in Pid : waiters[q].arr # a) => heap'[a] = heap[a]
<1> DEFINE held == {q \in S : w \in Watching(waiters[q])}
           owner(a) == CHOOSE q \in held : waiters[q].arr = a
<1>1. /\ waiters' = [q \in Pid |-> IF q \in held THEN [waiters[q] EXCEPT !.len = @ - 1]
                                   ELSE waiters[q]]
      /\ heap' = [a \in DOMAIN heap |->
                    IF \E q \in held : waiters[q].arr = a
                    THEN ShiftOut(heap[a], waiters[owner(a)].len, w) ELSE heap[a]]
  BY DEF RemoveWaiter
<1>2. /\ held \subseteq S /\ held \subseteq Pid
      /\ \A q \in Pid : q \in held <=> q \in S /\ w \in Watching(waiters[q])
  OBVIOUS
<1>3. \A q \in held : owner(waiters[q].arr) = q
  <2> TAKE q \in held
  <2>1. owner(waiters[q].arr) \in held /\ waiters[owner(waiters[q].arr)].arr = waiters[q].arr
    OBVIOUS
  <2> HIDE DEF owner
  <2> QED BY <1>2, <2>1 DEF SlicesInv
<1> HIDE DEF held, owner
<1>4. ASSUME NEW q \in held
      PROVE  /\ heap'[waiters[q].arr] = ShiftOut(heap[waiters[q].arr], waiters[q].len, w)
             /\ ShiftOut(heap[waiters[q].arr], waiters[q].len, w) \in Seq(0..MaxPid)
             /\ Len(heap'[waiters[q].arr]) = Len(heap[waiters[q].arr])
             /\ \E at \in 1..waiters[q].len :
                    /\ heap[waiters[q].arr][at] = w
                    /\ \A j \in 1..(at - 1) : heap[waiters[q].arr][j] # w
                    /\ \A k \in 1..Len(heap[waiters[q].arr]) :
                          heap'[waiters[q].arr][k] =
                              IF k >= at /\ k < waiters[q].len
                              THEN heap[waiters[q].arr][k + 1] ELSE heap[waiters[q].arr][k]
  <2>1. q \in Pid /\ w \in Watching(waiters[q])
    BY <1>2
  <2>2. /\ waiters[q].len \in Nat /\ waiters[q].arr \in DOMAIN heap
        /\ heap[waiters[q].arr] \in Seq(0..MaxPid)
        /\ waiters[q].len <= Len(heap[waiters[q].arr])
        /\ Watching(waiters[q]) = {heap[waiters[q].arr][k] : k \in 1..waiters[q].len}
    BY <2>1, SliceFacts
  <2>3. \E k \in 1..waiters[q].len : heap[waiters[q].arr][k] = w
    BY <2>1, <2>2
  <2>4. heap'[waiters[q].arr] = ShiftOut(heap[waiters[q].arr], waiters[q].len, w)
    BY <1>1, <1>3, <2>2
  <2> DEFINE s == heap[waiters[q].arr]
             n == waiters[q].len
             t == heap'[waiters[q].arr]
  <2>5. /\ s \in Seq(0..MaxPid) /\ n \in Nat /\ n <= Len(s) /\ t = ShiftOut(s, n, w)
        /\ \E k \in 1..n : s[k] = w
    BY <2>2, <2>3, <2>4
  <2> HIDE DEF s, n, t
  <2>6. /\ t \in Seq(0..MaxPid) /\ Len(t) = Len(s)
        /\ \E at \in 1..n :
                 /\ s[at] = w /\ \A j \in 1..(at - 1) : s[j] # w
                 /\ \A k \in 1..Len(s) : t[k] = IF k >= at /\ k < n THEN s[k + 1] ELSE s[k]
    BY <2>5, ShiftOutIs
  <2> QED BY <2>5, <2>6 DEF s, n, t
<1>5. \A q \in held : /\ waiters'[q].arr = waiters[q].arr
                      /\ waiters'[q].len = waiters[q].len - 1
                      /\ waiters'[q] \in [arr : Nat, len : Nat]
  <2> TAKE q \in held
  <2>1. q \in Pid /\ waiters[q] \in [arr : Nat, len : Nat]
    BY <1>2 DEF SlicesInv
  <2>2. waiters'[q] = [waiters[q] EXCEPT !.len = @ - 1]
    BY <1>1, <2>1
  <2>3. 1 <= waiters[q].len
    BY <1>4, <2>1
  <2> QED BY <2>1, <2>2, <2>3
<1>6. \A q \in Pid : q \notin held =>
          waiters'[q] = waiters[q] /\ heap'[waiters[q].arr] = heap[waiters[q].arr]
  <2> SUFFICES ASSUME NEW q \in Pid, q \notin held
               PROVE  waiters'[q] = waiters[q] /\ heap'[waiters[q].arr] = heap[waiters[q].arr]
    OBVIOUS
  <2>1. waiters[q].arr \in DOMAIN heap /\ ~ \E r \in held : waiters[r].arr = waiters[q].arr
    BY <1>2 DEF SlicesInv
  <2> QED BY <1>1, <2>1
<1>7. \A a \in DOMAIN heap : (\A q \in Pid : waiters[q].arr # a) => heap'[a] = heap[a]
  BY <1>1, <1>2
<1>8. \A a \in DOMAIN heap : heap'[a] \in Seq(0..MaxPid) /\ Len(heap'[a]) = Len(heap[a])
  <2> TAKE a \in DOMAIN heap
  <2>1. heap[a] \in Seq(0..MaxPid)
    BY ElementOfSeq DEF SlicesInv
  <2>2. CASE \E q \in held : waiters[q].arr = a
    BY <1>4, <2>2
  <2>3. CASE ~ \E q \in held : waiters[q].arr = a
    BY <1>1, <2>1, <2>3
  <2> QED BY <2>2, <2>3
<1>9. DOMAIN heap' = DOMAIN heap /\ heap' \in Seq(Seq(0..MaxPid))
  <2>1. heap' = [a \in DOMAIN heap |-> heap'[a]] /\ DOMAIN heap' = DOMAIN heap
    BY <1>1
  <2>2. DOMAIN heap = 1..Len(heap) /\ Len(heap) \in Nat
    BY DEF SlicesInv
  <2>3. heap' \in [1..Len(heap) -> Seq(0..MaxPid)]
    BY <1>8, <2>1, <2>2
  <2> QED BY <2>1, <2>2, <2>3, SeqDef
<1>10. waiters' \in [Pid -> [arr : Nat, len : Nat]]
  <2>1. \A q \in Pid : waiters'[q] \in [arr : Nat, len : Nat]
    BY <1>5, <1>6 DEF SlicesInv
  <2>2. waiters' = [q \in Pid |-> waiters'[q]]
    BY <1>1
  <2> QED BY <2>1, <2>2
<1>11. \A q \in Pid : waiters'[q].arr = waiters[q].arr
  BY <1>5, <1>6
<1>12. \A q \in S : w \in Watching(waiters[q]) => ShiftedOut(q, w)
  BY <1>2, <1>4, <1>5 DEF ShiftedOut
<1> QED BY <1>2, <1>6, <1>7, <1>8, <1>9, <1>10, <1>11, <1>12, Zenon

\* append puts w behind the list, in its array while there is room; otherwise
\* it leaves that array as it was, for one that nothing had.
LEMMA AppendIs ==
    ASSUME SlicesInv, NEW q \in Pid, NEW w \in Pid, AppendWaiter(q, w)
    PROVE  /\ heap' \in Seq(Seq(0..MaxPid)) /\ waiters' \in [Pid -> [arr : Nat, len : Nat]]
           /\ \A a \in DOMAIN heap : a \in DOMAIN heap' /\ Len(heap'[a]) = Len(heap[a])
           /\ \A p \in Pid : p # q => waiters'[p] = waiters[p]
           /\ waiters'[q].len = waiters[q].len + 1
           /\ waiters'[q].arr \in DOMAIN heap'
           /\ waiters'[q].len <= Len(heap'[waiters'[q].arr])
           /\ heap'[waiters'[q].arr][waiters[q].len + 1] = w
           /\ \A j \in 1..waiters[q].len :
                 /\ heap'[waiters'[q].arr][j] = heap[waiters[q].arr][j]
                 /\ heap'[waiters[q].arr][j] = heap[waiters[q].arr][j]
           /\ \A a \in DOMAIN heap : a # waiters[q].arr => heap'[a] = heap[a]
           /\ \/ waiters'[q].arr = waiters[q].arr
              \/ waiters'[q].arr \notin DOMAIN heap /\ heap'[waiters[q].arr] = heap[waiters[q].arr]
<1> DEFINE a == waiters[q].arr
           n == waiters[q].len
           s == heap[a]
<1>1. /\ a \in DOMAIN heap /\ n \in Nat /\ s \in Seq(0..MaxPid) /\ n <= Len(s)
      /\ Len(s) \in Nat /\ DOMAIN s = 1..Len(s) /\ waiters[q] = [arr |-> a, len |-> n]
      /\ a \in Nat
  BY SliceFacts
<1>2. /\ heap \in Seq(Seq(0..MaxPid)) /\ DOMAIN heap = 1..Len(heap) /\ Len(heap) \in Nat
      /\ waiters \in [Pid -> [arr : Nat, len : Nat]]
      /\ \A b \in DOMAIN heap : heap[b] \in Seq(0..MaxPid)
  BY DEF SlicesInv
<1>3. w \in 0..MaxPid /\ MaxPid \in Nat
  BY ProcQueueAssumption DEF Pid
<1>4. CASE n < Len(s)
  <2>1. heap' = [heap EXCEPT ![a][n + 1] = w] /\ waiters' = [waiters EXCEPT ![q].len = n + 1]
    BY <1>4 DEF AppendWaiter
  <2> HIDE DEF a, n, s
  <2>2. [s EXCEPT ![n + 1] = w] \in Seq(0..MaxPid) /\ Len([s EXCEPT ![n + 1] = w]) = Len(s)
    BY <1>1, <1>3, <1>4, ExceptSeq
  <2>3. /\ DOMAIN heap' = DOMAIN heap /\ heap'[a] = [s EXCEPT ![n + 1] = w]
        /\ \A b \in DOMAIN heap : b # a => heap'[b] = heap[b]
    BY <1>1, <2>1 DEF s
  <2>4. heap' \in Seq(Seq(0..MaxPid))
    <3>1. \A b \in DOMAIN heap : heap'[b] \in Seq(0..MaxPid)
      BY <1>2, <2>2, <2>3
    <3>2. heap' = [b \in DOMAIN heap |-> heap'[b]]
      BY <2>1
    <3>3. heap' \in [1..Len(heap) -> Seq(0..MaxPid)]
      BY <1>2, <3>1, <3>2
    <3>4. Len(heap) \in Nat
      BY <1>2
    <3> QED BY <3>3, <3>4, SeqDef
  <2>5. /\ waiters' \in [Pid -> [arr : Nat, len : Nat]]
        /\ waiters'[q].arr = a /\ waiters'[q].len = n + 1
        /\ \A p \in Pid : p # q => waiters'[p] = waiters[p]
    BY <1>1, <1>2, <2>1
  <2>6. /\ heap'[a][n + 1] = w /\ \A j \in 1..n : heap'[a][j] = s[j]
    BY <1>1, <1>4, <2>3
  <2>7. \A b \in DOMAIN heap : b \in DOMAIN heap' /\ Len(heap'[b]) = Len(heap[b])
    BY <2>2, <2>3 DEF s
  <2>8. a \in DOMAIN heap' /\ n + 1 <= Len(heap'[a])
    BY <1>1, <1>4, <2>2, <2>3
  <2>9. \A j \in 1..n : heap'[a][j] = heap[a][j]
    BY <2>6 DEF s
  <2> QED BY <2>3, <2>4, <2>5, <2>6, <2>7, <2>8, <2>9, Zenon DEF a, n
<1>5. CASE ~(n < Len(s))
  <2> DEFINE z == [k \in 1..(n - 1) |-> 0]
             t == Append(s, w) \o z
             m == Len(heap) + 1
  <2>1. heap' = Append(heap, t) /\ waiters' = [waiters EXCEPT ![q] = [arr |-> m, len |-> n + 1]]
    BY <1>5 DEF AppendWaiter
  <2> HIDE DEF a, n, s
  <2>2. n = Len(s)
    BY <1>1, <1>5
  <2>3. z \in Seq(0..MaxPid)
    <3>1. CASE n = 0
      <4>1. 1..(n - 1) = 1..0 /\ 0 \in Nat
        BY <3>1
      <4>2. z \in [1..0 -> 0..MaxPid]
        BY <1>3, <4>1
      <4> HIDE DEF z
      <4> QED BY <4>1, <4>2, SeqDef
    <3>2. CASE n # 0
      <4>1. n - 1 \in Nat
        BY <1>1, <3>2
      <4>2. z \in [1..(n - 1) -> 0..MaxPid]
        BY <1>3
      <4> HIDE DEF z
      <4> QED BY <4>1, <4>2, SeqDef
    <3> QED BY <3>1, <3>2
  <2> HIDE DEF z
  <2>4. /\ t \in Seq(0..MaxPid) /\ Len(t) \in Nat /\ n + 1 <= Len(t) /\ t[n + 1] = w
        /\ \A j \in 1..n : t[j] = s[j]
    <3>1. /\ Append(s, w) \in Seq(0..MaxPid) /\ Len(Append(s, w)) = n + 1
          /\ Append(s, w)[n + 1] = w /\ \A j \in 1..n : Append(s, w)[j] = s[j]
      BY <1>1, <1>3, <2>2
    <3> DEFINE u == Append(s, w)
    <3>2. /\ u \in Seq(0..MaxPid) /\ Len(u) = n + 1 /\ u[n + 1] = w
          /\ \A j \in 1..n : u[j] = s[j]
      BY <3>1
    <3> HIDE DEF u
    <3>3. /\ u \o z \in Seq(0..MaxPid) /\ Len(u \o z) = Len(u) + Len(z) /\ Len(z) \in Nat
          /\ \A j \in 1..Len(u) : (u \o z)[j] = u[j]
      BY <2>3, <3>2
    <3>4. n + 1 \in 1..Len(u) /\ \A j \in 1..n : j \in 1..Len(u)
      BY <1>1, <3>2
    <3> QED BY <1>1, <3>2, <3>3, <3>4 DEF u
  <2> HIDE DEF t
  <2>5. /\ heap' \in Seq(Seq(0..MaxPid)) /\ m \in DOMAIN heap' /\ heap'[m] = t
        /\ m \notin DOMAIN heap /\ m \in Nat
        /\ \A b \in DOMAIN heap : b \in DOMAIN heap' /\ heap'[b] = heap[b]
    BY <1>2, <2>1, <2>4
  <2>6. /\ waiters' \in [Pid -> [arr : Nat, len : Nat]]
        /\ waiters'[q].arr = m /\ waiters'[q].len = n + 1
        /\ \A p \in Pid : p # q => waiters'[p] = waiters[p]
    <3> HIDE DEF m
    <3> QED BY <1>1, <1>2, <2>1, <2>5, SMTT(40)
  <2> HIDE DEF m
  <2> QED BY <1>1, <2>4, <2>5, <2>6 DEF a, n, s
<1> QED BY <1>4, <1>5

\* A stack with one more activation on it.
LEMMA PushIs ==
    ASSUME NEW T, NEW t \in Seq(T), NEW a
    PROVE  /\ <<a>> \o t \in Seq(T \cup {a}) /\ Len(<<a>> \o t) = Len(t) + 1
           /\ Len(t) \in Nat /\ DOMAIN t = 1..Len(t)
           /\ DOMAIN (<<a>> \o t) = 1..(Len(t) + 1) /\ (<<a>> \o t)[1] = a
           /\ \A k \in DOMAIN (<<a>> \o t) :
                 k = 1 \/ (k - 1 \in DOMAIN t /\ (<<a>> \o t)[k] = t[k - 1])
           /\ \A k \in DOMAIN t : k + 1 \in DOMAIN (<<a>> \o t) /\ (<<a>> \o t)[k + 1] = t[k]
<1>1. t \in Seq(T \cup {a}) /\ <<a>> \in Seq(T \cup {a})
  OBVIOUS
<1>2. /\ <<a>> \o t \in Seq(T \cup {a}) /\ Len(<<a>> \o t) = Len(t) + 1
      /\ Len(t) \in Nat /\ DOMAIN t = 1..Len(t)
      /\ DOMAIN (<<a>> \o t) = 1..(Len(t) + 1) /\ (<<a>> \o t)[1] = a
      /\ \A k \in DOMAIN t : k + 1 \in DOMAIN (<<a>> \o t) /\ (<<a>> \o t)[k + 1] = t[k]
  BY <1>1
<1> DEFINE s == <<a>> \o t
<1> HIDE DEF s
<1>3. \A k \in DOMAIN s : k = 1 \/ (k - 1 \in DOMAIN t /\ s[k] = t[k - 1])
  <2> TAKE k \in DOMAIN s
  <2>1. k # 1 => k - 1 \in DOMAIN t /\ (k - 1) + 1 = k
    BY <1>2 DEF s
  <2>2. k - 1 \in DOMAIN t => s[(k - 1) + 1] = t[k - 1]
    BY <1>2, Zenon DEF s
  <2> QED BY <2>1, <2>2
<1> QED BY <1>2, <1>3 DEF s

RangedAll(s, hp, wt) == \A k \in DOMAIN s : Ranged(s[k], hp, wt)

\* Only an activation that ends a process ranges over an array.
LEMMA RangedPush ==
    ASSUME NEW T, NEW t \in Seq(T), NEW hp, NEW wt, RangedAll(t, hp, wt), NEW a, Ranged(a, hp, wt)
    PROVE  RangedAll(<<a>> \o t, hp, wt)
<1>1. /\ (<<a>> \o t)[1] = a
      /\ \A k \in DOMAIN (<<a>> \o t) :
            k = 1 \/ (k - 1 \in DOMAIN t /\ (<<a>> \o t)[k] = t[k - 1])
  BY PushIs
<1> QED BY <1>1, Zenon DEF RangedAll

\* What is below the top ranges over what it did.
LEMMA RangedBelow ==
    ASSUME NEW hp, NEW wt, StackInv, stack # <<>>, RangedAll(stack, hp, wt)
    PROVE  RangedAll(Below, hp, wt) /\ Below \in Seq(Act) /\ Ranged(Top, hp, wt)
<1>1. /\ stack \in Seq(Act) /\ Below \in Seq(Act) /\ Top = stack[1] /\ 1 \in DOMAIN stack
      /\ \A k \in DOMAIN Below : k + 1 \in DOMAIN stack /\ Below[k] = stack[k + 1]
  BY DEF StackInv, Below, Top
<1> QED BY <1>1, Zenon DEF RangedAll

\* deliverEvent ends nobody.
LEMMA DeliverRanged ==
    ASSUME NEW hp, NEW wt, NEW rest \in Seq(Act), RangedAll(rest, hp, wt),
           NEW q, NEW e, Deliver(q, e, rest)
    PROVE  RangedAll(stack', hp, wt)
<1>1. stack' = rest \/ stack' = <<Run(q)>> \o rest
  BY DEF Deliver
<1>2. Ranged(Run(q), hp, wt)
  BY DEF Ranged, Run
<1> QED BY <1>1, <1>2, RangedPush

\* Nothing changes but the stack and who is said to be watched by whom.
LEMMA SlicesKept ==
    ASSUME SlicesInv, UNCHANGED <<heap, waiters>>, next \in Nat, next' \in Nat, next <= next',
           \A p \in Pid : \A q \in waitees'[p] : q \in waitees[p],
           RangedAll(stack', heap, waiters)
    PROVE  SlicesInv'
<1>1. \A p \in Pid : \A j \in 1..waiters[p].len : heap[waiters[p].arr][j] \in 1..next'
  BY DEF SlicesInv
<1>2. \A p \in Pid : p \notin waitees'[p] /\ (p > next' => waiters[p].len = 0)
  <2>1. \A p \in Pid : p \in Nat
    BY DEF Pid
  <2>2. \A p \in Pid : p > next' => p > next
    BY <2>1
  <2>3. \A p \in Pid : p \notin waitees[p] /\ (p > next => waiters[p].len = 0)
    BY DEF SlicesInv
  <2> QED BY <2>2, <2>3
<1>3. Slices(heap', waiters', waitees', next')
  BY <1>1, <1>2 DEF SlicesInv, Slices
<1> QED BY <1>3, SlicesAre DEF RangedAll

\* A process leaves the lists of those it watches.
LEMMA FinishSlices ==
    ASSUME Sound, SlicesInv, NEW p \in Pid, NEW rest \in Seq(Act), Finish(p, rest),
           RangedAll(rest, heap, waiters), UNCHANGED <<next, waitees>>
    PROVE  SlicesInv'
<1> DEFINE S == waitees[p] \cap live
<1>1. RemoveWaiter(S, p) /\ stack' = <<Ending(p, 1)>> \o rest
  BY DEF Finish
<1>2. S \in SUBSET Pid /\ next \in Nat
  BY ProcQueueAssumption DEF Sound, BaseOK
<1> HIDE DEF S
<1>3. /\ heap' \in Seq(Seq(0..MaxPid)) /\ waiters' \in [Pid -> [arr : Nat, len : Nat]]
      /\ DOMAIN heap' = DOMAIN heap
      /\ \A a \in DOMAIN heap : Len(heap'[a]) = Len(heap[a])
      /\ \A q \in Pid : waiters'[q].arr = waiters[q].arr
  BY <1>1, <1>2, RemoveIs
<1>a. \A q \in S : p \in Watching(waiters[q]) => ShiftedOut(q, p)
  BY <1>1, <1>2, RemoveIs, Zenon
<1>b. \A q \in Pid : ~(q \in S /\ p \in Watching(waiters[q])) =>
          waiters'[q] = waiters[q] /\ heap'[waiters[q].arr] = heap[waiters[q].arr]
  BY <1>1, <1>2, RemoveIs, Zenon
<1>4. ASSUME NEW q \in Pid
      PROVE  /\ waiters'[q].len <= waiters[q].len
             /\ \A j \in 1..waiters'[q].len : heap'[waiters[q].arr][j] \in 1..next
  <2>1. /\ waiters[q].len \in Nat /\ waiters[q].len <= Len(heap[waiters[q].arr])
        /\ Len(heap[waiters[q].arr]) \in Nat
        /\ \A j \in 1..waiters[q].len : heap[waiters[q].arr][j] \in 1..next
    <3>1. \A j \in 1..waiters[q].len : heap[waiters[q].arr][j] \in 1..next
      BY DEF SlicesInv
    <3> QED BY <3>1, SliceFacts
  <2>2. CASE q \in S /\ p \in Watching(waiters[q])
    <3>1. PICK at \in 1..waiters[q].len :
            /\ waiters'[q].len = waiters[q].len - 1
            /\ \A k \in 1..Len(heap[waiters[q].arr]) :
                  heap'[waiters[q].arr][k] =
                      IF k >= at /\ k < waiters[q].len
                      THEN heap[waiters[q].arr][k + 1] ELSE heap[waiters[q].arr][k]
      BY <1>a, <2>2, Zenon DEF ShiftedOut
    <3> DEFINE n == waiters[q].len
               s == heap[waiters[q].arr]
               t == heap'[waiters[q].arr]
    <3>2. /\ n \in Nat /\ n <= Len(s) /\ Len(s) \in Nat /\ \A j \in 1..n : s[j] \in 1..next
          /\ waiters'[q].len = n - 1 /\ at \in 1..n
          /\ \A k \in 1..Len(s) : t[k] = IF k >= at /\ k < n THEN s[k + 1] ELSE s[k]
      BY <2>1, <3>1
    <3> HIDE DEF n, s, t
    <3>3. ASSUME NEW j \in 1..(n - 1) PROVE t[j] \in 1..next
      <4>1. j \in 1..n /\ j + 1 \in 1..n /\ j \in 1..Len(s)
        BY <3>2
      <4> QED BY <3>2, <4>1
    <3> QED BY <3>2, <3>3 DEF n, s, t
  <2>3. CASE ~(q \in S /\ p \in Watching(waiters[q]))
    <3>1. waiters'[q] = waiters[q] /\ heap'[waiters[q].arr] = heap[waiters[q].arr]
      BY <1>b, <2>3, Zenon
    <3> QED BY <2>1, <3>1
  <2> QED BY <2>2, <2>3
<1>5. ASSUME NEW q \in Pid
      PROVE  /\ waiters'[q].arr \in DOMAIN heap'
             /\ waiters'[q].len <= Len(heap'[waiters'[q].arr])
             /\ \A j \in 1..waiters'[q].len : heap'[waiters'[q].arr][j] \in 1..next
             /\ q \notin waitees[q] /\ (q > next => waiters'[q].len = 0)
  <2>1. /\ waiters[q].arr \in DOMAIN heap /\ waiters[q].len \in Nat
        /\ waiters[q].len <= Len(heap[waiters[q].arr]) /\ Len(heap[waiters[q].arr]) \in Nat
    BY SliceFacts
  <2>2. waiters'[q].len \in Nat /\ waiters'[q].len <= waiters[q].len
    BY <1>3, <1>4
  <2>3. q \notin waitees[q] /\ (q > next => waiters[q].len = 0)
    BY DEF SlicesInv
  <2>4. Len(heap'[waiters[q].arr]) = Len(heap[waiters[q].arr])
    BY <1>3, <2>1
  <2> QED BY <1>3, <1>4, <2>1, <2>2, <2>3, <2>4, SMTT(40)
<1>6. \A a, b \in Pid : waiters'[a].arr = waiters'[b].arr => a = b
  BY <1>3 DEF SlicesInv
<1>7. Slices(heap', waiters', waitees', next')
  BY <1>3, <1>5, <1>6 DEF Slices
<1>8. RangedAll(rest, heap', waiters')
  BY <1>3 DEF RangedAll, Ranged
<1>9. Ranged(Ending(p, 1), heap', waiters')
  <2>1. Ending(p, 1).pid = p /\ Ending(p, 1).arr = waiters[p].arr
    BY DEF Ending
  <2> QED BY <1>3, <2>1 DEF Ranged, SlicesInv
<1>10. RangedAll(stack', heap', waiters')
  BY <1>1, <1>8, <1>9, RangedPush
<1> QED BY <1>7, <1>10, SlicesAre DEF RangedAll

\* A watcher is put in the list of another process, never in its own.
LEMMA AppendSlices ==
    ASSUME Sound, SlicesInv, NEW p \in Pid, NEW q \in Pid, p # q, p <= next, q <= next,
           AppendWaiter(q, p), UNCHANGED <<next, stack>>,
           \A r \in Pid : \A x \in waitees'[r] : x \in waitees[r] \/ (r = p /\ x = q)
    PROVE  SlicesInv'
<1> DEFINE b == waiters'[q].arr
           n == waiters[q].len
<1>1. /\ heap' \in Seq(Seq(0..MaxPid)) /\ waiters' \in [Pid -> [arr : Nat, len : Nat]]
      /\ \A a \in DOMAIN heap : a \in DOMAIN heap' /\ Len(heap'[a]) = Len(heap[a])
      /\ \A r \in Pid : r # q => waiters'[r] = waiters[r]
      /\ waiters'[q].len = n + 1
      /\ b \in DOMAIN heap' /\ waiters'[q].len <= Len(heap'[b])
      /\ heap'[b][n + 1] = p
      /\ \A j \in 1..n : heap'[b][j] = heap[waiters[q].arr][j]
      /\ \A a \in DOMAIN heap : a # waiters[q].arr => heap'[a] = heap[a]
      /\ b = waiters[q].arr \/ b \notin DOMAIN heap
  BY AppendIs, Zenon
<1>2. next \in Nat /\ n \in Nat /\ \A r \in Pid : r \in Nat \ {0}
  <2>1. next \in Nat /\ \A r \in Pid : r \in Nat \ {0}
    BY ProcQueueAssumption DEF Sound, BaseOK, Pid
  <2>2. waiters[q].len \in Nat
    BY SliceFacts
  <2> QED BY <2>1, <2>2
<1>3. /\ \A r \in Pid : waiters[r].arr \in DOMAIN heap
      /\ \A r, x \in Pid : waiters[r].arr = waiters[x].arr => r = x
  BY DEF SlicesInv
<1>4. \A j \in 1..(n + 1) : heap'[b][j] \in 1..next
  <2>1. \A j \in 1..n : heap[waiters[q].arr][j] \in 1..next
    BY DEF SlicesInv
  <2>2. \A j \in 1..(n + 1) : j \in 1..n \/ j = n + 1
    BY <1>2
  <2>3. p \in 1..next
    BY <1>2
  <2> QED BY <1>1, <2>1, <2>2, <2>3, Zenon
<1> HIDE DEF b, n
<1>5. \A r, x \in Pid : waiters'[r].arr = waiters'[x].arr => r = x
  <2> SUFFICES ASSUME NEW r \in Pid, NEW x \in Pid, waiters'[r].arr = waiters'[x].arr, r # x
               PROVE  FALSE
    OBVIOUS
  <2>0. \A y \in Pid : y # q => waiters'[y].arr = waiters[y].arr
    BY <1>1, Zenon
  <2>1. r # q /\ x # q => FALSE
    BY <1>3, <2>0, Zenon
  <2>2. \A y \in Pid : y # q => waiters'[y].arr # waiters'[q].arr
    <3> SUFFICES ASSUME NEW y \in Pid, y # q PROVE waiters'[y].arr # b
      BY DEF b
    <3>1. /\ waiters'[y].arr = waiters[y].arr /\ waiters[y].arr \in DOMAIN heap
          /\ waiters[y].arr # waiters[q].arr
      BY <1>3, <2>0, Zenon
    <3>2. b = waiters[q].arr \/ b \notin DOMAIN heap
      BY <1>1, Zenon
    <3> QED BY <3>1, <3>2, Zenon
  <2> QED BY <2>1, <2>2
<1>6. ASSUME NEW r \in Pid
      PROVE  /\ waiters'[r].arr \in DOMAIN heap'
             /\ waiters'[r].len <= Len(heap'[waiters'[r].arr])
             /\ \A j \in 1..waiters'[r].len : heap'[waiters'[r].arr][j] \in 1..next
             /\ r \notin waitees'[r] /\ (r > next => waiters'[r].len = 0)
  <2>1. r \notin waitees'[r]
    BY DEF SlicesInv
  <2>2. CASE r = q
    BY <1>1, <1>2, <1>4, <2>1, <2>2 DEF b
  <2>3. CASE r # q
    <3>1. /\ waiters[r].arr \in DOMAIN heap /\ waiters[r].len <= Len(heap[waiters[r].arr])
          /\ \A j \in 1..waiters[r].len : heap[waiters[r].arr][j] \in 1..next
          /\ r > next => waiters[r].len = 0
      BY DEF SlicesInv
    <3>2. waiters'[r] = waiters[r] /\ waiters[r].arr # waiters[q].arr
      BY <1>1, <1>3, <2>3
    <3>3. heap'[waiters[r].arr] = heap[waiters[r].arr] /\ waiters[r].arr \in DOMAIN heap'
      BY <1>1, <3>1, <3>2
    <3> QED BY <2>1, <3>1, <3>2, <3>3
  <2> QED BY <2>2, <2>3
<1>7. Slices(heap', waiters', waitees', next')
  BY <1>1, <1>5, <1>6 DEF Slices
<1>8. RangedAll(stack', heap', waiters')
  <2> SUFFICES ASSUME NEW k \in DOMAIN stack, stack[k].at = "finish"
               PROVE  /\ stack[k].arr \in DOMAIN heap'
                      /\ \A r \in Pid : waiters'[r].arr = stack[k].arr => r = stack[k].pid
    BY DEF RangedAll, Ranged
  <2>1. /\ stack[k].arr \in DOMAIN heap
        /\ \A r \in Pid : waiters[r].arr = stack[k].arr => r = stack[k].pid
    BY DEF SlicesInv
  <2>2. ASSUME NEW r \in Pid, waiters'[r].arr = stack[k].arr PROVE r = stack[k].pid
    <3>1. CASE r = q
      BY <1>1, <2>1, <2>2, <3>1 DEF b
    <3>2. CASE r # q
      BY <1>1, <2>1, <2>2, <3>2
    <3> QED BY <3>1, <3>2
  <2> QED BY <1>1, <2>1, <2>2
<1> QED BY <1>7, <1>8, SlicesAre DEF RangedAll

\* The running program.
LEMMA ProgramSlices ==
    ASSUME Sound, StackInv, SlicesInv, NEW p \in Pid, Program(p) PROVE SlicesInv'
<1> USE ProcQueueAssumption
<1>0. Running(p)
  BY DEF Program, Fork, Queue, KillPID, WatchPID, SendEvent, TimerStart, TimerStop, WaitFor,
     Read, Pause, End
<1>1. p <= next /\ stack # <<>> /\ next \in Nat
  BY <1>0, RunningFacts
<1>2. RangedAll(stack, heap, waiters) /\ stack \in Seq(Act)
  BY SlicesAre DEF RangedAll, StackInv
<1>3. RangedAll(Below, heap, waiters) /\ Below \in Seq(Act)
  BY <1>1, <1>2, RangedBelow
<1>4. ASSUME UNCHANGED <<heap, waiters, waitees>>, next' = next \/ next' = next + 1,
             RangedAll(stack', heap, waiters)
      PROVE  SlicesInv'
  BY <1>1, <1>4, SlicesKept
<1>5. CASE Fork(p) \/ Queue(p)
  BY <1>2, <1>4, <1>5 DEF Fork, Queue, AddProcess
<1>6. ASSUME NEW q \in Pid, KillPID(p, q) PROVE SlicesInv'
  <2>1. Finish(q, stack) /\ UNCHANGED <<next, waitees>>
    BY <1>6 DEF KillPID
  <2> QED BY <1>2, <2>1, FinishSlices
<1>7. ASSUME NEW q \in Pid, WatchPID(p, q) PROVE SlicesInv'
  <2>1. q \in (1..next) \ {p} /\ UNCHANGED <<next, stack>>
    BY <1>7 DEF WatchPID
  <2>2. CASE UNCHANGED <<waiters, heap, waitees>>
    BY <1>2, <1>4, <2>1, <2>2
  <2>3. CASE ~ UNCHANGED <<waiters, heap, waitees>>
    <3>1. /\ AppendWaiter(q, p)
          /\ waitees' = IF p \in live THEN [waitees EXCEPT ![p] = @ \cup {q}] ELSE waitees
      BY <1>7, <2>3 DEF WatchPID
    <3>2. \A r \in Pid : \A x \in waitees'[r] : x \in waitees[r] \/ (r = p /\ x = q)
      BY <3>1 DEF Sound, BaseOK
    <3>3. q # p /\ q <= next
      BY <1>1, <2>1
    <3> QED BY <1>1, <2>1, <3>1, <3>2, <3>3, AppendSlices
  <2> QED BY <2>2, <2>3
<1>8. ASSUME NEW q \in Pid, SendEvent(p, q) PROVE SlicesInv'
  <2>1. UNCHANGED <<next, heap, waiters, waitees>>
    BY <1>8 DEF SendEvent
  <2>2. stack' = stack \/ Deliver(q, User, stack)
    BY <1>8 DEF SendEvent
  <2>3. RangedAll(stack', heap, waiters)
    BY <1>2, <2>2, DeliverRanged
  <2> QED BY <1>4, <2>1, <2>3
<1>9. ASSUME NEW t \in Timer, TimerStart(p, t) \/ TimerStop(p, t) PROVE SlicesInv'
  BY <1>2, <1>4, <1>9 DEF TimerStart, TimerStop
<1>10. ASSUME NEW F \in Filters, WaitFor(p, F) PROVE SlicesInv'
  <2>1. stack' = stack \/ stack' = Below
    BY <1>10 DEF WaitFor
  <2>2. RangedAll(stack', heap, waiters)
    BY <1>2, <1>3, <2>1
  <2> QED BY <1>4, <1>10, <2>2 DEF WaitFor
<1>11. CASE Read(p)
  BY <1>3, <1>4, <1>11 DEF Read
<1>12. ASSUME NEW how \in {"sleeping", "runnable"}, Pause(p, how) PROVE SlicesInv'
  BY <1>3, <1>4, <1>12 DEF Pause
<1>13. CASE End(p)
  <2>1. Finish(p, Below) /\ UNCHANGED <<next, waitees>>
    BY <1>13 DEF End
  <2> QED BY <1>3, <2>1, FinishSlices
<1> QED BY <1>5, <1>6, <1>7, <1>8, <1>9, <1>10, <1>11, <1>12, <1>13 DEF Program

\* The world's operations and their loops.
LEMMA SlicesStep ==
    Sound /\ StackInv /\ SlicesInv /\ [Next]_vars => SlicesInv'
<1> SUFFICES ASSUME Sound, StackInv, SlicesInv, [Next]_vars PROVE SlicesInv'
  OBVIOUS
<1> USE ProcQueueAssumption
<1>a. next \in Nat /\ RangedAll(stack, heap, waiters) /\ stack \in Seq(Act) /\ live \subseteq Pid
  BY SlicesAre DEF RangedAll, StackInv, Sound, BaseOK, Pid
<1>b. stack # <<>> => RangedAll(Below, heap, waiters) /\ Below \in Seq(Act)
  BY <1>a, RangedBelow
<1>c. /\ \A d : Ranged(Run(d), heap, waiters)
      /\ \A s : Ranged(Sweeping(s), heap, waiters) /\ Ranged(Resuming(s), heap, waiters)
      /\ \A s, d, f : Ranged(Timing(s, d, f), heap, waiters)
  BY DEF Ranged, Run, Sweeping, Resuming, Timing
<1>d. ASSUME UNCHANGED <<heap, waiters, waitees>>, next' = next \/ next' = next + 1,
             RangedAll(stack', heap, waiters)
      PROVE  SlicesInv'
  BY <1>a, <1>d, SlicesKept
<1>e. \A a : Ranged(a, heap, waiters) => RangedAll(<<a>>, heap, waiters)
  BY DEF RangedAll
<1>1. CASE UNCHANGED vars
  BY <1>a, <1>d, <1>1 DEF vars, procVars
<1>2. ASSUME NEW d \in Descr, RunProgram(d) PROVE SlicesInv'
  <2>1. RangedAll(<<Run(next + 1)>> \o stack, heap, waiters)
    BY <1>a, <1>c, RangedPush
  <2> QED BY <1>d, <1>2, <2>1 DEF RunProgram, AddProcess
<1>3. ASSUME NEW d \in Descr, ReadInput(d) PROVE SlicesInv'
  <2>1. UNCHANGED <<next, heap, waiters, waitees>> /\ stack' = <<Run(ReaderFor(d))>> \o <<>>
    BY <1>3 DEF ReadInput, Resume
  <2>2. RangedAll(<<>>, heap, waiters) /\ <<>> \in Seq(Act)
    BY DEF RangedAll
  <2>3. RangedAll(stack', heap, waiters)
    BY <1>c, <2>1, <2>2, RangedPush
  <2> QED BY <1>d, <2>1, <2>3
<1>4. ASSUME NEW S \in (SUBSET live) \ {{}}, KillSweep(S) PROVE SlicesInv'
  <2>1. RangedAll(<<Sweeping(PidOrder(S))>> \o stack, heap, waiters)
    BY <1>a, <1>c, RangedPush
  <2> QED BY <1>d, <1>4, <2>1 DEF KillSweep, procVars
<1>5. CASE Tick
  <2>1. RangedAll(<<Timing(PidOrder(live), 0, <<>>)>>, heap, waiters)
    BY <1>c, <1>e
  <2> QED BY <1>d, <1>5, <2>1 DEF Tick, procVars
<1>6. CASE SweepNext
  <2> DEFINE p == Head(Top.todo)
  <2>1. /\ UNCHANGED <<next, waitees>> /\ Finish(p, <<Sweeping(Tail(Top.todo))>> \o Below)
        /\ Doing("sweep") /\ Top.todo # <<>> /\ stack # <<>>
    BY <1>6 DEF SweepNext, Doing
  <2>2. Top.todo \in Seq(Pid)
    BY <2>1, LoopFacts, ActFields
  <2>3. p \in Pid /\ Tail(Top.todo) \in Seq(Pid)
    BY <2>1, <2>2
  <2>4. Sweeping(Tail(Top.todo)) \in Act
    BY <2>3 DEF Sweeping, Act
  <2> DEFINE rest == <<Sweeping(Tail(Top.todo))>> \o Below
  <2>5. RangedAll(rest, heap, waiters)
    BY <1>b, <1>c, <2>1, RangedPush
  <2>6. rest \in Seq(Act)
    BY <1>b, <2>1, <2>4
  <2> HIDE DEF rest, p
  <2> QED BY <2>1, <2>3, <2>5, <2>6, FinishSlices DEF rest
<1>7. CASE SweepEnds \/ TickEnds
  BY <1>b, <1>d, <1>7 DEF SweepEnds, TickEnds, procVars, Doing
<1>8. CASE TimersOf
  <2>1. /\ stack # <<>> /\ UNCHANGED <<next, heap, waiters, waitees>>
        /\ \E s, d, f : stack' = <<Timing(s, d, f)>> \o Below
    BY <1>8 DEF TimersOf, Doing
  <2>2. RangedAll(stack', heap, waiters)
    BY <1>b, <1>c, <2>1, RangedPush
  <2> QED BY <1>d, <2>1, <2>2
<1>9. CASE FireTimer
  <2> DEFINE a == Timing(Top.todo, Top.pid, Tail(Top.due))
             rest == <<a>> \o Below
  <2>1. /\ Doing("timers") /\ Top.due # <<>> /\ UNCHANGED <<next, heap, waiters, waitees>>
        /\ \E q, e : Deliver(q, e, rest)
        /\ stack # <<>>
    BY <1>9 DEF FireTimer, Doing
  <2>2. Top.todo \in Seq(Pid) /\ Top.pid \in 0..MaxPid /\ Top.due \in Seq(Timer)
    BY <2>1, LoopFacts, ActFields
  <2>3. a \in Act
    BY <2>1, <2>2 DEF Timing, Act
  <2>4. RangedAll(rest, heap, waiters)
    BY <1>b, <1>c, <2>1, RangedPush
  <2>5. rest \in Seq(Act)
    BY <1>b, <2>1, <2>3
  <2> HIDE DEF rest, a
  <2>6. RangedAll(stack', heap, waiters)
    BY <2>1, <2>4, <2>5, DeliverRanged
  <2> QED BY <1>d, <2>1, <2>6
<1>10. CASE ListDue
  <2>1. /\ stack # <<>> /\ UNCHANGED <<next, heap, waiters, waitees>>
        /\ \E s : stack' = <<Resuming(s)>> \o Below
    BY <1>10 DEF ListDue, Doing, procVars
  <2>2. RangedAll(stack', heap, waiters)
    BY <1>b, <1>c, <2>1, RangedPush
  <2> QED BY <1>d, <2>1, <2>2
<1>11. CASE ResumeDue
  <2> DEFINE t == <<Resuming(Tail(Top.todo))>> \o Below
  <2>1. /\ stack # <<>> /\ UNCHANGED <<next, heap, waiters, waitees>>
        /\ \E q : stack' = <<Run(q)>> \o t
    BY <1>11 DEF ResumeDue, Resume, Doing
  <2>2. t \in Seq(Act \cup {Resuming(Tail(Top.todo))}) /\ RangedAll(t, heap, waiters)
    BY <1>b, <1>c, <2>1, RangedPush, PushIs
  <2> HIDE DEF t
  <2>3. RangedAll(stack', heap, waiters)
    BY <1>c, <2>1, <2>2, RangedPush
  <2> QED BY <1>d, <2>1, <2>3
<1>12. CASE NotifyWaiter
  <2> DEFINE w == heap[Top.arr][Top.k]
             a == [Top EXCEPT !.k = @ + 1]
             rest == <<a>> \o Below
  <2>1. /\ Doing("finish") /\ UNCHANGED <<next, heap, waiters>> /\ stack # <<>>
        /\ stack' = rest \/ Deliver(w, Exit(Top.pid), rest)
        /\ waitees' = waitees \/ waitees' = [waitees EXCEPT ![w] = @ \ {Top.pid}]
    BY <1>12 DEF NotifyWaiter, Doing
  <2>2. Top \in Act /\ Top.at = "finish" /\ Ranged(Top, heap, waiters)
    BY <1>a, <2>1, LoopFacts, RangedBelow
  <2>3. a \in Act /\ a.at = "finish" /\ a.pid = Top.pid /\ a.arr = Top.arr
    BY <2>2 DEF Act
  <2>4. Ranged(a, heap, waiters)
    BY <2>2, <2>3 DEF Ranged
  <2>5. \A p \in Pid : \A q \in waitees'[p] : q \in waitees[p]
    <3> HIDE DEF w, rest
    <3>1. waitees \in [Pid -> SUBSET Pid]
      BY DEF Sound, BaseOK
    <3>2. CASE waitees' = [waitees EXCEPT ![w] = @ \ {Top.pid}]
      BY <3>1, <3>2
    <3> QED BY <2>1, <3>2
  <2>6. RangedAll(rest, heap, waiters)
    BY <1>b, <2>1, <2>4, RangedPush
  <2>7. rest \in Seq(Act)
    BY <1>b, <2>1, <2>3
  <2> HIDE DEF rest, a, w
  <2>8. RangedAll(stack', heap, waiters)
    BY <2>1, <2>6, <2>7, DeliverRanged
  <2> QED BY <1>a, <2>1, <2>5, <2>8, SlicesKept
<1>13. CASE Remove
  BY <1>b, <1>d, <1>13 DEF Remove, procVars, Doing
<1>14. ASSUME NEW p \in Pid, Program(p) PROVE SlicesInv'
  BY <1>14, ProgramSlices
<1> QED BY <1>1, <1>2, <1>3, <1>4, <1>5, <1>6, <1>7, <1>8, <1>9, <1>10, <1>11, <1>12, <1>13,
        <1>14 DEF Next, Loop

-------------------------------------------------------------------------------
(* The theorems.                                                           *)

QueueSafe == Sound /\ StackInv /\ SlicesInv

\* The first processes are queued, nothing is running and nobody is watched.
LEMMA QueueSafeInit == Init => QueueSafe
<1> SUFFICES ASSUME Init PROVE QueueSafe
  OBVIOUS
<1> USE ProcQueueAssumption DEF Init
<1>1. /\ next \in Nat /\ next <= MaxPid /\ 1..next \subseteq Pid /\ live = 1..next
      /\ (CHOOSE d \in Descr : TRUE) \in Descr /\ 0 \notin 1..next
      /\ next \in 0..MaxPid
  BY DEF Pid
<1>2. BaseOK
  BY <1>1 DEF BaseOK, States
<1>3. QueueInv
  <2>1. pending \in [Pid -> Seq(Event)] /\ \A p \in Pid : IsFiniteSet(timers[p])
    BY FS_EmptySet
  <2> QED BY <1>1, <2>1 DEF QueueInv
<1>4. ReadIndexSound
  BY <1>1 DEF ReadIndexSound
<1>5. StackInv
  BY DEF StackInv, NoReentry
<1>6. Slices(heap, waiters, waitees, next)
  <2>1. heap \in Seq(Seq(0..MaxPid)) /\ DOMAIN heap = Pid /\ \A p \in Pid : heap[p] = <<>>
    <3>1. heap \in [1..MaxPid -> Seq(0..MaxPid)]
      BY DEF Pid
    <3>2. heap \in Seq(Seq(0..MaxPid))
      BY <3>1, SeqDef
    <3> QED BY <3>2
  <2>2. /\ waiters \in [Pid -> [arr : Nat, len : Nat]]
        /\ \A p \in Pid : waiters[p].arr = p /\ waiters[p].len = 0 /\ waitees[p] = {}
    BY DEF Pid
  <2>3. \A p \in Pid : /\ waiters[p].arr \in DOMAIN heap
                       /\ waiters[p].len <= Len(heap[waiters[p].arr])
                       /\ \A j \in 1..waiters[p].len : heap[waiters[p].arr][j] \in 1..next
    <3>1. Len(<<>>) = 0 /\ 1..0 = {}
      OBVIOUS
    <3>2. \A p \in Pid : waiters[p].arr \in DOMAIN heap /\ heap[waiters[p].arr] = <<>>
      BY <2>1, <2>2, Zenon
    <3> HIDE DEF Init
    <3> QED BY <2>2, <3>1, <3>2
  <2> QED BY <2>1, <2>2, <2>3 DEF Slices
<1>7. SlicesInv
  BY <1>6, SlicesAre
<1> QED BY <1>2, <1>3, <1>4, <1>5, <1>7 DEF QueueSafe, Sound

\* What every operation, every call of a program and every turn of a loop
\* keeps, with whatever the goroutine has on its stack: processes on it are
\* runnable, slices have arrays of their own, and queued events are for nobody
\* who is blocked on them.
THEOREM ProcQueueInvariant == Spec => []QueueSafe
<1>1. QueueSafe /\ [Next]_vars => QueueSafe'
  BY SoundStep, StackStep, SlicesStep DEF QueueSafe
<1> QED BY <1>1, QueueSafeInit, PTL DEF Spec

\* deliverEvent, FORCE and the loops over watchers run programs inside one
\* another to any depth: never one that is already running, whose frame it
\* would corrupt, and never one that had ended before the operation began.
THEOREM NeverReentered == Spec => []OneRunAtATime
<1>1. QueueSafe => OneRunAtATime
  <2> SUFFICES ASSUME QueueSafe PROVE OneRunAtATime
    OBVIOUS
  <2>1. \A k \in DOMAIN stack : stack[k].at \in Activations
    <3>1. \A k \in DOMAIN stack : stack[k] \in Act
      BY DEF QueueSafe, StackInv
    <3> QED BY <3>1, ActFields
  <2>2. \A p \in Pid : /\ waiters[p].arr \in DOMAIN heap
                       /\ waiters[p].len <= Len(heap[waiters[p].arr])
                       /\ \A k \in DOMAIN pending[p] : pending[p][k] \in Event
    BY DEF QueueSafe, SlicesInv, Sound, QueueInv
  <2>3. TypeOK
    BY <2>1, <2>2 DEF TypeOK, QueueSafe, Sound, BaseOK
  <2>4. NoReentry /\ EndedStaysEnded
    BY DEF QueueSafe, StackInv, SoundIn, EndedStaysEnded
  <2> QED BY <2>3, <2>4 DEF OneRunAtATime
<1> QED BY <1>1, ProcQueueInvariant, PTL

\* No wake-up is lost or misdirected: a process blocked in an EVENT_WAITFOR has
\* no event queued that would satisfy it, though nothing scans for one when it
\* is delivered, and a connection's line resumes only a process blocked in a
\* READ on that connection.
THEOREM NoWakeupLost == Spec => []WakesTheRightOne
<1>1. QueueSafe => WakesTheRightOne
  <2> SUFFICES ASSUME QueueSafe PROVE WakesTheRightOne
    OBVIOUS
  <2>1. live \subseteq Pid
    BY ProcQueueAssumption DEF QueueSafe, Sound, BaseOK, Pid
  <2>2. NoLostEvent
    BY <2>1 DEF NoLostEvent, QueueSafe, Sound, QueueInv
  <2> QED BY <2>2 DEF WakesTheRightOne, QueueSafe, Sound
<1> QED BY <1>1, ProcQueueInvariant, PTL

-------------------------------------------------------------------------------
(* ProcQueue's watchers are told: WatchInv is inductive, for any number of *)
(* processes ending inside one another.                                    *)

-------------------------------------------------------------------------------
(* WatchInv, of any stack s, pairs owed ow, processes lv, slices wt, arrays *)
(* hp and lists of the watched we.                                         *)

Ends(s, p) == \E k \in DOMAIN s : s[k].at = "finish" /\ s[k].pid = p

Lists(wt, hp, p, w) == \E j \in 1..wt[p].len : hp[wt[p].arr][j] = w

Waits(s, ow, lv, w, p) == <<w, p>> \in ow /\ w \in lv /\ ~Ends(s, w)

AheadOf(a, w, wt, hp) ==
    \E j \in a.k..a.len : /\ hp[a.arr][j] = w
                          /\ wt[a.pid].arr = a.arr => j <= wt[a.pid].len

\* x will not leave the list of p from an activation above the i-th.
Stays(s, i, x, p, lv, we) ==
    p \notin we[x] \/ (x \notin lv /\ \A h \in 1..(i - 1) : ~MayEnd(s[h], x))

SettledAt(s, i, lv, wt, hp, we) ==
    wt[s[i].pid].arr = s[i].arr =>
        \A j \in 1..(s[i].k - 1) : j <= wt[s[i].pid].len =>
            Stays(s, i, hp[s[i].arr][j], s[i].pid, lv, we)

Reaches(s, w, p, lv, wt, hp, we) ==
    \A i \in DOMAIN s : s[i].at = "finish" /\ s[i].pid = p =>
        AheadOf(s[i], w, wt, hp) /\ SettledAt(s, i, lv, wt, hp, we)

Watch(s, ow, lv, wt, hp, we) ==
    \A w, p \in Pid :
        /\ Waits(s, ow, lv, w, p) =>
              p \in lv /\ Lists(wt, hp, p, w) /\ p \in we[w] /\ Reaches(s, w, p, lv, wt, hp, we)
        /\ Lists(wt, hp, p, w) /\ w \in lv /\ p \in lv /\ ~Ends(s, p) => p \in we[w]

\* WatchInv says it of the world's.
LEMMA WatchIs ==
    /\ WatchInv <=> /\ asked \subseteq (1..next) \X (1..next)
                    /\ Watch(stack, owed, live, waiters, heap, waitees)
    /\ WatchInv' <=> /\ asked' \subseteq (1..next') \X (1..next')
                     /\ Watch(stack', owed', live', waiters', heap', waitees')
<1>1. /\ \A p : BeingEnded(p) <=> Ends(stack, p)
      /\ \A p : BeingEnded(p)' <=> Ends(stack', p)
  BY DEF BeingEnded, Ends
<1>2. /\ \A w, p : Pends(w, p) <=> Waits(stack, owed, live, w, p)
      /\ \A w, p : Pends(w, p)' <=> Waits(stack', owed', live', w, p)
  BY <1>1 DEF Pends, Waits
<1>3. /\ \A i, w : Ahead(i, w) <=> AheadOf(stack[i], w, waiters, heap)
      /\ \A i, w : Ahead(i, w)' <=> AheadOf(stack'[i], w, waiters', heap')
  BY DEF Ahead, AheadOf
<1>4. /\ \A i : Settled(i) <=> SettledAt(stack, i, live, waiters, heap, waitees)
      /\ \A i : Settled(i)' <=> SettledAt(stack', i, live', waiters', heap', waitees')
  BY DEF Settled, SettledAt, Stays
<1>5. /\ WatchInv <=> /\ asked \subseteq (1..next) \X (1..next)
                      /\ Watch(stack, owed, live, waiters, heap, waitees)
  BY <1>1, <1>2, <1>3, <1>4, Zenon DEF WatchInv, Watch, Lists, Reaches
<1>6. WatchInv' <=> /\ asked' \subseteq (1..next') \X (1..next')
                    /\ Watch(stack', owed', live', waiters', heap', waitees')
  BY <1>1, <1>2, <1>3, <1>4, Zenon DEF WatchInv, Watch, Lists, Reaches
<1> QED BY <1>5, <1>6

-------------------------------------------------------------------------------
(* Steps that end nobody.                                                  *)

\* The same processes are being ended on t as on s, and no activation above one
\* of them can end another that is dead, unless one could on s.
Carries(s, t, lv, nx) ==
    /\ \A i \in DOMAIN s : s[i].at = "finish" => \E j \in DOMAIN t : t[j] = s[i]
    /\ \A i \in DOMAIN t : t[i].at = "finish" =>
          \E j \in DOMAIN s :
             /\ s[j] = t[i]
             /\ \A h \in 1..(i - 1) : \A x \in 1..nx :
                   x \notin lv /\ MayEnd(t[h], x) => \E g \in 1..(j - 1) : MayEnd(s[g], x)

\* A stack may be exchanged for one that carries on, and a process made that
\* nobody has watched.
LEMMA WatchCarried ==
    ASSUME NEW s, NEW t, NEW ow, NEW lv, NEW nx \in Nat, NEW wt, NEW hp, NEW we, NEW m,
           Watch(s, ow, lv, wt, hp, we), ow \subseteq (1..nx) \X (1..nx),
           Slices(hp, wt, we, nx), m = lv \/ m = lv \cup {nx + 1}, Carries(s, t, m, nx)
    PROVE  Watch(t, ow, m, wt, hp, we)
<1>1. \A p : Ends(s, p) <=> Ends(t, p)
  BY DEF Carries, Ends
<1>2. \A x \in 1..nx : x \in lv <=> x \in m
  OBVIOUS
<1>3. ASSUME NEW w \in Pid, NEW p \in Pid, Waits(t, ow, m, w, p)
      PROVE  Waits(s, ow, lv, w, p)
  <2>1. w \in 1..nx
    BY <1>3 DEF Waits
  <2> QED BY <1>1, <1>2, <1>3, <2>1 DEF Waits
<1>4. ASSUME NEW w \in Pid, NEW p \in Pid, Waits(t, ow, m, w, p)
      PROVE  p \in m /\ Lists(wt, hp, p, w) /\ p \in we[w] /\ Reaches(t, w, p, m, wt, hp, we)
  <2>1. /\ p \in lv /\ Lists(wt, hp, p, w) /\ p \in we[w]
        /\ Reaches(s, w, p, lv, wt, hp, we)
    BY <1>3, <1>4 DEF Watch
  <2>2. ASSUME NEW i \in DOMAIN t, t[i].at = "finish", t[i].pid = p
        PROVE  AheadOf(t[i], w, wt, hp) /\ SettledAt(t, i, m, wt, hp, we)
    <3>1. PICK j \in DOMAIN s :
             /\ s[j] = t[i]
             /\ \A h \in 1..(i - 1) : \A x \in 1..nx :
                   x \notin m /\ MayEnd(t[h], x) => \E g \in 1..(j - 1) : MayEnd(s[g], x)
      BY <2>2 DEF Carries
    <3>2. AheadOf(s[j], w, wt, hp) /\ SettledAt(s, j, lv, wt, hp, we)
      BY <2>1, <2>2, <3>1 DEF Reaches
    <3>3. ASSUME wt[p].arr = t[i].arr, NEW c \in 1..(t[i].k - 1), c <= wt[p].len
          PROVE  Stays(t, i, hp[t[i].arr][c], p, m, we)
      <4>1. Stays(s, j, hp[t[i].arr][c], p, lv, we)
        BY <2>2, <3>1, <3>2, <3>3 DEF SettledAt
      <4>2. hp[t[i].arr][c] \in 1..nx
        <5>1. wt[p].len \in Nat
          BY DEF Slices
        <5>2. c \in 1..wt[p].len
          BY <3>3, <5>1
        <5> QED BY <3>3, <5>2 DEF Slices
      <4> QED BY <1>2, <3>1, <4>1, <4>2 DEF Stays
    <3> QED BY <2>2, <3>1, <3>2, <3>3 DEF SettledAt
  <2> QED BY <2>1, <2>2 DEF Reaches
<1>5. ASSUME NEW w \in Pid, NEW p \in Pid, Lists(wt, hp, p, w), w \in m, p \in m, ~Ends(t, p)
      PROVE  p \in we[w]
  <2>1. w \in 1..nx /\ wt[p].len \in Nat /\ (p > nx => wt[p].len = 0)
    BY <1>5 DEF Lists, Slices
  <2>2. wt[p].len # 0
    BY <1>5 DEF Lists
  <2>3. p \in 1..nx
    BY <2>1, <2>2, ProcQueueAssumption DEF Pid
  <2> QED BY <1>1, <1>2, <1>5, <2>1, <2>3 DEF Watch
<1> QED BY <1>4, <1>5 DEF Watch

\* A stack carries on under an activation that ends nobody, or only the living.
LEMMA CarriesPush ==
    ASSUME NEW T, NEW s \in Seq(T), NEW a, a.at # "finish", NEW lv, NEW nx,
           \A x \in 1..nx : MayEnd(a, x) => x \in lv
    PROVE  Carries(s, <<a>> \o s, lv, nx)
<1> DEFINE t == <<a>> \o s
<1>1. /\ t[1] = a /\ DOMAIN s = 1..Len(s) /\ DOMAIN t = 1..(Len(s) + 1) /\ Len(s) \in Nat
      /\ \A k \in DOMAIN t : k = 1 \/ (k - 1 \in DOMAIN s /\ t[k] = s[k - 1])
      /\ \A k \in DOMAIN s : k + 1 \in DOMAIN t /\ t[k + 1] = s[k]
  BY PushIs
<1> HIDE DEF t
<1>2. ASSUME NEW i \in DOMAIN t, t[i].at = "finish"
      PROVE  \E j \in DOMAIN s :
                /\ s[j] = t[i]
                /\ \A h \in 1..(i - 1) : \A x \in 1..nx :
                      x \notin lv /\ MayEnd(t[h], x) => \E g \in 1..(j - 1) : MayEnd(s[g], x)
  <2>1. i # 1 /\ i - 1 \in DOMAIN s /\ s[i - 1] = t[i]
    BY <1>1, <1>2
  <2>2. ASSUME NEW h \in 1..(i - 1), NEW x \in 1..nx, x \notin lv, MayEnd(t[h], x)
        PROVE  \E g \in 1..((i - 1) - 1) : MayEnd(s[g], x)
    <3>1. h # 1
      BY <1>1, <2>2
    <3>2. h - 1 \in 1..((i - 1) - 1) /\ h \in DOMAIN t
      BY <1>1, <3>1
    <3>3. t[h] = s[h - 1]
      BY <1>1, <3>1, <3>2
    <3> QED BY <2>2, <3>2, <3>3
  <2> QED BY <2>1, <2>2
<1>3. Carries(s, t, lv, nx)
  BY <1>1, <1>2, Zenon DEF Carries
<1> QED BY <1>3 DEF t

\* So it does when one that ends nobody has returned.
LEMMA CarriesPop ==
    ASSUME NEW T, NEW s \in Seq(T), s # <<>>, Head(s).at # "finish", NEW lv, NEW nx
    PROVE  Carries(s, Tail(s), lv, nx)
<1> DEFINE t == Tail(s)
<1>1. /\ Head(s) = s[1] /\ DOMAIN s = 1..Len(s) /\ DOMAIN t = 1..(Len(s) - 1) /\ Len(s) \in Nat
      /\ \A k \in DOMAIN t : k + 1 \in DOMAIN s /\ t[k] = s[k + 1]
  OBVIOUS
<1> HIDE DEF t
<1>2. ASSUME NEW i \in DOMAIN t
      PROVE  \E j \in DOMAIN s :
                /\ s[j] = t[i]
                /\ \A h \in 1..(i - 1) : \A x \in 1..nx :
                      x \notin lv /\ MayEnd(t[h], x) => \E g \in 1..(j - 1) : MayEnd(s[g], x)
  <2>1. i + 1 \in DOMAIN s /\ s[i + 1] = t[i]
    BY <1>1
  <2>2. ASSUME NEW h \in 1..(i - 1), NEW x, MayEnd(t[h], x)
        PROVE  \E g \in 1..((i + 1) - 1) : MayEnd(s[g], x)
    <3>1. h + 1 \in 1..((i + 1) - 1) /\ h \in DOMAIN t
      BY <1>1
    <3>2. t[h] = s[h + 1]
      BY <1>1, <3>1
    <3> QED BY <2>2, <3>1, <3>2
  <2> QED BY <2>1, <2>2
<1>3. \A i \in DOMAIN s : s[i].at = "finish" => \E j \in DOMAIN t : t[j] = s[i]
  <2> SUFFICES ASSUME NEW i \in DOMAIN s, s[i].at = "finish" PROVE \E j \in DOMAIN t : t[j] = s[i]
    OBVIOUS
  <2>1. i # 1 /\ i - 1 \in DOMAIN t /\ (i - 1) + 1 = i
    BY <1>1
  <2> QED BY <1>1, <2>1
<1>4. Carries(s, t, lv, nx)
  BY <1>2, <1>3, Zenon DEF Carries
<1> QED BY <1>4 DEF t

\* Nobody is being ended: there is nothing to carry.
LEMMA CarriesNone ==
    ASSUME NEW s, NEW t, NEW lv, NEW nx,
           \A i \in DOMAIN s : s[i].at # "finish", \A i \in DOMAIN t : t[i].at # "finish"
    PROVE  Carries(s, t, lv, nx)
BY DEF Carries

\* A stack carries itself.
LEMMA CarriesSelf ==
    ASSUME NEW s, NEW lv, NEW nx
    PROVE  Carries(s, s, lv, nx)
BY DEF Carries

-------------------------------------------------------------------------------
(* The loop of a process being ended.                                      *)

\* Where an activation that ends p, at the top, has told everyone: nobody waits
\* for p any more, so it may leave the queue.
LEMMA WatchRemove ==
    ASSUME NEW T, NEW s \in Seq(T), s # <<>>, NEW ow, NEW lv, NEW wt, NEW hp, NEW we,
           Watch(s, ow, lv, wt, hp, we), Head(s).at = "finish",
           Head(s).k \in Nat, Head(s).len \in Nat, Head(s).k > Head(s).len
    PROVE  Watch(Tail(s), ow, lv \ {Head(s).pid}, wt, hp, we)
<1> DEFINE t == Tail(s)
           a == Head(s)
           m == lv \ {a.pid}
<1>1. /\ a = s[1] /\ DOMAIN s = 1..Len(s) /\ DOMAIN t = 1..(Len(s) - 1) /\ Len(s) \in Nat
      /\ 1 \in DOMAIN s
      /\ \A k \in DOMAIN t : k + 1 \in DOMAIN s /\ t[k] = s[k + 1]
  OBVIOUS
<1>2. a.at = "finish" /\ a.k \in Nat /\ a.len \in Nat /\ a.k > a.len
  OBVIOUS
<1> HIDE DEF t, a
<1>3. \A p : Ends(s, p) <=> p = a.pid \/ Ends(t, p)
  <2>1. \A k \in DOMAIN s : k = 1 \/ (k - 1 \in DOMAIN t /\ t[k - 1] = s[k])
    <3> TAKE k \in DOMAIN s
    <3>1. k # 1 => k - 1 \in DOMAIN t /\ (k - 1) + 1 = k
      BY <1>1
    <3> QED BY <1>1, <3>1
  <2>2. ASSUME NEW p, NEW k \in DOMAIN s, s[k].at = "finish", s[k].pid = p
        PROVE  p = a.pid \/ Ends(t, p)
    BY <1>1, <2>1, <2>2, Zenon DEF Ends
  <2>3. ASSUME NEW p, Ends(t, p) PROVE Ends(s, p)
    BY <1>1, <2>3, Zenon DEF Ends
  <2>4. Ends(s, a.pid)
    BY <1>1, <1>2, Zenon DEF Ends
  <2> QED BY <2>2, <2>3, <2>4, Zenon DEF Ends
<1>4. ASSUME NEW w \in Pid, NEW p \in Pid, Waits(t, ow, m, w, p)
      PROVE  p \in m /\ Lists(wt, hp, p, w) /\ p \in we[w] /\ Reaches(t, w, p, m, wt, hp, we)
  <2>1. Waits(s, ow, lv, w, p)
    BY <1>3, <1>4 DEF Waits
  <2>2. p \in lv /\ Lists(wt, hp, p, w) /\ p \in we[w] /\ Reaches(s, w, p, lv, wt, hp, we)
    BY <2>1 DEF Watch
  <2>3. p # a.pid
    <3> SUFFICES ASSUME p = a.pid PROVE FALSE
      OBVIOUS
    <3>1. AheadOf(a, w, wt, hp)
      BY <1>1, <1>2, <2>2 DEF Reaches
    <3> QED BY <1>2, <3>1 DEF AheadOf
  <2>4. ASSUME NEW i \in DOMAIN t, t[i].at = "finish", t[i].pid = p
        PROVE  AheadOf(t[i], w, wt, hp) /\ SettledAt(t, i, m, wt, hp, we)
    <3>1. i + 1 \in DOMAIN s /\ t[i] = s[i + 1]
      BY <1>1
    <3>2. AheadOf(s[i + 1], w, wt, hp) /\ SettledAt(s, i + 1, lv, wt, hp, we)
      BY <2>2, <2>4, <3>1 DEF Reaches
    <3>3. \A h \in 1..(i - 1) : h + 1 \in 1..((i + 1) - 1) /\ t[h] = s[h + 1]
      BY <1>1, SMTT(40)
    <3>4. ASSUME NEW x, Stays(s, i + 1, x, p, lv, we) PROVE Stays(t, i, x, p, m, we)
      <4>1. CASE p \notin we[x]
        BY <4>1 DEF Stays
      <4>2. CASE x \notin lv /\ \A h \in 1..((i + 1) - 1) : ~MayEnd(s[h], x)
        <5>1. \A h \in 1..(i - 1) : ~MayEnd(t[h], x)
          BY <3>3, <4>2, Zenon
        <5> QED BY <4>2, <5>1 DEF Stays
      <4> QED BY <3>4, <4>1, <4>2 DEF Stays
    <3> QED BY <2>4, <3>1, <3>2, <3>4 DEF SettledAt
  <2> QED BY <2>2, <2>3, <2>4 DEF Reaches
<1>5. ASSUME NEW w \in Pid, NEW p \in Pid, Lists(wt, hp, p, w), w \in m, p \in m, ~Ends(t, p)
      PROVE  p \in we[w]
  BY <1>3, <1>5 DEF Watch
<1>6. Watch(t, ow, m, wt, hp, we)
  BY <1>4, <1>5 DEF Watch
<1> QED BY <1>6 DEF t, a

\* t is s but for its top, b instead of a, which ends the same process p0 and has
\* turned past w0.
Turned(s, t, a, b) ==
    /\ a = s[1] /\ t[1] = b /\ DOMAIN t = DOMAIN s /\ Len(s) \in Nat
    /\ DOMAIN s = 1..Len(s) /\ 1 \in DOMAIN s
    /\ \A k \in DOMAIN s : k # 1 => t[k] = s[k]

LoopTurns(a, b, w0, hp) ==
    /\ a.at = "finish" /\ a.pid \in Pid /\ a.k \in Nat /\ a.len \in Nat /\ a.k <= a.len
    /\ w0 = hp[a.arr][a.k]
    /\ b.at = "finish" /\ b.pid = a.pid /\ b.k = a.k + 1 /\ b.len = a.len /\ b.arr = a.arr

\* w0 has been told of p0, if it lives, and nobody else of anything.
HasTold(ow, ow2, we, we2, w0, p0, lv) ==
    /\ \A w, p \in Pid : <<w, p>> \in ow2 <=> <<w, p>> \in ow /\ ~(w = w0 /\ w0 \in lv /\ p = p0)
    /\ \A w, p \in Pid : p \in we2[w] <=> p \in we[w] /\ ~(w = w0 /\ w0 \in lv /\ p = p0)

\* What is in the lists are processes.
Listed(wt, hp) ==
    \A p \in Pid : \A j \in Nat : 1 <= j /\ j <= wt[p].len => hp[wt[p].arr][j] \in Pid

\* Taking a pair from the owed and a process from those w0 watches, or nothing.
LEMMA ToldIs ==
    ASSUME NEW ow, NEW ow2, NEW lv \in SUBSET Pid, NEW we \in [Pid -> SUBSET Pid], NEW we2,
           NEW w0, NEW p0,
           \/ w0 \notin lv /\ ow2 = ow /\ we2 = we
           \/ /\ w0 \in lv /\ ow2 = ow \ {<<w0, p0>>}
              /\ we2 = [we EXCEPT ![w0] = @ \ {p0}]
    PROVE  HasTold(ow, ow2, we, we2, w0, p0, lv)
<1>1. CASE w0 \notin lv
  BY <1>1, Zenon DEF HasTold
<1>2. CASE w0 \in lv
  <2>1. w0 \in Pid /\ ow2 = ow \ {<<w0, p0>>} /\ we2 = [we EXCEPT ![w0] = @ \ {p0}]
    BY <1>2, Zenon
  <2>2. \A w, p \in Pid : <<w, p>> \in ow2 <=> <<w, p>> \in ow /\ ~(w = w0 /\ p = p0)
    BY <2>1, Zenon
  <2>3. \A w, p \in Pid : p \in we2[w] <=> p \in we[w] /\ ~(w = w0 /\ p = p0)
    BY <2>1, Zenon
  <2> QED BY <1>2, <2>2, <2>3, Zenon DEF HasTold
<1> QED BY <1>1, <1>2, Zenon

\* A new top in the place of the old.
LEMMA TurnedTop ==
    ASSUME NEW T, NEW s \in Seq(T), s # <<>>, NEW b
    PROVE  Turned(s, <<b>> \o Tail(s), Head(s), b)
<1> DEFINE r == Tail(s)
           t == <<b>> \o r
<1>1. /\ Head(s) = s[1] /\ DOMAIN s = 1..Len(s) /\ Len(s) \in Nat /\ 1 \in DOMAIN s
      /\ r \in Seq(T) /\ Len(r) = Len(s) - 1 /\ \A k \in 1..(Len(s) - 1) : r[k] = s[k + 1]
  OBVIOUS
<1> HIDE DEF r
<1>2. /\ DOMAIN t = 1..(Len(r) + 1) /\ t[1] = b /\ DOMAIN r = 1..Len(r)
      /\ \A k \in DOMAIN r : t[k + 1] = r[k]
  <2>1. r \in Seq(T)
    BY <1>1
  <2>2. /\ DOMAIN r = 1..Len(r)
        /\ DOMAIN (<<b>> \o r) = 1..(Len(r) + 1) /\ (<<b>> \o r)[1] = b
        /\ \A k \in DOMAIN r : k + 1 \in DOMAIN (<<b>> \o r) /\ (<<b>> \o r)[k + 1] = r[k]
    BY <2>1, PushIs
  <2> QED BY <2>2, Zenon
<1> HIDE DEF t
<1>3. DOMAIN t = DOMAIN s
  BY <1>1, <1>2
<1>4. ASSUME NEW k \in DOMAIN s, k # 1 PROVE t[k] = s[k]
  <2>1. k - 1 \in 1..(Len(s) - 1) /\ (k - 1) + 1 = k
    BY <1>1, <1>4
  <2>2. k - 1 \in DOMAIN r
    BY <1>1, <1>2, <2>1
  <2>3. t[(k - 1) + 1] = r[k - 1]
    BY <1>2, <2>2, Zenon
  <2>4. r[k - 1] = s[(k - 1) + 1]
    BY <1>1, <2>1, Zenon
  <2> QED BY <2>1, <2>3, <2>4
<1>5. Turned(s, t, Head(s), b)
  BY <1>1, <1>2, <1>3, <1>4 DEF Turned
<1> QED BY <1>5 DEF t, r

\* The lists of the living hold processes, where there are any.
LEMMA SlicesList ==
    ASSUME NEW hp, NEW wt, NEW we, NEW nx \in Nat, nx <= MaxPid, Slices(hp, wt, we, nx)
    PROVE  Listed(wt, hp)
<1> USE ProcQueueAssumption
<1> SUFFICES ASSUME NEW p \in Pid, NEW j \in Nat, 1 <= j, j <= wt[p].len
             PROVE  hp[wt[p].arr][j] \in Pid
  BY DEF Listed
<1>1. wt[p].len \in Nat
  BY DEF Slices
<1>2. j \in 1..wt[p].len
  BY <1>1
<1>3. hp[wt[p].arr][j] \in 1..nx
  BY <1>2 DEF Slices
<1> HIDE DEF Slices
<1> QED BY <1>3 DEF Pid

\* Those above a loop that has turned may end no more than they could, and
\* nobody watches more than they did.
LEMMA TurnStays ==
    ASSUME NEW s, NEW t, NEW a, NEW b, NEW lv, NEW we, NEW we2, NEW ow, NEW ow2, NEW w0, NEW hp,
           NEW i \in DOMAIN s, NEW x \in Pid, NEW p \in Pid,
           Turned(s, t, a, b), LoopTurns(a, b, w0, hp), HasTold(ow, ow2, we, we2, w0, a.pid, lv),
           Stays(s, i, x, p, lv, we)
    PROVE  Stays(t, i, x, p, lv, we2)
<1>1. p \notin we[x] => p \notin we2[x]
  BY DEF HasTold
<1>2. \A h \in 1..(i - 1) : MayEnd(t[h], x) => MayEnd(s[h], x)
  <2> TAKE h \in 1..(i - 1)
  <2>1. h \in DOMAIN s
    BY DEF Turned
  <2>2. CASE h = 1
    BY <2>2 DEF Turned, LoopTurns, MayEnd
  <2>3. CASE h # 1
    BY <2>1, <2>3 DEF Turned
  <2> QED BY <2>2, <2>3
<1> QED BY <1>1, <1>2 DEF Stays

\* The same processes are being ended.
LEMMA TurnEnds ==
    ASSUME NEW s, NEW t, NEW a, NEW b, NEW w0, NEW hp, Turned(s, t, a, b), LoopTurns(a, b, w0, hp)
    PROVE  /\ \A p : Ends(s, p) <=> Ends(t, p)
           /\ \A i \in DOMAIN t : /\ i \in DOMAIN s /\ t[i].at = s[i].at /\ t[i].pid = s[i].pid
                                  /\ i # 1 => t[i] = s[i]
<1>1. \A i \in DOMAIN t : /\ i \in DOMAIN s /\ t[i].at = s[i].at /\ t[i].pid = s[i].pid
                          /\ i # 1 => t[i] = s[i]
  <2> TAKE i \in DOMAIN t
  <2>1. i \in DOMAIN s
    BY DEF Turned
  <2>2. CASE i = 1
    BY <2>1, <2>2 DEF Turned, LoopTurns
  <2>3. CASE i # 1
    BY <2>1, <2>3 DEF Turned
  <2> QED BY <2>1, <2>2, <2>3
<1>2. DOMAIN t = DOMAIN s
  BY DEF Turned
<1> QED BY <1>1, <1>2 DEF Ends

\* The top that has turned has still in front of it whoever waits, but w0, and
\* behind it w0 too, who is settled: told, or ended.
LEMMA TurnTop ==
    ASSUME NEW s, NEW t, NEW a, NEW b, NEW lv, NEW wt, NEW hp, NEW we, NEW we2, NEW ow, NEW ow2,
           NEW w0, NEW w \in Pid, NEW p \in Pid, Listed(wt, hp), wt[p].len \in Nat,
           Turned(s, t, a, b), LoopTurns(a, b, w0, hp), HasTold(ow, ow2, we, we2, w0, a.pid, lv),
           p = a.pid, w # w0, AheadOf(a, w, wt, hp), SettledAt(s, 1, lv, wt, hp, we)
    PROVE  AheadOf(b, w, wt, hp) /\ SettledAt(t, 1, lv, wt, hp, we2)
<1>1. /\ a.k \in Nat /\ a.len \in Nat /\ a.k <= a.len /\ w0 = hp[a.arr][a.k]
      /\ b.pid = a.pid /\ b.k = a.k + 1 /\ b.len = a.len /\ b.arr = a.arr
  BY DEF LoopTurns
<1>2. s[1] = a /\ t[1] = b /\ 1 \in DOMAIN s
  BY DEF Turned
<1>3. AheadOf(b, w, wt, hp)
  <2>1. PICK j \in a.k..a.len : hp[a.arr][j] = w /\ (wt[p].arr = a.arr => j <= wt[p].len)
    BY DEF AheadOf
  <2>2. j # a.k
    BY <1>1, <2>1
  <2>3. j \in b.k..b.len
    BY <1>1, <2>1, <2>2
  <2> QED BY <1>1, <2>1, <2>3 DEF AheadOf
<1>4. ASSUME wt[p].arr = b.arr, NEW c \in 1..(b.k - 1), c <= wt[p].len
      PROVE  Stays(t, 1, hp[b.arr][c], p, lv, we2)
  <2>1. c \in Nat /\ 1 <= c /\ (c \in 1..(a.k - 1) \/ c = a.k)
    BY <1>1
  <2>2. hp[b.arr][c] \in Pid
    BY <1>4, <2>1 DEF Listed
  <2>3. CASE c = a.k
    <3>1. hp[b.arr][c] = w0
      BY <1>1, <2>3
    <3>2. w0 \in lv => p \notin we2[w0]
      BY <2>2, <3>1 DEF HasTold
    <3>3. \A h \in 1..(1 - 1) : FALSE
      OBVIOUS
    <3> QED BY <3>1, <3>2, <3>3 DEF Stays
  <2>4. CASE c \in 1..(a.k - 1)
    <3>1. Stays(s, 1, hp[a.arr][c], p, lv, we)
      BY <1>1, <1>2, <1>4, <2>4 DEF SettledAt
    <3>2. hp[a.arr][c] = hp[b.arr][c]
      BY <1>1
    <3> QED BY <1>2, <2>2, <3>1, <3>2, TurnStays
  <2> QED BY <2>1, <2>3, <2>4
<1>5. SettledAt(t, 1, lv, wt, hp, we2)
  BY <1>1, <1>2, <1>4 DEF SettledAt
<1> QED BY <1>3, <1>5

\* Below the top nothing has changed.
LEMMA TurnBelow ==
    ASSUME NEW s, NEW t, NEW a, NEW b, NEW lv, NEW wt, NEW hp, NEW we, NEW we2, NEW ow, NEW ow2,
           NEW w0, NEW i \in DOMAIN s, Listed(wt, hp), s[i].pid \in Pid,
           Turned(s, t, a, b), LoopTurns(a, b, w0, hp), HasTold(ow, ow2, we, we2, w0, a.pid, lv),
           t[i] = s[i], SettledAt(s, i, lv, wt, hp, we)
    PROVE  SettledAt(t, i, lv, wt, hp, we2)
<1>1. ASSUME wt[s[i].pid].arr = s[i].arr, NEW c \in 1..(s[i].k - 1), c <= wt[s[i].pid].len
      PROVE  Stays(t, i, hp[s[i].arr][c], s[i].pid, lv, we2)
  <2>1. Stays(s, i, hp[s[i].arr][c], s[i].pid, lv, we)
    BY <1>1 DEF SettledAt
  <2>2. c \in Nat /\ 1 <= c
    OBVIOUS
  <2>3. hp[s[i].arr][c] \in Pid
    BY <1>1, <2>2 DEF Listed
  <2> QED BY <2>1, <2>3, TurnStays
<1> QED BY <1>1 DEF SettledAt

\* So the invariant outlives the turn of a loop.
LEMMA WatchTurn ==
    ASSUME NEW s, NEW t, NEW a, NEW b, NEW lv, NEW wt, NEW hp, NEW we, NEW we2, NEW ow, NEW ow2,
           NEW w0, Listed(wt, hp), \A p \in Pid : wt[p].len \in Nat,
           Turned(s, t, a, b), LoopTurns(a, b, w0, hp), HasTold(ow, ow2, we, we2, w0, a.pid, lv),
           Watch(s, ow, lv, wt, hp, we)
    PROVE  Watch(t, ow2, lv, wt, hp, we2)
<1>1. \A p : Ends(s, p) <=> Ends(t, p)
  BY TurnEnds
<1>2. ASSUME NEW w \in Pid, NEW p \in Pid, Waits(t, ow2, lv, w, p)
      PROVE  p \in lv /\ Lists(wt, hp, p, w) /\ p \in we2[w] /\ Reaches(t, w, p, lv, wt, hp, we2)
  <2>1. <<w, p>> \in ow /\ ~(w = w0 /\ p = a.pid) /\ w \in lv
    BY <1>2 DEF HasTold, Waits
  <2>2. Waits(s, ow, lv, w, p)
    BY <1>1, <1>2, <2>1 DEF Waits
  <2>3. p \in lv /\ Lists(wt, hp, p, w) /\ p \in we[w] /\ Reaches(s, w, p, lv, wt, hp, we)
    BY <2>2 DEF Watch
  <2>4. p \in we2[w]
    BY <2>1, <2>3 DEF HasTold
  <2>5. ASSUME NEW i \in DOMAIN t, t[i].at = "finish", t[i].pid = p
        PROVE  AheadOf(t[i], w, wt, hp) /\ SettledAt(t, i, lv, wt, hp, we2)
    <3>1. i \in DOMAIN s /\ s[i].at = "finish" /\ s[i].pid = p /\ (i # 1 => t[i] = s[i])
      BY <2>5, TurnEnds
    <3>2. AheadOf(s[i], w, wt, hp) /\ SettledAt(s, i, lv, wt, hp, we)
      BY <2>3, <3>1 DEF Reaches
    <3>3. CASE i = 1
      <4>1. s[1] = a /\ t[1] = b
        BY DEF Turned
      <4>2. p = a.pid /\ w # w0
        BY <2>1, <3>1, <3>3, <4>1
      <4>3. AheadOf(b, w, wt, hp) /\ SettledAt(t, 1, lv, wt, hp, we2)
        BY <3>2, <3>3, <4>1, <4>2, TurnTop
      <4> QED BY <3>3, <4>1, <4>3
    <3>4. CASE i # 1
      <4>1. SettledAt(t, i, lv, wt, hp, we2)
        BY <3>1, <3>2, <3>4, TurnBelow
      <4> QED BY <3>1, <3>2, <3>4, <4>1
    <3> QED BY <3>3, <3>4
  <2> QED BY <2>3, <2>4, <2>5 DEF Reaches
<1>3. ASSUME NEW w \in Pid, NEW p \in Pid, Lists(wt, hp, p, w), w \in lv, p \in lv, ~Ends(t, p)
      PROVE  p \in we2[w]
  <2>1. p \in we[w]
    BY <1>1, <1>3 DEF Watch
  <2>2. Ends(s, a.pid)
    BY DEF Turned, LoopTurns, Ends
  <2>3. p # a.pid
    BY <1>1, <1>3, <2>2
  <2> QED BY <2>1, <2>3 DEF HasTold
<1> QED BY <1>2, <1>3 DEF Watch

\* So it does under one put for the top that may end no more than that could.
LEMMA CarriesTop ==
    ASSUME NEW T, NEW s \in Seq(T), s # <<>>, Head(s).at # "finish", NEW a, a.at # "finish",
           \A x : MayEnd(a, x) => MayEnd(Head(s), x), NEW lv, NEW nx
    PROVE  Carries(s, <<a>> \o Tail(s), lv, nx)
<1> DEFINE r == Tail(s)
           t == <<a>> \o r
<1>1. /\ Head(s) = s[1] /\ DOMAIN s = 1..Len(s) /\ Len(s) \in Nat /\ r \in Seq(T)
      /\ 1 \in DOMAIN s /\ DOMAIN r = 1..(Len(s) - 1) /\ Len(r) = Len(s) - 1
      /\ \A k \in DOMAIN r : k + 1 \in DOMAIN s /\ r[k] = s[k + 1]
  OBVIOUS
<1> HIDE DEF r
<1>2. /\ t[1] = a /\ DOMAIN t = 1..(Len(r) + 1)
      /\ \A k \in DOMAIN t : k = 1 \/ (k - 1 \in DOMAIN r /\ t[k] = r[k - 1])
  <2>1. r \in Seq(T)
    BY <1>1
  <2> QED BY <2>1, PushIs
<1> HIDE DEF t
<1>3. DOMAIN t = DOMAIN s /\ \A k \in DOMAIN s : k # 1 => t[k] = s[k]
  <2>1. DOMAIN t = DOMAIN s
    BY <1>1, <1>2
  <2>2. \A k \in DOMAIN s : k # 1 => k - 1 \in DOMAIN r /\ t[k] = r[k - 1] /\ (k - 1) + 1 = k
    BY <1>1, <1>2, <2>1
  <2> QED BY <1>1, <2>1, <2>2
<1>4. \A k \in DOMAIN s : \A x : MayEnd(t[k], x) => MayEnd(s[k], x)
  BY <1>1, <1>2, <1>3
<1>5. \A k \in DOMAIN s : s[k].at = "finish" \/ t[k].at = "finish" => t[k] = s[k]
  BY <1>1, <1>2, <1>3
<1>6. \A i \in DOMAIN s : \A h \in 1..(i - 1) : h \in DOMAIN s
  BY <1>1
<1>7. Carries(s, t, lv, nx)
  BY <1>3, <1>4, <1>5, <1>6 DEF Carries
<1> QED BY <1>7 DEF t, r

-------------------------------------------------------------------------------
(* The start of an end: a process leaves the lists of those it watches.     *)

\* Of the processes that somebody waits for and that q0 watches, no loop has q0
\* behind it.
Clear(t, ow, lv, wt, hp, we, q0) ==
    \A w, p \in Pid : Waits(t, ow, lv, w, p) /\ p \in we[q0] =>
        \A i \in DOMAIN t : t[i].at = "finish" /\ t[i].pid = p /\ wt[p].arr = t[i].arr =>
            \A j \in 1..(t[i].k - 1) : j <= wt[p].len => hp[t[i].arr][j] # q0

\* Only a live process is ended, or the one that runs or is swept.
LEMMA ClearIs ==
    ASSUME NEW T, NEW s \in Seq(T), NEW t, NEW ow, NEW lv, NEW wt, NEW hp, NEW we, NEW nx \in Nat,
           nx <= MaxPid, lv \subseteq 1..nx,
           NEW q0 \in 1..nx, Watch(s, ow, lv, wt, hp, we), Carries(s, t, lv, nx),
           q0 \in lv \/ (s # <<>> /\ s[1].at # "finish" /\ MayEnd(s[1], q0))
    PROVE  Clear(t, ow, lv, wt, hp, we, q0)
<1> SUFFICES ASSUME NEW w \in Pid, NEW p \in Pid, Waits(t, ow, lv, w, p), p \in we[q0],
                    NEW i \in DOMAIN t, t[i].at = "finish", t[i].pid = p, wt[p].arr = t[i].arr,
                    NEW c \in 1..(t[i].k - 1), c <= wt[p].len, hp[t[i].arr][c] = q0
             PROVE  FALSE
  BY DEF Clear
<1>1. PICK j \in DOMAIN s : s[j] = t[i]
  BY DEF Carries
<1>2. Waits(s, ow, lv, w, p)
  <2>1. ASSUME NEW k \in DOMAIN s, s[k].at = "finish", s[k].pid = w PROVE Ends(t, w)
    <3>1. PICK m \in DOMAIN t : t[m] = s[k]
      BY <2>1 DEF Carries
    <3> QED BY <2>1, <3>1 DEF Ends
  <2>2. <<w, p>> \in ow /\ w \in lv /\ ~Ends(t, w)
    BY DEF Waits
  <2> QED BY <2>1, <2>2 DEF Waits, Ends
<1>3. SettledAt(s, j, lv, wt, hp, we)
  BY <1>1, <1>2 DEF Watch, Reaches
<1>4. Stays(s, j, q0, p, lv, we)
  BY <1>1, <1>3 DEF SettledAt
<1>5. q0 \notin lv /\ \A h \in 1..(j - 1) : ~MayEnd(s[h], q0)
  BY <1>4 DEF Stays
<1>6. s # <<>> /\ s[1].at # "finish" /\ MayEnd(s[1], q0)
  BY <1>5
<1>7. j # 1 /\ j \in 1..Len(s) /\ Len(s) \in Nat
  BY <1>1, <1>6
<1>8. 1 \in 1..(j - 1)
  BY <1>7
<1> QED BY <1>5, <1>6, <1>8

\* Who is in a list from which x is shifted out, and where.
LEMMA ShiftCells ==
    ASSUME SlicesInv, NEW p \in Pid, NEW x, ShiftedOut(p, x)
    PROVE  \E at \in 1..waiters[p].len :
              /\ heap[waiters[p].arr][at] = x
              /\ waiters'[p].len = waiters[p].len - 1 /\ waiters[p].len \in Nat
              /\ \A j \in 1..waiters[p].len : j # at =>
                    \E h \in 1..waiters'[p].len :
                       /\ heap'[waiters[p].arr][h] = heap[waiters[p].arr][j] /\ h <= j
                       /\ h = j \/ h >= at
              /\ \A h \in 1..waiters'[p].len :
                    /\ \E j \in 1..waiters[p].len :
                          heap'[waiters[p].arr][h] = heap[waiters[p].arr][j]
                    /\ h < at => heap'[waiters[p].arr][h] = heap[waiters[p].arr][h]
<1> DEFINE n == waiters[p].len
           s == heap[waiters[p].arr]
           t == heap'[waiters[p].arr]
<1>1. n \in Nat /\ n <= Len(s) /\ Len(s) \in Nat
  BY SliceFacts
<1>2. PICK at \in 1..n : /\ s[at] = x /\ waiters'[p].len = n - 1
                         /\ \A k \in 1..Len(s) :
                               t[k] = IF k >= at /\ k < n THEN s[k + 1] ELSE s[k]
  BY Zenon DEF ShiftedOut
<1> HIDE DEF n, s, t
<1>3. ASSUME NEW j \in 1..n, j # at
      PROVE  \E h \in 1..(n - 1) : t[h] = s[j] /\ h <= j /\ (h = j \/ h >= at)
  <2>1. CASE j < at
    <3>1. j \in 1..(n - 1) /\ j \in 1..Len(s) /\ t[j] = s[j] /\ j <= j
      BY <1>1, <1>2, <2>1
    <3> QED BY <3>1
  <2>2. CASE ~(j < at)
    <3>1. /\ j - 1 \in 1..(n - 1) /\ j - 1 \in 1..Len(s) /\ j - 1 >= at /\ j - 1 < n
          /\ (j - 1) + 1 = j /\ j - 1 <= j
      BY <1>1, <1>3, <2>2
    <3>2. t[j - 1] = s[j]
      BY <1>2, <3>1
    <3> QED BY <3>1, <3>2
  <2> QED BY <2>1, <2>2
<1>4. ASSUME NEW h \in 1..(n - 1)
      PROVE  (\E j \in 1..n : t[h] = s[j]) /\ (h < at => t[h] = s[h])
  <2>1. h \in 1..Len(s) /\ h \in 1..n /\ h + 1 \in 1..n
    BY <1>1
  <2> QED BY <1>2, <2>1
<1> QED BY <1>1, <1>2, <1>3, <1>4 DEF n, s, t

\* A process begins to end: it leaves the lists of others, and the loop over
\* its own has everyone in front of it.
LEMMA WatchFinish ==
    ASSUME SlicesInv, waitees \in [Pid -> SUBSET Pid], NEW q0 \in Pid, NEW t \in Seq(Act),
           Finish(q0, t), RangedAll(t, heap, waiters),
           Watch(t, owed, live, waiters, heap, waitees),
           Clear(t, owed, live, waiters, heap, waitees, q0)
    PROVE  Watch(stack', owed, live, waiters', heap', waitees)
<1> DEFINE S == waitees[q0] \cap live
           b == Ending(q0, 1)
           Touched(p) == p \in S /\ q0 \in Watching(waiters[p])
           arr(p) == waiters[p].arr
<1>1. RemoveWaiter(S, q0) /\ stack' = <<b>> \o t /\ S \in SUBSET Pid
  BY DEF Finish
<1>2. /\ stack'[1] = b /\ DOMAIN t = 1..Len(t) /\ DOMAIN stack' = 1..(Len(t) + 1)
      /\ Len(t) \in Nat
      /\ \A k \in DOMAIN stack' : k = 1 \/ (k - 1 \in DOMAIN t /\ stack'[k] = t[k - 1])
      /\ \A k \in DOMAIN t : k + 1 \in DOMAIN stack' /\ stack'[k + 1] = t[k]
  <2> DEFINE u == <<b>> \o t
  <2>1. /\ u[1] = b /\ DOMAIN t = 1..Len(t) /\ DOMAIN u = 1..(Len(t) + 1) /\ Len(t) \in Nat
        /\ \A k \in DOMAIN u : k = 1 \/ (k - 1 \in DOMAIN t /\ u[k] = t[k - 1])
        /\ \A k \in DOMAIN t : k + 1 \in DOMAIN u /\ u[k + 1] = t[k]
    BY PushIs
  <2>2. stack' = u
    BY <1>1
  <2> HIDE DEF u
  <2> QED BY <2>1, <2>2
<1>3. /\ b.at = "finish" /\ b.pid = q0 /\ b.k = 1 /\ b.arr = arr(q0) /\ b.len = waiters[q0].len
  BY DEF Ending
<1> HIDE DEF b, S
<1>4. /\ \A p \in Pid : waiters'[p].arr = arr(p)
      /\ \A p \in Pid : Touched(p) => ShiftedOut(p, q0)
      /\ \A p \in Pid : ~Touched(p) => waiters'[p] = waiters[p] /\ heap'[arr(p)] = heap[arr(p)]
      /\ \A a \in DOMAIN heap : (\A p \in Pid : arr(p) # a) => heap'[a] = heap[a]
  BY <1>1, RemoveIs, Zenon
<1>5. \A p \in Pid : Touched(p) => p \in waitees[q0] /\ p # q0
  <2>1. q0 \notin waitees[q0]
    BY DEF SlicesInv
  <2> QED BY <2>1 DEF S
<1> HIDE DEF Touched
<1>6. \A p : Ends(stack', p) <=> p = q0 \/ Ends(t, p)
  <2>1. ASSUME NEW p, Ends(stack', p) PROVE p = q0 \/ Ends(t, p)
    BY <1>2, <1>3, <2>1 DEF Ends
  <2>2. Ends(stack', q0)
    BY <1>2, <1>3 DEF Ends
  <2>3. ASSUME NEW p, Ends(t, p) PROVE Ends(stack', p)
    BY <1>2, <2>3, Zenon DEF Ends
  <2> QED BY <2>1, <2>2, <2>3
<1>7. ASSUME NEW w \in Pid, NEW p \in Pid, Lists(waiters', heap', p, w)
      PROVE  Lists(waiters, heap, p, w)
  <2>1. CASE Touched(p)
    <3>1. ShiftedOut(p, q0)
      BY <1>4, <2>1
    <3>2. \A h \in 1..waiters'[p].len : \E j \in 1..waiters[p].len :
              heap'[arr(p)][h] = heap[arr(p)][j]
      BY <3>1, ShiftCells
    <3> QED BY <1>4, <1>7, <3>2 DEF Lists
  <2>2. CASE ~Touched(p)
    BY <1>4, <1>7, <2>2 DEF Lists
  <2> QED BY <2>1, <2>2
<1>8. ASSUME NEW w \in Pid, NEW p \in Pid, Lists(waiters, heap, p, w), w # q0
      PROVE  Lists(waiters', heap', p, w)
  <2>1. CASE Touched(p)
    <3>1. ShiftedOut(p, q0)
      BY <1>4, <2>1
    <3>2. PICK at \in 1..waiters[p].len :
             /\ heap[arr(p)][at] = q0
             /\ \A j \in 1..waiters[p].len : j # at =>
                   \E h \in 1..waiters'[p].len : heap'[arr(p)][h] = heap[arr(p)][j]
      BY <3>1, ShiftCells
    <3>3. PICK j \in 1..waiters[p].len : heap[arr(p)][j] = w
      BY <1>8 DEF Lists
    <3>4. \E h \in 1..waiters'[p].len : heap'[arr(p)][h] = w
      BY <1>8, <3>2, <3>3
    <3> QED BY <1>4, <3>4 DEF Lists
  <2>2. CASE ~Touched(p)
    BY <1>4, <1>8, <2>2 DEF Lists
  <2> QED BY <2>1, <2>2
<1>9. ASSUME NEW w \in Pid, NEW p \in Pid, Waits(t, owed, live, w, p), w # q0,
             NEW i \in DOMAIN t, t[i].at = "finish", t[i].pid = p
      PROVE  /\ AheadOf(t[i], w, waiters', heap')
             /\ arr(p) = t[i].arr =>
                   \A c \in 1..(t[i].k - 1) : c <= waiters'[p].len =>
                      Stays(t, i, heap'[t[i].arr][c], p, live, waitees)
  <2>1. AheadOf(t[i], w, waiters, heap) /\ SettledAt(t, i, live, waiters, heap, waitees)
    BY <1>9 DEF Watch, Reaches
  <2>2. PICK j \in t[i].k..t[i].len : /\ heap[t[i].arr][j] = w
                                      /\ arr(p) = t[i].arr => j <= waiters[p].len
    BY <1>9, <2>1 DEF AheadOf
  <2>3. t[i].arr \in DOMAIN heap /\ \A q \in Pid : arr(q) = t[i].arr => q = p
    BY <1>9 DEF RangedAll, Ranged
  <2>4. CASE arr(p) # t[i].arr
    <3>1. heap'[t[i].arr] = heap[t[i].arr]
      BY <1>4, <2>3, <2>4
    <3> QED BY <1>4, <1>9, <2>2, <2>4, <3>1 DEF AheadOf
  <2>5. CASE arr(p) = t[i].arr /\ ~Touched(p)
    <3>1. heap'[t[i].arr] = heap[t[i].arr] /\ waiters'[p] = waiters[p]
      BY <1>4, <2>5
    <3> QED BY <1>9, <2>1, <2>5, <3>1 DEF AheadOf, SettledAt
  <2>6. CASE arr(p) = t[i].arr /\ Touched(p)
    <3>1. ShiftedOut(p, q0)
      BY <1>4, <2>6
    <3>2. PICK at \in 1..waiters[p].len :
             /\ heap[arr(p)][at] = q0
             /\ waiters'[p].len = waiters[p].len - 1 /\ waiters[p].len \in Nat
             /\ \A m \in 1..waiters[p].len : m # at =>
                   \E h \in 1..waiters'[p].len :
                      /\ heap'[arr(p)][h] = heap[arr(p)][m] /\ h <= m
                      /\ h = m \/ h >= at
             /\ \A h \in 1..waiters'[p].len :
                   h < at => heap'[arr(p)][h] = heap[arr(p)][h]
      BY <3>1, ShiftCells
    <3>3. \A c \in 1..(t[i].k - 1) : c <= waiters[p].len => heap[arr(p)][c] # q0
      BY <1>5, <1>9, <2>6 DEF Clear
    <3>4. t[i].k \in Nat \ {0} /\ t[i].len \in Nat
      <4>1. t[i] \in Act
        OBVIOUS
      <4> QED BY <1>9, <4>1, ActFields
    <3> DEFINE k == t[i].k
               z == t[i].len
               n == waiters[p].len
    <3> HIDE DEF k, z, n
    <3>5. /\ k \in Nat \ {0} /\ z \in Nat /\ n \in Nat /\ at \in 1..n
          /\ waiters'[p].len = n - 1 /\ j \in k..z /\ j <= n
      BY <2>2, <2>6, <3>2, <3>4 DEF k, z, n
    <3>6. at >= k
      <4> SUFFICES ASSUME ~(at >= k) PROVE FALSE
        OBVIOUS
      <4>1. at \in 1..(k - 1) /\ at <= n
        BY <3>5
      <4> QED BY <3>2, <3>3, <4>1 DEF k, n
    <3>7. j \in 1..n /\ j # at /\ j \in Nat
      BY <1>9, <2>2, <2>6, <3>2, <3>5
    <3>8. PICK h \in 1..(n - 1) : heap'[arr(p)][h] = w /\ h <= j /\ (h = j \/ h >= at)
      BY <2>2, <2>6, <3>2, <3>5, <3>7 DEF n
    <3>9. h \in k..z /\ h <= n - 1
      BY <3>5, <3>6, <3>7, <3>8
    <3>10. AheadOf(t[i], w, waiters', heap')
      BY <1>9, <2>6, <3>5, <3>8, <3>9 DEF AheadOf, k, z
    <3>11. ASSUME NEW c \in 1..(k - 1), c <= n - 1
           PROVE  Stays(t, i, heap'[t[i].arr][c], p, live, waitees)
      <4>1. c \in 1..(n - 1) /\ c < at /\ c <= n
        BY <3>5, <3>6, <3>11
      <4>2. heap'[arr(p)][c] = heap[arr(p)][c]
        BY <3>2, <3>5, <4>1
      <4>3. Stays(t, i, heap[t[i].arr][c], p, live, waitees)
        BY <1>9, <2>1, <2>6, <3>11, <4>1 DEF SettledAt, k, n
      <4> QED BY <2>6, <4>2, <4>3
    <3> QED BY <3>5, <3>10, <3>11 DEF k
  <2> QED BY <2>4, <2>5, <2>6
<1>10. ASSUME NEW w \in Pid, NEW p \in Pid, Waits(stack', owed, live, w, p)
       PROVE  /\ p \in live /\ Lists(waiters', heap', p, w) /\ p \in waitees[w]
              /\ Reaches(stack', w, p, live, waiters', heap', waitees)
  <2>1. Waits(t, owed, live, w, p) /\ w # q0
    BY <1>6, <1>10 DEF Waits
  <2>2. p \in live /\ Lists(waiters, heap, p, w) /\ p \in waitees[w]
    BY <2>1 DEF Watch
  <2>3. ASSUME NEW i \in DOMAIN stack', stack'[i].at = "finish", stack'[i].pid = p
        PROVE  /\ AheadOf(stack'[i], w, waiters', heap')
               /\ SettledAt(stack', i, live, waiters', heap', waitees)
    <3>1. CASE i = 1
      <4>1. stack'[i] = b /\ p = q0
        BY <1>2, <1>3, <2>3, <3>1
      <4>2. waiters'[q0] = waiters[q0] /\ heap'[arr(q0)] = heap[arr(q0)]
        BY <1>4, <1>5
      <4>3. PICK j \in 1..waiters[q0].len : heap[arr(q0)][j] = w
        BY <2>2, <4>1 DEF Lists
      <4>4. AheadOf(b, w, waiters', heap')
        <5>1. waiters[q0].len \in Nat
          BY SliceFacts
        <5>2. j \in 1..waiters[q0].len /\ j <= waiters[q0].len
          BY <5>1
        <5> QED BY <1>3, <4>2, <4>3, <5>2 DEF AheadOf
      <4>5. SettledAt(stack', i, live, waiters', heap', waitees)
        <5>1. stack'[i].k = 1 /\ 1..(1 - 1) = {}
          BY <1>3, <4>1
        <5> QED BY <5>1 DEF SettledAt
      <4> QED BY <4>1, <4>4, <4>5
    <3>2. CASE i # 1
      <4>1. i - 1 \in DOMAIN t /\ stack'[i] = t[i - 1]
        BY <1>2, <3>2
      <4>2. /\ AheadOf(t[i - 1], w, waiters', heap')
            /\ arr(p) = t[i - 1].arr =>
                  \A c \in 1..(t[i - 1].k - 1) : c <= waiters'[p].len =>
                     Stays(t, i - 1, heap'[t[i - 1].arr][c], p, live, waitees)
        BY <1>9, <2>1, <2>3, <4>1
      <4>3. ASSUME NEW x, Stays(t, i - 1, x, p, live, waitees)
            PROVE  Stays(stack', i, x, p, live, waitees)
        <5>1. ASSUME NEW h \in 1..(i - 1), MayEnd(stack'[h], x)
              PROVE  h - 1 \in 1..((i - 1) - 1) /\ MayEnd(t[h - 1], x)
          <6>1. h # 1
            BY <1>2, <1>3, <5>1 DEF MayEnd
          <6>2. h \in DOMAIN stack' /\ h - 1 \in 1..((i - 1) - 1)
            BY <1>2, <4>1, <6>1
          <6> QED BY <1>2, <5>1, <6>1, <6>2
        <5> QED BY <4>3, <5>1 DEF Stays
      <4>4. SettledAt(stack', i, live, waiters', heap', waitees)
        BY <1>4, <2>3, <4>1, <4>2, <4>3 DEF SettledAt
      <4> QED BY <4>1, <4>2, <4>4
    <3> QED BY <3>1, <3>2
  <2> QED BY <1>8, <2>1, <2>2, <2>3 DEF Reaches
<1>11. ASSUME NEW w \in Pid, NEW p \in Pid, Lists(waiters', heap', p, w), w \in live, p \in live,
              ~Ends(stack', p)
       PROVE  p \in waitees[w]
  BY <1>6, <1>7, <1>11 DEF Watch
<1> QED BY <1>10, <1>11 DEF Watch

-------------------------------------------------------------------------------
(* WATCHPID.                                                               *)

\* A pair that is no longer owed asks for nothing.
LEMMA WatchFewer ==
    ASSUME NEW s, NEW ow, NEW ow2, ow2 \subseteq ow, NEW lv, NEW wt, NEW hp, NEW we,
           Watch(s, ow, lv, wt, hp, we)
    PROVE  Watch(s, ow2, lv, wt, hp, we)
<1>1. \A w, p : Waits(s, ow2, lv, w, p) => Waits(s, ow, lv, w, p)
  BY DEF Waits
<1> QED BY <1>1 DEF Watch

\* A pair may be owed when the one is in the list of the other, which is not
\* being ended.
LEMMA WatchMore ==
    ASSUME NEW s, NEW ow, NEW lv, NEW wt, NEW hp, NEW we, NEW w0 \in Pid, NEW p0 \in Pid,
           Watch(s, ow, lv, wt, hp, we), p0 \in lv, Lists(wt, hp, p0, w0), ~Ends(s, p0)
    PROVE  Watch(s, ow \cup {<<w0, p0>>}, lv, wt, hp, we)
<1> DEFINE ow2 == ow \cup {<<w0, p0>>}
<1>1. ASSUME NEW w \in Pid, NEW p \in Pid, Waits(s, ow2, lv, w, p)
      PROVE  /\ p \in lv /\ Lists(wt, hp, p, w) /\ p \in we[w]
             /\ Reaches(s, w, p, lv, wt, hp, we)
  <2>1. CASE <<w, p>> \in ow
    BY <1>1, <2>1 DEF Waits, Watch
  <2>2. CASE <<w, p>> \notin ow
    <3>1. w = w0 /\ p = p0 /\ w \in lv
      BY <1>1, <2>2 DEF Waits
    <3>2. p \in we[w]
      BY <3>1 DEF Watch
    <3>3. Reaches(s, w, p, lv, wt, hp, we)
      BY <3>1 DEF Reaches, Ends
    <3> QED BY <3>1, <3>2, <3>3
  <2> QED BY <2>1, <2>2
<1> QED BY <1>1 DEF Watch

\* p is put behind the list of q, which no loop over q's list has reached.
LEMMA WatchAppend ==
    ASSUME SlicesInv, waitees \in [Pid -> SUBSET Pid], NEW p \in Pid, NEW q \in Pid, p # q,
           q \in live, p \notin Watching(waiters[q]), AppendWaiter(q, p), NEW s \in Seq(Act),
           RangedAll(s, heap, waiters),
           waitees' = IF p \in live THEN [waitees EXCEPT ![p] = @ \cup {q}] ELSE waitees,
           Watch(s, owed, live, waiters, heap, waitees)
    PROVE  /\ Watch(s, owed, live, waiters', heap', waitees')
           /\ Lists(waiters', heap', q, p)
<1> DEFINE b == waiters'[q].arr
           a == waiters[q].arr
           n == waiters[q].len
<1>1. /\ \A r \in Pid : r # q => waiters'[r] = waiters[r]
      /\ waiters'[q].len = n + 1 /\ heap'[b][n + 1] = p
      /\ \A j \in 1..n : heap'[b][j] = heap[a][j] /\ heap'[a][j] = heap[a][j]
      /\ \A c \in DOMAIN heap : c # a => heap'[c] = heap[c]
      /\ b = a \/ (b \notin DOMAIN heap /\ heap'[a] = heap[a])
  BY AppendIs, Zenon
<1>2. /\ n \in Nat /\ a \in DOMAIN heap /\ \A j \in 1..n : heap[a][j] # p
      /\ \A r, x \in Pid : waiters[r].arr = waiters[x].arr => r = x
      /\ \A r \in Pid : waiters[r].arr \in DOMAIN heap
  <2>1. /\ n \in Nat /\ a \in DOMAIN heap
        /\ Watching(waiters[q]) = {heap[a][k] : k \in 1..n}
    BY SliceFacts
  <2>2. \A r, x \in Pid : waiters[r].arr = waiters[x].arr => r = x
    BY DEF SlicesInv
  <2>3. \A r \in Pid : waiters[r].arr \in DOMAIN heap
    BY DEF SlicesInv
  <2> QED BY <2>1, <2>2, <2>3
<1>3. /\ \A r \in Pid : \A x \in waitees[r] : x \in waitees'[r]
      /\ \A r \in Pid : \A x \in waitees'[r] : x \in waitees[r] \/ (r = p /\ x = q)
      /\ p \in live => q \in waitees'[p]
  <2>1. CASE p \in live
    <3>1. waitees' = [waitees EXCEPT ![p] = @ \cup {q}]
      BY <2>1
    <3> QED BY <3>1
  <2>2. CASE p \notin live
    BY <2>2
  <2> QED BY <2>1, <2>2
<1> HIDE DEF a, b, n
<1>4. Lists(waiters', heap', q, p)
  <2>1. n + 1 \in 1..(n + 1)
    BY <1>2
  <2> QED BY <1>1, <2>1 DEF Lists, b
<1>5. \A r \in Pid : r # q => heap'[waiters[r].arr] = heap[waiters[r].arr]
  BY <1>1, <1>2 DEF a
<1>6. ASSUME NEW w \in Pid, NEW r \in Pid, Lists(waiters, heap, r, w)
      PROVE  Lists(waiters', heap', r, w)
  <2>1. CASE r = q
    <3>1. PICK j \in 1..n : heap[a][j] = w
      BY <1>6, <2>1 DEF Lists, a, n
    <3>2. j \in 1..(n + 1) /\ heap'[b][j] = w
      BY <1>1, <1>2, <3>1
    <3> QED BY <1>1, <2>1, <3>2 DEF Lists, b
  <2>2. CASE r # q
    BY <1>1, <1>5, <1>6, <2>2 DEF Lists
  <2> QED BY <2>1, <2>2
<1>7. ASSUME NEW w \in Pid, NEW r \in Pid, Lists(waiters', heap', r, w)
      PROVE  Lists(waiters, heap, r, w) \/ (w = p /\ r = q)
  <2>1. CASE r = q
    <3>1. PICK j \in 1..(n + 1) : heap'[b][j] = w
      BY <1>1, <1>7, <2>1 DEF Lists, b
    <3>2. j \in 1..n \/ j = n + 1
      BY <1>2
    <3> QED BY <1>1, <2>1, <3>1, <3>2 DEF Lists, a, n
  <2>2. CASE r # q
    BY <1>1, <1>5, <1>7, <2>2 DEF Lists
  <2> QED BY <2>1, <2>2
<1>8. ASSUME NEW w \in Pid, NEW r \in Pid, Waits(s, owed, live, w, r),
             NEW i \in DOMAIN s, s[i].at = "finish", s[i].pid = r
      PROVE  /\ AheadOf(s[i], w, waiters', heap')
             /\ SettledAt(s, i, live, waiters', heap', waitees')
  <2>1. AheadOf(s[i], w, waiters, heap) /\ SettledAt(s, i, live, waiters, heap, waitees)
    BY <1>8 DEF Watch, Reaches
  <2>2. s[i].arr \in DOMAIN heap /\ \A x \in Pid : waiters[x].arr = s[i].arr => x = r
    BY <1>8 DEF RangedAll, Ranged
  <2>3. ASSUME NEW x, ~(x = p /\ r = q), x \in Pid, Stays(s, i, x, r, live, waitees)
        PROVE  Stays(s, i, x, r, live, waitees')
    BY <1>3, <2>3 DEF Stays
  <2>4. s[i].k \in Nat \ {0} /\ s[i].len \in Nat
    <3>1. s[i] \in Act
      OBVIOUS
    <3> QED BY <1>8, <3>1, ActFields
  <2>5. \A c \in Nat : 1 <= c /\ c <= waiters[r].len => heap[waiters[r].arr][c] \in Pid
    <3> SUFFICES ASSUME NEW c \in Nat, 1 <= c, c <= waiters[r].len
                 PROVE  heap[waiters[r].arr][c] \in Pid
      OBVIOUS
    <3>1. waiters[r].len \in Nat /\ waiters[r].len <= Len(heap[waiters[r].arr])
          /\ heap[waiters[r].arr] \in Seq(0..MaxPid)
      BY SliceFacts
    <3>2. c \in 1..waiters[r].len
      BY <3>1
    <3>3. heap[waiters[r].arr][c] \in 1..next
      BY <3>2 DEF SlicesInv
    <3>4. heap[waiters[r].arr][c] \in 0..MaxPid
      <4> DEFINE z == heap[waiters[r].arr]
      <4>1. z \in Seq(0..MaxPid) /\ c \in 1..Len(z)
        BY <3>1
      <4> HIDE DEF z
      <4>2. z[c] \in 0..MaxPid
        BY <4>1, ElementOfSeq
      <4> QED BY <4>2 DEF z
    <3> QED BY <3>3, <3>4 DEF Pid
  <2>6. CASE r # q
    <3>1. waiters'[r] = waiters[r] /\ heap'[s[i].arr] = heap[s[i].arr]
      BY <1>1, <1>2, <2>2, <2>6 DEF a
    <3>2. AheadOf(s[i], w, waiters', heap')
      BY <1>8, <2>1, <3>1 DEF AheadOf
    <3>3. ASSUME waiters[r].arr = s[i].arr, NEW c \in 1..(s[i].k - 1), c <= waiters[r].len
          PROVE  Stays(s, i, heap[s[i].arr][c], r, live, waitees')
      <4>1. Stays(s, i, heap[s[i].arr][c], r, live, waitees)
        BY <1>8, <2>1, <3>3 DEF SettledAt
      <4>2. heap[s[i].arr][c] \in Pid
        BY <2>4, <2>5, <3>3
      <4> QED BY <2>3, <2>6, <4>1, <4>2
    <3>4. SettledAt(s, i, live, waiters', heap', waitees')
      BY <1>8, <3>1, <3>3 DEF SettledAt
    <3> QED BY <3>2, <3>4
  <2>7. CASE r = q /\ s[i].arr # a
    <3>1. heap'[s[i].arr] = heap[s[i].arr] /\ b # s[i].arr
      BY <1>1, <2>2, <2>7
    <3>2. AheadOf(s[i], w, waiters', heap')
      BY <1>8, <2>1, <2>7, <3>1 DEF AheadOf, b
    <3>3. SettledAt(s, i, live, waiters', heap', waitees')
      BY <1>8, <2>7, <3>1 DEF SettledAt, b
    <3> QED BY <3>2, <3>3
  <2>8. CASE r = q /\ s[i].arr = a
    <3>1. PICK j \in s[i].k..s[i].len : heap[a][j] = w /\ j <= n
      BY <1>8, <2>1, <2>8 DEF AheadOf, a, n
    <3>2. j \in 1..n /\ s[i].k <= n /\ j <= n + 1
      BY <1>2, <2>4, <3>1
    <3>3. heap'[a][j] = w
      BY <1>1, <3>1, <3>2
    <3>4. AheadOf(s[i], w, waiters', heap')
      BY <1>1, <1>8, <2>8, <3>1, <3>2, <3>3 DEF AheadOf, b
    <3>5. ASSUME b = a, NEW c \in 1..(s[i].k - 1)
          PROVE  Stays(s, i, heap'[a][c], r, live, waitees')
      <4>1. c \in 1..n /\ c \in Nat /\ 1 <= c /\ c <= n
        BY <1>2, <2>4, <3>2
      <4>2. heap'[a][c] = heap[a][c] /\ heap[a][c] # p
        BY <1>1, <1>2, <4>1
      <4>3. Stays(s, i, heap[a][c], r, live, waitees)
        BY <1>8, <2>1, <2>8, <4>1 DEF SettledAt, a, n
      <4>4. heap[a][c] \in Pid
        BY <2>5, <2>8, <4>1 DEF a, n
      <4> QED BY <2>3, <4>2, <4>3, <4>4
    <3>6. SettledAt(s, i, live, waiters', heap', waitees')
      BY <1>8, <2>8, <3>5 DEF SettledAt, b
    <3> QED BY <3>4, <3>6
  <2> QED BY <2>6, <2>7, <2>8
<1>9. ASSUME NEW w \in Pid, NEW r \in Pid, Waits(s, owed, live, w, r)
      PROVE  /\ r \in live /\ Lists(waiters', heap', r, w) /\ r \in waitees'[w]
             /\ Reaches(s, w, r, live, waiters', heap', waitees')
  <2>1. r \in live /\ Lists(waiters, heap, r, w) /\ r \in waitees[w]
    BY <1>9 DEF Watch
  <2> QED BY <1>3, <1>6, <1>8, <1>9, <2>1 DEF Reaches
<1>10. ASSUME NEW w \in Pid, NEW r \in Pid, Lists(waiters', heap', r, w), w \in live, r \in live,
              ~Ends(s, r)
       PROVE  r \in waitees'[w]
  <2>1. CASE w = p /\ r = q
    BY <1>3, <1>10, <2>1
  <2>2. CASE ~(w = p /\ r = q)
    <3>1. r \in waitees[w]
      BY <1>7, <1>10, <2>2 DEF Watch
    <3> QED BY <1>3, <3>1
  <2> QED BY <2>1, <2>2
<1> QED BY <1>4, <1>9, <1>10 DEF Watch

-------------------------------------------------------------------------------
(* The steps.                                                              *)

\* A process begins to end, whatever the goroutine goes back to.
LEMMA FinishWatch ==
    ASSUME Sound, StackInv, SlicesInv, WatchInv, NEW q0 \in 1..next, NEW t \in Seq(Act),
           Finish(q0, t), Carries(stack, t, live, next), RangedAll(t, heap, waiters),
           q0 \in live \/ (stack # <<>> /\ stack[1].at # "finish" /\ MayEnd(stack[1], q0)),
           UNCHANGED <<next, live, asked, owed, waitees>>
    PROVE  WatchInv'
<1>1. /\ next \in Nat /\ next <= MaxPid /\ q0 \in Pid /\ live \subseteq 1..next
      /\ owed \subseteq asked /\ waitees \in [Pid -> SUBSET Pid]
  BY ProcQueueAssumption DEF Sound, BaseOK, Pid
<1>2. /\ asked \subseteq (1..next) \X (1..next)
      /\ Watch(stack, owed, live, waiters, heap, waitees)
      /\ Slices(heap, waiters, waitees, next) /\ stack \in Seq(Act)
  BY WatchIs, SlicesAre DEF StackInv
<1>3. Watch(t, owed, live, waiters, heap, waitees)
  BY <1>1, <1>2, WatchCarried
<1>4. Clear(t, owed, live, waiters, heap, waitees, q0)
  BY <1>1, <1>2, ClearIs
<1>5. Watch(stack', owed, live, waiters', heap', waitees)
  BY <1>1, <1>3, <1>4, WatchFinish
<1> QED BY <1>2, <1>5, WatchIs

\* The goroutine's stack changes, ending nobody and forgetting nobody being
\* ended; a process may be made.
LEMMA CarriedWatch ==
    ASSUME Sound, SlicesInv, WatchInv, UNCHANGED <<waiters, heap, waitees>>,
           asked' \subseteq asked, owed' \subseteq owed,
           \/ UNCHANGED <<next, live>>
           \/ next' = next + 1 /\ live' = live \cup {next + 1},
           Carries(stack, stack', live', next)
    PROVE  WatchInv'
<1>1. next \in Nat /\ next' \in Nat /\ next <= next' /\ owed \subseteq asked
  BY ProcQueueAssumption DEF Sound, BaseOK
<1>2. /\ asked \subseteq (1..next) \X (1..next)
      /\ Watch(stack, owed, live, waiters, heap, waitees)
      /\ Slices(heap, waiters, waitees, next)
  BY WatchIs, SlicesAre
<1>3. live' = live \/ live' = live \cup {next + 1}
  OBVIOUS
<1>4. Watch(stack', owed, live', waiters, heap, waitees)
  BY <1>1, <1>2, <1>3, WatchCarried
<1>5. Watch(stack', owed', live', waiters', heap', waitees')
  BY <1>4, WatchFewer
<1>6. asked' \subseteq (1..next') \X (1..next')
  BY <1>1, <1>2
<1> QED BY <1>5, <1>6, WatchIs

\* deliverEvent to a live process carries on the stack it is called from.
LEMMA DeliverCarries ==
    ASSUME NEW T, NEW t \in Seq(T), NEW q \in live, NEW e, Deliver(q, e, t), NEW nx
    PROVE  Carries(t, stack', live, nx)
<1>1. stack' = t \/ stack' = <<Run(q)>> \o t
  BY DEF Deliver
<1>2. Run(q).at # "finish" /\ \A x : MayEnd(Run(q), x) => x = q
  BY DEF Run, MayEnd
<1> QED BY <1>1, <1>2, CarriesPush, CarriesSelf

\* The running program.
LEMMA ProgramWatch ==
    ASSUME Sound, StackInv, SlicesInv, WatchInv, NEW p \in Pid, Program(p) PROVE WatchInv'
<1>0. Running(p)
  BY DEF Program, Fork, Queue, KillPID, WatchPID, SendEvent, TimerStart, TimerStop, WaitFor,
     Read, Pause, End
<1>1. /\ p \in 1..next /\ p <= next /\ stack # <<>> /\ next \in Nat
      /\ stack[1].at = "run" /\ stack[1].pid = p /\ Head(stack) = stack[1]
  <2>1. Head(stack).at = "run" /\ Head(stack).pid = p
    BY <1>0 DEF Running, Doing, Top
  <2>2. p \in 1..next /\ p <= next /\ stack # <<>> /\ next \in Nat
    BY <1>0, RunningFacts
  <2>3. Head(stack) = stack[1]
    BY <2>2 DEF StackInv
  <2> QED BY <2>1, <2>2, <2>3
<1>2. RangedAll(stack, heap, waiters) /\ stack \in Seq(Act) /\ live \subseteq 1..next
  BY SlicesAre DEF RangedAll, StackInv, Sound, BaseOK
<1>3. /\ RangedAll(Below, heap, waiters) /\ Below \in Seq(Act)
      /\ \A lv, nx : Carries(stack, Below, lv, nx)
  <2>1. Head(stack).at # "finish"
    BY <1>1
  <2> QED BY <1>1, <1>2, <2>1, RangedBelow, CarriesPop DEF Below
<1>4. ASSUME UNCHANGED <<heap, waiters, waitees, asked, owed>>,
             \/ UNCHANGED <<next, live>>
             \/ next' = next + 1 /\ live' = live \cup {next + 1},
             stack' = stack \/ stack' = Below
      PROVE  WatchInv'
  BY <1>3, <1>4, CarriedWatch, CarriesSelf
<1>5. CASE Fork(p) \/ Queue(p)
  BY <1>4, <1>5 DEF Fork, Queue, AddProcess, histVars
<1>6. ASSUME NEW q \in Pid, KillPID(p, q) PROVE WatchInv'
  <2>1. /\ q \in live /\ Finish(q, stack) /\ UNCHANGED <<next, live, asked, owed, waitees>>
    BY <1>6 DEF KillPID, histVars
  <2> QED BY <1>2, <2>1, FinishWatch, CarriesSelf
<1>7. ASSUME NEW q \in Pid, WatchPID(p, q) PROVE WatchInv'
  <2>1. q \in (1..next) \ {p} /\ UNCHANGED <<next, stack, live>>
    BY <1>7 DEF WatchPID
  <2>2. /\ asked \subseteq (1..next) \X (1..next) /\ waitees \in [Pid -> SUBSET Pid]
        /\ Watch(stack, owed, live, waiters, heap, waitees)
    BY WatchIs DEF Sound, BaseOK
  <2>3. CASE q \notin live
    <3>1. /\ UNCHANGED <<waiters, heap, waitees>> /\ asked' = asked \ {<<p, q>>}
          /\ owed' = owed \ {<<p, q>>}
      BY <1>7, <2>3 DEF WatchPID, Told
    <3>2. asked' \subseteq asked /\ owed' \subseteq owed
      BY <3>1
    <3> QED BY <2>1, <3>1, <3>2, CarriedWatch, CarriesSelf
  <2>4. CASE q \in live
    <3>1. /\ asked' = asked \cup {<<p, q>>}
          /\ owed' = IF BeingEnded(q) THEN owed ELSE owed \cup {<<p, q>>}
      BY <1>7, <2>4 DEF WatchPID
    <3>2. asked' \subseteq (1..next') \X (1..next')
      BY <1>1, <2>1, <2>2, <3>1
    <3>3. /\ Watch(stack, owed, live, waiters', heap', waitees')
          /\ Lists(waiters', heap', q, p)
      <4>1. CASE p \in Watching(waiters[q])
        <5>1. UNCHANGED <<waiters, heap, waitees>>
          BY <1>7, <2>4, <4>1 DEF WatchPID
        <5>2. Watching(waiters[q]) = {heap[waiters[q].arr][k] : k \in 1..waiters[q].len}
          BY SliceFacts
        <5> QED BY <2>2, <4>1, <5>1, <5>2 DEF Lists
      <4>2. CASE p \notin Watching(waiters[q])
        <5>1. /\ AppendWaiter(q, p) /\ p # q
              /\ waitees' = IF p \in live THEN [waitees EXCEPT ![p] = @ \cup {q}] ELSE waitees
          BY <1>7, <2>1, <2>4, <4>2 DEF WatchPID
        <5> QED BY <1>2, <2>2, <2>4, <4>2, <5>1, WatchAppend
      <4> QED BY <4>1, <4>2
    <3>4. CASE BeingEnded(q)
      BY <2>1, <3>1, <3>2, <3>3, <3>4, WatchIs
    <3>5. CASE ~BeingEnded(q)
      <4>1. ~Ends(stack, q)
        BY <3>5 DEF BeingEnded, Ends
      <4>2. Watch(stack, owed \cup {<<p, q>>}, live, waiters', heap', waitees')
        BY <2>4, <3>3, <4>1, WatchMore
      <4> QED BY <2>1, <3>1, <3>2, <3>5, <4>2, WatchIs
    <3> QED BY <3>4, <3>5
  <2> QED BY <2>3, <2>4
<1>8. ASSUME NEW q \in Pid, SendEvent(p, q) PROVE WatchInv'
  <2>1. UNCHANGED <<next, live, heap, waiters, waitees, asked, owed>>
    BY <1>8 DEF SendEvent, histVars
  <2>2. CASE q = p
    BY <1>4, <1>8, <2>1, <2>2 DEF SendEvent
  <2>3. CASE q # p
    <3>1. q \in live /\ Deliver(q, User, stack)
      BY <1>8, <2>3 DEF SendEvent
    <3>2. Carries(stack, stack', live', next)
      BY <1>2, <2>1, <3>1, DeliverCarries
    <3> QED BY <2>1, <3>2, CarriedWatch
  <2> QED BY <2>2, <2>3
<1>9. ASSUME NEW d \in Timer, TimerStart(p, d) \/ TimerStop(p, d) PROVE WatchInv'
  BY <1>4, <1>9 DEF TimerStart, TimerStop, histVars
<1>10. ASSUME NEW F \in Filters, WaitFor(p, F) PROVE WatchInv'
  BY <1>4, <1>10 DEF WaitFor, histVars
<1>11. CASE Read(p)
  BY <1>4, <1>11 DEF Read, histVars
<1>12. ASSUME NEW how \in {"sleeping", "runnable"}, Pause(p, how) PROVE WatchInv'
  BY <1>4, <1>12 DEF Pause, histVars
<1>13. CASE End(p)
  <2>1. Finish(p, Below) /\ UNCHANGED <<next, live, asked, owed, waitees>>
    BY <1>13 DEF End, histVars
  <2>2. stack # <<>> /\ stack[1].at # "finish" /\ MayEnd(stack[1], p)
    BY <1>1 DEF MayEnd
  <2> QED BY <1>1, <1>3, <2>1, <2>2, FinishWatch
<1> QED BY <1>5, <1>6, <1>7, <1>8, <1>9, <1>10, <1>11, <1>12, <1>13 DEF Program

\* The world's operations and their loops.
LEMMA WatchStep ==
    Sound /\ StackInv /\ SlicesInv /\ WatchInv /\ [Next]_vars => WatchInv'
<1> SUFFICES ASSUME Sound, StackInv, SlicesInv, WatchInv, [Next]_vars PROVE WatchInv'
  OBVIOUS
<1>a. /\ next \in Nat /\ next <= MaxPid /\ MaxPid \in Nat /\ stack \in Seq(Act)
      /\ RangedAll(stack, heap, waiters) /\ live \subseteq 1..next /\ live \subseteq Pid
      /\ owed \subseteq asked /\ waitees \in [Pid -> SUBSET Pid]
  BY SlicesAre, ProcQueueAssumption DEF RangedAll, StackInv, Sound, BaseOK, Pid
<1>b. stack # <<>> => /\ RangedAll(Below, heap, waiters) /\ Below \in Seq(Act)
                      /\ Head(stack) = stack[1] /\ 1 \in DOMAIN stack
                      /\ Top.at # "finish" => \A lv, nx : Carries(stack, Below, lv, nx)
  <2> SUFFICES ASSUME stack # <<>>
               PROVE  /\ RangedAll(Below, heap, waiters) /\ Below \in Seq(Act)
                      /\ Head(stack) = stack[1] /\ 1 \in DOMAIN stack
                      /\ Top.at # "finish" => \A lv, nx : Carries(stack, Below, lv, nx)
    OBVIOUS
  <2>1. Head(stack) = stack[1] /\ 1 \in DOMAIN stack
    BY <1>a
  <2>2. Head(stack).at # "finish" => \A lv, nx : Carries(stack, Tail(stack), lv, nx)
    BY <1>a, CarriesPop
  <2> QED BY <1>a, <2>1, <2>2, RangedBelow DEF Below, Top
<1>c. ASSUME UNCHANGED <<next, live, waiters, heap, waitees, asked, owed>>,
             Carries(stack, stack', live, next)
      PROVE  WatchInv'
  BY <1>c, CarriedWatch
<1>d. \* Tick and its loops: the goroutine is ending nobody.
      ASSUME UNCHANGED <<next, live, waiters, heap, waitees, asked, owed>>,
             \/ stack = <<>>
             \/ Doing("timers")
             \/ Doing("due"),
             NEW a, a.at # "finish",
             \/ stack' = <<>>
             \/ stack' = <<a>> \o <<>>
             \/ \E q : stack' = <<Run(q)>> \o (<<a>> \o <<>>)
             \/ \E q : stack' = <<Run(q)>> \o <<>>
      PROVE  WatchInv'
  <2>1. \A i \in DOMAIN stack : stack[i].at # "finish"
    <3>1. CASE stack = <<>>
      BY <3>1
    <3>2. ASSUME NEW v \in {"timers", "due"}, Doing(v) PROVE \A i \in DOMAIN stack : stack[i].at # "finish"
      <4>1. stack # <<>> /\ Top.at = v /\ Below = <<>>
        BY <3>2, LoopFacts
      <4>2. Len(stack) \in Nat /\ Len(Tail(stack)) = Len(stack) - 1 /\ DOMAIN stack = 1..Len(stack)
        BY <1>a, <4>1
      <4>3. DOMAIN stack = {1}
        BY <4>1, <4>2 DEF Below
      <4> QED BY <1>b, <4>1, <4>3 DEF Top
    <3> QED BY <1>d, <3>1, <3>2
  <2>2. /\ <<>> \in Seq({a}) /\ DOMAIN <<>> = {} /\ \A q : Run(q).at # "finish"
    BY DEF Run
  <2> DEFINE u == <<a>> \o <<>>
  <2>3. u \in Seq({a}) /\ \A i \in DOMAIN u : u[i] = a
    <3>1. u \in Seq({a} \cup {a})
      BY <2>2, PushIs
    <3>2. u \in Seq({a}) /\ {a} \cup {a} = {a}
      BY <3>1
    <3> HIDE DEF u
    <3> QED BY <3>2
  <2> HIDE DEF u
  <2>4. \A q : \A i \in DOMAIN (<<Run(q)>> \o u) : (<<Run(q)>> \o u)[i].at # "finish"
    <3> TAKE q
    <3>1. \A i \in DOMAIN (<<Run(q)>> \o u) :
              \/ (<<Run(q)>> \o u)[i] = Run(q)
              \/ i - 1 \in DOMAIN u /\ (<<Run(q)>> \o u)[i] = u[i - 1]
      BY <2>3, PushIs
    <3> QED BY <1>d, <2>2, <2>3, <3>1
  <2>5. \A q : \A i \in DOMAIN (<<Run(q)>> \o <<>>) : (<<Run(q)>> \o <<>>)[i].at # "finish"
    <3> TAKE q
    <3>1. \A i \in DOMAIN (<<Run(q)>> \o <<>>) :
              \/ (<<Run(q)>> \o <<>>)[i] = Run(q)
              \/ i - 1 \in DOMAIN <<>>
      BY <2>2, PushIs
    <3> QED BY <2>2, <3>1
  <2>6. \A i \in DOMAIN stack' : stack'[i].at # "finish"
    BY <1>d, <2>2, <2>3, <2>4, <2>5 DEF u
  <2> QED BY <1>c, <1>d, <2>1, <2>6, CarriesNone
<1>1. CASE UNCHANGED vars
  BY <1>c, <1>1, CarriesSelf DEF vars, procVars, histVars
<1>2. ASSUME NEW d \in Descr, RunProgram(d) PROVE WatchInv'
  <2>1. /\ UNCHANGED <<waiters, heap, waitees, asked, owed>> /\ next' = next + 1
        /\ live' = live \cup {next + 1} /\ stack' = <<Run(next + 1)>> \o stack
    BY <1>2 DEF RunProgram, AddProcess
  <2>2. Run(next + 1).at # "finish" /\ \A x : MayEnd(Run(next + 1), x) => x = next + 1
    BY DEF Run, MayEnd
  <2>3. \A x \in 1..next : MayEnd(Run(next + 1), x) => x \in live'
    BY <2>1, <2>2
  <2>4. Carries(stack, stack', live', next)
    BY <1>a, <2>1, <2>2, <2>3, CarriesPush
  <2> QED BY <2>1, <2>4, CarriedWatch
<1>3. ASSUME NEW d \in Descr, ReadInput(d) PROVE WatchInv'
  <2>1. /\ UNCHANGED <<next, live, waiters, heap, waitees, asked, owed>> /\ stack = <<>>
        /\ stack' = <<Run(ReaderFor(d))>> \o <<>>
    BY <1>3 DEF ReadInput, Resume, Begin, Rest
  <2>2. Run(0).at # "finish"
    BY DEF Run
  <2> QED BY <1>d, <2>1, <2>2
<1>4. ASSUME NEW S \in (SUBSET live) \ {{}}, KillSweep(S) PROVE WatchInv'
  <2> DEFINE a == Sweeping(PidOrder(S))
  <2>1. /\ UNCHANGED <<next, live, waiters, heap, waitees, asked, owed>>
        /\ stack' = <<a>> \o stack
    BY <1>4 DEF KillSweep, procVars
  <2>2. S \in SUBSET (1..next) /\ S \subseteq live
    BY <1>a
  <2>3. \A i \in DOMAIN PidOrder(S) : PidOrder(S)[i] \in S
    BY <1>a, <2>2, PidOrderLists
  <2>4. a.at = "sweep" /\ a.todo = PidOrder(S)
    BY DEF Sweeping
  <2> HIDE DEF a
  <2>5. \A x : MayEnd(a, x) => x \in live
    BY <2>2, <2>3, <2>4 DEF MayEnd
  <2>6. Carries(stack, stack', live, next)
    BY <1>a, <2>1, <2>4, <2>5, CarriesPush
  <2> QED BY <1>c, <2>1, <2>6
<1>5. CASE Tick
  <2> DEFINE a == Timing(PidOrder(live), 0, <<>>)
  <2>1. /\ UNCHANGED <<next, live, waiters, heap, waitees, asked, owed>> /\ stack = <<>>
        /\ stack' = <<a>> /\ <<a>> = <<a>> \o <<>>
    BY <1>5 DEF Tick, Begin, Rest, procVars
  <2>2. a.at # "finish"
    BY DEF Timing
  <2> HIDE DEF a
  <2> QED BY <1>d, <2>1, <2>2
<1>6. CASE SweepNext
  <2> DEFINE q == Head(Top.todo)
             a == Sweeping(Tail(Top.todo))
             t == <<a>> \o Below
  <2>1. /\ Doing("sweep") /\ Top.todo # <<>> /\ stack # <<>> /\ Finish(q, t)
        /\ UNCHANGED <<next, live, asked, owed, waitees>> /\ Top.at = "sweep"
    BY <1>6 DEF SweepNext, Doing, histVars
  <2>2. Top.todo \in Seq(Pid) /\ \A i \in DOMAIN Top.todo : Top.todo[i] <= next
    BY <2>1, LoopFacts, ActFields DEF SoundAct
  <2>3. /\ q \in Pid /\ q <= next /\ Tail(Top.todo) \in Seq(Pid) /\ q = Top.todo[1]
        /\ 1 \in DOMAIN Top.todo
        /\ \A i \in DOMAIN Tail(Top.todo) : /\ i + 1 \in DOMAIN Top.todo
                                            /\ Tail(Top.todo)[i] = Top.todo[i + 1]
    BY <2>1, <2>2
  <2>4. a \in Act /\ a.at = "sweep" /\ a.todo = Tail(Top.todo)
    BY <2>3 DEF Sweeping, Act
  <2> HIDE DEF a, q
  <2>5. q \in 1..next
    BY <1>a, <2>3 DEF Pid
  <2>6. t \in Seq(Act)
    BY <1>b, <2>1, <2>4
  <2>7. RangedAll(t, heap, waiters)
    <3>1. Ranged(a, heap, waiters)
      BY <2>4 DEF Ranged
    <3> QED BY <1>b, <2>1, <3>1, RangedPush
  <2>8. \A x : MayEnd(a, x) => MayEnd(Top, x)
    BY <2>1, <2>3, <2>4 DEF MayEnd
  <2>9. Carries(stack, t, live, next)
    <3>1. Head(stack).at # "finish" /\ a.at # "finish" /\ \A x : MayEnd(a, x) => MayEnd(Head(stack), x)
      BY <2>1, <2>4, <2>8 DEF Top
    <3>2. Carries(stack, <<a>> \o Tail(stack), live, next)
      BY <1>a, <2>1, <3>1, CarriesTop
    <3> QED BY <3>2 DEF Below
  <2>10. stack # <<>> /\ stack[1].at # "finish" /\ MayEnd(stack[1], q)
    BY <1>b, <2>1, <2>3 DEF MayEnd, Top
  <2> HIDE DEF t
  <2> QED BY <2>1, <2>5, <2>6, <2>7, <2>9, <2>10, FinishWatch
<1>7. CASE SweepEnds
  <2>1. /\ UNCHANGED <<next, live, waiters, heap, waitees, asked, owed>> /\ stack' = Below
        /\ stack # <<>> /\ Top.at # "finish"
    BY <1>7 DEF SweepEnds, Doing, procVars, histVars
  <2> QED BY <1>b, <1>c, <2>1
<1>8. CASE TimersOf
  <2>1. /\ Doing("timers") /\ UNCHANGED <<next, live, waiters, heap, waitees, asked, owed>>
        /\ \E s, d, f : stack' = <<Timing(s, d, f)>> \o Below
    BY <1>8 DEF TimersOf, histVars
  <2>2. PICK s, d, f : stack' = <<Timing(s, d, f)>> \o Below
    BY <2>1
  <2>3. Below = <<>> /\ Timing(s, d, f).at # "finish"
    BY <2>1, LoopFacts DEF Timing
  <2> QED BY <1>d, <2>1, <2>2, <2>3
<1>9. CASE FireTimer
  <2> DEFINE a == Timing(Top.todo, Top.pid, Tail(Top.due))
  <2>1. /\ Doing("timers") /\ UNCHANGED <<next, live, waiters, heap, waitees, asked, owed>>
        /\ \E q, e : Deliver(q, e, <<a>> \o Below)
    BY <1>9 DEF FireTimer, histVars
  <2>2. stack' = <<a>> \o Below \/ \E q : stack' = <<Run(q)>> \o (<<a>> \o Below)
    BY <2>1 DEF Deliver
  <2>3. Below = <<>> /\ a.at # "finish"
    BY <2>1, LoopFacts DEF Timing
  <2> HIDE DEF a
  <2> QED BY <1>d, <2>1, <2>2, <2>3
<1>10. CASE ListDue
  <2>1. /\ Doing("timers") /\ UNCHANGED <<next, live, waiters, heap, waitees, asked, owed>>
        /\ \E s : stack' = <<Resuming(s)>> \o Below
    BY <1>10 DEF ListDue, procVars, histVars
  <2>2. PICK s : stack' = <<Resuming(s)>> \o Below
    BY <2>1
  <2>3. Below = <<>> /\ Resuming(s).at # "finish"
    BY <2>1, LoopFacts DEF Resuming
  <2> QED BY <1>d, <2>1, <2>2, <2>3
<1>11. CASE ResumeDue
  <2> DEFINE a == Resuming(Tail(Top.todo))
  <2>1. /\ Doing("due") /\ UNCHANGED <<next, live, waiters, heap, waitees, asked, owed>>
        /\ \E q : stack' = <<Run(q)>> \o (<<a>> \o Below)
    BY <1>11 DEF ResumeDue, Resume, histVars
  <2>2. Below = <<>> /\ a.at # "finish"
    BY <2>1, LoopFacts DEF Resuming
  <2> HIDE DEF a
  <2> QED BY <1>d, <2>1, <2>2
<1>12. CASE TickEnds
  <2>1. /\ Doing("due") /\ UNCHANGED <<next, live, waiters, heap, waitees, asked, owed>>
        /\ stack' = Below
    BY <1>12 DEF TickEnds, procVars, histVars
  <2>2. stack' = <<>> /\ Run(0).at # "finish"
    BY <2>1, LoopFacts DEF Run
  <2> QED BY <1>d, <2>1, <2>2
<1>13. CASE NotifyWaiter
  <2> DEFINE w == heap[Top.arr][Top.k]
             b == [Top EXCEPT !.k = @ + 1]
             t == <<b>> \o Below
  <2>1. /\ Doing("finish") /\ Top.k <= Top.len
        /\ UNCHANGED <<next, live, waiters, heap>>
    BY <1>13 DEF NotifyWaiter
  <2>2. Top \in Act /\ Top.at = "finish" /\ stack # <<>>
    BY <2>1, LoopFacts
  <2>3. Top.pid \in Pid /\ Top.k \in Nat \ {0} /\ Top.arr \in Nat /\ Top.len \in Nat
    BY <2>2, ActFields
  <2>4. /\ b \in Act /\ b.at = "finish" /\ b.pid = Top.pid /\ b.k = Top.k + 1
        /\ b.len = Top.len /\ b.arr = Top.arr
    BY <2>2 DEF Act
  <2>5. \/ /\ w \notin live /\ stack' = t /\ UNCHANGED <<waitees, asked, owed>>
        \/ /\ w \in live /\ Deliver(w, Exit(Top.pid), t)
           /\ waitees' = [waitees EXCEPT ![w] = @ \ {Top.pid}]
           /\ asked' = asked \ {<<w, Top.pid>>} /\ owed' = owed \ {<<w, Top.pid>>}
    BY <1>13 DEF NotifyWaiter, Told
  <2> HIDE DEF b, w
  <2>6. w = heap[Top.arr][Top.k]
    BY DEF w
  <2>7. /\ Watch(stack, owed, live, waiters, heap, waitees)
        /\ Slices(heap, waiters, waitees, next) /\ asked \subseteq (1..next) \X (1..next)
    BY WatchIs, SlicesAre
  <2>8. live \in SUBSET Pid
    BY <1>a
  <2>9. \/ w \notin live /\ owed' = owed /\ waitees' = waitees
        \/ /\ w \in live /\ owed' = owed \ {<<w, b.pid>>}
           /\ waitees' = [waitees EXCEPT ![w] = @ \ {b.pid}]
    BY <2>4, <2>5
  <2>10. Watch(t, owed', live, waiters, heap, waitees')
    <3>1. LoopTurns(Top, b, w, heap)
      BY <2>1, <2>2, <2>3, <2>4, <2>6 DEF LoopTurns
    <3>2. Turned(stack, t, Top, b)
      BY <1>a, <2>2, TurnedTop, Zenon DEF Top, Below
    <3>3. HasTold(owed, owed', waitees, waitees', w, Top.pid, live)
      <4>1. waitees \in [Pid -> SUBSET Pid]
        BY <1>a
      <4> QED BY <2>4, <2>8, <2>9, <4>1, ToldIs
    <3>4. Listed(waiters, heap) /\ \A p \in Pid : waiters[p].len \in Nat
      <4>1. Listed(waiters, heap)
        BY <1>a, <2>7, SlicesList, Zenon
      <4>2. \A p \in Pid : waiters[p].len \in Nat
        BY <2>7 DEF Slices
      <4> QED BY <4>1, <4>2
    <3> HIDE DEF t
    <3> QED BY <2>7, <3>1, <3>2, <3>3, <3>4, WatchTurn
  <2>11. t \in Seq(Act)
    BY <1>b, <2>2, <2>4
  <2> HIDE DEF t
  <2>12. Carries(t, stack', live, next)
    BY <2>5, <2>11, DeliverCarries, CarriesSelf
  <2>13. Slices(heap, waiters, waitees', next)
    BY <2>1, SlicesStep, SlicesAre
  <2>14. owed' \subseteq owed /\ asked' \subseteq asked
    BY <2>5
  <2>15. owed' \subseteq (1..next) \X (1..next)
    BY <1>a, <2>7, <2>14
  <2>16. Watch(stack', owed', live, waiters, heap, waitees')
    BY <1>a, <2>10, <2>12, <2>13, <2>15, WatchCarried
  <2>17. asked' \subseteq (1..next') \X (1..next')
    BY <2>1, <2>7, <2>14
  <2> QED BY <2>1, <2>16, <2>17, WatchIs
<1>14. CASE Remove
  <2>1. /\ Doing("finish") /\ Top.k > Top.len /\ live' = live \ {Top.pid} /\ stack' = Below
        /\ UNCHANGED <<next, waiters, heap, waitees, asked, owed>>
    BY <1>14 DEF Remove, procVars, histVars
  <2>2. Top \in Act /\ Top.at = "finish" /\ stack # <<>>
    BY <2>1, LoopFacts
  <2>3. Top.k \in Nat /\ Top.len \in Nat
    BY <2>2, ActFields
  <2>4. Watch(stack, owed, live, waiters, heap, waitees) /\ asked \subseteq (1..next) \X (1..next)
    BY WatchIs
  <2>5. Watch(Tail(stack), owed, live \ {Head(stack).pid}, waiters, heap, waitees)
    BY <1>a, <2>1, <2>2, <2>3, <2>4, WatchRemove DEF Top
  <2>6. Watch(stack', owed', live', waiters', heap', waitees')
    BY <2>1, <2>5 DEF Below, Top
  <2> QED BY <2>1, <2>4, <2>6, WatchIs
<1>15. ASSUME NEW p \in Pid, Program(p) PROVE WatchInv'
  BY <1>15, ProgramWatch
<1> QED BY <1>1, <1>2, <1>3, <1>4, <1>5, <1>6, <1>7, <1>8, <1>9, <1>10, <1>11, <1>12, <1>13,
        <1>14, <1>15 DEF Next, Loop

-------------------------------------------------------------------------------
(* The theorems.                                                           *)

\* What every step keeps, however deep processes end inside one another:
\* whoever is owed an event is in front of every loop that is ending the one it
\* watches, though those told before it may end, watch or be shifted out.
THEOREM WatchersInvariant == Spec => [](QueueSafe /\ WatchInv)
<1>1. Init => WatchInv
  BY DEF Init, WatchInv, Pends
<1>2. (QueueSafe /\ WatchInv) /\ [Next]_vars => (QueueSafe /\ WatchInv)'
  BY SoundStep, StackStep, SlicesStep, WatchStep DEF QueueSafe
<1> QED BY <1>1, <1>2, QueueSafeInit, PTL DEF Spec

\* finishProcess tells every watcher: one that asked before a process began to
\* end, and lives, has been told by the time that process has left the queue,
\* whatever the other watchers did when they were told.
THEOREM EveryWatcherIsTold == Spec => []WatchersAreTold
<1>1. QueueSafe /\ WatchInv => WatchersAreTold
  <2> SUFFICES ASSUME QueueSafe, WatchInv, Rest, NEW pair \in owed, pair[1] \in live
               PROVE  pair[2] \in live
    BY DEF WatchersAreTold
  <2>1. PICK w \in Pid, p \in Pid : pair = <<w, p>>
    BY DEF QueueSafe, Sound, BaseOK
  <2>2. ~BeingEnded(w)
    BY DEF Rest, BeingEnded
  <2>3. Pends(w, p)
    BY <2>1, <2>2 DEF Pends
  <2> QED BY <2>1, <2>3 DEF WatchInv
<1> QED BY <1>1, WatchersInvariant, PTL
===============================================================================
