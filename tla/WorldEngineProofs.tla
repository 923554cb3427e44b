--------------------------- MODULE WorldEngineProofs ---------------------------
(***************************************************************************)
(* Theorems about WorldEngine, for any callers, items, values and bounds.  *)
(***************************************************************************)
EXTENDS WorldEngine, SequenceTheorems, TLAPS

USE WorldEngineAssumption
    DEF vars, worldVars, diskVars, engVars, callVars, histVars, countVars

-------------------------------------------------------------------------------
(* What the pieces of the actions leave behind.                            *)

\* Trimming a list of gripes leaves a list of gripes.
LEMMA NewestType ==
    ASSUME NEW s \in Seq(Nat), NEW n \in Nat \ {0}
    PROVE  Newest(n, s) \in Seq(Nat)
  BY DEF Newest

\* What is in a queue of numbers is a number.
LEMMA ElementsType ==
    ASSUME NEW s \in Seq(Nat)
    PROVE  Elements(s) \in SUBSET Nat
  BY DEF Elements

\* A snapshot and its fields.
LEMMA SnapshotType ==
    /\ \A I \in SUBSET Item, f \in [Item -> Value], g \in Seq(Nat) :
          [item |-> I, val |-> f, gripe |-> g] \in Snapshots
    /\ \A s \in Snapshots : /\ s.item \in SUBSET Item
                            /\ s.val \in [Item -> Value]
                            /\ s.gripe \in Seq(Nat)
  BY DEF Snapshots

\* Writing to the world in memory.
LEMMA WriteType ==
    ASSUME NEW I \in SUBSET Item, NEW f \in [I -> Value],
           mem \in [Item -> Value], dirty \in SUBSET Item, Write(I, f)
    PROVE  mem' \in [Item -> Value] /\ dirty' \in SUBSET Item
  BY DEF Write

\* Code on the world goroutine leaves a world.
LEMMA MutateType ==
    ASSUME WorldType, Mutate
    PROVE  WorldType'
<1>1. mem' \in [Item -> Value] /\ dirty' \in SUBSET Item
  BY WriteType DEF WorldType, Mutate
<1>2. shown' \in Seq(Nat) /\ newGripes' \in Seq(Nat) /\ gripeNo' \in Nat
  <2>1. CASE AddGripe
    <3>1. Append(shown, gripeNo + 1) \in Seq(Nat)
      BY DEF WorldType
    <3>2. Newest(GripeLimit, Append(shown, gripeNo + 1)) \in Seq(Nat)
      BY <3>1, NewestType
    <3>3. Append(newGripes, gripeNo + 1) \in Seq(Nat)
      BY DEF WorldType
    <3> QED BY <2>1, <3>2, <3>3 DEF WorldType, AddGripe
  <2>2. CASE UNCHANGED <<gripeNo, shown, newGripes>>
    BY <2>2 DEF WorldType
  <2> QED BY <2>1, <2>2 DEF Mutate
<1> QED BY <1>1, <1>2 DEF WorldType

\* Taking the head operation off the queue and running it.
LEMMA ApplyHeadType ==
    ASSUME QueueType, ApplyHead, UNCHANGED flushNow
    PROVE  QueueType'
<1>1. Head(ops) \in Nat /\ Tail(ops) \in Seq(Nat)
  BY DEF QueueType, ApplyHead
<1> QED BY <1>1 DEF QueueType, ApplyHead

\* A stamped #0 holds a value, and there is a value to hold.
LEMMA StampedType ==
    ASSUME WorldType
    PROVE  Stamped \in SUBSET Value
  BY DEF Stamped, WorldType

\* A committed or rolled-back transaction leaves a store.
LEMMA CommitType ==
    ASSUME StoreType, EngineType, Commit \/ RolledBack
    PROVE  StoreType'
<1>1. snap.item \in SUBSET Item /\ snap.val \in [Item -> Value]
      /\ snap.gripe \in Seq(Nat)
  BY SnapshotType DEF EngineType
<1>2. CASE Commit
  <2>1. diskItem' \in [Item -> Value]
    BY <1>1, <1>2 DEF Commit, StoreType
  <2>2. diskGripe' \in Seq(Nat)
    BY <1>1, <1>2 DEF Commit, StoreType
  <2>3. owed' \in [Caller -> SUBSET Item]
    BY <1>2 DEF Commit, StoreType
  <2> QED BY <2>1, <2>2, <2>3 DEF StoreType
<1>3. CASE RolledBack
  BY <1>3 DEF RolledBack, StoreType
<1> QED BY <1>2, <1>3

\* A caller that returns is an idle caller with an answer.
LEMMA ReturnType ==
    ASSUME NEW c \in Caller, NEW what \in Returned, CallerType,
           Return(c, what), UNCHANGED <<call, mine>>
    PROVE  CallerType'
<1>1. pc' \in [Caller -> CallerAt] /\ ret' \in [Caller -> Returned]
  BY DEF Return, CallerType, CallerAt
<1> QED BY <1>1 DEF CallerType

\* The end of a flush.
LEMMA FinishType ==
    ASSUME NEW result \in {"nil", "err"}, EngineType, CallerType, Finish(result)
    PROVE  EngineType' /\ CallerType'
<1>1. [item |-> {}, val |-> snap.val, gripe |-> <<>>] \in Snapshots
  <2>1. snap.val \in [Item -> Value] /\ {} \in SUBSET Item /\ <<>> \in Seq(Nat)
    BY SnapshotType DEF EngineType
  <2> QED BY <2>1, SnapshotType
<1>2. EngineType'
  BY <1>1 DEF EngineType, Finish, EngineAt
<1>3. CallerType'
  <2>1. CASE asker \in Caller
    BY <2>1, ReturnType DEF Finish, Returned
  <2>2. CASE asker \notin Caller
    BY <2>2 DEF Finish, CallerType
  <2> QED BY <2>1, <2>2
<1> QED BY <1>2, <1>3

-------------------------------------------------------------------------------
(* Type correctness.                                                       *)

\* A queue in which one name is struck out for another keeps its length and
\* its type (what a caller that gives up does to the flushes queued for it).
LEMMA Forgotten ==
  ASSUME NEW S, NEW s \in Seq(S), NEW x, NEW d \in S
  PROVE  LET t == [k \in DOMAIN s |-> IF s[k] = x THEN d ELSE s[k]]
         IN  t \in Seq(S) /\ Len(t) = Len(s)
<1> DEFINE t == [k \in DOMAIN s |-> IF s[k] = x THEN d ELSE s[k]]
<1>1. DOMAIN s = 1..Len(s) /\ Len(s) \in Nat
  OBVIOUS
<1>2. \A k \in 1..Len(s) : s[k] \in S
  OBVIOUS
<1>3. t \in [1..Len(s) -> S]
  BY <1>1, <1>2, Zenon
<1> HIDE DEF t
<1>4. t \in Seq(S) /\ Len(t) = Len(s)
  BY <1>1, <1>3
<1> QED BY <1>4 DEF t

\* Every variable holds what the code's types say it can.
THEOREM TypeCorrect == Spec => []TypeOK
<1>1. Init => TypeOK
  <2> SUFFICES ASSUME Init PROVE TypeOK
    OBVIOUS
  <2>1. mem \in [Item -> Value]
    BY DEF Init
  <2>2. snap \in Snapshots
    <3>1. {} \in SUBSET Item /\ <<>> \in Seq(Nat)
      OBVIOUS
    <3> QED BY <2>1, <3>1, SnapshotType DEF Init
  <2>3. WorldType /\ StoreType
    BY <2>1 DEF Init, WorldType, StoreType
  <2>4. EngineType
    BY <2>2 DEF Init, EngineType, EngineAt
  <2>5. QueueType
    BY DEF Init, QueueType
  <2>6. CountType
    BY DEF Init, CountType
  <2>7. CallerType
    BY DEF Init, CallerType, CallerAt, Returned, Called
  <2> QED BY <2>3, <2>4, <2>5, <2>6, <2>7 DEF TypeOK
<1>2. TypeOK /\ [Next]_vars => TypeOK'
  <2> SUFFICES ASSUME TypeOK, [Next]_vars PROVE TypeOK'
    OBVIOUS
  <2>0. /\ WorldType /\ StoreType /\ EngineType
        /\ QueueType /\ CallerType /\ CountType
    BY DEF TypeOK
  <2>1. CASE UNCHANGED vars
    BY <2>0, <2>1 DEF TypeOK, WorldType, StoreType, EngineType, QueueType,
                      CallerType, CountType
  <2>2. ASSUME NEW c \in Caller, CallerStep(c) PROVE TypeOK'
    <3> USE <2>0 DEF TypeOK, WorldType, StoreType, EngineType, QueueType,
                     CallerType, CountType, CallerAt, Returned, Called
    <3>1. ASSUME Enqueue PROVE opNo' \in Nat /\ ops' \in Seq(Nat)
                               /\ late' \in SUBSET Nat
      BY <3>1 DEF Enqueue
    <3>2. CASE GoCall(c)
      BY <3>2 DEF GoCall, Submit, Return
    <3>3. CASE GoSend(c)
      BY <3>1, <3>3 DEF GoSend, Enqueue, Return
    <3>4. CASE DoCall(c)
      BY <3>4 DEF DoCall, Submit, Return
    <3>5. CASE DoSend(c)
      <4>1. mine' \in [Caller -> Nat] /\ pc' \in [Caller -> CallerAt]
        BY <3>5 DEF DoSend
      <4> QED BY <3>1, <3>5, <4>1 DEF DoSend, Enqueue
    <3>6. CASE DoDone(c)
      BY <3>6 DEF DoDone, Return
    <3>7. CASE FlushCall(c)
      <4>1. snap.item \in SUBSET Item
        BY SnapshotType
      <4> QED BY <3>7, <4>1 DEF FlushCall
    <3>8. CASE FlushSend(c)
      BY <3>8 DEF FlushSend
    <3>9. CASE Refused(c)
      BY <3>9 DEF Refused, Return
    <3>10. CASE GiveUp(c)
      <4>1. flushNow \in Seq(Caller \cup {Nobody})
        OBVIOUS
      <4>2. flushNow' = [k \in DOMAIN flushNow |->
                           IF flushNow[k] = c THEN Nobody ELSE flushNow[k]]
        BY <3>10 DEF GiveUp
      <4>3. Nobody \in Caller \cup {Nobody}
        OBVIOUS
      <4>4. flushNow' \in Seq(Caller \cup {Nobody}) /\ Len(flushNow') = Len(flushNow)
        BY ONLY <4>1, <4>2, <4>3, Forgotten
      <4> QED BY <3>10, <4>4 DEF GiveUp, Return
    <3> QED BY <2>2, <3>2, <3>3, <3>4, <3>5, <3>6, <3>7, <3>8, <3>9, <3>10
            DEF CallerStep
  <2>3. CASE SignalStop
    BY <2>0, <2>3 DEF SignalStop, TypeOK, WorldType, StoreType, EngineType,
                      QueueType, CallerType, CountType
  <2>4. CASE EngineStep
    <3>1. CASE Start
      <4>1. WorldType'
        BY <2>0, <3>1, WriteType DEF Start, WorldType
      <4> QED BY <2>0, <3>1, <4>1
              DEF Start, TypeOK, StoreType, EngineType, QueueType, CallerType,
                  CountType, EngineAt
    <3>2. CASE Apply
      <4>1. WorldType' /\ QueueType'
        BY <2>0, <3>2, MutateType, ApplyHeadType DEF Apply
      <4> QED BY <2>0, <3>2, <4>1
              DEF Apply, TypeOK, StoreType, EngineType, CallerType, CountType
    <3>3. CASE Tick
      <4>1. WorldType'
        BY <2>0, <3>3, MutateType DEF Tick
      <4> QED BY <2>0, <3>3, <4>1
              DEF Tick, TypeOK, StoreType, EngineType, QueueType, CallerType,
                  CountType, EngineAt
    <3>4. CASE TakeFlush
      <4>1. Head(flushNow) \in Caller \cup {Nobody}
            /\ Tail(flushNow) \in Seq(Caller \cup {Nobody})
            /\ Len(Tail(flushNow)) <= 1
        BY <2>0, <3>4 DEF TakeFlush, QueueType
      <4> QED BY <2>0, <3>4, <4>1
              DEF TakeFlush, TypeOK, WorldType, StoreType, EngineType,
                  QueueType, CallerType, CountType, EngineAt
    <3>5. CASE NothingToFlush
      <4>1. EngineType' /\ CallerType'
        BY <2>0, <3>5, FinishType DEF NothingToFlush
      <4> QED BY <2>0, <3>5, <4>1
              DEF NothingToFlush, TypeOK, WorldType, StoreType, QueueType,
                  CountType
    <3>6. CASE Snapshot
      <4>1. mem' \in [Item -> Value]
        BY <2>0, <3>6, StampedType DEF Snapshot, WorldType
      <4>2. dirty \cup {Root} \in SUBSET Item
        BY <2>0 DEF WorldType
      <4>3. snap' \in Snapshots
        <5>1. newGripes \in Seq(Nat)
          BY <2>0 DEF WorldType
        <5>2. snap' = [item |-> dirty \cup {Root}, val |-> mem',
                       gripe |-> newGripes]
          BY <3>6 DEF Snapshot
        <5> QED BY <4>1, <4>2, <5>1, <5>2, SnapshotType
      <4> QED BY <2>0, <3>6, <4>1, <4>3
              DEF Snapshot, TypeOK, WorldType, StoreType, EngineType,
                  QueueType, CallerType, CountType, EngineAt
    <3>7. CASE WriteOk
      <4>1. StoreType' /\ EngineType' /\ CallerType'
        BY <2>0, <3>7, CommitType, FinishType DEF WriteOk
      <4> QED BY <2>0, <3>7, <4>1
              DEF WriteOk, TypeOK, WorldType, QueueType, CountType
    <3>8. CASE WriteFails
      <4>1. StoreType' /\ EngineType' /\ CallerType'
        BY <2>0, <3>8, CommitType, FinishType DEF WriteFails
      <4>2. snap.item \in SUBSET Item /\ Elements(snap.gripe) \in SUBSET Nat
        BY <2>0, SnapshotType, ElementsType DEF EngineType
      <4>3. CountType'
        <5>1. dropped' \in SUBSET Nat
          BY <2>0, <3>8, <4>2 DEF WriteFails, CountType
        <5>2. failures' \in Nat
          BY <2>0, <3>8 DEF WriteFails, CountType
        <5> QED BY <2>0, <3>8, <5>1, <5>2 DEF WriteFails, CountType
      <4> QED BY <2>0, <3>8, <4>1, <4>2, <4>3
              DEF WriteFails, Requeue, TypeOK, WorldType, QueueType
    <3>9. CASE BeginShutdown
      BY <2>0, <3>9
         DEF BeginShutdown, TypeOK, WorldType, StoreType, EngineType,
             QueueType, CallerType, CountType, EngineAt
    <3>10. CASE Drain
      <4>1. WorldType' /\ QueueType'
        BY <2>0, <3>10, MutateType, ApplyHeadType DEF Drain
      <4> QED BY <2>0, <3>10, <4>1
              DEF Drain, TypeOK, StoreType, EngineType, CallerType, CountType
    <3>11. CASE Drained
      <4>1. WorldType'
        <5>1. PICK v \in Stamped : Write({Root}, [i \in {Root} |-> v])
          BY <3>11 DEF Drained
        <5>2. {Root} \in SUBSET Item /\ [i \in {Root} |-> v] \in [{Root} -> Value]
          BY <2>0, <5>1, StampedType
        <5>3. mem' \in [Item -> Value] /\ dirty' \in SUBSET Item
          BY <2>0, <5>1, <5>2, WriteType DEF WorldType
        <5> QED BY <2>0, <3>11, <5>3 DEF Drained, WorldType
      <4> QED BY <2>0, <3>11, <4>1
              DEF Drained, TypeOK, StoreType, EngineType, QueueType,
                  CallerType, CountType, EngineAt
    <3> QED BY <2>4, <3>1, <3>2, <3>3, <3>4, <3>5, <3>6, <3>7, <3>8, <3>9,
               <3>10, <3>11 DEF EngineStep
  <2>5. CASE Crash
    <3>1. StoreType'
      BY <2>0, <2>5, CommitType DEF Crash
    <3>2. [item |-> {}, val |-> snap.val, gripe |-> <<>>] \in Snapshots
      <4>1. snap.val \in [Item -> Value] /\ {} \in SUBSET Item
            /\ <<>> \in Seq(Nat)
        BY <2>0, SnapshotType DEF EngineType
      <4> QED BY <4>1, SnapshotType
    <3> QED BY <2>0, <2>5, <3>1, <3>2
            DEF Crash, TypeOK, WorldType, EngineType, QueueType, CallerType,
                CountType, EngineAt
  <2>6. CASE Load
    <3>1. snap' \in Snapshots
      <4>1. diskItem \in [Item -> Value] /\ {} \in SUBSET Item
            /\ <<>> \in Seq(Nat)
        BY <2>0 DEF StoreType
      <4> QED BY <2>6, <4>1, SnapshotType DEF Load
    <3>2. shown' \in Seq(Nat)
      BY <2>0, <2>6, NewestType DEF Load, StoreType
    <3>3. WorldType' /\ StoreType'
      BY <2>0, <2>6, <3>2 DEF Load, WorldType, StoreType
    <3>4. EngineType'
      BY <2>6, <3>1 DEF Load, EngineType, EngineAt
    <3>5. QueueType'
      BY <2>6 DEF Load, QueueType
    <3>6. CallerType'
      BY <2>6 DEF Load, CallerType, CallerAt, Returned, Called
    <3>7. CountType'
      <4>1. /\ boots' = boots + 1 /\ failures' = failures /\ opNo' = 0
            /\ late' = {} /\ dropped' = {} /\ cancelled' = FALSE
        BY <2>6 DEF Load
      <4>2. boots \in Nat /\ failures \in Nat
        BY <2>0 DEF CountType
      <4>3. opNo' \in Nat /\ failures' \in Nat /\ boots' \in Nat
        BY <4>1, <4>2
      <4>4. late' \in SUBSET Nat /\ dropped' \in SUBSET Nat
        BY <4>1
      <4>5. cancelled' \in BOOLEAN
        BY <4>1
      <4> QED BY <4>3, <4>4, <4>5 DEF CountType
    <3> QED BY <3>3, <3>4, <3>5, <3>6, <3>7 DEF TypeOK
  <2> QED BY <2>1, <2>2, <2>3, <2>4, <2>5, <2>6 DEF Next
<1> QED BY <1>1, <1>2, PTL DEF Spec

-------------------------------------------------------------------------------
(* Safety.                                                                 *)

\* The world and the store disagree only where something is marked: this is
\* kept by code that writes through Touch and Modified.
LEMMA WritePending ==
    ASSUME TypeOK, EngineInv, eng # "writing", Alive,
           NEW I \in SUBSET Item, NEW f \in [I -> Value], Write(I, f),
           UNCHANGED <<diskItem, snap, owed, pc, call, ret, asker, flushNow>>,
           eng' # "writing"
    PROVE  EngineInv'
<1>1. WriteBehindComplete'
  BY DEF TypeOK, WorldType, EngineInv, WriteBehindComplete, Write, Alive
<1>2. SnapshotIsWorld'
  BY DEF EngineInv, SnapshotIsWorld
<1>3. OwedIsPending'
  BY DEF EngineInv, OwedIsPending, Write, Alive
<1>4. FlushNilMeansDurable' /\ CallMatches' /\ OneAnswerDue'
  BY DEF EngineInv, FlushNilMeansDurable, CallMatches, OneAnswerDue
<1> QED BY <1>1, <1>2, <1>3, <1>4 DEF EngineInv

\* Code on the world goroutine is code that writes so.
LEMMA MutatePending ==
    ASSUME TypeOK, EngineInv, eng # "writing", Alive, Mutate,
           UNCHANGED <<diskItem, snap, owed, pc, call, ret, asker, flushNow>>,
           eng' # "writing"
    PROVE  EngineInv'
<1>1. PICK I \in SUBSET Item : \E f \in [I -> Value] : Write(I, f)
  BY DEF Mutate
<1>2. PICK f \in [I -> Value] : Write(I, f)
  BY <1>1
<1> QED BY <1>2, WritePending

\* Callers change nothing the world or the store holds.
LEMMA CallerPending ==
    ASSUME TypeOK, EngineInv, NEW c \in Caller, CallerStep(c)
    PROVE  EngineInv'
<1> USE DEF EngineInv
<1>0. UNCHANGED <<worldVars, diskVars, eng, snap>>
  BY DEF CallerStep, GoCall, GoSend, DoCall, DoSend, DoDone, FlushCall,
         FlushSend, Refused, GiveUp, Submit, Enqueue
<1>1. WriteBehindComplete' /\ SnapshotIsWorld'
  BY <1>0 DEF WriteBehindComplete, SnapshotIsWorld
<1>2. /\ pc \in [Caller -> CallerAt] /\ call \in [Caller -> Called]
      /\ ret \in [Caller -> Returned] /\ owed \in [Caller -> SUBSET Item]
      /\ flushNow \in Seq(Caller \cup {Nobody}) /\ Len(flushNow) <= 1
  BY DEF TypeOK, CallerType, StoreType, QueueType
<1> USE DEF FlushNilMeansDurable, CallMatches, OneAnswerDue, OwedIsPending, Alive
<1>3. CASE GoCall(c) \/ DoCall(c)
  BY <1>0, <1>1, <1>2, <1>3 DEF GoCall, DoCall, Submit, Return
<1>4. CASE GoSend(c)
  BY <1>0, <1>1, <1>2, <1>4 DEF GoSend, Enqueue, Return
<1>5. CASE DoSend(c)
  BY <1>0, <1>1, <1>2, <1>5 DEF DoSend, Enqueue
<1>6. CASE DoDone(c)
  BY <1>0, <1>1, <1>2, <1>6 DEF DoDone, Return
<1>7. CASE FlushCall(c)
  BY <1>0, <1>1, <1>2, <1>7 DEF FlushCall
<1>8. CASE FlushSend(c)
  BY <1>0, <1>1, <1>2, <1>8, WorldEngineAssumption DEF FlushSend
<1>9. CASE Refused(c)
  BY <1>0, <1>1, <1>2, <1>9 DEF Refused, Return
<1>10. CASE GiveUp(c)
  BY <1>0, <1>1, <1>2, <1>10, WorldEngineAssumption DEF GiveUp, Return
<1> QED BY <1>3, <1>4, <1>5, <1>6, <1>7, <1>8, <1>9, <1>10 DEF CallerStep

\* A transaction that commits makes the store the world in memory.
LEMMA CommitIsSync ==
    ASSUME TypeOK, EngineInv, eng = "writing", Commit
    PROVE  diskItem' = mem
<1>1. snap.val = mem /\ mem \in [Item -> Value]
  BY DEF TypeOK, WorldType, EngineInv, SnapshotIsWorld
<1>2. \A i \in Item : i \notin snap.item => mem[i] = diskItem[i]
  BY DEF EngineInv, SnapshotIsWorld, WriteBehindComplete
<1> QED BY <1>1, <1>2 DEF Commit

\* The end of a flush leaves the right answer with the right caller.
LEMMA FinishPending ==
    ASSUME TypeOK, EngineInv, eng \in {"flush", "writing"},
           NEW result \in {"nil", "err"}, Finish(result),
           UNCHANGED <<mem, flushNow>>,
           mem' = diskItem' \/ (diskItem' = diskItem /\ dirty' = dirty \cup snap.item),
           \A c \in Caller : owed'[c] \subseteq owed[c],
           dirty \cup snap.item \subseteq dirty' \/
               \A c \in Caller : owed'[c] = owed[c] \ snap.item,
           dirty \subseteq dirty',
           result = "nil" => /\ dirty = {}
                             /\ \A c \in Caller : owed'[c] = owed[c] \ snap.item
    PROVE  EngineInv'
<1> USE DEF EngineInv
<1>1. /\ pc \in [Caller -> CallerAt] /\ ret \in [Caller -> Returned]
      /\ asker \in Caller \cup {Nobody} /\ done \in BOOLEAN
  BY DEF TypeOK, CallerType, EngineType
<1>2. eng' \in {"stopped", "select"} /\ snap'.item = {} /\ Alive
  BY <1>1 DEF Finish, Alive
<1>3. WriteBehindComplete' /\ SnapshotIsWorld'
  BY <1>2 DEF WriteBehindComplete, SnapshotIsWorld
<1>4. CASE asker \in Caller
  <2>1. /\ pc' = [pc EXCEPT ![asker] = "idle"]
        /\ ret' = [ret EXCEPT ![asker] = result]
        /\ asker' = Nobody /\ call' = call
    BY <1>4 DEF Finish, Return
  <2>2. owed[asker] \subseteq dirty \cup snap.item
    BY <1>2, <1>4 DEF OneAnswerDue, OwedIsPending
  <2>3. FlushNilMeansDurable'
    BY <1>1, <1>4, <2>1, <2>2 DEF FlushNilMeansDurable
  <2>4. CallMatches' /\ OneAnswerDue'
    BY <1>1, <1>4, <2>1, WorldEngineAssumption DEF CallMatches, OneAnswerDue
  <2>5. OwedIsPending'
    BY <1>1, <1>2, <1>4, <2>1 DEF OwedIsPending
  <2> QED BY <1>3, <2>3, <2>4, <2>5
<1>5. CASE asker \notin Caller
  <2>1. UNCHANGED <<pc, ret, call>> /\ asker' = Nobody
    BY <1>5 DEF Finish
  <2>2. FlushNilMeansDurable'
    BY <2>1 DEF FlushNilMeansDurable
  <2>3. CallMatches' /\ OneAnswerDue'
    BY <2>1, WorldEngineAssumption DEF CallMatches, OneAnswerDue
  <2>4. OwedIsPending'
    BY <1>2, <2>1 DEF OwedIsPending
  <2> QED BY <1>3, <2>2, <2>3, <2>4
<1> QED BY <1>4, <1>5

\* The strengthened invariant holds of every behaviour.
THEOREM EngineInvariant == Spec => []EngineInv
<1>1. Init => EngineInv
  BY WorldEngineAssumption
     DEF Init, EngineInv, WriteBehindComplete, FlushNilMeansDurable,
         SnapshotIsWorld, CallMatches, OneAnswerDue, OwedIsPending
<1>2. TypeOK /\ EngineInv /\ [Next]_vars => EngineInv'
  <2> SUFFICES ASSUME TypeOK, EngineInv, [Next]_vars PROVE EngineInv'
    OBVIOUS
  <2>1. CASE UNCHANGED vars
    BY <2>1 DEF EngineInv, WriteBehindComplete, FlushNilMeansDurable,
                SnapshotIsWorld, CallMatches, OneAnswerDue, OwedIsPending, Alive
  <2>2. ASSUME NEW c \in Caller, CallerStep(c) PROVE EngineInv'
    BY <2>2, CallerPending
  <2>3. CASE SignalStop \/ BeginShutdown
    BY <2>3 DEF SignalStop, BeginShutdown, EngineInv, WriteBehindComplete,
                FlushNilMeansDurable, SnapshotIsWorld, CallMatches,
                OneAnswerDue, OwedIsPending, Alive
  <2>4. CASE Start
    <3>1. PICK I \in SUBSET Item :
              \E f \in [I \cup {Root} -> Value \ Unstorable] :
                  Write(I \cup {Root}, f)
      BY <2>4 DEF Start
    <3>2. PICK f \in [I \cup {Root} -> Value \ Unstorable] :
              Write(I \cup {Root}, f)
      BY <3>1
    <3>3. I \cup {Root} \in SUBSET Item /\ f \in [I \cup {Root} -> Value]
      BY <3>1, <3>2
    <3> QED BY <2>4, <3>2, <3>3, WritePending DEF Start, Alive
  <2>5. CASE Apply
    BY <2>5, MutatePending DEF Apply, Alive
  <2>6. CASE Tick
    <3>1. /\ Mutate /\ eng = "select" /\ eng' = "flush" /\ asker' = Nobody
          /\ UNCHANGED <<diskItem, snap, owed, pc, call, ret, flushNow>>
      BY <2>6 DEF Tick
    <3>2. PICK I \in SUBSET Item : \E f \in [I -> Value] : Write(I, f)
      BY <3>1 DEF Mutate
    <3> QED BY <3>1, <3>2, WorldEngineAssumption
            DEF EngineInv, WriteBehindComplete, FlushNilMeansDurable,
                SnapshotIsWorld, CallMatches, OneAnswerDue, OwedIsPending,
                Alive, Write, TypeOK, WorldType
  <2>7. CASE TakeFlush
    <3>1. /\ Head(flushNow) = flushNow[1] /\ 1 \in DOMAIN flushNow
          /\ Tail(flushNow) = <<>>
      BY <2>7 DEF TakeFlush, TypeOK, QueueType
    <3> QED BY <2>7, <3>1
            DEF TakeFlush, EngineInv, WriteBehindComplete,
                FlushNilMeansDurable, SnapshotIsWorld, CallMatches,
                OneAnswerDue, OwedIsPending, Alive
  <2>8. CASE NothingToFlush
    <3>1. dirty = {} /\ snap.item = {}
      BY <2>8 DEF NothingToFlush, HasPending, EngineInv, SnapshotIsWorld
    <3>2. mem = diskItem
      BY <2>8, <3>1 DEF NothingToFlush, EngineInv, WriteBehindComplete,
                        TypeOK, WorldType, StoreType
    <3> QED BY <2>8, <3>1, <3>2, FinishPending DEF NothingToFlush
  <2>9. CASE Snapshot
    <3>1. PICK v \in Stamped : mem' = [mem EXCEPT ![Root] = v]
      BY <2>9 DEF Snapshot
    <3>2. /\ eng = "flush" /\ eng' = "writing" /\ dirty' = {}
          /\ snap'.item = dirty \cup {Root} /\ snap'.val = mem'
          /\ UNCHANGED <<diskItem, asker, flushNow, pc, call, ret, owed>>
      BY <2>9 DEF Snapshot
    <3>3. \A i \in Item : i # Root => mem'[i] = mem[i]
      BY <3>1 DEF TypeOK, WorldType
    <3> QED BY <3>2, <3>3
            DEF EngineInv, WriteBehindComplete, FlushNilMeansDurable,
                SnapshotIsWorld, CallMatches, OneAnswerDue, OwedIsPending,
                Alive
  <2>10. CASE WriteOk
    <3>1. diskItem' = mem
      BY <2>10, CommitIsSync DEF WriteOk
    <3>2. \A c \in Caller : owed'[c] = owed[c] \ snap.item
      BY <2>10 DEF WriteOk, Commit
    <3>3. dirty = {}
      BY <2>10 DEF WriteOk, EngineInv, SnapshotIsWorld
    <3> QED BY <2>10, <3>1, <3>2, <3>3, FinishPending DEF WriteOk
  <2>11. CASE WriteFails
    <3>1. CASE Commit
      <4>1. diskItem' = mem
        BY <2>11, <3>1, CommitIsSync DEF WriteFails
      <4>2. \A c \in Caller : owed'[c] = owed[c] \ snap.item
        BY <3>1 DEF Commit
      <4> QED BY <2>11, <4>1, <4>2, FinishPending DEF WriteFails, Requeue
    <3>2. CASE RolledBack
      BY <2>11, <3>2, FinishPending DEF WriteFails, Requeue, RolledBack
    <3> QED BY <2>11, <3>1, <3>2 DEF WriteFails
  <2>12. CASE Drain
    BY <2>12, MutatePending DEF Drain, Alive
  <2>13. CASE Drained
    <3>1. PICK v \in Stamped : Write({Root}, [i \in {Root} |-> v])
      BY <2>13 DEF Drained
    <3>2. /\ eng = "drain" /\ eng' = "flush" /\ asker' = Nobody
          /\ UNCHANGED <<diskItem, snap, owed, pc, call, ret, flushNow>>
      BY <2>13 DEF Drained
    <3> QED BY <3>1, <3>2, WorldEngineAssumption
            DEF EngineInv, WriteBehindComplete, FlushNilMeansDurable,
                SnapshotIsWorld, CallMatches, OneAnswerDue, OwedIsPending,
                Alive, Write, TypeOK, WorldType
  <2>14. CASE Crash
    <3>1. \A c \in Caller : owed'[c] \subseteq owed[c]
      BY <2>14 DEF Crash, Commit, RolledBack
    <3> QED BY <2>14, <3>1
            DEF Crash, EngineInv, WriteBehindComplete, FlushNilMeansDurable,
                SnapshotIsWorld, CallMatches, OneAnswerDue, OwedIsPending,
                Alive
  <2>15. CASE Load
    BY <2>15, WorldEngineAssumption
       DEF Load, EngineInv, WriteBehindComplete, FlushNilMeansDurable,
           SnapshotIsWorld, CallMatches, OneAnswerDue, OwedIsPending, Alive
  <2> QED BY <2>1, <2>2, <2>3, <2>4, <2>5, <2>6, <2>7, <2>8, <2>9, <2>10,
             <2>11, <2>12, <2>13, <2>14, <2>15 DEF Next, EngineStep
<1> QED BY <1>1, <1>2, TypeCorrect, PTL DEF Spec

\* No failed write, panic, drain or reload loses track of a changed item.
THEOREM NothingForgotten == Spec => []WriteBehindComplete
<1>1. EngineInv => WriteBehindComplete
  BY DEF EngineInv
<1> QED BY <1>1, EngineInvariant, PTL

\* A nil from Flush speaks for everything unsaved when it was called.
THEOREM FlushTellsTheTruth == Spec => []FlushNilMeansDurable
<1>1. EngineInv => FlushNilMeansDurable
  BY DEF EngineInv
<1> QED BY <1>1, EngineInvariant, PTL

-------------------------------------------------------------------------------
(* Refinement.                                                             *)

\* The store is only ever replaced by the whole world as it is, and a boot
\* resumes from it: the engine implements DurableWorld.
THEOREM ImplementsDurable == Spec => DurableSpec
<1>1. Init => Durable!Init
  BY WorldEngineAssumption DEF Init, Durable!Init
<1>2. TypeOK /\ TypeOK' /\ EngineInv /\ [Next]_vars => [Durable!Next]_(Durable!vars)
  <2> SUFFICES ASSUME TypeOK, TypeOK', EngineInv, [Next]_vars
               PROVE  Durable!Next \/ UNCHANGED <<mem, diskItem>>
    BY DEF Durable!vars
  <2> USE DEF Durable!Next, Durable!Change, Durable!Sync, Durable!Recover
  <2>0. mem' \in [Item -> Value]
    BY DEF TypeOK, WorldType
  <2>1. CASE UNCHANGED diskItem
    BY <2>0, <2>1
  <2>2. CASE eng = "writing" /\ Commit /\ UNCHANGED mem
    BY <2>2, CommitIsSync
  <2>3. UNCHANGED diskItem \/ (eng = "writing" /\ Commit /\ UNCHANGED mem)
    <3>1. CASE UNCHANGED vars
      BY <3>1
    <3>2. ASSUME NEW c \in Caller, CallerStep(c) PROVE UNCHANGED diskItem
      BY <3>2 DEF CallerStep, GoCall, GoSend, DoCall, DoSend, DoDone,
                  FlushCall, FlushSend, Refused, GiveUp, Submit, Enqueue
    <3>3. CASE SignalStop \/ Load
      BY <3>3 DEF SignalStop, Load
    <3>4. CASE WriteOk \/ WriteFails \/ Crash
      BY <3>4 DEF WriteOk, WriteFails, Crash, RolledBack
    <3>5. CASE Start \/ Apply \/ Tick \/ TakeFlush \/ NothingToFlush
               \/ Snapshot \/ BeginShutdown \/ Drain \/ Drained
      BY <3>5 DEF Start, Apply, Tick, TakeFlush, NothingToFlush, Snapshot,
                  BeginShutdown, Drain, Drained
    <3> QED BY <3>1, <3>2, <3>3, <3>4, <3>5 DEF Next, EngineStep
  <2> QED BY <2>1, <2>2, <2>3
<1> QED BY <1>1, <1>2, TypeCorrect, EngineInvariant, PTL
        DEF Spec, DurableSpec, Durable!Spec

-------------------------------------------------------------------------------
(* What the engine tells its callers, its operator and the gripe file is  *)
(* so.                                                                     *)

-------------------------------------------------------------------------------
(* The newest of a list of gripes.                                         *)

\* Trimming a list: how long what is left is, and where it comes from.
LEMMA NewestCells ==
    ASSUME NEW s \in Seq(Nat), NEW n \in Nat \ {0}
    PROVE  /\ Newest(n, s) \in Seq(Nat)
           /\ Len(s) <= n => Newest(n, s) = s
           /\ Len(s) > n =>
                 /\ Len(Newest(n, s)) = n
                 /\ \A k \in 1..n : Newest(n, s)[k] = s[Len(s) - n + k]
<1>1. CASE Len(s) <= n
  BY <1>1 DEF Newest
<1>2. CASE Len(s) > n
  <2>1. /\ Len(s) \in Nat /\ n \in Int
        /\ Len(s) - n + 1 \in Int
        /\ \A i \in (Len(s) - n + 1)..Len(s) : s[i] \in Nat
    BY <1>2
  <2>2. /\ SubSeq(s, Len(s) - n + 1, Len(s)) \in Seq(Nat)
        /\ Len(SubSeq(s, Len(s) - n + 1, Len(s))) = n
        /\ \A k \in 1..n :
              SubSeq(s, Len(s) - n + 1, Len(s))[k] = s[Len(s) - n + k]
    BY <1>2, <2>1
  <2> QED BY <1>2, <2>2, SMTT(40) DEF Newest
<1> QED BY <1>1, <1>2

\* A gripe added to a trimmed list and one added to the whole of it leave the
\* same list, once trimmed.
LEMMA NewestOfAppend ==
    ASSUME NEW s \in Seq(Nat), NEW n \in Nat \ {0}, NEW g \in Nat
    PROVE  Newest(n, Append(Newest(n, s), g)) = Newest(n, Append(s, g))
<1>1. CASE Len(s) <= n
  BY <1>1, NewestCells
<1>2. CASE Len(s) > n
  <2> DEFINE t == Newest(n, s)
             u == Append(t, g)
             v == Append(s, g)
  <2>1. /\ t \in Seq(Nat) /\ Len(t) = n
        /\ \A k \in 1..n : t[k] = s[Len(s) - n + k]
    BY <1>2, NewestCells
  <2>2. /\ u \in Seq(Nat) /\ Len(u) = n + 1
        /\ \A k \in 1..n : u[k] = t[k]
        /\ u[n + 1] = g
    BY <2>1
  <2>3. /\ v \in Seq(Nat) /\ Len(v) = Len(s) + 1
        /\ \A k \in 1..Len(s) : v[k] = s[k]
        /\ v[Len(s) + 1] = g
    OBVIOUS
  <2> HIDE DEF t, u, v
  <2>4. /\ Newest(n, u) \in Seq(Nat) /\ Len(Newest(n, u)) = n
        /\ \A k \in 1..n : Newest(n, u)[k] = u[k + 1]
    <3>1. \A k \in 1..n : n + 1 - n + k = k + 1
      OBVIOUS
    <3>2. Len(u) > n
      BY <2>2
    <3>3. /\ Newest(n, u) \in Seq(Nat) /\ Len(Newest(n, u)) = n
          /\ \A k \in 1..n : Newest(n, u)[k] = u[Len(u) - n + k]
      BY <2>2, <3>2, NewestCells
    <3> QED BY <2>2, <3>1, <3>3
  <2>5. /\ Newest(n, v) \in Seq(Nat) /\ Len(Newest(n, v)) = n
        /\ \A k \in 1..n : Newest(n, v)[k] = v[Len(s) - n + k + 1]
    <3>1. \A k \in 1..n : Len(s) + 1 - n + k = Len(s) - n + k + 1
      OBVIOUS
    <3>2. Len(v) > n
      BY <1>2, <2>3
    <3>3. /\ Newest(n, v) \in Seq(Nat) /\ Len(Newest(n, v)) = n
          /\ \A k \in 1..n : Newest(n, v)[k] = v[Len(v) - n + k]
      BY <2>3, <3>2, NewestCells
    <3> QED BY <2>3, <3>1, <3>3
  <2>6. \A k \in 1..n : u[k + 1] = v[Len(s) - n + k + 1]
    <3> TAKE k \in 1..n
    <3>1. CASE k = n
      BY <2>2, <2>3, <3>1
    <3>2. CASE k < n
      <4>1. k + 1 \in 1..n /\ Len(s) - n + k + 1 \in 1..Len(s)
        BY <1>2, <3>2
      <4>2. u[k + 1] = s[Len(s) - n + (k + 1)]
        BY <2>1, <2>2, <4>1
      <4>3. v[Len(s) - n + k + 1] = s[Len(s) - n + k + 1]
        BY <2>3, <4>1
      <4> QED BY <4>2, <4>3
    <3> QED BY <3>1, <3>2
  <2>7. Newest(n, u) = Newest(n, v)
    BY <2>4, <2>5, <2>6, SeqEqual
  <2> QED BY <2>7 DEF t, u, v
<1> QED BY <1>1, <1>2

-------------------------------------------------------------------------------
(* The work the queue accepts.                                             *)

\* An operation put on the queue is numbered after all before it.
LEMMA EnqueueInOrder ==
    ASSUME QueueType, opNo \in Nat, QueueInOrder, Enqueue
    PROVE  QueueInOrder'
<1>1. /\ ops' = Append(ops, opNo + 1) /\ opNo' = opNo + 1 /\ applied' = applied
      /\ ops \in Seq(Nat) /\ Len(ops) \in Nat
  BY DEF Enqueue, QueueType
<1>2. /\ Len(ops') = Len(ops) + 1 /\ DOMAIN ops' = 1..(Len(ops) + 1)
      /\ \A k \in 1..Len(ops) : ops'[k] = ops[k]
      /\ ops'[Len(ops) + 1] = opNo + 1
  BY <1>1
<1>3. opNo' - Len(ops') = opNo - Len(ops)
  BY <1>1, <1>2
<1>4. \A k \in DOMAIN ops' : ops'[k] = opNo - Len(ops) + k
  <2> TAKE k \in DOMAIN ops'
  <2>1. CASE k \in 1..Len(ops)
    BY <1>1, <1>2, <2>1 DEF QueueInOrder
  <2>2. CASE k = Len(ops) + 1
    BY <1>1, <1>2, <2>2
  <2> QED BY <1>1, <1>2, <2>1, <2>2
<1> QED BY <1>1, <1>2, <1>3, <1>4 DEF QueueInOrder

\* What apply takes is the first that has not run.
LEMMA ApplyInOrder ==
    ASSUME QueueType, opNo \in Nat, QueueInOrder, ApplyHead, UNCHANGED opNo
    PROVE  QueueInOrder' /\ Elements(ops') \subseteq Elements(ops)
                         /\ applied \subseteq applied'
<1>1. /\ ops \in Seq(Nat) /\ ops # <<>> /\ ops' = Tail(ops)
      /\ applied' = applied \cup {ops[1]}
  BY DEF ApplyHead, QueueType
<1>2. /\ Len(ops) \in Nat \ {0} /\ DOMAIN ops = 1..Len(ops)
      /\ Len(ops') = Len(ops) - 1 /\ DOMAIN ops' = 1..(Len(ops) - 1)
      /\ \A k \in 1..(Len(ops) - 1) : ops'[k] = ops[k + 1]
  BY <1>1
<1>3. Len(ops) <= opNo /\ ops[1] = opNo - Len(ops) + 1
      /\ applied = 1..(opNo - Len(ops))
  BY <1>2 DEF QueueInOrder
<1>4. applied' = 1..(opNo' - Len(ops'))
  BY <1>1, <1>2, <1>3
<1>5. \A k \in DOMAIN ops' : ops'[k] = opNo' - Len(ops') + k
  <2> TAKE k \in DOMAIN ops'
  <2>1. k + 1 \in DOMAIN ops /\ ops'[k] = ops[k + 1]
    BY <1>2
  <2>2. ops[k + 1] = opNo - Len(ops) + (k + 1)
    BY <2>1 DEF QueueInOrder
  <2> QED BY <1>2, <1>3, <2>1, <2>2
<1>6. Elements(ops') \subseteq Elements(ops)
  <2>1. \A k \in DOMAIN ops' : k + 1 \in DOMAIN ops /\ ops'[k] = ops[k + 1]
    BY <1>2
  <2> QED BY <2>1 DEF Elements
<1> QED BY <1>1, <1>2, <1>3, <1>4, <1>5, <1>6 DEF QueueInOrder

\* What has run is not in the queue.
LEMMA AppliedHasLeft ==
    ASSUME QueueType, opNo \in Nat, QueueInOrder, NEW n \in applied
    PROVE  n \notin Elements(ops)
<1>1. ops \in Seq(Nat) /\ DOMAIN ops = 1..Len(ops) /\ Len(ops) \in Nat
  BY DEF QueueType
<1>2. n \in 1..(opNo - Len(ops))
  BY DEF QueueInOrder
<1>3. \A k \in DOMAIN ops : ops[k] # n
  BY <1>1, <1>2 DEF QueueInOrder
<1> QED BY <1>3 DEF Elements

\* A caller's step leaves accepted work in order, and a nil from Do only for an
\* operation that has run.
LEMMA CallerWork ==
    ASSUME TypeOK, EngineInv, WorkInv, NEW c \in Caller, CallerStep(c)
    PROVE  WorkInv'
<1>0. /\ QueueType /\ opNo \in Nat /\ eng' = eng /\ done' = done
      /\ applied' = applied
  BY DEF TypeOK, CountType, CallerStep, GoCall, GoSend, DoCall, DoSend, DoDone,
         FlushCall, FlushSend, Refused, GiveUp, Submit, Enqueue
<1>1. QueueInOrder /\ Unanswered /\ StopsInOrder /\ DoNilMeansApplied
      /\ AcceptedBeforeStopRuns
  BY DEF WorkInv, AcceptedWorkRuns
<1>2. /\ pc \in [Caller -> CallerAt] /\ call \in [Caller -> Called]
      /\ ret \in [Caller -> Returned] /\ mine \in [Caller -> Nat]
  BY DEF TypeOK, CallerType
<1>3. CallMatches
  BY DEF EngineInv
<1>4. CASE Enqueue /\ (GoSend(c) \/ DoSend(c))
  <2>1. QueueInOrder'
    BY <1>0, <1>1, <1>4, EnqueueInOrder
  <2>2. /\ Elements(ops') = Elements(ops) \cup {opNo + 1}
        /\ opNo' = opNo + 1
        /\ late' = IF done THEN late \cup {opNo + 1} ELSE late
    <3>1. /\ ops \in Seq(Nat) /\ ops' = Append(ops, opNo + 1)
      BY <1>0, <1>4 DEF Enqueue, QueueType
    <3>2. /\ DOMAIN ops = 1..Len(ops) /\ Len(ops) \in Nat
          /\ DOMAIN ops' = 1..(Len(ops) + 1)
          /\ \A k \in 1..Len(ops) : ops'[k] = ops[k]
          /\ ops'[Len(ops) + 1] = opNo + 1
      BY <1>0, <3>1
    <3>3. Elements(ops') = Elements(ops) \cup {opNo + 1}
      BY <3>2 DEF Elements
    <3> QED BY <1>0, <1>4, <3>3 DEF Enqueue
  <2>3. Unanswered'
    BY <1>1, <1>2, <1>4 DEF Unanswered, GoSend, DoSend, Return
  <2>4. StopsInOrder'
    BY <1>0, <1>1, <2>2 DEF StopsInOrder
  <2>5. DoNilMeansApplied'
    <3> SUFFICES ASSUME NEW d \in Caller, call'[d] = "do", ret'[d] = "nil"
                 PROVE  mine'[d] \in applied' /\ mine'[d] \notin Elements(ops')
      BY DEF DoNilMeansApplied
    <3>1. d # c
      <4>1. CASE GoSend(c)
        BY <1>2, <1>3, <4>1 DEF CallMatches, GoSend
      <4>2. CASE DoSend(c)
        BY <1>1, <1>2, <4>2 DEF Unanswered, DoSend
      <4> QED BY <1>4, <4>1, <4>2
    <3>2. /\ mine'[d] = mine[d] /\ mine[d] \in applied
          /\ mine[d] \notin Elements(ops)
      BY <1>1, <1>2, <1>4, <3>1 DEF DoNilMeansApplied, GoSend, DoSend, Return
    <3>3. mine[d] # opNo + 1
      <4>1. ops \in Seq(Nat) /\ Len(ops) \in Nat
        BY <1>0 DEF QueueType
      <4> QED BY <1>0, <1>1, <3>2, <4>1 DEF QueueInOrder
    <3> QED BY <1>0, <2>2, <3>2, <3>3
  <2>6. AcceptedBeforeStopRuns'
    BY <1>0, <1>1, <2>2 DEF AcceptedBeforeStopRuns, StopsInOrder
  <2> QED BY <2>1, <2>3, <2>4, <2>5, <2>6 DEF WorkInv, AcceptedWorkRuns
<1>5. CASE UNCHANGED <<ops, opNo, late>> /\ ~(GoSend(c) \/ DoSend(c))
  <2>1. QueueInOrder' /\ StopsInOrder' /\ AcceptedBeforeStopRuns'
    BY <1>0, <1>1, <1>5 DEF QueueInOrder, StopsInOrder, AcceptedBeforeStopRuns,
                            Elements
  <2>2. Unanswered'
    BY <1>1, <1>2, <1>5
       DEF Unanswered, CallerStep, GoCall, DoCall, DoDone, FlushCall, FlushSend,
           Refused, GiveUp, Submit, Return
  <2>3. DoNilMeansApplied'
    <3> SUFFICES ASSUME NEW d \in Caller, call'[d] = "do", ret'[d] = "nil"
                 PROVE  mine'[d] \in applied /\ mine'[d] \notin Elements(ops)
      BY <1>0, <1>5 DEF DoNilMeansApplied, Elements
    <3>1. CASE d = c
      <4>1. DoDone(c)
        BY <1>1, <1>2, <1>5, <3>1
           DEF CallerStep, GoCall, DoCall, FlushCall, FlushSend, Refused,
               GiveUp, Submit, Return, Unanswered
      <4>2. mine'[d] = mine[d] /\ mine[d] \in applied
        BY <3>1, <4>1 DEF DoDone
      <4> QED BY <1>0, <1>1, <4>2, AppliedHasLeft
    <3>2. CASE d # c
      <4>1. call[d] = "do" /\ ret[d] = "nil" /\ mine'[d] = mine[d]
        BY <1>2, <1>5, <3>2
           DEF CallerStep, GoCall, DoCall, DoDone, FlushCall, FlushSend,
               Refused, GiveUp, Submit, Return
      <4> QED BY <1>1, <4>1 DEF DoNilMeansApplied
    <3> QED BY <3>1, <3>2
  <2> QED BY <2>1, <2>2, <2>3 DEF WorkInv, AcceptedWorkRuns
<1> QED BY <1>4, <1>5 DEF CallerStep, GoCall, GoSend, DoCall, DoSend, DoDone,
              FlushCall, FlushSend, Refused, GiveUp, Submit

\* The end of a flush answers nobody's Do; a flush made after the drain is what
\* stops the engine, and by then the queue held nothing but late work.
LEMMA FinishWork ==
    ASSUME TypeOK, EngineInv, WorkInv, eng \in {"flush", "writing"},
           NEW result \in {"nil", "err"}, Finish(result),
           UNCHANGED <<ops, applied, opNo, late>>
    PROVE  WorkInv'
<1>1. QueueInOrder /\ Unanswered /\ StopsInOrder /\ DoNilMeansApplied
      /\ AcceptedBeforeStopRuns /\ OneAnswerDue
  BY DEF WorkInv, AcceptedWorkRuns, EngineInv
<1>2. /\ pc \in [Caller -> CallerAt] /\ call \in [Caller -> Called]
      /\ ret \in [Caller -> Returned] /\ mine \in [Caller -> Nat]
      /\ asker \in Caller \cup {Nobody} /\ done \in BOOLEAN
      /\ QueueType /\ opNo \in Nat
  BY DEF TypeOK, CallerType, EngineType, CountType
<1>3. eng' = (IF done THEN "stopped" ELSE "select") /\ done' = done
      /\ mine' = mine /\ call' = call
  BY DEF Finish
<1>4. QueueInOrder' /\ StopsInOrder'
  BY <1>1, <1>2, <1>3 DEF QueueInOrder, StopsInOrder, Elements
<1>5. AcceptedBeforeStopRuns'
  <2> SUFFICES ASSUME done, NEW n \in 1..opNo, n \notin late
               PROVE  n \in applied
    BY <1>2, <1>3 DEF AcceptedBeforeStopRuns
  <2>1. Elements(ops) \subseteq late
    BY <1>1 DEF StopsInOrder
  <2>2. ops \in Seq(Nat) /\ DOMAIN ops = 1..Len(ops) /\ Len(ops) \in Nat
    BY <1>2 DEF QueueType
  <2>3. CASE n <= opNo - Len(ops)
    BY <1>1, <1>2, <2>2, <2>3 DEF QueueInOrder
  <2>4. CASE n > opNo - Len(ops)
    <3>1. n - (opNo - Len(ops)) \in DOMAIN ops
      BY <1>2, <2>2, <2>4
    <3>2. ops[n - (opNo - Len(ops))] = opNo - Len(ops) + (n - (opNo - Len(ops)))
      BY <1>1, <3>1 DEF QueueInOrder
    <3>3. opNo - Len(ops) + (n - (opNo - Len(ops))) = n
      BY <1>2, <2>2
    <3>4. n \in Elements(ops)
      BY <3>1, <3>2, <3>3 DEF Elements
    <3> QED BY <2>1, <3>4
  <2> QED BY <1>2, <2>2, <2>3, <2>4
<1>6. Unanswered' /\ DoNilMeansApplied'
  <2>1. CASE asker \in Caller
    <3>1. /\ pc' = [pc EXCEPT ![asker] = "idle"]
          /\ ret' = [ret EXCEPT ![asker] = result]
      BY <2>1 DEF Finish, Return
    <3>2. call[asker] = "flush"
      BY <1>1, <2>1 DEF OneAnswerDue, Unanswered
    <3> QED BY <1>1, <1>2, <1>3, <2>1, <3>1, <3>2
            DEF Unanswered, DoNilMeansApplied, Elements
  <2>2. CASE asker \notin Caller
    BY <1>1, <1>3, <2>2 DEF Finish, Unanswered, DoNilMeansApplied, Elements
  <2> QED BY <2>1, <2>2
<1> QED BY <1>4, <1>5, <1>6 DEF WorkInv, AcceptedWorkRuns

\* Code on the world goroutine that takes nothing off the queue, a write that
\* ends and a crash: everything but the engine's place stays as it was.
LEMMA WorkAside ==
    ASSUME WorkInv,
           UNCHANGED <<ops, applied, opNo, late, mine, pc, call, ret, done>>,
           \/ eng' = eng
           \/ eng' \in {"select", "flush", "writing"} /\ ~done
           \/ eng = "flush" /\ eng' = "writing"
           \/ eng' = "down"
    PROVE  WorkInv'
  BY DEF WorkInv, QueueInOrder, Unanswered, StopsInOrder, AcceptedWorkRuns,
         DoNilMeansApplied, AcceptedBeforeStopRuns, Elements

\* apply, in the loop or in the drain.
LEMMA ApplyWork ==
    ASSUME TypeOK, WorkInv, ApplyHead, eng \in {"select", "drain"},
           UNCHANGED <<opNo, late, mine, pc, call, ret, done, eng>>
    PROVE  WorkInv'
<1>1. QueueType /\ opNo \in Nat
  BY DEF TypeOK, CountType
<1>2. /\ QueueInOrder' /\ Elements(ops') \subseteq Elements(ops)
      /\ applied \subseteq applied'
  BY <1>1, ApplyInOrder DEF WorkInv
<1>3. Unanswered' /\ StopsInOrder' /\ AcceptedBeforeStopRuns'
  BY <1>2 DEF WorkInv, Unanswered, StopsInOrder, AcceptedBeforeStopRuns
<1>4. DoNilMeansApplied'
  BY <1>2 DEF WorkInv, AcceptedWorkRuns, DoNilMeansApplied
<1> QED BY <1>2, <1>3, <1>4 DEF WorkInv, AcceptedWorkRuns

\* What the queue accepts runs, in order, in every behaviour.
THEOREM WorkInvariant == Spec => []WorkInv
<1>1. Init => WorkInv
  BY DEF Init, WorkInv, QueueInOrder, Unanswered, StopsInOrder,
         AcceptedWorkRuns, DoNilMeansApplied, AcceptedBeforeStopRuns, Elements
<1>2. TypeOK /\ EngineInv /\ WorkInv /\ [Next]_vars => WorkInv'
  <2> SUFFICES ASSUME TypeOK, EngineInv, WorkInv, [Next]_vars PROVE WorkInv'
    OBVIOUS
  <2>0. done \in BOOLEAN /\ (eng \in {"boot", "select"} => ~done)
    BY DEF TypeOK, EngineType, WorkInv, StopsInOrder
  <2>1. CASE UNCHANGED vars
    BY <2>1, WorkAside
  <2>2. ASSUME NEW c \in Caller, CallerStep(c) PROVE WorkInv'
    BY <2>2, CallerWork
  <2>3. CASE SignalStop
    BY <2>3, WorkAside DEF SignalStop
  <2>4. CASE Start
    BY <2>0, <2>4, WorkAside DEF Start
  <2>5. CASE Apply
    BY <2>5, ApplyWork DEF Apply
  <2>6. CASE Tick
    BY <2>0, <2>6, WorkAside DEF Tick
  <2>7. CASE TakeFlush
    BY <2>0, <2>7, WorkAside DEF TakeFlush
  <2>8. CASE NothingToFlush
    BY <2>8, FinishWork DEF NothingToFlush
  <2>9. CASE Snapshot
    BY <2>9, WorkAside DEF Snapshot
  <2>10. CASE WriteOk
    BY <2>10, FinishWork DEF WriteOk
  <2>11. CASE WriteFails
    BY <2>11, FinishWork DEF WriteFails
  <2>12. CASE BeginShutdown
    BY <2>12 DEF BeginShutdown, WorkInv, QueueInOrder, Unanswered,
                 StopsInOrder, AcceptedWorkRuns, DoNilMeansApplied,
                 AcceptedBeforeStopRuns, Elements
  <2>13. CASE Drain
    BY <2>13, ApplyWork DEF Drain
  <2>14. CASE Drained
    BY <2>14 DEF Drained, WorkInv, QueueInOrder, Unanswered, StopsInOrder,
                 AcceptedWorkRuns, DoNilMeansApplied, AcceptedBeforeStopRuns,
                 Elements
  <2>15. CASE Crash
    BY <2>15, WorkAside DEF Crash
  <2>16. CASE Load
    BY <2>16 DEF Load, WorkInv, QueueInOrder, Unanswered, StopsInOrder,
                 AcceptedWorkRuns, DoNilMeansApplied, AcceptedBeforeStopRuns,
                 Elements
  <2> QED BY <2>1, <2>2, <2>3, <2>4, <2>5, <2>6, <2>7, <2>8, <2>9, <2>10,
             <2>11, <2>12, <2>13, <2>14, <2>15, <2>16 DEF Next, EngineStep
<1> QED BY <1>1, <1>2, TypeCorrect, EngineInvariant, PTL DEF Spec

\* A nil from Do means that the operation ran, and the drain runs whatever was
\* accepted before done was closed.
THEOREM AcceptedWorkIsDone == Spec => []AcceptedWorkRuns
<1>1. WorkInv => AcceptedWorkRuns
  BY DEF WorkInv
<1> QED BY <1>1, WorkInvariant, PTL

-------------------------------------------------------------------------------
(* What is said to be saved.                                               *)

\* The gripes the store has or is still to be given, oldest first.
AllGripes == diskGripe \o snap.gripe \o newGripes

\* Three lists of gripes and what they make together.
LEMMA GripeLists ==
    ASSUME TypeOK
    PROVE  /\ diskGripe \in Seq(Nat) /\ snap.gripe \in Seq(Nat)
           /\ newGripes \in Seq(Nat) /\ AllGripes \in Seq(Nat)
           /\ snap.gripe = <<>> => AllGripes = diskGripe \o newGripes
           /\ newGripes = <<>> => AllGripes = diskGripe \o snap.gripe
<1>1. diskGripe \in Seq(Nat) /\ newGripes \in Seq(Nat) /\ snap.gripe \in Seq(Nat)
  BY SnapshotType DEF TypeOK, StoreType, WorldType, EngineType
<1>2. diskGripe \o snap.gripe \in Seq(Nat)
  BY <1>1
<1> QED BY <1>1, <1>2, ConcatProperties, ConcatEmptySeq DEF AllGripes

\* What is added to the last of three lists is added to what they make.
LEMMA AppendToLast ==
    ASSUME NEW S, NEW a \in Seq(S), NEW b \in Seq(S), NEW c \in Seq(S), NEW g \in S
    PROVE  a \o b \o Append(c, g) = Append(a \o b \o c, g)
<1>1. a \o b \in Seq(S) /\ a \o b \o c \in Seq(S) /\ <<g>> \in Seq(S)
  OBVIOUS
<1>2. Append(c, g) = c \o <<g>>
  BY AppendIsConcat
<1>3. Append(a \o b \o c, g) = (a \o b \o c) \o <<g>>
  BY <1>1, AppendIsConcat
<1>4. (a \o b \o c) \o <<g>> = (a \o b) \o (c \o <<g>>)
  BY <1>1, ConcatAssociative, SMTT(40)
<1> QED BY <1>2, <1>3, <1>4

\* Code on the world goroutine keeps the list a wizard reads the newest of all.
LEMMA MutateGripes ==
    ASSUME TypeOK, SavedInv, Mutate, eng # "writing", eng # "stopped", Alive,
           UNCHANGED <<diskGripe, snap, dropped>>
    PROVE  /\ snap'.gripe = <<>>
           /\ dropped' = {} =>
                 shown' = Newest(GripeLimit,
                                 diskGripe' \o snap'.gripe \o newGripes')
<1>1. snap.gripe = <<>> /\ GripesMatchRows
  BY DEF SavedInv, SaidIsSaved, GripesAreSomewhere
<1>2. CASE UNCHANGED <<gripeNo, shown, newGripes>>
  BY <1>1, <1>2 DEF GripesMatchRows
<1>3. CASE AddGripe
  <2> DEFINE g == gripeNo + 1
  <2>1. /\ diskGripe \in Seq(Nat) /\ newGripes \in Seq(Nat) /\ g \in Nat
        /\ snap.gripe \in Seq(Nat) /\ AllGripes \in Seq(Nat)
    BY GripeLists DEF TypeOK, WorldType
  <2>2. newGripes' = Append(newGripes, g)
    BY <1>3 DEF AddGripe
  <2>3. diskGripe' \o snap'.gripe \o newGripes' = Append(AllGripes, g)
    <3> DEFINE Number == Nat
               written == snap.gripe
    <3>0. /\ diskGripe \in Seq(Number) /\ written \in Seq(Number)
          /\ newGripes \in Seq(Number) /\ g \in Number
      BY <2>1
    <3> HIDE DEF g, Number, written
    <3>1. diskGripe \o written \o Append(newGripes, g)
             = Append(diskGripe \o written \o newGripes, g)
      BY <3>0, AppendToLast
    <3> QED BY <1>3, <2>2, <3>1 DEF AllGripes, written
  <2>4. shown' = Newest(GripeLimit, Append(shown, g))
    BY <1>3 DEF AddGripe
  <2>5. dropped' = {} => shown = Newest(GripeLimit, AllGripes)
    BY <1>1 DEF GripesMatchRows, AllGripes
  <2> HIDE DEF g
  <2>6. Newest(GripeLimit, Append(Newest(GripeLimit, AllGripes), g))
           = Newest(GripeLimit, Append(AllGripes, g))
    BY <2>1, NewestOfAppend
  <2> QED BY <1>1, <2>3, <2>4, <2>5, <2>6
<1> QED BY <1>2, <1>3 DEF Mutate

\* A committed transaction appends the snapshot's gripes to the rows.
LEMMA CommitGripes ==
    ASSUME TypeOK, SavedInv, eng = "writing", Commit \/ RolledBack,
           NEW result \in {"nil", "err"}, Finish(result),
           UNCHANGED <<shown, newGripes>>,
           \/ Commit /\ UNCHANGED dropped
           \/ RolledBack /\ (dropped' = dropped \cup Elements(snap.gripe))
    PROVE  /\ snap'.gripe = <<>> /\ newGripes' = <<>>
           /\ GripesMatchRows'
<1>1. newGripes = <<>> /\ GripesMatchRows
  BY DEF SavedInv, SaidIsSaved, GripesAreSomewhere
<1>2. snap' = [item |-> {}, val |-> snap.val, gripe |-> <<>>] /\ Alive /\ Alive'
  BY DEF Finish, Alive
<1>3. diskGripe \in Seq(Nat) /\ snap.gripe \in Seq(Nat)
      /\ diskGripe \o snap.gripe \in Seq(Nat)
  BY GripeLists
<1>4. \A s \in Seq(Nat) : s \o <<>> = s
  BY ConcatEmptySeq
<1>5. CASE Commit /\ UNCHANGED dropped
  <2>1. diskGripe' = diskGripe \o snap.gripe
    BY <1>5 DEF Commit
  <2>2. diskGripe' \o snap'.gripe \o newGripes'
           = diskGripe \o snap.gripe \o newGripes
    BY <1>1, <1>2, <1>3, <1>4, <2>1
  <2>3. GripesMatchRows'
    BY <1>1, <1>2, <1>5, <2>2 DEF GripesMatchRows
  <2> QED BY <1>1, <1>2, <2>3
<1>6. CASE RolledBack /\ (dropped' = dropped \cup Elements(snap.gripe))
  <2>1. dropped' = {} => snap.gripe = <<>>
    <3>1. ASSUME snap.gripe # <<>> PROVE Elements(snap.gripe) # {}
      <4>1. 1 \in DOMAIN snap.gripe
        BY <1>3, <3>1
      <4>2. snap.gripe[1] \in Elements(snap.gripe)
        BY <4>1 DEF Elements
      <4> QED BY <4>2
    <3> QED BY <1>6, <3>1
  <2>2. dropped' = {} => dropped = {}
    BY <1>6
  <2>3. GripesMatchRows'
    BY <1>1, <1>2, <1>6, <2>1, <2>2 DEF GripesMatchRows, RolledBack
  <2> QED BY <1>1, <1>2, <2>3
<1> QED BY <1>5, <1>6

\* A step that leaves the engine short of its exit.
LEMMA SavedAside ==
    ASSUME EngineInv', GripesAreSomewhere', eng' # "stopped",
           GripesMatchRows'
    PROVE  SavedInv'
  BY DEF SavedInv, SaidIsSaved, CleanExitDurable, EngineInv

\* Nothing of the gripes, the store or the engine's place changes.
LEMMA SavedStill ==
    ASSUME SavedInv, EngineInv',
           UNCHANGED <<mem, dirty, shown, newGripes, diskItem, diskGripe, eng,
                       snap, exit, dropped>>
    PROVE  SavedInv'
  BY DEF SavedInv, SaidIsSaved, GripesAreSomewhere, CleanExitDurable,
         GripesMatchRows, Alive, EngineInv

\* A write that ends: only one without an error lets Run return nil, and it has
\* left nothing to write.
LEMMA WriteSaved ==
    ASSUME TypeOK, EngineInv, EngineInv', SavedInv, WriteOk \/ WriteFails
    PROVE  SavedInv'
<1>1. /\ eng = "writing" /\ UNCHANGED <<mem, shown, newGripes>>
      /\ \/ Commit /\ Finish("nil") /\ UNCHANGED <<dirty, dropped>>
         \/ /\ Finish("err")
            /\ \/ Commit /\ UNCHANGED dropped
               \/ RolledBack /\ (dropped' = dropped \cup Elements(snap.gripe))
  BY DEF WriteOk, WriteFails
<1>2. snap'.gripe = <<>> /\ newGripes' = <<>> /\ GripesMatchRows'
  BY <1>1, CommitGripes
<1>3. GripesAreSomewhere'
  BY <1>2 DEF GripesAreSomewhere
<1>4. CleanExitDurable'
  <2>1. CASE Finish("err")
    BY <2>1 DEF CleanExitDurable, Finish
  <2>2. CASE Commit /\ Finish("nil") /\ UNCHANGED dirty
    <3>1. dirty' = {}
      BY <1>1, <2>2 DEF EngineInv, SnapshotIsWorld
    <3>2. diskItem' = mem
      BY <1>1, <2>2, CommitIsSync
    <3> QED BY <1>1, <1>2, <3>1, <3>2 DEF CleanExitDurable
  <2> QED BY <1>1, <2>1, <2>2
<1> QED BY <1>2, <1>3, <1>4 DEF SavedInv, SaidIsSaved, EngineInv

\* What the engine says is saved is saved, in every behaviour.
THEOREM SavedInvariant == Spec => []SavedInv
<1>1. Init => SavedInv
  <2> SUFFICES ASSUME Init PROVE SavedInv
    OBVIOUS
  <2>1. GripesAreSomewhere /\ CleanExitDurable /\ FlushNilMeansDurable
    BY DEF Init, GripesAreSomewhere, CleanExitDurable, FlushNilMeansDurable
  <2>2. GripesMatchRows
    <3>1. <<>> \in Seq(Nat) /\ Len(<<>>) = 0 /\ Len(<<>>) <= GripeLimit
      OBVIOUS
    <3>2. Newest(GripeLimit, <<>>) = <<>>
      BY <3>1, NewestCells
    <3>3. <<>> \o <<>> \o <<>> = <<>>
      BY <3>1, ConcatEmptySeq
    <3> QED BY <3>2, <3>3 DEF Init, GripesMatchRows
  <2> QED BY <2>1, <2>2 DEF SavedInv, SaidIsSaved
<1>2. TypeOK /\ TypeOK' /\ EngineInv /\ EngineInv' /\ SavedInv /\ [Next]_vars
         => SavedInv'
  <2> SUFFICES ASSUME TypeOK, TypeOK', EngineInv, EngineInv', SavedInv,
                      [Next]_vars
               PROVE  SavedInv'
    OBVIOUS
  <2>0. GripesAreSomewhere /\ GripesMatchRows /\ CleanExitDurable
    BY DEF SavedInv, SaidIsSaved
  <2>1. CASE UNCHANGED vars
    BY <2>1, SavedStill
  <2>2. ASSUME NEW c \in Caller, CallerStep(c) PROVE SavedInv'
    BY <2>2, SavedStill
       DEF CallerStep, GoCall, GoSend, DoCall, DoSend, DoDone, FlushCall,
           FlushSend, Refused, GiveUp, Submit, Enqueue
  <2>3. CASE SignalStop
    BY <2>3, SavedStill DEF SignalStop
  <2>4. CASE Start \/ TakeFlush \/ BeginShutdown \/ Drained
    <3>1. /\ eng \in {"boot", "select", "drain"}
          /\ eng' \in {"select", "flush", "drain"}
          /\ UNCHANGED <<shown, newGripes, diskGripe, snap, dropped>>
      BY <2>4 DEF Start, TakeFlush, BeginShutdown, Drained
    <3>2. GripesAreSomewhere' /\ GripesMatchRows'
      BY <2>0, <3>1 DEF GripesAreSomewhere, GripesMatchRows, Alive
    <3> QED BY <3>1, <3>2, SavedAside
  <2>5. CASE Apply \/ Tick \/ Drain
    <3>1. /\ Mutate /\ eng \in {"select", "drain"}
          /\ eng' \in {"select", "flush", "drain"}
          /\ UNCHANGED <<diskGripe, snap, dropped>>
      BY <2>5 DEF Apply, Tick, Drain
    <3>2. /\ snap'.gripe = <<>>
          /\ dropped' = {} =>
                shown' = Newest(GripeLimit,
                                diskGripe' \o snap'.gripe \o newGripes')
      BY <3>1, MutateGripes DEF Alive
    <3>3. GripesAreSomewhere' /\ GripesMatchRows'
      BY <3>1, <3>2 DEF GripesAreSomewhere, GripesMatchRows
    <3> QED BY <3>1, <3>3, SavedAside
  <2>6. CASE NothingToFlush
    <3>1. /\ eng = "flush" /\ dirty = {} /\ newGripes = <<>> /\ snap.gripe = <<>>
          /\ snap.item = {}
          /\ UNCHANGED <<mem, dirty, shown, newGripes, diskItem, diskGripe, dropped>>
      BY <2>0, <2>6 DEF NothingToFlush, HasPending, GripesAreSomewhere,
                        EngineInv, SnapshotIsWorld
    <3>2. snap'.gripe = <<>> /\ eng' \in {"stopped", "select"} /\ Alive /\ Alive'
      BY <2>6, <3>1 DEF NothingToFlush, Finish, Alive
    <3>3. mem = diskItem
      BY <3>1 DEF EngineInv, WriteBehindComplete, TypeOK, WorldType, StoreType
    <3>4. GripesAreSomewhere' /\ GripesMatchRows' /\ CleanExitDurable'
      BY <2>0, <3>1, <3>2, <3>3
         DEF GripesAreSomewhere, GripesMatchRows, CleanExitDurable
    <3> QED BY <3>4 DEF SavedInv, SaidIsSaved, EngineInv
  <2>7. CASE Snapshot
    <3>1. /\ eng = "flush" /\ eng' = "writing" /\ snap.gripe = <<>>
          /\ newGripes' = <<>> /\ snap'.gripe = newGripes
          /\ UNCHANGED <<shown, diskGripe, dropped>>
      BY <2>0, <2>7 DEF Snapshot, GripesAreSomewhere
    <3>2. diskGripe' \o snap'.gripe \o newGripes'
             = diskGripe \o snap.gripe \o newGripes
      <4>1. /\ diskGripe \in Seq(Nat) /\ newGripes \in Seq(Nat)
            /\ diskGripe \o newGripes \in Seq(Nat)
        BY GripeLists
      <4>2. diskGripe \o newGripes \o <<>> = diskGripe \o newGripes
            /\ diskGripe \o <<>> = diskGripe
        BY <4>1, ConcatEmptySeq
      <4> QED BY <3>1, <4>2
    <3>3. GripesAreSomewhere' /\ GripesMatchRows'
      BY <2>0, <3>1, <3>2 DEF GripesAreSomewhere, GripesMatchRows, Alive
    <3> QED BY <3>1, <3>3, SavedAside
  <2>8. CASE WriteOk \/ WriteFails
    BY <2>8, WriteSaved
  <2>9. CASE Crash
    <3>1. eng' = "down" /\ snap'.gripe = <<>>
      BY <2>9 DEF Crash
    <3>2. GripesAreSomewhere' /\ GripesMatchRows'
      BY <3>1 DEF GripesAreSomewhere, GripesMatchRows, Alive
    <3> QED BY <3>1, <3>2, SavedAside
  <2>10. CASE Load
    <3>1. /\ eng' = "boot" /\ snap'.gripe = <<>> /\ newGripes' = <<>>
          /\ diskGripe' = diskGripe /\ shown' = Newest(GripeLimit, diskGripe)
      BY <2>10 DEF Load
    <3>2. diskGripe \o <<>> \o <<>> = diskGripe
      BY GripeLists, ConcatEmptySeq
    <3>3. GripesAreSomewhere' /\ GripesMatchRows'
      BY <3>1, <3>2 DEF GripesAreSomewhere, GripesMatchRows
    <3> QED BY <3>1, <3>3, SavedAside
  <2> QED BY <2>1, <2>2, <2>3, <2>4, <2>5, <2>6, <2>7, <2>8, <2>9, <2>10
          DEF Next, EngineStep
<1> QED BY <1>1, <1>2, TypeCorrect, EngineInvariant, PTL DEF Spec

\* A nil from Flush, a clean exit and the list of gripes tell the truth about
\* the store.
THEOREM WhatIsSaidIsSaved == Spec => []SaidIsSaved
<1>1. SavedInv => SaidIsSaved
  BY DEF SavedInv
<1> QED BY <1>1, SavedInvariant, PTL
===============================================================================
