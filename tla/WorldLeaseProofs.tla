---------------------------- MODULE WorldLeaseProofs ----------------------------
(***************************************************************************)
(* Theorems about WorldLease, for any number of servers and any bounds.    *)
(***************************************************************************)
EXTENDS WorldLease, TLAPS

USE WorldLeaseAssumption DEF vars, leaseVars, worldVars

\* Next, one action at a time, for the proofs below.
LEMMA Steps ==
    ASSUME Next
    PROVE  \/ \E s \in Server : AcquireLease(s) \/ Load(s) \/ Change(s)
           \/ \E s \in Server : Flush(s) \/ Stop(s) \/ Release(s)
           \/ \E s \in Server : Crash(s) \/ Lose(s) \/ Check(s)
           \/ Notice \/ PassGuard \/ ConfigWrite
  BY DEF Next, Serve

\* Numbering one more change stays within the bound.
LEMMA NextChange ==
    ASSUME n \in 0..MaxChanges, n < MaxChanges
    PROVE  n + 1 \in 0..MaxChanges /\ n + 1 \in 1..MaxChanges
  OBVIOUS

\* What a server or the store holds, written out, is a set of changes.
LEMMA WriteOutType ==
    ASSUME NEW s \in Server, TypeOK, WriteOut(s)
    PROVE  /\ db' \in SUBSET (1..MaxChanges) /\ committed' \in SUBSET (1..MaxChanges)
           /\ unsaved' \in [Server -> BOOLEAN]
<1>1. db' \in SUBSET (1..MaxChanges)
  BY DEF TypeOK, WriteOut
<1>2. committed' \in SUBSET (1..MaxChanges)
  BY <1>1 DEF TypeOK, WriteOut
<1>3. unsaved' \in [Server -> BOOLEAN]
  BY DEF TypeOK, WriteOut
<1> QED BY <1>1, <1>2, <1>3

-------------------------------------------------------------------------------

\* Every step leaves every variable with its type, and a process that is off
\* with no connection.
LEMMA TypeStep ==
    ASSUME TypeOK, [Next]_vars
    PROVE  TypeOK'
<1>1. ASSUME NEW s \in Server, AcquireLease(s) PROVE TypeOK'
  BY <1>1 DEF TypeOK, AcquireLease, Lock, ServeAt
<1>2. ASSUME NEW s \in Server, Load(s) PROVE TypeOK'
  BY <1>2 DEF TypeOK, Load, ServeAt
<1>3. ASSUME NEW s \in Server, Change(s) PROVE TypeOK'
  <2>1. n + 1 \in 0..MaxChanges /\ n + 1 \in 1..MaxChanges
    BY <1>3, NextChange DEF TypeOK, Change
  <2>2. mem' \in [Server -> SUBSET (1..MaxChanges)]
    <3>1. mem[s] \cup {n + 1} \in SUBSET (1..MaxChanges)
      BY <2>1 DEF TypeOK
    <3> QED BY <3>1, <1>3 DEF TypeOK, Change
  <2> QED BY <2>1, <2>2, <1>3 DEF TypeOK, Change
<1>4. ASSUME NEW s \in Server, Flush(s) PROVE TypeOK'
  <2>1. WriteOut(s)
    BY <1>4 DEF Flush
  <2> QED BY <2>1, <1>4, WriteOutType DEF TypeOK, Flush
<1>5. ASSUME NEW s \in Server, Stop(s) PROVE TypeOK'
  <2>1. /\ db' \in SUBSET (1..MaxChanges) /\ committed' \in SUBSET (1..MaxChanges)
        /\ unsaved' \in [Server -> BOOLEAN]
    <3>1. CASE WriteOut(s)
      BY <3>1, WriteOutType
    <3>2. CASE UNCHANGED <<db, committed, unsaved>>
      BY <3>2 DEF TypeOK
    <3> QED BY <3>1, <3>2, <1>5 DEF Stop
  <2> QED BY <2>1, <1>5 DEF TypeOK, Stop, ServeAt
<1>6. ASSUME NEW s \in Server, Release(s) PROVE TypeOK'
  BY <1>6 DEF TypeOK, Release, ServeAt
<1>7. ASSUME NEW s \in Server, Crash(s) PROVE TypeOK'
  BY <1>7 DEF TypeOK, Crash, ServeAt
<1>8. ASSUME NEW s \in Server, Lose(s) PROVE TypeOK'
  BY <1>8 DEF TypeOK, Lose
<1>9. ASSUME NEW s \in Server, Check(s) PROVE TypeOK'
  BY <1>9 DEF TypeOK, Check, Lock, Free
<1>10. CASE Notice
  BY <1>10 DEF TypeOK, Notice
<1>11. CASE PassGuard
  BY <1>11 DEF TypeOK, PassGuard
<1>12. CASE ConfigWrite
  <2>1. n + 1 \in 0..MaxChanges /\ n + 1 \in 1..MaxChanges
    BY <1>12, NextChange DEF TypeOK, ConfigWrite
  <2> QED BY <2>1, <1>12 DEF TypeOK, ConfigWrite
<1>13. CASE UNCHANGED vars
  BY <1>13 DEF TypeOK
<1> QED BY Steps, <1>1, <1>2, <1>3, <1>4, <1>5, <1>6, <1>7, <1>8, <1>9,
           <1>10, <1>11, <1>12, <1>13

\* The variables keep their types, whatever crashes and is lost.
THEOREM LeaseTypeCorrect == Spec => []TypeOK
<1>1. Init => TypeOK
  <2> SUFFICES ASSUME Init PROVE TypeOK
    OBVIOUS
  <2>1. {} \in SUBSET (1..MaxChanges) /\ 0 \in 0..MaxChanges
        /\ 0 \in 0..MaxCrashes /\ 0 \in 0..MaxLosses
    OBVIOUS
  <2>2. /\ srv \in [Server -> ServeAt]
        /\ conn \in [Server -> {"nil", "up", "dead"}]
        /\ \A s \in Server : srv[s] = "off" => conn[s] = "nil"
    BY DEF Init, ServeAt
  <2>3. mem \in [Server -> SUBSET (1..MaxChanges)] /\ unsaved \in [Server -> BOOLEAN]
    BY <2>1 DEF Init
  <2> QED BY <2>1, <2>2, <2>3 DEF Init, TypeOK
<1> QED BY <1>1, TypeStep, PTL DEF Spec

-------------------------------------------------------------------------------
(* Who holds the lock.                                                     *)

\* A server that believes its connection is good goes on being the one that
\* Postgres's lock names.
LEMMA BeliefStep ==
    ASSUME TypeOK, BeliefIsLock, [Next]_vars
    PROVE  BeliefIsLock'
<1>1. ASSUME NEW s \in Server, AcquireLease(s) PROVE BeliefIsLock'
  BY <1>1 DEF TypeOK, BeliefIsLock, AcquireLease, Lock, Free
<1>2. ASSUME NEW s \in Server, Load(s) PROVE BeliefIsLock'
  BY <1>2 DEF TypeOK, BeliefIsLock, Load
<1>3. ASSUME NEW s \in Server, Change(s) PROVE BeliefIsLock'
  BY <1>3 DEF BeliefIsLock, Change
<1>4. ASSUME NEW s \in Server, Flush(s) PROVE BeliefIsLock'
  BY <1>4 DEF BeliefIsLock, Flush
<1>5. ASSUME NEW s \in Server, Stop(s) PROVE BeliefIsLock'
  BY <1>5 DEF TypeOK, BeliefIsLock, Stop
<1>6. ASSUME NEW s \in Server, Release(s) PROVE BeliefIsLock'
  BY <1>6 DEF TypeOK, BeliefIsLock, Release
<1>7. ASSUME NEW s \in Server, Crash(s) PROVE BeliefIsLock'
  BY <1>7 DEF TypeOK, BeliefIsLock, Crash
<1>8. ASSUME NEW s \in Server, Lose(s) PROVE BeliefIsLock'
  BY <1>8 DEF TypeOK, BeliefIsLock, Lose
<1>9. ASSUME NEW s \in Server, Check(s) PROVE BeliefIsLock'
  BY <1>9 DEF TypeOK, BeliefIsLock, Check, Lock, Free
<1>10. CASE Notice
  BY <1>10 DEF TypeOK, BeliefIsLock, Notice
<1>11. CASE PassGuard \/ ConfigWrite
  BY <1>11 DEF BeliefIsLock, PassGuard, ConfigWrite
<1>12. CASE UNCHANGED vars
  BY <1>12 DEF BeliefIsLock
<1> QED BY Steps, <1>1, <1>2, <1>3, <1>4, <1>5, <1>6, <1>7, <1>8, <1>9,
           <1>10, <1>11, <1>12

\* While nothing is lost, whoever runs has its connection.
LEMMA UpStep ==
    ASSUME TypeOK, UpWhileRunning, [Next]_vars
    PROVE  UpWhileRunning'
<1> SUFFICES ASSUME losses' = 0 PROVE UpWhileRunning'
  BY DEF UpWhileRunning
<1>1. ASSUME NEW s \in Server, AcquireLease(s) PROVE UpWhileRunning'
  BY <1>1 DEF TypeOK, UpWhileRunning, AcquireLease, Lock
<1>2. ASSUME NEW s \in Server, Load(s) \/ Change(s) \/ Flush(s) \/ Stop(s)
      PROVE  UpWhileRunning'
  BY <1>2 DEF TypeOK, UpWhileRunning, Load, Change, Flush, Stop
<1>3. ASSUME NEW s \in Server, Release(s) \/ Crash(s) PROVE UpWhileRunning'
  BY <1>3 DEF TypeOK, UpWhileRunning, Release, Crash
<1>4. ASSUME NEW s \in Server, Lose(s) PROVE UpWhileRunning'
  <2>1. losses' # 0
    BY <1>4 DEF TypeOK, Lose
  <2> QED BY <2>1
<1>5. ASSUME NEW s \in Server, Check(s) PROVE UpWhileRunning'
  <2>1. losses' = losses
    BY <1>5 DEF TypeOK, Check
  <2>2. srv[s] # "off" /\ conn[s] = "dead"
    BY <1>5 DEF TypeOK, Check
  <2> QED BY <2>1, <2>2 DEF UpWhileRunning
<1>6. CASE Notice \/ PassGuard \/ ConfigWrite \/ UNCHANGED vars
  BY <1>6 DEF UpWhileRunning, Notice, PassGuard, ConfigWrite
<1> QED BY Steps, <1>1, <1>2, <1>3, <1>4, <1>5, <1>6

\* While nothing is lost no two processes run, and none while the lock is free.
LEMMA OnlyOne ==
    ASSUME TypeOK, BeliefIsLock, UpWhileRunning, losses = 0
    PROVE  \A s \in Server : srv[s] # "off" => holder = s
  BY DEF BeliefIsLock, UpWhileRunning

-------------------------------------------------------------------------------
(* What is written over.                                                   *)

\* A configurator that passed the guard is not passed over in silence: the
\* server that then loads is recorded as one that raced.
LEMMA GuardStep ==
    ASSUME TypeOK, LeaseInv, [Next]_vars
    PROVE  GuardExcludes'
<1> SUFFICES ASSUME losses' = 0, ~raced', guard' = "passed"
             PROVE  \A t \in Server : srv'[t] \in {"off", "leased"}
  BY DEF GuardExcludes
<1>1. ASSUME NEW s \in Server, AcquireLease(s)
      PROVE  \A t \in Server : srv'[t] \in {"off", "leased"}
  BY <1>1 DEF TypeOK, LeaseInv, GuardExcludes, AcquireLease
<1>2. ASSUME NEW s \in Server, Load(s)
      PROVE  \A t \in Server : srv'[t] \in {"off", "leased"}
  BY <1>2 DEF Load
<1>3. ASSUME NEW s \in Server, Change(s) \/ Flush(s) \/ Stop(s)
      PROVE  \A t \in Server : srv'[t] \in {"off", "leased"}
  BY <1>3 DEF TypeOK, LeaseInv, GuardExcludes, Change, Flush, Stop
<1>4. ASSUME NEW s \in Server, Release(s) \/ Crash(s)
      PROVE  \A t \in Server : srv'[t] \in {"off", "leased"}
  BY <1>4 DEF TypeOK, LeaseInv, GuardExcludes, Release, Crash
<1>5. ASSUME NEW s \in Server, Lose(s) \/ Check(s)
      PROVE  \A t \in Server : srv'[t] \in {"off", "leased"}
  <2>1. losses = 0
    BY <1>5 DEF TypeOK, Lose, Check
  <2> QED BY <2>1, <1>5 DEF LeaseInv, GuardExcludes, Lose, Check
<1>6. CASE PassGuard
  <2>1. \A t \in Server : srv[t] = "off"
    BY <1>6, OnlyOne DEF LeaseInv, PassGuard, Free
  <2> QED BY <2>1, <1>6 DEF PassGuard
<1>7. CASE Notice \/ ConfigWrite \/ UNCHANGED vars
  BY <1>7 DEF LeaseInv, GuardExcludes, Notice, ConfigWrite
<1> QED BY Steps, <1>1, <1>2, <1>3, <1>4, <1>5, <1>6, <1>7

\* A server that serves goes on knowing all the store has held, and what the
\* store has held stays there.
LEMMA KnownStep ==
    ASSUME TypeOK, LeaseInv, [Next]_vars
    PROVE  ServedIsKnown' /\ NoLostUpdate'
<1> SUFFICES ASSUME losses' = 0, ~raced'
             PROVE  /\ \A t \in Server : srv'[t] = "serving" => committed' \subseteq mem'[t]
                    /\ committed' \subseteq db'
  BY DEF ServedIsKnown, NoLostUpdate
<1> DEFINE Known == \A t \in Server : srv[t] = "serving" => committed \subseteq mem[t]
<1>1. losses = 0 /\ ~raced
  <2>1. losses = 0
    BY Steps DEF TypeOK, AcquireLease, Load, Change, Flush, Stop, Release, Crash,
                 Lose, Check, Notice, PassGuard, ConfigWrite
  <2>2. ~raced
    BY Steps DEF TypeOK, AcquireLease, Load, Change, Flush, Stop, Release, Crash,
                 Lose, Check, Notice, PassGuard, ConfigWrite
  <2> QED BY <2>1, <2>2
<1>2. Known /\ committed \subseteq db
  BY <1>1 DEF LeaseInv, ServedIsKnown, NoLostUpdate
<1>3. \A s, t \in Server : srv[s] # "off" /\ srv[t] # "off" => s = t
  BY <1>1, OnlyOne DEF LeaseInv
<1> HIDE DEF Known
<1>4. ASSUME NEW s \in Server, AcquireLease(s)
      PROVE  Known' /\ committed' \subseteq db'
  BY <1>2, <1>4 DEF TypeOK, AcquireLease, Known
<1>5. ASSUME NEW s \in Server, Load(s)
      PROVE  Known' /\ committed' \subseteq db'
  BY <1>2, <1>5 DEF TypeOK, Load, Known
<1>6. ASSUME NEW s \in Server, Change(s)
      PROVE  Known' /\ committed' \subseteq db'
  BY <1>2, <1>6 DEF TypeOK, Change, Known
<1>7. ASSUME NEW s \in Server, Flush(s)
      PROVE  Known' /\ committed' \subseteq db'
  <2>1. committed \subseteq mem[s] /\ db' = mem[s] /\ committed' = committed \cup mem[s]
    BY <1>2, <1>7 DEF TypeOK, Flush, WriteOut, Known
  <2>2. \A t \in Server : srv'[t] = "serving" => t = s /\ mem' = mem
    BY <1>3, <1>7 DEF Flush
  <2> QED BY <2>1, <2>2 DEF Known
<1>8. ASSUME NEW s \in Server, Stop(s)
      PROVE  Known' /\ committed' \subseteq db'
  <2>1. \A t \in Server : srv'[t] # "serving"
    BY <1>3, <1>8 DEF TypeOK, Stop
  <2>2. committed' \subseteq db'
    <3>1. committed \subseteq db /\ committed \subseteq mem[s]
      BY <1>2, <1>8 DEF Stop, Known
    <3>2. CASE WriteOut(s)
      BY <3>1, <3>2 DEF WriteOut
    <3>3. CASE UNCHANGED <<db, committed, unsaved>>
      BY <3>1, <3>3
    <3> QED BY <3>2, <3>3, <1>8 DEF Stop
  <2> QED BY <2>1, <2>2 DEF Known
<1>9. ASSUME NEW s \in Server, Release(s) \/ Crash(s)
      PROVE  Known' /\ committed' \subseteq db'
  BY <1>2, <1>9 DEF TypeOK, Release, Crash, Known
<1>10. ASSUME NEW s \in Server, Lose(s) \/ Check(s)
       PROVE  Known' /\ committed' \subseteq db'
  BY <1>2, <1>10 DEF Lose, Check, Known
<1>11. ASSUME ConfigWrite PROVE Known' /\ committed' \subseteq db'
  <2>1. \A t \in Server : srv'[t] # "serving"
    BY <1>1, <1>11 DEF LeaseInv, GuardExcludes, ConfigWrite
  <2> QED BY <2>1, <1>2, <1>11 DEF ConfigWrite, Known
<1>12. ASSUME Notice \/ PassGuard \/ UNCHANGED vars
       PROVE  Known' /\ committed' \subseteq db'
  BY <1>2, <1>12 DEF Notice, PassGuard, Known
<1>13. Known' /\ committed' \subseteq db'
  BY Steps, <1>4, <1>5, <1>6, <1>7, <1>8, <1>9, <1>10, <1>11, <1>12
<1> QED BY <1>13 DEF Known

-------------------------------------------------------------------------------

\* The inductive invariant of the lease.
THEOREM LeaseInvariant == Spec => []LeaseInv
<1>1. Init => LeaseInv
  BY DEF Init, LeaseInv, BeliefIsLock, UpWhileRunning,
         GuardExcludes, ServedIsKnown, NoLostUpdate
<1>2. TypeOK /\ LeaseInv /\ [Next]_vars => LeaseInv'
  <2> SUFFICES ASSUME TypeOK, LeaseInv, [Next]_vars PROVE LeaseInv'
    OBVIOUS
  <2>1. BeliefIsLock' /\ UpWhileRunning'
    BY BeliefStep, UpStep DEF LeaseInv
  <2> QED BY <2>1, GuardStep, KnownStep DEF LeaseInv
<1> QED BY <1>1, <1>2, LeaseTypeCorrect, PTL DEF Spec

\* A server that believes its connection to be good has the lock, so that
\* neither a second server nor the configurator takes it for stopped.
THEOREM BelieversHoldTheLock == Spec => []BeliefIsLock
<1>1. LeaseInv => BeliefIsLock
  BY DEF LeaseInv
<1> QED BY <1>1, LeaseInvariant, PTL

\* However many servers are started, crash and are started again, no two are
\* between the lease and its release, as long as no connection is lost.
THEOREM OneServerAtATime == Spec => []OneAuthority
<1>1. TypeOK /\ LeaseInv => OneAuthority
  BY OnlyOne DEF LeaseInv, OneAuthority
<1> QED BY <1>1, LeaseTypeCorrect, LeaseInvariant, PTL

\* What the store has once held is never written over by a world that had
\* not read it, unless a connection was lost or a configurator raced a start.
THEOREM NothingWrittenOver == Spec => []NoLostUpdate
<1>1. LeaseInv => NoLostUpdate
  BY DEF LeaseInv
<1> QED BY <1>1, LeaseInvariant, PTL
===============================================================================
