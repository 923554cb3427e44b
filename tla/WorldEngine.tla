------------------------------ MODULE WorldEngine ------------------------------
(***************************************************************************)
(* internal/world/engine.go: the goroutine that owns the world, the        *)
(* callers that hand it work through Go, Do and Flush, the write-behind    *)
(* flush to the store, the shutdown drain, a crash and the next boot.      *)
(*                                                                         *)
(* An Item is one thing the store rewrites whole: an object, a program's   *)
(* source, the tune table, the macro table, a help corpus.  Gripes are     *)
(* kept apart because they alone are appended.                             *)
(***************************************************************************)
EXTENDS Naturals, Sequences, FiniteSets

CONSTANTS
    Caller,      \* goroutines outside the world: connections, timers, @dump
    Signaller,   \* the one that turns SIGTERM into a shutdown
    Uses,        \* which of "go", "do" and "flush" each caller calls
    Nobody,      \* the asker of a flush the ticker asked for
    Item,
    Root,        \* object #0, which carries the _sys properties
    Value,       \* what an item can hold
    Unstorable,  \* the values the store refuses: an over-long property path
    QueueDepth,  \* Options.QueueDepth, the capacity of Engine.ops
    GripeLimit,  \* world.GripeLimit, the gripes kept in memory
    MaxOps,      \* bound: operations accepted in one boot
    MaxGripes,   \* bound: gripes ever made
    MaxFailures, \* bound: failed writes
    MaxBoots     \* bound: boots

ASSUME WorldEngineAssumption ==
    /\ Signaller \in Caller
    /\ Nobody \notin Caller
    /\ Uses \in [Caller -> SUBSET {"go", "do", "flush"}]
    /\ Root \in Item
    /\ Unstorable \subseteq Value
    /\ \E v \in Value : v \notin Unstorable
    /\ QueueDepth \in Nat \ {0} /\ GripeLimit \in Nat \ {0}
    /\ MaxOps \in Nat /\ MaxGripes \in Nat
    /\ MaxFailures \in Nat /\ MaxBoots \in Nat

VARIABLES
    mem,       \* the world: what every item holds
    dirty,     \* World.dirty, progDirty, tuneDirty, macrosDirty, helpDirty
    shown,     \* World.gripes, the newest GripeLimit
    newGripes, \* World.newGripes, not yet written
    diskItem,  \* the store's rows
    diskGripe,
    eng,       \* where the world goroutine is
    asker,     \* whose flush it is writing
    snap,      \* the Snapshot handed to the persister
    ops,       \* Engine.ops, as operation numbers in order
    flushNow,  \* Engine.flushNow, capacity one
    done,      \* Engine.done is closed
    cancelled, \* the context Run was given is cancelled
    exit,      \* what Run returned
    pc,        \* where each caller is
    call,      \* what it called last
    ret,       \* and what that returned
    mine,      \* the operation a Do is waiting for
    opNo,      \* how many operations the queue accepted this boot
    gripeNo, failures, boots,  \* counters the bounds are about
    applied,   \* history: operations that ran this boot
    late,      \* history: operations accepted after done was closed
    owed,      \* history: what was unsaved when a caller asked for a flush
    dropped    \* history: gripes in a snapshot that was not written

worldVars == <<mem, dirty, shown, newGripes>>
diskVars  == <<diskItem, diskGripe>>
engVars   == <<eng, asker, snap, done, exit>>
callVars  == <<pc, call, ret, mine>>
histVars  == <<opNo, applied, late, owed, dropped>>
countVars == <<gripeNo, failures, boots>>
vars == <<worldVars, diskVars, engVars, ops, flushNow, cancelled, callVars,
          histVars, countVars>>

-------------------------------------------------------------------------------

EngineAt == {"boot", "select", "flush", "writing", "drain", "stopped", "down"}
CallerAt == {"idle", "go_send", "do_send", "do_wait", "flush_send", "flush_wait"}
Returned == {"none", "nil", "stopped", "ctx", "err"}
Called   == {"none", "go", "do", "flush"}

Snapshots == [item : SUBSET Item, val : [Item -> Value], gripe : Seq(Nat)]

\* The last n of a sequence: how AddGripe and SetGripes trim the list.
Newest(n, s) == IF Len(s) > n THEN SubSeq(s, Len(s) - n + 1, Len(s)) ELSE s

Elements(s) == {s[k] : k \in DOMAIN s}

Alive == eng # "down"

Init ==
    /\ \E v \in Value \ Unstorable : mem = [i \in Item |-> v]
    /\ diskItem = mem
    /\ dirty = {} /\ shown = <<>> /\ newGripes = <<>> /\ diskGripe = <<>>
    /\ eng = "boot" /\ asker = Nobody /\ done = FALSE /\ exit = "none"
    /\ snap = [item |-> {}, val |-> mem, gripe |-> <<>>]
    /\ ops = <<>> /\ flushNow = <<>> /\ cancelled = FALSE
    /\ pc = [c \in Caller |-> "idle"] /\ call = [c \in Caller |-> "none"]
    /\ ret = [c \in Caller |-> "none"] /\ mine = [c \in Caller |-> 0]
    /\ opNo = 0 /\ applied = {} /\ late = {} /\ owed = [c \in Caller |-> {}]
    /\ dropped = {} /\ gripeNo = 0 /\ failures = 0 /\ boots = 1

-------------------------------------------------------------------------------
(* Callers: Go, Do and Flush.                                              *)

Return(c, what) == /\ pc' = [pc EXCEPT ![c] = "idle"]
                   /\ ret' = [ret EXCEPT ![c] = what]

\* The stopped() check that Go and Do open with.
Submit(c, how, next) ==
    /\ Alive /\ pc[c] = "idle" /\ how \in Uses[c] /\ opNo < MaxOps
    /\ c = Signaller => call[c] = "none"
    /\ call' = [call EXCEPT ![c] = how]
    /\ mine' = [mine EXCEPT ![c] = 0]
    /\ IF done THEN Return(c, "stopped")
               ELSE /\ pc' = [pc EXCEPT ![c] = next]
                    /\ ret' = [ret EXCEPT ![c] = "none"]
    /\ UNCHANGED <<worldVars, diskVars, engVars, ops, flushNow, cancelled,
                   histVars, countVars>>

GoCall(c) == Submit(c, "go", "go_send")
DoCall(c) == Submit(c, "do", "do_send")

\* The send case of either select.  Nothing looks at done again.
Enqueue ==
    /\ Alive /\ Len(ops) < QueueDepth
    /\ opNo' = opNo + 1
    /\ ops' = Append(ops, opNo + 1)
    /\ late' = IF done THEN late \cup {opNo + 1} ELSE late
    /\ UNCHANGED <<worldVars, diskVars, engVars, flushNow, cancelled, applied,
                   owed, dropped, countVars>>

GoSend(c) == /\ pc[c] = "go_send"
             /\ Enqueue
             /\ Return(c, "nil")
             /\ UNCHANGED <<call, mine>>

DoSend(c) == /\ pc[c] = "do_send"
             /\ Enqueue
             /\ pc' = [pc EXCEPT ![c] = "do_wait"]
             /\ mine' = [mine EXCEPT ![c] = opNo + 1]
             /\ UNCHANGED <<call, ret>>

\* apply closed op.done.
DoDone(c) == /\ Alive /\ pc[c] = "do_wait" /\ mine[c] \in applied
             /\ Return(c, "nil")
             /\ UNCHANGED <<worldVars, diskVars, engVars, ops, flushNow,
                            cancelled, call, mine, histVars, countVars>>

\* The <-e.done case of every select but the one Flush waits in.
Refused(c) == /\ Alive /\ done
              /\ pc[c] \in {"go_send", "do_send", "do_wait", "flush_send"}
              /\ Return(c, "stopped")
              /\ UNCHANGED <<worldVars, diskVars, engVars, ops, flushNow,
                             cancelled, call, mine, histVars, countVars>>

\* Flush has no stopped() check of its own.
FlushCall(c) ==
    /\ Alive /\ pc[c] = "idle" /\ "flush" \in Uses[c]
    /\ pc' = [pc EXCEPT ![c] = "flush_send"]
    /\ call' = [call EXCEPT ![c] = "flush"]
    /\ ret' = [ret EXCEPT ![c] = "none"]
    /\ owed' = [owed EXCEPT ![c] = dirty \cup snap.item]
    /\ UNCHANGED <<worldVars, diskVars, engVars, ops, flushNow, cancelled,
                   mine, opNo, applied, late, dropped, countVars>>

FlushSend(c) ==
    /\ Alive /\ pc[c] = "flush_send" /\ flushNow = <<>>
    /\ flushNow' = <<c>>
    /\ pc' = [pc EXCEPT ![c] = "flush_wait"]
    /\ UNCHANGED <<worldVars, diskVars, engVars, ops, cancelled, call, ret,
                   mine, histVars, countVars>>

\* The caller's own context ends.  Its reply channel is buffered, so the
\* engine's answer goes nowhere.  The Signaller waits on Background.
GiveUp(c) ==
    /\ Alive /\ c # Signaller
    /\ pc[c] \in {"do_send", "do_wait", "flush_send", "flush_wait"}
    /\ Return(c, "ctx")
    /\ flushNow' = [k \in DOMAIN flushNow |->
                       IF flushNow[k] = c THEN Nobody ELSE flushNow[k]]
    /\ asker' = IF asker = c THEN Nobody ELSE asker
    /\ UNCHANGED <<worldVars, diskVars, eng, snap, done, exit, ops, cancelled,
                   call, mine, histVars, countVars>>

\* serve's signal goroutine: AnnounceShutdown is a Do, and only when it has
\* returned does stopWorld cancel the world's context.
SignalStop ==
    /\ Alive /\ pc[Signaller] = "idle" /\ call[Signaller] = "do"
    /\ ~cancelled
    /\ cancelled' = TRUE
    /\ UNCHANGED <<worldVars, diskVars, engVars, ops, flushNow, callVars,
                   histVars, countVars>>

-------------------------------------------------------------------------------
(* The world goroutine.                                                    *)

\* Touch and Modified: what changes is marked for writing.
Write(I, f) == /\ mem' = [i \in Item |-> IF i \in I THEN f[i] ELSE mem[i]]
               /\ dirty' = dirty \cup I

AddGripe == /\ gripeNo < MaxGripes
            /\ gripeNo' = gripeNo + 1
            /\ shown' = Newest(GripeLimit, Append(shown, gripeNo + 1))
            /\ newGripes' = Append(newGripes, gripeNo + 1)

\* Code running on the world goroutine: it changes some items, and may
\* record a gripe.  A recovered panic is one that changed fewer.
Mutate == /\ \E I \in SUBSET Item : \E f \in [I -> Value] : Write(I, f)
          /\ AddGripe \/ UNCHANGED <<gripeNo, shown, newGripes>>

\* apply: the operation runs and op.done is closed.
ApplyHead == /\ ops # <<>>
             /\ ops' = Tail(ops)
             /\ applied' = applied \cup {Head(ops)}

\* Run's <-e.ops case, with the onEachOp callback after it.  The operation
\* may be @shutdown, which cancels the context itself.
Apply ==
    /\ eng = "select"
    /\ ApplyHead
    /\ Mutate
    /\ cancelled' \in {cancelled, TRUE}
    /\ UNCHANGED <<diskVars, engVars, flushNow, callVars, opNo, late, owed,
                   dropped, failures, boots>>

\* Run's <-ticker.C case up to the flush: the onTick callback.
Tick ==
    /\ eng = "select"
    /\ Mutate
    /\ eng' = "flush" /\ asker' = Nobody
    /\ UNCHANGED <<diskVars, snap, done, exit, ops, flushNow, cancelled,
                   callVars, histVars, failures, boots>>

\* Run's <-e.flushNow case.
TakeFlush ==
    /\ eng = "select" /\ flushNow # <<>>
    /\ asker' = Head(flushNow) /\ flushNow' = Tail(flushNow)
    /\ eng' = "flush"
    /\ UNCHANGED <<worldVars, diskVars, snap, done, exit, ops, cancelled,
                   callVars, histVars, countVars>>

\* A shutdown that forgets to close done.
MutantDoneLeftOpen ==
    /\ eng = "select" /\ cancelled
    /\ eng' = "drain"
    /\ UNCHANGED <<worldVars, diskVars, asker, snap, done, exit, ops, flushNow,
                   cancelled, callVars, histVars, countVars>>

\* Run's <-ctx.Done() case: shutdown refuses new work before it drains.
BeginShutdown ==
    /\ eng = "select" /\ cancelled
    /\ done' = TRUE /\ eng' = "drain"
    /\ UNCHANGED <<worldVars, diskVars, asker, snap, exit, ops, flushNow,
                   cancelled, callVars, histVars, countVars>>

Drain ==
    /\ eng = "drain"
    /\ ApplyHead
    /\ Mutate
    /\ UNCHANGED <<diskVars, engVars, flushNow, cancelled, callVars, opNo,
                   late, owed, dropped, failures, boots>>

\* setSysInt on #0: a stamp does not shorten a path that is already there.
Stamped == IF mem[Root] \in Unstorable THEN {mem[Root]} ELSE Value \ Unstorable

\* A shutdown that does not look at the queue.
MutantNoDrain ==
    /\ eng = "drain"
    /\ \E v \in Stamped : Write({Root}, [i \in {Root} |-> v])
    /\ eng' = "flush" /\ asker' = Nobody
    /\ UNCHANGED <<shown, newGripes, diskVars, snap, done, exit, ops, flushNow,
                   cancelled, callVars, histVars, countVars>>

\* The drain loop's default case: RecordShutdown, then the final flush.
Drained ==
    /\ eng = "drain" /\ ops = <<>>
    /\ \E v \in Stamped : Write({Root}, [i \in {Root} |-> v])
    /\ eng' = "flush" /\ asker' = Nobody
    /\ UNCHANGED <<shown, newGripes, diskVars, snap, done, exit, ops, flushNow,
                   cancelled, callVars, histVars, countVars>>

MutantPendingMissesRoot == dirty \ {Root} # {} \/ newGripes # <<>>

HasPending == dirty # {} \/ newGripes # <<>>

\* A flush is over: the asker, if it is still there, gets its answer, and a
\* flush made after done was closed was the last thing Run does.
Finish(result) ==
    /\ eng' = IF done THEN "stopped" ELSE "select"
    /\ exit' = IF done THEN result ELSE exit
    /\ asker' = Nobody
    /\ snap' = [item |-> {}, val |-> snap.val, gripe |-> <<>>]
    /\ IF asker \in Caller THEN Return(asker, result) ELSE UNCHANGED <<pc, ret>>
    /\ UNCHANGED <<done, call, mine>>

NothingToFlush ==
    /\ eng = "flush" /\ ~HasPending
    /\ Finish("nil")
    /\ UNCHANGED <<worldVars, diskVars, ops, flushNow, cancelled, histVars,
                   countVars>>

\* RecordLastDump stamps #0, then TakeSnapshot copies out and clears.
Snapshot ==
    /\ eng = "flush" /\ HasPending
    /\ \E v \in Stamped : mem' = [mem EXCEPT ![Root] = v]
    /\ snap' = [item |-> dirty \cup {Root}, val |-> mem', gripe |-> newGripes]
    /\ dirty' = {} /\ newGripes' = <<>>
    /\ eng' = "writing"
    /\ UNCHANGED <<shown, diskVars, asker, done, exit, ops, flushNow,
                   cancelled, callVars, histVars, countVars>>

Storable == \A i \in snap.item : snap.val[i] \notin Unstorable

\* Store.Flush: one transaction rewrites the items and appends the gripes.
Commit ==
    /\ Storable
    /\ diskItem' = [i \in Item |-> IF i \in snap.item THEN snap.val[i]
                                                      ELSE diskItem[i]]
    /\ diskGripe' = diskGripe \o snap.gripe
    /\ owed' = [c \in Caller |-> owed[c] \ snap.item]

MutantNoTransaction ==
    \E I \in SUBSET snap.item :
        /\ diskItem' = [i \in Item |-> IF i \in I THEN snap.val[i]
                                                 ELSE diskItem[i]]
        /\ UNCHANGED <<diskGripe, owed>>

RolledBack == UNCHANGED <<diskVars, owed>>

WriteOk ==
    /\ eng = "writing"
    /\ Commit
    /\ Finish("nil")
    /\ UNCHANGED <<worldVars, ops, flushNow, cancelled, opNo, applied, late,
                   dropped, countVars>>

\* requeue: everything the snapshot took is marked again, bar the gripes.
MutantRequeueForgets == dirty' = dirty

Requeue == dirty' = dirty \cup snap.item

\* The write reports an error: the database refused or was away, the commit
\* went through but its answer was lost, the batch holds something the store
\* refuses, or the context the tick's flush was given has been cancelled.
WriteFails ==
    /\ eng = "writing"
    /\ \/ failures < MaxFailures /\ failures' = failures + 1
       \/ ~Storable /\ UNCHANGED failures
       \/ cancelled /\ ~done /\ UNCHANGED failures
    /\ \/ Commit /\ UNCHANGED dropped
       \/ RolledBack /\ dropped' = dropped \cup Elements(snap.gripe)
    /\ Requeue
    /\ Finish("err")
    /\ UNCHANGED <<mem, shown, newGripes, ops, flushNow, cancelled, opNo,
                   applied, late, gripeNo, boots>>

-------------------------------------------------------------------------------
(* The process: crash, exit and the next boot.                             *)

Crash ==
    /\ eng \notin {"down", "stopped"} /\ boots < MaxBoots
    /\ (eng = "writing" /\ Commit) \/ RolledBack
    /\ eng' = "down"
    /\ snap' = [item |-> {}, val |-> snap.val, gripe |-> <<>>]
    /\ UNCHANGED <<worldVars, asker, done, exit, ops, flushNow, cancelled,
                   callVars, opNo, applied, late, dropped, countVars>>

\* serve: load everything from the store, and make a new Engine.
Load ==
    /\ eng \in {"down", "stopped"} /\ boots < MaxBoots
    /\ boots' = boots + 1
    /\ mem' = diskItem /\ dirty' = {}
    /\ shown' = Newest(GripeLimit, diskGripe) /\ newGripes' = <<>>
    /\ eng' = "boot" /\ asker' = Nobody /\ done' = FALSE /\ exit' = "none"
    /\ snap' = [item |-> {}, val |-> diskItem, gripe |-> <<>>]
    /\ ops' = <<>> /\ flushNow' = <<>> /\ cancelled' = FALSE
    /\ pc' = [c \in Caller |-> "idle"] /\ call' = [c \in Caller |-> "none"]
    /\ ret' = [c \in Caller |-> "none"] /\ mine' = [c \in Caller |-> 0]
    /\ opNo' = 0 /\ applied' = {} /\ late' = {} /\ owed' = [c \in Caller |-> {}]
    /\ dropped' = {}
    /\ UNCHANGED <<diskVars, gripeNo, failures>>

\* Run's first act, WriteBootProps on #0; RepairChains may have rebuilt
\* other objects on the way.
Start ==
    /\ eng = "boot"
    /\ eng' = "select"
    /\ \E I \in SUBSET Item : \E f \in [I \cup {Root} -> Value \ Unstorable] :
          Write(I \cup {Root}, f)
    /\ UNCHANGED <<shown, newGripes, diskVars, asker, snap, done, exit, ops,
                   flushNow, cancelled, callVars, histVars, countVars>>

-------------------------------------------------------------------------------

CallerStep(c) ==
    \/ GoCall(c) \/ GoSend(c)
    \/ DoCall(c) \/ DoSend(c) \/ DoDone(c)
    \/ FlushCall(c) \/ FlushSend(c)
    \/ Refused(c) \/ GiveUp(c)

EngineStep ==
    \/ Start \/ Apply \/ Tick \/ TakeFlush
    \/ NothingToFlush \/ Snapshot \/ WriteOk \/ WriteFails
    \/ BeginShutdown \/ Drain \/ Drained

Next == \/ \E c \in Caller : CallerStep(c)
        \/ SignalStop
        \/ EngineStep
        \/ Crash \/ Load

Spec == Init /\ [][Next]_vars

-------------------------------------------------------------------------------
(* Fairness.  The world goroutine is never starved, and Go's select picks at *)
(* random among ready cases, so a case that is ready again and again is      *)
(* chosen: strong fairness for the cases of Run's select.  A write ends      *)
(* (the driver answers or the final flush's 30 seconds run out), and the     *)
(* store does not refuse for ever what it can hold.                          *)

FairEngine ==
    /\ WF_vars(Start \/ NothingToFlush \/ Snapshot \/ Drain \/ Drained)
    /\ SF_vars(Apply) /\ SF_vars(Tick) /\ SF_vars(TakeFlush)
    /\ SF_vars(BeginShutdown)

FairStore == WF_vars(WriteOk \/ WriteFails) /\ SF_vars(WriteOk)

\* A caller that is ready to go on goes on.
FairCallers ==
    \A c \in Caller :
        /\ SF_vars(GoSend(c) \/ DoSend(c) \/ FlushSend(c))
        /\ WF_vars(DoDone(c) \/ Refused(c))

FairSpec == Spec /\ FairEngine /\ FairStore /\ FairCallers

-------------------------------------------------------------------------------
(* Properties.                                                             *)

\* Every variable holds what the code's types say it can.
WorldType == /\ mem \in [Item -> Value] /\ dirty \in SUBSET Item
             /\ shown \in Seq(Nat) /\ newGripes \in Seq(Nat)
             /\ gripeNo \in Nat

StoreType == /\ diskItem \in [Item -> Value] /\ diskGripe \in Seq(Nat)
             /\ owed \in [Caller -> SUBSET Item]

EngineType == /\ eng \in EngineAt /\ asker \in Caller \cup {Nobody}
              /\ snap \in Snapshots
              /\ done \in BOOLEAN /\ exit \in {"none", "nil", "err"}

QueueType == /\ ops \in Seq(Nat) /\ applied \in SUBSET Nat
             /\ flushNow \in Seq(Caller \cup {Nobody}) /\ Len(flushNow) <= 1

CallerType == /\ pc \in [Caller -> CallerAt] /\ call \in [Caller -> Called]
              /\ ret \in [Caller -> Returned] /\ mine \in [Caller -> Nat]

CountType == /\ opNo \in Nat /\ failures \in Nat /\ boots \in Nat
             /\ late \in SUBSET Nat /\ dropped \in SUBSET Nat
             /\ cancelled \in BOOLEAN

TypeOK == /\ WorldType /\ StoreType /\ EngineType
          /\ QueueType /\ CallerType /\ CountType

\* Whatever the store does not hold is marked, or in the snapshot being
\* written: no failed write, panic, drain or reload loses track of an item
\* (engine.go's requeue: "rather than dropping changes on the floor").
WriteBehindComplete ==
    eng # "down" =>
        \A i \in Item : mem[i] # diskItem[i] => i \in dirty \cup snap.item

\* A nil from Flush, which is "Done." after @dump, means that all that was
\* unsaved when it was called is in the store now.
FlushNilMeansDurable ==
    \A c \in Caller :
        call[c] = "flush" /\ ret[c] = "nil" => owed[c] = {}

DoNilMeansApplied ==
    \A c \in Caller :
        call[c] = "do" /\ ret[c] = "nil" =>
            mine[c] \in applied /\ mine[c] \notin Elements(ops)

AcceptedBeforeStopRuns ==
    eng = "stopped" => (1..opNo) \ late \subseteq applied

CleanExitDurable ==
    eng = "stopped" /\ exit = "nil" =>
        /\ dirty = {} /\ newGripes = <<>>
        /\ mem = diskItem

GripesMatchRows ==
    Alive /\ dropped = {} =>
        shown = Newest(GripeLimit, diskGripe \o snap.gripe \o newGripes)

\* What the engine says of the store is so: a nil from Flush, which is "Done."
\* after @dump, means that all that was unsaved when it was called is there now;
\* a Run that returns nil has written everything, the shutdown stamp included;
\* and the gripes a wizard reads are the newest of the rows the store has or is
\* still to be given, as long as no write has been rolled back.
SaidIsSaved == FlushNilMeansDurable /\ CleanExitDurable /\ GripesMatchRows

\* A nil from Do means that the operation ran, once; and what was accepted
\* before done was closed has run by the time Run returns (shutdown's drain), in
\* whatever order callers, ticks and flushes came.
AcceptedWorkRuns == DoNilMeansApplied /\ AcceptedBeforeStopRuns

\* What makes the two above inductive.  The world stands still while a
\* snapshot of it is written; a waiting caller's request is where exactly
\* one answer will come from; what it is owed is marked or being written.
SnapshotIsWorld ==
    /\ eng # "writing" => snap.item = {}
    /\ eng = "writing" => snap.val = mem /\ dirty = {}

CallMatches ==
    \A c \in Caller : /\ pc[c] = "go_send" => call[c] = "go"
                      /\ pc[c] \in {"do_send", "do_wait"} => call[c] = "do"

OneAnswerDue ==
    /\ asker \in Caller => pc[asker] = "flush_wait"
                           /\ \A k \in DOMAIN flushNow : flushNow[k] # asker
    /\ \A k \in DOMAIN flushNow :
          flushNow[k] \in Caller => pc[flushNow[k]] = "flush_wait"

OwedIsPending ==
    \A c \in Caller :
        Alive /\ pc[c] \in {"flush_send", "flush_wait"} =>
            owed[c] \subseteq dirty \cup snap.item

EngineInv ==
    /\ WriteBehindComplete /\ FlushNilMeansDurable
    /\ SnapshotIsWorld /\ CallMatches /\ OneAnswerDue /\ OwedIsPending

\* Operations are numbered as the queue takes them: the last of them are still
\* in it, in order, and all before those have run.
QueueInOrder ==
    /\ Len(ops) <= opNo
    /\ applied = 1..(opNo - Len(ops))
    /\ \A k \in DOMAIN ops : ops[k] = opNo - Len(ops) + k

\* A caller inside a call has not been answered; one inside Flush called Flush.
Unanswered ==
    \A c \in Caller :
        /\ pc[c] # "idle" => ret[c] = "none"
        /\ pc[c] \in {"flush_send", "flush_wait"} => call[c] = "flush"

\* done is closed when Run leaves its loop and not before, and once the drain
\* has found the queue empty all that gets into it is late.
StopsInOrder ==
    /\ eng \in {"boot", "select"} => ~done
    /\ eng \in {"drain", "stopped"} => done
    /\ done /\ eng \in {"flush", "writing", "stopped"} => Elements(ops) \subseteq late

WorkInv == QueueInOrder /\ Unanswered /\ StopsInOrder /\ AcceptedWorkRuns

\* Gripes are in the snapshot only while it is written, and none is made then.
GripesAreSomewhere ==
    /\ eng # "writing" => snap.gripe = <<>>
    /\ eng = "writing" => newGripes = <<>>

SavedInv == GripesAreSomewhere /\ SaidIsSaved

\* The detailed engine keeps the promise of DurableWorld.
Durable == INSTANCE DurableWorld WITH mem <- mem, disk <- diskItem
DurableSpec == Durable!Spec

\* Once told to stop the engine stops; and no Do without a deadline waits for
\* ever, and no Go, whether the queue is full or the engine gone.
EveryoneReturns ==
    /\ cancelled ~> eng \in {"stopped", "down"}
    /\ \A c \in Caller :
          pc[c] \in {"go_send", "do_send", "do_wait"} ~>
              (pc[c] = "idle" \/ ~Alive)

\* A change does not stay out of the store for ever while the server runs.
EveryChangeLands ==
    \A i \in Item :
        (eng = "select" /\ mem[i] # diskItem[i])
            ~> (mem[i] = diskItem[i] \/ eng \in {"stopped", "down"})
===============================================================================
