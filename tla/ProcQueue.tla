------------------------------- MODULE ProcQueue -------------------------------
(***************************************************************************)
(* internal/game/proc.go and proc_host.go: the suspended MUF programs, and *)
(* everything that resumes, wakes, watches or kills one.                   *)
(*                                                                         *)
(* All of it runs on the world goroutine, so nothing interleaves; but a    *)
(* running program calls back into the queue, and waking or killing        *)
(* another process runs that one, or its watchers, before the call         *)
(* returns.  `stack` is therefore the goroutine's call stack, and a loop   *)
(* of the code that may run a program in its body is an activation on it,  *)
(* with the snapshot the loop ranges over.                                 *)
(*                                                                         *)
(* What a program computes is left out: at each step it may use any of the *)
(* primitives that reach the queue, suspend, or end.  A stack overflow on  *)
(* the value a resume pushes is a program that ends at once.               *)
(***************************************************************************)
EXTENDS Naturals, Sequences, FiniteSets

CONSTANTS
    Descr,        \* connections: every process holds one that is not 0
    Timer,        \* TIMER_START names
    Filters,      \* what an EVENT_WAITFOR may list; {} is "any event"
    MaxProcesses, \* tune max_process_limit
    Queued,       \* processes in the queue to begin with, at most
    MaxPid,       \* bound: processes ever made
    MaxOps        \* bound: operations and primitives

ASSUME ProcQueueAssumption ==
    /\ Descr \subseteq Nat \ {0} /\ Descr # {}
    /\ MaxProcesses \in Nat /\ Queued \in 0..MaxPid /\ MaxPid \in Nat /\ MaxOps \in Nat

VARIABLES
    next,    \* procQueue.next, the last process id given out
    live,    \* the keys of procQueue.procs
    reading, \* procQueue.reading: descriptor to pid, 0 for no entry
    state, filter, timers, waitees, descr,  \* process's fields
    waiters, \* process.waiters, a slice: the array it is in and its length
    heap,    \* the arrays behind those slices, as long as their capacity
    pending, \* Frame.PendingEvents
    stack,   \* the world goroutine's activations, innermost first
    ops,     \* the counter MaxOps bounds
    asked,   \* history: <<w, p>> when w watched p and has not been told
    owed,    \* history: those of them asked before p began to end
    gone     \* history: what had ended before this operation began

procVars == <<state, filter, timers, waitees, descr, waiters, heap, pending>>
histVars == <<asked, owed, gone>>
vars == <<next, live, reading, procVars, stack, ops, histVars>>

-------------------------------------------------------------------------------

Pid    == 1..MaxPid
States == {"runnable", "sleeping", "reading", "waiting"}

Exit(p)  == <<"PROC.EXIT", p>>
Fired(t) == <<"TIMER", t>>
User     == <<"USER", 0>>
Event    == {Exit(p) : p \in Pid} \cup {Fired(t) : t \in Timer} \cup {User}

Matches(e, F) == F = {} \/ e \in F

Run(p)       == [at |-> "run", pid |-> p]
Ending(p, k) == [at |-> "finish", pid |-> p, k |-> k,
                 arr |-> waiters[p].arr, len |-> waiters[p].len]
Sweeping(s)  == [at |-> "sweep", todo |-> s]
Timing(s, p, fired) == [at |-> "timers", todo |-> s, pid |-> p, due |-> fired]
Resuming(s)  == [at |-> "due", todo |-> s]

Rest     == stack = <<>>
Top      == Head(stack)
Below    == Tail(stack)
Doing(a) == stack # <<>> /\ Top.at = a

\* A process's program has the processor.
Running(p) == Doing("run") /\ Top.pid = p

\* all, due, forProgram and forPlayer list processes in pid order.
PidOrder(S) == CHOOSE s \in [1..Cardinality(S) -> S] :
                   \A i, j \in 1..Cardinality(S) : i < j => s[i] < s[j]

\* Some order of a set: a process's timers are in the order they were set.
Orders(S) == {s \in [1..Cardinality(S) -> S] :
                  \A i, j \in 1..Cardinality(S) : i # j => s[i] # s[j]}

\* A program has forked, and it and its children have yielded.
Init ==
    /\ next \in 0..Queued /\ live = 1..next
    /\ reading = [d \in Descr |-> 0]
    /\ state = [p \in Pid |-> "runnable"] /\ filter = [p \in Pid |-> {}]
    /\ timers = [p \in Pid |-> {}] /\ waitees = [p \in Pid |-> {}]
    /\ descr = [p \in Pid |-> CHOOSE d \in Descr : TRUE]
    /\ waiters = [p \in Pid |-> [arr |-> p, len |-> 0]]
    /\ heap = [p \in Pid |-> <<>>]
    /\ pending = [p \in Pid |-> <<>>]
    /\ stack = <<>> /\ ops = 0
    /\ asked = {} /\ owed = {} /\ gone = {}

-------------------------------------------------------------------------------
(* The waiters slice, as Go's append and removePID leave it.               *)

Cells(w) == SubSeq(heap[w.arr], 1, w.len)

Watching(w) == {Cells(w)[k] : k \in 1..w.len}

\* append: in place while there is room, else into an array twice the size.
AppendWaiter(q, w) ==
    LET s == waiters[q]
    IN  IF s.len < Len(heap[s.arr])
        THEN /\ heap' = [heap EXCEPT ![s.arr][s.len + 1] = w]
             /\ waiters' = [waiters EXCEPT ![q].len = s.len + 1]
        ELSE /\ heap' = Append(heap, Append(heap[s.arr], w)
                                     \o [k \in 1..(s.len - 1) |-> 0])
             /\ waiters' = [waiters EXCEPT ![q] =
                               [arr |-> Len(heap) + 1, len |-> s.len + 1]]

\* removePID shifts the array itself, under a loop that is ranging over it.
ShiftOut(s, n, w) ==
    LET at == CHOOSE k \in 1..n : s[k] = w /\ \A j \in 1..(k - 1) : s[j] # w
    IN  [k \in DOMAIN s |-> IF k >= at /\ k < n THEN s[k + 1] ELSE s[k]]

RemoveWaiter(S, w) ==
    LET held == {q \in S : w \in Watching(waiters[q])}
        arr  == {waiters[q].arr : q \in held}
    IN  /\ waiters' = [q \in Pid |-> IF q \in held
                                     THEN [waiters[q] EXCEPT !.len = @ - 1]
                                     ELSE waiters[q]]
        /\ heap' = [a \in DOMAIN heap |->
                       IF \E q \in held : waiters[q].arr = a
                       THEN LET q == CHOOSE q \in held : waiters[q].arr = a
                            IN  ShiftOut(heap[a], waiters[q].len, w)
                       ELSE heap[a]]

-------------------------------------------------------------------------------
(* What the queue does for its callers.  `rest` is the stack they return to. *)

\* deliverEvent: a process blocked on a matching EVENT_WAITFOR runs at once;
\* any other finds the event when it next blocks.  The target is a pointer,
\* so nothing here asks whether it is still in the queue.
MutantStillWaiting(q, e, rest) ==
    IF state[q] = "waiting" /\ Matches(e, filter[q])
    THEN /\ stack' = <<Run(q)>> \o rest
         /\ UNCHANGED <<state, pending>>
    ELSE /\ pending' = [pending EXCEPT ![q] = Append(@, e)]
         /\ stack' = rest
         /\ UNCHANGED state

Deliver(q, e, rest) ==
    IF state[q] = "waiting" /\ Matches(e, filter[q])
    THEN /\ state' = [state EXCEPT ![q] = "runnable"]
         /\ stack' = <<Run(q)>> \o rest
         /\ UNCHANGED pending
    ELSE /\ pending' = [pending EXCEPT ![q] = Append(@, e)]
         /\ stack' = rest
         /\ UNCHANGED state

\* resume: whatever it waited for is over, and it runs.
Resume(p, rest) ==
    /\ reading' = IF state[p] = "reading"
                  THEN [reading EXCEPT ![descr[p]] = 0] ELSE reading
    /\ state' = [state EXCEPT ![p] = "runnable"]
    /\ stack' = <<Run(p)>> \o rest

\* finishProcess, up to its loop over the waiters: it leaves the lists of
\* those it was watching.
Finish(p, rest) ==
    /\ RemoveWaiter(waitees[p] \cap live, p)
    /\ stack' = <<Ending(p, 1)>> \o rest

\* add, for a process on connection d.
AddProcess(s, d) ==
    /\ next < MaxPid
    /\ next' = next + 1
    /\ live' = live \cup {next + 1}
    /\ state' = [state EXCEPT ![next + 1] = s]
    /\ descr' = [descr EXCEPT ![next + 1] = d]

\* processLimitOK, taken before the new process is counted.
LimitOK == Cardinality(live) <= MaxProcesses

-------------------------------------------------------------------------------
(* Operations of the world goroutine, and the loops they leave running.    *)

Use == ops < MaxOps /\ ops' = ops + 1

Begin == Rest /\ Use /\ gone' = (1..next) \ live

\* runProgram: a command, or a FORCE from a running program.
RunProgram(d) ==
    /\ \/ Begin
       \/ Doing("run") /\ Use /\ UNCHANGED gone
    /\ AddProcess("runnable", d)
    /\ stack' = <<Run(next + 1)>> \o stack
    /\ UNCHANGED <<reading, filter, timers, waitees, waiters, heap, pending,
                   asked, owed>>

\* readerFor: 0 when there is none.
ReaderFor(d) == IF reading[d] \in live THEN reading[d] ELSE 0

\* readInput: the line resumes the reader.
ReadInput(d) ==
    /\ Begin
    /\ ReaderFor(d) # 0
    /\ Resume(ReaderFor(d), <<>>)
    /\ UNCHANGED <<next, live, filter, timers, waitees, descr, waiters, heap,
                   pending, asked, owed>>

\* killProcessesFor, killProcessesOf, abortForegroundFor, and @kill of one:
\* the processes of a player or a program, whichever those are, listed once.
KillSweep(S) ==
    /\ \/ Begin
       \/ Doing("run") /\ Use /\ UNCHANGED gone
    /\ stack' = <<Sweeping(PidOrder(S))>> \o stack
    /\ UNCHANGED <<next, live, reading, procVars, asked, owed>>

SweepNext ==
    /\ Doing("sweep") /\ Top.todo # <<>>
    /\ Finish(Head(Top.todo), <<Sweeping(Tail(Top.todo))>> \o Below)
    /\ UNCHANGED <<next, live, reading, state, filter, timers, waitees, descr,
                   pending, ops, histVars>>

SweepEnds ==
    /\ Doing("sweep") /\ Top.todo = <<>>
    /\ stack' = Below
    /\ UNCHANGED <<next, live, reading, procVars, ops, histVars>>

\* Tick, as far as this queue goes: fireTimers, then what is due.
Tick ==
    /\ Begin
    /\ stack' = <<Timing(PidOrder(live), 0, <<>>)>>
    /\ UNCHANGED <<next, live, reading, procVars, asked, owed>>

\* The next process in fireTimers' snapshot: some of its timers have come due.
TimersOf ==
    /\ Doing("timers") /\ Top.due = <<>> /\ Top.todo # <<>>
    /\ LET p == Head(Top.todo)
       IN  \E D \in SUBSET timers[p] : \E fired \in Orders(D) :
              /\ timers' = [timers EXCEPT ![p] = @ \ D]
              /\ stack' = <<Timing(Tail(Top.todo), p, fired)>> \o Below
    /\ UNCHANGED <<next, live, reading, state, filter, waitees, descr, waiters,
                   heap, pending, ops, histVars>>

FireTimer ==
    /\ Doing("timers") /\ Top.due # <<>>
    /\ Deliver(Top.pid, Fired(Head(Top.due)),
               <<Timing(Top.todo, Top.pid, Tail(Top.due))>> \o Below)
    /\ UNCHANGED <<next, live, reading, filter, timers, waitees, descr, waiters,
                   heap, ops, histVars>>

\* due: the runnable, and the sleepers whose time has come.
ListDue ==
    /\ Doing("timers") /\ Top.due = <<>> /\ Top.todo = <<>>
    /\ \E S \in SUBSET {p \in live : state[p] = "sleeping"} :
          stack' = <<Resuming(PidOrder({p \in live : state[p] = "runnable"}
                                           \cup S))>> \o Below
    /\ UNCHANGED <<next, live, reading, procVars, ops, histVars>>

ResumeDue ==
    /\ Doing("due") /\ Top.todo # <<>>
    /\ Resume(Head(Top.todo), <<Resuming(Tail(Top.todo))>> \o Below)
    /\ UNCHANGED <<next, live, filter, timers, waitees, descr, waiters, heap,
                   pending, ops, histVars>>

TickEnds ==
    /\ Doing("due") /\ Top.todo = <<>>
    /\ stack' = Below
    /\ UNCHANGED <<next, live, reading, procVars, ops, histVars>>

Told(w, p) == /\ asked' = asked \ {<<w, p>>}
              /\ owed' = owed \ {<<w, p>>}

BeingEnded(p) == \E k \in DOMAIN stack : stack[k].at = "finish" /\ stack[k].pid = p

\* finishProcess's loop over the waiters, by index into the array.
NotifyWaiter ==
    /\ Doing("finish") /\ Top.k <= Top.len
    /\ LET w == heap[Top.arr][Top.k]
           rest == <<[Top EXCEPT !.k = @ + 1]>> \o Below
       IN  IF w \in live
           THEN /\ waitees' = [waitees EXCEPT ![w] = @ \ {Top.pid}]
                /\ Deliver(w, Exit(Top.pid), rest)
                /\ Told(w, Top.pid)
           ELSE /\ stack' = rest
                /\ UNCHANGED <<state, pending, waitees, asked, owed>>
    /\ UNCHANGED <<next, live, reading, filter, timers, descr, waiters, heap,
                   ops, gone>>

\* finishProcess's last act, remove: nothing if it has gone already.
Remove ==
    /\ Doing("finish") /\ Top.k > Top.len
    /\ stack' = Below
    /\ live' = live \ {Top.pid}
    /\ reading' = IF Top.pid \in live /\ state[Top.pid] = "reading"
                  THEN [reading EXCEPT ![descr[Top.pid]] = 0] ELSE reading
    /\ UNCHANGED <<next, procVars, ops, histVars>>

-------------------------------------------------------------------------------
(* The running program: p is the process at the top of the stack.          *)

\* FORK and QUEUE, while there is room for one more.
Fork(p) ==
    /\ Running(p) /\ Use
    /\ LimitOK
    /\ AddProcess("runnable", descr[p])
    /\ UNCHANGED <<reading, filter, timers, waitees, waiters, heap, pending,
                   stack, histVars>>

Queue(p) ==
    /\ Running(p) /\ Use
    /\ LimitOK
    /\ AddProcess("sleeping", descr[p])
    /\ UNCHANGED <<reading, filter, timers, waitees, waiters, heap, pending,
                   stack, histVars>>

\* KILL of another process; of its own it is an end like any other.
KillPID(p, q) ==
    /\ Running(p) /\ Use
    /\ q \in live \ {p}
    /\ Finish(q, stack)
    /\ UNCHANGED <<next, live, reading, state, filter, timers, waitees, descr,
                   pending, histVars>>

\* WATCHPID as if its target were always still there.
MutantWatchTheDead(p, q) ==
    /\ Running(p) /\ Use /\ q \in (1..next) \ {p}
    /\ IF p \in Watching(waiters[q])
       THEN UNCHANGED <<waiters, heap, waitees>>
       ELSE /\ AppendWaiter(q, p)
            /\ waitees' = [waitees EXCEPT ![p] = @ \cup {q}]
    /\ asked' = asked \cup {<<p, q>>}
    /\ owed' = IF BeingEnded(q) THEN owed ELSE owed \cup {<<p, q>>}
    /\ UNCHANGED <<next, live, reading, state, filter, timers, descr, pending,
                   stack, gone>>

\* WATCHPID: of a process that has ended, the event is there at once.
WatchPID(p, q) ==
    /\ Running(p) /\ Use /\ q \in (1..next) \ {p}
    /\ IF q \in live
       THEN /\ IF p \in Watching(waiters[q])
               THEN UNCHANGED <<waiters, heap, waitees>>
               ELSE /\ AppendWaiter(q, p)
                    /\ waitees' = IF p \in live
                                  THEN [waitees EXCEPT ![p] = @ \cup {q}]
                                  ELSE waitees
            /\ asked' = asked \cup {<<p, q>>}
            /\ owed' = IF BeingEnded(q) THEN owed ELSE owed \cup {<<p, q>>}
            /\ UNCHANGED pending
       ELSE /\ pending' = [pending EXCEPT ![p] = Append(@, Exit(q))]
            /\ Told(p, q)
            /\ UNCHANGED <<waiters, heap, waitees>>
    /\ UNCHANGED <<next, live, reading, state, filter, timers, descr, stack, gone>>

\* EVENT_SEND: to itself it never leaves the frame.
SendEvent(p, q) ==
    /\ Running(p) /\ Use
    /\ IF q = p
       THEN /\ pending' = [pending EXCEPT ![p] = Append(@, User)]
            /\ UNCHANGED <<state, stack>>
       ELSE q \in live /\ Deliver(q, User, stack)
    /\ UNCHANGED <<next, live, reading, filter, timers, waitees, descr, waiters,
                   heap, histVars>>

\* TIMER_START (a second one of the same name replaces the first), TIMER_STOP.
TimerStart(p, t) ==
    /\ Running(p) /\ Use
    /\ p \in live /\ timers' = [timers EXCEPT ![p] = @ \cup {t}]
    /\ UNCHANGED <<next, live, reading, state, filter, waitees, descr, waiters,
                   heap, pending, stack, histVars>>

TimerStop(p, t) ==
    /\ Running(p) /\ Use
    /\ p \in live /\ t \in timers[p] /\ timers' = [timers EXCEPT ![p] = @ \ {t}]
    /\ UNCHANGED <<next, live, reading, state, filter, waitees, descr, waiters,
                   heap, pending, stack, histVars>>

Matching(p, F) == {k \in DOMAIN pending[p] : Matches(pending[p][k], F)}

\* blockProcess, for EVENT_WAITFOR with nothing looked up first.
MutantDeafWait(p, F) ==
    /\ Running(p)
    /\ state' = [state EXCEPT ![p] = "waiting"]
    /\ filter' = [filter EXCEPT ![p] = F]
    /\ stack' = Below
    /\ UNCHANGED <<next, live, reading, timers, waitees, descr, waiters, heap,
                   pending, ops, histVars>>

\* EVENT_WAITFOR: the oldest event that matches, or wait for one.
WaitFor(p, F) ==
    /\ Running(p)
    /\ IF Matching(p, F) # {}
       THEN /\ LET k == CHOOSE k \in Matching(p, F) :
                            \A j \in Matching(p, F) : k <= j
               IN  pending' = [pending EXCEPT ![p] =
                                  SubSeq(@, 1, k - 1) \o SubSeq(@, k + 1, Len(@))]
            /\ UNCHANGED <<state, filter, stack>>
       ELSE /\ state' = [state EXCEPT ![p] = "waiting"]
            /\ filter' = [filter EXCEPT ![p] = F]
            /\ stack' = Below
            /\ UNCHANGED pending
    /\ UNCHANGED <<next, live, reading, timers, waitees, descr, waiters, heap,
                   ops, histVars>>

\* blockProcess, for READ: it takes the connection's lines from now on,
\* whoever had them before.
Read(p) ==
    /\ Running(p)
    /\ state' = [state EXCEPT ![p] = "reading"]
    /\ reading' = [reading EXCEPT ![descr[p]] = p]
    /\ stack' = Below
    /\ UNCHANGED <<next, live, filter, timers, waitees, descr, waiters, heap,
                   pending, ops, histVars>>

\* blockProcess for SLEEP, and the slice that has run out.
Pause(p, how) ==
    /\ Running(p)
    /\ state' = [state EXCEPT ![p] = how]
    /\ stack' = Below
    /\ UNCHANGED <<next, live, reading, filter, timers, waitees, descr, waiters,
                   heap, pending, ops, histVars>>

\* It has run to its end, failed, or killed itself.
End(p) ==
    /\ Running(p)
    /\ Finish(p, Below)
    /\ UNCHANGED <<next, live, reading, state, filter, timers, waitees, descr,
                   pending, ops, histVars>>

-------------------------------------------------------------------------------

Program(p) ==
    \/ Fork(p) \/ Queue(p)
    \/ \E q \in Pid : KillPID(p, q) \/ WatchPID(p, q) \/ SendEvent(p, q)
    \/ \E t \in Timer : TimerStart(p, t) \/ TimerStop(p, t)
    \/ \E F \in Filters : WaitFor(p, F)
    \/ Read(p) \/ Pause(p, "sleeping") \/ Pause(p, "runnable")
    \/ End(p)

Loop == \/ SweepNext \/ SweepEnds
        \/ TimersOf \/ FireTimer \/ ListDue \/ ResumeDue \/ TickEnds
        \/ NotifyWaiter \/ Remove

Next == \/ \E d \in Descr : RunProgram(d) \/ ReadInput(d)
        \/ \E S \in (SUBSET live) \ {{}} : KillSweep(S)
        \/ Tick \/ Loop
        \/ \E p \in Pid : Program(p)

Spec == Init /\ [][Next]_vars

-------------------------------------------------------------------------------
(* Properties.                                                             *)

Activations == {"run", "finish", "sweep", "timers", "due"}

\* Every variable holds what the code's types say it can.
TypeOK ==
    /\ next \in 0..MaxPid /\ live \subseteq 1..next
    /\ reading \in [Descr -> 0..MaxPid]
    /\ state \in [Pid -> States] /\ filter \in [Pid -> Filters \cup {{}}]
    /\ timers \in [Pid -> SUBSET Timer] /\ waitees \in [Pid -> SUBSET Pid]
    /\ descr \in [Pid -> Descr]
    /\ \A p \in Pid : /\ waiters[p].arr \in DOMAIN heap
                      /\ waiters[p].len <= Len(heap[waiters[p].arr])
                      /\ \A k \in DOMAIN pending[p] : pending[p][k] \in Event
    /\ \A k \in DOMAIN stack : stack[k].at \in Activations
    /\ ops \in 0..MaxOps
    /\ asked \subseteq Pid \X Pid /\ owed \subseteq asked /\ gone \subseteq Pid

NoReentry ==
    \A j, k \in DOMAIN stack :
        stack[j].at = "run" /\ stack[k].at = "run" /\ j # k =>
            stack[j].pid # stack[k].pid

NoLostEvent ==
    \A p \in live : state[p] = "waiting" => Matching(p, filter[p]) = {}

ReadIndexSound ==
    \A d \in Descr : reading[d] \in live =>
        state[reading[d]] = "reading" /\ descr[reading[d]] = d

\* Whoever watched a process before it began to end, and lives, has been told
\* by the time it is out of the queue, whatever the other watchers did when
\* they were told.
WatchersAreTold ==
    Rest => \A pair \in owed : pair[1] \in live => pair[2] \in live

EndedStaysEnded ==
    \A k \in DOMAIN stack : stack[k].at = "run" => stack[k].pid \notin gone

\* deliverEvent may run a program inside another's primitive, to any depth; it
\* never enters one that is already running, whose frame it would corrupt; and
\* a process may run on for the rest of the operation in which it was ended,
\* but none that had ended before an operation began runs during it.
OneRunAtATime == TypeOK /\ NoReentry /\ EndedStaysEnded

\* No wake-up is lost or misdirected: a process blocked on an EVENT_WAITFOR has
\* no event that would satisfy it queued on its frame, for nothing scans for
\* one, and a line typed at a connection is only ever pushed on the stack of a
\* process blocked in a READ on that connection.
WakesTheRightOne == NoLostEvent /\ ReadIndexSound

\* What makes these inductive.  A process on the stack is runnable, so nothing
\* delivered to it runs it; Tick's loops are only ever the outermost; and the
\* snapshots they range over are of processes that had not ended.
Act == [at : {"run"}, pid : Pid]
       \cup [at : {"finish"}, pid : Pid, k : Nat \ {0}, arr : Nat, len : Nat]
       \cup [at : {"sweep"}, todo : Seq(Pid)]
       \cup [at : {"timers"}, todo : Seq(Pid), pid : 0..MaxPid, due : Seq(Timer)]
       \cup [at : {"due"}, todo : Seq(Pid)]

SoundIn(s, k) ==
    LET a == s[k]
    IN  /\ a.at = "run" => a.pid <= next /\ state[a.pid] = "runnable" /\ a.pid \notin gone
        /\ a.at = "finish" => a.pid <= next
        /\ a.at \in {"timers", "due"} =>
              k = Len(s) /\ \A i \in DOMAIN a.todo : a.todo[i] \in (1..next) \ gone
        /\ a.at = "sweep" => \A i \in DOMAIN a.todo : a.todo[i] <= next
        /\ a.at = "timers" => a.pid <= next /\ a.pid \notin gone
        /\ a.at = "timers" /\ a.due # <<>> => a.pid # 0

StackInv == /\ stack \in Seq(Act)
            /\ \A k \in DOMAIN stack : SoundIn(stack, k)
            /\ NoReentry

QueueInv ==
    /\ gone \subseteq (1..next) \ live
    /\ \A d \in Descr : reading[d] <= next
    /\ pending \in [Pid -> Seq(Event)]
    /\ \A p \in Pid : /\ IsFiniteSet(timers[p])
                      /\ state[p] = "waiting" => Matching(p, filter[p]) = {}

\* Each list of watchers is in an array of its own, which a process being ended
\* may range over, or over one the list has left.
SlicesInv ==
    /\ heap \in Seq(Seq(0..MaxPid)) /\ waiters \in [Pid -> [arr : Nat, len : Nat]]
    /\ \A p, q \in Pid : waiters[p].arr = waiters[q].arr => p = q
    /\ \A p \in Pid : /\ waiters[p].arr \in DOMAIN heap
                      /\ waiters[p].len <= Len(heap[waiters[p].arr])
                      /\ \A j \in 1..waiters[p].len : heap[waiters[p].arr][j] \in 1..next
    /\ \A p \in Pid : p \notin waitees[p] /\ (p > next => waiters[p].len = 0)
    /\ \A k \in DOMAIN stack : stack[k].at = "finish" =>
          /\ stack[k].arr \in DOMAIN heap
          /\ \A q \in Pid : waiters[q].arr = stack[k].arr => q = stack[k].pid

\* w is to be told of p's end: it asked in time, and has not ended itself.
Pends(w, p) == <<w, p>> \in owed /\ w \in live /\ ~BeingEnded(w)

\* An activation that may yet end x: its own, or a sweep that lists it.
MayEnd(a, x) == \/ a.at = "run" /\ a.pid = x
                \/ a.at = "sweep" /\ \E k \in DOMAIN a.todo : a.todo[k] = x

\* The loop of the activation at i has w in front of it.
Ahead(i, w) ==
    LET a == stack[i]
    IN  \E j \in a.k..a.len : /\ heap[a.arr][j] = w
                              /\ waiters[a.pid].arr = a.arr => j <= waiters[a.pid].len

\* What it has behind it will not be shifted out from under it.
Settled(i) ==
    LET a == stack[i]
    IN  waiters[a.pid].arr = a.arr =>
            \A j \in 1..(a.k - 1) : j <= waiters[a.pid].len =>
                LET x == heap[a.arr][j]
                IN  \/ a.pid \notin waitees[x]
                    \/ x \notin live /\ \A h \in 1..(i - 1) : ~MayEnd(stack[h], x)

\* Whoever is to be told of a process's end is in its list, and the process in
\* theirs; in front of each loop that is ending it, none of which has anything
\* behind it that a watcher told on the way could take out of the list.
WatchInv ==
    /\ asked \subseteq (1..next) \X (1..next)
    /\ \A w, p \in Pid :
          /\ Pends(w, p) => /\ p \in live
                            /\ \E j \in 1..waiters[p].len : heap[waiters[p].arr][j] = w
                            /\ p \in waitees[w]
          /\ /\ \E j \in 1..waiters[p].len : heap[waiters[p].arr][j] = w
             /\ w \in live /\ p \in live /\ ~BeingEnded(p)
             => p \in waitees[w]
          /\ Pends(w, p) =>
                \A i \in DOMAIN stack :
                    stack[i].at = "finish" /\ stack[i].pid = p => Ahead(i, w) /\ Settled(i)
===============================================================================
