------------------------------- MODULE WorldLease -------------------------------
(***************************************************************************)
(* internal/store/lease.go, and the processes it keeps apart: fbemerald    *)
(* serve, which takes the lease before it loads the world and gives it     *)
(* back after the last flush, and fbeconfig, whose every write first asks  *)
(* whether anything holds it (internal/web/web.go's readOnlyGuard).        *)
(*                                                                         *)
(* The lease is a Postgres session-level advisory lock.  A session that    *)
(* has died, or whose client has lost its network, goes when Postgres      *)
(* notices; until then its lock stays.                                     *)
(***************************************************************************)
EXTENDS Naturals, FiniteSets

CONSTANTS
    Server,     \* processes running fbemerald serve against one world
    Nobody,
    MaxChanges, \* bound: changes ever made to the world
    MaxCrashes, \* bound: processes that died
    MaxLosses   \* bound: connections and answers that were lost

ASSUME WorldLeaseAssumption ==
    /\ Nobody \notin Server
    /\ MaxChanges \in Nat /\ MaxCrashes \in Nat /\ MaxLosses \in Nat

VARIABLES
    srv,       \* how far each process has got in cmdServe
    conn,      \* Lease.conn: "up", "dead" and not yet noticed, or "nil"
    holder,    \* the process whose session has the advisory lock
    session,   \* whether that session still has a client: "live" or "orphan"
    mem,       \* what each server's world holds
    unsaved,   \* it has changes no flush has written
    db,        \* what the store holds
    guard,     \* the configurator's write: "idle", or "passed" the guard
    n,         \* changes made
    committed, \* history: changes the store has held
    raced,     \* history: a write past the guard was under way when a server loaded
    crashes, losses

leaseVars == <<conn, holder, session>>
worldVars == <<mem, unsaved, db, committed, n>>
vars == <<srv, leaseVars, worldVars, guard, raced, crashes, losses>>

-------------------------------------------------------------------------------

\* "flushed": Run has returned, and the deferred Release is next.
ServeAt == {"off", "leased", "serving", "flushed"}

Free == holder = Nobody

Init ==
    /\ srv = [s \in Server |-> "off"] /\ conn = [s \in Server |-> "nil"]
    /\ holder = Nobody /\ session = "live"
    /\ mem = [s \in Server |-> {}] /\ unsaved = [s \in Server |-> FALSE]
    /\ db = {} /\ committed = {} /\ n = 0
    /\ guard = "idle" /\ raced = FALSE
    /\ crashes = 0 /\ losses = 0

\* pg_try_advisory_lock by s, and an answer that arrives.
Lock(s) == /\ Free
           /\ holder' = s /\ session' = "live"
           /\ conn' = [conn EXCEPT ![s] = "up"]

-------------------------------------------------------------------------------
(* cmdServe.                                                               *)

\* AcquireLease that gets the lock.  ErrLeaseHeld, and a database that does
\* not answer, leave the process where it was: it has not started.
AcquireLease(s) ==
    /\ srv[s] = "off"
    /\ Lock(s)
    /\ srv' = [srv EXCEPT ![s] = "leased"]
    /\ UNCHANGED <<worldVars, guard, raced, crashes, losses>>

\* Everything the server knows is read once, after the lease is taken.
Load(s) ==
    /\ srv[s] = "leased"
    /\ srv' = [srv EXCEPT ![s] = "serving"]
    /\ mem' = [mem EXCEPT ![s] = db]
    /\ unsaved' = [unsaved EXCEPT ![s] = FALSE]
    /\ raced' = (raced \/ guard = "passed")
    /\ UNCHANGED <<leaseVars, db, committed, n, guard, crashes, losses>>

Change(s) ==
    /\ srv[s] = "serving" /\ n < MaxChanges
    /\ n' = n + 1
    /\ mem' = [mem EXCEPT ![s] = @ \cup {n + 1}]
    /\ unsaved' = [unsaved EXCEPT ![s] = TRUE]
    /\ UNCHANGED <<srv, leaseVars, db, committed, guard, raced, crashes, losses>>

\* A flush rewrites whole what has changed.  It does not look at the lease.
WriteOut(s) == /\ db' = IF unsaved[s] THEN mem[s] ELSE db
               /\ committed' = committed \cup db'
               /\ unsaved' = [unsaved EXCEPT ![s] = FALSE]

Flush(s) ==
    /\ srv[s] = "serving" /\ unsaved[s]
    /\ WriteOut(s)
    /\ UNCHANGED <<srv, leaseVars, mem, n, guard, raced, crashes, losses>>

\* Run returns: the final flush was written, or failed.
Stop(s) ==
    /\ srv[s] = "serving"
    /\ srv' = [srv EXCEPT ![s] = "flushed"]
    /\ WriteOut(s) \/ UNCHANGED <<db, committed, unsaved>>
    /\ UNCHANGED <<leaseVars, mem, n, guard, raced, crashes, losses>>

\* A Release deferred so late that it comes before the final flush.
MutantReleaseEarly(s) ==
    /\ srv[s] \in {"serving", "flushed"}
    /\ srv' = IF srv[s] = "flushed" THEN [srv EXCEPT ![s] = "off"] ELSE srv
    /\ conn' = [conn EXCEPT ![s] = "nil"]
    /\ holder' = IF conn[s] = "up" THEN Nobody ELSE holder
    /\ UNCHANGED <<session, worldVars, guard, raced, crashes, losses>>

\* Release, and the process exits: a session it could not unlock on is left
\* for Postgres to notice.
Release(s) ==
    /\ srv[s] = "flushed"
    /\ srv' = [srv EXCEPT ![s] = "off"]
    /\ conn' = [conn EXCEPT ![s] = "nil"]
    /\ holder' = IF conn[s] = "up" THEN Nobody ELSE holder
    /\ session' = IF conn[s] # "up" /\ holder = s THEN "orphan" ELSE session
    /\ UNCHANGED <<worldVars, guard, raced, crashes, losses>>

Crash(s) ==
    /\ srv[s] # "off" /\ crashes < MaxCrashes
    /\ crashes' = crashes + 1
    /\ srv' = [srv EXCEPT ![s] = "off"]
    /\ conn' = [conn EXCEPT ![s] = "nil"]
    /\ session' = IF holder = s THEN "orphan" ELSE session
    /\ UNCHANGED <<holder, worldVars, guard, raced, losses>>

-------------------------------------------------------------------------------
(* The lease while it is held.                                             *)

\* The pinned connection dies under a running server: Postgres restarted, or
\* a firewall dropped it.
Lose(s) ==
    /\ conn[s] = "up" /\ losses < MaxLosses
    /\ losses' = losses + 1
    /\ conn' = [conn EXCEPT ![s] = "dead"]
    /\ session' = "orphan"
    /\ UNCHANGED <<srv, holder, worldVars, guard, raced, crashes>>

\* Postgres drops a session that has lost its client, and its lock.
Notice ==
    /\ holder # Nobody /\ session = "orphan"
    /\ holder' = Nobody /\ session' = "live"
    /\ UNCHANGED <<srv, conn, worldVars, guard, raced, crashes, losses>>

\* A reconnection that forgets to take the lock again.
MutantPinOnly(s) ==
    /\ conn[s] = "dead"
    /\ conn' = [conn EXCEPT ![s] = "up"]
    /\ UNCHANGED <<srv, holder, session, worldVars, guard, raced, crashes, losses>>

\* keepalive's check, on a connection that does not answer: it reconnects
\* and takes the lock; or finds it held (by another, or by its own session
\* that Postgres has not missed yet), or cannot connect, or loses the answer.
Check(s) ==
    /\ conn[s] = "dead"
    /\ \/ Lock(s) /\ UNCHANGED losses
       \/ /\ ~Free
          /\ conn' = [conn EXCEPT ![s] = "nil"]
          /\ UNCHANGED <<holder, session, losses>>
       \/ /\ losses < MaxLosses /\ losses' = losses + 1
          /\ conn' = [conn EXCEPT ![s] = "nil"]
          /\ \/ UNCHANGED <<holder, session>>
             \/ Free /\ holder' = s /\ session' = "orphan"
    /\ UNCHANGED <<srv, worldVars, guard, raced, crashes>>

-------------------------------------------------------------------------------
(* fbeconfig.                                                              *)

\* A guard that lets a request through whatever pg_locks says.
MutantOpenGuard ==
    /\ guard = "idle" /\ n < MaxChanges
    /\ guard' = "passed"
    /\ UNCHANGED <<srv, leaseVars, worldVars, raced, crashes, losses>>

\* readOnlyGuard lets a request through: LeaseHeld said no.
PassGuard ==
    /\ guard = "idle" /\ n < MaxChanges
    /\ Free
    /\ guard' = "passed"
    /\ UNCHANGED <<srv, leaseVars, worldVars, raced, crashes, losses>>

\* The handler's write, some time later.
ConfigWrite ==
    /\ guard = "passed" /\ n < MaxChanges
    /\ guard' = "idle"
    /\ n' = n + 1
    /\ db' = db \cup {n + 1} /\ committed' = committed \cup {n + 1}
    /\ UNCHANGED <<srv, leaseVars, mem, unsaved, raced, crashes, losses>>

-------------------------------------------------------------------------------

Serve(s) == \/ AcquireLease(s) \/ Load(s) \/ Change(s) \/ Flush(s)
            \/ Stop(s) \/ Release(s) \/ Crash(s) \/ Lose(s) \/ Check(s)

Next == \/ \E s \in Server : Serve(s)
        \/ Notice \/ PassGuard \/ ConfigWrite

Spec == Init /\ [][Next]_vars

-------------------------------------------------------------------------------
(* Properties.                                                             *)

\* Every variable holds what the code's types say it can.
TypeOK ==
    /\ srv \in [Server -> ServeAt]
    /\ conn \in [Server -> {"nil", "up", "dead"}]
    /\ \A s \in Server : srv[s] = "off" => conn[s] = "nil"
    /\ holder \in Server \cup {Nobody} /\ session \in {"live", "orphan"}
    /\ mem \in [Server -> SUBSET (1..MaxChanges)]
    /\ unsaved \in [Server -> BOOLEAN]
    /\ db \in SUBSET (1..MaxChanges) /\ committed \in SUBSET (1..MaxChanges)
    /\ n \in 0..MaxChanges /\ guard \in {"idle", "passed"} /\ raced \in BOOLEAN
    /\ crashes \in 0..MaxCrashes /\ losses \in 0..MaxLosses

\* lease.go: the lock "answers correctly after a crash".  A server that
\* believes its connection is good is the one the lock names, so nothing can
\* take it for stopped, and no two servers believe it at once.
BeliefIsLock ==
    \A s \in Server : conn[s] = "up" =>
        holder = s /\ session = "live" /\ srv[s] # "off"

\* "Two servers sharing one world would each hold an authoritative in-memory
\* graph and write over each other": that takes a lease that has been lost,
\* whatever crashes and restarts there were.
OneAuthority ==
    losses = 0 =>
        \A s, t \in Server : srv[s] # "off" /\ srv[t] # "off" => s = t

\* Nothing the store has held is written over by a world that had not read
\* it, unless a connection was lost or a configurator's write straddled the
\* start of a server.
NoLostUpdate == losses = 0 /\ ~raced => committed \subseteq db

\* What makes the three above inductive, as long as nothing has been lost: a
\* server that runs has its connection; nobody is past the guard while one
\* serves; and a server that serves knows all that the store has held.
UpWhileRunning ==
    losses = 0 => \A s \in Server : srv[s] # "off" => conn[s] = "up"

GuardExcludes ==
    losses = 0 /\ ~raced /\ guard = "passed" =>
        \A s \in Server : srv[s] \in {"off", "leased"}

ServedIsKnown ==
    losses = 0 /\ ~raced =>
        \A s \in Server : srv[s] = "serving" => committed \subseteq mem[s]

LeaseInv == /\ BeliefIsLock /\ UpWhileRunning
            /\ GuardExcludes /\ ServedIsKnown /\ NoLostUpdate
===============================================================================
