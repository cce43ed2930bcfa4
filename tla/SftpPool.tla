----------------------------- MODULE SftpPool -----------------------------
(***************************************************************************)
(* The pool of SSH connections through which .torrent files are fetched     *)
(* from the racing machine.  Every member has a lock; a call leases a       *)
(* member, dialing those that are closed on its way, and holds the lock     *)
(* while it reads.  Closing does not wait for the lock for ever: after five *)
(* seconds it tears the connection down under its holder.                   *)
(*                                                                          *)
(* The threads are those of asyncio.to_thread, which call, and those of the  *)
(* executor that dials at boot.  The coordinator gives up on a call after   *)
(* 15 s; its thread does not.                                               *)
(***************************************************************************)
EXTENDS FiniteSets, Naturals

CONSTANTS
  Members,
  Pools,      \* the pools there may be: which of the members are in use
  Callers,
  Dialers,    \* bound: those of an attempt to boot, and some that are late
  Closers,    \* those that close every member: a failed boot, and the stop
  None,
  Blank       \* a client without a transport

Threads == Callers \cup Dialers

ASSUME PoolAssumption ==
  /\ IsFiniteSet(Members) /\ Pools \subseteq SUBSET Members
  /\ Callers \cap Dialers = {}
  /\ Closers = {"boot", "stop"}

\* The SSH transports to the server, named for the member they were dialed for.
Transports == Members \X {1, 2}

ASSUME NamesAssumption ==
  None # Blank /\ {None, Blank} \cap Transports = {} /\ None \notin Members \cup Threads

VARIABLES
  pool,     \* the members in use, frozen (pool_size)
  closed,   \* _closed of each member
  client,   \* its _client: the transport, if it has one
  lock,     \* who holds its lock
  open,     \* the transports that are up
  shut,     \* _shutdown
  boot,     \* how far the pool's connect() is
  waiting,  \* the threads whose dials it waits for
  left,     \* left[c]: the members c has yet to close
  marked,   \* marked[c]: the one it has marked
  pc, at, why,  \* what each thread does, at which member, and what it dials for
  seen,     \* the members its loop has passed
  sock      \* the transport of its dial

conns == <<closed, client, lock, open>>
state == <<pool, shut>>
booting == <<boot, waiting>>
closing == <<left, marked>>
threads == <<pc, at, why, seen, sock>>
poolVars == <<conns, state, booting, closing, threads>>

PoolTypeOK ==
  /\ pool \in Pools
  /\ closed \in [Members -> BOOLEAN]
  /\ client \in [Members -> Transports \cup {None, Blank}]
  /\ lock \in [Members -> Threads \cup {None}]
  /\ open \subseteq Transports
  /\ shut \in BOOLEAN
  /\ boot \in {"down", "dialing", "failing", "up"}
  /\ waiting \subseteq Threads
  /\ left \in [Closers -> SUBSET Members]
  /\ marked \in [Closers -> Members \cup {None}]
  /\ pc \in [Threads -> {"idle", "revive", "lock", "socket", "connect",
                         "sweep", "leased", "reading"}]
  /\ at \in [Threads -> Members \cup {None}]
  /\ why \in [Threads -> {"boot", "revive", "call"}]
  /\ seen \in [Threads -> SUBSET Members]
  /\ sock \in [Threads -> Transports \cup {None}]

PoolInit ==
  /\ pool \in Pools
  /\ closed = [m \in Members |-> TRUE]
  /\ client = [m \in Members |-> None]
  /\ lock = [m \in Members |-> None]
  /\ open = {} /\ shut = FALSE
  /\ boot = "down" /\ waiting = {}
  /\ left = [c \in Closers |-> {}] /\ marked = [c \in Closers |-> None]
  /\ pc = [t \in Threads |-> "idle"] /\ at = [t \in Threads |-> None]
  /\ why = [t \in Threads |-> "call"]
  /\ seen = [t \in Threads |-> {}] /\ sock = [t \in Threads |-> None]

-----------------------------------------------------------------------------
(* One member.                                                              *)

\* What client[m] had is closed.
Torn(m) == open \ {client[m]}

\* A transport that nothing names.
NewTransport(m) == IF <<m, 1>> \in open THEN <<m, 2>> ELSE <<m, 1>>

\* Thread t goes to a place of its code, where it is at m and has seen ms.
Moves(t, place, m, ms) ==
  /\ pc' = [pc EXCEPT ![t] = place]
  /\ at' = [at EXCEPT ![t] = m] /\ seen' = [seen EXCEPT ![t] = ms]
  /\ why' = [why EXCEPT ![t] = IF m = None THEN "call" ELSE @]

\* connect(), with the lock: whatever was open is closed, the member is alive
\* again, and then it is dialed.
Dials(t, m) ==
  /\ closed' = [closed EXCEPT ![m] = FALSE]
  /\ client' = [client EXCEPT ![m] = Blank]
  /\ lock' = [lock EXCEPT ![m] = t]
  /\ open' = Torn(m)
  /\ pc' = [pc EXCEPT ![t] = "socket"]

\* Fault: dialing does not take the lock.
FreeAlways(m) == TRUE

\* May t have the lock of m?
Free(m) == lock[m] = None

Locks(t) ==
  /\ pc[t] = "lock" /\ Free(at[t])
  /\ Dials(t, at[t])
  /\ UNCHANGED <<state, booting, closing, at, why, seen, sock>>

Socket(t) ==
  /\ pc[t] = "socket"
  /\ sock' = [sock EXCEPT ![t] = NewTransport(at[t])]
  /\ open' = open \cup {NewTransport(at[t])}
  /\ pc' = [pc EXCEPT ![t] = "connect"]
  /\ UNCHANGED <<closed, client, lock, state, booting, closing, at, why, seen>>

\* Fault: a dial that fails leaves with the lock.
UnlockedOnSuccess(t, ok) == [lock EXCEPT ![at[t]] = IF ok /\ why[t] # "call" THEN None ELSE t]

\* The lock is released, unless the dial was part of a call that goes on.
Unlocked(t, ok) == [lock EXCEPT ![at[t]] = IF ok /\ why[t] = "call" THEN t ELSE None]

\* What the dial of t leads to: the lease loop goes on, the call reads or has
\* no answer, connect() hears of it.
Returns(t, ok) ==
  /\ lock' = Unlocked(t, ok)
  /\ CASE why[t] = "revive" -> Moves(t, "revive", None, seen[t] \cup {at[t]})
       [] why[t] = "call" /\ ok -> Moves(t, "reading", at[t], {})
       [] OTHER -> Moves(t, "idle", None, {})
  /\ waiting' = waiting \ {t}
  /\ LET fails == t \in waiting /\ ~ok /\ boot = "dialing"
     IN  /\ boot' = IF fails THEN "failing" ELSE boot
         /\ left' = IF fails THEN [left EXCEPT !["boot"] = pool] ELSE left
  /\ sock' = [sock EXCEPT ![t] = None]
  /\ UNCHANGED <<state, marked>>

\* The handshake: whoever closed the member meanwhile took the client away.
Connect(t) ==
  /\ pc[t] = "connect" /\ client[at[t]] = Blank
  /\ client' = [client EXCEPT ![at[t]] = sock[t]]
  /\ UNCHANGED <<closed, open>>
  /\ Returns(t, TRUE)

\* Fault: the client is closed, the socket is not.
AfterFailureSock(t) == Torn(at[t])

\* What a dial that fails leaves open: neither the socket nor the client.
AfterFailure(t) == Torn(at[t]) \ {sock[t]}

Breaks(t) ==
  /\ closed' = [closed EXCEPT ![at[t]] = TRUE]
  /\ client' = [client EXCEPT ![at[t]] = None]
  /\ open' = AfterFailure(t)
  /\ Returns(t, FALSE)

Bereft(t) == pc[t] = "connect" /\ client[at[t]] # Blank /\ Breaks(t)

DialFails(t) ==
  /\ pc[t] \in {"socket", "connect"}
  /\ pc[t] = "connect" => client[at[t]] = Blank
  /\ Breaks(t)

-----------------------------------------------------------------------------
(* A call: _lease, the operation, _release.                                 *)

Call(t) ==
  /\ pc[t] = "idle" /\ boot = "up" /\ ~shut
  /\ Moves(t, "revive", None, {})
  /\ UNCHANGED <<conns, state, booting, closing, sock>>

\* Fault: only the pool's connect() dials.
RevivedNever(m) == FALSE

\* Is m to be dialed before the leasing begins?
Revived(m) == closed[m] /\ ~shut

Skip(t, m) ==
  /\ pc[t] = "revive" /\ m \notin seen[t] /\ ~Revived(m)
  /\ Moves(t, "revive", None, seen[t] \cup {m})
  /\ UNCHANGED <<conns, state, booting, closing, sock>>

\* _try_revive: closed when asked; the dial waits for the lock.
Revive(t, m) ==
  /\ pc[t] = "revive" /\ m \notin seen[t] /\ Revived(m)
  /\ pc' = [pc EXCEPT ![t] = "lock"]
  /\ at' = [at EXCEPT ![t] = m] /\ why' = [why EXCEPT ![t] = "revive"]
  /\ UNCHANGED <<conns, state, booting, closing, seen, sock>>

Sweep(t) ==
  /\ pc[t] = "revive" /\ seen[t] = pool
  /\ Moves(t, "sweep", None, {})
  /\ UNCHANGED <<conns, state, booting, closing, sock>>

Takes(t, m) ==
  /\ pc[t] = "sweep" /\ m \notin seen[t] /\ ~closed[m] /\ lock[m] = None
  /\ lock' = [lock EXCEPT ![m] = t]
  /\ Moves(t, "leased", m, {})
  /\ UNCHANGED <<closed, client, open, state, booting, closing, sock>>

Passes(t, m) ==
  /\ pc[t] = "sweep" /\ m \notin seen[t] /\ (closed[m] \/ lock[m] # None)
  /\ Moves(t, "sweep", None, seen[t] \cup {m})
  /\ UNCHANGED <<conns, state, booting, closing, sock>>

Again(t) ==
  /\ pc[t] = "sweep" /\ seen[t] = pool
  /\ Moves(t, "sweep", None, {})
  /\ UNCHANGED <<conns, state, booting, closing, sock>>

\* "sftp busy: gave up waiting for a free connection".
Expire(t) ==
  /\ pc[t] = "sweep" /\ seen[t] = pool
  /\ Moves(t, "idle", None, {})
  /\ UNCHANGED <<conns, state, booting, closing, sock>>

\* The transport is looked at once, before the operation.
Begin(t) ==
  /\ pc[t] = "leased" /\ client[at[t]] \in open
  /\ Moves(t, "reading", at[t], {})
  /\ UNCHANGED <<conns, state, booting, closing, sock>>

Redial(t) ==
  /\ pc[t] = "leased" /\ client[at[t]] \notin open
  /\ Dials(t, at[t])
  /\ UNCHANGED <<state, booting, closing, at, why, seen, sock>>

End(t) ==
  /\ pc[t] = "reading"
  /\ Moves(t, "idle", None, {})
  /\ lock' = [lock EXCEPT ![at[t]] = None]
  /\ UNCHANGED <<closed, client, open, state, booting, closing, sock>>

-----------------------------------------------------------------------------
(* Boot and stop.                                                           *)

\* connect() of the pool: a thread for every member, beside those that still
\* dial for an attempt that was given up.
BootDials ==
  /\ boot = "down" /\ ~shut
  /\ LET free == {t \in Dialers : pc[t] = "idle"}
         crews == {f \in [pool -> free] : \A m, n \in pool : f[m] = f[n] => m = n}
         crew == CHOOSE f \in crews : TRUE
         for(t) == CHOOSE m \in pool : crew[m] = t
     IN  /\ crews # {}
         /\ waiting' = {crew[m] : m \in pool}
         /\ pc' = [t \in Threads |-> IF t \in waiting' THEN "lock" ELSE pc[t]]
         /\ at' = [t \in Threads |-> IF t \in waiting' THEN for(t) ELSE at[t]]
         /\ why' = [t \in Threads |-> IF t \in waiting' THEN "boot" ELSE why[t]]
  /\ boot' = "dialing"
  /\ UNCHANGED <<conns, state, closing, seen, sock>>

BootDialed ==
  /\ boot = "dialing" /\ waiting = {}
  /\ boot' = "up"
  /\ UNCHANGED <<conns, state, waiting, closing, threads>>

\* "sftp dial timed out after 60s".
BootExpires ==
  /\ boot = "dialing" /\ waiting # {}
  /\ boot' = "failing" /\ left' = [left EXCEPT !["boot"] = pool]
  /\ UNCHANGED <<conns, state, waiting, marked, threads>>

\* Every member is closed; _start_with_backoff tries again.
BootFailed ==
  /\ boot = "failing" /\ left["boot"] = {}
  /\ boot' = "down" /\ waiting' = {}
  /\ UNCHANGED <<conns, state, closing, threads>>

\* close() of the pool.
Stop ==
  /\ ~shut /\ shut' = TRUE
  /\ left' = [left EXCEPT !["stop"] = pool]
  /\ UNCHANGED <<pool, conns, booting, marked, threads>>

\* close() of a member: it is dead at once ...
Mark(c, m) ==
  /\ m \in left[c] /\ marked[c] = None
  /\ marked' = [marked EXCEPT ![c] = m]
  /\ closed' = [closed EXCEPT ![m] = TRUE]
  /\ UNCHANGED <<client, lock, open, state, booting, left, threads>>

\* ... and torn down with the lock, or when five seconds have passed.
TearDown(c) ==
  /\ marked[c] # None
  /\ client' = [client EXCEPT ![marked[c]] = None] /\ open' = Torn(marked[c])
  /\ marked' = [marked EXCEPT ![c] = None]
  /\ left' = [left EXCEPT ![c] = @ \ {marked[c]}]
  /\ UNCHANGED <<closed, lock, state, booting, threads>>

\* The server ends a connection, or the network does.
Lost(m) ==
  /\ client[m] \in open /\ open' = Torn(m)
  /\ UNCHANGED <<closed, client, lock, state, booting, closing, threads>>

-----------------------------------------------------------------------------
Leases(t) ==
  \/ Sweep(t) \/ Again(t) \/ Expire(t)
  \/ \E m \in pool : Skip(t, m) \/ Revive(t, m) \/ Takes(t, m) \/ Passes(t, m)

Dialing(t) == Socket(t) \/ Connect(t) \/ Bereft(t) \/ DialFails(t)

Works(t) == Begin(t) \/ Redial(t) \/ End(t)

Boots == BootDials \/ BootDialed \/ BootFailed

Closes(c) == TearDown(c) \/ \E m \in pool : Mark(c, m)

Outside == BootExpires \/ Stop \/ \E m \in pool : Lost(m)

PoolNext ==
  \/ \E t \in Callers : Call(t) \/ Leases(t) \/ Works(t)
  \/ \E t \in Threads : Locks(t) \/ Dialing(t)
  \/ Boots \/ Outside
  \/ \E c \in Closers : Closes(c)

PoolSpec == PoolInit /\ [][PoolNext]_poolVars

\* Every socket has a timeout, a read ends at last, the deadline of a lease
\* comes, and a lock that is free again and again is had in the end.
PoolFairSpec ==
  /\ PoolSpec
  /\ \A t \in Callers : WF_poolVars(Leases(t)) /\ SF_poolVars(Expire(t)) /\ WF_poolVars(Works(t))
  /\ \A t \in Threads : SF_poolVars(Locks(t)) /\ WF_poolVars(Dialing(t))
  /\ WF_poolVars(Boots) /\ \A c \in Closers : WF_poolVars(Closes(c))

-----------------------------------------------------------------------------
(* Properties.                                                              *)

\* Dials that fail, are given up or lose their client to a close that would
\* not wait leave no transport behind: whatever is open belongs to a member or
\* to the dial that holds it, one for each ("no more sessions").
OneTransportEach ==
  /\ \A i \in open :
       \/ \E m \in Members : client[m] = i
       \/ \E t \in Threads : sock[t] = i /\ lock[at[t]] = t
  /\ Cardinality(open) <= Cardinality(pool)

\* A call's connection is not replaced or torn down while it reads, whoever
\* revives, dials late for a boot long past, or closes; a stop aside.
ReadUndisturbed ==
  [][\A t \in Threads :
       pc[t] = "reading" /\ pc'[t] = "reading" /\ ~shut => client'[at[t]] = client[at[t]]]_poolVars

Leasing(t) ==
  \/ pc[t] \in {"revive", "sweep"}
  \/ pc[t] \in {"lock", "socket", "connect"} /\ why[t] = "revive"

\* A lease ends: with a member, or with "sftp busy".
LeaseEnds == \A t \in Callers : Leasing(t) ~> ~Leasing(t)

\* What can go wrong with the network, or be asked of the pool.
Trouble == Outside \/ \E t \in Threads : DialFails(t)

\* However many dials have failed, the pool serves calls again once the network
\* stays up, if there are any ("a transient outage heals without a restart").
Heals ==
  (<>[][~Trouble]_poolVars /\ []<><<\E t \in Callers : Call(t)>>_poolVars)
    => []<>(\E t \in Callers : pc[t] = "reading" /\ client[at[t]] \in open)

-----------------------------------------------------------------------------
(* What the comments say and the code does not do.                          *)

\* "Shutdown must stay shut (no use-after-close re-dial from a late worker)":
\* one that saw the member closed before the stop dials it after.
StaysShut == [][shut /\ left["stop"] = {} => open' \subseteq open]_poolVars

\* "_lease revives it on demand instead of queueing behind its (possibly
\* wedged-holder) lock": revived by another, leased and held meanwhile, it is
\* waited for, past any deadline.
QueuesBehindNobody ==
  \A t \in Threads :
    pc[t] = "lock" /\ why[t] = "revive" =>
      \A s \in Threads : pc[s] = "reading" => at[s] # at[t]
=============================================================================
