---------------------------- MODULE MoveGuard ----------------------------
(***************************************************************************)
(* The runner of rclone: rows whose content is on the SSD are moved by      *)
(* child processes, a few at a time, and a registry keeps a second process  *)
(* out of a source tree in which one may still be deleting.                 *)
(*                                                                          *)
(* The tree is the directory the move starts from.  For batches, folders    *)
(* and heals that is the SSD's save path, one for many rows; a row moved    *)
(* alone has a tree of its own.  A child that ignores SIGKILL outlives the  *)
(* worker that began it.                                                    *)
(***************************************************************************)
EXTENDS FiniteSets, Integers

CONSTANTS
  Rows,
  Heals,       \* those whose move is a heal's, in RE_ADDING
  Trees,
  Procs,       \* the operating system's processes
  None,
  Placements,  \* where the rows lie and how many may move at once
  MaxFaults    \* bound: failures, timeouts and cancellations

ASSUME RowsAssumption == IsFiniteSet(Rows) /\ Heals \subseteq Rows /\ None \notin Procs
ASSUME FaultsAssumption == MaxFaults \in Nat
ASSUME PlacementsAssumption ==
  Placements \subseteq [tree : [Rows -> Trees], moves : Nat \ {0}]

VARIABLES
  place,   \* the placement, frozen: tree[r], and max_concurrent_moves
  step,    \* step[r]: where the worker of r is
  child,   \* child[r]: the process it began
  proc,    \* proc[p]: whose files p moves, and how it has ended, if it has
  active,  \* _ACTIVE_MOVES
  ssd,     \* the rows whose files are on the SSD
  faults   \* how many of MaxFaults there were

moveVars == <<place, step, child, proc, active, ssd, faults>>

Unused == [row |-> None, end |-> "none"]

MoveTypeOK ==
  /\ place \in Placements
  /\ step \in [Rows -> {"due", "spawning", "moving", "stopping", "cancelling",
                        "moved", "failed", "gone", "stranded"}]
  /\ child \in [Rows -> Procs \cup {None}]
  /\ proc \in [Procs -> [row : Rows \cup {None}, end : {"none", "alive", "ok", "transient", "bad"}]]
  /\ active \in [Trees -> Procs \cup {None}]
  /\ ssd \subseteq Rows
  /\ faults \in 0..MaxFaults

MoveInit ==
  /\ place \in Placements
  /\ step = [r \in Rows |-> "due"]
  /\ child = [r \in Rows |-> None]
  /\ proc = [p \in Procs |-> Unused]
  /\ active = [t \in Trees |-> None]
  /\ ssd = Rows
  /\ faults = 0

-----------------------------------------------------------------------------
Alive(p) == p # None /\ proc[p].end = "alive"

\* move_sem is held from the check of the registry to the end of run_rclone.
Moving == {r \in Rows : step[r] \in {"spawning", "moving", "stopping", "cancelling"}}

Fault == faults < MaxFaults /\ faults' = faults + 1

Steps(r, s) == step' = [step EXCEPT ![r] = s]

\* A worker parks the row, and the next tick begins over.  A heal does not
\* come back: it takes what lies on the SSD for a mount that lags.
Parks(r) == Steps(r, IF r \in Heals /\ r \in ssd THEN "stranded" ELSE "due")

Fails(r) == IF r \in Heals THEN Parks(r) ELSE Steps(r, "failed")

\* Fault: whoever is on record keeps others out.
HolderForEver(t) == active[t]
\* _active_check: the process on record keeps others out until it is reaped.
Holder(t) == IF Alive(active[t]) THEN active[t] ELSE None

\* Fault: a process that could not be stopped is forgotten.
DropAlways(r, keep) == active' = [active EXCEPT ![place.tree[r]] = None]
\* _active_drop: whichever process is on record.
Drop(r, keep) == active' = IF keep THEN active
                           ELSE [active EXCEPT ![place.tree[r]] = None]

-----------------------------------------------------------------------------
Due(r) == step[r] = "due" /\ Cardinality(Moving) < place.moves

\* RcloneBusyError: movers park and try again, which changes nothing here.
Refused(r) ==
  /\ Due(r) /\ r \in Heals /\ Holder(place.tree[r]) # None
  /\ Parks(r)
  /\ UNCHANGED <<place, child, proc, active, ssd, faults>>

Proceeds(r) ==
  /\ Due(r) /\ Holder(place.tree[r]) = None
  /\ Steps(r, "spawning") /\ Drop(r, FALSE)
  /\ UNCHANGED <<place, child, proc, ssd, faults>>

Free(p) == ~Alive(p) /\ \A r \in Rows, t \in Trees : child[r] # p /\ active[t] # p

\* create_subprocess_exec has returned.
Spawned(r) ==
  /\ step[r] = "spawning"
  /\ \E q \in Procs : Free(q)
  /\ LET p == CHOOSE q \in Procs : Free(q) IN
       /\ proc' = [proc EXCEPT ![p] = [row |-> r, end |-> "alive"]]
       /\ child' = [child EXCEPT ![r] = p]
       /\ active' = [active EXCEPT ![place.tree[r]] = p]
  /\ Steps(r, "moving")
  /\ UNCHANGED <<place, ssd, faults>>

\* Its OSError is not a timeout: the row fails.
SpawnFails(r) ==
  /\ step[r] = "spawning" /\ Fault
  /\ Fails(r) /\ Drop(r, FALSE)
  /\ UNCHANGED <<place, child, proc, ssd>>

-----------------------------------------------------------------------------
\* How a process ended is for the worker that waits for it.
Ends(p, e) ==
  proc' = [proc EXCEPT ![p] = IF child[proc[p].row] = p THEN [@ EXCEPT !.end = e] ELSE Unused]

\* rclone exits with 0 when there was nothing left to move, too.
Ships(p) ==
  /\ Alive(p) /\ Ends(p, "ok")
  /\ ssd' = ssd \ {proc[p].row}
  /\ UNCHANGED <<place, step, child, active, faults>>

ShipsNothing(p) ==
  /\ Alive(p) /\ Fault
  /\ \E e \in {"ok", "transient", "bad"} : Ends(p, e)
  /\ UNCHANGED <<place, step, child, active, ssd>>

\* SIGTERM or SIGKILL takes effect, sooner or later.
Dies(p) ==
  /\ Alive(p) /\ ~(child[proc[p].row] = p /\ step[proc[p].row] = "moving")
  /\ Ends(p, "bad")
  /\ UNCHANGED <<place, step, child, active, ssd, faults>>

Mine(r) == proc[child[r]].end

\* The worker lets go of its process, which may live on.
Leaves(r) ==
  /\ child' = [child EXCEPT ![r] = None]
  /\ proc' = IF Alive(child[r]) \/ child[r] = None THEN proc ELSE [proc EXCEPT ![child[r]] = Unused]

\* communicate() returns, and the caller looks what is left on the disk.
Exited(r) ==
  /\ step[r] = "moving" /\ Mine(r) # "alive"
  /\ Drop(r, FALSE)
  /\ IF Mine(r) = "ok" /\ r \notin ssd THEN Steps(r, "moved")
     ELSE IF Mine(r) = "bad" THEN Fails(r)
     ELSE Parks(r)
  /\ Leaves(r)
  /\ UNCHANGED <<place, ssd, faults>>

\* communicate() takes too long, or fails itself.
Interrupted(r) ==
  /\ step[r] = "moving" /\ Fault
  /\ Steps(r, "stopping")
  /\ UNCHANGED <<place, child, proc, active, ssd>>

\* Two waits of ten seconds later, and whether the process is gone or not.  A
\* timeout parks the row, any other error fails it.
Stopped(r) ==
  /\ step[r] = "stopping"
  /\ Drop(r, Mine(r) = "alive")
  /\ Parks(r) \/ Fails(r)
  /\ Leaves(r)
  /\ UNCHANGED <<place, ssd, faults>>

\* stop_workers_for.  asyncio closes a process whose start is cancelled, and a
\* cancellation while the process is being stopped leaves the record alone.
CancelMove(r) ==
  /\ step[r] \in {"due", "spawning", "moving", "stopping"} /\ Fault
  /\ Steps(r, IF step[r] = "moving" THEN "cancelling" ELSE "gone")
  /\ IF step[r] = "moving" THEN UNCHANGED <<child, proc>> ELSE Leaves(r)
  /\ UNCHANGED <<place, active, ssd>>

Cancelled(r) ==
  /\ step[r] = "cancelling"
  /\ Steps(r, "gone") /\ Drop(r, Mine(r) = "alive")
  /\ Leaves(r)
  /\ UNCHANGED <<place, ssd, faults>>

\* The torrent is added once more, and downloaded again.
Returns(r) ==
  /\ step[r] = "gone"
  /\ Steps(r, "due") /\ ssd' = ssd \cup {r}
  /\ UNCHANGED <<place, child, proc, active, faults>>

-----------------------------------------------------------------------------
Mover(r) == Refused(r) \/ Proceeds(r) \/ Spawned(r) \/ Exited(r) \/ Stopped(r) \/ Cancelled(r)

Trouble(r) == SpawnFails(r) \/ Interrupted(r) \/ CancelMove(r) \/ Returns(r)

Runs(p) == Ships(p) \/ ShipsNothing(p) \/ Dies(p)

MoveNext == (\E r \in Rows : Mover(r) \/ Trouble(r)) \/ \E p \in Procs : Runs(p)

MoveSpec == MoveInit /\ [][MoveNext]_moveVars

\* Every tick spawns the workers of rows that are due; the semaphore is first
\* come, first served; the waits for a child are bounded; and a process, even
\* one that ignores signals, ends at last.
MoveFairSpec ==
  /\ MoveSpec
  /\ \A r \in Rows : WF_moveVars(Mover(r))
  /\ \A p \in Procs : WF_moveVars(Ships(p) \/ Dies(p))

-----------------------------------------------------------------------------
\* Two processes may be deleting in one tree.
Beside(p, q) == p # q /\ Alive(p) /\ Alive(q) /\ place.tree[proc[p].row] = place.tree[proc[q].row]

\* "Refuses with RcloneBusyError while a previous move for the same tree is
\* still alive" (run_rclone).  It does not: the registry is asked before the
\* process is started and told after, with an await in between.
OneMovePerTree == \A p, q \in Procs : ~Beside(p, q)

Alone(r) == \A s \in Rows : place.tree[s] = place.tree[r] => s = r

\* What the guard does keep, through timeouts, unkillable children, cancelled
\* and returning rows: where moves go one at a time, or a tree has one row, no
\* process is started in a tree in which another may still be deleting.
OneMover ==
  \A p, q \in Procs : Beside(p, q) => place.moves > 1 /\ ~Alone(proc[p].row)

\* max_concurrent_moves bounds the processes that are waited for, those that
\* are being stopped or cancelled among them.
MovesFit == Cardinality({r \in Rows : child[r] # None}) <= place.moves

\* Contention, timeouts and orphans do not keep a row that waits for its move
\* from it for ever: it is moved, fails on an error, is cancelled, or is a
\* heal that gave up (run_rclone parks, _do_moving tries again).
Served ==
  \A r \in Rows : step[r] = "due" ~> step[r] \in {"moved", "failed", "gone", "stranded"}

\* "Every existing park-on-timeout handler treats it as retry-later, never as
\* failure" (RcloneBusyError).  The heal's handler is none of them: what it
\* downloaded stays on the SSD, and the next attempt stops at that.
BusyIsRetried == [][\A r \in Rows : Due(r) /\ Holder(place.tree[r]) # None => step'[r] # "stranded"]_moveVars
=============================================================================
