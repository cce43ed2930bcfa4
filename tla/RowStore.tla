------------------------------ MODULE RowStore ------------------------------
(***************************************************************************)
(* The row of one torrent in the SQLite table torrent_state, and the        *)
(* writers that work on it through StateStore (state.py).                   *)
(*                                                                          *)
(* A writer is anything that holds a TorrentState object: a pipeline        *)
(* worker, recovery, an API or Telegram handler.  It reads the row once     *)
(* (get, list_...), works on the object for as long as it likes, and writes *)
(* it back, whole (upsert, transition) or one column at a time.  Each call  *)
(* of the store runs under its RLock and in one transaction, so it is one   *)
(* step; everything else interleaves.                                       *)
(*                                                                          *)
(* Columns are kept as far as the properties tell them apart: the state,    *)
(* the revision, the tombstone, the .torrent blob (stored or not), the      *)
(* /skip hold and the id of the Telegram detail message.                    *)
(***************************************************************************)
EXTENDS States, Naturals

CONSTANTS
  Writers,      \* the holders of a TorrentState object
  Scope,        \* the states rows are moved to in this instance
  MaxVersion,   \* bound on the revision column
  MaxBorn,      \* bound on the number of times the row is inserted
  MaxMessage    \* bound on the Telegram message ids (0 is "not sent")

ASSUME ScopeAssumption == Scope \subseteq State
ASSUME BoundAssumption == MaxVersion \in Nat /\ MaxBorn \in Nat /\ MaxMessage \in Nat

VARIABLES
  row,      \* the row in the database
  mem,      \* mem[w]: the TorrentState object writer w holds
  born,     \* history: how often the row was inserted
  missed    \* history: the kinds of write to the row since w last read or wrote all of it

vars == <<row, mem, born, missed>>

Kinds == {"state", "column", "message", "blind"}

Blobs == {"empty", "bytes"}

Row == [present: BOOLEAN, deleted: BOOLEAN, state: State, version: Nat,
        blob: Blobs, skipped: BOOLEAN, message: Nat]

Snapshot == [held: BOOLEAN, state: State, version: Nat, blob: Blobs,
             skipped: BOOLEAN, message: Nat, born: Nat]

NoRow == [present |-> FALSE, deleted |-> FALSE, state |-> "NEW", version |-> 0,
          blob |-> "empty", skipped |-> FALSE, message |-> 0]

Nothing == [held |-> FALSE, state |-> "NEW", version |-> 0, blob |-> "empty",
            skipped |-> FALSE, message |-> 0, born |-> 0]

TypeOK ==
  /\ row \in Row
  /\ mem \in [Writers -> Snapshot]
  /\ born \in Nat
  /\ missed \in [Writers -> SUBSET Kinds]

\* A row every read sees; a tombstoned one (deleted_at # '') is invisible.
Live == row.present /\ ~row.deleted

Init ==
  /\ row = NoRow
  /\ mem = [w \in Writers |-> Nothing]
  /\ born = 0
  /\ missed = [w \in Writers |-> {}]

-----------------------------------------------------------------------------
(* What a writer sees.                                                      *)

\* Every other holder of the object has now missed a write of this kind.
OthersMiss(w, kinds) ==
  missed' = [x \in Writers |-> IF x = w THEN {}
                               ELSE IF mem[x].held THEN missed[x] \cup kinds
                               ELSE missed[x]]

AllMiss(kinds) ==
  missed' = [x \in Writers |-> IF mem[x].held THEN missed[x] \cup kinds ELSE missed[x]]

\* get / get_many / list_by_state: a snapshot of a live row, without the
\* blob unless asked for (include_blob).
Get(w, withBlob) ==
  /\ Live
  /\ mem' = [mem EXCEPT ![w] =
               [held |-> TRUE, state |-> row.state, version |-> row.version,
                blob |-> IF withBlob THEN row.blob ELSE "empty", skipped |-> row.skipped,
                message |-> row.message, born |-> born]]
  /\ missed' = [missed EXCEPT ![w] = {}]
  /\ UNCHANGED <<row, born>>

\* A handler that found no row builds a TorrentState of its own (scan_watch,
\* _process_source_group, Telegram /add).
Construct(w, b) ==
  /\ ~Live
  /\ mem' = [mem EXCEPT ![w] = [Nothing EXCEPT !.held = TRUE, !.blob = b]]
  /\ missed' = [missed EXCEPT ![w] = {}]
  /\ UNCHANGED <<row, born>>

\* The handler returns or the worker unwinds: its object is gone.
Drop(w) ==
  /\ mem[w].held
  /\ mem' = [mem EXCEPT ![w] = Nothing]
  /\ missed' = [missed EXCEPT ![w] = {}]
  /\ UNCHANGED <<row, born>>

-----------------------------------------------------------------------------
(* Whole-row writes.                                                        *)

\* Fault: COALESCE(NULLIF(...)) of the blob lost.
OverwrittenWiping(r, m, s) ==
  [r EXCEPT !.state = s, !.version = r.version + 1, !.blob = m.blob,
            !.skipped = m.skipped, !.message = m.message]

\* The row after a whole-row write of object m in state s over row r: the
\* tombstone and a stored blob survive, the revision counts on.
Overwritten(r, m, s) ==
  [r EXCEPT !.state = s, !.version = r.version + 1,
            !.blob = IF m.blob = "empty" THEN r.blob ELSE m.blob,
            !.skipped = m.skipped, !.message = m.message]

\* INSERT of object m in state s: the revision is the one m carries.
Inserted(m, s) ==
  [present |-> TRUE, deleted |-> FALSE, state |-> s, version |-> m.version,
   blob |-> m.blob, skipped |-> m.skipped, message |-> m.message]

\* What others have missed when the row goes from r to r2.
WriteKinds(r, r2) == {"column"} \cup (IF r.state = r2.state THEN {} ELSE {"state"})

\* Fault: the tombstone is not looked at.
TombstoneIgnored == FALSE

\* The rows a tombstone protects from upsert and transition.
Tombstoned == row.present /\ row.deleted

\* upsert on a row that is not there.  transition() takes this path as well.
Insert(w, s) ==
  /\ mem[w].held /\ ~row.present
  /\ born < MaxBorn
  /\ row' = Inserted(mem[w], s)
  /\ born' = born + 1
  /\ mem' = [mem EXCEPT ![w] = [@ EXCEPT !.state = s, !.born = born + 1]]
  /\ OthersMiss(w, {"state", "column"})

\* upsert over a row: no look at the state or the revision, which is synced
\* back into the object.  Over a tombstone the write is dropped.
Overwrite(w) ==
  /\ mem[w].held /\ row.present /\ ~Tombstoned
  /\ row.version < MaxVersion
  /\ row' = Overwritten(row, mem[w], mem[w].state)
  /\ mem' = [mem EXCEPT ![w] = [@ EXCEPT !.version = row.version + 1, !.born = born]]
  /\ OthersMiss(w, WriteKinds(row, row'))
  /\ UNCHANGED born

Upsert(w) == Insert(w, mem[w].state) \/ Overwrite(w)

\* Fault: only the state is compared.
StateCurrent(w) == row.state = mem[w].state

\* The state and the revision re-read inside the transaction must be those
\* of the object, or transition raises AbandonedError.
SnapshotCurrent(w) == row.state = mem[w].state /\ row.version = mem[w].version

Transition(w, dst) ==
  /\ mem[w].held /\ ~Tombstoned
  /\ LegalMove(mem[w].state, dst)
  /\ \/ Insert(w, dst)
     \/ /\ row.present /\ SnapshotCurrent(w)
        /\ row.version < MaxVersion
        /\ row' = Overwritten(row, mem[w], dst)
        /\ mem' = [mem EXCEPT ![w] = [@ EXCEPT !.state = dst, !.version = row.version + 1]]
        /\ OthersMiss(w, WriteKinds(row, row'))
        /\ UNCHANGED born

\* Fault: the object keeps the state it was to be written in.
AfterFailedWriteMoved(m, dst) == [m EXCEPT !.state = dst]

\* What is left of object m when the write of a transition to dst fails
\* (disk full, locked): the except branch puts the snapshot back.
AfterFailedWrite(m, dst) == m

TransitionFails(w, dst) ==
  /\ mem[w].held /\ Live
  /\ LegalMove(mem[w].state, dst) /\ SnapshotCurrent(w)
  /\ mem' = [mem EXCEPT ![w] = AfterFailedWrite(mem[w], dst)]
  /\ UNCHANGED <<row, born, missed>>

-----------------------------------------------------------------------------
(* Narrow writes: one UPDATE of a few columns of a live row.                *)

\* Fault: a narrow write without version = version + 1.
BumpNothing(r) == r

Bump(r) == [r EXCEPT !.version = r.version + 1]

\* set_fuse_verified, set_vps1_activity and any update_columns of a column
\* this model has no name for, by a caller that holds no object.
Stamp ==
  /\ Live /\ row.version < MaxVersion
  /\ row' = Bump(row)
  /\ AllMiss({"column"})
  /\ UNCHANGED <<mem, born>>

\* set_blob: never called with empty bytes.
SetBlob ==
  /\ Live /\ row.version < MaxVersion
  /\ row' = [Bump(row) EXCEPT !.blob = "bytes"]
  /\ AllMiss({"column"})
  /\ UNCHANGED <<mem, born>>

\* update_columns(skipped): Telegram /skip and /unskip.
SetSkipped(hold) ==
  /\ Live /\ row.version < MaxVersion
  /\ row' = [Bump(row) EXCEPT !.skipped = hold]
  /\ AllMiss({"column"})
  /\ UNCHANGED <<mem, born>>

\* update_columns(last_error) by a worker that then takes the new revision
\* into its object (_park_moving, and the blob heal of _do_re_add).
ParkNarrow(w) ==
  /\ mem[w].held /\ Live /\ row.version < MaxVersion
  /\ row' = Bump(row)
  /\ mem' = [mem EXCEPT ![w] = [@ EXCEPT !.version = row.version + 1, !.born = born]]
  /\ missed' = [x \in Writers |->
                  IF x # w THEN IF mem[x].held THEN missed[x] \cup {"column"} ELSE missed[x]
                  ELSE IF missed[x] \cap {"state", "column"} # {} \/ mem[x].born # born
                       THEN missed[x] \cup {"blind"} ELSE missed[x]]
  /\ UNCHANGED born

\* set_telegram_message_id: the one write that leaves the revision alone.
SetMessage(id) ==
  /\ Live /\ id # row.message
  /\ row' = [row EXCEPT !.message = id]
  /\ AllMiss({"message"})
  /\ UNCHANGED <<mem, born>>

-----------------------------------------------------------------------------
(* Forgetting.                                                              *)

\* tombstone: stamp a live row, or refresh the stamp of a stamped one.
Tombstone ==
  /\ row.present /\ row.version < MaxVersion
  /\ row' = [Bump(row) EXCEPT !.deleted = TRUE]
  /\ AllMiss({"column"})
  /\ UNCHANGED <<mem, born>>

\* clear_tombstone: the operator's override (unignore).
ClearTombstone ==
  /\ Tombstoned /\ row.version < MaxVersion
  /\ row' = [Bump(row) EXCEPT !.deleted = FALSE]
  /\ AllMiss({"column"})
  /\ UNCHANGED <<mem, born>>

\* gc_tombstones: the stamp has outlived its TTL.
GcTombstone ==
  /\ Tombstoned
  /\ row' = NoRow
  /\ UNCHANGED <<mem, born, missed>>

\* hard_delete: tombstone or not.
HardDelete ==
  /\ row.present
  /\ row' = NoRow
  /\ UNCHANGED <<mem, born, missed>>

-----------------------------------------------------------------------------
Next ==
  \/ \E w \in Writers :
       \/ \E withBlob \in BOOLEAN : Get(w, withBlob)
       \/ \E b \in Blobs : Construct(w, b)
       \/ Drop(w) \/ Upsert(w) \/ ParkNarrow(w)
       \/ \E dst \in Scope : Transition(w, dst) \/ TransitionFails(w, dst)
  \/ Stamp \/ SetBlob \/ \E hold \in BOOLEAN : SetSkipped(hold)
  \/ \E id \in 1..MaxMessage : SetMessage(id)
  \/ Tombstone \/ ClearTombstone \/ GcTombstone \/ HardDelete

Spec == Init /\ [][Next]_vars

-----------------------------------------------------------------------------
(* Properties.                                                              *)

\* The object of w is of the row that is in the table now, not of one that
\* was deleted since.
SameRow(w) == mem[w].held /\ row.present /\ mem[w].born = born

\* The revision an object carries never runs ahead of the row's, and an
\* object that missed a write which the revision counts is behind it: this
\* is what makes the one comparison in transition() a sound staleness test.
\* A narrow park that takes the new revision without re-reading the row
\* ("blind") is the only way past it.
RevisionTellsStaleness ==
  \A w \in Writers : SameRow(w) =>
    /\ mem[w].version <= row.version
    /\ (missed[w] \cap {"state", "column"} # {} /\ "blind" \notin missed[w])
         => mem[w].version < row.version

\* An object whose revision is the row's is in the row's state, so a worker
\* acts on the state the table holds; only a blind park breaks this, which
\* is why transition() compares the state as well.
SnapshotCoherent ==
  \A w \in Writers :
    (SameRow(w) /\ mem[w].version = row.version /\ "blind" \notin missed[w])
      => mem[w].state = row.state

\* "The second writer loses loudly": a transition of a row in the table
\* commits only when no write that counts was missed since the writer last
\* read the row, unless it took the revision blindly.
SecondWriterLoses ==
  [][\A w \in Writers, dst \in Scope :
       (Transition(w, dst) /\ SameRow(w))
         => missed[w] \subseteq {"message"} \/ "blind" \in missed[w]]_vars

\* A tombstoned row is frozen: until the operator lifts the stamp or the row
\* is erased, no writer, whatever it holds, changes a column of it or
\* brings it back into view with something else in it.
TombstoneFreezes ==
  [][(row.present /\ row.deleted /\ row'.present) =>
       /\ row'.state = row.state /\ row'.blob = row.blob
       /\ row'.skipped = row.skipped /\ row'.message = row.message]_vars

\* The revision of a row never goes back, and every change of its state or
\* blob moves it: a stale object cannot rewind the guard for the others.
RevisionMonotone ==
  [][(row.present /\ row'.present) =>
       /\ row.version <= row'.version
       /\ (row.state # row'.state \/ row.blob # row'.blob)
            => row.version < row'.version]_vars

\* A stored .torrent is never wiped by a writer whose object was read
\* without it.
BlobNeverWiped ==
  [][(row.present /\ row'.present /\ row.blob = "bytes") => row'.blob = "bytes"]_vars

-----------------------------------------------------------------------------
(* What the comments say and the code does not do.                          *)

\* telegram_bot.py on /skip: the flag "gives it no workers ... until
\* resumed", so only /unskip (or the row's removal) clears a hold.
HoldUntilResumed ==
  [][(Live /\ row.skipped /\ row'.present) => (row'.skipped \/ SetSkipped(FALSE))]_vars
==============================================================================
