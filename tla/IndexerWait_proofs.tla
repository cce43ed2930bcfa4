------------------------- MODULE IndexerWait_proofs -------------------------
(***************************************************************************)
(* What the wait for an indexer does to its row, for any configurations and *)
(* any number of commands.                                                  *)
(*                                                                          *)
(* Two actors write the row from copies.  A copy that nobody outdated is    *)
(* the row (Coherent), and an actor that works holds a row that is not yet  *)
(* admitted (Early): so what an actor decides on its copy and then writes   *)
(* was decided on the row, or is refused, or moves the row nowhere.         *)
(***************************************************************************)
EXTENDS IndexerWait, TLAPS

Coherent == \A x \in Actor : fresh[x] => mem[x] = row

\* FAILED: a run whose lookup gave the row up goes on with it.
Early == \A x \in Actor : at[x] # "idle" => mem[x].state \in PreSsd \cup {"FAILED"}

\* A run that fell back is past its lookup, and its copy has the new window.
NewWindow ==
  direct => \/ at["worker"] = "idle"
            \/ at["worker"] \in {"direct", "supplied"} /\ mem["worker"].clock = "young"

IInv == TypeOK /\ Coherent /\ Early /\ NewWindow

-----------------------------------------------------------------------------
(* Writing.                                                                 *)

LEMMA Actors == "worker" \in Actor /\ "sweep" \in Actor /\ \A x \in Actor : x \in {"worker", "sweep"}
BY DEF Actor

LEMMA InitInv == Init => IInv
<1> SUFFICES ASSUME Init PROVE IInv
  OBVIOUS
<1>1. NewRow \in Row
  BY DEF NewRow, Row
<1>2. row \in Row /\ mem \in [Actor -> Row] /\ fresh \in [Actor -> BOOLEAN]
  BY <1>1 DEF Init
<1>3. /\ at \in [Actor -> WorkerPlace \cup SweepPlace]
      /\ at["worker"] \in WorkerPlace /\ at["sweep"] \in SweepPlace
  BY Actors DEF Init, WorkerPlace, SweepPlace
<1>4. /\ woken \in BOOLEAN /\ direct \in BOOLEAN /\ listed \in BOOLEAN
      /\ cached \in BOOLEAN /\ seeds \in BOOLEAN /\ leader \in BOOLEAN
  BY Zenon DEF Init
<1>6. misses \in 0..2 /\ events \in 0..MaxEvents /\ entry \in {"none", "loading", "complete"}
  BY MaxEventsAssumption DEF Init
<1>7. TypeOK
  BY <1>2, <1>3, <1>4, <1>6 DEF Init, TypeOK
<1>5. Coherent /\ Early /\ NewWindow
  BY DEF Init, Coherent, Early, NewWindow, Actor
<1> QED
  BY <1>7, <1>5 DEF IInv

RowsOK == row \in Row /\ mem \in [Actor -> Row] /\ fresh \in [Actor -> BOOLEAN]

PlacesOK ==
  /\ at \in [Actor -> WorkerPlace \cup SweepPlace]
  /\ at["worker"] \in WorkerPlace /\ at["sweep"] \in SweepPlace

RunOK == woken \in BOOLEAN /\ direct \in BOOLEAN /\ misses \in 0..2

WorldOK ==
  /\ around \in Surroundings /\ listed \in BOOLEAN /\ cached \in BOOLEAN
  /\ seeds \in BOOLEAN /\ leader \in BOOLEAN
  /\ entry \in {"none", "loading", "complete"} /\ events \in 0..MaxEvents

LEMMA TypeParts == TypeOK <=> RowsOK /\ PlacesOK /\ RunOK /\ WorldOK
BY DEF TypeOK, RowsOK, PlacesOK, RunOK, WorldOK

LEMMA TypePartsNext == TypeOK' <=> RowsOK' /\ PlacesOK' /\ RunOK' /\ WorldOK'
BY DEF TypeOK, RowsOK, PlacesOK, RunOK, WorldOK

LEMMA WorldKept == WorldOK /\ UNCHANGED world => WorldOK'
BY DEF WorldOK, world

LEMMA GoesWhere ==
  ASSUME PlacesOK, NEW x \in Actor, NEW where, Goes(x, where),
         where \in IF x = "worker" THEN WorkerPlace ELSE SweepPlace
  PROVE  PlacesOK' /\ at'[x] = where /\ \A y \in Actor : y # x => at'[y] = at[y]
<1>1. at' = [at EXCEPT ![x] = where]
  BY DEF Goes
<1>2. x \in {"worker", "sweep"} /\ "worker" \in Actor /\ "sweep" \in Actor
  BY Actors
<1> QED
  BY <1>1, <1>2 DEF PlacesOK

LEMMA UpsertRow ==
  ASSUME RowsOK, NEW x \in Actor, NEW r \in Row, Upsert(x, r)
  PROVE  /\ RowsOK' /\ Coherent' /\ row' = r /\ mem'[x] = r
         /\ \A y \in Actor : y # x => mem'[y] = mem[y]
<1>1. row' = r /\ mem' = [mem EXCEPT ![x] = r] /\ fresh' = [y \in Actor |-> y = x]
  BY DEF Upsert
<1>2. \A y \in Actor : (y = x) \in BOOLEAN
  OBVIOUS
<1>3. fresh' \in [Actor -> BOOLEAN]
  BY <1>1, <1>2, Zenon
<1>4. mem' \in [Actor -> Row] /\ mem'[x] = r /\ \A y \in Actor : y # x => mem'[y] = mem[y]
  BY <1>1 DEF RowsOK
<1>5. \A y \in Actor : fresh'[y] => y = x
  BY <1>1
<1> QED
  BY <1>1, <1>3, <1>4, <1>5 DEF RowsOK, Coherent

Landed == {"NEW", "WAITING_INDEXER", "QUEUED", "DONE", "FAILED"}

LEMMA TransitionRow ==
  ASSUME RowsOK, Coherent, NEW x \in Actor, NEW r \in Row, NEW dst \in Landed,
         Transition(x, r, dst)
  PROVE  /\ RowsOK' /\ Coherent' /\ \A y \in Actor : y # x => mem'[y] = mem[y]
         /\ \/ UNCHANGED <<row, mem, fresh>>
            \/ /\ mem[x] = row /\ Lands(x, r, dst)
               /\ row' = [r EXCEPT !.state = dst] /\ mem'[x] = row'
               /\ row' \in Row /\ row'.state = dst /\ row'.src = r.src /\ row'.force = r.force
               /\ row'.clock = r.clock
<1>1. CASE Lands(x, r, dst)
  <2> DEFINE q == [r EXCEPT !.state = dst]
  <2>1. q \in Row /\ q.state = dst /\ q.src = r.src /\ q.force = r.force /\ q.clock = r.clock
    BY DEF Row, Landed
  <2>2. Upsert(x, q) /\ fresh[x]
    BY <1>1 DEF Transition, Lands
  <2> HIDE DEF q
  <2>3. /\ RowsOK' /\ Coherent' /\ row' = q /\ mem'[x] = q
        /\ \A y \in Actor : y # x => mem'[y] = mem[y]
    BY <2>1, <2>2, UpsertRow
  <2>4. mem[x] = row
    BY <2>2 DEF Coherent
  <2> QED
    BY <1>1, <2>1, <2>3, <2>4 DEF q
<1>2. CASE ~Lands(x, r, dst)
  <2>1. UNCHANGED <<row, mem, fresh>>
    BY <1>2 DEF Transition
  <2> QED
    BY <2>1 DEF RowsOK, Coherent
<1> QED
  BY <1>1, <1>2

-----------------------------------------------------------------------------
(* What every step is to keep: the invariant and the three promises.        *)

GivenUpLate ==
  (row.state = Waiting /\ row'.state = "FAILED") => (row.clock = "spent" \/ at["worker"] = "lookup" \/ GaveUp)

DirectLives ==
  (direct /\ at["worker"] # "lookup" /\ row.state = Waiting) => row'.state # "FAILED"

OnWord ==
  (row'.state = "QUEUED" /\ row.state # "QUEUED" /\ row'.src = "own"
   /\ ~around.public /\ around.queryable) => row'.force

Kept == IInv' /\ GivenUpLate /\ DirectLives /\ OnWord

\* Nothing is promised of a step that does not touch the state.
LEMMA SameState == row'.state = row.state => GivenUpLate /\ DirectLives /\ OnWord
BY DEF GivenUpLate, DirectLives, OnWord, Waiting

LEMMA Others ==
  ASSUME IInv,
         \/ Happens \/ Polls \/ Loads \/ LeaderGoes
  PROVE  Kept
<1> USE DEF IInv
<1>1. UNCHANGED <<row, mem, fresh, at, woken, direct, misses, around>>
  BY DEF Happens, Polls, Loads, LeaderGoes, book
<1>2. WorldOK'
  <2>1. WorldOK
    BY TypeParts
  <2>2. CASE Happens
    <3>1. events' \in 0..MaxEvents
      BY <2>1, <2>2, MaxEventsAssumption DEF WorldOK, Happens, Unasked
    <3>2. /\ listed' \in BOOLEAN /\ cached' \in BOOLEAN /\ seeds' \in BOOLEAN /\ leader' \in BOOLEAN
          /\ around' \in Surroundings
      BY <1>1, <2>1, <2>2, Zenon DEF WorldOK, Happens
    <3>3. entry' \in {"none", "loading", "complete"}
      BY <2>1, <2>2 DEF WorldOK, Happens
    <3> QED
      BY <3>1, <3>2, <3>3 DEF WorldOK
  <2>3. CASE Polls
    BY <2>1, <2>3, Zenon DEF WorldOK, Polls, book
  <2>4. CASE Loads
    BY <2>1, <2>4 DEF WorldOK, Loads, book
  <2>5. CASE LeaderGoes
    BY <2>1, <2>5, Zenon DEF WorldOK, LeaderGoes, book
  <2> QED
    BY <2>2, <2>3, <2>4, <2>5
<1>3. TypeOK'
  BY <1>1, <1>2, TypeParts, TypePartsNext DEF RowsOK, PlacesOK, RunOK
<1>4. Coherent' /\ Early' /\ NewWindow'
  BY <1>1 DEF Coherent, Early, NewWindow
<1> QED
  BY <1>1, <1>3, <1>4, SameState DEF Kept

\* Time, over a row and every copy of it.
LEMMA Time ==
  ASSUME IInv, TimerElapses \/ ClockElapses
  PROVE  Kept
<1> USE DEF IInv
<1>1. UNCHANGED rest
  BY DEF TimerElapses, ClockElapses
<1>2. PICK after \in [Row -> Row] :
        /\ row' = after[row] /\ mem' = [x \in Actor |-> after[mem[x]]]
        /\ \A r \in Row : after[r].state = r.state
        /\ \A r \in Row : (direct /\ at["worker"] # "idle") => after[r].clock = r.clock
  <2> DEFINE due == [r \in Row |-> IF r.timer = "set" THEN [r EXCEPT !.timer = "due"] ELSE r]
             pdue == [r \in Row |-> IF r.ptimer = "set" THEN [r EXCEPT !.ptimer = "due"] ELSE r]
             spent == [r \in Row |-> IF r.clock = "young" THEN [r EXCEPT !.clock = "spent"] ELSE r]
  <2>1. /\ due \in [Row -> Row] /\ \A r \in Row : due[r].state = r.state /\ due[r].clock = r.clock
        /\ pdue \in [Row -> Row] /\ \A r \in Row : pdue[r].state = r.state /\ pdue[r].clock = r.clock
        /\ spent \in [Row -> Row] /\ \A r \in Row : spent[r].state = r.state
    BY DEF Row
  <2>2. row \in Row /\ \A x \in Actor : mem[x] \in Row
    BY DEF TypeOK
  <2>3. CASE ClockElapses
    <3>1. row' = spent[row] /\ mem' = [x \in Actor |-> spent[mem[x]]]
      BY <2>2, <2>3 DEF ClockElapses
    <3>2. ~(direct /\ at["worker"] # "idle")
      BY <2>3 DEF ClockElapses
    <3> HIDE DEF spent
    <3> QED
      BY <2>1, <3>1, <3>2
  <2>4. CASE TimerElapses
    <3>1. \/ row' = due[row] /\ mem' = [x \in Actor |-> due[mem[x]]]
          \/ row' = pdue[row] /\ mem' = [x \in Actor |-> pdue[mem[x]]]
      BY <2>2, <2>4 DEF TimerElapses
    <3> HIDE DEF due, pdue
    <3> QED
      BY <2>1, <3>1
  <2> QED
    BY <2>3, <2>4
<1>3. row \in Row /\ \A x \in Actor : mem[x] \in Row
  BY DEF TypeOK
<1>4. \A x \in Actor : mem'[x] = after[mem[x]]
  BY <1>2
<1>5. RowsOK'
  BY <1>1, <1>2, <1>3, TypeParts DEF RowsOK, rest
<1>6. TypeOK'
  BY <1>1, <1>5, TypeParts, TypePartsNext DEF PlacesOK, RunOK, WorldOK, rest, world
<1>7. Coherent'
  BY <1>1, <1>2, <1>4 DEF Coherent, rest
<1>8. Early'
  BY <1>1, <1>2, <1>3, <1>4 DEF Early, rest
<1>9. NewWindow'
  BY <1>1, <1>2, <1>3, <1>4, Actors DEF NewWindow, rest
<1>10. row'.state = row.state
  BY <1>2, <1>3
<1> QED
  BY <1>6, <1>7, <1>8, <1>9, <1>10, SameState DEF Kept

\* A row that somebody else wrote makes every copy old.
LEMMA Operator ==
  ASSUME IInv, Fetch \/ Hold \/ Revive
  PROVE  Kept
<1> USE DEF IInv
<1>1. row \in Row
  BY DEF TypeOK
<1>2. PICK r \in Row : Written(r) /\ (r.state = row.state \/ (row.state = "FAILED" /\ r.state = "NEW"))
  <2>1. CASE Fetch
    <3> DEFINE r1 == [row EXCEPT !.force = TRUE, !.clock = "young", !.timer = "due"]
               r2 == [row EXCEPT !.force = TRUE]
    <3>1. r1 \in Row /\ r1.state = row.state /\ r2 \in Row /\ r2.state = row.state
      BY <1>1 DEF Row
    <3>2. Written(r1) \/ Written(r2)
      BY <2>1 DEF Fetch
    <3> HIDE DEF r1, r2
    <3> QED
      BY <3>1, <3>2
  <2>2. CASE Hold
    <3> DEFINE r1 == [row EXCEPT !.held = ~row.held]
    <3>1. r1 \in Row /\ r1.state = row.state
      BY <1>1 DEF Row
    <3>2. Written(r1)
      BY <2>2 DEF Hold
    <3> HIDE DEF r1
    <3> QED
      BY <3>1, <3>2
  <2>3. CASE Revive
    <3> DEFINE r1 == [NewRow EXCEPT !.kind = row.kind, !.held = row.held, !.src = row.src]
    <3>1. r1 \in Row /\ r1.state = "NEW"
      BY <1>1 DEF Row, NewRow
    <3>2. Written(r1) /\ row.state = "FAILED"
      BY <2>3 DEF Revive
    <3> HIDE DEF r1
    <3> QED
      BY <3>1, <3>2
  <2> QED
    BY <2>1, <2>2, <2>3
<1>3. /\ row' = r /\ fresh' = [x \in Actor |-> FALSE] /\ events' \in 0..MaxEvents
      /\ UNCHANGED <<mem, at, woken, direct, misses, around, listed, cached, seeds, entry, leader>>
  BY <1>2, MaxEventsAssumption DEF Written, Unasked, TypeOK
<1>4. RowsOK'
  BY <1>3, TypeParts DEF RowsOK
<1>5. TypeOK'
  BY <1>3, <1>4, TypeParts, TypePartsNext DEF PlacesOK, RunOK, WorldOK
<1>6. Coherent' /\ Early' /\ NewWindow'
  BY <1>3 DEF Coherent, Early, NewWindow
<1>7. GivenUpLate /\ DirectLives /\ OnWord
  BY <1>2, <1>3 DEF GivenUpLate, DirectLives, OnWord, Waiting
<1> QED
  BY <1>5, <1>6, <1>7 DEF Kept

\* An actor that reads the row, or goes on without a write.
LEMMA Starts ==
  ASSUME IInv, Begin \/ SweepBegins \/ SweepListed
  PROVE  Kept
<1> USE DEF IInv
<1>1. UNCHANGED <<row, misses>> /\ UNCHANGED world
  BY DEF Begin, SweepBegins, SweepListed
<1>2. ASSUME NEW x \in Actor, Reads(x)
      PROVE  /\ RowsOK' /\ Coherent' /\ mem'[x] = row
             /\ \A y \in Actor : y # x => mem'[y] = mem[y]
  BY <1>1, <1>2 DEF Reads, RowsOK, Coherent, TypeOK
<1>3. CASE Begin
  <2>1. PICK where \in {"lookup", "fuse"} : Goes("worker", where)
    BY <1>3 DEF Begin
  <2>2. Reads("worker") /\ direct' = FALSE /\ woken' \in BOOLEAN /\ row.state \in PreSsd
    BY <1>3 DEF Begin, PreSsd
  <2>3. PlacesOK' /\ \A y \in Actor : y # "worker" => at'[y] = at[y]
    BY <2>1, TypeParts, Actors, GoesWhere DEF WorkerPlace
  <2>4. /\ RowsOK' /\ Coherent' /\ mem'["worker"] = row
        /\ \A y \in Actor : y # "worker" => mem'[y] = mem[y]
    BY <1>2, <2>2, Actors
  <2>5. RunOK'
    BY <1>1, <2>2, TypeParts DEF RunOK
  <2>6. TypeOK'
    BY <1>1, <2>3, <2>4, <2>5, TypeParts, TypePartsNext, WorldKept
  <2>7. Early' /\ NewWindow'
    BY <2>2, <2>3, <2>4 DEF Early, NewWindow
  <2> QED
    BY <1>1, <2>4, <2>6, <2>7, SameState DEF Kept
<1>4. CASE SweepBegins \/ SweepListed
  <2>1. PICK where \in SweepPlace : Goes("sweep", where)
    BY <1>4 DEF SweepBegins, SweepListed, SweepPlace
  <2>2. UNCHANGED <<woken, direct>>
    BY <1>4 DEF SweepBegins, SweepListed
  <2>3. PlacesOK' /\ at'["sweep"] = where /\ at'["worker"] = at["worker"]
    BY <2>1, TypeParts, Actors, GoesWhere
  <2>4. \/ Reads("sweep") /\ row.state \in PreSsd \cup {"FAILED"}
        \/ UNCHANGED <<mem, fresh>> /\ at'["sweep"] = "idle"
    <3>1. CASE SweepBegins
      BY <3>1 DEF SweepBegins
    <3>2. CASE SweepListed
      <4>1. at["sweep"] = "list"
        BY <3>2 DEF SweepListed
      <4>2. mem["sweep"].state \in PreSsd \cup {"FAILED"}
        BY <4>1, Actors DEF Early
      <4>3. Goes("sweep", "idle") => at'["sweep"] = "idle"
        BY TypeParts, Actors, GoesWhere DEF SweepPlace
      <4> QED
        BY <3>2, <4>2, <4>3 DEF SweepListed
    <3> QED
      BY <1>4, <3>1, <3>2
  <2>5. RowsOK' /\ Coherent' /\ mem'["worker"] = mem["worker"]
    BY <1>1, <1>2, <2>4, Actors, TypeParts DEF RowsOK, Coherent
  <2>6. at'["sweep"] # "idle" => mem'["sweep"].state \in PreSsd \cup {"FAILED"}
    BY <1>2, <2>4, Actors
  <2>7. TypeOK'
    BY <1>1, <2>2, <2>3, <2>5, TypeParts, TypePartsNext, WorldKept DEF RunOK
  <2>8. Early' /\ NewWindow'
    BY <2>2, <2>3, <2>5, <2>6, Actors DEF Early, NewWindow
  <2> QED
    BY <1>1, <2>5, <2>7, <2>8, SameState DEF Kept
<1> QED
  BY <1>3, <1>4

-----------------------------------------------------------------------------
(* The awaits of the two actors.                                            *)

LEMMA ActorStep ==
  ASSUME IInv, NEW x \in Actor, NEW where, Goes(x, where),
         where \in IF x = "worker" THEN WorkerPlace ELSE SweepPlace,
         RowsOK', Coherent', RunOK', UNCHANGED world,
         \A y \in Actor : y # x => mem'[y] = mem[y],
         where # "idle" => mem'[x].state \in PreSsd \cup {"FAILED"},
         x = "sweep" => direct' = direct,
         x = "worker" /\ direct' /\ where # "idle" =>
           where \in {"direct", "supplied"} /\ mem'[x].clock = "young"
  PROVE  IInv'
<1> USE DEF IInv
<1>1. PlacesOK' /\ at'[x] = where /\ \A y \in Actor : y # x => at'[y] = at[y]
  BY TypeParts, GoesWhere
<1>2. TypeOK'
  BY <1>1, TypeParts, TypePartsNext, WorldKept
<1>3. Early'
  BY <1>1 DEF Early
<1>4. NewWindow'
  <2>1. CASE x = "worker"
    BY <1>1, <2>1 DEF NewWindow
  <2>2. CASE x = "sweep"
    BY <1>1, <2>2, Actors DEF NewWindow
  <2> QED
    BY <2>1, <2>2, Actors
<1> QED
  BY <1>2, <1>3, <1>4

\* What a wake-up, a look at the mount and an adoption go on to.
LEMMA OnFromFuse ==
  ASSUME NEW x \in Actor, AfterFuse(x)
  PROVE  \E where \in {"idle", "ssd", "pick"} :
           Goes(x, where) /\ (x = "sweep" => where = "idle")
BY DEF AfterFuse

LEMMA Adopting ==
  ASSUME IInv, NEW x \in Actor, Fuse(x) \/ Adopt(x)
  PROVE  Kept
<1> USE DEF IInv
<1>1. /\ UNCHANGED <<woken, direct, misses>> /\ UNCHANGED world /\ at[x] \in {"fuse", "adopt"}
      /\ mem[x].state \in PreSsd \cup {"FAILED"} /\ mem[x] \in Row
  BY DEF Fuse, Adopt, Early, TypeOK
<1>2. RunOK' /\ RowsOK
  BY <1>1, TypeParts DEF RunOK
<1>3. x = "worker" => ~direct
  BY <1>1 DEF NewWindow
<1>4. ASSUME NEW where \in {"idle", "ssd", "pick", "adopt"}, Goes(x, where),
             x = "sweep" => where \in {"idle", "adopt"},
             RowsOK', Coherent', \A y \in Actor : y # x => mem'[y] = mem[y],
             where # "idle" => mem'[x].state \in PreSsd \cup {"FAILED"}
      PROVE  IInv'
  <2>1. where \in IF x = "worker" THEN WorkerPlace ELSE SweepPlace
    BY <1>4, Actors DEF WorkerPlace, SweepPlace
  <2> QED
    BY <1>1, <1>2, <1>3, <1>4, <2>1, ActorStep
<1>5. ASSUME AfterFuse(x), UNCHANGED <<row, mem, fresh>> PROVE Kept
  <2>1. RowsOK' /\ Coherent'
    BY <1>2, <1>5 DEF RowsOK, Coherent
  <2>2. PICK where \in {"idle", "ssd", "pick"} : Goes(x, where) /\ (x = "sweep" => where = "idle")
    BY <1>5, OnFromFuse
  <2>3. IInv'
    BY <1>1, <1>4, <1>5, <2>1, <2>2
  <2> QED
    BY <1>5, <2>3, SameState DEF Kept
<1>6. CASE Fuse(x)
  <2>1. CASE AfterFuse(x) /\ Keep
    BY <1>5, <2>1 DEF Keep
  <2>2. CASE Goes(x, "adopt") /\ Keep
    <3>1. RowsOK' /\ Coherent'
      BY <1>2, <2>2 DEF RowsOK, Coherent, Keep
    <3>2. IInv'
      BY <1>1, <1>4, <2>2, <3>1 DEF Keep
    <3> QED
      BY <2>2, <3>2, SameState DEF Kept, Keep
  <2>3. CASE /\ mem[x].state \in PreSsd /\ Goes(x, "adopt")
             /\ Upsert(x, [mem[x] EXCEPT !.kind = TRUE])
    <3> DEFINE r == [mem[x] EXCEPT !.kind = TRUE]
    <3>1. r \in Row /\ r.state = mem[x].state
      BY <1>1 DEF Row
    <3>2. Upsert(x, r)
      BY <2>3
    <3> HIDE DEF r
    <3>3. /\ RowsOK' /\ Coherent' /\ row' = r /\ mem'[x] = r
          /\ \A y \in Actor : y # x => mem'[y] = mem[y]
      BY <1>2, <3>1, <3>2, UpsertRow
    <3>4. IInv'
      BY <1>1, <1>4, <2>3, <3>1, <3>3
    <3>5. row'.state \in PreSsd
      BY <2>3, <3>1, <3>3
    <3>6. GivenUpLate /\ DirectLives /\ OnWord
      BY <3>5 DEF GivenUpLate, DirectLives, OnWord, PreSsd, Waiting
    <3> QED
      BY <3>4, <3>6 DEF Kept
  <2> QED
    BY <1>6, <2>1, <2>2, <2>3 DEF Fuse
<1>7. CASE Adopt(x)
  <2>1. /\ RowsOK' /\ Coherent' /\ \A y \in Actor : y # x => mem'[y] = mem[y]
        /\ \/ UNCHANGED <<row, mem, fresh>>
           \/ Lands(x, mem[x], "DONE") /\ row'.state = "DONE"
    BY <1>1, <1>2, <1>7, TransitionRow DEF Adopt, Landed
  <2>2. CASE AfterFuse(x) /\ UNCHANGED <<row, mem, fresh>>
    BY <1>5, <2>2
  <2>3. CASE Goes(x, "idle")
    <3>1. IInv'
      BY <1>4, <2>1, <2>3
    <3>2. GivenUpLate /\ DirectLives /\ OnWord
      BY <2>1, SameState DEF GivenUpLate, DirectLives, OnWord, Waiting
    <3> QED
      BY <3>1, <3>2 DEF Kept
  <2>4. AfterFuse(x) => UNCHANGED <<row, mem, fresh>> \/ Goes(x, "idle")
    BY <1>7, <2>1 DEF Adopt
  <2> QED
    BY <1>7, <2>2, <2>3, <2>4 DEF Adopt
<1> QED
  BY <1>6, <1>7

\* A step of the worker that writes nothing.
LEMMA WorkerGoes ==
  ASSUME IInv, NEW where \in WorkerPlace, Goes("worker", where), at["worker"] # "idle",
         UNCHANGED <<row, mem, fresh, direct>>, RunOK', UNCHANGED world,
         direct => where \in {"idle", "direct", "supplied"}
  PROVE  Kept
<1> USE DEF IInv
<1>1. RowsOK' /\ Coherent' /\ mem["worker"].state \in PreSsd \cup {"FAILED"}
  BY TypeParts, Actors DEF RowsOK, Coherent, Early
<1>2. direct' /\ where # "idle" => mem'["worker"].clock = "young"
  BY DEF NewWindow
<1>3. IInv'
  BY <1>1, <1>2, ActorStep, Actors
<1> QED
  BY <1>3, SameState DEF Kept

\* A step of the worker that ends in a transition to QUEUED or FAILED, or
\* goes on where it is refused.
LEMMA WorkerMoves ==
  ASSUME IInv, NEW r \in Row, NEW dst \in {"QUEUED", "FAILED"}, at["worker"] # "idle",
         Transition("worker", r, dst), UNCHANGED direct, RunOK', UNCHANGED world,
         NEW where \in {"idle", "lookup"}, Goes("worker", where),
         where = "lookup" => ~direct /\ ~Lands("worker", r, dst),
         dst = "FAILED" /\ at["worker"] # "lookup" => ~direct /\ mem["worker"].clock = "spent",
         (dst = "QUEUED" /\ r.src = "own" /\ ~around.public /\ around.queryable) => r.force
  PROVE  Kept
<1> USE DEF IInv
<1>1. RowsOK /\ mem["worker"].state \in PreSsd \cup {"FAILED"}
  BY TypeParts, Actors DEF Early
<1>2. /\ RowsOK' /\ Coherent' /\ \A y \in Actor : y # "worker" => mem'[y] = mem[y]
      /\ \/ UNCHANGED <<row, mem, fresh>>
         \/ /\ mem["worker"] = row /\ Lands("worker", r, dst) /\ row'.state = dst
            /\ row'.src = r.src /\ row'.force = r.force
  BY <1>1, Actors, TransitionRow DEF Landed
<1>3. IInv'
  BY <1>1, <1>2, ActorStep, Actors DEF WorkerPlace
<1>4. GivenUpLate /\ DirectLives /\ OnWord
  <2>1. CASE UNCHANGED <<row, mem, fresh>>
    BY <2>1, SameState
  <2>2. CASE mem["worker"] = row /\ row'.state = dst /\ row'.src = r.src /\ row'.force = r.force
    BY <2>2 DEF GivenUpLate, DirectLives, OnWord
  <2> QED
    BY <1>2, <2>1, <2>2
<1> QED
  BY <1>3, <1>4 DEF Kept

\* A step of the worker that writes its row back with other schedules.
LEMMA WorkerWrites ==
  ASSUME IInv, NEW r \in Row, at["worker"] # "idle",
         r.state = mem["worker"].state,
         r.state = "FAILED" => ~direct \/ at["worker"] = "lookup",
         Upsert("worker", r), RunOK', UNCHANGED world,
         NEW where \in WorkerPlace, Goes("worker", where),
         direct' /\ where # "idle" => where \in {"direct", "supplied"} /\ r.clock = "young"
  PROVE  Kept
<1> USE DEF IInv
<1>1. RowsOK /\ r.state \in PreSsd \cup {"FAILED"}
  BY TypeParts, Actors DEF Early
<1>2. /\ RowsOK' /\ Coherent' /\ row' = r /\ mem'["worker"] = r
      /\ \A y \in Actor : y # "worker" => mem'[y] = mem[y]
  BY <1>1, UpsertRow, Actors
<1>3. IInv'
  BY <1>1, <1>2, ActorStep, Actors
<1>4. GivenUpLate /\ DirectLives /\ OnWord
  BY <1>1, <1>2 DEF GivenUpLate, DirectLives, OnWord, PreSsd, Waiting, GaveUp
<1> QED
  BY <1>3, <1>4 DEF Kept

\* Parking: the row waits on, or begins to, or is given up by its clock.
LEMMA ParkRow ==
  ASSUME RowsOK, Coherent, mem["worker"].state \in PreSsd \cup {"FAILED"},
         NEW reason, Park(Mine, reason)
  PROVE  /\ RowsOK' /\ Coherent' /\ \A y \in Actor : y # "worker" => mem'[y] = mem[y]
         /\ \/ UNCHANGED <<row, mem, fresh>>
            \/ row'.state = Waiting /\ mem'["worker"] = row'
            \/ /\ row'.state = "FAILED" /\ mem'["worker"] = row'
               /\ mem["worker"] = row /\ row.clock = "spent"
<1>1. "worker" \in Actor /\ Mine \in Row
  BY Actors DEF RowsOK, Mine
<1>2. ASSUME NEW q \in Row, q.state = Mine.state, Parked(q)
      PROVE  /\ RowsOK' /\ Coherent' /\ \A y \in Actor : y # "worker" => mem'[y] = mem[y]
             /\ \/ UNCHANGED <<row, mem, fresh>>
                \/ row'.state = Waiting /\ mem'["worker"] = row'
  <2>1. CASE q.state = Waiting
    <3>1. Upsert("worker", q)
      BY <1>2, <2>1 DEF Parked
    <3> QED
      BY <1>1, <1>2, <2>1, <3>1, UpsertRow
  <2>2. CASE q.state # Waiting
    <3>1. Transition("worker", q, Waiting) /\ Waiting \in Landed
      BY <1>2, <2>2 DEF Parked, Landed, Waiting
    <3> QED
      BY <1>1, <1>2, <3>1, TransitionRow
  <2> QED
    BY <2>1, <2>2
<1>3. CASE reason = "export"
  <2> DEFINE q == [Mine EXCEPT !.ptimer = "set"]
  <2>1. q \in Row /\ q.state = Mine.state
    BY <1>1 DEF Row
  <2>2. Parked(q)
    BY <1>3 DEF Park
  <2> HIDE DEF q
  <2> QED
    BY <1>2, <2>1, <2>2
<1>4. CASE reason # "export"
  <2> DEFINE q == [Mine EXCEPT !.timer = "set",
                               !.clock = IF Mine.clock = "none" THEN "young" ELSE Mine.clock]
  <2>1. q \in Row /\ q.state = Mine.state /\ (q.clock = "spent" => Mine.clock = "spent")
    BY <1>1 DEF Row
  <2>2. IF q.clock = "spent" THEN Transition("worker", q, "FAILED") ELSE Parked(q)
    BY <1>1, <1>4 DEF Park, Row
  <2> HIDE DEF q
  <2>3. CASE q.clock = "spent"
    <3>1. /\ RowsOK' /\ Coherent' /\ \A y \in Actor : y # "worker" => mem'[y] = mem[y]
          /\ \/ UNCHANGED <<row, mem, fresh>>
             \/ mem["worker"] = row /\ row'.state = "FAILED" /\ mem'["worker"] = row'
      BY <1>1, <2>1, <2>2, <2>3, TransitionRow DEF Landed
    <3> QED
      BY <2>1, <2>3, <3>1 DEF Mine
  <2>4. CASE q.clock # "spent"
    BY <1>2, <2>1, <2>2, <2>4
  <2> QED
    BY <2>3, <2>4
<1> QED
  BY <1>3, <1>4

LEMMA Looking ==
  ASSUME IInv, Look \/ LookFails
  PROVE  Kept
<1> USE DEF IInv
<1>1. /\ at["worker"] = "lookup" /\ UNCHANGED <<woken, direct>> /\ UNCHANGED world
      /\ ~direct
  BY DEF Look, LookFails, NewWindow
<1>2. RowsOK /\ Mine \in Row /\ mem["worker"].state \in PreSsd \cup {"FAILED"} /\ "worker" \in Actor
  BY <1>1, TypeParts, Actors DEF RowsOK, Early, Mine
<1>3. RunOK'
  <2>1. misses' \in 0..2
    BY DEF Look, LookFails, TypeOK
  <2> QED
    BY <1>1, <2>1, TypeParts DEF RunOK
<1>4. AfterLookup => \E where \in {"fuse", "pick", "idle"} : Goes("worker", where)
  BY DEF AfterLookup, Ends
<1>5. ASSUME NEW where \in {"fuse", "pick", "idle"}, Goes("worker", where), Keep
      PROVE  Kept
  BY <1>1, <1>3, <1>5, WorkerGoes DEF Keep, WorkerPlace
<1>6. ASSUME NEW where \in {"fuse", "pick", "idle"}, Goes("worker", where),
             Transition("worker", Mine, "FAILED"), where = "idle"
      PROVE  Kept
  <2>1. row.state = Waiting /\ row'.state = "FAILED" => at["worker"] = "lookup"
    BY <1>1
  <2> QED
    BY <1>1, <1>2, <1>3, <1>6, WorkerMoves
<1>7. CASE LookFails
  BY <1>5, <1>6, <1>7 DEF LookFails, Ends
<1>8. CASE Look
  <2>1. CASE Keep /\ (AfterLookup \/ Ends)
    BY <1>4, <1>5, <2>1 DEF Ends
  <2>2. CASE AfterLookup /\ Upsert("worker", Deferred(Mine))
    <3>1. Deferred(Mine) \in Row /\ Deferred(Mine).state = mem["worker"].state
      BY <1>2 DEF Deferred, Row, Mine
    <3>2. PICK where \in {"fuse", "pick", "idle"} : Goes("worker", where)
      BY <1>4, <2>2
    <3> QED
      BY <1>1, <1>3, <2>2, <3>1, <3>2, WorkerWrites DEF WorkerPlace
  <2>3. CASE Park(Mine, "indexer") /\ (AfterLookup \/ Ends)
    <3>1. PICK where \in {"fuse", "pick", "idle"} : Goes("worker", where)
      BY <1>4, <2>3 DEF Ends
    <3>2. /\ RowsOK' /\ Coherent' /\ \A y \in Actor : y # "worker" => mem'[y] = mem[y]
          /\ \/ UNCHANGED <<row, mem, fresh>>
             \/ row'.state \in {Waiting, "FAILED"} /\ mem'["worker"] = row'
      BY <1>2, <2>3, ParkRow
    <3>3. mem'["worker"].state \in PreSsd \cup {"FAILED"}
      BY <1>2, <3>2 DEF PreSsd
    <3>4. IInv'
      BY <1>1, <1>2, <1>3, <3>1, <3>2, <3>3, ActorStep DEF WorkerPlace
    <3>5. GivenUpLate /\ DirectLives /\ OnWord
      BY <1>1, <3>2, SameState DEF GivenUpLate, DirectLives, OnWord, Waiting
    <3> QED
      BY <3>4, <3>5 DEF Kept
  <2>4. CASE Transition("worker", Mine, "FAILED") /\ Ends
    BY <1>6, <2>4 DEF Ends
  <2> QED
    BY <1>8, <2>1, <2>2, <2>3, <2>4 DEF Look
<1> QED
  BY <1>7, <1>8

\* An admission: what is picked is the row's source from then on.
LEMMA Admitting ==
  ASSUME IInv, at["worker"] \in {"pick", "direct", "supplied"}, NEW src, Admits(src),
         src \in {"own", "cross", "supplied"},
         (src = "own" /\ ~around.public /\ around.queryable) => Mine.force,
         UNCHANGED <<woken, direct, misses>>, UNCHANGED world
  PROVE  Kept
<1> USE DEF IInv
<1> DEFINE r == [Mine EXCEPT !.src = src]
<1>1. r \in Row /\ r.src = src /\ r.force = Mine.force
  BY TypeParts, Actors DEF RowsOK, Mine, Row
<1>2. Transition("worker", r, "QUEUED") /\ Goes("worker", "idle")
  BY DEF Admits, Ends
<1>3. RunOK'
  BY TypeParts DEF RunOK
<1> HIDE DEF r
<1> QED
  BY <1>1, <1>2, <1>3, WorkerMoves

LEMMA Shortcut ==
  ASSUME IInv, Ssd
  PROVE  Kept
<1> USE DEF IInv
<1>1. /\ at["worker"] = "ssd" /\ UNCHANGED <<woken, direct, misses>> /\ UNCHANGED world
      /\ ~direct
  BY DEF Ssd, NewWindow
<1>2. Mine \in Row /\ mem["worker"].state \in PreSsd \cup {"FAILED"} /\ RunOK'
  BY <1>1, TypeParts, Actors DEF RowsOK, Early, Mine, RunOK
<1>3. CASE Goes("worker", "lookup") /\ Keep
  BY <1>1, <1>2, <1>3, WorkerGoes DEF Keep, WorkerPlace
<1>4. CASE /\ Transition("worker", [Mine EXCEPT !.src = "ssd"], "QUEUED")
           /\ IF Lands("worker", Mine, "QUEUED") THEN Ends ELSE Goes("worker", "lookup")
  <2> DEFINE r == [Mine EXCEPT !.src = "ssd"]
  <2>1. r \in Row /\ r.src = "ssd" /\ r.state = Mine.state
    BY <1>2 DEF Row
  <2>2. Transition("worker", r, "QUEUED")
    BY <1>4
  <2> HIDE DEF r
  <2>3. Lands("worker", r, "QUEUED") <=> Lands("worker", Mine, "QUEUED")
    BY <2>1 DEF Lands
  <2>4. PICK where \in {"idle", "lookup"} :
          Goes("worker", where) /\ (where = "lookup" => ~Lands("worker", r, "QUEUED"))
    BY <1>4, <2>3 DEF Ends
  <2> QED
    BY <1>1, <1>2, <2>1, <2>2, <2>4, WorkerMoves
<1>5. CASE Upsert("worker", [Mine EXCEPT !.timer = "set"]) /\ Ends
  <2> DEFINE r == [Mine EXCEPT !.timer = "set"]
  <2>1. r \in Row /\ r.state = mem["worker"].state
    BY <1>2 DEF Row, Mine
  <2>2. Upsert("worker", r) /\ Goes("worker", "idle")
    BY <1>5 DEF Ends
  <2> HIDE DEF r
  <2> QED
    BY <1>1, <1>2, <2>1, <2>2, WorkerWrites DEF WorkerPlace
<1> QED
  BY <1>3, <1>4, <1>5 DEF Ssd

LEMMA Picking ==
  ASSUME IInv, Pick \/ PickDirect
  PROVE  Kept
<1> USE DEF IInv
<1>1. UNCHANGED <<woken, misses>> /\ UNCHANGED world
  BY DEF Pick, PickDirect
<1>2. at["worker"] \in {"pick", "direct"} /\ (at["worker"] = "pick" => ~direct)
  BY DEF Pick, PickDirect, NewWindow
<1>3. /\ Mine \in Row /\ mem["worker"].state \in PreSsd \cup {"FAILED"}
      /\ woken' \in BOOLEAN /\ misses' \in 0..2 /\ direct \in BOOLEAN
  BY <1>1, <1>2, TypeParts, Actors DEF RowsOK, Early, Mine, RunOK
<1>4. \A src \in Picked(Mine) :
        /\ src \in {"own", "cross", "none"}
        /\ (src = "own" /\ ~around.public /\ around.queryable) => Mine.force
  BY DEF Picked
<1>5. ASSUME NEW src \in Picked(Mine), src # "none", Admits(src), UNCHANGED direct PROVE Kept
  BY <1>1, <1>2, <1>4, <1>5, Admitting
<1>6. ASSUME NEW where \in {"idle", "supplied"}, Goes("worker", where), Keep, UNCHANGED direct
      PROVE  Kept
  BY <1>1, <1>2, <1>3, <1>6, WorkerGoes DEF RunOK, Keep, WorkerPlace
<1>7. CASE PickDirect
  <2>1. PICK src \in Picked(Mine) :
          IF src = "none" THEN Goes("worker", "supplied") /\ Keep ELSE Admits(src)
    BY <1>7 DEF PickDirect
  <2>2. UNCHANGED direct
    BY <1>7 DEF PickDirect
  <2> QED
    BY <1>5, <1>6, <2>1, <2>2
<1>8. CASE Pick
  <2>1. PICK src \in Picked(Mine) :
          \/ src # "none" /\ Admits(src) /\ UNCHANGED direct
          \/ Ends /\ Keep /\ UNCHANGED direct
          \/ Upsert("worker", Window(Mine)) /\ Goes("worker", "direct") /\ direct' = TRUE
          \/ Goes("worker", "supplied") /\ Keep /\ UNCHANGED direct
    BY <1>8 DEF Pick
  <2>2. CASE Upsert("worker", Window(Mine)) /\ Goes("worker", "direct") /\ direct' = TRUE
    <3>1. /\ Window(Mine) \in Row /\ Window(Mine).state = mem["worker"].state
          /\ Window(Mine).clock = "young"
      BY <1>3 DEF Window, Row, Mine
    <3>2. RunOK' /\ ~direct
      BY <1>2, <1>3, <1>8, <2>2 DEF RunOK, Pick
    <3> QED
      BY <1>1, <1>2, <2>2, <3>1, <3>2, WorkerWrites DEF WorkerPlace
  <2> QED
    BY <1>5, <1>6, <2>1, <2>2 DEF Ends
<1> QED
  BY <1>7, <1>8

LEMMA Supplying ==
  ASSUME IInv, Supplied
  PROVE  Kept
<1> USE DEF IInv
<1>1. at["worker"] = "supplied" /\ UNCHANGED <<woken, direct, misses>> /\ UNCHANGED world
  BY DEF Supplied
<1>2. /\ RowsOK /\ mem["worker"].state \in PreSsd \cup {"FAILED"} /\ RunOK' /\ "worker" \in Actor
      /\ direct => mem["worker"].clock = "young"
  BY <1>1, TypeParts, Actors DEF Early, RunOK, NewWindow
<1>3. CASE Admits("supplied")
  BY <1>1, <1>3, Admitting
<1>4. CASE Park(Mine, Reason) /\ Ends
  <2>1. /\ RowsOK' /\ Coherent' /\ \A y \in Actor : y # "worker" => mem'[y] = mem[y]
        /\ \/ UNCHANGED <<row, mem, fresh>>
           \/ row'.state = Waiting
           \/ row'.state = "FAILED" /\ mem["worker"] = row /\ row.clock = "spent"
    BY <1>2, <1>4, ParkRow
  <2>2. IInv'
    BY <1>1, <1>2, <1>4, <2>1, ActorStep DEF Ends, WorkerPlace
  <2>3. GivenUpLate /\ DirectLives /\ OnWord
    BY <1>2, <2>1, SameState DEF GivenUpLate, DirectLives, OnWord, Waiting
  <2> QED
    BY <2>2, <2>3 DEF Kept
<1> QED
  BY <1>3, <1>4 DEF Supplied

LEMMA StepKept ==
  ASSUME IInv, [Next]_vars
  PROVE  Kept
<1>1. CASE UNCHANGED vars
  <2>1. IInv'
    BY <1>1 DEF vars, IInv, TypeOK, Coherent, Early, NewWindow
  <2> QED
    BY <1>1, <2>1, SameState DEF Kept, vars
<1>2. CASE Next
  BY <1>2, Starts, Looking, Adopting, Shortcut, Picking, Supplying, Time, Operator, Others
     DEF Next, Answers
<1> QED
  BY <1>1, <1>2

LEMMA InvHolds == Spec => []IInv
<1>1. IInv /\ [Next]_vars => IInv'
  BY StepKept DEF Kept
<1> QED
  BY <1>1, InitInv, PTL DEF Spec

-----------------------------------------------------------------------------
\* Every variable keeps its type.
THEOREM TypeCorrect == Spec => []TypeOK
BY InvHolds, PTL DEF IInv

\* A wait is given up when its window has passed, by the lookup, or by a run
\* that gave its row up before: _park_for_indexer_retry decides on a copy that
\* is the row, or transition() refuses it.
THEOREM WindowHolds == Spec => WindowRespected
<1>1. IInv /\ [Next]_vars =>
        [(row.state = Waiting /\ row'.state = "FAILED")
           => (row.clock = "spent" \/ at["worker"] = "lookup" \/ GaveUp)]_vars
  BY StepKept DEF Kept, GivenUpLate
<1> QED
  BY <1>1, InvHolds, PTL DEF Spec, WindowRespected

\* The run that falls back to the racing client's bytes does not fail a row
\* that waits: it parks it under the window it opened.
THEOREM DirectHolds == Spec => DirectWindowOpen
<1>1. IInv /\ [Next]_vars =>
        [(direct /\ at["worker"] # "lookup" /\ row.state = Waiting) => row'.state # "FAILED"]_vars
  BY StepKept DEF Kept, DirectLives
<1> QED
  BY <1>1, InvHolds, PTL DEF Spec, DirectWindowOpen

\* The private swarm of a torrent that indexers can be asked for is leeched
\* only under force_direct: _pick_and_admit makes the query unless it is set.
THEOREM LeechesHolds == Spec => LeechesOnlyOnWord
<1>1. IInv /\ [Next]_vars =>
        [(row'.state = "QUEUED" /\ row.state # "QUEUED" /\ row'.src = "own"
          /\ ~around.public /\ around.queryable) => row'.force]_vars
  BY StepKept DEF Kept, OnWord
<1> QED
  BY <1>1, InvHolds, PTL DEF Spec, LeechesOnlyOnWord

=============================================================================
