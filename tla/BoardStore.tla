----------------------------- MODULE BoardStore -----------------------------
(***************************************************************************)
(* How one board's document is kept: the room a sync server holds in       *)
(* memory, the window of snapshot rows in board_updates, the copies the    *)
(* editors keep in IndexedDB, and the two maintenance scripts that rewrite *)
(* the rows.                                                               *)
(*                                                                         *)
(* A document is the set of Yjs items ever inserted and the set of those   *)
(* deleted since; merging is union, so it is idempotent and commutative.   *)
(* A state vector counts insertions only: a deletion adds to the delete    *)
(* set and moves no clock.  An item is a shape or a comment thread under   *)
(* the identity it was drawn with, or under the fresh one a rebuilt        *)
(* document gives it.                                                      *)
(*                                                                         *)
(* The servers share no broker here: each holds its own copy of a room.    *)
(***************************************************************************)
EXTENDS Integers, SequencesExt

CONSTANTS
  Client,           \* editors that open the board
  Server,           \* sync-server processes
  Shape,            \* entries of the document's "shapes" array
  Thread,           \* entries of its "comments" map
  Offline,          \* where an unconnected client is
  Unloaded,         \* a room no process holds
  RETENTION,        \* SNAPSHOT_RETENTION
  Maintenance,      \* the scripts that may run: "compact", "backfill"
  Legacy,           \* the rows a board may start with: what saves never wrote,
                    \* the deltas the removed HTTP append path left
  MaxRows,          \* bound: rows of one board
  MaxSaving,        \* bound: saves of one room in flight together
  MaxFailedLoads,   \* bound: loads the database fails
  MaxFailedSaves    \* bound: saves the database or the size cap refuses

ASSUME RetentionAssumption == RETENTION \in Nat \ {0}
ASSUME PlaceAssumption == Offline \notin Server
ASSUME BoundsAssumption ==
  MaxSaving \in Nat /\ MaxFailedLoads \in Nat /\ MaxFailedSaves \in Nat
ASSUME MaintenanceAssumption == Maintenance \subseteq {"compact", "backfill"}
ASSUME MaxRowsAssumption == MaxRows \in Nat /\ MaxRows > RETENTION

Content == Shape \cup Thread
Item == Content \X {"drawn", "rebuilt"}
Doc == [ins: SUBSET Item, del: SUBSET Item]
Room == Doc \cup {Unloaded}
NoVector == {<<Unloaded, "drawn">>}
ASSUME ValueAssumption == Unloaded \notin Doc /\ Unloaded \notin Content
ASSUME LegacyAssumption == \A rs \in Legacy : rs \in Seq(Doc) /\ Len(rs) <= MaxRows

VARIABLES
  rows,     \* the board's rows of board_updates, oldest first
  room,     \* the Y.Doc each server holds
  vector,   \* lastPersistedVector, per server
  due,      \* whether a store of the room is scheduled
  saving,   \* the snapshots encoded and handed to saveSnapshot
  at,       \* the server each client is connected to
  cache,    \* each client's document, mirrored into IndexedDB
  untouched,\* whether the newest row is older than the idle window
  script,   \* the maintenance run in progress
  ranOnce,  \* whether "compact" has rewritten the board: bounds it to once
  failed    \* how often the database refused a load and a save

persisted == <<rows, untouched>>
memory == <<room, vector, due, saving>>
editors == <<at, cache>>
maintenance == <<script, ranOnce>>
vars == <<persisted, memory, editors, maintenance, failed>>

Empty == [ins |-> {}, del |-> {}]
Merge(d, e) == [ins |-> d.ins \cup e.ins, del |-> d.del \cup e.del]
MergeAll(ds) == [ins |-> UNION {d.ins : d \in ds}, del |-> UNION {d.del : d \in ds}]
Visible(d) == d.ins \ d.del
Elements(seq) == {seq[i] : i \in DOMAIN seq}

\* The newest n elements of a sequence, or all of them.
Newest(n, seq) ==
  IF Len(seq) <= n THEN seq ELSE SubSeq(seq, Len(seq) - n + 1, Len(seq))

\* What loadSnapshot reads back: the merge of the retention window.
Window(rs) == MergeAll(Elements(Newest(RETENTION, rs)))
Stored == Window(rows)

\* Mutant of Saved: the prune keeps only the row just written.
KeptOwn(d) == <<d>>

\* Mutant of Saved: nothing is pruned.
NeverPruned(d) == Append(rows, d)

\* The rows once saveSnapshot has committed: insert, then prune to the window.
Saved(d) == Newest(RETENTION, Append(rows, d))

NoScript == [step |-> "off", kind |-> "none", read |-> Empty, since |-> 0]
Script ==
  [step: {"off", "chosen", "read"}, kind: {"none", "compact", "backfill"},
   read: Doc, since: 0..RETENTION]

Connected(s) == {c \in Client : at[c] = s}
Loaded(s) == room[s] # Unloaded

Init ==
  /\ rows \in Legacy /\ untouched = FALSE
  /\ room = [s \in Server |-> Unloaded]
  /\ vector = [s \in Server |-> NoVector]
  /\ due = [s \in Server |-> FALSE]
  /\ saving = [s \in Server |-> <<>>]
  /\ at = [c \in Client |-> Offline]
  /\ cache = [c \in Client |-> Empty]
  /\ script = NoScript /\ ranOnce = FALSE
  /\ failed = [loads |-> 0, saves |-> 0]

-----------------------------------------------------------------------------
(***************************************************************************)
(* Editing.  A connected client's change reaches the room and everyone in  *)
(* it, and schedules a store; an unconnected one stays in its own copy.    *)
(***************************************************************************)
Publish(s, d, there) ==
  /\ room' = [room EXCEPT ![s] = d]
  /\ cache' = [c \in Client |-> IF c \in there THEN d ELSE cache[c]]

Edit(c, d) ==
  /\ \/ /\ at[c] = Offline
        /\ cache' = [cache EXCEPT ![c] = d]
        /\ UNCHANGED <<room, due>>
     \/ /\ at[c] # Offline
        /\ Publish(at[c], d, Connected(at[c]))
        /\ due' = [due EXCEPT ![at[c]] = TRUE]
  /\ UNCHANGED <<persisted, vector, saving, at, maintenance, failed>>

\* Where an item can still be read from: nobody draws the same shape twice.
Everywhere ==
  LET docs == {cache[c] : c \in Client} \cup {room[s] : s \in {z \in Server : Loaded(z)}}
              \cup UNION {Elements(saving[s]) : s \in Server}
              \cup Elements(rows) \cup {script.read}
  IN MergeAll(docs)
Drawn == {i[1] : i \in Everywhere.ins}

Insert(c, x) ==
  /\ x \in Content \ Drawn
  /\ Edit(c, [cache[c] EXCEPT !.ins = @ \cup {<<x, "drawn">>}])

Delete(c, x) ==
  /\ x \in Visible(cache[c])
  /\ Edit(c, [cache[c] EXCEPT !.del = @ \cup {x}])

-----------------------------------------------------------------------------
(***************************************************************************)
(* Connections.  The first one in makes the server load the board; the     *)
(* editor's cached copy is then merged with the room, both ways.  The last *)
(* one out schedules a store.                                              *)
(***************************************************************************)
Sync(c, s, base) ==
  LET merged == Merge(base, cache[c]) IN
  /\ at' = [at EXCEPT ![c] = s]
  /\ Publish(s, merged, Connected(s) \cup {c})
  /\ due' = [due EXCEPT ![s] = @ \/ merged # base]

JoinRoom(c, s) ==
  /\ at[c] = Offline /\ Loaded(s)
  /\ Sync(c, s, room[s])
  /\ UNCHANGED <<persisted, vector, saving, maintenance, failed>>

LoadDocument(c, s) ==
  /\ at[c] = Offline /\ ~Loaded(s)
  /\ Sync(c, s, Stored)
  /\ vector' = [vector EXCEPT ![s] = IF rows = <<>> THEN @ ELSE Stored.ins]
  /\ UNCHANGED <<persisted, saving, maintenance, failed>>

\* onLoadDocument swallows the error and hands out an empty document.
LoadFails(c, s) ==
  /\ at[c] = Offline /\ ~Loaded(s)
  /\ failed.loads < MaxFailedLoads
  /\ failed' = [failed EXCEPT !.loads = @ + 1]
  /\ Sync(c, s, Empty)
  /\ UNCHANGED <<persisted, vector, saving, maintenance>>

Disconnect(c) ==
  /\ at[c] # Offline
  /\ at' = [at EXCEPT ![c] = Offline]
  /\ due' = [due EXCEPT ![at[c]] = @ \/ Connected(at[c]) = {c}]
  /\ UNCHANGED <<persisted, room, vector, saving, cache, maintenance, failed>>

\* Signing out, or a browser that keeps no IndexedDB.
PurgeCache(c) ==
  /\ at[c] = Offline /\ cache[c] # Empty
  /\ cache' = [cache EXCEPT ![c] = Empty]
  /\ UNCHANGED <<persisted, memory, at, maintenance, failed>>

-----------------------------------------------------------------------------
(***************************************************************************)
(* The store path.  onStoreDocument encodes the room, awaits saveSnapshot, *)
(* and only then records the vector it encoded; edits go on meanwhile.     *)
(***************************************************************************)
\* Mutant of IsUnchanged: any vector recorded counts as nothing new.
SavedBefore(s) == vector[s] # NoVector

IsUnchanged(s) == vector[s] = room[s].ins

SkipStore(s) ==
  /\ due[s] /\ Loaded(s) /\ IsUnchanged(s)
  /\ due' = [due EXCEPT ![s] = FALSE]
  /\ UNCHANGED <<persisted, room, vector, saving, editors, maintenance, failed>>

BeginStore(s) ==
  /\ due[s] /\ Loaded(s) /\ ~IsUnchanged(s)
  /\ Len(saving[s]) < MaxSaving
  /\ due' = [due EXCEPT ![s] = FALSE]
  /\ saving' = [saving EXCEPT ![s] = Append(@, room[s])]
  /\ UNCHANGED <<persisted, room, vector, editors, maintenance, failed>>

\* Mutant of CommitSave: the vector recorded is encoded after the await.
CommitThenEncode(s, i) ==
  /\ i \in DOMAIN saving[s]
  /\ rows' = Saved(saving[s][i])
  /\ untouched' = FALSE
  /\ vector' = [vector EXCEPT ![s] = room[s].ins]
  /\ saving' = [saving EXCEPT ![s] = RemoveAt(@, i)]
  /\ UNCHANGED <<room, due, editors, maintenance, failed>>

\* saveSnapshot's transaction, and the vector set when the await returns.
CommitSave(s, i) ==
  /\ i \in DOMAIN saving[s]
  /\ rows' = Saved(saving[s][i])
  /\ untouched' = FALSE
  /\ vector' = [vector EXCEPT ![s] = saving[s][i].ins]
  /\ saving' = [saving EXCEPT ![s] = RemoveAt(@, i)]
  /\ script' = IF script.step = "read" /\ script.since < RETENTION
               THEN [script EXCEPT !.since = @ + 1] ELSE script
  /\ UNCHANGED <<room, due, editors, ranOnce, failed>>

\* A refused save is logged and dropped; nothing schedules it again.
FailSave(s, i) ==
  /\ i \in DOMAIN saving[s]
  /\ failed.saves < MaxFailedSaves
  /\ failed' = [failed EXCEPT !.saves = @ + 1]
  /\ saving' = [saving EXCEPT ![s] = RemoveAt(@, i)]
  /\ UNCHANGED <<persisted, room, vector, due, editors, maintenance>>

\* When Hocuspocus lets a room go: nobody is connected, no store is to come.
Quiet(s) == Loaded(s) /\ Connected(s) = {} /\ ~due[s] /\ saving[s] = <<>>

\* afterUnloadDocument forgets the vector with the room.
Unload(s) ==
  /\ Quiet(s)
  /\ room' = [room EXCEPT ![s] = Unloaded]
  /\ vector' = [vector EXCEPT ![s] = NoVector]
  /\ UNCHANGED <<persisted, due, saving, editors, maintenance, failed>>

Crash(s) ==
  /\ Loaded(s)
  /\ room' = [room EXCEPT ![s] = Unloaded]
  /\ vector' = [vector EXCEPT ![s] = NoVector]
  /\ due' = [due EXCEPT ![s] = FALSE]
  /\ saving' = [saving EXCEPT ![s] = <<>>]
  /\ at' = [c \in Client |-> IF at[c] = s THEN Offline ELSE at[c]]
  /\ UNCHANGED <<persisted, cache, maintenance, failed>>

-----------------------------------------------------------------------------
(***************************************************************************)
(* The scripts.  compact-documents chooses boards whose newest row is old, *)
(* later reads each one's rows, and replaces the rows it read with one     *)
(* rebuilt document.  compact-board-updates chooses every board of more    *)
(* than one row, also one it has been over, and appends one merged row.    *)
(***************************************************************************)

\* The idle window is an hour, the longest debounce half a minute: no store
\* is scheduled or in flight that long after the newest row was written.
IdleWindowPasses ==
  /\ rows # <<>> /\ ~untouched
  /\ \A s \in Server : ~due[s] /\ saving[s] = <<>>
  /\ untouched' = TRUE
  /\ UNCHANGED <<rows, memory, editors, maintenance, failed>>

ChooseBoard(kind) ==
  /\ script = NoScript /\ kind \in Maintenance
  /\ \/ kind = "compact" /\ untouched /\ ~ranOnce
     \/ kind = "backfill" /\ Len(rows) > 1 /\ Len(rows) < MaxRows
  /\ script' = [NoScript EXCEPT !.step = "chosen", !.kind = kind]
  /\ UNCHANGED <<persisted, memory, editors, ranOnce, failed>>

ReadRows ==
  /\ script.step = "chosen"
  /\ script' = [script EXCEPT !.step = "read", !.read = MergeAll(Elements(rows))]
  /\ UNCHANGED <<persisted, memory, editors, ranOnce, failed>>

\* rebuild() copies the live shapes, and only those, into a fresh document.
Rebuilt(d) ==
  [ins |-> {<<x, "rebuilt">> : x \in {y \in Shape : \E i \in Visible(d) : i[1] = y}},
   del |-> {}]

\* Mutant of Unread: every row of the board is deleted, not only those read.
NothingUnread == <<>>

\* The rows written since the script read the board, by id.
Unread == Newest(script.since, rows)

ReplaceRows ==
  /\ script.step = "read" /\ script.kind = "compact"
  /\ rows' = Append(Unread, Rebuilt(script.read))
  /\ untouched' = FALSE
  /\ script' = NoScript /\ ranOnce' = TRUE
  /\ UNCHANGED <<memory, editors, failed>>

\* Mutant of AppendMerged: the merged row replaces the rows of the board.
ReplaceWithMerged ==
  /\ script.step = "read" /\ script.kind = "backfill"
  /\ rows' = <<script.read>>
  /\ untouched' = FALSE
  /\ script' = NoScript
  /\ UNCHANGED <<memory, editors, ranOnce, failed>>

AppendMerged ==
  /\ script.step = "read" /\ script.kind = "backfill"
  /\ rows' = Append(rows, script.read)
  /\ untouched' = FALSE
  /\ script' = NoScript
  /\ UNCHANGED <<memory, editors, ranOnce, failed>>

\* Already compact (MIN_GAIN), an empty merge, or the script was stopped.
LeaveBoard ==
  /\ script # NoScript
  /\ script' = NoScript
  /\ UNCHANGED <<persisted, memory, editors, ranOnce, failed>>

-----------------------------------------------------------------------------
StoreStep(s) ==
  \/ SkipStore(s) \/ BeginStore(s)
  \/ \E i \in 1..MaxSaving : CommitSave(s, i)

ServerStep(s) ==
  \/ StoreStep(s) \/ Unload(s) \/ Crash(s)
  \/ \E i \in 1..MaxSaving : FailSave(s, i)

ClientStep(c) ==
  \/ \E x \in Content : Insert(c, x)
  \/ \E x \in Item : Delete(c, x)
  \/ \E s \in Server : JoinRoom(c, s) \/ LoadDocument(c, s) \/ LoadFails(c, s)
  \/ Disconnect(c) \/ PurgeCache(c)

ScriptStep ==
  \/ IdleWindowPasses \/ (\E kind \in Maintenance : ChooseBoard(kind))
  \/ ReadRows \/ ReplaceRows \/ AppendMerged \/ LeaveBoard

Next == (\E s \in Server : ServerStep(s)) \/ (\E c \in Client : ClientStep(c)) \/ ScriptStep

Spec == Init /\ [][Next]_vars

\* The debounce timer fires and the database answers; nobody is made to leave.
FairSpec ==
  /\ Spec
  /\ \A s \in Server :
       /\ WF_vars(SkipStore(s) \/ BeginStore(s))
       /\ WF_vars(\E i \in 1..MaxSaving : CommitSave(s, i))

-----------------------------------------------------------------------------
\* Every variable keeps its shape, and saves alone never overrun the window:
\* only legacy rows do, and those a script appends without pruning.
SavesAlone == Maintenance = {} /\ Legacy = {<<>>}
TypeOK ==
  /\ rows \in Seq(Doc) /\ Len(rows) <= MaxRows /\ untouched \in BOOLEAN
  /\ SavesAlone => Len(rows) <= RETENTION
  /\ room \in [Server -> Room]
  /\ vector \in [Server -> (SUBSET Item) \cup {NoVector}]
  /\ due \in [Server -> BOOLEAN]
  /\ saving \in [Server -> Seq(Doc)] /\ \A s \in Server : Len(saving[s]) <= MaxSaving
  /\ at \in [Client -> Server \cup {Offline}]
  /\ cache \in [Client -> Doc]
  /\ script \in Script /\ ranOnce \in BOOLEAN
  /\ failed \in [loads: 0..MaxFailedLoads, saves: 0..MaxFailedSaves]

(***************************************************************************)
(* Safety.                                                                 *)
(***************************************************************************)

\* What onStoreDocument takes a room's vector to say: every insertion it
\* counts is readable in the rows, however saves of the room overlap and
\* whichever of them commits last.  It is what a skipped store rests on.
GuardIsTruthful ==
  \A s \in Server : vector[s] # NoVector => vector[s] \subseteq Stored.ins

\* Pruning drops only what newer rows carry: as long as every load of the
\* board has succeeded, what loadSnapshot can read back, an insertion or a
\* deletion, no later save takes away.
Replaced == script.step = "read" /\ script.kind = "compact" /\ script' = NoScript
StoredIsKept == Stored.ins \subseteq Stored'.ins /\ Stored.del \subseteq Stored'.del
PruneIsRedundant == [][failed.loads = 0 => Replaced \/ StoredIsKept]_vars

\* A room that goes because everyone left it, rather than in a crash, has
\* everything drawn in it saved, however the last store raced the last edits
\* and the connections that came and went, unless a save was refused or the
\* rows were rebuilt under it.
UnloadKeepsInserts ==
  [][\A s \in Server : Unload(s) /\ failed.saves = 0 /\ ~ranOnce =>
       room[s].ins \subseteq Stored.ins]_vars

\* Nothing on the board but what a rebuild leaves out may go when
\* compact-documents replaces the rows: every shape that could be read back
\* still can be, the ones saved after the script read the board included.
ContentOf(d, kind) == {i[1] : i \in Visible(d)} \cap kind
CompactionKeepsShapes ==
  [][ReplaceRows => ContentOf(Stored, Shape) \subseteq ContentOf(Stored', Shape)]_vars

\* compact-board-updates: "reads are correct the instant this finishes".
\* What any row of the board records can be read back once the merged row is
\* there, the deltas outside the window and the saves that committed between
\* the script's two statements alike, however often it is run.
Recorded == MergeAll(Elements(rows))
BackfillKeepsRows ==
  [][AppendMerged => /\ Recorded.ins \subseteq Stored'.ins
                     /\ Recorded.del \subseteq Stored'.del]_vars

(***************************************************************************)
(* Liveness.                                                               *)
(***************************************************************************)

\* What is drawn in a room reaches the rows as long as the room lasts: the
\* skip guard and overlapping saves never leave an insertion unsaved for good,
\* short of a save the database refuses.
InsertReachesRows ==
  \A s \in Server, i \in Content \X {"drawn"} :
    (Loaded(s) /\ i \in room[s].ins)
      ~> (i \in Stored.ins \/ ~Loaded(s) \/ failed.saves > 0)

(***************************************************************************)
(* What the sources say, and the code does not keep.                       *)
(***************************************************************************)

\* index.ts on the skip guard: "Nothing new since the last save? Then the
\* round trip would write bytes Postgres already has."
SkipIsRedundant ==
  [][\A s \in Server : SkipStore(s) =>
       /\ room[s].ins \subseteq Stored.ins
       /\ room[s].del \subseteq Stored.del]_vars

\* board-updates-store.ts: "rows outside the retention window must already be
\* redundant. That holds for anything this module wrote".
OnlyRedundantRowsGo == [][Replaced \/ StoredIsKept]_vars

\* comment-store.ts: comments are kept in the board's document, and so
\* "survive a dropped connection, and are saved with the board".
SavedThreadsStay ==
  [][ReplaceRows => ContentOf(Stored, Thread) \subseteq ContentOf(Stored', Thread)]_vars

=============================================================================
