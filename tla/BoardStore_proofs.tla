-------------------------- MODULE BoardStore_proofs --------------------------
(***************************************************************************)
(* Proofs about BoardStore.  Its type invariant holds for every value of   *)
(* the constants.  The guarantees of the window are the guarantees of one  *)
(* server: two that share no broker overwrite each other's rows.           *)
(***************************************************************************)
EXTENDS BoardStore, SequenceTheorems, TLAPS

(***************************************************************************)
(* What a document records, as one set: merging documents is union of what *)
(* they record.                                                            *)
(***************************************************************************)
Marks(d) == (d.ins \X {"ins"}) \cup (d.del \X {"del"})

\* The insertions a state vector counts, as marks.
Inserted(v) == v \X {"ins"}

\* An item is among the insertions exactly when its mark is recorded.
LEMMA InsertionMarks ==
  ASSUME NEW d \in Doc, NEW x
  PROVE  /\ x \in d.ins <=> <<x, "ins">> \in Marks(d)
         /\ x \in d.del <=> <<x, "del">> \in Marks(d)
  BY DEF Marks, Doc

\* One document records no more than another when it inserts and deletes no more.
LEMMA MarksWithin ==
  ASSUME NEW d \in Doc, NEW e \in Doc
  PROVE  Marks(d) \subseteq Marks(e) <=> d.ins \subseteq e.ins /\ d.del \subseteq e.del
<1>1. ASSUME Marks(d) \subseteq Marks(e), NEW x PROVE (x \in d.ins => x \in e.ins) /\ (x \in d.del => x \in e.del)
  BY <1>1, InsertionMarks
<1>2. ASSUME d.ins \subseteq e.ins, d.del \subseteq e.del PROVE Marks(d) \subseteq Marks(e)
  BY <1>2 DEF Marks
<1> QED
  BY <1>1, <1>2

\* A merge of two documents is a document and records what either does.
LEMMA MergeMarks ==
  ASSUME NEW d \in Doc, NEW e \in Doc
  PROVE  Merge(d, e) \in Doc /\ Marks(Merge(d, e)) = Marks(d) \cup Marks(e)
  BY DEF Merge, Marks, Doc

\* And so does the merge of any number of them.
LEMMA MergeAllMarks ==
  ASSUME NEW ds \in SUBSET Doc
  PROVE  /\ MergeAll(ds) \in Doc
         /\ \A p : p \in Marks(MergeAll(ds)) <=> \E d \in ds : p \in Marks(d)
<1>1. MergeAll(ds) \in Doc
  BY DEF MergeAll, Doc
<1>2. /\ MergeAll(ds).ins = UNION {d.ins : d \in ds}
      /\ MergeAll(ds).del = UNION {d.del : d \in ds}
  BY DEF MergeAll
<1>3. ASSUME NEW p, p \in Marks(MergeAll(ds)) PROVE \E d \in ds : p \in Marks(d)
  BY <1>2, <1>3 DEF Marks
<1>4. ASSUME NEW p, NEW d \in ds, p \in Marks(d) PROVE p \in Marks(MergeAll(ds))
  BY <1>2, <1>4 DEF Marks
<1> QED
  BY <1>1, <1>3, <1>4

\* The empty document records nothing.
LEMMA EmptyMarks == Empty \in Doc /\ Marks(Empty) = {}
  BY DEF Empty, Doc, Marks

-----------------------------------------------------------------------------
(* Sequences of documents.                                                 *)

\* Removing one element moves the later ones up by one.
LEMMA RemoveAtIs ==
  ASSUME NEW S, NEW q \in Seq(S), NEW i \in DOMAIN q
  PROVE  /\ RemoveAt(q, i) \in Seq(S)
         /\ Len(RemoveAt(q, i)) = Len(q) - 1
         /\ \A j \in 1..(Len(q) - 1) :
              RemoveAt(q, i)[j] = IF j < i THEN q[j] ELSE q[j + 1]
<1> DEFINE l == SubSeq(q, 1, i - 1)
           r == SubSeq(q, i + 1, Len(q))
<1>0. i \in 1..Len(q) /\ Len(q) \in Nat
  BY LenProperties
<1>1. l \in Seq(S) /\ Len(l) = i - 1 /\ \A j \in 1..(i - 1) : l[j] = q[j]
  <2>1. \A j \in 1..(i - 1) : q[j] \in S
    BY <1>0, ElementOfSeq
  <2> QED
    BY <1>0, <2>1, SubSeqProperties
<1>2. r \in Seq(S) /\ Len(r) = Len(q) - i /\ \A j \in 1..(Len(q) - i) : r[j] = q[i + j]
  <2>1. \A j \in (i + 1)..Len(q) : q[j] \in S
    BY <1>0, ElementOfSeq
  <2>2. /\ r \in Seq(S)
        /\ Len(r) = IF i + 1 <= Len(q) THEN Len(q) - (i + 1) + 1 ELSE 0
        /\ \A j \in 1..(Len(q) - (i + 1) + 1) : r[j] = q[(i + 1) + j - 1]
    BY <1>0, <2>1, SubSeqProperties
  <2> HIDE DEF r
  <2>3. \A j \in 1..(Len(q) - i) : r[j] = q[i + j]
    <3> TAKE j \in 1..(Len(q) - i)
    <3>1. j \in 1..(Len(q) - (i + 1) + 1) /\ (i + 1) + j - 1 = i + j
      BY <1>0
    <3> QED
      BY <2>2, <3>1
  <2> QED
    BY <1>0, <2>2, <2>3
<1>3. RemoveAt(q, i) = l \o r
  BY DEF RemoveAt
<1> HIDE DEF l, r
<1>4. /\ l \o r \in Seq(S) /\ Len(l \o r) = Len(l) + Len(r)
      /\ \A j \in 1..(Len(l) + Len(r)) :
           (l \o r)[j] = IF j <= Len(l) THEN l[j] ELSE r[j - Len(l)]
  BY <1>1, <1>2, ConcatProperties
<1>5. Len(l) + Len(r) = Len(q) - 1
  BY <1>0, <1>1, <1>2
<1>6. ASSUME NEW j \in 1..(Len(q) - 1)
      PROVE  (l \o r)[j] = IF j < i THEN q[j] ELSE q[j + 1]
  <2>1. CASE j < i
    BY <1>0, <1>1, <1>4, <1>5, <2>1
  <2>2. CASE ~(j < i)
    <3>1. j - Len(l) \in 1..(Len(q) - i) /\ ~(j <= Len(l)) /\ i + (j - Len(l)) = j + 1
      BY <1>0, <1>1, <2>2
    <3>2. (l \o r)[j] = r[j - Len(l)]
      BY <1>4, <1>5, <3>1
    <3>3. r[j - Len(l)] = q[i + (j - Len(l))]
      BY <1>2, <3>1
    <3> QED
      BY <2>2, <3>1, <3>2, <3>3
  <2> QED
    BY <2>1, <2>2
<1> QED
  BY <1>3, <1>4, <1>5, <1>6

\* Newest(n, q) is the last n elements of q, or q itself.
LEMMA NewestIs ==
  ASSUME NEW S, NEW q \in Seq(S), NEW n \in Nat
  PROVE  /\ Newest(n, q) \in Seq(S)
         /\ Len(Newest(n, q)) = IF Len(q) <= n THEN Len(q) ELSE n
         /\ \A i \in 1..Len(Newest(n, q)) :
              Newest(n, q)[i] = q[Len(q) - Len(Newest(n, q)) + i]
<1>0. Len(q) \in Nat
  BY LenProperties
<1>1. CASE Len(q) <= n
  BY <1>0, <1>1 DEF Newest
<1>2. CASE ~(Len(q) <= n)
  <2> DEFINE r == SubSeq(q, Len(q) - n + 1, Len(q))
  <2>1. Newest(n, q) = r
    BY <1>2 DEF Newest
  <2>2. \A j \in (Len(q) - n + 1)..Len(q) : q[j] \in S
    BY <1>0, <1>2, ElementOfSeq
  <2>3. /\ r \in Seq(S)
        /\ Len(r) = IF Len(q) - n + 1 <= Len(q) THEN Len(q) - (Len(q) - n + 1) + 1 ELSE 0
        /\ \A j \in 1..(Len(q) - (Len(q) - n + 1) + 1) : r[j] = q[(Len(q) - n + 1) + j - 1]
    BY <1>0, <2>2, SubSeqProperties
  <2> HIDE DEF r
  <2>4. Len(r) = n
    BY <1>0, <1>2, <2>3
  <2>5. \A j \in 1..n : r[j] = q[Len(q) - n + j]
    <3> TAKE j \in 1..n
    <3>1. j \in 1..(Len(q) - (Len(q) - n + 1) + 1) /\ (Len(q) - n + 1) + j - 1 = Len(q) - n + j
      BY <1>0
    <3> QED
      BY <2>3, <3>1
  <2> QED
    BY <1>2, <2>1, <2>3, <2>4, <2>5
<1> QED
  BY <1>1, <1>2

\* The elements of a sequence of documents are documents.
LEMMA ElementsAre ==
  ASSUME NEW S, NEW q \in Seq(S)
  PROVE  Elements(q) \in SUBSET S /\ \A i \in DOMAIN q : q[i] \in S
  BY LenProperties, ElementOfSeq DEF Elements

\* What the window reads back is what its rows record.
LEMMA WindowMarks ==
  ASSUME NEW rs \in Seq(Doc)
  PROVE  /\ Window(rs) \in Doc
         /\ \A p : p \in Marks(Window(rs)) <=>
              \E k \in 1..Len(rs) : k > Len(rs) - RETENTION /\ p \in Marks(rs[k])
<1> DEFINE w == Newest(RETENTION, rs)
<1>0. RETENTION \in Nat \ {0} /\ Len(rs) \in Nat
  BY RetentionAssumption, LenProperties
<1>1. /\ w \in Seq(Doc) /\ Len(w) = IF Len(rs) <= RETENTION THEN Len(rs) ELSE RETENTION
      /\ \A i \in 1..Len(w) : w[i] = rs[Len(rs) - Len(w) + i]
  BY <1>0, NewestIs
<1> HIDE DEF w
<1>2. DOMAIN w = 1..Len(w) /\ Elements(w) \in SUBSET Doc
  BY <1>1, LenProperties, ElementsAre
<1>L. /\ Len(w) \in Nat /\ Len(rs) \in Nat /\ RETENTION \in Nat
      /\ Len(w) <= Len(rs) /\ (Len(w) = Len(rs) \/ Len(w) = RETENTION)
      /\ Len(w) <= RETENTION
  <2>1. Len(w) = IF Len(rs) <= RETENTION THEN Len(rs) ELSE RETENTION
    BY <1>1
  <2> QED
    BY <1>0, <2>1
<1>3. Window(rs) = MergeAll(Elements(w))
  BY DEF Window, w
<1>4. ASSUME NEW p
      PROVE  (\E d \in Elements(w) : p \in Marks(d)) <=>
             \E k \in 1..Len(rs) : k > Len(rs) - RETENTION /\ p \in Marks(rs[k])
  <2>1. ASSUME NEW d \in Elements(w), p \in Marks(d)
        PROVE  \E k \in 1..Len(rs) : k > Len(rs) - RETENTION /\ p \in Marks(rs[k])
    <3>1. PICK i \in 1..Len(w) : d = w[i]
      BY <1>2 DEF Elements
    <3>2. /\ Len(rs) - Len(w) + i \in 1..Len(rs)
          /\ Len(rs) - Len(w) + i > Len(rs) - RETENTION
      BY <1>L
    <3> QED
      BY <1>1, <2>1, <3>1, <3>2
  <2>2. ASSUME NEW k \in 1..Len(rs), k > Len(rs) - RETENTION, p \in Marks(rs[k])
        PROVE  \E d \in Elements(w) : p \in Marks(d)
    <3>1. /\ k - (Len(rs) - Len(w)) \in 1..Len(w)
          /\ Len(rs) - Len(w) + (k - (Len(rs) - Len(w))) = k
      BY <1>L, <2>2
    <3>2. w[k - (Len(rs) - Len(w))] = rs[k]
      BY <1>1, <3>1
    <3>3. rs[k] \in Elements(w)
      BY <1>2, <3>1, <3>2 DEF Elements
    <3> QED
      BY <2>2, <3>3
  <2> QED
    BY <2>1, <2>2
<1> QED
  BY <1>2, <1>3, <1>4, MergeAllMarks

\* A commit appends the row and keeps at most RETENTION of them.
LEMMA SavedIs ==
  ASSUME rows \in Seq(Doc), NEW d \in Doc
  PROVE  /\ Saved(d) \in Seq(Doc)
         /\ Len(Saved(d)) = IF Len(rows) + 1 <= RETENTION THEN Len(rows) + 1 ELSE RETENTION
         /\ Saved(d)[Len(Saved(d))] = d
         /\ \A k \in 1..(Len(Saved(d)) - 1) : Saved(d)[k] = rows[Len(rows) + 1 - Len(Saved(d)) + k]
<1> DEFINE a == Append(rows, d)
           w == Newest(RETENTION, a)
<1>0. RETENTION \in Nat \ {0} /\ Len(rows) \in Nat
  BY RetentionAssumption, LenProperties
<1>1. /\ a \in Seq(Doc) /\ Len(a) = Len(rows) + 1
      /\ \A i \in 1..Len(rows) : a[i] = rows[i]
      /\ a[Len(rows) + 1] = d
  BY AppendProperties
<1> HIDE DEF a
<1>2. /\ w \in Seq(Doc) /\ Len(w) = IF Len(a) <= RETENTION THEN Len(a) ELSE RETENTION
      /\ \A i \in 1..Len(w) : w[i] = a[Len(a) - Len(w) + i]
  BY <1>0, <1>1, NewestIs
<1> HIDE DEF w
<1>3. Saved(d) = w
  BY DEF Saved, w, a
<1>4. w[Len(w)] = d
  <2>1. Len(w) \in 1..Len(w) /\ Len(a) - Len(w) + Len(w) = Len(rows) + 1
    BY <1>0, <1>1, <1>2
  <2> QED
    BY <1>1, <1>2, <2>1
<1>5. ASSUME NEW k \in 1..(Len(w) - 1) PROVE w[k] = rows[Len(rows) + 1 - Len(w) + k]
  <2>1. /\ k \in 1..Len(w) /\ Len(a) - Len(w) + k = Len(rows) + 1 - Len(w) + k
        /\ Len(rows) + 1 - Len(w) + k \in 1..Len(rows)
    BY <1>0, <1>1, <1>2
  <2> QED
    BY <1>1, <1>2, <2>1
<1> QED
  BY <1>1, <1>2, <1>3, <1>4, <1>5

-----------------------------------------------------------------------------
(* Types.                                                                  *)

\* A board is chosen for the backfill while there is room for a row more, and
\* every later save prunes; a board is compacted once; no script runs that may
\* not.
ScriptFits ==
  /\ script.kind = "backfill" => Len(rows) < MaxRows
  /\ script.kind = "compact" => ~ranOnce
  /\ Maintenance = {} => script.step = "off"

TypeInv == TypeOK /\ ScriptFits

\* The vectors lastPersistedVector may hold, and that of a room not saved yet.
Vectors == (SUBSET Item) \cup {NoVector}

\* The latter is one of them.
LEMMA NoVectorTyped == NoVector \in Vectors
<1>1. NoVector \in {NoVector}
  BY Zenon
<1> QED
  BY Zenon, <1>1 DEF Vectors

\* Nothing is stored, loaded or connected at first.
LEMMA InitTyped == Init => TypeInv
<1> SUFFICES ASSUME Init PROVE TypeInv
  OBVIOUS
<1>1. RETENTION \in Nat /\ MaxSaving \in Nat /\ MaxFailedLoads \in Nat /\ MaxFailedSaves \in Nat
  BY RetentionAssumption, BoundsAssumption
<1>2. \A S : <<>> \in Seq(S) /\ Len(<<>>) = 0
  BY EmptySeq
<1>3. NoScript \in Script
  BY <1>1, EmptyMarks DEF NoScript, Script
<1>4. failed \in [loads: 0..MaxFailedLoads, saves: 0..MaxFailedSaves]
  BY <1>1 DEF Init
<1>R. /\ rows \in Seq(Doc) /\ Len(rows) <= MaxRows
      /\ SavesAlone => Len(rows) <= RETENTION
  <2>1. rows \in Legacy
    BY DEF Init
  <2>2. SavesAlone => Len(rows) = 0
    BY <1>2, <2>1 DEF SavesAlone
  <2> QED
    BY <1>1, <2>1, <2>2, LegacyAssumption
<1>5. /\ saving \in [Server -> Seq(Doc)] /\ \A s \in Server : Len(saving[s]) <= MaxSaving
  BY <1>1, <1>2 DEF Init
<1>6. /\ due \in [Server -> BOOLEAN] /\ at \in [Client -> Server \cup {Offline}]
      /\ cache \in [Client -> Doc] /\ untouched \in BOOLEAN
  BY EmptyMarks DEF Init
<1>8. room \in [Server -> Room]
  BY DEF Init, Room
<1>9. vector \in [Server -> (SUBSET Item) \cup {NoVector}]
  <2>1. vector \in [Server -> Vectors]
    BY NoVectorTyped DEF Init
  <2> QED
    BY <2>1 DEF Vectors
<1>7. /\ script = NoScript /\ script.kind = "none" /\ script.step = "off"
      /\ ranOnce \in BOOLEAN
  BY DEF Init, NoScript
<1> QED
  BY <1>3, <1>4, <1>5, <1>R, <1>6, <1>7, <1>8, <1>9 DEF TypeInv, TypeOK, ScriptFits

\* The document published is the one every connection is given.
LEMMA PublishTyped ==
  ASSUME TypeOK, NEW s \in Server, NEW d \in Doc, NEW there, Publish(s, d, there)
  PROVE  room' \in [Server -> Room] /\ cache' \in [Client -> Doc]
  BY DEF Publish, TypeOK, Room

\* A change of one editor's document keeps every type.
LEMMA EditTyped ==
  ASSUME TypeInv, NEW c \in Client, NEW d \in Doc, Edit(c, d)
  PROVE  TypeInv'
<1>1. CASE at[c] = Offline
  BY <1>1
  DEF Edit, TypeInv, TypeOK, ScriptFits, persisted, maintenance
<1>2. CASE at[c] # Offline
  <2>1. at[c] \in Server /\ Publish(at[c], d, Connected(at[c]))
    BY <1>2 DEF Edit, TypeInv, TypeOK
  <2>2. room' \in [Server -> Room] /\ cache' \in [Client -> Doc]
    BY <2>1, PublishTyped DEF TypeInv
  <2> QED
    BY <1>2, <2>1, <2>2
    DEF Edit, TypeInv, TypeOK, ScriptFits, persisted, maintenance
<1> QED
  BY <1>1, <1>2

\* What a connection publishes is a document.
LEMMA SyncTyped ==
  ASSUME TypeOK, NEW c \in Client, NEW s \in Server, NEW base \in Doc, Sync(c, s, base)
  PROVE  /\ room' \in [Server -> Room] /\ cache' \in [Client -> Doc]
         /\ at' \in [Client -> Server \cup {Offline}]
         /\ due' \in [Server -> BOOLEAN]
<1>1. Merge(base, cache[c]) \in Doc
  BY MergeMarks DEF TypeOK
<1>2. Publish(s, Merge(base, cache[c]), Connected(s) \cup {c})
  BY DEF Sync
<1>3. room' \in [Server -> Room] /\ cache' \in [Client -> Doc]
  BY <1>1, <1>2, PublishTyped
<1>4. at' \in [Client -> Server \cup {Offline}]
  BY DEF Sync, TypeOK
<1>5. due' = [due EXCEPT ![s] = due[s] \/ Merge(base, cache[c]) # base]
  BY DEF Sync
<1>6. due' \in [Server -> BOOLEAN]
  BY <1>5 DEF TypeOK
<1> QED
  BY <1>3, <1>4, <1>6

\* What loadSnapshot returns is a document.
LEMMA StoredTyped ==
  ASSUME TypeOK
  PROVE  Stored \in Doc /\ Stored.ins \in SUBSET Item
<1>1. Stored \in Doc
  BY WindowMarks DEF TypeOK, Stored
<1> QED
  BY <1>1 DEF Doc

\* A client's change keeps every type.
LEMMA ClientTyped ==
  ASSUME TypeInv, NEW c \in Client, ClientStep(c)
  PROVE  TypeInv'
<1>T. TypeOK /\ ScriptFits /\ cache[c] \in Doc /\ cache[c].ins \subseteq Item /\ cache[c].del \subseteq Item
  BY DEF TypeInv, TypeOK, Doc
<1>1. ASSUME NEW x \in Content, Insert(c, x) PROVE TypeInv'
  <2>1. [cache[c] EXCEPT !.ins = @ \cup {<<x, "drawn">>}] \in Doc
    BY <1>T DEF Doc, Item
  <2> QED
    BY <1>1, <2>1, EditTyped DEF Insert
<1>2. ASSUME NEW x \in Item, Delete(c, x) PROVE TypeInv'
  <2>1. [cache[c] EXCEPT !.del = @ \cup {x}] \in Doc
    BY <1>T DEF Doc
  <2> QED
    BY <1>2, <2>1, EditTyped DEF Delete
<1>3. ASSUME NEW s \in Server, JoinRoom(c, s) PROVE TypeInv'
  <2>1. room[s] \in Doc
    BY <1>3 DEF JoinRoom, Loaded, TypeInv, TypeOK, Room
  <2>2. Sync(c, s, room[s])
    BY <1>3 DEF JoinRoom
  <2>3. /\ room' \in [Server -> Room] /\ cache' \in [Client -> Doc]
        /\ at' \in [Client -> Server \cup {Offline}] /\ due' \in [Server -> BOOLEAN]
    BY <1>T, <2>1, <2>2, SyncTyped
  <2> QED
    BY <1>3, <2>3
    DEF JoinRoom, TypeInv, TypeOK, ScriptFits, persisted, maintenance
<1>4. ASSUME NEW s \in Server, LoadDocument(c, s) PROVE TypeInv'
  <2>1. Sync(c, s, Stored)
    BY <1>4 DEF LoadDocument
  <2>2. /\ room' \in [Server -> Room] /\ cache' \in [Client -> Doc]
        /\ at' \in [Client -> Server \cup {Offline}] /\ due' \in [Server -> BOOLEAN]
    BY <1>T, <2>1, StoredTyped, SyncTyped
  <2>3. vector' = [vector EXCEPT ![s] = IF rows = <<>> THEN vector[s] ELSE Stored.ins]
    BY <1>4 DEF LoadDocument
  <2>4. vector' \in [Server -> (SUBSET Item) \cup {NoVector}]
    BY <1>T, <2>3, StoredTyped DEF TypeOK
  <2> QED
    BY <1>4, <2>2, <2>4
    DEF LoadDocument, TypeInv, TypeOK, ScriptFits, persisted, maintenance
<1>5. ASSUME NEW s \in Server, LoadFails(c, s) PROVE TypeInv'
  <2>1. Sync(c, s, Empty)
    BY <1>5 DEF LoadFails
  <2>2. /\ room' \in [Server -> Room] /\ cache' \in [Client -> Doc]
        /\ at' \in [Client -> Server \cup {Offline}] /\ due' \in [Server -> BOOLEAN]
    BY <1>T, <2>1, EmptyMarks, SyncTyped
  <2>3. failed' \in [loads: 0..MaxFailedLoads, saves: 0..MaxFailedSaves]
    <3>1. /\ failed \in [loads: 0..MaxFailedLoads, saves: 0..MaxFailedSaves]
          /\ failed.loads + 1 \in 0..MaxFailedLoads
      BY <1>5, BoundsAssumption DEF LoadFails, TypeInv, TypeOK
    <3>2. failed' = [failed EXCEPT !.loads = failed.loads + 1]
      BY <1>5 DEF LoadFails
    <3> QED
      BY <3>1, <3>2
  <2> QED
    BY <1>5, <2>2, <2>3
    DEF LoadFails, TypeInv, TypeOK, ScriptFits, persisted, maintenance
<1>6. CASE Disconnect(c)
  <2>1. at' \in [Client -> Server \cup {Offline}]
    BY <1>6 DEF Disconnect, TypeInv, TypeOK
  <2>2. due' = [due EXCEPT ![at[c]] = due[at[c]] \/ Connected(at[c]) = {c}] /\ at[c] \in Server
    BY <1>6 DEF Disconnect, TypeInv, TypeOK
  <2>3. due' \in [Server -> BOOLEAN]
    BY <2>2 DEF TypeInv, TypeOK
  <2> QED
    BY <1>6, <2>1, <2>3
    DEF Disconnect, TypeInv, TypeOK, ScriptFits, persisted, maintenance
<1>7. CASE PurgeCache(c)
  BY <1>7, EmptyMarks
  DEF PurgeCache, TypeInv, TypeOK, ScriptFits, persisted, memory, maintenance
<1> QED
  BY <1>1, <1>2, <1>3, <1>4, <1>5, <1>6, <1>7 DEF ClientStep

\* A snapshot removed from those in flight leaves a shorter sequence of them.
LEMMA SavingTyped ==
  ASSUME TypeOK, NEW s \in Server, NEW i \in DOMAIN saving[s],
         saving' = [saving EXCEPT ![s] = RemoveAt(@, i)]
  PROVE  /\ saving' \in [Server -> Seq(Doc)]
         /\ \A z \in Server : Len(saving'[z]) <= MaxSaving
<1>1. saving[s] \in Seq(Doc) /\ Len(saving[s]) <= MaxSaving
  BY DEF TypeOK
<1>2. /\ RemoveAt(saving[s], i) \in Seq(Doc) /\ Len(saving[s]) \in Nat
      /\ Len(RemoveAt(saving[s], i)) = Len(saving[s]) - 1
  BY <1>1, RemoveAtIs, LenProperties
<1>3. saving' = [saving EXCEPT ![s] = RemoveAt(saving[s], i)]
  OBVIOUS
<1>4. saving' \in [Server -> Seq(Doc)]
  BY <1>2, <1>3 DEF TypeOK
<1>5. ASSUME NEW z \in Server PROVE Len(saving'[z]) <= MaxSaving
  BY <1>1, <1>2, <1>3, BoundsAssumption DEF TypeOK
<1> QED
  BY <1>4, <1>5

\* A server's step keeps every type.
LEMMA ServerTyped ==
  ASSUME TypeInv, NEW s \in Server, ServerStep(s)
  PROVE  TypeInv'
<1>T. /\ TypeOK /\ rows \in Seq(Doc) /\ Len(rows) \in Nat
      /\ RETENTION \in Nat \ {0} /\ MaxSaving \in Nat
  BY RetentionAssumption, BoundsAssumption, LenProperties DEF TypeInv, TypeOK
<1>1. CASE SkipStore(s)
  BY <1>1
  DEF SkipStore, TypeInv, TypeOK, ScriptFits, persisted, editors, maintenance
<1>2. CASE BeginStore(s)
  <2>1. room[s] \in Doc /\ saving[s] \in Seq(Doc) /\ Len(saving[s]) \in Nat
    BY <1>2, LenProperties DEF BeginStore, Loaded, TypeInv, TypeOK, Room
  <2>2. /\ Append(saving[s], room[s]) \in Seq(Doc)
        /\ Len(Append(saving[s], room[s])) = Len(saving[s]) + 1
    BY <2>1, AppendProperties
  <2>3. saving' = [saving EXCEPT ![s] = Append(saving[s], room[s])]
    BY <1>2 DEF BeginStore
  <2>4. saving' \in [Server -> Seq(Doc)]
    BY <2>2, <2>3 DEF TypeInv, TypeOK
  <2>5. ASSUME NEW z \in Server PROVE Len(saving'[z]) <= MaxSaving
    <3>1. CASE z = s
      <4>1. Len(saving[s]) < MaxSaving /\ saving'[z] = Append(saving[s], room[s])
        BY <1>2, <2>3, <3>1 DEF BeginStore, TypeInv, TypeOK
      <4> QED
        BY <1>T, <2>1, <2>2, <4>1
    <3>2. CASE z # s
      BY <2>3, <3>2 DEF TypeInv, TypeOK
    <3> QED
      BY <3>1, <3>2
  <2> QED
    BY <1>2, <2>4, <2>5
    DEF BeginStore, TypeInv, TypeOK, ScriptFits, persisted, editors, maintenance
<1>3. ASSUME NEW i \in 1..MaxSaving, CommitSave(s, i) PROVE TypeInv'
  <2>1. i \in DOMAIN saving[s] /\ saving' = [saving EXCEPT ![s] = RemoveAt(@, i)]
    BY <1>3 DEF CommitSave
  <2>2. saving' \in [Server -> Seq(Doc)] /\ \A z \in Server : Len(saving'[z]) <= MaxSaving
    BY <1>T, <2>1, SavingTyped
  <2>3. saving[s][i] \in Doc
    BY <2>1, ElementsAre DEF TypeInv, TypeOK
  <2>4. rows' \in Seq(Doc) /\ Len(rows') <= RETENTION
    <3>1. rows' = Saved(saving[s][i])
      BY <1>3 DEF CommitSave
    <3>2. /\ Saved(saving[s][i]) \in Seq(Doc)
          /\ Len(Saved(saving[s][i])) = IF Len(rows) + 1 <= RETENTION THEN Len(rows) + 1 ELSE RETENTION
      BY <1>T, <2>3, SavedIs
    <3> QED
      BY <1>T, <3>1, <3>2
  <2>5. vector' \in [Server -> (SUBSET Item) \cup {NoVector}]
    BY <1>3, <2>3 DEF CommitSave, TypeInv, TypeOK, Doc
  <2>6. /\ script' \in Script /\ script'.kind = script.kind
        /\ script'.step = script.step
    <3>1. script \in Script /\ script.since \in 0..RETENTION
      BY <1>T DEF TypeOK, Script
    <3>2. CASE script.since < RETENTION /\ script' = [script EXCEPT !.since = script.since + 1]
      <4>1. script.since + 1 \in 0..RETENTION
        BY <1>T, <3>1, <3>2
      <4> QED
        BY <3>1, <3>2, <4>1 DEF Script
    <3>3. CASE script' = script
      BY <3>1, <3>3
    <3> QED
      BY <1>3, <3>2, <3>3 DEF CommitSave
  <2>7. Len(rows') < MaxRows /\ Len(rows') <= MaxRows
    <3>1. Len(rows') \in Nat
      BY <2>4, LenProperties
    <3> QED
      BY <1>T, <2>4, <3>1, MaxRowsAssumption
  <2> QED
    BY <1>3, <2>2, <2>4, <2>5, <2>6, <2>7
    DEF CommitSave, TypeInv, TypeOK, ScriptFits, editors
<1>4. ASSUME NEW i \in 1..MaxSaving, FailSave(s, i) PROVE TypeInv'
  <2>1. i \in DOMAIN saving[s] /\ saving' = [saving EXCEPT ![s] = RemoveAt(@, i)]
    BY <1>4 DEF FailSave
  <2>2. saving' \in [Server -> Seq(Doc)] /\ \A z \in Server : Len(saving'[z]) <= MaxSaving
    BY <1>T, <2>1, SavingTyped
  <2>3. failed' \in [loads: 0..MaxFailedLoads, saves: 0..MaxFailedSaves]
    <3>1. /\ failed \in [loads: 0..MaxFailedLoads, saves: 0..MaxFailedSaves]
          /\ failed.saves + 1 \in 0..MaxFailedSaves
      BY <1>4, BoundsAssumption DEF FailSave, TypeInv, TypeOK
    <3>2. failed' = [failed EXCEPT !.saves = failed.saves + 1]
      BY <1>4 DEF FailSave
    <3> QED
      BY <3>1, <3>2
  <2> QED
    BY <1>4, <2>2, <2>3
    DEF FailSave, TypeInv, TypeOK, ScriptFits, persisted, editors, maintenance
<1>5. CASE Unload(s)
  <2>1. room' \in [Server -> Room]
    BY <1>5 DEF Unload, TypeInv, TypeOK, Room
  <2>2. vector' \in [Server -> (SUBSET Item) \cup {NoVector}]
    <3>1. vector \in [Server -> Vectors]
      BY DEF TypeInv, TypeOK, Vectors
    <3>2. vector' \in [Server -> Vectors]
      BY <1>5, <3>1, NoVectorTyped DEF Unload
    <3> QED
      BY <3>2 DEF Vectors
  <2> QED
    BY <1>5, <2>1, <2>2
    DEF Unload, TypeInv, TypeOK, ScriptFits, persisted, editors, maintenance
<1>6. CASE Crash(s)
  <2>1. <<>> \in Seq(Doc) /\ Len(<<>>) = 0
    BY EmptySeq
  <2>2. saving' \in [Server -> Seq(Doc)] /\ \A z \in Server : Len(saving'[z]) <= MaxSaving
    BY <1>6, <1>T, <2>1 DEF Crash, TypeInv, TypeOK
  <2>3. at' \in [Client -> Server \cup {Offline}]
    BY <1>6 DEF Crash, TypeInv, TypeOK
  <2>4. room' \in [Server -> Room]
    BY <1>6 DEF Crash, TypeInv, TypeOK, Room
  <2>5. vector' \in [Server -> (SUBSET Item) \cup {NoVector}]
    <3>1. vector \in [Server -> Vectors]
      BY DEF TypeInv, TypeOK, Vectors
    <3>2. vector' \in [Server -> Vectors]
      BY <1>6, <3>1, NoVectorTyped DEF Crash
    <3> QED
      BY <3>2 DEF Vectors
  <2>6. due' \in [Server -> BOOLEAN]
    BY <1>6 DEF Crash, TypeInv, TypeOK
  <2> QED
    BY <1>6, <2>2, <2>3, <2>4, <2>5, <2>6
    DEF Crash, TypeInv, TypeOK, ScriptFits, persisted, maintenance
<1> QED
  BY <1>1, <1>2, <1>3, <1>4, <1>5, <1>6 DEF ServerStep, StoreStep

\* A rebuilt document is one.
LEMMA RebuiltTyped ==
  ASSUME NEW d
  PROVE  Rebuilt(d) \in Doc
  BY DEF Rebuilt, Doc, Item, Content

\* A script's step keeps every type.
LEMMA ScriptTyped ==
  ASSUME TypeInv, ScriptStep
  PROVE  TypeInv'
<1>T. /\ TypeOK /\ rows \in Seq(Doc) /\ Len(rows) \in Nat
      /\ RETENTION \in Nat \ {0} /\ script \in Script /\ script.since \in Nat
      /\ script.since <= RETENTION /\ script.read \in Doc
  <2>1. script \in Script /\ rows \in Seq(Doc)
    BY DEF TypeInv, TypeOK
  <2> QED
    BY <2>1, RetentionAssumption, LenProperties DEF TypeInv, Script
<1>N. NoScript \in Script /\ NoScript.kind = "none" /\ NoScript.step = "off"
  BY <1>T, EmptyMarks DEF NoScript, Script
<1>1. CASE IdleWindowPasses
  BY <1>1
  DEF IdleWindowPasses, TypeInv, TypeOK, ScriptFits, memory, editors, maintenance
<1>2. ASSUME NEW kind \in Maintenance, ChooseBoard(kind) PROVE TypeInv'
  <2>1. kind \in {"compact", "backfill"}
    BY MaintenanceAssumption
  <2>2. script' = [NoScript EXCEPT !.step = "chosen", !.kind = kind]
    BY <1>2 DEF ChooseBoard
  <2>3. script' \in Script /\ script'.kind = kind
    <3>1. script' = [step |-> "chosen", kind |-> kind, read |-> Empty, since |-> 0]
      BY <2>2 DEF NoScript
    <3>2. 0 \in 0..RETENTION
      BY <1>T
    <3> QED
      BY <2>1, <3>1, <3>2, EmptyMarks DEF Script
  <2>4. /\ (kind = "compact" => ~ranOnce) /\ (kind = "backfill" => Len(rows) < MaxRows)
        /\ Maintenance # {}
    BY <1>2, <1>T DEF ChooseBoard
  <2> QED
    BY <1>2, <2>3, <2>4
    DEF ChooseBoard, TypeInv, TypeOK, ScriptFits, persisted, memory, editors
<1>3. CASE ReadRows
  <2>1. MergeAll(Elements(rows)) \in Doc
    BY <1>T, ElementsAre, MergeAllMarks
  <2>2. script' \in Script /\ script'.kind = script.kind
    BY <1>3, <1>T, <2>1 DEF ReadRows, Script
  <2> QED
    BY <1>3, <2>2
    DEF ReadRows, TypeInv, TypeOK, ScriptFits, persisted, memory, editors
<1>4. CASE ReplaceRows
  <2>1. /\ Unread \in Seq(Doc)
        /\ Len(Unread) = IF Len(rows) <= script.since THEN Len(rows) ELSE script.since
    BY <1>T, NewestIs DEF Unread
  <2>2. /\ Append(Unread, Rebuilt(script.read)) \in Seq(Doc)
        /\ Len(Append(Unread, Rebuilt(script.read))) = Len(Unread) + 1
    BY <2>1, RebuiltTyped, AppendProperties
  <2>3. rows' \in Seq(Doc) /\ Len(rows') = Len(Unread) + 1
    BY <1>4, <2>2 DEF ReplaceRows
  <2>4. Len(rows') <= MaxRows /\ ~SavesAlone
    <3>1. Maintenance # {}
      BY <1>4 DEF ReplaceRows, TypeInv, ScriptFits
    <3>2. Len(Unread) <= RETENTION /\ Len(Unread) \in Nat
      BY <1>T, <2>1
    <3> QED
      BY <1>T, <2>3, <3>1, <3>2, MaxRowsAssumption DEF SavesAlone
  <2> QED
    BY <1>4, <1>N, <2>3, <2>4
    DEF ReplaceRows, TypeInv, TypeOK, ScriptFits, memory, editors
<1>5. CASE AppendMerged
  <2>1. /\ Append(rows, script.read) \in Seq(Doc)
        /\ Len(Append(rows, script.read)) = Len(rows) + 1
    BY <1>T, AppendProperties
  <2>2. Len(rows) < MaxRows /\ Maintenance # {}
    BY <1>5 DEF AppendMerged, TypeInv, ScriptFits
  <2>3. rows' \in Seq(Doc) /\ Len(rows') = Len(rows) + 1
    BY <1>5, <2>1 DEF AppendMerged
  <2>4. Len(rows') <= MaxRows /\ ~SavesAlone
    BY <1>T, <2>2, <2>3, MaxRowsAssumption DEF SavesAlone
  <2> QED
    BY <1>5, <1>N, <2>3, <2>4
    DEF AppendMerged, TypeInv, TypeOK, ScriptFits, memory, editors
<1>6. CASE LeaveBoard
  BY <1>6, <1>N
  DEF LeaveBoard, TypeInv, TypeOK, ScriptFits, persisted, memory, editors
<1> QED
  BY <1>1, <1>2, <1>3, <1>4, <1>5, <1>6 DEF ScriptStep

\* Every step keeps every type.
LEMMA StepTyped == TypeInv /\ [Next]_vars => TypeInv'
<1>1. CASE UNCHANGED vars
  BY <1>1
  DEF vars, persisted, memory, editors, maintenance, TypeInv, TypeOK, ScriptFits
<1> QED
  BY <1>1, ServerTyped, ClientTyped, ScriptTyped DEF Next

\* However saves, loads, crashes and scripts interleave, every variable keeps
\* its shape; where no script runs and no legacy row was left, the rows never
\* outgrow the window.
THEOREM Typed == Spec => []TypeInv
  BY InitTyped, StepTyped, PTL DEF Spec

\* The type invariant the runs check.
THEOREM TypeCorrect == Spec => []TypeOK
<1>1. TypeInv => TypeOK
  BY DEF TypeInv
<1> QED
  BY <1>1, Typed, PTL

-----------------------------------------------------------------------------
(***************************************************************************)
(* A server's room, whatever the other servers and the scripts do.         *)
(***************************************************************************)

\* Every connected editor holds the room's own document.
Mirrored(s) ==
  \A c \in Client : at[c] = s => Loaded(s) /\ cache[c] = room[s]

\* A room that is gone leaves nothing in flight behind.
Resting(s) ==
  ~Loaded(s) => saving[s] = <<>> /\ vector[s] = NoVector /\ ~due[s]

\* Saves in flight were encoded one after another from a room that only grows.
Encoded(s) ==
  /\ \A i \in DOMAIN saving[s] : Marks(saving[s][i]) \subseteq Marks(room[s])
  /\ \A i, j \in DOMAIN saving[s] :
       i < j => Marks(saving[s][i]) \subseteq Marks(saving[s][j])

RoomsOK == \A s \in Server : Mirrored(s) /\ Resting(s) /\ Encoded(s)

RoomInv == TypeInv /\ RoomsOK

(***************************************************************************)
(* What a step may do to the room of server s.                             *)
(***************************************************************************)
Untouched(s) ==
  /\ room'[s] = room[s] /\ saving'[s] = saving[s] /\ vector'[s] = vector[s]
  /\ due'[s] # due[s] => Loaded(s) /\ (due'[s] \/ SkipStore(s))

\* An edit, or an editor that brings its own copy.
Grown(s) ==
  /\ Loaded(s) /\ room'[s] \in Doc /\ Marks(room[s]) \subseteq Marks(room'[s])
  /\ saving'[s] = saving[s] /\ vector'[s] = vector[s]
  /\ due'[s] \/ (room'[s] = room[s] /\ due'[s] = due[s])
  /\ rows' = rows /\ script' = script /\ failed' = failed /\ ranOnce' = ranOnce

\* A load of the board, from base: the rows, or nothing when it fails.
LoadedFrom(s, base) ==
  /\ ~Loaded(s) /\ room'[s] \in Doc /\ Marks(base) \subseteq Marks(room'[s])
  /\ saving'[s] = saving[s]
  /\ due'[s] \/ room'[s] = base
  /\ rows' = rows /\ script' = script /\ ranOnce' = ranOnce

Fetched(s) ==
  /\ LoadedFrom(s, Stored) /\ failed' = failed
  /\ vector'[s] = vector[s] \/ vector'[s] = Stored.ins

Missed(s) ==
  /\ LoadedFrom(s, Empty) /\ vector'[s] = vector[s]
  /\ failed'.loads = failed.loads + 1 /\ failed'.saves = failed.saves

RoomStep(s) ==
  \/ Untouched(s) \/ Grown(s) \/ Fetched(s) \/ Missed(s) \/ BeginStore(s)
  \/ \E i \in 1..MaxSaving : CommitSave(s, i) \/ FailSave(s, i)
  \/ Unload(s) \/ Crash(s)

\* An edit of a connected editor only adds to what its room records.
LEMMA EditGrows ==
  ASSUME RoomInv, NEW c \in Client, NEW d \in Doc, Edit(c, d),
         Marks(cache[c]) \subseteq Marks(d), NEW s \in Server
  PROVE  Untouched(s) \/ Grown(s)
<1>T. TypeOK
  BY DEF RoomInv, TypeInv
<1>1. CASE at[c] = Offline \/ at[c] # s
  <2>1. room'[s] = room[s] /\ due'[s] = due[s]
    BY <1>1, <1>T DEF Edit, Publish, TypeOK
  <2> QED
    BY <2>1 DEF Edit, Untouched
<1>2. CASE at[c] # Offline /\ at[c] = s
  <2>1. Loaded(s) /\ cache[c] = room[s]
    BY <1>2 DEF RoomInv, RoomsOK, Mirrored
  <2>2. room'[s] = d /\ due'[s]
    BY <1>2, <1>T DEF Edit, Publish, TypeOK
  <2> QED
    BY <2>1, <2>2 DEF Edit, Grown, persisted, maintenance
<1> QED
  BY <1>1, <1>2

\* A connection only adds to the document it starts from.
LEMMA SyncGrows ==
  ASSUME RoomInv, NEW c \in Client, NEW s \in Server, NEW base \in Doc, Sync(c, s, base)
  PROVE  /\ room'[s] \in Doc /\ Marks(base) \subseteq Marks(room'[s])
         /\ due'[s] \/ (room'[s] = base /\ due'[s] = due[s])
         /\ \A z \in Server \ {s} : room'[z] = room[z] /\ due'[z] = due[z]
<1>T. TypeOK /\ cache[c] \in Doc
  BY DEF RoomInv, TypeInv, TypeOK
<1>1. Merge(base, cache[c]) \in Doc /\ Marks(base) \subseteq Marks(Merge(base, cache[c]))
  BY <1>T, MergeMarks
<1>2. room' = [room EXCEPT ![s] = Merge(base, cache[c])]
  BY DEF Sync, Publish
<1>3. due' = [due EXCEPT ![s] = due[s] \/ Merge(base, cache[c]) # base]
  BY DEF Sync
<1>4. room'[s] = Merge(base, cache[c])
  BY <1>2, <1>T DEF TypeOK
<1>5. due'[s] = (due[s] \/ Merge(base, cache[c]) # base)
  BY <1>3, <1>T DEF TypeOK
<1>6. due[s] \in BOOLEAN
  BY <1>T DEF TypeOK
<1>7. \A z \in Server \ {s} : room'[z] = room[z] /\ due'[z] = due[z]
  BY <1>2, <1>3, <1>T DEF TypeOK
<1> QED
  BY <1>1, <1>4, <1>5, <1>6, <1>7

\* What a client does to a room is one of those.
LEMMA ClientMoves ==
  ASSUME RoomInv, NEW c \in Client, ClientStep(c), NEW s \in Server
  PROVE  RoomStep(s)
<1>T. TypeOK /\ cache[c] \in Doc /\ cache[c].ins \subseteq Item /\ cache[c].del \subseteq Item
  BY DEF RoomInv, TypeInv, TypeOK, Doc
<1>1. ASSUME NEW x \in Content, Insert(c, x) PROVE RoomStep(s)
  <2>1. PICK d : d = [cache[c] EXCEPT !.ins = @ \cup {<<x, "drawn">>}]
    OBVIOUS
  <2>2. d \in Doc /\ cache[c].ins \subseteq d.ins /\ cache[c].del \subseteq d.del
    BY <1>T, <2>1 DEF Doc, Item
  <2>3. Marks(cache[c]) \subseteq Marks(d)
    BY <1>T, <2>2, MarksWithin
  <2>4. Edit(c, d)
    BY <1>1, <2>1 DEF Insert
  <2> QED
    BY <2>2, <2>3, <2>4, EditGrows DEF RoomStep
<1>2. ASSUME NEW x \in Item, Delete(c, x) PROVE RoomStep(s)
  <2>1. PICK d : d = [cache[c] EXCEPT !.del = @ \cup {x}]
    OBVIOUS
  <2>2. d \in Doc /\ cache[c].ins \subseteq d.ins /\ cache[c].del \subseteq d.del
    BY <1>T, <2>1 DEF Doc
  <2>3. Marks(cache[c]) \subseteq Marks(d)
    BY <1>T, <2>2, MarksWithin
  <2>4. Edit(c, d)
    BY <1>2, <2>1 DEF Delete
  <2> QED
    BY <2>2, <2>3, <2>4, EditGrows DEF RoomStep
<1>3. ASSUME NEW z \in Server, JoinRoom(c, z) PROVE RoomStep(s)
  <2>1. Loaded(z) /\ room[z] \in Doc /\ Sync(c, z, room[z])
    BY <1>3, <1>T DEF JoinRoom, Loaded, TypeOK, Room
  <2>2. CASE z = s
    <3>1. Grown(s)
      BY <1>3, <2>1, <2>2, SyncGrows DEF JoinRoom, Grown, persisted, maintenance
    <3> QED
      BY <3>1 DEF RoomStep
  <2>3. CASE z # s
    <3>1. room'[s] = room[s] /\ due'[s] = due[s]
      BY <2>1, <2>3, SyncGrows
    <3> QED
      BY <1>3, <3>1 DEF JoinRoom, Untouched, RoomStep
  <2> QED
    BY <2>2, <2>3
<1>4. ASSUME NEW z \in Server, LoadDocument(c, z) PROVE RoomStep(s)
  <2>1. ~Loaded(z) /\ Sync(c, z, Stored) /\ Stored \in Doc
    BY <1>4, <1>T, StoredTyped DEF LoadDocument
  <2>2. CASE z = s
    <3>1. LoadedFrom(s, Stored)
      BY <1>4, <2>1, <2>2, SyncGrows DEF LoadDocument, LoadedFrom, persisted, maintenance
    <3>2. vector' = [vector EXCEPT ![s] = IF rows = <<>> THEN vector[s] ELSE Stored.ins]
      BY <1>4, <2>2 DEF LoadDocument
    <3>3. vector'[s] = vector[s] \/ vector'[s] = Stored.ins
      BY <3>2, <1>T DEF TypeOK
    <3> QED
      BY <1>4, <3>1, <3>3 DEF LoadDocument, Fetched, RoomStep
  <2>3. CASE z # s
    <3>1. room'[s] = room[s] /\ due'[s] = due[s]
      BY <2>1, <2>3, SyncGrows
    <3>2. vector'[s] = vector[s]
      BY <1>4, <2>3, <1>T DEF LoadDocument, TypeOK
    <3> QED
      BY <1>4, <3>1, <3>2 DEF LoadDocument, Untouched, RoomStep
  <2> QED
    BY <2>2, <2>3
<1>5. ASSUME NEW z \in Server, LoadFails(c, z) PROVE RoomStep(s)
  <2>1. ~Loaded(z) /\ Sync(c, z, Empty)
    BY <1>5 DEF LoadFails
  <2>2. CASE z = s
    <3>1. LoadedFrom(s, Empty)
      BY <1>5, <2>1, <2>2, EmptyMarks, SyncGrows DEF LoadFails, LoadedFrom, persisted, maintenance
    <3>2. failed' = [failed EXCEPT !.loads = failed.loads + 1]
      BY <1>5 DEF LoadFails
    <3>3. failed'.loads = failed.loads + 1 /\ failed'.saves = failed.saves
      BY <3>2, <1>T DEF TypeOK
    <3> QED
      BY <1>5, <3>1, <3>3 DEF LoadFails, Missed, RoomStep
  <2>3. CASE z # s
    <3>1. room'[s] = room[s] /\ due'[s] = due[s]
      BY <2>1, <2>3, EmptyMarks, SyncGrows
    <3> QED
      BY <1>5, <3>1 DEF LoadFails, Untouched, RoomStep
  <2> QED
    BY <2>2, <2>3
<1>6. CASE Disconnect(c)
  <2>1. due' = [due EXCEPT ![at[c]] = due[at[c]] \/ Connected(at[c]) = {c}]
    BY <1>6 DEF Disconnect
  <2>2. due'[s] # due[s] => at[c] = s /\ due'[s]
    <3>1. at[c] \in Server
      BY <1>6, <1>T DEF Disconnect, TypeOK
    <3>2. CASE at[c] = s
      <4>1. due'[s] = (due[s] \/ Connected(s) = {c}) /\ due[s] \in BOOLEAN
        BY <2>1, <3>2, <1>T DEF TypeOK
      <4> QED
        BY <3>2, <4>1
    <3>3. CASE at[c] # s
      BY <2>1, <3>1, <3>3, <1>T DEF TypeOK
    <3> QED
      BY <3>2, <3>3
  <2>3. at[c] = s => Loaded(s)
    BY DEF RoomInv, RoomsOK, Mirrored
  <2> QED
    BY <1>6, <2>2, <2>3 DEF Disconnect, Untouched, RoomStep
<1>7. CASE PurgeCache(c)
  BY <1>7 DEF PurgeCache, memory, Untouched, RoomStep
<1> QED
  BY <1>1, <1>2, <1>3, <1>4, <1>5, <1>6, <1>7 DEF ClientStep

\* And so is what a server does to its own room, or to another's.
LEMMA ServerMoves ==
  ASSUME RoomInv, NEW z \in Server, ServerStep(z), NEW s \in Server
  PROVE  RoomStep(s)
<1>T. TypeOK
  BY DEF RoomInv, TypeInv
<1>1. CASE z # s
  <2>1. /\ room'[s] = room[s] /\ saving'[s] = saving[s]
        /\ vector'[s] = vector[s] /\ due'[s] = due[s]
    BY <1>1, <1>T
    DEF ServerStep, StoreStep, SkipStore, BeginStore, CommitSave, FailSave,
        Unload, Quiet, Crash, TypeOK
  <2> QED
    BY <2>1 DEF Untouched, RoomStep
<1>2. CASE z = s
  <2>1. CASE SkipStore(s)
    BY <2>1 DEF SkipStore, Untouched, RoomStep
  <2> QED
    BY <1>2, <2>1 DEF ServerStep, StoreStep, RoomStep
<1> QED
  BY <1>1, <1>2

\* Every step does one of those things to every room.
LEMMA Moves ==
  ASSUME RoomInv, [Next]_vars, NEW s \in Server
  PROVE  RoomStep(s)
<1>1. CASE UNCHANGED vars \/ ScriptStep
  BY <1>1
  DEF vars, memory, Untouched, RoomStep, ScriptStep, IdleWindowPasses, ChooseBoard,
      ReadRows, ReplaceRows, AppendMerged, LeaveBoard
<1> QED
  BY <1>1, ClientMoves, ServerMoves DEF Next

\* A document is never the mark of a room that is gone.
LEMMA DocsAreLoaded == \A d \in Doc : d # Unloaded
  BY ValueAssumption

\* A change that a room publishes reaches everyone connected to it.
LEMMA EditMirrored ==
  ASSUME RoomInv, NEW c \in Client, NEW d \in Doc, Edit(c, d), NEW s \in Server
  PROVE  Mirrored(s)'
<1>T. TypeOK /\ Mirrored(s)
  BY DEF RoomInv, TypeInv, RoomsOK
<1> SUFFICES ASSUME NEW q \in Client, at'[q] = s
             PROVE  Loaded(s)' /\ cache'[q] = room'[s]
  BY DEF Mirrored
<1>0. at[q] = s
  BY DEF Edit
<1>1. CASE at[c] = Offline
  <2>1. q # c
    BY <1>0, <1>1, PlaceAssumption
  <2> QED
    BY <1>0, <1>1, <1>T, <2>1, PlaceAssumption DEF Edit, Mirrored, Loaded, TypeOK
<1>2. CASE at[c] # Offline /\ at[c] = s
  <2>1. room'[s] = d /\ q \in Connected(s)
    BY <1>0, <1>2, <1>T DEF Edit, Publish, TypeOK, Connected
  <2>2. cache'[q] = d
    BY <1>2, <2>1 DEF Edit, Publish
  <2> QED
    BY <2>1, <2>2, DocsAreLoaded DEF Loaded
<1>3. CASE at[c] # Offline /\ at[c] # s
  <2>1. room'[s] = room[s] /\ q \notin Connected(at[c])
    BY <1>0, <1>3, <1>T DEF Edit, Publish, TypeOK, Connected
  <2>2. cache'[q] = cache[q]
    BY <1>3, <2>1 DEF Edit, Publish
  <2> QED
    BY <1>0, <1>T, <2>1, <2>2 DEF Loaded, Mirrored
<1> QED
  BY <1>1, <1>2, <1>3

\* A connection is handed the room's document, as is everyone there already.
LEMMA SyncMirrored ==
  ASSUME RoomInv, NEW c \in Client, NEW z \in Server, NEW base \in Doc, Sync(c, z, base),
         at[c] = Offline, NEW s \in Server
  PROVE  Mirrored(s)'
<1>T. TypeOK /\ Mirrored(s)
  BY DEF RoomInv, TypeInv, RoomsOK
<1> SUFFICES ASSUME NEW q \in Client, at'[q] = s
             PROVE  Loaded(s)' /\ cache'[q] = room'[s]
  BY DEF Mirrored
<1>0. at'[q] = IF q = c THEN z ELSE at[q]
  BY <1>T DEF Sync, TypeOK
<1>1. PICK d : d = Merge(base, cache[c])
  OBVIOUS
<1>2. /\ d \in Doc /\ room' = [room EXCEPT ![z] = d]
      /\ cache' = [x \in Client |-> IF x \in Connected(z) \cup {c} THEN d ELSE cache[x]]
  BY <1>1, <1>T, MergeMarks DEF Sync, Publish, TypeOK
<1>3. CASE s = z
  <2>1. q \in Connected(z) \cup {c} /\ room'[s] = d
    BY <1>0, <1>2, <1>3, <1>T DEF Connected, TypeOK
  <2> QED
    BY <1>2, <2>1, DocsAreLoaded DEF Loaded
<1>4. CASE s # z
  <2>1. q \notin Connected(z) \cup {c} /\ room'[s] = room[s] /\ at[q] = s
    BY <1>0, <1>2, <1>4, <1>T DEF Connected, TypeOK
  <2> QED
    BY <1>2, <1>T, <2>1 DEF Loaded, Mirrored
<1> QED
  BY <1>3, <1>4

\* A connected editor holds the room's document after any step.
LEMMA MirroredStep ==
  ASSUME RoomInv, [Next]_vars, NEW s \in Server
  PROVE  Mirrored(s)'
<1>T. TypeOK /\ Mirrored(s)
  BY DEF RoomInv, TypeInv, RoomsOK
<1>0. CASE at' = at /\ cache' = cache /\ room'[s] = room[s]
  BY <1>0, <1>T DEF Mirrored, Loaded
<1>1. ASSUME NEW c \in Client, ClientStep(c) PROVE Mirrored(s)'
  <2>T. cache[c] \in Doc /\ cache[c].ins \subseteq Item /\ cache[c].del \subseteq Item
    BY <1>T DEF TypeOK, Doc
  <2>1. ASSUME NEW x \in Content, Insert(c, x) PROVE Mirrored(s)'
    <3>1. [cache[c] EXCEPT !.ins = @ \cup {<<x, "drawn">>}] \in Doc
      BY <2>T DEF Doc, Item
    <3> QED
      BY <2>1, <3>1, EditMirrored DEF Insert
  <2>2. ASSUME NEW x \in Item, Delete(c, x) PROVE Mirrored(s)'
    <3>1. [cache[c] EXCEPT !.del = @ \cup {x}] \in Doc
      BY <2>T DEF Doc
    <3> QED
      BY <2>2, <3>1, EditMirrored DEF Delete
  <2>3. ASSUME NEW z \in Server, JoinRoom(c, z) \/ LoadDocument(c, z) \/ LoadFails(c, z)
        PROVE  Mirrored(s)'
    <3>1. Loaded(z) => room[z] \in Doc
      BY <1>T DEF Loaded, TypeOK, Room
    <3> QED
      BY <1>T, <2>3, <3>1, StoredTyped, EmptyMarks, SyncMirrored
      DEF JoinRoom, LoadDocument, LoadFails
  <2>4. CASE Disconnect(c)
    <3>1. /\ at' = [at EXCEPT ![c] = Offline]
          /\ cache' = cache /\ room' = room
      BY <2>4 DEF Disconnect
    <3> QED
      BY <1>T, <3>1, PlaceAssumption DEF TypeOK, Mirrored, Loaded
  <2>5. CASE PurgeCache(c)
    <3>1. /\ at' = at /\ at[c] = Offline /\ room' = room
          /\ \A q \in Client \ {c} : cache'[q] = cache[q]
      BY <2>5, <1>T DEF PurgeCache, memory, TypeOK
    <3> QED
      BY <1>T, <3>1, PlaceAssumption DEF Mirrored, Loaded
  <2> QED
    BY <1>1, <2>1, <2>2, <2>3, <2>4, <2>5 DEF ClientStep
<1>2. ASSUME NEW z \in Server, ServerStep(z) PROVE Mirrored(s)'
  <2>1. CASE Unload(z)
    <3>1. at' = at /\ cache' = cache /\ room' = [room EXCEPT ![z] = Unloaded] /\ Connected(z) = {}
      BY <2>1 DEF Unload, Quiet, editors
    <3> QED
      BY <1>T, <3>1 DEF TypeOK, Mirrored, Loaded, Connected
  <2>2. CASE Crash(z)
    <3>1. /\ at' = [c \in Client |-> IF at[c] = z THEN Offline ELSE at[c]]
          /\ cache' = cache /\ room' = [room EXCEPT ![z] = Unloaded]
      BY <2>2 DEF Crash
    <3> QED
      BY <1>T, <3>1, PlaceAssumption DEF TypeOK, Mirrored, Loaded
  <2>3. CASE at' = at /\ cache' = cache /\ room' = room
    BY <1>0, <2>3
  <2> QED
    BY <1>2, <2>1, <2>2, <2>3
    DEF ServerStep, StoreStep, SkipStore, BeginStore, CommitSave, FailSave, editors
<1>3. CASE UNCHANGED vars \/ ScriptStep
  BY <1>0, <1>3
  DEF vars, memory, editors, ScriptStep, IdleWindowPasses, ChooseBoard,
      ReadRows, ReplaceRows, AppendMerged, LeaveBoard
<1> QED
  BY <1>1, <1>2, <1>3 DEF Next

\* The snapshots left in flight once one has been answered keep their order.
LEMMA AnsweredIs ==
  ASSUME TypeOK, NEW s \in Server, NEW i,
         CommitSave(s, i) \/ FailSave(s, i)
  PROVE  /\ i \in 1..Len(saving[s]) /\ Len(saving[s]) \in 1..MaxSaving
         /\ DOMAIN saving[s] = 1..Len(saving[s])
         /\ DOMAIN saving'[s] = 1..(Len(saving[s]) - 1)
         /\ \A j \in 1..(Len(saving[s]) - 1) :
              saving'[s][j] = IF j < i THEN saving[s][j] ELSE saving[s][j + 1]
         /\ room'[s] = room[s] /\ due'[s] = due[s]
<1>1. /\ i \in DOMAIN saving[s] /\ saving[s] \in Seq(Doc)
      /\ Len(saving[s]) <= MaxSaving
  BY DEF CommitSave, FailSave, TypeOK
<1>2. saving'[s] = RemoveAt(saving[s], i)
  BY DEF CommitSave, FailSave, TypeOK
<1>3. i \in 1..Len(saving[s]) /\ Len(saving[s]) \in 1..MaxSaving
      /\ DOMAIN saving[s] = 1..Len(saving[s])
  <2>1. DOMAIN saving[s] = 1..Len(saving[s]) /\ Len(saving[s]) \in Nat
    BY <1>1, LenProperties
  <2> QED
    BY <1>1, <2>1, BoundsAssumption
<1>4. /\ RemoveAt(saving[s], i) \in Seq(Doc)
      /\ Len(RemoveAt(saving[s], i)) = Len(saving[s]) - 1
      /\ \A j \in 1..(Len(saving[s]) - 1) :
           RemoveAt(saving[s], i)[j] = IF j < i THEN saving[s][j] ELSE saving[s][j + 1]
  BY <1>1, RemoveAtIs
<1>5. DOMAIN RemoveAt(saving[s], i) = 1..(Len(saving[s]) - 1)
  BY <1>4, LenProperties
<1> QED
  BY <1>2, <1>3, <1>4, <1>5 DEF CommitSave, FailSave

\* The snapshot a store begins is the latest of those in flight.
LEMMA BegunIs ==
  ASSUME TypeOK, NEW s \in Server, BeginStore(s)
  PROVE  /\ room[s] \in Doc /\ room'[s] = room[s]
         /\ Len(saving[s]) \in Nat /\ Len(saving[s]) < MaxSaving
         /\ DOMAIN saving[s] = 1..Len(saving[s])
         /\ DOMAIN saving'[s] = 1..(Len(saving[s]) + 1)
         /\ \A j \in 1..Len(saving[s]) : saving'[s][j] = saving[s][j]
         /\ saving'[s][Len(saving[s]) + 1] = room[s]
<1>1. room[s] \in Doc /\ saving[s] \in Seq(Doc) /\ Len(saving[s]) < MaxSaving
  BY DEF BeginStore, Loaded, TypeOK, Room
<1>2. saving'[s] = Append(saving[s], room[s])
  BY DEF BeginStore, TypeOK
<1>3. Len(saving[s]) \in Nat /\ DOMAIN saving[s] = 1..Len(saving[s])
  BY <1>1, LenProperties
<1>4. /\ Append(saving[s], room[s]) \in Seq(Doc)
      /\ Len(Append(saving[s], room[s])) = Len(saving[s]) + 1
      /\ \A j \in 1..Len(saving[s]) : Append(saving[s], room[s])[j] = saving[s][j]
      /\ Append(saving[s], room[s])[Len(saving[s]) + 1] = room[s]
  BY <1>1, AppendProperties
<1>5. DOMAIN Append(saving[s], room[s]) = 1..(Len(saving[s]) + 1)
  BY <1>4, LenProperties
<1> QED
  BY <1>1, <1>2, <1>3, <1>4, <1>5 DEF BeginStore

\* A room that goes takes everything in flight with it.
LEMMA GoneIs ==
  ASSUME TypeOK, NEW s \in Server, Unload(s) \/ Crash(s)
  PROVE  /\ room'[s] = Unloaded /\ saving'[s] = <<>> /\ vector'[s] = NoVector /\ ~due'[s]
         /\ DOMAIN saving'[s] = {}
<1>1. /\ room'[s] = Unloaded /\ saving'[s] = <<>> /\ vector'[s] = NoVector /\ ~due'[s]
  BY DEF Unload, Quiet, Crash, TypeOK
<1>2. <<>> \in Seq(Doc) /\ Len(<<>>) = 0
  BY EmptySeq
<1>3. DOMAIN <<>> = 1..0
  OBVIOUS
<1> QED
  BY <1>1, <1>3

\* Saves in flight are still ordered after any step.
LEMMA EncodedStep ==
  ASSUME RoomInv, [Next]_vars, NEW s \in Server
  PROVE  Encoded(s)'
<1>T. TypeOK /\ Encoded(s) /\ Resting(s)
  BY DEF RoomInv, TypeInv, RoomsOK
<1>1. CASE Untouched(s)
  BY <1>1, <1>T DEF Untouched, Encoded
<1>2. CASE Grown(s)
  BY <1>2, <1>T DEF Grown, Encoded
<1>3. CASE Fetched(s) \/ Missed(s)
  <2>1. saving'[s] = <<>>
    BY <1>3, <1>T DEF Fetched, Missed, LoadedFrom, Resting
  <2> QED
    BY <2>1 DEF Encoded
<1>4. CASE BeginStore(s)
  <2>1. /\ room'[s] = room[s] /\ Len(saving[s]) \in Nat
        /\ DOMAIN saving[s] = 1..Len(saving[s])
        /\ DOMAIN saving'[s] = 1..(Len(saving[s]) + 1)
        /\ \A j \in 1..Len(saving[s]) : saving'[s][j] = saving[s][j]
        /\ saving'[s][Len(saving[s]) + 1] = room[s]
    BY <1>4, <1>T, BegunIs
  <2>2. ASSUME NEW i \in DOMAIN saving'[s]
        PROVE  Marks(saving'[s][i]) \subseteq Marks(room[s])
    <3>1. i \in 1..Len(saving[s]) \/ i = Len(saving[s]) + 1
      BY <2>1
    <3> QED
      BY <1>T, <2>1, <3>1 DEF Encoded
  <2>3. ASSUME NEW i \in DOMAIN saving'[s], NEW j \in DOMAIN saving'[s], i < j
        PROVE  Marks(saving'[s][i]) \subseteq Marks(saving'[s][j])
    <3>1. CASE j = Len(saving[s]) + 1
      BY <2>1, <2>2, <3>1
    <3>2. CASE j # Len(saving[s]) + 1
      <4>1. i \in 1..Len(saving[s]) /\ j \in 1..Len(saving[s])
        BY <2>1, <2>3, <3>2
      <4> QED
        BY <1>T, <2>1, <2>3, <4>1 DEF Encoded
    <3> QED
      BY <3>1, <3>2
  <2> QED
    BY <2>1, <2>2, <2>3 DEF Encoded
<1>5. ASSUME NEW k \in 1..MaxSaving, CommitSave(s, k) \/ FailSave(s, k)
      PROVE  Encoded(s)'
  <2>1. /\ k \in 1..Len(saving[s]) /\ Len(saving[s]) \in Nat
        /\ DOMAIN saving[s] = 1..Len(saving[s])
        /\ DOMAIN saving'[s] = 1..(Len(saving[s]) - 1)
        /\ \A j \in 1..(Len(saving[s]) - 1) :
             saving'[s][j] = IF j < k THEN saving[s][j] ELSE saving[s][j + 1]
        /\ room'[s] = room[s]
    BY <1>5, <1>T, AnsweredIs
  <2> DEFINE old(j) == IF j < k THEN j ELSE j + 1
  <2>2. ASSUME NEW i \in DOMAIN saving'[s]
        PROVE  old(i) \in DOMAIN saving[s] /\ saving'[s][i] = saving[s][old(i)]
    BY <2>1
  <2>3. ASSUME NEW i \in DOMAIN saving'[s], NEW j \in DOMAIN saving'[s], i < j
        PROVE  old(i) < old(j)
    BY <2>1, <2>3
  <2> HIDE DEF old
  <2> QED
    BY <1>T, <2>1, <2>2, <2>3 DEF Encoded
<1>6. CASE Unload(s) \/ Crash(s)
  <2>1. DOMAIN saving'[s] = {}
    BY <1>6, <1>T, GoneIs
  <2> QED
    BY <2>1 DEF Encoded
<1> QED
  BY <1>1, <1>2, <1>3, <1>4, <1>5, <1>6, Moves DEF RoomStep

\* A room that is gone has nothing left in flight after any step.
LEMMA RestingStep ==
  ASSUME RoomInv, [Next]_vars, NEW s \in Server
  PROVE  Resting(s)'
<1>T. TypeOK /\ Resting(s)
  BY DEF RoomInv, TypeInv, RoomsOK
<1>1. CASE Untouched(s)
  BY <1>1, <1>T DEF Untouched, Resting, Loaded
<1>2. CASE Grown(s)
  BY <1>2, DocsAreLoaded DEF Grown, Resting, Loaded
<1>3. CASE Fetched(s) \/ Missed(s)
  BY <1>3, DocsAreLoaded DEF Fetched, Missed, LoadedFrom, Resting, Loaded
<1>4. CASE BeginStore(s)
  BY <1>4 DEF BeginStore, Resting, Loaded
<1>5. ASSUME NEW k \in 1..MaxSaving, CommitSave(s, k) \/ FailSave(s, k)
      PROVE  Resting(s)'
  <2>1. k \in DOMAIN saving[s] /\ room' = room
    BY <1>5 DEF CommitSave, FailSave
  <2>2. saving[s] # <<>>
    BY <2>1
  <2> QED
    BY <1>T, <2>1, <2>2 DEF Resting, Loaded
<1>6. CASE Unload(s) \/ Crash(s)
  BY <1>6, <1>T, GoneIs DEF Resting
<1> QED
  BY <1>1, <1>2, <1>3, <1>4, <1>5, <1>6, Moves DEF RoomStep

\* No room is loaded at first.
LEMMA RoomsInit == Init => RoomInv
<1> SUFFICES ASSUME Init, NEW s \in Server PROVE Mirrored(s) /\ Resting(s) /\ Encoded(s)
  BY InitTyped DEF RoomInv, RoomsOK
<1>1. saving[s] = <<>> /\ DOMAIN <<>> = {}
  BY DEF Init
<1> QED
  BY <1>1, PlaceAssumption DEF Init, Mirrored, Resting, Encoded

\* Every step keeps every room in order.
LEMMA RoomsStep == RoomInv /\ [Next]_vars => RoomInv'
<1> SUFFICES ASSUME RoomInv, [Next]_vars PROVE RoomInv'
  OBVIOUS
<1>1. TypeInv'
  BY StepTyped DEF RoomInv
<1>2. \A s \in Server : Mirrored(s)' /\ Resting(s)' /\ Encoded(s)'
  BY MirroredStep, RestingStep, EncodedStep
<1> QED
  BY <1>1, <1>2 DEF RoomInv, RoomsOK

\* For any number of editors, servers and scripts: everyone connected holds the
\* room's document, and its saves in flight are prefixes of its history.
THEOREM Rooms == Spec => []RoomInv
  BY RoomsInit, RoomsStep, PTL DEF Spec

-----------------------------------------------------------------------------
(***************************************************************************)
(* One server.  What it needs of a mark that can be read back is that no   *)
(* save now in flight can push the mark out of the window: the rows newer  *)
(* than one that records it, and the saves in flight encoded before it,    *)
(* are fewer than n together; every other save in flight records it too.   *)
(***************************************************************************)
KeptWithin(s, p, n) ==
  /\ Loaded(s) => p \in Marks(room[s])
  /\ \E k \in 1..Len(rows), m \in 0..MaxSaving :
       /\ p \in Marks(rows[k])
       /\ \A i \in DOMAIN saving[s] : i > m => p \in Marks(saving[s][i])
       /\ m + Len(rows) - k < n

\* What is kept within the retention window can be read back.
LEMMA KeptIsStored ==
  ASSUME TypeOK, NEW s \in Server, NEW p, NEW n \in Nat, n <= RETENTION,
         KeptWithin(s, p, n)
  PROVE  p \in Marks(Stored)
<1>1. PICK k \in 1..Len(rows), m \in 0..MaxSaving :
        p \in Marks(rows[k]) /\ m + Len(rows) - k < n
  BY DEF KeptWithin
<1>2. rows \in Seq(Doc) /\ Len(rows) \in Nat
  BY LenProperties DEF TypeOK
<1>3. k > Len(rows) - RETENTION
  BY <1>1, <1>2, BoundsAssumption, RetentionAssumption
<1> QED
  BY <1>1, <1>2, <1>3, WindowMarks DEF Stored

\* What a commit does to the rows.
LEMMA CommitIs ==
  ASSUME TypeOK, NEW s \in Server, NEW i, CommitSave(s, i)
  PROVE  /\ saving[s][i] \in Doc /\ rows' \in Seq(Doc)
         /\ Len(rows) \in Nat /\ Len(rows') \in 1..RETENTION
         /\ Len(rows') <= Len(rows) + 1
         /\ Len(rows') = Len(rows) + 1 \/ Len(rows') = RETENTION
         /\ rows'[Len(rows')] = saving[s][i]
         /\ \A k \in 1..(Len(rows') - 1) : rows'[k] = rows[Len(rows) + 1 - Len(rows') + k]
<1>1. saving[s][i] \in Doc /\ rows \in Seq(Doc) /\ Len(rows) \in Nat
  BY ElementsAre, LenProperties DEF CommitSave, TypeOK
<1>2. rows' = Saved(saving[s][i])
  BY DEF CommitSave
<1>3. /\ rows' \in Seq(Doc)
      /\ Len(rows') = IF Len(rows) + 1 <= RETENTION THEN Len(rows) + 1 ELSE RETENTION
      /\ rows'[Len(rows')] = saving[s][i]
      /\ \A k \in 1..(Len(rows') - 1) : rows'[k] = rows[Len(rows) + 1 - Len(rows') + k]
  BY <1>1, <1>2, SavedIs
<1>4. /\ Len(rows') \in 1..RETENTION /\ Len(rows') <= Len(rows) + 1
      /\ Len(rows') = Len(rows) + 1 \/ Len(rows') = RETENTION
  BY <1>1, <1>3, RetentionAssumption
<1> QED
  BY <1>1, <1>3, <1>4

\* Every row there is after a commit was there before it, or is the one written.
LEMMA RowsAfterCommit ==
  ASSUME TypeOK, NEW s \in Server, NEW i, CommitSave(s, i), NEW k \in 1..Len(rows')
  PROVE  \/ k = Len(rows') /\ rows'[k] = saving[s][i]
         \/ \E l \in 1..Len(rows) : rows'[k] = rows[l] /\ Len(rows') - k = Len(rows) + 1 - l
<1>1. /\ Len(rows) \in Nat /\ Len(rows') \in Nat /\ Len(rows') <= Len(rows) + 1
      /\ rows'[Len(rows')] = saving[s][i]
      /\ \A j \in 1..(Len(rows') - 1) : rows'[j] = rows[Len(rows) + 1 - Len(rows') + j]
  BY CommitIs
<1>2. CASE k = Len(rows')
  BY <1>1, <1>2
<1>3. CASE k # Len(rows')
  <2>1. k \in 1..(Len(rows') - 1)
    BY <1>1, <1>3
  <2>2. PICK l : l = Len(rows) + 1 - Len(rows') + k
    OBVIOUS
  <2>3. l \in 1..Len(rows) /\ Len(rows') - k = Len(rows) + 1 - l
    BY <1>1, <2>1, <2>2
  <2> QED
    BY <1>1, <2>1, <2>2, <2>3
<1> QED
  BY <1>2, <1>3

\* A commit drops no row that fewer than n newer ones and older saves follow.
LEMMA KeptByCommit ==
  ASSUME RoomInv, NEW s \in Server, NEW i, CommitSave(s, i),
         NEW p, NEW n \in Nat, n <= RETENTION, KeptWithin(s, p, n)
  PROVE  KeptWithin(s, p, n)'
<1>T. TypeOK
  BY DEF RoomInv, TypeInv
<1>1. PICK k \in 1..Len(rows), m \in 0..MaxSaving :
        /\ p \in Marks(rows[k])
        /\ \A j \in DOMAIN saving[s] : j > m => p \in Marks(saving[s][j])
        /\ m + Len(rows) - k < n
  BY DEF KeptWithin
<1>2. /\ i \in 1..Len(saving[s]) /\ Len(saving[s]) \in 1..MaxSaving
      /\ DOMAIN saving[s] = 1..Len(saving[s])
      /\ DOMAIN saving'[s] = 1..(Len(saving[s]) - 1)
      /\ \A j \in 1..(Len(saving[s]) - 1) :
           saving'[s][j] = IF j < i THEN saving[s][j] ELSE saving[s][j + 1]
      /\ room'[s] = room[s]
  BY <1>T, AnsweredIs
<1>3. /\ Len(rows) \in Nat /\ Len(rows') \in 1..RETENTION
      /\ Len(rows') <= Len(rows) + 1
      /\ Len(rows') = Len(rows) + 1 \/ Len(rows') = RETENTION
      /\ rows'[Len(rows')] = saving[s][i]
      /\ \A j \in 1..(Len(rows') - 1) : rows'[j] = rows[Len(rows) + 1 - Len(rows') + j]
  BY <1>T, CommitIs
<1>4. Loaded(s)' => p \in Marks(room'[s])
  BY <1>2 DEF KeptWithin, Loaded
<1>5. k \in Nat /\ m \in Nat /\ RETENTION \in Nat /\ MaxSaving \in Nat
      /\ Len(saving[s]) \in Nat
  BY <1>2, <1>3, BoundsAssumption, RetentionAssumption
<1>6. CASE i <= m
  <2>1. PICK l : l = k - (Len(rows) + 1 - Len(rows'))
    OBVIOUS
  <2>2. m >= 1 /\ Len(rows) - k <= RETENTION - 2
    BY <1>1, <1>2, <1>3, <1>5, <1>6
  <2>3. l \in 1..(Len(rows') - 1)
    BY <1>1, <1>3, <1>5, <2>1, <2>2
  <2>4. p \in Marks(rows'[l])
    <3>1. Len(rows) + 1 - Len(rows') + l = k
      BY <1>3, <1>5, <2>1
    <3>2. rows'[l] = rows[k]
      BY <1>3, <2>3, <3>1
    <3> QED
      BY <1>1, <3>2
  <2>5. ASSUME NEW j \in DOMAIN saving'[s], j > m - 1 PROVE p \in Marks(saving'[s][j])
    <3>1. j \in 1..(Len(saving[s]) - 1) /\ ~(j < i) /\ j + 1 > m /\ j + 1 \in 1..Len(saving[s])
      BY <1>2, <1>5, <1>6, <2>5
    <3> QED
      BY <1>1, <1>2, <3>1
  <2>6. (m - 1) + Len(rows') - l < n /\ m - 1 \in 0..MaxSaving /\ l \in 1..Len(rows')
    BY <1>1, <1>3, <1>5, <2>1, <2>2, <2>3
  <2> QED
    BY <1>4, <2>4, <2>5, <2>6 DEF KeptWithin
<1>7. CASE i > m
  <2>1. p \in Marks(rows'[Len(rows')])
    BY <1>1, <1>2, <1>3, <1>7
  <2>2. ASSUME NEW j \in DOMAIN saving'[s], j > m PROVE p \in Marks(saving'[s][j])
    <3>1. j \in 1..(Len(saving[s]) - 1) /\ j \in DOMAIN saving[s]
          /\ j + 1 \in DOMAIN saving[s] /\ j + 1 > m
      BY <1>2, <1>5, <2>2
    <3> QED
      BY <1>1, <1>2, <2>2, <3>1
  <2>3. m + Len(rows') - Len(rows') < n /\ Len(rows') \in 1..Len(rows')
    BY <1>1, <1>3, <1>5
  <2> QED
    BY <1>4, <2>1, <2>2, <2>3 DEF KeptWithin
<1> QED
  BY <1>2, <1>5, <1>6, <1>7

\* What a save wrote is kept: the saves still in flight that were encoded
\* before it are fewer than MaxSaving, and those encoded after it record it.
LEMMA WrittenIsKept ==
  ASSUME RoomInv, NEW s \in Server, NEW i, CommitSave(s, i),
         NEW p \in Marks(saving[s][i])
  PROVE  KeptWithin(s, p, MaxSaving)' /\ KeptWithin(s, p, MaxSaving + 1)'
<1>T. TypeOK /\ Encoded(s)
  BY DEF RoomInv, TypeInv, RoomsOK
<1>2. /\ i \in 1..Len(saving[s]) /\ Len(saving[s]) \in 1..MaxSaving
      /\ DOMAIN saving[s] = 1..Len(saving[s])
      /\ DOMAIN saving'[s] = 1..(Len(saving[s]) - 1)
      /\ \A j \in 1..(Len(saving[s]) - 1) :
           saving'[s][j] = IF j < i THEN saving[s][j] ELSE saving[s][j + 1]
      /\ room'[s] = room[s]
  BY <1>T, AnsweredIs
<1>3. Len(rows') \in 1..RETENTION /\ rows'[Len(rows')] = saving[s][i]
  BY <1>T, CommitIs
<1>4. p \in Marks(room'[s])
  BY <1>2, <1>T DEF Encoded
<1>5. ASSUME NEW j \in DOMAIN saving'[s], j > i - 1 PROVE p \in Marks(saving'[s][j])
  <2>1. j + 1 \in DOMAIN saving[s] /\ i < j + 1 /\ saving'[s][j] = saving[s][j + 1]
    BY <1>2, <1>5
  <2> QED
    BY <1>2, <1>T, <2>1 DEF Encoded
<1>6. /\ (i - 1) + Len(rows') - Len(rows') < MaxSaving /\ i - 1 \in 0..MaxSaving
      /\ (i - 1) + Len(rows') - Len(rows') < MaxSaving + 1
      /\ Len(rows') \in 1..Len(rows')
  BY <1>2, <1>3, BoundsAssumption, RetentionAssumption
<1> QED
  BY <1>3, <1>4, <1>5, <1>6 DEF KeptWithin

\* As long as no load fails and no script writes, what is kept stays kept.
LEMMA KeptStep ==
  ASSUME RoomInv, [Next]_vars, NEW s \in Server, ~Missed(s),
         rows' = rows \/ \E i \in 1..MaxSaving : CommitSave(s, i),
         NEW p, NEW n \in Nat, n <= RETENTION, KeptWithin(s, p, n)
  PROVE  KeptWithin(s, p, n)'
<1>T. TypeOK /\ Resting(s)
  BY DEF RoomInv, TypeInv, RoomsOK
<1>0. ASSUME NEW i \in 1..MaxSaving, CommitSave(s, i) PROVE KeptWithin(s, p, n)'
  BY <1>0, KeptByCommit
<1>K. PICK k \in 1..Len(rows), m \in 0..MaxSaving :
        /\ p \in Marks(rows[k])
        /\ \A j \in DOMAIN saving[s] : j > m => p \in Marks(saving[s][j])
        /\ m + Len(rows) - k < n
  BY DEF KeptWithin
<1>1. CASE rows' = rows /\ Untouched(s)
  BY <1>1 DEF Untouched, KeptWithin, Loaded
<1>2. CASE rows' = rows /\ Grown(s)
  BY <1>2, <1>K DEF Grown, KeptWithin
<1>3. CASE rows' = rows /\ Fetched(s)
  <2>1. p \in Marks(room'[s]) /\ saving'[s] = saving[s]
    BY <1>3, <1>T, KeptIsStored DEF Fetched, LoadedFrom
  <2> QED
    BY <1>3, <1>K, <2>1 DEF KeptWithin
<1>4. CASE rows' = rows /\ BeginStore(s)
  <2>1. /\ room'[s] = room[s] /\ Len(saving[s]) \in Nat
        /\ DOMAIN saving[s] = 1..Len(saving[s])
        /\ DOMAIN saving'[s] = 1..(Len(saving[s]) + 1)
        /\ \A j \in 1..Len(saving[s]) : saving'[s][j] = saving[s][j]
        /\ saving'[s][Len(saving[s]) + 1] = room[s]
    BY <1>4, <1>T, BegunIs
  <2>2. p \in Marks(room[s])
    BY <1>4 DEF BeginStore, KeptWithin
  <2>3. ASSUME NEW j \in DOMAIN saving'[s], j > m PROVE p \in Marks(saving'[s][j])
    <3>1. j \in 1..Len(saving[s]) \/ j = Len(saving[s]) + 1
      BY <2>1
    <3> QED
      BY <1>K, <2>1, <2>2, <2>3, <3>1
  <2> QED
    BY <1>4, <1>K, <2>1, <2>2, <2>3 DEF KeptWithin
<1>5. ASSUME NEW i \in 1..MaxSaving, FailSave(s, i), rows' = rows
      PROVE  KeptWithin(s, p, n)'
  <2>1. /\ i \in 1..Len(saving[s]) /\ Len(saving[s]) \in 1..MaxSaving
        /\ DOMAIN saving[s] = 1..Len(saving[s])
        /\ DOMAIN saving'[s] = 1..(Len(saving[s]) - 1)
        /\ \A j \in 1..(Len(saving[s]) - 1) :
             saving'[s][j] = IF j < i THEN saving[s][j] ELSE saving[s][j + 1]
        /\ room'[s] = room[s]
    BY <1>5, <1>T, AnsweredIs
  <2>2. ASSUME NEW j \in DOMAIN saving'[s], j > m PROVE p \in Marks(saving'[s][j])
    <3>1. j \in 1..(Len(saving[s]) - 1) /\ j \in DOMAIN saving[s]
          /\ j + 1 \in DOMAIN saving[s] /\ j + 1 > m
      BY <2>1, <2>2, BoundsAssumption
    <3> QED
      BY <1>K, <2>1, <2>2, <3>1
  <2>3. Loaded(s)' => p \in Marks(room'[s])
    BY <2>1 DEF KeptWithin, Loaded
  <2> QED
    BY <1>5, <1>K, <2>2, <2>3 DEF KeptWithin
<1>6. CASE rows' = rows /\ (Unload(s) \/ Crash(s))
  <2>1. ~Loaded(s)' /\ DOMAIN saving'[s] = {}
    BY <1>6, <1>T, GoneIs DEF Loaded
  <2> QED
    BY <1>6, <1>K, <2>1 DEF KeptWithin
<1> QED
  BY <1>0, <1>1, <1>2, <1>3, <1>4, <1>5, <1>6, Moves DEF RoomStep

\* The rows are written by the commits of a server and by the two scripts.
LEMMA RowsWritten ==
  ASSUME [Next]_vars, NEW s, Server = {s}
  PROVE  \/ rows' = rows \/ (\E i \in 1..MaxSaving : CommitSave(s, i))
         \/ ReplaceRows \/ AppendMerged
<1>1. ASSUME NEW c \in Client, ClientStep(c) PROVE rows' = rows
  BY <1>1
  DEF ClientStep, Insert, Delete, Edit, JoinRoom, LoadDocument, LoadFails,
      Disconnect, PurgeCache, persisted
<1>2. ASSUME NEW z \in Server, ServerStep(z)
      PROVE  rows' = rows \/ \E i \in 1..MaxSaving : CommitSave(z, i)
  BY <1>2
  DEF ServerStep, StoreStep, SkipStore, BeginStore, FailSave, Unload, Crash, persisted
<1>3. CASE ScriptStep
  BY <1>3
  DEF ScriptStep, IdleWindowPasses, ChooseBoard, ReadRows, LeaveBoard, persisted
<1> QED
  BY <1>1, <1>2, <1>3 DEF Next, vars, persisted

-----------------------------------------------------------------------------
(***************************************************************************)
(* The skip guard, where no script runs.                                   *)
(***************************************************************************)

\* No script is ever chosen where none may run.
LEMMA NoScriptInit == Init => script = NoScript
  BY DEF Init

\* Nor does any step choose one.
LEMMA NoScriptStep ==
  ASSUME Maintenance = {}, script = NoScript, [Next]_vars
  PROVE  script' = NoScript /\ ~ReplaceRows /\ ~AppendMerged
<1>0. NoScript.step = "off"
  BY DEF NoScript
<1>1. ~ReplaceRows /\ ~AppendMerged /\ ~ReadRows
  BY <1>0 DEF ReplaceRows, AppendMerged, ReadRows
<1>2. CASE ScriptStep
  BY <1>1, <1>2 DEF ScriptStep, IdleWindowPasses, LeaveBoard, maintenance
<1>3. ASSUME NEW c \in Client, ClientStep(c) PROVE script' = script
  BY <1>3
  DEF ClientStep, Insert, Delete, Edit, JoinRoom, LoadDocument, LoadFails,
      Disconnect, PurgeCache, maintenance
<1>4. ASSUME NEW s \in Server, ServerStep(s) PROVE script' = script
  BY <1>0, <1>4
  DEF ServerStep, StoreStep, SkipStore, BeginStore, CommitSave, FailSave, Unload,
      Crash, maintenance
<1> QED
  BY <1>1, <1>2, <1>3, <1>4 DEF Next, vars, maintenance

\* The last row is always in the window.
LEMMA LastIsStored ==
  ASSUME rows \in Seq(Doc), rows # <<>>, NEW x \in rows[Len(rows)].ins
  PROVE  x \in Stored.ins
<1>1. Len(rows) \in Nat \ {0}
  BY EmptySeq
<1>2. Len(rows) \in 1..Len(rows) /\ Len(rows) > Len(rows) - RETENTION
  BY <1>1, RetentionAssumption
<1>3. rows[Len(rows)] \in Doc
  BY <1>2, ElementOfSeq
<1>4. <<x, "ins">> \in Marks(rows[Len(rows)])
  BY <1>3, InsertionMarks
<1>5. Stored \in Doc /\ <<x, "ins">> \in Marks(Stored)
  BY <1>2, <1>4, WindowMarks DEF Stored
<1> QED
  BY <1>5, InsertionMarks

\* However saves overlap, the vector recorded last names nothing unsaved.
LEMMA GuardStep ==
  ASSUME RoomInv, [Next]_vars, NEW s, Server = {s}, Maintenance = {},
         script = NoScript, GuardIsTruthful
  PROVE  GuardIsTruthful'
<1>T. TypeOK /\ TypeOK' /\ s \in Server /\ Resting(s)
  BY StepTyped DEF RoomInv, TypeInv, RoomsOK
<1> SUFFICES ASSUME vector'[s] # NoVector PROVE vector'[s] \subseteq Stored'.ins
  BY DEF GuardIsTruthful
<1>1. ASSUME NEW i \in 1..MaxSaving, CommitSave(s, i)
      PROVE  vector'[s] \subseteq Stored'.ins
  <2>1. rows' \in Seq(Doc) /\ Len(rows') \in 1..RETENTION /\ rows'[Len(rows')] = saving[s][i]
    BY <1>1, <1>T, CommitIs
  <2>2. vector'[s] = saving[s][i].ins
    BY <1>1, <1>T DEF CommitSave, TypeOK
  <2>3. rows' # <<>>
    BY <2>1, EmptySeq, RetentionAssumption
  <2>4. ASSUME NEW x \in rows'[Len(rows')].ins PROVE x \in Stored'.ins
    <3>1. Len(rows') \in 1..Len(rows') /\ Len(rows') > Len(rows') - RETENTION
      BY <2>1, RetentionAssumption
    <3>2. rows'[Len(rows')] \in Doc
      BY <2>1, <3>1, ElementOfSeq
    <3>3. <<x, "ins">> \in Marks(rows'[Len(rows')])
      BY <2>4, <3>2, InsertionMarks
    <3>4. Window(rows') \in Doc /\ <<x, "ins">> \in Marks(Window(rows'))
      BY <2>1, <3>1, <3>3, WindowMarks
    <3> QED
      BY <3>4, InsertionMarks DEF Stored
  <2> QED
    BY <2>1, <2>2, <2>4
<1>2. CASE rows' = rows /\ ~\E i \in 1..MaxSaving : CommitSave(s, i)
  <2>1. Stored' = Stored
    BY <1>2 DEF Stored
  <2>2. vector'[s] = vector[s] \/ vector'[s] = Stored.ins \/ vector'[s] = NoVector
    BY <1>2, <1>T, Moves, GoneIs
    DEF RoomStep, Untouched, Grown, Fetched, Missed, BeginStore, FailSave
  <2> QED
    BY <1>T, <2>1, <2>2 DEF GuardIsTruthful
<1> QED
  BY <1>1, <1>2, RowsWritten, NoScriptStep

\* A skipped store skips nothing: one server's guard is truthful, however many
\* editors draw and however many of its saves overlap, fail or are lost.
THEOREM SkipGuard ==
  ASSUME NEW s, Server = {s}, Maintenance = {}
  PROVE  Spec => []GuardIsTruthful
<1> DEFINE Inv == RoomInv /\ script = NoScript /\ GuardIsTruthful
<1>1. Init => Inv
  BY RoomsInit, NoScriptInit DEF Init, GuardIsTruthful
<1>2. Inv /\ [Next]_vars => Inv'
  BY RoomsStep, NoScriptStep, GuardStep
<1>3. Inv => GuardIsTruthful
  OBVIOUS
<1> QED
  <2> HIDE DEF Inv
  <2> QED
    BY <1>1, <1>2, <1>3, PTL DEF Spec

-----------------------------------------------------------------------------
(***************************************************************************)
(* Unloading, where no script runs.  A mark is safe when it is kept within *)
(* the saves in flight, or when it was there as the room was loaded and so *)
(* is in every save since.                                                 *)
(***************************************************************************)
Carried(s, p) ==
  /\ p \in Marks(Stored) /\ p \in Marks(room[s])
  /\ \A i \in DOMAIN saving[s] : p \in Marks(saving[s][i])

Safe(s, p) == Carried(s, p) \/ KeptWithin(s, p, MaxSaving)

\* The vector recorded counts only what is safe.
VectorSafe(s) == vector[s] # NoVector => \A p \in Inserted(vector[s]) : Safe(s, p)

\* A room has a store due, or all its insertions in one in flight, or safe.
RoomSaved(s) ==
  failed.saves = 0 /\ Loaded(s) =>
    \/ due[s]
    \/ \E i \in DOMAIN saving[s] : saving[s][i].ins = room[s].ins
    \/ \A p \in Inserted(room[s].ins) : Safe(s, p)

\* What is safe can be read back.
LEMMA SafeIsStored ==
  ASSUME TypeOK, NEW s \in Server, MaxSaving <= RETENTION, NEW p, Safe(s, p)
  PROVE  p \in Marks(Stored)
  BY KeptIsStored, BoundsAssumption DEF Safe, Carried

\* What is safe in a room stays safe for as long as the room lasts.
LEMMA SafeStep ==
  ASSUME RoomInv, [Next]_vars, NEW s \in Server, MaxSaving <= RETENTION,
         Loaded(s), Loaded(s)',
         rows' = rows \/ \E i \in 1..MaxSaving : CommitSave(s, i),
         NEW p, Safe(s, p)
  PROVE  Safe(s, p)'
<1>T. TypeOK
  BY DEF RoomInv, TypeInv
<1>M. ~Missed(s) /\ ~Fetched(s)
  BY DEF Missed, Fetched, LoadedFrom
<1>1. CASE KeptWithin(s, p, MaxSaving)
  BY <1>1, <1>M, KeptStep, BoundsAssumption DEF Safe
<1>2. CASE Carried(s, p)
  <2>1. ASSUME NEW i \in 1..MaxSaving, CommitSave(s, i) PROVE Safe(s, p)'
    <3>1. p \in Marks(saving[s][i])
      BY <1>2, <2>1 DEF Carried, CommitSave
    <3> QED
      BY <2>1, <3>1, WrittenIsKept DEF Safe
  <2>2. ASSUME rows' = rows, p \in Marks(room'[s]),
               \A i \in DOMAIN saving'[s] : p \in Marks(saving'[s][i])
        PROVE  Safe(s, p)'
    BY <1>2, <2>2 DEF Safe, Carried, Stored
  <2>3. CASE rows' = rows /\ (Untouched(s) \/ Grown(s))
    BY <1>2, <2>2, <2>3 DEF Untouched, Grown, Carried
  <2>4. CASE rows' = rows /\ BeginStore(s)
    <3>1. /\ room'[s] = room[s] /\ Len(saving[s]) \in Nat
          /\ DOMAIN saving[s] = 1..Len(saving[s])
          /\ DOMAIN saving'[s] = 1..(Len(saving[s]) + 1)
          /\ \A j \in 1..Len(saving[s]) : saving'[s][j] = saving[s][j]
          /\ saving'[s][Len(saving[s]) + 1] = room[s]
      BY <2>4, <1>T, BegunIs
    <3>2. ASSUME NEW j \in DOMAIN saving'[s] PROVE p \in Marks(saving'[s][j])
      <4>1. j \in 1..Len(saving[s]) \/ j = Len(saving[s]) + 1
        BY <3>1
      <4> QED
        BY <1>2, <3>1, <4>1 DEF Carried
    <3> QED
      BY <1>2, <2>2, <2>4, <3>1, <3>2 DEF Carried
  <2>5. ASSUME NEW i \in 1..MaxSaving, FailSave(s, i), rows' = rows PROVE Safe(s, p)'
    <3>1. /\ Len(saving[s]) \in 1..MaxSaving /\ DOMAIN saving[s] = 1..Len(saving[s])
          /\ DOMAIN saving'[s] = 1..(Len(saving[s]) - 1)
          /\ \A j \in 1..(Len(saving[s]) - 1) :
               saving'[s][j] = IF j < i THEN saving[s][j] ELSE saving[s][j + 1]
          /\ room'[s] = room[s]
      BY <2>5, <1>T, AnsweredIs
    <3>2. ASSUME NEW j \in DOMAIN saving'[s] PROVE p \in Marks(saving'[s][j])
      <4>1. j \in DOMAIN saving[s] /\ j + 1 \in DOMAIN saving[s]
        BY <3>1, BoundsAssumption
      <4> QED
        BY <1>2, <3>1, <4>1 DEF Carried
    <3> QED
      BY <1>2, <2>2, <2>5, <3>1, <3>2 DEF Carried
  <2>6. ~Unload(s) /\ ~Crash(s)
    BY <1>T, GoneIs DEF Loaded
  <2> QED
    BY <1>M, <2>1, <2>3, <2>4, <2>5, <2>6, Moves DEF RoomStep
<1> QED
  BY <1>1, <1>2 DEF Safe

\* The insertions of a document, as a vector counts them, are among its marks.
LEMMA InsertedMarks ==
  ASSUME NEW d \in Doc, NEW p \in Inserted(d.ins)
  PROVE  p \in Marks(d)
  BY DEF Inserted, Marks

\* What a load read is carried by the room it opened.
LEMMA LoadIsCarried ==
  ASSUME RoomInv, NEW s \in Server, Fetched(s), NEW p \in Inserted(Stored.ins)
  PROVE  Safe(s, p)'
<1>1. TypeOK /\ saving[s] = <<>>
  BY DEF RoomInv, TypeInv, RoomsOK, Resting, Fetched, LoadedFrom
<1>2. p \in Marks(Stored)
  BY <1>1, StoredTyped, InsertedMarks
<1>3. p \in Marks(room'[s]) /\ saving'[s] = <<>> /\ rows' = rows
  BY <1>1, <1>2 DEF Fetched, LoadedFrom
<1> QED
  BY <1>2, <1>3 DEF Safe, Carried, Stored

\* The vector recorded goes on counting only what is safe.
LEMMA VectorStep ==
  ASSUME RoomInv, [Next]_vars, NEW s, Server = {s}, Maintenance = {},
         MaxSaving <= RETENTION, script = NoScript, VectorSafe(s)
  PROVE  VectorSafe(s)'
<1>T. TypeOK /\ s \in Server /\ Resting(s) /\ Resting(s)'
  BY RoomsStep DEF RoomInv, TypeInv, RoomsOK
<1>R. rows' = rows \/ \E i \in 1..MaxSaving : CommitSave(s, i)
  BY RowsWritten, NoScriptStep
<1> SUFFICES ASSUME vector'[s] # NoVector, NEW p \in Inserted(vector'[s])
             PROVE  Safe(s, p)'
  BY DEF VectorSafe
<1>1. ASSUME NEW i \in 1..MaxSaving, CommitSave(s, i) PROVE Safe(s, p)'
  <2>1. vector'[s] = saving[s][i].ins /\ saving[s][i] \in Doc
    BY <1>1, <1>T, CommitIs DEF CommitSave, TypeOK
  <2>2. p \in Marks(saving[s][i])
    BY <2>1, InsertedMarks
  <2> QED
    BY <1>1, <1>T, <2>2, WrittenIsKept DEF Safe
<1>2. CASE vector'[s] = vector[s]
  <2>1. Loaded(s) /\ Loaded(s)'
    BY <1>2, <1>T DEF Resting
  <2>2. Safe(s, p)
    BY <1>2 DEF VectorSafe
  <2> QED
    BY <1>R, <1>T, <2>1, <2>2, SafeStep
<1>3. CASE Fetched(s)
  <2>1. CASE vector'[s] = Stored.ins
    BY <1>3, <1>T, <2>1, LoadIsCarried
  <2> QED
    BY <1>2, <1>3, <2>1 DEF Fetched
<1>4. CASE vector'[s] = NoVector
  BY <1>4
<1> QED
  BY <1>1, <1>2, <1>3, <1>4, <1>T, Moves, GoneIs
  DEF RoomStep, Untouched, Grown, Missed, BeginStore, FailSave

\* No document's insertions look like the vector of a room not saved yet.
LEMMA NoVectorIsNone == \A d \in Doc : d.ins # NoVector
<1> SUFFICES ASSUME NEW d \in Doc, d.ins = NoVector PROVE FALSE
  OBVIOUS
<1>1. <<Unloaded, "drawn">> \in d.ins
  BY DEF NoVector
<1>2. d.ins \subseteq Item
  BY DEF Doc
<1>3. Unloaded \in Content
  BY <1>1, <1>2 DEF Item
<1> QED
  BY <1>3, ValueAssumption

\* The insertions of a room are never left without a save to come or behind.
LEMMA RoomSavedStep ==
  ASSUME RoomInv, [Next]_vars, NEW s, Server = {s}, Maintenance = {},
         MaxSaving <= RETENTION, script = NoScript, VectorSafe(s), RoomSaved(s)
  PROVE  RoomSaved(s)'
<1>T. TypeOK /\ TypeOK' /\ s \in Server /\ Resting(s) /\ Encoded(s)
  BY StepTyped DEF RoomInv, TypeInv, RoomsOK
<1>R. rows' = rows \/ \E i \in 1..MaxSaving : CommitSave(s, i)
  BY RowsWritten, NoScriptStep
<1> DEFINE Done ==
       \/ due'[s]
       \/ \E i \in DOMAIN saving'[s] : saving'[s][i].ins = room'[s].ins
       \/ \A p \in Inserted(room'[s].ins) : Safe(s, p)'
<1> SUFFICES ASSUME failed'.saves = 0, Loaded(s)' PROVE Done
  BY DEF RoomSaved
<1>S. ASSUME Loaded(s), room'[s] = room[s], \A p \in Inserted(room[s].ins) : Safe(s, p)
      PROVE  Done
  BY <1>R, <1>S, <1>T, SafeStep
<1>1. CASE SkipStore(s)
  <2>1. Loaded(s) /\ room'[s] = room[s] /\ vector[s] = room[s].ins /\ room[s] \in Doc
    BY <1>1, <1>T DEF SkipStore, IsUnchanged, Loaded, TypeOK, Room
  <2>2. vector[s] # NoVector
    BY <2>1, NoVectorIsNone
  <2> QED
    BY <1>S, <2>1, <2>2 DEF VectorSafe
<1>2. ASSUME Loaded(s), room'[s] = room[s], saving'[s] = saving[s], due'[s] = due[s],
             failed.saves = 0
      PROVE  Done
  BY <1>2, <1>S DEF RoomSaved
<1>3. CASE Untouched(s)
  <2>1. Loaded(s)
    BY <1>3 DEF Untouched, Loaded
  <2>2. CASE due'[s] = due[s]
    <3>1. failed'.saves = failed.saves
      <4>1. ASSUME NEW i \in 1..MaxSaving, FailSave(s, i) PROVE FALSE
        <5>1. /\ Len(saving[s]) \in 1..MaxSaving /\ DOMAIN saving[s] = 1..Len(saving[s])
              /\ DOMAIN saving'[s] = 1..(Len(saving[s]) - 1)
          BY <1>T, <4>1, AnsweredIs
        <5>2. DOMAIN saving'[s] = DOMAIN saving[s]
          BY <1>3 DEF Untouched
        <5>3. Len(saving[s]) \in 1..Len(saving[s]) /\ Len(saving[s]) \notin 1..(Len(saving[s]) - 1)
          BY <5>1, BoundsAssumption
        <5> QED
          BY <5>1, <5>2, <5>3
      <4>2. ASSUME NEW c \in Client, NEW z \in Server, LoadFails(c, z)
            PROVE  failed'.saves = failed.saves
        <5>1. failed' = [failed EXCEPT !.loads = failed.loads + 1]
          BY <4>2 DEF LoadFails
        <5> QED
          BY <1>T, <5>1 DEF TypeOK
      <4>3. ASSUME NEW z \in Server, ServerStep(z) PROVE failed' = failed
        <5>1. z = s
          OBVIOUS
        <5> QED
          BY <4>1, <4>3, <5>1
          DEF ServerStep, StoreStep, SkipStore, BeginStore, CommitSave, Unload, Crash
      <4>4. ASSUME NEW c \in Client, ClientStep(c) PROVE failed'.saves = failed.saves
        BY <4>2, <4>4
        DEF ClientStep, Insert, Delete, Edit, JoinRoom, LoadDocument, Disconnect, PurgeCache
      <4> QED
        BY <4>3, <4>4
        DEF Next, vars, ScriptStep, IdleWindowPasses, ChooseBoard, ReadRows, ReplaceRows,
            AppendMerged, LeaveBoard
    <3> QED
      BY <1>2, <1>3, <2>1, <2>2, <3>1 DEF Untouched
  <2> QED
    BY <1>1, <1>3, <2>2 DEF Untouched
<1>4. CASE Grown(s)
  BY <1>2, <1>4 DEF Grown
<1>5. CASE Fetched(s)
  <2>1. CASE room'[s] = Stored
    BY <1>5, <1>T, <2>1, LoadIsCarried
  <2> QED
    BY <1>5, <2>1 DEF Fetched, LoadedFrom
<1>6. CASE Missed(s)
  <2>1. CASE room'[s] = Empty
    BY <2>1 DEF Empty, Inserted
  <2> QED
    BY <1>6, <2>1 DEF Missed, LoadedFrom
<1>7. CASE BeginStore(s)
  <2>1. /\ room'[s] = room[s] /\ Len(saving[s]) \in Nat
        /\ DOMAIN saving'[s] = 1..(Len(saving[s]) + 1)
        /\ saving'[s][Len(saving[s]) + 1] = room[s]
    BY <1>7, <1>T, BegunIs
  <2>2. Len(saving[s]) + 1 \in DOMAIN saving'[s]
    BY <2>1
  <2> QED
    BY <2>1, <2>2
<1>8. ASSUME NEW i \in 1..MaxSaving, CommitSave(s, i) PROVE Done
  <2>1. /\ i \in 1..Len(saving[s]) /\ Len(saving[s]) \in 1..MaxSaving
        /\ DOMAIN saving[s] = 1..Len(saving[s])
        /\ DOMAIN saving'[s] = 1..(Len(saving[s]) - 1)
        /\ \A j \in 1..(Len(saving[s]) - 1) :
             saving'[s][j] = IF j < i THEN saving[s][j] ELSE saving[s][j + 1]
        /\ room'[s] = room[s] /\ due'[s] = due[s]
    BY <1>8, <1>T, AnsweredIs
  <2>2. Loaded(s) /\ failed.saves = 0
    BY <1>8, <2>1 DEF Loaded, CommitSave
  <2>3. ASSUME NEW j \in DOMAIN saving[s], saving[s][j].ins = room[s].ins PROVE Done
    <3>1. CASE j = i
      <4>1. ASSUME NEW p \in Inserted(room'[s].ins) PROVE Safe(s, p)'
        <5>1. saving[s][i] \in Doc /\ p \in Inserted(saving[s][i].ins)
          BY <1>8, <1>T, <2>1, <2>3, <3>1, CommitIs
        <5>2. p \in Marks(saving[s][i])
          BY <5>1, InsertedMarks
        <5> QED
          BY <1>8, <1>T, <5>2, WrittenIsKept DEF Safe
      <4> QED
        BY <4>1
    <3>2. CASE j < i
      <4>1. j \in 1..(Len(saving[s]) - 1)
        BY <2>1, <3>2, BoundsAssumption
      <4> QED
        BY <2>1, <2>3, <3>2, <4>1
    <3>3. CASE j > i
      <4>1. j - 1 \in 1..(Len(saving[s]) - 1) /\ ~(j - 1 < i) /\ (j - 1) + 1 = j
        BY <2>1, <3>3, BoundsAssumption
      <4>2. saving'[s][j - 1] = saving[s][(j - 1) + 1]
        BY <2>1, <4>1
      <4>3. saving'[s][j - 1].ins = room'[s].ins /\ j - 1 \in DOMAIN saving'[s]
        BY <2>1, <2>3, <4>1, <4>2
      <4> QED
        BY <4>3
    <3> QED
      BY <2>1, <3>1, <3>2, <3>3, BoundsAssumption
  <2> QED
    BY <1>S, <2>1, <2>2, <2>3 DEF RoomSaved
<1>9. ASSUME NEW i \in 1..MaxSaving, FailSave(s, i) PROVE FALSE
  <2>1. failed' = [failed EXCEPT !.saves = failed.saves + 1]
    BY <1>9 DEF FailSave
  <2>2. failed'.saves = failed.saves + 1 /\ failed.saves \in Nat
    BY <1>T, <2>1, BoundsAssumption DEF TypeOK
  <2> QED
    BY <2>2
<1>10. CASE Unload(s) \/ Crash(s)
  BY <1>10, <1>T, GoneIs DEF Loaded
<1> QED
  BY <1>3, <1>4, <1>5, <1>6, <1>7, <1>8, <1>9, <1>10, <1>T, Moves DEF RoomStep

\* A room everyone has left is unloaded only with its insertions in the rows,
\* whatever raced the last store, whatever failed to load or crashed before,
\* for as long as fewer saves of it can be in flight than rows are kept.
THEOREM UnloadIsSafe ==
  ASSUME NEW z, Server = {z}, Maintenance = {}, MaxSaving <= RETENTION
  PROVE  Spec => UnloadKeepsInserts
<1> DEFINE Inv == RoomInv /\ script = NoScript /\ VectorSafe(z) /\ RoomSaved(z)
           Kept == \A s \in Server : Unload(s) /\ failed.saves = 0 /\ ~ranOnce =>
                     room[s].ins \subseteq Stored.ins
<1>1. Init => Inv
  BY RoomsInit, NoScriptInit DEF Init, VectorSafe, RoomSaved, Loaded
<1>2. Inv /\ [Next]_vars => Inv'
  BY RoomsStep, NoScriptStep, VectorStep, RoomSavedStep
<1>3. Inv => Kept
  <2> SUFFICES ASSUME Inv, NEW s \in Server, s = z, Unload(s), failed.saves = 0, NEW x \in room[s].ins
               PROVE  x \in Stored.ins
    OBVIOUS
  <2>1. TypeOK /\ s \in Server /\ Loaded(s) /\ ~due[s] /\ DOMAIN saving[s] = {}
    BY DEF RoomInv, TypeInv, Unload, Quiet
  <2>2. <<x, "ins">> \in Inserted(room[s].ins)
    BY DEF Inserted
  <2>3. Safe(s, <<x, "ins">>)
    BY <2>1, <2>2 DEF RoomSaved
  <2>4. Stored \in Doc /\ <<x, "ins">> \in Marks(Stored)
    BY <2>1, <2>3, SafeIsStored, StoredTyped
  <2> QED
    BY <2>4, InsertionMarks
<1>4. Spec => [][Kept]_vars
  <2> HIDE DEF Inv, Kept
  <2> QED
    BY <1>1, <1>2, <1>3, PTL DEF Spec
<1> QED
  BY <1>4, PTL DEF UnloadKeepsInserts

-----------------------------------------------------------------------------
(***************************************************************************)
(* The window, scripts included.                                           *)
(***************************************************************************)

\* Until the board is compacted, whatever a row records is kept, and whatever
\* a script has read; one row more than the saves in flight may follow, the
\* one the backfill appends without pruning.
RowsKept(s) ==
  failed.loads = 0 /\ ~ranOnce =>
    \A k \in 1..Len(rows) : \A p \in Marks(rows[k]) : KeptWithin(s, p, MaxSaving + 1)

ReadKept(s) ==
  failed.loads = 0 /\ ~ranOnce /\ script.step = "read" =>
    \A p \in Marks(script.read) : KeptWithin(s, p, MaxSaving + 1)

\* What the rows record and the script has not read was written since.
RestKept(s) ==
  failed.loads = 0 /\ script.step = "read" =>
    \A k \in 1..Len(rows) : \A p \in Marks(rows[k]) :
      p \in Marks(script.read) \/ KeptWithin(s, p, MaxSaving)

\* The script counts the rows written since it read: the others it has read.
CountsUnread ==
  script.step = "read" =>
    \A k \in 1..Len(rows) :
      k <= Len(rows) - script.since => Marks(rows[k]) \subseteq Marks(script.read)

\* Only the scripts allowed run, and only compaction marks the board.
AllowedOnly ==
  /\ script.kind \in Maintenance \cup {"none"}
  /\ ranOnce => "compact" \in Maintenance

\* A script that has read either has just done so or goes on.
LEMMA ScriptMoves ==
  ASSUME TypeInv, [Next]_vars
  PROVE  /\ \/ ReadRows \/ script'.step # "read"
            \/ script.step = "read" /\ script'.read = script.read
         /\ ranOnce' = ranOnce \/ ReplaceRows
         /\ \/ failed' = failed
            \/ \E c \in Client, s \in Server : LoadFails(c, s)
            \/ \E s \in Server, i \in 1..MaxSaving : FailSave(s, i)
<1>T. script \in Script
  BY DEF TypeInv, TypeOK
<1> DEFINE Read == \/ ReadRows \/ script'.step # "read"
                   \/ script.step = "read" /\ script'.read = script.read
           Failed == \/ failed' = failed
                     \/ \E c \in Client, s \in Server : LoadFails(c, s)
                     \/ \E s \in Server, i \in 1..MaxSaving : FailSave(s, i)
<1>1. ASSUME NEW c \in Client, ClientStep(c)
      PROVE  /\ script' = script /\ ranOnce' = ranOnce
             /\ failed' = failed \/ \E s \in Server : LoadFails(c, s)
  BY <1>1
  DEF ClientStep, Insert, Delete, Edit, JoinRoom, LoadDocument, LoadFails,
      Disconnect, PurgeCache, maintenance
<1>2. ASSUME NEW s \in Server, ServerStep(s)
      PROVE  /\ script'.step = script.step /\ script'.read = script.read
             /\ ranOnce' = ranOnce
             /\ failed' = failed \/ \E i \in 1..MaxSaving : FailSave(s, i)
  <2>1. ASSUME NEW i \in 1..MaxSaving, CommitSave(s, i)
        PROVE  /\ script'.step = script.step /\ script'.read = script.read
               /\ ranOnce' = ranOnce /\ failed' = failed
    BY <1>T, <2>1 DEF CommitSave, Script
  <2> QED
    BY <1>2, <2>1
    DEF ServerStep, StoreStep, SkipStore, BeginStore, FailSave, Unload, Crash, maintenance
<1>3. ASSUME ScriptStep
      PROVE  Read /\ (ranOnce' = ranOnce \/ ReplaceRows) /\ failed' = failed
  <2>0. NoScript.step = "off"
    BY DEF NoScript
  <2>1. ASSUME NEW kind \in Maintenance, ChooseBoard(kind)
        PROVE  script'.step # "read" /\ ranOnce' = ranOnce /\ failed' = failed
    <3>1. script' = [NoScript EXCEPT !.step = "chosen", !.kind = kind]
      BY <2>1 DEF ChooseBoard
    <3>2. script'.step = "chosen"
      BY <3>1 DEF NoScript
    <3> QED
      BY <2>1, <3>2 DEF ChooseBoard
  <2> QED
    BY <1>3, <2>0, <2>1
    DEF ScriptStep, IdleWindowPasses, ReadRows, ReplaceRows, AppendMerged, LeaveBoard,
        maintenance
<1>4. CASE UNCHANGED vars
  BY <1>4 DEF vars, maintenance
<1>5. Read
  BY <1>1, <1>2, <1>3, <1>4 DEF Next
<1>6. ranOnce' = ranOnce \/ ReplaceRows
  BY Zenon, <1>1, <1>2, <1>3, <1>4 DEF Next
<1>7. Failed
  BY <1>1, <1>2, <1>3, <1>4 DEF Next
<1> QED
  BY <1>5, <1>6, <1>7

\* A load that fails is counted, for good.
LEMMA MissedIsCounted ==
  ASSUME TypeInv, [Next]_vars, failed'.loads = 0
  PROVE  failed.loads = 0 /\ \A s : ~Missed(s)
<1>T. failed.loads \in Nat /\ TypeOK
  BY BoundsAssumption DEF TypeInv, TypeOK
<1>1. ASSUME NEW c \in Client, NEW z \in Server, LoadFails(c, z) PROVE FALSE
  <2>1. failed' = [failed EXCEPT !.loads = failed.loads + 1]
    BY <1>1 DEF LoadFails
  <2>2. failed'.loads = failed.loads + 1
    BY <1>T, <2>1 DEF TypeOK
  <2> QED
    BY <1>T, <2>2
<1>2. ASSUME NEW z \in Server, NEW i \in 1..MaxSaving, FailSave(z, i)
      PROVE  failed'.loads = failed.loads
  <2>1. failed' = [failed EXCEPT !.saves = failed.saves + 1]
    BY <1>2 DEF FailSave
  <2> QED
    BY <1>T, <2>1 DEF TypeOK
<1>3. failed.loads = 0
  BY <1>1, <1>2, ScriptMoves
<1>4. ASSUME NEW s, Missed(s) PROVE FALSE
  BY <1>T, <1>4 DEF Missed
<1> QED
  BY <1>3, <1>4

\* The merge a script reads is of everything the rows record.
LEMMA ReadIs ==
  ASSUME TypeOK, ReadRows
  PROVE  /\ script'.step = "read" /\ rows' = rows
         /\ \A p : p \in Marks(script'.read) <=> \E k \in 1..Len(rows) : p \in Marks(rows[k])
<1>1. rows \in Seq(Doc) /\ script \in Script /\ DOMAIN rows = 1..Len(rows)
  BY LenProperties DEF TypeOK
<1>2. script'.step = "read" /\ script'.read = MergeAll(Elements(rows)) /\ rows' = rows
  BY <1>1 DEF ReadRows, Script, persisted
<1>3. \A p : p \in Marks(MergeAll(Elements(rows))) <=> \E d \in Elements(rows) : p \in Marks(d)
  BY <1>1, ElementsAre, MergeAllMarks
<1>4. \A p : (\E d \in Elements(rows) : p \in Marks(d)) <=>
             \E k \in 1..Len(rows) : p \in Marks(rows[k])
  BY <1>1 DEF Elements
<1> QED
  BY <1>2, <1>3, <1>4

\* The row the backfill appends is the last one.
LEMMA AppendedIs ==
  ASSUME TypeOK, AppendMerged
  PROVE  /\ Len(rows) \in Nat /\ Len(rows') = Len(rows) + 1
         /\ \A k \in 1..Len(rows) : rows'[k] = rows[k]
         /\ rows'[Len(rows) + 1] = script.read
         /\ script.step = "read" /\ rows' \in Seq(Doc)
         /\ room' = room /\ saving' = saving
<1>1. rows \in Seq(Doc) /\ script.read \in Doc /\ Len(rows) \in Nat
  BY LenProperties DEF TypeOK, Script
<1>2. /\ Append(rows, script.read) \in Seq(Doc)
      /\ Len(Append(rows, script.read)) = Len(rows) + 1
      /\ \A k \in 1..Len(rows) : Append(rows, script.read)[k] = rows[k]
      /\ Append(rows, script.read)[Len(rows) + 1] = script.read
  BY <1>1, AppendProperties
<1> QED
  BY <1>1, <1>2 DEF AppendMerged, memory

\* Until the board is compacted, every row stays kept.
LEMMA RowsKeptStep ==
  ASSUME RoomInv, [Next]_vars, NEW s, Server = {s}, MaxSaving < RETENTION,
         RowsKept(s), ReadKept(s), RestKept(s)
  PROVE  RowsKept(s)'
<1>T. TypeOK /\ TypeOK' /\ s \in Server /\ failed.loads \in Nat
  BY StepTyped, BoundsAssumption DEF RoomInv, TypeInv, TypeOK
<1>N. MaxSaving + 1 \in Nat /\ MaxSaving + 1 <= RETENTION /\ MaxSaving \in Nat
  BY BoundsAssumption, RetentionAssumption
<1> SUFFICES ASSUME failed'.loads = 0, ~ranOnce',
                    NEW k \in 1..Len(rows'), NEW p \in Marks(rows'[k])
             PROVE  KeptWithin(s, p, MaxSaving + 1)'
  BY DEF RowsKept
<1>0. ~ranOnce /\ ~ReplaceRows
  <2>1. ~ReplaceRows
    BY DEF ReplaceRows
  <2>2. TypeInv
    BY DEF RoomInv
  <2>3. ranOnce' = ranOnce
    BY <2>1, <2>2, ScriptMoves
  <2> QED
    BY Zenon, <2>1, <2>3
<1>1. failed.loads = 0 /\ ~Missed(s)
  BY MissedIsCounted DEF RoomInv
<1>2. ASSUME rows' = rows PROVE KeptWithin(s, p, MaxSaving + 1)'
  <2>1. KeptWithin(s, p, MaxSaving + 1)
    BY <1>0, <1>1, <1>2 DEF RowsKept
  <2> QED
    BY <1>1, <1>2, <1>N, <1>T, <2>1, KeptStep
<1>3. ASSUME NEW i \in 1..MaxSaving, CommitSave(s, i)
      PROVE  KeptWithin(s, p, MaxSaving + 1)'
  <2>1. CASE rows'[k] = saving[s][i]
    BY <1>3, <1>T, <2>1, WrittenIsKept
  <2>2. ASSUME NEW l \in 1..Len(rows), rows'[k] = rows[l]
        PROVE  KeptWithin(s, p, MaxSaving + 1)'
    <3>1. KeptWithin(s, p, MaxSaving + 1)
      BY <1>0, <1>1, <2>2 DEF RowsKept
    <3> QED
      BY <1>3, <1>N, <1>T, <3>1, KeptByCommit
  <2> QED
    BY <1>3, <1>T, <2>1, <2>2, RowsAfterCommit
<1>4. CASE AppendMerged
  <2>A. /\ Len(rows) \in Nat /\ Len(rows') = Len(rows) + 1
        /\ \A j \in 1..Len(rows) : rows'[j] = rows[j]
        /\ rows'[Len(rows) + 1] = script.read
        /\ script.step = "read" /\ room' = room /\ saving' = saving
    BY <1>4, <1>T, AppendedIs
  <2>1. ASSUME p \in Marks(script.read) PROVE KeptWithin(s, p, MaxSaving + 1)'
    <3>1. KeptWithin(s, p, MaxSaving + 1)
      BY <1>0, <1>1, <2>1, <2>A DEF ReadKept
    <3>2. PICK j \in 1..Len(rows), m \in 0..MaxSaving :
            /\ \A i \in DOMAIN saving[s] : i > m => p \in Marks(saving[s][i])
            /\ m + Len(rows) - j < MaxSaving + 1
      BY <3>1 DEF KeptWithin
    <3>3. Len(rows) + 1 \in 1..Len(rows') /\ m + Len(rows') - (Len(rows) + 1) < MaxSaving + 1
      BY <1>N, <2>A, <3>2
    <3> QED
      BY <2>1, <2>A, <3>1, <3>2, <3>3 DEF KeptWithin, Loaded
  <2>2. ASSUME k \in 1..Len(rows), p \notin Marks(script.read)
        PROVE  KeptWithin(s, p, MaxSaving + 1)'
    <3>1. KeptWithin(s, p, MaxSaving)
      BY <1>1, <2>2, <2>A DEF RestKept
    <3>2. PICK j \in 1..Len(rows), m \in 0..MaxSaving :
            /\ p \in Marks(rows[j])
            /\ \A i \in DOMAIN saving[s] : i > m => p \in Marks(saving[s][i])
            /\ m + Len(rows) - j < MaxSaving
      BY <3>1 DEF KeptWithin
    <3>3. j \in 1..Len(rows') /\ m + Len(rows') - j < MaxSaving + 1
      BY <1>N, <2>A, <3>2
    <3> QED
      BY <2>A, <3>1, <3>2, <3>3 DEF KeptWithin, Loaded
  <2> QED
    BY <2>1, <2>2, <2>A
<1> QED
  BY <1>0, <1>2, <1>3, <1>4, <1>T, RowsWritten

\* What a script has read stays kept until it is done.
LEMMA ReadKeptStep ==
  ASSUME RoomInv, [Next]_vars, NEW s, Server = {s}, MaxSaving < RETENTION,
         RowsKept(s), ReadKept(s)
  PROVE  ReadKept(s)'
<1>T. TypeOK /\ TypeInv /\ s \in Server
  BY DEF RoomInv, TypeInv
<1>N. MaxSaving + 1 \in Nat /\ MaxSaving + 1 <= RETENTION
  BY BoundsAssumption, RetentionAssumption
<1> SUFFICES ASSUME failed'.loads = 0, ~ranOnce', script'.step = "read",
                    NEW p \in Marks(script'.read)
             PROVE  KeptWithin(s, p, MaxSaving + 1)'
  BY DEF ReadKept
<1>0. ~ReplaceRows /\ ~AppendMerged
  <2>1. NoScript.step # "read"
    BY DEF NoScript
  <2> QED
    BY <2>1 DEF ReplaceRows, AppendMerged
<1>1. failed.loads = 0 /\ ~Missed(s) /\ ranOnce' = ranOnce
  BY <1>0, <1>T, MissedIsCounted, ScriptMoves
<1>2. ~ranOnce
  BY Zenon, <1>1
<1>3. KeptWithin(s, p, MaxSaving + 1)
  <2>1. CASE ReadRows
    <3>1. \E k \in 1..Len(rows) : p \in Marks(rows[k])
      BY <1>T, <2>1, ReadIs
    <3> QED
      BY <1>1, <1>2, <3>1 DEF RowsKept
  <2>2. CASE script.step = "read" /\ script'.read = script.read
    BY <1>1, <1>2, <2>2 DEF ReadKept
  <2> QED
    BY <1>T, <2>1, <2>2, ScriptMoves
<1> QED
  BY <1>0, <1>1, <1>3, <1>N, <1>T, RowsWritten, KeptStep

\* A row the script has not read is kept by the saves in flight alone.
LEMMA RestKeptStep ==
  ASSUME RoomInv, [Next]_vars, NEW s, Server = {s}, MaxSaving < RETENTION,
         RestKept(s)
  PROVE  RestKept(s)'
<1>T. TypeOK /\ TypeInv /\ s \in Server
  BY DEF RoomInv, TypeInv
<1>N. MaxSaving \in Nat /\ MaxSaving <= RETENTION
  BY BoundsAssumption, RetentionAssumption
<1> SUFFICES ASSUME failed'.loads = 0, script'.step = "read",
                    NEW k \in 1..Len(rows'), NEW p \in Marks(rows'[k]),
                    p \notin Marks(script'.read)
             PROVE  KeptWithin(s, p, MaxSaving)'
  BY DEF RestKept
<1>0. ~ReplaceRows /\ ~AppendMerged
  <2>1. NoScript.step # "read"
    BY DEF NoScript
  <2> QED
    BY <2>1 DEF ReplaceRows, AppendMerged
<1>1. failed.loads = 0 /\ ~Missed(s)
  BY <1>T, MissedIsCounted
<1>2. script.step = "read" /\ script'.read = script.read
  <2>1. CASE ReadRows
    BY <1>T, <2>1, ReadIs
  <2> QED
    BY <1>T, <2>1, ScriptMoves
<1>3. CASE rows' = rows
  <2>1. KeptWithin(s, p, MaxSaving)
    BY <1>1, <1>2, <1>3 DEF RestKept
  <2> QED
    BY <1>1, <1>3, <1>N, <1>T, <2>1, KeptStep
<1>4. ASSUME NEW i \in 1..MaxSaving, CommitSave(s, i) PROVE KeptWithin(s, p, MaxSaving)'
  <2>1. CASE rows'[k] = saving[s][i]
    BY <1>4, <1>T, <2>1, WrittenIsKept
  <2>2. ASSUME NEW l \in 1..Len(rows), rows'[k] = rows[l]
        PROVE  KeptWithin(s, p, MaxSaving)'
    <3>1. KeptWithin(s, p, MaxSaving)
      BY <1>1, <1>2, <2>2 DEF RestKept
    <3> QED
      BY <1>4, <1>N, <1>T, <3>1, KeptByCommit
  <2> QED
    BY <1>4, <1>T, <2>1, <2>2, RowsAfterCommit
<1> QED
  BY <1>0, <1>3, <1>4, <1>T, RowsWritten

\* Only the scripts allowed run, after any step.
LEMMA AllowedStep ==
  ASSUME RoomInv, [Next]_vars, AllowedOnly
  PROVE  AllowedOnly'
<1>T. TypeOK /\ script \in Script
  BY DEF RoomInv, TypeInv, TypeOK
<1>0. NoScript.kind = "none"
  BY DEF NoScript
<1>1. ASSUME script'.kind = script.kind, ranOnce' = ranOnce PROVE AllowedOnly'
  BY <1>1 DEF AllowedOnly
<1>2. ASSUME NEW c \in Client, ClientStep(c) PROVE script' = script /\ ranOnce' = ranOnce
  BY <1>2
  DEF ClientStep, Insert, Delete, Edit, JoinRoom, LoadDocument, LoadFails,
      Disconnect, PurgeCache, maintenance
<1>3. ASSUME NEW s \in Server, ServerStep(s)
      PROVE  script'.kind = script.kind /\ ranOnce' = ranOnce
  <2>1. ASSUME NEW i \in 1..MaxSaving, CommitSave(s, i)
        PROVE  script'.kind = script.kind /\ ranOnce' = ranOnce
    BY <1>T, <2>1 DEF CommitSave, Script
  <2> QED
    BY <1>3, <2>1
    DEF ServerStep, StoreStep, SkipStore, BeginStore, FailSave, Unload, Crash, maintenance
<1>4. ASSUME NEW kind \in Maintenance, ChooseBoard(kind) PROVE AllowedOnly'
  <2>1. script' = [NoScript EXCEPT !.step = "chosen", !.kind = kind]
    BY <1>4 DEF ChooseBoard
  <2>2. script'.kind = kind
    BY <2>1 DEF NoScript
  <2> QED
    BY <1>4, <2>2 DEF ChooseBoard, AllowedOnly
<1>5. CASE ReadRows
  <2>1. script'.kind = script.kind
    BY <1>5, <1>T DEF ReadRows, Script
  <2> QED
    BY <1>5, <2>1 DEF ReadRows, AllowedOnly
<1>6. CASE ReplaceRows
  BY <1>0, <1>6 DEF ReplaceRows, AllowedOnly
<1>7. CASE IdleWindowPasses \/ AppendMerged \/ LeaveBoard \/ UNCHANGED vars
  BY <1>0, <1>7
  DEF IdleWindowPasses, AppendMerged, LeaveBoard, AllowedOnly, vars, maintenance
<1> QED
  BY <1>1, <1>2, <1>3, <1>4, <1>5, <1>6, <1>7 DEF Next, ScriptStep

\* What holds of a board whose rows may be deltas as well: the rows written
\* since a script read it are kept.
RestInv(s) == RoomInv /\ RestKept(s)

\* Nothing has been read at first.
LEMMA RestInit ==
  ASSUME Init, NEW s
  PROVE  RestInv(s)
<1>1. script = NoScript
  BY DEF Init
<1>2. script.step = "off"
  BY <1>1 DEF NoScript
<1> QED
  BY <1>2, RoomsInit DEF RestInv, RestKept

\* Every step of one server, its editors and the scripts keeps that.
LEMMA RestStep ==
  ASSUME NEW s, Server = {s}, MaxSaving < RETENTION, RestInv(s), [Next]_vars
  PROVE  RestInv(s)'
  BY RoomsStep, RestKeptStep DEF RestInv

\* The invariant the window's guarantees rest on, for the one server s.
WindowInv(s) == RoomInv /\ AllowedOnly /\ RowsKept(s) /\ ReadKept(s) /\ RestKept(s)

\* Nothing has been written at first, where no legacy row was left.
LEMMA WindowInit ==
  ASSUME Init, NEW s, Legacy = {<<>>}
  PROVE  WindowInv(s)
<1>1. rows = <<>> /\ script = NoScript /\ ~ranOnce
  BY DEF Init
<1>2. Len(rows) = 0 /\ script.step = "off" /\ script.kind = "none"
  BY <1>1 DEF NoScript
<1> QED
  BY <1>1, <1>2, RoomsInit DEF WindowInv, AllowedOnly, RowsKept, ReadKept, RestKept

\* Every step of one server, its editors and the scripts keeps the window.
LEMMA WindowStep ==
  ASSUME NEW s, Server = {s}, MaxSaving < RETENTION, WindowInv(s), [Next]_vars
  PROVE  WindowInv(s)'
<1>1. RoomInv' /\ AllowedOnly'
  BY RoomsStep, AllowedStep DEF WindowInv
<1>2. RowsKept(s)' /\ ReadKept(s)' /\ RestKept(s)'
  BY RowsKeptStep, ReadKeptStep, RestKeptStep DEF WindowInv
<1> QED
  BY <1>1, <1>2 DEF WindowInv

\* What is read back from one set of rows is what is read back from the other.
LEMMA KeptStored ==
  ASSUME rows \in Seq(Doc), rows' \in Seq(Doc),
         \A p \in Marks(Stored) : p \in Marks(Stored')
  PROVE  StoredIsKept
<1>1. Stored \in Doc /\ Stored' \in Doc
  BY WindowMarks DEF Stored
<1> QED
  BY <1>1, MarksWithin DEF StoredIsKept

\* The backfill's row pushes out nothing it has not read or that is not kept:
\* what any row records can be read back.
LEMMA BackfillKeeps ==
  ASSUME NEW s, Server = {s}, MaxSaving < RETENTION, RoomInv, RestKept(s),
         failed.loads = 0, AppendMerged
  PROVE  /\ Recorded.ins \subseteq Stored'.ins /\ Recorded.del \subseteq Stored'.del
         /\ StoredIsKept
<1>T. TypeOK /\ rows \in Seq(Doc) /\ MaxSaving \in Nat /\ RETENTION \in Nat \ {0}
  BY BoundsAssumption, RetentionAssumption DEF RoomInv, TypeInv, TypeOK
<1>A. /\ Len(rows) \in Nat /\ Len(rows') = Len(rows) + 1
      /\ \A j \in 1..Len(rows) : rows'[j] = rows[j]
      /\ rows'[Len(rows) + 1] = script.read
      /\ script.step = "read" /\ rows' \in Seq(Doc)
  BY <1>T, AppendedIs
<1>B. \A p : p \in Marks(Stored') <=>
        \E k \in 1..Len(rows') : k > Len(rows') - RETENTION /\ p \in Marks(rows'[k])
  BY <1>A, WindowMarks DEF Stored
<1>C. /\ Recorded \in Doc
      /\ \A p : p \in Marks(Recorded) <=> \E k \in 1..Len(rows) : p \in Marks(rows[k])
  <2>1. DOMAIN rows = 1..Len(rows)
    BY <1>T, LenProperties
  <2> QED
    BY <1>T, <2>1, ElementsAre, MergeAllMarks DEF Recorded, Elements
<1>1. ASSUME NEW p \in Marks(Recorded) PROVE p \in Marks(Stored')
  <2>1. PICK k \in 1..Len(rows) : p \in Marks(rows[k])
    BY <1>C
  <2>2. CASE p \in Marks(script.read)
    <3>1. Len(rows) + 1 \in 1..Len(rows') /\ Len(rows) + 1 > Len(rows') - RETENTION
      BY <1>A, <1>T
    <3> QED
      BY <1>A, <1>B, <2>2, <3>1
  <2>3. CASE KeptWithin(s, p, MaxSaving)
    <3>1. PICK j \in 1..Len(rows), m \in 0..MaxSaving :
            p \in Marks(rows[j]) /\ m + Len(rows) - j < MaxSaving
      BY <2>3 DEF KeptWithin
    <3>2. j \in 1..Len(rows') /\ j > Len(rows') - RETENTION
      BY <1>A, <1>T, <3>1
    <3> QED
      BY <1>A, <1>B, <3>1, <3>2
  <2> QED
    BY <1>A, <2>1, <2>2, <2>3 DEF RestKept
<1>2. ASSUME NEW p \in Marks(Stored) PROVE p \in Marks(Stored')
  BY <1>1, <1>C, <1>T, WindowMarks DEF Stored
<1>3. StoredIsKept
  BY <1>2, <1>A, <1>T, KeptStored
<1>4. Stored' \in Doc
  BY <1>A, WindowMarks DEF Stored
<1>5. Recorded.ins \subseteq Stored'.ins /\ Recorded.del \subseteq Stored'.del
  BY <1>1, <1>4, <1>C, MarksWithin
<1> QED
  BY <1>3, <1>5

\* A save's prune pushes out nothing that is not kept.
LEMMA PruneKeeps ==
  ASSUME NEW s, Server = {s}, MaxSaving < RETENTION, RoomInv, RowsKept(s), ~ranOnce,
         failed.loads = 0, NEW i, CommitSave(s, i)
  PROVE  StoredIsKept
<1>T. TypeOK /\ rows \in Seq(Doc) /\ s \in Server
  BY DEF RoomInv, TypeInv, TypeOK
<1>N. MaxSaving + 1 \in Nat /\ MaxSaving + 1 <= RETENTION /\ MaxSaving \in Nat
      /\ RETENTION \in Nat
  BY BoundsAssumption, RetentionAssumption
<1>A. rows' \in Seq(Doc) /\ Len(rows') \in 1..RETENTION
  BY <1>T, CommitIs
<1>1. ASSUME NEW p \in Marks(Stored) PROVE p \in Marks(Stored')
  <2>1. PICK k \in 1..Len(rows) : p \in Marks(rows[k])
    BY <1>T, WindowMarks DEF Stored
  <2>2. KeptWithin(s, p, MaxSaving + 1)
    BY <2>1 DEF RowsKept
  <2>3. KeptWithin(s, p, MaxSaving + 1)'
    BY <1>N, <1>T, <2>2, KeptByCommit
  <2>4. PICK j \in 1..Len(rows') : p \in Marks(rows'[j])
    BY <2>3 DEF KeptWithin
  <2>5. j > Len(rows') - RETENTION
    BY <1>A, <1>N
  <2> QED
    BY <1>A, <2>4, <2>5, WindowMarks DEF Stored
<1> QED
  BY <1>1, <1>A, <1>T, KeptStored

\* Pruning drops only what newer rows carry: on a board saves alone have
\* written, where boards are not compacted and fewer saves of a room can be in
\* flight than rows are kept, nothing that can be read back is ever taken away
\* by a later save.
THEOREM PruningIsRedundant ==
  ASSUME NEW s, Server = {s}, MaxSaving < RETENTION, "compact" \notin Maintenance,
         Legacy = {<<>>}
  PROVE  Spec => PruneIsRedundant
<1> DEFINE Kept == failed.loads = 0 => Replaced \/ StoredIsKept
<1>1. Init => WindowInv(s)
  BY WindowInit
<1>2. WindowInv(s) /\ [Next]_vars => WindowInv(s)'
  BY WindowStep
<1>3. WindowInv(s) /\ [Next]_vars => [Kept]_vars
  <2> SUFFICES ASSUME WindowInv(s), [Next]_vars, failed.loads = 0 PROVE StoredIsKept
    OBVIOUS
  <2>1. RoomInv /\ RowsKept(s) /\ RestKept(s)
    BY DEF WindowInv
  <2>2. ~ranOnce /\ ~ReplaceRows
    BY DEF WindowInv, AllowedOnly, ReplaceRows
  <2>3. CASE rows' = rows
    BY <2>3 DEF StoredIsKept, Stored
  <2> QED
    BY <2>1, <2>2, <2>3, RowsWritten, PruneKeeps, BackfillKeeps
<1> QED
  <2>1. Spec => [][Kept]_vars
    <3> HIDE DEF Kept
    <3> QED
      BY <1>1, <1>2, <1>3, PTL DEF Spec
  <2> QED
    BY <2>1, PTL DEF PruneIsRedundant

\* compact-board-updates makes readable whatever any row of the board records,
\* deltas outside the window included, whatever was saved, failed or crashed
\* between its two statements and however often it is run, as long as no room
\* was opened empty.
THEOREM BackfillIsSafe ==
  ASSUME NEW s, Server = {s}, MaxSaving < RETENTION, MaxFailedLoads = 0
  PROVE  Spec => BackfillKeepsRows
<1> DEFINE Kept == AppendMerged => /\ Recorded.ins \subseteq Stored'.ins
                                   /\ Recorded.del \subseteq Stored'.del
<1>1. Init => RestInv(s)
  BY RestInit
<1>2. RestInv(s) /\ [Next]_vars => RestInv(s)'
  BY RestStep
<1>3. RestInv(s) => Kept
  <2> SUFFICES ASSUME RestInv(s), AppendMerged
               PROVE  /\ Recorded.ins \subseteq Stored'.ins
                      /\ Recorded.del \subseteq Stored'.del
    OBVIOUS
  <2>1. RoomInv /\ RestKept(s)
    BY DEF RestInv
  <2>2. failed.loads = 0
    BY <2>1 DEF RoomInv, TypeInv, TypeOK
  <2> QED
    BY <2>1, <2>2, BackfillKeeps
<1> QED
  <2>1. Spec => [][Kept]_vars
    <3> HIDE DEF Kept
    <3> QED
      BY <1>1, <1>2, <1>3, PTL DEF Spec
  <2> QED
    BY <2>1, PTL DEF BackfillKeepsRows

-----------------------------------------------------------------------------
(***************************************************************************)
(* Compaction.                                                             *)
(***************************************************************************)

\* Until the board is rebuilt, every item anywhere is one that was drawn.
ByHand(d) == d.ins \cup d.del \subseteq Content \X {"drawn"}
CopiesByHand ==
  /\ \A s \in Server : Loaded(s) => ByHand(room[s])
  /\ \A c \in Client : ByHand(cache[c])
SavesByHand == \A s \in Server : \A i \in DOMAIN saving[s] : ByHand(saving[s][i])
RowsByHand == \A k \in 1..Len(rows) : ByHand(rows[k])
AllByHand ==
  ~ranOnce => CopiesByHand /\ SavesByHand /\ RowsByHand /\ ByHand(script.read)

\* A merge of documents drawn by hand is one.
LEMMA MergeAllByHand ==
  ASSUME NEW q \in Seq(Doc), \A k \in 1..Len(q) : ByHand(q[k])
  PROVE  ByHand(MergeAll(Elements(q)))
<1>1. DOMAIN q = 1..Len(q)
  BY LenProperties
<1>2. \A d \in Elements(q) : ByHand(d)
  BY <1>1 DEF Elements
<1> QED
  BY <1>2 DEF MergeAll, ByHand

\* What is read back of rows drawn by hand was drawn by hand.
LEMMA WindowByHand ==
  ASSUME NEW q \in Seq(Doc), \A k \in 1..Len(q) : ByHand(q[k])
  PROVE  ByHand(Window(q))
<1>1. /\ Newest(RETENTION, q) \in Seq(Doc)
      /\ Len(Newest(RETENTION, q)) = IF Len(q) <= RETENTION THEN Len(q) ELSE RETENTION
      /\ \A i \in 1..Len(Newest(RETENTION, q)) :
           Newest(RETENTION, q)[i] = q[Len(q) - Len(Newest(RETENTION, q)) + i]
  BY NewestIs, RetentionAssumption
<1>2. PICK w : w = Newest(RETENTION, q)
  OBVIOUS
<1>3. ASSUME NEW k \in 1..Len(w) PROVE ByHand(w[k])
  <2>1. Len(q) \in Nat /\ Len(w) \in Nat /\ Len(w) <= Len(q)
    BY <1>1, <1>2, LenProperties, RetentionAssumption
  <2>2. Len(q) - Len(w) + k \in 1..Len(q)
    BY <2>1
  <2> QED
    BY <1>1, <1>2, <2>2
<1> QED
  BY <1>1, <1>2, <1>3, MergeAllByHand DEF Window

\* A change made by hand leaves every copy one drawn by hand.
LEMMA EditByHand ==
  ASSUME TypeOK, CopiesByHand, NEW c \in Client, NEW d \in Doc, ByHand(d), Edit(c, d)
  PROVE  CopiesByHand'
<1>1. CASE at[c] = Offline
  BY <1>1 DEF Edit, CopiesByHand, Loaded, TypeOK
<1>2. CASE at[c] # Offline
  <2>1. /\ room' = [room EXCEPT ![at[c]] = d]
        /\ cache' = [x \in Client |-> IF x \in Connected(at[c]) THEN d ELSE cache[x]]
    BY <1>2 DEF Edit, Publish
  <2> QED
    BY <2>1 DEF CopiesByHand, Loaded, TypeOK
<1> QED
  BY <1>1, <1>2

\* And so does a connection, from a room or rows drawn by hand.
LEMMA SyncByHand ==
  ASSUME TypeOK, CopiesByHand, NEW c \in Client, NEW s \in Server, NEW base \in Doc,
         ByHand(base), Sync(c, s, base)
  PROVE  CopiesByHand'
<1>1. PICK d : d = Merge(base, cache[c])
  OBVIOUS
<1>2. ByHand(d)
  BY <1>1 DEF CopiesByHand, ByHand, Merge
<1>3. /\ room' = [room EXCEPT ![s] = d]
      /\ cache' = [x \in Client |-> IF x \in Connected(s) \cup {c} THEN d ELSE cache[x]]
  BY <1>1 DEF Sync, Publish
<1> QED
  BY <1>2, <1>3 DEF CopiesByHand, Loaded, TypeOK

\* Until the board is rebuilt, rooms and caches hold what was drawn.
LEMMA CopiesByHandStep ==
  ASSUME TypeOK, [Next]_vars, CopiesByHand, RowsByHand
  PROVE  CopiesByHand'
<1>S. ByHand(Stored) /\ Stored \in Doc
  BY WindowByHand, StoredTyped DEF RowsByHand, TypeOK, Stored
<1>E. ByHand(Empty) /\ Empty \in Doc
  BY EmptyMarks DEF ByHand, Empty
<1>1. ASSUME NEW c \in Client, ClientStep(c) PROVE CopiesByHand'
  <2>T. /\ cache[c] \in Doc /\ cache[c].ins \subseteq Item /\ cache[c].del \subseteq Item
        /\ cache[c].ins \subseteq Content \X {"drawn"} /\ cache[c].del \subseteq Content \X {"drawn"}
    BY DEF TypeOK, Doc, CopiesByHand, ByHand
  <2>1. ASSUME NEW x \in Content, Insert(c, x) PROVE CopiesByHand'
    <3>1. PICK d : d = [cache[c] EXCEPT !.ins = @ \cup {<<x, "drawn">>}]
      OBVIOUS
    <3>2. d \in Doc /\ d.ins = cache[c].ins \cup {<<x, "drawn">>} /\ d.del = cache[c].del
      BY <2>T, <3>1 DEF Doc, Item
    <3>3. ByHand(d)
      BY <2>T, <3>2 DEF ByHand
    <3>4. Edit(c, d)
      BY <2>1, <3>1 DEF Insert
    <3> QED
      BY <3>2, <3>3, <3>4, EditByHand
  <2>2. ASSUME NEW x \in Item, Delete(c, x) PROVE CopiesByHand'
    <3>1. PICK d : d = [cache[c] EXCEPT !.del = @ \cup {x}]
      OBVIOUS
    <3>2. d \in Doc /\ d.ins = cache[c].ins /\ d.del = cache[c].del \cup {x}
      BY <2>T, <3>1 DEF Doc
    <3>3. ByHand(d)
      BY <2>2, <2>T, <3>2 DEF Delete, Visible, ByHand
    <3>4. Edit(c, d)
      BY <2>2, <3>1 DEF Delete
    <3> QED
      BY <3>2, <3>3, <3>4, EditByHand
  <2>3. ASSUME NEW s \in Server, JoinRoom(c, s) \/ LoadDocument(c, s) \/ LoadFails(c, s)
        PROVE  CopiesByHand'
    <3>1. Loaded(s) => room[s] \in Doc /\ ByHand(room[s])
      BY DEF Loaded, TypeOK, Room, CopiesByHand
    <3> QED
      BY <1>S, <1>E, <2>3, <3>1, SyncByHand DEF JoinRoom, LoadDocument, LoadFails
  <2>4. CASE Disconnect(c)
    BY <2>4 DEF Disconnect, CopiesByHand, Loaded
  <2>5. CASE PurgeCache(c)
    <3>1. room' = room /\ cache' = [cache EXCEPT ![c] = Empty]
      BY <2>5 DEF PurgeCache, memory
    <3> QED
      BY <1>E, <3>1 DEF CopiesByHand, Loaded, TypeOK
  <2> QED
    BY <1>1, <2>1, <2>2, <2>3, <2>4, <2>5 DEF ClientStep
<1>2. ASSUME NEW z \in Server, ServerStep(z) PROVE CopiesByHand'
  <2>1. cache' = cache /\ \A s \in Server : room'[s] = room[s] \/ room'[s] = Unloaded
    BY <1>2
    DEF ServerStep, StoreStep, SkipStore, BeginStore, CommitSave, FailSave, Unload,
        Crash, editors, TypeOK
  <2> QED
    BY <2>1 DEF CopiesByHand, Loaded
<1>3. CASE UNCHANGED vars \/ ScriptStep
  <2>1. room' = room /\ cache' = cache
    BY <1>3
    DEF vars, memory, editors, ScriptStep, IdleWindowPasses, ChooseBoard,
        ReadRows, ReplaceRows, AppendMerged, LeaveBoard
  <2> QED
    BY <2>1 DEF CopiesByHand, Loaded
<1> QED
  BY <1>1, <1>2, <1>3 DEF Next

\* And so do the saves in flight.
LEMMA SavesByHandStep ==
  ASSUME RoomInv, [Next]_vars, CopiesByHand, SavesByHand
  PROVE  SavesByHand'
<1>T. TypeOK
  BY DEF RoomInv, TypeInv
<1> SUFFICES ASSUME NEW s \in Server, NEW j \in DOMAIN saving'[s]
             PROVE  ByHand(saving'[s][j])
  BY DEF SavesByHand
<1>1. CASE saving'[s] = saving[s]
  BY <1>1 DEF SavesByHand
<1>2. CASE BeginStore(s)
  <2>1. /\ DOMAIN saving[s] = 1..Len(saving[s]) /\ Len(saving[s]) \in Nat
        /\ DOMAIN saving'[s] = 1..(Len(saving[s]) + 1)
        /\ \A i \in 1..Len(saving[s]) : saving'[s][i] = saving[s][i]
        /\ saving'[s][Len(saving[s]) + 1] = room[s]
    BY <1>2, <1>T, BegunIs
  <2>2. ByHand(room[s])
    BY <1>2 DEF BeginStore, CopiesByHand
  <2>3. j \in 1..Len(saving[s]) \/ j = Len(saving[s]) + 1
    BY <2>1
  <2> QED
    BY <2>1, <2>2, <2>3 DEF SavesByHand
<1>3. ASSUME NEW i \in 1..MaxSaving, CommitSave(s, i) \/ FailSave(s, i)
      PROVE  ByHand(saving'[s][j])
  <2>1. /\ DOMAIN saving[s] = 1..Len(saving[s]) /\ Len(saving[s]) \in Nat
        /\ DOMAIN saving'[s] = 1..(Len(saving[s]) - 1)
        /\ \A l \in 1..(Len(saving[s]) - 1) :
             saving'[s][l] = IF l < i THEN saving[s][l] ELSE saving[s][l + 1]
    BY <1>3, <1>T, AnsweredIs, BoundsAssumption
  <2>2. j \in DOMAIN saving[s] /\ j + 1 \in DOMAIN saving[s]
    BY <2>1
  <2>3. saving'[s][j] = saving[s][j] \/ saving'[s][j] = saving[s][j + 1]
    BY <2>1
  <2> QED
    BY <2>2, <2>3 DEF SavesByHand
<1>4. CASE Unload(s) \/ Crash(s)
  BY <1>4, <1>T, GoneIs
<1> QED
  BY <1>1, <1>2, <1>3, <1>4, Moves
  DEF RoomStep, Untouched, Grown, Fetched, Missed, LoadedFrom

\* And so do the rows, as long as compact-documents does not write.
LEMMA RowsByHandStep ==
  ASSUME TypeOK, [Next]_vars, NEW s, Server = {s}, ~ReplaceRows,
         SavesByHand, RowsByHand, ByHand(script.read)
  PROVE  RowsByHand'
<1> SUFFICES ASSUME NEW k \in 1..Len(rows') PROVE ByHand(rows'[k])
  BY DEF RowsByHand
<1>1. CASE rows' = rows
  BY <1>1 DEF RowsByHand
<1>2. ASSUME NEW i \in 1..MaxSaving, CommitSave(s, i) PROVE ByHand(rows'[k])
  <2>1. ByHand(saving[s][i])
    BY <1>2 DEF CommitSave, SavesByHand
  <2> QED
    BY <1>2, <2>1, RowsAfterCommit DEF RowsByHand
<1>3. CASE AppendMerged
  <2>1. /\ Len(rows) \in Nat /\ Len(rows') = Len(rows) + 1
        /\ \A j \in 1..Len(rows) : rows'[j] = rows[j]
        /\ rows'[Len(rows) + 1] = script.read
    BY <1>3, AppendedIs
  <2>2. k \in 1..Len(rows) \/ k = Len(rows) + 1
    BY <2>1
  <2> QED
    BY <2>1, <2>2 DEF RowsByHand
<1> QED
  BY <1>1, <1>2, <1>3, RowsWritten

\* What a script that goes on has read it keeps; only commits move its count.
LEMMA ScriptReads ==
  ASSUME TypeInv, [Next]_vars
  PROVE  \/ ReadRows \/ script' = script
         \/ script'.step # "read" /\ script'.read = Empty
         \/ \E s \in Server, i \in 1..MaxSaving : CommitSave(s, i)
<1>0. NoScript.step = "off" /\ NoScript.read = Empty
  BY DEF NoScript
<1>1. ASSUME NEW c \in Client, ClientStep(c) PROVE script' = script
  BY <1>1
  DEF ClientStep, Insert, Delete, Edit, JoinRoom, LoadDocument, LoadFails,
      Disconnect, PurgeCache, maintenance
<1>2. ASSUME NEW s \in Server, ServerStep(s)
      PROVE  script' = script \/ \E i \in 1..MaxSaving : CommitSave(s, i)
  BY <1>2
  DEF ServerStep, StoreStep, SkipStore, BeginStore, FailSave, Unload, Crash, maintenance
<1>3. ASSUME NEW kind \in Maintenance, ChooseBoard(kind)
      PROVE  script'.step # "read" /\ script'.read = Empty
  <2>1. script' = [NoScript EXCEPT !.step = "chosen", !.kind = kind]
    BY <1>3 DEF ChooseBoard
  <2> QED
    BY <2>1 DEF NoScript
<1>4. CASE IdleWindowPasses \/ ReplaceRows \/ AppendMerged \/ LeaveBoard \/ UNCHANGED vars
  BY <1>0, <1>4
  DEF IdleWindowPasses, ReplaceRows, AppendMerged, LeaveBoard, vars, maintenance
<1> QED
  BY <1>1, <1>2, <1>3, <1>4 DEF Next, ScriptStep

\* A commit moves nothing of a script but its count of the rows it has not read.
LEMMA CommitCounts ==
  ASSUME TypeOK, NEW s \in Server, NEW i, CommitSave(s, i)
  PROVE  /\ script'.step = script.step /\ script'.read = script.read
         /\ ranOnce' = ranOnce
         /\ script.step = "read" =>
              script'.since = IF script.since < RETENTION THEN script.since + 1
                              ELSE script.since
  BY DEF CommitSave, TypeOK, Script

\* Until the board is rebuilt, everything anywhere was drawn by hand.
LEMMA ByHandStep ==
  ASSUME RoomInv, [Next]_vars, NEW s, Server = {s}, AllByHand
  PROVE  AllByHand'
<1>T. TypeOK /\ TypeInv /\ rows \in Seq(Doc) /\ script \in Script /\ s \in Server
  BY DEF RoomInv, TypeInv, TypeOK
<1> SUFFICES ASSUME ~ranOnce'
             PROVE  CopiesByHand' /\ SavesByHand' /\ RowsByHand' /\ ByHand(script.read)'
  BY DEF AllByHand
<1>1. ~ReplaceRows
  BY DEF ReplaceRows
<1>2. ranOnce' = ranOnce
  BY <1>1, <1>T, ScriptMoves
<1>3. ~ranOnce
  BY Zenon, <1>2
<1>4. CopiesByHand /\ SavesByHand /\ RowsByHand /\ ByHand(script.read)
  BY <1>3 DEF AllByHand
<1>5. ByHand(script'.read)
  <2>1. CASE ReadRows
    <3>1. script'.read = MergeAll(Elements(rows))
      BY <1>T, <2>1 DEF ReadRows, Script
    <3> QED
      BY <1>4, <1>T, <3>1, MergeAllByHand DEF RowsByHand
  <2>2. CASE script'.read = Empty
    BY <2>2 DEF ByHand, Empty
  <2> QED
    BY <1>4, <1>T, <2>1, <2>2, ScriptReads, CommitCounts
<1> QED
  BY <1>1, <1>4, <1>5, <1>T, CopiesByHandStep, SavesByHandStep, RowsByHandStep

\* A script's count covers every row it has not read, after any step.
LEMMA CountsUnreadStep ==
  ASSUME TypeInv, TypeInv', [Next]_vars, NEW s, Server = {s}, CountsUnread
  PROVE  CountsUnread'
<1>T. TypeOK /\ s \in Server /\ script \in Script /\ script.since \in 0..RETENTION
      /\ RETENTION \in Nat
  BY RetentionAssumption DEF TypeInv, TypeOK, Script
<1> SUFFICES ASSUME script'.step = "read", NEW k \in 1..Len(rows'),
                    k <= Len(rows') - script'.since
             PROVE  Marks(rows'[k]) \subseteq Marks(script'.read)
  BY DEF CountsUnread
<1>0. ~ReplaceRows /\ ~AppendMerged
  <2>1. NoScript.step # "read"
    BY DEF NoScript
  <2> QED
    BY <2>1 DEF ReplaceRows, AppendMerged
<1>1. CASE ReadRows
  BY <1>1, <1>T, ReadIs
<1>2. ASSUME NEW i \in 1..MaxSaving, CommitSave(s, i)
      PROVE  Marks(rows'[k]) \subseteq Marks(script'.read)
  <2>1. /\ script.step = "read" /\ script'.read = script.read
        /\ script'.since = IF script.since < RETENTION THEN script.since + 1 ELSE script.since
    BY <1>2, <1>T, CommitCounts
  <2>2. /\ Len(rows) \in Nat /\ Len(rows') \in 1..RETENTION /\ Len(rows') <= Len(rows) + 1
        /\ \A j \in 1..(Len(rows') - 1) : rows'[j] = rows[Len(rows) + 1 - Len(rows') + j]
    BY <1>2, <1>T, CommitIs
  <2>3. script.since < RETENTION /\ script'.since = script.since + 1
    BY <1>T, <2>1, <2>2
  <2>4. PICK j : j = Len(rows) + 1 - Len(rows') + k
    OBVIOUS
  <2>5. k \in 1..(Len(rows') - 1) /\ j \in 1..Len(rows) /\ j <= Len(rows) - script.since
    BY <1>T, <2>2, <2>3, <2>4
  <2> QED
    BY <2>1, <2>2, <2>4, <2>5 DEF CountsUnread
<1>3. CASE rows' = rows /\ script' = script
  BY <1>3 DEF CountsUnread
<1> QED
  BY <1>0, <1>1, <1>2, <1>3, ScriptReads, RowsWritten

\* What compact-documents leaves out is no shape that could be read back.
LEMMA CompactionKeeps ==
  ASSUME NEW s, Server = {s}, MaxSaving < RETENTION, RoomInv, AllByHand, CountsUnread,
         ReadKept(s), RestKept(s), failed.loads = 0, ReplaceRows
  PROVE  ContentOf(Stored, Shape) \subseteq ContentOf(Stored', Shape)
<1>T. /\ TypeOK /\ rows \in Seq(Doc) /\ script.read \in Doc /\ s \in Server
      /\ script.since \in Nat
  BY RetentionAssumption DEF RoomInv, TypeInv, TypeOK, Script
<1>N. /\ MaxSaving \in Nat /\ MaxSaving + 1 \in Nat /\ MaxSaving + 1 <= RETENTION
      /\ RETENTION \in Nat \ {0} /\ Len(rows) \in Nat /\ MaxSaving <= RETENTION
  BY <1>T, BoundsAssumption, RetentionAssumption, LenProperties
<1>O. ~ranOnce /\ script.step = "read"
  BY DEF ReplaceRows, RoomInv, TypeInv, ScriptFits
<1>U. /\ Unread \in Seq(Doc)
      /\ Len(Unread) = IF Len(rows) <= script.since THEN Len(rows) ELSE script.since
      /\ \A i \in 1..Len(Unread) : Unread[i] = rows[Len(rows) - Len(Unread) + i]
  BY <1>T, NewestIs DEF Unread
<1>0. PICK r, u, n : r = Rebuilt(script.read) /\ u = Unread /\ n = Len(Unread)
  OBVIOUS
<1>L. /\ n \in Nat /\ n <= Len(rows) /\ (n = Len(rows) \/ n = script.since)
  BY <1>0, <1>N, <1>T, <1>U
<1>A. /\ rows' \in Seq(Doc) /\ Len(rows') = n + 1
      /\ \A i \in 1..n : rows'[i] = rows[Len(rows) - n + i]
      /\ rows'[n + 1] = r
  <2>1. r \in Doc
    BY <1>0, RebuiltTyped
  <2>2. /\ Append(u, r) \in Seq(Doc) /\ Len(Append(u, r)) = Len(u) + 1
        /\ \A i \in 1..Len(u) : Append(u, r)[i] = u[i]
        /\ Append(u, r)[Len(u) + 1] = r
    BY <1>0, <1>U, <2>1, AppendProperties
  <2>3. rows' = Append(u, r)
    BY <1>0 DEF ReplaceRows
  <2> QED
    BY <1>0, <1>U, <2>2, <2>3
<1>R. r.ins = {<<x, "rebuilt">> : x \in {y \in Shape : \E i \in Visible(script.read) : i[1] = y}}
      /\ r.del = {}
  BY <1>0 DEF Rebuilt
<1>B. /\ Stored' \in Doc
      /\ \A p : p \in Marks(Stored') <=>
           \E k \in 1..Len(rows') : k > Len(rows') - RETENTION /\ p \in Marks(rows'[k])
  BY <1>A, WindowMarks DEF Stored
<1>S. Stored \in Doc
  BY <1>T, StoredTyped
<1>F. ASSUME NEW k \in 1..Len(rows'), NEW x, <<x, "del">> \in Marks(rows'[k])
      PROVE  \E l \in 1..Len(rows) : rows'[k] = rows[l]
  <2>1. k # n + 1
    <3>1. <<x, "del">> \notin Marks(r)
      BY <1>R DEF Marks
    <3> QED
      BY <1>A, <1>F, <3>1
  <2>2. k \in 1..n
    BY <1>A, <1>L, <2>1
  <2>3. Len(rows) - n + k \in 1..Len(rows)
    BY <1>L, <1>N, <2>2
  <2> QED
    BY <1>A, <2>2, <2>3
<1> SUFFICES ASSUME NEW x \in Shape, NEW i \in Visible(Stored), i[1] = x
             PROVE  \E j \in Visible(Stored') : j[1] = x
  BY DEF ContentOf
<1>1. i \in Stored.ins /\ i \notin Stored.del
  BY DEF Visible
<1>2. CASE i \in script.read.ins
  <2>1. i \notin script.read.del
    <3> SUFFICES ASSUME i \in script.read.del PROVE FALSE
      OBVIOUS
    <3>1. <<i, "del">> \in Marks(script.read)
      BY <1>T, InsertionMarks
    <3>2. KeptWithin(s, <<i, "del">>, MaxSaving + 1)
      BY <1>O, <3>1 DEF ReadKept
    <3>3. <<i, "del">> \in Marks(Stored)
      BY <1>N, <1>T, <3>2, KeptIsStored
    <3> QED
      BY <1>1, <1>S, <3>3, InsertionMarks
  <2>2. i \in Visible(script.read)
    BY <1>2, <2>1 DEF Visible
  <2>3. <<x, "rebuilt">> \in r.ins
    BY <1>R, <2>2
  <2>4. <<x, "rebuilt">> \in Stored'.ins
    <3>1. <<<<x, "rebuilt">>, "ins">> \in Marks(r)
      BY <2>3 DEF Marks
    <3>2. n + 1 \in 1..Len(rows') /\ n + 1 > Len(rows') - RETENTION
      BY <1>A, <1>L, <1>N
    <3>3. <<<<x, "rebuilt">>, "ins">> \in Marks(Stored')
      BY <1>A, <1>B, <3>1, <3>2
    <3> QED
      BY <1>B, <3>3, InsertionMarks
  <2>5. <<x, "rebuilt">> \notin Stored'.del
    <3> SUFFICES ASSUME <<x, "rebuilt">> \in Stored'.del PROVE FALSE
      OBVIOUS
    <3>1. <<<<x, "rebuilt">>, "del">> \in Marks(Stored')
      BY <1>B, InsertionMarks
    <3>2. PICK k \in 1..Len(rows') : <<<<x, "rebuilt">>, "del">> \in Marks(rows'[k])
      BY <1>B, <3>1
    <3>3. PICK l \in 1..Len(rows) : rows'[k] = rows[l]
      BY <1>F, <3>2
    <3>4. <<x, "rebuilt">> \in rows[l].del
      BY <3>2, <3>3 DEF Marks
    <3>5. ByHand(rows[l])
      BY <1>O DEF AllByHand, RowsByHand
    <3> QED
      BY <3>4, <3>5 DEF ByHand
  <2>6. <<x, "rebuilt">> \in Visible(Stored')
    BY <2>4, <2>5 DEF Visible
  <2>7. <<x, "rebuilt">>[1] = x
    OBVIOUS
  <2> QED
    BY <2>6, <2>7
<1>3. CASE i \notin script.read.ins
  <2>1. <<i, "ins">> \notin Marks(script.read)
    BY <1>3, <1>T, InsertionMarks
  <2>2. <<i, "ins">> \in Marks(Stored)
    BY <1>1, <1>S, InsertionMarks
  <2>3. PICK k \in 1..Len(rows) : <<i, "ins">> \in Marks(rows[k])
    BY <1>T, <2>2, WindowMarks DEF Stored
  <2>4. KeptWithin(s, <<i, "ins">>, MaxSaving)
    BY <1>O, <2>1, <2>3 DEF RestKept
  <2>5. PICK l \in 1..Len(rows), m \in 0..MaxSaving :
          <<i, "ins">> \in Marks(rows[l]) /\ m + Len(rows) - l < MaxSaving
    BY <2>4 DEF KeptWithin
  <2>6. l > Len(rows) - script.since
    <3> SUFFICES ASSUME ~(l > Len(rows) - script.since) PROVE FALSE
      OBVIOUS
    <3>1. l <= Len(rows) - script.since
      BY <1>N, <1>T
    <3> QED
      BY <1>O, <2>1, <2>5, <3>1 DEF CountsUnread
  <2>7. PICK h : h = l - (Len(rows) - n)
    OBVIOUS
  <2>8. h \in 1..n /\ h \in 1..Len(rows') /\ h > Len(rows') - RETENTION
        /\ Len(rows) - n + h = l
    <3>1. /\ Len(rows') = n + 1 /\ l \in Nat /\ l <= Len(rows) /\ l >= 1
          /\ m \in Nat /\ Len(rows) - l < MaxSaving
      BY <1>A, <1>N, <2>5
    <3>2. script.since \in Nat /\ MaxSaving < RETENTION
      BY <1>T
    <3> QED
      BY <1>L, <1>N, <2>6, <2>7, <3>1, <3>2
  <2>9. <<i, "ins">> \in Marks(Stored')
    BY <1>A, <1>B, <2>5, <2>8
  <2>10. i \in Stored'.ins
    BY <1>B, <2>9, InsertionMarks
  <2>11. i \notin Stored'.del
    <3> SUFFICES ASSUME i \in Stored'.del PROVE FALSE
      OBVIOUS
    <3>1. <<i, "del">> \in Marks(Stored')
      BY <1>B, InsertionMarks
    <3>2. PICK a \in 1..Len(rows') : <<i, "del">> \in Marks(rows'[a])
      BY <1>B, <3>1
    <3>3. PICK b \in 1..Len(rows) : rows'[a] = rows[b]
      BY <1>F, <3>2
    <3>4. <<i, "del">> \in Marks(rows[b])
      BY <3>2, <3>3
    <3>5. KeptWithin(s, <<i, "del">>, MaxSaving + 1) \/ KeptWithin(s, <<i, "del">>, MaxSaving)
      BY <1>O, <3>4 DEF RestKept, ReadKept
    <3>6. <<i, "del">> \in Marks(Stored)
      BY <1>N, <1>T, <3>5, KeptIsStored
    <3> QED
      BY <1>1, <1>S, <3>6, InsertionMarks
  <2> QED
    BY <2>10, <2>11 DEF Visible
<1> QED
  BY <1>2, <1>3

\* compact-documents loses no shape of a board saves alone have written, however
\* many of them committed between its read of the rows and its replacement of
\* them, as long as no room was opened empty and fewer saves can be in flight
\* than rows are kept.
THEOREM CompactionIsSafe ==
  ASSUME NEW s, Server = {s}, MaxSaving < RETENTION, MaxFailedLoads = 0,
         Legacy = {<<>>}
  PROVE  Spec => CompactionKeepsShapes
<1> DEFINE Kept == ReplaceRows => ContentOf(Stored, Shape) \subseteq ContentOf(Stored', Shape)
           IInv == WindowInv(s) /\ AllByHand /\ CountsUnread
<1>1. Init => IInv
  <2> SUFFICES ASSUME Init PROVE IInv
    OBVIOUS
  <2>1. rows = <<>> /\ script = NoScript /\ DOMAIN <<>> = {}
        /\ \A z \in Server : saving[z] = <<>> /\ ~Loaded(z)
    BY DEF Init, Loaded
  <2>2. Len(rows) = 0 /\ script.step = "off" /\ script.read = Empty
    BY <2>1 DEF NoScript
  <2>3. \A c \in Client : cache[c] = Empty
    BY DEF Init
  <2>4. ByHand(Empty)
    BY DEF ByHand, Empty
  <2>5. AllByHand /\ CountsUnread
    BY <2>1, <2>2, <2>3, <2>4
    DEF AllByHand, CopiesByHand, SavesByHand, RowsByHand, CountsUnread
  <2> QED
    BY <2>5, WindowInit
<1>2. IInv /\ [Next]_vars => IInv'
  <2> SUFFICES ASSUME IInv, [Next]_vars PROVE IInv'
    OBVIOUS
  <2>1. WindowInv(s)'
    BY WindowStep
  <2>2. RoomInv /\ TypeInv /\ TypeInv'
    BY StepTyped DEF WindowInv, RoomInv
  <2> QED
    BY <2>1, <2>2, ByHandStep, CountsUnreadStep
<1>3. IInv => Kept
  <2> SUFFICES ASSUME IInv, ReplaceRows
               PROVE  ContentOf(Stored, Shape) \subseteq ContentOf(Stored', Shape)
    OBVIOUS
  <2>1. RoomInv /\ ReadKept(s) /\ RestKept(s)
    BY DEF WindowInv
  <2>2. failed.loads = 0
    BY <2>1 DEF RoomInv, TypeInv, TypeOK
  <2> QED
    BY <2>1, <2>2, CompactionKeeps
<1> QED
  <2>1. Spec => [][Kept]_vars
    <3> HIDE DEF Kept, IInv
    <3> QED
      BY <1>1, <1>2, <1>3, PTL DEF Spec
  <2> QED
    BY <2>1, PTL DEF CompactionKeepsShapes

=============================================================================
