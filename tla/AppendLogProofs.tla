--------------------------- MODULE AppendLogProofs ---------------------------
(***************************************************************************)
(* Proofs about AppendLog, for any number of readers and any length of the *)
(* log: a published record is there when a reader looks for it, a reader's *)
(* clone shows the record it asked for, and main's drop leaves no chunk.   *)
(*                                                                         *)
(* The inductive invariant LogInv says where each chunk is: being filled,  *)
(* sealed (with one reference of the writer or the map, and one for each   *)
(* reader that holds a clone), or not there.  The map is cleared by the    *)
(* last thread to let go of it, and that is always main.                   *)
(***************************************************************************)
EXTENDS AppendLog, FiniteSetTheorems, SequenceTheorems, TLAPS

USE LogAssumption

Everyone == {MAIN, WRITER} \cup Readers

\* Readers that hold a clone of record n.
Holding(n) == {r \in Readers : chunk[r] = n}

SealedRecord(n, k) == [st |-> "sealed", refs |-> k, len |-> 1, data |-> Pattern(n)]
OpenRecord(s)      == [st |-> "builder", refs |-> 1, len |-> 0, data |-> <<s>>]

\* Record n is complete, with the writer or in the map.
IsSealed(n) ==
  pc[MAIN] # "done" /\ (n < lsn \/ (n = lsn /\ pc[WRITER] \in {"insert", "publish"}))

\* Record n is in the map.
IsLogged(n) ==
  pc[MAIN] # "done" /\ (n < lsn \/ (n = lsn /\ pc[WRITER] = "publish"))

IsFilling(n) == n = lsn /\ pc[WRITER] = "fill"

LogTypes ==
  /\ handle = [n \in Handles |-> handle[n]]
  /\ log \in [Handles -> Handles \cup {NULL}]
  /\ pc \in [Everyone -> {"sleep", "join", "drop", "loop", "fill", "insert",
                          "publish", "load", "get", "read", "done"}]
  /\ pc[MAIN] \in {"sleep", "join", "drop", "done"}
  /\ pc[WRITER] \in {"loop", "fill", "insert", "publish", "done"}
  /\ \A r \in Readers : pc[r] \in {"loop", "load", "get", "read", "done"}
  /\ high_water \in Nat /\ lsn \in Nat
  /\ target \in [Readers -> Nat] /\ chunk \in [Readers -> Handles \cup {NULL}]

\* Who still has the map, and main is the last.
MapHeld ==
  /\ holders = {x \in Everyone : pc[x] # "done"}
  /\ pc[MAIN] \in {"drop", "done"} => \A x \in Everyone \ {MAIN} : pc[x] = "done"

WriterPlace ==
  /\ lsn <= MaxLsn + 1
  /\ pc[WRITER] \in {"fill", "insert", "publish"} => lsn <= MaxLsn
  /\ high_water <= lsn
  /\ high_water # 0 => high_water < lsn

MapContent == \A n \in Handles : log[n] = IF IsLogged(n) THEN n ELSE NULL

ReaderPlace ==
  \A r \in Readers :
    /\ pc[r] \in {"get", "read"} => target[r] < high_water
    /\ chunk[r] = IF pc[r] = "read" THEN target[r] ELSE NULL

ChunkCounted(n) ==
  /\ IsSealed(n) => handle[n] = SealedRecord(n, 1 + Cardinality(Holding(n)))
  /\ IsFilling(n) => \E s \in Cells : handle[n] = OpenRecord(s)
  /\ ~IsSealed(n) /\ ~IsFilling(n) => handle[n] = NoHandle

ChunksCounted == \A n \in Handles : ChunkCounted(n)

LogInv ==
  /\ LogTypes /\ MapHeld /\ WriterPlace /\ MapContent /\ ReaderPlace /\ ChunksCounted

-----------------------------------------------------------------------------
(* Facts about references and clones.                                      *)

\* A clone and a drop change the count of a sealed record and nothing else.
LEMMA CountChanges ==
  ASSUME NEW n, NEW k \in Nat
  PROVE  /\ [SealedRecord(n, k) EXCEPT !.refs = @ + 1] = SealedRecord(n, k + 1)
         /\ [SealedRecord(n, k) EXCEPT !.refs = @ - 1] = SealedRecord(n, k - 1)
         /\ SealedRecord(n, k).refs = k /\ SealedRecord(n, k).st = "sealed"
  BY DEF SealedRecord

\* Readers are finitely many, so the holders of a record are counted.
LEMMA HoldingCounted ==
  ASSUME NEW n
  PROVE  IsFiniteSet(Holding(n)) /\ Cardinality(Holding(n)) \in Nat
  <1>1. Holding(n) \subseteq Readers
    BY DEF Holding
  <1>2. IsFiniteSet(Holding(n))
    BY <1>1, FS_Subset
  <1> QED
    BY <1>2, FS_CardinalityType

\* Nobody holds a record that is not published.
LEMMA UnpublishedUnheld ==
  ASSUME LogInv, NEW n \in Handles, n >= lsn
  PROVE  Holding(n) = {} /\ Cardinality(Holding(n)) = 0
  <1>1. ASSUME NEW r \in Readers PROVE chunk[r] # n
    <2>1. high_water <= lsn /\ target[r] \in Nat /\ high_water \in Nat /\ lsn \in Nat /\ n \in Nat
      BY DEF LogInv, WriterPlace, LogTypes
    <2> QED
      BY <2>1 DEF LogInv, ReaderPlace, LogTypes
  <1>2. Holding(n) = {}
    BY <1>1 DEF Holding
  <1> QED
    BY <1>2, FS_EmptySet

\* main is not done while another thread runs.
LEMMA MainNotDone ==
  ASSUME LogInv, NEW x \in {WRITER} \cup Readers, pc[x] # "done"
  PROVE  pc[MAIN] \notin {"drop", "done"} /\ MAIN \in holders
  BY DEF LogInv, MapHeld, LogTypes, Everyone

\* A step that leaves a record, its phase and its clones alone keeps its count.
LEMMA SameChunk ==
  ASSUME LogInv, NEW n \in Handles, handle'[n] = handle[n], Holding(n)' = Holding(n),
         IsSealed(n)' <=> IsSealed(n), IsFilling(n)' <=> IsFilling(n)
  PROVE  ChunkCounted(n)'
  <1>1. ChunkCounted(n)
    BY DEF LogInv, ChunksCounted
  <1> QED
    BY <1>1 DEF ChunkCounted

\* The view of a record of one byte is that byte.
LEMMA SingletonView ==
  ASSUME NEW n \in Nat
  PROVE  SubSeq(<<n>>, 1, 1) = <<n>>
  <1> DEFINE s == <<n>>
             q == SubSeq(s, 1, 1)
  <1>1. s \in Seq(Nat) /\ Len(s) = 1 /\ s[1] \in Nat
    OBVIOUS
  <1>2. \A i \in 1 .. 1 : s[i] \in Nat
    <2> HIDE DEF s
    <2> SUFFICES ASSUME NEW i \in 1 .. 1 PROVE s[i] \in Nat
      OBVIOUS
    <2>1. i = 1
      OBVIOUS
    <2> QED
      BY <1>1, <2>1
  <1> HIDE DEF s
  <1>3. /\ SubSeq(s, 1, 1) \in Seq(Nat)
        /\ Len(SubSeq(s, 1, 1)) = IF 1 <= 1 THEN 1 - 1 + 1 ELSE 0
        /\ \A i \in 1 .. 1 - 1 + 1 : SubSeq(s, 1, 1)[i] = s[1 + i - 1]
    BY <1>2, SubSeqProperties
  <1>4. q \in Seq(Nat) /\ Len(q) = 1 /\ q[1] = s[1]
    BY <1>3
  <1> HIDE DEF q
  <1>5. q = s
    BY <1>1, <1>4
  <1> QED
    BY <1>5 DEF q, s

-----------------------------------------------------------------------------
(* Initial states.                                                         *)

\* LogInit establishes the invariant.
LEMMA LogInitInv == LogInit => LogInv
  <1> SUFFICES ASSUME LogInit PROVE LogInv
    OBVIOUS
  <1>1. /\ handle = [h \in Handles |-> NoHandle] /\ log = [n \in Handles |-> NULL]
        /\ holders = Everyone /\ high_water = 0 /\ lsn = 0
        /\ pc = [x \in Everyone |-> IF x = MAIN THEN "sleep" ELSE "loop"]
        /\ target = [r \in Readers |-> 0] /\ chunk = [r \in Readers |-> NULL]
    BY DEF LogInit, StoreInit, Everyone
  <1>2. MAIN \in Everyone /\ WRITER \in Everyone /\ Readers \subseteq Everyone
    BY DEF Everyone
  <1>3. LogTypes
    BY <1>1, <1>2 DEF LogTypes
  <1>4. MapHeld
    BY <1>1, <1>2 DEF MapHeld
  <1>5. WriterPlace
    BY <1>1, <1>2 DEF WriterPlace
  <1>6. pc[WRITER] = "loop" /\ \A n \in Handles : n >= 0
    BY <1>1, <1>2
  <1>7. MapContent
    BY <1>1, <1>6 DEF MapContent, IsLogged
  <1>8. ReaderPlace
    BY <1>1, <1>2 DEF ReaderPlace
  <1>9. ChunksCounted
    BY <1>1, <1>6 DEF ChunksCounted, ChunkCounted, IsSealed, IsFilling
  <1> QED
    BY <1>3, <1>4, <1>5, <1>7, <1>8, <1>9 DEF LogInv

-----------------------------------------------------------------------------
(* Steps of the writer.                                                    *)

\* The writer's allocation puts an open record at lsn.
LEMMA AllocateKeeps ==
  ASSUME LogInv, WriterAllocate
  PROVE  LogInv'
  <1>0. MAIN \in Everyone /\ WRITER \in Everyone /\ Readers \subseteq Everyone
    BY DEF Everyone
  <1>1. /\ pc[WRITER] = "loop" /\ pc' = [pc EXCEPT ![WRITER] = "fill"] /\ lsn <= MaxLsn
        /\ UNCHANGED <<log, holders, high_water, running, lsn, target, chunk>>
        /\ \E s \in Cells : handle' = [handle EXCEPT ![lsn] = OpenRecord(s)]
    BY DEF WriterAllocate, Goto, Create, Becomes, OpenRecord
  <1>2. lsn \in Handles
    BY <1>1 DEF LogInv, WriterPlace, LogTypes
  <1>t. LogTypes'
    BY <1>0, <1>1 DEF LogInv, LogTypes
  <1>h. MapHeld'
    BY <1>0, <1>1 DEF LogInv, MapHeld, LogTypes
  <1>w. WriterPlace'
    BY <1>0, <1>1 DEF LogInv, WriterPlace, LogTypes
  <1>m. MapContent'
    BY <1>0, <1>1 DEF LogInv, MapContent, IsLogged, LogTypes
  <1>r. ReaderPlace'
    BY <1>0, <1>1 DEF LogInv, ReaderPlace, LogTypes
  <1>c. ChunksCounted'
    <2> SUFFICES ASSUME NEW n \in Handles PROVE ChunkCounted(n)'
      BY DEF ChunksCounted
    <2>1. CASE n = lsn
      <3>1. \E s \in Cells : handle'[n] = OpenRecord(s)
        BY <1>1, <1>2, <2>1 DEF LogInv, LogTypes
      <3>2. ~IsSealed(n)' /\ IsFilling(n)'
        BY <1>0, <1>1, <1>2, <2>1 DEF IsSealed, IsFilling, LogInv, LogTypes
      <3> QED
        BY <3>1, <3>2 DEF ChunkCounted
    <2>2. CASE n # lsn
      <3>1. handle'[n] = handle[n] /\ Holding(n)' = Holding(n)
        BY <1>0, <1>1, <1>2, <2>2 DEF Holding, LogInv, LogTypes
      <3>2. (IsSealed(n)' <=> IsSealed(n)) /\ (IsFilling(n)' <=> IsFilling(n))
        BY <1>0, <1>1, <2>2 DEF IsSealed, IsFilling, LogInv, LogTypes
      <3> QED
        BY <3>1, <3>2, SameChunk
    <2> QED
      BY <2>1, <2>2
  <1> QED
    BY <1>t, <1>h, <1>w, <1>m, <1>r, <1>c DEF LogInv

\* Filling and sealing the open record completes it, and no reader has it yet.
LEMMA FillKeeps ==
  ASSUME LogInv, WriterFill
  PROVE  LogInv'
  <1>0. MAIN \in Everyone /\ WRITER \in Everyone /\ Readers \subseteq Everyone
    BY DEF Everyone
  <1>1. /\ pc[WRITER] = "fill" /\ pc' = [pc EXCEPT ![WRITER] = "insert"]
        /\ UNCHANGED <<log, holders, high_water, running, lsn, target, chunk>>
        /\ handle' = [handle EXCEPT ![lsn] = SealedRecord(lsn, 1)]
    BY DEF WriterFill, Goto, Complete, Becomes, SealedRecord
  <1>2. lsn \in Handles
    BY <1>1 DEF LogInv, WriterPlace, LogTypes
  <1>3. Holding(lsn)' = Holding(lsn) /\ Cardinality(Holding(lsn)) = 0
    BY <1>1, <1>2, UnpublishedUnheld DEF Holding, LogInv, LogTypes
  <1>t. LogTypes'
    BY <1>0, <1>1 DEF LogInv, LogTypes
  <1>h. MapHeld'
    BY <1>0, <1>1 DEF LogInv, MapHeld, LogTypes
  <1>w. WriterPlace'
    BY <1>0, <1>1 DEF LogInv, WriterPlace, LogTypes
  <1>m. MapContent'
    BY <1>0, <1>1 DEF LogInv, MapContent, IsLogged, LogTypes
  <1>r. ReaderPlace'
    BY <1>0, <1>1 DEF LogInv, ReaderPlace, LogTypes
  <1>c. ChunksCounted'
    <2> SUFFICES ASSUME NEW n \in Handles PROVE ChunkCounted(n)'
      BY DEF ChunksCounted
    <2>1. CASE n = lsn
      <3>1. handle'[n] = SealedRecord(n, 1)
        BY <1>1, <1>2, <2>1 DEF LogInv, LogTypes
      <3>2. IsSealed(n)' /\ ~IsFilling(n)'
        BY <1>0, <1>1, <1>2, <2>1, MainNotDone DEF IsSealed, IsFilling, LogInv, LogTypes
      <3>3. Cardinality(Holding(n)') = 0
        BY <1>1, <1>3, <2>1
      <3> QED
        BY <3>1, <3>2, <3>3 DEF ChunkCounted
    <2>2. CASE n # lsn
      <3>1. handle'[n] = handle[n] /\ Holding(n)' = Holding(n)
        BY <1>0, <1>1, <1>2, <2>2 DEF Holding, LogInv, LogTypes
      <3>2. (IsSealed(n)' <=> IsSealed(n)) /\ (IsFilling(n)' <=> IsFilling(n))
        BY <1>0, <1>1, <2>2 DEF IsSealed, IsFilling, LogInv, LogTypes
      <3> QED
        BY <3>1, <3>2, SameChunk
    <2> QED
      BY <2>1, <2>2
  <1> QED
    BY <1>t, <1>h, <1>w, <1>m, <1>r, <1>c DEF LogInv

\* The insert moves the writer's reference into the map.
LEMMA InsertKeeps ==
  ASSUME LogInv, WriterInsert
  PROVE  LogInv'
  <1>0. MAIN \in Everyone /\ WRITER \in Everyone /\ Readers \subseteq Everyone
    BY DEF Everyone
  <1>1. /\ pc[WRITER] = "insert" /\ pc' = [pc EXCEPT ![WRITER] = "publish"]
        /\ UNCHANGED <<handle, holders, high_water, running, lsn, target, chunk>>
        /\ log' = [log EXCEPT ![lsn] = lsn]
    BY DEF WriterInsert, Goto
  <1>2. lsn \in Handles
    BY <1>1 DEF LogInv, WriterPlace, LogTypes
  <1>t. LogTypes'
    BY <1>0, <1>1, <1>2 DEF LogInv, LogTypes
  <1>h. MapHeld'
    BY <1>0, <1>1 DEF LogInv, MapHeld, LogTypes
  <1>w. WriterPlace'
    BY <1>0, <1>1 DEF LogInv, WriterPlace, LogTypes
  <1>m. MapContent'
    <2>1. pc[MAIN] # "done"
      BY <1>1, MainNotDone
    <2> SUFFICES ASSUME NEW n \in Handles
                 PROVE  log'[n] = IF IsLogged(n)' THEN n ELSE NULL
      BY DEF MapContent
    <2>2. CASE n = lsn
      BY <1>0, <1>1, <2>1, <2>2 DEF IsLogged, LogInv, LogTypes
    <2>3. CASE n # lsn
      <3>1. log'[n] = log[n] /\ (IsLogged(n)' <=> IsLogged(n))
        BY <1>0, <1>1, <2>3 DEF IsLogged, LogInv, LogTypes
      <3> QED
        BY <3>1 DEF LogInv, MapContent
    <2> QED
      BY <2>2, <2>3
  <1>r. ReaderPlace'
    BY <1>0, <1>1 DEF LogInv, ReaderPlace, LogTypes
  <1>c. ChunksCounted'
    <2> SUFFICES ASSUME NEW n \in Handles PROVE ChunkCounted(n)'
      BY DEF ChunksCounted
    <2>1. handle'[n] = handle[n] /\ Holding(n)' = Holding(n)
      BY <1>0, <1>1 DEF Holding
    <2>2. (IsSealed(n)' <=> IsSealed(n)) /\ (IsFilling(n)' <=> IsFilling(n))
      BY <1>0, <1>1 DEF IsSealed, IsFilling, LogInv, LogTypes
    <2> QED
      BY <2>1, <2>2, SameChunk
  <1> QED
    BY <1>t, <1>h, <1>w, <1>m, <1>r, <1>c DEF LogInv

\* The high-water mark stays below the next LSN.
LEMMA PublishKeeps ==
  ASSUME LogInv, WriterPublish
  PROVE  LogInv'
  <1>0. MAIN \in Everyone /\ WRITER \in Everyone /\ Readers \subseteq Everyone
    BY DEF Everyone
  <1>1. /\ pc[WRITER] = "publish" /\ pc' = [pc EXCEPT ![WRITER] = "loop"]
        /\ UNCHANGED <<handle, log, holders, running, target, chunk>>
        /\ high_water' = lsn /\ lsn' = lsn + 1
    BY DEF WriterPublish, Goto
  <1>t. LogTypes'
    BY <1>0, <1>1 DEF LogInv, LogTypes
  <1>h. MapHeld'
    BY <1>0, <1>1 DEF LogInv, MapHeld, LogTypes
  <1>w. WriterPlace'
    BY <1>0, <1>1 DEF LogInv, WriterPlace, LogTypes
  <1>m. MapContent'
    BY <1>0, <1>1 DEF LogInv, MapContent, IsLogged, LogTypes
  <1>2. high_water <= lsn /\ high_water \in Nat /\ lsn \in Nat
    BY DEF LogInv, WriterPlace, LogTypes
  <1>r. ReaderPlace'
    BY <1>0, <1>1, <1>2 DEF LogInv, ReaderPlace, LogTypes
  <1>c. ChunksCounted'
    <2> SUFFICES ASSUME NEW n \in Handles PROVE ChunkCounted(n)'
      BY DEF ChunksCounted
    <2>1. handle'[n] = handle[n] /\ Holding(n)' = Holding(n)
      BY <1>0, <1>1 DEF Holding
    <2>2. (IsSealed(n)' <=> IsSealed(n)) /\ (IsFilling(n)' <=> IsFilling(n))
      BY <1>0, <1>1 DEF IsSealed, IsFilling, LogInv, LogTypes
    <2> QED
      BY <2>1, <2>2, SameChunk
  <1> QED
    BY <1>t, <1>h, <1>w, <1>m, <1>r, <1>c DEF LogInv

\* The writer lets go of the map, which main still has.
LEMMA WriterExitKeeps ==
  ASSUME LogInv, WriterExit
  PROVE  LogInv'
  <1>0. MAIN \in Everyone /\ WRITER \in Everyone /\ Readers \subseteq Everyone
    BY DEF Everyone
  <1>1. /\ pc[WRITER] = "loop" /\ pc' = [pc EXCEPT ![WRITER] = "done"]
        /\ UNCHANGED <<high_water, running, lsn, target, chunk>>
        /\ DropMap(WRITER)
    BY DEF WriterExit, Goto
  <1>2. pc[MAIN] \notin {"drop", "done"} /\ MAIN \in holders
    BY <1>0, <1>1 DEF LogInv, MapHeld, LogTypes
  <1>3. holders' = holders \ {WRITER} /\ UNCHANGED <<log, handle>>
    BY <1>1, <1>2 DEF DropMap
  <1>t. LogTypes'
    BY <1>0, <1>1, <1>2, <1>3 DEF LogInv, LogTypes
  <1>h. MapHeld'
    BY <1>0, <1>1, <1>2, <1>3 DEF LogInv, MapHeld, LogTypes
  <1>w. WriterPlace'
    BY <1>0, <1>1, <1>2, <1>3 DEF LogInv, WriterPlace, LogTypes
  <1>m. MapContent'
    BY <1>0, <1>1, <1>2, <1>3 DEF LogInv, MapContent, IsLogged, LogTypes
  <1>r. ReaderPlace'
    BY <1>0, <1>1, <1>2, <1>3 DEF LogInv, ReaderPlace, LogTypes
  <1>c. ChunksCounted'
    <2> SUFFICES ASSUME NEW n \in Handles PROVE ChunkCounted(n)'
      BY DEF ChunksCounted
    <2>1. handle'[n] = handle[n] /\ Holding(n)' = Holding(n)
      BY <1>0, <1>1, <1>2, <1>3 DEF Holding
    <2>2. (IsSealed(n)' <=> IsSealed(n)) /\ (IsFilling(n)' <=> IsFilling(n))
      BY <1>0, <1>1, <1>2, <1>3 DEF IsSealed, IsFilling, LogInv, LogTypes
    <2> QED
      BY <2>1, <2>2, SameChunk
  <1> QED
    BY <1>t, <1>h, <1>w, <1>m, <1>r, <1>c DEF LogInv

-----------------------------------------------------------------------------
(* Steps of a reader.                                                      *)

\* A reader that looks at running changes nothing else.
LEMMA CheckKeeps ==
  ASSUME LogInv, NEW r \in Readers, ReaderCheck(r)
  PROVE  LogInv'
  <1>0. MAIN \in Everyone /\ WRITER \in Everyone /\ Readers \subseteq Everyone
    BY DEF Everyone
  <1>1. /\ pc[r] = "loop" /\ pc' = [pc EXCEPT ![r] = "load"]
        /\ UNCHANGED <<handle, log, holders, high_water, running, lsn, target, chunk>>
    BY DEF ReaderCheck, Goto
  <1>t. LogTypes'
    BY <1>0, <1>1 DEF LogInv, LogTypes
  <1>h. MapHeld'
    BY <1>0, <1>1 DEF LogInv, MapHeld, LogTypes
  <1>w. WriterPlace'
    BY <1>0, <1>1 DEF LogInv, WriterPlace, LogTypes
  <1>m. MapContent'
    BY <1>0, <1>1 DEF LogInv, MapContent, IsLogged, LogTypes
  <1>r. ReaderPlace'
    BY <1>0, <1>1 DEF LogInv, ReaderPlace, LogTypes
  <1>c. ChunksCounted'
    <2> SUFFICES ASSUME NEW n \in Handles PROVE ChunkCounted(n)'
      BY DEF ChunksCounted
    <2>1. handle'[n] = handle[n] /\ Holding(n)' = Holding(n)
      BY <1>0, <1>1 DEF Holding
    <2>2. (IsSealed(n)' <=> IsSealed(n)) /\ (IsFilling(n)' <=> IsFilling(n))
      BY <1>0, <1>1 DEF IsSealed, IsFilling, LogInv, LogTypes
    <2> QED
      BY <2>1, <2>2, SameChunk
  <1> QED
    BY <1>t, <1>h, <1>w, <1>m, <1>r, <1>c DEF LogInv

\* A reader goes after a record below the mark it loaded.
LEMMA LoadKeeps ==
  ASSUME LogInv, NEW r \in Readers, ReaderLoad(r)
  PROVE  LogInv'
  <1>0. MAIN \in Everyone /\ WRITER \in Everyone /\ Readers \subseteq Everyone
    BY DEF Everyone
  <1>1. /\ pc[r] = "load"
        /\ \/ pc' = [pc EXCEPT ![r] = "loop"] /\ UNCHANGED target
           \/ /\ pc' = [pc EXCEPT ![r] = "get"]
              /\ \E n \in 0 .. high_water - 1 : target' = [target EXCEPT ![r] = n]
        /\ UNCHANGED <<handle, log, holders, high_water, running, lsn, chunk>>
    BY DEF ReaderLoad, Goto
  <1>2. target' \in [Readers -> Nat] /\ pc' \in [Everyone -> {"sleep", "join", "drop", "loop",
            "fill", "insert", "publish", "load", "get", "read", "done"}]
    BY <1>0, <1>1 DEF LogInv, LogTypes
  <1>3. pc'[MAIN] = pc[MAIN] /\ pc'[WRITER] = pc[WRITER]
        /\ \A x \in Readers : pc'[x] \in {"loop", "load", "get", "read", "done"}
    BY <1>0, <1>1 DEF LogInv, LogTypes
  <1>t. LogTypes'
    BY <1>0, <1>1, <1>2, <1>3 DEF LogInv, LogTypes
  <1>h. MapHeld'
    BY <1>0, <1>1 DEF LogInv, MapHeld, LogTypes
  <1>w. WriterPlace'
    BY <1>0, <1>1 DEF LogInv, WriterPlace, LogTypes
  <1>m. MapContent'
    BY <1>0, <1>1 DEF LogInv, MapContent, IsLogged, LogTypes
  <1>r. ReaderPlace'
    BY <1>0, <1>1 DEF LogInv, ReaderPlace, LogTypes
  <1>c. ChunksCounted'
    <2> SUFFICES ASSUME NEW n \in Handles PROVE ChunkCounted(n)'
      BY DEF ChunksCounted
    <2>1. handle'[n] = handle[n] /\ Holding(n)' = Holding(n)
      BY <1>0, <1>1 DEF Holding
    <2>2. (IsSealed(n)' <=> IsSealed(n)) /\ (IsFilling(n)' <=> IsFilling(n))
      BY <1>0, <1>1 DEF IsSealed, IsFilling, LogInv, LogTypes
    <2> QED
      BY <2>1, <2>2, SameChunk
  <1> QED
    BY <1>t, <1>h, <1>w, <1>m, <1>r, <1>c DEF LogInv

\* A reader's clone is counted.
LEMMA GetKeeps ==
  ASSUME LogInv, NEW r \in Readers, ReaderGet(r)
  PROVE  LogInv'
  <1>0. MAIN \in Everyone /\ WRITER \in Everyone /\ Readers \subseteq Everyone
    BY DEF Everyone
  <1>1. /\ pc[r] = "get"
        /\ UNCHANGED <<log, holders, high_water, running, lsn, target>>
    BY DEF ReaderGet, Goto
  <1>2. /\ target[r] < high_water /\ target[r] \in Nat /\ target[r] \in Handles
        /\ target[r] < lsn /\ pc[MAIN] # "done"
    BY <1>0, <1>1 DEF LogInv, ReaderPlace, WriterPlace, LogTypes, MapHeld
  <1>3. log[target[r]] = target[r] /\ target[r] # NULL /\ IsSealed(target[r])
    BY <1>2 DEF LogInv, MapContent, IsLogged, IsSealed
  <1> DEFINE k == 1 + Cardinality(Holding(target[r]))
  <1>4. k \in Nat /\ handle[target[r]] = SealedRecord(target[r], k)
    BY <1>2, <1>3, HoldingCounted DEF LogInv, ChunksCounted, ChunkCounted
  <1>5. /\ pc' = [pc EXCEPT ![r] = "read"] /\ chunk' = [chunk EXCEPT ![r] = target[r]]
        /\ handle' = [handle EXCEPT ![target[r]] = SealedRecord(target[r], k + 1)]
    <2>1. /\ pc' = [pc EXCEPT ![r] = "read"] /\ chunk' = [chunk EXCEPT ![r] = target[r]]
          /\ handle' = [handle EXCEPT ![target[r]] = [handle[target[r]] EXCEPT !.refs = @ + 1]]
      BY <1>3 DEF ReaderGet, Goto, Share, Becomes
    <2> HIDE DEF k
    <2>2. [SealedRecord(target[r], k) EXCEPT !.refs = @ + 1] = SealedRecord(target[r], k + 1)
      BY <1>4, CountChanges
    <2> QED
      BY <1>4, <2>1, <2>2
  <1>6. chunk[r] = NULL /\ Holding(target[r])' = Holding(target[r]) \cup {r}
        /\ r \notin Holding(target[r])
    BY <1>1, <1>3, <1>5 DEF LogInv, ReaderPlace, Holding, LogTypes
  <1>7. Cardinality(Holding(target[r])') = k
    <2>1. IsFiniteSet(Holding(target[r])) /\ Cardinality(Holding(target[r])) \in Nat
      BY HoldingCounted
    <2>2. Cardinality(Holding(target[r]) \cup {r}) = Cardinality(Holding(target[r])) + 1
      BY <1>6, <2>1, FS_AddElement
    <2> QED
      BY <1>6, <2>1, <2>2
  <1>8. ASSUME NEW n \in Handles, n # target[r]
        PROVE  Holding(n)' = Holding(n)
    BY <1>1, <1>5, <1>6, <1>8 DEF Holding, LogInv, LogTypes
  <1> HIDE DEF k
  <1>t. LogTypes'
    BY <1>0, <1>1, <1>2, <1>5 DEF LogInv, LogTypes
  <1>h. MapHeld'
    BY <1>0, <1>1, <1>2, <1>5 DEF LogInv, MapHeld, LogTypes
  <1>w. WriterPlace'
    BY <1>0, <1>1, <1>2, <1>5 DEF LogInv, WriterPlace, LogTypes
  <1>m. MapContent'
    BY <1>0, <1>1, <1>2, <1>5 DEF LogInv, MapContent, IsLogged, LogTypes
  <1>r. ReaderPlace'
    BY <1>0, <1>1, <1>2, <1>5 DEF LogInv, ReaderPlace, LogTypes
  <1>9. \A n \in Handles : (IsSealed(n)' <=> IsSealed(n)) /\ (IsFilling(n)' <=> IsFilling(n))
    BY <1>0, <1>1, <1>5 DEF IsSealed, IsFilling, LogInv, LogTypes
  <1>c. ChunksCounted'
    <2> SUFFICES ASSUME NEW n \in Handles PROVE ChunkCounted(n)'
      BY DEF ChunksCounted
    <2>1. CASE n = target[r]
      <3>1. handle'[n] = SealedRecord(n, 1 + k)
        BY <1>2, <1>4, <1>5, <2>1 DEF LogInv, LogTypes
      <3>2. IsSealed(n)' /\ ~IsFilling(n)'
        BY <1>2, <1>3, <1>9, <2>1 DEF IsFilling, LogInv, LogTypes
      <3>3. Cardinality(Holding(n)') = k
        BY <1>1, <1>7, <2>1
      <3> QED
        BY <3>1, <3>2, <3>3 DEF ChunkCounted
    <2>2. CASE n # target[r]
      <3>1. handle'[n] = handle[n]
        BY <1>2, <1>5, <2>2 DEF LogInv, LogTypes
      <3> QED
        BY <1>8, <1>9, <2>2, <3>1, SameChunk
    <2> QED
      BY <2>1, <2>2
  <1> QED
    BY <1>t, <1>h, <1>w, <1>m, <1>r, <1>c DEF LogInv

\* A reader's clone is never the last reference: the map has another.
LEMMA DropKeeps ==
  ASSUME LogInv, NEW r \in Readers, ReaderDrop(r)
  PROVE  LogInv'
  <1>0. MAIN \in Everyone /\ WRITER \in Everyone /\ Readers \subseteq Everyone
    BY DEF Everyone
  <1>1. /\ pc[r] = "read" /\ pc' = [pc EXCEPT ![r] = "loop"] /\ chunk' = [chunk EXCEPT ![r] = NULL]
        /\ UNCHANGED <<log, holders, high_water, running, lsn, target>>
    BY DEF ReaderDrop, Goto
  <1>2. /\ target[r] < high_water /\ target[r] \in Nat /\ target[r] \in Handles
        /\ target[r] < lsn /\ pc[MAIN] # "done"
    BY <1>0, <1>1 DEF LogInv, ReaderPlace, WriterPlace, LogTypes, MapHeld
  <1>3. log[target[r]] = target[r] /\ target[r] # NULL /\ IsSealed(target[r])
    BY <1>2 DEF LogInv, MapContent, IsLogged, IsSealed
  <1> DEFINE k == 1 + Cardinality(Holding(target[r]))
  <1>4. k \in Nat /\ handle[target[r]] = SealedRecord(target[r], k)
    BY <1>2, <1>3, HoldingCounted DEF LogInv, ChunksCounted, ChunkCounted
  <1>5. chunk[r] = target[r] /\ r \in Holding(target[r])
        /\ Holding(target[r])' = Holding(target[r]) \ {r}
    BY <1>1, <1>3 DEF LogInv, ReaderPlace, Holding, LogTypes
  <1>6. Cardinality(Holding(target[r])') = k - 2 /\ Cardinality(Holding(target[r])') \in Nat
    BY <1>5, HoldingCounted, FS_RemoveElement, FS_CardinalityType
  <1>7. ASSUME NEW n \in Handles, n # target[r]
        PROVE  Holding(n)' = Holding(n)
    BY <1>1, <1>3, <1>5, <1>7 DEF Holding, LogInv, LogTypes
  <1> HIDE DEF k
  <1>8. handle' = [handle EXCEPT ![target[r]] = SealedRecord(target[r], k - 1)]
    <2>1. handle[target[r]].refs = k
      BY <1>4 DEF SealedRecord
    <2>2. handle' = [handle EXCEPT ![target[r]] = [handle[target[r]] EXCEPT !.refs = @ - 1]]
      BY <1>4, <1>5, <1>6, <2>1 DEF ReaderDrop, Unshare, Discard, Becomes
    <2>3. [SealedRecord(target[r], k) EXCEPT !.refs = @ - 1] = SealedRecord(target[r], k - 1)
      BY <1>4, CountChanges
    <2> QED
      BY <1>4, <2>2, <2>3
  <1>t. LogTypes'
    BY <1>0, <1>1, <1>8 DEF LogInv, LogTypes
  <1>h. MapHeld'
    BY <1>0, <1>1 DEF LogInv, MapHeld, LogTypes
  <1>w. WriterPlace'
    BY <1>0, <1>1 DEF LogInv, WriterPlace, LogTypes
  <1>m. MapContent'
    BY <1>0, <1>1 DEF LogInv, MapContent, IsLogged, LogTypes
  <1>r. ReaderPlace'
    BY <1>0, <1>1 DEF LogInv, ReaderPlace, LogTypes
  <1>9. \A n \in Handles : (IsSealed(n)' <=> IsSealed(n)) /\ (IsFilling(n)' <=> IsFilling(n))
    BY <1>0, <1>1 DEF IsSealed, IsFilling, LogInv, LogTypes
  <1>c. ChunksCounted'
    <2> SUFFICES ASSUME NEW n \in Handles PROVE ChunkCounted(n)'
      BY DEF ChunksCounted
    <2>1. CASE n = target[r]
      <3>1. handle'[n] = SealedRecord(n, k - 1)
        BY <1>2, <1>8, <2>1 DEF LogInv, LogTypes
      <3>2. IsSealed(n)' /\ ~IsFilling(n)'
        BY <1>2, <1>3, <1>9, <2>1 DEF IsFilling, LogInv, LogTypes
      <3>3. 1 + Cardinality(Holding(n)') = k - 1
        BY <1>1, <1>4, <1>6, <2>1
      <3> QED
        BY <3>1, <3>2, <3>3 DEF ChunkCounted
    <2>2. CASE n # target[r]
      <3>1. handle'[n] = handle[n]
        BY <1>2, <1>8, <2>2 DEF LogInv, LogTypes
      <3> QED
        BY <1>7, <1>9, <2>2, <3>1, SameChunk
    <2> QED
      BY <2>1, <2>2
  <1> QED
    BY <1>t, <1>h, <1>w, <1>m, <1>r, <1>c DEF LogInv

\* A reader lets go of the map, which main still has.
LEMMA ReaderExitKeeps ==
  ASSUME LogInv, NEW r \in Readers, ReaderExit(r)
  PROVE  LogInv'
  <1>0. MAIN \in Everyone /\ WRITER \in Everyone /\ Readers \subseteq Everyone
    BY DEF Everyone
  <1>1. /\ pc[r] = "loop" /\ pc' = [pc EXCEPT ![r] = "done"]
        /\ UNCHANGED <<high_water, running, lsn, target, chunk>>
        /\ DropMap(r)
    BY DEF ReaderExit, Goto
  <1>2. pc[MAIN] \notin {"drop", "done"} /\ MAIN \in holders
    BY <1>0, <1>1 DEF LogInv, MapHeld, Everyone, LogTypes
  <1>3. holders' = holders \ {r} /\ UNCHANGED <<log, handle>>
    BY <1>1, <1>2 DEF DropMap
  <1>t. LogTypes'
    BY <1>0, <1>1, <1>2, <1>3 DEF LogInv, LogTypes
  <1>h. MapHeld'
    BY <1>0, <1>1, <1>2, <1>3 DEF LogInv, MapHeld, LogTypes
  <1>w. WriterPlace'
    BY <1>0, <1>1, <1>2, <1>3 DEF LogInv, WriterPlace, LogTypes
  <1>m. MapContent'
    BY <1>0, <1>1, <1>2, <1>3 DEF LogInv, MapContent, IsLogged, LogTypes
  <1>r. ReaderPlace'
    BY <1>0, <1>1, <1>2, <1>3 DEF LogInv, ReaderPlace, LogTypes
  <1>c. ChunksCounted'
    <2> SUFFICES ASSUME NEW n \in Handles PROVE ChunkCounted(n)'
      BY DEF ChunksCounted
    <2>1. handle'[n] = handle[n] /\ Holding(n)' = Holding(n)
      BY <1>0, <1>1, <1>2, <1>3 DEF Holding
    <2>2. (IsSealed(n)' <=> IsSealed(n)) /\ (IsFilling(n)' <=> IsFilling(n))
      BY <1>0, <1>1, <1>2, <1>3 DEF IsSealed, IsFilling, LogInv, LogTypes
    <2> QED
      BY <2>1, <2>2, SameChunk
  <1> QED
    BY <1>t, <1>h, <1>w, <1>m, <1>r, <1>c DEF LogInv

-----------------------------------------------------------------------------
(* Steps of main.                                                          *)

\* Clearing running leaves the log alone.
LEMMA StopKeeps ==
  ASSUME LogInv, Stop
  PROVE  LogInv'
  <1>0. MAIN \in Everyone /\ WRITER \in Everyone /\ Readers \subseteq Everyone
    BY DEF Everyone
  <1>1. /\ pc[MAIN] = "sleep" /\ pc' = [pc EXCEPT ![MAIN] = "join"]
        /\ UNCHANGED <<handle, log, holders, high_water, lsn, target, chunk>>
    BY DEF Stop, Goto
  <1>t. LogTypes'
    BY <1>0, <1>1 DEF LogInv, LogTypes
  <1>h. MapHeld'
    BY <1>0, <1>1 DEF LogInv, MapHeld, LogTypes
  <1>w. WriterPlace'
    BY <1>0, <1>1 DEF LogInv, WriterPlace, LogTypes
  <1>m. MapContent'
    BY <1>0, <1>1 DEF LogInv, MapContent, IsLogged, LogTypes
  <1>r. ReaderPlace'
    BY <1>0, <1>1 DEF LogInv, ReaderPlace, LogTypes
  <1>c. ChunksCounted'
    <2> SUFFICES ASSUME NEW n \in Handles PROVE ChunkCounted(n)'
      BY DEF ChunksCounted
    <2>1. handle'[n] = handle[n] /\ Holding(n)' = Holding(n)
      BY <1>0, <1>1 DEF Holding
    <2>2. (IsSealed(n)' <=> IsSealed(n)) /\ (IsFilling(n)' <=> IsFilling(n))
      BY <1>0, <1>1 DEF IsSealed, IsFilling, LogInv, LogTypes
    <2> QED
      BY <2>1, <2>2, SameChunk
  <1> QED
    BY <1>t, <1>h, <1>w, <1>m, <1>r, <1>c DEF LogInv

\* After the joins every other thread has ended.
LEMMA JoinKeeps ==
  ASSUME LogInv, Join
  PROVE  LogInv'
  <1>0. MAIN \in Everyone /\ WRITER \in Everyone /\ Readers \subseteq Everyone
    BY DEF Everyone
  <1>1. /\ pc[MAIN] = "join" /\ pc' = [pc EXCEPT ![MAIN] = "drop"]
        /\ \A x \in {WRITER} \cup Readers : pc[x] = "done"
        /\ UNCHANGED <<handle, log, holders, high_water, running, lsn, target, chunk>>
    BY DEF Join, Goto
  <1>t. LogTypes'
    BY <1>0, <1>1 DEF LogInv, LogTypes
  <1>h. MapHeld'
    BY <1>0, <1>1 DEF LogInv, MapHeld, LogTypes, Everyone
  <1>w. WriterPlace'
    BY <1>0, <1>1 DEF LogInv, WriterPlace, LogTypes
  <1>m. MapContent'
    BY <1>0, <1>1 DEF LogInv, MapContent, IsLogged, LogTypes
  <1>r. ReaderPlace'
    BY <1>0, <1>1 DEF LogInv, ReaderPlace, LogTypes
  <1>c. ChunksCounted'
    <2> SUFFICES ASSUME NEW n \in Handles PROVE ChunkCounted(n)'
      BY DEF ChunksCounted
    <2>1. handle'[n] = handle[n] /\ Holding(n)' = Holding(n)
      BY <1>0, <1>1 DEF Holding
    <2>2. (IsSealed(n)' <=> IsSealed(n)) /\ (IsFilling(n)' <=> IsFilling(n))
      BY <1>0, <1>1 DEF IsSealed, IsFilling, LogInv, LogTypes
    <2> QED
      BY <2>1, <2>2, SameChunk
  <1> QED
    BY <1>t, <1>h, <1>w, <1>m, <1>r, <1>c DEF LogInv

\* main is the last to hold the map, and each record in it has one reference left.
LEMMA DropLogKeeps ==
  ASSUME LogInv, DropLog
  PROVE  LogInv'
  <1>0. MAIN \in Everyone /\ WRITER \in Everyone /\ Readers \subseteq Everyone
    BY DEF Everyone
  <1>1. /\ pc[MAIN] = "drop" /\ pc' = [pc EXCEPT ![MAIN] = "done"]
        /\ UNCHANGED <<high_water, running, lsn, target, chunk>>
        /\ DropMap(MAIN)
    BY DEF DropLog, Goto
  <1>2. /\ pc[WRITER] = "done" /\ \A r \in Readers : pc[r] = "done"
        /\ holders = {MAIN}
    BY <1>0, <1>1 DEF LogInv, MapHeld, LogTypes, Everyone
  <1> DEFINE InMap == {log[n] : n \in Handles} \ {NULL}
  <1>3. /\ log' = [n \in Handles |-> NULL] /\ holders' = {}
        /\ handle' = [h \in Handles |->
             IF h \notin InMap THEN handle[h]
             ELSE IF handle[h].refs = 1 THEN NoHandle
             ELSE [handle[h] EXCEPT !.refs = @ - 1]]
    BY <1>1, <1>2 DEF DropMap
  <1>4. ASSUME NEW n \in Handles
        PROVE  handle'[n] = NoHandle
    <2>1. CASE n < lsn
      <3>1. IsLogged(n) /\ IsSealed(n) /\ log[n] = n /\ n # NULL
        BY <1>1, <2>1 DEF IsLogged, IsSealed, LogInv, MapContent
      <3>2. n \in InMap
        BY <3>1
      <3>3. Holding(n) = {}
        BY <1>2, <3>1 DEF LogInv, ReaderPlace, Holding
      <3>4. Cardinality(Holding(n)) = 0
        BY <3>3, FS_EmptySet
      <3>5. handle[n] = SealedRecord(n, 1)
        BY <3>1, <3>4 DEF LogInv, ChunksCounted, ChunkCounted
      <3>6. handle[n].refs = 1
        BY <3>5 DEF SealedRecord
      <3> HIDE DEF InMap
      <3> QED
        BY <1>3, <3>2, <3>6
    <2>2. CASE ~(n < lsn)
      <3>1. ~IsLogged(n) /\ ~IsSealed(n) /\ ~IsFilling(n)
        BY <1>2, <2>2 DEF IsLogged, IsSealed, IsFilling
      <3>2. handle[n] = NoHandle
        BY <3>1 DEF LogInv, ChunksCounted, ChunkCounted
      <3>3. \A m \in Handles : log[m] \in {m, NULL}
        BY DEF LogInv, MapContent
      <3>4. n \notin InMap
        BY <3>1, <3>3 DEF LogInv, MapContent
      <3> HIDE DEF InMap
      <3> QED
        BY <1>3, <3>2, <3>4
    <2> QED
      BY <2>1, <2>2
  <1>5. handle' = [n \in Handles |-> NoHandle]
    <2> HIDE DEF InMap
    <2> QED BY <1>3, <1>4
  <1> HIDE DEF InMap
  <1>t. LogTypes'
    BY <1>0, <1>1, <1>2, <1>3, <1>5 DEF LogInv, LogTypes
  <1>h. MapHeld'
    BY <1>0, <1>1, <1>2, <1>3, <1>5 DEF LogInv, MapHeld, LogTypes
  <1>w. WriterPlace'
    BY <1>0, <1>1, <1>2, <1>3, <1>5 DEF LogInv, WriterPlace, LogTypes
  <1>m. MapContent'
    BY <1>0, <1>1, <1>2, <1>3, <1>5 DEF LogInv, MapContent, IsLogged, LogTypes
  <1>r. ReaderPlace'
    BY <1>0, <1>1, <1>2, <1>3, <1>5 DEF LogInv, ReaderPlace, LogTypes
  <1>c. ChunksCounted'
    <2> SUFFICES ASSUME NEW n \in Handles PROVE ChunkCounted(n)'
      BY DEF ChunksCounted
    <2>1. ~IsSealed(n)' /\ ~IsFilling(n)'
      BY <1>0, <1>1, <1>2 DEF IsSealed, IsFilling, LogInv, LogTypes
    <2> QED
      BY <1>5, <2>1 DEF ChunkCounted
  <1> QED
    BY <1>t, <1>h, <1>w, <1>m, <1>r, <1>c DEF LogInv

\* Every step keeps the invariant.
LEMMA LogNextKeeps == LogInv /\ [LogNext]_lvars => LogInv'
  <1> SUFFICES ASSUME LogInv, [LogNext]_lvars PROVE LogInv'
    OBVIOUS
  <1>1. CASE UNCHANGED lvars
    <2>1. (LogTypes /\ MapHeld /\ WriterPlace /\ MapContent /\ ReaderPlace)'
      BY <1>1 DEF lvars, LogInv, LogTypes, MapHeld, WriterPlace, MapContent, ReaderPlace, IsLogged
    <2>2. ASSUME NEW n \in Handles PROVE ChunkCounted(n)'
      <3>1. handle'[n] = handle[n] /\ Holding(n)' = Holding(n)
        BY <1>1 DEF lvars, Holding
      <3>2. (IsSealed(n)' <=> IsSealed(n)) /\ (IsFilling(n)' <=> IsFilling(n))
        BY <1>1 DEF lvars, IsSealed, IsFilling
      <3> QED
        BY <3>1, <3>2, SameChunk
    <2> QED
      BY <2>1, <2>2 DEF LogInv, ChunksCounted
  <1>2. CASE Main
    BY <1>2, StopKeeps, JoinKeeps, DropLogKeeps DEF Main
  <1>3. CASE Writer
    BY <1>3, AllocateKeeps, FillKeeps, InsertKeeps, PublishKeeps, WriterExitKeeps DEF Writer
  <1>4. ASSUME NEW r \in Readers, Reader(r) PROVE LogInv'
    BY <1>4, CheckKeeps, LoadKeeps, GetKeeps, DropKeeps, ReaderExitKeeps DEF Reader
  <1> QED
    BY <1>1, <1>2, <1>3, <1>4 DEF LogNext, Exited

-----------------------------------------------------------------------------
(* The theorems.                                                           *)

\* In every state of the program each chunk is where LogInv says: with the
\* writer, in the map with one reference per clone, or gone.
THEOREM LogSound == LogSpec => []LogInv
  <1>1. LogInit /\ [][LogNext]_lvars => []LogInv
    BY LogInitInv, LogNextKeeps, PTL
  <1> QED
    BY <1>1, PTL DEF LogSpec

\* The mark never runs ahead of the map, and the None of the readers' get is
\* never seen: what high_water published has been inserted, and main is the last
\* to drop the map.
THEOREM PublishedRecordsAreThere == LogSpec => []PublishedIsThere
  <1>1. ASSUME LogInv, high_water # 0, holders # {}, NEW n \in 0 .. high_water
        PROVE  log[n] # NULL
    <2>1. pc[MAIN] # "done"
      BY <1>1 DEF LogInv, MapHeld, Everyone
    <2>2. n \in Handles /\ n < lsn
      BY <1>1, LogAssumption DEF LogInv, WriterPlace, LogTypes
    <2> QED
      BY <1>1, <2>1, <2>2, LogAssumption DEF LogInv, MapContent, IsLogged
  <1>2. ASSUME LogInv, NEW r \in Readers, pc[r] = "get"
        PROVE  log[target[r]] # NULL
    <2>1. r \in Everyone
      BY DEF Everyone
    <2>2. target[r] \in Handles /\ target[r] < lsn /\ pc[MAIN] # "done"
      BY <1>2, <2>1 DEF LogInv, ReaderPlace, WriterPlace, LogTypes, MapHeld
    <2> QED
      BY <1>2, <2>2 DEF LogInv, MapContent, IsLogged
  <1>3. LogInv => PublishedIsThere
    BY <1>1, <1>2 DEF PublishedIsThere
  <1> QED
    BY <1>3, LogSound, PTL

\* A reader's clone reads as the record it asked for as long as it holds it,
\* however many readers clone and drop it meanwhile.
THEOREM ReadersSeeRecords == LogSpec => []ReadersSeeTheRecord
  <1>1. LogInv => ReadersSeeTheRecord
    <2> SUFFICES ASSUME LogInv, NEW r \in Readers, pc[r] = "read"
                 PROVE  View(chunk[r]) = Pattern(target[r])
      BY DEF ReadersSeeTheRecord
    <2>1. r \in Everyone
      BY DEF Everyone
    <2>2. /\ target[r] \in Handles /\ target[r] < lsn /\ pc[MAIN] # "done"
          /\ chunk[r] = target[r]
      BY <2>1 DEF LogInv, ReaderPlace, WriterPlace, LogTypes, MapHeld
    <2>3. handle[target[r]] = SealedRecord(target[r], 1 + Cardinality(Holding(target[r])))
      BY <2>2 DEF LogInv, ChunksCounted, ChunkCounted, IsSealed
    <2>4. handle[target[r]].len = 1 /\ handle[target[r]].data = <<target[r]>>
      BY <2>3 DEF SealedRecord, Pattern
    <2>5. SubSeq(<<target[r]>>, 1, 1) = <<target[r]>>
      BY <2>2, SingletonView
    <2> QED
      BY <2>2, <2>4, <2>5 DEF View, Pattern
  <1> QED
    BY <1>1, LogSound, PTL

\* When main's drop of the log is over no chunk lives: "Drop the log to observe
\* counters return to 0".
THEOREM NothingIsLeft == LogSpec => []CountersReturnToZero
  <1>1. LogInv => CountersReturnToZero
    <2> SUFFICES ASSUME LogInv, pc[MAIN] = "done", NEW h \in Handles
                 PROVE  handle[h].st = "none"
      BY DEF CountersReturnToZero
    <2>1. WRITER \in Everyone \ {MAIN}
      BY DEF Everyone
    <2>2. ~IsSealed(h) /\ ~IsFilling(h)
      BY <2>1 DEF IsSealed, IsFilling, LogInv, MapHeld
    <2> QED
      BY <2>2 DEF LogInv, ChunksCounted, ChunkCounted, NoHandle
  <1> QED
    BY <1>1, LogSound, PTL
=============================================================================
