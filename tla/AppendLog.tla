----------------------------- MODULE AppendLog -----------------------------
(***************************************************************************)
(* The program src/examples/append_log.rs: one writer appends records to a *)
(* log and publishes a high-water mark, readers pick a record below it and *)
(* read it outside the lock, main stops them, joins them and drops the     *)
(* log.  Chunks are those of HandleStore, which ChunkContent implements.   *)
(*                                                                         *)
(* The map is accessed under an RwLock, so an insert is one step and a     *)
(* get with its clone is one step.  high_water and running are Relaxed;    *)
(* the lock orders them: a reader that took the lock before an insert has  *)
(* loaded high_water before the store that follows that insert.            *)
(***************************************************************************)
EXTENDS HandleStore, FiniteSets

CONSTANTS
  Readers,
  MaxLsn,   \* bound: last record the writer writes before main stops it
  NULL, MAIN, WRITER

ASSUME LogAssumption ==
  /\ MaxLsn \in Nat /\ Handles = 0 .. MaxLsn /\ Handles \subseteq Cells
  /\ IsFiniteSet(Readers)
  /\ NULL \notin Handles /\ {MAIN, WRITER} \cap Readers = {} /\ MAIN # WRITER

VARIABLES
  log,         \* the BTreeMap: [Lsn -> a Chunk, or NULL]
  holders,     \* threads with a clone of Arc<RwLock<BTreeMap>>
  high_water, running,
  lsn,         \* the writer's next LSN
  pc,          \* [{MAIN, WRITER} \cup Readers -> place in the code]
  target,      \* [Readers -> LSN it is after]
  chunk        \* [Readers -> its clone of a Chunk, or NULL]

lvars == <<handle, log, holders, high_water, running, lsn, pc, target, chunk>>

Goto(x, from, to) == pc[x] = from /\ pc' = [pc EXCEPT ![x] = to]

\* The bytes of a record: (i ^ lsn) in the code.
Pattern(n) == <<n>>

LogInit ==
  /\ StoreInit
  /\ log = [n \in Handles |-> NULL]
  /\ holders = {MAIN, WRITER} \cup Readers
  /\ high_water = 0 /\ running = TRUE /\ lsn = 0
  /\ pc = [x \in holders |-> IF x = MAIN THEN "sleep" ELSE "loop"]
  /\ target = [r \in Readers |-> 0]
  /\ chunk = [r \in Readers |-> NULL]

\* A thread lets go of its Arc; the last one drops the map and its chunks.
DropMap(x) ==
  /\ holders' = holders \ {x}
  /\ IF holders = {x}
     THEN LET InMap == {log[n] : n \in Handles} \ {NULL}
          IN  /\ log' = [n \in Handles |-> NULL]
              /\ handle' = [h \in Handles |->
                   IF h \notin InMap THEN handle[h]
                   ELSE IF handle[h].refs = 1 THEN NoHandle
                   ELSE [handle[h] EXCEPT !.refs = @ - 1]]
     ELSE UNCHANGED <<log, handle>>

-----------------------------------------------------------------------------
(* Writer.                                                                 *)

\* while running: alloc_with allocates a chunk of whatever bytes ...
WriterAllocate ==
  /\ Goto(WRITER, "loop", "fill")
  /\ running /\ lsn <= MaxLsn
  /\ \E stale \in Cells : Create(lsn, <<stale>>)
  /\ UNCHANGED <<log, holders, high_water, running, lsn, target, chunk>>

\* Mutant: the chunk is sealed as it came.
WriterSealUnfilled ==
  /\ Goto(WRITER, "fill", "insert")
  /\ Complete(lsn, handle[lsn].data, 1)
  /\ UNCHANGED <<log, holders, high_water, running, lsn, target, chunk>>

\* ... fills it and seals it.
WriterFill ==
  /\ Goto(WRITER, "fill", "insert")
  /\ Complete(lsn, Pattern(lsn), 1)
  /\ UNCHANGED <<log, holders, high_water, running, lsn, target, chunk>>

\* Mutant: try_write, and a record whose insert meets a reader is dropped.
WriterTryInsert ==
  /\ Goto(WRITER, "insert", "publish")
  /\ \/ log' = [log EXCEPT ![lsn] = lsn] /\ UNCHANGED handle
     \/ Discard(lsn) /\ UNCHANGED log
  /\ UNCHANGED <<holders, high_water, running, lsn, target, chunk>>

WriterInsert ==
  /\ Goto(WRITER, "insert", "publish")
  /\ log' = [log EXCEPT ![lsn] = lsn]
  /\ UNCHANGED <<handle, holders, high_water, running, lsn, target, chunk>>

WriterPublish ==
  /\ Goto(WRITER, "publish", "loop")
  /\ high_water' = lsn
  /\ lsn' = lsn + 1
  /\ UNCHANGED <<handle, log, holders, running, target, chunk>>

\* The thread ends; its pool goes to main with the result.
WriterExit ==
  /\ Goto(WRITER, "loop", "done")
  /\ ~running
  /\ DropMap(WRITER)
  /\ UNCHANGED <<high_water, running, lsn, target, chunk>>

Writer ==
  WriterAllocate \/ WriterFill \/ WriterInsert \/ WriterPublish \/ WriterExit

-----------------------------------------------------------------------------
(* Readers.                                                                *)

ReaderCheck(r) ==
  /\ running /\ Goto(r, "loop", "load")
  /\ UNCHANGED <<handle, log, holders, high_water, running, lsn, target, chunk>>

\* Mutant: the spin on an empty log does not look at running again.
ReaderSpins(r) ==
  /\ \/ /\ high_water = 0 /\ pc[r] = "load"
        /\ UNCHANGED <<pc, target>>
     \/ /\ high_water # 0
        /\ Goto(r, "load", "get")
        /\ \E n \in 0 .. high_water - 1 : target' = [target EXCEPT ![r] = n]
  /\ UNCHANGED <<handle, log, holders, high_water, running, lsn, chunk>>

\* high_water 0: spin_loop, continue.  Otherwise an LSN in [0, hw).
ReaderLoad(r) ==
  /\ \/ /\ high_water = 0
        /\ Goto(r, "load", "loop")
        /\ UNCHANGED target
     \/ /\ high_water # 0
        /\ Goto(r, "load", "get")
        /\ \E n \in 0 .. high_water - 1 : target' = [target EXCEPT ![r] = n]
  /\ UNCHANGED <<handle, log, holders, high_water, running, lsn, chunk>>

\* log.read().get(&target).cloned(): a clone, or None.
ReaderGet(r) ==
  /\ IF log[target[r]] = NULL
     THEN Goto(r, "get", "loop") /\ UNCHANGED <<handle, chunk>>
     ELSE /\ Goto(r, "get", "read")
          /\ Share(log[target[r]])
          /\ chunk' = [chunk EXCEPT ![r] = log[target[r]]]
  /\ UNCHANGED <<log, holders, high_water, running, lsn, target>>

\* The bytes have been read; the clone is dropped on the reader's thread.
ReaderDrop(r) ==
  /\ Goto(r, "read", "loop")
  /\ Unshare(chunk[r]) \/ Discard(chunk[r])
  /\ chunk' = [chunk EXCEPT ![r] = NULL]
  /\ UNCHANGED <<log, holders, high_water, running, lsn, target>>

ReaderExit(r) ==
  /\ Goto(r, "loop", "done")
  /\ ~running
  /\ DropMap(r)
  /\ UNCHANGED <<high_water, running, lsn, target, chunk>>

Reader(r) ==
  ReaderCheck(r) \/ ReaderLoad(r) \/ ReaderGet(r) \/ ReaderDrop(r) \/ ReaderExit(r)

-----------------------------------------------------------------------------
(* main.                                                                   *)

Stop ==
  /\ Goto(MAIN, "sleep", "join")
  /\ running' = FALSE
  /\ UNCHANGED <<handle, log, holders, high_water, lsn, target, chunk>>

\* Mutant: only the writer is joined.
JoinWriterOnly ==
  /\ Goto(MAIN, "join", "drop")
  /\ pc[WRITER] = "done"
  /\ UNCHANGED <<handle, log, holders, high_water, running, lsn, target, chunk>>

Join ==
  /\ Goto(MAIN, "join", "drop")
  /\ \A x \in {WRITER} \cup Readers : pc[x] = "done"
  /\ UNCHANGED <<handle, log, holders, high_water, running, lsn, target, chunk>>

DropLog ==
  /\ Goto(MAIN, "drop", "done")
  /\ DropMap(MAIN)
  /\ UNCHANGED <<high_water, running, lsn, target, chunk>>

Main == Stop \/ Join \/ DropLog

Exited == (\A x \in DOMAIN pc : pc[x] = "done") /\ UNCHANGED lvars

LogNext == Main \/ Writer \/ (\E r \in Readers : Reader(r)) \/ Exited

\* Every thread keeps running, and main's sleep ends.
LogSpec ==
  /\ LogInit /\ [][LogNext]_lvars
  /\ WF_lvars(Main) /\ WF_lvars(Writer) /\ \A r \in Readers : WF_lvars(Reader(r))

-----------------------------------------------------------------------------
\* The high-water mark never runs ahead of the map: as long as the map exists it
\* has every record up to the mark, so that a reader that looks for one, with a
\* mark it loaded earlier and outside the lock, never sees the None of get.
PublishedIsThere ==
  /\ high_water # 0 /\ holders # {} => \A n \in 0 .. high_water : log[n] # NULL
  /\ \A r \in Readers : pc[r] = "get" => log[target[r]] # NULL

\* What a reader sees through its clone is the record of the LSN it asked for,
\* for as long as it holds the clone.
ReadersSeeTheRecord ==
  \A r \in Readers : pc[r] = "read" => View(chunk[r]) = Pattern(target[r])

\* "Drop the log to observe counters return to 0"
\* (src/examples/append_log.rs:235): when main's drop is over no chunk lives.
\* (chunks_in_use counts the live chunks: ChunkPool's ChunkCountersExact.)
CountersReturnToZero ==
  pc[MAIN] = "done" => \A h \in Handles : handle[h].st = "none"

\* main comes to its end: no thread spins or waits for ever.
LogEnds == <>(pc[MAIN] = "done")
=============================================================================
