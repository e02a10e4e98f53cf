------------------------------- MODULE Chunker ------------------------------
(***************************************************************************)
(* PowerChunker (src/helpers/powerChunking.js): an iterable is cut into    *)
(* chunks that are posted to a PowerPool of inline workers, an array at    *)
(* once, anything else a window of chunks per macrotask.  The pool it      *)
(* returns is used by its caller: drained, paused, terminated.             *)
(*                                                                         *)
(* Items and chunks are numbered in order, so a chunk is its number.  The  *)
(* pool is what PowerPool promises of it: with one task per worker, tasks  *)
(* wait in order for a worker that is free, and a waiting drain() is       *)
(* released when nothing is left.                                          *)
(***************************************************************************)
EXTENDS Integers, Sequences, FiniteSets

LOCAL INSTANCE SequencesExt
LOCAL INSTANCE Functions

CONSTANTS
  Total, ChunkSize,     \* items of the iterable, options.chunkSize
  Window,               \* chunks per macrotask
  HighWaters,           \* what options.highWaterMark may be, 0 for Infinity
  PoolWorkers,          \* workers of the pool
  PoolQueues,           \* what its maxQueueLength may be
  ChunkDrains           \* the drain() calls that can be made

ASSUME ChunkerConstants ==
  /\ {ChunkSize, Window} \subseteq Nat \ {0} /\ Total \in Nat
  /\ HighWaters \subseteq Nat /\ PoolQueues \subseteq Nat
  /\ IsFiniteSet(PoolWorkers) /\ IsFiniteSet(ChunkDrains)

Chunks == 1..(Total + ChunkSize - 1) \div ChunkSize

VARIABLES
  setup,       \* the options, fixed: see ChunkSetups
  pumping,     \* streamIterableIntoPool() has a window to come
  fate,        \* what has become of each chunk
  backlog,     \* the chunks in the pool's queue
  poolState,   \* "running", "paused" or "terminated"
  chunkDrain   \* what has become of each drain()

chunkVars == << setup, pumping, fate, backlog, poolState, chunkDrain >>

\* An array or another iterable, the item whose next() throws (0 without one), and of the
\* pool, whether its queue drops the oldest, and the limits.
ChunkSetups ==
  { s \in [stream : BOOLEAN, broken : 0..Total, evicts : BOOLEAN, high : HighWaters,
           queue : PoolQueues] : s.stream \/ (s.broken = 0 /\ s.high = 0) }

AtWork(f) == {k \in Chunks : f[k] \in {"sent", "run"}}
Fewer(i, j) == IF i < j THEN i ELSE j
Nothing(s) == s.backlog = << >> /\ AtWork(s.fate) = {}

\* The pool's policy drop-oldest lets the head of the queue go for every task that must wait.
OldestOut(s) ==
  IF setup.evicts /\ s.backlog # << >>
  THEN [fate |-> [s.fate EXCEPT ![Head(s.backlog)] = "evicted"], backlog |-> Tail(s.backlog)]
  ELSE s

\* The chunks ks at the end of the queue as far as there is room; the pool refuses the others,
\* which is reported.
Backlogged(s, ks) ==
  LET fit == SubSeq(ks, 1, Fewer(Len(ks), setup.queue - Len(s.backlog)))
  IN  [fate    |-> [k \in Chunks |-> CASE k \in Range(fit) -> "queued"
                                       [] k \in Range(ks) \ Range(fit) -> "reported"
                                       [] OTHER -> s.fate[k]],
       backlog |-> s.backlog \o fit]

FreeWorkers(f) == Cardinality(PoolWorkers) - Cardinality(AtWork(f))

\* pool.postMessage() of the chunks from first to last, one after the other.
PostedFrom(s, first, last) ==
  LET post(t, k) == IF FreeWorkers(t.fate) > 0 THEN [t EXCEPT !.fate[k] = "sent"]
                    ELSE Backlogged(OldestOut(t), << k >>)
  IN  FoldLeft(post, s, [i \in 1..last - first + 1 |-> first + i - 1])

\* pool.postMessageBatch() of the chunks from first to last: those that must wait are queued
\* together, and what does not fit pushes the oldest out once more.
PostedBatch(s, first, last) ==
  LET sent == Fewer(FreeWorkers(s.fate), last - first + 1)
      wait == [i \in 1..last - first + 1 - sent |-> first + sent + i - 1]
      each == FoldLeft(LAMBDA t, k : OldestOut(t),
                       [s EXCEPT !.fate = [k \in Chunks |-> IF k \in first..first + sent - 1
                                                            THEN "sent" ELSE s.fate[k]]], wait)
      over == [i \in 1..Len(each.backlog) + Len(wait) - setup.queue |-> i]
  IN  Backlogged(FoldLeft(LAMBDA t, i : OldestOut(t), each, over), wait)

\* dispatchArrayChunksInWindows()
PostedArray(s) ==
  LET n == Cardinality(Chunks)
      window(t, i) == PostedBatch(t, (i - 1) * Window + 1, Fewer(n, i * Window))
  IN  FoldLeft(window, s, [i \in 1..(n + Window - 1) \div Window |-> i])

\* An array is posted before the constructor returns.
ChunkInit ==
  /\ setup \in ChunkSetups
  /\ pumping = setup.stream
  /\ LET none == [fate |-> [k \in Chunks |-> "unread"], backlog |-> << >>]
         all  == IF setup.stream THEN none ELSE PostedArray(none)
     IN  fate = all.fate /\ backlog = all.backlog
  /\ poolState = "running"
  /\ chunkDrain = [d \in ChunkDrains |-> "new"]

-----------------------------------------------------------------------------
(* The pump                                                                *)

Read == {k \in Chunks : fate[k] # "unread"}
Readable == IF setup.broken = 0 THEN Total ELSE setup.broken - 1   \* items before next() throws
Whole == Readable \div ChunkSize                        \* full chunks among them

\* Bug: the queue is not looked at.
NeverSaturated == FALSE

Saturated == setup.high > 0 /\ Len(backlog) >= setup.high

\* pumpWindow(): up to Window full chunks; where the iterable ends, what is left of it is a
\* chunk, and where it throws, that chunk is reported.
PumpWindow ==
  /\ pumping
  /\ LET first == Cardinality(Read) + 1
         rest  == Whole - (first - 1)
         ends  == rest < Window
         full  == PostedFrom([fate |-> fate, backlog |-> backlog], first,
                          first - 1 + IF ends THEN rest ELSE Window)
         after == CASE ~ends \/ Whole + 1 \notin Chunks -> full
                    [] ends /\ Whole + 1 \in Chunks /\ setup.broken # 0 ->
                         [full EXCEPT !.fate[Whole + 1] = "reported"]
                    [] OTHER -> PostedFrom(full, Whole + 1, Whole + 1)
     IN  IF poolState = "terminated" THEN pumping' = FALSE /\ UNCHANGED << fate, backlog >>
         ELSE IF Saturated THEN UNCHANGED << pumping, fate, backlog >>
         ELSE pumping' = ~ends /\ fate' = after.fate /\ backlog' = after.backlog
  /\ UNCHANGED << setup, poolState, chunkDrain >>

-----------------------------------------------------------------------------
(* The pool and its inline workers                                         *)

\* A drain that waits is released when the pool has nothing left to do.
DrainsReleased(s) ==
  [d \in ChunkDrains |->
     IF chunkDrain[d] = "waiting" /\ Nothing(s)
     THEN IF poolState' = "terminated" THEN "cut" ELSE "resolved" ELSE chunkDrain[d]]

\* The worker's macrotask calls fn for every item; one that throws has an error for a result.
RunChunk(k) ==
  /\ fate[k] = "sent" /\ fate' = [fate EXCEPT ![k] = "run"]
  /\ UNCHANGED << setup, pumping, backlog, poolState, chunkDrain >>

\* Its answer frees the worker for the next chunk.
ChunkDone(k) ==
  /\ fate[k] = "run"
  /\ LET done == [fate EXCEPT ![k] = "done"]
         s == IF poolState = "running" /\ backlog # << >>
              THEN [fate |-> [done EXCEPT ![Head(backlog)] = "sent"], backlog |-> Tail(backlog)]
              ELSE [fate |-> done, backlog |-> backlog]
     IN  /\ poolState' = poolState
         /\ fate' = s.fate /\ backlog' = s.backlog /\ chunkDrain' = DrainsReleased(s)
  /\ UNCHANGED << setup, pumping >>

PauseChunks ==
  /\ poolState = "running" /\ poolState' = "paused"
  /\ UNCHANGED << setup, pumping, fate, backlog, chunkDrain >>

ResumeChunks ==
  /\ poolState = "paused" /\ poolState' = "running"
  /\ LET n == Fewer(FreeWorkers(fate), Len(backlog))
     IN  /\ fate' = [k \in Chunks |-> IF \E i \in 1..n : backlog[i] = k THEN "sent" ELSE fate[k]]
         /\ backlog' = SubSeq(backlog, n + 1, Len(backlog))
  /\ UNCHANGED << setup, pumping, chunkDrain >>

\* terminate(): the queue is dropped, and a worker that has not begun its chunk does not.
TerminateChunks ==
  /\ poolState # "terminated" /\ poolState' = "terminated"
  /\ fate' = [k \in Chunks |-> IF fate[k] \in {"queued", "sent", "run"} THEN "lost" ELSE fate[k]]
  /\ backlog' = << >>
  /\ chunkDrain' = DrainsReleased([fate |-> fate', backlog |-> << >>])
  /\ UNCHANGED << setup, pumping >>

-----------------------------------------------------------------------------
(* drain(), which waits for the pump and then for the pool                 *)

PoolDrains(d) ==
  chunkDrain' = [chunkDrain EXCEPT ![d] =
    CASE ~Nothing([fate |-> fate, backlog |-> backlog]) -> "waiting"
      [] poolState = "terminated" -> "cut"
      [] OTHER -> "resolved"]

\* Bug: the pool's own drain() is handed out.
DrainsPoolAtOnce(d) ==
  /\ chunkDrain[d] = "new" /\ PoolDrains(d)
  /\ UNCHANGED << setup, pumping, fate, backlog, poolState >>

DrainChunks(d) ==
  /\ chunkDrain[d] = "new"
  /\ IF setup.stream THEN chunkDrain' = [chunkDrain EXCEPT ![d] = "streaming"] ELSE PoolDrains(d)
  /\ UNCHANGED << setup, pumping, fate, backlog, poolState >>

\* streamed.then(): only now are the options of the drain looked at, a signal that had fired
\* before the call excepted.
DrainGoesOn(d) ==
  /\ chunkDrain[d] = "streaming" /\ ~pumping /\ PoolDrains(d)
  /\ UNCHANGED << setup, pumping, fate, backlog, poolState >>

ChunkNext ==
  \/ PumpWindow \/ PauseChunks \/ ResumeChunks \/ TerminateChunks
  \/ \E k \in Chunks : RunChunk(k) \/ ChunkDone(k)
  \/ \E d \in ChunkDrains : DrainChunks(d) \/ DrainGoesOn(d)

Unreachable == IF setup.broken = 0 THEN {} ELSE {k \in Chunks : (k - 1) * ChunkSize >= setup.broken}

\* drain() means what its callers take it to mean: the whole iterable has been read as far as
\* it can be, and each of its chunks was worked off or reported, unless the pool was told to
\* forget the oldest; and a source that is faster than the pool is held to the high water
\* mark, but for the window under way.
ChunksAreWorkedOff ==
  /\ (\E d \in ChunkDrains : chunkDrain[d] = "resolved") =>
       \A k \in Chunks \ Unreachable :
         fate[k] \in {"done", "reported"} \cup IF setup.evicts THEN {"evicted"} ELSE {}
  /\ ~pumping /\ poolState # "terminated" => \A k \in Chunks \ Unreachable : fate[k] # "unread"
  /\ setup.high > 0 => Len(backlog) < setup.high + Window
=============================================================================
