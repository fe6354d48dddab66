------------------------------- MODULE AofLog -------------------------------
(***************************************************************************)
(* The append-only file of one reactor: the double buffer of DbSyncEngine  *)
(* (src/include/dbsync_engine.hpp), the batched write of it and the        *)
(* handling of its completion (src/src/main.cpp), crashes, and what        *)
(* recover_from_aof makes of the file.                                     *)
(*                                                                         *)
(* SETs are numbered in the order they are executed.  The encoding of a    *)
(* SET is a sequence of Parts pieces, because a write can end inside it: a *)
(* buffer and the file are sequences of pieces.  A record has no TTL, and  *)
(* those of the SETs in Empties hold an empty value.                       *)
(***************************************************************************)
EXTENDS Integers, Sequences, FiniteSets

CONSTANTS
    None,          \* no completion
    Parts,         \* pieces a record can be cut into
    MaxSets,       \* bound: SETs
    Empties,       \* the SETs of an empty value
    MaxCrashes     \* bound: crashes of the process

ASSUME AofAssumption ==
    /\ None \notin Int
    /\ Parts \in Nat \ {0}
    /\ MaxSets \in Nat
    /\ MaxCrashes \in Nat
    /\ Empties \subseteq 1 .. MaxSets

VARIABLES
    sets,        \* SETs executed so far
    mem,         \* SETs the engine holds; 0 for one that was never sent
    aof_active, aof_flush, aof_in_flight,
    res,         \* the completion to be handled, if any
    file,        \* the content of appendonly_<id>.aof
    flushed,     \* SETs whose write was reported as completed
    running,     \* whether the process is up
    crashes,
    troubles     \* history: "write" if one has failed (a full disk), "sqe" if
                 \* io_uring_get_sqe returned null

vars == <<sets, mem, aof_active, aof_flush, aof_in_flight, res, file, flushed,
          running, crashes, troubles>>

Failed == -1            \* cqe->res of a write that failed

Piece == [set : 1 .. MaxSets, part : 1 .. Parts]

(* The encoding of a SET.  Mutant: a piece more than the lengths in it say.*)
RecordTooLong(s) == [p \in 1 .. Parts + 1 |-> [set |-> s, part |-> p]]
Record(s) == [p \in 1 .. Parts |-> [set |-> s, part |-> p]]

(* The SETs of which the last piece is in q.                               *)
Ended(q) == {q[i].set : i \in {j \in DOMAIN q : q[j].part = Parts}}

Init == /\ sets = 0 /\ mem = {}
        /\ aof_active = <<>> /\ aof_flush = <<>> /\ aof_in_flight = FALSE
        /\ res = None /\ file = <<>> /\ flushed = {}
        /\ running = TRUE /\ crashes = 0 /\ troubles = {}

-----------------------------------------------------------------------------
(* set, and append_aof_set after it.                                       *)
Set == /\ running
       /\ sets < MaxSets
       /\ sets' = sets + 1
       /\ mem' = mem \cup {sets'}
       /\ aof_active' = aof_active \o Record(sets')
       /\ UNCHANGED <<aof_flush, aof_in_flight, res, file, flushed, running,
                      crashes, troubles>>

(* The flush of phase 2: the buffers are swapped and one of them written.  *)
(* Mutants: a flush that is in flight does not keep it from swapping; it   *)
(* waits for more.                                                         *)
MayFlushLater == ~aof_in_flight /\ Len(aof_active) > Parts
MayFlushAlways == aof_active # <<>>
MayFlush == ~aof_in_flight /\ aof_active # <<>>

Flush == /\ running
         /\ MayFlush
         /\ aof_active' = aof_flush
         /\ aof_flush' = aof_active
         /\ aof_in_flight' = TRUE
         /\ UNCHANGED <<sets, mem, res, file, flushed, running, crashes, troubles>>

(* The kernel appends a prefix of the buffer it was given, or fails.       *)
KernelWrites(k) ==
    /\ aof_in_flight /\ res = None
    /\ file' = file \o SubSeq(aof_flush, 1, k)
    /\ res' = k
    /\ UNCHANGED <<sets, mem, aof_active, aof_flush, aof_in_flight, flushed,
                   running, crashes, troubles>>

KernelFails ==
    /\ aof_in_flight /\ res = None
    /\ res' = Failed
    /\ troubles' = troubles \cup {"write"}
    /\ UNCHANGED <<sets, mem, aof_active, aof_flush, aof_in_flight, file,
                   flushed, running, crashes>>

(* The completion of the write.  The SETs of which the write reported the  *)
(* last piece are flushed, as far as anyone can know.                      *)
Completion ==
    /\ running /\ res # None
    /\ res' = None
    /\ UNCHANGED <<sets, mem, aof_active, file, running, crashes>>

HandleFailure ==
    /\ Completion
    /\ res = Failed
    /\ aof_flush' = <<>>
    /\ aof_in_flight' = FALSE
    /\ UNCHANGED <<flushed, troubles>>

(* What is left of the buffer.  Mutant: the whole buffer is written again. *)
RemainderAll(q, k) == q
Remainder(q, k) == SubSeq(q, k + 1, Len(q))

HandlePartial ==
    /\ Completion
    /\ res \in 0 .. Len(aof_flush) - 1
    /\ aof_flush' = Remainder(aof_flush, res)
    /\ aof_in_flight' \in BOOLEAN   \* FALSE if there is no sqe for the rest
    /\ troubles' = troubles \cup (IF aof_in_flight' THEN {} ELSE {"sqe"})
    /\ flushed' = flushed \cup Ended(SubSeq(aof_flush, 1, res))

HandleComplete ==
    /\ Completion
    /\ res >= Len(aof_flush)
    /\ aof_flush' = <<>>
    /\ aof_in_flight' = FALSE
    /\ flushed' = flushed \cup Ended(aof_flush)
    /\ UNCHANGED troubles

-----------------------------------------------------------------------------
(* The process dies: everything in memory is gone, what was written stays. *)
Crash ==
    /\ running
    /\ crashes < MaxCrashes
    /\ crashes' = crashes + 1
    /\ running' = FALSE
    /\ mem' = {}
    /\ aof_active' = <<>> /\ aof_flush' = <<>> /\ aof_in_flight' = FALSE
    /\ res' = None
    /\ UNCHANGED <<sets, file, flushed, troubles>>

(* recover_from_aof applies the records from the start of the file to the  *)
(* first one that is cut.  If that is not the end of the file, it takes    *)
(* the bytes that follow for the rest of the record, by its lengths, which *)
(* may yield a value nobody sent; then it finds no '*' and stops.  Empty   *)
(* values are passed over.  Mutant: the last record is left out.           *)
IsRecord(f, j) ==
    SubSeq(f, (j - 1) * Parts + 1, j * Parts) = Record(f[j * Parts].set)

Intact(f) == {j \in 1 .. Len(f) \div Parts : \A i \in 1 .. j : IsRecord(f, i)}

ReplayedButLast(f) ==
    {f[j * Parts].set : j \in {i \in Intact(f) : i * Parts < Len(f)}}
Replayed(f) == {f[j * Parts].set : j \in Intact(f)} \ Empties

(* The first record that is cut is followed by others.  Mutant: the length *)
(* of a value is not compared with what is left of the file.               *)
CutAnywhere(f) == Cardinality(Intact(f)) * Parts < Len(f)
CutInside(f) ==
    LET cut == Cardinality(Intact(f)) * Parts + 1
    IN  cut <= Len(f) /\ f[cut].set # f[Len(f)].set

Restart ==
    /\ ~running
    /\ running' = TRUE
    /\ mem' \in {Replayed(file)} \cup
               (IF CutInside(file) THEN {Replayed(file) \cup {0}} ELSE {})
    /\ UNCHANGED <<sets, aof_active, aof_flush, aof_in_flight, res, file,
                   flushed, crashes, troubles>>

-----------------------------------------------------------------------------
Kernel == KernelFails \/ \E k \in 1 .. Len(aof_flush) : KernelWrites(k)
Handle == HandleFailure \/ HandlePartial \/ HandleComplete

Next == Set \/ Flush \/ Kernel \/ Handle \/ Crash \/ Restart

Spec == Init /\ [][Next]_vars

(* Every iteration of the loop comes by the flush, the kernel completes    *)
(* what it was given and the completion is handled.                        *)
FairSpec == Spec /\ WF_vars(Flush) /\ WF_vars(Kernel) /\ WF_vars(Handle)

-----------------------------------------------------------------------------
(* Type correctness of the buffers, the file and the engine's content.     *)
TypeOK ==
    /\ sets \in 0 .. MaxSets
    /\ mem \subseteq 0 .. sets
    /\ aof_active \in Seq(Piece) /\ aof_flush \in Seq(Piece)
    /\ aof_in_flight \in BOOLEAN
    /\ res \in 0 .. MaxSets * Parts \cup {None, Failed}
    /\ file \in Seq(Piece)
    /\ flushed \subseteq 1 .. sets
    /\ running \in BOOLEAN
    /\ crashes \in 0 .. MaxCrashes
    /\ troubles \subseteq {"write", "sqe"}

Before(a, b) == a.set < b.set \/ (a.set = b.set /\ a.part < b.part)

(* The file holds the SETs in the order they were executed, each piece at  *)
(* most once, whatever is cut, dropped or lost: a recovery never puts an   *)
(* older value over a newer one (the swap, the partial write and the flag  *)
(* aof_in_flight together).  Not so once there was no sqe for the rest of  *)
(* a write, which then goes behind newer SETs.                             *)
PiecesInOrder ==
    "sqe" \notin troubles =>
      \A i, j \in DOMAIN file : i < j => Before(file[i], file[j])

(* Before the first crash nothing is missing either: what is in the file,  *)
(* what is still to be written and what is in aof_active are the SETs, all *)
(* of them (no write error, no missing sqe).                               *)
Encoding(n) == [i \in 1 .. n * Parts |->
                  [set |-> ((i - 1) \div Parts) + 1, part |-> ((i - 1) % Parts) + 1]]

Unwritten == IF res \in {None, Failed} THEN aof_flush
             ELSE Remainder(aof_flush, res)

NothingMissing ==
    crashes = 0 /\ troubles = {} => file \o Unwritten \o aof_active = Encoding(sets)

(* A crash loses at most the SETs that were not yet flushed (README.md:67: *)
(* "a crash can lose the most recent, not-yet-flushed writes"), those of an*)
(* empty value apart, if no write has failed.                              *)
FlushedSurvive == running /\ troubles = {} => flushed \ Empties \subseteq mem

(* That holds for the first crash: the file has no record then that is cut *)
(* and not the last.                                                       *)
FlushedSurviveFirst == crashes <= 1 => FlushedSurvive

(* Recovery puts nothing into the engine that was not set: a record that   *)
(* was cut is not completed with what comes behind it, up to the second    *)
(* crash or a write that failed half way.                                  *)
OnlyWhatWasSet == crashes <= 1 /\ troubles = {} => 0 \notin mem

(* Whatever is in the buffers gets to the file, however many pieces the    *)
(* kernel writes it in, unless the process dies before (the flush, the     *)
(* remainder of a partial write and aof_in_flight, which lets the next     *)
(* flush go).                                                              *)
EventuallyWritten ==
    \A s \in 1 .. MaxSets :
        (s \in Ended(aof_flush \o aof_active))
          ~> (s \in Ended(file) \/ ~running \/ troubles # {})
=============================================================================
