----------------------- MODULE ReentrantReadWriteLock ------------------------
(***************************************************************************)
(* Reentrant reader/writer locks, and the resource table of each thread.   *)
(* The first reader of a lock is recorded in the lock, with its count; the *)
(* other readers have an entry in their resource table; a writer has an    *)
(* owner field and a count.                                                *)
(*                                                                         *)
(* The lock below is, for a thread that waits, what module SharedMutex     *)
(* says; its state word is also swapped directly, by this code.            *)
(***************************************************************************)
EXTENDS Naturals, Sequences, FiniteSets

CONSTANTS Threads, Locks, NoThread, NoLock,
          WRITING,     \* the bit of a writer in the state word
          MaxDepth     \* bound: how often one thread holds a lock in one mode

ReentrantReadWriteLockAssumption ==
  /\ NoThread \notin Threads /\ NoLock \notin Locks /\ IsFiniteSet(Threads)
  /\ WRITING \in Nat \ {0} /\ MaxDepth \in Nat \ {0}

VARIABLES
  word,          \* RWLock->Lock.State
  firstReader, firstReaderCount, writer, writerCount,   \* fields of each lock
  table,         \* the resource table of each thread: <<Resource, RefCount>>
  where,         \* where each thread is
  using,         \* the lock of its call
  savedCount,    \* the local Count of a thread that waits on a condition
  reading, writing   \* ghosts: acquisitions that the thread has not released

fields == <<firstReader, firstReaderCount, writer, writerCount>>
vars == <<word, fields, table, where, using, savedCount, reading, writing>>

PerLock(x) == [l \in Locks |-> x]

\* StReentrantReadWriteLock_Init: the counts are set before they are used.
Init ==
  /\ word = PerLock(0) /\ firstReader = PerLock(NoThread) /\ writer = PerLock(NoThread)
  /\ firstReaderCount = PerLock(0) /\ writerCount = PerLock(0)
  /\ table = [t \in Threads |-> <<>>]
  /\ where = [t \in Threads |-> "out"] /\ using = [t \in Threads |-> NoLock]
  /\ savedCount = [t \in Threads |-> 0]
  /\ reading = [t \in Threads |-> PerLock(0)] /\ writing = [t \in Threads |-> PerLock(0)]

\* A thread begins, goes on with, and ends a call on lock l that takes steps.
Begin(t, l, to) ==
  /\ where[t] = "out" /\ where' = [where EXCEPT ![t] = to]
  /\ using' = [using EXCEPT ![t] = l]
GoOn(t, l, from, to) ==
  /\ using[t] = l /\ where[t] = from /\ where' = [where EXCEPT ![t] = to]
  /\ UNCHANGED using
End(t, l, from) ==
  /\ using[t] = l /\ where[t] = from /\ where' = [where EXCEPT ![t] = "out"]
  /\ using' = [using EXCEPT ![t] = NoLock]
\* A call that is one step.
Local(t) == where[t] = "out" /\ UNCHANGED <<where, using>>

Read(t, l, n)  == reading' = [reading EXCEPT ![t][l] = n] /\ UNCHANGED writing
Write(t, l, n) == writing' = [writing EXCEPT ![t][l] = n] /\ UNCHANGED reading

-----------------------------------------------------------------------------
(* The resource table *)

\* LookupEntryOnResourceTable: the index of the entry of l, or 0.
Lookup(t, l) ==
  IF \E i \in 1..Len(table[t]) : table[t][i][1] = l
    THEN CHOOSE i \in 1..Len(table[t]) :
           table[t][i][1] = l /\ \A j \in (i + 1)..Len(table[t]) : table[t][j][1] # l
    ELSE 0

AddEntryToResourceTable(t, l) == table' = [table EXCEPT ![t] = Append(@, <<l, 1>>)]

\* Mutant: the last entry is dropped, whichever was freed.
FreeResourceTableEntry_Last(t, i) ==
  table' = [table EXCEPT ![t] = SubSeq(@, 1, Len(@) - 1)]

\* The last entry takes the place of the freed one.
FreeResourceTableEntry(t, i) ==
  LET last == Len(table[t]) IN
  table' = [table EXCEPT ![t] = SubSeq([@ EXCEPT ![i] = table[t][last]], 1, last - 1)]

AddToRefCount(t, i, n) == table' = [table EXCEPT ![t][i][2] = n]

-----------------------------------------------------------------------------
(* Readers *)

\* TryEnterReadLockInternal: the first reader ...
FirstReaderEnters(t, l) ==
  /\ word[l] = 0 /\ word' = [word EXCEPT ![l] = 1] /\ Begin(t, l, "setFirst")
  /\ Read(t, l, reading[t][l] + 1) /\ UNCHANGED <<fields, table, savedCount>>
SetFirstReader(t, l) ==
  /\ End(t, l, "setFirst") /\ firstReader' = [firstReader EXCEPT ![l] = t]
  /\ firstReaderCount' = [firstReaderCount EXCEPT ![l] = 1]
  /\ UNCHANGED <<word, writer, writerCount, table, savedCount, reading, writing>>

\* ... or a reader that is recorded in the lock or in the resource table.
ReadsAgain(t, l) ==
  /\ word[l] # 0 /\ Local(t) /\ reading[t][l] < MaxDepth /\ Read(t, l, reading[t][l] + 1)
  /\ \/ /\ firstReader[l] = t /\ UNCHANGED table
        /\ firstReaderCount' = [firstReaderCount EXCEPT ![l] = @ + 1]
     \/ /\ firstReader[l] # t /\ Lookup(t, l) # 0 /\ UNCHANGED firstReaderCount
        /\ AddToRefCount(t, Lookup(t, l), table[t][Lookup(t, l)][2] + 1)
  /\ UNCHANGED <<word, firstReader, writer, writerCount, savedCount>>

\* TryEnterReadTail: add an entry first, then enter the lock below.
TryEnterReadTail(t, l) ==
  /\ word[l] # 0 /\ firstReader[l] # t /\ Lookup(t, l) = 0 /\ Begin(t, l, "readWait")
  /\ AddEntryToResourceTable(t, l)
  /\ UNCHANGED <<word, fields, savedCount, reading, writing>>
ReadEntered(t, l) ==
  /\ word[l] < WRITING /\ word' = [word EXCEPT ![l] = @ + 1] /\ End(t, l, "readWait")
  /\ Read(t, l, reading[t][l] + 1) /\ UNCHANGED <<fields, table, savedCount>>

\* The wait is cancelled: free the entry.
ReadCancelled(t, l) ==
  /\ End(t, l, "readWait") /\ FreeResourceTableEntry(t, Len(table[t]))
  /\ UNCHANGED <<word, fields, savedCount, reading, writing>>

\* Mutant: the lock below is released before the first reader is cleared.
ExitReadFirst_ReleaseFirst(t, l) ==
  \/ /\ firstReader[l] = t /\ firstReaderCount[l] = 1 /\ Begin(t, l, "clearFirst")
     /\ word' = [word EXCEPT ![l] = @ - 1] /\ Read(t, l, 0)
     /\ UNCHANGED <<fields, table, savedCount>>
  \/ /\ End(t, l, "clearFirst") /\ firstReader' = [firstReader EXCEPT ![l] = NoThread]
     /\ UNCHANGED <<word, firstReaderCount, writer, writerCount, table, savedCount,
                    reading, writing>>

\* StReentrantReadWriteLock_ExitRead by the first reader: clear the field when
\* this was its last acquisition.
ExitReadFirst(t, l) ==
  /\ firstReader[l] = t
  /\ firstReaderCount' = [firstReaderCount EXCEPT ![l] = @ - 1]
  /\ \/ /\ firstReaderCount[l] = 1 /\ Begin(t, l, "exitRead")
        /\ firstReader' = [firstReader EXCEPT ![l] = NoThread]
        /\ UNCHANGED <<reading, writing>>
     \/ /\ firstReaderCount[l] # 1 /\ Local(t) /\ Read(t, l, reading[t][l] - 1)
        /\ UNCHANGED firstReader
  /\ UNCHANGED <<word, writer, writerCount, table, savedCount>>

\* By another reader.
ExitReadEntry(t, l) ==
  LET i == Lookup(t, l) IN
  /\ firstReader[l] # t /\ i # 0 /\ AddToRefCount(t, i, table[t][i][2] - 1)
  /\ \/ table[t][i][2] = 1 /\ Begin(t, l, "exitEntry") /\ UNCHANGED <<reading, writing>>
     \/ table[t][i][2] # 1 /\ Local(t) /\ Read(t, l, reading[t][l] - 1)
  /\ UNCHANGED <<word, fields, savedCount>>

\* StReadWriteLock_ExitRead, and then the entry is freed.
ExitRead(t, l) ==
  /\ \/ End(t, l, "exitRead") /\ UNCHANGED table
     \/ End(t, l, "exitEntry") /\ FreeResourceTableEntry(t, Lookup(t, l))
  /\ word' = [word EXCEPT ![l] = @ - 1] /\ Read(t, l, 0)
  /\ UNCHANGED <<fields, savedCount>>

-----------------------------------------------------------------------------
(* Writers *)

\* The state word is swapped, or the lock below is granted, and t holds it n times.
TakeWord(t, l, n) ==
  word[l] = 0 /\ word' = [word EXCEPT ![l] = WRITING] /\ Write(t, l, n)
    /\ UNCHANGED <<fields, table, savedCount>>

\* TryEnterWriteInternal, and, for one that waits, TryEnterWriteTail.
WriterEnters(t, l) ==
  /\ Begin(t, l, "setWriter") \/ GoOn(t, l, "writeWait", "setWriter")
  /\ TakeWord(t, l, 1)
WriterWaits(t, l) ==
  /\ word[l] # 0 /\ writer[l] # t /\ Begin(t, l, "writeWait")
  /\ UNCHANGED <<word, fields, table, savedCount, reading, writing>>
WriteCancelled(t, l) ==
  /\ End(t, l, "writeWait")
  /\ UNCHANGED <<word, fields, table, savedCount, reading, writing>>

\* Set the owner and its count: 1, or what it was before a wait on a condition.
SetWriter(t, l) ==
  /\ End(t, l, "setWriter") /\ writer' = [writer EXCEPT ![l] = t]
  /\ writerCount' = [writerCount EXCEPT ![l] = IF savedCount[t] = 0 THEN 1 ELSE savedCount[t]]
  /\ savedCount' = [savedCount EXCEPT ![t] = 0]
  /\ UNCHANGED <<word, firstReader, firstReaderCount, table, reading, writing>>

WritesAgain(t, l) ==
  /\ word[l] # 0 /\ writer[l] = t /\ Local(t) /\ writing[t][l] < MaxDepth
  /\ writerCount' = [writerCount EXCEPT ![l] = @ + 1] /\ Write(t, l, writing[t][l] + 1)
  /\ UNCHANGED <<word, firstReader, firstReaderCount, writer, table, savedCount>>

\* The owner is cleared, and then the lock below is released.
ClearWriter(t, l, to) ==
  Begin(t, l, to) /\ writer' = [writer EXCEPT ![l] = NoThread]
    /\ writerCount' = [writerCount EXCEPT ![l] = 0] /\ UNCHANGED <<reading, writing>>

\* StReentrantReadWriteLock_ExitWrite, _Release and _UndoAcquire.
ExitWrite(t, l) ==
  /\ writer[l] = t
  /\ \/ writerCount[l] = 1 /\ ClearWriter(t, l, "exitWrite")
     \/ /\ writerCount[l] # 1 /\ Local(t) /\ Write(t, l, writing[t][l] - 1)
        /\ writerCount' = [writerCount EXCEPT ![l] = @ - 1] /\ UNCHANGED writer
  /\ UNCHANGED <<word, firstReader, firstReaderCount, table, savedCount>>

\* _ReleaseLockCompletely: a count of one, and the exit.
ReleaseLockCompletely(t, l) ==
  /\ writer[l] = t /\ ClearWriter(t, l, "exitAndPark")
  /\ savedCount' = [savedCount EXCEPT ![t] = writerCount[l]]
  /\ UNCHANGED <<word, firstReader, firstReaderCount, table>>

\* StReadWriteLock_ExitWrite.
ExitLock(t, l) ==
  /\ End(t, l, "exitWrite") \/ GoOn(t, l, "exitAndPark", "condition")
  /\ word' = [word EXCEPT ![l] = @ - WRITING] /\ Write(t, l, 0)
  /\ UNCHANGED <<fields, table, savedCount>>

\* _ReacquireLock, after which the owner and its count are set.
ReacquireLock(t, l) ==
  GoOn(t, l, "condition", "setWriter") /\ TakeWord(t, l, savedCount[t])

Next == \E t \in Threads, l \in Locks :
  \/ FirstReaderEnters(t, l) \/ SetFirstReader(t, l) \/ ReadsAgain(t, l)
  \/ TryEnterReadTail(t, l) \/ ReadEntered(t, l) \/ ReadCancelled(t, l)
  \/ ExitReadFirst(t, l) \/ ExitReadEntry(t, l) \/ ExitRead(t, l)
  \/ WriterEnters(t, l) \/ WriterWaits(t, l) \/ WriteCancelled(t, l) \/ SetWriter(t, l)
  \/ WritesAgain(t, l) \/ ExitWrite(t, l) \/ ReleaseLockCompletely(t, l) \/ ExitLock(t, l)
  \/ ReacquireLock(t, l)

Spec == Init /\ [][Next]_vars

-----------------------------------------------------------------------------
(* Properties *)

Readers(l) == {t \in Threads : reading[t][l] > 0}
Writers(l) == {t \in Threads : writing[t][l] > 0}

\* The state word counts an owner once, however often it has entered, and a writer
\* is alone.
WordCountsOwners ==
  \A l \in Locks :
    /\ word[l] = Cardinality(Readers(l)) + WRITING * Cardinality(Writers(l))
    /\ Writers(l) # {} => Readers(l) = {} /\ Cardinality(Writers(l)) = 1

\* What is recorded of the acquisitions of t: a reader is the first one or has one
\* entry, not both, and the counts are exact.
ReadCount(t, l) ==
  (IF firstReader[l] = t THEN firstReaderCount[l] ELSE 0) +
  (IF Lookup(t, l) # 0 THEN table[t][Lookup(t, l)][2] ELSE 0)

CountsRight ==
  \A t \in Threads :
    /\ \A l \in Locks : using[t] # l =>
         /\ ReadCount(t, l) = reading[t][l]
         /\ writer[l] = t <=> writing[t][l] > 0
         /\ writer[l] = t => writerCount[l] = writing[t][l]
    /\ \A i, j \in 1..Len(table[t]) : table[t][i][1] = table[t][j][1] => i = j
=============================================================================
