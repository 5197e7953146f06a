---------------------------- MODULE SharedMutex -----------------------------
(***************************************************************************)
(* What a reader/writer lock promises: readers share, a writer is alone.   *)
(***************************************************************************)
CONSTANT Threads

VARIABLES readers, writers   \* the threads that hold the lock, in each mode

Init == readers = {} /\ writers = {}

EnterRead(t) ==
  /\ writers = {} /\ t \notin readers
  /\ readers' = readers \cup {t} /\ UNCHANGED writers

EnterWrite(t) ==
  /\ readers = {} /\ writers = {}
  /\ writers' = {t} /\ UNCHANGED readers

ExitRead(t)  == t \in readers /\ readers' = readers \ {t} /\ UNCHANGED writers
ExitWrite(t) == t \in writers /\ writers' = writers \ {t} /\ UNCHANGED readers

Next ==
  \E t \in Threads :
    EnterRead(t) \/ EnterWrite(t) \/ ExitRead(t) \/ ExitWrite(t)

Spec == Init /\ [][Next]_<<readers, writers>>
=============================================================================
