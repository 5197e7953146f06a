------------------------------ MODULE InitOnce -------------------------------
(***************************************************************************)
(* One-time initialisation of a target: StInitOnce_ExecuteOnce, BeginInit  *)
(* and Complete, and the two forms of StEnsureInitialized.  In a           *)
(* synchronous initialisation one thread constructs the target under the   *)
(* initialize-once lock; in an asynchronous one every thread that finds    *)
(* none constructs one, and the first to publish its own wins.             *)
(*                                                                         *)
(* The lock is what module InitOnceLock checks of it: a caller finds it    *)
(* free and is to initialise, or waits until it is available or free.      *)
(***************************************************************************)
EXTENDS Naturals, FiniteSets

CONSTANTS Threads, Modes,
          MaxBuilt     \* bound: how many objects are constructed

VARIABLES
  mode,       \* how the callers initialise: a subset of {"sync", "async"}
  once,       \* InitOnce->Lock
  target,     \* InitOnce->Target: the number of an object, or 0
  at,         \* where each thread is
  mine,       \* its local Target
  context,    \* what its last call returned, or 0
  built,      \* how many objects were constructed
  destroyed   \* the objects that Dtor has destroyed

vars == <<mode, once, target, at, mine, context, built, destroyed>>

Init ==
  /\ mode \in Modes /\ once = "free" /\ target = 0
  /\ at = [t \in Threads |-> "out"] /\ mine = [t \in Threads |-> 0]
  /\ context = [t \in Threads |-> 0] /\ built = 0 /\ destroyed = {}

Go(t, from, to) == at[t] = from /\ at' = [at EXCEPT ![t] = to]
Return(t, x)    == context' = [context EXCEPT ![t] = x]

\* TryInitTarget, TryInitOnce: false when the target is available, true for the
\* thread that is to initialise it; others wait.
TryInitTarget(t) ==
  /\ "sync" \in mode
  /\ \/ once = "available" /\ Go(t, "out", "read") /\ UNCHANGED once
     \/ once = "free" /\ once' = "busy" /\ Go(t, "out", "construct")
  /\ UNCHANGED <<mode, target, mine, context, built, destroyed>>

ReadTarget(t) ==
  /\ Go(t, "read", "out") /\ Return(t, target)
  /\ UNCHANGED <<mode, once, target, mine, built, destroyed>>

\* BeginInit with INIT_ONCE_CHECK_ONLY.
CheckOnly(t) ==
  /\ at[t] = "out" /\ target # 0 /\ Return(t, target)
  /\ UNCHANGED <<mode, once, target, at, mine, built, destroyed>>

\* The constructor succeeds or fails.
Ctor(t) ==
  /\ \/ /\ Go(t, "construct", "publish") \/ Go(t, "constructAsync", "publishAsync")
        /\ built < MaxBuilt /\ built' = built + 1 /\ mine' = [mine EXCEPT ![t] = built + 1]
     \/ /\ Go(t, "construct", "fail") \/ Go(t, "constructAsync", "out")
        /\ UNCHANGED <<built, mine>>
  /\ UNCHANGED <<mode, once, target, context, destroyed>>

\* The target is stored, and then the lock made available.
SetTarget(t) ==
  /\ Go(t, "publish", "complete") /\ target' = mine[t]
  /\ UNCHANGED <<mode, once, mine, context, built, destroyed>>

InitTargetCompleted(t) ==
  /\ Go(t, "complete", "out") /\ once' = "available" /\ Return(t, mine[t])
  /\ UNCHANGED <<mode, target, mine, built, destroyed>>

InitTargetFailed(t) ==
  /\ Go(t, "fail", "out") /\ once' = "free"
  /\ UNCHANGED <<mode, target, mine, context, built, destroyed>>

\* BeginInit with INIT_ONCE_ASYNC, StEnsureInitialized_Asynchronous: return the
\* target, or construct one, unless a synchronous initialisation has started.
BeginAsync(t) ==
  /\ "async" \in mode
  /\ \/ at[t] = "out" /\ target # 0 /\ Return(t, target) /\ UNCHANGED at
     \/ target = 0 /\ once = "free" /\ Go(t, "out", "constructAsync") /\ UNCHANGED context
  /\ UNCHANGED <<mode, once, target, mine, built, destroyed>>

\* Mutant: the target is tested and stored, not swapped.
CompleteAsync_Store(t) ==
  /\ Go(t, "publishAsync", "out") /\ target' = mine[t] /\ Return(t, mine[t])
  /\ UNCHANGED <<mode, once, mine, built, destroyed>>

\* Complete, StEnsureInitialized_Asynchronous: publish the own object if there is
\* no target yet; otherwise destroy it and return the target (the caller of Complete
\* is told that it failed, and asks again).
CompleteAsync(t) ==
  /\ \/ target = 0 /\ target' = mine[t] /\ Go(t, "publishAsync", "out") /\ Return(t, mine[t])
     \/ /\ target # 0 /\ Go(t, "publishAsync", "destroy") /\ Return(t, target)
        /\ UNCHANGED target
  /\ UNCHANGED <<mode, once, mine, built, destroyed>>

Dtor(t) ==
  /\ Go(t, "destroy", "out") /\ destroyed' = destroyed \cup {mine[t]}
  /\ UNCHANGED <<mode, once, target, mine, context, built>>

Next == \E t \in Threads :
  \/ TryInitTarget(t) \/ ReadTarget(t) \/ CheckOnly(t) \/ Ctor(t)
  \/ SetTarget(t) \/ InitTargetCompleted(t) \/ InitTargetFailed(t)
  \/ BeginAsync(t) \/ CompleteAsync(t) \/ Dtor(t)

Spec == Init /\ [][Next]_vars

-----------------------------------------------------------------------------
(* Properties *)

\* All callers get the same target, which is never destroyed; a caller that is told
\* that it is available finds it; and when no call is going on every other object
\* that was constructed has been destroyed.  When synchronous and asynchronous
\* initialisations are mixed it does not hold; see the README.
OneTarget ==
  /\ \A t \in Threads : context[t] \in {0, target} /\ (at[t] = "read" => target # 0)
  /\ target \notin destroyed
  /\ (\A t \in Threads : at[t] = "out") => (1..built) \ {target} = destroyed
=============================================================================
