----------------------------- MODULE WaitLists ------------------------------
(***************************************************************************)
(* Wait lists as sequences of the threads that own their entries.          *)
(***************************************************************************)
EXTENDS Naturals, Sequences, FiniteSets

\* The thread t has an entry in the list s.
In(t, s) == \E i \in 1..Len(s) : s[i] = t

\* No thread occurs twice in the list.
Distinct(s) == \A i, j \in 1..Len(s) : s[i] = s[j] => i = j

\* RemoveEntryList of the entry of t, wherever it is in the list.
Without(s, t) ==
  IF In(t, s) THEN LET i == CHOOSE i \in 1..Len(s) : s[i] = t IN
                   SubSeq(s, 1, i - 1) \o SubSeq(s, i + 1, Len(s))
              ELSE s

\* How many of the positions L are not behind i, which position is the k-th, and the
\* entries of s at these positions, in order.
Rank(L, i)     == Cardinality({j \in L : j <= i})
Position(L, k) == CHOOSE i \in L : Rank(L, i) = k
Picked(s, L)   == [k \in 1..Cardinality(L) |-> s[Position(L, k)]]
=============================================================================
