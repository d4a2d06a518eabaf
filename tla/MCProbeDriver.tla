----------------------------- MODULE MCProbeDriver -----------------------------
(***************************************************************************)
(* A small instance of ProbeDriver.                                        *)
(***************************************************************************)
EXTENDS ProbeDriver

CONSTANTS a, b, c

A3 == [id |-> a, generation |-> 3]
B2 == [id |-> b, generation |-> 2]
C1 == [id |-> c, generation |-> 1]
A1 == [id |-> a, generation |-> 1]

\* Every slice order of three generations, an empty lineage, and one in which a
\* re-published build comes round again.
AllLineages ==
  {list \in [1..3 -> {A3, B2, C1}] : \A i, j \in 1..3 : i # j => list[i] # list[j]}
  \cup {<<>>, <<A3, B2, A1>>}

\* Both policies, halting at silence and walking past it, each with a node that
\* denies what it holds and one that does not; one fold is cut off by the hop cap.
AllSetups ==
  {[policy |-> NewestFirstWins, continuePast |-> past, maxHops |-> 3, falseAbsent |-> denies] :
     past, denies \in BOOLEAN}
  \cup {[policy |-> FoldAll, continuePast |-> FALSE, maxHops |-> 2, falseAbsent |-> denies] :
           denies \in BOOLEAN}

\* Silence only delays: whatever was silent before, the newest generation with
\* real data within the hop cap reaches the device and stays there.  The node is
\* not one that denies what it holds.
RealIsAdopted ==
  \A i \in 1..3 :
    <>[](/\ ~FalseAbsent
         /\ i <= Len(candidates) /\ i <= MaxHops /\ Real(i)
         /\ \A j \in 1..(i - 1) : ~Real(j)
         => candidates[i].id \in device)

===============================================================================
