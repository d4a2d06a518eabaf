-------------------------- MODULE MCDelegateWalkLive --------------------------
(***************************************************************************)
(* DelegateWalk with an application that retries, for its liveness         *)
(* properties.                                                             *)
(***************************************************************************)
EXTENDS MCDelegateWalk

Progress(s) == StartRun(s) \/ Step(s)
Trouble(s) == Fault(s) \/ Crash(s)

\* The application runs the migration again and again, every call the walk awaits
\* returns, and faults, silences and crashes stop at last, however many there were.
LiveSpec ==
  /\ Spec
  /\ \A s \in Session : WF_vars(Progress(s))
  /\ <>[][\A s \in Session : ~Trouble(s)]_vars

\* Can generation g be sealed?  Not one the import path refuses items of; the
\* instance unites every other.
Wanted(g) == \A k \in content[g] : <<g, k>> \notin Rejects

\* Once faults stop, every generation that can be is sealed and stays
\* sealed, even behind a newer one that never can (a rejected item).
EventuallySealed == \A g \in Gen : <>[](Wanted(g) => IsDone(Marker(g)))

\* Once faults stop, retry_may_help turns false for good: a loop driven by it ends.
RetriesSettle ==
  <>[](\A s \in Session : Reported(s) => ~RetryMayHelp(s))
===============================================================================
