------------------------ MODULE MCProjectRetirement ------------------------
EXTENDS ProjectRetirement, TLC

Sym == Permutations(Project) \cup Permutations(Task) \cup Permutations(Exec)
         \cup Permutations(Removal)

\* Bound: a task goes through one of the known gaps at most.
OneGap == \A t \in Task : Cardinality(excuse[t]) <= 1

\* Bound: no outcome is decided before the records of its project are retired.
\* Without it the decided outcome that waits for the transaction is found instead.
DecidedAfter == \A e \in Exec : exec[e].at \in DOMAIN Ends => exec[e].task \in struck
=============================================================================
