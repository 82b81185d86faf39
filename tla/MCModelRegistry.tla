--------------------------- MODULE MCModelRegistry ---------------------------
(* Instances of the registry for TLC. *)
EXTENDS ModelRegistry, TLC

CONSTANTS t1, t2, t3, m1, m2, m3

TwoThreads == {t1, t2}
ThreeThreads == {t1, t2, t3}

JustM1 == {m1}
JustM2 == {m2}
JustM3 == {m3}
BothModels == {m1, m2}
ThreeModels == {m1, m2, m3}

\* Threads are alike, and so are the models that nobody has registered yet.
Interchangeable == Permutations(Thread) \cup Permutations(Model \ (InitEngines \cup InitUnloaded))

=============================================================================
