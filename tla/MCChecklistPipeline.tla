------------------------- MODULE MCChecklistPipeline -------------------------
(* ChecklistPipeline with limits small enough that every one of them is met, *)
(* in two environments a process serves in and two that it refuses.          *)
EXTENDS ChecklistPipeline

Env(d, c, s, f) == [maxDimensions |-> d, maxCandidates |-> c, maxSplit |-> s, maxFinal |-> f]

SmallEnvironments == {Env(2, 2, 3, 6), Env(1, 3, Unset, 8),
                      Env(2, 2, 5, 6), Env(2, 0, 3, Unset)}
==============================================================================
