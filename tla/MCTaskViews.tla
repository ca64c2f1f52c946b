----------------------------- MODULE MCTaskViews -----------------------------
(* One original task, up to two retries, one worker, one request at a time. *)
EXTENDS TaskViews, TLC

MCRunsOn == [t \in Tasks |-> CHOOSE w \in Workers : TRUE]
\* Nothing tells the tasks apart that retries may create.
Retries == Permutations(Tasks \ Originals)
=============================================================================
