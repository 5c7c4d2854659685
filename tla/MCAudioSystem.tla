--------------------------- MODULE MCAudioSystem ---------------------------
EXTENDS AudioSystem, TLC

\* Uploads 1 and 2 are the same bytes under the same name, 3 is another.
MCContent == [f \in Files |-> IF f <= 2 THEN "take1" ELSE "take2"]

\* A deleted file Garage has been refusing to let go of for a while: its
\* objects are there, its queue rows are cleared, its upload long answered.
BacklogInit ==
    /\ UploadInit /\ WorkerInit
    /\ file = [f \in Files |-> IF f \in Refused THEN "delete_pending" ELSE "none"]
    /\ flags = [f \in Files |-> {}]
    /\ queue = [j \in Jobs |-> NoRow]
    /\ bucket = {SourceKey(f) : f \in Refused}

BacklogSpec == BacklogInit /\ [][Next]_vars /\ Fairness

\* Replicas are interchangeable; sound for the runs without liveness.
Replicas == Permutations(Workers)
=============================================================================
