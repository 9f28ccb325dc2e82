--------------------------- MODULE MCAutoRefresh ---------------------------
(* AutoRefresh with two credentials that share the one worker, and nobody  *)
(* who registers or updates any; one credential, a writer and passes that  *)
(* lag are a setting of MCRefresh.                                         *)
EXTENDS AutoRefresh

CONSTANTS a1, a2, w1

TwoAuths == {a1, a2}
OneWorker == {w1}

\* Next without the writer's actions, which MaxUpdates = 0 and LateAuths = {} disable.
PoolNext == \/ LoopStep \/ AbandonSend \/ LoopExits
            \/ \E w \in Workers : WorkerStep(w) \/ WorkerExits(w)
            \/ StopAutoRefresh
            \/ Tick
PoolSpec == Init /\ [][PoolNext]_vars /\ Fairness
=============================================================================
