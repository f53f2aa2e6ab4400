------------------------ MODULE MC_RecordReconciler ------------------------
(* Model-checking instance of RecordReconciler: three server ids, a       *)
(* record whose optional currencyDefault is unset ("") or "USD".          *)
EXTENDS RecordReconciler

MC_Ids == {"p1", "p2", "p3"}
MC_TwoIds == {"p1", "p2"}
MC_RecVals == {"", "USD"}
MC_Currency == {"RUB", "USD", "EUR"}
=============================================================================
