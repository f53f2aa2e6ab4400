------------------------- MODULE MC_ProviderDialog -------------------------
(* ProviderDialog over RecordReconciler's model values: three server ids, *)
(* a currencyDefault that is unset ("") or "USD".                          *)
EXTENDS ProviderDialog

MC_Ids == {"p1", "p2", "p3"}
MC_TwoIds == {"p1", "p2"}
MC_RecVals == {"", "USD"}
MC_Currency == {"RUB", "USD", "EUR"}
=============================================================================
