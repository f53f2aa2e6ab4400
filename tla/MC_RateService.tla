--------------------------- MODULE MC_RateService ---------------------------
(* Model values for RateService: two overlapping loadRates calls (the     *)
(* route effect runs once per mount) and every kind of JSON value Number  *)
(* treats differently.                                                     *)
EXTENDS RateService

MC_Calls == {1, 2}
MC_OneCall == {1}
MC_ValueKinds == {"num", "numstr", "null", "emptystr", "missing", "text"}
=============================================================================
