---------------------------- MODULE MC_LocalStore ----------------------------
(* Two providers, two payments, two contents each, and the documents a   *)
(* user may import: a full export, one carrying only providers, one only  *)
(* payments (whose provider it does not carry), an empty object, and a    *)
(* file that does not parse.                                               *)
EXTENDS LocalStore

MC_ProviderIds == {"p1", "p2"}
MC_PaymentIds == {"q1", "q2"}
MC_PVals == {"v1", "v2"}
MC_RateSnaps == {"fallback", "cbr"}

DocFull == [providers |-> << [id |-> "p1", val |-> "v2"] >>,
            payments  |-> << [id |-> "q1", provider |-> "p1", due |-> 0] >>]
DocProvidersOnly == [providers |-> << [id |-> "p2", val |-> "v1"] >>,
                     payments  |-> Absent]
DocPaymentsOnly == [providers |-> Absent,
                    payments  |-> << [id |-> "q2", provider |-> "p2", due |-> 1] >>]
DocEmpty == [providers |-> Absent, payments |-> Absent]

MC_Docs == {DocFull, DocProvidersOnly, DocPaymentsOnly, DocEmpty, Corrupt}
=============================================================================
