---------------------------- MODULE MC_PaymentsView ----------------------------
(* Model values for PaymentsView: three payments in RUB, USD and EUR whose *)
(* monthly amounts change order between the fallback and the live rates;  *)
(* two are due the same day and one six days ahead, so that it becomes    *)
(* due soon when the day passes.  The second list has four payments due  *)
(* the same day, one more than a calendar cell shows, and an entry whose  *)
(* period this version does not know.  Names and filters are over the     *)
(* letters a, A and b.                                                     *)
EXTENDS PaymentsView, TLC

MC_Calls == {1, 2}
MC_ValueKinds == {"num", "numstr", "null", "emptystr", "missing", "text"}
(* One JSON value kind of each class Number() maps it to. *)
MC_ClassKinds == {"num", "null", "text"}

MC_Letters == {"a", "A", "b"}
MC_LowerCase == [c \in MC_Letters |-> IF c = "A" THEN "a" ELSE c]

(* Server "a" is named "Ab"; server "b" is not in $systems. *)
MC_Systems == [s \in {<<"a">>} |-> <<"A", "b">>]
(* Provider "a" is named "bA"; provider "bb" has an empty name. *)
MC_ProviderNames == (<<"a">> :> <<"b", "A">>) @@ (<<"b", "b">> :> << >>)
MC_Filters == {<< >>, <<"a">>}

(* 100 * 1.05 and 110 * 1.05 *)
MC_CbrRates == [USD |-> Rat(105, 1), EUR |-> Rat(231, 2)]

PayA == [id |-> "q1", server |-> <<"a">>, provider |-> <<"a">>, period |-> "monthly",
         amount |-> Rat(1000, 1), currency |-> "RUB", due |-> 3]
PayB == [id |-> "q2", server |-> <<"b">>, provider |-> <<"b", "b">>, period |-> "monthly",
         amount |-> Rat(10, 1), currency |-> "USD", due |-> 3]
PayC == [id |-> "q3", server |-> <<"a">>, provider |-> <<"b", "b">>, period |-> "weekly",
         amount |-> Rat(2, 1), currency |-> "EUR", due |-> 6]

(* The calendar is shown at January and February 2024; day 0 is         *)
(* 2024-01-01, so the payments fall on January 4 and 7 and February 3.    *)
MC_CalMonths == {<<2024, 0>>, <<2024, 1>>}

PayD == [id |-> "q4", server |-> <<"b">>, provider |-> <<"a">>, period |-> "daily",
         amount |-> Rat(5, 1), currency |-> "RUB", due |-> 33]

MC_PaymentLists ==
    { <<PayA, PayB, PayC>>,
      <<[PayC EXCEPT !.due = 33], [PayA EXCEPT !.due = 33],
        [PayB EXCEPT !.period = "legacy", !.due = 33], PayD>> }
=============================================================================
