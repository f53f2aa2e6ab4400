----------------------------- MODULE RecordStore -----------------------------
(***************************************************************************)
(* What a payments store promises its views, independent of how it keeps  *)
(* its records: two keyed collections, providers and payments, where each *)
(* payment names its provider.  A provider is created, updated or deleted *)
(* together with its payments; a payment is created or updated only for a *)
(* provider that exists; an import replaces either collection it carries *)
(* with the imported records; the exchange-rate snapshot is replaced       *)
(* whole.  Nothing else changes the store: in particular a page reload     *)
(* shows the store as it was.                                              *)
(*                                                                         *)
(* A collection is a function from every possible id to a record or None. *)
(***************************************************************************)
CONSTANTS
    ProviderIds,  \* the ids a provider may get
    PaymentIds,   \* the ids a payment may get
    PVals,        \* the provider contents (name, url, default currency)
    Dues,         \* the payment contents the model tells apart
    RateSnaps,    \* the exchange-rate snapshots
    None,         \* marks an id with no record
    Keep,         \* marks a collection an import leaves alone
    Imports       \* the importable documents, as pairs of collections

VARIABLES providers, payments, rates

avars == <<providers, payments, rates>>

Payment == [provider : ProviderIds, due : Dues]

Live(f) == {i \in DOMAIN f : f[i] # None}

Init ==
    /\ providers = [i \in ProviderIds |-> None]
    /\ payments = [q \in PaymentIds |-> None]
    /\ rates \in RateSnaps

CreateProvider ==
    \E i \in ProviderIds \ Live(providers), v \in PVals :
        /\ providers' = [providers EXCEPT ![i] = v]
        /\ UNCHANGED <<payments, rates>>

UpdateProvider ==
    \E i \in Live(providers), v \in PVals :
        /\ providers' = [providers EXCEPT ![i] = v]
        /\ UNCHANGED <<payments, rates>>

(* A provider leaves with every payment that names it. *)
DeleteProvider ==
    \E i \in Live(providers) :
        /\ providers' = [providers EXCEPT ![i] = None]
        /\ payments' = [q \in PaymentIds |->
                          IF payments[q] # None /\ payments[q].provider = i
                            THEN None ELSE payments[q]]
        /\ UNCHANGED rates

CreatePayment ==
    \E q \in PaymentIds \ Live(payments), p \in Payment :
        /\ p.provider \in Live(providers)
        /\ payments' = [payments EXCEPT ![q] = p]
        /\ UNCHANGED <<providers, rates>>

(* An update keeps the payment's provider or names an existing one. *)
UpdatePayment ==
    \E q \in Live(payments), p \in Payment :
        /\ p.provider \in Live(providers) \cup {payments[q].provider}
        /\ payments' = [payments EXCEPT ![q] = p]
        /\ UNCHANGED <<providers, rates>>

DeletePayment ==
    \E q \in Live(payments) :
        /\ payments' = [payments EXCEPT ![q] = None]
        /\ UNCHANGED <<providers, rates>>

(* An import replaces each collection the document carries, and only    *)
(* those.                                                                  *)
Replace ==
    \E d \in Imports :
        /\ providers' = IF d.providers = Keep THEN providers ELSE d.providers
        /\ payments' = IF d.payments = Keep THEN payments ELSE d.payments
        /\ UNCHANGED rates

SetRates ==
    /\ rates' \in RateSnaps
    /\ UNCHANGED <<providers, payments>>

Next ==
    \/ CreateProvider \/ UpdateProvider \/ DeleteProvider
    \/ CreatePayment \/ UpdatePayment \/ DeletePayment
    \/ Replace \/ SetRates

Spec == Init /\ [][Next]_avars

=============================================================================
