----------------------------- MODULE LocalStore -----------------------------
(***************************************************************************)
(* The localStorage variant of the payments store (src/unnamed/part_001,  *)
(* lines 1-180): $providers and $payments are arrays in memory, every     *)
(* action ends with persist(), which saves both arrays and $rates under   *)
(* one key, and loadState() reads them back when the page loads.  The     *)
(* actions are synchronous, so each is one step.  A page reload is a      *)
(* restart: memory is rebuilt from what was saved.                         *)
(*                                                                         *)
(* The store is shown to implement RecordStore, with each array mapped to *)
(* the function from ids to the record holding that id.                    *)
(***************************************************************************)
EXTENDS Naturals, Sequences

CONSTANTS
    ProviderIds, PaymentIds, PVals, Dues, RateSnaps, None,
    Absent,          \* a field missing from a JSON document
    Corrupt,         \* localStorage content or a file JSON.parse rejects
    Docs,            \* the documents a user may import
    StorageMayFail,  \* whether localStorage.setItem may throw (quota)
    MaxDue           \* the last date index markPaymentPaid advances to

ASSUME Dues = 0..MaxDue

VARIABLES
    providers,  \* $providers: a sequence of [id, val]
    payments,   \* $payments: a sequence of [id, provider, due]
    rates,      \* $rates
    stored,     \* the value saved under LS_KEY, or Absent, or Corrupt
    seen        \* every id ever held (generateId never repeats one)

vars == <<providers, payments, rates, stored, seen>>

ProviderRec == [id : ProviderIds, val : PVals]
PaymentRec  == [id : PaymentIds, provider : ProviderIds, due : Dues]

Ids(s) == {s[k].id : k \in DOMAIN s}

(* defaultState, with FALLBACK_RATES. *)
Default == [providers |-> << >>, payments |-> << >>, rates |-> "fallback"]

(* loadState: the saved object spread over the default; a missing key or *)
(* a parse error gives the default.                                       *)
LoadState(s) == IF s \in {Absent, Corrupt} THEN Default ELSE s

(* persist() after the new arrays are set: saveState swallows a failing *)
(* setItem, which leaves the previous copy in place.                      *)
Persist(pv, py, r) ==
    stored' \in IF StorageMayFail
                  THEN {[providers |-> pv, payments |-> py, rates |-> r], stored}
                  ELSE {[providers |-> pv, payments |-> py, rates |-> r]}

(* ids are from generateId, Date.now() and a random suffix. *)
Fresh(i) == i \notin seen

TypeOK ==
    /\ providers \in Seq(ProviderRec)
    /\ payments \in Seq(PaymentRec)
    /\ rates \in RateSnaps
    /\ seen \subseteq ProviderIds \cup PaymentIds

Init ==
    /\ stored \in {Absent, Corrupt}
    /\ providers = LoadState(stored).providers
    /\ payments = LoadState(stored).payments
    /\ rates = LoadState(stored).rates
    /\ seen = {}

AddProvider(i, v) ==
    /\ Fresh(i)
    /\ providers' = Append(providers, [id |-> i, val |-> v])
    /\ Persist(providers', payments, rates)
    /\ seen' = seen \cup {i}
    /\ UNCHANGED <<payments, rates>>

(* The views call update and delete only for a record they list. *)
UpdateProvider(i, v) ==
    /\ i \in Ids(providers)
    /\ providers' = [k \in DOMAIN providers |->
                       IF providers[k].id = i THEN [providers[k] EXCEPT !.val = v]
                       ELSE providers[k]]
    /\ Persist(providers', payments, rates)
    /\ UNCHANGED <<payments, rates, seen>>

(* deleteProvider without its second filter. *)
DeleteProviderNoCascade(i) ==
    /\ i \in Ids(providers)
    /\ providers' = SelectSeq(providers, LAMBDA r : r.id # i)
    /\ Persist(providers', payments, rates)
    /\ UNCHANGED <<payments, rates, seen>>

(* deleteProvider: "Also delete payments linked to this provider". *)
DeleteProvider(i) ==
    /\ i \in Ids(providers)
    /\ providers' = SelectSeq(providers, LAMBDA r : r.id # i)
    /\ payments' = SelectSeq(payments, LAMBDA r : r.provider # i)
    /\ Persist(providers', payments', rates)
    /\ UNCHANGED <<rates, seen>>

(* addPayment from PaymentForm, whose provider select lists $providers. *)
AddPayment(q, p, d) ==
    /\ Fresh(q)
    /\ p \in Ids(providers)
    /\ payments' = Append(payments, [id |-> q, provider |-> p, due |-> d])
    /\ Persist(providers, payments', rates)
    /\ seen' = seen \cup {q}
    /\ UNCHANGED <<providers, rates>>

(* updatePayment: a shallow merge of the fields into every matching entry. *)
SetPaymentFields(q, f) ==
    [k \in DOMAIN payments |->
        IF payments[k].id = q
          THEN [r \in DOMAIN payments[k] |->
                  IF r \in DOMAIN f THEN f[r] ELSE payments[k][r]]
          ELSE payments[k]]

UpdatePayment(q, p, d) ==
    /\ q \in Ids(payments)
    /\ p \in Ids(providers)
    /\ payments' = SetPaymentFields(q, [provider |-> p, due |-> d])
    /\ Persist(providers, payments', rates)
    /\ UNCHANGED <<providers, rates, seen>>

DeletePayment(q) ==
    /\ q \in Ids(payments)
    /\ payments' = SelectSeq(payments, LAMBDA r : r.id # q)
    /\ Persist(providers, payments', rates)
    /\ UNCHANGED <<providers, rates, seen>>

(* markPaymentPaid: return unless the payment is found, then             *)
(* updatePayment with the advanced date (DueDates models the date step;  *)
(* here it is the next date index, up to MaxDue).                          *)
MarkPaymentPaid(q) ==
    \E k \in DOMAIN payments :
        /\ payments[k].id = q
        /\ payments[k].due < MaxDue
        /\ payments' = SetPaymentFields(q, [due |-> payments[k].due + 1])
        /\ Persist(providers, payments', rates)
        /\ UNCHANGED <<providers, rates, seen>>

SetRates(r) ==
    /\ rates' = r
    /\ Persist(providers, payments, rates')
    /\ UNCHANGED <<providers, payments, seen>>

(* importPaymentsData without the Array.isArray checks. *)
ImportNoArrayCheck(doc) ==
    /\ doc # Corrupt
    /\ providers' = doc.providers
    /\ payments' = doc.payments
    /\ Persist(providers', payments', rates)
    /\ UNCHANGED <<rates, seen>>

(* importPaymentsData: JSON.parse, then each array the document carries  *)
(* replaces the store's, then persist() and return true; a parse error   *)
(* returns false and changes nothing.                                      *)
Import(doc) ==
    /\ doc # Corrupt
    /\ providers' = IF doc.providers # Absent THEN doc.providers ELSE providers
    /\ payments' = IF doc.payments # Absent THEN doc.payments ELSE payments
    /\ Persist(providers', payments', rates)
    /\ seen' = seen \cup Ids(providers') \cup Ids(payments')
    /\ UNCHANGED rates

(* The page is reloaded: the module initialises from loadState(). *)
Reload ==
    /\ providers' = LoadState(stored).providers
    /\ payments' = LoadState(stored).payments
    /\ rates' = LoadState(stored).rates
    /\ UNCHANGED <<stored, seen>>


Next ==
    \/ \E i \in ProviderIds, v \in PVals : AddProvider(i, v) \/ UpdateProvider(i, v)
    \/ \E i \in ProviderIds : DeleteProvider(i)
    \/ \E q \in PaymentIds, p \in ProviderIds, d \in Dues :
          AddPayment(q, p, d) \/ UpdatePayment(q, p, d)
    \/ \E q \in PaymentIds : DeletePayment(q) \/ MarkPaymentPaid(q)
    \/ \E r \in RateSnaps : SetRates(r)
    \/ \E doc \in Docs : Import(doc)
    \/ Reload

Spec == Init /\ [][Next]_vars

-----------------------------------------------------------------------------
(* Refinement *)

(* The array s as the function from each id to the record holding it. *)
AbsCollection(s, ids, Rec(_)) ==
    [i \in ids |-> IF \E k \in DOMAIN s : s[k].id = i
                     THEN Rec(s[CHOOSE k \in DOMAIN s : s[k].id = i]) ELSE None]

ProviderOf(r) == r.val
PaymentOf(r) == [provider |-> r.provider, due |-> r.due]

AbsProviders == AbsCollection(providers, ProviderIds, ProviderOf)
AbsPayments  == AbsCollection(payments, PaymentIds, PaymentOf)

(* A document as the collections it carries; a missing array is Keep. *)
AbsDoc(d) ==
    [providers |-> IF d.providers = Absent THEN Absent
                   ELSE AbsCollection(d.providers, ProviderIds, ProviderOf),
     payments  |-> IF d.payments = Absent THEN Absent
                   ELSE AbsCollection(d.payments, PaymentIds, PaymentOf)]

Abs == INSTANCE RecordStore
         WITH providers <- AbsProviders, payments <- AbsPayments,
              Keep <- Absent, Imports <- {AbsDoc(d) : d \in Docs \ {Corrupt}}

(* The local store keeps RecordStore's promises: a provider is deleted   *)
(* with its payments, payments are created for existing providers, and a *)
(* reload shows the store as it was before, because every action ends    *)
(* with persist().                                                         *)
ImplementsRecordStore == Abs!Spec

=============================================================================
