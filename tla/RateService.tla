---------------------------- MODULE RateService ----------------------------
(***************************************************************************)
(* The exchange-rate loader of the payments feature: loadRates in          *)
(* lib/payments/currency.ts with fetchWithTimeout, the $rates and          *)
(* $ratesLoading atoms of paymentsStore.ts and FALLBACK_RATES.             *)
(*                                                                         *)
(* Each call of loadRates is a process.  The route effect calls it on      *)
(* every mount without awaiting it, so calls may overlap.  A call's        *)
(* control is split at its awaits:                                         *)
(*   "fetch"   awaiting the response headers of fetchWithTimeout;          *)
(*   "body"    awaiting res.json(), after the abort timer was cleared;     *)
(*   "backoff" awaiting the 2000 ms sleep before the single retry.         *)
(* The code between two awaits runs atomically and is one action.         *)
(*                                                                         *)
(* A rate is abstracted to the class of the number the code computes:      *)
(* "pos" (positive finite), "zero" (finite 0) or "nan" (not finite).       *)
(* MARKUP = 1.05 maps each class to itself.                                *)
(***************************************************************************)
EXTENDS Naturals, FiniteSets

CONSTANTS
    Calls,       \* the loadRates calls of a run, numbered 1..n in start order
    ValueKinds,  \* the kinds of JSON value found at Valute.<CUR>.Value
    NoCall       \* marks the fallback snapshot, produced by no call

ASSUME Calls \subseteq Nat \ {0} /\ NoCall \notin Calls

VARIABLES
    rates,         \* $rates
    ratesLoading,  \* $ratesLoading
    pc,            \* control point of each call
    attempt,       \* 0 before the first fetch, then 1 or 2
    data,          \* the call's `data`: the parsed payload, or NoData
    outcome        \* what the call published when it finished (ghost)

vars == <<rates, ratesLoading, pc, attempt, data, outcome>>

NoData == [usd |-> "none", eur |-> "none"]

\* The JSON value kinds a payload may hold at Valute.USD.Value; "missing"
\* also stands for an absent Valute or USD object (optional chaining).
Payload == [usd : ValueKinds, eur : ValueKinds]

Snapshot == [source : {"cbr", "fallback"}, USD : {"pos", "zero", "nan"},
             EUR : {"pos", "zero", "nan"}, call : Calls \cup {NoCall}]

(* paymentsTypes.ts FALLBACK_RATES: 95 * 1.05 and 105 * 1.05.             *)
FALLBACK_RATES == [source |-> "fallback", USD |-> "pos", EUR |-> "pos",
                   call |-> NoCall]

(* Number(v) on a JSON value: a number keeps its value, null and "" give  *)
(* 0, a numeric string its number, undefined and other text NaN.          *)
NumberOf(k) ==
    CASE k \in {"num", "numstr"}   -> "pos"
      [] k \in {"null", "emptystr"} -> "zero"
      [] k \in {"missing", "text"}  -> "nan"

IsFinite(n) == n # "nan"

TypeOK ==
    /\ rates \in Snapshot
    /\ ratesLoading \in BOOLEAN
    /\ pc \in [Calls -> {"idle", "fetch", "body", "backoff", "done"}]
    /\ attempt \in [Calls -> 0..2]
    /\ data \in [Calls -> Payload \cup {NoData}]
    /\ outcome \in [Calls -> {"none", "cbr", "fallback"}]

Init ==
    /\ rates = FALLBACK_RATES
    /\ ratesLoading = FALSE
    /\ pc = [c \in Calls |-> "idle"]
    /\ attempt = [c \in Calls |-> 0]
    /\ data = [c \in Calls |-> NoData]
    /\ outcome = [c \in Calls |-> "none"]

(* The outer catch and finally: setRates(FALLBACK_RATES), then           *)
(* $ratesLoading.set(false).                                              *)
Fallback(c) ==
    /\ rates' = FALLBACK_RATES
    /\ ratesLoading' = FALSE
    /\ pc' = [pc EXCEPT ![c] = "done"]
    /\ outcome' = [outcome EXCEPT ![c] = "fallback"]

(* Two plausible variants of AttemptFails: no retry, and a retry loop    *)
(* with no cap.                                                            *)
FailNoRetry(c) ==
    /\ Fallback(c)
    /\ UNCHANGED <<attempt, data>>

FailRetryForever(c) ==
    /\ pc' = [pc EXCEPT ![c] = "backoff"]
    /\ attempt' = [attempt EXCEPT ![c] = @ + 1]
    /\ UNCHANGED <<rates, ratesLoading, data, outcome>>

(* A failure of the current attempt: the first attempt's inner catch     *)
(* sleeps before the retry; a failure of the retry reaches the outer     *)
(* catch.                                                                  *)
AttemptFails(c) ==
    \/ /\ attempt[c] = 1
       /\ pc' = [pc EXCEPT ![c] = "backoff"]
       /\ UNCHANGED <<rates, ratesLoading, attempt, data, outcome>>
    \/ /\ attempt[c] = 2
       /\ Fallback(c)
       /\ UNCHANGED <<attempt, data>>

(* loadRates entry: $ratesLoading.set(true), then the first fetch.       *)
(* Calls start in the order of their numbers.                             *)
Start(c) ==
    /\ pc[c] = "idle"
    /\ \A d \in Calls : d < c => pc[d] # "idle"
    /\ ratesLoading' = TRUE
    /\ pc' = [pc EXCEPT ![c] = "fetch"]
    /\ attempt' = [attempt EXCEPT ![c] = 1]
    /\ UNCHANGED <<rates, data, outcome>>

(* fetch resolves with headers before the timer fires; clearTimeout runs  *)
(* in the finally.  A non-2xx status throws.                              *)
Headers(c, ok) ==
    /\ pc[c] = "fetch"
    /\ IF ok
         THEN /\ pc' = [pc EXCEPT ![c] = "body"]
              /\ UNCHANGED <<rates, ratesLoading, attempt, data, outcome>>
         ELSE AttemptFails(c)

(* The 6000 ms timer fires first and aborts the request (a network error *)
(* rejects the same way).                                                  *)
Abort(c) ==
    /\ pc[c] = "fetch"
    /\ AttemptFails(c)

(* The code after `data = await res.json()` up to the return: the Number *)
(* conversion, the isFinite check and setRates with the marked-up live  *)
(* rates, or the "Invalid API data" throw to the fallback.  Either way   *)
(* the finally clears $ratesLoading.                                       *)
Publish(c, p) ==
    IF IsFinite(NumberOf(p.usd)) /\ IsFinite(NumberOf(p.eur))
      THEN /\ rates' = [source |-> "cbr", USD |-> NumberOf(p.usd),
                        EUR |-> NumberOf(p.eur), call |-> c]
           /\ ratesLoading' = FALSE
           /\ pc' = [pc EXCEPT ![c] = "done"]
           /\ outcome' = [outcome EXCEPT ![c] = "cbr"]
      ELSE Fallback(c)

(* res.json() resolves with payload p.  No timer bounds this await.      *)
Body(c, p) ==
    /\ pc[c] = "body"
    /\ data' = [data EXCEPT ![c] = p]
    /\ Publish(c, p)
    /\ UNCHANGED attempt

(* res.json() rejects: the body is not JSON or the connection breaks.    *)
BodyError(c) ==
    /\ pc[c] = "body"
    /\ AttemptFails(c)

(* The 2000 ms sleep ends; the retry fetch starts.                        *)
BackoffDone(c) ==
    /\ pc[c] = "backoff"
    /\ pc' = [pc EXCEPT ![c] = "fetch"]
    /\ attempt' = [attempt EXCEPT ![c] = 2]
    /\ UNCHANGED <<rates, ratesLoading, data, outcome>>

Next ==
    \E c \in Calls :
        \/ Start(c)
        \/ \E ok \in BOOLEAN : Headers(c, ok)
        \/ Abort(c)
        \/ \E p \in Payload : Body(c, p)
        \/ BodyError(c)
        \/ BackoffDone(c)

(* Timers fire: the abort timer while headers are awaited and the sleep  *)
(* of the backoff.  Nothing in the code bounds the wait for the response *)
(* body, so Body and BodyError get no fairness.                          *)
Fairness ==
    \A c \in Calls : WF_vars(Abort(c)) /\ WF_vars(BackoffDone(c))

Spec == Init /\ [][Next]_vars /\ Fairness

-----------------------------------------------------------------------------
(* Properties *)

(* loadRates retries once: a call falls back to FALLBACK_RATES only after *)
(* its retry failed, or when the payload it parsed was not finite.        *)
FallbackOnlyAfterRetryOrBadPayload ==
    \A c \in Calls :
        outcome[c] = "fallback" =>
            \/ attempt[c] = 2
            \/ /\ data[c] # NoData
               /\ ~(IsFinite(NumberOf(data[c].usd)) /\ IsFinite(NumberOf(data[c].eur)))

(* The finally of loadRates: a started call eventually clears the        *)
(* $ratesLoading flag of the route's badge.                               *)
RatesLoadingEventuallyClears ==
    ratesLoading ~> ~ratesLoading

=============================================================================
