---------------------------- MODULE PaymentsPage ----------------------------
(***************************************************************************)
(* The payments page of the synced store, once its data is loaded and its *)
(* subscriptions are live: the user's actions on the page, the PocketBase *)
(* collections they call, and the realtime events that bring the results *)
(* back into the $payments cache.                                          *)
(*                                                                         *)
(*   PaymentsTable, PaymentsMobileCards   "Mark Paid" and "Delete", each   *)
(*        view with its own loadingId slot that disables a row's menu     *)
(*   PaymentsCalendar                      the same two items, unawaited  *)
(*   ProvidersList                         delete a provider (cascades)   *)
(*   markPaymentPaid, updatePayment, deletePayment, deleteProvider         *)
(*   paymentManager's realtime handler (add / remove by id)               *)
(*                                                                         *)
(* A request is split at its await: the click sends it, the server        *)
(* applies it (or the connection fails), and the response resumes the     *)
(* handler.  Requests are independent HTTP calls, so the server applies   *)
(* them in any order; realtime events reach the cache in the order the     *)
(* server emitted them, on a channel of their own.                         *)
(*                                                                         *)
(* A payment is abstracted to its provider and the index of its due date: *)
(* markPaymentPaid moves it to the next index (DueDates models the date   *)
(* arithmetic).                                                            *)
(***************************************************************************)
EXTENDS Naturals, Sequences, FiniteSets, SequencesExt

CONSTANTS
    PaymentIds,     \* record ids of the payments collection
    ProviderIds,    \* record ids of the providers collection
    MaxDue,         \* the last due-date index
    MaxClicks,      \* how many requests the user sends in a run
    MaxMounts,      \* how often the Payments tab content is mounted
    InitServer,     \* the payments on the server when the page loaded
    InitProviders,  \* the providers on the server when the page loaded
    OldIds,         \* provider ids as an imported document names them
    Docs,           \* the files a user may import
    Corrupt,        \* a file JSON.parse rejects
    None            \* no record / empty slot

Dues == 0..MaxDue

PaymentRec == [due : Dues, prov : ProviderIds]

SlotViews == {"table", "cards"}         \* views with a loadingId slot
Views == SlotViews \cup {"calendar"}

ASSUME InitServer \in [PaymentIds -> PaymentRec \cup {None}]

VARIABLES
    server,     \* the payments collection: id -> record or None
    sprov,      \* the ids of the providers on the server
    events,     \* realtime events emitted and not yet handled, in order
    cache,      \* $payments, as the function from id to entry (add is by id)
    loadingId,  \* each list view's loadingId state
    reqs,       \* requests sent and not yet resumed
    clicks,     \* requests sent so far (bounded by MaxClicks)
    toasts,     \* "Payment marked as paid" toasts shown per payment (ghost)
    tab,        \* the route's active tab
    viewport,   \* the list view the screen width shows (the other is hidden)
    listMount,  \* which mount of the Payments tab content is current
    imp,        \* the running importPaymentsData call
    alert,      \* the alert handleImport showed
    issued      \* every record id PocketBase has assigned (ids are unique)

pageVars == <<server, sprov, events, cache, loadingId, reqs, clicks, toasts,
             tab, viewport, listMount>>
impVars == <<imp, alert, issued>>
vars == <<pageVars, impVars>>

Req == [n : 1..MaxClicks, view : Views, mount : 1..MaxMounts,
        op : {"update", "delete"},
        id : PaymentIds, due : Dues, phase : {"sent", "ok", "err"}]

Event == [action : {"create", "update", "delete"}, id : PaymentIds,
          rec : PaymentRec \cup {None}]

Live(f) == {q \in DOMAIN f : f[q] # None}

Doc == [providers : Seq(OldIds), payments : Seq([prov : OldIds, due : Dues])]

(* The call's locals: the loop positions, providerIdMap, the errors array *)
(* (its length), and as ghosts the ids it created.                        *)
ImportState == [pc : {"idle", "providers", "payments", "done"},
                doc : Doc \cup {Corrupt}, i : Nat, j : Nat,
                map : [OldIds -> ProviderIds \cup {None}], errs : Nat,
                newProv : SUBSET ProviderIds,
                made : SUBSET [id : PaymentIds, old : OldIds]]

PageTypeOK ==
    /\ server \in [PaymentIds -> PaymentRec \cup {None}]
    /\ sprov \subseteq ProviderIds
    /\ events \in Seq(Event)
    /\ cache \in [PaymentIds -> PaymentRec \cup {None}]
    /\ loadingId \in [SlotViews -> PaymentIds \cup {None}]
    /\ reqs \subseteq Req
    /\ clicks \in 0..MaxClicks
    /\ toasts \in [PaymentIds -> 0..MaxClicks]
    /\ tab \in {"payments", "calendar", "providers"}
    /\ viewport \in SlotViews
    /\ listMount \in 1..MaxMounts
    /\ imp \in ImportState
    /\ alert \in {"none", "success", "failure"}
    /\ issued \subseteq PaymentIds \cup ProviderIds

PageInit ==
    /\ server = InitServer
    /\ sprov = InitProviders
    /\ events = << >>
    /\ cache = InitServer
    /\ loadingId = [v \in SlotViews |-> None]
    /\ reqs = {}
    /\ clicks = 0
    /\ toasts = [q \in PaymentIds |-> 0]
    /\ tab = "payments"
    /\ viewport \in SlotViews
    /\ listMount = 1

ImportInit ==
    /\ imp = [pc |-> "idle", doc |-> Corrupt, i |-> 1, j |-> 1,
              map |-> [o \in OldIds |-> None], errs |-> 0, newProv |-> {}, made |-> {}]
    /\ alert = "none"
    /\ issued = Live(InitServer) \cup InitProviders

Init == PageInit /\ ImportInit

-----------------------------------------------------------------------------
(* Sending a request *)

Send(v, op, q, d) ==
    /\ clicks < MaxClicks
    /\ clicks' = clicks + 1
    /\ reqs' = reqs \cup {[n |-> clicks + 1, view |-> v, mount |-> listMount,
                           op |-> op, id |-> q,
                           due |-> d, phase |-> "sent"]}

(* markPaymentPaid up to its await: the entry is read from $payments, its *)
(* date advanced by the period, and updatePayment sends the new date.     *)
(* A payment no longer cached returns without a request.                  *)
MarkPaymentPaid(v, q) ==
    /\ cache[q] # None
    /\ cache[q].due < MaxDue
    /\ Send(v, "update", q, cache[q].due + 1)

(* The row's dropdown: its items are disabled while loadingId is the    *)
(* row's id.  Only the list the screen width shows can be clicked.        *)
RowMenuEnabled(v, q) ==
    /\ tab = "payments" /\ v = viewport
    /\ loadingId[v] # q

(* A list view's handleMarkPaid: setLoadingId(id), then markPaymentPaid.  *)
ListMarkPaid(v, q) ==
    /\ RowMenuEnabled(v, q)
    /\ loadingId' = [loadingId EXCEPT ![v] = q]
    /\ MarkPaymentPaid(v, q)
    /\ UNCHANGED <<server, sprov, events, cache, toasts>>

(* A list view's handleDelete once confirm() returns true. *)
ListDelete(v, q) ==
    /\ RowMenuEnabled(v, q)
    /\ cache[q] # None
    /\ loadingId' = [loadingId EXCEPT ![v] = q]
    /\ Send(v, "delete", q, 0)
    /\ UNCHANGED <<server, sprov, events, cache, toasts>>

TableMarkPaid(q) == ListMarkPaid("table", q)
CardsMarkPaid(q) == ListMarkPaid("cards", q)
TableDelete(q) == ListDelete("table", q)
CardsDelete(q) == ListDelete("cards", q)

(* PaymentsCalendar: markPaymentPaid(id) and deletePayment(id), neither  *)
(* awaited, with no busy state.                                            *)
CalendarMarkPaid(q) ==
    /\ tab = "calendar"
    /\ MarkPaymentPaid("calendar", q)
    /\ UNCHANGED <<server, sprov, events, cache, loadingId, toasts>>

CalendarDelete(q) ==
    /\ tab = "calendar"
    /\ cache[q] # None
    /\ Send("calendar", "delete", q, 0)
    /\ UNCHANGED <<server, sprov, events, cache, loadingId, toasts>>

-----------------------------------------------------------------------------
(* The server *)

(* update(id, {nextPayment}): a missing record is a 404. *)
ServerUpdate(r) ==
    /\ r.phase = "sent" /\ r.op = "update"
    /\ IF server[r.id] # None
         THEN LET rec == [server[r.id] EXCEPT !.due = r.due]
              IN  /\ server' = [server EXCEPT ![r.id] = rec]
                  /\ events' = Append(events, [action |-> "update", id |-> r.id, rec |-> rec])
                  /\ reqs' = (reqs \ {r}) \cup {[r EXCEPT !.phase = "ok"]}
         ELSE /\ reqs' = (reqs \ {r}) \cup {[r EXCEPT !.phase = "err"]}
              /\ UNCHANGED <<server, events>>
    /\ UNCHANGED <<sprov, cache, loadingId, clicks, toasts>>

ServerDelete(r) ==
    /\ r.phase = "sent" /\ r.op = "delete"
    /\ IF server[r.id] # None
         THEN /\ server' = [server EXCEPT ![r.id] = None]
              /\ events' = Append(events, [action |-> "delete", id |-> r.id, rec |-> None])
              /\ reqs' = (reqs \ {r}) \cup {[r EXCEPT !.phase = "ok"]}
         ELSE /\ reqs' = (reqs \ {r}) \cup {[r EXCEPT !.phase = "err"]}
              /\ UNCHANGED <<server, events>>
    /\ UNCHANGED <<sprov, cache, loadingId, clicks, toasts>>

(* The connection fails before or after the server applied the request: *)
(* either way the awaited call rejects.                                    *)
ConnectionFails(r) ==
    /\ r.phase \in {"sent", "ok"}
    /\ reqs' = (reqs \ {r}) \cup {[r EXCEPT !.phase = "err"]}
    /\ UNCHANGED <<server, sprov, events, cache, loadingId, clicks, toasts>>

(* ProvidersList handleDelete once confirmed: deleteProvider(id), not    *)
(* awaited.  The relation's cascadeDelete removes the provider's payments, *)
(* each with a realtime delete event, in an order PocketBase picks.        *)
DeleteProvider(p) ==
    /\ tab = "providers"
    /\ p \in sprov
    /\ LET gone == {q \in Live(server) : server[q].prov = p}
       IN  /\ server' = [q \in PaymentIds |-> IF q \in gone THEN None ELSE server[q]]
           /\ \E order \in SetToSeqs(gone) :
                 events' = events \o [k \in DOMAIN order |->
                             [action |-> "delete", id |-> order[k], rec |-> None]]
    /\ sprov' = sprov \ {p}
    /\ UNCHANGED <<cache, loadingId, reqs, clicks, toasts>>

-----------------------------------------------------------------------------
(* Resuming after the await *)

(* Whether the list instance that sent r is still mounted: setLoadingId  *)
(* of an unmounted instance changes nothing.                                *)
Mounted(r) == tab = "payments" /\ r.mount = listMount

(* The slot cleared only after a success, not in the finally. *)
ListResumeClearsOnSuccess(r) ==
    /\ r.view \in SlotViews
    /\ r.phase \in {"ok", "err"}
    /\ reqs' = reqs \ {r}
    /\ loadingId' = IF r.phase = "ok" /\ Mounted(r) THEN [loadingId EXCEPT ![r.view] = None]
                    ELSE loadingId
    /\ toasts' = IF r.op = "update" /\ r.phase = "ok"
                   THEN [toasts EXCEPT ![r.id] = @ + 1] ELSE toasts
    /\ UNCHANGED <<server, sprov, events, cache, clicks>>

(* A list view's handler after `await`: the success or failure toast     *)
(* (toasts are global and outlive the view), then the finally,            *)
(* setLoadingId(null), whichever row the slot names.                      *)
ListResume(r) ==
    /\ r.view \in SlotViews
    /\ r.phase \in {"ok", "err"}
    /\ reqs' = reqs \ {r}
    /\ loadingId' = IF Mounted(r) THEN [loadingId EXCEPT ![r.view] = None] ELSE loadingId
    /\ toasts' = IF r.op = "update" /\ r.phase = "ok"
                   THEN [toasts EXCEPT ![r.id] = @ + 1] ELSE toasts
    /\ UNCHANGED <<server, sprov, events, cache, clicks>>

TableResume(r) == r.view = "table" /\ ListResume(r)
CardsResume(r) == r.view = "cards" /\ ListResume(r)

(* The calendar's promise settles with nobody awaiting it; a rejection is *)
(* unhandled and nothing is shown.                                         *)
CalendarResume(r) ==
    /\ r.view = "calendar"
    /\ r.phase \in {"ok", "err"}
    /\ reqs' = reqs \ {r}
    /\ UNCHANGED <<server, sprov, events, cache, loadingId, clicks, toasts>>

(* Two plausible slips in the handler: the record stored as received,   *)
(* without toPayment, and the delete branch missing.                       *)
HandleEventRaw ==
    /\ events # << >>
    /\ cache' = [cache EXCEPT ![Head(events).id] = Head(events)]
    /\ events' = Tail(events)
    /\ UNCHANGED <<server, sprov, loadingId, reqs, clicks, toasts>>

HandleEventNoRemove ==
    /\ events # << >>
    /\ LET e == Head(events)
       IN  cache' = IF e.action = "delete" THEN cache ELSE [cache EXCEPT ![e.id] = e.rec]
    /\ events' = Tail(events)
    /\ UNCHANGED <<server, sprov, loadingId, reqs, clicks, toasts>>

(* paymentManager's subscription handler on the next event: create and  *)
(* update go through add (a Map keyed by id), delete through remove.      *)
HandleEvent ==
    /\ events # << >>
    /\ LET e == Head(events)
       IN  cache' = [cache EXCEPT ![e.id] = IF e.action = "delete" THEN None ELSE e.rec]
    /\ events' = Tail(events)
    /\ UNCHANGED <<server, sprov, loadingId, reqs, clicks, toasts>>

-----------------------------------------------------------------------------
(* Import (synced store) *)

(* payments.tsx handleImport, in reader.onload: importPaymentsData(content) *)
(* runs to its first await and returns a Promise, which `if (...)` takes   *)
(* as true, so the success alert is shown at once.  Up to that await the  *)
(* call has parsed the file; a parse error returns {success: false}.       *)
HandleImport(d) ==
    /\ imp.pc = "idle"
    /\ alert' = "success"
    /\ imp' = IF d = Corrupt
                THEN [imp EXCEPT !.pc = "done", !.doc = d, !.errs = 1]
                ELSE [imp EXCEPT !.pc = "providers", !.doc = d]
    /\ UNCHANGED <<server, sprov, events, issued>>

FreshProviders == ProviderIds \ issued
FreshPayments == PaymentIds \ issued

(* One provider of the file: `await addProvider(...)` creates it under a  *)
(* new id and providerIdMap maps the file's id to it, or the create fails *)
(* and its error is pushed.                                                *)
ImportProvider ==
    /\ imp.pc = "providers"
    /\ imp.i <= Len(imp.doc.providers)
    /\ LET old == imp.doc.providers[imp.i]
       IN  \/ \E new \in FreshProviders :
                 /\ sprov' = sprov \cup {new}
                 /\ issued' = issued \cup {new}
                 /\ imp' = [imp EXCEPT !.map[old] = new, !.newProv = @ \cup {new},
                                       !.i = @ + 1]
           \/ /\ imp' = [imp EXCEPT !.errs = @ + 1, !.i = @ + 1]
              /\ UNCHANGED <<sprov, issued>>
    /\ UNCHANGED <<server, events, alert>>

(* The providers loop ends; the payments loop starts. *)
ImportProvidersDone ==
    /\ imp.pc = "providers"
    /\ imp.i > Len(imp.doc.providers)
    /\ imp' = [imp EXCEPT !.pc = "payments"]
    /\ UNCHANGED <<server, sprov, events, alert, issued>>

(* The `continue` for an unmapped provider without its errors.push. *)
ImportPaymentSilentSkip ==
    /\ imp.pc = "payments"
    /\ imp.j <= Len(imp.doc.payments)
    /\ imp.map[imp.doc.payments[imp.j].prov] = None
    /\ imp' = [imp EXCEPT !.j = @ + 1]
    /\ UNCHANGED <<server, sprov, events, alert, issued>>

(* One payment of the file: an id missing from providerIdMap is an error *)
(* and skipped; otherwise `await addPayment(...)` with the mapped id       *)
(* creates it, or fails (the network, or the relation rejecting a         *)
(* provider deleted since) and its error is pushed.                        *)
ImportPayment ==
    /\ imp.pc = "payments"
    /\ imp.j <= Len(imp.doc.payments)
    /\ LET e == imp.doc.payments[imp.j]
           p == imp.map[e.prov]
       IN  \/ /\ p # None /\ p \in sprov
              /\ \E q \in FreshPayments :
                    /\ server' = [server EXCEPT ![q] = [due |-> e.due, prov |-> p]]
                    /\ events' = Append(events, [action |-> "create", id |-> q, rec |-> server'[q]])
                    /\ issued' = issued \cup {q}
                    /\ imp' = [imp EXCEPT !.made = @ \cup {[id |-> q, old |-> e.prov]},
                                          !.j = @ + 1]
           \/ /\ imp' = [imp EXCEPT !.errs = @ + 1, !.j = @ + 1]
              /\ UNCHANGED <<server, events, issued>>
    /\ UNCHANGED <<sprov, alert>>

(* return { success: errors.length === 0, errors } *)
ImportDone ==
    /\ imp.pc = "payments"
    /\ imp.j > Len(imp.doc.payments)
    /\ imp' = [imp EXCEPT !.pc = "done"]
    /\ UNCHANGED <<server, sprov, events, alert, issued>>

-----------------------------------------------------------------------------
(* The route's Tabs: TabsContent unmounts the inactive tabs, so the lists *)
(* are mounted afresh, with loadingId null, on every return to Payments.  *)
SwitchTab(t) ==
    /\ t # tab
    /\ t = "payments" => listMount < MaxMounts
    /\ tab' = t
    /\ listMount' = IF t = "payments" THEN listMount + 1 ELSE listMount
    /\ loadingId' = [v \in SlotViews |-> None]
    /\ UNCHANGED <<server, sprov, events, cache, reqs, clicks, toasts, viewport>>

-----------------------------------------------------------------------------

PageNext ==
    \/ \E q \in PaymentIds :
          TableMarkPaid(q) \/ CardsMarkPaid(q) \/ TableDelete(q) \/ CardsDelete(q)
    \/ \E q \in PaymentIds : CalendarMarkPaid(q) \/ CalendarDelete(q)
    \/ \E r \in reqs :
          \/ ServerUpdate(r) \/ ServerDelete(r) \/ ConnectionFails(r)
          \/ TableResume(r) \/ CardsResume(r) \/ CalendarResume(r)
    \/ \E p \in ProviderIds : DeleteProvider(p)
    \/ HandleEvent

UiNext == \E t \in {"payments", "calendar", "providers"} : SwitchTab(t)

ImportNext ==
    \/ \E d \in Docs : HandleImport(d)
    \/ ImportProvider \/ ImportProvidersDone \/ ImportPayment \/ ImportDone

Next ==
    \/ PageNext /\ UNCHANGED <<impVars, tab, viewport, listMount>>
    \/ UiNext /\ UNCHANGED impVars
    \/ ImportNext /\ UNCHANGED <<cache, loadingId, reqs, clicks, toasts, tab, viewport, listMount>>

Spec == Init /\ [][Next]_vars

-----------------------------------------------------------------------------
(* Properties *)

(* The realtime handler keeps $payments equal to the server: whenever    *)
(* every emitted event has been handled, whatever the clicks, cascades,   *)
(* imports and failed connections before, the cache is the collection.   *)
CacheMatchesServerWhenQuiet ==
    events = << >> => cache = server

(* A row's spinner means a request for that row is pending: the slot set *)
(* by handleMarkPaid or handleDelete is cleared by the finally of every   *)
(* request of the view, whether it succeeded or failed.                   *)
BusySlotHasRequest ==
    \A v \in SlotViews :
        loadingId[v] # None =>
            \E r \in reqs : r.view = v /\ r.id = loadingId[v] /\ Mounted(r)

(* "one error message per failed entity": when an import of a parsed file *)
(* returns, each provider and payment of the file was either created or  *)
(* reported, and success is true exactly when nothing was reported.      *)
ImportReportsEveryFailure ==
    imp.pc = "done" /\ imp.doc # Corrupt =>
        imp.errs + Cardinality(imp.newProv) + Cardinality(imp.made)
            = Len(imp.doc.providers) + Len(imp.doc.payments)

(* markPaymentPaid "advances nextPayment date by period": each "Payment  *)
(* marked as paid" toast stands for one advance of the server's date.     *)
(* (Only marks move a date here, and every date starts at index 0.)        *)
MarkToastMeansAdvance ==
    \A q \in PaymentIds : server[q] # None => toasts[q] <= server[q].due

(* handleImport alerts "Import successful!" only for an import that      *)
(* returned success.                                                       *)
ImportAlertMatchesResult ==
    alert = "success" => imp.pc = "done" /\ imp.errs = 0

=============================================================================
