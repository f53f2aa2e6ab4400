--------------------------- MODULE ProviderDialog ---------------------------
(***************************************************************************)
(* The provider dialog of the payments route on top of the synced         *)
(* providers collection (RecordReconciler):                                *)
(*                                                                         *)
(*   route        providerFormOpen / editingProvider, set by the "Add     *)
(*                Provider" button, ProvidersList's Edit item and         *)
(*                handleProviderFormClose                                  *)
(*   ProviderForm handleSubmit: setIsSubmitting(true), await addProvider  *)
(*                or updateProvider, toast, onOpenChange(false), and      *)
(*                setIsSubmitting(false) in finally                        *)
(*                                                                         *)
(* ProviderForm is rendered by the route whether or not its Dialog is     *)
(* open, so isSubmitting outlives a dialog closed with Escape while a     *)
(* save is pending.  The save is split at its await: the click sends it,  *)
(* the server applies it (through RecordReconciler's CreateRecord and     *)
(* UpdateRecord, with their realtime broadcast) or answers 404, or the    *)
(* connection fails; the response resumes handleSubmit.  The form's       *)
(* fields are abstracted to the currencyDefault value it sends.            *)
(***************************************************************************)
EXTENDS RecordReconciler

VARIABLES
    dialog,      \* "closed", "add", or the id of the provider being edited
    submitting,  \* ProviderForm's isSubmitting
    formReq      \* the form's save in flight, or NoValue

dialogVars == <<dialog, submitting, formReq>>
allVars == <<vars, dialogVars>>

DialogStates == {"closed", "add"} \cup Ids

FormReq == [op : {"create", "update"}, id : Ids \cup {NoValue}, r : RecVals,
            phase : {"sent", "ok", "err"}, mounted : BOOLEAN]

DialogTypeOK ==
    /\ TypeOK
    /\ dialog \in DialogStates
    /\ submitting \in BOOLEAN
    /\ formReq \in FormReq \cup {NoValue}

Listed(id) == \E k \in DOMAIN cache : cache[k].id = id

DialogInit ==
    /\ Init
    /\ dialog = "closed"
    /\ submitting = FALSE
    /\ formReq = NoValue

-----------------------------------------------------------------------------
(* The route's dialog state *)

(* "Add Provider": setProviderFormOpen(true); editingProvider is null.   *)
OpenAdd ==
    /\ mounted /\ dialog = "closed"
    /\ dialog' = "add"
    /\ UNCHANGED <<vars, submitting, formReq>>

(* ProvidersList's Edit item on a listed provider: handleEditProvider.   *)
OpenEdit(id) ==
    /\ mounted /\ dialog = "closed"
    /\ Listed(id)
    /\ dialog' = id
    /\ UNCHANGED <<vars, submitting, formReq>>

(* Escape, the overlay or Cancel: handleProviderFormClose(false).  Cancel *)
(* is disabled while submitting; Escape and the overlay are not.          *)
Dismiss ==
    /\ dialog # "closed"
    /\ dialog' = "closed"
    /\ UNCHANGED <<vars, submitting, formReq>>

-----------------------------------------------------------------------------
(* ProviderForm.handleSubmit *)

(* The Save button, enabled unless isSubmitting (name and url are set).  *)
Submit(r) ==
    /\ mounted /\ dialog # "closed"
    /\ ~submitting
    /\ submitting' = TRUE
    /\ formReq' = [op |-> IF dialog = "add" THEN "create" ELSE "update",
                   id |-> IF dialog = "add" THEN NoValue ELSE dialog,
                   r |-> r, phase |-> "sent", mounted |-> TRUE]
    /\ UNCHANGED <<vars, dialog>>

(* The server applies the save: a create gets a fresh id, an update of a  *)
(* deleted provider is a 404.  Saving the value the record already holds  *)
(* succeeds without a change the cache could see.                          *)
FormServerApply ==
    /\ formReq # NoValue /\ formReq.phase = "sent"
    /\ \/ /\ formReq.op = "create"
          /\ \E id \in Ids : CreateRecord(id, formReq.r)
          /\ formReq' = [formReq EXCEPT !.phase = "ok"]
       \/ /\ formReq.op = "update"
          /\ db[formReq.id] = Absent
          /\ formReq' = [formReq EXCEPT !.phase = "err"]
          /\ UNCHANGED vars
       \/ /\ formReq.op = "update"
          /\ db[formReq.id] = formReq.r
          /\ formReq' = [formReq EXCEPT !.phase = "ok"]
          /\ UNCHANGED vars
       \/ /\ formReq.op = "update"
          /\ UpdateRecord(formReq.id, formReq.r)
          /\ formReq' = [formReq EXCEPT !.phase = "ok"]
    /\ UNCHANGED <<dialog, submitting>>

(* The request rejects, before or after the server applied it. *)
FormConnectionFails ==
    /\ formReq # NoValue /\ formReq.phase \in {"sent", "ok"}
    /\ formReq' = [formReq EXCEPT !.phase = "err"]
    /\ UNCHANGED <<vars, dialog, submitting>>

(* Mutant of FormResume: setIsSubmitting(false) at the end of the try    *)
(* block instead of in finally.                                            *)
FormResumeNoFinally ==
    /\ formReq # NoValue /\ formReq.phase \in {"ok", "err"}
    /\ formReq' = NoValue
    /\ IF formReq.mounted /\ formReq.phase = "ok"
         THEN dialog' = "closed" /\ submitting' = FALSE
         ELSE UNCHANGED <<dialog, submitting>>
    /\ UNCHANGED vars

(* After the await: on success a toast and onOpenChange(false), which    *)
(* closes whatever provider dialog is open now; on failure a toast; then *)
(* finally setIsSubmitting(false).  Setters of an unmounted form do       *)
(* nothing.                                                                *)
FormResume ==
    /\ formReq # NoValue /\ formReq.phase \in {"ok", "err"}
    /\ formReq' = NoValue
    /\ IF formReq.mounted
         THEN /\ dialog' = IF formReq.phase = "ok" THEN "closed" ELSE dialog
              /\ submitting' = FALSE
         ELSE UNCHANGED <<dialog, submitting>>
    /\ UNCHANGED vars

(* cleanupPayments runs when the route unmounts: the dialog and the form *)
(* go with it, and a pending save resumes into an unmounted form.          *)
RouteUnmount ==
    /\ CleanupPayments
    /\ dialog' = "closed"
    /\ submitting' = FALSE
    /\ formReq' = IF formReq = NoValue THEN NoValue
                  ELSE [formReq EXCEPT !.mounted = FALSE]

-----------------------------------------------------------------------------
DialogNext ==
    \/ /\ \/ \E i \in Visits :
                \/ InitPayments(i) \/ RefreshRead(i) \/ RefreshApply(i)
                \/ RefreshFail(i) \/ SiblingFail(i) \/ StartSubscribe(i)
                \/ SubscribeRegister(i) \/ SubscribeResolve(i) \/ SubscribeFail(i)
                \/ InitDone(i) \/ Deliver(i) \/ StreamReconnect(i)
          \/ \E id \in Ids, r \in RecVals : CreateRecord(id, r) \/ UpdateRecord(id, r)
          \/ \E id \in Ids : DeleteRecord(id)
       /\ UNCHANGED dialogVars
    \/ RouteUnmount
    \/ OpenAdd \/ Dismiss
    \/ \E id \in Ids : OpenEdit(id)
    \/ \E r \in RecVals : Submit(r)
    \/ FormServerApply \/ FormConnectionFails \/ FormResume

(* The save's request is answered and its response handled, as every     *)
(* request of the page is (RecordReconciler's Fairness).                  *)
DialogFairness ==
    /\ Fairness
    /\ WF_allVars(FormServerApply \/ FormConnectionFails)
    /\ WF_allVars(FormResume)

DialogSpec == DialogInit /\ [][DialogNext]_allVars /\ DialogFairness

-----------------------------------------------------------------------------
(* Properties *)

(* ProviderForm's Save button, disabled by isSubmitting, is enabled again *)
(* once the save has been answered, whether it succeeded or failed: the   *)
(* finally block runs on every path out of handleSubmit.                  *)
SaveEventuallyReenabled == submitting ~> ~submitting

=============================================================================
