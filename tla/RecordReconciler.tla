--------------------------- MODULE RecordReconciler ---------------------------
(***************************************************************************)
(* The client-side record store of the synced payments module             *)
(* (paymentsStore.ts): one collection manager (providerManager; the       *)
(* paymentManager is the same code over another record type), the page   *)
(* lifecycle that drives it (initPayments / cleanupPayments, called from   *)
(* the payments route's effect), the PocketBase collection it mirrors and  *)
(* the realtime handlers that feed it.                                     *)
(*                                                                         *)
(* Each call of initPayments is a process i \in Visits (one per mount of   *)
(* the route).  Its awaits split it into atomic steps: the list request is *)
(* read by the server, its response applied, the subscription registered  *)
(* at the server, and its promise resolved.  Each subscription is one      *)
(* realtime handler with a FIFO queue of events (one SSE stream).  Writes  *)
(* to the collection, from this client's CRUD calls or from any other      *)
(* client, change the server and enqueue an event on every live handler;   *)
(* addProvider/updateProvider/deleteProvider never touch the local cache.  *)
(***************************************************************************)
EXTENDS Naturals, Sequences, FiniteSets

SE == INSTANCE SequencesExt

CONSTANTS
    Ids,        \* record ids the server may assign (never reused)
    RecVals,    \* PocketBase field values of a record, "" = unset
    Currency,   \* the domain values of the optional field
    Absent,     \* model value: no record with this id
    NoValue,    \* model value: `undefined` in the domain record / `unsub`
    Visits,     \* 1..MaxVisits: the mounts of the payments route
    MaxWrites,  \* bound on writes to the collection
    StreamMayDrop \* the SSE connection may drop and reconnect

ASSUME Absent \notin RecVals /\ "" \in RecVals /\ RecVals \ {""} \subseteq Currency

VARIABLES
    db,         \* the collection at the server: [Ids -> RecVals \cup {Absent}]
    used,       \* ids the server has ever assigned
    writes,     \* writes made so far (bounded by MaxWrites)
    cache,      \* $providers: a sequence of domain records
    loading,    \* $paymentsLoading
    error,      \* $paymentsError is set (TRUE) or null (FALSE)
    mounted,    \* the payments route is mounted
    visit,      \* the latest visit started (0 = none yet)
    pc,         \* pc[i]: where initPayments of visit i is
    req,        \* req[i]: state of visit i's own getFullList request
    snap,       \* snap[i]: the collection as the server read it for visit i
    sub,        \* sub[i]: state of visit i's subscription / handler
    queue,      \* queue[i]: realtime events not yet delivered to handler i
    unsub,      \* the manager's `unsub` handle: a visit or NoValue
    missed      \* ghost: ids written in the latest visit between the server
                \* reading its list and registering its subscription

vars == <<db, used, writes, cache, loading, error, mounted, visit, pc, req,
          snap, sub, queue, unsub, missed>>

DbState == [Ids -> RecVals \cup {Absent}]

Provider == [id: Ids, currencyDefault: Currency \cup {NoValue}]

Event == [action: {"create", "update", "delete"}, id: Ids, record: RecVals]

(* Mutant of ToProvider: the backend's "" is not mapped to undefined     *)
ToProviderKeepsEmpty(id, r) == [id |-> id, currencyDefault |-> r]

(* toProvider: a PocketBase record to the domain type; "" becomes undefined *)
ToProvider(id, r) ==
    [id |-> id, currencyDefault |-> IF r = "" THEN NoValue ELSE r]

(* providerManager.add: upsert by id through a Map; an existing id keeps   *)
(* its position and its value is replaced whole, a new id is appended.     *)
Add(c, p) ==
    IF \E k \in DOMAIN c : c[k].id = p.id
    THEN LET k == CHOOSE k \in DOMAIN c : c[k].id = p.id
         IN  [c EXCEPT ![k] = p]
    ELSE Append(c, p)

(* providerManager.remove: filter out the id; a missing id is a no-op      *)
Remove(c, id) == SelectSeq(c, LAMBDA p : p.id # id)

(* fetchAll: the server's list mapped through toProvider                   *)
FetchAll(s) == SE!SetToSeq({ToProvider(id, s[id]) : id \in {x \in Ids : s[x] # Absent}})

(* Mutant of ApplyEvent: the `delete` branch is missing                   *)
ApplyEventNoDelete(c, e) ==
    IF e.action \in {"create", "update"} THEN Add(c, ToProvider(e.id, e.record)) ELSE c

(* The realtime callback registered by providerManager.subscribe          *)
ApplyEvent(c, e) ==
    CASE e.action \in {"create", "update"} -> Add(c, ToProvider(e.id, e.record))
      [] e.action = "delete"               -> Remove(c, e.id)

LiveHandlers == {i \in Visits : sub[i] \in {"live", "resolved"}}

(* A write at the server is broadcast to every live subscription          *)
Broadcast(e) ==
    queue' = [i \in Visits |-> IF i \in LiveHandlers THEN Append(queue[i], e)
                                                   ELSE queue[i]]

(* Ghost bookkeeping of a write of id: is the latest visit in its gap?     *)
InGap == visit # 0 /\ req[visit] \in {"read", "applied"} /\ sub[visit] \in {"none", "sent"}
NoteWrite(id) == missed' = IF InGap THEN missed \cup {id} ELSE missed

-----------------------------------------------------------------------------
Init ==
    /\ db \in DbState
    /\ used = {id \in Ids : db[id] # Absent}
    /\ writes = 0
    /\ cache = << >>
    /\ loading = TRUE
    /\ error = FALSE
    /\ mounted = FALSE
    /\ visit = 0
    /\ pc = [i \in Visits |-> "idle"]
    /\ req = [i \in Visits |-> "none"]
    /\ snap = [i \in Visits |-> [id \in Ids |-> Absent]]
    /\ sub = [i \in Visits |-> "none"]
    /\ queue = [i \in Visits |-> << >>]
    /\ unsub = NoValue
    /\ missed = {}

(* Route effect on mount: initPayments() is started (not awaited).  The    *)
(* two refresh() calls issue their getFullList requests.                  *)
InitPayments(i) ==
    /\ ~mounted
    /\ i = visit + 1
    /\ i \in Visits
    /\ mounted' = TRUE
    /\ visit' = i
    /\ loading' = TRUE
    /\ error' = FALSE
    /\ pc' = [pc EXCEPT ![i] = "refresh"]
    /\ req' = [req EXCEPT ![i] = "sent"]
    /\ missed' = {}
    /\ UNCHANGED <<db, used, writes, cache, snap, sub, queue, unsub>>

(* The server answers the list request with its current contents          *)
RefreshRead(i) ==
    /\ req[i] = "sent"
    /\ req' = [req EXCEPT ![i] = "read"]
    /\ snap' = [snap EXCEPT ![i] = db]
    /\ UNCHANGED <<db, used, writes, cache, loading, error, mounted, visit, pc,
                   sub, queue, unsub, missed>>

(* Mutant of RefreshApply: the list is merged after the current entries   *)
(* instead of replacing them                                               *)
RefreshApplyConcat(i) ==
    /\ req[i] = "read"
    /\ req' = [req EXCEPT ![i] = "applied"]
    /\ cache' = cache \o FetchAll(snap[i])
    /\ UNCHANGED <<db, used, writes, loading, error, mounted, visit, pc, snap,
                   sub, queue, unsub, missed>>

(* refresh(): after `await fetchAll()`, $providers.set(list) wholesale     *)
RefreshApply(i) ==
    /\ req[i] = "read"
    /\ req' = [req EXCEPT ![i] = "applied"]
    /\ cache' = FetchAll(snap[i])
    /\ UNCHANGED <<db, used, writes, loading, error, mounted, visit, pc, snap,
                   sub, queue, unsub, missed>>

(* The list request rejects: Promise.all rejects, the catch sets the      *)
(* error and the finally clears the loading flag.                          *)
RefreshFail(i) ==
    /\ req[i] \in {"sent", "read"}
    /\ req' = [req EXCEPT ![i] = "failed"]
    /\ IF pc[i] = "refresh"
       THEN /\ pc' = [pc EXCEPT ![i] = "done"]
            /\ error' = TRUE
            /\ loading' = FALSE
       ELSE UNCHANGED <<pc, error, loading>>
    /\ UNCHANGED <<db, used, writes, cache, mounted, visit, snap, sub, queue,
                   unsub, missed>>

(* Mutant of SiblingFail: the catch path does not clear the loading flag   *)
SiblingFailNoFinally(i) ==
    /\ pc[i] \in {"refresh", "subscribe"}
    /\ pc' = [pc EXCEPT ![i] = "done"]
    /\ error' = TRUE
    /\ UNCHANGED <<db, used, writes, cache, loading, mounted, visit, req, snap,
                   sub, queue, unsub, missed>>

(* The sibling call in the same Promise.all (paymentManager's refresh or   *)
(* subscribe) rejects: catch + finally run while this manager's own call   *)
(* is still in flight and will complete later on its own.                  *)
SiblingFail(i) ==
    /\ pc[i] \in {"refresh", "subscribe"}
    /\ pc' = [pc EXCEPT ![i] = "done"]
    /\ error' = TRUE
    /\ loading' = FALSE
    /\ UNCHANGED <<db, used, writes, cache, mounted, visit, req, snap, sub,
                   queue, unsub, missed>>

(* Both refreshes resolved: Promise.all continues with subscribe()        *)
StartSubscribe(i) ==
    /\ pc[i] = "refresh"
    /\ req[i] = "applied"
    /\ pc' = [pc EXCEPT ![i] = "subscribe"]
    /\ sub' = [sub EXCEPT ![i] = "sent"]
    /\ UNCHANGED <<db, used, writes, cache, loading, error, mounted, visit, req,
                   snap, queue, unsub, missed>>

(* The server registers the subscription: the handler starts receiving   *)
(* events before the subscribe promise has resolved.                      *)
SubscribeRegister(i) ==
    /\ sub[i] = "sent"
    /\ sub' = [sub EXCEPT ![i] = "live"]
    /\ UNCHANGED <<db, used, writes, cache, loading, error, mounted, visit, pc,
                   req, snap, queue, unsub, missed>>

(* `unsub = await ...subscribe(...)`: the handle is stored, overwriting   *)
(* whatever handle was there, whether or not the page is still mounted.   *)
SubscribeResolve(i) ==
    /\ sub[i] = "live"
    /\ sub' = [sub EXCEPT ![i] = "resolved"]
    /\ unsub' = i
    /\ UNCHANGED <<db, used, writes, cache, loading, error, mounted, visit, pc,
                   req, snap, queue, missed>>

(* The subscribe request rejects: catch + finally                          *)
SubscribeFail(i) ==
    /\ sub[i] = "sent"
    /\ sub' = [sub EXCEPT ![i] = "failed"]
    /\ IF pc[i] = "subscribe"
       THEN /\ pc' = [pc EXCEPT ![i] = "done"]
            /\ error' = TRUE
            /\ loading' = FALSE
       ELSE UNCHANGED <<pc, error, loading>>
    /\ UNCHANGED <<db, used, writes, cache, mounted, visit, req, snap, queue,
                   unsub, missed>>

(* Both subscriptions resolved: the finally clears the loading flag       *)
InitDone(i) ==
    /\ pc[i] = "subscribe"
    /\ sub[i] = "resolved"
    /\ pc' = [pc EXCEPT ![i] = "done"]
    /\ loading' = FALSE
    /\ UNCHANGED <<db, used, writes, cache, error, mounted, visit, req, snap,
                   sub, queue, unsub, missed>>

(* providerManager.unsubscribe: unsub?.() closes the handler the manager *)
(* holds, if any, and the handle is cleared.                               *)
Unsubscribe ==
    /\ IF unsub # NoValue
       THEN /\ sub' = [sub EXCEPT ![unsub] = "closed"]
            /\ queue' = [queue EXCEPT ![unsub] = << >>]
       ELSE UNCHANGED <<sub, queue>>
    /\ unsub' = NoValue

(* Route effect cleanup: cleanupPayments() calls unsubscribe(), then the *)
(* stores are reset.                                                       *)
CleanupPayments ==
    /\ mounted
    /\ mounted' = FALSE
    /\ Unsubscribe
    /\ cache' = << >>
    /\ loading' = TRUE
    /\ error' = FALSE
    /\ UNCHANGED <<db, used, writes, visit, pc, req, snap, missed>>

(* A live handler receives the next event of its stream                   *)
Deliver(i) ==
    /\ i \in LiveHandlers
    /\ queue[i] # << >>
    /\ cache' = ApplyEvent(cache, Head(queue[i]))
    /\ queue' = [queue EXCEPT ![i] = Tail(@)]
    /\ UNCHANGED <<db, used, writes, loading, error, mounted, visit, pc, req,
                   snap, sub, unsub, missed>>

(* The SSE connection drops and the SDK reconnects and resubmits the      *)
(* subscription: events broadcast while disconnected never arrive, and no  *)
(* code listens for the reconnect to refresh.                              *)
StreamReconnect(i) ==
    /\ StreamMayDrop
    /\ i \in LiveHandlers
    /\ queue[i] # << >>
    /\ queue' = [queue EXCEPT ![i] = << >>]
    /\ UNCHANGED <<db, used, writes, cache, loading, error, mounted, visit, pc,
                   req, snap, sub, unsub, missed>>

(* addProvider (or any client's create): the server assigns a fresh id    *)
CreateRecord(id, r) ==
    /\ writes < MaxWrites
    /\ id \notin used
    /\ db' = [db EXCEPT ![id] = r]
    /\ used' = used \cup {id}
    /\ writes' = writes + 1
    /\ Broadcast([action |-> "create", id |-> id, record |-> r])
    /\ NoteWrite(id)
    /\ UNCHANGED <<cache, loading, error, mounted, visit, pc, req, snap, sub,
                   unsub>>

(* updateProvider: the record is replaced at the server                   *)
UpdateRecord(id, r) ==
    /\ writes < MaxWrites
    /\ db[id] \notin {Absent, r}
    /\ db' = [db EXCEPT ![id] = r]
    /\ writes' = writes + 1
    /\ Broadcast([action |-> "update", id |-> id, record |-> r])
    /\ NoteWrite(id)
    /\ UNCHANGED <<used, cache, loading, error, mounted, visit, pc, req, snap,
                   sub, unsub>>

(* deleteProvider: the record is deleted at the server                    *)
DeleteRecord(id) ==
    /\ writes < MaxWrites
    /\ db[id] # Absent
    /\ db' = [db EXCEPT ![id] = Absent]
    /\ writes' = writes + 1
    /\ Broadcast([action |-> "delete", id |-> id, record |-> db[id]])
    /\ NoteWrite(id)
    /\ UNCHANGED <<used, cache, loading, error, mounted, visit, pc, req, snap,
                   sub, unsub>>

Next ==
    \/ \E i \in Visits :
          \/ InitPayments(i) \/ RefreshRead(i) \/ RefreshApply(i)
          \/ RefreshFail(i) \/ SiblingFail(i) \/ StartSubscribe(i)
          \/ SubscribeRegister(i) \/ SubscribeResolve(i) \/ SubscribeFail(i)
          \/ InitDone(i) \/ Deliver(i) \/ StreamReconnect(i)
    \/ CleanupPayments
    \/ \E id \in Ids, r \in RecVals : CreateRecord(id, r) \/ UpdateRecord(id, r)
    \/ \E id \in Ids : DeleteRecord(id)

(* Every request the page issued eventually gets its answer (resolve or    *)
(* reject) and every event on a live stream is eventually dispatched.      *)
(* Mounting, unmounting and writes are the user's and may never happen.    *)
Fairness ==
    \A i \in Visits :
        /\ WF_vars(RefreshRead(i) \/ RefreshFail(i))
        /\ WF_vars(RefreshApply(i) \/ RefreshFail(i))
        /\ WF_vars(StartSubscribe(i) \/ SiblingFail(i))
        /\ WF_vars(SubscribeRegister(i) \/ SubscribeFail(i))
        /\ WF_vars(SubscribeResolve(i))
        /\ WF_vars(InitDone(i) \/ SiblingFail(i))
        /\ WF_vars(Deliver(i))

Spec == Init /\ [][Next]_vars /\ Fairness

-----------------------------------------------------------------------------
(***************************************************************************)
(* Properties                                                              *)
(***************************************************************************)

TypeOK ==
    /\ db \in DbState
    /\ used \subseteq Ids
    /\ writes \in 0..MaxWrites
    /\ cache \in Seq(Provider)
    /\ loading \in BOOLEAN /\ error \in BOOLEAN /\ mounted \in BOOLEAN
    /\ visit \in {0} \cup Visits
    /\ pc \in [Visits -> {"idle", "refresh", "subscribe", "done"}]
    /\ req \in [Visits -> {"none", "sent", "read", "applied", "failed"}]
    /\ snap \in [Visits -> DbState]
    /\ sub \in [Visits -> {"none", "sent", "live", "resolved", "failed", "closed"}]
    /\ queue \in [Visits -> Seq(Event)]
    /\ unsub \in Visits \cup {NoValue}

(* The cache read as a function of ids, and the server read the same way  *)
CacheView ==
    [id \in Ids |-> IF \E k \in DOMAIN cache : cache[k].id = id
                    THEN cache[CHOOSE k \in DOMAIN cache : cache[k].id = id]
                    ELSE Absent]
ServerView ==
    [id \in Ids |-> IF db[id] = Absent THEN Absent ELSE ToProvider(id, db[id])]

(* The page has finished loading without error, its own subscription is   *)
(* the only live one, has dispatched every event, and no list request of  *)
(* any visit is still in flight.                                          *)
Settled ==
    /\ mounted
    /\ pc[visit] = "done"
    /\ ~error
    /\ unsub = visit
    /\ LiveHandlers = {visit}
    /\ queue[visit] = << >>
    /\ \A i \in Visits : req[i] \notin {"sent", "read"}

(* The cache holds each id at most once, although a record reaches it by  *)
(* a refresh list and by create/update events of possibly several live    *)
(* subscriptions (providerManager.add's Map and refresh's set).           *)
NoDuplicateIds == SE!IsInjective([k \in DOMAIN cache |-> cache[k].id])

(* spec 4.1/5: once settled, the cache equals the server collection        *)
(* (initPayments refreshes before it subscribes).                          *)
CacheMatchesServerWhenSettled == Settled => CacheView = ServerView

(* What initPayments does guarantee within one visit: once settled, every *)
(* record not written in the gap between the server reading the list and  *)
(* registering the subscription is in the cache exactly as at the server  *)
(* (refresh's wholesale set, then FIFO create/update/delete dispatch).     *)
ConvergesOutsideGap ==
    Settled => \A id \in Ids \ missed : CacheView[id] = ServerView[id]

(* spec 5: after cleanupPayments has cleared the cache, no late refresh or *)
(* realtime event may refill it while the page is unmounted.              *)
ClearedCacheStaysEmpty == ~mounted => cache = << >>

(* While the page stays mounted, $paymentsLoading set by initPayments or   *)
(* cleanupPayments is eventually cleared by some initPayments' finally.   *)
LoadingEventuallyClears == (mounted /\ loading) ~> (~loading \/ ~mounted)

=============================================================================
