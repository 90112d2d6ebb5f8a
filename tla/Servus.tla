------------------------------- MODULE Servus -------------------------------
(***************************************************************************)
(* The avahi ZeroConf wrapper servus::avahi::Servus (src/.../servus/       *)
(* avahi/servus.h, base class servus_impl.h), one instance used by        *)
(* Callers application threads, and the avahi daemon as the environment.   *)
(*                                                                         *)
(* Every member takes the process-wide _mutex, except beginBrowsing's      *)
(* first test of _browser, isBrowsing, discover's assert and set()'s       *)
(* _updateRecord.  avahi calls the client, browser, resolver and entry     *)
(* group callbacks only from inside simple_poll_iterate, which runs in     *)
(* announce and browse with the mutex held: an event is one step of the   *)
(* polling caller.  After simple_poll_quit every later iterate returns     *)
(* an error at once and dispatches nothing.                                *)
(*                                                                         *)
(* The daemon's answers (whether a browser, resolver or service record is  *)
(* created or committed) are nondeterministic.  As in avahi, a browser can *)
(* only be created while the client is connected (running or collision).   *)
(***************************************************************************)
EXTENDS Integers, FiniteSets

CONSTANTS
  Callers,      \* application threads using the instance
  Instances,    \* instance names passed to announce (hostname included)
  Names,        \* service instance names other hosts announce
  Scopes,       \* interfaces passed to beginBrowsing / discover
  PollErrors,   \* browse gives up after this many failed iterations (10)
  MaxCalls,     \* bound on API calls
  MaxEvents,    \* bound on events the daemon delivers
  MaxSets,      \* bound on set() calls (versions of _data)
  NoCaller, NoName

Port == 1                       \* the port given to announce; withdraw sets 0
Results == {"SUCCESS", "PENDING", "POLL_ERROR", "EEXIST", "ERRNO"}
Errors == Results \ {"SUCCESS", "PENDING"}
Record == [name : Instances, port : {Port}, data : 0..MaxSets]
NoRecord == [name |-> NoName, port |-> 0, data |-> 0]
ResolverRecs == [name : Names, local : BOOLEAN, fired : BOOLEAN]

VARIABLES
  clientState,  \* the avahi client's state as last reported to _clientCB
  announcable,  \* _announcable
  result,       \* _result
  quit,         \* simple_poll_quit has been called on _poll
  announceName, \* _announce (NoName when empty)
  port,         \* _port
  data,         \* version of _data
  group,        \* _group is non-null
  published,    \* the service record in the entry group, or NoRecord
  committed,    \* the entry group is committed
  browser,      \* _browser: 0 or the id of an avahi browser
  liveBrowsers, \* avahi browsers created and not freed
  nextBrowser,  \* ids handed out so far
  scope,        \* _scope
  instanceMap,  \* names in _instanceMap
  resolvers,    \* avahi resolvers created and not freed
  lock,         \* holder of _mutex, or NoCaller
  pc, op,       \* per caller: position in the current call, and the call
  beginRes,     \* per caller: beginBrowsing's result inside discover
  nErrors,      \* per caller: browse's nErrors
  tmo,          \* per caller: the sign of browse's timeout (neg, zero, pos)
  ret,          \* per caller: what the last call returned
  listening,    \* a servus::qt::ItemModel is registered as listener
  rows,         \* names the ItemModel has a row (child QObject) for
  calls, events

modelVars == <<listening, rows>>
avahiVars == <<clientState, announcable, result, quit, group, published,
               committed, liveBrowsers, instanceMap, resolvers, modelVars>>
callerVars == <<pc, op, beginRes, nErrors, tmo, ret>>
vars == <<avahiVars, announceName, port, data, browser, nextBrowser, scope,
          lock, callerVars, calls, events>>

\* The constructor: client_new may report running or a host-name
\* collision synchronously through _clientCB, or leave the client
\* connecting.
Init ==
  /\ clientState \in {"connecting", "running", "collision"}
  /\ announcable = (clientState = "running")
  /\ result = IF clientState = "collision" THEN "EEXIST" ELSE "PENDING"
  /\ quit = (clientState = "collision")
  /\ announceName = NoName /\ port = 0 /\ data = 0
  /\ group = FALSE /\ published = NoRecord /\ committed = FALSE
  /\ browser = 0 /\ liveBrowsers = {} /\ nextBrowser = 0
  /\ scope = "IF_ALL" /\ instanceMap = {} /\ resolvers = {}
  /\ lock = NoCaller
  /\ pc = [t \in Callers |-> "idle"] /\ op = [t \in Callers |-> "none"]
  /\ beginRes = [t \in Callers |-> "PENDING"]
  /\ nErrors = [t \in Callers |-> 0] /\ tmo = [t \in Callers |-> "zero"]
  /\ ret = [t \in Callers |-> "PENDING"]
  /\ listening = FALSE /\ rows = {}
  /\ calls = 0 /\ events = 0

---------------------------------------------------------------------------
(* _createServices: new group or reset, add the service, commit.  A       *)
(* failure to add or to commit stores the error and quits the poll.       *)
ServiceOutcomes == IF group THEN {"ok", "addFail", "commitFail"}
                   ELSE {"ok", "newFail", "addFail", "commitFail"}

\* A faulty _createServices that reports success whatever the commit gives.
CreateServicesIgnoreCommit(out, rec, res) ==
  IF out = "newFail" THEN result' = res /\ UNCHANGED <<group, published, committed, quit>>
  ELSE /\ group' = TRUE
       /\ published' = IF out = "addFail" THEN NoRecord ELSE rec
       /\ committed' = (out = "ok")
       /\ result' = IF out = "addFail" THEN "ERRNO" ELSE "SUCCESS"
       /\ quit' = (quit \/ out = "addFail")

CreateServices(out, rec, res) ==
  IF out = "newFail" THEN result' = res /\ UNCHANGED <<group, published, committed, quit>>
  ELSE /\ group' = TRUE
       /\ published' = IF out = "addFail" THEN NoRecord ELSE rec
       /\ committed' = (out = "ok")
       /\ result' = IF out = "ok" THEN "SUCCESS" ELSE "ERRNO"
       /\ quit' = (quit \/ out # "ok")

Current == [name |-> announceName, port |-> port, data |-> data]

---------------------------------------------------------------------------
(* The callbacks avahi runs inside simple_poll_iterate.                    *)

\* A faulty _resolveCB that records the instance without telling the
\* listeners.
InstanceAddedNone(n) == rows' = rows

\* _addInstanceItem: a child of rootItem named after the instance (its
\* key/value children are not modelled).
AddInstanceItem(n) == rows \cup {n}

\* _removeInstanceItem: delete the child found by name.
RemoveInstanceItem(n) == rows \ {n}

\* The ItemModel's instanceAdded, through _listeners: findChild skips a
\* name that already has a row, otherwise _addInstanceItem adds one.
InstanceAdded(n) ==
  rows' = IF listening /\ n \notin rows THEN AddInstanceItem(n) ELSE rows

\* The ItemModel's instanceRemoved: a name without a row returns early,
\* otherwise _removeInstanceItem deletes it.
InstanceRemoved(n) ==
  rows' = IF listening /\ n \in rows THEN RemoveInstanceItem(n) ELSE rows

\* _clientCB( AVAHI_CLIENT_S_RUNNING ): announce what was asked before.
ClientRunning ==
  /\ clientState = "connecting"
  /\ clientState' = "running" /\ announcable' = TRUE
  /\ IF announceName # NoName
       THEN \E out \in ServiceOutcomes : CreateServices(out, Current, result)
       ELSE UNCHANGED <<group, published, committed, result, quit>>
  /\ UNCHANGED <<liveBrowsers, instanceMap, resolvers, modelVars>>

\* _clientCB( AVAHI_CLIENT_FAILURE ) and ( AVAHI_CLIENT_S_COLLISION ).
ClientLost ==
  \E s \in {"failure", "collision"} :
    /\ clientState \in {"connecting", "running"}
    /\ clientState' = s
    /\ result' = IF s = "failure" THEN "ERRNO" ELSE "EEXIST"
    /\ quit' = TRUE
    /\ UNCHANGED <<announcable, group, published, committed, liveBrowsers,
                   instanceMap, resolvers, modelVars>>

\* _browseCB( AVAHI_BROWSER_NEW ): start a resolver, or fail and quit.
BrowserNew ==
  /\ liveBrowsers # {}
  /\ \E n \in Names, local \in BOOLEAN, ok \in BOOLEAN :
       IF ok THEN /\ resolvers' = resolvers \cup
                       {[name |-> n, local |-> local, fired |-> FALSE]}
                  /\ UNCHANGED <<result, quit>>
             ELSE /\ result' = "ERRNO" /\ quit' = TRUE
                  /\ UNCHANGED resolvers
  /\ UNCHANGED <<clientState, announcable, group, published, committed,
                 liveBrowsers, instanceMap, modelVars>>

\* _browseCB( AVAHI_BROWSER_REMOVE ).
BrowserRemove ==
  /\ liveBrowsers # {}
  /\ \E n \in Names : instanceMap' = instanceMap \ {n} /\ InstanceRemoved(n)
  /\ UNCHANGED <<clientState, announcable, result, quit, group, published,
                 committed, liveBrowsers, resolvers, listening>>

\* _browseCB( AVAHI_BROWSER_ALL_FOR_NOW / CACHE_EXHAUSTED ) and
\* ( AVAHI_BROWSER_FAILURE ).
BrowserStatus ==
  /\ liveBrowsers # {}
  /\ \/ result' = "SUCCESS" /\ UNCHANGED quit
     \/ result' = "ERRNO" /\ quit' = TRUE
  /\ UNCHANGED <<clientState, announcable, group, published, committed,
                 liveBrowsers, instanceMap, resolvers, modelVars>>

\* _resolveCB: a remote instance seen through a local-only scope is
\* skipped by the early return, before service_resolver_free; otherwise
\* FOUND records the instance, FAILURE stores the error, and the resolver
\* is freed.
ResolveCB ==
  \E r \in resolvers, found \in BOOLEAN :
    /\ ~r.fired
    /\ IF scope = "IF_LOCAL" /\ ~r.local
         THEN /\ resolvers' = (resolvers \ {r}) \cup {[r EXCEPT !.fired = TRUE]}
              /\ UNCHANGED <<instanceMap, result, rows>>
         ELSE /\ resolvers' = resolvers \ {r}
              /\ IF found
                   THEN /\ instanceMap' = instanceMap \cup {r.name}
                        /\ InstanceAdded(r.name) /\ UNCHANGED result
                   ELSE result' = "ERRNO" /\ UNCHANGED <<instanceMap, rows>>
    /\ UNCHANGED <<clientState, announcable, quit, group, published,
                   committed, liveBrowsers, listening>>

\* _groupCB( AVAHI_ENTRY_GROUP_COLLISION / FAILURE ).
GroupCB ==
  /\ group /\ published # NoRecord
  /\ result' = "EEXIST" /\ quit' = TRUE
  /\ UNCHANGED <<clientState, announcable, group, published, committed,
                 liveBrowsers, instanceMap, resolvers, modelVars>>

Dispatch ==
  /\ events < MaxEvents /\ events' = events + 1
  /\ \/ ClientRunning \/ ClientLost \/ BrowserNew \/ BrowserRemove
     \/ BrowserStatus \/ ResolveCB \/ GroupCB

---------------------------------------------------------------------------
(* The calls.  A locked section that does not poll is one step taken when *)
(* _mutex is free; a polling call holds it from its start to its return.  *)

Calling(t, o) ==
  /\ pc[t] = "idle" /\ clientState # "freed"
  /\ calls < MaxCalls /\ calls' = calls + 1
  /\ op' = [op EXCEPT ![t] = o]

Return(t, r) ==
  /\ pc' = [pc EXCEPT ![t] = "idle"] /\ ret' = [ret EXCEPT ![t] = r]

\* announce: store port and name; with the client running publish at
\* once, otherwise poll until running, an error, or ANNOUNCE_TIMEOUT.
Announce(t) ==
  /\ Calling(t, "announce") /\ lock = NoCaller
  /\ \E inst \in Instances :
       /\ announceName' = inst /\ port' = Port
       /\ IF announcable
            THEN /\ \E out \in ServiceOutcomes :
                      CreateServices(out, [name |-> inst, port |-> Port, data |-> data],
                                     "PENDING")
                 /\ Return(t, result') /\ UNCHANGED lock
            ELSE /\ result' = "PENDING" /\ lock' = t
                 /\ pc' = [pc EXCEPT ![t] = "announce_poll"]
                 /\ UNCHANGED <<group, published, committed, quit, ret>>
  /\ UNCHANGED <<modelVars, clientState, announcable, liveBrowsers, instanceMap, resolvers,
                 data, browser, nextBrowser, scope, beginRes, nErrors, tmo, events>>

\* withdraw: forget name and port, reset the entry group.
Withdraw(t) ==
  /\ Calling(t, "withdraw") /\ lock = NoCaller
  /\ announceName' = NoName /\ port' = 0
  /\ IF group THEN published' = NoRecord /\ committed' = FALSE
              ELSE UNCHANGED <<published, committed>>
  /\ UNCHANGED <<modelVars, clientState, announcable, result, quit, group, liveBrowsers,
                 instanceMap, resolvers, data, browser, nextBrowser, scope,
                 lock, pc, beginRes, nErrors, tmo, ret,
                 events>>

\* A faulty _updateRecord that never republishes.
UpdateRecordNoop(rec) ==
  UNCHANGED <<group, published, committed, result, quit>>

\* set( key, value ) then _updateRecord, without the mutex: republish when
\* a name is announced and the client is running.
UpdateRecord(rec) ==
  IF announceName = NoName \/ ~announcable
    THEN UNCHANGED <<group, published, committed, result, quit>>
    ELSE \E out \in ServiceOutcomes : CreateServices(out, rec, result)

Set(t) ==
  /\ Calling(t, "set") /\ data < MaxSets
  /\ data' = data + 1
  /\ UpdateRecord([Current EXCEPT !.data = data + 1])
  /\ UNCHANGED <<modelVars, clientState, announcable, liveBrowsers, instanceMap, resolvers,
                 announceName, port, browser, nextBrowser, scope, lock,
                 pc, beginRes, nErrors, tmo, ret, events>>

\* beginBrowsing's test of _browser, before the mutex.
BeginBrowsing(t) ==
  /\ Calling(t, "beginBrowsing")
  /\ IF browser # 0 THEN /\ Return(t, "PENDING")
                    ELSE /\ pc' = [pc EXCEPT ![t] = "begin_locked"]
                         /\ UNCHANGED ret
  /\ UNCHANGED <<avahiVars, announceName, port, data, browser, nextBrowser,
                 scope, lock, beginRes, nErrors, tmo,
                 events>>

\* discover starts with beginBrowsing.
Discover(t) ==
  /\ Calling(t, "discover")
  /\ IF browser # 0
       THEN /\ beginRes' = [beginRes EXCEPT ![t] = "PENDING"]
            /\ pc' = [pc EXCEPT ![t] = "discover_assert"]
       ELSE /\ pc' = [pc EXCEPT ![t] = "begin_locked"]
            /\ UNCHANGED beginRes
  /\ UNCHANGED <<avahiVars, announceName, port, data, browser, nextBrowser,
                 scope, lock, nErrors, tmo, ret, events>>

\* beginBrowsing under the mutex: clear the instances and create the
\* browser.  In discover, an error other than PENDING returns at once.
\* The ItemModel browses Interface::IF_ALL.
BeginLocked(t) ==
  /\ pc[t] = "begin_locked" /\ lock = NoCaller
  /\ \E addr \in (IF op[t] = "model" THEN {"IF_ALL"} ELSE Scopes), ok \in BOOLEAN :
       LET created == ok /\ clientState \in {"running", "collision"}
           res == IF created THEN "SUCCESS" ELSE "ERRNO"
       IN /\ scope' = addr /\ instanceMap' = {} /\ result' = res
          /\ IF created
               THEN /\ nextBrowser' = nextBrowser + 1 /\ browser' = nextBrowser + 1
                    /\ liveBrowsers' = liveBrowsers \cup {nextBrowser + 1}
               ELSE UNCHANGED <<nextBrowser, browser, liveBrowsers>>
          /\ IF op[t] = "discover" /\ created
               THEN /\ beginRes' = [beginRes EXCEPT ![t] = res]
                    /\ pc' = [pc EXCEPT ![t] = "discover_assert"]
                    /\ UNCHANGED ret
               ELSE /\ Return(t, res) /\ UNCHANGED beginRes
  /\ UNCHANGED <<modelVars, clientState, announcable, quit, group, published, committed,
                 resolvers, announceName, port, data, lock, op, nErrors, tmo, calls, events>>

\* The timeouts browse can be given, by sign: -1 (browse's default, and
\* discover's unsigned browseTime once it exceeds INT32_MAX), 0 as the
\* ItemModel passes it, or a positive time.
TimeoutSigns == {"neg", "zero", "pos"}

\* browse( timeout ) up to its poll loop: _result = PENDING, nErrors = 0.
BrowseStart(t, sign) ==
  /\ lock = NoCaller /\ lock' = t
  /\ result' = "PENDING"
  /\ nErrors' = [nErrors EXCEPT ![t] = 0] /\ tmo' = [tmo EXCEPT ![t] = sign]
  /\ pc' = [pc EXCEPT ![t] = "browse_poll"]

Browse(t) ==
  /\ Calling(t, "browse")
  /\ \E sign \in TimeoutSigns : BrowseStart(t, sign)
  /\ UNCHANGED <<modelVars, clientState, announcable, quit, group, published, committed,
                 liveBrowsers, instanceMap, resolvers, announceName, port, data,
                 browser, nextBrowser, scope, beginRes, ret, events>>

\* discover's assert( _browser ), read without the mutex, then browse
\* (with one thread the browser it began is still there).
DiscoverAssert(t) ==
  /\ pc[t] = "discover_assert"
  /\ \E sign \in TimeoutSigns : BrowseStart(t, sign)
  /\ UNCHANGED <<modelVars, clientState, announcable, quit, group, published, committed,
                 liveBrowsers, instanceMap, resolvers, announceName, port, data,
                 browser, nextBrowser, scope, op, beginRes, ret, calls, events>>

\* The end of browse: anything but POLL_ERROR becomes SUCCESS.
BrowseFinish(t, res) ==
  /\ result' = (IF res # "POLL_ERROR" THEN "SUCCESS" ELSE res)
  /\ lock' = NoCaller /\ ret' = [ret EXCEPT ![t] = result']
  /\ pc' = [pc EXCEPT ![t] = IF op[t] = "discover" THEN "discover_end" ELSE "idle"]

\* One simple_poll_iterate of announce or browse.  Once the poll has been
\* quit it fails; browse counts failures and gives up at PollErrors.
\* Otherwise it dispatches one event or none, except that browse with a
\* negative timeout blocks in avahi_simple_poll_iterate(_poll, -1) until
\* an event comes.
Poll(t) ==
  /\ pc[t] \in {"announce_poll", "browse_poll"}
  /\ IF quit
       THEN /\ UNCHANGED <<modelVars, clientState, announcable, quit, group, published,
                           committed, liveBrowsers, instanceMap, resolvers,
                           events>>
            /\ IF pc[t] = "browse_poll"
                 THEN /\ nErrors' = [nErrors EXCEPT ![t] = @ + 1]
                      /\ IF nErrors[t] + 1 < PollErrors
                           THEN pc' = [pc EXCEPT ![t] = "browse_test"]
                                /\ UNCHANGED <<lock, ret, result>>
                           ELSE BrowseFinish(t, "POLL_ERROR")
                 ELSE /\ pc' = [pc EXCEPT ![t] = "announce_test"]
                      /\ UNCHANGED <<nErrors, lock, ret, result>>
       ELSE /\ \/ Dispatch
               \/ /\ ~(pc[t] = "browse_poll" /\ tmo[t] = "neg")
                  /\ UNCHANGED <<avahiVars, events>>
            /\ pc' = [pc EXCEPT ![t] = IF @ = "browse_poll" THEN "browse_test"
                                                         ELSE "announce_test"]
            /\ UNCHANGED <<nErrors, lock, ret>>
  /\ UNCHANGED <<announceName, port, data, browser, nextBrowser, scope, op,
                 beginRes, tmo, calls>>

\* A faulty announce loop that waits for the client without a timeout.
AnnounceWaitsNoTimeout(elapsed) == ~announcable /\ result = "PENDING"

\* announce's loop condition: not running, nothing stored, time left.
AnnounceWaits(elapsed) == ~announcable /\ result = "PENDING" /\ ~elapsed

\* The loop conditions, with elapsed telling whether the call's timeout
\* has passed.  browse's do-while runs once unless its timeout is positive.
LoopTest(t, elapsed) ==
  /\ \/ /\ pc[t] = "announce_test"
        /\ IF AnnounceWaits(elapsed)
             THEN pc' = [pc EXCEPT ![t] = "announce_poll"] /\ UNCHANGED <<lock, ret, result>>
             ELSE Return(t, result) /\ lock' = NoCaller /\ UNCHANGED result
     \/ /\ pc[t] = "browse_test"
        /\ IF tmo[t] = "pos" /\ ~elapsed
             THEN pc' = [pc EXCEPT ![t] = "browse_poll"] /\ UNCHANGED <<lock, ret, result>>
             ELSE BrowseFinish(t, result)
  /\ UNCHANGED <<modelVars, clientState, announcable, quit, group, published, committed,
                 liveBrowsers, instanceMap, resolvers, announceName, port, data,
                 browser, nextBrowser, scope, op, beginRes, nErrors, tmo, calls, events>>

\* endBrowsing's body: free the browser, if any, and clear it.
EndBrowsingBody ==
  /\ liveBrowsers' = liveBrowsers \ {browser} /\ browser' = 0

EndBrowsing(t) ==
  /\ Calling(t, "endBrowsing") /\ lock = NoCaller
  /\ EndBrowsingBody
  /\ UNCHANGED <<modelVars, clientState, announcable, result, quit, group, published,
                 committed, instanceMap, resolvers, announceName, port, data,
                 nextBrowser, scope, lock, pc, beginRes, nErrors, tmo, ret, events>>

\* discover ends the browsing it began.
DiscoverEnd(t) ==
  /\ pc[t] = "discover_end" /\ lock = NoCaller
  /\ IF beginRes[t] # "PENDING" THEN EndBrowsingBody
                               ELSE UNCHANGED <<browser, liveBrowsers>>
  /\ pc' = [pc EXCEPT ![t] = "idle"]
  /\ UNCHANGED <<modelVars, clientState, announcable, result, quit, group, published,
                 committed, instanceMap, resolvers, announceName, port, data,
                 nextBrowser, scope, lock, op, beginRes, nErrors, tmo, ret, calls, events>>

\* getInstances: the names in _instanceMap.
GetInstances == instanceMap

(* servus::qt::ItemModel::Impl on this instance.  Its QTimer's browse( 0 ) *)
(* every 100 ms is a Browse with a timeout that is not positive.           *)

\* addListener: the ItemModel (never null) joins the set _listeners.
AddListener == listening' = TRUE

\* removeListener: it is erased from _listeners.
RemoveListener == listening' = FALSE

\* The constructor: a row for each name getInstances returns, addListener,
\* then beginBrowsing( IF_ALL ).  getInstances and addListener do not take
\* _mutex.
ModelCreate(t) ==
  /\ Calling(t, "model") /\ ~listening
  /\ rows' = GetInstances /\ AddListener
  /\ IF browser # 0 THEN /\ Return(t, "PENDING")
                    ELSE /\ pc' = [pc EXCEPT ![t] = "begin_locked"]
                         /\ UNCHANGED ret
  /\ UNCHANGED <<clientState, announcable, result, quit, group, published,
                 committed, liveBrowsers, instanceMap, resolvers, announceName,
                 port, data, browser, nextBrowser, scope, lock, beginRes,
                 nErrors, tmo, events>>

\* The destructor: stop the timer, removeListener, endBrowsing; the rows
\* go with rootItem.
ModelDestroy(t) ==
  /\ Calling(t, "modelDestroy") /\ listening /\ lock = NoCaller
  /\ RemoveListener /\ rows' = {}
  /\ EndBrowsingBody
  /\ UNCHANGED <<clientState, announcable, result, quit, group, published,
                 committed, instanceMap, resolvers, announceName, port, data,
                 nextBrowser, scope, lock, pc, beginRes, nErrors, tmo, ret, events>>

\* ~Servus: withdraw, endBrowsing, then client_free releases the group,
\* the browsers and the resolvers.  No other call may be running.
Destroy(t) ==
  /\ Calling(t, "destroy") /\ lock = NoCaller
  /\ \A u \in Callers : pc[u] = "idle"
  /\ ~listening   \* the ItemModel holds a reference to the instance
  /\ clientState' = "freed" /\ announceName' = NoName /\ port' = 0
  /\ browser' = 0 /\ liveBrowsers' = {} /\ resolvers' = {}
  /\ group' = FALSE /\ published' = NoRecord /\ committed' = FALSE
  /\ UNCHANGED <<modelVars, announcable, result, quit, instanceMap, data, nextBrowser,
                 scope, lock, pc, beginRes, nErrors, tmo, ret, events>>

Next ==
  \E t \in Callers :
    \/ Announce(t) \/ Withdraw(t) \/ Set(t) \/ BeginBrowsing(t) \/ Browse(t)
    \/ EndBrowsing(t) \/ Discover(t) \/ Destroy(t)
    \/ ModelCreate(t) \/ ModelDestroy(t)
    \/ BeginLocked(t) \/ DiscoverAssert(t) \/ Poll(t) \/ DiscoverEnd(t)
    \/ \E elapsed \in BOOLEAN : LoopTest(t, elapsed)

\* A call in progress keeps running, and its timeout eventually passes.
Fairness ==
  \A t \in Callers :
    /\ WF_vars(BeginLocked(t) \/ DiscoverAssert(t) \/ Poll(t) \/ DiscoverEnd(t)
               \/ LoopTest(t, FALSE))
    /\ SF_vars(LoopTest(t, TRUE))

Spec == Init /\ [][Next]_vars /\ Fairness

---------------------------------------------------------------------------
\* Whenever the entry group is committed, it advertises the name, port and
\* key/value data the instance holds now, whatever order announce,
\* withdraw, set() and the client's state changes took.
PublishedIsCurrent == committed => published = Current

\* When announce returns SUCCESS the service is committed under the name it
\* was given: no callback run by its polling makes it report a success
\* that did not happen.
AnnounceSuccessMeansPublished ==
  \A t \in Callers :
    pc[t] = "idle" /\ op[t] = "announce" /\ ret[t] = "SUCCESS" =>
      committed /\ published = Current

\* A browse with a negative timeout waiting in its poll for an event.
Blocking(t) == pc[t] = "browse_poll" /\ tmo[t] = "neg"

\* Every call returns, or is a browse( -1 ) blocked until an event: announce
\* stops polling when ANNOUNCE_TIMEOUT passes and browse when its own
\* timeout does, even once the poll has been quit.
CallsReturn ==
  \A t \in Callers : pc[t] # "idle" ~> (pc[t] = "idle" \/ Blocking(t))

\* While the ItemModel listens, it shows a row for every instance in
\* _instanceMap: the rows it copied from getInstances at construction and
\* those instanceAdded / instanceRemoved keep in step after it.
RowsCoverInstances == listening => instanceMap \subseteq rows

\* Every avahi resolver whose callback has run has been freed: the
\* comment in _browseCB says the callback frees it.
ResolversFreed == \A r \in resolvers : ~r.fired
====
