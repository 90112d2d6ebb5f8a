----------------------------- MODULE Multiplexer -----------------------------
(***************************************************************************)
(* The Windows socket receive multiplexer of oscpack                       *)
(* (src/.../oscpack/ip/win32/UdpSocket.h,                                  *)
(* SocketReceiveMultiplexerImplementation).                                *)
(*                                                                         *)
(* One thread calls Run: it resets break_, gives every attached socket an  *)
(* auto-reset event through WSAEventSelect(FD_READ), builds a timer queue  *)
(* sorted by expiry and loops: wait on the socket events and the break     *)
(* event (the last handle) with a timeout to the first timer, read one     *)
(* datagram from the woken socket and every later one, then run the        *)
(* expired timers.  A listener callback may call Break; another thread may *)
(* call AsynchronousBreak, which sets break_ and then signals the break    *)
(* event.  Datagrams arrive from the network at any time; time passes.     *)
(***************************************************************************)
EXTENDS Integers, Sequences, SequencesExt, FiniteSets, Functions

CONSTANTS
  Sockets,       \* the UdpSocket objects
  Listeners,     \* PacketListener objects
  TimerIds,      \* TimerListener objects
  Delays,        \* initial delays (ms) passed to AttachPeriodicTimerListener
  Periods,       \* periods (ms)
  MaxAttached,   \* bound on socketListeners_.size()
  MaxTimers,     \* bound on timerListeners_.size()
  MaxTime,       \* bound on timeGetTime()
  MaxPackets,    \* bound on datagrams sent to the sockets
  MaxRuns,       \* bound on calls of Run
  MaxBreaks,     \* bound on calls of AsynchronousBreak
  MaxConfigs     \* bound on attach and detach calls

\* A datagram: the 8 bytes "__stop_\0" or an ordinary packet.  (A datagram
\* that recvfrom rejects, larger than the 4098-byte buffer, ReceiveFrom
\* turns into size 0 like an empty receive buffer; it is not modelled.)
PacketKinds == {"data", "stop"}

VARIABLES
  socketListeners, \* socketListeners_: sequence of [l, s]
  timerListeners,  \* timerListeners_: sequence of [id, delay, period]
  rpc,             \* where the Run thread is ("idle" outside Run)
  break_,          \* the volatile break_ flag
  breakEvent,      \* breakEvent_ (auto-reset) is signalled
  evt,             \* socket |-> its Run event is signalled
  rearmed,         \* socket |-> FD_READ is re-enabled (no event posted since)
  pending,         \* socket |-> datagrams waiting in its receive buffer
  timerQueue,      \* timerQueue_: sequence of [k, at, period]
  now,             \* timeGetTime()
  wake,            \* the index WaitForMultipleObjects returned, 0 on timeout
  ri,              \* the recv loop's i
  ti,              \* the timer loop's position
  resort,          \* the timer loop's resort
  phaseNow,        \* currentTimeMs read before the timer loop
  firedInPhase,    \* keys of the queue entries fired in this timer loop
  apc,             \* the AsynchronousBreak caller: "none" or "flagged"
  armed,           \* an AsynchronousBreak set break_ after Run reset it
  runs, packets, breaks, configs

vars == <<socketListeners, timerListeners, rpc, break_, breakEvent, evt,
          rearmed, pending, timerQueue, now, wake, ri, ti, resort, phaseNow,
          firedInPhase, apc, armed, runs, packets, breaks, configs>>
runVars == <<wake, ri, ti, resort, phaseNow, firedInPhase>>

Init ==
  /\ socketListeners = <<>> /\ timerListeners = <<>>
  /\ rpc = "idle" /\ break_ = FALSE /\ breakEvent = FALSE
  /\ evt = [s \in Sockets |-> FALSE] /\ rearmed = [s \in Sockets |-> FALSE]
  /\ pending = [s \in Sockets |-> <<>>]
  /\ timerQueue = <<>> /\ now = 0
  /\ wake = 0 /\ ri = 0 /\ ti = 0 /\ resort = FALSE /\ phaseNow = 0
  /\ firedInPhase = {}
  /\ apc = "none" /\ armed = FALSE
  /\ runs = 0 /\ packets = 0 /\ breaks = 0 /\ configs = 0

-----------------------------------------------------------------------------
(* Configuration, from the thread that owns the multiplexer, between Runs. *)

Config(sl, tl) ==
  /\ rpc = "idle" /\ configs < MaxConfigs
  /\ socketListeners' = sl /\ timerListeners' = tl /\ configs' = configs + 1
  /\ UNCHANGED <<rpc, break_, breakEvent, evt, rearmed, pending, timerQueue,
                 now, runVars, apc, armed, runs, packets, breaks>>

Pair(l, s) == [l |-> l, s |-> s]

\* The assert: the (listener, socket) pair is not attached yet.  The same
\* socket under another listener is accepted.
AttachSocketListener(s, l) ==
  /\ Len(socketListeners) < MaxAttached
  /\ Pair(l, s) \notin Range(socketListeners)
  /\ Config(Append(socketListeners, Pair(l, s)), timerListeners)

\* std::find then erase of the first equal pair; the assert requires it.
DetachSocketListener(s, l) ==
  /\ Pair(l, s) \in Range(socketListeners)
  /\ LET i == Min({j \in DOMAIN socketListeners : socketListeners[j] = Pair(l, s)})
     IN Config(RemoveAt(socketListeners, i), timerListeners)

\* Both overloads: (period) uses the period as initial delay.
AttachPeriodicTimerListener(id, delay, period) ==
  /\ Len(timerListeners) < MaxTimers
  /\ Config(socketListeners,
            Append(timerListeners, [id |-> id, delay |-> delay, period |-> period]))

DetachPeriodicTimerListener(id) ==
  /\ \E j \in DOMAIN timerListeners : timerListeners[j].id = id
  /\ LET i == Min({j \in DOMAIN timerListeners : timerListeners[j].id = id})
     IN Config(socketListeners, RemoveAt(timerListeners, i))

-----------------------------------------------------------------------------
(* Run. *)

\* std::sort with CompareScheduledTimerCalls (expiry only) is not stable:
\* entries with equal expiry come out in any order.
Sorted(q) ==
  { r \in { [i \in DOMAIN q |-> q[f[i]]] : f \in Bijection(DOMAIN q, DOMAIN q) } :
      IsSorted(r, LAMBDA a, b : a.at <= b.at) }

\* A socket's event is the one of its last entry: each WSAEventSelect on a
\* socket cancels the association made before it.
ActiveIdx(i) ==
  \A j \in DOMAIN socketListeners :
    j > i => socketListeners[j].s # socketListeners[i].s

\* A faulty wait on socketListeners_.size() handles, without the break event.
SignalledNoBreak ==
  {i \in DOMAIN socketListeners : ActiveIdx(i) /\ evt[socketListeners[i].s]}

\* The handles WaitForMultipleObjects is given that are signalled: the
\* socket events, then the break event at index size+1.
Signalled ==
  {i \in DOMAIN socketListeners : ActiveIdx(i) /\ evt[socketListeners[i].s]}
    \cup (IF breakEvent THEN {Len(socketListeners) + 1} ELSE {})

RunStart ==
  /\ rpc = "idle" /\ runs < MaxRuns
  /\ break_' = FALSE
  \* WSAEventSelect posts FD_READ at once when data is already waiting.
  /\ evt' = [s \in Sockets |-> pending[s] # <<>>]
  /\ rearmed' = [s \in Sockets |-> pending[s] = <<>>]
  /\ timerQueue' \in Sorted([k \in DOMAIN timerListeners |->
                              [k |-> k, at |-> now + timerListeners[k].delay,
                               period |-> timerListeners[k].period]])
  /\ rpc' = "test" /\ armed' = FALSE /\ runs' = runs + 1
  /\ wake' = 0 /\ ri' = 0 /\ ti' = 0 /\ resort' = FALSE /\ phaseNow' = 0
  /\ firedInPhase' = {}
  /\ UNCHANGED <<socketListeners, timerListeners, breakEvent, pending, now,
                 apc, packets, breaks, configs>>

Goto(pc) ==
  /\ rpc' = pc
  /\ UNCHANGED <<socketListeners, timerListeners, break_, breakEvent, evt,
                 rearmed, pending, timerQueue, now, apc, armed, runs, packets,
                 breaks, configs>>

\* while( !break_ ); leaving Run frees the events.
LoopTest ==
  /\ rpc = "test"
  /\ Goto(IF break_ THEN "exit" ELSE "wait")
  /\ UNCHANGED runVars

\* WaitForMultipleObjects: the lowest signalled handle wins and its
\* auto-reset event is reset; with none signalled it times out once the
\* first timer of the queue is due, and blocks forever when there is none.
Wait ==
  /\ rpc = "wait"
  /\ \/ /\ Signalled # {}
        /\ wake' = Min(Signalled)
        /\ IF wake' > Len(socketListeners)
             THEN breakEvent' = FALSE /\ UNCHANGED evt
             ELSE /\ evt' = [evt EXCEPT ![socketListeners[wake'].s] = FALSE]
                  /\ UNCHANGED breakEvent
     \/ /\ Signalled = {}
        /\ timerQueue # <<>> /\ timerQueue[1].at <= now
        /\ wake' = 0
        /\ UNCHANGED <<breakEvent, evt>>
  /\ rpc' = "woken"
  /\ UNCHANGED <<socketListeners, timerListeners, break_, rearmed, pending,
                 timerQueue, now, ri, ti, resort, phaseNow, firedInPhase, apc,
                 armed, runs, packets, breaks, configs>>

\* The timer loop begins: currentTimeMs is read again.
StartTimers ==
  /\ rpc' = "timers" /\ ti' = 1 /\ resort' = FALSE /\ phaseNow' = now
  /\ firedInPhase' = {}

\* A faulty recv loop that starts after the woken socket.
FirstRecvIdxNext(k) == k + 1

\* for( int i = waitResult - WAIT_OBJECT_0; ... )
FirstRecvIdx(k) == k

\* A faulty wake that leaves Run whenever the break event woke it, without
\* testing break_.
WokenOnBreakEvent ==
  /\ rpc = "woken"
  /\ IF break_ \/ wake = Len(socketListeners) + 1
       THEN rpc' = "exit" /\ UNCHANGED runVars
     ELSE IF wake \in DOMAIN socketListeners
       THEN /\ ri' = FirstRecvIdx(wake) /\ rpc' = "recv"
            /\ UNCHANGED <<wake, ti, resort, phaseNow, firedInPhase>>
     ELSE StartTimers /\ UNCHANGED <<wake, ri>>
  /\ UNCHANGED <<socketListeners, timerListeners, break_, breakEvent, evt,
                 rearmed, pending, timerQueue, now, apc, armed, runs, packets,
                 breaks, configs>>

\* if( break_ ) break; after the wait, then either the recv loop or, on a
\* timeout or the break event, the timers.
Woken ==
  /\ rpc = "woken"
  /\ IF break_
       THEN rpc' = "exit" /\ UNCHANGED runVars
     ELSE IF wake \in DOMAIN socketListeners
       THEN /\ ri' = FirstRecvIdx(wake) /\ rpc' = "recv"
            /\ UNCHANGED <<wake, ti, resort, phaseNow, firedInPhase>>
     ELSE StartTimers /\ UNCHANGED <<wake, ri>>
  /\ UNCHANGED <<socketListeners, timerListeners, break_, breakEvent, evt,
                 rearmed, pending, timerQueue, now, apc, armed, runs, packets,
                 breaks, configs>>

\* ReceiveFrom on socket s: recvfrom takes the first datagram waiting, if
\* any (none is an error, and size 0).  The call re-enables FD_READ, which
\* posts the event again at once when data remains.
ReceiveFrom(s) ==
  LET rest == IF pending[s] = <<>> THEN <<>> ELSE Tail(pending[s])
  IN /\ pending' = [pending EXCEPT ![s] = rest]
     /\ evt' = [evt EXCEPT ![s] = @ \/ rest # <<>>]
     /\ rearmed' = [rearmed EXCEPT ![s] = rest = <<>>]

\* Break(): what a packet or timer listener may call on the Run thread.
Break == break_' = TRUE

\* The receive loop on socket i: ReceiveFrom, then size 0 goes on to the
\* next socket, and "__stop_" breaks.
Recv ==
  /\ rpc = "recv" /\ ri <= Len(socketListeners)
  /\ LET s == socketListeners[ri].s
     IN /\ ReceiveFrom(s)
        /\ CASE pending[s] = <<>>       -> ri' = ri + 1 /\ UNCHANGED <<rpc, break_>>
             [] Head(pending[s]) = "stop" -> break_' = TRUE /\ rpc' = "exit" /\ UNCHANGED ri
             [] OTHER                     -> rpc' = "got" /\ UNCHANGED <<ri, break_>>
  /\ UNCHANGED <<socketListeners, timerListeners, breakEvent, timerQueue, now,
                 wake, ti, resort, phaseNow, firedInPhase, apc, armed, runs,
                 packets, breaks, configs>>

\* size > 0: if( break_ ) break; ProcessPacket, whose listener may Break.
Process ==
  /\ rpc = "got"
  /\ IF break_
       THEN rpc' = "exit" /\ UNCHANGED break_
       ELSE rpc' = "processed" /\ (Break \/ UNCHANGED break_)
  /\ UNCHANGED <<socketListeners, timerListeners, breakEvent, evt, rearmed,
                 pending, timerQueue, now, runVars, apc, armed, runs, packets,
                 breaks, configs>>

\* if( break_ ) break; after ProcessPacket.
Processed ==
  /\ rpc = "processed"
  /\ IF break_ THEN rpc' = "exit" /\ UNCHANGED ri
               ELSE rpc' = "recv" /\ ri' = ri + 1
  /\ UNCHANGED <<socketListeners, timerListeners, break_, breakEvent, evt,
                 rearmed, pending, timerQueue, now, wake, ti, resort, phaseNow,
                 firedInPhase, apc, armed, runs, packets, breaks, configs>>

\* The recv loop ends; if( break_ ) break; then the timers.
RecvEnd ==
  /\ rpc = "recv" /\ ri > Len(socketListeners)
  /\ IF break_ THEN rpc' = "exit" /\ UNCHANGED runVars
               ELSE StartTimers /\ UNCHANGED <<wake, ri>>
  /\ UNCHANGED <<socketListeners, timerListeners, break_, breakEvent, evt,
                 rearmed, pending, timerQueue, now, apc, armed, runs, packets,
                 breaks, configs>>

\* The timer loop: an entry of the sorted queue due at currentTimeMs runs
\* TimerExpired, whose listener may Break.
TimerFire ==
  /\ rpc = "timers"
  /\ ti <= Len(timerQueue) /\ timerQueue[ti].at <= phaseNow
  /\ Break \/ UNCHANGED break_
  /\ firedInPhase' = firedInPhase \cup {timerQueue[ti].k}
  /\ rpc' = "fired"
  /\ UNCHANGED <<socketListeners, timerListeners, breakEvent, evt, rearmed,
                 pending, timerQueue, now, wake, ri, ti, resort, phaseNow, apc,
                 armed, runs, packets, breaks, configs>>

\* if( break_ ) break; else i->first += periodMs; resort = true.
Fired ==
  /\ rpc = "fired"
  /\ IF break_
       THEN rpc' = "exit" /\ UNCHANGED <<timerQueue, ti, resort>>
       ELSE /\ timerQueue' = [timerQueue EXCEPT ![ti].at = @ + timerQueue[ti].period]
            /\ ti' = ti + 1 /\ resort' = TRUE /\ rpc' = "timers"
  /\ UNCHANGED <<socketListeners, timerListeners, break_, breakEvent, evt,
                 rearmed, pending, now, wake, ri, phaseNow, firedInPhase, apc,
                 armed, runs, packets, breaks, configs>>

\* A faulty timer loop that never sorts the queue again.
ResortNone(q) == {q}

\* if( resort ) std::sort( timerQueue_ ... )
Resort(q) == Sorted(q)

\* The timer loop stops at the end of the queue or at the first entry not
\* yet due; back to the loop test.
TimerEnd ==
  /\ rpc = "timers"
  /\ ~(ti <= Len(timerQueue) /\ timerQueue[ti].at <= phaseNow)
  /\ IF resort THEN timerQueue' \in Resort(timerQueue) ELSE UNCHANGED timerQueue
  /\ rpc' = "test"
  /\ UNCHANGED <<socketListeners, timerListeners, break_, breakEvent, evt,
                 rearmed, pending, now, runVars, apc, armed, runs, packets,
                 breaks, configs>>

-----------------------------------------------------------------------------
(* Other threads and the environment. *)

\* AsynchronousBreak, first half: break_ = true.
AsyncFlag ==
  /\ apc = "none" /\ breaks < MaxBreaks
  /\ break_' = TRUE /\ apc' = "flagged" /\ breaks' = breaks + 1
  /\ armed' = (armed \/ rpc # "idle")
  /\ UNCHANGED <<socketListeners, timerListeners, rpc, breakEvent, evt,
                 rearmed, pending, timerQueue, now, runVars, runs, packets, configs>>

\* AsynchronousBreak, second half: SetEvent( breakEvent_ ).
AsyncSignal ==
  /\ apc = "flagged"
  /\ breakEvent' = TRUE /\ apc' = "none"
  /\ UNCHANGED <<socketListeners, timerListeners, rpc, break_, evt, rearmed,
                 pending, timerQueue, now, runVars, armed, runs, packets,
                 breaks, configs>>

AttachedSockets == {e.s : e \in Range(socketListeners)}

\* A datagram arrives at socket s.  While Run holds an event for s, the
\* FD_READ network event is posted unless it was posted and not re-enabled.
Deliver(s, kind) ==
  /\ packets < MaxPackets
  /\ pending' = [pending EXCEPT ![s] = Append(@, kind)]
  /\ IF rpc # "idle" /\ s \in AttachedSockets /\ rearmed[s]
       THEN evt' = [evt EXCEPT ![s] = TRUE] /\ rearmed' = [rearmed EXCEPT ![s] = FALSE]
       ELSE UNCHANGED <<evt, rearmed>>
  /\ packets' = packets + 1
  /\ UNCHANGED <<socketListeners, timerListeners, rpc, break_, breakEvent,
                 timerQueue, now, runVars, apc, armed, runs, breaks, configs>>

Tick ==
  /\ now < MaxTime /\ now' = now + 1
  /\ UNCHANGED <<socketListeners, timerListeners, rpc, break_, breakEvent, evt,
                 rearmed, pending, timerQueue, runVars, apc, armed, runs,
                 packets, breaks, configs>>

\* Leaving Run: the events are closed and the sockets detached from them.
Cleanup ==
  /\ rpc = "exit"
  /\ rpc' = "idle"
  /\ evt' = [s \in Sockets |-> FALSE] /\ rearmed' = [s \in Sockets |-> FALSE]
  /\ wake' = 0 /\ ri' = 0 /\ ti' = 0 /\ resort' = FALSE /\ phaseNow' = 0
  /\ firedInPhase' = {}
  /\ UNCHANGED <<socketListeners, timerListeners, break_, breakEvent, pending,
                 timerQueue, now, apc, armed, runs, packets, breaks, configs>>

RunStep ==
  \/ LoopTest \/ Wait \/ Woken \/ Recv \/ Process \/ Processed \/ RecvEnd
  \/ TimerFire \/ Fired \/ TimerEnd \/ Cleanup

Next ==
  \/ \E s \in Sockets, l \in Listeners :
       AttachSocketListener(s, l) \/ DetachSocketListener(s, l)
  \/ \E id \in TimerIds, d \in Delays, p \in Periods :
       AttachPeriodicTimerListener(id, d, p) \/ AttachPeriodicTimerListener(id, p, p)
  \/ \E id \in TimerIds : DetachPeriodicTimerListener(id)
  \/ RunStart \/ RunStep
  \/ AsyncFlag \/ AsyncSignal
  \/ \E s \in Sockets, k \in PacketKinds : Deliver(s, k)
  \/ Tick

\* The Run thread keeps running once in Run; the AsynchronousBreak caller
\* finishes its call.  Nothing forces datagrams, time, configuration or a
\* new Run.
Fairness == WF_vars(RunStep) /\ WF_vars(AsyncSignal)

Spec == Init /\ [][Next]_vars /\ Fairness

-----------------------------------------------------------------------------
\* An AsynchronousBreak issued while Run is running (after its
\* break_ = false) ends that Run, even when no datagram and no timer would
\* ever wake its wait again.
AsyncBreakStopsRun == armed ~> rpc = "idle"

\* While Run runs, every datagram waiting on an attached socket is read:
\* whatever the order of arrivals, wakes and FD_READ re-enabling, no
\* socket is left with data and no event to wake the wait for it.
PacketsDrained ==
  \A s \in Sockets :
    (rpc # "idle" /\ s \in AttachedSockets /\ pending[s] # <<>>)
      ~> (rpc = "idle" \/ pending[s] = <<>>)

\* The contract of ReceiveLoop, with Run in progress outside "idle", the
\* sockets of socketListeners_ as the attached ones, break_ as the stop
\* request, and a datagram in hand while Run is between ReceiveFrom and its
\* break_ test.
Contract == INSTANCE ReceiveLoop
              WITH running <- rpc # "idle", attached <- AttachedSockets,
                   stopReq <- break_, inHand <- rpc = "got"

\* The detailed Run implements the contract: datagrams are taken one at a
\* time in arrival order, only from attached sockets and only during Run;
\* a datagram read is handed to its listener unless a stop was requested
\* by then (the AsynchronousBreak between ReceiveFrom and the break_ test);
\* attach and detach happen only between Runs; and Run returns only after
\* a Break, an AsynchronousBreak or a "__stop_" datagram since its start,
\* never because a stale break event or a timer woke it.
ContractSpec == Contract!Spec

\* After each timer loop, every queue entry it did not fire is due later
\* than the time the loop read: no timer that was due is passed over.
TimersNotSkipped ==
  rpc = "test" /\ ti > 0 =>
    \A i \in DOMAIN timerQueue :
      timerQueue[i].k \notin firedInPhase => timerQueue[i].at > phaseNow
=============================================================================
