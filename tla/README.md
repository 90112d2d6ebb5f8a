# TLA+ models of libossia (Unreal plugin sources)

This directory holds TLA+ models of the stateful parts of the libossia sources
in `src/Source/libossia/Public`, the TLC configurations that check them, and
`PROJECT.json`. That file lists the components, the runs, the mutants, the
source lines each definition models, the findings and the hazards.

## The system and how its parts interact

- **Parameters** (`ossia/network/generic/generic_parameter.cpp`). A
  `generic_parameter` holds `m_value`, `m_previousValue`, its type, its bounding
  mode and a repetition filter, all guarded by `m_valueMutex`.
  - Application threads call `set_value`, `set_value_quiet`, `push_value`,
    `set_value_type` and `set_unit`.
  - Protocol threads deliver remote values: they call `filter_value`, then
    `set_value` or `set_value_quiet`.
  - `set_value` commits under the lock and runs the callbacks (`send(copy)`)
    after the lock is released.
  - `push_value` also hands `m_value` by reference to `protocol_base::push`,
    outside the lock, so the protocol reads it while other threads may be
    writing it.
  - Adding the first callback makes the protocol observe the parameter, and
    removing the last one stops it.
- **Message queue** (`ossia/network/base/message_queue.hpp`). `reg(p)` installs
  a callback on `p` that enqueues `{&p, value}` into a moodycamel
  `ConcurrentQueue`. A real-time consumer polls `try_dequeue`.
  - `m_reg` counts registrations, and `unreg` removes the callback when the
    count reaches zero.
  - The device's `on_parameter_removing` signal erases the parameter from
    `m_reg`.
- **Domains** (`ossia/network/domain/detail/domain_impl.cpp`). Before a value
  is applied, it is bounded by the parameter's domain and bounding mode (FREE,
  CLIP, WRAP, FOLD, LOW, HIGH). One shape of algorithm exists per shape of
  value and domain:
  - scalar;
  - vector with one scalar domain (broadcast);
  - vector with one sub-domain per component;
  - list with one sub-domain per position;
  - a bool domain, on a bool or on a float vector, which ignores its own
    min, max and values and bounds against [false, true].

  The vector shapes exist for widths 2, 3 and 4. An allowed-values set
  takes precedence over min/max.
- **Discovery** (`servus/avahi/servus.h`, `servus/servus_impl.h`). One
  `avahi::Servus` announces one service instance and browses for others.
  - `announce`, `withdraw`, `beginBrowsing`, `browse`, `endBrowsing` and
    `discover` take the process-wide `_mutex`. `announce` and `browse` hold it
    while they run `simple_poll_iterate`.
  - avahi runs the client, browser, resolver and entry-group callbacks only
    from inside that poll. A failure calls `simple_poll_quit`, and from then on
    every poll fails at once.
  - `set()` republishes the record through `_updateRecord` without the mutex.
  - The resolver callback fills `_instanceMap` and calls `instanceAdded` on
    every registered listener. A browser REMOVE event calls `instanceRemoved`.
- **Discovery item model** (`servus/qt/itemModel.h`). `ItemModel::Impl` copies
  `getInstances` into rows and registers as a listener. It then calls
  `beginBrowsing( IF_ALL )` and has a QTimer call `browse( 0 )` every 100 ms.
  The two listener calls add and remove rows.
- **Windows OSC socket multiplexer** (`oscpack/ip/win32/UdpSocket.h`).
  `SocketReceiveMultiplexerImplementation::Run` waits on one auto-reset event
  per attached socket, plus a break event, with a timeout set by the first
  periodic timer.
  - It receives from the woken socket and from every later one.
  - It fires the due timers, then advances and re-sorts them.
  - It stops on `Break` from a callback, on `AsynchronousBreak` from another
    thread (flag, then event), or on the datagram `"__stop_\0"`.
- **Protocol defaults** (`protocol.cpp`). `protocol_base::push(p)` pushes
  `p.value()`; `push_bundle(v)` pushes each parameter of `v` in turn, goes on
  after a failed push, and returns `!v.empty()` and-ed with every result.
  The concrete protocols that implement `push(p, value)` are not in this
  repository.
- The **OSCQuery request parser** (`oscquery/detail/`) is listed in
  `PROJECT.json` and is not modelled (see "Not modelled, and why").

## Modules

| Module | Models | State | Actions |
|---|---|---|---|
| `Parameter` | generic_parameter with several caller threads | `value`, `previous`, `valueType`, `bounding`, `repFilter`, `callbacks`, `observing`, `alive`; per thread `pc`, `target`, `copy` and `copySeq` (the snapshot for `send` and which write it is), `pushed` (what the protocol's push read); histories `notified` (what callbacks received, each with its write's number), `wire` (last value pushed), `lastCommit` | `SetValue`, `PushValue` (locked commit), `Send` (send after the unlock; it records a notification only when a callback is attached), `Push` and `PushSend` (the protocol reads `m_value` unlocked, then sends what it read), `PushCurrent` (`push_value()`, straight to `Push`), `SetValueQuiet`, `Receive` (protocol thread: filter, then set or quiet set), `SetValueType`, `SetUnit`, `SetBounding`, `AddCallback`, `RemoveCallback`, `Destroy`; `push_bundle` as `PushBundle` (b = !v.empty()), `BundlePush` (one `b &= push(*addr)`, reading the value through `CurrentValue`, which is `value()`; the protocol's result chosen freely) and `BundleReturn`, with `bundle` (entries left), `bundleRes` (b) and the history `bundleLog` of push results |
| `MessageQueue` | message_queue composed with `Parameter` (EXTENDS) | `reg` (`m_reg`), `mqueue` (one FIFO per producing thread), `registrants` (reg calls minus unreg calls made by clients), `mqAlive` | `Reg`, `Unreg`, `QSend` (send plus the queue callback), `MQPush`/`MQPushSend`, `TryDequeue`, `ParamRemoved`, `MQDestroy` (the destructor's remove_callback loop), and every Parameter action |
| `Domain` | the clamp algorithms as operators | the last call: `shape`, `mode`, `dom`, `input`, `output` | `ApplyScalar` (int/float/char, and bool under a bool domain), `ApplyVec` (the `std::array<float, N>` overloads: broadcast, bool, one sub-domain per component), `ApplyList` (either `list_clamp` overload: `ListClamp` for the const& one, `ListClampMoved` for the identical rvalue one), `ApplyValueList` over `ValueDomains` (`domain_base<ossia::value>`), and `Done`; the bool specialisations bound against `BoolMin`/`BoolMax`, the constants of `domain_base<bool>` |
| `ValueSet` | the allowed-values set of one domain (`value_set_domain.hpp`) | `kind`, `list` (`domain_base<T>::values`), `sets` (per-position sets of `vector_domain`/`vecf_domain`), the last update `given`, the last get `got`, the last clamp `clampIn`/`clampMode`/`clampOut` | `Update` (update visitor), `Get` (get visitor), `Clamp` (`value_set_clamp`) |
| `Servus` | avahi::Servus with any number of caller threads, the avahi daemon as environment, and the Qt ItemModel as its listener | `clientState`, `result`, `quit`, `announceName`/`port`/`data` (what the instance holds), `group`/`published`/`committed` (the entry group), `browser`, `liveBrowsers`, `scope`, `instanceMap`, `resolvers`, `lock` (`_mutex`); per caller `pc`, `op`, `nErrors`, `tmo`, `ret`; `listening`, `rows` for the ItemModel | one action per call (`Announce`, `Withdraw`, `Set`, `BeginBrowsing`, `Browse`, `EndBrowsing`, `Discover`, `Destroy`, `ModelCreate` and `ModelDestroy`, which register and unregister through `AddListener` and `RemoveListener`), the steps inside a call (`BeginLocked`, `DiscoverAssert`, `Poll`, `LoopTest`, `DiscoverEnd`), and one per callback (`ClientRunning`, `ClientLost`, `BrowserNew`, `BrowserRemove`, `BrowserStatus`, `ResolveCB`, `GroupCB`), which `Poll` dispatches |
| `Multiplexer` | the win32 SocketReceiveMultiplexer, its Run thread, one other thread calling AsynchronousBreak, and the network | `socketListeners`, `timerListeners` (the vectors), `break_`, `breakEvent`, `evt` (per-socket events), `rearmed` (FD_READ re-enabled), `pending` (datagrams waiting per socket), `timerQueue` (the sorted `timerQueue_` of Run), `now`, `rpc` and the loop indices `ri`, `ti` | configuration between Runs (`Config` over `Attach…`/`Detach…`), `RunStart`, one action per point of the loop (`LoopTest`, `Wait`, `Woken`, `Recv`, `Process`, `Processed`, `RecvEnd`, `TimerFire` (a listener inside `Process` or `TimerFire` may call `Break`), `Fired`, `TimerEnd`, `Cleanup`), `AsyncFlag` and `AsyncSignal` (the two halves of AsynchronousBreak), `Deliver` (a datagram arrives) and `Tick` (the clock) |
| `ReceiveLoop` | what Run promises, without events, handles or timers (the abstract specification `Multiplexer` refines) | `running`, `attached`, `pending`, `stopReq` (a stop requested since this Run began), `inHand` (a datagram taken, not yet handed on) | `Configure` (attach/detach between Runs), `Start`, `Arrive`, `Consume` (the oldest datagram of an attached socket; `"__stop_"` requests the stop), `Deliver` (to the listener, which may request a stop), `Drop` (only once a stop was requested), `RequestStop`, `Stop` |

How the models correspond to the code:

- Values are records `[type, x]` with a small payload, and `NoValue` is the
  invalid `ossia::value{}`.
- `Convert`, `InitValue` and value equality come from `ossia::convert`,
  `init_value` and `value::operator==`. Those are not in this repository, so
  they are written from the spec. An impulse compares equal to everything.
- In `Parameter`, one thread's `set_value` is two steps:
  - the commit inside the mutex (`Commit`, `CommitNotify`);
  - `Send`, after the unlock.

  `push_value(v)` adds two more: `Push`, where the protocol reads `value`
  without the lock (line 67 passes `m_value` by reference), and `PushSend`,
  where it sends what it read. Another thread's commit can fall between
  them.
- The callback container is not in this repository. Only its effect is
  modelled: the first add and the last remove call
  `on_first_callback_added` / `on_removing_last_callback`.
- In `MessageQueue`, the queue's callback runs inside `Send` (`QSend`) and
  appends to the sending thread's sub-queue. `TryDequeue` takes the head of any
  sub-queue, which is the moodycamel per-producer order.
- In `Domain`:
  - an optional bound is a set of at most one element;
  - `Bound` is the switch on the bounding mode shared by all shapes;
  - `ossia::clamp/wrap/fold` are written from the spec, because the math
    header is not in this repository;
  - `Truth` is the C++ conversion of a number to bool; the scalar bool
    specialisation converts after bounding, the array one before.

- In `Servus`, a locked section that does not poll is one step taken when
  `lock` is free. A polling call holds `lock` from its start to its return.
  Each `simple_poll_iterate` is one `Poll` step that dispatches one callback
  or none; `tmo` keeps only the sign of browse's timeout. With a negative
  timeout (browse's default -1) the iterate blocks until an event, so that
  `Poll` must dispatch one, and browse's do-while runs once unless the
  timeout is positive. The daemon's answers (created or not, found or not, committed or
  not) are chosen by `\E`. `beginBrowsing`'s test of `_browser` and
  `discover`'s assert are separate steps, because the code takes them without
  the mutex.
- The ItemModel is abstracted to the set of names with a row. `findChild`'s
  de-duplication is set union. The key/value child rows are left out.
- In `Multiplexer`, Winsock and Win32 are modelled by what they do:
  - FD_READ posts the socket's event when data arrives, then not again until
    a `recvfrom` re-enables it. Re-enabling posts at once if data remains.
  - `WaitForMultipleObjects` returns the lowest signalled index and resets
    only that auto-reset event.
  - `std::sort` is not stable, so `Sorted` is every ordering of the queue by
    expiry.

## Runs

| Run | Expect | Checks |
|---|---|---|
| `parameter_concurrency` (`Parameter.cfg`) | pass | `TypeOK`; `ValueMatchesType`: the stored variant always has the declared type under every interleaving of set, quiet set, remote write, type and unit change; `BundleReportsAll`: when `push_bundle`'s loop is done, its result is true exactly when the vector was non-empty and every push succeeded, whichever push failed |
| `parameter_notify_order` | violation | `NotifyInCommitOrder`: an attached callback receives writes in the order they were committed. Violated: send after the unlock reorders notifications |
| `parameter_repfilter` | violation | `RepeatNotSignalled`: with the filter ON, the same value is never signalled twice in a row. Violated: the filter compares with `m_previousValue` |
| `mq_registration` (`MessageQueue.cfg`) | pass | `MQTypeOK`; `RegisteredIffCallback`: `m_reg` and the installed callback agree |
| `mq_refcount` | violation | `RegistrationKept`: a held registration keeps the callback. Violated: the count starts at 0 |
| `mq_removal` | violation | `QueueHoldsLiveParams`: no queued entry names a destroyed parameter. Violated by `on_param_removed` |
| `domain_bounds` | pass | `BoundsMatchReference`: every position without an allowed set matches the spec's per-position rule, in every shape, mode and one- or two-sided case, including positions past a short list domain and arrays of width 3 and 4 |
| `valueset` (`ValueSet.cfg`) | pass | `GetReflectsLastUpdate`: after any sequence of updates, reads and clamps, reading the allowed values gives what the last update set, for every kind but `vector` |
| `valueset_vector` | violation | `GetReflectsLastUpdate` on a `vector_domain`. Violated: the update visitor clears every position and fills only `values[0]` |
| `servus` (`Servus.cfg`) | pass | `PublishedIsCurrent`: a committed entry group always advertises the name, port and data the instance holds now; `AnnounceSuccessMeansPublished`: announce returning SUCCESS means committed under that name; `CallsReturn`: every call returns, also after the poll was quit, unless it is a `browse` with a negative timeout blocked in its poll waiting for an event (liveness); `RowsCoverInstances`: while the ItemModel listens, it has a row for every instance in `_instanceMap` |
| `servus_resolver_leak` | violation | `ResolversFreed`: every resolver whose callback ran has been freed, as the comment in `_browseCB` says. Violated: `_resolveCB` returns before `service_resolver_free` for a remote instance when browsing IF_LOCAL |
| `multiplexer` (`Multiplexer.cfg`) | pass | `AsyncBreakStopsRun`: an AsynchronousBreak made while Run runs ends it (liveness); `PacketsDrained`: a datagram waiting on an attached socket is read before Run ends (liveness); `TimersNotSkipped`: once the timer loop has passed an entry, every entry it did not fire in this pass is not yet due; `ContractSpec`: Run refines `ReceiveLoop` under the mapping running = (`rpc` # "idle"), attached = the sockets with a listener, stopReq = `break_`, inHand = (`rpc` = "got"), so datagrams are taken one at a time in arrival order, only from attached sockets and only during Run, a datagram read is dropped only when a stop was requested before its `break_` test, and Run returns only after a stop request made since it began, never on a stale break event or a timer |

The reference rule in `Domain` (`Expected`) is written from the spec, not
from the switch. A bound is enforced by CLIP, by LOW for min and HIGH for max,
and by WRAP/FOLD only when both bounds exist. A position with no enforced
bound passes through unchanged.

Every property of a passing run has a mutant in `PROJECT.json`: a faulty
variant of the code (for example an unconverted commit, a push_bundle keeping only
the last result, or an unreg that leaves the callback installed). TLC finds the property
violated once that variant replaces the real definition.

## Bounds and why they are enough

- **Parameter:**
  - Setup: one parameter; two writers and one protocol thread; types
    impulse/bool/int; payloads {0, 1}; one application callback; at most 3
    value-changing calls, `push_value()` calls or bundles; bundles of 0 to 2 entries (empty, one
    push, and a failure before or after a success). About 1.75M states,
    under two minutes.
  - Why enough: two writers are the fewest that can race a commit against
    another thread's send or push. Three calls allow commit, commit, then a
    third call between the other two threads' steps. Bool exercises the
    converting branch and the `set_bounding` guard.
- **MessageQueue:**
  - Setup: two threads, one of them a receiver; the queue callback and one
    other listener; at most 2 outstanding registrations and 2 value changes.
  - Why enough: this is the smallest setting in which a second reg, an
    interleaved unreg, a removal and two producers all occur.
- **Domain:**
  - Setup: inputs below, inside and above the bounds (including more than one
    period away, for WRAP and FOLD); every mode; min/max present or absent;
    allowed sets empty or not; list inputs and list domains of length 0 to 2,
    so that a domain is shorter and longer than its input; arrays of width
    2, 3 and 4 with components 0, 1 and 5 (zero, an allowed value, above
    the bounds); bool scalars 0 and 1.
  - Size: about 2M states, 40 seconds; the width-4 sub-domain case is most
    of it, which is why array components come from three values.
  - Limit: bounds satisfy min < max (see hazards).
- **Servus:**
  - Setup: one caller; two instance names to announce; one remote name;
    both scopes; at most 4 calls, 2 daemon events and 1 `set()`; the real
    limit of 10 poll errors.
  - Why enough: 4 calls are enough for model creation, browse, announce and
    a set or withdraw. 2 events let a browser NEW be followed by FOUND or a
    failure, or let the client start running in the middle of an announce.
  - Size: about 1.38M states, 3 minutes.
  - Limit: one caller. servus documents no thread safety, and the
    two-thread races are listed as hazards.
- **Multiplexer:**
  - Setup: two sockets; one listener; one timer listener attached up to
    twice; delay 1 and period 2; clock up to 2; 2 datagrams; 2 Runs; one
    Break from a callback; one AsynchronousBreak; 3 configurations.
  - Why enough: two sockets let one be woken while the other holds data. Two
    timer entries with the same expiry exercise the unstable re-sort. The
    breaks can land at every point of the loop.
  - Size: about 1.06M states, 3.5 minutes with the refinement check.
  - Not checked: oversize datagrams, which become size 0.
- **ValueSet:**
  - Setup: every kind but `vector` in the passing run; float payloads {1, 2}
    and one string; lists of up to 2 values; 2 positions; modes FREE and CLIP.
  - Why enough: two values of two types let an update keep, drop and replace
    elements, and let a later update shrink the set.

The violation runs use the smallest setting in which the counterexample exists.

## Fairness

- `Parameter.Spec` assumes weak fairness only for the steps of a call that
  has already started: `Send`, `Push`, `PushSend` and the loop of
  `push_bundle` (`BundlePush`, `BundleReturn`). Once a call has committed,
  its remaining code runs with no further waiting. No run of `Parameter` or
  `MessageQueue` checks liveness, and `MessageQueue.MQSpec` assumes no
  fairness: its consumer may stop polling.
- `Servus.Spec` assumes weak fairness for the steps of a call in progress,
  and strong fairness for its timeout passing (`LoopTest(t, TRUE)`):
  `announce` and `browse` check the clock on every iteration. A browse with a
  negative timeout is not helped by it: it waits for the daemon, which has
  no fairness.
- `Multiplexer.Spec` assumes weak fairness for the Run thread's steps and
  for the second half of AsynchronousBreak. The thread that set the flag goes
  on to call `SetEvent`. Datagrams, the clock and configuration have no
  fairness.
- No fairness is assumed for callers. They may stop at any time, which is why
  the runs do not check deadlock: a model where every parameter has been
  destroyed, or every call budget spent, has nothing left to do.

## Not modelled, and why

- **Pure I/O or generated code.** The Qt item model's read-only overrides
  (`index`, `parent`, `rowCount`, `data`, `headerData`), the Winsock socket
  wrappers, Boost.Spirit value and dataspace parsers, containers, `smallfun`,
  the signal/slot wrapper (its `Observer` base is not in this repository) and
  the module startup in `libossia.cpp` have no protocol of their own to check.
  The avahi `dylib_loader` and `libavahi` symbol table are `dlopen`/`dlsym`
  calls and assertions.
- **Outside this repository.** avahi, Winsock and the concrete protocols
  are not in this repository. The models give them only the behaviour this
  code relies on.
- **Parameter operations that change no state a property reads.**
  `set_access`, `set_domain`, `pull_value`, `pull_value_async` and
  `request_value` (the last three only forward to the protocol, whose
  `pull` is not here), and the destination overload of `set_value_quiet`.
- **`push_raw_bundle`.** It is the `push_bundle` loop over
  `full_parameter_data`, copies built by the caller. A copy taken before a
  later `push_value` would put a stale value on the wire by design. Its
  result accumulation is the same code as
  `push_bundle`'s, which `BundleReportsAll` checks.
- **`generic_clamp` on `std::vector<value>`** (`domain_impl.cpp` lines
  810-1012). Nothing in this repository calls these overloads: the only
  calls of `generic_clamp` are on single values.
- **State no property reads.** `bounding` and `observing` in `Parameter`,
  the bool specialisations in `Domain` and the clamp of `ValueSet` are kept
  because the code changes them, and the other actions read them
  (`set_bounding`'s bool guard, the choice between `set_value` and
  `set_value_quiet` in `Receive`). No property is stated about them: the
  ones that could be were restatements of a single guard or assignment.
- **`global_message_queue`.** Its `on_message` is driven by the device's
  `on_message` signal, which the protocols raise outside this repository.
  When that signal fires relative to a commit could only be guessed, so
  neither its stale read of `p.value()` nor a per-parameter order is checked.
- **`url_decode` and the OSCQuery query parsers.** These are sequential
  string functions with no shared state. Unit tests over their inputs reach
  them better than a model of strings built character by character.
- **The UDP socket's connection state.** `Bind`, `Connect` and
  `LocalEndpointFor` are left out of `Multiplexer`, which abstracts a socket to
  its queue of datagrams. The hazard that `LocalEndpointFor` leaves the socket
  connected to the wrong peer when it throws is listed but not checked.
- **Two callers of one Servus, attach during Run, and the unlocked read and
  write of `m_reg`.** servus documents no thread safety, and the multiplexer
  and message queue document none for configuration. These races are
  listed as hazards. The models keep one caller per object where the code
  leaves concurrent use undefined.
