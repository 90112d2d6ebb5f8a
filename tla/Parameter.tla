------------------------------ MODULE Parameter ------------------------------
(***************************************************************************)
(* ossia::net::generic_parameter (src/.../generic/generic_parameter.cpp)   *)
(* driven by several caller threads.                                       *)
(*                                                                         *)
(* set_value commits under m_valueMutex and calls send(copy) after the     *)
(* lock is released, so a thread is split into a locked commit step and a  *)
(* later notification step.  push_value adds a third step, an unlocked     *)
(* read of m_value handed to protocol_base::push.  Protocol receive        *)
(* handlers (not in this repository) call filter_value and then set_value  *)
(* or set_value_quiet depending on whether the parameter is observed       *)
(* (protocol.hpp comment on observe); Receive models that caller.          *)
(*                                                                         *)
(* A value is a record [type, x]: the variant tag and a small payload.     *)
(***************************************************************************)
EXTENDS Integers, Sequences, SequencesExt, FiniteSets

CONSTANTS
  Params,        \* parameter identities (model values)
  Threads,       \* caller threads
  Writers,       \* threads issuing local set/push calls
  Receivers,     \* protocol threads applying remote values
  Types,         \* val_type tags in use, "impulse" included
  Payloads,      \* payloads of non-impulse values
  CallbackIds,   \* listeners that may be attached to a parameter
  BoundingModes, \* bounding_mode values
  NoValue,       \* the invalid ossia::value{}
  MaxOps,        \* bound on value-changing calls, pushes and bundles
  MaxBundle      \* longest parameter vector passed to push_bundle

ASSUME Writers \subseteq Threads /\ Receivers \subseteq Threads
ASSUME "impulse" \in Types /\ MaxOps \in Nat

Impulse == [type |-> "impulse", x |-> 0]
Values == {[type |-> t, x |-> n] : t \in Types \ {"impulse"}, n \in Payloads}
            \cup {Impulse}

\* ossia::convert(v, t): the payload is cast to the target tag; an impulse
\* carries none, so it converts to the target's zero.
Convert(v, t) ==
  CASE t = "impulse"        -> Impulse
    [] v.type = "impulse"   -> [type |-> t, x |-> 0]
    [] t = "bool"           -> [type |-> t, x |-> IF v.x = 0 THEN 0 ELSE 1]
    [] OTHER                -> [type |-> t, x |-> v.x]

\* init_value(type): the default value of a type.
InitValue(t) == Convert(Impulse, t)

\* ossia::value equality: an impulse compares equal to every value.
ValueEq(a, b) ==
  IF a = NoValue \/ b = NoValue THEN a = b
  ELSE a = b \/ a.type = "impulse" \/ b.type = "impulse"

VARIABLES
  value,       \* m_value
  previous,    \* m_previousValue
  valueType,   \* m_valueType
  bounding,    \* m_boundingMode
  repFilter,   \* repetition filter ON
  callbacks,   \* listeners of each parameter
  observing,   \* last state passed to protocol_base::observe
  alive,       \* the parameter has not been destroyed
  pc,          \* step of each thread
  target,      \* parameter a thread is working on
  copy,        \* the snapshot a thread passes to send()
  copySeq,     \* which write (its number among all writes) that snapshot is
  pushed,      \* the m_value a thread's protocol push has read, not yet sent
  notified,    \* history of values passed to the callbacks of a parameter
  wire,        \* last value handed to protocol_base::push
  lastCommit,  \* kind of the last call that wrote m_value
  ops,         \* value-changing calls and bundles so far
  bundle,      \* push_bundle: the entries of v not pushed yet
  bundleRes,   \* push_bundle: its local b
  bundleLog    \* push_bundle: the results of its pushes so far (history)

paramVars == <<value, previous, valueType, bounding, repFilter, callbacks,
               observing, alive>>
bundleVars == <<bundle, bundleRes, bundleLog>>
threadVars == <<pc, target, copy, copySeq, pushed, bundleVars>>
vars == <<paramVars, threadVars, notified, wire, lastCommit, ops>>

Init ==
  /\ valueType \in [Params -> Types]
  /\ value = [p \in Params |-> InitValue(valueType[p])]
  /\ previous = [p \in Params |-> NoValue]
  /\ bounding \in [Params -> BoundingModes]
  /\ repFilter \in [Params -> BOOLEAN]
  /\ callbacks = [p \in Params |-> {}]
  /\ observing = [p \in Params |-> FALSE]
  /\ alive = [p \in Params |-> TRUE]
  /\ pc = [t \in Threads |-> "idle"]
  /\ target \in [Threads -> Params]
  /\ copy = [t \in Threads |-> NoValue]
  /\ copySeq = [t \in Threads |-> 0]
  /\ pushed = [t \in Threads |-> NoValue]
  /\ notified = [p \in Params |-> <<>>]
  /\ wire = [p \in Params |-> NoValue]
  /\ lastCommit = [p \in Params |-> "none"]
  /\ ops = 0
  /\ bundle = [t \in Threads |-> <<>>]
  /\ bundleRes = [t \in Threads |-> FALSE]
  /\ bundleLog = [t \in Threads |-> <<>>]

Ready(t, p) == pc[t] = "idle" /\ alive[p] /\ ops < MaxOps

\* Faulty variants of the locked block: storing the input unconverted, and
\* restoring m_previousValue into m_value (the two moves swapped).
CommitUnconverted(p, v) ==
  /\ previous' = [previous EXCEPT ![p] = value[p]]
  /\ value' = [value EXCEPT ![p] = v]
CommitSwapped(p, v) ==
  /\ previous' = [previous EXCEPT ![p] = value[p]]
  /\ value' = [value EXCEPT ![p] = previous[p]]

\* The block of set_value / set_value_quiet run under m_valueMutex: keep
\* the old value, then store v, converted to the current tag if the variant
\* index differs.
Commit(p, v) ==
  /\ previous' = [previous EXCEPT ![p] = value[p]]
  /\ value' = [value EXCEPT ![p] = IF value[p].type = v.type THEN v
                                   ELSE Convert(v, value[p].type)]

\* A locked commit whose snapshot is then passed to send(); next is the
\* step that follows it.
CommitNotify(t, p, v, next, kind) ==
  /\ Commit(p, v)
  /\ pc' = [pc EXCEPT ![t] = next]
  /\ target' = [target EXCEPT ![t] = p]
  /\ copy' = [copy EXCEPT ![t] = value'[p]]
  /\ copySeq' = [copySeq EXCEPT ![t] = ops + 1]
  /\ pushed' = pushed
  /\ lastCommit' = [lastCommit EXCEPT ![p] = kind]
  /\ ops' = ops + 1

SetValue(t, p, v) ==
  /\ t \in Writers /\ Ready(t, p)
  /\ CommitNotify(t, p, v, "send", "set")
  /\ UNCHANGED <<valueType, bounding, repFilter, callbacks, observing, alive,
                 notified, wire, bundleVars>>

\* push_value(v): set_value(v) followed by m_protocol.push(*this, m_value).
PushValue(t, p, v) ==
  /\ t \in Writers /\ Ready(t, p)
  /\ CommitNotify(t, p, v, "sendpush", "push")
  /\ UNCHANGED <<valueType, bounding, repFilter, callbacks, observing, alive,
                 notified, wire, bundleVars>>

\* send(copy), outside the lock: the callbacks of target[t] run on the
\* copy (callback_container::send walks the listeners; with none it does
\* nothing).  A notification is recorded with the number of its write;
\* the copy, a local of set_value, is gone after it.
Send(t) ==
  /\ pc[t] \in {"send", "sendpush"}
  /\ notified' = IF callbacks[target[t]] # {}
                  THEN [notified EXCEPT ![target[t]] =
                          Append(@, [v |-> copy[t], n |-> copySeq[t]])]
                  ELSE notified
  /\ pc' = [pc EXCEPT ![t] = IF pc[t] = "send" THEN "idle" ELSE "push"]
  /\ copy' = [copy EXCEPT ![t] = NoValue]
  /\ copySeq' = [copySeq EXCEPT ![t] = 0]
  /\ UNCHANGED <<paramVars, target, pushed, bundleVars, wire, lastCommit, ops>>

\* m_protocol.push(*this, m_value): m_value is passed by reference and the
\* protocol reads it without m_valueMutex ...
Push(t) ==
  /\ pc[t] = "push"
  /\ pushed' = [pushed EXCEPT ![t] = value[target[t]]]
  /\ pc' = [pc EXCEPT ![t] = "pushsend"]
  /\ UNCHANGED <<paramVars, target, copy, copySeq, bundleVars, notified, wire,
                 lastCommit, ops>>

\* ... and then sends what it read.
PushSend(t) ==
  /\ pc[t] = "pushsend"
  /\ wire' = [wire EXCEPT ![target[t]] = pushed[t]]
  /\ pc' = [pc EXCEPT ![t] = "idle"]
  /\ pushed' = [pushed EXCEPT ![t] = NoValue]
  /\ UNCHANGED <<paramVars, target, copy, copySeq, bundleVars, notified,
                 lastCommit, ops>>

\* push_value() without argument: straight to m_protocol.push(*this,
\* m_value), read and sent as above.
PushCurrent(t, p) ==
  /\ t \in Writers /\ Ready(t, p)
  /\ pc' = [pc EXCEPT ![t] = "push"]
  /\ target' = [target EXCEPT ![t] = p]
  /\ ops' = ops + 1
  /\ UNCHANGED <<paramVars, copy, copySeq, pushed, bundleVars, notified, wire,
                 lastCommit>>

\* push_bundle(v) of protocol_base, called by a writer: b starts as
\* !v.empty(), then the loop runs over v.
PushBundle(t, v) ==
  /\ t \in Writers /\ pc[t] = "idle" /\ ops < MaxOps
  /\ \A i \in DOMAIN v : alive[v[i]]
  /\ pc' = [pc EXCEPT ![t] = "bundle"]
  /\ bundle' = [bundle EXCEPT ![t] = v]
  /\ bundleRes' = [bundleRes EXCEPT ![t] = v # <<>>]
  /\ bundleLog' = [bundleLog EXCEPT ![t] = <<>>]
  /\ ops' = ops + 1
  /\ UNCHANGED <<paramVars, target, copy, copySeq, pushed, notified, wire, lastCommit>>

\* value(): m_value, copied under m_valueMutex.
CurrentValue(p) == value[p]

\* A faulty loop body that keeps only the last push's result (b = push).
BundlePushAssign(t) ==
  /\ pc[t] = "bundle" /\ bundle[t] # <<>>
  /\ LET p == Head(bundle[t]) IN
       /\ wire' = [wire EXCEPT ![p] = CurrentValue(p)]
       /\ \E ok \in BOOLEAN :
            /\ bundleRes' = [bundleRes EXCEPT ![t] = ok]
            /\ bundleLog' = [bundleLog EXCEPT ![t] = Append(@, ok)]
  /\ bundle' = [bundle EXCEPT ![t] = Tail(@)]
  /\ UNCHANGED <<paramVars, pc, target, copy, copySeq, pushed, notified,
                 lastCommit, ops>>

\* One turn of the loop: b &= push(*addr), where protocol_base::push(p)
\* is push(p, p.value()); the concrete protocol's push may fail, and the
\* loop goes on either way.
BundlePush(t) ==
  /\ pc[t] = "bundle" /\ bundle[t] # <<>>
  /\ LET p == Head(bundle[t]) IN
       /\ wire' = [wire EXCEPT ![p] = CurrentValue(p)]
       /\ \E ok \in BOOLEAN :
            /\ bundleRes' = [bundleRes EXCEPT ![t] = @ /\ ok]
            /\ bundleLog' = [bundleLog EXCEPT ![t] = Append(@, ok)]
  /\ bundle' = [bundle EXCEPT ![t] = Tail(@)]
  /\ UNCHANGED <<paramVars, pc, target, copy, copySeq, pushed, notified,
                 lastCommit, ops>>

\* The loop has run over all of v: return b.
BundleReturn(t) ==
  /\ pc[t] = "bundle" /\ bundle[t] = <<>>
  /\ pc' = [pc EXCEPT ![t] = "idle"]
  /\ UNCHANGED <<paramVars, target, copy, copySeq, pushed, bundleVars,
                 notified, wire, lastCommit, ops>>

SetValueQuiet(t, p, v) ==
  /\ t \in Writers /\ Ready(t, p)
  /\ Commit(p, v)
  /\ lastCommit' = [lastCommit EXCEPT ![p] = "quiet"]
  /\ ops' = ops + 1
  /\ UNCHANGED <<valueType, bounding, repFilter, callbacks, observing, alive,
                 threadVars, notified, wire>>

\* filter_value: drop a write that repeats m_previousValue.
FilterValue(p, v) == repFilter[p] /\ ValueEq(v, previous[p])

\* A remote value reaching a protocol thread: unless filtered, set_value
\* when the parameter is observed, else set_value_quiet.
Receive(t, p, v) ==
  /\ t \in Receivers /\ Ready(t, p)
  /\ ~FilterValue(p, v)
  /\ IF observing[p]
       THEN CommitNotify(t, p, v, "send", "set")
       ELSE /\ Commit(p, v)
            /\ lastCommit' = [lastCommit EXCEPT ![p] = "quiet"]
            /\ ops' = ops + 1
            /\ UNCHANGED threadVars
  /\ UNCHANGED <<valueType, bounding, repFilter, callbacks, observing, alive,
                 notified, wire, bundleVars>>

\* set_value_type: under the lock, new tag and its default value;
\* m_previousValue is left as it was.
SetValueType(t, p, ty) ==
  /\ t \in Writers /\ Ready(t, p)
  /\ valueType' = [valueType EXCEPT ![p] = ty]
  /\ value' = [value EXCEPT ![p] = InitValue(ty)]
  /\ lastCommit' = [lastCommit EXCEPT ![p] = "type"]
  /\ ops' = ops + 1
  /\ UNCHANGED <<previous, bounding, repFilter, callbacks, observing, alive,
                 threadVars, notified, wire>>

\* set_unit with a unit whose matching_type is ty: under the lock, the tag
\* becomes ty and m_value is converted to it; an impulse-typed unit leaves
\* both alone.
SetUnit(t, p, ty) ==
  /\ t \in Writers /\ Ready(t, p)
  /\ IF ty # "impulse"
       THEN /\ valueType' = [valueType EXCEPT ![p] = ty]
            /\ value' = [value EXCEPT ![p] = Convert(value[p], ty)]
            /\ lastCommit' = [lastCommit EXCEPT ![p] = "type"]
       ELSE UNCHANGED <<valueType, value, lastCommit>>
  /\ ops' = ops + 1
  /\ UNCHANGED <<previous, bounding, repFilter, callbacks, observing, alive,
                 threadVars, notified, wire>>

\* set_bounding: ignored for a bool parameter.
SetBounding(p, b) ==
  /\ alive[p]
  /\ bounding[p] # b /\ valueType[p] # "bool"
  /\ bounding' = [bounding EXCEPT ![p] = b]
  /\ UNCHANGED <<value, previous, valueType, repFilter, callbacks, observing,
                 alive, threadVars, notified, wire, lastCommit, ops>>

\* add_callback; the first one triggers on_first_callback_added, which
\* calls m_protocol.observe(*this, true).
AddCallback(p, c) ==
  /\ alive[p] /\ c \notin callbacks[p]
  /\ callbacks' = [callbacks EXCEPT ![p] = @ \cup {c}]
  /\ observing' = IF callbacks[p] = {}
                    THEN [observing EXCEPT ![p] = TRUE] ELSE observing
  /\ UNCHANGED <<value, previous, valueType, bounding, repFilter, alive,
                 threadVars, notified, wire, lastCommit, ops>>

\* remove_callback; removing the last one triggers
\* on_removing_last_callback, i.e. m_protocol.observe(*this, false).
RemoveCallback(p, c) ==
  /\ alive[p] /\ c \in callbacks[p]
  /\ callbacks' = [callbacks EXCEPT ![p] = @ \ {c}]
  /\ observing' = IF callbacks[p] = {c}
                    THEN [observing EXCEPT ![p] = FALSE] ELSE observing
  /\ UNCHANGED <<value, previous, valueType, bounding, repFilter, alive,
                 threadVars, notified, wire, lastCommit, ops>>

\* ~generic_parameter: callbacks_clear().  The owner destroys a parameter
\* only when no call on it is in progress.
Destroy(p) ==
  /\ alive[p]
  /\ \A t \in Threads : pc[t] = "idle" \/ target[t] # p
  /\ \A t \in Threads : p \notin ToSet(bundle[t])
  /\ alive' = [alive EXCEPT ![p] = FALSE]
  /\ callbacks' = [callbacks EXCEPT ![p] = {}]
  /\ UNCHANGED <<value, previous, valueType, bounding, repFilter, observing,
                 threadVars, notified, wire, lastCommit, ops>>

Next ==
  \/ \E t \in Threads, p \in Params, v \in Values :
       \/ SetValue(t, p, v)
       \/ PushValue(t, p, v)
       \/ SetValueQuiet(t, p, v)
       \/ Receive(t, p, v)
  \/ \E t \in Threads : Send(t) \/ Push(t) \/ PushSend(t)
  \/ \E t \in Threads, p \in Params : PushCurrent(t, p)
  \/ \E t \in Threads, p \in Params, ty \in Types :
       SetValueType(t, p, ty) \/ SetUnit(t, p, ty)
  \/ \E p \in Params, b \in BoundingModes : SetBounding(p, b)
  \/ \E p \in Params, c \in CallbackIds : AddCallback(p, c) \/ RemoveCallback(p, c)
  \/ \E p \in Params : Destroy(p)
  \/ \E t \in Threads : \E v \in BoundedSeq(Params, MaxBundle) : PushBundle(t, v)
  \/ \E t \in Threads : BundlePush(t) \/ BundleReturn(t)

\* A thread that has committed always goes on to notify and push, and a
\* push_bundle runs its loop to the end.
Fairness ==
  \A t \in Threads : /\ WF_vars(Send(t)) /\ WF_vars(Push(t))
                    /\ WF_vars(PushSend(t))
                    /\ WF_vars(BundlePush(t)) /\ WF_vars(BundleReturn(t))

Spec == Init /\ [][Next]_vars /\ Fairness

-----------------------------------------------------------------------------
TypeOK ==
  /\ value \in [Params -> Values]
  /\ previous \in [Params -> Values \cup {NoValue}]
  /\ valueType \in [Params -> Types]
  /\ bounding \in [Params -> BoundingModes]
  /\ repFilter \in [Params -> BOOLEAN]
  /\ callbacks \in [Params -> SUBSET CallbackIds]
  /\ observing \in [Params -> BOOLEAN]
  /\ alive \in [Params -> BOOLEAN]
  /\ pc \in [Threads -> {"idle", "send", "sendpush", "push", "pushsend",
                             "bundle"}]
  /\ target \in [Threads -> Params]
  /\ copy \in [Threads -> Values \cup {NoValue}]
  /\ copySeq \in [Threads -> 0..MaxOps]
  /\ pushed \in [Threads -> Values \cup {NoValue}]
  /\ notified \in [Params -> Seq([v : Values, n : 1..MaxOps])]
  /\ wire \in [Params -> Values \cup {NoValue}]
  /\ lastCommit \in [Params -> {"none", "set", "push", "quiet", "type"}]
  /\ ops \in 0..MaxOps
  /\ bundle \in [Threads -> Seq(Params)]
  /\ bundleRes \in [Threads -> BOOLEAN]
  /\ bundleLog \in [Threads -> Seq(BOOLEAN)]

\* The variant held by m_value always has the declared m_valueType, however
\* set_value, set_value_quiet, remote writes and set_value_type interleave:
\* set_value converts a foreign-typed input to the current tag.
ValueMatchesType ==
  \A p \in Params : value[p].type = valueType[p]

\* push_bundle is best effort and reports in aggregate (spec 4.4): when its
\* loop is done, b is true exactly when the vector was not empty and every
\* one of its pushes succeeded, however many failed before the last one.
BundleReportsAll ==
  \A t \in Threads :
    pc[t] = "bundle" /\ bundle[t] = <<>> =>
      (bundleRes[t] <=> bundleLog[t] # <<>>
                          /\ \A i \in DOMAIN bundleLog[t] : bundleLog[t][i])

\* Callbacks see writes in commit order: set_value takes its copy under
\* m_valueMutex but calls send(copy) after unlocking, and nothing orders
\* two threads' sends, so the question is whether a listener can receive
\* an older write after a newer one.
NotifyInCommitOrder ==
  \A p \in Params :
    \A i, j \in DOMAIN notified[p] :
      i < j => notified[p][i].n < notified[p][j].n

\* With the repetition filter on, a value equal to the one before is not
\* signalled again: callbacks never receive the same value twice in a row.
RepeatNotSignalled ==
  \A p \in Params :
    repFilter[p] =>
      \A i \in 1..(Len(notified[p]) - 1) :
        notified[p][i].v # notified[p][i + 1].v
=============================================================================
