---------------------------- MODULE MessageQueue ----------------------------
(***************************************************************************)
(* ossia::message_queue (src/.../network/base/message_queue.hpp) composed  *)
(* with the parameters of Parameter.tla.                                   *)
(*                                                                         *)
(* reg(p) installs, on the first registration of p, a callback that       *)
(* enqueues {&p, value} into a moodycamel::ConcurrentQueue; m_reg counts   *)
(* the further registrations, unreg(p) decrements and removes the callback *)
(* at zero.  The device's on_parameter_removing signal erases p from m_reg *)
(* before the parameter is destroyed.                                      *)
(*                                                                         *)
(* The concurrent queue keeps one FIFO sub-queue per producing thread (its *)
(* implicit producer); try_dequeue takes the head of any non-empty one, so *)
(* entries of different producers come out in no fixed order.             *)
(***************************************************************************)
EXTENDS Parameter, Functions

CONSTANTS
  MQCallback,   \* the callback message_queue::reg installs on a parameter
  MaxRegs       \* bound on outstanding registrations of one parameter

ASSUME MQCallback \in CallbackIds /\ MaxRegs \in Nat

VARIABLES
  reg,          \* m_reg: parameter |-> count (the pair's int)
  mqueue,       \* m_queue: producing thread |-> FIFO of received_value
  registrants,  \* reg calls minus unreg calls a client has made on p
  mqAlive       \* the message_queue has not been destroyed

mqVars == <<reg, mqueue, registrants, mqAlive>>
allVars == <<vars, mqVars>>

Entries == [param : Params, value : Values]

MQInit ==
  /\ Init
  /\ reg = <<>>
  /\ mqueue = [t \in Threads |-> <<>>]
  /\ registrants = [p \in Params |-> 0]
  /\ mqAlive = TRUE

\* message_queue::reg
Reg(p) ==
  /\ mqAlive /\ alive[p] /\ registrants[p] < MaxRegs
  /\ IF p \notin DOMAIN reg
       THEN /\ AddCallback(p, MQCallback)
            /\ reg' = reg @@ (p :> 0)
       ELSE /\ reg' = [reg EXCEPT ![p] = @ + 1]
            /\ UNCHANGED vars
  /\ registrants' = [registrants EXCEPT ![p] = @ + 1]
  /\ UNCHANGED <<mqueue, mqAlive>>

\* A faulty unreg that erases the entry but leaves the callback installed.
UnregKeepCallback(p) ==
  /\ mqAlive /\ alive[p] /\ registrants[p] > 0
  /\ IF p \in DOMAIN reg /\ reg[p] - 1 <= 0
       THEN reg' = Restrict(reg, DOMAIN reg \ {p})
       ELSE reg' = IF p \in DOMAIN reg THEN [reg EXCEPT ![p] = @ - 1] ELSE reg
  /\ registrants' = [registrants EXCEPT ![p] = @ - 1]
  /\ UNCHANGED <<vars, mqueue, mqAlive>>

\* message_queue::unreg, called by a client that registered p before.
Unreg(p) ==
  /\ mqAlive /\ alive[p] /\ registrants[p] > 0
  /\ IF p \in DOMAIN reg
       THEN IF reg[p] - 1 <= 0
              THEN /\ RemoveCallback(p, MQCallback)
                   /\ reg' = Restrict(reg, DOMAIN reg \ {p})
              ELSE /\ reg' = [reg EXCEPT ![p] = @ - 1]
                   /\ UNCHANGED vars
       ELSE UNCHANGED <<vars, reg>>
  /\ registrants' = [registrants EXCEPT ![p] = @ - 1]
  /\ UNCHANGED <<mqueue, mqAlive>>

\* send(copy) also runs the queue's callback when it is installed; it
\* enqueues through the implicit producer of the sending thread.
QSend(t) ==
  /\ Send(t)
  /\ mqueue' = IF MQCallback \in callbacks[target[t]]
                 THEN [mqueue EXCEPT ![t] =
                         Append(@, [param |-> target[t], value |-> copy[t]])]
                 ELSE mqueue
  /\ UNCHANGED <<reg, registrants, mqAlive>>

\* push_value's protocol push; the queue is not involved.
MQPush(t) == Push(t) /\ UNCHANGED mqVars
MQPushSend(t) == PushSend(t) /\ UNCHANGED mqVars

\* message_queue::try_dequeue returning true.
TryDequeue ==
  \E t \in Threads :
    /\ mqueue[t] # <<>>
    /\ mqueue' = [mqueue EXCEPT ![t] = Tail(@)]
    /\ UNCHANGED <<vars, reg, registrants, mqAlive>>

\* on_parameter_removing reaches on_param_removed, then the parameter is
\* destroyed.
ParamRemoved(p) ==
  /\ Destroy(p)
  /\ reg' = Restrict(reg, DOMAIN reg \ {p})
  /\ UNCHANGED <<mqueue, registrants, mqAlive>>

\* ~message_queue: remove_callback on every parameter still in m_reg (the
\* last one removed stops observing); the queue and m_reg go with it, and
\* no client registration outlives it.
MQDestroy ==
  /\ mqAlive /\ mqAlive' = FALSE
  /\ callbacks' = [p \in Params |->
                    IF p \in DOMAIN reg THEN callbacks[p] \ {MQCallback}
                                        ELSE callbacks[p]]
  /\ observing' = [p \in Params |->
                    IF p \in DOMAIN reg /\ callbacks[p] = {MQCallback}
                      THEN FALSE ELSE observing[p]]
  /\ reg' = <<>> /\ mqueue' = [t \in Threads |-> <<>>]
  /\ registrants' = [p \in Params |-> 0]
  /\ UNCHANGED <<value, previous, valueType, bounding, repFilter, alive,
                 threadVars, notified, wire, lastCommit, ops>>

MQNext ==
  \/ /\ \/ \E t \in Threads, p \in Params, v \in Values :
             \/ SetValue(t, p, v)
             \/ PushValue(t, p, v)
             \/ SetValueQuiet(t, p, v)
             \/ Receive(t, p, v)
        \/ \E t \in Threads, p \in Params : PushCurrent(t, p)
        \/ \E t \in Threads, p \in Params, ty \in Types :
             SetValueType(t, p, ty) \/ SetUnit(t, p, ty)
        \/ \E p \in Params, b \in BoundingModes : SetBounding(p, b)
        \/ \E p \in Params, c \in CallbackIds \ {MQCallback} :
             AddCallback(p, c) \/ RemoveCallback(p, c)
     /\ UNCHANGED mqVars
  \/ \E t \in Threads : QSend(t) \/ MQPush(t) \/ MQPushSend(t)
  \/ \E p \in Params : Reg(p) \/ Unreg(p) \/ ParamRemoved(p)
  \/ TryDequeue
  \/ MQDestroy

MQSpec == MQInit /\ [][MQNext]_allVars

-----------------------------------------------------------------------------
MQTypeOK ==
  /\ TypeOK
  /\ DOMAIN reg \subseteq Params /\ \A p \in DOMAIN reg : reg[p] \in Int
  /\ mqueue \in [Threads -> Seq(Entries)]
  /\ registrants \in [Params -> 0..MaxRegs]

\* m_reg and the parameters' callback lists agree: a live parameter is in
\* m_reg exactly when the queue's callback is installed on it, whatever
\* order reg, unreg, parameter removal and other listeners take.
RegisteredIffCallback ==
  \A p \in Params :
    alive[p] => (p \in DOMAIN reg <=> MQCallback \in callbacks[p])

\* While a client still holds a registration of p (more reg than unreg
\* calls), the queue's callback stays installed on p.
RegistrationKept ==
  \A p \in Params :
    alive[p] /\ registrants[p] > 0 => MQCallback \in callbacks[p]

\* The queue never holds an entry naming a destroyed parameter.
QueueHoldsLiveParams ==
  \A t \in Threads : \A i \in 1..Len(mqueue[t]) : alive[mqueue[t][i].param]
=============================================================================
