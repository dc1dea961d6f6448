-------------------------------- MODULE AsyncQ --------------------------------
(***************************************************************************)
(* imrcp.system.AsyncQ: the queue of notification messages every block     *)
(* owns.  Callers append with queue(); executions of run() submitted to    *)
(* the shared thread pool take the messages out and hand them to the       *)
(* delegate (IRunTarget).  The counter m_nMaxThreads is the number of      *)
(* executions that may still be dispatched.                                *)
(*                                                                         *)
(* A synchronized (m_oDeque) block is one atomic step.  stop() takes no    *)
(* monitor: its two assignments are two steps, and with StopRace the first *)
(* one may fall in the middle of the counter update of a monitor section.  *)
(***************************************************************************)
EXTENDS Integers, Sequences, FiniteSets

CONSTANTS
  Item,        \* the messages
  NoItem,      \* the null of "T oT = null"
  Worker,      \* names for the executions of run() the pool may hold
  MaxThreads,  \* the thread limit the queue is constructed with
  IntMax,      \* Integer.MAX_VALUE
  StopRace     \* may stop() hit the middle of a monitor section?

ASSUME AsyncQAssumption ==
  /\ NoItem \notin Item
  /\ MaxThreads \in Nat \ {0}
  /\ IntMax \in Nat
  /\ MaxThreads <= IntMax
  /\ StopRace \in BOOLEAN

VARIABLES
  deque,    \* m_oDeque
  slots,    \* m_nMaxThreads
  pc,       \* [Worker -> "idle" | "pooled" | "working"]: where an execution is
  oT,       \* [Worker -> Item or NoItem]: the message an execution holds
  stop,     \* progress of stop(): "no", "writing", "clearing", "done"
  sent,     \* history: the messages given to queue() so far
  done      \* history: the messages the delegate has dealt with, in order

qvars == <<deque, slots, pc, oT, stop, sent, done>>

Busy == {w \in Worker : pc[w] # "idle"}

IntMin == -IntMax - 1  \* Integer.MIN_VALUE

\* Wrap-around of the int counter below its minimum.
Wrap(n) == IF n < IntMin THEN n + 2 * (IntMax + 1) ELSE n

AsyncQInit ==
  /\ deque = <<>>
  /\ slots = MaxThreads
  /\ pc = [w \in Worker |-> "idle"]
  /\ oT = [w \in Worker |-> NoItem]
  /\ stop = "no"
  /\ sent = {}
  /\ done = <<>>

-----------------------------------------------------------------------------

\* What "++m_nMaxThreads" or "--m_nMaxThreads" may leave behind, with the
\* progress of stop().  Under a race the update may overwrite stop()'s
\* assignment, or read MIN_VALUE after its guard has read the old value.
WriteSlots(d) ==
  \E c \in {<<slots + d, stop>>} \cup
             IF StopRace /\ stop = "writing"
               THEN {<<slots + d, "clearing">>, <<Wrap(IntMin + d), "clearing">>}
               ELSE {} :
    slots' = c[1] /\ stop' = c[2]

\* m_oThreadPool.execute(this) after a decrement: a further execution of run().
\* next is the table pc with the caller's own change made.
Dispatch(next) ==
  /\ WriteSlots(-1)
  /\ \E w \in Worker \ Busy : pc' = [next EXCEPT ![w] = "pooled"]

\* The body of queue(): nothing more is needed if the limit is in use.
Enqueue_AlwaysDispatch(i) ==
  /\ deque' = Append(deque, i)
  /\ Dispatch(pc)

Enqueue(i) ==
  /\ deque' = Append(deque, i)
  /\ IF slots > 0 THEN Dispatch(pc) ELSE UNCHANGED <<slots, stop, pc>>

\* queue(oT) called by some other block's thread.
Queue(i) ==
  /\ i \notin sent
  /\ sent' = sent \cup {i}
  /\ Enqueue(i)
  /\ UNCHANGED <<oT, done>>

\* First monitor section of run(): take the oldest message, and dispatch a
\* further execution when more work is left and the limit allows it.
Poll_Peek(w) ==
  /\ pc[w] = "pooled"
  /\ deque # <<>>
  /\ oT' = [oT EXCEPT ![w] = Head(deque)]
  /\ pc' = [pc EXCEPT ![w] = "working"]
  /\ UNCHANGED <<deque, slots, stop, sent, done>>

Poll(w) ==
  /\ pc[w] = "pooled"
  /\ oT' = [oT EXCEPT ![w] = IF deque = <<>> THEN NoItem ELSE Head(deque)]
  /\ deque' = IF deque = <<>> THEN <<>> ELSE Tail(deque)
  /\ LET next == [pc EXCEPT ![w] = "working"]
     IN  IF slots > 0 /\ Len(deque') > 0
           THEN Dispatch(next)
           ELSE pc' = next /\ UNCHANGED <<slots, stop>>
  /\ UNCHANGED <<sent, done>>

\* m_iDelegate.run(oT) returns having dealt with the message.
Deliver(w) ==
  /\ pc[w] = "working"
  /\ oT[w] # NoItem
  /\ done' = Append(done, oT[w])
  /\ oT' = [oT EXCEPT ![w] = NoItem]
  /\ UNCHANGED <<deque, slots, pc, stop, sent>>

\* m_iDelegate.run(oT) puts the message back with queue(), as BaseBlock does.
GiveBack_Cleared(w) ==
  /\ pc[w] = "working"
  /\ oT[w] # NoItem
  /\ oT' = [oT EXCEPT ![w] = NoItem]
  /\ Enqueue(oT'[w])
  /\ UNCHANGED <<sent, done>>

GiveBack(w) ==
  /\ pc[w] = "working"
  /\ oT[w] # NoItem
  /\ Enqueue(oT[w])
  /\ oT' = [oT EXCEPT ![w] = NoItem]
  /\ UNCHANGED <<sent, done>>

\* Last monitor section of run(): run again while messages are left,
\* otherwise give the slot back.
Finish_KeepSlot(w) ==
  /\ pc[w] = "working"
  /\ oT[w] = NoItem
  /\ pc' = [pc EXCEPT ![w] = "idle"]
  /\ IF deque # <<>>
       THEN UNCHANGED <<slots, stop>>
       ELSE WriteSlots(1)
  /\ UNCHANGED <<deque, oT, sent, done>>

Finish_NoRerun(w) ==
  /\ pc[w] = "working"
  /\ oT[w] = NoItem
  /\ pc' = [pc EXCEPT ![w] = "idle"]
  /\ WriteSlots(1)
  /\ UNCHANGED <<deque, oT, sent, done>>

Finish(w) ==
  /\ pc[w] = "working"
  /\ oT[w] = NoItem
  /\ IF deque # <<>>
       THEN pc' = [pc EXCEPT ![w] = "pooled"] /\ UNCHANGED <<slots, stop>>
       ELSE /\ pc' = [pc EXCEPT ![w] = "idle"]
            /\ WriteSlots(1)
  /\ UNCHANGED <<deque, oT, sent, done>>

\* stop(), called once by stopService(): m_nMaxThreads = MIN_VALUE; clear().
StopCall ==
  /\ stop = "no"
  /\ stop' = "writing"
  /\ UNCHANGED <<deque, slots, pc, oT, sent, done>>

StopWrite_Zero ==
  /\ stop = "writing"
  /\ stop' = "clearing"
  /\ slots' = 0
  /\ UNCHANGED <<deque, pc, oT, sent, done>>

StopWrite ==
  /\ stop = "writing"
  /\ stop' = "clearing"
  /\ slots' = IntMin
  /\ UNCHANGED <<deque, pc, oT, sent, done>>

StopClear ==
  /\ stop = "clearing"
  /\ stop' = "done"
  /\ deque' = <<>>
  /\ UNCHANGED <<slots, pc, oT, sent, done>>

AsyncQNext ==
  \/ \E i \in Item : Queue(i)
  \/ \E w \in Worker : Poll(w) \/ Deliver(w) \/ GiveBack(w) \/ Finish(w)
  \/ StopCall \/ StopWrite \/ StopClear

AsyncQSpec == AsyncQInit /\ [][AsyncQNext]_qvars

-----------------------------------------------------------------------------

\* Shape of the state (AsyncQ's fields and the executions of run()).
AsyncQTypeOK ==
  /\ deque \in Seq(Item)
  /\ slots \in IntMin .. IntMax
  /\ pc \in [Worker -> {"idle", "pooled", "working"}]
  /\ oT \in [Worker -> Item \cup {NoItem}]
  /\ stop \in {"no", "writing", "clearing", "done"}
  /\ sent \in SUBSET Item
  /\ done \in Seq(Item)

\* The counter and the executions in the pool account for each other: a slot
\* is neither leaked (the queue would serve fewer messages at a time, in the
\* end none) nor invented; once stop() has written, no slot can become free.
SlotAccounting ==
  IF stop \in {"no", "writing"}
    THEN slots >= 0 /\ slots + Cardinality(Busy) = MaxThreads
    ELSE slots + Cardinality(Busy) <= IntMin + MaxThreads

\* queue() dispatches nothing when the limit is in use and run() ends without
\* dispatching when it saw the deque empty: between the two no message may be
\* left waiting with nobody to take it.
NoStranding ==
  stop \in {"no", "writing"} /\ deque # <<>> => Busy # {}

\* "Counter for limiting the maximum number of working threads."
ThreadLimit == Cardinality(Busy) <= MaxThreads

\* Where message i is: positions in the deque, executions holding it, and
\* positions in the history of the delegate.
Places(i) ==
  {<<"deque", k>> : k \in {k \in DOMAIN deque : deque[k] = i}} \cup
  {<<"held", w>> : w \in {w \in Worker : oT[w] = i}} \cup
  {<<"done", k>> : k \in {k \in DOMAIN done : done[k] = i}}

\* Once stop() is over and the executions it met have ended, queue() never
\* starts another one.
StopIsFinal == [][stop = "done" /\ Busy = {} => Busy' = {}]_qvars

=============================================================================
