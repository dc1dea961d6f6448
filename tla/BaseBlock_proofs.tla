--------------------------- MODULE BaseBlock_proofs ---------------------------
(***************************************************************************)
(* Proofs about BaseBlock, for every set of messages, pool threads and     *)
(* executions: type correctness, the three facts about the life of a block *)
(* that its run checks, and that its message queue implements Mailbox.     *)
(*                                                                         *)
(* What is said of a block in service is proved without a restriction on   *)
(* stop(): it may fall in the middle of a monitor section (StopRace).      *)
(***************************************************************************)
EXTENDS BaseBlock, AsyncQ_proofs, SequenceTheorems

\* AsyncQTypeOK without the counter, which a race with stop() may damage.
QueueShape ==
  /\ deque \in Seq(Item)
  /\ pc \in [Worker -> {"idle", "pooled", "working"}]
  /\ oT \in [Worker -> Item \cup {NoItem}]
  /\ stop \in {"no", "writing", "clearing", "done"}
  /\ sent \in SUBSET Item
  /\ done \in Seq(Item)

BlockShape ==
  /\ status \in Status
  /\ starter \in {"ready", "entering", "marked", "started", "failed", "done"}
  /\ stopper \in {"ready", "marked", "cancelled", "done"}
  /\ runner \in [Runner -> {"idle", "pooled", "executing"}]
  /\ hand \in [Worker -> {"none", "inside", "refused"}]
  /\ scheduled \in BOOLEAN /\ thrown \in BOOLEAN /\ overlap \in BOOLEAN
  /\ retry \in 0 .. Timers
  /\ dropped \in SUBSET Item

\* An execution has a message only while it works, and run(String[]) has one.
HandInv ==
  /\ \A w \in Worker : oT[w] # NoItem => pc[w] = "working"
  /\ \A w \in Worker : hand[w] # "none" => oT[w] # NoItem

ShapeInv == QueueShape /\ BlockShape /\ HandInv

\* Where startService() and stopService() are, and what the status can be.
LifeInv ==
  /\ stopper = "ready" => ~overlap /\ stop = "no"
  /\ stopper # "ready" /\ starter # "done" => overlap
  /\ stopper = "ready" /\ starter # "done" => status \in {"INIT", "STARTING"}
  /\ stopper # "ready" /\ ~overlap => status \in {"STOPPING", "STOPPED", "ERROR"}
  /\ stopper \in {"cancelled", "done"} /\ ~overlap => ~scheduled
  /\ stopper = "done" /\ ~overlap => status # "STOPPING"

\* At most one thread is inside execute() or process(), and none while the
\* block is IDLE or has not been started.
OnlyOne ==
  /\ \A q, r \in Runner : runner[q] = "executing" /\ runner[r] = "executing" => q = r
  /\ \A v, w \in Worker : hand[v] = "inside" /\ hand[w] = "inside" => v = w
  /\ \A r \in Runner, w \in Worker : ~(runner[r] = "executing" /\ hand[w] = "inside")

NoneActive ==
  /\ \A r \in Runner : runner[r] # "executing"
  /\ \A w \in Worker : hand[w] # "inside"

ActiveInv ==
  /\ OnlyOne
  /\ status = "IDLE" => NoneActive
  /\ starter # "done" => NoneActive /\ status \notin {"IDLE", "RUNNING"}

\* The messages in a list, and that none is there twice.
Elems(s) == {s[k] : k \in 1 .. Len(s)}
Distinct(s) == \A j, k \in 1 .. Len(s) : s[j] = s[k] => j = k

\* The messages the executions hold.
InHand == {i \in Item : \E w \in Worker : oT[w] = i}

\* No message is held twice.
HeldOnce == \A v, w \in Worker : oT[v] = oT[w] /\ oT[v] # NoItem => v = w

\* Each message that was sent and not discarded is in one place.
PlaceInv ==
  /\ Distinct(deque) /\ Distinct(done) /\ HeldOnce
  /\ Elems(deque) \cap InHand = {}
  /\ Elems(deque) \cap Elems(done) = {}
  /\ InHand \cap Elems(done) = {}
  /\ Elems(deque) \cup InHand \cup Elems(done) \subseteq sent \ dropped
  /\ stop # "done" => sent \ dropped \subseteq Elems(deque) \cup InHand \cup Elems(done)
  /\ dropped \subseteq sent

DropInv == dropped # {} => status \in {"ERROR", "STOPPING", "STOPPED"} \/ overlap

\* What needs the status to leave ERROR for IDLE in no way: no retry timer.
TimedInv == LifeInv /\ ActiveInv /\ DropInv

BlockInv == ShapeInv /\ PlaceInv /\ (Timers = 0 => TimedInv)

-----------------------------------------------------------------------------
(* The steps of the queue, whether or not stop() races with them.          *)

LEMMA WriteSlotsAny ==
  ASSUME NEW d, WriteSlots(d)
  PROVE  stop' = stop \/ (stop = "writing" /\ stop' = "clearing")
BY DEF WriteSlots

LEMMA DispatchAny ==
  ASSUME NEW next, next \in [Worker -> {"idle", "pooled", "working"}],
         \A v \in Worker : next[v] = "idle" => pc[v] = "idle",
         Dispatch(next)
  PROVE  /\ pc' \in [Worker -> {"idle", "pooled", "working"}]
         /\ \A v \in Worker : pc[v] # "idle" => pc'[v] = next[v]
         /\ stop' = stop \/ (stop = "writing" /\ stop' = "clearing")
<1>1. PICK w \in Worker \ Busy : pc' = [next EXCEPT ![w] = "pooled"]
  BY DEF Dispatch
<1>2. pc[w] = "idle"
  BY <1>1 DEF Busy
<1>3. \A v \in Worker : pc[v] # "idle" => pc'[v] = next[v]
  BY <1>1, <1>2
<1> QED BY <1>1, <1>3, WriteSlotsAny DEF Dispatch

LEMMA EnqueueAny ==
  ASSUME QueueShape, NEW i \in Item, Enqueue(i)
  PROVE  /\ deque' = Append(deque, i) /\ deque' \in Seq(Item)
         /\ pc' \in [Worker -> {"idle", "pooled", "working"}]
         /\ \A v \in Worker : pc[v] # "idle" => pc'[v] = pc[v]
         /\ stop' = stop \/ (stop = "writing" /\ stop' = "clearing")
<1>1. deque' = Append(deque, i) /\ deque' \in Seq(Item)
  BY DEF Enqueue, QueueShape
<1>2. CASE slots > 0
  <2>1. Dispatch(pc)
    BY <1>2 DEF Enqueue
  <2> QED BY <1>1, <2>1, DispatchAny DEF QueueShape
<1>3. CASE ~(slots > 0)
  BY <1>1, <1>3 DEF Enqueue, QueueShape
<1> QED BY <1>2, <1>3

\* What a step does to an execution's message goes with what it does to hand.
LEMMA QueueStepShape ==
  ASSUME ShapeInv, NEW i \in Item, Queue(i)
  PROVE  /\ QueueShape'
         /\ deque' = Append(deque, i) /\ i \notin sent /\ sent' = sent \cup {i}
         /\ oT' = oT /\ done' = done
         /\ \A v \in Worker : pc[v] # "idle" => pc'[v] = pc[v]
         /\ stop' = stop \/ (stop = "writing" /\ stop' = "clearing")
<1>1. Enqueue(i) /\ i \notin sent /\ sent' = sent \cup {i} /\ oT' = oT /\ done' = done
  BY DEF Queue
<1>2. /\ deque' = Append(deque, i) /\ deque' \in Seq(Item)
      /\ pc' \in [Worker -> {"idle", "pooled", "working"}]
      /\ \A v \in Worker : pc[v] # "idle" => pc'[v] = pc[v]
      /\ stop' = stop \/ (stop = "writing" /\ stop' = "clearing")
  BY <1>1, EnqueueAny DEF ShapeInv
<1> QED BY <1>1, <1>2 DEF ShapeInv, QueueShape

LEMMA PollStepShape ==
  ASSUME ShapeInv, NEW w \in Worker, Poll(w)
  PROVE  /\ QueueShape'
         /\ pc[w] = "pooled" /\ pc'[w] = "working"
         /\ \A v \in Worker \ {w} : pc[v] = "working" => pc'[v] = "working"
         /\ oT' = [oT EXCEPT ![w] = IF deque = <<>> THEN NoItem ELSE Head(deque)]
         /\ deque' = IF deque = <<>> THEN <<>> ELSE Tail(deque)
         /\ sent' = sent /\ done' = done
         /\ stop' = stop \/ (stop = "writing" /\ stop' = "clearing")
<1> DEFINE next == [pc EXCEPT ![w] = "working"]
<1>1. /\ pc[w] = "pooled" /\ sent' = sent /\ done' = done
      /\ oT' = [oT EXCEPT ![w] = IF deque = <<>> THEN NoItem ELSE Head(deque)]
      /\ deque' = IF deque = <<>> THEN <<>> ELSE Tail(deque)
  BY DEF Poll
<1>2. deque' \in Seq(Item) /\ oT' \in [Worker -> Item \cup {NoItem}]
  BY <1>1 DEF ShapeInv, QueueShape
<1>3. /\ next \in [Worker -> {"idle", "pooled", "working"}]
      /\ \A v \in Worker : next[v] = "idle" => pc[v] = "idle"
      /\ next[w] = "working" /\ \A v \in Worker \ {w} : next[v] = pc[v]
  BY <1>1 DEF ShapeInv, QueueShape
<1>4. Dispatch(next) \/ (pc' = next /\ stop' = stop)
  BY DEF Poll
<1> HIDE DEF next
<1>5. /\ pc' \in [Worker -> {"idle", "pooled", "working"}]
      /\ \A v \in Worker : pc[v] # "idle" => pc'[v] = next[v]
      /\ stop' = stop \/ (stop = "writing" /\ stop' = "clearing")
  BY <1>3, <1>4, DispatchAny
<1>6. stop' \in {"no", "writing", "clearing", "done"}
  BY <1>5 DEF ShapeInv, QueueShape
<1> QED BY <1>1, <1>2, <1>3, <1>5, <1>6 DEF ShapeInv, QueueShape

LEMMA GiveBackStepShape ==
  ASSUME ShapeInv, NEW w \in Worker, GiveBack(w)
  PROVE  /\ QueueShape'
         /\ pc[w] = "working" /\ oT[w] \in Item
         /\ \A v \in Worker : pc[v] = "working" => pc'[v] = "working"
         /\ oT' = [oT EXCEPT ![w] = NoItem]
         /\ deque' = Append(deque, oT[w])
         /\ sent' = sent /\ done' = done
         /\ stop' = stop \/ (stop = "writing" /\ stop' = "clearing")
<1>1. /\ pc[w] = "working" /\ oT[w] # NoItem /\ Enqueue(oT[w])
      /\ oT' = [oT EXCEPT ![w] = NoItem] /\ sent' = sent /\ done' = done
  BY DEF GiveBack
<1>2. oT[w] \in Item /\ oT' \in [Worker -> Item \cup {NoItem}]
  BY <1>1 DEF ShapeInv, QueueShape
<1>3. /\ deque' = Append(deque, oT[w]) /\ deque' \in Seq(Item)
      /\ pc' \in [Worker -> {"idle", "pooled", "working"}]
      /\ \A v \in Worker : pc[v] # "idle" => pc'[v] = pc[v]
      /\ stop' = stop \/ (stop = "writing" /\ stop' = "clearing")
  BY <1>1, <1>2, EnqueueAny DEF ShapeInv
<1>4. stop' \in {"no", "writing", "clearing", "done"}
  BY <1>3 DEF ShapeInv, QueueShape
<1> QED BY <1>1, <1>2, <1>3, <1>4 DEF ShapeInv, QueueShape

LEMMA FinishStepShape ==
  ASSUME ShapeInv, NEW w \in Worker, Finish(w)
  PROVE  /\ QueueShape'
         /\ oT[w] = NoItem
         /\ \A v \in Worker \ {w} : pc'[v] = pc[v]
         /\ UNCHANGED <<deque, oT, sent, done>>
         /\ stop' = stop \/ (stop = "writing" /\ stop' = "clearing")
<1>1. oT[w] = NoItem /\ UNCHANGED <<deque, oT, sent, done>>
  BY DEF Finish
<1>2. stop' = stop \/ (stop = "writing" /\ stop' = "clearing")
  BY WriteSlotsAny DEF Finish
<1>3. /\ pc' \in [Worker -> {"idle", "pooled", "working"}]
      /\ \A v \in Worker \ {w} : pc'[v] = pc[v]
  BY DEF Finish, ShapeInv, QueueShape
<1>4. stop' \in {"no", "writing", "clearing", "done"}
  BY <1>2 DEF ShapeInv, QueueShape
<1> QED BY <1>1, <1>2, <1>3, <1>4 DEF ShapeInv, QueueShape

LEMMA DeliverStepShape ==
  ASSUME ShapeInv, NEW w \in Worker, Deliver(w)
  PROVE  /\ QueueShape'
         /\ pc[w] = "working" /\ oT[w] \in Item
         /\ oT' = [oT EXCEPT ![w] = NoItem] /\ done' = Append(done, oT[w])
         /\ UNCHANGED <<deque, pc, sent, stop>>
BY DEF Deliver, ShapeInv, QueueShape

LEMMA DropStepShape ==
  ASSUME ShapeInv, NEW w \in Worker, oT[w] # NoItem, Drop(w)
  PROVE  /\ QueueShape'
         /\ oT[w] \in Item
         /\ oT' = [oT EXCEPT ![w] = NoItem] /\ dropped' = dropped \cup {oT[w]}
         /\ UNCHANGED <<deque, pc, sent, stop, done>>
BY DEF Drop, ShapeInv, QueueShape

-----------------------------------------------------------------------------
(* The shape of the state, and a message only where there is work.         *)

LEMMA InitShape == Init => ShapeInv
<1> SUFFICES ASSUME Init PROVE ShapeInv
  OBVIOUS
<1>1. QueueShape
  BY DEF Init, AsyncQInit, QueueShape
<1>2. BlockShape
  <2>1. 0 \in 0 .. Timers
    BY BaseBlockAssumption
  <2>2. scheduled \in BOOLEAN /\ thrown \in BOOLEAN /\ overlap \in BOOLEAN
    BY DEF Init
  <2> QED BY <2>1, <2>2 DEF Init, BlockShape, Status
<1>3. HandInv
  BY DEF Init, AsyncQInit, HandInv
<1> QED BY <1>1, <1>2, <1>3 DEF ShapeInv

LEMMA StartShape == ShapeInv /\ StartService => ShapeInv'
<1> SUFFICES ASSUME ShapeInv, StartService PROVE ShapeInv'
  OBVIOUS
<1>1. UNCHANGED <<qvars, hand, runner, stopper, retry, dropped, thrown, overlap>>
  BY DEF StartService, StartEnter, StartMark, StartCall, StartFinish
<1>2. /\ status' \in Status /\ scheduled' \in BOOLEAN
      /\ starter' \in {"ready", "entering", "marked", "started", "failed", "done"}
  BY DEF StartService, StartEnter, StartMark, StartCall, StartFinish, ShapeInv,
         BlockShape, Status
<1>3. QueueShape' /\ HandInv'
  BY <1>1 DEF qvars, ShapeInv, QueueShape, HandInv
<1>4. BlockShape'
  BY <1>1, <1>2 DEF ShapeInv, BlockShape
<1> QED BY <1>3, <1>4 DEF ShapeInv

LEMMA StopShape == ShapeInv /\ StopService => ShapeInv'
<1>1. ShapeInv /\ StopEnter => ShapeInv'
  BY DEF StopEnter, qvars, ShapeInv, QueueShape, BlockShape, HandInv, Status
<1>2. ShapeInv /\ StopCancel => ShapeInv'
  BY DEF StopCancel, qvars, ShapeInv, QueueShape, BlockShape, HandInv
<1>3. ASSUME ShapeInv, StopQueue PROVE ShapeInv'
  <2>1. UNCHANGED <<pc, oT, sent, done>> /\ UNCHANGED bvars
    BY <1>3 DEF StopQueue, StopCall, StopWrite, StopClear
  <2>4. stop' \in {"no", "writing", "clearing", "done"}
    BY <1>3 DEF StopQueue, StopCall, StopWrite, StopClear
  <2>5. deque' = deque \/ deque' = <<>>
    BY <1>3 DEF StopQueue, StopCall, StopWrite, StopClear
  <2>7. deque' \in Seq(Item)
    <3>1. deque \in Seq(Item)
      BY <1>3 DEF ShapeInv, QueueShape
    <3>2. <<>> \in Seq(Item)
      OBVIOUS
    <3> QED BY <2>5, <3>1, <3>2
  <2>2. QueueShape'
    BY <1>3, <2>1, <2>4, <2>7 DEF ShapeInv, QueueShape
  <2>6. HandInv'
    BY <1>3, <2>1 DEF bvars, ShapeInv, HandInv
  <2>3. BlockShape'
    BY <1>3, <2>1 DEF bvars, ShapeInv, BlockShape
  <2> QED BY <2>2, <2>3, <2>6 DEF ShapeInv
<1>4. ShapeInv /\ StopFinish => ShapeInv'
  BY DEF StopFinish, qvars, ShapeInv, QueueShape, BlockShape, HandInv, Status
<1> QED BY <1>1, <1>2, <1>3, <1>4 DEF StopService

LEMMA RunShape ==
  ASSUME ShapeInv, NEW r \in Runner,
         Fire(r) \/ Run(r) \/ RunThrow(r) \/ SetError(r)
  PROVE  ShapeInv'
<1>1. UNCHANGED <<qvars, hand>>
  BY DEF Fire, Run, RunEnter, RunLeave, RunThrow, SetError
<1>2. QueueShape' /\ HandInv'
  BY <1>1 DEF qvars, ShapeInv, QueueShape, HandInv
<1>3. BlockShape'
  <2>1. CASE Fire(r) \/ RunThrow(r)
    BY <2>1 DEF Fire, RunThrow, ShapeInv, BlockShape
  <2>2. CASE Run(r)
    BY <2>2 DEF Run, RunEnter, RunLeave, CompareAndSet, ShapeInv, BlockShape, Status
  <2>3. CASE SetError(r)
    BY <2>3, BaseBlockAssumption DEF SetError, ShapeInv, BlockShape, Status
  <2> QED BY <2>1, <2>2, <2>3
<1> QED BY <1>2, <1>3 DEF ShapeInv

LEMMA IdleTimerShape == ShapeInv /\ SetIdle => ShapeInv'
<1> SUFFICES ASSUME ShapeInv, SetIdle PROVE ShapeInv'
  OBVIOUS
<1>1. QueueShape' /\ HandInv'
  BY DEF SetIdle, qvars, ShapeInv, QueueShape, HandInv
<1>2. BlockShape'
  BY BaseBlockAssumption DEF SetIdle, CompareAndSet, ShapeInv, BlockShape, Status
<1> QED BY <1>1, <1>2 DEF ShapeInv

LEMMA ReceiveShape ==
  ASSUME ShapeInv, NEW i \in Item, Receive(i)
  PROVE  ShapeInv'
<1>1. Queue(i) /\ UNCHANGED bvars
  BY DEF Receive
<1>2. /\ QueueShape' /\ oT' = oT
      /\ \A v \in Worker : pc[v] # "idle" => pc'[v] = pc[v]
  BY <1>1, QueueStepShape
<1>3. BlockShape' /\ HandInv'
  BY <1>1, <1>2 DEF bvars, ShapeInv, BlockShape, HandInv
<1> QED BY <1>2, <1>3 DEF ShapeInv

LEMMA ThreadShape ==
  ASSUME ShapeInv, NEW w \in Worker, QueueThread(w)
  PROVE  ShapeInv'
<1>1. CASE NotifyEnter(w)
  BY <1>1 DEF NotifyEnter, CompareAndSet, qvars, ShapeInv, QueueShape, BlockShape,
              HandInv, Status
<1>2. CASE NotifyLeave(w)
  <2>1. QueueShape' /\ pc' = pc /\ oT' = [oT EXCEPT ![w] = NoItem]
    BY <1>2, DeliverStepShape DEF NotifyLeave
  <2>2. BlockShape'
    BY <1>2 DEF NotifyLeave, CompareAndSet, ShapeInv, BlockShape, Status
  <2>3. HandInv'
    BY <1>2, <2>1 DEF NotifyLeave, ShapeInv, QueueShape, BlockShape, HandInv
  <2> QED BY <2>1, <2>2, <2>3 DEF ShapeInv
<1>3. CASE NotifyRefused(w)
  <2>1. oT[w] # NoItem /\ pc[w] = "working"
    BY <1>3 DEF NotifyRefused, ShapeInv, HandInv
  <2>2. /\ QueueShape' /\ oT' = [oT EXCEPT ![w] = NoItem]
        /\ \A v \in Worker : pc[v] = "working" => pc'[v] = "working"
        /\ dropped' \in SUBSET Item
    <3>1. CASE GiveBack(w) /\ UNCHANGED dropped
      BY <3>1, GiveBackStepShape DEF ShapeInv, BlockShape
    <3>2. CASE Drop(w)
      BY <2>1, <3>2, DropStepShape DEF ShapeInv, BlockShape
    <3> QED BY <1>3, <3>1, <3>2 DEF NotifyRefused
  <2>3. BlockShape'
    BY <1>3, <2>2 DEF NotifyRefused, ShapeInv, BlockShape
  <2>4. HandInv'
    BY <1>3, <2>2 DEF NotifyRefused, ShapeInv, QueueShape, BlockShape, HandInv
  <2> QED BY <2>2, <2>3, <2>4 DEF ShapeInv
<1>4. CASE Poll(w) /\ UNCHANGED bvars
  <2>1. /\ QueueShape' /\ pc[w] = "pooled" /\ pc'[w] = "working"
        /\ \A v \in Worker \ {w} : pc[v] = "working" => pc'[v] = "working"
        /\ \A v \in Worker \ {w} : oT'[v] = oT[v]
    BY <1>4, PollStepShape DEF ShapeInv, QueueShape
  <2>2. BlockShape' /\ HandInv'
    BY <1>4, <2>1 DEF bvars, ShapeInv, BlockShape, HandInv
  <2> QED BY <2>1, <2>2 DEF ShapeInv
<1>5. CASE Finish(w) /\ UNCHANGED bvars
  <2>1. /\ QueueShape' /\ oT[w] = NoItem /\ oT' = oT
        /\ \A v \in Worker \ {w} : pc'[v] = pc[v]
    BY <1>5, FinishStepShape
  <2>2. BlockShape' /\ HandInv'
    BY <1>5, <2>1 DEF bvars, ShapeInv, BlockShape, HandInv
  <2> QED BY <2>1, <2>2 DEF ShapeInv
<1> QED BY <1>1, <1>2, <1>3, <1>4, <1>5 DEF QueueThread

LEMMA NextShape == ShapeInv /\ [Next]_vars => ShapeInv'
<1>1. ShapeInv /\ UNCHANGED vars => ShapeInv'
  BY DEF vars, qvars, bvars, ShapeInv, QueueShape, BlockShape, HandInv
<1> QED
  BY <1>1, StartShape, StopShape, IdleTimerShape, RunShape, ReceiveShape, ThreadShape
  DEF Next

-----------------------------------------------------------------------------
(* A message is in one place: lists and hands.                             *)

LEMMA AppendElems ==
  ASSUME NEW s \in Seq(Item), NEW e \in Item
  PROVE  /\ Elems(Append(s, e)) = Elems(s) \cup {e}
         /\ Distinct(s) /\ e \notin Elems(s) => Distinct(Append(s, e))
<1> DEFINE t == Append(s, e)
<1>a. /\ Len(t) = Len(s) + 1 /\ Len(s) \in Nat /\ t[Len(s) + 1] = e
      /\ \A k \in 1 .. Len(s) : t[k] = s[k]
  OBVIOUS
<1>b. Elems(s) \cup {e} \subseteq Elems(t)
  <2> HIDE DEF t
  <2>1. \A k \in 1 .. Len(s) : k \in 1 .. Len(t)
    BY <1>a
  <2>2. Len(s) + 1 \in 1 .. Len(t)
    BY <1>a
  <2> QED BY <1>a, <2>1, <2>2 DEF Elems
<1>c. Elems(t) \subseteq Elems(s) \cup {e}
  <2> HIDE DEF t
  <2> SUFFICES ASSUME NEW k \in 1 .. Len(t) PROVE t[k] \in Elems(s) \cup {e}
    BY DEF Elems
  <2>1. k \in 1 .. Len(s) \/ k = Len(s) + 1
    BY <1>a
  <2> QED BY <1>a, <2>1 DEF Elems
<1>1. Elems(Append(s, e)) = Elems(s) \cup {e}
  BY <1>b, <1>c
<1>2. ASSUME Distinct(s), e \notin Elems(s) PROVE Distinct(Append(s, e))
  <2>1. /\ Len(t) = Len(s) + 1 /\ Len(s) \in Nat /\ t[Len(s) + 1] = e
        /\ \A k \in 1 .. Len(s) : t[k] = s[k]
    BY <1>a
  <2>2. \A k \in 1 .. Len(s) : t[k] # e
    BY <1>2, <2>1 DEF Elems
  <2> SUFFICES ASSUME NEW j \in 1 .. Len(t), NEW k \in 1 .. Len(t), t[j] = t[k]
               PROVE  j = k
    BY DEF Distinct
  <2> HIDE DEF t
  <2>3. (j \in 1 .. Len(s) \/ j = Len(s) + 1) /\ (k \in 1 .. Len(s) \/ k = Len(s) + 1)
    BY <2>1
  <2> QED BY <1>2, <2>1, <2>2, <2>3 DEF Distinct
<1> QED BY <1>1, <1>2

LEMMA TailElems ==
  ASSUME NEW s \in Seq(Item), s # <<>>
  PROVE  /\ Head(s) \in Item /\ Tail(s) \in Seq(Item)
         /\ Elems(s) = {Head(s)} \cup Elems(Tail(s))
         /\ Distinct(s) => Distinct(Tail(s)) /\ Head(s) \notin Elems(Tail(s))
<1>1. /\ Head(s) = s[1] /\ s[1] \in Item /\ Len(s) \in Nat \ {0}
      /\ Tail(s) \in Seq(Item) /\ Len(Tail(s)) = Len(s) - 1
      /\ \A i \in 1 .. Len(s) - 1 : Tail(s)[i] = s[i + 1]
  OBVIOUS
<1>2. Elems(s) \subseteq {Head(s)} \cup Elems(Tail(s))
  <2> SUFFICES ASSUME NEW i \in 1 .. Len(s)
               PROVE  s[i] \in {Head(s)} \cup Elems(Tail(s))
    BY DEF Elems
  <2>1. CASE i = 1
    BY <1>1, <2>1
  <2>2. CASE i > 1
    <3>1. i - 1 \in 1 .. Len(Tail(s)) /\ Tail(s)[i - 1] = s[i]
      BY <1>1, <2>2
    <3> QED BY <3>1 DEF Elems
  <2> QED BY <2>1, <2>2
<1>3. Elems(Tail(s)) \subseteq Elems(s)
  <2> SUFFICES ASSUME NEW i \in 1 .. Len(Tail(s)) PROVE Tail(s)[i] \in Elems(s)
    BY DEF Elems
  <2>1. i + 1 \in 1 .. Len(s) /\ Tail(s)[i] = s[i + 1]
    BY <1>1
  <2> QED BY <2>1 DEF Elems
<1>4. Head(s) \in Elems(s)
  BY <1>1 DEF Elems
<1>5. ASSUME Distinct(s) PROVE Distinct(Tail(s))
  <2> SUFFICES ASSUME NEW j \in 1 .. Len(Tail(s)), NEW k \in 1 .. Len(Tail(s)),
                      Tail(s)[j] = Tail(s)[k]
               PROVE  j = k
    BY DEF Distinct
  <2>1. /\ j + 1 \in 1 .. Len(s) /\ Tail(s)[j] = s[j + 1]
        /\ k + 1 \in 1 .. Len(s) /\ Tail(s)[k] = s[k + 1]
    BY <1>1
  <2>2. j + 1 = k + 1
    BY <1>5, <2>1 DEF Distinct
  <2> QED BY <2>2
<1>6. ASSUME Distinct(s) PROVE Head(s) \notin Elems(Tail(s))
  <2> SUFFICES ASSUME NEW i \in 1 .. Len(Tail(s)) PROVE Tail(s)[i] # Head(s)
    BY DEF Elems
  <2>1. i + 1 \in 1 .. Len(s) /\ i + 1 # 1 /\ 1 \in 1 .. Len(s) /\ Tail(s)[i] = s[i + 1]
    BY <1>1
  <2> QED BY <1>1, <1>6, <2>1 DEF Distinct
<1> QED BY <1>1, <1>2, <1>3, <1>4, <1>5, <1>6

\* An execution lets its message go.
LEMMA LetGo ==
  ASSUME QueueShape, HeldOnce, NEW w \in Worker, oT[w] \in Item,
         oT' = [oT EXCEPT ![w] = NoItem]
  PROVE  HeldOnce' /\ InHand' = InHand \ {oT[w]} /\ oT[w] \in InHand
<1>1. oT'[w] = NoItem /\ \A v \in Worker \ {w} : oT'[v] = oT[v]
  BY DEF QueueShape
<1>2. HeldOnce'
  BY <1>1 DEF HeldOnce
<1>3. NoItem \notin Item
  BY AsyncQAssumption
<1>4. \A v \in Worker \ {w} : oT[v] # oT[w]
  BY <1>3 DEF HeldOnce
<1>5. InHand' = InHand \ {oT[w]}
  BY <1>1, <1>3, <1>4 DEF InHand
<1> QED BY <1>2, <1>5 DEF InHand

\* An execution takes a message.
LEMMA TakeUp ==
  ASSUME QueueShape, HeldOnce, NEW w \in Worker, oT[w] = NoItem,
         NEW e \in Item, e \notin InHand, oT' = [oT EXCEPT ![w] = e]
  PROVE  HeldOnce' /\ InHand' = InHand \cup {e}
<1>1. oT'[w] = e /\ \A v \in Worker \ {w} : oT'[v] = oT[v]
  BY DEF QueueShape
<1>2. \A v \in Worker : oT[v] # e
  BY DEF InHand
<1>3. HeldOnce'
  BY <1>1, <1>2 DEF HeldOnce
<1>4. NoItem \notin Item
  BY AsyncQAssumption
<1>5. InHand' = InHand \cup {e}
  BY <1>1, <1>4 DEF InHand
<1> QED BY <1>3, <1>5

-----------------------------------------------------------------------------
(* Each message stays in one place.                                        *)

LEMMA InitPlace == Init => PlaceInv
<1> SUFFICES ASSUME Init PROVE PlaceInv
  OBVIOUS
<1>1. /\ deque = <<>> /\ done = <<>> /\ sent = {} /\ dropped = {} /\ NoItem \notin Item
      /\ \A w \in Worker : oT[w] = NoItem
  BY AsyncQAssumption DEF Init, AsyncQInit
<1>2. Elems(<<>>) = {} /\ Distinct(<<>>)
  BY DEF Elems, Distinct
<1>3. InHand = {} /\ HeldOnce
  BY <1>1 DEF InHand, HeldOnce
<1> QED BY <1>1, <1>2, <1>3 DEF PlaceInv

LEMMA PlaceSame ==
  ASSUME PlaceInv, UNCHANGED <<deque, oT, done, sent, dropped>>,
         stop = "done" => stop' = "done"
  PROVE  PlaceInv'
<1>1. HeldOnce' /\ InHand' = InHand
  BY DEF PlaceInv, HeldOnce, InHand
<1> QED BY <1>1 DEF PlaceInv

LEMMA PlaceReceive ==
  ASSUME ShapeInv, PlaceInv, NEW i \in Item, Receive(i)
  PROVE  PlaceInv'
<1>1. Queue(i) /\ UNCHANGED dropped
  BY DEF Receive, bvars
<1>2. /\ deque' = Append(deque, i) /\ i \notin sent /\ sent' = sent \cup {i}
      /\ oT' = oT /\ done' = done
      /\ stop' = stop \/ (stop = "writing" /\ stop' = "clearing")
  BY <1>1, QueueStepShape
<1>3. HeldOnce' /\ InHand' = InHand
  BY <1>2 DEF PlaceInv, HeldOnce, InHand
<1>4. i \notin Elems(deque) /\ i \notin InHand /\ i \notin Elems(done) /\ i \notin dropped
  BY <1>2 DEF PlaceInv
<1>5. Elems(deque') = Elems(deque) \cup {i} /\ Distinct(deque')
  BY <1>2, <1>4, AppendElems DEF PlaceInv, ShapeInv, QueueShape
<1>6. stop' # "done" => stop # "done"
  BY <1>2
<1> QED BY <1>1, <1>2, <1>3, <1>4, <1>5, <1>6 DEF PlaceInv

LEMMA PlacePoll ==
  ASSUME ShapeInv, PlaceInv, NEW w \in Worker, Poll(w), UNCHANGED dropped
  PROVE  PlaceInv'
<1>1. /\ pc[w] = "pooled"
      /\ oT' = [oT EXCEPT ![w] = IF deque = <<>> THEN NoItem ELSE Head(deque)]
      /\ deque' = IF deque = <<>> THEN <<>> ELSE Tail(deque)
      /\ sent' = sent /\ done' = done
      /\ stop' = stop \/ (stop = "writing" /\ stop' = "clearing")
  BY PollStepShape
<1>2. oT[w] = NoItem
  BY <1>1 DEF ShapeInv, HandInv
<1>3. stop = "done" => stop' = "done"
  BY <1>1
<1>4. CASE deque = <<>>
  <2>1. oT' = oT
    BY <1>1, <1>2, <1>4 DEF ShapeInv, QueueShape
  <2>2. deque' = deque
    BY <1>1, <1>4
  <2> QED BY <1>1, <1>3, <2>1, <2>2, PlaceSame
<1>5. CASE deque # <<>>
  <2>1. deque' = Tail(deque) /\ oT' = [oT EXCEPT ![w] = Head(deque)]
    BY <1>1, <1>5
  <2>2. /\ Head(deque) \in Item
        /\ Elems(deque) = {Head(deque)} \cup Elems(deque')
        /\ Distinct(deque') /\ Head(deque) \notin Elems(deque')
    BY <1>5, <2>1, TailElems DEF PlaceInv, ShapeInv, QueueShape
  <2>3. Head(deque) \notin InHand
    BY <2>2 DEF PlaceInv
  <2>4. HeldOnce' /\ InHand' = InHand \cup {Head(deque)}
    BY <1>2, <2>1, <2>2, <2>3, TakeUp DEF PlaceInv, ShapeInv
  <2>5. stop' # "done" => stop # "done"
    BY <1>1
  <2> QED BY <1>1, <2>2, <2>3, <2>4, <2>5 DEF PlaceInv
<1> QED BY <1>4, <1>5

LEMMA PlaceDeliver ==
  ASSUME ShapeInv, PlaceInv, NEW w \in Worker, Deliver(w), UNCHANGED dropped
  PROVE  PlaceInv'
<1>1. /\ oT[w] \in Item
      /\ oT' = [oT EXCEPT ![w] = NoItem] /\ done' = Append(done, oT[w])
      /\ UNCHANGED <<deque, sent, stop>>
  BY DeliverStepShape
<1>2. HeldOnce' /\ InHand' = InHand \ {oT[w]} /\ oT[w] \in InHand
  BY <1>1, LetGo DEF PlaceInv, ShapeInv
<1>3. Elems(done') = Elems(done) \cup {oT[w]} /\ Distinct(done')
  BY <1>1, <1>2, AppendElems DEF PlaceInv, ShapeInv, QueueShape
<1> QED BY <1>1, <1>2, <1>3 DEF PlaceInv

LEMMA PlaceGiveBack ==
  ASSUME ShapeInv, PlaceInv, NEW w \in Worker, GiveBack(w), UNCHANGED dropped
  PROVE  PlaceInv'
<1>1. /\ oT[w] \in Item
      /\ oT' = [oT EXCEPT ![w] = NoItem] /\ deque' = Append(deque, oT[w])
      /\ sent' = sent /\ done' = done
      /\ stop' = stop \/ (stop = "writing" /\ stop' = "clearing")
  BY GiveBackStepShape
<1>2. HeldOnce' /\ InHand' = InHand \ {oT[w]} /\ oT[w] \in InHand
  BY <1>1, LetGo DEF PlaceInv, ShapeInv
<1>3. Elems(deque') = Elems(deque) \cup {oT[w]} /\ Distinct(deque')
  BY <1>1, <1>2, AppendElems DEF PlaceInv, ShapeInv, QueueShape
<1>4. stop' # "done" => stop # "done"
  BY <1>1
<1> QED BY <1>1, <1>2, <1>3, <1>4 DEF PlaceInv

LEMMA PlaceDrop ==
  ASSUME ShapeInv, PlaceInv, NEW w \in Worker, oT[w] # NoItem, Drop(w)
  PROVE  PlaceInv'
<1>1. /\ oT[w] \in Item
      /\ oT' = [oT EXCEPT ![w] = NoItem] /\ dropped' = dropped \cup {oT[w]}
      /\ UNCHANGED <<deque, sent, stop, done>>
  BY DropStepShape
<1>2. HeldOnce' /\ InHand' = InHand \ {oT[w]} /\ oT[w] \in InHand
  BY <1>1, LetGo DEF PlaceInv, ShapeInv
<1> QED BY <1>1, <1>2 DEF PlaceInv

LEMMA PlaceClear ==
  ASSUME PlaceInv, StopClear, UNCHANGED dropped
  PROVE  PlaceInv'
<1>1. stop' = "done" /\ deque' = <<>> /\ UNCHANGED <<oT, sent, done>>
  BY DEF StopClear
<1>2. Elems(<<>>) = {} /\ Distinct(<<>>)
  BY DEF Elems, Distinct
<1>3. HeldOnce' /\ InHand' = InHand
  BY <1>1 DEF PlaceInv, HeldOnce, InHand
<1> QED BY <1>1, <1>2, <1>3 DEF PlaceInv

LEMMA NextPlace == ShapeInv /\ PlaceInv /\ [Next]_vars => PlaceInv'
<1> SUFFICES ASSUME ShapeInv, PlaceInv, [Next]_vars PROVE PlaceInv'
  OBVIOUS
<1>a. UNCHANGED qvars /\ dropped' = dropped => PlaceInv'
  BY PlaceSame DEF qvars
<1>1. CASE StartService
  BY <1>1, <1>a DEF StartService, StartEnter, StartMark, StartCall, StartFinish
<1>2. CASE StopService
  <2>1. CASE StopEnter \/ StopCancel \/ StopFinish
    BY <2>1, <1>a DEF StopEnter, StopCancel, StopFinish
  <2>2. CASE StopQueue
    <3>1. dropped' = dropped
      BY <2>2 DEF StopQueue, bvars
    <3>2. CASE StopClear
      BY <3>1, <3>2, PlaceClear
    <3>3. CASE StopCall \/ StopWrite
      BY <3>1, <3>3, PlaceSame DEF StopCall, StopWrite
    <3> QED BY <2>2, <3>2, <3>3 DEF StopQueue
  <2> QED BY <1>2, <2>1, <2>2 DEF StopService
<1>3. CASE SetIdle
  BY <1>3, <1>a DEF SetIdle
<1>4. ASSUME NEW r \in Runner, Fire(r) \/ Run(r) \/ RunThrow(r) \/ SetError(r)
      PROVE  PlaceInv'
  BY <1>4, <1>a DEF Fire, Run, RunEnter, RunLeave, RunThrow, SetError
<1>5. ASSUME NEW i \in Item, Receive(i) PROVE PlaceInv'
  BY <1>5, PlaceReceive
<1>6. ASSUME NEW w \in Worker, QueueThread(w) PROVE PlaceInv'
  <2>1. CASE NotifyEnter(w)
    BY <2>1, <1>a DEF NotifyEnter
  <2>2. CASE NotifyLeave(w)
    BY <2>2, PlaceDeliver DEF NotifyLeave
  <2>3. CASE NotifyRefused(w)
    <3>1. oT[w] # NoItem
      BY <2>3 DEF NotifyRefused, ShapeInv, HandInv
    <3>2. (GiveBack(w) /\ UNCHANGED dropped) \/ Drop(w)
      BY <2>3 DEF NotifyRefused
    <3> QED BY <3>1, <3>2, PlaceGiveBack, PlaceDrop
  <2>4. CASE Poll(w) /\ UNCHANGED bvars
    BY <2>4, PlacePoll DEF bvars
  <2>5. CASE Finish(w) /\ UNCHANGED bvars
    <3>1. /\ UNCHANGED <<deque, oT, sent, done>>
          /\ stop = "done" => stop' = "done"
      BY <2>5, FinishStepShape
    <3> QED BY <2>5, <3>1, PlaceSame DEF bvars
  <2> QED BY <1>6, <2>1, <2>2, <2>3, <2>4, <2>5 DEF QueueThread
<1>7. CASE UNCHANGED vars
  BY <1>7, <1>a DEF vars, bvars
<1> QED BY <1>1, <1>2, <1>3, <1>4, <1>5, <1>6, <1>7 DEF Next

-----------------------------------------------------------------------------
(* A block without a retry timer: where its threads are, and its status.   *)

LEMMA InitTimed == Init => TimedInv
<1> SUFFICES ASSUME Init PROVE TimedInv
  OBVIOUS
<1>1. LifeInv
  BY DEF Init, AsyncQInit, LifeInv
<1>2. ActiveInv
  BY DEF Init, ActiveInv, OnlyOne, NoneActive
<1>3. DropInv
  BY DEF Init, DropInv
<1> QED BY <1>1, <1>2, <1>3 DEF TimedInv

\* The steps of startService(): the block is idle at last, with nobody at work.
LEMMA StartTimed == ShapeInv /\ TimedInv /\ StartService => TimedInv'
<1> SUFFICES ASSUME ShapeInv, TimedInv, StartService PROVE TimedInv'
  OBVIOUS
<1>1. UNCHANGED <<stop, stopper, runner, hand, dropped, overlap>>
  BY DEF StartService, StartEnter, StartMark, StartCall, StartFinish, qvars
<1>2. starter # "done"
  BY DEF StartService, StartEnter, StartMark, StartCall, StartFinish
<1>3. NoneActive /\ NoneActive' /\ OnlyOne'
  BY <1>1, <1>2 DEF TimedInv, ActiveInv, NoneActive, OnlyOne
<1>4. \/ starter' # "done" /\ status' = status
      \/ starter' # "done" /\ status' = "STARTING"
      \/ starter' = "done" /\ status' = status /\ status \notin {"INIT", "STOPPED"}
      \/ starter' = "done" /\ status' \in {"IDLE", "ERROR"}
  BY DEF StartService, StartEnter, StartMark, StartCall, StartFinish
<1>5. ActiveInv'
  BY <1>2, <1>3, <1>4 DEF TimedInv, ActiveInv
<1>6. LifeInv'
  BY <1>1, <1>2, <1>4 DEF TimedInv, LifeInv
<1>7. DropInv'
  BY <1>1, <1>2 DEF TimedInv, LifeInv, DropInv
<1> QED BY <1>5, <1>6, <1>7 DEF TimedInv

\* The steps of stopService(): the block leaves service.
LEMMA StopTimed == ShapeInv /\ TimedInv /\ StopService => TimedInv'
<1> SUFFICES ASSUME ShapeInv, TimedInv, StopService PROVE TimedInv'
  OBVIOUS
<1>1. UNCHANGED <<starter, runner, hand, dropped>>
  BY DEF StopService, StopEnter, StopCancel, StopQueue, StopFinish, bvars
<1>2. OnlyOne' /\ (NoneActive => NoneActive')
  BY <1>1 DEF TimedInv, ActiveInv, OnlyOne, NoneActive
<1>3. CASE StopEnter
  <2>1. /\ stopper = "ready" /\ stopper' = "marked" /\ status' = "STOPPING"
        /\ overlap' = (starter # "done")
    BY <1>3 DEF StopEnter
  <2>2. LifeInv'
    BY <1>1, <2>1 DEF LifeInv
  <2>3. ActiveInv' /\ DropInv'
    BY <1>1, <1>2, <2>1 DEF TimedInv, ActiveInv, DropInv
  <2> QED BY <2>2, <2>3 DEF TimedInv
<1>4. CASE StopCancel \/ StopQueue
  <2>1. /\ UNCHANGED <<status, overlap>> /\ stopper # "ready" /\ stopper' # "ready"
        /\ stopper' # "done"
    BY <1>4 DEF StopCancel, StopQueue, bvars
  <2>2. stopper' = "cancelled" => (stopper = "cancelled" /\ scheduled' = scheduled) \/ ~scheduled'
    BY <1>4 DEF StopCancel, StopQueue, bvars
  <2>3. LifeInv'
    BY <1>1, <2>1, <2>2 DEF TimedInv, LifeInv
  <2>4. ActiveInv' /\ DropInv'
    BY <1>1, <1>2, <2>1 DEF TimedInv, ActiveInv, DropInv
  <2> QED BY <2>3, <2>4 DEF TimedInv
<1>5. CASE StopFinish
  <2>1. /\ stopper = "cancelled" /\ stopper' = "done" /\ status' \in {"STOPPED", "ERROR"}
        /\ UNCHANGED <<overlap, scheduled>>
    BY <1>5 DEF StopFinish
  <2>2. LifeInv'
    BY <1>1, <2>1 DEF TimedInv, LifeInv
  <2>3. ActiveInv' /\ DropInv'
    BY <1>1, <1>2, <2>1 DEF TimedInv, ActiveInv, DropInv
  <2> QED BY <2>2, <2>3 DEF TimedInv
<1> QED BY <1>3, <1>4, <1>5 DEF StopService

\* A step that leaves the status alone, or ends the work of the one at work.
LEMMA LifeStep ==
  ASSUME LifeInv, UNCHANGED <<starter, stopper, overlap, scheduled>>,
         \/ status' = status
         \/ starter = "done" /\ status' = "ERROR"
         \/ status = "IDLE" /\ status' = "RUNNING"
         \/ status = "RUNNING" /\ status' = "IDLE",
         stop' = stop \/ stop = "writing"
  PROVE  LifeInv'
BY DEF LifeInv

\* The steps of the threads that execute run().
LEMMA RunTimed ==
  ASSUME ShapeInv, TimedInv, NEW r \in Runner,
         Fire(r) \/ Run(r) \/ RunThrow(r) \/ SetError(r)
  PROVE  TimedInv'
<1>1. UNCHANGED <<stop, starter, stopper, overlap, scheduled, hand, dropped>>
  BY DEF Fire, Run, RunEnter, RunLeave, RunThrow, SetError, qvars
<1>2. runner \in [Runner -> {"idle", "pooled", "executing"}]
  BY DEF ShapeInv, BlockShape
<1>3. CASE Fire(r) \/ (RunEnter(r) /\ status # "IDLE")
  <2>1. status' = status
    BY <1>3 DEF Fire, RunEnter, CompareAndSet
  <2>2. \A q \in Runner : runner'[q] = "executing" => runner[q] = "executing"
    BY <1>2, <1>3 DEF Fire, RunEnter
  <2>3. LifeInv' /\ DropInv'
    BY <1>1, <2>1, LifeStep DEF TimedInv, DropInv
  <2>4. ActiveInv'
    BY <1>1, <2>1, <2>2 DEF TimedInv, ActiveInv, OnlyOne, NoneActive
  <2> QED BY <2>3, <2>4 DEF TimedInv
<1>4. CASE RunEnter(r) /\ status = "IDLE"
  <2>1. status' = "RUNNING" /\ starter = "done"
    BY <1>4 DEF RunEnter, CompareAndSet, TimedInv, ActiveInv
  <2>2. \A q \in Runner : runner'[q] = "executing" => q = r
    BY <1>2, <1>4 DEF RunEnter, TimedInv, ActiveInv, NoneActive
  <2>3. \A w \in Worker : hand'[w] # "inside"
    BY <1>1, <1>4 DEF TimedInv, ActiveInv, NoneActive
  <2>4. OnlyOne'
    BY <2>2, <2>3 DEF OnlyOne
  <2>5. ActiveInv'
    BY <1>1, <2>1, <2>4 DEF ActiveInv
  <2>6. LifeInv' /\ DropInv'
    BY <1>1, <1>4, <2>1, LifeStep DEF TimedInv, DropInv
  <2> QED BY <2>5, <2>6 DEF TimedInv
<1>5. CASE RunLeave(r) \/ RunThrow(r)
  <2>1. runner[r] = "executing"
    BY <1>5 DEF RunLeave, RunThrow
  <2>2. status' = status \/ (status = "RUNNING" /\ status' = "IDLE")
    BY <1>5 DEF RunLeave, RunThrow, CompareAndSet
  <2>3. starter = "done"
    BY <2>1 DEF TimedInv, ActiveInv, NoneActive
  <2>4. \A q \in Runner : runner'[q] # "executing"
    BY <1>2, <1>5, <2>1 DEF RunLeave, RunThrow, TimedInv, ActiveInv, OnlyOne
  <2>5. \A w \in Worker : hand'[w] # "inside"
    BY <1>1, <2>1 DEF TimedInv, ActiveInv, OnlyOne
  <2>6. ActiveInv'
    BY <1>1, <2>3, <2>4, <2>5 DEF ActiveInv, NoneActive, OnlyOne
  <2>7. LifeInv' /\ DropInv'
    BY <1>1, <2>2, LifeStep DEF TimedInv, DropInv
  <2> QED BY <2>6, <2>7 DEF TimedInv
<1>6. CASE SetError(r)
  <2>1. runner[r] = "executing" /\ runner' = runner /\ status' = "ERROR"
    BY <1>6 DEF SetError
  <2>2. starter = "done"
    BY <2>1 DEF TimedInv, ActiveInv, NoneActive
  <2>3. ActiveInv'
    BY <1>1, <2>1, <2>2 DEF TimedInv, ActiveInv, OnlyOne
  <2>4. LifeInv' /\ DropInv'
    BY <1>1, <2>1, <2>2, LifeStep DEF TimedInv, DropInv
  <2> QED BY <2>3, <2>4 DEF TimedInv
<1> QED BY <1>3, <1>4, <1>5, <1>6 DEF Run

\* A step of the queue that changes neither the status nor who is at work.
LEMMA QuietTimed ==
  ASSUME TimedInv,
         UNCHANGED <<status, starter, stopper, overlap, scheduled, runner, dropped>>,
         \A v \in Worker : hand'[v] = "inside" => hand[v] = "inside",
         stop' = stop \/ stop = "writing"
  PROVE  TimedInv'
<1>1. LifeInv'
  BY LifeStep DEF TimedInv
<1>2. ActiveInv'
  BY DEF TimedInv, ActiveInv, OnlyOne, NoneActive
<1> QED BY <1>1, <1>2 DEF TimedInv, DropInv

\* The steps of the queue's thread.
LEMMA ThreadTimed ==
  ASSUME ShapeInv, TimedInv, NEW w \in Worker, QueueThread(w)
  PROVE  TimedInv'
<1>1. hand \in [Worker -> {"none", "inside", "refused"}] /\ status \in Status
  BY DEF ShapeInv, BlockShape
<1>2. CASE NotifyEnter(w) /\ status = "IDLE"
  <2>1. /\ UNCHANGED <<stop, starter, stopper, overlap, scheduled, runner, dropped>>
        /\ status' = "RUNNING" /\ starter = "done"
    BY <1>2 DEF NotifyEnter, CompareAndSet, qvars, TimedInv, ActiveInv
  <2>2. \A v \in Worker : hand'[v] = "inside" => v = w
    BY <1>1, <1>2 DEF NotifyEnter, TimedInv, ActiveInv, NoneActive
  <2>3. \A r \in Runner : runner'[r] # "executing"
    BY <1>2, <2>1 DEF TimedInv, ActiveInv, NoneActive
  <2>4. OnlyOne'
    BY <2>2, <2>3 DEF OnlyOne
  <2>5. ActiveInv'
    BY <2>1, <2>4 DEF ActiveInv
  <2>6. LifeInv' /\ DropInv'
    BY <1>2, <2>1, LifeStep DEF TimedInv, DropInv
  <2> QED BY <2>5, <2>6 DEF TimedInv
<1>3. CASE NotifyEnter(w) /\ status # "IDLE"
  <2>1. UNCHANGED <<stop, status, starter, stopper, overlap, scheduled, runner, dropped>>
    BY <1>3 DEF NotifyEnter, CompareAndSet, qvars
  <2>2. \A v \in Worker : hand'[v] = "inside" => hand[v] = "inside"
    BY <1>1, <1>3 DEF NotifyEnter
  <2> QED BY <2>1, <2>2, QuietTimed
<1>4. CASE NotifyLeave(w)
  <2>1. hand[w] = "inside" /\ hand' = [hand EXCEPT ![w] = "none"]
    BY <1>4 DEF NotifyLeave
  <2>2. /\ UNCHANGED <<stop, starter, stopper, overlap, scheduled, runner, dropped>>
        /\ status' = status \/ (status = "RUNNING" /\ status' = "IDLE")
    BY <1>4 DEF NotifyLeave, Deliver, CompareAndSet
  <2>3. starter = "done"
    BY <2>1 DEF TimedInv, ActiveInv, NoneActive
  <2>4. \A v \in Worker : hand'[v] # "inside"
    BY <1>1, <2>1 DEF TimedInv, ActiveInv, OnlyOne
  <2>5. \A r \in Runner : runner'[r] # "executing"
    BY <2>1, <2>2 DEF TimedInv, ActiveInv, OnlyOne
  <2>6. ActiveInv'
    BY <2>2, <2>3, <2>4, <2>5 DEF ActiveInv, NoneActive, OnlyOne
  <2>7. LifeInv' /\ DropInv'
    BY <2>2, LifeStep DEF TimedInv, DropInv
  <2> QED BY <2>6, <2>7 DEF TimedInv
<1>5. CASE NotifyRefused(w)
  <2>1. UNCHANGED <<status, starter, stopper, overlap, scheduled, runner>>
    BY <1>5 DEF NotifyRefused
  <2>2. \A v \in Worker : hand'[v] = "inside" => hand[v] = "inside"
    BY <1>1, <1>5 DEF NotifyRefused
  <2>3. CASE GiveBack(w) /\ UNCHANGED dropped
    <3>1. stop' = stop \/ stop = "writing"
      BY <2>3, GiveBackStepShape
    <3> QED BY <2>1, <2>2, <2>3, <3>1, QuietTimed
  <2>4. CASE Drop(w) /\ status \in {"ERROR", "STOPPING", "STOPPED"}
    <3>1. stop' = stop
      BY <2>4 DEF Drop
    <3>2. LifeInv' /\ DropInv'
      BY <2>1, <2>4, <3>1, LifeStep DEF TimedInv, DropInv
    <3>3. ActiveInv'
      BY <2>1, <2>2 DEF TimedInv, ActiveInv, OnlyOne, NoneActive
    <3> QED BY <3>2, <3>3 DEF TimedInv
  <2> QED BY <1>1, <1>5, <2>3, <2>4 DEF NotifyRefused, Status
<1>6. CASE (Poll(w) \/ Finish(w)) /\ UNCHANGED bvars
  <2>1. stop' = stop \/ stop = "writing"
    BY <1>6, PollStepShape, FinishStepShape
  <2> QED BY <1>6, <2>1, QuietTimed DEF bvars
<1> QED BY <1>2, <1>3, <1>4, <1>5, <1>6 DEF QueueThread

LEMMA NextTimed == Timers = 0 /\ ShapeInv /\ TimedInv /\ [Next]_vars => TimedInv'
<1> SUFFICES ASSUME Timers = 0, ShapeInv, TimedInv, [Next]_vars PROVE TimedInv'
  OBVIOUS
<1>1. ~SetIdle
  BY DEF SetIdle, ShapeInv, BlockShape
<1>2. ASSUME NEW i \in Item, Receive(i) PROVE TimedInv'
  <2>1. (stop' = stop \/ stop = "writing") /\ UNCHANGED bvars
    BY <1>2, QueueStepShape DEF Receive
  <2> QED BY <2>1, QuietTimed DEF bvars
<1>3. CASE UNCHANGED vars
  BY <1>3, QuietTimed DEF vars, qvars, bvars
<1> QED BY <1>1, <1>2, <1>3, StartTimed, StopTimed, RunTimed, ThreadTimed DEF Next

-----------------------------------------------------------------------------
(* What follows for every block, or for every block without a retry timer. *)

LEMMA NextBlockInv == BlockInv /\ [Next]_vars => BlockInv'
BY NextShape, NextPlace, NextTimed DEF BlockInv

LEMMA BlockInvariance == Spec => []BlockInv
<1>1. Init => BlockInv
  BY InitShape, InitPlace, InitTimed DEF BlockInv
<1> QED BY <1>1, NextBlockInv, PTL DEF Spec

LEMMA AtMostOne ==
  ASSUME NEW S, \A x, y \in S : x = y
  PROVE  Cardinality(S) <= 1
<1>1. CASE S = {}
  BY <1>1, FS_EmptySet
<1>2. CASE S # {}
  <2>1. PICK x \in S : S = {x}
    BY <1>2
  <2> QED BY <2>1, FS_Singleton
<1> QED BY <1>1, <1>2

\* The status keeps every thread but one out of the block, and IDLE means that
\* none is in it.
THEOREM IdleMeansIdle == ASSUME Timers = 0 PROVE Spec => []IdleIsIdle
<1>1. BlockInv => IdleIsIdle
  <2> SUFFICES ASSUME ActiveInv PROVE IdleIsIdle
    BY DEF BlockInv, TimedInv
  <2>1. ASSUME NEW x \in Active, NEW y \in Active PROVE x = y
    BY <2>1 DEF Active, ActiveInv, OnlyOne
  <2>2. Cardinality(Active) <= 1
    BY <2>1, AtMostOne
  <2>3. status = "IDLE" => Active = {}
    BY DEF Active, ActiveInv, NoneActive
  <2> QED BY <2>2, <2>3 DEF IdleIsIdle
<1> QED BY <1>1, BlockInvariance, PTL

\* A stopped block, whose start was over before, stays stopped: no thread that
\* is still at work brings the status or the schedule back.
THEOREM StaysStopped == ASSUME Timers = 0 PROVE Spec => []StoppedForGood
<1>1. BlockInv => StoppedForGood
  BY DEF BlockInv, TimedInv, LifeInv, StoppedForGood
<1> QED BY <1>1, BlockInvariance, PTL

\* A message is never doubled, and never lost by a block in service.
THEOREM NothingLost == ASSUME Timers = 0 PROVE Spec => []LostOnlyOutOfService
<1>1. BlockInv => LostOnlyOutOfService
  <2> SUFFICES ASSUME QueueShape, PlaceInv, DropInv PROVE LostOnlyOutOfService
    BY DEF BlockInv, ShapeInv, TimedInv
  <2>1. DOMAIN deque = 1 .. Len(deque) /\ DOMAIN done = 1 .. Len(done)
    BY DEF QueueShape
  <2>2. ASSUME NEW i \in Item PROVE Cardinality(Places(i)) <= 1
    <3>1. ASSUME NEW j \in DOMAIN deque, NEW k \in DOMAIN deque, deque[j] = i, deque[k] = i
          PROVE  j = k
      BY <2>1, <3>1 DEF PlaceInv, Distinct
    <3>2. ASSUME NEW j \in DOMAIN done, NEW k \in DOMAIN done, done[j] = i, done[k] = i
          PROVE  j = k
      BY <2>1, <3>2 DEF PlaceInv, Distinct
    <3>3. ASSUME NEW v \in Worker, NEW w \in Worker, oT[v] = i, oT[w] = i
          PROVE  v = w
      BY <3>3, AsyncQAssumption DEF PlaceInv, HeldOnce
    <3>4. \A j \in DOMAIN deque : deque[j] = i => i \in Elems(deque)
      BY <2>1 DEF Elems
    <3>5. \A j \in DOMAIN done : done[j] = i => i \in Elems(done)
      BY <2>1 DEF Elems
    <3>6. \A w \in Worker : oT[w] = i => i \in InHand
      BY DEF InHand
    <3>7. /\ ~(i \in Elems(deque) /\ i \in InHand)
          /\ ~(i \in Elems(deque) /\ i \in Elems(done))
          /\ ~(i \in InHand /\ i \in Elems(done))
      BY DEF PlaceInv
    <3>8. ASSUME NEW x \in Places(i), NEW y \in Places(i) PROVE x = y
      BY <3>1, <3>2, <3>3, <3>4, <3>5, <3>6, <3>7 DEF Places
    <3> QED BY <3>8, AtMostOne
  <2>3. ASSUME NEW i \in sent \ dropped, stop # "done" PROVE Places(i) # {}
    <3>1. i \in Elems(deque) \cup InHand \cup Elems(done)
      BY <2>3 DEF PlaceInv
    <3>2. CASE i \in Elems(deque)
      <4>1. PICK k \in DOMAIN deque : deque[k] = i
        BY <2>1, <3>2 DEF Elems
      <4>2. <<"deque", k>> \in Places(i)
        BY <4>1 DEF Places
      <4> QED BY <4>2
    <3>3. CASE i \in InHand
      <4>1. PICK w \in Worker : oT[w] = i
        BY <3>3 DEF InHand
      <4>2. <<"held", w>> \in Places(i)
        BY <4>1 DEF Places
      <4> QED BY <4>2
    <3>4. CASE i \in Elems(done)
      <4>1. PICK k \in DOMAIN done : done[k] = i
        BY <2>1, <3>4 DEF Elems
      <4>2. <<"done", k>> \in Places(i)
        BY <4>1 DEF Places
      <4> QED BY <4>2
    <3> QED BY <3>1, <3>2, <3>3, <3>4
  <2>4. ASSUME NEW i \in dropped PROVE Places(i) = {}
    <3>1. i \notin Elems(deque) /\ i \notin InHand /\ i \notin Elems(done)
      BY DEF PlaceInv
    <3>2. i \in Item
      BY DEF PlaceInv, QueueShape
    <3> QED BY <2>1, <3>1, <3>2 DEF Places, Elems, InHand
  <2>5. \A i \in sent : i \in Item
    BY DEF QueueShape
  <2> QED BY <2>2, <2>3, <2>4, <2>5 DEF LostOnlyOutOfService, DropInv
<1> QED BY <1>1, BlockInvariance, PTL

-----------------------------------------------------------------------------
(* The counter of the queue, when stop() does not race with it.            *)

\* A step of the block is a step of its queue, or discards a message.
LEMMA QueueOfBlock ==
  ASSUME [Next]_vars
  PROVE  [AsyncQNext]_qvars \/ \E w \in Worker : hand[w] = "refused" /\ Drop(w)
<1>1. CASE StartService
  BY <1>1 DEF StartService, StartEnter, StartMark, StartCall, StartFinish
<1>2. CASE StopService
  BY <1>2 DEF StopService, StopEnter, StopCancel, StopQueue, StopFinish, AsyncQNext
<1>3. CASE SetIdle
  BY <1>3 DEF SetIdle
<1>4. ASSUME NEW r \in Runner, Fire(r) \/ Run(r) \/ RunThrow(r) \/ SetError(r)
      PROVE  UNCHANGED qvars
  BY <1>4 DEF Fire, Run, RunEnter, RunLeave, RunThrow, SetError
<1>5. ASSUME NEW i \in Item, Receive(i) PROVE AsyncQNext
  BY <1>5 DEF Receive, AsyncQNext
<1>6. ASSUME NEW w \in Worker, QueueThread(w)
      PROVE  [AsyncQNext]_qvars \/ (hand[w] = "refused" /\ Drop(w))
  BY <1>6 DEF QueueThread, NotifyEnter, NotifyLeave, NotifyRefused, AsyncQNext
<1>7. CASE UNCHANGED vars
  BY <1>7 DEF vars
<1> QED BY <1>1, <1>2, <1>3, <1>4, <1>5, <1>6, <1>7 DEF Next

\* The queue keeps its inductive invariant inside the block.
LEMMA QueueInvariance == ASSUME ~StopRace PROVE Spec => []IInv
<1>1. Init => IInv
  BY InitIInv DEF Init
<1>2. IInv /\ [Next]_vars => IInv'
  <2> SUFFICES ASSUME IInv, [Next]_vars PROVE IInv'
    OBVIOUS
  <2>1. CASE [AsyncQNext]_qvars
    BY <2>1, NextIInv
  <2>2. ASSUME NEW w \in Worker, Drop(w) PROVE IInv'
    <3>1. UNCHANGED <<deque, slots, pc, stop, sent, done>>
      BY <2>2 DEF Drop
    <3>2. oT' \in [Worker -> Item \cup {NoItem}]
      BY <2>2 DEF Drop, IInv, AsyncQTypeOK
    <3>3. AsyncQTypeOK'
      BY <3>1, <3>2 DEF IInv, AsyncQTypeOK
    <3>4. Busy' = Busy
      BY <3>1 DEF Busy
    <3> QED BY <3>1, <3>3, <3>4 DEF IInv, SlotAccounting, NoStranding
  <2> QED BY <2>1, <2>2, QueueOfBlock
<1> QED BY <1>1, <1>2, PTL DEF Spec

\* The fields of a block and of its queue keep their shape.
THEOREM BlockTypeCorrect == ASSUME ~StopRace PROVE Spec => []TypeOK
<1>1. IInv /\ BlockInv => TypeOK
  <2> SUFFICES ASSUME IInv, BlockShape PROVE TypeOK
    BY DEF BlockInv, ShapeInv
  <2>1. {scheduled, thrown, overlap} \subseteq BOOLEAN
    BY DEF BlockShape
  <2> QED BY <2>1 DEF IInv, BlockShape, TypeOK
<1> QED BY <1>1, BlockInvariance, QueueInvariance, PTL

\* Messages are handed to the block one at a time, and none is left behind:
\* what the queue promises by itself it promises inside a block that may also
\* discard messages.
THEOREM BlockServesOne ==
  ASSUME ~StopRace
  PROVE  Spec => [](Cardinality(Busy) <= 1 /\ SlotAccounting /\ NoStranding)
<1>1. IInv => Cardinality(Busy) <= 1 /\ SlotAccounting /\ NoStranding
  <2> SUFFICES ASSUME IInv PROVE Cardinality(Busy) <= 1
    BY DEF IInv
  <2>1. Cardinality(Busy) \in Nat
    BY FS_CardinalityType DEF IInv
  <2> QED
    BY <2>1, AsyncQAssumption, BaseBlockAssumption
    DEF IInv, AsyncQTypeOK, SlotAccounting, IntMin
<1> QED BY <1>1, QueueInvariance, PTL

-----------------------------------------------------------------------------
(* The message queue implements Mailbox: the message in work is the first  *)
(* of the line, and the deque is the rest of it.                           *)

Line == (IF Held = {} THEN <<>> ELSE <<oT[CHOOSE w \in Held : TRUE]>>) \o deque

InService == stop = "no" /\ status \notin {"ERROR", "STOPPING", "STOPPED"}

LEMMA FrontOfLine ==
  ASSUME NEW e \in Item, NEW s \in Seq(Item)
  PROVE  /\ <<e>> \o s # <<>>
         /\ Head(<<e>> \o s) = e
         /\ Tail(<<e>> \o s) = s
         /\ \A i \in Item : <<e>> \o Append(s, i) = Append(<<e>> \o s, i)
<1> DEFINE p == <<e>> \o s
<1>1. <<e>> \in Seq(Item) /\ Len(<<e>>) = 1 /\ <<e>>[1] = e /\ Len(s) \in Nat
  OBVIOUS
<1>2. /\ p \in Seq(Item) /\ Len(p) = 1 + Len(s)
      /\ \A k \in 1 .. 1 + Len(s) : p[k] = IF k <= 1 THEN <<e>>[k] ELSE s[k - 1]
  BY <1>1, ConcatProperties
<1>3. p # <<>> /\ Head(p) = e
  BY <1>1, <1>2
<1>4. Tail(p) = s
  <2>1. /\ Tail(p) \in Seq(Item) /\ Len(Tail(p)) = Len(s)
        /\ \A k \in 1 .. Len(s) : Tail(p)[k] = p[k + 1]
    BY <1>1, <1>2, <1>3, HeadTailProperties
  <2>2. \A k \in 1 .. Len(s) : p[k + 1] = s[k]
    BY <1>1, <1>2
  <2>3. \A k \in 1 .. Len(s) : Tail(p)[k] = s[k]
    BY <2>1, <2>2
  <2> QED BY <2>1, <2>3, SeqEqual
<1>5. ASSUME NEW i \in Item PROVE <<e>> \o Append(s, i) = Append(<<e>> \o s, i)
  <2>1. <<i>> \in Seq(Item)
    OBVIOUS
  <2>2. Append(s, i) = s \o <<i>> /\ Append(p, i) = p \o <<i>>
    BY <1>2, AppendIsConcat
  <2>3. p \o <<i>> = <<e>> \o (s \o <<i>>)
    BY <1>1, <2>1, ConcatAssociative
  <2> QED BY <2>2, <2>3
<1> QED BY <1>3, <1>4, <1>5

LEMMA HeadThenTail ==
  ASSUME NEW s \in Seq(Item), s # <<>>
  PROVE  <<Head(s)>> \o Tail(s) = s
<1> DEFINE p == <<Head(s)>> \o Tail(s)
<1>1. /\ Head(s) \in Item /\ Tail(s) \in Seq(Item) /\ Len(Tail(s)) = Len(s) - 1
      /\ Len(s) \in Nat \ {0} /\ Head(s) = s[1]
      /\ \A k \in 1 .. Len(s) - 1 : Tail(s)[k] = s[k + 1]
  BY HeadTailProperties
<1>2. <<Head(s)>> \in Seq(Item) /\ Len(<<Head(s)>>) = 1 /\ <<Head(s)>>[1] = Head(s)
  BY <1>1
<1>3. /\ p \in Seq(Item) /\ Len(p) = 1 + Len(Tail(s))
      /\ \A k \in 1 .. 1 + Len(Tail(s)) :
           p[k] = IF k <= 1 THEN <<Head(s)>>[k] ELSE Tail(s)[k - 1]
  BY <1>1, <1>2, ConcatProperties
<1>4. Len(p) = Len(s)
  BY <1>1, <1>3
<1>5. ASSUME NEW k \in 1 .. Len(p) PROVE p[k] = s[k]
  <2>1. CASE k = 1
    BY <1>1, <1>2, <1>3, <1>4, <2>1
  <2>2. CASE k # 1
    <3>1. k - 1 \in 1 .. Len(s) - 1 /\ (k - 1) + 1 = k
      BY <1>1, <1>4, <2>2
    <3>2. p[k] = Tail(s)[k - 1]
      BY <1>1, <1>3, <1>4, <2>2
    <3> QED BY <1>1, <3>1, <3>2
  <2> QED BY <2>1, <2>2
<1> QED BY <1>3, <1>4, <1>5, SeqEqual

\* One thread serves the queue: who is busy is the only one.
LEMMA BusyIsOne ==
  ASSUME IInv, NEW v \in Busy, NEW w \in Busy
  PROVE  v = w
<1>1. IsFiniteSet(Busy) /\ Cardinality(Busy) \in Nat
  BY FS_CardinalityType DEF IInv
<1>2. Cardinality(Busy) <= 1
  BY <1>1, AsyncQAssumption, BaseBlockAssumption
  DEF IInv, AsyncQTypeOK, SlotAccounting, IntMin
<1>3. IsFiniteSet(Busy \ {v}) /\ Cardinality(Busy \ {v}) = Cardinality(Busy) - 1
  BY <1>1, FS_RemoveElement
<1>4. Cardinality(Busy \ {v}) = 0
  BY <1>1, <1>2, <1>3, FS_CardinalityType
<1>5. Busy \ {v} = {}
  BY <1>3, <1>4, FS_EmptySet
<1> QED BY <1>5

LEMMA LineWithoutHolder ==
  ASSUME QueueShape, Held = {}
  PROVE  Line = deque
BY ConcatEmptySeq DEF Line, QueueShape

LEMMA LineWithHolder ==
  ASSUME QueueShape, NEW w \in Worker, oT[w] \in Item, Held = {w}
  PROVE  /\ Line = <<oT[w]>> \o deque /\ Line # <<>>
         /\ Head(Line) = oT[w] /\ Tail(Line) = deque
<1>1. (CHOOSE v \in Held : TRUE) = w
  OBVIOUS
<1>2. Held # {}
  OBVIOUS
<1>3. Line = <<oT[w]>> \o deque
  BY <1>1, <1>2 DEF Line
<1> QED BY <1>3, FrontOfLine DEF QueueShape

\* Who holds a message holds it alone.
LEMMA HolderAlone ==
  ASSUME IInv, ShapeInv, NEW w \in Worker, pc[w] # "idle"
  PROVE  /\ oT[w] # NoItem => Held = {w} /\ oT[w] \in Item
         /\ oT[w] = NoItem => Held = {}
<1>1. \A v \in Held : v \in Busy /\ v \in Worker
  BY DEF Held, ShapeInv, HandInv, Busy
<1>2. w \in Busy
  BY DEF Busy
<1>3. \A v \in Held : v = w
  BY <1>1, <1>2, BusyIsOne
<1> QED BY <1>3 DEF Held, ShapeInv, QueueShape

\* The steps of the mailbox, in the words of the block.
LEMMA PostStep ==
  ASSUME NEW i \in Item, i \notin sent, sent' = sent \cup {i},
         Line' = Append(Line, i), done' = done, InService' = InService
  PROVE  MB!Post(i)
BY DEF Line, InService, MB!Post

LEMMA HandleStep ==
  ASSUME Line # <<>>, done' = Append(done, Head(Line)), Line' = Tail(Line),
         sent' = sent, InService' = InService
  PROVE  MB!Handle
BY DEF Line, InService, MB!Handle

LEMMA DeferStep ==
  ASSUME Line # <<>>, Line' = Append(Tail(Line), Head(Line)),
         done' = done, sent' = sent, InService' = InService
  PROVE  MB!Defer
BY DEF Line, InService, MB!Defer

LEMMA DiscardStep ==
  ASSUME ~InService, Line # <<>>, Line' = Tail(Line),
         done' = done, sent' = sent, InService' = InService
  PROVE  MB!Discard
BY DEF Line, InService, MB!Discard

LEMMA ClearStep ==
  ASSUME ~InService, Line # <<>>, Line' \in {<<>>, <<Head(Line)>>},
         done' = done, sent' = sent, InService' = InService
  PROVE  MB!Clear
BY DEF Line, InService, MB!Clear

\* A step that moves no message: the block at most enters or leaves service.
LEMMA ServiceStep ==
  ASSUME Line' = Line, done' = done, sent' = sent
  PROVE  MB!OpenOrClose \/ UNCHANGED MB!mvars
<1>1. CASE InService' = ~InService
  BY <1>1 DEF Line, InService, MB!OpenOrClose
<1>2. CASE InService' = InService
  BY <1>2 DEF Line, InService, MB!mvars
<1>3. InService' = ~InService \/ InService' = InService
  BY DEF InService
<1> QED BY <1>1, <1>2, <1>3

LEMMA InitMailbox == Init => MB!Init
<1> SUFFICES ASSUME Init PROVE MB!Init
  OBVIOUS
<1>1. deque = <<>> /\ sent = {} /\ done = <<>> /\ Held = {} /\ InService
  BY DEF Init, AsyncQInit, Held, InService
<1>2. Line = <<>>
  BY <1>1, LineWithoutHolder, InitShape DEF ShapeInv
<1> QED BY <1>1, <1>2 DEF MB!Init, Line, InService

MailboxStep == MB!Next \/ UNCHANGED MB!mvars

\* A step of the queue that does not stop it leaves the block's service as it is.
LEMMA SameService ==
  ASSUME status' = status,
         stop' = stop \/ (stop = "writing" /\ stop' = "clearing")
  PROVE  InService' = InService
BY DEF InService

LEMMA ReceivePosts ==
  ASSUME ShapeInv, NEW i \in Item, Receive(i)
  PROVE  MailboxStep
<1>1. Queue(i) /\ status' = status
  BY DEF Receive, bvars
<1>2. /\ QueueShape /\ QueueShape'
      /\ deque' = Append(deque, i) /\ i \notin sent /\ sent' = sent \cup {i}
      /\ oT' = oT /\ done' = done
      /\ stop' = stop \/ (stop = "writing" /\ stop' = "clearing")
  BY <1>1, QueueStepShape DEF ShapeInv
<1>3. Held' = Held
  BY <1>2 DEF Held
<1>4. Line' = Append(Line, i)
  <2>1. CASE Held = {}
    BY <1>2, <1>3, <2>1, ConcatEmptySeq DEF Line, QueueShape
  <2>2. CASE Held # {}
    <3> DEFINE e == oT[CHOOSE w \in Held : TRUE]
    <3>1. e \in Item
      BY <1>2, <2>2 DEF Held, QueueShape
    <3>2. Line = <<e>> \o deque /\ Line' = <<e>> \o deque'
      BY <1>2, <1>3, <2>2 DEF Line
    <3> HIDE DEF e
    <3> QED BY <1>2, <3>1, <3>2, FrontOfLine DEF QueueShape
  <2> QED BY <2>1, <2>2
<1> QED BY <1>1, <1>2, <1>4, PostStep, SameService DEF MailboxStep, MB!Next

LEMMA PollTakesFirst ==
  ASSUME IInv, ShapeInv, PlaceInv, NEW w \in Worker, Poll(w), UNCHANGED bvars
  PROVE  MailboxStep
<1>1. /\ QueueShape /\ QueueShape'
      /\ pc[w] = "pooled"
      /\ oT' = [oT EXCEPT ![w] = IF deque = <<>> THEN NoItem ELSE Head(deque)]
      /\ deque' = IF deque = <<>> THEN <<>> ELSE Tail(deque)
      /\ sent' = sent /\ done' = done
  BY PollStepShape DEF ShapeInv
<1>2. oT[w] = NoItem /\ Held = {}
  BY <1>1, HolderAlone DEF ShapeInv, HandInv
<1>3. \A v \in Worker : oT[v] = NoItem
  BY <1>2 DEF Held
<1>4. Line' = Line
  <2>1. CASE deque = <<>>
    <3>1. deque' = deque /\ Held' = {}
      BY <1>1, <1>3, <2>1 DEF Held, QueueShape
    <3>2. Line' = deque'
      BY <1>1, <3>1, ConcatEmptySeq DEF Line, QueueShape
    <3> QED BY <1>1, <1>2, <3>1, <3>2, LineWithoutHolder
  <2>2. CASE deque # <<>>
    <3>1. Head(deque) \in Item /\ Head(deque) # NoItem
      BY <1>1, <2>2, AsyncQAssumption DEF QueueShape
    <3>2. oT'[w] = Head(deque) /\ \A v \in Worker \ {w} : oT'[v] = NoItem
      BY <1>1, <1>3, <2>2 DEF QueueShape
    <3>3. Held' = {w}
      BY <3>1, <3>2 DEF Held
    <3>4. (CHOOSE v \in Held' : TRUE) = w
      BY <3>3
    <3>5. Line' = <<Head(deque)>> \o Tail(deque)
      BY <1>1, <2>2, <3>2, <3>3, <3>4 DEF Line
    <3>6. Line' = deque
      BY <1>1, <2>2, <3>5, HeadThenTail DEF QueueShape
    <3> QED BY <1>1, <1>2, <3>6, LineWithoutHolder
  <2> QED BY <2>1, <2>2
<1> QED BY <1>1, <1>4, ServiceStep DEF MailboxStep, MB!Next

\* The holder lets its message go: the line is the deque again.
LEMMA LineLetGo ==
  ASSUME QueueShape, NEW w \in Worker, Held = {w}, oT' = [oT EXCEPT ![w] = NoItem],
         QueueShape'
  PROVE  Held' = {} /\ Line' = deque'
<1>1. \A v \in Worker : oT'[v] = NoItem
  BY DEF Held, QueueShape
<1>2. Held' = {}
  BY <1>1 DEF Held
<1> QED BY <1>2, ConcatEmptySeq DEF Line, QueueShape

LEMMA LeaveHandles ==
  ASSUME IInv, ShapeInv, NEW w \in Worker, NotifyLeave(w)
  PROVE  MailboxStep
<1>1. /\ QueueShape /\ QueueShape' /\ Deliver(w)
      /\ pc[w] = "working" /\ oT[w] \in Item
      /\ oT' = [oT EXCEPT ![w] = NoItem] /\ done' = Append(done, oT[w])
      /\ UNCHANGED <<deque, pc, sent, stop>>
  BY DeliverStepShape DEF NotifyLeave, ShapeInv
<1>2. oT[w] # NoItem /\ Held = {w}
  BY <1>1, HolderAlone, AsyncQAssumption
<1>3. Line # <<>> /\ Head(Line) = oT[w] /\ Tail(Line) = deque
  BY <1>1, <1>2, LineWithHolder
<1>4. Line' = Tail(Line)
  BY <1>1, <1>2, <1>3, LineLetGo
<1>5. InService' = InService
  BY <1>1 DEF NotifyLeave, CompareAndSet, InService
<1> QED BY <1>1, <1>3, <1>4, <1>5, HandleStep DEF MailboxStep, MB!Next

LEMMA RefusalDefersOrDiscards ==
  ASSUME IInv, ShapeInv, NEW w \in Worker, NotifyRefused(w)
  PROVE  MailboxStep
<1>1. /\ QueueShape /\ hand[w] = "refused" /\ status' = status /\ status \in Status
      /\ oT[w] # NoItem /\ pc[w] = "working"
  BY DEF NotifyRefused, ShapeInv, HandInv, BlockShape
<1>2. Held = {w} /\ oT[w] \in Item
  BY <1>1, HolderAlone
<1>3. Line # <<>> /\ Head(Line) = oT[w] /\ Tail(Line) = deque
  BY <1>1, <1>2, LineWithHolder
<1>4. CASE GiveBack(w)
  <2>1. /\ QueueShape' /\ oT' = [oT EXCEPT ![w] = NoItem]
        /\ deque' = Append(deque, oT[w])
        /\ sent' = sent /\ done' = done
        /\ stop' = stop \/ (stop = "writing" /\ stop' = "clearing")
    BY <1>4, GiveBackStepShape
  <2>2. Line' = Append(Tail(Line), Head(Line))
    BY <1>1, <1>2, <1>3, <2>1, LineLetGo
  <2>3. InService' = InService
    BY <1>1, <2>1, SameService
  <2> QED BY <1>3, <2>1, <2>2, <2>3, DeferStep DEF MailboxStep, MB!Next
<1>5. CASE Drop(w) /\ status \in {"ERROR", "STOPPING", "STOPPED"}
  <2>1. /\ QueueShape' /\ oT' = [oT EXCEPT ![w] = NoItem]
        /\ UNCHANGED <<deque, sent, stop, done>>
    BY <1>1, <1>5, DropStepShape
  <2>2. Line' = Tail(Line)
    BY <1>1, <1>2, <1>3, <2>1, LineLetGo
  <2>3. InService' = InService
    BY <1>1, <2>1, SameService
  <2>4. ~InService
    BY <1>5 DEF InService
  <2> QED BY <1>3, <2>1, <2>2, <2>3, <2>4, DiscardStep DEF MailboxStep, MB!Next
<1> QED BY <1>1, <1>4, <1>5 DEF NotifyRefused, Status

LEMMA StopClears ==
  ASSUME IInv, ShapeInv, StopClear, status' = status
  PROVE  MailboxStep
<1>1. /\ QueueShape /\ stop = "clearing" /\ stop' = "done" /\ deque' = <<>>
      /\ UNCHANGED <<pc, oT, sent, done>>
  BY DEF StopClear, ShapeInv
<1>2. ~InService /\ InService' = InService
  BY <1>1 DEF InService
<1>3. Held' = Held
  BY <1>1 DEF Held
<1>4. CASE Held = {}
  <2>1. Line = deque /\ Line' = <<>>
    BY <1>1, <1>3, <1>4, LineWithoutHolder, ConcatEmptySeq DEF Line, QueueShape
  <2>2. CASE Line = <<>>
    BY <1>1, <2>1, <2>2, ServiceStep DEF MailboxStep, MB!Next
  <2>3. CASE Line # <<>>
    BY <1>1, <1>2, <2>1, <2>3, ClearStep DEF MailboxStep, MB!Next
  <2> QED BY <2>2, <2>3
<1>5. CASE Held # {}
  <2>1. PICK w \in Worker : w \in Held /\ oT[w] # NoItem /\ pc[w] # "idle"
    BY <1>5 DEF Held, ShapeInv, HandInv
  <2>2. Held = {w} /\ oT[w] \in Item
    BY <2>1, HolderAlone
  <2>3. Line # <<>> /\ Head(Line) = oT[w]
    BY <1>1, <2>2, LineWithHolder
  <2>4. (CHOOSE v \in Held : TRUE) = w
    BY <2>2
  <2>5. <<oT[w]>> \in Seq(Item)
    BY <2>2
  <2>6. Line' = <<oT[w]>>
    BY <1>1, <1>3, <1>5, <2>4, <2>5, ConcatEmptySeq DEF Line
  <2> QED BY <1>1, <1>2, <2>3, <2>6, ClearStep DEF MailboxStep, MB!Next
<1> QED BY <1>4, <1>5

LEMMA NextMailbox == IInv /\ ShapeInv /\ PlaceInv /\ [Next]_vars => MailboxStep
<1> SUFFICES ASSUME IInv, ShapeInv, PlaceInv, [Next]_vars PROVE MailboxStep
  OBVIOUS
<1>a. UNCHANGED <<deque, oT, sent, done>> => MailboxStep
  <2> SUFFICES ASSUME UNCHANGED <<deque, oT, sent, done>> PROVE MailboxStep
    OBVIOUS
  <2>1. Held' = Held
    BY DEF Held
  <2>2. Line' = Line
    BY <2>1 DEF Line
  <2> QED BY <2>2, ServiceStep DEF MailboxStep, MB!Next
<1>1. CASE StartService
  BY <1>1, <1>a DEF StartService, StartEnter, StartMark, StartCall, StartFinish, qvars
<1>2. CASE StopService
  <2>1. CASE StopEnter \/ StopCancel \/ StopFinish
    BY <2>1, <1>a DEF StopEnter, StopCancel, StopFinish, qvars
  <2>2. CASE StopQueue
    <3>1. status' = status
      BY <2>2 DEF StopQueue, bvars
    <3>2. CASE StopCall \/ StopWrite
      BY <3>2, <1>a DEF StopCall, StopWrite
    <3>3. CASE StopClear
      BY <3>1, <3>3, StopClears
    <3> QED BY <2>2, <3>2, <3>3 DEF StopQueue
  <2> QED BY <1>2, <2>1, <2>2 DEF StopService
<1>3. CASE SetIdle
  BY <1>3, <1>a DEF SetIdle, qvars
<1>4. ASSUME NEW r \in Runner, Fire(r) \/ Run(r) \/ RunThrow(r) \/ SetError(r)
      PROVE  MailboxStep
  BY <1>4, <1>a DEF Fire, Run, RunEnter, RunLeave, RunThrow, SetError, qvars
<1>5. ASSUME NEW i \in Item, Receive(i) PROVE MailboxStep
  BY <1>5, ReceivePosts
<1>6. ASSUME NEW w \in Worker, QueueThread(w) PROVE MailboxStep
  <2>1. CASE NotifyEnter(w)
    BY <2>1, <1>a DEF NotifyEnter, qvars
  <2>2. CASE Finish(w)
    BY <2>2, <1>a, FinishStepShape
  <2> QED BY <1>6, <2>1, <2>2, LeaveHandles, RefusalDefersOrDiscards, PollTakesFirst
          DEF QueueThread
<1>7. CASE UNCHANGED vars
  BY <1>7, <1>a DEF vars, qvars
<1> QED BY <1>1, <1>2, <1>3, <1>4, <1>5, <1>6, <1>7 DEF Next

\* Every behaviour of the block is one of the mailbox: messages are dealt with
\* one at a time, oldest first, a refused one goes to the end of the line, and
\* none disappears from it while the block is in service.
THEOREM MailboxImplemented == ASSUME ~StopRace PROVE Spec => ImplementsMailbox
<1>1. BlockInv => ShapeInv /\ PlaceInv
  BY DEF BlockInv
<1>2. IInv /\ BlockInv /\ [Next]_vars => [MB!Next]_(MB!mvars)
  BY <1>1, NextMailbox DEF MailboxStep
<1> QED
  BY <1>2, InitMailbox, BlockInvariance, QueueInvariance, PTL
  DEF Spec, ImplementsMailbox, MB!Spec
=============================================================================
