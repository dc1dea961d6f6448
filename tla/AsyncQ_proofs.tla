---------------------------- MODULE AsyncQ_proofs ----------------------------
(***************************************************************************)
(* What AsyncQ guarantees for every set of messages, every thread limit    *)
(* and any number of executions, as long as stop() does not fall inside a  *)
(* monitor section (~StopRace; with StopRace = TRUE in AsyncQ.cfg TLC finds *)
(* ThreadLimit violated).                                                  *)
(***************************************************************************)
EXTENDS AsyncQ, FiniteSetTheorems, TLAPS

\* The invariant that is inductive.  NoStranding needs SlotAccounting (no free
\* slot means somebody is busy) and that needs Busy finite.
IInv ==
  /\ AsyncQTypeOK
  /\ IsFiniteSet(Busy)
  /\ SlotAccounting
  /\ NoStranding

\* Without a race the counter is written as the code says.
LEMMA WriteSlotsStep ==
  ASSUME ~StopRace, NEW d \in Int, WriteSlots(d)
  PROVE  slots' = slots + d /\ stop' = stop
<1> DEFINE c == <<slots + d, stop>>
<1>1. slots' = c[1] /\ stop' = c[2]
  BY DEF WriteSlots
<1> QED
  BY <1>1

\* A dispatch adds one execution and takes one slot.
LEMMA DispatchStep ==
  ASSUME ~StopRace, AsyncQTypeOK, IsFiniteSet(Busy), NEW next,
         next \in [Worker -> {"idle", "pooled", "working"}],
         \A v \in Worker : next[v] = "idle" <=> pc[v] = "idle",
         Dispatch(next)
  PROVE  /\ slots' = slots - 1
         /\ stop' = stop
         /\ pc' \in [Worker -> {"idle", "pooled", "working"}]
         /\ IsFiniteSet(Busy')
         /\ Cardinality(Busy') = Cardinality(Busy) + 1
         /\ Busy' # {}
<1>1. slots' = slots - 1 /\ stop' = stop
  <2>1. slots \in Int
    BY AsyncQAssumption DEF AsyncQTypeOK, IntMin
  <2>2. slots' = slots + (-1) /\ stop' = stop
    BY WriteSlotsStep DEF Dispatch
  <2> QED
    BY <2>1, <2>2
<1>2. PICK w \in Worker \ Busy : pc' = [next EXCEPT ![w] = "pooled"]
  BY DEF Dispatch
<1>3. pc' \in [Worker -> {"idle", "pooled", "working"}]
  BY <1>2
<1>4. Busy' = Busy \cup {w}
  BY <1>2 DEF Busy
<1>5. IsFiniteSet(Busy') /\ Cardinality(Busy') = Cardinality(Busy) + 1
  BY <1>2, <1>4, FS_AddElement
<1> QED
  BY <1>1, <1>3, <1>4, <1>5

\* The body of queue() keeps the invariant's parts on the counter.
LEMMA EnqueueStep ==
  ASSUME ~StopRace, IInv, NEW i \in Item, Enqueue(i)
  PROVE  /\ deque' \in Seq(Item)
         /\ slots' \in IntMin .. IntMax
         /\ stop' = stop
         /\ pc' \in [Worker -> {"idle", "pooled", "working"}]
         /\ IsFiniteSet(Busy')
         /\ SlotAccounting'
         /\ NoStranding'
<1> USE AsyncQAssumption DEF IInv, AsyncQTypeOK, IntMin
<1>1. deque' \in Seq(Item)
  BY DEF Enqueue
<1>2. Cardinality(Busy) \in Nat
  BY FS_CardinalityType
<1>3. CASE slots > 0
  <2>1. Dispatch(pc)
    BY <1>3 DEF Enqueue
  <2>2. /\ slots' = slots - 1 /\ stop' = stop
        /\ pc' \in [Worker -> {"idle", "pooled", "working"}]
        /\ IsFiniteSet(Busy')
        /\ Cardinality(Busy') = Cardinality(Busy) + 1
        /\ Busy' # {}
    BY <2>1, DispatchStep
  <2>3. SlotAccounting'
    BY <1>2, <1>3, <2>2 DEF SlotAccounting
  <2>4. NoStranding'
    BY <2>2 DEF NoStranding
  <2> QED
    BY <1>1, <1>3, <2>2, <2>3, <2>4
<1>4. CASE ~(slots > 0)
  <2>1. UNCHANGED <<slots, stop, pc>>
    BY <1>4 DEF Enqueue
  <2>2. Busy' = Busy
    BY <2>1 DEF Busy
  <2>3. SlotAccounting'
    BY <2>1, <2>2 DEF SlotAccounting
  <2>4. stop \in {"no", "writing"} => Busy # {}
    BY <1>2, <1>4, FS_EmptySet DEF SlotAccounting
  <2>5. NoStranding'
    BY <2>1, <2>2, <2>4 DEF NoStranding
  <2> QED
    BY <1>1, <2>1, <2>2, <2>3, <2>5
<1> QED
  BY <1>3, <1>4

\* Every step keeps the invariant: one case per action.
LEMMA InitIInv == AsyncQInit => IInv
<1> SUFFICES ASSUME AsyncQInit PROVE IInv
  OBVIOUS
<1> USE AsyncQAssumption DEF AsyncQInit, IntMin
<1>1. AsyncQTypeOK
  BY DEF AsyncQTypeOK
<1>2. Busy = {}
  BY DEF Busy
<1>3. IsFiniteSet(Busy) /\ Cardinality(Busy) = 0
  BY <1>2, FS_EmptySet
<1> QED
  BY <1>1, <1>3 DEF IInv, SlotAccounting, NoStranding

LEMMA NextIInv == ~StopRace /\ IInv /\ [AsyncQNext]_qvars => IInv'
<1> SUFFICES ASSUME ~StopRace, IInv, [AsyncQNext]_qvars PROVE IInv'
  OBVIOUS
<1> USE AsyncQAssumption DEF IntMin
<1>a. Cardinality(Busy) \in Nat
  BY FS_CardinalityType DEF IInv
<1>1. ASSUME NEW i \in Item, Queue(i) PROVE IInv'
  <2>1. Enqueue(i) /\ UNCHANGED <<oT, done>> /\ sent' = sent \cup {i}
    BY <1>1 DEF Queue
  <2>2. /\ deque' \in Seq(Item) /\ slots' \in IntMin .. IntMax /\ stop' = stop
        /\ pc' \in [Worker -> {"idle", "pooled", "working"}]
        /\ IsFiniteSet(Busy') /\ SlotAccounting' /\ NoStranding'
    BY <2>1, EnqueueStep
  <2>3. AsyncQTypeOK'
    BY <2>1, <2>2 DEF IInv, AsyncQTypeOK
  <2> QED
    BY <2>2, <2>3 DEF IInv
<1>2. ASSUME NEW w \in Worker, Poll(w) PROVE IInv'
  <2> DEFINE next == [pc EXCEPT ![w] = "working"]
  <2>1. /\ deque' \in Seq(Item)
        /\ oT' \in [Worker -> Item \cup {NoItem}]
        /\ next \in [Worker -> {"idle", "pooled", "working"}]
        /\ \A v \in Worker : next[v] = "idle" <=> pc[v] = "idle"
        /\ w \in Busy
    BY <1>2 DEF Poll, IInv, AsyncQTypeOK, Busy
  <2> HIDE DEF next
  <2>2. CASE slots > 0 /\ Len(deque') > 0
    <3>1. Dispatch(next)
      BY <1>2, <2>2 DEF Poll, next
    <3>2. /\ slots' = slots - 1 /\ stop' = stop
          /\ pc' \in [Worker -> {"idle", "pooled", "working"}]
          /\ IsFiniteSet(Busy')
          /\ Cardinality(Busy') = Cardinality(Busy) + 1
          /\ Busy' # {}
      BY <2>1, <3>1, DispatchStep DEF IInv
    <3>3. AsyncQTypeOK'
      BY <1>2, <2>1, <2>2, <3>2 DEF Poll, IInv, AsyncQTypeOK
    <3>4. SlotAccounting'
      BY <1>a, <2>2, <3>2 DEF IInv, AsyncQTypeOK, SlotAccounting
    <3> QED
      BY <3>2, <3>3, <3>4 DEF IInv, NoStranding
  <2>3. CASE ~(slots > 0 /\ Len(deque') > 0)
    <3>1. pc' = next /\ UNCHANGED <<slots, stop, sent, done>>
      BY <1>2, <2>3 DEF Poll, next
    <3>2. Busy' = Busy
      BY <2>1, <3>1 DEF Busy
    <3>3. AsyncQTypeOK'
      BY <2>1, <3>1 DEF IInv, AsyncQTypeOK
    <3> QED
      BY <2>1, <3>1, <3>2, <3>3 DEF IInv, SlotAccounting, NoStranding
  <2> QED
    BY <2>2, <2>3
<1>3. ASSUME NEW w \in Worker, Deliver(w) PROVE IInv'
  <2>1. AsyncQTypeOK' /\ UNCHANGED <<deque, slots, pc, stop>>
    BY <1>3 DEF Deliver, IInv, AsyncQTypeOK
  <2> QED
    BY <2>1 DEF IInv, SlotAccounting, NoStranding, Busy
<1>4. ASSUME NEW w \in Worker, GiveBack(w) PROVE IInv'
  <2>1. oT[w] \in Item /\ Enqueue(oT[w]) /\ UNCHANGED <<sent, done>>
    BY <1>4 DEF GiveBack, IInv, AsyncQTypeOK
  <2>2. /\ deque' \in Seq(Item) /\ slots' \in IntMin .. IntMax /\ stop' = stop
        /\ pc' \in [Worker -> {"idle", "pooled", "working"}]
        /\ IsFiniteSet(Busy') /\ SlotAccounting' /\ NoStranding'
    BY <2>1, EnqueueStep
  <2>3. oT' \in [Worker -> Item \cup {NoItem}]
    BY <1>4 DEF GiveBack, IInv, AsyncQTypeOK
  <2>4. AsyncQTypeOK'
    BY <2>1, <2>2, <2>3 DEF IInv, AsyncQTypeOK
  <2> QED
    BY <2>2, <2>4 DEF IInv
<1>5. ASSUME NEW w \in Worker, Finish(w) PROVE IInv'
  <2>1. CASE deque # <<>>
    <3>1. /\ pc' = [pc EXCEPT ![w] = "pooled"]
          /\ UNCHANGED <<slots, stop, deque, oT, sent, done>>
      BY <1>5, <2>1 DEF Finish
    <3>2. AsyncQTypeOK' /\ Busy' = Busy
      BY <1>5, <3>1 DEF Finish, IInv, AsyncQTypeOK, Busy
    <3> QED
      BY <3>1, <3>2 DEF IInv, SlotAccounting, NoStranding
  <2>2. CASE deque = <<>>
    <3>1. /\ pc[w] = "working"
          /\ pc' = [pc EXCEPT ![w] = "idle"]
          /\ UNCHANGED <<deque, oT, sent, done>>
      BY <1>5, <2>2 DEF Finish
    <3>2. slots' = slots + 1 /\ stop' = stop
      BY <1>5, <2>2, WriteSlotsStep DEF Finish
    <3>3. w \in Busy /\ Busy' = Busy \ {w}
      BY <3>1 DEF Busy, IInv, AsyncQTypeOK
    <3>4. IsFiniteSet(Busy') /\ Cardinality(Busy') = Cardinality(Busy) - 1
      BY <3>3, FS_RemoveElement DEF IInv
    <3>5. Cardinality(Busy') \in Nat
      BY <3>4, FS_CardinalityType
    <3>6. SlotAccounting'
      BY <1>a, <3>2, <3>4 DEF IInv, AsyncQTypeOK, SlotAccounting
    <3>7. slots' \in IntMin .. IntMax
      BY <1>a, <3>2, <3>4, <3>5, <3>6 DEF IInv, AsyncQTypeOK, SlotAccounting
    <3>8. AsyncQTypeOK'
      BY <3>1, <3>2, <3>7 DEF IInv, AsyncQTypeOK
    <3> QED
      BY <2>2, <3>1, <3>4, <3>6, <3>8 DEF IInv, NoStranding
  <2> QED
    BY <2>1, <2>2
<1>6. CASE StopCall
  BY <1>6 DEF StopCall, IInv, AsyncQTypeOK, SlotAccounting, NoStranding, Busy
<1>7. CASE StopWrite
  <2>1. AsyncQTypeOK' /\ Busy' = Busy
    BY <1>7 DEF StopWrite, IInv, AsyncQTypeOK, Busy
  <2> QED
    BY <1>a, <1>7, <2>1
    DEF StopWrite, IInv, AsyncQTypeOK, SlotAccounting, NoStranding
<1>8. CASE StopClear
  BY <1>8 DEF StopClear, IInv, AsyncQTypeOK, SlotAccounting, NoStranding, Busy
<1>9. CASE UNCHANGED qvars
  BY <1>9 DEF qvars, IInv, AsyncQTypeOK, SlotAccounting, NoStranding, Busy
<1> QED
  BY <1>1, <1>2, <1>3, <1>4, <1>5, <1>6, <1>7, <1>8, <1>9 DEF AsyncQNext

-----------------------------------------------------------------------------

\* The inductive invariant holds of every behaviour.
LEMMA Invariance == ASSUME ~StopRace PROVE AsyncQSpec => []IInv
<1>1. IInv /\ [AsyncQNext]_qvars => IInv'
  BY NextIInv
<1> QED
  BY InitIInv, <1>1, PTL DEF AsyncQSpec

\* The state keeps its shape: in particular m_nMaxThreads never overflows.
THEOREM TypeCorrect == ASSUME ~StopRace PROVE AsyncQSpec => []AsyncQTypeOK
<1>1. IInv => AsyncQTypeOK
  BY DEF IInv
<1> QED
  BY <1>1, Invariance, PTL

\* No slot of the queue leaks or is invented, whatever the interleaving.
THEOREM SlotsAccounted == ASSUME ~StopRace PROVE AsyncQSpec => []SlotAccounting
<1>1. IInv => SlotAccounting
  BY DEF IInv
<1> QED
  BY <1>1, Invariance, PTL

\* A waiting message always has an execution that will come for it.
THEOREM NothingStranded == ASSUME ~StopRace PROVE AsyncQSpec => []NoStranding
<1>1. IInv => NoStranding
  BY DEF IInv
<1> QED
  BY <1>1, Invariance, PTL

\* No more threads than the limit work for one queue, before and after stop().
THEOREM LimitRespected == ASSUME ~StopRace PROVE AsyncQSpec => []ThreadLimit
<1>1. IInv => ThreadLimit
  <2> SUFFICES ASSUME IInv PROVE Cardinality(Busy) <= MaxThreads
    BY DEF ThreadLimit
  <2>1. Cardinality(Busy) \in Nat
    BY FS_CardinalityType DEF IInv
  <2> QED
    BY <2>1, AsyncQAssumption DEF IInv, AsyncQTypeOK, SlotAccounting, IntMin
<1> QED
  BY <1>1, Invariance, PTL

\* A stopped queue whose executions have ended stays silent for ever.
THEOREM StopFinal == ASSUME ~StopRace PROVE AsyncQSpec => StopIsFinal
<1>1. IInv /\ [AsyncQNext]_qvars => [stop = "done" /\ Busy = {} => Busy' = {}]_qvars
  <2> SUFFICES ASSUME IInv, AsyncQNext, stop = "done", Busy = {}
               PROVE  Busy' = {}
    BY DEF qvars
  <2>1. ~(slots > 0)
    BY AsyncQAssumption, FS_EmptySet
    DEF IInv, AsyncQTypeOK, SlotAccounting, IntMin
  <2>2. ASSUME NEW w \in Worker PROVE pc[w] = "idle"
    BY DEF Busy
  <2>3. ASSUME NEW i \in Item, Queue(i) PROVE Busy' = {}
    BY <2>1, <2>3 DEF Queue, Enqueue, Busy
  <2> QED
    BY <2>2, <2>3
    DEF AsyncQNext, Poll, Deliver, GiveBack, Finish, StopCall, StopWrite, StopClear
<1> QED
  BY <1>1, Invariance, PTL DEF AsyncQSpec, StopIsFinal

=============================================================================
