--------------------------- MODULE TileFiles_proofs ---------------------------
(***************************************************************************)
(* What a writer of tile files guarantees for every set of requests, files *)
(* and pool threads, and with any of the executions ending by exception.   *)
(***************************************************************************)
EXTENDS TileFiles, TLAPS

\* A thread in process() has an element, whose lock was locked; what a queue holds
\* was put there by its own call.
Owned ==
  /\ \A t \in Thread : at[t] \in Inside \cup {"poll"} => on[t] \in Info /\ on[t] \in locked
  /\ \A q \in Queue : \A k \in DOMAIN queue[q] :
       Kind[queue[q][k]] = q /\ lock[queue[q][k]] = queue[q][k]
  /\ \A i \in locked : lock[i] = i

\* What a thread has claimed is in m_oProcessing, and written before it is released.
Claimed ==
  \A t \in Thread :
    /\ at[t] \in {"create", "release"} => mine[t] \subseteq processing
    /\ at[t] = "release" => mine[t] \subseteq tiles

\* Everything that was there for element i has its tile file or is in process.
Covered(i) == seen[i] \cap Wanted[i] \subseteq tiles \cup processing

\* How far the element in the hands of thread t, or of nobody, has come.
Progress ==
  /\ \A t \in Thread :
       /\ at[t] = "claim" => seen[on[t]] \cap Wanted[on[t]] \subseteq mine[t]
       /\ at[t] \in {"create", "release"} => Covered(on[t])
  /\ \A i \in locked : Holders(i) = {} /\ i \notin failed => Covered(i)

IInv == TypeOK /\ Owned /\ OneExecution /\ Claimed /\ FileExclusive /\ Progress

-----------------------------------------------------------------------------
(* Sequences as queues.                                                    *)

LEMMA AppendFacts ==
  ASSUME NEW S, NEW s \in Seq(S), NEW e \in S
  PROVE  /\ Append(s, e) \in Seq(S) /\ Append(s, e) # <<>>
         /\ \A k \in DOMAIN Append(s, e) :
              \/ k \in DOMAIN s /\ Append(s, e)[k] = s[k]
              \/ Append(s, e)[k] = e
         /\ s = <<>> => Head(Append(s, e)) = e
         /\ s # <<>> => Head(Append(s, e)) = Head(s)
<1>1. Append(s, e) \in Seq(S) /\ Len(Append(s, e)) = Len(s) + 1
  OBVIOUS
<1>2. Append(s, e) # <<>>
  <2>1. Len(s) \in Nat
    OBVIOUS
  <2>2. Len(<<>>) = 0
    OBVIOUS
  <2> SUFFICES ASSUME Append(s, e) = <<>> PROVE FALSE
    OBVIOUS
  <2> QED
    BY <1>1, <2>1, <2>2
<1>3. DOMAIN Append(s, e) = 1..Len(s) + 1 /\ DOMAIN s = 1..Len(s)
  BY <1>1
<1>4. ASSUME NEW k \in DOMAIN Append(s, e)
      PROVE  (k \in DOMAIN s /\ Append(s, e)[k] = s[k]) \/ Append(s, e)[k] = e
  BY <1>3
<1>5. s = <<>> => Head(Append(s, e)) = e
  OBVIOUS
<1>6. s # <<>> => Head(Append(s, e)) = Head(s)
  OBVIOUS
<1> QED
  BY <1>1, <1>2, <1>4, <1>5, <1>6

LEMMA TailFacts ==
  ASSUME NEW S, NEW s \in Seq(S), s # <<>>
  PROVE  /\ Tail(s) \in Seq(S) /\ Head(s) \in S
         /\ 1 \in DOMAIN s /\ Head(s) = s[1]
         /\ \A k \in DOMAIN Tail(s) : k + 1 \in DOMAIN s /\ Tail(s)[k] = s[k + 1]
OBVIOUS

\* The kinds are the two queues, and no request is one of them.
LEMMA KindFacts ==
  /\ \A i \in Info : Kind[i] \in Queue /\ i \notin Queue /\ Wanted[i] \subseteq File
  /\ NoInfo \notin Info
BY TileFilesAssumption

-----------------------------------------------------------------------------
(* Type correctness.                                                       *)

LEMMA SubmitType ==
  ASSUME pending \in [Info \cup Queue -> Nat], NEW x \in Info \cup Queue, Submit(x)
  PROVE  pending' \in [Info \cup Queue -> Nat]
<1>1. pending' = [pending EXCEPT ![x] = pending[x] + 1]
  BY DEF Submit
<1>2. pending[x] \in Nat
  OBVIOUS
<1>3. pending[x] + 1 \in Nat
  BY <1>2
<1> QED
  BY <1>1, <1>3

\* queue() puts an element of Info at the end and may submit it.
LEMMA EnqueueType ==
  ASSUME TypeOK, NEW i \in Info, Enqueue(i)
  PROVE  /\ queue' \in [Queue -> Seq(Info)]
         /\ pending' \in [Info \cup Queue -> Nat]
         /\ lock' \in [Info -> Info \cup {NoInfo}]
         /\ lock'[i] \in Info
<1> USE KindFacts DEF TypeOK
<1>1. CASE Equal(i) = {}
  <2>1. /\ lock' = [lock EXCEPT ![i] = i]
        /\ queue' = [queue EXCEPT ![Kind[i]] = Append(@, i)]
        /\ IF queue[Kind[i]] = <<>> THEN Submit(i) ELSE UNCHANGED pending
    BY <1>1 DEF Enqueue
  <2>2. Append(queue[Kind[i]], i) \in Seq(Info)
    BY AppendFacts
  <2>3. queue' \in [Queue -> Seq(Info)]
    BY <2>1, <2>2
  <2>4. pending' \in [Info \cup Queue -> Nat]
    BY <2>1, SubmitType
  <2> QED
    BY <2>1, <2>3, <2>4
<1>2. CASE Equal(i) # {}
  <2>1. PICK k \in Equal(i) : lock' = [lock EXCEPT ![i] = queue[Kind[i]][k]]
    BY <1>2 DEF Enqueue
  <2>2. UNCHANGED <<queue, pending>>
    BY <1>2 DEF Enqueue
  <2>3. k \in DOMAIN queue[Kind[i]] /\ queue[Kind[i]] \in Seq(Info)
    BY <2>1 DEF Equal
  <2>4. queue[Kind[i]][k] \in Info
    BY <2>3
  <2> QED
    BY <2>1, <2>2, <2>4
<1> QED
  BY <1>1, <1>2

LEMMA TypeStep ==
  ASSUME TypeOK, Owned, [Next]_vars
  PROVE  TypeOK'
<1> USE KindFacts DEF TypeOK, Inside, Goto, threads, callers
<1>1. ASSUME NEW f \in File, Arrive(f) PROVE TypeOK'
  BY <1>1 DEF Arrive
<1>2. ASSUME NEW i \in Info, CallQueue(i) PROVE TypeOK'
  <2>1. /\ queue' \in [Queue -> Seq(Info)]
        /\ pending' \in [Info \cup Queue -> Nat]
        /\ lock' \in [Info -> Info \cup {NoInfo}]
        /\ lock'[i] \in Info
    BY <1>2, EnqueueType DEF CallQueue
  <2>2. /\ UNCHANGED <<archive, tiles, processing, at, on, mine, locked, failed>>
        /\ seen' = [seen EXCEPT ![lock'[i]] = IF lock'[i] = i THEN archive ELSE @]
    BY <1>2 DEF CallQueue
  <2>3. seen' \in [Info -> SUBSET archive]
    BY <2>1, <2>2
  <2> QED
    BY <2>1, <2>2, <2>3
<1>3. ASSUME NEW t \in Thread, NEW x \in Info \cup Queue, Begin(t, x) PROVE TypeOK'
  <2>1. pending' \in [Info \cup Queue -> Nat]
    BY <1>3 DEF Begin
  <2>2. CASE x \in Queue /\ queue[x] = <<>>
    BY <1>3, <2>1, <2>2 DEF Begin
  <2>3. CASE ~(x \in Queue /\ queue[x] = <<>>)
    <3> DEFINE i == IF x \in Queue THEN Head(queue[x]) ELSE x
    <3>1. i \in Info
      BY <2>3, TailFacts
    <3>2. /\ on' = [on EXCEPT ![t] = i] /\ locked' = locked \cup {i}
          /\ at' = [at EXCEPT ![t] = "search"]
          /\ UNCHANGED <<archive, tiles, queue, processing, mine, lock, seen, failed>>
      BY <1>3, <2>3 DEF Begin
    <3> HIDE DEF i
    <3> QED
      BY <2>1, <3>1, <3>2
  <2> QED
    BY <2>2, <2>3
<1>4. ASSUME NEW t \in Thread, Search(t) PROVE TypeOK'
  BY <1>4 DEF Search
<1>5. ASSUME NEW t \in Thread, Claim(t) PROVE TypeOK'
  BY <1>5 DEF Claim
<1>6. ASSUME NEW t \in Thread, Create(t) PROVE TypeOK'
  BY <1>6 DEF Create
<1>7. ASSUME NEW t \in Thread, Release(t) PROVE TypeOK'
  BY <1>7 DEF Release
<1>8. ASSUME NEW t \in Thread, Fail(t) PROVE TypeOK'
  <2>1. on[t] \in Info
    BY <1>8 DEF Fail, Owned
  <2>2. tiles' \subseteq archive
    BY <1>8 DEF Fail
  <2> QED
    BY <1>8, <2>1, <2>2 DEF Fail
<1>9. ASSUME NEW t \in Thread, Poll(t) PROVE TypeOK'
  <2> DEFINE q == Kind[on[t]]
             rest == IF queue[q] = <<>> THEN <<>> ELSE Tail(queue[q])
  <2>1. q \in Queue
    BY <1>9 DEF Poll, Owned
  <2>2. rest \in Seq(Info)
    BY <2>1, TailFacts
  <2>3. /\ queue' = [queue EXCEPT ![q] = rest]
        /\ IF rest = <<>> THEN Goto(t, "idle") /\ UNCHANGED pending
                          ELSE Goto(t, "waiting") /\ Submit(q)
        /\ on' = [on EXCEPT ![t] = NoInfo]
        /\ UNCHANGED <<archive, tiles, processing, mine, locked, lock, seen, failed>>
    BY <1>9, Zenon DEF Poll
  <2> HIDE DEF q, rest
  <2>4. pending' \in [Info \cup Queue -> Nat]
    BY <2>1, <2>3, SubmitType
  <2>5. at' \in [Thread -> Inside \cup {"idle", "poll", "waiting"}]
    BY <2>3
  <2> QED
    BY <2>1, <2>2, <2>3, <2>4, <2>5
<1>10. ASSUME NEW t \in Thread, Resume(t) PROVE TypeOK'
  BY <1>10 DEF Resume
<1>11. CASE UNCHANGED vars
  BY <1>11 DEF vars
<1> QED
  BY <1>1, <1>2, <1>3, <1>4, <1>5, <1>6, <1>7, <1>8, <1>9, <1>10, <1>11 DEF Next, Process

-----------------------------------------------------------------------------
(* Whose elements the threads and the queues hold.                         *)

\* An execution is for the head of its queue, whichever way it was submitted.
LEMMA BeginHead ==
  ASSUME TypeOK, Owned, OneExecution,
         NEW t \in Thread, NEW x \in Info \cup Queue, Begin(t, x)
  PROVE  \E q \in Queue :
           /\ x \in Submitted(q) /\ queue[q] # <<>>
           /\ Head(queue[q]) \in Info /\ Kind[Head(queue[q])] = q
           /\ lock[Head(queue[q])] = Head(queue[q])
           /\ on' = [on EXCEPT ![t] = Head(queue[q])]
           /\ locked' = locked \cup {Head(queue[q])}
           /\ at' = [at EXCEPT ![t] = "search"]
           /\ pending' = [pending EXCEPT ![x] = @ - 1]
           /\ at[t] = "idle" /\ Holders(Head(queue[q])) = {}
           /\ UNCHANGED <<archive, tiles, queue, processing, mine, lock, seen, failed>>
<1> DEFINE q == IF x \in Queue THEN x ELSE Kind[x]
           i == IF x \in Queue THEN Head(queue[x]) ELSE x
<1>1. q \in Queue /\ x \in Submitted(q)
  BY KindFacts DEF Begin, Submitted
<1>2. queue[q] # <<>> /\ (x # q => x = Head(queue[q]))
  BY <1>1 DEF OneExecution, OneExecutionOf
<1>3. queue[q] \in Seq(Info)
  BY <1>1 DEF TypeOK
<1>4. Head(queue[q]) \in Info /\ 1 \in DOMAIN queue[q] /\ Head(queue[q]) = queue[q][1]
  BY <1>2, <1>3, TailFacts
<1>5. Kind[Head(queue[q])] = q /\ lock[Head(queue[q])] = Head(queue[q])
  BY <1>1, <1>4 DEF Owned
<1>6. i = Head(queue[q])
  BY <1>2, KindFacts
<1>7. ~(x \in Queue /\ queue[x] = <<>>)
  BY <1>2
<1>8. /\ on' = [on EXCEPT ![t] = i] /\ locked' = locked \cup {i}
      /\ at' = [at EXCEPT ![t] = "search"] /\ Holders(i) = {}
      /\ pending' = [pending EXCEPT ![x] = @ - 1] /\ at[t] = "idle"
      /\ UNCHANGED <<archive, tiles, queue, processing, mine, lock, seen, failed>>
  BY <1>7 DEF Begin, Goto, callers
<1> HIDE DEF i, q
<1> QED
  BY <1>1, <1>2, <1>4, <1>5, <1>6, <1>8

LEMMA OwnedStep ==
  ASSUME TypeOK, Owned, OneExecution, [Next]_vars
  PROVE  Owned'
<1> USE KindFacts DEF TypeOK, Inside, Goto, threads, callers
<1>1. ASSUME NEW f \in File, Arrive(f) PROVE Owned'
  BY <1>1 DEF Arrive, Owned
<1>2. ASSUME NEW i \in Info, CallQueue(i) PROVE Owned'
  <2>1. /\ lock[i] = NoInfo
        /\ UNCHANGED <<at, on, locked>>
        /\ Enqueue(i)
    BY <1>2 DEF CallQueue
  <2>2. \A j \in Info \ {i} : lock'[j] = lock[j]
    BY <2>1 DEF Enqueue
  <2>3. ASSUME NEW j \in Info, lock[j] = j PROVE lock'[j] = j
    BY <2>1, <2>2, <2>3
  <2>4. ASSUME NEW q \in Queue, NEW k \in DOMAIN queue'[q]
        PROVE  Kind[queue'[q][k]] = q /\ lock'[queue'[q][k]] = queue'[q][k]
    <3>1. \/ k \in DOMAIN queue[q] /\ queue'[q][k] = queue[q][k]
          \/ queue'[q][k] = i /\ Kind[i] = q /\ lock'[i] = i
      <4>1. CASE queue' = queue
        BY <4>1, <2>4
      <4>2. CASE queue' # queue
        <5>1. lock'[i] = i /\ queue' = [queue EXCEPT ![Kind[i]] = Append(@, i)]
          BY <2>1, <4>2 DEF Enqueue
        <5>2. q # Kind[i] => queue'[q] = queue[q]
          BY <5>1
        <5>3. q = Kind[i] => queue'[q] = Append(queue[q], i)
          BY <5>1
        <5>4. queue[q] \in Seq(Info)
          OBVIOUS
        <5> QED
          BY <2>4, <5>1, <5>2, <5>3, <5>4, AppendFacts
      <4> QED
        BY <4>1, <4>2
    <3>2. CASE k \in DOMAIN queue[q] /\ queue'[q][k] = queue[q][k]
      <4>1. queue[q][k] \in Info
        BY <3>2
      <4> QED
        BY <3>2, <4>1, <2>3 DEF Owned
    <3> QED
      BY <3>1, <3>2
  <2>5. \A j \in locked : lock'[j] = j
    BY <2>3 DEF Owned
  <2> QED
    BY <2>1, <2>4, <2>5 DEF Owned
<1>3. ASSUME NEW t \in Thread, NEW x \in Info \cup Queue, Begin(t, x) PROVE Owned'
  <2>1. PICK i \in Info : /\ lock[i] = i /\ on' = [on EXCEPT ![t] = i]
                          /\ locked' = locked \cup {i}
                          /\ at' = [at EXCEPT ![t] = "search"]
                          /\ UNCHANGED <<queue, lock>>
    BY <1>3, BeginHead
  <2> QED
    BY <2>1 DEF Owned
<1>4. ASSUME NEW t \in Thread, Search(t) PROVE Owned'
  BY <1>4 DEF Search, Owned
<1>5. ASSUME NEW t \in Thread, Claim(t) PROVE Owned'
  BY <1>5 DEF Claim, Owned
<1>6. ASSUME NEW t \in Thread, Create(t) PROVE Owned'
  BY <1>6 DEF Create, Owned
<1>7. ASSUME NEW t \in Thread, Release(t) PROVE Owned'
  BY <1>7 DEF Release, Owned
<1>8. ASSUME NEW t \in Thread, Fail(t) PROVE Owned'
  BY <1>8 DEF Fail, Owned
<1>9. ASSUME NEW t \in Thread, Poll(t) PROVE Owned'
  <2> DEFINE q == Kind[on[t]]
             rest == IF queue[q] = <<>> THEN <<>> ELSE Tail(queue[q])
  <2>1. /\ queue' = [queue EXCEPT ![q] = rest]
        /\ at' = [at EXCEPT ![t] = "idle"] \/ at' = [at EXCEPT ![t] = "waiting"]
        /\ on' = [on EXCEPT ![t] = NoInfo]
        /\ UNCHANGED <<locked, lock>>
    BY <1>9 DEF Poll
  <2>2. q \in Queue /\ queue[q] \in Seq(Info)
    BY <1>9 DEF Poll, Owned
  <2>3. \A k \in DOMAIN rest : k + 1 \in DOMAIN queue[q] /\ rest[k] = queue[q][k + 1]
    <3>1. CASE queue[q] = <<>>
      BY <3>1
    <3>2. CASE queue[q] # <<>>
      BY <2>2, <3>2, TailFacts
    <3> QED
      BY <3>1, <3>2
  <2> HIDE DEF q, rest
  <2>4. \A p \in Queue : \A k \in DOMAIN queue'[p] :
          Kind[queue'[p][k]] = p /\ lock'[queue'[p][k]] = queue'[p][k]
    BY <2>1, <2>2, <2>3 DEF Owned
  <2>5. \A u \in Thread : at'[u] \in Inside \cup {"poll"} => on'[u] \in Info /\ on'[u] \in locked'
    BY <2>1 DEF Owned
  <2> QED
    BY <2>1, <2>4, <2>5 DEF Owned
<1>10. ASSUME NEW t \in Thread, Resume(t) PROVE Owned'
  BY <1>10 DEF Resume, Owned
<1>11. CASE UNCHANGED vars
  BY <1>11 DEF vars, Owned
<1> QED
  BY <1>1, <1>2, <1>3, <1>4, <1>5, <1>6, <1>7, <1>8, <1>9, <1>10, <1>11 DEF Next, Process

-----------------------------------------------------------------------------
(* One execution at a time for each queue.                                 *)

\* A step that leaves a queue, its execution and its failures alone.
LEMMA ExecFrame ==
  ASSUME NEW q \in Queue, OneExecutionOf(q), queue'[q] = queue[q],
         \A x \in Submitted(q) \cup Submitted(q)' : pending'[x] = pending[x],
         Submitted(q)' = Submitted(q),
         Busy(q)' = Busy(q), \A t \in Busy(q) : on'[t] = on[t],
         Stuck(q)' <=> Stuck(q)
  PROVE  OneExecutionOf(q)'
<1>1. \A t \in Busy(q)' : queue'[q] # <<>> /\ on'[t] = Head(queue'[q])
  BY DEF OneExecutionOf
<1>2. \A x \in Submitted(q)' :
        queue'[q] # <<>> /\ pending'[x] = 1 /\ (x # q => x = Head(queue'[q]))
  BY DEF OneExecutionOf
<1>3. /\ \A t, u \in Busy(q)' : t = u
      /\ \A x, y \in Submitted(q)' : x = y
      /\ Busy(q)' = {} \/ Submitted(q)' = {}
      /\ queue'[q] # <<>> => Stuck(q)' \/ Busy(q)' # {} \/ Submitted(q)' # {}
      /\ Stuck(q)' => queue'[q] # <<>> /\ Busy(q)' = {} /\ Submitted(q)' = {}
  BY DEF OneExecutionOf
<1> QED
  BY <1>1, <1>2, <1>3 DEF OneExecutionOf

\* queue(): a new element is submitted only if it is the only one.
LEMMA ExecQueue ==
  ASSUME TypeOK, OneExecution, NEW i \in Info, CallQueue(i), NEW q \in Queue
  PROVE  OneExecutionOf(q)'
<1> USE KindFacts DEF TypeOK
<1>1. OneExecutionOf(q)
  BY DEF OneExecution
<1>2. /\ Busy(q)' = Busy(q)
      /\ Stuck(q)' <=> Stuck(q)
      /\ \A t \in Busy(q) : on'[t] = on[t]
  BY DEF CallQueue, threads, Busy, Stuck
<1>3. Enqueue(i)
  BY DEF CallQueue
<1>4. CASE queue'[q] = queue[q] /\ \A x \in {j \in Info : Kind[j] = q} \cup {q} : pending'[x] = pending[x]
  <2>1. Submitted(q)' = Submitted(q)
    BY <1>4 DEF Submitted
  <2>2. \A x \in Submitted(q) \cup Submitted(q)' : pending'[x] = pending[x]
    BY <1>4 DEF Submitted
  <2> QED
    BY <1>1, <1>2, <1>4, <2>1, <2>2, ExecFrame
<1>5. CASE ~(queue'[q] = queue[q] /\ \A x \in {j \in Info : Kind[j] = q} \cup {q} : pending'[x] = pending[x])
  <2>1. /\ Equal(i) = {}
        /\ queue' = [queue EXCEPT ![Kind[i]] = Append(@, i)]
        /\ IF queue[Kind[i]] = <<>> THEN Submit(i) ELSE UNCHANGED pending
    BY <1>3, <1>5 DEF Enqueue
  <2>2. Kind[i] = q
    <3> SUFFICES ASSUME Kind[i] # q PROVE FALSE
      OBVIOUS
    <3>1. queue'[q] = queue[q]
      BY <2>1
    <3>2. \A x \in {j \in Info : Kind[j] = q} \cup {q} : pending'[x] = pending[x]
      BY <2>1 DEF Submit
    <3> QED
      BY <1>5, <3>1, <3>2
  <2>3. queue'[q] = Append(queue[q], i) /\ queue[q] \in Seq(Info)
    BY <2>1, <2>2
  <2>4. /\ queue'[q] # <<>>
        /\ queue[q] = <<>> => Head(queue'[q]) = i
        /\ queue[q] # <<>> => Head(queue'[q]) = Head(queue[q])
    BY <2>3, AppendFacts
  <2>5. CASE queue[q] = <<>>
    <3>1. Busy(q) = {} /\ Submitted(q) = {} /\ ~Stuck(q)
      BY <1>1, <2>5 DEF OneExecutionOf
    <3>2. pending' = [pending EXCEPT ![i] = @ + 1]
      BY <2>1, <2>2, <2>5 DEF Submit
    <3>3. pending[i] = 0 /\ pending[i] \in Nat
      BY <2>2, <3>1 DEF Submitted
    <3>4. Submitted(q)' = {i} /\ pending'[i] = 1
      BY <2>2, <3>1, <3>2, <3>3 DEF Submitted
    <3> QED
      BY <1>2, <2>4, <2>5, <3>1, <3>4 DEF OneExecutionOf
  <2>6. CASE queue[q] # <<>>
    <3>1. pending' = pending
      BY <2>1, <2>2, <2>6
    <3>2. Submitted(q)' = Submitted(q)
      BY <3>1 DEF Submitted
    <3>3. \A t \in Busy(q)' : queue'[q] # <<>> /\ on'[t] = Head(queue'[q])
      BY <1>1, <1>2, <2>4, <2>6 DEF OneExecutionOf
    <3>4. \A x \in Submitted(q)' :
            queue'[q] # <<>> /\ pending'[x] = 1 /\ (x # q => x = Head(queue'[q]))
      BY <1>1, <2>4, <2>6, <3>1, <3>2 DEF OneExecutionOf
    <3>5. /\ \A t, u \in Busy(q)' : t = u
          /\ \A x, y \in Submitted(q)' : x = y
          /\ Busy(q)' = {} \/ Submitted(q)' = {}
          /\ queue'[q] # <<>> => Stuck(q)' \/ Busy(q)' # {} \/ Submitted(q)' # {}
          /\ Stuck(q)' => queue'[q] # <<>> /\ Busy(q)' = {} /\ Submitted(q)' = {}
      BY <1>1, <1>2, <2>4, <2>6, <3>2 DEF OneExecutionOf
    <3> QED
      BY <3>3, <3>4, <3>5 DEF OneExecutionOf
  <2> QED
    BY <2>5, <2>6
<1> QED
  BY <1>4, <1>5

\* The pool begins: what was submitted is now busy.
LEMMA ExecBegin ==
  ASSUME TypeOK, Owned, OneExecution, NEW q \in Queue,
         NEW t \in Thread, NEW x \in Info \cup Queue, Begin(t, x)
  PROVE  OneExecutionOf(q)'
<1> USE KindFacts DEF TypeOK, Inside
<1>1. OneExecutionOf(q)
  BY DEF OneExecution
<1>2. PICK p \in Queue :
        /\ x \in Submitted(p) /\ queue[p] # <<>>
        /\ Head(queue[p]) \in Info /\ Kind[Head(queue[p])] = p
        /\ on' = [on EXCEPT ![t] = Head(queue[p])]
        /\ at' = [at EXCEPT ![t] = "search"]
        /\ pending' = [pending EXCEPT ![x] = @ - 1]
        /\ at[t] = "idle"
        /\ queue' = queue /\ failed' = failed
  BY BeginHead
<1>3. Stuck(q)' <=> Stuck(q)
  BY <1>2 DEF Stuck
<1>4. CASE p = q
  <2>1. Busy(q) = {} /\ ~Stuck(q) /\ pending[x] = 1 /\ \A y \in Submitted(q) : y = x
    BY <1>1, <1>2, <1>4 DEF OneExecutionOf
  <2>2. Busy(q)' = {t}
    BY <1>2, <1>4, <2>1 DEF Busy
  <2>3. Submitted(q)' = {}
    <3>1. pending'[x] = 0
      BY <1>2, <2>1
    <3>2. ASSUME NEW y \in {i \in Info : Kind[i] = q} \cup {q}, y # x PROVE pending'[y] = pending[y]
      BY <1>2, <3>2
    <3>3. ASSUME NEW y \in {i \in Info : Kind[i] = q} \cup {q}, pending'[y] > 0 PROVE FALSE
      <4>1. y # x
        BY <3>1, <3>3
      <4>2. y \in Submitted(q)
        BY <3>2, <3>3, <4>1 DEF Submitted
      <4> QED
        BY <2>1, <4>1, <4>2
    <3> QED
      BY <3>3 DEF Submitted
  <2>4. on'[t] = Head(queue'[q])
    BY <1>2, <1>4
  <2> QED
    BY <1>2, <1>3, <1>4, <2>1, <2>2, <2>3, <2>4 DEF OneExecutionOf
<1>5. CASE p # q
  <2>1. x \notin {i \in Info : Kind[i] = q} \cup {q}
    BY <1>2, <1>5 DEF Submitted
  <2>2. /\ \A y \in {i \in Info : Kind[i] = q} \cup {q} : pending'[y] = pending[y]
        /\ \A u \in Thread \ {t} : at'[u] = at[u] /\ on'[u] = on[u]
        /\ at[t] = "idle" /\ Kind[on'[t]] = p
    BY <1>2, <2>1
  <2>3. Submitted(q)' = Submitted(q)
    BY <2>2 DEF Submitted
  <2>4. \A y \in Submitted(q) \cup Submitted(q)' : pending'[y] = pending[y]
    BY <2>2 DEF Submitted
  <2>5. Busy(q)' = Busy(q) /\ \A u \in Busy(q) : on'[u] = on[u]
    BY <1>5, <2>2 DEF Busy
  <2> QED
    BY <1>1, <1>2, <1>3, <2>3, <2>4, <2>5, ExecFrame
<1> QED
  BY <1>4, <1>5

\* An exception: the queue keeps its head and has no execution any more.
LEMMA ExecFail ==
  ASSUME TypeOK, Owned, OneExecution, NEW q \in Queue, NEW t \in Thread, Fail(t)
  PROVE  OneExecutionOf(q)'
<1> USE KindFacts DEF TypeOK, Inside, Goto
<1>1. OneExecutionOf(q)
  BY DEF OneExecution
<1>2. /\ on[t] \in Info /\ at[t] \in {"search", "create"}
      /\ failed' = failed \cup {on[t]}
      /\ on' = [on EXCEPT ![t] = NoInfo]
      /\ at' = [at EXCEPT ![t] = "idle"]
      /\ UNCHANGED <<queue, pending>>
  BY DEF Fail, Owned
<1>3. Submitted(q)' = Submitted(q)
  BY <1>2 DEF Submitted
<1>4. CASE Kind[on[t]] = q
  <2>1. t \in Busy(q)
    BY <1>2, <1>4 DEF Busy
  <2>2. queue[q] # <<>> /\ Submitted(q) = {} /\ Busy(q) = {t}
    BY <1>1, <2>1 DEF OneExecutionOf
  <2>3. Busy(q)' = {}
    BY <1>2, <2>2 DEF Busy
  <2>4. Stuck(q)'
    BY <1>2, <1>4 DEF Stuck
  <2> QED
    BY <1>2, <1>3, <2>2, <2>3, <2>4 DEF OneExecutionOf
<1>5. CASE Kind[on[t]] # q
  <2>1. Busy(q)' = Busy(q) /\ \A u \in Busy(q) : on'[u] = on[u]
    BY <1>2, <1>5 DEF Busy
  <2>2. Stuck(q)' <=> Stuck(q)
    BY <1>2, <1>5 DEF Stuck
  <2>3. \A x \in Submitted(q) \cup Submitted(q)' : pending'[x] = pending[x]
    BY <1>2
  <2> QED
    BY <1>1, <1>2, <1>3, <2>1, <2>2, <2>3, ExecFrame
<1> QED
  BY <1>4, <1>5

\* The end of process(): the head goes, and the queue is submitted for the rest.
LEMMA ExecPoll ==
  ASSUME TypeOK, Owned, OneExecution, NEW q \in Queue, NEW t \in Thread, Poll(t)
  PROVE  OneExecutionOf(q)'
<1> USE KindFacts DEF TypeOK, Inside
<1> DEFINE p == Kind[on[t]]
           rest == IF queue[p] = <<>> THEN <<>> ELSE Tail(queue[p])
<1>1. OneExecutionOf(q) /\ p \in Queue
  BY DEF OneExecution, Owned, Poll
<1>2. /\ at[t] = "poll" /\ on' = [on EXCEPT ![t] = NoInfo]
      /\ queue' = [queue EXCEPT ![p] = rest]
      /\ failed' = failed
      /\ IF rest = <<>> THEN Goto(t, "idle") /\ UNCHANGED pending
                        ELSE Goto(t, "waiting") /\ Submit(p)
  BY Zenon DEF Poll
<1> HIDE DEF rest
<1>3. Stuck(q)' <=> Stuck(q)
  BY <1>2 DEF Stuck
<1>4. at' = [at EXCEPT ![t] = "idle"] \/ at' = [at EXCEPT ![t] = "waiting"]
  BY <1>2 DEF Goto
<1>5. CASE p = q
  <2>1. t \in Busy(q)
    BY <1>2, <1>5 DEF Busy
  <2>2. Submitted(q) = {} /\ Busy(q) = {t} /\ ~Stuck(q)
    BY <1>1, <2>1 DEF OneExecutionOf
  <2>3. Busy(q)' = {}
    BY <1>2, <1>4, <2>2 DEF Busy
  <2>4. queue'[q] = rest
    BY <1>1, <1>2, <1>5
  <2>5. CASE rest = <<>>
    <3>1. Submitted(q)' = {}
      BY <1>2, <2>2, <2>5 DEF Submitted
    <3> QED
      BY <1>3, <2>2, <2>3, <2>4, <2>5, <3>1 DEF OneExecutionOf
  <2>6. CASE rest # <<>>
    <3>1. pending' = [pending EXCEPT ![q] = @ + 1]
      BY <1>2, <1>5, <2>6 DEF Submit
    <3>2. pending[q] = 0
      BY <2>2 DEF Submitted
    <3>3. Submitted(q)' = {q} /\ pending'[q] = 1
      BY <2>2, <3>1, <3>2 DEF Submitted
    <3> QED
      BY <1>3, <2>2, <2>3, <2>4, <2>6, <3>3 DEF OneExecutionOf
  <2> QED
    BY <2>5, <2>6
<1>6. CASE p # q
  <2>1. Busy(q)' = Busy(q) /\ \A u \in Busy(q) : on'[u] = on[u]
    BY <1>2, <1>4, <1>6 DEF Busy
  <2>2. \A x \in {i \in Info : Kind[i] = q} \cup {q} : pending'[x] = pending[x]
    BY <1>1, <1>2, <1>6 DEF Submit
  <2>3. Submitted(q)' = Submitted(q)
    BY <2>2 DEF Submitted
  <2>4. \A x \in Submitted(q) \cup Submitted(q)' : pending'[x] = pending[x]
    BY <2>2 DEF Submitted
  <2>5. queue'[q] = queue[q]
    BY <1>2, <1>6
  <2> QED
    BY <1>1, <1>3, <2>1, <2>3, <2>4, <2>5, ExecFrame
<1> QED
  BY <1>5, <1>6

\* A step of process() between lock() and pollFirst() is not seen by the queues.
LEMMA ExecInside ==
  ASSUME TypeOK, OneExecution, NEW q \in Queue, NEW t \in Thread,
         at[t] \in Inside, \E place \in Inside \cup {"poll"} : Goto(t, place),
         UNCHANGED <<queue, pending, on, failed>>
  PROVE  OneExecutionOf(q)'
<1>1. OneExecutionOf(q)
  BY DEF OneExecution
<1>2. Busy(q)' = Busy(q)
  BY DEF Busy, Goto, TypeOK
<1>3. Stuck(q)' <=> Stuck(q)
  BY DEF Stuck
<1>4. Submitted(q)' = Submitted(q)
  BY DEF Submitted
<1> QED
  BY <1>1, <1>2, <1>3, <1>4, ExecFrame

LEMMA ExecStep ==
  ASSUME TypeOK, Owned, OneExecution, [Next]_vars
  PROVE  OneExecution'
<1> SUFFICES ASSUME NEW q \in Queue PROVE OneExecutionOf(q)'
  BY DEF OneExecution
<1>1. ASSUME UNCHANGED <<queue, pending, on, failed>>, Busy(q)' = Busy(q) PROVE OneExecutionOf(q)'
  <2>1. OneExecutionOf(q)
    BY DEF OneExecution
  <2>2. (Stuck(q)' <=> Stuck(q)) /\ Submitted(q)' = Submitted(q)
    BY <1>1 DEF Stuck, Submitted
  <2> QED
    BY <1>1, <2>1, <2>2, ExecFrame
<1>2. ASSUME NEW f \in File, Arrive(f) PROVE OneExecutionOf(q)'
  BY <1>1, <1>2 DEF Arrive, Busy, threads
<1>3. ASSUME NEW i \in Info, CallQueue(i) PROVE OneExecutionOf(q)'
  BY <1>3, ExecQueue
<1>4. ASSUME NEW t \in Thread, NEW x \in Info \cup Queue, Begin(t, x) PROVE OneExecutionOf(q)'
  BY <1>4, ExecBegin
<1>5. ASSUME NEW t \in Thread, Search(t) \/ Claim(t) \/ Create(t) \/ Release(t)
      PROVE  OneExecutionOf(q)'
  <2>1. /\ at[t] \in Inside
        /\ \E place \in Inside \cup {"poll"} : Goto(t, place)
        /\ UNCHANGED <<queue, pending, on, failed>>
    BY <1>5 DEF Search, Claim, Create, Release, Inside
  <2> QED
    BY <2>1, ExecInside
<1>6. ASSUME NEW t \in Thread, Fail(t) PROVE OneExecutionOf(q)'
  BY <1>6, ExecFail
<1>7. ASSUME NEW t \in Thread, Poll(t) PROVE OneExecutionOf(q)'
  BY <1>7, ExecPoll
<1>8. ASSUME NEW t \in Thread, Resume(t) PROVE OneExecutionOf(q)'
  BY <1>1, <1>8 DEF Resume, Busy, Goto, TypeOK, Inside
<1>9. CASE UNCHANGED vars
  BY <1>1, <1>9 DEF vars, Busy
<1> QED
  BY <1>2, <1>3, <1>4, <1>5, <1>6, <1>7, <1>8, <1>9 DEF Next, Process

-----------------------------------------------------------------------------
(* The files in process.                                                   *)

LEMMA ClaimStep ==
  ASSUME TypeOK, Owned, OneExecution, Claimed, FileExclusive, [Next]_vars
  PROVE  Claimed' /\ FileExclusive'
<1> USE DEF TypeOK, Claimed, FileExclusive, Goto, threads, callers
<1>1. ASSUME NEW f \in File, Arrive(f) PROVE Claimed' /\ FileExclusive'
  BY <1>1 DEF Arrive
<1>2. ASSUME NEW i \in Info, CallQueue(i) PROVE Claimed' /\ FileExclusive'
  BY <1>2 DEF CallQueue
<1>3. ASSUME NEW t \in Thread, NEW x \in Info \cup Queue, Begin(t, x)
      PROVE  Claimed' /\ FileExclusive'
  <2>1. at' = [at EXCEPT ![t] = "search"] /\ UNCHANGED <<tiles, processing, mine>>
    BY <1>3, BeginHead
  <2> QED
    BY <2>1
<1>4. ASSUME NEW t \in Thread, Search(t) PROVE Claimed' /\ FileExclusive'
  BY <1>4 DEF Search
<1>5. ASSUME NEW t \in Thread, Claim(t) PROVE Claimed' /\ FileExclusive'
  <2>1. /\ at' = [at EXCEPT ![t] = "create"]
        /\ mine' = [mine EXCEPT ![t] = @ \ processing]
        /\ processing' = processing \cup mine[t] /\ tiles' = tiles
    BY <1>5 DEF Claim
  <2>2. /\ mine'[t] \subseteq processing' /\ mine'[t] \cap processing = {}
        /\ at'[t] = "create"
        /\ \A u \in Thread \ {t} : at'[u] = at[u] /\ mine'[u] = mine[u]
    BY <2>1
  <2>3. Claimed'
    BY <2>1, <2>2
  <2>4. FileExclusive'
    BY <2>2
  <2> QED
    BY <2>3, <2>4
<1>6. ASSUME NEW t \in Thread, Create(t) PROVE Claimed' /\ FileExclusive'
  <2>1. /\ at[t] = "create" /\ at' = [at EXCEPT ![t] = "release"]
        /\ tiles' = tiles \cup mine[t] /\ mine' = mine /\ processing' = processing
    BY <1>6 DEF Create
  <2> QED
    BY <2>1
<1>7. ASSUME NEW t \in Thread, Release(t) PROVE Claimed' /\ FileExclusive'
  <2>1. /\ at[t] = "release" /\ at' = [at EXCEPT ![t] = "poll"]
        /\ mine' = [mine EXCEPT ![t] = {}]
        /\ processing' = processing \ mine[t] /\ tiles' = tiles
    BY <1>7 DEF Release
  <2> QED
    BY <2>1
<1>8. ASSUME NEW t \in Thread, Fail(t) PROVE Claimed' /\ FileExclusive'
  <2>1. /\ at' = [at EXCEPT ![t] = "idle"] /\ mine' = [mine EXCEPT ![t] = {}]
        /\ processing' = processing /\ tiles \subseteq tiles'
    BY <1>8 DEF Fail
  <2> QED
    BY <2>1
<1>9. ASSUME NEW t \in Thread, Poll(t) PROVE Claimed' /\ FileExclusive'
  <2>1. /\ at' = [at EXCEPT ![t] = "idle"] \/ at' = [at EXCEPT ![t] = "waiting"]
        /\ UNCHANGED <<tiles, processing, mine>>
    BY <1>9 DEF Poll
  <2> QED
    BY <2>1
<1>10. ASSUME NEW t \in Thread, Resume(t) PROVE Claimed' /\ FileExclusive'
  BY <1>10 DEF Resume
<1>11. CASE UNCHANGED vars
  BY <1>11 DEF vars
<1> QED
  BY <1>1, <1>2, <1>3, <1>4, <1>5, <1>6, <1>7, <1>8, <1>9, <1>10, <1>11 DEF Next, Process

\* What a step may do to the elements and the tiles without undoing progress.
LEMMA ProgressFrame ==
  ASSUME TypeOK, Owned, Progress, NEW t \in Thread,
         \A u \in Thread \ {t} : at'[u] = at[u] /\ on'[u] = on[u] /\ mine'[u] = mine[u],
         tiles \cup processing \subseteq tiles' \cup processing',
         seen' = seen, failed \subseteq failed', locked' = locked,
         at'[t] = "claim" => seen[on'[t]] \cap Wanted[on'[t]] \subseteq mine'[t],
         at'[t] \in {"create", "release"} =>
           seen[on'[t]] \cap Wanted[on'[t]] \subseteq tiles' \cup processing',
         \A i \in locked \ failed' : Holders(i)' = {} =>
           Holders(i) = {} \/ Covered(i)'
  PROVE  Progress'
<1>1. \A i \in locked : Covered(i) => Covered(i)'
  BY DEF Covered
<1>2. ASSUME NEW u \in Thread
      PROVE  /\ at'[u] = "claim" => seen'[on'[u]] \cap Wanted[on'[u]] \subseteq mine'[u]
             /\ at'[u] \in {"create", "release"} =>
                  seen'[on'[u]] \cap Wanted[on'[u]] \subseteq tiles' \cup processing'
  <2>1. CASE u = t
    BY <2>1
  <2>2. CASE u # t
    <3>1. at'[u] = at[u] /\ on'[u] = on[u] /\ mine'[u] = mine[u]
      BY <2>2
    <3>2. at'[u] = "claim" => seen'[on'[u]] \cap Wanted[on'[u]] \subseteq mine'[u]
      BY <3>1 DEF Progress
    <3>3. at'[u] \in {"create", "release"} =>
            seen'[on'[u]] \cap Wanted[on'[u]] \subseteq tiles' \cup processing'
      BY <3>1 DEF Progress, Covered
    <3> QED
      BY <3>2, <3>3
  <2> QED
    BY <2>1, <2>2
<1>3. ASSUME NEW i \in locked', Holders(i)' = {}, i \notin failed' PROVE Covered(i)'
  BY <1>1, <1>3 DEF Progress
<1> QED
  BY <1>2, <1>3 DEF Progress, Covered

\* A step that leaves all of it alone.
LEMMA ProgressUnchanged ==
  ASSUME Progress, UNCHANGED <<tiles, processing, at, on, mine, locked, failed>>,
         \A i \in locked : seen'[i] = seen[i],
         \A t \in Thread : at[t] \in Inside => seen'[on[t]] = seen[on[t]]
  PROVE  Progress'
<1>1. \A i \in locked : Holders(i)' = Holders(i) /\ (Covered(i) => Covered(i)')
  BY DEF Holders, Covered
<1>2. ASSUME NEW t \in Thread
      PROVE  /\ at'[t] = "claim" => seen'[on'[t]] \cap Wanted[on'[t]] \subseteq mine'[t]
             /\ at'[t] \in {"create", "release"} =>
                  seen'[on'[t]] \cap Wanted[on'[t]] \subseteq tiles' \cup processing'
  BY DEF Progress, Covered, Inside
<1>3. ASSUME NEW i \in locked', Holders(i)' = {}, i \notin failed' PROVE Covered(i)'
  BY <1>1, <1>3 DEF Progress
<1> QED
  BY <1>2, <1>3 DEF Progress, Covered

LEMMA ProgressStep ==
  ASSUME TypeOK, Owned, OneExecution, Claimed, Progress, [Next]_vars
  PROVE  Progress'
<1> USE KindFacts DEF TypeOK, Inside, Goto, threads, callers
<1>1. ASSUME NEW f \in File, Arrive(f) PROVE Progress'
  BY <1>1, ProgressUnchanged DEF Arrive
<1>2. ASSUME NEW i \in Info, CallQueue(i) PROVE Progress'
  <2>1. /\ UNCHANGED <<at, on, mine, locked, tiles, processing, failed>>
        /\ seen' = [seen EXCEPT ![lock'[i]] = IF lock'[i] = i THEN archive ELSE @]
        /\ lock[i] = NoInfo
    BY <1>2 DEF CallQueue
  <2>2. i \notin locked
    BY <2>1 DEF Owned
  <2>3. lock'[i] \in Info
    BY <1>2, EnqueueType DEF CallQueue
  <2>4. \A j \in Info \ {i} : seen'[j] = seen[j]
    BY <2>1, <2>3
  <2>5. \A j \in locked : seen'[j] = seen[j]
    BY <2>2, <2>4
  <2>6. ASSUME NEW t \in Thread, at[t] \in Inside PROVE seen'[on[t]] = seen[on[t]]
    BY <2>5, <2>6 DEF Owned
  <2> QED
    BY <2>1, <2>5, <2>6, ProgressUnchanged
<1>3. ASSUME NEW t \in Thread, NEW x \in Info \cup Queue, Begin(t, x) PROVE Progress'
  <2>1. PICK i \in Info :
          /\ on' = [on EXCEPT ![t] = i] /\ at' = [at EXCEPT ![t] = "search"]
          /\ locked' = locked \cup {i} /\ at[t] = "idle"
          /\ UNCHANGED <<tiles, processing, mine, seen, failed>>
    BY <1>3, BeginHead
  <2>2. t \in Holders(i)'
    BY <2>1 DEF Holders
  <2>3. \A j \in Info : Holders(j)' = {} => Holders(j) = {}
    BY <2>1 DEF Holders
  <2> QED
    BY <2>1, <2>2, <2>3 DEF Progress, Covered
<1>4. ASSUME NEW t \in Thread, Search(t) PROVE Progress'
  <2>1. /\ at[t] = "search" /\ at' = [at EXCEPT ![t] = "claim"]
        /\ mine' = [mine EXCEPT ![t] = archive \cap Wanted[on[t]]]
        /\ UNCHANGED <<tiles, processing, on, locked, seen, failed>>
    BY <1>4 DEF Search
  <2>2. on[t] \in Info
    BY <2>1 DEF Owned
  <2>3. seen[on[t]] \cap Wanted[on[t]] \subseteq mine'[t]
    BY <2>1, <2>2
  <2>4. \A i \in locked : Holders(i)' = Holders(i)
    BY <2>1 DEF Holders
  <2> QED
    BY <2>1, <2>3, <2>4, ProgressFrame
<1>5. ASSUME NEW t \in Thread, Claim(t) PROVE Progress'
  <2>1. /\ at[t] = "claim" /\ at' = [at EXCEPT ![t] = "create"]
        /\ mine' = [mine EXCEPT ![t] = @ \ processing]
        /\ processing' = processing \cup mine[t]
        /\ UNCHANGED <<tiles, on, locked, seen, failed>>
    BY <1>5 DEF Claim
  <2>2. seen[on[t]] \cap Wanted[on[t]] \subseteq mine[t]
    BY <2>1 DEF Progress
  <2>3. \A i \in locked : Holders(i)' = Holders(i)
    BY <2>1 DEF Holders
  <2> QED
    BY <2>1, <2>2, <2>3, ProgressFrame
<1>6. ASSUME NEW t \in Thread, Create(t) PROVE Progress'
  <2>1. /\ at[t] = "create" /\ at' = [at EXCEPT ![t] = "release"]
        /\ tiles' = tiles \cup mine[t]
        /\ UNCHANGED <<processing, on, mine, locked, seen, failed>>
    BY <1>6 DEF Create
  <2>2. seen[on[t]] \cap Wanted[on[t]] \subseteq tiles \cup processing
    BY <2>1 DEF Progress, Covered
  <2>3. \A i \in locked : Holders(i)' = Holders(i)
    BY <2>1 DEF Holders
  <2> QED
    BY <2>1, <2>2, <2>3, ProgressFrame
<1>7. ASSUME NEW t \in Thread, Release(t) PROVE Progress'
  <2>1. /\ at[t] = "release" /\ at' = [at EXCEPT ![t] = "poll"]
        /\ processing' = processing \ mine[t]
        /\ mine' = [mine EXCEPT ![t] = {}]
        /\ UNCHANGED <<tiles, on, locked, seen, failed>>
    BY <1>7 DEF Release
  <2>2. tiles \cup processing \subseteq tiles' \cup processing'
    BY <2>1 DEF Claimed
  <2>3. Covered(on[t])
    BY <2>1 DEF Progress
  <2>4. ASSUME NEW i \in locked, i # on[t] PROVE Holders(i)' = Holders(i)
    BY <2>1, <2>4 DEF Holders
  <2>5. on[t] \in locked => Covered(on[t]) /\ seen'[on[t]] = seen[on[t]]
    BY <2>1, <2>3
  <2>6. ASSUME NEW i \in locked, Holders(i)' = {} PROVE Holders(i) = {} \/ Covered(i)'
    <3>1. CASE i = on[t]
      BY <2>1, <2>2, <2>3, <3>1 DEF Covered
    <3>2. CASE i # on[t]
      BY <2>4, <2>6, <3>2
    <3> QED
      BY <3>1, <3>2
  <2> QED
    BY <2>1, <2>2, <2>6, ProgressFrame
<1>8. ASSUME NEW t \in Thread, Fail(t) PROVE Progress'
  <2>1. /\ at[t] \in Inside /\ at' = [at EXCEPT ![t] = "idle"]
        /\ on' = [on EXCEPT ![t] = NoInfo] /\ mine' = [mine EXCEPT ![t] = {}]
        /\ failed' = failed \cup {on[t]} /\ tiles \subseteq tiles'
        /\ UNCHANGED <<processing, locked, seen>>
    BY <1>8 DEF Fail
  <2>2. \A i \in locked \ failed' : Holders(i)' = Holders(i)
    BY <2>1 DEF Holders
  <2> QED
    BY <2>1, <2>2, ProgressFrame
<1>9. ASSUME NEW t \in Thread, Poll(t) PROVE Progress'
  <2>1. /\ at[t] = "poll" /\ on' = [on EXCEPT ![t] = NoInfo]
        /\ at' = [at EXCEPT ![t] = "idle"] \/ at' = [at EXCEPT ![t] = "waiting"]
        /\ UNCHANGED <<tiles, processing, mine, locked, seen, failed>>
    BY <1>9 DEF Poll
  <2>2. \A i \in locked : Holders(i)' = Holders(i)
    BY <2>1 DEF Holders
  <2> QED
    BY <2>1, <2>2, ProgressFrame
<1>10. ASSUME NEW t \in Thread, Resume(t) PROVE Progress'
  <2>1. /\ at[t] = "waiting" /\ at' = [at EXCEPT ![t] = "idle"]
        /\ UNCHANGED <<tiles, processing, on, mine, locked, seen, failed>>
    BY <1>10 DEF Resume
  <2>2. \A i \in locked : Holders(i)' = Holders(i)
    BY <2>1 DEF Holders
  <2> QED
    BY <2>1, <2>2, ProgressFrame
<1>11. CASE UNCHANGED vars
  BY <1>11, ProgressUnchanged DEF vars
<1> QED
  BY <1>1, <1>2, <1>3, <1>4, <1>5, <1>6, <1>7, <1>8, <1>9, <1>10, <1>11 DEF Next, Process

-----------------------------------------------------------------------------
(* The invariant and what follows from it.                                 *)

\* The writer starts with nothing queued, nothing in process and no failure.
LEMMA InitIInv ==
  Init => IInv
<1> SUFFICES ASSUME Init PROVE IInv
  OBVIOUS
<1> USE KindFacts DEF Init
<1>1. TypeOK
  BY DEF TypeOK, Inside
<1>2. Owned
  BY DEF Owned, Inside
<1>3. OneExecution
  <2> SUFFICES ASSUME NEW q \in Queue PROVE OneExecutionOf(q)
    BY DEF OneExecution
  <2>1. Busy(q) = {} /\ Submitted(q) = {} /\ ~Stuck(q) /\ queue[q] = <<>>
    BY DEF Busy, Submitted, Stuck, Inside
  <2> QED
    BY <2>1 DEF OneExecutionOf
<1>4. Claimed /\ FileExclusive /\ Progress
  BY DEF Claimed, FileExclusive, Progress
<1> QED
  BY <1>1, <1>2, <1>3, <1>4 DEF IInv

\* The inductive invariant of the writer.
THEOREM Invariance ==
  Spec => []IInv
<1>1. IInv /\ [Next]_vars => IInv'
  BY TypeStep, OwnedStep, ExecStep, ClaimStep, ProgressStep DEF IInv
<1> QED
  BY <1>1, InitIInv, PTL DEF Spec

\* Whatever is requested or collected, the writer's state keeps its shape: no
\* archive file is in process, and no tile file is there, without having arrived.
THEOREM TypeCorrect ==
  Spec => []TypeOK
<1>1. IInv => TypeOK
  BY DEF IInv
<1> QED
  BY <1>1, Invariance, PTL

\* Each of the two queues has at most one execution, for its head, and a queue that
\* is not empty always has one unless an exception ended it.
THEOREM ExecutionsAreSingle ==
  Spec => []OneExecution
<1>1. IInv => OneExecution
  BY DEF IInv
<1> QED
  BY <1>1, Invariance, PTL

\* No archive file is in the hands of two executions.
THEOREM FilesAreExclusive ==
  Spec => []FileExclusive
<1>1. IInv => FileExclusive
  BY DEF IInv
<1> QED
  BY <1>1, Invariance, PTL

\* A caller that gets a lock which has been locked finds its files written, in
\* process for the other queue, or its element failed.
THEOREM LocksTell ==
  Spec => []LockTells
<1>1. IInv => LockTells
  BY DEF IInv, LockTells, Over, Progress, Covered
<1> QED
  BY <1>1, Invariance, PTL

=============================================================================
