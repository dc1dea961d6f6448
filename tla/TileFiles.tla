------------------------------- MODULE TileFiles -------------------------------
(***************************************************************************)
(* imrcp.collect.TileFileWriter: one writer of tile files.  It works       *)
(* through two queues, one of files that were just collected (real time)   *)
(* and one of requests of TileObsView.getData(), each with at most one     *)
(* execution of process() at a time in the pool; the two share the set of  *)
(* archive files in process.  Each element of a queue has a lock that is   *)
(* held while it is processed and remembers that it has been               *)
(* (OneTimeReentrantLock): by it getData() knows when to look again.       *)
(*                                                                         *)
(* wait(1000) and tryLock(20 s) may end at any time; notify() only makes   *)
(* the first end earlier and is therefore not a step.  An archive file and *)
(* the tile file made from it have the same name.                          *)
(***************************************************************************)
EXTENDS Sequences, Integers

CONSTANTS
  Info,     \* the calls of queue(), one TileFileInfo each
  File,     \* archive files of the writer
  Thread,   \* pool threads
  Kind,     \* [Info -> Queue]: m_bRequest
  Key,      \* [Info -> keys]: what TileFileInfo.compareTo() compares
  Wanted,   \* [Info -> SUBSET File]: the files its times match
  MayFail,  \* the infos whose processing may end with an exception
  NoInfo

Queue == {"requests", "realTime"}

ASSUME TileFilesAssumption ==
  /\ Info \cap Queue = {} /\ NoInfo \notin Info
  /\ Kind \in [Info -> Queue]
  /\ Wanted \in [Info -> SUBSET File]
  /\ DOMAIN Key = Info
  /\ MayFail \subseteq Info

VARIABLES
  archive,    \* files that have been downloaded
  tiles,      \* tile files that have been written
  queue,      \* [Queue -> Seq(Info)]: m_oQueue and m_oRealTime
  processing, \* m_oProcessing
  pending,    \* [Info \cup Queue -> Nat]: lambdas the pool has not begun,
              \* process(oInfo) by its info, process(peekFirst()) by its queue
  at,         \* [Thread -> where process() is]
  on,         \* [Thread -> Info]: its parameter oInfo
  mine,       \* [Thread -> SUBSET File]: oArchiveFiles, then oProcess
  locked,     \* infos whose lock has been locked: hasBeenLocked()
  lock,       \* [Info -> Info]: whose lock queue() returned; NoInfo before
  seen,       \* history: [Info -> archive when queue() put it into its queue]
  failed      \* history: infos whose process() ended with an exception

vars == <<archive, tiles, queue, processing, pending, at, on, mine, locked,
          lock, seen, failed>>

Init ==
  /\ archive = {} /\ tiles = {}
  /\ queue = [q \in Queue |-> <<>>]
  /\ processing = {}
  /\ pending = [x \in Info \cup Queue |-> 0]
  /\ at = [t \in Thread |-> "idle"]
  /\ on = [t \in Thread |-> NoInfo]
  /\ mine = [t \in Thread |-> {}]
  /\ locked = {}
  /\ lock = [i \in Info |-> NoInfo]
  /\ seen = [i \in Info |-> {}]
  /\ failed = {}

threads == <<at, on, mine>>
callers == <<lock, seen>>

Submit(x) == pending' = [pending EXCEPT ![x] = @ + 1]

Elements(q) == {queue[q][k] : k \in DOMAIN queue[q]}

\* The places between lock() and unlock() in process().
Inside == {"search", "claim", "create", "release"}

Holders(i) == {t \in Thread : on[t] = i /\ at[t] \in Inside}

-----------------------------------------------------------------------------
(* The callers: collectors for a file they have just downloaded, and       *)
(* getData() for an interval without tile file.                            *)

Arrive(f) ==
  /\ f \notin archive
  /\ archive' = archive \cup {f}
  /\ UNCHANGED <<tiles, queue, processing, pending, threads, locked, callers, failed>>

Equal(i) == {k \in DOMAIN queue[Kind[i]] : Key[queue[Kind[i]][k]] = Key[i]}

Enqueue_Always(i) ==
  /\ Equal(i) = {}
  /\ lock' = [lock EXCEPT ![i] = i]
  /\ queue' = [queue EXCEPT ![Kind[i]] = Append(@, i)]
  /\ Submit(i)

\* The monitor section of queue(): the lock of the first equal element, or a new
\* element, which is executed at once if it is the only one.
Enqueue(i) ==
  LET q == Kind[i] IN
  \/ /\ \E k \in Equal(i) : /\ \A n \in Equal(i) : k <= n
                            /\ lock' = [lock EXCEPT ![i] = queue[q][k]]
     /\ UNCHANGED <<queue, pending>>
  \/ /\ Equal(i) = {}
     /\ lock' = [lock EXCEPT ![i] = i]
     /\ queue' = [queue EXCEPT ![q] = Append(@, i)]
     /\ IF queue[q] = <<>> THEN Submit(i) ELSE UNCHANGED pending

CallQueue(i) ==
  /\ lock[i] = NoInfo
  /\ IF Kind[i] = "realTime" THEN Wanted[i] \subseteq archive
                             ELSE Wanted[i] \cap tiles = {}
  /\ Enqueue(i)
  /\ seen' = [seen EXCEPT ![lock'[i]] = IF lock'[i] = i THEN archive ELSE @]
  /\ UNCHANGED <<archive, tiles, processing, threads, locked, failed>>

\* getData() finds that the lock of its element is or was locked, gets it with
\* tryLock(), gives it back at once and searches the interval again.
Over_Queued(i) == lock[i] # NoInfo /\ Holders(lock[i]) = {}

Over(i) == lock[i] \in locked /\ Holders(lock[i]) = {}

-----------------------------------------------------------------------------
(* process(oInfo), executed by the pool.                                   *)

Goto(t, place) == at' = [at EXCEPT ![t] = place]

\* The parameter is evaluated by the lambda: an empty queue would give null,
\* and process(null) fails at once.  lock() waits for another holder.
Begin(t, x) ==
  /\ at[t] = "idle"
  /\ pending[x] > 0
  /\ pending' = [pending EXCEPT ![x] = @ - 1]
  /\ IF x \in Queue /\ queue[x] = <<>>
       THEN UNCHANGED <<at, on, locked>>
       ELSE LET i == IF x \in Queue THEN Head(queue[x]) ELSE x
            IN /\ Holders(i) = {}
               /\ on' = [on EXCEPT ![t] = i]
               /\ locked' = locked \cup {i}
               /\ Goto(t, "search")
  /\ UNCHANGED <<archive, tiles, queue, processing, mine, callers, failed>>

Search_Expected(t) ==
  /\ at[t] = "search"
  /\ mine' = [mine EXCEPT ![t] = Wanted[on[t]]]
  /\ Goto(t, "claim")
  /\ UNCHANGED <<archive, tiles, queue, processing, pending, on, locked, callers, failed>>

\* TileObsView.searchArchive(), before the monitor of m_oProcessing is entered.
Search(t) ==
  /\ at[t] = "search"
  /\ mine' = [mine EXCEPT ![t] = archive \cap Wanted[on[t]]]
  /\ Goto(t, "claim")
  /\ UNCHANGED <<archive, tiles, queue, processing, pending, on, locked, callers, failed>>

Claim_All(t) ==
  /\ at[t] = "claim"
  /\ processing' = processing \cup mine[t]
  /\ Goto(t, "create")
  /\ UNCHANGED <<archive, tiles, queue, pending, on, mine, locked, callers, failed>>

Claim(t) ==
  /\ at[t] = "claim"
  /\ mine' = [mine EXCEPT ![t] = @ \ processing]
  /\ processing' = processing \cup mine[t]
  /\ Goto(t, "create")
  /\ UNCHANGED <<archive, tiles, queue, pending, on, locked, callers, failed>>

\* createFiles() returns.
Create(t) ==
  /\ at[t] = "create"
  /\ tiles' = tiles \cup mine[t]
  /\ Goto(t, "release")
  /\ UNCHANGED <<archive, queue, processing, pending, on, mine, locked, callers, failed>>

\* The files are free for the other queue, and then the lock for the callers.
Release(t) ==
  /\ at[t] = "release"
  /\ processing' = processing \ mine[t]
  /\ mine' = [mine EXCEPT ![t] = {}]
  /\ Goto(t, "poll")
  /\ UNCHANGED <<archive, tiles, queue, pending, on, locked, callers, failed>>

\* An exception in the search or in createFiles(), which may have written some
\* of its files: finally unlocks, and nothing else is done.
Fail(t) ==
  /\ at[t] \in {"search", "create"}
  /\ on[t] \in MayFail
  /\ \E made \in SUBSET mine[t] :
       tiles' = IF at[t] = "create" THEN tiles \cup made ELSE tiles
  /\ failed' = failed \cup {on[t]}
  /\ mine' = [mine EXCEPT ![t] = {}]
  /\ on' = [on EXCEPT ![t] = NoInfo]
  /\ Goto(t, "idle")
  /\ UNCHANGED <<archive, queue, processing, pending, locked, callers>>

Poll_NoNext(t) ==
  LET q == Kind[on[t]] IN
  /\ at[t] = "poll"
  /\ queue' = [queue EXCEPT ![q] = IF @ = <<>> THEN @ ELSE Tail(@)]
  /\ Goto(t, "idle")
  /\ on' = [on EXCEPT ![t] = NoInfo]
  /\ UNCHANGED <<archive, tiles, processing, pending, mine, locked, callers, failed>>

\* The last monitor section: pollFirst(), and the next execution if needed.
Poll(t) ==
  LET q == Kind[on[t]]
      rest == IF queue[q] = <<>> THEN <<>> ELSE Tail(queue[q])
  IN /\ at[t] = "poll"
     /\ queue' = [queue EXCEPT ![q] = rest]
     /\ IF rest = <<>> THEN Goto(t, "idle") /\ UNCHANGED pending
                       ELSE Goto(t, "waiting") /\ Submit(q)
     /\ on' = [on EXCEPT ![t] = NoInfo]
     /\ UNCHANGED <<archive, tiles, processing, mine, locked, callers, failed>>

\* wait(1000) is over, and the thread goes back to the pool.
Resume(t) ==
  /\ at[t] = "waiting"
  /\ Goto(t, "idle")
  /\ UNCHANGED <<archive, tiles, queue, processing, pending, on, mine, locked,
                 callers, failed>>

Process(t) ==
  Search(t) \/ Claim(t) \/ Create(t) \/ Release(t) \/ Poll(t) \/ Resume(t)

-----------------------------------------------------------------------------

Next ==
  \/ \E f \in File : Arrive(f)
  \/ \E i \in Info : CallQueue(i)
  \/ \E t \in Thread : Process(t) \/ Fail(t) \/ (\E x \in Info \cup Queue : Begin(t, x))

\* The pool begins the execution of process() that queue q waits for.
BeginFor(q) ==
  \E t \in Thread, x \in {i \in Info : Kind[i] = q} \cup {q} : Begin(t, x)

\* What was given to the pool is begun some time; process() and its timed wait go
\* on.  Nothing forces a call.
Fairness ==
  /\ \A q \in Queue : SF_vars(BeginFor(q))
  /\ \A t \in Thread : WF_vars(Process(t))

Spec == Init /\ [][Next]_vars /\ Fairness

-----------------------------------------------------------------------------

\* Shape of the writer's fields and of the places of its threads and callers.
TypeOK ==
  /\ archive \subseteq File /\ tiles \subseteq archive
  /\ processing \subseteq archive
  /\ queue \in [Queue -> Seq(Info)]
  /\ pending \in [Info \cup Queue -> Nat]
  /\ at \in [Thread -> Inside \cup {"idle", "poll", "waiting"}]
  /\ on \in [Thread -> Info \cup {NoInfo}]
  /\ mine \in [Thread -> SUBSET archive]
  /\ {locked, failed} \subseteq SUBSET Info
  /\ lock \in [Info -> Info \cup {NoInfo}]
  /\ seen \in [Info -> SUBSET archive]

\* Who is on the way to take the head of queue q away.
Busy(q) == {t \in Thread : at[t] \in Inside \cup {"poll"} /\ Kind[on[t]] = q}
Submitted(q) == {x \in {i \in Info : Kind[i] = q} \cup {q} : pending[x] > 0}

Stuck(q) == \E i \in failed : Kind[i] = q

OneExecutionOf(q) ==
  /\ \A t \in Busy(q) : queue[q] # <<>> /\ on[t] = Head(queue[q])
  /\ \A x \in Submitted(q) :
       queue[q] # <<>> /\ pending[x] = 1 /\ (x # q => x = Head(queue[q]))
  /\ \A t, u \in Busy(q) : t = u
  /\ \A x, y \in Submitted(q) : x = y
  /\ Busy(q) = {} \/ Submitted(q) = {}
  /\ queue[q] # <<>> => Stuck(q) \/ Busy(q) # {} \/ Submitted(q) # {}
  /\ Stuck(q) => queue[q] # <<>> /\ Busy(q) = {} /\ Submitted(q) = {}

\* The element in process is the head of its queue, whenever peekFirst() is
\* evaluated; a queue never has two executions; and one that is not empty has
\* one, unless an exception ended it: then it has none any more, for good.
OneExecution == \A q \in Queue : OneExecutionOf(q)

\* An archive file is never in the hands of two executions, though real-time
\* files and requests are processed at the same time.
FileExclusive ==
  \A t, u \in Thread :
    t # u /\ at[t] \in {"create", "release"} /\ at[u] \in {"create", "release"}
      => mine[t] \cap mine[u] = {}

\* getData() found that the lock had been locked and got it: from then on the element
\* has been processed, and every file that was there when it was queued has its
\* tile file, except one that an execution for the other queue has in process.
LockTells ==
  \A i \in Info : Over(i) =>
    \/ lock[i] \in failed
    \/ seen[lock[i]] \cap Wanted[lock[i]] \subseteq tiles \cup processing

\* Every element of a queue is processed, unless an exception gets in the way.
AllProcessed ==
  \A i \in Info : (i \in Elements(Kind[i])) ~> (i \notin Elements(Kind[i]) \/ Stuck(Kind[i]))

=============================================================================
