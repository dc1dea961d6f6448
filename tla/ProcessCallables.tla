-------------------------- MODULE ProcessCallables --------------------------
(***************************************************************************)
(* imrcp.system.Scheduling.processCallables(): a block splits its work     *)
(* into callables (one per map tile) and runs them in the shared thread    *)
(* pool, nThreadsToUse at a time, from a pool thread of its own.  It polls *)
(* the futures without blocking; the pool works beside it, so what         *)
(* isDone() answers may change between two steps.  Several blocks do this  *)
(* at once on one pool (Executors.newFixedThreadPool).                     *)
(*                                                                         *)
(* A future of caller c is <<c, k>>, for the k-th submission of c.         *)
(***************************************************************************)
EXTENDS Integers, Sequences, FiniteSets

CONSTANTS
  Caller,         \* the calls of processCallables() in progress
  N,              \* number of callables in oCallables
  ThreadsToUse,   \* nThreadsToUse
  PoolThreads     \* number of threads of the pool, the callers' included

ASSUME CallablesAssumption ==
  /\ N \in Nat
  /\ ThreadsToUse \in Nat
  /\ PoolThreads \in Nat
  /\ IsFiniteSet(Caller)
  /\ Cardinality(Caller) < PoolThreads

Limit == IF ThreadsToUse = 0 THEN 1 ELSE ThreadsToUse

VARIABLES
  pc,         \* [Caller -> where processCallables() is]
  next,       \* [Caller -> position in oCallables of the first loop]
  available,  \* [Caller -> nAvailable]
  tasks,      \* [Caller -> oTasks, as submission numbers]
  todo,       \* [Caller -> oToDo]
  complete,   \* [Caller -> oComplete, as submission numbers]
  index,      \* [Caller -> nTaskIndex or nIndex]
  submitted,  \* [Caller -> the callables submitted, in order]
  pool,       \* the futures waiting for a thread, oldest first
  executing,  \* the futures whose call() is being executed
  done        \* the futures for which isDone() is true

locals == <<next, available, tasks, todo, complete, index, submitted>>
work == <<pool, executing, done>>
vars == <<pc, locals, work>>

Init ==
  /\ pc = [c \in Caller |-> IF N = 0 THEN "refill" ELSE "assign"]
  /\ next = [c \in Caller |-> 1]
  /\ available = [c \in Caller |-> Limit]
  /\ tasks = [c \in Caller |-> <<>>]
  /\ todo = [c \in Caller |-> <<>>]
  /\ complete = [c \in Caller |-> <<>>]
  /\ index = [c \in Caller |-> 0]
  /\ submitted = [c \in Caller |-> <<>>]
  /\ pool = <<>>
  /\ executing = {}
  /\ done = {}

-----------------------------------------------------------------------------

\* before is the list oTasks at the time of the submission.
Submit(c, callable, before) ==
  /\ submitted' = [submitted EXCEPT ![c] = Append(@, callable)]
  /\ tasks' = [tasks EXCEPT ![c] = Append(before, Len(submitted'[c]))]
  /\ pool' = Append(pool, <<c, Len(submitted'[c])>>)

\* Head of the first loop: submit the next callable, or keep it for later.
Assign_NoCount(c) ==
  /\ pc[c] = "assign"
  /\ IF available[c] > 0
       THEN Submit(c, next[c], tasks[c]) /\ UNCHANGED <<available, todo>>
       ELSE /\ todo' = [todo EXCEPT ![c] = Append(@, next[c])]
            /\ UNCHANGED <<available, submitted, tasks, pool>>
  /\ next' = [next EXCEPT ![c] = @ + 1]
  /\ index' = [index EXCEPT ![c] = Len(tasks'[c])]
  /\ pc' = [pc EXCEPT ![c] = "scan"]
  /\ UNCHANGED <<complete, executing, done>>

Assign(c) ==
  /\ pc[c] = "assign"
  /\ IF available[c] > 0
       THEN /\ Submit(c, next[c], tasks[c])
            /\ available' = [available EXCEPT ![c] = @ - 1]
            /\ UNCHANGED todo
       ELSE /\ todo' = [todo EXCEPT ![c] = Append(@, next[c])]
            /\ UNCHANGED <<available, submitted, tasks, pool>>
  /\ next' = [next EXCEPT ![c] = @ + 1]
  /\ index' = [index EXCEPT ![c] = Len(tasks'[c])]
  /\ pc' = [pc EXCEPT ![c] = "scan"]
  /\ UNCHANGED <<complete, executing, done>>

\* The inner loop polls each future once.  In place of a finished one it
\* submits the first callable of oToDo, which it does not take out of oToDo.
Scan_NoFree(c) ==
  /\ pc[c] = "scan" /\ index[c] > 0
  /\ index' = [index EXCEPT ![c] = @ - 1]
  /\ LET k == Head(tasks[c])
         rest == Tail(tasks[c])
     IN  IF <<c, k>> \in done
           THEN /\ complete' = [complete EXCEPT ![c] = Append(@, k)]
                /\ IF todo[c] # <<>>
                     THEN Submit(c, Head(todo[c]), rest)
                     ELSE /\ tasks' = [tasks EXCEPT ![c] = rest]
                          /\ UNCHANGED <<submitted, pool>>
           ELSE /\ tasks' = [tasks EXCEPT ![c] = Append(rest, k)]
                /\ UNCHANGED <<complete, submitted, pool>>
  /\ UNCHANGED <<pc, next, available, todo, executing, done>>

Scan_OffByOne(c) ==
  /\ pc[c] = "scan" /\ index[c] >= 0
  /\ index' = [index EXCEPT ![c] = @ - 1]
  /\ LET k == Head(tasks[c])
         rest == Tail(tasks[c])
     IN  IF <<c, k>> \in done
           THEN /\ complete' = [complete EXCEPT ![c] = Append(@, k)]
                /\ IF todo[c] # <<>>
                     THEN Submit(c, Head(todo[c]), rest) /\ UNCHANGED available
                     ELSE /\ tasks' = [tasks EXCEPT ![c] = rest]
                          /\ available' = [available EXCEPT ![c] = @ + 1]
                          /\ UNCHANGED <<submitted, pool>>
           ELSE /\ tasks' = [tasks EXCEPT ![c] = Append(rest, k)]
                /\ UNCHANGED <<complete, available, submitted, pool>>
  /\ UNCHANGED <<pc, next, todo, executing, done>>

Scan(c) ==
  /\ pc[c] = "scan" /\ index[c] > 0
  /\ index' = [index EXCEPT ![c] = @ - 1]
  /\ LET k == Head(tasks[c])
         rest == Tail(tasks[c])
     IN  IF <<c, k>> \in done
           THEN /\ complete' = [complete EXCEPT ![c] = Append(@, k)]
                /\ IF todo[c] # <<>>
                     THEN Submit(c, Head(todo[c]), rest) /\ UNCHANGED available
                     ELSE /\ tasks' = [tasks EXCEPT ![c] = rest]
                          /\ available' = [available EXCEPT ![c] = @ + 1]
                          /\ UNCHANGED <<submitted, pool>>
           ELSE /\ tasks' = [tasks EXCEPT ![c] = Append(rest, k)]
                /\ UNCHANGED <<complete, available, submitted, pool>>
  /\ UNCHANGED <<pc, next, todo, executing, done>>

ScanEnd(c) ==
  /\ pc[c] = "scan" /\ index[c] = 0
  /\ pc' = [pc EXCEPT ![c] = IF next[c] <= N THEN "assign" ELSE "refill"]
  /\ UNCHANGED <<locals, work>>

\* The second loop submits from oToDo while threads are available ...
Refill(c) ==
  /\ pc[c] = "refill"
  /\ available[c] > 0 /\ todo[c] # <<>>
  /\ Submit(c, Head(todo[c]), tasks[c])
  /\ todo' = [todo EXCEPT ![c] = Tail(@)]
  /\ available' = [available EXCEPT ![c] = @ - 1]
  /\ UNCHANGED <<pc, next, complete, index, executing, done>>

\* ... and polls until one future is done or each was asked once ...
RefillEnd(c) ==
  /\ pc[c] = "refill"
  /\ available[c] <= 0 \/ todo[c] = <<>>
  /\ tasks[c] # <<>>
  /\ index' = [index EXCEPT ![c] = Len(tasks[c])]
  /\ pc' = [pc EXCEPT ![c] = "wait"]
  /\ UNCHANGED <<next, available, tasks, todo, complete, submitted, work>>

Wait(c) ==
  /\ pc[c] = "wait"
  /\ LET k == Head(tasks[c])
         rest == Tail(tasks[c])
     IN  IF <<c, k>> \in done
           THEN /\ complete' = [complete EXCEPT ![c] = Append(@, k)]
                /\ available' = [available EXCEPT ![c] = @ + 1]
                /\ tasks' = [tasks EXCEPT ![c] = rest]
                /\ index' = [index EXCEPT ![c] = 0]
                /\ pc' = [pc EXCEPT ![c] = "refill"]
           ELSE /\ tasks' = [tasks EXCEPT ![c] = Append(rest, k)]
                /\ index' = [index EXCEPT ![c] = @ - 1]
                /\ pc' = [pc EXCEPT ![c] = IF index[c] = 1 THEN "refill" ELSE "wait"]
                /\ UNCHANGED <<complete, available>>
  /\ UNCHANGED <<next, todo, submitted, work>>

\* ... and returns when nothing is left to do.
Return_TodoOnly(c) ==
  /\ pc[c] = "refill"
  /\ todo[c] = <<>>
  /\ pc' = [pc EXCEPT ![c] = "returned"]
  /\ UNCHANGED <<locals, work>>

Return(c) ==
  /\ pc[c] = "refill"
  /\ tasks[c] = <<>> /\ todo[c] = <<>>
  /\ pc' = [pc EXCEPT ![c] = "returned"]
  /\ UNCHANGED <<locals, work>>

Step(c) ==
  \/ Assign(c) \/ Scan(c) \/ ScanEnd(c)
  \/ Refill(c) \/ RefillEnd(c) \/ Wait(c) \/ Return(c)

-----------------------------------------------------------------------------
(* The pool.                                                               *)

\* A caller occupies a thread until it returns.
FreeThreads ==
  PoolThreads - Cardinality({c \in Caller : pc[c] # "returned"}) - Cardinality(executing)

Begin ==
  /\ pool # <<>> /\ FreeThreads > 0
  /\ executing' = executing \cup {Head(pool)}
  /\ pool' = Tail(pool)
  /\ UNCHANGED <<pc, locals, done>>

\* call() returns or throws: the future is done in both cases.
End(f) ==
  /\ f \in executing
  /\ executing' = executing \ {f}
  /\ done' = done \cup {f}
  /\ UNCHANGED <<pc, locals, pool>>

Next ==
  \/ \E c \in Caller : Step(c)
  \/ Begin
  \/ \E f \in executing : End(f)

\* A caller is a running thread, a free thread takes a waiting future, and
\* call() comes to an end.
Fairness ==
  /\ \A c \in Caller : WF_vars(Step(c))
  /\ WF_vars(Begin)
  /\ WF_vars(\E f \in executing : End(f))

Spec == Init /\ [][Next]_vars /\ Fairness

-----------------------------------------------------------------------------

\* Shape of the lists and counters of the calls and of the pool.
TypeOK ==
  /\ pc \in [Caller -> {"assign", "scan", "refill", "wait", "returned"}]
  /\ next \in [Caller -> 1 .. N + 1]
  /\ available \in [Caller -> 0 .. Limit]
  /\ tasks \in [Caller -> Seq(Nat \ {0})]
  /\ todo \in [Caller -> Seq(1 .. N)]
  /\ complete \in [Caller -> Seq(Nat \ {0})]
  /\ index \in [Caller -> Nat]
  /\ \A c \in Caller : index[c] <= Len(tasks[c])
  /\ \A c \in Caller : pc[c] = "wait" => index[c] > 0
  /\ submitted \in [Caller -> Seq(1 .. N)]
  /\ pool \in Seq(Caller \X (Nat \ {0}))
  /\ executing \in SUBSET (Caller \X (Nat \ {0}))
  /\ done \in SUBSET (Caller \X (Nat \ {0}))

\* Futures of c that the pool still has to finish.
Unfinished(c) == {k \in DOMAIN submitted[c] : <<c, k>> \notin done}

\* A call never has more than nThreadsToUse callables in the pool, and every
\* place it does not use is counted as available.
WithinLimit ==
  \A c \in Caller :
    /\ available[c] + Len(tasks[c]) = Limit
    /\ Cardinality(Unfinished(c)) <= Limit

\* When the call returns each callable has been executed, and each future the
\* call created is done and listed once in the result: nothing it started is
\* still writing into data the caller goes on to use.
CompleteAtReturn ==
  \A c \in Caller : pc[c] = "returned" =>
    /\ \A i \in 1 .. N : \E k \in DOMAIN submitted[c] : submitted[c][k] = i
    /\ Unfinished(c) = {}
    /\ Len(complete[c]) = Len(submitted[c])
    /\ \A k \in DOMAIN submitted[c] : \E j \in DOMAIN complete[c] : complete[c][j] = k

\* "ExecutorService#invokeAll": each callable is executed once.
RunOnce ==
  \A c \in Caller : \A j, k \in DOMAIN submitted[c] :
    submitted[c][j] = submitted[c][k] => j = k

\* Every call returns, though the callers hold threads of the pool they wait
\* for, as long as they leave it one thread.
AllReturn == <>(\A c \in Caller : pc[c] = "returned")

=============================================================================
