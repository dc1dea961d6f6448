------------------------------ MODULE BaseBlock ------------------------------
(***************************************************************************)
(* imrcp.system.BaseBlock: the life of one block.  Its status is changed   *)
(* by several threads: the Startup task that calls startService(), the     *)
(* thread that stops the container and calls stopService(), pool threads   *)
(* that call run() for the block's schedule, the execution of AsyncQ.run() *)
(* that hands a notification to run(String[]), and, in a collector derived *)
(* from NWS, the retry timer of setError().  Every read or write of the    *)
(* status (an AtomicInteger; checkAndSetStatus is synchronized) is a step. *)
(*                                                                         *)
(* The message queue is AsyncQ with one thread, as "new AsyncQ(this)".     *)
(***************************************************************************)
EXTENDS AsyncQ

CONSTANTS
  Runner,   \* pool threads that execute run() for the block's schedule
  Timers    \* in an NWS collector, whose setError() starts a timer, a bound
            \* on the timers that are pending at once; 0 in other blocks

ASSUME BaseBlockAssumption == Timers \in Nat /\ MaxThreads = 1

Status == {"INIT", "STARTING", "RUNNING", "IDLE", "ERROR", "STOPPING", "STOPPED"}

VARIABLES
  status,     \* m_nStatus
  starter,    \* where startService() is
  stopper,    \* where stopService() is
  runner,     \* [Runner -> "idle" | "pooled" | "executing"]
  hand,       \* [Worker -> "none" | "inside" | "refused"]: run(String[])
  scheduled,  \* is the Sched created by start() in Scheduling's task list?
  retry,      \* the number of pending timers of NWS.setError()
  dropped,    \* history: messages run(String[]) discarded
  thrown,     \* history: an unchecked exception escaped execute()
  overlap     \* history: startService() was not over when stopService() began

bvars == <<status, starter, stopper, runner, hand, scheduled, retry, dropped,
           thrown, overlap>>
vars == <<qvars, bvars>>

Init ==
  /\ AsyncQInit
  /\ status = "INIT"
  /\ starter = "ready"
  /\ stopper = "ready"
  /\ runner = [r \in Runner |-> "idle"]
  /\ hand = [w \in Worker |-> "none"]
  /\ scheduled = FALSE
  /\ retry = 0
  /\ dropped = {}
  /\ thrown = FALSE
  /\ overlap = FALSE

\* checkAndSetStatus(new, old): set the status only if it is old.
CompareAndSet(old, new) == status' = IF status = old THEN new ELSE status

-----------------------------------------------------------------------------
(* startService(), called by Directory.Startup.                            *)

StartEnter ==
  /\ starter = "ready"
  /\ starter' = IF status \in {"INIT", "STOPPED"} THEN "entering" ELSE "done"
  /\ UNCHANGED <<qvars, status, stopper, runner, hand, scheduled, retry,
                 dropped, thrown, overlap>>

StartMark ==
  /\ starter = "entering"
  /\ starter' = "marked"
  /\ status' = "STARTING"
  /\ UNCHANGED <<qvars, stopper, runner, hand, scheduled, retry, dropped,
                 thrown, overlap>>

\* if (m_nStatus.get() == STARTING && start()); start() of a scheduled block
\* ends with createSched(), or returns false or throws before it.
StartCall ==
  /\ starter = "marked"
  /\ \/ /\ status = "STARTING"
        /\ starter' = "started"
        /\ scheduled' = TRUE
     \/ /\ starter' = "failed"
        /\ UNCHANGED scheduled
  /\ UNCHANGED <<qvars, status, stopper, runner, hand, retry, dropped, thrown,
                 overlap>>

StartFinish ==
  /\ starter \in {"started", "failed"}
  /\ starter' = "done"
  /\ status' = IF starter = "started" THEN "IDLE" ELSE "ERROR"
  /\ UNCHANGED <<qvars, stopper, runner, hand, scheduled, retry, dropped,
                 thrown, overlap>>

StartService == StartEnter \/ StartMark \/ StartCall \/ StartFinish

-----------------------------------------------------------------------------
(* run(), submitted to the pool by the Timer while the Sched exists.       *)

Fire(r) ==
  /\ scheduled
  /\ runner[r] = "idle"
  /\ runner' = [runner EXCEPT ![r] = "pooled"]
  /\ UNCHANGED <<qvars, status, starter, stopper, hand, scheduled, retry,
                 dropped, thrown, overlap>>

RunEnter_NoCheck(r) ==
  /\ runner[r] = "pooled"
  /\ runner' = [runner EXCEPT ![r] = "executing"]
  /\ status' = "RUNNING"
  /\ UNCHANGED <<qvars, starter, stopper, hand, scheduled, retry, dropped,
                 thrown, overlap>>

RunEnter(r) ==
  /\ runner[r] = "pooled"
  /\ runner' = [runner EXCEPT ![r] = IF status = "IDLE" THEN "executing" ELSE "idle"]
  /\ CompareAndSet("IDLE", "RUNNING")
  /\ UNCHANGED <<qvars, starter, stopper, hand, scheduled, retry, dropped,
                 thrown, overlap>>

RunLeave(r) ==
  /\ runner[r] = "executing"
  /\ runner' = [runner EXCEPT ![r] = "idle"]
  /\ CompareAndSet("RUNNING", "IDLE")
  /\ UNCHANGED <<qvars, starter, stopper, hand, scheduled, retry, dropped,
                 thrown, overlap>>

\* An exception leaves execute(): run() ends without its last statement.
RunThrow(r) ==
  /\ runner[r] = "executing"
  /\ runner' = [runner EXCEPT ![r] = "idle"]
  /\ thrown' = TRUE
  /\ UNCHANGED <<qvars, status, starter, stopper, hand, scheduled, retry,
                 dropped, overlap>>

\* setError() of BaseBlock, called by execute(), which goes on.
SetError_NoTimer(r) ==
  /\ runner[r] = "executing"
  /\ status' = "ERROR"
  /\ UNCHANGED <<qvars, starter, stopper, runner, hand, scheduled, retry,
                 dropped, thrown, overlap>>

\* The same in an NWS collector, whose version also starts a timer.
SetError(r) ==
  /\ runner[r] = "executing"
  /\ status' = "ERROR"
  /\ Timers > 0 => retry < Timers
  /\ retry' = IF Timers > 0 THEN retry + 1 ELSE retry
  /\ UNCHANGED <<qvars, starter, stopper, runner, hand, scheduled, dropped,
                 thrown, overlap>>

SetIdle ==
  /\ retry > 0
  /\ retry' = retry - 1
  /\ CompareAndSet("ERROR", "IDLE")
  /\ UNCHANGED <<qvars, starter, stopper, runner, hand, scheduled, dropped,
                 thrown, overlap>>

Run(r) == RunEnter(r) \/ RunLeave(r)

-----------------------------------------------------------------------------
(* run(String[]), the delegate of the message queue.                       *)

NotifyEnter(w) ==
  /\ pc[w] = "working" /\ oT[w] # NoItem /\ hand[w] = "none"
  /\ hand' = [hand EXCEPT ![w] = IF status = "IDLE" THEN "inside" ELSE "refused"]
  /\ CompareAndSet("IDLE", "RUNNING")
  /\ UNCHANGED <<qvars, starter, stopper, runner, scheduled, retry, dropped,
                 thrown, overlap>>

\* process() returns.
NotifyLeave(w) ==
  /\ hand[w] = "inside"
  /\ hand' = [hand EXCEPT ![w] = "none"]
  /\ CompareAndSet("RUNNING", "IDLE")
  /\ Deliver(w)
  /\ UNCHANGED <<starter, stopper, runner, scheduled, retry, dropped, thrown,
                 overlap>>

Drop(w) ==
  /\ dropped' = dropped \cup {oT[w]}
  /\ oT' = [oT EXCEPT ![w] = NoItem]
  /\ UNCHANGED <<deque, slots, pc, stop, sent, done>>

\* The status is read again: queue the message once more, or discard it.
NotifyRefused_DropWhenRunning(w) ==
  /\ hand[w] = "refused"
  /\ hand' = [hand EXCEPT ![w] = "none"]
  /\ IF status \in {"STARTING", "IDLE", "INIT"}
       THEN GiveBack(w) /\ UNCHANGED dropped
       ELSE Drop(w)
  /\ UNCHANGED <<status, starter, stopper, runner, scheduled, retry, thrown,
                 overlap>>

NotifyRefused(w) ==
  /\ hand[w] = "refused"
  /\ hand' = [hand EXCEPT ![w] = "none"]
  /\ IF status \in {"STARTING", "RUNNING", "IDLE", "INIT"}
       THEN GiveBack(w) /\ UNCHANGED dropped
       ELSE Drop(w)
  /\ UNCHANGED <<status, starter, stopper, runner, scheduled, retry, thrown,
                 overlap>>

Receive(i) == Queue(i) /\ UNCHANGED bvars

QueueThread(w) ==
  \/ NotifyEnter(w) \/ NotifyLeave(w) \/ NotifyRefused(w)
  \/ Poll(w) /\ UNCHANGED bvars
  \/ Finish(w) /\ UNCHANGED bvars

-----------------------------------------------------------------------------
(* stopService(), called when the container ends the block.                *)

StopEnter ==
  /\ stopper = "ready"
  /\ status # "STOPPED"
  /\ stopper' = "marked"
  /\ status' = "STOPPING"
  /\ overlap' = (starter # "done")
  /\ UNCHANGED <<qvars, starter, runner, hand, scheduled, retry, dropped, thrown>>

StopCancel_Skip ==
  /\ stopper = "marked"
  /\ stopper' = "cancelled"
  /\ UNCHANGED <<qvars, status, starter, runner, hand, scheduled, retry,
                 dropped, thrown, overlap>>

StopCancel ==
  /\ stopper = "marked"
  /\ stopper' = "cancelled"
  /\ scheduled' = FALSE
  /\ UNCHANGED <<qvars, status, starter, runner, hand, retry, dropped, thrown,
                 overlap>>

\* m_oNotifications.stop(), in AsyncQ's three steps.
StopQueue ==
  /\ stopper = "cancelled"
  /\ StopCall \/ StopWrite \/ StopClear
  /\ UNCHANGED bvars

\* stop() returns true, or returns false or throws.
StopFinish ==
  /\ stopper = "cancelled"
  /\ stop = "done"
  /\ stopper' = "done"
  /\ status' \in {"STOPPED", "ERROR"}
  /\ UNCHANGED <<qvars, starter, runner, hand, scheduled, retry, dropped,
                 thrown, overlap>>

StopService == StopEnter \/ StopCancel \/ StopQueue \/ StopFinish

-----------------------------------------------------------------------------

Next ==
  \/ StartService \/ StopService \/ SetIdle
  \/ \E r \in Runner : Fire(r) \/ Run(r) \/ RunThrow(r) \/ SetError(r)
  \/ \E i \in Item : Receive(i)
  \/ \E w \in Worker : QueueThread(w)

\* Threads that have something to do go on; start(), execute(), process() and
\* stop() return.  Nothing forces a stop, a timer tick or a message.
Fairness ==
  /\ WF_vars(StartService)
  /\ WF_vars(StopCancel \/ StopQueue \/ StopFinish)
  /\ WF_vars(SetIdle)
  /\ \A r \in Runner : WF_vars(Run(r))
  /\ \A w \in Worker : WF_vars(QueueThread(w))

Spec == Init /\ [][Next]_vars /\ Fairness

-----------------------------------------------------------------------------

\* Shape of a block's fields and of the places its threads can be at.
TypeOK ==
  /\ AsyncQTypeOK
  /\ status \in Status
  /\ starter \in {"ready", "entering", "marked", "started", "failed", "done"}
  /\ stopper \in {"ready", "marked", "cancelled", "done"}
  /\ runner \in [Runner -> {"idle", "pooled", "executing"}]
  /\ hand \in [Worker -> {"none", "inside", "refused"}]
  /\ {scheduled, thrown, overlap} \subseteq BOOLEAN
  /\ retry \in 0..Timers
  /\ dropped \in SUBSET Item

\* The threads inside execute() or process().
Active == {r \in Runner : runner[r] = "executing"} \cup
          {w \in Worker : hand[w] = "inside"}

\* "the ImrcpBlock is idle and ready to execute its task": in status IDLE no
\* thread is inside execute() or process(), and never more than one is, though
\* the guard is nothing but the status, which other threads override.  It holds
\* for Timers = 0 only: a retry timer sets IDLE while execute() may still run.
IdleIsIdle == Cardinality(Active) <= 1 /\ (status = "IDLE" => Active = {})

\* A message that was received is waiting, in work, dealt with or discarded,
\* once; it is discarded only by a block that has left service.
LostOnlyOutOfService ==
  /\ \A i \in sent \ dropped : /\ Cardinality(Places(i)) <= 1
                               /\ stop # "done" => Places(i) # {}
  /\ \A i \in dropped : Places(i) = {}
  /\ dropped # {} => status \in {"ERROR", "STOPPING", "STOPPED"} \/ overlap

\* "otherwise the notification is placed back in the queue": run(String[]) throws
\* no message away as long as nobody stops the block.  The code does not keep to
\* it: in ERROR the message is discarded.
RefusedKept == stopper = "ready" => dropped = {}

\* stopService() is over, and startService() was over before it began: the
\* schedule is gone and the block never takes up work again.
StoppedForGood ==
  stopper = "done" /\ ~overlap => ~scheduled /\ status \in {"STOPPED", "ERROR"}

\* Every message received is dealt with, through every refusal while the block
\* starts or runs, provided that the block stays in service, that no exception
\* escaped execute() and that the schedule leaves the block alone at last (a
\* tick each time the queue's thread comes round would starve the message).
MessageServed ==
  <>[](\A r \in Runner : runner[r] = "idle") =>
    \A i \in Item :
      (i \in sent) ~> \/ \E k \in DOMAIN done : done[k] = i
                      \/ status = "ERROR" \/ thrown \/ stopper # "ready"

\* A collector that was started does not stay in ERROR: unless it is stopped,
\* each error of a run is followed by a return to IDLE, however many runs and
\* timers are under way.
ErrorRecovers ==
  Timers > 0 => (status = "ERROR" /\ scheduled) ~> (status # "ERROR" \/ stopper # "ready")

\* The message queue as the other blocks see it.
Held == {w \in Worker : oT[w] # NoItem}

MB == INSTANCE Mailbox WITH
        pending <- (IF Held = {} THEN <<>> ELSE <<oT[CHOOSE w \in Held : TRUE]>>) \o deque,
        posted <- sent,
        handled <- done,
        open <- stop = "no" /\ status \notin {"ERROR", "STOPPING", "STOPPED"}

\* Message delivery implements the mailbox: serial, in order, nothing twice.
ImplementsMailbox == MB!Spec

=============================================================================
