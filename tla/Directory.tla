------------------------------ MODULE Directory ------------------------------
(***************************************************************************)
(* imrcp.system.Directory: registration and start-up of the blocks.  A     *)
(* Startup task started in the thread pool checks whether a block may      *)
(* start and calls its startService(); a block that has started makes the  *)
(* Directory queue a Startup for each of its subscribers.  Blocks created  *)
(* by the servlet container ("@" in the configuration) register later, on  *)
(* the container's thread, while the others are starting.                  *)
(*                                                                         *)
(* Init is the state when init() has registered its own blocks and is      *)
(* about to queue a Startup for those without dependencies.                *)
(***************************************************************************)
EXTENDS Integers, Sequences, FiniteSets, SequencesExt

CONSTANTS
  Core,        \* names of the blocks Directory.init() creates
  Servlet,     \* names of the dependent servlets, created by the container
  Subscribes,  \* [name -> the names its configuration subscribes to]
  MayFail,     \* names of the blocks whose start() may fail
  Task,        \* the pool's threads, as numbers, that may run a Startup at a time
  NoName       \* nobody: the Directory's monitor is free

Name == Core \cup Servlet

ASSUME DirectoryAssumption ==
  /\ Core \cap Servlet = {}
  /\ NoName \notin Name
  /\ Subscribes \in [Name -> SUBSET Name]
  /\ MayFail \subseteq Name
  /\ IsFiniteSet(Name)

VARIABLES
  roots,       \* the blocks for which init()'s last loop has yet to queue a Startup
  status,      \* [Name -> status of the block]; IDLE also stands for RUNNING
  deps,        \* [Name -> m_oDependencies]; m_oSubscribers is its inverse
  awaited,     \* m_oDependentServlets
  startups,    \* m_oStartups, the oldest first
  dispatches,  \* executions of Directory.run() in the pool
  monitor,     \* the servlet whose register() holds the Directory's monitor
  at,          \* [Task -> where the Startup task is]
  block,       \* [Task -> the block it is for]
  list,        \* [Task -> the dependency list its loop runs over]
  read,        \* [Task -> the blocks its loop has read as finished]
  started,     \* history: [Name -> number of calls of start()]
  finished     \* history: the blocks that have come out of start() once

queue == <<startups, dispatches>>
links == <<roots, deps, awaited, monitor>>
tasks == <<at, block, list, read>>
vars == <<queue, links, tasks, status, started, finished>>

Registered == Core \cup (Servlet \ awaited) \cup ({monitor} \cap Servlet)

Subscribers(n) == {m \in Name : n \in deps[m]}

\* "have finished their start methods", as Startup.run() and register() test it.
Finished(n) == status[n] \notin {"INIT", "STARTING"}

Init ==
  /\ status = [n \in Name |-> "INIT"]
  /\ deps = [n \in Name |-> IF n \in Core THEN Subscribes[n] \cap Core ELSE {}]
  /\ roots = {n \in Core : deps[n] = {}}
  /\ awaited = Servlet
  /\ startups = <<>>
  /\ dispatches = 0
  /\ monitor = NoName
  /\ at = [t \in Task |-> "free"]
  /\ block = [t \in Task |-> NoName]
  /\ list = [t \in Task |-> {}]
  /\ read = [t \in Task |-> {}]
  /\ started = [n \in Name |-> 0]
  /\ finished = {}

-----------------------------------------------------------------------------
(* The queue of Startups.                                                  *)

\* queueStartup() for each block of S, in some order.
QueueStartups_NoRun(S) ==
  \E q \in SetToSeqs(S) :
    /\ startups' = startups \o q
    /\ dispatches' = IF startups = <<>> THEN dispatches + Len(q) ELSE dispatches

QueueStartups(S) ==
  \E q \in SetToSeqs(S) :
    /\ startups' = startups \o q
    /\ dispatches' = dispatches + Len(q)

\* The last loop of init(), on the container's thread.
InitQueue(n) ==
  /\ n \in roots
  /\ roots' = roots \ {n}
  /\ QueueStartups({n})
  /\ UNCHANGED <<deps, awaited, monitor, tasks, status, started, finished>>

\* Directory.run() hands the oldest Startup to the pool, and a thread takes it
\* (until one is free the Startup counts as still queued).
Run ==
  /\ dispatches > 0
  /\ dispatches' = dispatches - 1
  /\ IF startups = <<>>
       THEN UNCHANGED <<startups, at, block>>
       ELSE \E t \in Task :
              /\ at[t] = "free"
              /\ \A u \in Task : at[u] = "free" => t <= u
              /\ at' = [at EXCEPT ![t] = "pooled"]
              /\ block' = [block EXCEPT ![t] = Head(startups)]
              /\ startups' = Tail(startups)
  /\ UNCHANGED <<links, list, read, status, started, finished>>

-----------------------------------------------------------------------------
(* register() of a dependent servlet, on the container's thread, which     *)
(* creates the servlets when init() is over.                               *)

\* The links to and from the blocks registered before.
RegisterLink(s) ==
  /\ roots = {}
  /\ monitor = NoName
  /\ s \in awaited
  /\ monitor' = s
  /\ deps' = [n \in Name |->
       IF n = s THEN Subscribes[s] \cap Registered
       ELSE IF n \in Registered /\ s \in Subscribes[n] THEN deps[n] \cup {s}
       ELSE deps[n]]
  /\ UNCHANGED <<queue, roots, awaited, tasks, status, started, finished>>

\* The servlet is awaited no more, and starts if its dependencies are ready.
RegisterRelease_NoStart(s) ==
  /\ monitor = s
  /\ monitor' = NoName
  /\ awaited' = awaited \ {s}
  /\ UNCHANGED <<queue, roots, deps, tasks, status, started, finished>>

RegisterRelease(s) ==
  /\ monitor = s
  /\ monitor' = NoName
  /\ awaited' = awaited \ {s}
  /\ IF \A d \in deps[s] : Finished(d) THEN QueueStartups({s}) ELSE UNCHANGED queue
  /\ UNCHANGED <<roots, deps, tasks, status, started, finished>>

-----------------------------------------------------------------------------
(* Startup.run() and BaseBlock.startService(), in a pool thread.           *)

Goto(t, place) ==
  /\ at' = [at EXCEPT ![t] = place]
  /\ UNCHANGED <<block, list, read>>

End_Keep(t) ==
  /\ at' = [at EXCEPT ![t] = "free"]
  /\ UNCHANGED <<block, list, read>>

End(t) ==
  /\ at' = [at EXCEPT ![t] = "free"]
  /\ block' = [block EXCEPT ![t] = NoName]
  /\ list' = [list EXCEPT ![t] = {}]
  /\ read' = [read EXCEPT ![t] = {}]

\* Only a block in status INIT; then the loop over m_oDependencies begins.
CheckStatus(t) ==
  /\ at[t] = "pooled"
  /\ IF status[block[t]] = "INIT"
       THEN /\ at' = [at EXCEPT ![t] = "looping"]
            /\ list' = [list EXCEPT ![t] = deps[block[t]]]
            /\ UNCHANGED <<block, read>>
       ELSE End(t)
  /\ UNCHANGED <<queue, links, status, started, finished>>

\* The loop reads one dependency after the other: all must have finished.
CheckDependency_Begun(t) ==
  /\ at[t] = "looping"
  /\ \E d \in list[t] \ read[t] :
       IF status[d] # "INIT"
         THEN /\ read' = [read EXCEPT ![t] = @ \cup {d}]
              /\ UNCHANGED <<at, block, list>>
         ELSE End(t)
  /\ UNCHANGED <<queue, links, status, started, finished>>

CheckDependency(t) ==
  /\ at[t] = "looping"
  /\ \E d \in list[t] \ read[t] :
       IF Finished(d)
         THEN /\ read' = [read EXCEPT ![t] = @ \cup {d}]
              /\ UNCHANGED <<at, block, list>>
         ELSE End(t)
  /\ UNCHANGED <<queue, links, status, started, finished>>

\* register() may have added to the list meanwhile: the loop then ends the task
\* with a ConcurrentModificationException, or does not notice.
CheckDependenciesDone(t) ==
  /\ at[t] = "looping"
  /\ read[t] = list[t]
  /\ \/ Goto(t, "ready")
     \/ list[t] # deps[block[t]] /\ End(t)
  /\ UNCHANGED <<queue, links, status, started, finished>>

\* No servlet it subscribes to may still be awaited.
CheckServlets_Skip(t) ==
  /\ at[t] = "ready"
  /\ Goto(t, "entering")
  /\ UNCHANGED <<queue, links, status, started, finished>>

CheckServlets(t) ==
  /\ at[t] = "ready"
  /\ IF Subscribes[block[t]] \cap awaited = {}
       THEN Goto(t, "entering")
       ELSE End(t)
  /\ UNCHANGED <<queue, links, status, started, finished>>

\* startService() reads the status once more ...
StartEnter(t) ==
  /\ at[t] = "entering"
  /\ IF status[block[t]] = "INIT"
       THEN Goto(t, "entered")
       ELSE End(t)
  /\ UNCHANGED <<queue, links, status, started, finished>>

\* ... sets it to STARTING, whatever it is by now ...
StartMark(t) ==
  /\ at[t] = "entered"
  /\ status' = [status EXCEPT ![block[t]] = "STARTING"]
  /\ Goto(t, "marked")
  /\ UNCHANGED <<queue, links, started, finished>>

\* ... and calls start() if it still is STARTING.
StartCall(t) ==
  /\ at[t] = "marked"
  /\ IF status[block[t]] = "STARTING"
       THEN /\ started' = [started EXCEPT ![block[t]] = @ + 1]
            /\ Goto(t, "calling")
       ELSE /\ Goto(t, "failed")
            /\ UNCHANGED started
  /\ UNCHANGED <<queue, links, status, finished>>

\* start() returns false or throws.
StartFail(t) ==
  /\ at[t] = "calling"
  /\ block[t] \in MayFail
  /\ Goto(t, "failed")
  /\ UNCHANGED <<queue, links, status, started, finished>>

StartError(t) ==
  /\ at[t] = "failed"
  /\ status' = [status EXCEPT ![block[t]] = "ERROR"]
  /\ finished' = finished \cup {block[t]}
  /\ End(t)
  /\ UNCHANGED <<queue, links, started>>

StartReturn(t) ==
  /\ at[t] = "calling"
  /\ status' = [status EXCEPT ![block[t]] = "IDLE"]
  /\ finished' = finished \cup {block[t]}
  /\ Goto(t, "notifying")
  /\ UNCHANGED <<queue, links, started>>

\* notify("service started"): notifyStart() queues the subscribers, and needs
\* the monitor register() holds.
NotifyStart(t) ==
  /\ at[t] = "notifying"
  /\ monitor = NoName
  /\ QueueStartups(Subscribers(block[t]))
  /\ End(t)
  /\ UNCHANGED <<links, status, started, finished>>

Startup(t) ==
  \/ CheckStatus(t) \/ CheckDependency(t) \/ CheckDependenciesDone(t) \/ CheckServlets(t)
  \/ StartEnter(t) \/ StartMark(t) \/ StartCall(t) \/ StartFail(t)
  \/ StartError(t) \/ StartReturn(t) \/ NotifyStart(t)

Next ==
  \/ \E n \in Core : InitQueue(n)
  \/ Run
  \/ \E s \in Servlet : RegisterLink(s) \/ RegisterRelease(s)
  \/ \E t \in Task : Startup(t)

\* The pool runs what it was given, start() returns, and the container creates
\* every servlet that the configuration names.
Fairness ==
  /\ WF_vars(Run) /\ \A n \in Core : WF_vars(InitQueue(n))
  /\ \A s \in Servlet : WF_vars(RegisterRelease(s)) /\ SF_vars(RegisterLink(s))
  /\ \A t \in Task : WF_vars(Startup(t)) /\ SF_vars(NotifyStart(t))

Spec == Init /\ [][Next]_vars /\ Fairness

-----------------------------------------------------------------------------

\* Shape of the Directory's lists and of the tasks.
TypeOK ==
  /\ roots \in SUBSET Core
  /\ status \in [Name -> {"INIT", "STARTING", "IDLE", "ERROR"}]
  /\ deps \in [Name -> SUBSET Name]
  /\ awaited \in SUBSET Servlet
  /\ startups \in Seq(Name)
  /\ dispatches \in Nat
  /\ monitor \in Servlet \cup {NoName}
  /\ at \in [Task -> {"free", "pooled", "looping", "ready", "entering", "entered",
                      "marked", "calling", "failed", "notifying"}]
  /\ block \in [Task -> Name \cup {NoName}]
  /\ \A t \in Task : at[t] = "free" <=> block[t] = NoName
  /\ list \in [Task -> SUBSET Name]
  /\ read \in [Task -> SUBSET Name]
  /\ started \in [Name -> Nat]
  /\ finished \in SUBSET Name

\* Each Startup in the queue has an execution of Directory.run() that will take
\* it out: no block is left waiting in the queue.
NoStartupLost == dispatches = Len(startups)

\* start() of a block is called only after all blocks of the Directory's own
\* configuration that it subscribes to have come out of their start(), though
\* the test reads one status after the other, tasks for the same block overlap
\* and a block that is started twice is STARTING again.
DependenciesFirst ==
  \A n \in Name : started[n] > 0 => Subscribes[n] \cap Core \subseteq finished

\* A block is not started while a servlet it subscribes to is yet to come.
ServletsAwaited ==
  \A n \in Name : started[n] > 0 => Subscribes[n] \cap awaited = {}

\* The same as DependenciesFirst for every subscription: "and if all of their
\* dependencies have finished their start methods".  The code does not keep to it:
\* a servlet that registers while a task is between its two tests is missed.
AllDependenciesFirst ==
  \A n \in Name : started[n] > 0 => Subscribes[n] \subseteq finished

\* "blocks should only start if their status is init": start() is called once.
\* The code does not keep to it: two tasks may both pass the tests of one block.
StartOnce == \A n \in Name : started[n] <= 1

\* Every block is started, whatever the order in which its dependencies finish
\* and servlets register, provided that no block ends in status ERROR: a failed
\* block notifies nobody, and its subscribers may then wait for ever.
AllStarted ==
  [](\A n \in Name : status[n] # "ERROR") => <>(\A n \in Name : started[n] > 0)

=============================================================================
