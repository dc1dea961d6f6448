-------------------------- MODULE Directory_proofs --------------------------
(***************************************************************************)
(* Proofs about Directory, for every configuration of blocks, servlets and *)
(* subscriptions and every number of pool threads: its type invariant, and *)
(* the three facts about the order of the start-up that its run checks.    *)
(***************************************************************************)
EXTENDS Directory, SequenceTheorems, FiniteSetTheorems, TLAPS

\* The places of a task that has passed the test of the dependencies, and of
\* one that has passed the test of the awaited servlets, too.
Entered == {"entering", "entered", "marked", "calling", "failed", "notifying"}
Passed == {"ready"} \cup Entered

\* Only registered blocks are queued or started, and all their subscriptions
\* to blocks of init() are among their dependencies.
LinksOK ==
  /\ startups \in Seq(Registered)
  /\ \A t \in Task : at[t] # "free" => block[t] \in Registered
  /\ \A n \in Registered : Subscribes[n] \cap Core \subseteq deps[n]
  /\ \A n \in Name \ Registered : deps[n] = {}

\* What a task has found out so far is true, and stays true.
TestsOK ==
  /\ \A n \in Name : Finished(n) => n \in finished
  /\ \A t \in Task : read[t] \subseteq finished
  /\ \A t \in Task : at[t] = "looping" => Subscribes[block[t]] \cap Core \subseteq list[t]
  /\ \A t \in Task : at[t] \in Passed => Subscribes[block[t]] \cap Core \subseteq finished
  /\ \A t \in Task : at[t] \in Entered => Subscribes[block[t]] \cap awaited = {}

IInv ==
  /\ TypeOK
  /\ NoStartupLost
  /\ LinksOK
  /\ TestsOK
  /\ DependenciesFirst
  /\ ServletsAwaited

-----------------------------------------------------------------------------

LEMMA RegisteredNames == TypeOK => Registered \subseteq Name /\ Core \subseteq Registered
BY DirectoryAssumption DEF TypeOK, Registered, Name

\* queueStartup() keeps the queue and the executions of run() in step.
LEMMA QueueStep ==
  ASSUME TypeOK, NoStartupLost, NEW R \in SUBSET Name, startups \in Seq(R),
         NEW S \in SUBSET R, QueueStartups(S)
  PROVE  /\ startups' \in Seq(R)
         /\ startups' \in Seq(Name)
         /\ dispatches' \in Nat
         /\ dispatches' = Len(startups')
<1>1. PICK q \in SetToSeqs(S) : startups' = startups \o q /\ dispatches' = dispatches + Len(q)
  BY DEF QueueStartups
<1>2. IsFiniteSet(S) /\ Cardinality(S) \in Nat
  BY FS_Subset, FS_CardinalityType, DirectoryAssumption
<1>3. q \in Seq(R) /\ Len(q) \in Nat
  <2>1. q \in [1 .. Cardinality(S) -> S]
    BY <1>1 DEF SetToSeqs
  <2>2. q \in [1 .. Cardinality(S) -> R]
    BY <2>1
  <2> QED BY <2>2, <1>2
<1>4. startups \o q \in Seq(R) /\ Len(startups \o q) = Len(startups) + Len(q)
  BY <1>3, ConcatProperties
<1>5. startups \o q \in Seq(Name)
  BY <1>4, SeqMonotonic
<1> QED BY <1>1, <1>3, <1>4, <1>5 DEF TypeOK, NoStartupLost

LEMMA InitIInv == Init => IInv
<1> SUFFICES ASSUME Init PROVE IInv OBVIOUS
<1> USE DirectoryAssumption DEF Init, Name
<1>1. TypeOK
  BY DEF TypeOK
<1>2. LinksOK
  BY DEF LinksOK, Registered
<1>3. NoStartupLost
  BY DEF NoStartupLost
<1>4. TestsOK /\ DependenciesFirst /\ ServletsAwaited
  BY DEF TestsOK, Finished, Passed, Entered, DependenciesFirst, ServletsAwaited
<1> QED BY <1>1, <1>2, <1>3, <1>4 DEF IInv

\* init()'s loop and Directory.run().
LEMMA QueueActions ==
  ASSUME IInv, Run \/ \E n \in Core : InitQueue(n)
  PROVE  IInv'
<1> USE DirectoryAssumption DEF IInv
<1>1. CASE Run
  <2>1. startups # <<>> /\ dispatches > 0 /\ dispatches' = dispatches - 1
    BY <1>1 DEF Run, TypeOK, NoStartupLost
  <2>2. PICK t \in Task : /\ at[t] = "free"
                          /\ at' = [at EXCEPT ![t] = "pooled"]
                          /\ block' = [block EXCEPT ![t] = Head(startups)]
                          /\ startups' = Tail(startups)
    BY <1>1, <2>1 DEF Run
  <2>3. /\ Head(startups) \in Registered /\ Registered \subseteq Name
        /\ Tail(startups) \in Seq(Registered) /\ Tail(startups) \in Seq(Name)
        /\ Len(Tail(startups)) = Len(startups) - 1
    BY <2>1, RegisteredNames, HeadTailProperties DEF TypeOK, LinksOK
  <2>4. UNCHANGED <<roots, deps, awaited, monitor, list, read, status, started, finished>>
    BY <1>1 DEF Run, links
  <2>5. TypeOK'
    <3>1. at' \in [Task -> {"free", "pooled", "looping", "ready", "entering", "entered",
                           "marked", "calling", "failed", "notifying"}]
      BY <2>2 DEF TypeOK
    <3>2. block' \in [Task -> Name \cup {NoName}]
      BY <2>2, <2>3 DEF TypeOK
    <3>3. \A u \in Task : at'[u] = "free" <=> block'[u] = NoName
      BY <2>2, <2>3 DEF TypeOK
    <3>4. dispatches' \in Nat /\ startups' \in Seq(Name)
      BY <2>1, <2>2, <2>3 DEF TypeOK
    <3> QED BY <2>4, <3>1, <3>2, <3>3, <3>4 DEF TypeOK
  <2>6. NoStartupLost'
    BY <2>1, <2>2, <2>3 DEF NoStartupLost
  <2>7. LinksOK'
    <3>1. Registered' = Registered
      BY <2>4 DEF Registered
    <3>2. \A u \in Task : at'[u] # "free" => block'[u] \in Registered
      BY <2>2, <2>3 DEF LinksOK, TypeOK
    <3> QED BY <2>2, <2>3, <2>4, <3>1, <3>2 DEF LinksOK
  <2>8. TestsOK'
    <3>1. \A u \in Task : at'[u] \in Passed \cup {"looping"} => at'[u] = at[u] /\ block'[u] = block[u]
      BY <2>2 DEF TypeOK, Passed, Entered
    <3> QED BY <2>4, <3>1 DEF TestsOK, Finished, Passed
  <2>9. DependenciesFirst' /\ ServletsAwaited'
    BY <2>4 DEF DependenciesFirst, ServletsAwaited
  <2> QED BY <2>5, <2>6, <2>7, <2>8, <2>9
<1>2. CASE \E n \in Core : InitQueue(n)
  <2>1. PICK n \in Core : InitQueue(n)
    BY <1>2
  <2>2. /\ startups' \in Seq(Registered) /\ startups' \in Seq(Name)
        /\ dispatches' \in Nat /\ dispatches' = Len(startups')
    <3>1. {n} \in SUBSET Registered /\ Registered \in SUBSET Name
      BY RegisteredNames
    <3> QED BY <2>1, <3>1, QueueStep DEF InitQueue, LinksOK
  <2> USE <2>1, <2>2 DEF InitQueue, tasks
  <2>3. TypeOK'
    BY DEF TypeOK
  <2>4. LinksOK'
    BY DEF LinksOK, Registered
  <2>5. NoStartupLost' /\ TestsOK' /\ DependenciesFirst' /\ ServletsAwaited'
    BY DEF NoStartupLost, TestsOK, Finished, DependenciesFirst, ServletsAwaited
  <2> QED BY <2>3, <2>4, <2>5
<1> QED BY <1>1, <1>2

\* register() of a servlet.
LEMMA RegisterActions ==
  ASSUME IInv, NEW s \in Servlet, RegisterLink(s) \/ RegisterRelease(s)
  PROVE  IInv'
<1> USE DirectoryAssumption DEF IInv
<1>1. CASE RegisterLink(s)
  <2> USE <1>1 DEF RegisterLink, queue, tasks
  <2>1. Registered' = Registered \cup {s} /\ Registered \subseteq Name /\ s \in Name
    BY RegisteredNames DEF Registered, Name, TypeOK
  <2>2. TypeOK'
    BY <2>1 DEF TypeOK
  <2>3. LinksOK'
    <3>1. startups' \in Seq(Registered')
      BY <2>1, SeqMonotonic DEF LinksOK
    <3>2. \A t \in Task : at'[t] # "free" => block'[t] \in Registered'
      BY <2>1 DEF LinksOK
    <3>3. \A n \in Registered' : Subscribes[n] \cap Core \subseteq deps'[n]
      BY <2>1, RegisteredNames DEF LinksOK
    <3>4. \A n \in Name \ Registered' : deps'[n] = {}
      BY <2>1 DEF LinksOK
    <3> QED BY <3>1, <3>2, <3>3, <3>4 DEF LinksOK
  <2>4. NoStartupLost' /\ TestsOK' /\ DependenciesFirst' /\ ServletsAwaited'
    BY DEF NoStartupLost, TestsOK, Finished, DependenciesFirst, ServletsAwaited
  <2> QED BY <2>2, <2>3, <2>4
<1>2. CASE RegisterRelease(s)
  <2> USE <1>2 DEF RegisterRelease, tasks
  <2>1. Registered' = Registered /\ s \in Registered /\ Registered \subseteq Name
    BY RegisteredNames DEF Registered, Name, TypeOK
  <2>2. /\ startups' \in Seq(Registered) /\ startups' \in Seq(Name)
        /\ dispatches' \in Nat /\ dispatches' = Len(startups')
    <3>1. {s} \in SUBSET Registered /\ Registered \in SUBSET Name
      BY <2>1
    <3>2. CASE QueueStartups({s})
      BY <3>1, <3>2, QueueStep DEF LinksOK
    <3>3. CASE UNCHANGED queue
      BY <3>3 DEF queue, TypeOK, LinksOK, NoStartupLost
    <3> QED BY <3>2, <3>3
  <2>3. TypeOK'
    BY <2>2 DEF TypeOK
  <2>4. LinksOK'
    BY <2>1, <2>2 DEF LinksOK
  <2>5. NoStartupLost' /\ DependenciesFirst' /\ ServletsAwaited'
    BY <2>2 DEF NoStartupLost, DependenciesFirst, ServletsAwaited
  <2>6. TestsOK'
    BY DEF TestsOK, Finished
  <2> QED BY <2>3, <2>4, <2>5, <2>6
<1> QED BY <1>1, <1>2

\* Startup.run() when it finds that the block may not start, or ends.
LEMMA EndStep ==
  ASSUME TypeOK, LinksOK, NEW t \in Task, End(t), UNCHANGED links
  PROVE  /\ at' \in [Task -> {"free", "pooled", "looping", "ready", "entering", "entered",
                            "marked", "calling", "failed", "notifying"}]
         /\ block' \in [Task -> Name \cup {NoName}]
         /\ \A u \in Task : at'[u] = "free" <=> block'[u] = NoName
         /\ list' \in [Task -> SUBSET Name]
         /\ read' \in [Task -> SUBSET Name]
         /\ \A u \in Task : at'[u] # "free" => block'[u] \in Registered
         /\ \A u \in Task : \/ at'[u] = "free" /\ read'[u] = {}
                            \/ /\ at'[u] = at[u] /\ block'[u] = block[u]
                               /\ list'[u] = list[u] /\ read'[u] = read[u]
BY DEF TypeOK, LinksOK, End

\* A step of task t that changes no status: what t knows must be true.
LEMMA TestsKept ==
  ASSUME TypeOK, TestsOK, NEW t \in Task, UNCHANGED <<status, finished, awaited>>,
         \A u \in Task \ {t} : /\ at'[u] = at[u] /\ block'[u] = block[u]
                               /\ list'[u] = list[u] /\ read'[u] = read[u],
         read'[t] \subseteq finished,
         at'[t] = "looping" => Subscribes[block'[t]] \cap Core \subseteq list'[t],
         at'[t] \in Passed => Subscribes[block'[t]] \cap Core \subseteq finished,
         at'[t] \in Entered => Subscribes[block'[t]] \cap awaited = {}
  PROVE  TestsOK'
<1>1. \A n \in Name : Finished(n)' => n \in finished'
  BY DEF TestsOK, Finished
<1>2. \A u \in Task : read'[u] \subseteq finished'
  BY DEF TestsOK
<1>3. \A u \in Task : at'[u] = "looping" => Subscribes[block'[u]] \cap Core \subseteq list'[u]
  BY DEF TestsOK
<1>4. \A u \in Task : at'[u] \in Passed => Subscribes[block'[u]] \cap Core \subseteq finished'
  BY DEF TestsOK
<1>5. \A u \in Task : at'[u] \in Entered => Subscribes[block'[u]] \cap awaited' = {}
  BY DEF TestsOK
<1> QED BY <1>1, <1>2, <1>3, <1>4, <1>5 DEF TestsOK

\* The steps of Startup.run() before startService().
LEMMA TestActions ==
  ASSUME IInv, NEW t \in Task,
         \/ CheckStatus(t) \/ CheckDependency(t) \/ CheckDependenciesDone(t)
         \/ CheckServlets(t) \/ StartEnter(t)
  PROVE  IInv'
<1> USE DirectoryAssumption DEF IInv
<1>1. UNCHANGED <<queue, links, status, started, finished>>
  BY DEF CheckStatus, CheckDependency, CheckDependenciesDone, CheckServlets, StartEnter
<1>2. NoStartupLost' /\ DependenciesFirst' /\ ServletsAwaited' /\ Registered' = Registered
  BY <1>1 DEF queue, links, NoStartupLost, DependenciesFirst, ServletsAwaited, Registered
<1>3. CASE End(t)
  <2>1. TypeOK' /\ LinksOK'
    BY <1>1, <1>2, <1>3, EndStep DEF TypeOK, LinksOK, queue, links
  <2>2. TestsOK'
    BY <1>1, <1>3, EndStep DEF TestsOK, Finished, Passed, Entered, links
  <2> QED BY <1>2, <2>1, <2>2
<1>4. CASE CheckStatus(t) /\ ~End(t)
  <2>1. /\ at[t] = "pooled" /\ at' = [at EXCEPT ![t] = "looping"]
        /\ list' = [list EXCEPT ![t] = deps[block[t]]] /\ UNCHANGED <<block, read>>
    BY <1>4 DEF CheckStatus, Goto
  <2>2. TypeOK' /\ LinksOK'
    BY <1>1, <1>2, <2>1 DEF TypeOK, LinksOK, queue, links
  <2>3. TestsOK'
    <3>1. /\ UNCHANGED <<status, finished, awaited>>
          /\ \A u \in Task \ {t} : /\ at'[u] = at[u] /\ block'[u] = block[u]
                                   /\ list'[u] = list[u] /\ read'[u] = read[u]
      BY <1>1, <2>1 DEF TypeOK, links
    <3>2. read'[t] \subseteq finished
      BY <2>1 DEF TypeOK, TestsOK, Finished
    <3>3. /\ at'[t] = "looping" => Subscribes[block'[t]] \cap Core \subseteq list'[t]
          /\ at'[t] \in Passed => Subscribes[block'[t]] \cap Core \subseteq finished
          /\ at'[t] \in Entered => Subscribes[block'[t]] \cap awaited = {}
      BY <2>1 DEF TypeOK, LinksOK, Passed, Entered
    <3> QED BY <3>1, <3>2, <3>3, TestsKept
  <2> QED BY <1>2, <2>2, <2>3
<1>5. CASE CheckDependency(t) /\ ~End(t)
  <2>1. /\ at[t] = "looping" /\ UNCHANGED <<at, block, list>>
        /\ \E d \in list[t] : Finished(d) /\ read' = [read EXCEPT ![t] = @ \cup {d}]
    BY <1>5 DEF CheckDependency, Goto
  <2>2. TypeOK' /\ LinksOK'
    BY <1>1, <1>2, <2>1 DEF TypeOK, LinksOK, queue, links
  <2>3. TestsOK'
    <3>1. /\ UNCHANGED <<status, finished, awaited>>
          /\ \A u \in Task \ {t} : /\ at'[u] = at[u] /\ block'[u] = block[u]
                                   /\ list'[u] = list[u] /\ read'[u] = read[u]
      BY <1>1, <2>1 DEF TypeOK, links
    <3>2. read'[t] \subseteq finished
      BY <2>1 DEF TypeOK, TestsOK, Finished
    <3>3. /\ at'[t] = "looping" => Subscribes[block'[t]] \cap Core \subseteq list'[t]
          /\ at'[t] \in Passed => Subscribes[block'[t]] \cap Core \subseteq finished
          /\ at'[t] \in Entered => Subscribes[block'[t]] \cap awaited = {}
      BY <2>1 DEF TypeOK, TestsOK, Passed, Entered
    <3> QED BY <3>1, <3>2, <3>3, TestsKept
  <2> QED BY <1>2, <2>2, <2>3
<1>6. CASE CheckDependenciesDone(t) /\ ~End(t)
  <2>1. /\ at[t] = "looping" /\ read[t] = list[t]
        /\ at' = [at EXCEPT ![t] = "ready"] /\ UNCHANGED <<block, list, read>>
    BY <1>6 DEF CheckDependenciesDone, Goto
  <2>2. TypeOK' /\ LinksOK'
    BY <1>1, <1>2, <2>1 DEF TypeOK, LinksOK, queue, links
  <2>3. TestsOK'
    <3>1. /\ UNCHANGED <<status, finished, awaited>>
          /\ \A u \in Task \ {t} : /\ at'[u] = at[u] /\ block'[u] = block[u]
                                   /\ list'[u] = list[u] /\ read'[u] = read[u]
      BY <1>1, <2>1 DEF TypeOK, links
    <3>2. read'[t] \subseteq finished
      BY <2>1 DEF TypeOK, TestsOK, Finished
    <3>3. /\ at'[t] = "looping" => Subscribes[block'[t]] \cap Core \subseteq list'[t]
          /\ at'[t] \in Passed => Subscribes[block'[t]] \cap Core \subseteq finished
          /\ at'[t] \in Entered => Subscribes[block'[t]] \cap awaited = {}
      BY <2>1 DEF TypeOK, TestsOK, Passed, Entered
    <3> QED BY <3>1, <3>2, <3>3, TestsKept
  <2> QED BY <1>2, <2>2, <2>3
<1>7. CASE CheckServlets(t) /\ ~End(t)
  <2>1. /\ at[t] = "ready" /\ Subscribes[block[t]] \cap awaited = {}
        /\ at' = [at EXCEPT ![t] = "entering"] /\ UNCHANGED <<block, list, read>>
    BY <1>7 DEF CheckServlets, Goto
  <2>2. TypeOK' /\ LinksOK'
    BY <1>1, <1>2, <2>1 DEF TypeOK, LinksOK, queue, links
  <2>3. TestsOK'
    <3>1. /\ UNCHANGED <<status, finished, awaited>>
          /\ \A u \in Task \ {t} : /\ at'[u] = at[u] /\ block'[u] = block[u]
                                   /\ list'[u] = list[u] /\ read'[u] = read[u]
      BY <1>1, <2>1 DEF TypeOK, links
    <3>2. read'[t] \subseteq finished
      BY <2>1 DEF TypeOK, TestsOK, Finished
    <3>3. /\ at'[t] = "looping" => Subscribes[block'[t]] \cap Core \subseteq list'[t]
          /\ at'[t] \in Passed => Subscribes[block'[t]] \cap Core \subseteq finished
          /\ at'[t] \in Entered => Subscribes[block'[t]] \cap awaited = {}
      BY <2>1 DEF TypeOK, TestsOK, Passed, Entered
    <3> QED BY <3>1, <3>2, <3>3, TestsKept
  <2> QED BY <1>2, <2>2, <2>3
<1>8. CASE StartEnter(t) /\ ~End(t)
  <2>1. /\ at[t] = "entering"
        /\ at' = [at EXCEPT ![t] = "entered"] /\ UNCHANGED <<block, list, read>>
    BY <1>8 DEF StartEnter, Goto
  <2>2. TypeOK' /\ LinksOK'
    BY <1>1, <1>2, <2>1 DEF TypeOK, LinksOK, queue, links
  <2>3. TestsOK'
    <3>1. /\ UNCHANGED <<status, finished, awaited>>
          /\ \A u \in Task \ {t} : /\ at'[u] = at[u] /\ block'[u] = block[u]
                                   /\ list'[u] = list[u] /\ read'[u] = read[u]
      BY <1>1, <2>1 DEF TypeOK, links
    <3>2. read'[t] \subseteq finished
      BY <2>1 DEF TypeOK, TestsOK, Finished
    <3>3. /\ at'[t] = "looping" => Subscribes[block'[t]] \cap Core \subseteq list'[t]
          /\ at'[t] \in Passed => Subscribes[block'[t]] \cap Core \subseteq finished
          /\ at'[t] \in Entered => Subscribes[block'[t]] \cap awaited = {}
      BY <2>1 DEF TypeOK, TestsOK, Passed, Entered
    <3> QED BY <3>1, <3>2, <3>3, TestsKept
  <2> QED BY <1>2, <2>2, <2>3
<1> QED BY <1>3, <1>4, <1>5, <1>6, <1>7, <1>8

\* startService().
LEMMA StartActions ==
  ASSUME IInv, NEW t \in Task,
         \/ StartMark(t) \/ StartCall(t) \/ StartFail(t) \/ StartError(t) \/ StartReturn(t)
         \/ NotifyStart(t)
  PROVE  IInv'
<1> USE DirectoryAssumption DEF IInv
<1>0. Registered' = Registered /\ UNCHANGED links
  BY DEF Registered, links, StartMark, StartCall, StartFail, StartError, StartReturn,
         NotifyStart
<1>1. CASE StartMark(t)
  <2> USE <1>0, <1>1 DEF StartMark, Goto, queue, links
  <2>1. TypeOK'
    BY DEF TypeOK
  <2>2. LinksOK' /\ NoStartupLost' /\ DependenciesFirst' /\ ServletsAwaited'
    BY DEF TypeOK, LinksOK, NoStartupLost, DependenciesFirst, ServletsAwaited
  <2>3. TestsOK'
    BY DEF TypeOK, TestsOK, Finished, Passed, Entered
  <2> QED BY <2>1, <2>2, <2>3
<1>2. CASE StartCall(t)
  <2>1. /\ at[t] = "marked" /\ UNCHANGED <<block, list, read>>
        /\ \E place \in {"calling", "failed"} : at' = [at EXCEPT ![t] = place]
        /\ \/ started' = [started EXCEPT ![block[t]] = @ + 1]
           \/ UNCHANGED started
        /\ UNCHANGED <<queue, status, finished>>
    BY <1>2 DEF StartCall, Goto
  <2> USE <1>0, <2>1 DEF queue, links
  <2>2. TypeOK'
    <3>1. at' \in [Task -> {"free", "pooled", "looping", "ready", "entering", "entered",
                           "marked", "calling", "failed", "notifying"}]
      BY DEF TypeOK
    <3>2. \A u \in Task : at'[u] = "free" <=> block'[u] = NoName
      BY DEF TypeOK
    <3>3. started' \in [Name -> Nat]
      <4>1. block[t] \in Name
        BY DEF TypeOK
      <4>2. PICK n \in Name : started' = [started EXCEPT ![n] = @ + 1] \/ UNCHANGED started
        BY <4>1
      <4> QED BY <4>2 DEF TypeOK
    <3> QED BY <3>1, <3>2, <3>3 DEF TypeOK
  <2>3. LinksOK' /\ NoStartupLost'
    BY DEF TypeOK, LinksOK, NoStartupLost
  <2>4. DependenciesFirst' /\ ServletsAwaited'
    <3>1. /\ Subscribes[block[t]] \cap Core \subseteq finished
          /\ Subscribes[block[t]] \cap awaited = {}
      BY DEF TestsOK, Passed, Entered
    <3>2. \A n \in Name : started'[n] > 0 => started[n] > 0 \/ n = block[t]
      BY DEF TypeOK
    <3> QED BY <3>1, <3>2 DEF DependenciesFirst, ServletsAwaited
  <2>5. TestsOK'
    <3>1. /\ UNCHANGED <<status, finished, awaited>>
          /\ \A u \in Task \ {t} : /\ at'[u] = at[u] /\ block'[u] = block[u]
                                   /\ list'[u] = list[u] /\ read'[u] = read[u]
      BY DEF TypeOK
    <3>2. /\ at[t] \in Entered /\ at[t] \in Passed /\ at'[t] # "looping"
          /\ block'[t] = block[t] /\ read'[t] = read[t]
      BY DEF TypeOK, Passed, Entered
    <3>3. /\ Subscribes[block'[t]] \cap Core \subseteq finished
          /\ Subscribes[block'[t]] \cap awaited = {}
          /\ read'[t] \subseteq finished
      BY <3>2 DEF TestsOK
    <3> QED BY <3>1, <3>2, <3>3, TestsKept
  <2> QED BY <2>2, <2>3, <2>4, <2>5
<1>3. CASE StartFail(t)
  <2> USE <1>0, <1>3 DEF StartFail, Goto, queue, links
  <2>1. TypeOK'
    BY DEF TypeOK
  <2>2. LinksOK' /\ NoStartupLost' /\ DependenciesFirst' /\ ServletsAwaited'
    BY DEF TypeOK, LinksOK, NoStartupLost, DependenciesFirst, ServletsAwaited
  <2>3. TestsOK'
    BY DEF TypeOK, TestsOK, Finished, Passed, Entered
  <2> QED BY <2>1, <2>2, <2>3
<1>4. CASE StartError(t)
  <2> USE <1>0, <1>4 DEF StartError, queue, links
  <2>1. TypeOK' /\ LinksOK'
    BY EndStep DEF TypeOK, LinksOK
  <2>2. NoStartupLost' /\ DependenciesFirst' /\ ServletsAwaited'
    BY DEF NoStartupLost, DependenciesFirst, ServletsAwaited
  <2>3. TestsOK'
    BY EndStep DEF TypeOK, TestsOK, Finished, Passed, Entered
  <2> QED BY <2>1, <2>2, <2>3
<1>5. CASE StartReturn(t)
  <2> USE <1>0, <1>5 DEF StartReturn, Goto, queue, links
  <2>1. TypeOK'
    BY DEF TypeOK
  <2>2. LinksOK' /\ NoStartupLost' /\ DependenciesFirst' /\ ServletsAwaited'
    BY DEF TypeOK, LinksOK, NoStartupLost, DependenciesFirst, ServletsAwaited
  <2>3. TestsOK'
    BY DEF TypeOK, TestsOK, Finished, Passed, Entered
  <2> QED BY <2>1, <2>2, <2>3
<1>6. CASE NotifyStart(t)
  <2>1. End(t) /\ UNCHANGED <<status, started, finished>> /\ QueueStartups(Subscribers(block[t]))
    BY <1>6 DEF NotifyStart
  <2>2. Subscribers(block[t]) \in SUBSET Registered /\ Registered \in SUBSET Name
    BY RegisteredNames DEF LinksOK, Subscribers
  <2>3. /\ startups' \in Seq(Registered) /\ startups' \in Seq(Name)
        /\ dispatches' \in Nat /\ dispatches' = Len(startups')
    BY <2>1, <2>2, QueueStep DEF LinksOK
  <2>4. TypeOK' /\ LinksOK'
    BY <1>0, <2>1, <2>3, EndStep DEF TypeOK, LinksOK, links
  <2>5. NoStartupLost' /\ DependenciesFirst' /\ ServletsAwaited'
    BY <1>0, <2>1, <2>3 DEF NoStartupLost, DependenciesFirst, ServletsAwaited, links
  <2>6. TestsOK'
    BY <1>0, <2>1, EndStep DEF TypeOK, TestsOK, Finished, Passed, Entered, links
  <2> QED BY <2>4, <2>5, <2>6
<1> QED BY <1>1, <1>2, <1>3, <1>4, <1>5, <1>6

LEMMA NextIInv == IInv /\ [Next]_vars => IInv'
<1> SUFFICES ASSUME IInv, [Next]_vars PROVE IInv' OBVIOUS
<1>1. CASE Run \/ \E n \in Core : InitQueue(n)
  BY <1>1, QueueActions
<1>2. CASE \E s \in Servlet : RegisterLink(s) \/ RegisterRelease(s)
  BY <1>2, RegisterActions
<1>3. CASE \E t \in Task : Startup(t)
  BY <1>3, TestActions, StartActions DEF Startup
<1>4. CASE UNCHANGED vars
  BY <1>4 DEF vars, queue, links, tasks, IInv, TypeOK, NoStartupLost, LinksOK, TestsOK,
              Finished, Registered, DependenciesFirst, ServletsAwaited
<1> QED BY <1>1, <1>2, <1>3, <1>4 DEF Next

LEMMA Invariance == Spec => []IInv
<1>1. Init /\ [][Next]_vars => []IInv
  BY InitIInv, NextIInv, PTL
<1> QED BY <1>1, PTL DEF Spec

-----------------------------------------------------------------------------

\* Every reachable state has the shape TypeOK describes.
THEOREM TypeCorrect == Spec => []TypeOK
BY Invariance, PTL DEF IInv

\* No Startup is left in the queue without an execution of run() to take it out.
THEOREM StartupsServed == Spec => []NoStartupLost
BY Invariance, PTL DEF IInv

\* Whatever the subscriptions are, no block of init() or servlet is started
\* before the blocks of init() it subscribes to have come out of their start().
THEOREM StartedInOrder == Spec => []DependenciesFirst
BY Invariance, PTL DEF IInv

\* No block is started while a servlet it subscribes to is yet to register.
THEOREM StartedAfterServlets == Spec => []ServletsAwaited
BY Invariance, PTL DEF IInv

=============================================================================
