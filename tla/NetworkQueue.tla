---------------------------- MODULE NetworkQueue ----------------------------
(***************************************************************************)
(* The queue of web/NetworkGeneration.java that creates, deletes and        *)
(* processes road networks again, the publishing of a network by            *)
(* geosrv/WayNetworks.java, the status bits both write, and what a restart  *)
(* finds of it in the file of networks.                                     *)
(*                                                                          *)
(* A network is a name; a Network object is a number, because generation,   *)
(* publishing and the list may hold different objects of one network.       *)
(* addStatus() and removeStatus() read and write an int that no monitor     *)
(* guards, so a change of the status is two steps, Load and Store.  A block *)
(* synchronized on m_oProcessQueue is one step unless it contains such a    *)
(* change.                                                                  *)
(***************************************************************************)
EXTENDS Naturals, FiniteSets, SequencesExt

CONSTANTS
  Network,      \* networks, by their id
  Publisher,    \* requests that publish, with the task they submit
  Generation,   \* the thread in execute()
  Reprocess,    \* the thread in doReprocess()
  None,         \* no network, no object, no status
  MaxWork,      \* bound on requests, stops and restarts,
  MaxEnds       \* and on stops and restarts

Thread == Publisher \cup {Generation, Reprocess}

\* Enough objects for the list and for what each thread holds besides.
Object == 1 .. Cardinality(Network) + Cardinality(Thread) + 1

\* The bits of Network.m_nStatus that say what is going on.  Those of the outcome
\* (WORKINPROGRESS, PUBLISHED, ERROR) decide nothing here, and TRAINING, which MLPHurricane
\* sets, is left out.  Where the code removes one bit and adds another, one of the two is left
\* out, and the two changes are one.
Bit == {"assembling", "publishing"}
Change == [op : {"add", "remove"}, bit : Bit]

ASSUME NetworkQueueAssumption ==
  /\ IsFiniteSet(Network) /\ IsFiniteSet(Publisher)
  /\ Generation \notin Publisher /\ Reprocess \notin Publisher /\ Generation # Reprocess
  /\ None \notin Network \cup Nat \cup Change /\ \A s \in SUBSET Bit : s # None
  /\ MaxWork \in Nat /\ MaxEnds \in Nat

Phase == {"idle", "work", "finish", "mark", "publish", "flags", "load", "save"}

VARIABLES
  listed,       \* m_oNetworks: the object of each network, or None
  status,       \* m_nStatus of each object
  queue,        \* m_oProcessQueue
  save,         \* m_bSave
  pc,           \* how far each thread has come
  net, obj,     \* the network and the object it works on
  update,       \* the change of the status it has to make, or None
  seen,         \* the status it has loaded and not stored yet, or None
  copy,         \* what toGeoJsonFeature() gave a publisher for loadNetwork(), or None
  unpublished,  \* networks that have their file of segments,
  published,    \* and their file of published segments
  disk,         \* the file of networks: the status of each, or None
  work,         \* the number of requests and ends so far
  restored,     \* auxiliary: a deletion set m_bSave again during this execution
  astray        \* auxiliary: networks whose status the code has lost control of

vars == <<listed, status, queue, save, pc, net, obj, update, seen, copy,
          unpublished, published, disk, work, restored, astray>>

TypeOK ==
  /\ listed \in [Network -> Object \cup {None}]
  /\ status \in [Object -> SUBSET Bit]
  /\ queue \in Seq(Network)
  /\ save \in BOOLEAN /\ restored \in BOOLEAN
  /\ pc \in [Thread -> Phase]
  /\ net \in [Thread -> Network \cup {None}]
  /\ obj \in [Thread -> Object \cup {None}]
  /\ update \in [Thread -> Change \cup {None}]
  /\ seen \in [Thread -> (SUBSET Bit) \cup {None}]
  /\ copy \in [Publisher -> (SUBSET Bit) \cup {None}]
  /\ unpublished \subseteq Network /\ published \subseteq Network
  /\ disk \in [Network -> (SUBSET Bit) \cup {None}]
  /\ work \in [requests : 0 .. MaxWork, ends : 0 .. MaxEnds]
  /\ astray \subseteq Network
  \* a thread holds an object exactly while it is at work, and the objects
  \* of different networks differ
  /\ \A t \in Thread : obj[t] = None <=> pc[t] = "idle"
  /\ \A m, n \in Network : m # n /\ listed[m] # None => listed[m] # listed[n]

----------------------------------------------------------------------------
(* Threads, monitors and status bits.                                       *)

Idle(t) == pc[t] = "idle"

\* Nobody is in a block of m_oProcessQueue, or of m_oNetworks, that takes several steps:
\* the end of execute(), and reprocessNetwork().
QueueFree == pc[Generation] # "finish" /\ Idle(Reprocess)
ListFree == Idle(Reprocess)

\* t goes to phase p, with the change u to make first.
Go(t, p, u) ==
  /\ pc' = [pc EXCEPT ![t] = p]
  /\ update' = [update EXCEPT ![t] = u]

Take(t, n) ==
  /\ net' = [net EXCEPT ![t] = n]
  /\ obj' = [obj EXCEPT ![t] = listed[n]]

Leave(t) ==
  /\ net' = [net EXCEPT ![t] = None]
  /\ obj' = [obj EXCEPT ![t] = None]

HasUpdated(t) == update[t] = None

AddBit(b) == [op |-> "add", bit |-> b]
RemoveBit(b) == [op |-> "remove", bit |-> b]

Load(t) ==
  /\ update[t] # None /\ seen[t] = None
  /\ seen' = [seen EXCEPT ![t] = status[obj[t]]]
  /\ UNCHANGED <<listed, status, queue, save, pc, net, obj, update, copy,
                 unpublished, published, disk, work, restored, astray>>

\* Writes back what was loaded, changed by one bit; what others stored in between is lost.
Store(t) ==
  LET u == update[t] IN
  /\ seen[t] # None
  /\ status' = [status EXCEPT ![obj[t]] =
                  IF u.op = "add" THEN seen[t] \cup {u.bit} ELSE seen[t] \ {u.bit}]
  /\ seen' = [seen EXCEPT ![t] = None]
  /\ update' = [update EXCEPT ![t] = None]
  /\ astray' = IF status[obj[t]] = seen[t] THEN astray ELSE astray \cup {net[t]}
  /\ UNCHANGED <<listed, queue, save, pc, net, obj, copy,
                 unpublished, published, disk, work, restored>>

\* writeNetworkFile(): list l with the status st.
Written(l, st) == [n \in Network |-> IF l[n] = None THEN None ELSE st[l[n]]]

\* A new object: one that nobody holds.
Fresh ==
  CHOOSE o \in Object : /\ \A n \in Network : listed[n] # o
                        /\ \A t \in Thread : obj[t] # o

Limit == work.requests + work.ends < MaxWork
Request == Limit /\ work' = [work EXCEPT !.requests = @ + 1]
EndOfProcess == Limit /\ work.ends < MaxEnds /\ work' = [work EXCEPT !.ends = @ + 1]

\* An object number for each network.
Number == CHOOSE f \in [Network -> Object] : \A m, n \in Network : f[m] = f[n] => m = n

Init ==
  /\ listed = [n \in Network |-> None]
  /\ disk = [n \in Network |-> None]
  /\ status = [o \in Object |-> {}]
  /\ queue = <<>>
  /\ save = TRUE /\ restored = FALSE
  /\ pc = [t \in Thread |-> "idle"]
  /\ net = [t \in Thread |-> None]
  /\ obj = [t \in Thread |-> None]
  /\ update = [t \in Thread |-> None]
  /\ seen = [t \in Thread |-> None]
  /\ copy = [p \in Publisher |-> None]
  /\ unpublished = {} /\ published = {}
  /\ work = [requests |-> 0, ends |-> 0]
  /\ astray = {}

----------------------------------------------------------------------------
(* The requests of the editor.                                              *)

\* doCreate().  The id is a hash of the coordinates, so the network may exist already: it is
\* queued again then, and its object stays as it is.
Create(n) ==
  LET o == IF listed[n] = None THEN Fresh ELSE listed[n] IN
  /\ Request /\ QueueFree
  /\ listed' = [listed EXCEPT ![n] = o]
  /\ status' = IF listed[n] = None THEN [status EXCEPT ![o] = {"assembling"}] ELSE status
  /\ disk' = Written(listed', status')
  /\ queue' = Append(queue, n)
  /\ UNCHANGED <<save, pc, net, obj, update, seen, copy, unpublished, published,
                 restored, astray>>

\* The value m_bSave takes when the entry of n at position i leaves the queue: only the first
\* one can be in execution.
SaveWithout_Always(i) == i \in Nat
SaveWithout(i) == i # 1 \/ pc[Generation] = "idle"

\* deleteNetwork(), then the first entry of n leaves the queue.
Delete(n) ==
  LET i == CHOOSE i \in DOMAIN queue : queue[i] = n /\ \A j \in 1 .. i - 1 : queue[j] # n
      found == Contains(queue, n)
  IN
  /\ Request /\ QueueFree
  /\ listed[n] # None
  /\ listed' = [listed EXCEPT ![n] = None]
  /\ disk' = Written(listed', status)
  /\ unpublished' = unpublished \ {n}
  /\ published' = published \ {n}
  /\ queue' = RemoveFirst(queue, n)
  /\ save' = IF found THEN SaveWithout(i) ELSE save
  /\ restored' = (restored \/ (pc[Generation] # "idle" /\ ~save /\ save'))
  /\ astray' = astray \ {n}
  /\ UNCHANGED <<status, pc, net, obj, update, seen, copy>>

\* doReprocess(), to the end of reprocessNetwork() and then of the request.
ReprocessStart(n) ==
  /\ Request /\ QueueFree
  /\ listed[n] # None
  /\ Take(Reprocess, n)
  /\ Go(Reprocess, "mark", AddBit("assembling"))
  /\ UNCHANGED <<listed, status, queue, save, seen, copy, unpublished, published, disk,
                 restored, astray>>

ReprocessEnd ==
  /\ pc[Reprocess] = "mark" /\ HasUpdated(Reprocess)
  /\ disk' = Written(listed, status)
  /\ queue' = Append(queue, net[Reprocess])
  /\ Go(Reprocess, "idle", None)
  /\ Leave(Reprocess)
  /\ UNCHANGED <<listed, status, save, seen, copy, unpublished, published, work,
                 restored, astray>>

----------------------------------------------------------------------------
(* execute().                                                               *)

\* Mutants: the id of a missing network stays in the queue; it is taken up all the same.
TakeFirst_Peek ==
  LET n == Head(queue) IN
  /\ Idle(Generation) /\ QueueFree
  /\ queue # <<>>
  /\ save' = TRUE /\ restored' = FALSE
  /\ IF listed[n] # None
     THEN /\ Take(Generation, n)
          /\ Go(Generation, "work", None)
          /\ UNCHANGED queue
     ELSE /\ UNCHANGED <<queue, pc, update, net, obj>>
  /\ UNCHANGED <<listed, status, seen, copy, unpublished, published, disk, work, astray>>

TakeFirst_NoCheck ==
  LET n == Head(queue) IN
  /\ Idle(Generation) /\ QueueFree
  /\ queue # <<>>
  /\ save' = TRUE /\ restored' = FALSE
  /\ Take(Generation, n)
  /\ Go(Generation, "work", None)
  /\ UNCHANGED queue
  /\ UNCHANGED <<listed, status, seen, copy, unpublished, published, disk, work, astray>>

\* A tick of the schedule, which comes without end, finds the block IDLE, and execute() goes
\* through its first block; ticks that requests and executions ask for come on top of it.  The
\* id of a network that does not exist any more has left the queue when the exception is
\* thrown.  That the block is RUNNING shortly before and after would show in m_bSave only,
\* which nobody reads before it is set here.
TakeFirst ==
  LET n == Head(queue) IN
  /\ Idle(Generation) /\ QueueFree
  /\ queue # <<>>
  /\ save' = TRUE /\ restored' = FALSE
  /\ IF listed[n] # None
     THEN /\ Take(Generation, n)
          /\ Go(Generation, "work", None)
          /\ UNCHANGED queue
     ELSE /\ queue' = Tail(queue)
          /\ UNCHANGED <<pc, update, net, obj>>
  /\ UNCHANGED <<listed, status, seen, copy, unpublished, published, disk, work, astray>>

\* An exception on the way: the network stays in the queue, and nothing is scheduled.
Fail ==
  /\ pc[Generation] = "work" /\ QueueFree
  /\ status' = [status EXCEPT ![obj[Generation]] = {}]
  /\ disk' = Written(listed, status')
  /\ Go(Generation, "idle", None)
  /\ Leave(Generation)
  /\ UNCHANGED <<listed, queue, save, seen, copy, unpublished, published, work,
                 restored, astray>>

\* The second block of the monitor; with m_bSave its end is another step.
Done ==
  LET n == net[Generation] IN
  /\ pc[Generation] = "work" /\ QueueFree
  /\ IF save
     THEN /\ unpublished' = unpublished \cup {n}
          /\ queue' = IF queue = <<>> THEN queue ELSE Tail(queue)
          /\ Go(Generation, "finish", RemoveBit("assembling"))
          /\ astray' = IF restored /\ queue # <<>> THEN astray \cup {Head(queue)} ELSE astray
          /\ UNCHANGED <<net, obj>>
     ELSE /\ Go(Generation, "idle", None)
          /\ Leave(Generation)
          /\ UNCHANGED <<unpublished, queue, astray>>
  /\ UNCHANGED <<listed, status, save, seen, copy, published, disk, work, restored>>

Finish ==
  /\ pc[Generation] = "finish" /\ HasUpdated(Generation)
  /\ disk' = Written(listed, status)
  /\ Go(Generation, "idle", None)
  /\ Leave(Generation)
  /\ UNCHANGED <<listed, status, queue, save, seen, copy, unpublished, published, work,
                 restored, astray>>

----------------------------------------------------------------------------
(* publishNetwork().                                                        *)

\* The test, which no monitor joins to the change; for a network that does not exist it
\* throws, and nothing changes.
PublishStart(p, n) ==
  /\ Request /\ ListFree
  /\ Idle(p)
  /\ listed[n] # None /\ "publishing" \notin status[listed[n]]
  /\ Take(p, n)
  /\ Go(p, "mark", AddBit("publishing"))
  /\ UNCHANGED <<listed, status, queue, save, seen, copy, unpublished, published, disk,
                 restored, astray>>

\* The file is written and the task submitted.
PublishSubmit(p) ==
  /\ pc[p] = "mark" /\ HasUpdated(p) /\ ListFree
  /\ disk' = Written(listed, status)
  /\ Go(p, "publish", None)
  /\ UNCHANGED <<listed, status, queue, save, net, obj, seen, copy, unpublished, published,
                 work, restored, astray>>

\* OsmUtil.publishNetwork() makes the published file of the other one.
PublishFile(p) ==
  /\ pc[p] = "publish"
  /\ net[p] \in unpublished
  /\ published' = published \cup {net[p]}
  /\ Go(p, "flags", RemoveBit("publishing"))
  /\ UNCHANGED <<listed, status, queue, save, net, obj, seen, copy, unpublished, disk, work,
                 restored, astray>>

\* The status is copied for loadNetwork(), which reads the published file.
PublishRead(p) ==
  /\ pc[p] = "flags" /\ HasUpdated(p)
  /\ net[p] \in published
  /\ copy' = [copy EXCEPT ![p] = status[obj[p]]]
  /\ Go(p, "load", None)
  /\ UNCHANGED <<listed, status, queue, save, net, obj, seen, unpublished, published, disk,
                 work, restored, astray>>

\* loadNetwork() puts a new object into the list, in place of the one that is there.  Who
\* works on the old one does not reach the status of the new one.
PublishLoad(p) ==
  /\ pc[p] = "load" /\ ListFree
  /\ listed' = [listed EXCEPT ![net[p]] = Fresh]
  /\ status' = [status EXCEPT ![Fresh] = copy[p]]
  /\ copy' = [copy EXCEPT ![p] = None]
  /\ Go(p, "save", None)
  /\ astray' = IF copy[p] = {} THEN astray
               ELSE astray \cup {net[p]}
  /\ UNCHANGED <<queue, save, net, obj, seen, unpublished, published, disk, work, restored>>

\* Mutant: the status stays as it is.
PublishFail_KeepStatus(p) ==
  /\ pc[p] \in {"publish", "flags", "load"} /\ HasUpdated(p)
  /\ copy' = [copy EXCEPT ![p] = None]
  /\ Go(p, "save", None)
  /\ UNCHANGED <<listed, status, queue, save, net, obj, seen, unpublished, published, disk, work,
                 restored, astray>>

\* An exception before the list is changed.
PublishFail(p) ==
  /\ pc[p] \in {"publish", "flags", "load"} /\ HasUpdated(p)
  /\ status' = [status EXCEPT ![obj[p]] = {}]
  /\ copy' = [copy EXCEPT ![p] = None]
  /\ Go(p, "save", None)
  /\ UNCHANGED <<listed, queue, save, net, obj, seen, unpublished, published, disk, work,
                 restored, astray>>

PublishSave(p) ==
  /\ pc[p] = "save" /\ ListFree
  /\ disk' = Written(listed, status)
  /\ Go(p, "idle", None)
  /\ Leave(p)
  /\ UNCHANGED <<listed, status, queue, save, seen, copy, unpublished, published, work,
                 restored, astray>>

----------------------------------------------------------------------------
(* WayNetworks.stop(), and the end of the process, orderly or not, with the *)
(* start() that follows.                                                    *)

Stop ==
  /\ EndOfProcess /\ ListFree
  /\ status' = [o \in Object |-> IF \E n \in Network : listed[n] = o
                                 THEN status[o] \ {"publishing"} ELSE status[o]]
  /\ disk' = Written(listed, status')
  /\ UNCHANGED <<listed, queue, save, pc, net, obj, update, seen, copy, unpublished,
                 published, restored, astray>>

\* The networks come from the file; the queue is empty, and no thread is at work.
Restart ==
  /\ EndOfProcess
  /\ listed' = [n \in Network |-> IF disk[n] = None THEN None ELSE Number[n]]
  /\ status' = [o \in Object |-> IF \E n \in Network : listed'[n] = o
                                 THEN disk[CHOOSE n \in Network : Number[n] = o] ELSE {}]
  /\ queue' = <<>>
  /\ save' = TRUE /\ restored' = FALSE
  /\ pc' = [t \in Thread |-> "idle"]
  /\ net' = [t \in Thread |-> None]
  /\ obj' = [t \in Thread |-> None]
  /\ update' = [t \in Thread |-> None]
  /\ seen' = [t \in Thread |-> None]
  /\ copy' = [p \in Publisher |-> None]
  /\ astray' = {n \in Network : disk[n] \notin {None, {}}}
  /\ UNCHANGED <<unpublished, published, disk>>

----------------------------------------------------------------------------
Ask ==
  \E n \in Network : \/ Create(n) \/ Delete(n) \/ ReprocessStart(n)
                     \/ \E p \in Publisher : PublishStart(p, n)

Generate == TakeFirst \/ Fail \/ Done \/ Finish

Publish(p) ==
  \/ PublishSubmit(p) \/ PublishFile(p) \/ PublishRead(p) \/ PublishLoad(p)
  \/ PublishFail(p) \/ PublishSave(p)

Update(t) == Load(t) \/ Store(t)

Next ==
  \/ Ask \/ ReprocessEnd
  \/ Generate
  \/ \E p \in Publisher : Publish(p)
  \/ \E t \in Thread : Update(t)
  \/ Stop \/ Restart

\* Ticks come and threads go on; and an execution that is tried again and again comes through
\* some time, for what fails is a download.
Fairness ==
  /\ WF_vars(TakeFirst) /\ WF_vars(Finish)
  /\ WF_vars(ReprocessEnd)
  /\ \A t \in Thread : WF_vars(Update(t))
  /\ SF_vars(Done)

Spec == Init /\ [][Next]_vars /\ Fairness

----------------------------------------------------------------------------
(* Properties.                                                              *)

\* What a status says is going on is going on: a network that is assembling is in the queue or
\* about to be taken in, and one that is publishing has a publisher at work on this object.
\* This is what the page relies on when it refuses to open such a network.  Astray are those
\* that lost it: by a stale store, by loadNetwork() copying the status of somebody else's
\* work, by the removal of another network's entry, and by a restart.
StatusTellsWork ==
  \A n \in Network : listed[n] # None /\ n \notin astray =>
    LET o == listed[n] IN
    /\ "assembling" \in status[o] =>
         \/ Contains(queue, n)
         \/ \E t \in {Generation, Reprocess} : obj[t] = o /\ pc[t] \in {"finish", "mark"}
    /\ "publishing" \in status[o] => \E p \in Publisher : obj[p] = o

\* The execution that is going to save its network takes the entry of this network out of the
\* queue and no other one: the entry stays at the head as long as m_bSave is true, unless a
\* further deletion has set m_bSave again.
SavesItsOwn ==
  pc[Generation] = "work" /\ save /\ ~restored =>
    /\ listed[net[Generation]] # None
    /\ queue # <<>> /\ Head(queue) = net[Generation]

\* A network deleted while it is processed is not saved, as the comment at the start of
\* execute() promises.
DeletedNotSaved ==
  pc[Generation] = "work" /\ listed[net[Generation]] = None => ~save

\* No entry of the queue stays for ever, whatever fails before it, with ids that are there
\* twice, or whose network does not exist any more.
QueueServed == \A n \in Network : Contains(queue, n) ~> ~Contains(queue, n)
=============================================================================
