------------------------ MODULE NetworkEditor_proofs ------------------------
(***************************************************************************)
(* What is proved of EditLists, for any networks, roads, number of requests *)
(* and lists, whatever the client sends and whichever request fails; and of *)
(* NetworkEditor: the editing page is one of these clients, so what is      *)
(* proved of the edit lists holds of the page and the server together; and  *)
(* the picture on the page is what a save would write.                      *)
(***************************************************************************)
EXTENDS NetworkEditor, FiniteSetTheorems, TLAPS

-----------------------------------------------------------------------------
(* The edit lists of the server.                                           *)


\* Who is inside which monitor follows from how far the requests are.
Monitors ==
  /\ \A q \in Request : tableOwner = q <=> pc[q] = "locking"
  /\ \A q \in Request : pc[q] = "saved" => listOwner[ref[q]] = q
  /\ \A l \in List, q \in Request : listOwner[l] = q => pc[q] = "saved" /\ ref[q] = l
  /\ \A q \in Request : pc[q] \in {"locking", "got", "saved"} => ref[q] \in List

IInv == EditListsTypeOK /\ Monitors

LEMMA CallsExist == (CHOOSE c \in Call : TRUE) \in Call
<1>1. PICK n \in Network, w \in Way : TRUE
  BY EditListsAssumption
<1>2. [op |-> "geo", network |-> n, way |-> w] \in Call
  BY DEF Call, Op
<1> QED BY <1>2

LEMMA EmptyListType == \A n \in Network : EmptyList(n) \in Lists
  BY DEF EmptyList, Lists

\* The initial state satisfies the invariant.
LEMMA InitIInv == EditListsInit => IInv
<1> SUFFICES ASSUME EditListsInit PROVE IInv
  OBVIOUS
<1> USE DEF EditListsInit
<1>1. (CHOOSE n \in Network : TRUE) \in Network
  BY EditListsAssumption
<1>2. call \in [Request -> Call]
  BY CallsExist
<1>3. list \in [List -> Lists]
  BY <1>1, EmptyListType
<1>4. EditListsTypeOK
  BY <1>2, <1>3, EditListsAssumption DEF EditListsTypeOK, Phase
<1>5. Monitors
  BY EditListsAssumption DEF Monitors
<1> QED BY <1>4, <1>5 DEF IInv

-----------------------------------------------------------------------------
(* Type correctness is kept, one lemma for the client and one for the server. *)

LEMMA SendType ==
  ASSUME EditListsTypeOK, NEW Q \in SUBSET Request, NEW c \in Call, Send(Q, c)
  PROVE  EditListsTypeOK'
BY DEF Send, EditListsTypeOK, Phase

LEMMA ClientType ==
  ASSUME EditListsTypeOK, NEW q \in Request, Client(q) PROVE EditListsTypeOK'
<1> USE DEF EditListsTypeOK, Phase
<1>1. CASE \E c \in Call : TakeAndSend(q, c)
  BY <1>1 DEF TakeAndSend
<1>2. CASE Take(q, "done") \/ Take(q, "failed")
  BY <1>2, CallsExist DEF Take
<1>3. CASE Lose(q)
  BY <1>3 DEF Lose
<1> QED BY <1>1, <1>2, <1>3 DEF Client

LEMMA ServeType ==
  ASSUME IInv, NEW q \in Request, Serve(q) PROVE EditListsTypeOK'
<1> USE DEF EditListsTypeOK, Phase, IInv
<1>0. call[q] \in Call /\ call[q].network \in Network /\ call[q].way \in Way
  BY DEF Call
<1>1. CASE GetEnter(q)
  <2>1. sessionList' \in List
    BY <1>1 DEF GetEnter, Unused
  <2>2. list' \in [List -> Lists]
    BY <1>0, <1>1, EmptyListType DEF GetEnter
  <2> QED BY <1>1, <2>1, <2>2 DEF GetEnter
<1>2. CASE GetLeave(q)
  BY <1>0, <1>2, EmptyListType DEF GetLeave
<1>3. ASSUME NEW l, NEW answer, l \in Lists, answer \in SUBSET Way, Answer(q, l, answer)
      PROVE  EditListsTypeOK'
  BY <1>3 DEF Answer
<1>4. ASSUME pc[q] = "got" PROVE list[ref[q]] \in Lists
  BY <1>4 DEF Monitors
<1>5. CASE Add(q)
  <2> DEFINE l == list[ref[q]]
  <2>1. [l EXCEPT !.add = @ \cup {call[q].way}, !.remove = @ \ {call[q].way}] \in Lists
    BY <1>0, <1>4, <1>5 DEF Add, InList, Lists
  <2> QED BY <1>3, <1>5, <2>1 DEF Add
<1>6. CASE Remove(q)
  <2> DEFINE l == list[ref[q]]
  <2>1. [l EXCEPT !.add = @ \ {call[q].way}, !.remove = @ \cup {call[q].way}] \in Lists
    BY <1>0, <1>4, <1>6 DEF Remove, InList, Lists
  <2> QED BY <1>3, <1>6, <2>1 DEF Remove
<1>7. CASE Geo(q)
  <2> DEFINE l == list[ref[q]]
  <2>1. [l EXCEPT !.ways = file[call[q].network]] \in Lists
    BY <1>0, <1>4, <1>7 DEF Geo, InList, Lists
  <2> QED BY <1>0, <1>3, <1>7, <2>1 DEF Geo
<1>8. CASE Hash(q)
  <2> DEFINE l == list[ref[q]]
  <2>1. [l EXCEPT !.ways = @ \cup Way] \in Lists
    BY <1>4, <1>8 DEF Hash, InList, Lists
  <2> QED BY <1>3, <1>8, <2>1 DEF Hash
<1>9. CASE SaveApply(q)
  <2> DEFINE l == list[ref[q]]
  <2>1. l \in Lists /\ l.network \in Network
    BY <1>4, <1>9 DEF SaveApply, InList, Lists
  <2>2. Edited(l, file[call[q].network]) \in SUBSET Way
    BY <1>0, <2>1 DEF Edited, Lists
  <2>3. list' \in [List -> Lists]
    BY <1>9, <2>1, EmptyListType DEF SaveApply
  <2> QED BY <1>9, <2>2, <2>3 DEF SaveApply
<1>10. CASE SaveRemove(q)
  BY <1>10 DEF SaveRemove
<1>11. CASE SaveWrite(q)
  BY <1>0, <1>11 DEF SaveWrite
<1>12. CASE ServerFail(q)
  <2>1. CASE UNCHANGED list
    BY <1>12, <2>1 DEF ServerFail
  <2>2. ASSUME NEW ways \in SUBSET file[call[q].network], pc[q] = "got",
               list' = [list EXCEPT ![ref[q]] = [@ EXCEPT !.ways = ways]]
        PROVE  EditListsTypeOK'
    <3>1. [list[ref[q]] EXCEPT !.ways = ways] \in Lists
      BY <1>0, <1>4, <2>2 DEF Lists
    <3>2. list' \in [List -> Lists]
      BY <2>2, <3>1
    <3> QED BY <1>12, <3>2 DEF ServerFail
  <2> QED BY <1>12, <2>1, <2>2 DEF ServerFail, InList
<1> QED
  BY <1>1, <1>2, <1>5, <1>6, <1>7, <1>8, <1>9, <1>10, <1>11, <1>12 DEF Serve, Body

-----------------------------------------------------------------------------
(* So is the invariant on the monitors.                                      *)

LEMMA SendMonitors ==
  ASSUME IInv, NEW Q \in SUBSET Request, NEW c \in Call, Send(Q, c) PROVE Monitors'
BY DEF Send, IInv, EditListsTypeOK, Phase, Monitors

LEMMA ClientMonitors ==
  ASSUME IInv, NEW q \in Request, Client(q) PROVE Monitors'
<1> USE DEF IInv, EditListsTypeOK, Phase, Monitors
<1>1. CASE \E c \in Call : TakeAndSend(q, c)
  BY <1>1 DEF TakeAndSend
<1>2. CASE Take(q, "done") \/ Take(q, "failed")
  BY <1>2 DEF Take
<1>3. CASE Lose(q)
  BY <1>3 DEF Lose
<1> QED BY <1>1, <1>2, <1>3 DEF Client

LEMMA ServeMonitors ==
  ASSUME IInv, NEW q \in Request, Serve(q) PROVE Monitors'
<1> USE DEF IInv, EditListsTypeOK, Phase, Monitors
<1>1. CASE GetEnter(q)
  <2>1. sessionList' \in List
    BY <1>1 DEF GetEnter, Unused
  <2> QED BY <1>1, <2>1, EditListsAssumption DEF GetEnter
<1>2. CASE GetLeave(q)
  BY <1>2, EditListsAssumption DEF GetLeave
<1>3. ASSUME NEW l, NEW answer, InList(q), Answer(q, l, answer) PROVE Monitors'
  BY <1>3 DEF Answer, InList
<1>4. CASE Add(q) \/ Remove(q) \/ Geo(q) \/ Hash(q)
  BY <1>3, <1>4 DEF Add, Remove, Geo, Hash
<1>5. CASE SaveApply(q)
  BY <1>5, EditListsAssumption DEF SaveApply, InList
<1>6. CASE SaveRemove(q)
  BY <1>6, EditListsAssumption DEF SaveRemove
<1>7. CASE SaveWrite(q)
  BY <1>7 DEF SaveWrite
<1>8. CASE ServerFail(q)
  BY <1>8 DEF ServerFail, InList
<1> QED BY <1>1, <1>2, <1>4, <1>5, <1>6, <1>7, <1>8 DEF Serve, Body

LEMMA StepIInv == IInv /\ [EditListsNext]_serverVars => IInv'
<1> SUFFICES ASSUME IInv, [EditListsNext]_serverVars PROVE IInv'
  OBVIOUS
<1>1. CASE UNCHANGED serverVars
  BY <1>1 DEF IInv, EditListsTypeOK, Monitors, serverVars
<1>2. ASSUME NEW q \in Request, Client(q) PROVE IInv'
  BY <1>2, ClientType, ClientMonitors DEF IInv
<1>3. ASSUME NEW q \in Request, Serve(q) PROVE IInv'
  BY <1>3, ServeType, ServeMonitors DEF IInv
<1>4. ASSUME NEW Q \in SUBSET Request, NEW c \in Call, Send(Q, c) PROVE IInv'
  BY <1>4, SendType, SendMonitors DEF IInv
<1> QED BY <1>1, <1>2, <1>3, <1>4 DEF EditListsNext

\* Whoever cannot go on waits for a monitor, whose owner is one of two kinds of request.
LEMMA IInvOneDeadlock == IInv => OneDeadlock
<1> SUFFICES ASSUME IInv, NEW q \in Request, OnServer(q),
                    \A r \in Request : ~CanServe(r)
             PROVE  SaveMeetsLookup
  BY DEF OneDeadlock
<1> USE DEF IInv, EditListsTypeOK, Phase
<1>1. tableOwner # NoRequest
  <2>1. CASE pc[q] \in {"sent", "saved"}
    BY <2>1 DEF CanServe
  <2>2. CASE pc[q] = "locking"
    BY <2>2, EditListsAssumption DEF Monitors
  <2>3. CASE pc[q] = "got"
    <3>1. ref[q] \in List /\ listOwner[ref[q]] # NoRequest
      BY <2>3 DEF CanServe, Monitors
    <3>2. PICK s \in Request : listOwner[ref[q]] = s
      BY <3>1
    <3>3. pc[s] = "saved"
      BY <3>1, <3>2 DEF Monitors
    <3> QED BY <3>3 DEF CanServe
  <2>4. CASE pc[q] = "writing"
    BY <2>4 DEF CanServe
  <2> QED BY <2>1, <2>2, <2>3, <2>4 DEF OnServer
<1>2. PICK g \in Request : tableOwner = g
  BY <1>1
<1>3. pc[g] = "locking" /\ ref[g] \in List
  BY <1>2 DEF Monitors
<1>4. listOwner[ref[g]] # NoRequest
  BY <1>3 DEF CanServe
<1>5. PICK s \in Request : listOwner[ref[g]] = s
  BY <1>3, <1>4
<1>6. pc[s] = "saved" /\ ref[s] = ref[g]
  BY <1>3, <1>5 DEF Monitors
<1> QED BY <1>2, <1>3, <1>5, <1>6 DEF SaveMeetsLookup

-----------------------------------------------------------------------------

LEMMA Invariance == EditListsSpec => []IInv
<1> QED BY InitIInv, StepIInv, PTL DEF EditListsSpec

\* Every reachable state of the edit lists has the shape its type invariant states.
THEOREM ListsTypeCorrect == EditListsSpec => []EditListsTypeOK
<1>1. IInv => EditListsTypeOK
  BY DEF IInv
<1> QED BY <1>1, Invariance, PTL

\* The handlers of web/NetworkGeneration.java block each other for good in one way only,
\* however many requests of a session are handled at once.
THEOREM DeadlockIsUnique == EditListsSpec => []OneDeadlock
<1> QED BY Invariance, IInvOneDeadlock, PTL

-----------------------------------------------------------------------------
(* The edits of a list contradict each other in no list.                     *)

LEMMA StepDisjoint ==
  ASSUME IInv, EditsDisjoint, [EditListsNext]_serverVars PROVE EditsDisjoint'
<1> USE DEF EditsDisjoint
<1>1. CASE UNCHANGED list
  BY <1>1
<1>2. ASSUME NEW l \in List, NEW r, list' = [list EXCEPT ![l] = r], r.add \cap r.remove = {}
      PROVE  EditsDisjoint'
  BY <1>2 DEF IInv, EditListsTypeOK
<1>3. \A n : EmptyList(n).add \cap EmptyList(n).remove = {}
  BY DEF EmptyList
<1>4. ASSUME NEW q \in Request, Serve(q) PROVE EditsDisjoint'
  <2>1. CASE GetEnter(q)
    <3>1. sessionList' \in List
      BY <2>1 DEF GetEnter, Unused, IInv, EditListsTypeOK
    <3> QED BY <1>1, <1>2, <1>3, <2>1, <3>1 DEF GetEnter
  <2>2. pc[q] \in {"locking", "got"} => ref[q] \in List /\ list[ref[q]] \in Lists
    BY DEF IInv, Monitors, EditListsTypeOK
  <2>3. CASE GetLeave(q)
    BY <1>1, <1>2, <1>3, <2>2, <2>3 DEF GetLeave
  <2>4. CASE Add(q)
    BY <1>2, <2>2, <2>4 DEF Add, InList, Answer, Lists
  <2>5. CASE Remove(q)
    BY <1>2, <2>2, <2>5 DEF Remove, InList, Answer, Lists
  <2>6. CASE Geo(q)
    BY <1>2, <2>2, <2>6 DEF Geo, InList, Answer, Lists
  <2>7. CASE Hash(q)
    BY <1>2, <2>2, <2>7 DEF Hash, InList, Answer, Lists
  <2>8. CASE SaveApply(q)
    BY <1>2, <1>3, <2>2, <2>8 DEF SaveApply, InList
  <2>9. CASE SaveRemove(q) \/ SaveWrite(q)
    BY <1>1, <2>9 DEF SaveRemove, SaveWrite
  <2>10. CASE ServerFail(q)
    <3>1. ASSUME NEW ways \in SUBSET file[call[q].network], pc[q] = "got",
                 list' = [list EXCEPT ![ref[q]] = [@ EXCEPT !.ways = ways]]
          PROVE  EditsDisjoint'
      <4> DEFINE r == [list[ref[q]] EXCEPT !.ways = ways]
      <4>1. r.add \cap r.remove = {}
        BY <2>2, <3>1 DEF Lists
      <4> QED BY <1>2, <2>2, <3>1, <4>1
    <3> QED BY <1>1, <2>10, <3>1 DEF ServerFail, InList
  <2> QED
    BY <1>4, <2>1, <2>3, <2>4, <2>5, <2>6, <2>7, <2>8, <2>9, <2>10 DEF Serve, Body
<1>5. ASSUME NEW q \in Request, Client(q) PROVE EditsDisjoint'
  BY <1>1, <1>5 DEF Client, TakeAndSend, Take, Lose
<1>6. ASSUME NEW Q \in SUBSET Request, NEW c \in Call, Send(Q, c) PROVE EditsDisjoint'
  BY <1>1, <1>6 DEF Send
<1> QED BY <1>1, <1>4, <1>5, <1>6 DEF EditListsNext, serverVars

\* A road is never both to be added and to be removed, in any list.
THEOREM EditsNeverContradict == EditListsSpec => []EditsDisjoint
<1>1. EditListsInit => EditsDisjoint
  BY DEF EditListsInit, EditsDisjoint, EmptyList
<1> QED BY <1>1, Invariance, StepDisjoint, PTL DEF EditListsSpec

-----------------------------------------------------------------------------
(* The page.                                                               *)


\* A save is only sent for a network that was opened, and none is closed again.
Opened == \A q \in Request : InFlight(q) /\ call[q].op = "save" => cur \in Network

LEMMA AskType ==
  \A op \in Op, n \in Network, w \in Way : Ask(op, n, w) \in Call
BY DEF Ask, Call

LEMMA AnyWayType == AnyWay \in Way
BY EditListsAssumption DEF AnyWay

\* The requests of the page are among those the server may get.
LEMMA Sends ==
  ASSUME TypeOK, Opened, Next PROVE [EditListsNext]_serverVars
<1> USE DEF EditListsNext, Client
<1>1. CASE \E q \in Request, n \in Network : ConfirmLoadNetwork(q, n)
  <2>1. PICK q \in Request, n \in Network : ConfirmLoadNetwork(q, n)
    BY <1>1
  <2>2. Ask("geo", n, AnyWay) \in Call
    BY AskType, AnyWayType DEF Op
  <2> QED BY <2>1, <2>2 DEF ConfirmLoadNetwork
<1>2. CASE \E q \in Request : GetHash(q) \/ SaveChanges(q)
  <2>1. PICK q \in Request : GetHash(q) \/ SaveChanges(q)
    BY <1>2
  <2>2. cur \in Network
    BY <2>1 DEF GetHash, SaveChanges, Usable, TypeOK
  <2>3. Ask("hash", cur, AnyWay) \in Call /\ Ask("save", cur, AnyWay) \in Call
    BY <2>2, AskType, AnyWayType DEF Op
  <2> QED BY <2>1, <2>3 DEF GetHash, SaveChanges
<1>3. CASE \E Q \in SUBSET Request, w \in Way : ToggleInclude(Q, w)
  <2>1. PICK Q \in SUBSET Request, w \in Way : ToggleInclude(Q, w)
    BY <1>3
  <2>2. cur \in Network
    BY <2>1 DEF ToggleInclude, TypeOK
  <2>3. Ask(IF shown[w] = "in" THEN "remove" ELSE "add", cur, w) \in Call
    BY <2>2, AskType DEF Op
  <2> QED BY <2>1, <2>3 DEF ToggleInclude
<1>4. ASSUME NEW q \in Request, Answered(q) PROVE [EditListsNext]_serverVars
  <2>1. CASE SaveDone(q)
    <3>1. cur \in Network
      BY <2>1 DEF SaveDone, TakeAndSend, Opened, InFlight
    <3>2. Ask("geo", cur, AnyWay) \in Call
      BY <3>1, AskType, AnyWayType DEF Op
    <3> QED BY <2>1, <3>2 DEF SaveDone
  <2>2. CASE SelectSuccess(q) \/ GeoFail(q) \/ HashSuccess(q) \/ HashFail(q)
    BY <2>2 DEF SelectSuccess, GeoFail, HashSuccess, HashFail
  <2>3. CASE ToggleDone(q) \/ ToggleFail(q) \/ SaveFail(q)
    BY <2>3 DEF ToggleDone, ToggleFail, SaveFail
  <2> QED BY <1>4, <2>1, <2>2, <2>3 DEF Answered
<1>5. CASE \E q \in Request : (Serve(q) \/ Lose(q)) /\ UNCHANGED pageVars
  BY <1>5
<1>6. CASE NetworksSuccess \/ PublishDone \/ PublishFail
  BY <1>6 DEF NetworksSuccess, PublishDone, PublishFail, SwitchToMain
<1>7. CASE \/ TurnOffDelete \/ StartAddRemove \/ KeyupExitAddRemove
           \/ ConfirmCancel \/ CancelEdits \/ ContinueEditing \/ ConfirmPublishNetwork
  BY <1>7 DEF TurnOffDelete, StartAddRemove, KeyupExitAddRemove, ConfirmCancel, CancelEdits,
              ContinueEditing, ConfirmPublishNetwork, SwitchToMain
<1> QED
  BY <1>1, <1>2, <1>3, <1>4, <1>5, <1>6, <1>7 DEF Next, User

-----------------------------------------------------------------------------
(* The type invariant of the page.                                          *)

PInv == TypeOK /\ Monitors /\ Opened

\* The part of TypeOK about the page's own variables.
PageTypeOK ==
  /\ page \in {"listing", "select", "opening", "edit"}
  /\ cur \in Network \cup {NoNetwork}
  /\ page = "edit" => cur \in Network
  /\ shown \in [Way -> {"absent", "out", "in"}]
  /\ clickers \in 0..MaxListeners /\ keys \in 0..MaxListeners
  /\ {adding, edits, disabled, asking, loadingHash, publishing, alone, trusted} \subseteq BOOLEAN
  /\ sends \in 0..MaxSends /\ canceled \subseteq Way
  /\ hash \in {"none", "loading", "loaded"}
  /\ stale \subseteq Toggles
  /\ reload \subseteq {q \in Request : InFlight(q) /\ call[q].op = "geo"}

LEMMA NoteSentType ==
  ASSUME NEW Q \in SUBSET Request, sends \in 0..MaxSends, NoteSent(Q)
  PROVE  sends' \in 0..MaxSends /\ alone' \in BOOLEAN
<1>1. Cardinality(Q) \in Nat
  BY FS_Subset, FS_CardinalityType, NetworkEditorAssumption
<1> QED BY <1>1, NetworkEditorAssumption DEF NoteSent

LEMMA TurnOffType ==
  ASSUME NEW times \in Nat, clickers \in 0..MaxListeners, TurnOffAddRemove(times)
  PROVE  clickers' \in 0..MaxListeners /\ keys' \in 0..MaxListeners
BY NetworkEditorAssumption DEF TurnOffAddRemove

LEMMA SwitchToMainType ==
  ASSUME TypeOK, SwitchToMain, canceled' \subseteq Way, publishing' \in BOOLEAN
  PROVE  PageTypeOK' /\ (Opened => Opened')
<1>1. clickers' \in 0..MaxListeners /\ keys' \in 0..MaxListeners
  BY TurnOffType DEF TypeOK, SwitchToMain
<1> QED
  BY <1>1 DEF SwitchToMain, TypeOK, PageTypeOK, Opened, serverVars, Toggles, InFlight

\* The steps that send nothing and take no answer.
LEMMA QuietPage ==
  ASSUME PInv,
         \/ NetworksSuccess \/ TurnOffDelete \/ StartAddRemove \/ KeyupExitAddRemove
         \/ ConfirmCancel \/ CancelEdits \/ ContinueEditing
         \/ ConfirmPublishNetwork \/ PublishDone \/ PublishFail
  PROVE  PageTypeOK' /\ Opened'
<1> USE DEF PInv
<1>1. CASE NetworksSuccess \/ TurnOffDelete \/ ContinueEditing \/ ConfirmPublishNetwork \/ PublishFail
  BY <1>1 DEF NetworksSuccess, TurnOffDelete, ContinueEditing, ConfirmPublishNetwork, PublishFail,
              TypeOK, PageTypeOK, Opened, serverVars, Toggles, InFlight
<1>2. CASE StartAddRemove
  <2>1. clickers' \in 0..MaxListeners /\ keys' \in 0..MaxListeners
    BY <1>2, TurnOffType, NetworkEditorAssumption DEF StartAddRemove, TypeOK
  <2> QED
    BY <1>2, <2>1 DEF StartAddRemove, TypeOK, PageTypeOK, Opened, serverVars, Toggles, InFlight
<1>3. CASE KeyupExitAddRemove
  <2>1. clickers' \in 0..MaxListeners /\ keys' \in 0..MaxListeners
    BY <1>3, TurnOffType, NetworkEditorAssumption DEF KeyupExitAddRemove, TypeOK
  <2> QED
    BY <1>3, <2>1 DEF KeyupExitAddRemove, TypeOK, PageTypeOK, Opened, serverVars, Toggles, InFlight
<1>4. CASE ConfirmCancel
  <2>1. CASE SwitchToMain
    BY <1>4, <2>1, SwitchToMainType DEF ConfirmCancel, TypeOK
  <2>2. CASE ~SwitchToMain
    BY <1>4, <2>2 DEF ConfirmCancel, Usable, TypeOK, PageTypeOK, Opened, serverVars, Toggles, InFlight
  <2> QED BY <2>1, <2>2
<1>5. CASE CancelEdits
  <2>1. canceled' \subseteq Way
    BY <1>5 DEF CancelEdits, Pending, Edited, TypeOK, EditListsTypeOK, Lists
  <2> QED BY <1>5, <2>1, SwitchToMainType DEF CancelEdits, TypeOK
<1>6. CASE PublishDone
  BY <1>6, SwitchToMainType DEF PublishDone, TypeOK
<1> QED BY <1>1, <1>2, <1>3, <1>4, <1>5, <1>6

\* The steps that send a request.
LEMMA SendingPage ==
  ASSUME PInv,
         NEW Q \in SUBSET Request, NEW q \in Request, NEW n \in Network, NEW w \in Way,
         ConfirmLoadNetwork(q, n) \/ GetHash(q) \/ SaveChanges(q) \/ ToggleInclude(Q, w)
  PROVE  PageTypeOK' /\ Opened'
<1> USE DEF PInv
<1>1. ASSUME NEW P \in SUBSET Request, NEW c, Send(P, c)
      PROVE  /\ stale' = stale => stale' \subseteq Toggles'
             /\ reload' = reload => reload' \subseteq {r \in Request : InFlight(r) /\ call[r].op = "geo"}'
             /\ Opened /\ cur' = cur /\ (c.op = "save" => cur \in Network) => Opened'
  BY <1>1 DEF Send, TypeOK, EditListsTypeOK, Toggles, InFlight, Opened
<1>2. CASE ConfirmLoadNetwork(q, n)
  <2>1. sends' \in 0..MaxSends /\ alone' \in BOOLEAN
    BY <1>2, NoteSentType DEF ConfirmLoadNetwork, TypeOK
  <2>2. stale' \subseteq Toggles' /\ Opened'
    BY <1>1, <1>2 DEF ConfirmLoadNetwork, Ask
  <2>3. reload' \subseteq {r \in Request : InFlight(r) /\ call[r].op = "geo"}'
    BY <1>1, <1>2 DEF ConfirmLoadNetwork
  <2> QED
    BY <1>2, <2>1, <2>2, <2>3 DEF ConfirmLoadNetwork, TypeOK, PageTypeOK
<1>3. CASE GetHash(q)
  <2>1. sends' \in 0..MaxSends /\ alone' \in BOOLEAN
    BY <1>3, NoteSentType DEF GetHash, TypeOK
  <2> QED
    BY <1>1, <1>3, <2>1 DEF GetHash, Ask, TypeOK, PageTypeOK
<1>4. CASE SaveChanges(q)
  <2>1. sends' \in 0..MaxSends /\ alone' \in BOOLEAN
    BY <1>4, NoteSentType DEF SaveChanges, TypeOK
  <2>2. clickers' \in 0..MaxListeners /\ keys' \in 0..MaxListeners
    BY <1>4, TurnOffType DEF SaveChanges, TypeOK
  <2>3. trusted' \in BOOLEAN /\ adding' = FALSE /\ disabled' = TRUE
    BY <1>4 DEF SaveChanges
  <2>4. stale' \subseteq Toggles' /\ Opened'
    BY <1>1, <1>4 DEF SaveChanges, Usable, TypeOK
  <2>5. reload' \subseteq {r \in Request : InFlight(r) /\ call[r].op = "geo"}'
    BY <1>1, <1>4 DEF SaveChanges
  <2> QED
    BY <1>4, <2>1, <2>2, <2>3, <2>4, <2>5 DEF SaveChanges, TypeOK, PageTypeOK
<1>5. CASE ToggleInclude(Q, w)
  <2>1. sends' \in 0..MaxSends /\ alone' \in BOOLEAN
    BY <1>5, NoteSentType DEF ToggleInclude, TypeOK
  <2>2. trusted' \in BOOLEAN
    BY <1>5 DEF ToggleInclude
  <2> QED
    BY <1>1, <1>5, <2>1, <2>2 DEF ToggleInclude, Ask, TypeOK, PageTypeOK
<1> QED BY <1>2, <1>3, <1>4, <1>5

\* The steps that take an answer.
LEMMA AnsweredPage ==
  ASSUME PInv, NEW q \in Request, Answered(q) PROVE PageTypeOK' /\ Opened'
<1> USE DEF PInv
<1>1. ASSUME NEW phase, phase \in {"done", "failed"}, Take(q, phase)
      PROVE  /\ stale' \subseteq stale \ {q} => stale' \subseteq Toggles'
             /\ reload' \subseteq reload \ {q} => reload' \subseteq {r \in Request : InFlight(r) /\ call[r].op = "geo"}'
             /\ call[q].op \notin {"add", "remove"} /\ stale' = stale => stale' \subseteq Toggles'
             /\ call[q].op # "geo" /\ reload' = reload => reload' \subseteq {r \in Request : InFlight(r) /\ call[r].op = "geo"}'
             /\ call[q].op = "geo" => Toggles' = Toggles
             /\ cur' = cur \/ cur' \in Network => Opened'
  BY <1>1 DEF Take, TypeOK, EditListsTypeOK, Toggles, InFlight, Opened
<1>2. CASE SelectSuccess(q)
  <2>1. cur' \in Network
    BY <1>2 DEF SelectSuccess, TypeOK, EditListsTypeOK, Call
  <2>2. trusted' \in BOOLEAN
    BY <1>2 DEF SelectSuccess, TypeOK, Unedited
  <2> QED
    BY <1>1, <1>2, <2>1, <2>2 DEF SelectSuccess, TypeOK, PageTypeOK
<1>3. CASE GeoFail(q)
  <2>1. disabled' \in BOOLEAN
    BY <1>3 DEF GeoFail
  <2> QED
    BY <1>1, <1>3, <2>1 DEF GeoFail, TypeOK, PageTypeOK
<1>4. CASE HashSuccess(q) \/ HashFail(q)
  BY <1>1, <1>4 DEF HashSuccess, HashFail, TypeOK, PageTypeOK
<1>5. CASE ToggleDone(q) \/ ToggleFail(q)
  <2>1. call[q].op # "geo"
    BY <1>5 DEF ToggleDone, ToggleFail, Toggles
  <2> QED
    BY <1>1, <1>5, <2>1 DEF ToggleDone, ToggleFail, TypeOK, PageTypeOK
<1>6. CASE SaveDone(q)
  <2>1. sends' \in 0..MaxSends /\ alone' \in BOOLEAN
    BY <1>6, NoteSentType DEF SaveDone, TypeOK
  <2>2. stale' \subseteq Toggles' /\ Opened'
    BY <1>6 DEF SaveDone, TakeAndSend, Ask, TypeOK, EditListsTypeOK, Toggles, InFlight, Opened
  <2>3. reload' \subseteq {r \in Request : InFlight(r) /\ call[r].op = "geo"}'
    BY <1>6 DEF SaveDone, TakeAndSend, Ask, TypeOK, EditListsTypeOK, InFlight
  <2> QED
    BY <1>6, <2>1, <2>2, <2>3 DEF SaveDone, TypeOK, PageTypeOK
<1>7. CASE SaveFail(q)
  BY <1>1, <1>7 DEF SaveFail, TypeOK, PageTypeOK
<1> QED BY <1>2, <1>3, <1>4, <1>5, <1>6, <1>7 DEF Answered

\* The server and the network change nothing on the page.
LEMMA ServingPage ==
  ASSUME PInv, NEW q \in Request, Serve(q) \/ Lose(q), UNCHANGED pageVars
  PROVE  PageTypeOK' /\ Opened'
<1> USE DEF PInv
<1>1. call' = call /\ \A r \in Request : InFlight(r)' <=> InFlight(r)
  BY DEF Serve, Body, GetEnter, GetLeave, Add, Remove, Geo, Hash, Answer, SaveApply, SaveRemove,
         SaveWrite, ServerFail, Lose, InList, InFlight, TypeOK, EditListsTypeOK
<1> QED
  BY <1>1 DEF pageVars, TypeOK, PageTypeOK, Opened, Toggles

LEMMA StepPage == PInv /\ Next => PageTypeOK' /\ Opened'
<1> SUFFICES ASSUME PInv, Next PROVE PageTypeOK' /\ Opened'
  OBVIOUS
<1>1. PICK n \in Network, w \in Way : TRUE
  BY EditListsAssumption
<1>2. CASE \E q \in Request, m \in Network : ConfirmLoadNetwork(q, m)
  BY <1>1, <1>2, SendingPage
<1>3. CASE \E q \in Request : GetHash(q) \/ SaveChanges(q)
  BY <1>1, <1>3, SendingPage
<1>4. CASE \E Q \in SUBSET Request, v \in Way : ToggleInclude(Q, v)
  <2>1. CASE Request = {}
    BY <1>4, <2>1, FS_EmptySet DEF ToggleInclude, PInv, TypeOK
  <2>2. CASE Request # {}
    BY <1>1, <1>4, <2>2, SendingPage
  <2> QED BY <2>1, <2>2
<1>5. CASE \E q \in Request : Answered(q)
  BY <1>5, AnsweredPage
<1>6. CASE \E q \in Request : (Serve(q) \/ Lose(q)) /\ UNCHANGED pageVars
  BY <1>6, ServingPage
<1>7. CASE \/ NetworksSuccess \/ TurnOffDelete \/ StartAddRemove \/ KeyupExitAddRemove
           \/ ConfirmCancel \/ CancelEdits \/ ContinueEditing
           \/ ConfirmPublishNetwork \/ PublishDone \/ PublishFail
  BY <1>7, QuietPage
<1> QED BY <1>2, <1>3, <1>4, <1>5, <1>6, <1>7 DEF Next, User

LEMMA InitPInv == Init => PInv /\ IInv
<1> SUFFICES ASSUME Init PROVE PInv /\ IInv
  OBVIOUS
<1>1. IInv
  BY InitIInv DEF Init
<1>2. TypeOK
  <2>1. EditListsTypeOK
    BY <1>1 DEF IInv
  <2>2. clickers \in 0..MaxListeners /\ keys \in 0..MaxListeners /\ sends \in 0..MaxSends
    BY NetworkEditorAssumption DEF Init
  <2>3. stale \subseteq Toggles /\ reload \subseteq {q \in Request : InFlight(q) /\ call[q].op = "geo"}
    BY DEF Init
  <2> QED BY <2>1, <2>2, <2>3 DEF Init, TypeOK
<1>3. Opened
  BY DEF Init, EditListsInit, Opened, InFlight
<1> QED BY <1>1, <1>2, <1>3 DEF PInv, IInv

LEMMA StepPInv == PInv /\ [Next]_vars => PInv' /\ [EditListsNext]_serverVars
<1> SUFFICES ASSUME PInv, [Next]_vars PROVE PInv' /\ [EditListsNext]_serverVars
  OBVIOUS
<1>1. IInv
  BY DEF PInv, TypeOK, IInv
<1>2. CASE Next
  <2>1. [EditListsNext]_serverVars
    BY <1>2, Sends DEF PInv
  <2>2. EditListsTypeOK' /\ Monitors'
    BY <1>1, <2>1, StepIInv DEF IInv
  <2> QED
    BY <1>2, <2>1, <2>2, StepPage DEF PInv, TypeOK, PageTypeOK
<1>3. CASE UNCHANGED vars
  BY <1>3 DEF vars, serverVars, pageVars, PInv, TypeOK, EditListsTypeOK, Monitors, Opened, Toggles, InFlight
<1> QED BY <1>2, <1>3

LEMMA PageInvariance == Spec => []PInv
<1> QED BY InitPInv, StepPInv, PTL DEF Spec

\* Every reachable state of page and server has the shape the type invariant states.
THEOREM PageTypeCorrect == Spec => []TypeOK
<1>1. PInv => TypeOK
  BY DEF PInv
<1> QED BY <1>1, PageInvariance, PTL

\* network.js is a client of the edit lists: each of its steps is one of theirs or leaves
\* the server alone.
THEOREM ImplementsEditLists == Spec => EditListsSpec
<1>1. Init => EditListsInit
  BY DEF Init
<1> QED BY <1>1, StepPInv, PageInvariance, PTL DEF Spec, EditListsSpec

\* Whatever the user does, page and server stand still for good in one way only.
THEOREM EditorDeadlockIsUnique == Spec => []OneDeadlock
<1> QED BY ImplementsEditLists, DeadlockIsUnique, PTL

\* No edits contradict each other in a list that the page has filled.
THEOREM EditorEditsNeverContradict == Spec => []EditsDisjoint
<1> QED BY ImplementsEditLists, EditsNeverContradict, PTL

-----------------------------------------------------------------------------
(* A request that is alone finds on the server what it left there.         *)

OpInv == \A q \in Request : pc[q] \in {"saved", "writing"} => call[q].op = "save"

AloneInv ==
  alone => \A q \in Request : InFlight(q) =>
    /\ \A r \in Request : InFlight(r) => r = q
    /\ pc[q] \in {"locking", "got"} => ref[q] = sessionList
    /\ pc[q] = "done" /\ call[q].op = "geo" =>
         /\ result[q] = file[call[q].network]
         /\ sessionList # NoList /\ list[sessionList].ways = file[call[q].network]

LEMMA SendFacts ==
  ASSUME EditListsTypeOK, NEW Q \in SUBSET Request, NEW c, Send(Q, c)
  PROVE  /\ \A r \in Q : /\ ~InFlight(r) /\ InFlight(r)'
                         /\ pc[r] = "free" /\ pc'[r] = "sent" /\ call'[r] = c
         /\ \A r \in Request \ Q : /\ pc'[r] = pc[r] /\ call'[r] = call[r]
                                   /\ InFlight(r)' <=> InFlight(r)
         /\ UNCHANGED <<file, sessionList, list, ref, result>>
BY DEF Send, EditListsTypeOK, InFlight

LEMMA TakeFacts ==
  ASSUME EditListsTypeOK, NEW q \in Request, NEW phase, Take(q, phase)
  PROVE  /\ pc[q] = phase /\ pc'[q] = "free" /\ ~InFlight(q)'
         /\ \A r \in Request : r # q =>
              /\ pc'[r] = pc[r] /\ call'[r] = call[r] /\ ref'[r] = ref[r] /\ result'[r] = result[r]
              /\ InFlight(r)' <=> InFlight(r)
         /\ UNCHANGED <<file, sessionList, list>>
BY DEF Take, EditListsTypeOK, InFlight

LEMMA TakeAndSendFacts ==
  ASSUME EditListsTypeOK, NEW q \in Request, NEW c, TakeAndSend(q, c)
  PROVE  /\ pc[q] = "done" /\ pc'[q] = "sent" /\ call'[q] = c /\ InFlight(q)'
         /\ \A r \in Request : r # q =>
              /\ pc'[r] = pc[r] /\ call'[r] = call[r] /\ ref'[r] = ref[r] /\ result'[r] = result[r]
              /\ InFlight(r)' <=> InFlight(r)
         /\ UNCHANGED <<file, sessionList, list>>
BY DEF TakeAndSend, EditListsTypeOK, InFlight

LEMMA ServeFacts ==
  ASSUME EditListsTypeOK, NEW q \in Request, Serve(q) \/ Lose(q)
  PROVE  /\ call' = call /\ InFlight(q) /\ pc[q] # "failed"
         /\ \A r \in Request : InFlight(r)' <=> InFlight(r)
         /\ \A r \in Request : r # q =>
              /\ pc'[r] = pc[r] /\ ref'[r] = ref[r] /\ result'[r] = result[r]
BY DEF Serve, Body, GetEnter, GetLeave, Add, Remove, Geo, Hash, Answer, SaveApply, SaveRemove,
       SaveWrite, ServerFail, Lose, InList, InFlight, EditListsTypeOK, Phase

\* What a request does while it is served, as far as it is about the session's list.
LEMMA ServeKinds ==
  ASSUME EditListsTypeOK, NEW q \in Request, Serve(q) \/ Lose(q)
  PROVE  \/ /\ pc[q] = "sent" /\ pc'[q] = "locking" /\ ref'[q] = sessionList'
            /\ UNCHANGED file /\ (sessionList # NoList => UNCHANGED <<sessionList, list>>)
         \/ /\ pc[q] = "locking" /\ pc'[q] = "got" /\ UNCHANGED <<file, sessionList, ref>>
            /\ list[ref[q]].network = call[q].network => UNCHANGED list
         \/ /\ Add(q) \/ Remove(q) \/ Geo(q) \/ Hash(q) \/ SaveApply(q)
            /\ pc'[q] \in {"done", "saved"}
         \/ /\ pc[q] = "saved" /\ pc'[q] = "writing"
         \/ /\ pc[q] = "writing" /\ pc'[q] = "done"
         \/ /\ pc'[q] = "failed" /\ UNCHANGED <<file, sessionList>>
            /\ call[q].op # "geo" => UNCHANGED list
<1> USE DEF EditListsTypeOK
<1>1. CASE GetEnter(q)
  BY <1>1 DEF GetEnter
<1>2. CASE GetLeave(q)
  BY <1>2 DEF GetLeave
<1>3. CASE Body(q)
  BY <1>3 DEF Body, Add, Remove, Geo, Hash, SaveApply, Answer
<1>4. CASE SaveRemove(q) \/ SaveWrite(q)
  BY <1>4 DEF SaveRemove, SaveWrite
<1>5. CASE ServerFail(q) \/ Lose(q)
  BY <1>5 DEF ServerFail, Lose
<1> QED BY <1>1, <1>2, <1>3, <1>4, <1>5 DEF Serve

\* What a step of the page does to the requests.
LEMMA NextKinds ==
  ASSUME Next
  PROVE  \/ UNCHANGED <<serverVars, alone>>
         \/ \E Q \in SUBSET Request : \E c : Send(Q, c) /\ NoteSent(Q)
         \/ \E q \in Request, phase \in {"done", "failed"} : Take(q, phase) /\ UNCHANGED alone
         \/ \E q \in Request : \E c : TakeAndSend(q, c) /\ NoteSent({q})
         \/ \E q \in Request : (Serve(q) \/ Lose(q)) /\ UNCHANGED pageVars
<1>1. ASSUME NEW q \in Request, Answered(q)
      PROVE  \/ \E phase \in {"done", "failed"} : Take(q, phase) /\ UNCHANGED alone
             \/ \E c : TakeAndSend(q, c) /\ NoteSent({q})
  <2>1. CASE SaveDone(q)
    BY <2>1 DEF SaveDone
  <2>2. CASE SelectSuccess(q) \/ GeoFail(q) \/ HashSuccess(q) \/ HashFail(q)
    BY <2>2 DEF SelectSuccess, GeoFail, HashSuccess, HashFail
  <2>3. CASE ToggleDone(q) \/ ToggleFail(q) \/ SaveFail(q)
    BY <2>3 DEF ToggleDone, ToggleFail, SaveFail
  <2> QED BY <1>1, <2>1, <2>2, <2>3 DEF Answered
<1>2. ASSUME NEW q \in Request, NEW n, ConfirmLoadNetwork(q, n)
      PROVE  \E c : Send({q}, c) /\ NoteSent({q})
  BY <1>2 DEF ConfirmLoadNetwork
<1>3. ASSUME NEW q \in Request, GetHash(q) \/ SaveChanges(q)
      PROVE  \E c : Send({q}, c) /\ NoteSent({q})
  BY <1>3 DEF GetHash, SaveChanges
<1>4. ASSUME NEW Q \in SUBSET Request, NEW w \in Way, ToggleInclude(Q, w)
      PROVE  \E c : Send(Q, c) /\ NoteSent(Q)
  BY <1>4 DEF ToggleInclude
<1>5. CASE \/ NetworksSuccess \/ TurnOffDelete \/ StartAddRemove \/ KeyupExitAddRemove
           \/ ContinueEditing \/ ConfirmPublishNetwork \/ PublishFail
  BY <1>5 DEF NetworksSuccess, TurnOffDelete, StartAddRemove, KeyupExitAddRemove, ContinueEditing,
              ConfirmPublishNetwork, PublishFail
<1>6. CASE ConfirmCancel \/ CancelEdits \/ PublishDone
  BY <1>6 DEF ConfirmCancel, CancelEdits, PublishDone, SwitchToMain
<1>7. \A q \in Request : {q} \in SUBSET Request
  OBVIOUS
<1> QED BY <1>1, <1>2, <1>3, <1>4, <1>5, <1>6, <1>7 DEF Next, User

LEMMA OpStep ==
  ASSUME EditListsTypeOK, OpInv, Next
  PROVE  OpInv'
<1>1. CASE UNCHANGED serverVars
  BY <1>1 DEF OpInv, serverVars
<1>2. ASSUME NEW Q \in SUBSET Request, NEW c, Send(Q, c)
      PROVE  OpInv'
  BY <1>2, SendFacts DEF OpInv
<1>3. ASSUME NEW q \in Request, NEW phase, Take(q, phase)
      PROVE  OpInv'
  BY <1>3, TakeFacts DEF OpInv
<1>4. ASSUME NEW q \in Request, NEW c, TakeAndSend(q, c)
      PROVE  OpInv'
  BY <1>4, TakeAndSendFacts DEF OpInv
<1>5. ASSUME NEW q \in Request, Serve(q) \/ Lose(q)
      PROVE  OpInv'
  <2>1. call' = call /\ \A r \in Request : r # q => pc'[r] = pc[r]
    BY <1>5, ServeFacts
  <2>2. Add(q) \/ Remove(q) \/ Geo(q) \/ Hash(q) => pc'[q] = "done"
    BY DEF Add, Remove, Geo, Hash, Answer, EditListsTypeOK
  <2>3. SaveApply(q) => call[q].op = "save"
    BY DEF SaveApply
  <2>4. pc'[q] \in {"saved", "writing"} => call[q].op = "save"
    BY <1>5, <2>2, <2>3, ServeKinds DEF OpInv
  <2> QED BY <2>1, <2>4 DEF OpInv
<1> QED BY <1>1, <1>2, <1>3, <1>4, <1>5, NextKinds

\* One request is sent while none is in flight.
LEMMA NoteSentAlone ==
  ASSUME NEW Q \in SUBSET Request, NoteSent(Q), alone'
  PROVE  (\E x \in Request : Q = {x}) /\ \A r \in Request \ Q : ~InFlight(r)
<1>1. Cardinality(Q) = 1 /\ \A r \in Request \ Q : ~InFlight(r)
  BY DEF NoteSent
<1>2. IsFiniteSet(Q)
  BY FS_Subset, NetworkEditorAssumption
<1>3. PICK x : Q = {x}
  BY <1>1, <1>2, FS_Singleton
<1> QED BY <1>1, <1>3

LEMMA AloneStep ==
  ASSUME EditListsTypeOK, Monitors, OpInv, AloneInv, Next
  PROVE  AloneInv'
<1>1. CASE UNCHANGED <<serverVars, alone>>
  BY <1>1 DEF AloneInv, serverVars, InFlight
<1>2. ASSUME NEW Q \in SUBSET Request, NEW c, Send(Q, c), NoteSent(Q)
      PROVE  AloneInv'
  <2> SUFFICES ASSUME alone' PROVE AloneInv'
    BY DEF AloneInv
  <2>1. PICK x \in Request : Q = {x}
    BY <1>2, NoteSentAlone
  <2>2. /\ pc'[x] = "sent"
        /\ \A r \in Request : InFlight(r)' => r = x
    BY <1>2, <2>1, SendFacts, NoteSentAlone
  <2> QED BY <2>2 DEF AloneInv
<1>3. ASSUME NEW q \in Request, NEW phase, Take(q, phase), UNCHANGED alone
      PROVE  AloneInv'
  <2>1. \A r \in Request : InFlight(r)' =>
          /\ pc'[r] = pc[r] /\ call'[r] = call[r] /\ ref'[r] = ref[r] /\ result'[r] = result[r]
          /\ InFlight(r)
    BY <1>3, TakeFacts
  <2>2. UNCHANGED <<file, sessionList, list>>
    BY <1>3, TakeFacts
  <2> QED BY <1>3, <2>1, <2>2 DEF AloneInv
<1>4. ASSUME NEW q \in Request, NEW c, TakeAndSend(q, c), NoteSent({q})
      PROVE  AloneInv'
  <2> SUFFICES ASSUME alone' PROVE AloneInv'
    BY DEF AloneInv
  <2>1. \A r \in Request \ {q} : ~InFlight(r)
    BY <1>4 DEF NoteSent
  <2>2. /\ pc'[q] = "sent"
        /\ \A r \in Request : InFlight(r)' => r = q
    BY <1>4, <2>1, TakeAndSendFacts
  <2> QED BY <2>2 DEF AloneInv
<1>5. ASSUME NEW q \in Request, Serve(q) \/ Lose(q), UNCHANGED pageVars
      PROVE  AloneInv'
  <2> SUFFICES ASSUME alone' PROVE AloneInv'
    BY DEF AloneInv
  <2>1. /\ call' = call /\ \A r \in Request : InFlight(r)' <=> InFlight(r)
        /\ InFlight(q)
    BY <1>5, ServeFacts
  <2>2. alone
    BY <1>5 DEF pageVars
  <2>3. /\ \A r \in Request : InFlight(r) => r = q
        /\ pc[q] \in {"locking", "got"} => ref[q] = sessionList
    BY <2>1, <2>2 DEF AloneInv
  <2>4. pc'[q] \in {"locking", "got"} => ref'[q] = sessionList'
    BY <1>5, <2>3, ServeKinds
  <2>5. pc'[q] = "done" /\ call[q].op = "geo" =>
          /\ result'[q] = file'[call[q].network]
          /\ sessionList' # NoList /\ list'[sessionList'].ways = file'[call[q].network]
    <3>1. CASE Geo(q)
      <4>1. /\ pc[q] = "got" /\ ref[q] = sessionList
            /\ Answer(q, [list[ref[q]] EXCEPT !.ways = file[call[q].network]],
                         file[call[q].network])
        BY <2>3, <3>1 DEF Geo, InList
      <4>2. ref[q] \in List /\ list[ref[q]] \in Lists
        BY <4>1 DEF Monitors, EditListsTypeOK
      <4>3. /\ result'[q] = file[call[q].network] /\ UNCHANGED <<file, sessionList>>
            /\ list'[ref[q]] = [list[ref[q]] EXCEPT !.ways = file[call[q].network]]
        BY <4>1, <4>2 DEF Answer, EditListsTypeOK
      <4>4. list'[ref[q]].ways = file[call[q].network]
        BY <4>2, <4>3 DEF Lists
      <4> QED BY <4>1, <4>2, <4>3, <4>4, EditListsAssumption
    <3>2. CASE Add(q) \/ Remove(q) \/ Hash(q) \/ SaveApply(q)
      BY <3>2 DEF Add, Remove, Hash, SaveApply
    <3>3. CASE pc[q] = "writing"
      BY <3>3 DEF OpInv
    <3> QED BY <1>5, <3>1, <3>2, <3>3, ServeKinds
  <2> QED BY <2>1, <2>3, <2>4, <2>5 DEF AloneInv
<1> QED BY <1>1, <1>2, <1>3, <1>4, <1>5, NextKinds

-----------------------------------------------------------------------------
(* The picture and the network a save would write.                         *)

\* While neither a save nor a load of the network is on the way the page can be held against
\* the list of the session, road by road.
Tracked == trusted /\ \A q \in Request : InFlight(q) => call[q].op \notin {"save", "geo"}
Current == list[sessionList]

ListTracked ==
  /\ page = "edit" /\ stale = {}
  /\ sessionList # NoList /\ Current.network = cur /\ Current.add \subseteq Current.ways

CallsTracked ==
  /\ \A q \in Request : InFlight(q) =>
       /\ call[q].network = cur
       /\ pc[q] \in {"locking", "got"} => ref[q] = sessionList
       /\ pc[q] = "done" /\ call[q].op = "hash" => result[q] \subseteq Current.ways
  /\ \A q, r \in Toggles : call[q].way = call[r].way => q = r

Toggling(q, w) == q \in Toggles /\ call[q].way = w

\* A road whose toggle the server has applied and the page has not heard of yet is shown the
\* other way round; one that was not toggled since the network was loaded has no edit.
WayTracked(w) ==
  /\ shown[w] # "absent" => w \in Current.ways
  /\ \A q \in Request : Toggling(q, w) =>
       shown[w] = IF call[q].op = "remove" THEN "in" ELSE "out"
  /\ (\A q \in Request : Toggling(q, w) => pc[q] \notin {"done", "failed"}) =>
       (shown[w] = "in" <=> w \in Pending(cur))
  /\ \A q \in Request : Toggling(q, w) /\ pc[q] = "done" =>
       (shown[w] = "in" <=> w \notin Pending(cur))
  /\ ~edits /\ (\A q \in Request : ~Toggling(q, w)) => w \notin Current.add \cup Current.remove

PictureInv == Tracked => ListTracked /\ CallsTracked /\ \A w \in Way : WayTracked(w)

LEMMA CurrentType ==
  ASSUME EditListsTypeOK, sessionList # NoList
  PROVE  /\ sessionList \in List /\ Current \in Lists
         /\ Current.add \subseteq Way /\ Current.remove \subseteq Way /\ Current.ways \subseteq Way
BY DEF EditListsTypeOK, Current, Lists

LEMMA PendingIs ==
  sessionList # NoList /\ Current.network = cur =>
    \A w : w \in Pending(cur) <=>
             /\ w \in file[cur] \/ (w \in Current.add /\ w \in Current.ways)
             /\ w \notin Current.remove
BY DEF Pending, Current, Edited

\* Steps that leave a road as it is; a toggle of it may fail.
WaySame(w) ==
  /\ shown'[w] = shown[w] /\ (edits => edits')
  /\ w \in Current.ways => w \in Current'.ways
  /\ w \in Pending(cur)' <=> w \in Pending(cur)
  /\ w \in Current'.add \cup Current'.remove => w \in Current.add \cup Current.remove
  /\ \A q \in Request : Toggling(q, w)' <=> Toggling(q, w)
  /\ \A q \in Request : Toggling(q, w) =>
       /\ call'[q] = call[q]
       /\ pc'[q] = "done" => pc[q] = "done"
       /\ pc'[q] \notin {"done", "failed"} => pc[q] \notin {"done", "failed"}

LEMMA WayKeeps ==
  ASSUME NEW w \in Way, WayTracked(w), WaySame(w)
  PROVE  WayTracked(w)'
<1>1. shown'[w] # "absent" => w \in Current'.ways
  BY DEF WayTracked, WaySame
<1>2. \A q \in Request : Toggling(q, w)' =>
        shown'[w] = IF call'[q].op = "remove" THEN "in" ELSE "out"
  BY DEF WayTracked, WaySame
<1>3. (\A q \in Request : Toggling(q, w)' => pc'[q] \notin {"done", "failed"}) =>
        (shown'[w] = "in" <=> w \in Pending(cur)')
  BY DEF WayTracked, WaySame
<1>4. \A q \in Request : Toggling(q, w)' /\ pc'[q] = "done" =>
        (shown'[w] = "in" <=> w \notin Pending(cur)')
  BY DEF WayTracked, WaySame
<1>5. ~edits' /\ (\A q \in Request : ~Toggling(q, w)') => w \notin Current'.add \cup Current'.remove
  BY DEF WayTracked, WaySame
<1> QED BY <1>1, <1>2, <1>3, <1>4, <1>5 DEF WayTracked

LEMMA SamePending ==
  ASSUME UNCHANGED <<file, sessionList, list, cur>>
  PROVE  Pending(cur)' = Pending(cur) /\ Current' = Current
BY DEF Pending, Current, Edited

\* Steps of the page that nothing on the server notices.
LEMMA PictureQuiet ==
  ASSUME PictureInv, UNCHANGED serverVars,
         ~trusted' \/ page # "edit" \/ UNCHANGED <<page, cur, shown, edits, stale>>,
         trusted' => trusted
  PROVE  PictureInv'
<1> SUFFICES ASSUME Tracked' PROVE (ListTracked /\ CallsTracked /\ \A w \in Way : WayTracked(w))'
  BY DEF PictureInv
<1>1. UNCHANGED <<file, sessionList, list, pc, call, ref, result>>
  BY DEF serverVars
<1>2. /\ Tracked /\ UNCHANGED <<page, cur, shown, edits, stale>>
      /\ ListTracked /\ CallsTracked /\ \A w \in Way : WayTracked(w)
  BY <1>1 DEF Tracked, InFlight, PictureInv, ListTracked
<1>3. Pending(cur)' = Pending(cur) /\ Current' = Current
  BY <1>1, <1>2, SamePending
<1>4. (\A q \in Request : InFlight(q)' <=> InFlight(q)) /\ Toggles' = Toggles
  BY <1>1 DEF InFlight, Toggles
<1>5. ListTracked'
  BY <1>1, <1>2, <1>3 DEF ListTracked
<1>6. CallsTracked'
  BY <1>1, <1>2, <1>3, <1>4 DEF CallsTracked
<1>7. ASSUME NEW w \in Way
      PROVE  WayTracked(w)'
  <2>1. WaySame(w)
    BY <1>1, <1>2, <1>3, <1>4 DEF WaySame, Toggling
  <2> QED BY <1>2, <2>1, WayKeeps
<1> QED BY <1>5, <1>6, <1>7

\* The answer to a toggle or to a request for a cell is taken.
LEMMA TakeTracked ==
  ASSUME EditListsTypeOK, PictureInv, NEW q \in Request, NEW phase, Take(q, phase), Tracked',
         call[q].op \notin {"save", "geo"}, UNCHANGED <<page, cur>>, trusted' => trusted,
         stale' \subseteq stale
  PROVE  /\ ListTracked /\ CallsTracked /\ \A w \in Way : WayTracked(w)
         /\ ListTracked' /\ CallsTracked' /\ Pending(cur)' = Pending(cur) /\ Current' = Current
         /\ \A w : \A r \in Request : Toggling(r, w)' <=> Toggling(r, w) /\ r # q
         /\ \A r \in Request : r # q => pc'[r] = pc[r] /\ call'[r] = call[r]
<1>1. /\ pc[q] = phase /\ pc'[q] = "free" /\ ~InFlight(q)'
      /\ \A r \in Request : r # q =>
           /\ pc'[r] = pc[r] /\ call'[r] = call[r] /\ ref'[r] = ref[r] /\ result'[r] = result[r]
           /\ InFlight(r)' <=> InFlight(r)
      /\ UNCHANGED <<file, sessionList, list>>
  BY TakeFacts
<1>2. Tracked
  BY <1>1 DEF Tracked
<1>3. ListTracked /\ CallsTracked /\ \A w \in Way : WayTracked(w)
  BY <1>2 DEF PictureInv
<1>4. Pending(cur)' = Pending(cur) /\ Current' = Current
  BY <1>1, SamePending
<1>5. \A r \in Request : r \in Toggles' <=> r \in Toggles /\ r # q
  BY <1>1 DEF Toggles
<1>6. \A w : \A r \in Request : Toggling(r, w)' <=> Toggling(r, w) /\ r # q
  BY <1>1, <1>5 DEF Toggling
<1>7. ListTracked'
  BY <1>1, <1>3, <1>4 DEF ListTracked
<1>8. CallsTracked'
  <2>1. \A r \in Request : InFlight(r)' =>
          /\ call'[r].network = cur'
          /\ pc'[r] \in {"locking", "got"} => ref'[r] = sessionList'
          /\ pc'[r] = "done" /\ call'[r].op = "hash" => result'[r] \subseteq Current'.ways
    BY <1>1, <1>3, <1>4 DEF CallsTracked
  <2>2. \A r, u \in Toggles' : call'[r].way = call'[u].way => r = u
    <3>1. Toggles' \subseteq Request
      BY DEF Toggles
    <3> QED BY <1>1, <1>3, <1>5, <3>1 DEF CallsTracked
  <2> QED BY <2>1, <2>2 DEF CallsTracked
<1> QED BY <1>1, <1>3, <1>4, <1>6, <1>7, <1>8

LEMMA PictureHash ==
  ASSUME PInv, PictureInv, NEW q \in Request, HashSuccess(q) \/ HashFail(q)
  PROVE  PictureInv'
<1> SUFFICES ASSUME Tracked' PROVE (ListTracked /\ CallsTracked /\ \A w \in Way : WayTracked(w))'
  BY DEF PictureInv
<1>1. PICK phase \in {"done", "failed"} : Take(q, phase)
  BY DEF HashSuccess, HashFail
<1>2. /\ call[q].op = "hash" /\ UNCHANGED <<page, cur, edits, stale, trusted>>
      /\ EditListsTypeOK /\ shown \in [Way -> {"absent", "out", "in"}]
  BY DEF HashSuccess, HashFail, PInv, TypeOK
<1>3. /\ ListTracked /\ CallsTracked /\ \A w \in Way : WayTracked(w)
      /\ ListTracked' /\ CallsTracked' /\ Pending(cur)' = Pending(cur) /\ Current' = Current
      /\ \A w : \A r \in Request : Toggling(r, w)' <=> Toggling(r, w) /\ r # q
      /\ \A r \in Request : r # q => pc'[r] = pc[r] /\ call'[r] = call[r]
  BY <1>1, <1>2, TakeTracked
<1>4. \A w : ~Toggling(q, w)
  BY <1>2 DEF Toggling, Toggles
<1>5. \A w : \A r \in Request : Toggling(r, w)' <=> Toggling(r, w)
  BY <1>3, <1>4
<1>6. ASSUME NEW w \in Way, shown'[w] = shown[w]
      PROVE  WayTracked(w)'
  <2>1. \A r \in Request : Toggling(r, w) => pc'[r] = pc[r] /\ call'[r] = call[r]
    BY <1>3, <1>4
  <2>2. WaySame(w)
    BY <1>2, <1>3, <1>5, <1>6, <2>1 DEF WaySame
  <2> QED BY <1>3, <2>2, WayKeeps
<1>7. ASSUME NEW w \in Way, shown[w] = "absent", shown'[w] = "out", w \in Current.ways
      PROVE  WayTracked(w)'
  <2>1. \A r \in Request : ~Toggling(r, w)
    BY <1>3, <1>7 DEF WayTracked
  <2>2. w \notin Pending(cur)
    BY <1>3, <1>7, <2>1 DEF WayTracked
  <2>3. ~edits => w \notin Current.add \cup Current.remove
    BY <1>3, <2>1 DEF WayTracked
  <2>4. /\ \A r \in Request : ~Toggling(r, w)'
        /\ w \notin Pending(cur)' /\ w \in Current'.ways
        /\ ~edits' => w \notin Current'.add \cup Current'.remove
    BY <1>2, <1>3, <1>5, <1>7, <2>1, <2>2, <2>3
  <2> QED BY <1>7, <2>4 DEF WayTracked
<1>8. CASE HashFail(q)
  BY <1>3, <1>6, <1>8 DEF HashFail
<1>9. CASE HashSuccess(q)
  <2>1. page = "edit" /\ pc[q] = "done" /\ InFlight(q)
    BY <1>3, <1>9 DEF HashSuccess, ListTracked, Take, InFlight
  <2>2. result[q] \subseteq Current.ways
    BY <1>2, <1>3, <2>1 DEF CallsTracked
  <2>3. shown' = [w \in Way |-> IF shown[w] = "absent" /\ w \in result[q] THEN "out" ELSE shown[w]]
    BY <1>9, <2>1 DEF HashSuccess
  <2>4. \A w \in Way : \/ shown'[w] = shown[w]
                       \/ shown[w] = "absent" /\ shown'[w] = "out" /\ w \in Current.ways
    BY <2>2, <2>3
  <2> QED BY <1>3, <1>6, <1>7, <2>4
<1> QED BY <1>8, <1>9

LEMMA PictureToggleDone ==
  ASSUME PInv, PictureInv, NEW q \in Request, ToggleDone(q)
  PROVE  PictureInv'
<1> SUFFICES ASSUME Tracked' PROVE (ListTracked /\ CallsTracked /\ \A w \in Way : WayTracked(w))'
  BY DEF PictureInv
<1>1. /\ Take(q, "done") /\ q \in Toggles /\ UNCHANGED <<page, cur, trusted>>
      /\ edits' /\ stale' \subseteq stale
  BY DEF ToggleDone
<1>2. /\ EditListsTypeOK /\ shown \in [Way -> {"absent", "out", "in"}]
      /\ call[q].op \notin {"save", "geo"} /\ call[q].way \in Way
  BY <1>1 DEF PInv, TypeOK, EditListsTypeOK, Call, Toggles
<1> PICK v \in Way : v = call[q].way
  BY <1>2
<1>3. /\ ListTracked /\ CallsTracked /\ \A w \in Way : WayTracked(w)
      /\ ListTracked' /\ CallsTracked' /\ Pending(cur)' = Pending(cur) /\ Current' = Current
      /\ \A w : \A r \in Request : Toggling(r, w)' <=> Toggling(r, w) /\ r # q
      /\ \A r \in Request : r # q => pc'[r] = pc[r] /\ call'[r] = call[r]
  BY <1>1, <1>2, TakeTracked
<1>4. Toggling(q, v) /\ pc[q] = "done" /\ \A w : Toggling(q, w) => w = v
  BY <1>1 DEF Toggling, Take
<1>5. shown' = [shown EXCEPT ![v] = IF @ = "in" THEN "out" ELSE "in"]
  BY <1>3 DEF ToggleDone, ListTracked
<1>6. WayTracked(v)'
  <2>1. \A r \in Request : ~Toggling(r, v)'
    BY <1>1, <1>3, <1>4 DEF CallsTracked, Toggling
  <2>2. (shown[v] = "in" <=> v \notin Pending(cur)) /\ shown[v] # "absent" /\ v \in Current.ways
    BY <1>2, <1>3, <1>4 DEF WayTracked
  <2>3. /\ shown'[v] = "in" <=> v \in Pending(cur)'
        /\ v \in Current'.ways
    BY <1>2, <1>3, <1>5, <2>2
  <2> QED BY <1>1, <2>1, <2>3 DEF WayTracked
<1>7. ASSUME NEW w \in Way, w # v
      PROVE  WayTracked(w)'
  <2>1. \A r \in Request : Toggling(r, w)' <=> Toggling(r, w)
    BY <1>3, <1>4, <1>7
  <2>2. \A r \in Request : Toggling(r, w) => pc'[r] = pc[r] /\ call'[r] = call[r]
    BY <1>3, <1>4, <1>7
  <2>3. shown'[w] = shown[w]
    BY <1>2, <1>5, <1>7
  <2>4. WaySame(w)
    BY <1>1, <1>3, <2>1, <2>2, <2>3 DEF WaySame
  <2> QED BY <1>3, <2>4, WayKeeps
<1> QED BY <1>3, <1>6, <1>7

\* A network that was loaded alone, without edits, is shown as it is in the file.
LEMMA PictureSelect ==
  ASSUME PInv, AloneInv, NEW q \in Request, SelectSuccess(q)
  PROVE  PictureInv'
<1> SUFFICES ASSUME Tracked' PROVE (ListTracked /\ CallsTracked /\ \A w \in Way : WayTracked(w))'
  BY DEF PictureInv
<1> DEFINE n == call[q].network
<1>1. /\ call[q].op = "geo" /\ Take(q, "done") /\ page' = "edit" /\ cur' = n
      /\ shown' = [w \in Way |-> IF w \in result[q] THEN "in" ELSE "absent"]
      /\ stale' = Toggles /\ trusted' = (alone /\ Unedited(n))
  BY DEF SelectSuccess
<1>2. alone /\ Unedited(n) /\ EditListsTypeOK /\ pc[q] = "done" /\ InFlight(q)
  BY <1>1 DEF Tracked, PInv, TypeOK, Take, InFlight
<1>3. /\ \A r \in Request : InFlight(r) => r = q
      /\ result[q] = file[n] /\ sessionList # NoList /\ Current.ways = file[n]
      /\ Current.network = n /\ Current.add = {} /\ Current.remove = {}
  BY <1>1, <1>2 DEF AloneInv, Unedited, Current
<1>4. /\ \A r \in Request : ~InFlight(r)'
      /\ UNCHANGED <<file, sessionList, list>>
  BY <1>1, <1>2, <1>3, TakeFacts
<1>5. Current' = Current
  BY <1>4 DEF Current
<1>6. Toggles = {} /\ Toggles' = {}
  BY <1>1, <1>3, <1>4 DEF Toggles
<1>7. ListTracked'
  BY <1>1, <1>3, <1>4, <1>5, <1>6 DEF ListTracked
<1>8. CallsTracked'
  BY <1>4, <1>6 DEF CallsTracked
<1>9. Pending(cur)' = file[n]
  BY <1>1, <1>3, <1>4 DEF Pending, Edited, Current
<1>10. \A w : \A r \in Request : ~Toggling(r, w)'
  BY <1>6 DEF Toggling
<1> HIDE DEF n
<1>11. ASSUME NEW w \in Way
       PROVE  WayTracked(w)'
  <2>1. shown'[w] = IF w \in file[n] THEN "in" ELSE "absent"
    BY <1>1, <1>3
  <2> QED BY <1>3, <1>5, <1>9, <1>10, <2>1 DEF WayTracked
<1> QED BY <1>7, <1>8, <1>11

\* A request is sent while the page is held against the list.
LEMMA SendTracked ==
  ASSUME EditListsTypeOK, ListTracked, CallsTracked, \A w \in Way : WayTracked(w),
         NEW x \in Request, NEW c, Send({x}, c), c.network = cur,
         UNCHANGED <<page, cur, shown, edits, stale>>,
         c.op \in {"add", "remove"} => \A r \in Toggles : call[r].way # c.way
  PROVE  /\ ListTracked' /\ CallsTracked' /\ Pending(cur)' = Pending(cur) /\ Current' = Current
         /\ call'[x] = c /\ pc'[x] = "sent"
         /\ \A w : \A r \in Request : Toggling(r, w)' <=>
              Toggling(r, w) \/ (r = x /\ c.op \in {"add", "remove"} /\ c.way = w)
         /\ \A r \in Request : r # x => pc'[r] = pc[r] /\ call'[r] = call[r]
<1>1. /\ ~InFlight(x) /\ InFlight(x)' /\ pc'[x] = "sent" /\ call'[x] = c
      /\ \A r \in Request : r # x => /\ pc'[r] = pc[r] /\ call'[r] = call[r]
                                     /\ InFlight(r)' <=> InFlight(r)
      /\ UNCHANGED <<file, sessionList, list, ref, result>>
  <2>1. {x} \in SUBSET Request
    OBVIOUS
  <2> QED BY <2>1, SendFacts
<1>2. Pending(cur)' = Pending(cur) /\ Current' = Current
  BY <1>1, SamePending
<1>3. \A r \in Request : r \in Toggles' <=> r \in Toggles \/ (r = x /\ c.op \in {"add", "remove"})
  BY <1>1 DEF Toggles
<1>4. \A w : \A r \in Request : Toggling(r, w)' <=>
        Toggling(r, w) \/ (r = x /\ c.op \in {"add", "remove"} /\ c.way = w)
  BY <1>1, <1>3 DEF Toggling, Toggles
<1>5. ListTracked'
  BY <1>1, <1>2 DEF ListTracked
<1>6. CallsTracked'
  <2>1. \A r \in Request : InFlight(r)' =>
          /\ call'[r].network = cur'
          /\ pc'[r] \in {"locking", "got"} => ref'[r] = sessionList'
          /\ pc'[r] = "done" /\ call'[r].op = "hash" => result'[r] \subseteq Current'.ways
    BY <1>1, <1>2 DEF CallsTracked
  <2>2. \A r, u \in Toggles' : call'[r].way = call'[u].way => r = u
    <3>1. Toggles' \subseteq Request
      BY DEF Toggles
    <3>2. \A r, u \in Toggles : call[r].way = call[u].way => r = u
      BY DEF CallsTracked
    <3>3. \A r \in Toggles' : r # x => r \in Toggles /\ call'[r] = call[r]
      BY <1>1, <1>3, <3>1
    <3>4. x \notin Toggles
      BY <1>1 DEF Toggles
    <3>5. \A r \in Toggles' : r # x /\ x \in Toggles' => call'[r].way # call'[x].way
      BY <1>1, <1>3, <3>3, <3>4
    <3> QED BY <3>1, <3>2, <3>3, <3>5
  <2> QED BY <2>1, <2>2 DEF CallsTracked
<1> QED BY <1>1, <1>2, <1>4, <1>5, <1>6

LEMMA PictureToggle ==
  ASSUME PInv, PictureInv, NEW Q \in SUBSET Request, NEW v \in Way, ToggleInclude(Q, v)
  PROVE  PictureInv'
<1> SUFFICES ASSUME Tracked' PROVE (ListTracked /\ CallsTracked /\ \A w \in Way : WayTracked(w))'
  BY DEF PictureInv
<1>1. /\ trusted /\ Cardinality(Q) = 1 /\ shown[v] # "absent"
      /\ \A r \in Request : InFlight(r) => call[r].op = "hash" \/ (r \in Toggles /\ call[r].way # v)
      /\ UNCHANGED <<page, cur, shown, edits, stale>>
  BY DEF ToggleInclude, Tracked
<1>2. PICK x \in Request : Q = {x}
  <2>1. IsFiniteSet(Q)
    BY FS_Subset, NetworkEditorAssumption
  <2>2. PICK x : Q = {x}
    BY <1>1, <2>1, FS_Singleton
  <2> QED BY <2>2
<1> DEFINE op == IF shown[v] = "in" THEN "remove" ELSE "add"
           c == Ask(op, cur, v)
<1>3. Send({x}, c) /\ c.op = op /\ c.network = cur /\ c.way = v
  BY <1>2 DEF ToggleInclude, Ask
<1> HIDE DEF c
<1>4. Tracked
  BY <1>1 DEF Tracked, Toggles
<1>5. /\ ListTracked /\ CallsTracked /\ \A w \in Way : WayTracked(w)
      /\ EditListsTypeOK /\ shown \in [Way -> {"absent", "out", "in"}]
  BY <1>4 DEF PictureInv, PInv, TypeOK
<1>6. \A r \in Toggles : call[r].way # v
  BY <1>1 DEF Toggles
<1>7. /\ ListTracked' /\ CallsTracked' /\ Pending(cur)' = Pending(cur) /\ Current' = Current
      /\ call'[x] = c /\ pc'[x] = "sent"
      /\ \A w : \A r \in Request : Toggling(r, w)' <=>
           Toggling(r, w) \/ (r = x /\ c.op \in {"add", "remove"} /\ c.way = w)
      /\ \A r \in Request : r # x => pc'[r] = pc[r] /\ call'[r] = call[r]
  BY <1>1, <1>3, <1>5, <1>6, SendTracked
<1>8. WayTracked(v)'
  <2>1. \A r \in Request : ~Toggling(r, v)
    BY <1>6 DEF Toggling
  <2>2. \A r \in Request : Toggling(r, v)' <=> r = x
    BY <1>3, <1>7, <2>1
  <2>3. (shown[v] = "in" <=> v \in Pending(cur)) /\ v \in Current.ways
    BY <1>1, <1>5, <2>1 DEF WayTracked
  <2>4. shown[v] = IF op = "remove" THEN "in" ELSE "out"
    BY <1>1, <1>5
  <2>5. (shown'[v] = "in" <=> v \in Pending(cur)') /\ v \in Current'.ways
        /\ shown'[v] = IF call'[x].op = "remove" THEN "in" ELSE "out"
    BY <1>1, <1>3, <1>7, <2>3, <2>4
  <2> QED BY <1>7, <2>2, <2>5 DEF WayTracked
<1>9. ASSUME NEW w \in Way, w # v
      PROVE  WayTracked(w)'
  <2>1. \A r \in Request : Toggling(r, w)' <=> Toggling(r, w)
    BY <1>3, <1>7, <1>9
  <2>2. ~Toggling(x, w)
    <3>1. \A r \in {x} : ~InFlight(r)
      BY <1>2, <1>5, SendFacts DEF ToggleInclude
    <3> QED BY <3>1 DEF Toggling, Toggles
  <2>3. \A r \in Request : Toggling(r, w) => pc'[r] = pc[r] /\ call'[r] = call[r]
    BY <1>7, <2>2
  <2>4. WaySame(w)
    BY <1>1, <1>7, <2>1, <2>3 DEF WaySame
  <2> QED BY <1>5, <2>4, WayKeeps
<1> QED BY <1>7, <1>8, <1>9

LEMMA PictureGetHash ==
  ASSUME PInv, PictureInv, NEW q \in Request, GetHash(q)
  PROVE  PictureInv'
<1> SUFFICES ASSUME Tracked' PROVE (ListTracked /\ CallsTracked /\ \A w \in Way : WayTracked(w))'
  BY DEF PictureInv
<1> DEFINE c == Ask("hash", cur, AnyWay)
<1>1. /\ Send({q}, c) /\ c.op = "hash" /\ c.network = cur
      /\ UNCHANGED <<page, cur, shown, edits, stale, trusted>>
  BY DEF GetHash, Ask
<1> HIDE DEF c
<1>2. EditListsTypeOK
  BY DEF PInv, TypeOK
<1>3. ~InFlight(q) /\ \A r \in Request : r # q => call'[r] = call[r] /\ (InFlight(r)' <=> InFlight(r))
  <2>1. {q} \in SUBSET Request
    OBVIOUS
  <2> QED BY <1>1, <1>2, <2>1, SendFacts
<1>4. Tracked
  BY <1>1, <1>3 DEF Tracked
<1>5. ListTracked /\ CallsTracked /\ \A w \in Way : WayTracked(w)
  BY <1>4 DEF PictureInv
<1>6. /\ ListTracked' /\ CallsTracked' /\ Pending(cur)' = Pending(cur) /\ Current' = Current
      /\ \A w : \A r \in Request : Toggling(r, w)' <=>
           Toggling(r, w) \/ (r = q /\ c.op \in {"add", "remove"} /\ c.way = w)
      /\ \A r \in Request : r # q => pc'[r] = pc[r] /\ call'[r] = call[r]
  BY <1>1, <1>2, <1>5, SendTracked
<1>7. ASSUME NEW w \in Way
      PROVE  WayTracked(w)'
  <2>1. \A r \in Request : Toggling(r, w)' <=> Toggling(r, w)
    BY <1>1, <1>6
  <2>2. ~Toggling(q, w)
    BY <1>3 DEF Toggling, Toggles
  <2>3. \A r \in Request : Toggling(r, w) => pc'[r] = pc[r] /\ call'[r] = call[r]
    BY <1>6, <2>2
  <2>4. WaySame(w)
    BY <1>1, <1>6, <2>1, <2>3 DEF WaySame
  <2> QED BY <1>5, <2>4, WayKeeps
<1> QED BY <1>6, <1>7

\* A save or a load of the network is on the way: nothing is held against the list.
LEMMA PictureSends ==
  ASSUME PInv, PictureInv,
         NEW q \in Request,
         \/ \E n \in Network : ConfirmLoadNetwork(q, n)
         \/ SaveChanges(q) \/ SaveDone(q)
  PROVE  PictureInv'
<1>1. EditListsTypeOK /\ {q} \in SUBSET Request
  BY DEF PInv, TypeOK
<1>2. PICK c : (Send({q}, c) \/ TakeAndSend(q, c)) /\ c.op \in {"geo", "save"}
  <2>1. ASSUME NEW n \in Network, ConfirmLoadNetwork(q, n)
        PROVE  \E c : (Send({q}, c) \/ TakeAndSend(q, c)) /\ c.op \in {"geo", "save"}
    <3>1. Send({q}, Ask("geo", n, AnyWay)) /\ Ask("geo", n, AnyWay).op = "geo"
      BY <2>1 DEF ConfirmLoadNetwork, Ask
    <3> QED BY <3>1
  <2>2. CASE SaveChanges(q)
    <3>1. Send({q}, Ask("save", cur, AnyWay)) /\ Ask("save", cur, AnyWay).op = "save"
      BY <2>2 DEF SaveChanges, Ask
    <3> QED BY <3>1
  <2>3. CASE SaveDone(q)
    <3>1. TakeAndSend(q, Ask("geo", cur, AnyWay)) /\ Ask("geo", cur, AnyWay).op = "geo"
      BY <2>3 DEF SaveDone, Ask
    <3> QED BY <3>1
  <2> QED BY <2>1, <2>2, <2>3
<1>3. InFlight(q)' /\ call'[q] = c
  BY <1>1, <1>2, SendFacts, TakeAndSendFacts
<1>4. ~Tracked'
  BY <1>2, <1>3 DEF Tracked
<1> QED BY <1>4 DEF PictureInv

\* The server works on the list of the session, one road at a time.
LEMMA PictureServe ==
  ASSUME PInv, OpInv, PictureInv, NEW q \in Request, Serve(q) \/ Lose(q), UNCHANGED pageVars
  PROVE  PictureInv'
<1> SUFFICES ASSUME Tracked' PROVE (ListTracked /\ CallsTracked /\ \A w \in Way : WayTracked(w))'
  BY DEF PictureInv
<1>1. UNCHANGED <<page, cur, shown, edits, stale, trusted>> /\ EditListsTypeOK /\ Monitors
  BY DEF pageVars, PInv, TypeOK
<1>2. /\ call' = call /\ InFlight(q) /\ pc[q] # "failed"
      /\ \A r \in Request : InFlight(r)' <=> InFlight(r)
      /\ \A r \in Request : r # q =>
           /\ pc'[r] = pc[r] /\ ref'[r] = ref[r] /\ result'[r] = result[r]
  BY <1>1, ServeFacts
<1>3. Tracked
  BY <1>1, <1>2 DEF Tracked
<1>4. ListTracked /\ CallsTracked /\ \A w \in Way : WayTracked(w)
  BY <1>3 DEF PictureInv
<1>5. /\ call[q].op \notin {"save", "geo"} /\ call[q].network = cur
      /\ pc[q] \in {"locking", "got"} => ref[q] = sessionList
  BY <1>2, <1>3, <1>4 DEF Tracked, CallsTracked
<1>6. /\ sessionList \in List /\ Current \in Lists
      /\ Current.network = cur /\ Current.add \subseteq Current.ways
  BY <1>1, <1>4, CurrentType DEF ListTracked
<1>7. Toggles' = Toggles /\ \A w : \A r \in Request : Toggling(r, w)' <=> Toggling(r, w)
  BY <1>2 DEF Toggles, Toggling
<1>8. ASSUME /\ UNCHANGED <<file, sessionList>>
             /\ list'[sessionList].network = cur
             /\ Current.ways \subseteq list'[sessionList].ways
             /\ list'[sessionList].add \subseteq list'[sessionList].ways
             /\ pc'[q] \in {"locking", "got"} => ref'[q] = sessionList'
             /\ pc'[q] = "done" /\ call[q].op = "hash" => result'[q] \subseteq Current'.ways
      PROVE  ListTracked' /\ CallsTracked'
  <2>1. Current' = list'[sessionList]
    BY <1>8 DEF Current
  <2>2. ListTracked'
    BY <1>1, <1>4, <1>8, <2>1 DEF ListTracked
  <2>3. \A r \in Request : InFlight(r)' =>
          /\ call'[r].network = cur'
          /\ pc'[r] \in {"locking", "got"} => ref'[r] = sessionList'
          /\ pc'[r] = "done" /\ call'[r].op = "hash" => result'[r] \subseteq Current'.ways
    BY <1>1, <1>2, <1>4, <1>8, <2>1 DEF CallsTracked
  <2>4. \A r, u \in Toggles' : call'[r].way = call'[u].way => r = u
    BY <1>2, <1>4, <1>7 DEF CallsTracked
  <2> QED BY <2>2, <2>3, <2>4 DEF CallsTracked
<1>9. CASE /\ UNCHANGED <<file, sessionList, list>>
           /\ pc'[q] \in {"locking", "got", "failed"}
           /\ pc'[q] \in {"locking", "got"} => ref'[q] = sessionList
           /\ pc[q] # "done" \/ pc'[q] = "failed"
  <2>1. Pending(cur)' = Pending(cur) /\ Current' = Current
    BY <1>1, <1>9, SamePending
  <2>2. ListTracked' /\ CallsTracked'
    BY <1>6, <1>8, <1>9 DEF Current
  <2>3. ASSUME NEW w \in Way
        PROVE  WayTracked(w)'
    <3>1. \A r \in Request : Toggling(r, w) =>
            /\ call'[r] = call[r]
            /\ pc'[r] = "done" => pc[r] = "done"
            /\ pc'[r] \notin {"done", "failed"} => pc[r] \notin {"done", "failed"}
      BY <1>2, <1>9
    <3>2. WaySame(w)
      BY <1>1, <1>7, <2>1, <3>1 DEF WaySame
    <3> QED BY <1>4, <3>2, WayKeeps
  <2> QED BY <2>2, <2>3
<1>10. ASSUME NEW l, NEW answer, InList(q), Answer(q, l, answer)
       PROVE  /\ pc[q] = "got" /\ pc'[q] = "done" /\ result'[q] = answer
              /\ UNCHANGED <<file, sessionList>> /\ Current' = l
  <2>1. pc[q] = "got" /\ ref[q] = sessionList
    BY <1>5, <1>10 DEF InList
  <2>2. /\ pc' = [pc EXCEPT ![q] = "done"] /\ result' = [result EXCEPT ![q] = answer]
        /\ list' = [list EXCEPT ![sessionList] = l] /\ UNCHANGED <<file, sessionList>>
    BY <1>10, <2>1 DEF Answer
  <2> QED BY <1>1, <1>6, <2>1, <2>2 DEF EditListsTypeOK, Current
<1>11. /\ (\A w : w \in Pending(cur) <=> /\ w \in file[cur] \/ (w \in Current.add /\ w \in Current.ways)
                                      /\ w \notin Current.remove)
       /\ sessionList' # NoList /\ Current'.network = cur' =>
            (\A w : w \in Pending(cur)' <=>
                      /\ w \in file'[cur'] \/ (w \in Current'.add /\ w \in Current'.ways)
                      /\ w \notin Current'.remove)
  <2>1. (sessionList # NoList /\ Current.network = cur =>
           \A w : w \in Pending(cur) <=>
                    /\ w \in file[cur] \/ (w \in Current.add /\ w \in Current.ways)
                    /\ w \notin Current.remove)'
    BY PendingIs, PTL
  <2> QED BY <1>6, <2>1, PendingIs, EditListsAssumption
<1>12. CASE Hash(q)
  <2> DEFINE l == [Current EXCEPT !.ways = @ \cup Way]
  <2>1. call[q].op = "hash" /\ InList(q) /\ Answer(q, [list[ref[q]] EXCEPT !.ways = @ \cup Way], Way)
    BY <1>12 DEF Hash
  <2>2. Answer(q, l, Way)
    BY <1>5, <2>1 DEF InList, Current
  <2>3. l.network = cur /\ l.add = Current.add /\ l.remove = Current.remove
        /\ l.ways = Current.ways \cup Way
    BY <1>6 DEF Lists
  <2> HIDE DEF l
  <2>4. /\ pc'[q] = "done" /\ result'[q] = Way
        /\ UNCHANGED <<file, sessionList>> /\ Current' = l
    BY <1>10, <2>1, <2>2
  <2>5. ListTracked' /\ CallsTracked'
    BY <1>6, <1>8, <2>3, <2>4 DEF Current
  <2>6. ASSUME NEW w \in Way
        PROVE  WayTracked(w)'
    <3>1. w \in Pending(cur)' <=> w \in Pending(cur)
      BY <1>1, <1>6, <1>11, <2>3, <2>4, EditListsAssumption
    <3>2. \A r \in Request : Toggling(r, w) => r # q
      BY <2>1 DEF Toggling, Toggles
    <3>3. WaySame(w)
      BY <1>1, <1>2, <1>7, <2>3, <2>4, <3>1, <3>2 DEF WaySame
    <3> QED BY <1>4, <3>3, WayKeeps
  <2> QED BY <2>5, <2>6
<1>13. ASSUME NEW l, NEW v \in Way, call[q].op \in {"add", "remove"}, v = call[q].way,
              InList(q), Answer(q, l, {}), l.network = cur, l.ways = Current.ways,
              \A w : w # v => /\ w \in l.add <=> w \in Current.add
                              /\ w \in l.remove <=> w \in Current.remove,
              IF call[q].op = "add" THEN v \in l.add /\ v \notin l.remove
              ELSE v \notin l.add /\ v \in l.remove
       PROVE  (ListTracked /\ CallsTracked /\ \A w \in Way : WayTracked(w))'
  <2>1. /\ pc[q] = "got" /\ pc'[q] = "done"
        /\ UNCHANGED <<file, sessionList>> /\ Current' = l
    BY <1>10, <1>13
  <2>2. Toggling(q, v) /\ \A r \in Request : Toggling(r, v) => r = q
    BY <1>2, <1>4, <1>13 DEF Toggling, Toggles, CallsTracked
  <2>3. /\ v \in Current.ways
        /\ shown[v] = IF call[q].op = "remove" THEN "in" ELSE "out"
    BY <1>4, <2>2 DEF WayTracked
  <2>4. l.add \subseteq l.ways
    BY <1>6, <1>13, <2>3
  <2>5. ListTracked' /\ CallsTracked'
    BY <1>6, <1>8, <1>13, <2>1, <2>4 DEF Current
  <2>6. \A w : w \in Pending(cur)' <=> /\ w \in file[cur] \/ (w \in l.add /\ w \in l.ways)
                                     /\ w \notin l.remove
    BY <1>1, <1>6, <1>11, <1>13, <2>1, EditListsAssumption
  <2>7. WayTracked(v)'
    <3>1. shown'[v] = "in" <=> v \notin Pending(cur)'
      BY <1>1, <1>13, <2>3, <2>6
    <3>2. /\ v \in Current'.ways
          /\ shown'[v] = IF call'[q].op = "remove" THEN "in" ELSE "out"
          /\ Toggling(q, v)' /\ \A r \in Request : Toggling(r, v)' => r = q
      BY <1>1, <1>2, <1>7, <1>13, <2>1, <2>2, <2>3
    <3> QED BY <2>1, <3>1, <3>2 DEF WayTracked
  <2>8. ASSUME NEW w \in Way, w # v
        PROVE  WayTracked(w)'
    <3>1. w \in Pending(cur)' <=> w \in Pending(cur)
      BY <1>11, <1>13, <2>6, <2>8
    <3>2. \A r \in Request : Toggling(r, w) => r # q
      BY <1>13, <2>8 DEF Toggling
    <3>3. WaySame(w)
      BY <1>1, <1>2, <1>7, <1>13, <2>1, <2>8, <3>1, <3>2 DEF WaySame
    <3> QED BY <1>4, <3>3, WayKeeps
  <2> QED BY <2>5, <2>7, <2>8
<1>14. CASE Add(q) \/ Remove(q)
  <2> DEFINE a == [Current EXCEPT !.add = @ \cup {call[q].way}, !.remove = @ \ {call[q].way}]
             d == [Current EXCEPT !.add = @ \ {call[q].way}, !.remove = @ \cup {call[q].way}]
  <2>1. call[q].way \in Way /\ InList(q) /\ ref[q] = sessionList
    BY <1>1, <1>5, <1>14 DEF Add, Remove, InList, EditListsTypeOK, Call
  <2>2. CASE Add(q)
    <3>1. call[q].op = "add" /\ Answer(q, a, {})
      BY <2>1, <2>2 DEF Add, Current
    <3>2. a.network = cur /\ a.ways = Current.ways /\ a.add = Current.add \cup {call[q].way}
          /\ a.remove = Current.remove \ {call[q].way}
      BY <1>6 DEF Lists
    <3> HIDE DEF a
    <3> QED BY <1>13, <2>1, <3>1, <3>2
  <2>3. CASE Remove(q)
    <3>1. call[q].op = "remove" /\ Answer(q, d, {})
      BY <2>1, <2>3 DEF Remove, Current
    <3>2. d.network = cur /\ d.ways = Current.ways /\ d.add = Current.add \ {call[q].way}
          /\ d.remove = Current.remove \cup {call[q].way}
      BY <1>6 DEF Lists
    <3> HIDE DEF d
    <3> QED BY <1>13, <2>1, <3>1, <3>2
  <2> QED BY <1>14, <2>2, <2>3
<1>15. CASE pc[q] = "sent" /\ pc'[q] = "locking" /\ ref'[q] = sessionList'
            /\ UNCHANGED <<file, sessionList, list>>
  BY <1>9, <1>15
<1>16. CASE pc[q] = "locking" /\ pc'[q] = "got" /\ UNCHANGED <<file, sessionList, ref, list>>
  BY <1>5, <1>9, <1>16
<1>17. CASE pc'[q] = "failed" /\ UNCHANGED <<file, sessionList, list>>
  BY <1>9, <1>17
<1>18. sessionList # NoList /\ (pc[q] = "locking" => list[ref[q]].network = call[q].network)
  BY <1>5, <1>6, EditListsAssumption DEF Current
<1>19. pc[q] \notin {"saved", "writing"} /\ ~Geo(q) /\ ~SaveApply(q)
  BY <1>5 DEF OpInv, Geo, SaveApply
<1> QED BY <1>1, <1>5, <1>12, <1>14, <1>15, <1>16, <1>17, <1>18, <1>19, ServeKinds

LEMMA PictureStep ==
  ASSUME PInv, OpInv, AloneInv, PictureInv, Next
  PROVE  PictureInv'
<1>1. CASE \/ NetworksSuccess \/ TurnOffDelete \/ StartAddRemove \/ KeyupExitAddRemove
           \/ ContinueEditing \/ ConfirmPublishNetwork \/ PublishFail
  BY <1>1, PictureQuiet DEF NetworksSuccess, TurnOffDelete, StartAddRemove, KeyupExitAddRemove,
                            ContinueEditing, ConfirmPublishNetwork, PublishFail
<1>2. CASE SwitchToMain
  BY <1>2 DEF SwitchToMain, PictureInv, Tracked
<1>3. CASE ConfirmCancel \/ CancelEdits \/ PublishDone
  BY <1>2, <1>3, PictureQuiet DEF ConfirmCancel, CancelEdits, PublishDone
<1>4. ASSUME NEW q \in Request, \/ \E n \in Network : ConfirmLoadNetwork(q, n)
                                \/ GetHash(q) \/ SaveChanges(q)
      PROVE  PictureInv'
  BY <1>4, PictureSends, PictureGetHash
<1>5. ASSUME NEW Q \in SUBSET Request, NEW w \in Way, ToggleInclude(Q, w)
      PROVE  PictureInv'
  BY <1>5, PictureToggle
<1>6. ASSUME NEW q \in Request, Answered(q)
      PROVE  PictureInv'
  <2>1. CASE GeoFail(q) \/ ToggleFail(q) \/ SaveFail(q)
    BY <2>1 DEF GeoFail, ToggleFail, SaveFail, PictureInv, Tracked
  <2> QED BY <1>6, <2>1, PictureSelect, PictureHash, PictureToggleDone, PictureSends DEF Answered
<1>7. ASSUME NEW q \in Request, (Serve(q) \/ Lose(q)) /\ UNCHANGED pageVars
      PROVE  PictureInv'
  BY <1>7, PictureServe
<1> QED BY <1>1, <1>3, <1>4, <1>5, <1>6, <1>7 DEF Next, User

LEMMA PictureStutter ==
  ASSUME OpInv, AloneInv, PictureInv, UNCHANGED vars
  PROVE  OpInv' /\ AloneInv' /\ PictureInv'
<1>1. /\ UNCHANGED <<file, sessionList, list, pc, call, ref, result>> /\ UNCHANGED serverVars
      /\ UNCHANGED <<page, cur, shown, edits, stale, alone, trusted>>
  BY DEF vars, serverVars, pageVars
<1>2. OpInv' /\ AloneInv'
  BY <1>1 DEF OpInv, AloneInv, InFlight
<1> QED BY <1>1, <1>2, PictureQuiet

\* While no save or load is on the way and nothing spoilt the picture, the page and the list of
\* the session agree on each road, up to the toggles the page has not heard of.
THEOREM PictureInvariant == Spec => [](OpInv /\ AloneInv /\ PictureInv)
<1>1. Init => OpInv /\ AloneInv /\ PictureInv
  BY DEF Init, EditListsInit, OpInv, AloneInv, PictureInv, Tracked
<1>2. PInv /\ (OpInv /\ AloneInv /\ PictureInv) /\ [Next]_vars => (OpInv /\ AloneInv /\ PictureInv)'
  <2> SUFFICES ASSUME PInv, OpInv, AloneInv, PictureInv, [Next]_vars
               PROVE  OpInv' /\ AloneInv' /\ PictureInv'
    OBVIOUS
  <2>1. CASE Next
    BY <2>1, OpStep, AloneStep, PictureStep DEF PInv, TypeOK
  <2> QED BY <2>1, PictureStutter
<1> QED BY <1>1, <1>2, PageInvariance, PTL DEF Spec

\* Once everything is answered the page shows the network a save would write, offers only roads
\* the server can add, and without edits there is nothing to save.
THEOREM PictureTrue == Spec => []PictureAgrees
<1>1. PInv /\ PictureInv => PictureAgrees
  <2> SUFFICES ASSUME PInv, PictureInv, page = "edit", trusted, \A q \in Request : ~InFlight(q)
               PROVE  /\ \A w \in Way : shown[w] = "in" <=> w \in Pending(cur)
                      /\ \A w \in Way : shown[w] = "out" => w \in list[sessionList].ways
                      /\ ~edits => Pending(cur) = file[cur]
    BY DEF PictureAgrees
  <2>1. ListTracked /\ \A w \in Way : WayTracked(w)
    BY DEF PictureInv, Tracked
  <2>2. \A w : \A q \in Request : ~Toggling(q, w)
    BY DEF Toggling, Toggles
  <2>3. \A w \in Way : (shown[w] = "in" <=> w \in Pending(cur)) /\ (shown[w] # "absent" => w \in Current.ways)
    BY <2>1, <2>2 DEF WayTracked
  <2>4. ASSUME ~edits
        PROVE  Pending(cur) = file[cur]
    <3>1. EditListsTypeOK /\ cur \in Network /\ file[cur] \subseteq Way
      BY DEF PInv, TypeOK, EditListsTypeOK
    <3>2. Current.add \subseteq Way /\ Current.remove \subseteq Way
      BY <2>1, <3>1, CurrentType DEF ListTracked
    <3>3. \A w \in Way : w \notin Current.add \cup Current.remove
      BY <2>1, <2>2, <2>4 DEF WayTracked
    <3> QED BY <2>1, <3>1, <3>2, <3>3, PendingIs DEF ListTracked, Pending, Edited, Current
  <2> QED BY <2>3, <2>4 DEF Current
<1> QED BY <1>1, PageInvariance, PictureInvariant, PTL
==============================================================================
