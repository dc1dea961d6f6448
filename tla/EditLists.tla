----------------------------- MODULE EditLists -----------------------------
(***************************************************************************)
(* The server's side of editing a road network: the EditList that          *)
(* web/NetworkGeneration.java keeps for a user's session, and the requests *)
(* geo, hash, add, remove and save of that session, each on a thread of    *)
(* its own.                                                                 *)
(*                                                                          *)
(* Two monitors are involved: that of the table m_oSessionLists, which      *)
(* getList() holds while it waits for the monitor of the list it found, and *)
(* that of the list, which doSave() holds while removeList() waits for the  *)
(* table.  A synchronized block that takes no other monitor is one action.  *)
(***************************************************************************)
EXTENDS Naturals, FiniteSets

CONSTANTS
  Network,      \* networks the user may edit
  Way,          \* ids of the road segments; all lie in one hash cell
  Request,      \* requests in flight
  List,         \* EditList objects
  NoRequest, NoList,
  InitialFile   \* the geometry files at the beginning

ASSUME EditListsAssumption ==
  /\ Network # {} /\ Way # {}
  /\ InitialFile \in [Network -> SUBSET Way]
  /\ NoRequest \notin Request
  /\ NoList \notin List

VARIABLES
  file,         \* the unpublished geometry file of each network
  sessionList,  \* the session's entry of m_oSessionLists, or NoList
  tableOwner,   \* request inside the monitor of m_oSessionLists
  listOwner,    \* request inside doSave()'s monitor of each list
  list,         \* the fields of each list
  pc,           \* how far each request has come
  call,         \* what each request asks for
  ref,          \* the EditList each request got from getList()
  result        \* the ways a request answers with or is about to write

serverVars == <<file, sessionList, tableOwner, listOwner, list, pc, call, ref, result>>

EmptyList(n) == [network |-> n, add |-> {}, remove |-> {}, ways |-> {}]

Op == {"geo", "hash", "add", "remove", "save"}
Call == [op : Op, network : Network, way : Way]
Lists == [network : Network, add : SUBSET Way, remove : SUBSET Way, ways : SUBSET Way]
Phase == {"free", "sent", "locking", "got", "saved", "writing", "done", "failed"}

EditListsTypeOK ==
  /\ file \in [Network -> SUBSET Way]
  /\ sessionList \in List \cup {NoList}
  /\ tableOwner \in Request \cup {NoRequest}
  /\ listOwner \in [List -> Request \cup {NoRequest}]
  /\ list \in [List -> Lists]
  /\ pc \in [Request -> Phase]
  /\ call \in [Request -> Call]
  /\ ref \in [Request -> List \cup {NoList}]
  /\ result \in [Request -> SUBSET Way]

EditListsInit ==
  /\ file = InitialFile
  /\ sessionList = NoList
  /\ tableOwner = NoRequest
  /\ listOwner = [l \in List |-> NoRequest]
  /\ list = [l \in List |-> EmptyList(CHOOSE n \in Network : TRUE)]
  /\ pc = [q \in Request |-> "free"]
  /\ call \in [Request -> {CHOOSE c \in Call : TRUE}]
  /\ ref = [q \in Request |-> NoList]
  /\ result = [q \in Request |-> {}]

----------------------------------------------------------------------------
(* The client's side of a request.                                          *)

InFlight(q) == pc[q] # "free"

\* The requests of Q, all for c.
Send(Q, c) ==
  /\ \A q \in Q : pc[q] = "free"
  /\ pc' = [q \in Request |-> IF q \in Q THEN "sent" ELSE pc[q]]
  /\ call' = [q \in Request |-> IF q \in Q THEN c ELSE call[q]]
  /\ UNCHANGED <<file, sessionList, tableOwner, listOwner, list, ref, result>>

\* The answer is handed to the client and forgotten: phase is "done" for one that came
\* through, "failed" for an error code.
Take(q, phase) ==
  /\ pc[q] = phase
  /\ pc' = [pc EXCEPT ![q] = "free"]
  /\ call' = [call EXCEPT ![q] = CHOOSE c \in Call : TRUE]
  /\ ref' = [ref EXCEPT ![q] = NoList]
  /\ result' = [result EXCEPT ![q] = {}]
  /\ UNCHANGED <<file, sessionList, tableOwner, listOwner, list>>

\* The answer is taken, and its handler sends another request at once.
TakeAndSend(q, c) ==
  /\ pc[q] = "done"
  /\ pc' = [pc EXCEPT ![q] = "sent"]
  /\ call' = [call EXCEPT ![q] = c]
  /\ ref' = [ref EXCEPT ![q] = NoList]
  /\ result' = [result EXCEPT ![q] = {}]
  /\ UNCHANGED <<file, sessionList, tableOwner, listOwner, list>>

\* The request or its answer is lost on the way.
Lose(q) ==
  /\ pc[q] \in {"sent", "done"}
  /\ pc' = [pc EXCEPT ![q] = "failed"]
  /\ UNCHANGED <<file, sessionList, tableOwner, listOwner, list, call, ref, result>>

----------------------------------------------------------------------------
(* getList()                                                                *)

Unused == {l \in List : l # sessionList /\ \A q \in Request : ref[q] # l}

GetEnter(q) ==
  /\ pc[q] = "sent"
  /\ tableOwner = NoRequest
  /\ tableOwner' = q
  /\ \/ /\ sessionList # NoList
        /\ UNCHANGED <<sessionList, list>>
     \/ /\ sessionList = NoList
        /\ Unused # {}
        /\ sessionList' = CHOOSE l \in Unused : TRUE
        /\ list' = [list EXCEPT ![sessionList'] = EmptyList(call[q].network)]
  /\ ref' = [ref EXCEPT ![q] = sessionList']
  /\ pc' = [pc EXCEPT ![q] = "locking"]
  /\ UNCHANGED <<file, listOwner, call, result>>

GetLeave(q) ==
  /\ pc[q] = "locking"
  /\ listOwner[ref[q]] = NoRequest
  /\ tableOwner' = NoRequest
  /\ list' = IF list[ref[q]].network = call[q].network THEN list
             ELSE [list EXCEPT ![ref[q]] = EmptyList(call[q].network)]
  /\ pc' = [pc EXCEPT ![q] = "got"]
  /\ UNCHANGED <<file, sessionList, listOwner, call, ref, result>>

----------------------------------------------------------------------------
(* The bodies of the request handlers, each in the monitor of its list.     *)

InList(q) == pc[q] = "got" /\ listOwner[ref[q]] = NoRequest

Answer(q, l, answer) ==
  /\ list' = [list EXCEPT ![ref[q]] = l]
  /\ result' = [result EXCEPT ![q] = answer]
  /\ pc' = [pc EXCEPT ![q] = "done"]
  /\ UNCHANGED <<file, sessionList, tableOwner, listOwner, call, ref>>

Add_KeepRemoval(q) ==
  LET l == list[ref[q]] IN
  /\ call[q].op = "add" /\ InList(q)
  /\ Answer(q, [l EXCEPT !.add = @ \cup {call[q].way}], {})

Add(q) ==
  LET l == list[ref[q]] IN
  /\ call[q].op = "add" /\ InList(q)
  /\ Answer(q, [l EXCEPT !.add = @ \cup {call[q].way}, !.remove = @ \ {call[q].way}], {})

Remove(q) ==
  LET l == list[ref[q]] IN
  /\ call[q].op = "remove" /\ InList(q)
  /\ Answer(q, [l EXCEPT !.add = @ \ {call[q].way}, !.remove = @ \cup {call[q].way}], {})

\* doGeo() clears the ways of the list and reads those of the file; edits stay.
Geo(q) ==
  LET l == list[ref[q]] IN
  /\ call[q].op = "geo" /\ InList(q)
  /\ Answer(q, [l EXCEPT !.ways = file[call[q].network]], file[call[q].network])

Hash_NotKept(q) ==
  /\ call[q].op = "hash" /\ InList(q)
  /\ Answer(q, list[ref[q]], Way)

Hash(q) ==
  LET l == list[ref[q]] IN
  /\ call[q].op = "hash" /\ InList(q)
  /\ Answer(q, [l EXCEPT !.ways = @ \cup Way], Way)

\* What a save makes of a file: only ways the list knows can be added.
Edited(l, ways) == (ways \cup (l.add \cap l.ways)) \ l.remove

\* The part of doSave() in the list's monitor, up to removeList().
SaveApply(q) ==
  LET l == list[ref[q]] IN
  /\ call[q].op = "save" /\ InList(q)
  /\ listOwner' = [listOwner EXCEPT ![ref[q]] = q]
  /\ result' = [result EXCEPT ![q] = Edited(l, file[call[q].network])]
  /\ list' = [list EXCEPT ![ref[q]] = EmptyList(l.network)]
  /\ pc' = [pc EXCEPT ![q] = "saved"]
  /\ UNCHANGED <<file, sessionList, tableOwner, call, ref>>

\* removeList() removes the list that has the same session, whichever that is by now.
SaveRemove_InMonitor(q) ==
  /\ pc[q] = "saved"
  /\ tableOwner = NoRequest
  /\ sessionList' = NoList
  /\ pc' = [pc EXCEPT ![q] = "writing"]
  /\ UNCHANGED <<file, tableOwner, listOwner, list, call, ref, result>>

SaveRemove(q) ==
  /\ pc[q] = "saved"
  /\ tableOwner = NoRequest
  /\ sessionList' = NoList
  /\ listOwner' = [listOwner EXCEPT ![ref[q]] = NoRequest]
  /\ pc' = [pc EXCEPT ![q] = "writing"]
  /\ UNCHANGED <<file, tableOwner, list, call, ref, result>>

SaveWrite(q) ==
  /\ pc[q] = "writing"
  /\ file' = [file EXCEPT ![call[q].network] = result[q]]
  /\ pc' = [pc EXCEPT ![q] = "done"]
  /\ UNCHANGED <<sessionList, tableOwner, listOwner, list, call, ref, result>>

\* A file that cannot be read or written ends a request with an error.  doGeo() has cleared
\* the ways of the list by then, and keeps what it could read.
ServerFail(q) ==
  /\ \/ /\ InList(q) /\ call[q].op = "geo"
        /\ \E ways \in SUBSET file[call[q].network] :
             list' = [list EXCEPT ![ref[q]] = [@ EXCEPT !.ways = ways]]
     \/ /\ InList(q) /\ call[q].op \in {"hash", "save"}
        /\ UNCHANGED list
     \/ /\ pc[q] = "writing"
        /\ UNCHANGED list
  /\ pc' = [pc EXCEPT ![q] = "failed"]
  /\ UNCHANGED <<file, sessionList, tableOwner, listOwner, call, ref, result>>

Body(q) == Add(q) \/ Remove(q) \/ Geo(q) \/ Hash(q) \/ SaveApply(q)

Serve(q) ==
  \/ GetEnter(q) \/ GetLeave(q)
  \/ Body(q) \/ SaveRemove(q) \/ SaveWrite(q) \/ ServerFail(q)

\* A client that may send anything at any time.
Client(q) ==
  \/ \E c \in Call : TakeAndSend(q, c)
  \/ Take(q, "done") \/ Take(q, "failed")
  \/ Lose(q)

EditListsNext ==
  \/ \E Q \in SUBSET Request, c \in Call : Send(Q, c)
  \/ \E q \in Request : Client(q) \/ Serve(q)

EditListsSpec == EditListsInit /\ [][EditListsNext]_serverVars

----------------------------------------------------------------------------
(* Properties                                                               *)

\* A save that is about to remove its list and a request that looks the same list up
\* wait for each other: one holds the list and wants the table, the other the reverse.
SaveMeetsLookup ==
  \E s, g \in Request :
    /\ pc[s] = "saved" /\ pc[g] = "locking"
    /\ ref[g] = ref[s] /\ tableOwner = g /\ listOwner[ref[s]] = s

\* The steps a request on the server can take next, spelled out.
CanServe(q) ==
  \/ pc[q] = "sent" /\ tableOwner = NoRequest
  \/ pc[q] \in {"locking", "got"} /\ listOwner[ref[q]] = NoRequest
  \/ pc[q] = "saved" /\ tableOwner = NoRequest
  \/ pc[q] = "writing"

OnServer(q) == pc[q] \in Phase \ {"free", "done", "failed"}

\* The requests of a session never block each other for good, however many there are,
\* except in one way: a save meets a lookup of the list it saves (getList() nests the
\* monitors the other way round than doSave() with removeList()).
OneDeadlock ==
  (\E q \in Request : OnServer(q)) => (\E q \in Request : CanServe(q)) \/ SaveMeetsLookup

\* No way is both to be added and to be removed, in any list, in use or given up: save
\* would add it and take it out again whichever the user asked for last.
EditsDisjoint == \A l \in List : list[l].add \cap list[l].remove = {}

=============================================================================
