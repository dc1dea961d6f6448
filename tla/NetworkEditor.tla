--------------------------- MODULE NetworkEditor ---------------------------
(***************************************************************************)
(* The page on which a network is edited (src/web/script/network.js and    *)
(* the cancel dialog of dialogs.js), working on the edit lists of the      *)
(* server.  A handler of the page runs to its end before the next one; its  *)
(* requests are answered later, in any order, to a page that may have gone  *)
(* on: listeners, pictures and networks change under an answer's way.       *)
(*                                                                          *)
(* alone, trusted and canceled are history variables, sends a bound.        *)
(***************************************************************************)
EXTENDS EditLists

CONSTANTS NoNetwork, MaxListeners, MaxSends

ASSUME NetworkEditorAssumption ==
  /\ NoNetwork \notin Network
  /\ IsFiniteSet(Request)
  /\ MaxListeners \in Nat /\ MaxSends \in Nat

VARIABLES
  page,         \* "listing", "select", "opening" or "edit"
  cur,          \* g_sCurNetwork
  shown,        \* the features of the source geo-lines: include, or absent
  adding,       \* g_nEditMode = 1
  clickers,     \* registrations of toggleInclude on geo-lines
  keys,         \* registrations of keyupExitAddRemove; getHash listens while there are any
  edits,        \* g_nEdits > 0
  disabled,     \* the buttons of the edit control
  asking,       \* the cancel dialog is open
  loadingHash,  \* g_bLoadingHash
  hash,         \* the entry of g_oHashes for the cell
  stale,        \* toggles whose feature belongs to a picture that was replaced
  reload,       \* geo requests sent after a save
  publishing,   \* a publish request is in flight
  sends,        \* how many requests the page has sent
  alone,        \* history: the last request was sent when no other was in flight
  trusted,      \* history: see PictureAgrees
  canceled      \* history: roads whose unsaved edit the user gave up

pageVars == <<page, cur, shown, adding, clickers, keys, edits, disabled, asking,
              loadingHash, hash, stale, reload, publishing, sends, alone, trusted, canceled>>
vars == <<serverVars, pageVars>>

AnyWay == CHOOSE w \in Way : TRUE
Ask(op, n, w) == [op |-> op, network |-> n, way |-> w]
Toggles == {q \in Request : InFlight(q) /\ call[q].op \in {"add", "remove"}}

\* The page sends the requests Q, or sends another one in place of Q.
NoteSent(Q) ==
  /\ sends + Cardinality(Q) <= MaxSends
  /\ sends' = sends + Cardinality(Q)
  /\ alone' = (Cardinality(Q) = 1 /\ \A r \in Request \ Q : ~InFlight(r))

TypeOK ==
  /\ EditListsTypeOK
  /\ page \in {"listing", "select", "opening", "edit"}
  /\ cur \in Network \cup {NoNetwork}
  /\ page = "edit" => cur \in Network
  /\ shown \in [Way -> {"absent", "out", "in"}]
  /\ clickers \in 0..MaxListeners /\ keys \in 0..MaxListeners
  /\ {adding, edits, disabled, asking, loadingHash, publishing, alone, trusted} \subseteq BOOLEAN
  /\ sends \in 0..MaxSends /\ canceled \subseteq Way
  /\ hash \in {"none", "loading", "loaded"}
  /\ stale \subseteq Toggles
  /\ reload \subseteq {q \in Request : InFlight(q) /\ call[q].op = "geo"}

Init ==
  /\ EditListsInit
  /\ page = "listing" /\ cur = NoNetwork
  /\ shown = [w \in Way |-> "absent"]
  /\ clickers = 0 /\ keys = 0
  /\ adding = FALSE /\ edits = FALSE /\ disabled = FALSE /\ asking = FALSE
  /\ loadingHash = FALSE /\ publishing = FALSE
  /\ sends = 0 /\ alone = FALSE /\ trusted = FALSE /\ canceled = {}
  /\ hash = "none"
  /\ stale = {} /\ reload = {}

----------------------------------------------------------------------------
(* Choosing a network.                                                      *)

NetworksSuccess ==
  /\ page = "listing"
  /\ page' = "select"
  /\ UNCHANGED <<serverVars, cur, shown, adding, clickers, keys, edits, disabled, asking,
                 loadingHash, hash, stale, reload, publishing, sends, alone, trusted, canceled>>

ConfirmLoadNetwork(q, n) ==
  /\ page = "select"
  /\ page' = "opening"
  /\ Send({q}, Ask("geo", n, AnyWay)) /\ NoteSent({q})
  /\ UNCHANGED <<cur, shown, adding, clickers, keys, edits, disabled, asking,
                 loadingHash, hash, stale, reload, publishing, trusted, canceled>>

\* While the network is being loaded the buttons of the main page are there: entering
\* and leaving the delete mode makes the networks selectable again.
TurnOffDelete ==
  /\ page = "opening"
  /\ page' = "select"
  /\ UNCHANGED <<serverVars, cur, shown, adding, clickers, keys, edits, disabled, asking,
                 loadingHash, hash, stale, reload, publishing, sends, alone, trusted, canceled>>

\* What a save would make of network n now.
Pending(n) ==
  IF sessionList # NoList /\ list[sessionList].network = n
  THEN Edited(list[sessionList], file[n]) ELSE file[n]

\* The server holds a list for network n without edits.
Unedited(n) ==
  /\ sessionList # NoList
  /\ list[sessionList].network = n
  /\ list[sessionList].add = {} /\ list[sessionList].remove = {}

SelectSuccess_KeepNetwork(q) ==
  /\ call[q].op = "geo" /\ Take(q, "done")
  /\ page' = "edit"
  /\ shown' = [w \in Way |-> IF w \in result[q] THEN "in" ELSE "absent"]
  /\ hash' = "none"
  /\ edits' = FALSE /\ adding' = FALSE /\ disabled' = FALSE
  /\ stale' = Toggles
  /\ reload' = reload \ {q}
  /\ trusted' = (alone /\ Unedited(call[q].network))
  /\ UNCHANGED <<cur, clickers, keys, asking, loadingHash, publishing, sends, alone, canceled>>

\* The listeners of the add/remove mode stay as they are, whatever g_nEditMode says.
SelectSuccess(q) ==
  /\ call[q].op = "geo" /\ Take(q, "done")
  /\ page' = "edit"
  /\ cur' = call[q].network
  /\ shown' = [w \in Way |-> IF w \in result[q] THEN "in" ELSE "absent"]
  /\ hash' = "none"
  /\ edits' = FALSE /\ adding' = FALSE /\ disabled' = FALSE
  /\ stale' = Toggles
  /\ reload' = reload \ {q}
  /\ trusted' = (alone /\ Unedited(call[q].network))
  /\ UNCHANGED <<clickers, keys, asking, loadingHash, publishing, sends, alone, canceled>>

GeoFail(q) ==
  /\ call[q].op = "geo" /\ Take(q, "failed")
  /\ disabled' = (disabled /\ q \notin reload)
  /\ reload' = reload \ {q}
  /\ trusted' = FALSE
  /\ UNCHANGED <<page, cur, shown, adding, clickers, keys, edits, asking,
                 loadingHash, hash, stale, publishing, sends, alone, canceled>>

----------------------------------------------------------------------------
(* The add/remove mode.                                                     *)

Usable == page = "edit" /\ ~disabled /\ ~asking

\* map.off() takes one registration out, $(document).off() all of them.
TurnOffAddRemove(times) ==
  /\ clickers' = IF clickers > times THEN clickers - times ELSE 0
  /\ keys' = 0

StartAddRemove ==
  /\ Usable
  /\ \/ /\ ~adding
        /\ clickers < MaxListeners /\ keys < MaxListeners
        /\ clickers' = clickers + 1 /\ keys' = keys + 1
     \/ /\ adding
        /\ TurnOffAddRemove(1)
  /\ adding' = ~adding
  /\ UNCHANGED <<serverVars, page, cur, shown, edits, disabled, asking,
                 loadingHash, hash, stale, reload, publishing, sends, alone, trusted, canceled>>

KeyupExitAddRemove ==
  /\ keys > 0
  /\ adding' = FALSE
  /\ TurnOffAddRemove(keys)
  /\ UNCHANGED <<serverVars, page, cur, shown, edits, disabled, asking,
                 loadingHash, hash, stale, reload, publishing, sends, alone, trusted, canceled>>

GetHash(q) ==
  /\ keys > 0 /\ page = "edit" /\ ~asking
  /\ ~loadingHash /\ hash = "none"
  /\ loadingHash' = TRUE /\ hash' = "loading"
  /\ Send({q}, Ask("hash", cur, AnyWay)) /\ NoteSent({q})
  /\ UNCHANGED <<page, cur, shown, adding, clickers, keys, edits, disabled, asking,
                 stale, reload, publishing, trusted, canceled>>

\* Without the source geo-lines the handler ends in a TypeError, before its last line.
HashSuccess(q) ==
  /\ call[q].op = "hash" /\ Take(q, "done")
  /\ hash' = "loaded"
  /\ IF page = "edit"
     THEN /\ shown' = [w \in Way |-> IF shown[w] = "absent" /\ w \in result[q] THEN "out"
                                     ELSE shown[w]]
          /\ loadingHash' = FALSE
     ELSE UNCHANGED <<shown, loadingHash>>
  /\ UNCHANGED <<page, cur, adding, clickers, keys, edits, disabled, asking,
                 stale, reload, publishing, sends, alone, trusted, canceled>>

HashFail(q) ==
  /\ call[q].op = "hash" /\ Take(q, "failed")
  /\ loadingHash' = FALSE /\ hash' = "none"
  /\ UNCHANGED <<page, cur, shown, adding, clickers, keys, edits, disabled, asking,
                 stale, reload, publishing, sends, alone, trusted, canceled>>

\* Each registration sends a request of its own for the same click.
ToggleInclude(Q, w) ==
  /\ page = "edit" /\ ~asking
  /\ clickers > 0 /\ Cardinality(Q) = clickers
  /\ shown[w] # "absent"
  /\ Send(Q, Ask(IF shown[w] = "in" THEN "remove" ELSE "add", cur, w)) /\ NoteSent(Q)
  /\ trusted' = /\ trusted /\ clickers = 1
                /\ \A r \in Request : InFlight(r) =>
                     call[r].op = "hash" \/ (r \in Toggles /\ call[r].way # w)
  /\ canceled' = canceled \ {w}
  /\ UNCHANGED <<page, cur, shown, adding, clickers, keys, edits, disabled, asking,
                 loadingHash, hash, stale, reload, publishing>>

ToggleDone(q) ==
  /\ q \in Toggles /\ Take(q, "done")
  /\ shown' = IF q \in stale THEN shown
              ELSE [shown EXCEPT ![call[q].way] = IF @ = "in" THEN "out" ELSE "in"]
  /\ edits' = TRUE
  /\ stale' = stale \ {q}
  /\ UNCHANGED <<page, cur, adding, clickers, keys, disabled, asking,
                 loadingHash, hash, reload, publishing, sends, alone, trusted, canceled>>

ToggleFail(q) ==
  /\ q \in Toggles /\ Take(q, "failed")
  /\ stale' = stale \ {q}
  /\ trusted' = FALSE
  /\ UNCHANGED <<page, cur, shown, adding, clickers, keys, edits, disabled, asking,
                 loadingHash, hash, reload, publishing, sends, alone, canceled>>

----------------------------------------------------------------------------
(* Saving, leaving and publishing.                                          *)

SaveChanges(q) ==
  /\ Usable /\ edits
  /\ IF adding THEN TurnOffAddRemove(1) ELSE UNCHANGED <<clickers, keys>>
  /\ adding' = FALSE /\ disabled' = TRUE
  /\ Send({q}, Ask("save", cur, AnyWay)) /\ NoteSent({q})
  /\ trusted' = (trusted /\ \A r \in Request : ~InFlight(r))
  /\ UNCHANGED <<page, cur, shown, edits, asking,
                 loadingHash, hash, stale, reload, publishing, canceled>>

\* The network is read again: the one that is current by now.
SaveDone(q) ==
  /\ call[q].op = "save"
  /\ TakeAndSend(q, Ask("geo", cur, AnyWay)) /\ NoteSent({q})
  /\ reload' = reload \cup {q}
  /\ UNCHANGED <<page, cur, shown, adding, clickers, keys, edits, disabled, asking,
                 loadingHash, hash, stale, publishing, trusted, canceled>>

\* Nothing enables the buttons again.
SaveFail(q) ==
  /\ call[q].op = "save" /\ Take(q, "failed")
  /\ trusted' = FALSE
  /\ UNCHANGED <<page, cur, shown, adding, clickers, keys, edits, disabled, asking,
                 loadingHash, hash, stale, reload, publishing, sends, alone, canceled>>

SwitchToMain ==
  /\ page' = "listing"
  /\ asking' = FALSE
  /\ TurnOffAddRemove(1)
  /\ shown' = [w \in Way |-> "absent"]
  /\ stale' = Toggles
  /\ trusted' = FALSE
  /\ UNCHANGED <<serverVars, cur, adding, edits, disabled,
                 loadingHash, hash, reload, sends, alone>>

\* "Go Back": with edits the page asks first.
ConfirmCancel ==
  /\ Usable
  /\ \/ /\ ~edits
        /\ SwitchToMain /\ UNCHANGED canceled
     \/ /\ edits
        /\ asking' = TRUE
        /\ UNCHANGED <<serverVars, page, cur, shown, adding, clickers, keys, edits, disabled,
                       loadingHash, hash, stale, reload, sends, alone, trusted, canceled>>
  /\ UNCHANGED publishing

\* "Confirm cancel": nothing tells the server.
CancelEdits ==
  /\ asking /\ SwitchToMain
  /\ canceled' = (Pending(cur) \ file[cur]) \cup (file[cur] \ Pending(cur))
  /\ UNCHANGED publishing

ContinueEditing ==
  /\ asking
  /\ asking' = FALSE
  /\ UNCHANGED <<serverVars, page, cur, shown, adding, clickers, keys, edits, disabled,
                 loadingHash, hash, stale, reload, publishing, sends, alone, trusted, canceled>>

ConfirmPublishNetwork ==
  /\ Usable /\ ~publishing
  /\ publishing' = TRUE
  /\ UNCHANGED <<serverVars, page, cur, shown, adding, clickers, keys, edits, disabled, asking,
                 loadingHash, hash, stale, reload, sends, alone, trusted, canceled>>

\* The page is left without a question, with or without edits.
PublishDone == publishing /\ publishing' = FALSE /\ SwitchToMain /\ UNCHANGED canceled

PublishFail ==
  /\ publishing
  /\ publishing' = FALSE
  /\ UNCHANGED <<serverVars, page, cur, shown, adding, clickers, keys, edits, disabled, asking,
                 loadingHash, hash, stale, reload, sends, alone, trusted, canceled>>

User ==
  \/ TurnOffDelete \/ StartAddRemove \/ KeyupExitAddRemove
  \/ ConfirmCancel \/ CancelEdits \/ ContinueEditing \/ ConfirmPublishNetwork
  \/ \E q \in Request :
       \/ \E n \in Network : ConfirmLoadNetwork(q, n)
       \/ GetHash(q) \/ SaveChanges(q)
  \/ \E Q \in SUBSET Request, w \in Way : ToggleInclude(Q, w)

Answered(q) ==
  \/ SelectSuccess(q) \/ GeoFail(q) \/ HashSuccess(q) \/ HashFail(q)
  \/ ToggleDone(q) \/ ToggleFail(q) \/ SaveDone(q) \/ SaveFail(q)

Next ==
  \/ User
  \/ NetworksSuccess \/ PublishDone \/ PublishFail
  \/ \E q \in Request : Answered(q)
  \/ \E q \in Request : (Serve(q) \/ Lose(q)) /\ UNCHANGED pageVars

Spec == Init /\ [][Next]_vars

----------------------------------------------------------------------------
(* Properties                                                               *)

\* While nothing is in flight, the page shows exactly the network a save would write,
\* every road it offers can be added, and without edits there is nothing to save;
\* unless one of these happened since the network was loaded: it was loaded while the
\* server still held edits or other requests were in flight, a road was toggled again
\* before its answer, an edit was not answered before a save, or a request failed.
PictureAgrees ==
  (page = "edit" /\ trusted /\ \A q \in Request : ~InFlight(q)) =>
    /\ \A w \in Way : shown[w] = "in" <=> w \in Pending(cur)
    /\ \A w \in Way : shown[w] = "out" => w \in list[sessionList].ways
    /\ ~edits => Pending(cur) = file[cur]

\* "Canceling will lose all unsaved changes": no save writes an edit that was unsaved
\* when the user confirmed the dialog, unless the road has been clicked again.
CanceledEditsLost ==
  [][\A n \in Network :
       ((file'[n] \ file[n]) \cup (file[n] \ file'[n])) \cap canceled = {}]_vars

=============================================================================
