----------------------------- MODULE Scenarios -----------------------------
(***************************************************************************)
(* The page on which scenarios are put together                            *)
(* (src/web/script/scenarios.js), with the templates that                   *)
(* web/Scenarios.java keeps for it.  A scenario is a list of groups of road *)
(* segments; all segments of a group have the same lanes and speed limit    *)
(* (here: class), a segment is in one group, and the groups are saved as a  *)
(* template, which can be loaded again and run.                             *)
(*                                                                          *)
(* A handler runs to its end before the next event.  Events are the mouse,  *)
(* the buttons of the panel and of the modal dialogs, the timer of          *)
(* addRemove() and the answers to requests, which arrive in any order and   *)
(* are not held up by dialogs.                                              *)
(*                                                                          *)
(* work is a bound; raced, muddled and crossed are history variables.      *)
(***************************************************************************)
EXTENDS Integers, Sequences, FiniteSets

CONSTANTS
  Segment, Label, Request,
  NoLabel,
  Names,             \* templates are named 1..Names, in the order of localeCompare
  Class,             \* lanes and speed limit of a segment, positive numbers
  BaseClass,         \* the classes in the network's own data
  SeveralNetworks,   \* the user may edit more than one network
  InitialTemplates,
  MaxWork, MaxTimers

ASSUME ScenariosAssumption ==
  /\ Names \in Nat /\ Class \subseteq Nat \ {0}
  /\ BaseClass \in [Segment -> Class]
  /\ NoLabel \notin Label
  /\ SeveralNetworks \in BOOLEAN
  /\ MaxWork \in Nat /\ MaxTimers \in Nat

VARIABLES
  state,      \* STATE
  groups,     \* g_aGroups
  current,    \* label of g_oCurrentGroup
  include,    \* segments with the feature state "include"
  clicked,    \* g_bClicked
  over,       \* the group label the mouse is on
  timers,     \* timers of addRemove(), in the order in which they end
  canSave, canRun,   \* the buttons are enabled
  name,       \* g_sCurrentScenarioName
  typed,      \* the text of #scenarioName
  meta,       \* g_oMetadata
  shared,     \* the template in list whose metadata object is g_oMetadata
  base,       \* lanecount and spdlimit of the features
  list,       \* g_oScenarios
  rows,       \* the templates in the load dialog
  selected,   \* g_nSelectedScenario
  open,       \* modal dialogs
  panel,      \* the group list dialog is open
  choosing,   \* loadANetwork listens
  server,     \* the templates on the server
  pc, call,   \* requests
  work,       \* edits made and requests sent
  raced, muddled, crossed

scenario == <<state, groups, current, canSave, canRun>>
map == <<include, clicked, over, timers>>
identity == <<name, typed, meta, shared, base>>
loadDialog == <<list, rows, selected>>
windows == <<open, panel, choosing>>
requests == <<server, pc, call>>
history == <<raced, muddled, crossed>>
vars == <<scenario, map, identity, loadDialog, windows, requests, work, history>>

Unset == 0        \* Number.MIN_SAFE_INTEGER, undefined or ''
Name == 1..Names
NoMeta == [s \in Segment |-> Unset]

Saved == [label : Label, segs : (SUBSET Segment) \ {{}}, value : Class \cup {Unset}]
Group == [label : Label, index : Nat, segs : SUBSET Segment,
          class : Class \cup {Unset}, value : Class \cup {Unset}]
IsTemplate(t) == t \in [groups : Seq(Saved), meta : [Segment -> Class \cup {Unset}]]

\* The templates the server begins with were saved from this page (see Content), and none of
\* their segments has changed since: s and u of one group have the same class.
ASSUME TemplatesAssumption ==
  /\ DOMAIN InitialTemplates \subseteq Name
  /\ \A t \in DOMAIN InitialTemplates :
       LET g == InitialTemplates[t].groups
           m == InitialTemplates[t].meta
           class(s) == IF m[s] # Unset THEN m[s] ELSE BaseClass[s]
       IN /\ IsTemplate(InitialTemplates[t])
          /\ \A i, j \in DOMAIN g :
               i # j => g[i].label # g[j].label /\ g[i].segs \cap g[j].segs = {}
          /\ \A i \in DOMAIN g : /\ g[i].value # Unset
                               /\ \A s, u \in g[i].segs : class(s) = class(u)

IsCall(c) ==
  /\ c.op \in {"none", "save", "delete", "run", "metadata"}
  /\ c.name \in Name \cup {Unset}
  /\ c.op = "save" => IsTemplate(c.template)
  /\ c.op = "metadata" => c.seg \in Segment /\ c.class \in Class

TypeOK ==
  /\ state \in {"network", "view", "add", "edit"}
  /\ \A i \in DOMAIN groups : groups[i] \in Group /\ groups[i].index = i - 1
  /\ \A i, j \in DOMAIN groups : groups[i].label = groups[j].label => i = j
  /\ current = NoLabel \/ \E i \in DOMAIN groups : groups[i].label = current
  /\ state = "add" => current # NoLabel
  /\ include \subseteq Segment
  /\ over = NoLabel \/ \E i \in DOMAIN groups : groups[i].label = over
  /\ {clicked, canSave, canRun, panel, choosing, raced, muddled, crossed} \subseteq BOOLEAN
  /\ Len(timers) <= MaxTimers
  /\ \A i \in DOMAIN timers : timers[i].label \in Label \cup {NoLabel} /\ timers[i].segs \subseteq Segment
  /\ {name, typed, shared} \subseteq Name \cup {Unset}
  /\ shared # Unset => shared \in DOMAIN list
  /\ meta \in [Segment -> Class \cup {Unset}] /\ base \in [Segment -> Class]
  /\ DOMAIN list \subseteq Name /\ \A t \in DOMAIN list : IsTemplate(list[t])
  /\ DOMAIN server \subseteq Name /\ \A t \in DOMAIN server : IsTemplate(server[t])
  /\ rows \subseteq Name /\ selected \in -1..(Names - 1)
  /\ open \in {{}, {"values"}, {"delete"}, {"load"}, {"load", "template"},
               {"restart"}, {"run"}, {"overwrite"}}
  /\ pc \in [Request -> {"free", "sent", "done", "failed"}]
  /\ \A q \in Request : IsCall(call[q])
  /\ work \in 0..MaxWork

----------------------------------------------------------------------------
(* Groups and templates.                                                    *)

ClassOf(s) == IF meta[s] # Unset THEN meta[s] ELSE base[s]
Position(l) == CHOOSE i \in DOMAIN groups : groups[i].label = l
SegsOf(l) == groups[Position(l)].segs

IsSegmentInGroup_Current(s) == s \in SegsOf(current)
IsSegmentInGroup(s) == \E i \in DOMAIN groups : s \in groups[i].segs

\* A segment's lanes matter to a template when one of its groups has it.
Holds(t, s) == \E i \in DOMAIN t.groups : s \in t.groups[i].segs

\* What saveScenario() sends: empty groups are left out.
Content ==
  LET filled == {i \in DOMAIN groups : groups[i].segs # {}}
      nth(k) == CHOOSE i \in filled : Cardinality({j \in filled : j <= i}) = k
  IN [k \in 1..Cardinality(filled) |->
        [label |-> groups[nth(k)].label, segs |-> groups[nth(k)].segs,
         value |-> groups[nth(k)].value]]

\* The template at an index of the sorted list: the one with index smaller names.
At(index) == {t \in DOMAIN list : Cardinality({u \in DOMAIN list : u < t}) = index}
Without(f, S) == [t \in DOMAIN f \ S |-> f[t]]
With(f, t, v) == [u \in DOMAIN f \cup {t} |-> IF u = t THEN v ELSE f[u]]

InFlight(ops) == {q \in Request : pc[q] # "free" /\ call[q].op \in ops}
NoCall == [op |-> "none", name |-> Unset]

Init ==
  /\ state = "view" /\ groups = <<>> /\ current = NoLabel
  /\ canSave = FALSE /\ canRun = FALSE
  /\ include = {} /\ clicked = FALSE /\ over = NoLabel /\ timers = <<>>
  /\ name = Unset /\ typed = Unset /\ meta = NoMeta /\ shared = Unset /\ base = BaseClass
  /\ list = InitialTemplates /\ rows = {} /\ selected = -1
  /\ open = {} /\ panel = TRUE /\ choosing = FALSE
  /\ server = InitialTemplates
  /\ pc = [q \in Request |-> "free"] /\ call = [q \in Request |-> NoCall]
  /\ work = 0
  /\ raced = FALSE /\ muddled = FALSE /\ crossed = FALSE

\* The user works on the groups; an answer on the way may not fit them any more.
Edit(more) ==
  /\ work < MaxWork
  /\ work' = work + 1
  /\ raced' = (raced \/ more \/ InFlight({"save", "delete"}) # {})
  /\ UNCHANGED crossed

Send(q, c) ==
  /\ pc[q] = "free" /\ work < MaxWork
  /\ pc' = [pc EXCEPT ![q] = "sent"]
  /\ call' = [call EXCEPT ![q] = c]
  /\ work' = work + 1
  /\ UNCHANGED server

Take(q, op, phase) ==
  /\ pc[q] = phase /\ call[q].op = op
  /\ pc' = [pc EXCEPT ![q] = "free"]
  /\ call' = [call EXCEPT ![q] = NoCall]
  /\ UNCHANGED server

\* A dialog or the page overlay is not in the user's way.
Free == open = {} /\ InFlight({"metadata"}) = {}
AtPanel == Free /\ panel

----------------------------------------------------------------------------
(* switchState()                                                            *)

\* setValues() gives a group without values those of its segments.
SetValues(g) == IF g.value = Unset THEN [g EXCEPT !.value = g.class] ELSE g

ViewGroups_KeepValues ==
  /\ state' = "view" /\ current' = NoLabel
  /\ UNCHANGED groups

\* switchState(VIEWGROUPS, VIEWGROUPS)
ViewGroups ==
  /\ state' = "view" /\ current' = NoLabel
  /\ groups' = IF state = "add" THEN [groups EXCEPT ![Position(current)] = SetValues(@)]
               ELSE groups

\* Timers go on with the group they were started for when it is thrown away.
Forget(ls) ==
  timers' = [i \in DOMAIN timers |->
               IF timers[i].label \in ls
               THEN [label |-> NoLabel, segs |-> SegsOf(timers[i].label)] ELSE timers[i]]

----------------------------------------------------------------------------
(* The mouse on the labels of the groups.                                   *)

MouseEnterLabel(l) ==
  /\ AtPanel /\ over = NoLabel
  /\ \E i \in DOMAIN groups : groups[i].label = l
  /\ over' = l
  /\ include' = IF state = "add" THEN include ELSE include \cup SegsOf(l)
  /\ UNCHANGED <<scenario, clicked, timers, identity, loadDialog, windows, requests, work, history>>

MouseLeaveLabel_InAnyState ==
  /\ over # NoLabel
  /\ over' = NoLabel
  /\ clicked' = FALSE
  /\ include' = IF clicked THEN include ELSE include \ SegsOf(over)
  /\ UNCHANGED <<scenario, timers, identity, loadDialog, windows, requests, work, history>>

MouseLeaveLabel ==
  /\ over # NoLabel
  /\ over' = NoLabel
  /\ clicked' = FALSE
  /\ include' = IF clicked \/ state = "add" THEN include ELSE include \ SegsOf(over)
  /\ UNCHANGED <<scenario, timers, identity, loadDialog, windows, requests, work, history>>

----------------------------------------------------------------------------
(* Groups.                                                                  *)

AddGroup(l) ==
  /\ AtPanel /\ state # "add"
  /\ \A i \in DOMAIN groups : groups[i].label # l
  /\ Edit(FALSE) /\ UNCHANGED muddled
  /\ groups' = Append(groups, [label |-> l, index |-> Len(groups), segs |-> {},
                               class |-> Unset, value |-> Unset])
  /\ state' = "view" /\ current' = NoLabel
  /\ canSave' = TRUE /\ canRun' = FALSE
  /\ UNCHANGED <<map, identity, loadDialog, windows, requests>>

AddRemove ==
  /\ AtPanel /\ over # NoLabel
  /\ Len(timers) < MaxTimers
  /\ state # "add"
  /\ Edit(FALSE) /\ UNCHANGED muddled
  /\ current' = over /\ state' = "add"
  /\ clicked' = TRUE
  /\ include' = include \cup SegsOf(over)
  /\ timers' = Append(timers, [label |-> over, segs |-> {}])
  /\ UNCHANGED <<groups, canSave, canRun, over, identity, loadDialog, windows, requests>>

\* The Done button, or the icon of any other group.
Done ==
  /\ AtPanel /\ over # NoLabel /\ state = "add"
  /\ ViewGroups
  /\ UNCHANGED <<canSave, canRun, map, identity, loadDialog, windows, requests, work, history>>

TimerEnds ==
  /\ timers # <<>>
  /\ LET t == Head(timers) IN
     include' = include \cup (IF t.label = NoLabel THEN t.segs ELSE SegsOf(t.label))
  /\ timers' = Tail(timers)
  /\ UNCHANGED <<scenario, clicked, over, identity, loadDialog, windows, requests, work, history>>

\* A click on a segment, as the flag on the map has it; Toggled is the group afterwards.
Toggled(g, s) ==
  LET segs == IF s \in include THEN g.segs \ {s} ELSE g.segs \cup {s}
  IN [g EXCEPT !.segs = segs,
               !.class = CASE segs = {} -> Unset
                           [] s \notin include /\ segs = {s} -> ClassOf(s)
                           [] OTHER -> @]

ToggleInclude(s) ==
  LET g == groups[Position(current)] IN
  /\ Free /\ state = "add"
  /\ s \in include \/ ~IsSegmentInGroup(s)
  /\ g.segs = {} \/ g.class = ClassOf(s)
  /\ Edit(FALSE) /\ UNCHANGED muddled
  /\ groups' = [groups EXCEPT ![Position(current)] = Toggled(@, s)]
  /\ include' = IF s \in include THEN include \ {s} ELSE include \cup {s}
  /\ canSave' = TRUE /\ canRun' = FALSE
  /\ UNCHANGED <<state, current, clicked, over, timers, identity, loadDialog, windows, requests>>

\* Without segments the state stays "edit" without a dialog, until another click.
EditMode ==
  /\ AtPanel /\ over # NoLabel /\ state # "add"
  /\ \/ /\ state = "edit"
        /\ ViewGroups
        /\ UNCHANGED open
     \/ /\ state # "edit" /\ SegsOf(over) = {}
        /\ state' = "edit" /\ current' = over
        /\ UNCHANGED <<groups, open>>
     \/ /\ state # "edit" /\ SegsOf(over) # {}
        /\ state' = "edit" /\ current' = over
        /\ groups' = [groups EXCEPT ![Position(over)] = SetValues(@)]
        /\ open' = {"values"}
  /\ UNCHANGED <<canSave, canRun, map, identity, loadDialog, panel, choosing, requests, work, history>>

SaveValues_KeepRun(value) ==
  /\ "values" \in open /\ current # NoLabel
  /\ Edit(FALSE) /\ UNCHANGED muddled
  /\ groups' = [groups EXCEPT ![Position(current)] = [@ EXCEPT !.value = value]]
  /\ state' = "view" /\ current' = NoLabel
  /\ canSave' = TRUE
  /\ open' = {}
  /\ UNCHANGED <<canRun, map, identity, loadDialog, panel, choosing, requests>>

\* Without a current group the handler ends in a TypeError and changes nothing.
SaveValues(value) ==
  /\ "values" \in open /\ current # NoLabel
  /\ Edit(FALSE) /\ UNCHANGED muddled
  /\ groups' = [groups EXCEPT ![Position(current)] = [@ EXCEPT !.value = value]]
  /\ state' = "view" /\ current' = NoLabel
  /\ canSave' = TRUE /\ canRun' = FALSE
  /\ open' = {}
  /\ UNCHANGED <<map, identity, loadDialog, panel, choosing, requests>>

\* The Cancel button of the dialogs for values, for deleting a group and for running.
CancelDialog ==
  /\ open \cap {"values", "delete", "run"} # {}
  /\ open' = {}
  /\ ViewGroups
  /\ UNCHANGED <<canSave, canRun, map, identity, loadDialog, panel, choosing, requests, work, history>>

\* The escape key, or the Cancel button of the other dialogs.
CloseDialog ==
  /\ open \cap {"delete", "load", "run", "restart", "overwrite"} # {}
  /\ open' = IF "template" \in open THEN {"load"} ELSE {}
  /\ UNCHANGED <<scenario, map, identity, loadDialog, panel, choosing, requests, work, history>>

DeleteGroup ==
  /\ AtPanel /\ over # NoLabel /\ state # "add"
  /\ current' = over
  /\ open' = {"delete"}
  /\ UNCHANGED <<state, groups, canSave, canRun, map, identity, loadDialog, panel, choosing,
                 requests, work, history>>

Spliced_KeepIndex(i) ==
  [j \in 1..(Len(groups) - 1) |-> IF j < i THEN groups[j] ELSE groups[j + 1]]

\* The groups without the i-th; those behind it move up.
Spliced(i) ==
  [j \in 1..(Len(groups) - 1) |->
     IF j < i THEN groups[j] ELSE [groups[j + 1] EXCEPT !.index = @ - 1]]

\* Save and Run are not touched, unless this was the last group.
ConfirmDelete ==
  /\ "delete" \in open /\ current # NoLabel
  /\ Edit(TRUE) /\ UNCHANGED muddled
  /\ groups' = Spliced(groups[Position(current)].index + 1)
  /\ include' = include \ SegsOf(current)
  /\ Forget({current})
  /\ over' = IF over = current THEN NoLabel ELSE over
  /\ canSave' = (canSave /\ Len(groups) > 1)
  /\ state' = "view" /\ current' = NoLabel
  /\ open' = {}
  /\ UNCHANGED <<canRun, clicked, identity, loadDialog, panel, choosing, requests>>

----------------------------------------------------------------------------
(* Restarting, and choosing the network again.                              *)

\* finishedStyling() and startScenario(), as the network is still loaded
OpenNetwork ==
  /\ include' = {}
  /\ panel' = TRUE /\ choosing' = FALSE
  /\ state' = "view"

Restarted(again) ==
  /\ groups' = <<>> /\ current' = NoLabel
  /\ over' = NoLabel
  /\ Forget(Label)
  /\ canSave' = FALSE /\ canRun' = FALSE
  /\ name' = Unset /\ typed' = Unset /\ meta' = NoMeta /\ shared' = Unset
  /\ IF again \/ ~SeveralNetworks THEN OpenNetwork
     ELSE /\ state' = "network" /\ panel' = FALSE /\ choosing' = TRUE
          /\ UNCHANGED include
  /\ UNCHANGED <<clicked, base>>

OpenRestart ==
  /\ AtPanel
  /\ open' = {"restart"}
  /\ UNCHANGED <<scenario, map, identity, loadDialog, panel, choosing, requests, work, history>>

Restart ==
  /\ "restart" \in open
  /\ Edit(FALSE) /\ UNCHANGED muddled
  /\ Restarted(FALSE)
  /\ open' = {}
  /\ UNCHANGED <<loadDialog, requests>>

LoadANetwork ==
  /\ choosing /\ Free
  /\ OpenNetwork /\ current' = NoLabel
  /\ UNCHANGED <<groups, canSave, canRun, clicked, over, timers, identity, loadDialog, open,
                 requests, work, history>>

----------------------------------------------------------------------------
(* Lanes and speed limit of a segment: right click, new values, save.       *)

EditMetadata(q, s, class) ==
  /\ Free /\ state = "add"
  /\ ~IsSegmentInGroup(s)
  /\ class # ClassOf(s)
  /\ crossed' = \/ crossed
                \/ \E t \in DOMAIN list : Holds(list[t], s)
                \/ \E t \in DOMAIN server : Holds(server[t], s)
  /\ \/ /\ name \in DOMAIN list
        /\ Send(q, [op |-> "metadata", name |-> name, seg |-> s, class |-> class])
        /\ UNCHANGED <<meta, list>>
     \/ /\ name \notin DOMAIN list
        /\ work < MaxWork /\ work' = work + 1
        /\ meta' = [meta EXCEPT ![s] = class]
        /\ list' = IF shared = Unset THEN list
                   ELSE [list EXCEPT ![shared] = [@ EXCEPT !.meta = meta']]
        /\ UNCHANGED requests
  /\ UNCHANGED <<scenario, map, name, typed, shared, base, rows, selected, windows, raced, muddled>>

MetadataDone(q) ==
  /\ Take(q, "metadata", "done")
  /\ meta' = [meta EXCEPT ![call[q].seg] = call[q].class]
  /\ list' = IF shared = Unset THEN list
             ELSE [list EXCEPT ![shared] = [@ EXCEPT !.meta = meta']]
  /\ UNCHANGED <<scenario, map, name, typed, shared, base, rows, selected, windows, work, history>>

\* Nothing but a message; also for a run or a deletion that fails, whose dialogs close.
Failed(q) ==
  /\ \E op \in {"metadata", "save", "run", "delete"} : Take(q, op, "failed")
  /\ open' = open \ CASE call[q].op = "run" -> {"run"}
                      [] call[q].op = "delete" -> {"template"}
                      [] OTHER -> {}
  /\ UNCHANGED <<scenario, map, identity, loadDialog, panel, choosing, work, history>>

----------------------------------------------------------------------------
(* Templates.                                                               *)

OpenLoad ==
  /\ AtPanel /\ state # "add" /\ DOMAIN list # {}
  /\ open' = {"load"}
  /\ rows' = DOMAIN list /\ selected' = -1
  /\ muddled' = (muddled \/ InFlight({"delete"}) # {})
  /\ UNCHANGED <<scenario, map, identity, list, panel, choosing, requests, work, raced, crossed>>

\* A row of the load dialog, or the cross in it, which also asks for confirmation.
Select(index, ask) ==
  /\ open = {"load"} /\ index < Cardinality(rows)
  /\ selected' = index
  /\ open' = IF ask THEN {"load", "template"} ELSE open
  /\ muddled' = (muddled \/ InFlight({"delete"}) # {})
  /\ UNCHANGED <<scenario, map, identity, list, rows, panel, choosing, requests, work, raced, crossed>>

\* A group has the lanes of one of its segments.  The row is still in the list: a
\* deletion that is answered meanwhile unselects it.
LoadScenario ==
  /\ open = {"load"} /\ selected >= 0
  /\ Edit(FALSE)
  /\ muddled' = (muddled \/ InFlight({"delete"}) # {})
  /\ Forget(Label)
  /\ over' = NoLabel
  /\ \E t \in At(selected) :
       /\ \E f \in [DOMAIN list[t].groups -> Class] :
            /\ groups' = [i \in DOMAIN f |->
                            [label |-> list[t].groups[i].label, index |-> i - 1,
                             segs |-> list[t].groups[i].segs, class |-> f[i],
                             value |-> list[t].groups[i].value]]
            /\ \A i \in DOMAIN f : \E s \in groups'[i].segs :
                 f[i] = IF list[t].meta[s] # Unset THEN list[t].meta[s] ELSE base[s]
       /\ meta' = list[t].meta /\ shared' = t
       /\ name' = t /\ typed' = t
  /\ canRun' = (groups' # <<>>) /\ canSave' = FALSE
  /\ selected' = -1 /\ open' = {}
  /\ state' = "view" /\ current' = NoLabel
  /\ UNCHANGED <<include, clicked, base, list, rows, panel, choosing, requests>>

DeleteTemplate(q) ==
  /\ "template" \in open
  /\ \E t \in At(selected) : Send(q, [op |-> "delete", name |-> t])
  /\ raced' = (raced \/ InFlight({"save", "delete"}) # {})
  /\ muddled' = (muddled \/ InFlight({"save", "delete", "metadata"}) # {})
  /\ UNCHANGED <<scenario, map, identity, loadDialog, windows, crossed>>

\* splice(-1, 1) takes the last one.
DeleteDone(q) ==
  LET last == {t \in DOMAIN list : \A u \in DOMAIN list : u <= t}
      gone == IF selected < 0 THEN last ELSE At(selected)
  IN
  /\ Take(q, "delete", "done")
  /\ list' = Without(list, gone)
  /\ rows' = DOMAIN list' /\ selected' = -1
  /\ Restarted(TRUE)
  /\ open' = open \ {"template", "restart"}
  /\ raced' = (raced \/ InFlight({"save"}) # {})
  /\ UNCHANGED <<work, muddled, crossed>>

SaveScenario(q, commit) ==
  /\ Send(q, [op |-> "save", name |-> typed', template |-> [groups |-> Content, meta |-> meta]])
  /\ name' = typed'
  /\ base' = IF commit THEN [s \in Segment |-> ClassOf(s)] ELSE base
  /\ crossed' = (crossed \/ \E s \in Segment : base'[s] # base[s] /\
                              (\/ \E t \in DOMAIN list : Holds(list[t], s)
                               \/ \E r \in InFlight({"save"}) : Holds(call[r].template, s)))
  /\ raced' = (canRun \/ InFlight({"save", "delete"}) # {})
  /\ muddled' = (muddled \/ InFlight({"save", "delete", "metadata"}) # {})

ClickSave(q, t, commit) ==
  /\ AtPanel /\ canSave /\ state # "add"
  /\ typed' = t
  /\ \/ /\ t \in DOMAIN list
        /\ open' = {"overwrite"}
        /\ UNCHANGED <<name, base, requests, work, history>>
     \/ /\ t \notin DOMAIN list
        /\ SaveScenario(q, commit)
        /\ UNCHANGED open
  /\ UNCHANGED <<scenario, map, meta, shared, loadDialog, panel, choosing>>

ConfirmOverwrite(q, commit) ==
  /\ "overwrite" \in open /\ typed # Unset
  /\ open' = {}
  /\ UNCHANGED typed
  /\ SaveScenario(q, commit)
  /\ UNCHANGED <<scenario, map, meta, shared, loadDialog, panel, choosing>>

SaveDone_KeepOld(q) ==
  /\ Take(q, "save", "done")
  /\ canSave' = FALSE /\ canRun' = TRUE
  /\ list' = IF call[q].name \in DOMAIN list THEN list
             ELSE With(list, call[q].name, call[q].template)
  /\ ViewGroups
  /\ UNCHANGED <<map, identity, rows, selected, windows, work, history>>

SaveDone(q) ==
  /\ Take(q, "save", "done")
  /\ canSave' = FALSE /\ canRun' = TRUE
  /\ list' = With(list, call[q].name, call[q].template)
  /\ shared' = IF shared = call[q].name THEN Unset ELSE shared
  /\ ViewGroups
  /\ UNCHANGED <<map, name, typed, meta, base, rows, selected, windows, work, history>>

OpenRun ==
  /\ AtPanel /\ canRun /\ state # "add"
  /\ open' = {"run"}
  /\ UNCHANGED <<scenario, map, identity, loadDialog, panel, choosing, requests, work, history>>

RunScenario(q) ==
  /\ "run" \in open
  /\ name \in DOMAIN list
  /\ Send(q, [op |-> "run", name |-> name])
  /\ UNCHANGED <<scenario, map, identity, loadDialog, windows, history>>

RunDone(q) ==
  /\ Take(q, "run", "done")
  /\ Restarted(FALSE)
  /\ open' = open \ {"run", "restart"}
  /\ raced' = (raced \/ InFlight({"save", "delete"}) # {})
  /\ UNCHANGED <<loadDialog, work, muddled, crossed>>

----------------------------------------------------------------------------
(* The server.                                                              *)

Served(q, s) ==
  /\ pc[q] = "sent"
  /\ server' = s
  /\ pc' = [pc EXCEPT ![q] = "done"]
  /\ UNCHANGED call

DoSave(q) ==
  /\ call[q].op = "save"
  /\ Served(q, With(server, call[q].name, call[q].template))

DoMetadata(q) ==
  /\ call[q].op = "metadata"
  /\ Served(q, IF call[q].name \in DOMAIN server
               THEN [server EXCEPT ![call[q].name].meta[call[q].seg] = call[q].class]
               ELSE server)

DoDeleteTemplate(q) ==
  /\ call[q].op = "delete"
  /\ Served(q, Without(server, {call[q].name}))

DoRun(q) ==
  /\ call[q].op = "run" /\ call[q].name \in DOMAIN server
  /\ Served(q, server)

\* The server refuses, or the request or its answer is lost.
Lose(q) ==
  /\ pc[q] \in {"sent", "done"}
  /\ pc' = [pc EXCEPT ![q] = "failed"]
  /\ muddled' = (muddled \/ pc[q] = "done")
  /\ UNCHANGED <<server, call, raced, crossed>>

Server(q) ==
  \/ (DoSave(q) \/ DoMetadata(q) \/ DoDeleteTemplate(q) \/ DoRun(q)) /\ UNCHANGED history
  \/ Lose(q)

Answer(q) ==
  MetadataDone(q) \/ SaveDone(q) \/ DeleteDone(q) \/ RunDone(q) \/ Failed(q)

User ==
  \/ \E l \in Label : MouseEnterLabel(l) \/ AddGroup(l)
  \/ MouseLeaveLabel \/ AddRemove \/ Done \/ EditMode \/ DeleteGroup \/ ConfirmDelete
  \/ \E s \in Segment : ToggleInclude(s)
  \/ \E c \in Class : SaveValues(c)
  \/ CancelDialog \/ CloseDialog \/ OpenRestart \/ Restart \/ LoadANetwork
  \/ OpenLoad \/ LoadScenario \/ OpenRun
  \/ \E index \in 0..(Names - 1), ask \in BOOLEAN : Select(index, ask)

Ajax(q) ==
  \/ \E s \in Segment, c \in Class : EditMetadata(q, s, c)
  \/ \E t \in Name, commit \in BOOLEAN : ClickSave(q, t, commit)
  \/ \E commit \in BOOLEAN : ConfirmOverwrite(q, commit)
  \/ DeleteTemplate(q) \/ RunScenario(q)

Next ==
  \/ User \/ TimerEnds
  \/ \E q \in Request : Ajax(q) \/ Answer(q)
  \/ \E q \in Request :
       Server(q) /\ UNCHANGED <<scenario, map, identity, loadDialog, windows, work>>

Spec == Init /\ [][Next]_vars

----------------------------------------------------------------------------
(* Properties                                                               *)

\* No segment is in two groups, whatever the flags on the map say; and the segments of
\* a group have the same lanes and speed limit as the group, unless those of a segment
\* were changed while a template had it in a group: the page only looks at the groups it
\* shows ("Cannot edit metadata of a segment that is already in a group").
GroupsSound ==
  /\ \A i, j \in DOMAIN groups : groups[i].segs \cap groups[j].segs # {} => i = j
  /\ ~crossed => \A i \in DOMAIN groups : \A s \in groups[i].segs :
                   ClassOf(s) = groups[i].class

\* While a segment selection is going on, each segment of the group is flagged on the
\* map, so that a click takes it out again: timers, the mouse and answers of requests
\* that clear flags never reach the group that is being edited.
Removable == state = "add" => SegsOf(current) \subseteq include

\* Run starts what the page shows: while the button is enabled the server's template of
\* that name has the page's groups.  It may differ while a deletion is in flight, after a
\* group was deleted, or when the user worked on, saved or loaded while a save or a deletion
\* was in flight, or when the answer to one was lost.
RunSaved ==
  canRun /\ ~raced /\ ~muddled /\ InFlight({"delete"}) = {} =>
    name \in DOMAIN server /\ server[name].groups = Content

\* When nothing is in flight the page lists the server's templates with the server's
\* groups, unless requests crossed, an answer was lost, or the user turned to another
\* row while a deletion was in flight (its answer removes the row selected by then).
ListAgrees ==
  (~muddled /\ \A q \in Request : pc[q] = "free") =>
    /\ DOMAIN list = DOMAIN server
    /\ \A t \in DOMAIN list : list[t].groups = server[t].groups

\* No template holds the placeholder for "not set" among its values.
ValuesSet ==
  \A t \in DOMAIN server : \A i \in DOMAIN server[t].groups :
    server[t].groups[i].value # Unset
=============================================================================
