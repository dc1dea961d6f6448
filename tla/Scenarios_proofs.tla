-------------------------- MODULE Scenarios_proofs --------------------------
(***************************************************************************)
(* Proofs about Scenarios, for all segments, labels, classes, names and    *)
(* numbers of requests and timers: type correctness, that the groups are   *)
(* sound, that each segment of a group in work can be taken out of it, and *)
(* what the page has in common with the server: its list of templates and  *)
(* the scenario it runs.                                                   *)
(***************************************************************************)
EXTENDS Scenarios, SequenceTheorems, FiniteSetTheorems, TLAPS

Labels == {groups[i].label : i \in DOMAIN groups}

\* The groups by themselves.
GroupsOK ==
  /\ groups \in Seq(Group)
  /\ \A i \in DOMAIN groups : groups[i].index = i - 1
  /\ \A i, j \in DOMAIN groups :
       i # j => groups[i].label # groups[j].label /\ groups[i].segs \cap groups[j].segs = {}
  /\ \A i \in DOMAIN groups : groups[i].class = Unset <=> groups[i].segs = {}

\* What refers to a group by its label: the page, the mouse and the timers.
TimerSet == [label : Labels \cup {NoLabel}, segs : SUBSET Segment]
Pointers ==
  /\ current \in Labels \cup {NoLabel}
  /\ over \in Labels \cup {NoLabel}
  /\ timers \in Seq(TimerSet)
  /\ Len(timers) <= MaxTimers

\* While a group is in work only the question whether to restart is asked; only this group may
\* have segments and no values yet, and then it cannot be run.
Stage ==
  /\ state = "add" => open \subseteq {"restart"} /\ panel /\ current # NoLabel
  /\ choosing = ~panel
  /\ \A i \in DOMAIN groups : groups[i].segs # {} /\ groups[i].value = Unset =>
       state = "add" /\ groups[i].label = current /\ ~canRun

PageInv == GroupsOK /\ Pointers /\ Stage

\* What is no group.
ScreenInv ==
  /\ state \in {"network", "view", "add", "edit"}
  /\ include \in SUBSET Segment
  /\ clicked \in BOOLEAN /\ canSave \in BOOLEAN /\ canRun \in BOOLEAN
  /\ panel \in BOOLEAN /\ choosing \in BOOLEAN
  /\ rows \in SUBSET Name /\ selected \in -1..(Names - 1)
  /\ open \in {{}, {"values"}, {"delete"}, {"load"}, {"load", "template"},
               {"restart"}, {"run"}, {"overwrite"}}

IdentityInv ==
  /\ name \in Name \cup {Unset} /\ typed \in Name \cup {Unset} /\ shared \in Name \cup {Unset}
  /\ shared # Unset => shared \in DOMAIN list
  /\ meta \in [Segment -> Class \cup {Unset}] /\ base \in [Segment -> Class]

RequestInv ==
  /\ pc \in [Request -> {"free", "sent", "done", "failed"}]
  /\ DOMAIN call = Request
  /\ \A q \in Request : /\ IsCall(call[q])
                        /\ pc[q] = "free" <=> call[q].op = "none"
                        /\ call[q].op # "none" => call[q].name \in Name
  /\ work \in 0..MaxWork

HistoryInv == raced \in BOOLEAN /\ muddled \in BOOLEAN /\ crossed \in BOOLEAN

\* A template that can be loaded and run.
Sound(t) ==
  /\ IsTemplate(t)
  /\ \A i, j \in DOMAIN t.groups :
       i # j => t.groups[i].label # t.groups[j].label /\ t.groups[i].segs \cap t.groups[j].segs = {}
  /\ \A i \in DOMAIN t.groups : t.groups[i].value # Unset

TemplatesSound ==
  /\ DOMAIN list \subseteq Name /\ \A t \in DOMAIN list : Sound(list[t])
  /\ DOMAIN server \subseteq Name /\ \A t \in DOMAIN server : Sound(server[t])
  /\ \A q \in Request : call[q].op = "save" => Sound(call[q].template)

FieldInv == ScreenInv /\ IdentityInv /\ RequestInv /\ HistoryInv

-----------------------------------------------------------------------------
(* Groups and their labels.                                                *)

LEMMA ConstantsApart ==
  /\ NoLabel \notin Label /\ Unset \notin Class
  /\ Names \in Nat /\ MaxWork \in Nat /\ MaxTimers \in Nat
  /\ BaseClass \in [Segment -> Class] /\ Unset \notin Name
BY ScenariosAssumption DEF Unset, Name

LEMMA PositionOf ==
  ASSUME GroupsOK, NEW l \in Labels
  PROVE  /\ Position(l) \in DOMAIN groups /\ groups[Position(l)].label = l
         /\ \A i \in DOMAIN groups : groups[i].label = l => i = Position(l)
<1>1. \E i \in DOMAIN groups : groups[i].label = l
  BY DEF Labels
<1>2. \A i, j \in DOMAIN groups : i # j => groups[i].label # groups[j].label
  BY DEF GroupsOK
<1> QED BY <1>1, <1>2 DEF Position

LEMMA GroupFields ==
  ASSUME GroupsOK, NEW i \in DOMAIN groups
  PROVE  /\ groups[i] \in Group /\ groups[i].label \in Label /\ groups[i].index \in Nat
         /\ groups[i].segs \in SUBSET Segment
         /\ groups[i].class \in Class \cup {Unset} /\ groups[i].value \in Class \cup {Unset}
<1>1. groups[i] \in Group
  BY DEF GroupsOK
<1> QED BY <1>1 DEF Group

LEMMA LabelsAreLabels ==
  ASSUME GroupsOK
  PROVE  Labels \subseteq Label /\ NoLabel \notin Labels
<1>1. \A i \in DOMAIN groups : groups[i].label \in Label
  BY GroupFields
<1> QED BY <1>1, ConstantsApart DEF Labels

LEMMA SegsOfType ==
  ASSUME GroupsOK, NEW l \in Labels
  PROVE  SegsOf(l) \subseteq Segment
BY PositionOf, GroupFields DEF SegsOf

\* The groups keep their labels and segments; values may change.
Revalued ==
  /\ groups' \in Seq(Group) /\ DOMAIN groups' = DOMAIN groups
  /\ \A i \in DOMAIN groups :
       /\ groups'[i].label = groups[i].label /\ groups'[i].index = groups[i].index
       /\ groups'[i].segs = groups[i].segs /\ groups'[i].class = groups[i].class

LEMMA SameRevalued == GroupsOK /\ groups' = groups => Revalued
BY DEF GroupsOK, Revalued

LEMMA RevaluedKeeps ==
  ASSUME GroupsOK, Revalued
  PROVE  /\ GroupsOK' /\ Labels' = Labels
         /\ \A l \in Labels : Position(l)' = Position(l) /\ SegsOf(l)' = SegsOf(l)
<1>1. GroupsOK'
  BY DEF GroupsOK, Revalued
<1>2. Labels' = Labels
  BY DEF Labels, Revalued
<1>3. ASSUME NEW l \in Labels PROVE Position(l)' = Position(l) /\ SegsOf(l)' = SegsOf(l)
  <2>1. \A i \in DOMAIN groups : groups'[i].label = l <=> i = Position(l)
    BY PositionOf DEF Revalued
  <2>2. Position(l) \in DOMAIN groups
    BY PositionOf
  <2>3. Position(l)' = Position(l)
    <3>1. Position(l)' = CHOOSE i \in DOMAIN groups' : groups'[i].label = l
      BY DEF Position
    <3> QED BY <2>1, <2>2, <3>1 DEF Revalued
  <2> QED BY <2>2, <2>3 DEF SegsOf, Revalued
<1> QED BY <1>1, <1>2, <1>3

\* The values of one group change.
LEMMA ValueChange ==
  ASSUME GroupsOK, NEW l \in Labels, NEW v \in Class \cup {Unset},
         groups' = [groups EXCEPT ![Position(l)] = [@ EXCEPT !.value = v]]
  PROVE  /\ Revalued /\ groups'[Position(l)].value = v
         /\ \A i \in DOMAIN groups \ {Position(l)} : groups'[i] = groups[i]
<1> DEFINE k == Position(l)
<1>1. k \in DOMAIN groups /\ groups[k] \in Group
  BY PositionOf, GroupFields
<1> HIDE DEF k
<1> DEFINE r == [groups[k] EXCEPT !.value = v]
<1>2. /\ r \in Group /\ r.value = v /\ r.label = groups[k].label /\ r.index = groups[k].index
      /\ r.segs = groups[k].segs /\ r.class = groups[k].class
  BY <1>1 DEF Group
<1>3. groups' = [groups EXCEPT ![k] = r]
  BY DEF k
<1> HIDE DEF r
<1>4. groups' \in Seq(Group) /\ DOMAIN groups' = DOMAIN groups
  <2>1. groups \in Seq(Group) /\ DOMAIN groups = 1..Len(groups)
    BY DEF GroupsOK
  <2>2. r \in Group /\ k \in 1..Len(groups)
    BY <1>1, <1>2, <2>1
  <2>3. [groups EXCEPT ![k] = r] \in Seq(Group)
    BY ONLY <2>1, <2>2, ExceptSeq
  <2> QED BY <1>3, <2>3
<1>5. groups'[k] = r /\ \A i \in DOMAIN groups \ {k} : groups'[i] = groups[i]
  BY <1>1, <1>3
<1> QED BY <1>1, <1>2, <1>4, <1>5 DEF Revalued, k

\* setValues() leaves no group with segments without values.
LEMMA SetValuesChange ==
  ASSUME GroupsOK, NEW l \in Labels,
         groups' = [groups EXCEPT ![Position(l)] = SetValues(@)]
  PROVE  /\ Revalued
         /\ groups'[Position(l)].segs # {} => groups'[Position(l)].value # Unset
         /\ \A i \in DOMAIN groups \ {Position(l)} : groups'[i] = groups[i]
         /\ groups[Position(l)].segs = {} \/ groups[Position(l)].value # Unset => groups' = groups
<1> DEFINE k == Position(l)
           g == groups[k]
           v == IF g.value = Unset THEN g.class ELSE g.value
<1>1. k \in DOMAIN groups /\ g \in Group /\ (g.class = Unset <=> g.segs = {})
  BY PositionOf, GroupFields DEF GroupsOK
<1>2. g.class \in Class \cup {Unset} /\ g.value \in Class \cup {Unset}
  BY <1>1 DEF Group
<1>3. SetValues(g) = [g EXCEPT !.value = v]
  BY <1>1 DEF SetValues, Group
<1>4. groups' = [groups EXCEPT ![Position(l)] = [@ EXCEPT !.value = v]]
  BY <1>3
<1>5. v \in Class \cup {Unset}
  BY <1>2
<1>6. g.segs = {} \/ g.value # Unset => v = g.value
  BY <1>1
<1> HIDE DEF v
<1>7. /\ Revalued /\ groups'[k].value = v
      /\ \A i \in DOMAIN groups \ {k} : groups'[i] = groups[i]
  BY <1>4, <1>5, ValueChange
<1>8. g.segs # {} => v # Unset
  BY <1>1 DEF v
<1>9. v = g.value => groups' = groups
  BY <1>1, <1>4 DEF GroupsOK, Group
<1> QED BY <1>1, <1>6, <1>7, <1>8, <1>9 DEF Revalued

-----------------------------------------------------------------------------
(* The steps of the page.                                                  *)

Valued == \A i \in DOMAIN groups : groups[i].segs # {} => groups[i].value # Unset

LEMMA SeqIsFunction ==
  ASSUME NEW S, NEW n \in Nat, NEW f \in [1..n -> S]
  PROVE  f \in Seq(S) /\ Len(f) = n /\ DOMAIN f = 1..n
<1>1. f \in Seq(S)
  BY SeqDef
<1> QED BY <1>1

LEMMA ValuedStage ==
  ASSUME GroupsOK, Pointers, Stage
  PROVE  /\ state # "add" => Valued
         /\ state = "add" => \A i \in DOMAIN groups \ {Position(current)} :
                               groups[i].segs # {} => groups[i].value # Unset
<1>1. state # "add" => Valued
  BY DEF Stage, Valued
<1>2. ASSUME state = "add", NEW i \in DOMAIN groups \ {Position(current)},
             groups[i].segs # {}, groups[i].value = Unset
      PROVE  FALSE
  <2>1. groups[i].label = current
    BY <1>2 DEF Stage
  <2>2. current \in Labels
    BY <2>1 DEF Labels
  <2> QED BY <1>2, <2>1, <2>2, PositionOf
<1> QED BY <1>1, <1>2

LEMMA RevaluedPointers ==
  ASSUME GroupsOK, Pointers, Revalued,
         current' \in {current, over, NoLabel}, over' \in Labels \cup {NoLabel}, UNCHANGED timers
  PROVE  GroupsOK' /\ Pointers'
<1>1. GroupsOK' /\ Labels' = Labels
  BY RevaluedKeeps
<1>2. TimerSet' = TimerSet
  BY <1>1 DEF TimerSet
<1> QED BY <1>1, <1>2 DEF Pointers

\* Steps that leave the groups alone.
LEMMA QuietStep ==
  ASSUME PageInv, UNCHANGED <<groups, state, current, canRun, timers, panel, choosing>>,
         over' \in Labels \cup {NoLabel}, state = "add" => open' \subseteq {"restart"}
  PROVE  PageInv'
<1> USE DEF PageInv
<1>1. Revalued
  BY SameRevalued
<1>2. GroupsOK' /\ Pointers'
  BY <1>1, RevaluedPointers
<1>3. Stage'
  BY DEF Stage
<1> QED BY <1>2, <1>3

\* Steps that end the work on a group.
LEMMA ViewStep ==
  ASSUME PageInv, ViewGroups
  PROVE  Revalued /\ Valued' /\ (state # "add" => groups' = groups)
<1> USE DEF PageInv
<1>1. CASE state = "add"
  <2>1. current \in Labels
    BY <1>1 DEF Stage, Pointers
  <2>2. groups' = [groups EXCEPT ![Position(current)] = SetValues(@)]
    BY <1>1 DEF ViewGroups
  <2>3. /\ Revalued
        /\ groups'[Position(current)].segs # {} => groups'[Position(current)].value # Unset
        /\ \A i \in DOMAIN groups \ {Position(current)} : groups'[i] = groups[i]
    BY <2>1, <2>2, SetValuesChange
  <2>4. Valued'
    <3> SUFFICES ASSUME NEW i \in DOMAIN groups', groups'[i].segs # {}
                 PROVE  groups'[i].value # Unset
      BY DEF Valued
    <3>1. CASE i = Position(current)
      BY <2>3, <3>1
    <3>2. CASE i # Position(current)
      <4>1. i \in DOMAIN groups \ {Position(current)}
        BY <2>3, <3>2 DEF Revalued
      <4> QED BY <1>1, <2>3, <4>1, ValuedStage
    <3> QED BY <3>1, <3>2
  <2> QED BY <1>1, <2>3, <2>4
<1>2. CASE state # "add"
  <2>1. groups' = groups
    BY <1>2 DEF ViewGroups
  <2> QED BY <1>2, <2>1, SameRevalued, ValuedStage DEF Valued
<1> QED BY <1>1, <1>2

LEMMA ViewGroupsStep ==
  ASSUME PageInv, ViewGroups, UNCHANGED <<over, timers, panel, choosing>>
  PROVE  PageInv'
<1> USE DEF PageInv
<1>1. Revalued /\ Valued'
  BY ViewStep
<1>2. current' = NoLabel /\ state' = "view"
  BY DEF ViewGroups
<1>3. over' \in Labels \cup {NoLabel}
  BY DEF Pointers
<1>4. GroupsOK' /\ Pointers'
  BY <1>1, <1>2, <1>3, RevaluedPointers
<1>5. Stage'
  BY <1>1, <1>2 DEF Stage, Valued
<1> QED BY <1>4, <1>5

\* A timer that is right keeps right while the group it is for is there.
LEMMA TimersKeep ==
  ASSUME Pointers, Labels \subseteq Labels', UNCHANGED timers
  PROVE  timers' \in Seq(TimerSet') /\ Len(timers') <= MaxTimers
<1>1. TimerSet \subseteq TimerSet'
  BY DEF TimerSet
<1>2. timers \in Seq(TimerSet) /\ Len(timers) <= MaxTimers
  BY DEF Pointers
<1>3. timers \in Seq(TimerSet')
  BY <1>1, <1>2, SeqMonotonic
<1> QED BY <1>2, <1>3

LEMMA AddGroupStep ==
  ASSUME PageInv, NEW l \in Label, AddGroup(l)
  PROVE  PageInv'
<1> USE DEF PageInv
<1> DEFINE n == Len(groups)
           g == [label |-> l, index |-> n, segs |-> {}, class |-> Unset, value |-> Unset]
<1>1. groups \in Seq(Group) /\ n \in Nat /\ DOMAIN groups = 1..n
  BY DEF GroupsOK
<1>2. g \in Group
  BY <1>1 DEF Group
<1>3. groups' = Append(groups, g)
  BY DEF AddGroup
<1>4. /\ g.label = l /\ g.index = n /\ g.segs = {} /\ g.class = Unset
  OBVIOUS
<1>5. \A i \in DOMAIN groups : groups[i].label # l
  BY DEF AddGroup
<1> HIDE DEF g, n
<1>6. /\ groups' \in Seq(Group) /\ Len(groups') = n + 1
      /\ \A i \in 1..n : groups'[i] = groups[i]
      /\ groups'[n + 1] = g
  BY <1>1, <1>2, <1>3, AppendProperties DEF n
<1>7. DOMAIN groups' = 1..(n + 1)
  BY <1>6
<1>8. GroupsOK'
  <2>1. \A i \in 1..(n + 1) : i \in 1..n \/ i = n + 1
    BY <1>1
  <2>2. \A i \in DOMAIN groups' : groups'[i].index = i - 1
    BY <1>1, <1>4, <1>6, <1>7, <2>1 DEF GroupsOK
  <2>3. \A i \in DOMAIN groups' : groups'[i].class = Unset <=> groups'[i].segs = {}
    BY <1>1, <1>4, <1>6, <1>7, <2>1 DEF GroupsOK
  <2>4. ASSUME NEW i \in DOMAIN groups', NEW j \in DOMAIN groups', i # j
        PROVE  groups'[i].label # groups'[j].label /\ groups'[i].segs \cap groups'[j].segs = {}
    <3>1. CASE i \in 1..n /\ j \in 1..n
      BY <1>1, <1>6, <2>4, <3>1 DEF GroupsOK
    <3>2. CASE i = n + 1
      BY <1>1, <1>4, <1>5, <1>6, <1>7, <2>1, <2>4, <3>2
    <3>3. CASE j = n + 1
      BY <1>1, <1>4, <1>5, <1>6, <1>7, <2>1, <2>4, <3>3
    <3> QED BY <1>7, <2>1, <3>1, <3>2, <3>3
  <2> QED BY <1>6, <2>2, <2>3, <2>4 DEF GroupsOK
<1>9. Labels \subseteq Labels'
  BY <1>1, <1>6, <1>7 DEF Labels
<1>10. Pointers'
  <2>1. timers' = timers /\ over' = over /\ current' = NoLabel
    BY DEF AddGroup, map
  <2>2. over \in Labels \cup {NoLabel}
    BY DEF Pointers
  <2>3. timers' \in Seq(TimerSet') /\ Len(timers') <= MaxTimers
    BY <1>9, <2>1, TimersKeep
  <2> QED BY <1>9, <2>1, <2>2, <2>3 DEF Pointers
<1>11. Stage'
  <2>1. Valued /\ state' = "view" /\ panel' = panel /\ choosing' = choosing
    BY ValuedStage DEF AddGroup, windows
  <2>2. \A i \in DOMAIN groups' : groups'[i].segs # {} => groups'[i].value # Unset
    BY <1>1, <1>4, <1>6, <1>7, <2>1 DEF Valued
  <2> QED BY <2>1, <2>2 DEF Stage
<1> QED BY <1>8, <1>10, <1>11

LEMMA AddRemoveStep ==
  ASSUME PageInv, AddRemove
  PROVE  PageInv' /\ Revalued /\ SegsOf(current)' \subseteq include'
<1> USE DEF PageInv
<1>1. groups' = groups /\ Revalued
  BY SameRevalued DEF AddRemove
<1>2. GroupsOK' /\ Labels' = Labels /\ \A l \in Labels : SegsOf(l)' = SegsOf(l)
  BY <1>1, RevaluedKeeps
<1>3. over \in Labels /\ current' = over /\ over' = over
  BY DEF AddRemove, Pointers
<1>4. TimerSet' = TimerSet
  BY <1>2 DEF TimerSet
<1>5. timers' \in Seq(TimerSet) /\ Len(timers') <= MaxTimers
  <2> DEFINE t == [label |-> over, segs |-> {}]
  <2>1. t \in TimerSet
    BY <1>3 DEF TimerSet
  <2>2. timers' = Append(timers, t) /\ timers \in Seq(TimerSet) /\ Len(timers) < MaxTimers
    BY DEF AddRemove, Pointers
  <2> HIDE DEF t
  <2>3. Len(timers) \in Nat /\ MaxTimers \in Nat
    BY <2>2, ConstantsApart
  <2>4. timers' \in Seq(TimerSet) /\ Len(timers') = Len(timers) + 1
    BY <2>1, <2>2, AppendProperties
  <2> QED BY <2>2, <2>3, <2>4
<1>6. Pointers'
  BY <1>2, <1>3, <1>4, <1>5 DEF Pointers
<1>7. Stage'
  BY <1>1, <1>3, ValuedStage, LabelsAreLabels DEF AddRemove, Stage, Valued, AtPanel, Free, windows
<1>8. SegsOf(current)' \subseteq include'
  <2>1. SegsOf(current)' = SegsOf(over)'
    BY <1>3 DEF SegsOf, Position
  <2> QED BY <1>2, <1>3, <2>1 DEF AddRemove
<1> QED BY <1>1, <1>2, <1>6, <1>7, <1>8

LEMMA TimerEndsStep ==
  ASSUME PageInv, TimerEnds
  PROVE  PageInv' /\ (\A t \in {Head(timers)} : t \in TimerSet)
<1> USE DEF PageInv
<1>1. groups' = groups /\ Revalued
  BY SameRevalued DEF TimerEnds, scenario
<1>2. GroupsOK' /\ Labels' = Labels
  BY <1>1, RevaluedKeeps
<1>3. TimerSet' = TimerSet
  BY <1>2 DEF TimerSet
<1>4. timers \in Seq(TimerSet) /\ timers # <<>> /\ Len(timers) <= MaxTimers /\ timers' = Tail(timers)
  BY DEF Pointers, TimerEnds
<1>5. /\ Head(timers) \in TimerSet /\ timers' \in Seq(TimerSet) /\ Len(timers') = Len(timers) - 1
      /\ Len(timers) \in Nat
  BY <1>4, HeadTailProperties
<1>6. Len(timers') <= MaxTimers
  BY <1>4, <1>5, ConstantsApart
<1>7. Pointers'
  BY <1>2, <1>3, <1>5, <1>6 DEF Pointers, TimerEnds, scenario
<1>8. Stage'
  BY <1>1 DEF Stage, TimerEnds, scenario, windows
<1> QED BY <1>2, <1>5, <1>7, <1>8

\* A click on a segment: the group in work gets it or gives it back.
LEMMA ToggledGroup ==
  ASSUME NEW g \in Group, NEW s \in Segment, ClassOf(s) \in Class, Unset \notin Class,
         g.class = Unset <=> g.segs = {}
  PROVE  /\ Toggled(g, s) \in Group
         /\ Toggled(g, s).label = g.label /\ Toggled(g, s).index = g.index
         /\ Toggled(g, s).value = g.value
         /\ Toggled(g, s).segs = IF s \in include THEN g.segs \ {s} ELSE g.segs \cup {s}
         /\ Toggled(g, s).class = Unset <=> Toggled(g, s).segs = {}
         /\ Toggled(g, s).segs # {} => Toggled(g, s).class \in {g.class, ClassOf(s)}
         /\ s \notin include /\ g.segs = {} => Toggled(g, s).class = ClassOf(s)
         /\ s \in include /\ Toggled(g, s).segs # {} => Toggled(g, s).class = g.class
<1> DEFINE h == IF s \in include THEN g.segs \ {s} ELSE g.segs \cup {s}
           c == CASE h = {} -> Unset [] s \notin include /\ h = {s} -> ClassOf(s)
                  [] OTHER -> g.class
<1>1. /\ g.label \in Label /\ g.index \in Nat /\ g.segs \subseteq Segment
      /\ g.class \in Class \cup {Unset} /\ g.value \in Class \cup {Unset}
      /\ g = [label |-> g.label, index |-> g.index, segs |-> g.segs, class |-> g.class,
              value |-> g.value]
  BY DEF Group
<1>2. h \subseteq Segment
  BY <1>1
<1>3. c \in Class \cup {Unset}
  BY <1>1
<1>4. c = Unset <=> h = {}
  <2>1. CASE h = {}
    BY <2>1
  <2>2. CASE h # {} /\ s \notin include /\ h = {s}
    BY <2>2
  <2>3. CASE h # {} /\ s \notin include /\ h # {s}
    <3>1. g.segs # {}
      BY <2>3
    <3> QED BY <2>3, <3>1
  <2>4. CASE h # {} /\ s \in include
    <3>1. g.segs # {}
      BY <2>4
    <3> QED BY <2>4, <3>1
  <2> QED BY <2>1, <2>2, <2>3, <2>4
<1>5. /\ h # {} => c \in {g.class, ClassOf(s)}
      /\ s \notin include /\ g.segs = {} => c = ClassOf(s)
      /\ s \in include /\ h # {} => c = g.class
  OBVIOUS
<1>6. Toggled(g, s) = [label |-> g.label, index |-> g.index, segs |-> h, class |-> c,
                       value |-> g.value]
  <2>1. Toggled(g, s) = [g EXCEPT !.segs = h, !.class = c]
    BY DEF Toggled
  <2> HIDE DEF h, c
  <2> QED BY <1>1, <2>1
<1>7. h = IF s \in include THEN g.segs \ {s} ELSE g.segs \cup {s}
  OBVIOUS
<1> HIDE DEF h, c
<1> QED BY <1>1, <1>2, <1>3, <1>4, <1>5, <1>6, <1>7 DEF Group

\* What a click on a segment does to the groups.
LEMMA ToggleChange ==
  ASSUME PageInv, NEW s \in Segment, ToggleInclude(s), ClassOf(s) \in Class
  PROVE  LET k == Position(current) IN
         /\ current \in Labels /\ k \in DOMAIN groups /\ groups[k].label = current
         /\ groups' \in Seq(Group) /\ DOMAIN groups' = DOMAIN groups
         /\ groups'[k] = Toggled(groups[k], s)
         /\ \A i \in DOMAIN groups : i # k => groups'[i] = groups[i]
         /\ \A i \in DOMAIN groups : groups'[i].label = groups[i].label
<1> USE DEF PageInv
<1> DEFINE k == Position(current)
           r == Toggled(groups[k], s)
<1>1. current \in Labels
  BY DEF ToggleInclude, Stage, Pointers
<1>2. k \in DOMAIN groups /\ groups[k] \in Group /\ groups[k].label = current
  BY <1>1, PositionOf, GroupFields
<1>3. groups[k].class = Unset <=> groups[k].segs = {}
  BY <1>2 DEF GroupsOK
<1>4. r \in Group /\ r.label = groups[k].label
  BY <1>2, <1>3, ConstantsApart, ToggledGroup
<1>5. groups' = [groups EXCEPT ![k] = r]
  BY DEF ToggleInclude
<1>6. groups \in Seq(Group) /\ DOMAIN groups = 1..Len(groups)
  BY DEF GroupsOK
<1> HIDE DEF r, k
<1>7. [groups EXCEPT ![k] = r] \in Seq(Group)
  BY ONLY <1>2, <1>4, <1>6, ExceptSeq
<1>8. DOMAIN groups' = DOMAIN groups /\ groups'[k] = r
      /\ \A i \in DOMAIN groups : i # k => groups'[i] = groups[i]
  BY <1>2, <1>5
<1>9. \A i \in DOMAIN groups : groups'[i].label = groups[i].label
  BY <1>4, <1>8
<1> QED BY <1>1, <1>2, <1>5, <1>7, <1>8, <1>9 DEF r, k

LEMMA RelabelledKeeps ==
  ASSUME GroupsOK, DOMAIN groups' = DOMAIN groups,
         \A i \in DOMAIN groups : groups'[i].label = groups[i].label
  PROVE  Labels' = Labels /\ \A l \in Labels : Position(l)' = Position(l)
<1>1. Labels' = Labels
  BY DEF Labels
<1>2. ASSUME NEW l \in Labels PROVE Position(l)' = Position(l)
  <2>1. \A i \in DOMAIN groups : groups'[i].label = l <=> i = Position(l)
    BY PositionOf
  <2>2. Position(l) \in DOMAIN groups
    BY PositionOf
  <2>3. Position(l)' = CHOOSE i \in DOMAIN groups' : groups'[i].label = l
    BY DEF Position
  <2> QED BY <2>1, <2>2, <2>3
<1> QED BY <1>1, <1>2

LEMMA ToggleStep ==
  ASSUME PageInv, NEW s \in Segment, ToggleInclude(s), ClassOf(s) \in Class,
         SegsOf(current) \subseteq include
  PROVE  PageInv' /\ SegsOf(current)' \subseteq include'
<1> USE DEF PageInv
<1> DEFINE k == Position(current)
<1>1. /\ current \in Labels /\ k \in DOMAIN groups /\ groups[k].label = current
      /\ groups' \in Seq(Group) /\ DOMAIN groups' = DOMAIN groups
      /\ groups'[k] = Toggled(groups[k], s)
      /\ \A i \in DOMAIN groups : i # k => groups'[i] = groups[i]
      /\ \A i \in DOMAIN groups : groups'[i].label = groups[i].label
  BY ToggleChange
<1>2. Labels' = Labels /\ Position(current)' = Position(current)
  <2>1. \A l \in Labels : Position(l)' = Position(l)
    BY <1>1, RelabelledKeeps
  <2>2. current' = current
    BY DEF ToggleInclude
  <2>3. Position(current)' = CHOOSE i \in DOMAIN groups' : groups'[i].label = current
    BY <2>2 DEF Position
  <2>4. \A l : Position(l)' = CHOOSE i \in DOMAIN groups' : groups'[i].label = l
    BY DEF Position
  <2> QED BY <1>1, <2>1, <2>3, <2>4, RelabelledKeeps
<1>3. groups[k] \in Group /\ (groups[k].class = Unset <=> groups[k].segs = {})
  BY <1>1, GroupFields DEF GroupsOK
<1> DEFINE r == Toggled(groups[k], s)
<1>4. /\ r \in Group /\ r.label = groups[k].label /\ r.index = groups[k].index
      /\ r.value = groups[k].value
      /\ r.segs = IF s \in include THEN groups[k].segs \ {s} ELSE groups[k].segs \cup {s}
      /\ r.class = Unset <=> r.segs = {}
  BY <1>3, ConstantsApart, ToggledGroup
<1>5. s \in include \/ \A i \in DOMAIN groups : s \notin groups[i].segs
  BY DEF ToggleInclude, IsSegmentInGroup
<1>6. groups'[k] = r
  BY <1>1
<1> HIDE DEF r, k
<1>7. GroupsOK'
  <2>1. \A i \in DOMAIN groups' : groups'[i].index = i - 1
    BY <1>1, <1>4, <1>6 DEF GroupsOK
  <2>2. \A i \in DOMAIN groups' : groups'[i].class = Unset <=> groups'[i].segs = {}
    BY <1>1, <1>4, <1>6 DEF GroupsOK
  <2>3. ASSUME NEW i \in DOMAIN groups', NEW j \in DOMAIN groups', i # j
        PROVE  groups'[i].label # groups'[j].label /\ groups'[i].segs \cap groups'[j].segs = {}
    <3>1. groups[i].label # groups[j].label /\ groups[i].segs \cap groups[j].segs = {}
      BY <1>1, <2>3 DEF GroupsOK
    <3>2. groups'[i].label # groups'[j].label
      BY <1>1, <2>3, <3>1
    <3>3. CASE i # k /\ j # k
      BY <1>1, <2>3, <3>1, <3>2, <3>3
    <3>4. CASE i = k
      <4>1. groups'[j].segs = groups[j].segs
        BY <1>1, <2>3, <3>4
      <4>2. r.segs \subseteq groups[k].segs \/ (r.segs = groups[k].segs \cup {s} /\ s \notin groups[j].segs)
        BY <1>1, <1>4, <1>5, <2>3
      <4> QED BY <1>6, <3>1, <3>2, <3>4, <4>1, <4>2
    <3>5. CASE j = k
      <4>1. groups'[i].segs = groups[i].segs
        BY <1>1, <2>3, <3>5
      <4>2. r.segs \subseteq groups[k].segs \/ (r.segs = groups[k].segs \cup {s} /\ s \notin groups[i].segs)
        BY <1>1, <1>4, <1>5, <2>3
      <4> QED BY <1>6, <3>1, <3>2, <3>5, <4>1, <4>2
    <3> QED BY <3>3, <3>4, <3>5
  <2> QED BY <1>1, <2>1, <2>2, <2>3 DEF GroupsOK
<1>8. Pointers'
  <2>1. UNCHANGED <<current, over, timers>>
    BY DEF ToggleInclude
  <2>2. timers' \in Seq(TimerSet') /\ Len(timers') <= MaxTimers
    BY <1>2, <2>1, TimersKeep
  <2> QED BY <1>2, <2>1, <2>2 DEF Pointers
<1>9. Stage'
  <2>1. /\ state = "add" /\ canRun' = FALSE
        /\ UNCHANGED <<state, current, open, panel, choosing>>
    BY DEF ToggleInclude, windows
  <2>2. ASSUME NEW i \in DOMAIN groups', groups'[i].segs # {}, groups'[i].value = Unset
        PROVE  groups'[i].label = current
    <3>1. CASE i = k
      BY <1>1, <3>1
    <3>2. CASE i # k
      <4>1. groups'[i] = groups[i] /\ i \in DOMAIN groups \ {Position(current)}
        BY <1>1, <3>2 DEF k
      <4> QED BY <2>1, <2>2, <4>1, ValuedStage
    <3> QED BY <3>1, <3>2
  <2> QED BY <2>1, <2>2 DEF Stage
<1>10. SegsOf(current)' \subseteq include'
  <2>1. SegsOf(current) = groups[k].segs /\ SegsOf(current)' = groups'[k].segs
    BY <1>2 DEF SegsOf, k
  <2>2. include' = IF s \in include THEN include \ {s} ELSE include \cup {s}
    BY DEF ToggleInclude
  <2> QED BY <1>4, <1>6, <2>1, <2>2
<1> QED BY <1>7, <1>8, <1>9, <1>10

LEMMA EditModeStep ==
  ASSUME PageInv, EditMode
  PROVE  PageInv' /\ groups' = groups /\ state' # "add"
<1> USE DEF PageInv
<1>1. state # "add" /\ over \in Labels /\ Valued
  BY ValuedStage DEF EditMode, Pointers
<1>2. UNCHANGED <<over, timers, panel, choosing, canRun>>
  BY DEF EditMode, map
<1>3. CASE state = "edit"
  BY <1>1, <1>2, <1>3, ViewGroupsStep, ViewStep DEF EditMode, ViewGroups
<1>4. CASE state # "edit"
  <2>1. state' = "edit" /\ current' = over
    BY <1>4 DEF EditMode
  <2>2. groups' = groups
    <3>1. CASE SegsOf(over) = {}
      BY <1>4, <3>1 DEF EditMode
    <3>2. CASE SegsOf(over) # {}
      <4>1. groups' = [groups EXCEPT ![Position(over)] = SetValues(@)]
        BY <1>4, <3>2 DEF EditMode
      <4>2. groups[Position(over)].value # Unset
        BY <1>1, <3>2, PositionOf DEF Valued, SegsOf
      <4> QED BY <1>1, <4>1, <4>2, SetValuesChange
    <3> QED BY <3>1, <3>2
  <2>3. Revalued
    BY <2>2, SameRevalued
  <2>4. over' \in Labels \cup {NoLabel} /\ current' \in {current, over, NoLabel}
    BY <1>1, <1>2, <2>1
  <2>5. GroupsOK' /\ Pointers'
    BY <1>2, <2>3, <2>4, RevaluedPointers
  <2>6. Stage'
    BY <1>1, <1>2, <2>1, <2>2 DEF Stage, Valued
  <2> QED BY <2>1, <2>2, <2>5, <2>6
<1> QED BY <1>3, <1>4

LEMMA SaveValuesStep ==
  ASSUME PageInv, NEW c \in Class, SaveValues(c)
  PROVE  PageInv' /\ Revalued
<1> USE DEF PageInv
<1>1. /\ current \in Labels /\ state' = "view" /\ current' = NoLabel
      /\ UNCHANGED <<over, timers, panel, choosing>>
  BY DEF SaveValues, Pointers, map
<1>2. state # "add"
  BY DEF SaveValues, Stage
<1>3. groups' = [groups EXCEPT ![Position(current)] = [@ EXCEPT !.value = c]]
  BY DEF SaveValues
<1>4. /\ Revalued /\ groups'[Position(current)].value = c
      /\ \A i \in DOMAIN groups \ {Position(current)} : groups'[i] = groups[i]
  BY <1>1, <1>3, ValueChange
<1>5. over' \in Labels \cup {NoLabel} /\ current' \in {current, over, NoLabel}
  BY <1>1 DEF Pointers
<1>6. GroupsOK' /\ Pointers'
  BY <1>1, <1>4, <1>5, RevaluedPointers
<1>7. \A i \in DOMAIN groups' : groups'[i].segs # {} => groups'[i].value # Unset
  <2>1. DOMAIN groups' = DOMAIN groups /\ Valued
    BY <1>2, <1>4, ValuedStage DEF Revalued
  <2> QED BY <1>4, <2>1, ConstantsApart DEF Valued
<1>8. Stage'
  BY <1>1, <1>7 DEF Stage
<1> QED BY <1>4, <1>6, <1>8

LEMMA DeleteGroupStep ==
  ASSUME PageInv, DeleteGroup
  PROVE  PageInv' /\ groups' = groups /\ state' # "add"
<1> USE DEF PageInv
<1>1. groups' = groups /\ Revalued
  BY SameRevalued DEF DeleteGroup
<1>2. /\ state # "add" /\ state' = state /\ current' = over
      /\ UNCHANGED <<over, timers, panel, choosing, canRun>>
  BY DEF DeleteGroup, map
<1>3. over' \in Labels \cup {NoLabel}
  BY <1>2 DEF Pointers
<1>4. GroupsOK' /\ Pointers'
  BY <1>1, <1>2, <1>3, RevaluedPointers
<1>5. Stage'
  BY <1>1, <1>2 DEF Stage
<1> QED BY <1>1, <1>2, <1>4, <1>5

\* The timers of groups that are thrown away go on with their segments.
LEMMA ForgetStep ==
  ASSUME PageInv, NEW S \in SUBSET Label, Forget(S), Labels \ S \subseteq Labels'
  PROVE  timers' \in Seq(TimerSet') /\ Len(timers') <= MaxTimers
<1> USE DEF PageInv
<1>1. timers \in Seq(TimerSet) /\ DOMAIN timers = 1..Len(timers) /\ Len(timers) \in Nat
      /\ Len(timers) <= MaxTimers
  BY DEF Pointers
<1>2. ASSUME NEW i \in 1..Len(timers)
      PROVE  timers'[i] \in TimerSet'
  <2>1. timers[i] \in TimerSet
    BY <1>1, <1>2
  <2>2. timers[i].label \in Labels \cup {NoLabel} /\ timers[i].segs \subseteq Segment
    BY <2>1 DEF TimerSet
  <2>3. CASE timers[i].label \in S
    <3>1. timers'[i] = [label |-> NoLabel, segs |-> SegsOf(timers[i].label)]
      BY <1>1, <1>2, <2>3 DEF Forget
    <3>2. timers[i].label \in Labels
      BY <2>2, <2>3, ConstantsApart
    <3>3. SegsOf(timers[i].label) \subseteq Segment
      BY <3>2, SegsOfType
    <3> QED BY <3>1, <3>3 DEF TimerSet
  <2>4. CASE timers[i].label \notin S
    <3>1. timers'[i] = timers[i]
      BY <1>1, <1>2, <2>4 DEF Forget
    <3>2. timers[i].label \in Labels' \cup {NoLabel}
      BY <2>2, <2>4
    <3>3. timers[i] = [label |-> timers[i].label, segs |-> timers[i].segs]
      BY <2>1 DEF TimerSet
    <3> QED BY <2>2, <3>1, <3>2, <3>3 DEF TimerSet
  <2> QED BY <2>3, <2>4
<1>3. timers' \in [1..Len(timers) -> TimerSet']
  BY <1>1, <1>2 DEF Forget
<1>4. timers' \in Seq(TimerSet') /\ Len(timers') = Len(timers)
  BY <1>1, <1>3, SeqIsFunction
<1> QED BY <1>1, <1>4

\* The groups behind the deleted one move up by one; From is where a group was.
From(k, j) == IF j < k THEN j ELSE j + 1

LEMMA SplicedGroups ==
  ASSUME GroupsOK, NEW k \in DOMAIN groups, groups' = Spliced(k)
  PROVE  /\ groups' \in Seq(Group) /\ DOMAIN groups' = 1..(Len(groups) - 1)
         /\ \A j \in DOMAIN groups' :
              /\ From(k, j) \in DOMAIN groups /\ From(k, j) # k
              /\ groups'[j].index = j - 1
              /\ groups'[j].label = groups[From(k, j)].label
              /\ groups'[j].segs = groups[From(k, j)].segs
              /\ groups'[j].class = groups[From(k, j)].class
              /\ groups'[j].value = groups[From(k, j)].value
<1> DEFINE n == Len(groups)
<1>1. n \in Nat /\ DOMAIN groups = 1..n /\ n - 1 \in Nat /\ k \in 1..n
  BY DEF GroupsOK
<1>2. ASSUME NEW j \in 1..(n - 1)
      PROVE  /\ groups'[j] \in Group
             /\ From(k, j) \in DOMAIN groups /\ From(k, j) # k
             /\ groups'[j].index = j - 1
             /\ groups'[j].label = groups[From(k, j)].label
             /\ groups'[j].segs = groups[From(k, j)].segs
             /\ groups'[j].class = groups[From(k, j)].class
             /\ groups'[j].value = groups[From(k, j)].value
  <2>1. groups'[j] = IF j < k THEN groups[j] ELSE [groups[j + 1] EXCEPT !.index = @ - 1]
    BY DEF Spliced
  <2>2. j \in Int /\ k \in Int /\ j >= 1 /\ j <= n - 1 /\ k >= 1 /\ k <= n
    BY <1>1
  <2>3. From(k, j) \in 1..n /\ From(k, j) # k
    BY <1>1, <2>2 DEF From
  <2>4. CASE j < k
    <3>1. From(k, j) = j /\ groups'[j] = groups[j] /\ j \in DOMAIN groups
      BY <1>1, <2>1, <2>3, <2>4 DEF From
    <3>2. groups[j].index = j - 1 /\ groups[j] \in Group
      BY <3>1, GroupFields DEF GroupsOK
    <3> QED BY <1>1, <2>3, <3>1, <3>2
  <2>5. CASE ~(j < k)
    <3>1. From(k, j) = j + 1 /\ j + 1 \in DOMAIN groups
      BY <1>1, <2>3, <2>5 DEF From
    <3> DEFINE g == groups[j + 1]
    <3>2. g \in Group /\ g.index = (j + 1) - 1
      BY <3>1, GroupFields DEF GroupsOK
    <3>3. groups'[j] = [g EXCEPT !.index = @ - 1]
      BY <2>1, <2>5
    <3>4. (j + 1) - 1 - 1 = j - 1 /\ j - 1 \in Nat
      BY <2>2
    <3> HIDE DEF g
    <3>5. groups'[j] = [g EXCEPT !.index = j - 1]
      BY <3>2, <3>3, <3>4
    <3>6. /\ groups'[j] \in Group /\ groups'[j].index = j - 1 /\ groups'[j].label = g.label
          /\ groups'[j].segs = g.segs /\ groups'[j].class = g.class /\ groups'[j].value = g.value
      BY <3>2, <3>4, <3>5 DEF Group
    <3> QED BY <1>1, <2>3, <3>1, <3>6 DEF g
  <2> QED BY <2>4, <2>5
<1>3. groups' \in [1..(n - 1) -> Group]
  BY <1>2 DEF Spliced
<1>4. groups' \in Seq(Group) /\ DOMAIN groups' = 1..(n - 1)
  BY <1>1, <1>3, SeqIsFunction
<1> QED BY <1>2, <1>4

LEMMA ConfirmDeleteGroups ==
  ASSUME PageInv, ConfirmDelete
  PROVE  /\ current \in Labels /\ groups' = Spliced(Position(current))
         /\ GroupsOK' /\ Labels \ {current} \subseteq Labels' /\ Labels' \subseteq Labels
<1> USE DEF PageInv
<1> DEFINE k == Position(current)
<1>1. current \in Labels
  BY DEF ConfirmDelete, Pointers
<1>2. k \in DOMAIN groups /\ groups[k].label = current
      /\ \A i \in DOMAIN groups : groups[i].label = current => i = k
  BY <1>1, PositionOf
<1>3. groups[k].index = k - 1 /\ Len(groups) \in Nat /\ DOMAIN groups = 1..Len(groups)
  BY <1>2 DEF GroupsOK
<1>4. groups' = Spliced(k)
  <2>1. groups' = Spliced(groups[k].index + 1)
    BY DEF ConfirmDelete
  <2>2. k \in Int
    BY <1>2, <1>3
  <2>3. (k - 1) + 1 = k
    BY <2>2
  <2> QED BY <1>3, <2>1, <2>3
<1> HIDE DEF k
<1>5. /\ groups' \in Seq(Group) /\ DOMAIN groups' = 1..(Len(groups) - 1)
      /\ \A j \in DOMAIN groups' :
           /\ From(k, j) \in DOMAIN groups /\ From(k, j) # k
           /\ groups'[j].index = j - 1
           /\ groups'[j].label = groups[From(k, j)].label
           /\ groups'[j].segs = groups[From(k, j)].segs
           /\ groups'[j].class = groups[From(k, j)].class
           /\ groups'[j].value = groups[From(k, j)].value
  BY <1>2, <1>4, SplicedGroups
<1>6. GroupsOK'
  <2>1. \A j \in DOMAIN groups' : groups'[j].class = Unset <=> groups'[j].segs = {}
    BY <1>5 DEF GroupsOK
  <2>2. ASSUME NEW i \in DOMAIN groups', NEW j \in DOMAIN groups', i # j
        PROVE  From(k, i) # From(k, j)
    <3>1. i \in Int /\ j \in Int /\ k \in Int
      BY <1>2, <1>3, <1>5
    <3> QED BY <2>2, <3>1 DEF From
  <2>3. ASSUME NEW i \in DOMAIN groups', NEW j \in DOMAIN groups', i # j
        PROVE  groups'[i].label # groups'[j].label /\ groups'[i].segs \cap groups'[j].segs = {}
    <3>1. From(k, i) \in DOMAIN groups /\ From(k, j) \in DOMAIN groups /\ From(k, i) # From(k, j)
      BY <1>5, <2>2, <2>3
    <3>2. /\ groups[From(k, i)].label # groups[From(k, j)].label
          /\ groups[From(k, i)].segs \cap groups[From(k, j)].segs = {}
      BY <3>1 DEF GroupsOK
    <3>3. /\ groups'[i].label = groups[From(k, i)].label
          /\ groups'[i].segs = groups[From(k, i)].segs
          /\ groups'[j].label = groups[From(k, j)].label
          /\ groups'[j].segs = groups[From(k, j)].segs
      BY <1>5, <2>3
    <3> QED BY <3>2, <3>3
  <2> QED BY <1>5, <2>1, <2>3 DEF GroupsOK
<1>7. Labels' \subseteq Labels
  BY <1>5 DEF Labels
<1>8. ASSUME NEW l \in Labels, l # current
      PROVE  l \in Labels'
  <2>1. PICK i \in DOMAIN groups : groups[i].label = l
    BY DEF Labels
  <2>2. i # k
    BY <1>2, <1>8, <2>1
  <2> DEFINE j == IF i < k THEN i ELSE i - 1
  <2>3. i \in Int /\ k \in Int /\ i >= 1 /\ i <= Len(groups) /\ k >= 1 /\ k <= Len(groups)
    BY <1>2, <1>3
  <2>4. j \in 1..(Len(groups) - 1) /\ From(k, j) = i
    BY <1>3, <2>2, <2>3 DEF From
  <2> QED BY <1>5, <2>1, <2>4 DEF Labels
<1> QED BY <1>1, <1>4, <1>6, <1>7, <1>8 DEF k

LEMMA ConfirmDeleteStep ==
  ASSUME PageInv, ConfirmDelete
  PROVE  PageInv'
<1> USE DEF PageInv
<1> DEFINE k == Position(current)
<1>1. /\ current \in Labels /\ groups' = Spliced(k)
      /\ GroupsOK' /\ Labels \ {current} \subseteq Labels' /\ Labels' \subseteq Labels
  BY ConfirmDeleteGroups
<1>2. k \in DOMAIN groups
  BY <1>1, PositionOf
<1>3. Pointers'
  <2>1. /\ over' \in Labels' \cup {NoLabel} /\ current' = NoLabel /\ Forget({current})
        /\ {current} \subseteq Label
    BY <1>1, LabelsAreLabels DEF ConfirmDelete, Pointers
  <2>2. timers' \in Seq(TimerSet') /\ Len(timers') <= MaxTimers
    BY <1>1, <2>1, ForgetStep
  <2> QED BY <2>1, <2>2 DEF Pointers
<1>4. Stage'
  <2>1. /\ state # "add" /\ state' = "view" /\ UNCHANGED <<panel, choosing>>
    BY DEF ConfirmDelete, Stage
  <2>2. \A i \in DOMAIN groups' : groups'[i].segs # {} => groups'[i].value # Unset
    BY <1>1, <1>2, <2>1, SplicedGroups, ValuedStage DEF Valued
  <2> QED BY <2>1, <2>2 DEF Stage
<1> QED BY <1>1, <1>3, <1>4

\* Everything is thrown away.
LEMMA RestartedStep ==
  ASSUME PageInv, NEW again \in BOOLEAN, Restarted(again)
  PROVE  PageInv' /\ groups' = <<>> /\ Labels' = {} /\ state' # "add"
<1> USE DEF PageInv
<1>1. groups' = <<>> /\ current' = NoLabel /\ over' = NoLabel /\ Forget(Label)
  BY DEF Restarted
<1>2. state' \in {"network", "view"} /\ choosing' = ~panel'
  BY DEF Restarted, OpenNetwork
<1>3. <<>> \in Seq(Group) /\ DOMAIN <<>> = {}
  OBVIOUS
<1>4. GroupsOK' /\ Labels' = {}
  BY <1>1, <1>3 DEF GroupsOK, Labels
<1>5. Labels \ Label = {}
  BY LabelsAreLabels
<1>6. timers' \in Seq(TimerSet') /\ Len(timers') <= MaxTimers
  BY <1>1, <1>5, ForgetStep
<1>7. Pointers'
  BY <1>1, <1>6 DEF Pointers
<1>8. Stage'
  BY <1>1, <1>2, <1>3 DEF Stage
<1> QED BY <1>1, <1>2, <1>4, <1>7, <1>8

LEMMA LoadANetworkStep ==
  ASSUME PageInv, LoadANetwork
  PROVE  PageInv' /\ groups' = groups /\ state' # "add"
<1> USE DEF PageInv
<1>1. groups' = groups /\ Revalued
  BY SameRevalued DEF LoadANetwork
<1>2. /\ state # "add" /\ state' = "view" /\ current' = NoLabel /\ choosing' = ~panel'
      /\ UNCHANGED <<over, timers>>
  BY DEF LoadANetwork, OpenNetwork, Stage
<1>3. over' \in Labels \cup {NoLabel}
  BY <1>2 DEF Pointers
<1>4. GroupsOK' /\ Pointers'
  BY <1>1, <1>2, <1>3, RevaluedPointers
<1>5. Stage'
  BY <1>1, <1>2 DEF Stage
<1> QED BY <1>1, <1>2, <1>4, <1>5

\* What a template's group is made of.
LEMMA TemplateFields ==
  ASSUME NEW t, IsTemplate(t)
  PROVE  /\ t.groups \in Seq(Saved) /\ DOMAIN t.groups = 1..Len(t.groups) /\ Len(t.groups) \in Nat
         /\ t.meta \in [Segment -> Class \cup {Unset}]
         /\ \A i \in DOMAIN t.groups :
              /\ t.groups[i].label \in Label
              /\ t.groups[i].segs \in SUBSET Segment /\ t.groups[i].segs # {}
              /\ t.groups[i].value \in Class \cup {Unset}
<1>1. t.groups \in Seq(Saved) /\ t.meta \in [Segment -> Class \cup {Unset}]
  BY DEF IsTemplate
<1>2. ASSUME NEW i \in DOMAIN t.groups
      PROVE  t.groups[i] \in Saved
  BY <1>1
<1> QED BY <1>1, <1>2 DEF Saved

\* What LoadScenario makes of a template.
Loaded(t, f) ==
  [i \in DOMAIN f |-> [label |-> t.groups[i].label, index |-> i - 1, segs |-> t.groups[i].segs,
                       class |-> f[i], value |-> t.groups[i].value]]

LEMMA LoadedGroups ==
  ASSUME NEW t, Sound(t), NEW f \in [DOMAIN t.groups -> Class], groups' = Loaded(t, f)
  PROVE  /\ GroupsOK' /\ Valued' /\ DOMAIN groups' = DOMAIN t.groups
         /\ \A i \in DOMAIN groups' :
              /\ groups'[i].label = t.groups[i].label /\ groups'[i].segs = t.groups[i].segs
              /\ groups'[i].value = t.groups[i].value /\ groups'[i].class = f[i]
<1> DEFINE n == Len(t.groups)
<1>1. /\ n \in Nat /\ DOMAIN t.groups = 1..n
      /\ \A i \in 1..n : /\ t.groups[i].label \in Label
                         /\ t.groups[i].segs \in SUBSET Segment /\ t.groups[i].segs # {}
                         /\ t.groups[i].value \in Class \cup {Unset}
  BY TemplateFields DEF Sound
<1>2. DOMAIN f = 1..n /\ \A i \in 1..n : f[i] \in Class
  BY <1>1
<1> HIDE DEF n
<1>3. DOMAIN groups' = 1..n
  BY <1>2 DEF Loaded
<1>4. ASSUME NEW i \in 1..n
      PROVE  /\ groups'[i] \in Group /\ groups'[i].index = i - 1
             /\ groups'[i].label = t.groups[i].label /\ groups'[i].segs = t.groups[i].segs
             /\ groups'[i].value = t.groups[i].value /\ groups'[i].class = f[i]
  <2>1. groups'[i] = [label |-> t.groups[i].label, index |-> i - 1, segs |-> t.groups[i].segs,
                      class |-> f[i], value |-> t.groups[i].value]
    BY <1>2 DEF Loaded
  <2>2. i - 1 \in Nat
    BY <1>1
  <2> QED BY <1>1, <1>2, <2>1, <2>2 DEF Group
<1>5. groups' \in Seq(Group)
  <2>1. groups' \in [1..n -> Group]
    BY <1>2, <1>4 DEF Loaded
  <2> QED BY <1>1, <2>1, SeqIsFunction
<1>6. \A i \in 1..n : groups'[i].class = Unset <=> groups'[i].segs = {}
  BY <1>1, <1>2, <1>4, ConstantsApart
<1>7. \A i, j \in 1..n :
        i # j => groups'[i].label # groups'[j].label /\ groups'[i].segs \cap groups'[j].segs = {}
  <2>1. \A i, j \in 1..n :
          i # j => t.groups[i].label # t.groups[j].label /\ t.groups[i].segs \cap t.groups[j].segs = {}
    BY <1>1 DEF Sound
  <2> QED BY <1>4, <2>1
<1>8. GroupsOK'
  BY <1>3, <1>4, <1>5, <1>6, <1>7 DEF GroupsOK
<1>9. Valued'
  BY <1>1, <1>3, <1>4 DEF Valued, Sound
<1> QED BY <1>1, <1>3, <1>4, <1>8, <1>9

LEMMA LoadScenarioStep ==
  ASSUME PageInv, TemplatesSound, LoadScenario
  PROVE  /\ PageInv' /\ Valued' /\ state' # "add"
         /\ \E t \in At(selected) : \E f \in [DOMAIN list[t].groups -> Class] :
              /\ groups' = Loaded(list[t], f)
              /\ \A i \in DOMAIN f : \E s \in groups'[i].segs :
                   f[i] = IF list[t].meta[s] # Unset THEN list[t].meta[s] ELSE base[s]
              /\ meta' = list[t].meta /\ shared' = t /\ name' = t /\ typed' = t
<1> USE DEF PageInv
<1>1. PICK t \in At(selected) : \E f \in [DOMAIN list[t].groups -> Class] :
         /\ groups' = Loaded(list[t], f)
         /\ \A i \in DOMAIN f : \E s \in groups'[i].segs :
              f[i] = IF list[t].meta[s] # Unset THEN list[t].meta[s] ELSE base[s]
         /\ meta' = list[t].meta /\ shared' = t /\ name' = t /\ typed' = t
  BY DEF LoadScenario, Loaded
<1>2. Sound(list[t])
  BY DEF At, TemplatesSound
<1>3. GroupsOK' /\ Valued'
  BY <1>1, <1>2, LoadedGroups
<1>4. /\ state' = "view" /\ current' = NoLabel /\ over' = NoLabel /\ Forget(Label)
      /\ UNCHANGED <<panel, choosing>>
  BY DEF LoadScenario
<1>5. Labels \ Label \subseteq Labels'
  BY LabelsAreLabels
<1>6. timers' \in Seq(TimerSet') /\ Len(timers') <= MaxTimers
  BY <1>4, <1>5, ForgetStep
<1>7. Pointers'
  BY <1>4, <1>6 DEF Pointers
<1>8. Stage'
  BY <1>3, <1>4 DEF Stage, Valued
<1> QED BY <1>1, <1>3, <1>4, <1>7, <1>8

-----------------------------------------------------------------------------
(* What is saved of the groups: those with segments, one after the other.  *)

Rank(F, i) == Cardinality({j \in F : j <= i})

LEMMA RankOnto ==
  ASSUME NEW n \in Nat, NEW F \in SUBSET (1..n)
  PROVE  /\ Cardinality(F) \in Nat
         /\ \A k \in 1..Cardinality(F) : \E i \in F : Rank(F, i) = k
<1>1. IsFiniteSet(1..n)
  BY FS_Interval
<1>2. IsFiniteSet(F) /\ Cardinality(F) \in Nat
  BY <1>1, FS_Subset, FS_CardinalityType
<1> DEFINE c == Cardinality(F)
           r == [i \in F |-> Rank(F, i)]
<1>3. ASSUME NEW i \in F
      PROVE  r[i] \in 1..c
  <2> DEFINE T == {j \in F : j <= i}
  <2>1. T \in SUBSET F /\ i \in T
    BY <1>3
  <2>2. IsFiniteSet(T) /\ Cardinality(T) \in Nat /\ Cardinality(T) <= c
    BY <1>2, <2>1, FS_Subset, FS_CardinalityType
  <2>3. Cardinality(T) # 0
    BY <2>1, <2>2, FS_EmptySet
  <2>4. r[i] = Cardinality(T)
    BY DEF Rank
  <2> HIDE DEF T, c, r
  <2> QED BY <1>2, <2>2, <2>3, <2>4 DEF c
<1>4. ASSUME NEW i \in F, NEW j \in F, i < j
      PROVE  r[i] # r[j]
  <2> DEFINE T == {k \in F : k <= i}
             U == {k \in F : k <= j}
  <2>1. i \in Int /\ j \in Int /\ \A k \in F : k \in Int
    OBVIOUS
  <2>2. T \in SUBSET U /\ U \in SUBSET F /\ j \in U /\ j \notin T
    <3>1. \A k \in F : k <= i => k <= j
      BY <1>4, <2>1
    <3>2. j <= j /\ ~(j <= i)
      BY <1>4, <2>1
    <3> QED BY <3>1, <3>2
  <2>3. IsFiniteSet(U)
    BY <1>2, <2>2, FS_Subset
  <2>4. Cardinality(T) = Cardinality(U) => T = U
    BY <2>2, <2>3, FS_Subset
  <2>5. r[i] = Cardinality(T) /\ r[j] = Cardinality(U)
    BY DEF Rank
  <2> QED BY <2>2, <2>4, <2>5
<1>5. \A i, j \in F : i # j => r[i] # r[j]
  <2>1. \A i, j \in F : i # j => i < j \/ j < i
    OBVIOUS
  <2> QED BY <1>4, <2>1
<1>6. r \in [F -> 1..c]
  BY <1>3
<1>7. r \in Injection(F, 1..c)
  BY <1>5, <1>6 DEF Injection, IsInjective
<1>8. IsFiniteSet(1..c) /\ Cardinality(1..c) = c
  BY <1>2, FS_Interval
<1>9. r \in Surjection(F, 1..c)
  BY <1>7, <1>8, FS_Injection
<1>10. \A k \in 1..c : \E i \in F : r[i] = k
  BY <1>9 DEF Surjection
<1> QED BY <1>2, <1>10

Filled == {i \in DOMAIN groups : groups[i].segs # {}}
Nth(k) == CHOOSE i \in Filled : Rank(Filled, i) = k

LEMMA ContentFields ==
  ASSUME GroupsOK
  PROVE  /\ Cardinality(Filled) \in Nat /\ DOMAIN Content = 1..Cardinality(Filled)
         /\ Content \in Seq(Saved)
         /\ \A k \in DOMAIN Content :
              /\ Nth(k) \in Filled /\ Rank(Filled, Nth(k)) = k
              /\ Content[k].label = groups[Nth(k)].label
              /\ Content[k].segs = groups[Nth(k)].segs
              /\ Content[k].value = groups[Nth(k)].value
<1> DEFINE c == Cardinality(Filled)
<1>1. Len(groups) \in Nat /\ Filled \in SUBSET (1..Len(groups))
  BY DEF GroupsOK, Filled
<1>2. c \in Nat /\ \A k \in 1..c : \E i \in Filled : Rank(Filled, i) = k
  BY <1>1, RankOnto
<1>3. \A k \in 1..c : Nth(k) \in Filled /\ Rank(Filled, Nth(k)) = k
  BY <1>2 DEF Nth
<1>4. Content = [k \in 1..c |-> [label |-> groups[Nth(k)].label, segs |-> groups[Nth(k)].segs,
                                 value |-> groups[Nth(k)].value]]
  BY DEF Content, Filled, Nth, Rank
<1> HIDE DEF c
<1>5. ASSUME NEW k \in 1..c
      PROVE  /\ Content[k] \in Saved /\ Content[k].label = groups[Nth(k)].label
             /\ Content[k].segs = groups[Nth(k)].segs /\ Content[k].value = groups[Nth(k)].value
  <2>1. Nth(k) \in DOMAIN groups /\ groups[Nth(k)].segs # {}
    BY <1>3 DEF Filled
  <2>2. /\ groups[Nth(k)].label \in Label /\ groups[Nth(k)].segs \in SUBSET Segment
        /\ groups[Nth(k)].value \in Class \cup {Unset}
    BY <2>1, GroupFields
  <2>3. Content[k] = [label |-> groups[Nth(k)].label, segs |-> groups[Nth(k)].segs,
                      value |-> groups[Nth(k)].value]
    BY <1>4
  <2> QED BY <2>1, <2>2, <2>3 DEF Saved
<1>6. Content \in [1..c -> Saved]
  BY <1>4, <1>5
<1>7. Content \in Seq(Saved) /\ DOMAIN Content = 1..c
  BY <1>2, <1>6, SeqIsFunction
<1> QED BY <1>2, <1>3, <1>5, <1>7 DEF c

\* What is saved can be loaded again.
LEMMA ContentSound ==
  ASSUME GroupsOK, Valued, meta \in [Segment -> Class \cup {Unset}]
  PROVE  Sound([groups |-> Content, meta |-> meta])
<1> DEFINE t == [groups |-> Content, meta |-> meta]
<1>1. /\ Content \in Seq(Saved)
      /\ \A k \in DOMAIN Content :
           /\ Nth(k) \in DOMAIN groups /\ groups[Nth(k)].segs # {} /\ Rank(Filled, Nth(k)) = k
           /\ Content[k].label = groups[Nth(k)].label
           /\ Content[k].segs = groups[Nth(k)].segs
           /\ Content[k].value = groups[Nth(k)].value
  BY ContentFields DEF Filled
<1>2. IsTemplate(t)
  BY <1>1 DEF IsTemplate
<1>3. \A k \in DOMAIN Content : Content[k].value # Unset
  BY <1>1 DEF Valued
<1>4. ASSUME NEW j \in DOMAIN Content, NEW k \in DOMAIN Content, j # k
      PROVE  Content[j].label # Content[k].label /\ Content[j].segs \cap Content[k].segs = {}
  <2>1. Nth(j) # Nth(k)
    BY <1>1, <1>4
  <2>2. /\ groups[Nth(j)].label # groups[Nth(k)].label
        /\ groups[Nth(j)].segs \cap groups[Nth(k)].segs = {}
    BY <1>1, <2>1 DEF GroupsOK
  <2> QED BY <1>1, <2>2
<1>5. t.groups = Content
  OBVIOUS
<1> HIDE DEF t
<1>6. Sound(t)
  BY <1>2, <1>3, <1>4, <1>5 DEF Sound
<1> QED BY <1>6 DEF t

\* Content depends on labels, segments and values only.
LEMMA ContentSame ==
  ASSUME groups' = groups
  PROVE  Content' = Content
BY DEF Content

\* When no group is empty, all are saved.
LEMMA ContentAll ==
  ASSUME GroupsOK, \A i \in DOMAIN groups : groups[i].segs # {}
  PROVE  /\ DOMAIN Content = DOMAIN groups
         /\ \A i \in DOMAIN groups : /\ Content[i].label = groups[i].label
                                   /\ Content[i].segs = groups[i].segs
                                   /\ Content[i].value = groups[i].value
<1> DEFINE n == Len(groups)
<1>1. n \in Nat /\ DOMAIN groups = 1..n /\ Filled = 1..n
  BY DEF GroupsOK, Filled
<1>2. Cardinality(1..n) = n
  BY <1>1, FS_Interval
<1>3. ASSUME NEW i \in 1..n
      PROVE  Rank(1..n, i) = i
  <2>1. {j \in 1..n : j <= i} = 1..i
    BY <1>1
  <2>2. Cardinality(1..i) = i
    BY <1>1, FS_Interval
  <2> QED BY <2>1, <2>2 DEF Rank
<1> HIDE DEF n
<1>4. DOMAIN Content = 1..n
  BY <1>1, <1>2, ContentFields
<1>5. ASSUME NEW i \in 1..n
      PROVE  Nth(i) = i
  <2>1. Nth(i) \in 1..n /\ Rank(1..n, Nth(i)) = i
    BY <1>1, <1>4, ContentFields
  <2> QED BY <1>3, <2>1
<1> QED BY <1>1, <1>4, <1>5, ContentFields

-----------------------------------------------------------------------------
(* The steps by what they touch.                                           *)

\* Steps of the user and of timers that send nothing and leave the templates alone.
PageOnly ==
  \/ \E l \in Label : MouseEnterLabel(l) \/ AddGroup(l)
  \/ MouseLeaveLabel \/ AddRemove \/ Done \/ EditMode \/ DeleteGroup \/ ConfirmDelete
  \/ \E s \in Segment : ToggleInclude(s)
  \/ \E c \in Class : SaveValues(c)
  \/ CancelDialog \/ CloseDialog \/ OpenRestart \/ LoadANetwork \/ OpenLoad \/ OpenRun \/ TimerEnds
  \/ \E index \in 0..(Names - 1), ask \in BOOLEAN : Select(index, ask)

Asking ==
  /\ AtPanel /\ state # "add"
  /\ typed' \in Name
  /\ open' = {"overwrite"}
  /\ UNCHANGED <<scenario, map, name, meta, shared, base, loadDialog, panel, choosing, requests,
                 work, history>>

Saving(q) ==
  /\ \E commit \in BOOLEAN : SaveScenario(q, commit)
  /\ state # "add" /\ typed' \in Name
  /\ open' \in {open, {}}
  /\ UNCHANGED <<scenario, map, meta, shared, loadDialog, panel, choosing>>

ServerStep(q) ==
  Server(q) /\ UNCHANGED <<scenario, map, identity, loadDialog, windows, work>>

Core == FieldInv /\ PageInv /\ TemplatesSound

LEMMA ClickSaveKinds ==
  ASSUME NEW q \in Request, NEW t \in Name, NEW commit \in BOOLEAN, ClickSave(q, t, commit)
  PROVE  Asking \/ Saving(q)
<1>1. /\ AtPanel /\ state # "add" /\ typed' = t
      /\ UNCHANGED <<scenario, map, meta, shared, loadDialog, panel, choosing>>
  BY DEF ClickSave
<1>2. CASE open' = {"overwrite"} /\ UNCHANGED <<name, base, requests, work, history>>
  BY <1>1, <1>2 DEF Asking
<1>3. CASE SaveScenario(q, commit) /\ UNCHANGED open
  BY <1>1, <1>3 DEF Saving
<1> QED BY <1>2, <1>3 DEF ClickSave

LEMMA ConfirmOverwriteKind ==
  ASSUME Core, NEW q \in Request, NEW commit \in BOOLEAN, ConfirmOverwrite(q, commit)
  PROVE  Saving(q)
<1>1. /\ "overwrite" \in open /\ typed # Unset /\ open' = {} /\ typed' = typed
      /\ SaveScenario(q, commit)
      /\ UNCHANGED <<scenario, map, meta, shared, loadDialog, panel, choosing>>
  BY DEF ConfirmOverwrite
<1>2. state # "add"
  BY <1>1 DEF Core, PageInv, Stage
<1>3. typed \in Name
  BY <1>1 DEF Core, FieldInv, IdentityInv
<1> QED BY <1>1, <1>2, <1>3 DEF Saving

LEMMA NextKinds ==
  ASSUME Core, Next
  PROVE  \/ PageOnly \/ Restart \/ LoadScenario \/ Asking
         \/ \E q \in Request :
              \/ \E s \in Segment, c \in Class : EditMetadata(q, s, c)
              \/ Saving(q) \/ DeleteTemplate(q) \/ RunScenario(q)
              \/ MetadataDone(q) \/ SaveDone(q) \/ DeleteDone(q) \/ RunDone(q) \/ Failed(q)
              \/ ServerStep(q)
<1>1. CASE User
  BY <1>1 DEF User, PageOnly
<1>2. CASE TimerEnds
  BY <1>2 DEF PageOnly
<1>3. ASSUME NEW q \in Request, Ajax(q)
      PROVE  \/ Asking
             \/ \E s \in Segment, c \in Class : EditMetadata(q, s, c)
             \/ Saving(q) \/ DeleteTemplate(q) \/ RunScenario(q)
  BY <1>3, ClickSaveKinds, ConfirmOverwriteKind DEF Ajax
<1>4. ASSUME NEW q \in Request, Answer(q)
      PROVE  MetadataDone(q) \/ SaveDone(q) \/ DeleteDone(q) \/ RunDone(q) \/ Failed(q)
  BY <1>4 DEF Answer
<1>5. \/ User \/ TimerEnds
      \/ \E q \in Request : Ajax(q) \/ Answer(q) \/ ServerStep(q)
  BY DEF Next, ServerStep
<1> QED BY <1>1, <1>2, <1>3, <1>4, <1>5

\* Steps are counted.
WorkOnce == work' = work \/ (work' = work + 1 /\ work < MaxWork)

LEMMA PageOnlyFrame ==
  ASSUME PageOnly
  PROVE  UNCHANGED <<identity, list, requests, crossed>> /\ WorkOnce
<1>1. ASSUME NEW l \in Label, MouseEnterLabel(l) \/ AddGroup(l)
      PROVE  UNCHANGED <<identity, list, requests, crossed>> /\ WorkOnce
  BY <1>1 DEF WorkOnce, MouseEnterLabel, AddGroup, Edit, loadDialog, history
<1>2. CASE MouseLeaveLabel \/ TimerEnds \/ Done
  BY <1>2 DEF WorkOnce, MouseLeaveLabel, TimerEnds, Done, loadDialog, history
<1>3. CASE AddRemove
  BY <1>3 DEF WorkOnce, AddRemove, Edit, loadDialog
<1>4. CASE EditMode \/ DeleteGroup
  BY <1>4 DEF WorkOnce, EditMode, DeleteGroup, loadDialog, history
<1>5. CASE ConfirmDelete
  BY <1>5 DEF WorkOnce, ConfirmDelete, Edit, loadDialog
<1>6. ASSUME NEW s \in Segment, ToggleInclude(s)
      PROVE  UNCHANGED <<identity, list, requests, crossed>> /\ WorkOnce
  BY <1>6 DEF WorkOnce, ToggleInclude, Edit, loadDialog
<1>7. ASSUME NEW c \in Class, SaveValues(c)
      PROVE  UNCHANGED <<identity, list, requests, crossed>> /\ WorkOnce
  BY <1>7 DEF WorkOnce, SaveValues, Edit, loadDialog
<1>8. CASE CancelDialog \/ CloseDialog \/ OpenRestart
  BY <1>8 DEF WorkOnce, CancelDialog, CloseDialog, OpenRestart, loadDialog, history
<1>9. CASE LoadANetwork \/ OpenLoad \/ OpenRun
  BY <1>9 DEF WorkOnce, LoadANetwork, OpenLoad, OpenRun, loadDialog, history
<1>10. ASSUME NEW index \in 0..(Names - 1), NEW ask \in BOOLEAN, Select(index, ask)
       PROVE  UNCHANGED <<identity, list, requests, crossed>> /\ WorkOnce
  BY <1>10 DEF WorkOnce, Select
<1> QED BY <1>1, <1>2, <1>3, <1>4, <1>5, <1>6, <1>7, <1>8, <1>9, <1>10 DEF PageOnly

-----------------------------------------------------------------------------
(* The groups keep in order, and those in work can be taken apart.         *)

\* Nothing happens to the groups.
Quietly ==
  /\ UNCHANGED <<groups, state, current, canRun, timers, panel, choosing>>
  /\ over' \in {over, NoLabel} \cup Labels
  /\ state = "add" => open' \subseteq {"restart"} /\ include \subseteq include'

LEMMA QuietlyStep ==
  ASSUME PageInv, Removable, Quietly
  PROVE  PageInv' /\ Removable'
<1>1. over' \in Labels \cup {NoLabel}
  BY DEF Quietly, PageInv, Pointers
<1>2. PageInv'
  BY <1>1, QuietStep DEF Quietly
<1>3. SegsOf(current)' = SegsOf(current)
  BY DEF SegsOf, Position, Quietly
<1> QED BY <1>2, <1>3 DEF Removable, Quietly

LEMMA PageOnlyStep ==
  ASSUME Core, Removable, PageOnly
  PROVE  PageInv' /\ Removable'
<1> USE DEF Core
<1>1. ASSUME NEW l \in Label, MouseEnterLabel(l)
      PROVE  PageInv' /\ Removable'
  <2>1. l \in Labels
    BY <1>1 DEF MouseEnterLabel, Labels
  <2>2. Quietly
    BY <1>1, <2>1 DEF MouseEnterLabel, Quietly, scenario, windows, PageInv, Stage
  <2> QED BY <2>2, QuietlyStep
<1>2. CASE MouseLeaveLabel
  <2>1. Quietly
    BY <1>2 DEF MouseLeaveLabel, Quietly, scenario, windows, PageInv, Stage
  <2> QED BY <2>1, QuietlyStep
<1>3. ASSUME NEW l \in Label, AddGroup(l)
      PROVE  PageInv' /\ Removable'
  BY <1>3, AddGroupStep DEF AddGroup, Removable
<1>4. CASE AddRemove
  BY <1>4, AddRemoveStep DEF Removable
<1>5. CASE Done \/ CancelDialog
  <2>1. ViewGroups /\ UNCHANGED <<over, timers, panel, choosing>>
    BY <1>5 DEF Done, CancelDialog, map, windows
  <2>2. state' = "view"
    BY <2>1 DEF ViewGroups
  <2> QED BY <2>1, <2>2, ViewGroupsStep DEF Removable
<1>6. CASE EditMode \/ DeleteGroup
  BY <1>6, EditModeStep, DeleteGroupStep DEF Removable
<1>7. CASE ConfirmDelete
  BY <1>7, ConfirmDeleteStep DEF ConfirmDelete, Removable
<1>8. ASSUME NEW s \in Segment, ToggleInclude(s)
      PROVE  PageInv' /\ Removable'
  <2>1. ClassOf(s) \in Class
    BY DEF ClassOf, FieldInv, IdentityInv
  <2>2. state = "add" /\ state' = state
    BY <1>8 DEF ToggleInclude
  <2>3. SegsOf(current) \subseteq include
    BY <2>2 DEF Removable
  <2> QED BY <1>8, <2>1, <2>3, ToggleStep DEF Removable
<1>9. ASSUME NEW c \in Class, SaveValues(c)
      PROVE  PageInv' /\ Removable'
  BY <1>9, SaveValuesStep DEF SaveValues, Removable
<1>10. CASE CloseDialog
  <2>1. Quietly
    BY <1>10 DEF CloseDialog, Quietly, scenario, map, PageInv, Stage
  <2> QED BY <2>1, QuietlyStep
<1>11. CASE OpenRestart \/ OpenLoad \/ OpenRun
  <2>1. Quietly
    BY <1>11 DEF OpenRestart, OpenLoad, OpenRun, Quietly, scenario, map
  <2> QED BY <2>1, QuietlyStep
<1>12. ASSUME NEW index \in 0..(Names - 1), NEW ask \in BOOLEAN, Select(index, ask)
       PROVE  PageInv' /\ Removable'
  <2>1. Quietly
    BY <1>12 DEF Select, Quietly, scenario, map, PageInv, Stage
  <2> QED BY <2>1, QuietlyStep
<1>13. CASE LoadANetwork
  BY <1>13, LoadANetworkStep DEF Removable
<1>14. CASE TimerEnds
  <2>1. PageInv'
    BY <1>14, TimerEndsStep
  <2>2. include \subseteq include' /\ UNCHANGED <<groups, current, state>>
    BY <1>14 DEF TimerEnds, scenario
  <2>3. SegsOf(current)' = SegsOf(current)
    BY <2>2 DEF SegsOf, Position
  <2> QED BY <2>1, <2>2, <2>3 DEF Removable
<1> QED BY <1>1, <1>2, <1>3, <1>4, <1>5, <1>6, <1>7, <1>8, <1>9, <1>10, <1>11, <1>12, <1>13, <1>14
        DEF PageOnly

LEMMA ServerFrame ==
  ASSUME HistoryInv, NEW q \in Request, ServerStep(q)
  PROVE  /\ UNCHANGED <<scenario, map, identity, loadDialog, windows, work, call, raced, crossed>>
         /\ muddled' = (muddled \/ pc[q] = "done")
         /\ pc[q] \in {"sent", "done"}
<1>1. /\ UNCHANGED <<scenario, map, identity, loadDialog, windows, work>>
      /\ Lose(q) \/ \E s : Served(q, s) /\ UNCHANGED history
  BY DEF ServerStep, Server, DoSave, DoMetadata, DoDeleteTemplate, DoRun
<1>2. CASE Lose(q)
  BY <1>1, <1>2 DEF Lose
<1>3. CASE \E s : Served(q, s) /\ UNCHANGED history
  <2>1. pc[q] = "sent" /\ UNCHANGED <<call, raced, muddled, crossed>>
    BY <1>3 DEF Served, history
  <2>2. muddled' = (muddled \/ pc[q] = "done")
    BY <2>1 DEF HistoryInv
  <2> QED BY <1>1, <2>1, <2>2
<1> QED BY <1>1, <1>2, <1>3

LEMMA PageStep ==
  ASSUME Core, Removable, Next
  PROVE  PageInv' /\ Removable'
<1> USE DEF Core
<1>1. CASE Restart
  <2>1. Restarted(FALSE)
    BY <1>1 DEF Restart
  <2> QED BY <2>1, RestartedStep DEF Removable
<1>2. CASE LoadScenario
  BY <1>2, LoadScenarioStep DEF Removable
<1>3. CASE Asking
  <2>1. Quietly
    BY <1>3 DEF Asking, Quietly, scenario, map
  <2> QED BY <2>1, QuietlyStep
<1>4. ASSUME NEW q \in Request, NEW s \in Segment, NEW c \in Class, EditMetadata(q, s, c)
      PROVE  PageInv' /\ Removable'
  <2>1. Quietly
    BY <1>4 DEF EditMetadata, Quietly, scenario, map, windows, PageInv, Stage
  <2> QED BY <2>1, QuietlyStep
<1>5. ASSUME NEW q \in Request, Saving(q)
      PROVE  PageInv' /\ Removable'
  <2>1. Quietly
    BY <1>5 DEF Saving, Quietly, scenario, map
  <2> QED BY <2>1, QuietlyStep
<1>6. ASSUME NEW q \in Request, DeleteTemplate(q) \/ RunScenario(q)
      PROVE  PageInv' /\ Removable'
  <2>1. Quietly
    BY <1>6 DEF DeleteTemplate, RunScenario, Quietly, scenario, map, windows, PageInv, Stage
  <2> QED BY <2>1, QuietlyStep
<1>7. ASSUME NEW q \in Request, MetadataDone(q)
      PROVE  PageInv' /\ Removable'
  <2>1. Quietly
    BY <1>7 DEF MetadataDone, Quietly, scenario, map, windows, PageInv, Stage
  <2> QED BY <2>1, QuietlyStep
<1>8. ASSUME NEW q \in Request, Failed(q)
      PROVE  PageInv' /\ Removable'
  <2>1. Quietly
    BY <1>8 DEF Failed, Quietly, scenario, map, windows, PageInv, Stage
  <2> QED BY <2>1, QuietlyStep
<1>9. ASSUME NEW q \in Request, SaveDone(q)
      PROVE  PageInv' /\ Removable'
  <2>1. ViewGroups /\ UNCHANGED <<over, timers, panel, choosing>>
    BY <1>9 DEF SaveDone, map, windows
  <2>2. state' = "view"
    BY <2>1 DEF ViewGroups
  <2> QED BY <2>1, <2>2, ViewGroupsStep DEF Removable
<1>10. ASSUME NEW q \in Request, DeleteDone(q) \/ RunDone(q)
       PROVE  PageInv' /\ Removable'
  <2>1. \E again \in BOOLEAN : Restarted(again)
    BY <1>10 DEF DeleteDone, RunDone
  <2> QED BY <2>1, RestartedStep DEF Removable
<1>11. ASSUME NEW q \in Request, ServerStep(q)
       PROVE  PageInv' /\ Removable'
  <2>1. UNCHANGED <<scenario, map, windows>>
    BY <1>11, ServerFrame DEF FieldInv
  <2>2. Quietly
    BY <2>1 DEF Quietly, scenario, map, windows, PageInv, Stage
  <2> QED BY <2>2, QuietlyStep
<1> QED BY <1>1, <1>2, <1>3, <1>4, <1>5, <1>6, <1>7, <1>8, <1>9, <1>10, <1>11, PageOnlyStep, NextKinds

-----------------------------------------------------------------------------
(* Requests.                                                               *)

LEMMA SendFacts ==
  ASSUME RequestInv, NEW q \in Request, NEW c, Send(q, c)
  PROVE  /\ pc[q] = "free" /\ call[q].op = "none" /\ pc'[q] = "sent" /\ call'[q] = c
         /\ \A r \in Request : r # q => pc'[r] = pc[r] /\ call'[r] = call[r]
         /\ pc' \in [Request -> {"free", "sent", "done", "failed"}] /\ DOMAIN call' = Request
         /\ server' = server /\ work' = work + 1 /\ work < MaxWork
BY DEF RequestInv, Send

LEMMA SendStep ==
  ASSUME RequestInv, NEW q \in Request, NEW c, Send(q, c), IsCall(c), c.op # "none", c.name \in Name
  PROVE  RequestInv'
<1>1. /\ pc'[q] = "sent" /\ call'[q] = c
      /\ \A r \in Request : r # q => pc'[r] = pc[r] /\ call'[r] = call[r]
      /\ pc' \in [Request -> {"free", "sent", "done", "failed"}] /\ DOMAIN call' = Request
      /\ work' = work + 1 /\ work < MaxWork
  BY SendFacts
<1>2. work' \in 0..MaxWork
  BY <1>1, ConstantsApart DEF RequestInv
<1>3. \A r \in Request : /\ IsCall(call'[r])
                         /\ pc'[r] = "free" <=> call'[r].op = "none"
                         /\ call'[r].op # "none" => call'[r].name \in Name
  BY <1>1 DEF RequestInv
<1>4. \A r \in Request : IsCall(call[r])'
  BY <1>3 DEF IsCall, IsTemplate
<1> QED BY <1>1, <1>2, <1>3, <1>4 DEF RequestInv

LEMMA TakeFacts ==
  ASSUME RequestInv, NEW q \in Request, NEW op, NEW phase, Take(q, op, phase)
  PROVE  /\ pc[q] = phase /\ call[q].op = op /\ pc'[q] = "free" /\ call'[q] = NoCall
         /\ call'[q].op = "none"
         /\ \A r \in Request : r # q => pc'[r] = pc[r] /\ call'[r] = call[r]
         /\ pc' \in [Request -> {"free", "sent", "done", "failed"}] /\ DOMAIN call' = Request
         /\ server' = server
BY DEF RequestInv, Take, NoCall

LEMMA TakeStep ==
  ASSUME RequestInv, NEW q \in Request, NEW op, NEW phase, Take(q, op, phase), UNCHANGED work
  PROVE  RequestInv'
<1>1. /\ pc'[q] = "free" /\ call'[q] = NoCall
      /\ \A r \in Request : r # q => pc'[r] = pc[r] /\ call'[r] = call[r]
      /\ pc' \in [Request -> {"free", "sent", "done", "failed"}] /\ DOMAIN call' = Request
  BY TakeFacts
<1>2. IsCall(NoCall) /\ NoCall.op = "none"
  BY DEF IsCall, NoCall
<1>3. \A r \in Request : /\ IsCall(call'[r])
                         /\ pc'[r] = "free" <=> call'[r].op = "none"
                         /\ call'[r].op # "none" => call'[r].name \in Name
  BY <1>1, <1>2 DEF RequestInv
<1>4. \A r \in Request : IsCall(call[r])'
  BY <1>3 DEF IsCall, IsTemplate
<1> QED BY <1>1, <1>3, <1>4 DEF RequestInv

LEMMA ServerFacts ==
  ASSUME FieldInv, NEW q \in Request, ServerStep(q)
  PROVE  /\ RequestInv'
         /\ call' = call /\ pc[q] \in {"sent", "done"} /\ pc'[q] \in {"done", "failed"}
         /\ \A r \in Request : r # q => pc'[r] = pc[r]
         /\ \A r \in Request : pc'[r] = "free" <=> pc[r] = "free"
<1>1. RequestInv /\ HistoryInv
  BY DEF FieldInv
<1>2. call' = call /\ pc[q] \in {"sent", "done"} /\ work' = work
  BY <1>1, ServerFrame
<1>3. pc' = [pc EXCEPT ![q] = "done"] \/ pc' = [pc EXCEPT ![q] = "failed"]
  BY DEF ServerStep, Server, DoSave, DoMetadata, DoDeleteTemplate, DoRun, Served, Lose
<1>4. /\ pc'[q] \in {"done", "failed"} /\ \A r \in Request : r # q => pc'[r] = pc[r]
      /\ pc' \in [Request -> {"free", "sent", "done", "failed"}]
  BY <1>1, <1>3 DEF RequestInv
<1>5. \A r \in Request : pc'[r] = "free" <=> pc[r] = "free"
  BY <1>2, <1>4
<1>6. RequestInv'
  BY <1>1, <1>2, <1>4, <1>5 DEF RequestInv, IsCall, IsTemplate
<1> QED BY <1>2, <1>4, <1>5, <1>6

LEMMA SavingFacts ==
  ASSUME Core, NEW q \in Request, Saving(q)
  PROVE  LET t == [groups |-> Content, meta |-> meta]
             c == [op |-> "save", name |-> typed', template |-> t]
         IN /\ Send(q, c) /\ IsCall(c) /\ Sound(t) /\ c.name \in Name /\ name' = typed'
            /\ c.op = "save" /\ c.template = t /\ c.template.groups = Content
<1> DEFINE t == [groups |-> Content, meta |-> meta]
           c == [op |-> "save", name |-> typed', template |-> t]
<1>1. Valued
  BY ValuedStage DEF Saving, Core, PageInv
<1>2. Sound(t)
  BY <1>1, ContentSound DEF Core, PageInv, FieldInv, IdentityInv
<1>3. /\ c.op = "save" /\ c.template = t /\ c.name = typed' /\ t.groups = Content
  OBVIOUS
<1>4. Send(q, c) /\ name' = typed' /\ typed' \in Name
  BY DEF Saving, SaveScenario
<1> HIDE DEF c, t
<1>5. IsCall(c)
  BY <1>2, <1>3, <1>4 DEF IsCall, Sound
<1> QED BY <1>2, <1>3, <1>4, <1>5 DEF c, t

LEMMA RequestStep ==
  ASSUME Core, Next
  PROVE  RequestInv'
<1>1. RequestInv
  BY DEF Core, FieldInv
<1>2. CASE UNCHANGED requests /\ WorkOnce
  <2>1. work' \in 0..MaxWork
    BY <1>1, <1>2, ConstantsApart DEF RequestInv, WorkOnce
  <2>2. pc' = pc /\ call' = call
    BY <1>2 DEF requests
  <2> QED BY <1>1, <2>1, <2>2 DEF RequestInv, IsCall, IsTemplate
<1>3. CASE PageOnly
  BY <1>2, <1>3, PageOnlyFrame
<1>4. CASE Restart \/ LoadScenario \/ Asking
  <2>1. UNCHANGED requests
    BY <1>4 DEF Restart, LoadScenario, Asking
  <2>2. CASE Edit(FALSE)
    BY <1>2, <2>1, <2>2 DEF Edit, WorkOnce
  <2>3. CASE Asking
    BY <1>2, <2>1, <2>3 DEF Asking, WorkOnce
  <2> QED BY <1>4, <2>2, <2>3 DEF Restart, LoadScenario
<1>5. ASSUME NEW q \in Request, NEW s \in Segment, NEW c \in Class, EditMetadata(q, s, c)
      PROVE  RequestInv'
  <2> DEFINE d == [op |-> "metadata", name |-> name, seg |-> s, class |-> c]
  <2>1. CASE name \in DOMAIN list /\ Send(q, d)
    <3>1. d.op = "metadata" /\ d.name = name /\ d.seg = s /\ d.class = c
      OBVIOUS
    <3>2. name \in Name
      BY <2>1 DEF Core, TemplatesSound
    <3> HIDE DEF d
    <3>3. IsCall(d) /\ d.op # "none" /\ d.name \in Name
      BY <3>1, <3>2 DEF IsCall
    <3> QED BY <1>1, <2>1, <3>3, SendStep
  <2>2. CASE work < MaxWork /\ work' = work + 1 /\ UNCHANGED requests
    BY <1>2, <2>2 DEF WorkOnce
  <2> QED BY <1>5, <2>1, <2>2 DEF EditMetadata
<1>6. ASSUME NEW q \in Request, Saving(q)
      PROVE  RequestInv'
  <2> DEFINE c == [op |-> "save", name |-> typed', template |-> [groups |-> Content, meta |-> meta]]
  <2>1. Send(q, c) /\ IsCall(c) /\ c.name \in Name /\ c.op = "save"
    BY <1>6, SavingFacts
  <2> HIDE DEF c
  <2> QED BY <1>1, <2>1, SendStep
<1>7. ASSUME NEW q \in Request, DeleteTemplate(q)
      PROVE  RequestInv'
  <2>1. PICK t \in At(selected) : Send(q, [op |-> "delete", name |-> t])
    BY <1>7 DEF DeleteTemplate
  <2>2. t \in Name
    BY DEF At, Core, TemplatesSound
  <2> QED BY <1>1, <2>1, <2>2, SendStep DEF IsCall
<1>8. ASSUME NEW q \in Request, RunScenario(q)
      PROVE  RequestInv'
  <2>1. name \in Name /\ Send(q, [op |-> "run", name |-> name])
    BY <1>8 DEF RunScenario, Core, TemplatesSound
  <2> QED BY <1>1, <2>1, SendStep DEF IsCall
<1>9. ASSUME NEW q \in Request,
             MetadataDone(q) \/ SaveDone(q) \/ DeleteDone(q) \/ RunDone(q) \/ Failed(q)
      PROVE  RequestInv'
  <2>1. \E op, phase : Take(q, op, phase)
    BY <1>9 DEF MetadataDone, SaveDone, DeleteDone, RunDone, Failed
  <2>2. UNCHANGED work
    BY <1>9 DEF MetadataDone, SaveDone, DeleteDone, RunDone, Failed
  <2> QED BY <1>1, <2>1, <2>2, TakeStep
<1>10. ASSUME NEW q \in Request, ServerStep(q)
       PROVE  RequestInv'
  BY <1>10, ServerFacts DEF Core
<1> QED BY <1>3, <1>4, <1>5, <1>6, <1>7, <1>8, <1>9, <1>10, NextKinds

-----------------------------------------------------------------------------
(* Templates stay sound, in the page and on the server.                    *)

LEMMA SoundMeta ==
  ASSUME NEW t, Sound(t), NEW m \in [Segment -> Class \cup {Unset}]
  PROVE  /\ Sound([t EXCEPT !.meta = m])
         /\ [t EXCEPT !.meta = m].groups = t.groups /\ [t EXCEPT !.meta = m].meta = m
<1> DEFINE u == [t EXCEPT !.meta = m]
<1>1. IsTemplate(u) /\ u.groups = t.groups /\ u.meta = m
  BY DEF Sound, IsTemplate
<1> HIDE DEF u
<1>2. Sound(u)
  BY <1>1 DEF Sound
<1> QED BY <1>1, <1>2 DEF u

\* New lanes of a segment get to the page's metadata and, when it is the same object, to
\* those of the template they came from.
MetaChange(s, c) ==
  /\ meta' = [meta EXCEPT ![s] = c]
  /\ list' = IF shared = Unset THEN list
             ELSE [list EXCEPT ![shared] = [@ EXCEPT !.meta = meta']]

LEMMA MetaChangeFacts ==
  ASSUME IdentityInv, \A t \in DOMAIN list : Sound(list[t]),
         NEW s \in Segment, NEW c \in Class, MetaChange(s, c)
  PROVE  /\ meta' \in [Segment -> Class \cup {Unset}] /\ meta'[s] = c
         /\ \A u \in Segment : u # s => meta'[u] = meta[u]
         /\ DOMAIN list' = DOMAIN list
         /\ \A t \in DOMAIN list : /\ list'[t].groups = list[t].groups
                                   /\ Sound(list'[t])
                                   /\ t # shared => list'[t] = list[t]
         /\ shared # Unset => shared \in DOMAIN list /\ list'[shared].meta = meta'
<1>1. meta \in [Segment -> Class \cup {Unset}] /\ (shared # Unset => shared \in DOMAIN list)
  BY DEF IdentityInv
<1>2. /\ meta' \in [Segment -> Class \cup {Unset}] /\ meta'[s] = c
      /\ \A u \in Segment : u # s => meta'[u] = meta[u]
  BY <1>1 DEF MetaChange
<1>3. CASE shared = Unset
  <2>1. list' = list
    BY <1>3 DEF MetaChange
  <2> QED BY <1>2, <1>3, <2>1
<1>4. CASE shared # Unset
  <2>1. Sound(list[shared]) /\ shared \in DOMAIN list
    BY <1>1, <1>4
  <2>2. list' = [list EXCEPT ![shared] = [list[shared] EXCEPT !.meta = meta']]
    BY <1>4 DEF MetaChange
  <2> DEFINE u == [list[shared] EXCEPT !.meta = meta']
  <2>3. Sound(u) /\ u.groups = list[shared].groups /\ u.meta = meta'
    BY <1>2, <2>1, SoundMeta
  <2> HIDE DEF u
  <2>4. /\ DOMAIN list' = DOMAIN list /\ list'[shared] = u
        /\ \A t \in DOMAIN list : t # shared => list'[t] = list[t]
    BY <2>1, <2>2 DEF u
  <2> QED BY <1>2, <2>1, <2>3, <2>4
<1> QED BY <1>3, <1>4

LEMMA EditMetadataKinds ==
  ASSUME NEW q \in Request, NEW s \in Segment, NEW c \in Class, EditMetadata(q, s, c)
  PROVE  /\ \/ /\ name \in DOMAIN list
               /\ Send(q, [op |-> "metadata", name |-> name, seg |-> s, class |-> c])
               /\ UNCHANGED <<meta, list>>
            \/ MetaChange(s, c) /\ UNCHANGED requests
         /\ Free /\ state = "add" /\ ~IsSegmentInGroup(s)
         /\ UNCHANGED <<scenario, map, name, typed, shared, base, rows, selected, windows,
                        raced, muddled, server>>
BY DEF EditMetadata, MetaChange, Send, requests

LEMMA MetadataDoneKind ==
  ASSUME RequestInv, NEW q \in Request, MetadataDone(q)
  PROVE  /\ call[q].seg \in Segment /\ call[q].class \in Class
         /\ MetaChange(call[q].seg, call[q].class)
         /\ Take(q, "metadata", "done") /\ call[q].op = "metadata" /\ pc[q] = "done"
         /\ UNCHANGED <<scenario, map, name, typed, shared, base, rows, selected, windows, work,
                        history, server>>
<1>1. Take(q, "metadata", "done") /\ call[q].op = "metadata" /\ pc[q] = "done" /\ server' = server
  BY DEF MetadataDone, Take
<1>2. IsCall(call[q])
  BY DEF RequestInv
<1> QED BY <1>1, <1>2 DEF MetadataDone, MetaChange, IsCall

LEMMA WithoutFacts ==
  ASSUME NEW f, NEW S
  PROVE  /\ DOMAIN Without(f, S) = DOMAIN f \ S
         /\ \A u \in DOMAIN f \ S : Without(f, S)[u] = f[u]
BY DEF Without

LEMMA ListStep ==
  ASSUME Core, Next
  PROVE  DOMAIN list' \subseteq Name /\ \A t \in DOMAIN list' : Sound(list'[t])
<1>1. /\ DOMAIN list \subseteq Name /\ \A t \in DOMAIN list : Sound(list[t])
      /\ RequestInv /\ IdentityInv
      /\ \A q \in Request : call[q].op = "save" => Sound(call[q].template) /\ call[q].name \in Name
  BY DEF Core, TemplatesSound, FieldInv, RequestInv
<1>2. CASE UNCHANGED list
  BY <1>1, <1>2
<1>3. CASE PageOnly \/ Restart \/ LoadScenario \/ Asking
  BY <1>2, <1>3, PageOnlyFrame DEF Restart, LoadScenario, Asking, loadDialog
<1>4. ASSUME NEW s \in Segment, NEW c \in Class, MetaChange(s, c)
      PROVE  DOMAIN list' \subseteq Name /\ \A t \in DOMAIN list' : Sound(list'[t])
  BY <1>1, <1>4, MetaChangeFacts
<1>5. ASSUME NEW q \in Request, NEW s \in Segment, NEW c \in Class, EditMetadata(q, s, c)
      PROVE  DOMAIN list' \subseteq Name /\ \A t \in DOMAIN list' : Sound(list'[t])
  BY <1>2, <1>4, <1>5, EditMetadataKinds
<1>6. ASSUME NEW q \in Request, MetadataDone(q)
      PROVE  DOMAIN list' \subseteq Name /\ \A t \in DOMAIN list' : Sound(list'[t])
  BY <1>1, <1>4, <1>6, MetadataDoneKind
<1>7. ASSUME NEW q \in Request,
             Saving(q) \/ DeleteTemplate(q) \/ RunScenario(q) \/ RunDone(q) \/ Failed(q)
      PROVE  UNCHANGED list
  BY <1>7 DEF Saving, DeleteTemplate, RunScenario, RunDone, Failed, loadDialog
<1>8. ASSUME NEW q \in Request, SaveDone(q)
      PROVE  DOMAIN list' \subseteq Name /\ \A t \in DOMAIN list' : Sound(list'[t])
  <2>1. call[q].op = "save" /\ list' = With(list, call[q].name, call[q].template)
    BY <1>8 DEF SaveDone, Take
  <2> DEFINE n == call[q].name
             v == call[q].template
  <2>2. /\ DOMAIN list' = DOMAIN list \cup {n} /\ list'[n] = v
        /\ \A u \in DOMAIN list : u # n => list'[u] = list[u]
    BY <2>1 DEF With
  <2>3. Sound(v) /\ n \in Name
    BY <1>1, <2>1
  <2> HIDE DEF n, v
  <2> QED BY <1>1, <2>2, <2>3
<1>9. ASSUME NEW q \in Request, DeleteDone(q)
      PROVE  DOMAIN list' \subseteq Name /\ \A t \in DOMAIN list' : Sound(list'[t])
  <2>1. PICK S : list' = Without(list, S)
    BY <1>9 DEF DeleteDone
  <2>2. /\ DOMAIN list' = DOMAIN list \ S
        /\ \A u \in DOMAIN list \ S : list'[u] = list[u]
    BY ONLY <2>1, WithoutFacts
  <2> QED BY <1>1, <2>2
<1>10. ASSUME NEW q \in Request, ServerStep(q)
       PROVE  UNCHANGED list
  BY <1>10, ServerFrame DEF Core, FieldInv, loadDialog
<1> QED BY <1>2, <1>3, <1>5, <1>6, <1>7, <1>8, <1>9, <1>10, NextKinds

LEMMA ServerKinds ==
  ASSUME NEW q \in Request, ServerStep(q)
  PROVE  LET n == call[q].name IN
         \/ /\ call[q].op = "save" /\ pc[q] = "sent" /\ pc' = [pc EXCEPT ![q] = "done"]
            /\ server' = With(server, n, call[q].template) /\ UNCHANGED history
         \/ /\ call[q].op = "metadata" /\ pc[q] = "sent" /\ pc' = [pc EXCEPT ![q] = "done"]
            /\ n \in DOMAIN server /\ UNCHANGED history
            /\ server' = [server EXCEPT ![n].meta[call[q].seg] = call[q].class]
         \/ /\ call[q].op = "delete" /\ pc[q] = "sent" /\ pc' = [pc EXCEPT ![q] = "done"]
            /\ server' = Without(server, {n}) /\ UNCHANGED history
         \/ /\ call[q].op \notin {"save", "delete"} /\ pc[q] = "sent"
            /\ pc' = [pc EXCEPT ![q] = "done"]
            /\ server' = server /\ UNCHANGED history
         \/ pc' = [pc EXCEPT ![q] = "failed"] /\ server' = server
<1>1. CASE Lose(q)
  BY <1>1 DEF Lose
<1>2. CASE DoSave(q) /\ UNCHANGED history
  BY <1>2 DEF DoSave, Served
<1>3. CASE DoMetadata(q) /\ UNCHANGED history
  BY <1>3 DEF DoMetadata, Served
<1>4. CASE DoDeleteTemplate(q) /\ UNCHANGED history
  BY <1>4 DEF DoDeleteTemplate, Served
<1>5. CASE DoRun(q) /\ UNCHANGED history
  BY <1>5 DEF DoRun, Served
<1> QED BY <1>1, <1>2, <1>3, <1>4, <1>5 DEF ServerStep, Server

LEMMA ServerTemplates ==
  ASSUME Core, NEW q \in Request, ServerStep(q)
  PROVE  DOMAIN server' \subseteq Name /\ \A t \in DOMAIN server' : Sound(server'[t])
<1> DEFINE n == call[q].name
           v == call[q].template
<1>1. /\ DOMAIN server \subseteq Name /\ \A t \in DOMAIN server : Sound(server[t])
      /\ call[q].op = "save" => Sound(v) /\ n \in Name
  BY DEF Core, TemplatesSound, FieldInv, RequestInv
<1>2. CASE call[q].op = "save" /\ server' = With(server, n, v)
  <2>1. /\ DOMAIN server' = DOMAIN server \cup {n} /\ server'[n] = v
        /\ \A u \in DOMAIN server : u # n => server'[u] = server[u]
    BY <1>2 DEF With
  <2> HIDE DEF n, v
  <2> QED BY <1>1, <1>2, <2>1
<1>3. CASE /\ call[q].op = "metadata" /\ n \in DOMAIN server
           /\ server' = [server EXCEPT ![n].meta[call[q].seg] = call[q].class]
  <2>1. call[q].seg \in Segment /\ call[q].class \in Class
    BY <1>3 DEF Core, FieldInv, RequestInv, IsCall
  <2> DEFINE m == [server[n].meta EXCEPT ![call[q].seg] = call[q].class]
             u == [server[n] EXCEPT !.meta = m]
  <2>2. Sound(server[n])
    BY <1>1, <1>3
  <2>3. server[n].meta \in [Segment -> Class \cup {Unset}]
    BY <2>2, TemplateFields DEF Sound
  <2>4. m \in [Segment -> Class \cup {Unset}]
    BY <2>1, <2>3
  <2>5. Sound(u)
    BY <2>2, <2>4, SoundMeta
  <2>6. server' = [server EXCEPT ![n] = u]
    BY <1>3
  <2> HIDE DEF u, n
  <2> QED BY <1>1, <1>3, <2>5, <2>6
<1>4. CASE server' = Without(server, {n})
  <2>1. /\ DOMAIN server' = DOMAIN server \ {n}
        /\ \A u \in DOMAIN server \ {n} : server'[u] = server[u]
    BY <1>4 DEF Without
  <2> QED BY <1>1, <2>1
<1>5. CASE server' = server
  BY <1>1, <1>5
<1> QED BY <1>2, <1>3, <1>4, <1>5, ServerKinds

\* The server keeps its templates but in its own steps.
LEMMA ServerSame ==
  ASSUME Core, Next
  PROVE  server' = server \/ \E q \in Request : ServerStep(q)
<1>1. CASE PageOnly
  BY <1>1, PageOnlyFrame DEF requests
<1>2. CASE Restart \/ LoadScenario \/ Asking
  BY <1>2 DEF Restart, LoadScenario, Asking, requests
<1>3. ASSUME NEW q \in Request, NEW s \in Segment, NEW c \in Class, EditMetadata(q, s, c)
      PROVE  server' = server
  BY <1>3, EditMetadataKinds
<1>4. ASSUME NEW q \in Request, Saving(q) \/ DeleteTemplate(q) \/ RunScenario(q)
      PROVE  server' = server
  BY <1>4 DEF Saving, SaveScenario, DeleteTemplate, RunScenario, Send
<1>5. ASSUME NEW q \in Request,
             MetadataDone(q) \/ SaveDone(q) \/ DeleteDone(q) \/ RunDone(q) \/ Failed(q)
      PROVE  server' = server
  BY <1>5 DEF MetadataDone, SaveDone, DeleteDone, RunDone, Failed, Take
<1> QED BY <1>1, <1>2, <1>3, <1>4, <1>5, NextKinds

\* A request's contents come from one that was sent.
LEMMA CallStep ==
  ASSUME Core, Next, NEW r \in Request, call'[r].op = "save"
  PROVE  \/ call'[r] = call[r]
         \/ Saving(r) /\ Sound(call'[r].template) /\ call'[r].template.meta = meta
<1>1. RequestInv
  BY DEF Core, FieldInv
<1>2. ASSUME UNCHANGED requests PROVE call'[r] = call[r]
  BY <1>2 DEF requests
<1>3. CASE PageOnly
  BY <1>2, <1>3, PageOnlyFrame
<1>4. CASE Restart \/ LoadScenario \/ Asking
  BY <1>2, <1>4 DEF Restart, LoadScenario, Asking
<1>5. ASSUME NEW q \in Request, NEW c, Send(q, c), c.op # "save"
      PROVE  call'[r] = call[r]
  BY <1>1, <1>5, SendFacts
<1>6. ASSUME NEW q \in Request, NEW s \in Segment, NEW c \in Class, EditMetadata(q, s, c)
      PROVE  call'[r] = call[r]
  <2> DEFINE d == [op |-> "metadata", name |-> name, seg |-> s, class |-> c]
  <2>1. d.op # "save"
    OBVIOUS
  <2> HIDE DEF d
  <2>2. Send(q, d) \/ UNCHANGED requests
    BY <1>6, EditMetadataKinds DEF d
  <2>3. CASE Send(q, d)
    BY <1>1, <2>1, <2>3, SendFacts
  <2> QED BY <1>2, <2>2, <2>3
<1>7. ASSUME NEW q \in Request, Saving(q)
      PROVE  \/ call'[r] = call[r]
             \/ q = r /\ Sound(call'[r].template) /\ call'[r].template.meta = meta
  <2> DEFINE t == [groups |-> Content, meta |-> meta]
             c == [op |-> "save", name |-> typed', template |-> t]
  <2>1. Send(q, c) /\ Sound(t) /\ c.template = t /\ t.meta = meta
    BY <1>7, SavingFacts
  <2> HIDE DEF c, t
  <2>2. call'[q] = c /\ (r # q => call'[r] = call[r])
    BY <1>1, <2>1, SendFacts
  <2> QED BY <2>1, <2>2
<1>8. ASSUME NEW q \in Request, DeleteTemplate(q) \/ RunScenario(q)
      PROVE  call'[r] = call[r]
  BY <1>5, <1>8 DEF DeleteTemplate, RunScenario
<1>9. ASSUME NEW q \in Request,
             MetadataDone(q) \/ SaveDone(q) \/ DeleteDone(q) \/ RunDone(q) \/ Failed(q)
      PROVE  call'[r] = call[r]
  <2>1. \E op, phase : Take(q, op, phase)
    BY <1>9 DEF MetadataDone, SaveDone, DeleteDone, RunDone, Failed
  <2> QED BY <1>1, <2>1, TakeFacts
<1>10. ASSUME NEW q \in Request, ServerStep(q)
       PROVE  call'[r] = call[r]
  BY <1>10, ServerFacts DEF Core
<1> QED BY <1>3, <1>4, <1>6, <1>7, <1>8, <1>9, <1>10, NextKinds

LEMMA TemplatesStep ==
  ASSUME Core, Next
  PROVE  TemplatesSound'
<1>1. DOMAIN server' \subseteq Name /\ \A t \in DOMAIN server' : Sound(server'[t])
  BY ServerSame, ServerTemplates DEF Core, TemplatesSound
<1>2. DOMAIN list' \subseteq Name /\ \A t \in DOMAIN list' : Sound(list'[t])
  BY ListStep
<1>3. \A q \in Request : call'[q].op = "save" => Sound(call'[q].template)
  BY CallStep DEF Core, TemplatesSound
<1> QED BY <1>1, <1>2, <1>3 DEF TemplatesSound, Sound, IsTemplate

-----------------------------------------------------------------------------
(* The other fields.                                                       *)

LEMMA HistoryStep ==
  ASSUME Core, Next
  PROVE  HistoryInv'
<1> USE DEF HistoryInv
<1>1. HistoryInv
  BY DEF Core, FieldInv
<1>2. CASE UNCHANGED history
  BY <1>1, <1>2 DEF history
<1>3. ASSUME NEW more, Edit(more)
      PROVE  raced' \in BOOLEAN /\ crossed' \in BOOLEAN
  BY <1>1, <1>3 DEF Edit
<1>4. CASE PageOnly
  <2>1. crossed' = crossed
    BY <1>4, PageOnlyFrame
  <2>2. CASE \/ \E l \in Label : MouseEnterLabel(l)
             \/ MouseLeaveLabel \/ Done \/ EditMode \/ DeleteGroup \/ CancelDialog \/ CloseDialog
             \/ OpenRestart \/ LoadANetwork \/ OpenRun \/ TimerEnds
    <3>1. UNCHANGED history
      BY <2>2 DEF MouseEnterLabel, MouseLeaveLabel, Done, EditMode, DeleteGroup, CancelDialog,
           CloseDialog, OpenRestart, LoadANetwork, OpenRun, TimerEnds
    <3> QED BY <1>2, <3>1
  <2>3. CASE \/ \E l \in Label : AddGroup(l)
             \/ AddRemove \/ ConfirmDelete
             \/ \E s \in Segment : ToggleInclude(s)
             \/ \E c \in Class : SaveValues(c)
    <3>1. \E more : Edit(more) /\ UNCHANGED muddled
      BY <2>3 DEF AddGroup, AddRemove, ConfirmDelete, ToggleInclude, SaveValues
    <3> QED BY <1>1, <1>3, <3>1
  <2>4. CASE \/ OpenLoad
             \/ \E index \in 0..(Names - 1), ask \in BOOLEAN : Select(index, ask)
    <3>1. muddled' = (muddled \/ InFlight({"delete"}) # {}) /\ raced' = raced
      BY <2>4 DEF OpenLoad, Select
    <3> QED BY <1>1, <2>1, <3>1
  <2> QED BY <1>4, <2>2, <2>3, <2>4 DEF PageOnly
<1>5. CASE Restart \/ LoadScenario
  <2>1. Edit(FALSE) /\ muddled' \in BOOLEAN
    BY <1>1, <1>5 DEF Restart, LoadScenario
  <2> QED BY <1>3, <2>1
<1>6. CASE Asking
  BY <1>2, <1>6 DEF Asking
<1>7. ASSUME NEW q \in Request, NEW s \in Segment, NEW c \in Class, EditMetadata(q, s, c)
      PROVE  HistoryInv'
  BY <1>1, <1>7 DEF EditMetadata
<1>8. ASSUME NEW q \in Request, Saving(q)
      PROVE  HistoryInv'
  BY <1>1, <1>8 DEF Saving, SaveScenario
<1>9. ASSUME NEW q \in Request, DeleteTemplate(q) \/ RunScenario(q)
      PROVE  HistoryInv'
  BY <1>1, <1>9 DEF DeleteTemplate, RunScenario, history
<1>10. ASSUME NEW q \in Request, MetadataDone(q) \/ SaveDone(q) \/ Failed(q)
       PROVE  HistoryInv'
  <2>1. UNCHANGED history
    BY <1>10 DEF MetadataDone, SaveDone, Failed
  <2> QED BY <1>2, <2>1
<1>11. ASSUME NEW q \in Request, DeleteDone(q) \/ RunDone(q)
       PROVE  HistoryInv'
  BY <1>1, <1>11 DEF DeleteDone, RunDone
<1>12. ASSUME NEW q \in Request, ServerStep(q)
       PROVE  HistoryInv'
  BY <1>1, <1>12, ServerFrame
<1> QED BY <1>4, <1>5, <1>6, <1>7, <1>8, <1>9, <1>10, <1>11, <1>12, NextKinds

LEMMA IdentityStep ==
  ASSUME Core, Next
  PROVE  IdentityInv'
<1>1. IdentityInv /\ RequestInv /\ DOMAIN list \subseteq Name /\ \A t \in DOMAIN list : Sound(list[t])
  BY DEF Core, FieldInv, TemplatesSound
<1>2. CASE UNCHANGED <<identity, list>>
  BY <1>1, <1>2 DEF IdentityInv, identity
<1>3. CASE PageOnly
  BY <1>2, <1>3, PageOnlyFrame
<1>4. ASSUME NEW again, Restarted(again)
      PROVE  IdentityInv'
  <2>1. /\ name' = Unset /\ typed' = Unset /\ meta' = NoMeta /\ shared' = Unset /\ base' = base
    BY <1>4 DEF Restarted
  <2>2. NoMeta \in [Segment -> Class \cup {Unset}]
    BY DEF NoMeta
  <2> QED BY <1>1, <2>1, <2>2 DEF IdentityInv
<1>5. CASE Restart
  BY <1>4, <1>5 DEF Restart
<1>6. CASE LoadScenario
  <2>1. PICK t \in At(selected) : meta' = list[t].meta /\ shared' = t /\ name' = t /\ typed' = t
    BY <1>6, LoadScenarioStep DEF Core
  <2>2. t \in DOMAIN list
    BY DEF At
  <2>3. list[t].meta \in [Segment -> Class \cup {Unset}]
    BY <1>1, <2>2, TemplateFields DEF Sound
  <2>4. base' = base /\ list' = list
    BY <1>6 DEF LoadScenario
  <2> QED BY <1>1, <2>1, <2>2, <2>3, <2>4 DEF IdentityInv
<1>7. CASE Asking
  BY <1>1, <1>7 DEF Asking, IdentityInv, loadDialog
<1>8. ASSUME NEW s \in Segment, NEW c \in Class, MetaChange(s, c),
             UNCHANGED <<name, typed, shared, base>>
      PROVE  IdentityInv'
  <2>1. meta' \in [Segment -> Class \cup {Unset}] /\ DOMAIN list' = DOMAIN list
    BY <1>1, <1>8, MetaChangeFacts
  <2> QED BY <1>1, <1>8, <2>1 DEF IdentityInv
<1>9. ASSUME NEW q \in Request, NEW s \in Segment, NEW c \in Class, EditMetadata(q, s, c)
      PROVE  IdentityInv'
  <2>1. UNCHANGED <<name, typed, shared, base>>
    BY <1>9 DEF EditMetadata
  <2>2. CASE UNCHANGED <<meta, list>>
    BY <1>2, <2>1, <2>2 DEF identity
  <2> QED BY <1>8, <1>9, <2>1, <2>2, EditMetadataKinds
<1>10. ASSUME NEW q \in Request, MetadataDone(q)
       PROVE  IdentityInv'
  <2>1. UNCHANGED <<name, typed, shared, base>>
    BY <1>10 DEF MetadataDone
  <2> QED BY <1>1, <1>8, <1>10, <2>1, MetadataDoneKind
<1>11. ASSUME NEW q \in Request, Saving(q)
       PROVE  IdentityInv'
  <2>1. \A s \in Segment : ClassOf(s) \in Class
    BY <1>1 DEF ClassOf, IdentityInv
  <2>2. base' = base \/ base' = [s \in Segment |-> ClassOf(s)]
    BY <1>11 DEF Saving, SaveScenario
  <2>3. base' \in [Segment -> Class]
    BY <1>1, <2>1, <2>2 DEF IdentityInv
  <2>4. /\ typed' \in Name /\ name' = typed' /\ UNCHANGED <<meta, shared, list>>
    BY <1>11 DEF Saving, SaveScenario, loadDialog
  <2> QED BY <1>1, <2>3, <2>4 DEF IdentityInv
<1>12. ASSUME NEW q \in Request, DeleteTemplate(q) \/ RunScenario(q) \/ Failed(q) \/ ServerStep(q)
       PROVE  IdentityInv'
  <2>1. CASE DeleteTemplate(q) \/ RunScenario(q) \/ Failed(q)
    BY <1>2, <2>1 DEF DeleteTemplate, RunScenario, Failed, loadDialog
  <2>2. CASE ServerStep(q)
    BY <1>2, <2>2, ServerFrame DEF Core, FieldInv, loadDialog
  <2> QED BY <1>12, <2>1, <2>2
<1>13. ASSUME NEW q \in Request, SaveDone(q)
       PROVE  IdentityInv'
  <2>1. /\ DOMAIN list \subseteq DOMAIN list' /\ shared' \in {shared, Unset}
        /\ UNCHANGED <<name, typed, meta, base>>
    BY <1>13 DEF SaveDone, With
  <2> QED BY <1>1, <2>1 DEF IdentityInv
<1>14. ASSUME NEW q \in Request, DeleteDone(q) \/ RunDone(q)
       PROVE  IdentityInv'
  BY <1>4, <1>14 DEF DeleteDone, RunDone
<1> QED BY <1>3, <1>5, <1>6, <1>7, <1>9, <1>10, <1>11, <1>12, <1>13, <1>14, NextKinds

\* The segments of a group that the mouse or a timer is for are segments.
LEMMA SegsOfPointer ==
  ASSUME PageInv
  PROVE  /\ over # NoLabel => SegsOf(over) \subseteq Segment
         /\ current # NoLabel => SegsOf(current) \subseteq Segment
BY SegsOfType DEF PageInv, Pointers

LEMMA ScreenStep ==
  ASSUME Core, Next
  PROVE  ScreenInv'
<1> USE DEF ScreenInv
<1>1. ScreenInv /\ PageInv /\ GroupsOK /\ DOMAIN list \subseteq Name
  BY DEF Core, FieldInv, PageInv, TemplatesSound
<1>2. -1 \in -1..(Names - 1) /\ \A i \in 0..(Names - 1) : i \in -1..(Names - 1)
  BY ConstantsApart
<1>3. CASE UNCHANGED <<state, include, clicked, canSave, canRun, panel, choosing, rows, selected>>
           /\ open' \in {open, {}, {"delete"}, {"load"}, {"load", "template"},
                         {"restart"}, {"run"}, {"overwrite"}}
  BY <1>1, <1>3
<1>4. ASSUME NEW l \in Label, MouseEnterLabel(l)
      PROVE  ScreenInv'
  <2>1. l \in Labels
    BY <1>4 DEF MouseEnterLabel, Labels
  <2>2. SegsOf(l) \subseteq Segment
    BY <1>1, <2>1, SegsOfType
  <2> QED BY <1>1, <1>4, <2>2 DEF MouseEnterLabel, scenario, loadDialog, windows
<1>5. CASE MouseLeaveLabel
  BY <1>1, <1>5 DEF MouseLeaveLabel, scenario, loadDialog, windows
<1>6. ASSUME NEW l \in Label, AddGroup(l)
      PROVE  ScreenInv'
  BY <1>1, <1>6 DEF AddGroup, map, loadDialog, windows
<1>7. CASE AddRemove
  BY <1>1, <1>7, SegsOfPointer DEF AddRemove, loadDialog, windows
<1>8. CASE Done
  BY <1>1, <1>8 DEF Done, ViewGroups, map, loadDialog, windows
<1>9. CASE EditMode
  BY <1>1, <1>9 DEF EditMode, ViewGroups, map, loadDialog
<1>10. CASE DeleteGroup
  BY <1>3, <1>10 DEF DeleteGroup, map, loadDialog
<1>11. CASE ConfirmDelete
  BY <1>1, <1>11 DEF ConfirmDelete, loadDialog
<1>12. ASSUME NEW s \in Segment, ToggleInclude(s)
       PROVE  ScreenInv'
  BY <1>1, <1>12 DEF ToggleInclude, loadDialog, windows
<1>13. ASSUME NEW c \in Class, SaveValues(c)
       PROVE  ScreenInv'
  BY <1>1, <1>13 DEF SaveValues, map, loadDialog
<1>14. CASE CancelDialog
  BY <1>1, <1>14 DEF CancelDialog, ViewGroups, map, loadDialog
<1>15. CASE CloseDialog \/ OpenRestart \/ OpenRun
  BY <1>3, <1>15 DEF CloseDialog, OpenRestart, OpenRun, scenario, map, loadDialog
<1>16. CASE LoadANetwork
  BY <1>1, <1>16 DEF LoadANetwork, OpenNetwork, loadDialog
<1>17. CASE OpenLoad
  BY <1>1, <1>2, <1>17 DEF OpenLoad, scenario, map
<1>18. CASE TimerEnds
  <2>1. Head(timers) \in TimerSet
    BY <1>1, <1>18, TimerEndsStep
  <2>2. Head(timers).segs \subseteq Segment
        /\ (Head(timers).label # NoLabel => Head(timers).label \in Labels)
    BY <2>1 DEF TimerSet
  <2>3. Head(timers).label # NoLabel => SegsOf(Head(timers).label) \subseteq Segment
    BY <1>1, <2>2, SegsOfType
  <2>4. include' \subseteq Segment
    BY <1>1, <1>18, <2>2, <2>3 DEF TimerEnds
  <2> QED BY <1>1, <1>18, <2>4 DEF TimerEnds, scenario, loadDialog, windows
<1>19. ASSUME NEW index \in 0..(Names - 1), NEW ask \in BOOLEAN, Select(index, ask)
       PROVE  ScreenInv'
  BY <1>1, <1>2, <1>19 DEF Select, scenario, map
<1>20. ASSUME NEW again, Restarted(again)
       PROVE  /\ state' \in {"network", "view"} /\ include' \in {include, {}} /\ clicked' = clicked
              /\ canSave' = FALSE /\ canRun' = FALSE /\ panel' \in BOOLEAN /\ choosing' \in BOOLEAN
  BY <1>20 DEF Restarted, OpenNetwork
<1>21. CASE Restart
  BY <1>1, <1>20, <1>21 DEF Restart, loadDialog
<1>22. CASE LoadScenario
  BY <1>1, <1>2, <1>22 DEF LoadScenario
<1>23. CASE Asking
  BY <1>3, <1>23 DEF Asking, scenario, map, loadDialog
<1>24. ASSUME NEW q \in Request, NEW s \in Segment, NEW c \in Class, EditMetadata(q, s, c)
       PROVE  ScreenInv'
  BY <1>3, <1>24 DEF EditMetadata, scenario, map, windows
<1>25. ASSUME NEW q \in Request, Saving(q)
       PROVE  ScreenInv'
  BY <1>3, <1>25 DEF Saving, scenario, map, loadDialog
<1>26. ASSUME NEW q \in Request, DeleteTemplate(q) \/ RunScenario(q)
       PROVE  ScreenInv'
  BY <1>3, <1>26 DEF DeleteTemplate, RunScenario, scenario, map, loadDialog, windows
<1>27. ASSUME NEW q \in Request, MetadataDone(q)
       PROVE  ScreenInv'
  BY <1>3, <1>27 DEF MetadataDone, scenario, map, windows
<1>28. ASSUME NEW q \in Request, SaveDone(q)
       PROVE  ScreenInv'
  BY <1>1, <1>28 DEF SaveDone, ViewGroups, map, windows
<1>29. open \ {"template", "restart"} \in {open, {}, {"load"}}
       /\ open \ {"run", "restart"} \in {open, {}} /\ open \ {"run"} \in {open, {}}
       /\ open \ {"template"} \in {open, {"load"}} /\ open \ {} = open
  BY <1>1
<1>30. ASSUME NEW q \in Request, DeleteDone(q)
       PROVE  ScreenInv'
  <2>1. DOMAIN list' \subseteq Name
    BY <1>1, <1>30 DEF DeleteDone, Without
  <2>2. rows' = DOMAIN list' /\ selected' = -1 /\ Restarted(TRUE)
        /\ open' = open \ {"template", "restart"}
    BY <1>30 DEF DeleteDone
  <2>3. open' \in {open, {}, {"load"}}
    BY <1>29, <2>2
  <2> QED BY <1>1, <1>2, <1>20, <2>1, <2>2, <2>3
<1>31. ASSUME NEW q \in Request, RunDone(q)
       PROVE  ScreenInv'
  <2>1. Restarted(FALSE) /\ UNCHANGED loadDialog /\ open' \in {open, {}}
    BY <1>29, <1>31 DEF RunDone
  <2> QED BY <1>1, <1>20, <2>1 DEF loadDialog
<1>32. ASSUME NEW q \in Request, Failed(q)
       PROVE  ScreenInv'
  <2>1. open' \in {open, {}, {"load"}}
    BY <1>29, <1>32 DEF Failed
  <2> QED BY <1>3, <1>32, <2>1 DEF Failed, scenario, map, loadDialog
<1>33. ASSUME NEW q \in Request, ServerStep(q)
       PROVE  ScreenInv'
  BY <1>3, <1>33, ServerFrame DEF Core, FieldInv, scenario, map, loadDialog, windows
<1>34. CASE PageOnly
  BY <1>4, <1>5, <1>6, <1>7, <1>8, <1>9, <1>10, <1>11, <1>12, <1>13, <1>14, <1>15, <1>16, <1>17,
     <1>18, <1>19, <1>34 DEF PageOnly
<1> QED BY <1>21, <1>22, <1>23, <1>24, <1>25, <1>26, <1>27, <1>28, <1>30, <1>31, <1>32, <1>33,
           <1>34, NextKinds

-----------------------------------------------------------------------------
(* Type correctness, and what the groups and the templates are good for.   *)

LEMMA InitialSound ==
  ASSUME NEW t \in DOMAIN InitialTemplates
  PROVE  Sound(InitialTemplates[t])
BY TemplatesAssumption DEF Sound

LEMMA CoreInit ==
  ASSUME Init
  PROVE  Core /\ Removable
<1>1. <<>> \in Seq(Group) /\ <<>> \in Seq(TimerSet) /\ DOMAIN <<>> = {} /\ Len(<<>>) = 0
  OBVIOUS
<1>2. groups = <<>> /\ timers = <<>> /\ current = NoLabel /\ over = NoLabel /\ state = "view"
      /\ panel = TRUE /\ choosing = FALSE
  BY DEF Init
<1>3. 0 <= MaxTimers /\ 0 \in 0..MaxWork /\ -1 \in -1..(Names - 1)
  BY ConstantsApart
<1>4. GroupsOK /\ Pointers /\ Stage
  BY <1>1, <1>2, <1>3 DEF GroupsOK, Pointers, Stage
<1>5. ScreenInv
  BY <1>3 DEF Init, ScreenInv
<1>6. IdentityInv
  BY ConstantsApart DEF Init, IdentityInv, NoMeta
<1>7. RequestInv
  BY <1>3 DEF Init, RequestInv, NoCall, IsCall
<1>8. HistoryInv
  BY DEF Init, HistoryInv
<1>9. TemplatesSound
  BY TemplatesAssumption, InitialSound DEF Init, TemplatesSound, NoCall
<1>10. Removable
  BY <1>2 DEF Removable
<1> QED BY <1>4, <1>5, <1>6, <1>7, <1>8, <1>9, <1>10 DEF Core, FieldInv, PageInv

LEMMA CoreStutter ==
  ASSUME Core, Removable, UNCHANGED vars
  PROVE  Core' /\ Removable'
<1>1. UNCHANGED <<state, groups, current, include, clicked, over, timers, canSave, canRun, name,
                  typed, meta, shared, base, list, rows, selected, open, panel, choosing, server,
                  pc, call, work, raced, muddled, crossed>>
  BY DEF vars, scenario, map, identity, loadDialog, windows, requests, history
<1>2. Quietly
  BY <1>1 DEF Quietly, Core, PageInv, Stage
<1>3. PageInv' /\ Removable'
  BY <1>2, QuietlyStep DEF Core
<1>4. ScreenInv' /\ IdentityInv' /\ HistoryInv'
  BY <1>1 DEF Core, FieldInv, ScreenInv, IdentityInv, HistoryInv
<1>5. RequestInv'
  BY <1>1 DEF Core, FieldInv, RequestInv, IsCall, IsTemplate
<1>6. TemplatesSound'
  BY <1>1 DEF Core, TemplatesSound, Sound, IsTemplate
<1> QED BY <1>3, <1>4, <1>5, <1>6 DEF Core, FieldInv

LEMMA CoreStep ==
  ASSUME Core, Removable, [Next]_vars
  PROVE  Core' /\ Removable'
<1>1. CASE Next
  BY <1>1, PageStep, RequestStep, TemplatesStep, HistoryStep, IdentityStep, ScreenStep
     DEF Core, FieldInv
<1>2. CASE UNCHANGED vars
  BY <1>2, CoreStutter
<1> QED BY <1>1, <1>2

\* In every reachable state the groups, what points at them, the stage of the page and its
\* templates are sound, and each segment of a group in work can be taken out again.
THEOREM CoreInvariant == Spec => [](Core /\ Removable)
<1>1. Init => Core /\ Removable
  BY CoreInit
<1>2. (Core /\ Removable) /\ [Next]_vars => (Core /\ Removable)'
  BY CoreStep
<1> QED BY <1>1, <1>2, PTL DEF Spec

LEMMA CoreTyped == Core => TypeOK
<1> SUFFICES ASSUME Core PROVE TypeOK
  OBVIOUS
<1>1. ScreenInv /\ IdentityInv /\ RequestInv /\ HistoryInv /\ TemplatesSound
      /\ GroupsOK /\ Pointers /\ Stage
  BY DEF Core, FieldInv, PageInv
<1>2. \A i \in DOMAIN groups : groups[i] \in Group /\ groups[i].index = i - 1
  BY <1>1, GroupFields DEF GroupsOK
<1>3. \A i, j \in DOMAIN groups : groups[i].label = groups[j].label => i = j
  BY <1>1 DEF GroupsOK
<1>4. /\ current = NoLabel \/ \E i \in DOMAIN groups : groups[i].label = current
      /\ over = NoLabel \/ \E i \in DOMAIN groups : groups[i].label = over
      /\ state = "add" => current # NoLabel
  BY <1>1 DEF Pointers, Labels, Stage
<1>5. Len(timers) <= MaxTimers /\ \A i \in DOMAIN timers :
         timers[i].label \in Label \cup {NoLabel} /\ timers[i].segs \subseteq Segment
  <2>1. timers \in Seq(TimerSet) /\ Len(timers) <= MaxTimers
    BY <1>1 DEF Pointers
  <2>2. ASSUME NEW i \in DOMAIN timers PROVE timers[i] \in TimerSet
    BY <2>1
  <2> QED BY <1>1, <2>1, <2>2, LabelsAreLabels DEF TimerSet
<1>6. /\ state \in {"network", "view", "add", "edit"} /\ include \subseteq Segment
      /\ {clicked, canSave, canRun, panel, choosing, raced, muddled, crossed} \subseteq BOOLEAN
      /\ rows \subseteq Name /\ selected \in -1..(Names - 1)
      /\ open \in {{}, {"values"}, {"delete"}, {"load"}, {"load", "template"},
                   {"restart"}, {"run"}, {"overwrite"}}
  BY <1>1 DEF ScreenInv, HistoryInv
<1>7. /\ {name, typed, shared} \subseteq Name \cup {Unset}
      /\ shared # Unset => shared \in DOMAIN list
      /\ meta \in [Segment -> Class \cup {Unset}] /\ base \in [Segment -> Class]
  BY <1>1 DEF IdentityInv
<1>8. /\ DOMAIN list \subseteq Name /\ \A t \in DOMAIN list : IsTemplate(list[t])
      /\ DOMAIN server \subseteq Name /\ \A t \in DOMAIN server : IsTemplate(server[t])
  BY <1>1 DEF TemplatesSound, Sound
<1>9. /\ pc \in [Request -> {"free", "sent", "done", "failed"}]
      /\ \A q \in Request : IsCall(call[q])
      /\ work \in 0..MaxWork
  BY <1>1 DEF RequestInv
<1> QED BY <1>2, <1>3, <1>4, <1>5, <1>6, <1>7, <1>8, <1>9 DEF TypeOK

\* The fields of the page, its requests and the templates hold what they are meant to; labels
\* of groups are unique, indices are positions, and the group in work, the one under the mouse
\* and those of the timers are there.
THEOREM PageTypeCorrect == Spec => []TypeOK
BY CoreInvariant, CoreTyped, PTL

\* While a group is in work each of its segments is flagged on the map, so that a click takes
\* it out: no timer, mouse movement or answer leaves a segment behind that cannot be removed.
THEOREM SegmentsRemovable == Spec => []Removable
BY CoreInvariant, PTL

\* No template on the server has a group without values.
THEOREM TemplatesHaveValues == Spec => []ValuesSet
<1>1. Core => ValuesSet
  BY DEF Core, TemplatesSound, Sound, ValuesSet
<1> QED BY <1>1, CoreInvariant, PTL

-----------------------------------------------------------------------------
(* Lanes and speed limits.                                                 *)

\* While new lanes of a segment are on the way no dialog is open, the segment is in no group
\* and, unless requests crossed, in no group of the template the page's metadata came from.
Pending(s) ==
  /\ open = {} /\ ~IsSegmentInGroup(s)
  /\ ~crossed /\ shared # Unset => ~Holds(list[shared], s)

SharedMeta == shared # Unset => list[shared].meta = meta
PendingMeta == \A q \in Request : call[q].op = "metadata" => Pending(call[q].seg)
MetaInv == SharedMeta /\ PendingMeta

\* Nothing but the mouse and timers gets past the overlay.
LEMMA OverlayStep ==
  ASSUME Core, PendingMeta, NEW q \in Request, call[q].op = "metadata"
  PROVE  /\ open = {} /\ ~Free /\ pc[q] # "free"
         /\ PageOnly => UNCHANGED <<groups, open>>
         /\ ~Restart /\ ~LoadScenario /\ ~Asking
<1>1. open = {} /\ pc[q] # "free"
  BY DEF PendingMeta, Pending, Core, FieldInv, RequestInv
<1>2. ~Free
  BY <1>1 DEF Free, InFlight
<1>3. ASSUME PageOnly PROVE MouseLeaveLabel \/ TimerEnds
  <2>1. ~AtPanel
    BY <1>2 DEF AtPanel
  <2>2. \A l : ~MouseEnterLabel(l) /\ ~AddGroup(l)
    BY <2>1 DEF MouseEnterLabel, AddGroup
  <2>3. ~AddRemove /\ ~Done /\ ~EditMode /\ ~DeleteGroup
    BY <2>1 DEF AddRemove, Done, EditMode, DeleteGroup
  <2>4. ~ConfirmDelete /\ \A c : ~SaveValues(c)
    BY <1>1 DEF ConfirmDelete, SaveValues
  <2>5. \A s : ~ToggleInclude(s)
    BY <1>2 DEF ToggleInclude
  <2>6. ~CancelDialog /\ ~CloseDialog
    BY <1>1 DEF CancelDialog, CloseDialog
  <2>7. ~OpenRestart /\ ~OpenLoad /\ ~OpenRun
    BY <2>1 DEF OpenRestart, OpenLoad, OpenRun
  <2>8. ~LoadANetwork /\ \A i, a : ~Select(i, a)
    BY <1>1, <1>2 DEF LoadANetwork, Select
  <2> QED BY <1>3, <2>2, <2>3, <2>4, <2>5, <2>6, <2>7, <2>8 DEF PageOnly
<1>4. PageOnly => UNCHANGED <<groups, open>>
  BY <1>3 DEF MouseLeaveLabel, TimerEnds, scenario, windows
<1>5. ~Restart /\ ~LoadScenario /\ ~Asking
  BY <1>1, <1>2 DEF Restart, LoadScenario, Asking, AtPanel
<1> QED BY <1>1, <1>2, <1>4, <1>5

LEMMA PendingKeeps ==
  ASSUME PendingMeta, NEW q \in Request, call[q].op = "metadata", NEW s, s = call[q].seg,
         open' \subseteq open, IsSegmentInGroup(s)' => IsSegmentInGroup(s),
         crossed => crossed',
         shared' = Unset \/ (shared' = shared /\ (Holds(list[shared], s)' => Holds(list[shared], s)))
  PROVE  Pending(s)'
<1>1. Pending(s)
  BY DEF PendingMeta
<1>2. open' = {} /\ ~IsSegmentInGroup(s)'
  BY <1>1 DEF Pending
<1>3. ~crossed' /\ shared' # Unset => ~Holds(list[shared], s)'
  BY <1>1 DEF Pending
<1> QED BY <1>2, <1>3 DEF Pending

LEMMA SameInGroup ==
  ASSUME GroupsOK, Revalued, NEW s
  PROVE  IsSegmentInGroup(s)' <=> IsSegmentInGroup(s)
BY DEF IsSegmentInGroup, Revalued

LEMMA SameHolds ==
  ASSUME NEW s, shared' = shared, list'[shared].groups = list[shared].groups
  PROVE  Holds(list[shared], s)' <=> Holds(list[shared], s)
BY DEF Holds

LEMMA SharedMetaStep ==
  ASSUME Core, SharedMeta, Next
  PROVE  SharedMeta'
<1>1. IdentityInv /\ RequestInv /\ \A t \in DOMAIN list : Sound(list[t])
  BY DEF Core, FieldInv, TemplatesSound
<1>2. CASE UNCHANGED <<meta, shared, list>>
  BY <1>2 DEF SharedMeta
<1>3. CASE PageOnly \/ Asking
  BY <1>2, <1>3, PageOnlyFrame DEF Asking, identity, loadDialog
<1>4. ASSUME NEW again, Restarted(again)
      PROVE  SharedMeta'
  BY <1>4 DEF Restarted, SharedMeta
<1>5. CASE LoadScenario
  <2>1. \E t : meta' = list[t].meta /\ shared' = t
    BY <1>5, LoadScenarioStep DEF Core
  <2> QED BY <1>5, <2>1 DEF LoadScenario, SharedMeta
<1>6. ASSUME NEW s \in Segment, NEW c \in Class, MetaChange(s, c), shared' = shared
      PROVE  SharedMeta'
  BY <1>1, <1>6, MetaChangeFacts DEF SharedMeta
<1>7. ASSUME NEW q \in Request, NEW s \in Segment, NEW c \in Class, EditMetadata(q, s, c)
      PROVE  SharedMeta'
  BY <1>2, <1>6, <1>7, EditMetadataKinds
<1>8. ASSUME NEW q \in Request, MetadataDone(q)
      PROVE  SharedMeta'
  BY <1>1, <1>6, <1>8, MetadataDoneKind
<1>9. ASSUME NEW q \in Request,
             Saving(q) \/ DeleteTemplate(q) \/ RunScenario(q) \/ Failed(q)
      PROVE  SharedMeta'
  BY <1>2, <1>9 DEF Saving, DeleteTemplate, RunScenario, Failed, identity, loadDialog
<1>10. ASSUME NEW q \in Request, SaveDone(q)
       PROVE  SharedMeta'
  <2>1. /\ list' = With(list, call[q].name, call[q].template) /\ meta' = meta
        /\ shared' = IF shared = call[q].name THEN Unset ELSE shared
    BY <1>10 DEF SaveDone
  <2> DEFINE n == call[q].name
             v == call[q].template
  <2>2. \A u \in DOMAIN list : u # n => list'[u] = list[u]
    BY <2>1 DEF With
  <2>3. shared' # Unset => shared' = shared /\ shared # n /\ shared \in DOMAIN list
    BY <1>1, <2>1 DEF IdentityInv
  <2> QED BY <2>1, <2>2, <2>3 DEF SharedMeta
<1>11. ASSUME NEW q \in Request, ServerStep(q)
       PROVE  SharedMeta'
  BY <1>2, <1>11, ServerFrame DEF Core, FieldInv, identity, loadDialog
<1> QED BY <1>3, <1>4, <1>5, <1>7, <1>8, <1>9, <1>10, <1>11, NextKinds
        DEF Restart, DeleteDone, RunDone

LEMMA PendingMetaStep ==
  ASSUME Core, MetaInv, Next
  PROVE  PendingMeta'
<1>1. /\ IdentityInv /\ RequestInv /\ \A t \in DOMAIN list : Sound(list[t])
      /\ GroupsOK /\ SharedMeta /\ PendingMeta /\ PageInv /\ HistoryInv
  BY DEF Core, FieldInv, PageInv, TemplatesSound, MetaInv
<1> SUFFICES ASSUME NEW r \in Request, call'[r].op = "metadata", NEW s, s = call'[r].seg
             PROVE  Pending(s)'
  BY DEF PendingMeta, Pending, IsSegmentInGroup, Holds
\* What happens to a request that goes on.
<1>2. ASSUME call'[r] = call[r], open' \subseteq open, IsSegmentInGroup(s)' => IsSegmentInGroup(s),
             crossed => crossed',
             \/ shared' = Unset
             \/ shared' = shared /\ (Holds(list[shared], s)' => Holds(list[shared], s))
      PROVE  Pending(s)'
  BY <1>1, <1>2, PendingKeeps
<1>3. call'[r] = call[r] => /\ open = {} /\ ~Free /\ pc[r] # "free"
                            /\ PageOnly => UNCHANGED <<groups, open>>
                            /\ ~Restart /\ ~LoadScenario /\ ~Asking
  BY <1>1, OverlayStep
<1>4. groups' = groups => (IsSegmentInGroup(s)' => IsSegmentInGroup(s))
  BY DEF IsSegmentInGroup
<1>5. shared' = shared /\ list' = list => (Holds(list[shared], s)' => Holds(list[shared], s))
  BY DEF Holds
<1>6. CASE PageOnly
  <2>1. UNCHANGED <<shared, list, call, crossed>>
    BY <1>6, PageOnlyFrame DEF identity, requests
  <2> QED BY <1>2, <1>3, <1>4, <1>5, <1>6, <2>1
<1>7. CASE Restart \/ LoadScenario \/ Asking
  <2>1. call' = call
    BY <1>7 DEF Restart, LoadScenario, Asking, requests
  <2> QED BY <1>3, <1>7, <2>1
<1>8. ASSUME NEW q \in Request, NEW c, Send(q, c), c.op # "metadata"
      PROVE  call'[r] = call[r]
  BY <1>1, <1>8, SendFacts
<1>9. ASSUME NEW u \in Segment, NEW c \in Class, MetaChange(u, c), shared' = shared
      PROVE  Holds(list[shared], s)' => Holds(list[shared], s)
  <2>1. CASE shared = Unset
    <3>1. list' = list
      BY <1>9, <2>1 DEF MetaChange
    <3> QED BY <1>5, <1>9, <3>1
  <2>2. CASE shared # Unset
    <3>1. shared \in DOMAIN list
      BY <1>1, <2>2 DEF IdentityInv
    <3>2. list'[shared].groups = list[shared].groups
      BY <1>1, <1>9, <3>1, MetaChangeFacts
    <3> QED BY <1>9, <3>2, SameHolds
  <2> QED BY <2>1, <2>2
<1>10. ASSUME NEW q \in Request, NEW u \in Segment, NEW c \in Class, EditMetadata(q, u, c)
       PROVE  Pending(s)'
  <2> DEFINE d == [op |-> "metadata", name |-> name, seg |-> u, class |-> c]
  <2>1. /\ Free /\ ~IsSegmentInGroup(u)
        /\ UNCHANGED <<groups, shared, open>>
    BY <1>10, EditMetadataKinds DEF scenario, windows
  <2>2. CASE MetaChange(u, c) /\ UNCHANGED requests
    BY <1>3, <2>1, <2>2 DEF requests
  <2>3. CASE Send(q, d) /\ UNCHANGED <<meta, list>>
    <3>1. call'[q] = d /\ \A p \in Request : p # q => call'[p] = call[p]
      BY <1>1, <2>3, SendFacts
    <3>2. d.seg = u
      OBVIOUS
    <3> HIDE DEF d
    <3>3. CASE r = q
      <4>1. s = u
        BY <3>1, <3>2, <3>3
      <4>2. open' = {} /\ ~IsSegmentInGroup(s)'
        BY <1>4, <2>1, <4>1 DEF Free
      <4>3. ASSUME ~crossed', shared' # Unset PROVE ~Holds(list[shared], s)'
        <5>1. \A t \in DOMAIN list : ~Holds(list[t], u)
          BY <1>10, <4>3 DEF EditMetadata
        <5>2. shared \in DOMAIN list
          BY <1>1, <2>1, <4>3 DEF IdentityInv
        <5> QED BY <1>5, <2>1, <2>3, <4>1, <5>1, <5>2
      <4> QED BY <4>2, <4>3 DEF Pending
    <3>4. CASE r # q
      BY <1>3, <2>1, <3>1, <3>4
    <3> QED BY <3>3, <3>4
  <2> QED BY <1>10, <2>2, <2>3, EditMetadataKinds
<1>11. ASSUME NEW q \in Request, Saving(q)
       PROVE  Pending(s)'
  <2> DEFINE c == [op |-> "save", name |-> typed', template |-> [groups |-> Content, meta |-> meta]]
  <2>1. Send(q, c) /\ c.op # "metadata"
    BY <1>11, SavingFacts
  <2> HIDE DEF c
  <2>2. call'[r] = call[r]
    BY <1>1, <2>1, SendFacts
  <2>3. open' \subseteq open /\ UNCHANGED <<groups, shared, list>> /\ (crossed => crossed')
    BY <1>11 DEF Saving, SaveScenario, scenario, loadDialog
  <2> QED BY <1>2, <1>4, <1>5, <2>2, <2>3
<1>12. ASSUME NEW q \in Request, DeleteTemplate(q) \/ RunScenario(q)
       PROVE  Pending(s)'
  <2>1. call'[r] = call[r]
    <3>1. CASE DeleteTemplate(q)
      <4>1. PICK t : Send(q, [op |-> "delete", name |-> t])
        BY <3>1 DEF DeleteTemplate
      <4> QED BY <1>8, <4>1
    <3>2. CASE RunScenario(q)
      BY <1>8, <3>2 DEF RunScenario
    <3> QED BY <1>12, <3>1, <3>2
  <2>2. open # {}
    BY <1>12 DEF DeleteTemplate, RunScenario
  <2> QED BY <1>3, <2>1, <2>2
<1>13. ASSUME NEW q \in Request, NEW op, NEW phase, Take(q, op, phase)
       PROVE  call'[r] = call[r]
  BY <1>1, <1>13, TakeFacts
<1>14. ASSUME NEW q \in Request, MetadataDone(q)
       PROVE  Pending(s)'
  <2>1. /\ call[q].seg \in Segment /\ call[q].class \in Class
        /\ MetaChange(call[q].seg, call[q].class) /\ Take(q, "metadata", "done")
        /\ UNCHANGED <<groups, shared, open, crossed>>
    BY <1>1, <1>14, MetadataDoneKind DEF scenario, windows, history
  <2>2. call'[r] = call[r]
    BY <1>13, <2>1
  <2>3. Holds(list[shared], s)' => Holds(list[shared], s)
    BY <1>9, <2>1
  <2> QED BY <1>2, <1>4, <2>1, <2>2, <2>3
<1>15. ASSUME NEW q \in Request, SaveDone(q)
       PROVE  Pending(s)'
  <2>1. /\ Take(q, "save", "done") /\ ViewGroups
        /\ list' = With(list, call[q].name, call[q].template)
        /\ shared' = IF shared = call[q].name THEN Unset ELSE shared
        /\ UNCHANGED <<open, crossed>>
    BY <1>15 DEF SaveDone, windows, history
  <2>2. call'[r] = call[r]
    BY <1>13, <2>1
  <2>3. Revalued
    BY <1>1, <2>1, ViewStep
  <2>4. IsSegmentInGroup(s)' => IsSegmentInGroup(s)
    BY <1>1, <2>3, SameInGroup
  <2>5. CASE shared' # Unset
    <3>1. shared' = shared /\ shared # call[q].name /\ shared \in DOMAIN list
      BY <1>1, <2>1, <2>5 DEF IdentityInv
    <3>2. list'[shared] = list[shared]
      BY <2>1, <3>1 DEF With
    <3>3. Holds(list[shared], s)' => Holds(list[shared], s)
      BY <3>1, <3>2, SameHolds
    <3> QED BY <1>2, <2>1, <2>2, <2>4, <3>1, <3>3
  <2> QED BY <1>2, <2>1, <2>2, <2>4, <2>5
<1>16. ASSUME NEW q \in Request, DeleteDone(q) \/ RunDone(q)
       PROVE  Pending(s)'
  <2>1. /\ \E op, phase : Take(q, op, phase)
        /\ \E again : Restarted(again)
        /\ open' \subseteq open /\ crossed' = crossed
    BY <1>16 DEF DeleteDone, RunDone
  <2>2. call'[r] = call[r]
    BY <1>13, <2>1
  <2>3. groups' = <<>> /\ shared' = Unset
    BY <2>1 DEF Restarted
  <2>4. ~IsSegmentInGroup(s)'
    BY <2>3 DEF IsSegmentInGroup
  <2> QED BY <1>2, <2>1, <2>2, <2>3, <2>4
<1>17. ASSUME NEW q \in Request, Failed(q)
       PROVE  Pending(s)'
  <2>1. /\ \E op, phase : Take(q, op, phase)
        /\ open' \subseteq open /\ UNCHANGED <<groups, shared, list, crossed>>
    BY <1>17 DEF Failed, scenario, identity, loadDialog, history
  <2>2. call'[r] = call[r]
    BY <1>13, <2>1
  <2> QED BY <1>2, <1>4, <1>5, <2>1, <2>2
<1>18. ASSUME NEW q \in Request, ServerStep(q)
       PROVE  Pending(s)'
  <2>1. UNCHANGED <<groups, shared, list, open, call, crossed>>
    BY <1>1, <1>18, ServerFrame DEF scenario, identity, loadDialog, windows
  <2> QED BY <1>2, <1>4, <1>5, <2>1
<1> QED BY <1>6, <1>7, <1>10, <1>11, <1>12, <1>14, <1>15, <1>16, <1>17, <1>18, NextKinds

\* Unless requests crossed, the segments of a group are of one class: in the page, in its
\* templates and in those on their way to the server.
Kind(m, b, s) == IF m[s] # Unset THEN m[s] ELSE b[s]
OfOneClass(t) ==
  \A i \in DOMAIN t.groups : \A s, u \in t.groups[i].segs : Kind(t.meta, base, s) = Kind(t.meta, base, u)

GroupClass == \A i \in DOMAIN groups : \A s \in groups[i].segs : ClassOf(s) = groups[i].class
ListClass == \A t \in DOMAIN list : OfOneClass(list[t])
CallClass == \A q \in Request : call[q].op = "save" => OfOneClass(call[q].template)
ClassInv == ~crossed => GroupClass /\ ListClass /\ CallClass

LEMMA RevaluedClass ==
  ASSUME GroupsOK, Revalued, UNCHANGED <<meta, base>>, GroupClass
  PROVE  GroupClass'
BY DEF GroupClass, Revalued, ClassOf

LEMMA ToggleClass ==
  ASSUME Core, GroupClass, NEW s \in Segment, ToggleInclude(s)
  PROVE  GroupClass'
<1> DEFINE k == Position(current)
<1>1. PageInv /\ GroupsOK /\ ClassOf(s) \in Class
  BY DEF Core, PageInv, FieldInv, IdentityInv, ClassOf
<1>2. /\ current \in Labels /\ k \in DOMAIN groups /\ DOMAIN groups' = DOMAIN groups
      /\ groups'[k] = Toggled(groups[k], s)
      /\ \A i \in DOMAIN groups : i # k => groups'[i] = groups[i]
  BY <1>1, ToggleChange
<1>3. groups[k] \in Group /\ (groups[k].class = Unset <=> groups[k].segs = {})
  BY <1>1, <1>2, GroupFields DEF GroupsOK
<1> DEFINE r == Toggled(groups[k], s)
<1>4. /\ r.segs = IF s \in include THEN groups[k].segs \ {s} ELSE groups[k].segs \cup {s}
      /\ s \notin include /\ groups[k].segs = {} => r.class = ClassOf(s)
      /\ s \in include /\ r.segs # {} => r.class = groups[k].class
      /\ r.segs # {} => r.class \in {groups[k].class, ClassOf(s)}
  BY <1>1, <1>3, ConstantsApart, ToggledGroup
<1>5. groups[k].segs = {} \/ groups[k].class = ClassOf(s)
  BY DEF ToggleInclude
<1>6. \A u \in groups[k].segs : ClassOf(u) = groups[k].class
  BY <1>2 DEF GroupClass
<1>7. meta' = meta /\ base' = base
  BY DEF ToggleInclude, identity
<1>8. \A u : ClassOf(u)' = ClassOf(u)
  BY <1>7 DEF ClassOf
<1> HIDE DEF r, k
<1>9. \A u \in r.segs : ClassOf(u) = r.class
  <2>1. CASE s \in include
    BY <1>4, <1>6, <2>1
  <2>2. CASE s \notin include
    BY <1>4, <1>5, <1>6, <2>2
  <2> QED BY <2>1, <2>2
<1>10. ASSUME NEW i \in DOMAIN groups', NEW u \in groups'[i].segs
       PROVE  ClassOf(u) = groups'[i].class
  <2>1. CASE i = k
    BY <1>2, <1>9, <1>10, <2>1 DEF r
  <2>2. CASE i # k
    BY <1>2, <1>10, <2>2 DEF GroupClass
  <2> QED BY <2>1, <2>2
<1> QED BY <1>8, <1>10 DEF GroupClass

LEMMA PageOnlyClass ==
  ASSUME Core, GroupClass, PageOnly
  PROVE  GroupClass'
<1>1. PageInv /\ GroupsOK
  BY DEF Core, PageInv
<1>2. UNCHANGED <<meta, base>>
  BY PageOnlyFrame DEF identity
<1>3. CASE Revalued
  BY <1>1, <1>2, <1>3, RevaluedClass
<1>4. CASE groups' = groups
  BY <1>1, <1>3, <1>4, SameRevalued
<1>5. ASSUME NEW l \in Label, MouseEnterLabel(l)
      PROVE  GroupClass'
  BY <1>4, <1>5 DEF MouseEnterLabel, scenario
<1>6. CASE MouseLeaveLabel \/ AddRemove \/ DeleteGroup \/ CloseDialog \/ OpenRestart
           \/ LoadANetwork \/ OpenLoad \/ OpenRun \/ TimerEnds
  <2>1. groups' = groups
    BY <1>6 DEF MouseLeaveLabel, AddRemove, DeleteGroup, CloseDialog, OpenRestart, LoadANetwork,
         OpenLoad, OpenRun, TimerEnds, scenario
  <2> QED BY <1>4, <2>1
<1>7. CASE Done \/ CancelDialog
  BY <1>1, <1>3, <1>7, ViewStep DEF Done, CancelDialog
<1>8. CASE EditMode
  BY <1>1, <1>4, <1>8, EditModeStep
<1>9. ASSUME NEW c \in Class, SaveValues(c)
      PROVE  GroupClass'
  BY <1>1, <1>3, <1>9, SaveValuesStep
<1>10. ASSUME NEW index, NEW ask, Select(index, ask)
       PROVE  GroupClass'
  BY <1>4, <1>10 DEF Select, scenario
<1>11. ASSUME NEW s \in Segment, ToggleInclude(s)
       PROVE  GroupClass'
  BY <1>11, ToggleClass
<1>12. ASSUME NEW l \in Label, AddGroup(l)
       PROVE  GroupClass'
  <2> DEFINE g == [label |-> l, index |-> Len(groups), segs |-> {}, class |-> Unset,
                   value |-> Unset]
  <2>1. groups' = Append(groups, g) /\ groups \in Seq(Group) /\ g.segs = {}
    BY <1>1, <1>12 DEF AddGroup, GroupsOK
  <2>2. g \in Group
    BY <1>1, <1>12 DEF Group, GroupsOK
  <2> HIDE DEF g
  <2>3. Len(groups') = Len(groups) + 1 /\ groups'[Len(groups) + 1] = g /\ groups' \in Seq(Group)
        /\ \A i \in 1..Len(groups) : groups'[i] = groups[i]
    BY <2>1, <2>2, AppendProperties
  <2>4. \A i \in DOMAIN groups' : i \in DOMAIN groups \/ i = Len(groups) + 1
    BY <2>1, <2>3
  <2>5. DOMAIN groups = 1..Len(groups)
    BY <2>1
  <2> QED BY <1>2, <2>1, <2>3, <2>4, <2>5 DEF GroupClass, ClassOf
<1>13. CASE ConfirmDelete
  <2>1. current \in Labels /\ groups' = Spliced(Position(current))
    BY <1>1, <1>13, ConfirmDeleteGroups
  <2>2. Position(current) \in DOMAIN groups
    BY <1>1, <2>1, PositionOf
  <2>3. \A j \in DOMAIN groups' : \E i \in DOMAIN groups :
           groups'[j].segs = groups[i].segs /\ groups'[j].class = groups[i].class
    BY <1>1, <2>1, <2>2, SplicedGroups
  <2> QED BY <1>2, <2>3 DEF GroupClass, ClassOf
<1> QED BY <1>5, <1>6, <1>7, <1>8, <1>9, <1>10, <1>11, <1>12, <1>13 DEF PageOnly

\* New lanes of a segment that is in no group do no harm.
LEMMA MetaChangeClass ==
  ASSUME Core, SharedMeta, GroupClass, ListClass, NEW u \in Segment, NEW c \in Class,
         MetaChange(u, c), ~IsSegmentInGroup(u), shared # Unset => ~Holds(list[shared], u),
         UNCHANGED <<groups, base>>
  PROVE  GroupClass' /\ ListClass'
<1>1. IdentityInv /\ (\A t \in DOMAIN list : Sound(list[t])) /\ GroupsOK
  BY DEF Core, FieldInv, TemplatesSound, PageInv
<1>2. /\ \A s \in Segment : s # u => meta'[s] = meta[s]
      /\ DOMAIN list' = DOMAIN list
      /\ \A t \in DOMAIN list : /\ list'[t].groups = list[t].groups
                                /\ t # shared => list'[t] = list[t]
      /\ shared # Unset => shared \in DOMAIN list /\ list'[shared].meta = meta'
  BY <1>1, MetaChangeFacts
<1>3. GroupClass'
  <2>1. \A i \in DOMAIN groups : \A s \in groups[i].segs : s # u /\ s \in Segment
    BY <1>1, GroupFields DEF IsSegmentInGroup
  <2> QED BY <1>2, <2>1 DEF GroupClass, ClassOf
<1>4. ASSUME NEW t \in DOMAIN list
      PROVE  OfOneClass(list[t])'
  <2>1. OfOneClass(list[t])
    BY DEF ListClass
  <2>2. CASE t # shared
    BY <1>2, <2>1, <2>2 DEF OfOneClass
  <2>3. CASE t = shared
    <3>0. shared # Unset
      BY <1>1, <2>3, ConstantsApart DEF Core, TemplatesSound
    <3>1. list[t].meta = meta /\ list'[t].meta = meta' /\ list'[t].groups = list[t].groups
      BY <1>2, <2>3, <3>0 DEF SharedMeta
    <3>2. Sound(list[t])
      BY <1>1
    <3>3. \A i \in DOMAIN list[t].groups : \A s \in list[t].groups[i].segs : s # u /\ s \in Segment
      BY <2>3, <3>0, <3>2, TemplateFields DEF Holds, Sound
    <3>4. \A i \in DOMAIN list[t].groups : \A s \in list[t].groups[i].segs :
             Kind(meta', base, s) = Kind(meta, base, s)
      BY <1>2, <3>3 DEF Kind
    <3>5. \A i \in DOMAIN list[t].groups : \A s, v \in list[t].groups[i].segs :
             Kind(meta, base, s) = Kind(meta, base, v)
      BY <2>1, <3>1 DEF OfOneClass
    <3>6. \A i \in DOMAIN list[t].groups : \A s, v \in list[t].groups[i].segs :
             Kind(meta', base, s) = Kind(meta', base, v)
      BY <3>4, <3>5
    <3> QED BY <3>1, <3>6 DEF OfOneClass
  <2> QED BY <2>2, <2>3
<1> QED BY <1>2, <1>3, <1>4 DEF ListClass

\* Lanes that are saved with a scenario become those of the features.
LEMMA SavingClass ==
  ASSUME Core, GroupClass, ListClass, CallClass, NEW q \in Request, Saving(q), ~crossed'
  PROVE  GroupClass' /\ ListClass' /\ CallClass'
<1>1. /\ IdentityInv /\ RequestInv /\ GroupsOK /\ DOMAIN list \subseteq Name
      /\ \A t \in DOMAIN list : Sound(list[t])
      /\ \A r \in Request : call[r].op = "save" => Sound(call[r].template) /\ pc[r] # "free"
  BY DEF Core, FieldInv, TemplatesSound, PageInv, RequestInv
<1> DEFINE t == [groups |-> Content, meta |-> meta]
           c == [op |-> "save", name |-> typed', template |-> t]
<1>2. Send(q, c) /\ c.op = "save" /\ c.template = t /\ t.groups = Content /\ t.meta = meta
  BY SavingFacts
<1> HIDE DEF c, t
<1>3. /\ call'[q] = c /\ \A r \in Request : r # q => call'[r] = call[r]
  BY <1>1, <1>2, SendFacts
<1>4. UNCHANGED <<groups, meta, list>>
  BY DEF Saving, scenario, loadDialog
<1>5. PICK commit \in BOOLEAN : SaveScenario(q, commit)
  BY DEF Saving
<1>6. base' = base \/ base' = [s \in Segment |-> ClassOf(s)]
  BY <1>5 DEF SaveScenario
<1>7. \A s \in Segment : Kind(meta, base', s) = ClassOf(s)
  BY <1>1, <1>6 DEF Kind, ClassOf, IdentityInv
<1>8. \A s \in Segment : base'[s] # base[s] =>
        /\ \A u \in DOMAIN list : ~Holds(list[u], s)
        /\ \A r \in InFlight({"save"}) : ~Holds(call[r].template, s)
  BY <1>5 DEF SaveScenario
<1>9. ASSUME NEW w, Sound(w), OfOneClass(w), \A s \in Segment : base'[s] # base[s] => ~Holds(w, s)
      PROVE  \A i \in DOMAIN w.groups : \A s, v \in w.groups[i].segs :
                Kind(w.meta, base', s) = Kind(w.meta, base', v)
  <2>1. \A i \in DOMAIN w.groups : \A s \in w.groups[i].segs : s \in Segment
    BY <1>9, TemplateFields DEF Sound
  <2>2. \A i \in DOMAIN w.groups : \A s \in w.groups[i].segs : base'[s] = base[s]
    BY <1>9, <2>1 DEF Holds
  <2> QED BY <1>9, <2>2 DEF OfOneClass, Kind
<1>10. GroupClass'
  <2>1. \A i \in DOMAIN groups : \A s \in groups[i].segs : s \in Segment
    BY <1>1, GroupFields
  <2>2. \A s \in Segment : ClassOf(s)' = ClassOf(s)
    BY <1>4, <1>7 DEF ClassOf, Kind
  <2> QED BY <1>4, <2>1, <2>2 DEF GroupClass
<1>11. ListClass'
  BY <1>1, <1>4, <1>8, <1>9 DEF ListClass, OfOneClass
<1>12. CallClass'
  <2>1. ASSUME NEW r \in Request, call'[r].op = "save", r # q
        PROVE  OfOneClass(call[r].template)'
    <3>1. call'[r] = call[r] /\ call[r].op = "save" /\ Sound(call[r].template) /\ pc[r] # "free"
      BY <1>1, <1>3, <2>1
    <3>2. OfOneClass(call[r].template) /\ r \in InFlight({"save"})
      BY <3>1 DEF CallClass, InFlight
    <3> QED BY <1>8, <1>9, <3>1, <3>2 DEF OfOneClass
  <2>2. OfOneClass(call[q].template)'
    <3>1. call'[q].template.groups = Content /\ call'[q].template.meta = meta
      BY <1>2, <1>3
    <3>2. ASSUME NEW k \in DOMAIN Content, NEW s \in Content[k].segs
          PROVE  Kind(meta, base', s) = groups[Nth(k)].class
      <4>1. Nth(k) \in DOMAIN groups /\ s \in groups[Nth(k)].segs
        BY <1>1, <3>2, ContentFields DEF Filled
      <4>2. s \in Segment
        BY <1>1, <4>1, GroupFields
      <4> QED BY <1>7, <4>1, <4>2 DEF GroupClass
    <3>3. \A k \in DOMAIN Content : \A s, v \in Content[k].segs :
             Kind(meta, base', s) = Kind(meta, base', v)
      BY <3>2
    <3> QED BY <3>1, <3>3 DEF OfOneClass
  <2> QED BY <2>1, <2>2 DEF CallClass
<1> QED BY <1>10, <1>11, <1>12

LEMMA LoadClass ==
  ASSUME Core, ListClass, LoadScenario
  PROVE  GroupClass'
<1>1. PICK t \in At(selected) : \E f \in [DOMAIN list[t].groups -> Class] :
         /\ groups' = Loaded(list[t], f)
         /\ \A i \in DOMAIN f : \E s \in groups'[i].segs :
              f[i] = IF list[t].meta[s] # Unset THEN list[t].meta[s] ELSE base[s]
         /\ meta' = list[t].meta
  BY LoadScenarioStep DEF Core
<1>2. PICK f \in [DOMAIN list[t].groups -> Class] :
         /\ groups' = Loaded(list[t], f)
         /\ \A i \in DOMAIN f : \E s \in groups'[i].segs :
              f[i] = IF list[t].meta[s] # Unset THEN list[t].meta[s] ELSE base[s]
  BY <1>1
<1>3. t \in DOMAIN list /\ Sound(list[t]) /\ OfOneClass(list[t])
  BY DEF At, Core, TemplatesSound, ListClass
<1>4. /\ DOMAIN groups' = DOMAIN list[t].groups /\ DOMAIN f = DOMAIN list[t].groups
      /\ \A i \in DOMAIN groups' : /\ groups'[i].segs = list[t].groups[i].segs
                                   /\ groups'[i].class = f[i]
  BY <1>2, <1>3, LoadedGroups
<1>5. base' = base
  BY DEF LoadScenario
<1>6. \A s : ClassOf(s)' = Kind(list[t].meta, base, s)
  BY <1>1, <1>5 DEF ClassOf, Kind
<1>7. ASSUME NEW i \in DOMAIN groups', NEW u \in groups'[i].segs
      PROVE  Kind(list[t].meta, base, u) = groups'[i].class
  <2>1. PICK s \in groups'[i].segs : f[i] = Kind(list[t].meta, base, s)
    BY <1>2, <1>4, <1>7 DEF Kind
  <2> QED BY <1>3, <1>4, <1>7, <2>1 DEF OfOneClass
<1> QED BY <1>6, <1>7 DEF GroupClass

LEMMA ClassStep ==
  ASSUME Core, MetaInv, ClassInv, Next
  PROVE  ClassInv'
<1>1. RequestInv /\ IdentityInv /\ GroupsOK /\ PageInv /\ HistoryInv /\ SharedMeta /\ PendingMeta
  BY DEF Core, FieldInv, PageInv, MetaInv
<1> SUFFICES ASSUME ~crossed' PROVE GroupClass' /\ ListClass' /\ CallClass'
  BY DEF ClassInv
<1>2. ~crossed => GroupClass /\ ListClass /\ CallClass
  BY DEF ClassInv
<1>3. CASE /\ UNCHANGED <<list, base, crossed>>
           /\ \A r \in Request : call'[r].op = "save" => call'[r] = call[r]
           /\ GroupClass => GroupClass'
  BY <1>2, <1>3 DEF ListClass, CallClass, OfOneClass
<1>4. CASE PageOnly
  <2>1. UNCHANGED <<list, base, call, crossed>>
    BY <1>4, PageOnlyFrame DEF identity, requests
  <2> QED BY <1>3, <1>4, <2>1, PageOnlyClass
<1>5. ASSUME NEW again, Restarted(again)
      PROVE  GroupClass' /\ base' = base
  BY <1>5 DEF Restarted, GroupClass
<1>6. CASE Restart
  <2>1. UNCHANGED <<list, call, crossed>> /\ Restarted(FALSE)
    BY <1>6 DEF Restart, loadDialog, requests, Edit
  <2> QED BY <1>3, <1>5, <2>1
<1>7. CASE LoadScenario
  <2>1. UNCHANGED <<list, base, call, crossed>>
    BY <1>7 DEF LoadScenario, requests, Edit
  <2>2. ~crossed
    BY <2>1
  <2> QED BY <1>2, <1>3, <1>7, <2>1, <2>2, LoadClass
<1>8. CASE Asking
  <2>1. UNCHANGED <<list, base, call, crossed, groups, meta>>
    BY <1>8 DEF Asking, scenario, loadDialog, requests, history
  <2>2. GroupClass => GroupClass'
    BY <2>1 DEF GroupClass, ClassOf
  <2> QED BY <1>3, <2>1, <2>2
<1>9. ASSUME UNCHANGED <<groups, meta, base>>
      PROVE  GroupClass => GroupClass'
  BY <1>9 DEF GroupClass, ClassOf
<1>10. ASSUME NEW q \in Request, NEW c, Send(q, c), c.op # "save"
       PROVE  \A r \in Request : call'[r].op = "save" => call'[r] = call[r]
  BY <1>1, <1>10, SendFacts
<1>11. ASSUME NEW q \in Request, NEW op, NEW phase, Take(q, op, phase)
       PROVE  \A r \in Request : call'[r].op = "save" => call'[r] = call[r]
  BY <1>1, <1>11, TakeFacts
<1>12. ASSUME UNCHANGED base, \A r \in Request : call'[r].op = "save" => call'[r] = call[r],
              CallClass
       PROVE  CallClass'
  BY <1>12 DEF CallClass, OfOneClass
<1>13. ASSUME NEW q \in Request, NEW s \in Segment, NEW c \in Class, EditMetadata(q, s, c)
       PROVE  GroupClass' /\ ListClass' /\ CallClass'
  <2> DEFINE d == [op |-> "metadata", name |-> name, seg |-> s, class |-> c]
  <2>1. ~crossed /\ \A t \in DOMAIN list : ~Holds(list[t], s)
    BY <1>13 DEF EditMetadata
  <2>2. ~IsSegmentInGroup(s) /\ UNCHANGED <<groups, base>>
    BY <1>13, EditMetadataKinds DEF scenario
  <2>3. CASE Send(q, d) /\ UNCHANGED <<meta, list>>
    <3>1. \A r \in Request : call'[r].op = "save" => call'[r] = call[r]
      <4>1. d.op # "save"
        OBVIOUS
      <4> HIDE DEF d
      <4> QED BY <1>10, <2>3, <4>1
    <3>2. ListClass'
      BY <1>2, <2>1, <2>2, <2>3 DEF ListClass, OfOneClass
    <3> QED BY <1>2, <1>9, <1>12, <2>1, <2>2, <2>3, <3>1, <3>2
  <2>4. CASE MetaChange(s, c) /\ UNCHANGED requests
    <3>1. shared # Unset => ~Holds(list[shared], s)
      BY <1>1, <2>1 DEF IdentityInv
    <3>2. GroupClass' /\ ListClass'
      BY <1>1, <1>2, <2>1, <2>2, <2>4, <3>1, MetaChangeClass
    <3> QED BY <1>2, <1>12, <2>1, <2>2, <2>4, <3>2 DEF requests
  <2> QED BY <1>13, <2>3, <2>4, EditMetadataKinds
<1>14. ASSUME NEW q \in Request, Saving(q)
       PROVE  GroupClass' /\ ListClass' /\ CallClass'
  <2>1. ~crossed
    BY <1>14 DEF Saving, SaveScenario
  <2> QED BY <1>2, <1>14, <2>1, SavingClass
<1>15. ASSUME NEW q \in Request, DeleteTemplate(q)
       PROVE  GroupClass' /\ ListClass' /\ CallClass'
  <2>1. PICK t : Send(q, [op |-> "delete", name |-> t])
    BY <1>15 DEF DeleteTemplate
  <2>2. UNCHANGED <<groups, meta, base, list, crossed>>
    BY <1>15 DEF DeleteTemplate, scenario, identity, loadDialog
  <2>3. \A r \in Request : call'[r].op = "save" => call'[r] = call[r]
    BY <1>10, <2>1
  <2> QED BY <1>3, <1>9, <2>2, <2>3
<1>16. ASSUME NEW q \in Request, RunScenario(q)
       PROVE  GroupClass' /\ ListClass' /\ CallClass'
  <2>1. Send(q, [op |-> "run", name |-> name])
    BY <1>16 DEF RunScenario
  <2>2. UNCHANGED <<groups, meta, base, list, crossed>>
    BY <1>16 DEF RunScenario, scenario, identity, loadDialog, history
  <2>3. \A r \in Request : call'[r].op = "save" => call'[r] = call[r]
    BY <1>10, <2>1
  <2> QED BY <1>3, <1>9, <2>2, <2>3
<1>17. ASSUME NEW q \in Request, MetadataDone(q)
       PROVE  GroupClass' /\ ListClass' /\ CallClass'
  <2>1. /\ call[q].seg \in Segment /\ call[q].class \in Class
        /\ MetaChange(call[q].seg, call[q].class) /\ Take(q, "metadata", "done")
        /\ call[q].op = "metadata"
        /\ UNCHANGED <<groups, base, crossed>>
    BY <1>1, <1>17, MetadataDoneKind DEF scenario, history
  <2>2. Pending(call[q].seg) /\ ~crossed
    BY <1>1, <2>1 DEF PendingMeta
  <2>3. ~IsSegmentInGroup(call[q].seg) /\ (shared # Unset => ~Holds(list[shared], call[q].seg))
    BY <2>2 DEF Pending
  <2>4. GroupClass' /\ ListClass'
    BY <1>1, <1>2, <2>1, <2>2, <2>3, MetaChangeClass
  <2> QED BY <1>2, <1>11, <1>12, <2>1, <2>2, <2>4
<1>18. ASSUME NEW q \in Request, SaveDone(q)
       PROVE  GroupClass' /\ ListClass' /\ CallClass'
  <2> DEFINE n == call[q].name
             v == call[q].template
  <2>1. /\ Take(q, "save", "done") /\ ViewGroups /\ list' = With(list, n, v)
        /\ UNCHANGED <<meta, base, crossed>>
    BY <1>18 DEF SaveDone, history
  <2>2. ~crossed /\ call[q].op = "save"
    BY <2>1 DEF Take
  <2>3. GroupClass'
    BY <1>1, <1>2, <2>1, <2>2, ViewStep, RevaluedClass
  <2>4. /\ DOMAIN list' = DOMAIN list \cup {n} /\ list'[n] = v
        /\ \A u \in DOMAIN list : u # n => list'[u] = list[u]
    BY <2>1 DEF With
  <2>5. OfOneClass(v) /\ \A u \in DOMAIN list : OfOneClass(list[u])
    BY <1>2, <2>2 DEF CallClass, ListClass
  <2> HIDE DEF n, v
  <2>6. ListClass'
    BY <2>1, <2>4, <2>5 DEF ListClass, OfOneClass
  <2> QED BY <1>2, <1>11, <1>12, <2>1, <2>2, <2>3, <2>6
<1>19. ASSUME NEW q \in Request, DeleteDone(q) \/ RunDone(q)
       PROVE  GroupClass' /\ ListClass' /\ CallClass'
  <2>1. /\ \E op, phase : Take(q, op, phase)
        /\ \E again : Restarted(again)
        /\ crossed' = crossed
        /\ list' = list \/ \E S : list' = Without(list, S)
    BY <1>19 DEF DeleteDone, RunDone, loadDialog
  <2>2. ListClass => ListClass'
    <3>1. base' = base
      BY <1>5, <2>1
    <3>2. DOMAIN list' \subseteq DOMAIN list /\ \A t \in DOMAIN list' : list'[t] = list[t]
      BY <2>1 DEF Without
    <3> QED BY <3>1, <3>2 DEF ListClass, OfOneClass
  <2> QED BY <1>2, <1>5, <1>11, <1>12, <2>1, <2>2
<1>20. ASSUME NEW q \in Request, Failed(q)
       PROVE  GroupClass' /\ ListClass' /\ CallClass'
  <2>1. \E op, phase : Take(q, op, phase)
    BY <1>20 DEF Failed
  <2>2. UNCHANGED <<groups, meta, base, list, crossed>>
    BY <1>20 DEF Failed, scenario, identity, loadDialog, history
  <2> QED BY <1>3, <1>9, <1>11, <2>1, <2>2
<1>21. ASSUME NEW q \in Request, ServerStep(q)
       PROVE  GroupClass' /\ ListClass' /\ CallClass'
  <2>1. UNCHANGED <<groups, meta, base, list, call, crossed>>
    BY <1>1, <1>21, ServerFrame DEF scenario, identity, loadDialog
  <2> QED BY <1>3, <1>9, <2>1
<1> QED BY <1>4, <1>6, <1>7, <1>8, <1>13, <1>14, <1>15, <1>16, <1>17, <1>18, <1>19, <1>20, <1>21,
           NextKinds

LEMMA ClassInit ==
  ASSUME Init
  PROVE  MetaInv /\ ClassInv
<1>1. /\ groups = <<>> /\ shared = Unset /\ call = [q \in Request |-> NoCall] /\ NoCall.op = "none"
      /\ list = InitialTemplates /\ base = BaseClass /\ DOMAIN <<>> = {}
  BY DEF Init, NoCall
<1>2. \A t \in DOMAIN InitialTemplates : \A i \in DOMAIN InitialTemplates[t].groups :
        \A s, u \in InitialTemplates[t].groups[i].segs :
          Kind(InitialTemplates[t].meta, BaseClass, s) = Kind(InitialTemplates[t].meta, BaseClass, u)
  BY TemplatesAssumption DEF Kind
<1>3. MetaInv
  BY <1>1 DEF MetaInv, SharedMeta, PendingMeta
<1>4. GroupClass /\ ListClass /\ CallClass
  BY <1>1, <1>2 DEF GroupClass, ListClass, CallClass, OfOneClass
<1> QED BY <1>3, <1>4 DEF ClassInv

LEMMA ClassStutter ==
  ASSUME MetaInv, ClassInv, UNCHANGED vars
  PROVE  MetaInv' /\ ClassInv'
<1>1. UNCHANGED <<groups, meta, shared, base, list, open, pc, call, crossed>>
  BY DEF vars, scenario, identity, loadDialog, windows, requests, history
<1>2. MetaInv'
  BY <1>1 DEF MetaInv, SharedMeta, PendingMeta, Pending, IsSegmentInGroup, Holds
<1>3. ClassInv'
  BY <1>1 DEF ClassInv, GroupClass, ListClass, CallClass, OfOneClass, ClassOf
<1> QED BY <1>2, <1>3

\* The page works on the metadata of the template it has loaded, a metadata request is on its
\* way only for a segment in no group, and, unless they crossed, groups are of one class.
THEOREM ClassInvariant == Spec => [](MetaInv /\ ClassInv)
<1>1. Init => MetaInv /\ ClassInv
  BY ClassInit
<1>2. Core /\ (MetaInv /\ ClassInv) /\ [Next]_vars => (MetaInv /\ ClassInv)'
  <2> SUFFICES ASSUME Core, MetaInv, ClassInv, [Next]_vars PROVE MetaInv' /\ ClassInv'
    OBVIOUS
  <2>1. CASE Next
    BY <2>1, SharedMetaStep, PendingMetaStep, ClassStep DEF MetaInv
  <2>2. CASE UNCHANGED vars
    BY <2>2, ClassStutter
  <2> QED BY <2>1, <2>2
<1> QED BY <1>1, <1>2, CoreInvariant, PTL DEF Spec

\* No segment is in two groups, and the segments of a group have the lanes and the speed limit
\* of the group, unless those of a segment changed while a template had it in a group.
THEOREM SegmentsInOneGroup == Spec => []GroupsSound
<1>1. Core /\ ClassInv => GroupsSound
  BY DEF Core, PageInv, GroupsOK, ClassInv, GroupClass, GroupsSound
<1> QED BY <1>1, CoreInvariant, ClassInvariant, PTL

-----------------------------------------------------------------------------
(* The page's list of templates and the server's.                          *)

\* The same names, with the same groups; the metadata may differ.
Same(f, g) == DOMAIN f = DOMAIN g /\ \A t \in DOMAIN f : f[t].groups = g[t].groups

Busy(q) == call[q].op \in {"save", "delete"}

\* Without muddle only one save or deletion is on the way.  A deletion is of the row selected.
\* Until the server did what is on the way the lists agree; afterwards they do once the page
\* has heard of it.
ListInv ==
  ~muddled =>
  /\ \A q, r \in Request : Busy(q) /\ Busy(r) => q = r
  /\ \A q \in Request : call[q].op = "delete" => At(selected) = {call[q].name}
  /\ \A q \in Request : call[q].op = "save" /\ pc[q] = "done" =>
       Same(With(list, call[q].name, call[q].template), server)
  /\ \A q \in Request : call[q].op = "delete" /\ pc[q] = "done" =>
       Same(Without(list, {call[q].name}), server)
  /\ (\A q \in Request : Busy(q) => pc[q] # "done") => Same(list, server)

LEMMA SameTwice ==
  ASSUME NEW f, NEW g, NEW h, Same(f, g), Same(g, h)
  PROVE  Same(f, h)
BY DEF Same

LEMMA SameBack ==
  ASSUME NEW f, NEW g, Same(f, g)
  PROVE  Same(g, f)
BY DEF Same

LEMMA SameWith ==
  ASSUME NEW f, NEW g, NEW n, NEW v, Same(f, g)
  PROVE  Same(With(f, n, v), With(g, n, v))
BY DEF Same, With

LEMMA SameWithout ==
  ASSUME NEW f, NEW g, NEW S, Same(f, g)
  PROVE  Same(Without(f, S), Without(g, S))
BY DEF Same, Without

\* There is one row at an index, and none at -1.
LEMMA OneRow ==
  ASSUME DOMAIN list \subseteq Name, NEW i, NEW t \in At(i)
  PROVE  At(i) = {t} /\ i \in Nat
<1> DEFINE D == DOMAIN list
           Below(u) == {w \in D : w < u}
<1>1. D \in SUBSET (1..Names) /\ IsFiniteSet(1..Names)
  BY ConstantsApart, FS_Interval DEF Name
<1>2. IsFiniteSet(D) /\ \A u \in D : u \in Int
  <2> HIDE DEF D
  <2>1. IsFiniteSet(D)
    BY <1>1, FS_Subset
  <2> QED BY <1>1, <2>1
<1>3. \A u \in D : IsFiniteSet(Below(u)) /\ Cardinality(Below(u)) \in Nat
  <2> TAKE u \in D
  <2>1. Below(u) \in SUBSET D
    OBVIOUS
  <2> HIDE DEF Below
  <2> QED BY <1>2, <2>1, FS_Subset, FS_CardinalityType
<1>4. ASSUME NEW u \in D, NEW w \in D, u < w
      PROVE  Cardinality(Below(u)) # Cardinality(Below(w))
  <2>1. Below(u) \in SUBSET Below(w)
    BY <1>2, <1>4
  <2>2. u \in Below(w) /\ u \notin Below(u)
    BY <1>2, <1>4
  <2>3. IsFiniteSet(Below(w))
    BY <1>3
  <2> HIDE DEF Below
  <2> QED BY <2>1, <2>2, <2>3, FS_Subset
<1>5. \A u \in D : u \in At(i) <=> Cardinality(Below(u)) = i
  BY DEF At
<1>6. \A u \in At(i) : u \in D
  BY DEF At
<1> HIDE DEF Below
<1>7. ASSUME NEW u \in At(i), u # t
      PROVE  FALSE
  <2>1. u \in D /\ t \in D /\ Cardinality(Below(u)) = Cardinality(Below(t))
    BY <1>5, <1>6
  <2>2. u < t \/ t < u
    BY <1>2, <1>7, <2>1
  <2> QED BY <1>4, <2>1, <2>2
<1>8. i \in Nat
  BY <1>3, <1>5, <1>6
<1> QED BY <1>7, <1>8

\* Steps that touch neither the lists' groups nor a save nor a deletion.
ListQuiet ==
  /\ Same(list', list) /\ Same(server', server)
  /\ \A q \in Request : call[q].op \in {"save", "delete"} \/ call'[q].op \in {"save", "delete"} =>
                          call'[q] = call[q] /\ pc'[q] = pc[q]
  /\ muddled => muddled'
  /\ \/ selected' = selected \/ muddled'
     \/ \A q \in Request : call[q].op # "delete"

LEMMA SameAt ==
  ASSUME DOMAIN list' = DOMAIN list, selected' = selected
  PROVE  At(selected)' = At(selected)
BY DEF At

LEMMA ListQuietStep ==
  ASSUME ListInv, ListQuiet
  PROVE  ListInv'
<1> SUFFICES ASSUME ~muddled'
             PROVE  /\ \A q, r \in Request : Busy(q)' /\ Busy(r)' => q = r
                    /\ \A q \in Request : call'[q].op = "delete" =>
                         At(selected)' = {call'[q].name}
                    /\ \A q \in Request : call'[q].op = "save" /\ pc'[q] = "done" =>
                         Same(With(list', call'[q].name, call'[q].template), server')
                    /\ \A q \in Request : call'[q].op = "delete" /\ pc'[q] = "done" =>
                         Same(Without(list', {call'[q].name}), server')
                    /\ (\A q \in Request : Busy(q)' => pc'[q] # "done") => Same(list', server')
  BY DEF ListInv, Same, With, Without
<1>1. ~muddled /\ Same(list', list) /\ Same(server, server')
  BY SameBack DEF ListQuiet
<1>2. \A q \in Request : call[q].op \in {"save", "delete"} \/ call'[q].op \in {"save", "delete"} =>
                          call'[q] = call[q] /\ pc'[q] = pc[q]
  BY DEF ListQuiet
<1>3. \A q, r \in Request : Busy(q)' /\ Busy(r)' => q = r
  BY <1>1, <1>2 DEF ListInv, Busy
<1>4. ASSUME NEW q \in Request, call'[q].op = "delete"
      PROVE  At(selected)' = {call'[q].name}
  <2>1. call'[q] = call[q] /\ selected' = selected
    BY <1>2, <1>4 DEF ListQuiet
  <2>2. DOMAIN list' = DOMAIN list
    BY <1>1 DEF Same
  <2>3. At(selected) = {call[q].name}
    BY <1>1, <1>4, <2>1 DEF ListInv
  <2> QED BY <2>1, <2>2, <2>3, SameAt
<1>5. ASSUME NEW q \in Request, call'[q].op = "save", pc'[q] = "done"
      PROVE  Same(With(list', call'[q].name, call'[q].template), server')
  <2>1. call'[q] = call[q] /\ pc'[q] = pc[q]
    BY <1>2, <1>5
  <2>2. Same(With(list, call[q].name, call[q].template), server)
    BY <1>1, <1>5, <2>1 DEF ListInv
  <2>3. Same(With(list', call[q].name, call[q].template), With(list, call[q].name, call[q].template))
    BY <1>1, SameWith
  <2>4. Same(With(list', call[q].name, call[q].template), server)
    BY <2>2, <2>3, SameTwice
  <2> QED BY <1>1, <2>1, <2>4, SameTwice
<1>6. ASSUME NEW q \in Request, call'[q].op = "delete", pc'[q] = "done"
      PROVE  Same(Without(list', {call'[q].name}), server')
  <2>1. call'[q] = call[q] /\ pc'[q] = pc[q]
    BY <1>2, <1>6
  <2>2. Same(Without(list, {call[q].name}), server)
    BY <1>1, <1>6, <2>1 DEF ListInv
  <2>3. Same(Without(list', {call[q].name}), Without(list, {call[q].name}))
    BY <1>1, SameWithout
  <2>4. Same(Without(list', {call[q].name}), server)
    BY <2>2, <2>3, SameTwice
  <2> QED BY <1>1, <2>1, <2>4, SameTwice
<1>7. ASSUME \A q \in Request : Busy(q)' => pc'[q] # "done"
      PROVE  Same(list', server')
  <2>1. \A q \in Request : Busy(q) => pc[q] # "done"
    BY <1>2, <1>7 DEF Busy
  <2>2. Same(list, server)
    BY <1>1, <2>1 DEF ListInv
  <2> QED BY <1>1, <2>2, SameTwice
<1> QED BY <1>3, <1>4, <1>5, <1>6, <1>7

LEMMA AgreeSend ==
  ASSUME RequestInv, NEW q \in Request, NEW c, Send(q, c), c.op \notin {"save", "delete"}
  PROVE  \A r \in Request : call[r].op \in {"save", "delete"} \/ call'[r].op \in {"save", "delete"} =>
                              call'[r] = call[r] /\ pc'[r] = pc[r]
BY SendFacts

LEMMA AgreeTake ==
  ASSUME RequestInv, NEW q \in Request, NEW op, NEW phase, Take(q, op, phase),
         op \notin {"save", "delete"}
  PROVE  \A r \in Request : call[r].op \in {"save", "delete"} \/ call'[r].op \in {"save", "delete"} =>
                              call'[r] = call[r] /\ pc'[r] = pc[r]
BY TakeFacts

LEMMA SameMeta ==
  ASSUME Core, NEW s \in Segment, NEW c \in Class, MetaChange(s, c)
  PROVE  Same(list', list)
BY MetaChangeFacts DEF Core, FieldInv, TemplatesSound, Same

LEMMA MuddledPage ==
  ASSUME Core, PageOnly
  PROVE  /\ muddled => muddled'
         /\ \/ selected' = selected \/ muddled'
            \/ \A q \in Request : call[q].op # "delete"
<1>1. CASE UNCHANGED <<muddled, selected>>
  BY <1>1
<1>2. ASSUME muddled' = (muddled \/ InFlight({"delete"}) # {})
      PROVE  /\ muddled => muddled'
             /\ muddled' \/ \A q \in Request : call[q].op # "delete"
  <2>1. \A q \in Request : call[q].op = "delete" => q \in InFlight({"delete"})
    BY DEF InFlight, Core, FieldInv, RequestInv
  <2> QED BY <1>2, <2>1
<1>3. ASSUME NEW l \in Label, MouseEnterLabel(l) \/ AddGroup(l)
      PROVE  UNCHANGED <<muddled, selected>>
  BY <1>3 DEF MouseEnterLabel, AddGroup, loadDialog, history
<1>4. CASE MouseLeaveLabel \/ TimerEnds \/ Done \/ AddRemove
  BY <1>1, <1>4 DEF MouseLeaveLabel, TimerEnds, Done, AddRemove, loadDialog, history
<1>5. CASE EditMode \/ DeleteGroup \/ ConfirmDelete
  BY <1>1, <1>5 DEF EditMode, DeleteGroup, ConfirmDelete, loadDialog, history
<1>6. ASSUME NEW s \in Segment, ToggleInclude(s)
      PROVE  UNCHANGED <<muddled, selected>>
  BY <1>6 DEF ToggleInclude, loadDialog
<1>7. ASSUME NEW c \in Class, SaveValues(c)
      PROVE  UNCHANGED <<muddled, selected>>
  BY <1>7 DEF SaveValues, loadDialog
<1>8. CASE CancelDialog \/ CloseDialog \/ OpenRestart
  BY <1>1, <1>8 DEF CancelDialog, CloseDialog, OpenRestart, loadDialog, history
<1>9. CASE LoadANetwork \/ OpenRun
  BY <1>1, <1>9 DEF LoadANetwork, OpenRun, loadDialog, history
<1>10. CASE OpenLoad
  BY <1>2, <1>10 DEF OpenLoad
<1>11. ASSUME NEW index, NEW ask, Select(index, ask)
       PROVE  muddled' = (muddled \/ InFlight({"delete"}) # {})
  BY <1>11 DEF Select
<1> QED BY <1>1, <1>2, <1>3, <1>4, <1>5, <1>6, <1>7, <1>8, <1>9, <1>10, <1>11 DEF PageOnly

\* Nothing is on the way when a save or a deletion is sent, or something was muddled.
LEMMA AgreeSaving ==
  ASSUME Core, ListInv, NEW q \in Request, NEW c, Send(q, c), c.op \in {"save", "delete"},
         muddled' = (muddled \/ InFlight({"save", "delete", "metadata"}) # {}),
         list' = list, selected' = selected,
         c.op = "delete" => At(selected) = {c.name}
  PROVE  ListInv'
<1>1. RequestInv /\ HistoryInv
  BY DEF Core, FieldInv
<1>2. CASE muddled'
  BY <1>2 DEF ListInv
<1>3. CASE ~muddled'
  <2>1. ~muddled /\ \A r \in Request : ~Busy(r)
    BY <1>1, <1>3 DEF InFlight, Busy, RequestInv
  <2>2. Same(list, server)
    BY <2>1 DEF ListInv
  <2>3. /\ call'[q] = c /\ pc'[q] = "sent" /\ server' = server
        /\ \A r \in Request : r # q => call'[r] = call[r]
    BY <1>1, SendFacts
  <2>4. \A r \in Request : Busy(r)' => r = q
    BY <2>1, <2>3 DEF Busy
  <2>5. At(selected)' = At(selected)
    BY SameAt
  <2>6. Same(list, server)'
    BY <2>2, <2>3 DEF Same
  <2> QED BY <2>3, <2>4, <2>5, <2>6 DEF ListInv, Busy
<1> QED BY <1>2, <1>3

\* An answer is taken: nothing is on the way any more.
LEMMA AgreeDone ==
  ASSUME RequestInv, ListInv, muddled' = muddled, NEW q \in Request, NEW op, NEW phase,
         Take(q, op, phase), Busy(q), ~muddled => Same(list', server)
  PROVE  ListInv'
<1>1. CASE muddled
  BY <1>1 DEF ListInv
<1>2. CASE ~muddled
  <2>1. \A r \in Request : Busy(r) => r = q
    BY <1>2 DEF ListInv
  <2>2. /\ call'[q].op = "none" /\ server' = server
        /\ \A r \in Request : r # q => call'[r] = call[r]
    BY TakeFacts
  <2>3. \A r \in Request : ~Busy(r)'
    BY <2>1, <2>2 DEF Busy
  <2>4. Same(list, server)'
    BY <1>2, <2>2 DEF Same
  <2> QED BY <2>3, <2>4 DEF ListInv, Busy
<1> QED BY <1>1, <1>2

\* New metadata of a segment leaves the groups of a template alone.
LEMMA MetaSame ==
  ASSUME Core, NEW q \in Request, call[q].name \in DOMAIN server,
         server' = [server EXCEPT ![call[q].name].meta[call[q].seg] = call[q].class]
  PROVE  Same(server', server)
<1>1. Sound(server[call[q].name])
  BY DEF Core, TemplatesSound
<1>2. DOMAIN server' = DOMAIN server
  OBVIOUS
<1>3. \A t \in DOMAIN server : t # call[q].name => server'[t] = server[t]
  OBVIOUS
<1>4. server'[call[q].name].groups = server[call[q].name].groups
  BY <1>1 DEF Sound, IsTemplate
<1> QED BY <1>2, <1>3, <1>4 DEF Same

LEMMA AgreeServer ==
  ASSUME Core, ListInv, NEW q \in Request, ServerStep(q)
  PROVE  ListInv'
<1>1. RequestInv /\ HistoryInv /\ FieldInv
  BY DEF Core, FieldInv
<1>2. /\ UNCHANGED <<list, selected, call>>
      /\ muddled' = (muddled \/ pc[q] = "done")
      /\ pc[q] \in {"sent", "done"}
  BY <1>1, ServerFrame DEF loadDialog
<1>3. \A r \in Request : r # q => pc'[r] = pc[r]
  BY <1>1, ServerFacts
<1>4. \A r \in Request : r # q \/ pc'[r] = pc[r] => call'[r] = call[r] /\ pc'[r] = pc[r]
  BY <1>2, <1>3
<1>5. Same(list', list)
  BY <1>2 DEF Same
<1>6. CASE muddled'
  BY <1>6 DEF ListInv
<1>7. CASE ~muddled' /\ Busy(q)
  <2>1. ~muddled /\ pc[q] = "sent" /\ \A r \in Request : Busy(r) => r = q
    BY <1>2, <1>7 DEF ListInv
  <2>2. Same(list, server)
    BY <2>1 DEF ListInv
  <2>3. At(selected)' = At(selected)
    BY <1>2, SameAt
  <2>4. \A r \in Request : Busy(r)' => r = q
    BY <1>2, <2>1 DEF Busy
  <2>5. call'[q].op = "delete" => At(selected)' = {call'[q].name}
    BY <1>2, <2>1, <2>3 DEF ListInv
  <2>6. CASE call[q].op = "save" /\ pc' = [pc EXCEPT ![q] = "done"]
             /\ server' = With(server, call[q].name, call[q].template)
    <3>1. pc'[q] = "done"
      BY <1>1, <2>6 DEF RequestInv
    <3>2. Same(With(list', call'[q].name, call'[q].template), server')
      BY <1>2, <2>2, <2>6, SameWith
    <3>3. \A r \in Request : call'[r].op # "delete"
      BY <1>2, <2>4, <2>6 DEF Busy
    <3>4. \A r \in Request : call'[r].op = "save" => r = q
      BY <2>4 DEF Busy
    <3>5. \A r \in Request : call'[r].op = "save" /\ pc'[r] = "done" =>
            Same(With(list', call'[r].name, call'[r].template), server')
      BY <3>2, <3>4
    <3>6. \A r, u \in Request : Busy(r)' /\ Busy(u)' => r = u
      BY <2>4
    <3>7. Busy(q)' /\ pc'[q] = "done"
      BY <1>2, <2>6, <3>1 DEF Busy
    <3>8. ~(\A r \in Request : Busy(r)' => pc'[r] # "done")
      BY <3>7
    <3> QED BY <3>3, <3>5, <3>6, <3>8 DEF ListInv, Same, With
  <2>7. CASE call[q].op = "delete" /\ pc' = [pc EXCEPT ![q] = "done"]
             /\ server' = Without(server, {call[q].name})
    <3>1. pc'[q] = "done"
      BY <1>1, <2>7 DEF RequestInv
    <3>2. Same(Without(list', {call'[q].name}), server')
      BY <1>2, <2>2, <2>7, SameWithout
    <3> QED BY <1>2, <2>4, <2>5, <2>7, <3>1, <3>2 DEF ListInv, Busy, Same, Without
  <2>8. CASE pc' = [pc EXCEPT ![q] = "failed"] /\ server' = server
    <3>1. pc'[q] = "failed"
      BY <1>1, <2>8 DEF RequestInv
    <3>2. Same(list, server)'
      BY <1>2, <2>2, <2>8 DEF Same
    <3>3. \A r \in Request : Busy(r)' => pc'[r] # "done"
      BY <2>4, <3>1
    <3>4. \A r \in Request : call'[r].op = "delete" => At(selected)' = {call'[r].name}
      BY <2>4, <2>5 DEF Busy
    <3>5. \A r, u \in Request : Busy(r)' /\ Busy(u)' => r = u
      BY <2>4
    <3> QED BY <3>2, <3>3, <3>4, <3>5 DEF ListInv, Busy
  <2> QED BY <1>7, <2>6, <2>7, <2>8, ServerKinds DEF Busy
<1>8. CASE ~muddled' /\ ~Busy(q)
  <2>1. Same(server', server)
    <3>1. CASE server' = server
      BY <3>1 DEF Same
    <3>2. CASE /\ call[q].name \in DOMAIN server
               /\ server' = [server EXCEPT ![call[q].name].meta[call[q].seg] = call[q].class]
      BY <3>2, MetaSame
    <3> QED BY <1>8, <3>1, <3>2, ServerKinds DEF Busy
  <2>2. \A r \in Request : call[r].op \in {"save", "delete"} \/ call'[r].op \in {"save", "delete"} =>
                             call'[r] = call[r] /\ pc'[r] = pc[r]
    BY <1>2, <1>3, <1>8 DEF Busy
  <2>3. ListQuiet
    BY <1>2, <1>5, <2>1, <2>2 DEF ListQuiet
  <2> QED BY <2>3, ListQuietStep
<1> QED BY <1>6, <1>7, <1>8

LEMMA AgreeStep ==
  ASSUME Core, ListInv, Next
  PROVE  ListInv'
<1>1. RequestInv /\ HistoryInv /\ IdentityInv /\ DOMAIN list \subseteq Name
      /\ \A t \in DOMAIN list : Sound(list[t])
  BY DEF Core, FieldInv, TemplatesSound
<1>2. \A f : Same(f, f)
  BY DEF Same
<1>3. CASE /\ UNCHANGED <<list, server, pc, call>> /\ (muddled => muddled')
           /\ \/ selected' = selected \/ muddled'
              \/ \A q \in Request : call[q].op # "delete"
  <2>1. ListQuiet
    BY <1>2, <1>3 DEF ListQuiet
  <2> QED BY <2>1, ListQuietStep
<1>4. CASE PageOnly
  BY <1>3, <1>4, PageOnlyFrame, MuddledPage DEF requests
<1>5. CASE Restart \/ Asking
  <2>1. UNCHANGED <<list, server, pc, call, selected, muddled>>
    BY <1>5 DEF Restart, Asking, loadDialog, requests, history
  <2> QED BY <1>3, <2>1
<1>6. CASE LoadScenario
  <2>1. UNCHANGED <<list, server, pc, call>> /\ muddled' = (muddled \/ InFlight({"delete"}) # {})
    BY <1>6 DEF LoadScenario, requests
  <2>2. \A q \in Request : call[q].op = "delete" => q \in InFlight({"delete"})
    BY <1>1 DEF InFlight, RequestInv
  <2> QED BY <1>3, <2>1, <2>2
<1>7. ASSUME NEW q \in Request, NEW c, Send(q, c), c.op \notin {"save", "delete"},
             UNCHANGED <<list, selected, muddled>>
      PROVE  ListInv'
  <2>1. server' = server
    BY <1>7 DEF Send
  <2>2. ListQuiet
    BY <1>1, <1>2, <1>7, <2>1, AgreeSend DEF ListQuiet
  <2> QED BY <2>2, ListQuietStep
<1>8. ASSUME NEW q \in Request, NEW op, NEW phase, Take(q, op, phase), op \notin {"save", "delete"},
             Same(list', list), UNCHANGED <<selected, muddled>>
      PROVE  ListInv'
  <2>1. server' = server
    BY <1>8 DEF Take
  <2>2. ListQuiet
    BY <1>1, <1>2, <1>8, <2>1, AgreeTake DEF ListQuiet
  <2> QED BY <2>2, ListQuietStep
<1>9. ASSUME NEW q \in Request, NEW s \in Segment, NEW c \in Class, EditMetadata(q, s, c)
      PROVE  ListInv'
  <2> DEFINE d == [op |-> "metadata", name |-> name, seg |-> s, class |-> c]
  <2>1. UNCHANGED <<selected, muddled, server>>
    BY <1>9, EditMetadataKinds
  <2>2. CASE Send(q, d) /\ UNCHANGED <<meta, list>>
    <3>1. d.op \notin {"save", "delete"}
      OBVIOUS
    <3> HIDE DEF d
    <3> QED BY <1>7, <2>1, <2>2, <3>1
  <2>3. CASE MetaChange(s, c) /\ UNCHANGED requests
    <3>1. ListQuiet
      BY <1>2, <2>1, <2>3, SameMeta DEF ListQuiet, requests
    <3> QED BY <3>1, ListQuietStep
  <2> QED BY <1>9, <2>2, <2>3, EditMetadataKinds
<1>10. ASSUME NEW q \in Request, Saving(q)
       PROVE  ListInv'
  <2> DEFINE c == [op |-> "save", name |-> typed', template |-> [groups |-> Content, meta |-> meta]]
  <2>1. Send(q, c) /\ c.op = "save"
    BY <1>10, SavingFacts
  <2> HIDE DEF c
  <2>2. /\ muddled' = (muddled \/ InFlight({"save", "delete", "metadata"}) # {})
        /\ UNCHANGED <<list, selected>>
    BY <1>10 DEF Saving, SaveScenario, loadDialog
  <2> QED BY <2>1, <2>2, AgreeSaving
<1>11. ASSUME NEW q \in Request, DeleteTemplate(q)
       PROVE  ListInv'
  <2>1. PICK t \in At(selected) : Send(q, [op |-> "delete", name |-> t])
    BY <1>11 DEF DeleteTemplate
  <2> DEFINE c == [op |-> "delete", name |-> t]
  <2>2. At(selected) = {t}
    BY <1>1, OneRow
  <2>3. /\ muddled' = (muddled \/ InFlight({"save", "delete", "metadata"}) # {})
        /\ UNCHANGED <<list, selected>>
    BY <1>11 DEF DeleteTemplate, loadDialog
  <2>4. Send(q, c) /\ c.op = "delete" /\ c.name = t
    BY <2>1
  <2> HIDE DEF c
  <2> QED BY <2>2, <2>3, <2>4, AgreeSaving
<1>12. ASSUME NEW q \in Request, RunScenario(q)
       PROVE  ListInv'
  <2> DEFINE c == [op |-> "run", name |-> name]
  <2>1. Send(q, c) /\ c.op = "run" /\ UNCHANGED <<list, selected, muddled>>
    BY <1>12 DEF RunScenario, loadDialog, history
  <2> HIDE DEF c
  <2> QED BY <1>7, <2>1
<1>13. ASSUME NEW q \in Request, MetadataDone(q)
       PROVE  ListInv'
  <2>1. /\ call[q].seg \in Segment /\ call[q].class \in Class
        /\ MetaChange(call[q].seg, call[q].class) /\ Take(q, "metadata", "done")
        /\ UNCHANGED <<selected, muddled>>
    BY <1>1, <1>13, MetadataDoneKind DEF history
  <2>2. Same(list', list)
    BY <2>1, SameMeta
  <2> QED BY <1>8, <2>1, <2>2
<1>14. ASSUME NEW q \in Request, SaveDone(q)
       PROVE  ListInv'
  <2>1. /\ Take(q, "save", "done") /\ list' = With(list, call[q].name, call[q].template)
        /\ muddled' = muddled /\ call[q].op = "save" /\ pc[q] = "done"
    BY <1>14 DEF SaveDone, history, Take
  <2>2. ~muddled => Same(list', server)
    BY <2>1 DEF ListInv
  <2> QED BY <1>1, <2>1, <2>2, AgreeDone DEF Busy
<1>15. ASSUME NEW q \in Request, DeleteDone(q)
       PROVE  ListInv'
  <2> DEFINE last == {t \in DOMAIN list : \A u \in DOMAIN list : u <= t}
             gone == IF selected < 0 THEN last ELSE At(selected)
  <2>1. /\ Take(q, "delete", "done") /\ list' = Without(list, gone)
        /\ muddled' = muddled /\ call[q].op = "delete" /\ pc[q] = "done"
    BY <1>15 DEF DeleteDone, Take
  <2>2. ~muddled => Same(list', server)
    <3> SUFFICES ASSUME ~muddled PROVE Same(list', server)
      OBVIOUS
    <3>1. At(selected) = {call[q].name} /\ Same(Without(list, {call[q].name}), server)
      BY <2>1 DEF ListInv
    <3>2. selected \in Nat
      BY <1>1, <3>1, OneRow
    <3>3. gone = {call[q].name}
      BY <3>1, <3>2
    <3> HIDE DEF gone
    <3> QED BY <2>1, <3>1, <3>3
  <2> QED BY <1>1, <2>1, <2>2, AgreeDone DEF Busy
<1>16. ASSUME NEW q \in Request, RunDone(q)
       PROVE  ListInv'
  <2>1. Take(q, "run", "done") /\ UNCHANGED <<list, selected, muddled>>
    BY <1>16 DEF RunDone, loadDialog
  <2> QED BY <1>2, <1>8, <2>1
<1>17. ASSUME NEW q \in Request, Failed(q)
       PROVE  ListInv'
  <2>1. PICK op \in {"metadata", "save", "run", "delete"} : Take(q, op, "failed")
    BY <1>17 DEF Failed
  <2>2. UNCHANGED <<list, selected, muddled>> /\ call[q].op = op /\ pc[q] = "failed"
    BY <1>17, <2>1 DEF Failed, loadDialog, history, Take
  <2>3. CASE op \in {"save", "delete"}
    <3>1. ~muddled => \A r \in Request : Busy(r) => r = q
      BY <2>2, <2>3 DEF ListInv, Busy
    <3>2. ~muddled => Same(list', server)
      BY <2>2, <3>1 DEF ListInv
    <3> QED BY <1>1, <2>1, <2>2, <2>3, <3>2, AgreeDone DEF Busy
  <2>4. CASE op \notin {"save", "delete"}
    BY <1>2, <1>8, <2>1, <2>2, <2>4
  <2> QED BY <2>3, <2>4
<1>18. ASSUME NEW q \in Request, ServerStep(q)
       PROVE  ListInv'
  BY <1>18, AgreeServer
<1> QED BY <1>4, <1>5, <1>6, <1>9, <1>10, <1>11, <1>12, <1>13, <1>14, <1>15, <1>16, <1>17, <1>18,
           NextKinds

LEMMA AgreeInit ==
  ASSUME Init
  PROVE  ListInv
<1>1. list = server /\ \A q \in Request : call[q].op = "none"
  BY DEF Init, NoCall
<1> QED BY <1>1 DEF ListInv, Busy, Same

LEMMA AgreeStutter ==
  ASSUME ListInv, UNCHANGED vars
  PROVE  ListInv'
<1>1. UNCHANGED <<list, server, pc, call, muddled, selected>>
  BY DEF vars, loadDialog, requests, history
<1>2. \A f : Same(f, f)
  BY DEF Same
<1>3. ListQuiet
  BY <1>1, <1>2 DEF ListQuiet
<1> QED BY <1>3, ListQuietStep

\* While requests do not cross, the list of the page is that of the server up to the one save or
\* deletion that is under way.
THEOREM ListInvariant == Spec => []ListInv
<1>1. Init => ListInv
  BY AgreeInit
<1>2. Core /\ ListInv /\ [Next]_vars => ListInv'
  BY AgreeStep, AgreeStutter
<1> QED BY <1>1, <1>2, CoreInvariant, PTL DEF Spec

\* When nothing is on the way the page lists the server's templates, unless something was
\* muddled on the way there.
THEOREM ListsAgree == Spec => []ListAgrees
<1>1. Core /\ ListInv => ListAgrees
  <2> SUFFICES ASSUME Core, ListInv, ~muddled, \A q \in Request : pc[q] = "free"
               PROVE  /\ DOMAIN list = DOMAIN server
                      /\ \A t \in DOMAIN list : list[t].groups = server[t].groups
    BY DEF ListAgrees
  <2>1. \A q \in Request : ~Busy(q)
    BY DEF Busy, Core, FieldInv, RequestInv
  <2>2. Same(list, server)
    BY <2>1 DEF ListInv
  <2> QED BY <2>2 DEF Same
<1> QED BY <1>1, CoreInvariant, ListInvariant, PTL

-----------------------------------------------------------------------------
(* What is run is what is shown.                                           *)

ServerHas == name \in DOMAIN server /\ server[name].groups = Content
DeleteServed == \E q \in Request : call[q].op = "delete" /\ pc[q] = "done"

\* While the scenario can be run nothing is being saved and the server has it, unless it just
\* deleted the template; what is being saved is what is shown.
RunInv ==
  ~raced /\ ~muddled =>
  /\ canRun => /\ \A q \in Request : call[q].op # "save"
               /\ ServerHas \/ DeleteServed
  /\ \A q \in Request : call[q].op = "save" =>
       /\ state # "add" /\ call[q].name = name /\ call[q].template.groups = Content
       /\ pc[q] = "done" => ServerHas

\* Steps that keep what is shown, or that end its being run.
RunQuiet ==
  /\ raced => raced'
  /\ muddled => muddled'
  /\ ~raced' /\ ~muddled' =>
       /\ canRun' => canRun
       /\ name' = name /\ Same(server', server)
       /\ canRun \/ state # "add" => groups' = groups
       /\ state' # "add" \/ state' = state \/ \A q \in Request : ~Busy(q)
       /\ \A q \in Request : call'[q].op = "save" =>
            call'[q] = call[q] /\ (pc'[q] = "done" => pc[q] = "done")
       /\ \A q \in Request : call[q].op = "delete" /\ pc[q] = "done" =>
            call'[q].op = "delete" /\ pc'[q] = "done"

LEMMA RunQuietStep ==
  ASSUME RunInv, RunQuiet
  PROVE  RunInv'
<1> SUFFICES ASSUME ~raced', ~muddled'
             PROVE  /\ canRun' => /\ \A q \in Request : call'[q].op # "save"
                                  /\ ServerHas' \/ DeleteServed'
                    /\ \A q \in Request : call'[q].op = "save" =>
                         /\ state' # "add" /\ call'[q].name = name'
                         /\ call'[q].template.groups = Content'
                         /\ pc'[q] = "done" => ServerHas'
  BY DEF RunInv
<1>1. /\ ~raced /\ ~muddled
      /\ canRun' => canRun
      /\ name' = name /\ Same(server', server)
      /\ canRun \/ state # "add" => groups' = groups
      /\ state' # "add" \/ state' = state \/ \A q \in Request : ~Busy(q)
      /\ \A q \in Request : call'[q].op = "save" =>
           call'[q] = call[q] /\ (pc'[q] = "done" => pc[q] = "done")
      /\ \A q \in Request : call[q].op = "delete" /\ pc[q] = "done" =>
           call'[q].op = "delete" /\ pc'[q] = "done"
  BY DEF RunQuiet
<1>2. /\ canRun => /\ \A q \in Request : call[q].op # "save"
                   /\ ServerHas \/ DeleteServed
      /\ \A q \in Request : call[q].op = "save" =>
           /\ state # "add" /\ call[q].name = name /\ call[q].template.groups = Content
           /\ pc[q] = "done" => ServerHas
  BY <1>1 DEF RunInv
<1>3. canRun \/ state # "add" => Content' = Content
  BY <1>1, ContentSame
<1>4. (canRun \/ state # "add") /\ ServerHas => ServerHas'
  BY <1>1, <1>3 DEF ServerHas, Same
<1>5. DeleteServed => DeleteServed'
  BY <1>1 DEF DeleteServed
<1>6. ASSUME canRun'
      PROVE  /\ \A q \in Request : call'[q].op # "save"
             /\ ServerHas' \/ DeleteServed'
  BY <1>1, <1>2, <1>4, <1>5, <1>6
<1>7. ASSUME NEW q \in Request, call'[q].op = "save"
      PROVE  /\ state' # "add" /\ call'[q].name = name'
             /\ call'[q].template.groups = Content'
             /\ pc'[q] = "done" => ServerHas'
  <2>1. call'[q] = call[q] /\ (pc'[q] = "done" => pc[q] = "done") /\ Busy(q)
    BY <1>1, <1>7 DEF Busy
  <2>2. state # "add" /\ call[q].name = name /\ call[q].template.groups = Content
        /\ (pc[q] = "done" => ServerHas)
    BY <1>2, <1>7, <2>1
  <2> QED BY <1>1, <1>3, <1>4, <2>1, <2>2
<1> QED BY <1>6, <1>7

\* Steps after which nothing can be run, nor is anything being saved.
LEMMA RunEnds ==
  ASSUME ~raced' /\ ~muddled' => ~canRun' /\ \A q \in Request : call'[q].op # "save"
  PROVE  RunInv'
BY DEF RunInv

\* Nothing was on the way when the user changes something that is not raced.
LEMMA EditFacts ==
  ASSUME RequestInv, HistoryInv, NEW more \in BOOLEAN, Edit(more)
  PROVE  (raced => raced') /\ (~raced' => \A q \in Request : ~Busy(q))
BY DEF Edit, InFlight, Busy, RequestInv, HistoryInv

LEMMA RunPage ==
  ASSUME Core, RunInv, PageOnly
  PROVE  RunInv'
<1>1. RequestInv /\ HistoryInv /\ PageInv
  BY DEF Core, FieldInv
<1>2. (muddled => muddled') /\ UNCHANGED <<name, server, pc, call>>
  BY PageOnlyFrame, MuddledPage DEF identity, requests
<1>3. Same(server', server)
  BY <1>2 DEF Same
<1>4. CASE /\ (raced => raced') /\ UNCHANGED canRun
           /\ canRun \/ state # "add" => groups' = groups
           /\ state' # "add" \/ state' = state \/ raced' \/ \A q \in Request : ~Busy(q)
  <2>1. RunQuiet
    BY <1>2, <1>3, <1>4 DEF RunQuiet
  <2> QED BY <2>1, RunQuietStep
<1>5. ASSUME NEW more \in BOOLEAN, Edit(more), ~canRun' \/ more
      PROVE  RunInv'
  <2>1. ~raced' => \A q \in Request : ~Busy(q)
    BY <1>1, <1>5, EditFacts
  <2>2. ~raced' => ~canRun'
    BY <1>5 DEF Edit
  <2>3. ~raced' => \A q \in Request : call'[q].op # "save"
    BY <1>2, <2>1 DEF Busy
  <2> QED BY <2>2, <2>3, RunEnds
<1>6. ASSUME NEW l \in Label, MouseEnterLabel(l)
      PROVE  RunInv'
  BY <1>4, <1>6 DEF MouseEnterLabel, scenario, history
<1>7. CASE MouseLeaveLabel \/ TimerEnds \/ CloseDialog \/ OpenRestart
  BY <1>4, <1>7 DEF MouseLeaveLabel, TimerEnds, CloseDialog, OpenRestart, scenario, history
<1>8. CASE OpenLoad \/ OpenRun \/ DeleteGroup
  BY <1>4, <1>8 DEF OpenLoad, OpenRun, DeleteGroup, scenario, history
<1>9. CASE LoadANetwork
  <2>1. state' = "view" /\ UNCHANGED <<groups, canRun, raced>>
    BY <1>9 DEF LoadANetwork, OpenNetwork, history
  <2> QED BY <1>4, <2>1
<1>10. ASSUME NEW index, NEW ask, Select(index, ask)
       PROVE  RunInv'
  BY <1>4, <1>10 DEF Select, scenario
<1>11. CASE EditMode
  <2>1. groups' = groups /\ state' # "add"
    BY <1>1, <1>11, EditModeStep
  <2>2. UNCHANGED <<canRun, raced>>
    BY <1>11 DEF EditMode, history
  <2> QED BY <1>4, <2>1, <2>2
<1>12. CASE Done \/ CancelDialog
  <2>1. ViewGroups /\ UNCHANGED <<canRun, raced>>
    BY <1>12 DEF Done, CancelDialog, history
  <2>2. state' = "view"
    BY <2>1 DEF ViewGroups
  <2>3. ASSUME canRun, state = "add"
        PROVE  groups' = groups
    <3>1. current \in Labels
      BY <1>1, <2>3 DEF PageInv, Stage, Pointers
    <3>2. Position(current) \in DOMAIN groups /\ groups[Position(current)].label = current
      BY <3>1, <1>1, PositionOf DEF PageInv
    <3>3. groups[Position(current)].segs = {} \/ groups[Position(current)].value # Unset
      BY <1>1, <2>3, <3>2 DEF PageInv, Stage
    <3>4. groups' = [groups EXCEPT ![Position(current)] = SetValues(@)]
      BY <2>1, <2>3 DEF ViewGroups
    <3> QED BY <1>1, <3>1, <3>3, <3>4, SetValuesChange DEF PageInv
  <2>4. state # "add" => groups' = groups
    BY <2>1 DEF ViewGroups
  <2> QED BY <1>4, <2>1, <2>2, <2>3, <2>4
<1>13. CASE AddRemove
  <2>1. Edit(FALSE) /\ UNCHANGED <<groups, canRun>>
    BY <1>13 DEF AddRemove
  <2>2. (raced => raced') /\ (raced' \/ \A q \in Request : ~Busy(q))
    BY <1>1, <2>1, EditFacts
  <2> QED BY <1>4, <2>1, <2>2
<1>14. ASSUME NEW l \in Label, AddGroup(l)
       PROVE  RunInv'
  BY <1>5, <1>14 DEF AddGroup
<1>15. ASSUME NEW s \in Segment, ToggleInclude(s)
       PROVE  RunInv'
  BY <1>5, <1>15 DEF ToggleInclude
<1>16. ASSUME NEW c \in Class, SaveValues(c)
       PROVE  RunInv'
  BY <1>5, <1>16 DEF SaveValues
<1>17. CASE ConfirmDelete
  BY <1>5, <1>17 DEF ConfirmDelete
<1> QED BY <1>6, <1>7, <1>8, <1>9, <1>10, <1>11, <1>12, <1>13, <1>14, <1>15, <1>16, <1>17
        DEF PageOnly

NoneEmpty == \A i \in DOMAIN groups : groups[i].segs # {}
AllKept ==
  /\ DOMAIN Content = DOMAIN groups
  /\ \A i \in DOMAIN groups : /\ Content[i].label = groups[i].label
                            /\ Content[i].segs = groups[i].segs
                            /\ Content[i].value = groups[i].value

LEMMA ContentKept == GroupsOK /\ NoneEmpty => AllKept
BY ContentAll DEF NoneEmpty, AllKept

LEMMA ContentSaved == GroupsOK => Content \in Seq(Saved)
BY ContentFields

\* A template that is loaded is shown as it is on the server.
LEMMA RunLoad ==
  ASSUME Core, ListInv, RunInv, LoadScenario
  PROVE  RunInv'
<1>1. RequestInv /\ HistoryInv /\ PageInv /\ TemplatesSound
  BY DEF Core, FieldInv
<1>2. Edit(FALSE) /\ UNCHANGED <<list, server, pc, call>>
      /\ muddled' = (muddled \/ InFlight({"delete"}) # {})
  BY DEF LoadScenario, requests
<1>3. CASE raced' \/ muddled'
  BY <1>3 DEF RunInv
<1>4. CASE ~raced' /\ ~muddled'
  <2>1. ~muddled /\ \A q \in Request : ~Busy(q)
    BY <1>1, <1>2, <1>4, EditFacts DEF HistoryInv
  <2>2. Same(list, server)
    BY <2>1 DEF ListInv
  <2>3. PICK t \in At(selected) : \E f \in [DOMAIN list[t].groups -> Class] :
          groups' = Loaded(list[t], f) /\ name' = t
    BY <1>1, LoadScenarioStep
  <2>4. PICK f \in [DOMAIN list[t].groups -> Class] : groups' = Loaded(list[t], f) /\ name' = t
    BY <2>3
  <2> DEFINE g == list[t].groups
  <2>5. t \in DOMAIN list /\ Sound(list[t])
    BY <1>1 DEF At, TemplatesSound
  <2>6. /\ g \in Seq(Saved)
        /\ \A i \in DOMAIN g : g[i].segs # {}
    BY <2>5, TemplateFields DEF Sound
  <2>7. /\ GroupsOK' /\ DOMAIN groups' = DOMAIN g
        /\ \A i \in DOMAIN groups' :
             /\ groups'[i].label = g[i].label /\ groups'[i].segs = g[i].segs
             /\ groups'[i].value = g[i].value
    BY <2>4, <2>5, LoadedGroups
  <2> HIDE DEF g
  <2>8. /\ DOMAIN Content' = DOMAIN g
        /\ \A i \in DOMAIN g : /\ Content'[i].label = g[i].label
                               /\ Content'[i].segs = g[i].segs
                               /\ Content'[i].value = g[i].value
    <3>1. \A i \in DOMAIN groups' : groups'[i].segs # {}
      BY <2>6, <2>7
    <3>2. NoneEmpty'
      BY <3>1 DEF NoneEmpty
    <3>3. (GroupsOK /\ NoneEmpty => AllKept)'
      BY ContentKept, PTL
    <3>4. AllKept'
      BY <2>7, <3>2, <3>3
    <3> QED BY <2>7, <3>4 DEF AllKept
  <2>9. Content' \in Seq(Saved)
    <3>1. (GroupsOK => Content \in Seq(Saved))'
      BY ContentSaved, PTL
    <3> QED BY <2>7, <3>1
  <2>10. Content' = g
    <3>1. \A i \in DOMAIN g : Content'[i] \in Saved /\ g[i] \in Saved
      BY <2>6, <2>8, <2>9
    <3>2. \A i \in DOMAIN g : Content'[i] = g[i]
      BY <2>8, <3>1 DEF Saved
    <3> QED BY ONLY <2>6, <2>8, <2>9, <3>2
  <2>11. ServerHas'
    BY <1>2, <2>2, <2>4, <2>5, <2>10 DEF ServerHas, Same, g
  <2>12. \A q \in Request : call'[q].op # "save"
    BY <1>2, <2>1 DEF Busy
  <2> QED BY <2>11, <2>12 DEF RunInv
<1> QED BY <1>3, <1>4

LEMMA RunSaving ==
  ASSUME Core, NEW q \in Request, Saving(q)
  PROVE  RunInv'
<1>1. RequestInv
  BY DEF Core, FieldInv
<1> DEFINE c == [op |-> "save", name |-> typed', template |-> [groups |-> Content, meta |-> meta]]
<1>2. /\ Send(q, c) /\ c.op = "save" /\ c.name = name' /\ c.template.groups = Content
  BY SavingFacts
<1> HIDE DEF c
<1>3. /\ raced' = (canRun \/ InFlight({"save", "delete"}) # {})
      /\ state # "add" /\ UNCHANGED <<state, groups, canRun>>
  BY DEF Saving, SaveScenario, scenario
<1>4. CASE raced'
  BY <1>4 DEF RunInv
<1>5. CASE ~raced'
  <2>1. ~canRun' /\ \A r \in Request : ~Busy(r)
    BY <1>1, <1>3, <1>5 DEF InFlight, Busy, RequestInv
  <2>2. /\ call'[q] = c /\ pc'[q] = "sent"
        /\ \A r \in Request : r # q => call'[r] = call[r]
    BY <1>1, <1>2, SendFacts
  <2>3. Content' = Content
    BY <1>3, ContentSame
  <2>4. \A r \in Request : call'[r].op = "save" => r = q
    BY <2>1, <2>2 DEF Busy
  <2> QED BY <1>2, <1>3, <2>1, <2>2, <2>3, <2>4 DEF RunInv
<1> QED BY <1>4, <1>5

LEMMA RunDelete ==
  ASSUME Core, RunInv, NEW q \in Request, DeleteTemplate(q)
  PROVE  RunInv'
<1>1. RequestInv /\ HistoryInv
  BY DEF Core, FieldInv
<1>2. PICK t \in At(selected) : Send(q, [op |-> "delete", name |-> t])
  BY DEF DeleteTemplate
<1> DEFINE c == [op |-> "delete", name |-> t]
<1>3. Send(q, c) /\ c.op = "delete"
  BY <1>2
<1> HIDE DEF c
<1>4. /\ raced' = (raced \/ InFlight({"save", "delete"}) # {})
      /\ muddled' = (muddled \/ InFlight({"save", "delete", "metadata"}) # {})
      /\ UNCHANGED <<name, groups, state, canRun>>
  BY DEF DeleteTemplate, identity, scenario
<1>5. /\ call[q].op = "none" /\ call'[q] = c /\ server' = server
      /\ \A r \in Request : r # q => call'[r] = call[r] /\ pc'[r] = pc[r]
  BY <1>1, <1>3, SendFacts
<1>6. RunQuiet
  BY <1>3, <1>4, <1>5 DEF RunQuiet, Same
<1> QED BY <1>6, RunQuietStep

LEMMA RunSaveDone ==
  ASSUME Core, ListInv, RunInv, NEW q \in Request, SaveDone(q)
  PROVE  RunInv'
<1>1. RequestInv /\ HistoryInv
  BY DEF Core, FieldInv
<1>2. /\ Take(q, "save", "done") /\ ViewGroups
      /\ UNCHANGED <<name, raced, muddled>>
  BY DEF SaveDone, history
<1>3. CASE raced \/ muddled
  BY <1>2, <1>3 DEF RunInv
<1>4. CASE ~raced /\ ~muddled
  <2>1. /\ call[q].op = "save" /\ pc[q] = "done" /\ call'[q].op = "none" /\ server' = server
        /\ \A r \in Request : r # q => call'[r] = call[r]
    BY <1>1, <1>2, TakeFacts
  <2>2. state # "add" /\ ServerHas
    BY <1>4, <2>1 DEF RunInv
  <2>3. groups' = groups
    BY <1>2, <2>2 DEF ViewGroups
  <2>4. ServerHas'
    BY <1>2, <2>1, <2>2, <2>3, ContentSame DEF ServerHas
  <2>5. \A r \in Request : Busy(r) => r = q
    BY <1>4, <2>1 DEF ListInv, Busy
  <2>6. \A r \in Request : call'[r].op # "save"
    BY <2>1, <2>5 DEF Busy
  <2> QED BY <2>4, <2>6 DEF RunInv
<1> QED BY <1>3, <1>4

\* The server does what was asked for.
LEMMA RunServer ==
  ASSUME Core, ListInv, RunInv, NEW q \in Request, ServerStep(q)
  PROVE  RunInv'
<1>1. RequestInv /\ HistoryInv /\ FieldInv
  BY DEF Core, FieldInv
<1>2. /\ UNCHANGED <<name, groups, state, canRun, call, raced>>
      /\ muddled' = (muddled \/ pc[q] = "done")
  BY <1>1, ServerFrame DEF identity, scenario
<1>3. /\ \A r \in Request : r # q => pc'[r] = pc[r]
      /\ pc'[q] \in {"done", "failed"}
  BY <1>1, ServerFacts
<1>4. CASE raced' \/ muddled'
  BY <1>4 DEF RunInv
<1>5. CASE ~raced' /\ ~muddled'
  <2>1. ~raced /\ ~muddled /\ pc[q] # "done" /\ Content' = Content
    BY <1>1, <1>2, <1>5, ContentSame DEF HistoryInv
  <2>2. /\ canRun => /\ \A r \in Request : call[r].op # "save"
                     /\ ServerHas \/ DeleteServed
        /\ \A r \in Request : call[r].op = "save" =>
             /\ state # "add" /\ call[r].name = name /\ call[r].template.groups = Content
             /\ pc[r] = "done" => ServerHas
    BY <2>1 DEF RunInv
  <2>3. \A r \in Request : r # q /\ Busy(q) => ~Busy(r)
    BY <2>1 DEF ListInv
  <2>4. CASE call[q].op = "save" /\ server' = With(server, call[q].name, call[q].template)
    <3>1. /\ ~canRun /\ state # "add" /\ call[q].name = name
          /\ call[q].template.groups = Content
      BY <2>2, <2>4
    <3>2. name' \in DOMAIN server' /\ server'[name'] = call[q].template
      BY <1>2, <2>4, <3>1 DEF With
    <3>3. ServerHas'
      BY <2>1, <3>1, <3>2 DEF ServerHas
    <3>4. \A r \in Request : call'[r].op = "save" => r = q
      BY <1>2, <2>3, <2>4 DEF Busy
    <3> QED BY <1>2, <2>1, <3>1, <3>3, <3>4 DEF RunInv
  <2>5. CASE call[q].op = "delete" /\ pc'[q] = "done"
    <3>1. DeleteServed'
      BY <1>2, <2>5 DEF DeleteServed
    <3>2. \A r \in Request : call'[r].op # "save"
      BY <1>2, <2>3, <2>5 DEF Busy
    <3> QED BY <3>1, <3>2 DEF RunInv
  <2>6. CASE /\ Same(server', server)
             /\ pc'[q] = "failed" \/ call[q].op # "save"
    <3>1. RunQuiet
      BY <1>2, <1>3, <2>1, <2>6 DEF RunQuiet
    <3> QED BY <3>1, RunQuietStep
  <2>7. CASE pc' = [pc EXCEPT ![q] = "failed"] /\ server' = server
    <3>1. pc'[q] = "failed"
      BY <1>1, <2>7 DEF RequestInv
    <3> QED BY <2>6, <2>7, <3>1 DEF Same
  <2>8. CASE call[q].op \notin {"save", "delete"} /\ server' = server
    BY <2>6, <2>8 DEF Same
  <2>9. CASE /\ call[q].op = "metadata" /\ call[q].name \in DOMAIN server
             /\ server' = [server EXCEPT ![call[q].name].meta[call[q].seg] = call[q].class]
    BY <1>1, <2>6, <2>9, MetaSame
  <2>10. pc' = [pc EXCEPT ![q] = "done"] => pc'[q] = "done"
    BY <1>1 DEF RequestInv
  <2> QED BY <2>4, <2>5, <2>7, <2>8, <2>9, <2>10, ServerKinds
<1> QED BY <1>4, <1>5

LEMMA RunStep ==
  ASSUME Core, ListInv, RunInv, Next
  PROVE  RunInv'
<1>1. RequestInv /\ HistoryInv
  BY DEF Core, FieldInv
<1>2. CASE PageOnly
  BY <1>2, RunPage
<1>3. CASE Restart
  <2>1. Edit(FALSE) /\ ~canRun' /\ call' = call
    BY <1>3 DEF Restart, Restarted, requests
  <2>2. ~raced' => \A q \in Request : call'[q].op # "save"
    BY <1>1, <2>1, EditFacts DEF Busy
  <2> QED BY <2>1, <2>2, RunEnds
<1>4. CASE LoadScenario
  BY <1>4, RunLoad
<1>5. CASE /\ UNCHANGED <<name, groups, state, canRun, raced, muddled>> /\ Same(server', server)
           /\ \A q \in Request : (Busy(q) /\ pc[q] = "done") \/ call'[q].op = "save" =>
                call'[q] = call[q] /\ pc'[q] = pc[q]
  <2>1. RunQuiet
    BY <1>5 DEF RunQuiet, Busy
  <2> QED BY <2>1, RunQuietStep
<1>6. CASE Asking
  <2>1. UNCHANGED <<name, groups, state, canRun, raced, muddled, server, call, pc>>
    BY <1>6 DEF Asking, scenario, history, requests
  <2> QED BY <1>5, <2>1 DEF Same
<1>7. ASSUME NEW q \in Request, NEW c, Send(q, c), c.op # "save",
             UNCHANGED <<name, groups, state, canRun, raced, muddled>>
      PROVE  RunInv'
  <2>1. /\ call[q].op = "none" /\ call'[q] = c /\ server' = server
        /\ \A r \in Request : r # q => call'[r] = call[r] /\ pc'[r] = pc[r]
    BY <1>1, <1>7, SendFacts
  <2>2. Same(server', server)
    BY <2>1 DEF Same
  <2>3. ~Busy(q) /\ call'[q].op # "save"
    BY <1>7, <2>1 DEF Busy
  <2> QED BY <1>5, <1>7, <2>1, <2>2, <2>3
<1>8. ASSUME NEW q \in Request, NEW op, NEW phase, Take(q, op, phase),
             phase = "failed" \/ op = "metadata",
             UNCHANGED <<name, groups, state, canRun, raced, muddled>>
      PROVE  RunInv'
  <2>1. /\ pc[q] = phase /\ call[q].op = op /\ call'[q].op = "none" /\ server' = server
        /\ \A r \in Request : r # q => call'[r] = call[r] /\ pc'[r] = pc[r]
    BY <1>1, <1>8, TakeFacts
  <2>2. Same(server', server)
    BY <2>1 DEF Same
  <2>3. ~(Busy(q) /\ pc[q] = "done") /\ call'[q].op # "save"
    BY <1>8, <2>1 DEF Busy
  <2> QED BY <1>5, <1>8, <2>1, <2>2, <2>3
<1>9. ASSUME NEW q \in Request, NEW s \in Segment, NEW c \in Class, EditMetadata(q, s, c)
      PROVE  RunInv'
  <2> DEFINE d == [op |-> "metadata", name |-> name, seg |-> s, class |-> c]
  <2>1. UNCHANGED <<name, groups, state, canRun, raced, muddled>>
    BY <1>9 DEF EditMetadata, scenario
  <2>2. CASE Send(q, d)
    <3>1. d.op # "save"
      OBVIOUS
    <3> HIDE DEF d
    <3> QED BY <1>7, <2>1, <2>2, <3>1
  <2>3. CASE UNCHANGED requests
    BY <1>5, <2>1, <2>3 DEF requests, Same
  <2> QED BY <1>9, <2>2, <2>3, EditMetadataKinds
<1>10. ASSUME NEW q \in Request, Saving(q)
       PROVE  RunInv'
  BY <1>10, RunSaving
<1>11. ASSUME NEW q \in Request, DeleteTemplate(q)
       PROVE  RunInv'
  BY <1>11, RunDelete
<1>12. ASSUME NEW q \in Request, RunScenario(q)
       PROVE  RunInv'
  <2> DEFINE d == [op |-> "run", name |-> name]
  <2>1. /\ Send(q, d) /\ d.op # "save"
        /\ UNCHANGED <<name, groups, state, canRun, raced, muddled>>
    BY <1>12 DEF RunScenario, scenario, identity, history
  <2> HIDE DEF d
  <2> QED BY <1>7, <2>1
<1>13. ASSUME NEW q \in Request, MetadataDone(q)
       PROVE  RunInv'
  BY <1>8, <1>13 DEF MetadataDone, scenario, history
<1>14. ASSUME NEW q \in Request, SaveDone(q)
       PROVE  RunInv'
  BY <1>14, RunSaveDone
<1>15. ASSUME NEW q \in Request, NEW op, Take(q, op, "done"), op # "save",
              ~raced' => InFlight({"save"}) = {}, ~canRun'
       PROVE  RunInv'
  <2>1. /\ call'[q].op = "none" /\ \A r \in Request : r # q => call'[r] = call[r]
    BY <1>1, <1>15, TakeFacts
  <2>2. ~raced' => \A r \in Request : call[r].op # "save"
    BY <1>1, <1>15 DEF InFlight, RequestInv
  <2> QED BY <1>15, <2>1, <2>2, RunEnds
<1>16. ASSUME NEW q \in Request, DeleteDone(q) \/ RunDone(q)
       PROVE  RunInv'
  <2>1. ~canRun' /\ (~raced' => InFlight({"save"}) = {})
    BY <1>1, <1>16 DEF DeleteDone, RunDone, Restarted, InFlight, HistoryInv
  <2>2. Take(q, "delete", "done") \/ Take(q, "run", "done")
    BY <1>16 DEF DeleteDone, RunDone
  <2> QED BY <1>15, <2>1, <2>2
<1>17. ASSUME NEW q \in Request, Failed(q)
       PROVE  RunInv'
  <2>1. PICK op \in {"metadata", "save", "run", "delete"} : Take(q, op, "failed")
    BY <1>17 DEF Failed
  <2>2. UNCHANGED <<name, groups, state, canRun, raced, muddled>>
    BY <1>17 DEF Failed, scenario, identity, history
  <2> QED BY <1>8, <2>1, <2>2
<1>18. ASSUME NEW q \in Request, ServerStep(q)
       PROVE  RunInv'
  BY <1>18, RunServer
<1> QED BY <1>2, <1>3, <1>4, <1>6, <1>9, <1>10, <1>11, <1>12, <1>13, <1>14, <1>16, <1>17, <1>18,
           NextKinds

LEMMA RunInit ==
  ASSUME Init
  PROVE  RunInv
<1>1. ~canRun /\ \A q \in Request : call[q].op = "none"
  BY DEF Init, NoCall
<1> QED BY <1>1 DEF RunInv

LEMMA RunStutter ==
  ASSUME RunInv, UNCHANGED vars
  PROVE  RunInv'
<1>1. UNCHANGED <<scenario, identity, requests, history>>
  BY DEF vars
<1>2. RunQuiet
  BY <1>1 DEF RunQuiet, Same, scenario, identity, requests, history
<1> QED BY <1>2, RunQuietStep

\* What can be run is on the server, and what is being saved is what the page shows.
THEOREM RunInvariant == Spec => []RunInv
<1>1. Init => RunInv
  BY RunInit
<1>2. Core /\ ListInv /\ RunInv /\ [Next]_vars => RunInv'
  BY RunStep, RunStutter
<1> QED BY <1>1, <1>2, CoreInvariant, ListInvariant, PTL DEF Spec

\* Run starts what the page shows: while the button is enabled the server has the page's groups
\* under the name that would be sent, except for what raced, was muddled or is being deleted.
THEOREM RunsWhatIsShown == Spec => []RunSaved
<1>1. Core /\ RunInv => RunSaved
  <2> SUFFICES ASSUME Core, RunInv, canRun, ~raced, ~muddled, InFlight({"delete"}) = {}
               PROVE  name \in DOMAIN server /\ server[name].groups = Content
    BY DEF RunSaved
  <2>1. ~DeleteServed
    BY DEF DeleteServed, InFlight
  <2> QED BY <2>1 DEF RunInv, ServerHas
<1> QED BY <1>1, CoreInvariant, RunInvariant, PTL
==============================================================================
