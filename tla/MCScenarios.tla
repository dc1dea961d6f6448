---------------------------- MODULE MCScenarios ----------------------------
(* Two segments with the same lanes; the first template has both in a group. *)
EXTENDS Scenarios, TLC

CONSTANTS s1, s2, A, B, q1, q2

MCSegment == {s1, s2}
MCRequest == {q1, q2}
MCLabel == {A, B}
MCClass == {1, 2}
MCBaseClass == [s \in MCSegment |-> 1]
MCTemplates ==
  1 :> [groups |-> << [label |-> A, segs |-> {s1, s2}, value |-> 1] >>,
        meta |-> [s \in MCSegment |-> 0]]

\* Segments are alike, and so are requests.
Interchangeable == Permutations(MCSegment) \cup Permutations(MCRequest)
=============================================================================
