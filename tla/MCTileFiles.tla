----------------------------- MODULE MCTileFiles -----------------------------
(***************************************************************************)
(* A small configuration for TileFiles: two archive files that are         *)
(* collected, and two equal requests for a time that both of them match.   *)
(***************************************************************************)
EXTENDS TileFiles

CONSTANTS f, g, collectedF, collectedG, request, again

MCInfo == {collectedF, collectedG, request, again}
MCKind == [i \in MCInfo |-> IF i \in {collectedF, collectedG} THEN "realTime" ELSE "requests"]
MCKey == [i \in MCInfo |-> IF i = again THEN request ELSE i]
MCWanted == [i \in MCInfo |-> IF i = collectedF THEN {f}
                              ELSE IF i = collectedG THEN {g} ELSE {f, g}]

=============================================================================
