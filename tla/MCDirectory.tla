----------------------------- MODULE MCDirectory -----------------------------
(***************************************************************************)
(* A small configuration for Directory: c waits for two blocks of its own  *)
(* kind and for a servlet, which in its turn waits for one of the two.     *)
(***************************************************************************)
EXTENDS Directory

CONSTANTS a, b, c, s

MCCore == {a, b, c}
MCServlet == {s}
MCSubscribes ==
  [n \in {a, b, c, s} |-> IF n = c THEN {a, b, s} ELSE IF n = s THEN {b} ELSE {}]

\* a, b and s may each queue a Startup for c: three threads can be at it.
MCTask == 1 .. 3

=============================================================================
