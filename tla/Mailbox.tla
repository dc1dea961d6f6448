------------------------------- MODULE Mailbox -------------------------------
(***************************************************************************)
(* What a block's message queue promises to the blocks that notify it: one *)
(* message is dealt with at a time, each at most once, oldest first; a     *)
(* message the block cannot take now goes to the end of the line; and a    *)
(* message is lost only while the block is out of service.                 *)
(***************************************************************************)
EXTENDS Sequences

CONSTANT Item

VARIABLES
  pending,  \* the messages not dealt with, oldest first
  posted,   \* the messages given to the mailbox so far
  handled,  \* the messages dealt with, in order
  open      \* is the block in service?

mvars == <<pending, posted, handled, open>>

Init ==
  /\ pending = <<>>
  /\ posted = {}
  /\ handled = <<>>
  /\ open = TRUE

Post(i) ==
  /\ i \notin posted
  /\ posted' = posted \cup {i}
  /\ pending' = Append(pending, i)
  /\ UNCHANGED <<handled, open>>

Handle ==
  /\ pending # <<>>
  /\ handled' = Append(handled, Head(pending))
  /\ pending' = Tail(pending)
  /\ UNCHANGED <<posted, open>>

Defer ==
  /\ pending # <<>>
  /\ pending' = Append(Tail(pending), Head(pending))
  /\ UNCHANGED <<posted, handled, open>>

Discard ==
  /\ ~open
  /\ pending # <<>>
  /\ pending' = Tail(pending)
  /\ UNCHANGED <<posted, handled, open>>

\* Everything is thrown away except a message somebody is working on.
Clear ==
  /\ ~open
  /\ pending # <<>>
  /\ pending' \in {<<>>, <<Head(pending)>>}
  /\ UNCHANGED <<posted, handled, open>>

OpenOrClose ==
  /\ open' = ~open
  /\ UNCHANGED <<pending, posted, handled>>

Next ==
  \/ \E i \in Item : Post(i)
  \/ Handle \/ Defer \/ Discard \/ Clear
  \/ OpenOrClose

Spec == Init /\ [][Next]_mvars

=============================================================================
