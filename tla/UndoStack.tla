----------------------------- MODULE UndoStack -----------------------------
(***************************************************************************)
(* What undo promises, with nothing said of how: a write moves the state   *)
(* and remembers the one it left, an undo returns to the last state        *)
(* remembered and forgets it.  There is no redo.                           *)
(***************************************************************************)
EXTENDS Naturals

VARIABLES
  now,   \* the state of the game
  past   \* the states an undo can still reach: a function from the
         \* moments at which they were left

Init == past = <<>>

Do ==
  \E n \in DOMAIN past' :
    /\ \A m \in DOMAIN past : m < n
    /\ now' # now
    /\ past' = [x \in DOMAIN past \cup {n} |-> IF x = n THEN now ELSE past[x]]

Undo ==
  \E n \in DOMAIN past :
    /\ \A m \in DOMAIN past : m <= n
    /\ now' = past[n]
    /\ past' = [x \in DOMAIN past \ {n} |-> past[x]]

Next == Do \/ Undo

Spec == Init /\ [][Next]_<<now, past>>

=============================================================================
