-------------------------- MODULE MCKTGameSessions --------------------------
(***************************************************************************)
(* A game with one operative (row 1) and one piece of equipment (row 2).   *)
(* Histories: a new game; one with a piece taken; one with a write undone; *)
(* one that is finished.                                                   *)
(***************************************************************************)
EXTENDS KTGameSessions

Logged(op, row, before, undone_by) ==
  [op |-> op, row |-> row, before |-> before, undone_by |-> undone_by]

NewHistory ==
  [alive |-> TRUE, version |-> 1, rows |-> (0 :> 0 @@ 1 :> 0), log |-> <<>>]

TakenHistory ==
  [alive |-> TRUE, version |-> 2, rows |-> (0 :> 0 @@ 1 :> 0 @@ 2 :> 0),
   log |-> <<Logged("created", 2, None, None)>>]

UndoneHistory ==
  [alive |-> TRUE, version |-> 3, rows |-> (0 :> 0 @@ 1 :> 0),
   log |-> <<Logged("fields", 0, 0, 2), Logged("undo", 0, None, None)>>]

FinishedHistory ==
  [alive |-> TRUE, version |-> 3, rows |-> (0 :> Finished @@ 1 :> 1),
   log |-> <<Logged("fields", 1, 0, None), Logged("fields", 0, 0, None)>>]

MCHistories == {NewHistory, TakenHistory, FinishedHistory}
MCUndoneHistories == MCHistories \cup {UndoneHistory}

Asks(kind, row, expected) == [kind |-> kind, row |-> row, expected |-> expected]

Plays ==
  {Asks("write", 0, None), Asks("write", 0, 2), Asks("write", 1, None), Asks("finish", 0, None),
   Asks("add", 2, None), Asks("remove", 2, None), Asks("undo", 0, None), Asks("read", 0, None)}

MCPlays == Plays
MCJobs == Plays \cup {Asks("delete", 0, None)}

MCRequestSymmetry == Permutations(Requests)

MCInOrder == {[i \in 1..5 |-> i]}
MCAnyOrder == {[i \in 1..5 |-> i], [i \in 1..5 |-> 6 - i]}

=============================================================================
