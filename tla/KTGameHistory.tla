--------------------------- MODULE KTGameHistory ----------------------------
(***************************************************************************)
(* KTGame with a history variable: past remembers, by its sequence, the    *)
(* whole state each standing event left.  The code keeps no such thing:    *)
(* it keeps the log, whose payloads hold only the fields each write moved. *)
(* That the log is enough, that field by field undo lands exactly on the   *)
(* state that was left, is the refinement of UndoStack.                    *)
(***************************************************************************)
EXTENDS KTGame

VARIABLE past

HInit == Init /\ past = <<>>

HPlay == Play /\ past' = With(past, NextSequence, State)

HUndo == Undo /\ past' = Without(past, Highest(Standing))

HNext == HPlay \/ HUndo

HSpec == HInit /\ [][HNext]_<<vars, past>>

-----------------------------------------------------------------------------
Abstract == INSTANCE UndoStack WITH now <- State

(* KTGameService.undo restores the whole game, its operatives and its      *)
(* equipment to what they were before the newest standing event, and every *)
(* other write changes something an undo can take back: docstrings of      *)
(* KTGameEvent, _write and undo, and decision #58.                         *)
UndoRestores == Abstract!Spec

=============================================================================
