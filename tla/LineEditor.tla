----------------------------- MODULE LineEditor -----------------------------
(***************************************************************************)
(* What the console's input promises: a line can be edited until it is     *)
(* ended; ended lines are handed out in order, and nothing edits them.     *)
(***************************************************************************)
EXTENDS Naturals, Sequences

CONSTANTS Char, Ends, Capacity    \* Ends: the characters that end a line

VARIABLES pending, line      \* ended and not yet read; being edited

Type(c) ==
    /\ Len(pending) + Len(line) < Capacity
    /\ IF c \in Ends \/ Len(pending) + Len(line) + 1 = Capacity
       THEN pending' = pending \o Append(line, c) /\ line' = <<>>
       ELSE line' = Append(line, c) /\ UNCHANGED pending

Rubout ==
    /\ line # <<>> /\ line' = SubSeq(line, 1, Len(line) - 1)
    /\ UNCHANGED pending

KillLine == line' = <<>> /\ UNCHANGED pending

Take == pending # <<>> /\ pending' = Tail(pending) /\ UNCHANGED line

EditorInit == pending = <<>> /\ line = <<>>

EditorNext == (\E c \in Char : Type(c)) \/ Rubout \/ KillLine \/ Take

EditorSpec == EditorInit /\ [][EditorNext]_<<pending, line>>
=============================================================================
