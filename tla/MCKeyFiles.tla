----------------------------- MODULE MCKeyFiles -----------------------------
(* What the key thread waits for and what user threads hold: the keyboard    *)
(* with a ring of three bytes, and the descriptor tables of init and one     *)
(* forked thread, of three entries, with two files.  Neither model looks at  *)
(* the other: one of them moves in a behaviour.                              *)
EXTENDS Keyboard, Files, TLC

CONSTANTS init, sh, f1, f2, none

SomeKeys == {"E0", "letter", "shift", "shiftUp", "caps"}
TwoThreads == {init, sh}
TwoFiles == {f1, f2}
Files2 == Permutations(TwoFiles)

VARIABLE moving

KeyFilesInit == moving \in {"Keyboard", "Files"} /\ Init /\ FilesInit

KeyFilesNext ==
  \/ moving = "Keyboard" /\ Next /\ UNCHANGED <<fileVars, moving>>
  \/ moving = "Files" /\ FilesNext /\ UNCHANGED <<vars, moving>>

KeyFilesSpec == KeyFilesInit /\ [][KeyFilesNext]_<<moving, vars, fileVars>>
=============================================================================
