---------------------------- MODULE MCTerminal ----------------------------
(* Lines, Texts and Screen for TLC.  They have no state in common, so they *)
(* are checked side by side: one moves while the others have not begun.    *)
EXTENDS Lines, Texts, Screen

TerminalInit == LinesInit /\ TextsInit /\ ScreenInit

TerminalNext ==
  \/ LinesNext  /\ TextsInit /\ ScreenInit /\ UNCHANGED <<textVars, scrVars>>
  \/ TextsNext  /\ LinesInit /\ ScreenInit /\ UNCHANGED <<lineVars, scrVars>>
  \/ ScreenNext /\ LinesInit /\ TextsInit  /\ UNCHANGED <<lineVars, textVars>>

TerminalSpec ==
  TerminalInit /\ [][TerminalNext]_<<lineVars, textVars, scrVars>>
===========================================================================
