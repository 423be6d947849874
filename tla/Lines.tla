------------------------------- MODULE Lines -------------------------------
(***************************************************************************)
(* From keys to lines: test_t1 of init/main.c puts keys into a pipe, a     *)
(* byte at a time, and gets_s of lib/libc edits what it reads from it into *)
(* the lines of the shell.                                                 *)
(*                                                                         *)
(* Of the pipe only what Pipe says of single bytes is kept: it hands them  *)
(* on in order, and refuses one when it is full.                           *)
(***************************************************************************)
EXTENDS Integers, Sequences

CONSTANTS
  Letter,     \* printable bytes; the code of a control key is one of them
  LineMax,    \* the len of gets_s
  KeyRoom,    \* the bytes the pipe takes before it is full, PIPE_SIZE - 1
  MaxKeys     \* bound: keys pressed ahead of the shell

ASSUME LinesAssumption ==
  /\ LineMax \in Nat \ {0} /\ KeyRoom \in Nat \ {0}
  /\ Letter \cap {"nl", "bs", "nul"} = {}

VARIABLES
  keys,     \* the bytes in the pipe
  code,     \* the code that test_t1 has still to write, "nul" if none
  shell,    \* what the shell does: see Doing
  mem,      \* its buffer; mem[LineMax] is the byte gets_s leaves alone
  str,      \* the index of gets_s in it
  len,      \* what is left of its argument
  pressed,  \* history: the keys that no line has taken yet
  meant,    \* history: the keys of the line the shell looks at
  dropped   \* history: a full pipe has dropped a byte

lineVars == <<keys, code, shell, mem, str, len, pressed, meant, dropped>>

(* command: it has a line or none yet; reading, control: in gets_s, the    *)
(* second between the two getch of a control key; astray: gets_s has left  *)
(* its buffer                                                              *)
Doing == {"command", "reading", "control", "astray"}

(* A key is a byte, or a zero and a code. *)
Key == [byte : Letter \cup {"nl", "bs"}, code : {"nul"}]
         \cup [byte : {"nul"}, code : Letter]

LinesInit ==
  /\ keys = <<>> /\ code = "nul"
  /\ shell = "command"
  /\ mem = [i \in 0 .. LineMax |-> "nul"] /\ str = 0 /\ len = LineMax
  /\ pressed = <<>> /\ meant = <<>> /\ dropped = FALSE

----------------------------------------------------------------------------
(* test_t1: a byte goes into the pipe; a full one refuses it, and nobody   *)
(* looks at what sys_write returns.  Once a byte is lost it is not known   *)
(* any more which keys make a line.                                        *)
Push(b, ks) ==
  /\ keys' = IF Len(keys) = KeyRoom THEN keys ELSE Append(keys, b)
  /\ dropped' = (dropped \/ Len(keys) = KeyRoom)
  /\ pressed' = IF dropped' THEN <<>> ELSE ks

(* A key is echoed and passed on; of one with a code, first the zero. *)
TakeKey(k) ==
  /\ code = "nul" /\ Len(pressed) < MaxKeys
  /\ Push(k.byte, Append(pressed, k)) /\ code' = k.code
  /\ UNCHANGED <<shell, mem, str, len, meant>>

TakeCode ==
  /\ code # "nul"
  /\ Push(code, pressed) /\ code' = "nul"
  /\ UNCHANGED <<shell, mem, str, len, meant>>

----------------------------------------------------------------------------
(* The shell is done with a line, has printed its prompt and calls gets_s. *)
NextLine ==
  /\ shell = "command"
  /\ shell' = "reading"
  /\ str' = 0 /\ len' = LineMax
  /\ meant' = <<>>
  /\ UNCHANGED <<keys, code, mem, pressed, dropped>>

(* getch reads the pipe until there is a byte. *)
Getch == keys # <<>> /\ keys' = Tail(keys)

(* The end of gets_s, at a newline or after len characters.  The keys it   *)
(* has taken are the first of those pressed.                               *)
Finish(m, taken) ==
  /\ mem' = m
  /\ shell' = "command"
  /\ meant' = IF dropped THEN <<>> ELSE SubSeq(pressed, 1, taken)
  /\ pressed' = IF dropped THEN <<>> ELSE SubSeq(pressed, taken + 1, Len(pressed))
  /\ UNCHANGED <<str, len>>

(* gets_s goes round its loop, unless len is used up, with its index at i. *)
Continue(m, i) ==
  IF len = 1 THEN Finish(m, LineMax)
  ELSE /\ mem' = m /\ str' = i /\ len' = len - 1
       /\ shell' = "reading" /\ UNCHANGED <<meant, pressed>>

(* Mutant of Edit: a backspace takes back itself only. *)
EditOne(c) ==
  CASE c = "nl" -> Finish([mem EXCEPT ![str] = "nul"], LineMax - len + 1)
    [] c = "bs" -> Continue([mem EXCEPT ![str] = "nul"], str)
    [] OTHER -> Continue([mem EXCEPT ![str] = c], str + 1)

(* One character of gets_s, stored at str.  A backspace clears itself and  *)
(* the character before it, where the next one goes; that of an empty line *)
(* is outside the buffer, and so is all that follows: the shell stops here *)
(* there.                                                                  *)
Edit(c) ==
  CASE c = "nl" -> Finish([mem EXCEPT ![str] = "nul"], LineMax - len + 1)
    [] c = "bs" /\ str = 0 ->
         shell' = "astray" /\ UNCHANGED <<mem, str, len, meant, pressed>>
    [] c = "bs" /\ str > 0 ->
         Continue([mem EXCEPT ![str] = "nul", ![str - 1] = "nul"], str - 1)
    [] OTHER -> Continue([mem EXCEPT ![str] = c], str + 1)

ReadCharacter ==
  /\ shell = "reading" /\ Getch /\ Head(keys) # "nul"
  /\ Edit(Head(keys))
  /\ UNCHANGED <<code, dropped>>

(* getchar: a zero announces a code, which a second getch takes. *)
ReadZero ==
  /\ shell = "reading" /\ Getch /\ Head(keys) = "nul"
  /\ shell' = "control"
  /\ UNCHANGED <<code, mem, str, len, pressed, meant, dropped>>

ReadCode ==
  /\ shell = "control" /\ Getch
  /\ Continue([mem EXCEPT ![str] = "nul"], str)
  /\ UNCHANGED <<code, dropped>>

LinesNext ==
  \/ \E k \in Key : TakeKey(k)
  \/ TakeCode
  \/ NextLine
  \/ ReadCharacter \/ ReadZero \/ ReadCode

LinesSpec == LinesInit /\ [][LinesNext]_lineVars
----------------------------------------------------------------------------
(* What a line of keys comes to *)
Edited(ks) ==
  LET text[i \in 0 .. Len(ks)] ==
        IF i = 0 THEN <<>>
        ELSE CASE ks[i].byte \in Letter -> Append(text[i - 1], ks[i].byte)
               [] ks[i].byte = "bs" -> SubSeq(text[i - 1], 1, Len(text[i - 1]) - 1)
               [] OTHER -> text[i - 1]
  IN  text[Len(ks)]

(* The string in the buffer *)
LineText ==
  LET n == CHOOSE i \in 0 .. LineMax : mem[i] = "nul" /\ \A j \in 0 .. i - 1 : mem[j] # "nul"
  IN  [i \in 1 .. n |-> mem[i - 1]]

(* gets_s ends a line at the newline with the text its keys come to:       *)
(* letters less those a backspace took back, and nothing of a control key, *)
(* whose two bytes the key thread writes one at a time; whatever is typed  *)
(* ahead, and whatever an earlier line has left in the buffer.  It does so *)
(* until a full pipe drops a byte.                                         *)
LineIsEdited ==
  /\ shell = "command" /\ meant # <<>> /\ ~dropped
  /\ meant[Len(meant)].byte = "nl"
  => LineText = Edited(meant)
=============================================================================
