------------------------------- MODULE Screen -------------------------------
(***************************************************************************)
(* The text screen of hardware/vga.c, in characters instead of pixels, and *)
(* the threads that print on it: the key thread echoes, test_t2 prints     *)
(* what the shell says, and a system call clears the screen or sets the    *)
(* cursor.  They share cur_x and cur_y; the lock in printf is commented    *)
(* out, and only a newline and a scroll run with interrupts off.           *)
(*                                                                         *)
(* What the screen should show is given by a roll of paper, which has a    *)
(* new line when the pen passes its end.                                   *)
(***************************************************************************)
EXTENDS Integers, Sequences, FiniteSets

CONSTANTS
  Printer,         \* the threads that print
  Glyph,           \* printable characters
  Width, Height,   \* of the screen, in characters
  WordSize,        \* what uint32_t holds of cur_y, in rows
  MaxRoll,         \* bound: the lines of the roll
  MaxDrift         \* bound: how far off the screen races take the cursor

ASSUME ScreenAssumption ==
  /\ IsFiniteSet(Printer) /\ Width \in Nat \ {0} /\ Height \in Nat \ {0, 1}
  /\ Height >= Cardinality(Printer)
  /\ MaxDrift \in Nat
  /\ WordSize \in Nat /\ WordSize > Height + MaxDrift + Cardinality(Printer)
  /\ " " \notin Glyph

VARIABLES
  screen,        \* the character at row and column
  cur_x, cur_y,  \* the cursor
  at,            \* where each thread is in vga_gen_puchar
  reg,           \* what it has loaded of the cursor
  roll,          \* history: the lines printed so far, empty or not
  pen,           \* history: where on the roll the next character goes
  both,          \* history: two threads have been in vga_gen_puchar at once
  odd,           \* history: a backspace at the start of a line
  cut            \* history: the cursor was set while a thread was about to scroll

scrVars == <<screen, cur_x, cur_y, at, reg, roll, pen, both, odd, cut>>

Columns == 0 .. Width - 1
Rows    == 0 .. Height - 1
Blank   == [x \in Columns |-> " "]
Cleared == [y \in Rows |-> Blank]

NewRoll == [i \in 1 .. Height |-> Blank]
FirstPlace == [row |-> 1, col |-> 0]

(* init_vga *)
ScreenInit ==
  /\ screen = Cleared
  /\ cur_x = 0 /\ cur_y = 0
  /\ at = [p \in Printer |-> "out"] /\ reg = [p \in Printer |-> 0]
  /\ roll = NewRoll /\ pen = FirstPlace
  /\ both = FALSE /\ odd = FALSE /\ cut = FALSE

----------------------------------------------------------------------------
(* vga_putchar.  What is to the right of the screen is clipped; what is    *)
(* below it is not on the screen either, though the pixels are stored.     *)
Drawn(c) ==
  IF cur_x \in Columns /\ cur_y \in Rows
    THEN [screen EXCEPT ![cur_y][cur_x] = c]
    ELSE screen

(* vga_scroll_up *)
ScrolledUp == [y \in Rows |-> IF y = Height - 1 THEN Blank ELSE screen[y + 1]]

(* The roll grows when the pen passes its last line; it is thrown away     *)
(* when it says nothing more of the screen.                                *)
Longer(r) == IF pen.row = Len(roll) THEN Append(r, Blank) ELSE r
LineStart == [row |-> pen.row + 1, col |-> 0]
Record(r, w) ==
  IF both' \/ odd' THEN roll' = NewRoll /\ pen' = FirstPlace
                    ELSE roll' = r /\ pen' = w

(* A thread calls vga_gen_puchar. *)
Enter(p) ==
  /\ at[p] = "out" /\ ~cut
  /\ pen.row < MaxRoll
  /\ both' = (both \/ \E q \in Printer \ {p} : at[q] # "out")

(* A printable character is drawn at the cursor. *)
PutGlyph(p, c) ==
  /\ Enter(p)
  /\ screen' = Drawn(c)
  /\ at' = [at EXCEPT ![p] = "drawn"]
  /\ UNCHANGED <<cur_x, cur_y, reg, odd, cut>>
  /\ LET r == [roll EXCEPT ![pen.row][pen.col] = c]
     IN  IF pen.col = Width - 1 THEN Record(Longer(r), LineStart)
         ELSE Record(r, [pen EXCEPT !.col = @ + 1])

(* cur_x+=CHAR_W and cur_y+=CHAR_H are a load and a store. *)
LoadX(p) ==
  /\ at[p] = "drawn"
  /\ reg' = [reg EXCEPT ![p] = cur_x]
  /\ at' = [at EXCEPT ![p] = "loaded_x"]
  /\ UNCHANGED <<screen, cur_x, cur_y, roll, pen, both, odd, cut>>

StoreX(p) ==
  /\ at[p] = "loaded_x" /\ reg[p] < Width + MaxDrift
  /\ cur_x' = reg[p] + 1 /\ reg' = [reg EXCEPT ![p] = 0]
  /\ at' = [at EXCEPT ![p] = "moved"]
  /\ UNCHANGED <<screen, cur_y, roll, pen, both, odd, cut>>

(* Mutant of TestX: the line is one character longer. *)
TestXLate(p) ==
  /\ at[p] = "moved"
  /\ IF cur_x > Width
       THEN cur_x' = 0 /\ at' = [at EXCEPT ![p] = "wrapped"]
       ELSE at' = [at EXCEPT ![p] = "test_y"] /\ UNCHANGED cur_x
  /\ UNCHANGED <<screen, cur_y, reg, roll, pen, both, odd, cut>>

TestX(p) ==
  /\ at[p] = "moved"
  /\ IF cur_x >= Width
       THEN cur_x' = 0 /\ at' = [at EXCEPT ![p] = "wrapped"]
       ELSE at' = [at EXCEPT ![p] = "test_y"] /\ UNCHANGED cur_x
  /\ UNCHANGED <<screen, cur_y, reg, roll, pen, both, odd, cut>>

LoadY(p) ==
  /\ at[p] = "wrapped"
  /\ reg' = [reg EXCEPT ![p] = cur_y]
  /\ at' = [at EXCEPT ![p] = "loaded_y"]
  /\ UNCHANGED <<screen, cur_x, cur_y, roll, pen, both, odd, cut>>

StoreY(p) ==
  /\ at[p] = "loaded_y" /\ reg[p] < Height + MaxDrift
  /\ cur_y' = reg[p] + 1 /\ reg' = [reg EXCEPT ![p] = 0]
  /\ at' = [at EXCEPT ![p] = "test_y"]
  /\ UNCHANGED <<screen, cur_x, roll, pen, both, odd, cut>>

(* Mutant of TestY: the screen scrolls when its last line is reached. *)
TestYEarly(p) ==
  /\ at[p] = "test_y"
  /\ at' = [at EXCEPT ![p] = IF cur_y + 1 >= Height THEN "scrolling" ELSE "out"]
  /\ UNCHANGED <<screen, cur_x, cur_y, reg, roll, pen, both, odd, cut>>

(* The test comes before the cli that protects what depends on it. *)
TestY(p) ==
  /\ at[p] = "test_y"
  /\ at' = [at EXCEPT ![p] = IF cur_y >= Height THEN "scrolling" ELSE "out"]
  /\ UNCHANGED <<screen, cur_x, cur_y, reg, roll, pen, both, odd, cut>>

Scroll(p) ==
  /\ at[p] = "scrolling"
  /\ cur_x' = 0
  /\ cur_y' = (cur_y - 1) % WordSize
  /\ screen' = ScrolledUp
  /\ at' = [at EXCEPT ![p] = "out"]
  /\ UNCHANGED <<reg, roll, pen, both, odd, cut>>

----------------------------------------------------------------------------
(* vga_gen_puchar of the other characters.  A newline has interrupts off.  *)
PutNewline(p) ==
  /\ Enter(p)
  /\ IF cur_y + 1 >= Height
       THEN screen' = ScrolledUp /\ UNCHANGED cur_y
       ELSE cur_y' = cur_y + 1 /\ UNCHANGED screen
  /\ cur_x' = 0
  /\ UNCHANGED <<at, reg, odd, cut>>
  /\ Record(Longer(roll), LineStart)

PutReturn(p) ==
  /\ Enter(p)
  /\ cur_x' = 0
  /\ UNCHANGED <<screen, cur_y, at, reg, odd, cut>>
  /\ Record(roll, [pen EXCEPT !.col = 0])

(* At the start of a line the cursor goes to the right of the screen: the  *)
(* statement that would take it up a line has no effect.                   *)
PutBackspace(p) ==
  /\ Enter(p)
  /\ cur_x' = IF cur_x > 0 THEN cur_x - 1 ELSE IF cur_y > 0 THEN Width ELSE 0
  /\ odd' = (odd \/ (cur_x = 0 /\ cur_y > 0))
  /\ screen' = IF cur_x' \in Columns /\ cur_y \in Rows
                 THEN [screen EXCEPT ![cur_y][cur_x'] = " "] ELSE screen
  /\ UNCHANGED <<cur_y, at, reg, cut>>
  /\ LET c == IF pen.col = 0 THEN 0 ELSE pen.col - 1
     IN  Record([roll EXCEPT ![pen.row][c] = " "], [pen EXCEPT !.col = c])

----------------------------------------------------------------------------
(* A system call sets the cursor, whoever is printing. *)
Interferes ==
  /\ ~cut /\ pen.row < MaxRoll
  /\ both' = (both \/ \E p \in Printer : at[p] # "out")
  /\ cut' = \E p \in Printer : at[p] = "scrolling"

(* vga_cls *)
Clear ==
  /\ Interferes
  /\ screen' = Cleared /\ cur_x' = 0 /\ cur_y' = 0
  /\ UNCHANGED <<at, reg, odd>>
  /\ Record(NewRoll, FirstPlace)

(* vga_setcurse: what is not on the screen means its first character. *)
Chosen(x, y) == IF x >= Width \/ y >= Height THEN <<0, 0>> ELSE <<x, y>>

SetCursor(x, y) ==
  /\ Interferes
  /\ cur_x' = Chosen(x, y)[1] /\ cur_y' = Chosen(x, y)[2]
  /\ UNCHANGED <<screen, at, reg, odd>>
  /\ Record(roll, [row |-> Len(roll) - Height + 1 + Chosen(x, y)[2],
                   col |-> Chosen(x, y)[1]])

ScreenNext ==
  \/ \E p \in Printer :
       \/ \E c \in Glyph : PutGlyph(p, c)
       \/ LoadX(p) \/ StoreX(p) \/ TestX(p)
       \/ LoadY(p) \/ StoreY(p) \/ TestY(p) \/ Scroll(p)
       \/ PutNewline(p) \/ PutReturn(p) \/ PutBackspace(p)
  \/ Clear
  \/ \E x \in 0 .. Width, y \in 0 .. Height : SetCursor(x, y)

ScreenSpec == ScreenInit /\ [][ScreenNext]_scrVars
----------------------------------------------------------------------------
(* Between two characters the screen shows the end of what was printed,    *)
(* wherever lines wrap, and the next character goes where it should, until *)
(* two threads print at once or a backspace comes at the start of a line.  *)
ShowsTail ==
  (\A p \in Printer : at[p] = "out") /\ ~both /\ ~odd =>
    LET top == Len(roll) - Height
    IN  /\ screen = [y \in Rows |-> roll[top + 1 + y]]
        /\ <<cur_x, cur_y>> = <<pen.col, pen.row - top - 1>>

(* Threads that print at once scroll more than once for one line, or undo  *)
(* each other's scroll and leave the cursor below the screen.  But they    *)
(* never take it above the first line, where cur_y would be 2^32 - 8 and   *)
(* the next character far outside; only a clear or a setting of the cursor *)
(* that comes between a thread's test and its scroll does.                 *)
CursorNotAbove == ~cut => cur_y <= Height + MaxDrift
=============================================================================
