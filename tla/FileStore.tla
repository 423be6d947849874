----------------------------- MODULE FileStore -----------------------------
(***************************************************************************)
(* What a FAT32 volume promises to those who open files on it: a file is a *)
(* sequence of bytes, a write replaces or adds bytes of that file alone, a *)
(* gap left by lseek reads as zeros, and what is on disk survives a        *)
(* restart.  Files that are `dirty' may read differently after one.        *)
(***************************************************************************)
EXTENDS Integers, Sequences

CONSTANTS
  Files,     \* the names of files
  Offsets,   \* the places in a file, and the lengths of a write
  Zero,      \* the byte zero
  Missing,   \* in place of the content of a file that does not exist
  Lost       \* in place of one whose tail the driver keeps in memory alone

VARIABLES
  content,   \* by file: its bytes, Missing or Lost
  dirty,     \* the files a restart may change
  broken     \* the driver has gone on with a freed buffer or a torn chain

svars == <<content, dirty, broken>>

SInit ==
  /\ content = [f \in Files |-> Missing]
  /\ dirty = {}
  /\ broken = FALSE

Exists(f) == content[f] \notin {Missing, Lost}

Create(f) ==
  /\ content[f] = Missing
  /\ content' = [content EXCEPT ![f] = <<>>]
  /\ UNCHANGED <<dirty, broken>>

(* Byte i of a file that reads s and then has n bytes b written at p. *)
ByteAt(s, p, n, b, i) ==
  IF p < i /\ i <= p + n THEN b ELSE IF i <= Len(s) THEN s[i] ELSE Zero

Write(f, p, n, b) ==
  /\ Exists(f)
  /\ LET s   == content[f]
         end == IF p + n > Len(s) THEN p + n ELSE Len(s)
     IN  content' = [content EXCEPT ![f] = [i \in 1 .. end |-> ByteAt(s, p, n, b, i)]]
  /\ dirty' = dirty \cup {f}
  /\ UNCHANGED broken

(* lseek beyond the end *)
Stretch(f, p) ==
  /\ Exists(f) /\ p > Len(content[f])
  /\ content' = [content EXCEPT ![f] = [i \in 1 .. p |-> ByteAt(@, p, 0, Zero, i)]]
  /\ dirty' = dirty \cup {f}
  /\ UNCHANGED broken

Sync(f) ==
  /\ dirty' = dirty \ {f}
  /\ UNCHANGED <<content, broken>>

(* The driver loses track of the tail of one file, and of that one only. *)
Lose(f) ==
  /\ content' = [content EXCEPT ![f] = Lost]
  /\ dirty' = dirty \ {f}
  /\ UNCHANGED broken

Restart ==
  /\ \A f \in Files \ dirty : content'[f] = content[f]
  /\ \A f \in Files : content'[f] = Missing <=> content[f] = Missing
  /\ dirty' = {}
  /\ UNCHANGED broken

Break == broken' = TRUE

SNext ==
  \/ Restart
  \/ Break
  \/ \E f \in Files :
       \/ Create(f) \/ Sync(f) \/ Lose(f)
       \/ \E p \in Offsets : Stretch(f, p)
       \/ \E p \in Offsets, n \in Offsets : Write(f, p, n, f)

SSpec == SInit /\ [][SNext]_svars
=============================================================================
