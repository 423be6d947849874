------------------------------ MODULE Strings ------------------------------
(***************************************************************************)
(* kernel/string.c, which lib/libc repeats for the user: what its loops do *)
(* to a piece of memory, against the texts and blocks they are about.      *)
(*                                                                         *)
(* A call is one action on a memory that holds anything.  The inputs are   *)
(* what the callers may give: strings that end, room for the result, and   *)
(* source and destination apart, but for memcpy, which the console uses to *)
(* move a screen over itself.                                              *)
(***************************************************************************)
EXTENDS Integers, Sequences, FiniteSets

CONSTANTS
  CellCount,   \* the cells of the memory, numbered from 0
  TextBytes    \* the bytes a memory is made of, besides the zero

Cells == 0 .. CellCount - 1

ASSUME StringsAssumption ==
  CellCount \in Nat \ {0} /\ TextBytes \subseteq 1 .. 127

VARIABLES
  store,     \* the memory
  called,    \* history: the last call with its arguments
  before,    \* history: the memory before it
  oldword,   \* strtok's static variable
  words      \* history: the words of the text that strtok is taking apart

stringVars == <<store, called, before, oldword, words>>

NoCall == [fn |-> "none", d |-> 0, s |-> 0, n |-> 0]

StringsInit ==
  /\ store \in [Cells -> TextBytes \cup {0}]
  /\ called = NoCall /\ before = store
  /\ oldword = -1 /\ words = <<>>

----------------------------------------------------------------------------
(* The functions that only read.                                           *)

Terminated(m, s) == \E e \in Cells : e >= s /\ m[e] = 0

(* strlen *)
Strlen(m, s) ==
  LET e == CHOOSE e \in Cells : e >= s /\ m[e] = 0 /\ \A c \in s .. e - 1 : m[c] # 0
  IN  e - s

TextAt(m, s) == [i \in 1 .. Strlen(m, s) |-> m[s + i - 1]]

(* The place where two strings differ, or both end, within n bytes; n if   *)
(* there is none.                                                          *)
Differ(m, a, b, n) ==
  LET f[i \in 0 .. n] ==
        IF i = n \/ m[a + i] # m[b + i] \/ m[a + i] = 0 THEN i ELSE f[i + 1]
  IN  f[0]

Signum(x) == IF x < 0 THEN -1 ELSE IF x > 0 THEN 1 ELSE 0

(* strcmp *)
Strcmp(m, a, b) ==
  LET i == Differ(m, a, b, CellCount) IN Signum(m[a + i] - m[b + i])

(* strncmp *)
Strncmp(m, a, b, n) ==
  LET i == Differ(m, a, b, n) IN IF i = n THEN 0 ELSE Signum(m[a + i] - m[b + i])

(* memcmp tells equal from not equal only. *)
Memcmp(m, a, b, n) == IF \E i \in 0 .. n - 1 : m[a + i] # m[b + i] THEN 1 ELSE 0

(* strchr: the place, or -1 for its null pointer; never that of the zero *)
Strchr(m, s, c) ==
  LET f[i \in s .. CellCount] ==
        IF m[i] = 0 THEN -1 ELSE IF m[i] = c THEN i ELSE f[i + 1]
  IN  f[s]

----------------------------------------------------------------------------
(* The functions that write: a byte after the other, upwards.              *)

(* Mutant of Memcpy: downwards. *)
MemcpyDown(m, d, s, n) ==
  LET f[k \in 0 .. n] == IF k = 0 THEN m ELSE [f[k - 1] EXCEPT ![d + n - k] = f[k - 1][s + n - k]]
  IN  f[n]

Memcpy(m, d, s, n) ==
  LET f[k \in 0 .. n] == IF k = 0 THEN m ELSE [f[k - 1] EXCEPT ![d + k - 1] = f[k - 1][s + k - 1]]
  IN  f[n]

Memset(m, d, v, n) == [c \in Cells |-> IF c \in d .. d + n - 1 THEN v ELSE m[c]]

(* strcpy and strncpy: the second copies n bytes at most and then a zero. *)
Strncpy(m, d, s, n) ==
  LET k == IF Strlen(m, s) < n THEN Strlen(m, s) ELSE n
  IN  [Memcpy(m, d, s, k) EXCEPT ![d + k] = 0]

Strcpy(m, d, s) == Strncpy(m, d, s, Strlen(m, s))

(* strrev, of a string that is not empty: the ends change places, inwards *)
Strrev(m, s) ==
  LET len == Strlen(m, s)
      f[k \in 0 .. len \div 2] ==
        IF k = 0 THEN m
        ELSE [f[k - 1] EXCEPT ![s + k - 1] = f[k - 1][s + len - k],
                              ![s + len - k] = f[k - 1][s + k - 1]]
  IN  f[len \div 2]

(* strtoupper and strtolower *)
Shifted(m, s, range, by) ==
  [c \in Cells |-> IF c \in s .. s + Strlen(m, s) - 1 /\ m[c] \in range THEN m[c] + by ELSE m[c]]

Called(fn, d, s, n, m) ==
  /\ called' = [fn |-> fn, d |-> d, s |-> s, n |-> n]
  /\ before' = store /\ store' = m
  /\ UNCHANGED <<oldword, words>>

(* strlen, strcmp, strncmp, memcmp and strchr, all of them *)
CallReaders == Called("readers", 0, 0, 0, store)

CallMemcpy == \E d, s \in Cells, n \in 0 .. CellCount :
  /\ d + n <= CellCount /\ s + n <= CellCount
  /\ d < s \/ d >= s + n
  /\ Called("memcpy", d, s, n, Memcpy(store, d, s, n))

CallMemset == \E d \in Cells, v \in TextBytes \cup {0}, n \in 0 .. CellCount :
  /\ d + n <= CellCount
  /\ Called("memset", d, v, n, Memset(store, d, v, n))

(* strcpy; strdup and strndup do the same into fresh memory *)
CallStrcpy == \E d, s \in Cells :
  /\ Terminated(store, s) /\ d + Strlen(store, s) < CellCount
  /\ d > s + Strlen(store, s) \/ s > d + Strlen(store, s)
  /\ Called("strcpy", d, s, Strlen(store, s), Strcpy(store, d, s))

CallStrncpy == \E d, s \in Cells, n \in 0 .. CellCount :
  /\ Terminated(store, s) /\ n <= Strlen(store, s) /\ d + n < CellCount
  /\ d > s + n \/ s > d + n
  /\ Called("strcpy", d, s, n, Strncpy(store, d, s, n))

(* strcat; strsafecat does the same to a fresh copy of the first *)
CallStrcat == \E d, s \in Cells :
  /\ Terminated(store, s) /\ Terminated(store, d)
  /\ LET e == d + Strlen(store, d)
     IN  /\ e + Strlen(store, s) < CellCount
         /\ d > s + Strlen(store, s) \/ s > e + Strlen(store, s)
         /\ Called("strcat", d, s, Strlen(store, s), Strcpy(store, e, s))

CallStrrev == \E s \in Cells :
  /\ Terminated(store, s) /\ Strlen(store, s) > 0
  /\ Called("strrev", s, s, 0, Strrev(store, s))

CallUpper == \E s \in Cells :
  Terminated(store, s) /\ Called("strtoupper", s, s, 0, Shifted(store, s, 97 .. 122, -32))

CallLower == \E s \in Cells :
  Terminated(store, s) /\ Called("strtolower", s, s, 0, Shifted(store, s, 65 .. 90, 32))

(* strtok, of a text and then of a null pointer: delimiters are skipped,   *)
(* the word's end is made a zero, and the rest is kept for the next call.  *)
(* delim has one character here.                                           *)
Strtok(s, delim) ==
  LET limit == s + Strlen(store, s)
      skip[i \in s .. limit] == IF i < limit /\ store[i] = delim THEN skip[i + 1] ELSE i
      w == skip[s]
      stop[i \in w .. limit] == IF i < limit /\ store[i] # delim THEN stop[i + 1] ELSE i
      e == stop[w]
  IN  IF w = limit
        THEN /\ oldword' = w
             /\ called' = [fn |-> "strtok end", d |-> s, s |-> s, n |-> delim]
             /\ UNCHANGED <<store, words>>
        ELSE /\ oldword' = IF e < limit THEN e + 1 ELSE e
             /\ called' = [fn |-> "strtok", d |-> s, s |-> s, n |-> delim]
             /\ store' = [store EXCEPT ![e] = 0]
             /\ words' = Append(words, SubSeq(TextAt(store, w), 1, e - w))

CallStrtok == \E s \in Cells, delim \in TextBytes :
  /\ Terminated(store, s)
  /\ before' = [c \in Cells |-> IF c < CellCount - s THEN store[s + c] ELSE 0]
  /\ Strtok(s, delim)

GoOnStrtok ==
  called.fn = "strtok" /\ Strtok(oldword, called.n) /\ UNCHANGED before

StringsNext ==
  \/ /\ called = NoCall
     /\ \/ CallReaders \/ CallMemcpy \/ CallMemset \/ CallStrcpy \/ CallStrncpy \/ CallStrcat
        \/ CallStrrev \/ CallUpper \/ CallLower \/ CallStrtok
  \/ GoOnStrtok

----------------------------------------------------------------------------
Agrees(x, y) == \A i \in DOMAIN x \cap DOMAIN y : x[i] = y[i]

(* The words of a text: its longest runs without the delimiter. *)
WordsOf(text, delim) ==
  LET f[i \in 0 .. Len(text)] ==
        IF i = 0 THEN <<>>
        ELSE IF text[i] = delim THEN f[i - 1]
        ELSE IF i = 1 \/ text[i - 1] = delim THEN Append(f[i - 1], <<text[i]>>)
        ELSE [f[i - 1] EXCEPT ![Len(f[i - 1])] = Append(@, text[i])]
  IN  f[Len(text)]

Untouched(from, to) == \A c \in Cells : c \in from .. to \/ store[c] = before[c]

UpperOf(byte) == IF byte \in 97 .. 122 THEN byte - 32 ELSE byte
LowerOf(byte) == IF byte \in 65 .. 90 THEN byte + 32 ELSE byte

(* The comparisons and searches are those of texts. *)
ReadsRight ==
  \A a, b \in Cells : Terminated(store, a) /\ Terminated(store, b) =>
    LET x == TextAt(store, a)
        y == TextAt(store, b)
    IN  /\ Strcmp(store, a, b) = 0 <=> x = y
        /\ Strcmp(store, a, b) = -Strcmp(store, b, a)
        /\ \A n \in 1 .. 3 : Strncmp(store, a, b, n) = 0 <=>
             x = y \/ (Len(x) >= n /\ Len(y) >= n /\ SubSeq(x, 1, n) = SubSeq(y, 1, n))
        /\ \A n \in Cells : n <= Len(x) /\ n <= Len(y) =>
             (Memcmp(store, a, b, n) = 0 <=> SubSeq(x, 1, n) = SubSeq(y, 1, n))
        /\ \A c \in TextBytes : Strchr(store, a, c) = -1 <=> \A i \in DOMAIN x : x[i] # c

(* A call of string.c leaves at its destination what it was to put there   *)
(* and everything else alone: memcpy a block as it was before, over itself *)
(* too when it moves down in memory, as vga_scroll_up moves the screen;    *)
(* strcpy, strncpy and strcat texts; and the words that strtok returns one *)
(* by one, while it cuts the text up, are all the words of the text.       *)
StringsRight ==
  LET d == called.d
      s == called.s
      n == called.n
  IN  CASE called.fn = "none" -> TRUE
        [] called.fn = "readers" -> ReadsRight
        [] called.fn = "memcpy" ->
             /\ \A i \in 0 .. n - 1 : store[d + i] = before[s + i]
             /\ Untouched(d, d + n - 1)
        [] called.fn = "memset" ->
             (\A i \in d .. d + n - 1 : store[i] = s) /\ Untouched(d, d + n - 1)
        [] called.fn = "strcpy" ->
             TextAt(store, d) = SubSeq(TextAt(before, s), 1, n) /\ Untouched(d, d + n)
        [] called.fn = "strcat" ->
             /\ TextAt(store, d) = TextAt(before, d) \o TextAt(before, s)
             /\ Untouched(d + Strlen(before, d), d + Strlen(store, d))
        [] called.fn = "strrev" ->
             LET was == TextAt(before, s)
             IN  /\ TextAt(store, s) = [i \in DOMAIN was |-> was[Len(was) + 1 - i]]
                 /\ Untouched(s, s + Len(was) - 1)
        [] called.fn \in {"strtoupper", "strtolower"} ->
             /\ TextAt(store, s) = IF called.fn = "strtoupper"
                                    THEN [i \in 1 .. Strlen(before, s) |-> UpperOf(before[s + i - 1])]
                                    ELSE [i \in 1 .. Strlen(before, s) |-> LowerOf(before[s + i - 1])]
             /\ Untouched(s, s + Strlen(before, s) - 1)
        [] called.fn = "strtok" ->
             Agrees(words, WordsOf(TextAt(before, 0), n))
        [] called.fn = "strtok end" ->
             words = WordsOf(TextAt(before, 0), n)
=============================================================================
