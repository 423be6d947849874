------------------------------- MODULE Format -------------------------------
(* How numbers become text.  The kernel's printf (kernel/printf.c) writes    *)
(* each directive straight to the logger; the C library's vsprintf           *)
(* (lib/libc/stdio.c, copied into kernel/printf.c for the kernel's sprintf)  *)
(* writes into a buffer its caller zeroed.  A format is a sequence of        *)
(* characters; the arguments are whatever the caller passes.                 *)
(*                                                                           *)
(* Integers have Width bits.  The width is to be one at which the largest    *)
(* power of ten below the word is also below half of it, as 10^9 is for 32   *)
(* bits: the factor `f` of printf_putuint is an int.                         *)
(*                                                                           *)
(* A format of vsprintf that ends inside a directive is read past its end:   *)
(* the loop steps over the terminator ("strayed"), where the model stops.    *)
EXTENDS Integers, Sequences, FiniteSets

CONSTANTS Width,        \* bits of an int; a multiple of four
          FormatChars,  \* the characters formats are made of
          FormatLength, \* bound of a format's length
          Numbers,      \* the ints passed
          Strings       \* the strings passed, as sequences of characters

ASSUME FormatAssumption == Width \in Nat /\ Width % 4 = 0 /\ FormatLength \in Nat

VARIABLES side,     \* "none"; "kernel": printf; "user": vsprintf
          fmt,      \* what is left of the format
          pieces,   \* what was written, piece by piece, with what it stands for
          formatting \* "idle", "going", "done" or "strayed"

formatVars == <<side, fmt, pieces, formatting>>

Power(b, e) == b ^ e
UnsignedOf(n) == n % Power(2, Width)
IntOf(n) == IF UnsignedOf(n) >= Power(2, Width - 1) THEN UnsignedOf(n) - Power(2, Width) ELSE UnsignedOf(n)
IntMin == -Power(2, Width - 1)

DigitChars == <<"0", "1", "2", "3", "4", "5", "6", "7", "8", "9", "a", "b", "c", "d", "e", "f">>
DigitOf(c) == (CHOOSE d \in 1 .. 16 : DigitChars[d] = c) - 1
IsDigit(c) == c \in {DigitChars[d] : d \in 1 .. 10}

(* ------------------------ numbers in vsprintf --------------------------- *)

\* itoa and xtoa: the digits of all but the last, then the last.
Itoa(u) ==
  LET text[n \in 0 .. u] == IF n < 10 THEN <<DigitChars[n + 1]>>
                            ELSE Append(text[n \div 10], DigitChars[(n % 10) + 1])
  IN text[u]

Xtoa(u) ==
  LET text[n \in 0 .. u] == IF n < 16 THEN <<DigitChars[n + 1]>>
                            ELSE Append(text[n \div 16], DigitChars[(n % 16) + 1])
  IN text[u]

\* The sum of the leading digits of `text` from place i on, in an int.
Digits(text, i) ==
  LET last == CHOOSE k \in i - 1 .. Len(text) :
                /\ \A j \in i .. k : IsDigit(text[j])
                /\ k < Len(text) => ~IsDigit(text[k + 1])
      sum[k \in i - 1 .. last] == IF k = i - 1 THEN 0 ELSE IntOf(sum[k - 1] * 10 + DigitOf(text[k]))
  IN sum[last]

Atoi(text) ==
  IF Len(text) > 0 /\ text[1] = "-" THEN IntOf(-Digits(text, 2))
  ELSE IF Len(text) > 0 /\ text[1] = "+" THEN Digits(text, 2)
  ELSE Digits(text, 1)

Zeros(n) == [i \in 1 .. n |-> "0"]

PaddedTo(num, text) == IF Len(text) >= num THEN text ELSE Zeros(num - Len(text)) \o text

SignAfterZeros(n, num) ==
  PaddedTo(num, IF n < 0 THEN <<"-">> \o Itoa(UnsignedOf(-n)) ELSE Itoa(n))

\* The sign goes first, and the zeros between it and the digits.
SignedText(n, num) ==
  IF n < 0 THEN <<"-">> \o PaddedTo(num, Itoa(UnsignedOf(-n))) ELSE PaddedTo(num, Itoa(n))

(* ------------------------- numbers in printf ---------------------------- *)

\* The place the loop over f stops at: the top digit's.
TopPlace(i) == CHOOSE k \in 0 .. Width : i \div Power(10, k) < 10 /\ \A j \in 0 .. k - 1 : i \div Power(10, j) >= 10

PutUint(u) ==
  [j \in 1 .. TopPlace(u) + 1 |->
     LET e == TopPlace(u) + 1 - j
         d == IF e = TopPlace(u) THEN u \div Power(10, e) ELSE (u \div Power(10, e)) % 10
     IN DigitChars[d + 1]]

\* The least int is its own negative: f stays 1, and '0' plus a multiple of
\* 256 is written as the character '0'.
PutInt(n) ==
  IF n = IntMin THEN <<"-", "0">>
  ELSE IF n < 0 THEN <<"-">> \o PutUint(-n) ELSE PutUint(n)

PutHex(u) ==
  [j \in 1 .. Width \div 4 |-> DigitChars[((u \div Power(16, Width \div 4 - j)) % 16) + 1]]

(* ----------------------------- the loops -------------------------------- *)

FormatInit ==
  side = "none" /\ fmt = << >> /\ pieces = << >> /\ formatting = "idle"

\* Some caller's printf or vsprintf.
FormatCall ==
  /\ formatting = "idle" /\ formatting' = "going"
  /\ side' \in {"kernel", "user"}
  /\ fmt' \in UNION {[1 .. n -> FormatChars] : n \in 0 .. FormatLength}
  /\ pieces' = << >>

Going(who) == formatting = "going" /\ side = who

\* The format goes on after its first n characters.
Wrote(kind, arg, num, text, n) ==
  /\ pieces' = Append(pieces, [kind |-> kind, arg |-> arg, num |-> num, text |-> text])
  /\ fmt' = SubSeq(fmt, n + 1, Len(fmt))
  /\ UNCHANGED <<side, formatting>>

Literal ==
  /\ formatting = "going" /\ fmt # << >> /\ fmt[1] # "%"
  /\ Wrote("c", 0, 0, <<fmt[1]>>, 1)

Directive(who, c) == Going(who) /\ Len(fmt) >= 2 /\ fmt[1] = "%" /\ fmt[2] = c

KernelInt == Directive("kernel", "d") /\ \E n \in Numbers : Wrote("d", n, 0, PutInt(n), 2)

KernelUint == Directive("kernel", "u") /\ \E n \in Numbers :
                Wrote("u", UnsignedOf(n), 0, PutUint(UnsignedOf(n)), 2)

KernelHex == Directive("kernel", "x") /\ \E n \in Numbers :
               Wrote("x", UnsignedOf(n), 0, PutHex(UnsignedOf(n)), 2)

KernelString == Directive("kernel", "s") /\ \E s \in Strings : Wrote("s", 0, 0, s, 2)

\* %c of any character, and what is not a directive is written as it is.
KernelOther ==
  \/ Directive("kernel", "c") /\ \E c \in FormatChars : Wrote("c", 0, 0, <<c>>, 2)
  \/ /\ Going("kernel") /\ Len(fmt) >= 2 /\ fmt[1] = "%" /\ fmt[2] \notin {"d", "u", "x", "s", "c"}
     /\ Wrote("c", 0, 0, <<fmt[2]>>, 2)

UserInt == Directive("user", "d") /\ \E n \in Numbers : Wrote("d", n, 0, SignedText(n, 0), 2)

UserHex == Directive("user", "x") /\ \E n \in Numbers :
             Wrote("x", UnsignedOf(n), 0, Xtoa(UnsignedOf(n)), 2)

UserChar == Directive("user", "c") /\ \E c \in FormatChars : Wrote("c", 0, 0, <<c>>, 2)

UserString == Directive("user", "s") /\ \E s \in Strings : Wrote("s", 0, 0, s, 2)

UserPercent == Directive("user", "%") /\ Wrote("c", 0, 0, <<"%">>, 2)

\* %0, a number, and the character after it; one that is no directive is dropped.
UserPadded ==
  /\ Directive("user", "0")
  /\ LET at == CHOOSE k \in 3 .. Len(fmt) + 1 :
                 /\ \A j \in 3 .. k - 1 : IsDigit(fmt[j])
                 /\ k <= Len(fmt) => ~IsDigit(fmt[k])
         num == Atoi(SubSeq(fmt, 3, at - 1))
     IN /\ at <= Len(fmt)
        /\ \/ fmt[at] = "d" /\ \E n \in Numbers : Wrote("d", n, num, SignedText(n, num), at)
           \/ fmt[at] = "x" /\ \E n \in Numbers :
                Wrote("x", UnsignedOf(n), num, PaddedTo(num, Xtoa(UnsignedOf(n))), at)
           \/ fmt[at] = "s" /\ \E s \in Strings : Wrote("s", 0, num, PaddedTo(num, s), at)
           \/ fmt[at] \notin {"d", "x", "s"} /\ Wrote("none", 0, 0, << >>, at)

UserUnknown ==
  /\ Going("user") /\ Len(fmt) >= 2 /\ fmt[1] = "%" /\ fmt[2] \notin {"d", "c", "x", "s", "%", "0"}
  /\ Wrote("none", 0, 0, << >>, 2)

\* The end of the format; printf also returns at a lone % there.
Ended ==
  /\ formatting = "going"
  /\ fmt = << >> \/ (side = "kernel" /\ fmt = <<"%">>)
  /\ formatting' = "done"
  /\ UNCHANGED <<side, fmt, pieces>>

CutShort ==
  \/ fmt = <<"%">>
  \/ Directive("user", "0") /\ \A j \in 3 .. Len(fmt) : IsDigit(fmt[j])

Stray ==
  /\ Going("user") /\ CutShort
  /\ formatting' = "strayed"
  /\ UNCHANGED <<side, fmt, pieces>>

FormatNext ==
  \/ FormatCall \/ Literal \/ KernelInt \/ KernelUint \/ KernelHex \/ KernelString \/ KernelOther
  \/ UserInt \/ UserHex \/ UserChar \/ UserString \/ UserPercent \/ UserPadded \/ UserUnknown
  \/ Ended \/ Stray

-----------------------------------------------------------------------------
ValueIn(base, text) ==
  LET sum[k \in 0 .. Len(text)] == IF k = 0 THEN 0 ELSE sum[k - 1] * base + DigitOf(text[k]) IN sum[Len(text)]

(* Every number that was written is read back: atoi of the text of a %d is   *)
(* the int that was passed, the least int included (but for the kernel's     *)
(* printf, which writes that one as -0), the digits of a %u or %x have the   *)
(* value of the word that was passed, and a padded directive has at least    *)
(* as many digits as it asks.                                                *)
ReadsBack ==
  \A i \in DOMAIN pieces :
    LET p == pieces[i] IN
    /\ p.kind = "d" => Atoi(p.text) = p.arg \/ (side = "kernel" /\ p.arg = IntMin)
    /\ p.kind = "u" => ValueIn(10, p.text) = p.arg
    /\ p.kind = "x" => ValueIn(16, p.text) = p.arg
    /\ Len(p.text) >= p.num + (IF p.kind = "d" /\ p.arg < 0 THEN 1 ELSE 0)
=============================================================================
