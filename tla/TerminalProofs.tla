--------------------------- MODULE TerminalProofs ---------------------------
(***************************************************************************)
(* From the keys to the screen.  The keyboard queue never promises a byte  *)
(* it does not have, its reader is never woken for nothing, and it gets    *)
(* the bytes in the order they were pushed, for a queue of any size and    *)
(* any keys: although the reader and the interrupt handler race for        *)
(* used_cnt.  gets_s makes of the keys of a line the text they come to.    *)
(* Every text is shown, in the order and in the colour it was printed in.  *)
(* The screen shows the end of what was printed.                           *)
(***************************************************************************)
EXTENDS Keyboard, Texts, Lines, Screen, FiniteSetTheorems, SequenceTheorems, TLAPS

----------------------------------------------------------------------------
(* The keyboard *)

(* What each place in keyboard_get_key relies on.  The races matter here:  *)
(* between the load and the store of used_cnt the handler can only raise   *)
(* it, so the store can only make it smaller than the truth.               *)
PlacesOK ==
  /\ status = "BLOCKED" => pc = "asleep"
  /\ pc \in {"block", "asleep"} => blocked
  /\ pc = "get" => used > 0
  /\ pc = "asleep" /\ status = "READY" => used > 0
  /\ pc = "store" => 0 < loaded /\ loaded <= used

IInv == TypeOK /\ PlacesOK /\ UsedNeverAhead /\ NeverWokenForNothing

----------------------------------------------------------------------------
LEMMA InitIInv == Init => IInv
  BY KeyboardAssumption
     DEF Init, IInv, TypeOK, PlacesOK, UsedNeverAhead, NeverWokenForNothing,
         Codes, Places

(* What a key stands for, and what of it fits, are codes. *)
LEMMA FitsCodes ==
  ASSUME TypeOK, NEW b \in ScanCodes, b # "E0", ~IsBreak(b), used < N,
         CodesOf(b) # <<>>
  PROVE  /\ Fits(CodesOf(b)) \in Seq(Codes)
         /\ Len(Fits(CodesOf(b))) > 0
         /\ used + Len(Fits(CodesOf(b))) <= N
<1> DEFINE c == CodesOf(b)
<1>1. c \in Seq(Codes) /\ Len(c) \in Nat \ {0}
  <2>1. CASE ext
    <3>1. c = <<"prefix", b>> /\ b \in Codes /\ "prefix" \in Codes
      BY <2>1 DEF CodesOf, ScanCodes, IsBreak, Codes
    <3> HIDE DEF c
    <3> QED BY <3>1
  <2>2. CASE ~ext
    <3>1. c = <<CharOf(b)>> /\ CharOf(b) \in Codes
      BY <2>2 DEF CodesOf, CharOf, ScanCodes, IsBreak, Codes
    <3> HIDE DEF c
    <3> QED BY <3>1
  <2> QED BY <2>1, <2>2
<1> HIDE DEF c
<1>2. used \in Nat /\ N \in Nat
  BY KeyboardAssumption DEF TypeOK
<1> DEFINE m == IF N - used < Len(c) THEN N - used ELSE Len(c)
<1>3. m \in 1 .. Len(c) /\ used + m <= N
  BY <1>1, <1>2
<1> HIDE DEF m
<1>4. SubSeq(c, 1, m) \in Seq(Codes) /\ Len(SubSeq(c, 1, m)) = m
  BY <1>1, <1>3
<1>5. Fits(c) = SubSeq(c, 1, m)
  BY DEF Fits, m
<1> QED BY <1>1, <1>3, <1>4, <1>5 DEF c

(* The reader's steps *)
LEMMA ReaderStep == IInv /\ Reader => IInv'
<1> SUFFICES ASSUME IInv, Reader PROVE IInv'
  OBVIOUS
<1> USE DEF IInv, TypeOK, PlacesOK, UsedNeverAhead, NeverWokenForNothing, Places,
            Runs, flags, ring
<1>1. CASE TestEmpty
  BY <1>1 DEF TestEmpty
<1>2. CASE NoteReader
  BY <1>2 DEF NoteReader
<1>3. CASE BlockReader
  BY <1>3 DEF BlockReader
<1>4. CASE GetLoad
  BY <1>4 DEF GetLoad
<1>5. CASE GetStore
  <2>1. (foot + 1) % N \in 0 .. N - 1
    BY KeyboardAssumption
  <2> QED BY <1>5, <2>1, KeyboardAssumption DEF GetStore
<1>6. CASE GetDeref
  <2>1. unread # <<>>
    BY <1>6, KeyboardAssumption DEF GetDeref
  <2>2. Tail(unread) \in Seq(Codes) /\ Len(Tail(unread)) = Len(unread) - 1
    BY <2>1
  <2> QED BY <1>6, <2>2, KeyboardAssumption DEF GetDeref
<1> QED BY <1>1, <1>2, <1>3, <1>4, <1>5, <1>6 DEF Reader

(* A key interrupt *)
LEMMA InterruptStep ==
  ASSUME NEW b \in Keyed PROVE IInv /\ KeyInterrupt(b) => IInv'
<1> SUFFICES ASSUME IInv, KeyInterrupt(b) PROVE IInv'
  OBVIOUS
<1>1. b \in ScanCodes
  BY KeyboardAssumption
<1>2. TypeOK /\ ext' \in BOOLEAN /\ UNCHANGED <<blocked, pc, loaded>> /\ ~halted
  BY DEF IInv, KeyInterrupt
<1>3. CASE UNCHANGED <<ring, unread, status, halted>>
  <2>1. shift' \in BOOLEAN /\ caps' \in BOOLEAN
    BY <1>2, <1>3 DEF KeyInterrupt, TypeOK
  <2> QED BY <1>2, <1>3, <2>1 DEF IInv, TypeOK, PlacesOK, UsedNeverAhead,
                                  NeverWokenForNothing, ring
<1>4. CASE /\ b # "E0" /\ ~IsBreak(b) /\ CodesOf(b) # <<>> /\ used < N
           /\ PushAll(Fits(CodesOf(b))) /\ WakeReader
           /\ UNCHANGED <<foot, shift, caps>>
  <2> DEFINE s == Fits(CodesOf(b))
  <2>1. s \in Seq(Codes) /\ Len(s) > 0 /\ used + Len(s) <= N
    BY <1>1, <1>2, <1>4, FitsCodes
  <2>2. PushAll(s)
    BY <1>4
  <2> HIDE DEF s
  <2>3. /\ used' = used + Len(s) /\ used' \in 0 .. N /\ used \in Nat
        /\ Len(s) \in Nat
    BY <1>2, <2>1, <2>2, KeyboardAssumption DEF PushAll, TypeOK
  <2>4. head' \in 0 .. N - 1
    <3>1. head + Len(s) \in Nat
      BY <1>2, <2>3, KeyboardAssumption DEF TypeOK
    <3> QED BY <2>2, <3>1, KeyboardAssumption DEF PushAll
  <2>5. data' \in [0 .. N - 1 -> Codes]
    <3> SUFFICES ASSUME NEW i \in 0 .. N - 1
                 PROVE  (LET k == (i - head) % N
                         IN IF k < Len(s) THEN s[k + 1] ELSE data[i]) \in Codes
      BY <2>2 DEF PushAll
    <3> DEFINE k == (i - head) % N
    <3>1. k \in Nat /\ data[i] \in Codes
      BY <1>2, KeyboardAssumption DEF TypeOK
    <3> HIDE DEF k
    <3>2. k < Len(s) => s[k + 1] \in Codes
      BY <2>1, <2>3, <3>1
    <3> QED BY <3>1, <3>2 DEF k
  <2>6. /\ unread' \in Seq(Codes) /\ Len(unread') = Len(unread) + Len(s)
        /\ Len(unread) \in Nat
    BY <1>2, <2>1, <2>2 DEF PushAll, TypeOK
  <2>7. /\ status' \in {"READY", "BLOCKED"} /\ halted' \in BOOLEAN
        /\ status' = "BLOCKED" => status = "BLOCKED"
        /\ halted' => ~blocked
    BY <1>2, <1>4 DEF WakeReader, TypeOK
  <2>8. TypeOK'
    BY <1>2, <1>4, <2>3, <2>4, <2>5, <2>6, <2>7 DEF TypeOK
  <2>9. PlacesOK'
    BY <1>2, <2>1, <2>3, <2>7, KeyboardAssumption DEF IInv, PlacesOK, TypeOK
  <2>10. UsedNeverAhead' /\ NeverWokenForNothing'
    BY <1>2, <2>3, <2>6, <2>7 DEF IInv, UsedNeverAhead, NeverWokenForNothing
  <2> QED BY <2>8, <2>9, <2>10 DEF IInv
<1>5. used \in Nat /\ N \in Nat
  BY <1>2, KeyboardAssumption DEF TypeOK
<1>6. CASE b = "E0" \/ IsBreak(b) \/ CodesOf(b) = <<>> \/ used >= N
  BY <1>3, <1>6 DEF KeyInterrupt, IsBreak
<1>7. CASE b # "E0" /\ ~IsBreak(b) /\ CodesOf(b) # <<>> /\ ~(used >= N)
  <2>1. PushAll(Fits(CodesOf(b))) /\ WakeReader /\ UNCHANGED <<foot, shift, caps>>
    BY <1>7, Zenon DEF KeyInterrupt
  <2>2. used < N
    BY <1>5, <1>7
  <2> QED BY <1>4, <1>7, <2>1, <2>2
<1> QED BY <1>6, <1>7

LEMMA NextIInv == IInv /\ [Next]_vars => IInv'
<1>1. IInv /\ UNCHANGED vars => IInv'
  BY DEF vars, flags, ring, IInv, TypeOK, PlacesOK, UsedNeverAhead, NeverWokenForNothing
<1> QED BY <1>1, ReaderStep, InterruptStep DEF Next

----------------------------------------------------------------------------
(* Every reachable state satisfies the inductive invariant. *)
THEOREM Invariance == Spec => []IInv
<1> QED BY InitIInv, NextIInv, PTL DEF Spec

(* The ring's indices and counts stay within the ring. *)
THEOREM TypeCorrect == Spec => []TypeOK
<1>1. IInv => TypeOK
  BY DEF IInv
<1> QED BY <1>1, Invariance, PTL

(* used_cnt never counts a byte that is not there. *)
THEOREM NoPhantomKeys == Spec => []UsedNeverAhead
<1>1. IInv => UsedNeverAhead
  BY DEF IInv
<1> QED BY <1>1, Invariance, PTL

(* keyboard_get_key does not dereference the null pointer that an empty    *)
(* queue returns.                                                          *)
THEOREM NoNullKey == Spec => []NeverWokenForNothing
<1>1. IInv => NeverWokenForNothing
  BY DEF IInv
<1> QED BY <1>1, Invariance, PTL

----------------------------------------------------------------------------
(***************************************************************************)
(* Residues, for the ring's indices                                        *)
(***************************************************************************)
LEMMA ModDiv ==
  ASSUME NEW n \in Nat \ {0}, NEW a \in Int
  PROVE  a % n \in 0 .. n - 1 /\ \E q \in Int : a = q * n + (a % n)
<1>1. a % n \in 0 .. n - 1 /\ a \div n \in Int
  OBVIOUS
<1>2. a = (a \div n) * n + (a % n)
  OBVIOUS
<1> QED BY <1>1, <1>2

LEMMA ModIs ==
  ASSUME NEW n \in Nat \ {0}, NEW q \in Int, NEW r \in 0 .. n - 1
  PROVE  (q * n + r) % n = r
OBVIOUS

LEMMA ModOf ==
  ASSUME NEW n \in Nat \ {0}, NEW a \in Int, NEW q \in Int, NEW r \in 0 .. n - 1,
         a = q * n + r
  PROVE  a % n = r
BY ModIs

LEMMA ModSame ==
  ASSUME NEW n \in Nat \ {0}, NEW a \in Int, NEW b \in Int, NEW q \in Int,
         a = b + q * n
  PROVE  a % n = b % n
<1> DEFINE r == b % n
<1>1. PICK p \in Int : b = p * n + r
  BY ModDiv
<1>2. r \in 0 .. n - 1
  BY ModDiv
<1> HIDE DEF r
<1>3. a = (p + q) * n + r /\ p + q \in Int
  BY <1>1, <1>2
<1>4. a % n = r
  BY <1>2, <1>3, ModOf
<1> QED BY <1>4 DEF r

LEMMA ModAdd ==
  ASSUME NEW n \in Nat \ {0}, NEW a \in Int, NEW b \in Int
  PROVE  ((a % n) + b) % n = (a + b) % n
<1> DEFINE r == a % n
<1>1. PICK p \in Int : a = p * n + r
  BY ModDiv
<1>2. r \in Int
  BY ModDiv
<1> HIDE DEF r
<1>3. a + b \in Int /\ r + b \in Int /\ a + b = (r + b) + p * n
  BY <1>1, <1>2
<1>4. (a + b) % n = (r + b) % n
  BY <1>3, ModSame
<1> QED BY <1>4 DEF r

----------------------------------------------------------------------------
(* The byte to be read next *)
Oldest == IF pc = "deref" THEN Slot ELSE foot

(* The ring holds the newest N of the unread bytes, in order, and ends at  *)
(* head: also when a lost decrement has let it run over unread bytes. *)
RingOK ==
  /\ head = (Oldest + Len(unread)) % N
  /\ \A i \in 1 .. Len(unread) :
       i > Len(unread) - N => data[(Oldest + i - 1) % N] = unread[i]

LEMMA InitRing == Init => RingOK
<1> SUFFICES ASSUME Init PROVE RingOK
  OBVIOUS
<1>1. N \in Nat \ {0} /\ 0 \in 0 .. N - 1
  BY KeyboardAssumption
<1>2. (0 * N + 0) % N = 0
  BY <1>1, ModIs
<1>3. 0 % N = 0
  BY <1>1, <1>2
<1> QED BY <1>3 DEF Init, RingOK, Oldest

LEMMA OldestType == ASSUME TypeOK PROVE Oldest \in 0 .. N - 1 /\ Len(unread) \in Nat
<1>1. foot - 1 \in Int /\ N \in Nat \ {0} /\ foot \in 0 .. N - 1 /\ Len(unread) \in Nat
  BY KeyboardAssumption DEF TypeOK
<1>2. (foot - 1) % N \in 0 .. N - 1
  BY <1>1, ModDiv
<1> QED BY <1>1, <1>2 DEF Oldest, Slot

(* What is pushed lands behind the newest byte, and on bytes older than    *)
(* the newest N only. *)
LEMMA PushRing ==
  ASSUME TypeOK, RingOK, NEW s \in Seq(Codes), Len(s) > 0, Len(s) <= N, PushAll(s),
         Oldest' = Oldest
  PROVE  RingOK'
<1> DEFINE L == Len(unread)
           n == Len(s)
           o == Oldest
<1>1. /\ N \in Nat \ {0} /\ o \in Int /\ L \in Nat /\ n \in Nat /\ head \in Int
      /\ n <= N
  BY KeyboardAssumption, OldestType DEF TypeOK
<1>2. unread' = unread \o s /\ Len(unread') = L + n
  BY DEF PushAll, TypeOK
<1>3. head = (o + L) % N /\ head' = (head + n) % N
  BY DEF RingOK, PushAll
<1>4. \A i \in 1 .. L : i > L - N => data[(o + i - 1) % N] = unread[i]
  BY DEF RingOK
<1>5. \A j \in 0 .. N - 1 :
        data'[j] = IF (j - head) % N < n THEN s[((j - head) % N) + 1] ELSE data[j]
  BY DEF PushAll
<1> SUFFICES /\ head' = (o + Len(unread')) % N
             /\ \A i \in 1 .. Len(unread') :
                  i > Len(unread') - N => data'[(o + i - 1) % N] = unread'[i]
  BY DEF RingOK
<1>6. \A i \in 1 .. L : unread'[i] = unread[i]
  BY <1>2 DEF TypeOK
<1>7. \A i \in 1 .. n : unread'[L + i] = s[i]
  BY <1>2 DEF TypeOK
<1> HIDE DEF L, n, o
<1>8. head' = (o + Len(unread')) % N
  <2>1. o + L \in Int /\ n \in Int
    BY <1>1
  <2>2. (((o + L) % N) + n) % N = (o + L + n) % N
    BY <1>1, <2>1, ModAdd
  <2>3. o + L + n = o + (L + n)
    BY <1>1
  <2> QED BY <1>2, <1>3, <2>2, <2>3
<1>9. ASSUME NEW i \in 1 .. Len(unread'), i > Len(unread') - N
      PROVE  data'[(o + i - 1) % N] = unread'[i]
  <2> DEFINE p == (o + i - 1) % N
  <2>1. i \in Int /\ i >= 1 /\ i <= L + n /\ i > L + n - N
    BY <1>1, <1>2, <1>9
  <2>2. o + i - 1 \in Int /\ o + L \in Int /\ i - 1 - L \in Int
    BY <1>1, <2>1
  <2>3. p \in 0 .. N - 1
    BY <1>1, <2>2, ModDiv
  <2>4. (p - head) % N = (i - 1 - L) % N
    <3>1. PICK q \in Int : o + i - 1 = q * N + p
      BY <1>1, <2>2, ModDiv
    <3>2. PICK m \in Int : o + L = m * N + head
      BY <1>1, <1>3, <2>2, ModDiv
    <3> HIDE DEF p
    <3>3. PICK d \in Int : d = m - q
      OBVIOUS
    <3>4. PICK x \in Int : x = p - head
      BY <1>1, <2>3
    <3>5. PICK y \in Int : y = i - 1 - L
      BY <2>2
    <3>6. x = y + d * N
      BY <1>1, <2>1, <2>3, <3>1, <3>2, <3>3, <3>4, <3>5
    <3>7. x % N = y % N
      BY <1>1, <3>6, ModSame
    <3> QED BY <3>4, <3>5, <3>7
  <2>5. CASE i <= L
    <3>1. (i - 1 - L) % N = N + i - 1 - L
      <4>1. N + i - 1 - L \in 0 .. N - 1 /\ -1 \in Int
        BY <1>1, <2>1, <2>5
      <4>2. i - 1 - L = (-1) * N + (N + i - 1 - L)
        BY <1>1, <2>1
      <4> QED BY <1>1, <2>2, <4>1, <4>2, ModOf
    <3>2. ~((p - head) % N < n)
      BY <1>1, <2>1, <2>4, <3>1
    <3>3. data'[p] = data[p]
      BY <1>5, <2>3, <3>2
    <3>4. i \in 1 .. L /\ i > L - N
      BY <1>1, <2>1, <2>5
    <3> QED BY <1>4, <1>6, <3>3, <3>4
  <2>6. CASE i > L
    <3>1. (i - 1 - L) % N = i - 1 - L
      <4>1. i - 1 - L \in 0 .. N - 1 /\ 0 \in Int
        BY <1>1, <2>1, <2>6
      <4>2. i - 1 - L = 0 * N + (i - 1 - L)
        BY <1>1, <4>1
      <4> QED BY <1>1, <2>2, <4>1, <4>2, ModOf
    <3>2. (p - head) % N < n /\ ((p - head) % N) + 1 = i - L
      BY <1>1, <2>1, <2>4, <3>1
    <3>3. data'[p] = s[i - L]
      BY <1>5, <2>3, <3>2
    <3>4. i - L \in 1 .. n /\ L + (i - L) = i
      BY <1>1, <2>1, <2>6
    <3>5. unread'[i] = s[i - L]
      BY <1>7, <3>4
    <3> QED BY <3>3, <3>5
  <2> QED BY <1>1, <2>1, <2>5, <2>6
<1> QED BY <1>8, <1>9

(* The reader's advance of foot is not yet an advance of what it reads. *)
LEMMA SlotAfterStore ==
  ASSUME TypeOK
  PROVE  (((foot + 1) % N) - 1) % N = foot
<1>1. N \in Nat \ {0} /\ foot \in 0 .. N - 1 /\ foot \in Int /\ foot + 1 \in Int
  BY KeyboardAssumption DEF TypeOK
<1>2. PICK a \in Int, b \in Int : a = foot + 1 /\ b = -1
  BY <1>1
<1>3. ((a % N) + b) % N = (a + b) % N
  BY <1>1, ModAdd
<1>4. foot % N = foot
  <2>1. foot = 0 * N + foot /\ 0 \in Int
    BY <1>1
  <2> QED BY <1>1, <2>1, ModOf
<1>5. a % N \in Int
  BY <1>1, ModDiv
<1>6. a + b = foot /\ (a % N) + b = ((foot + 1) % N) - 1
  BY <1>1, <1>2, <1>5
<1> QED BY <1>3, <1>4, <1>6

LEMMA ReaderRing == IInv /\ RingOK /\ Reader => RingOK'
<1> SUFFICES ASSUME IInv, RingOK, Reader PROVE RingOK'
  OBVIOUS
<1>1. TypeOK /\ N \in Nat \ {0}
  BY KeyboardAssumption DEF IInv
<1>2. CASE TestEmpty \/ NoteReader \/ BlockReader \/ GetLoad
  <2>1. UNCHANGED <<head, foot, data, unread>> /\ pc # "deref" /\ pc' # "deref"
    BY <1>2 DEF TestEmpty, NoteReader, BlockReader, GetLoad, ring
  <2> QED BY <2>1 DEF RingOK, Oldest
<1>3. CASE GetStore
  <2>1. UNCHANGED <<head, data, unread>> /\ Oldest = foot /\ Oldest' = (foot' - 1) % N
        /\ foot' = (foot + 1) % N
    BY <1>3 DEF GetStore, Oldest, Slot
  <2>2. Oldest' = Oldest
    BY <1>1, <2>1, SlotAfterStore
  <2> QED BY <2>1, <2>2 DEF RingOK
<1>4. CASE GetDeref
  <2>1. /\ UNCHANGED <<head, data, foot>> /\ Oldest = (foot - 1) % N /\ Oldest' = foot
        /\ unread' = Tail(unread)
    BY <1>4 DEF GetDeref, Oldest, Slot, ring
  <2>2. unread # <<>>
    BY <1>1, <1>4 DEF GetDeref, IInv, TypeOK, UsedNeverAhead
  <2> DEFINE L == Len(unread)
  <2>3. /\ L \in Nat \ {0} /\ Len(unread') = L - 1 /\ foot \in Int /\ foot - 1 \in Int
        /\ \A i \in 1 .. L - 1 : unread'[i] = unread[i + 1]
    BY <1>1, <2>1, <2>2 DEF TypeOK
  <2> HIDE DEF L
  <2>4. ASSUME NEW a \in Int PROVE (((foot - 1) % N) + a) % N = (foot + (a - 1)) % N
    <3>1. (((foot - 1) % N) + a) % N = (foot - 1 + a) % N
      BY <1>1, <2>3, ModAdd
    <3> QED BY <2>3, <3>1
  <2>5. head' = (Oldest' + Len(unread')) % N
    <3>1. (((foot - 1) % N) + L) % N = (foot + (L - 1)) % N
      BY <2>3, <2>4
    <3> QED BY <2>1, <2>3, <3>1 DEF RingOK, L
  <2>6. ASSUME NEW i \in 1 .. Len(unread'), i > Len(unread') - N
        PROVE  data'[(Oldest' + i - 1) % N] = unread'[i]
    <3>1. i + 1 \in 1 .. L /\ i + 1 > L - N /\ i \in Int /\ i \in 1 .. L - 1
      BY <1>1, <2>3, <2>6
    <3>2. data[(Oldest + (i + 1) - 1) % N] = unread[i + 1]
      BY <3>1 DEF RingOK, L
    <3>3. (((foot - 1) % N) + i) % N = (foot + (i - 1)) % N
      BY <2>4, <3>1
    <3>4. (Oldest + (i + 1) - 1) = Oldest + i /\ foot + (i - 1) = foot + i - 1
      BY <1>1, <2>3, <3>1, OldestType
    <3> QED BY <2>1, <2>3, <3>1, <3>2, <3>3, <3>4
  <2> QED BY <2>5, <2>6 DEF RingOK
<1> QED BY <1>2, <1>3, <1>4 DEF Reader

LEMMA InterruptRing ==
  ASSUME NEW b \in Keyed PROVE IInv /\ RingOK /\ KeyInterrupt(b) => RingOK'
<1> SUFFICES ASSUME IInv, RingOK, KeyInterrupt(b) PROVE RingOK'
  OBVIOUS
<1>1. TypeOK /\ b \in ScanCodes /\ used \in Nat /\ N \in Nat
  BY KeyboardAssumption DEF IInv, TypeOK
<1>2. CASE UNCHANGED <<ring, unread>>
  <2>1. UNCHANGED pc
    BY DEF KeyInterrupt
  <2> QED BY <1>2, <2>1 DEF RingOK, Oldest, Slot, ring
<1>3. CASE /\ b # "E0" /\ ~IsBreak(b) /\ CodesOf(b) # <<>> /\ ~(used >= N)
  <2>1. PushAll(Fits(CodesOf(b))) /\ UNCHANGED <<foot, pc>>
    BY <1>3, Zenon DEF KeyInterrupt
  <2>2. used < N
    BY <1>1, <1>3
  <2>3. PICK s \in Seq(Codes) : s = Fits(CodesOf(b)) /\ Len(s) > 0 /\ used + Len(s) <= N
    BY <1>1, <1>3, <2>2, FitsCodes
  <2>4. Len(s) <= N
    BY <1>1, <2>3
  <2>5. Oldest' = Oldest
    BY <2>1 DEF Oldest, Slot
  <2> QED BY <1>1, <2>1, <2>3, <2>4, <2>5, PushRing
<1>4. CASE b = "E0" \/ IsBreak(b) \/ CodesOf(b) = <<>> \/ used >= N
  BY <1>2, <1>4 DEF KeyInterrupt, IsBreak
<1> QED BY <1>3, <1>4

LEMMA NextRing == IInv /\ RingOK /\ [Next]_vars => RingOK'
<1>1. RingOK /\ UNCHANGED vars => RingOK'
  BY DEF vars, flags, ring, RingOK, Oldest, Slot
<1> QED BY <1>1, ReaderRing, InterruptRing DEF Next

(* While no more than N bytes are unread, they are on the ring in the      *)
(* order they were pushed, and the reader gets the oldest.                 *)
THEOREM BytesInOrder == Spec => []InOrder
<1>1. IInv /\ RingOK => InOrder
  <2> SUFFICES ASSUME IInv, RingOK, Len(unread) <= N, NEW i \in 1 .. Len(unread)
               PROVE  data[(Oldest + i - 1) % N] = unread[i]
    BY DEF InOrder, Oldest
  <2>1. i > Len(unread) - N
    BY KeyboardAssumption DEF IInv, TypeOK
  <2> QED BY <2>1 DEF RingOK
<1> QED BY <1>1, InitRing, NextRing, Invariance, PTL DEF Spec

----------------------------------------------------------------------------
(* The texts of the shell and their colours *)

(* The bytes of texts in one colour: zeros and the numbers of such texts.  *)
InColour(s, texts, c) ==
  \A i \in DOMAIN s : s[i] = 0 \/ (s[i] \in DOMAIN texts /\ texts[s[i]] = c)

TextsTypes ==
  /\ log \in Seq(Nat) /\ tail \in Seq(Nat) /\ buf \in Seq(Nat) /\ said \in Seq(Colour)
  /\ colour \in Colour /\ right \in 0 .. LogSize - 1 /\ Len(tail) <= TextLen

(* While a text is on its way, the lock is closed or printf is about to    *)
(* close it, so that the colour is still that of the text.                 *)
TextsIInv ==
  /\ TextsTypes
  /\ drain # "printing" => buf = <<>>
  /\ user # "wrapping" => tail = <<>>
  /\ ~early =>
       /\ ~mixed
       /\ user = "running" /\ (log # <<>> \/ buf # <<>>) => lock
       /\ InColour(log, said, colour) /\ InColour(tail, said, colour) /\ InColour(buf, said, colour)

LEMMA SubSeqIs ==
  ASSUME NEW S, NEW s \in Seq(S), NEW m \in Nat, NEW n \in Nat, n <= Len(s)
  PROVE  LET r == SubSeq(s, m + 1, n)
         IN  /\ r \in Seq(S)
             /\ \A i \in DOMAIN r : i + m \in DOMAIN s /\ r[i] = s[i + m]
  OBVIOUS

LEMMA InColourParts ==
  ASSUME NEW s \in Seq(Nat), NEW texts, NEW c, InColour(s, texts, c), NEW m \in Nat, NEW n \in Nat, n <= Len(s)
  PROVE  InColour(SubSeq(s, m + 1, n), texts, c)
BY SubSeqIs DEF InColour

LEMMA InColourBoth ==
  ASSUME NEW s \in Seq(Nat), NEW r \in Seq(Nat), NEW texts, NEW c,
         InColour(s, texts, c), InColour(r, texts, c)
  PROVE  s \o r \in Seq(Nat) /\ InColour(s \o r, texts, c)
<1>1. s \o r \in Seq(Nat)
  OBVIOUS
<1>2. ASSUME NEW i \in DOMAIN (s \o r) PROVE (s \o r)[i] = 0 \/ ((s \o r)[i] \in DOMAIN texts /\ texts[(s \o r)[i]] = c)
  <2>1. CASE i <= Len(s)
    <3>1. (s \o r)[i] = s[i] /\ i \in DOMAIN s
      BY <2>1
    <3> QED BY <3>1 DEF InColour
  <2>2. CASE ~(i <= Len(s))
    <3>1. (s \o r)[i] = r[i - Len(s)] /\ i - Len(s) \in DOMAIN r
      BY <2>2
    <3> QED BY <3>1 DEF InColour
  <2> QED BY <2>1, <2>2
<1> QED BY <1>1, <1>2 DEF InColour

LEMMA InitTexts == TextsInit => TextsIInv
<1>1. ASSUME TextsInit PROVE TextsIInv
  <2>1. <<>> \in Seq(Nat) /\ <<>> \in Seq(Colour) /\ Len(<<>>) = 0 /\ TextLen \in Nat /\ 1 \in 0 .. LogSize - 1
    BY TextsAssumption
  <2>2. \A texts, c : InColour(<<>>, texts, c)
    BY DEF InColour
  <2> QED BY <1>1, <2>1, <2>2 DEF TextsInit, TextsIInv, TextsTypes
<1> QED BY <1>1

LEMMA SayKeeps ==
  ASSUME TextsIInv, Say
  PROVE  TextsIInv'
<1> DEFINE n == Len(said) + 1
<1>1. n \in Nat \ {0} /\ said' = Append(said, colour) /\ user = "running"
  BY DEF Say, TextsIInv, TextsTypes
<1>2. PICK s : s = Bytes(n)
  OBVIOUS
<1>3. s \in Seq(Nat) /\ Len(s) = TextLen /\ InColour(s, said', colour)
  <2>1. s = [i \in 1 .. TextLen |-> IF i = 1 THEN n ELSE 0] /\ TextLen \in Nat
    BY <1>2, TextsAssumption DEF Bytes
  <2>2. \A i \in 1 .. TextLen : s[i] \in Nat
    BY <1>1, <2>1
  <2>3. s \in Seq(Nat) /\ Len(s) = TextLen /\ DOMAIN s = 1 .. TextLen
    BY <2>1, <2>2
  <2>4. n \in DOMAIN said' /\ said'[n] = colour
    BY <1>1 DEF TextsIInv, TextsTypes
  <2>5. \A i \in 1 .. TextLen : s[i] = 0 \/ s[i] = n
    BY <2>1
  <2> HIDE DEF n
  <2> QED BY <2>3, <2>4, <2>5 DEF InColour
<1>4. UNCHANGED <<drain, buf, lock, colour, early, mixed>> /\ Write(s)
  BY <1>2 DEF Say
<1>5. said' \in Seq(Colour)
  BY <1>1 DEF TextsIInv, TextsTypes
<1>6. \A r : InColour(r, said, colour) => InColour(r, said', colour)
  <2>1. \A k \in DOMAIN said : k \in DOMAIN said' /\ said'[k] = said[k]
    BY <1>1 DEF TextsIInv, TextsTypes
  <2> QED BY <2>1 DEF InColour
<1> HIDE DEF n
<1>7. tail = <<>> /\ user' # "running"
  BY <1>1, <1>4 DEF TextsIInv, Write
<1>8. /\ log' \in Seq(Nat) /\ tail' \in Seq(Nat) /\ Len(tail') <= TextLen /\ right' \in 0 .. LogSize - 1
      /\ ~early => InColour(log', said', colour) /\ InColour(tail', said', colour)
  <2>1. log \in Seq(Nat) /\ right \in 0 .. LogSize - 1 /\ LogSize \in Nat \ {0} /\ TextLen \in Nat
    BY TextsAssumption DEF TextsIInv, TextsTypes
  <2>2. InColour(<<>>, said', colour) /\ <<>> \in Seq(Nat) /\ Len(<<>>) = 0
    BY DEF InColour
  <2>3. ~early => InColour(log, said', colour)
    BY <1>6 DEF TextsIInv
  <2>4. CASE log' = log \o s /\ right' = (right + TextLen) % LogSize /\ UNCHANGED tail
    <3>1. right' \in 0 .. LogSize - 1
      BY <2>1, <2>4
    <3>2. log \o s \in Seq(Nat)
      BY <1>3, <2>1
    <3> QED BY <1>3, <1>7, <2>1, <2>2, <2>3, <2>4, <3>1, <3>2, InColourBoth
  <2>5. CASE /\ log' = log \o SubSeq(s, 1, ToEnd) /\ tail' = SubSeq(s, ToEnd + 1, TextLen) /\ right' = 0
             /\ TextLen > ToEnd
    <3>1. PICK m \in Nat : m = ToEnd /\ m <= Len(s)
      BY <1>3, <2>1, <2>5 DEF ToEnd
    <3>2. SubSeq(s, 0 + 1, m) \in Seq(Nat) /\ InColour(SubSeq(s, 0 + 1, m), said', colour)
      BY <1>3, <3>1, SubSeqIs, InColourParts
    <3>3. SubSeq(s, m + 1, TextLen) \in Seq(Nat) /\ InColour(SubSeq(s, m + 1, TextLen), said', colour)
      BY <1>3, <2>1, <3>1, SubSeqIs, InColourParts
    <3>4. log \o SubSeq(s, 0 + 1, m) \in Seq(Nat)
      BY <2>1, <3>2
    <3>5. log' = log \o SubSeq(s, 0 + 1, m) /\ tail' = SubSeq(s, m + 1, TextLen)
      BY <2>5, <3>1
    <3>6. right' \in 0 .. LogSize - 1
      BY <2>1, <2>5
    <3>7. Len(SubSeq(s, m + 1, TextLen)) <= TextLen
      BY <1>3, <2>1, <3>1
    <3> QED BY <2>1, <2>3, <3>2, <3>3, <3>4, <3>5, <3>6, <3>7, InColourBoth
  <2>6. CASE UNCHANGED <<log, right, tail>>
    BY <1>7, <2>1, <2>2, <2>3, <2>6
  <2> QED BY <1>4, <2>4, <2>5, <2>6 DEF Write
<1>9. ~early => InColour(buf, said', colour)
  BY <1>6 DEF TextsIInv
<1>10. user' # "wrapping" => tail' = <<>>
  BY <1>4, <1>7 DEF Write
<1> QED BY <1>4, <1>5, <1>7, <1>8, <1>9, <1>10 DEF TextsIInv, TextsTypes

LEMMA SayRestKeeps ==
  ASSUME TextsIInv, SayRest
  PROVE  TextsIInv'
<1>1. log \in Seq(Nat) /\ tail \in Seq(Nat) /\ <<>> \in Seq(Nat) /\ Len(<<>>) = 0
  BY DEF TextsIInv, TextsTypes
<1>2. log' = log \o tail /\ tail' = <<>> /\ user' = "locking" /\ right' = Len(tail)
      /\ UNCHANGED <<drain, buf, lock, colour, said, early, mixed>>
  BY DEF SayRest
<1>3. right' \in 0 .. LogSize - 1 /\ TextLen \in Nat
  BY <1>1, <1>2, TextsAssumption DEF TextsIInv, TextsTypes
<1>4. InColour(<<>>, said, colour)
  BY DEF InColour
<1>5. log \o tail \in Seq(Nat) /\ (~early => InColour(log \o tail, said, colour))
  BY <1>1, InColourBoth DEF TextsIInv
<1> QED BY <1>1, <1>2, <1>3, <1>4, <1>5 DEF TextsIInv, TextsTypes

LEMMA LogReadKeeps ==
  ASSUME TextsIInv, LogRead
  PROVE  TextsIInv'
<1>1. log \in Seq(Nat) /\ TextLen \in Nat
  BY TextsAssumption DEF TextsIInv, TextsTypes
<1>2. PICK m \in Nat : m = Taken /\ m <= Len(log)
  BY <1>1 DEF Taken, Unread
<1>3. buf' = SubSeq(log, 0 + 1, m) /\ log' = SubSeq(log, m + 1, Len(log)) /\ drain' = "printing"
      /\ UNCHANGED <<right, tail, user, lock, colour, said, early, mixed>>
  BY <1>2 DEF LogRead, Unread
<1>4. buf' \in Seq(Nat) /\ log' \in Seq(Nat)
  BY <1>1, <1>2, <1>3, SubSeqIs
<1>5. ~early => InColour(buf', said, colour) /\ InColour(log', said, colour)
  <2>1. ~early => InColour(log, said, colour)
    BY DEF TextsIInv
  <2>2. Len(log) \in Nat /\ 0 \in Nat
    BY <1>1
  <2>3. ~early => InColour(SubSeq(log, 0 + 1, m), said, colour)
    BY <1>1, <1>2, <2>1, <2>2, InColourParts
  <2>4. ~early => InColour(SubSeq(log, m + 1, Len(log)), said, colour)
    BY <1>1, <1>2, <2>1, <2>2, InColourParts
  <2> QED BY <1>3, <2>3, <2>4
<1>6. log = <<>> => buf' = <<>> /\ log' = <<>>
  BY <1>1, <1>2, <1>3
<1> QED BY <1>3, <1>4, <1>5, <1>6 DEF TextsIInv, TextsTypes

LEMMA LogPrintKeeps ==
  ASSUME TextsIInv, LogPrint
  PROVE  TextsIInv'
<1>1. buf' = <<>> /\ drain' = "unlocking" /\ UNCHANGED <<log, right, tail, user, lock, colour, said, early>>
      /\ mixed' = (mixed \/ ((buf # <<>> /\ buf[1] # 0) /\ said[buf[1]] # colour))
  BY DEF LogPrint
<1>2. ~early /\ buf # <<>> /\ buf[1] # 0 => said[buf[1]] = colour
  <2>1. buf # <<>> => 1 \in DOMAIN buf
    BY DEF TextsIInv, TextsTypes
  <2> QED BY <2>1 DEF TextsIInv, InColour
<1>3. InColour(<<>>, said, colour) /\ <<>> \in Seq(Nat)
  BY DEF InColour
<1> QED BY <1>1, <1>2, <1>3 DEF TextsIInv, TextsTypes

LEMMA NextTexts == TextsIInv /\ [TextsNext]_textVars => TextsIInv'
<1> SUFFICES ASSUME TextsIInv, [TextsNext]_textVars PROVE TextsIInv'
  OBVIOUS
<1>1. CASE LockAttr
  BY <1>1 DEF LockAttr, TextsIInv, TextsTypes
<1>2. ASSUME NEW c \in Colour, SetColour(c) PROVE TextsIInv'
  <2>1. ~early => log = <<>> /\ buf = <<>> /\ tail = <<>>
    BY <1>2 DEF SetColour, TextsIInv
  <2>2. InColour(<<>>, said, c)
    BY DEF InColour
  <2> QED BY <1>2, <2>1, <2>2 DEF SetColour, TextsIInv, TextsTypes
<1>3. CASE LogUnlock
  BY <1>3 DEF LogUnlock, TextsIInv, TextsTypes
<1>4. CASE UNCHANGED textVars
  BY <1>4 DEF textVars, TextsIInv, TextsTypes
<1> QED
  BY <1>1, <1>2, <1>3, <1>4, SayKeeps, SayRestKeeps, LogReadKeeps, LogPrintKeeps DEF TextsNext

(* For texts and pipes of any length: until test_t2 opens the lock of the  *)
(* tty with a text still unread, every text is shown in the colour that    *)
(* the shell printed it in.                                                *)
THEOREM ColoursAreKept == TextsSpec => []ColourKept
<1>1. TextsSpec => []TextsIInv
  BY InitTexts, NextTexts, PTL DEF TextsSpec
<1>2. TextsIInv => ColourKept
  BY DEF TextsIInv, ColourKept
<1> QED BY <1>1, <1>2, PTL

----------------------------------------------------------------------------
(* The order of the texts *)

(* The bytes of j texts *)
Size(j) == TextLen * j

(* k texts, numbered from m + 1 on, of the last of which r bytes are       *)
(* missing                                                                 *)
Begun(s, m, k, r) ==
  /\ Len(s) = Size(k) - r /\ r < TextLen /\ (k = 0 => r = 0)
  /\ \A j \in 0 .. k - 1 : s[Size(j) + 1] = m + j + 1

(* At most one text is being printed, the others are in the pipe. *)
InTurn ==
  \E b \in {0, 1}, k \in Nat :
    /\ Begun(buf, Len(shown), b, 0) /\ Begun(log, Len(shown) + b, k, Len(tail))
    /\ Len(said) = Len(shown) + b + k
    /\ shown = [i \in 1 .. Len(shown) |-> i]

TextsInTurn == shown \in Seq(Nat) /\ (~missed => InTurn)

(* Where texts begin *)
LEMMA TextStarts ==
  ASSUME NEW k \in Nat
  PROVE  /\ Size(k) \in Nat /\ Size(k + 1) = Size(k) + TextLen /\ Size(0) = 0 /\ Size(1) = TextLen
         /\ \A j \in 0 .. k - 1 : Size(j) \in Nat /\ Size(j) + TextLen <= Size(k)
<1>1. PICK L \in Nat : L = TextLen /\ L > 1
  BY TextsAssumption
<1>2. L * k \in Nat /\ L * (k + 1) = L * k + L /\ L * 0 = 0 /\ L * 1 = L
  OBVIOUS
<1>3. ASSUME NEW j \in 0 .. k - 1 PROVE L * j \in Nat /\ L * j + L <= L * k
  <2>1. PICK d \in Nat : k = j + 1 + d
    <3>1. k - (j + 1) \in Nat /\ k = j + 1 + (k - (j + 1))
      OBVIOUS
    <3> QED BY <3>1
  <2>2. L * k = L * j + L + L * d /\ L * d \in Nat /\ L * j \in Nat
    BY <2>1
  <2> QED BY <2>2
<1> QED BY <1>1, <1>2, <1>3 DEF Size

LEMMA InBegun ==
  ASSUME NEW z \in Nat, NEW L \in Nat, NEW a \in Nat, NEW r \in Nat, z + L <= a, r < L, NEW n, n = a - r
  PROVE  z + 1 \in 1 .. n
OBVIOUS

LEMMA NextIn ==
  ASSUME NEW z \in Nat, NEW L \in Nat, L > 1, NEW n \in Nat, z + L <= n
  PROVE  z + 1 \in 1 .. n
OBVIOUS

LEMMA DivOf ==
  ASSUME NEW n \in Nat \ {0}, NEW q \in Nat, NEW r \in 0 .. n - 1, NEW a \in Nat, a = n * q + r
  PROVE  a \div n = q
OBVIOUS

LEMMA TextsBegun ==
  ASSUME NEW s \in Seq(Nat), NEW m \in Nat, NEW k \in Nat, NEW r \in Nat, Begun(s, m, k, r)
  PROVE  TextsIn(s) = [i \in 1 .. k |-> m + i]
<1>1. PICK L \in Nat \ {0} : L = TextLen
  BY TextsAssumption
<1>2. PICK n \in Nat : n = Len(s)
  OBVIOUS
<1>3. n + L - 1 = L * k + (L - 1 - r) /\ L - 1 - r \in 0 .. L - 1 /\ n + L - 1 \in Nat
  BY <1>1, <1>2 DEF Begun, Size
<1>4. (n + L - 1) \div L = k
  BY <1>3, DivOf
<1>5. ASSUME NEW i \in 1 .. k PROVE s[L * (i - 1) + 1] = m + i
  <2>1. PICK j \in 0 .. k - 1 : j = i - 1
    OBVIOUS
  <2>2. s[Size(j) + 1] = m + j + 1
    BY <2>1 DEF Begun
  <2>3. Size(j) = L * (i - 1)
    BY <1>1, <2>1 DEF Size
  <2> QED BY <2>1, <2>2, <2>3
<1> QED BY <1>1, <1>2, <1>4, <1>5 DEF TextsIn

LEMMA TwoParts ==
  ASSUME NEW s \in Seq(Nat), NEW u \in Seq(Nat)
  PROVE  \E v \in Seq(Nat) :
           /\ v = s \o u /\ Len(v) = Len(s) + Len(u) /\ \A i \in 1 .. Len(s) : v[i] = s[i]
           /\ \A i \in 1 .. Len(u) : v[Len(s) + i] = u[i]
<1> DEFINE w == s \o u
<1>1. /\ w \in Seq(Nat) /\ Len(w) = Len(s) + Len(u) /\ \A i \in 1 .. Len(s) : w[i] = s[i]
      /\ \A i \in 1 .. Len(u) : w[Len(s) + i] = u[i]
  OBVIOUS
<1>2. w = s \o u
  OBVIOUS
<1> HIDE DEF w
<1> QED BY <1>1, <1>2

(* A text, or its first bytes, are added *)
LEMMA BegunMore ==
  ASSUME NEW s \in Seq(Nat), NEW m \in Nat, NEW k \in Nat, Begun(s, m, k, 0),
         NEW u \in Seq(Nat), NEW r \in Nat, r < TextLen, Len(u) = TextLen - r, u[1] = m + k + 1
  PROVE  Begun(s \o u, m, k + 1, r)
<1>1. PICK L \in Nat : L = TextLen /\ L > 1
  BY TextsAssumption
<1>2. PICK n \in Nat : n = Len(s)
  OBVIOUS
<1>3. n = Size(k) /\ Size(k + 1) = n + L
  <2>1. Size(k) \in Nat /\ Size(k + 1) = Size(k) + L
    BY <1>1, TextStarts
  <2>2. Len(s) = Size(k) - 0
    BY DEF Begun
  <2> QED BY <1>2, <2>1, <2>2
<1>c. PICK v \in Seq(Nat) :
        /\ v = s \o u /\ Len(v) = Len(s) + Len(u) /\ \A i \in 1 .. Len(s) : v[i] = s[i]
        /\ \A i \in 1 .. Len(u) : v[Len(s) + i] = u[i]
  BY TwoParts
<1>4. /\ v = s \o u /\ Len(v) = n + Len(u) /\ \A i \in 1 .. n : v[i] = s[i]
      /\ \A i \in 1 .. Len(u) : v[n + i] = u[i]
  BY <1>2, <1>c
<1>5. Len(v) = Size(k + 1) - r
  BY <1>1, <1>3, <1>4
<1>6. ASSUME NEW j \in 0 .. k PROVE v[Size(j) + 1] = m + j + 1
  <2>1. CASE j = k
    <3>1. v[n + 1] = u[1]
      BY <1>1, <1>4
    <3> QED BY <1>3, <2>1, <3>1
  <2>2. CASE j # k
    <3>1. PICK i \in 0 .. k - 1 : i = j
      BY <2>2
    <3>2. PICK z \in Nat : z = Size(i) /\ z + L <= n
      BY <1>1, <1>3, TextStarts
    <3>3. v[z + 1] = s[z + 1]
      <4>1. z + 1 \in 1 .. n
        BY <1>1, <1>2, <3>2, NextIn
      <4> QED BY <1>4, <4>1
    <3>4. s[Size(i) + 1] = m + i + 1
      BY DEF Begun
    <3> QED BY <3>1, <3>2, <3>3, <3>4
  <2> QED BY <2>1, <2>2
<1>7. PICK c \in Nat \ {0} : c = k + 1 /\ c - 1 = k
  OBVIOUS
<1>8. Begun(v, m, c, r)
  BY <1>5, <1>6, <1>7 DEF Begun
<1> QED BY <1>4, <1>7, <1>8

(* What was missing is added *)
LEMMA BegunRest ==
  ASSUME NEW s \in Seq(Nat), NEW m \in Nat, NEW k \in Nat, NEW u \in Seq(Nat), Begun(s, m, k, Len(u))
  PROVE  Begun(s \o u, m, k, 0)
<1>1. PICK L \in Nat : L = TextLen /\ L > 1
  BY TextsAssumption
<1>2. PICK n \in Nat, r \in Nat : n = Len(s) /\ r = Len(u)
  OBVIOUS
<1>3. n = Size(k) - r /\ r < L
  BY <1>1, <1>2 DEF Begun
<1>c. PICK v \in Seq(Nat) :
        /\ v = s \o u /\ Len(v) = Len(s) + Len(u) /\ \A i \in 1 .. Len(s) : v[i] = s[i]
        /\ \A i \in 1 .. Len(u) : v[Len(s) + i] = u[i]
  BY TwoParts
<1>4. v = s \o u /\ Len(v) = n + r /\ \A i \in 1 .. n : v[i] = s[i]
  BY <1>2, <1>c
<1>n. PICK a \in Nat : a = Size(k)
  BY TextStarts
<1>5. Len(v) = Size(k) - 0
  BY <1>3, <1>4, <1>n
<1>6. ASSUME NEW j \in 0 .. k - 1 PROVE v[Size(j) + 1] = m + j + 1
  <2>1. PICK z \in Nat : z = Size(j) /\ z + L <= Size(k)
    BY <1>1, TextStarts
  <2>2. v[z + 1] = s[z + 1]
    <3>1. z + 1 \in 1 .. n
      <4>1. z + L <= a /\ n = a - r /\ r < L
        BY <1>3, <1>n, <2>1
      <4> QED BY <1>1, <1>2, <1>n, <2>1, <4>1, InBegun
    <3> QED BY <1>4, <3>1
  <2>3. s[Size(j) + 1] = m + j + 1
    BY DEF Begun
  <2> QED BY <2>1, <2>2, <2>3
<1>7. Begun(v, m, k, 0)
  BY <1>1, <1>5, <1>6 DEF Begun
<1> QED BY <1>4, <1>7

LEMMA HeadIs ==
  ASSUME NEW s \in Seq(Nat), NEW n \in Nat, n <= Len(s)
  PROVE  \E v \in Seq(Nat) : v = SubSeq(s, 1, n) /\ Len(v) = n /\ \A i \in 1 .. n : v[i] = s[i]
<1> DEFINE w == SubSeq(s, 1, n)
<1>1. w \in Seq(Nat) /\ Len(w) = n /\ \A i \in 1 .. n : w[i] = s[i]
  OBVIOUS
<1>2. w = SubSeq(s, 1, n)
  OBVIOUS
<1> HIDE DEF w
<1> QED BY <1>1, <1>2

LEMMA RestIs ==
  ASSUME NEW s \in Seq(Nat), NEW a \in Nat, NEW r \in Nat, Len(s) = a + r
  PROVE  \E v \in Seq(Nat) : v = SubSeq(s, a + 1, Len(s)) /\ Len(v) = r /\ \A i \in 1 .. r : v[i] = s[a + i]
<1> DEFINE w == SubSeq(s, a + 1, Len(s))
<1>1. w \in Seq(Nat) /\ Len(w) = r
  OBVIOUS
<1>2. \A i \in 1 .. r : w[i] = s[a + i]
  OBVIOUS
<1>3. w = SubSeq(s, a + 1, Len(s))
  OBVIOUS
<1> HIDE DEF w
<1> QED BY <1>1, <1>2, <1>3

(* The first text is taken *)
LEMMA BegunTaken ==
  ASSUME NEW s \in Seq(Nat), NEW m \in Nat, NEW k \in Nat \ {0}, Begun(s, m, k, 0)
  PROVE  /\ TextLen <= Len(s)
         /\ Begun(SubSeq(s, 1, TextLen), m, 1, 0) /\ Begun(SubSeq(s, TextLen + 1, Len(s)), m + 1, k - 1, 0)
<1>1. PICK L \in Nat : L = TextLen /\ L > 1
  BY TextsAssumption
<1>2. PICK c \in Nat : c = k - 1 /\ k = c + 1
  OBVIOUS
<1>3. PICK b \in Nat : b = Size(c) /\ Len(s) = L + b
  <2>1. Size(c) \in Nat /\ Size(c + 1) = Size(c) + L
    BY <1>1, TextStarts
  <2>2. Len(s) = Size(k) - 0
    BY DEF Begun
  <2> QED BY <1>1, <1>2, <2>1, <2>2
<1>a. L \in Nat /\ L + 1 \in Nat /\ L <= Len(s) /\ Len(s) <= Len(s) /\ Len(s) \in Nat /\ Len(s) - L = b
  BY <1>1, <1>3
<1>4. PICK u \in Seq(Nat) : u = SubSeq(s, 1, L) /\ Len(u) = L /\ \A i \in 1 .. L : u[i] = s[i]
  BY <1>a, HeadIs
<1>5. PICK v \in Seq(Nat) : v = SubSeq(s, L + 1, Len(s)) /\ Len(v) = b /\ \A i \in 1 .. b : v[i] = s[L + i]
  BY <1>3, <1>a, RestIs
<1>6. \A j \in 0 .. c : s[Size(j) + 1] = m + j + 1
  BY <1>2 DEF Begun
<1>7. Begun(u, m, 1, 0)
  <2>1. s[1] = m + 1
    <3>1. Size(0) = 0
      BY TextStarts
    <3> QED BY <1>6, <3>1
  <2>2. \A j \in 0 .. 1 - 1 : u[Size(j) + 1] = m + j + 1
    <3>1. Size(0) = 0
      BY TextStarts
    <3>2. u[1] = m + 1
      BY <1>1, <1>4, <2>1
    <3> QED BY <3>1, <3>2
  <2>3. Len(u) = Size(1) - 0
    BY <1>1, <1>4, TextStarts
  <2> QED BY <1>1, <2>2, <2>3 DEF Begun
<1>8. Begun(v, m + 1, c, 0)
  <2>1. ASSUME NEW j \in 0 .. c - 1 PROVE v[Size(j) + 1] = m + 1 + j + 1
    <3>1. PICK z \in Nat : z = Size(j) /\ z + L <= b
      BY <1>1, <1>3, TextStarts
    <3>2. PICK i \in 0 .. c : i = j + 1
      OBVIOUS
    <3>3. Size(i) = z + L
      BY <1>1, <3>1, <3>2, TextStarts
    <3>4. v[z + 1] = s[L + (z + 1)]
      <4>1. z + 1 \in 1 .. b
        BY <1>1, <1>3, <3>1, NextIn
      <4> QED BY <1>5, <4>1
    <3>5. s[z + L + 1] = m + i + 1
      BY <1>6, <3>3
    <3>6. L + (z + 1) = z + L + 1
      BY <1>1, <3>1
    <3> QED BY <3>1, <3>2, <3>4, <3>5, <3>6
  <2>2. Len(v) = Size(c) - 0
    BY <1>3, <1>5
  <2> QED BY <1>1, <2>1, <2>2 DEF Begun
<1> QED BY <1>1, <1>2, <1>3, <1>4, <1>5, <1>7, <1>8

LEMMA NoText ==
  ASSUME NEW m \in Nat
  PROVE  Begun(<<>>, m, 0, 0)
<1>1. Len(<<>>) = 0 /\ Size(0) = 0 /\ 0 - 0 = 0 /\ ~\E j \in 0 .. 0 - 1 : TRUE
  BY TextStarts
<1> QED BY <1>1, TextsAssumption DEF Begun

LEMMA NoneBegun ==
  ASSUME NEW s \in Seq(Nat), Len(s) = 0, NEW m, NEW k \in Nat, NEW r \in Nat, Begun(s, m, k, r)
  PROVE  k = 0
<1>1. PICK L \in Nat : L = TextLen /\ L > 1
  BY TextsAssumption
<1>2. Len(s) = Size(k) - r /\ r < L
  BY <1>1 DEF Begun
<1>3. PICK z \in Nat : z = Size(k) /\ \A j \in 0 .. k - 1 : Size(j) \in Nat /\ Size(j) + L <= z
  BY <1>1, TextStarts
<1>4. CASE k # 0
  <2>1. 0 \in 0 .. k - 1
    BY <1>4
  <2>2. PICK y \in Nat : y + L <= z
    BY <1>3, <2>1
  <2> QED BY <1>1, <1>2, <1>3, <2>2
<1> QED BY <1>4

LEMMA Numbers ==
  ASSUME NEW m \in Nat, NEW k \in Nat
  PROVE  [i \in 1 .. m |-> i] \o [i \in 1 .. k |-> m + i] = [i \in 1 .. m + k |-> i]
<1> DEFINE s == [i \in 1 .. m |-> i]
           u == [i \in 1 .. k |-> m + i]
           t == [i \in 1 .. m + k |-> i]
<1>1. s \in Seq(Nat) /\ u \in Seq(Nat) /\ t \in Seq(Nat) /\ Len(s) = m /\ Len(u) = k /\ Len(t) = m + k
  OBVIOUS
<1>2. \A i \in 1 .. m : s[i] = i
  OBVIOUS
<1>3. \A i \in 1 .. k : u[i] = m + i
  OBVIOUS
<1>4. \A i \in 1 .. m + k : t[i] = i
  OBVIOUS
<1> HIDE DEF s, u, t
<1>5. PICK v \in Seq(Nat) :
        /\ v = s \o u /\ Len(v) = Len(s) + Len(u) /\ \A i \in 1 .. Len(s) : v[i] = s[i]
        /\ \A i \in 1 .. Len(u) : v[Len(s) + i] = u[i]
  BY <1>1, TwoParts
<1>6. ASSUME NEW i \in 1 .. m + k PROVE v[i] = t[i]
  <2>1. CASE i \in 1 .. m
    BY <1>1, <1>2, <1>4, <1>5, <2>1
  <2>2. CASE i \notin 1 .. m
    <3>1. PICK j \in 1 .. k : i = m + j
      <4>1. i - m \in 1 .. k /\ i = m + (i - m)
        BY <2>2
      <4> QED BY <4>1
    <3>2. v[m + j] = m + j
      BY <1>1, <1>3, <1>5
    <3> QED BY <1>4, <3>1, <3>2
  <2> QED BY <2>1, <2>2
<1>7. v = [i \in 1 .. m + k |-> v[i]] /\ t = [i \in 1 .. m + k |-> t[i]]
  <2>1. PICK n \in Nat : n = m + k /\ Len(v) = n /\ Len(t) = n
    BY <1>1, <1>5
  <2>2. v = [i \in 1 .. n |-> v[i]] /\ t = [i \in 1 .. n |-> t[i]]
    BY <1>1, <2>1
  <2> QED BY <2>1, <2>2
<1>8. v = t
  BY <1>6, <1>7
<1> QED BY <1>5, <1>8 DEF s, u, t

LEMMA InitInTurn == TextsInit => TextsInTurn
<1> SUFFICES ASSUME TextsInit PROVE TextsInTurn
  OBVIOUS
<1>1. /\ log = <<>> /\ tail = <<>> /\ buf = <<>> /\ said = <<>> /\ shown = <<>>
      /\ <<>> \in Seq(Nat) /\ Len(<<>>) = 0
  BY DEF TextsInit
<1>2. Begun(<<>>, 0, 0, 0)
  BY <1>1, NoText
<1>3. <<>> = [i \in 1 .. 0 |-> i]
  OBVIOUS
<1>4. 0 + 0 = 0 /\ 0 + 0 + 0 = 0 /\ 0 \in {0, 1} /\ 0 \in Nat
  OBVIOUS
<1>5. InTurn
  <2>1. \E b \in {0, 1}, k \in Nat : b = 0 /\ k = 0
    BY <1>4
  <2>2. PICK b \in {0, 1}, k \in Nat : b = 0 /\ k = 0
    BY <2>1
  <2>3. Begun(buf, Len(shown), b, 0) /\ Begun(log, Len(shown) + b, k, Len(tail))
    BY <1>1, <1>2, <1>4, <2>2
  <2>4. Len(said) = Len(shown) + b + k /\ shown = [i \in 1 .. Len(shown) |-> i]
    BY <1>1, <1>3, <1>4, <2>2
  <2> QED BY <2>3, <2>4 DEF InTurn
<1> QED BY <1>1, <1>5 DEF TextsInTurn

LEMMA SayInTurn ==
  ASSUME TextsIInv, TextsInTurn, Say, ~missed'
  PROVE  InTurn'
<1>1. PICK L \in Nat : L = TextLen /\ L > 1
  BY TextsAssumption
<1>2. PICK n \in Nat : n = Len(said)
  BY DEF TextsIInv, TextsTypes
<1>3. PICK s : s = Bytes(n + 1)
  OBVIOUS
<1>4. s \in Seq(Nat) /\ Len(s) = L /\ s[1] = n + 1
  <2>1. s = [i \in 1 .. L |-> IF i = 1 THEN n + 1 ELSE 0]
    BY <1>1, <1>3 DEF Bytes
  <2>2. \A i \in 1 .. L : s[i] \in Nat
    BY <1>2, <2>1
  <2>3. 1 \in 1 .. L
    BY <1>1
  <2> QED BY <1>1, <2>1, <2>2, <2>3
<1>5. Write(s) /\ Len(said') = n + 1 /\ UNCHANGED <<buf, shown>> /\ tail = <<>> /\ ~missed
  <2>1. Write(s) /\ said' = Append(said, colour) /\ UNCHANGED <<buf, shown>> /\ user = "running"
    BY <1>2, <1>3 DEF Say
  <2>2. Len(said') = n + 1
    BY <1>2, <2>1 DEF TextsIInv, TextsTypes
  <2>3. ~missed
    BY <2>1 DEF Write
  <2> QED BY <2>1, <2>2, <2>3 DEF TextsIInv
<1>6. PICK b \in {0, 1}, k \in Nat :
        /\ Begun(buf, Len(shown), b, 0) /\ Begun(log, Len(shown) + b, k, Len(tail))
        /\ Len(said) = Len(shown) + b + k /\ shown = [i \in 1 .. Len(shown) |-> i]
  BY <1>5 DEF TextsInTurn, InTurn
<1>7. PICK m \in Nat : m = Len(shown) + b /\ Len(shown) \in Nat /\ n = m + k
  BY <1>2, <1>6 DEF TextsInTurn
<1>8. Begun(log, m, k, 0) /\ log \in Seq(Nat)
  <2>1. Len(tail) = 0
    BY <1>5
  <2> QED BY <1>6, <1>7, <2>1 DEF TextsIInv, TextsTypes
<1>9. Begun(log', m, k + 1, Len(tail'))
  <2>1. CASE log' = log \o s /\ tail' = tail
    <3>1. Len(s) = TextLen - 0 /\ 0 < TextLen /\ s[1] = m + k + 1 /\ 0 \in Nat
      BY <1>1, <1>4, <1>7
    <3>2. Begun(log \o s, m, k + 1, 0)
      BY <1>4, <1>8, <3>1, BegunMore
    <3>3. Len(tail') = 0
      BY <1>5, <2>1
    <3> QED BY <2>1, <3>2, <3>3
  <2>2. CASE TextLen > ToEnd /\ log' = log \o SubSeq(s, 1, ToEnd) /\ tail' = SubSeq(s, ToEnd + 1, TextLen)
    <3>1. PICK e \in Nat : e = ToEnd /\ e > 0
      BY TextsAssumption DEF ToEnd, TextsIInv, TextsTypes
    <3>2. e < L /\ e <= Len(s) /\ 0 \in Nat /\ 0 <= e /\ Len(s) <= Len(s) /\ Len(s) \in Nat
      BY <1>1, <1>4, <2>2, <3>1
    <3>3. PICK u \in Seq(Nat) : u = SubSeq(s, 1, e) /\ Len(u) = e /\ \A i \in 1 .. e : u[i] = s[i]
      BY <1>4, <3>2, HeadIs
    <3>4. PICK v \in Seq(Nat) : v = SubSeq(s, e + 1, Len(s)) /\ Len(v) = Len(s) - e
      <4>1. PICK r \in Nat : r = Len(s) - e /\ Len(s) = e + r
        <5>1. Len(s) - e \in Nat /\ Len(s) = e + (Len(s) - e)
          BY <3>2
        <5> QED BY <5>1
      <4>2. PICK v \in Seq(Nat) : v = SubSeq(s, e + 1, Len(s)) /\ Len(v) = r /\ \A i \in 1 .. r : v[i] = s[e + i]
        <5>1. s \in Seq(Nat) /\ e \in Nat /\ r \in Nat /\ Len(s) = e + r
          BY <1>4, <4>1
        <5> QED BY <5>1, RestIs
      <4> QED BY <4>1, <4>2
    <3>5. PICK r \in Nat : r = Len(v)
      OBVIOUS
    <3>6. r = L - e /\ r < L /\ Len(u) = L - r /\ u[1] = m + k + 1
      <4>1. 1 \in 1 .. e
        BY <3>1
      <4>2. u[1] = s[1]
        BY <3>3, <4>1
      <4>3. r = L - e
        BY <1>4, <3>4, <3>5
      <4>4. Len(u) = e
        BY <3>1, <3>3
      <4>5. r < L /\ e = L - r
        BY <1>1, <3>1, <3>2, <4>3
      <4> QED BY <1>4, <1>7, <4>2, <4>3, <4>4, <4>5
    <3>7. Begun(log \o u, m, k + 1, r)
      BY <1>1, <1>8, <3>6, BegunMore
    <3>8. log' = log \o u /\ tail' = v
      BY <1>1, <1>4, <2>2, <3>1, <3>3, <3>4
    <3> QED BY <3>5, <3>7, <3>8
  <2> QED BY <1>5, <2>1, <2>2 DEF Write
<1>10. PICK c \in Nat : c = k + 1 /\ Len(said') = Len(shown') + b + c
  BY <1>5, <1>6, <1>7
<1>11. Begun(log', Len(shown') + b, c, Len(tail')) /\ Begun(buf', Len(shown'), b, 0)
  BY <1>5, <1>6, <1>7, <1>9, <1>10
<1>12. shown' = [i \in 1 .. Len(shown') |-> i]
  BY <1>5, <1>6
<1> QED BY <1>10, <1>11, <1>12 DEF InTurn

LEMMA SayRestInTurn ==
  ASSUME TextsIInv, TextsInTurn, SayRest, ~missed'
  PROVE  InTurn'
<1>1. /\ log' = log \o tail /\ tail' = <<>> /\ UNCHANGED <<buf, said, shown, missed>>
      /\ log \in Seq(Nat) /\ tail \in Seq(Nat) /\ Len(shown) \in Nat
  BY DEF SayRest, TextsIInv, TextsTypes, TextsInTurn
<1>2. PICK b \in {0, 1}, k \in Nat :
        /\ Begun(buf, Len(shown), b, 0) /\ Begun(log, Len(shown) + b, k, Len(tail))
        /\ Len(said) = Len(shown) + b + k /\ shown = [i \in 1 .. Len(shown) |-> i]
  BY <1>1 DEF TextsInTurn, InTurn
<1>3. PICK m \in Nat : m = Len(shown) + b
  BY <1>1
<1>4. Begun(log \o tail, m, k, 0)
  BY <1>1, <1>2, <1>3, BegunRest
<1>5. Len(tail') = 0
  BY <1>1
<1>6. Begun(log', Len(shown') + b, k, Len(tail'))
  BY <1>1, <1>3, <1>4, <1>5
<1> QED BY <1>1, <1>2, <1>6 DEF InTurn

LEMMA LogReadInTurn ==
  ASSUME TextsIInv, TextsInTurn, LogRead, ~missed'
  PROVE  InTurn'
<1>1. PICK L \in Nat : L = TextLen /\ L > 1
  BY TextsAssumption
<1>2. /\ buf' = SubSeq(log, 1, Taken) /\ log' = SubSeq(log, Taken + 1, Len(log))
      /\ UNCHANGED <<tail, said, shown>> /\ ~missed /\ user # "wrapping" /\ drain = "reading"
  BY DEF LogRead, Unread
<1>3. /\ tail = <<>> /\ Len(tail) = 0 /\ buf = <<>> /\ log \in Seq(Nat) /\ Len(log) \in Nat
      /\ Len(shown) \in Nat /\ buf \in Seq(Nat)
  BY <1>2 DEF TextsIInv, TextsTypes, TextsInTurn
<1>4. PICK b \in {0, 1}, k \in Nat :
        /\ Begun(buf, Len(shown), b, 0) /\ Begun(log, Len(shown) + b, k, Len(tail))
        /\ Len(said) = Len(shown) + b + k /\ shown = [i \in 1 .. Len(shown) |-> i]
  BY <1>2 DEF TextsInTurn, InTurn
<1>5. b = 0 /\ 0 \in Nat
  <2>1. b \in Nat /\ 0 \in Nat /\ Len(buf) = 0
    BY <1>3
  <2> QED BY <1>3, <1>4, <2>1, NoneBegun
<1>6. PICK m \in Nat : m = Len(shown)
  BY <1>3
<1>7. Begun(log, m, k, 0) /\ Len(said) = m + k
  <2>1. m + b = m /\ m + b + k = m + k
    BY <1>5
  <2> QED BY <1>3, <1>4, <1>6, <2>1
<1>8. CASE k = 0
  <2>1. Len(log) = 0
    <3>1. Len(log) = Size(0) - 0 /\ Size(0) = 0
      BY <1>7, <1>8, TextStarts DEF Begun
    <3> QED BY <3>1
  <2>2. Taken = 0
    BY <1>1, <2>1 DEF Taken, Unread
  <2>3. buf' = <<>> /\ log' = <<>>
    BY <1>2, <1>3, <2>1, <2>2
  <2>4. Begun(<<>>, m, 0, 0)
    BY <1>3, NoText
  <2>5. m + 0 = m /\ m + 0 + 0 = m + 0
    OBVIOUS
  <2>6. Begun(buf', Len(shown'), b, 0) /\ Begun(log', Len(shown') + b, k, Len(tail'))
    BY <1>2, <1>3, <1>5, <1>6, <1>8, <2>3, <2>4, <2>5
  <2>7. Len(said') = Len(shown') + b + k /\ shown' = [i \in 1 .. Len(shown') |-> i]
    BY <1>2, <1>4
  <2> QED BY <2>6, <2>7 DEF InTurn
<1>9. CASE k # 0
  <2>1. /\ TextLen <= Len(log)
        /\ Begun(SubSeq(log, 1, TextLen), m, 1, 0) /\ Begun(SubSeq(log, TextLen + 1, Len(log)), m + 1, k - 1, 0)
    BY <1>3, <1>7, <1>9, BegunTaken
  <2>2. Taken = TextLen
    BY <1>1, <1>3, <2>1 DEF Taken, Unread
  <2>3. PICK c \in Nat, d \in {0, 1} : c = k - 1 /\ d = 1
    BY <1>9
  <2>4. Begun(buf', Len(shown'), d, 0) /\ Begun(log', Len(shown') + d, c, Len(tail'))
    BY <1>2, <1>3, <1>6, <2>1, <2>2, <2>3
  <2>5. Len(said') = Len(shown') + d + c
    <3>1. m + k = m + d + c
      BY <2>3
    <3> QED BY <1>2, <1>6, <1>7, <3>1
  <2>6. shown' = [i \in 1 .. Len(shown') |-> i]
    BY <1>2, <1>4
  <2> QED BY <2>4, <2>5, <2>6 DEF InTurn
<1> QED BY <1>8, <1>9

LEMMA LogPrintInTurn ==
  ASSUME TextsIInv, TextsInTurn, LogPrint
  PROVE  TextsInTurn'
<1>1. PICK L \in Nat : L = TextLen /\ L > 1
  BY TextsAssumption
<1>2. PICK m \in Nat : m = Len(shown) /\ shown \in Seq(Nat) /\ buf \in Seq(Nat)
  BY DEF TextsInTurn, TextsIInv, TextsTypes
<1>3. /\ shown' = (IF buf # <<>> /\ buf[1] # 0 THEN Append(shown, buf[1]) ELSE shown)
      /\ buf' = <<>> /\ UNCHANGED <<log, tail, said, missed>>
  BY DEF LogPrint
<1>4. shown' \in Seq(Nat)
  <2>1. buf # <<>> => buf[1] \in Nat
    BY <1>2
  <2> QED BY <1>2, <1>3, <2>1
<1>5. ASSUME ~missed PROVE InTurn'
  <2>1. PICK b \in {0, 1}, k \in Nat :
          /\ Begun(buf, m, b, 0) /\ Begun(log, m + b, k, Len(tail))
          /\ Len(said) = m + b + k /\ shown = [i \in 1 .. m |-> i]
    BY <1>2, <1>5 DEF TextsInTurn, InTurn
  <2>2. Len(shown') = m + b /\ shown' = [i \in 1 .. m + b |-> i]
    <3>1. CASE b = 0
      <4>1. Len(buf) = 0
        <5>1. Len(buf) = Size(0) - 0 /\ Size(0) = 0
          BY <2>1, <3>1, TextStarts DEF Begun
        <5> QED BY <5>1
      <4>2. shown' = shown
        BY <1>2, <1>3, <4>1
      <4>3. m + b = m
        BY <3>1
      <4> QED BY <1>2, <2>1, <4>2, <4>3
    <3>2. CASE b = 1
      <4>1. Len(buf) = L
        <5>1. Len(buf) = Size(1) - 0 /\ Size(1) = L
          BY <1>1, <2>1, <3>2, TextStarts DEF Begun
        <5> QED BY <1>1, <5>1
      <4>2. buf[1] = m + 1
        <5>1. 0 \in 0 .. 1 - 1 /\ Size(0) = 0
          BY TextStarts
        <5>2. buf[Size(0) + 1] = m + 0 + 1
          BY <2>1, <3>2, <5>1 DEF Begun
        <5> QED BY <5>1, <5>2
      <4>3. buf # <<>>
        BY <1>1, <4>1
      <4>4. shown' = Append(shown, m + 1)
        BY <1>3, <4>2, <4>3
      <4>5. /\ Len(shown') = m + 1 /\ shown'[m + 1] = m + 1 /\ \A i \in 1 .. m : shown'[i] = shown[i]
        BY <1>2, <4>4
      <4>6. \A i \in 1 .. m + 1 : shown'[i] = i
        <5>1. \A i \in 1 .. m + 1 : i \in 1 .. m \/ i = m + 1
          OBVIOUS
        <5> QED BY <2>1, <4>5, <5>1
      <4>7. shown' = [i \in 1 .. m + 1 |-> shown'[i]]
        BY <1>4, <4>5
      <4>8. shown' = [i \in 1 .. m + 1 |-> i]
        BY <4>6, <4>7
      <4> QED BY <3>2, <4>5, <4>8
    <3> QED BY <3>1, <3>2
  <2>3. PICK c \in {0, 1} : c = 0
    OBVIOUS
  <2>4. PICK n \in Nat : n = m + b
    OBVIOUS
  <2>5. n + c = n /\ n + c + k = n + k
    BY <2>3
  <2>6. Begun(buf', Len(shown'), c, 0)
    BY <1>3, <2>2, <2>3, <2>4, NoText
  <2>7. Begun(log', Len(shown') + c, k, Len(tail'))
    BY <1>3, <2>1, <2>2, <2>4, <2>5
  <2>8. Len(said') = Len(shown') + c + k /\ shown' = [i \in 1 .. Len(shown') |-> i]
    BY <1>3, <2>1, <2>2, <2>4, <2>5
  <2> QED BY <2>6, <2>7, <2>8 DEF InTurn
<1> QED BY <1>3, <1>4, <1>5 DEF TextsInTurn

LEMMA NextInTurn == TextsIInv /\ TextsInTurn /\ [TextsNext]_textVars => TextsInTurn'
<1> SUFFICES ASSUME TextsIInv, TextsInTurn, [TextsNext]_textVars PROVE TextsInTurn'
  OBVIOUS
<1>1. CASE Say
  <2>1. shown' \in Seq(Nat)
    BY <1>1 DEF Say, TextsInTurn
  <2> QED BY <1>1, <2>1, SayInTurn DEF TextsInTurn
<1>2. CASE SayRest
  <2>1. shown' \in Seq(Nat)
    BY <1>2 DEF SayRest, TextsInTurn
  <2> QED BY <1>2, <2>1, SayRestInTurn DEF TextsInTurn
<1>3. CASE LogRead
  <2>1. shown' \in Seq(Nat)
    BY <1>3 DEF LogRead, TextsInTurn
  <2> QED BY <1>3, <2>1, LogReadInTurn DEF TextsInTurn
<1>4. CASE LogPrint
  BY <1>4, LogPrintInTurn
<1>5. ASSUME UNCHANGED <<log, tail, buf, said, shown, missed>> PROVE TextsInTurn'
  <2>1. InTurn => InTurn'
    BY <1>5 DEF InTurn
  <2> QED BY <1>5, <2>1 DEF TextsInTurn
<1>6. CASE LockAttr \/ (\E c \in Colour : SetColour(c)) \/ LogUnlock \/ UNCHANGED textVars
  BY <1>5, <1>6 DEF LockAttr, SetColour, LogUnlock, textVars
<1> QED BY <1>1, <1>2, <1>3, <1>4, <1>6 DEF TextsNext

(* For texts and pipes of any length, and however the shell and test_t2    *)
(* alternate: until a text is refused, or read while it is divided, every  *)
(* text that the shell printed is on the screen, in the buffer of test_t2  *)
(* or in the pipe, once and in order.                                      *)
THEOREM AllTextsShown == TextsSpec => []TextsShown
<1>1. TextsSpec => [](TextsIInv /\ TextsInTurn)
  BY InitTexts, InitInTurn, NextTexts, NextInTurn, PTL DEF TextsSpec
<1>2. TextsIInv /\ TextsInTurn => TextsShown
  <2> SUFFICES ASSUME TextsIInv, TextsInTurn, ~missed
               PROVE  shown \o TextsIn(buf) \o TextsIn(log) = [i \in 1 .. Len(said) |-> i]
    BY DEF TextsShown
  <2>1. PICK m \in Nat : m = Len(shown) /\ log \in Seq(Nat) /\ buf \in Seq(Nat) /\ Len(tail) \in Nat
    BY DEF TextsInTurn, TextsIInv, TextsTypes
  <2>2. PICK b \in {0, 1}, k \in Nat :
          /\ Begun(buf, m, b, 0) /\ Begun(log, m + b, k, Len(tail))
          /\ Len(said) = m + b + k /\ shown = [i \in 1 .. m |-> i]
    BY <2>1 DEF TextsInTurn, InTurn
  <2>3. PICK n \in Nat : n = m + b /\ b \in Nat
    OBVIOUS
  <2>4. TextsIn(buf) = [i \in 1 .. b |-> m + i] /\ TextsIn(log) = [i \in 1 .. k |-> n + i]
    BY <2>1, <2>2, <2>3, TextsBegun
  <2>5. [i \in 1 .. m |-> i] \o [i \in 1 .. b |-> m + i] = [i \in 1 .. n |-> i]
    BY <2>3, Numbers
  <2>6. [i \in 1 .. n |-> i] \o [i \in 1 .. k |-> n + i] = [i \in 1 .. n + k |-> i]
    BY <2>3, Numbers
  <2> QED BY <2>2, <2>3, <2>4, <2>5, <2>6
<1> QED BY <1>1, <1>2, PTL

----------------------------------------------------------------------------
(* The screen *)

Char == Glyph \cup {" "}
Line == [Columns -> Char]

(* The lines of a roll after k, a roll or a screen with one character more *)
Window(r, k) == [z \in Rows |-> r[k + 1 + z]]
Inked(r, i, x, c) == [r EXCEPT ![i][x] = c]

Shows(k) == screen = Window(roll, k)
Level == Len(roll) - Height

(* The next character goes to column x, row y of a screen that shows the   *)
(* end of the roll.                                                        *)
Stay(x, y) ==
  /\ x \in Columns /\ y \in Rows
  /\ Shows(Level) /\ pen.col = x /\ pen.row = Level + 1 + y

(* Row y is full and the next character goes below it.  If that is below   *)
(* the screen, the roll is a line ahead of it.                             *)
Falls(y) ==
  /\ y \in Rows /\ pen.col = 0
  /\ \/ y < Height - 1 /\ Shows(Level) /\ pen.row = Level + 2 + y
     \/ /\ y = Height - 1 /\ Shows(Level - 1) /\ pen.row = Level + 1 + y
        /\ Level > 0 /\ roll[Len(roll)] = Blank

(* Where the only thread in vga_gen_puchar is *)
PlaceOK(a, r) ==
  /\ a \in {"drawn", "loaded_x"} =>
       /\ cur_x \in Columns
       /\ Stay(cur_x + 1, cur_y) \/ (cur_x = Width - 1 /\ Falls(cur_y))
  /\ a = "loaded_x" => r = cur_x
  /\ a = "moved" => Stay(cur_x, cur_y) \/ (cur_x = Width /\ Falls(cur_y))
  /\ a \in {"wrapped", "loaded_y"} => cur_x = 0 /\ Falls(cur_y)
  /\ a = "loaded_y" => r = cur_y
  /\ a = "test_y" => Stay(cur_x, cur_y) \/ (cur_x = 0 /\ cur_y = Height /\ Falls(Height - 1))
  /\ a = "scrolling" => cur_x = 0 /\ cur_y = Height /\ Falls(Height - 1)

Solo ==
  /\ roll \in Seq(Line) /\ Len(roll) >= Height /\ pen \in [row : Int, col : Int]
  /\ at \in [Printer -> {"out", "drawn", "loaded_x", "moved", "wrapped", "loaded_y", "test_y", "scrolling"}]
  /\ reg \in [Printer -> Int]
  /\ \A p, q \in Printer : at[p] # "out" /\ at[q] # "out" => p = q
  /\ (\A p \in Printer : at[p] = "out") => Stay(cur_x, cur_y)
  /\ \A p \in Printer : at[p] # "out" => PlaceOK(at[p], reg[p])

ScreenIInv == ~both /\ ~odd => Solo

LEMMA Sizes ==
  /\ Width \in Nat \ {0} /\ Height \in Nat \ {0, 1} /\ WordSize \in Nat /\ WordSize > Height
  /\ Blank \in Line
<1>1. PICK n \in Nat : n = Cardinality(Printer)
  BY FS_CardinalityType, ScreenAssumption
<1>3. WordSize > Height + MaxDrift + n
  BY <1>1, ScreenAssumption
<1>2. Blank \in Line
  BY DEF Blank, Line, Char
<1>4. Width \in Nat \ {0} /\ Height \in Nat \ {0, 1} /\ WordSize \in Nat /\ MaxDrift \in Nat
  BY ScreenAssumption
<1>5. WordSize > Height
  BY <1>3, <1>4
<1> QED BY <1>2, <1>4, <1>5

LEMMA NewShown ==
  /\ NewRoll \in Seq(Line) /\ Len(NewRoll) = Height
  /\ Cleared = Window(NewRoll, Height - Height)
<1>1. NewRoll = [i \in 1 .. Height |-> Blank] /\ Height \in Nat /\ Blank \in Line
  BY Sizes DEF NewRoll
<1>2. NewRoll \in Seq(Line) /\ Len(NewRoll) = Height
  BY <1>1
<1>3. \A y \in Rows : Height - Height + 1 + y \in 1 .. Height
  BY <1>1 DEF Rows
<1>4. \A y \in Rows : NewRoll[Height - Height + 1 + y] = Blank
  BY <1>1, <1>3
<1> QED BY <1>2, <1>4 DEF Cleared, Window

LEMMA InitScreen == ScreenInit => ScreenIInv
<1>1. ASSUME ScreenInit PROVE Solo
  <2>1. Level = Height - Height /\ Level = 0
    BY <1>1, NewShown, Sizes DEF ScreenInit, Level
  <2>2. Shows(Level)
    BY <1>1, <2>1, NewShown DEF ScreenInit, Shows
  <2>3. Stay(0, 0)
    BY <1>1, <2>1, <2>2, Sizes DEF ScreenInit, Stay, FirstPlace, Columns, Rows
  <2>4. FirstPlace \in [row : Int, col : Int]
    BY DEF FirstPlace
  <2> QED BY <1>1, <2>3, <2>4, NewShown, Sizes DEF ScreenInit, Solo
<1> QED BY <1>1 DEF ScreenIInv

(* With one thread in vga_gen_puchar at most, a step of p into, within or  *)
(* out of it keeps the others out.                                         *)
LEMMA OneInside ==
  ASSUME Solo, NEW p \in Printer, NEW a \in {"out", "drawn", "loaded_x", "moved", "wrapped", "loaded_y", "test_y", "scrolling"},
         \A q \in Printer \ {p} : at[q] = "out", at' = [at EXCEPT ![p] = a],
         roll' \in Seq(Line), Len(roll') >= Height, pen' \in [row : Int, col : Int], reg' \in [Printer -> Int],
         a = "out" => Stay(cur_x, cur_y)',
         a # "out" => PlaceOK(a, reg[p])'
  PROVE  Solo'
<1>1. at \in [Printer -> {"out", "drawn", "loaded_x", "moved", "wrapped", "loaded_y", "test_y", "scrolling"}]
  BY DEF Solo
<1>2. at'[p] = a /\ \A q \in Printer \ {p} : at'[q] = "out"
  BY <1>1
<1>3. at' \in [Printer -> {"out", "drawn", "loaded_x", "moved", "wrapped", "loaded_y", "test_y", "scrolling"}]
  BY <1>1
<1>4. PICK b : b = at'[p] /\ b = a
  BY <1>2
<1>5. \A q \in Printer : at'[q] # "out" => PlaceOK(at[q], reg[q])'
  BY <1>2
<1> QED BY <1>2, <1>3, <1>5 DEF Solo

LEMMA SeqIs ==
  ASSUME NEW S, NEW r \in Seq(S)
  PROVE  Len(r) \in Nat /\ DOMAIN r = 1 .. Len(r) /\ r \in [1 .. Len(r) -> S]
  OBVIOUS

LEMMA IsSeq ==
  ASSUME NEW S, NEW n \in Nat, NEW r \in [1 .. n -> S]
  PROVE  r \in Seq(S) /\ Len(r) = n
  OBVIOUS

LEMMA RollPlaces ==
  ASSUME NEW k \in Int, NEW n \in Nat, 0 <= k, k + Height <= n, NEW y \in Rows
  PROVE  k + 1 + y \in 1 .. n /\ \A z \in Rows : k + 1 + z = k + 1 + y <=> z = y
BY Sizes DEF Rows

(* A character drawn at a place of the roll is drawn on the screen. *)
LEMMA Draw ==
  ASSUME NEW r \in Seq(Line), NEW k \in Int, NEW y \in Rows, NEW x \in Columns, NEW c \in Char,
         0 <= k, k + Height <= Len(r)
  PROVE  /\ Inked(r, k + 1 + y, x, c) \in Seq(Line) /\ Len(Inked(r, k + 1 + y, x, c)) = Len(r)
         /\ Inked(Window(r, k), y, x, c) = Window(Inked(r, k + 1 + y, x, c), k)
<1> DEFINE r2 == [r EXCEPT ![k + 1 + y][x] = c]
           s  == [z \in Rows |-> r[k + 1 + z]]
<1>1. PICK n \in Nat : n = Len(r)
  BY SeqIs
<1>2. r \in [1 .. n -> Line]
  BY <1>1, SeqIs
<1>3. PICK i : i = k + 1 + y
  OBVIOUS
<1>4. i \in 1 .. n
  BY <1>1, <1>3, RollPlaces
<1>5. PICK l : l = [r[i] EXCEPT ![x] = c]
  OBVIOUS
<1>6. l \in Line
  <2>1. r[i] \in Line
    BY <1>2, <1>4
  <2> QED BY <1>5, <2>1 DEF Line
<1>7. r2 = [r EXCEPT ![i] = l]
  BY <1>3, <1>5
<1>8. r2 \in [1 .. n -> Line] /\ \A j \in 1 .. n : r2[j] = IF j = i THEN l ELSE r[j]
  <2> HIDE DEF r2
  <2> QED BY <1>2, <1>4, <1>6, <1>7
<1>9. s[y] = r[i]
  BY <1>3
<1>10. [s EXCEPT ![y][x] = c] = [s EXCEPT ![y] = l]
  <2> HIDE DEF s
  <2> QED BY <1>5, <1>9
<1>11. ASSUME NEW z \in Rows PROVE [s EXCEPT ![y] = l][z] = r2[k + 1 + z]
  <2>1. k + 1 + z \in 1 .. n /\ (k + 1 + z = i <=> z = y)
    BY <1>1, <1>3, RollPlaces
  <2>2. s[z] = r[k + 1 + z] /\ DOMAIN s = Rows
    OBVIOUS
  <2> HIDE DEF r2, s
  <2> QED BY <1>8, <2>1, <2>2
<1>12. [s EXCEPT ![y] = l] = [z \in Rows |-> r2[k + 1 + z]]
  <2>1. DOMAIN s = Rows
    OBVIOUS
  <2> HIDE DEF r2, s
  <2> QED BY <1>11, <2>1
<1>13. r2 \in Seq(Line) /\ Len(r2) = n
  <2> HIDE DEF r2, s
  <2> QED BY <1>8, IsSeq
<1> QED BY <1>1, <1>10, <1>12, <1>13 DEF Inked, Window

(* What the places of the roll are *)
LEMMA StayIs ==
  ASSUME Solo, NEW x, NEW y, Stay(x, y)
  PROVE  /\ x \in Columns /\ y \in Rows /\ Level \in Nat /\ Len(roll) \in Nat /\ Level + Height = Len(roll)
         /\ screen = Window(roll, Level)
         /\ pen.col = x /\ pen.row = Level + 1 + y /\ x \in 0 .. Width - 1 /\ y \in 0 .. Height - 1
BY Sizes DEF Solo, Stay, Shows, Level, Columns, Rows

LEMMA FallsIs ==
  ASSUME Solo, NEW y, Falls(y)
  PROVE  Level \in Nat /\ Len(roll) \in Nat /\ Level + Height = Len(roll) /\ y \in 0 .. Height - 1
BY Sizes DEF Solo, Falls, Level, Rows

LEMMA AppendIs ==
  ASSUME NEW S, NEW r \in Seq(S), NEW l \in S
  PROVE  /\ Append(r, l) \in Seq(S) /\ Len(Append(r, l)) = Len(r) + 1 /\ Append(r, l)[Len(r) + 1] = l
         /\ \A i \in 1 .. Len(r) : Append(r, l)[i] = r[i]
  OBVIOUS

(* The shown part of a roll that has got a line more *)
LEMMA MoreShown ==
  ASSUME NEW r \in Seq(Line), NEW l \in Line, NEW k \in Int, 0 <= k, k + Height <= Len(r)
  PROVE  Window(r, k) = Window(Append(r, l), k)
<1>1. PICK n \in Nat : n = Len(r)
  BY SeqIs
<1>2. \A z \in Rows : k + 1 + z \in 1 .. n
  BY <1>1, RollPlaces
<1>3. \A z \in Rows : Append(r, l)[k + 1 + z] = r[k + 1 + z]
  BY <1>1, <1>2, AppendIs
<1> QED BY <1>3 DEF Window

LEMMA GlyphKeeps ==
  ASSUME Solo, NEW p \in Printer, NEW c \in Glyph, PutGlyph(p, c), ~both', ~odd'
  PROVE  Solo'
<1>1. \A q \in Printer : at[q] = "out"
  BY DEF PutGlyph, Enter
<1>2. Stay(cur_x, cur_y)
  BY <1>1 DEF Solo
<1>3. PICK k \in Nat, n \in Nat : k = Level /\ n = Len(roll) /\ k + Height = n
  BY <1>2, StayIs
<1>4. /\ cur_x \in Columns /\ cur_y \in Rows /\ pen.col = cur_x /\ pen.row = k + 1 + cur_y
      /\ screen = Window(roll, k) /\ roll \in Seq(Line)
      /\ cur_x \in 0 .. Width - 1 /\ cur_y \in 0 .. Height - 1
  BY <1>2, <1>3, StayIs DEF Solo
<1>5. PICK r : r = Inked(roll, k + 1 + cur_y, cur_x, c)
  OBVIOUS
<1>6. screen' = Inked(screen, cur_y, cur_x, c) /\ UNCHANGED <<cur_x, cur_y, reg>> /\ at' = [at EXCEPT ![p] = "drawn"]
  BY <1>4 DEF PutGlyph, Drawn, Inked
<1>7. r \in Seq(Line) /\ Len(r) = n /\ screen' = Window(r, k)
  <2>1. c \in Char /\ 0 <= k /\ k + Height <= Len(roll) /\ k \in Int
    <3>1. \A m \in Nat : 0 <= m /\ m \in Int
      OBVIOUS
    <3>2. k + Height <= Len(roll)
      BY <1>3, Sizes
    <3>3. c \in Char
      BY DEF Char
    <3> QED BY <3>1, <3>2, <3>3
  <2>2. /\ r \in Seq(Line) /\ Len(r) = Len(roll)
        /\ Inked(Window(roll, k), cur_y, cur_x, c) = Window(r, k)
    <3>1. roll \in Seq(Line) /\ cur_y \in Rows /\ cur_x \in Columns
      BY <1>4
    <3>2. PICK q : q = roll
      OBVIOUS
    <3>3. PICK y \in Rows, x \in Columns : y = cur_y /\ x = cur_x
      BY <3>1
    <3>4. /\ Inked(q, k + 1 + y, x, c) \in Seq(Line) /\ Len(Inked(q, k + 1 + y, x, c)) = Len(q)
          /\ Inked(Window(q, k), y, x, c) = Window(Inked(q, k + 1 + y, x, c), k)
      BY <2>1, <3>1, <3>2, <3>3, Draw
    <3> QED BY <1>5, <3>2, <3>3, <3>4
  <2> QED BY <1>3, <1>4, <1>6, <2>2
<1>8. IF cur_x = Width - 1
        THEN roll' = (IF k + 1 + cur_y = n THEN Append(r, Blank) ELSE r) /\ pen' = [row |-> k + 2 + cur_y, col |-> 0]
        ELSE roll' = r /\ pen' = [pen EXCEPT !.col = cur_x + 1]
  <2>1. pen.row + 1 = k + 2 + cur_y
    BY <1>4
  <2>2. [roll EXCEPT ![pen.row][pen.col] = c] = r
    BY <1>4, <1>5 DEF Inked
  <2> QED BY <1>3, <1>4, <2>1, <2>2 DEF PutGlyph, Record, Longer, LineStart
<1>9. CASE cur_x # Width - 1
  <2>1. roll' = r /\ pen' = [pen EXCEPT !.col = cur_x + 1] /\ Level' = k
    BY <1>3, <1>7, <1>8, <1>9 DEF Level
  <2>2. pen' \in [row : Int, col : Int] /\ pen'.row = k + 1 + cur_y /\ pen'.col = cur_x + 1
    <3>1. pen \in [row : Int, col : Int] /\ cur_x + 1 \in Int
      BY <1>4 DEF Solo
    <3> QED BY <1>4, <2>1, <3>1
  <2>3. Stay(cur_x + 1, cur_y)'
    <3>1. cur_x + 1 \in Columns
      BY <1>4, <1>9, Sizes DEF Columns
    <3>2. Shows(Level)'
      BY <1>7, <2>1 DEF Shows
    <3> QED BY <1>4, <1>6, <2>1, <2>2, <3>1, <3>2 DEF Stay
  <2>4. PlaceOK("drawn", reg[p])'
    BY <1>4, <1>6, <2>3 DEF PlaceOK
  <2> QED BY <1>1, <1>3, <1>6, <1>7, <2>1, <2>2, <2>4, OneInside DEF Solo
<1>10. CASE cur_x = Width - 1
  <2>1. pen' = [row |-> k + 2 + cur_y, col |-> 0] /\ pen' \in [row : Int, col : Int]
    BY <1>4, <1>8, <1>10
  <2>2. CASE k + 1 + cur_y # n
    <3>1. roll' = r /\ Level' = k
      BY <1>3, <1>7, <1>8, <1>10, <2>2 DEF Level
    <3>2. Falls(cur_y)'
      <4>1. cur_y < Height - 1
        BY <1>3, <1>4, <2>2, Sizes
      <4>2. Shows(Level)'
        BY <1>7, <3>1 DEF Shows
      <4>3. pen'.row = k + 2 + cur_y /\ pen'.col = 0
        BY <2>1
      <4> QED BY <1>4, <1>6, <3>1, <4>1, <4>2, <4>3 DEF Falls
    <3>3. PlaceOK("drawn", reg[p])'
      BY <1>4, <1>6, <1>10, <3>2 DEF PlaceOK
    <3> QED BY <1>1, <1>3, <1>6, <1>7, <2>1, <3>1, <3>3, OneInside DEF Solo
  <2>3. CASE k + 1 + cur_y = n
    <3>1. roll' = Append(r, Blank)
      BY <1>8, <1>10, <2>3
    <3>2. /\ roll' \in Seq(Line) /\ Len(roll') = n + 1 /\ roll'[n + 1] = Blank
          /\ screen' = Window(roll', k)
      <4>1. 0 <= k /\ k + Height <= Len(r) /\ k \in Int
        <5>1. \A m \in Nat : 0 <= m /\ m \in Int
          OBVIOUS
        <5> QED BY <1>3, <1>7, <5>1, Sizes
      <4>2. Append(r, Blank) \in Seq(Line) /\ Len(Append(r, Blank)) = n + 1 /\ Append(r, Blank)[n + 1] = Blank
        BY <1>7, AppendIs, Sizes
      <4>3. Window(r, k) = Window(Append(r, Blank), k)
        BY <1>7, <4>1, MoreShown, Sizes
      <4> QED BY <1>7, <3>1, <4>2, <4>3
    <3>3. Level' = k + 1
      BY <1>3, <3>2, Sizes DEF Level
    <3>4. Falls(cur_y)'
      <4>1. (k + 1) - 1 = k /\ cur_y = Height - 1 /\ k + 1 > 0
        BY <1>3, <1>4, <2>3, Sizes
      <4>2. Shows(Level - 1)'
        BY <3>2, <3>3, <4>1 DEF Shows
      <4>3. pen'.row = k + 1 + 1 + cur_y /\ pen'.col = 0
        BY <1>4, <2>1
      <4> QED BY <1>4, <1>6, <3>2, <3>3, <4>1, <4>2, <4>3 DEF Falls
    <3>5. PlaceOK("drawn", reg[p])'
      BY <1>4, <1>6, <1>10, <3>4 DEF PlaceOK
    <3>6. Len(roll') >= Height
      BY <1>3, <3>2, Sizes
    <3> QED BY <1>1, <1>6, <2>1, <3>2, <3>5, <3>6, OneInside DEF Solo
  <2> QED BY <2>2, <2>3
<1> QED BY <1>9, <1>10

LEMMA SameRoll ==
  ASSUME UNCHANGED <<screen, roll, pen>>, NEW x, NEW y
  PROVE  (Stay(x, y)' <=> Stay(x, y)) /\ (Falls(y)' <=> Falls(y))
BY DEF Stay, Falls, Shows, Level

LEMMA MoveKeeps ==
  ASSUME Solo, NEW p \in Printer, LoadX(p) \/ StoreX(p) \/ TestX(p)
  PROVE  Solo'
<1>1. UNCHANGED <<screen, roll, pen>> /\ at[p] # "out" /\ UNCHANGED cur_y
  BY DEF LoadX, StoreX, TestX
<1>2. PlaceOK(at[p], reg[p]) /\ \A q \in Printer \ {p} : at[q] = "out"
  BY <1>1 DEF Solo
<1>3. roll' \in Seq(Line) /\ Len(roll') >= Height /\ pen' \in [row : Int, col : Int] /\ reg \in [Printer -> Int]
  BY <1>1 DEF Solo
<1>4. PICK x, y : x = cur_x /\ y = cur_y
  OBVIOUS
<1>5. CASE LoadX(p)
  <2>1. at' = [at EXCEPT ![p] = "loaded_x"] /\ reg' = [reg EXCEPT ![p] = x] /\ cur_x' = x /\ cur_y' = y /\ at[p] = "drawn"
    BY <1>4, <1>5 DEF LoadX
  <2>2. x \in Columns /\ (Stay(x + 1, y) \/ (x = Width - 1 /\ Falls(y)))
    BY <1>2, <1>4, <2>1 DEF PlaceOK
  <2>3. x \in Int /\ reg' \in [Printer -> Int] /\ reg'[p] = x
    BY <1>3, <2>1, <2>2 DEF Columns
  <2>4. Stay(x + 1, y)' \/ (x = Width - 1 /\ Falls(y)')
    BY <1>1, <2>2, SameRoll
  <2>5. PlaceOK("loaded_x", reg[p])'
    BY <2>1, <2>2, <2>3, <2>4 DEF PlaceOK
  <2> QED BY <1>2, <1>3, <2>1, <2>3, <2>5, OneInside
<1>6. CASE StoreX(p)
  <2>1. at' = [at EXCEPT ![p] = "moved"] /\ reg' = [reg EXCEPT ![p] = 0] /\ cur_x' = reg[p] + 1 /\ cur_y' = y /\ at[p] = "loaded_x"
    BY <1>4, <1>6 DEF StoreX
  <2>2. x \in Columns /\ (Stay(x + 1, y) \/ (x = Width - 1 /\ Falls(y))) /\ cur_x' = x + 1
    BY <1>2, <1>4, <2>1 DEF PlaceOK
  <2>3. Stay(x + 1, y)' \/ (x + 1 = Width /\ Falls(y)')
    <3>1. x = Width - 1 => x + 1 = Width
      BY Sizes
    <3> QED BY <1>1, <2>2, <3>1, SameRoll
  <2>4. PlaceOK("moved", reg[p])'
    BY <2>1, <2>2, <2>3 DEF PlaceOK
  <2>5. reg' \in [Printer -> Int]
    BY <1>3, <2>1
  <2> QED BY <1>2, <1>3, <2>1, <2>4, <2>5, OneInside
<1>7. CASE TestX(p)
  <2>1. Stay(x, y) \/ (x = Width /\ Falls(y))
    BY <1>2, <1>4, <1>7 DEF TestX, PlaceOK
  <2>2. cur_y' = y /\ reg' = reg
    BY <1>4, <1>7 DEF TestX
  <2>3. CASE x >= Width
    <3>1. cur_x' = 0 /\ at' = [at EXCEPT ![p] = "wrapped"]
      BY <1>4, <1>7, <2>3 DEF TestX
    <3>2. ~Stay(x, y)
      BY <2>3, Sizes DEF Stay, Columns
    <3>3. Falls(y)'
      BY <1>1, <2>1, <3>2, SameRoll
    <3>4. PlaceOK("wrapped", reg[p])'
      BY <2>2, <3>1, <3>3 DEF PlaceOK
    <3> QED BY <1>2, <1>3, <2>2, <3>1, <3>4, OneInside
  <2>4. CASE ~(x >= Width)
    <3>1. cur_x' = x /\ at' = [at EXCEPT ![p] = "test_y"]
      BY <1>4, <1>7, <2>4 DEF TestX
    <3>2. Stay(x, y)'
      BY <1>1, <2>1, <2>4, SameRoll, Sizes
    <3>3. PlaceOK("test_y", reg[p])'
      BY <2>2, <3>1, <3>2 DEF PlaceOK
    <3> QED BY <1>2, <1>3, <2>2, <3>1, <3>3, OneInside
  <2> QED BY <2>3, <2>4
<1> QED BY <1>5, <1>6, <1>7

(* A cursor below a full row that is not the last shows where the next      *)
(* character goes.                                                          *)
LEMMA Fallen ==
  ASSUME NEW y, Falls(y)
  PROVE  /\ y \in 0 .. Height - 1
         /\ y + 1 = Height => Falls(Height - 1)
         /\ y + 1 # Height => Stay(0, y + 1)
<1>1. y \in 0 .. Height - 1 /\ Height \in Nat /\ Width \in Nat \ {0}
  BY Sizes DEF Falls, Rows
<1>2. y + 1 = Height => y = Height - 1
  BY <1>1
<1>3. ASSUME y + 1 # Height PROVE Stay(0, y + 1)
  <2>1. y < Height - 1 /\ y # Height - 1
    BY <1>1, <1>3
  <2>2. y + 1 \in Rows /\ 0 \in Columns
    BY <1>1, <1>3 DEF Rows, Columns
  <2>3. Shows(Level) /\ pen.row = Level + 2 + y /\ pen.col = 0
    BY <2>1 DEF Falls
  <2>4. PICK k : k = Level
    OBVIOUS
  <2>5. pen.row = k + 1 + (y + 1)
    <3>1. Level \in Int
      BY <1>1 DEF Level
    <3> QED BY <1>1, <2>3, <2>4, <3>1
  <2> QED BY <2>2, <2>3, <2>4, <2>5 DEF Stay
<1> QED BY <1>1, <1>2, <1>3

LEMMA WrapKeeps ==
  ASSUME Solo, NEW p \in Printer, LoadY(p) \/ StoreY(p) \/ TestY(p)
  PROVE  Solo'
<1>1. UNCHANGED <<screen, roll, pen>> /\ at[p] # "out" /\ UNCHANGED cur_x
  BY DEF LoadY, StoreY, TestY
<1>2. PlaceOK(at[p], reg[p]) /\ \A q \in Printer \ {p} : at[q] = "out"
  BY <1>1 DEF Solo
<1>3. roll' \in Seq(Line) /\ Len(roll') >= Height /\ pen' \in [row : Int, col : Int] /\ reg \in [Printer -> Int]
  BY <1>1 DEF Solo
<1>4. PICK x, y : x = cur_x /\ y = cur_y
  OBVIOUS
<1>5. CASE LoadY(p)
  <2>1. at' = [at EXCEPT ![p] = "loaded_y"] /\ reg' = [reg EXCEPT ![p] = y] /\ cur_x' = x /\ cur_y' = y /\ at[p] = "wrapped"
    BY <1>1, <1>4, <1>5 DEF LoadY
  <2>2. x = 0 /\ Falls(y)
    BY <1>2, <1>4, <2>1 DEF PlaceOK
  <2>3. y \in Int /\ reg' \in [Printer -> Int] /\ reg'[p] = y
    BY <1>3, <2>1, <2>2, Fallen
  <2>4. Falls(y)'
    BY <1>1, <2>2, SameRoll
  <2>5. PlaceOK("loaded_y", reg[p])'
    BY <2>1, <2>2, <2>3, <2>4 DEF PlaceOK
  <2> QED BY <1>2, <1>3, <2>1, <2>3, <2>5, OneInside
<1>6. CASE StoreY(p)
  <2>1. at' = [at EXCEPT ![p] = "test_y"] /\ reg' = [reg EXCEPT ![p] = 0] /\ cur_x' = x /\ at[p] = "loaded_y"
    BY <1>1, <1>4, <1>6 DEF StoreY
  <2>2. x = 0 /\ Falls(y) /\ cur_y' = y + 1
    BY <1>2, <1>4, <1>6, <2>1 DEF PlaceOK, StoreY
  <2>3. Stay(0, y + 1)' \/ (y + 1 = Height /\ Falls(Height - 1)')
    BY <1>1, <2>2, Fallen, SameRoll
  <2>4. PlaceOK("test_y", reg[p])'
    BY <2>1, <2>2, <2>3 DEF PlaceOK
  <2>5. reg' \in [Printer -> Int]
    BY <1>3, <2>1
  <2> QED BY <1>2, <1>3, <2>1, <2>4, <2>5, OneInside
<1>7. CASE TestY(p)
  <2>1. Stay(x, y) \/ (x = 0 /\ y = Height /\ Falls(Height - 1))
    BY <1>2, <1>4, <1>7 DEF TestY, PlaceOK
  <2>2. cur_x' = x /\ cur_y' = y /\ reg' = reg
    BY <1>1, <1>4, <1>7 DEF TestY
  <2>3. CASE y >= Height
    <3>1. at' = [at EXCEPT ![p] = "scrolling"]
      BY <1>4, <1>7, <2>3 DEF TestY
    <3>2. ~Stay(x, y)
      BY <2>3, Sizes DEF Stay, Rows
    <3>3. x = 0 /\ y = Height /\ Falls(Height - 1)'
      BY <1>1, <2>1, <3>2, SameRoll
    <3>4. PlaceOK("scrolling", reg[p])'
      BY <2>2, <3>1, <3>3 DEF PlaceOK
    <3> QED BY <1>2, <1>3, <2>2, <3>1, <3>4, OneInside
  <2>4. CASE ~(y >= Height)
    <3>1. at' = [at EXCEPT ![p] = "out"]
      BY <1>4, <1>7, <2>4 DEF TestY
    <3>2. Stay(x, y)'
      BY <1>1, <2>1, <2>4, SameRoll, Sizes
    <3>3. Stay(cur_x, cur_y)'
      BY <2>2, <3>2
    <3> QED BY <1>2, <1>3, <2>2, <3>1, <3>3, OneInside
  <2> QED BY <2>3, <2>4
<1> QED BY <1>5, <1>6, <1>7

(* A screen whose last row is full scrolls to where the roll has got to. *)
LEMMA ScrollShows ==
  ASSUME Height \in Nat \ {0, 1}, NEW r \in Seq(Line), NEW k \in Nat, Len(r) = k + 1 + Height, r[Len(r)] = Blank,
         screen = Window(r, k)
  PROVE  ScrolledUp = Window(r, k + 1)
<1>1. ASSUME NEW y \in Rows
      PROVE  (IF y = Height - 1 THEN Blank ELSE screen[y + 1]) = r[k + 1 + 1 + y]
  <2>1. CASE y = Height - 1
    <3>1. k + 1 + 1 + y = k + 1 + Height
      BY <2>1
    <3> QED BY <2>1, <3>1
  <2>2. CASE y # Height - 1
    <3>1. y + 1 \in Rows /\ k + 1 + (y + 1) = k + 1 + 1 + y
      BY <2>2 DEF Rows
    <3> QED BY <2>2, <3>1 DEF Window
  <2> QED BY <2>1, <2>2
<1> QED BY <1>1 DEF ScrolledUp, Window

LEMMA ScrollKeeps ==
  ASSUME Solo, NEW p \in Printer, Scroll(p)
  PROVE  Solo'
<1>1. /\ at[p] = "scrolling" /\ cur_x' = 0 /\ cur_y' = (cur_y - 1) % WordSize /\ screen' = ScrolledUp
      /\ at' = [at EXCEPT ![p] = "out"] /\ UNCHANGED <<reg, roll, pen>>
  BY DEF Scroll
<1>2. PlaceOK(at[p], reg[p]) /\ \A q \in Printer \ {p} : at[q] = "out"
  BY <1>1 DEF Solo
<1>3. roll \in Seq(Line) /\ Len(roll) >= Height /\ pen \in [row : Int, col : Int] /\ reg \in [Printer -> Int]
  BY DEF Solo
<1>4. cur_y = Height /\ Falls(Height - 1)
  BY <1>1, <1>2 DEF PlaceOK
<1>5. PICK k \in Nat, n \in Nat : k = Level - 1 /\ Level = k + 1 /\ n = Len(roll) /\ n = k + 1 + Height
  <2>1. Level \in Nat /\ Len(roll) \in Nat /\ Level + Height = Len(roll)
    BY <1>4, FallsIs
  <2>2. Level > 0
    BY <1>4, Sizes DEF Falls
  <2>3. Level - 1 \in Nat /\ Level = (Level - 1) + 1
    BY <2>1, <2>2
  <2> QED BY <2>1, <2>3
<1>6. /\ screen = Window(roll, k) /\ pen.row = Level + 1 + (Height - 1) /\ pen.col = 0
      /\ roll[Len(roll)] = Blank
  BY <1>4, <1>5, Sizes DEF Falls, Shows
<1>7. cur_y' = Height - 1
  BY <1>1, <1>4, Sizes
<1>8. screen' = Window(roll, k + 1)
  BY <1>1, <1>3, <1>5, <1>6, Sizes, ScrollShows
<1>9. Stay(cur_x, cur_y)'
  <2>1. 0 \in Columns /\ Height - 1 \in Rows
    BY Sizes DEF Columns, Rows
  <2>2. Level' = k + 1
    BY <1>1, <1>5 DEF Level
  <2>3. Shows(Level)'
    BY <1>1, <1>8, <2>2 DEF Shows
  <2>4. pen'.row = k + 1 + 1 + (Height - 1) /\ pen'.col = 0
    BY <1>1, <1>5, <1>6
  <2> QED BY <1>1, <1>7, <2>1, <2>2, <2>3, <2>4 DEF Stay
<1> QED BY <1>1, <1>2, <1>3, <1>9, OneInside

(* A character that is put without a move of the cursor in between *)
LEMMA AllOut ==
  ASSUME Solo, \A p \in Printer : at[p] = "out", UNCHANGED <<at, reg>>,
         roll' \in Seq(Line), Len(roll') >= Height, pen' \in [row : Int, col : Int],
         Stay(cur_x, cur_y)'
  PROVE  Solo'
BY DEF Solo

LEMMA NewlineKeeps ==
  ASSUME Solo, NEW p \in Printer, PutNewline(p), ~both', ~odd'
  PROVE  Solo'
<1>1. \A q \in Printer : at[q] = "out"
  BY DEF PutNewline, Enter
<1>2. Stay(cur_x, cur_y)
  BY <1>1 DEF Solo
<1>3. PICK k \in Nat, n \in Nat : k = Level /\ n = Len(roll) /\ k + Height = n
  BY <1>2, StayIs
<1>4. /\ pen.row = k + 1 + cur_y /\ screen = Window(roll, k) /\ roll \in Seq(Line)
      /\ cur_y \in 0 .. Height - 1
  BY <1>2, <1>3, StayIs DEF Solo
<1>5. /\ UNCHANGED <<at, reg>> /\ cur_x' = 0
      /\ IF cur_y + 1 >= Height THEN screen' = ScrolledUp /\ cur_y' = cur_y
                                ELSE cur_y' = cur_y + 1 /\ screen' = screen
      /\ roll' = (IF k + 1 + cur_y = n THEN Append(roll, Blank) ELSE roll)
      /\ pen' = [row |-> k + 2 + cur_y, col |-> 0]
  <2>1. pen.row + 1 = k + 2 + cur_y
    BY <1>4
  <2> QED BY <1>3, <1>4, <2>1 DEF PutNewline, Record, Longer, LineStart
<1>6. pen' \in [row : Int, col : Int] /\ pen'.row = k + 2 + cur_y /\ pen'.col = 0
  <2>1. k + 2 + cur_y \in Int
    BY <1>4
  <2> QED BY <1>5, <2>1
<1>7. 0 \in Columns
  BY Sizes DEF Columns
<1>8. CASE cur_y + 1 >= Height
  <2>1. cur_y = Height - 1 /\ k + 1 + cur_y = n /\ cur_y \in Rows
    BY <1>3, <1>4, <1>8, Sizes DEF Rows
  <2>2. roll' = Append(roll, Blank) /\ cur_y' = cur_y /\ screen' = ScrolledUp
    BY <1>5, <1>8, <2>1
  <2>3. PICK r : r = Append(roll, Blank)
    OBVIOUS
  <2>4. r \in Seq(Line) /\ Len(r) = n + 1 /\ r[n + 1] = Blank
    BY <1>3, <1>4, <2>3, AppendIs, Sizes
  <2>5. screen = Window(r, k)
    <3>1. 0 <= k /\ k + Height <= Len(roll) /\ k \in Int
      <4>1. \A m \in Nat : 0 <= m /\ m \in Int
        OBVIOUS
      <4> QED BY <1>3, <4>1, Sizes
    <3> QED BY <1>4, <2>3, <3>1, MoreShown, Sizes
  <2>6. Len(r) = k + 1 + Height
    BY <1>3, <2>4, Sizes
  <2>7. screen' = Window(r, k + 1)
    <3>1. r[Len(r)] = Blank
      BY <2>4
    <3> QED BY <2>2, <2>4, <2>5, <2>6, <3>1, Sizes, ScrollShows
  <2>8. Level' = k + 1 /\ Len(roll') >= Height
    BY <2>2, <2>3, <2>6, <1>3, Sizes DEF Level
  <2>9. Stay(0, cur_y)'
    <3>1. Shows(Level)'
      BY <2>2, <2>3, <2>7, <2>8 DEF Shows
    <3>2. pen'.row = k + 1 + 1 + cur_y
      BY <1>4, <1>6
    <3> QED BY <1>6, <1>7, <2>1, <2>2, <2>8, <3>1, <3>2 DEF Stay
  <2>10. Stay(cur_x, cur_y)'
    BY <1>5, <2>9
  <2> QED BY <1>1, <1>5, <1>6, <2>2, <2>3, <2>4, <2>8, <2>10, AllOut
<1>9. CASE ~(cur_y + 1 >= Height)
  <2>1. cur_y + 1 \in Rows /\ k + 1 + cur_y # n
    BY <1>3, <1>4, <1>9, Sizes DEF Rows
  <2>2. roll' = roll /\ cur_y' = cur_y + 1 /\ screen' = screen
    BY <1>5, <1>9, <2>1
  <2>3. Level' = k /\ Len(roll') >= Height
    BY <2>2, <1>3, Sizes DEF Level, Solo
  <2>4. Stay(cur_x, cur_y)'
    <3>1. Shows(Level)'
      BY <1>4, <2>2, <2>3 DEF Shows
    <3>2. pen'.row = k + 1 + (cur_y + 1)
      BY <1>4, <1>6
    <3> QED BY <1>5, <1>6, <1>7, <2>1, <2>2, <2>3, <3>1, <3>2 DEF Stay
  <2> QED BY <1>1, <1>4, <1>5, <1>6, <2>2, <2>3, <2>4, AllOut
<1> QED BY <1>8, <1>9

LEMMA ReturnKeeps ==
  ASSUME Solo, NEW p \in Printer, PutReturn(p), ~both', ~odd'
  PROVE  Solo'
<1>1. \A q \in Printer : at[q] = "out"
  BY DEF PutReturn, Enter
<1>2. Stay(cur_x, cur_y) /\ roll \in Seq(Line) /\ Len(roll) >= Height /\ pen \in [row : Int, col : Int]
  BY <1>1 DEF Solo
<1>3. /\ UNCHANGED <<at, reg, screen, cur_y, roll>> /\ cur_x' = 0 /\ pen' = [pen EXCEPT !.col = 0]
  BY DEF PutReturn, Record
<1>4. pen' \in [row : Int, col : Int] /\ pen'.row = pen.row /\ pen'.col = 0
  BY <1>2, <1>3
<1>5. 0 \in Columns
  BY Sizes DEF Columns
<1>6. Stay(cur_x, cur_y)'
  BY <1>2, <1>3, <1>4, <1>5 DEF Stay, Shows, Level
<1> QED BY <1>1, <1>2, <1>3, <1>4, <1>6, AllOut

LEMMA BackspaceKeeps ==
  ASSUME Solo, NEW p \in Printer, PutBackspace(p), ~both', ~odd'
  PROVE  Solo'
<1>1. \A q \in Printer : at[q] = "out"
  BY DEF PutBackspace, Enter
<1>2. Stay(cur_x, cur_y)
  BY <1>1 DEF Solo
<1>3. PICK k \in Nat, n \in Nat : k = Level /\ n = Len(roll) /\ k + Height = n
  BY <1>2, StayIs
<1>4. /\ cur_x \in 0 .. Width - 1 /\ cur_y \in Rows /\ pen.col = cur_x /\ pen.row = k + 1 + cur_y
      /\ screen = Window(roll, k) /\ roll \in Seq(Line)
  BY <1>2, <1>3, StayIs DEF Solo
<1>5. PICK x \in Columns : x = IF cur_x = 0 THEN 0 ELSE cur_x - 1
  <2>1. (IF cur_x = 0 THEN 0 ELSE cur_x - 1) \in Columns
    BY <1>4, Sizes DEF Columns
  <2> QED BY <2>1
<1>6. PICK r : r = Inked(roll, k + 1 + cur_y, x, " ")
  OBVIOUS
<1>7. cur_x' = x
  <2>1. cur_x = 0 => ~(cur_y > 0)
    BY DEF PutBackspace
  <2>2. cur_x # 0 => cur_x > 0
    BY <1>4
  <2>3. cur_x = 0 => ~(cur_x > 0)
    OBVIOUS
  <2> QED BY <1>5, <2>1, <2>2, <2>3 DEF PutBackspace
<1>8. /\ screen' = Inked(screen, cur_y, x, " ") /\ UNCHANGED <<cur_y, at, reg>>
      /\ roll' = r /\ pen' = [pen EXCEPT !.col = x]
  <2>1. screen' = Inked(screen, cur_y, x, " ") /\ UNCHANGED <<cur_y, at, reg>>
    BY <1>4, <1>7 DEF PutBackspace, Inked
  <2>2. x = IF pen.col = 0 THEN 0 ELSE pen.col - 1
    BY <1>4, <1>5
  <2>3. roll' = [roll EXCEPT ![pen.row][x] = " "] /\ pen' = [pen EXCEPT !.col = x]
    BY <2>2 DEF PutBackspace, Record
  <2> QED BY <1>4, <1>6, <2>1, <2>3 DEF Inked
<1>9. r \in Seq(Line) /\ Len(r) = n /\ screen' = Window(r, k)
  <2>1. 0 <= k /\ k + Height <= Len(roll) /\ k \in Int /\ " " \in Char
    <3>1. \A m \in Nat : 0 <= m /\ m \in Int
      OBVIOUS
    <3>2. k + Height <= Len(roll)
      BY <1>3, Sizes
    <3> QED BY <3>1, <3>2 DEF Char
  <2>2. PICK y \in Rows : y = cur_y
    BY <1>4
  <2>4. PICK q : q = roll
    OBVIOUS
  <2>3. /\ Inked(q, k + 1 + y, x, " ") \in Seq(Line) /\ Len(Inked(q, k + 1 + y, x, " ")) = Len(q)
        /\ Inked(Window(q, k), y, x, " ") = Window(Inked(q, k + 1 + y, x, " "), k)
    <3>1. roll \in Seq(Line)
      BY <1>4
    <3>2. q \in Seq(Line) /\ 0 <= k /\ k + Height <= Len(q)
      BY <2>1, <2>4, <3>1
    <3>3. \A d \in Char :
            /\ Inked(q, k + 1 + y, x, d) \in Seq(Line) /\ Len(Inked(q, k + 1 + y, x, d)) = Len(q)
            /\ Inked(Window(q, k), y, x, d) = Window(Inked(q, k + 1 + y, x, d), k)
      <4>1. k \in Int /\ y \in Rows /\ x \in Columns
        BY <1>5, <2>1, <2>2
      <4> QED BY <3>2, <4>1, Draw
    <3> QED BY <2>1, <3>3
  <2> QED BY <1>3, <1>4, <1>6, <1>8, <2>2, <2>3, <2>4
<1>10. pen' \in [row : Int, col : Int] /\ pen'.row = k + 1 + cur_y /\ pen'.col = x
  <2>1. pen \in [row : Int, col : Int] /\ x \in Int
    BY <1>5 DEF Solo, Columns
  <2> QED BY <1>4, <1>8, <2>1
<1>11. Level' = k /\ Len(roll') >= Height
  <2>1. Len(roll') = n /\ n - Height = k
    <3>1. roll' = r
      BY <1>8
    <3>2. n - Height = k
      BY <1>3, Sizes
    <3> QED BY <1>9, <3>1, <3>2
  <2> QED BY <1>3, <2>1, Sizes DEF Level
<1>12. Stay(cur_x, cur_y)'
  <2>1. Shows(Level)'
    BY <1>8, <1>9, <1>11 DEF Shows
  <2> QED BY <1>4, <1>5, <1>7, <1>8, <1>10, <1>11, <2>1 DEF Stay
<1> QED BY <1>1, <1>8, <1>9, <1>10, <1>11, <1>12, AllOut

LEMMA ClearKeeps ==
  ASSUME Solo, Clear, ~both', ~odd'
  PROVE  Solo'
<1>1. \A q \in Printer : at[q] = "out"
  BY DEF Clear, Interferes
<1>2. /\ screen' = Cleared /\ cur_x' = 0 /\ cur_y' = 0 /\ UNCHANGED <<at, reg>>
      /\ roll' = NewRoll /\ pen' = FirstPlace
  BY DEF Clear, Record
<1>3. Level' = Height - Height /\ Level' = 0 /\ roll' \in Seq(Line) /\ Len(roll') >= Height
  BY <1>2, NewShown, Sizes DEF Level
<1>4. pen' \in [row : Int, col : Int] /\ pen'.row = 1 /\ pen'.col = 0
  BY <1>2 DEF FirstPlace
<1>5. Shows(Level)'
  BY <1>2, <1>3, NewShown DEF Shows
<1>6. Stay(cur_x, cur_y)'
  BY <1>2, <1>3, <1>4, <1>5, Sizes DEF Stay, Columns, Rows
<1> QED BY <1>1, <1>2, <1>3, <1>4, <1>6, AllOut

LEMMA SetCursorKeeps ==
  ASSUME Solo, NEW x \in 0 .. Width, NEW y \in 0 .. Height, SetCursor(x, y), ~both', ~odd'
  PROVE  Solo'
<1>1. \A q \in Printer : at[q] = "out"
  BY DEF SetCursor, Interferes
<1>2. Stay(cur_x, cur_y)
  BY <1>1 DEF Solo
<1>3. PICK k \in Nat : k = Level /\ Level = Len(roll) - Height
  BY <1>2, StayIs DEF Level
<1>4. PICK u \in Columns, v \in Rows : u = Chosen(x, y)[1] /\ v = Chosen(x, y)[2]
  <2>1. Chosen(x, y)[1] \in Columns /\ Chosen(x, y)[2] \in Rows
    BY Sizes DEF Chosen, Columns, Rows
  <2> QED BY <2>1
<1>5. /\ cur_x' = u /\ cur_y' = v /\ UNCHANGED <<screen, at, reg, roll>>
      /\ pen' = [row |-> k + 1 + v, col |-> u]
  BY <1>3, <1>4 DEF SetCursor, Record
<1>6. pen' \in [row : Int, col : Int] /\ pen'.row = k + 1 + v /\ pen'.col = u
  <2>1. k + 1 + v \in Int /\ u \in Int
    BY DEF Columns, Rows
  <2> QED BY <1>5, <2>1
<1>7. Shows(Level)' /\ Level' = k
  BY <1>2, <1>3, <1>5 DEF Stay, Shows, Level
<1>8. Stay(cur_x, cur_y)'
  BY <1>5, <1>6, <1>7 DEF Stay
<1>9. roll' \in Seq(Line) /\ Len(roll') >= Height
  BY <1>5 DEF Solo
<1> QED BY <1>1, <1>5, <1>6, <1>8, <1>9, AllOut

LEMMA NextScreen == ASSUME ScreenIInv, [ScreenNext]_scrVars PROVE ScreenIInv'
<1> SUFFICES ASSUME ~both', ~odd' PROVE Solo'
  BY DEF ScreenIInv
<1>1. ~both /\ ~odd
  <2>1. ASSUME NEW p \in Printer, NEW c \in Glyph, PutGlyph(p, c) PROVE ~both /\ ~odd
    BY <2>1 DEF PutGlyph, Enter
  <2>2. ASSUME NEW p \in Printer,
               LoadX(p) \/ StoreX(p) \/ TestX(p) \/ LoadY(p) \/ StoreY(p) \/ TestY(p) \/ Scroll(p)
        PROVE  ~both /\ ~odd
    BY <2>2 DEF LoadX, StoreX, TestX, LoadY, StoreY, TestY, Scroll
  <2>3. ASSUME NEW p \in Printer, PutNewline(p) \/ PutReturn(p) \/ PutBackspace(p) PROVE ~both /\ ~odd
    <3>1. Enter(p)
      BY <2>3 DEF PutNewline, PutReturn, PutBackspace
    <3>3. odd => odd'
      BY <2>3, Zenon DEF PutNewline, PutReturn, PutBackspace
    <3>2. both => both'
      BY <3>1 DEF Enter
    <3> QED BY <3>2, <3>3
  <2>4. ASSUME Clear \/ \E x \in 0 .. Width, y \in 0 .. Height : SetCursor(x, y) PROVE ~both /\ ~odd
    <3>1. Interferes /\ odd' = odd
      BY <2>4 DEF Clear, SetCursor
    <3>2. both => both'
      BY <3>1 DEF Interferes
    <3> QED BY <3>1, <3>2
  <2>5. UNCHANGED scrVars => ~both /\ ~odd
    BY DEF scrVars
  <2> QED BY <2>1, <2>2, <2>3, <2>4, <2>5 DEF ScreenNext
<1> SUFFICES ASSUME Solo PROVE Solo'
  BY <1>1 DEF ScreenIInv
<1>2. ASSUME NEW p \in Printer, NEW c \in Glyph, PutGlyph(p, c) PROVE Solo'
  BY <1>2, GlyphKeeps
<1>3. ASSUME NEW p \in Printer, LoadX(p) \/ StoreX(p) \/ TestX(p) PROVE Solo'
  BY <1>3, MoveKeeps
<1>4. ASSUME NEW p \in Printer, LoadY(p) \/ StoreY(p) \/ TestY(p) PROVE Solo'
  BY <1>4, WrapKeeps
<1>5. ASSUME NEW p \in Printer, Scroll(p) PROVE Solo'
  BY <1>5, ScrollKeeps
<1>6. ASSUME NEW p \in Printer, PutNewline(p) \/ PutReturn(p) \/ PutBackspace(p) PROVE Solo'
  BY <1>6, NewlineKeeps, ReturnKeeps, BackspaceKeeps
<1>7. ASSUME Clear \/ \E x \in 0 .. Width, y \in 0 .. Height : SetCursor(x, y) PROVE Solo'
  BY <1>7, ClearKeeps, SetCursorKeeps
<1>8. ASSUME UNCHANGED scrVars PROVE Solo'
  BY <1>8 DEF scrVars, Solo, PlaceOK, Stay, Falls, Shows, Level
<1> QED BY <1>2, <1>3, <1>4, <1>5, <1>6, <1>7, <1>8 DEF ScreenNext

(* As long as one thread prints at a time and no backspace comes at the    *)
(* start of a line, the screen of vga.c shows, between two characters, the *)
(* end of what was printed, and the cursor is where the next one goes.     *)
THEOREM TailIsShown == ScreenSpec => []ShowsTail
<1>1. ScreenInit => ScreenIInv
  BY InitScreen
<1>2. ScreenIInv /\ [ScreenNext]_scrVars => ScreenIInv'
  BY NextScreen
<1>3. ScreenIInv => ShowsTail
  <2> SUFFICES ASSUME ScreenIInv, \A p \in Printer : at[p] = "out", ~both, ~odd
               PROVE  /\ screen = [y \in Rows |-> roll[Level + 1 + y]]
                      /\ <<cur_x, cur_y>> = <<pen.col, pen.row - Level - 1>>
    BY DEF ShowsTail, Level
  <2>1. Solo /\ Stay(cur_x, cur_y)
    BY DEF ScreenIInv, Solo
  <2>2. PICK k \in Nat : k = Level
    BY <2>1, StayIs
  <2>3. cur_y \in 0 .. Height - 1 /\ pen.row = k + 1 + cur_y /\ pen.col = cur_x
    BY <2>1, <2>2, StayIs
  <2>4. (k + 1 + cur_y) - k - 1 = cur_y
    BY <2>3
  <2> QED BY <2>1, <2>2, <2>3, <2>4 DEF Stay, Shows, Window
<1> QED BY <1>1, <1>2, <1>3, PTL DEF ScreenSpec

----------------------------------------------------------------------------
(* From keys to lines *)

(* Every set of naturals has a least element. *)
LEMMA LeastNat ==
  ASSUME NEW T \in SUBSET Nat, T # {}
  PROVE  \E m \in T : \A n \in T : m <= n
<1> DEFINE R == {p \in Nat \X Nat : p[1] < p[2]}
<1>1. IsWellFoundedOn(R, Nat)
  BY NatLessThanWellFounded DEF OpToRel
<1>2. PICK m \in T : \A n \in T : <<n, m>> \notin R
  <2> HIDE DEF R
  <2> QED BY <1>1, WFMin
<1>3. \A n \in T : <<n, m>> \in Nat \X Nat
  OBVIOUS
<1>4. \A n \in T : ~(n < m)
  BY <1>2, <1>3
<1> QED BY <1>4

(* What a key does to the text of a line *)
Typed(text, k) ==
  CASE k.byte \in Letter -> Append(text, k.byte)
    [] k.byte = "bs" -> SubSeq(text, 1, Len(text) - 1)
    [] OTHER -> text

(* f gives the texts of the first n keys, as the function in Edited *)
Edits(f, ks, n) ==
  f = [i \in 0 .. n |->
         IF i = 0 THEN <<>>
         ELSE CASE ks[i].byte \in Letter -> Append(f[i - 1], ks[i].byte)
                [] ks[i].byte = "bs" -> SubSeq(f[i - 1], 1, Len(f[i - 1]) - 1)
                [] OTHER -> f[i - 1]]

LEMMA EditsIs ==
  ASSUME NEW f, NEW ks, NEW n \in Nat
  PROVE  Edits(f, ks, n) <=> /\ f = [i \in 0 .. n |-> f[i]] /\ f[0] = <<>>
                             /\ \A i \in 1 .. n : f[i] = Typed(f[i - 1], ks[i])
<1>1. ASSUME Edits(f, ks, n)
      PROVE  f = [i \in 0 .. n |-> f[i]] /\ f[0] = <<>> /\ \A i \in 1 .. n : f[i] = Typed(f[i - 1], ks[i])
  <2>1. f = [i \in 0 .. n |-> f[i]]
    BY <1>1 DEF Edits
  <2>2. f[0] = <<>>
    BY <1>1 DEF Edits
  <2>3. ASSUME NEW i \in 1 .. n PROVE f[i] = Typed(f[i - 1], ks[i])
    <3>1. i \in 0 .. n /\ i # 0
      OBVIOUS
    <3> QED BY <1>1, <3>1 DEF Edits, Typed
  <2> QED BY <2>1, <2>2, <2>3
<1>2. ASSUME f = [i \in 0 .. n |-> f[i]], f[0] = <<>>, \A i \in 1 .. n : f[i] = Typed(f[i - 1], ks[i])
      PROVE  Edits(f, ks, n)
  <2>1. ASSUME NEW i \in 0 .. n
        PROVE  f[i] = IF i = 0 THEN <<>>
                      ELSE CASE ks[i].byte \in Letter -> Append(f[i - 1], ks[i].byte)
                             [] ks[i].byte = "bs" -> SubSeq(f[i - 1], 1, Len(f[i - 1]) - 1)
                             [] OTHER -> f[i - 1]
    <3>1. CASE i = 0
      BY <1>2, <3>1
    <3>2. CASE i # 0
      <4>1. i \in 1 .. n
        BY <3>2
      <4> QED BY <1>2, <3>2, <4>1 DEF Typed
    <3> QED BY <3>1, <3>2
  <2> QED BY <1>2, <2>1 DEF Edits
<1> QED BY <1>1, <1>2

LEMMA EditsOne ==
  ASSUME NEW f, NEW g, NEW ks, NEW n \in Nat, Edits(f, ks, n), Edits(g, ks, n)
  PROVE  f = g
<1> DEFINE T == {i \in 0 .. n : f[i] # g[i]}
<1>0. /\ f = [i \in 0 .. n |-> f[i]] /\ f[0] = <<>> /\ \A i \in 1 .. n : f[i] = Typed(f[i - 1], ks[i])
      /\ g = [i \in 0 .. n |-> g[i]] /\ g[0] = <<>> /\ \A i \in 1 .. n : g[i] = Typed(g[i - 1], ks[i])
  BY EditsIs
<1>1. ASSUME NEW m \in T, \A i \in T : m <= i PROVE FALSE
  <2>1. m \in 1 .. n /\ m - 1 \in 0 .. n
    BY <1>0, <1>1
  <2>2. m - 1 \notin T
    BY <1>1, <2>1
  <2>3. f[m - 1] = g[m - 1]
    BY <2>1, <2>2
  <2>4. f[m] = g[m]
    BY <1>0, <2>1, <2>3
  <2> QED BY <1>1, <2>4
<1>2. T = {}
  <2>1. T \in SUBSET Nat
    OBVIOUS
  <2> HIDE DEF T
  <2> QED BY <1>1, <2>1, LeastNat
<1>3. \A i \in 0 .. n : f[i] = g[i]
  BY <1>2
<1> QED BY <1>0, <1>3

LEMMA EditsMore ==
  ASSUME NEW ks, NEW n \in Nat, NEW g, Edits(g, ks, n)
  PROVE  \E f : Edits(f, ks, n + 1)
<1>1. /\ g = [i \in 0 .. n |-> g[i]] /\ g[0] = <<>> /\ \A i \in 1 .. n : g[i] = Typed(g[i - 1], ks[i])
  BY EditsIs
<1>2. PICK m \in Nat : m = n + 1 /\ n = m - 1
  OBVIOUS
<1>3. PICK f : f = [i \in 0 .. m |-> IF i = m THEN Typed(g[n], ks[m]) ELSE g[i]]
  OBVIOUS
<1>4. f = [i \in 0 .. m |-> f[i]] /\ f[0] = <<>>
  BY <1>1, <1>2, <1>3
<1>5. ASSUME NEW i \in 1 .. m PROVE f[i] = Typed(f[i - 1], ks[i])
  <2>1. i \in 0 .. m /\ i - 1 \in 0 .. n /\ i - 1 \in 0 .. m /\ i - 1 # m
    BY <1>2
  <2>2. f[i - 1] = g[i - 1]
    BY <1>3, <2>1
  <2>3. CASE i = m
    <3>1. f[i] = Typed(g[n], ks[m])
      BY <1>3, <2>1, <2>3
    <3>2. f[i - 1] = g[n]
      BY <1>2, <2>2, <2>3
    <3> QED BY <2>3, <3>1, <3>2
  <2>4. CASE i # m
    <3>1. i \in 1 .. n
      BY <1>2, <2>4
    <3>2. f[i] = g[i]
      BY <1>3, <2>1, <2>4
    <3> QED BY <1>1, <2>2, <3>1, <3>2
  <2> QED BY <2>3, <2>4
<1>6. Edits(f, ks, m)
  BY <1>4, <1>5, EditsIs
<1> QED BY <1>2, <1>6

LEMMA EditsThere ==
  ASSUME NEW ks, NEW n \in Nat
  PROVE  \E f : Edits(f, ks, n)
<1> DEFINE none == {i \in Nat : ~ \E f : Edits(f, ks, i)}
<1>1. 0 \notin none
  <2>1. PICK f : f = [i \in 0 .. 0 |-> <<>>]
    OBVIOUS
  <2>2. f = [i \in 0 .. 0 |-> f[i]] /\ f[0] = <<>> /\ \A i \in 1 .. 0 : f[i] = Typed(f[i - 1], ks[i])
    BY <2>1
  <2>3. Edits(f, ks, 0)
    BY <2>2, EditsIs
  <2> QED BY <2>3
<1>2. ASSUME NEW m \in none, \A i \in none : m <= i PROVE FALSE
  <2>1. m \in Nat /\ m # 0
    BY <1>1
  <2>2. PICK c \in Nat : c = m - 1 /\ m = c + 1
    BY <2>1
  <2>3. c \notin none
    <3> HIDE DEF none
    <3> QED BY <1>2, <2>1, <2>2
  <2>4. PICK g : Edits(g, ks, c)
    BY <2>3
  <2>5. \E f : Edits(f, ks, c + 1)
    BY <2>4, EditsMore
  <2> QED BY <2>2, <2>5
<1>3. none = {}
  <2>1. none \in SUBSET Nat
    OBVIOUS
  <2> HIDE DEF none
  <2> QED BY <1>2, <2>1, LeastNat
<1> QED BY <1>3

LEMMA EditedIs ==
  ASSUME NEW ks, Len(ks) \in Nat, NEW f, Edits(f, ks, Len(ks))
  PROVE  Edited(ks) = f[Len(ks)]
<1>1. Edited(ks) = (CHOOSE g : Edits(g, ks, Len(ks)))[Len(ks)]
  BY DEF Edited, Edits
<1>2. Edits(CHOOSE g : Edits(g, ks, Len(ks)), ks, Len(ks))
  OBVIOUS
<1>3. (CHOOSE g : Edits(g, ks, Len(ks))) = f
  BY <1>2, EditsOne
<1> QED BY <1>1, <1>3

(* A line grows by a key. *)
LEMMA EditedMore ==
  ASSUME NEW ks \in Seq(Key), NEW k \in Key
  PROVE  Edited(Append(ks, k)) = Typed(Edited(ks), k)
<1>1. PICK n \in Nat : n = Len(ks)
  OBVIOUS
<1>r. PICK r : r = Append(ks, k)
  OBVIOUS
<1>a. r \in Seq(Key) /\ Len(r) = Len(ks) + 1 /\ r[Len(ks) + 1] = k /\ \A i \in 1 .. Len(ks) : r[i] = ks[i]
  BY <1>r, AppendIs
<1>2. r = Append(ks, k) /\ Len(r) = n + 1 /\ r[n + 1] = k /\ \A i \in 1 .. n : r[i] = ks[i]
  BY <1>1, <1>r, <1>a
<1>3. PICK f : Edits(f, ks, n)
  BY EditsThere
<1>4. PICK m \in Nat : m = n + 1 /\ n = m - 1
  OBVIOUS
<1>5. PICK g : Edits(g, r, m)
  BY EditsThere
<1>6. /\ f = [i \in 0 .. n |-> f[i]] /\ f[0] = <<>> /\ \A i \in 1 .. n : f[i] = Typed(f[i - 1], ks[i])
  BY <1>3, EditsIs
<1>7. /\ g = [i \in 0 .. m |-> g[i]] /\ g[0] = <<>> /\ \A i \in 1 .. m : g[i] = Typed(g[i - 1], r[i])
  BY <1>5, EditsIs
<1>8. PICK h : h = [i \in 0 .. n |-> g[i]]
  OBVIOUS
<1>9. Edits(h, ks, n)
  <2>1. h = [i \in 0 .. n |-> h[i]] /\ h[0] = <<>>
    BY <1>7, <1>8
  <2>2. ASSUME NEW i \in 1 .. n PROVE h[i] = Typed(h[i - 1], ks[i])
    <3>1. i \in 0 .. n /\ i - 1 \in 0 .. n /\ i \in 1 .. m
      BY <1>4
    <3>2. h[i] = g[i] /\ h[i - 1] = g[i - 1] /\ r[i] = ks[i]
      BY <1>2, <1>8, <3>1
    <3> QED BY <1>7, <3>1, <3>2
  <2> QED BY <2>1, <2>2, EditsIs
<1>10. Edited(ks) = g[n]
  <2>1. n \in 0 .. n
    OBVIOUS
  <2>2. h[n] = g[n]
    BY <1>8, <2>1
  <2> QED BY <1>1, <1>9, <2>2, EditedIs
<1>11. Edited(r) = g[m]
  BY <1>2, <1>4, <1>5, EditedIs
<1>12. g[m] = Typed(g[n], k)
  <2>1. m \in 1 .. m
    BY <1>4
  <2>2. g[m] = Typed(g[m - 1], r[m])
    BY <1>7, <2>1
  <2> QED BY <1>2, <1>4, <2>2
<1> QED BY <1>2, <1>10, <1>11, <1>12

LEMMA EditedNone == Edited(<<>>) = <<>>
<1>1. Len(<<>>) = 0 /\ 0 \in Nat
  OBVIOUS
<1>2. PICK f : Edits(f, <<>>, 0)
  BY EditsThere
<1>3. f[0] = <<>>
  BY <1>2, EditsIs
<1> QED BY <1>1, <1>2, <1>3, EditedIs

KeyByte == Letter \cup {"nl", "bs", "nul"}

(* The bytes of a key on the wire *)
Wide(k) == IF k.byte = "nul" THEN 2 ELSE 1

(* That the bytes ks in the pipe are those of the keys ps after the first  *)
(* q, less the last code when test_t1 has still to write it: key i begins  *)
(* at f[i], the first one at b.                                            *)
Laid(f, ps, ks, cd, q, b) ==
  /\ f \in [1 .. Len(ps) + 1 -> Int] /\ q <= Len(ps) /\ f[q + 1] = b
  /\ \A i \in q + 1 .. Len(ps) :
       /\ f[i + 1] = f[i] + Wide(ps[i]) /\ f[i] + Wide(ps[i]) <= f[Len(ps) + 1]
       /\ f[i] \in 1 .. Len(ks) => ks[f[i]] = ps[i].byte
  /\ f[Len(ps) + 1] = Len(ks) + 1 + (IF cd = "nul" THEN 0 ELSE 1)
  /\ cd # "nul" => Len(ps) > 0 /\ ps[Len(ps)].byte = "nul"

LEMMA KeyIs ==
  ASSUME NEW k \in Key
  PROVE  /\ k.byte \in KeyByte /\ k.code \in Letter \cup {"nul"} /\ Wide(k) \in {1, 2}
         /\ k.byte = "nul" <=> k.code # "nul"
         /\ Wide(k) = 1 + (IF k.code = "nul" THEN 0 ELSE 1)
<1>1. CASE k \in [byte : Letter \cup {"nl", "bs"}, code : {"nul"}]
  BY <1>1, LinesAssumption DEF KeyByte, Wide
<1>2. CASE k \in [byte : {"nul"}, code : Letter]
  BY <1>2, LinesAssumption DEF KeyByte, Wide
<1> QED BY <1>1, <1>2 DEF Key

LEMMA InSeq ==
  ASSUME NEW S, NEW s \in Seq(S)
  PROVE  Len(s) \in Nat /\ \A i \in 1 .. Len(s) : s[i] \in S
OBVIOUS

(* A key is passed on. *)
LEMMA LaidKey ==
  ASSUME NEW ps \in Seq(Key), NEW ks \in Seq(KeyByte), NEW q \in Nat, NEW b \in {0, 1}, NEW f,
         Laid(f, ps, ks, "nul", q, b), NEW k \in Key
  PROVE  \E g : Laid(g, Append(ps, k), Append(ks, k.byte), k.code, q, b)
<1>1. PICK n \in Nat, m \in Nat : n = Len(ps) /\ m = Len(ks)
  OBVIOUS
<1>2. PICK p : p = Append(ps, k)
  OBVIOUS
<1>3. PICK c : c = Append(ks, k.byte)
  OBVIOUS
<1>4. Len(p) = n + 1 /\ p[n + 1] = k /\ \A i \in 1 .. n : p[i] = ps[i]
  BY <1>1, <1>2, AppendIs
<1>5. k.byte \in KeyByte
  BY KeyIs
<1>6. Len(c) = m + 1 /\ c[m + 1] = k.byte /\ \A i \in 1 .. m : c[i] = ks[i]
  BY <1>1, <1>3, <1>5, AppendIs
<1>7. PICK w \in {1, 2} : w = Wide(k) /\ w = 1 + (IF k.code = "nul" THEN 0 ELSE 1)
  BY KeyIs
<1>8. /\ f \in [1 .. n + 1 -> Int] /\ q <= n /\ f[q + 1] = b /\ f[n + 1] = m + 1
      /\ \A i \in q + 1 .. n :
           /\ f[i + 1] = f[i] + Wide(ps[i]) /\ f[i] + Wide(ps[i]) <= m + 1
           /\ f[i] \in 1 .. m => ks[f[i]] = ps[i].byte
  <2>1. f[n + 1] = m + 1
    BY <1>1 DEF Laid
  <2> QED BY <1>1, <2>1 DEF Laid
<1>9. PICK g : g = [i \in 1 .. n + 2 |-> IF i = n + 2 THEN m + 1 + w ELSE f[i]]
  OBVIOUS
<1>10. /\ g \in [1 .. n + 2 -> Int] /\ g[n + 2] = m + 1 + w /\ g[n + 1] = m + 1
       /\ \A i \in 1 .. n + 1 : g[i] = f[i]
  BY <1>1, <1>7, <1>8, <1>9
<1>11. q <= n + 1 /\ g[q + 1] = b
  BY <1>8, <1>10
<1>12. ASSUME NEW i \in q + 1 .. n + 1
       PROVE  /\ g[i + 1] = g[i] + Wide(p[i]) /\ g[i] + Wide(p[i]) <= m + 1 + w
              /\ g[i] \in 1 .. m + 1 => c[g[i]] = p[i].byte
  <2>1. CASE i = n + 1
    <3>1. n + 1 + 1 = n + 2
      OBVIOUS
    <3>2. g[n + 1] = m + 1 /\ g[n + 1 + 1] = m + 1 + w /\ Wide(p[n + 1]) = w /\ c[m + 1] = p[n + 1].byte
      BY <1>4, <1>6, <1>7, <1>10, <3>1
    <3>3. m + 1 + w <= m + 1 + w
      BY <1>7
    <3> QED BY <2>1, <3>2, <3>3
  <2>2. CASE i # n + 1
    <3>1. i \in q + 1 .. n /\ i \in 1 .. n /\ i \in 1 .. n + 1 /\ i + 1 \in 1 .. n + 1
      BY <2>2
    <3>2. g[i] = f[i] /\ g[i + 1] = f[i + 1] /\ p[i] = ps[i] /\ f[i] \in Int
      BY <1>4, <1>8, <1>10, <3>1
    <3>3. PICK v \in {1, 2} : v = Wide(ps[i])
      BY DEF Wide
    <3>4. f[i + 1] = f[i] + v /\ f[i] + v <= m + 1 /\ (f[i] \in 1 .. m => ks[f[i]] = ps[i].byte)
      BY <1>8, <3>1, <3>3
    <3>5. f[i] <= m /\ f[i] + v <= m + 1 + w
      BY <1>1, <1>7, <3>2, <3>3, <3>4
    <3>6. f[i] \in 1 .. m + 1 => c[f[i]] = ps[i].byte
      <4>1. f[i] \in 1 .. m + 1 => f[i] \in 1 .. m
        BY <3>2, <3>5
      <4> QED BY <1>6, <3>4, <4>1
    <3> QED BY <3>2, <3>3, <3>4, <3>5, <3>6
  <2> QED BY <2>1, <2>2
<1>13. m + 1 + w = m + 1 + 1 + (IF k.code = "nul" THEN 0 ELSE 1)
  BY <1>1, <1>7
<1>14. k.code # "nul" => n + 1 > 0 /\ p[n + 1].byte = "nul"
  BY <1>4, KeyIs
<1>15. Laid(g, p, c, k.code, q, b)
  <2>1. PICK l \in Nat, r \in Nat, z \in Nat : l = n + 1 /\ r = m + 1 /\ z = m + 1 + w
    BY <1>7
  <2>2. Len(p) = l /\ Len(c) = r /\ l + 1 = n + 2
    BY <1>4, <1>6, <2>1
  <2>3. g \in [1 .. l + 1 -> Int] /\ g[l + 1] = z /\ q <= l /\ g[q + 1] = b
    BY <1>10, <1>11, <2>1, <2>2
  <2>4. \A i \in q + 1 .. l :
          /\ g[i + 1] = g[i] + Wide(p[i]) /\ g[i] + Wide(p[i]) <= z
          /\ g[i] \in 1 .. r => c[g[i]] = p[i].byte
    BY <1>12, <2>1
  <2>5. z = r + 1 + (IF k.code = "nul" THEN 0 ELSE 1)
    BY <1>13, <2>1
  <2>6. k.code # "nul" => l > 0 /\ p[l].byte = "nul"
    BY <1>14, <2>1
  <2> QED BY <2>2, <2>3, <2>4, <2>5, <2>6 DEF Laid
<1> QED BY <1>2, <1>3, <1>15

LEMMA TwoKeys ==
  ASSUME NEW x \in Int, NEW y \in Int, NEW m \in Nat, NEW v \in {1, 2}, NEW w \in {1, 2},
         y = x + v, y + w <= m + 2
  PROVE  x # m + 1
OBVIOUS

(* Its code follows. *)
LEMMA LaidCode ==
  ASSUME NEW ps \in Seq(Key), NEW ks \in Seq(KeyByte), NEW q \in Nat, NEW b \in {0, 1}, NEW f,
         NEW cd \in KeyByte, cd # "nul", Laid(f, ps, ks, cd, q, b)
  PROVE  Laid(f, ps, Append(ks, cd), "nul", q, b)
<1>1. PICK n \in Nat, m \in Nat : n = Len(ps) /\ m = Len(ks)
  OBVIOUS
<1>2. PICK c : c = Append(ks, cd)
  OBVIOUS
<1>3. Len(c) = m + 1 /\ \A i \in 1 .. m : c[i] = ks[i]
  BY <1>1, <1>2, AppendIs
<1>4. /\ f \in [1 .. n + 1 -> Int] /\ q <= n /\ f[q + 1] = b /\ n > 0 /\ ps[n].byte = "nul"
      /\ \A i \in q + 1 .. n :
           /\ f[i + 1] = f[i] + Wide(ps[i]) /\ f[i] + Wide(ps[i]) <= f[n + 1]
           /\ f[i] \in 1 .. m => ks[f[i]] = ps[i].byte
  BY <1>1 DEF Laid
<1>5. f[n + 1] = m + 2
  BY <1>1 DEF Laid
<1>6. ASSUME NEW i \in q + 1 .. n PROVE f[i] \in 1 .. m + 1 => c[f[i]] = ps[i].byte
  <2>1. f[i] \in Int /\ i \in 1 .. n
    BY <1>4
  <2>2. f[i] # m + 1
    <3>1. CASE i = n
      <4>1. f[n] + 2 = m + 2
        BY <1>4, <1>5, <3>1 DEF Wide
      <4> QED BY <1>1, <2>1, <3>1, <4>1
    <3>2. CASE i # n
      <4>1. i + 1 \in q + 1 .. n /\ i + 1 \in 1 .. n + 1
        BY <3>2
      <4>2. PICK v \in {1, 2}, w \in {1, 2} : v = Wide(ps[i]) /\ w = Wide(ps[i + 1])
        BY DEF Wide
      <4>3. f[i + 1] \in Int /\ f[i + 1] = f[i] + v /\ f[i + 1] + w <= m + 2
        BY <1>4, <1>5, <4>1, <4>2
      <4>4. PICK x \in Int, y \in Int : x = f[i] /\ y = f[i + 1]
        BY <2>1, <4>3
      <4>5. y = x + v /\ y + w <= m + 2
        BY <4>3, <4>4
      <4>6. x # m + 1
        BY <4>2, <4>5, TwoKeys
      <4> QED BY <4>4, <4>6
    <3> QED BY <3>1, <3>2
  <2>3. f[i] \in 1 .. m + 1 => f[i] \in 1 .. m
    BY <1>1, <2>1, <2>2
  <2> QED BY <1>3, <1>4, <2>3
<1>7. m + 2 = m + 1 + 1 + 0
  BY <1>1
<1>8. Laid(f, ps, c, "nul", q, b)
  BY <1>1, <1>3, <1>4, <1>5, <1>6, <1>7 DEF Laid
<1> QED BY <1>2, <1>8

(* The next byte is of the key after the first q. *)
LEMMA LaidNext ==
  ASSUME NEW ps \in Seq(Key), NEW ks \in Seq(KeyByte), NEW q \in Nat, NEW b \in {0, 1}, NEW f,
         NEW cd, Laid(f, ps, ks, cd, q, b), ks # <<>>
  PROVE  q + 1 \in 1 .. Len(ps) /\ (b = 1 => ks[1] = ps[q + 1].byte)
<1>1. PICK n \in Nat, m \in Nat : n = Len(ps) /\ m = Len(ks) /\ m > 0
  OBVIOUS
<1>2. q <= n /\ f[q + 1] = b
  BY <1>1 DEF Laid
<1>3. f[n + 1] >= m + 1
  BY <1>1 DEF Laid
<1>4. q # n
  BY <1>1, <1>2, <1>3
<1>5. q + 1 \in 1 .. n /\ q + 1 \in q + 1 .. n
  BY <1>2, <1>4
<1>6. b = 1 => f[q + 1] \in 1 .. m
  BY <1>1, <1>2
<1>7. b = 1 => ks[f[q + 1]] = ps[q + 1].byte
  BY <1>1, <1>5, <1>6 DEF Laid
<1> QED BY <1>1, <1>2, <1>5, <1>7

LEMMA OneLess ==
  ASSUME NEW x \in Int, NEW y \in Int, NEW z \in Int, NEW v \in {1, 2}, y = x + v, x + v <= z
  PROVE  y - 1 = x - 1 + v /\ x - 1 + v <= z - 1
OBVIOUS

(* It is read. *)
LEMMA LaidRead ==
  ASSUME NEW ps \in Seq(Key), NEW ks \in Seq(KeyByte), NEW q \in Nat, NEW b \in {0, 1}, NEW f,
         NEW cd, Laid(f, ps, ks, cd, q, b), ks # <<>>, NEW p \in Nat, NEW d \in {0, 1},
         \/ p = q + 1 /\ d = 1 /\ b + Wide(ps[q + 1]) = 2
         \/ p = q /\ d = 0 /\ b = 1
  PROVE  \E g : Laid(g, ps, Tail(ks), cd, p, d)
<1>1. PICK n \in Nat, m \in Nat : n = Len(ps) /\ m = Len(ks) /\ m > 0
  OBVIOUS
<1>2. PICK c : c = Tail(ks)
  OBVIOUS
<1>3. PICK l \in Nat : l = m - 1 /\ Len(c) = l /\ \A i \in 1 .. l : c[i] = ks[i + 1]
  BY <1>1, <1>2
<1>4. /\ f \in [1 .. n + 1 -> Int] /\ q <= n /\ f[q + 1] = b
      /\ f[n + 1] = m + 1 + (IF cd = "nul" THEN 0 ELSE 1)
      /\ cd # "nul" => n > 0 /\ ps[n].byte = "nul"
      /\ \A i \in q + 1 .. n :
           /\ f[i + 1] = f[i] + Wide(ps[i]) /\ f[i] + Wide(ps[i]) <= f[n + 1]
           /\ f[i] \in 1 .. m => ks[f[i]] = ps[i].byte
  BY <1>1 DEF Laid
<1>5. PICK g : g = [i \in 1 .. n + 1 |-> f[i] - 1]
  OBVIOUS
<1>6. g \in [1 .. n + 1 -> Int] /\ \A i \in 1 .. n + 1 : f[i] \in Int /\ g[i] = f[i] - 1
  <2>1. f \in [1 .. n + 1 -> Int]
    BY <1>4
  <2>2. \A i \in 1 .. n + 1 : f[i] \in Int /\ f[i] - 1 \in Int
    BY <2>1
  <2> QED BY <1>5, <2>2
<1>7. q + 1 \in 1 .. n /\ n + 1 \in 1 .. n + 1 /\ q + 1 \in 1 .. n + 1 /\ q + 2 \in 1 .. n + 1 /\ q + 1 \in q + 1 .. n
  <2>1. q + 1 \in 1 .. n
    BY <1>1, LaidNext
  <2> QED BY <2>1
<1>8. p <= n /\ g[p + 1] = d /\ p >= q
  <2>1. CASE p = q + 1 /\ d = 1 /\ b + Wide(ps[q + 1]) = 2
    <3>1. f[q + 1 + 1] = 2
      BY <1>4, <1>7, <2>1
    <3>2. q + 1 + 1 = q + 2
      OBVIOUS
    <3> QED BY <1>6, <1>7, <2>1, <3>1, <3>2
  <2>2. CASE p = q /\ d = 0 /\ b = 1
    BY <1>4, <1>6, <1>7, <2>2
  <2> QED BY <2>1, <2>2
<1>9. g[n + 1] = l + 1 + (IF cd = "nul" THEN 0 ELSE 1)
  <2>1. g[n + 1] = f[n + 1] - 1
    BY <1>6, <1>7
  <2>2. CASE cd = "nul"
    BY <1>1, <1>3, <1>4, <2>1, <2>2
  <2>3. CASE cd # "nul"
    BY <1>1, <1>3, <1>4, <2>1, <2>3
  <2> QED BY <2>2, <2>3
<1>10. ASSUME NEW i \in p + 1 .. n
       PROVE  /\ g[i + 1] = g[i] + Wide(ps[i]) /\ g[i] + Wide(ps[i]) <= g[n + 1]
              /\ g[i] \in 1 .. l => c[g[i]] = ps[i].byte
  <2>1. i \in q + 1 .. n /\ i \in 1 .. n + 1 /\ i + 1 \in 1 .. n + 1
    BY <1>8
  <2>2. PICK v \in {1, 2} : v = Wide(ps[i])
    BY DEF Wide
  <2>3. f[i + 1] = f[i] + v /\ f[i] + v <= f[n + 1] /\ (f[i] \in 1 .. m => ks[f[i]] = ps[i].byte)
    BY <1>4, <2>1, <2>2
  <2>4. PICK x \in Int, y \in Int, z \in Int : x = f[i] /\ y = f[i + 1] /\ z = f[n + 1]
    BY <1>6, <1>7, <2>1
  <2>5. g[i] = x - 1 /\ g[i + 1] = y - 1 /\ g[n + 1] = z - 1
    BY <1>6, <1>7, <2>1, <2>4
  <2>6. y - 1 = x - 1 + v /\ x - 1 + v <= z - 1
    <3>1. y = x + v /\ x + v <= z
      BY <2>3, <2>4
    <3> QED BY <3>1, OneLess
  <2>7. x - 1 \in 1 .. l => c[x - 1] = ps[i].byte
    <3>1. ASSUME x - 1 \in 1 .. l PROVE c[x - 1] = ps[i].byte
      <4>1. x \in 1 .. m /\ x - 1 + 1 = x
        BY <1>1, <1>3, <3>1
      <4>2. c[x - 1] = ks[x]
        BY <1>3, <3>1, <4>1
      <4> QED BY <2>3, <2>4, <4>1, <4>2
    <3> QED BY <3>1
  <2> QED BY <2>2, <2>5, <2>6, <2>7
<1>11. Laid(g, ps, c, cd, p, d)
  BY <1>1, <1>3, <1>4, <1>6, <1>8, <1>9, <1>10 DEF Laid
<1> QED BY <1>2, <1>11

(* A line is taken off. *)
LEMMA LaidCut ==
  ASSUME NEW ps \in Seq(Key), NEW ks \in Seq(KeyByte), NEW q \in Nat, NEW f, NEW cd,
         Laid(f, ps, ks, cd, q, 1)
  PROVE  \E g : Laid(g, SubSeq(ps, q + 1, Len(ps)), ks, cd, 0, 1)
<1>1. PICK n \in Nat, m \in Nat : n = Len(ps) /\ m = Len(ks)
  OBVIOUS
<1>2. PICK p : p = SubSeq(ps, q + 1, n)
  OBVIOUS
<1>3. /\ f \in [1 .. n + 1 -> Int] /\ q <= n /\ f[q + 1] = 1
      /\ f[n + 1] = m + 1 + (IF cd = "nul" THEN 0 ELSE 1)
      /\ cd # "nul" => n > 0 /\ ps[n].byte = "nul"
      /\ \A i \in q + 1 .. n :
           /\ f[i + 1] = f[i] + Wide(ps[i]) /\ f[i] + Wide(ps[i]) <= f[n + 1]
           /\ f[i] \in 1 .. m => ks[f[i]] = ps[i].byte
  BY <1>1 DEF Laid
<1>4. PICK l \in Nat : l = n - q /\ n = l + q
  <2>1. n - q \in Nat /\ n = n - q + q
    BY <1>1, <1>3
  <2> QED BY <2>1
<1>5. Len(p) = l /\ \A i \in 1 .. l : p[i] = ps[i + q]
  BY <1>1, <1>2, <1>4
<1>6. PICK g : g = [i \in 1 .. l + 1 |-> f[i + q]]
  OBVIOUS
<1>7. g \in [1 .. l + 1 -> Int] /\ \A i \in 1 .. l + 1 : i + q \in 1 .. n + 1 /\ g[i] = f[i + q]
  <2>1. \A i \in 1 .. l + 1 : i + q \in 1 .. n + 1
    BY <1>4
  <2> QED BY <1>3, <1>6, <2>1
<1>8. g[0 + 1] = 1 /\ g[l + 1] = f[n + 1]
  <2>1. 1 \in 1 .. l + 1 /\ l + 1 \in 1 .. l + 1 /\ 0 + 1 = 1 /\ 1 + q = q + 1 /\ l + 1 + q = n + 1
    BY <1>4
  <2> QED BY <1>3, <1>7, <2>1
<1>9. ASSUME NEW i \in 0 + 1 .. l
      PROVE  /\ g[i + 1] = g[i] + Wide(p[i]) /\ g[i] + Wide(p[i]) <= g[l + 1]
             /\ g[i] \in 1 .. m => ks[g[i]] = p[i].byte
  <2>1. PICK j \in q + 1 .. n : j = i + q
    BY <1>4
  <2>2. i + 1 + q = j + 1 /\ i \in 1 .. l /\ i \in 1 .. l + 1 /\ i + 1 \in 1 .. l + 1
    BY <2>1
  <2>3. g[i] = f[j] /\ g[i + 1] = f[j + 1] /\ p[i] = ps[j]
    BY <1>5, <1>7, <2>1, <2>2
  <2> QED BY <1>3, <1>8, <2>1, <2>3
<1>10. cd # "nul" => l > 0 /\ p[l].byte = "nul"
  <2>1. ASSUME cd # "nul" PROVE l > 0
    <3>1. f[n + 1] = m + 2
      BY <1>1, <1>3, <2>1
    <3>2. q # n
      BY <1>1, <1>3, <3>1
    <3> QED BY <1>3, <1>4, <3>2
  <2>2. l > 0 => p[l] = ps[n]
    BY <1>4, <1>5
  <2> QED BY <1>3, <2>1, <2>2
<1>11. Laid(g, p, ks, cd, 0, 1)
  BY <1>1, <1>3, <1>5, <1>7, <1>8, <1>9, <1>10 DEF Laid
<1> QED BY <1>1, <1>2, <1>11

(* The keys of the line that gets_s has taken, and where the next one is   *)
InGets == shell \in {"reading", "control"}
Gone   == IF InGets THEN LineMax - len ELSE 0
First  == IF shell = "control" THEN 0 ELSE 1

Buffers == [0 .. LineMax -> Letter \cup {"nul"}]

LinesTypes ==
  /\ keys \in Seq(KeyByte) /\ code \in Letter \cup {"nul"} /\ shell \in Doing
  /\ mem \in Buffers /\ str \in 0 .. LineMax /\ len \in 1 .. LineMax
  /\ pressed \in Seq(Key) /\ meant \in Seq(Key) /\ dropped \in BOOLEAN
  /\ InGets => str <= LineMax - len

(* The buffer m has the text of the first n keys, which ends at i. *)
Holds(ps, n, m, i) ==
  LET text == Edited(SubSeq(ps, 1, n))
  IN  text \in Seq(Letter) /\ Len(text) = i /\ \A j \in 1 .. i : m[j - 1] = text[j]

LinesIInv ==
  /\ LinesTypes
  /\ ~dropped =>
       /\ LineIsEdited
       /\ shell # "astray" => \E f : Laid(f, pressed, keys, code, Gone, First)
       /\ InGets => Gone <= Len(pressed) /\ Holds(pressed, Gone, mem, str)
       /\ shell = "control" => Gone < Len(pressed) /\ pressed[Gone + 1].byte = "nul"

LEMMA GoneIs ==
  ASSUME LinesTypes
  PROVE  /\ LineMax \in Nat \ {0} /\ len \in 1 .. LineMax /\ Gone \in Nat /\ First \in {0, 1}
         /\ InGets => Gone = LineMax - len /\ str <= Gone
<1>1. LineMax \in Nat \ {0} /\ len \in 1 .. LineMax
  BY LinesAssumption DEF LinesTypes
<1>2. LineMax - len \in Nat
  BY <1>1
<1>3. Gone \in Nat
  BY <1>2 DEF Gone
<1>4. First \in {0, 1}
  BY DEF First
<1> QED BY <1>1, <1>3, <1>4 DEF Gone, LinesTypes

LEMMA FirstKeys ==
  ASSUME NEW ps \in Seq(Key), NEW n \in Nat, n + 1 <= Len(ps)
  PROVE  /\ SubSeq(ps, 1, n) \in Seq(Key) /\ ps[n + 1] \in Key
         /\ SubSeq(ps, 1, n + 1) = Append(SubSeq(ps, 1, n), ps[n + 1])
<1>1. PICK s : s = SubSeq(ps, 1, n)
  OBVIOUS
<1>2. s \in Seq(Key) /\ Len(s) = n /\ \A i \in 1 .. n : s[i] = ps[i]
  BY <1>1
<1>3. ps[n + 1] \in Key
  OBVIOUS
<1>4. PICK r : r = Append(s, ps[n + 1])
  OBVIOUS
<1>5. r \in Seq(Key) /\ Len(r) = Len(s) + 1 /\ r[Len(s) + 1] = ps[n + 1] /\ \A i \in 1 .. Len(s) : r[i] = s[i]
  BY <1>2, <1>3, <1>4, AppendIs
<1>6. PICK l \in Nat : l = n + 1 /\ l <= Len(ps)
  OBVIOUS
<1>7. PICK w : w = SubSeq(ps, 1, l)
  OBVIOUS
<1>8. w \in Seq(Key) /\ Len(w) = l /\ \A i \in 1 .. l : w[i] = ps[i]
  BY <1>6, <1>7
<1>9. ASSUME NEW i \in 1 .. l PROVE w[i] = r[i]
  <2>1. CASE i = n + 1
    BY <1>2, <1>5, <1>8, <2>1
  <2>2. CASE i # n + 1
    <3>1. i \in 1 .. n
      BY <1>6, <2>2
    <3> QED BY <1>2, <1>5, <1>8, <3>1
  <2> QED BY <2>1, <2>2
<1>10. Len(r) = l
  BY <1>2, <1>5, <1>6
<1>11. w = [i \in 1 .. l |-> w[i]] /\ r = [i \in 1 .. l |-> r[i]]
  BY <1>5, <1>8, <1>10
<1>12. w = r
  BY <1>9, <1>11
<1> QED BY <1>1, <1>2, <1>3, <1>4, <1>6, <1>7, <1>12

LEMMA InitLines == LinesInit => LinesIInv
<1> SUFFICES ASSUME LinesInit PROVE LinesIInv
  OBVIOUS
<1>1. LineMax \in Nat \ {0} /\ <<>> \in Seq(KeyByte) /\ <<>> \in Seq(Key) /\ Len(<<>>) = 0
  BY LinesAssumption
<1>2. LinesTypes
  BY <1>1 DEF LinesInit, LinesTypes, InGets, Doing, Buffers
<1>3. LineIsEdited
  BY DEF LinesInit, LineIsEdited
<1>4. \E f : Laid(f, pressed, keys, code, Gone, First)
  <2>1. PICK f : f = [i \in 1 .. 0 + 1 |-> 1]
    OBVIOUS
  <2>2. f \in [1 .. 0 + 1 -> Int] /\ f[0 + 1] = 1 /\ 0 <= 0 /\ ~\E i \in 0 + 1 .. 0 : TRUE
    BY <2>1
  <2>3. Laid(f, <<>>, <<>>, "nul", 0, 1)
    BY <1>1, <2>2 DEF Laid
  <2>4. Gone = 0 /\ First = 1 /\ pressed = <<>> /\ keys = <<>> /\ code = "nul"
    BY DEF LinesInit, Gone, First, InGets
  <2> QED BY <2>3, <2>4
<1> QED BY <1>2, <1>3, <1>4 DEF LinesInit, LinesIInv, InGets

LEMMA KeyKeeps ==
  ASSUME LinesIInv, NEW k \in Key, TakeKey(k)
  PROVE  LinesIInv'
<1>1. /\ keys' = (IF Len(keys) = KeyRoom THEN keys ELSE Append(keys, k.byte))
      /\ dropped' = (dropped \/ Len(keys) = KeyRoom)
      /\ pressed' = (IF dropped' THEN <<>> ELSE Append(pressed, k))
      /\ code = "nul" /\ code' = k.code /\ UNCHANGED <<shell, mem, str, len, meant>>
  BY DEF TakeKey, Push
<1>2. LinesTypes'
  <2>1. keys' \in Seq(KeyByte) /\ pressed' \in Seq(Key) /\ code' \in Letter \cup {"nul"} /\ dropped' \in BOOLEAN
    BY <1>1, KeyIs DEF LinesIInv, LinesTypes
  <2> QED BY <1>1, <2>1 DEF LinesIInv, LinesTypes, InGets
<1>3. ASSUME ~dropped'
      PROVE  /\ LineIsEdited'
             /\ shell' # "astray" => \E f : Laid(f, pressed', keys', code', Gone', First')
             /\ InGets' => Gone' <= Len(pressed') /\ Holds(pressed', Gone', mem', str')
             /\ shell' = "control" => Gone' < Len(pressed') /\ pressed'[Gone' + 1].byte = "nul"
  <2>1. /\ ~dropped /\ keys' = Append(keys, k.byte) /\ pressed' = Append(pressed, k)
        /\ Gone' = Gone /\ First' = First /\ InGets' = InGets
    BY <1>1, <1>3 DEF Gone, First, InGets
  <2>2. PICK q \in Nat, b \in {0, 1} : q = Gone /\ b = First
    <3>1. Gone \in Nat /\ First \in {0, 1}
      BY GoneIs DEF LinesIInv
    <3> QED BY <3>1
  <2>3. LineIsEdited'
    <3>1. LineIsEdited
      BY <2>1 DEF LinesIInv
    <3> QED BY <1>1, <1>3, <2>1, <3>1 DEF LineIsEdited, LineText
  <2>4. pressed \in Seq(Key) /\ keys \in Seq(KeyByte)
    BY DEF LinesIInv, LinesTypes
  <2>5. ASSUME shell' # "astray" PROVE \E f : Laid(f, pressed', keys', code', q, b)
    <3>1. PICK f : Laid(f, pressed, keys, "nul", q, b)
      BY <1>1, <2>1, <2>2, <2>5 DEF LinesIInv
    <3>2. \E g : Laid(g, Append(pressed, k), Append(keys, k.byte), k.code, q, b)
      BY <2>4, <3>1, LaidKey
    <3> QED BY <1>1, <2>1, <3>2
  <2>6. /\ Len(pressed') = Len(pressed) + 1 /\ Len(pressed) \in Nat
        /\ \A i \in 1 .. Len(pressed) : pressed'[i] = pressed[i]
    BY <2>1, <2>4, AppendIs
  <2>7. ASSUME InGets PROVE q <= Len(pressed') /\ Holds(pressed', Gone', mem', str')
    <3>1. q <= Len(pressed) /\ Holds(pressed, q, mem, str)
      BY <2>1, <2>2, <2>7 DEF LinesIInv
    <3>2. SubSeq(pressed', 1, q) = SubSeq(pressed, 1, q)
      BY <2>1, <2>4, <3>1
    <3>3. Holds(pressed', q, mem, str)
      BY <3>1, <3>2 DEF Holds
    <3>4. Holds(pressed', Gone', mem', str') <=> Holds(pressed', q, mem, str)
      BY <1>1, <2>1, <2>2
    <3> QED BY <2>6, <3>1, <3>3, <3>4
  <2>8. ASSUME shell' = "control" PROVE q < Len(pressed') /\ pressed'[q + 1].byte = "nul"
    <3>1. q < Len(pressed) /\ pressed[q + 1].byte = "nul"
      BY <1>1, <2>1, <2>2, <2>8 DEF LinesIInv
    <3>2. q + 1 \in 1 .. Len(pressed)
      BY <2>6, <3>1
    <3> QED BY <2>6, <3>1, <3>2
  <2> QED BY <2>1, <2>2, <2>3, <2>5, <2>7, <2>8
<1> QED BY <1>2, <1>3 DEF LinesIInv

LEMMA CodeKeeps ==
  ASSUME LinesIInv, TakeCode
  PROVE  LinesIInv'
<1>1. /\ keys' = (IF Len(keys) = KeyRoom THEN keys ELSE Append(keys, code))
      /\ dropped' = (dropped \/ Len(keys) = KeyRoom)
      /\ pressed' = (IF dropped' THEN <<>> ELSE pressed)
      /\ code # "nul" /\ code' = "nul" /\ UNCHANGED <<shell, mem, str, len, meant>>
  BY DEF TakeCode, Push
<1>2. LinesTypes'
  <2>1. keys' \in Seq(KeyByte) /\ pressed' \in Seq(Key) /\ code' \in Letter \cup {"nul"} /\ dropped' \in BOOLEAN
    <3>1. code \in KeyByte /\ keys \in Seq(KeyByte) /\ pressed \in Seq(Key) /\ dropped \in BOOLEAN
      BY DEF LinesIInv, LinesTypes, KeyByte
    <3> QED BY <1>1, <3>1
  <2> QED BY <1>1, <2>1 DEF LinesIInv, LinesTypes, InGets
<1>3. ASSUME ~dropped'
      PROVE  /\ LineIsEdited'
             /\ shell' # "astray" => \E f : Laid(f, pressed', keys', code', Gone', First')
             /\ InGets' => Gone' <= Len(pressed') /\ Holds(pressed', Gone', mem', str')
             /\ shell' = "control" => Gone' < Len(pressed') /\ pressed'[Gone' + 1].byte = "nul"
  <2>1. /\ ~dropped /\ keys' = Append(keys, code) /\ pressed' = pressed
        /\ Gone' = Gone /\ First' = First /\ InGets' = InGets
    BY <1>1, <1>3 DEF Gone, First, InGets
  <2>2. PICK q \in Nat, b \in {0, 1} : q = Gone /\ b = First
    <3>1. Gone \in Nat /\ First \in {0, 1}
      BY GoneIs DEF LinesIInv
    <3> QED BY <3>1
  <2>3. LineIsEdited'
    <3>1. LineIsEdited
      BY <2>1 DEF LinesIInv
    <3> QED BY <1>1, <1>3, <2>1, <3>1 DEF LineIsEdited, LineText
  <2>4. pressed \in Seq(Key) /\ keys \in Seq(KeyByte) /\ code \in KeyByte
    BY DEF LinesIInv, LinesTypes, KeyByte
  <2>5. ASSUME shell' # "astray" PROVE \E f : Laid(f, pressed', keys', code', q, b)
    <3>1. PICK f : Laid(f, pressed, keys, code, q, b)
      BY <1>1, <2>1, <2>2, <2>5 DEF LinesIInv
    <3>2. Laid(f, pressed, Append(keys, code), "nul", q, b)
      BY <1>1, <2>4, <3>1, LaidCode
    <3> QED BY <1>1, <2>1, <3>2
  <2>6. InGets => Gone' <= Len(pressed') /\ Holds(pressed', Gone', mem', str')
    <3>1. InGets => Gone <= Len(pressed) /\ Holds(pressed, Gone, mem, str)
      BY <2>1 DEF LinesIInv
    <3> QED BY <1>1, <2>1, <3>1 DEF Holds
  <2>7. shell' = "control" => Gone' < Len(pressed') /\ pressed'[Gone' + 1].byte = "nul"
    BY <1>1, <2>1 DEF LinesIInv
  <2> QED BY <2>1, <2>2, <2>3, <2>5, <2>6, <2>7
<1> QED BY <1>2, <1>3 DEF LinesIInv

LEMMA NextLineKeeps ==
  ASSUME LinesIInv, NextLine
  PROVE  LinesIInv'
<1>1. /\ shell = "command" /\ shell' = "reading" /\ str' = 0 /\ len' = LineMax /\ meant' = <<>>
      /\ UNCHANGED <<keys, code, mem, pressed, dropped>>
  BY DEF NextLine
<1>2. LineMax \in Nat \ {0} /\ <<>> \in Seq(Key) /\ pressed \in Seq(Key) /\ Len(pressed) \in Nat
  BY LinesAssumption DEF LinesIInv, LinesTypes
<1>3. LinesTypes'
  BY <1>1, <1>2 DEF LinesIInv, LinesTypes, InGets, Doing
<1>4. Gone = 0 /\ Gone' = 0 /\ First = 1 /\ First' = 1
  BY <1>1, <1>2 DEF Gone, First, InGets
<1>5. Holds(pressed', Gone', mem', str')
  <2>1. SubSeq(pressed, 1, 0) = <<>>
    BY <1>2
  <2>2. Edited(SubSeq(pressed', 1, 0)) = <<>>
    BY <1>1, <2>1, EditedNone
  <2>3. <<>> \in Seq(Letter) /\ Len(<<>>) = 0 /\ ~\E j \in 1 .. 0 : TRUE
    OBVIOUS
  <2> QED BY <1>1, <1>4, <2>2, <2>3 DEF Holds
<1>6. LineIsEdited'
  BY <1>1 DEF LineIsEdited
<1>7. ~dropped => \E f : Laid(f, pressed', keys', code', Gone', First')
  BY <1>1, <1>4 DEF LinesIInv
<1> QED BY <1>1, <1>2, <1>3, <1>4, <1>5, <1>6, <1>7 DEF LinesIInv

(* The string of a buffer that holds the text t and ends after it *)
LEMMA TextIs ==
  ASSUME NEW m, NEW i \in 0 .. LineMax, NEW t \in Seq(Letter), Len(t) = i,
         \A j \in 1 .. i : m[j - 1] = t[j], m[i] = "nul"
  PROVE  LET n == CHOOSE j \in 0 .. LineMax : m[j] = "nul" /\ \A k \in 0 .. j - 1 : m[k] # "nul"
         IN  [j \in 1 .. n |-> m[j - 1]] = t
<1> DEFINE End(j) == m[j] = "nul" /\ \A k \in 0 .. j - 1 : m[k] # "nul"
<1>1. LineMax \in Nat /\ i \in Nat /\ "nul" \notin Letter /\ \A j \in 1 .. i : t[j] \in Letter
  BY LinesAssumption
<1>2. ASSUME NEW k \in 0 .. i - 1 PROVE m[k] # "nul"
  <2>1. k + 1 \in 1 .. i /\ k + 1 - 1 = k
    BY <1>1
  <2>2. m[k] = t[k + 1]
    BY <2>1
  <2> QED BY <1>1, <2>1, <2>2
<1>3. End(i)
  BY <1>2
<1>4. ASSUME NEW j \in 0 .. LineMax, End(j) PROVE j = i
  <2>1. ~(j < i)
    <3>1. j < i => j \in 0 .. i - 1
      BY <1>1
    <3> QED BY <1>2, <1>4, <3>1
  <2>2. ~(i < j)
    <3>1. i < j => i \in 0 .. j - 1
      BY <1>1
    <3> QED BY <1>4, <3>1
  <2> QED BY <1>1, <2>1, <2>2
<1> HIDE DEF End
<1>5. (CHOOSE j \in 0 .. LineMax : End(j)) = i
  BY <1>3, <1>4
<1>6. [j \in 1 .. i |-> m[j - 1]] = t
  <2>1. t = [j \in 1 .. i |-> t[j]]
    BY <1>1
  <2> QED BY <2>1
<1> QED BY <1>5, <1>6 DEF End

(* What a step of gets_s comes to that has read all of a key *)
LEMMA TakenKeeps ==
  ASSUME LinesIInv, InGets, NEW q \in Nat, q = Gone,
         NEW m \in Buffers, NEW i \in 0 .. LineMax, i <= q + 1,
         keys # <<>>, keys' = Tail(keys), code' = code, dropped' = dropped,
         ~dropped => /\ q + 1 \in 1 .. Len(pressed) /\ Holds(pressed, q + 1, m, i)
                     /\ \E g : Laid(g, pressed, keys', code, q + 1, 1),
         \/ Continue(m, i) /\ (~dropped => pressed[q + 1].byte # "nl")
         \/ Finish(m, q + 1) /\ m[i] = "nul"
  PROVE  LinesIInv'
<1>1. /\ LineMax \in Nat \ {0} /\ len \in 1 .. LineMax /\ q = LineMax - len
      /\ pressed \in Seq(Key) /\ Len(pressed) \in Nat /\ meant \in Seq(Key) /\ <<>> \in Seq(Key)
  BY GoneIs DEF LinesIInv, LinesTypes
<1>2. keys' \in Seq(KeyByte) /\ keys \in Seq(KeyByte)
  BY DEF LinesIInv, LinesTypes
<1>3. CASE Finish(m, q + 1) /\ (m[i] = "nul" \/ (~dropped => pressed[q + 1].byte # "nl"))
  <2>1. /\ mem' = m /\ shell' = "command" /\ str' = str /\ len' = len
        /\ meant' = IF dropped THEN <<>> ELSE SubSeq(pressed, 1, q + 1)
        /\ pressed' = IF dropped THEN <<>> ELSE SubSeq(pressed, q + 1 + 1, Len(pressed))
    BY <1>3 DEF Finish
  <2>2. Gone' = 0 /\ First' = 1 /\ ~InGets'
    BY <2>1 DEF Gone, First, InGets
  <2>3. ~dropped => q \in Nat /\ q + 1 <= Len(pressed)
    OBVIOUS
  <2>4. meant' \in Seq(Key) /\ pressed' \in Seq(Key)
    <3>1. CASE dropped
      BY <1>1, <2>1, <3>1
    <3>2. CASE ~dropped
      <4>1. SubSeq(pressed, 1, q + 1) \in Seq(Key)
        BY <1>1, <2>3, <3>2
      <4>2. SubSeq(pressed, q + 1 + 1, Len(pressed)) \in Seq(Key)
        BY <1>1, <2>3, <3>2
      <4> QED BY <2>1, <3>2, <4>1, <4>2
    <3> QED BY <3>1, <3>2
  <2>5. LinesTypes'
    BY <1>2, <2>1, <2>2, <2>4 DEF LinesIInv, LinesTypes, Doing
  <2>6. ASSUME ~dropped PROVE \E f : Laid(f, pressed', keys', code', Gone', First')
    <3>1. PICK g : Laid(g, pressed, keys', code, q + 1, 1)
      BY <2>6
    <3>2. PICK l \in Nat, ks \in Seq(KeyByte) : l = q + 1 /\ ks = keys'
      <4>1. q + 1 \in Nat
        OBVIOUS
      <4> QED BY <1>2, <4>1
    <3>3. \E f : Laid(f, SubSeq(pressed, l + 1, Len(pressed)), ks, code, 0, 1)
      BY <1>1, <3>1, <3>2, LaidCut
    <3>4. pressed' = SubSeq(pressed, l + 1, Len(pressed))
      BY <2>1, <2>6, <3>2
    <3> QED BY <2>2, <3>2, <3>3, <3>4
  <2>7. ASSUME ~dropped, meant'[Len(meant')].byte = "nl" PROVE LineText' = Edited(meant')
    <3>1. PICK s : s = SubSeq(pressed, 1, q + 1)
      OBVIOUS
    <3>2. Len(s) = q + 1 /\ s[q + 1] = pressed[q + 1] /\ meant' = s
      <4>1. PICK l \in Nat : l = q + 1 /\ 1 <= l /\ l <= Len(pressed)
        BY <2>7
      <4>2. Len(SubSeq(pressed, 1, l)) = l /\ SubSeq(pressed, 1, l)[l] = pressed[l]
        BY <1>1, <4>1
      <4> QED BY <2>1, <2>7, <3>1, <4>1, <4>2
    <3>3. m[i] = "nul"
      BY <1>3, <2>7, <3>2
    <3>4. PICK t : t = Edited(s) /\ t \in Seq(Letter) /\ Len(t) = i /\ \A j \in 1 .. i : m[j - 1] = t[j]
      BY <2>7, <3>1 DEF Holds
    <3>5. LineText' = LET n == CHOOSE j \in 0 .. LineMax : m[j] = "nul" /\ \A k \in 0 .. j - 1 : m[k] # "nul"
                      IN  [j \in 1 .. n |-> m[j - 1]]
      BY <2>1 DEF LineText
    <3>6. LineText' = t
      BY <3>3, <3>4, <3>5, TextIs
    <3> QED BY <3>2, <3>4, <3>6
  <2> QED BY <2>2, <2>1, <2>5, <2>6, <2>7 DEF LinesIInv, LineIsEdited
<1>4. CASE Continue(m, i) /\ (~dropped => pressed[q + 1].byte # "nl")
  <2>1. CASE len = 1
    <3>1. Finish(m, LineMax) /\ LineMax = q + 1
      BY <1>1, <1>4, <2>1 DEF Continue
    <3> QED BY <1>3, <1>4, <3>1
  <2>2. CASE len # 1
    <3>1. /\ mem' = m /\ str' = i /\ len' = len - 1 /\ shell' = "reading"
          /\ meant' = meant /\ pressed' = pressed
      BY <1>4, <2>2 DEF Continue
    <3>2. len' \in 1 .. LineMax /\ LineMax - len' = q + 1
      BY <1>1, <2>2, <3>1
    <3>3. InGets' /\ First' = 1 /\ Gone' = q + 1
      BY <3>1, <3>2 DEF Gone, First, InGets
    <3>4. LinesTypes'
      BY <1>2, <3>1, <3>2 DEF LinesIInv, LinesTypes, Doing
    <3>5. LineIsEdited'
      BY <3>1 DEF LineIsEdited
    <3>6. ~dropped => Gone' <= Len(pressed') /\ Holds(pressed', Gone', mem', str')
      BY <1>1, <3>1, <3>3
    <3>7. ~dropped => \E f : Laid(f, pressed', keys', code', Gone', First')
      BY <3>1, <3>3
    <3> QED BY <3>1, <3>3, <3>4, <3>5, <3>6, <3>7 DEF LinesIInv
  <2> QED BY <2>1, <2>2
<1> QED BY <1>3, <1>4

(* gets_s stores c in its buffer m. *)
Put(m, i, c) == [m EXCEPT ![i] = c]

LEMMA Stored ==
  ASSUME NEW m \in Buffers, NEW i \in Nat, i < LineMax,
         NEW c \in Letter \cup {"nul"}
  PROVE  /\ Put(m, i, c) \in Buffers /\ Put(m, i, c)[i] = c
         /\ \A j \in 1 .. i : Put(m, i, c)[j - 1] = m[j - 1]
<1>1. LineMax \in Nat
  BY LinesAssumption
<1>2. i \in 0 .. LineMax /\ \A j \in 1 .. i : j - 1 \in 0 .. LineMax /\ j - 1 # i
  BY <1>1
<1> QED BY <1>2 DEF Put, Buffers

LEMMA TextGrows ==
  ASSUME NEW ps \in Seq(Key), NEW q \in Nat, q + 1 \in 1 .. Len(ps)
  PROVE  Edited(SubSeq(ps, 1, q + 1)) = Typed(Edited(SubSeq(ps, 1, q)), ps[q + 1])
<1>1. q + 1 <= Len(ps)
  OBVIOUS
<1>2. PICK s \in Seq(Key), k \in Key : s = SubSeq(ps, 1, q) /\ k = ps[q + 1]
  BY <1>1, FirstKeys
<1>3. SubSeq(ps, 1, q + 1) = Append(s, k)
  BY <1>1, <1>2, FirstKeys
<1>4. Edited(Append(s, k)) = Typed(Edited(s), k)
  BY EditedMore
<1> QED BY <1>2, <1>3, <1>4

(* The text in the buffer after a key that is a letter, a backspace in a   *)
(* line that is not empty, or no character *)
LEMMA LetterHeld ==
  ASSUME NEW ps \in Seq(Key), NEW q \in Nat, q + 1 \in 1 .. Len(ps),
         NEW m, NEW e, NEW i \in Nat, Holds(ps, q, m, i),
         ps[q + 1].byte \in Letter, e[i] = ps[q + 1].byte, \A j \in 1 .. i : e[j - 1] = m[j - 1]
  PROVE  Holds(ps, q + 1, e, i + 1)
<1>1. PICK t : t = Edited(SubSeq(ps, 1, q)) /\ t \in Seq(Letter) /\ Len(t) = i /\ \A j \in 1 .. i : m[j - 1] = t[j]
  BY DEF Holds
<1>2. PICK c \in Letter : c = ps[q + 1].byte
  OBVIOUS
<1>3. PICK r : r = Append(t, c)
  OBVIOUS
<1>4. r \in Seq(Letter) /\ Len(r) = i + 1 /\ r[i + 1] = c /\ \A j \in 1 .. i : r[j] = t[j]
  BY <1>1, <1>3, AppendIs
<1>5. Edited(SubSeq(ps, 1, q + 1)) = r
  <2>1. PICK k : k = ps[q + 1]
    OBVIOUS
  <2>2. Typed(t, k) = Append(t, k.byte)
    BY <1>2, <2>1, LinesAssumption DEF Typed
  <2>3. Typed(t, ps[q + 1]) = r
    BY <1>2, <1>3, <2>1, <2>2
  <2> QED BY <1>1, <2>3, TextGrows
<1>6. ASSUME NEW j \in 1 .. i + 1 PROVE e[j - 1] = r[j]
  <2>1. CASE j = i + 1
    <3>1. j - 1 = i
      BY <2>1
    <3> QED BY <1>2, <1>4, <2>1, <3>1
  <2>2. CASE j # i + 1
    <3>1. j \in 1 .. i
      BY <2>2
    <3> QED BY <1>1, <1>4, <3>1
  <2> QED BY <2>1, <2>2
<1> QED BY <1>4, <1>5, <1>6 DEF Holds

LEMMA BackHeld ==
  ASSUME NEW ps \in Seq(Key), NEW q \in Nat, q + 1 \in 1 .. Len(ps),
         NEW m, NEW e, NEW i \in Nat, i > 0, Holds(ps, q, m, i),
         ps[q + 1].byte = "bs", \A j \in 1 .. i - 1 : e[j - 1] = m[j - 1]
  PROVE  Holds(ps, q + 1, e, i - 1)
<1>1. PICK t : t = Edited(SubSeq(ps, 1, q)) /\ t \in Seq(Letter) /\ Len(t) = i /\ \A j \in 1 .. i : m[j - 1] = t[j]
  BY DEF Holds
<1>2. PICK l \in Nat : l = i - 1 /\ l < i
  <2>1. i - 1 \in Nat /\ i - 1 < i
    OBVIOUS
  <2> QED BY <2>1
<1>3. PICK r : r = SubSeq(t, 1, l)
  OBVIOUS
<1>4. r \in Seq(Letter) /\ Len(r) = l /\ \A j \in 1 .. l : r[j] = t[j]
  BY <1>1, <1>2, <1>3
<1>5. Edited(SubSeq(ps, 1, q + 1)) = r
  BY <1>1, <1>2, <1>3, TextGrows, LinesAssumption DEF Typed
<1>6. ASSUME NEW j \in 1 .. l PROVE e[j - 1] = r[j]
  <2>1. j \in 1 .. i - 1 /\ j \in 1 .. i
    BY <1>2
  <2> QED BY <1>1, <1>4, <2>1
<1> QED BY <1>2, <1>4, <1>5, <1>6 DEF Holds

LEMMA OtherHeld ==
  ASSUME NEW ps \in Seq(Key), NEW q \in Nat, q + 1 \in 1 .. Len(ps),
         NEW m, NEW e, NEW i \in Nat, Holds(ps, q, m, i),
         ps[q + 1].byte \in {"nl", "nul"}, \A j \in 1 .. i : e[j - 1] = m[j - 1]
  PROVE  Holds(ps, q + 1, e, i)
<1>1. Edited(SubSeq(ps, 1, q + 1)) = Edited(SubSeq(ps, 1, q))
  BY TextGrows, LinesAssumption DEF Typed
<1> QED BY <1>1 DEF Holds

LEMMA CharacterKeeps ==
  ASSUME LinesIInv, ReadCharacter
  PROVE  LinesIInv'
<1>1. /\ shell = "reading" /\ keys # <<>> /\ keys' = Tail(keys) /\ Head(keys) # "nul"
      /\ Edit(Head(keys)) /\ code' = code /\ dropped' = dropped
  BY DEF ReadCharacter, Getch
<1>2. PICK c : c = Head(keys) /\ c \in KeyByte /\ c # "nul" /\ c = keys[1] /\ Edit(c)
  BY <1>1 DEF LinesIInv, LinesTypes
<1>3. InGets /\ First = 1
  BY <1>1 DEF InGets, First
<1>4. PICK q \in Nat : q = Gone /\ q = LineMax - len /\ str <= q /\ q < LineMax /\ LineMax \in Nat
  BY <1>3, GoneIs DEF LinesIInv
<1>5. /\ str \in Nat /\ str < LineMax /\ mem \in Buffers
      /\ pressed \in Seq(Key) /\ keys \in Seq(KeyByte)
  BY <1>4 DEF LinesIInv, LinesTypes
<1>s. ASSUME NEW b \in Letter \cup {"nul"}
      PROVE  /\ Put(mem, str, b) \in Buffers /\ Put(mem, str, b)[str] = b
             /\ \A j \in 1 .. str : Put(mem, str, b)[j - 1] = mem[j - 1]
  <2>1. PICK i \in Nat : i = str /\ i < LineMax
    BY <1>5
  <2>2. PICK m \in Buffers : m = mem
    BY <1>5
  <2> QED BY <2>1, <2>2, Stored
<1>6. ASSUME ~dropped
      PROVE  /\ q + 1 \in 1 .. Len(pressed) /\ pressed[q + 1].byte = c
             /\ \E g : Laid(g, pressed, keys', code, q + 1, 1)
             /\ Holds(pressed, q, mem, str)
  <2>1. PICK f : Laid(f, pressed, keys, code, q, 1)
    BY <1>1, <1>3, <1>4, <1>6 DEF LinesIInv
  <2>2. q + 1 \in 1 .. Len(pressed) /\ keys[1] = pressed[q + 1].byte
    BY <1>1, <1>5, <2>1, LaidNext
  <2>3. 1 + Wide(pressed[q + 1]) = 2
    BY <1>2, <2>2 DEF Wide
  <2>4. PICK l \in Nat : l = q + 1
    OBVIOUS
  <2>5. \E g : Laid(g, pressed, Tail(keys), code, l, 1)
    BY <1>1, <1>5, <2>1, <2>3, <2>4, LaidRead
  <2>6. Holds(pressed, q, mem, str)
    BY <1>3, <1>4, <1>6 DEF LinesIInv
  <2> QED BY <1>1, <1>2, <2>2, <2>4, <2>5, <2>6
<1>7. CASE c = "nl"
  <2>1. PICK e : e = Put(mem, str, "nul")
    OBVIOUS
  <2>2. Finish(e, LineMax - len + 1)
    BY <1>2, <1>7, <2>1 DEF Edit, Put
  <2>3. Finish(e, q + 1)
    BY <1>4, <2>2
  <2>4. /\ e \in Buffers /\ e[str] = "nul"
        /\ \A j \in 1 .. str : e[j - 1] = mem[j - 1]
    BY <1>s, <2>1
  <2>5. ~dropped => Holds(pressed, q + 1, e, str)
    BY <1>5, <1>6, <1>7, <2>4, OtherHeld
  <2>6. str \in 0 .. LineMax /\ str <= q + 1
    BY <1>4, <1>5
  <2> QED BY <1>1, <1>3, <1>4, <1>6, <2>3, <2>4, <2>5, <2>6, TakenKeeps
<1>8. CASE c = "bs" /\ str = 0
  <2>1. shell' = "astray" /\ UNCHANGED <<mem, str, len, meant, pressed>>
    BY <1>2, <1>8 DEF Edit
  <2>2. keys' \in Seq(KeyByte)
    BY <1>1, <1>5
  <2>3. LinesTypes'
    BY <1>1, <2>1, <2>2 DEF LinesIInv, LinesTypes, InGets, Doing
  <2> QED BY <2>1, <2>3 DEF LinesIInv, LineIsEdited, InGets
<1>9. CASE c = "bs" /\ str # 0
  <2>1. PICK d, e : d = Put(mem, str, "nul") /\ e = Put(d, str - 1, "nul")
    OBVIOUS
  <2>2. str > 0
    BY <1>5, <1>9
  <2>3. Continue(e, str - 1)
    <3>1. e = [mem EXCEPT ![str] = "nul", ![str - 1] = "nul"]
      BY <2>1 DEF Put
    <3> QED BY <1>2, <1>9, <2>2, <3>1 DEF Edit
  <2>4. /\ e \in Buffers
        /\ \A j \in 1 .. str - 1 : e[j - 1] = mem[j - 1]
    <3>1. /\ d \in Buffers
          /\ \A j \in 1 .. str : d[j - 1] = mem[j - 1]
      BY <1>s, <2>1
    <3>2. PICK l \in Nat : l = str - 1 /\ l < LineMax /\ \A j \in 1 .. l : j \in 1 .. str
      <4>1. str - 1 \in Nat /\ str - 1 < LineMax /\ \A j \in 1 .. str - 1 : j \in 1 .. str
        BY <1>4, <1>5, <2>2
      <4> QED BY <4>1
    <3>3. /\ e \in Buffers
          /\ \A j \in 1 .. l : e[j - 1] = d[j - 1]
      BY <2>1, <3>1, <3>2, Stored
    <3> QED BY <3>1, <3>2, <3>3
  <2>5. ~dropped => Holds(pressed, q + 1, e, str - 1) /\ pressed[q + 1].byte # "nl"
    BY <1>5, <1>6, <1>9, <2>2, <2>4, BackHeld
  <2>6. str - 1 \in 0 .. LineMax /\ str - 1 <= q + 1
    BY <1>4, <1>5, <2>2
  <2> QED BY <1>1, <1>3, <1>4, <1>6, <2>3, <2>4, <2>5, <2>6, TakenKeeps
<1>10. CASE c \notin {"nl", "bs"}
  <2>1. c \in Letter
    BY <1>2, <1>10 DEF KeyByte
  <2>2. PICK e : e = Put(mem, str, c)
    OBVIOUS
  <2>3. Continue(e, str + 1)
    BY <1>2, <1>10, <2>2 DEF Edit, Put
  <2>4. /\ e \in Buffers /\ e[str] = c
        /\ \A j \in 1 .. str : e[j - 1] = mem[j - 1]
    BY <1>s, <2>1, <2>2
  <2>5. ~dropped => Holds(pressed, q + 1, e, str + 1) /\ pressed[q + 1].byte # "nl"
    BY <1>5, <1>6, <1>10, <2>1, <2>4, LetterHeld
  <2>6. str + 1 \in 0 .. LineMax /\ str + 1 <= q + 1
    BY <1>4, <1>5
  <2> QED BY <1>1, <1>3, <1>4, <1>6, <2>3, <2>4, <2>5, <2>6, TakenKeeps
<1> QED BY <1>7, <1>8, <1>9, <1>10

LEMMA ZeroKeeps ==
  ASSUME LinesIInv, ReadZero
  PROVE  LinesIInv'
<1>1. /\ shell = "reading" /\ keys # <<>> /\ keys' = Tail(keys) /\ Head(keys) = "nul" /\ shell' = "control"
      /\ UNCHANGED <<code, mem, str, len, pressed, meant, dropped>>
  BY DEF ReadZero, Getch
<1>2. InGets /\ InGets' /\ First = 1 /\ First' = 0 /\ Gone' = Gone
  BY <1>1 DEF InGets, First, Gone
<1>3. PICK q \in Nat : q = Gone
  BY GoneIs DEF LinesIInv
<1>4. pressed \in Seq(Key) /\ keys \in Seq(KeyByte) /\ keys[1] = "nul"
  BY <1>1 DEF LinesIInv, LinesTypes
<1>5. LinesTypes'
  <2>1. keys' \in Seq(KeyByte)
    BY <1>1, <1>4
  <2> QED BY <1>1, <1>2, <2>1 DEF LinesIInv, LinesTypes, Doing
<1>6. ASSUME ~dropped
      PROVE  /\ q + 1 \in 1 .. Len(pressed) /\ pressed[q + 1].byte = "nul"
             /\ \E g : Laid(g, pressed, keys', code', q, 0)
             /\ q <= Len(pressed) /\ Holds(pressed, q, mem, str)
  <2>1. PICK f : Laid(f, pressed, keys, code, q, 1)
    BY <1>1, <1>2, <1>3, <1>6 DEF LinesIInv
  <2>2. q + 1 \in 1 .. Len(pressed) /\ keys[1] = pressed[q + 1].byte
    BY <1>1, <1>4, <2>1, LaidNext
  <2>3. \E g : Laid(g, pressed, Tail(keys), code, q, 0)
    BY <1>1, <1>4, <2>1, LaidRead
  <2>4. q <= Len(pressed) /\ Holds(pressed, q, mem, str)
    BY <1>2, <1>3, <1>6 DEF LinesIInv
  <2> QED BY <1>1, <1>4, <2>2, <2>3, <2>4
<1>7. q + 1 \in 1 .. Len(pressed) => q < Len(pressed)
  BY <1>4
<1>8. LineIsEdited'
  BY <1>1 DEF LineIsEdited
<1> QED BY <1>1, <1>2, <1>3, <1>5, <1>6, <1>7, <1>8 DEF LinesIInv

LEMMA SecondKeeps ==
  ASSUME LinesIInv, ReadCode
  PROVE  LinesIInv'
<1>1. /\ shell = "control" /\ keys # <<>> /\ keys' = Tail(keys) /\ code' = code /\ dropped' = dropped
      /\ Continue([mem EXCEPT ![str] = "nul"], str)
  BY DEF ReadCode, Getch
<1>2. InGets /\ First = 0
  BY <1>1 DEF InGets, First
<1>3. PICK q \in Nat : q = Gone /\ str <= q /\ q < LineMax /\ LineMax \in Nat
  BY <1>2, GoneIs DEF LinesIInv
<1>4. /\ str \in Nat /\ str < LineMax /\ mem \in Buffers
      /\ pressed \in Seq(Key) /\ keys \in Seq(KeyByte)
  BY <1>3 DEF LinesIInv, LinesTypes
<1>5. PICK e : e = Put(mem, str, "nul")
  OBVIOUS
<1>s. ASSUME NEW c \in Letter \cup {"nul"}
      PROVE  /\ Put(mem, str, c) \in Buffers /\ Put(mem, str, c)[str] = c
             /\ \A j \in 1 .. str : Put(mem, str, c)[j - 1] = mem[j - 1]
  <2>1. PICK i \in Nat : i = str /\ i < LineMax
    BY <1>4
  <2>2. PICK m \in Buffers : m = mem
    BY <1>4
  <2> QED BY <2>1, <2>2, Stored
<1>6. e \in Buffers /\ \A j \in 1 .. str : e[j - 1] = mem[j - 1]
  BY <1>5, <1>s
<1>7. ASSUME ~dropped
      PROVE  /\ q + 1 \in 1 .. Len(pressed) /\ Holds(pressed, q + 1, e, str)
             /\ \E g : Laid(g, pressed, keys', code, q + 1, 1) /\ pressed[q + 1].byte # "nl"
  <2>1. PICK f : Laid(f, pressed, keys, code, q, 0)
    BY <1>1, <1>2, <1>3, <1>7 DEF LinesIInv
  <2>2. q + 1 \in 1 .. Len(pressed)
    BY <1>1, <1>4, <2>1, LaidNext
  <2>3. pressed[q + 1].byte = "nul" /\ Holds(pressed, q, mem, str)
    BY <1>1, <1>2, <1>3, <1>7 DEF LinesIInv
  <2>4. 0 + Wide(pressed[q + 1]) = 2
    BY <2>3 DEF Wide
  <2>5. PICK l \in Nat : l = q + 1
    OBVIOUS
  <2>6. \E g : Laid(g, pressed, Tail(keys), code, l, 1)
    BY <1>1, <1>4, <2>1, <2>4, <2>5, LaidRead
  <2>7. Holds(pressed, q + 1, e, str)
    BY <1>4, <1>6, <2>2, <2>3, OtherHeld
  <2> QED BY <1>1, <2>2, <2>3, <2>5, <2>6, <2>7
<1>8. str \in 0 .. LineMax /\ str <= q + 1
  BY <1>3, <1>4
<1>9. Continue(e, str)
  BY <1>1, <1>5 DEF Put
<1> QED BY <1>1, <1>2, <1>3, <1>6, <1>7, <1>8, <1>9, TakenKeeps

LEMMA LinesKeep == LinesIInv /\ [LinesNext]_lineVars => LinesIInv'
<1> SUFFICES ASSUME LinesIInv, [LinesNext]_lineVars PROVE LinesIInv'
  OBVIOUS
<1>1. CASE UNCHANGED lineVars
  BY <1>1 DEF lineVars, LinesIInv, LinesTypes, InGets, Gone, First, LineIsEdited, LineText
<1>2. ASSUME NEW k \in Key, TakeKey(k) PROVE LinesIInv'
  BY <1>2, KeyKeeps
<1> QED BY <1>1, <1>2, CodeKeeps, NextLineKeeps, CharacterKeeps, ZeroKeeps, SecondKeeps DEF LinesNext

(* Whenever gets_s ends a line at a newline its buffer has the text the    *)
(* keys of the line come to, until a full pipe drops a byte: for a buffer  *)
(* and a pipe of any size and any number of keys typed ahead.              *)
THEOREM LinesAreEdited == LinesSpec => []LineIsEdited
<1>1. LinesIInv => LineIsEdited
  BY DEF LinesIInv, LineIsEdited
<1> QED BY <1>1, InitLines, LinesKeep, PTL DEF LinesSpec
=============================================================================
