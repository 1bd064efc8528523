--------------------------- MODULE ClusterProofs ---------------------------
(***************************************************************************)
(* The clusters of a volume: the allocator (LcnAlloc) with the bitmap      *)
(* under it, proved for volumes, zones and buffers of any size, and the    *)
(* lists of the clusters of a file (RunList), for lists of any length.     *)
(*                                                                         *)
(* First ntfs_bitmap_set_bits_in_run: whatever the alignment of a run and  *)
(* the number of windows, each window leaves the bits around the run as    *)
(* they are and sets the ones inside.  Then the allocator: what is marked  *)
(* in the bitmap is what files, the file system and the call in progress   *)
(* hold, each cluster once.  Then its search of the zones: it ends, and    *)
(* leaves nothing out.  Last the runlists: truncating and merging.         *)
(***************************************************************************)
EXTENDS LcnAlloc, FiniteSetTheorems, TLAPS

-----------------------------------------------------------------------------
(* Arithmetic of bits and bytes.                                           *)

\* What division leaves.
LEMMA DivMod ==
  ASSUME NEW x \in Int, NEW b \in Nat \ {0}
  PROVE  /\ x \div b \in Int /\ x % b \in 0 .. b - 1
         /\ x = ((x \div b) * b) + (x % b)
  OBVIOUS

\* Quotient and remainder are what they should be.
LEMMA DivModIs ==
  ASSUME NEW x \in Int, NEW b \in Nat \ {0}, NEW q \in Int, NEW r \in 0 .. b - 1,
         x = (q * b) + r
  PROVE  x \div b = q /\ x % b = r
  OBVIOUS

\* Whole bytes add up, and are ordered as their numbers are.
LEMMA Bytes2Bits ==
  ASSUME NEW p \in Int, NEW q \in Int, NEW b \in Nat \ {0}
  PROVE  /\ p * b \in Int
         /\ (p + q) * b = (p * b) + (q * b)
         /\ (p - q) * b = (p * b) - (q * b)
         /\ p <= q => p * b <= q * b
         /\ p < q => (p * b) + b <= q * b
  OBVIOUS

\* The smaller and the larger of two numbers.
LEMMA MinMaxOfTwo ==
  \A x, y \in Int : /\ Min({x, y}) = IF x <= y THEN x ELSE y
                    /\ B!Min({x, y}) = IF x <= y THEN x ELSE y
                    /\ Max({x, y}) = IF x <= y THEN y ELSE x
  BY DEF Min, B!Min, Max

\* The bytes that n bits need.
LEMMA BytesOfIs ==
  ASSUME NEW n \in Int, NEW c \in Int, NEW m \in 0 .. ByteBits - 1, n = (c * ByteBits) + m
  PROVE  B!BytesOf(n) = IF m = 0 THEN c ELSE c + 1
<1>1. ByteBits \in Nat \ {0}
  BY LcnAllocAssumption
<1>2. CASE m = 0
  <2>1. n + ByteBits - 1 = (c * ByteBits) + (ByteBits - 1)
    BY <1>1, <1>2, Bytes2Bits
  <2>2. QED
    BY <1>1, <1>2, <2>1, DivModIs DEF B!BytesOf
<1>3. CASE m # 0
  <2>1. n + ByteBits - 1 = ((c + 1) * ByteBits) + (m - 1)
    BY <1>1, Bytes2Bits
  <2>2. (n + ByteBits - 1) \div ByteBits = c + 1
    BY <1>1, <1>3, <2>1, DivModIs
  <2>3. QED
    BY <1>3, <2>2 DEF B!BytesOf
<1>4. QED
  BY <1>2, <1>3

-----------------------------------------------------------------------------
(* ntfs_bitmap_set_bits_in_run.                                            *)

WindowCall ==
    [pc : {"window"}, run : SUBSET Int, value : BOOLEAN, before : [B!BitSet -> BOOLEAN],
     start : Nat, count : Int, firstbyte : {0, 1}, bit : Int, bufsize : 1 .. BufCap,
     buf : [B!BufBits -> BOOLEAN]]
EndedCall ==
    [pc : {"ok", "error"}, run : SUBSET Int, value : BOOLEAN, before : [B!BitSet -> BOOLEAN]]

\* Where the first byte of the buffer belongs in the bitmap.
BufferStart == loc.start - (loc.firstbyte * ByteBits)

\* Between two windows of a call for the bits from first to end - 1: the windows so
\* far have set what is before the buffer, the rest of the run is counted from
\* start, the buffer holds the value and the bits before the run in a partial first
\* byte, and it does not reach behind the byte in which the run ends.
WindowInv(first, end) ==
    /\ loc \in WindowCall
    /\ \E q \in Nat : loc.start = q * ByteBits
    /\ loc.firstbyte = 0 =>
          first <= loc.start /\ loc.start < end /\ loc.count = end - loc.start
    /\ loc.firstbyte = 1 =>
          /\ loc.start - ByteBits < first /\ first < loc.start
          /\ loc.count = IF end >= loc.start THEN end - loc.start ELSE -1
    /\ \A k \in first .. end - 1 : k < BufferStart => disk[k] = loc.value
    /\ \A i \in B!BufBits :
          loc.buf[i] = IF i < loc.firstbyte * ByteBits /\ BufferStart + i \notin loc.run
                       THEN disk[BufferStart + i] ELSE loc.value
    /\ loc.count > 0 => loc.bit = loc.count % ByteBits
    /\ loc.bufsize <= loc.firstbyte + (IF loc.count > 0 THEN B!BytesOf(loc.count) ELSE 0)

\* A call for the bits from first to end - 1, in progress or ended.
CallInv(first, end) ==
    /\ loc \in WindowCall \cup EndedCall
    /\ loc.run = first .. end - 1
    /\ \A k \in B!BitSet \ loc.run : disk[k] = loc.before[k]
    /\ loc.pc = "ok" => \A k \in loc.run : disk[k] = loc.value
    /\ loc.pc = "window" => WindowInv(first, end)

\* The constants that count bits and bytes.
LEMMA Sizes ==
    /\ ByteBits \in Nat \ {0} /\ BufCap \in Nat \ {0} /\ BmpBytes \in Nat
    /\ B!BitSet = 0 .. (BmpBytes * ByteBits) - 1
    /\ BmpBits = BmpBytes * ByteBits /\ BmpBits \in Nat
    /\ B!BufBits = 0 .. (BufCap * ByteBits) - 1
    /\ BufCap * ByteBits \in Nat
<1>1. ByteBits \in Nat \ {0} /\ BufCap \in Nat \ {0} /\ BmpBytes \in Nat
  BY LcnAllocAssumption
<1>2. BmpBytes * ByteBits \in Nat /\ BufCap * ByteBits \in Nat
  BY <1>1
<1>3. QED
  BY <1>1, <1>2 DEF B!BitSet, B!BufBits, BmpBits

\* The buffer that a window writes.
Buffer == IF B!HasLast THEN B!WithLast ELSE loc.buf

\* The numbers of a call between two windows: the buffer starts at a byte, and it ends
\* in the byte in which the run ends or before it.
LEMMA WindowFacts ==
  ASSUME NEW first \in Nat, NEW end \in Nat, first < end,
         CallInv(first, end), loc.pc = "window"
  PROVE  /\ loc \in WindowCall /\ loc.run = first .. end - 1
         /\ first <= loc.start
         /\ loc.count <= 0 => loc.firstbyte = 1 /\ loc.bufsize = 1 /\ end <= loc.start
         /\ loc.count > 0 => end = loc.start + loc.count
         /\ \E q \in Nat, c \in Int, m \in 0 .. ByteBits - 1 :
               /\ loc.start = q * ByteBits
               /\ BufferStart = (q - loc.firstbyte) * ByteBits
               /\ loc.count = (c * ByteBits) + m
               /\ B!HasLast => /\ loc.count > 0 /\ m > 0 /\ loc.bit = m
                               /\ B!lastbyte_pos = c + 1 + loc.firstbyte
                               /\ loc.bufsize = c + 1 + loc.firstbyte
               /\ ~B!HasLast /\ loc.count > 0 =>
                     loc.bufsize - loc.firstbyte <= c /\ loc.bit = m
<1> DEFINE S == loc.start
           fb == loc.firstbyte
           n == loc.count
<1>1. /\ loc \in WindowCall /\ loc.run = first .. end - 1
      /\ WindowInv(first, end)
  <2>1. WindowInv(first, end)
    BY DEF CallInv
  <2>2. QED
    BY <2>1 DEF CallInv, WindowInv
<1>2. /\ ByteBits \in Nat \ {0} /\ BufCap \in Nat \ {0}
      /\ S \in Nat /\ n \in Int /\ fb \in {0, 1} /\ loc.bufsize \in 1 .. BufCap
  BY <1>1, Sizes DEF WindowCall
<1>3. PICK q \in Nat : S = q * ByteBits
  BY <1>1 DEF WindowInv
<1>4. BufferStart = (q - fb) * ByteBits
  BY <1>2, <1>3, Bytes2Bits DEF BufferStart
<1>5. /\ first <= S
      /\ n > 0 => end = S + n /\ loc.bit = n % ByteBits
      /\ n <= 0 => fb = 1 /\ end <= S
  <2>1. n > 0 => loc.bit = n % ByteBits
    BY <1>1 DEF WindowInv
  <2>2. CASE fb = 0
    <3>1. first <= S /\ n = end - S /\ S < end
      BY <1>1, <2>2 DEF WindowInv
    <3>2. QED
      BY <1>2, <2>1, <3>1
  <2>3. CASE fb = 1
    <3>1. first < S /\ n = IF end >= S THEN end - S ELSE -1
      BY <1>1, <2>3 DEF WindowInv
    <3>2. QED
      BY <1>2, <2>1, <2>3, <3>1
  <2>4. QED
    BY <1>2, <2>2, <2>3
<1>6. PICK c \in Int, m \in 0 .. ByteBits - 1 :
          n = (c * ByteBits) + m /\ (n > 0 => loc.bit = m)
  BY <1>2, <1>5, DivMod
<1>7. B!BytesOf(n) = IF m = 0 THEN c ELSE c + 1
  BY <1>2, <1>6, BytesOfIs
<1>8. /\ n > 0 => loc.bufsize <= fb + (IF m = 0 THEN c ELSE c + 1)
      /\ n <= 0 => loc.bufsize = 1
  <2>1. loc.bufsize <= fb + (IF n > 0 THEN B!BytesOf(n) ELSE 0)
    BY <1>1 DEF WindowInv
  <2>2. QED
    BY <1>2, <1>7, <2>1
<1>9. B!lastbyte_pos = (IF m = 0 THEN c ELSE c + 1) + fb
  BY <1>7 DEF B!lastbyte_pos
<1>10. B!HasLast => /\ n > 0 /\ m > 0 /\ loc.bit = m
                    /\ B!lastbyte_pos = c + 1 + fb
                    /\ loc.bufsize = c + 1 + fb
  BY <1>2, <1>6, <1>8, <1>9 DEF B!HasLast
<1>11. ~B!HasLast /\ n > 0 => loc.bufsize - fb <= c /\ loc.bit = m
  BY <1>2, <1>6, <1>8, <1>9 DEF B!HasLast
<1>12. QED
  BY <1>1, <1>3, <1>4, <1>5, <1>6, <1>8, <1>10, <1>11

\* Byte by byte the buffer has the value inside the run, and outside what the
\* bitmap has already.
LEMMA BufferRight ==
  ASSUME NEW first \in Nat, NEW end \in Nat, first < end,
         CallInv(first, end), loc.pc = "window",
         NEW k \in B!BitSet, BufferStart <= k, k < BufferStart + (loc.bufsize * ByteBits)
  PROVE  Buffer[k - BufferStart] = IF k \in loc.run THEN loc.value ELSE disk[k]
<1> DEFINE S == loc.start
           fb == loc.firstbyte
           n == loc.count
           i == k - BufferStart
<1>1. /\ loc \in WindowCall /\ loc.run = first .. end - 1 /\ first <= S
      /\ n <= 0 => fb = 1 /\ loc.bufsize = 1
      /\ n > 0 => end = S + n
  BY WindowFacts
<1>2. /\ ByteBits \in Nat \ {0} /\ BufCap \in Nat \ {0} /\ k \in Int
      /\ S \in Nat /\ n \in Int /\ fb \in {0, 1} /\ loc.bufsize \in 1 .. BufCap
  BY <1>1, Sizes DEF WindowCall
<1>3. PICK q \in Nat, c \in Int, m \in 0 .. ByteBits - 1 :
         /\ S = q * ByteBits
         /\ BufferStart = (q - fb) * ByteBits
         /\ n = (c * ByteBits) + m
         /\ B!HasLast => /\ n > 0 /\ m > 0 /\ loc.bit = m
                         /\ B!lastbyte_pos = c + 1 + fb /\ loc.bufsize = c + 1 + fb
         /\ ~B!HasLast /\ n > 0 => loc.bufsize - fb <= c
  BY WindowFacts
<1>4. BufferStart = S - (fb * ByteBits) /\ BufferStart \in Int
  BY <1>2 DEF BufferStart
<1>5. i \in B!BufBits
  <2>1. loc.bufsize * ByteBits <= BufCap * ByteBits
    BY <1>2, Bytes2Bits
  <2>2. loc.bufsize * ByteBits \in Int
    BY <1>2
  <2>3. i \in Int /\ 0 <= i /\ i < loc.bufsize * ByteBits
    BY <1>2, <1>4, <2>2
  <2>4. QED
    BY <2>1, <2>2, <2>3, Sizes
<1>6. loc.buf[i] = IF i < fb * ByteBits /\ BufferStart + i \notin loc.run
                   THEN disk[BufferStart + i] ELSE loc.value
  BY <1>5 DEF CallInv, WindowInv
<1>7. BufferStart + i = k /\ (i < fb * ByteBits <=> k < S)
  BY <1>2, <1>4
<1>8. loc.buf[i] = IF k < S /\ k \notin loc.run THEN disk[k] ELSE loc.value
  BY <1>6, <1>7
<1>9. k \in loc.run <=> first <= k /\ k < end
  BY <1>1, <1>2
<1>10. CASE B!HasLast
  <2>1. end = S + n /\ loc.bit = m
    BY <1>1, <1>3, <1>10
  <2>2. B!lastbyte_pos = c + 1 + fb /\ loc.bufsize = c + 1 + fb
    BY <1>3, <1>10
  <2> DEFINE at == (c + fb) * ByteBits
  <2>3. (B!lastbyte_pos - 1) * ByteBits = at /\ at \in Int
    BY <1>2, <2>2
  <2>4. BufferStart + at = (q + c) * ByteBits
    <3>1. (q - fb) + (c + fb) = q + c
      BY <1>2
    <3>2. QED
      BY <1>2, <1>3, <3>1, Bytes2Bits
  <2>5. end = ((q + c) * ByteBits) + m
    BY <1>2, <1>3, <2>1, Bytes2Bits
  <2>6. ((loc.start + loc.count) \div ByteBits) * ByteBits = (q + c) * ByteBits
    <3>1. loc.start + loc.count = ((q + c) * ByteBits) + m
      BY <2>1, <2>5
    <3>2. loc.start + loc.count \in Int /\ q + c \in Int
      BY <1>2
    <3>3. (loc.start + loc.count) \div ByteBits = q + c
      BY <1>2, <3>1, <3>2, DivModIs
    <3>4. QED
      BY <3>3
  <2>7. i < at + ByteBits
    <3>1. loc.bufsize * ByteBits = at + ByteBits
      <4>1. loc.bufsize = (c + fb) + 1 /\ c + fb \in Int
        BY <1>2, <2>2
      <4>2. QED
        BY <1>2, <4>1, Bytes2Bits
    <3>2. QED
      BY <1>2, <1>4, <2>3, <3>1
  <2>8. i \in at + loc.bit .. at + ByteBits - 1 <=> k >= end
    BY <1>2, <1>4, <2>1, <2>3, <2>4, <2>5, <2>7
  <2>9. (q + c) * ByteBits + i - at = k
    BY <1>2, <1>4, <2>3, <2>4
  <2>10. B!WithLast[i] = IF i \in at + loc.bit .. at + ByteBits - 1
                         THEN disk[(q + c) * ByteBits + i - at] ELSE loc.buf[i]
    BY <1>5, <2>3, <2>6 DEF B!WithLast
  <2>11. Buffer[i] = IF k >= end THEN disk[k] ELSE loc.buf[i]
    BY <1>10, <2>8, <2>9, <2>10 DEF Buffer
  <2>12. QED
    BY <1>1, <1>2, <1>8, <1>9, <2>11
<1>11. CASE ~B!HasLast
  <2>1. Buffer[i] = loc.buf[i]
    BY <1>11 DEF Buffer
  <2>2. ASSUME k >= S PROVE k < end
    <3>1. k < S + ((loc.bufsize - fb) * ByteBits)
      BY <1>2, <1>4, Bytes2Bits
    <3>2. n > 0
      <4>1. SUFFICES ASSUME n <= 0 PROVE FALSE
        BY <1>2
      <4>2. loc.bufsize <= fb
        BY <1>1, <4>1
      <4>3. (loc.bufsize - fb) * ByteBits <= 0 * ByteBits
        BY <1>2, <4>2, Bytes2Bits
      <4>4. QED
        BY <1>2, <2>2, <3>1, <4>3
    <3>3. loc.bufsize - fb <= c
      BY <1>3, <1>11, <3>2
    <3>4. (loc.bufsize - fb) * ByteBits <= c * ByteBits
      BY <1>2, <3>3, Bytes2Bits
    <3>5. QED
      <4>1. end = S + (c * ByteBits) + m
        BY <1>1, <1>2, <1>3, <3>2
      <4>2. c * ByteBits \in Int /\ (loc.bufsize - fb) * ByteBits \in Int
        BY <1>2
      <4>3. QED
        BY <1>2, <3>1, <3>4, <4>1, <4>2
  <2>3. QED
    BY <1>1, <1>2, <1>8, <1>9, <2>1, <2>2
<1>12. QED
  BY <1>10, <1>11

\* Writing the first n bytes of the buffer gives the value to the bits of the run in
\* them and changes nothing else.
LEMMA WrittenRight ==
  ASSUME NEW first \in Nat, NEW end \in Nat, first < end,
         CallInv(first, end), loc.pc = "window", disk \in [B!BitSet -> BOOLEAN],
         NEW n \in Nat, n <= loc.bufsize
  PROVE  /\ B!Written(Buffer, n) \in [B!BitSet -> BOOLEAN]
         /\ \A k \in B!BitSet :
               B!Written(Buffer, n)[k] =
                  IF k \in loc.run /\ BufferStart <= k /\ k < BufferStart + (n * ByteBits)
                  THEN loc.value ELSE disk[k]
<1>1. PICK q \in Nat : loc.start = q * ByteBits
                       /\ BufferStart = (q - loc.firstbyte) * ByteBits
  BY WindowFacts
<1>2. loc \in WindowCall
  BY WindowFacts
<1>3. /\ ByteBits \in Nat \ {0} /\ loc.firstbyte \in {0, 1} /\ loc.bufsize \in Nat
      /\ BufferStart \in Int /\ loc.value \in BOOLEAN
  BY <1>1, <1>2, Sizes DEF WindowCall
<1>4. ((loc.start \div ByteBits) - loc.firstbyte) * ByteBits = BufferStart
  <2>1. loc.start = (q * ByteBits) + 0 /\ 0 \in 0 .. ByteBits - 1 /\ loc.start \in Int
    BY <1>1, <1>3
  <2>2. loc.start \div ByteBits = q
    BY <1>3, <2>1, DivModIs
  <2>3. QED
    BY <1>1, <2>2
<1>5. B!Written(Buffer, n) =
        [k \in B!BitSet |-> IF k \in BufferStart .. BufferStart + n * ByteBits - 1
                            THEN Buffer[k - BufferStart] ELSE disk[k]]
  BY <1>4 DEF B!Written
<1>6. ASSUME NEW k \in B!BitSet
      PROVE  B!Written(Buffer, n)[k] =
                  IF k \in loc.run /\ BufferStart <= k /\ k < BufferStart + (n * ByteBits)
                  THEN loc.value ELSE disk[k]
  <2>1. n * ByteBits <= loc.bufsize * ByteBits /\ n * ByteBits \in Int
        /\ loc.bufsize * ByteBits \in Int /\ k \in Int
    BY <1>3, Bytes2Bits, Sizes
  <2>2. CASE BufferStart <= k /\ k < BufferStart + (n * ByteBits)
    <3>1. Buffer[k - BufferStart] = IF k \in loc.run THEN loc.value ELSE disk[k]
      <4>1. k < BufferStart + (loc.bufsize * ByteBits)
        BY <1>3, <2>1, <2>2
      <4>2. QED
        BY <2>2, <4>1, BufferRight
    <3>2. k \in BufferStart .. BufferStart + n * ByteBits - 1
      BY <1>3, <2>1, <2>2
    <3>3. QED
      BY <1>5, <2>2, <3>1, <3>2
  <2>3. CASE ~(BufferStart <= k /\ k < BufferStart + (n * ByteBits))
    <3>1. k \notin BufferStart .. BufferStart + n * ByteBits - 1
      BY <1>3, <2>1, <2>3
    <3>2. QED
      BY <1>5, <2>3, <3>1
  <2>4. QED
    BY <2>2, <2>3
<1>7. B!Written(Buffer, n) = [k \in B!BitSet |-> B!Written(Buffer, n)[k]]
  BY <1>5
<1>8. \A k \in B!BitSet : B!Written(Buffer, n)[k] \in BOOLEAN
  BY <1>3, <1>6
<1>9. QED
  BY <1>6, <1>7, <1>8

\* A read or write that fails leaves a call that has ended, with bits of the run
\* changed and no other ones.
LEMMA WindowFailsStep ==
  ASSUME NEW first \in Nat, NEW end \in Nat, first < end,
         CallInv(first, end), disk \in [B!BitSet -> BOOLEAN], B!WindowFails
  PROVE  CallInv(first, end)' /\ disk' \in [B!BitSet -> BOOLEAN] /\ loc'.pc = "error"
<1>1. loc.pc = "window" /\ loc \in WindowCall /\ loc.run = first .. end - 1
  BY WindowFacts DEF B!WindowFails
<1>2. loc' = B!Ended("error")
  BY DEF B!WindowFails
<1>3. loc' \in EndedCall /\ loc'.pc = "error" /\ loc'.run = loc.run /\ loc'.before = loc.before
  BY <1>1, <1>2 DEF B!Ended, WindowCall, EndedCall
<1>4. \/ disk' = disk
      \/ \E n \in 0 .. loc.bufsize - 1 : disk' = B!Written(Buffer, n)
  BY DEF B!WindowFails, Buffer
<1>5. disk' \in [B!BitSet -> BOOLEAN] /\ \A k \in B!BitSet \ loc.run : disk'[k] = disk[k]
  <2>1. CASE disk' = disk
    BY <2>1
  <2>2. ASSUME NEW n \in 0 .. loc.bufsize - 1, disk' = B!Written(Buffer, n)
        PROVE  disk' \in [B!BitSet -> BOOLEAN] /\ \A k \in B!BitSet \ loc.run : disk'[k] = disk[k]
    <3>1. n \in Nat /\ n <= loc.bufsize
      BY <1>1 DEF WindowCall
    <3>2. QED
      BY <1>1, <2>2, <3>1, WrittenRight
  <2>3. QED
    BY <1>4, <2>1, <2>2
<1>6. \A k \in B!BitSet \ loc.run : disk[k] = loc.before[k]
  BY DEF CallInv
<1>7. QED
  BY <1>1, <1>3, <1>5, <1>6 DEF CallInv

\* A window sets its part of the run; the last one, and no other, ends the call.
LEMMA WindowStep ==
  ASSUME NEW first \in Nat, NEW end \in Nat, first < end, end <= BmpBits,
         CallInv(first, end), disk \in [B!BitSet -> BOOLEAN], B!Window
  PROVE  CallInv(first, end)' /\ disk' \in [B!BitSet -> BOOLEAN]
<1> DEFINE S == loc.start
           fb == loc.firstbyte
           n == loc.count
           size == loc.bufsize
           done == (size - fb) * ByteBits
<1>1. /\ loc.pc = "window" /\ loc \in WindowCall /\ loc.run = first .. end - 1 /\ first <= S
      /\ n <= 0 => fb = 1 /\ size = 1 /\ end <= S
      /\ n > 0 => end = S + n
  BY WindowFacts DEF B!Window
<1>2. /\ ByteBits \in Nat \ {0} /\ BufCap \in Nat \ {0} /\ loc.value \in BOOLEAN
      /\ S \in Nat /\ n \in Int /\ fb \in {0, 1} /\ size \in 1 .. BufCap
      /\ done \in Int /\ BufferStart \in Int
  BY <1>1, Sizes DEF WindowCall, BufferStart
<1>3. PICK q \in Nat, c \in Int, m \in 0 .. ByteBits - 1 :
         /\ S = q * ByteBits
         /\ BufferStart = (q - fb) * ByteBits
         /\ n = (c * ByteBits) + m
         /\ B!HasLast => n > 0 /\ m > 0 /\ loc.bit = m /\ size = c + 1 + fb
         /\ ~B!HasLast /\ n > 0 => size - fb <= c /\ loc.bit = m
  BY <1>1, WindowFacts
<1>4. BufferStart + (size * ByteBits) = S + done
  BY <1>2, Bytes2Bits DEF BufferStart
<1>5. disk' = B!Written(Buffer, size)
  BY DEF B!Window, Buffer
<1>6. /\ disk' \in [B!BitSet -> BOOLEAN]
      /\ \A k \in B!BitSet : disk'[k] = IF k \in loc.run /\ BufferStart <= k /\ k < S + done
                                        THEN loc.value ELSE disk[k]
  <2>1. size \in Nat /\ size <= loc.bufsize
    BY <1>2
  <2>2. /\ disk' \in [B!BitSet -> BOOLEAN]
        /\ \A k \in B!BitSet :
              disk'[k] = IF k \in loc.run /\ BufferStart <= k
                               /\ k < BufferStart + (size * ByteBits)
                         THEN loc.value ELSE disk[k]
    BY <1>1, <1>5, <2>1, WrittenRight
  <2>3. QED
    BY <1>4, <2>2
<1>7. /\ \A k \in B!BitSet \ loc.run : disk'[k] = loc.before[k]
      /\ \A k \in B!BitSet : k \in loc.run /\ k < S + done => disk'[k] = loc.value
  <2>1. \A k \in B!BitSet \ loc.run : disk[k] = loc.before[k]
    BY DEF CallInv
  <2>2. \A k \in loc.run : k < BufferStart => disk[k] = loc.value
    BY <1>1 DEF CallInv, WindowInv
  <2>3. \A k \in B!BitSet : k \in Int
    BY Sizes
  <2>4. QED
    BY <1>2, <1>6, <2>1, <2>2, <2>3
<1>8. ASSUME loc' = B!Ended("ok"), end <= S + done PROVE CallInv(first, end)'
  <2>1. /\ loc' \in EndedCall /\ loc'.pc = "ok" /\ loc'.run = loc.run
        /\ loc'.before = loc.before /\ loc'.value = loc.value
    BY <1>1, <1>8 DEF B!Ended, WindowCall, EndedCall
  <2>2. \A k \in loc.run : k \in B!BitSet /\ k < S + done
    <3>1. B!BitSet = 0 .. BmpBits - 1 /\ BmpBits \in Nat
      BY Sizes
    <3> HIDE DEF done
    <3>2. TAKE k \in loc.run
    <3>3. k \in Int /\ 0 <= k /\ k < end
      BY <1>1, <3>2
    <3>4. S + done \in Int
      BY <1>2
    <3>5. QED
      BY <1>8, <3>1, <3>3, <3>4
  <2>3. QED
    BY <1>1, <1>7, <2>1, <2>2 DEF CallInv
<1>9. CASE B!HasLast
  <2>0. n > 0 /\ m > 0 /\ loc.bit = m /\ size = c + 1 + fb
    BY <1>3, <1>9
  <2>1. n - (1 * loc.bit) - ((size - fb - 1) * ByteBits) = 0
    <3>1. size - fb - 1 = c
      BY <1>2, <2>0
    <3>2. QED
      BY <1>2, <1>3, <2>0, <3>1
  <2>2. loc' = B!Ended("ok")
    BY <1>9, <2>1 DEF B!Window
  <2>3. end <= S + done
    <3>1. done = (c + 1) * ByteBits
      <4>1. size - fb = c + 1
        BY <1>2, <2>0
      <4>2. QED
        BY <4>1
    <3>2. done = (c * ByteBits) + ByteBits
      BY <1>2, <3>1, Bytes2Bits
    <3> DEFINE whole == c * ByteBits
    <3>3. whole \in Int /\ n = whole + m /\ done = whole + ByteBits /\ end = S + n
      BY <1>1, <1>2, <1>3, <2>0, <3>2
    <3> HIDE DEF done, whole
    <3>4. QED
      BY <1>2, <3>3
  <2>4. QED
    BY <1>6, <1>8, <2>2, <2>3
<1>10. CASE ~B!HasLast
  <2> DEFINE left == n - done
  <2>1. n - (0 * loc.bit) - ((size - fb - 0) * ByteBits) = left /\ left \in Int
    <3>1. loc.bit \in Int
      BY <1>1 DEF WindowCall
    <3>2. 0 * loc.bit = 0 /\ size - fb - 0 = size - fb
      BY <1>2, <3>1
    <3>3. QED
      BY <1>2, <3>2
  <2>2. CASE left <= 0
    <3>1. loc' = B!Ended("ok")
      BY <1>10, <2>1, <2>2 DEF B!Window
    <3>2. end <= S + done
      <4>1. CASE n > 0
        BY <1>1, <1>2, <2>2, <4>1
      <4>2. CASE n <= 0
        <5>1. done = 0
          BY <1>1, <1>2, <4>2
        <5>2. QED
          BY <1>1, <1>2, <4>2, <5>1
      <4>3. QED
        BY <1>2, <4>1, <4>2
    <3>3. QED
      BY <1>6, <1>8, <3>1, <3>2
  <2>3. CASE left > 0
    <3>1. loc' = [loc EXCEPT !.buf = B!Refilled(loc.buf), !.firstbyte = 0, !.bit = loc.bit,
                             !.start = loc.start + done, !.count = left,
                             !.bufsize = B!Min({loc.bufsize, B!BytesOf(left)})]
      <4> DEFINE last == IF B!HasLast THEN 1 ELSE 0
                 D == (loc.bufsize - loc.firstbyte - last) * ByteBits
                 L == loc.count - (last * loc.bit) - D
      <4>1. loc' = IF last = 1 /\ L # 0 THEN B!Ended("bug")
                   ELSE IF L <= 0 THEN B!Ended("ok")
                   ELSE [loc EXCEPT !.buf = B!Refilled(Buffer), !.firstbyte = 0,
                                    !.bit = IF B!HasLast THEN 0 ELSE @,
                                    !.start = @ + D, !.count = L,
                                    !.bufsize = B!Min({@, B!BytesOf(L)})]
        BY Zenon DEF B!Window, Buffer
      <4>2. last = 0 /\ last # 1
        BY <1>10
      <4>3. D = done /\ L = left /\ ~(L <= 0)
        BY <1>2, <2>1, <2>3, <4>2
      <4>4. Buffer = loc.buf
        BY <1>10 DEF Buffer
      <4> HIDE DEF last, D, L, left, done
      <4>5. QED
        BY <1>10, <4>1, <4>2, <4>3, <4>4, Zenon
    <3>2. size - fb \in Nat /\ done >= 0
      <4>1. size - fb \in Nat
        BY <1>2
      <4>2. QED
        BY <1>2, <4>1, Bytes2Bits
    <3>3. n > 0 /\ size - fb <= c /\ loc.bit = m
      <4>1. n > 0
        BY <1>2, <2>3, <3>2
      <4>2. QED
        BY <1>3, <1>10, <4>1
    <3>4. left = ((c - (size - fb)) * ByteBits) + m
      BY <1>2, <1>3, Bytes2Bits
    <3>5. B!BytesOf(left) \in Nat \ {0} /\ left % ByteBits = m
      <4>1. c - (size - fb) \in Nat
        BY <1>2, <3>3
      <4>2. B!BytesOf(left) = IF m = 0 THEN c - (size - fb) ELSE c - (size - fb) + 1
        BY <2>1, <3>4, <4>1, BytesOfIs
      <4>3. m = 0 => c - (size - fb) # 0
        BY <1>2, <2>3, <3>4
      <4>4. left % ByteBits = m
        BY <1>2, <2>1, <3>4, <4>1, DivModIs
      <4>5. QED
        BY <4>1, <4>2, <4>3, <4>4
    <3>6. S + done = (q + (size - fb)) * ByteBits /\ S + done \in Nat
      BY <1>2, <1>3, <3>2, Bytes2Bits
    <3>7. B!Refilled(loc.buf) = [i \in B!BufBits |-> loc.value]
      <4>1. /\ loc.buf \in [B!BufBits -> BOOLEAN]
            /\ \A i \in B!BufBits : ~(i < fb * ByteBits) => loc.buf[i] = loc.value
        BY <1>1 DEF CallInv, WindowInv, WindowCall
      <4>2. CASE fb = 1
        <5>1. fb * ByteBits = ByteBits
          BY <1>2, <4>2
        <5>2. QED
          BY <4>1, <4>2, <5>1 DEF B!Refilled
      <4>3. CASE fb = 0
        <5>1. \A i \in B!BufBits : ~(i < fb * ByteBits)
          BY <1>2, <4>3, Sizes
        <5>2. loc.buf = [i \in B!BufBits |-> loc.value]
          BY <4>1, <5>1
        <5>3. QED
          BY <4>3, <5>2 DEF B!Refilled
      <4>4. QED
        BY <1>2, <4>2, <4>3
    <3>8. B!Min({loc.bufsize, B!BytesOf(left)}) \in 1 .. BufCap
          /\ B!Min({loc.bufsize, B!BytesOf(left)}) <= B!BytesOf(left)
      <4>1. \A y \in Nat \ {0} : /\ B!Min({loc.bufsize, y}) \in 1 .. BufCap
                                 /\ B!Min({loc.bufsize, y}) <= y
        <5>1. loc.bufsize \in Int
          BY <1>2
        <5>2. \A y \in Int : B!Min({loc.bufsize, y}) = IF loc.bufsize <= y THEN loc.bufsize ELSE y
          BY <5>1, MinMaxOfTwo
        <5>3. QED
          BY <1>2, <5>2
      <4>2. QED
        BY <3>5, <4>1
    <3>9. /\ loc' \in WindowCall /\ loc'.firstbyte = 0 /\ loc'.bit = m /\ loc'.start = S + done
          /\ loc'.count = left /\ loc'.buf = [i \in B!BufBits |-> loc.value]
          /\ loc'.bufsize <= B!BytesOf(left) /\ loc'.run = loc.run /\ loc'.value = loc.value
          /\ loc'.before = loc.before
      <4> HIDE DEF left, done
      <4>1. left \in Int /\ [i \in B!BufBits |-> loc.value] \in [B!BufBits -> BOOLEAN]
        BY <1>2, <2>1
      <4>2. QED
        <5> DEFINE size2 == B!Min({loc.bufsize, B!BytesOf(left)})
                   buf2 == [i \in B!BufBits |-> loc.value]
                   start2 == S + done
        <5>1. loc' = [loc EXCEPT !.buf = buf2, !.firstbyte = 0, !.bit = m,
                                 !.start = start2, !.count = left, !.bufsize = size2]
          BY <3>1, <3>3, <3>7
        <5>2. /\ buf2 \in [B!BufBits -> BOOLEAN] /\ start2 \in Nat /\ left \in Int /\ m \in Int
              /\ size2 \in 1 .. BufCap /\ size2 <= B!BytesOf(left)
          BY <3>6, <3>8, <4>1
        <5> HIDE DEF size2, buf2, start2
        <5>3. /\ loc' \in WindowCall /\ loc'.firstbyte = 0 /\ loc'.bit = m /\ loc'.start = start2
              /\ loc'.count = left /\ loc'.buf = buf2 /\ loc'.bufsize = size2
              /\ loc'.run = loc.run /\ loc'.value = loc.value /\ loc'.before = loc.before
          BY <1>1, <5>1, <5>2 DEF WindowCall
        <5>4. QED
          BY <5>2, <5>3 DEF size2, buf2, start2
    <3>10. BufferStart' = S + done
      BY <1>2, <3>6, <3>9 DEF BufferStart
    <3>11. left = end - (S + done) /\ left > 0 /\ first <= S + done
      <4>1. /\ S \in Int /\ n \in Int /\ done \in Int /\ end = S + n /\ first <= S /\ done >= 0
            /\ left = n - done
        BY <1>1, <1>2, <3>2, <3>3
      <4> HIDE DEF done, left
      <4>2. QED
        BY <2>3, <4>1
    <3>12. WindowInv(first, end)'
      <4> HIDE DEF left, done
      <4>1. \E p \in Nat : loc'.start = p * ByteBits
        <5>1. q + (size - fb) \in Nat
          BY <3>2
        <5>2. QED
          BY <3>6, <3>9, <5>1
      <4>2. first <= loc'.start /\ loc'.start < end /\ loc'.count = end - loc'.start
        BY <1>2, <2>1, <3>9, <3>11
      <4>3. \A k \in first .. end - 1 : k < BufferStart' => disk'[k] = loc'.value
        <5>1. \A k \in first .. end - 1 : k \in loc.run /\ k \in B!BitSet
          <6>1. B!BitSet = 0 .. BmpBits - 1 /\ BmpBits \in Nat
            BY Sizes
          <6>2. QED
            BY <1>1, <6>1
        <5>2. QED
          BY <1>7, <3>9, <3>10, <5>1
      <4>4. \A i \in B!BufBits : loc'.buf[i] = loc'.value /\ ~(i < 0 * ByteBits)
        BY <1>2, <3>9, Sizes
      <4>5. loc'.bit = loc'.count % ByteBits /\ loc'.count > 0
        BY <3>5, <3>9, <3>11
      <4>6. loc'.bufsize <= 0 + (IF loc'.count > 0 THEN B!BytesOf(loc'.count) ELSE 0)
        BY <3>5, <3>9, <3>11
      <4>7. B!BytesOf(loc.count)' = B!BytesOf(loc'.count)
        BY DEF B!BytesOf
      <4>8. QED
        BY <3>9, <4>1, <4>2, <4>3, <4>4, <4>5, <4>6, <4>7 DEF WindowInv
    <3>13. QED
      BY <1>1, <1>6, <1>7, <3>9, <3>12 DEF CallInv, WindowCall
  <2>4. QED
    BY <2>1, <2>2, <2>3
<1>11. QED
  BY <1>6, <1>9, <1>10

\* The call up to the loop: the first byte of the buffer keeps the bits before the
\* run, and those behind it when the run ends in the same byte.
LEMMA BeginStep ==
  ASSUME NEW first \in Nat, NEW number \in Nat \ {0}, NEW value \in BOOLEAN,
         first + number <= BmpBits, disk \in [B!BitSet -> BOOLEAN],
         B!Begin(first, number, value)
  PROVE  /\ CallInv(first, first + number)' /\ disk' = disk
         /\ loc'.pc = "window" /\ loc'.before = disk /\ loc'.value = value
<1> DEFINE lead == first % ByteBits
           part == IF lead = 0 THEN 0 ELSE 1
           inFirst == IF lead = 0 THEN 0 ELSE B!Min({ByteBits - lead, number})
           rest == IF lead # 0 /\ number < ByteBits - lead THEN -1 ELSE number - inFirst
           size == B!Min({BufCap, B!BytesOf(number - (part * (ByteBits - lead))) + part})
           end == first + number
           buffer == [i \in B!BufBits |->
                        IF part = 1 /\ i < ByteBits /\ i \notin lead .. lead + inFirst - 1
                        THEN disk[first - lead + i] ELSE value]
<1>1. /\ loc' = [pc |-> "window", run |-> first .. end - 1, value |-> value,
                 before |-> disk, start |-> B!BytesOf(first) * ByteBits, count |-> rest,
                 firstbyte |-> part, bit |-> rest % ByteBits, bufsize |-> size,
                 buf |-> buffer]
      /\ disk' = disk
  BY DEF B!Begin
<1>2. ByteBits \in Nat \ {0} /\ BufCap \in Nat \ {0} /\ BmpBits \in Nat /\ BmpBytes \in Nat
      /\ B!BitSet = 0 .. BmpBits - 1 /\ end \in Nat
  BY Sizes
<1>3. PICK a \in Int : first = (a * ByteBits) + lead /\ lead \in 0 .. ByteBits - 1
  <2>0. first \in Int /\ ByteBits \in Nat \ {0}
    BY <1>2
  <2>1. /\ first \div ByteBits \in Int /\ lead \in 0 .. ByteBits - 1
        /\ first = ((first \div ByteBits) * ByteBits) + lead
    BY ONLY <2>0, DivMod
  <2> HIDE DEF lead
  <2>2. QED
    BY <2>1
<1>4. a \in Nat /\ a * ByteBits \in Nat /\ (a * ByteBits) + ByteBits <= BmpBits
  <2>1. a >= 0
    <3>1. SUFFICES ASSUME a < 0 PROVE FALSE
      BY <1>3
    <3>2. (a * ByteBits) + ByteBits <= 0 * ByteBits
      BY <1>2, <3>1, Bytes2Bits
    <3>3. a * ByteBits \in Int
      BY <1>2
    <3>4. QED
      BY <1>2, <1>3, <3>2, <3>3
  <2>2. a * ByteBits \in Nat
    BY <1>2, <2>1
  <2>3. a < BmpBytes
    <3>1. SUFFICES ASSUME BmpBytes <= a PROVE FALSE
      BY <1>2
    <3>2. BmpBits <= a * ByteBits
      BY <1>2, <3>1, Bytes2Bits, Sizes
    <3>3. QED
      BY <1>2, <1>3, <2>2, <3>2
  <2>4. (a * ByteBits) + ByteBits <= BmpBytes * ByteBits
    BY <1>2, <2>3, Bytes2Bits
  <2>5. QED
    BY <2>1, <2>2, <2>4, Sizes
<1> HIDE DEF lead
<1>5. /\ lead # 0 => /\ part = 1 /\ inFirst \in 1 .. ByteBits - lead /\ inFirst <= number
                     /\ inFirst = IF number < ByteBits - lead THEN number ELSE ByteBits - lead
      /\ lead = 0 => part = 0 /\ inFirst = 0
  <2>1. ByteBits - lead \in Int /\ number \in Int
    BY <1>2, <1>3
  <2>2. B!Min({ByteBits - lead, number}) = IF ByteBits - lead <= number THEN ByteBits - lead ELSE number
    BY <2>1, MinMaxOfTwo
  <2>3. QED
    BY <1>2, <1>3, <2>1, <2>2
<1>6. part \in {0, 1} /\ B!BytesOf(first) = a + part
  <2>1. B!BytesOf(first) = IF lead = 0 THEN a ELSE a + 1
    BY <1>3, BytesOfIs
  <2>2. QED
    BY <1>4, <2>1
<1>7. /\ rest \in Int
      /\ part = 1 => rest = IF end >= (a * ByteBits) + ByteBits
                            THEN end - ((a * ByteBits) + ByteBits) ELSE -1
      /\ part = 0 => rest = number /\ first = a * ByteBits
  <2> HIDE DEF inFirst
  <2>1. QED
    BY <1>2, <1>3, <1>4, <1>5
<1>8. /\ size \in 1 .. BufCap
      /\ size <= part + (IF rest > 0 THEN B!BytesOf(rest) ELSE 0)
  <2> DEFINE d == number - (part * (ByteBits - lead))
             need == B!BytesOf(d) + part
  <2>1. d \in Int /\ (part = 0 => d = rest /\ d > 0)
        /\ (part = 1 => d = end - ((a * ByteBits) + ByteBits) /\ d > -ByteBits)
    <3> HIDE DEF rest
    <3>1. CASE part = 0
      <4>1. part * (ByteBits - lead) = 0
        BY <1>2, <1>3, <3>1
      <4>2. QED
        BY <1>7, <3>1, <4>1
    <3>2. CASE part = 1
      <4>1. part * (ByteBits - lead) = ByteBits - lead /\ lead # 0
        BY <1>2, <1>3, <3>2
      <4>2. QED
        BY <1>2, <1>3, <1>4, <3>2, <4>1
    <3>3. QED
      BY <1>6, <3>1, <3>2
  <2> HIDE DEF d, rest
  <2>2. /\ d > 0 => B!BytesOf(d) \in Nat \ {0} /\ rest = d
        /\ d <= 0 => B!BytesOf(d) = 0 /\ part = 1 /\ ~(rest > 0)
    <3>1. PICK c \in Int, m \in 0 .. ByteBits - 1 : d = (c * ByteBits) + m
      <4>1. PICK c \in Int, m \in 0 .. ByteBits - 1 : c = d \div ByteBits /\ m = d % ByteBits
                                                      /\ d = (c * ByteBits) + m
        <5>1. /\ d \div ByteBits \in Int /\ d % ByteBits \in 0 .. ByteBits - 1
              /\ d = ((d \div ByteBits) * ByteBits) + (d % ByteBits)
          BY ONLY <1>2, <2>1, DivMod
        <5>2. QED
          BY <5>1
      <4>2. QED
        BY <4>1
    <3>2. B!BytesOf(d) = IF m = 0 THEN c ELSE c + 1
      BY <2>1, <3>1, BytesOfIs
    <3>3. CASE d > 0
      <4>1. c >= 0 /\ (c > 0 \/ m > 0)
        <5>1. c < 0 => (c * ByteBits) + ByteBits <= 0 * ByteBits
          BY <1>2, Bytes2Bits
        <5>2. c * ByteBits \in Int /\ (c = 0 => c * ByteBits = 0)
          BY <1>2
        <5>3. QED
          BY <1>2, <3>1, <3>3, <5>1, <5>2
      <4>2. rest = d
        BY <1>2, <1>4, <1>6, <1>7, <2>1, <3>3
      <4>3. QED
        BY <2>1, <3>2, <3>3, <4>1, <4>2
    <3>4. CASE d <= 0
      <4>1. part = 1 /\ d > -ByteBits
        BY <1>6, <2>1, <3>4
      <4>2. B!BytesOf(d) = 0
        <5>1. c > 0 => 0 * ByteBits + ByteBits <= c * ByteBits
          BY <1>2, Bytes2Bits
        <5>2. c < -1 => (c * ByteBits) + ByteBits <= (-1) * ByteBits
          BY <1>2, Bytes2Bits
        <5>3. c * ByteBits \in Int /\ (c = 0 => c * ByteBits = 0)
              /\ (c = -1 => c * ByteBits = -ByteBits) /\ (-1) * ByteBits = -ByteBits
          BY <1>2
        <5>4. (c = 0 /\ m = 0) \/ (c = -1 /\ m # 0)
          BY <1>2, <3>1, <3>4, <4>1, <5>1, <5>2, <5>3
        <5>5. QED
          BY <3>2, <5>4
      <4>3. ~(rest > 0)
        BY <1>2, <1>4, <1>7, <2>1, <3>4, <4>1
      <4>4. QED
        BY <2>1, <3>4, <4>1, <4>2, <4>3
    <3>5. QED
      BY <2>1, <3>3, <3>4
  <2>3. need \in Nat \ {0} /\ need = part + (IF rest > 0 THEN B!BytesOf(rest) ELSE 0)
    <3>1. CASE d > 0
      BY <1>6, <2>2, <3>1
    <3>2. CASE d <= 0
      BY <1>6, <2>2, <3>2
    <3>3. QED
      BY <2>1, <3>1, <3>2
  <2>4. size = B!Min({BufCap, need})
    BY DEF d
  <2> HIDE DEF need, size
  <2>5. BufCap \in Int /\ need \in Int
    BY <1>2, <2>3
  <2>6. B!Min({BufCap, need}) = IF BufCap <= need THEN BufCap ELSE need
    BY <2>5, MinMaxOfTwo
  <2>7. QED
    BY <1>2, <2>3, <2>4, <2>6
<1>9. /\ buffer \in [B!BufBits -> BOOLEAN]
      /\ \A i \in B!BufBits :
           buffer[i] = IF i < part * ByteBits /\ (a * ByteBits) + i \notin first .. end - 1
                       THEN disk[(a * ByteBits) + i] ELSE value
  <2>1. ASSUME NEW i \in B!BufBits
        PROVE  /\ buffer[i] \in BOOLEAN
               /\ buffer[i] = IF i < part * ByteBits /\ (a * ByteBits) + i \notin first .. end - 1
                              THEN disk[(a * ByteBits) + i] ELSE value
    <3>1. i \in Nat /\ first - lead = a * ByteBits
      BY <1>3, <1>4, Sizes
    <3>2. part = 1 /\ i < ByteBits <=> i < part * ByteBits
      BY <1>2, <1>6, <3>1
    <3>3. part = 1 /\ i < ByteBits =>
             (i \in lead .. lead + inFirst - 1 <=> (a * ByteBits) + i \in first .. end - 1)
      <4> HIDE DEF inFirst
      <4>1. QED
        BY <1>2, <1>3, <1>4, <1>5, <3>1
    <3>4. i < ByteBits => (a * ByteBits) + i \in B!BitSet
      BY <1>2, <1>4, <3>1
    <3> HIDE DEF part, inFirst
    <3>5. buffer[i] = IF part = 1 /\ i < ByteBits /\ i \notin lead .. lead + inFirst - 1
                        THEN disk[first - lead + i] ELSE value
      OBVIOUS
    <3>6. buffer[i] = IF i < part * ByteBits /\ (a * ByteBits) + i \notin first .. end - 1
                              THEN disk[(a * ByteBits) + i] ELSE value
      BY <3>1, <3>2, <3>3, <3>5
    <3>7. QED
      BY <3>2, <3>4, <3>6
  <2>2. QED
    BY <2>1
<1> HIDE DEF part, rest, size, buffer
<1>10. /\ loc' \in WindowCall /\ loc'.run = first .. end - 1 /\ loc'.value = value
       /\ loc'.before = disk /\ loc'.start = (a + part) * ByteBits /\ loc'.count = rest
       /\ loc'.firstbyte = part /\ loc'.bit = rest % ByteBits /\ loc'.bufsize = size
       /\ loc'.buf = buffer /\ loc'.pc = "window"
  <2>1. rest % ByteBits \in Int
    BY ONLY <1>2, <1>7, DivMod
  <2>2. (a + part) * ByteBits \in Nat /\ first .. end - 1 \in SUBSET Int
    BY <1>2, <1>4, <1>6
  <2>3. QED
    BY <1>1, <1>6, <1>7, <1>8, <1>9, <2>1, <2>2 DEF WindowCall
<1>11. BufferStart' = a * ByteBits /\ loc'.start = (a * ByteBits) + (part * ByteBits)
  BY <1>2, <1>4, <1>6, <1>10, Bytes2Bits DEF BufferStart
<1>12. WindowInv(first, end)'
  <2>1. \E q \in Nat : loc'.start = q * ByteBits
    <3>1. a + part \in Nat
      BY <1>4, <1>6
    <3>2. QED
      BY <1>10, <3>1
  <2>2. loc'.firstbyte = 0 =>
           first <= loc'.start /\ loc'.start < end /\ loc'.count = end - loc'.start
    <3>1. part = 0 => loc'.start = first /\ loc'.count = number
      BY <1>2, <1>4, <1>7, <1>10, <1>11
    <3>2. QED
      BY <1>10, <3>1
  <2>3. loc'.firstbyte = 1 =>
          /\ loc'.start - ByteBits < first /\ first < loc'.start
          /\ loc'.count = IF end >= loc'.start THEN end - loc'.start ELSE -1
    <3>1. part = 1 => lead # 0 /\ loc'.start = (a * ByteBits) + ByteBits
      BY <1>2, <1>11 DEF part
    <3> DEFINE byte == a * ByteBits
    <3>2. byte \in Nat /\ first = byte + lead /\ lead \in 0 .. ByteBits - 1
      BY <1>3, <1>4
    <3>3. part = 1 => loc'.start = byte + ByteBits /\ lead # 0
                      /\ loc'.count = IF end >= byte + ByteBits THEN end - (byte + ByteBits) ELSE -1
      BY <1>7, <1>10, <3>1
    <3> HIDE DEF byte
    <3>4. QED
      BY <1>2, <1>10, <3>2, <3>3
  <2>4. \A k \in first .. end - 1 : ~(k < BufferStart')
    BY <1>2, <1>3, <1>4, <1>11
  <2>5. \A i \in B!BufBits :
          loc'.buf[i] = IF i < loc'.firstbyte * ByteBits /\ BufferStart' + i \notin loc'.run
                        THEN disk'[BufferStart' + i] ELSE loc'.value
    BY <1>1, <1>9, <1>10, <1>11
  <2>6. B!BytesOf(loc.count)' = B!BytesOf(rest)
    BY <1>10 DEF B!BytesOf
  <2>7. QED
    BY <1>8, <1>10, <2>1, <2>2, <2>3, <2>4, <2>5, <2>6 DEF WindowInv
<1>13. QED
  BY <1>1, <1>10, <1>12 DEF CallInv

-----------------------------------------------------------------------------
(* The allocator: its inductive invariant.                                 *)

Searching == pc \in {"scan", "pass", "zone", "done"}

\* The runs that the call in progress has taken or has still to give back.
Held == IF pc = "free" THEN fr.rl ELSE al.rl

\* The clusters that stay in use when the call in progress has ended without them.
Kept == (owned \ fr.owner) \cup System \cup Padding

\* The bitmap when the last call of ntfs_bitmap_set_bits_in_run was made.
Before == IF loc.pc = "idle" THEN disk ELSE loc.before

Run == [vcn : Nat, lcn : Nat, length : Nat \ {0}]

\* Runs inside the bitmap that share no cluster.
RunsOK(rl) ==
    /\ rl \in Seq(Run)
    /\ \A i \in DOMAIN rl : rl[i].lcn + rl[i].length <= BmpBits
    /\ \A i, j \in DOMAIN rl : i # j => RunClusters(rl[i]) \cap RunClusters(rl[j]) = {}

\* Runs that follow each other in the file and not on the disk, n clusters from 0 on.
Chained(rl, n) ==
    /\ \A i \in DOMAIN rl :
          i < Len(rl) => /\ rl[i+1].vcn = rl[i].vcn + rl[i].length
                         /\ rl[i+1].lcn # rl[i].lcn + rl[i].length
    /\ n = IF rl = <<>> THEN 0 ELSE rl[Len(rl)].vcn + rl[Len(rl)].length

AllocCall ==
    [count : Nat \ {0}, start_lcn : Int, rl : Seq(Run), clusters : Nat,
     zone_start : Nat, zone_end : Nat, bmp_pos : Nat, pass : {1, 2},
     search : Zones, done_zones : SUBSET Zones,
     has_guess : BOOLEAN, used_zone_pos : BOOLEAN, turns : Nat,
     flagged : SUBSET Zones, avail : Nat]

StateInv ==
    /\ disk \in [B!BitSet -> BOOLEAN]
    /\ owned \subseteq Clusters \ System
    /\ pos \in [Zones -> Nat] /\ full_zones \subseteq Zones
    /\ free \in Nat /\ faults \in Nat /\ leaked \in BOOLEAN
    /\ pc \in {"idle", "scan", "pass", "zone", "done", "free"}
    /\ fr \in [rl : Seq(Run), owner : SUBSET Clusters, nr_freed : Nat]

\* The local variables belong to the call in progress; calls are made on a volume
\* whose bitmap is whole.
CallsInv ==
    /\ pc = "idle" => al = NoAlloc
    /\ Searching => al \in AllocCall /\ (pc = "done" <=> al.clusters = 0)
    /\ pc # "free" => fr = NoFree /\ loc = B!NoCall
    /\ leaked => pc \in {"idle", "free"} /\ fr.rl = <<>>
    /\ RunsOK(Held)

\* What has been taken so far is what is no longer asked for.
AskedInv ==
    Searching => /\ Chained(al.rl, al.count - al.clusters)
                 /\ Cardinality(ClustersOf(al.rl)) = al.count - al.clusters

\* The bits of a run are being cleared, and the run is the next one of the list.
ClearInv ==
    \/ loc = B!NoCall
    \/ /\ fr.rl # <<>> /\ pc = "free"
       /\ CallInv(Head(fr.rl).lcn, Head(fr.rl).lcn + Head(fr.rl).length)
       /\ loc.value = FALSE

\* The bitmap marks what is kept and, but for bits already cleared, what is held.
DiskInv ==
    ~leaked => /\ ClustersOf(Held) \cap Kept = {}
               /\ \A b \in B!BitSet : /\ b \in Kept => Before[b]
                                      /\ Before[b] => b \in Kept \cup ClustersOf(Held)
                                      /\ Searching /\ b \in ClustersOf(Held) => Before[b]

\* Every cluster is free, freed, held or kept.
CountInv ==
    ~leaked => free + fr.nr_freed + Cardinality(ClustersOf(Held)) = Cardinality(Clusters \ Kept)

IInv == StateInv /\ CallsInv /\ AskedInv /\ ClearInv /\ DiskInv /\ CountInv

-----------------------------------------------------------------------------
(* Least and greatest elements.                                            *)

\* A set of natural numbers that is not empty has a least element.
LEMMA LeastNumber ==
  ASSUME NEW T \in SUBSET Nat, T # {}
  PROVE  \E n \in T : \A k \in T : n <= k
<1> DEFINE R == StrictSubsetOrdering(Nat)
           F == {0 .. n : n \in T}
<1>1. IsWellFoundedOn(R, FiniteSubsetsOf(Nat))
  BY FS_StrictSubsetOrderingWellFounded
<1>2. F \subseteq FiniteSubsetsOf(Nat) /\ F # {}
  <2>1. \A n \in T : 0 .. n \in FiniteSubsetsOf(Nat)
    BY FS_Interval DEF FiniteSubsetsOf
  <2>2. QED
    BY <2>1
<1>3. PICK U \in F : \A V \in F : ~(<<V, U>> \in R)
  <2> HIDE DEF R, F
  <2>1. QED
    BY <1>1, <1>2, WFMin
<1>4. PICK n \in T : U = 0 .. n
  OBVIOUS
<1>5. ASSUME NEW k \in T, k < n PROVE FALSE
  <2>1. 0 .. k \in F /\ 0 .. k \subseteq 0 .. n /\ n \in 0 .. n /\ n \notin 0 .. k
    BY <1>5
  <2>2. <<0 .. k, U>> \in R
    BY <1>4, <2>1 DEF StrictSubsetOrdering
  <2>3. QED
    BY <1>3, <2>1, <2>2
<1>6. QED
  BY <1>5

\* Min of numbers from an interval is one of them, and the least.
LEMMA MinIs ==
  ASSUME NEW a \in Int, NEW b \in Int, NEW S \in SUBSET (a .. b), S # {}
  PROVE  Min(S) \in S /\ \A k \in S : Min(S) <= k
<1> DEFINE T == {k - a : k \in S}
<1>1. T \in SUBSET Nat /\ T # {}
  OBVIOUS
<1>2. PICK t \in T : \A u \in T : t <= u
  BY <1>1, LeastNumber
<1>3. PICK x \in S : t = x - a
  BY <1>2
<1>4. ASSUME NEW k \in S PROVE x <= k
  <2>1. t <= k - a
    BY <1>2
  <2>2. QED
    BY <1>3, <2>1
<1>5. QED
  BY <1>4 DEF Min

\* Max of numbers from an interval is one of them, and the greatest.
LEMMA MaxIs ==
  ASSUME NEW a \in Int, NEW b \in Int, NEW S \in SUBSET (a .. b), S # {}
  PROVE  Max(S) \in S /\ \A k \in S : k <= Max(S)
<1> DEFINE T == {b - k : k \in S}
<1>1. T \in SUBSET Nat /\ T # {}
  <2>1. \A k \in S : b - k \in Nat
    OBVIOUS
  <2>2. QED
    BY <2>1
<1>2. PICK t \in T : \A u \in T : t <= u
  BY <1>1, LeastNumber
<1>3. PICK x \in S : t = b - x
  BY <1>2
<1>4. ASSUME NEW k \in S PROVE k <= x
  <2>1. t <= b - k
    BY <1>2
  <2>2. QED
    BY <1>3, <2>1
<1>5. \E y \in S : \A k \in S : y >= k
  BY <1>4
<1>6. Max(S) \in S /\ \A k \in S : Max(S) >= k
  BY <1>5 DEF Max
<1>7. QED
  BY <1>6

\* The range that max_empty_bit_range finds starts with a free cluster of the buffer.
LEMMA EmptyRange ==
  ASSUME NEW base \in Nat, NEW size \in Nat
  PROVE  LET at == max_empty_bit_range(base, size)
         IN  at = -1 \/ (at \in base .. base + size - 1 /\ ~disk[at])
<1> DEFINE bits == base .. base + size - 1
           FreeAt(l, n) == l + n <= base + size /\ \A k \in l .. l + n - 1 : ~disk[k]
           lengths == {n \in 1 .. size : \E l \in bits : FreeAt(l, n)}
           most == Max(lengths)
           starts == {l \in bits : FreeAt(l, most)}
<1>1. max_empty_bit_range(base, size) = IF lengths = {} THEN -1 ELSE Min(starts)
  BY DEF max_empty_bit_range
<1>2. CASE lengths # {}
  <2>1. most \in lengths
    <3>1. lengths \in SUBSET (1 .. size) /\ 1 \in Int /\ size \in Int
      OBVIOUS
    <3> HIDE DEF lengths
    <3>2. QED
      BY ONLY <1>2, <3>1, MaxIs
  <2>2. most \in 1 .. size /\ starts # {}
    BY <2>1
  <2>3. Min(starts) \in starts
    <3>1. starts \in SUBSET bits /\ base \in Int /\ base + size - 1 \in Int
      OBVIOUS
    <3> HIDE DEF starts
    <3>2. QED
      BY ONLY <2>2, <3>1, MinIs
  <2> DEFINE l == Min(starts)
  <2>4. l \in bits /\ FreeAt(l, most)
    BY <2>3
  <2> HIDE DEF l, most
  <2>5. l \in l .. l + most - 1
    BY <2>2, <2>4
  <2>6. QED
    BY <1>1, <1>2, <2>4, <2>5 DEF l
<1>3. QED
  BY <1>1, <1>2

\* When it finds none, every bit of the buffer is set.
LEMMA NoEmptyRange ==
  ASSUME NEW base \in Nat, NEW size \in Nat, max_empty_bit_range(base, size) = -1
  PROVE  \A k \in base .. base + size - 1 : disk[k]
<1> DEFINE bits == base .. base + size - 1
           FreeAt(l, n) == l + n <= base + size /\ \A k \in l .. l + n - 1 : ~disk[k]
           lengths == {n \in 1 .. size : \E l \in bits : FreeAt(l, n)}
           most == Max(lengths)
           starts == {l \in bits : FreeAt(l, most)}
<1>1. max_empty_bit_range(base, size) = IF lengths = {} THEN -1 ELSE Min(starts)
  BY DEF max_empty_bit_range
<1>2. ASSUME NEW k \in bits, ~disk[k] PROVE FALSE
  <2>1. k \in Nat /\ k + 1 <= base + size /\ 1 \in 1 .. size
    OBVIOUS
  <2>2. \A j \in k .. k + 1 - 1 : j = k
    BY <2>1
  <2>3. FreeAt(k, 1)
    BY <1>2, <2>1, <2>2
  <2>4. 1 \in lengths
    BY <2>1, <2>3
  <2>5. most \in lengths
    <3>1. lengths \in SUBSET (1 .. size) /\ 1 \in Int /\ size \in Int
      OBVIOUS
    <3> HIDE DEF lengths
    <3>2. lengths # {}
      BY <2>4
    <3>3. QED
      BY ONLY <3>1, <3>2, MaxIs
  <2>6. starts # {}
    BY <2>5
  <2>7. Min(starts) \in bits
    <3>1. starts \in SUBSET bits /\ base \in Int /\ base + size - 1 \in Int
      OBVIOUS
    <3> HIDE DEF starts
    <3>2. QED
      BY ONLY <2>6, <3>1, MinIs
  <2>8. Min(starts) = -1
    BY <1>1, <2>4
  <2> HIDE DEF starts
  <2>9. QED
    BY <2>7, <2>8
<1>3. QED
  BY <1>2

-----------------------------------------------------------------------------
(* Runlists.                                                               *)

\* The clusters of a list are those of its runs.
LEMMA ClustersOfIs ==
  \A rl : \A c : c \in ClustersOf(rl) <=> \E i \in DOMAIN rl : c \in RunClusters(rl[i])
  BY DEF ClustersOf

\* A list of runs inside the bitmap has finitely many clusters, all in the bitmap.
LEMMA ClustersFinite ==
  ASSUME NEW rl, RunsOK(rl)
  PROVE  ClustersOf(rl) \subseteq B!BitSet /\ IsFiniteSet(ClustersOf(rl))
         /\ Cardinality(ClustersOf(rl)) \in Nat
<1>1. ASSUME NEW c \in ClustersOf(rl) PROVE c \in B!BitSet
  <2>1. PICK i \in DOMAIN rl : c \in RunClusters(rl[i])
    BY ClustersOfIs
  <2>2. rl[i] \in Run /\ rl[i].lcn + rl[i].length <= BmpBits
    BY DEF RunsOK
  <2>3. QED
    <3>1. B!BitSet = 0 .. BmpBits - 1 /\ BmpBits \in Nat
      BY Sizes
    <3>2. rl[i].lcn \in Nat /\ rl[i].length \in Nat
      BY <2>2 DEF Run
    <3>3. QED
      BY <2>1, <2>2, <3>1, <3>2 DEF RunClusters
<1>2. IsFiniteSet(B!BitSet)
  BY Sizes, FS_Interval
<1>3. QED
  BY <1>1, <1>2, FS_Subset, FS_CardinalityType

\* Clusters that no run has yet are added to a list, as a run of their own or to the
\* last one.
LEMMA AppendRunStep ==
  ASSUME NEW rl, RunsOK(rl), NEW n \in Nat, Chained(rl, n),
         NEW lcn \in Nat, NEW number \in Nat \ {0}, lcn + number <= BmpBits,
         ClustersOf(rl) \cap (lcn .. lcn + number - 1) = {}
  PROVE  /\ RunsOK(Append_run(rl, lcn, number))
         /\ Chained(Append_run(rl, lcn, number), n + number)
         /\ ClustersOf(Append_run(rl, lcn, number)) = ClustersOf(rl) \cup (lcn .. lcn + number - 1)
<1> DEFINE new == Append_run(rl, lcn, number)
           added == lcn .. lcn + number - 1
           last == rl[Len(rl)]
<1>1. /\ rl \in Seq(Run) /\ DOMAIN rl = 1 .. Len(rl) /\ Len(rl) \in Nat
      /\ \A i \in DOMAIN rl : rl[i] \in Run /\ rl[i].lcn + rl[i].length <= BmpBits
      /\ \A i, j \in DOMAIN rl : i # j => RunClusters(rl[i]) \cap RunClusters(rl[j]) = {}
  BY DEF RunsOK
<1>2. \A i \in DOMAIN rl : RunClusters(rl[i]) \cap added = {}
  BY ClustersOfIs
<1>3. BmpBits \in Nat
  BY Sizes
<1>4. CASE rl # <<>> /\ last.lcn + last.length = lcn
  <2> DEFINE grown == [last EXCEPT !.length = @ + number]
  <2>1. Len(rl) \in DOMAIN rl /\ last \in Run
    BY <1>1, <1>4
  <2>2. grown \in Run /\ grown.vcn = last.vcn /\ grown.lcn = last.lcn
        /\ grown.length = last.length + number
    BY <2>1, SMTT(40) DEF Run
  <2>3. new = [rl EXCEPT ![Len(rl)] = grown]
    BY <1>4 DEF Append_run
  <2> HIDE DEF grown, last, new
  <2>4. /\ new \in Seq(Run) /\ DOMAIN new = DOMAIN rl /\ Len(new) = Len(rl)
        /\ new[Len(rl)] = grown /\ \A i \in DOMAIN rl : i # Len(rl) => new[i] = rl[i]
    BY <1>1, <2>1, <2>2, <2>3
  <2>5. RunClusters(grown) = RunClusters(last) \cup added
    <3>1. last.lcn \in Nat /\ last.length \in Nat \ {0}
      BY <2>1 DEF Run
    <3>2. last.lcn .. last.lcn + (last.length + number) - 1
             = (last.lcn .. last.lcn + last.length - 1)
               \cup (last.lcn + last.length .. last.lcn + last.length + number - 1)
      BY <3>1
    <3>3. QED
      BY <1>4, <2>2, <3>2 DEF RunClusters
  <2>6. \A i \in DOMAIN new : new[i].lcn + new[i].length <= BmpBits
    <3>1. grown.lcn + grown.length <= BmpBits
      BY <1>3, <1>4, <2>1, <2>2 DEF Run
    <3>2. QED
      BY <1>1, <2>4, <3>1
  <2>7. \A i, j \in DOMAIN new : i # j => RunClusters(new[i]) \cap RunClusters(new[j]) = {}
    <3>1. \A i \in DOMAIN rl : i # Len(rl) => RunClusters(rl[i]) \cap RunClusters(last) = {}
      BY <1>1, <2>1 DEF last
    <3>2. \A i \in DOMAIN rl : i # Len(rl) => RunClusters(rl[i]) \cap RunClusters(grown) = {}
      BY <1>2, <2>5, <3>1
    <3>3. QED
      BY <1>1, <2>4, <3>2
  <2>8. Chained(new, n + number)
    <3>1. new # <<>> /\ rl # <<>>
      BY <1>4, <2>1, <2>4
    <3>2. n = last.vcn + last.length
      BY <3>1 DEF Chained, last
    <3>3. n + number = grown.vcn + grown.length
      BY <2>1, <2>2, <3>2 DEF Run
    <3>4. ASSUME NEW i \in DOMAIN new, i < Len(new)
          PROVE  /\ new[i+1].vcn = new[i].vcn + new[i].length
                 /\ new[i+1].lcn # new[i].lcn + new[i].length
      <4>1. i \in DOMAIN rl /\ i + 1 \in DOMAIN rl /\ i # Len(rl) /\ i < Len(rl)
        BY <1>1, <2>4, <3>4
      <4>2. new[i] = rl[i]
        BY <2>4, <4>1
      <4>3. new[i+1].vcn = rl[i+1].vcn /\ new[i+1].lcn = rl[i+1].lcn
        <5>1. CASE i + 1 = Len(rl)
          BY <2>2, <2>4, <5>1 DEF last
        <5>2. CASE i + 1 # Len(rl)
          BY <2>4, <4>1, <5>2
        <5>3. QED
          BY <5>1, <5>2
      <4>4. rl[i+1].vcn = rl[i].vcn + rl[i].length /\ rl[i+1].lcn # rl[i].lcn + rl[i].length
        BY <4>1 DEF Chained
      <4>5. QED
        BY <4>2, <4>3, <4>4
    <3>5. QED
      BY <2>4, <3>1, <3>3, <3>4 DEF Chained
  <2>9. ClustersOf(new) = ClustersOf(rl) \cup added
    <3>1. \A c : c \in ClustersOf(new) <=> c \in ClustersOf(rl) \/ c \in added
      <4>1. TAKE c
      <4>2. c \in ClustersOf(new) <=> \E i \in DOMAIN rl : c \in RunClusters(new[i])
        BY <2>4, ClustersOfIs
      <4>3. c \in ClustersOf(rl) <=> \E i \in DOMAIN rl : c \in RunClusters(rl[i])
        BY ClustersOfIs
      <4>4. c \in RunClusters(new[Len(rl)]) <=> c \in RunClusters(rl[Len(rl)]) \/ c \in added
        BY <2>4, <2>5 DEF last
      <4>5. \A i \in DOMAIN rl : i # Len(rl) => RunClusters(new[i]) = RunClusters(rl[i])
        BY <2>4
      <4>6. QED
        BY <2>1, <4>2, <4>3, <4>4, <4>5
    <3>2. QED
      BY <3>1
  <2>10. QED
    BY <2>4, <2>6, <2>7, <2>8, <2>9 DEF RunsOK, new
<1>5. CASE ~(rl # <<>> /\ last.lcn + last.length = lcn)
  <2> DEFINE run == [vcn |-> IF rl = <<>> THEN 0 ELSE last.vcn + last.length,
                     lcn |-> lcn, length |-> number]
  <2>1. rl # <<>> => Len(rl) \in DOMAIN rl /\ last \in Run
    BY <1>1
  <2>2. run \in Run /\ run.lcn = lcn /\ run.length = number /\ run.vcn = n
    BY <2>1 DEF Run, Chained
  <2>3. new = Append(rl, run)
    BY <1>5 DEF Append_run
  <2> HIDE DEF run, last, new
  <2>4. /\ new \in Seq(Run) /\ DOMAIN new = 1 .. Len(rl) + 1 /\ Len(new) = Len(rl) + 1
        /\ new[Len(rl) + 1] = run /\ \A i \in DOMAIN rl : new[i] = rl[i]
    BY <1>1, <2>2, <2>3
  <2>5. RunClusters(run) = added
    BY <2>2 DEF RunClusters
  <2>6. \A i \in DOMAIN new : i \in DOMAIN rl \/ i = Len(rl) + 1
    BY <1>1, <2>4
  <2>7. \A i \in DOMAIN new : new[i].lcn + new[i].length <= BmpBits
    BY <1>1, <2>2, <2>4, <2>6
  <2>8. \A i, j \in DOMAIN new : i # j => RunClusters(new[i]) \cap RunClusters(new[j]) = {}
    BY <1>1, <1>2, <2>4, <2>5, <2>6
  <2>9. Chained(new, n + number)
    <3>1. new # <<>>
      BY <2>4
    <3>2. n + number = new[Len(new)].vcn + new[Len(new)].length
      BY <2>2, <2>4
    <3>3. ASSUME NEW i \in DOMAIN new, i < Len(new)
          PROVE  /\ new[i+1].vcn = new[i].vcn + new[i].length
                 /\ new[i+1].lcn # new[i].lcn + new[i].length
      <4>1. i \in DOMAIN rl /\ new[i] = rl[i] /\ i <= Len(rl) /\ rl # <<>>
        BY <1>1, <2>4, <3>3
      <4>2. CASE i = Len(rl)
        <5>1. new[i+1] = run /\ new[i] = last
          BY <2>4, <4>1, <4>2 DEF last
        <5>2. n = last.vcn + last.length
          BY <4>1 DEF Chained, last
        <5>3. last.lcn + last.length # lcn
          BY <1>5, <4>1
        <5>4. QED
          BY <2>2, <5>1, <5>2, <5>3
      <4>3. CASE i # Len(rl)
        <5>1. i < Len(rl) /\ i + 1 \in DOMAIN rl
          BY <1>1, <4>1, <4>3
        <5>2. rl[i+1].vcn = rl[i].vcn + rl[i].length /\ rl[i+1].lcn # rl[i].lcn + rl[i].length
          BY <4>1, <5>1 DEF Chained
        <5>3. QED
          BY <2>4, <4>1, <5>1, <5>2
      <4>4. QED
        BY <4>2, <4>3
    <3>4. QED
      BY <3>1, <3>2, <3>3 DEF Chained
  <2>10. ClustersOf(new) = ClustersOf(rl) \cup added
    <3>1. \A c : c \in ClustersOf(new) <=> c \in ClustersOf(rl) \/ c \in added
      <4>1. TAKE c
      <4>2. c \in ClustersOf(new) <=> \E i \in DOMAIN new : c \in RunClusters(new[i])
        BY ClustersOfIs
      <4>3. c \in ClustersOf(rl) <=> \E i \in DOMAIN rl : c \in RunClusters(rl[i])
        BY ClustersOfIs
      <4>4. DOMAIN rl \subseteq DOMAIN new /\ Len(rl) + 1 \in DOMAIN new
        BY <1>1, <2>4
      <4>5. QED
        BY <2>4, <2>5, <2>6, <4>2, <4>3, <4>4
    <3>2. QED
      BY <3>1
  <2>11. QED
    BY <2>4, <2>7, <2>8, <2>9, <2>10 DEF RunsOK, new
<1>6. QED
  BY <1>4, <1>5

-----------------------------------------------------------------------------
(* The search.                                                             *)

\* The positions stay in the volume's range of numbers.
LEMMA ZonePositions ==
  ASSUME NEW p \in [Zones -> Nat], NEW zone \in Zones, NEW tc \in Int
  PROVE  set_zone_pos(p, zone, tc) \in [Zones -> Nat]
<1> DEFINE start == IF zone = "MFT" THEN mft_lcn ELSE ZoneFirst[zone]
<1>1. start \in Nat
  BY LcnAllocAssumption DEF Zones, ZoneFirst
<1>2. set_zone_pos(p, zone, tc) = IF tc >= ZoneEnd[zone] THEN [p EXCEPT ![zone] = start]
                                  ELSE IF tc >= start THEN [p EXCEPT ![zone] = tc] ELSE p
  BY DEF set_zone_pos
<1> HIDE DEF start
<1>3. tc >= start => tc \in Nat
  BY <1>1
<1>4. QED
  BY <1>1, <1>2, <1>3

\* Zones and their bounds.
LEMMA ZoneFacts ==
    /\ \A lcn : ZoneOf(lcn) \in Zones
    /\ \A z \in Zones : ZoneFirst[z] \in Nat /\ ZoneEnd[z] \in Nat
    /\ \A z \in Zones : \A done : NextZone(z, done) \in Zones
    /\ NrClusters \in Nat /\ NrClusters <= BmpBits /\ BmpBits \in Nat
    /\ System \subseteq Clusters /\ Clusters \subseteq B!BitSet /\ Padding \subseteq B!BitSet
    /\ Clusters \cap Padding = {} /\ B!BitSet = Clusters \cup Padding
<1>1. \A lcn : ZoneOf(lcn) \in Zones
  BY DEF ZoneOf, Zones
<1>2. \A z \in Zones : ZoneFirst[z] \in Nat /\ ZoneEnd[z] \in Nat
  BY LcnAllocAssumption DEF Zones, ZoneFirst, ZoneEnd
<1>3. \A z \in Zones : \A done : NextZone(z, done) \in Zones
  BY DEF NextZone, Zones
<1>4. NrClusters \in Nat /\ NrClusters <= BmpBits /\ BmpBits \in Nat /\ System \subseteq Clusters
  BY LcnAllocAssumption, Sizes
<1>5. B!BitSet = 0 .. BmpBits - 1
  BY Sizes
<1>6. QED
  BY <1>1, <1>2, <1>3, <1>4, <1>5 DEF Clusters, Padding

\* What a turn of the loop takes: a range of free clusters, no more than are asked for,
\* and it is either written to the bitmap or given back with the rest of the list.
Takes(at, n) ==
    /\ n <= al.clusters
    /\ n > 0 => at \in Nat /\ at + n <= BmpBits /\ \A k \in at .. at + n - 1 : ~disk[k]
    /\ free' = Max({0, free - n})
    /\ al'.rl = IF n = 0 THEN al.rl ELSE Append_run(al.rl, at, n)
    /\ al'.clusters = al.clusters - n /\ al'.count = al.count
    /\ al'.rl \in Seq(Run) => al' \in AllocCall
    /\ \/ /\ disk' = [b \in DOMAIN disk |-> disk[b] \/ (n > 0 /\ b \in at .. at + n - 1)]
          /\ pc' \in {"scan", "pass", "done"} /\ (pc' = "done" <=> al'.clusters = 0)
          /\ UNCHANGED <<faults, fr>>
       \/ GiveBack(al'.rl, {}) /\ UNCHANGED disk /\ faults' \in Nat
    /\ pos' \in [Zones -> Nat]
    /\ UNCHANGED <<owned, full_zones, leaked, loc>>

\* The clusters from a up to b are in use.
Marked(a, b) == \A k \in a .. b - 1 : disk[k]

\* Where a turn that takes n clusters from a buffer up to `end' leaves the search.
Turn(n, end) ==
    /\ al.search \notin full_zones /\ al.bmp_pos < end /\ end <= BmpBits
    /\ (al.bmp_pos \div ByteBits) + 1 <= end \div ByteBits
    /\ al'.turns = al.turns + 1
    /\ al'.search = al.search /\ al'.done_zones = al.done_zones /\ al'.zone_end = al.zone_end
    /\ al'.flagged = al.flagged /\ al'.avail = al.avail /\ al'.start_lcn = al.start_lcn
    /\ pos' = pos \/ \E tc \in Int : pos' = set_zone_pos(pos, al.search, tc)
    /\ al'.clusters # 0 =>
          /\ pos' = pos /\ al'.used_zone_pos
          /\ al.used_zone_pos => /\ al'.bmp_pos = end /\ al'.zone_start = al.zone_start
                                 /\ al'.pass = al.pass
          /\ ~al.used_zone_pos =>
                /\ al'.bmp_pos = pos[al.search] /\ al'.zone_start = pos[al.search]
                /\ al'.pass = IF AtStart(pos[al.search]) THEN 2 ELSE al.pass
          /\ pc' = "free" \/ pc' = IF al'.bmp_pos < al.zone_end THEN "scan" ELSE "pass"
    /\ n = 0 => ~al'.has_guess /\ (~al.has_guess => Marked(al.bmp_pos, end))

LEMMA ScanStep ==
  ASSUME StateInv, pc = "scan", al \in AllocCall, al.clusters # 0, Scan
  PROVE  \E at \in Int, n \in Nat, end \in Nat : Takes(at, n) /\ Turn(n, end)
<1> DEFINE first == al.bmp_pos \div ByteBits
           base == first * ByteBits
           br   == Max({0, Min({BufBytes, BmpBytes - first})})
           end  == base + br * ByteBits
           at   == IF al.has_guess THEN (IF disk[al.bmp_pos] THEN -1 ELSE al.bmp_pos)
                   ELSE max_empty_bit_range(base, br * ByteBits)
           stop == Min({k \in at .. end : k = end \/ disk[k]})
           n    == IF at = -1 THEN 0 ELSE Min({al.clusters, stop - at})
           got  == [al EXCEPT !.turns = @ + 1, !.clusters = @ - n,
                              !.rl = IF n = 0 THEN @ ELSE Append_run(@, at, n),
                              !.has_guess = at # -1 /\ stop = end]
<1>1. /\ al.search \notin full_zones /\ br > 0 /\ free' = Max({0, free - n})
      /\ \/ /\ got.clusters = 0
            /\ al' = got
            /\ pos' = IF al.used_zone_pos
                      THEN set_zone_pos(pos, al.search, at + n + Skip) ELSE pos
            /\ Writeback(at .. at + n - 1, got.rl, "done")
         \/ /\ got.clusters # 0
            /\ al' = Onward(got, end)
            /\ Writeback(IF n = 0 THEN {} ELSE at .. at + n - 1, got.rl,
                         IF al'.bmp_pos < al.zone_end THEN "scan" ELSE "pass")
            /\ UNCHANGED pos
      /\ UNCHANGED <<owned, full_zones, leaked, loc>>
  BY DEF Scan
<1>2. /\ ByteBits \in Nat \ {0} /\ BufBytes \in Nat /\ BmpBytes \in Nat /\ Skip \in Nat
      /\ BmpBits \in Nat /\ BmpBits = BmpBytes * ByteBits
      /\ al.bmp_pos \in Nat /\ al.clusters \in Nat \ {0} /\ al.search \in Zones
      /\ al.turns \in Nat /\ al.has_guess \in BOOLEAN /\ faults \in Nat
      /\ pos \in [Zones -> Nat] /\ disk \in [B!BitSet -> BOOLEAN]
      /\ B!BitSet = 0 .. BmpBits - 1
  BY LcnAllocAssumption, Sizes DEF AllocCall, StateInv
<1>3. /\ first \in Int /\ base \in Int /\ base <= al.bmp_pos /\ al.bmp_pos < base + ByteBits
  <2>0. al.bmp_pos \in Int /\ ByteBits \in Nat \ {0}
    BY <1>2
  <2>1. /\ first \in Int /\ al.bmp_pos % ByteBits \in 0 .. ByteBits - 1
        /\ al.bmp_pos = base + (al.bmp_pos % ByteBits)
    BY ONLY <2>0, DivMod
  <2> DEFINE lead == al.bmp_pos % ByteBits
  <2>2. base \in Int
    <3> HIDE DEF first
    <3>1. QED
      BY <2>0, <2>1
  <2> HIDE DEF lead, base, first
  <2>3. QED
    BY <2>0, <2>1, <2>2 DEF lead
<1>4. first >= 0 /\ base >= 0
  <2> HIDE DEF first
  <2>1. SUFFICES ASSUME first < 0 PROVE FALSE
    BY <1>2, <1>3
  <2>2. (first * ByteBits) + ByteBits <= 0 * ByteBits
    BY <1>2, <1>3, <2>1, Bytes2Bits
  <2> HIDE DEF base
  <2>3. base + ByteBits <= 0
    BY <1>2, <2>2 DEF base
  <2>4. QED
    BY <1>2, <1>3, <2>3
<1> HIDE DEF first
<1>5. br \in Nat \ {0} /\ br <= BmpBytes - first
  <2>1. BufBytes \in Int /\ BmpBytes - first \in Int /\ 0 \in Int
    BY <1>2, <1>3
  <2>2. Min({BufBytes, BmpBytes - first})
           = IF BufBytes <= BmpBytes - first THEN BufBytes ELSE BmpBytes - first
    BY ONLY <2>1, MinMaxOfTwo
  <2> DEFINE m == Min({BufBytes, BmpBytes - first})
  <2>3. m \in Int /\ m <= BmpBytes - first
    BY <2>1, <2>2
  <2> HIDE DEF m
  <2>4. Max({0, m}) = IF 0 <= m THEN m ELSE 0
    BY ONLY <2>1, <2>3, MinMaxOfTwo
  <2>5. br = Max({0, m})
    BY DEF m
  <2>6. QED
    BY <1>1, <2>1, <2>3, <2>4, <2>5
<1> HIDE DEF br
<1>60. end \div ByteBits = first + br
  <2>1. (first + br) * ByteBits = (first * ByteBits) + (br * ByteBits) /\ first + br \in Int
    BY <1>2, <1>3, <1>5, Bytes2Bits
  <2>2. end \in Int /\ end = ((first + br) * ByteBits) + 0 /\ 0 \in 0 .. ByteBits - 1
    BY <1>2, <1>3, <1>5, <2>1
  <2> HIDE DEF end
  <2>3. QED
    BY ONLY <1>2, <2>1, <2>2, DivModIs
<1>6. /\ base \in Nat /\ br * ByteBits \in Nat /\ end \in Nat /\ end <= BmpBits
      /\ al.bmp_pos < end /\ end - 1 = base + (br * ByteBits) - 1
  <2>1. br * ByteBits \in Nat /\ 1 * ByteBits <= br * ByteBits
    <3>1. br * ByteBits \in Nat
      BY <1>2, <1>5
    <3>2. QED
      BY <1>2, <1>5, <3>1, Bytes2Bits
  <2>2. (first + br) * ByteBits <= BmpBytes * ByteBits
    BY <1>2, <1>3, <1>5, Bytes2Bits
  <2>3. (first + br) * ByteBits = base + (br * ByteBits)
    BY <1>2, <1>3, <1>5, Bytes2Bits
  <2> DEFINE size == br * ByteBits
  <2>4. size \in Nat /\ ByteBits <= size /\ base + size <= BmpBits
    BY <1>2, <2>1, <2>2, <2>3
  <2>5. end = base + size
    OBVIOUS
  <2> HIDE DEF base, size, end
  <2>6. QED
    BY <1>2, <1>3, <1>4, <2>4, <2>5, SMTT(40) DEF size
<1> HIDE DEF base
<1>70. at = -1 /\ ~al.has_guess => Marked(al.bmp_pos, end)
  <2> SUFFICES ASSUME at = -1, ~al.has_guess PROVE Marked(al.bmp_pos, end)
    OBVIOUS
  <2> DEFINE size == br * ByteBits
  <2>1. max_empty_bit_range(base, size) = -1 /\ base \in Nat /\ size \in Nat
    BY <1>6
  <2>2. end - 1 = base + size - 1 /\ end \in Nat
    BY <1>6
  <2> HIDE DEF at, end, size
  <2>3. \A k \in base .. base + size - 1 : disk[k]
    BY ONLY <2>1, NoEmptyRange
  <2>4. \A k \in al.bmp_pos .. end - 1 : k \in base .. base + size - 1
    BY <1>2, <1>3, <1>6, <2>1, <2>2
  <2>5. QED
    BY <2>3, <2>4 DEF Marked
<1>7. at = -1 \/ (at \in Nat /\ at < end /\ ~disk[at])
  <2>1. CASE al.has_guess
    <3>1. at = -1 \/ (at = al.bmp_pos /\ ~disk[at])
      BY <2>1
    <3> HIDE DEF at, end
    <3>2. QED
      BY <1>2, <1>6, <3>1
  <2>2. CASE ~al.has_guess
    <3>1. at = max_empty_bit_range(base, br * ByteBits)
      BY <2>2
    <3> DEFINE size == br * ByteBits
    <3>2. at = -1 \/ (at \in base .. base + size - 1 /\ ~disk[at])
      <4>1. base \in Nat /\ size \in Nat /\ at = max_empty_bit_range(base, size)
        BY <1>6, <3>1
      <4> HIDE DEF at, size
      <4>2. QED
        BY ONLY <4>1, EmptyRange
    <3>3. end - 1 = base + size - 1 /\ size \in Nat
      BY <1>6
    <3> HIDE DEF at, end, size
    <3>4. QED
      BY <1>6, <3>2, <3>3
  <2>3. QED
    BY <2>1, <2>2
<1> HIDE DEF end, at
<1>8. at # -1 => stop \in Int /\ at < stop /\ stop <= end /\ \A k \in at .. stop - 1 : ~disk[k]
  <2> SUFFICES ASSUME at # -1
               PROVE  stop \in Int /\ at < stop /\ stop <= end /\ \A k \in at .. stop - 1 : ~disk[k]
    OBVIOUS
  <2> DEFINE T == {k \in at .. end : k = end \/ disk[k]}
  <2>1. at \in Nat /\ at < end /\ ~disk[at] /\ end \in Nat
    BY <1>6, <1>7
  <2>2. T \in SUBSET (at .. end) /\ end \in T /\ at \in Int /\ end \in Int
    BY <2>1
  <2>3. Min(T) \in T /\ \A k \in T : Min(T) <= k
    <3>1. T # {} /\ T \in SUBSET (at .. end) /\ at \in Int /\ end \in Int
      BY <2>2
    <3> HIDE DEF T
    <3>2. QED
      BY ONLY <3>1, MinIs
  <2>4. stop = Min(T)
    OBVIOUS
  <2>5. stop \in at .. end /\ stop # at /\ stop \in Int
    <3> HIDE DEF stop
    <3>1. stop \in at .. end /\ (stop = end \/ disk[stop])
      BY <2>3, <2>4
    <3>2. QED
      BY <2>1, <3>1
  <2>6. ASSUME NEW k \in at .. stop - 1, disk[k] PROVE FALSE
    <3> HIDE DEF stop
    <3>1. k \in T
      BY <2>1, <2>5, <2>6
    <3> HIDE DEF T
    <3>2. QED
      BY <2>1, <2>3, <2>4, <2>5, <3>1
  <2> HIDE DEF stop
  <2>7. QED
    BY <2>1, <2>5, <2>6
<1> HIDE DEF stop
<1>9. /\ n \in Nat /\ n <= al.clusters /\ (at = -1 <=> n = 0)
      /\ at # -1 => n <= stop - at
  <2>1. at # -1 => al.clusters \in Int /\ stop - at \in Int /\ stop - at > 0
    BY <1>2, <1>7, <1>8
  <2>2. at # -1 => Min({al.clusters, stop - at}) = IF al.clusters <= stop - at
                                                  THEN al.clusters ELSE stop - at
    BY <2>1, MinMaxOfTwo
  <2>3. QED
    BY <1>2, <2>1, <2>2
<1>10. n > 0 => at \in Nat /\ at + n <= BmpBits /\ \A k \in at .. at + n - 1 : ~disk[k]
  <2> HIDE DEF n
  <2>1. n > 0 => at # -1 /\ at \in Nat /\ at + n <= stop
    BY <1>7, <1>8, <1>9
  <2>2. n > 0 => at + n <= BmpBits
    BY <1>2, <1>6, <1>8, <1>9, <2>1, SMTT(40)
  <2>3. n > 0 => \A k \in at .. at + n - 1 : k \in at .. stop - 1
    BY <1>8, <1>9, <2>1
  <2>4. QED
    BY <1>8, <2>1, <2>2, <2>3
<1>11. at \in Int
  BY <1>7
<1> HIDE DEF n
<1>12. /\ got.rl = IF n = 0 THEN al.rl ELSE Append_run(al.rl, at, n)
       /\ got.clusters = al.clusters - n /\ got.count = al.count
       /\ got.clusters \in Nat /\ got.search = al.search
       /\ got.rl \in Seq(Run) => got \in AllocCall
       /\ got.turns = al.turns + 1 /\ got.done_zones = al.done_zones
       /\ got.zone_end = al.zone_end /\ got.zone_start = al.zone_start
       /\ got.flagged = al.flagged /\ got.avail = al.avail /\ got.start_lcn = al.start_lcn
       /\ got.pass = al.pass /\ got.used_zone_pos = al.used_zone_pos
       /\ n = 0 => ~got.has_guess
  <2>1. al.clusters - n \in Nat /\ al.turns + 1 \in Nat
    BY <1>2, <1>9
  <2>2. n = 0 => at = -1
    BY <1>9
  <2>3. QED
    BY <2>1, <2>2 DEF AllocCall
<1> HIDE DEF got
<1>120. /\ al.search \notin full_zones /\ al.bmp_pos < end /\ end <= BmpBits /\ end \in Nat
        /\ (al.bmp_pos \div ByteBits) + 1 <= end \div ByteBits
  <2>1. first + 1 <= first + br
    BY <1>3, <1>5
  <2>2. QED
    BY <1>1, <1>6, <1>60, <2>1 DEF first
<1>13. CASE got.clusters = 0
  <2>1. n > 0
    BY <1>2, <1>9, <1>12, <1>13
  <2>2. /\ al' = got
        /\ pos' = IF al.used_zone_pos
                  THEN set_zone_pos(pos, al.search, at + n + Skip) ELSE pos
        /\ Writeback(at .. at + n - 1, got.rl, "done")
    BY <1>1, <1>13
  <2>3. pos' \in [Zones -> Nat]
    <3>1. at + n + Skip \in Int
      BY <1>2, <1>9, <1>11
    <3>2. QED
      BY <1>2, <2>2, <3>1, ZonePositions
  <2>4. \/ /\ disk' = [b \in DOMAIN disk |-> disk[b] \/ (n > 0 /\ b \in at .. at + n - 1)]
           /\ pc' = "done" /\ UNCHANGED <<faults, fr>>
        \/ GiveBack(got.rl, {}) /\ UNCHANGED disk /\ faults' \in Nat
    <3>1. CASE /\ disk' = [b \in DOMAIN disk |-> disk[b] \/ b \in at .. at + n - 1]
               /\ pc' = "done" /\ UNCHANGED <<faults, fr>>
      BY <2>1, <3>1
    <3>2. CASE faults > 0 /\ faults' = faults - 1 /\ GiveBack(got.rl, {}) /\ UNCHANGED disk
      BY <1>2, <3>2
    <3>3. QED
      BY <2>2, <3>1, <3>2 DEF Writeback
  <2>5. Takes(at, n)
    BY <1>1, <1>9, <1>10, <1>12, <1>13, <2>2, <2>3, <2>4 DEF Takes
  <2>6. Turn(n, end)
    <3>1. at + n + Skip \in Int
      BY <1>2, <1>9, <1>11
    <3>2. pos' = pos \/ \E tc \in Int : pos' = set_zone_pos(pos, al.search, tc)
      BY <2>2, <3>1
    <3>3. QED
      BY <1>12, <1>13, <1>120, <2>1, <2>2, <3>2 DEF Turn
  <2>7. QED
    BY <1>9, <1>11, <1>120, <2>5, <2>6
<1>14. CASE got.clusters # 0
  <2> DEFINE then == IF al'.bmp_pos < al.zone_end THEN "scan" ELSE "pass"
             taken == IF n = 0 THEN {} ELSE at .. at + n - 1
  <2>1. /\ al' = Onward(got, end) /\ Writeback(taken, got.rl, then) /\ pos' = pos
    BY <1>1, <1>14
  <2>2. /\ al'.rl = got.rl /\ al'.clusters = got.clusters /\ al'.count = got.count
        /\ got.rl \in Seq(Run) => al' \in AllocCall
    <3> DEFINE p == pos[got.search]
    <3>1. p \in Nat /\ end \in Nat
      BY <1>2, <1>6, <1>12
    <3>2. \/ al' = [got EXCEPT !.bmp_pos = end]
          \/ al' = [got EXCEPT !.used_zone_pos = TRUE, !.zone_start = p, !.bmp_pos = p,
                               !.pass = IF AtStart(p) THEN 2 ELSE @]
      BY <2>1 DEF Onward
    <3> HIDE DEF p
    <3>3. /\ got.clusters = al.clusters - n
          /\ got.rl \in Seq(Run) => got \in AllocCall
      BY <1>12
    <3>4. DOMAIN got = DOMAIN al
      BY DEF got
    <3>5. DOMAIN al = {"count", "start_lcn", "rl", "clusters", "zone_start", "zone_end", "bmp_pos", "pass",
                       "search", "done_zones", "has_guess", "used_zone_pos", "turns",
                       "flagged", "avail"}
      BY DEF AllocCall
    <3>6. CASE al' = [got EXCEPT !.bmp_pos = end]
      BY <3>1, <3>3, <3>4, <3>5, <3>6 DEF AllocCall
    <3>7. CASE al' = [got EXCEPT !.used_zone_pos = TRUE, !.zone_start = p, !.bmp_pos = p,
                                 !.pass = IF AtStart(p) THEN 2 ELSE @]
      BY <3>1, <3>3, <3>4, <3>5, <3>7 DEF AllocCall
    <3>8. QED
      BY <3>2, <3>6, <3>7
  <2> HIDE DEF then
  <2>3. then \in {"scan", "pass"}
    BY DEF then
  <2>4. \/ /\ disk' = [b \in DOMAIN disk |-> disk[b] \/ (n > 0 /\ b \in at .. at + n - 1)]
           /\ pc' \in {"scan", "pass"} /\ UNCHANGED <<faults, fr>>
        \/ GiveBack(got.rl, {}) /\ UNCHANGED disk /\ faults' \in Nat
    <3>1. CASE /\ disk' = [b \in DOMAIN disk |-> disk[b] \/ b \in taken]
               /\ pc' = then /\ UNCHANGED <<faults, fr>>
      <4>1. \A b : b \in taken <=> (n > 0 /\ b \in at .. at + n - 1)
        BY <1>9
      <4>2. QED
        BY <2>3, <3>1, <4>1
    <3>2. CASE faults > 0 /\ faults' = faults - 1 /\ GiveBack(got.rl, {}) /\ UNCHANGED disk
      BY <1>2, <3>2
    <3>3. QED
      BY <2>1, <3>1, <3>2 DEF Writeback
  <2>5. Takes(at, n)
    BY <1>1, <1>2, <1>9, <1>10, <1>12, <1>14, <2>1, <2>2, <2>4 DEF Takes
  <2>6. Turn(n, end)
    <3> DEFINE p == pos[al.search]
    <3>1. /\ al.used_zone_pos => al' = [got EXCEPT !.bmp_pos = end]
          /\ ~al.used_zone_pos =>
                al' = [got EXCEPT !.used_zone_pos = TRUE, !.zone_start = p, !.bmp_pos = p,
                                  !.pass = IF AtStart(p) THEN 2 ELSE got.pass]
      BY <1>12, <2>1 DEF Onward
    <3>2. DOMAIN got = {"count", "start_lcn", "rl", "clusters", "zone_start", "zone_end",
                        "bmp_pos", "pass", "search", "done_zones", "has_guess",
                        "used_zone_pos", "turns", "flagged", "avail"}
      BY DEF AllocCall, got
    <3>3. al.used_zone_pos \in BOOLEAN
      BY DEF AllocCall
    <3> HIDE DEF p
    <3>4. /\ al'.turns = al.turns + 1 /\ al'.search = al.search
          /\ al'.done_zones = al.done_zones /\ al'.zone_end = al.zone_end
          /\ al'.flagged = al.flagged /\ al'.avail = al.avail /\ al'.start_lcn = al.start_lcn
          /\ al'.has_guess = got.has_guess /\ al'.used_zone_pos
          /\ al.used_zone_pos => /\ al'.bmp_pos = end /\ al'.zone_start = al.zone_start
                                 /\ al'.pass = al.pass
          /\ ~al.used_zone_pos => /\ al'.bmp_pos = p /\ al'.zone_start = p
                                  /\ al'.pass = IF AtStart(p) THEN 2 ELSE al.pass
      <4>1. CASE al.used_zone_pos
        BY <1>12, <3>1, <3>2, <4>1
      <4>2. CASE ~al.used_zone_pos
        BY <1>12, <3>1, <3>2, <4>2
      <4>3. QED
        BY <4>1, <4>2
    <3>5. pc' = "free" \/ pc' = then
      BY <2>1 DEF Writeback, GiveBack
    <3>6. n = 0 => ~al'.has_guess /\ (~al.has_guess => Marked(al.bmp_pos, end))
      BY <1>9, <1>12, <1>70, <3>4
    <3>7. QED
      BY <1>120, <2>1, <3>4, <3>5, <3>6 DEF Turn, then, p
  <2>7. QED
    BY <1>9, <1>11, <1>120, <2>5, <2>6
<1>15. QED
  BY <1>13, <1>14

-----------------------------------------------------------------------------
(* Facts about sets and lists that the steps need.                         *)

\* Taking a subset away takes its number of elements away.
LEMMA CardinalityMinus ==
  ASSUME NEW S, IsFiniteSet(S), NEW T \in SUBSET S
  PROVE  /\ IsFiniteSet(S \ T) /\ IsFiniteSet(T)
         /\ Cardinality(S) \in Nat /\ Cardinality(T) \in Nat /\ Cardinality(S \ T) \in Nat
         /\ Cardinality(S) = Cardinality(S \ T) + Cardinality(T)
<1>1. IsFiniteSet(T) /\ IsFiniteSet(S \ T)
  BY FS_Subset
<1>2. /\ (S \ T) \cup T = S /\ (S \ T) \cap T = {}
  OBVIOUS
<1>3. Cardinality(S) \in Nat /\ Cardinality(T) \in Nat /\ Cardinality(S \ T) \in Nat
  BY <1>1, FS_CardinalityType
<1>4. Cardinality((S \ T) \cup T)
        = Cardinality(S \ T) + Cardinality(T) - Cardinality((S \ T) \cap T)
  BY <1>1, FS_Union
<1>5. Cardinality(S) = Cardinality(S \ T) + Cardinality(T) - Cardinality({})
  BY <1>2, <1>4, Zenon
<1>6. Cardinality({}) = 0
  BY FS_EmptySet
<1>7. QED
  BY <1>1, <1>3, <1>5, <1>6

\* Sets of clusters are finite.
LEMMA ClustersCount ==
  ASSUME NEW S \in SUBSET Clusters
  PROVE  IsFiniteSet(S) /\ Cardinality(S) \in Nat
<1>1. IsFiniteSet(Clusters)
  BY ZoneFacts, FS_Interval DEF Clusters
<1>2. QED
  BY <1>1, FS_Subset, FS_CardinalityType

\* The empty list.
LEMMA NoRuns ==
    /\ ClustersOf(<<>>) = {} /\ Cardinality(ClustersOf(<<>>)) = 0
    /\ RunsOK(<<>>) /\ Chained(<<>>, 0)
<1>1. ClustersOf(<<>>) = {}
  BY DEF ClustersOf
<1>2. QED
  BY <1>1, FS_EmptySet DEF RunsOK, Chained

\* The first run of a list and the rest of it.
LEMMA HeadAndTail ==
  ASSUME NEW rl, RunsOK(rl), rl # <<>>
  PROVE  /\ Head(rl) \in Run /\ Head(rl).lcn + Head(rl).length <= BmpBits
         /\ RunsOK(Tail(rl))
         /\ ClustersOf(rl) = RunClusters(Head(rl)) \cup ClustersOf(Tail(rl))
         /\ RunClusters(Head(rl)) \cap ClustersOf(Tail(rl)) = {}
<1>1. /\ rl \in Seq(Run) /\ DOMAIN rl = 1 .. Len(rl) /\ Len(rl) \in Nat \ {0}
      /\ Head(rl) = rl[1] /\ 1 \in DOMAIN rl
      /\ \A i \in DOMAIN rl : rl[i] \in Run /\ rl[i].lcn + rl[i].length <= BmpBits
      /\ \A i, j \in DOMAIN rl : i # j => RunClusters(rl[i]) \cap RunClusters(rl[j]) = {}
  BY DEF RunsOK
<1> DEFINE t == Tail(rl)
<1>2. /\ t \in Seq(Run) /\ DOMAIN t = 1 .. Len(rl) - 1
      /\ \A i \in DOMAIN t : t[i] = rl[i + 1] /\ i + 1 \in DOMAIN rl /\ i + 1 # 1
  BY <1>1
<1>3. \A i \in DOMAIN rl : i = 1 \/ (i - 1 \in DOMAIN t /\ t[i - 1] = rl[i])
  BY <1>1, <1>2
<1> HIDE DEF t
<1>4. RunsOK(t)
  <2>1. \A i, j \in DOMAIN t : i # j => i + 1 # j + 1
    BY <1>2
  <2>2. QED
    BY <1>1, <1>2, <2>1 DEF RunsOK
<1>5. \A c : c \in ClustersOf(rl) <=> c \in RunClusters(rl[1]) \/ c \in ClustersOf(t)
  <2>1. TAKE c
  <2>2. c \in ClustersOf(rl) <=> \E i \in DOMAIN rl : c \in RunClusters(rl[i])
    BY ClustersOfIs
  <2>3. c \in ClustersOf(t) <=> \E i \in DOMAIN t : c \in RunClusters(t[i])
    BY ClustersOfIs
  <2>4. QED
    BY <1>1, <1>2, <1>3, <2>2, <2>3
<1>6. ASSUME NEW c, c \in RunClusters(rl[1]), c \in ClustersOf(t) PROVE FALSE
  <2>1. PICK i \in DOMAIN t : c \in RunClusters(t[i])
    BY <1>6, ClustersOfIs
  <2>2. QED
    BY <1>1, <1>2, <1>6, <2>1
<1>7. QED
  BY <1>1, <1>4, <1>5, <1>6 DEF t

\* The number of clusters of a run.
LEMMA RunCount ==
  ASSUME NEW r \in Run
  PROVE  IsFiniteSet(RunClusters(r)) /\ Cardinality(RunClusters(r)) = r.length
<1>1. r.lcn \in Int /\ r.lcn + r.length - 1 \in Int /\ r.length \in Nat \ {0}
  BY DEF Run
<1>2. IsFiniteSet(r.lcn .. r.lcn + r.length - 1)
      /\ Cardinality(r.lcn .. r.lcn + r.length - 1)
            = IF r.lcn > r.lcn + r.length - 1 THEN 0 ELSE (r.lcn + r.length - 1) - r.lcn + 1
  BY ONLY <1>1, FS_Interval
<1>3. QED
  BY <1>1, <1>2 DEF RunClusters, Run

\* Runs of files are runs inside the volume that share no cluster.
LEMMA FileRuns ==
  ASSUME StateInv, NEW rl \in RunLists
  PROVE  RunsOK(rl) /\ ClustersOf(rl) \subseteq owned
<1>1. /\ owned \subseteq Clusters /\ NrClusters \in Nat /\ NrClusters <= BmpBits /\ BmpBits \in Nat
  BY ZoneFacts DEF StateInv
<1>2. ASSUME NEW r \in Runs, rl = <<r>> PROVE RunsOK(rl) /\ ClustersOf(rl) \subseteq owned
  <2>1. r \in Run /\ RunClusters(r) \subseteq owned
    BY <1>1 DEF Runs, Run, Clusters
  <2>2. r.lcn + r.length - 1 \in RunClusters(r)
    BY <2>1 DEF RunClusters, Run
  <2>3. r.lcn + r.length <= BmpBits
    BY <1>1, <2>1, <2>2 DEF Clusters, Run
  <2>4. rl \in Seq(Run) /\ DOMAIN rl = {1} /\ rl[1] = r
    BY <1>2, <2>1
  <2>5. QED
    BY <2>1, <2>3, <2>4, ClustersOfIs DEF RunsOK
<1>3. ASSUME NEW p \in {q \in owned \X owned : q[1] < q[2]},
             rl = <<[vcn |-> 0, lcn |-> p[1], length |-> 1],
                    [vcn |-> 1, lcn |-> p[2], length |-> 1]>>
      PROVE  RunsOK(rl) /\ ClustersOf(rl) \subseteq owned
  <2>1. p[1] \in owned /\ p[2] \in owned /\ p[1] < p[2]
    OBVIOUS
  <2>2. p[1] \in 0 .. NrClusters - 1 /\ p[2] \in 0 .. NrClusters - 1
    BY <1>1, <2>1 DEF Clusters
  <2> DEFINE r1 == [vcn |-> 0, lcn |-> p[1], length |-> 1]
             r2 == [vcn |-> 1, lcn |-> p[2], length |-> 1]
  <2>3. r1 \in Run /\ r2 \in Run
    BY <2>2, <1>1 DEF Run
  <2>4. RunClusters(r1) = {p[1]} /\ RunClusters(r2) = {p[2]}
    BY <1>1, <2>2 DEF RunClusters
  <2>5. r1.lcn + r1.length <= BmpBits /\ r2.lcn + r2.length <= BmpBits
    BY <1>1, <2>2
  <2> HIDE DEF r1, r2
  <2>6. rl \in Seq(Run) /\ DOMAIN rl = {1, 2} /\ rl[1] = r1 /\ rl[2] = r2
    BY <1>3, <2>3 DEF r1, r2
  <2>7. p[1] # p[2]
    BY <1>1, <2>1, <2>2
  <2>8. RunsOK(rl)
    BY <2>3, <2>4, <2>5, <2>6, <2>7 DEF RunsOK
  <2>9. QED
    BY <2>1, <2>4, <2>6, <2>8, ClustersOfIs
<1>4. QED
  BY <1>2, <1>3 DEF RunLists

-----------------------------------------------------------------------------
(* Every step keeps the invariant.                                         *)

\* While clusters are searched for, the volume is whole and nothing is given back.
LEMMA SearchFacts ==
  ASSUME IInv, Searching
  PROVE  /\ ~leaked /\ al \in AllocCall /\ Held = al.rl /\ fr = NoFree /\ loc = B!NoCall
         /\ Kept = owned \cup System \cup Padding /\ Before = disk
         /\ RunsOK(al.rl) /\ ClustersOf(al.rl) \cap Kept = {}
         /\ \A b \in B!BitSet : disk[b] <=> b \in Kept \cup ClustersOf(al.rl)
         /\ free + Cardinality(ClustersOf(al.rl)) = Cardinality(Clusters \ Kept)
         /\ ClustersOf(al.rl) \subseteq Clusters \ Kept
<1>1. pc # "idle" /\ pc # "free"
  BY DEF Searching
<1>2. ~leaked /\ fr = NoFree /\ loc = B!NoCall /\ al \in AllocCall /\ RunsOK(Held)
  BY <1>1 DEF IInv, CallsInv
<1>3. Held = al.rl /\ Kept = owned \cup System \cup Padding /\ Before = disk
  BY <1>1, <1>2 DEF Held, Kept, Before, NoFree, B!NoCall
<1>4. /\ ClustersOf(al.rl) \cap Kept = {}
      /\ \A b \in B!BitSet : disk[b] <=> b \in Kept \cup ClustersOf(al.rl)
  <2>1. DiskInv /\ disk \in [B!BitSet -> BOOLEAN]
    BY DEF IInv, StateInv
  <2>2. QED
    BY <1>2, <1>3, <2>1 DEF DiskInv
<1>5. free + Cardinality(ClustersOf(al.rl)) = Cardinality(Clusters \ Kept)
  <2>1. free + fr.nr_freed + Cardinality(ClustersOf(al.rl)) = Cardinality(Clusters \ Kept)
    BY <1>2, <1>3 DEF IInv, CountInv
  <2>2. fr.nr_freed = 0 /\ free \in Nat
    BY <1>2 DEF NoFree, IInv, StateInv
  <2>3. QED
    BY <2>1, <2>2
<1>6. ClustersOf(al.rl) \subseteq Clusters \ Kept
  <2>1. ClustersOf(al.rl) \subseteq B!BitSet
    BY <1>2, <1>3, ClustersFinite
  <2>2. QED
    BY <1>3, <1>4, <2>1, ZoneFacts
<1>7. QED
  BY <1>2, <1>3, <1>4, <1>5, <1>6

\* Outside calls the bitmap marks the clusters of files and of the file system.
LEMMA IdleFacts ==
  ASSUME IInv, pc = "idle"
  PROVE  /\ al = NoAlloc /\ Held = <<>> /\ fr = NoFree /\ loc = B!NoCall
         /\ Kept = owned \cup System \cup Padding /\ Before = disk
         /\ ~leaked => /\ \A b \in B!BitSet : disk[b] <=> b \in Kept
                       /\ free = Cardinality(Clusters \ Kept)
<1>1. al = NoAlloc /\ fr = NoFree /\ loc = B!NoCall
  BY DEF IInv, CallsInv
<1>2. Held = <<>> /\ Kept = owned \cup System \cup Padding /\ Before = disk
  BY <1>1 DEF Held, Kept, Before, NoFree, NoAlloc, B!NoCall
<1>3. ASSUME ~leaked
      PROVE  /\ \A b \in B!BitSet : disk[b] <=> b \in Kept
             /\ free = Cardinality(Clusters \ Kept)
  <2>1. DiskInv /\ disk \in [B!BitSet -> BOOLEAN]
    BY DEF IInv, StateInv
  <2>2. \A b \in B!BitSet : disk[b] <=> b \in Kept
    BY <1>2, <1>3, <2>1, NoRuns DEF DiskInv
  <2>3. free + fr.nr_freed + Cardinality(ClustersOf(<<>>)) = Cardinality(Clusters \ Kept)
    BY <1>2, <1>3 DEF IInv, CountInv
  <2>4. fr.nr_freed = 0 /\ free \in Nat
    BY <1>1 DEF NoFree, IInv, StateInv
  <2>5. QED
    BY <2>2, <2>3, <2>4, NoRuns
<1>4. QED
  BY <1>1, <1>2, <1>3

\* What is to be shown of a state in which clusters are searched for.
SearchState ==
    /\ StateInv /\ AskedInv /\ Searching
    /\ al \in AllocCall /\ (pc = "done" <=> al.clusters = 0)
    /\ fr = NoFree /\ loc = B!NoCall /\ ~leaked /\ RunsOK(al.rl)
    /\ ClustersOf(al.rl) \cap (owned \cup System \cup Padding) = {}
    /\ \A b \in B!BitSet :
          disk[b] <=> b \in owned \cup System \cup Padding \cup ClustersOf(al.rl)
    /\ free + Cardinality(ClustersOf(al.rl))
          = Cardinality(Clusters \ (owned \cup System \cup Padding))

LEMMA SearchInv == SearchState => IInv
<1> SUFFICES ASSUME SearchState PROVE IInv
  OBVIOUS
<1> USE DEF SearchState
<1>1. pc # "idle" /\ pc # "free" /\ Held = al.rl /\ Kept = owned \cup System \cup Padding
      /\ Before = disk
  BY DEF Searching, Held, Kept, Before, NoFree, B!NoCall
<1>2. CallsInv
  BY <1>1 DEF CallsInv
<1>3. ClearInv /\ DiskInv
  BY <1>1 DEF ClearInv, DiskInv
<1>4. CountInv
  <2>1. fr.nr_freed = 0 /\ free \in Nat
    BY DEF NoFree, StateInv
  <2>2. QED
    BY <1>1, <2>1 DEF CountInv
<1>5. QED
  BY <1>2, <1>3, <1>4 DEF IInv

\* A step of the search that takes nothing.
LEMMA ControlStep ==
  ASSUME IInv, Searching, al.clusters # 0, pc' \in {"scan", "pass", "zone"},
         al' \in AllocCall, al'.rl = al.rl, al'.clusters = al.clusters, al'.count = al.count,
         pos' \in [Zones -> Nat], full_zones' \subseteq Zones,
         UNCHANGED <<disk, owned, free, faults, leaked, fr, loc>>
  PROVE  IInv'
<1>1. /\ ~leaked /\ al \in AllocCall /\ fr = NoFree /\ loc = B!NoCall
      /\ Kept = owned \cup System \cup Padding
      /\ RunsOK(al.rl) /\ ClustersOf(al.rl) \cap Kept = {}
      /\ \A b \in B!BitSet : disk[b] <=> b \in Kept \cup ClustersOf(al.rl)
      /\ free + Cardinality(ClustersOf(al.rl)) = Cardinality(Clusters \ Kept)
  BY SearchFacts
<1>2. StateInv'
  BY DEF IInv, StateInv
<1>3. AskedInv'
  BY DEF IInv, AskedInv, Searching
<1>4. Searching' /\ (pc' = "done" <=> al'.clusters = 0)
  BY DEF Searching
<1>5. RunsOK(al.rl)'
  BY <1>1 DEF RunsOK
<1>6. QED
  <2>1. /\ ClustersOf(al'.rl) \cap (owned' \cup System \cup Padding) = {}
        /\ \A b \in B!BitSet :
              disk'[b] <=> b \in owned' \cup System \cup Padding \cup ClustersOf(al'.rl)
        /\ free' + Cardinality(ClustersOf(al'.rl))
              = Cardinality(Clusters \ (owned' \cup System \cup Padding))
        /\ fr' = NoFree /\ loc' = B!NoCall /\ ~leaked'
    BY <1>1
  <2>2. SearchState'
    BY <1>2, <1>3, <1>4, <1>5, <2>1 DEF SearchState
  <2>3. QED
    BY <2>2, SearchInv, PTL

\* What is to be shown of a state between calls.
IdleState ==
    /\ StateInv /\ pc = "idle" /\ al = NoAlloc /\ fr = NoFree /\ loc = B!NoCall
    /\ ~leaked => /\ \A b \in B!BitSet : disk[b] <=> b \in owned \cup System \cup Padding
                  /\ free = Cardinality(Clusters \ (owned \cup System \cup Padding))

LEMMA IdleInv == IdleState => IInv
<1> SUFFICES ASSUME IdleState PROVE IInv
  OBVIOUS
<1>1. /\ StateInv /\ pc = "idle" /\ al = NoAlloc /\ fr = NoFree /\ loc = B!NoCall
      /\ Held = <<>> /\ Kept = owned \cup System \cup Padding /\ Before = disk
  BY DEF IdleState, Held, Kept, Before, NoFree, NoAlloc, B!NoCall
<1>2. CallsInv /\ AskedInv /\ ClearInv
  BY <1>1, NoRuns DEF CallsInv, AskedInv, ClearInv, Searching, NoFree
<1>3. DiskInv
  <2> SUFFICES ASSUME ~leaked
               PROVE  /\ ClustersOf(Held) \cap Kept = {}
                      /\ \A b \in B!BitSet : disk[b] <=> b \in Kept
    BY <1>1 DEF DiskInv, Searching
  <2>1. QED
    BY <1>1, NoRuns DEF IdleState
<1>4. CountInv
  <2> SUFFICES ASSUME ~leaked
               PROVE  free + fr.nr_freed + Cardinality(ClustersOf(Held)) = Cardinality(Clusters \ Kept)
    BY DEF CountInv
  <2>1. fr.nr_freed = 0 /\ free \in Nat /\ free = Cardinality(Clusters \ Kept)
    BY <1>1 DEF NoFree, StateInv, IdleState
  <2>2. QED
    BY <1>1, <2>1, NoRuns
<1>5. QED
  BY <1>1, <1>2, <1>3, <1>4 DEF IInv

\* What is to be shown of a state in which runs are given back.
FreeState ==
    /\ StateInv /\ pc = "free" /\ ~leaked /\ RunsOK(fr.rl) /\ ClearInv
    /\ ClustersOf(fr.rl) \cap Kept = {}
    /\ \A b \in B!BitSet : /\ b \in Kept => Before[b]
                           /\ Before[b] => b \in Kept \cup ClustersOf(fr.rl)
    /\ free + fr.nr_freed + Cardinality(ClustersOf(fr.rl)) = Cardinality(Clusters \ Kept)

LEMMA FreeInv == FreeState => IInv
<1> SUFFICES ASSUME FreeState PROVE IInv
  OBVIOUS
<1>1. StateInv /\ pc = "free" /\ ~leaked /\ RunsOK(fr.rl) /\ ClearInv /\ Held = fr.rl /\ ~Searching
  BY DEF FreeState, Held, Searching
<1>2. CallsInv /\ AskedInv
  BY <1>1 DEF CallsInv, AskedInv
<1>3. DiskInv /\ CountInv
  BY <1>1 DEF FreeState, DiskInv, CountInv
<1>4. QED
  BY <1>1, <1>2, <1>3 DEF IInv

LEMMA FreeFacts ==
  ASSUME IInv, pc = "free", ~leaked
  PROVE  FreeState
<1>1. Held = fr.rl /\ RunsOK(Held) /\ StateInv /\ ClearInv
  BY DEF IInv, CallsInv, Held
<1>2. QED
  BY <1>1 DEF IInv, DiskInv, CountInv, FreeState

\* A bitmap that marks the members of a set.
LEMMA Marks ==
  ASSUME NEW S, NEW T
  PROVE  [b \in S |-> b \in T] \in [S -> BOOLEAN]
  OBVIOUS

\* The volume is mounted: nothing is in progress.
LEMMA InitStep == Init => IInv
<1> SUFFICES ASSUME Init PROVE IInv
  OBVIOUS
<1>1. StateInv
  <2>1. /\ disk \in [B!BitSet -> BOOLEAN] /\ owned \subseteq Clusters \ System
    <3>1. /\ disk = [b \in 0 .. BmpBits - 1 |-> b \in owned \cup System \cup Padding]
          /\ owned \in SUBSET (Clusters \ System)
      BY DEF Init
    <3>2. B!BitSet = 0 .. BmpBits - 1
      BY Sizes
    <3>3. QED
      BY <3>1, <3>2, Marks
  <2>2. pos \in [Zones -> Nat]
    BY LcnAllocAssumption DEF Init, Zones
  <2>3. free \in Nat
    BY ClustersCount DEF Init
  <2>4. fr \in [rl : Seq(Run), owner : SUBSET Clusters, nr_freed : Nat]
    BY DEF Init, NoFree
  <2>5. QED
    BY <2>1, <2>2, <2>3, <2>4, LcnAllocAssumption DEF Init, StateInv
<1>2. /\ pc = "idle" /\ al = NoAlloc /\ fr = NoFree /\ loc = B!NoCall
      /\ disk = [b \in 0 .. BmpBits - 1 |-> b \in owned \cup System \cup Padding]
      /\ free = Cardinality(Clusters \ used)
  BY DEF Init
<1>3. \A b \in B!BitSet : disk[b] <=> b \in owned \cup System \cup Padding
  BY <1>2, Sizes
<1>4. Clusters \ used = Clusters \ (owned \cup System \cup Padding)
  <2>1. \A b \in Clusters : b \in used <=> b \in owned \cup System \cup Padding
    BY <1>3, ZoneFacts, Sizes DEF used
  <2>2. QED
    BY <2>1
<1>5. IdleState
  BY <1>1, <1>2, <1>3, <1>4 DEF IdleState
<1>6. QED
  BY <1>5, IdleInv

\* ntfs_cluster_alloc is called.
LEMMA AllocStep ==
  ASSUME IInv, ~leaked, NEW count \in 1 .. MaxCount, NEW start_lcn \in Hints \cup {-1},
         NEW zone, Alloc(count, start_lcn, zone)
  PROVE  IInv'
<1> DEFINE from == IF start_lcn >= 0 THEN start_lcn
                   ELSE IF zone = "DATA" THEN pos["DATA1"] ELSE pos["MFT"]
           z == ZoneOf(from)
<1>1. /\ pc = "idle" /\ pc' = "scan"
      /\ al' = [count |-> count, start_lcn |-> start_lcn, rl |-> <<>>, clusters |-> count,
                zone_start |-> from, zone_end |-> ZoneEnd[z], bmp_pos |-> from,
                pass |-> IF AtStart(from) THEN 2 ELSE 1,
                search |-> z, done_zones |-> {},
                has_guess |-> start_lcn >= 0, used_zone_pos |-> start_lcn < 0,
                turns |-> 0, flagged |-> full_zones,
                avail |-> Cardinality(Clusters \ used)]
      /\ UNCHANGED <<disk, owned, pos, full_zones, free, faults, leaked, fr, loc>>
  BY DEF Alloc
<1>2. /\ fr = NoFree /\ loc = B!NoCall /\ StateInv
      /\ \A b \in B!BitSet : disk[b] <=> b \in owned \cup System \cup Padding
      /\ free = Cardinality(Clusters \ (owned \cup System \cup Padding))
  BY <1>1, IdleFacts DEF IInv
<1>3. from \in Nat /\ count \in Nat \ {0} /\ start_lcn \in Int
  <2>1. start_lcn \in Nat \/ start_lcn = -1
    BY LcnAllocAssumption
  <2>2. pos["DATA1"] \in Nat /\ pos["MFT"] \in Nat
    BY <1>2 DEF StateInv, Zones
  <2>3. MaxCount \in Nat
    BY LcnAllocAssumption
  <2>4. QED
    BY <2>1, <2>2, <2>3
<1> HIDE DEF from
<1>4. z \in Zones /\ ZoneEnd[z] \in Nat
  BY ZoneFacts
<1> HIDE DEF z
<1>5. al' \in AllocCall
  <2>1. Cardinality(Clusters \ used) \in Nat /\ full_zones \subseteq Zones
    BY <1>2, ClustersCount DEF StateInv
  <2>2. (start_lcn >= 0) \in BOOLEAN /\ (start_lcn < 0) \in BOOLEAN /\ <<>> \in Seq(Run)
    OBVIOUS
  <2>3. QED
    BY <1>1, <1>3, <1>4, <2>1, <2>2 DEF AllocCall
<1>6. StateInv' /\ Searching'
  BY <1>1, <1>2 DEF StateInv, Searching
<1>7. al'.rl = <<>> /\ al'.count = count /\ al'.clusters = count
  BY <1>1
<1>8. AskedInv' /\ RunsOK(al.rl)'
  <2>1. count - count = 0
    BY <1>3
  <2>2. RunsOK(al.rl)' /\ Chained(al.rl, al.count - al.clusters)'
        /\ Cardinality(ClustersOf(al'.rl)) = al'.count - al'.clusters
    BY <1>7, <2>1, NoRuns DEF RunsOK, Chained
  <2>3. QED
    BY <2>2 DEF AskedInv
<1>9. SearchState'
  <2>1. ClustersOf(al'.rl) = {} /\ Cardinality(ClustersOf(al'.rl)) = 0
    BY <1>7, NoRuns
  <2>2. free' + Cardinality(ClustersOf(al'.rl)) = free /\ free \in Nat
    BY <1>1, <1>2, <2>1 DEF StateInv
  <2>3. (pc' = "done" <=> al'.clusters = 0)
    BY <1>1, <1>3, <1>7
  <2>4. QED
    BY <1>1, <1>2, <1>5, <1>6, <1>8, <2>1, <2>2, <2>3 DEF SearchState
<1>10. QED
  BY <1>9, SearchInv, PTL

\* Steps of the search that take nothing.
LEMMA SkipScanStep ==
  ASSUME IInv, SkipScan
  PROVE  IInv'
<1>1. pc = "scan" /\ pc' = "pass" /\ al' = [al EXCEPT !.turns = @ + 1]
      /\ UNCHANGED <<disk, owned, pos, full_zones, free, faults, leaked, fr, loc>>
  BY DEF SkipScan
<1>2. Searching /\ al \in AllocCall /\ al.clusters # 0
  BY <1>1 DEF IInv, CallsInv, Searching
<1>3. al' \in AllocCall /\ al'.rl = al.rl /\ al'.clusters = al.clusters /\ al'.count = al.count
  <2>1. al.turns + 1 \in Nat
    BY <1>2 DEF AllocCall
  <2>2. al' = [al EXCEPT !.turns = al.turns + 1]
    BY <1>1
  <2>3. QED
    BY <1>2, <2>1, <2>2 DEF AllocCall
<1>4. QED
  BY <1>1, <1>2, <1>3, ControlStep DEF IInv, StateInv

LEMMA ZonePassDoneStep ==
  ASSUME IInv, ZonePassDone
  PROVE  IInv'
<1>1. /\ pc = "pass" /\ UNCHANGED <<disk, owned, pos, full_zones, free, faults, leaked, fr, loc>>
      /\ \/ /\ LET s == ZoneFirst[al.search]
               IN  al' = [al EXCEPT !.pass = 2, !.zone_start = s, !.bmp_pos = s,
                                    !.zone_end = Max({al.zone_start, s})]
            /\ pc' = "scan"
         \/ pc' = "zone" /\ al' = al
  BY DEF ZonePassDone
<1>2. Searching /\ al \in AllocCall /\ al.clusters # 0
  BY <1>1 DEF IInv, CallsInv, Searching
<1>3. /\ pc' \in {"scan", "zone"} /\ al' \in AllocCall /\ al'.rl = al.rl
      /\ al'.clusters = al.clusters /\ al'.count = al.count
  <2> DEFINE s == ZoneFirst[al.search]
             m == Max({al.zone_start, s})
  <2>1. s \in Nat /\ al.zone_start \in Nat
    BY <1>2, ZoneFacts DEF AllocCall
  <2>2. m \in Nat
    <3>1. al.zone_start \in Int /\ s \in Int
      BY <2>1
    <3> HIDE DEF s
    <3>2. m = IF al.zone_start <= s THEN s ELSE al.zone_start
      BY ONLY <3>1, MinMaxOfTwo
    <3>3. QED
      BY <2>1, <3>2
  <2>3. CASE pc' = "scan" /\ al' = [al EXCEPT !.pass = 2, !.zone_start = s, !.bmp_pos = s,
                                              !.zone_end = m]
    <3> HIDE DEF s, m
    <3>1. QED
      BY <1>2, <2>1, <2>2, <2>3 DEF AllocCall
  <2>4. QED
    BY <1>1, <1>2, <2>3
<1>4. QED
  BY <1>1, <1>2, <1>3, ControlStep DEF IInv, StateInv

\* What a turn of the loop takes is added to the list, and no longer free.
LEMMA TakesFacts ==
  ASSUME IInv, pc = "scan", NEW at \in Int, NEW n \in Nat, Takes(at, n)
  PROVE  LET added == IF n = 0 THEN {} ELSE at .. at + n - 1
             new == ClustersOf(al'.rl)
         IN  /\ al' \in AllocCall /\ RunsOK(al'.rl) /\ new = ClustersOf(al.rl) \cup added
             /\ Chained(al'.rl, al'.count - al'.clusters)
             /\ Cardinality(new) = al'.count - al'.clusters
             /\ new \cap Kept = {} /\ \A b \in added : b \in B!BitSet /\ ~disk[b]
             /\ free' \in Nat /\ free' + Cardinality(new) = Cardinality(Clusters \ Kept)
<1> DEFINE added == IF n = 0 THEN {} ELSE at .. at + n - 1
           old == ClustersOf(al.rl)
           new == ClustersOf(al'.rl)
<1>1. Searching /\ pc # "done"
  BY DEF Searching
<1>2. /\ al \in AllocCall /\ RunsOK(al.rl) /\ old \cap Kept = {}
      /\ \A b \in B!BitSet : disk[b] <=> b \in Kept \cup old
      /\ free + Cardinality(old) = Cardinality(Clusters \ Kept)
      /\ old \subseteq Clusters \ Kept /\ Kept = owned \cup System \cup Padding
  BY <1>1, SearchFacts
<1>3. /\ Chained(al.rl, al.count - al.clusters)
      /\ Cardinality(old) = al.count - al.clusters
  BY <1>1 DEF IInv, AskedInv
<1>4. al.count \in Nat /\ al.clusters \in Nat /\ free \in Nat /\ n <= al.clusters
      /\ Cardinality(old) \in Nat /\ IsFiniteSet(old)
  BY <1>2, ClustersFinite DEF AllocCall, IInv, StateInv, Takes
<1>5. /\ al'.rl = IF n = 0 THEN al.rl ELSE Append_run(al.rl, at, n)
      /\ al'.clusters = al.clusters - n /\ al'.count = al.count
      /\ al'.rl \in Seq(Run) => al' \in AllocCall
      /\ free' = Max({0, free - n})
      /\ n > 0 => at \in Nat /\ at + n <= BmpBits /\ \A k \in at .. at + n - 1 : ~disk[k]
  BY DEF Takes
<1>6. \A b \in added : b \in B!BitSet /\ ~disk[b]
  <2>1. BmpBits \in Nat /\ B!BitSet = 0 .. BmpBits - 1
    BY Sizes
  <2>2. QED
    BY <1>5, <2>1
<1>7. added \cap old = {} /\ added \cap Kept = {} /\ added \subseteq Clusters \ Kept
  <2>1. \A b \in added : b \notin old /\ b \notin Kept
    BY <1>2, <1>6
  <2>2. QED
    BY <1>2, <1>6, <2>1, ZoneFacts
<1>8. al'.count - al'.clusters = (al.count - al.clusters) + n
  BY <1>4, <1>5
<1>9. RunsOK(al'.rl) /\ Chained(al'.rl, al'.count - al'.clusters) /\ new = old \cup added
  <2>1. CASE n = 0
    <3>1. al'.rl = al.rl /\ added = {}
      BY <1>5, <2>1
    <3>2. al'.count - al'.clusters = al.count - al.clusters
      BY <1>4, <1>8, <2>1
    <3>3. QED
      BY <1>2, <1>3, <3>1, <3>2
  <2>2. CASE n # 0
    <3>1. /\ al.count - al.clusters \in Nat /\ at \in Nat /\ n \in Nat \ {0} /\ at + n <= BmpBits
          /\ old \cap (at .. at + n - 1) = {}
      BY <1>3, <1>4, <1>5, <1>7, <2>2
    <3>2. al'.rl = Append_run(al.rl, at, n)
      BY <1>5, <2>2
    <3>3. /\ RunsOK(Append_run(al.rl, at, n))
          /\ Chained(Append_run(al.rl, at, n), (al.count - al.clusters) + n)
          /\ ClustersOf(Append_run(al.rl, at, n)) = old \cup (at .. at + n - 1)
      BY <1>2, <1>3, <3>1, AppendRunStep
    <3>4. QED
      BY <1>8, <2>2, <3>2, <3>3
  <2>3. QED
    BY <2>1, <2>2
<1>10. al' \in AllocCall
  BY <1>5, <1>9 DEF RunsOK
<1>11. IsFiniteSet(added) /\ Cardinality(added) = n
  <2>1. CASE n = 0
    BY <2>1, FS_EmptySet
  <2>2. CASE n # 0
    <3>1. at \in Int /\ at + n - 1 \in Int /\ at <= at + n - 1 /\ added = at .. at + n - 1
      BY <1>5, <2>2
    <3>2. IsFiniteSet(at .. at + n - 1) /\ Cardinality(at .. at + n - 1)
             = IF at > at + n - 1 THEN 0 ELSE (at + n - 1) - at + 1
      BY ONLY <3>1, FS_Interval
    <3>3. QED
      BY <3>1, <3>2
  <2>3. QED
    BY <2>1, <2>2
<1> HIDE DEF added, old, new
<1>12. Cardinality(new) = Cardinality(old) + n
  <2>1. Cardinality(old \cup added) = Cardinality(old) + Cardinality(added) - Cardinality(old \cap added)
    BY <1>4, <1>11, FS_Union
  <2>2. old \cap added = {} /\ Cardinality({}) = 0
    BY <1>7, FS_EmptySet
  <2>3. Cardinality(old \cap added) = 0
    BY <2>2
  <2>4. QED
    BY <1>4, <1>9, <1>11, <2>1, <2>3 DEF new
<1>13. new \subseteq Clusters \ Kept /\ new \cap Kept = {}
  BY <1>2, <1>7, <1>9 DEF new
<1>14. Cardinality(new) <= Cardinality(Clusters \ Kept)
  <2>1. IsFiniteSet(Clusters \ Kept)
    BY ClustersCount
  <2>2. QED
    BY <1>13, <2>1, FS_Subset
<1>15. free' = free - n /\ n <= free
  <2>1. Cardinality(Clusters \ Kept) \in Nat
    BY ClustersCount
  <2>2. n <= free
    BY <1>2, <1>4, <1>12, <1>14, <2>1
  <2>3. 0 \in Int /\ free - n \in Int /\ 0 <= free - n
    BY <1>4, <2>2
  <2>4. Max({0, free - n}) = IF 0 <= free - n THEN free - n ELSE 0
    BY ONLY <2>3, MinMaxOfTwo
  <2>5. QED
    BY <1>5, <2>2, <2>3, <2>4
<1>16. free' \in Nat /\ free' + Cardinality(new) = Cardinality(Clusters \ Kept)
  BY <1>2, <1>4, <1>12, <1>15
<1>17. Cardinality(new) = al'.count - al'.clusters
  BY <1>3, <1>4, <1>8, <1>12
<1>18. QED
  BY <1>6, <1>9, <1>10, <1>13, <1>16, <1>17 DEF added, new, old

\* A turn of the loop.
LEMMA ScanKeeps ==
  ASSUME IInv, Scan
  PROVE  IInv'
<1>1. pc = "scan" /\ StateInv
  BY DEF Scan, IInv
<1>2. al \in AllocCall /\ al.clusters # 0 /\ Searching
  BY <1>1 DEF IInv, CallsInv, Searching
<1>3. PICK at \in Int, n \in Nat : Takes(at, n)
  BY <1>1, <1>2, ScanStep
<1> DEFINE added == IF n = 0 THEN {} ELSE at .. at + n - 1
           new == ClustersOf(al'.rl)
<1>4. /\ al' \in AllocCall /\ RunsOK(al'.rl) /\ new = ClustersOf(al.rl) \cup added
      /\ Chained(al'.rl, al'.count - al'.clusters)
      /\ Cardinality(new) = al'.count - al'.clusters
      /\ new \cap Kept = {} /\ \A b \in added : b \in B!BitSet /\ ~disk[b]
      /\ free' \in Nat /\ free' + Cardinality(new) = Cardinality(Clusters \ Kept)
  BY <1>1, <1>3, TakesFacts
<1>5. /\ ~leaked /\ fr = NoFree /\ loc = B!NoCall /\ Kept = owned \cup System \cup Padding
      /\ \A b \in B!BitSet : disk[b] <=> b \in Kept \cup ClustersOf(al.rl)
  BY <1>2, SearchFacts
<1>6. /\ pos' \in [Zones -> Nat] /\ UNCHANGED <<owned, full_zones, leaked, loc>>
      /\ \/ /\ disk' = [b \in DOMAIN disk |-> disk[b] \/ (n > 0 /\ b \in at .. at + n - 1)]
            /\ pc' \in {"scan", "pass", "done"} /\ (pc' = "done" <=> al'.clusters = 0)
            /\ UNCHANGED <<faults, fr>>
         \/ GiveBack(al'.rl, {}) /\ UNCHANGED disk /\ faults' \in Nat
  BY <1>3 DEF Takes
<1>7. disk \in [B!BitSet -> BOOLEAN]
  BY <1>1 DEF StateInv
<1>8. CASE /\ disk' = [b \in DOMAIN disk |-> disk[b] \/ (n > 0 /\ b \in at .. at + n - 1)]
           /\ pc' \in {"scan", "pass", "done"} /\ (pc' = "done" <=> al'.clusters = 0)
           /\ UNCHANGED <<faults, fr>>
  <2>1. \A b : b \in added <=> n > 0 /\ b \in at .. at + n - 1
    OBVIOUS
  <2>2. \A b \in B!BitSet : disk'[b] <=> disk[b] \/ b \in added
    BY <1>7, <1>8, <2>1
  <2>3. disk' \in [B!BitSet -> BOOLEAN]
    <3>1. \A b \in B!BitSet : (disk[b] \/ (n > 0 /\ b \in at .. at + n - 1)) \in BOOLEAN
      OBVIOUS
    <3>2. DOMAIN disk = B!BitSet
      BY <1>7
    <3>3. QED
      BY <1>8, <3>1, <3>2
  <2>4. StateInv' /\ Searching'
    BY <1>1, <1>4, <1>6, <1>8, <2>3 DEF StateInv, Searching
  <2>5. AskedInv' /\ RunsOK(al.rl)'
    BY <1>4 DEF AskedInv, RunsOK, Chained
  <2>6. \A b \in B!BitSet :
           disk'[b] <=> b \in owned' \cup System \cup Padding \cup ClustersOf(al'.rl)
    <3> HIDE DEF added
    <3>1. QED
      BY <1>4, <1>5, <1>6, <2>2
  <2>7. SearchState'
    BY <1>4, <1>5, <1>6, <1>8, <2>4, <2>5, <2>6 DEF SearchState
  <2>8. QED
    BY <2>7, SearchInv, PTL
<1>9. CASE GiveBack(al'.rl, {}) /\ UNCHANGED disk /\ faults' \in Nat
  <2>1. /\ pc' = "free" /\ fr' = [rl |-> al'.rl, owner |-> {}, nr_freed |-> 0]
    BY <1>9 DEF GiveBack
  <2>2. fr' \in [rl : Seq(Run), owner : SUBSET Clusters, nr_freed : Nat]
        /\ fr'.rl = al'.rl /\ fr'.owner = {} /\ fr'.nr_freed = 0
    BY <1>4, <2>1 DEF RunsOK
  <2>3. StateInv'
    BY <1>1, <1>4, <1>6, <1>9, <2>1, <2>2 DEF StateInv
  <2>4. RunsOK(fr.rl)' /\ ClearInv'
    BY <1>4, <1>5, <1>6, <2>2 DEF RunsOK, ClearInv
  <2>5. Kept' = Kept /\ Before' = disk
    BY <1>5, <1>6, <1>9, <2>2 DEF Kept, Before, B!NoCall
  <2>6. \A b \in B!BitSet : /\ b \in Kept' => Before'[b]
                            /\ Before'[b] => b \in Kept' \cup ClustersOf(fr'.rl)
    BY <1>4, <1>5, <2>2, <2>5
  <2>7. free' + fr'.nr_freed + Cardinality(ClustersOf(fr'.rl)) = Cardinality(Clusters \ Kept')
    <3>1. fr'.nr_freed = 0 /\ ClustersOf(fr'.rl) = new /\ Kept' = Kept
      BY <2>2, <2>5
    <3>2. free' + 0 + Cardinality(new) = Cardinality(Clusters \ Kept)
      BY <1>4
    <3> HIDE DEF new
    <3>3. QED
      BY <3>1, <3>2
  <2>8. FreeState'
    BY <1>4, <1>5, <1>6, <2>1, <2>2, <2>3, <2>4, <2>5, <2>6, <2>7 DEF FreeState
  <2>9. QED
    BY <2>8, FreeInv, PTL
<1>10. QED
  BY <1>6, <1>8, <1>9

\* A zone has been searched: the search goes on in the next one, or there is no space
\* and what has been taken is given back.
\* A search that gives up: what it has taken is going to be given back.
LEMMA GiveBackStep ==
  ASSUME IInv, Searching, GiveBack(al.rl, {}), full_zones' \subseteq Zones, faults' \in Nat,
         UNCHANGED <<disk, owned, pos, free, leaked, al, loc>>
  PROVE  IInv'
<1>1. /\ ~leaked /\ fr = NoFree /\ loc = B!NoCall /\ Kept = owned \cup System \cup Padding
      /\ Before = disk /\ RunsOK(al.rl) /\ ClustersOf(al.rl) \cap Kept = {}
      /\ \A b \in B!BitSet : disk[b] <=> b \in Kept \cup ClustersOf(al.rl)
      /\ free + Cardinality(ClustersOf(al.rl)) = Cardinality(Clusters \ Kept)
  BY SearchFacts
<1>2. pc' = "free" /\ fr' = [rl |-> al.rl, owner |-> {}, nr_freed |-> 0]
  BY DEF GiveBack
<1>3. fr' \in [rl : Seq(Run), owner : SUBSET Clusters, nr_freed : Nat]
      /\ fr'.rl = al.rl /\ fr'.owner = {} /\ fr'.nr_freed = 0
  BY <1>1, <1>2 DEF RunsOK
<1>4. StateInv'
  BY <1>2, <1>3 DEF IInv, StateInv
<1>5. RunsOK(fr.rl)' /\ ClearInv'
  <2>1. RunsOK(fr.rl)'
    BY <1>1, <1>3 DEF RunsOK
  <2>2. loc' = B!NoCall
    BY <1>1
  <2>3. QED
    BY <2>1, <2>2 DEF ClearInv, B!NoCall
<1>6. Kept' = Kept /\ Before' = disk
  BY <1>1, <1>3 DEF Kept, Before, B!NoCall
<1>7. free' + fr'.nr_freed + Cardinality(ClustersOf(fr'.rl)) = Cardinality(Clusters \ Kept')
  <2>1. free \in Nat
    BY DEF IInv, StateInv
  <2>2. QED
    BY <1>1, <1>3, <1>6, <2>1
<1>8. FreeState'
  BY <1>1, <1>2, <1>3, <1>4, <1>5, <1>6, <1>7 DEF FreeState
<1>9. QED
  BY <1>8, FreeInv, PTL

\* The bitmap cannot be read.
LEMMA ScanFailsStep ==
  ASSUME IInv, ScanFails
  PROVE  IInv'
<1>1. /\ pc = "scan" /\ GiveBack(al.rl, {}) /\ faults > 0 /\ faults' = faults - 1
      /\ UNCHANGED <<disk, owned, pos, full_zones, free, leaked, al, loc>>
  BY DEF ScanFails
<1>2. Searching
  BY <1>1 DEF Searching
<1>3. full_zones' \subseteq Zones /\ faults' \in Nat
  BY <1>1 DEF IInv, StateInv
<1>4. QED
  BY <1>1, <1>2, <1>3, GiveBackStep

LEMMA ZoneDoneStep ==
  ASSUME IInv, ZoneDone
  PROVE  IInv'
<1> DEFINE done == al.done_zones \cup {al.search}
           last == al.rl[Len(al.rl)]
           moved == IF al.rl # <<>> /\ al.used_zone_pos
                    THEN set_zone_pos(pos, al.search, last.lcn + last.length + Skip) ELSE pos
           next == NextZone(al.search, done)
<1>1. /\ pc = "zone" /\ full_zones' = full_zones \cup {al.search}
      /\ \/ GiveBack(al.rl, {}) /\ UNCHANGED <<pos, al>>
         \/ /\ pos' = moved
            /\ al' = [al EXCEPT !.done_zones = done, !.search = next,
                                !.zone_start = moved[next], !.bmp_pos = moved[next],
                                !.zone_end = ZoneEnd[next],
                                !.pass = IF moved[next] = ZoneFirst[next] THEN 2 ELSE 1]
            /\ pc' = IF moved[next] = ZoneEnd[next] THEN "zone" ELSE "scan"
            /\ UNCHANGED fr
      /\ UNCHANGED <<disk, owned, free, faults, leaked, loc>>
  BY DEF ZoneDone
<1>2. Searching /\ al \in AllocCall /\ al.clusters # 0 /\ StateInv
  BY <1>1 DEF IInv, CallsInv, Searching
<1>3. full_zones' \subseteq Zones /\ al.search \in Zones /\ done \subseteq Zones
  BY <1>1, <1>2 DEF StateInv, AllocCall
<1>4. CASE GiveBack(al.rl, {}) /\ UNCHANGED <<pos, al>>
  <2>1. faults' \in Nat
    BY <1>1, <1>2 DEF StateInv
  <2>2. QED
    BY <1>1, <1>2, <1>3, <1>4, <2>1, GiveBackStep
<1>5. CASE /\ pos' = moved
           /\ al' = [al EXCEPT !.done_zones = done, !.search = next,
                               !.zone_start = moved[next], !.bmp_pos = moved[next],
                               !.zone_end = ZoneEnd[next],
                               !.pass = IF moved[next] = ZoneFirst[next] THEN 2 ELSE 1]
           /\ pc' = IF moved[next] = ZoneEnd[next] THEN "zone" ELSE "scan"
           /\ UNCHANGED fr
  <2>1. moved \in [Zones -> Nat]
    <3>1. pos \in [Zones -> Nat] /\ al.rl \in Seq(Run)
      BY <1>2 DEF StateInv, AllocCall
    <3>2. al.rl # <<>> => last.lcn + last.length + Skip \in Int
      <4>1. al.rl # <<>> => last \in Run
        BY <3>1
      <4>2. Skip \in Nat
        BY LcnAllocAssumption
      <4>3. QED
        BY <4>1, <4>2 DEF Run
    <3>3. QED
      BY <1>3, <3>1, <3>2, ZonePositions
  <2>2. next \in Zones
    BY <1>3, ZoneFacts
  <2>3. moved[next] \in Nat /\ ZoneEnd[next] \in Nat
    BY <2>1, <2>2, ZoneFacts
  <2>4. pc' \in {"scan", "pass", "zone"}
    BY <1>5
  <2> HIDE DEF moved, next, done
  <2>5. /\ al' \in AllocCall /\ al'.rl = al.rl
        /\ al'.clusters = al.clusters /\ al'.count = al.count
    <3> DEFINE where == moved[next]
               pass == IF where = ZoneFirst[next] THEN 2 ELSE 1
               stop == ZoneEnd[next]
    <3>1. al' = [al EXCEPT !.done_zones = done, !.search = next, !.zone_start = where,
                           !.bmp_pos = where, !.zone_end = stop, !.pass = pass]
      BY <1>5
    <3>2. where \in Nat /\ pass \in {1, 2} /\ stop \in Nat
      BY <2>3
    <3> HIDE DEF where, pass, stop
    <3>3. QED
      BY <1>2, <1>3, <2>2, <3>1, <3>2 DEF AllocCall
  <2>6. QED
    BY <1>1, <1>2, <1>3, <1>5, <2>1, <2>4, <2>5, ControlStep
<1>6. QED
  BY <1>1, <1>4, <1>5

\* The caller keeps the clusters.
LEMMA ReturnStep ==
  ASSUME IInv, Return
  PROVE  IInv'
<1> DEFINE C == ClustersOf(al.rl)
<1>1. /\ pc = "done" /\ owned' = owned \cup C /\ pc' = "idle" /\ al' = NoAlloc
      /\ UNCHANGED <<disk, pos, full_zones, free, faults, leaked, fr, loc>>
  BY DEF Return
<1>2. /\ ~leaked /\ fr = NoFree /\ loc = B!NoCall /\ Kept = owned \cup System \cup Padding
      /\ C \cap Kept = {} /\ \A b \in B!BitSet : disk[b] <=> b \in Kept \cup C
      /\ free + Cardinality(C) = Cardinality(Clusters \ Kept) /\ C \subseteq Clusters \ Kept
  BY <1>1, SearchFacts DEF Searching
<1>3. StateInv /\ free \in Nat
  BY DEF IInv, StateInv
<1> HIDE DEF C
<1>4. StateInv'
  BY <1>1, <1>2, <1>3 DEF StateInv
<1>5. Kept \cup C = owned' \cup System \cup Padding
  BY <1>1, <1>2
<1>6. free = Cardinality(Clusters \ (Kept \cup C))
  <2>1. IsFiniteSet(Clusters \ Kept)
    BY ClustersCount
  <2>2. /\ Cardinality(Clusters \ Kept) = Cardinality((Clusters \ Kept) \ C) + Cardinality(C)
        /\ Cardinality((Clusters \ Kept) \ C) \in Nat /\ Cardinality(C) \in Nat
    BY <1>2, <2>1, CardinalityMinus
  <2>3. (Clusters \ Kept) \ C = Clusters \ (Kept \cup C)
    OBVIOUS
  <2>4. QED
    <3> DEFINE rest == Cardinality((Clusters \ Kept) \ C)
    <3>1. free + Cardinality(C) = rest + Cardinality(C)
      BY <1>2, <2>2
    <3>2. rest \in Nat
      BY <2>2
    <3>3. rest = Cardinality(Clusters \ (Kept \cup C))
      BY <2>3
    <3> HIDE DEF rest
    <3>4. free = rest
      BY <1>3, <2>2, <3>1, <3>2
    <3>5. QED
      BY <3>3, <3>4
<1>7. IdleState'
  BY <1>1, <1>2, <1>4, <1>5, <1>6 DEF IdleState
<1>8. QED
  BY <1>7, IdleInv, PTL

\* ntfs_cluster_free is called for runs of a file.
LEMMA FreeStep ==
  ASSUME IInv, ~leaked, NEW rl \in RunLists, Free(rl)
  PROVE  IInv'
<1> DEFINE C == ClustersOf(rl)
           All == owned \cup System \cup Padding
<1>1. /\ pc = "idle" /\ pc' = "free" /\ fr' = [rl |-> rl, owner |-> C, nr_freed |-> 0]
      /\ UNCHANGED <<disk, owned, pos, full_zones, free, faults, leaked, al, loc>>
  BY DEF Free, GiveBack
<1>2. /\ loc = B!NoCall /\ StateInv /\ \A b \in B!BitSet : disk[b] <=> b \in All
      /\ free = Cardinality(Clusters \ All)
  BY <1>1, IdleFacts DEF IInv
<1>3. RunsOK(rl) /\ C \subseteq owned
  BY <1>2, FileRuns
<1>4. owned \subseteq Clusters \ System /\ free \in Nat
  BY <1>2 DEF StateInv
<1> HIDE DEF C
<1>5. /\ fr' \in [rl : Seq(Run), owner : SUBSET Clusters, nr_freed : Nat]
      /\ fr'.rl = rl /\ fr'.owner = C /\ fr'.nr_freed = 0
  BY <1>1, <1>3, <1>4 DEF RunsOK
<1>6. StateInv'
  BY <1>1, <1>2, <1>5 DEF StateInv
<1>7. RunsOK(fr.rl)' /\ ClearInv'
  <2>1. RunsOK(fr.rl)'
    BY <1>3, <1>5 DEF RunsOK
  <2>2. loc' = B!NoCall
    BY <1>1, <1>2
  <2>3. QED
    BY <2>1, <2>2 DEF ClearInv, B!NoCall
<1>8. Kept' = All \ C /\ C \subseteq Clusters \ (All \ C) /\ Before' = disk /\ C \subseteq All
  <2>1. C \cap System = {} /\ C \cap Padding = {} /\ C \subseteq Clusters
    BY <1>3, <1>4, ZoneFacts
  <2>2. Before' = disk
    BY <1>1, <1>2 DEF Before, B!NoCall
  <2>3. QED
    BY <1>1, <1>3, <1>5, <2>1, <2>2 DEF Kept
<1>9. free + Cardinality(C) = Cardinality(Clusters \ (All \ C))
  <2>1. IsFiniteSet(Clusters \ (All \ C))
    BY ClustersCount
  <2>2. /\ Cardinality(Clusters \ (All \ C))
              = Cardinality((Clusters \ (All \ C)) \ C) + Cardinality(C)
    BY <1>8, <2>1, CardinalityMinus
  <2>3. (Clusters \ (All \ C)) \ C = Clusters \ All
    BY <1>8
  <2>4. QED
    BY <1>2, <2>2, <2>3
<1> HIDE DEF All
<1>10. free' + fr'.nr_freed + Cardinality(ClustersOf(fr'.rl)) = Cardinality(Clusters \ Kept')
  <2>1. ClustersOf(fr'.rl) = C
    BY <1>5 DEF C
  <2>2. free' + fr'.nr_freed = free
    BY <1>1, <1>4, <1>5
  <2>3. QED
    BY <1>8, <1>9, <2>1, <2>2
<1>11. FreeState'
  <2>1. ClustersOf(fr'.rl) = C
    BY <1>5 DEF C
  <2>2. ClustersOf(fr'.rl) \cap Kept' = {}
    BY <1>8, <2>1
  <2>3. \A b \in B!BitSet : /\ b \in Kept' => Before'[b]
                            /\ Before'[b] => b \in Kept' \cup ClustersOf(fr'.rl)
    BY <1>2, <1>8, <2>1
  <2>4. QED
    BY <1>1, <1>6, <1>7, <1>10, <2>2, <2>3 DEF FreeState
<1>12. QED
  BY <1>11, FreeInv, PTL

\* The local variables of a call of ntfs_bitmap_set_bits_in_run.
LEMMA ClearFacts ==
  ASSUME IInv, loc.pc # "idle"
  PROVE  /\ pc = "free" /\ fr.rl # <<>> /\ ~leaked /\ loc.value = FALSE
         /\ Head(fr.rl) \in Run /\ Head(fr.rl).lcn + Head(fr.rl).length <= BmpBits
         /\ CallInv(Head(fr.rl).lcn, Head(fr.rl).lcn + Head(fr.rl).length)
         /\ loc.run = RunClusters(Head(fr.rl))
<1>1. /\ pc = "free" /\ fr.rl # <<>> /\ loc.value = FALSE
      /\ CallInv(Head(fr.rl).lcn, Head(fr.rl).lcn + Head(fr.rl).length)
  BY DEF IInv, ClearInv, B!NoCall
<1>2. ~leaked /\ RunsOK(fr.rl)
  BY <1>1 DEF IInv, CallsInv, Held
<1>3. Head(fr.rl) \in Run /\ Head(fr.rl).lcn + Head(fr.rl).length <= BmpBits
  BY <1>1, <1>2, HeadAndTail
<1>4. PICK first \in Nat, end \in Nat :
         first = Head(fr.rl).lcn /\ end = Head(fr.rl).lcn + Head(fr.rl).length
  BY <1>3 DEF Run
<1>5. loc.run = first .. end - 1
  BY <1>1, <1>4 DEF CallInv
<1>6. RunClusters(Head(fr.rl)) = first .. end - 1
  BY <1>3, <1>4 DEF RunClusters, Run
<1>7. QED
  BY <1>1, <1>2, <1>3, <1>5, <1>6

\* A step of the call that clears a run: the lists and what was in the bitmap before
\* stay as they are.
LEMMA ClearingStep ==
  ASSUME IInv, pc = "free", ~leaked, fr.rl # <<>>, disk' \in [B!BitSet -> BOOLEAN],
         CallInv(Head(fr.rl).lcn, Head(fr.rl).lcn + Head(fr.rl).length)', fr' = fr,
         loc'.value = FALSE, loc'.before = Before, faults' \in Nat,
         pos' \in [Zones -> Nat], full_zones' \subseteq Zones,
         UNCHANGED <<owned, free, leaked, pc, al>>
  PROVE  IInv'
<1>1. FreeState
  BY FreeFacts
<1>2. StateInv'
  BY <1>1 DEF FreeState, StateInv
<1>3. ClearInv'
  BY DEF ClearInv
<1>4. Kept' = Kept
  BY DEF Kept
<1>5. Before' = Before
  <2>1. loc'.pc # "idle"
    BY DEF CallInv, WindowCall, EndedCall
  <2>2. QED
    BY <2>1 DEF Before
<1>6. RunsOK(fr.rl)'
  BY <1>1 DEF FreeState, RunsOK
<1>7. FreeState'
  BY <1>1, <1>2, <1>3, <1>4, <1>5, <1>6 DEF FreeState
<1>8. QED
  BY <1>7, FreeInv, PTL

\* ntfs_bitmap_clear_run is called for the next run.
LEMMA FreeRunStep ==
  ASSUME IInv, FreeRun
  PROVE  IInv'
<1> DEFINE r == Head(fr.rl)
<1>1. /\ pc = "free" /\ fr.rl # <<>>
      /\ \/ B!Begin(r.lcn, r.length, FALSE) /\ UNCHANGED faults
         \/ B!BeginFails(r.lcn, r.length, FALSE) /\ faults > 0 /\ faults' = faults - 1
      /\ update_full_status(r.lcn)
      /\ UNCHANGED <<owned, free, leaked, pc, al, fr>>
  BY DEF FreeRun
<1>2. ~leaked /\ RunsOK(fr.rl) /\ StateInv
  BY <1>1 DEF IInv, CallsInv, Held
<1>3. /\ r \in Run /\ r.lcn + r.length <= BmpBits
      /\ r.lcn \in Nat /\ r.length \in Nat \ {0}
  BY <1>1, <1>2, HeadAndTail DEF Run
<1>4. disk \in [B!BitSet -> BOOLEAN] /\ pos \in [Zones -> Nat] /\ full_zones \subseteq Zones
      /\ faults \in Nat
  BY <1>2 DEF StateInv
<1>5. loc.pc = "idle" /\ Before = disk
  BY <1>1 DEF B!Begin, B!BeginFails, Before
<1>6. pos' \in [Zones -> Nat] /\ full_zones' \subseteq Zones
  <2>1. /\ full_zones' = full_zones \ {ZoneOf(r.lcn)}
        /\ \/ pos' = set_zone_pos(pos, ZoneOf(r.lcn), r.lcn)
           \/ pos' = pos
    BY <1>1 DEF update_full_status
  <2>2. r.lcn \in Int /\ ZoneOf(r.lcn) \in Zones
    BY <1>3, ZoneFacts
  <2>3. QED
    BY <1>4, <2>1, <2>2, ZonePositions
<1>7. /\ CallInv(r.lcn, r.lcn + r.length)' /\ disk' = disk /\ loc'.before = disk
      /\ loc'.value = FALSE
  <2>1. CASE B!Begin(r.lcn, r.length, FALSE)
    <3>1. /\ CallInv(Head(fr.rl).lcn, Head(fr.rl).lcn + Head(fr.rl).length)'
              <=> CallInv(r.lcn, r.lcn + r.length)'
      OBVIOUS
    <3>2. PICK first \in Nat, number \in Nat \ {0} : first = r.lcn /\ number = r.length
      BY <1>3
    <3>3. /\ CallInv(first, first + number)' /\ disk' = disk
          /\ loc'.value = FALSE /\ loc'.before = disk
      BY <1>3, <1>4, <2>1, <3>2, BeginStep
    <3>4. first = r.lcn' /\ number = r.length'
      BY <1>1, <3>2
    <3>5. QED
      BY <3>3, <3>4
  <2>2. CASE B!BeginFails(r.lcn, r.length, FALSE)
    <3>1. /\ loc' = [pc |-> "error", run |-> r.lcn .. r.lcn + r.length - 1, value |-> FALSE,
                     before |-> disk]
          /\ disk' = disk
      BY <2>2 DEF B!BeginFails
    <3>2. r.lcn .. r.lcn + r.length - 1 \in SUBSET Int
      BY <1>3
    <3>3. loc' \in EndedCall /\ loc'.pc = "error"
      BY <1>4, <3>1, <3>2 DEF EndedCall
    <3>4. r' = r
      BY <1>1
    <3>5. /\ loc'.run = r.lcn .. r.lcn + r.length - 1 /\ loc'.value = FALSE
          /\ loc'.before = disk
      BY <3>1
    <3>6. CallInv(r.lcn, r.lcn + r.length)'
      <4>1. PICK first \in Nat, end \in Nat : first = r.lcn /\ end = r.lcn + r.length
        BY <1>3
      <4>2. first = r.lcn' /\ end = (r.lcn + r.length)'
        BY <3>4, <4>1
      <4> HIDE DEF r
      <4>3. loc'.run = first .. end - 1 /\ \A k \in B!BitSet \ loc'.run : disk'[k] = loc'.before[k]
        <5>1. r.lcn .. r.lcn + r.length - 1 = first .. end - 1
          BY <1>3, <4>1
        <5>2. QED
          BY <3>1, <3>5, <5>1
      <4>4. CallInv(first, end)'
        BY <3>3, <4>3 DEF CallInv
      <4>5. QED
        BY <4>2, <4>4
    <3>7. QED
      BY <3>1, <3>5, <3>6
  <2>3. QED
    BY <1>1, <2>1, <2>2
<1>8. faults' \in Nat
  <2>1. faults' = faults \/ (faults > 0 /\ faults' = faults - 1)
    BY <1>1
  <2>2. QED
    BY <1>4, <2>1
<1>9. QED
  BY <1>1, <1>2, <1>4, <1>5, <1>6, <1>7, <1>8, ClearingStep

\* One window of the call, or a read or write of it that fails.
LEMMA FreeWindowStep ==
  ASSUME IInv, FreeWindow
  PROVE  IInv'
<1> DEFINE r == Head(fr.rl)
<1>1. /\ \/ B!Window /\ UNCHANGED faults
         \/ B!WindowFails /\ faults > 0 /\ faults' = faults - 1
      /\ UNCHANGED <<owned, pos, full_zones, free, leaked, pc, al, fr>>
  BY DEF FreeWindow
<1>2. loc.pc = "window"
  BY <1>1 DEF B!Window, B!WindowFails
<1>3. /\ pc = "free" /\ fr.rl # <<>> /\ ~leaked /\ loc.value = FALSE
      /\ r \in Run /\ r.lcn + r.length <= BmpBits /\ CallInv(r.lcn, r.lcn + r.length)
  BY <1>2, ClearFacts
<1>4. StateInv /\ disk \in [B!BitSet -> BOOLEAN] /\ faults \in Nat
  BY DEF IInv, StateInv
<1>5. PICK first \in Nat, end \in Nat : first = r.lcn /\ end = r.lcn + r.length
  BY <1>3 DEF Run
<1>6. first < end /\ end <= BmpBits /\ CallInv(first, end)
  BY <1>3, <1>5 DEF Run
<1>7. CallInv(first, end)' /\ disk' \in [B!BitSet -> BOOLEAN]
  BY <1>1, <1>4, <1>6, WindowStep, WindowFailsStep
<1>8. loc'.before = loc.before /\ loc'.value = loc.value
  <2>1. loc \in WindowCall
    BY <1>2, <1>6, WindowFacts
  <2>2. ASSUME NEW how, loc' = B!Ended(how)
        PROVE  loc'.before = loc.before /\ loc'.value = loc.value
    BY <2>2 DEF B!Ended
  <2>3. CASE B!WindowFails
    BY <2>2, <2>3 DEF B!WindowFails
  <2>4. CASE B!Window
    <3> DEFINE last == IF B!HasLast THEN 1 ELSE 0
               done == (loc.bufsize - loc.firstbyte - last) * ByteBits
               left == loc.count - (last * loc.bit) - done
               b == B!Refilled(IF B!HasLast THEN B!WithLast ELSE loc.buf)
               bit == IF B!HasLast THEN 0 ELSE loc.bit
               start == loc.start + done
               size == B!Min({loc.bufsize, B!BytesOf(left)})
    <3>1. \/ loc' = B!Ended("bug") \/ loc' = B!Ended("ok")
          \/ loc' = [loc EXCEPT !.buf = b, !.firstbyte = 0, !.bit = bit, !.start = start,
                                !.count = left, !.bufsize = size]
      BY <2>4 DEF B!Window
    <3> HIDE DEF last, done, left, b, bit, start, size
    <3>2. loc' = [loc EXCEPT !.buf = b, !.firstbyte = 0, !.bit = bit, !.start = start,
                             !.count = left, !.bufsize = size]
             => loc'.before = loc.before /\ loc'.value = loc.value
      BY <2>1 DEF WindowCall
    <3>3. QED
      BY <2>2, <3>1, <3>2
  <2>5. QED
    BY <1>1, <2>3, <2>4
<1>9. loc'.value = FALSE /\ loc'.before = Before /\ faults' \in Nat
  BY <1>1, <1>2, <1>3, <1>4, <1>8 DEF Before
<1>10. CallInv(r.lcn, r.lcn + r.length)'
  <2>1. first = r.lcn' /\ end = (r.lcn + r.length)'
    BY <1>1, <1>5
  <2>2. QED
    BY <1>7, <2>1
<1>11. QED
  BY <1>1, <1>3, <1>4, <1>7, <1>9, <1>10, ClearingStep DEF StateInv

\* The run has been cleared, or the rest of the list is dropped.
LEMMA FreeRunDoneStep ==
  ASSUME IInv, FreeRunDone
  PROVE  IInv'
<1> DEFINE r == Head(fr.rl)
           R == RunClusters(r)
           C == ClustersOf(fr.rl)
           T == ClustersOf(Tail(fr.rl))
<1>1. /\ pc = "free" /\ loc.pc \in {"ok", "error", "bug"} /\ loc' = B!NoCall
      /\ \/ /\ loc.pc = "ok"
            /\ fr' = [fr EXCEPT !.rl = Tail(@), !.nr_freed = @ + Freed(r)]
            /\ UNCHANGED leaked
         \/ /\ loc.pc # "ok"
            /\ fr' = [fr EXCEPT !.rl = <<>>, !.owner = {}]
            /\ leaked' = TRUE
      /\ UNCHANGED <<disk, owned, pos, full_zones, free, faults, pc, al>>
  BY DEF FreeRunDone
<1>2. /\ fr.rl # <<>> /\ ~leaked /\ loc.value = FALSE /\ r \in Run
      /\ CallInv(r.lcn, r.lcn + r.length)
  BY <1>1, ClearFacts
<1>3. FreeState /\ StateInv
  BY <1>1, <1>2, FreeFacts DEF FreeState
<1>4. fr \in [rl : Seq(Run), owner : SUBSET Clusters, nr_freed : Nat] /\ free \in Nat
  BY <1>3 DEF StateInv
<1>5. CASE loc.pc # "ok"
  <2>1. fr' = [fr EXCEPT !.rl = <<>>, !.owner = {}] /\ leaked' = TRUE
    BY <1>1, <1>5
  <2>2. fr' \in [rl : Seq(Run), owner : SUBSET Clusters, nr_freed : Nat] /\ fr'.rl = <<>>
    <3>1. <<>> \in Seq(Run) /\ {} \in SUBSET Clusters
      OBVIOUS
    <3>2. QED
      BY <1>4, <2>1, <3>1
  <2>3. StateInv'
    BY <1>1, <1>3, <2>1, <2>2 DEF StateInv
  <2>4. Held' = <<>> /\ pc' = "free" /\ ~Searching'
    BY <1>1, <2>2 DEF Held, Searching
  <2>5. RunsOK(Held)'
    BY <2>4, NoRuns DEF RunsOK
  <2>6. CallsInv' /\ AskedInv' /\ ClearInv' /\ DiskInv' /\ CountInv'
    BY <1>1, <2>1, <2>2, <2>4, <2>5 DEF CallsInv, AskedInv, ClearInv, DiskInv, CountInv
  <2>7. QED
    BY <2>3, <2>6 DEF IInv
<1>6. CASE loc.pc = "ok"
  <2>1. fr' = [fr EXCEPT !.rl = Tail(fr.rl), !.nr_freed = fr.nr_freed + r.length] /\ leaked' = leaked
    BY <1>1, <1>6 DEF Freed
  <2>2. /\ RunsOK(Tail(fr.rl)) /\ C = R \cup T /\ R \cap T = {}
    BY <1>2, <1>3, HeadAndTail DEF FreeState
  <2>3. r.length \in Nat /\ fr.nr_freed \in Nat
    BY <1>2, <1>4 DEF Run
  <2> HIDE DEF r
  <2>4. /\ fr' \in [rl : Seq(Run), owner : SUBSET Clusters, nr_freed : Nat]
        /\ fr'.rl = Tail(fr.rl) /\ fr'.owner = fr.owner /\ fr'.nr_freed = fr.nr_freed + r.length
    <3>1. Tail(fr.rl) \in Seq(Run) /\ fr.nr_freed + r.length \in Nat
      BY <2>2, <2>3 DEF RunsOK
    <3>2. QED
      BY <1>4, <2>1, <3>1
  <2>5. StateInv'
    BY <1>1, <1>3, <2>1, <2>4 DEF StateInv
  <2>6. Kept' = Kept /\ Before' = disk
    BY <1>1, <2>4 DEF Kept, Before, B!NoCall
  <2>7. RunsOK(fr.rl)' /\ ClearInv'
    <3>1. RunsOK(fr.rl)'
      BY <2>2, <2>4 DEF RunsOK
    <3>2. QED
      BY <1>1, <3>1 DEF ClearInv, B!NoCall
  <2>8. /\ \A k \in B!BitSet \ R : disk[k] = loc.before[k]
        /\ \A k \in R : disk[k] = FALSE
    <3>1. loc.run = R
      <4>1. loc.pc # "idle"
        BY <1>6
      <4>2. QED
        BY <4>1, ClearFacts DEF r
    <3>2. QED
      BY <1>2, <1>6, <3>1 DEF CallInv
  <2>9. /\ C \cap Kept = {}
        /\ \A b \in B!BitSet : /\ b \in Kept => loc.before[b]
                               /\ loc.before[b] => b \in Kept \cup C
        /\ free + fr.nr_freed + Cardinality(C) = Cardinality(Clusters \ Kept)
    BY <1>3, <1>6 DEF FreeState, Before
  <2>10. Cardinality(C) = r.length + Cardinality(T) /\ Cardinality(T) \in Nat
    <3>1. IsFiniteSet(R) /\ Cardinality(R) = r.length
      BY <1>2, RunCount
    <3>2. IsFiniteSet(T) /\ Cardinality(T) \in Nat
      BY <2>2, ClustersFinite
    <3> HIDE DEF R, T, C
    <3>3. Cardinality(R \cup T) = Cardinality(R) + Cardinality(T) - Cardinality(R \cap T)
      BY <3>1, <3>2, FS_Union
    <3>4. Cardinality(R \cap T) = 0
      BY <2>2, FS_EmptySet
    <3>5. Cardinality(C) = Cardinality(R \cup T)
      BY <2>2
    <3>6. QED
      BY <2>3, <3>1, <3>2, <3>3, <3>4, <3>5
  <2> HIDE DEF R, T, C
  <2>11. \A b \in B!BitSet : /\ b \in Kept => disk[b]
                             /\ disk[b] => b \in Kept \cup T
    <3>1. TAKE b \in B!BitSet
    <3>2. CASE b \in R
      BY <2>2, <2>8, <2>9, <3>2
    <3>3. CASE b \notin R
      BY <2>2, <2>8, <2>9, <3>3
    <3>4. QED
      BY <3>2, <3>3
  <2>12. free + (fr.nr_freed + r.length) + Cardinality(T) = Cardinality(Clusters \ Kept)
    BY <1>4, <2>3, <2>9, <2>10
  <2>13. ClustersOf(fr'.rl) = T /\ T \cap Kept = {}
    BY <2>2, <2>4, <2>9 DEF T
  <2>14. FreeState'
    BY <1>1, <1>2, <2>1, <2>4, <2>5, <2>6, <2>7, <2>11, <2>12, <2>13 DEF FreeState
  <2>15. QED
    BY <2>14, FreeInv, PTL
<1>7. QED
  BY <1>5, <1>6

\* The number of free clusters is brought up to date.
LEMMA FreeReturnStep ==
  ASSUME IInv, FreeReturn
  PROVE  IInv'
<1>1. /\ pc = "free" /\ fr.rl = <<>> /\ loc.pc = "idle"
      /\ free' = free + fr.nr_freed /\ owned' = owned \ fr.owner
      /\ pc' = "idle" /\ al' = NoAlloc /\ fr' = NoFree
      /\ UNCHANGED <<disk, pos, full_zones, faults, leaked, loc>>
  BY DEF FreeReturn
<1>2. StateInv /\ ClearInv
  BY DEF IInv
<1>3. loc = B!NoCall
  BY <1>1, <1>2 DEF ClearInv
<1>4. free' \in Nat /\ fr' \in [rl : Seq(Run), owner : SUBSET Clusters, nr_freed : Nat]
  <2>1. free \in Nat /\ fr.nr_freed \in Nat
    BY <1>2 DEF StateInv
  <2>2. QED
    BY <1>1, <2>1 DEF NoFree
<1>5. StateInv'
  BY <1>1, <1>2, <1>4 DEF StateInv
<1>6. ASSUME ~leaked
      PROVE  /\ \A b \in B!BitSet : disk[b] <=> b \in Kept
             /\ free' = Cardinality(Clusters \ Kept)
  <2>1. FreeState
    BY <1>1, <1>6, FreeFacts
  <2>2. /\ \A b \in B!BitSet : (b \in Kept => disk[b]) /\ (disk[b] => b \in Kept \cup ClustersOf(<<>>))
        /\ free + fr.nr_freed + Cardinality(ClustersOf(<<>>)) = Cardinality(Clusters \ Kept)
    BY <1>1, <2>1 DEF FreeState, Before
  <2>3. \A b \in B!BitSet : disk[b] \in BOOLEAN
    BY <1>2 DEF StateInv
  <2>4. free' = free + fr.nr_freed + 0
    BY <1>1, <1>4
  <2>5. QED
    BY <2>2, <2>3, <2>4, NoRuns
<1>7. Kept = owned' \cup System \cup Padding
  BY <1>1 DEF Kept
<1>8. IdleState'
  BY <1>1, <1>3, <1>5, <1>6, <1>7 DEF IdleState
<1>9. QED
  BY <1>8, IdleInv, PTL

\* The volume is repaired and mounted again.
LEMMA RepairStep ==
  ASSUME IInv, Repair
  PROVE  IInv'
<1>1. /\ pc = "idle" /\ leaked' = FALSE
      /\ disk' = [b \in 0 .. BmpBits - 1 |-> b \in owned \cup System \cup Padding]
      /\ pos' = [MFT |-> mft_lcn, DATA1 |-> mft_zone_end, DATA2 |-> 0]
      /\ full_zones' = {} /\ free' = Cardinality(Clusters \ (owned \cup System))
      /\ UNCHANGED <<owned, faults, pc, al, fr, loc>>
  BY DEF Repair, Mounted
<1>2. al = NoAlloc /\ fr = NoFree /\ loc = B!NoCall /\ StateInv
  BY <1>1, IdleFacts DEF IInv
<1>3. B!BitSet = 0 .. BmpBits - 1
  BY Sizes
<1>4. disk' \in [B!BitSet -> BOOLEAN] /\ \A b \in B!BitSet : disk'[b] <=> b \in owned \cup System \cup Padding
  BY <1>1, <1>3, Marks
<1>5. pos' \in [Zones -> Nat]
  BY <1>1, LcnAllocAssumption DEF Zones
<1>6. Clusters \ (owned \cup System) = Clusters \ (owned \cup System \cup Padding)
  BY ZoneFacts
<1>7. free' \in Nat
  BY <1>1, ClustersCount
<1>8. StateInv'
  BY <1>1, <1>2, <1>4, <1>5, <1>7 DEF StateInv
<1>9. IdleState'
  BY <1>1, <1>2, <1>4, <1>6, <1>8 DEF IdleState
<1>10. QED
  BY <1>9, IdleInv, PTL

\* Every step keeps the invariant.
LEMMA NextStep == IInv /\ [Next]_vars => IInv'
<1> SUFFICES ASSUME IInv, [Next]_vars PROVE IInv'
  OBVIOUS
<1>1. CASE /\ ~leaked
           /\ \E count \in 1 .. MaxCount, start_lcn \in Hints \cup {-1}, zone \in {"MFT", "DATA"} :
                Alloc(count, start_lcn, zone)
  BY <1>1, AllocStep
<1>2. CASE ~leaked /\ \E rl \in RunLists : Free(rl)
  BY <1>2, FreeStep
<1>3. CASE Repair
  BY <1>3, RepairStep
<1>4. CASE Scan
  BY <1>4, ScanKeeps
<1>5. CASE SkipScan
  BY <1>5, SkipScanStep
<1>6. CASE ZonePassDone
  BY <1>6, ZonePassDoneStep
<1>7. CASE ZoneDone
  BY <1>7, ZoneDoneStep
<1>8. CASE Return
  BY <1>8, ReturnStep
<1>9. CASE FreeRun
  BY <1>9, FreeRunStep
<1>10. CASE FreeWindow
  BY <1>10, FreeWindowStep
<1>11. CASE FreeRunDone
  BY <1>11, FreeRunDoneStep
<1>12. CASE FreeReturn
  BY <1>12, FreeReturnStep
<1>13. CASE ScanFails
  BY <1>13, ScanFailsStep
<1>14. CASE UNCHANGED vars
  <2>1. UNCHANGED <<disk, owned, pos, full_zones, free, faults, leaked, pc, al, fr, loc>>
    BY <1>14 DEF vars
  <2>2. StateInv' /\ CallsInv' /\ AskedInv'
    BY <2>1 DEF IInv, StateInv, CallsInv, AskedInv, Held, Searching, RunsOK, Chained
  <2>3. DiskInv' /\ CountInv'
    BY <2>1 DEF IInv, DiskInv, CountInv, Held, Kept, Before, Searching
  <2>4. ClearInv'
    BY <2>1 DEF IInv, ClearInv, CallInv, WindowInv, BufferStart, B!BytesOf
  <2>5. QED
    BY <2>2, <2>3, <2>4 DEF IInv
<1>15. QED
  BY <1>1, <1>2, <1>3, <1>4, <1>5, <1>6, <1>7, <1>8, <1>9, <1>10, <1>11, <1>12, <1>13, <1>14
     DEF Next

\* The invariant holds in every state of every volume.
THEOREM Invariance == Spec => []IInv
<1>1. QED
  BY InitStep, NextStep, PTL DEF Spec

-----------------------------------------------------------------------------
(* The properties of the runs.                                             *)

\* ntfs_bitmap_set_bits_in_run, through which clusters are freed, changes no bit outside
\* the run at any write of any window, also when a later read or write fails; when it
\* returns 0 every bit of the run has the value; and it never comes to what the code
\* calls a bug.
THEOREM RunIsExactlySet == Spec => []RunExactlySet
<1>1. ASSUME IInv PROVE RunExactlySet
  <2>1. CASE loc = B!NoCall
    BY <2>1 DEF RunExactlySet, B!OnlyTheRun, B!RunIsSet, B!NoCall
  <2>2. CASE loc # B!NoCall
    <3>1. CallInv(Head(fr.rl).lcn, Head(fr.rl).lcn + Head(fr.rl).length)
      BY <1>1, <2>2 DEF IInv, ClearInv
    <3>2. loc.pc # "bug"
      BY <3>1 DEF CallInv, WindowCall, EndedCall
    <3>3. /\ \A b \in B!BitSet \ loc.run : disk[b] = loc.before[b]
          /\ loc.pc = "ok" => \A b \in loc.run : disk[b] = loc.value
      BY <3>1 DEF CallInv
    <3>4. QED
      BY <3>2, <3>3 DEF RunExactlySet, B!OnlyTheRun, B!RunIsSet
  <2>3. QED
    BY <2>1, <2>2
<1>2. QED
  BY <1>1, Invariance, PTL

\* A cluster is never given out twice: what files and the file system hold stays marked in
\* the bitmap, an allocation in progress takes none of it nor anything behind the volume,
\* and between calls nothing else is marked, on every volume whose giving back has not
\* failed.
THEOREM ClustersHeldOnce == Spec => []NotSharedNorLost
<1>1. ASSUME IInv PROVE NotSharedNorLost
  <2> SUFFICES ASSUME ~leaked
               PROVE  /\ owned \subseteq used \cup (IF pc = "free" THEN fr.owner ELSE {})
                      /\ System \cup Padding \subseteq used
                      /\ Taken \cap (owned \cup System \cup Padding) = {}
                      /\ pc = "idle" => used = owned \cup System \cup Padding
    BY DEF NotSharedNorLost
  <2>1. StateInv /\ owned \subseteq Clusters
    BY <1>1 DEF IInv, StateInv
  <2>2. used = {b \in B!BitSet : disk[b]}
    BY Sizes DEF used
  <2>3. owned \cup System \cup Padding \subseteq B!BitSet
    BY <2>1, ZoneFacts
  <2>4. CASE Searching
    <3>1. /\ Kept = owned \cup System \cup Padding
          /\ ClustersOf(al.rl) \cap Kept = {} /\ pc # "idle"
          /\ \A b \in B!BitSet : disk[b] <=> b \in Kept \cup ClustersOf(al.rl)
      BY <1>1, <2>4, SearchFacts DEF Searching
    <3>2. Taken = ClustersOf(al.rl)
      BY <2>4 DEF Taken, Searching
    <3>3. QED
      BY <2>2, <2>3, <3>1, <3>2
  <2>5. CASE pc = "idle"
    <3>1. /\ Kept = owned \cup System \cup Padding /\ al = NoAlloc
          /\ \A b \in B!BitSet : disk[b] <=> b \in Kept
      BY <1>1, <2>5, IdleFacts
    <3>2. Taken = {}
      BY <2>5, <3>1, NoRuns DEF Taken, NoAlloc
    <3>3. QED
      BY <2>2, <2>3, <3>1, <3>2
  <2>6. CASE pc = "free"
    <3>1. FreeState
      BY <1>1, <2>6, FreeFacts
    <3>2. \A b \in B!BitSet : b \in Kept => disk[b]
      <4>1. CASE loc.pc = "idle"
        BY <3>1, <4>1 DEF FreeState, Before
      <4>2. CASE loc.pc # "idle"
        <5>1. CallInv(Head(fr.rl).lcn, Head(fr.rl).lcn + Head(fr.rl).length) /\ fr.rl # <<>>
          BY <1>1, <4>2, ClearFacts
        <5>2. loc.run = RunClusters(Head(fr.rl))
          BY <1>1, <4>2, ClearFacts
        <5>3. RunClusters(Head(fr.rl)) \subseteq ClustersOf(fr.rl)
          BY <3>1, <5>1, HeadAndTail DEF FreeState
        <5>4. \A b \in B!BitSet \ loc.run : disk[b] = loc.before[b]
          BY <5>1 DEF CallInv
        <5>5. QED
          BY <3>1, <4>2, <5>2, <5>3, <5>4 DEF FreeState, Before
      <4>3. QED
        BY <4>1, <4>2
    <3>3. Taken = {}
      BY <2>6 DEF Taken
    <3>4. Kept \subseteq used
      BY <2>2, <2>3, <3>2 DEF Kept
    <3>5. QED
      BY <2>6, <3>3, <3>4 DEF Kept
  <2>7. QED
    BY <2>1, <2>4, <2>5, <2>6 DEF StateInv, Searching
<1>2. QED
  BY <1>1, Invariance, PTL

\* Between calls vol->free_clusters is the number of clear bits, also after allocations
\* that gave up halfway and gave back what they had.
THEOREM FreeIsCounted == Spec => []FreeCountExact
<1>1. ASSUME IInv PROVE FreeCountExact
  <2> SUFFICES ASSUME pc = "idle", ~leaked PROVE free = Cardinality(Clusters \ used)
    BY DEF FreeCountExact
  <2>1. /\ \A b \in B!BitSet : disk[b] <=> b \in Kept
        /\ free = Cardinality(Clusters \ Kept)
    BY <1>1, IdleFacts
  <2>2. used = {b \in B!BitSet : disk[b]} /\ Clusters \subseteq B!BitSet
    BY Sizes, ZoneFacts DEF used
  <2>3. Clusters \ Kept = Clusters \ used
    BY <2>1, <2>2
  <2>4. QED
    BY <2>1, <2>3
<1>2. QED
  BY <1>1, Invariance, PTL

\* What ntfs_cluster_alloc returns is the number of clusters asked for, in runs that
\* follow each other in the file, could not have been merged and share no cluster.
THEOREM AllocatesAsAsked == Spec => []AllocatedAsAsked
<1>1. ASSUME IInv PROVE AllocatedAsAsked
  <2> SUFFICES ASSUME pc = "done"
               PROVE  LET rl == al.rl
                      IN  /\ Cardinality(ClustersOf(rl)) = al.count
                          /\ \A i \in DOMAIN rl :
                                 /\ rl[i].length > 0
                                 /\ i < Len(rl) => /\ rl[i+1].vcn = rl[i].vcn + rl[i].length
                                                   /\ rl[i+1].lcn # rl[i].lcn + rl[i].length
                          /\ rl[Len(rl)].vcn + rl[Len(rl)].length = al.count
    BY DEF AllocatedAsAsked
  <2>1. Searching /\ al \in AllocCall /\ al.clusters = 0
    BY <1>1 DEF IInv, CallsInv, Searching
  <2>2. al.count \in Nat \ {0} /\ al.count - al.clusters = al.count /\ al.rl \in Seq(Run)
    BY <2>1 DEF AllocCall
  <2>3. Chained(al.rl, al.count) /\ Cardinality(ClustersOf(al.rl)) = al.count
    BY <1>1, <2>1, <2>2 DEF IInv, AskedInv
  <2>4. \A i \in DOMAIN al.rl : al.rl[i].length > 0
    <3>1. \A i \in DOMAIN al.rl : al.rl[i] \in Run
      BY <2>2
    <3>2. QED
      BY <3>1 DEF Run
  <2>5. al.rl # <<>>
    BY <2>2, <2>3 DEF Chained
  <2>6. QED
    BY <2>3, <2>4, <2>5 DEF Chained
<1>2. QED
  BY <1>1, Invariance, PTL

-----------------------------------------------------------------------------
(* The search of the zones: its inductive invariant.                       *)

Looking == pc \in {"scan", "pass", "zone"}

\* The whole zone is in use.
AllMarked(z) == Marked(ZoneFirst[z], ZoneEnd[z])

\* A position in each zone that is a cluster of the zone, unless the zone has none.
PosOK(p) ==
    /\ \A z \in Zones : p[z] \in ZoneFirst[z] .. ZoneEnd[z]
    /\ \A z \in Zones : p[z] < ZoneEnd[z] \/ ZoneFirst[z] = ZoneEnd[z]

PosInv == PosOK(pos)

\* The zone searched, the zones done and the number of zones that the search goes to
\* after this one; from DATA2 it comes back to DATA2.
Order ==
    { <<"MFT", {}, 2>>, <<"DATA1", {"MFT"}, 1>>, <<"DATA2", {"MFT", "DATA1"}, 0>>,
      <<"DATA1", {}, 2>>, <<"DATA2", {"DATA1"}, 1>>, <<"MFT", {"DATA1", "DATA2"}, 0>>,
      <<"DATA2", {}, 3>>, <<"DATA1", {"DATA2"}, 2>>, <<"DATA2", {"DATA1", "DATA2"}, 1>> }

\* The turns that the rest of a search in this zone takes at most.
PassTurns == BmpBytes + 1
TurnsHere ==
    (IF pc # "zone" /\ al.pass = 1 THEN PassTurns ELSE 0)
    + (IF pc # "scan" THEN 0
       ELSE IF al.used_zone_pos THEN PassTurns - (al.bmp_pos \div ByteBits) ELSE PassTurns)
    + (IF al.used_zone_pos THEN 0 ELSE 1)

\* The search gets on: what is left of it and the turns taken stay within the bound.
TurnsInv ==
    /\ Looking => \E left \in 0 .. 3 :
          /\ <<al.search, al.done_zones, left>> \in Order
          /\ al.turns + (2 * left * PassTurns) + TurnsHere <= (8 * PassTurns) + 1
    /\ Looking /\ al.used_zone_pos => al.bmp_pos <= BmpBits
    /\ pc = "done" => al.turns <= (8 * PassTurns) + 1

\* A search as NoSpaceIsReal is about.
Thorough ==
    /\ al.count = 1 /\ al.flagged = {}
    /\ ~AtStart(al.start_lcn) /\ al.start_lcn < BmpBits

\* The search looks at the requested cluster, or at buffers from a position on.
StartInv ==
    \/ /\ pc = "scan" /\ ~al.used_zone_pos /\ al.done_zones = {}
       /\ al.pass = 1 /\ al.bmp_pos = al.start_lcn /\ al.zone_end = ZoneEnd[al.search]
    \/ al.used_zone_pos /\ ~al.has_guess

\* What the search has left behind in this zone is in use.
HereInv ==
    /\ pc = "zone" \/ (pc = "pass" /\ al.pass = 2) => AllMarked(al.search)
    /\ pc = "pass" /\ al.pass = 1 => Marked(al.zone_start, ZoneEnd[al.search])
    /\ pc = "scan" /\ al.used_zone_pos /\ al.pass = 1 =>
          al.zone_end = ZoneEnd[al.search] /\ Marked(al.zone_start, al.bmp_pos)
    /\ pc = "scan" /\ al.used_zone_pos /\ al.pass = 2 =>
          Marked(ZoneFirst[al.search], al.bmp_pos) /\ Marked(al.zone_end, ZoneEnd[al.search])

CoverInv ==
    Looking /\ Thorough =>
        /\ al.avail = Cardinality(Clusters \ used)
        /\ full_zones = al.done_zones
        /\ \A z \in al.done_zones : AllMarked(z)
        /\ StartInv
        /\ al.search \notin al.done_zones => HereInv

SInv == PosInv /\ TurnsInv /\ CoverInv

\* Bytes of the bitmap that positions are in.
LEMMA ByteOf ==
  ASSUME NEW x \in Nat
  PROVE  /\ x \div ByteBits \in Nat
         /\ x <= BmpBits => x \div ByteBits <= BmpBytes
         /\ x < BmpBits <=> x \div ByteBits < BmpBytes
<1> DEFINE q == x \div ByteBits
           r == x % ByteBits
<1>1. /\ ByteBits \in Nat \ {0} /\ BmpBytes \in Nat /\ BmpBits \in Nat
      /\ BmpBits = BmpBytes * ByteBits /\ x \in Int
  BY LcnAllocAssumption, Sizes
<1>2. q \in Int /\ r \in 0 .. ByteBits - 1 /\ x = (q * ByteBits) + r
  BY ONLY <1>1, DivMod
<1> HIDE DEF q, r
<1>3. /\ q < BmpBytes => (q * ByteBits) + ByteBits <= BmpBits
      /\ BmpBytes <= q => BmpBits <= q * ByteBits
      /\ BmpBytes < q => BmpBits + ByteBits <= q * ByteBits
      /\ q < 0 => (q * ByteBits) + ByteBits <= 0
      /\ q * ByteBits \in Int
  <2>1. 0 * ByteBits = 0
    BY <1>1
  <2>2. QED
    BY <1>1, <1>2, <2>1, Bytes2Bits
<1> DEFINE w == q * ByteBits
<1>4. /\ x = w + r /\ w \in Int /\ (q < BmpBytes => w + ByteBits <= BmpBits)
      /\ (BmpBytes <= q => BmpBits <= w) /\ (BmpBytes < q => BmpBits + ByteBits <= w)
      /\ (q < 0 => w + ByteBits <= 0)
  BY <1>2, <1>3
<1> HIDE DEF w
<1>5. q \in Nat /\ (x <= BmpBits => q <= BmpBytes) /\ (x < BmpBits <=> q < BmpBytes)
  BY <1>1, <1>2, <1>4
<1>6. QED
  BY <1>5 DEF q

\* The zones follow each other and are the volume.
LEMMA ZoneBounds ==
    /\ BmpBytes \in Nat /\ PassTurns \in Nat \ {0}
    /\ ZoneFirst["DATA2"] = 0 /\ ZoneEnd["DATA2"] = mft_zone_start
    /\ ZoneFirst["MFT"] = mft_zone_start /\ ZoneEnd["MFT"] = mft_zone_end
    /\ ZoneFirst["DATA1"] = mft_zone_end /\ ZoneEnd["DATA1"] = NrClusters
    /\ mft_zone_start \in Nat /\ mft_zone_end \in Nat /\ mft_lcn \in Nat
    /\ mft_zone_start <= mft_lcn /\ mft_lcn < mft_zone_end /\ mft_zone_end < NrClusters
    /\ NrClusters \in Nat /\ NrClusters <= BmpBits /\ BmpBits \in Nat
    /\ "MFT" \in Zones /\ "DATA1" \in Zones /\ "DATA2" \in Zones
    /\ \A z \in Zones : z = "MFT" \/ z = "DATA1" \/ z = "DATA2"
  BY LcnAllocAssumption, ZoneFacts DEF ZoneFirst, ZoneEnd, Zones, PassTurns

\* A position is where a zone starts only if that is its own zone.
LEMMA PosFacts ==
  ASSUME NEW p \in [Zones -> Nat], PosOK(p)
  PROVE  /\ \A z \in Zones : AtStart(p[z]) => p[z] = ZoneFirst[z]
         /\ \A z \in Zones : p[z] \in Nat /\ p[z] <= BmpBits
         /\ ZoneOf(p["MFT"]) = "MFT" /\ ZoneOf(p["DATA1"]) = "DATA1"
<1>1. \A z \in Zones : p[z] \in Nat /\ ZoneFirst[z] <= p[z] /\ p[z] <= ZoneEnd[z]
                       /\ (p[z] < ZoneEnd[z] \/ ZoneFirst[z] = ZoneEnd[z])
  BY ZoneFacts DEF PosOK
<1>2. \A z \in Zones : AtStart(p[z]) => p[z] = ZoneFirst[z]
  BY <1>1, ZoneBounds DEF AtStart
<1>3. \A z \in Zones : p[z] <= BmpBits
  BY <1>1, ZoneBounds
<1>4. ZoneOf(p["MFT"]) = "MFT" /\ ZoneOf(p["DATA1"]) = "DATA1"
  BY <1>1, ZoneBounds DEF ZoneOf
<1>5. QED
  BY <1>1, <1>2, <1>3, <1>4

\* ntfs_cluster_update_zone_pos leaves the position inside the zone.
LEMMA SetPos ==
  ASSUME NEW p \in [Zones -> Nat], PosOK(p), NEW zone \in Zones, NEW tc \in Int
  PROVE  PosOK(set_zone_pos(p, zone, tc))
<1> DEFINE start == IF zone = "MFT" THEN mft_lcn ELSE ZoneFirst[zone]
           new == set_zone_pos(p, zone, tc)
<1>1. /\ start \in Nat /\ ZoneFirst[zone] \in Nat /\ ZoneEnd[zone] \in Nat
      /\ ZoneFirst[zone] <= start /\ start <= ZoneEnd[zone]
      /\ start < ZoneEnd[zone] \/ ZoneFirst[zone] = ZoneEnd[zone]
  BY ZoneBounds
<1>2. new = IF tc >= ZoneEnd[zone] THEN [p EXCEPT ![zone] = start]
            ELSE IF tc >= start THEN [p EXCEPT ![zone] = tc] ELSE p
  BY DEF set_zone_pos
<1> HIDE DEF start, new
<1>3. \A z \in Zones : z # zone => new[z] = p[z]
  BY <1>2
<1>4. \/ new[zone] = p[zone]
      \/ new[zone] = start
      \/ new[zone] = tc /\ start <= tc /\ tc < ZoneEnd[zone]
  BY <1>1, <1>2
<1>5. /\ new[zone] \in ZoneFirst[zone] .. ZoneEnd[zone]
      /\ new[zone] < ZoneEnd[zone] \/ ZoneFirst[zone] = ZoneEnd[zone]
  BY <1>1, <1>4 DEF PosOK
<1>6. PosOK(new)
  BY <1>3, <1>5 DEF PosOK
<1>7. QED
  BY <1>6 DEF new

\* The volume is mounted with a position in each zone.
LEMMA MountedPos == PosOK([MFT |-> mft_lcn, DATA1 |-> mft_zone_end, DATA2 |-> 0])
  BY ZoneBounds DEF PosOK

\* While one cluster is searched for, none has been taken.
LEMMA ThoroughFacts ==
  ASSUME IInv, Looking, Thorough
  PROVE  al \in AllocCall /\ al.clusters = 1 /\ al.rl = <<>>
<1>1. Searching /\ al \in AllocCall /\ al.clusters # 0 /\ RunsOK(al.rl)
  BY SearchFacts DEF IInv, CallsInv, Searching, Looking
<1>2. al.count = 1 /\ al.clusters \in Nat /\ al.rl \in Seq(Run)
  BY <1>1 DEF Thorough, AllocCall
<1>3. Cardinality(ClustersOf(al.rl)) \in Nat
  BY <1>1, ClustersFinite
<1>4. Cardinality(ClustersOf(al.rl)) = al.count - al.clusters /\ Chained(al.rl, al.count - al.clusters)
  BY <1>1 DEF IInv, AskedInv
<1>5. al.clusters = 1 /\ al.count - al.clusters = 0
  BY <1>1, <1>2, <1>3, <1>4
<1>6. al.rl = <<>>
  <2>1. SUFFICES ASSUME al.rl # <<>> PROVE FALSE
    OBVIOUS
  <2>2. al.rl[Len(al.rl)] \in Run
    BY <1>2, <2>1
  <2>3. al.rl[Len(al.rl)].vcn + al.rl[Len(al.rl)].length = 0
    BY <1>4, <1>5, <2>1 DEF Chained
  <2>4. QED
    BY <2>2, <2>3 DEF Run
<1>7. QED
  BY <1>1, <1>5, <1>6

\* Outside a search only the positions matter.
LEMMA NoSearch ==
  ASSUME pc' \in {"idle", "free"}, PosOK(pos')
  PROVE  SInv'
<1>1. PosInv' /\ TurnsInv' /\ CoverInv'
  BY DEF PosInv, PosOK, TurnsInv, CoverInv, Looking
<1>2. QED
  BY <1>1 DEF SInv

\* A step that leaves the bitmap alone and stays in the zone.
LEMMA HereStep ==
  ASSUME disk' = disk, al'.search = al.search,
         pc' = "zone" \/ (pc' = "pass" /\ al'.pass = 2) => AllMarked(al.search),
         pc' = "pass" /\ al'.pass = 1 => Marked(al'.zone_start, ZoneEnd[al.search]),
         pc' = "scan" /\ al'.used_zone_pos /\ al'.pass = 1 =>
            al'.zone_end = ZoneEnd[al.search] /\ Marked(al'.zone_start, al'.bmp_pos),
         pc' = "scan" /\ al'.used_zone_pos /\ al'.pass = 2 =>
            /\ Marked(ZoneFirst[al.search], al'.bmp_pos)
            /\ Marked(al'.zone_end, ZoneEnd[al.search])
  PROVE  HereInv'
<1>1. pc' = "zone" \/ (pc' = "pass" /\ al'.pass = 2) => AllMarked(al.search)'
  BY DEF AllMarked, Marked
<1>2. pc' = "pass" /\ al'.pass = 1 => Marked(al.zone_start, ZoneEnd[al.search])'
  BY DEF Marked
<1>3. pc' = "scan" /\ al'.used_zone_pos /\ al'.pass = 1 =>
         (al.zone_end = ZoneEnd[al.search] /\ Marked(al.zone_start, al.bmp_pos))'
  BY DEF Marked
<1>4. pc' = "scan" /\ al'.used_zone_pos /\ al'.pass = 2 =>
         (Marked(ZoneFirst[al.search], al.bmp_pos) /\ Marked(al.zone_end, ZoneEnd[al.search]))'
  BY DEF Marked
<1>5. QED
  BY <1>1, <1>2, <1>3, <1>4 DEF HereInv

\* The turns of a search stay within the bound when a step takes as many as it saves.
LEMMA WithinBound ==
  ASSUME NEW left \in 0 .. 3, NEW t \in Int, NEW h \in Int, NEW t1 \in Int, NEW h1 \in Int,
         t + (2 * left * PassTurns) + h <= (8 * PassTurns) + 1, t1 + h1 <= t + h
  PROVE  t1 + (2 * left * PassTurns) + h1 <= (8 * PassTurns) + 1
<1> DEFINE w == 2 * left * PassTurns
           b == (8 * PassTurns) + 1
<1>1. w \in Int /\ b \in Int /\ t + w + h <= b
  BY ZoneBounds
<1> HIDE DEF w, b
<1>2. t1 + w + h1 <= b
  BY <1>1
<1>3. QED
  BY <1>2 DEF w, b

\* So they do when a search begins.
LEMMA AtFirst ==
  ASSUME NEW left \in 0 .. 3, NEW h \in Int, h <= (2 * PassTurns) + 1
  PROVE  0 + (2 * left * PassTurns) + h <= (8 * PassTurns) + 1
<1> DEFINE n == PassTurns
<1>1. n \in Nat
  BY ZoneBounds
<1> HIDE DEF n
<1>2. CASE left = 0
  BY <1>1, <1>2 DEF n
<1>3. CASE left = 1
  BY <1>1, <1>3 DEF n
<1>4. CASE left = 2
  BY <1>1, <1>4 DEF n
<1>5. CASE left = 3
  BY <1>1, <1>5 DEF n
<1>6. QED
  BY <1>2, <1>3, <1>4, <1>5

\* A search begins.
LEMMA AllocSearch ==
  ASSUME IInv, SInv, ~leaked, NEW count \in 1 .. MaxCount, NEW start_lcn \in Hints \cup {-1},
         NEW zone, Alloc(count, start_lcn, zone)
  PROVE  SInv'
<1> DEFINE from == IF start_lcn >= 0 THEN start_lcn
                   ELSE IF zone = "DATA" THEN pos["DATA1"] ELSE pos["MFT"]
           z == ZoneOf(from)
<1>1. /\ pc = "idle" /\ pc' = "scan"
      /\ al' = [count |-> count, start_lcn |-> start_lcn, rl |-> <<>>, clusters |-> count,
                zone_start |-> from, zone_end |-> ZoneEnd[z], bmp_pos |-> from,
                pass |-> IF AtStart(from) THEN 2 ELSE 1,
                search |-> z, done_zones |-> {},
                has_guess |-> start_lcn >= 0, used_zone_pos |-> start_lcn < 0,
                turns |-> 0, flagged |-> full_zones,
                avail |-> Cardinality(Clusters \ used)]
      /\ UNCHANGED <<disk, owned, pos, full_zones, free, faults, leaked, fr, loc>>
  BY DEF Alloc
<1>2. pos \in [Zones -> Nat] /\ PosOK(pos)
  BY DEF IInv, StateInv, SInv, PosInv
<1>3. PosInv'
  BY <1>1, <1>2 DEF PosInv, PosOK
<1>4. start_lcn \in Int /\ (start_lcn >= 0 \/ start_lcn = -1)
  BY LcnAllocAssumption
<1>5. start_lcn < 0 =>
         /\ z \in {"MFT", "DATA1"} /\ from = pos[z] /\ from <= BmpBits
         /\ AtStart(from) => from = ZoneFirst[z]
  BY <1>2, <1>4, PosFacts, ZoneBounds
<1>6. from \in Nat /\ z \in Zones /\ ZoneEnd[z] \in Nat
  <2>1. z \in Zones /\ ZoneEnd[z] \in Nat
    BY ZoneFacts
  <2>2. QED
    BY <1>2, <1>4, <2>1, ZoneBounds
<1> HIDE DEF from, z
<1>11. /\ al'.count = count /\ al'.start_lcn = start_lcn /\ al'.zone_start = from
       /\ al'.zone_end = ZoneEnd[z] /\ al'.bmp_pos = from
       /\ al'.pass = (IF AtStart(from) THEN 2 ELSE 1)
       /\ al'.search = z /\ al'.done_zones = {} /\ al'.turns = 0
       /\ al'.flagged = full_zones /\ al'.avail = Cardinality(Clusters \ used)
  BY <1>1
<1>12. (al'.has_guess <=> start_lcn >= 0) /\ (al'.used_zone_pos <=> start_lcn < 0)
  BY <1>1
<1>7. TurnsInv'
  <2> DEFINE d == from \div ByteBits
  <2>1. d \in Nat
    BY <1>6, ByteOf
  <2> HIDE DEF d
  <2>2. PassTurns \in Nat \ {0}
    BY ZoneBounds
  <2>3. TurnsHere' <= (2 * PassTurns) + 1 /\ TurnsHere' \in Int
    <3>1. TurnsHere' = (IF AtStart(from) THEN 0 ELSE PassTurns)
                       + (IF start_lcn < 0 THEN PassTurns - d ELSE PassTurns)
                       + (IF start_lcn < 0 THEN 0 ELSE 1)
      <4>1. pc' = "scan" /\ (al'.pass = 1 <=> ~AtStart(from)) /\ al'.bmp_pos = from
        BY <1>1, <1>11
      <4>2. QED
        BY <1>12, <4>1 DEF TurnsHere, d
    <3>2. QED
      BY <2>1, <2>2, <3>1
  <2>4. \E left \in 0 .. 3 : <<z, {}, left>> \in Order
    BY <1>6, ZoneBounds DEF Order
  <2>5. PICK left \in 0 .. 3 : <<z, {}, left>> \in Order
    BY <2>4
  <2>6. 0 + (2 * left * PassTurns) + TurnsHere' <= (8 * PassTurns) + 1
    BY <2>3, AtFirst
  <2>7. QED
    BY <1>1, <1>5, <1>11, <1>12, <2>5, <2>6 DEF TurnsInv
<1>8. CoverInv'
  <2> SUFFICES ASSUME Thorough'
               PROVE  /\ al'.avail = Cardinality(Clusters \ used')
                      /\ full_zones' = al'.done_zones
                      /\ al'.done_zones = {}
                      /\ StartInv' /\ HereInv'
    BY DEF CoverInv
  <2>1. full_zones = {} /\ ~AtStart(start_lcn) /\ start_lcn < BmpBits
    BY <1>1 DEF Thorough, AtStart
  <2>2. used' = used
    BY <1>1 DEF used
  <2>3. CASE start_lcn < 0
    <3>1. /\ al'.used_zone_pos /\ ~al'.has_guess /\ al'.search = z /\ al'.zone_end = ZoneEnd[z]
          /\ al'.bmp_pos = from /\ al'.zone_start = from
          /\ al'.pass = IF AtStart(from) THEN 2 ELSE 1
      BY <1>4, <1>11, <1>12, <2>3
    <3>2. StartInv'
      BY <3>1 DEF StartInv
    <3>3. /\ \A k : k \notin from .. from - 1 /\ k \notin ZoneEnd[z] .. ZoneEnd[z] - 1
      BY <1>6
    <3>4. HereInv'
      <4>1. AtStart(from) => from = ZoneFirst[z]
        BY <1>5, <2>3
      <4>2. QED
        BY <1>1, <3>1, <3>3, <4>1 DEF HereInv, Marked
    <3>5. QED
      BY <1>1, <2>1, <2>2, <3>2, <3>4
  <2>4. CASE start_lcn >= 0
    <3>1. from = start_lcn
      BY <2>4 DEF from
    <3>2. /\ ~al'.used_zone_pos /\ al'.search = z /\ al'.zone_end = ZoneEnd[z]
          /\ al'.bmp_pos = al'.start_lcn /\ al'.pass = 1 /\ al'.done_zones = {}
      BY <1>4, <1>11, <1>12, <2>1, <2>4, <3>1
    <3>3. StartInv' /\ HereInv'
      BY <1>1, <3>2 DEF StartInv, HereInv
    <3>4. QED
      BY <1>1, <2>1, <2>2, <3>3
  <2>5. QED
    BY <1>4, <2>3, <2>4
<1>9. QED
  BY <1>3, <1>7, <1>8 DEF SInv

\* A turn that reads nothing.
LEMMA SkipSearch ==
  ASSUME IInv, SInv, SkipScan
  PROVE  SInv'
<1>1. pc = "scan" /\ pc' = "pass" /\ al' = [al EXCEPT !.turns = @ + 1]
      /\ (al.search \in full_zones \/ al.bmp_pos \div ByteBits >= BmpBytes)
      /\ UNCHANGED <<disk, owned, pos, full_zones, free, faults, leaked, fr, loc>>
  BY DEF SkipScan
<1>2. Looking /\ al \in AllocCall
  BY <1>1 DEF IInv, CallsInv, Searching, Looking
<1>3. /\ al'.turns = al.turns + 1 /\ al'.count = al.count /\ al'.start_lcn = al.start_lcn
      /\ al'.zone_start = al.zone_start /\ al'.zone_end = al.zone_end
      /\ al'.bmp_pos = al.bmp_pos /\ al'.pass = al.pass /\ al'.search = al.search
      /\ al'.done_zones = al.done_zones /\ al'.has_guess = al.has_guess
      /\ al'.used_zone_pos = al.used_zone_pos /\ al'.flagged = al.flagged /\ al'.avail = al.avail
      /\ al.turns \in Nat /\ al.bmp_pos \in Nat /\ al.pass \in {1, 2}
      /\ al.zone_start \in Nat /\ al.zone_end \in Nat /\ al.search \in Zones
      /\ al.used_zone_pos \in BOOLEAN
  BY <1>1, <1>2 DEF AllocCall
<1>4. PosInv'
  BY <1>1 DEF SInv, PosInv, PosOK
<1>5. TurnsInv'
  <2> DEFINE d == al.bmp_pos \div ByteBits
  <2>1. d \in Nat /\ (al.bmp_pos <= BmpBits => d <= BmpBytes)
    BY <1>3, ByteOf
  <2>2. PassTurns \in Nat \ {0} /\ PassTurns = BmpBytes + 1 /\ BmpBytes \in Nat
    BY ZoneBounds DEF PassTurns
  <2>3. al.used_zone_pos => al.bmp_pos <= BmpBits
    BY <1>2 DEF SInv, TurnsInv
  <2> HIDE DEF d
  <2>4. TurnsHere' + 1 <= TurnsHere /\ TurnsHere \in Int /\ TurnsHere' \in Int
    <3>1. TurnsHere = (IF al.pass = 1 THEN PassTurns ELSE 0)
                      + (IF al.used_zone_pos THEN PassTurns - d ELSE PassTurns)
                      + (IF al.used_zone_pos THEN 0 ELSE 1)
      BY <1>1 DEF TurnsHere, d
    <3>2. TurnsHere' = (IF al.pass = 1 THEN PassTurns ELSE 0) + 0
                       + (IF al.used_zone_pos THEN 0 ELSE 1)
      BY <1>1, <1>3 DEF TurnsHere
    <3>3. QED
      BY <2>1, <2>2, <2>3, <3>1, <3>2
  <2>5. PICK left \in 0 .. 3 :
           /\ <<al.search, al.done_zones, left>> \in Order
           /\ al.turns + (2 * left * PassTurns) + TurnsHere <= (8 * PassTurns) + 1
    BY <1>2 DEF SInv, TurnsInv
  <2>6. al'.turns + (2 * left * PassTurns) + TurnsHere' <= (8 * PassTurns) + 1
    <3>1. /\ al.turns \in Int /\ al'.turns \in Int /\ TurnsHere \in Int /\ TurnsHere' \in Int
          /\ al'.turns + TurnsHere' <= al.turns + TurnsHere
      <4> DEFINE t == al.turns
                 h == TurnsHere
                 h1 == TurnsHere'
      <4>1. t \in Nat /\ al'.turns = t + 1 /\ h \in Int /\ h1 \in Int /\ h1 + 1 <= h
        BY <1>3, <2>4
      <4> HIDE DEF t, h, h1
      <4>2. t \in Int /\ al'.turns \in Int /\ al'.turns + h1 <= t + h
        BY ONLY <4>1
      <4>3. QED
        BY <4>1, <4>2 DEF t, h, h1
    <3>2. QED
      BY ONLY <2>5, <3>1, WithinBound
  <2>7. QED
    BY <1>1, <1>3, <2>3, <2>5, <2>6 DEF TurnsInv
<1>6. CoverInv'
  <2> SUFFICES ASSUME Thorough'
               PROVE  /\ al'.avail = Cardinality(Clusters \ used')
                      /\ full_zones' = al'.done_zones
                      /\ \A z \in al'.done_zones : AllMarked(z)'
                      /\ StartInv'
                      /\ al'.search \notin al'.done_zones => HereInv'
    BY DEF CoverInv
  <2>1. Thorough
    BY <1>3 DEF Thorough, AtStart
  <2>2. /\ al.avail = Cardinality(Clusters \ used) /\ full_zones = al.done_zones
        /\ \A z \in al.done_zones : AllMarked(z)
        /\ StartInv /\ (al.search \notin al.done_zones => HereInv)
    BY <1>2, <2>1 DEF SInv, CoverInv
  <2>3. used' = used /\ \A z \in al.done_zones : AllMarked(z)'
    BY <1>1, <2>2 DEF used, AllMarked, Marked
  <2>4. al.bmp_pos < BmpBits => al.search \in al.done_zones
    <3>1. al.bmp_pos < BmpBits => al.bmp_pos \div ByteBits < BmpBytes
             /\ al.bmp_pos \div ByteBits \in Nat
      BY <1>3, ByteOf
    <3>2. QED
      BY <1>1, <2>2, <3>1, ZoneBounds
  <2>5. al.used_zone_pos /\ ~al.has_guess
    <3>1. SUFFICES ASSUME ~al.used_zone_pos, al.done_zones = {}, al.bmp_pos = al.start_lcn
                   PROVE  FALSE
      BY <2>2 DEF StartInv
    <3>2. QED
      BY <2>1, <2>4, <3>1 DEF Thorough
  <2>6. ASSUME al.search \notin al.done_zones PROVE HereInv'
    <3>1. ~(al.bmp_pos < BmpBits) /\ ZoneEnd[al.search] <= al.bmp_pos
          /\ ZoneEnd[al.search] \in Nat /\ ZoneFirst[al.search] \in Nat
      BY <1>3, <2>4, <2>6, ZoneBounds
    <3>2. /\ al.pass = 1 => Marked(al.zone_start, al.bmp_pos)
          /\ al.pass = 2 => Marked(ZoneFirst[al.search], al.bmp_pos)
      BY <1>1, <2>2, <2>5, <2>6 DEF HereInv
    <3>3. /\ al.pass = 1 => Marked(al.zone_start, ZoneEnd[al.search])
          /\ al.pass = 2 => AllMarked(al.search)
      BY <1>3, <3>1, <3>2 DEF Marked, AllMarked
    <3>4. QED
      BY <1>1, <1>3, <3>3, HereStep
  <2>7. StartInv'
    BY <1>3, <2>5 DEF StartInv
  <2>8. QED
    BY <1>1, <1>3, <2>2, <2>3, <2>6, <2>7
<1>7. QED
  BY <1>4, <1>5, <1>6 DEF SInv

\* A step of the search that does not take longer than it saves.
LEMMA TurnsStep ==
  ASSUME SInv, Looking, Looking', al \in AllocCall, al' \in AllocCall,
         al'.search = al.search, al'.done_zones = al.done_zones,
         TurnsHere \in Int, TurnsHere' \in Int,
         al'.turns + TurnsHere' <= al.turns + TurnsHere,
         al'.used_zone_pos => al'.bmp_pos <= BmpBits
  PROVE  TurnsInv'
<1>1. PICK left \in 0 .. 3 :
         /\ <<al.search, al.done_zones, left>> \in Order
         /\ al.turns + (2 * left * PassTurns) + TurnsHere <= (8 * PassTurns) + 1
  BY DEF SInv, TurnsInv
<1>2. al.turns \in Int /\ al'.turns \in Int
  BY DEF AllocCall
<1>3. al'.turns + (2 * left * PassTurns) + TurnsHere' <= (8 * PassTurns) + 1
  BY <1>1, <1>2, WithinBound
<1>4. pc' # "done"
  BY DEF Looking
<1>5. QED
  BY <1>1, <1>3, <1>4 DEF TurnsInv

\* The first pass over a zone has ended and the second begins, or that one has ended.
LEMMA PassSearch ==
  ASSUME IInv, SInv, IInv', ZonePassDone
  PROVE  SInv'
<1> DEFINE s == ZoneFirst[al.search]
           m == Max({al.zone_start, s})
<1>1. /\ pc = "pass" /\ UNCHANGED <<disk, owned, pos, full_zones, free, faults, leaked, fr, loc>>
      /\ \/ /\ al.pass = 1 /\ pc' = "scan"
            /\ al' = [al EXCEPT !.pass = 2, !.zone_start = s, !.bmp_pos = s, !.zone_end = m]
         \/ al.pass = 2 /\ pc' = "zone" /\ al' = al
  BY DEF ZonePassDone
<1>2. Looking /\ Looking' /\ al \in AllocCall /\ al' \in AllocCall
  BY <1>1 DEF IInv, CallsInv, Searching, Looking
<1>3. /\ al'.turns = al.turns /\ al'.count = al.count /\ al'.start_lcn = al.start_lcn
      /\ al'.search = al.search
      /\ al'.done_zones = al.done_zones /\ al'.has_guess = al.has_guess
      /\ al'.used_zone_pos = al.used_zone_pos /\ al'.flagged = al.flagged /\ al'.avail = al.avail
      /\ al.turns \in Nat /\ al.bmp_pos \in Nat /\ al.pass \in {1, 2}
      /\ al.zone_start \in Nat /\ al.zone_end \in Nat /\ al.search \in Zones
      /\ al.used_zone_pos \in BOOLEAN
  BY <1>1, <1>2 DEF AllocCall
<1>4. pc' = "scan" => /\ al'.pass = 2 /\ al'.zone_start = s /\ al'.bmp_pos = s
                      /\ al'.zone_end = m /\ al.pass = 1
  BY <1>1, <1>2 DEF AllocCall
<1>5. pc' = "zone" => al.pass = 2 /\ al' = al
  BY <1>1
<1>6. s \in Nat /\ s <= BmpBits /\ m \in Nat /\ al.zone_start <= m
  <2>1. s \in Nat /\ s <= BmpBits
    BY <1>3, ZoneBounds
  <2>2. s \in Int /\ al.zone_start \in Int
    BY <1>3, <2>1
  <2> HIDE DEF s
  <2>3. m = IF al.zone_start <= s THEN s ELSE al.zone_start
    BY ONLY <2>2, MinMaxOfTwo
  <2>4. QED
    BY <1>3, <2>1, <2>2, <2>3
<1> HIDE DEF s, m
<1>7. pc' = "scan" \/ pc' = "zone"
  BY <1>1
<1>8. PosInv'
  BY <1>1 DEF SInv, PosInv, PosOK
<1>9. TurnsInv'
  <2> DEFINE d == s \div ByteBits
             c == IF al.used_zone_pos THEN 0 ELSE 1
  <2>1. d \in Nat /\ PassTurns \in Nat /\ c \in Nat
    BY <1>6, ByteOf, ZoneBounds
  <2> HIDE DEF d
  <2>2. TurnsHere = (IF al.pass = 1 THEN PassTurns ELSE 0) + 0 + c
    BY <1>1 DEF TurnsHere
  <2>3. CASE pc' = "scan"
    <3>1. TurnsHere' = 0 + (IF al.used_zone_pos THEN PassTurns - d ELSE PassTurns) + c
      <4>1. pc' = "scan" /\ al'.pass # 1 /\ al'.bmp_pos = s /\ al'.used_zone_pos = al.used_zone_pos
        BY <1>3, <1>4, <2>3
      <4>2. QED
        BY <4>1 DEF TurnsHere, d
    <3>2. TurnsHere \in Int /\ TurnsHere' \in Int /\ TurnsHere' <= TurnsHere
      BY <1>4, <2>1, <2>2, <2>3, <3>1
    <3>3. al'.turns + TurnsHere' <= al.turns + TurnsHere
      <4> DEFINE t == al.turns
                 h == TurnsHere
                 h1 == TurnsHere'
      <4>1. t \in Nat /\ h \in Int /\ h1 \in Int /\ h1 <= h /\ al'.turns = t
        BY <1>3, <3>2
      <4> HIDE DEF t, h, h1
      <4>2. al'.turns + h1 <= t + h
        BY ONLY <4>1
      <4>3. QED
        BY <4>2 DEF t, h, h1
    <3>4. al'.bmp_pos <= BmpBits
      BY <1>4, <1>6, <2>3
    <3>5. QED
      BY <1>2, <1>3, <3>2, <3>3, <3>4, TurnsStep
  <2>4. CASE pc' = "zone"
    <3>1. TurnsHere' = 0 + 0 + c /\ TurnsHere = 0 + 0 + c
      BY <1>5, <2>2, <2>4 DEF TurnsHere
    <3>2. al.used_zone_pos => al.bmp_pos <= BmpBits
      BY <1>2 DEF SInv, TurnsInv
    <3>3. /\ TurnsHere \in Int /\ TurnsHere' \in Int
          /\ al'.turns + TurnsHere' <= al.turns + TurnsHere
      BY <1>3, <2>1, <3>1
    <3>4. QED
      BY <1>2, <1>3, <1>5, <2>4, <3>2, <3>3, TurnsStep
  <2>5. QED
    BY <1>7, <2>3, <2>4
<1>10. CoverInv'
  <2> SUFFICES ASSUME Thorough'
               PROVE  /\ al'.avail = Cardinality(Clusters \ used')
                      /\ full_zones' = al'.done_zones
                      /\ \A z \in al'.done_zones : AllMarked(z)'
                      /\ StartInv'
                      /\ al'.search \notin al'.done_zones => HereInv'
    BY DEF CoverInv
  <2>1. Thorough
    BY <1>3 DEF Thorough, AtStart
  <2>2. /\ al.avail = Cardinality(Clusters \ used) /\ full_zones = al.done_zones
        /\ \A z \in al.done_zones : AllMarked(z)
        /\ StartInv /\ (al.search \notin al.done_zones => HereInv)
    BY <1>2, <2>1 DEF SInv, CoverInv
  <2>3. used' = used /\ \A z \in al.done_zones : AllMarked(z)'
    BY <1>1, <2>2 DEF used, AllMarked, Marked
  <2>4. al.used_zone_pos /\ ~al.has_guess
    BY <1>1, <2>2 DEF StartInv
  <2>5. StartInv'
    BY <1>3, <2>4 DEF StartInv
  <2>6. ASSUME al.search \notin al.done_zones PROVE HereInv'
    <3>1. /\ al.pass = 1 => Marked(al.zone_start, ZoneEnd[al.search])
          /\ al.pass = 2 => AllMarked(al.search)
      BY <1>1, <2>2, <2>6 DEF HereInv
    <3>2. CASE pc' = "scan"
      <4>1. Marked(m, ZoneEnd[al.search])
        <5>1. Marked(al.zone_start, ZoneEnd[al.search]) /\ ZoneEnd[al.search] \in Nat
          BY <1>3, <1>4, <3>1, <3>2, ZoneFacts
        <5>2. \A k \in m .. ZoneEnd[al.search] - 1 : k \in al.zone_start .. ZoneEnd[al.search] - 1
          BY <1>3, <1>6, <5>1
        <5>3. QED
          BY <5>1, <5>2 DEF Marked
      <4>2. Marked(ZoneFirst[al.search], s)
        BY <1>6 DEF Marked, s
      <4>3. QED
        BY <1>1, <1>3, <1>4, <3>2, <4>1, <4>2, HereStep
    <3>3. CASE pc' = "zone"
      BY <1>1, <1>5, <3>1, <3>3, HereStep
    <3>4. QED
      BY <1>7, <3>2, <3>3
  <2>7. QED
    BY <1>1, <1>3, <2>2, <2>3, <2>5, <2>6
<1>11. QED
  BY <1>8, <1>9, <1>10 DEF SInv

\* A turn of the loop.
LEMMA ScanSearch ==
  ASSUME IInv, SInv, IInv', Scan
  PROVE  SInv'
<1>1. pc = "scan" /\ StateInv
  BY DEF Scan, IInv
<1>2. al \in AllocCall /\ al.clusters # 0 /\ Looking /\ Searching
  BY <1>1 DEF IInv, CallsInv, Searching, Looking
<1>3. PICK at \in Int, n \in Nat, end \in Nat : Takes(at, n) /\ Turn(n, end)
  BY <1>1, <1>2, ScanStep
<1>4. pos \in [Zones -> Nat] /\ PosOK(pos) /\ disk \in [B!BitSet -> BOOLEAN]
  BY <1>1 DEF StateInv, SInv, PosInv
<1>5. /\ al'.count = al.count /\ al'.clusters = al.clusters - n /\ full_zones' = full_zones
      /\ pc' \in {"scan", "pass", "done", "free"}
      /\ pc' # "free" => /\ disk' = [b \in DOMAIN disk |-> disk[b] \/ (n > 0 /\ b \in at .. at + n - 1)]
                         /\ (pc' = "done" <=> al'.clusters = 0)
  BY <1>3 DEF Takes, GiveBack
<1>6. /\ al.turns \in Nat /\ al.bmp_pos \in Nat /\ al.pass \in {1, 2}
      /\ al.zone_start \in Nat /\ al.zone_end \in Nat /\ al.search \in Zones
      /\ al.used_zone_pos \in BOOLEAN /\ al.clusters \in Nat
  BY <1>2 DEF AllocCall
<1>7. PosOK(pos')
  <2>1. pos' = pos \/ \E tc \in Int : pos' = set_zone_pos(pos, al.search, tc)
    BY <1>3 DEF Turn
  <2>2. QED
    BY <1>4, <1>6, <2>1, SetPos
<1>8. PosInv'
  BY <1>7 DEF PosInv, PosOK
<1> DEFINE d == al.bmp_pos \div ByteBits
           e == end \div ByteBits
           c == IF al.used_zone_pos THEN 0 ELSE 1
           x == IF al.pass = 1 THEN PassTurns ELSE 0
<1>9. /\ d \in Nat /\ e \in Nat /\ d + 1 <= e /\ e <= BmpBytes /\ BmpBytes \in Nat
      /\ PassTurns = BmpBytes + 1 /\ al'.turns = al.turns + 1
      /\ al'.search = al.search /\ al'.done_zones = al.done_zones /\ end <= BmpBits
  <2>1. d \in Nat /\ e \in Nat /\ (end <= BmpBits => e <= BmpBytes)
    BY <1>3, <1>6, ByteOf
  <2>2. QED
    BY <1>3, <2>1, ZoneBounds DEF Turn, PassTurns
<1> HIDE DEF d, e
<1>10. TurnsHere = x + (IF al.used_zone_pos THEN PassTurns - d ELSE PassTurns) + c
  BY <1>1 DEF TurnsHere, d
<1>11. CASE pc' = "free"
  BY <1>7, <1>11, NoSearch
<1>12. CASE pc' = "done"
  <2>1. PICK left \in 0 .. 3 :
           al.turns + (2 * left * PassTurns) + TurnsHere <= (8 * PassTurns) + 1
    BY <1>2 DEF SInv, TurnsInv
  <2>2. TurnsHere \in Int /\ TurnsHere >= 1
    BY <1>6, <1>9, <1>10
  <2>3. al'.turns <= (8 * PassTurns) + 1
    <3> DEFINE w == 2 * left * PassTurns
               h == TurnsHere
               t == al.turns
               b == (8 * PassTurns) + 1
    <3>1. w \in Nat /\ b \in Int
      BY <1>9
    <3>2. h \in Int /\ h >= 1 /\ t \in Nat /\ t + w + h <= b /\ al'.turns = t + 1
      BY <1>6, <1>9, <2>1, <2>2
    <3> HIDE DEF w, h, t, b
    <3>3. al'.turns <= b
      BY ONLY <3>1, <3>2
    <3>4. QED
      BY <3>3 DEF b
  <2>4. TurnsInv' /\ CoverInv'
    BY <1>12, <2>3 DEF TurnsInv, CoverInv, Looking
  <2>5. QED
    BY <1>8, <2>4 DEF SInv
<1>13. CASE pc' = "scan" \/ pc' = "pass"
  <2>1. /\ al'.clusters # 0 /\ Looking' /\ al' \in AllocCall
        /\ disk' = [b \in DOMAIN disk |-> disk[b] \/ (n > 0 /\ b \in at .. at + n - 1)]
    BY <1>5, <1>13 DEF Looking, IInv, CallsInv, Searching
  <2>2. /\ al'.used_zone_pos /\ al'.zone_end = al.zone_end /\ al'.start_lcn = al.start_lcn
        /\ al'.flagged = al.flagged /\ al'.avail = al.avail
        /\ al.used_zone_pos => /\ al'.bmp_pos = end /\ al'.zone_start = al.zone_start
                               /\ al'.pass = al.pass
        /\ ~al.used_zone_pos =>
              /\ al'.bmp_pos = pos[al.search] /\ al'.zone_start = pos[al.search]
              /\ al'.pass = IF AtStart(pos[al.search]) THEN 2 ELSE al.pass
        /\ pc' = IF al'.bmp_pos < al.zone_end THEN "scan" ELSE "pass"
        /\ n = 0 => ~al'.has_guess /\ (~al.has_guess => Marked(al.bmp_pos, end))
    BY <1>3, <1>13, <2>1 DEF Turn
  <2>3. /\ pos[al.search] \in Nat /\ pos[al.search] <= BmpBits
        /\ AtStart(pos[al.search]) => pos[al.search] = ZoneFirst[al.search]
    BY <1>4, <1>6, PosFacts
  <2>4. TurnsInv'
    <3> DEFINE d1 == al'.bmp_pos \div ByteBits
               x1 == IF al'.pass = 1 THEN PassTurns ELSE 0
    <3>1. al'.bmp_pos \in Nat /\ al'.bmp_pos <= BmpBits
      BY <1>9, <2>2, <2>3
    <3>2. d1 \in Nat /\ (al.used_zone_pos => d1 = e)
      BY <2>2, <3>1, ByteOf DEF e
    <3>3. TurnsHere' = x1 + (IF pc' # "scan" THEN 0 ELSE PassTurns - d1) + 0
      BY <1>13, <2>2 DEF TurnsHere
    <3> HIDE DEF d1
    <3>4. x1 <= x /\ x1 \in Int /\ x \in Int /\ (al.used_zone_pos => x1 = x)
      BY <1>6, <1>9, <2>2
    <3> HIDE DEF x, x1
    <3>5. TurnsHere \in Int /\ TurnsHere' \in Int /\ TurnsHere' + 1 <= TurnsHere
      BY <1>6, <1>9, <1>10, <3>2, <3>3, <3>4
    <3>6. al'.turns + TurnsHere' <= al.turns + TurnsHere
      <4> DEFINE t == al.turns
                 h == TurnsHere
                 h1 == TurnsHere'
      <4>1. t \in Nat /\ h \in Int /\ h1 \in Int /\ h1 + 1 <= h /\ al'.turns = t + 1
        BY <1>6, <1>9, <3>5
      <4> HIDE DEF t, h, h1
      <4>2. al'.turns + h1 <= t + h
        BY ONLY <4>1
      <4>3. QED
        BY <4>2 DEF t, h, h1
    <3>7. QED
      BY <1>2, <1>9, <2>1, <3>1, <3>5, <3>6, TurnsStep
  <2>5. CoverInv'
    <3> SUFFICES ASSUME Thorough'
                 PROVE  /\ al'.avail = Cardinality(Clusters \ used')
                        /\ full_zones' = al'.done_zones
                        /\ \A z \in al'.done_zones : AllMarked(z)'
                        /\ StartInv'
                        /\ HereInv'
      BY DEF CoverInv
    <3>1. Thorough
      BY <1>5, <2>2 DEF Thorough, AtStart
    <3>2. /\ al.avail = Cardinality(Clusters \ used) /\ full_zones = al.done_zones
          /\ \A z \in al.done_zones : AllMarked(z)
          /\ StartInv /\ (al.search \notin al.done_zones => HereInv)
      BY <1>2, <3>1 DEF SInv, CoverInv
    <3>3. n = 0
      <4>1. al.clusters = 1
        BY <1>2, <3>1, ThoroughFacts
      <4>2. n # 1 /\ al'.clusters \in Nat
        BY <1>5, <2>1, <4>1 DEF AllocCall
      <4>3. QED
        BY <1>5, <4>1, <4>2
    <3>4. disk' = disk
      <4>1. \A b \in DOMAIN disk : (disk[b] \/ (n > 0 /\ b \in at .. at + n - 1)) = disk[b]
        BY <1>4, <3>3
      <4>2. QED
        BY <1>4, <2>1, <4>1
    <3>5. used' = used /\ \A z \in al.done_zones : AllMarked(z)'
      BY <3>2, <3>4 DEF used, AllMarked, Marked
    <3>6. StartInv'
      BY <2>2, <3>3 DEF StartInv
    <3>7. al.search \notin al.done_zones
      BY <1>3, <3>2 DEF Turn
    <3> DEFINE f == ZoneFirst[al.search]
               g == ZoneEnd[al.search]
    <3>8. f \in Nat /\ g \in Nat
      BY <1>6, ZoneFacts
    <3>9. ASSUME ~al.used_zone_pos PROVE HereInv'
      <4> DEFINE p == pos[al.search]
      <4>1. /\ al'.pass = (IF AtStart(p) THEN 2 ELSE 1) /\ al.zone_end = g
            /\ al'.bmp_pos = p /\ al'.zone_start = p
        BY <2>2, <3>2, <3>9 DEF StartInv
      <4>2. Marked(p, p) /\ Marked(g, g) /\ (g <= p => f = g)
        BY <1>4, <1>6, <2>3, <3>8 DEF Marked, PosOK
      <4>3. AtStart(p) => p = f
        BY <2>3
      <4>4. CASE pc' = "scan"
        <5>1. /\ al'.pass = 1 => al'.zone_end = g /\ Marked(al'.zone_start, al'.bmp_pos)
              /\ al'.pass = 2 => Marked(f, al'.bmp_pos) /\ Marked(al'.zone_end, g)
          <6> HIDE DEF f, g, p
          <6>1. QED
            BY <2>2, <4>1, <4>2, <4>3
        <5>2. pc' = "scan" /\ al'.search = al.search
          BY <1>9, <4>4
        <5>3. QED
          BY ONLY <3>4, <5>1, <5>2, HereStep
      <4>5. CASE pc' = "pass"
        <5>1. g <= p
          <6> HIDE DEF f, g
          <6>1. QED
            BY <2>2, <2>3, <3>8, <4>1, <4>5
        <5>2. Marked(p, g) /\ Marked(f, g)
          <6>1. f = g /\ p \in Nat /\ g \in Nat
            BY <2>3, <3>8, <4>2, <5>1
          <6> HIDE DEF f, g, p
          <6>2. QED
            BY <5>1, <6>1 DEF Marked
        <5>3. pc' = "pass" /\ al'.search = al.search /\ al'.zone_start = p
          BY <1>9, <4>1, <4>5
        <5>4. AllMarked(al.search) /\ Marked(al'.zone_start, ZoneEnd[al.search])
          BY <5>2, <5>3 DEF AllMarked
        <5>5. QED
          BY ONLY <3>4, <5>3, <5>4, HereStep
      <4>6. QED
        BY <1>13, <4>4, <4>5
    <3>10. ASSUME al.used_zone_pos PROVE HereInv'
      <4>1. ~al.has_guess
        BY <3>2, <3>10 DEF StartInv
      <4>2. Marked(al.bmp_pos, end) /\ al'.bmp_pos = end /\ al'.zone_start = al.zone_start
            /\ al'.pass = al.pass
        BY <2>2, <3>3, <3>10, <4>1
      <4>3. /\ al.pass = 1 => al.zone_end = g /\ Marked(al.zone_start, al.bmp_pos)
            /\ al.pass = 2 => Marked(f, al.bmp_pos) /\ Marked(al.zone_end, g)
        BY <1>1, <3>2, <3>7, <3>10 DEF HereInv
      <4>4. /\ al.pass = 1 => al.zone_end = g /\ Marked(al.zone_start, end)
            /\ al.pass = 2 => Marked(f, end) /\ Marked(al.zone_end, g)
        <5>1. \A a \in Nat : Marked(a, al.bmp_pos) => Marked(a, end)
          BY <1>6, <4>2 DEF Marked
        <5> HIDE DEF f, g
        <5>2. QED
          BY <1>6, <3>8, <4>3, <5>1
      <4>5. CASE pc' = "scan"
        <5>1. pc' = "scan" /\ al'.search = al.search
          BY <1>9, <4>5
        <5>2. /\ al'.pass = 1 => al'.zone_end = g /\ Marked(al'.zone_start, al'.bmp_pos)
              /\ al'.pass = 2 => Marked(f, al'.bmp_pos) /\ Marked(al'.zone_end, g)
          <6> HIDE DEF f, g
          <6>1. QED
            BY <2>2, <4>2, <4>4
        <5>3. QED
          BY ONLY <3>4, <5>1, <5>2, HereStep
      <4>6. CASE pc' = "pass"
        <5>1. al.zone_end <= end
          BY <1>6, <2>2, <4>2, <4>6
        <5>2. /\ al.pass = 1 => Marked(al.zone_start, g)
              /\ al.pass = 2 => Marked(f, g)
          <6> HIDE DEF f, g
          <6>1. QED
            BY <1>6, <3>8, <4>4, <5>1 DEF Marked
        <5>3. pc' = "pass" /\ al'.search = al.search
          BY <1>9, <4>6
        <5>4. /\ al'.pass = 1 => Marked(al'.zone_start, ZoneEnd[al.search])
              /\ al'.pass = 2 => AllMarked(al.search)
          BY <4>2, <5>2 DEF AllMarked
        <5>5. QED
          BY ONLY <3>4, <5>3, <5>4, HereStep
      <4>7. QED
        BY <1>13, <4>5, <4>6
    <3>11. QED
      BY <1>5, <1>6, <1>9, <2>2, <3>2, <3>5, <3>6, <3>9, <3>10
  <2>6. QED
    BY <1>8, <2>4, <2>5 DEF SInv
<1>14. QED
  BY <1>5, <1>11, <1>12, <1>13

\* Where the search goes after a zone, and that it goes to one zone less from there.
LEMMA NextInOrder ==
  ASSUME NEW left \in 0 .. 3, NEW zone, NEW done,
         <<zone, done, left>> \in Order, done \cup {zone} # Zones
  PROVE  /\ left - 1 \in 0 .. 3
         /\ <<NextZone(zone, done \cup {zone}), done \cup {zone}, left - 1>> \in Order
         /\ NextZone(zone, done \cup {zone}) \in Zones
<1> DEFINE then == <<NextZone(zone, done \cup {zone}), done \cup {zone}, left - 1>>
<1>1. \/ zone = "MFT" /\ done = {} /\ left = 2
      \/ zone = "DATA1" /\ done = {"MFT"} /\ left = 1
      \/ zone = "DATA2" /\ done = {"MFT", "DATA1"} /\ left = 0
      \/ zone = "DATA1" /\ done = {} /\ left = 2
      \/ zone = "DATA2" /\ done = {"DATA1"} /\ left = 1
      \/ zone = "MFT" /\ done = {"DATA1", "DATA2"} /\ left = 0
      \/ zone = "DATA2" /\ done = {} /\ left = 3
      \/ zone = "DATA1" /\ done = {"DATA2"} /\ left = 2
      \/ zone = "DATA2" /\ done = {"DATA1", "DATA2"} /\ left = 1
  BY DEF Order
<1>2. ~(zone = "DATA2" /\ done = {"MFT", "DATA1"}) /\ ~(zone = "MFT" /\ done = {"DATA1", "DATA2"})
  BY DEF Zones
<1>3. /\ zone = "MFT" => NextZone(zone, done \cup {zone}) = "DATA1"
      /\ zone = "DATA1" => NextZone(zone, done \cup {zone}) = "DATA2"
      /\ zone = "DATA2" => NextZone(zone, done \cup {zone}) = IF "DATA1" \in done THEN "MFT" ELSE "DATA1"
  BY DEF NextZone
<1>4. CASE zone = "MFT" /\ done = {} /\ left = 2
  <2>1. then = <<"DATA1", {"MFT"}, 1>>
    BY <1>3, <1>4
  <2>2. QED
    BY <1>4, <2>1, <1>3 DEF Order, Zones
<1>5. CASE zone = "DATA1" /\ done = {"MFT"} /\ left = 1
  <2>1. then = <<"DATA2", {"MFT", "DATA1"}, 0>>
    BY <1>3, <1>5
  <2>2. QED
    BY <1>5, <2>1, <1>3 DEF Order, Zones
<1>6. CASE zone = "DATA1" /\ done = {} /\ left = 2
  <2>1. then = <<"DATA2", {"DATA1"}, 1>>
    BY <1>3, <1>6
  <2>2. QED
    BY <1>6, <2>1, <1>3 DEF Order, Zones
<1>7. CASE zone = "DATA2" /\ done = {"DATA1"} /\ left = 1
  <2>1. then = <<"MFT", {"DATA1", "DATA2"}, 0>>
    BY <1>3, <1>7
  <2>2. QED
    BY <1>7, <2>1, <1>3 DEF Order, Zones
<1>8. CASE zone = "DATA2" /\ done = {} /\ left = 3
  <2>1. then = <<"DATA1", {"DATA2"}, 2>>
    BY <1>3, <1>8
  <2>2. QED
    BY <1>8, <2>1, <1>3 DEF Order, Zones
<1>9. CASE zone = "DATA1" /\ done = {"DATA2"} /\ left = 2
  <2>1. then = <<"DATA2", {"DATA1", "DATA2"}, 1>>
    BY <1>3, <1>9
  <2>2. QED
    BY <1>9, <2>1, <1>3 DEF Order, Zones
<1>10. CASE zone = "DATA2" /\ done = {"DATA1", "DATA2"} /\ left = 1
  <2>1. then = <<"MFT", {"DATA1", "DATA2"}, 0>>
    BY <1>3, <1>10
  <2>2. QED
    BY <1>10, <2>1, <1>3 DEF Order, Zones
<1>11. QED
  BY <1>1, <1>2, <1>4, <1>5, <1>6, <1>7, <1>8, <1>9, <1>10

\* A zone less is left, and the two passes over it are counted.
LEMMA ZoneBound ==
  ASSUME NEW left \in 0 .. 3, left - 1 \in 0 .. 3, NEW t \in Int, NEW h \in Int, NEW h1 \in Int,
         t + (2 * left * PassTurns) + h <= (8 * PassTurns) + 1, h1 <= (2 * PassTurns) + h
  PROVE  t + (2 * (left - 1) * PassTurns) + h1 <= (8 * PassTurns) + 1
<1> DEFINE n == PassTurns
<1>1. n \in Nat
  BY ZoneBounds
<1> HIDE DEF n
<1>2. CASE left = 1
  BY <1>1, <1>2 DEF n
<1>3. CASE left = 2
  BY <1>1, <1>3 DEF n
<1>4. CASE left = 3
  BY <1>1, <1>4 DEF n
<1>5. QED
  BY <1>2, <1>3, <1>4

\* The search goes to the next zone, or gives up.
LEMMA ZoneSearch ==
  ASSUME IInv, SInv, IInv', ZoneDone
  PROVE  SInv'
<1> DEFINE done == al.done_zones \cup {al.search}
           last == al.rl[Len(al.rl)]
           moved == IF al.rl # <<>> /\ al.used_zone_pos
                    THEN set_zone_pos(pos, al.search, last.lcn + last.length + Skip) ELSE pos
           next == NextZone(al.search, done)
<1>1. /\ pc = "zone" /\ full_zones' = full_zones \cup {al.search} /\ disk' = disk
      /\ \/ done = Zones /\ pc' = "free" /\ pos' = pos
         \/ /\ done # Zones /\ pos' = moved
            /\ al' = [al EXCEPT !.done_zones = done, !.search = next,
                                !.zone_start = moved[next], !.bmp_pos = moved[next],
                                !.zone_end = ZoneEnd[next],
                                !.pass = IF moved[next] = ZoneFirst[next] THEN 2 ELSE 1]
            /\ pc' = IF moved[next] = ZoneEnd[next] THEN "zone" ELSE "scan"
  BY DEF ZoneDone, GiveBack
<1>2. Looking /\ al \in AllocCall
  BY <1>1 DEF IInv, CallsInv, Searching, Looking
<1>3. pos \in [Zones -> Nat] /\ PosOK(pos) /\ pos' \in [Zones -> Nat]
  BY DEF IInv, StateInv, SInv, PosInv
<1>4. CASE pc' = "free" /\ pos' = pos
  BY <1>3, <1>4, NoSearch
<1>5. CASE /\ done # Zones /\ pos' = moved
           /\ al' = [al EXCEPT !.done_zones = done, !.search = next,
                               !.zone_start = moved[next], !.bmp_pos = moved[next],
                               !.zone_end = ZoneEnd[next],
                               !.pass = IF moved[next] = ZoneFirst[next] THEN 2 ELSE 1]
           /\ pc' = IF moved[next] = ZoneEnd[next] THEN "zone" ELSE "scan"
  <2>1. PosOK(moved) /\ moved \in [Zones -> Nat]
    <3>1. al.rl # <<>> => last.lcn + last.length + Skip \in Int
      <4>1. al.rl \in Seq(Run) /\ Skip \in Int
        BY <1>2, LcnAllocAssumption DEF AllocCall
      <4>2. al.rl # <<>> => last \in Run
        BY <4>1
      <4>3. QED
        BY <4>1, <4>2 DEF Run
    <3>2. al.search \in Zones
      BY <1>2 DEF AllocCall
    <3>3. QED
      BY <1>3, <1>5, <3>1, <3>2, SetPos
  <2>2. PICK left \in 0 .. 3 :
           /\ <<al.search, al.done_zones, left>> \in Order
           /\ al.turns + (2 * left * PassTurns) + TurnsHere <= (8 * PassTurns) + 1
    BY <1>2 DEF SInv, TurnsInv
  <2>3. left - 1 \in 0 .. 3 /\ <<next, done, left - 1>> \in Order /\ next \in Zones
    BY <1>5, <2>2, NextInOrder
  <2> DEFINE p == moved[next]
  <2>4. /\ p \in Nat /\ p <= BmpBits
        /\ p < ZoneEnd[next] \/ (ZoneFirst[next] = ZoneEnd[next] /\ p = ZoneEnd[next])
    BY <2>1, <2>3, PosFacts, ZoneFacts DEF PosOK
  <2>5. /\ al'.turns = al.turns /\ al'.count = al.count /\ al'.start_lcn = al.start_lcn
        /\ al'.has_guess = al.has_guess /\ al'.used_zone_pos = al.used_zone_pos
        /\ al'.flagged = al.flagged /\ al'.avail = al.avail /\ al.turns \in Nat
        /\ al'.done_zones = done /\ al'.search = next /\ al'.zone_start = p /\ al'.bmp_pos = p
        /\ al'.zone_end = ZoneEnd[next] /\ al'.pass = (IF p = ZoneFirst[next] THEN 2 ELSE 1)
        /\ al.used_zone_pos \in BOOLEAN
    BY <1>2, <1>5 DEF AllocCall
  <2>6. pc' = (IF p = ZoneEnd[next] THEN "zone" ELSE "scan") /\ pos' = moved
    BY <1>5
  <2> HIDE DEF p, next
  <2>7. PosInv'
    BY <2>1, <2>6 DEF PosInv, PosOK
  <2>8. TurnsInv'
    <3> DEFINE d == p \div ByteBits
               c == IF al.used_zone_pos THEN 0 ELSE 1
               x == IF al'.pass = 1 THEN PassTurns ELSE 0
    <3>1. d \in Nat /\ PassTurns \in Nat
      BY <2>4, ByteOf, ZoneBounds
    <3>2. TurnsHere = c
      BY <1>1 DEF TurnsHere
    <3>3. TurnsHere' = (IF pc' # "zone" THEN x ELSE 0)
                       + (IF pc' # "scan" THEN 0
                          ELSE IF al.used_zone_pos THEN PassTurns - d ELSE PassTurns) + c
      BY <2>5, <2>6 DEF TurnsHere
    <3> HIDE DEF d
    <3>4. x \in Nat /\ x <= PassTurns
      BY <3>1
    <3> HIDE DEF x
    <3>5. TurnsHere \in Int /\ TurnsHere' \in Int /\ TurnsHere' <= (2 * PassTurns) + TurnsHere
      BY <3>1, <3>2, <3>3, <3>4
    <3>6. al'.turns + (2 * (left - 1) * PassTurns) + TurnsHere' <= (8 * PassTurns) + 1
      <4>1. al.turns \in Int
        BY <2>5
      <4>2. al.turns + (2 * (left - 1) * PassTurns) + TurnsHere' <= (8 * PassTurns) + 1
        BY ONLY <2>2, <2>3, <3>5, <4>1, ZoneBound
      <4>3. QED
        BY <2>5, <4>2
    <3>7. /\ \E l \in 0 .. 3 :
                /\ <<al'.search, al'.done_zones, l>> \in Order
                /\ al'.turns + (2 * l * PassTurns) + TurnsHere' <= (8 * PassTurns) + 1
          /\ al'.bmp_pos <= BmpBits /\ pc' # "done"
      BY <2>3, <2>4, <2>5, <2>6, <3>6
    <3>8. QED
      BY <3>7 DEF TurnsInv
  <2>9. CoverInv'
    <3> SUFFICES ASSUME Thorough'
                 PROVE  /\ al'.avail = Cardinality(Clusters \ used')
                        /\ full_zones' = al'.done_zones
                        /\ \A z \in al'.done_zones : AllMarked(z)'
                        /\ StartInv'
                        /\ HereInv'
      BY DEF CoverInv
    <3>1. Thorough
      BY <2>5 DEF Thorough, AtStart
    <3>2. /\ al.avail = Cardinality(Clusters \ used) /\ full_zones = al.done_zones
          /\ \A z \in al.done_zones : AllMarked(z)
          /\ StartInv /\ (al.search \notin al.done_zones => HereInv)
      BY <1>2, <3>1 DEF SInv, CoverInv
    <3>3. \A z \in done : AllMarked(z)
      BY <1>1, <3>2 DEF HereInv
    <3>4. used' = used /\ \A z \in done : AllMarked(z)'
      BY <1>1, <3>3 DEF used, AllMarked, Marked
    <3>5. StartInv'
      BY <1>1, <2>5, <3>2 DEF StartInv
    <3>6. ZoneEnd[next] \in Nat /\ ZoneFirst[next] \in Nat
      BY <2>3, ZoneFacts
    <3>7. HereInv'
      <4>1. pc' = "zone" => /\ ZoneFirst[al'.search] = ZoneEnd[al'.search]
                            /\ ZoneEnd[al'.search] \in Nat
        BY <2>4, <2>5, <2>6, <3>6
      <4>2. \A k : k \notin p .. p - 1 /\ k \notin ZoneEnd[next] .. ZoneEnd[next] - 1
        BY <2>4, <3>6
      <4>3. pc' = "scan" /\ al'.pass = 1 =>
               al'.zone_end = ZoneEnd[al'.search] /\ Marked(al.zone_start, al.bmp_pos)'
        BY <2>5, <4>2 DEF Marked
      <4>4. pc' = "scan" /\ al'.pass = 2 =>
               Marked(ZoneFirst[al.search], al.bmp_pos)' /\ Marked(al.zone_end, ZoneEnd[al.search])'
        <5>1. al'.pass = 2 => p = ZoneFirst[al'.search]
          BY <2>5
        <5>2. QED
          BY <2>5, <4>2, <5>1 DEF Marked
      <4>5. pc' # "pass" /\ (pc' = "zone" => AllMarked(al.search)')
        BY <2>6, <4>1 DEF AllMarked, Marked
      <4>6. QED
        BY <4>3, <4>4, <4>5 DEF HereInv
    <3>8. QED
      BY <1>1, <2>5, <3>2, <3>4, <3>5, <3>7
  <2>10. QED
    BY <2>7, <2>8, <2>9 DEF SInv
<1>6. QED
  BY <1>1, <1>4, <1>5

\* The steps outside a search, and those that end one.
LEMMA OtherSearch ==
  ASSUME IInv, SInv, IInv',
         (\E rl \in RunLists : Free(rl)) \/ Repair \/ Return \/ FreeRun \/ FreeWindow
         \/ FreeRunDone \/ FreeReturn \/ ScanFails
  PROVE  SInv'
<1>1. pos \in [Zones -> Nat] /\ PosOK(pos)
  BY DEF IInv, StateInv, SInv, PosInv
<1>2. CASE \/ \E rl \in RunLists : Free(rl)
           \/ Return \/ FreeRunDone \/ FreeReturn \/ ScanFails
  <2>1. pc' \in {"idle", "free"} /\ pos' = pos
    BY <1>2 DEF Free, GiveBack, Return, FreeRunDone, FreeReturn, ScanFails
  <2>2. QED
    BY <1>1, <2>1, NoSearch
<1>3. CASE Repair
  <2>1. pc' = "idle" /\ pos' = [MFT |-> mft_lcn, DATA1 |-> mft_zone_end, DATA2 |-> 0]
    BY <1>3 DEF Repair, Mounted
  <2>2. QED
    BY <2>1, MountedPos, NoSearch
<1>4. CASE FreeRun
  <2> DEFINE lcn == Head(fr.rl).lcn
  <2>1. /\ pc' = "free" /\ pc = "free" /\ fr.rl # <<>>
        /\ pos' = IF ZoneOf(lcn) \in full_zones THEN set_zone_pos(pos, ZoneOf(lcn), lcn) ELSE pos
    BY <1>4 DEF FreeRun, update_full_status
  <2>2. fr.rl \in Seq(Run)
    BY DEF IInv, StateInv
  <2>3. lcn \in Int
    <3>1. Head(fr.rl) \in Run
      BY <2>1, <2>2
    <3>2. QED
      BY <3>1 DEF Run
  <2>4. ZoneOf(lcn) \in Zones
    BY DEF ZoneOf, Zones
  <2> HIDE DEF lcn
  <2>5. PosOK(pos')
    BY <1>1, <2>1, <2>3, <2>4, SetPos
  <2>6. QED
    BY <2>1, <2>5, NoSearch
<1>5. CASE FreeWindow
  <2>1. loc.pc = "window" /\ pc' = pc /\ pos' = pos
    BY <1>5 DEF FreeWindow, B!Window, B!WindowFails
  <2>2. pc = "free"
    BY <2>1 DEF IInv, CallsInv, B!NoCall
  <2>3. QED
    BY <1>1, <2>1, <2>2, NoSearch
<1>6. QED
  BY <1>2, <1>3, <1>4, <1>5

\* Every step keeps the invariant of the search.
LEMMA SearchStep == IInv /\ IInv' /\ SInv /\ [Next]_vars => SInv'
<1> SUFFICES ASSUME IInv, IInv', SInv, [Next]_vars PROVE SInv'
  OBVIOUS
<1>1. CASE /\ ~leaked
           /\ \E count \in 1 .. MaxCount, start_lcn \in Hints \cup {-1}, zone \in {"MFT", "DATA"} :
                Alloc(count, start_lcn, zone)
  BY <1>1, AllocSearch
<1>2. CASE Scan
  BY <1>2, ScanSearch
<1>3. CASE SkipScan
  BY <1>3, SkipSearch
<1>4. CASE ZonePassDone
  BY <1>4, PassSearch
<1>5. CASE ZoneDone
  BY <1>5, ZoneSearch
<1>6. CASE \/ \E rl \in RunLists : Free(rl)
           \/ Repair \/ Return \/ FreeRun \/ FreeWindow \/ FreeRunDone \/ FreeReturn
           \/ ScanFails
  BY <1>6, OtherSearch
<1>7. CASE UNCHANGED vars
  <2>1. UNCHANGED <<disk, owned, pos, full_zones, free, faults, leaked, pc, al, fr, loc>>
    BY <1>7 DEF vars
  <2>2. PosInv' /\ TurnsInv'
    BY <2>1 DEF SInv, PosInv, PosOK, TurnsInv, TurnsHere, Looking
  <2>3. CoverInv'
    BY <2>1 DEF SInv, CoverInv, Looking, Thorough, AtStart, used, AllMarked, Marked, StartInv, HereInv
  <2>4. QED
    BY <2>2, <2>3 DEF SInv
<1>8. QED
  BY <1>1, <1>2, <1>3, <1>4, <1>5, <1>6, <1>7 DEF Next

\* The invariant of the search holds in every state of every volume.
THEOREM SearchInvariance == Spec => []SInv
<1>1. Init => SInv
  <2> SUFFICES ASSUME Init PROVE SInv
    OBVIOUS
  <2>1. pc = "idle" /\ pos = [MFT |-> mft_lcn, DATA1 |-> mft_zone_end, DATA2 |-> 0]
    BY DEF Init
  <2>2. PosInv
    BY <2>1, MountedPos DEF PosInv
  <2>3. TurnsInv /\ CoverInv
    BY <2>1 DEF TurnsInv, CoverInv, Looking
  <2>4. QED
    BY <2>2, <2>3 DEF SInv
<1>2. QED
  BY <1>1, SearchStep, Invariance, PTL DEF Spec

\* ntfs_cluster_alloc takes a bounded number of turns on every volume, whatever zones are
\* taken for full and whichever cluster it is asked to start at; and a search for one
\* cluster that begins with no zone taken for full, and is not asked to start where a zone
\* starts or behind the bitmap, says that there is no space only if no cluster is free.
THEOREM SearchIsComplete == Spec => []SearchComplete
<1>1. ASSUME IInv, SInv PROVE SearchComplete
  <2>1. AllocEnds
    <3> SUFFICES ASSUME pc \notin {"idle", "free"}
                 PROVE  al.turns <= 8 * (BmpBytes + 1) + 1
      BY DEF AllocEnds
    <3>1. Looking \/ pc = "done"
      BY <1>1 DEF IInv, CallsInv, StateInv, Looking
    <3>2. CASE pc = "done"
      BY <1>1, <3>2 DEF SInv, TurnsInv, PassTurns
    <3>3. CASE Looking
      <4>1. PICK left \in 0 .. 3 :
               al.turns + (2 * left * PassTurns) + TurnsHere <= (8 * PassTurns) + 1
        BY <1>1, <3>3 DEF SInv, TurnsInv
      <4>2. /\ al \in AllocCall /\ al.turns \in Nat /\ al.bmp_pos \in Nat
            /\ PassTurns \in Nat /\ PassTurns = BmpBytes + 1 /\ BmpBytes \in Nat
        BY <1>1, <3>3, ZoneBounds DEF IInv, CallsInv, Searching, Looking, AllocCall, PassTurns
      <4>3. TurnsHere \in Nat
        <5> DEFINE d == al.bmp_pos \div ByteBits
        <5>1. d \in Nat /\ (al.used_zone_pos => d <= BmpBytes)
          BY <1>1, <3>3, <4>2, ByteOf DEF SInv, TurnsInv
        <5>2. TurnsHere = (IF pc # "zone" /\ al.pass = 1 THEN PassTurns ELSE 0)
                          + (IF pc # "scan" THEN 0
                             ELSE IF al.used_zone_pos THEN PassTurns - d ELSE PassTurns)
                          + (IF al.used_zone_pos THEN 0 ELSE 1)
          BY DEF TurnsHere
        <5> HIDE DEF d
        <5>3. QED
          BY <4>2, <5>1, <5>2
      <4> DEFINE w == 2 * left * PassTurns
                 h == TurnsHere
                 b == (8 * PassTurns) + 1
                 t == al.turns
      <4>4. w \in Nat /\ h \in Nat /\ b \in Nat /\ t \in Nat /\ t + w + h <= b
        BY <4>1, <4>2, <4>3
      <4> HIDE DEF w, h, b, t
      <4>5. t <= b
        BY ONLY <4>4
      <4>6. QED
        BY <4>2, <4>5 DEF t, b
    <3>4. QED
      BY <3>1, <3>2, <3>3
  <2>2. NoSpaceIsReal
    <3> SUFFICES ASSUME pc = "zone", al.done_zones \cup {al.search} = Zones, Thorough
                 PROVE  al.avail = 0
      BY DEF NoSpaceIsReal, Thorough
    <3>1. /\ al.avail = Cardinality(Clusters \ used)
          /\ \A z \in al.done_zones : AllMarked(z)
          /\ al.search \notin al.done_zones => HereInv
      BY <1>1 DEF SInv, CoverInv, Looking
    <3>2. \A z \in Zones : AllMarked(z)
      BY <3>1 DEF HereInv
    <3>3. \A k \in Clusters : k \in used
      <4> SUFFICES ASSUME NEW k \in Clusters PROVE k \in used
        OBVIOUS
      <4>1. k \in Nat /\ k < NrClusters /\ k < BmpBits
        BY ZoneBounds DEF Clusters
      <4>2. \/ k \in ZoneFirst["DATA2"] .. ZoneEnd["DATA2"] - 1
            \/ k \in ZoneFirst["MFT"] .. ZoneEnd["MFT"] - 1
            \/ k \in ZoneFirst["DATA1"] .. ZoneEnd["DATA1"] - 1
        BY <4>1, ZoneBounds
      <4>3. disk[k]
        BY <3>2, <4>2, ZoneBounds DEF AllMarked, Marked
      <4>4. QED
        BY <4>1, <4>3, ZoneBounds DEF used
    <3>4. Clusters \ used = {}
      BY <3>3
    <3>5. QED
      BY <3>1, <3>4, FS_EmptySet
  <2>3. QED
    BY <2>1, <2>2 DEF SearchComplete
<1>2. QED
  BY <1>1, Invariance, SearchInvariance, PTL

\* The free clusters and those about to be counted again are not more than there are.
FreeBound == free + fr.nr_freed <= NrClusters

\* On a volume whose giving back has not failed that follows from the exact count.
LEMMA FreeWithin ==
  ASSUME IInv, ~leaked
  PROVE  FreeBound
<1>1. RunsOK(Held) /\ free \in Nat /\ fr.nr_freed \in Nat
  BY DEF IInv, StateInv, CallsInv
<1>2. Cardinality(ClustersOf(Held)) \in Nat
  BY <1>1, ClustersFinite
<1>3. free + fr.nr_freed + Cardinality(ClustersOf(Held)) = Cardinality(Clusters \ Kept)
  BY DEF IInv, CountInv
<1>4. IsFiniteSet(Clusters) /\ Cardinality(Clusters) = NrClusters /\ NrClusters \in Nat
  <2>1. 0 \in Int /\ NrClusters - 1 \in Int /\ NrClusters \in Nat /\ NrClusters > 0
    BY ZoneBounds
  <2>2. IsFiniteSet(0 .. NrClusters - 1)
        /\ Cardinality(0 .. NrClusters - 1)
             = IF 0 > NrClusters - 1 THEN 0 ELSE (NrClusters - 1) - 0 + 1
    BY <2>1, FS_Interval
  <2>3. QED
    BY <2>1, <2>2 DEF Clusters
<1> DEFINE T == Clusters \cap Kept
           c == Cardinality(ClustersOf(Held))
           f == Cardinality(Clusters \ T)
           k == Cardinality(T)
<1>5. f \in Nat /\ k \in Nat /\ NrClusters = f + k /\ Clusters \ T = Clusters \ Kept
  <2>1. T \in SUBSET Clusters /\ Clusters \ T = Clusters \ Kept
    OBVIOUS
  <2> HIDE DEF T
  <2>2. QED
    BY <1>4, <2>1, CardinalityMinus
<1>6. c \in Nat /\ free + fr.nr_freed + c = f
  BY <1>2, <1>3, <1>5
<1> HIDE DEF T, c, f, k
<1>7. QED
  BY <1>1, <1>5, <1>6 DEF FreeBound

\* Once giving back has failed only what was freed before is still counted.
LEMMA FreeBoundStep == IInv /\ IInv' /\ FreeBound /\ [Next]_vars => FreeBound'
<1> SUFFICES ASSUME IInv, IInv', FreeBound, [Next]_vars PROVE FreeBound'
  OBVIOUS
<1>1. CASE ~leaked'
  <2>1. IInv' /\ ~leaked' => FreeBound'
    BY FreeWithin, PTL
  <2>2. QED
    BY <1>1, <2>1
<1>2. CASE leaked'
  <2>1. free \in Nat /\ fr.nr_freed \in Nat
    BY DEF IInv, StateInv
  <2>2. leaked => pc \in {"idle", "free"} /\ fr.rl = <<>> /\ loc = B!NoCall
    BY DEF IInv, CallsInv, ClearInv
  <2>3. B!NoCall.pc = "idle"
    BY DEF B!NoCall
  <2>4. /\ ~(Scan \/ ScanFails \/ SkipScan \/ ZonePassDone \/ ZoneDone \/ Return \/ FreeRun
             \/ Repair)
        /\ leaked \/ FreeRunDone
    BY <1>2, <2>2 DEF Next, vars, Alloc, Free, Scan, ScanFails, SkipScan, ZonePassDone,
         ZoneDone, Return, FreeRun, FreeWindow, FreeRunDone, FreeReturn, Repair
  <2>5. CASE UNCHANGED <<free, fr>>
    BY <2>5 DEF FreeBound
  <2>6. CASE FreeRunDone
    <3>1. loc.pc # "ok"
      BY <1>2, <2>2, <2>3, <2>6 DEF FreeRunDone
    <3>2. free' = free /\ fr' = [fr EXCEPT !.rl = <<>>, !.owner = {}]
      BY <2>6, <3>1 DEF FreeRunDone
    <3>3. fr'.nr_freed = fr.nr_freed
      BY <3>2
    <3>4. QED
      BY <3>2, <3>3 DEF FreeBound
  <2>7. CASE FreeReturn
    <3>1. free' = free + fr.nr_freed /\ fr'.nr_freed = 0
      BY <2>7 DEF FreeReturn, NoFree
    <3>2. QED
      BY <2>1, <3>1 DEF FreeBound
  <2>8. FreeWindow \/ UNCHANGED vars => UNCHANGED <<free, fr>>
    BY DEF FreeWindow, vars
  <2>9. QED
    BY <2>4, <2>5, <2>6, <2>7, <2>8 DEF Next
<1>3. QED
  BY <1>1, <1>2

\* vol->free_clusters is never negative nor more than the clusters of the volume, also
\* after a failure to give clusters back, and the position that each zone is searched from
\* stays inside the zone.
THEOREM PositionsInZones == Spec => []TypeOK
<1>1. Init => FreeBound
  <2>1. Init => ~leaked
    BY DEF Init
  <2>2. QED
    BY <2>1, InitStep, FreeWithin
<1>2. Spec => []FreeBound
  BY <1>1, FreeBoundStep, Invariance, PTL DEF Spec
<1>3. ASSUME IInv, SInv, FreeBound PROVE TypeOK
  <2>1. /\ disk \in [0 .. BmpBits - 1 -> BOOLEAN] /\ owned \subseteq Clusters
        /\ full_zones \subseteq Zones
        /\ pc \in {"idle", "scan", "pass", "zone", "done", "free"}
    BY <1>3, Sizes DEF IInv, StateInv
  <2>2. \A z \in Zones : pos[z] \in ZoneFirst[z] .. ZoneEnd[z]
    BY <1>3 DEF SInv, PosInv, PosOK
  <2>3. free \in 0 .. NrClusters
    BY <1>3, ZoneBounds DEF FreeBound, IInv, StateInv
  <2>4. QED
    BY <2>1, <2>2, <2>3 DEF TypeOK
<1>4. QED
  BY <1>2, <1>3, Invariance, SearchInvariance, PTL

-----------------------------------------------------------------------------
(***************************************************************************)
(* Runlists, of any length: what ntfs_rl_truncate and ntfs_runlists_merge  *)
(* do to them is stated by what ntfs_rl_vcn_to_lcn finds in the result.    *)
(*                                                                         *)
(* A chain is the runs of a list without its terminator.  All that is said *)
(* of chains goes over one operator, Says: some run tells the LCN of a     *)
(* VCN.  Chains are taken apart and put together, so no induction over     *)
(* their length is needed.                                                 *)
(***************************************************************************)
RL == INSTANCE RunList

\* The elements of runlists, and the LCN that one gives a VCN inside it.
RunElement == [vcn : Nat, lcn : Int, length : Nat]
LcnIn(r, v) == IF r.lcn >= 0 THEN r.lcn + (v - r.vcn) ELSE r.lcn

\* Runs that follow one another from VCN a to VCN b.
Chain(s, a, b) ==
    /\ s \in Seq(RunElement) /\ a \in Nat /\ b \in Nat
    /\ \A i \in 1 .. Len(s) :
          /\ s[i].length > 0 /\ s[i].lcn >= -2
          /\ s[i].vcn = IF i = 1 THEN a ELSE s[i - 1].vcn + s[i - 1].length
    /\ b = IF Len(s) = 0 THEN a ELSE s[Len(s)].vcn + s[Len(s)].length

\* Some run of s says that VCN v is at LCN l.
Says(s, v, l) ==
    \E i \in 1 .. Len(s) :
       s[i].vcn <= v /\ v < s[i].vcn + s[i].length /\ l = LcnIn(s[i], v)

\* What is said by a and by b is what c says.
Splits(c, a, b) ==
    \A v \in Nat, l \in Int : Says(c, v, l) <=> Says(a, v, l) \/ Says(b, v, l)

\* Sequences with the same elements are the same.
LEMMA SameSeq ==
  ASSUME NEW S, NEW s \in Seq(S), NEW t \in Seq(S), Len(s) = Len(t),
         \A i \in 1 .. Len(s) : s[i] = t[i]
  PROVE  s = t
  OBVIOUS

\* A run with another length or another VCN.
LEMMA RunChanged ==
  ASSUME NEW r \in RunElement, NEW x \in Nat
  PROVE  LET a == [r EXCEPT !.length = x]
             b == [r EXCEPT !.vcn = x]
         IN  /\ r.vcn \in Nat /\ r.lcn \in Int /\ r.length \in Nat
             /\ a \in RunElement /\ a.vcn = r.vcn /\ a.lcn = r.lcn /\ a.length = x
             /\ b \in RunElement /\ b.vcn = x /\ b.lcn = r.lcn /\ b.length = r.length
  BY DEF RunElement

\* The elements of a chain.
LEMMA ChainRuns ==
  ASSUME NEW s, NEW a, NEW b, Chain(s, a, b)
  PROVE  /\ s \in Seq(RunElement) /\ Len(s) \in Nat /\ DOMAIN s = 1 .. Len(s)
         /\ \A i \in 1 .. Len(s) : s[i] \in RunElement /\ s[i].vcn \in Nat /\ s[i].lcn \in Int /\ s[i].length \in Nat
  <1>1. s \in Seq(RunElement)
    BY DEF Chain
  <1>2. \A i \in 1 .. Len(s) : s[i] \in RunElement
    BY <1>1
  <1> QED
    BY <1>1, <1>2 DEF RunElement

\* Two chains that meet are one, and it says what they say.
LEMMA ChainConcat ==
  ASSUME NEW s, NEW t, NEW a, NEW b, NEW c, Chain(s, a, b), Chain(t, b, c)
  PROVE  Chain(s \o t, a, c) /\ Splits(s \o t, s, t)
  <1> DEFINE u == s \o t
  <1>1. /\ s \in Seq(RunElement) /\ t \in Seq(RunElement) /\ u \in Seq(RunElement)
        /\ Len(s) \in Nat /\ Len(t) \in Nat /\ Len(u) = Len(s) + Len(t)
        /\ \A i \in 1 .. Len(s) : u[i] = s[i]
        /\ \A i \in 1 .. Len(t) : u[Len(s) + i] = t[i]
        /\ \A i \in 1 .. Len(u) : i > Len(s) => i - Len(s) \in 1 .. Len(t) /\ u[i] = t[i - Len(s)]
    BY DEF Chain
  <1>2. a \in Nat /\ b \in Nat /\ c \in Nat
    BY DEF Chain
  <1> HIDE DEF u
  <1>3. ASSUME NEW i \in 1 .. Len(u)
        PROVE  /\ u[i].length > 0 /\ u[i].lcn >= -2
               /\ u[i].vcn = IF i = 1 THEN a ELSE u[i - 1].vcn + u[i - 1].length
    <2>1. CASE i <= Len(s)
      <3>1. i \in 1 .. Len(s) /\ (i # 1 => i - 1 \in 1 .. Len(s))
        BY <1>1, <2>1
      <3> QED
        BY <1>1, <3>1 DEF Chain
    <2>2. CASE i > Len(s) + 1
      <3>1. i - Len(s) \in 1 .. Len(t) /\ i - 1 > Len(s) /\ i - 1 \in 1 .. Len(u) /\ i - Len(s) # 1
            /\ (i - 1) - Len(s) = (i - Len(s)) - 1 /\ i # 1
        BY <1>1, <2>2
      <3>2. u[i] = t[i - Len(s)] /\ u[i - 1] = t[(i - Len(s)) - 1]
        BY <1>1, <3>1
      <3> QED
        BY <3>1, <3>2 DEF Chain
    <2>3. CASE i = Len(s) + 1
      <3>1. 1 \in 1 .. Len(t) /\ u[i] = t[1] /\ i - Len(s) = 1
        BY <1>1, <2>3
      <3>2. t[1].length > 0 /\ t[1].lcn >= -2 /\ t[1].vcn = b
        BY <3>1 DEF Chain
      <3>3. CASE i = 1
        <4>1. b = a
          BY <1>1, <2>3, <3>3 DEF Chain
        <4> QED
          BY <3>1, <3>2, <3>3, <4>1
      <3>4. CASE i # 1
        <4>1. Len(s) # 0 /\ i - 1 = Len(s) /\ i - 1 \in 1 .. Len(s)
          BY <1>1, <2>3, <3>4
        <4>2. u[i - 1] = s[Len(s)]
          BY <1>1, <4>1
        <4>3. b = s[Len(s)].vcn + s[Len(s)].length
          BY <4>1 DEF Chain
        <4> QED
          BY <3>1, <3>2, <3>4, <4>2, <4>3
      <3> QED
        BY <3>3, <3>4
    <2> QED
      BY <1>1, <2>1, <2>2, <2>3
  <1>4. c = IF Len(u) = 0 THEN a ELSE u[Len(u)].vcn + u[Len(u)].length
    <2>1. CASE Len(t) = 0
      <3>1. c = b /\ Len(u) = Len(s)
        BY <1>1, <2>1 DEF Chain
      <3>2. Len(s) # 0 => u[Len(u)] = s[Len(s)]
        BY <1>1, <3>1
      <3> QED
        BY <3>1, <3>2 DEF Chain
    <2>2. CASE Len(t) # 0
      <3>1. Len(u) # 0 /\ u[Len(u)] = t[Len(t)]
        BY <1>1, <2>2
      <3> QED
        BY <2>2, <3>1 DEF Chain
    <2> QED
      BY <2>1, <2>2
  <1>5. Chain(u, a, c)
    BY <1>1, <1>2, <1>3, <1>4 DEF Chain
  <1>6. ASSUME NEW v \in Nat, NEW l \in Int
        PROVE  Says(u, v, l) <=> Says(s, v, l) \/ Says(t, v, l)
    <2>1. ASSUME Says(s, v, l) PROVE Says(u, v, l)
      <3>1. PICK i \in 1 .. Len(s) : s[i].vcn <= v /\ v < s[i].vcn + s[i].length /\ l = LcnIn(s[i], v)
        BY <2>1 DEF Says
      <3>2. i \in 1 .. Len(u) /\ u[i] = s[i]
        BY <1>1
      <3> QED
        BY <3>1, <3>2 DEF Says
    <2>2. ASSUME Says(t, v, l) PROVE Says(u, v, l)
      <3>1. PICK i \in 1 .. Len(t) : t[i].vcn <= v /\ v < t[i].vcn + t[i].length /\ l = LcnIn(t[i], v)
        BY <2>2 DEF Says
      <3>2. Len(s) + i \in 1 .. Len(u) /\ u[Len(s) + i] = t[i]
        BY <1>1
      <3> QED
        BY <3>1, <3>2 DEF Says
    <2>3. ASSUME Says(u, v, l) PROVE Says(s, v, l) \/ Says(t, v, l)
      <3>1. PICK i \in 1 .. Len(u) : u[i].vcn <= v /\ v < u[i].vcn + u[i].length /\ l = LcnIn(u[i], v)
        BY <2>3 DEF Says
      <3>2. CASE i <= Len(s)
        <4>1. i \in 1 .. Len(s) /\ u[i] = s[i]
          BY <1>1, <3>2
        <4> QED
          BY <3>1, <4>1 DEF Says
      <3>3. CASE i > Len(s)
        <4>1. i - Len(s) \in 1 .. Len(t) /\ u[i] = t[i - Len(s)]
          BY <1>1, <3>3
        <4> QED
          BY <3>1, <4>1 DEF Says
      <3> QED
        BY <1>1, <3>2, <3>3
    <2> QED
      BY <2>1, <2>2, <2>3
  <1> QED
    BY <1>5, <1>6 DEF u, Splits

\* The runs from m to n of a chain are a chain.
LEMMA ChainSub ==
  ASSUME NEW s, NEW a, NEW b, Chain(s, a, b), NEW m \in Nat \ {0}, NEW n \in Nat,
         m <= n, n <= Len(s)
  PROVE  /\ Chain(SubSeq(s, m, n), s[m].vcn, s[n].vcn + s[n].length)
         /\ Len(SubSeq(s, m, n)) = n - m + 1
         /\ \A i \in 1 .. n - m + 1 : SubSeq(s, m, n)[i] = s[m + i - 1]
  <1> DEFINE u == SubSeq(s, m, n)
  <1>1. /\ s \in Seq(RunElement) /\ Len(s) \in Nat
        /\ \A i \in 1 .. Len(s) : s[i] \in RunElement /\ s[i].vcn \in Nat /\ s[i].length \in Nat
    BY ChainRuns
  <1>2. /\ u \in Seq(RunElement) /\ Len(u) = n - m + 1
        /\ \A i \in 1 .. Len(u) : u[i] = s[m + i - 1]
    BY <1>1
  <1> HIDE DEF u
  <1>3. ASSUME NEW i \in 1 .. Len(u)
        PROVE  /\ u[i].length > 0 /\ u[i].lcn >= -2
               /\ u[i].vcn = IF i = 1 THEN s[m].vcn ELSE u[i - 1].vcn + u[i - 1].length
    <2>1. u[i] = s[m + i - 1] /\ m + i - 1 \in 1 .. Len(s)
          /\ (i # 1 => i - 1 \in 1 .. Len(u) /\ m + (i - 1) - 1 = (m + i - 1) - 1 /\ m + i - 1 # 1)
          /\ (i = 1 => m + i - 1 = m)
      BY <1>1, <1>2, SMTT(40)
    <2>2. i # 1 => u[i - 1] = s[(m + i - 1) - 1]
      BY <1>2, <2>1
    <2> QED
      BY <2>1, <2>2 DEF Chain
  <1>4. Len(u) # 0 /\ u[Len(u)] = s[n] /\ s[m].vcn \in Nat /\ s[n].vcn + s[n].length \in Nat
    BY <1>1, <1>2, SMTT(40)
  <1>5. Chain(u, s[m].vcn, s[n].vcn + s[n].length)
    BY <1>2, <1>3, <1>4 DEF Chain
  <1> QED
    BY <1>2, <1>5 DEF u

\* One run is a chain; so is none.
LEMMA ChainOne ==
  ASSUME NEW r \in RunElement, r.length > 0, r.lcn >= -2
  PROVE  /\ Chain(<<r>>, r.vcn, r.vcn + r.length)
         /\ \A v \in Nat, l \in Int :
               Says(<<r>>, v, l) <=> r.vcn <= v /\ v < r.vcn + r.length /\ l = LcnIn(r, v)
  <1>1. r.vcn \in Nat /\ r.length \in Nat
    BY DEF RunElement
  <1>2. <<r>> \in Seq(RunElement) /\ Len(<<r>>) = 1 /\ <<r>>[1] = r
    OBVIOUS
  <1>3. \A i \in 1 .. Len(<<r>>) : i = 1
    BY <1>2
  <1>4. Chain(<<r>>, r.vcn, r.vcn + r.length)
    BY <1>1, <1>2, <1>3 DEF Chain
  <1>5. 1 \in 1 .. Len(<<r>>)
    BY <1>2
  <1> QED
    BY <1>2, <1>3, <1>4, <1>5 DEF Says

\* No runs are a chain that says nothing.
LEMMA ChainNone ==
  ASSUME NEW a \in Nat
  PROVE  Chain(<<>>, a, a) /\ \A v, l : ~Says(<<>>, v, l)
  BY DEF Chain, Says

\* Every VCN of a chain is in exactly one run of it, and the runs ascend.
LEMMA ChainOrder ==
  ASSUME NEW s, NEW a, NEW b, Chain(s, a, b)
  PROVE  /\ a <= b
         /\ \A i \in 1 .. Len(s) : a <= s[i].vcn /\ s[i].vcn + s[i].length <= b
         /\ \A i, j \in 1 .. Len(s) : i < j => s[i].vcn + s[i].length <= s[j].vcn
  <1>1. /\ Len(s) \in Nat /\ a \in Nat /\ b \in Nat
        /\ \A i \in 1 .. Len(s) : s[i].vcn \in Nat /\ s[i].length \in Nat
    BY ChainRuns DEF Chain
  <1>2. \A i \in 1 .. Len(s) : /\ s[i].length > 0
                               /\ s[i].vcn = IF i = 1 THEN a ELSE s[i - 1].vcn + s[i - 1].length
    BY DEF Chain
  <1>3. \A i, j \in 1 .. Len(s) : i < j => s[i].vcn + s[i].length <= s[j].vcn
    <2> SUFFICES ASSUME NEW i \in 1 .. Len(s), NEW j \in 1 .. Len(s), i < j,
                        ~(s[i].vcn + s[i].length <= s[j].vcn)
                 PROVE  FALSE
      OBVIOUS
    <2> DEFINE T == {k \in Nat : k \in 1 .. Len(s) /\ i < k /\ ~(s[i].vcn + s[i].length <= s[k].vcn)}
    <2>1. T \in SUBSET Nat /\ j \in T
      BY <1>1
    <2>2. PICK k \in T : \A n \in T : k <= n
      BY <2>1, LeastNumber
    <2>3. k \in 1 .. Len(s) /\ k # 1 /\ k - 1 \in 1 .. Len(s) /\ i <= k - 1
          /\ ~(s[i].vcn + s[i].length <= s[k].vcn)
      BY <1>1, <2>2
    <2>4. PICK h \in 1 .. Len(s) : h = k - 1 /\ i <= h
      BY <2>3
    <2>5. s[k].vcn = s[h].vcn + s[h].length
      BY <1>2, <2>3, <2>4
    <2>6. i # h
      BY <1>1, <2>3, <2>5
    <2>7. h \notin T
      BY <1>1, <2>2, <2>3, <2>4
    <2>8. s[i].vcn + s[i].length <= s[h].vcn
      BY <1>1, <2>4, <2>6, <2>7
    <2>9. s[h].vcn \in Nat /\ s[h].length \in Nat /\ s[i].vcn \in Nat /\ s[i].length \in Nat
      BY <1>1
    <2> QED
      BY ONLY <2>3, <2>5, <2>8, <2>9, SMTT(40)
  <1>4. CASE Len(s) = 0
    BY <1>1, <1>4 DEF Chain
  <1>5. CASE Len(s) # 0
    <2>1. 1 \in 1 .. Len(s) /\ Len(s) \in 1 .. Len(s)
      BY <1>1, <1>5
    <2>2. s[1].vcn = a /\ b = s[Len(s)].vcn + s[Len(s)].length
      BY <1>2, <1>5, <2>1 DEF Chain
    <2>3. ASSUME NEW i \in 1 .. Len(s) PROVE a <= s[i].vcn /\ s[i].vcn + s[i].length <= b
      <3>1. i = 1 \/ 1 < i
        BY <1>1
      <3>2. i = Len(s) \/ i < Len(s)
        BY <1>1
      <3>3. 1 < i => s[1].vcn + s[1].length <= s[i].vcn
        BY <1>3, <2>1
      <3>4. i < Len(s) => s[i].vcn + s[i].length <= s[Len(s)].vcn
        BY <1>3, <2>1
      <3>5. s[1].vcn \in Nat /\ s[1].length \in Nat /\ s[i].vcn \in Nat /\ s[i].length \in Nat
            /\ s[Len(s)].vcn \in Nat /\ s[Len(s)].length \in Nat
        BY <1>1, <2>1
      <3>6. a <= s[i].vcn
        <4>1. CASE i = 1
          BY <2>2, <3>5, <4>1
        <4>2. CASE 1 < i
          BY <2>2, <3>3, <3>5, <4>2
        <4> QED
          BY <3>1, <4>1, <4>2
      <3>7. s[i].vcn + s[i].length <= b
        <4>1. CASE i = Len(s)
          BY <2>2, <3>5, <4>1
        <4>2. CASE i < Len(s)
          BY <2>2, <3>4, <3>5, <4>2
        <4> QED
          BY <3>2, <4>1, <4>2
      <3> QED
        BY <3>6, <3>7
    <2> QED
      BY <1>1, <1>3, <2>1, <2>3
  <1> QED
    BY <1>3, <1>4, <1>5

\* A VCN between the ends of a chain is in one of its runs.
LEMMA ChainCovers ==
  ASSUME NEW s, NEW a, NEW b, Chain(s, a, b), NEW v \in Nat, a <= v, v < b
  PROVE  \E i \in 1 .. Len(s) : s[i].vcn <= v /\ v < s[i].vcn + s[i].length
  <1>1. /\ Len(s) \in Nat /\ a \in Nat /\ b \in Nat
        /\ \A i \in 1 .. Len(s) : s[i].vcn \in Nat /\ s[i].length \in Nat
    BY ChainRuns DEF Chain
  <1>2. Len(s) # 0
    BY <1>1 DEF Chain
  <1>3. b = s[Len(s)].vcn + s[Len(s)].length
    BY <1>2 DEF Chain
  <1> DEFINE T == {k \in Nat : k \in 1 .. Len(s) /\ v < s[k].vcn + s[k].length}
  <1>4. T \in SUBSET Nat /\ Len(s) \in T
    BY <1>1, <1>2, <1>3
  <1>5. PICK k \in T : \A n \in T : k <= n
    BY <1>4, LeastNumber
  <1>6. k \in 1 .. Len(s) /\ v < s[k].vcn + s[k].length
        /\ s[k].vcn = IF k = 1 THEN a ELSE s[k - 1].vcn + s[k - 1].length
    BY <1>5 DEF Chain
  <1>7. CASE k = 1
    BY <1>6, <1>7
  <1>8. CASE k # 1
    <2>1. k - 1 \in 1 .. Len(s) /\ k - 1 \in Nat /\ k - 1 < k
      BY <1>1, <1>6, <1>8
    <2>2. k - 1 \notin T
      BY <1>1, <1>5, <1>6, <2>1
    <2> QED
      BY <1>1, <1>6, <1>8, <2>1, <2>2
  <1> QED
    BY <1>7, <1>8

\* A runlist: runs without gaps or overlaps, closed by a terminator.  (LCN_HOLE is -1,
\* LCN_RL_NOT_MAPPED -2 and LCN_ENOENT -3.)
IsRunlist(rl) ==
    /\ rl \in Seq(RunElement) /\ Len(rl) > 0
    /\ rl[Len(rl)].length = 0 /\ rl[Len(rl)].lcn \in {-2, -3}
    /\ \A i \in 1 .. Len(rl) - 1 : /\ rl[i].length > 0 /\ rl[i].lcn >= -2
                                   /\ rl[i].vcn + rl[i].length = rl[i + 1].vcn

\* Its runs, and the VCN behind them.
RunsOf(rl) == SubSeq(rl, 1, Len(rl) - 1)
EndVcn(rl) == rl[Len(rl)].vcn

\* The runs of a list are a chain up to its terminator.
LEMMA RunsOfList ==
  ASSUME NEW rl, IsRunlist(rl)
  PROVE  /\ Chain(RunsOf(rl), rl[1].vcn, EndVcn(rl))
         /\ Len(rl) \in Nat \ {0} /\ Len(RunsOf(rl)) = Len(rl) - 1
         /\ \A i \in 1 .. Len(rl) - 1 : RunsOf(rl)[i] = rl[i]
         /\ \A i \in 1 .. Len(rl) : rl[i] \in RunElement /\ rl[i].vcn \in Nat /\ rl[i].lcn \in Int
                                    /\ rl[i].length \in Nat
         /\ rl = RunsOf(rl) \o <<rl[Len(rl)]>>
  <1> DEFINE C == RunsOf(rl)
             n == Len(rl)
  <1>1. rl \in Seq(RunElement) /\ n \in Nat \ {0} /\ \A i \in 1 .. n : rl[i] \in RunElement
    BY DEF IsRunlist
  <1>2. \A i \in 1 .. n : rl[i].vcn \in Nat /\ rl[i].lcn \in Int /\ rl[i].length \in Nat
    BY <1>1 DEF RunElement
  <1>3. C \in Seq(RunElement) /\ Len(C) = n - 1 /\ \A i \in 1 .. n - 1 : C[i] = rl[i]
    <2>1. PICK m \in Nat : m = n - 1
      BY <1>1
    <2>2. /\ SubSeq(rl, 1, m) \in Seq(RunElement) /\ Len(SubSeq(rl, 1, m)) = m
          /\ \A i \in 1 .. m : SubSeq(rl, 1, m)[i] = rl[i]
      BY <1>1, <2>1
    <2> QED
      BY <2>1, <2>2 DEF RunsOf
  <1>4. rl = C \o <<rl[n]>>
    <2> DEFINE u == C \o <<rl[n]>>
    <2>1. u \in Seq(RunElement) /\ Len(u) = n /\ u[n] = rl[n] /\ \A i \in 1 .. n - 1 : u[i] = C[i]
      BY <1>1, <1>3
    <2> HIDE DEF u
    <2>2. \A i \in 1 .. n : u[i] = rl[i]
      BY <1>1, <1>3, <2>1
    <2>3. u = rl
      BY <1>1, <2>1, <2>2
    <2> QED
      BY <2>3 DEF u
  <1>5. \A i \in 1 .. n - 1 : /\ rl[i].length > 0 /\ rl[i].lcn >= -2
                              /\ rl[i].vcn + rl[i].length = rl[i + 1].vcn
    BY DEF IsRunlist
  <1> HIDE DEF C
  <1>6. ASSUME NEW i \in 1 .. Len(C)
        PROVE  /\ C[i].length > 0 /\ C[i].lcn >= -2
               /\ C[i].vcn = IF i = 1 THEN rl[1].vcn ELSE C[i - 1].vcn + C[i - 1].length
    <2>1. i \in 1 .. n - 1 /\ C[i] = rl[i]
      BY <1>1, <1>3
    <2>2. CASE i = 1
      BY <1>5, <2>1, <2>2
    <2>3. CASE i # 1
      <3>1. i - 1 \in 1 .. n - 1 /\ (i - 1) + 1 = i
        BY <1>1, <2>1, <2>3
      <3>2. C[i - 1] = rl[i - 1] /\ rl[i - 1].vcn + rl[i - 1].length = rl[i].vcn
        BY <1>3, <1>5, <3>1
      <3> QED
        BY <1>5, <2>1, <2>3, <3>2
    <2> QED
      BY <2>2, <2>3
  <1>7. rl[n].vcn = IF Len(C) = 0 THEN rl[1].vcn ELSE C[Len(C)].vcn + C[Len(C)].length
    <2>1. CASE n = 1
      BY <1>3, <2>1
    <2>2. CASE n # 1
      <3>1. PICK m \in 1 .. n - 1 : m = n - 1 /\ m + 1 = n
        <4>1. \A x \in Nat \ {0} : x # 1 => \E m \in 1 .. x - 1 : m = x - 1 /\ m + 1 = x
          BY ONLY TRUE
        <4> QED
          BY <1>1, <2>2, <4>1
      <3>2. rl[m].vcn + rl[m].length = rl[n].vcn /\ C[m] = rl[m] /\ Len(C) = m /\ m # 0
        BY <1>3, <1>5, <3>1
      <3> QED
        BY <3>2
    <2> QED
      BY <2>1, <2>2
  <1>8. rl[1].vcn \in Nat /\ rl[n].vcn \in Nat
    BY <1>1, <1>2
  <1>9. Chain(C, rl[1].vcn, EndVcn(rl))
    BY <1>3, <1>6, <1>7, <1>8 DEF Chain, EndVcn
  <1> QED
    BY <1>1, <1>2, <1>3, <1>4, <1>9 DEF C

\* A chain with a terminator is a list.
LEMMA ListOfRuns ==
  ASSUME NEW C, NEW a, NEW e, Chain(C, a, e),
         NEW t \in RunElement, t.vcn = e, t.length = 0, t.lcn \in {-2, -3}
  PROVE  /\ IsRunlist(C \o <<t>>) /\ RunsOf(C \o <<t>>) = C
         /\ Len(C \o <<t>>) = Len(C) + 1 /\ (C \o <<t>>)[Len(C) + 1] = t
         /\ (C \o <<t>>)[1].vcn = a /\ EndVcn(C \o <<t>>) = e
  <1> DEFINE u == C \o <<t>>
             n == Len(C)
  <1>1. /\ C \in Seq(RunElement) /\ n \in Nat
        /\ \A i \in 1 .. n : C[i] \in RunElement /\ C[i].vcn \in Nat /\ C[i].length \in Nat
    BY ChainRuns
  <1>2. u \in Seq(RunElement) /\ Len(u) = n + 1 /\ u[n + 1] = t /\ \A i \in 1 .. n : u[i] = C[i]
    BY <1>1
  <1> HIDE DEF u
  <1>3. ASSUME NEW i \in 1 .. n
        PROVE  u[i].length > 0 /\ u[i].lcn >= -2 /\ u[i].vcn + u[i].length = u[i + 1].vcn
    <2>1. u[i] = C[i] /\ C[i].length > 0 /\ C[i].lcn >= -2
      BY <1>2 DEF Chain
    <2>2. CASE i = n
      <3>1. e = C[n].vcn + C[n].length
        BY <1>1, <2>2 DEF Chain
      <3> QED
        BY <1>2, <2>1, <2>2, <3>1
    <2>3. CASE i # n
      <3>1. i + 1 \in 1 .. n /\ (i + 1) - 1 = i /\ i + 1 # 1
        BY <1>1, <2>3
      <3>2. C[i + 1].vcn = C[i].vcn + C[i].length
        BY <3>1 DEF Chain
      <3> QED
        BY <1>2, <2>1, <3>1, <3>2
    <2> QED
      BY <2>2, <2>3
  <1>4. IsRunlist(u)
    BY <1>1, <1>2, <1>3 DEF IsRunlist
  <1>5. RunsOf(u) = C
    <2>1. Len(RunsOf(u)) = n /\ RunsOf(u) \in Seq(RunElement) /\ \A i \in 1 .. n : RunsOf(u)[i] = C[i]
      BY <1>1, <1>2 DEF RunsOf
    <2> QED
      BY <1>1, <2>1
  <1>6. u[1].vcn = a
    <2>1. CASE n = 0
      BY <1>2, <2>1 DEF Chain
    <2>2. CASE n # 0
      BY <1>1, <1>2, <2>2 DEF Chain
    <2> QED
      BY <2>1, <2>2
  <1> QED
    BY <1>2, <1>4, <1>5, <1>6 DEF u, EndVcn

-----------------------------------------------------------------------------
(* Looking up a VCN.                                                       *)

\* The run that the code stops at.
Spot(rl, v) ==
    CHOOSE j \in 1 .. Len(rl) :
       /\ rl[j].length = 0 \/ v < rl[j + 1].vcn
       /\ \A k \in 1 .. j - 1 : rl[k].length # 0 /\ v >= rl[k + 1].vcn

\* It is the run that holds VCN v, or the terminator.
LEMMA SpotIs ==
  ASSUME NEW rl, IsRunlist(rl), NEW v \in Nat, NEW i \in 1 .. Len(rl),
         i = Len(rl) \/ v < rl[i + 1].vcn, i # 1 => rl[i].vcn <= v
  PROVE  Spot(rl, v) = i
  <1> DEFINE n == Len(rl)
             P(j) == /\ rl[j].length = 0 \/ v < rl[j + 1].vcn
                     /\ \A k \in 1 .. j - 1 : rl[k].length # 0 /\ v >= rl[k + 1].vcn
  <1>1. /\ n \in Nat \ {0} /\ \A j \in 1 .. n : rl[j].vcn \in Nat /\ rl[j].length \in Nat
    BY RunsOfList
  <1>2. \A j, k \in 1 .. n : j < k => rl[j].vcn + rl[j].length <= rl[k].vcn
    <2> SUFFICES ASSUME NEW j \in 1 .. n, NEW k \in 1 .. n, j < k
                 PROVE  rl[j].vcn + rl[j].length <= rl[k].vcn
      OBVIOUS
    <2>1. Chain(RunsOf(rl), rl[1].vcn, EndVcn(rl)) /\ Len(RunsOf(rl)) = n - 1
          /\ \A m \in 1 .. n - 1 : RunsOf(rl)[m] = rl[m]
      BY RunsOfList
    <2>2. j \in 1 .. n - 1
      BY <1>1
    <2>3. CASE k = n
      BY <2>1, <2>2, <2>3, ChainOrder DEF EndVcn
    <2>4. CASE k # n
      <3>1. k \in 1 .. n - 1
        BY <1>1, <2>4
      <3> QED
        BY <2>1, <2>2, <3>1, ChainOrder
    <2> QED
      BY <2>3, <2>4
  <1>3. rl[n].length = 0 /\ \A j \in 1 .. n - 1 : rl[j].length > 0
    BY DEF IsRunlist
  <1>4. ASSUME NEW k \in 1 .. i - 1 PROVE rl[k].length # 0 /\ v >= rl[k + 1].vcn
    <2>1. k \in 1 .. n - 1 /\ k + 1 \in 1 .. n /\ i # 1
      BY <1>1
    <2>2. k + 1 = i \/ (k + 1 < i /\ rl[k + 1].vcn + rl[k + 1].length <= rl[i].vcn)
      BY <1>1, <1>2, <2>1
    <2>3. rl[k + 1].vcn \in Nat /\ rl[k + 1].length \in Nat /\ rl[i].vcn \in Nat
      BY <1>1, <2>1
    <2>4. rl[i].vcn <= v
      BY <2>1
    <2>5. v >= rl[k + 1].vcn
      BY <2>2, <2>3, <2>4
    <2> QED
      BY <1>3, <2>1, <2>5
  <1>5. P(i)
    BY <1>3, <1>4
  <1>6. ASSUME NEW j \in 1 .. n, P(j) PROVE j = i
    <2>1. CASE j < i
      <3>1. j \in 1 .. i - 1 /\ j \in 1 .. n - 1
        BY <1>1, <2>1
      <3>2. rl[j].length # 0 /\ v >= rl[j + 1].vcn
        BY <1>4, <3>1
      <3>3. v < rl[j + 1].vcn /\ rl[j + 1].vcn \in Nat
        BY <1>1, <1>6, <3>1, <3>2
      <3> QED
        BY <3>2, <3>3
    <2>2. CASE i < j
      <3>1. i \in 1 .. j - 1 /\ i \in 1 .. n - 1
        BY <1>1, <2>2
      <3>2. v >= rl[i + 1].vcn /\ i # n
        BY <1>1, <1>6, <3>1
      <3>3. v < rl[i + 1].vcn /\ rl[i + 1].vcn \in Nat
        BY <1>1, <3>1, <3>2
      <3> QED
        BY <3>2, <3>3
    <2> QED
      BY <1>1, <2>1, <2>2
  <1> HIDE DEF P
  <1>7. (CHOOSE j \in 1 .. n : P(j)) = i
    BY <1>5, <1>6
  <1> QED
    BY <1>7 DEF P, Spot

\* ntfs_rl_vcn_to_lcn gives what the runs say, and behind them what the terminator says.
LEMMA LookupIs ==
  ASSUME NEW rl, IsRunlist(rl), NEW v \in Nat, rl[1].vcn <= v
  PROVE  /\ RL!ntfs_rl_vcn_to_lcn(rl, v) \in Int
         /\ v < EndVcn(rl) => \A l \in Int : RL!ntfs_rl_vcn_to_lcn(rl, v) = l <=> Says(RunsOf(rl), v, l)
         /\ v >= EndVcn(rl) => RL!ntfs_rl_vcn_to_lcn(rl, v) = rl[Len(rl)].lcn
  <1> DEFINE n == Len(rl)
  <1>1. /\ n \in Nat \ {0}
        /\ \A j \in 1 .. n : rl[j].vcn \in Nat /\ rl[j].length \in Nat /\ rl[j].lcn \in Int
        /\ Chain(RunsOf(rl), rl[1].vcn, EndVcn(rl)) /\ Len(RunsOf(rl)) = n - 1
        /\ \A j \in 1 .. n - 1 : RunsOf(rl)[j] = rl[j]
    BY RunsOfList
  <1>2. /\ rl[n].length = 0 /\ rl[n].lcn \in {-2, -3}
        /\ \A j \in 1 .. n - 1 : rl[j].length > 0 /\ rl[j].vcn + rl[j].length = rl[j + 1].vcn
    BY DEF IsRunlist
  <1>3. RL!ntfs_rl_vcn_to_lcn(rl, v) =
           LET i == Spot(rl, v)
           IN  IF rl[i].length # 0 /\ rl[i].lcn >= 0 THEN rl[i].lcn + (v - rl[i].vcn)
               ELSE IF rl[i].lcn < 0 THEN rl[i].lcn
               ELSE -3
    <2>1. (rl = RL!NULL) = FALSE
      BY <1>1 DEF RL!NULL
    <2>2. RL!ntfs_rl_vcn_to_lcn(rl, v) =
             IF rl = RL!NULL THEN RL!LCN_RL_NOT_MAPPED
             ELSE IF rl[Spot(rl, v)].length # 0 /\ rl[Spot(rl, v)].lcn >= 0
                  THEN rl[Spot(rl, v)].lcn + (v - rl[Spot(rl, v)].vcn)
                  ELSE IF rl[Spot(rl, v)].lcn < 0 THEN rl[Spot(rl, v)].lcn
                  ELSE RL!LCN_ENOENT
      BY Zenon DEF RL!ntfs_rl_vcn_to_lcn, Spot
    <2> QED
      BY <2>1, <2>2 DEF RL!LCN_ENOENT
  <1>4. CASE v >= EndVcn(rl)
    <2>1. Spot(rl, v) = n
      <3>1. n \in 1 .. Len(rl) /\ n = Len(rl)
        BY <1>1
      <3>2. rl[n].vcn <= v
        BY <1>1, <1>4 DEF EndVcn
      <3> HIDE DEF n
      <3> QED
        BY <3>1, <3>2, SpotIs
    <2>2. EndVcn(rl) \in Nat
      BY <1>1 DEF EndVcn
    <2> QED
      BY <1>1, <1>2, <1>3, <1>4, <2>1, <2>2
  <1>5. CASE v < EndVcn(rl)
    <2>1. PICK i \in 1 .. Len(RunsOf(rl)) :
             RunsOf(rl)[i].vcn <= v /\ v < RunsOf(rl)[i].vcn + RunsOf(rl)[i].length
      BY <1>1, <1>5, ChainCovers
    <2>2. i \in 1 .. n - 1 /\ i \in 1 .. n /\ RunsOf(rl)[i] = rl[i]
      BY <1>1, <2>1
    <2>3. rl[i].vcn <= v /\ v < rl[i].vcn + rl[i].length /\ v < rl[i + 1].vcn /\ rl[i].length # 0
      BY <1>1, <1>2, <2>1, <2>2
    <2>4. Spot(rl, v) = i
      BY <2>2, <2>3, SpotIs
    <2>5. RL!ntfs_rl_vcn_to_lcn(rl, v) = LcnIn(rl[i], v)
      BY <1>1, <1>3, <2>2, <2>3, <2>4 DEF LcnIn
    <2>6. LcnIn(rl[i], v) \in Int
      BY <1>1, <2>2 DEF LcnIn
    <2>7. ASSUME NEW l \in Int, Says(RunsOf(rl), v, l) PROVE l = LcnIn(rl[i], v)
      <3>1. PICK j \in 1 .. Len(RunsOf(rl)) :
               /\ RunsOf(rl)[j].vcn <= v /\ v < RunsOf(rl)[j].vcn + RunsOf(rl)[j].length
               /\ l = LcnIn(RunsOf(rl)[j], v)
        BY <2>7 DEF Says
      <3>2. i = j
        <4>1. /\ i < j => RunsOf(rl)[i].vcn + RunsOf(rl)[i].length <= RunsOf(rl)[j].vcn
              /\ j < i => RunsOf(rl)[j].vcn + RunsOf(rl)[j].length <= RunsOf(rl)[i].vcn
          BY <1>1, ChainOrder
        <4>2. /\ RunsOf(rl)[i].vcn \in Nat /\ RunsOf(rl)[i].length \in Nat
              /\ RunsOf(rl)[j].vcn \in Nat /\ RunsOf(rl)[j].length \in Nat
          BY <1>1, ChainRuns
        <4> DEFINE x == RunsOf(rl)[i].vcn
                   y == RunsOf(rl)[i].length
                   z == RunsOf(rl)[j].vcn
                   w == RunsOf(rl)[j].length
        <4>3. /\ x \in Nat /\ y \in Nat /\ z \in Nat /\ w \in Nat /\ i \in Nat /\ j \in Nat
              /\ x <= v /\ v < x + y /\ z <= v /\ v < z + w
              /\ (i < j => x + y <= z) /\ (j < i => z + w <= x)
          BY <2>1, <3>1, <4>1, <4>2
        <4> HIDE DEF x, y, z, w
        <4>4. ~(i < j) /\ ~(j < i)
          BY <4>3
        <4> QED
          BY <4>3, <4>4
      <3> QED
        BY <2>2, <3>1, <3>2
    <2>8. Says(RunsOf(rl), v, LcnIn(rl[i], v))
      BY <2>1, <2>2 DEF Says
    <2>9. ~(v >= EndVcn(rl))
      BY <1>1, <1>5, SMTT(40) DEF EndVcn
    <2> QED
      BY <2>5, <2>6, <2>7, <2>8, <2>9
  <1> QED
    BY <1>1, <1>4, <1>5 DEF EndVcn

\* A chain speaks of the VCNs between its ends only.
LEMMA ChainSays ==
  ASSUME NEW s, NEW a, NEW b, Chain(s, a, b), NEW v \in Nat, NEW l, Says(s, v, l)
  PROVE  a <= v /\ v < b
  <1>1. PICK i \in 1 .. Len(s) : s[i].vcn <= v /\ v < s[i].vcn + s[i].length
    BY DEF Says
  <1>2. a <= s[i].vcn /\ s[i].vcn + s[i].length <= b
    BY ChainOrder
  <1>3. a \in Nat /\ b \in Nat /\ s[i].vcn \in Nat /\ s[i].length \in Nat
    BY ChainRuns DEF Chain
  <1> QED
    BY <1>1, <1>2, <1>3

\* The runs of a chain up to k, also when there are none.
LEMMA ChainFront ==
  ASSUME NEW s, NEW a, NEW b, Chain(s, a, b), NEW k \in 0 .. Len(s)
  PROVE  /\ Chain(SubSeq(s, 1, k), a, IF k = Len(s) THEN b ELSE s[k + 1].vcn)
         /\ Len(SubSeq(s, 1, k)) = k /\ \A i \in 1 .. k : SubSeq(s, 1, k)[i] = s[i]
  <1>1. Len(s) \in Nat /\ s \in Seq(RunElement) /\ a \in Nat /\ b \in Nat
    BY ChainRuns DEF Chain
  <1>2. CASE k = 0
    <2>1. SubSeq(s, 1, k) = <<>> /\ Len(<<>>) = 0
      BY <1>1, <1>2
    <2>2. a = IF k = Len(s) THEN b ELSE s[k + 1].vcn
      <3>1. CASE Len(s) = 0
        BY <1>2, <3>1 DEF Chain
      <3>2. CASE Len(s) # 0
        <4>1. 1 \in 1 .. Len(s)
          BY <1>1, <3>2
        <4> QED
          BY <1>2, <3>2, <4>1 DEF Chain
      <3> QED
        BY <3>1, <3>2
    <2>3. 1 .. k = {}
      BY <1>2
    <2>4. Chain(<<>>, a, a)
      BY <1>1, ChainNone
    <2>5. Chain(SubSeq(s, 1, k), a, IF k = Len(s) THEN b ELSE s[k + 1].vcn)
      BY <2>1, <2>2, <2>4
    <2> QED
      BY <1>2, <2>1, <2>3, <2>5
  <1>3. CASE k # 0
    <2>1. k \in Nat \ {0} /\ 1 <= k /\ k <= Len(s) /\ 1 \in Nat \ {0} /\ k \in 1 .. Len(s)
          /\ 1 \in 1 .. Len(s)
      BY <1>1, <1>3
    <2>2. /\ Chain(SubSeq(s, 1, k), s[1].vcn, s[k].vcn + s[k].length)
          /\ Len(SubSeq(s, 1, k)) = k - 1 + 1
          /\ \A i \in 1 .. k - 1 + 1 : SubSeq(s, 1, k)[i] = s[1 + i - 1]
      BY <2>1, ChainSub
    <2>3. s[1].vcn = a
      BY <2>1 DEF Chain
    <2>4. s[k].vcn + s[k].length = IF k = Len(s) THEN b ELSE s[k + 1].vcn
      <3>1. CASE k = Len(s)
        BY <1>3, <3>1 DEF Chain
      <3>2. CASE k # Len(s)
        <4>1. k + 1 \in 1 .. Len(s) /\ k + 1 # 1 /\ (k + 1) - 1 = k
          BY <1>1, <1>3, <3>2
        <4> QED
          BY <3>2, <4>1 DEF Chain
      <3> QED
        BY <3>1, <3>2
    <2> QED
      BY <2>1, <2>2, <2>3, <2>4
  <1> QED
    BY <1>2, <1>3

\* The runs of a chain behind k, also when there are none.
LEMMA ChainBack ==
  ASSUME NEW s, NEW a, NEW b, Chain(s, a, b), NEW k \in 1 .. Len(s)
  PROVE  /\ Chain(SubSeq(s, k + 1, Len(s)), s[k].vcn + s[k].length, b)
         /\ Len(SubSeq(s, k + 1, Len(s))) = Len(s) - k
         /\ \A i \in 1 .. Len(s) - k : SubSeq(s, k + 1, Len(s))[i] = s[k + i]
  <1>1. /\ Len(s) \in Nat /\ s \in Seq(RunElement) /\ a \in Nat /\ b \in Nat
        /\ s[k].vcn \in Nat /\ s[k].length \in Nat
    BY ChainRuns DEF Chain
  <1>2. CASE k = Len(s)
    <2>1. SubSeq(s, k + 1, Len(s)) = <<>> /\ Len(<<>>) = 0 /\ Len(s) - k = 0
      BY <1>1, <1>2
    <2>2. b = s[k].vcn + s[k].length
      BY <1>1, <1>2 DEF Chain
    <2>3. 1 .. Len(s) - k = {}
      BY <2>1
    <2>4. Chain(<<>>, b, b)
      BY <1>1, ChainNone
    <2> QED
      BY <2>1, <2>2, <2>3, <2>4
  <1>3. CASE k # Len(s)
    <2>1. PICK m \in Nat \ {0} : m = k + 1 /\ m <= Len(s) /\ m \in 1 .. Len(s) /\ m # 1 /\ m - 1 = k
      BY <1>1, <1>3
    <2>2. /\ Chain(SubSeq(s, m, Len(s)), s[m].vcn, s[Len(s)].vcn + s[Len(s)].length)
          /\ Len(SubSeq(s, m, Len(s))) = Len(s) - m + 1
          /\ \A i \in 1 .. Len(s) - m + 1 : SubSeq(s, m, Len(s))[i] = s[m + i - 1]
      BY <1>1, <2>1, ChainSub
    <2>3. s[m].vcn = s[k].vcn + s[k].length /\ b = s[Len(s)].vcn + s[Len(s)].length
      BY <1>1, <2>1 DEF Chain
    <2>4. Len(s) - m + 1 = Len(s) - k /\ \A i \in 1 .. Len(s) - k : m + i - 1 = k + i
      BY <1>1, <2>1
    <2> QED
      BY <2>1, <2>2, <2>3, <2>4
  <1> QED
    BY <1>2, <1>3

\* A list taken apart at one of its runs.
LEMMA ListSplit ==
  ASSUME NEW rl, IsRunlist(rl), NEW i \in 1 .. Len(rl) - 1
  PROVE  LET P == SubSeq(rl, 1, i - 1)
             Q == SubSeq(rl, i + 1, Len(rl) - 1)
             r == rl[i]
         IN  /\ Chain(P, rl[1].vcn, r.vcn) /\ Len(P) = i - 1 /\ \A k \in 1 .. i - 1 : P[k] = rl[k]
             /\ Chain(Q, r.vcn + r.length, EndVcn(rl)) /\ Len(Q) = Len(rl) - 1 - i
             /\ \A k \in 1 .. Len(rl) - 1 - i : Q[k] = rl[i + k]
             /\ r \in RunElement /\ r.length > 0 /\ r.lcn >= -2
             /\ SubSeq(rl, i + 1, Len(rl)) = Q \o <<rl[Len(rl)]>>
             /\ \A v \in Nat, l \in Int :
                   Says(RunsOf(rl), v, l) <=> Says(P, v, l) \/ Says(<<r>>, v, l) \/ Says(Q, v, l)
  <1> DEFINE P == SubSeq(rl, 1, i - 1)
             Q == SubSeq(rl, i + 1, Len(rl) - 1)
             r == rl[i]
             s == RunsOf(rl)
             n == Len(rl) - 1
  <1>1. /\ Chain(s, rl[1].vcn, EndVcn(rl)) /\ Len(rl) \in Nat \ {0} /\ Len(s) = n
        /\ \A k \in 1 .. n : s[k] = rl[k]
        /\ \A k \in 1 .. Len(rl) : rl[k] \in RunElement
        /\ rl \in Seq(RunElement)
    BY RunsOfList DEF IsRunlist
  <1>2. s \in Seq(RunElement) /\ n \in Nat /\ s[i] = r /\ i \in 1 .. Len(s)
    BY <1>1, ChainRuns
  <1>3. r \in RunElement /\ r.length > 0 /\ r.lcn >= -2
    BY <1>1, <1>2 DEF Chain
  <1>4. PICK h \in 0 .. Len(s) : h = i - 1 /\ h + 1 = i /\ h # Len(s)
    BY <1>1, <1>2
  <1>5. P = SubSeq(s, 1, h)
    <2>1. /\ P \in Seq(RunElement) /\ Len(P) = h /\ \A k \in 1 .. h : P[k] = rl[k]
          /\ SubSeq(s, 1, h) \in Seq(RunElement) /\ Len(SubSeq(s, 1, h)) = h
          /\ \A k \in 1 .. h : SubSeq(s, 1, h)[k] = s[k] /\ s[k] = rl[k]
      BY <1>1, <1>2, <1>4
    <2> QED
      BY <2>1
  <1>6. Q = SubSeq(s, i + 1, Len(s))
    <2>1. /\ Q \in Seq(RunElement) /\ Len(Q) = n - i /\ \A k \in 1 .. n - i : Q[k] = rl[i + k]
      BY <1>1, <1>2
    <2>2. /\ SubSeq(s, i + 1, Len(s)) \in Seq(RunElement) /\ Len(SubSeq(s, i + 1, Len(s))) = n - i
          /\ \A k \in 1 .. n - i : SubSeq(s, i + 1, Len(s))[k] = s[i + k]
      BY <1>1, <1>2
    <2>3. \A k \in 1 .. n - i : s[i + k] = rl[i + k]
      BY <1>1, <1>2
    <2> HIDE DEF Q
    <2>4. \A k \in 1 .. Len(Q) : Q[k] = SubSeq(s, i + 1, Len(s))[k]
      BY <2>1, <2>2, <2>3
    <2> QED
      BY <2>1, <2>2, <2>4, SameSeq
  <1>7. /\ Chain(P, rl[1].vcn, r.vcn) /\ Len(P) = i - 1 /\ \A k \in 1 .. i - 1 : P[k] = rl[k]
    <2>1. /\ Chain(SubSeq(s, 1, h), rl[1].vcn, s[h + 1].vcn)
          /\ Len(SubSeq(s, 1, h)) = h /\ \A k \in 1 .. h : SubSeq(s, 1, h)[k] = s[k]
      BY <1>1, <1>4, ChainFront
    <2>2. \A k \in 1 .. h : s[k] = rl[k]
      <3>1. \A k \in 1 .. h : k \in 1 .. Len(s)
        BY <1>1, <1>2, <1>4
      <3> QED
        BY <1>1, <3>1
    <2> QED
      BY <1>2, <1>4, <1>5, <2>1, <2>2
  <1>8. /\ Chain(Q, r.vcn + r.length, EndVcn(rl)) /\ Len(Q) = Len(rl) - 1 - i
        /\ \A k \in 1 .. Len(rl) - 1 - i : Q[k] = rl[i + k]
    <2>1. /\ Chain(SubSeq(s, i + 1, Len(s)), s[i].vcn + s[i].length, EndVcn(rl))
          /\ Len(SubSeq(s, i + 1, Len(s))) = Len(s) - i
          /\ \A k \in 1 .. Len(s) - i : SubSeq(s, i + 1, Len(s))[k] = s[i + k]
      BY <1>1, <1>2, ChainBack
    <2>2. \A k \in 1 .. n - i : s[i + k] = rl[i + k]
      BY <1>1, <1>2
    <2> QED
      BY <1>1, <1>2, <1>6, <2>1, <2>2
  <1>9. SubSeq(rl, i + 1, Len(rl)) = Q \o <<rl[Len(rl)]>>
    <2> DEFINE x == SubSeq(rl, i + 1, Len(rl))
               y == Q \o <<rl[Len(rl)]>>
    <2>1. x \in Seq(RunElement) /\ Len(x) = Len(rl) - i /\ \A k \in 1 .. Len(rl) - i : x[k] = rl[i + k]
      BY <1>1, <1>2
    <2>2. Q \in Seq(RunElement) /\ Len(Q) = n - i /\ \A k \in 1 .. n - i : Q[k] = rl[i + k]
      BY <1>1, <1>2, <1>8 DEF Chain
    <2>3. /\ y \in Seq(RunElement) /\ Len(y) = n - i + 1 /\ y[n - i + 1] = rl[Len(rl)]
          /\ \A k \in 1 .. n - i : y[k] = Q[k]
      <3> HIDE DEF Q
      <3>1. rl[Len(rl)] \in RunElement /\ n - i \in Nat
        BY <1>1, <1>2
      <3> QED
        BY <2>2, <3>1
    <2> HIDE DEF x, y, Q
    <2>4. Len(y) = Len(x)
      BY <1>1, <1>2, <2>1, <2>3
    <2>5. ASSUME NEW k \in 1 .. Len(x) PROVE x[k] = y[k]
      <3>1. k \in 1 .. n - i \/ (k = n - i + 1 /\ i + k = Len(rl))
        <4>1. \A N \in Nat : \A j \in 1 .. N - 1 : \A m \in 1 .. N - j :
                 m \in 1 .. (N - 1) - j \/ (m = (N - 1) - j + 1 /\ j + m = N)
          BY ONLY TRUE
        <4>2. Len(rl) \in Nat /\ i \in 1 .. Len(rl) - 1 /\ k \in 1 .. Len(rl) - i
          BY <1>1, <2>1
        <4> QED
          BY ONLY <4>1, <4>2
      <3> QED
        BY <2>1, <2>2, <2>3, <2>5, <3>1
    <2>6. x = y
      BY <2>1, <2>3, <2>4, <2>5
    <2> QED
      BY <2>6 DEF x, y
  <1>10. ASSUME NEW v \in Nat, NEW l \in Int
         PROVE  Says(s, v, l) <=> Says(P, v, l) \/ Says(<<r>>, v, l) \/ Says(Q, v, l)
    <2>1. Says(<<r>>, v, l) <=> r.vcn <= v /\ v < r.vcn + r.length /\ l = LcnIn(r, v)
      BY <1>3, ChainOne
    <2>2. Says(P, v, l) <=> \E k \in 1 .. i - 1 :
             rl[k].vcn <= v /\ v < rl[k].vcn + rl[k].length /\ l = LcnIn(rl[k], v)
      BY <1>7 DEF Says
    <2>3. Says(s, v, l) <=> \E k \in 1 .. n :
             rl[k].vcn <= v /\ v < rl[k].vcn + rl[k].length /\ l = LcnIn(rl[k], v)
      BY <1>1 DEF Says
    <2>4. Says(Q, v, l) <=> \E k \in 1 .. n - i :
             rl[i + k].vcn <= v /\ v < rl[i + k].vcn + rl[i + k].length /\ l = LcnIn(rl[i + k], v)
      BY <1>8 DEF Says
    <2> DEFINE F(k) == rl[k].vcn <= v /\ v < rl[k].vcn + rl[k].length /\ l = LcnIn(rl[k], v)
    <2>5. (\E k \in 1 .. n : F(k)) <=> \/ \E k \in 1 .. i - 1 : F(k)
                                       \/ F(i)
                                       \/ \E k \in 1 .. n - i : F(i + k)
      <3> HIDE DEF F
      <3>1. ASSUME NEW k \in 1 .. n, F(k)
            PROVE  (\E j \in 1 .. i - 1 : F(j)) \/ F(i) \/ (\E j \in 1 .. n - i : F(i + j))
        <4>1. k \in 1 .. i - 1 \/ k = i \/ (k - i \in 1 .. n - i /\ i + (k - i) = k)
          BY <1>2
        <4> QED
          BY <3>1, <4>1
      <3>2. (1 .. i - 1) \subseteq (1 .. n) /\ i \in 1 .. n /\ \A j \in 1 .. n - i : i + j \in 1 .. n
        BY <1>2
      <3> QED
        BY <3>1, <3>2
    <2> QED
      BY <2>1, <2>2, <2>3, <2>4, <2>5
  <1> QED
    BY <1>3, <1>7, <1>8, <1>9, <1>10

-----------------------------------------------------------------------------
(* ntfs_rl_truncate.                                                       *)

\* ntfs_rl_truncate, for lists of any length: the list ends at start, the clusters before it
\* are found where they were, and a list that ends before start is refused.
THEOREM TruncateCorrect ==
  ASSUME NEW rl, IsRunlist(rl), rl[1].vcn = 0, NEW start \in Nat
  PROVE  LET t == RL!ntfs_rl_truncate(rl, start)
         IN  /\ start >= EndVcn(rl) => t = <<>>
             /\ start < EndVcn(rl) =>
                   /\ IsRunlist(t) /\ t[1].vcn = 0
                   /\ EndVcn(t) = start /\ t[Len(t)].lcn = -3
                   /\ \A v \in 0 .. start - 1 :
                         RL!ntfs_rl_vcn_to_lcn(t, v) = RL!ntfs_rl_vcn_to_lcn(rl, v)
  <1> DEFINE t == RL!ntfs_rl_truncate(rl, start)
             n == Len(rl)
  <1>1. /\ n \in Nat \ {0} /\ EndVcn(rl) \in Nat
        /\ \A j \in 1 .. n : rl[j] \in RunElement /\ rl[j].vcn \in Nat /\ rl[j].length \in Nat
                             /\ rl[j].lcn \in Int
        /\ Chain(RunsOf(rl), 0, EndVcn(rl)) /\ Len(RunsOf(rl)) = n - 1
        /\ \A j \in 1 .. n - 1 : RunsOf(rl)[j] = rl[j]
    BY RunsOfList DEF Chain
  <1>2. /\ rl[n].length = 0
        /\ \A j \in 1 .. n - 1 : rl[j].length > 0 /\ rl[j].vcn + rl[j].length = rl[j + 1].vcn
    BY DEF IsRunlist
  <1>3. t = LET i == Spot(rl, start)
            IN  IF rl[i].length = 0 THEN <<>>
                ELSE SubSeq(rl, 1, i - 1)
                       \o (IF start > rl[i].vcn THEN <<[rl[i] EXCEPT !.length = start - rl[i].vcn]>>
                           ELSE <<>>)
                       \o <<[vcn |-> start, lcn |-> -3, length |-> 0]>>
    BY DEF RL!ntfs_rl_truncate, RL!NULL, RL!Run, RL!LCN_ENOENT, Spot
  <1>4. CASE start >= EndVcn(rl)
    <2>0. n \in 1 .. n /\ rl[n].vcn <= start
      BY <1>1, <1>4 DEF EndVcn
    <2>1. Spot(rl, start) = n
      BY <2>0, SpotIs
    <2>2. ~(start < EndVcn(rl))
      BY <1>1, <1>4
    <2> QED
      BY <1>2, <1>3, <2>1, <2>2
  <1>5. CASE start < EndVcn(rl)
    <2>1. PICK i \in 1 .. Len(RunsOf(rl)) :
             RunsOf(rl)[i].vcn <= start /\ start < RunsOf(rl)[i].vcn + RunsOf(rl)[i].length
      <3>1. 0 <= start
        OBVIOUS
      <3> QED
        BY <1>1, <1>5, <3>1, ChainCovers
    <2> DEFINE r == rl[i]
               P == SubSeq(rl, 1, i - 1)
               Q == SubSeq(rl, i + 1, n - 1)
               c == [r EXCEPT !.length = start - r.vcn]
               m == IF start > r.vcn THEN <<c>> ELSE <<>>
               e == [vcn |-> start, lcn |-> -3, length |-> 0]
    <2>2. i \in 1 .. n - 1 /\ i \in 1 .. n /\ RunsOf(rl)[i] = rl[i]
      BY <1>1, <2>1
    <2>3. /\ r.vcn <= start /\ start < r.vcn + r.length /\ start < rl[i + 1].vcn /\ r.length # 0 /\ r.length > 0
          /\ r.vcn \in Nat /\ r.length \in Nat /\ r.lcn \in Int /\ r \in RunElement
      BY <1>1, <1>2, <2>1, <2>2
    <2>4. Spot(rl, start) = i
      BY <2>2, <2>3, SpotIs
    <2>5. t = P \o m \o <<e>>
      BY <1>3, <2>3, <2>4
    <2>6. /\ Chain(P, 0, r.vcn) /\ Chain(Q, r.vcn + r.length, EndVcn(rl)) /\ r.lcn >= -2
          /\ \A v \in Nat, l \in Int :
                Says(RunsOf(rl), v, l) <=> Says(P, v, l) \/ Says(<<r>>, v, l) \/ Says(Q, v, l)
      BY <2>2, ListSplit
    <2>7. \A v \in Nat, l \in Int :
             Says(<<r>>, v, l) <=> r.vcn <= v /\ v < r.vcn + r.length /\ l = LcnIn(r, v)
      BY <2>3, <2>6, ChainOne
    <2>8. /\ Chain(m, r.vcn, start)
          /\ \A v \in Nat, l \in Int :
                Says(m, v, l) <=> r.vcn <= v /\ v < start /\ l = LcnIn(r, v)
      <3>1. CASE start > r.vcn
        <4>1. /\ c \in RunElement /\ c.vcn = r.vcn /\ c.lcn = r.lcn /\ c.length = start - r.vcn
              /\ c.length > 0 /\ c.lcn >= -2 /\ c.vcn + c.length = start
          <5>1. start - r.vcn \in Nat /\ start - r.vcn > 0 /\ r.vcn + (start - r.vcn) = start
            BY <2>3, <3>1
          <5> HIDE DEF r
          <5> QED
            BY <2>3, <2>6, <5>1, RunChanged
        <4> HIDE DEF c
        <4>2. /\ Chain(<<c>>, r.vcn, start)
              /\ \A v \in Nat, l \in Int :
                    Says(<<c>>, v, l) <=> r.vcn <= v /\ v < start /\ l = LcnIn(c, v)
          BY <4>1, ChainOne
        <4>3. \A v : LcnIn(c, v) = LcnIn(r, v)
          BY <4>1 DEF LcnIn
        <4> QED
          BY <3>1, <4>2, <4>3
      <3>2. CASE ~(start > r.vcn)
        <4>1. start = r.vcn /\ m = <<>>
          BY <2>3, <3>2
        <4>2. Chain(<<>>, start, start) /\ \A v, l : ~Says(<<>>, v, l)
          BY ChainNone
        <4>3. \A v \in Nat : ~(r.vcn <= v /\ v < start)
          BY <4>1
        <4> QED
          BY <4>1, <4>2, <4>3
      <3> QED
        BY <3>1, <3>2
    <2> HIDE DEF P, Q, m
    <2>9. Chain(P \o m, 0, start) /\ Splits(P \o m, P, m)
      BY <2>6, <2>8, ChainConcat
    <2>10. e \in RunElement /\ e.vcn = start /\ e.length = 0 /\ e.lcn \in {-2, -3} /\ e.lcn = -3
      BY DEF RunElement
    <2> HIDE DEF e, t
    <2>11. /\ IsRunlist(t) /\ RunsOf(t) = P \o m /\ Len(t) = Len(P \o m) + 1 /\ t[Len(P \o m) + 1] = e
           /\ t[1].vcn = 0 /\ EndVcn(t) = start
      <3> DEFINE C == P \o m
      <3>1. Chain(C, 0, start) /\ t = C \o <<e>>
        BY <2>5, <2>9
      <3> HIDE DEF C
      <3>2. /\ IsRunlist(C \o <<e>>) /\ RunsOf(C \o <<e>>) = C
            /\ Len(C \o <<e>>) = Len(C) + 1 /\ (C \o <<e>>)[Len(C) + 1] = e
            /\ (C \o <<e>>)[1].vcn = 0 /\ EndVcn(C \o <<e>>) = start
        BY <2>10, <3>1, ListOfRuns
      <3> QED
        BY <3>1, <3>2 DEF C
    <2>12. ASSUME NEW v \in 0 .. start - 1
           PROVE  RL!ntfs_rl_vcn_to_lcn(t, v) = RL!ntfs_rl_vcn_to_lcn(rl, v)
      <3> DEFINE l == RL!ntfs_rl_vcn_to_lcn(rl, v)
      <3>1. v \in Nat /\ 0 <= v /\ v < start /\ v < EndVcn(rl)
        BY <1>1, <1>5
      <3>2. l \in Int /\ Says(RunsOf(rl), v, l)
        BY <3>1, LookupIs
      <3> HIDE DEF l
      <3>3. ~Says(Q, v, l)
        <4>1. SUFFICES ASSUME Says(Q, v, l) PROVE FALSE
          OBVIOUS
        <4>2. r.vcn + r.length <= v
          BY <2>6, <3>1, <4>1, ChainSays
        <4> QED
          BY <2>3, <3>1, <4>2
      <3>4. Says(P, v, l) \/ Says(m, v, l)
        BY <2>6, <2>7, <2>8, <3>1, <3>2, <3>3
      <3>5. Says(RunsOf(t), v, l)
        BY <2>9, <2>11, <3>1, <3>2, <3>4 DEF Splits
      <3>6. RL!ntfs_rl_vcn_to_lcn(t, v) = l
        BY <2>11, <3>1, <3>2, <3>5, LookupIs
      <3> QED
        BY <3>6 DEF l
    <2>13. ~(start >= EndVcn(rl))
      BY <1>1, <1>5
    <2> QED
      BY <2>10, <2>11, <2>12, <2>13 DEF t
  <1> QED
    BY <1>1, <1>4, <1>5

-----------------------------------------------------------------------------
(* Merging: runs joined at either side of the ones that are put in.        *)

\* A run of a sequence replaced.
LEMMA ReplacedAt ==
  ASSUME NEW A \in Seq(RunElement), NEW W \in Seq(RunElement),
         NEW r \in RunElement, NEW x \in RunElement
  PROVE  LET u == A \o <<r>> \o W
         IN  /\ [u EXCEPT ![Len(A) + 1] = x] = A \o <<x>> \o W
             /\ u \in Seq(RunElement) /\ Len(u) = Len(A) + 1 + Len(W)
             /\ u[Len(A) + 1] = r
             /\ \A i \in 1 .. Len(A) : u[i] = A[i]
             /\ \A i \in 1 .. Len(W) : u[Len(A) + 1 + i] = W[i]
  <1> DEFINE u == A \o <<r>> \o W
             w == A \o <<x>> \o W
             z == [u EXCEPT ![Len(A) + 1] = x]
  <1>1. Len(A) \in Nat /\ Len(W) \in Nat
    OBVIOUS
  <1>2. ASSUME NEW y \in RunElement
        PROVE  LET q == A \o <<y>> \o W
               IN  /\ q \in Seq(RunElement) /\ Len(q) = Len(A) + 1 + Len(W)
                   /\ q[Len(A) + 1] = y
                   /\ \A i \in 1 .. Len(A) : q[i] = A[i]
                   /\ \A i \in 1 .. Len(W) : q[Len(A) + 1 + i] = W[i]
    <2> DEFINE p == A \o <<y>>
    <2>1. /\ p \in Seq(RunElement) /\ Len(p) = Len(A) + 1 /\ p[Len(A) + 1] = y
          /\ \A i \in 1 .. Len(A) : p[i] = A[i]
      BY <1>1
    <2> HIDE DEF p
    <2>2. /\ p \o W \in Seq(RunElement) /\ Len(p \o W) = Len(A) + 1 + Len(W)
          /\ \A i \in 1 .. Len(A) + 1 : (p \o W)[i] = p[i]
          /\ \A i \in 1 .. Len(W) : (p \o W)[Len(A) + 1 + i] = W[i]
      BY <1>1, <2>1, SMTT(40)
    <2>3. Len(A) + 1 \in 1 .. Len(A) + 1 /\ \A i \in 1 .. Len(A) : i \in 1 .. Len(A) + 1
      BY <1>1
    <2> QED
      BY <2>1, <2>2, <2>3 DEF p
  <1>3. /\ u \in Seq(RunElement) /\ Len(u) = Len(A) + 1 + Len(W) /\ u[Len(A) + 1] = r
        /\ \A i \in 1 .. Len(A) : u[i] = A[i]
        /\ \A i \in 1 .. Len(W) : u[Len(A) + 1 + i] = W[i]
    BY <1>2
  <1>4. /\ w \in Seq(RunElement) /\ Len(w) = Len(A) + 1 + Len(W) /\ w[Len(A) + 1] = x
        /\ \A i \in 1 .. Len(A) : w[i] = A[i]
        /\ \A i \in 1 .. Len(W) : w[Len(A) + 1 + i] = W[i]
    BY <1>2
  <1> HIDE DEF u, w
  <1>5. /\ z \in Seq(RunElement) /\ Len(z) = Len(u)
        /\ \A i \in 1 .. Len(u) : z[i] = IF i = Len(A) + 1 THEN x ELSE u[i]
    BY <1>1, <1>3
  <1>6. ASSUME NEW i \in 1 .. Len(u) PROVE z[i] = w[i]
    <2>1. \/ i \in 1 .. Len(A)
          \/ i = Len(A) + 1
          \/ i - (Len(A) + 1) \in 1 .. Len(W) /\ i = Len(A) + 1 + (i - (Len(A) + 1)) /\ i # Len(A) + 1
      BY <1>1, <1>3
    <2>2. CASE i \in 1 .. Len(A)
      <3>1. i # Len(A) + 1
        BY <1>1, <2>2
      <3> QED
        BY <1>3, <1>4, <1>5, <2>2, <3>1
    <2>3. CASE i = Len(A) + 1
      BY <1>4, <1>5, <2>3
    <2>4. CASE i - (Len(A) + 1) \in 1 .. Len(W) /\ i = Len(A) + 1 + (i - (Len(A) + 1)) /\ i # Len(A) + 1
      <3>1. PICK k \in 1 .. Len(W) : i = Len(A) + 1 + k
        BY <2>4
      <3>2. u[i] = W[k] /\ w[i] = W[k] /\ z[i] = u[i]
        BY <1>3, <1>4, <1>5, <2>4, <3>1
      <3> QED
        BY <3>2
    <2> QED
      BY <2>1, <2>2, <2>3, <2>4
  <1> HIDE DEF z
  <1>7. z = w
    BY <1>3, <1>4, <1>5, <1>6, SameSeq
  <1> QED
    BY <1>3, <1>7 DEF u, w, z

\* Two runs made one say what they said.
LEMMA JoinRuns ==
  ASSUME NEW d \in RunElement, NEW s \in RunElement, d.length > 0, s.length > 0,
         d.lcn >= -2, s.lcn >= -2, d.vcn + d.length = s.vcn, RL!ntfs_rl_are_mergeable(d, s)
  PROVE  LET g == RL!ntfs_rl_merge(d, s)
         IN  /\ g \in RunElement /\ g.vcn = d.vcn /\ g.lcn = d.lcn
             /\ g.length = d.length + s.length /\ g.length > 0
             /\ Chain(<<g>>, d.vcn, s.vcn + s.length) /\ Splits(<<g>>, <<d>>, <<s>>)
  <1> DEFINE g == RL!ntfs_rl_merge(d, s)
  <1>1. /\ d.vcn \in Nat /\ d.lcn \in Int /\ d.length \in Nat
        /\ s.vcn \in Nat /\ s.lcn \in Int /\ s.length \in Nat
    BY DEF RunElement
  <1>2. g = [d EXCEPT !.length = d.length + s.length]
    BY DEF RL!ntfs_rl_merge
  <1>3. g \in RunElement /\ g.vcn = d.vcn /\ g.lcn = d.lcn /\ g.length = d.length + s.length
    <2>1. d.length + s.length \in Nat /\ 0 \in Int
      BY <1>1
    <2> HIDE DEF g
    <2> QED
      BY <1>2, <2>1, RunChanged
  <1> HIDE DEF g
  <1>4. g.length > 0 /\ g.lcn >= -2 /\ g.vcn + g.length = s.vcn + s.length
    BY <1>1, <1>3
  <1>5. \/ d.lcn = -2 /\ s.lcn = -2
        \/ d.lcn >= 0 /\ s.lcn >= 0 /\ d.lcn + d.length = s.lcn
        \/ d.lcn = -1 /\ s.lcn = -1
    BY DEF RL!ntfs_rl_are_mergeable, RL!LCN_RL_NOT_MAPPED, RL!LCN_HOLE
  <1>6. ASSUME NEW v \in Nat, NEW l \in Int
        PROVE  Says(<<g>>, v, l) <=> Says(<<d>>, v, l) \/ Says(<<s>>, v, l)
    <2>1. /\ Says(<<g>>, v, l) <=> g.vcn <= v /\ v < g.vcn + g.length /\ l = LcnIn(g, v)
          /\ Says(<<d>>, v, l) <=> d.vcn <= v /\ v < d.vcn + d.length /\ l = LcnIn(d, v)
          /\ Says(<<s>>, v, l) <=> s.vcn <= v /\ v < s.vcn + s.length /\ l = LcnIn(s, v)
      BY <1>3, <1>4, ChainOne
    <2>2. LcnIn(g, v) = LcnIn(d, v) /\ LcnIn(g, v) = LcnIn(s, v)
      BY <1>1, <1>3, <1>5 DEF LcnIn
    <2>3. g.vcn <= v /\ v < g.vcn + g.length <=>
             \/ d.vcn <= v /\ v < d.vcn + d.length
             \/ s.vcn <= v /\ v < s.vcn + s.length
      BY <1>1, <1>3, <1>4
    <2>4. ASSUME Says(<<g>>, v, l) PROVE Says(<<d>>, v, l) \/ Says(<<s>>, v, l)
      BY <2>1, <2>2, <2>3, <2>4
    <2>5. ASSUME Says(<<d>>, v, l) PROVE Says(<<g>>, v, l)
      <3>1. d.vcn <= v /\ v < d.vcn + d.length /\ l = LcnIn(d, v)
        BY <2>1, <2>5
      <3>2. g.vcn <= v /\ v < g.vcn + g.length
        BY <1>1, <1>3, <3>1
      <3>3. LcnIn(g, v) = LcnIn(d, v)
        BY <2>2
      <3>4. l = LcnIn(g, v)
        BY <3>1, <3>3
      <3> QED
        BY <2>1, <3>2, <3>4
    <2>6. ASSUME Says(<<s>>, v, l) PROVE Says(<<g>>, v, l)
      BY <2>1, <2>2, <2>3, <2>6
    <2> QED
      BY <2>4, <2>5, <2>6
  <1>7. Chain(<<g>>, d.vcn, s.vcn + s.length)
    BY <1>3, <1>4, ChainOne
  <1> QED
    BY <1>3, <1>4, <1>6, <1>7 DEF g, Splits

\* A chain without its last run, and without its first.
LEMMA ChainEnds ==
  ASSUME NEW s, NEW a, NEW b, Chain(s, a, b), Len(s) > 0
  PROVE  LET f == SubSeq(s, 1, Len(s) - 1)
             q == s[Len(s)]
             t == SubSeq(s, 2, Len(s))
             r == s[1]
         IN  /\ Chain(f, a, q.vcn) /\ Len(f) = Len(s) - 1 /\ s = f \o <<q>>
             /\ q \in RunElement /\ q.length > 0 /\ q.lcn >= -2 /\ q.vcn + q.length = b
             /\ Splits(s, f, <<q>>) /\ Chain(<<q>>, q.vcn, b)
             /\ Chain(t, r.vcn + r.length, b) /\ Len(t) = Len(s) - 1 /\ s = <<r>> \o t
             /\ r \in RunElement /\ r.length > 0 /\ r.lcn >= -2 /\ r.vcn = a
             /\ Splits(s, <<r>>, t) /\ Chain(<<r>>, a, r.vcn + r.length)
  <1> DEFINE f == SubSeq(s, 1, Len(s) - 1)
             q == s[Len(s)]
             t == SubSeq(s, 2, Len(s))
             r == s[1]
  <1>1. /\ Len(s) \in Nat \ {0} /\ s \in Seq(RunElement)
        /\ \A i \in 1 .. Len(s) : s[i] \in RunElement
    BY ChainRuns
  <1>2. 1 \in 1 .. Len(s) /\ Len(s) \in 1 .. Len(s)
    BY <1>1
  <1>3. PICK m \in 0 .. Len(s) : m = Len(s) - 1 /\ m + 1 = Len(s) /\ m # Len(s)
    <2>1. \A x \in Nat \ {0} : \E m \in 0 .. x : m = x - 1 /\ m + 1 = x /\ m # x
      BY ONLY TRUE
    <2> QED
      BY <1>1, <2>1
  <1>4. /\ q \in RunElement /\ q.length > 0 /\ q.lcn >= -2 /\ q.vcn + q.length = b
        /\ r \in RunElement /\ r.length > 0 /\ r.lcn >= -2 /\ r.vcn = a
    BY <1>1, <1>2 DEF Chain
  <1>5. Chain(f, a, q.vcn) /\ Len(f) = Len(s) - 1 /\ \A i \in 1 .. Len(s) - 1 : f[i] = s[i]
    <2>1. /\ Chain(SubSeq(s, 1, m), a, s[m + 1].vcn)
          /\ Len(SubSeq(s, 1, m)) = m /\ \A i \in 1 .. m : SubSeq(s, 1, m)[i] = s[i]
      BY <1>3, ChainFront
    <2> QED
      BY <1>3, <2>1
  <1>6. /\ Chain(t, r.vcn + r.length, b) /\ Len(t) = Len(s) - 1
        /\ \A i \in 1 .. Len(s) - 1 : t[i] = s[1 + i]
    <2>1. /\ Chain(SubSeq(s, 1 + 1, Len(s)), s[1].vcn + s[1].length, b)
          /\ Len(SubSeq(s, 1 + 1, Len(s))) = Len(s) - 1
          /\ \A i \in 1 .. Len(s) - 1 : SubSeq(s, 1 + 1, Len(s))[i] = s[1 + i]
      BY <1>2, ChainBack
    <2>2. 1 + 1 = 2
      OBVIOUS
    <2> QED
      BY <2>1, <2>2
  <1>7. f \in Seq(RunElement) /\ t \in Seq(RunElement)
    BY <1>5, <1>6 DEF Chain
  <1> HIDE DEF f, t
  <1>8. s = f \o <<q>>
    <2> DEFINE u == f \o <<q>>
    <2>1. /\ u \in Seq(RunElement) /\ Len(u) = Len(s) /\ u[Len(s)] = q
          /\ \A i \in 1 .. Len(s) - 1 : u[i] = f[i]
      BY <1>1, <1>4, <1>5, <1>7
    <2> HIDE DEF u
    <2>2. \A i \in 1 .. Len(s) : s[i] = u[i]
      BY <1>1, <1>5, <2>1
    <2>3. s = u
      BY <1>1, <2>1, <2>2, SameSeq
    <2> QED
      BY <2>3 DEF u
  <1>9. s = <<r>> \o t
    <2> DEFINE u == <<r>> \o t
    <2>1. /\ u \in Seq(RunElement) /\ Len(u) = Len(s) /\ u[1] = r
          /\ \A i \in 1 .. Len(s) - 1 : u[1 + i] = t[i]
      BY <1>1, <1>4, <1>6, <1>7
    <2> HIDE DEF u
    <2>2. ASSUME NEW i \in 1 .. Len(s) PROVE s[i] = u[i]
      <3>1. i = 1 \/ (i - 1 \in 1 .. Len(s) - 1 /\ i = 1 + (i - 1))
        BY <1>1
      <3> QED
        BY <1>6, <2>1, <3>1
    <2>3. s = u
      BY <1>1, <2>1, <2>2, SameSeq
    <2> QED
      BY <2>3 DEF u
  <1>10. Chain(<<q>>, q.vcn, b) /\ Chain(<<r>>, a, r.vcn + r.length)
    BY <1>4, ChainOne
  <1>11. Splits(s, f, <<q>>) /\ Splits(s, <<r>>, t)
    BY <1>5, <1>6, <1>8, <1>9, <1>10, ChainConcat
  <1> QED
    BY <1>4, <1>5, <1>6, <1>8, <1>9, <1>10, <1>11 DEF f, t

\* The last run of a sequence replaced.
LEMMA ReplacedLast ==
  ASSUME NEW A \in Seq(RunElement), NEW r \in RunElement, NEW x \in RunElement
  PROVE  [A \o <<r>> EXCEPT ![Len(A) + 1] = x] = A \o <<x>>
  <1>1. \A y \in RunElement : (A \o <<y>>) \o <<>> = A \o <<y>>
    <2> SUFFICES ASSUME NEW y \in RunElement PROVE (A \o <<y>>) \o <<>> = A \o <<y>>
      OBVIOUS
    <2> DEFINE p == A \o <<y>>
    <2>1. p \in Seq(RunElement)
      OBVIOUS
    <2> HIDE DEF p
    <2>2. p \o <<>> = p
      BY <2>1
    <2> QED
      BY <2>2 DEF p
  <1>2. <<>> \in Seq(RunElement)
    OBVIOUS
  <1>3. [A \o <<r>> \o <<>> EXCEPT ![Len(A) + 1] = x] = A \o <<x>> \o <<>>
    BY <1>2, ReplacedAt
  <1> QED
    BY <1>1, <1>3

\* The part of a list before an element, the terminator included.
LEMMA ListFront ==
  ASSUME NEW rl, IsRunlist(rl), NEW i \in 1 .. Len(rl)
  PROVE  LET P == SubSeq(rl, 1, i - 1)
         IN  /\ Chain(P, rl[1].vcn, rl[i].vcn) /\ Len(P) = i - 1
             /\ \A k \in 1 .. i - 1 : P[k] = rl[k]
  <1>1. Len(rl) \in Nat \ {0}
    BY RunsOfList
  <1>2. CASE i = Len(rl)
    <2>1. /\ Chain(RunsOf(rl), rl[1].vcn, EndVcn(rl)) /\ Len(RunsOf(rl)) = Len(rl) - 1
          /\ \A k \in 1 .. Len(rl) - 1 : RunsOf(rl)[k] = rl[k]
      BY RunsOfList
    <2> QED
      BY <1>2, <2>1 DEF RunsOf, EndVcn
  <1>3. CASE i # Len(rl)
    <2>1. i \in 1 .. Len(rl) - 1
      BY <1>1, <1>3
    <2> QED
      BY <2>1, ListSplit
  <1> QED
    BY <1>2, <1>3

\* ntfs_rl_insert and ntfs_rl_replace: the runs before at and the new ones.
LEMMA LeftJoin ==
  ASSUME NEW dst, IsRunlist(dst), dst[1].vcn = 0, NEW at \in 1 .. Len(dst),
         NEW M, NEW a, NEW b, Chain(M, a, b), Len(M) > 0, M[1].lcn >= -1
  PROVE  LET left == RL!MergesLeft(dst, M, at)
             head == RL!JoinedLeft(dst, M, at)
             rest == SubSeq(M, 1 + RL!One(left), Len(M))
             P == SubSeq(dst, 1, at - 1)
             m == IF left THEN M[1].vcn + M[1].length ELSE a
         IN  /\ left \in BOOLEAN /\ (left => a = dst[at].vcn /\ at > 1)
             /\ Chain(head, 0, IF left THEN m ELSE dst[at].vcn) /\ Chain(rest, m, b)
             /\ Len(head) = at - 1 /\ Len(rest) = Len(M) - RL!One(left)
             /\ \A v \in Nat, l \in Int :
                   Says(head, v, l) \/ Says(rest, v, l) <=> Says(P, v, l) \/ Says(M, v, l)
  <1> DEFINE left == RL!MergesLeft(dst, M, at)
             head == RL!JoinedLeft(dst, M, at)
             rest == SubSeq(M, 1 + RL!One(left), Len(M))
             P == SubSeq(dst, 1, at - 1)
             m == IF left THEN M[1].vcn + M[1].length ELSE a
             Goal == /\ left => a = dst[at].vcn /\ at > 1
                     /\ Chain(head, 0, IF left THEN m ELSE dst[at].vcn) /\ Chain(rest, m, b)
                     /\ Len(head) = at - 1 /\ Len(rest) = Len(M) - RL!One(left)
                     /\ \A v \in Nat, l \in Int :
                           Says(head, v, l) \/ Says(rest, v, l) <=> Says(P, v, l) \/ Says(M, v, l)
  <1>1. /\ Len(dst) \in Nat \ {0}
        /\ \A k \in 1 .. Len(dst) : dst[k] \in RunElement /\ dst[k].vcn \in Nat /\ dst[k].length \in Nat
    BY RunsOfList
  <1>2. /\ Chain(P, 0, dst[at].vcn) /\ Len(P) = at - 1
        /\ \A k \in 1 .. at - 1 : P[k] = dst[k]
    BY ListFront
  <1>3. /\ Len(M) \in Nat /\ M \in Seq(RunElement) /\ a \in Nat /\ b \in Nat
    BY ChainRuns DEF Chain
  <1>4. left <=> at > 1 /\ RL!ntfs_rl_are_mergeable(dst[at - 1], M[1])
    BY DEF RL!MergesLeft
  <1>5. left \in BOOLEAN
    BY DEF RL!MergesLeft, RL!ntfs_rl_are_mergeable
  <1>6. CASE ~left
    <2>1. head = P /\ RL!One(left) = 0
      BY <1>6 DEF RL!JoinedLeft, RL!One
    <2>2. rest = M
      <3>1. rest = SubSeq(M, 1, Len(M))
        BY <2>1
      <3> HIDE DEF rest
      <3> QED
        BY <1>3, <3>1
    <2>3. Len(M) = Len(M) - 0
      BY <1>3
    <2> HIDE DEF left, head, rest, P
    <2>4. Goal
      BY <1>2, <1>6, <2>1, <2>2, <2>3
    <2> QED
      BY <1>5, <2>4 DEF left, head, rest, P
  <1>7. CASE left
    <2> DEFINE d == dst[at - 1]
               s == M[1]
               g == RL!ntfs_rl_merge(d, s)
               f == SubSeq(P, 1, Len(P) - 1)
               q == P[Len(P)]
               t == SubSeq(M, 2, Len(M))
    <2>1. at > 1 /\ at - 1 \in 1 .. Len(dst) - 1 /\ (at - 1) + 1 = at
      BY <1>1, <1>4, <1>7
    <2>2. Len(P) > 0 /\ q = d
      <3>1. at - 1 \in 1 .. at - 1 /\ at - 1 > 0
        BY <2>1
      <3> QED
        BY <1>2, <3>1
    <2>3. /\ Chain(f, 0, q.vcn) /\ Len(f) = Len(P) - 1 /\ P = f \o <<q>>
          /\ q \in RunElement /\ q.length > 0 /\ q.lcn >= -2 /\ q.vcn + q.length = dst[at].vcn
          /\ Splits(P, f, <<q>>)
      <3> HIDE DEF P
      <3> QED
        BY <1>2, <2>2, ChainEnds, ZenonT(60)
    <2>4. /\ Chain(t, s.vcn + s.length, b) /\ Len(t) = Len(M) - 1 /\ M = <<s>> \o t
          /\ s \in RunElement /\ s.length > 0 /\ s.lcn >= -2 /\ s.vcn = a
          /\ Splits(M, <<s>>, t)
      BY ChainEnds
    <2>5. d.vcn + d.length = s.vcn
      <3>1. s.lcn # -2
        BY <2>4 DEF RunElement
      <3>2. RL!ntfs_rl_are_mergeable(d, s)
        BY <1>4, <1>7
      <3> QED
        BY <3>1, <3>2 DEF RL!ntfs_rl_are_mergeable, RL!EndOf, RL!LCN_RL_NOT_MAPPED
    <2>6. a = dst[at].vcn
      BY <2>2, <2>3, <2>4, <2>5
    <2>7. /\ g \in RunElement /\ g.vcn = d.vcn
          /\ Chain(<<g>>, d.vcn, s.vcn + s.length) /\ Splits(<<g>>, <<d>>, <<s>>)
      <3>1. d \in RunElement /\ d.length > 0 /\ d.lcn >= -2
        BY <2>2, <2>3
      <3>2. RL!ntfs_rl_are_mergeable(d, s)
        BY <1>4, <1>7
      <3> HIDE DEF d, s, g
      <3>3. LET h == RL!ntfs_rl_merge(d, s)
            IN  /\ h \in RunElement /\ h.vcn = d.vcn
                /\ Chain(<<h>>, d.vcn, s.vcn + s.length) /\ Splits(<<h>>, <<d>>, <<s>>)
        BY <2>4, <2>5, <3>1, <3>2, JoinRuns
      <3> QED
        BY <3>3 DEF g
    <2>8. head = f \o <<g>>
      <3>1. head = [P EXCEPT ![at - 1] = RL!ntfs_rl_merge(P[at - 1], M[1])]
        BY <1>7 DEF RL!JoinedLeft
      <3>2. P[at - 1] = d /\ at - 1 = Len(f) + 1 /\ f \in Seq(RunElement)
        BY <1>2, <2>2, <2>3 DEF Chain
      <3>3. [f \o <<q>> EXCEPT ![Len(f) + 1] = g] = f \o <<g>>
        <4> HIDE DEF f, q, g
        <4> QED
          BY <2>3, <2>7, <3>2, ReplacedLast
      <3> HIDE DEF P, f, q, head
      <3> QED
        BY <2>2, <2>3, <3>1, <3>2, <3>3
    <2>9. RL!One(left) = 1 /\ rest = t
      <3>1. RL!One(left) = 1
        BY <1>7 DEF RL!One
      <3>2. 1 + 1 = 2
        OBVIOUS
      <3> QED
        BY <3>1, <3>2
    <2>10. Len(head) = at - 1
      <3>1. f \in Seq(RunElement) /\ Len(f) = (at - 1) - 1
        BY <1>2, <2>3 DEF Chain
      <3> HIDE DEF f, g, head
      <3>2. Len(f \o <<g>>) = Len(f) + 1
        BY <3>1
      <3> QED
        BY <2>8, <3>1, <3>2
    <2> HIDE DEF left, head, rest, P, d, s, g, f, q, t
    <2>11. Chain(head, 0, s.vcn + s.length) /\ Splits(head, f, <<g>>)
      BY <2>2, <2>3, <2>7, <2>8, ChainConcat
    <2>12. ASSUME NEW v \in Nat, NEW l \in Int
           PROVE  Says(head, v, l) \/ Says(rest, v, l) <=> Says(P, v, l) \/ Says(M, v, l)
      <3>1. /\ Says(head, v, l) <=> Says(f, v, l) \/ Says(<<g>>, v, l)
            /\ Says(<<g>>, v, l) <=> Says(<<d>>, v, l) \/ Says(<<s>>, v, l)
            /\ Says(P, v, l) <=> Says(f, v, l) \/ Says(<<d>>, v, l)
            /\ Says(M, v, l) <=> Says(<<s>>, v, l) \/ Says(t, v, l)
            /\ rest = t
        BY <2>2, <2>3, <2>4, <2>7, <2>9, <2>11 DEF Splits
      <3> QED
        BY <3>1
    <2>13. Goal
      BY <1>7, <2>1, <2>4, <2>6, <2>9, <2>10, <2>11, <2>12 DEF s
    <2> QED
      BY <1>5, <2>13 DEF left, head, rest, P
  <1> QED
    BY <1>5, <1>6, <1>7

\* ntfs_rl_append and ntfs_rl_replace: the new runs and the ones behind at.
LEMMA RightJoin ==
  ASSUME NEW dst, IsRunlist(dst), NEW at \in 1 .. Len(dst) - 1,
         NEW M, NEW a, NEW b, Chain(M, a, b), Len(M) > 0, M[Len(M)].lcn >= -1,
         b = dst[at].vcn + dst[at].length
  PROVE  LET right == RL!MergesRight(dst, M, at)
             N == RL!JoinedRight(dst, M, at)
             back == SubSeq(dst, at + 1 + RL!One(right), Len(dst) - 1)
             Q == SubSeq(dst, at + 1, Len(dst) - 1)
         IN  /\ right \in BOOLEAN
             /\ \E c \in Nat : Chain(N, a, c) /\ Chain(back, c, EndVcn(dst))
             /\ Len(N) = Len(M) /\ N[1].lcn = M[1].lcn
             /\ SubSeq(dst, at + 1 + RL!One(right), Len(dst)) = back \o <<dst[Len(dst)]>>
             /\ \A v \in Nat, l \in Int :
                   Says(N, v, l) \/ Says(back, v, l) <=> Says(M, v, l) \/ Says(Q, v, l)
  <1> DEFINE right == RL!MergesRight(dst, M, at)
             N == RL!JoinedRight(dst, M, at)
             back == SubSeq(dst, at + 1 + RL!One(right), Len(dst) - 1)
             Q == SubSeq(dst, at + 1, Len(dst) - 1)
             Goal == /\ \E c \in Nat : Chain(N, a, c) /\ Chain(back, c, EndVcn(dst))
                     /\ Len(N) = Len(M) /\ N[1].lcn = M[1].lcn
                     /\ SubSeq(dst, at + 1 + RL!One(right), Len(dst)) = back \o <<dst[Len(dst)]>>
                     /\ \A v \in Nat, l \in Int :
                           Says(N, v, l) \/ Says(back, v, l) <=> Says(M, v, l) \/ Says(Q, v, l)
  <1>1. /\ Len(dst) \in Nat \ {0} /\ dst \in Seq(RunElement)
        /\ \A k \in 1 .. Len(dst) : dst[k] \in RunElement /\ dst[k].vcn \in Nat
                                    /\ dst[k].length \in Nat /\ dst[k].lcn \in Int
    BY RunsOfList DEF IsRunlist
  <1>2. /\ Chain(Q, b, EndVcn(dst)) /\ Len(Q) = Len(dst) - 1 - at
        /\ \A k \in 1 .. Len(dst) - 1 - at : Q[k] = dst[at + k]
        /\ SubSeq(dst, at + 1, Len(dst)) = Q \o <<dst[Len(dst)]>>
    BY ListSplit
  <1>3. Len(M) \in Nat \ {0} /\ M \in Seq(RunElement) /\ a \in Nat /\ b \in Nat
    BY ChainRuns DEF Chain
  <1>4. right <=> RL!ntfs_rl_are_mergeable(M[Len(M)], dst[at + 1])
    <2>1. at < Len(dst)
      BY <1>1
    <2> QED
      BY <2>1 DEF RL!MergesRight, RL!Last
  <1>5. right \in BOOLEAN
    BY DEF RL!MergesRight, RL!ntfs_rl_are_mergeable
  <1>6. CASE ~right
    <2>1. N = M /\ RL!One(right) = 0
      BY <1>6 DEF RL!JoinedRight, RL!One
    <2>2. at + 1 + 0 = at + 1
      OBVIOUS
    <2>3. back = Q /\ SubSeq(dst, at + 1 + RL!One(right), Len(dst)) = SubSeq(dst, at + 1, Len(dst))
      BY <2>1, <2>2
    <2> HIDE DEF right, N, back, Q
    <2>4. Goal
      BY <1>2, <1>3, <2>1, <2>3
    <2> QED
      BY <1>5, <2>4 DEF right, N, back, Q
  <1>7. CASE right
    <2> DEFINE d == dst[at + 1]
               s == M[Len(M)]
               g == RL!ntfs_rl_merge(s, d)
               f == SubSeq(M, 1, Len(M) - 1)
               t == SubSeq(Q, 2, Len(Q))
    <2>1. RL!ntfs_rl_are_mergeable(s, d)
      BY <1>4, <1>7
    <2>2. /\ Chain(f, a, s.vcn) /\ Len(f) = Len(M) - 1 /\ M = f \o <<s>>
          /\ s \in RunElement /\ s.length > 0 /\ s.lcn >= -2 /\ s.vcn + s.length = b
          /\ Splits(M, f, <<s>>)
      BY ChainEnds
    <2>3. at + 1 \in 1 .. Len(dst) - 1
      <3>1. at + 1 \in 1 .. Len(dst)
        BY <1>1
      <3>2. d.lcn >= -1
        <4>1. s.lcn \in Int /\ d.lcn \in Int /\ s.lcn >= -1
          BY <1>1, <2>2, <3>1 DEF RunElement
        <4> QED
          BY <2>1, <4>1 DEF RL!ntfs_rl_are_mergeable, RL!LCN_RL_NOT_MAPPED, RL!LCN_HOLE
      <3>3. dst[Len(dst)].lcn \in {-2, -3}
        BY DEF IsRunlist
      <3>4. at + 1 # Len(dst)
        BY <3>2, <3>3
      <3> QED
        BY <1>1, <3>1, <3>4
    <2>4. Len(Q) > 0 /\ Q[1] = d
      <3>1. 1 \in 1 .. Len(dst) - 1 - at /\ Len(dst) - 1 - at > 0
        BY <1>1, <2>3
      <3> QED
        BY <1>2, <3>1
    <2>5. /\ Chain(t, d.vcn + d.length, EndVcn(dst)) /\ Len(t) = Len(Q) - 1
          /\ d \in RunElement /\ d.length > 0 /\ d.lcn >= -2 /\ d.vcn = b
          /\ Splits(Q, <<d>>, t)
      <3> HIDE DEF Q, d
      <3>1. /\ Chain(SubSeq(Q, 2, Len(Q)), Q[1].vcn + Q[1].length, EndVcn(dst))
            /\ Len(SubSeq(Q, 2, Len(Q))) = Len(Q) - 1
            /\ Q[1] \in RunElement /\ Q[1].length > 0 /\ Q[1].lcn >= -2 /\ Q[1].vcn = b
            /\ Splits(Q, <<Q[1]>>, SubSeq(Q, 2, Len(Q)))
        <4>1. Chain(Q, b, EndVcn(dst)) /\ Len(Q) > 0
          BY <1>2, <2>4
        <4>2. /\ Chain(SubSeq(Q, 2, Len(Q)), Q[1].vcn + Q[1].length, EndVcn(dst))
              /\ Len(SubSeq(Q, 2, Len(Q))) = Len(Q) - 1
          BY ONLY <4>1, ChainEnds
        <4>3. /\ Q[1] \in RunElement /\ Q[1].length > 0 /\ Q[1].lcn >= -2 /\ Q[1].vcn = b
              /\ Splits(Q, <<Q[1]>>, SubSeq(Q, 2, Len(Q)))
          BY ONLY <4>1, ChainEnds
        <4> QED
          BY <4>2, <4>3
      <3> QED
        BY <2>4, <3>1
    <2>6. /\ g \in RunElement /\ g.vcn = s.vcn /\ g.lcn = s.lcn
          /\ Chain(<<g>>, s.vcn, d.vcn + d.length) /\ Splits(<<g>>, <<s>>, <<d>>)
      <3> HIDE DEF d, s, g
      <3>1. LET h == RL!ntfs_rl_merge(s, d)
            IN  /\ h \in RunElement /\ h.vcn = s.vcn /\ h.lcn = s.lcn
                /\ Chain(<<h>>, s.vcn, d.vcn + d.length) /\ Splits(<<h>>, <<s>>, <<d>>)
        BY <2>1, <2>2, <2>5, JoinRuns
      <3> QED
        BY <3>1 DEF g
    <2>7. f \in Seq(RunElement) /\ Len(f) \in Nat
      <3> HIDE DEF f, s
      <3> QED
        BY <2>2, ChainRuns
    <2>8. N = f \o <<g>>
      <3>1. N = [M EXCEPT ![Len(M)] = RL!ntfs_rl_merge(M[Len(M)], dst[at + 1])]
        BY <1>7 DEF RL!JoinedRight
      <3>2. Len(M) = Len(f) + 1
        <4> HIDE DEF f
        <4> QED
          BY <1>3, <2>2
      <3>3. [f \o <<s>> EXCEPT ![Len(f) + 1] = g] = f \o <<g>>
        <4> HIDE DEF f, s, g
        <4> QED
          BY <2>2, <2>6, <2>7, ReplacedLast
      <3> HIDE DEF f, N
      <3> QED
        BY <2>2, <3>1, <3>2, <3>3
    <2>9. RL!One(right) = 1
      BY <1>7 DEF RL!One
    <2>10. back = t /\ SubSeq(dst, at + 1 + RL!One(right), Len(dst)) = back \o <<dst[Len(dst)]>>
      <3> DEFINE x == SubSeq(dst, (at + 1) + 1, Len(dst) - 1)
      <3>1. /\ Chain(x, d.vcn + d.length, EndVcn(dst)) /\ Len(x) = Len(dst) - 1 - (at + 1)
            /\ \A k \in 1 .. Len(dst) - 1 - (at + 1) : x[k] = dst[(at + 1) + k]
            /\ SubSeq(dst, (at + 1) + 1, Len(dst)) = x \o <<dst[Len(dst)]>>
        BY <2>3, ListSplit
      <3>2. back = x /\ SubSeq(dst, at + 1 + RL!One(right), Len(dst)) = SubSeq(dst, (at + 1) + 1, Len(dst))
        BY <2>9
      <3>3. t = x
        <4>1. /\ x \in Seq(RunElement) /\ t \in Seq(RunElement) /\ Q \in Seq(RunElement)
              /\ Len(t) = Len(x)
          <5>1. Len(Q) = Len(dst) - 1 - at /\ Len(dst) \in Nat /\ at \in Nat
            BY <1>1, <1>2
          <5> HIDE DEF x, t, Q, d
          <5>2. Len(t) = Len(x)
            BY <2>5, <3>1, <5>1
          <5> QED
            BY <1>2, <2>5, <3>1, <5>2, ChainRuns
        <4>2. \A k \in 1 .. Len(t) : t[k] = Q[1 + k]
          <5>1. Len(Q) \in Nat /\ Len(t) = Len(Q) - 1
            BY <2>5, <4>1
          <5> HIDE DEF Q
          <5> QED
            BY <4>1, <5>1
        <4>3. ASSUME NEW k \in 1 .. Len(t) PROVE t[k] = x[k]
          <5>1. 1 + k \in 1 .. Len(dst) - 1 - at /\ k \in 1 .. Len(dst) - 1 - (at + 1)
                /\ at + (1 + k) = (at + 1) + k
            <6>1. \A n \in Nat : \A i \in 1 .. n - 1 : \A j \in 1 .. n - 1 - (i + 1) :
                     1 + j \in 1 .. n - 1 - i /\ i + (1 + j) = (i + 1) + j
              BY ONLY TRUE
            <6>2. Len(dst) \in Nat /\ k \in 1 .. Len(dst) - 1 - (at + 1)
              <7> HIDE DEF x, t
              <7> QED
                BY <1>1, <3>1, <4>1
            <6> QED
              BY ONLY <6>1, <6>2, at \in 1 .. Len(dst) - 1
          <5> HIDE DEF Q, x, t
          <5> QED
            BY <1>2, <3>1, <4>2, <5>1
        <4> HIDE DEF x, t
        <4> QED
          BY <4>1, <4>3, SameSeq
      <3> QED
        BY <3>1, <3>2, <3>3
    <2>11. Len(N) = Len(M) /\ N[1].lcn = M[1].lcn
      <3> HIDE DEF f, g, s, N
      <3>1. Len(f \o <<g>>) = Len(f) + 1
        BY <2>6, <2>7
      <3>2. Len(N) = Len(M)
        BY <1>3, <2>2, <2>8, <3>1
      <3>3. CASE Len(f) = 0
        <4>1. Len(M) = 1
          BY <1>3, <2>2, <3>3
        <4>2. N[1] = g
          BY <2>6, <2>7, <2>8, <3>3
        <4>3. M[1] = s
          BY <4>1 DEF s
        <4> QED
          BY <2>6, <3>2, <4>2, <4>3
      <3>4. CASE Len(f) # 0
        <4>1. 1 \in 1 .. Len(f)
          BY <2>7, <3>4
        <4>2. (f \o <<g>>)[1] = f[1] /\ (f \o <<s>>)[1] = f[1]
          BY <2>2, <2>6, <2>7, <4>1
        <4> QED
          BY <2>2, <2>8, <3>2, <4>2
      <3> QED
        BY <3>3, <3>4
    <2> HIDE DEF right, N, back, Q, d, s, g, f, t
    <2>12. Chain(N, a, d.vcn + d.length) /\ Splits(N, f, <<g>>)
      BY <2>2, <2>6, <2>8, ChainConcat
    <2>13. ASSUME NEW v \in Nat, NEW l \in Int
           PROVE  Says(N, v, l) \/ Says(back, v, l) <=> Says(M, v, l) \/ Says(Q, v, l)
      <3>1. /\ Says(N, v, l) <=> Says(f, v, l) \/ Says(<<g>>, v, l)
            /\ Says(<<g>>, v, l) <=> Says(<<s>>, v, l) \/ Says(<<d>>, v, l)
            /\ Says(M, v, l) <=> Says(f, v, l) \/ Says(<<s>>, v, l)
            /\ Says(Q, v, l) <=> Says(<<d>>, v, l) \/ Says(t, v, l)
            /\ back = t
        BY <2>2, <2>5, <2>6, <2>10, <2>12 DEF Splits
      <3> QED
        BY <3>1
    <2>14. \E c \in Nat : Chain(N, a, c) /\ Chain(back, c, EndVcn(dst))
      <3>1. d.vcn + d.length \in Nat
        BY <2>12 DEF Chain
      <3> QED
        BY <2>5, <2>10, <2>12, <3>1
    <2>15. Goal
      BY <2>10, <2>11, <2>13, <2>14
    <2> QED
      BY <1>5, <2>15 DEF right, N, back, Q
  <1> QED
    BY <1>5, <1>6, <1>7

\* Concatenation is associative.
LEMMA Associative ==
  ASSUME NEW s \in Seq(RunElement), NEW t \in Seq(RunElement), NEW u \in Seq(RunElement)
  PROVE  (s \o t) \o u = s \o (t \o u)
  OBVIOUS

\* The end marker of a list is where it should be already.
LEMMA MarkerFixed ==
  ASSUME NEW rl, IsRunlist(rl), NEW k \in Nat, k >= 2
  PROVE  RL!FixEndMarker(rl, k) = rl
  <1>1. /\ rl \in Seq(RunElement) /\ Len(rl) \in Nat
        /\ \A i \in 1 .. Len(rl) : rl[i] \in RunElement
    BY RunsOfList DEF IsRunlist
  <1>2. CASE k <= Len(rl)
    <2>1. k \in 1 .. Len(rl) /\ k - 1 \in 1 .. Len(rl) - 1 /\ (k - 1) + 1 = k
      BY <1>1, <1>2
    <2>2. rl[k - 1].vcn + rl[k - 1].length = rl[k].vcn
      BY <2>1 DEF IsRunlist
    <2>3. [rl[k] EXCEPT !.vcn = rl[k - 1].vcn + rl[k - 1].length] = rl[k]
      BY <1>1, <2>1, <2>2 DEF RunElement
    <2>4. [rl EXCEPT ![k] = [rl[k] EXCEPT !.vcn = rl[k - 1].vcn + rl[k - 1].length]] = rl
      BY <1>1, <2>1, <2>3
    <2> QED
      BY <1>2, <2>4 DEF RL!FixEndMarker, RL!EndOf
  <1>3. CASE ~(k <= Len(rl))
    BY <1>3 DEF RL!FixEndMarker
  <1> QED
    BY <1>2, <1>3

-----------------------------------------------------------------------------
(* What a merged list has to say.                                          *)

\* The runs M from VCN a to VCN b have been put into the list d: behind its end nothing
\* is known but them.
After(d, M, a, b, v, l) ==
    \/ a <= v /\ v < b /\ Says(M, v, l)
    \/ ~(a <= v /\ v < b) /\ v < EndVcn(d) /\ Says(RunsOf(d), v, l)
    \/ ~(a <= v /\ v < b) /\ v >= EndVcn(d) /\ l = -2

MergedList(r, d, M, a, b, e) ==
    /\ IsRunlist(r) /\ r[1].vcn = 0 /\ EndVcn(r) = e
    /\ \A v \in Nat, l \in Int : Says(RunsOf(r), v, l) <=> v < e /\ After(d, M, a, b, v, l)

\* The new runs are in the run at, a hole or one that is not mapped.
InRun(dst, at, M, a, b) ==
    /\ IsRunlist(dst) /\ dst[1].vcn = 0 /\ at \in 1 .. Len(dst) - 1 /\ dst[at].lcn \in {-1, -2}
    /\ Chain(M, a, b) /\ Len(M) > 0 /\ \A i \in 1 .. Len(M) : M[i].lcn >= -1
    /\ dst[at].vcn <= a /\ b <= dst[at].vcn + dst[at].length

\* What is left of that run says what it said.
Left(h, a, b, v, l) ==
    l = h.lcn /\ ((h.vcn <= v /\ v < a) \/ (b <= v /\ v < h.vcn + h.length))

\* The list with the new runs and what is left of the run around them.
LEMMA HolePieces ==
  ASSUME NEW dst, NEW at, NEW M, NEW a, NEW b, InRun(dst, at, M, a, b),
         NEW K, Chain(K, 0, EndVcn(dst)),
         \A v \in Nat, l \in Int :
            Says(K, v, l) <=> \/ Says(SubSeq(dst, 1, at - 1), v, l)
                              \/ Says(M, v, l)
                              \/ Left(dst[at], a, b, v, l)
                              \/ Says(SubSeq(dst, at + 1, Len(dst) - 1), v, l)
  PROVE  MergedList(K \o <<dst[Len(dst)]>>, dst, M, a, b, EndVcn(dst))
  <1> DEFINE P == SubSeq(dst, 1, at - 1)
             Q == SubSeq(dst, at + 1, Len(dst) - 1)
             h == dst[at]
             t == dst[Len(dst)]
             e == EndVcn(dst)
             r == K \o <<t>>
  <1>1. /\ IsRunlist(dst) /\ dst[1].vcn = 0 /\ at \in 1 .. Len(dst) - 1 /\ h.lcn \in {-1, -2}
        /\ Chain(M, a, b) /\ h.vcn <= a /\ b <= h.vcn + h.length
    BY DEF InRun
  <1>2. /\ Chain(P, 0, h.vcn) /\ Chain(Q, h.vcn + h.length, e)
        /\ h \in RunElement /\ h.length > 0 /\ h.lcn >= -2
        /\ \A v \in Nat, l \in Int :
              Says(RunsOf(dst), v, l) <=> Says(P, v, l) \/ Says(<<h>>, v, l) \/ Says(Q, v, l)
    BY <1>1, ListSplit
  <1>3. /\ t \in RunElement /\ t.vcn = e /\ t.length = 0 /\ t.lcn \in {-2, -3}
    <2>1. Len(dst) \in Nat \ {0} /\ \A i \in 1 .. Len(dst) : dst[i] \in RunElement
      BY <1>1, RunsOfList
    <2>2. Len(dst) \in 1 .. Len(dst)
      BY <2>1
    <2> QED
      BY <1>1, <2>1, <2>2 DEF IsRunlist, EndVcn
  <1>4. /\ h.vcn \in Nat /\ h.length \in Nat /\ h.lcn \in Int /\ a \in Nat /\ b \in Nat /\ e \in Nat
        /\ a <= b
    <2>1. a <= b
      BY <1>1, ChainOrder
    <2> QED
      BY <1>1, <1>2, <2>1 DEF RunElement, Chain
  <1> HIDE DEF P, Q, h, t, e
  <1>5. IsRunlist(r) /\ RunsOf(r) = K /\ r[1].vcn = 0 /\ EndVcn(r) = e
    <2>1. Chain(K, 0, e)
      BY DEF e
    <2> QED
      BY <1>3, <2>1, ListOfRuns
  <1>6. ASSUME NEW v \in Nat, NEW l \in Int
        PROVE  Says(K, v, l) <=> v < e /\ After(dst, M, a, b, v, l)
    <2>1. Says(K, v, l) <=> Says(P, v, l) \/ Says(M, v, l) \/ Left(h, a, b, v, l) \/ Says(Q, v, l)
      BY DEF P, Q, h
    <2>2. Says(<<h>>, v, l) <=> h.vcn <= v /\ v < h.vcn + h.length /\ l = h.lcn
      <3>1. LcnIn(h, v) = h.lcn
        BY <1>1, <1>4, SMTT(40) DEF LcnIn
      <3>2. Says(<<h>>, v, l) <=> h.vcn <= v /\ v < h.vcn + h.length /\ l = LcnIn(h, v)
        BY <1>2, ChainOne
      <3> QED
        BY <3>1, <3>2
    <2>3. /\ Says(P, v, l) => v < h.vcn
          /\ Says(Q, v, l) => h.vcn + h.length <= v
          /\ Says(M, v, l) => a <= v /\ v < b
          /\ Says(K, v, l) => v < e
      <3>1. Chain(K, 0, e)
        BY DEF e
      <3> QED
        BY <1>1, <1>2, <3>1, ChainSays
    <2>4. ASSUME Says(K, v, l) PROVE v < e /\ After(dst, M, a, b, v, l)
      <3>1. CASE Says(M, v, l)
        BY <2>3, <2>4, <3>1 DEF After
      <3>2. CASE Says(P, v, l) \/ Says(Q, v, l) \/ Left(h, a, b, v, l)
        <4>1. ~(a <= v /\ v < b)
          BY <1>1, <1>4, <2>3, <3>2 DEF Left
        <4>2. Says(RunsOf(dst), v, l)
          <5>1. CASE Left(h, a, b, v, l)
            <6>1. h.vcn <= v /\ v < h.vcn + h.length /\ l = h.lcn
              BY <1>1, <1>4, <5>1 DEF Left
            <6> QED
              BY <1>2, <2>2, <6>1
          <5> QED
            BY <1>2, <3>2, <5>1
        <4> QED
          BY <2>3, <2>4, <4>1, <4>2 DEF After, e
      <3> QED
        BY <2>1, <2>4, <3>1, <3>2
    <2>5. ASSUME v < e, After(dst, M, a, b, v, l) PROVE Says(K, v, l)
      <3>1. CASE Says(M, v, l)
        BY <2>1, <3>1
      <3>2. CASE ~(a <= v /\ v < b) /\ Says(RunsOf(dst), v, l)
        <4>1. CASE Says(<<h>>, v, l)
          <5>1. Left(h, a, b, v, l)
            BY <1>4, <2>2, <3>2, <4>1 DEF Left
          <5> QED
            BY <2>1, <5>1
        <4> QED
          BY <1>2, <2>1, <3>2, <4>1
      <3>3. ~(v >= EndVcn(dst))
        BY <1>4, <2>5 DEF e
      <3> QED
        BY <2>5, <3>1, <3>2, <3>3 DEF After
    <2> QED
      BY <2>4, <2>5
  <1>7. MergedList(r, dst, M, a, b, e)
    BY <1>5, <1>6 DEF MergedList
  <1> QED
    BY <1>7 DEF t, e

\* The run is replaced altogether.
LEMMA ReplaceInRun ==
  ASSUME NEW dst, NEW at, NEW M, NEW a, NEW b, InRun(dst, at, M, a, b),
         dst[at].vcn = a, dst[at].vcn + dst[at].length = b
  PROVE  MergedList(RL!ntfs_rl_replace(dst, M, at), dst, M, a, b, EndVcn(dst))
  <1> DEFINE right == RL!MergesRight(dst, M, at)
             N == RL!JoinedRight(dst, M, at)
             back == SubSeq(dst, at + 1 + RL!One(right), Len(dst) - 1)
             P == SubSeq(dst, 1, at - 1)
             Q == SubSeq(dst, at + 1, Len(dst) - 1)
             t == dst[Len(dst)]
  <1>1. /\ IsRunlist(dst) /\ dst[1].vcn = 0 /\ at \in 1 .. Len(dst) - 1
        /\ Chain(M, a, b) /\ Len(M) > 0 /\ \A i \in 1 .. Len(M) : M[i].lcn >= -1
    BY DEF InRun
  <1>2. /\ Len(dst) \in Nat \ {0} /\ at \in Nat \ {0} /\ Len(M) \in Nat \ {0} /\ at \in 1 .. Len(dst)
        /\ 1 \in 1 .. Len(M) /\ Len(M) \in 1 .. Len(M) /\ Len(dst) \in 1 .. Len(dst)
        /\ a \in Nat /\ b \in Nat
    <2>1. Len(dst) \in Nat \ {0} /\ Len(M) \in Nat /\ a \in Nat /\ b \in Nat
      BY <1>1, RunsOfList, ChainRuns DEF Chain
    <2> QED
      BY <1>1, <2>1
  <1>3. t \in RunElement
    BY <1>1, <1>2, RunsOfList
  <1>4. /\ right \in BOOLEAN
        /\ \E c \in Nat : Chain(N, a, c) /\ Chain(back, c, EndVcn(dst))
        /\ Len(N) = Len(M) /\ N[1].lcn = M[1].lcn
        /\ SubSeq(dst, at + 1 + RL!One(right), Len(dst)) = back \o <<t>>
        /\ \A v \in Nat, l \in Int :
              Says(N, v, l) \/ Says(back, v, l) <=> Says(M, v, l) \/ Says(Q, v, l)
    <2>1. M[Len(M)].lcn >= -1 /\ b = dst[at].vcn + dst[at].length
      BY <1>1, <1>2
    <2> QED
      BY <1>1, <2>1, RightJoin
  <1>5. PICK c \in Nat : Chain(N, a, c) /\ Chain(back, c, EndVcn(dst))
    BY <1>4
  <1> DEFINE left == RL!MergesLeft(dst, N, at)
             head == RL!JoinedLeft(dst, N, at)
             rest == SubSeq(N, 1 + RL!One(left), Len(N))
             m == IF left THEN N[1].vcn + N[1].length ELSE a
             r == head \o rest \o SubSeq(dst, at + 1 + RL!One(right), Len(dst))
  <1>6. /\ left \in BOOLEAN /\ (left => at > 1)
        /\ Chain(head, 0, IF left THEN m ELSE dst[at].vcn) /\ Chain(rest, m, c)
        /\ Len(head) = at - 1 /\ Len(rest) = Len(N) - RL!One(left)
        /\ \A v \in Nat, l \in Int :
              Says(head, v, l) \/ Says(rest, v, l) <=> Says(P, v, l) \/ Says(N, v, l)
    <2>1. N[1].lcn >= -1 /\ Len(N) > 0
      BY <1>1, <1>2, <1>4
    <2> HIDE DEF N, P, left, head, rest, m
    <2> QED
      BY <1>1, <1>2, <1>5, <2>1, LeftJoin DEF P, left, head, rest, m
  <1>7. RL!ntfs_rl_replace(dst, M, at) = RL!FixEndMarker(r, at + Len(N) - RL!One(left))
    <2>1. RL!One(right) \in Nat
      BY DEF RL!One
    <2>2. at + RL!One(right) + 1 = at + 1 + RL!One(right)
      BY <1>2, <2>1
    <2> HIDE DEF N, right
    <2>3. RL!Replaced(dst, N, at, RL!One(right)) = RL!FixEndMarker(r, at + Len(N) - RL!One(left))
      BY <2>2 DEF RL!Replaced
    <2> QED
      BY <2>3 DEF N, right, RL!ntfs_rl_replace
  <1>8. at + Len(N) - RL!One(left) \in Nat /\ at + Len(N) - RL!One(left) >= 2
    <2>1. Len(N) \in Nat \ {0}
      BY <1>2, <1>4
    <2> HIDE DEF N, left
    <2>2. CASE left
      <3>1. at > 1 /\ RL!One(left) = 1
        BY <1>6, <2>2 DEF RL!One
      <3> QED
        BY <1>2, <2>1, <3>1
    <2>3. CASE ~left
      <3>1. RL!One(left) = 0
        BY <2>3 DEF RL!One
      <3> QED
        BY <1>2, <2>1, <3>1
    <2> QED
      BY <2>2, <2>3
  <1>9. Chain(head, 0, m)
    BY <1>6
  <1> DEFINE K == (head \o rest) \o back
  <1>10. r = K \o <<t>>
    <2>1. r = (head \o rest) \o (back \o <<t>>)
      BY <1>4
    <2>2. head \in Seq(RunElement) /\ rest \in Seq(RunElement) /\ back \in Seq(RunElement)
      BY <1>5, <1>6, ChainRuns
    <2> HIDE DEF head, rest, back, r, t
    <2>3. head \o rest \in Seq(RunElement) /\ <<t>> \in Seq(RunElement)
      BY <1>3, <2>2
    <2> QED
      BY <2>1, <2>2, <2>3, Associative
  <1> HIDE DEF right, N, back, left, head, rest, m, r, P, Q, t
  <1>11. Chain(head \o rest, 0, c) /\ Splits(head \o rest, head, rest)
    BY <1>6, <1>9, ChainConcat
  <1>12. Chain(K, 0, EndVcn(dst)) /\ Splits(K, head \o rest, back)
    BY <1>5, <1>11, ChainConcat
  <1> HIDE DEF K
  <1>13. ASSUME NEW v \in Nat, NEW l \in Int
         PROVE  Says(K, v, l) <=> \/ Says(P, v, l) \/ Says(M, v, l)
                                  \/ Left(dst[at], a, b, v, l) \/ Says(Q, v, l)
    <2>1. ~Left(dst[at], a, b, v, l)
      BY <1>2 DEF Left
    <2>2. Says(K, v, l) <=> Says(head, v, l) \/ Says(rest, v, l) \/ Says(back, v, l)
      BY <1>11, <1>12 DEF Splits
    <2>3. Says(head, v, l) \/ Says(rest, v, l) <=> Says(P, v, l) \/ Says(N, v, l)
      BY <1>6
    <2>4. Says(N, v, l) \/ Says(back, v, l) <=> Says(M, v, l) \/ Says(Q, v, l)
      BY <1>4
    <2> QED
      BY <2>1, <2>2, <2>3, <2>4
  <1>14. MergedList(r, dst, M, a, b, EndVcn(dst))
    <2>1. MergedList(K \o <<dst[Len(dst)]>>, dst, M, a, b, EndVcn(dst))
      BY <1>12, <1>13, HolePieces DEF P, Q
    <2> QED
      BY <1>10, <2>1 DEF t
  <1>15. RL!FixEndMarker(r, at + Len(N) - RL!One(left)) = r
    <2>1. IsRunlist(r)
      BY <1>14 DEF MergedList
    <2> QED
      BY <1>8, <2>1, MarkerFixed
  <1> QED
    BY <1>7, <1>14, <1>15

\* A run between the ones before and behind it.
Around(A, r, W) == A \o <<r>> \o W

\* Its elements, and what replacing that run gives.
LEMMA AroundIs ==
  ASSUME NEW A \in Seq(RunElement), NEW W \in Seq(RunElement), NEW r \in RunElement
  PROVE  /\ \A x \in RunElement : [Around(A, r, W) EXCEPT ![Len(A) + 1] = x] = Around(A, x, W)
         /\ Around(A, r, W) \in Seq(RunElement) /\ Len(Around(A, r, W)) = Len(A) + 1 + Len(W)
         /\ Around(A, r, W)[Len(A) + 1] = r
         /\ \A i \in 1 .. Len(A) : Around(A, r, W)[i] = A[i]
         /\ \A i \in 1 .. Len(W) : Around(A, r, W)[Len(A) + 1 + i] = W[i]
  <1>1. /\ Around(A, r, W) \in Seq(RunElement) /\ Len(Around(A, r, W)) = Len(A) + 1 + Len(W)
        /\ Around(A, r, W)[Len(A) + 1] = r
        /\ \A i \in 1 .. Len(A) : Around(A, r, W)[i] = A[i]
        /\ \A i \in 1 .. Len(W) : Around(A, r, W)[Len(A) + 1 + i] = W[i]
    BY ReplacedAt DEF Around
  <1>2. ASSUME NEW x \in RunElement
        PROVE  [Around(A, r, W) EXCEPT ![Len(A) + 1] = x] = Around(A, x, W)
    BY ReplacedAt DEF Around
  <1> QED
    BY <1>1, <1>2

\* A run is cut where the next one starts.
LEMMA FilledUp ==
  ASSUME NEW A \in Seq(RunElement), NEW W \in Seq(RunElement), NEW h \in RunElement,
         Len(W) > 0, W[1].vcn >= h.vcn
  PROVE  LET x == [h EXCEPT !.length = W[1].vcn - h.vcn]
         IN  /\ RL!FillUpTo(Around(A, h, W), Len(A) + 1) = Around(A, x, W)
             /\ x \in RunElement /\ x.vcn = h.vcn /\ x.lcn = h.lcn /\ x.length = W[1].vcn - h.vcn
  <1> DEFINE u == Around(A, h, W)
             x == [h EXCEPT !.length = W[1].vcn - h.vcn]
  <1>1. Len(A) \in Nat /\ Len(W) \in Nat \ {0} /\ 1 \in 1 .. Len(W) /\ W[1] \in RunElement
    OBVIOUS
  <1>2. W[1].vcn \in Nat /\ h.vcn \in Nat /\ W[1].vcn - h.vcn \in Nat
    BY <1>1 DEF RunElement
  <1>3. x \in RunElement /\ x.vcn = h.vcn /\ x.lcn = h.lcn /\ x.length = W[1].vcn - h.vcn
    BY <1>2, RunChanged
  <1> HIDE DEF x
  <1>4. /\ [u EXCEPT ![Len(A) + 1] = x] = Around(A, x, W)
        /\ u[Len(A) + 1] = h /\ u[Len(A) + 1 + 1] = W[1]
    BY <1>1, <1>3, AroundIs
  <1> HIDE DEF u
  <1>5. RL!FillUpTo(u, Len(A) + 1)
          = [u EXCEPT ![Len(A) + 1] = [u[Len(A) + 1] EXCEPT !.length = u[Len(A) + 1 + 1].vcn - u[Len(A) + 1].vcn]]
    BY DEF RL!FillUpTo
  <1>6. RL!FillUpTo(u, Len(A) + 1) = Around(A, x, W)
    BY <1>4, <1>5 DEF x
  <1> QED
    BY <1>3, <1>6 DEF u, x

\* A run is moved to the end of the one before it, and ends where it ended.
LEMMA MovedUp ==
  ASSUME NEW A, NEW b, Chain(A, 0, b), Len(A) > 0, NEW W \in Seq(RunElement), NEW h \in RunElement,
         Len(W) > 0, W[1].vcn >= b
  PROVE  LET x == [vcn |-> b, lcn |-> h.lcn, length |-> W[1].vcn - b]
         IN  /\ RL!FillUpTo(RL!Moved(Around(A, h, W), Len(A) + 1), Len(A) + 1) = Around(A, x, W)
             /\ x \in RunElement /\ Around(A, h, W)[Len(A) + 1] = h
  <1> DEFINE u == Around(A, h, W)
             g == [h EXCEPT !.vcn = b]
             x == [vcn |-> b, lcn |-> h.lcn, length |-> W[1].vcn - b]
             y == [g EXCEPT !.length = W[1].vcn - g.vcn]
  <1>1. /\ A \in Seq(RunElement) /\ Len(A) \in Nat \ {0} /\ Len(A) \in 1 .. Len(A) /\ b \in Nat
        /\ b = A[Len(A)].vcn + A[Len(A)].length
    <2>1. A \in Seq(RunElement) /\ Len(A) \in Nat /\ b \in Nat
      BY ChainRuns DEF Chain
    <2> QED
      BY <2>1 DEF Chain
  <1>2. g \in RunElement /\ g.vcn = b /\ g.lcn = h.lcn
    BY <1>1, RunChanged
  <1> HIDE DEF g
  <1>3. /\ [u EXCEPT ![Len(A) + 1] = g] = Around(A, g, W)
        /\ u[Len(A) + 1] = h /\ u[Len(A)] = A[Len(A)]
    <2>1. \A r \in RunElement : [u EXCEPT ![Len(A) + 1] = r] = Around(A, r, W)
      BY <1>1, AroundIs
    <2>2. u[Len(A) + 1] = h /\ \A i \in 1 .. Len(A) : u[i] = A[i]
      BY <1>1, AroundIs
    <2> HIDE DEF u
    <2> QED
      BY <1>1, <1>2, <2>1, <2>2
  <1>4. (Len(A) + 1) - 1 = Len(A)
    BY <1>1
  <1> HIDE DEF u
  <1>5. RL!Moved(u, Len(A) + 1) = Around(A, g, W)
    BY <1>1, <1>3, <1>4 DEF RL!Moved, RL!EndOf, g
  <1>6. /\ RL!FillUpTo(Around(A, g, W), Len(A) + 1) = Around(A, y, W)
        /\ y \in RunElement /\ y.vcn = g.vcn /\ y.lcn = g.lcn /\ y.length = W[1].vcn - g.vcn
    <2>1. W[1].vcn >= g.vcn
      BY <1>2
    <2> QED
      BY <1>1, <1>2, <2>1, FilledUp
  <1>7. y = x
    <2> HIDE DEF y
    <2>1. \A r \in RunElement : r = [vcn |-> r.vcn, lcn |-> r.lcn, length |-> r.length]
      BY DEF RunElement
    <2>2. y = [vcn |-> y.vcn, lcn |-> y.lcn, length |-> y.length]
      BY <1>6, <2>1
    <2>3. y.vcn = b /\ y.lcn = h.lcn /\ y.length = W[1].vcn - b
      BY <1>2, <1>6
    <2> QED
      BY <2>2, <2>3
  <1> QED
    BY <1>3, <1>5, <1>6, <1>7 DEF u

\* The list around the run at.
LEMMA AroundRun ==
  ASSUME NEW dst, NEW at, NEW M, NEW a, NEW b, InRun(dst, at, M, a, b)
  PROVE  LET h == dst[at]
             t == dst[Len(dst)]
             P == SubSeq(dst, 1, at - 1)
             Q == SubSeq(dst, at + 1, Len(dst) - 1)
             W == SubSeq(dst, at + 1, Len(dst))
         IN  /\ Chain(P, 0, h.vcn) /\ Len(P) = at - 1
             /\ Chain(Q, h.vcn + h.length, EndVcn(dst))
             /\ h \in RunElement /\ h.length > 0 /\ t \in RunElement
             /\ h.vcn \in Nat /\ h.length \in Nat /\ a \in Nat /\ b \in Nat /\ a < b
             /\ SubSeq(dst, 1, at) = P \o <<h>>
             /\ SubSeq(dst, at, Len(dst)) = <<h>> \o W
             /\ W = Q \o <<t>> /\ W \in Seq(RunElement) /\ Len(W) > 0 /\ W[1].vcn = h.vcn + h.length
             /\ at \in 1 .. Len(dst) /\ at \in Nat \ {0} /\ Len(dst) \in Nat \ {0}
  <1> DEFINE h == dst[at]
             t == dst[Len(dst)]
             P == SubSeq(dst, 1, at - 1)
             Q == SubSeq(dst, at + 1, Len(dst) - 1)
             W == SubSeq(dst, at + 1, Len(dst))
  <1>1. /\ IsRunlist(dst) /\ dst[1].vcn = 0 /\ at \in 1 .. Len(dst) - 1
        /\ Chain(M, a, b) /\ Len(M) > 0
    BY DEF InRun
  <1>2. /\ Len(dst) \in Nat \ {0} /\ dst \in Seq(RunElement)
        /\ \A k \in 1 .. Len(dst) : dst[k] \in RunElement
    BY <1>1, RunsOfList DEF IsRunlist
  <1>3. /\ at \in 1 .. Len(dst) /\ at \in Nat \ {0} /\ Len(dst) \in 1 .. Len(dst)
        /\ at + 1 \in 1 .. Len(dst)
    BY <1>1, <1>2
  <1>4. /\ Chain(P, 0, h.vcn) /\ Len(P) = at - 1 /\ \A k \in 1 .. at - 1 : P[k] = dst[k]
        /\ Chain(Q, h.vcn + h.length, EndVcn(dst))
        /\ h \in RunElement /\ h.length > 0 /\ W = Q \o <<t>>
    BY <1>1, ListSplit
  <1>5. h.vcn \in Nat /\ h.length \in Nat /\ t \in RunElement
    BY <1>2, <1>3, <1>4 DEF RunElement
  <1>6. a \in Nat /\ b \in Nat /\ a < b
    <2>1. /\ Len(M) \in Nat \ {0} /\ a \in Nat /\ b \in Nat
          /\ \A i \in 1 .. Len(M) : M[i].vcn \in Nat /\ M[i].length \in Nat
      <3>1. Len(M) \in Nat /\ \A i \in 1 .. Len(M) : M[i].vcn \in Nat /\ M[i].length \in Nat
        BY <1>1, ChainRuns
      <3>2. a \in Nat /\ b \in Nat
        BY <1>1 DEF Chain
      <3> QED
        BY <1>1, <3>1, <3>2
    <2>2. 1 \in 1 .. Len(M)
      BY <2>1
    <2>3. M[1].length > 0 /\ a <= M[1].vcn /\ M[1].vcn + M[1].length <= b
      BY <1>1, <2>2, ChainOrder DEF Chain
    <2>4. M[1].vcn \in Nat /\ M[1].length \in Nat
      BY <2>1, <2>2
    <2> QED
      BY <2>1, <2>3, <2>4
  <1>7. W \in Seq(RunElement) /\ Len(W) = Len(dst) - at /\ \A k \in 1 .. Len(dst) - at : W[k] = dst[at + k]
    BY <1>2, <1>3
  <1>8. Len(W) > 0 /\ W[1].vcn = h.vcn + h.length
    <2>1. Len(dst) - at > 0 /\ 1 \in 1 .. Len(dst) - at
      BY <1>2, <1>3
    <2>2. h.vcn + h.length = dst[at + 1].vcn
      BY <1>1 DEF IsRunlist
    <2> HIDE DEF W
    <2> QED
      BY <1>7, <2>1, <2>2
  <1>9. SubSeq(dst, 1, at) = P \o <<h>>
    <2> DEFINE x == SubSeq(dst, 1, at)
               y == P \o <<h>>
    <2>1. x \in Seq(RunElement) /\ Len(x) = at /\ \A k \in 1 .. at : x[k] = dst[k]
      BY <1>2, <1>3
    <2>2. P \in Seq(RunElement)
      BY <1>4, ChainRuns
    <2>3. /\ y \in Seq(RunElement) /\ Len(y) = (at - 1) + 1 /\ y[(at - 1) + 1] = h
          /\ \A k \in 1 .. at - 1 : y[k] = P[k]
      <3>1. Len(P) = at - 1 /\ at - 1 \in Nat /\ h \in RunElement
        BY <1>3, <1>4
      <3> HIDE DEF P, h
      <3>2. /\ P \o <<h>> \in Seq(RunElement) /\ Len(P \o <<h>>) = Len(P) + 1
            /\ (P \o <<h>>)[Len(P) + 1] = h /\ \A k \in 1 .. Len(P) : (P \o <<h>>)[k] = P[k]
        BY <2>2, <3>1
      <3> QED
        BY <3>1, <3>2
    <2> HIDE DEF x, y, P
    <2>4. ASSUME NEW k \in 1 .. Len(x) PROVE x[k] = y[k]
      <3>1. k \in 1 .. at - 1 \/ k = (at - 1) + 1
        BY <1>3, <2>1
      <3>2. (at - 1) + 1 = at /\ k \in 1 .. at
        BY <1>3, <2>1
      <3> QED
        BY <1>4, <2>1, <2>3, <3>1, <3>2
    <2>5. Len(x) = Len(y)
      BY <1>3, <2>1, <2>3
    <2>6. x = y
      BY <2>1, <2>3, <2>4, <2>5, SameSeq
    <2> QED
      BY <2>6 DEF x, y, P
  <1>10. SubSeq(dst, at, Len(dst)) = <<h>> \o W
    <2> DEFINE x == SubSeq(dst, at, Len(dst))
               y == <<h>> \o W
               n == Len(dst) - at
    <2>1. x \in Seq(RunElement) /\ Len(x) = n + 1 /\ \A k \in 1 .. n + 1 : x[k] = dst[at + k - 1]
      BY <1>2, <1>3
    <2>2. n \in Nat
      BY <1>2, <1>3
    <2>3. /\ y \in Seq(RunElement) /\ Len(y) = n + 1 /\ y[1] = h
          /\ \A k \in 1 .. n : y[1 + k] = W[k]
      <3> HIDE DEF W, h
      <3>1. h \in RunElement /\ W \in Seq(RunElement) /\ Len(W) = n
        BY <1>4, <1>7
      <3> HIDE DEF n
      <3> QED
        BY <2>2, <3>1
    <2> HIDE DEF x, y, W
    <2>4. ASSUME NEW k \in 1 .. n + 1 PROVE x[k] = y[k]
      <3>1. k = 1 \/ (k - 1 \in 1 .. n /\ 1 + (k - 1) = k)
        BY <2>2
      <3>2. at + k - 1 = at + (k - 1) /\ at + 1 - 1 = at
        BY <1>3, <2>2
      <3>3. CASE k = 1
        BY <2>1, <2>3, <3>2, <3>3
      <3>4. CASE k - 1 \in 1 .. n /\ 1 + (k - 1) = k
        <4>1. y[k] = W[k - 1] /\ W[k - 1] = dst[at + (k - 1)]
          BY <1>7, <2>3, <3>4
        <4> QED
          BY <2>1, <3>2, <4>1
      <3> QED
        BY <3>1, <3>3, <3>4
    <2>5. x = y
      BY <2>1, <2>3, <2>4, SameSeq
    <2> QED
      BY <2>5 DEF x, y, W
  <1> QED
    BY <1>2, <1>3, <1>4, <1>5, <1>6, <1>7, <1>8, <1>9, <1>10
\* What a hole or a run that is not mapped says.
LEMMA HoleSays ==
  ASSUME NEW r \in RunElement, r.length > 0, r.lcn \in {-1, -2}
  PROVE  /\ Chain(<<r>>, r.vcn, r.vcn + r.length)
         /\ \A v \in Nat, l \in Int :
               Says(<<r>>, v, l) <=> r.vcn <= v /\ v < r.vcn + r.length /\ l = r.lcn
  <1>1. r.lcn >= -2 /\ ~(r.lcn >= 0)
    OBVIOUS
  <1>2. \A v \in Nat : LcnIn(r, v) = r.lcn
    BY <1>1 DEF LcnIn
  <1> QED
    BY <1>1, <1>2, ChainOne

\* The new runs, what is left of the run behind them, and the rest of the list.
LEMMA WithRest ==
  ASSUME NEW dst, NEW at, NEW M, NEW a, NEW b, InRun(dst, at, M, a, b),
         b < dst[at].vcn + dst[at].length, NEW A, Chain(A, 0, b),
         NEW x \in RunElement, x.vcn = b, x.lcn = dst[at].lcn,
         x.length = dst[at].vcn + dst[at].length - b,
         \A v \in Nat, l \in Int :
            Says(A, v, l) <=> \/ Says(SubSeq(dst, 1, at - 1), v, l)
                              \/ Says(M, v, l)
                              \/ l = dst[at].lcn /\ dst[at].vcn <= v /\ v < a
  PROVE  MergedList(Around(A, x, SubSeq(dst, at + 1, Len(dst))), dst, M, a, b, EndVcn(dst))
  <1> DEFINE h == dst[at]
             t == dst[Len(dst)]
             P == SubSeq(dst, 1, at - 1)
             Q == SubSeq(dst, at + 1, Len(dst) - 1)
             W == SubSeq(dst, at + 1, Len(dst))
             K == (A \o <<x>>) \o Q
  <1>1. /\ Chain(Q, h.vcn + h.length, EndVcn(dst)) /\ t \in RunElement /\ W = Q \o <<t>>
        /\ h.vcn \in Nat /\ h.length \in Nat /\ a \in Nat /\ b \in Nat /\ a < b
    BY AroundRun
  <1>2. h.lcn \in {-1, -2}
    BY DEF InRun
  <1>3. /\ Chain(<<x>>, b, h.vcn + h.length)
        /\ \A v \in Nat, l \in Int :
              Says(<<x>>, v, l) <=> b <= v /\ v < h.vcn + h.length /\ l = h.lcn
    <2> HIDE DEF h
    <2>1. x.vcn = b /\ x.lcn = h.lcn /\ x.length = h.vcn + h.length - b /\ b < h.vcn + h.length
      BY DEF h
    <2>2. x.length > 0 /\ x.lcn \in {-1, -2} /\ x.vcn + x.length = h.vcn + h.length
      <3>1. \A k, n \in Nat : k < n => n - k > 0 /\ k + (n - k) = n
        BY ONLY TRUE
      <3>2. h.vcn + h.length \in Nat
        BY <1>1
      <3>3. h.vcn + h.length - b > 0 /\ b + (h.vcn + h.length - b) = h.vcn + h.length
        BY <1>1, <2>1, <3>1, <3>2, SMTT(40)
      <3> QED
        BY <1>2, <2>1, <3>3
    <2> QED
      BY <2>1, <2>2, HoleSays
  <1> HIDE DEF Q, t
  <1>4. Around(A, x, W) = K \o <<t>>
    <2>1. A \in Seq(RunElement) /\ Q \in Seq(RunElement) /\ <<x>> \in Seq(RunElement)
      BY <1>1, ChainRuns
    <2>2. A \o <<x>> \in Seq(RunElement) /\ <<t>> \in Seq(RunElement)
      BY <1>1, <2>1
    <2>3. ((A \o <<x>>) \o Q) \o <<t>> = (A \o <<x>>) \o (Q \o <<t>>)
      BY <2>1, <2>2, Associative
    <2> HIDE DEF W
    <2> QED
      BY <1>1, <2>3 DEF Around
  <1>5. Chain(A \o <<x>>, 0, h.vcn + h.length) /\ Splits(A \o <<x>>, A, <<x>>)
    BY <1>3, ChainConcat
  <1>6. Chain(K, 0, EndVcn(dst)) /\ Splits(K, A \o <<x>>, Q)
    BY <1>1, <1>5, ChainConcat
  <1> HIDE DEF K, P, h
  <1>7. ASSUME NEW v \in Nat, NEW l \in Int
        PROVE  Says(K, v, l) <=> Says(P, v, l) \/ Says(M, v, l) \/ Left(h, a, b, v, l) \/ Says(Q, v, l)
    <2>1. Says(K, v, l) <=> Says(A, v, l) \/ Says(<<x>>, v, l) \/ Says(Q, v, l)
      BY <1>5, <1>6 DEF Splits
    <2>2. Says(A, v, l) <=> Says(P, v, l) \/ Says(M, v, l) \/ (l = h.lcn /\ h.vcn <= v /\ v < a)
      BY DEF P, h
    <2>3. Says(<<x>>, v, l) <=> b <= v /\ v < h.vcn + h.length /\ l = h.lcn
      BY <1>3
    <2>4. Left(h, a, b, v, l) <=> \/ l = h.lcn /\ h.vcn <= v /\ v < a
                                  \/ b <= v /\ v < h.vcn + h.length /\ l = h.lcn
      BY DEF Left
    <2> QED
      BY <2>1, <2>2, <2>3, <2>4
  <1>8. MergedList(K \o <<dst[Len(dst)]>>, dst, M, a, b, EndVcn(dst))
    BY <1>6, <1>7, HolePieces DEF P, Q, h
  <1> QED
    BY <1>4, <1>8 DEF t

\* The new runs go before the run that is cut.
LEMMA InsertInRun ==
  ASSUME NEW dst, NEW at, NEW M, NEW a, NEW b, InRun(dst, at, M, a, b),
         dst[at].vcn = a, b < dst[at].vcn + dst[at].length
  PROVE  MergedList(RL!ntfs_rl_insert(dst, M, at), dst, M, a, b, EndVcn(dst))
  <1> DEFINE h == dst[at]
             t == dst[Len(dst)]
             P == SubSeq(dst, 1, at - 1)
             Q == SubSeq(dst, at + 1, Len(dst) - 1)
             W == SubSeq(dst, at + 1, Len(dst))
             left == RL!MergesLeft(dst, M, at)
             head == RL!JoinedLeft(dst, M, at)
             rest == SubSeq(M, 1 + RL!One(left), Len(M))
             m == IF left THEN M[1].vcn + M[1].length ELSE a
             A == head \o rest
             x == [vcn |-> b, lcn |-> h.lcn, length |-> W[1].vcn - b]
  <1>1. /\ IsRunlist(dst) /\ dst[1].vcn = 0 /\ at \in 1 .. Len(dst) - 1 /\ h.lcn \in {-1, -2}
        /\ Chain(M, a, b) /\ Len(M) > 0 /\ \A i \in 1 .. Len(M) : M[i].lcn >= -1
    BY DEF InRun
  <1>2. /\ h \in RunElement /\ h.vcn \in Nat /\ h.length \in Nat /\ a \in Nat /\ b \in Nat /\ a < b
        /\ SubSeq(dst, at, Len(dst)) = <<h>> \o W
        /\ W \in Seq(RunElement) /\ Len(W) > 0 /\ W[1].vcn = h.vcn + h.length
        /\ at \in 1 .. Len(dst) /\ at \in Nat \ {0}
    BY AroundRun
  <1>3. /\ Len(M) \in Nat \ {0} /\ 1 \in 1 .. Len(M) /\ M[1].lcn >= -1 /\ M[1].vcn = a
        /\ M[1].length > 0 /\ M[1].length \in Nat
    <2>1. Len(M) \in Nat /\ \A i \in 1 .. Len(M) : M[i].length \in Nat
      BY <1>1, ChainRuns
    <2>2. Len(M) \in Nat \ {0} /\ 1 \in 1 .. Len(M)
      BY <1>1, <2>1
    <2> QED
      BY <1>1, <2>1, <2>2 DEF Chain
  <1>4. /\ left \in BOOLEAN /\ (left => at > 1)
        /\ Chain(head, 0, IF left THEN m ELSE dst[at].vcn) /\ Chain(rest, m, b)
        /\ Len(head) = at - 1 /\ Len(rest) = Len(M) - RL!One(left)
        /\ \A v \in Nat, l \in Int :
              Says(head, v, l) \/ Says(rest, v, l) <=> Says(P, v, l) \/ Says(M, v, l)
    BY <1>1, <1>2, <1>3, LeftJoin
  <1> HIDE DEF P, Q, W, left, head, rest
  <1>5. Chain(head, 0, m)
    BY <1>4
  <1>6. head \in Seq(RunElement) /\ rest \in Seq(RunElement) /\ Len(head) \in Nat /\ Len(rest) \in Nat
    BY <1>4, <1>5, ChainRuns
  <1>7. Chain(A, 0, b) /\ Splits(A, head, rest) /\ Len(A) = Len(head) + Len(rest) /\ Len(A) > 0
    <2>1. Chain(A, 0, b) /\ Splits(A, head, rest)
      BY <1>4, <1>5, ChainConcat
    <2>2. Len(A) = Len(head) + Len(rest)
      BY <1>6
    <2>3. Len(head) + Len(rest) > 0
      <3>1. CASE left
        <4>1. at > 1
          BY <1>4, <3>1
        <4> QED
          BY <1>2, <1>4, <1>6, <4>1
      <3>2. CASE ~left
        <4>1. RL!One(left) = 0
          BY <3>2 DEF RL!One
        <4> QED
          BY <1>3, <1>4, <1>6, <4>1
      <3> QED
        BY <3>1, <3>2
    <2> HIDE DEF A
    <2> QED
      BY <2>1, <2>2, <2>3
  <1>8. RL!Gap(IF at = 1 THEN 0 ELSE RL!EndOf(RL!Last(head)), M[1].vcn) = <<>>
    <2>1. CASE at = 1
      <3>1. a = 0
        BY <1>1, <2>1
      <3> QED
        BY <1>3, <2>1, <3>1 DEF RL!Gap
    <2>2. CASE at # 1
      <3>1. Len(head) > 0
        BY <1>2, <1>4, <2>2
      <3>2. head[Len(head)].vcn + head[Len(head)].length = m
        BY <1>5, <1>6, <3>1 DEF Chain
      <3>3. RL!EndOf(RL!Last(head)) = m
        BY <3>2 DEF RL!EndOf, RL!Last
      <3>4. ~(M[1].vcn > m)
        BY <1>2, <1>3
      <3> HIDE DEF m
      <3> QED
        BY <2>2, <3>3, <3>4 DEF RL!Gap
    <2> QED
      BY <2>1, <2>2
  <1>9. RL!ntfs_rl_insert(dst, M, at) = RL!MovedRun(Around(A, h, W), Len(A) + 1)
    <2>1. RL!ntfs_rl_insert(dst, M, at) = RL!Inserted(head, <<>>, rest, <<h>> \o W)
      BY <1>2, <1>8 DEF RL!ntfs_rl_insert, left, head, rest
    <2>2. head \o <<>> = head /\ Len(<<>>) = 0 /\ Len(head) + 0 = Len(head)
      BY <1>6
    <2>3. RL!Inserted(head, <<>>, rest, <<h>> \o W)
            = RL!MovedRun((head \o rest) \o (<<h>> \o W), Len(head) + Len(rest) + 1)
      BY <2>2 DEF RL!Inserted
    <2>4. (head \o rest) \o (<<h>> \o W) = Around(A, h, W)
      <3> HIDE DEF h
      <3>1. A \in Seq(RunElement) /\ <<h>> \in Seq(RunElement)
        BY <1>2, <1>6
      <3> HIDE DEF A
      <3>2. A \o (<<h>> \o W) = (A \o <<h>>) \o W
        BY <1>2, <3>1, Associative
      <3> QED
        BY <3>2 DEF A, Around
    <2> QED
      BY <1>7, <2>1, <2>3, <2>4
  <1> HIDE DEF A, h, m
  <1>10. /\ RL!FillUpTo(RL!Moved(Around(A, h, W), Len(A) + 1), Len(A) + 1) = Around(A, x, W)
         /\ x \in RunElement /\ Around(A, h, W)[Len(A) + 1] = h
    <2>1. W[1].vcn >= b
      BY <1>2, SMTT(40) DEF h
    <2> QED
      BY <1>2, <1>7, <2>1, MovedUp
  <1>11. RL!ntfs_rl_insert(dst, M, at) = Around(A, x, W)
    <2>1. h.lcn \in {RL!LCN_HOLE, RL!LCN_RL_NOT_MAPPED}
      BY <1>1 DEF RL!LCN_HOLE, RL!LCN_RL_NOT_MAPPED
    <2> HIDE DEF x
    <2> QED
      BY <1>9, <1>10, <2>1 DEF RL!MovedRun
  <1>12. x.vcn = b /\ x.lcn = h.lcn /\ x.length = h.vcn + h.length - b
    BY <1>2
  <1> HIDE DEF x
  <1>13. ASSUME NEW v \in Nat, NEW l \in Int
         PROVE  Says(A, v, l) <=> Says(P, v, l) \/ Says(M, v, l) \/ (l = h.lcn /\ h.vcn <= v /\ v < a)
    <2>1. ~(h.vcn <= v /\ v < a)
      BY <1>2 DEF h
    <2> QED
      BY <1>4, <1>7, <2>1 DEF Splits
  <1>14. MergedList(Around(A, x, W), dst, M, a, b, EndVcn(dst))
    BY <1>7, <1>10, <1>12, <1>13, WithRest DEF h, P, W
  <1> QED
    BY <1>11, <1>14

\* The run before the new ones, cut where they start.
CutAt(dst, at, a) == SubSeq(dst, 1, at - 1) \o <<[dst[at] EXCEPT !.length = a - dst[at].vcn]>>

\* ntfs_rl_append and ntfs_rl_split: the list up to the run that is cut.
LEMMA CutRun ==
  ASSUME NEW dst, NEW at, NEW M, NEW a, NEW b, InRun(dst, at, M, a, b), dst[at].vcn < a,
         NEW C \in Seq(RunElement), Len(C) > 0, C[1].vcn = a
  PROVE  /\ RL!FillUpTo(SubSeq(dst, 1, at) \o C, at) = CutAt(dst, at, a) \o C
         /\ Chain(CutAt(dst, at, a), 0, a) /\ Len(CutAt(dst, at, a)) = at
         /\ \A v \in Nat, l \in Int :
               Says(CutAt(dst, at, a), v, l) <=>
                  \/ Says(SubSeq(dst, 1, at - 1), v, l)
                  \/ l = dst[at].lcn /\ dst[at].vcn <= v /\ v < a
  <1> DEFINE h == dst[at]
             P == SubSeq(dst, 1, at - 1)
             y == [h EXCEPT !.length = a - h.vcn]
             D == P \o <<y>>
  <1>1. /\ Chain(P, 0, h.vcn) /\ Len(P) = at - 1 /\ h \in RunElement
        /\ h.vcn \in Nat /\ h.length \in Nat /\ a \in Nat /\ b \in Nat
        /\ SubSeq(dst, 1, at) = P \o <<h>> /\ at \in Nat \ {0}
    BY AroundRun
  <1>2. h.lcn \in {-1, -2} /\ h.vcn < a
    BY DEF InRun
  <1> HIDE DEF h, P
  <1>3. P \in Seq(RunElement) /\ Len(P) + 1 = at
    BY <1>1, ChainRuns
  <1>4. /\ RL!FillUpTo(Around(P, h, C), at) = Around(P, y, C)
        /\ y \in RunElement /\ y.vcn = h.vcn /\ y.lcn = h.lcn /\ y.length = a - h.vcn
    <2> DEFINE z == [h EXCEPT !.length = C[1].vcn - h.vcn]
    <2>1. C[1].vcn >= h.vcn /\ C[1].vcn = a
      BY <1>1, <1>2
    <2>2. /\ RL!FillUpTo(Around(P, h, C), Len(P) + 1) = Around(P, z, C)
          /\ z \in RunElement /\ z.vcn = h.vcn /\ z.lcn = h.lcn /\ z.length = C[1].vcn - h.vcn
      BY <1>1, <1>3, <2>1, FilledUp
    <2>3. z = y
      BY <2>1
    <2> HIDE DEF z, y
    <2> QED
      BY <1>3, <2>1, <2>2, <2>3
  <1>5. RL!FillUpTo(SubSeq(dst, 1, at) \o C, at) = D \o C
    <2> HIDE DEF y
    <2> QED
      BY <1>1, <1>4 DEF Around
  <1> HIDE DEF y
  <1>6. /\ Chain(<<y>>, h.vcn, a)
        /\ \A v \in Nat, l \in Int : Says(<<y>>, v, l) <=> h.vcn <= v /\ v < a /\ l = h.lcn
    <2>1. y.length > 0 /\ y.vcn + y.length = a /\ y.lcn \in {-1, -2}
      <3>1. a - h.vcn > 0 /\ h.vcn + (a - h.vcn) = a
        BY <1>1, <1>2
      <3> QED
        BY <1>2, <1>4, <3>1
    <2>2. /\ Chain(<<y>>, y.vcn, y.vcn + y.length)
          /\ \A v \in Nat, l \in Int :
                Says(<<y>>, v, l) <=> y.vcn <= v /\ v < y.vcn + y.length /\ l = y.lcn
      BY <1>4, <2>1, HoleSays
    <2> QED
      BY <1>4, <2>1, <2>2
  <1>7. Chain(D, 0, a) /\ Splits(D, P, <<y>>)
    BY <1>1, <1>6, ChainConcat
  <1>8. Len(D) = at
    <2>1. <<y>> \in Seq(RunElement) /\ Len(<<y>>) = 1
      BY <1>4
    <2> QED
      BY <1>3, <2>1
  <1> HIDE DEF D
  <1>9. ASSUME NEW v \in Nat, NEW l \in Int
        PROVE  Says(D, v, l) <=> \/ Says(P, v, l)
                                 \/ l = h.lcn /\ h.vcn <= v /\ v < a
    BY <1>6, <1>7 DEF Splits
  <1> QED
    BY <1>5, <1>7, <1>8, <1>9 DEF D, y, h, P, CutAt

\* The new runs go into the middle of the run.
LEMMA SplitInRun ==
  ASSUME NEW dst, NEW at, NEW M, NEW a, NEW b, InRun(dst, at, M, a, b),
         dst[at].vcn < a, b < dst[at].vcn + dst[at].length
  PROVE  MergedList(RL!ntfs_rl_split(dst, M, at), dst, M, a, b, EndVcn(dst))
  <1> DEFINE h == dst[at]
             P == SubSeq(dst, 1, at - 1)
             W == SubSeq(dst, at + 1, Len(dst))
             D == CutAt(dst, at, a)
             C == M \o (<<h>> \o W)
             A == D \o M
             x == [vcn |-> b, lcn |-> h.lcn, length |-> W[1].vcn - b]
  <1>1. Chain(M, a, b) /\ Len(M) > 0
    BY DEF InRun
  <1>2. /\ h \in RunElement /\ h.vcn \in Nat /\ h.length \in Nat /\ a \in Nat /\ b \in Nat /\ a < b
        /\ SubSeq(dst, at, Len(dst)) = <<h>> \o W
        /\ W \in Seq(RunElement) /\ Len(W) > 0 /\ W[1].vcn = h.vcn + h.length
        /\ at \in Nat \ {0}
    BY AroundRun
  <1>3. SubSeq(dst, 1, at) \in Seq(RunElement)
    <2>1. /\ h \in RunElement /\ h.vcn \in Nat /\ h.length \in Nat /\ a \in Nat /\ b \in Nat /\ a < b
          /\ SubSeq(dst, at, Len(dst)) = <<h>> \o W
          /\ W \in Seq(RunElement) /\ Len(W) > 0 /\ W[1].vcn = h.vcn + h.length
          /\ at \in Nat \ {0} /\ SubSeq(dst, 1, at) = P \o <<h>> /\ Chain(P, 0, h.vcn)
      BY AroundRun
    <2>2. P \in Seq(RunElement)
      BY <2>1, ChainRuns
    <2> HIDE DEF P, h
    <2>3. P \o <<h>> \in Seq(RunElement)
      BY <2>1, <2>2
    <2> QED
      BY <2>1, <2>3
  <1>4. /\ h.vcn \in Nat /\ h.length \in Nat /\ b \in Nat /\ W[1].vcn = h.vcn + h.length
         /\ b < h.vcn + h.length
    BY <1>2
  <1>5. /\ Len(M) \in Nat \ {0} /\ M \in Seq(RunElement) /\ M[1].vcn = a
    <2>1. Len(M) \in Nat /\ M \in Seq(RunElement)
      BY <1>1, ChainRuns
    <2>2. Len(M) \in Nat \ {0} /\ 1 \in 1 .. Len(M)
      BY <1>1, <2>1
    <2> QED
      BY <1>1, <2>1, <2>2 DEF Chain
  <1>6. <<h>> \in Seq(RunElement) /\ <<h>> \o W \in Seq(RunElement)
    <2> HIDE DEF h, W
    <2> QED
      BY <1>2
  <1>7. C \in Seq(RunElement) /\ Len(C) > 0 /\ C[1].vcn = a
    <2> DEFINE S == <<h>> \o W
    <2> HIDE DEF S
    <2>1. S \in Seq(RunElement) /\ Len(S) \in Nat
      BY <1>6 DEF S
    <2>2. M \o S \in Seq(RunElement) /\ Len(M \o S) = Len(M) + Len(S) /\ (M \o S)[1] = M[1]
      BY <1>5, <2>1
    <2> QED
      BY <1>5, <2>1, <2>2 DEF S
  <1>8. /\ RL!FillUpTo(SubSeq(dst, 1, at) \o C, at) = D \o C
        /\ Chain(D, 0, a) /\ Len(D) = at
        /\ \A v \in Nat, l \in Int :
              Says(D, v, l) <=> \/ Says(P, v, l)
                                \/ l = h.lcn /\ h.vcn <= v /\ v < a
    <2> HIDE DEF C
    <2> QED
      BY <1>7, CutRun
  <1> HIDE DEF D, W, h, P
  <1>9. D \in Seq(RunElement)
    BY <1>8, ChainRuns
  <1>10. Chain(A, 0, b) /\ Splits(A, D, M) /\ Len(A) = at + Len(M) /\ A \in Seq(RunElement)
    <2>1. Chain(A, 0, b) /\ Splits(A, D, M)
      BY <1>1, <1>8, ChainConcat
    <2>2. Len(A) = Len(D) + Len(M) /\ A \in Seq(RunElement)
      BY <1>5, <1>9
    <2> HIDE DEF A
    <2> QED
      BY <1>8, <2>1, <2>2
  <1>11. D \o C = Around(A, h, W)
    <2> DEFINE S == <<h>> \o W
    <2>1. D \o (M \o S) = (D \o M) \o S
      <3> HIDE DEF S
      <3> QED
        BY <1>5, <1>6, <1>9, Associative DEF S
    <2>2. A \o (<<h>> \o W) = (A \o <<h>>) \o W
      <3> HIDE DEF A
      <3> QED
        BY <1>2, <1>6, <1>10, Associative
    <2> QED
      BY <2>1, <2>2 DEF Around
  <1>12. (SubSeq(dst, 1, at) \o M) \o (<<h>> \o W) = SubSeq(dst, 1, at) \o C
    BY <1>3, <1>5, <1>6, Associative
  <1> HIDE DEF A, C
  <1>13. RL!ntfs_rl_split(dst, M, at)
           = RL!FillUpTo(RL!Moved(Around(A, h, W), Len(A) + 1), Len(A) + 1)
    BY <1>2, <1>8, <1>10, <1>11, <1>12 DEF RL!ntfs_rl_split
  <1>14. /\ RL!FillUpTo(RL!Moved(Around(A, h, W), Len(A) + 1), Len(A) + 1) = Around(A, x, W)
         /\ x \in RunElement
    <2>1. W[1].vcn >= b
      BY ONLY <1>4
    <2>2. Len(A) > 0
      BY <1>2, <1>5, <1>10
    <2>3. W \in Seq(RunElement) /\ h \in RunElement /\ Len(W) > 0
      BY <1>2
    <2> QED
      BY <1>10, <2>1, <2>2, <2>3, MovedUp
  <1>15. x.vcn = b /\ x.lcn = h.lcn /\ x.length = h.vcn + h.length - b
    BY <1>4
  <1> HIDE DEF x
  <1>16. ASSUME NEW v \in Nat, NEW l \in Int
         PROVE  Says(A, v, l) <=> Says(P, v, l) \/ Says(M, v, l) \/ (l = h.lcn /\ h.vcn <= v /\ v < a)
    BY <1>8, <1>10 DEF Splits
  <1>17. MergedList(Around(A, x, W), dst, M, a, b, EndVcn(dst))
    BY <1>10, <1>14, <1>15, <1>16, WithRest DEF h, P, W
  <1> QED
    BY <1>13, <1>14, <1>17

\* The new runs go behind the run that is cut.
LEMMA AppendInRun ==
  ASSUME NEW dst, NEW at, NEW M, NEW a, NEW b, InRun(dst, at, M, a, b),
         dst[at].vcn < a, dst[at].vcn + dst[at].length = b
  PROVE  MergedList(RL!ntfs_rl_append(dst, M, at), dst, M, a, b, EndVcn(dst))
  <1> DEFINE h == dst[at]
             t == dst[Len(dst)]
             P == SubSeq(dst, 1, at - 1)
             Q == SubSeq(dst, at + 1, Len(dst) - 1)
             D == CutAt(dst, at, a)
             right == RL!MergesRight(dst, M, at)
             N == RL!JoinedRight(dst, M, at)
             back == SubSeq(dst, at + 1 + RL!One(right), Len(dst) - 1)
             C == N \o (back \o <<t>>)
             K == (D \o N) \o back
             r == K \o <<t>>
  <1>1. /\ IsRunlist(dst) /\ at \in 1 .. Len(dst) - 1
        /\ Chain(M, a, b) /\ Len(M) > 0 /\ \A i \in 1 .. Len(M) : M[i].lcn >= -1
    BY DEF InRun
  <1>2. /\ h \in RunElement /\ h.vcn \in Nat /\ h.length \in Nat /\ a \in Nat /\ b \in Nat
        /\ at \in Nat \ {0} /\ t \in RunElement /\ SubSeq(dst, 1, at) = P \o <<h>> /\ Chain(P, 0, h.vcn)
    BY AroundRun
  <1>3. Len(M) \in Nat \ {0} /\ Len(M) \in 1 .. Len(M)
    <2>1. Len(M) \in Nat
      BY <1>1, ChainRuns
    <2> QED
      BY <1>1, <2>1
  <1>4. /\ right \in BOOLEAN
        /\ \E c \in Nat : Chain(N, a, c) /\ Chain(back, c, EndVcn(dst))
        /\ Len(N) = Len(M)
        /\ SubSeq(dst, at + 1 + RL!One(right), Len(dst)) = back \o <<t>>
        /\ \A v \in Nat, l \in Int :
              Says(N, v, l) \/ Says(back, v, l) <=> Says(M, v, l) \/ Says(Q, v, l)
    <2>1. M[Len(M)].lcn >= -1 /\ b = dst[at].vcn + dst[at].length
      BY <1>1, <1>3
    <2> QED
      BY <1>1, <2>1, RightJoin
  <1>5. PICK c \in Nat : Chain(N, a, c) /\ Chain(back, c, EndVcn(dst))
    BY <1>4
  <1> HIDE DEF N, right, back, Q
  <1>6. N \in Seq(RunElement) /\ back \in Seq(RunElement) /\ <<t>> \in Seq(RunElement)
    BY <1>2, <1>5, ChainRuns
  <1>7. back \o <<t>> \in Seq(RunElement)
    <2> HIDE DEF t
    <2> QED
      BY <1>6
  <1>8. C \in Seq(RunElement) /\ Len(C) > 0 /\ C[1].vcn = a
    <2> DEFINE S == back \o <<t>>
    <2> HIDE DEF S
    <2>1. S \in Seq(RunElement) /\ Len(S) \in Nat
      BY <1>7 DEF S
    <2>2. Len(N) \in Nat \ {0} /\ 1 \in 1 .. Len(N)
      BY <1>3, <1>4
    <2>3. N \o S \in Seq(RunElement) /\ Len(N \o S) = Len(N) + Len(S) /\ (N \o S)[1] = N[1]
      BY <1>6, <2>1, <2>2
    <2>4. N[1].vcn = a
      BY <1>5, <2>2 DEF Chain
    <2> QED
      BY <2>1, <2>2, <2>3, <2>4 DEF S
  <1>9. /\ RL!FillUpTo(SubSeq(dst, 1, at) \o C, at) = D \o C
        /\ Chain(D, 0, a) /\ Len(D) = at
        /\ \A v \in Nat, l \in Int :
              Says(D, v, l) <=> \/ Says(P, v, l)
                                \/ l = h.lcn /\ h.vcn <= v /\ v < a
    <2> HIDE DEF C
    <2> QED
      BY <1>8, CutRun
  <1>10. SubSeq(dst, 1, at) \in Seq(RunElement)
    <2>1. P \in Seq(RunElement)
      BY <1>2, ChainRuns
    <2> HIDE DEF P, h
    <2>2. P \o <<h>> \in Seq(RunElement)
      BY <1>2, <2>1
    <2> QED
      BY <1>2, <2>2
  <1> HIDE DEF D, h, P, t
  <1>11. D \in Seq(RunElement) /\ D \o N \in Seq(RunElement)
    <2>1. D \in Seq(RunElement)
      BY <1>9, ChainRuns
    <2> QED
      BY <1>6, <2>1
  <1>12. (SubSeq(dst, 1, at) \o N) \o (back \o <<t>>) = SubSeq(dst, 1, at) \o C
    BY <1>6, <1>7, <1>10, Associative
  <1>13. D \o C = r
    <2>1. D \o (N \o (back \o <<t>>)) = (D \o N) \o (back \o <<t>>)
      <3> DEFINE S == back \o <<t>>
      <3> HIDE DEF S
      <3>1. S \in Seq(RunElement)
        BY <1>7 DEF S
      <3>2. D \o (N \o S) = (D \o N) \o S
        BY <1>6, <1>11, <3>1, Associative, SMTT(40)
      <3> QED
        BY <3>2 DEF S
    <2>2. (D \o N) \o (back \o <<t>>) = ((D \o N) \o back) \o <<t>>
      BY <1>6, <1>11, Associative
    <2> QED
      BY <2>1, <2>2
  <1> HIDE DEF C, r
  <1>14. RL!ntfs_rl_append(dst, M, at) = RL!FixEndMarker(r, at + Len(M) + 1)
    BY <1>4, <1>9, <1>12, <1>13 DEF RL!ntfs_rl_append, N, right
  <1>15. Chain(D \o N, 0, c) /\ Splits(D \o N, D, N)
    BY <1>5, <1>9, ChainConcat
  <1>16. Chain(K, 0, EndVcn(dst)) /\ Splits(K, D \o N, back)
    BY <1>5, <1>15, ChainConcat
  <1> HIDE DEF K
  <1>17. ASSUME NEW v \in Nat, NEW l \in Int
         PROVE  Says(K, v, l) <=> Says(P, v, l) \/ Says(M, v, l) \/ Left(h, a, b, v, l) \/ Says(Q, v, l)
    <2>1. Says(K, v, l) <=> Says(D, v, l) \/ Says(N, v, l) \/ Says(back, v, l)
      BY <1>15, <1>16 DEF Splits
    <2>2. Left(h, a, b, v, l) <=> l = h.lcn /\ h.vcn <= v /\ v < a
      <3>1. ~(b <= v /\ v < h.vcn + h.length)
        BY <1>2 DEF h
      <3> QED
        BY <3>1 DEF Left
    <2>3. Says(D, v, l) <=> Says(P, v, l) \/ (l = h.lcn /\ h.vcn <= v /\ v < a)
      BY <1>9
    <2>4. Says(N, v, l) \/ Says(back, v, l) <=> Says(M, v, l) \/ Says(Q, v, l)
      BY <1>4
    <2> QED
      BY <2>1, <2>2, <2>3, <2>4
  <1>18. MergedList(r, dst, M, a, b, EndVcn(dst))
    <2>1. MergedList(K \o <<dst[Len(dst)]>>, dst, M, a, b, EndVcn(dst))
      BY <1>16, <1>17, HolePieces DEF P, Q, h
    <2> QED
      BY <2>1 DEF r, t
  <1>19. RL!FixEndMarker(r, at + Len(M) + 1) = r
    <2>1. IsRunlist(r)
      BY <1>18 DEF MergedList
    <2>2. at + Len(M) + 1 \in Nat /\ at + Len(M) + 1 >= 2
      BY <1>2, <1>3
    <2> QED
      BY <2>1, <2>2, MarkerFixed
  <1> QED
    BY <1>14, <1>18, <1>19

-----------------------------------------------------------------------------
(* What ntfs_runlists_merge looks for in the two lists.                    *)

\* A list to be merged: runs that are not mapped, and from f on runs that are.
Source(srl, f) ==
    /\ IsRunlist(srl) /\ f \in 1 .. Len(srl) - 1
    /\ \A i \in 1 .. f - 1 : srl[i].lcn = -2
    /\ \A i \in f .. Len(srl) - 1 : srl[i].lcn >= -1

MappedRuns(srl, f) == SubSeq(srl, f, Len(srl) - 1)

\* The terminator is the last element.
LEMMA EndIs ==
  ASSUME NEW rl, IsRunlist(rl), NEW i \in 1 .. Len(rl)
  PROVE  RL!EndIndex(rl, i) = Len(rl)
  <1> DEFINE n == Len(rl)
             P(j) == rl[j].length = 0 /\ \A k \in i .. j - 1 : rl[k].length # 0
  <1>1. n \in Nat \ {0} /\ \A j \in 1 .. n : rl[j].length \in Nat
    BY RunsOfList
  <1>2. rl[n].length = 0 /\ \A j \in 1 .. n - 1 : rl[j].length # 0
    BY <1>1 DEF IsRunlist
  <1>3. P(n)
    BY <1>1, <1>2
  <1>4. ASSUME NEW j \in i .. n, P(j) PROVE j = n
    <2>1. j \in 1 .. n
      BY <1>1
    <2> QED
      BY <1>1, <1>2, <1>4, <2>1
  <1>5. n \in i .. n
    BY <1>1
  <1> HIDE DEF P
  <1>6. (CHOOSE j \in i .. n : P(j)) = n
    BY <1>3, <1>4, <1>5
  <1> QED
    BY <1>6 DEF P, RL!EndIndex

\* The first run that is mapped.
LEMMA FirstIs ==
  ASSUME NEW srl, NEW f, Source(srl, f)
  PROVE  RL!FirstMapped(srl) = f
  <1> DEFINE n == Len(srl)
             P(j) == /\ srl[j].length = 0 \/ srl[j].lcn >= RL!LCN_HOLE
                     /\ \A k \in 1 .. j - 1 : srl[k].length # 0 /\ srl[k].lcn < RL!LCN_HOLE
  <1>1. /\ n \in Nat \ {0} /\ f \in 1 .. n - 1 /\ f \in 1 .. n
        /\ \A j \in 1 .. n : srl[j].length \in Nat /\ srl[j].lcn \in Int
    <2>1. IsRunlist(srl) /\ f \in 1 .. n - 1
      BY DEF Source
    <2>2. n \in Nat \ {0} /\ \A j \in 1 .. n : srl[j].length \in Nat /\ srl[j].lcn \in Int
      BY <2>1, RunsOfList
    <2> QED
      BY <2>1, <2>2
  <1>2. /\ \A j \in 1 .. n - 1 : srl[j].length # 0
        /\ \A j \in 1 .. f - 1 : srl[j].lcn = -2
        /\ srl[f].lcn >= -1
    BY <1>1 DEF Source, IsRunlist
  <1>3. RL!LCN_HOLE = -1
    BY DEF RL!LCN_HOLE
  <1>4. ASSUME NEW k \in 1 .. f - 1 PROVE srl[k].length # 0 /\ srl[k].lcn < RL!LCN_HOLE
    <2>1. k \in 1 .. n - 1
      BY <1>1
    <2> QED
      BY <1>2, <1>3, <2>1
  <1>5. P(f)
    BY <1>2, <1>3, <1>4
  <1>6. ASSUME NEW j \in 1 .. n, P(j) PROVE j = f
    <2>1. CASE j < f
      <3>1. j \in 1 .. f - 1
        BY <1>1, <2>1
      <3>2. srl[j].length # 0 /\ srl[j].lcn = -2
        BY <1>2, <1>4, <3>1
      <3> QED
        BY <1>3, <1>6, <3>2
    <2>2. CASE f < j
      <3>1. f \in 1 .. j - 1
        BY <1>1, <2>2
      <3>2. srl[f].lcn < RL!LCN_HOLE
        BY <1>6, <3>1
      <3> QED
        BY <1>1, <1>2, <1>3, <3>2
    <2> QED
      BY <1>1, <2>1, <2>2
  <1> HIDE DEF P
  <1>7. (CHOOSE j \in 1 .. n : P(j)) = f
    BY <1>1, <1>5, <1>6
  <1> QED
    BY <1>7 DEF P, RL!FirstMapped

\* The last one is the one before the terminator.
LEMMA LastIs ==
  ASSUME NEW srl, NEW f, Source(srl, f)
  PROVE  RL!LastMapped(srl, Len(srl)) = Len(srl) - 1
  <1> DEFINE n == Len(srl)
             P(j) == srl[j].lcn >= RL!LCN_HOLE /\ \A k \in j + 1 .. n : srl[k].lcn < RL!LCN_HOLE
  <1>1. /\ n \in Nat \ {0} /\ f \in 1 .. n - 1
        /\ \A j \in 1 .. n : srl[j].lcn \in Int
    BY RunsOfList DEF Source
  <1>2. n - 1 \in f .. n - 1 /\ n - 1 \in 1 .. n /\ (n - 1) + 1 = n
    BY <1>1
  <1>3. srl[n - 1].lcn >= -1 /\ srl[n].lcn \in {-2, -3}
    BY <1>2 DEF Source, IsRunlist
  <1>4. RL!LCN_HOLE = -1
    BY DEF RL!LCN_HOLE
  <1>5. P(n - 1)
    <2>1. \A k \in (n - 1) + 1 .. n : k = n
      BY <1>1
    <2> QED
      BY <1>3, <1>4, <2>1
  <1>6. ASSUME NEW j \in 1 .. n, P(j) PROVE j = n - 1
    <2>1. CASE j = n
      BY <1>3, <1>4, <1>6, <2>1
    <2>2. CASE j < n - 1
      <3>1. n - 1 \in j + 1 .. n
        BY <1>1, <2>2
      <3>2. srl[n - 1].lcn < RL!LCN_HOLE
        BY <1>6, <3>1
      <3> QED
        <4>1. srl[n - 1].lcn \in Int
          BY <1>1, <1>2
        <4> QED
          BY <1>3, <1>4, <3>2, <4>1
    <2> QED
      BY <1>1, <2>1, <2>2
  <1> HIDE DEF P
  <1>7. (CHOOSE j \in 1 .. n : P(j)) = n - 1
    BY <1>2, <1>5, <1>6
  <1> QED
    BY <1>7 DEF P, RL!LastMapped

\* Where VCN v is: the run that holds it, or the terminator.
LEMMA PlaceIs ==
  ASSUME NEW rl, IsRunlist(rl), NEW v \in Nat, NEW i \in 1 .. Len(rl),
         i = Len(rl) \/ v < rl[i].vcn + rl[i].length, i # 1 => rl[i].vcn <= v
  PROVE  RL!PlaceFor(rl, v) = i
  <1> DEFINE n == Len(rl)
             P(j) == /\ rl[j].length = 0 \/ RL!EndOf(rl[j]) > v
                     /\ \A k \in 1 .. j - 1 : rl[k].length # 0 /\ RL!EndOf(rl[k]) <= v
  <1>1. /\ n \in Nat \ {0} /\ \A j \in 1 .. n : rl[j].vcn \in Nat /\ rl[j].length \in Nat
        /\ \A j \in 1 .. n : RL!EndOf(rl[j]) = rl[j].vcn + rl[j].length
    BY RunsOfList DEF RL!EndOf
  <1>2. \A j \in 1 .. n - 1 : j < i => rl[j].vcn + rl[j].length <= rl[i].vcn
    <2>1. /\ Chain(RunsOf(rl), rl[1].vcn, EndVcn(rl)) /\ Len(RunsOf(rl)) = n - 1
          /\ \A m \in 1 .. n - 1 : RunsOf(rl)[m] = rl[m]
      BY RunsOfList
    <2> SUFFICES ASSUME NEW j \in 1 .. n - 1, j < i PROVE rl[j].vcn + rl[j].length <= rl[i].vcn
      OBVIOUS
    <2>2. CASE i = n
      BY <2>1, <2>2, ChainOrder DEF EndVcn
    <2>3. CASE i # n
      <3>1. i \in 1 .. n - 1
        BY <1>1, <2>3
      <3> QED
        BY <2>1, <3>1, ChainOrder
    <2> QED
      BY <2>2, <2>3
  <1>3. rl[n].length = 0 /\ \A j \in 1 .. n - 1 : rl[j].length > 0
    BY DEF IsRunlist
  <1>4. ASSUME NEW k \in 1 .. i - 1 PROVE rl[k].length # 0 /\ RL!EndOf(rl[k]) <= v
    <2>1. k \in 1 .. n - 1 /\ k \in 1 .. n /\ i # 1 /\ k < i
      BY <1>1
    <2>2. rl[k].vcn + rl[k].length <= rl[i].vcn /\ rl[i].vcn <= v
      BY <1>2, <2>1
    <2>3. rl[k].vcn \in Nat /\ rl[k].length \in Nat /\ rl[i].vcn \in Nat
      BY <1>1, <2>1
    <2> QED
      BY <1>1, <1>3, <2>1, <2>2, <2>3, SMTT(40)
  <1>5. P(i)
    <2>1. CASE i = n
      BY <1>3, <1>4, <2>1
    <2>2. CASE v < rl[i].vcn + rl[i].length
      <3>1. RL!EndOf(rl[i]) > v
        BY <1>1, <2>2
      <3> QED
        BY <1>4, <3>1
    <2> QED
      BY <2>1, <2>2
  <1>6. ASSUME NEW j \in 1 .. n, P(j) PROVE j = i
    <2>1. CASE j < i
      <3>1. j \in 1 .. i - 1
        BY <1>1, <2>1
      <3>2. rl[j].length # 0 /\ RL!EndOf(rl[j]) <= v
        BY <1>4, <3>1
      <3>3. RL!EndOf(rl[j]) > v /\ RL!EndOf(rl[j]) \in Nat
        BY <1>1, <1>6, <3>2
      <3> QED
        BY <3>2, <3>3
    <2>2. CASE i < j
      <3>1. i \in 1 .. j - 1 /\ i \in 1 .. n - 1 /\ i # n
        BY <1>1, <2>2
      <3>2. RL!EndOf(rl[i]) <= v
        BY <1>6, <3>1
      <3>3. v < rl[i].vcn + rl[i].length
        BY <3>1
      <3>4. rl[i].vcn + rl[i].length <= v /\ rl[i].vcn \in Nat /\ rl[i].length \in Nat
        BY <1>1, <3>2
      <3> QED
        BY <3>3, <3>4
    <2> QED
      BY <1>1, <2>1, <2>2
  <1> HIDE DEF P
  <1>7. (CHOOSE j \in 1 .. n : P(j)) = i
    BY <1>5, <1>6
  <1> QED
    BY <1>7 DEF P, RL!PlaceFor

\* The runs that are mapped, as a chain.
LEMMA MappedIs ==
  ASSUME NEW srl, NEW f, Source(srl, f)
  PROVE  LET M == MappedRuns(srl, f)
         IN  /\ Chain(M, srl[f].vcn, EndVcn(srl)) /\ Len(M) > 0 /\ M[1] = srl[f]
             /\ \A i \in 1 .. Len(M) : M[i].lcn >= -1
             /\ \A v \in Nat, l \in Int :
                   srl[f].vcn <= v => (Says(M, v, l) <=> Says(RunsOf(srl), v, l))
             /\ SubSeq(RunsOf(srl), f, Len(srl) - 1) = M /\ M[Len(M)] = srl[Len(srl) - 1]
  <1> DEFINE n == Len(srl)
             s == RunsOf(srl)
             M == MappedRuns(srl, f)
  <1>1. /\ IsRunlist(srl) /\ f \in 1 .. n - 1 /\ \A i \in f .. n - 1 : srl[i].lcn >= -1
    BY DEF Source
  <1>2. /\ Chain(s, srl[1].vcn, EndVcn(srl)) /\ n \in Nat \ {0} /\ Len(s) = n - 1
        /\ \A i \in 1 .. n - 1 : s[i] = srl[i]
        /\ srl \in Seq(RunElement)
    BY <1>1, RunsOfList DEF IsRunlist
  <1>3. /\ f \in Nat \ {0} /\ n - 1 \in Nat /\ f <= n - 1 /\ n - 1 <= Len(s)
        /\ n - 1 \in 1 .. n - 1
    BY <1>1, <1>2
  <1> HIDE DEF s
  <1>4. /\ Chain(SubSeq(s, f, n - 1), s[f].vcn, s[n - 1].vcn + s[n - 1].length)
        /\ Len(SubSeq(s, f, n - 1)) = (n - 1) - f + 1
        /\ \A i \in 1 .. (n - 1) - f + 1 : SubSeq(s, f, n - 1)[i] = s[f + i - 1]
    BY <1>2, <1>3, ChainSub
  <1>5. /\ M \in Seq(RunElement) /\ Len(M) = (n - 1) - f + 1
        /\ \A i \in 1 .. (n - 1) - f + 1 : M[i] = srl[f + i - 1]
    BY <1>1, <1>2 DEF MappedRuns
  <1>6. SubSeq(s, f, n - 1) = M
    <2> DEFINE x == SubSeq(s, f, n - 1)
    <2>1. x \in Seq(RunElement)
      BY <1>4, ChainRuns
    <2> HIDE DEF x, M
    <2>2. ASSUME NEW i \in 1 .. Len(x) PROVE x[i] = M[i]
      <3>1. i \in 1 .. (n - 1) - f + 1
        BY <1>4 DEF x
      <3>2. f + i - 1 \in 1 .. n - 1
        BY <1>1, <1>2, <3>1
      <3>3. s[f + i - 1] = srl[f + i - 1]
        BY <1>2, <3>2
      <3> QED
        BY <1>4, <1>5, <3>1, <3>3 DEF x
    <2>3. Len(x) = Len(M)
      BY <1>4, <1>5 DEF x
    <2>4. x = M
      BY <1>5, <2>1, <2>2, <2>3, SameSeq
    <2> QED
      BY <2>4 DEF x
  <1> HIDE DEF M
  <1>7. s[n - 1].vcn + s[n - 1].length = EndVcn(srl) /\ s[f] = srl[f]
    <2>1. s[n - 1] = srl[n - 1] /\ s[f] = srl[f]
      BY <1>1, <1>2, <1>3
    <2>2. srl[n - 1].vcn + srl[n - 1].length = srl[(n - 1) + 1].vcn
      BY <1>1, <1>3 DEF IsRunlist
    <2>3. (n - 1) + 1 = n
      BY <1>2
    <2> QED
      BY <2>1, <2>2, <2>3 DEF EndVcn
  <1>8. Chain(M, srl[f].vcn, EndVcn(srl))
    BY <1>4, <1>6, <1>7
  <1>9. Len(M) > 0 /\ M[1] = srl[f]
    <2>1. Len(M) > 0 /\ 1 \in 1 .. (n - 1) - f + 1 /\ f + 1 - 1 = f
      BY <1>1, <1>2, <1>5
    <2> QED
      BY <1>5, <2>1
  <1>10. ASSUME NEW i \in 1 .. Len(M) PROVE M[i].lcn >= -1
    <2>1. i \in 1 .. (n - 1) - f + 1 /\ f + i - 1 \in f .. n - 1
      BY <1>1, <1>2, <1>5
    <2> QED
      BY <1>1, <1>5, <2>1
  <1>11. ASSUME NEW v \in Nat, NEW l \in Int, srl[f].vcn <= v
         PROVE  Says(M, v, l) <=> Says(s, v, l)
    <2>1. ASSUME Says(M, v, l) PROVE Says(s, v, l)
      <3>1. PICK i \in 1 .. Len(M) : M[i].vcn <= v /\ v < M[i].vcn + M[i].length /\ l = LcnIn(M[i], v)
        BY <2>1 DEF Says
      <3>2. f + i - 1 \in 1 .. n - 1 /\ M[i] = srl[f + i - 1]
        BY <1>1, <1>2, <1>5
      <3>3. f + i - 1 \in 1 .. Len(s) /\ s[f + i - 1] = M[i]
        BY <1>2, <3>2
      <3> QED
        BY <3>1, <3>3 DEF Says
    <2>2. ASSUME Says(s, v, l) PROVE Says(M, v, l)
      <3>1. PICK i \in 1 .. Len(s) : s[i].vcn <= v /\ v < s[i].vcn + s[i].length /\ l = LcnIn(s[i], v)
        BY <2>2 DEF Says
      <3>2. i >= f
        <4>1. SUFFICES ASSUME i < f PROVE FALSE
          BY <1>1, <1>2
        <4>2. f \in 1 .. Len(s)
          BY <1>1, <1>2
        <4>3. s[i].vcn + s[i].length <= s[f].vcn
          BY <1>2, <4>1, <4>2, ChainOrder
        <4>4. s[i].vcn \in Nat /\ s[i].length \in Nat /\ s[f].vcn \in Nat
          BY <1>2, <4>2, ChainRuns
        <4> QED
          BY <1>7, <1>11, <3>1, <4>3, <4>4
      <3>3. PICK k \in 1 .. (n - 1) - f + 1 : f + k - 1 = i
        <4>1. i - f + 1 \in 1 .. (n - 1) - f + 1 /\ f + (i - f + 1) - 1 = i
          BY <1>1, <1>2, <3>2
        <4> QED
          BY <4>1
      <3>4. k \in 1 .. Len(M) /\ M[k] = s[i]
        BY <1>2, <1>5, <3>3
      <3> QED
        BY <3>1, <3>4 DEF Says
    <2> QED
      BY <2>1, <2>2
  <1>12. M[Len(M)] = srl[n - 1]
    <2>1. Len(M) \in 1 .. (n - 1) - f + 1 /\ f + Len(M) - 1 = n - 1
      BY <1>1, <1>2, <1>5
    <2> QED
      BY <1>5, <2>1
  <1> QED
    BY <1>6, <1>8, <1>9, <1>10, <1>11, <1>12 DEF M, s

-----------------------------------------------------------------------------
(* ntfs_runlists_merge.                                                    *)

\* A list is its elements up to the last.
LEMMA WholeList ==
  ASSUME NEW s \in Seq(RunElement)
  PROVE  SubSeq(s, 1, Len(s)) = s
  OBVIOUS

\* The numbers behind the code's names.
LEMMA Markers ==
  RL!LCN_HOLE = -1 /\ RL!LCN_RL_NOT_MAPPED = -2 /\ RL!LCN_ENOENT = -3 /\ RL!NULL = <<>>
  BY DEF RL!LCN_HOLE, RL!LCN_RL_NOT_MAPPED, RL!LCN_ENOENT, RL!NULL

\* What the search in the two lists ends with.
LEMMA MergeFrom ==
  ASSUME NEW drl, IsRunlist(drl), NEW srl, NEW f, Source(srl, f), NEW i \in 1 .. Len(drl),
         i = Len(drl) \/ srl[f].vcn < drl[i].vcn + drl[i].length,
         i # 1 => drl[i].vcn <= srl[f].vcn
  PROVE  /\ RL!ntfs_runlists_merge(drl, srl) = RL!MergedAt(drl, srl, f, Len(srl), i)
         /\ RL!EndIndex(drl, i) = Len(drl) /\ RL!LastMapped(srl, Len(srl)) = Len(srl) - 1
         /\ SubSeq(drl, 1, Len(drl)) = drl
         /\ RL!EndOf(srl[Len(srl) - 1]) = EndVcn(srl)
         /\ srl[Len(srl)].vcn = EndVcn(srl) /\ srl[Len(srl)].lcn \in {-2, -3}
         /\ RL!EndOf(drl[i]) = drl[i].vcn + drl[i].length
  <1>1. IsRunlist(srl) /\ f \in 1 .. Len(srl) - 1
    BY DEF Source
  <1>2. /\ Len(drl) \in Nat \ {0} /\ Len(srl) \in Nat \ {0} /\ drl \in Seq(RunElement)
        /\ \A j \in 1 .. Len(srl) : srl[j].vcn \in Nat
    BY <1>1, RunsOfList DEF IsRunlist
  <1>3. /\ f \in 1 .. Len(srl) /\ Len(srl) - 1 \in 1 .. Len(srl) - 1
        /\ (Len(srl) - 1) + 1 = Len(srl)
    BY <1>1, <1>2
  <1>4. drl # RL!NULL
    BY <1>2, Markers
  <1>5. srl[f].length # 0 /\ srl[f].vcn \in Nat
    <2>1. \A j \in 1 .. Len(srl) - 1 : srl[j].length > 0
      BY <1>1 DEF IsRunlist
    <2>2. srl[f].length > 0 /\ srl[f].vcn \in Nat
      BY <1>1, <1>2, <1>3, <2>1
    <2> QED
      BY <2>2
  <1>6. RL!FirstMapped(srl) = f
    BY FirstIs
  <1>7. RL!EndIndex(srl, f) = Len(srl) /\ RL!EndIndex(drl, i) = Len(drl)
    BY <1>1, <1>3, EndIs
  <1>8. RL!PlaceFor(drl, srl[f].vcn) = i
    BY <1>5, PlaceIs
  <1>9. RL!ntfs_runlists_merge(drl, srl) = RL!MergedAt(drl, srl, f, Len(srl), i)
    BY <1>4, <1>5, <1>6, <1>7, <1>8 DEF RL!ntfs_runlists_merge, RL!MergedFrom
  <1>10. RL!EndOf(srl[Len(srl) - 1]) = EndVcn(srl)
    <2>1. srl[Len(srl) - 1].vcn + srl[Len(srl) - 1].length = srl[(Len(srl) - 1) + 1].vcn
      BY <1>1, <1>3 DEF IsRunlist
    <2> QED
      BY <1>3, <2>1 DEF RL!EndOf, EndVcn
  <1>11. srl[Len(srl)].vcn = EndVcn(srl) /\ srl[Len(srl)].lcn \in {-2, -3}
    BY <1>1 DEF EndVcn, IsRunlist
  <1> QED
    BY <1>2, <1>7, <1>9, <1>10, <1>11, WholeList, LastIs DEF RL!EndOf

\* The mapped runs of srl are in one run of drl.
LEMMA MergeInRun ==
  ASSUME NEW drl, NEW srl, NEW f, Source(srl, f), NEW i,
         InRun(drl, i, MappedRuns(srl, f), srl[f].vcn, EndVcn(srl)),
         srl[Len(srl)].lcn = -3 => EndVcn(srl) < drl[i].vcn + drl[i].length
  PROVE  MergedList(RL!ntfs_runlists_merge(drl, srl), drl,
                    MappedRuns(srl, f), srl[f].vcn, EndVcn(srl), EndVcn(drl))
  <1> DEFINE n == Len(srl)
             M == MappedRuns(srl, f)
             a == srl[f].vcn
             b == EndVcn(srl)
             h == drl[i]
             y == h.vcn + h.length
             start == h.lcn < RL!LCN_RL_NOT_MAPPED \/ h.vcn = srl[f].vcn
             ends == RL!ReachesEnd(drl, srl, i, n)
             finish == ends /\ ~(srl[n].lcn = RL!LCN_ENOENT /\ RL!EndOf(drl[i]) > srl[n - 1].vcn)
             z == RL!Merged(drl, M, i, start, finish)
  <1>1. /\ IsRunlist(drl) /\ i \in 1 .. Len(drl) - 1 /\ h.lcn \in {-1, -2}
        /\ h.vcn <= a /\ b <= y
    BY DEF InRun
  <1>2. /\ h.vcn \in Nat /\ h.length \in Nat /\ h.length > 0 /\ a \in Nat /\ b \in Nat /\ a < b
        /\ i \in 1 .. Len(drl) /\ Chain(SubSeq(drl, i + 1, Len(drl) - 1), y, EndVcn(drl))
    BY AroundRun
  <1>3. y <= EndVcn(drl) /\ EndVcn(drl) \in Nat
    BY <1>2, ChainOrder DEF Chain
  <1>4. /\ RL!ntfs_runlists_merge(drl, srl) = RL!MergedAt(drl, srl, f, n, i)
        /\ RL!EndIndex(drl, i) = Len(drl) /\ RL!LastMapped(srl, n) = n - 1
        /\ SubSeq(drl, 1, Len(drl)) = drl
        /\ RL!EndOf(srl[n - 1]) = b /\ RL!EndOf(h) = y
        /\ srl[n].vcn = b /\ srl[n].lcn \in {-2, -3}
    <2>1. a < y
      BY <1>1, <1>2
    <2> QED
      BY <1>1, <1>2, <2>1, MergeFrom
  <1>5. start <=> h.vcn = a
    BY <1>1, Markers
  <1>6. ends <=> y = b
    <2>1. ends <=> h.lcn >= -2 /\ y <= b
      BY <1>4, Markers DEF RL!ReachesEnd
    <2> QED
      BY <1>1, <1>2, <2>1, SMTT(40)
  <1>7. finish <=> y = b
    BY <1>2, <1>4, <1>6, Markers
  <1>8. RL!One(ends /\ h.length = 0) = 0 /\ (n - 1) + 0 = n - 1
    <2>1. n \in Nat
      BY RunsOfList DEF Source
    <2>2. ~(ends /\ h.length = 0)
      BY <1>2
    <2> HIDE DEF ends
    <2> QED
      BY <2>1, <2>2 DEF RL!One
  <1>9. RL!MergedAt(drl, srl, f, n, i) = RL!WithMarker(z, srl[n], Len(drl))
    <2>1. ~(h.lcn >= 0)
      BY <1>1
    <2> QED
      BY <1>4, <1>8, <2>1 DEF RL!MergedAt, MappedRuns
  <1> HIDE DEF start, ends, finish
  <1>10. MergedList(z, drl, M, a, b, EndVcn(drl))
    <2>1. CASE h.vcn = a /\ y = b
      <3>1. z = RL!ntfs_rl_replace(drl, M, i)
        BY <1>5, <1>7, <2>1 DEF RL!Merged
      <3> QED
        BY <2>1, <3>1, ReplaceInRun
    <2>2. CASE h.vcn = a /\ y # b
      <3>1. z = RL!ntfs_rl_insert(drl, M, i)
        BY <1>5, <1>7, <2>2 DEF RL!Merged
      <3>2. b < y
        BY <1>1, <1>2, <2>2
      <3> QED
        BY <2>2, <3>1, <3>2, InsertInRun
    <2>3. CASE h.vcn # a /\ y = b
      <3>1. z = RL!ntfs_rl_append(drl, M, i)
        BY <1>5, <1>7, <2>3 DEF RL!Merged
      <3>2. h.vcn < a
        BY <1>1, <1>2, <2>3
      <3> QED
        BY <2>3, <3>1, <3>2, AppendInRun
    <2>4. CASE h.vcn # a /\ y # b
      <3>1. z = RL!ntfs_rl_split(drl, M, i)
        BY <1>5, <1>7, <2>4 DEF RL!Merged
      <3>2. h.vcn < a /\ b < y
        <4>1. y \in Nat
          BY <1>2
        <4>2. \A p, q \in Nat : p <= q /\ p # q => p < q
          BY ONLY TRUE
        <4> HIDE DEF a, b, y
        <4>3. h.vcn < a
          BY <1>1, <1>2, <2>4, <4>2
        <4>4. b < y
          BY <1>1, <1>2, <2>4, <4>1, <4>2
        <4> QED
          BY <4>3, <4>4
      <3> QED
        BY <3>1, <3>2, SplitInRun
    <2> QED
      BY <2>1, <2>2, <2>3, <2>4
  <1> HIDE DEF z
  <1>11. RL!WithMarker(z, srl[n], Len(drl)) = z
    <2>1. CASE srl[n].lcn # -3
      BY <2>1, Markers DEF RL!WithMarker
    <2>2. CASE srl[n].lcn = -3
      <3>1. z[Len(z)].vcn = EndVcn(drl)
        BY <1>10 DEF MergedList, EndVcn
      <3>2. RL!Last(z).vcn > srl[n].vcn
        BY <1>2, <1>3, <1>4, <2>2, <3>1, SMTT(40) DEF RL!Last
      <3> QED
        BY <3>2 DEF RL!WithMarker
    <2> QED
      BY <2>1, <2>2
  <1> QED
    BY <1>4, <1>9, <1>10, <1>11

\* A list that ends where srl ends is not made longer.
LEMMA MarkerSame ==
  ASSUME NEW r, IsRunlist(r), NEW end, end.vcn = EndVcn(r), end.lcn = -3 => r[Len(r)].lcn = -3, NEW was
  PROVE  RL!WithMarker(r, end, was) = r
  <1>1. /\ r \in Seq(RunElement) /\ Len(r) \in Nat \ {0} /\ Len(r) \in 1 .. Len(r)
        /\ r[Len(r)] \in RunElement /\ r[Len(r)].vcn \in Nat
    <2>1. Len(r) \in Nat \ {0} /\ \A i \in 1 .. Len(r) : r[i] \in RunElement /\ r[i].vcn \in Nat
      BY RunsOfList
    <2>2. Len(r) \in 1 .. Len(r)
      BY <2>1
    <2> QED
      BY <2>1, <2>2 DEF IsRunlist
  <1>2. RL!Last(r) = r[Len(r)] /\ RL!Last(r).vcn = end.vcn /\ ~(RL!Last(r).vcn > end.vcn)
    BY <1>1 DEF RL!Last, EndVcn
  <1>3. CASE end.lcn # RL!LCN_ENOENT
    BY <1>3 DEF RL!WithMarker
  <1>4. CASE end.lcn = RL!LCN_ENOENT
    <2>1. r[Len(r)].lcn = -3
      BY <1>4, Markers
    <2>2. [r[Len(r)] EXCEPT !.lcn = -3] = r[Len(r)]
      BY <1>1, <2>1 DEF RunElement
    <2>3. [r EXCEPT ![Len(r)] = [r[Len(r)] EXCEPT !.lcn = -3]] = r
      BY <1>1, <2>2
    <2> QED
      BY <1>2, <2>3, Markers DEF RL!WithMarker
  <1> QED
    BY <1>3, <1>4

\* The mapped runs start behind the list d.
Behind(d, M, a, b) ==
    /\ IsRunlist(d) /\ d[1].vcn = 0 /\ EndVcn(d) <= a
    /\ Chain(M, a, b) /\ Len(M) > 0 /\ \A i \in 1 .. Len(M) : M[i].lcn >= -1

\* The pieces of the list and of the new runs, with their types.
LEMMA BehindFacts ==
  ASSUME NEW d, NEW M, NEW a, NEW b, Behind(d, M, a, b)
  PROVE  /\ Len(d) \in Nat \ {0} /\ Len(d) \in 1 .. Len(d) /\ d \in Seq(RunElement)
         /\ d[Len(d)] \in RunElement /\ d[Len(d)].vcn = EndVcn(d) /\ EndVcn(d) \in Nat
         /\ d[Len(d)].length = 0 /\ d[Len(d)].lcn \in {-2, -3}
         /\ Chain(RunsOf(d), 0, EndVcn(d)) /\ SubSeq(d, 1, Len(d) - 1) = RunsOf(d)
         /\ SubSeq(d, Len(d), Len(d)) = <<d[Len(d)]>> /\ SubSeq(d, Len(d) + 1, Len(d)) = <<>>
         /\ d = RunsOf(d) \o <<d[Len(d)]>> /\ Len(RunsOf(d)) + 1 = Len(d)
         /\ M \in Seq(RunElement) /\ Len(M) \in Nat \ {0} /\ M[1].vcn = a /\ M[1].lcn >= -1
         /\ a \in Nat /\ b \in Nat /\ a < b /\ M[1].length \in Nat /\ M[1].length > 0
  <1>1. /\ IsRunlist(d) /\ d[1].vcn = 0 /\ Chain(M, a, b) /\ Len(M) > 0
        /\ \A i \in 1 .. Len(M) : M[i].lcn >= -1
    BY DEF Behind
  <1>2. /\ Len(d) \in Nat \ {0} /\ Chain(RunsOf(d), 0, EndVcn(d))
        /\ \A i \in 1 .. Len(d) : d[i] \in RunElement /\ d[i].vcn \in Nat
        /\ d = RunsOf(d) \o <<d[Len(d)]>> /\ Len(RunsOf(d)) = Len(d) - 1
    BY <1>1, RunsOfList
  <1>3. Len(d) \in 1 .. Len(d) /\ d \in Seq(RunElement)
    BY <1>1, <1>2 DEF IsRunlist
  <1>4. /\ d[Len(d)] \in RunElement /\ d[Len(d)].vcn = EndVcn(d) /\ EndVcn(d) \in Nat
        /\ d[Len(d)].length = 0 /\ d[Len(d)].lcn \in {-2, -3}
    BY <1>1, <1>2, <1>3 DEF EndVcn, IsRunlist
  <1>5. SubSeq(d, Len(d), Len(d)) = <<d[Len(d)]>> /\ SubSeq(d, Len(d) + 1, Len(d)) = <<>>
    <2> DEFINE x == SubSeq(d, Len(d), Len(d))
               y == <<d[Len(d)]>>
               z == SubSeq(d, Len(d) + 1, Len(d))
    <2>1. x \in Seq(RunElement) /\ Len(x) = 1 /\ x[1] = d[Len(d)]
      BY <1>2, <1>3
    <2>2. y \in Seq(RunElement) /\ Len(y) = 1 /\ y[1] = d[Len(d)]
      BY <1>4
    <2>3. z \in Seq(RunElement) /\ Len(z) = 0
      BY <1>2, <1>3
    <2> HIDE DEF x, y, z
    <2>4. \A i \in 1 .. Len(x) : x[i] = y[i]
      BY <2>1, <2>2
    <2>5. x = y
      BY <2>1, <2>2, <2>4, SameSeq
    <2>6. z = <<>>
      BY <2>3
    <2> QED
      BY <2>5, <2>6 DEF x, y, z
  <1>6. /\ Len(M) \in Nat \ {0} /\ 1 \in 1 .. Len(M) /\ M \in Seq(RunElement)
        /\ M[1].vcn \in Nat /\ M[1].length \in Nat
    <2>1. /\ Len(M) \in Nat /\ M \in Seq(RunElement)
          /\ \A i \in 1 .. Len(M) : M[i].vcn \in Nat /\ M[i].length \in Nat
      BY <1>1, ChainRuns
    <2>2. Len(M) \in Nat \ {0} /\ 1 \in 1 .. Len(M)
      BY <1>1, <2>1
    <2> QED
      BY <2>1, <2>2
  <1>7. M[1].vcn = a /\ M[1].lcn >= -1 /\ a \in Nat /\ b \in Nat /\ M[1].length > 0
    BY <1>1, <1>6 DEF Chain
  <1>8. M[1].vcn + M[1].length <= b
    BY <1>1, <1>6, ChainOrder
  <1>9. a < b
    BY <1>6, <1>7, <1>8
  <1>10. Len(RunsOf(d)) + 1 = Len(d) /\ SubSeq(d, 1, Len(d) - 1) = RunsOf(d)
    <2>1. Len(RunsOf(d)) + 1 = Len(d)
      BY <1>2
    <2>2. SubSeq(d, 1, Len(d) - 1) = RunsOf(d)
      BY DEF RunsOf
    <2> QED
      BY <2>1, <2>2
  <1> QED
    BY <1>2, <1>3, <1>4, <1>5, <1>6, <1>7, <1>9, <1>10

\* The list with the new runs behind it.
LEMMA BehindPieces ==
  ASSUME NEW d, NEW M, NEW a, NEW b, Behind(d, M, a, b), NEW K, Chain(K, 0, b),
         \A v \in Nat, l \in Int :
            Says(K, v, l) <=> \/ Says(RunsOf(d), v, l)
                              \/ EndVcn(d) <= v /\ v < a /\ l = -2
                              \/ Says(M, v, l),
         NEW t \in RunElement, t.vcn = b, t.length = 0, t.lcn \in {-2, -3}
  PROVE  MergedList(K \o <<t>>, d, M, a, b, b)
  <1>1. /\ Chain(RunsOf(d), 0, EndVcn(d)) /\ EndVcn(d) \in Nat /\ a \in Nat /\ b \in Nat /\ a < b
    BY BehindFacts
  <1>2. Chain(M, a, b) /\ EndVcn(d) <= a
    BY DEF Behind
  <1>3. IsRunlist(K \o <<t>>) /\ RunsOf(K \o <<t>>) = K /\ (K \o <<t>>)[1].vcn = 0 /\ EndVcn(K \o <<t>>) = b
    BY ListOfRuns
  <1>4. ASSUME NEW v \in Nat, NEW l \in Int
        PROVE  Says(K, v, l) <=> v < b /\ After(d, M, a, b, v, l)
    <2>1. /\ Says(RunsOf(d), v, l) => v < EndVcn(d)
          /\ Says(M, v, l) => a <= v /\ v < b
      BY <1>1, <1>2, ChainSays
    <2>2. Says(K, v, l) <=> \/ Says(RunsOf(d), v, l)
                            \/ EndVcn(d) <= v /\ v < a /\ l = -2
                            \/ Says(M, v, l)
      OBVIOUS
    <2>3. After(d, M, a, b, v, l) <=>
             \/ a <= v /\ v < b /\ Says(M, v, l)
             \/ ~(a <= v /\ v < b) /\ v < EndVcn(d) /\ Says(RunsOf(d), v, l)
             \/ ~(a <= v /\ v < b) /\ v >= EndVcn(d) /\ l = -2
      BY DEF After
    <2> DEFINE e == EndVcn(d)
    <2>4. e \in Nat /\ e <= a
      BY <1>1, <1>2
    <2> HIDE DEF e
    <2>5. /\ v < e => v < b /\ ~(a <= v /\ v < b)
          /\ v < b /\ ~(a <= v /\ v < b) /\ v >= e => e <= v /\ v < a
          /\ e <= v /\ v < a => v < b /\ ~(a <= v /\ v < b) /\ v >= e
      BY <1>1, <2>4
    <2> QED
      BY <2>1, <2>2, <2>3, <2>5 DEF e
  <1> QED
    BY <1>3, <1>4 DEF MergedList

\* What is not known between the two, as a run or as none.
LEMMA GapIs ==
  ASSUME NEW e \in Nat, NEW a \in Nat, e <= a
  PROVE  /\ Chain(RL!Gap(e, a), e, a)
         /\ \A v \in Nat, l \in Int : Says(RL!Gap(e, a), v, l) <=> e <= v /\ v < a /\ l = -2
  <1>1. CASE a = e
    <2>1. RL!Gap(e, a) = <<>>
      BY <1>1 DEF RL!Gap
    <2>2. Chain(<<>>, e, a) /\ \A v, l : ~Says(<<>>, v, l)
      BY <1>1, ChainNone
    <2> QED
      BY <1>1, <2>1, <2>2
  <1>2. CASE a # e
    <2> DEFINE r == [vcn |-> e, lcn |-> -2, length |-> a - e]
    <2>1. RL!Gap(e, a) = <<r>>
      BY <1>2, Markers DEF RL!Gap, RL!Run
    <2>2. /\ r \in RunElement /\ r.vcn = e /\ r.lcn = -2 /\ r.length = a - e
          /\ r.length > 0 /\ r.lcn \in {-1, -2} /\ r.vcn + r.length = a
      BY <1>2 DEF RunElement
    <2> HIDE DEF r
    <2>3. /\ Chain(<<r>>, r.vcn, r.vcn + r.length)
          /\ \A v \in Nat, l \in Int :
                Says(<<r>>, v, l) <=> r.vcn <= v /\ v < r.vcn + r.length /\ l = r.lcn
      BY <2>2, HoleSays
    <2> QED
      BY <2>1, <2>2, <2>3
  <1> QED
    BY <1>1, <1>2

\* The last elements of a sequence that has got one more.
LEMMA TailWith ==
  ASSUME NEW M \in Seq(RunElement), NEW s \in RunElement, NEW k \in 0 .. Len(M)
  PROVE  /\ SubSeq(M \o <<s>>, 1 + k, Len(M \o <<s>>)) = SubSeq(M, 1 + k, Len(M)) \o <<s>>
         /\ Len(M \o <<s>>) = Len(M) + 1 /\ M \o <<s>> \in Seq(RunElement)
         /\ (M \o <<s>>)[Len(M) + 1] = s /\ \A i \in 1 .. Len(M) : (M \o <<s>>)[i] = M[i]
  <1> DEFINE c == M \o <<s>>
             x == SubSeq(c, 1 + k, Len(c))
             p == SubSeq(M, 1 + k, Len(M))
             q == p \o <<s>>
             n == Len(M)
  <1>1. /\ n \in Nat /\ c \in Seq(RunElement) /\ Len(c) = n + 1 /\ c[n + 1] = s
        /\ \A i \in 1 .. n : c[i] = M[i]
    OBVIOUS
  <1> HIDE DEF c
  <1>2. x \in Seq(RunElement) /\ Len(x) = n + 1 - k /\ \A i \in 1 .. n + 1 - k : x[i] = c[k + i]
    BY <1>1
  <1>3. p \in Seq(RunElement) /\ Len(p) = n - k /\ \A i \in 1 .. n - k : p[i] = M[k + i]
    BY <1>1
  <1> HIDE DEF p
  <1>4. /\ q \in Seq(RunElement) /\ Len(q) = Len(p) + 1 /\ q[Len(p) + 1] = s
        /\ \A i \in 1 .. Len(p) : q[i] = p[i]
    BY <1>3
  <1> HIDE DEF x, q
  <1>5. ASSUME NEW i \in 1 .. Len(x) PROVE x[i] = q[i]
    <2>1. CASE i \in 1 .. n - k
      <3>1. k + i \in 1 .. n /\ i \in 1 .. n + 1 - k
        BY <1>1, <2>1
      <3> QED
        BY <1>1, <1>2, <1>3, <1>4, <2>1, <3>1
    <2>2. CASE i = n + 1 - k
      <3>1. k + i = n + 1 /\ i = Len(p) + 1 /\ i \in 1 .. n + 1 - k
        BY <1>1, <1>2, <1>3, <2>2
      <3> QED
        BY <1>1, <1>2, <1>4, <3>1
    <2> QED
      BY <1>1, <1>2, <2>1, <2>2
  <1>6. Len(x) = Len(q)
    BY <1>1, <1>2, <1>3, <1>4
  <1>7. x = q
    BY <1>2, <1>4, <1>5, <1>6, SameSeq
  <1> QED
    BY <1>1, <1>7 DEF x, q, p, c

\* Behind a list whose end is the end of the attribute: the terminator moves.
LEMMA InsertBehind ==
  ASSUME NEW d, NEW M, NEW a, NEW b, Behind(d, M, a, b), d[Len(d)].lcn = -3
  PROVE  LET r == RL!ntfs_rl_insert(d, M, Len(d))
         IN  MergedList(r, d, M, a, b, b) /\ r[Len(r)].lcn = -3
  <1> DEFINE at == Len(d)
             t == d[at]
             e == EndVcn(d)
             P == SubSeq(d, 1, at - 1)
             left == RL!MergesLeft(d, M, at)
             head == RL!JoinedLeft(d, M, at)
             rest == SubSeq(M, 1 + RL!One(left), Len(M))
             m == IF left THEN M[1].vcn + M[1].length ELSE a
             G == IF left THEN <<>> ELSE RL!Gap(e, a)
             A == (head \o G) \o rest
             x == [t EXCEPT !.vcn = b]
             Goal == MergedList(RL!ntfs_rl_insert(d, M, at), d, M, a, b, b)
                     /\ RL!ntfs_rl_insert(d, M, at)[Len(RL!ntfs_rl_insert(d, M, at))].lcn = -3
  <1>1. /\ IsRunlist(d) /\ d[1].vcn = 0 /\ e <= a /\ Chain(M, a, b) /\ Len(M) > 0
    BY DEF Behind
  <1>2. /\ at \in Nat \ {0} /\ at \in 1 .. at
        /\ t \in RunElement /\ t.vcn = e /\ e \in Nat /\ t.length = 0
        /\ SubSeq(d, at, at) = <<t>> /\ P = RunsOf(d)
        /\ Len(M) \in Nat \ {0} /\ M[1].vcn = a /\ M[1].lcn >= -1
        /\ a \in Nat /\ b \in Nat /\ a < b /\ M[1].length \in Nat /\ M[1].length > 0
    BY BehindFacts
  <1>3. /\ left \in BOOLEAN /\ (left => a = d[at].vcn /\ at > 1)
        /\ Chain(head, 0, IF left THEN m ELSE d[at].vcn) /\ Chain(rest, m, b)
        /\ Len(head) = at - 1
        /\ \A v \in Nat, l \in Int :
              Says(head, v, l) \/ Says(rest, v, l) <=> Says(P, v, l) \/ Says(M, v, l)
    <2>1. at \in 1 .. Len(d) /\ M[1].lcn >= -1
      BY <1>2
    <2> HIDE DEF at
    <2> QED
      BY <1>1, <2>1, LeftJoin
  <1> HIDE DEF P, left, head, rest
  <1>4. Chain(head, 0, IF left THEN m ELSE e)
    BY <1>2, <1>3
  <1>5. /\ Chain(head \o G, 0, m)
        /\ \A v \in Nat, l \in Int :
              Says(head \o G, v, l) <=> Says(head, v, l) \/ (e <= v /\ v < a /\ l = -2)
    <2>1. CASE left
      <3>1. G = <<>> /\ m \in Nat
        BY <1>2, <2>1
      <3>2. Chain(head, 0, m)
        BY <1>4, <2>1
      <3>3. head \in Seq(RunElement)
        BY <3>2, ChainRuns
      <3>4. head \o G = head
        BY <3>1, <3>3
      <3>5. \A v \in Nat : ~(e <= v /\ v < a)
        BY <1>2, <1>3, <2>1
      <3> HIDE DEF m, G, e
      <3> QED
        BY <3>2, <3>4, <3>5
    <2>2. CASE ~left
      <3>1. G = RL!Gap(e, a) /\ m = a
        BY <2>2
      <3>2. Chain(head, 0, e)
        BY <1>4, <2>2
      <3>3. /\ Chain(RL!Gap(e, a), e, a)
            /\ \A v \in Nat, l \in Int : Says(RL!Gap(e, a), v, l) <=> e <= v /\ v < a /\ l = -2
        BY <1>1, <1>2, GapIs
      <3> HIDE DEF m, G, e
      <3>4. Chain(head \o G, 0, m) /\ Splits(head \o G, head, G)
        BY <3>1, <3>2, <3>3, ChainConcat
      <3> QED
        BY <3>1, <3>3, <3>4 DEF Splits
    <2> QED
      BY <2>1, <2>2
  <1>6. RL!Gap(IF at = 1 THEN 0 ELSE RL!EndOf(RL!Last(head)), M[1].vcn) = G
    <2> DEFINE c == IF left THEN m ELSE e
    <2>1. c = IF at = 1 THEN 0 ELSE RL!EndOf(RL!Last(head))
      <3>1. CASE at = 1
        <4>1. ~left
          BY <1>3, <3>1
        <4>2. e = 0
          BY <1>1, <3>1 DEF EndVcn
        <4> QED
          BY <3>1, <4>1, <4>2
      <3>2. CASE at # 1
        <4>1. Len(head) > 0 /\ Len(head) \in Nat
          BY <1>2, <1>3, <3>2
        <4>2. Chain(head, 0, c)
          BY <1>4
        <4> HIDE DEF c
        <4>3. head[Len(head)].vcn + head[Len(head)].length = c
          BY <4>1, <4>2 DEF Chain
        <4> QED
          BY <3>2, <4>3 DEF RL!EndOf, RL!Last
      <3> QED
        BY <3>1, <3>2
    <2>2. CASE left
      <3>1. ~(M[1].vcn > c)
        BY <1>2, <2>2
      <3>2. RL!Gap(c, M[1].vcn) = <<>>
        BY <3>1 DEF RL!Gap
      <3> QED
        BY <2>1, <2>2, <3>2
    <2>3. CASE ~left
      <3>1. c = e
        BY <2>3
      <3> HIDE DEF c, e
      <3> QED
        BY <1>2, <2>1, <2>3, <3>1
    <2> QED
      BY <1>3, <2>2, <2>3
  <1>7. /\ head \in Seq(RunElement) /\ rest \in Seq(RunElement) /\ head \o G \in Seq(RunElement)
        /\ G \in Seq(RunElement)
    <2>1. G \in Seq(RunElement)
      <3>1. RL!Gap(e, a) \in Seq(RunElement)
        BY <1>1, <1>2, GapIs, ChainRuns
      <3> HIDE DEF e
      <3> QED
        BY <3>1
    <2> HIDE DEF G
    <2> QED
      BY <1>3, <1>5, <2>1, ChainRuns
  <1> HIDE DEF G
  <1>8. Chain(A, 0, b) /\ Splits(A, head \o G, rest) /\ A \in Seq(RunElement)
    <2>1. Chain(A, 0, b) /\ Splits(A, head \o G, rest)
      BY <1>3, <1>5, ChainConcat
    <2> QED
      BY <2>1, ChainRuns
  <1>9. Len(A) = Len(head) + Len(G) + Len(rest) /\ Len(A) \in Nat
    BY <1>7
  <1> HIDE DEF A
  <1>10. Len(A) \in Nat \ {0} /\ A[Len(A)].vcn + A[Len(A)].length = b
    <2>1. Len(A) # 0
      BY <1>2, <1>8 DEF Chain
    <2> QED
      BY <1>8, <1>9, <2>1 DEF Chain
  <1>11. RL!ntfs_rl_insert(d, M, at) = RL!MovedRun(A \o <<t>>, Len(A) + 1)
    <2>1. RL!ntfs_rl_insert(d, M, at) = RL!Inserted(head, G, rest, <<t>>)
      BY <1>2, <1>6 DEF RL!ntfs_rl_insert, left, head, rest
    <2> HIDE DEF t, at
    <2> QED
      BY <1>9, <2>1 DEF RL!Inserted, A
  <1>12. x \in RunElement /\ x.vcn = b /\ x.length = 0 /\ x.lcn = -3
    <2> HIDE DEF e
    <2>1. t.lcn = -3
      OBVIOUS
    <2>2. x \in RunElement /\ x.vcn = b /\ x.lcn = t.lcn /\ x.length = t.length
      BY <1>2, RunChanged
    <2> HIDE DEF x, t
    <2> QED
      BY <1>2, <2>1, <2>2
  <1>13. RL!MovedRun(A \o <<t>>, Len(A) + 1) = A \o <<x>>
    <2> DEFINE u == A \o <<t>>
    <2>1. /\ u[Len(A) + 1] = t /\ u[Len(A)] = A[Len(A)]
      <3> HIDE DEF t
      <3> QED
        BY <1>2, <1>8, <1>10
    <2>2. [u EXCEPT ![Len(A) + 1] = x] = A \o <<x>>
      <3> HIDE DEF x, t
      <3> QED
        BY <1>2, <1>8, <1>12, ReplacedLast
    <2>3. (Len(A) + 1) - 1 = Len(A)
      BY <1>10
    <2>4. t.lcn = -3
      OBVIOUS
    <2> HIDE DEF u, t
    <2>5. RL!Moved(u, Len(A) + 1) = A \o <<x>>
      BY <1>10, <2>1, <2>2, <2>3 DEF RL!Moved, RL!EndOf
    <2>6. ~(u[Len(A) + 1].lcn \in {RL!LCN_HOLE, RL!LCN_RL_NOT_MAPPED})
      BY <2>1, <2>4, Markers
    <2> HIDE DEF x
    <2> QED
      BY <2>5, <2>6 DEF RL!MovedRun, u
  <1>14. ASSUME NEW v \in Nat, NEW l \in Int
         PROVE  Says(A, v, l) <=> \/ Says(RunsOf(d), v, l)
                                  \/ EndVcn(d) <= v /\ v < a /\ l = -2
                                  \/ Says(M, v, l)
    <2>1. Says(A, v, l) <=> Says(head \o G, v, l) \/ Says(rest, v, l)
      BY <1>8 DEF Splits
    <2>2. Says(head \o G, v, l) <=> Says(head, v, l) \/ (e <= v /\ v < a /\ l = -2)
      BY <1>5
    <2>3. Says(head, v, l) \/ Says(rest, v, l) <=> Says(RunsOf(d), v, l) \/ Says(M, v, l)
      BY <1>2, <1>3
    <2> QED
      BY <2>1, <2>2, <2>3
  <1> HIDE DEF x, t
  <1>15. MergedList(A \o <<x>>, d, M, a, b, b)
    BY <1>8, <1>12, <1>14, BehindPieces
  <1>16. (A \o <<x>>)[Len(A \o <<x>>)] = x
    BY <1>8, <1>12
  <1>17. RL!ntfs_rl_insert(d, M, at) = A \o <<x>>
    BY <1>11, <1>13
  <1>18. Goal
    <2> DEFINE r == A \o <<x>>
    <2>1. MergedList(r, d, M, a, b, b) /\ r[Len(r)].lcn = -3
      BY <1>12, <1>15, <1>16
    <2> HIDE DEF r
    <2> QED
      BY <1>17, <2>1 DEF r
  <1> QED
    BY <1>18

\* The terminator s of the new runs, which takes the place of the old one.
Ends(s, b) == s \in RunElement /\ s.vcn = b /\ s.length = 0 /\ s.lcn \in {-2, -3}

\* Right behind a list whose end is not known to be the end of the attribute.
LEMMA ReplaceBehind ==
  ASSUME NEW d, NEW M, NEW a, NEW b, Behind(d, M, a, b), EndVcn(d) = a, NEW s, Ends(s, b)
  PROVE  LET r == RL!ntfs_rl_replace(d, M \o <<s>>, Len(d))
         IN  MergedList(r, d, M, a, b, b) /\ r[Len(r)] = s
  <1> DEFINE at == Len(d)
             src == M \o <<s>>
             P == SubSeq(d, 1, at - 1)
             left == RL!MergesLeft(d, M, at)
             head == RL!JoinedLeft(d, M, at)
             rest == SubSeq(M, 1 + RL!One(left), Len(M))
             m == IF left THEN M[1].vcn + M[1].length ELSE a
             K == head \o rest
             r == K \o <<s>>
             Goal == MergedList(RL!ntfs_rl_replace(d, src, at), d, M, a, b, b)
                     /\ RL!ntfs_rl_replace(d, src, at)[Len(RL!ntfs_rl_replace(d, src, at))] = s
  <1>1. /\ IsRunlist(d) /\ d[1].vcn = 0 /\ Chain(M, a, b) /\ Len(M) > 0
        /\ s \in RunElement /\ s.vcn = b /\ s.length = 0 /\ s.lcn \in {-2, -3}
    BY DEF Behind, Ends
  <1>2. /\ at \in Nat \ {0} /\ at \in 1 .. at /\ d[at].vcn = a
        /\ SubSeq(d, at + 1, at) = <<>> /\ P = RunsOf(d)
        /\ Len(M) \in Nat \ {0} /\ M \in Seq(RunElement) /\ M[1].lcn >= -1 /\ a \in Nat
    BY BehindFacts
  <1>3. /\ left \in BOOLEAN /\ (left => at > 1)
        /\ Chain(head, 0, IF left THEN m ELSE d[at].vcn) /\ Chain(rest, m, b)
        /\ \A v \in Nat, l \in Int :
              Says(head, v, l) \/ Says(rest, v, l) <=> Says(P, v, l) \/ Says(M, v, l)
    <2>1. at \in 1 .. Len(d) /\ M[1].lcn >= -1
      BY <1>2
    <2> HIDE DEF at
    <2> QED
      BY <1>1, <2>1, LeftJoin
  <1>4. Chain(head, 0, m)
    <2> HIDE DEF head, left, rest, at
    <2> QED
      BY <1>2, <1>3
  <1>5. /\ src[1] = M[1] /\ Len(src) = Len(M) + 1
        /\ SubSeq(src, 1 + RL!One(left), Len(src)) = rest \o <<s>>
    <2>1. RL!One(left) \in 0 .. Len(M)
      BY <1>2 DEF RL!One
    <2>2. 1 \in 1 .. Len(M)
      BY <1>2
    <2> HIDE DEF left
    <2> QED
      BY <1>1, <1>2, <2>1, <2>2, TailWith, ZenonT(60)
  <1> HIDE DEF src
  <1>6. RL!MergesLeft(d, src, at) = left /\ RL!JoinedLeft(d, src, at) = head
    BY <1>5 DEF RL!MergesLeft, RL!JoinedLeft
  <1>7. ~RL!MergesRight(d, src, at) /\ RL!JoinedRight(d, src, at) = src
    <2>1. ~(at < Len(d))
      BY <1>2
    <2> QED
      BY <2>1 DEF RL!MergesRight, RL!JoinedRight
  <1> HIDE DEF left, head, rest, P
  <1>8. RL!One(RL!MergesRight(d, src, at)) = 0 /\ at + 0 + 1 = at + 1
    BY <1>2, <1>7 DEF RL!One
  <1>9. head \in Seq(RunElement) /\ rest \in Seq(RunElement) /\ <<s>> \in Seq(RunElement)
    BY <1>1, <1>3, <1>4, ChainRuns
  <1>10. (head \o (rest \o <<s>>)) \o <<>> = r
    <2>1. head \o (rest \o <<s>>) = r
      BY <1>9, Associative
    <2>2. r \in Seq(RunElement)
      BY <1>9
    <2> HIDE DEF r
    <2>3. r \o <<>> = r
      BY <2>2
    <2> QED
      BY <2>1, <2>3
  <1>11. RL!ntfs_rl_replace(d, src, at) = RL!FixEndMarker(r, at + Len(src) - RL!One(left))
    <2> HIDE DEF r
    <2> QED
      BY <1>2, <1>5, <1>6, <1>7, <1>8, <1>10 DEF RL!ntfs_rl_replace, RL!Replaced
  <1>12. Chain(K, 0, b) /\ Splits(K, head, rest)
    BY <1>3, <1>4, ChainConcat
  <1> HIDE DEF K
  <1>13. ASSUME NEW v \in Nat, NEW l \in Int
         PROVE  Says(K, v, l) <=> \/ Says(RunsOf(d), v, l)
                                  \/ EndVcn(d) <= v /\ v < a /\ l = -2
                                  \/ Says(M, v, l)
    <2>1. ~(EndVcn(d) <= v /\ v < a)
      BY <1>2
    <2>2. Says(K, v, l) <=> Says(head, v, l) \/ Says(rest, v, l)
      BY <1>12 DEF Splits
    <2>3. Says(head, v, l) \/ Says(rest, v, l) <=> Says(RunsOf(d), v, l) \/ Says(M, v, l)
      BY <1>2, <1>3
    <2> QED
      BY <2>1, <2>2, <2>3
  <1>14. MergedList(r, d, M, a, b, b)
    BY <1>1, <1>12, <1>13, BehindPieces
  <1>15. RL!FixEndMarker(r, at + Len(src) - RL!One(left)) = r
    <2>1. IsRunlist(r)
      BY <1>14 DEF MergedList
    <2>2. RL!One(left) \in {0, 1}
      BY DEF RL!One
    <2>3. at + Len(src) - RL!One(left) \in Nat /\ at + Len(src) - RL!One(left) >= 2
      <3> DEFINE o == RL!One(left)
      <3>1. at \in Nat \ {0} /\ Len(src) \in Nat /\ Len(src) >= 2 /\ o \in {0, 1}
        BY <1>2, <1>5, <2>2
      <3> HIDE DEF o, at
      <3>2. \A p, q \in Nat : \A k \in {0, 1} :
               p > 0 /\ q >= 2 => p + q - k \in Nat /\ p + q - k >= 2
        BY ONLY TRUE
      <3>3. at + Len(src) - o \in Nat /\ at + Len(src) - o >= 2
        BY <3>1, <3>2
      <3> QED
        BY <3>3 DEF o
    <2> HIDE DEF r
    <2> QED
      BY <2>1, <2>3, MarkerFixed
  <1>16. r[Len(r)] = s
    <2>1. K \in Seq(RunElement)
      BY <1>12, ChainRuns
    <2> QED
      BY <1>1, <2>1
  <1> HIDE DEF r
  <1>17. Goal
    BY <1>11, <1>14, <1>15, <1>16
  <1> QED
    BY <1>17 DEF src

\* Further behind such a list: its terminator becomes a run that is not mapped.
LEMMA AppendBehind ==
  ASSUME NEW d, NEW M, NEW a, NEW b, Behind(d, M, a, b), EndVcn(d) < a, d[Len(d)].lcn = -2,
         NEW s, Ends(s, b)
  PROVE  LET r == RL!ntfs_rl_append(d, M \o <<s>>, Len(d))
         IN  MergedList(r, d, M, a, b, b) /\ r[Len(r)] = s
  <1> DEFINE at == Len(d)
             src == M \o <<s>>
             t == d[at]
             e == EndVcn(d)
             C == RunsOf(d)
             y == [t EXCEPT !.length = a - e]
             D == C \o <<y>>
             K == D \o M
             r == K \o <<s>>
             Goal == MergedList(RL!ntfs_rl_append(d, src, at), d, M, a, b, b)
                     /\ RL!ntfs_rl_append(d, src, at)[Len(RL!ntfs_rl_append(d, src, at))] = s
  <1>1. /\ IsRunlist(d) /\ Chain(M, a, b)
        /\ s \in RunElement /\ s.vcn = b /\ s.length = 0 /\ s.lcn \in {-2, -3}
    BY DEF Behind, Ends
  <1>2. /\ at \in Nat \ {0} /\ t \in RunElement /\ t.vcn = e /\ e \in Nat
        /\ SubSeq(d, at + 1, at) = <<>> /\ d \in Seq(RunElement)
        /\ Chain(C, 0, e) /\ d = C \o <<t>> /\ Len(C) + 1 = at
        /\ Len(M) \in Nat \ {0} /\ M \in Seq(RunElement) /\ M[1].vcn = a /\ a \in Nat
    BY BehindFacts
  <1>3. t.lcn = -2 /\ e < a
    OBVIOUS
  <1>4. SubSeq(d, 1, at) = d
    BY <1>2, WholeList
  <1>5. /\ src[1] = M[1] /\ Len(src) = Len(M) + 1 /\ src \in Seq(RunElement)
    <2>1. 0 \in 0 .. Len(M) /\ 1 \in 1 .. Len(M)
      BY <1>2
    <2> QED
      BY <1>1, <1>2, <2>1, TailWith
  <1>6. C \in Seq(RunElement)
    BY <1>2, ChainRuns
  <1> HIDE DEF src, C, e, t
  <1>7. y \in RunElement /\ y.vcn = e /\ y.lcn = -2 /\ y.length = a - e
    <2>1. a - e \in Nat /\ t \in RunElement
      BY <1>2, <1>3
    <2>2. y \in RunElement /\ y.vcn = t.vcn /\ y.lcn = t.lcn /\ y.length = a - e
      BY <2>1, RunChanged
    <2> HIDE DEF y
    <2> QED
      BY <1>2, <1>3, <2>2
  <1>8. RL!FillUpTo(Around(C, t, src), Len(C) + 1) = Around(C, y, src)
    <2> DEFINE x == [t EXCEPT !.length = src[1].vcn - t.vcn]
    <2>1. /\ Len(src) > 0 /\ src[1].vcn >= t.vcn
          /\ C \in Seq(RunElement) /\ src \in Seq(RunElement) /\ t \in RunElement
      BY <1>2, <1>3, <1>5, <1>6
    <2>2. RL!FillUpTo(Around(C, t, src), Len(C) + 1) = Around(C, x, src)
      BY <2>1, FilledUp, ZenonT(60)
    <2>3. x = y
      BY <1>2, <1>5
    <2> HIDE DEF x, y
    <2> QED
      BY <2>2, <2>3
  <1> HIDE DEF y
  <1>9. ~RL!MergesRight(d, src, at) /\ RL!JoinedRight(d, src, at) = src
    <2>1. ~(at < Len(d))
      BY <1>2
    <2> QED
      BY <2>1 DEF RL!MergesRight, RL!JoinedRight
  <1>10. RL!One(RL!MergesRight(d, src, at)) = 0 /\ at + 1 + 0 = at + 1
    BY <1>2, <1>9 DEF RL!One
  <1>11. (d \o src) \o <<>> = Around(C, t, src)
    <2> DEFINE u == d \o src
    <2>1. u \in Seq(RunElement)
      BY <1>2, <1>5
    <2>2. u = Around(C, t, src)
      BY <1>2 DEF Around
    <2> HIDE DEF u
    <2>3. u \o <<>> = u
      BY <2>1
    <2> QED
      BY <2>2, <2>3 DEF u
  <1>12. D \in Seq(RunElement) /\ <<s>> \in Seq(RunElement)
    BY <1>1, <1>6, <1>7
  <1>13. Around(C, y, src) = r
    <2>1. D \o (M \o <<s>>) = (D \o M) \o <<s>>
      <3> HIDE DEF D
      <3> QED
        BY <1>2, <1>12, Associative
    <2> QED
      BY <2>1 DEF Around, src
  <1> HIDE DEF r
  <1>14. RL!ntfs_rl_append(d, src, at) = RL!FixEndMarker(r, at + Len(src) + 1)
    <2>1. RL!FillUpTo(Around(C, t, src), at) = r
      BY <1>2, <1>8, <1>13
    <2>2. (SubSeq(d, 1, at) \o RL!JoinedRight(d, src, at))
             \o SubSeq(d, at + 1 + RL!One(RL!MergesRight(d, src, at)), at) = Around(C, t, src)
      BY <1>2, <1>4, <1>9, <1>10, <1>11
    <2> QED
      BY <2>1, <2>2 DEF RL!ntfs_rl_append
  <1>15. /\ Chain(<<y>>, e, a)
         /\ \A v \in Nat, l \in Int : Says(<<y>>, v, l) <=> e <= v /\ v < a /\ l = -2
    <2>1. y.length > 0 /\ y.vcn + y.length = a /\ y.lcn \in {-1, -2}
      BY <1>2, <1>3, <1>7
    <2>2. /\ Chain(<<y>>, y.vcn, y.vcn + y.length)
          /\ \A v \in Nat, l \in Int :
                Says(<<y>>, v, l) <=> y.vcn <= v /\ v < y.vcn + y.length /\ l = y.lcn
      BY <1>7, <2>1, HoleSays
    <2> QED
      BY <1>7, <2>1, <2>2
  <1>16. Chain(D, 0, a) /\ Splits(D, C, <<y>>)
    BY <1>2, <1>15, ChainConcat
  <1> HIDE DEF D
  <1>17. Chain(K, 0, b) /\ Splits(K, D, M)
    BY <1>1, <1>16, ChainConcat
  <1> HIDE DEF K
  <1>18. ASSUME NEW v \in Nat, NEW l \in Int
         PROVE  Says(K, v, l) <=> \/ Says(RunsOf(d), v, l)
                                  \/ EndVcn(d) <= v /\ v < a /\ l = -2
                                  \/ Says(M, v, l)
    BY <1>15, <1>16, <1>17 DEF Splits, C, e
  <1>19. MergedList(r, d, M, a, b, b)
    <2>1. MergedList(K \o <<s>>, d, M, a, b, b)
      BY <1>1, <1>17, <1>18, BehindPieces
    <2> QED
      BY <2>1 DEF r
  <1>20. RL!FixEndMarker(r, at + Len(src) + 1) = r
    <2>1. IsRunlist(r)
      BY <1>19 DEF MergedList
    <2>2. at + Len(src) + 1 \in Nat /\ at + Len(src) + 1 >= 2
      BY <1>2, <1>5
    <2> QED
      BY <2>1, <2>2, MarkerFixed
  <1>21. r[Len(r)] = s
    <2>1. K \in Seq(RunElement)
      BY <1>17, ChainRuns
    <2> QED
      BY <1>1, <2>1 DEF r
  <1>22. Goal
    BY <1>14, <1>19, <1>20, <1>21
  <1> QED
    BY <1>22 DEF src

\* The mapped runs of srl start behind drl.
LEMMA MergeBehind ==
  ASSUME NEW drl, IsRunlist(drl), drl[1].vcn = 0, NEW srl, NEW f, Source(srl, f),
         EndVcn(drl) <= srl[f].vcn
  PROVE  MergedList(RL!ntfs_runlists_merge(drl, srl), drl,
                    MappedRuns(srl, f), srl[f].vcn, EndVcn(srl), EndVcn(srl))
  <1> DEFINE n == Len(srl)
             M == MappedRuns(srl, f)
             a == srl[f].vcn
             b == EndVcn(srl)
             i == Len(drl)
             t == drl[i]
             e == EndVcn(drl)
             s == srl[n]
             start == t.lcn < RL!LCN_RL_NOT_MAPPED \/ t.vcn = srl[f].vcn
             ends == RL!ReachesEnd(drl, srl, i, n)
             finish == ends /\ ~(s.lcn = RL!LCN_ENOENT /\ RL!EndOf(drl[i]) > srl[n - 1].vcn)
             sfinal == (n - 1) + RL!One(ends /\ t.length = 0)
             z == RL!Merged(drl, SubSeq(srl, f, sfinal), i, start, finish)
  <1>1. /\ Chain(M, a, b) /\ Len(M) > 0 /\ \A j \in 1 .. Len(M) : M[j].lcn >= -1
        /\ SubSeq(RunsOf(srl), f, n - 1) = M /\ M[Len(M)] = srl[n - 1]
    BY MappedIs
  <1>2. Behind(drl, M, a, b)
    BY <1>1 DEF Behind
  <1>3. /\ i \in Nat \ {0} /\ i \in 1 .. i /\ t.vcn = e /\ e \in Nat /\ t.length = 0 /\ t.lcn \in {-2, -3}
        /\ a \in Nat /\ b \in Nat /\ a < b /\ Len(M) \in Nat \ {0}
    <2> HIDE DEF M, a, b
    <2> QED
      BY <1>2, BehindFacts
  <1>4. /\ IsRunlist(srl) /\ f \in 1 .. n - 1
    BY DEF Source
  <1>5. n \in Nat \ {0} /\ f \in Nat \ {0} /\ n \in 1 .. n /\ s \in RunElement
    <2>1. n \in Nat \ {0} /\ \A j \in 1 .. n : srl[j] \in RunElement
      BY <1>4, RunsOfList
    <2> QED
      BY <1>4, <2>1
  <1>6. /\ RL!ntfs_runlists_merge(drl, srl) = RL!MergedAt(drl, srl, f, n, i)
        /\ RL!EndIndex(drl, i) = Len(drl) /\ RL!LastMapped(srl, n) = n - 1
        /\ SubSeq(drl, 1, Len(drl)) = drl
        /\ RL!EndOf(srl[n - 1]) = b /\ RL!EndOf(t) = t.vcn + t.length
        /\ s.vcn = b /\ s.lcn \in {-2, -3}
    <2>1. i \in 1 .. Len(drl) /\ drl[i].vcn <= srl[f].vcn /\ i = Len(drl)
      BY <1>3
    <2> HIDE DEF i
    <2> QED
      BY <2>1, MergeFrom
  <1>7. RL!EndOf(t) = e
    BY <1>3, <1>6
  <1>8. Ends(s, b)
    BY <1>4, <1>5, <1>6 DEF Ends, IsRunlist
  <1>9. RL!MergedAt(drl, srl, f, n, i) = RL!WithMarker(z, s, Len(drl))
    <2>1. ~(t.lcn >= 0)
      BY <1>3
    <2> QED
      BY <1>6, <2>1 DEF RL!MergedAt
  <1>10. ends <=> t.lcn = -2
    <2>1. ends <=> t.lcn >= -2 /\ e <= b
      BY <1>6, <1>7, Markers DEF RL!ReachesEnd
    <2> QED
      BY <1>3, <2>1
  <1>11. MergedList(z, drl, M, a, b, b) /\ (s.lcn = -3 => z[Len(z)].lcn = -3)
    <2>1. CASE t.lcn = -3
      <3>1. ~ends /\ ~finish
        BY <1>10, <2>1
      <3>2. start
        BY <2>1, Markers
      <3>3. SubSeq(srl, f, sfinal) = M
        <4>1. ~(ends /\ t.length = 0)
          BY <3>1
        <4> HIDE DEF ends
        <4>2. RL!One(ends /\ t.length = 0) = 0
          BY <4>1 DEF RL!One
        <4>3. sfinal = n - 1
          BY <1>5, <4>2
        <4> HIDE DEF sfinal
        <4> QED
          BY <4>3 DEF MappedRuns
      <3> HIDE DEF start, finish, sfinal, ends
      <3>4. z = RL!ntfs_rl_insert(drl, M, i)
        BY <3>1, <3>2, <3>3 DEF RL!Merged
      <3> HIDE DEF z, M, a, b
      <3> QED
        BY <1>2, <2>1, <3>4, InsertBehind
    <2>2. CASE t.lcn = -2
      <3>1. ends /\ finish
        <4>1. ends
          BY <1>10, <2>2
        <4>2. a <= srl[n - 1].vcn /\ srl[n - 1].vcn \in Nat
          <5>1. Len(M) \in 1 .. Len(M)
            BY <1>3
          <5> HIDE DEF M, a, b
          <5>2. a <= M[Len(M)].vcn /\ M[Len(M)].vcn \in Nat
            BY <1>1, <5>1, ChainOrder, ChainRuns
          <5> QED
            BY <1>1, <5>2
        <4>3. ~(e > srl[n - 1].vcn)
          BY <1>3, <4>2
        <4> HIDE DEF ends
        <4> QED
          BY <1>7, <4>1, <4>3
      <3>2. start <=> e = a
        BY <1>3, <2>2, Markers
      <3>3. SubSeq(srl, f, sfinal) = M \o <<s>>
        <4>1. sfinal = n
          <5>1. ends /\ t.length = 0
            BY <1>3, <3>1
          <5> HIDE DEF ends
          <5>2. RL!One(ends /\ t.length = 0) = 1
            BY <5>1 DEF RL!One
          <5> QED
            BY <1>5, <5>2
        <4> DEFINE R == RunsOf(srl)
        <4>2. R \in Seq(RunElement) /\ Len(R) = n - 1 /\ srl = R \o <<s>>
          BY <1>4, RunsOfList, ChainRuns
        <4>3. f - 1 \in 0 .. Len(R) /\ 1 + (f - 1) = f
          BY <1>4, <1>5, <4>2
        <4> HIDE DEF R, s, sfinal
        <4>4. SubSeq(R \o <<s>>, 1 + (f - 1), Len(R \o <<s>>)) = SubSeq(R, 1 + (f - 1), Len(R)) \o <<s>>
          BY <1>5, <4>2, <4>3, TailWith
        <4>5. SubSeq(R, f, n - 1) = M
          BY <1>1 DEF R
        <4> QED
          BY <4>1, <4>2, <4>3, <4>4, <4>5
      <3> HIDE DEF start, finish, sfinal, ends
      <3>4. CASE e = a
        <4>1. z = RL!ntfs_rl_replace(drl, M \o <<s>>, i)
          BY <3>1, <3>2, <3>3, <3>4 DEF RL!Merged
        <4> HIDE DEF z, M, a, b, s
        <4>2. MergedList(z, drl, M, a, b, b) /\ z[Len(z)] = s
          BY <1>2, <1>8, <3>4, <4>1, ReplaceBehind
        <4> QED
          BY <4>2
      <3>5. CASE e # a
        <4>1. z = RL!ntfs_rl_append(drl, M \o <<s>>, i)
          BY <3>1, <3>2, <3>3, <3>5 DEF RL!Merged
        <4>2. e < a
          BY <1>3, <3>5
        <4> HIDE DEF z, M, a, b, s
        <4>3. MergedList(z, drl, M, a, b, b) /\ z[Len(z)] = s
          BY <1>2, <1>8, <2>2, <4>1, <4>2, AppendBehind
        <4> QED
          BY <4>3
      <3> QED
        BY <3>4, <3>5
    <2> QED
      BY <1>3, <2>1, <2>2
  <1> HIDE DEF z
  <1>12. RL!WithMarker(z, s, Len(drl)) = z
    <2>1. IsRunlist(z) /\ EndVcn(z) = b
      BY <1>11 DEF MergedList
    <2> HIDE DEF s, b
    <2> QED
      BY <1>6, <1>11, <2>1, MarkerSame
  <1> QED
    BY <1>6, <1>9, <1>11, <1>12

\* There is room in the list drl for what srl maps from VCN a to VCN b: behind it, or in
\* one hole or run that is not mapped (where a list that tells the end of the attribute
\* must not reach the end of that run).
Room(drl, srl, a, b) ==
    \/ EndVcn(drl) <= a
    \/ \E i \in 1 .. Len(drl) - 1 :
          /\ drl[i].lcn \in {-1, -2} /\ drl[i].vcn <= a
          /\ b <= drl[i].vcn + drl[i].length
          /\ srl[Len(srl)].lcn = -3 => b < drl[i].vcn + drl[i].length

\* ntfs_runlists_merge, for lists of any length: the clusters that srl maps are found where
\* srl has them, all others where they were; what is between the two is not mapped; runs
\* neither overlap nor leave gaps.
THEOREM MergeCorrect ==
  ASSUME NEW drl, IsRunlist(drl), drl[1].vcn = 0, NEW srl, NEW f, Source(srl, f),
         Room(drl, srl, srl[f].vcn, EndVcn(srl))
  PROVE  LET r == RL!ntfs_runlists_merge(drl, srl)
             a == srl[f].vcn
             b == EndVcn(srl)
         IN  /\ IsRunlist(r) /\ r[1].vcn = 0
             /\ EndVcn(r) = IF EndVcn(drl) <= a THEN b ELSE EndVcn(drl)
             /\ \A v \in 0 .. EndVcn(r) - 1 :
                   RL!ntfs_rl_vcn_to_lcn(r, v) =
                      IF a <= v /\ v < b THEN RL!ntfs_rl_vcn_to_lcn(srl, v)
                      ELSE IF v < EndVcn(drl) THEN RL!ntfs_rl_vcn_to_lcn(drl, v)
                      ELSE -2
  <1> DEFINE r == RL!ntfs_runlists_merge(drl, srl)
             a == srl[f].vcn
             b == EndVcn(srl)
             M == MappedRuns(srl, f)
             c == IF EndVcn(drl) <= a THEN b ELSE EndVcn(drl)
             Found(v) == IF a <= v /\ v < b THEN RL!ntfs_rl_vcn_to_lcn(srl, v)
                         ELSE IF v < EndVcn(drl) THEN RL!ntfs_rl_vcn_to_lcn(drl, v)
                         ELSE -2
             Goal == /\ IsRunlist(r) /\ r[1].vcn = 0 /\ EndVcn(r) = c
                     /\ \A v \in 0 .. EndVcn(r) - 1 : RL!ntfs_rl_vcn_to_lcn(r, v) = Found(v)
  <1>1. /\ Chain(M, a, b) /\ Len(M) > 0 /\ \A j \in 1 .. Len(M) : M[j].lcn >= -1
        /\ \A v \in Nat, l \in Int : a <= v => (Says(M, v, l) <=> Says(RunsOf(srl), v, l))
    BY MappedIs
  <1>2. a \in Nat /\ b \in Nat /\ EndVcn(drl) \in Nat
    <2>1. Chain(RunsOf(drl), drl[1].vcn, EndVcn(drl))
      BY RunsOfList
    <2> QED
      BY <1>1, <2>1 DEF Chain
  <1>3. IsRunlist(srl) /\ srl[1].vcn <= a /\ srl[1].vcn \in Nat
    <2>1. IsRunlist(srl) /\ f \in 1 .. Len(srl) - 1
      BY DEF Source
    <2>2. /\ Chain(RunsOf(srl), srl[1].vcn, b) /\ Len(RunsOf(srl)) = Len(srl) - 1
          /\ \A j \in 1 .. Len(srl) - 1 : RunsOf(srl)[j] = srl[j]
      BY <2>1, RunsOfList
    <2>3. srl[1].vcn <= RunsOf(srl)[f].vcn
      BY <2>1, <2>2, ChainOrder
    <2>4. srl[1].vcn \in Nat
      BY <2>2 DEF Chain
    <2> QED
      BY <2>1, <2>2, <2>3, <2>4
  <1>4. MergedList(r, drl, M, a, b, c)
    <2>1. CASE EndVcn(drl) <= a
      <3>1. MergedList(r, drl, M, a, b, b)
        BY <2>1, MergeBehind
      <3> HIDE DEF r, M
      <3> QED
        BY <2>1, <3>1
    <2>2. CASE ~(EndVcn(drl) <= a)
      <3>1. PICK i \in 1 .. Len(drl) - 1 :
               /\ drl[i].lcn \in {-1, -2} /\ drl[i].vcn <= a
               /\ b <= drl[i].vcn + drl[i].length
               /\ srl[Len(srl)].lcn = -3 => b < drl[i].vcn + drl[i].length
        BY <2>2 DEF Room
      <3>2. InRun(drl, i, M, a, b)
        BY <1>1, <3>1 DEF InRun
      <3>3. MergedList(r, drl, M, a, b, EndVcn(drl))
        BY <3>1, <3>2, MergeInRun
      <3> HIDE DEF r, M
      <3> QED
        BY <2>2, <3>3
    <2> QED
      BY <2>1, <2>2
  <1> HIDE DEF r, M, a, b, c
  <1>5. /\ IsRunlist(r) /\ r[1].vcn = 0 /\ EndVcn(r) = c /\ c \in Nat
        /\ \A v \in Nat, l \in Int : Says(RunsOf(r), v, l) <=> v < c /\ After(drl, M, a, b, v, l)
    BY <1>2, <1>4 DEF MergedList, c
  <1>6. ASSUME NEW v \in 0 .. EndVcn(r) - 1
        PROVE  RL!ntfs_rl_vcn_to_lcn(r, v) = Found(v)
    <2>1. v \in Nat /\ v < c /\ v < EndVcn(r) /\ r[1].vcn <= v /\ drl[1].vcn <= v
      BY <1>5
    <2>2. /\ RL!ntfs_rl_vcn_to_lcn(r, v) \in Int
          /\ \A l \in Int : RL!ntfs_rl_vcn_to_lcn(r, v) = l <=> Says(RunsOf(r), v, l)
      BY <1>5, <2>1, LookupIs
    <2> SUFFICES Found(v) \in Int /\ After(drl, M, a, b, v, Found(v))
      BY <1>5, <2>1, <2>2
    <2>3. CASE a <= v /\ v < b
      <3> DEFINE l == RL!ntfs_rl_vcn_to_lcn(srl, v)
      <3>1. srl[1].vcn <= v /\ v < EndVcn(srl)
        BY <1>2, <1>3, <2>1, <2>3 DEF b
      <3>2. l \in Int /\ Says(RunsOf(srl), v, l)
        BY <1>3, <2>1, <3>1, LookupIs
      <3>3. Says(M, v, l)
        BY <1>1, <2>1, <2>3, <3>2
      <3>4. Found(v) = l
        BY <2>3
      <3> HIDE DEF l, Found
      <3> QED
        BY <2>3, <3>2, <3>3, <3>4 DEF After
    <2>4. CASE ~(a <= v /\ v < b) /\ v < EndVcn(drl)
      <3> DEFINE l == RL!ntfs_rl_vcn_to_lcn(drl, v)
      <3>1. l \in Int /\ Says(RunsOf(drl), v, l)
        BY <2>1, <2>4, LookupIs
      <3>2. Found(v) = l
        BY <2>4
      <3> HIDE DEF l, Found
      <3> QED
        BY <2>4, <3>1, <3>2 DEF After
    <2>5. CASE ~(a <= v /\ v < b) /\ ~(v < EndVcn(drl))
      <3>1. Found(v) = -2 /\ v >= EndVcn(drl)
        BY <1>2, <2>1, <2>5
      <3> HIDE DEF Found
      <3> QED
        BY <2>5, <3>1 DEF After
    <2> QED
      BY <2>3, <2>4, <2>5
  <1>7. Goal
    BY <1>5, <1>6
  <1> QED
    BY <1>7 DEF r, a, b, c
=============================================================================
