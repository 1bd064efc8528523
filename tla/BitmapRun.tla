----------------------------- MODULE BitmapRun -----------------------------
(***************************************************************************)
(* ntfs_bitmap_set_bits_in_run of libntfs-3g/bitmap.c: a run of bits of a  *)
(* bitmap attribute is set or cleared through a buffer of at most BufCap   *)
(* bytes.  Only whole bytes are written, so the bits around the run are    *)
(* first read into the partial byte at either end.  Every read and write   *)
(* of the attribute may fail, a write after some of its bytes.             *)
(*                                                                         *)
(* A byte has Bits bits (8 in the code) and the buffer BufCap bytes (8192  *)
(* in the code): the arithmetic uses neither value.  The module has no     *)
(* next-state relation of its own: LcnAlloc takes these steps when it      *)
(* frees clusters.                                                         *)
(***************************************************************************)
EXTENDS Integers, FiniteSetsExt

CONSTANTS Bits,    \* bits of a byte
          BufCap,  \* the most bytes in the buffer
          Bytes    \* bytes of the bitmap attribute

VARIABLES
    disk,  \* the bits of the attribute
    loc    \* the arguments and local variables of the call in progress

BitSet == 0 .. Bytes * Bits - 1
BufBits == 0 .. BufCap * Bits - 1

\* No call: pc is "idle".
NoCall == [pc |-> "idle"]

(***************************************************************************)
(* Mutations of the definitions below, for checking that the properties    *)
(* can fail.                                                               *)
(***************************************************************************)
\* The partial first byte stays in the buffer and is written again.
Refilled_stale(b) == b

\* Bytes that n bits need.
BytesOf(n) == (n + Bits - 1) \div Bits

(***************************************************************************)
(* The call up to the loop: the buffer is sized and filled with the value, *)
(* and the partial first byte, if any, is read into it and updated.        *)
(***************************************************************************)
Begin(first, number, value) ==
    LET lead == first % Bits
        part == IF lead = 0 THEN 0 ELSE 1
        inFirst == IF lead = 0 THEN 0 ELSE Min({Bits - lead, number})
        rest == IF lead # 0 /\ number < Bits - lead THEN -1 ELSE number - inFirst
    IN  /\ loc.pc = "idle"
        /\ loc' = [pc |-> "window", run |-> first .. first + number - 1, value |-> value,
                   before |-> disk,        \* history: the bits when the call was made
                   start |-> BytesOf(first) * Bits,
                   count |-> rest,         \* -1 when the run ends in its first byte
                   firstbyte |-> part,
                   bit |-> rest % Bits,    \* bits of a partial last byte still to be read
                   bufsize |-> Min({BufCap, BytesOf(number - (part * (Bits - lead))) + part}),
                   buf |-> [i \in BufBits |->
                                IF part = 1 /\ i < Bits /\ i \notin lead .. lead + inFirst - 1
                                THEN disk[first - lead + i] ELSE value]]
        /\ UNCHANGED disk

\* The call ends: "ok" when it returns 0, "error" otherwise.
Ended(how) == [pc |-> how, run |-> loc.run, value |-> loc.value, before |-> loc.before]

\* The first byte cannot be read: nothing has been written.
BeginFails(first, number, value) ==
    /\ loc.pc = "idle" /\ first % Bits # 0
    /\ loc' = [pc |-> "error", run |-> first .. first + number - 1, value |-> value,
               before |-> disk]
    /\ UNCHANGED disk

\* The byte, counted from 1, that the partial last byte has in the buffer.
lastbyte_pos == BytesOf(loc.count) + loc.firstbyte

\* The partial last byte is in the current window of the bitmap.
HasLast == loc.count > 0 /\ loc.bit > 0 /\ lastbyte_pos <= loc.bufsize

\* The buffer with the bits behind the run in its last byte read in.
WithLast ==
    LET at == (lastbyte_pos - 1) * Bits
        from == ((loc.start + loc.count) \div Bits) * Bits
    IN  [i \in BufBits |->
            IF i \in at + loc.bit .. at + Bits - 1 THEN disk[from + i - at] ELSE loc.buf[i]]

\* The attribute with the first n bytes of the buffer written.
Written(b, n) ==
    LET at == ((loc.start \div Bits) - loc.firstbyte) * Bits
    IN  [k \in BitSet |-> IF k \in at .. at + n * Bits - 1 THEN b[k - at] ELSE disk[k]]

\* The buffer after a write: a partial first byte is filled with the value again.
Refilled(b) ==
    IF loc.firstbyte = 1
    THEN [i \in BufBits |-> IF i < Bits THEN loc.value ELSE b[i]] ELSE b

(***************************************************************************)
(* One turn of the loop: the last byte is read in if it is in the window,  *)
(* the buffer is written and the counters move past it.  Bits left behind  *)
(* a last byte are what the code calls a bug.                              *)
(***************************************************************************)
Window ==
    LET last == IF HasLast THEN 1 ELSE 0
        b    == IF HasLast THEN WithLast ELSE loc.buf
        done == (loc.bufsize - loc.firstbyte - last) * Bits
        left == loc.count - (last * loc.bit) - done
    IN  /\ loc.pc = "window"
        /\ disk' = Written(b, loc.bufsize)
        /\ loc' = IF last = 1 /\ left # 0 THEN Ended("bug")
                  ELSE IF left <= 0 THEN Ended("ok")
                  ELSE [loc EXCEPT !.buf = Refilled(b), !.firstbyte = 0,
                                   !.bit = IF HasLast THEN 0 ELSE @,
                                   !.start = @ + done, !.count = left,
                                   !.bufsize = Min({@, BytesOf(left)})]

\* The last byte cannot be read, or the write stops after n bytes.
WindowFails ==
    /\ loc.pc = "window"
    /\ \/ HasLast /\ UNCHANGED disk
       \/ \E n \in 0 .. loc.bufsize - 1 : disk' = Written(IF HasLast THEN WithLast ELSE loc.buf, n)
    /\ loc' = Ended("error")

(***************************************************************************)
(* Properties.                                                             *)
(***************************************************************************)
\* ntfs_bitmap_set_bits_in_run never changes a bit outside the run, at no
\* write of any window, also when a later read or write fails.
OnlyTheRun == loc.pc # "idle" => \A b \in BitSet \ loc.run : disk[b] = loc.before[b]

\* When the call returns 0, every bit of the run has the value, whatever the
\* alignment of its ends and the number of windows; and it never finds bits
\* left behind the last byte, which the code calls a bug.
RunIsSet ==
    /\ loc.pc = "ok" => \A b \in loc.run : disk[b] = loc.value
    /\ loc.pc # "bug"
=============================================================================
