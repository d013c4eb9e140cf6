------------------------------- MODULE Bitmap -------------------------------
(***************************************************************************)
(* bitmap_scan of lib/kernel/bitmap.c, one action per pass of its loops,   *)
(* and its callers: vaddr_get and palloc set the bits they were given,     *)
(* get_a_page sets a bit of its choice.                                    *)
(*                                                                         *)
(* Bit i is bit i % 8 of byte i / 8, and bits is the set of those that are *)
(* 1; the map has total bits.  Behind it lies whatever memory comes next:  *)
(* mem_pool_init packs the bitmaps one against the other, so the first     *)
(* byte behind one is the first byte of the next, and changes behind its   *)
(* back.                                                                   *)
(***************************************************************************)
EXTENDS Integers

CONSTANTS
    BITS,               \* bits in a byte: 8
    btmp_bytes_len,
    Count               \* the counts that callers ask for

ASSUME BitmapAssumption ==
    /\ BITS \in Nat \ {0}
    /\ btmp_bytes_len \in Nat \ {0}
    /\ Count \subseteq Nat \ {0}

VARIABLES
    bits,
    cnt,                \* the argument
    idx_byte, idx_bit, bit_left, next_bit, count, bit_idx_start,
    pc,
    panicked

search == << idx_byte, idx_bit, bit_left, next_bit, count, bit_idx_start >>

vars == << bits, cnt, search, pc, panicked >>

total == btmp_bytes_len * BITS

Own == 0..(total - 1)

\* The map and the first byte behind it
Memory == 0..(total + BITS - 1)

\* bitmap_init clears the map, and not what lies behind it.
Init ==
    /\ bits \in SUBSET (Memory \ Own)
    /\ cnt = 0
    /\ idx_byte = 0
    /\ idx_bit = 0
    /\ bit_left = 0
    /\ next_bit = 0
    /\ count = 0
    /\ bit_idx_start = -1
    /\ pc = "idle"
    /\ panicked = FALSE

-----------------------------------------------------------------------------
\* 0xff == btmp->bits[byte]
byte_full(byte) == \A b \in 0..(BITS - 1) : byte * BITS + b \in bits

bitmap_scan_test(i) == i \in bits

\* bitmap_scan is called: idx_byte = 0
bitmap_scan(n) ==
    /\ pc = "idle"
    /\ cnt' = n
    /\ idx_byte' = 0
    /\ pc' = "bytes"
    /\ UNCHANGED << bits, idx_bit, bit_left, next_bit, count, bit_idx_start, panicked >>

\* Faulty: the index of the byte is not checked.
next_byte_unchecked == byte_full(idx_byte)

\* The byte is read before its index is checked.
next_byte == byte_full(idx_byte) /\ idx_byte < btmp_bytes_len

skip_byte ==
    /\ pc = "bytes"
    /\ next_byte
    /\ idx_byte' = idx_byte + 1
    /\ UNCHANGED << bits, cnt, idx_bit, bit_left, next_bit, count, bit_idx_start,
                    pc, panicked >>

\* The ASSERT comes before the return of -1.
first_byte ==
    /\ pc = "bytes"
    /\ ~next_byte
    /\ IF idx_byte < btmp_bytes_len
       THEN pc' = "bits" /\ idx_bit' = 0 /\ UNCHANGED panicked
       ELSE pc' = "panic" /\ panicked' = TRUE /\ UNCHANGED idx_bit
    /\ UNCHANGED << bits, cnt, idx_byte, bit_left, next_bit, count, bit_idx_start >>

\* Faulty: ++idx_bit is missing.
skip_bit_again ==
    /\ pc = "bits"
    /\ idx_byte * BITS + idx_bit \in bits
    /\ UNCHANGED vars

skip_bit ==
    /\ pc = "bits"
    /\ idx_byte * BITS + idx_bit \in bits
    /\ idx_bit' = idx_bit + 1
    /\ UNCHANGED << bits, cnt, idx_byte, bit_left, next_bit, count, bit_idx_start,
                    pc, panicked >>

first_bit ==
    /\ pc = "bits"
    /\ idx_byte * BITS + idx_bit \notin bits
    /\ LET start == idx_byte * BITS + idx_bit
       IN  IF cnt = 1
           THEN /\ bit_idx_start' = start
                /\ pc' = "done"
                /\ UNCHANGED << bit_left, next_bit, count >>
           ELSE /\ bit_left' = total - start
                /\ next_bit' = start + 1
                /\ count' = 1
                /\ bit_idx_start' = -1
                /\ pc' = "run"
    /\ UNCHANGED << bits, cnt, idx_byte, idx_bit, panicked >>

\* Faulty: a bit that is set does not end the run.
extended_run_kept == IF bitmap_scan_test(next_bit) THEN count ELSE count + 1

extended_run == IF bitmap_scan_test(next_bit) THEN 0 ELSE count + 1

extend_run ==
    /\ pc = "run"
    /\ bit_left > 0
    /\ bit_left' = bit_left - 1
    /\ count' = extended_run
    /\ IF count' = cnt
       THEN bit_idx_start' = next_bit + 1 - cnt /\ pc' = "done" /\ UNCHANGED next_bit
       ELSE next_bit' = next_bit + 1 /\ UNCHANGED << bit_idx_start, pc >>
    /\ UNCHANGED << bits, cnt, idx_byte, idx_bit, panicked >>

\* bit_left, an unsigned, wraps around here and is not used again.
give_up ==
    /\ pc = "run"
    /\ bit_left = 0
    /\ pc' = "done"
    /\ UNCHANGED << bits, cnt, search, panicked >>

given == bit_idx_start..(bit_idx_start + cnt - 1)

\* bitmap_set by the caller for every bit it was given
take ==
    /\ pc = "done"
    /\ bits' = IF bit_idx_start = -1 THEN bits ELSE bits \cup given
    /\ pc' = "idle"
    /\ UNCHANGED << cnt, search, panicked >>

\* get_a_page sets the bit of an address; the owner of the memory behind the
\* map changes it as it likes.
bitmap_set(i) ==
    /\ pc = "idle"
    /\ \/ bits' = bits \cup {i}
       \/ i \notin Own /\ bits' = bits \ {i}
    /\ UNCHANGED << cnt, search, pc, panicked >>

Scan == skip_byte \/ first_byte \/ skip_bit \/ first_bit \/ extend_run \/ give_up

Next ==
    \/ \E n \in Count : bitmap_scan(n)
    \/ Scan
    \/ take
    \/ \E i \in Memory : bitmap_set(i)

Spec == Init /\ [][Next]_vars

\* bitmap_scan is straight code.
FairSpec == Spec /\ WF_vars(Scan)

-----------------------------------------------------------------------------
TypeOK ==
    /\ bits \subseteq Memory
    /\ cnt \in Count \cup {0}
    /\ idx_byte \in 0..btmp_bytes_len
    /\ idx_bit \in 0..(BITS - 1)
    /\ bit_left \in 0..total
    /\ next_bit \in 0..(total + 1)
    /\ count \in Nat
    /\ bit_idx_start \in -1..total
    /\ pc \in {"idle", "bytes", "bits", "run", "done", "panic"}
    /\ panicked \in BOOLEAN

\* A run of n free bits that starts at i, among the bits up to last
free_run(i, n, last) == i + n - 1 <= last /\ \A j \in i..(i + n - 1) : j \notin bits

\* A scan for several bits also looks at one bit behind the map.
last_looked_at == IF cnt = 1 THEN total - 1 ELSE total

\* What bitmap_scan returns is the first run of cnt free bits among those it
\* looks at, and -1 only when there is none.
FirstFit ==
    pc = "done" =>
        /\ bit_idx_start # -1 => free_run(bit_idx_start, cnt, last_looked_at)
        /\ \A i \in Own : free_run(i, cnt, last_looked_at)
                              => bit_idx_start # -1 /\ bit_idx_start <= i

\* The loops keep to this: all bits in front of the search are taken or too
\* few in a row, and the count free bits in front of next_bit are the run so
\* far.
LoopInvariant ==
    /\ pc # "idle" => cnt \in Count
    /\ pc \in {"bytes", "bits"} => \A i \in 0..(idx_byte * BITS - 1) : i \in bits
    /\ pc = "bits" =>
        /\ idx_byte < btmp_bytes_len
        /\ ~byte_full(idx_byte)
        /\ \A b \in 0..(idx_bit - 1) : idx_byte * BITS + b \in bits
    /\ pc = "run" =>
        /\ cnt # 1 /\ bit_idx_start = -1
        /\ bit_left + next_bit = total + 1
        /\ count < cnt /\ count <= next_bit
        /\ \A i \in (next_bit - count)..(next_bit - 1) : i \notin bits
        /\ count < next_bit => next_bit - count - 1 \in bits
        /\ \A i \in Own : i + cnt <= next_bit => ~free_run(i, cnt, total)

\* A scan that was started ends, with a result or in the ASSERT.
ScanEnds == (pc = "bytes") ~> (pc \in {"done", "panic"})

\* The comment on bitmap_scan: it allocates bits IN the bitmap.
InBitmap == pc = "done" /\ bit_idx_start # -1 => bit_idx_start + cnt <= total

=============================================================================
