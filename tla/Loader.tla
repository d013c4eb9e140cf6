-------------------------------- MODULE Loader --------------------------------
(***************************************************************************)
(* boot/loader.S: how much memory there is, the kernel's image from the    *)
(* disk (as boot/mbr.S reads the loader), the page directory, and the      *)
(* segments of the image to where they belong.                             *)
(*                                                                         *)
(* Memory sizes and addresses are in K, in words of 32 bits, for what E820 *)
(* reports; the image is counted in sectors, as is what is copied of it.   *)
(* BIOS and drive are external: an area, or a failure, may be anything,    *)
(* and a drive may need time between two sectors.                          *)
(***************************************************************************)
EXTENDS Integers, Sequences, SequencesExt

CONSTANTS
    Area,           \* the areas that E820 may report: base and length
    MaxAreas,       \* and how many of them at most
    ards_room,      \* how many the buffer holds: 12
    Extended,       \* the answers of E801: in K, and in 64K
    sectors,        \* of the image: 200
    Header,         \* program headers: used, offset, size, address
    MaxHeaders,
    Physical,       \* the units of memory that segments are copied to
    entries,        \* of a directory or a page table: 1024
    kernel_pde,     \* the first entry of the kernel's half: 768
    low_pages       \* the pages of the first megabyte: 256

DWORD == 4194304

ASSUME AreaAssumption ==
    /\ Area \subseteq [base : 0..(DWORD - 1), length : 0..(DWORD - 1)]
    /\ MaxAreas \in Nat \ {0} /\ ards_room \in Nat \ {0}

ASSUME ExtendedAssumption == Extended \subseteq (0..65535) \X (0..65535)

ASSUME ImageAssumption ==
    /\ sectors \in 1..255 /\ Physical \subseteq Nat
    /\ Header \subseteq [used : BOOLEAN, offset : Nat, size : Nat, address : Nat]
    /\ \A h \in Header : \A i \in 0..(h.size - 1) :
          h.offset + i \in 0..(sectors - 1) /\ h.address + i \in Physical
    /\ MaxHeaders \in Nat \ {0}

ASSUME TableAssumption ==
    entries \in Nat /\ low_pages \in 0..entries /\ kernel_pde \in 1..(entries - 2)

unset == -1     \* whatever was there at power-on

no_table == << "none" >>

directory == << "directory" >>

VARIABLES
    stage,
    areas, headers,     \* what the BIOS will report, and what the image contains
    ards,               \* ards_buf, as far as it is filled
    edx, total_mem_bytes,
    image,              \* what has been read of the kernel
    prompt,             \* whether the drive has always been ready
    pde, pte,           \* the directory and the first page table
    memory, ecx         \* where the segments go, and the headers still to do

bootvars == << stage, areas, headers, ards, edx, total_mem_bytes, image, prompt,
               pde, pte, memory, ecx >>

BootInit ==
    /\ stage = "e820"
    /\ areas \in BoundedSeq(Area, MaxAreas) \ {<< >>}
    /\ headers \in BoundedSeq(Header, MaxHeaders) \ {<< >>}
    /\ ards = << >>
    /\ edx = 0 /\ total_mem_bytes = 0
    /\ image = << >> /\ prompt = TRUE
    /\ pde = [n \in 0..(entries - 1) |-> no_table]
    /\ pte = [n \in 0..(entries - 1) |-> unset]
    /\ memory = [n \in Physical |-> unset]
    /\ ecx = 0

-----------------------------------------------------------------------------
\* One area after the other; the one that does not fit runs over ards_nr and
\* the code behind it.
e820_mem_get_loop ==
    /\ stage = "e820"
    /\ \/ stage' = "e801" /\ UNCHANGED ards
       \/ /\ ards' = Append(ards, areas[Len(ards) + 1])
          /\ stage' = IF Len(ards) = ards_room THEN "overrun"
                      ELSE IF Len(ards') = Len(areas) THEN "max" ELSE "e820"
    /\ ecx' = IF stage' = "max" THEN Len(ards') ELSE 0
    /\ UNCHANGED << areas, headers, edx, total_mem_bytes, image, prompt, pde, pte, memory >>

signed(n) == IF n < DWORD \div 2 THEN n ELSE n - DWORD

end_of(a) == (a.base + a.length) % DWORD

\* Faulty: the last area wins.
exceeds_any(new, old) == TRUE

\* jge compares with a sign: what ends above 2G is not more than 0.
exceeds(new, old) == signed(new) > signed(old)

find_max_mem_area ==
    LET eax == end_of(ards[Len(ards) - ecx + 1]) IN
    /\ stage = "max"
    /\ edx' = IF exceeds(eax, edx) THEN eax ELSE edx
    /\ ecx' = ecx - 1
    /\ IF ecx = 1 THEN total_mem_bytes' = edx' /\ stage' = "read"
       ELSE UNCHANGED << stage, total_mem_bytes >>
    /\ UNCHANGED << areas, headers, ards, image, prompt, pde, pte, memory >>

e801_size(answer) == (answer[1] + 1024 + answer[2] * 64) % DWORD

\* E801 counts both parts; 0x88 only the first; without either the machine halts.
e801_or_88 ==
    /\ stage = "e801"
    /\ \/ \E answer \in Extended : total_mem_bytes' = e801_size(answer) /\ stage' = "read"
       \/ \E answer \in Extended : total_mem_bytes' = e801_size(<< answer[1], 0 >>)
                                     /\ stage' = "read"
       \/ stage' = "hlt" /\ UNCHANGED total_mem_bytes
    /\ UNCHANGED << areas, headers, ards, edx, image, prompt, pde, pte, memory, ecx >>

\* rd_disk waits for the drive before the first sector only; what it reads while
\* the drive is busy is not the next sector.
rd_disk ==
    /\ stage = "read"
    /\ \/ image' = Append(image, Len(image)) /\ UNCHANGED prompt
       \/ image # << >> /\ image' = Append(image, unset) /\ prompt' = FALSE
    /\ stage' = IF Len(image') = sectors THEN "pages" ELSE stage
    /\ UNCHANGED << areas, headers, ards, edx, total_mem_bytes, pde, pte, memory, ecx >>

table(n) == << "table", n >>

\* The directory is cleared.  Its entries 0 and 768 share the first table, of
\* which the entries of the first megabyte are made; the others of the kernel's
\* half have tables that are not cleared, and the last is the directory itself.
setup_page ==
    /\ stage = "pages"
    /\ pde' = [n \in 0..(entries - 1) |->
                CASE n = 0 -> table(0)
                  [] n = entries - 1 -> directory
                  [] n \in kernel_pde..(entries - 2) -> table(n - kernel_pde)
                  [] OTHER -> no_table]
    /\ pte' = [n \in 0..(entries - 1) |-> IF n < low_pages THEN n ELSE pte[n]]
    /\ stage' = "segments"
    /\ ecx' = Len(headers)
    /\ UNCHANGED << areas, headers, ards, edx, total_mem_bytes, image, prompt, memory >>

copied(h) ==
    [n \in Physical |-> IF n \in h.address..(h.address + h.size - 1)
                        THEN image[n - h.address + h.offset + 1] ELSE memory[n]]

\* kernel_init: one header after the other; unused ones are skipped.  Only the
\* part of a segment that is in the file is written.
each_segment ==
    LET h == headers[Len(headers) - ecx + 1] IN
    /\ stage = "segments"
    /\ memory' = IF h.used THEN copied(h) ELSE memory
    /\ ecx' = ecx - 1
    /\ stage' = IF ecx = 1 THEN "kernel" ELSE stage
    /\ UNCHANGED << areas, headers, ards, edx, total_mem_bytes, image, prompt, pde, pte >>

BootNext ==
    \/ e820_mem_get_loop \/ find_max_mem_area \/ e801_or_88
    \/ rd_disk \/ setup_page \/ each_segment

BootSpec == BootInit /\ [][BootNext]_bootvars

-----------------------------------------------------------------------------
\* When every area that E820 reports ends below 2G, the memory is the end of the
\* highest of them, of whatever type.
CapacityExact ==
    LET ends == {areas[i].base + areas[i].length : i \in DOMAIN areas} IN
    ards = areas /\ (\A e \in ends : e < DWORD \div 2) =>
        total_mem_bytes \in ends /\ \A e \in ends : e <= total_mem_bytes

\* loader.S before find_max_mem_area: "go through all ards and find the largest
\* base_add_low + length_low, which is the capacity of the memory".  What the kernel
\* is told of reaches up to the end of every area.
LargestFound ==
    stage = "kernel" /\ ards = areas =>
        \A i \in DOMAIN areas : end_of(areas[i]) <= total_mem_bytes

\* Every sector of a segment is in its place, unless a later segment covers it or
\* the drive was not prompt, and nothing else has been written.
SegmentsPlaced ==
    prompt =>
        \A n \in Physical :
            LET over == {i \in DOMAIN headers : /\ headers[i].used
                            /\ n \in headers[i].address..(headers[i].address
                                                            + headers[i].size - 1)}
            IN  IF over = {} THEN memory[n] = unset
                ELSE LET i == CHOOSE j \in over : \A k \in over : k <= j
                     IN  memory[n] = headers[i].offset + n - headers[i].address

\* The kernel begins with its memory, unless an area ends above 2G, its segments
\* where they were linked to, and page tables for all of its half that no process
\* misses.
KernelStarts ==
    stage = "kernel" =>
        /\ CapacityExact
        /\ SegmentsPlaced
        /\ \A m, n \in kernel_pde..(entries - 1) :
              pde[m] # no_table /\ (pde[m] = pde[n] => m = n)
        /\ \A n \in 0..(low_pages - 1) : pde[0] = pde[kernel_pde] /\ pte[n] = n

=============================================================================
