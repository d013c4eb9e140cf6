------------------------------ MODULE MemPool -------------------------------
(***************************************************************************)
(* How kernel/memory.c divides the physical memory at boot: mem_pool_init  *)
(* lays out a kernel pool and a user pool, and the bitmaps of both pools   *)
(* and of the kernel heap, packed one behind the other from                *)
(* MEM_BITMAP_BASE up.  Addresses of bitmaps are relative to that base.    *)
(***************************************************************************)
EXTENDS Integers

CONSTANT MemSize    \* what the loader may have found: bytes of memory

PG_SIZE == 4096
page_table_size == PG_SIZE * 256
used_mem == page_table_size + 1048576

\* The PCB of the main thread, at 0xc009e000; the bitmaps start at 0xc009a000.
main_pcb == 16384

\* 512M, the most the system supports
max_mem == 512 * 1048576

\* The smallest machine leaves some memory behind the page tables.
ASSUME MemSizeAssumption == MemSize \subseteq (used_mem + 1)..max_mem

VARIABLES
    all_mem,
    kernel_pool, user_pool,     \* phy_addr_start, pool_size, bits, btmp_bytes_len
    kernel_vaddr                \* bits, btmp_bytes_len of the heap's bitmap

poolvars == << all_mem, kernel_pool, user_pool, kernel_vaddr >>

Pool == [phy_addr_start : Nat, pool_size : Nat, bits : Nat, btmp_bytes_len : Nat]

\* Static variables are zero.
no_pool == [phy_addr_start |-> 0, pool_size |-> 0, bits |-> 0, btmp_bytes_len |-> 0]

PoolsInit ==
    /\ all_mem \in MemSize
    /\ kernel_pool = no_pool
    /\ user_pool = no_pool
    /\ kernel_vaddr = [bits |-> 0, btmp_bytes_len |-> 0]

-----------------------------------------------------------------------------
free_mem == all_mem - used_mem

\* Faulty, though it looks right: with 32 bits the bitmaps outgrow their place.
uint32_t(n) == n

\* What a variable of type uint16_t keeps of n
uint16_t(n) == n % 65536

all_free_pages == uint16_t(free_mem \div PG_SIZE)

kernel_free_pages == all_free_pages \div 2

\* Faulty: the operands are swapped.
user_free_pages_negative == kernel_free_pages - all_free_pages

user_free_pages == all_free_pages - kernel_free_pages

\* Faulty: the remainder is rounded up.
bytes_for_all(pages) == (pages + 7) \div 8

\* A remainder of up to seven pages is given up.
bytes_for(pages) == pages \div 8

kbm_length == bytes_for(kernel_free_pages)

ubm_length == bytes_for(user_free_pages)

kp_start == used_mem

up_start == kp_start + kernel_free_pages * PG_SIZE

mem_pool_init ==
    /\ kernel_pool = no_pool
    /\ kernel_pool' = [phy_addr_start |-> kp_start,
                       pool_size |-> kernel_free_pages * PG_SIZE,
                       bits |-> 0,
                       btmp_bytes_len |-> kbm_length]
    /\ user_pool' = [phy_addr_start |-> up_start,
                     pool_size |-> user_free_pages * PG_SIZE,
                     bits |-> kbm_length,
                     btmp_bytes_len |-> ubm_length]
    /\ kernel_vaddr' = [bits |-> kbm_length + ubm_length,
                        btmp_bytes_len |-> kbm_length]
    /\ UNCHANGED all_mem

PoolsNext == mem_pool_init

PoolsSpec == PoolsInit /\ [][PoolsNext]_poolvars

-----------------------------------------------------------------------------
PoolsTypeOK ==
    /\ all_mem \in MemSize
    /\ kernel_pool \in Pool
    /\ user_pool \in Pool
    /\ kernel_vaddr \in [bits : Nat, btmp_bytes_len : Nat]

\* The end of the frames palloc can take from a pool, bit by bit of its map
frames_end(pool) == pool.phy_addr_start + pool.btmp_bytes_len * 8 * PG_SIZE

\* No frame is in both pools, none is outside the memory there is, none holds
\* page tables, and a pool hands out no more than its size.
PoolsDisjoint ==
    kernel_pool # no_pool =>
        /\ used_mem <= kernel_pool.phy_addr_start
        /\ frames_end(kernel_pool) <= user_pool.phy_addr_start
        /\ frames_end(user_pool) <= all_mem
        /\ \A pool \in {kernel_pool, user_pool} :
              frames_end(pool) <= pool.phy_addr_start + pool.pool_size

end(map) == map.bits + map.btmp_bytes_len

\* The three bitmaps do not overlap, nor reach the PCB of the main thread.
BitmapsFit ==
    kernel_pool # no_pool =>
        /\ end(kernel_pool) <= user_pool.bits
        /\ end(user_pool) <= kernel_vaddr.bits
        /\ end(kernel_vaddr) <= main_pcb

=============================================================================
