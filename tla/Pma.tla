-------------------------------- MODULE Pma --------------------------------
(***************************************************************************)
(* The physical memory allocator of src/src/pma.c, with the identity       *)
(* mappings of src/src/mm.c and src/src/vm.c that reserve the memory they  *)
(* map.  Only one CPU runs when it is used: an operation is a step of Load.*)
(*                                                                         *)
(* Addresses are page numbers, sizes are in pages.  own[p] and last[p] are *)
(* the two bits pages[p] has for every owner: "owns" and "last page of the *)
(* chunk".  A page table is its flat map (AddrSpace shows that Mm          *)
(* implements it); mapping can fail, for want of a table.                  *)
(***************************************************************************)
EXTENDS Integers, FiniteSets, FiniteSetsExt

CONSTANTS PAGE_COUNT,  \* pages managed
          MAX_IDS,     \* owners pages_t has bits for
          ArrayBegin, ArrayPages, \* where the array of pages lies
          LevelPages,  \* 2^PAGE_LEVEL_BITS, pages of a block of level 1
          Levels,      \* arch_mm_stage2_max_level()
          CacheSize,   \* modulus of PTR_HASH
          Vms,         \* ids of the VMs
          Ipas,        \* guest pages looked at
          Outside      \* pages that are not memory (devices)

ASSUME PmaSizes == /\ 0 < ArrayBegin /\ ArrayBegin + ArrayPages < PAGE_COUNT
                   /\ LevelPages > 1 /\ CacheSize > 0 /\ 0 \notin Vms

VARIABLES own, last,  \* the pages array
          cache,      \* alloc_cache
          hyp,        \* mode of every page in the hypervisor's table
          s2,         \* what every VM's table maps a guest page to
          ret         \* return value of the last allocation or reservation

pmaVars == <<own, last, cache, hyp, s2, ret>>

HYPERVISOR_ID == 0
Ids == {HYPERVISOR_ID} \union Vms
FAULT_PAGE_NUMBER == 0
NULL == -1
PMA_IDENTITY_MAP == -2
PageNumbers == 0 .. PAGE_COUNT - 1
NoPage == [pa |-> 0, mode |-> "none"]
NoEntry == [addr |-> NULL, begin |-> 0, page_count |-> 0, owner_ids |-> {}]

PmaInit == /\ own = [p \in PageNumbers |-> {}] /\ last = [p \in PageNumbers |-> {}]
           /\ cache = [h \in 0 .. CacheSize - 1 |-> NoEntry]
           /\ hyp = [p \in PageNumbers \union Outside |-> "none"]
           /\ s2 = [v \in Vms |-> [i \in Ipas |-> NoPage]]
           /\ ret = NULL

Used(p) == own[p] \union last[p] # {}
is_restricted(pn) == \/ pn = FAULT_PAGE_NUMBER
                     \/ pn \in ArrayBegin .. ArrayBegin + ArrayPages - 1
is_valid_id(id) == id < MAX_IDS

----------------------------------------------------------------------------
PTR_HASH(ptr) == ptr % CacheSize
get_cached(ptr) == cache[PTR_HASH(ptr)].addr = ptr
add_alloc_cache(ptr, begin, n, id) ==
  cache' = [cache EXCEPT ![PTR_HASH(ptr)] =
              [addr |-> ptr, begin |-> begin, page_count |-> n, owner_ids |-> {id}]]

\* First page of the chunk of id around ptr, by walking back.
StartByWalk(ptr, id) ==
  IF ptr >= PAGE_COUNT THEN FAULT_PAGE_NUMBER
  ELSE IF ~Used(ptr) THEN FAULT_PAGE_NUMBER
  ELSE Max({p \in 0 .. ptr : p = 0 \/ id \notin own[p - 1] \/ id \in last[p - 1]})
get_start_page_number(ptr, id) ==
  IF get_cached(ptr) THEN cache[PTR_HASH(ptr)].begin ELSE StartByWalk(ptr, id)

\* Last page of the chunk of id that begins at start.
Ends(start, id) == {p \in start .. PAGE_COUNT - 1 : id \in last[p]}
SizeByWalk(ptr, id) ==
  LET start == StartByWalk(ptr, id)
  IN  IF start = FAULT_PAGE_NUMBER THEN 0
      ELSE IF Ends(start, id) = {} THEN PAGE_COUNT - start
      ELSE Min(Ends(start, id)) - start + 1
pma_get_size(ptr, id) ==
  IF ptr = NULL THEN 0
  ELSE IF get_cached(ptr) THEN cache[PTR_HASH(ptr)].page_count ELSE SizeByWalk(ptr, id)

AssignedByWalk(ptr, n, id) == ptr # FAULT_PAGE_NUMBER /\ \A p \in ptr .. ptr + n - 1 : id \in own[p]
pma_is_assigned(ptr, n, id) ==
  IF get_cached(ptr) THEN id \in cache[PTR_HASH(ptr)].owner_ids ELSE AssignedByWalk(ptr, n, id)

----------------------------------------------------------------------------
\* mm_identity_map in the hypervisor's table.
HypMap(begin, end, mode) ==
  hyp' = [p \in DOMAIN hyp |-> IF p \in begin .. end - 1 THEN mode ELSE hyp[p]]

\* mm_vm_prepare and mm_vm_commit: an entry that has the attributes asked for
\* is left as it is, even if it maps another page.
VmMap(v, ipa, begin, end, mode) ==
  s2' = [s2 EXCEPT ![v] = [i \in Ipas |->
           IF i \in ipa .. ipa + (end - begin) - 1 /\ @[i].mode # mode
             THEN IF mode = "none" THEN NoPage ELSE [pa |-> begin + (i - ipa), mode |-> mode]
             ELSE @[i]]]

\* ok: the page table had the tables the mapping needs.
map_memory(ok, id, ipa, start, end, mode) ==
  IF ~ok THEN UNCHANGED <<hyp, s2>>
  ELSE IF id = HYPERVISOR_ID THEN HypMap(start, end + 1, mode) /\ UNCHANGED s2
  ELSE VmMap(id, ipa, start, end + 1, mode) /\ UNCHANGED hyp

unmap_memory(ok, id, start, end) == map_memory(ok, id, start, start, end, "none")

----------------------------------------------------------------------------
\* The pages a reservation that meets a used page i clears again.
Rollback(start, i) == start .. i - 1

ReserveOk(begin, end) ==
  /\ begin < PAGE_COUNT /\ end - 1 <= PAGE_COUNT
  /\ \A p \in begin .. end - 1 : ~Used(p)

pma_reserve_memory(begin, end, id) ==
  LET met == {p \in begin .. end - 1 : p \in PageNumbers /\ Used(p)}
      undo == IF met = {} THEN {} ELSE Rollback(begin, Min(met))
      marked == IF begin >= PAGE_COUNT \/ end - 1 > PAGE_COUNT THEN {}
                ELSE IF met = {} THEN begin .. end - 1
                ELSE begin .. Min(met) - 1
  IN  /\ own' = [p \in PageNumbers |-> IF p \in marked \ undo THEN {id} ELSE own[p]]
      /\ last' = IF met = {} /\ marked # {} THEN [last EXCEPT ![end - 1] = {id}] ELSE last

pma_release_memory(begin, end, id) ==
  LET freed == {p \in begin .. end - 1 : id \in own[p]}
  IN  /\ own' = [p \in PageNumbers |-> IF p \in freed THEN own[p] \ {id} ELSE own[p]]
      /\ last' = [p \in PageNumbers |->
                    IF p \in freed THEN last[p] \ {id}
                    ELSE IF p = begin - 1 /\ id \in own[p] THEN last[p] \union {id}
                    ELSE last[p]]

\* mm_identity_map_and_reserve: the result of the reservation is ignored.
mm_identity_map_and_reserve(ok, begin, end, mode) ==
  /\ IF mode = "none" THEN pma_release_memory(begin, end, HYPERVISOR_ID)
     ELSE pma_reserve_memory(begin, end, HYPERVISOR_ID)
  /\ IF ok THEN HypMap(begin, end, mode) ELSE UNCHANGED hyp
  /\ ret' = IF ok THEN begin ELSE NULL
  /\ UNCHANGED <<cache, s2>>

VmMapReservedOrNot(ok, v, begin, end, mode) ==
  /\ IF ok THEN pma_reserve_memory(begin, end, v) /\ VmMap(v, begin, begin, end, mode)
     ELSE UNCHANGED <<own, last, s2>>
  /\ ret' = IF ok THEN begin ELSE FAULT_PAGE_NUMBER
  /\ UNCHANGED <<cache, hyp>>

\* vm_identity_map_and_reserve: nothing is mapped if the reservation fails.
vm_identity_map_and_reserve(ok, v, begin, end, mode) ==
  /\ IF ok THEN pma_reserve_memory(begin, end, v) ELSE UNCHANGED <<own, last>>
  /\ IF ok /\ ReserveOk(begin, end) THEN VmMap(v, begin, begin, end, mode) ELSE UNCHANGED s2
  /\ ret' = IF ok /\ ReserveOk(begin, end) THEN begin ELSE FAULT_PAGE_NUMBER
  /\ UNCHANGED <<cache, hyp>>

----------------------------------------------------------------------------
pma_calc_ipa_offset(ipa, align) == IF ipa = PMA_IDENTITY_MAP THEN 0 ELSE ipa % align

\* PMA_ALIGN_AUTO_PAGE_LVL: the largest block the chunk can hold, its offset
\* counted in.
AutoAlign(ipa, n) ==
  LET off(l) == pma_calc_ipa_offset(ipa, LevelPages^l)
      tooBig == {l \in 1 .. Levels :
                   \/ n < LevelPages^l
                   \/ off(l) > 0 /\ n < LevelPages^l + (LevelPages^l - off(l))}
  IN  LevelPages^(IF tooBig = {} THEN Levels ELSE Min(tooBig) - 1)

\* Where the scan goes on after the used page u.
After(u, align, off) ==
  IF align = 1 THEN u + 1 ELSE (u + 1) + (align - ((u + 1) % align)) + off

\* The first n free pages, from page 0 on.
Scan(n, align, off) ==
  LET from[s \in 0 .. PAGE_COUNT + 2 * align] ==
        LET met == {p \in s .. s + n - 1 : p \in PageNumbers /\ Used(p)}
        IN  IF s + n > PAGE_COUNT /\ met = {} THEN PAGE_COUNT
            ELSE IF met = {} THEN s ELSE from[After(Min(met), align, off)]
  IN  from[0]

AllocFails(n, id, ipa, align) ==
  \/ n = 0 \/ n > PAGE_COUNT \/ ~is_valid_id(id)
  \/ Scan(n, align, pma_calc_ipa_offset(ipa, align)) = PAGE_COUNT

\* The pages are marked before they are mapped, and stay so if that fails.
pma_aligned_alloc(ok, id, ipa, n, align, mode) ==
  IF AllocFails(n, id, ipa, align)
    THEN ret' = FAULT_PAGE_NUMBER /\ UNCHANGED <<own, last, cache, hyp, s2>>
    ELSE LET start == Scan(n, align, pma_calc_ipa_offset(ipa, align))
             end == start + n - 1
         IN  /\ own' = [p \in PageNumbers |-> IF p \in start .. end THEN {id} ELSE own[p]]
             /\ last' = [p \in PageNumbers |-> IF p = end THEN {id}
                                               ELSE IF p \in start .. end THEN {} ELSE last[p]]
             /\ map_memory(ok, id, IF ipa = PMA_IDENTITY_MAP THEN start ELSE ipa, start, end, mode)
             /\ ret' = IF ok THEN start ELSE FAULT_PAGE_NUMBER
             /\ add_alloc_cache(ret', start, n, id)

\* The sizes of the halves pma_aligned_alloc_with_split tries next.
FirstHalf(n) == n \div 2 + (n % 2)

SecondHalf(n) == n - FirstHalf(n)

AssignRefused(id, ptr, n) ==
  \/ ~is_valid_id(id) \/ n > PAGE_COUNT \/ ptr > PAGE_COUNT
  \/ is_restricted(ptr) \/ ~Used(ptr)

\* The new owner's bits are set before the pages are mapped, and stay so.
pma_assign(ok, id, ptr, ipa, n, mode) ==
  LET end == ptr + n - 1
      skip == AssignRefused(id, ptr, n) \/ id \in own[ptr]
  IN  IF skip THEN UNCHANGED <<own, last, cache, hyp, s2>>
      ELSE /\ own' = [p \in PageNumbers |-> IF p \in ptr .. end THEN own[p] \union {id} ELSE own[p]]
           /\ last' = [last EXCEPT ![end] = @ \union {id}]
           /\ map_memory(ok, id, ipa, ptr, end, mode)
           /\ cache' = IF ok /\ get_cached(ptr)
                         THEN [cache EXCEPT ![PTR_HASH(ptr)].owner_ids = @ \union {id}] ELSE cache

FreeRefused(id, ptr) ==
  LET start == get_start_page_number(ptr, id)
  IN  is_restricted(start) \/ ~Used(start) \/ id \notin own[start]

FreeCacheKept(id, ptr) == cache

FreeCache(id, ptr) ==
  IF get_cached(ptr) THEN [cache EXCEPT ![PTR_HASH(ptr)].owner_ids = @ \ {id}] ELSE cache

pma_free(ok, id, ptr) ==
  LET start == get_start_page_number(ptr, id)
      ends == Ends(start, id)
      end == IF ends = {} THEN 0 ELSE Min(ends)
      freed == start .. (IF ends = {} THEN PAGE_COUNT - 1 ELSE end)
  IN  IF FreeRefused(id, ptr) THEN UNCHANGED <<own, last, cache, hyp, s2>>
      ELSE /\ own' = [p \in PageNumbers |-> IF p \in freed THEN own[p] \ {id} ELSE own[p]]
           /\ last' = [p \in PageNumbers |-> IF p \in freed THEN last[p] \ {id} ELSE last[p]]
           /\ cache' = FreeCache(id, ptr)
           /\ unmap_memory(ok, id, start, end)

----------------------------------------------------------------------------
\* The array's own pages are reserved with the entry after the last; the
\* first page is the fault page.
pma_init == /\ own' = [p \in PageNumbers |->
                         IF p = FAULT_PAGE_NUMBER \/ p \in ArrayBegin .. ArrayBegin + ArrayPages
                           THEN {HYPERVISOR_ID} ELSE {}]
            /\ last' = [p \in PageNumbers |->
                          IF p \in {FAULT_PAGE_NUMBER, ArrayBegin + ArrayPages}
                            THEN {HYPERVISOR_ID} ELSE {}]
            /\ hyp' = [p \in DOMAIN hyp |->
                         IF p \in ArrayBegin .. ArrayBegin + ArrayPages - 1 THEN "rw" ELSE hyp[p]]
            /\ UNCHANGED <<cache, s2, ret>>

----------------------------------------------------------------------------
\* Every chunk an owner has ends in a page marked as its last, and only pages
\* it owns are marked: pma_free, which clears up to that page, stays inside.
ChunksClosed == \A id \in Ids, p \in PageNumbers :
  /\ id \in last[p] => id \in own[p]
  /\ id \in own[p] => id \in last[p] \/ (p + 1 \in PageNumbers /\ id \in own[p + 1])

\* What the cache answers about a chunk is what a walk over the pages answers
\* (is_assigned, get_size, get_start), whichever chunks have replaced each
\* other in the cache and whoever has given up or been given the chunk.
QueriesAgree == \A h \in DOMAIN cache :
  LET e == cache[h]
  IN  e.addr \notin {NULL, FAULT_PAGE_NUMBER} => \A id \in Ids :
        pma_is_assigned(e.addr, e.page_count, id) =>
        /\ AssignedByWalk(e.addr, e.page_count, id)
        /\ SizeByWalk(e.addr, id) = e.page_count /\ StartByWalk(e.addr, id) = e.begin

\* The two bits per page and the cache are consistent at every step: a free
\* or a query that trusts them neither leaves its chunk nor misses a part.
PagesConsistent == ChunksClosed /\ QueriesAgree
=============================================================================
