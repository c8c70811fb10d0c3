------------------------------ MODULE MmapDev -------------------------------
(***************************************************************************)
(* The mmap driver of lab14 (kernel/mymmap.c) in its three builds: the     *)
(* area comes from kmalloc, vmalloc or alloc_pages.  A contiguous area is  *)
(* remapped in one call, the vmalloc area page by page.  Lengths are       *)
(* counted in pages, as mmap rounds them.                                  *)
(***************************************************************************)
EXTENDS KernelServices

CONSTANTS MapProcs,   \* processes that map the device
          MAX_PAGES

ASSUME MmapAssumption == MAX_PAGES \in Nat \ {0} /\ "dirty" \notin MapProcs

VARIABLES alloc,   \* the build: USE_KMALLOC, USE_VMALLOC or USE_ALLOC_PAGES
          dsize,   \* dev.size, in pages
          content, \* page of the area: who wrote it last
          vma      \* process: [st, len, left, pages]; pages maps page to page

mmapVars == <<alloc, dsize, content, vma>>

NoVma == [st |-> "none", len |-> 0, left |-> 0, pages |-> <<>>]

MmapInit ==
    /\ alloc \in {"KMALLOC", "VMALLOC", "ALLOC_PAGES", "NONE"}
    /\ dsize = 0
    /\ content = [k \in 1 .. MAX_PAGES |-> "dirty"]
    /\ vma = [p \in MapProcs |-> NoVma]

(* mymmap_init writes a mark at the start of every page, when the build    *)
(* names an allocator.                                                     *)
MmapInsmod ==
    /\ Insmod
    /\ IF alloc = "NONE" THEN UNCHANGED <<dsize, content>>
       ELSE /\ dsize' = MAX_PAGES
            /\ content' = [k \in 1 .. MAX_PAGES |-> "face"]
    /\ UNCHANGED <<alloc, vma, refs, armed, running>>

(* mymmap_exit does not free the area. *)
MmapRmmod ==
    /\ Rmmod
    /\ UNCHANGED <<mmapVars, refs, armed, running>>

Fits(len) == len <= dsize /\ len # 0

(* open, and mmap of len pages.  The mapping keeps the file, and with it   *)
(* the module, whatever the process does with the descriptor.              *)
OpenAndMmap(p, len) ==
    /\ vma[p].st = "none"
    /\ ModuleGet
    /\ vma' = [vma EXCEPT ![p] =
          [st |-> IF dsize > 0 /\ Fits(len) THEN "mapping" ELSE "refused",
           len |-> len, left |-> len, pages |-> <<>>]]
    /\ UNCHANGED <<alloc, dsize, content, mstate, armed, running>>

(* Mutant: the page loop maps the first page of the area every time. *)
RemapFirst(p) == Append(vma[p].pages, 1)

(* vmalloc_area_ptr moves with start. *)
RemapNext(p) == Append(vma[p].pages, Len(vma[p].pages) + 1)

(* remap_pfn_range succeeds: one page of the loop, or the whole range. *)
Remap(p) ==
    /\ vma[p].st = "mapping" /\ vma[p].left > 0
    /\ IF alloc = "VMALLOC"
       THEN vma' = [vma EXCEPT ![p].pages = RemapNext(p), ![p].left = @ - 1]
       ELSE vma' = [vma EXCEPT ![p].pages = [k \in 1 .. vma[p].len |-> k], ![p].left = 0]
    /\ UNCHANGED <<services, alloc, dsize, content>>

(* It fails, at any page: -EAGAIN, and mmap takes back what was mapped. *)
RemapFails(p) ==
    /\ vma[p].st = "mapping" /\ vma[p].left > 0
    /\ vma' = [vma EXCEPT ![p].st = "failed", ![p].pages = <<>>]
    /\ UNCHANGED <<services, alloc, dsize, content>>

MmapReturns(p) ==
    /\ vma[p].st = "mapping" /\ vma[p].left = 0
    /\ vma' = [vma EXCEPT ![p].st = "mapped"]
    /\ UNCHANGED <<services, alloc, dsize, content>>

(* The process writes to its k-th page: a store, no call of the driver. *)
Store(p, k) ==
    /\ vma[p].st = "mapped" /\ k \in DOMAIN vma[p].pages
    /\ content' = [content EXCEPT ![vma[p].pages[k]] = p]
    /\ UNCHANGED <<services, alloc, dsize, vma>>

(* munmap or exit, and the last close. *)
Unmap(p) ==
    /\ vma[p].st \in {"mapped", "failed", "refused"}
    /\ ModulePut
    /\ vma' = [vma EXCEPT ![p] = NoVma]
    /\ UNCHANGED <<alloc, dsize, content, mstate, armed, running>>

MmapNext ==
    \/ MmapInsmod \/ MmapRmmod
    \/ \E p \in MapProcs :
          \/ \E len \in 1 .. MAX_PAGES + 1 : OpenAndMmap(p, len)
          \/ Remap(p) \/ RemapFails(p) \/ MmapReturns(p) \/ Unmap(p)
          \/ \E k \in 1 .. MAX_PAGES : Store(p, k)

(***************************************************************************)
(* Properties                                                              *)
(***************************************************************************)
MmapTypeOK ==
    /\ dsize \in {0, MAX_PAGES}
    /\ content \in [1 .. MAX_PAGES -> MapProcs \cup {"dirty", "face"}]
    /\ vma \in [MapProcs ->
          [st : {"none", "mapping", "mapped", "failed", "refused"},
           len : 0 .. MAX_PAGES + 1, left : 0 .. MAX_PAGES + 1,
           pages : Seq(1 .. MAX_PAGES)]]

(* In every build a mapping that has returned maps page k to page k of the *)
(* area, completely and not beyond it, no page shows what was in the       *)
(* memory before the module, and the module stays while there is a         *)
(* mapping.  A build with an area refuses nothing that fits into it: the   *)
(* 16 pages mmap-test.c asks for are the whole area.                       *)
MapsTheArea ==
    \A p \in MapProcs :
        /\ vma[p].st = "mapped" =>
              /\ vma[p].pages = [k \in 1 .. vma[p].len |-> k]
              /\ \A k \in 1 .. vma[p].len : content[vma[p].pages[k]] # "dirty"
              /\ mstate = "live"
        /\ vma[p].st = "refused" => alloc = "NONE" \/ vma[p].len > MAX_PAGES

MmapHolders == {p \in MapProcs : vma[p].st # "none"}

(* The inductive form: the page loop has mapped the pages it has passed,   *)
(* in order; the area is there, and marked, as long as anybody maps it.    *)
Ready == alloc # "NONE" /\ dsize = MAX_PAGES /\ \A k \in 1 .. MAX_PAGES : content[k] # "dirty"

MapInv(p) ==
    /\ vma[p].st \in {"mapping", "mapped"} =>
          /\ Ready /\ vma[p].len <= MAX_PAGES /\ vma[p].left <= vma[p].len
          /\ vma[p].pages = [k \in 1 .. vma[p].len - vma[p].left |-> k]
    /\ vma[p].st = "mapped" => vma[p].left = 0
    /\ vma[p].st = "refused" => alloc = "NONE" \/ vma[p].len > MAX_PAGES

MmapInv ==
    /\ MmapTypeOK
    /\ alloc = "NONE" => dsize = 0
    /\ mstate = "live" /\ alloc # "NONE" => Ready
    /\ \A p \in MapProcs : MapInv(p)
=============================================================================
