---------------------------- MODULE Kernel_proofs ---------------------------
(***************************************************************************)
(* Proofs about the kernel labs, for any number of processes, users,       *)
(* tasks, processors, pages and lists and any buffer sizes.                *)
(***************************************************************************)
EXTENDS Kernel, FiniteSetTheorems, SequenceTheorems, WellFoundedInduction, TLAPS

-----------------------------------------------------------------------------
(***************************************************************************)
(* Induction.                                                              *)
(***************************************************************************)

(* A set of numbers that is not empty has a least element. *)
LEMMA Least ==
    ASSUME NEW T \in SUBSET Nat, T # {}
    PROVE  \E x \in T : \A y \in T : x <= y
<1>1. \A x, y \in Nat : <<y, x>> \in OpToRel(<, Nat) <=> y < x
  BY DEF OpToRel
<1>2. PICK R : IsWellFoundedOn(R, Nat) /\ \A x, y \in Nat : <<y, x>> \in R <=> y < x
  BY <1>1, NatLessThanWellFounded, Zenon
<1>3. PICK x \in T : \A y \in T : ~ (<<y, x>> \in R)
  BY <1>2, WFMin
<1>4. ASSUME NEW y \in T PROVE x <= y
  <2>1. x \in Nat /\ y \in Nat /\ ~ (<<y, x>> \in R)
    BY <1>3
  <2>2. ~ (y < x)
    BY <1>2, <2>1
  <2> QED
    BY <2>1, <2>2
<1> QED
  BY <1>3, <1>4

(* Good is the set of numbers for which a claim holds. *)
LEMMA UpTo ==
    ASSUME NEW len \in Nat, NEW Good, 0 \in Good,
           \A k \in 1 .. len : k - 1 \in Good => k \in Good
    PROVE  0 .. len \subseteq Good
<1> DEFINE Bad == (0 .. len) \ Good
<1>1. SUFFICES ASSUME Bad # {} PROVE FALSE
  OBVIOUS
<1>2. PICK m \in Bad : \A k \in Bad : m <= k
  <2>1. Bad \in SUBSET Nat
    OBVIOUS
  <2> HIDE DEF Bad
  <2> QED
    BY <1>1, <2>1, Least
<1>3. m \in 1 .. len /\ m \notin Good
  BY <1>2
<1>4. m - 1 \in 0 .. len /\ m - 1 \notin Bad
  BY <1>2, <1>3
<1> QED
  BY <1>3, <1>4

(* h begins with b and each of its values up to m is the step F from the   *)
(* one before: what a recursive definition over 0 .. m asks of it.         *)
Follows(h, m, S, b, F) ==
    /\ h \in [0 .. m -> S] /\ h[0] = b
    /\ \A k \in 1 .. m : h[k] = F[<<k, h[k - 1]>>]

(* A recursive definition over 0 .. len defines something. *)
LEMMA Recursion ==
    ASSUME NEW len \in Nat, NEW S, NEW b \in S, NEW F \in [(1 .. len) \X S -> S]
    PROVE  \E h : Follows(h, len, S, b, F)
<1> DEFINE Good == {m \in 0 .. len : \E h : Follows(h, m, S, b, F)}
<1>1. 0 \in Good
  <2> DEFINE h == [k \in 0 .. 0 |-> b]
  <2>1. h \in [0 .. 0 -> S] /\ h[0] = b /\ \A k \in 1 .. 0 : FALSE
    OBVIOUS
  <2>2. Follows(h, 0, S, b, F)
    BY <2>1 DEF Follows
  <2> QED
    BY <2>2
<1>2. ASSUME NEW m \in 1 .. len, m - 1 \in Good PROVE m \in Good
  <2>1. PICK g : Follows(g, m - 1, S, b, F)
    BY <1>2
  <2>2. /\ g \in [0 .. m - 1 -> S] /\ g[0] = b
        /\ \A k \in 1 .. m - 1 : g[k] = F[<<k, g[k - 1]>>]
    BY <2>1 DEF Follows
  <2> DEFINE h == [k \in 0 .. m |-> IF k = m THEN F[<<m, g[m - 1]>>] ELSE g[k]]
  <2>3. m - 1 \in 0 .. m - 1 /\ F[<<m, g[m - 1]>>] \in S
    <3>1. g[m - 1] \in S
      BY <2>2
    <3>2. <<m, g[m - 1]>> \in (1 .. len) \X S
      BY <3>1
    <3> QED
      BY <3>2
  <2>4. h \in [0 .. m -> S]
    <3>1. ASSUME NEW k \in 0 .. m, k # m PROVE g[k] \in S
      BY <2>2, <3>1
    <3> QED
      BY <2>3, <3>1
  <2>5. h[0] = b
    BY <2>2
  <2>6. ASSUME NEW k \in 1 .. m PROVE h[k] = F[<<k, h[k - 1]>>]
    <3>1. h[k - 1] = g[k - 1]
      OBVIOUS
    <3>2. CASE k = m
      BY <3>1, <3>2
    <3>3. CASE k # m
      <4>1. k \in 1 .. m - 1 /\ h[k] = g[k]
        BY <3>3
      <4> QED
        BY <2>2, <3>1, <4>1
    <3> QED
      BY <3>2, <3>3
  <2> HIDE DEF h
  <2>7. Follows(h, m, S, b, F)
    BY <2>4, <2>5, <2>6 DEF Follows
  <2> QED
    BY <2>7
<1>3. len \in Good
  <2> HIDE DEF Good
  <2>1. \A k \in 1 .. len : k - 1 \in Good => k \in Good
    BY <1>2
  <2>2. 0 .. len \subseteq Good
    BY <1>1, <2>1, UpTo
  <2> QED
    BY <2>2
<1> QED
  BY <1>3

-----------------------------------------------------------------------------
(* The module's references. *)

(* How one step may change the holders of a module, its references and its *)
(* state: nobody comes or goes, somebody opens a live module, or somebody  *)
(* closes it.  A module is unloaded only while nobody holds it.            *)
Kept(H, H1) ==
    /\ H1 = H /\ refs' = refs
    /\ mstate' = mstate \/ mstate # "live" \/ refs = 0

Took(H, H1) ==
    /\ \E h : h \notin H /\ H1 = H \cup {h}
    /\ refs' = refs + 1 /\ mstate = "live" /\ mstate' = mstate

Gave(H, H1) ==
    /\ \E h \in H : H1 = H \ {h}
    /\ refs' = refs - 1 /\ mstate' = mstate

(* The references stay the number of holders, and keep the module loaded.  *)
LEMMA RefsCount ==
    ASSUME NEW H, NEW H1, IsFiniteSet(H), refs = Cardinality(H),
           refs > 0 => mstate = "live",
           Kept(H, H1) \/ Took(H, H1) \/ Gave(H, H1)
    PROVE  /\ IsFiniteSet(H1) /\ refs' = Cardinality(H1)
           /\ refs' > 0 => mstate' = "live"
<1>0. refs \in Nat
  BY FS_CardinalityType
<1>1. CASE Kept(H, H1)
  BY <1>0, <1>1 DEF Kept
<1>2. CASE Took(H, H1)
  <2>1. PICK h : h \notin H /\ H1 = H \cup {h}
    BY <1>2 DEF Took
  <2>2. IsFiniteSet(H1) /\ Cardinality(H1) = Cardinality(H) + 1
    BY <2>1, FS_AddElement
  <2> QED
    BY <1>2, <2>2 DEF Took
<1>3. CASE Gave(H, H1)
  <2>1. PICK h \in H : H1 = H \ {h}
    BY <1>3 DEF Gave
  <2>2. IsFiniteSet(H1) /\ Cardinality(H1) = Cardinality(H) - 1
    BY <2>1, FS_RemoveElement
  <2> QED
    BY <1>0, <1>3, <2>2 DEF Gave
<1> QED
  BY <1>1, <1>2, <1>3

(* Whoever holds a module keeps it loaded. *)
LEMMA HeldIsLive ==
    ASSUME RefsInv, Holders # {}
    PROVE  mstate = "live" /\ refs >= 1
<1>1. refs \in Nat /\ refs # 0
  BY FS_CardinalityType, FS_EmptySet DEF RefsInv
<1> QED
  BY <1>1 DEF RefsInv

-----------------------------------------------------------------------------
(* lab11: the character device. *)

LEMMA CdevHolds == lab = "lab11" => Holders = CdevHolders
BY DEF Holders

LEMMA CdevRefs ==
    ASSUME RefsInv, CdevInv, lab = "lab11", CdevNext
    PROVE  \/ Kept(CdevHolders, CdevHolders') \/ Took(CdevHolders, CdevHolders')
           \/ Gave(CdevHolders, CdevHolders')
<1>0. /\ file \in [Procs -> [open : BOOLEAN, off : 0 .. BUFSIZ, pure : BOOLEAN, over : BOOLEAN]]
      /\ asked \in [Procs -> {"no", "open", "busy"}]
      /\ \A p \in Procs : asked[p] # "no" => ~file[p].open
  BY DEF CdevInv, CdevTypeOK
<1>1. CASE CdevInsmod
  BY <1>1 DEF CdevInsmod, Insmod, Kept, CdevHolders
<1>2. CASE CdevRmmod
  BY <1>2 DEF CdevRmmod, Rmmod, Kept, CdevHolders, cdevVars
<1>3. ASSUME NEW p \in Procs, OpenFile(p) PROVE Took(CdevHolders, CdevHolders')
  <2>1. p \notin CdevHolders /\ CdevHolders' = CdevHolders \cup {p}
    BY <1>0, <1>3 DEF OpenFile, CdevHolders
  <2> QED
    BY <1>3, <2>1 DEF OpenFile, ModuleGet, Took
<1>4. ASSUME NEW p \in Procs, MyOpen(p) PROVE Kept(CdevHolders, CdevHolders')
  <2>1. CdevHolders' = CdevHolders
    BY <1>0, <1>4 DEF MyOpen, CdevHolders, Closed
  <2> QED
    BY <1>4, <2>1 DEF MyOpen, Kept, services
<1>5. ASSUME NEW p \in Procs, FailedOpen(p) PROVE Gave(CdevHolders, CdevHolders')
  <2>1. p \in CdevHolders /\ CdevHolders' = CdevHolders \ {p}
    BY <1>0, <1>5 DEF FailedOpen, CdevHolders
  <2> QED
    BY <1>5, <2>1 DEF FailedOpen, ModulePut, Gave
<1>6. ASSUME NEW p \in Procs, MyRelease(p) PROVE Gave(CdevHolders, CdevHolders')
  <2>1. p \in CdevHolders /\ CdevHolders' = CdevHolders \ {p}
    BY <1>0, <1>6 DEF MyRelease, CdevHolders, Closed
  <2> QED
    BY <1>6, <2>1 DEF MyRelease, ModulePut, Gave
<1>7. ASSUME NEW p \in Procs, NEW n \in 1 .. BUFSIZ, MyRead(p, n) \/ MyWrite(p, n)
      PROVE  Kept(CdevHolders, CdevHolders')
  <2>1. \A q \in Procs : file'[q].open = file[q].open /\ asked' = asked
    <3>1. CASE MyRead(p, n)
      <4>1. PICK to, beyond : file' = [file EXCEPT ![p].off = to, ![p].over = beyond]
        BY <3>1, Zenon DEF MyRead
      <4> QED
        BY <1>0, <3>1, <4>1 DEF MyRead
    <3>2. CASE MyWrite(p, n)
      BY <1>0, <3>2 DEF MyWrite
    <3> QED
      BY <1>7, <3>1, <3>2
  <2>2. CdevHolders' = CdevHolders
    BY <2>1 DEF CdevHolders
  <2> QED
    BY <1>7, <2>2 DEF MyRead, MyWrite, Kept, services
<1>8. ASSUME NEW p \in Procs, NEW r \in 0 .. BUFFER_SIZE, SetBuffer(p, r)
      PROVE  Kept(CdevHolders, CdevHolders')
  <2>1. CdevHolders' = CdevHolders
    BY <1>0, <1>8 DEF SetBuffer, CdevHolders
  <2> QED
    BY <1>8, <2>1 DEF SetBuffer, Kept, services
<1> QED
  BY <1>1, <1>2, <1>3, <1>4, <1>5, <1>6, <1>7, <1>8 DEF CdevNext

(* What is left to read when the file is not ahead of the data. *)
LEMMA ReadableBounds ==
    ASSUME size \in 0 .. BUFSIZ, NEW off \in 0 .. BUFSIZ, NEW n \in 1 .. BUFSIZ
    PROVE  /\ Readable(off, n) \in Nat
           /\ off <= size => off + Readable(off, n) <= size
<1>1. BUFSIZ \in Nat /\ SizeT \in Nat /\ SizeT > 2 * BUFSIZ
  BY CharDevAssumption
<1>2. SizeT > 0 /\ size < SizeT
  BY <1>1
<1>3. (size - off) % SizeT \in Nat
  <2>1. \A a \in Int, s \in Nat : s > 0 => a % s \in Nat
    BY SMT
  <2> QED
    BY <1>1, <1>2, <2>1
<1>4. off <= size => (size - off) % SizeT = size - off
  <2>1. \A a, s \in Nat : a < s => a % s = a
    BY SMT
  <2> QED
    BY <1>1, <1>2, <2>1
<1> QED
  BY <1>1, <1>3, <1>4 DEF Readable, my_min

LEMMA CdevStep ==
    ASSUME RefsInv, CdevInv, lab = "lab11", CdevNext
    PROVE  CdevInv'
<1>0. BUFSIZ \in Nat /\ BUFFER_SIZE \in 1 .. BUFSIZ
  BY CharDevAssumption
<1> USE DEF CdevInv, CdevTypeOK, ReadersStayInData
<1>1. CASE CdevInsmod
  <2>1. CdevHolders = {}
    BY <1>1, HeldIsLive, CdevHolds DEF CdevInsmod, Insmod
  <2>2. \A p \in Procs : ~file[p].open
    BY <2>1 DEF CdevHolders
  <2> QED
    BY <1>0, <1>1, <2>2 DEF CdevInsmod
<1>2. CASE CdevRmmod
  BY <1>2 DEF CdevRmmod, cdevVars
<1>3. ASSUME NEW p \in Procs, OpenFile(p) PROVE CdevInv'
  BY <1>3 DEF OpenFile
<1>4. ASSUME NEW p \in Procs, MyOpen(p) PROVE CdevInv'
  <2>1. CASE access = 0
    <3>1. /\ access' = 1 /\ size' = size
          /\ asked' = [asked EXCEPT ![p] = "no"]
          /\ file' = [file EXCEPT ![p] = [open |-> TRUE, off |-> 0, pure |-> TRUE, over |-> FALSE]]
      BY <1>4, <2>1 DEF MyOpen, Cmpxchg, Closed
    <3>2. \A q \in Procs : ~file[q].open
      BY <2>1
    <3>3. CdevTypeOK'
      BY <1>0, <3>1
    <3>4. \A q \in Procs : file'[q].open <=> q = p
      BY <3>1, <3>2
    <3> QED
      BY <1>0, <3>1, <3>3, <3>4
  <2>2. CASE access # 0
    BY <1>4, <2>2 DEF MyOpen
  <2> QED
    BY <2>1, <2>2
<1>5. ASSUME NEW p \in Procs, FailedOpen(p) PROVE CdevInv'
  BY <1>5 DEF FailedOpen
<1>6. ASSUME NEW p \in Procs, MyRelease(p) PROVE CdevInv'
  <2>1. /\ access' = 0 /\ size' = size /\ asked' = asked /\ file[p].open
        /\ file' = [file EXCEPT ![p] = [open |-> FALSE, off |-> 0, pure |-> TRUE, over |-> FALSE]]
    BY <1>6 DEF MyRelease, Closed
  <2>2. \A q \in Procs : file[q].open => q = p
    BY <2>1
  <2>3. \A q \in Procs : ~file'[q].open
    BY <2>1, <2>2
  <2> QED
    BY <1>0, <2>1, <2>3
<1>7. ASSUME NEW p \in Procs, NEW n \in 1 .. BUFSIZ, MyRead(p, n) PROVE CdevInv'
  <2> DEFINE l == Readable(file[p].off, n)
             beyond == IF file[p].off + l > size THEN TRUE ELSE file[p].over
  <2>1. PICK to \in {file[p].off, file[p].off + l} :
          /\ to <= BUFSIZ /\ access' = access /\ size' = size /\ asked' = asked
          /\ file' = [file EXCEPT ![p].off = to, ![p].over = beyond]
    BY <1>7, Zenon DEF MyRead
  <2>2. l \in Nat /\ (file[p].off <= size => file[p].off + l <= size)
    BY ReadableBounds
  <2> HIDE DEF l
  <2>3. to \in 0 .. BUFSIZ /\ file[p] \in [open : BOOLEAN, off : 0 .. BUFSIZ, pure : BOOLEAN, over : BOOLEAN]
    BY <1>0, <2>1, <2>2
  <2>4. beyond \in BOOLEAN /\ (file[p].pure /\ file[p].open => ~beyond /\ to <= size)
    <3>1. file[p].pure /\ file[p].open => ~file[p].over /\ file[p].off <= size
      OBVIOUS
    <3>2. file[p].pure /\ file[p].open => ~(file[p].off + l > size) /\ to <= size
      BY <1>0, <2>1, <2>2, <2>3, <3>1
    <3>3. file[p].over \in BOOLEAN
      BY <2>3
    <3> QED
      BY <3>1, <3>2, <3>3, Zenon
  <2> HIDE DEF beyond
  <2>5. file' \in [Procs -> [open : BOOLEAN, off : 0 .. BUFSIZ, pure : BOOLEAN, over : BOOLEAN]]
    BY <2>1, <2>3, <2>4
  <2>6. \A q \in Procs :
          /\ file'[q].open = file[q].open /\ file'[q].pure = file[q].pure
          /\ q # p => file'[q] = file[q]
          /\ q = p => file'[q].off = to /\ file'[q].over = beyond
    BY <2>1, <2>3
  <2>7. ReadersStayInData'
    BY <2>1, <2>4, <2>6
  <2>8. CdevTypeOK'
    BY <2>1, <2>5
  <2>9. \A q \in Procs : asked'[q] # "no" => ~file'[q].open
    BY <2>1, <2>6
  <2>10. \/ access' = 0 /\ \A q \in Procs : ~file'[q].open
         \/ access' = 1 /\ \E r \in Procs : \A q \in Procs : file'[q].open <=> q = r
    BY <2>1, <2>6
  <2> HIDE DEF CdevTypeOK, ReadersStayInData
  <2> QED
    BY <2>7, <2>8, <2>9, <2>10
<1>8. ASSUME NEW p \in Procs, NEW n \in 1 .. BUFSIZ, MyWrite(p, n) PROVE CdevInv'
  <2>1. /\ file[p].off + n <= BUFSIZ /\ access' = access /\ size' = size /\ asked' = asked
        /\ file' = [file EXCEPT ![p].off = @ + n, ![p].pure = FALSE]
    BY <1>8 DEF MyWrite
  <2>2. file[p].off + n \in 0 .. BUFSIZ
    BY <1>0, <2>1
  <2>3. CdevTypeOK'
    BY <2>1, <2>2, ZenonT(40)
  <2>4. \A q \in Procs : file'[q].open = file[q].open
    BY <2>1
  <2>5. ReadersStayInData'
    BY <2>1
  <2>6. \A q \in Procs : asked'[q] # "no" => ~file'[q].open
    BY <2>1, <2>4
  <2>7. \/ access' = 0 /\ \A q \in Procs : ~file'[q].open
        \/ access' = 1 /\ \E r \in Procs : \A q \in Procs : file'[q].open <=> q = r
    BY <2>1, <2>4
  <2> HIDE DEF CdevTypeOK, ReadersStayInData
  <2> QED
    BY <2>3, <2>5, <2>6, <2>7
<1>9. ASSUME NEW p \in Procs, NEW r \in 0 .. BUFFER_SIZE, SetBuffer(p, r) PROVE CdevInv'
  <2>1. /\ file[p].open /\ access' = access /\ size' = BUFFER_SIZE - r /\ asked' = asked
        /\ file' = [file EXCEPT ![p].pure = FALSE]
    BY <1>9 DEF SetBuffer
  <2>2. CdevTypeOK'
    <3>1. size' \in 0 .. BUFSIZ
      BY <1>0, <2>1
    <3>2. file' \in [Procs -> [open : BOOLEAN, off : 0 .. BUFSIZ, pure : BOOLEAN, over : BOOLEAN]]
      BY <2>1
    <3> QED
      BY <2>1, <3>1, <3>2
  <2>3. \A q \in Procs : file'[q].open = file[q].open
    BY <2>1
  <2>4. \A q \in Procs : file[q].open => q = p
    BY <2>1
  <2>5. ReadersStayInData'
    BY <2>1, <2>3, <2>4
  <2> QED
    BY <2>1, <2>2, <2>3, <2>5
<1> QED
  BY <1>1, <1>2, <1>3, <1>4, <1>5, <1>6, <1>7, <1>8, <1>9 DEF CdevNext

-----------------------------------------------------------------------------
(* lab14: the mmap driver. *)

LEMMA MmapHolds == lab = "lab14" => Holders = MmapHolders
BY DEF Holders

VmaType == [st : {"none", "mapping", "mapped", "failed", "refused"},
            len : 0 .. MAX_PAGES + 1, left : 0 .. MAX_PAGES + 1,
            pages : Seq(1 .. MAX_PAGES)]

LEMMA MmapRefs ==
    ASSUME RefsInv, MmapInv, lab = "lab14", MmapNext
    PROVE  \/ Kept(MmapHolders, MmapHolders') \/ Took(MmapHolders, MmapHolders')
           \/ Gave(MmapHolders, MmapHolders')
<1>0. vma \in [MapProcs -> VmaType]
  BY DEF MmapInv, MmapTypeOK, VmaType
<1>1. CASE MmapInsmod
  BY <1>1 DEF MmapInsmod, Insmod, Kept, MmapHolders
<1>2. CASE MmapRmmod
  BY <1>2 DEF MmapRmmod, Rmmod, Kept, MmapHolders, mmapVars
<1>3. ASSUME NEW p \in MapProcs, NEW len \in 1 .. MAX_PAGES + 1, OpenAndMmap(p, len)
      PROVE  Took(MmapHolders, MmapHolders')
  <2>1. /\ vma[p].st = "none" /\ vma'[p].st # "none"
        /\ \A q \in MapProcs : q # p => vma'[q] = vma[q]
    BY <1>0, <1>3 DEF OpenAndMmap
  <2>2. p \notin MmapHolders /\ MmapHolders' = MmapHolders \cup {p}
    BY <2>1 DEF MmapHolders
  <2> QED
    BY <1>3, <2>2 DEF OpenAndMmap, ModuleGet, Took
<1>4. ASSUME NEW p \in MapProcs, Remap(p) \/ RemapFails(p) \/ MmapReturns(p)
      PROVE  Kept(MmapHolders, MmapHolders')
  <2>1. /\ vma[p].st # "none" /\ vma'[p].st # "none"
        /\ \A q \in MapProcs : q # p => vma'[q] = vma[q]
    BY <1>0, <1>4 DEF Remap, RemapFails, MmapReturns, VmaType
  <2>2. MmapHolders' = MmapHolders
    BY <2>1 DEF MmapHolders
  <2> QED
    BY <1>4, <2>2 DEF Remap, RemapFails, MmapReturns, Kept, services
<1>5. ASSUME NEW p \in MapProcs, Unmap(p) PROVE Gave(MmapHolders, MmapHolders')
  <2>1. /\ vma[p].st # "none" /\ vma'[p].st = "none"
        /\ \A q \in MapProcs : q # p => vma'[q] = vma[q]
    BY <1>0, <1>5 DEF Unmap, NoVma
  <2>2. p \in MmapHolders /\ MmapHolders' = MmapHolders \ {p}
    BY <2>1 DEF MmapHolders
  <2> QED
    BY <1>5, <2>2 DEF Unmap, ModulePut, Gave
<1>6. ASSUME NEW p \in MapProcs, NEW k \in 1 .. MAX_PAGES, Store(p, k)
      PROVE  Kept(MmapHolders, MmapHolders')
  BY <1>6 DEF Store, MmapHolders, Kept, services
<1> QED
  BY <1>1, <1>2, <1>3, <1>4, <1>5, <1>6 DEF MmapNext

(* The first n pages, in order. *)
Upto(n) == [k \in 1 .. n |-> k]

LEMMA UptoGrows ==
    ASSUME NEW n \in Nat, n + 1 <= MAX_PAGES
    PROVE  Append(Upto(n), Len(Upto(n)) + 1) = Upto(n + 1)
<1>1. Upto(n) \in Seq(Int) /\ Len(Upto(n)) = n
  BY DEF Upto
<1>2. Append(Upto(n), n + 1) \in Seq(Int) /\ Len(Append(Upto(n), n + 1)) = n + 1
  BY <1>1
<1>3. \A k \in 1 .. n + 1 : Append(Upto(n), n + 1)[k] = k
  BY <1>1 DEF Upto
<1>4. Upto(n + 1) \in Seq(Int) /\ Len(Upto(n + 1)) = n + 1
  BY DEF Upto
<1>5. \A k \in 1 .. n + 1 : Upto(n + 1)[k] = k
  BY DEF Upto
<1> QED
  BY <1>1, <1>2, <1>3, <1>4, <1>5

LEMMA UptoType ==
    ASSUME NEW n \in Nat, n <= MAX_PAGES
    PROVE  Upto(n) \in Seq(1 .. MAX_PAGES)
BY MmapAssumption DEF Upto

LEMMA UptoNone == <<>> = Upto(0)
BY DEF Upto

(* A step that leaves the area and every mapping but p's alone. *)
LEMMA MapOthers ==
    ASSUME MmapInv, NEW p \in MapProcs, NEW v \in VmaType,
           vma' = [vma EXCEPT ![p] = v], UNCHANGED <<alloc, dsize, content>>,
           mstate' = "live" => mstate = "live", MapInv(p)'
    PROVE  MmapInv'
<1>1. MmapTypeOK'
  BY DEF MmapInv, MmapTypeOK, VmaType
<1>2. Ready' <=> Ready
  BY DEF Ready
<1>3. ASSUME NEW q \in MapProcs, q # p PROVE MapInv(q)'
  <2>1. vma'[q] = vma[q]
    BY <1>3 DEF MmapInv, MmapTypeOK
  <2> QED
    BY <1>2, <2>1 DEF MmapInv, MapInv
<1> QED
  BY <1>1, <1>2, <1>3 DEF MmapInv

LEMMA MmapStep ==
    ASSUME RefsInv, MmapInv, lab = "lab14", MmapNext
    PROVE  MmapInv'
<1>0. /\ vma \in [MapProcs -> VmaType] /\ MAX_PAGES \in Nat \ {0}
      /\ \A p \in MapProcs : MapInv(p)
      /\ dsize \in {0, MAX_PAGES}
      /\ content \in [1 .. MAX_PAGES -> MapProcs \cup {"dirty", "face"}]
      /\ "dirty" \notin MapProcs
  BY MmapAssumption DEF MmapInv, MmapTypeOK, VmaType
<1>1. CASE MmapInsmod
  <2>1. MmapHolders = {}
    BY <1>1, HeldIsLive, MmapHolds DEF MmapInsmod, Insmod
  <2>2. \A p \in MapProcs : vma[p].st = "none"
    BY <2>1 DEF MmapHolders
  <2>3. alloc' = alloc /\ vma' = vma
    BY <1>1 DEF MmapInsmod
  <2>4. \A p \in MapProcs : MapInv(p)'
    BY <2>2, <2>3 DEF MapInv
  <2>5. MmapTypeOK' /\ (alloc' # "NONE" => Ready') /\ (alloc' = "NONE" => dsize' = 0)
    <3>1. CASE alloc = "NONE"
      BY <1>0, <1>1, <3>1 DEF MmapInsmod, MmapTypeOK, VmaType, MmapInv
    <3>2. CASE alloc # "NONE"
      BY <1>0, <1>1, <3>2 DEF MmapInsmod, MmapTypeOK, VmaType, Ready
    <3> QED
      BY <3>1, <3>2
  <2> QED
    BY <2>4, <2>5 DEF MmapInv
<1>2. CASE MmapRmmod
  BY <1>2 DEF MmapRmmod, Rmmod, mmapVars, MmapInv, MmapTypeOK, Ready, MapInv
<1>3. ASSUME NEW p \in MapProcs, NEW len \in 1 .. MAX_PAGES + 1, OpenAndMmap(p, len)
      PROVE  MmapInv'
  <2> DEFINE v == [st |-> IF dsize > 0 /\ Fits(len) THEN "mapping" ELSE "refused",
                   len |-> len, left |-> len, pages |-> <<>>]
  <2>1. vma' = [vma EXCEPT ![p] = v] /\ UNCHANGED <<alloc, dsize, content>>
    BY <1>3 DEF OpenAndMmap
  <2>2. v \in VmaType
    BY <1>0 DEF VmaType
  <2>3. mstate = "live" /\ mstate' = "live"
    BY <1>3 DEF OpenAndMmap, ModuleGet
  <2>4. alloc # "NONE" => Ready
    BY <2>3 DEF MmapInv
  <2>5. vma'[p] = v
    BY <1>0, <2>1
  <2>6. v.len - v.left = 0 /\ v.pages = Upto(v.len - v.left)
    BY UptoNone
  <2>7. MapInv(p)'
    <3>1. CASE dsize > 0 /\ Fits(len)
      <4>1. dsize = MAX_PAGES /\ len <= MAX_PAGES /\ v.st = "mapping"
        BY <1>0, <3>1 DEF Fits
      <4>2. alloc # "NONE" /\ Ready
        BY <1>0, <2>4, <4>1 DEF MmapInv
      <4> QED
        BY <2>1, <2>5, <2>6, <4>1, <4>2 DEF MapInv, Upto, Ready
    <3>2. CASE ~ (dsize > 0 /\ Fits(len))
      <4>1. v.st = "refused"
        BY <3>2
      <4>2. alloc # "NONE" => len > MAX_PAGES
        BY <1>0, <2>4, <3>2 DEF Ready, Fits
      <4> QED
        BY <2>1, <2>5, <4>1, <4>2 DEF MapInv
    <3> QED
      BY <3>1, <3>2
  <2> HIDE DEF v
  <2> QED
    BY <2>1, <2>2, <2>3, <2>7, MapOthers
<1>4. ASSUME NEW p \in MapProcs, Remap(p) PROVE MmapInv'
  <2>1. /\ vma[p].st = "mapping" /\ vma[p].left > 0 /\ vma[p] \in VmaType
        /\ UNCHANGED <<alloc, dsize, content, mstate>>
    BY <1>0, <1>4 DEF Remap, services
  <2>2. /\ Ready /\ vma[p].len <= MAX_PAGES /\ vma[p].left <= vma[p].len
        /\ vma[p].pages = Upto(vma[p].len - vma[p].left)
        /\ vma[p].len \in Nat /\ vma[p].left \in Nat
    <3>1. vma[p].len \in Nat /\ vma[p].left \in Nat
      BY <1>0, <2>1 DEF VmaType
    <3> QED
      BY <1>0, <2>1, <3>1 DEF MapInv, Upto
  <2>3. ASSUME NEW l \in Nat, l < vma[p].left,
               vma' = [vma EXCEPT ![p].pages = Upto(vma[p].len - l), ![p].left = l]
        PROVE  MmapInv'
    <3> DEFINE v == [vma[p] EXCEPT !.pages = Upto(vma[p].len - l), !.left = l]
    <3>1. vma' = [vma EXCEPT ![p] = v]
      BY <1>0, <2>3 DEF VmaType
    <3>2. /\ v.st = "mapping" /\ v.len = vma[p].len /\ v.left = l
          /\ v.pages = Upto(v.len - v.left)
      BY <2>1 DEF VmaType
    <3>3. Upto(vma[p].len - l) \in Seq(1 .. MAX_PAGES)
      BY <1>0, <2>2, <2>3, UptoType
    <3>4. l \in 0 .. MAX_PAGES + 1
      BY <1>0, <2>2, <2>3
    <3>5. v \in VmaType
      BY <2>1, <3>3, <3>4 DEF VmaType
    <3>6. vma'[p] = v
      BY <1>0, <3>1
    <3> HIDE DEF v
    <3>7. MapInv(p)'
      BY <1>0, <2>1, <2>2, <2>3, <3>2, <3>6 DEF MapInv, Upto, Ready
    <3> QED
      BY <2>1, <3>1, <3>5, <3>7, MapOthers
  <2>4. CASE alloc = "VMALLOC"
    <3>1. vma' = [vma EXCEPT ![p].pages = RemapNext(p), ![p].left = @ - 1]
      BY <1>4, <2>4 DEF Remap
    <3>2. RemapNext(p) = Upto((vma[p].len - vma[p].left) + 1)
      BY <1>0, <2>1, <2>2, UptoGrows DEF RemapNext
    <3>3. (vma[p].len - vma[p].left) + 1 = vma[p].len - (vma[p].left - 1)
      BY <2>2
    <3>4. vma[p].left - 1 \in Nat /\ vma[p].left - 1 < vma[p].left
      BY <2>1, <2>2
    <3>5. vma' = [vma EXCEPT ![p].pages = Upto(vma[p].len - (vma[p].left - 1)),
                             ![p].left = vma[p].left - 1]
      BY <1>0, <3>1, <3>2, <3>3
    <3> QED
      BY <2>3, <3>4, <3>5
  <2>5. CASE alloc # "VMALLOC"
    <3>1. vma' = [vma EXCEPT ![p].pages = Upto(vma[p].len), ![p].left = 0]
      BY <1>4, <2>5 DEF Remap, Upto
    <3>2. vma[p].len - 0 = vma[p].len
      BY <2>2
    <3>3. vma' = [vma EXCEPT ![p].pages = Upto(vma[p].len - 0), ![p].left = 0]
      BY <3>1, <3>2
    <3> QED
      BY <2>1, <2>3, <3>3
  <2> QED
    BY <2>4, <2>5
<1>5. ASSUME NEW p \in MapProcs, RemapFails(p) PROVE MmapInv'
  <2> DEFINE v == [vma[p] EXCEPT !.st = "failed", !.pages = <<>>]
  <2>1. vma' = [vma EXCEPT ![p] = v] /\ UNCHANGED <<alloc, dsize, content, mstate>>
    BY <1>0, <1>5 DEF RemapFails, services, VmaType
  <2>2. v \in VmaType /\ v.st = "failed"
    <3>1. vma[p] \in VmaType /\ <<>> \in Seq(1 .. MAX_PAGES)
      BY <1>0
    <3> QED
      BY <3>1 DEF VmaType
  <2>3. vma'[p] = v
    BY <1>0, <2>1
  <2> HIDE DEF v
  <2>4. MapInv(p)'
    BY <2>2, <2>3 DEF MapInv
  <2> QED
    BY <2>1, <2>2, <2>4, MapOthers
<1>6. ASSUME NEW p \in MapProcs, MmapReturns(p) PROVE MmapInv'
  <2> DEFINE v == [vma[p] EXCEPT !.st = "mapped"]
  <2>1. /\ vma' = [vma EXCEPT ![p] = v] /\ UNCHANGED <<alloc, dsize, content, mstate>>
        /\ vma[p].st = "mapping" /\ vma[p].left = 0
    BY <1>0, <1>6 DEF MmapReturns, services, VmaType
  <2>2. /\ v \in VmaType /\ v.st = "mapped" /\ v.len = vma[p].len /\ v.left = vma[p].left
        /\ v.pages = vma[p].pages
    BY <1>0 DEF VmaType
  <2>3. vma'[p] = v
    BY <1>0, <2>1
  <2> HIDE DEF v
  <2>4. MapInv(p)'
    BY <1>0, <2>1, <2>2, <2>3 DEF MapInv, Ready
  <2> QED
    BY <2>1, <2>2, <2>4, MapOthers
<1>7. ASSUME NEW p \in MapProcs, Unmap(p) PROVE MmapInv'
  <2>1. /\ vma' = [vma EXCEPT ![p] = NoVma] /\ UNCHANGED <<alloc, dsize, content, mstate>>
    BY <1>0, <1>7 DEF Unmap
  <2>2. NoVma \in VmaType /\ NoVma.st = "none"
    BY <1>0 DEF VmaType, NoVma
  <2>3. MapInv(p)'
    BY <1>0, <2>1, <2>2 DEF MapInv
  <2> QED
    BY <2>1, <2>2, <2>3, MapOthers
<1>8. ASSUME NEW p \in MapProcs, NEW k \in 1 .. MAX_PAGES, Store(p, k) PROVE MmapInv'
  <2>1. /\ UNCHANGED <<alloc, dsize, vma, mstate>>
        /\ content' = [content EXCEPT ![vma[p].pages[k]] = p]
    BY <1>8 DEF Store, services
  <2>2. MmapTypeOK'
    BY <1>0, <2>1 DEF MmapTypeOK, VmaType
  <2>3. Ready => Ready'
    BY <1>0, <2>1 DEF Ready
  <2> QED
    BY <1>0, <2>1, <2>2, <2>3 DEF MmapInv, MapInv
<1> QED
  BY <1>1, <1>2, <1>3, <1>4, <1>5, <1>6, <1>7, <1>8 DEF MmapNext

-----------------------------------------------------------------------------
(* lab12: the interrupt driver's tests. *)

LEMMA IrqHolds == lab = "lab12" => Holders = IrqHolders
BY DEF Holders

OpNames == {"lock", "unlock", "load", "inc", "local", "add", "sum", "set", "zero",
            "accumulate"}
Tags    == {"IRQ", "IOCTL0", "IOCTL1", "IOCTL2"}

Ops == {Op(o, k, v) : o \in OpNames, k \in Index, v \in Int}
          \cup {Op("print", t, 0) : t \in Tags}

(* The accesses of a process are a sequence, so that it comes to its end.  *)
LEMMA OpsTyped ==
    /\ \A o \in OpNames, k \in Index, v \in Int : Op(o, k, v) \in Ops
    /\ \A t \in Tags : Op("print", t, 0) \in Ops
BY DEF Ops

LEMMA ConcatOps ==
    ASSUME NEW s \in Seq(Ops), NEW t \in Seq(Ops)
    PROVE  s \o t \in Seq(Ops)
BY DEF Ops

LEMMA BlocksTyped ==
    /\ \A k \in Index : INC(k) \in Seq(Ops) /\ Many(k) \in Seq(Ops)
    /\ INC_ALL \in Seq(Ops) /\ SUM \in Seq(Ops) /\ RESET \in Seq(Ops) /\ INT \in Seq(Ops)
    /\ LOCK \in Seq(Ops) /\ UNLOCK \in Seq(Ops)
    /\ \A t \in Tags : PRINT(t) \in Seq(Ops)
<1>1. /\ \A o \in OpNames, k \in Index : Op(o, k, 0) \in Ops
      /\ \A t \in Tags : Op("print", t, 0) \in Ops
  BY OpsTyped
<1>2. \A x \in Ops, y \in Ops : <<x>> \in Seq(Ops) /\ <<x, y>> \in Seq(Ops)
  BY DEF Ops
<1>3. \A o \in OpNames : ForAll(o) \in Seq(Ops)
  <2>1. ASSUME NEW o \in OpNames, NEW n \in 1 .. 5 PROVE Op(o, n - 1, 0) \in Ops
    <3>1. n - 1 \in Index
      BY DEF Index
    <3> QED
      BY <1>1, <3>1
  <2> QED
    BY <2>1 DEF ForAll
<1>4. 0 \in Index
  BY DEF Index
<1>5. \A o \in OpNames : <<Op(o, 0, 0)>> \in Seq(Ops)
  BY <1>1, <1>2, <1>4
<1>6. \A k \in Index : INC(k) \in Seq(Ops)
  BY <1>1, <1>2 DEF INC, OpNames
<1>7. SUM \in Seq(Ops)
  BY <1>3, <1>5, ConcatOps DEF SUM, OpNames
<1>8. RESET \in Seq(Ops)
  BY <1>3, <1>5, ConcatOps DEF RESET, OpNames
<1>9. LOCK \in Seq(Ops) /\ UNLOCK \in Seq(Ops)
  BY <1>5 DEF LOCK, UNLOCK, OpNames
<1>10. \A t \in Tags : PRINT(t) \in Seq(Ops)
  BY <1>1, <1>2 DEF PRINT
<1>11. INT \in Seq(Ops)
  <2>1. [n \in 1 .. 5 |-> Op("set", n - 1, -n)] \in Seq(Ops)
    <3>1. ASSUME NEW n \in 1 .. 5 PROVE Op("set", n - 1, -n) \in Ops
      <4>1. n - 1 \in Index /\ -n \in Int
        BY DEF Index
      <4> QED
        BY <4>1, OpsTyped DEF OpNames
    <3> QED
      BY <3>1
  <2>2. <<Op("zero", 0, 0)>> \o [n \in 1 .. 5 |-> Op("set", n - 1, -n)] \in Seq(Ops)
    BY <1>5, <2>1, ConcatOps DEF OpNames
  <2>3. <<Op("zero", 0, 0)>> \o [n \in 1 .. 5 |-> Op("set", n - 1, -n)]
            \o ForAll("accumulate") \in Seq(Ops)
    BY <1>3, <2>2, ConcatOps DEF OpNames
  <2> QED
    BY <1>10, <2>3, ConcatOps DEF INT, Tags
<1>12. INC_ALL \in Seq(Ops)
  <2>1. /\ INC(0) \in Seq(Ops) /\ INC(1) \in Seq(Ops) /\ INC(2) \in Seq(Ops)
        /\ INC(3) \in Seq(Ops) /\ INC(4) \in Seq(Ops)
    BY <1>6 DEF Index
  <2> QED
    BY <2>1, ConcatOps DEF INC_ALL
<1>13. ASSUME NEW k \in Index PROVE Many(k) \in Seq(Ops)
  <2>1. INC(k) \in Seq(Ops)
    BY <1>6
  <2> QED
    BY <1>7, <2>1, ConcatOps DEF Many
<1> QED
  BY <1>6, <1>7, <1>8, <1>9, <1>10, <1>11, <1>12, <1>13

LEMMA EndType == \A p \in Process : End(p) \in Nat \ {0}
<1>1. /\ Many(0) \in Seq(Ops) /\ Many(1) \in Seq(Ops) /\ Many(2) \in Seq(Ops)
      /\ Many(3) \in Seq(Ops) /\ Many(4) \in Seq(Ops)
      /\ PRINT("IOCTL0") \in Seq(Ops) /\ PRINT("IOCTL1") \in Seq(Ops)
      /\ PRINT("IOCTL2") \in Seq(Ops)
      /\ INC_ALL \in Seq(Ops) /\ SUM \in Seq(Ops) /\ RESET \in Seq(Ops) /\ INT \in Seq(Ops)
      /\ LOCK \in Seq(Ops) /\ UNLOCK \in Seq(Ops)
  BY BlocksTyped DEF Index, Tags
<1>2. Code(<<0, "parent">>) \in Seq(Ops)
  <2> DEFINE first == LOCK \o Many(0) \o Many(1) \o Many(2) \o PRINT("IOCTL0") \o RESET
  <2>1. first \in Seq(Ops)
    BY <1>1, ConcatOps
  <2> HIDE DEF first
  <2>2. first \o INC_ALL \o INC_ALL \o SUM \o PRINT("IOCTL1") \o RESET \o UNLOCK \in Seq(Ops)
    BY <1>1, <2>1, ConcatOps
  <2> QED
    BY <2>2 DEF Code, first
<1>3. Code(<<0, "child">>) \in Seq(Ops)
  <2> DEFINE first == LOCK \o INT \o RESET \o Many(0) \o Many(1) \o Many(2) \o Many(3)
  <2>1. first \in Seq(Ops)
    BY <1>1, ConcatOps
  <2> HIDE DEF first
  <2>2. first \o Many(4) \o PRINT("IOCTL2") \o RESET \o UNLOCK \in Seq(Ops)
    BY <1>1, <2>1, ConcatOps
  <2> QED
    BY <2>2 DEF Code, first
<1>4. codes["parent"] \in Seq(Ops) /\ codes["child"] \in Seq(Ops)
  BY <1>2, <1>3 DEF codes
<1> QED
  BY <1>4 DEF End, Process

LEMMA IrqStepHolds ==
    ASSUME RefsInv, IrqInv, lab = "lab12", IrqNext
    PROVE  /\ IrqInv'
           /\ \/ Kept(IrqHolders, IrqHolders') \/ Took(IrqHolders, IrqHolders')
              \/ Gave(IrqHolders, IrqHolders')
<1>0. /\ ip \in [Process -> Nat]
      /\ \A t \in Tests : Parent(t) \in Process /\ Child(t) \in Process
      /\ \A t \in Tests : ip[Parent(t)] = 0 <=> ip[Child(t)] = 0
      /\ \A p \in Process : p[1] \in Tests /\ p \in Family(p[1])
  BY DEF IrqInv, Process, Parent, Child, Family
<1>1. \A p \in Process : End(p) \in Nat \ {0}
  BY EndType
<1> HIDE DEF Process
<1>2. CASE DriverInit
  BY <1>2 DEF DriverInit, Insmod, Kept, IrqHolders, IrqInv
<1>3. CASE DriverExit
  BY <1>3 DEF DriverExit, Rmmod, Kept, IrqHolders, IrqInv, irqVars
<1>4. ASSUME NEW t \in Tests, StartTest(t)
      PROVE  IrqInv' /\ Took(IrqHolders, IrqHolders')
  <2>1. /\ ip[Parent(t)] = 0 /\ ip[Child(t)] = 0
        /\ ip' = [p \in Process |-> IF p \in Family(t) THEN 1 ELSE ip[p]]
    BY <1>0, <1>4 DEF StartTest
  <2>2. \A s \in Tests : s # t => Family(s) \cap Family(t) = {}
    BY DEF Family, Parent, Child
  <2>3. \A s \in Tests : Family(s) = {Parent(s), Child(s)}
    BY DEF Family
  <2>4. \A s \in Tests : s # t =>
           ip'[Parent(s)] = ip[Parent(s)] /\ ip'[Child(s)] = ip[Child(s)]
    BY <1>0, <2>1, <2>2, <2>3
  <2>5. ip'[Parent(t)] = 1 /\ ip'[Child(t)] = 1
    BY <1>0, <2>1, <2>3
  <2>6. ip' \in [Process -> Nat]
    BY <1>0, <2>1
  <2>7. IrqInv'
    BY <1>0, <2>4, <2>5, <2>6 DEF IrqInv
  <2>8. t \notin IrqHolders
    BY <2>1, <2>3 DEF IrqHolders
  <2>9. t \in IrqHolders'
    BY <1>0, <1>1, <2>3, <2>5 DEF IrqHolders
  <2>10. \A s \in Tests : s # t => (s \in IrqHolders' <=> s \in IrqHolders)
    BY <2>3, <2>4 DEF IrqHolders
  <2>11. IrqHolders' = IrqHolders \cup {t}
    BY <2>9, <2>10 DEF IrqHolders
  <2> QED
    BY <1>4, <2>7, <2>8, <2>11 DEF StartTest, ModuleGet, Took
<1>5. ASSUME NEW p \in Process, Access(p)
      PROVE  IrqInv' /\ Kept(IrqHolders, IrqHolders')
  <2>1. /\ ip' = [ip EXCEPT ![p] = ip[p] + 1] /\ ip[p] \in 1 .. End(p) - 1
        /\ UNCHANGED services
    BY <1>5 DEF Access
  <2>2. \A q \in Process : ip'[q] = 0 <=> ip[q] = 0
    BY <1>0, <2>1
  <2>3. \A q \in Process : ip'[q] \in 1 .. End(q) <=> ip[q] \in 1 .. End(q)
    BY <1>0, <1>1, <2>1
  <2>4. ip' \in [Process -> Nat]
    BY <1>0, <2>1
  <2>5. IrqInv'
    BY <1>0, <2>2, <2>4 DEF IrqInv
  <2>6. \A t \in Tests : Family(t) \subseteq Process
    BY <1>0 DEF Family
  <2>7. IrqHolders' = IrqHolders
    BY <2>3, <2>6 DEF IrqHolders
  <2> QED
    BY <2>1, <2>5, <2>7 DEF Kept, services
<1>6. ASSUME NEW p \in Process, Close(p)
      PROVE  IrqInv' /\ (Kept(IrqHolders, IrqHolders') \/ Gave(IrqHolders, IrqHolders'))
  <2>1. ip' = [ip EXCEPT ![p] = End(p) + 1] /\ ip[p] = End(p) /\ mstate' = mstate
    BY <1>6 DEF Close
  <2>2. \A q \in Process : ip'[q] = 0 <=> ip[q] = 0
    BY <1>0, <1>1, <2>1
  <2>3. ip' \in [Process -> Nat]
    BY <1>0, <1>1, <2>1
  <2>4. IrqInv'
    BY <1>0, <2>2, <2>3 DEF IrqInv
  <2>5. \A t \in Tests : Family(t) \subseteq Process
    BY <1>0 DEF Family
  <2>6. p[1] \in IrqHolders
    BY <1>0, <1>1, <2>1 DEF IrqHolders
  <2>7. ~ (ip'[p] \in 1 .. End(p)) /\ \A q \in Process : q # p => ip'[q] = ip[q]
    BY <1>0, <1>1, <2>1
  <2>8. \A t \in Tests : t # p[1] => p \notin Family(t)
    BY DEF Family, Parent, Child, Process
  <2>9. \A t \in Tests : t # p[1] => (t \in IrqHolders' <=> t \in IrqHolders)
    BY <2>5, <2>7, <2>8 DEF IrqHolders
  <2>10. CASE \A q \in Family(p[1]) \ {p} : ip[q] > End(q)
    <3>1. refs' = refs - 1
      BY <1>6, <2>10 DEF Close, ModulePut
    <3>2. p[1] \notin IrqHolders'
      BY <1>0, <1>1, <2>5, <2>7, <2>10 DEF IrqHolders
    <3>3. IrqHolders' = IrqHolders \ {p[1]}
      BY <2>9, <3>2 DEF IrqHolders
    <3> QED
      BY <2>1, <2>4, <2>6, <3>1, <3>3 DEF Gave
  <2>11. CASE ~ \A q \in Family(p[1]) \ {p} : ip[q] > End(q)
    <3>1. refs' = refs
      BY <1>6, <2>11 DEF Close
    <3>2. PICK q \in Family(p[1]) \ {p} : ~ (ip[q] > End(q))
      BY <2>11
    <3>3. q \in Process /\ ip[q] \in Nat /\ End(q) \in Nat \ {0} /\ ip'[q] = ip[q]
      BY <1>0, <1>1, <2>5, <2>7, <3>2
    <3>4. ip[q] # 0
      <4>1. ip[p] # 0
        BY <1>1, <2>1
      <4>2. p \in {Parent(p[1]), Child(p[1])} /\ q \in {Parent(p[1]), Child(p[1])}
        BY <1>0, <3>2 DEF Family
      <4> QED
        BY <1>0, <3>2, <4>1, <4>2
    <3>5. ip'[q] \in 1 .. End(q)
      BY <3>2, <3>3, <3>4
    <3>6. p[1] \in IrqHolders'
      BY <1>0, <3>2, <3>5 DEF IrqHolders
    <3>7. IrqHolders' = IrqHolders
      BY <2>6, <2>9, <3>6 DEF IrqHolders
    <3> QED
      BY <2>1, <2>4, <3>1, <3>7 DEF Kept
  <2> QED
    BY <2>10, <2>11
<1> QED
  BY <1>2, <1>3, <1>4, <1>5, <1>6 DEF IrqNext

-----------------------------------------------------------------------------
(* lab13: deferred work, the kernel thread and the timer. *)

LEMMA DefHolds == lab = "deferred" => Holders = DefHolders
BY DEF Holders

(* A user that is in a call, or between two, holds the module. *)
LEMMA DefLive ==
    ASSUME RefsInv, lab = "deferred", NEW u \in DefUsers, upc[u] # "closed"
    PROVE  mstate = "live"
BY HeldIsLive, DefHolds DEF DefHolders

LEMMA DefRefs ==
    ASSUME RefsInv, DefInv, lab = "deferred", DefNext
    PROVE  \/ Kept(DefHolders, DefHolders') \/ Took(DefHolders, DefHolders')
           \/ Gave(DefHolders, DefHolders')
<1>0. DOMAIN upc = DefUsers
  BY DEF DefInv
<1>1. CASE DefInsmod \/ ExitStart
  BY <1>1 DEF DefInsmod, Insmod, ExitStart, RmmodStart, defVars, Kept, DefHolders
<1>2. CASE Exit
  BY <1>2 DEF Exit, ExitTimer, ExitFlush, defVars, Kept, DefHolders
<1>3. CASE Handler \/ WorkRuns
  BY <1>3 DEF Handler, DefFires, IfSet, IfAlloc, IfMon, Scan, HandlerRearms, HandlerReturns,
              WorkRuns, services, Kept, DefHolders
<1>4. ASSUME NEW t \in Tasks, Dies(t) \/ Released(t) PROVE Kept(DefHolders, DefHolders')
  BY <1>4 DEF Dies, Released, services, Kept, DefHolders
<1>5. ASSUME NEW u \in DefUsers, Open(u) PROVE Took(DefHolders, DefHolders')
  <2>1. u \notin DefHolders /\ DefHolders' = DefHolders \cup {u}
    BY <1>0, <1>5 DEF Open, DefHolders
  <2> QED
    BY <1>5, <2>1 DEF Open, ModuleGet, Took
<1>6. ASSUME NEW u \in DefUsers, DefRelease(u) PROVE Gave(DefHolders, DefHolders')
  <2>1. u \in DefHolders /\ DefHolders' = DefHolders \ {u}
    BY <1>0, <1>6 DEF DefRelease, DefHolders
  <2> QED
    BY <1>6, <2>1 DEF DefRelease, ModulePut, Gave
<1>7. ASSUME NEW u \in DefUsers, Cancel(u) PROVE Kept(DefHolders, DefHolders')
  BY <1>7 DEF Cancel, Kept, DefHolders
<1>8. ASSUME NEW u \in DefUsers, ModTimer(u) PROVE Kept(DefHolders, DefHolders')
  BY <1>0, <1>8 DEF ModTimer, Kept, DefHolders
<1>9. ASSUME NEW u \in DefUsers, NEW type \in {"SET", "ALLOC", "MON"}, SetFlag(u, type)
      PROVE  Kept(DefHolders, DefHolders')
  BY <1>0, <1>9 DEF SetFlag, services, Kept, DefHolders
<1>10. ASSUME NEW u \in DefUsers, NEW t \in Tasks, Lookup(u, t) \/ GetProc(u, t)
       PROVE  Kept(DefHolders, DefHolders')
  <2>1. t # "closed"
    BY TasksAssumption
  <2>2. DefHolders' = DefHolders
    BY <1>0, <1>10, <2>1 DEF Lookup, GetProc, DefHolders
  <2> QED
    BY <1>10, <2>2 DEF Lookup, GetProc, services, Kept
<1> QED
  BY <1>1, <1>2, <1>3, <1>4, <1>5, <1>6, <1>7, <1>8, <1>9, <1>10 DEF DefNext, User, Ioctl

LEMMA DefStep ==
    ASSUME RefsInv, DefInv, lab = "deferred", DefNext
    PROVE  DefInv'
<1>0. /\ running <=> hpc # "idle"
      /\ xpc = "flush" => mstate \in {"going", "gone"} /\ ~armed /\ ~running
      /\ mstate = "gone" => xpc = "flush" /\ work = "idle"
  BY DEF DefInv
<1>1. CASE DefInsmod \/ ExitStart
  BY <1>0, <1>1 DEF DefInsmod, Insmod, ExitStart, RmmodStart, defVars, DefInv
<1>2. CASE Exit
  BY <1>0, <1>2 DEF Exit, ExitTimer, ExitFlush, DelTimerSync, defVars, DefInv
<1>3. CASE Handler
  <2>1. CASE DefFires
    BY <1>0, <2>1 DEF DefFires, TimerFires, DefInv
  <2>2. CASE IfSet \/ IfAlloc \/ IfMon
    BY <1>0, <2>2 DEF IfSet, IfAlloc, IfMon, services, DefInv
  <2>3. CASE Scan
    BY <1>0, <2>3 DEF Scan, services, DefInv
  <2>4. CASE HandlerRearms \/ HandlerReturns
    BY <1>0, <2>4 DEF HandlerRearms, HandlerReturns, DefInv
  <2> QED
    BY <1>3, <2>1, <2>2, <2>3, <2>4 DEF Handler
<1>4. CASE WorkRuns
  BY <1>0, <1>4 DEF WorkRuns, services, DefInv
<1>5. ASSUME NEW t \in Tasks, Dies(t) \/ Released(t) PROVE DefInv'
  BY <1>0, <1>5 DEF Dies, Released, services, DefInv
<1>6. ASSUME NEW u \in DefUsers, Open(u) \/ DefRelease(u) PROVE DefInv'
  BY <1>0, <1>6 DEF Open, DefRelease, DefInv
<1>7. ASSUME NEW u \in DefUsers, Cancel(u) \/ ModTimer(u) PROVE DefInv'
  <2>1. mstate = "live"
    BY <1>7, DefLive DEF Cancel, ModTimer
  <2>2. xpc # "flush"
    BY <1>0, <2>1
  <2> QED
    BY <1>0, <1>7, <2>1, <2>2 DEF Cancel, ModTimer, DelTimerSync, DefInv
<1>8. ASSUME NEW u \in DefUsers, NEW type \in {"SET", "ALLOC", "MON"}, SetFlag(u, type)
      PROVE  DefInv'
  BY <1>0, <1>8 DEF SetFlag, services, DefInv
<1>9. ASSUME NEW u \in DefUsers, NEW t \in Tasks, Lookup(u, t) \/ GetProc(u, t)
      PROVE  DefInv'
  BY <1>0, <1>9 DEF Lookup, GetProc, services, DefInv
<1> QED
  BY <1>1, <1>2, <1>3, <1>4, <1>5, <1>6, <1>7, <1>8, <1>9 DEF DefNext, User, Ioctl

LEMMA KthStep ==
    ASSUME KthNext, refs = 0
    PROVE  Kept({}, {}) /\ UNCHANGED <<armed, running>>
<1>1. CASE KthInsmod
  BY <1>1 DEF KthInsmod, Insmod, Kept
<1>2. CASE UnloadStart
  BY <1>2 DEF UnloadStart, RmmodStart, Kept
<1>3. CASE Thread
  BY <1>3 DEF Thread, ThreadQueue, ThreadCheck, ThreadWoken, ThreadMark, ThreadWake,
              ThreadExit, ThreadCrashes, services, Kept
<1>4. CASE Unload
  BY <1>4 DEF Unload, UnloadSet, UnloadWake, UnloadQueue, UnloadCheck, UnloadWoken,
              services, Kept
<1>5. CASE Signal
  BY <1>5 DEF Signal, services, Kept
<1> QED
  BY <1>1, <1>2, <1>3, <1>4, <1>5 DEF KthNext

LEMMA SelfStep ==
    ASSUME SelfInv, SelfNext, refs = 0
    PROVE  SelfInv' /\ Kept({}, {})
<1>1. CASE SelfInsmod
  BY <1>1 DEF SelfInsmod, Insmod, SelfInv, Kept
<1>2. CASE SelfHandler
  BY <1>2 DEF SelfHandler, SelfFires, TimerFires, SelfPrint, SelfRearms, SelfReturns,
              services, SelfInv, Kept
<1>3. CASE SelfExitStart \/ SelfExit
  BY <1>3 DEF SelfExitStart, RmmodStart, SelfExit, DelTimerSync, SelfInv, Kept
<1> QED
  BY <1>1, <1>2, <1>3 DEF SelfNext

(* lab10: the name list knows no references and no timer. *)
LEMMA ListStep ==
    ASSUME ListNext, refs = 0
    PROVE  Kept({}, {}) /\ UNCHANGED <<armed, running>>
<1>1. CASE ListInsmod \/ ListRmmod
  BY <1>1 DEF ListInsmod, Insmod, ListRmmod, Rmmod, Kept
<1>2. CASE Show \/ ShowOne \/ ShowEnds
  BY <1>2 DEF Show, ShowOne, ShowEnds, services, Kept
<1>3. ASSUME NEW w \in Writers,
             \/ \E inst \in Insts, nm \in Names : ListWrite(w, inst, nm)
             \/ Add(w) \/ Publish(w) \/ Walk(w) \/ WalkEnds(w)
      PROVE  Kept({}, {}) /\ UNCHANGED <<armed, running>>
  BY <1>3 DEF ListWrite, Add, Publish, Walk, WalkEnds, services, Kept
<1> QED
  BY <1>1, <1>2, <1>3 DEF ListNext

-----------------------------------------------------------------------------
(* proj3: the page reference counters. *)

LEMMA LruTimerStep ==
    ASSUME LruTimerInv, LruNext, refs = 0
    PROVE  LruTimerInv' /\ Kept({}, {})
<1>1. CASE LruInsmod \/ LruExit \/ LruExitTimer
  BY <1>1 DEF LruInsmod, Insmod, LruExit, RmmodStart, LruExitTimer, DelTimerSync, lruVars,
              LruTimerInv, Kept
<1>2. CASE CountLock
  BY <1>2 DEF CountLock, services, LruTimerInv, Kept
<1>3. CASE HandlerStep
  BY <1>3 DEF HandlerStep, CountList, CountUnlock, HandlerEnds, services, LruTimerInv, Kept
<1>4. ASSUME NEW c \in Cpus, CountFires(c) \/ Reclaim(c) \/ ReclaimStep(c)
      PROVE  LruTimerInv' /\ Kept({}, {})
  BY <1>4 DEF CountFires, TimerFires, Reclaim, ReclaimStep, ReclaimLock, Relocate,
              ReclaimUnlock, services, LruTimerInv, Kept
<1>5. ASSUME NEW p \in Pages, NEW l \in Lists, MovePage(p, l)
      PROVE  LruTimerInv' /\ Kept({}, {})
  BY <1>5 DEF MovePage, services, LruTimerInv, Kept
<1>6. ASSUME NEW c \in Cpus, RelocateFaults(c)
      PROVE  LruTimerInv' /\ Kept({}, {})
  BY <1>6 DEF RelocateFaults, services, LruTimerInv, Kept
<1> QED
  BY <1>1, <1>2, <1>3, <1>4, <1>5, <1>6 DEF LruNext

LEMMA LruTypeStep ==
    ASSUME LruTypeOK, LruNext
    PROVE  LruTypeOK'
<1>0. /\ NumLists \in Nat \ {0} /\ MaxCount \in Nat /\ 1 \in Lists
      /\ Lists = 1 .. NumLists
  BY LruAssumption DEF Lists
<1> USE DEF LruTypeOK
<1> HIDE DEF Lists
<1>1. CASE LruInsmod \/ LruExit \/ LruExitTimer
  BY <1>1 DEF LruInsmod, LruExit, LruExitTimer, lruVars
<1>2. CASE CountLock
  BY <1>0, <1>2 DEF CountLock, pageVars
<1>3. CASE CountList
  <2>1. \A p \in Pages, b \in BOOLEAN : Count(p, b) \in -MaxCount .. MaxCount
    <3> TAKE p \in Pages, b \in BOOLEAN
    <3>1. my_ref_c[p] \in Int /\ -MaxCount <= my_ref_c[p] /\ my_ref_c[p] <= MaxCount
      BY <1>0
    <3> QED
      BY <1>0, <3>1 DEF Count
  <2>2. my_ref_c' \in [Pages -> -MaxCount .. MaxCount]
    <3>1. PICK marked \in SUBSET Pages :
            my_ref_c' = [p \in Pages |-> IF p \in lists[hlist]
                                         THEN Count(p, p \in marked) ELSE my_ref_c[p]]
      BY <1>3 DEF CountList
    <3>2. \A p \in Pages : (p \in marked) \in BOOLEAN
      OBVIOUS
    <3>3. \A p \in Pages : Count(p, p \in marked) \in -MaxCount .. MaxCount
      BY <2>1, <3>2
    <3> HIDE DEF Count
    <3> QED
      BY <3>1, <3>3
  <2>3. counted' \in [Pages -> Nat]
    BY <1>3 DEF CountList
  <2>4. hlist' \in Lists /\ hcpc' \in {"count", "unlock"}
    BY <1>0, <1>3 DEF CountList
  <2> QED
    BY <1>3, <2>2, <2>3, <2>4 DEF CountList
<1>4. CASE CountUnlock \/ HandlerEnds
  BY <1>4 DEF CountUnlock, HandlerEnds, pageVars
<1>5. ASSUME NEW c \in Cpus, CountFires(c) PROVE LruTypeOK'
  BY <1>5 DEF CountFires
<1>6. ASSUME NEW c \in Cpus, Reclaim(c) \/ ReclaimStep(c) PROVE LruTypeOK'
  <2>1. ppc' \in [Cpus -> {"user", "lock", "relocate", "unlock", "oops"}]
    BY <1>6 DEF Reclaim, ReclaimStep, ReclaimLock, Relocate, ReclaimUnlock
  <2>2. lists' \in [Lists -> SUBSET Pages]
    BY <1>6 DEF Reclaim, ReclaimStep, ReclaimLock, Relocate, ReclaimUnlock, Relocated,
                pageVars
  <2> QED
    BY <1>6, <2>1, <2>2 DEF Reclaim, ReclaimStep, ReclaimLock, Relocate, ReclaimUnlock,
                            pageVars
<1>7. ASSUME NEW c \in Cpus, RelocateFaults(c) PROVE LruTypeOK'
  BY <1>7 DEF RelocateFaults, pageVars
<1>8. ASSUME NEW p \in Pages, NEW l \in Lists, MovePage(p, l) PROVE LruTypeOK'
  <2>1. lists' \in [Lists -> SUBSET Pages]
    BY <1>8 DEF MovePage
  <2> QED
    BY <1>8, <2>1 DEF MovePage
<1> QED
  BY <1>1, <1>2, <1>3, <1>4, <1>5, <1>6, <1>7, <1>8 DEF LruNext, HandlerStep

(* While one of them is at the lists, nobody else is. *)
LEMMA OneAtTheLists ==
    ASSUME LockedBy
    PROVE  /\ lru_lock = Unlocked =>
                /\ hcpc \notin {"count", "unlock"}
                /\ \A c \in Cpus : ppc[c] \notin {"relocate", "unlock"}
           /\ \A c \in Cpus : ppc[c] \in {"relocate", "unlock"} =>
                /\ hcpc \notin {"count", "unlock"}
                /\ \A d \in Cpus : d # c => ppc[d] \notin {"relocate", "unlock"}
           /\ hcpc \in {"count", "unlock"} =>
                \A c \in Cpus : ppc[c] \notin {"relocate", "unlock"}
<1>1. ASSUME NEW a, NEW b
      PROVE  <<a, "timer">> # <<b, "process">> /\ <<a, "timer">> # Unlocked
             /\ <<b, "process">> # Unlocked
  BY DEF Unlocked
<1>2. \A a, b : <<a, "process">> = <<b, "process">> => a = b
  OBVIOUS
<1> QED
  BY <1>1, <1>2 DEF LockedBy

LEMMA LockedByStep ==
    ASSUME LruTypeOK, LockedBy, LruTimerInv, LruNext
    PROVE  LockedBy'
<1>0. ppc \in [Cpus -> {"user", "lock", "relocate", "unlock", "oops"}]
  BY DEF LruTypeOK
<1>1. CASE LruInsmod \/ LruExit \/ LruExitTimer
  BY <1>1 DEF LruInsmod, LruExit, LruExitTimer, lruVars, LockedBy
<1>2. CASE CountLock
  BY <1>2, OneAtTheLists DEF CountLock, LockedBy
<1>3. CASE CountList
  BY <1>3, OneAtTheLists DEF CountList, CountKeepsLock, LockedBy
<1>4. CASE CountUnlock
  BY <1>4, OneAtTheLists DEF CountUnlock, LockedBy
<1>5. CASE HandlerEnds
  BY <1>5 DEF HandlerEnds, LockedBy
<1>6. ASSUME NEW c \in Cpus, CountFires(c) PROVE LockedBy'
  BY <1>6 DEF CountFires, LockedBy
<1>7. ASSUME NEW c \in Cpus, Reclaim(c) \/ ReclaimLock(c) \/ Relocate(c) \/ ReclaimUnlock(c)
      PROVE  LockedBy'
  <2>1. \A d \in Cpus : d # c => ppc'[d] = ppc[d]
    BY <1>0, <1>7 DEF Reclaim, ReclaimLock, Relocate, ReclaimUnlock
  <2>2. CASE Reclaim(c)
    BY <1>0, <2>1, <2>2 DEF Reclaim, LockedBy
  <2>3. CASE ReclaimLock(c)
    BY <1>0, <2>1, <2>3, OneAtTheLists DEF ReclaimLock, LockedBy
  <2>4. CASE Relocate(c)
    BY <1>0, <2>1, <2>4, OneAtTheLists DEF Relocate, LockedBy
  <2>5. CASE ReclaimUnlock(c)
    BY <1>0, <2>1, <2>5, OneAtTheLists DEF ReclaimUnlock, LockedBy
  <2> QED
    BY <1>7, <2>2, <2>3, <2>4, <2>5
<1>8. ASSUME NEW c \in Cpus, RelocateFaults(c) PROVE LockedBy'
  BY <1>0, <1>8 DEF RelocateFaults, LockedBy
<1>9. ASSUME NEW p \in Pages, NEW l \in Lists, MovePage(p, l) PROVE LockedBy'
  BY <1>9 DEF MovePage, LockedBy
<1> QED
  BY <1>1, <1>2, <1>3, <1>4, <1>5, <1>6, <1>7, <1>8, <1>9 DEF LruNext, HandlerStep, ReclaimStep

(* A step of the reclaim or of the rest of the kernel, which leaves the    *)
(* handler and its counts alone, and the lists while the handler is there. *)
LEMMA CountsKept ==
    ASSUME LruInv, LruTypeOK', LockedBy',
           UNCHANGED <<hcpc, hlist, counted>>,
           hcpc \in {"count", "unlock"} => UNCHANGED lists,
           \A l, m \in Lists : l # m => lists'[l] \cap lists'[m] = {}
    PROVE  LruInv'
BY DEF LruInv, Passed

LEMMA LruStep ==
    ASSUME LruInv, LruTimerInv, LruNext
    PROVE  LruInv'
<1>0. /\ LruTypeOK /\ LockedBy /\ LruTypeOK' /\ LockedBy'
      /\ NumLists \in Nat \ {0} /\ Lists = 1 .. NumLists
      /\ \A l, m \in Lists : l # m => lists[l] \cap lists[m] = {}
  BY LruAssumption, LruTypeStep, LockedByStep DEF LruInv, Lists
<1> HIDE DEF Lists
<1>1. CASE LruInsmod \/ LruExit \/ LruExitTimer
  BY <1>0, <1>1, CountsKept DEF LruInsmod, LruExit, LruExitTimer, lruVars
<1>2. CASE CountLock
  <2>1. /\ hcpc' = "count" /\ hlist' = 1 /\ counted' = counted /\ lists' = lists
        /\ \A p \in Pages : counted[p] = 0
    BY <1>2 DEF CountLock, pageVars, LruInv
  <2>2. Passed' = {}
    BY <2>1 DEF Passed
  <2> QED
    BY <1>0, <2>1, <2>2 DEF LruInv
<1>3. CASE CountList
  <2>1. /\ hcpc = "count" /\ hlist \in 1 .. NumLists /\ lists' = lists
        /\ counted' = [p \in Pages |-> counted[p] + (IF p \in lists[hlist] THEN 1 ELSE 0)]
        /\ hcpc' \in {"count", "unlock"}
        /\ \A p \in Pages : counted[p] = IF \E l \in Passed : p \in lists[l] THEN 1 ELSE 0
    BY <1>0, <1>3 DEF CountList, LruTypeOK, LruInv
  <2>2. Passed = 1 .. hlist - 1
    BY <2>1 DEF Passed
  <2>3. Passed' = 1 .. hlist
    <3>1. CASE hlist = NumLists
      BY <1>0, <1>3, <3>1 DEF CountList, Passed
    <3>2. CASE hlist # NumLists
      <4>1. hcpc' = "count" /\ hlist' = hlist + 1
        BY <1>3, <3>2, <2>1 DEF CountList
      <4>2. (hlist + 1) - 1 = hlist
        BY <2>1
      <4> QED
        BY <4>1, <4>2 DEF Passed
    <3> QED
      BY <3>1, <3>2
  <2>4. Passed' = Passed \cup {hlist} /\ hlist \notin Passed /\ Passed' \subseteq Lists
    BY <1>0, <2>1, <2>2, <2>3
  <2>5. ASSUME NEW p \in Pages
        PROVE  counted'[p] = IF \E l \in Passed' : p \in lists[l] THEN 1 ELSE 0
    <3>1. CASE p \in lists[hlist]
      <4>1. \A l \in Passed : p \notin lists[l]
        BY <1>0, <2>4, <3>1
      <4>2. counted[p] = 0
        BY <2>1, <4>1
      <4>3. counted'[p] = 1
        BY <2>1, <3>1, <4>2
      <4> QED
        BY <2>4, <3>1, <4>3
    <3>2. CASE p \notin lists[hlist]
      <4>1. counted'[p] = counted[p]
        BY <1>0, <2>1, <3>2 DEF LruTypeOK
      <4> QED
        BY <2>1, <2>4, <3>2, <4>1
    <3> QED
      BY <3>1, <3>2
  <2>6. \A p \in Pages : counted'[p] <= 1
    BY <2>5
  <2> QED
    BY <1>0, <2>1, <2>5, <2>6 DEF LruInv
<1>4. CASE CountUnlock \/ HandlerEnds
  BY <1>0, <1>4 DEF CountUnlock, HandlerEnds, pageVars, LruInv
<1>5. ASSUME NEW c \in Cpus, CountFires(c) PROVE LruInv'
  <2>1. \A p \in Pages : counted'[p] = 0 /\ counted'[p] <= 1
    BY <1>5 DEF CountFires
  <2> QED
    BY <1>0, <1>5, <2>1 DEF CountFires, LruInv
<1>6. ASSUME NEW c \in Cpus, Reclaim(c) \/ ReclaimLock(c) \/ ReclaimUnlock(c)
      PROVE  LruInv'
  BY <1>0, <1>6, CountsKept DEF Reclaim, ReclaimLock, ReclaimUnlock, pageVars
<1>7. ASSUME NEW c \in Cpus, Relocate(c) PROVE LruInv'
  <2>1. hcpc \notin {"count", "unlock"}
    BY <1>0, <1>7, OneAtTheLists DEF Relocate
  <2>2. \A l \in Lists : lists'[l] = {}
    BY <1>7 DEF Relocate, Relocated
  <2>3. \A l, m \in Lists : l # m => lists'[l] \cap lists'[m] = {}
    BY <2>2
  <2> QED
    BY <1>0, <1>7, <2>1, <2>3, CountsKept DEF Relocate
<1>8. ASSUME NEW c \in Cpus, RelocateFaults(c) PROVE LruInv'
  BY <1>0, <1>8, CountsKept DEF RelocateFaults, pageVars
<1>9. ASSUME NEW p \in Pages, NEW to \in Lists, MovePage(p, to) PROVE LruInv'
  <2>1. hcpc \notin {"count", "unlock"}
    BY <1>0, <1>9, OneAtTheLists DEF MovePage
  <2>2. \A l, m \in Lists : l # m => lists'[l] \cap lists'[m] = {}
    BY <1>0, <1>9 DEF MovePage
  <2> QED
    BY <1>0, <1>9, <2>1, <2>2, CountsKept DEF MovePage
<1> QED
  BY <1>1, <1>2, <1>3, <1>4, <1>5, <1>6, <1>7, <1>8, <1>9 DEF LruNext, HandlerStep, ReclaimStep

-----------------------------------------------------------------------------
(* The machine: one lab moves and the others stay as they began. *)

LEMMA KernelInvInit == Init => KernelInv
<1> SUFFICES ASSUME Init PROVE KernelInv
  OBVIOUS
<1> USE DEF Init, ServicesInit
<1>1. IrqInv
  BY DEF IrqInit, IrqInv, Process, Parent, Child
<1>2. CdevInv /\ CdevHolders = {} /\ access = 0
  <2>1. BUFSIZ \in Nat
    BY CharDevAssumption
  <2>2. \A p \in Procs : ~file[p].open /\ asked[p] = "no"
    BY DEF CdevInit, Closed
  <2>3. CdevTypeOK
    BY <2>1 DEF CdevInit, CdevTypeOK, Closed
  <2> QED
    BY <2>1, <2>2, <2>3 DEF CdevInit, CdevInv, CdevHolders, ReadersStayInData, Closed
<1>3. MmapInv /\ MmapHolders = {}
  <2>1. NoVma \in VmaType /\ NoVma.st = "none"
    BY MmapAssumption DEF NoVma, VmaType
  <2>2. vma = [p \in MapProcs |-> NoVma] /\ dsize = 0
        /\ content = [k \in 1 .. MAX_PAGES |-> "dirty"]
    BY DEF MmapInit
  <2>3. MmapTypeOK
    BY <2>1, <2>2 DEF MmapTypeOK, VmaType
  <2> QED
    BY <2>1, <2>2, <2>3 DEF MmapInv, MapInv, MmapHolders
<1>4. LruInv /\ LruTimerInv
  <2>1. 1 \in Lists /\ 0 \in -MaxCount .. MaxCount
    BY LruAssumption DEF Lists
  <2>2. LruTypeOK
    BY <2>1 DEF LruInit, LruTypeOK
  <2> QED
    BY <2>2 DEF LruInit, LruInv, LruTimerInv, LockedBy
<1>5. DefInv /\ DefHolders = {} /\ work = "idle"
  BY DEF DefInit, DefInv, DefHolders
<1>6. SelfInv
  BY DEF SelfInit, SelfInv
<1>7. IrqHolders = {}
  BY DEF IrqInit, IrqHolders, Family, Process, Parent, Child
<1>8. RefsInv
  <2>1. Holders = {}
    BY <1>2, <1>3, <1>5, <1>7 DEF Holders
  <2> QED
    BY <2>1, FS_EmptySet DEF RefsInv
<1> QED
  BY <1>1, <1>2, <1>3, <1>4, <1>5, <1>6, <1>8 DEF KernelInv, ElsewhereInv

(* The holders after a step are those of the same lab. *)
LEMMA HoldersStep ==
    ASSUME KernelInv, [Next]_vars, ~ UNCHANGED vars
    PROVE  Kept(Holders, Holders') \/ Took(Holders, Holders') \/ Gave(Holders, Holders')
<1>0. Next /\ RefsInv /\ lab' = lab
  BY DEF Next, Alone, KernelInv
<1>1. CASE lab = "lab12"
  BY <1>0, <1>1, IrqStepHolds DEF Next, KernelInv, Holders
<1>2. CASE lab = "lab11"
  BY <1>0, <1>2, CdevRefs DEF Next, KernelInv, Holders
<1>3. CASE lab = "lab14"
  BY <1>0, <1>3, MmapRefs DEF Next, KernelInv, Holders
<1>4. CASE lab = "deferred"
  BY <1>0, <1>4, DefRefs DEF Next, KernelInv, Holders
<1>5. CASE lab \in {"lab10", "kthread", "timer", "proj3"}
  <2>1. Holders = {} /\ Holders' = {}
    BY <1>0, <1>5 DEF Holders
  <2>2. refs = 0
    BY <1>0, <2>1, FS_EmptySet DEF RefsInv
  <2> QED
    BY <1>0, <1>5, <2>1, <2>2, ListStep, KthStep, SelfStep, LruTimerStep DEF Next, KernelInv
<1> QED
  BY <1>0, <1>1, <1>2, <1>3, <1>4, <1>5 DEF Next

LEMMA RefsStep ==
    ASSUME KernelInv, [Next]_vars
    PROVE  RefsInv'
<1>1. CASE UNCHANGED vars
  BY <1>1 DEF vars, services, irqVars, cdevVars, mmapVars, defVars, KernelInv, RefsInv, Holders,
              IrqHolders, CdevHolders, MmapHolders, DefHolders
<1>2. CASE ~ UNCHANGED vars
  BY <1>2, HoldersStep, RefsCount DEF KernelInv, RefsInv
<1> QED
  BY <1>1, <1>2

(* A lab's variables, and so its invariant, are untouched by the others.   *)
LEMMA IrqStays  == ASSUME IrqInv, UNCHANGED irqVars PROVE IrqInv'
BY DEF irqVars, IrqInv

LEMMA CdevStays == ASSUME CdevInv, UNCHANGED cdevVars PROVE CdevInv'
BY DEF cdevVars, CdevInv, CdevTypeOK, ReadersStayInData

LEMMA MmapStays ==
    ASSUME MmapInv, UNCHANGED mmapVars, alloc = "NONE" \/ mstate' = mstate
    PROVE  MmapInv'
BY DEF mmapVars, MmapInv, MmapTypeOK, MapInv, Ready

LEMMA LruStays  == ASSUME LruInv, UNCHANGED lruVars PROVE LruInv'
BY DEF lruVars, LruInv, LruTypeOK, LockedBy, Passed

LEMMA LoaderStep ==
    ASSUME KernelInv, Next
    PROVE  mstate' \in {"none", "live", "going", "gone"}
<1> USE DEF services
<1>0. mstate \in {"none", "live", "going", "gone"}
  BY DEF KernelInv
<1>1. CASE IrqNext
  BY <1>0, <1>1 DEF IrqNext, DriverInit, Insmod, DriverExit, Rmmod, StartTest, Access, Close
<1>2. CASE ListNext
  BY <1>0, <1>2 DEF ListNext, ListInsmod, Insmod, ListRmmod, Rmmod, Show, ShowOne, ShowEnds,
                    ListWrite, Add, Publish, Walk, WalkEnds
<1>3. CASE CdevNext
  BY <1>0, <1>3 DEF CdevNext, CdevInsmod, Insmod, CdevRmmod, Rmmod, OpenFile, MyOpen,
                    FailedOpen, MyRelease, MyRead, MyWrite, SetBuffer
<1>4. CASE MmapNext
  BY <1>0, <1>4 DEF MmapNext, MmapInsmod, Insmod, MmapRmmod, Rmmod, OpenAndMmap, Remap,
                    RemapFails, MmapReturns, Unmap, Store
<1>5. CASE DefNext
  <2>1. CASE DefInsmod \/ ExitStart \/ Exit
    BY <1>0, <2>1 DEF DefInsmod, Insmod, ExitStart, RmmodStart, Exit, ExitTimer, ExitFlush
  <2>2. CASE Handler \/ WorkRuns
    BY <1>0, <2>2 DEF Handler, DefFires, IfSet, IfAlloc, IfMon, Scan, HandlerRearms, HandlerReturns,
                      WorkRuns
  <2>3. CASE \E u \in DefUsers : User(u)
    BY <1>0, <2>3 DEF User, Open, DefRelease, Cancel, Ioctl, ModTimer, SetFlag, Lookup, GetProc
  <2>4. CASE \E t \in Tasks : Dies(t) \/ Released(t)
    BY <1>0, <2>4 DEF Dies, Released
  <2> QED
    BY <1>5, <2>1, <2>2, <2>3, <2>4 DEF DefNext
<1>6. CASE KthNext
  BY <1>0, <1>6 DEF KthNext, KthInsmod, Insmod, UnloadStart, RmmodStart, Thread, ThreadQueue,
                    ThreadCheck, ThreadWoken, ThreadMark, ThreadWake, ThreadExit, ThreadCrashes, Unload,
                    UnloadSet, UnloadWake, UnloadQueue, UnloadCheck, UnloadWoken, Signal
<1>7. CASE SelfNext
  BY <1>0, <1>7 DEF SelfNext, SelfInsmod, Insmod, SelfHandler, SelfFires, SelfPrint, SelfRearms,
                    SelfReturns, SelfExitStart, RmmodStart, SelfExit
<1>8. CASE LruNext
  BY <1>0, <1>8 DEF LruNext, LruInsmod, Insmod, LruExit, RmmodStart, LruExitTimer, CountLock,
                    HandlerStep, CountList, CountUnlock, HandlerEnds, CountFires, Reclaim,
                    ReclaimStep, ReclaimLock, Relocate, ReclaimUnlock, RelocateFaults,
                    MovePage
<1> QED
  BY <1>1, <1>2, <1>3, <1>4, <1>5, <1>6, <1>7, <1>8 DEF Next

(* Three labs have no timer. *)
LEMMA NoTimerStep ==
    ASSUME KernelInv, Next, lab \notin {"deferred", "timer", "proj3"}
    PROVE  UNCHANGED <<armed, running>>
<1> USE DEF services
<1>1. CASE lab = "lab12"
  BY <1>1 DEF Next, IrqNext, DriverInit, DriverExit, StartTest, Access, Close
<1>2. CASE lab = "lab10"
  BY <1>2 DEF Next, ListNext, ListInsmod, ListRmmod, Show, ShowOne, ShowEnds, ListWrite, Add,
              Publish, Walk, WalkEnds
<1>3. CASE lab = "lab11"
  BY <1>3 DEF Next, CdevNext, CdevInsmod, CdevRmmod, OpenFile, MyOpen, FailedOpen, MyRelease,
              MyRead, MyWrite, SetBuffer
<1>4. CASE lab = "lab14"
  BY <1>4 DEF Next, MmapNext, MmapInsmod, MmapRmmod, OpenAndMmap, Remap, RemapFails,
              MmapReturns, Unmap, Store
<1>5. CASE lab = "kthread"
  <2>1. Holders = {} /\ RefsInv /\ KthNext
    BY <1>5 DEF Next, Holders, KernelInv
  <2>2. refs = 0
    BY <2>1, FS_EmptySet DEF RefsInv
  <2> QED
    BY <2>1, <2>2, KthStep
<1> QED
  BY <1>1, <1>2, <1>3, <1>4, <1>5 DEF Next

LEMMA ElsewhereStep ==
    ASSUME KernelInv, Next
    PROVE  ElsewhereInv'
<1>0. Alone /\ ElsewhereInv
  BY DEF Next, KernelInv
<1>1. lab # "lab11" => access' = 0
  BY <1>0 DEF Alone, cdevVars, ElsewhereInv
<1>2. lab # "lab14" => MmapHolders' = {} /\ alloc' = "NONE"
  BY <1>0 DEF Alone, mmapVars, ElsewhereInv, MmapHolders
<1>3. lab # "deferred" => work' = "idle"
  BY <1>0 DEF Alone, defVars, ElsewhereInv
<1>4. lab \notin {"deferred", "timer", "proj3"} => ~armed' /\ ~running'
  BY <1>0, NoTimerStep DEF ElsewhereInv
<1> QED
  BY <1>0, <1>1, <1>2, <1>3, <1>4 DEF Alone, ElsewhereInv

LEMMA KernelInvStep == KernelInv /\ [Next]_vars => KernelInv'
<1> SUFFICES ASSUME KernelInv, [Next]_vars PROVE KernelInv'
  OBVIOUS
<1>0. RefsInv'
  BY RefsStep
<1>1. CASE UNCHANGED vars
  <2>1. /\ IrqInv' /\ CdevInv' /\ MmapInv' /\ LruInv'
        /\ lab' = lab /\ mstate' = mstate
    BY <1>1, IrqStays, CdevStays, MmapStays, LruStays DEF vars, services, KernelInv
  <2>2. ElsewhereInv'
    BY <1>1 DEF vars, services, cdevVars, mmapVars, defVars, KernelInv, ElsewhereInv, MmapHolders
  <2>3. lab = "deferred" => DefInv'
    BY <1>1 DEF vars, services, defVars, KernelInv, DefInv
  <2>4. (lab = "timer" => SelfInv') /\ (lab = "proj3" => LruTimerInv')
    BY <1>1 DEF vars, services, lruVars, KernelInv, SelfInv, LruTimerInv
  <2> QED
    BY <1>0, <2>1, <2>2, <2>3, <2>4 DEF KernelInv
<1>2. CASE Next
  <2>0. /\ RefsInv /\ Alone /\ lab' = lab /\ lab \in Labs
        /\ IrqInv /\ CdevInv /\ MmapInv /\ LruInv
    BY <1>2 DEF Next, Alone, KernelInv
  <2>1. IrqInv'
    <3>1. CASE lab = "lab12"
      BY <1>2, <2>0, <3>1, IrqStepHolds DEF Next
    <3>2. CASE lab # "lab12"
      BY <2>0, <3>2, IrqStays DEF Alone
    <3> QED
      BY <3>1, <3>2
  <2>2. CdevInv'
    <3>1. CASE lab = "lab11"
      BY <1>2, <2>0, <3>1, CdevStep DEF Next
    <3>2. CASE lab # "lab11"
      BY <2>0, <3>2, CdevStays DEF Alone
    <3> QED
      BY <3>1, <3>2
  <2>3. MmapInv'
    <3>1. CASE lab = "lab14"
      BY <1>2, <2>0, <3>1, MmapStep DEF Next
    <3>2. CASE lab # "lab14"
      BY <2>0, <3>2, MmapStays DEF Alone, KernelInv, ElsewhereInv
    <3> QED
      BY <3>1, <3>2
  <2>4. lab = "deferred" => DefInv'
    BY <1>2, <2>0, DefStep DEF Next, KernelInv
  <2>5. ASSUME lab \in {"timer", "proj3"} PROVE refs = 0
    <3>1. Holders = {}
      BY <2>5 DEF Holders
    <3> QED
      BY <2>0, <3>1, FS_EmptySet DEF RefsInv
  <2>7. lab = "timer" => SelfInv'
    BY <1>2, <2>5, SelfStep DEF Next, KernelInv
  <2>8. lab = "proj3" => LruTimerInv'
    BY <1>2, <2>5, LruTimerStep DEF Next, KernelInv
  <2>9. LruInv'
    <3>1. CASE lab = "proj3"
      BY <1>2, <2>0, <3>1, LruStep DEF Next, KernelInv
    <3>2. CASE lab # "proj3"
      BY <2>0, <3>2, LruStays DEF Alone
    <3> QED
      BY <3>1, <3>2
  <2> QED
    BY <1>0, <1>2, <2>0, <2>1, <2>2, <2>3, <2>4, <2>7, <2>8, <2>9,
       LoaderStep, ElsewhereStep DEF KernelInv
<1> QED
  BY <1>1, <1>2

LEMMA KernelInvHolds == Spec => []KernelInv
BY KernelInvInit, KernelInvStep, PTL DEF Spec

-----------------------------------------------------------------------------

(* The character device has one open file at most, however many processes  *)
(* open, read, write and close it: access says whether there is one, and   *)
(* an open file keeps the module loaded.                                   *)
THEOREM OneOpenFile == Spec => []OneFileAtATime
<1>1. ASSUME KernelInv PROVE OneFileAtATime
  <2>0. CdevInv /\ RefsInv /\ refs \in Nat
    BY <1>1, FS_CardinalityType DEF KernelInv, RefsInv
  <2>1. CASE access = 0 /\ \A p \in Procs : ~file[p].open
    <3>1. {p \in Procs : file[p].open} = {}
      BY <2>1
    <3> QED
      BY <2>0, <2>1, <3>1, FS_EmptySet DEF OneFileAtATime, RefsInv
  <2>2. ASSUME access = 1, NEW q \in Procs, \A p \in Procs : file[p].open <=> p = q
        PROVE  OneFileAtATime
    <3>1. {p \in Procs : file[p].open} = {q}
      BY <2>2
    <3>2. Cardinality({q}) = 1
      BY FS_Singleton
    <3>3. q \in Holders
      BY <1>1, <2>2 DEF KernelInv, ElsewhereInv, Holders, CdevHolders
    <3>4. refs >= 1 /\ mstate = "live"
      BY <2>0, <3>3, HeldIsLive
    <3> QED
      BY <2>2, <3>1, <3>2, <3>4 DEF OneFileAtATime
  <2> QED
    BY <2>0, <2>1, <2>2 DEF CdevInv
<1> QED
  BY <1>1, KernelInvHolds, PTL

(* A file of the character device that has only been read is never ahead   *)
(* of the data and never reads beyond them, whatever the files open before *)
(* it wrote or set; for one that itself writes or sets the size my_read's  *)
(* unsigned difference may wrap, and nothing is claimed.                   *)
THEOREM ReadersBehindData == Spec => []ReadersStayInData
<1>1. KernelInv => ReadersStayInData
  BY DEF KernelInv, CdevInv
<1> QED
  BY <1>1, KernelInvHolds, PTL

(* A mapping of the mmap driver that has returned shows the area's pages   *)
(* in order and nothing else, in each build, for any number of pages and   *)
(* of processes that map and unmap at the same time.                       *)
THEOREM AreaMapped == Spec => []MapsTheArea
<1>1. ASSUME KernelInv PROVE MapsTheArea
  <2>0. MmapInv /\ RefsInv
    BY <1>1 DEF KernelInv
  <2>1. ASSUME NEW p \in MapProcs, vma[p].st = "mapped"
        PROVE  /\ vma[p].pages = [k \in 1 .. vma[p].len |-> k]
               /\ \A k \in 1 .. vma[p].len : content[vma[p].pages[k]] # "dirty"
               /\ mstate = "live"
    <3>1. vma[p] \in VmaType
      BY <2>0 DEF MmapInv, MmapTypeOK, VmaType
    <3>2. vma[p].len \in 0 .. MAX_PAGES /\ vma[p].left = 0 /\ Ready
          /\ vma[p].pages = [k \in 1 .. vma[p].len - vma[p].left |-> k]
      BY <2>0, <2>1, <3>1, MmapAssumption DEF MmapInv, MapInv, VmaType
    <3>3. vma[p].pages = [k \in 1 .. vma[p].len |-> k]
      BY <3>2
    <3>4. \A k \in 1 .. vma[p].len : content[vma[p].pages[k]] # "dirty"
      BY <3>2, <3>3, MmapAssumption DEF Ready
    <3>5. p \in Holders
      BY <1>1, <2>1 DEF KernelInv, ElsewhereInv, Holders, MmapHolders
    <3> QED
      BY <2>0, <3>3, <3>4, <3>5, HeldIsLive
  <2> QED
    BY <2>0, <2>1 DEF MapsTheArea, MmapInv, MapInv
<1> QED
  BY <1>1, KernelInvHolds, PTL

(* When a module of these labs has been unloaded, no timer, handler or     *)
(* work item of it is left, although the handler re-arms its own timer and *)
(* queues work.  Of kthread.c's thread it says nothing: that may run on.   *)
THEOREM UnloadIsClean == Spec => []NothingAfterUnload
<1>1. ASSUME KernelInv PROVE NothingAfterUnload
  <2>1. CASE lab = "deferred"
    BY <1>1, <2>1 DEF KernelInv, DefInv, NothingAfterUnload
  <2>2. CASE lab \in {"timer", "proj3"}
    BY <1>1, <2>2 DEF KernelInv, ElsewhereInv, SelfInv, LruTimerInv, NothingAfterUnload
  <2>3. CASE lab \notin {"deferred", "timer", "proj3"}
    BY <1>1, <2>3 DEF KernelInv, ElsewhereInv, NothingAfterUnload
  <2> QED
    BY <2>1, <2>2, <2>3
<1> QED
  BY <1>1, KernelInvHolds, PTL

(* A pass of proj3's timer counts every page on an LRU list once and none  *)
(* twice, for any number of lists, pages and processors, while pages move  *)
(* and the reclaim relocates them.                                         *)
THEOREM CountedOnce == Spec => []OncePerPass
<1>1. KernelInv => OncePerPass
  <2> SUFFICES ASSUME LruInv PROVE OncePerPass
    BY DEF KernelInv
  <2>1. hcpc = "unlock" => Passed = Lists
    BY DEF Passed
  <2> QED
    BY <2>1 DEF LruInv, LruTypeOK, OncePerPass, Listed
<1> QED
  BY <1>1, KernelInvHolds, PTL

-----------------------------------------------------------------------------
(* lab12: what a program of accesses computes when it runs alone. *)

States == [num : [Index -> Int], dsum : Int, reg : Int]

(* The fields of an access. *)
LEMMA OpFields ==
    ASSUME NEW o \in Ops
    PROVE  \/ o.op \in OpNames /\ o.k \in Index /\ o.v \in Int
           \/ o.op = "print" /\ o.k \in Tags
BY DEF Ops, Op

(* An access leads from a state to a state. *)
LEMMA ExecType ==
    ASSUME NEW o \in Ops, NEW s \in States
    PROVE  Exec(o, s) \in States
<1>0. /\ s.num \in [Index -> Int] /\ s.dsum \in Int /\ s.reg \in Int
      /\ \A f \in [Index -> Int], d \in Int, r \in Int : [num |-> f, dsum |-> d, reg |-> r] \in States
  BY DEF States
<1>1. CASE o.op = "print"
  BY <1>0, <1>1 DEF Exec
<1>2. CASE o.op \in OpNames /\ o.k \in Index /\ o.v \in Int
  <2>1. /\ [s.num EXCEPT ![o.k] = s.reg + 1] \in [Index -> Int]
        /\ [s.num EXCEPT ![o.k] = o.v] \in [Index -> Int]
        /\ s.num[o.k] \in Int
    BY <1>0, <1>2
  <2>2. Exec(o, s).num \in [Index -> Int]
    BY <1>0, <2>1 DEF Exec
  <2>3. Exec(o, s).dsum \in Int /\ Exec(o, s).reg \in Int
    BY <1>0, <2>1 DEF Exec
  <2>4. Exec(o, s) = [num |-> Exec(o, s).num, dsum |-> Exec(o, s).dsum, reg |-> Exec(o, s).reg]
    BY DEF Exec
  <2> QED
    BY <1>0, <2>2, <2>3, <2>4
<1> QED
  BY <1>1, <1>2, OpFields

(* So does a program that begins with nothing. *)
LEMMA NothingType == Nothing \in States
BY DEF Nothing, Zeros, States

(* The definition of Run, as equations. *)
LEMMA RunDefined ==
    ASSUME NEW c \in Seq(Ops)
    PROVE  /\ Run(c) \in [0 .. Len(c) -> States]
           /\ Run(c)[0] = Nothing
           /\ \A n \in 1 .. Len(c) : Run(c)[n] = Exec(c[n], Run(c)[n - 1])
<1> DEFINE F == [x \in (1 .. Len(c)) \X States |-> Exec(c[x[1]], x[2])]
           step(h, n) == IF n = 0 THEN Nothing ELSE Exec(c[n], h[n - 1])
<1>1. F \in [(1 .. Len(c)) \X States -> States]
  BY ExecType
<1>2. Len(c) \in Nat
  OBVIOUS
<1>3. PICK h : Follows(h, Len(c), States, Nothing, F)
  <2> HIDE DEF F
  <2> QED
    BY <1>1, <1>2, Recursion, NothingType
<1>4. /\ h \in [0 .. Len(c) -> States] /\ h[0] = Nothing
      /\ \A n \in 1 .. Len(c) : h[n] = F[<<n, h[n - 1]>>]
  <2> HIDE DEF F
  <2> QED
    BY <1>3 DEF Follows
<1>5. ASSUME NEW n \in 1 .. Len(c) PROVE h[n] = Exec(c[n], h[n - 1])
  <2>1. n - 1 \in 0 .. Len(c)
    OBVIOUS
  <2>2. h[n - 1] \in States
    BY <1>4, <2>1
  <2>3. <<n, h[n - 1]>> \in (1 .. Len(c)) \X States
    BY <2>2
  <2> QED
    BY <1>4, <2>3
<1> HIDE DEF F
<1>6. \A n \in 0 .. Len(c) : h[n] = step(h, n)
  BY <1>4, <1>5
<1>7. h = [n \in 0 .. Len(c) |-> h[n]]
  BY <1>4
<1> DEFINE fits(g) == g = [n \in 0 .. Len(c) |-> step(g, n)]
<1> HIDE DEF step
<1>8. fits(h)
  BY <1>6, <1>7
<1>9. Run(c) = CHOOSE g : fits(g)
  BY DEF Run, step
<1> DEFINE g == Run(c)
<1>10. fits(g)
  <2> HIDE DEF fits
  <2> QED
    BY <1>8, <1>9
<1> HIDE DEF g
<1>11. \A n \in 0 .. Len(c) : g[n] = step(g, n)
  BY <1>10
<1>12. g = [n \in 0 .. Len(c) |-> g[n]]
  BY <1>10
<1>13. g[0] = Nothing /\ \A n \in 1 .. Len(c) : g[n] = Exec(c[n], g[n - 1])
  BY <1>2, <1>11 DEF step
<1> DEFINE Good == {n \in 0 .. Len(c) : g[n] \in States}
<1>14. 0 \in Good
  BY <1>2, <1>13, NothingType
<1>15. ASSUME NEW n \in 1 .. Len(c), n - 1 \in Good PROVE n \in Good
  BY <1>13, <1>15, ExecType
<1> HIDE DEF Good
<1>16. 0 .. Len(c) \subseteq Good
  BY <1>2, <1>14, <1>15, UpTo
<1>17. g \in [0 .. Len(c) -> States]
  BY <1>12, <1>16 DEF Good
<1> QED
  BY <1>13, <1>17 DEF g

(* Where the accesses of two segments are in the two together. *)
LEMMA ConcatAt ==
    ASSUME NEW c \in Seq(Ops), NEW t \in Seq(Ops)
    PROVE  /\ c \o t \in Seq(Ops) /\ Len(c \o t) = Len(c) + Len(t)
           /\ Len(c) \in Nat /\ Len(t) \in Nat
           /\ \A n \in 1 .. Len(c) : (c \o t)[n] = c[n]
           /\ \A n \in 1 .. Len(t) : (c \o t)[Len(c) + n] = t[n]
BY ConcatProperties

(* A program runs as it did when more follows. *)
LEMMA RunPrefix ==
    ASSUME NEW c \in Seq(Ops), NEW t \in Seq(Ops)
    PROVE  \A n \in 0 .. Len(c) : Run(c \o t)[n] = Run(c)[n]
<1> DEFINE u == c \o t
           Good == {n \in 0 .. Len(c) : Run(u)[n] = Run(c)[n]}
<1>0. /\ u \in Seq(Ops) /\ Len(u) = Len(c) + Len(t)
      /\ Len(c) \in Nat /\ Len(t) \in Nat
      /\ \A n \in 1 .. Len(c) : u[n] = c[n]
  BY ConcatAt
<1> HIDE DEF u
<1>1. 0 \in Good
  BY <1>0, RunDefined
<1>2. ASSUME NEW n \in 1 .. Len(c), n - 1 \in Good PROVE n \in Good
  <2>1. n \in 1 .. Len(u)
    BY <1>0
  <2>2. Run(u)[n] = Exec(u[n], Run(u)[n - 1])
    BY <1>0, <2>1, RunDefined
  <2>3. Run(c)[n] = Exec(c[n], Run(c)[n - 1])
    BY RunDefined
  <2> QED
    BY <1>0, <1>2, <2>2, <2>3
<1> HIDE DEF Good
<1>3. 0 .. Len(c) \subseteq Good
  BY <1>0, <1>1, <1>2, UpTo
<1> QED
  BY <1>3 DEF Good, u

(* An access inside the mutex, which prints what is expected if anything.  *)
Right(o, s) == o.op \notin {"lock", "unlock"} /\ (o.op = "print" => s.dsum = Expected(o.k))

(* A program that has taken the mutex ends in state s, and what it did     *)
(* since is right.                                                         *)
Ends(c, s) ==
    /\ c \in Seq(Ops) /\ Len(c) >= 1 /\ c[1].op = "lock" /\ Run(c)[Len(c)] = s
    /\ \A n \in 2 .. Len(c) : Right(c[n], Run(c)[n - 1])

(* What a segment t adds to a program that is in state s: r is what it     *)
(* computes.                                                               *)
Adds(c, s, t, r) ==
    /\ r[0] = s
    /\ \A n \in 1 .. Len(t) : r[n] = Exec(t[n], r[n - 1])
    /\ (\A n \in 1 .. Len(t) : Right(t[n], r[n - 1])) => Ends(c \o t, r[Len(t)])

(* A segment after a program runs from the state the program ended in. *)
LEMMA Segment ==
    ASSUME NEW c, NEW s, Ends(c, s), NEW t \in Seq(Ops)
    PROVE  \E r : Adds(c, s, t, r)
<1> DEFINE u == c \o t
           R == Run(u)
           r == [n \in 0 .. Len(t) |-> R[Len(c) + n]]
<1>0. c \in Seq(Ops)
  BY DEF Ends
<1>1. /\ u \in Seq(Ops) /\ Len(u) = Len(c) + Len(t)
      /\ Len(c) \in Nat /\ Len(t) \in Nat
      /\ \A n \in 1 .. Len(c) : u[n] = c[n]
      /\ \A n \in 1 .. Len(t) : u[Len(c) + n] = t[n]
  BY <1>0, ConcatAt
<1>2. \A n \in 0 .. Len(c) : R[n] = Run(c)[n]
  BY <1>0, RunPrefix
<1>3. \A n \in 1 .. Len(u) : R[n] = Exec(u[n], R[n - 1])
  <2> HIDE DEF u
  <2> QED
    BY <1>1, RunDefined
<1> HIDE DEF u, R
<1>4. r[0] = s
  <2>1. r[0] = R[Len(c)] /\ Len(c) \in 0 .. Len(c)
    BY <1>1
  <2>2. Run(c)[Len(c)] = s
    BY DEF Ends
  <2> HIDE DEF r
  <2> QED
    BY <1>2, <2>1, <2>2
<1>5. ASSUME NEW n \in 1 .. Len(t) PROVE r[n] = Exec(t[n], r[n - 1])
  <2>1. Len(c) + n \in 1 .. Len(u) /\ Len(c) + n - 1 = Len(c) + (n - 1) /\ n - 1 \in 0 .. Len(t)
    BY <1>1
  <2>2. R[Len(c) + n] = Exec(u[Len(c) + n], R[Len(c) + (n - 1)])
    BY <1>3, <2>1
  <2>3. r[n] = R[Len(c) + n] /\ r[n - 1] = R[Len(c) + (n - 1)]
    BY <1>1, <2>1
  <2> HIDE DEF r
  <2> QED
    BY <1>1, <2>2, <2>3
<1>6. ASSUME \A n \in 1 .. Len(t) : Right(t[n], r[n - 1])
      PROVE  Ends(u, r[Len(t)])
  <2>1. r[Len(t)] = R[Len(u)]
    BY <1>1
  <2>2. ASSUME NEW n \in 2 .. Len(u) PROVE Right(u[n], R[n - 1])
    <3>1. CASE n \in 2 .. Len(c)
      <4>1. n - 1 \in 0 .. Len(c) /\ n \in 1 .. Len(c)
        BY <1>1, <3>1
      <4> QED
        BY <1>1, <1>2, <3>1, <4>1 DEF Ends
    <3>2. CASE n \notin 2 .. Len(c)
      <4> DEFINE m == n - Len(c)
      <4>1. m \in 1 .. Len(t) /\ n = Len(c) + m /\ m - 1 \in 0 .. Len(t) /\ n - 1 = Len(c) + (m - 1)
        BY <1>1, <3>2
      <4> HIDE DEF m
      <4>2. u[n] = t[m] /\ r[m - 1] = R[n - 1]
        BY <1>1, <4>1
      <4> QED
        BY <1>6, <4>1, <4>2
    <3> QED
      BY <3>1, <3>2
  <2>3. Len(u) >= 1 /\ u[1].op = "lock"
    BY <1>1 DEF Ends
  <2> QED
    BY <1>1, <2>1, <2>2, <2>3 DEF Ends, R
<1> HIDE DEF r
<1> QED
  BY <1>4, <1>5, <1>6 DEF u, Adds

(* What each access does, to the numbers, the sum and the register. *)
Now(f, d, x) == [num |-> f, dsum |-> d, reg |-> x]

(* Each access, with its fields. *)
LEMMA ExecEach ==
    /\ \A f, d, x, k, v : Exec(Op("load", k, v), Now(f, d, x)) = Now(f, d, f[k])
    /\ \A f, d, x, k, v : Exec(Op("inc", k, v), Now(f, d, x)) = Now([f EXCEPT ![k] = x + 1], d, 0)
    /\ \A f, d, x, k, v : Exec(Op("local", k, v), Now(f, d, x)) = Now(f, d, 0)
    /\ \A f, d, x, k, v : Exec(Op("add", k, v), Now(f, d, x)) = Now(f, d, x + f[k])
    /\ \A f, d, x, k, v : Exec(Op("sum", k, v), Now(f, d, x)) = Now(f, x, 0)
    /\ \A f, d, x, k, v : Exec(Op("set", k, v), Now(f, d, x)) = Now([f EXCEPT ![k] = v], d, x)
    /\ \A f, d, x, k, v : Exec(Op("zero", k, v), Now(f, d, x)) = Now(f, 0, x)
    /\ \A f, d, x, k, v : Exec(Op("accumulate", k, v), Now(f, d, x)) = Now(f, d + f[k], x)
    /\ \A f, d, x, k, v : Exec(Op("lock", k, v), Now(f, d, x)) = Now(f, d, x)
    /\ \A f, d, x, k, v : Exec(Op("unlock", k, v), Now(f, d, x)) = Now(f, d, x)
    /\ \A f, d, x, k, v : Exec(Op("print", k, v), Now(f, d, x)) = Now(f, d, x)
<1>1. \A f, d, x, k, v : Exec(Op("load", k, v), Now(f, d, x)) = Now(f, d, f[k])
  BY DEF Exec, Op, Now
<1>2. \A f, d, x, k, v : Exec(Op("inc", k, v), Now(f, d, x)) = Now([f EXCEPT ![k] = x + 1], d, 0)
  BY DEF Exec, Op, Now
<1>3. \A f, d, x, k, v : Exec(Op("local", k, v), Now(f, d, x)) = Now(f, d, 0)
  BY DEF Exec, Op, Now
<1>4. \A f, d, x, k, v : Exec(Op("add", k, v), Now(f, d, x)) = Now(f, d, x + f[k])
  BY DEF Exec, Op, Now
<1>5. \A f, d, x, k, v : Exec(Op("sum", k, v), Now(f, d, x)) = Now(f, x, 0)
  BY DEF Exec, Op, Now
<1>6. \A f, d, x, k, v : Exec(Op("set", k, v), Now(f, d, x)) = Now([f EXCEPT ![k] = v], d, x)
  BY DEF Exec, Op, Now
<1>7. \A f, d, x, k, v : Exec(Op("zero", k, v), Now(f, d, x)) = Now(f, 0, x)
  BY DEF Exec, Op, Now
<1>8. \A f, d, x, k, v : Exec(Op("accumulate", k, v), Now(f, d, x)) = Now(f, d + f[k], x)
  BY DEF Exec, Op, Now
<1>9. \A f, d, x, k, v : Exec(Op("lock", k, v), Now(f, d, x)) = Now(f, d, x)
  BY DEF Exec, Op, Now
<1>10. \A f, d, x, k, v : Exec(Op("unlock", k, v), Now(f, d, x)) = Now(f, d, x)
  BY DEF Exec, Op, Now
<1>11. \A f, d, x, k, v : Exec(Op("print", k, v), Now(f, d, x)) = Now(f, d, x)
  BY DEF Exec, Op, Now
<1> QED
  BY <1>1, <1>2, <1>3, <1>4, <1>5, <1>6, <1>7, <1>8, <1>9, <1>10, <1>11

(* One increment. *)
LEMMA IncEnds ==
    ASSUME NEW c, NEW f \in [Index -> Int], NEW d, Ends(c, Now(f, d, 0)), NEW k \in Index
    PROVE  Ends(c \o INC(k), Now([f EXCEPT ![k] = f[k] + 1], d, 0))
<1> DEFINE t == INC(k)
<1>1. t \in Seq(Ops) /\ Len(t) = 2
  BY BlocksTyped DEF INC
<1>2. t[1] = Op("load", k, 0) /\ t[2] = Op("inc", k, 0)
  BY DEF INC
<1> HIDE DEF t
<1>3. PICK r : /\ r[0] = Now(f, d, 0)
               /\ \A n \in 1 .. Len(t) : r[n] = Exec(t[n], r[n - 1])
               /\ (\A n \in 1 .. Len(t) : Right(t[n], r[n - 1])) => Ends(c \o t, r[Len(t)])
  <2>1. PICK r : Adds(c, Now(f, d, 0), t, r)
    BY <1>1, Segment
  <2> QED
    BY <2>1 DEF Adds
<1>4. r[1] = Exec(t[1], r[0]) /\ r[2] = Exec(t[2], r[1])
  BY <1>1, <1>3
<1>5. r[1] = Now(f, d, f[k])
  BY <1>2, <1>3, <1>4, ExecEach
<1>6. r[2] = Now([f EXCEPT ![k] = f[k] + 1], d, 0)
  <2>1. Exec(Op("inc", k, 0), Now(f, d, f[k])) = Now([f EXCEPT ![k] = f[k] + 1], d, 0)
    BY DEF Exec, Op, Now
  <2> QED
    BY <1>2, <1>4, <1>5, <2>1
<1>7. \A n \in 1 .. Len(t) : Right(t[n], r[n - 1])
  BY <1>1, <1>2 DEF Right, Op
<1> QED
  BY <1>1, <1>3, <1>6, <1>7 DEF t

Total(f) == f[0] + f[1] + f[2] + f[3] + f[4]

(* The sum of the five numbers. *)
LEMMA SumEnds ==
    ASSUME NEW c, NEW f \in [Index -> Int], NEW d, Ends(c, Now(f, d, 0))
    PROVE  Ends(c \o SUM, Now(f, Total(f), 0))
<1> DEFINE t == SUM
           At(n) == Now(f, d, n)
<1>0. /\ f[0] \in Int /\ f[1] \in Int /\ f[2] \in Int /\ f[3] \in Int /\ f[4] \in Int
  BY DEF Index
<1>1. t \in Seq(Ops) /\ Len(t) = 7
  BY BlocksTyped DEF SUM, ForAll
<1>2. /\ t[1] = Op("local", 0, 0) /\ t[2] = Op("add", 0, 0) /\ t[3] = Op("add", 1, 0)
      /\ t[4] = Op("add", 2, 0) /\ t[5] = Op("add", 3, 0) /\ t[6] = Op("add", 4, 0)
      /\ t[7] = Op("sum", 0, 0)
  BY DEF SUM, ForAll
<1> HIDE DEF t
<1>3. PICK r : /\ r[0] = Now(f, d, 0)
               /\ \A n \in 1 .. Len(t) : r[n] = Exec(t[n], r[n - 1])
               /\ (\A n \in 1 .. Len(t) : Right(t[n], r[n - 1])) => Ends(c \o t, r[Len(t)])
  <2>1. PICK r : Adds(c, Now(f, d, 0), t, r)
    BY <1>1, Segment
  <2> QED
    BY <2>1 DEF Adds
<1>4. /\ r[1] = Exec(t[1], r[0]) /\ r[2] = Exec(t[2], r[1]) /\ r[3] = Exec(t[3], r[2])
      /\ r[4] = Exec(t[4], r[3]) /\ r[5] = Exec(t[5], r[4]) /\ r[6] = Exec(t[6], r[5])
      /\ r[7] = Exec(t[7], r[6])
  BY <1>1, <1>3
<1>5. r[1] = At(0)
  BY <1>2, <1>3, <1>4, ExecEach
<1>6. \A k, n : Exec(Op("add", k, 0), At(n)) = At(n + f[k])
  BY ExecEach
<1>7. r[2] = At(0 + f[0])
  BY <1>2, <1>4, <1>5, <1>6
<1>11. r[3] = At(0 + f[0] + f[1])
  BY <1>2, <1>4, <1>6, <1>7
<1>12. r[4] = At(0 + f[0] + f[1] + f[2])
  BY <1>2, <1>4, <1>6, <1>11
<1>13. r[5] = At(0 + f[0] + f[1] + f[2] + f[3])
  BY <1>2, <1>4, <1>6, <1>12
<1>14. r[6] = At(0 + f[0] + f[1] + f[2] + f[3] + f[4])
  BY <1>2, <1>4, <1>6, <1>13
<1>8. 0 + f[0] + f[1] + f[2] + f[3] + f[4] = Total(f)
  BY <1>0 DEF Total
<1>9. r[7] = Now(f, Total(f), 0)
  BY <1>2, <1>4, <1>8, <1>14, ExecEach DEF At
<1>10. \A n \in 1 .. Len(t) : Right(t[n], r[n - 1])
  BY <1>1, <1>2 DEF Right, Op
<1> QED
  BY <1>1, <1>3, <1>9, <1>10 DEF t

(* A line is printed, of the sum that is expected. *)
LEMMA PrintEnds ==
    ASSUME NEW c, NEW s, Ends(c, s), NEW g \in Tags, s.dsum = Expected(g)
    PROVE  Ends(c \o PRINT(g), s)
<1> DEFINE t == PRINT(g)
<1>1. t \in Seq(Ops) /\ Len(t) = 1 /\ t[1] = Op("print", g, 0)
  BY BlocksTyped DEF PRINT
<1> HIDE DEF t
<1>2. PICK r : /\ r[0] = s
               /\ \A n \in 1 .. Len(t) : r[n] = Exec(t[n], r[n - 1])
               /\ (\A n \in 1 .. Len(t) : Right(t[n], r[n - 1])) => Ends(c \o t, r[Len(t)])
  <2>1. PICK r : Adds(c, s, t, r)
    BY <1>1, Segment
  <2> QED
    BY <2>1 DEF Adds
<1>3. s \in States
  <2>1. c \in Seq(Ops) /\ Run(c)[Len(c)] = s
    BY DEF Ends
  <2> QED
    BY <2>1, RunDefined
<1>4. r[1] = s
  <2>1. r[1] = Exec(Op("print", g, 0), s)
    BY <1>1, <1>2
  <2>2. Exec(Op("print", g, 0), s) = [num |-> s.num, dsum |-> s.dsum, reg |-> s.reg]
    BY DEF Exec, Op
  <2> QED
    BY <1>3, <2>1, <2>2 DEF States
<1>5. \A n \in 1 .. Len(t) : Right(t[n], r[n - 1])
  BY <1>1, <1>2 DEF Right, Op
<1> QED
  BY <1>1, <1>2, <1>4, <1>5 DEF t

(* The numbers and their sum are zero again. *)
LEMMA ResetEnds ==
    ASSUME NEW c, NEW f \in [Index -> Int], NEW d, Ends(c, Now(f, d, 0))
    PROVE  Ends(c \o RESET, Now(Zeros, 0, 0))
<1> DEFINE t == RESET
           Put(h, k) == [h EXCEPT ![k] = 0]
           f1 == Put(f, 0)   f2 == Put(f1, 1)   f3 == Put(f2, 2)   f4 == Put(f3, 3)
           f5 == Put(f4, 4)
<1>1. t \in Seq(Ops) /\ Len(t) = 6
  BY BlocksTyped DEF RESET, ForAll
<1>2. /\ t[1] = Op("set", 0, 0) /\ t[2] = Op("set", 1, 0) /\ t[3] = Op("set", 2, 0)
      /\ t[4] = Op("set", 3, 0) /\ t[5] = Op("set", 4, 0) /\ t[6] = Op("zero", 0, 0)
  BY DEF RESET, ForAll
<1>3. f5 = Zeros
  <2>1. \A h \in [Index -> Int], k \in Index :
           /\ Put(h, k) \in [Index -> Int] /\ Put(h, k)[k] = 0
           /\ \A n \in Index \ {k} : Put(h, k)[n] = h[n]
    OBVIOUS
  <2> HIDE DEF Put
  <2>2. f1 \in [Index -> Int] /\ f1[0] = 0
    BY <2>1 DEF Index
  <2>3. f2 \in [Index -> Int] /\ f2[0] = 0 /\ f2[1] = 0
    BY <2>1, <2>2 DEF Index
  <2>4. f3 \in [Index -> Int] /\ f3[0] = 0 /\ f3[1] = 0 /\ f3[2] = 0
    BY <2>1, <2>3 DEF Index
  <2>5. f4 \in [Index -> Int] /\ f4[0] = 0 /\ f4[1] = 0 /\ f4[2] = 0 /\ f4[3] = 0
    BY <2>1, <2>4 DEF Index
  <2>6. f5 \in [Index -> Int] /\ f5[0] = 0 /\ f5[1] = 0 /\ f5[2] = 0 /\ f5[3] = 0 /\ f5[4] = 0
    BY <2>1, <2>5 DEF Index
  <2> HIDE DEF f5
  <2> QED
    BY <2>6 DEF Zeros, Index
<1> HIDE DEF t, f1, f2, f3, f4, f5
<1>4. PICK r : /\ r[0] = Now(f, d, 0)
               /\ \A n \in 1 .. Len(t) : r[n] = Exec(t[n], r[n - 1])
               /\ (\A n \in 1 .. Len(t) : Right(t[n], r[n - 1])) => Ends(c \o t, r[Len(t)])
  <2>1. PICK r : Adds(c, Now(f, d, 0), t, r)
    BY <1>1, Segment
  <2> QED
    BY <2>1 DEF Adds
<1>5. /\ r[1] = Exec(t[1], r[0]) /\ r[2] = Exec(t[2], r[1]) /\ r[3] = Exec(t[3], r[2])
      /\ r[4] = Exec(t[4], r[3]) /\ r[5] = Exec(t[5], r[4]) /\ r[6] = Exec(t[6], r[5])
  BY <1>1, <1>4
<1>6. \A h, k : Exec(Op("set", k, 0), Now(h, d, 0)) = Now(Put(h, k), d, 0)
  BY ExecEach
<1> HIDE DEF Put
<1>7. r[1] = Now(f1, d, 0) /\ r[2] = Now(f2, d, 0) /\ r[3] = Now(f3, d, 0)
  BY <1>2, <1>4, <1>5, <1>6 DEF f1, f2, f3
<1>8. r[4] = Now(f4, d, 0) /\ r[5] = Now(f5, d, 0)
  BY <1>2, <1>5, <1>6, <1>7 DEF f4, f5
<1>9. r[6] = Now(Zeros, 0, 0)
  BY <1>2, <1>3, <1>5, <1>8, ExecEach
<1>10. \A n \in 1 .. Len(t) : Right(t[n], r[n - 1])
  BY <1>1, <1>2 DEF Right, Op
<1> QED
  BY <1>1, <1>4, <1>9, <1>10 DEF t

(* The handler of the interrupt: the sum of its own five numbers. *)
LEMMA IntEnds ==
    ASSUME NEW c, NEW f \in [Index -> Int], NEW d, Ends(c, Now(f, d, 0))
    PROVE  \E g \in [Index -> Int] : Ends(c \o INT, Now(g, -15, 0))
<1> DEFINE t == INT
           Put(h, k, v) == [h EXCEPT ![k] = v]
           f1 == Put(f, 0, -1)   f2 == Put(f1, 1, -2)   f3 == Put(f2, 2, -3)
           f4 == Put(f3, 3, -4)  g == Put(f4, 4, -5)
<1>1. t \in Seq(Ops) /\ Len(t) = 12
  BY BlocksTyped DEF INT, ForAll, PRINT
<1>2. /\ t[1] = Op("zero", 0, 0)
      /\ t[2] = Op("set", 0, -1) /\ t[3] = Op("set", 1, -2) /\ t[4] = Op("set", 2, -3)
      /\ t[5] = Op("set", 3, -4) /\ t[6] = Op("set", 4, -5)
  BY DEF INT, ForAll, PRINT
<1>3. /\ t[7] = Op("accumulate", 0, 0) /\ t[8] = Op("accumulate", 1, 0)
      /\ t[9] = Op("accumulate", 2, 0) /\ t[10] = Op("accumulate", 3, 0)
      /\ t[11] = Op("accumulate", 4, 0) /\ t[12] = Op("print", "IRQ", 0)
  BY DEF INT, ForAll, PRINT
<1>4. /\ g \in [Index -> Int]
      /\ g[0] = -1 /\ g[1] = -2 /\ g[2] = -3 /\ g[3] = -4 /\ g[4] = -5
  BY DEF Index
<1> HIDE DEF t, f1, f2, f3, f4, g
<1>5. PICK r : /\ r[0] = Now(f, d, 0)
               /\ \A n \in 1 .. Len(t) : r[n] = Exec(t[n], r[n - 1])
               /\ (\A n \in 1 .. Len(t) : Right(t[n], r[n - 1])) => Ends(c \o t, r[Len(t)])
  <2>1. PICK r : Adds(c, Now(f, d, 0), t, r)
    BY <1>1, Segment
  <2> QED
    BY <2>1 DEF Adds
<1>6. /\ r[1] = Exec(t[1], r[0]) /\ r[2] = Exec(t[2], r[1]) /\ r[3] = Exec(t[3], r[2])
      /\ r[4] = Exec(t[4], r[3]) /\ r[5] = Exec(t[5], r[4]) /\ r[6] = Exec(t[6], r[5])
  BY <1>1, <1>5
<1>7. /\ r[7] = Exec(t[7], r[6]) /\ r[8] = Exec(t[8], r[7]) /\ r[9] = Exec(t[9], r[8])
      /\ r[10] = Exec(t[10], r[9]) /\ r[11] = Exec(t[11], r[10]) /\ r[12] = Exec(t[12], r[11])
  BY <1>1, <1>5
<1>8. \A h, k, v : Exec(Op("set", k, v), Now(h, 0, 0)) = Now(Put(h, k, v), 0, 0)
  BY ExecEach
<1> HIDE DEF Put
<1>9. r[1] = Now(f, 0, 0)
  BY <1>2, <1>5, <1>6, ExecEach
<1>10. r[2] = Now(f1, 0, 0) /\ r[3] = Now(f2, 0, 0) /\ r[4] = Now(f3, 0, 0)
  BY <1>2, <1>6, <1>8, <1>9 DEF f1, f2, f3
<1>11. r[5] = Now(f4, 0, 0) /\ r[6] = Now(g, 0, 0)
  BY <1>2, <1>6, <1>8, <1>10 DEF f4, g
<1>12. \A k, n : Exec(Op("accumulate", k, 0), Now(g, n, 0)) = Now(g, n + g[k], 0)
  BY ExecEach
<1>13. r[7] = Now(g, 0 + g[0], 0)
  BY <1>3, <1>7, <1>11, <1>12
<1>14. r[8] = Now(g, 0 + g[0] + g[1], 0)
  BY <1>3, <1>7, <1>12, <1>13
<1>15. r[9] = Now(g, 0 + g[0] + g[1] + g[2], 0)
  BY <1>3, <1>7, <1>12, <1>14
<1>16. r[10] = Now(g, 0 + g[0] + g[1] + g[2] + g[3], 0)
  BY <1>3, <1>7, <1>12, <1>15
<1>17. r[11] = Now(g, 0 + g[0] + g[1] + g[2] + g[3] + g[4], 0)
  BY <1>3, <1>7, <1>12, <1>16
<1>18. 0 + g[0] + g[1] + g[2] + g[3] + g[4] = -15
  BY <1>4
<1>19. r[11] = Now(g, -15, 0) /\ r[12] = Now(g, -15, 0)
  BY <1>3, <1>7, <1>17, <1>18, ExecEach
<1>20. \A n \in 1 .. Len(t) : Right(t[n], r[n - 1])
  <2>1. \A n \in 1 .. 11 : t[n].op \notin {"lock", "unlock", "print"}
    BY <1>2, <1>3 DEF Op
  <2>2. t[12].op = "print" /\ t[12].k = "IRQ" /\ r[11].dsum = -15 /\ Expected("IRQ") = -15
    BY <1>3, <1>19 DEF Op, Now, Expected
  <2>3. \A n \in 1 .. 11 : Right(t[n], r[n - 1])
    BY <2>1 DEF Right
  <2>4. Right(t[12], r[12 - 1])
    BY <2>2 DEF Right
  <2>5. \A n \in 1 .. Len(t) : n \in 1 .. 11 \/ n = 12
    BY <1>1
  <2> QED
    BY <2>3, <2>4, <2>5
<1>21. Ends(c \o t, Now(g, -15, 0))
  BY <1>1, <1>5, <1>19, <1>20
<1> QED
  BY <1>4, <1>21 DEF t

(* Segments may be put together in any order. *)
LEMMA Associative == \A s, t, u \in Seq(Ops) : s \o (t \o u) = (s \o t) \o u
BY ConcatAssociative, SMTT(30)

(* What ends is a program. *)
LEMMA EndsType == \A c, s : Ends(c, s) => c \in Seq(Ops)
BY DEF Ends

(* Increments of one number, one after the other. *)
LEMMA ManyEnds ==
    ASSUME NEW c, NEW f \in [Index -> Int], NEW d, Ends(c, Now(f, d, 0)), NEW k \in Index
    PROVE  LET g == [f EXCEPT ![k] = f[k] + 5]
           IN  g \in [Index -> Int] /\ Ends(c \o Many(k), Now(g, Total(g), 0))
<1> DEFINE Plus(n) == [f EXCEPT ![k] = f[k] + n]
           s == INC(k)
<1>0. c \in Seq(Ops) /\ s \in Seq(Ops) /\ SUM \in Seq(Ops)
  BY EndsType, BlocksTyped
<1>1. ASSUME NEW n \in 0 .. 5
      PROVE  /\ Plus(n) \in [Index -> Int]
             /\ [Plus(n) EXCEPT ![k] = Plus(n)[k] + 1] = Plus(n + 1)
  OBVIOUS
<1>2. Plus(0) = f
  OBVIOUS
<1> HIDE DEF Plus, s
<1>3. ASSUME NEW b, NEW n \in 0 .. 4, Ends(b, Now(Plus(n), d, 0))
      PROVE  Ends(b \o s, Now(Plus(n + 1), d, 0))
  BY <1>1, <1>3, IncEnds DEF s
<1>4. Ends(c \o s, Now(Plus(0 + 1), d, 0))
  BY <1>2, <1>3
<1>5. Ends(c \o s \o s, Now(Plus(1 + 1), d, 0))
  BY <1>3, <1>4
<1>6. Ends(c \o s \o s \o s, Now(Plus(2 + 1), d, 0))
  BY <1>3, <1>5
<1>7. Ends(c \o s \o s \o s \o s, Now(Plus(3 + 1), d, 0))
  BY <1>3, <1>6
<1>8. Ends(c \o s \o s \o s \o s \o s, Now(Plus(4 + 1), d, 0))
  BY <1>3, <1>7
<1>9. Plus(4 + 1) = Plus(5) /\ Plus(5) \in [Index -> Int]
  BY <1>1
<1>10. Ends(c \o s \o s \o s \o s \o s \o SUM, Now(Plus(5), Total(Plus(5)), 0))
  BY <1>8, <1>9, SumEnds
<1>11. c \o (s \o s \o s \o s \o s \o SUM) = c \o s \o s \o s \o s \o s \o SUM
  <2> DEFINE s2 == s \o s   s3 == s2 \o s   s4 == s3 \o s   s5 == s4 \o s
  <2>1. s2 \in Seq(Ops)
    BY <1>0, ConcatOps
  <2> HIDE DEF s2
  <2>2. s3 \in Seq(Ops)
    BY <1>0, <2>1, ConcatOps
  <2> HIDE DEF s3
  <2>3. s4 \in Seq(Ops)
    BY <1>0, <2>2, ConcatOps
  <2> HIDE DEF s4
  <2>4. s5 \in Seq(Ops)
    BY <1>0, <2>3, ConcatOps
  <2> HIDE DEF s5
  <2>5. c \o s2 = (c \o s) \o s
    BY <1>0, Associative, ZenonT(40) DEF s2
  <2>6. c \o s3 = (c \o s2) \o s
    BY <1>0, <2>1, Associative, ZenonT(40) DEF s3
  <2>7. c \o s4 = (c \o s3) \o s
    BY <1>0, <2>2, Associative, ZenonT(40) DEF s4
  <2>8. c \o s5 = (c \o s4) \o s
    BY <1>0, <2>3, Associative, ZenonT(40) DEF s5
  <2>9. c \o (s5 \o SUM) = (c \o s5) \o SUM
    BY <1>0, <2>4, Associative, ZenonT(40)
  <2>10. c \o (s5 \o SUM) = c \o s \o s \o s \o s \o s \o SUM
    BY <2>5, <2>6, <2>7, <2>8, <2>9, Zenon
  <2> QED
    BY <2>10 DEF s2, s3, s4, s5
<1> QED
  BY <1>9, <1>10, <1>11 DEF Many, Plus, s

(* The five numbers are each one more. *)
LEMMA IncAllEnds ==
    ASSUME NEW c, NEW f \in [Index -> Int], NEW d, Ends(c, Now(f, d, 0))
    PROVE  Ends(c \o INC_ALL, Now([k \in Index |-> f[k] + 1], d, 0))
<1> DEFINE Up(n) == [k \in Index |-> IF k < n THEN f[k] + 1 ELSE f[k]]
<1>0. /\ c \in Seq(Ops) /\ INC(0) \in Seq(Ops) /\ INC(1) \in Seq(Ops) /\ INC(2) \in Seq(Ops)
      /\ INC(3) \in Seq(Ops) /\ INC(4) \in Seq(Ops)
      /\ 0 \in Index /\ 1 \in Index /\ 2 \in Index /\ 3 \in Index /\ 4 \in Index
  BY EndsType, BlocksTyped DEF Index
<1>1. ASSUME NEW n \in Index
      PROVE  Up(n) \in [Index -> Int] /\ [Up(n) EXCEPT ![n] = Up(n)[n] + 1] = Up(n + 1)
  BY DEF Index
<1>2. Up(0) = f /\ Up(4 + 1) = [k \in Index |-> f[k] + 1]
  BY DEF Index
<1> HIDE DEF Up
<1>3. ASSUME NEW b, NEW n \in Index, Ends(b, Now(Up(n), d, 0))
      PROVE  Ends(b \o INC(n), Now(Up(n + 1), d, 0))
  BY <1>1, <1>3, IncEnds
<1>4. Ends(c \o INC(0), Now(Up(0 + 1), d, 0))
  BY <1>0, <1>2, <1>3
<1>5. Ends(c \o INC(0) \o INC(1), Now(Up(1 + 1), d, 0))
  BY <1>0, <1>3, <1>4
<1>6. Ends(c \o INC(0) \o INC(1) \o INC(2), Now(Up(2 + 1), d, 0))
  BY <1>0, <1>3, <1>5
<1>7. Ends(c \o INC(0) \o INC(1) \o INC(2) \o INC(3), Now(Up(3 + 1), d, 0))
  BY <1>0, <1>3, <1>6
<1>8. Ends(c \o INC(0) \o INC(1) \o INC(2) \o INC(3) \o INC(4), Now(Up(4 + 1), d, 0))
  BY <1>0, <1>3, <1>7
<1>9. \A s \in Seq(Ops), k \in Index : c \o (s \o INC(k)) = (c \o s) \o INC(k)
  <2> SUFFICES ASSUME NEW s \in Seq(Ops), NEW k \in Index
               PROVE  c \o (s \o INC(k)) = (c \o s) \o INC(k)
    OBVIOUS
  <2> DEFINE t == INC(k)
  <2>1. c \in Seq(Ops) /\ t \in Seq(Ops)
    BY <1>0, BlocksTyped
  <2> HIDE DEF t
  <2>2. c \o (s \o t) = (c \o s) \o t
    BY <2>1, Associative, Zenon
  <2> QED
    BY <2>2 DEF t
<1>10. c \o (INC(0) \o INC(1) \o INC(2) \o INC(3) \o INC(4))
          = c \o INC(0) \o INC(1) \o INC(2) \o INC(3) \o INC(4)
  <2> DEFINE s2 == INC(0) \o INC(1)   s3 == s2 \o INC(2)   s4 == s3 \o INC(3)
  <2>1. s2 \in Seq(Ops)
    BY <1>0, ConcatOps
  <2> HIDE DEF s2
  <2>2. s3 \in Seq(Ops)
    BY <1>0, <2>1, ConcatOps
  <2> HIDE DEF s3
  <2>3. s4 \in Seq(Ops)
    BY <1>0, <2>2, ConcatOps
  <2> HIDE DEF s4
  <2>4. c \o s2 = (c \o INC(0)) \o INC(1)
    BY <1>0, <1>9 DEF s2
  <2>5. c \o s3 = (c \o s2) \o INC(2)
    BY <1>0, <2>1, <1>9 DEF s3
  <2>6. c \o s4 = (c \o s3) \o INC(3)
    BY <1>0, <2>2, <1>9 DEF s4
  <2>7. c \o (s4 \o INC(4)) = (c \o s4) \o INC(4)
    BY <1>0, <2>3, <1>9
  <2>8. c \o (s4 \o INC(4)) = c \o INC(0) \o INC(1) \o INC(2) \o INC(3) \o INC(4)
    BY <2>4, <2>5, <2>6, <2>7, Zenon
  <2> QED
    BY <2>8 DEF s2, s3, s4
<1> QED
  BY <1>2, <1>8, <1>10 DEF INC_ALL

(* The mutex is taken first, when all is zero. *)
LEMMA LockEnds == Ends(LOCK, Now(Zeros, 0, 0))
<1> DEFINE c == LOCK
<1>1. c \in Seq(Ops) /\ Len(c) = 1 /\ c[1] = Op("lock", 0, 0)
  BY BlocksTyped DEF LOCK
<1> HIDE DEF c
<1>2. Run(c)[0] = Nothing /\ Run(c)[1] = Exec(c[1], Run(c)[0])
  BY <1>1, RunDefined
<1>3. Run(c)[1] = Now(Zeros, 0, 0)
  BY <1>1, <1>2, ExecEach DEF Nothing, Now
<1>4. c[1].op = "lock"
  BY <1>1 DEF Op
<1>5. Ends(c, Now(Zeros, 0, 0))
  BY <1>1, <1>3, <1>4 DEF Ends
<1> QED
  BY <1>5 DEF c

(* The accesses of a test, up to the last, which releases the mutex: they  *)
(* print what is expected and leave everything as they found it.           *)
Proper(code) == \E c : Ends(c, Nothing) /\ code = c \o UNLOCK

(* The program of the parent, which loops over the five numbers. *)
LEMMA ParentEnds == Proper(Code(<<0, "parent">>))
<1>0. /\ Zeros \in [Index -> Int] /\ \A k \in Index : Zeros[k] = 0
      /\ 0 \in Index /\ 1 \in Index /\ 2 \in Index /\ 3 \in Index /\ 4 \in Index
  BY DEF Zeros, Index
<1> DEFINE f1 == [Zeros EXCEPT ![0] = Zeros[0] + 5]
           f2 == [f1 EXCEPT ![1] = f1[1] + 5]
           f3 == [f2 EXCEPT ![2] = f2[2] + 5]
           g1 == [k \in Index |-> Zeros[k] + 1]
           g2 == [k \in Index |-> g1[k] + 1]
           c1 == LOCK \o Many(0)   c2 == c1 \o Many(1)   c3 == c2 \o Many(2)
           c4 == c3 \o PRINT("IOCTL0")   c5 == c4 \o RESET
           c6 == c5 \o INC_ALL   c7 == c6 \o INC_ALL   c8 == c7 \o SUM
           c9 == c8 \o PRINT("IOCTL1")   c10 == c9 \o RESET
<1>1. Code(<<0, "parent">>) = c10 \o UNLOCK
  BY DEF Code
<1>2. Total(f3) = 15 /\ g1 \in [Index -> Int] /\ g2 \in [Index -> Int] /\ Total(g2) = 10
  BY DEF Total, Zeros, Index
<1>3. /\ Expected("IOCTL0") = 15 /\ Expected("IOCTL1") = 10
      /\ "IOCTL0" \in Tags /\ "IOCTL1" \in Tags
  BY DEF Expected, Tags
<1>4. \A f, d : Now(f, d, 0).dsum = d
  BY DEF Now
<1> HIDE DEF f1, f2, f3, g1, g2, c1, c2, c3, c4, c5, c6, c7, c8, c9, c10
<1>5. f1 \in [Index -> Int] /\ Ends(c1, Now(f1, Total(f1), 0))
  BY <1>0, LockEnds, ManyEnds DEF f1, c1
<1>6. f2 \in [Index -> Int] /\ Ends(c2, Now(f2, Total(f2), 0))
  BY <1>0, <1>5, ManyEnds DEF f2, c2
<1>7. f3 \in [Index -> Int] /\ Ends(c3, Now(f3, Total(f3), 0))
  BY <1>0, <1>6, ManyEnds DEF f3, c3
<1>8. Ends(c4, Now(f3, Total(f3), 0))
  BY <1>2, <1>3, <1>4, <1>7, PrintEnds DEF c4
<1>9. Ends(c5, Now(Zeros, 0, 0))
  BY <1>7, <1>8, ResetEnds DEF c5
<1>10. Ends(c6, Now(g1, 0, 0))
  BY <1>0, <1>9, IncAllEnds DEF c6, g1
<1>11. Ends(c7, Now(g2, 0, 0))
  BY <1>2, <1>10, IncAllEnds DEF c7, g2
<1>12. Ends(c8, Now(g2, Total(g2), 0))
  BY <1>2, <1>11, SumEnds DEF c8
<1>13. Ends(c9, Now(g2, Total(g2), 0))
  BY <1>2, <1>3, <1>4, <1>12, PrintEnds DEF c9
<1>14. Ends(c10, Now(Zeros, 0, 0))
  BY <1>2, <1>13, ResetEnds DEF c10
<1> QED
  BY <1>1, <1>14 DEF Proper, Nothing, Now

(* The program of the child, which raises the interrupt. *)
LEMMA ChildEnds == Proper(Code(<<0, "child">>))
<1>0. /\ Zeros \in [Index -> Int] /\ \A k \in Index : Zeros[k] = 0
      /\ 0 \in Index /\ 1 \in Index /\ 2 \in Index /\ 3 \in Index /\ 4 \in Index
  BY DEF Zeros, Index
<1> DEFINE f1 == [Zeros EXCEPT ![0] = Zeros[0] + 5]
           f2 == [f1 EXCEPT ![1] = f1[1] + 5]
           f3 == [f2 EXCEPT ![2] = f2[2] + 5]
           f4 == [f3 EXCEPT ![3] = f3[3] + 5]
           f5 == [f4 EXCEPT ![4] = f4[4] + 5]
           c1 == LOCK \o INT   c2 == c1 \o RESET
           c3 == c2 \o Many(0)   c4 == c3 \o Many(1)   c5 == c4 \o Many(2)
           c6 == c5 \o Many(3)   c7 == c6 \o Many(4)
           c8 == c7 \o PRINT("IOCTL2")   c9 == c8 \o RESET
<1>1. Code(<<0, "child">>) = c9 \o UNLOCK
  BY DEF Code
<1>2. Total(f5) = 25
  BY DEF Total, Zeros, Index
<1>3. Expected("IOCTL2") = 25 /\ "IOCTL2" \in Tags
  BY DEF Expected, Tags
<1>4. \A f, d : Now(f, d, 0).dsum = d
  BY DEF Now
<1> HIDE DEF f1, f2, f3, f4, f5, c1, c2, c3, c4, c5, c6, c7, c8, c9
<1>5. PICK g \in [Index -> Int] : Ends(c1, Now(g, -15, 0))
  BY <1>0, LockEnds, IntEnds DEF c1
<1>6. Ends(c2, Now(Zeros, 0, 0))
  BY <1>5, ResetEnds DEF c2
<1>7. f1 \in [Index -> Int] /\ Ends(c3, Now(f1, Total(f1), 0))
  BY <1>0, <1>6, ManyEnds DEF f1, c3
<1>8. f2 \in [Index -> Int] /\ Ends(c4, Now(f2, Total(f2), 0))
  BY <1>0, <1>7, ManyEnds DEF f2, c4
<1>9. f3 \in [Index -> Int] /\ Ends(c5, Now(f3, Total(f3), 0))
  BY <1>0, <1>8, ManyEnds DEF f3, c5
<1>10. f4 \in [Index -> Int] /\ Ends(c6, Now(f4, Total(f4), 0))
  BY <1>0, <1>9, ManyEnds DEF f4, c6
<1>11. f5 \in [Index -> Int] /\ Ends(c7, Now(f5, Total(f5), 0))
  BY <1>0, <1>10, ManyEnds DEF f5, c7
<1>12. Ends(c8, Now(f5, Total(f5), 0))
  BY <1>2, <1>3, <1>4, <1>11, PrintEnds DEF c8
<1>13. Ends(c9, Now(Zeros, 0, 0))
  BY <1>11, <1>12, ResetEnds DEF c9
<1> QED
  BY <1>1, <1>13 DEF Proper, Nothing, Now

(* The program of a process: it takes the mutex first, releases it last,   *)
(* and does the right things in between.                                   *)
LEMMA CodeShape ==
    ASSUME NEW p \in Process
    PROVE  LET c == codes[p[2]] IN
           /\ c \in Seq(Ops) /\ Len(c) \in Nat \ {0, 1} /\ End(p) = Len(c) + 1
           /\ c[1].op = "lock" /\ c[Len(c)].op = "unlock"
           /\ \A n \in 2 .. Len(c) - 1 : Right(c[n], Run(c)[n - 1])
           /\ Run(c)[Len(c) - 1] = Nothing
<1> DEFINE code == codes[p[2]]
<1>1. Proper(code)
  BY ParentEnds, ChildEnds DEF codes, Process
<1>2. End(p) = Len(code) + 1
  BY DEF End
<1> HIDE DEF code
<1>3. PICK c : Ends(c, Nothing) /\ code = c \o UNLOCK
  BY <1>1 DEF Proper
<1> DEFINE t == UNLOCK
<1>4. c \in Seq(Ops) /\ t \in Seq(Ops) /\ Len(t) = 1 /\ t[1].op = "unlock"
  BY <1>3, EndsType, BlocksTyped DEF UNLOCK, Op
<1>10. code = c \o t
  BY <1>3
<1> HIDE DEF t
<1>5. /\ code \in Seq(Ops) /\ Len(code) = Len(c) + 1 /\ Len(c) \in Nat
      /\ \A n \in 1 .. Len(c) : code[n] = c[n]
      /\ code[Len(c) + 1] = t[1]
  <2>1. c \in Seq(Ops) /\ t \in Seq(Ops) /\ Len(t) = 1 /\ 1 \in 1 .. Len(t)
    BY <1>4
  <2>2. /\ c \o t \in Seq(Ops) /\ Len(c \o t) = Len(c) + Len(t) /\ Len(c) \in Nat
        /\ \A n \in 1 .. Len(c) : (c \o t)[n] = c[n]
        /\ (c \o t)[Len(c) + 1] = t[1]
    BY <2>1, ConcatAt, Zenon
  <2> QED
    BY <1>10, <2>1, <2>2, Zenon
<1>6. \A n \in 0 .. Len(c) : Run(code)[n] = Run(c)[n]
  BY <1>4, <1>10, RunPrefix
<1>7. Len(c) >= 1 /\ c[1].op = "lock" /\ Run(c)[Len(c)] = Nothing
  BY <1>3 DEF Ends
<1>8. ASSUME NEW n \in 2 .. Len(code) - 1 PROVE Right(code[n], Run(code)[n - 1])
  <2>1. n \in 2 .. Len(c) /\ n \in 1 .. Len(c) /\ n - 1 \in 0 .. Len(c)
    BY <1>5
  <2> QED
    BY <1>3, <1>5, <1>6, <2>1 DEF Ends
<1>9. Run(code)[Len(code) - 1] = Nothing /\ code[1].op = "lock" /\ code[Len(code)].op = "unlock"
  BY <1>4, <1>5, <1>6, <1>7
<1> QED
  BY <1>2, <1>5, <1>7, <1>8, <1>9 DEF code

(* An access inside the mutex does what it does in a program that is alone.*)
LEMMA AccessIsExec ==
    ASSUME num \in [Index -> Int], reg \in [Process -> Int], NEW p \in Process, NEW o \in Ops,
           o.op \notin {"lock", "unlock"},
           \/ Mutex(p, o)    /\ UNCHANGED <<num, dsum, reg, printed>>
           \/ Local(p, o)    /\ UNCHANGED <<num, dsum, mut1, printed>>
           \/ StoreNum(p, o) /\ UNCHANGED <<dsum, mut1, printed>>
           \/ StoreSum(p, o) /\ UNCHANGED <<num, mut1, printed>>
           \/ PrintLine(o)   /\ UNCHANGED <<num, dsum, mut1, reg>>
    PROVE  /\ Now(num', dsum', reg'[p]) = Exec(o, Now(num, dsum, reg[p]))
           /\ mut1' = mut1
           /\ DOMAIN reg' = Process /\ \A q \in Process \ {p} : reg'[q] = reg[q]
           /\ \/ printed' = printed
              \/ o.op = "print" /\ printed' = printed \cup {<<o.k, dsum>>}
<1>0. o = Op(o.op, o.k, o.v)
  BY DEF Ops, Op
<1> DEFINE s == Now(num, dsum, reg[p])
<1>1. CASE Mutex(p, o) /\ UNCHANGED <<num, dsum, reg, printed>>
  BY <1>1 DEF Mutex
<1>2. CASE Local(p, o) /\ UNCHANGED <<num, dsum, mut1, printed>>
  <2>1. CASE o.op = "load" /\ reg' = [reg EXCEPT ![p] = num[o.k]]
    <3>1. Exec(o, s) = Now(num, dsum, num[o.k])
      BY <1>0, <2>1, ExecEach
    <3> QED
      BY <1>2, <2>1, <3>1
  <2>2. CASE o.op = "local" /\ reg' = [reg EXCEPT ![p] = 0]
    <3>1. Exec(o, s) = Now(num, dsum, 0)
      BY <1>0, <2>2, ExecEach
    <3> QED
      BY <1>2, <2>2, <3>1
  <2>3. CASE o.op = "add" /\ reg' = [reg EXCEPT ![p] = reg[p] + num[o.k]]
    <3>1. Exec(o, s) = Now(num, dsum, reg[p] + num[o.k])
      BY <1>0, <2>3, ExecEach
    <3> QED
      BY <1>2, <2>3, <3>1
  <2> QED
    BY <1>2, <2>1, <2>2, <2>3 DEF Local
<1>3. CASE StoreNum(p, o) /\ UNCHANGED <<dsum, mut1, printed>>
  <2>1. CASE o.op = "inc" /\ num' = [num EXCEPT ![o.k] = reg[p] + 1] /\ reg' = [reg EXCEPT ![p] = 0]
    <3>1. Exec(o, s) = Now(num', dsum, 0)
      BY <2>1 DEF Exec, Now
    <3> QED
      BY <1>3, <2>1, <3>1
  <2>2. CASE o.op = "set" /\ num' = [num EXCEPT ![o.k] = o.v] /\ UNCHANGED reg
    <3>1. Exec(o, s) = Now(num', dsum, reg[p])
      BY <2>2 DEF Exec, Now
    <3> QED
      BY <1>3, <2>2, <3>1
  <2> QED
    BY <1>3, <2>1, <2>2 DEF StoreNum
<1>4. CASE StoreSum(p, o) /\ UNCHANGED <<num, mut1, printed>>
  <2>1. CASE o.op = "zero" /\ dsum' = 0 /\ UNCHANGED reg
    <3>1. Exec(o, s) = Now(num, 0, reg[p])
      BY <1>0, <2>1, ExecEach
    <3> QED
      BY <1>4, <2>1, <3>1
  <2>2. CASE o.op = "sum" /\ dsum' = reg[p] /\ reg' = [reg EXCEPT ![p] = 0]
    <3>1. Exec(o, s) = Now(num, reg[p], 0)
      BY <1>0, <2>2, ExecEach
    <3> QED
      BY <1>4, <2>2, <3>1
  <2>3. CASE o.op = "accumulate" /\ dsum' = dsum + num[o.k] /\ UNCHANGED reg
    <3>1. Exec(o, s) = Now(num, dsum + num[o.k], reg[p])
      BY <1>0, <2>3, ExecEach
    <3> QED
      BY <1>4, <2>3, <3>1
  <2> QED
    BY <1>4, <2>1, <2>2, <2>3 DEF StoreSum
<1>5. CASE PrintLine(o) /\ UNCHANGED <<num, dsum, mut1, reg>>
  <2>1. Exec(o, s) = Now(num, dsum, reg[p])
    BY <1>0, <1>5, ExecEach DEF PrintLine
  <2> QED
    BY <1>5, <2>1 DEF PrintLine
<1> QED
  BY <1>1, <1>2, <1>3, <1>4, <1>5

(* An access keeps the invariant: the process takes the mutex, or releases *)
(* it, or is inside and does what its program does when it is alone.       *)
LEMMA MutexAccess ==
    ASSUME IrqInv, MutexInv, NEW p \in Process, Access(p)
    PROVE  MutexInv'
<1> DEFINE c == codes[p[2]]
           o == c[ip[p]]
<1>0. /\ num \in [Index -> Int] /\ dsum \in Int /\ reg \in [Process -> Int]
      /\ mut1 = NoOwner => num = Zeros /\ dsum = 0
      /\ mut1 \in Process \cup {NoOwner}
      /\ \A q \in Process : mut1 = q <=> Inside(q)
      /\ \A q \in Process : ip[q] \in {0, 1} => reg[q] = 0
      /\ \A q \in Process : Inside(q) =>
            Now(num, dsum, reg[q]) = Run(codes[q[2]])[ip[q] - 1]
      /\ ExpectedAnswers /\ ip \in [Process -> Nat]
  BY DEF MutexInv, IrqInv, Now
<1>1. /\ c \in Seq(Ops) /\ Len(c) \in Nat \ {0, 1} /\ End(p) = Len(c) + 1
      /\ c[1].op = "lock" /\ c[Len(c)].op = "unlock"
      /\ \A n \in 2 .. Len(c) - 1 : Right(c[n], Run(c)[n - 1])
      /\ Run(c)[Len(c) - 1] = Nothing
  BY CodeShape
<1>2. /\ ip[p] \in 1 .. Len(c) /\ ip' = [ip EXCEPT ![p] = ip[p] + 1]
      /\ \/ Mutex(p, o)    /\ UNCHANGED <<num, dsum, reg, printed>>
         \/ Local(p, o)    /\ UNCHANGED <<num, dsum, mut1, printed>>
         \/ StoreNum(p, o) /\ UNCHANGED <<dsum, mut1, printed>>
         \/ StoreSum(p, o) /\ UNCHANGED <<num, mut1, printed>>
         \/ PrintLine(o)   /\ UNCHANGED <<num, dsum, mut1, reg>>
  BY <1>1 DEF Access
<1>3. o \in Ops
  BY <1>1, <1>2
<1>4. /\ \A q \in Process : Inside(q) <=> ip[q] \in 2 .. End(q) - 1
      /\ \A q \in Process : Inside(q)' <=> ip'[q] \in 2 .. End(q) - 1
  BY DEF Inside, End
<1>5. ip'[p] = ip[p] + 1 /\ \A q \in Process \ {p} : ip'[q] = ip[q] /\ (Inside(q)' <=> Inside(q))
  BY <1>0, <1>2, <1>4
<1>11. /\ Inside(p) <=> ip[p] \in 2 .. Len(c)
       /\ Inside(p)' <=> ip[p] + 1 \in 2 .. Len(c)
       /\ Len(c) \in Nat \ {0, 1} /\ ip[p] \in Nat
  <2>1. End(p) - 1 = Len(c)
    BY <1>1
  <2> QED
    BY <1>0, <1>1, <1>4, <1>5, <2>1
<1>6. NoOwner \notin Process
  BY DEF NoOwner, Process
<1>7. /\ Run(c) \in [0 .. Len(c) -> States] /\ Run(c)[0] = Nothing
      /\ \A n \in 1 .. Len(c) : Run(c)[n] = Exec(c[n], Run(c)[n - 1])
  BY <1>1, RunDefined
<1> HIDE DEF c
<1>8. CASE ip[p] = 1
  <2>1. mut1 = NoOwner /\ mut1' = p /\ UNCHANGED <<num, dsum, reg, printed>>
    BY <1>1, <1>2, <1>8 DEF Mutex, Local, StoreNum, StoreSum, PrintLine
  <2>2. Inside(p)' /\ ip'[p] = 2
    BY <1>1, <1>4, <1>5, <1>8
  <2>3. \A q \in Process : (mut1' = q <=> Inside(q)')
    BY <1>0, <1>5, <1>6, <2>1, <2>2
  <2>4. \A q \in Process : ip'[q] \in {0, 1} => reg'[q] = 0
    BY <1>0, <1>5, <1>8, <2>1
  <2>5. Exec(c[1], Nothing) = Nothing
    <3>1. c[1] = Op(c[1].op, c[1].k, c[1].v)
      <4>1. c[1] \in Ops
        BY <1>1
      <4> QED
        BY <4>1 DEF Ops, Op
    <3>2. Exec(c[1], Now(Zeros, 0, 0)) = Now(Zeros, 0, 0)
      BY <1>1, <3>1, ExecEach
    <3> QED
      BY <3>2 DEF Nothing, Now
  <2>6. Now(num, dsum, reg[p]) = Run(c)[1]
    BY <1>0, <1>1, <1>7, <1>8, <2>1, <2>5 DEF Nothing, Now
  <2>7. \A q \in Process : Inside(q)' => Now(num', dsum', reg'[q]) = Run(codes[q[2]])[ip'[q] - 1]
    BY <1>0, <1>5, <1>6, <2>1, <2>2, <2>6 DEF c
  <2>8. ExpectedAnswers'
    BY <1>0, <2>1 DEF ExpectedAnswers
  <2> QED
    BY <1>0, <1>6, <2>1, <2>3, <2>4, <2>7, <2>8 DEF MutexInv, Now
<1>9. CASE ip[p] = Len(c)
  <2>1. mut1' = NoOwner /\ UNCHANGED <<num, dsum, reg, printed>>
    BY <1>1, <1>2, <1>9 DEF Mutex, Local, StoreNum, StoreSum, PrintLine
  <2>2. Inside(p) /\ mut1 = p /\ ~Inside(p)'
    BY <1>0, <1>9, <1>11
  <2>3. \A q \in Process : ~Inside(q)'
    BY <1>0, <1>5, <2>2
  <2>4. num = Zeros /\ dsum = 0
    <3>1. Now(num, dsum, reg[p]) = Run(c)[Len(c) - 1]
      BY <1>0, <1>9, <2>2 DEF c
    <3> QED
      BY <1>1, <3>1 DEF Nothing, Now
  <2>5. \A q \in Process : ip'[q] \in {0, 1} => reg'[q] = 0
    BY <1>0, <1>1, <1>5, <1>9, <2>1
  <2>6. ExpectedAnswers'
    BY <1>0, <2>1 DEF ExpectedAnswers
  <2> QED
    BY <1>0, <1>6, <2>1, <2>3, <2>4, <2>5, <2>6 DEF MutexInv
<1>10. CASE ip[p] \in 2 .. Len(c) - 1
  <2>1. Inside(p) /\ mut1 = p /\ Inside(p)' /\ ip'[p] \notin {0, 1} /\ ip'[p] - 1 = ip[p]
    BY <1>0, <1>5, <1>10, <1>11
  <2>2. Right(o, Run(c)[ip[p] - 1])
    BY <1>1, <1>10
  <2>3. o.op \notin {"lock", "unlock"}
    BY <2>2 DEF Right
  <2>4. /\ Now(num', dsum', reg'[p]) = Exec(o, Now(num, dsum, reg[p]))
        /\ mut1' = mut1
        /\ DOMAIN reg' = Process /\ \A q \in Process \ {p} : reg'[q] = reg[q]
        /\ \/ printed' = printed
           \/ o.op = "print" /\ printed' = printed \cup {<<o.k, dsum>>}
    <3> HIDE DEF o
    <3> QED
      BY <1>0, <1>2, <1>3, <2>3, AccessIsExec
  <2>5. Now(num, dsum, reg[p]) = Run(c)[ip[p] - 1]
    BY <1>0, <2>1 DEF c
  <2>6. Now(num', dsum', reg'[p]) = Run(c)[ip[p]] /\ Run(c)[ip[p]] \in States
    BY <1>2, <1>7, <2>4, <2>5
  <2>7. num' \in [Index -> Int] /\ dsum' \in Int /\ reg'[p] \in Int
    BY <2>6 DEF States, Now
  <2>8. reg' \in [Process -> Int]
    <3>1. reg' = [q \in Process |-> reg'[q]]
      <4>1. \/ reg' = reg
            \/ reg' = [reg EXCEPT ![p] = 0]
            \/ reg' = [reg EXCEPT ![p] = num[o.k]]
            \/ reg' = [reg EXCEPT ![p] = reg[p] + num[o.k]]
        BY <1>2 DEF Mutex, Local, StoreNum, StoreSum
      <4> QED
        BY <1>0, <4>1
    <3> QED
      BY <1>0, <2>4, <2>7, <3>1
  <2>9. \A q \in Process : (mut1' = q <=> Inside(q)')
    BY <1>0, <1>5, <2>1, <2>4
  <2>10. \A q \in Process : ip'[q] \in {0, 1} => reg'[q] = 0
    BY <1>0, <1>5, <2>1, <2>4
  <2>11. \A q \in Process : Inside(q)' => Now(num', dsum', reg'[q]) = Run(codes[q[2]])[ip'[q] - 1]
    BY <1>0, <1>5, <2>1, <2>6 DEF c
  <2>12. ExpectedAnswers'
    <3>1. ASSUME o.op = "print" PROVE dsum = Expected(o.k)
      BY <2>2, <2>5, <3>1 DEF Right, Now
    <3> QED
      BY <1>0, <2>4, <3>1 DEF ExpectedAnswers
  <2>13. mut1' # NoOwner
    BY <1>6, <2>1, <2>4
  <2> QED
    BY <1>0, <2>1, <2>4, <2>7, <2>8, <2>9, <2>10, <2>11, <2>12, <2>13 DEF MutexInv, Now
<1> QED
  BY <1>1, <1>2, <1>8, <1>9, <1>10

(* The invariant holds at first. *)
LEMMA MutexInvInit == Init => MutexInv
<1> SUFFICES ASSUME IrqInit PROVE MutexInv
  BY DEF Init
<1>1. NoOwner \notin Process
  BY DEF NoOwner, Process
<1>2. /\ num = Zeros /\ num \in [Index -> Int] /\ dsum = 0 /\ mut1 = NoOwner /\ printed = {}
      /\ reg \in [Process -> Int] /\ \A p \in Process : reg[p] = 0 /\ ip[p] = 0 /\ ~Inside(p)
  BY DEF IrqInit, Zeros, Index, Inside
<1> QED
  BY <1>1, <1>2 DEF MutexInv, ExpectedAnswers

(* It does not look at anything else. *)
LEMMA MutexStays ==
    ASSUME MutexInv, UNCHANGED irqVars
    PROVE  MutexInv'
<1>1. /\ num' = num /\ dsum' = dsum /\ mut1' = mut1 /\ ip' = ip /\ reg' = reg /\ printed' = printed
  BY DEF irqVars
<1>2. ExpectedAnswers' <=> ExpectedAnswers
  BY <1>1 DEF ExpectedAnswers
<1>3. \A p \in Process : Inside(p)' <=> Inside(p)
  BY <1>1 DEF Inside, End
<1> QED
  BY <1>1, <1>2, <1>3 DEF MutexInv

(* Every step keeps it. *)
LEMMA MutexStep ==
    ASSUME KernelInv, MutexInv, [Next]_vars
    PROVE  MutexInv'
<1>0. IrqInv /\ RefsInv
  BY DEF KernelInv
<1>1. CASE UNCHANGED irqVars
  BY <1>1, MutexStays
<1>2. CASE lab = "lab12" /\ IrqNext
  <2>0. \A p \in Process : End(p) \in Nat \ {0}
    BY EndType
  <2>1. CASE DriverInit
    <3>1. mstate = "none"
      BY <2>1 DEF DriverInit, Insmod
    <3>2. IrqHolders = {}
      BY <1>0, <1>2, <3>1, HeldIsLive DEF Holders
    <3>3. \A p \in Process : p[1] \in Tests /\ p \in Family(p[1])
      BY DEF Process, Family, Parent, Child
    <3>4. \A p \in Process : ~Inside(p)
      BY <2>0, <3>2, <3>3 DEF IrqHolders, Inside
    <3>5. mut1 = NoOwner
      BY <3>4 DEF MutexInv
    <3>6. num' = Zeros /\ num = Zeros /\ dsum' = 0 /\ dsum = 0
      BY <2>1, <3>5 DEF DriverInit, Zeros, MutexInv
    <3> QED
      BY <2>1, <3>6, MutexStays DEF DriverInit, irqVars
  <2>2. CASE DriverExit
    BY <2>2, MutexStays DEF DriverExit
  <2>4. ASSUME NEW t \in Tests, StartTest(t) PROVE MutexInv'
    <3>1. /\ ip[Parent(t)] = 0 /\ ip[Child(t)] = 0
          /\ ip' = [p \in Process |-> IF p \in Family(t) THEN 1 ELSE ip[p]]
          /\ UNCHANGED <<num, dsum, mut1, reg, printed>>
      BY <1>0, <2>4 DEF StartTest, IrqInv
    <3>2. \A p \in Family(t) : ip[p] = 0
      BY <3>1 DEF Family
    <3>3. \A p \in Process : \/ ip'[p] = ip[p]
                             \/ ip'[p] = 1 /\ ip[p] = 0
      BY <3>1, <3>2
    <3>4. \A p \in Process : /\ Inside(p)' <=> Inside(p)
                             /\ Inside(p) => ip'[p] = ip[p]
                             /\ ip'[p] \in {0, 1} <=> ip[p] \in {0, 1}
      BY <3>3 DEF Inside, End
    <3>5. ExpectedAnswers' <=> ExpectedAnswers
      BY <3>1 DEF ExpectedAnswers
    <3> QED
      BY <3>1, <3>4, <3>5 DEF MutexInv
  <2>5. ASSUME NEW p \in Process, Access(p) PROVE MutexInv'
    BY <1>0, <2>5, MutexAccess
  <2>6. ASSUME NEW p \in Process, Close(p) PROVE MutexInv'
    <3>1. /\ ip[p] = End(p) /\ ip' = [ip EXCEPT ![p] = End(p) + 1] /\ ip \in [Process -> Nat]
          /\ UNCHANGED <<num, dsum, mut1, reg, printed>>
      BY <1>0, <2>6 DEF Close, IrqInv
    <3>2. \A q \in Process : \/ ip'[q] = ip[q]
                             \/ q = p /\ ip'[q] = End(q) + 1 /\ ip[q] = End(q)
      BY <3>1
    <3>3. End(p) \in Nat \ {0, 1}
      <4>1. Len(codes[p[2]]) \in Nat \ {0, 1} /\ End(p) = Len(codes[p[2]]) + 1
        BY CodeShape
      <4> QED
        BY <4>1
    <3>4. \A q \in Process : /\ Inside(q)' <=> Inside(q)
                             /\ Inside(q) => ip'[q] = ip[q]
                             /\ ip'[q] \in {0, 1} <=> ip[q] \in {0, 1}
      BY <3>2, <3>3 DEF Inside, End
    <3>5. ExpectedAnswers' <=> ExpectedAnswers
      BY <3>1 DEF ExpectedAnswers
    <3> QED
      BY <3>1, <3>4, <3>5 DEF MutexInv
  <2> QED
    BY <1>2, <2>1, <2>2, <2>4, <2>5, <2>6 DEF IrqNext
<1>3. UNCHANGED irqVars \/ (lab = "lab12" /\ IrqNext)
  BY DEF Next, Alone, vars
<1> QED
  BY <1>1, <1>2, <1>3

(* It holds always. *)
LEMMA MutexInvHolds == Spec => []MutexInv
<1>1. KernelInv /\ MutexInv /\ [Next]_vars => MutexInv'
  BY MutexStep
<1> QED
  BY <1>1, MutexInvInit, KernelInvHolds, PTL DEF Spec

-----------------------------------------------------------------------------

(* Every sum the interrupt driver's tests print is the one they are meant  *)
(* to print, however many tests run at once: the mutex that one ioctl      *)
(* takes and another releases keeps the increments, the sums and the       *)
(* handler of the interrupt of one process apart from those of the others, *)
(* and every process leaves the numbers at zero for the next.              *)
THEOREM AnswersExpected == Spec => []ExpectedAnswers
<1>1. MutexInv => ExpectedAnswers
  BY DEF MutexInv
<1> QED
  BY <1>1, MutexInvHolds, PTL

-----------------------------------------------------------------------------
(* lab10: the name list. *)

(* What From computes with the links nx. *)
Follow(nx, n) ==
    LET walk[k \in 0 .. Cardinality(Nodes) + 1] ==
            IF k = 0 THEN <<n>>
            ELSE IF walk[k - 1][Len(walk[k - 1])] = my_list THEN walk[k - 1]
            ELSE Append(walk[k - 1], nx[walk[k - 1][Len(walk[k - 1])]])
        all == walk[Cardinality(Nodes) + 1]
    IN  SubSeq(all, 1, Len(all) - 1)

(* Chain is what it computes with the links as they are. *)
LEMMA ChainFollows ==
    /\ Chain = Follow(next, next[my_list])
    /\ Chain' = Follow(next', next'[my_list])
<1>1. Chain = Follow(next, next[my_list])
  BY DEF Chain, From, Follow
<1>2. Chain' = Follow(next', next'[my_list])
  BY DEF Chain, From, Follow
<1> QED
  BY <1>1, <1>2

(* The positions of a ring: all different, but for the head at both ends. *)
LEMMA LinkAtType ==
    ASSUME NEW c, Distinct(c)
    PROVE  /\ Len(c) \in Nat
           /\ \A k : LinkAt(c, k) \in Link
           /\ \A k \in 1 .. Len(c) : LinkAt(c, k) = c[k] /\ c[k] \in Nodes /\ c[k] # my_list
           /\ \A k : k \notin 1 .. Len(c) => LinkAt(c, k) = my_list
           /\ \A j, k \in 0 .. Len(c) : LinkAt(c, j) = LinkAt(c, k) => j = k
           /\ \A j, k \in 1 .. Len(c) + 1 : LinkAt(c, j) = LinkAt(c, k) => j = k
<1>1. Len(c) \in Nat /\ \A k \in 1 .. Len(c) : c[k] \in Nodes
  BY DEF Distinct
<1>2. \A k \in 1 .. Len(c) : LinkAt(c, k) = c[k] /\ c[k] \in Nodes /\ c[k] # my_list
  BY <1>1, NameListAssumption DEF LinkAt
<1>3. \A k : k \notin 1 .. Len(c) => LinkAt(c, k) = my_list
  BY DEF LinkAt
<1>4. \A k : LinkAt(c, k) \in Link
  BY <1>2, <1>3 DEF Link
<1>5. ASSUME NEW j \in 0 .. Len(c), NEW k \in 0 .. Len(c), LinkAt(c, j) = LinkAt(c, k) PROVE j = k
  BY <1>1, <1>2, <1>3, <1>5 DEF Distinct
<1>6. ASSUME NEW j \in 1 .. Len(c) + 1, NEW k \in 1 .. Len(c) + 1, LinkAt(c, j) = LinkAt(c, k) PROVE j = k
  BY <1>1, <1>2, <1>3, <1>6 DEF Distinct
<1> QED
  BY <1>1, <1>2, <1>3, <1>4, <1>5, <1>6

(* There are no more nodes on a list than there is memory. *)
LEMMA ListFits ==
    ASSUME NEW c, Distinct(c)
    PROVE  Len(c) <= Cardinality(Nodes) /\ Cardinality(Nodes) \in Nat
<1>1. Len(c) \in Nat /\ c \in [1 .. Len(c) -> Nodes]
  BY DEF Distinct
<1>2. c \in Injection(1 .. Len(c), Nodes)
  BY <1>1 DEF Distinct, Injection, IsInjective
<1>3. Cardinality(1 .. Len(c)) <= Cardinality(Nodes)
  BY <1>2, NameListAssumption, FS_Injection
<1>4. Cardinality(1 .. Len(c)) = Len(c)
  <2> DEFINE n == Len(c)
  <2>1. n \in Nat /\ n \in Int /\ 1 \in Int
    BY <1>1
  <2> HIDE DEF n
  <2>2. Cardinality(1 .. n) = IF 1 > n THEN 0 ELSE n - 1 + 1
    BY <2>1, FS_Interval, ZenonT(40)
  <2> QED
    BY <2>1, <2>2 DEF n
<1>5. Cardinality(Nodes) \in Nat
  BY NameListAssumption, FS_CardinalityType
<1> QED
  BY <1>3, <1>4, <1>5

(* Following the links around the ring finds the list. *)
LEMMA FollowFinds ==
    ASSUME NEW nx, NEW c, Distinct(c), \A k \in 0 .. Len(c) : nx[LinkAt(c, k)] = LinkAt(c, k + 1)
    PROVE  Follow(nx, nx[my_list]) = c
<1> DEFINE N == Cardinality(Nodes) + 1
           Least2(k) == IF k < Len(c) THEN k ELSE Len(c)
           h == [k \in 0 .. N |-> [j \in 1 .. Least2(k) + 1 |-> LinkAt(c, j)]]
           step(g, k) ==
              IF k = 0 THEN <<nx[my_list]>>
              ELSE IF g[k - 1][Len(g[k - 1])] = my_list THEN g[k - 1]
              ELSE Append(g[k - 1], nx[g[k - 1][Len(g[k - 1])]])
           fits(g) == g = [k \in 0 .. N |-> step(g, k)]
<1>1. Len(c) \in Nat /\ N \in Nat /\ Len(c) < N
  BY ListFits, LinkAtType
<1>2. nx[my_list] = LinkAt(c, 1)
  <2>1. LinkAt(c, 0) = my_list /\ 0 \in 0 .. Len(c)
    BY <1>1, LinkAtType
  <2> QED
    BY <2>1
<1>3. ASSUME NEW k \in 0 .. N
      PROVE  /\ h[k] \in Seq(Link) /\ Len(h[k]) = Least2(k) + 1 /\ Least2(k) \in Nat
             /\ \A j \in 1 .. Least2(k) + 1 : h[k][j] = LinkAt(c, j)
  BY <1>1, LinkAtType
<1> HIDE DEF h
<1>4. h[0] = <<nx[my_list]>>
  <2>1. /\ h[0] \in Seq(Link) /\ Len(h[0]) = 1 /\ h[0][1] = LinkAt(c, 1)
    <3>1. 0 \in 0 .. N /\ Least2(0) = 0
      BY <1>1
    <3> HIDE DEF Least2, N
    <3>2. h[0] \in Seq(Link) /\ Len(h[0]) = 0 + 1 /\ \A j \in 1 .. 0 + 1 : h[0][j] = LinkAt(c, j)
      BY <1>3, <3>1
    <3> QED
      BY <3>2
  <2> QED
    BY <1>2, <2>1
<1>5. ASSUME NEW k \in 1 .. N PROVE h[k] = step(h, k)
  <2>0. k - 1 \in 0 .. N /\ k \in 0 .. N
    BY <1>1
  <2> DEFINE u == h[k - 1]
             v == h[k]
  <2>1. /\ u \in Seq(Link) /\ Len(u) = Least2(k - 1) + 1 /\ Least2(k - 1) \in Nat
        /\ \A j \in 1 .. Least2(k - 1) + 1 : u[j] = LinkAt(c, j)
        /\ v \in Seq(Link) /\ Len(v) = Least2(k) + 1 /\ Least2(k) \in Nat
        /\ \A j \in 1 .. Least2(k) + 1 : v[j] = LinkAt(c, j)
    BY <1>3, <2>0
  <2> HIDE DEF u, v
  <2>2. u[Len(u)] = LinkAt(c, Least2(k - 1) + 1)
    BY <2>1
  <2>3. CASE k - 1 >= Len(c)
    <3>1. u[Len(u)] = my_list
      BY <1>1, <2>0, <2>2, <2>3, LinkAtType
    <3>2. Least2(k) = Least2(k - 1)
      BY <1>1, <2>0, <2>3
    <3>3. v = u
      BY <2>1, <3>2
    <3> QED
      BY <1>1, <3>1, <3>3 DEF u, v
  <2>4. CASE k - 1 < Len(c)
    <3>1. Least2(k - 1) = k - 1 /\ Least2(k) = k /\ k \in 1 .. Len(c)
      BY <1>1, <2>0, <2>4
    <3>2. u[Len(u)] = LinkAt(c, k) /\ u[Len(u)] # my_list /\ nx[u[Len(u)]] = LinkAt(c, k + 1)
      BY <1>1, <2>2, <3>1, LinkAtType
    <3>3. LinkAt(c, k + 1) \in Link
      BY LinkAtType
    <3>4. v = Append(u, LinkAt(c, k + 1))
      BY <1>1, <2>1, <3>1, <3>3
    <3> QED
      BY <1>1, <3>2, <3>4 DEF u, v
  <2> QED
    BY <1>1, <2>0, <2>3, <2>4
<1>6. fits(h)
  <2>1. \A k \in 0 .. N : h[k] = step(h, k)
    <3>1. \A k \in 0 .. N : k = 0 \/ k \in 1 .. N
      BY <1>1
    <3>2. h[0] = step(h, 0)
      BY <1>4
    <3>3. \A k \in 1 .. N : h[k] = step(h, k)
      BY <1>5
    <3> HIDE DEF h, step, N
    <3> QED
      BY <3>1, <3>2, <3>3
  <2>2. h = [k \in 0 .. N |-> h[k]]
    BY DEF h
  <2> HIDE DEF step
  <2> QED
    BY <2>1, <2>2
<1> DEFINE g == CHOOSE f : fits(f)
<1> HIDE DEF N
<1>7. fits(g)
  <2> HIDE DEF fits
  <2> QED
    BY <1>6
<1>8. Follow(nx, nx[my_list]) = SubSeq(g[N], 1, Len(g[N]) - 1)
  BY DEF Follow, N
<1> HIDE DEF g
<1> DEFINE Good == {k \in 0 .. N : g[k] = h[k]}
<1>9. \A k \in 0 .. N : g[k] = step(g, k)
  <2> HIDE DEF step
  <2> QED
    BY <1>7
<1>10. 0 \in Good
  BY <1>1, <1>4, <1>9
<1>11. ASSUME NEW k \in 1 .. N, k - 1 \in Good PROVE k \in Good
  <2>1. g[k - 1] = h[k - 1]
    BY <1>11
  <2>2. step(g, k) = step(h, k)
    BY <2>1
  <2> QED
    BY <1>5, <1>9, <2>2
<1> HIDE DEF Good
<1>12. 0 .. N \subseteq Good
  BY <1>1, <1>10, <1>11, UpTo
<1>13. g[N] = h[N] /\ N \in 0 .. N
  BY <1>1, <1>12 DEF Good
<1>14. /\ h[N] \in Seq(Link) /\ Len(h[N]) = Len(c) + 1
       /\ \A j \in 1 .. Len(c) : h[N][j] = c[j]
  BY <1>1, <1>3, <1>13, LinkAtType
<1> DEFINE all == h[N]
           r == SubSeq(all, 1, Len(c))
<1> HIDE DEF all
<1>15. r \in Seq(Link) /\ Len(r) = Len(c) /\ \A j \in 1 .. Len(c) : r[j] = all[j]
  <2>1. \A j \in 1 .. Len(c) : all[j] \in Link
    BY <1>1, <1>14 DEF all
  <2> QED
    BY <1>1, <2>1, SubSeqProperties
<1>16. c \in Seq(Link)
  BY DEF Distinct, Link
<1> HIDE DEF r
<1>17. r = c
  BY <1>14, <1>15, <1>16, SeqEqual DEF all
<1> QED
  BY <1>1, <1>8, <1>13, <1>14, <1>17 DEF r, all

(* A list that the links follow is the chain. *)
LEMMA ChainIs ==
    /\ \A c : Linked(c) => Chain = c
    /\ \A c : Linked(c)' => Chain' = c
<1>1. ASSUME NEW c, Linked(c) PROVE Chain = c
  <2>1. Distinct(c) /\ \A k \in 0 .. Len(c) : next[LinkAt(c, k)] = LinkAt(c, k + 1)
    BY <1>1 DEF Linked
  <2> QED
    BY <2>1, ChainFollows, FollowFinds
<1>2. ASSUME NEW c, Linked(c)' PROVE Chain' = c
  <2>1. Distinct(c) /\ \A k \in 0 .. Len(c) : next'[LinkAt(c, k)] = LinkAt(c, k + 1)
    BY <1>2 DEF Linked, Distinct, LinkAt
  <2> QED
    BY <2>1, ChainFollows, FollowFinds
<1> QED
  BY <1>1, <1>2

(* The list with n behind its first p nodes, and without its kth node. *)
Inserted(c, p, n) ==
    [j \in 1 .. Len(c) + 1 |-> IF j <= p THEN c[j] ELSE IF j = p + 1 THEN n ELSE c[j - 1]]

Removed(c, k) == [j \in 1 .. Len(c) - 1 |-> IF j < k THEN c[j] ELSE c[j + 1]]

(* The positions of the longer list, in terms of the shorter one. *)
LEMMA InsertedAt ==
    ASSUME NEW c, Distinct(c), NEW p \in 0 .. Len(c), NEW n \in Nodes,
           \A k \in 1 .. Len(c) : c[k] # n
    PROVE  /\ Distinct(Inserted(c, p, n)) /\ Len(Inserted(c, p, n)) = Len(c) + 1
           /\ \A j \in 0 .. p : LinkAt(Inserted(c, p, n), j) = LinkAt(c, j)
           /\ LinkAt(Inserted(c, p, n), p + 1) = n
           /\ \A j \in p + 1 .. Len(c) + 1 : LinkAt(Inserted(c, p, n), j + 1) = LinkAt(c, j)
           /\ \A j \in 1 .. p : Inserted(c, p, n)[j] = c[j]
           /\ Inserted(c, p, n)[p + 1] = n
           /\ \A j \in p + 1 .. Len(c) : Inserted(c, p, n)[j + 1] = c[j]
<1> DEFINE d == Inserted(c, p, n)
<1>1. Len(c) \in Nat /\ \A k \in 1 .. Len(c) : c[k] \in Nodes
  BY DEF Distinct
<1>2. d \in Seq(Nodes) /\ Len(d) = Len(c) + 1
  BY <1>1 DEF Inserted
<1>3. /\ \A j \in 1 .. p : d[j] = c[j]
      /\ d[p + 1] = n
      /\ \A j \in p + 1 .. Len(c) : d[j + 1] = c[j]
  BY <1>1 DEF Inserted
<1> HIDE DEF d
<1>4. ASSUME NEW j \in 1 .. Len(d)
      PROVE  \/ j \in 1 .. p /\ d[j] = c[j]
             \/ j = p + 1 /\ d[j] = n
             \/ j - 1 \in p + 1 .. Len(c) /\ d[j] = c[j - 1]
  <2>1. CASE j > p + 1
    <3>1. j - 1 \in p + 1 .. Len(c) /\ j - 1 + 1 = j
      BY <1>1, <1>2, <2>1
    <3> QED
      BY <1>3, <3>1
  <2>2. CASE j <= p + 1
    BY <1>1, <1>2, <1>3, <2>2
  <2> QED
    BY <1>1, <1>2, <2>1, <2>2
<1>5. ASSUME NEW j \in 1 .. Len(d), NEW k \in 1 .. Len(d), d[j] = d[k] PROVE j = k
  <2> DEFINE old(i) == IF i <= p THEN i ELSE i - 1
  <2>1. \A i \in 1 .. Len(d) : i # p + 1 => old(i) \in 1 .. Len(c) /\ d[i] = c[old(i)]
    BY <1>1, <1>2, <1>4
  <2>2. \A i, m \in 1 .. Len(d) : i # p + 1 /\ m # p + 1 /\ old(i) = old(m) => i = m
    BY <1>1, <1>2
  <2> HIDE DEF old
  <2>3. \A i \in 1 .. Len(d) : i # p + 1 => d[i] # n
    BY <2>1
  <2>4. CASE j # p + 1 /\ k # p + 1
    <3>1. old(j) = old(k)
      BY <1>5, <2>1, <2>4 DEF Distinct
    <3> QED
      BY <2>2, <2>4, <3>1
  <2> QED
    BY <1>3, <1>5, <2>3, <2>4
<1>6. Distinct(d)
  BY <1>2, <1>5 DEF Distinct
<1>7. \A j \in 0 .. p : LinkAt(d, j) = LinkAt(c, j)
  BY <1>1, <1>2, <1>3 DEF LinkAt
<1>8. LinkAt(d, p + 1) = n
  BY <1>1, <1>2, <1>3 DEF LinkAt
<1>9. ASSUME NEW j \in p + 1 .. Len(c) + 1 PROVE LinkAt(d, j + 1) = LinkAt(c, j)
  BY <1>1, <1>2, <1>3 DEF LinkAt
<1> QED
  BY <1>2, <1>3, <1>6, <1>7, <1>8, <1>9 DEF d

(* The positions of the shorter list, in terms of the longer one. *)
LEMMA RemovedAt ==
    ASSUME NEW c, Distinct(c), NEW k \in 1 .. Len(c)
    PROVE  /\ Distinct(Removed(c, k)) /\ Len(Removed(c, k)) = Len(c) - 1
           /\ \A j \in 0 .. k - 1 : LinkAt(Removed(c, k), j) = LinkAt(c, j)
           /\ \A j \in k .. Len(c) : LinkAt(Removed(c, k), j) = LinkAt(c, j + 1)
           /\ \A j \in 1 .. k - 1 : Removed(c, k)[j] = c[j]
           /\ \A j \in k .. Len(c) - 1 : Removed(c, k)[j] = c[j + 1]
           /\ \A j \in 1 .. Len(c) - 1 : Removed(c, k)[j] # c[k]
<1> DEFINE d == Removed(c, k)
<1>1. Len(c) \in Nat /\ \A j \in 1 .. Len(c) : c[j] \in Nodes
  BY DEF Distinct
<1>2. d \in Seq(Nodes) /\ Len(d) = Len(c) - 1
  BY <1>1 DEF Removed
<1>3. /\ \A j \in 1 .. k - 1 : d[j] = c[j]
      /\ \A j \in k .. Len(c) - 1 : d[j] = c[j + 1]
  BY <1>1 DEF Removed
<1> HIDE DEF d
<1>5. ASSUME NEW j \in 1 .. Len(d), NEW m \in 1 .. Len(d), d[j] = d[m] PROVE j = m
  <2>1. \A i \in 1 .. Len(d) : \/ i \in 1 .. k - 1 /\ i \in 1 .. Len(c) /\ d[i] = c[i]
                               \/ i \in k .. Len(c) - 1 /\ i + 1 \in 1 .. Len(c) /\ d[i] = c[i + 1]
    BY <1>1, <1>2, <1>3
  <2> QED
    BY <1>1, <1>2, <1>5, <2>1 DEF Distinct
<1>6. Distinct(d)
  BY <1>2, <1>5 DEF Distinct
<1>7. \A j \in 0 .. k - 1 : LinkAt(d, j) = LinkAt(c, j)
  BY <1>1, <1>2, <1>3 DEF LinkAt
<1>8. \A j \in k .. Len(c) : LinkAt(d, j) = LinkAt(c, j + 1)
  BY <1>1, <1>2, <1>3 DEF LinkAt
<1>9. \A j \in 1 .. Len(c) - 1 : d[j] # c[k]
  BY <1>1, <1>3 DEF Distinct
<1> QED
  BY <1>2, <1>3, <1>6, <1>7, <1>8, <1>9 DEF d

(* The names other than nm, as equations. *)
LEMMA OthersDefined ==
    ASSUME NEW S, NEW s \in Seq(S), NEW nm
    PROVE  /\ Others(s, nm) \in [0 .. Len(s) -> Seq(S)]
           /\ Others(s, nm)[0] = <<>>
           /\ \A m \in 1 .. Len(s) : Others(s, nm)[m] =
                 IF s[m] = nm THEN Others(s, nm)[m - 1] ELSE Append(Others(s, nm)[m - 1], s[m])
<1> DEFINE F == [x \in (1 .. Len(s)) \X Seq(S) |-> IF s[x[1]] = nm THEN x[2] ELSE Append(x[2], s[x[1]])]
           step(g, m) == IF m = 0 THEN <<>>
                         ELSE IF s[m] = nm THEN g[m - 1] ELSE Append(g[m - 1], s[m])
<1>1. F \in [(1 .. Len(s)) \X Seq(S) -> Seq(S)]
  <2>1. ASSUME NEW m \in 1 .. Len(s), NEW u \in Seq(S) PROVE Append(u, s[m]) \in Seq(S)
    BY AppendProperties
  <2> QED
    BY <2>1
<1>2. Len(s) \in Nat /\ <<>> \in Seq(S)
  OBVIOUS
<1>3. PICK h : Follows(h, Len(s), Seq(S), <<>>, F)
  <2> HIDE DEF F
  <2> QED
    BY <1>1, <1>2, Recursion
<1>4. /\ h \in [0 .. Len(s) -> Seq(S)] /\ h[0] = <<>>
      /\ \A n \in 1 .. Len(s) : h[n] = F[<<n, h[n - 1]>>]
  <2> HIDE DEF F
  <2> QED
    BY <1>3 DEF Follows
<1>5. ASSUME NEW n \in 1 .. Len(s) PROVE h[n] = step(h, n)
  <2>1. n - 1 \in 0 .. Len(s) /\ n # 0
    BY <1>2
  <2>2. h[n - 1] \in Seq(S)
    BY <1>4, <2>1
  <2>3. <<n, h[n - 1]>> \in (1 .. Len(s)) \X Seq(S)
    BY <2>2
  <2>4. F[<<n, h[n - 1]>>] = IF s[n] = nm THEN h[n - 1] ELSE Append(h[n - 1], s[n])
    BY <2>3
  <2> QED
    BY <1>4, <2>1, <2>4
<1> HIDE DEF F
<1>6. \A n \in 0 .. Len(s) : h[n] = step(h, n)
  <2>1. h[0] = step(h, 0)
    BY <1>4
  <2> HIDE DEF step
  <2> QED
    BY <1>2, <1>5, <2>1
<1>7. h = [n \in 0 .. Len(s) |-> h[n]]
  BY <1>4
<1> DEFINE fits(g) == g = [n \in 0 .. Len(s) |-> step(g, n)]
<1> HIDE DEF step
<1>8. fits(h)
  BY <1>6, <1>7
<1>9. Others(s, nm) = CHOOSE g : fits(g)
  BY DEF Others, step
<1> DEFINE g == Others(s, nm)
<1>10. fits(g)
  <2> HIDE DEF fits
  <2> QED
    BY <1>8, <1>9
<1> HIDE DEF g
<1>11. \A n \in 0 .. Len(s) : g[n] = step(g, n)
  BY <1>10
<1>12. g = [n \in 0 .. Len(s) |-> g[n]]
  BY <1>10
<1> DEFINE Good == {n \in 0 .. Len(s) : g[n] \in Seq(S)}
<1>14. 0 \in Good
  <2>1. 0 \in 0 .. Len(s) /\ step(g, 0) = <<>>
    BY <1>2 DEF step
  <2> QED
    BY <1>2, <1>11, <2>1
<1>15. ASSUME NEW n \in 1 .. Len(s), n - 1 \in Good PROVE n \in Good
  <2>1. g[n - 1] \in Seq(S) /\ n \in 0 .. Len(s) /\ s[n] \in S /\ n # 0
    BY <1>2, <1>15
  <2>2. Append(g[n - 1], s[n]) \in Seq(S)
    BY <2>1, AppendProperties
  <2>3. g[n] \in Seq(S)
    BY <1>11, <2>1, <2>2 DEF step
  <2> QED
    BY <2>1, <2>3
<1> HIDE DEF Good
<1>16. 0 .. Len(s) \subseteq Good
  BY <1>2, <1>14, <1>15, UpTo
<1>17. g \in [0 .. Len(s) -> Seq(S)]
  BY <1>12, <1>16 DEF Good
<1>18. g[0] = <<>> /\ \A n \in 1 .. Len(s) : n \in 0 .. Len(s) /\ n # 0 /\ g[n] = step(g, n)
  BY <1>2, <1>11 DEF step
<1> QED
  BY <1>17, <1>18 DEF g, step

(* Between the commands of one writer nothing stands. *)
LEMMA OthersIdle ==
    ASSUME NEW c, OnList(c), NEW w \in Writers, Busy(w)
    PROVE  \A v \in Writers \ {w} : writer[v].pc = "idle"
BY DEF OnList, Busy

(* Where a new node goes: how many nodes are in front of it. *)
Place(inst, c) == IF inst = "addf" THEN 0 ELSE Len(c)

(* What the last store of an addition leaves. *)
LEMMA PublishStep ==
    ASSUME ListTypes, NEW c, OnList(c), NEW w \in Writers, Publish(w),
           NEW p, p = Place(writer[w].inst, c), NEW n, n = writer[w].i
    PROVE  /\ p \in 0 .. Len(c) /\ n \in Nodes /\ \A k \in 1 .. Len(c) : c[k] # n
           /\ OnList(Inserted(c, p, n))'
<1> DEFINE d == Inserted(c, p, n)
<1>1. /\ Linked(c) /\ Distinct(c) /\ WriterInv(w, c) /\ ReaderInv(c)
      /\ \A k \in 1 .. Len(c) : name[c[k]] \in Names
      /\ \A k \in 0 .. Len(c) : next[LinkAt(c, k)] = LinkAt(c, k + 1)
  BY DEF OnList, Linked
<1>2. /\ writer[w].pc = "publish" /\ next' = [next EXCEPT ![writer[w].tmp] = writer[w].i]
      /\ writer' = [writer EXCEPT ![w] = Idle]
      /\ prev' = prev /\ name' = name /\ reader' = reader /\ raced' = raced
  BY DEF Publish
<1>3. Unpublished(w, c) /\ writer[w].inst \in {"addf", "adde"} /\ writer[w].arg \in Names
  BY <1>1, <1>2 DEF WriterInv
<1>4. /\ n \in Nodes /\ name[n] = writer[w].arg /\ \A k \in 1 .. Len(c) : c[k] # n
      /\ writer[w].tmp = LinkAt(c, p)
      /\ next[n] = LinkAt(c, p + 1) /\ prev[n] = LinkAt(c, p) /\ prev[LinkAt(c, p + 1)] = n
      /\ \A k \in (0 .. Len(c)) \ {p} : Back(c, k)
  BY <1>3 DEF Unpublished, Place
<1>5. Len(c) \in Nat /\ p \in 0 .. Len(c)
  BY <1>1, LinkAtType DEF Place
<1>6. /\ Distinct(d) /\ Len(d) = Len(c) + 1
      /\ \A j \in 0 .. p : LinkAt(d, j) = LinkAt(c, j)
      /\ LinkAt(d, p + 1) = n
      /\ \A j \in p + 1 .. Len(c) + 1 : LinkAt(d, j + 1) = LinkAt(c, j)
      /\ \A j \in 1 .. p : d[j] = c[j]
      /\ d[p + 1] = n
      /\ \A j \in p + 1 .. Len(c) : d[j + 1] = c[j]
  BY <1>1, <1>4, <1>5, InsertedAt
<1> HIDE DEF d
<1>7. /\ \A k : LinkAt(c, k) \in Link
      /\ \A k \in 1 .. Len(c) : LinkAt(c, k) = c[k] /\ c[k] \in Nodes /\ c[k] # my_list
      /\ \A j, k \in 0 .. Len(c) : LinkAt(c, j) = LinkAt(c, k) => j = k
      /\ \A k : k \notin 1 .. Len(c) => LinkAt(c, k) = my_list
      /\ n # my_list
  BY <1>1, <1>4, LinkAtType, NameListAssumption
<1>8. \A k : LinkAt(c, k) # n
  BY <1>4, <1>5, <1>7
<1>9. next \in [Link -> Link] /\ writer \in [Writers -> WriterType]
  BY DEF ListTypes, ListTypeOK
<1>10. /\ next'[LinkAt(c, p)] = n
       /\ \A l \in Link : l # LinkAt(c, p) => next'[l] = next[l]
  BY <1>2, <1>4, <1>7, <1>9
<1>11. ASSUME NEW k \in 0 .. Len(d) PROVE next'[LinkAt(d, k)] = LinkAt(d, k + 1)
  <2>1. CASE k < p
    <3>1. /\ LinkAt(d, k) = LinkAt(c, k) /\ LinkAt(d, k + 1) = LinkAt(c, k + 1)
          /\ LinkAt(c, k) # LinkAt(c, p) /\ next[LinkAt(c, k)] = LinkAt(c, k + 1)
      BY <1>1, <1>5, <1>6, <1>7, <2>1
    <3> QED
      BY <1>7, <1>10, <3>1
  <2>2. CASE k = p
    BY <1>5, <1>6, <1>10, <2>2
  <2>3. CASE k = p + 1
    <3>1. LinkAt(d, k) = n /\ LinkAt(d, k + 1) = LinkAt(c, p + 1)
      BY <1>5, <1>6, <2>3
    <3> QED
      BY <1>4, <1>8, <1>10, <3>1 DEF Link
  <2>4. CASE k > p + 1
    <3>1. k - 1 \in p + 1 .. Len(c) + 1 /\ k \in p + 1 .. Len(c) + 1 /\ k - 1 \in 0 .. Len(c) /\ k - 1 + 1 = k
          /\ k - 1 # p
      BY <1>5, <1>6, <2>4
    <3>2. /\ LinkAt(d, k) = LinkAt(c, k - 1) /\ LinkAt(d, k + 1) = LinkAt(c, k)
          /\ LinkAt(c, k - 1) # LinkAt(c, p) /\ next[LinkAt(c, k - 1)] = LinkAt(c, k)
      BY <1>1, <1>5, <1>6, <1>7, <3>1
    <3> QED
      BY <1>7, <1>10, <3>2
  <2> QED
    BY <1>5, <1>6, <2>1, <2>2, <2>3, <2>4
<1>12. Linked(d)'
  <2>1. ASSUME NEW k \in 1 .. Len(d) PROVE name'[d[k]] \in Names
    <3>1. CASE k <= p
      BY <1>1, <1>2, <1>5, <1>6, <3>1
    <3>2. CASE k = p + 1
      BY <1>2, <1>3, <1>4, <1>6, <3>2
    <3>3. CASE k > p + 1
      <4>1. k - 1 \in p + 1 .. Len(c) /\ k - 1 \in 1 .. Len(c) /\ k - 1 + 1 = k
        BY <1>5, <1>6, <3>3
      <4> QED
        BY <1>1, <1>2, <1>6, <4>1
    <3> QED
      BY <1>5, <1>6, <3>1, <3>2, <3>3
  <2> QED
    BY <1>6, <1>11, <2>1 DEF Linked, LinkAt, Distinct
<1>13. ASSUME NEW k \in 0 .. Len(d) PROVE prev'[LinkAt(d, k + 1)] = LinkAt(d, k)
  <2>0. \A j \in 0 .. Len(c) : j # p => prev[LinkAt(c, j + 1)] = LinkAt(c, j)
    BY <1>4 DEF Back
  <2>1. CASE k < p
    <3>1. LinkAt(d, k) = LinkAt(c, k) /\ LinkAt(d, k + 1) = LinkAt(c, k + 1) /\ k \in 0 .. Len(c) /\ k # p
      BY <1>5, <1>6, <2>1
    <3> QED
      BY <1>2, <2>0, <3>1
  <2>2. CASE k = p
    BY <1>2, <1>4, <1>5, <1>6, <2>2
  <2>3. CASE k = p + 1
    <3>1. LinkAt(d, k) = n /\ LinkAt(d, k + 1) = LinkAt(c, p + 1)
      BY <1>5, <1>6, <2>3
    <3> QED
      BY <1>2, <1>4, <3>1
  <2>4. CASE k > p + 1
    <3>1. k - 1 \in p + 1 .. Len(c) + 1 /\ k \in p + 1 .. Len(c) + 1 /\ k - 1 \in 0 .. Len(c) /\ k - 1 + 1 = k
          /\ k - 1 # p
      BY <1>5, <1>6, <2>4
    <3>2. LinkAt(d, k) = LinkAt(c, k - 1) /\ LinkAt(d, k + 1) = LinkAt(c, k)
      BY <1>6, <3>1
    <3>3. prev[LinkAt(c, k)] = LinkAt(c, k - 1)
      BY <2>0, <3>1
    <3> QED
      BY <1>2, <3>2, <3>3
  <2> QED
    BY <1>5, <1>6, <2>1, <2>2, <2>3, <2>4
<1>14. \A k \in 0 .. Len(d) : Back(d, k)'
  BY <1>13 DEF Back, LinkAt
<1>15. \A v \in Writers : writer'[v].pc = "idle"
  <2>1. \A v \in Writers \ {w} : writer[v].pc = "idle"
    BY <1>2, OthersIdle DEF Busy
  <2> QED
    BY <1>2, <1>9, <2>1 DEF Idle
<1>16. \A v \in Writers : WriterInv(v, d)'
  BY <1>15 DEF WriterInv
<1>17. ReaderInv(d)'
  <2>1. CASE ~reader.on
    BY <1>1, <1>2, <2>1 DEF ReaderInv, Off
  <2>2. CASE reader.on
    <3> DEFINE s == Len(reader.shown)
               t == Len(reader.start)
    <3>0. s \in Nat /\ t \in Nat
      BY DEF ListTypes, ReaderType
    <3>1. PICK b \in 0 .. Len(c) :
                /\ b + s <= Len(c)
                /\ \A k \in 1 .. s : reader.shown[k] = c[b + k]
                /\ reader.at \in {LinkAt(c, b + s + 1), my_list}
                /\ b + t <= Len(c)
                /\ \A k \in 1 .. t : reader.start[k] = c[b + k]
                /\ reader.at = my_list => t <= s
      BY <1>1, <2>2 DEF ReaderInv
    <3> DEFINE e == IF writer[w].inst = "addf" THEN b + 1 ELSE b
    <3> HIDE DEF s, t
    <3>2. /\ e \in 0 .. Len(d) /\ e + s <= Len(d) /\ e + t <= Len(d)
      <4>1. b \in Nat /\ b + s <= Len(c) /\ b + t <= Len(c) /\ Len(d) = Len(c) + 1
        BY <1>5, <1>6, <3>1
      <4>2. e = b \/ e = b + 1
        OBVIOUS
      <4> HIDE DEF e
      <4> QED
        BY <1>5, <3>0, <4>1, <4>2
    <3>3. \A k \in 1 .. Len(c) - b : d[e + k] = c[b + k]
      <4> TAKE k \in 1 .. Len(c) - b
      <4>1. b + k \in 1 .. Len(c) /\ b + 1 + k = b + k + 1
        BY <1>5, <3>1
      <4>2. CASE writer[w].inst = "addf"
        <5>1. e = b + 1 /\ p = 0
          BY <4>2 DEF Place
        <5>2. b + k \in p + 1 .. Len(c) /\ e + k = b + k + 1
          BY <4>1, <5>1
        <5> HIDE DEF e
        <5> QED
          BY <1>6, <5>2
      <4>3. CASE writer[w].inst # "addf"
        <5>1. e = b /\ p = Len(c)
          BY <4>3 DEF Place
        <5>2. b + k \in 1 .. p /\ e + k = b + k
          BY <4>1, <5>1
        <5> HIDE DEF e
        <5> QED
          BY <1>6, <5>2
      <4> QED
        BY <4>2, <4>3
    <3>4. reader.at \in {LinkAt(d, e + s + 1), my_list}
      <4>1. CASE writer[w].inst = "addf"
        <5>0. e = b + 1 /\ p = 0
          BY <4>1 DEF Place
        <5>1. p = 0 /\ b + s + 1 \in p + 1 .. Len(c) + 1 /\ e + s + 1 = b + s + 1 + 1
          BY <1>5, <3>0, <3>1, <5>0
        <5> QED
          BY <1>6, <3>1, <5>1
      <4>2. CASE writer[w].inst # "addf" /\ b + s < Len(c)
        <5>1. p = Len(c) /\ b + s + 1 \in 0 .. p /\ e = b
          BY <1>5, <3>0, <3>1, <4>2 DEF Place
        <5> QED
          BY <1>6, <3>1, <5>1
      <4>3. CASE b + s = Len(c)
        <5>1. b + s + 1 \notin 1 .. Len(c)
          BY <1>5, <3>0, <4>3
        <5> QED
          BY <1>7, <3>1, <5>1
      <4> QED
        BY <1>5, <3>0, <3>1, <4>1, <4>2, <4>3
    <3> HIDE DEF e
    <3>5. /\ \A k \in 1 .. s : reader.shown[k] = d[e + k]
          /\ \A k \in 1 .. t : reader.start[k] = d[e + k]
      <4>1. \A k \in 1 .. s : k \in 1 .. Len(c) - b
        BY <1>5, <3>0, <3>1
      <4>2. \A k \in 1 .. t : k \in 1 .. Len(c) - b
        BY <1>5, <3>0, <3>1
      <4> QED
        BY <3>1, <3>3, <4>1, <4>2
    <3>6. \A v \in Writers : writer'[v].pc # "walk"
      BY <1>15
    <3>7. reader'.on /\ \E a \in 0 .. Len(d) :
                /\ a + Len(reader'.shown) <= Len(d)
                /\ \A k \in 1 .. Len(reader'.shown) : reader'.shown[k] = d[a + k]
                /\ reader'.at \in {LinkAt(d, a + Len(reader'.shown) + 1), my_list}
                /\ a + Len(reader'.start) <= Len(d)
                /\ \A k \in 1 .. Len(reader'.start) : reader'.start[k] = d[a + k]
                /\ reader'.at = my_list => Len(reader'.start) <= Len(reader'.shown)
      BY <1>2, <2>2, <3>1, <3>2, <3>4, <3>5 DEF s, t
    <3> QED
      BY <3>6, <3>7 DEF ReaderInv, LinkAt
  <2> QED
    BY <2>1, <2>2
<1>18. OnList(d)'
  BY <1>12, <1>14, <1>15, <1>16, <1>17 DEF OnList, Busy
<1> QED
  BY <1>4, <1>5, <1>18 DEF d

(* A new node is linked: those on the list do not lead to it yet. *)
LEMMA AddStep ==
    ASSUME ListTypes, NEW c, OnList(c), NEW w \in Writers, Add(w)
    PROVE  OnList(c)' /\ writer'[w].pc = "publish"
<1>1. /\ Linked(c) /\ Distinct(c) /\ WriterInv(w, c) /\ ReaderInv(c)
      /\ \A k \in 1 .. Len(c) : name[c[k]] \in Names
      /\ \A k \in 0 .. Len(c) : next[LinkAt(c, k)] = LinkAt(c, k + 1)
  BY DEF OnList, Linked
<1>2. /\ next \in [Link -> Link] /\ prev \in [Link -> Link] /\ name \in [Nodes -> Names \cup {"free"}]
      /\ writer \in [Writers -> WriterType]
  BY DEF ListTypes, ListTypeOK
<1> DEFINE p == Place(writer[w].inst, c)
<1>3. /\ Len(c) \in Nat
      /\ \A k : LinkAt(c, k) \in Link
      /\ \A k \in 1 .. Len(c) : LinkAt(c, k) = c[k] /\ c[k] \in Nodes /\ c[k] # my_list
      /\ \A j, k \in 1 .. Len(c) + 1 : LinkAt(c, j) = LinkAt(c, k) => j = k
      /\ \A k : k \notin 1 .. Len(c) => LinkAt(c, k) = my_list
  BY <1>1, LinkAtType
<1>4. /\ writer[w].pc = "link" /\ writer[w].inst \in {"addf", "adde"} /\ writer[w].arg \in Names
      /\ writer[w].before = NamesOf(c)
  BY <1>1 DEF Add, WriterInv
<1>5. \A v \in Writers \ {w} : writer[v].pc = "idle"
  BY <1>4, OthersIdle DEF Busy
<1>6. \A k \in 0 .. Len(c) : Back(c, k)
  BY <1>4, <1>5 DEF OnList
<1>7. p \in 0 .. Len(c)
  BY <1>3 DEF Place
<1> DEFINE before == LinkAt(c, p)
           after  == LinkAt(c, p + 1)
<1>8. before = IF writer[w].inst = "addf" THEN my_list ELSE prev[my_list]
  <2>1. LinkAt(c, 0) = my_list /\ LinkAt(c, Len(c) + 1) = my_list
    BY <1>3
  <2>2. prev[LinkAt(c, Len(c) + 1)] = LinkAt(c, Len(c))
    BY <1>3, <1>6 DEF Back
  <2> QED
    BY <2>1, <2>2 DEF Place
<1>9. next[before] = after
  BY <1>1, <1>7
<1> HIDE DEF p
<1>10. PICK n \in Free :
          /\ name' = [name EXCEPT ![n] = writer[w].arg]
          /\ next' = [next EXCEPT ![n] = after]
          /\ prev' = [prev EXCEPT ![n] = before, ![after] = n]
          /\ writer' = [writer EXCEPT ![w].pc = "publish", ![w].i = n, ![w].tmp = before]
          /\ reader' = reader /\ raced' = raced
  <2> HIDE DEF before, after
  <2> QED
    BY <1>8, <1>9 DEF Add, LinkNew
<1>11. /\ n \in Nodes /\ n \in Link /\ n # my_list /\ name[n] = "free"
       /\ \A k \in 1 .. Len(c) : c[k] # n
  BY <1>1, NameListAssumption DEF Free, Link
<1>12. \A k : LinkAt(c, k) # n
  BY <1>3, <1>11
<1>13. /\ \A l \in Nodes \ {n} : name'[l] = name[l]
       /\ name'[n] = writer[w].arg
       /\ \A l \in Link \ {n} : next'[l] = next[l]
       /\ next'[n] = after
  BY <1>2, <1>10, <1>11
<1>14. /\ prev'[n] = before /\ prev'[after] = n
       /\ \A l \in Link : l # n /\ l # after => prev'[l] = prev[l]
  <2>1. after \in Link /\ after # n /\ before \in Link
    BY <1>3, <1>12
  <2> HIDE DEF after, before
  <2> QED
    BY <1>2, <1>10, <1>11, <2>1
<1>15. \A k \in 0 .. Len(c) : next'[LinkAt(c, k)] = LinkAt(c, k + 1)
  BY <1>1, <1>3, <1>12, <1>13
<1>16. \A k \in 1 .. Len(c) : name'[c[k]] = name[c[k]]
  BY <1>3, <1>11, <1>13
<1>17. Linked(c)'
  BY <1>1, <1>15, <1>16 DEF Linked, LinkAt, Distinct
<1>18. ASSUME NEW k \in (0 .. Len(c)) \ {p} PROVE prev'[LinkAt(c, k + 1)] = LinkAt(c, k)
  <2>1. LinkAt(c, k + 1) # after
    BY <1>3, <1>7
  <2> HIDE DEF after
  <2> QED
    BY <1>3, <1>6, <1>12, <1>14, <2>1 DEF Back
<1>19. /\ writer'[w].pc = "publish" /\ writer'[w].i = n /\ writer'[w].tmp = before
       /\ writer'[w].inst = writer[w].inst /\ writer'[w].arg = writer[w].arg
       /\ writer'[w].before = writer[w].before
       /\ \A v \in Writers \ {w} : writer'[v] = writer[v]
  BY <1>2, <1>10 DEF WriterType
<1>20. p = IF writer'[w].inst = "addf" THEN 0 ELSE Len(c)
  BY <1>19 DEF p, Place
<1>21. Unpublished(w, c)'
  BY <1>11, <1>13, <1>14, <1>18, <1>19, <1>20 DEF Unpublished, Back, LinkAt
<1>22. NamesOf(c)' = NamesOf(c)
  <2>1. DOMAIN c = 1 .. Len(c)
    BY <1>1 DEF Distinct
  <2> QED
    BY <1>16, <2>1 DEF NamesOf
<1>23. WriterInv(w, c)'
  BY <1>4, <1>19, <1>21, <1>22 DEF WriterInv
<1>24. \A v \in Writers : WriterInv(v, c)'
  BY <1>5, <1>19, <1>23 DEF WriterInv
<1>25. ReaderInv(c)'
  <2>1. \A v \in Writers : writer'[v].pc # "walk"
    BY <1>5, <1>19
  <2> QED
    BY <1>1, <1>10, <2>1 DEF ReaderInv, LinkAt, Off
<1>26. OnList(c)'
  BY <1>5, <1>17, <1>19, <1>24, <1>25 DEF OnList, Busy
<1> QED
  BY <1>19, <1>26

(* A command begins while no other is under way. *)
LEMMA WriteStep ==
    ASSUME ListTypes, NEW c, OnList(c), NEW w \in Writers, NEW inst \in Insts, NEW nm \in Names,
           ListWrite(w, inst, nm), ~raced'
    PROVE  OnList(c)' /\ Busy(w)'
<1>1. /\ Linked(c) /\ Distinct(c) /\ ReaderInv(c) /\ Chain = c
      /\ \A k \in 1 .. Len(c) : name[c[k]] \in Names
      /\ \A k \in 0 .. Len(c) : next[LinkAt(c, k)] = LinkAt(c, k + 1)
  BY ChainIs DEF OnList, Linked
<1>2. writer \in [Writers -> WriterType]
  BY DEF ListTypes, ListTypeOK
<1>3. /\ Len(c) \in Nat /\ DOMAIN c = 1 .. Len(c)
      /\ \A k : k \notin 1 .. Len(c) => LinkAt(c, k) = my_list
      /\ \A k \in 1 .. Len(c) : LinkAt(c, k) = c[k]
  BY <1>1, LinkAtType DEF Distinct
<1> DEFINE pc   == IF Deletes(inst) THEN "walk" ELSE "link"
           new  == [pc |-> pc, inst |-> inst, arg |-> nm, i |-> next[my_list],
                    tmp |-> next[next[my_list]], before |-> NamesOf(c)]
<1>4. /\ ~Busy(w) /\ \A v \in Writers \ {w} : ~Busy(v)
      /\ ~(reader.on /\ Deletes(inst))
      /\ writer' = [writer EXCEPT ![w] = new]
      /\ next' = next /\ prev' = prev /\ name' = name /\ reader' = reader
  BY <1>1 DEF ListWrite
<1>5. writer'[w] = new /\ \A v \in Writers \ {w} : writer'[v] = writer[v]
  BY <1>2, <1>4
<1>6. \A v \in Writers : writer[v].pc = "idle"
  BY <1>4 DEF Busy
<1> DEFINE s == NamesOf(c)
<1>7. s \in Seq(Names) /\ Len(s) = Len(c) /\ \A k \in 1 .. Len(c) : s[k] = name[c[k]]
  BY <1>1, <1>3 DEF NamesOf
<1>8. NamesOf(c)' = s
  BY <1>4 DEF NamesOf
<1>9. LinkAt(c, 0) = my_list /\ next[my_list] = LinkAt(c, 1)
  BY <1>1, <1>3
<1>10. Linked(c)'
  BY <1>1, <1>4 DEF Linked, LinkAt, Distinct
<1>11. \A k \in 0 .. Len(c) : Back(c, k)'
  <2>1. \A k \in 0 .. Len(c) : Back(c, k)
    BY <1>6 DEF OnList
  <2> QED
    BY <1>4, <2>1 DEF Back, LinkAt
<1>12. ASSUME pc = "walk" PROVE inst \in {"delf", "dela"} /\ Walked(w, c)'
  <2>0. inst \in {"delf", "dela"}
    BY <1>12 DEF Deletes
  <2>1. Others(s, nm)[0] = <<>>
    BY <1>7, OthersDefined
  <2>2. /\ writer'[w].before = s /\ writer'[w].arg = nm /\ writer'[w].i = LinkAt(c, 1)
        /\ writer'[w].tmp = next'[LinkAt(c, 1)] /\ writer'[w].inst = inst
    BY <1>4, <1>5, <1>9
  <2> HIDE DEF s
  <2> DEFINE kept == Others(s, nm)
  <2>3. /\ Len(kept[0]) = 1 - 1 /\ \A j \in 1 .. 1 - 1 : name'[c[j]] = kept[0][j]
    BY <2>1
  <2>4. /\ Len(c) = 1 - 1 + Len(s) - 0
        /\ \A j \in 1 .. Len(s) - 0 : name'[c[1 - 1 + j]] = s[0 + j]
    BY <1>3, <1>4, <1>7
  <2>5. inst = "delf" => 0 = 1 - 1 /\ \A j \in 1 .. 0 : s[j] # nm /\ name'[c[j]] = s[j]
    OBVIOUS
  <2>6. 1 \in 1 .. Len(c) + 1 /\ 0 \in 0 .. Len(s)
    BY <1>3, <1>7
  <2> HIDE DEF kept
  <2>7. \E k \in 1 .. Len(c) + 1, m \in 0 .. Len(s) :
           /\ writer'[w].i = LinkAt(c, k) /\ writer'[w].tmp = next'[LinkAt(c, k)]
           /\ Len(c) = k - 1 + Len(s) - m
           /\ Len(kept[m]) = k - 1 /\ \A j \in 1 .. k - 1 : name'[c[j]] = kept[m][j]
           /\ \A j \in 1 .. Len(s) - m : name'[c[k - 1 + j]] = s[m + j]
           /\ inst = "delf" => m = k - 1 /\ \A j \in 1 .. m : s[j] # nm /\ name'[c[j]] = s[j]
    <3> WITNESS 1 \in 1 .. Len(c) + 1, 0 \in 0 .. Len(s)
    <3> QED
      BY <2>2, <2>3, <2>4, <2>5
  <2>8. Walked(w, c)' <=>
        \E k \in 1 .. Len(c) + 1, m \in 0 .. Len(writer'[w].before) :
           /\ writer'[w].i = LinkAt(c, k) /\ writer'[w].tmp = next'[LinkAt(c, k)]
           /\ Len(c) = k - 1 + Len(writer'[w].before) - m
           /\ Len(Others(writer'[w].before, writer'[w].arg)[m]) = k - 1
           /\ \A j \in 1 .. k - 1 : name'[c[j]] = Others(writer'[w].before, writer'[w].arg)[m][j]
           /\ \A j \in 1 .. Len(writer'[w].before) - m : name'[c[k - 1 + j]] = writer'[w].before[m + j]
           /\ writer'[w].inst = "delf" => m = k - 1 /\ \A j \in 1 .. m :
                 writer'[w].before[j] # writer'[w].arg /\ name'[c[j]] = writer'[w].before[j]
    BY DEF Walked
  <2> QED
    BY <2>0, <2>2, <2>7, <2>8, ZenonT(40) DEF kept
<1>13. WriterInv(w, c)'
  <2>1. writer'[w].pc = pc /\ writer'[w].inst = inst /\ writer'[w].arg = nm /\ writer'[w].before = s
    BY <1>5
  <2>2. pc = "link" => inst \in {"addf", "adde"}
    BY DEF Deletes, Insts
  <2> HIDE DEF pc, s, new
  <2>3. pc = "walk" \/ pc = "link"
    BY DEF pc
  <2> QED
    BY <1>8, <1>12, <2>1, <2>2, <2>3 DEF WriterInv
<1>14. \A v \in Writers : WriterInv(v, c)'
  BY <1>5, <1>6, <1>13 DEF WriterInv
<1>15. ReaderInv(c)'
  <2>1. reader.on => \A v \in Writers : writer'[v].pc # "walk"
    BY <1>4, <1>5, <1>6
  <2> QED
    BY <1>1, <1>4, <2>1 DEF ReaderInv, LinkAt, Off
<1>16. OnList(c)'
  BY <1>5, <1>6, <1>10, <1>11, <1>14, <1>15 DEF OnList, Busy
<1>17. Busy(w)'
  BY <1>5 DEF Busy
<1> QED
  BY <1>16, <1>17

(* The reader begins, goes on and ends. *)
LEMMA ShowSteps ==
    ASSUME ListTypes, NEW c, OnList(c), Show \/ ShowOne \/ ShowEnds, ~raced'
    PROVE  OnList(c)' /\ writer' = writer
<1>1. /\ Linked(c) /\ Distinct(c) /\ ReaderInv(c) /\ Chain = c
      /\ \A k \in 0 .. Len(c) : next[LinkAt(c, k)] = LinkAt(c, k + 1)
  BY ChainIs DEF OnList, Linked
<1>2. /\ Len(c) \in Nat
      /\ \A k : k \notin 1 .. Len(c) => LinkAt(c, k) = my_list
      /\ \A k \in 1 .. Len(c) : LinkAt(c, k) = c[k] /\ c[k] \in Nodes /\ c[k] # my_list
  BY <1>1, LinkAtType
<1>3. next' = next /\ prev' = prev /\ name' = name /\ writer' = writer
  BY DEF Show, ShowOne, ShowEnds
<1>4. Linked(c)'
  BY <1>1, <1>3 DEF Linked, LinkAt, Distinct
<1>5. (\A w \in Writers : writer'[w].pc # "publish") => \A k \in 0 .. Len(c) : Back(c, k)'
  BY <1>3 DEF OnList, Back, LinkAt
<1>6. \A w \in Writers : WriterInv(w, c)'
  <2>1. ASSUME NEW w \in Writers PROVE WriterInv(w, c)'
    <3>1. WriterInv(w, c)
      BY DEF OnList
    <3>2. Unpublished(w, c)' <=> Unpublished(w, c)
      BY <1>3 DEF Unpublished, Back, LinkAt
    <3>3. Walked(w, c)' <=> Walked(w, c)
      BY <1>3 DEF Walked, LinkAt
    <3>4. NamesOf(c)' = NamesOf(c)
      BY <1>3 DEF NamesOf
    <3> QED
      BY <1>3, <3>1, <3>2, <3>3, <3>4 DEF WriterInv
  <2> QED
    BY <2>1
<1>7. ReaderInv(c)'
  <2>1. CASE Show
    <3>1. /\ reader' = [on |-> TRUE, at |-> LinkAt(c, 1), shown |-> <<>>, start |-> c]
          /\ \A w \in Writers : writer'[w].pc # "walk"
      <4>1. LinkAt(c, 0) = my_list /\ next[my_list] = LinkAt(c, 1)
        BY <1>1, <1>2
      <4> QED
        BY <1>1, <1>3, <2>1, <4>1 DEF Show
    <3>2. /\ reader'.on /\ Len(reader'.shown) = 0 /\ reader'.at = LinkAt(c, 1) /\ reader'.start = c
      BY <3>1
    <3>3. reader'.at = my_list => Len(c) = 0
      BY <1>2, <3>2
    <3>4. \E b \in 0 .. Len(c) :
                /\ b + Len(reader'.shown) <= Len(c)
                /\ \A k \in 1 .. Len(reader'.shown) : reader'.shown[k] = c[b + k]
                /\ reader'.at \in {LinkAt(c, b + Len(reader'.shown) + 1), my_list}
                /\ b + Len(reader'.start) <= Len(c)
                /\ \A k \in 1 .. Len(reader'.start) : reader'.start[k] = c[b + k]
                /\ reader'.at = my_list => Len(reader'.start) <= Len(reader'.shown)
      <4>1. 0 \in 0 .. Len(c)
        BY <1>2
      <4> WITNESS 0 \in 0 .. Len(c)
      <4> QED
        BY <1>2, <3>2, <3>3
    <3> QED
      BY <3>1, <3>2, <3>4 DEF ReaderInv, LinkAt
  <2>2. CASE ShowOne
    <3> DEFINE s == Len(reader.shown)
               t == Len(reader.start)
               shown == Append(reader.shown, reader.at)
    <3>0. s \in Nat /\ t \in Nat /\ reader.shown \in Seq(Nodes)
      BY DEF ListTypes, ReaderType
    <3>1. /\ reader.on /\ reader.at # my_list
          /\ reader' = [reader EXCEPT !.at = next[reader.at], !.shown = shown]
      BY <2>2 DEF ShowOne
    <3>2. /\ \A w \in Writers : writer[w].pc # "walk"
          /\ \E b \in 0 .. Len(c) :
                /\ b + s <= Len(c)
                /\ \A k \in 1 .. s : reader.shown[k] = c[b + k]
                /\ reader.at \in {LinkAt(c, b + s + 1), my_list}
                /\ b + t <= Len(c)
                /\ \A k \in 1 .. t : reader.start[k] = c[b + k]
                /\ reader.at = my_list => t <= s
      BY <1>1, <3>1 DEF ReaderInv
    <3>3. PICK b \in 0 .. Len(c) :
                /\ b + s <= Len(c)
                /\ \A k \in 1 .. s : reader.shown[k] = c[b + k]
                /\ reader.at = LinkAt(c, b + s + 1)
                /\ b + t <= Len(c)
                /\ \A k \in 1 .. t : reader.start[k] = c[b + k]
      BY <3>1, <3>2
    <3> HIDE DEF s, t
    <3>4. b + s + 1 \in 1 .. Len(c) /\ b + s + 1 \in 0 .. Len(c)
      BY <1>2, <3>0, <3>1, <3>3
    <3>5. reader.at = c[b + s + 1] /\ reader.at \in Nodes /\ next[reader.at] = LinkAt(c, b + s + 1 + 1)
      BY <1>1, <1>2, <3>3, <3>4
    <3>6. Len(shown) = s + 1 /\ \A k \in 1 .. s + 1 : shown[k] = c[b + k]
      <4>1. Len(shown) = s + 1 /\ shown[s + 1] = reader.at /\ \A k \in 1 .. s : shown[k] = reader.shown[k]
        BY <3>0, <3>5, AppendProperties DEF s
      <4>2. b + s + 1 = b + (s + 1)
        BY <1>2, <3>0
      <4>3. shown[s + 1] = c[b + (s + 1)]
        BY <3>5, <4>1, <4>2
      <4>4. \A k \in 1 .. s : shown[k] = c[b + k]
        BY <3>3, <4>1
      <4> HIDE DEF shown
      <4>5. \A k \in 1 .. s + 1 : k \in 1 .. s \/ k = s + 1
        BY <3>0
      <4> QED
        BY <4>1, <4>3, <4>4, <4>5
    <3> HIDE DEF shown
    <3>7. /\ reader'.on /\ reader'.at = LinkAt(c, b + (s + 1) + 1) /\ reader'.shown = shown
          /\ reader'.start = reader.start
      <4>1. b + s + 1 + 1 = b + (s + 1) + 1
        BY <1>2, <3>0
      <4> QED
        BY <3>1, <3>5, <4>1 DEF ListTypes, ReaderType
    <3>8. reader'.at = my_list => t <= s + 1
      BY <1>2, <3>0, <3>3, <3>4, <3>7
    <3>9. b + (s + 1) <= Len(c)
      BY <1>2, <3>0, <3>4
    <3>10. \E a \in 0 .. Len(c) :
                /\ a + Len(reader'.shown) <= Len(c)
                /\ \A k \in 1 .. Len(reader'.shown) : reader'.shown[k] = c[a + k]
                /\ reader'.at \in {LinkAt(c, a + Len(reader'.shown) + 1), my_list}
                /\ a + Len(reader'.start) <= Len(c)
                /\ \A k \in 1 .. Len(reader'.start) : reader'.start[k] = c[a + k]
                /\ reader'.at = my_list => Len(reader'.start) <= Len(reader'.shown)
      <4> WITNESS b \in 0 .. Len(c)
      <4> QED
        BY <3>3, <3>6, <3>7, <3>8, <3>9 DEF t
    <3> QED
      BY <1>3, <3>2, <3>7, <3>10 DEF ReaderInv, LinkAt
  <2>3. CASE ShowEnds
    BY <2>3 DEF ShowEnds, ReaderInv, Off
  <2> QED
    BY <2>1, <2>2, <2>3
<1>8. OnList(c)'
  BY <1>3, <1>4, <1>5, <1>6, <1>7 DEF OnList, Busy
<1> QED
  BY <1>3, <1>8

(* The deletion that is under way, with its place in the list and in the   *)
(* names as they were.                                                     *)
At(w, c, k, m) ==
    LET s    == writer[w].before
        kept == Others(s, writer[w].arg)
    IN  /\ writer[w].i = LinkAt(c, k) /\ writer[w].tmp = next[LinkAt(c, k)]
        /\ Len(c) = k - 1 + Len(s) - m
        /\ Len(kept[m]) = k - 1 /\ \A j \in 1 .. k - 1 : name[c[j]] = kept[m][j]
        /\ \A j \in 1 .. Len(s) - m : name[c[k - 1 + j]] = s[m + j]
        /\ writer[w].inst = "delf" =>
              m = k - 1 /\ \A j \in 1 .. m : s[j] # writer[w].arg /\ name[c[j]] = s[j]

(* The invariant of a deletion says that it is somewhere. *)
LEMMA WalkedAt ==
    ASSUME NEW w \in Writers, NEW c
    PROVE  /\ Walked(w, c) <=>
                 \E k \in 1 .. Len(c) + 1, m \in 0 .. Len(writer[w].before) : At(w, c, k, m)
           /\ Walked(w, c)' <=>
                 \E k \in 1 .. Len(c) + 1, m \in 0 .. Len(writer'[w].before) : At(w, c, k, m)'
BY DEF Walked, At

(* A turn of the loop that finds another name. *)
LEMMA WalkOn ==
    ASSUME ListTypes, NEW c, OnList(c), NEW w \in Writers, Walk(w),
           name[writer[w].i] # writer[w].arg
    PROVE  OnList(c)' /\ Busy(w)'
<1>1. /\ Linked(c) /\ Distinct(c) /\ WriterInv(w, c) /\ ReaderInv(c)
      /\ \A k \in 0 .. Len(c) : next[LinkAt(c, k)] = LinkAt(c, k + 1)
  BY DEF OnList, Linked
<1>2. /\ Len(c) \in Nat
      /\ \A k : k \notin 1 .. Len(c) => LinkAt(c, k) = my_list
      /\ \A k \in 1 .. Len(c) : LinkAt(c, k) = c[k] /\ c[k] \in Nodes /\ c[k] # my_list
  BY <1>1, LinkAtType
<1>3. /\ writer[w].pc = "walk" /\ writer[w].i # my_list
      /\ next' = next /\ prev' = prev /\ name' = name /\ reader' = reader
      /\ writer' = [writer EXCEPT ![w] = [writer[w] EXCEPT !.i = writer[w].tmp, !.tmp = next[writer[w].tmp]]]
  BY DEF Walk, Successor
<1>4. /\ writer'[w] = [writer[w] EXCEPT !.i = writer[w].tmp, !.tmp = next[writer[w].tmp]]
      /\ \A v \in Writers \ {w} : writer'[v] = writer[v]
      /\ writer[w] \in WriterType
  BY <1>3 DEF ListTypes
<1>5. /\ writer'[w].pc = "walk" /\ writer'[w].inst = writer[w].inst /\ writer'[w].arg = writer[w].arg
      /\ writer'[w].before = writer[w].before
      /\ writer'[w].i = writer[w].tmp /\ writer'[w].tmp = next[writer[w].tmp]
  <2> DEFINE a == writer[w].tmp
             b == next[writer[w].tmp]
  <2>1. writer'[w] = [writer[w] EXCEPT !.i = a, !.tmp = b]
    BY <1>4
  <2> HIDE DEF a, b
  <2>2. /\ writer'[w].pc = writer[w].pc /\ writer'[w].inst = writer[w].inst /\ writer'[w].arg = writer[w].arg
        /\ writer'[w].before = writer[w].before /\ writer'[w].i = a /\ writer'[w].tmp = b
    BY <1>4, <2>1 DEF WriterType
  <2> QED
    BY <1>3, <2>2 DEF a, b
<1>6. /\ writer[w].inst \in {"delf", "dela"} /\ writer[w].arg \in Names
      /\ Walked(w, c)
  BY <1>1, <1>3 DEF WriterInv
<1> DEFINE s    == writer[w].before
           arg  == writer[w].arg
           kept == Others(s, arg)
<1>7. PICK k \in 1 .. Len(c) + 1, m \in 0 .. Len(s) : At(w, c, k, m)
  BY <1>6, WalkedAt
<1>8. s \in Seq(Names) /\ Len(s) \in Nat
  BY <1>4 DEF WriterType
<1>9. /\ kept \in [0 .. Len(s) -> Seq(Names)]
      /\ \A n \in 1 .. Len(s) : kept[n] = IF s[n] = arg THEN kept[n - 1] ELSE Append(kept[n - 1], s[n])
  BY <1>8, OthersDefined
<1>10. /\ writer[w].i = LinkAt(c, k) /\ writer[w].tmp = next[LinkAt(c, k)]
       /\ Len(c) = k - 1 + Len(s) - m
       /\ Len(kept[m]) = k - 1 /\ \A j \in 1 .. k - 1 : name[c[j]] = kept[m][j]
       /\ \A j \in 1 .. Len(s) - m : name[c[k - 1 + j]] = s[m + j]
       /\ writer[w].inst = "delf" => m = k - 1 /\ \A j \in 1 .. m : s[j] # arg /\ name[c[j]] = s[j]
  BY <1>7 DEF At
<1> HIDE DEF kept, s, arg
<1>11. k \in 1 .. Len(c) /\ k \in 0 .. Len(c) /\ writer[w].i = c[k]
  BY <1>2, <1>3, <1>10
<1>12. m + 1 \in 1 .. Len(s) /\ m + 1 \in 0 .. Len(s) /\ k + 1 \in 1 .. Len(c) + 1 /\ m + 1 - 1 = m /\ 1 \in 1 .. Len(s) - m
  BY <1>2, <1>8, <1>10, <1>11
<1>13. name[c[k]] = s[m + 1]
  <2>1. name[c[k - 1 + 1]] = s[m + 1]
    BY <1>10, <1>12
  <2> QED
    BY <1>2, <2>1
<1>14. s[m + 1] # arg
  BY <1>11, <1>13 DEF arg
<1>15. kept[m + 1] = Append(kept[m], s[m + 1]) /\ kept[m] \in Seq(Names) /\ s[m + 1] \in Names
  <2>1. kept[m + 1] = IF s[m + 1] = arg THEN kept[m + 1 - 1] ELSE Append(kept[m + 1 - 1], s[m + 1])
    BY <1>9, <1>12
  <2>2. kept[m] \in Seq(Names)
    BY <1>9
  <2>3. s[m + 1] \in Names
    BY <1>8, <1>12
  <2> QED
    BY <1>12, <1>14, <2>1, <2>2, <2>3
<1>16. Len(kept[m + 1]) = k + 1 - 1 /\ \A j \in 1 .. k + 1 - 1 : name[c[j]] = kept[m + 1][j]
  <2> DEFINE u == kept[m]
             v == kept[m + 1]
  <2>1. /\ Len(v) = Len(u) + 1 /\ v[Len(u) + 1] = s[m + 1]
        /\ \A j \in 1 .. Len(u) : v[j] = u[j]
    BY <1>15, AppendProperties
  <2>2. Len(u) = k - 1 /\ \A j \in 1 .. k - 1 : name[c[j]] = u[j]
    BY <1>10
  <2> HIDE DEF u, v
  <2>3. k - 1 + 1 = k /\ k + 1 - 1 = k /\ \A j \in 1 .. k : j \in 1 .. k - 1 \/ j = k
    OBVIOUS
  <2>4. Len(v) = k /\ \A j \in 1 .. k : name[c[j]] = v[j]
    BY <1>13, <2>1, <2>2, <2>3
  <2> QED
    BY <2>3, <2>4 DEF v
<1>17. ASSUME NEW j \in 1 .. Len(s) - (m + 1) PROVE name[c[k + 1 - 1 + j]] = s[m + 1 + j]
  <2>1. j + 1 \in 1 .. Len(s) - m /\ k - 1 + (j + 1) = k + 1 - 1 + j /\ m + (j + 1) = m + 1 + j
    BY <1>8
  <2> QED
    BY <1>10, <2>1
<1>18. writer[w].inst = "delf" =>
          m + 1 = k + 1 - 1 /\ \A j \in 1 .. m + 1 : s[j] # arg /\ name[c[j]] = s[j]
  <2>1. \A j \in 1 .. m + 1 : j \in 1 .. m \/ j = m + 1
    BY <1>8
  <2>2. m = k - 1 => m + 1 = k /\ m + 1 = k + 1 - 1
    BY <1>8
  <2> QED
    BY <1>10, <1>13, <1>14, <2>1, <2>2
<1>19. At(w, c, k + 1, m + 1)'
  <2>1. next[LinkAt(c, k)] = LinkAt(c, k + 1)
    BY <1>1, <1>11
  <2>2. Len(c) = k + 1 - 1 + Len(s) - (m + 1)
    BY <1>2, <1>8, <1>10
  <2>3. At(w, c, k + 1, m + 1)' <=>
           /\ writer'[w].i = LinkAt(c, k + 1) /\ writer'[w].tmp = next'[LinkAt(c, k + 1)]
           /\ Len(c) = k + 1 - 1 + Len(writer'[w].before) - (m + 1)
           /\ Len(Others(writer'[w].before, writer'[w].arg)[m + 1]) = k + 1 - 1
           /\ \A j \in 1 .. k + 1 - 1 : name'[c[j]] = Others(writer'[w].before, writer'[w].arg)[m + 1][j]
           /\ \A j \in 1 .. Len(writer'[w].before) - (m + 1) :
                 name'[c[k + 1 - 1 + j]] = writer'[w].before[m + 1 + j]
           /\ writer'[w].inst = "delf" => m + 1 = k + 1 - 1 /\ \A j \in 1 .. m + 1 :
                 writer'[w].before[j] # writer'[w].arg /\ name'[c[j]] = writer'[w].before[j]
    BY DEF At
  <2>4. writer'[w].before = s /\ writer'[w].arg = arg /\ Others(s, arg) = kept
    BY <1>5 DEF s, arg, kept
  <2>5. writer'[w].i = LinkAt(c, k + 1) /\ writer'[w].tmp = next'[LinkAt(c, k + 1)]
    BY <1>3, <1>5, <1>10, <2>1
  <2> QED
    BY <1>3, <1>5, <1>16, <1>17, <1>18, <2>2, <2>3, <2>4, <2>5, ZenonT(40)
<1>20. Walked(w, c)'
  <2>1. m + 1 \in 0 .. Len(writer'[w].before)
    BY <1>5, <1>12 DEF s
  <2> QED
    BY <1>12, <1>19, <2>1, WalkedAt
<1>21. \A v \in Writers \ {w} : writer[v].pc = "idle"
  BY <1>3, OthersIdle DEF Busy
<1>22. \A v \in Writers : WriterInv(v, c)'
  <2>1. WriterInv(w, c)'
    BY <1>5, <1>6, <1>20 DEF WriterInv
  <2>2. \A v \in Writers \ {w} : writer'[v].pc = "idle"
    BY <1>4, <1>21
  <2> QED
    BY <2>1, <2>2 DEF WriterInv
<1>23. Linked(c)'
  BY <1>1, <1>3 DEF Linked, LinkAt, Distinct
<1>24. \A k1 \in 0 .. Len(c) : Back(c, k1)'
  <2>1. \A v \in Writers : writer[v].pc # "publish"
    BY <1>3, <1>21
  <2> QED
    BY <1>3, <2>1 DEF OnList, Back, LinkAt
<1>25. ReaderInv(c)'
  BY <1>1, <1>3 DEF ReaderInv, Off
<1>26. OnList(c)'
  BY <1>4, <1>5, <1>21, <1>22, <1>23, <1>24, <1>25 DEF OnList, Busy
<1> QED
  BY <1>5, <1>26 DEF Busy

(* A turn of the loop that finds the name takes the node off the list; delf *)
(* ends there.                                                             *)
LEMMA WalkOff ==
    ASSUME ListTypes, NEW c, OnList(c), NEW w \in Writers, Walk(w),
           name[writer[w].i] = writer[w].arg
    PROVE  \E k \in 1 .. Len(c) :
              /\ OnList(Removed(c, k))'
              /\ \A j \in 1 .. Len(c) - 1 : name'[Removed(c, k)[j]] = name[Removed(c, k)[j]]
              /\ writer[w].inst # "delf" => Busy(w)'
              /\ writer[w].inst = "delf" =>
                    /\ Len(writer[w].before) = Len(c) /\ writer[w].before[k] = writer[w].arg
                    /\ \A j \in 1 .. Len(c) : name[c[j]] = writer[w].before[j]
                    /\ \A j \in 1 .. k - 1 : writer[w].before[j] # writer[w].arg
<1>1. /\ Linked(c) /\ Distinct(c) /\ WriterInv(w, c) /\ ReaderInv(c)
      /\ \A k \in 1 .. Len(c) : name[c[k]] \in Names
      /\ \A k \in 0 .. Len(c) : next[LinkAt(c, k)] = LinkAt(c, k + 1)
  BY DEF OnList, Linked
<1>2. /\ Len(c) \in Nat
      /\ \A k : LinkAt(c, k) \in Link
      /\ \A k : k \notin 1 .. Len(c) => LinkAt(c, k) = my_list
      /\ \A k \in 1 .. Len(c) : LinkAt(c, k) = c[k] /\ c[k] \in Nodes /\ c[k] # my_list
      /\ \A j, k \in 0 .. Len(c) : LinkAt(c, j) = LinkAt(c, k) => j = k
      /\ \A j, k \in 1 .. Len(c) + 1 : LinkAt(c, j) = LinkAt(c, k) => j = k
  BY <1>1, LinkAtType
<1>3. writer[w].pc = "walk" /\ writer[w].i # my_list /\ reader' = reader
  BY DEF Walk
<1>4. /\ writer \in [Writers -> WriterType] /\ writer[w] \in WriterType
      /\ next \in [Link -> Link] /\ prev \in [Link -> Link] /\ name \in [Nodes -> Names \cup {"free"}]
  BY DEF ListTypes, ListTypeOK
<1>6. /\ writer[w].inst \in {"delf", "dela"} /\ writer[w].arg \in Names
      /\ Walked(w, c)
  BY <1>1, <1>3 DEF WriterInv
<1> DEFINE s    == writer[w].before
           arg  == writer[w].arg
           kept == Others(s, arg)
<1>7. PICK k \in 1 .. Len(c) + 1, m \in 0 .. Len(s) : At(w, c, k, m)
  BY <1>6, WalkedAt
<1>8. s \in Seq(Names) /\ Len(s) \in Nat
  BY <1>4 DEF WriterType
<1>9. \A n \in 1 .. Len(s) : kept[n] = IF s[n] = arg THEN kept[n - 1] ELSE Append(kept[n - 1], s[n])
  BY <1>8, OthersDefined
<1>10. /\ writer[w].i = LinkAt(c, k) /\ writer[w].tmp = next[LinkAt(c, k)]
       /\ Len(c) = k - 1 + Len(s) - m
       /\ Len(kept[m]) = k - 1 /\ \A j \in 1 .. k - 1 : name[c[j]] = kept[m][j]
       /\ \A j \in 1 .. Len(s) - m : name[c[k - 1 + j]] = s[m + j]
       /\ writer[w].inst = "delf" => m = k - 1 /\ \A j \in 1 .. m : s[j] # arg /\ name[c[j]] = s[j]
  BY <1>7 DEF At
<1> HIDE DEF kept, s, arg
<1>11. k \in 1 .. Len(c) /\ k \in 0 .. Len(c) /\ writer[w].i = c[k]
  BY <1>2, <1>3, <1>10
<1>12. m + 1 \in 1 .. Len(s) /\ m + 1 \in 0 .. Len(s) /\ m + 1 - 1 = m /\ 1 \in 1 .. Len(s) - m
  BY <1>2, <1>8, <1>10, <1>11
<1>13. name[c[k]] = s[m + 1] /\ s[m + 1] = arg
  <2>1. name[c[k - 1 + 1]] = s[m + 1]
    BY <1>10, <1>12
  <2> QED
    BY <1>2, <1>11, <2>1 DEF arg
<1>14. kept[m + 1] = kept[m]
  <2>1. kept[m + 1] = IF s[m + 1] = arg THEN kept[m + 1 - 1] ELSE Append(kept[m + 1 - 1], s[m + 1])
    BY <1>9, <1>12
  <2> QED
    BY <1>12, <1>13, <2>1
<1>15. \A v \in Writers \ {w} : writer[v].pc = "idle"
  BY <1>3, OthersIdle DEF Busy
<1>16. \A j \in 0 .. Len(c) : prev[LinkAt(c, j + 1)] = LinkAt(c, j)
  <2>1. \A v \in Writers : writer[v].pc # "publish"
    BY <1>3, <1>15
  <2> QED
    BY <2>1 DEF OnList, Back
<1> DEFINE n      == c[k]
           before == LinkAt(c, k - 1)
           after  == LinkAt(c, k + 1)
           d      == Removed(c, k)
<1>17. /\ n \in Nodes /\ n \in Link /\ LinkAt(c, k) = n /\ next[n] = after /\ prev[n] = before
       /\ before # n /\ after # n /\ before \in Link /\ after \in Link
  <2>1. k - 1 \in 0 .. Len(c) /\ k - 1 + 1 = k /\ k + 1 \in 1 .. Len(c) + 1 /\ k - 1 # k /\ k # k + 1
        /\ k \in 1 .. Len(c) + 1
    BY <1>2, <1>11
  <2>2. LinkAt(c, k) = n /\ n \in Nodes /\ n \in Link
    BY <1>2, <1>11 DEF Link
  <2>3. next[LinkAt(c, k)] = LinkAt(c, k + 1)
    BY <1>1, <1>11
  <2>4. prev[LinkAt(c, k)] = LinkAt(c, k - 1)
    BY <1>16, <2>1
  <2>5. LinkAt(c, k - 1) # LinkAt(c, k) /\ LinkAt(c, k + 1) # LinkAt(c, k)
    BY <1>2, <1>11, <2>1
  <2> QED
    BY <1>2, <2>2, <2>3, <2>4, <2>5
<1>18. /\ next' = [next EXCEPT ![before] = after, ![n] = n]
       /\ prev' = [prev EXCEPT ![after] = before, ![n] = n]
       /\ name' = [name EXCEPT ![n] = "free"]
       /\ writer' = [writer EXCEPT ![w] =
             IF writer[w].inst = "delf" THEN Idle
             ELSE [writer[w] EXCEPT !.i = after, !.tmp = next'[after]]]
  <2>1. writer[w].i = n /\ writer[w].tmp = after /\ name[n] = writer[w].arg
    BY <1>10, <1>11, <1>17
  <2> HIDE DEF n, before, after
  <2> QED
    BY <1>17, <2>1 DEF Walk, Successor, StopsAtFirst
<1>19. /\ Distinct(d) /\ Len(d) = Len(c) - 1
       /\ \A j \in 0 .. k - 1 : LinkAt(d, j) = LinkAt(c, j)
       /\ \A j \in k .. Len(c) : LinkAt(d, j) = LinkAt(c, j + 1)
       /\ \A j \in 1 .. k - 1 : d[j] = c[j]
       /\ \A j \in k .. Len(c) - 1 : d[j] = c[j + 1]
       /\ \A j \in 1 .. Len(c) - 1 : d[j] # n
  BY <1>1, <1>11, RemovedAt, ZenonT(40)
<1> HIDE DEF n, before, after, d
<1>20. /\ next'[before] = after
       /\ \A l \in Link : l # before /\ l # n => next'[l] = next[l]
       /\ prev'[after] = before
       /\ \A l \in Link : l # after /\ l # n => prev'[l] = prev[l]
       /\ \A l \in Nodes : l # n => name'[l] = name[l]
  BY <1>4, <1>17, <1>18
<1>21. ASSUME NEW j \in 0 .. Len(d) PROVE next'[LinkAt(d, j)] = LinkAt(d, j + 1)
  <2>1. CASE j < k - 1
    <3>1. /\ LinkAt(d, j) = LinkAt(c, j) /\ LinkAt(d, j + 1) = LinkAt(c, j + 1)
          /\ j \in 0 .. Len(c) /\ k - 1 \in 0 .. Len(c) /\ j # k - 1 /\ j # k
      BY <1>2, <1>11, <1>19, <2>1
    <3>2. LinkAt(c, j) # before /\ LinkAt(c, j) # n
      BY <1>2, <1>11, <1>17, <3>1 DEF before
    <3>3. LinkAt(c, j) \in Link /\ next[LinkAt(c, j)] = LinkAt(c, j + 1)
      BY <1>1, <1>2, <3>1
    <3> QED
      BY <1>20, <3>1, <3>2, <3>3
  <2>2. CASE j = k - 1
    <3>1. LinkAt(d, j) = before /\ LinkAt(d, j + 1) = after
      BY <1>2, <1>11, <1>19, <2>2 DEF before, after
    <3> QED
      BY <1>20, <3>1
  <2>3. CASE j >= k
    <3>1. /\ j \in k .. Len(c) /\ j + 1 \in k .. Len(c)
          /\ j + 1 \in 0 .. Len(c) /\ k - 1 \in 0 .. Len(c) /\ j + 1 # k - 1 /\ j + 1 # k
      BY <1>2, <1>11, <1>19, <2>3
    <3>2. LinkAt(d, j) = LinkAt(c, j + 1) /\ LinkAt(d, j + 1) = LinkAt(c, j + 1 + 1)
      BY <1>19, <3>1
    <3>3. LinkAt(c, j + 1) # before /\ LinkAt(c, j + 1) # n
      BY <1>2, <1>11, <1>17, <3>1 DEF before
    <3>4. LinkAt(c, j + 1) \in Link /\ next[LinkAt(c, j + 1)] = LinkAt(c, j + 1 + 1)
      BY <1>1, <1>2, <3>1
    <3> QED
      BY <1>20, <3>2, <3>3, <3>4
  <2> QED
    BY <1>2, <1>11, <1>19, <2>1, <2>2, <2>3
<1>22. ASSUME NEW j \in 0 .. Len(d) PROVE prev'[LinkAt(d, j + 1)] = LinkAt(d, j)
  <2>1. CASE j < k - 1
    <3>1. /\ LinkAt(d, j) = LinkAt(c, j) /\ LinkAt(d, j + 1) = LinkAt(c, j + 1)
          /\ j \in 0 .. Len(c) /\ j + 1 \in 1 .. Len(c) + 1 /\ k + 1 \in 1 .. Len(c) + 1
          /\ k \in 1 .. Len(c) + 1 /\ j + 1 # k + 1 /\ j + 1 # k
      BY <1>2, <1>11, <1>19, <2>1
    <3>2. LinkAt(c, j + 1) # after /\ LinkAt(c, j + 1) # n
      BY <1>2, <1>17, <3>1 DEF after
    <3>3. LinkAt(c, j + 1) \in Link /\ prev[LinkAt(c, j + 1)] = LinkAt(c, j)
      BY <1>2, <1>16, <3>1
    <3> QED
      BY <1>20, <3>1, <3>2, <3>3
  <2>2. CASE j = k - 1
    <3>1. LinkAt(d, j) = before /\ LinkAt(d, j + 1) = after
      BY <1>2, <1>11, <1>19, <2>2 DEF before, after
    <3> QED
      BY <1>20, <3>1
  <2>3. CASE j >= k
    <3>1. /\ j \in k .. Len(c) /\ j + 1 \in k .. Len(c) /\ j + 1 \in 0 .. Len(c)
          /\ j + 1 + 1 \in 1 .. Len(c) + 1 /\ k + 1 \in 1 .. Len(c) + 1
          /\ k \in 1 .. Len(c) + 1 /\ j + 1 + 1 # k + 1 /\ j + 1 + 1 # k
      BY <1>2, <1>11, <1>19, <2>3
    <3>2. LinkAt(d, j) = LinkAt(c, j + 1) /\ LinkAt(d, j + 1) = LinkAt(c, j + 1 + 1)
      BY <1>19, <3>1
    <3>3. LinkAt(c, j + 1 + 1) # after /\ LinkAt(c, j + 1 + 1) # n
      BY <1>2, <1>17, <3>1 DEF after
    <3>4. LinkAt(c, j + 1 + 1) \in Link /\ prev[LinkAt(c, j + 1 + 1)] = LinkAt(c, j + 1)
      BY <1>2, <1>16, <3>1
    <3> QED
      BY <1>20, <3>2, <3>3, <3>4
  <2> QED
    BY <1>2, <1>11, <1>19, <2>1, <2>2, <2>3
<1>23. \A j \in 1 .. Len(c) - 1 : name'[d[j]] = name[d[j]] /\ name[d[j]] \in Names
  <2>1. \A j \in 1 .. Len(c) - 1 : d[j] \in Nodes /\ d[j] # n
    BY <1>19 DEF Distinct
  <2>2. ASSUME NEW j \in 1 .. Len(c) - 1 PROVE name[d[j]] \in Names
    <3>1. CASE j < k
      <4>1. j \in 1 .. k - 1 /\ j \in 1 .. Len(c)
        BY <1>2, <1>11, <3>1
      <4> QED
        BY <1>1, <1>19, <4>1
    <3>2. CASE j >= k
      <4>1. j \in k .. Len(c) - 1 /\ j + 1 \in 1 .. Len(c)
        BY <1>2, <1>11, <3>2
      <4> QED
        BY <1>1, <1>19, <4>1
    <3> QED
      BY <1>11, <3>1, <3>2
  <2> QED
    BY <1>20, <2>1, <2>2
<1>24. Linked(d)'
  BY <1>19, <1>21, <1>23 DEF Linked, LinkAt, Distinct
<1>25. \A j \in 0 .. Len(d) : Back(d, j)'
  BY <1>22 DEF Back, LinkAt
<1>26. \A v \in Writers \ {w} : writer'[v].pc = "idle"
  BY <1>4, <1>15, <1>18
<1>27. reader' = Off /\ ~reader'.on
  BY <1>1, <1>3 DEF ReaderInv, Off
<1>28. ReaderInv(d)'
  BY <1>27 DEF ReaderInv, Off
<1>29. CASE writer[w].inst = "delf"
  <2>1. writer'[w].pc = "idle"
    BY <1>4, <1>18, <1>29 DEF Idle
  <2>2. \A v \in Writers : writer'[v].pc = "idle"
    BY <1>26, <2>1
  <2>3. \A v \in Writers : WriterInv(v, d)'
    BY <2>2 DEF WriterInv
  <2>4. OnList(d)'
    BY <1>24, <1>25, <1>28, <2>2, <2>3 DEF OnList, Busy
  <2>5. m = k - 1 /\ \A j \in 1 .. m : s[j] # arg /\ name[c[j]] = s[j]
    BY <1>10, <1>29
  <2>6. Len(s) = Len(c) /\ s[k] = arg
    BY <1>2, <1>8, <1>10, <1>11, <1>13, <2>5
  <2>7. ASSUME NEW j \in 1 .. Len(c) PROVE name[c[j]] = s[j]
    <3>1. CASE j < k
      BY <1>11, <2>5, <3>1
    <3>2. CASE j >= k
      <4> DEFINE i == j - k + 1
      <4>0. m = k - 1 /\ Len(s) = Len(c) /\ Len(c) \in Nat /\ k \in Nat /\ j \in Nat /\ j <= Len(c)
        BY <1>2, <1>11, <2>5, <2>6
      <4>1. i \in 1 .. Len(s) - m /\ k - 1 + i = j /\ m + i = j
        BY <3>2, <4>0
      <4> HIDE DEF i
      <4> QED
        BY <1>10, <4>1
    <3> QED
      BY <1>11, <3>1, <3>2
  <2>8. \A j \in 1 .. k - 1 : s[j] # arg
    BY <2>5
  <2> QED
    BY <1>11, <1>23, <1>29, <2>4, <2>6, <2>7, <2>8 DEF d, s, arg
<1>30. CASE writer[w].inst # "delf"
  <2>1. writer'[w] = [writer[w] EXCEPT !.i = after, !.tmp = next'[after]]
    BY <1>4, <1>18, <1>30
  <2>2. /\ writer'[w].pc = "walk" /\ writer'[w].inst = "dela" /\ writer'[w].arg = arg
        /\ writer'[w].before = s /\ writer'[w].i = after /\ writer'[w].tmp = next'[after]
    <3> DEFINE b == next'[after]
    <3>1. writer'[w] = [writer[w] EXCEPT !.i = after, !.tmp = b]
      BY <2>1
    <3> HIDE DEF b
    <3>2. /\ writer'[w].pc = writer[w].pc /\ writer'[w].inst = writer[w].inst /\ writer'[w].arg = writer[w].arg
          /\ writer'[w].before = writer[w].before /\ writer'[w].i = after /\ writer'[w].tmp = b
      BY <1>4, <3>1 DEF WriterType
    <3> QED
      BY <1>3, <1>6, <1>30, <3>2 DEF b, s, arg
  <2>3. k \in 1 .. Len(d) + 1 /\ m + 1 \in 0 .. Len(s)
    BY <1>2, <1>11, <1>12, <1>19
  <2>4. LinkAt(d, k) = after
    BY <1>2, <1>11, <1>19 DEF after
  <2>5. Len(d) = k - 1 + Len(s) - (m + 1)
    BY <1>2, <1>8, <1>10, <1>19
  <2>6. Len(kept[m + 1]) = k - 1 /\ \A j \in 1 .. k - 1 : name'[d[j]] = kept[m + 1][j]
    <3>1. \A j \in 1 .. k - 1 : j \in 1 .. Len(c) - 1 /\ d[j] = c[j]
      BY <1>2, <1>11, <1>19
    <3> HIDE DEF kept, d
    <3>2. /\ Len(kept[m + 1]) = k - 1
          /\ \A j \in 1 .. k - 1 : name[c[j]] = kept[m + 1][j]
      BY <1>10, <1>14
    <3> QED
      BY <1>23, <3>1, <3>2
  <2>7. ASSUME NEW j \in 1 .. Len(s) - (m + 1) PROVE name'[d[k - 1 + j]] = s[m + 1 + j]
    <3>1. /\ k - 1 + j \in k .. Len(c) - 1 /\ k - 1 + j \in 1 .. Len(c) - 1
          /\ j + 1 \in 1 .. Len(s) - m /\ m + (j + 1) = m + 1 + j /\ k - 1 + j + 1 = k - 1 + (j + 1)
      BY <1>2, <1>8, <1>10, <1>11
    <3>2. name'[d[k - 1 + j]] = name[c[k - 1 + j + 1]]
      BY <1>19, <1>23, <3>1
    <3> QED
      BY <1>10, <3>1, <3>2
  <2>8. At(w, d, k, m + 1)'
    <3>1. At(w, d, k, m + 1)' <=>
             /\ writer'[w].i = LinkAt(d, k) /\ writer'[w].tmp = next'[LinkAt(d, k)]
             /\ Len(d) = k - 1 + Len(writer'[w].before) - (m + 1)
             /\ Len(Others(writer'[w].before, writer'[w].arg)[m + 1]) = k - 1
             /\ \A j \in 1 .. k - 1 : name'[d[j]] = Others(writer'[w].before, writer'[w].arg)[m + 1][j]
             /\ \A j \in 1 .. Len(writer'[w].before) - (m + 1) :
                   name'[d[k - 1 + j]] = writer'[w].before[m + 1 + j]
             /\ writer'[w].inst = "delf" => m + 1 = k - 1 /\ \A j \in 1 .. m + 1 :
                   writer'[w].before[j] # writer'[w].arg /\ name'[d[j]] = writer'[w].before[j]
      BY DEF At
    <3>2. Others(s, arg) = kept
      BY DEF kept
    <3> QED
      BY <2>2, <2>4, <2>5, <2>6, <2>7, <3>1, <3>2
  <2>9. Walked(w, d)'
    BY <2>2, <2>3, <2>8, WalkedAt
  <2>10. WriterInv(w, d)'
    BY <1>6, <2>2, <2>9 DEF WriterInv, arg
  <2>11. \A v \in Writers : WriterInv(v, d)'
    BY <1>26, <2>10 DEF WriterInv
  <2>12. OnList(d)'
    BY <1>24, <1>25, <1>26, <1>28, <2>11 DEF OnList, Busy
  <2>13. Busy(w)'
    BY <2>2 DEF Busy
  <2> QED
    BY <1>11, <1>23, <1>30, <2>12, <2>13 DEF d
<1> QED
  BY <1>29, <1>30

(* The loop has come back to the head. *)
LEMMA WalkEnd ==
    ASSUME ListTypes, NEW c, OnList(c), NEW w \in Writers, WalkEnds(w)
    PROVE  LET s == writer[w].before
               t == IF writer[w].inst = "dela" THEN Others(s, writer[w].arg)[Len(s)] ELSE s
           IN  /\ OnList(c)'
               /\ writer[w].inst \in {"delf", "dela"}
               /\ writer[w].inst = "delf" => \A j \in 1 .. Len(s) : s[j] # writer[w].arg
               /\ t \in Seq(Names) /\ Len(t) = Len(c) /\ \A j \in 1 .. Len(c) : name[c[j]] = t[j]
<1>1. /\ Linked(c) /\ Distinct(c) /\ WriterInv(w, c) /\ ReaderInv(c)
      /\ \A k \in 0 .. Len(c) : next[LinkAt(c, k)] = LinkAt(c, k + 1)
  BY DEF OnList, Linked
<1>2. /\ Len(c) \in Nat
      /\ \A k \in 1 .. Len(c) : LinkAt(c, k) = c[k] /\ c[k] \in Nodes /\ c[k] # my_list
  BY <1>1, LinkAtType
<1>3. /\ writer[w].pc = "walk" /\ writer[w].i = my_list
      /\ next' = next /\ prev' = prev /\ name' = name /\ reader' = reader
      /\ writer' = [writer EXCEPT ![w] = Idle]
  BY DEF WalkEnds
<1>4. writer \in [Writers -> WriterType] /\ writer[w] \in WriterType
  BY DEF ListTypes
<1>6. /\ writer[w].inst \in {"delf", "dela"} /\ writer[w].arg \in Names
      /\ Walked(w, c)
  BY <1>1, <1>3 DEF WriterInv
<1> DEFINE s    == writer[w].before
           arg  == writer[w].arg
           kept == Others(s, arg)
<1>7. PICK k \in 1 .. Len(c) + 1, m \in 0 .. Len(s) : At(w, c, k, m)
  BY <1>6, WalkedAt
<1>8. s \in Seq(Names) /\ Len(s) \in Nat
  BY <1>4 DEF WriterType
<1>9. kept \in [0 .. Len(s) -> Seq(Names)]
  BY <1>8, OthersDefined
<1>10. /\ writer[w].i = LinkAt(c, k)
       /\ Len(c) = k - 1 + Len(s) - m
       /\ Len(kept[m]) = k - 1 /\ \A j \in 1 .. k - 1 : name[c[j]] = kept[m][j]
       /\ writer[w].inst = "delf" => m = k - 1 /\ \A j \in 1 .. m : s[j] # arg /\ name[c[j]] = s[j]
  BY <1>7 DEF At
<1> HIDE DEF kept, s, arg
<1>11. k = Len(c) + 1 /\ m = Len(s) /\ k - 1 = Len(c)
  <2>1. k \notin 1 .. Len(c)
    BY <1>2, <1>3, <1>10
  <2>2. k = Len(c) + 1
    BY <1>2, <2>1
  <2> QED
    BY <1>2, <1>8, <1>10, <2>2
<1>12. \A v \in Writers : writer'[v].pc = "idle"
  <2>1. \A v \in Writers \ {w} : writer[v].pc = "idle"
    BY <1>3, OthersIdle DEF Busy
  <2> QED
    BY <1>3, <1>4, <2>1 DEF Idle
<1>13. Linked(c)'
  BY <1>1, <1>3 DEF Linked, LinkAt, Distinct
<1>14. \A j \in 0 .. Len(c) : Back(c, j)'
  <2>1. \A v \in Writers : writer[v].pc # "publish"
    BY <1>3, OthersIdle DEF Busy
  <2> QED
    BY <1>3, <2>1 DEF OnList, Back, LinkAt
<1>15. ReaderInv(c)'
  BY <1>1, <1>3 DEF ReaderInv, Off
<1>16. \A v \in Writers : WriterInv(v, c)'
  BY <1>12 DEF WriterInv
<1>17. OnList(c)'
  BY <1>12, <1>13, <1>14, <1>15, <1>16 DEF OnList, Busy
<1>18. CASE writer[w].inst = "dela"
  <2>1. /\ kept[Len(s)] \in Seq(Names) /\ Len(kept[Len(s)]) = Len(c)
        /\ \A j \in 1 .. Len(c) : name[c[j]] = kept[Len(s)][j]
    BY <1>8, <1>9, <1>10, <1>11
  <2> QED
    BY <1>17, <1>18, <2>1 DEF kept, s, arg
<1>19. CASE writer[w].inst = "delf"
  <2>1. m = Len(c) /\ m = Len(s) /\ \A j \in 1 .. m : s[j] # arg /\ name[c[j]] = s[j]
    BY <1>10, <1>11, <1>19
  <2> QED
    BY <1>8, <1>17, <1>19, <2>1 DEF s, arg
<1> QED
  BY <1>6, <1>18, <1>19

(* The invariant of the list holds at first. *)
LEMMA ListInvInit == Init => ListInv
<1> SUFFICES ASSUME ListInit PROVE ListInv
  BY DEF Init
<1>1. /\ \A l \in Link : next[l] = l /\ prev[l] = l
      /\ my_list \in Link
      /\ \A w \in Writers : writer[w] = Idle
      /\ reader = Off
  BY DEF ListInit, Link
<1>2. Idle \in WriterType /\ Off \in ReaderType
  BY DEF Idle, WriterType, Off, ReaderType, Link
<1>3. ListTypes
  BY <1>2 DEF ListInit, ListTypes, ListTypeOK
<1> DEFINE c == <<>>
<1>4. c \in Seq(Nodes) /\ Len(c) = 0 /\ \A k : LinkAt(c, k) = my_list
  BY DEF LinkAt
<1> HIDE DEF c
<1>5. Distinct(c)
  BY <1>4 DEF Distinct
<1>6. Linked(c)
  BY <1>1, <1>4, <1>5 DEF Linked
<1>7. \A k \in 0 .. Len(c) : Back(c, k)
  BY <1>1, <1>4 DEF Back
<1>8. \A w \in Writers : writer[w].pc = "idle"
  BY <1>1 DEF Idle
<1>9. ReaderInv(c)
  BY <1>1 DEF ReaderInv, Off
<1>10. OnList(c)
  BY <1>6, <1>7, <1>8, <1>9 DEF OnList, WriterInv, Busy
<1>11. Chain = c
  BY <1>6, ChainIs
<1>12. OnList(Chain)
  BY <1>10, <1>11
<1> QED
  BY <1>3, <1>12 DEF ListInv

(* It does not look at anything else. *)
LEMMA ListInvStays ==
    ASSUME ListInv, UNCHANGED listVars
    PROVE  ListInv'
<1>1. next' = next /\ prev' = prev /\ name' = name /\ writer' = writer /\ reader' = reader /\ raced' = raced
  BY DEF listVars
<1>2. ListTypes'
  BY <1>1 DEF ListInv, ListTypes, ListTypeOK
<1>3. ASSUME NEW c, OnList(c) PROVE OnList(c)'
  <2>1. Linked(c)'
    BY <1>1, <1>3 DEF OnList, Linked, LinkAt, Distinct
  <2>2. \A v, w \in Writers : Busy(v)' /\ Busy(w)' => v = w
    BY <1>1, <1>3 DEF OnList, Busy
  <2>3. (\A w \in Writers : writer'[w].pc # "publish") => \A k \in 0 .. Len(c) : Back(c, k)'
    BY <1>1, <1>3 DEF OnList, Back, LinkAt
  <2>4. ASSUME NEW w \in Writers PROVE WriterInv(w, c)'
    <3>1. WriterInv(w, c)
      BY <1>3 DEF OnList
    <3>2. Unpublished(w, c)' <=> Unpublished(w, c)
      BY <1>1 DEF Unpublished, Back, LinkAt
    <3>3. Walked(w, c)' <=> Walked(w, c)
      BY <1>1 DEF Walked, LinkAt
    <3>4. NamesOf(c)' = NamesOf(c)
      BY <1>1 DEF NamesOf
    <3> QED
      BY <1>1, <3>1, <3>2, <3>3, <3>4 DEF WriterInv
  <2>5. ReaderInv(c)'
    BY <1>1, <1>3 DEF OnList, ReaderInv, LinkAt, Off
  <2> QED
    BY <2>1, <2>2, <2>3, <2>4, <2>5 DEF OnList
<1>4. ASSUME ~raced PROVE OnList(Chain)'
  <2>1. PICK c : c = Chain
    OBVIOUS
  <2>2. OnList(c)'
    BY <1>3, <1>4, <2>1 DEF ListInv
  <2>3. Chain' = c
    BY <2>2, ChainIs DEF OnList
  <2> QED
    BY <2>2, <2>3
<1> QED
  BY <1>1, <1>2, <1>4 DEF ListInv

(* Every step keeps the types. *)
LEMMA ListTypesStep ==
    ASSUME ListTypes, OnList(Chain), ListNext
    PROVE  ListTypes'
<1>1. /\ next \in [Link -> Link] /\ prev \in [Link -> Link] /\ name \in [Nodes -> Names \cup {"free"}]
      /\ raced \in BOOLEAN
      /\ writer \in [Writers -> WriterType] /\ reader \in ReaderType
  BY DEF ListTypes, ListTypeOK
<1>2. Idle \in WriterType /\ Off \in ReaderType /\ my_list \in Link /\ Nodes \subseteq Link
  BY DEF Idle, WriterType, Off, ReaderType, Link
<1>3. Chain \in Seq(Nodes) /\ NamesOf(Chain) \in Seq(Names)
  <2>1. PICK c : c = Chain
    OBVIOUS
  <2>2. c \in Seq(Nodes) /\ \A k \in 1 .. Len(c) : name[c[k]] \in Names
    BY <2>1 DEF OnList, Linked, Distinct
  <2>3. NamesOf(c) \in Seq(Names)
    <3>1. DOMAIN c = 1 .. Len(c) /\ Len(c) \in Nat
      BY <2>2
    <3> QED
      BY <2>2, <3>1 DEF NamesOf
  <2> QED
    BY <2>1, <2>2, <2>3
<1> USE DEF ListTypes, ListTypeOK
<1>4. ASSUME NEW w \in Writers PROVE writer[w] \in WriterType
  BY <1>1
<1>5. CASE ListInsmod \/ ListRmmod
  BY <1>1, <1>5 DEF ListInsmod, ListRmmod, listVars
<1>6. CASE Show
  <2>1. reader' \in ReaderType
    <3>1. next[my_list] \in Link
      BY <1>1, <1>2
    <3> QED
      BY <1>3, <1>6, <3>1 DEF Show, ReaderType
  <2> QED
    BY <1>1, <1>6, <2>1 DEF Show
<1>7. CASE ShowOne
  <2>1. reader' \in ReaderType
    <3> DEFINE a == next[reader.at]
               b == Append(reader.shown, reader.at)
    <3>1. a \in Link /\ b \in Seq(Nodes)
      <4>1. reader.at \in Nodes /\ reader.at \in Link /\ reader.shown \in Seq(Nodes)
        BY <1>1, <1>7 DEF ShowOne, ReaderType, Link
      <4> QED
        BY <1>1, <4>1, AppendProperties
    <3>2. reader' = [reader EXCEPT !.at = a, !.shown = b]
      BY <1>7 DEF ShowOne
    <3> HIDE DEF a, b
    <3> QED
      BY <1>1, <3>1, <3>2 DEF ReaderType
  <2> QED
    BY <1>1, <1>7, <2>1 DEF ShowOne
<1>8. CASE ShowEnds
  BY <1>1, <1>2, <1>8 DEF ShowEnds
<1>9. ASSUME NEW w \in Writers, NEW inst \in Insts, NEW nm \in Names, ListWrite(w, inst, nm)
      PROVE  ListTypes'
  <2> DEFINE a == next[my_list]
             b == next[next[my_list]]
             s == NamesOf(Chain)
             pc == IF Deletes(inst) THEN "walk" ELSE "link"
             new == [pc |-> pc, inst |-> inst, arg |-> nm, i |-> a, tmp |-> b, before |-> s]
  <2>1. a \in Link /\ b \in Link /\ s \in Seq(Names) /\ pc \in {"idle", "link", "publish", "walk"}
    BY <1>1, <1>2, <1>3
  <2>2. writer' = [writer EXCEPT ![w] = new]
    BY <1>9 DEF ListWrite
  <2> HIDE DEF a, b, s, pc
  <2>3. new \in WriterType
    BY <2>1 DEF WriterType
  <2> HIDE DEF new
  <2>4. writer' \in [Writers -> WriterType]
    BY <1>1, <2>2, <2>3
  <2>5. raced' \in BOOLEAN
    BY <1>9 DEF ListWrite
  <2> QED
    BY <1>1, <1>9, <2>4, <2>5 DEF ListWrite
<1>10. ASSUME NEW w \in Writers, Add(w) PROVE ListTypes'
  <2> DEFINE before == IF writer[w].inst = "addf" THEN my_list ELSE prev[my_list]
             after  == next[before]
  <2>1. before \in Link /\ after \in Link
    BY <1>1, <1>2
  <2>2. PICK n \in Free :
          /\ name' = [name EXCEPT ![n] = writer[w].arg]
          /\ next' = [next EXCEPT ![n] = after]
          /\ prev' = [prev EXCEPT ![n] = before, ![after] = n]
          /\ writer' = [writer EXCEPT ![w].pc = "publish", ![w].i = n, ![w].tmp = before]
    BY <1>10 DEF Add, LinkNew
  <2> HIDE DEF before, after
  <2>3. n \in Nodes /\ n \in Link
    BY <1>2 DEF Free
  <2>4. writer[w].pc = "link" /\ writer[w].arg \in Names
    BY <1>10 DEF Add, OnList, WriterInv
  <2>5. /\ name' \in [Nodes -> Names \cup {"free"}] /\ next' \in [Link -> Link] /\ prev' \in [Link -> Link]
    BY <1>1, <2>1, <2>2, <2>3, <2>4
  <2>6. writer' \in [Writers -> WriterType]
    <3>1. writer' = [writer EXCEPT ![w] = [writer[w] EXCEPT !.pc = "publish", !.i = n, !.tmp = before]]
      BY <1>1, <2>2
    <3>2. [writer[w] EXCEPT !.pc = "publish", !.i = n, !.tmp = before] \in WriterType
      BY <1>4, <2>1, <2>3 DEF WriterType
    <3> QED
      BY <1>1, <3>1, <3>2
  <2> QED
    BY <1>1, <1>10, <2>5, <2>6 DEF Add
<1>11. ASSUME NEW w \in Writers, Publish(w) PROVE ListTypes'
  <2>1. writer[w].i \in Link /\ writer[w].tmp \in Link
    BY <1>4 DEF WriterType
  <2> QED
    BY <1>1, <1>2, <1>11, <2>1 DEF Publish
<1>12. ASSUME NEW w \in Writers, Walk(w) PROVE ListTypes'
  <2> DEFINE i == writer[w].i
             s == writer[w].tmp
             t == next'[s]
  <2>1. i \in Nodes /\ i \in Link /\ s \in Link
    BY <1>4, <1>12 DEF WriterType, Link, Walk
  <2>2. next[i] \in Link /\ prev[i] \in Link
    BY <1>1, <2>1
  <2>3. /\ next' \in [Link -> Link] /\ prev' \in [Link -> Link] /\ name' \in [Nodes -> Names \cup {"free"}]
    <3>1. \/ /\ next' = [next EXCEPT ![prev[i]] = next[i], ![i] = i]
             /\ prev' = [prev EXCEPT ![next[i]] = prev[i], ![i] = i]
             /\ name' = [name EXCEPT ![i] = "free"]
          \/ UNCHANGED <<next, prev, name>>
      BY <1>12 DEF Walk
    <3> HIDE DEF i
    <3> QED
      BY <1>1, <2>1, <2>2, <3>1
  <2>4. writer' = [writer EXCEPT ![w] = IF name[i] = writer[w].arg /\ writer[w].inst = "delf" THEN Idle
                                        ELSE [writer[w] EXCEPT !.i = s, !.tmp = t]]
    BY <1>12 DEF Walk, Successor, StopsAtFirst
  <2>5. t \in Link
    BY <2>1, <2>3
  <2> HIDE DEF s, t, i
  <2>6. [writer[w] EXCEPT !.i = s, !.tmp = t] \in WriterType
    BY <1>4, <2>1, <2>5 DEF WriterType
  <2>7. writer' \in [Writers -> WriterType]
    BY <1>1, <1>2, <2>4, <2>6
  <2> QED
    BY <1>1, <1>12, <2>3, <2>7 DEF Walk
<1>13. ASSUME NEW w \in Writers, WalkEnds(w) PROVE ListTypes'
  BY <1>1, <1>2, <1>13 DEF WalkEnds
<1> QED
  BY <1>5, <1>6, <1>7, <1>8, <1>9, <1>10, <1>11, <1>12, <1>13 DEF ListNext

(* Every step keeps the invariant, or races. *)
LEMMA ListInvStep == ListInv /\ [Next]_vars => ListInv'
<1> SUFFICES ASSUME ListInv, [Next]_vars PROVE ListInv'
  OBVIOUS
<1>1. CASE UNCHANGED listVars
  BY <1>1, ListInvStays
<1>2. CASE ListNext
  <2>1. ListTypes /\ OnList(Chain) /\ ListTypes'
    BY <1>2, ListTypesStep DEF ListInv, ListNext
  <2>2. PICK c : c = Chain
    OBVIOUS
  <2>3. OnList(c)
    BY <2>1, <2>2
  <2>4. ASSUME ~raced' PROVE \E d : OnList(d)'
    <3>1. CASE ListInsmod \/ ListRmmod
      BY <3>1, ListInvStays, <2>4 DEF ListInsmod, ListRmmod, ListInv
    <3>2. CASE Show \/ ShowOne \/ ShowEnds
      BY <2>1, <2>3, <2>4, <3>2, ShowSteps
    <3>3. ASSUME NEW w \in Writers, NEW inst \in Insts, NEW nm \in Names, ListWrite(w, inst, nm)
          PROVE  \E d : OnList(d)'
      BY <2>1, <2>3, <2>4, <3>3, WriteStep
    <3>4. ASSUME NEW w \in Writers, Add(w) PROVE \E d : OnList(d)'
      BY <2>1, <2>3, <3>4, AddStep
    <3>5. ASSUME NEW w \in Writers, Publish(w) PROVE \E d : OnList(d)'
      <4>1. PICK p, n : p = Place(writer[w].inst, c) /\ n = writer[w].i
        OBVIOUS
      <4>2. OnList(Inserted(c, p, n))'
        BY <2>1, <2>3, <3>5, <4>1, PublishStep
      <4>3. PICK d : d = Inserted(c, p, n)
        OBVIOUS
      <4>4. OnList(d)'
        BY <4>2, <4>3
      <4> QED
        BY <4>4
    <3>6. ASSUME NEW w \in Writers, Walk(w) PROVE \E d : OnList(d)'
      <4>1. CASE name[writer[w].i] # writer[w].arg
        BY <2>1, <2>3, <3>6, <4>1, WalkOn
      <4>2. CASE name[writer[w].i] = writer[w].arg
        <5>1. PICK k \in 1 .. Len(c) : OnList(Removed(c, k))'
          BY <2>1, <2>3, <3>6, <4>2, WalkOff
        <5>2. PICK d : d = Removed(c, k)
          OBVIOUS
        <5>3. OnList(d)'
          BY <5>1, <5>2
        <5> QED
          BY <5>3
      <4> QED
        BY <4>1, <4>2
    <3>7. ASSUME NEW w \in Writers, WalkEnds(w) PROVE \E d : OnList(d)'
      BY <2>1, <2>3, <3>7, WalkEnd
    <3> QED
      BY <1>2, <3>1, <3>2, <3>3, <3>4, <3>5, <3>6, <3>7 DEF ListNext
  <2>5. ASSUME ~raced' PROVE OnList(Chain)'
    <3>1. PICK d : OnList(d)'
      BY <2>4, <2>5
    <3>2. Chain' = d
      BY <3>1, ChainIs DEF OnList
    <3> QED
      BY <3>1, <3>2
  <2> QED
    BY <2>1, <2>5 DEF ListInv
<1> QED
  BY <1>1, <1>2 DEF Next, Alone, vars

(* It holds always. *)
LEMMA ListInvHolds == Spec => []ListInv
BY ListInvInit, ListInvStep, PTL DEF Spec

(* A reader of the name list that overlaps only additions shows every name *)
(* that was there when it began, in order, and shows no node that is off   *)
(* the list, for any number of writers and any amount of memory: a node    *)
(* leads on to the list before the list leads to it.                       *)
THEOREM ShowsTheList == Spec => []ShowsWhatWasThere
<1>1. ListInv => ShowsWhatWasThere
  <2> SUFFICES ASSUME ListInv, ~raced PROVE ShowsWhatWasThere
    BY DEF ShowsWhatWasThere
  <2> DEFINE s == Len(reader.shown)
             t == Len(reader.start)
  <2>1. PICK c : c = Chain
    OBVIOUS
  <2>2. OnList(c) /\ reader \in ReaderType
    BY <2>1 DEF ListInv, ListTypes
  <2>3. s \in Nat /\ t \in Nat /\ reader.shown \in Seq(Nodes) /\ reader.start \in Seq(Nodes)
    BY <2>2 DEF ReaderType
  <2>4. CASE ~reader.on
    BY <2>2, <2>4 DEF OnList, ReaderInv, Off, ShowsWhatWasThere
  <2>5. CASE reader.on
    <3>1. PICK b \in 0 .. Len(c) :
                /\ b + s <= Len(c)
                /\ \A k \in 1 .. s : reader.shown[k] = c[b + k]
                /\ b + t <= Len(c)
                /\ \A k \in 1 .. t : reader.start[k] = c[b + k]
                /\ reader.at = my_list => t <= s
      BY <2>2, <2>5 DEF OnList, ReaderInv
    <3>2. Len(c) \in Nat /\ \A k \in 1 .. Len(c) : name[c[k]] \in Names
      BY <2>2, LinkAtType DEF OnList, Linked
    <3> HIDE DEF s, t
    <3>3. \A k \in 1 .. s : reader.shown[k] \notin Free
      <4>1. \A k \in 1 .. s : b + k \in 1 .. Len(c)
        BY <2>3, <3>1, <3>2
      <4> QED
        BY <3>1, <3>2, <4>1, NameListAssumption DEF Free
    <3>4. ASSUME reader.at = my_list PROVE SubSeq(reader.shown, 0 + 1, 0 + t) = reader.start /\ t \in 0 .. s - 0 /\ 0 \in 0 .. s
      <4>1. t <= s
        BY <3>1, <3>4
      <4> DEFINE u == SubSeq(reader.shown, 1, t)
      <4>2. \A k \in 1 .. t : reader.shown[k] \in Nodes
        BY <2>3, <4>1 DEF s
      <4>3. u \in Seq(Nodes) /\ Len(u) = t /\ \A k \in 1 .. t : u[k] = reader.shown[k]
        BY <2>3, <4>2, SubSeqProperties
      <4> HIDE DEF u
      <4>4. \A k \in 1 .. t : u[k] = reader.start[k]
        <5>1. \A k \in 1 .. t : k \in 1 .. s
          BY <2>3, <4>1
        <5> QED
          BY <3>1, <4>3, <5>1
      <4>5. u = reader.start
        BY <2>3, <4>3, <4>4, SeqEqual DEF t
      <4> QED
        BY <2>3, <4>1, <4>5 DEF u
    <3>5. DOMAIN reader.shown = 1 .. s
      BY <2>3 DEF s
    <3> QED
      BY <3>3, <3>4, <3>5 DEF ShowsWhatWasThere, s
  <2> QED
    BY <2>4, <2>5
<1> QED
  BY <1>1, ListInvHolds, PTL

(* What Effect says of each command. *)
LEMMA EffectIs ==
    ASSUME NEW s \in Seq(Names), NEW nm \in Names
    PROVE  /\ Effect("addf", nm, s) = <<nm>> \o s
           /\ Effect("adde", nm, s) = Append(s, nm)
           /\ Effect("dela", nm, s) = Others(s, nm)[Len(s)]
           /\ (\A k \in 1 .. Len(s) : s[k] # nm) => Effect("delf", nm, s) = s
           /\ \A k \in 1 .. Len(s) :
                 s[k] = nm /\ (\A j \in 1 .. k - 1 : s[j] # nm) =>
                    Effect("delf", nm, s) = SubSeq(s, 1, k - 1) \o SubSeq(s, k + 1, Len(s))
<1> DEFINE first == {k \in DOMAIN s : s[k] = nm /\ \A j \in 1 .. k - 1 : s[j] # nm}
<1>0. DOMAIN s = 1 .. Len(s) /\ Len(s) \in Nat
  OBVIOUS
<1>1. /\ Effect("addf", nm, s) = <<nm>> \o s
      /\ Effect("adde", nm, s) = Append(s, nm)
      /\ Effect("dela", nm, s) = Others(s, nm)[Len(s)]
  BY DEF Effect
<1>2. /\ first = {} => Effect("delf", nm, s) = s
      /\ \A k : first = {k} =>
            Effect("delf", nm, s) = SubSeq(s, 1, k - 1) \o SubSeq(s, k + 1, Len(s))
  BY DEF Effect
<1>3. (\A k \in 1 .. Len(s) : s[k] # nm) => first = {}
  BY <1>0
<1>4. ASSUME NEW k \in 1 .. Len(s), s[k] = nm, \A j \in 1 .. k - 1 : s[j] # nm
      PROVE  first = {k}
  <2>1. k \in first
    BY <1>0, <1>4
  <2>2. ASSUME NEW i \in first PROVE i = k
    <3>1. i \in 1 .. Len(s) /\ s[i] = nm /\ \A j \in 1 .. i - 1 : s[j] # nm
      BY <1>0
    <3>2. ~ (k \in 1 .. i - 1) /\ ~ (i \in 1 .. k - 1)
      BY <1>4, <3>1
    <3> QED
      BY <3>1, <3>2
  <2> QED
    BY <2>1, <2>2
<1> HIDE DEF first
<1> QED
  BY <1>1, <1>2, <1>3, <1>4

(* The names on the list a step leaves. *)
LEMMA NamesNow ==
    ASSUME NEW d, OnList(d)', NEW t \in Seq(Names), Len(t) = Len(d),
           \A j \in 1 .. Len(d) : name'[d[j]] = t[j]
    PROVE  NamesOf(Chain)' = t
<1>1. Chain' = d /\ Distinct(d)
  BY ChainIs DEF OnList, Linked, Distinct
<1>2. DOMAIN d = 1 .. Len(d) /\ DOMAIN t = 1 .. Len(t)
  BY <1>1 DEF Distinct
<1>3. NamesOf(d)' = [j \in 1 .. Len(d) |-> name'[d[j]]]
  BY <1>2 DEF NamesOf
<1>4. t = [j \in 1 .. Len(t) |-> t[j]]
  BY <1>2
<1>5. NamesOf(d)' = t
  BY <1>3, <1>4
<1> QED
  BY <1>1, <1>5

(* addf and adde have their effect when the node is published. *)
LEMMA PublishKept ==
    ASSUME ListTypes, NEW c, OnList(c), NEW w \in Writers, Publish(w)
    PROVE  NamesOf(Chain)' = Effect(writer[w].inst, writer[w].arg, writer[w].before)
<1> DEFINE s   == writer[w].before
           arg == writer[w].arg
<1>1. PICK p, n : p = Place(writer[w].inst, c) /\ n = writer[w].i
  OBVIOUS
<1>2. /\ p \in 0 .. Len(c) /\ n \in Nodes /\ \A k \in 1 .. Len(c) : c[k] # n
      /\ OnList(Inserted(c, p, n))'
  BY <1>1, PublishStep
<1>3. Distinct(c) /\ Len(c) \in Nat /\ DOMAIN c = 1 .. Len(c)
  BY LinkAtType DEF OnList, Linked, Distinct
<1> DEFINE d == Inserted(c, p, n)
<1>4. /\ Len(d) = Len(c) + 1
      /\ \A j \in 1 .. p : d[j] = c[j]
      /\ d[p + 1] = n
      /\ \A j \in p + 1 .. Len(c) : d[j + 1] = c[j]
  BY <1>2, <1>3, InsertedAt
<1>5. writer[w].pc = "publish" /\ name' = name /\ WriterInv(w, c)
  BY DEF Publish, OnList
<1>6. writer[w].inst \in {"addf", "adde"} /\ s = NamesOf(c) /\ arg \in Names /\ name[n] = arg
  BY <1>1, <1>5 DEF WriterInv, Unpublished
<1>7. s \in Seq(Names) /\ Len(s) = Len(c) /\ \A j \in 1 .. Len(c) : s[j] = name[c[j]]
  <2>1. \A k \in 1 .. Len(c) : name[c[k]] \in Names
    BY DEF OnList, Linked
  <2>2. s = [j \in 1 .. Len(c) |-> name[c[j]]]
    BY <1>3, <1>6 DEF NamesOf
  <2> HIDE DEF s
  <2> QED
    BY <1>3, <2>1, <2>2
<1> HIDE DEF d, s, arg
<1>8. CASE writer[w].inst = "addf"
  <2> DEFINE t == <<arg>> \o s
  <2>1. t \in Seq(Names) /\ Len(t) = Len(c) + 1 /\ t[1] = arg /\ \A j \in 1 .. Len(c) : t[j + 1] = s[j]
    <3> DEFINE a == <<arg>>
    <3>1. a \in Seq(Names) /\ Len(a) = 1 /\ a[1] = arg
      BY <1>6
    <3> HIDE DEF a
    <3>2. /\ a \o s \in Seq(Names) /\ Len(a \o s) = Len(a) + Len(s)
          /\ \A i \in 1 .. Len(a) + Len(s) : (a \o s)[i] = IF i <= Len(a) THEN a[i] ELSE s[i - Len(a)]
      <4>1. a \in Seq(Names) /\ s \in Seq(Names)
        BY <1>7, <3>1
      <4> QED
        BY <4>1, ConcatProperties, Zenon
    <3>3. t = a \o s
      BY DEF a
    <3> HIDE DEF t
    <3>4. 1 \in 1 .. 1 + Len(c) /\ \A j \in 1 .. Len(c) : j + 1 \in 1 .. 1 + Len(c) /\ ~(j + 1 <= 1) /\ j + 1 - 1 = j
      BY <1>3
    <3> QED
      BY <1>3, <1>7, <3>1, <3>2, <3>3, <3>4
  <2>2. p = 0
    BY <1>1, <1>8 DEF Place
  <2> HIDE DEF t
  <2>3. ASSUME NEW j \in 1 .. Len(d) PROVE name'[d[j]] = t[j]
    <3>1. CASE j = 1
      BY <1>4, <1>5, <1>6, <2>1, <2>2, <3>1
    <3>2. CASE j # 1
      <4>1. j - 1 \in 1 .. Len(c) /\ j - 1 \in p + 1 .. Len(c) /\ j - 1 + 1 = j
        BY <1>3, <1>4, <2>2, <3>2
      <4> QED
        BY <1>4, <1>5, <1>7, <2>1, <4>1
    <3> QED
      BY <3>1, <3>2
  <2>4. NamesOf(Chain)' = t
    BY <1>2, <1>4, <2>1, <2>3, NamesNow DEF d
  <2>5. Effect("addf", arg, s) = t
    BY <1>6, <1>7, EffectIs DEF t
  <2> QED
    BY <1>8, <2>4, <2>5 DEF s, arg
<1>9. CASE writer[w].inst = "adde"
  <2> DEFINE t == Append(s, arg)
  <2>1. t \in Seq(Names) /\ Len(t) = Len(c) + 1 /\ t[Len(c) + 1] = arg /\ \A j \in 1 .. Len(c) : t[j] = s[j]
    BY <1>6, <1>7, AppendProperties
  <2>2. p = Len(c)
    BY <1>1, <1>9 DEF Place
  <2> HIDE DEF t
  <2>3. ASSUME NEW j \in 1 .. Len(d) PROVE name'[d[j]] = t[j]
    <3>1. CASE j = Len(c) + 1
      BY <1>4, <1>5, <1>6, <2>1, <2>2, <3>1
    <3>2. CASE j # Len(c) + 1
      <4>1. j \in 1 .. Len(c) /\ j \in 1 .. p
        BY <1>3, <1>4, <2>2, <3>2
      <4> QED
        BY <1>4, <1>5, <1>7, <2>1, <4>1
    <3> QED
      BY <3>1, <3>2
  <2>4. NamesOf(Chain)' = t
    BY <1>2, <1>4, <2>1, <2>3, NamesNow DEF d
  <2>5. Effect("adde", arg, s) = t
    BY <1>6, <1>7, EffectIs DEF t
  <2> QED
    BY <1>9, <2>4, <2>5 DEF s, arg
<1> QED
  BY <1>6, <1>8, <1>9

(* delf has its effect when it finds the name. *)
LEMMA FirstGone ==
    ASSUME ListTypes, NEW c, OnList(c), NEW w \in Writers, Walk(w), ~Busy(w)'
    PROVE  NamesOf(Chain)' = Effect(writer[w].inst, writer[w].arg, writer[w].before)
<1> DEFINE s   == writer[w].before
           arg == writer[w].arg
<1>1. name[writer[w].i] = arg
  BY WalkOn
<1>2. PICK k \in 1 .. Len(c) :
              /\ OnList(Removed(c, k))'
              /\ \A j \in 1 .. Len(c) - 1 : name'[Removed(c, k)[j]] = name[Removed(c, k)[j]]
              /\ writer[w].inst = "delf"
              /\ Len(s) = Len(c) /\ s[k] = arg
              /\ \A j \in 1 .. Len(c) : name[c[j]] = s[j]
              /\ \A j \in 1 .. k - 1 : s[j] # arg
  BY <1>1, WalkOff, ZenonT(40)
<1>3. Distinct(c) /\ Len(c) \in Nat
  BY LinkAtType DEF OnList, Linked
<1> DEFINE d == Removed(c, k)
<1>4. /\ Len(d) = Len(c) - 1
      /\ \A j \in 1 .. k - 1 : d[j] = c[j]
      /\ \A j \in k .. Len(c) - 1 : d[j] = c[j + 1]
  BY <1>3, RemovedAt
<1>5. s \in Seq(Names) /\ arg \in Names
  <2>1. writer[w] \in WriterType /\ writer[w].pc = "walk" /\ WriterInv(w, c)
    BY DEF ListTypes, Walk, OnList
  <2> QED
    BY <2>1 DEF WriterType, WriterInv
<1> HIDE DEF d, s, arg
<1> DEFINE a == SubSeq(s, 1, k - 1)
           b == SubSeq(s, k + 1, Len(s))
           t == a \o b
<1>6. Effect("delf", arg, s) = t
  <2>1. k \in 1 .. Len(s) /\ s[k] = arg /\ \A j \in 1 .. k - 1 : s[j] # arg
    BY <1>2
  <2>2. s[k] = arg /\ (\A j \in 1 .. k - 1 : s[j] # arg) =>
           Effect("delf", arg, s) = SubSeq(s, 1, k - 1) \o SubSeq(s, k + 1, Len(s))
    BY <1>5, <2>1, EffectIs, Zenon
  <2> QED
    BY <2>1, <2>2
<1>7. /\ a \in Seq(Names) /\ Len(a) = k - 1 /\ \A j \in 1 .. k - 1 : a[j] = s[j]
  <2>1. \A j \in 1 .. k - 1 : s[j] \in Names
    BY <1>2, <1>3, <1>5
  <2>2. /\ a \in Seq(Names) /\ Len(a) = IF 1 <= k - 1 THEN k - 1 - 1 + 1 ELSE 0
        /\ \A j \in 1 .. k - 1 - 1 + 1 : a[j] = s[1 + j - 1]
    BY <2>1, SubSeqProperties
  <2>3. k - 1 - 1 + 1 = k - 1 /\ \A j \in 1 .. k - 1 : 1 + j - 1 = j
    OBVIOUS
  <2> HIDE DEF a
  <2>4. Len(a) = k - 1
    BY <2>2
  <2> QED
    BY <2>2, <2>3, <2>4
<1>8. /\ b \in Seq(Names) /\ Len(b) = Len(c) - k /\ \A j \in 1 .. Len(c) - k : b[j] = s[k + j]
  <2>1. \A j \in k + 1 .. Len(s) : s[j] \in Names
    BY <1>2, <1>3, <1>5
  <2>2. /\ b \in Seq(Names) /\ Len(b) = IF k + 1 <= Len(s) THEN Len(s) - (k + 1) + 1 ELSE 0
        /\ \A j \in 1 .. Len(s) - (k + 1) + 1 : b[j] = s[k + 1 + j - 1]
    BY <1>2, <1>3, <2>1, SubSeqProperties
  <2>3. Len(s) - (k + 1) + 1 = Len(c) - k /\ \A j \in 1 .. Len(c) - k : k + 1 + j - 1 = k + j
    BY <1>2, <1>3
  <2> HIDE DEF b
  <2>4. Len(b) = Len(c) - k
    BY <1>2, <1>3, <2>2
  <2> QED
    BY <2>2, <2>3, <2>4
<1> HIDE DEF a, b
<1>9. /\ t \in Seq(Names) /\ Len(t) = Len(c) - 1
      /\ \A j \in 1 .. k - 1 : t[j] = s[j]
      /\ \A j \in k .. Len(c) - 1 : t[j] = s[j + 1]
  <2>1. /\ t \in Seq(Names) /\ Len(t) = Len(a) + Len(b)
        /\ \A i \in 1 .. Len(a) + Len(b) : t[i] = IF i <= Len(a) THEN a[i] ELSE b[i - Len(a)]
    BY <1>7, <1>8, ConcatProperties
  <2> HIDE DEF t
  <2>2. Len(a) + Len(b) = Len(c) - 1
    BY <1>3, <1>7, <1>8
  <2>3. \A j \in 1 .. k - 1 : j \in 1 .. Len(c) - 1 /\ j <= Len(a)
    BY <1>3, <1>7
  <2>4. \A j \in k .. Len(c) - 1 :
           /\ j \in 1 .. Len(c) - 1 /\ ~(j <= Len(a)) /\ j - Len(a) = j - k + 1
           /\ j - k + 1 \in 1 .. Len(c) - k /\ k + (j - k + 1) = j + 1
    BY <1>3, <1>7
  <2>5. \A j \in 1 .. k - 1 : t[j] = s[j]
    BY <1>7, <2>1, <2>2, <2>3
  <2>6. ASSUME NEW j \in k .. Len(c) - 1 PROVE t[j] = s[j + 1]
    <3>1. t[j] = b[j - k + 1]
      BY <2>1, <2>2, <2>4
    <3>2. b[j - k + 1] = s[k + (j - k + 1)]
      BY <1>8, <2>4
    <3> QED
      BY <2>4, <3>1, <3>2
  <2> QED
    BY <2>1, <2>2, <2>5, <2>6
<1> HIDE DEF t
<1>10. ASSUME NEW j \in 1 .. Len(d) PROVE name'[d[j]] = t[j]
  <2>1. name'[d[j]] = name[d[j]]
    BY <1>2, <1>4 DEF d
  <2>2. CASE j < k
    <3>1. j \in 1 .. k - 1 /\ j \in 1 .. Len(c)
      BY <1>3, <1>4, <2>2
    <3> QED
      BY <1>2, <1>4, <1>9, <2>1, <3>1
  <2>3. CASE j >= k
    <3>1. j \in k .. Len(c) - 1 /\ j + 1 \in 1 .. Len(c)
      BY <1>3, <1>4, <2>3
    <3> QED
      BY <1>2, <1>4, <1>9, <2>1, <3>1
  <2> QED
    BY <2>2, <2>3
<1>11. NamesOf(Chain)' = t
  BY <1>2, <1>4, <1>9, <1>10, NamesNow DEF d
<1> QED
  BY <1>2, <1>6, <1>11 DEF s, arg

(* dela, and delf when it finds nothing, have theirs at the end. *)
LEMMA EndKept ==
    ASSUME ListTypes, NEW c, OnList(c), NEW w \in Writers, WalkEnds(w)
    PROVE  NamesOf(Chain)' = Effect(writer[w].inst, writer[w].arg, writer[w].before)
<1> DEFINE s   == writer[w].before
           arg == writer[w].arg
           t   == IF writer[w].inst = "dela" THEN Others(s, arg)[Len(s)] ELSE s
<1>1. /\ OnList(c)'
      /\ writer[w].inst \in {"delf", "dela"}
      /\ writer[w].inst = "delf" => \A j \in 1 .. Len(s) : s[j] # arg
      /\ t \in Seq(Names) /\ Len(t) = Len(c) /\ \A j \in 1 .. Len(c) : name[c[j]] = t[j]
  BY WalkEnd
<1>2. s \in Seq(Names) /\ arg \in Names /\ name' = name
  <2>1. writer[w] \in WriterType /\ writer[w].pc = "walk" /\ WriterInv(w, c)
    BY DEF ListTypes, WalkEnds, OnList
  <2> QED
    BY <2>1 DEF WriterType, WriterInv, WalkEnds
<1> HIDE DEF s, arg
<1>3. Effect(writer[w].inst, arg, s) = t
  <2>1. CASE writer[w].inst = "dela"
    BY <1>2, <2>1, EffectIs
  <2>2. CASE writer[w].inst = "delf"
    <3>1. (\A j \in 1 .. Len(s) : s[j] # arg) => Effect("delf", arg, s) = s
      BY <1>2, EffectIs
    <3> QED
      BY <1>1, <2>2, <3>1
  <2> QED
    BY <1>1, <2>1, <2>2
<1> HIDE DEF t
<1>4. NamesOf(Chain)' = t
  BY <1>1, <1>2, NamesNow
<1> QED
  BY <1>3, <1>4 DEF s, arg

(* A command that nothing overlapped leaves the names as it says: addf and *)
(* adde put one name at their end of the list, delf takes the first match  *)
(* away and dela every match, and nothing else changes, wherever in the    *)
(* ring the stores and the loop of a command are interrupted by a reader.  *)
THEOREM CommandsKept == Spec => NameCommands
<1>1. ListInv /\ [Next]_vars => [CommandsDoWhatTheySay]_vars
  <2> SUFFICES ASSUME ListInv, [Next]_vars, NEW w \in Writers, Busy(w), ~Busy(w)', ~raced'
               PROVE  NamesOf(Chain)' = Effect(writer[w].inst, writer[w].arg, writer[w].before)
    BY DEF CommandsDoWhatTheySay
  <2>1. writer' # writer
    BY DEF Busy
  <2>2. ListNext
    BY <2>1 DEF Next, Alone, vars, listVars
  <2>3. PICK c : c = Chain
    OBVIOUS
  <2>4. ListTypes /\ OnList(c)
    BY <2>2, <2>3 DEF ListInv, ListNext
  <2>5. writer \in [Writers -> WriterType]
    BY <2>4 DEF ListTypes
  <2>6. ASSUME NEW v \in Writers, v # w PROVE writer[v].pc = "idle"
    BY <2>4, <2>6, OthersIdle
  <2>7. PICK v \in Writers :
           \/ \E inst \in Insts, nm \in Names : ListWrite(v, inst, nm)
           \/ Add(v) \/ Publish(v) \/ Walk(v) \/ WalkEnds(v)
    BY <2>1, <2>2 DEF ListNext, ListInsmod, ListRmmod, Show, ShowOne, ShowEnds, listVars
  <2>8. v = w
    <3>1. ASSUME v # w PROVE writer'[w] = writer[w]
      BY <2>5, <2>7, <3>1 DEF ListWrite, Add, Publish, Walk, WalkEnds
    <3> QED
      BY <3>1 DEF Busy
  <2>9. Publish(w) \/ Walk(w) \/ WalkEnds(w)
    <3>1. ~ (\E inst \in Insts, nm \in Names : ListWrite(w, inst, nm))
      BY DEF ListWrite
    <3>2. ~ Add(w)
      BY <2>4, AddStep DEF Busy
    <3> QED
      BY <2>7, <2>8, <3>1, <3>2
  <2> QED
    BY <2>4, <2>9, PublishKept, FirstGone, EndKept
<1> QED
  BY <1>1, ListInvHolds, PTL DEF NameCommands, Spec
=============================================================================
