------------------------------ MODULE CharDev -------------------------------
(***************************************************************************)
(* One minor of the character device of lab11 (my_cdev.c); the five minors *)
(* share nothing.  open takes the device for one file at a time, read and  *)
(* write move the file's offset, an ioctl changes the size of the data.    *)
(* The buffer's contents matter only as far as where they come from.       *)
(***************************************************************************)
EXTENDS KernelServices

CONSTANTS Procs,        \* processes that open the device
          BUFSIZ,       \* bytes of the buffer
          BUFFER_SIZE,  \* bytes copied by MY_IOCTL_SET_BUFFER
          SizeT         \* 2^w: a size_t is a number below it

ASSUME CharDevAssumption ==
    /\ BUFSIZ \in Nat /\ BUFFER_SIZE \in 1 .. BUFSIZ
    /\ SizeT \in Nat /\ SizeT > 2 * BUFSIZ

VARIABLES access, size,
          file,    \* process: [open, off, pure, over] of its file; pure:
                   \* it has not written or set the size, over: it has read
                   \* beyond the data
          asked    \* process: what the open that is under way has found

cdevVars == <<access, size, file, asked>>

Closed == [open |-> FALSE, off |-> 0, pure |-> TRUE, over |-> FALSE]

CdevInit ==
    /\ access = 0 /\ size = 0
    /\ file = [p \in Procs |-> Closed]
    /\ asked = [p \in Procs |-> "no"]

(* my_init_module: the whole buffer counts as data, "hello" and zeros. *)
CdevInsmod ==
    /\ Insmod
    /\ access' = 0 /\ size' = BUFSIZ
    /\ UNCHANGED <<file, asked, refs, armed, running>>

CdevRmmod ==
    /\ Rmmod
    /\ UNCHANGED <<cdevVars, refs, armed, running>>

(* atomic_cmpxchg(&access, 0, 1): one step reads and writes. *)
Cmpxchg(p) == access' = 1

(* The reference to the module is taken before my_open is called, and      *)
(* given back by the VFS when my_open fails.                               *)
OpenFile(p) ==
    /\ ~file[p].open /\ asked[p] = "no"
    /\ ModuleGet
    /\ asked' = [asked EXCEPT ![p] = "open"]
    /\ UNCHANGED <<mstate, armed, running, access, size, file>>

MyOpen(p) ==
    /\ asked[p] = "open"
    /\ IF access = 0
       THEN /\ Cmpxchg(p)
            /\ asked' = [asked EXCEPT ![p] = "no"]
            /\ file' = [file EXCEPT ![p] = [Closed EXCEPT !.open = TRUE]]
       ELSE /\ asked' = [asked EXCEPT ![p] = "busy"]
            /\ UNCHANGED <<access, file>>
    /\ UNCHANGED <<services, size>>

(* Mutant: a failed open is released like a successful one. *)
FailedOpenReleases(p) ==
    /\ asked[p] = "busy"
    /\ ModulePut
    /\ access' = 0
    /\ asked' = [asked EXCEPT ![p] = "no"]
    /\ UNCHANGED <<mstate, armed, running, size, file>>

(* -EBUSY: my_release is not called for a file that was never opened. *)
FailedOpen(p) ==
    /\ asked[p] = "busy"
    /\ ModulePut
    /\ asked' = [asked EXCEPT ![p] = "no"]
    /\ UNCHANGED <<mstate, armed, running, access, size, file>>

MyRelease(p) ==
    /\ file[p].open
    /\ ModulePut
    /\ access' = 0
    /\ file' = [file EXCEPT ![p] = Closed]
    /\ UNCHANGED <<mstate, armed, running, size, asked>>

(***************************************************************************)
(* read, write, ioctl                                                      *)
(***************************************************************************)
my_min(a, b) == IF a <= b THEN a ELSE b

(* Mutant: the whole size is offered again and again. *)
ReadableAgain(off, n) == my_min(size, n)

(* size - *offset is computed without a sign. *)
Readable(off, n) == my_min((size - off) % SizeT, n)

(* An offset beyond the size reads on behind the data, also out of the     *)
(* buffer.  The copy may fail, and the offset stays.  Bound: the offset is *)
(* not followed beyond the buffer.                                         *)
MyRead(p, n) ==
    LET off == file[p].off
        end == off + Readable(off, n)
    IN  /\ file[p].open
        /\ \E to \in {off, end} :
              /\ to <= BUFSIZ
              /\ file' = [file EXCEPT ![p].off = to, ![p].over = IF end > size THEN TRUE ELSE @]
        /\ UNCHANGED <<services, access, size, asked>>

(* Bound: nothing is written behind the buffer (my_write does not check).  *)
(* The size of the data stays as it was.                                   *)
MyWrite(p, n) ==
    /\ file[p].open /\ file[p].off + n <= BUFSIZ /\ n + 1 < BUFSIZ
    /\ file' = [file EXCEPT ![p].off = @ + n, ![p].pure = FALSE]
    /\ UNCHANGED <<services, access, size, asked>>

(* copy_from_user may copy less than it was asked to. *)
SetBuffer(p, remains) ==
    /\ file[p].open
    /\ size' = BUFFER_SIZE - remains
    /\ file' = [file EXCEPT ![p].pure = FALSE]
    /\ UNCHANGED <<services, access, asked>>

CdevNext ==
    \/ CdevInsmod \/ CdevRmmod
    \/ \E p \in Procs :
          \/ OpenFile(p) \/ MyOpen(p) \/ FailedOpen(p) \/ MyRelease(p)
          \/ \E n \in 1 .. BUFSIZ : MyRead(p, n) \/ MyWrite(p, n)
          \/ \E r \in 0 .. BUFFER_SIZE : SetBuffer(p, r)

(***************************************************************************)
(* Properties                                                              *)
(***************************************************************************)
CdevTypeOK ==
    /\ access \in {0, 1} /\ size \in 0 .. BUFSIZ
    /\ file \in [Procs -> [open : BOOLEAN, off : 0 .. BUFSIZ, pure : BOOLEAN, over : BOOLEAN]]
    /\ asked \in [Procs -> {"no", "open", "busy"}]

(* At most one file is open, and access says whether one is; every open    *)
(* file keeps the module loaded.                                           *)
OneFileAtATime ==
    /\ Cardinality({p \in Procs : file[p].open}) = access
    /\ refs >= access
    /\ refs > 0 => mstate = "live"

(* Only a file that has itself written or set the size can read beyond the *)
(* data: one that has only been read is never ahead of them, whoever had   *)
(* the device before or asks for it now, and the unsigned size - offset is *)
(* the number of bytes left for it.                                        *)
ReadersStayInData ==
    \A p \in Procs :
        file[p].open /\ file[p].pure => file[p].off <= size /\ ~file[p].over

(* The processes that hold the module: a file is open or being opened. *)
CdevHolders == {p \in Procs : file[p].open \/ asked[p] # "no"}

(* The inductive form of the two. *)
CdevInv ==
    /\ CdevTypeOK
    /\ \A p \in Procs : asked[p] # "no" => ~file[p].open
    /\ \/ access = 0 /\ \A p \in Procs : ~file[p].open
       \/ access = 1 /\ \E q \in Procs : \A p \in Procs : file[p].open <=> p = q
    /\ ReadersStayInData
=============================================================================
