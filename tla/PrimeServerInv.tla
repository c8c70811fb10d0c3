--------------------------- MODULE PrimeServerInv --------------------------
(***************************************************************************)
(* The inductive invariant behind the safety properties of PrimeServer, in *)
(* parts, so that TLC can check it and PrimeServer_proofs can prove it.    *)
(***************************************************************************)
EXTENDS PrimeServer

(* A request has been read once the connection is past its first read, and *)
(* the slicing loop runs over multiples of SliceSize below N.              *)
ConnInv ==
    \A c \in Conns :
        /\ cpc[c] \in {"ack", "read_arr", "wait", "reply"} \cup Slicing => reqno[c] > 0
        /\ cpc[c] \in Slicing => i[c] < len[c] /\ i[c] % SliceSize = 0

(* A thread between lock and unlock is recorded as the holder.             *)
LockInv ==
    /\ \A c \in Conns : cpc[c] \in {"add", "unlock"} => mutex[in[c]] = c
    /\ \A w \in Workers : WorkerInside(w) => mutex[w] = w

(* A worker holds at most one job, and none while it is looking for one.   *)
HandInv ==
    \A w \in Workers :
        /\ wpc[w] \in {"lock", "pop"} => hand[w] = {}
        /\ \A a, b \in hand[w] : a = b

(* The number of slices of the current request already dealt. *)
Dealt(c) ==
    CASE cpc[c] \in {"lock", "add"} -> i[c] \div SliceSize
      [] cpc[c] = "unlock" -> (i[c] \div SliceSize) + 1
      [] OTHER -> NumBlocks(len[c])

(* An outstanding job belongs to a request already read; if that is the    *)
(* request being sliced, its slice is among those already dealt.           *)
DealtInv ==
    \A w \in Workers : \A j \in Outstanding(w) : \A c \in Conns :
        j.req[1] = c =>
            /\ j.req[2] <= reqno[c]
            /\ j.req = Req(c) =>
                  /\ cpc[c] \notin {"ack", "read_arr"}
                  /\ cpc[c] \in Slicing => j.flag_pos < Dealt(c)

(* Every slice dealt is finished or outstanding. *)
LiveInv ==
    \A c \in Conns : cpc[c] \in Slicing \cup {"wait"} =>
        \A k \in 0 .. Dealt(c) - 1 :
            \/ k \in flags[Req(c)]
            \/ \E w \in Workers : \E j \in Outstanding(w) :
                  j.req = Req(c) /\ j.flag_pos = k

(* The polling loop has seen the flags it has passed. *)
SeenInv ==
    \A c \in Conns :
        /\ cpc[c] = "wait" => \A k \in 0 .. i[c] - 1 : k \in flags[Req(c)]
        /\ cpc[c] = "reply" =>
              \A k \in 0 .. NumBlocks(len[c]) - 1 : k \in flags[Req(c)]

(* When malloc returns zeroed memory a flag is raised only by the worker   *)
(* that finished its slice.                                                *)
CleanInv ==
    /\ \A c \in Conns : cpc[c] \in Slicing =>
          \A k \in flags[Req(c)] : k < Dealt(c)
    /\ \A w \in Workers : \A j \in Outstanding(w) : \A c \in Conns : j.req = Req(c) =>
          /\ cpc[c] \in Slicing \cup {"wait"}
          /\ j.flag_pos \notin flags[Req(c)]
          /\ j.flag_pos < Dealt(c)

(* Nobody writes to the output array of a request before its slices are    *)
(* dealt.                                                                  *)
BlankInv ==
    \A c \in Conns : \A k \in 1 .. MaxReq :
        k > reqno[c] \/ (k = reqno[c] /\ cpc[c] \in {"ack", "read_arr"})
            => written[<<c, k>>] = {}

(* A request that fits in one slice: its job covers the whole array, the   *)
(* worker fills it from the front, and raises the flag when it is full.    *)
OneSlice(c) == Busy(c) /\ len[c] <= SliceSize

SliceFilled(c) ==
    /\ written[Req(c)] \subseteq 0 .. len[c] - 1
    /\ flags[Req(c)] # {} => 0 .. len[c] - 1 \subseteq written[Req(c)]

SliceRunning(c) ==
    \A w \in Workers : \A j \in Outstanding(w) : j.req = Req(c) =>
        /\ j.start = 0 /\ j.size = len[c]
        /\ wpc[w] = "work" /\ j \in hand[w] => 0 .. wi[w] - 1 \subseteq written[Req(c)]

OneSliceInv ==
    \A c \in Conns : OneSlice(c) => SliceFilled(c) /\ SliceRunning(c)

TypeInv  == TypeOK /\ ConnInv
QueueInv == TypeInv /\ LockInv /\ HandInv /\ DealtInv /\ SliceDealtOnce
FlagInv  == QueueInv /\ LiveInv /\ SeenInv

(* The inductive invariant for any heap, and the one for a zeroed heap. *)
ServerInv == FlagInv
ZeroInv   == FlagInv /\ CleanInv /\ NoOrphanJob
FillInv   == FlagInv /\ BlankInv /\ OneSliceInv
=============================================================================
