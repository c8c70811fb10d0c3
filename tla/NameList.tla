------------------------------ MODULE NameList ------------------------------
(***************************************************************************)
(* The name list of lab10 (list.c): /proc/list/management takes commands,  *)
(* /proc/list/preview shows the names.  The list is a kernel list_head     *)
(* ring that no lock protects.  A writer that overlaps another, or a       *)
(* deletion that overlaps a reader, touches memory the other is changing:  *)
(* from then on the program has no defined behaviour and the model stops   *)
(* (raced).  A reader may overlap a writer that adds.                      *)
(***************************************************************************)
EXTENDS KernelServices

CONSTANTS Names, Nodes,    \* Nodes: the memory kmalloc hands out, a bound
          Writers, my_list   \* my_list: the list_head, not a node

ASSUME NameListAssumption ==
    IsFiniteSet(Nodes) /\ my_list \notin Nodes /\ "free" \notin Names

VARIABLES next, prev,      \* the links of the ring
          name,            \* name of each allocated node, "free" otherwise
          writer,          \* writer: its command, program counter, cursors
          reader,          \* [on, at, shown, start]: the show function
          raced

listVars == <<next, prev, name, writer, reader, raced>>

Link == Nodes \cup {my_list}
Free == {n \in Nodes : name[n] = "free"}
Insts == {"addf", "adde", "delf", "dela"}

(* Nodes from n on, in the order of the next links. *)
From(n) ==
    LET walk[k \in 0 .. Cardinality(Nodes) + 1] ==
            IF k = 0 THEN <<n>>
            ELSE IF walk[k - 1][Len(walk[k - 1])] = my_list THEN walk[k - 1]
            ELSE Append(walk[k - 1], next[walk[k - 1][Len(walk[k - 1])]])
        all == walk[Cardinality(Nodes) + 1]
    IN  SubSeq(all, 1, Len(all) - 1)

Chain == From(next[my_list])
NamesOf(s) == [k \in DOMAIN s |-> name[s[k]]]

Off  == [on |-> FALSE, at |-> my_list, shown |-> <<>>, start |-> <<>>]
Idle == [pc |-> "idle", inst |-> "none", arg |-> my_list, i |-> my_list, tmp |-> my_list, before |-> <<>>]

ListInit ==
    /\ next = [l \in Link |-> l] /\ prev = [l \in Link |-> l]
    /\ name = [n \in Nodes |-> "free"]
    /\ writer = [w \in Writers |-> Idle]
    /\ reader = Off
    /\ raced = FALSE

Busy(w) == writer[w].pc # "idle"
Deletes(inst) == inst \in {"delf", "dela"}

(***************************************************************************)
(* list_write: one command, parsed from the bytes written.  A command word *)
(* that is not known does nothing; a command without a name would use an   *)
(* uninitialised pointer and is left out.                                  *)
(***************************************************************************)
ListWrite(w, inst, nm) ==
    /\ mstate = "live" /\ ~Busy(w)
    /\ inst \in {"addf", "adde"} => Free # {}
    /\ raced' = (\/ \E v \in Writers \ {w} : Busy(v)
                 \/ reader.on /\ Deletes(inst))
    /\ writer' = [writer EXCEPT ![w] =
          [pc |-> IF Deletes(inst) THEN "walk" ELSE "link",
           inst |-> inst, arg |-> nm, i |-> next[my_list],
           tmp |-> next[next[my_list]],
           before |-> NamesOf(Chain)]]
    /\ UNCHANGED <<services, next, prev, name, reader>>

(* Mutant: the new node is published before it points anywhere. *)
LinkLate(n, before, after) ==
    /\ next' = [next EXCEPT ![before] = n]
    /\ prev' = [prev EXCEPT ![n] = before, ![after] = n]

(* __list_add: the links of the new node and the way back. *)
LinkNew(n, before, after) ==
    /\ next' = [next EXCEPT ![n] = after]
    /\ prev' = [prev EXCEPT ![n] = before, ![after] = n]

(* addf_name and adde_name: a new node behind the head or before it. *)
Add(w) ==
    /\ writer[w].pc = "link"
    /\ \E n \in Free :
          LET before == IF writer[w].inst = "addf" THEN my_list ELSE prev[my_list]
          IN  /\ name' = [name EXCEPT ![n] = writer[w].arg]
              /\ LinkNew(n, before, next[before])
              /\ writer' = [writer EXCEPT ![w].pc = "publish", ![w].i = n, ![w].tmp = before]
    /\ UNCHANGED <<services, reader, raced>>

(* The last store of __list_add makes the node visible to readers. *)
Publish(w) ==
    /\ writer[w].pc = "publish"
    /\ next' = [next EXCEPT ![writer[w].tmp] = writer[w].i]
    /\ writer' = [writer EXCEPT ![w] = Idle]
    /\ UNCHANGED <<services, prev, name, reader, raced>>

(* Mutant: delf goes on after the first match. *)
StopsAlways(inst) == FALSE

StopsAtFirst(inst) == inst = "delf"

(* list_for_each_safe: the successor was read before the body. *)
Successor(i, tmp) == tmp

(* delf_name and dela_name: one turn of the loop. *)
Walk(w) ==
    LET i     == writer[w].i
        match == name[i] = writer[w].arg
        s     == Successor(i, writer[w].tmp)
    IN  /\ writer[w].pc = "walk" /\ i # my_list
        /\ IF match
           THEN /\ next' = [next EXCEPT ![prev[i]] = next[i], ![i] = i] \* poisoned
                /\ prev' = [prev EXCEPT ![next[i]] = prev[i], ![i] = i]
                /\ name' = [name EXCEPT ![i] = "free"]
           ELSE UNCHANGED <<next, prev, name>>
        /\ writer' = [writer EXCEPT ![w] =
              IF match /\ StopsAtFirst(writer[w].inst) THEN Idle
              ELSE [writer[w] EXCEPT !.i = s, !.tmp = next'[s]]]
        /\ UNCHANGED <<services, reader, raced>>

WalkEnds(w) ==
    /\ writer[w].pc = "walk" /\ writer[w].i = my_list
    /\ writer' = [writer EXCEPT ![w] = Idle]
    /\ UNCHANGED <<services, next, prev, name, reader, raced>>

(***************************************************************************)
(* list_proc_show                                                          *)
(***************************************************************************)
Show ==
    /\ mstate = "live" /\ ~reader.on
    /\ reader' = [on |-> TRUE, at |-> next[my_list], shown |-> <<>>, start |-> Chain]
    /\ raced' = \E w \in Writers : writer[w].pc = "walk"
    /\ UNCHANGED <<services, next, prev, name, writer>>

ShowOne ==
    /\ reader.on /\ reader.at # my_list
    /\ reader' = [reader EXCEPT !.at = next[reader.at], !.shown = Append(@, reader.at)]
    /\ UNCHANGED <<services, next, prev, name, writer, raced>>

ShowEnds ==
    /\ reader.on /\ reader.at = my_list
    /\ reader' = Off
    /\ UNCHANGED <<services, next, prev, name, writer, raced>>

ListInsmod == /\ Insmod
              /\ UNCHANGED <<listVars, refs, armed, running>>

(* proc_remove waits for the calls in progress; the nodes are not freed. *)
ListRmmod == /\ ~reader.on /\ \A w \in Writers : ~Busy(w)
             /\ Rmmod
             /\ UNCHANGED <<listVars, refs, armed, running>>

ListNext ==
    /\ ~raced
    /\ \/ ListInsmod \/ ListRmmod \/ Show \/ ShowOne \/ ShowEnds
       \/ \E w \in Writers :
             \/ \E inst \in Insts, nm \in Names : ListWrite(w, inst, nm)
             \/ Add(w) \/ Publish(w) \/ Walk(w) \/ WalkEnds(w)

(***************************************************************************)
(* Properties                                                              *)
(***************************************************************************)
ListTypeOK ==
    /\ next \in [Link -> Link] /\ prev \in [Link -> Link]
    /\ name \in [Nodes -> Names \cup {"free"}]
    /\ raced \in BOOLEAN

(* The names other than nm among the first names of s. *)
Others(s, nm) ==
    LET others[m \in 0 .. Len(s)] ==
            IF m = 0 THEN <<>>
            ELSE IF s[m] = nm THEN others[m - 1]
            ELSE Append(others[m - 1], s[m])
    IN  others

(* What a command promises of the names. *)
Effect(inst, nm, s) ==
    LET first == {k \in DOMAIN s : s[k] = nm /\ \A j \in 1 .. k - 1 : s[j] # nm}
    IN  CASE inst = "addf" -> <<nm>> \o s
          [] inst = "adde" -> Append(s, nm)
          [] inst = "dela" -> Others(s, nm)[Len(s)]
          [] inst = "delf" /\ first = {} -> s
          [] inst = "delf" /\ first # {} ->
               LET k == CHOOSE j \in first : TRUE
               IN  SubSeq(s, 1, k - 1) \o SubSeq(s, k + 1, Len(s))

(* When a command that nothing overlapped has finished, the names are      *)
(* those before it with the command's effect.                              *)
CommandsDoWhatTheySay ==
    \A w \in Writers :
        Busy(w) /\ ~Busy(w)' /\ ~raced' =>
            NamesOf(Chain)' = Effect(writer[w].inst, writer[w].arg, writer[w].before)

(* A reader that overlaps only additions shows every name that was there   *)
(* when it began, in order, and never a node that is not on the list.      *)
ShowsWhatWasThere ==
    /\ ~raced => \A k \in DOMAIN reader.shown : reader.shown[k] \notin Free
    /\ ~raced /\ reader.on /\ reader.at = my_list =>
          \E c \in 0 .. Len(reader.shown) :
             \E d \in 0 .. Len(reader.shown) - c :
                SubSeq(reader.shown, c + 1, c + d) = reader.start

(***************************************************************************)
(* The inductive invariant behind both: while nothing has raced, there is  *)
(* a list c of nodes, the links follow it both ways, and the one writer    *)
(* and the reader are somewhere on it.                                     *)
(***************************************************************************)
WriterType ==
    [pc : {"idle", "link", "publish", "walk"}, inst : Insts \cup {"none"},
     arg : Names \cup {my_list}, i : Link, tmp : Link, before : Seq(Names)]

ReaderType == [on : BOOLEAN, at : Link, shown : Seq(Nodes), start : Seq(Nodes)]

(* Position k of the ring: the head is before the first and after the last.*)
LinkAt(c, k) == IF k \in 1 .. Len(c) THEN c[k] ELSE my_list

Distinct(c) == c \in Seq(Nodes) /\ \A j, k \in 1 .. Len(c) : c[j] = c[k] => j = k

Linked(c) ==
    /\ Distinct(c)
    /\ \A k \in 1 .. Len(c) : name[c[k]] \in Names
    /\ \A k \in 0 .. Len(c) : next[LinkAt(c, k)] = LinkAt(c, k + 1)

Back(c, k) == prev[LinkAt(c, k + 1)] = LinkAt(c, k)

(* The node a writer is about to publish knows its place; only the way     *)
(* back already leads over it.                                             *)
Unpublished(w, c) ==
    LET n == writer[w].i
        j == IF writer[w].inst = "addf" THEN 0 ELSE Len(c)
    IN  /\ n \in Nodes /\ name[n] = writer[w].arg /\ \A k \in 1 .. Len(c) : c[k] # n
        /\ writer[w].tmp = LinkAt(c, j)
        /\ next[n] = LinkAt(c, j + 1) /\ prev[n] = LinkAt(c, j) /\ prev[LinkAt(c, j + 1)] = n
        /\ \A k \in (0 .. Len(c)) \ {j} : Back(c, k)

(* The loop of a deletion is at position k of what is left of the list: of *)
(* the first m names the others are in front, the rest is as it was.       *)
Walked(w, c) ==
    LET s    == writer[w].before
        kept == Others(s, writer[w].arg)
    IN  \E k \in 1 .. Len(c) + 1, m \in 0 .. Len(s) :
           /\ writer[w].i = LinkAt(c, k) /\ writer[w].tmp = next[LinkAt(c, k)]
           /\ Len(c) = k - 1 + Len(s) - m
           /\ Len(kept[m]) = k - 1 /\ \A j \in 1 .. k - 1 : name[c[j]] = kept[m][j]
           /\ \A j \in 1 .. Len(s) - m : name[c[k - 1 + j]] = s[m + j]
           /\ writer[w].inst = "delf" =>
                 m = k - 1 /\ \A j \in 1 .. m : s[j] # writer[w].arg /\ name[c[j]] = s[j]

WriterInv(w, c) ==
    /\ writer[w].pc # "idle" => writer[w].arg \in Names
    /\ writer[w].pc \in {"link", "publish"} =>
          writer[w].inst \in {"addf", "adde"} /\ writer[w].before = NamesOf(c)
    /\ writer[w].pc = "publish" => Unpublished(w, c)
    /\ writer[w].pc = "walk" => writer[w].inst \in {"delf", "dela"} /\ Walked(w, c)

(* What the reader has shown is the list from some position b on, and so   *)
(* is what was there when it began.                                        *)
ReaderInv(c) ==
    /\ ~reader.on => reader = Off
    /\ reader.on =>
          /\ \A w \in Writers : writer[w].pc # "walk"
          /\ \E b \in 0 .. Len(c) :
                /\ b + Len(reader.shown) <= Len(c)
                /\ \A k \in 1 .. Len(reader.shown) : reader.shown[k] = c[b + k]
                /\ reader.at \in {LinkAt(c, b + Len(reader.shown) + 1), my_list}
                /\ b + Len(reader.start) <= Len(c)
                /\ \A k \in 1 .. Len(reader.start) : reader.start[k] = c[b + k]
                /\ reader.at = my_list => Len(reader.start) <= Len(reader.shown)

OnList(c) ==
    /\ Linked(c)
    /\ \A v, w \in Writers : Busy(v) /\ Busy(w) => v = w
    /\ (\A w \in Writers : writer[w].pc # "publish") => \A k \in 0 .. Len(c) : Back(c, k)
    /\ \A w \in Writers : WriterInv(w, c)
    /\ ReaderInv(c)

ListTypes ==
    ListTypeOK /\ writer \in [Writers -> WriterType] /\ reader \in ReaderType

ListInv == ListTypes /\ (~raced => OnList(Chain))
=============================================================================
