----------------------------- MODULE EchoServer ----------------------------
(***************************************************************************)
(* proj1/src/echosrv.c over proj1/src/echolib.c: a single-threaded server  *)
(* that accepts one connection at a time and echoes it line by line.       *)
(* readline collects a line from a buffer refilled by read, writen writes  *)
(* it out; both hide that read and write may transfer only a part.         *)
(*                                                                         *)
(* A byte is "c" (any character), "nl" (newline) or "nul", the terminator  *)
(* readline appends; clients send "c" and "nl".                            *)
(***************************************************************************)
EXTENDS Naturals, Sequences, SequencesExt

CONSTANTS
    MaxLine,   \* MAXLINE: the size of the line and of the read buffer
    MaxBytes,  \* bound: the bytes a client sends
    MaxConns   \* bound: the connections accepted

ASSUME EchoAssumption == MaxLine \in Nat \ {0, 1} /\ MaxBytes \in Nat /\ MaxConns \in Nat

Bytes == {"c", "nl", "nul"}

VARIABLES
    shutting_down,
    pc,        \* where the server is
    accepted,  \* the number of connections accepted
    sent,      \* what the client of this connection has sent
    hungup,    \* has it closed its end?
    unread,    \* what the server has not yet read of it
    read_buf,  \* the bytes of the buffer not yet taken: read_cnt of them
    line,      \* the line being collected, or what is left to write of it
    echoed,    \* what the server has written
    broken     \* has a system call failed?

clientVars == <<sent, hungup>>
bufVars    == <<unread, read_buf, line>>
vars == <<shutting_down, pc, accepted, clientVars, bufVars, echoed, broken>>

Init ==
    /\ shutting_down = FALSE
    /\ pc = "loop"
    /\ accepted = 0
    /\ sent = <<>> /\ hungup = FALSE
    /\ unread = <<>> /\ read_buf = <<>> /\ line = <<>>
    /\ echoed = <<>> /\ broken = FALSE

-----------------------------------------------------------------------------
(* The client. *)

Send(b) ==
    /\ pc \in {"read", "write"} /\ ~ hungup /\ Len(sent) < MaxBytes
    /\ sent' = Append(sent, b)
    /\ unread' = Append(unread, b)
    /\ UNCHANGED <<shutting_down, pc, accepted, hungup, read_buf, line, echoed, broken>>

HangUp ==
    /\ pc \in {"read", "write"} /\ ~ hungup
    /\ hungup' = TRUE
    /\ UNCHANGED <<shutting_down, pc, accepted, sent, bufVars, echoed, broken>>

-----------------------------------------------------------------------------
(* The server. *)

(* while (! shutting_down) of main. *)
MainLoop ==
    /\ pc = "loop"
    /\ pc' = IF shutting_down THEN "exited" ELSE "accept"
    /\ UNCHANGED <<shutting_down, accepted, clientVars, bufVars, echoed, broken>>

(* accept, server_handoff, and the first test of serve_connection's loop. *)
Accept ==
    /\ pc = "accept" /\ accepted < MaxConns
    /\ accepted' = accepted + 1
    /\ pc' = IF shutting_down THEN "quit" ELSE "read"
    /\ sent' = <<>> /\ hungup' = FALSE
    /\ unread' = <<>> /\ read_buf' = <<>> /\ line' = <<>>
    /\ echoed' = <<>> /\ broken' = FALSE
    /\ UNCHANGED shutting_down

(* get_one_char refills its buffer with whatever part read returns. *)
Refill ==
    /\ pc = "read" /\ read_buf = <<>>
    /\ \E n \in 1 .. MaxLine :
          /\ n <= Len(unread)
          /\ read_buf' = SubSeq(unread, 1, n)
          /\ unread' = SubSeq(unread, n + 1, Len(unread))
    /\ UNCHANGED <<shutting_down, pc, accepted, clientVars, line, echoed, broken>>

(* readline returns text: serve_connection goes on to writen, or quits. *)
Return(text) ==
    /\ line' = text
    /\ pc' = IF shutting_down THEN "quit" ELSE "write"

(* Mutant: the terminator of a complete line is counted too. *)
TakeCharCounted ==
    /\ pc = "read" /\ read_buf # <<>>
    /\ read_buf' = Tail(read_buf)
    /\ LET text == Append(line, Head(read_buf)) IN
          \/ /\ Head(read_buf) = "nl" \/ Len(text) = MaxLine - 1
             /\ Return(Append(text, "nul"))
          \/ /\ Head(read_buf) # "nl" /\ Len(text) # MaxLine - 1
             /\ line' = text
             /\ UNCHANGED pc
    /\ UNCHANGED <<shutting_down, accepted, clientVars, unread, echoed, broken>>

(* One iteration of readline.  A newline ends the line; when n reaches     *)
(* maxlen the terminator is counted in the length returned.                *)
TakeChar ==
    /\ pc = "read" /\ read_buf # <<>>
    /\ read_buf' = Tail(read_buf)
    /\ LET text == Append(line, Head(read_buf)) IN
          CASE Head(read_buf) = "nl"   -> Return(text)
            [] Head(read_buf) # "nl" /\ Len(text) = MaxLine - 1
                                       -> Return(Append(text, "nul"))
            [] OTHER                   -> line' = text /\ UNCHANGED pc
    /\ UNCHANGED <<shutting_down, accepted, clientVars, unread, echoed, broken>>

(* read returns 0.  With some data read, n is one more than the number of  *)
(* bytes stored: the terminator is counted here too.                       *)
EndOfFile ==
    /\ pc = "read" /\ read_buf = <<>> /\ unread = <<>> /\ hungup
    /\ \/ /\ line = <<>>
          /\ pc' = "quit"
          /\ UNCHANGED line
       \/ /\ line # <<>>
          /\ Return(Append(line, "nul"))
    /\ UNCHANGED <<shutting_down, accepted, clientVars, unread, read_buf, echoed, broken>>

(* Mutant: a short write is taken for a complete one. *)
WriteOnce ==
    /\ pc = "write"
    /\ \E n \in 1 .. MaxLine :
          /\ n <= Len(line)
          /\ echoed' = echoed \o SubSeq(line, 1, n)
    /\ line' = <<>>
    /\ pc' = IF shutting_down THEN "quit" ELSE "read"
    /\ UNCHANGED <<shutting_down, accepted, clientVars, unread, read_buf, broken>>

(* One iteration of writen; after the last, serve_connection looks at the  *)
(* flag.                                                                   *)
Write ==
    /\ pc = "write"
    /\ \E n \in 1 .. MaxLine :
          /\ n <= Len(line)
          /\ echoed' = echoed \o SubSeq(line, 1, n)
          /\ line' = SubSeq(line, n + 1, Len(line))
          /\ pc' = CASE n < Len(line) -> "write"
                     [] n = Len(line) -> IF shutting_down THEN "quit" ELSE "read"
    /\ UNCHANGED <<shutting_down, accepted, clientVars, unread, read_buf, broken>>

(* read or write fails: readline or writen returns -1. *)
CallFails ==
    /\ pc = "write" \/ (pc = "read" /\ read_buf = <<>>)
    /\ pc' = "quit"
    /\ broken' = TRUE
    /\ UNCHANGED <<shutting_down, accepted, clientVars, bufVars, echoed>>

(* accept fails with anything but EINTR: ERR_QUIT. *)
AcceptFails ==
    /\ pc = "accept"
    /\ pc' = "exited"
    /\ UNCHANGED <<shutting_down, accepted, clientVars, bufVars, echoed, broken>>

(* close (conn.sockfd), and back to main. *)
Close ==
    /\ pc = "quit"
    /\ pc' = "loop"
    /\ UNCHANGED <<shutting_down, accepted, clientVars, bufVars, echoed, broken>>

(* SIGINT.  If the process was blocked in a system call this fails with    *)
(* EINTR, which is not retried once shutting_down is set; if it was about  *)
(* to enter the call, nothing is interrupted.                              *)
Sigint ==
    /\ pc # "exited"
    /\ shutting_down' = TRUE
    /\ \/ pc' = pc
       \/ pc = "accept" /\ pc' = "loop"
       \/ /\ pc = "read" /\ read_buf = <<>> /\ unread = <<>> /\ ~ hungup
          /\ pc' = "quit"
       \/ pc = "write" /\ pc' = "quit"
    /\ UNCHANGED <<accepted, clientVars, bufVars, echoed, broken>>

ServerNext == MainLoop \/ Refill \/ TakeChar \/ EndOfFile \/ Write \/ Close

Next ==
    \/ \E b \in {"c", "nl"} : Send(b)
    \/ HangUp
    \/ Accept
    \/ ServerNext
    \/ CallFails \/ AcceptFails
    \/ Sigint

Spec == Init /\ [][Next]_vars

-----------------------------------------------------------------------------
(* Properties. *)

(* The line never outgrows its array.                                      *)
TypeOK ==
    /\ shutting_down \in BOOLEAN /\ hungup \in BOOLEAN /\ broken \in BOOLEAN
    /\ pc \in {"loop", "accept", "read", "write", "quit", "exited"}
    /\ accepted \in 0 .. MaxConns
    /\ {sent, unread} \subseteq Seq({"c", "nl"})
    /\ {read_buf, line, echoed} \subseteq Seq(Bytes)
    /\ Len(read_buf) <= MaxLine /\ Len(line) <= MaxLine

(* The characters among the bytes s: what is left without terminators.     *)
Texts(s) ==
    LET f[k \in 0 .. Len(s)] ==
            IF k = 0 THEN <<>>
            ELSE IF s[k] = "nul" THEN f[k - 1] ELSE Append(f[k - 1], s[k])
    IN  f

Text(s) == Texts(s)[Len(s)]

(* "Functions to hide complexity of stream I/O, in particular the problem  *)
(* of short reads and short writes" (echolib.c:3-4): whatever parts read   *)
(* and write transfer, no character is lost, repeated or overtaken by      *)
(* another.                                                                *)
EchoInOrder == IsPrefix(Text(echoed), sent)

(* No line of s fills the array before its newline comes. *)
ShortLines(s) ==
    \A k \in MaxLine - 1 .. Len(s) : \E j \in k - MaxLine + 2 .. k : s[j] = "nl"

(* The last line of s has its newline. *)
Ended(s) == s # <<>> => s[Len(s)] = "nl"

(* The clients whose lines come back exactly as they were sent: those      *)
(* whose lines are short enough for readline's array and that do not hang  *)
(* up in the middle of one.                                                *)
ShortLinesExact ==
    ShortLines(sent) /\ (hungup => Ended(sent)) => IsPrefix(echoed, sent)

(* The characters of a client that has hung up have been, or will be,      *)
(* echoed completely, unless a system call fails or the server is told to  *)
(* shut down.                                                              *)
EchoComplete ==
    hungup ~> Text(echoed) = sent \/ broken \/ shutting_down

(* What echolib.h:41-43 says of readline, "return actual number of bytes   *)
(* read; behavior similar to fgets", and driver.c:12-14 of the server:     *)
(* what it is sent is "echoed back correctly".  The code counts the        *)
(* terminator of a line that is cut or not ended as a byte read            *)
(* (echolib.c:75), and the server sends it back.                           *)
EchoExact == IsPrefix(echoed, sent)

-----------------------------------------------------------------------------
(***************************************************************************)
(* The inductive invariant behind the order.  It needs the bytes the code  *)
(* writes for those it has taken, the terminators among them: run is the   *)
(* length of the line so far, and a line of MaxLine - 1 bytes is cut.      *)
(* This describes the code; what a client should get is EchoExact.         *)
(***************************************************************************)
FrameStep(acc, b) ==
    CASE b = "nl" -> [out |-> Append(acc.out, b), run |-> 0]
      [] b # "nl" /\ acc.run + 1 = MaxLine - 1
                  -> [out |-> acc.out \o <<b, "nul">>, run |-> 0]
      [] OTHER    -> [out |-> Append(acc.out, b), run |-> acc.run + 1]

Frames(s) ==
    LET f[k \in 0 .. Len(s)] ==
            IF k = 0 THEN [out |-> <<>>, run |-> 0] ELSE FrameStep(f[k - 1], s[k])
    IN  f

(* All of them, with the terminator of an unfinished line at the end of    *)
(* the file.                                                               *)
Written(s, eof) ==
    LET all == Frames(s)[Len(s)]
    IN  IF eof /\ all.run > 0 THEN Append(all.out, "nul") ELSE all.out

WritesInOrder == IsPrefix(echoed, Written(sent, hungup))

(* readline has taken the first Got bytes of what was sent, the others are *)
(* in its buffer or on their way.                                          *)
Got == Len(sent) - Len(unread) - Len(read_buf)

Drained == hungup /\ read_buf = <<>> /\ unread = <<>>

(* What was written and the line are what the code writes for the bytes    *)
(* taken; after the end of file they are the whole of it, and nothing is   *)
(* left.                                                                   *)
EchoInv ==
    /\ TypeOK
    /\ WritesInOrder
    /\ pc \in {"read", "write"} =>
          /\ Got \in Nat
          /\ read_buf \o unread = SubSeq(sent, Got + 1, Len(sent))
          /\ \/ /\ echoed \o line = Frames(sent)[Got].out
                /\ Frames(sent)[Got].run = IF pc = "read" THEN Len(line) ELSE 0
             \/ /\ echoed \o line = Written(sent, TRUE) /\ Drained
                /\ pc = "read" => line = <<>>
=============================================================================
