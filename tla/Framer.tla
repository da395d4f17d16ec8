------------------------------- MODULE Framer -------------------------------
(***************************************************************************)
(* The line codec of double_server.rs (struct Lines) at byte level, on the *)
(* path of one relayed line: client A writes bytes to its socket; A's task *)
(* reads them with Lines::poll (fill_read_buf, then the search for the     *)
(* first CR LF), takes the first line as its name (into_future in          *)
(* c_process) and formats every later line as `name: line\r\n`; the       *)
(* formatted line is buffered in receiver B's Lines::wr (Lines::buffer)    *)
(* and written out by B's Lines::poll_flush in chunks of whatever size the *)
(* socket accepts.  The mpsc channel between A's broadcast and B's drain   *)
(* is Relay's concern: here a formatted line goes straight to B's buffer.  *)
(*                                                                         *)
(* The reference decoder the framing is compared with is in FramerRef, so  *)
(* that this module reaches no RECURSIVE operator and FramerProofs can     *)
(* reason about it.                                                        *)
(***************************************************************************)
EXTENDS Naturals, Sequences

CONSTANTS
    Byte,    \* the bytes client A may write (CR and LF among them)
    MaxIn    \* bound on the bytes client A writes

CR == 13
LF == 10
Colon == 58
Space == 32

ASSUME FramerAssumption ==
    /\ Byte \subseteq Nat
    /\ {CR, LF} \subseteq Byte
    /\ MaxIn \in Nat

VARIABLES
    sent,    \* bytes client A has written to its socket
    closed,  \* client A has shut down its write side
    got,     \* how many of them read_buf has moved into A's Lines.rd
    rd,      \* A's Lines.rd
    lines,   \* the lines A's Lines::poll has returned (Ready(Some)), in order
    ended,   \* A's Lines::poll has returned Ready(None)
    failed,  \* A's Lines::poll has returned an error
    wr,      \* B's Lines.wr
    out      \* bytes B's poll_flush has written to B's socket

vars == <<sent, closed, got, rd, lines, ended, failed, wr, out>>

(* A mutant of FillReadBuf: a read of 0 bytes is taken for NotReady, so  *)
(* the end of the stream is never seen.                                    *)
FillReadBufNoEof ==
    [rd |-> rd \o SubSeq(sent, got + 1, Len(sent)), got |-> Len(sent),
     eof |-> FALSE]

(* fill_read_buf: read_buf until it returns NotReady (nothing pending) or  *)
(* 0 (the peer has shut down and everything has been read).  It reads all  *)
(* that is pending, so its result is Ready exactly when A has closed.      *)
FillReadBuf ==
    [rd |-> rd \o SubSeq(sent, got + 1, Len(sent)), got |-> Len(sent),
     eof |-> closed]

(* rd.windows(2).enumerate().find(..== b"\r\n"): the 1-based index of the  *)
(* first CR of a CR LF pair in b, 0 for none.                              *)
FirstCRLF(b) ==
    LET P == {i \in 1 .. (Len(b) - 1) : b[i] = CR /\ b[i + 1] = LF}
    IN  IF P = {} THEN 0 ELSE CHOOSE i \in P : \A j \in P : i <= j

(* A mutant of SplitLine: split_to(pos + 1) leaves the LF in rd.           *)
SplitLineShort(b, i) == [line |-> SubSeq(b, 1, i - 1), rest |-> SubSeq(b, i + 1, Len(b))]

(* rd.split_to(pos + 2), then line.split_off(pos): the line without its    *)
(* terminator, and what stays in rd.                                       *)
SplitLine(b, i) == [line |-> SubSeq(b, 1, i - 1), rest |-> SubSeq(b, i + 2, Len(b))]

(* A mutant of Format: the terminator is not appended.                     *)
FormatUnterminated(name, msg) == name \o <<Colon, Space>> \o msg

(* name, b": ", message, b"\r\n" (CPeer::poll).                             *)
Format(name, msg) == name \o <<Colon, Space>> \o msg \o <<CR, LF>>

(* Lines::buffer: append to wr.                                            *)
Buffer(b) == wr' = wr \o b

(* What A's task does with a returned line: the first is the name          *)
(* (into_future, then CPeer::new); every later one is formatted and        *)
(* queued for B.                                                           *)
HandleLine(l) ==
    /\ lines' = Append(lines, l)
    /\ IF lines = <<>> THEN UNCHANGED wr ELSE Buffer(Format(lines[1], l))

Init ==
    /\ sent = <<>> /\ closed = FALSE /\ got = 0
    /\ rd = <<>> /\ lines = <<>> /\ ended = FALSE /\ failed = FALSE
    /\ wr = <<>> /\ out = <<>>

ClientWrite(b) ==
    /\ ~closed /\ Len(sent) < MaxIn
    /\ sent' = Append(sent, b)
    /\ UNCHANGED <<closed, got, rd, lines, ended, failed, wr, out>>

ClientClose ==
    /\ ~closed
    /\ closed' = TRUE
    /\ UNCHANGED <<sent, got, rd, lines, ended, failed, wr, out>>

(* A mutant of Poll: Ready(None) is returned as soon as the socket has    *)
(* closed, before rd is searched for a line.                               *)
PollEofFirst ==
    /\ ~ended /\ ~failed
    /\ LET f == FillReadBuf
           i == FirstCRLF(f.rd)
       IN  /\ got' = f.got
           /\ \/ /\ f.eof
                 /\ rd' = f.rd
                 /\ ended' = TRUE
                 /\ UNCHANGED <<lines, wr>>
              \/ /\ ~f.eof /\ i # 0
                 /\ rd' = SplitLine(f.rd, i).rest
                 /\ HandleLine(SplitLine(f.rd, i).line)
                 /\ UNCHANGED ended
              \/ /\ ~f.eof /\ i = 0
                 /\ rd' = f.rd
                 /\ UNCHANGED <<ended, lines, wr>>
    /\ UNCHANGED <<sent, closed, failed, out>>

(* Lines::poll, the whole call: fill, then return the first line if rd     *)
(* holds one, else Ready(None) if the read hit end of stream, else         *)
(* NotReady.  Once it has ended or failed the task is gone.                *)
Poll ==
    /\ ~ended /\ ~failed
    /\ LET f == FillReadBuf
           i == FirstCRLF(f.rd)
       IN  /\ got' = f.got
           /\ \/ /\ i # 0
                 /\ rd' = SplitLine(f.rd, i).rest
                 /\ HandleLine(SplitLine(f.rd, i).line)
                 /\ UNCHANGED ended
              \/ /\ i = 0
                 /\ rd' = f.rd
                 /\ ended' = f.eof
                 /\ UNCHANGED <<lines, wr>>
    /\ UNCHANGED <<sent, closed, failed, out>>

(* read_buf fails: `?` in fill_read_buf and in poll ends A's task.         *)
PollError ==
    /\ ~ended /\ ~failed
    /\ failed' = TRUE
    /\ UNCHANGED <<sent, closed, got, rd, lines, ended, wr, out>>

(* A mutant of Flush: the written bytes are not split off wr.             *)
FlushNoSplit ==
    /\ wr # <<>>
    /\ \E n \in 1 .. Len(wr) :
         /\ out' = out \o SubSeq(wr, 1, n)
         /\ wr' = wr
    /\ UNCHANGED <<sent, closed, got, rd, lines, ended, failed>>

(* Lines::poll_flush on B: poll_write accepts some n > 0 bytes (assert n   *)
(* > 0) and split_to(n) discards them from wr; the loop ends when wr is    *)
(* empty or the socket returns NotReady, i.e. any prefix is written.       *)
Flush ==
    /\ wr # <<>>
    /\ \E n \in 1 .. Len(wr) :
         /\ out' = out \o SubSeq(wr, 1, n)
         /\ wr' = SubSeq(wr, n + 1, Len(wr))
    /\ UNCHANGED <<sent, closed, got, rd, lines, ended, failed>>

Next ==
    \/ \E b \in Byte : ClientWrite(b)
    \/ ClientClose
    \/ Poll
    \/ PollError
    \/ Flush

Spec == Init /\ [][Next]_vars

(* Tokio polls A's task whenever its socket becomes readable or reaches    *)
(* end of stream; B's socket eventually accepts bytes because B's client   *)
(* keeps reading.                                                          *)
FairSpec == Spec /\ WF_vars(Poll) /\ WF_vars(Flush)

-----------------------------------------------------------------------------

(* Type invariant.                                                          *)
TypeOK ==
    /\ sent \in Seq(Byte) /\ Len(sent) <= MaxIn
    /\ closed \in BOOLEAN /\ ended \in BOOLEAN /\ failed \in BOOLEAN
    /\ got \in 0 .. Len(sent)
    /\ rd \in Seq(Byte) /\ lines \in Seq(Seq(Byte))
    /\ wr \in Seq(Nat) /\ out \in Seq(Nat)

(* No CR LF pair inside b.                                                 *)
NoCRLF(b) == \A j \in 1 .. Len(b) - 1 : ~(b[j] = CR /\ b[j + 1] = LF)

(* What Lines::poll returns and keeps is framed at the first CR LF: no    *)
(* returned line contains a CR LF pair (the window search finds the first *)
(* pair and split_to/split_off cut exactly there); rd is always the last  *)
(* bytes read, in order, with none lost or repeated by fill_read_buf and  *)
(* split_to; and Ready(None) (line 516) comes only after A has closed,   *)
(* everything has been read and no complete line is left in rd.           *)
PollFrames ==
    /\ \A k \in 1 .. Len(lines) : NoCRLF(lines[k])
    /\ \E k \in 0 .. got : rd = SubSeq(sent, k + 1, got)
    /\ ended => closed /\ got = Len(sent) /\ NoCRLF(rd)

(* One step's effect on what B's socket has carried and will carry: out  *)
(* only grows, and out \o wr is either unchanged (poll_flush moves bytes *)
(* from wr to the socket and split_to discards exactly them) or extended *)
(* by the one line A's poll has just returned, formatted (buffer).        *)
StreamStep ==
    /\ Len(out) <= Len(out') /\ SubSeq(out', 1, Len(out)) = out
    /\ \/ out' \o wr' = out \o wr
       \/ /\ lines # <<>> /\ Len(lines') = Len(lines) + 1
          /\ out' \o wr' = (out \o wr) \o Format(lines[1], lines'[Len(lines')])

(* Every step of the codec changes B's stream only as StreamStep allows:  *)
(* no byte written to B's socket is lost, repeated or reordered, and only  *)
(* formatted lines of A are added.                                         *)
StreamExtends == [][StreamStep]_vars

(* Once client A has closed, A's task eventually reports the end of the    *)
(* stream (after returning every complete line) and B's buffer is          *)
(* eventually written out, unless a read failed.                           *)
EndDelivered == closed ~> (failed \/ (ended /\ wr = <<>>))

=============================================================================
