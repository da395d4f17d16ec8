------------------------------ MODULE FramerRef ------------------------------
(***************************************************************************)
(* The reference decoder Scan, which walks a byte stream one byte at a    *)
(* time, and the properties that compare Lines::poll's window search and  *)
(* split, and what B's socket carries, with it.  Only TLC uses this        *)
(* module: it declares a RECURSIVE operator.                               *)
(***************************************************************************)
EXTENDS Framer

(* The reference decoder: split s at every CR LF pair, scanning left to    *)
(* right; rest is what follows the last pair.                              *)
RECURSIVE Scan(_, _, _, _)
Scan(s, i, cur, acc) ==
    IF i > Len(s) THEN [lines |-> acc, rest |-> cur]
    ELSE IF i < Len(s) /\ s[i] = CR /\ s[i + 1] = LF
         THEN Scan(s, i + 2, <<>>, Append(acc, cur))
         ELSE Scan(s, i + 1, Append(cur, s[i]), acc)

Decode(s) == Scan(s, 1, <<>>, <<>>)

(* Lines::poll frames exactly: the lines returned so far, followed by the  *)
(* lines still in rd, are the lines the reference decoder finds in the     *)
(* bytes read, and rd ends with the same unterminated tail.  When poll     *)
(* reports the end of the stream, everything A wrote has been read and     *)
(* every complete line returned: only an unterminated last line is         *)
(* dropped (line 516, spec section 3: "a stream closed mid-line discards   *)
(* the partial line").                                                     *)
LinesExact ==
    LET read == Decode(SubSeq(sent, 1, got))
    IN  /\ lines \o Decode(rd).lines = read.lines
        /\ Decode(rd).rest = read.rest
        /\ ended => /\ closed /\ got = Len(sent)
                    /\ Decode(rd).lines = <<>>

(* Round trip (spec section 8): what B's client decodes from the bytes B's *)
(* socket has carried and will carry (out, then wr) is exactly one         *)
(* `name: line` per line A sent after its name, in order, with nothing     *)
(* unterminated, however poll_flush cut the writes.                        *)
RoundTrip ==
    LET stream == Decode(out \o wr)
    IN  /\ stream.lines = [k \in 1 .. (Len(lines) - 1) |->
                             lines[1] \o <<Colon, Space>> \o lines[k + 1]]
        /\ stream.rest = <<>>

=============================================================================
