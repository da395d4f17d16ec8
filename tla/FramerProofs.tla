---------------------------- MODULE FramerProofs ----------------------------
(***************************************************************************)
(* Proofs about the line codec (Framer) for every byte alphabet and every *)
(* bound on what client A writes: the type invariant, PollFrames (what    *)
(* Lines::poll returns and keeps is framed at the first CR LF) and        *)
(* StreamExtends (B's outgoing byte stream only grows, by formatted       *)
(* lines).  LinesExact and RoundTrip compare with the RECURSIVE decoder   *)
(* of FramerRef and stay with TLC.                                         *)
(***************************************************************************)
EXTENDS Framer, QueueLemmas, WellFoundedInduction, TLAPS

-----------------------------------------------------------------------------
(* Facts about the operators of the codec, with no state.                  *)

(* A nonempty set of naturals has a least element.                         *)
LEMMA LeastExists ==
    ASSUME NEW T \in SUBSET Nat, T # {}
    PROVE  \E x \in T : \A y \in T : x <= y
<1>. DEFINE Lt == OpToRel(<, Nat)
<1>1. \E x \in T : \A y \in T : ~(<<y, x>> \in Lt)
    BY NatLessThanWellFounded, WFMin
<1>2. \A x, y \in Nat : <<y, x>> \in Lt <=> y < x
    BY Zenon DEF OpToRel
<1>. HIDE DEF Lt
<1>3. PICK x \in T : \A y \in T : ~(<<y, x>> \in Lt)
    BY <1>1
<1>4. \A y \in T : x <= y
    <2>. SUFFICES ASSUME NEW y \in T PROVE x <= y
        OBVIOUS
    <2>1. x \in Nat /\ y \in Nat /\ ~(<<y, x>> \in Lt)
        BY <1>3
    <2>2. ~(y < x)
        BY <1>2, <2>1
    <2>. QED  BY <2>1, <2>2
<1>. QED  BY <1>4

(* The window search: FirstCRLF(b) is 0 when b holds no CR LF pair, and   *)
(* otherwise the position of the first CR of the first pair.               *)
LEMMA FirstCRLFSpec ==
    ASSUME NEW b \in Seq(Nat)
    PROVE  \/ FirstCRLF(b) = 0 /\ NoCRLF(b)
           \/ /\ FirstCRLF(b) \in 1 .. Len(b) - 1
              /\ b[FirstCRLF(b)] = CR /\ b[FirstCRLF(b) + 1] = LF
              /\ \A j \in 1 .. FirstCRLF(b) - 1 : ~(b[j] = CR /\ b[j + 1] = LF)
<1>. DEFINE P == {i \in 1 .. (Len(b) - 1) : b[i] = CR /\ b[i + 1] = LF}
<1>1. FirstCRLF(b) = IF P = {} THEN 0 ELSE CHOOSE i \in P : \A j \in P : i <= j
    BY DEF FirstCRLF
<1>2. CASE P = {}
    BY <1>1, <1>2 DEF NoCRLF
<1>3. CASE P # {}
    <2>1. \E x \in P : \A y \in P : x <= y
        <3>1. P \in SUBSET Nat
            OBVIOUS
        <3>. QED  BY <1>3, <3>1, LeastExists
    <2>2. FirstCRLF(b) \in P /\ \A j \in P : FirstCRLF(b) <= j
        BY <1>1, <1>3, <2>1
    <2>. DEFINE f == FirstCRLF(b)
    <2>. HIDE DEF f
    <2>3. /\ f \in 1 .. Len(b) - 1 /\ b[f] = CR /\ b[f + 1] = LF
          /\ \A j \in P : f <= j
        BY <2>2 DEF f
    <2>4. \A j \in 1 .. f - 1 : ~(b[j] = CR /\ b[j + 1] = LF)
        <3>. SUFFICES ASSUME NEW j \in 1 .. f - 1, b[j] = CR, b[j + 1] = LF
                      PROVE  FALSE
            OBVIOUS
        <3>1. Len(b) \in Nat
            OBVIOUS
        <3>2. j \in P
            BY <2>3, <3>1
        <3>. QED  BY <2>3, <3>1, <3>2
    <2>. QED  BY <2>3, <2>4 DEF f
<1>. QED  BY <1>2, <1>3


(* A slice of a byte sequence is a byte sequence.                          *)
LEMMA SliceType ==
    ASSUME NEW S, NEW s \in Seq(S), NEW m \in Nat \ {0}, NEW n \in 0 .. Len(s)
    PROVE  SubSeq(s, m, n) \in Seq(S)
BY SubSeqProperties

(* A sequence of the alphabet's bytes is a sequence of naturals.           *)
LEMMA ByteSeqNat ==
    ASSUME NEW s \in Seq(Byte)
    PROVE  s \in Seq(Nat)
<1>1. Byte \subseteq Nat
    BY FramerAssumption
<1>. QED  BY <1>1, SeqMonotonic

(* The formatted line is a byte sequence.                                  *)
LEMMA FormatType ==
    ASSUME NEW name \in Seq(Nat), NEW msg \in Seq(Nat)
    PROVE  Format(name, msg) \in Seq(Nat)
<1>1. <<Colon, Space>> \in Seq(Nat) /\ <<CR, LF>> \in Seq(Nat)
    BY DEF CR, LF, Colon, Space
<1>2. name \o <<Colon, Space>> \in Seq(Nat)
    BY <1>1, ConcatProperties
<1>3. name \o <<Colon, Space>> \o msg \in Seq(Nat)
    BY <1>2, ConcatProperties
<1>. QED  BY <1>1, <1>3, ConcatProperties DEF Format

(* A suffix of a suffix is a suffix: split_to after split_to.           *)
LEMMA SuffixOfSuffix ==
    ASSUME NEW S, NEW s \in Seq(S), NEW a \in 0 .. Len(s), NEW b \in 0 .. Len(s) - a
    PROVE  SubSeq(SubSeq(s, a + 1, Len(s)), b + 1, Len(s) - a) = SubSeq(s, a + b + 1, Len(s))
<1>1. Len(s) \in Nat /\ \A i \in 1 .. Len(s) : s[i] \in S
    BY LenProperties
<1>. DEFINE t == SubSeq(s, a + 1, Len(s))
            u == SubSeq(t, b + 1, Len(s) - a)
            v == SubSeq(s, a + b + 1, Len(s))
<1>2. /\ t \in Seq(S) /\ Len(t) = Len(s) - a
      /\ \A i \in 1 .. Len(s) - a : t[i] = s[a + i]
    BY <1>1, SubSeqProperties
<1>. HIDE DEF t
<1>3. /\ u \in Seq(S) /\ Len(u) = Len(s) - a - b
      /\ \A i \in 1 .. Len(s) - a - b : u[i] = t[b + i]
    BY <1>1, <1>2, SubSeqProperties
<1>4. /\ v \in Seq(S) /\ Len(v) = Len(s) - a - b
      /\ \A i \in 1 .. Len(s) - a - b : v[i] = s[a + b + i]
    BY <1>1, SubSeqProperties
<1>5. \A i \in 1 .. Len(s) - a - b : u[i] = v[i]
    BY <1>1, <1>2, <1>3, <1>4
<1>. HIDE DEF u, v
<1>. QED  BY <1>3, <1>4, <1>5, SeqEqual DEF u, v

(* A slice that ends inside s is not changed by appending to s.            *)
LEMMA SliceAppend ==
    ASSUME NEW S, NEW s \in Seq(S), NEW e \in S, NEW m \in 1 .. Len(s) + 1,
           NEW n \in m - 1 .. Len(s)
    PROVE  SubSeq(Append(s, e), m, n) = SubSeq(s, m, n)
<1>1. /\ Append(s, e) \in Seq(S) /\ Len(Append(s, e)) = Len(s) + 1
      /\ \A i \in 1 .. Len(s) : Append(s, e)[i] = s[i]
    BY AppendProperties
<1>2. Len(s) \in Nat /\ \A i \in 1 .. Len(s) : s[i] \in S
    BY LenProperties
<1>3. /\ SubSeq(Append(s, e), m, n) \in Seq(S)
      /\ Len(SubSeq(Append(s, e), m, n)) = n - m + 1
      /\ \A i \in 1 .. n - m + 1 : SubSeq(Append(s, e), m, n)[i] = Append(s, e)[m + i - 1]
    BY <1>1, <1>2, SubSeqProperties
<1>4. /\ SubSeq(s, m, n) \in Seq(S) /\ Len(SubSeq(s, m, n)) = n - m + 1
      /\ \A i \in 1 .. n - m + 1 : SubSeq(s, m, n)[i] = s[m + i - 1]
    BY <1>2, SubSeqProperties
<1>. QED  BY <1>1, <1>2, <1>3, <1>4, SeqEqual

(* A prefix of b that stops before the first CR LF pair holds no pair.     *)
LEMMA PrefixNoCRLF ==
    ASSUME NEW b \in Seq(Nat), NEW i \in 1 .. Len(b),
           \A j \in 1 .. i - 1 : ~(b[j] = CR /\ b[j + 1] = LF)
    PROVE  NoCRLF(SubSeq(b, 1, i - 1))
<1>1. Len(b) \in Nat /\ \A j \in 1 .. Len(b) : b[j] \in Nat
    BY LenProperties
<1>2. /\ Len(SubSeq(b, 1, i - 1)) = i - 1
      /\ \A j \in 1 .. i - 1 : SubSeq(b, 1, i - 1)[j] = b[j]
    BY <1>1, SubSeqProperties
<1>. QED  BY <1>2 DEF NoCRLF

-----------------------------------------------------------------------------
(* Lines::poll as one step, read off the action: fill_read_buf appends    *)
(* every pending byte to rd, then either the first line is split off and  *)
(* handled, or rd is kept and the end of stream is reported if A closed.  *)
PollOutcome(F) ==
    /\ got' = Len(sent) /\ ~ended /\ ~failed
    /\ UNCHANGED <<sent, closed, failed, out>>
    /\ \/ /\ FirstCRLF(F) # 0
          /\ rd' = SubSeq(F, FirstCRLF(F) + 2, Len(F))
          /\ lines' = Append(lines, SubSeq(F, 1, FirstCRLF(F) - 1))
          /\ wr' = IF lines = <<>> THEN wr
                   ELSE wr \o Format(lines[1], SubSeq(F, 1, FirstCRLF(F) - 1))
          /\ ended' = ended
       \/ /\ FirstCRLF(F) = 0
          /\ rd' = F /\ ended' = closed
          /\ UNCHANGED <<lines, wr>>

LEMMA PollSteps ==
    ASSUME Poll
    PROVE  PollOutcome(rd \o SubSeq(sent, got + 1, Len(sent)))
BY DEF Poll, PollOutcome, FillReadBuf, SplitLine, HandleLine, Buffer

-----------------------------------------------------------------------------
(* Type correctness.                                                        *)

LEMMA InitTypeOK == Init => TypeOK
<1>. SUFFICES ASSUME Init PROVE TypeOK
    OBVIOUS
<1>1. /\ <<>> \in Seq(Byte) /\ <<>> \in Seq(Seq(Byte)) /\ <<>> \in Seq(Nat)
      /\ Len(<<>>) = 0
    BY EmptySeq
<1>2. /\ sent \in Seq(Byte) /\ rd \in Seq(Byte) /\ lines \in Seq(Seq(Byte))
      /\ wr \in Seq(Nat) /\ out \in Seq(Nat)
    BY <1>1 DEF Init
<1>3. Len(sent) <= MaxIn /\ got \in 0 .. Len(sent)
    BY <1>1, FramerAssumption DEF Init
<1>4. closed \in BOOLEAN /\ ended \in BOOLEAN /\ failed \in BOOLEAN
    BY DEF Init
<1>. QED  BY <1>2, <1>3, <1>4 DEF TypeOK

LEMMA PollType ==
    ASSUME TypeOK, Poll
    PROVE  TypeOK'
<1>. DEFINE F == rd \o SubSeq(sent, got + 1, Len(sent))
            i == FirstCRLF(F)
<1>1. /\ sent \in Seq(Byte) /\ got \in 0 .. Len(sent) /\ rd \in Seq(Byte)
      /\ lines \in Seq(Seq(Byte)) /\ wr \in Seq(Nat) /\ Byte \subseteq Nat
    BY FramerAssumption DEF TypeOK
<1>2. F \in Seq(Byte) /\ F \in Seq(Nat)
    <2>1. SubSeq(sent, got + 1, Len(sent)) \in Seq(Byte)
        BY <1>1, SliceType
    <2>2. F \in Seq(Byte)
        BY <1>1, <2>1, ConcatProperties DEF F
    <2>. QED  BY <2>2, ByteSeqNat
<1>. HIDE DEF F
<1>3. PollOutcome(F)
    BY PollSteps DEF F
<1>4. CASE i # 0
    <2>1. i \in 1 .. Len(F) - 1
        BY <1>2, <1>4, FirstCRLFSpec
    <2>2. SubSeq(F, i + 2, Len(F)) \in Seq(Byte)
          /\ SubSeq(F, 1, i - 1) \in Seq(Byte)
        BY <1>2, <2>1, SliceType
    <2>3. SubSeq(F, 1, i - 1) \in Seq(Nat)
        BY <2>2, ByteSeqNat
    <2>4. lines # <<>> => lines[1] \in Seq(Nat)
        <3>. SUFFICES ASSUME lines # <<>> PROVE lines[1] \in Seq(Nat)
            OBVIOUS
        <3>1. 1 \in 1 .. Len(lines)
            BY <1>1, EmptySeq, LenProperties
        <3>2. lines[1] \in Seq(Byte)
            BY <1>1, <3>1, ElementOfSeq
        <3>. QED  BY <3>2, ByteSeqNat
    <2>5. /\ rd' = SubSeq(F, i + 2, Len(F))
          /\ lines' = Append(lines, SubSeq(F, 1, i - 1))
          /\ wr' = IF lines = <<>> THEN wr ELSE wr \o Format(lines[1], SubSeq(F, 1, i - 1))
          /\ got' = Len(sent) /\ UNCHANGED <<sent, closed, failed, out, ended>>
        BY <1>3, <1>4 DEF PollOutcome
    <2>6. wr' \in Seq(Nat)
        <3>1. CASE lines = <<>>
            BY <1>1, <2>5, <3>1
        <3>2. CASE lines # <<>>
            <4>1. Format(lines[1], SubSeq(F, 1, i - 1)) \in Seq(Nat)
                BY <2>3, <2>4, <3>2, FormatType
            <4>. QED  BY <1>1, <2>5, <3>2, <4>1, ConcatProperties
        <3>. QED  BY <3>1, <3>2
    <2>7. lines' \in Seq(Seq(Byte))
        BY <1>1, <2>2, <2>5, AppendProperties
    <2>. QED  BY <1>1, <2>2, <2>5, <2>6, <2>7 DEF TypeOK
<1>5. CASE i = 0
    BY <1>1, <1>2, <1>3, <1>5 DEF PollOutcome, TypeOK
<1>. QED  BY <1>4, <1>5

LEMMA FlushType ==
    ASSUME TypeOK, Flush
    PROVE  TypeOK'
<1>1. wr \in Seq(Nat) /\ out \in Seq(Nat)
    BY DEF TypeOK
<1>2. PICK n \in 1 .. Len(wr) : /\ out' = out \o SubSeq(wr, 1, n)
                                /\ wr' = SubSeq(wr, n + 1, Len(wr))
    BY DEF Flush
<1>3. SubSeq(wr, 1, n) \in Seq(Nat) /\ SubSeq(wr, n + 1, Len(wr)) \in Seq(Nat)
    BY <1>1, SliceType
<1>. QED  BY <1>1, <1>2, <1>3 DEF Flush, TypeOK

LEMMA NextTypeOK == TypeOK /\ [Next]_vars => TypeOK'
<1>. SUFFICES ASSUME TypeOK, [Next]_vars PROVE TypeOK'
    OBVIOUS
<1>1. ASSUME NEW b \in Byte, ClientWrite(b) PROVE TypeOK'
    BY <1>1, FramerAssumption DEF ClientWrite, TypeOK
<1>2. CASE ClientClose \/ PollError
    BY <1>2 DEF ClientClose, PollError, TypeOK
<1>3. CASE Poll
    BY <1>3, PollType
<1>4. CASE Flush
    BY <1>4, FlushType
<1>5. CASE UNCHANGED vars
    BY <1>5 DEF vars, TypeOK
<1>. QED  BY <1>1, <1>2, <1>3, <1>4, <1>5 DEF Next


(* Tokio's scheduling aside, every reachable state of the codec is typed:  *)
(* what the read and write buffers hold are byte sequences.                *)
THEOREM FramerTypeCorrect == Spec => []TypeOK
BY InitTypeOK, NextTypeOK, PTL DEF Spec

-----------------------------------------------------------------------------
(* PollFrames.  It is inductive together with TypeOK: the witness k of    *)
(* the second conjunct is where the last line split off by split_to ended *)
(* in A's byte stream, and it moves to k + i + 1 when Lines::poll splits  *)
(* at the pair found at i.                                                 *)

LEMMA InitFrames == Init => PollFrames
<1>. SUFFICES ASSUME Init PROVE PollFrames
    OBVIOUS
<1>1. SubSeq(sent, 1, 0) = <<>>
    BY SubSeqEmpty
<1>2. Len(lines) = 0
    BY EmptySeq DEF Init
<1>3. rd = SubSeq(sent, 0 + 1, got) /\ 0 \in 0 .. got
    BY <1>1 DEF Init
<1>. QED  BY <1>2, <1>3 DEF Init, PollFrames

LEMMA WriteFrames ==
    ASSUME TypeOK, PollFrames, NEW b \in Byte, ClientWrite(b)
    PROVE  PollFrames'
<1>1. PICK k \in 0 .. got : rd = SubSeq(sent, k + 1, got)
    BY DEF PollFrames
<1>2. SubSeq(sent', k + 1, got) = SubSeq(sent, k + 1, got)
    <2>1. sent \in Seq(Byte) /\ got \in 0 .. Len(sent) /\ Len(sent) \in Nat
        BY LenProperties DEF TypeOK
    <2>2. k + 1 \in 1 .. Len(sent) + 1 /\ got \in (k + 1) - 1 .. Len(sent)
        BY <2>1
    <2>. QED  BY <2>1, <2>2, SliceAppend DEF ClientWrite
<1>3. ~ended
    BY DEF ClientWrite, PollFrames
<1>. QED  BY <1>1, <1>2, <1>3 DEF ClientWrite, PollFrames

LEMMA PollFramesStep ==
    ASSUME TypeOK, PollFrames, Poll
    PROVE  PollFrames'
<1>. DEFINE F == rd \o SubSeq(sent, got + 1, Len(sent))
<1>1. /\ sent \in Seq(Byte) /\ Len(sent) \in Nat /\ got \in 0 .. Len(sent)
      /\ lines \in Seq(Seq(Byte))
    BY LenProperties DEF TypeOK
<1>2. PICK k \in 0 .. got : rd = SubSeq(sent, k + 1, got)
    BY DEF PollFrames
<1>3. F = SubSeq(sent, k + 1, Len(sent))
    <2>1. /\ k + 1 \in 1 .. Len(sent) + 1 /\ got \in (k + 1) - 1 .. Len(sent)
          /\ Len(sent) \in got .. Len(sent)
        BY <1>1
    <2>2. SubSeq(sent, k + 1, got) \o SubSeq(sent, got + 1, Len(sent))
            = SubSeq(sent, k + 1, Len(sent))
        BY <1>1, <2>1, ConcatAdjacentSubSeq
    <2>. QED  BY <1>2, <2>2 DEF F
<1>. HIDE DEF F
<1>4. F \in Seq(Byte) /\ Len(F) = Len(sent) - k /\ Len(F) \in Nat
    <2>1. \A j \in (k + 1) .. Len(sent) : sent[j] \in Byte
        BY <1>1, LenProperties
    <2>2. /\ SubSeq(sent, k + 1, Len(sent)) \in Seq(Byte)
          /\ Len(SubSeq(sent, k + 1, Len(sent))) = Len(sent) - k
        BY <1>1, <2>1, SubSeqProperties
    <2>. QED  BY <1>1, <1>3, <2>2
<1>5. F \in Seq(Nat)
    BY <1>4, ByteSeqNat
<1>6. PollOutcome(F)
    BY PollSteps DEF F
<1>. DEFINE pos == FirstCRLF(F)
<1>7. CASE pos # 0
    <2>1. /\ pos \in 1 .. Len(F) - 1
          /\ \A j \in 1 .. pos - 1 : ~(F[j] = CR /\ F[j + 1] = LF)
        BY <1>5, <1>7, FirstCRLFSpec
    <2>2. /\ rd' = SubSeq(F, pos + 2, Len(F))
          /\ lines' = Append(lines, SubSeq(F, 1, pos - 1))
          /\ got' = Len(sent) /\ sent' = sent /\ ended' = ended /\ ~ended
        BY <1>6, <1>7 DEF PollOutcome
    <2>. HIDE DEF pos
    <2>3. NoCRLF(SubSeq(F, 1, pos - 1))
        <3>1. pos \in 1 .. Len(F)
            BY <1>4, <2>1
        <3>. QED  BY <1>5, <2>1, <3>1, PrefixNoCRLF
    <2>4. \A m \in 1 .. Len(lines') : NoCRLF(lines'[m])
        <3>1. SubSeq(F, 1, pos - 1) \in Seq(Byte)
            BY <1>4, <2>1, SliceType
        <3>2. /\ Len(lines') = Len(lines) + 1
              /\ \A m \in 1 .. Len(lines) : lines'[m] = lines[m]
              /\ lines'[Len(lines) + 1] = SubSeq(F, 1, pos - 1)
            BY <1>1, <2>2, <3>1, AppendProperties
        <3>3. Len(lines) \in Nat
            BY <1>1, LenProperties
        <3>4. \A m \in 1 .. Len(lines) : NoCRLF(lines[m])
            BY DEF PollFrames
        <3>. SUFFICES ASSUME NEW m \in 1 .. Len(lines') PROVE NoCRLF(lines'[m])
            OBVIOUS
        <3>5. CASE m \in 1 .. Len(lines)
            BY <3>2, <3>4, <3>5
        <3>6. CASE m = Len(lines) + 1
            BY <2>3, <3>2, <3>6
        <3>. QED  BY <3>2, <3>3, <3>5, <3>6
    <2>5. rd' = SubSeq(sent, k + (pos + 1) + 1, Len(sent))
        <3>1. pos + 1 \in 0 .. Len(sent) - k /\ k \in 0 .. Len(sent)
            BY <1>1, <1>4, <2>1
        <3>2. SubSeq(SubSeq(sent, k + 1, Len(sent)), (pos + 1) + 1, Len(sent) - k)
                = SubSeq(sent, k + (pos + 1) + 1, Len(sent))
            BY <1>1, <3>1, SuffixOfSuffix
        <3>3. rd' = SubSeq(SubSeq(sent, k + 1, Len(sent)), (pos + 1) + 1, Len(sent) - k)
            <4>1. pos + 2 = (pos + 1) + 1 /\ Len(F) = Len(sent) - k
                BY <1>4, <2>1
            <4>2. rd' = SubSeq(F, (pos + 1) + 1, Len(sent) - k)
                BY <2>2, <4>1
            <4>. QED  BY <1>3, <4>2, Zenon
        <3>. QED  BY <3>2, <3>3
    <2>6. \E k2 \in 0 .. got' : rd' = SubSeq(sent', k2 + 1, got')
        <3>1. k + (pos + 1) \in 0 .. got'
            BY <1>1, <1>4, <2>1, <2>2
        <3>2. rd' = SubSeq(sent', (k + (pos + 1)) + 1, got')
            BY <2>2, <2>5
        <3>. QED  BY <3>1, <3>2
    <2>. QED  BY <2>2, <2>4, <2>6 DEF PollFrames
<1>8. CASE pos = 0
    <2>1. NoCRLF(F)
        BY <1>5, <1>8, FirstCRLFSpec
    <2>2. /\ rd' = F /\ lines' = lines /\ ended' = closed
          /\ got' = Len(sent) /\ sent' = sent /\ closed' = closed
        BY <1>6, <1>8 DEF PollOutcome
    <2>3. \E k2 \in 0 .. got' : rd' = SubSeq(sent', k2 + 1, got')
        <3>1. k \in 0 .. got' /\ rd' = SubSeq(sent', k + 1, got')
            BY <1>1, <1>3, <2>2
        <3>. QED  BY <3>1
    <2>. QED  BY <2>1, <2>2, <2>3 DEF PollFrames
<1>. QED  BY <1>7, <1>8

LEMMA NextFrames == TypeOK /\ PollFrames /\ [Next]_vars => PollFrames'
<1>. SUFFICES ASSUME TypeOK, PollFrames, [Next]_vars PROVE PollFrames'
    OBVIOUS
<1>1. ASSUME NEW b \in Byte, ClientWrite(b) PROVE PollFrames'
    BY <1>1, WriteFrames
<1>2. CASE ClientClose
    BY <1>2 DEF ClientClose, PollFrames
<1>3. CASE Poll
    BY <1>3, PollFramesStep
<1>4. CASE PollError
    BY <1>4 DEF PollError, PollFrames
<1>5. CASE Flush
    BY <1>5 DEF Flush, PollFrames
<1>6. CASE UNCHANGED vars
    BY <1>6 DEF vars, PollFrames
<1>. QED  BY <1>1, <1>2, <1>3, <1>4, <1>5, <1>6 DEF Next

(* For every alphabet and every bound on what A writes, Lines::poll frames *)
(* at the first CR LF, keeps in rd exactly the unread tail of A's stream,  *)
(* and reports the end of the stream only after A closed and no line is    *)
(* left (PollFrames, checked by run framer_framing).                       *)
THEOREM PollFramesCorrect == Spec => []PollFrames
<1>1. Init => TypeOK /\ PollFrames
    BY InitTypeOK, InitFrames
<1>2. TypeOK /\ PollFrames /\ [Next]_vars => (TypeOK /\ PollFrames)'
    BY NextTypeOK, NextFrames
<1>. QED  BY <1>1, <1>2, PTL DEF Spec


-----------------------------------------------------------------------------
(* StreamExtends, one action at a time.                                    *)

(* s is the prefix of s \o t of its own length.                            *)
LEMMA PrefixOfConcat ==
    ASSUME NEW S, NEW s \in Seq(S), NEW t \in Seq(S)
    PROVE  Len(s) <= Len(s \o t) /\ SubSeq(s \o t, 1, Len(s)) = s
<1>1. /\ s \o t \in Seq(S) /\ Len(s \o t) = Len(s) + Len(t)
      /\ \A i \in 1 .. Len(s) + Len(t) : (s \o t)[i] = IF i <= Len(s) THEN s[i] ELSE t[i - Len(s)]
    BY ConcatProperties
<1>2. Len(s) \in Nat /\ Len(t) \in Nat
    BY LenProperties
<1>3. \A i \in 1 .. Len(s \o t) : (s \o t)[i] \in S
    BY <1>1, LenProperties
<1>4. /\ SubSeq(s \o t, 1, Len(s)) \in Seq(S)
      /\ Len(SubSeq(s \o t, 1, Len(s))) = Len(s)
      /\ \A i \in 1 .. Len(s) : SubSeq(s \o t, 1, Len(s))[i] = (s \o t)[i]
    BY <1>1, <1>2, <1>3, SubSeqProperties
<1>5. \A i \in 1 .. Len(s) : SubSeq(s \o t, 1, Len(s))[i] = s[i]
    BY <1>1, <1>2, <1>4
<1>. QED  BY <1>1, <1>2, <1>4, <1>5, SeqEqual

(* Regroup for byte streams.                                              *)
LEMMA RegroupNat ==
    ASSUME NEW a \in Seq(Nat), NEW b \in Seq(Nat), NEW c \in Seq(Nat)
    PROVE  (a \o b) \o c = a \o (b \o c)
BY Regroup

(* A step that leaves out and wr alone is a StreamStep.                    *)
LEMMA StayStream ==
    ASSUME TypeOK, out' = out, wr' = wr
    PROVE  StreamStep
<1>1. out \in Seq(Nat) /\ Len(out) \in Nat
    BY LenProperties DEF TypeOK
<1>2. SubSeq(out, 1, Len(out)) = out
    BY <1>1, SubSeqFull
<1>. QED  BY <1>1, <1>2 DEF StreamStep

(* poll_flush: the bytes written are the ones split off the front of wr.  *)
LEMMA FlushStream ==
    ASSUME TypeOK, Flush
    PROVE  StreamStep
<1>1. wr \in Seq(Nat) /\ out \in Seq(Nat)
    BY DEF TypeOK
<1>2. PICK n \in 1 .. Len(wr) : /\ out' = out \o SubSeq(wr, 1, n)
                                /\ wr' = SubSeq(wr, n + 1, Len(wr))
    BY DEF Flush
<1>3. SubSeq(wr, 1, n) \in Seq(Nat)
    BY <1>1, SliceType
<1>4. Len(out) <= Len(out') /\ SubSeq(out', 1, Len(out)) = out
    BY <1>1, <1>2, <1>3, PrefixOfConcat
<1>5. out' \o wr' = out \o wr
    <2>1. n \in 0 .. Len(wr)
        BY <1>1, LenProperties
    <2>. QED  BY <1>1, <1>2, <2>1, DrainSplit
<1>. QED  BY <1>4, <1>5 DEF StreamStep

(* Lines::poll on A: a returned line after the name is formatted and      *)
(* appended to B's wr; out is not touched.                                 *)
LEMMA PollStream ==
    ASSUME TypeOK, Poll
    PROVE  StreamStep
<1>. DEFINE F == rd \o SubSeq(sent, got + 1, Len(sent))
<1>1. /\ sent \in Seq(Byte) /\ got \in 0 .. Len(sent) /\ rd \in Seq(Byte)
      /\ lines \in Seq(Seq(Byte)) /\ wr \in Seq(Nat) /\ out \in Seq(Nat)
    BY DEF TypeOK
<1>2. F \in Seq(Byte) /\ F \in Seq(Nat)
    <2>1. SubSeq(sent, got + 1, Len(sent)) \in Seq(Byte)
        BY <1>1, SliceType
    <2>2. F \in Seq(Byte)
        BY <1>1, <2>1, ConcatProperties DEF F
    <2>. QED  BY <2>2, ByteSeqNat
<1>. HIDE DEF F
<1>3. PollOutcome(F)
    BY PollSteps DEF F
<1>. DEFINE pos == FirstCRLF(F)
            l == SubSeq(F, 1, pos - 1)
<1>4. CASE pos # 0 /\ lines # <<>>
    <2>1. pos \in 1 .. Len(F) - 1
        BY <1>2, <1>4, FirstCRLFSpec
    <2>2. /\ lines' = Append(lines, l)
          /\ wr' = wr \o Format(lines[1], l)
          /\ out' = out
        BY <1>3, <1>4 DEF PollOutcome
    <2>. HIDE DEF pos, l
    <2>3. l \in Seq(Byte) /\ l \in Seq(Nat)
        <3>1. l \in Seq(Byte)
            BY <1>2, <2>1, SliceType DEF l
        <3>. QED  BY <3>1, ByteSeqNat
    <2>4. lines[1] \in Seq(Nat)
        <3>1. 1 \in 1 .. Len(lines)
            BY <1>1, <1>4, EmptySeq, LenProperties
        <3>2. lines[1] \in Seq(Byte)
            BY <1>1, <3>1, ElementOfSeq
        <3>. QED  BY <3>2, ByteSeqNat
    <2>5. Format(lines[1], l) \in Seq(Nat)
        BY <2>3, <2>4, FormatType
    <2>6. Len(lines') = Len(lines) + 1 /\ lines'[Len(lines')] = l
        BY <1>1, <2>2, <2>3, AppendProperties
    <2>7. out' \o wr' = (out \o wr) \o Format(lines[1], lines'[Len(lines')])
        <3>. DEFINE fm == Format(lines[1], l)
        <3>. HIDE DEF fm
        <3>1. out \o (wr \o fm) = (out \o wr) \o fm
            <4>0. out \in Seq(Nat) /\ wr \in Seq(Nat) /\ fm \in Seq(Nat)
                BY <1>1, <2>5 DEF fm
            <4>1. (out \o wr) \o fm = out \o (wr \o fm)
                BY <4>0, RegroupNat
            <4>. QED  BY <4>1
        <3>. QED  BY <2>2, <2>6, <3>1 DEF fm
    <2>8. Len(out) <= Len(out') /\ SubSeq(out', 1, Len(out)) = out
        BY <1>1, <2>2, StayStream
    <2>. QED  BY <1>4, <2>6, <2>7, <2>8 DEF StreamStep
<1>5. CASE pos = 0 \/ lines = <<>>
    <2>1. out' = out /\ wr' = wr
        BY <1>3, <1>5 DEF PollOutcome
    <2>. QED  BY <2>1, StayStream
<1>. QED  BY <1>4, <1>5

LEMMA NextStream == TypeOK /\ [Next]_vars => [StreamStep]_vars
<1>. SUFFICES ASSUME TypeOK, [Next]_vars PROVE [StreamStep]_vars
    OBVIOUS
<1>1. ASSUME NEW b \in Byte, ClientWrite(b) PROVE StreamStep
    BY <1>1, StayStream DEF ClientWrite
<1>2. CASE ClientClose \/ PollError
    BY <1>2, StayStream DEF ClientClose, PollError
<1>3. CASE Poll
    BY <1>3, PollStream
<1>4. CASE Flush
    BY <1>4, FlushStream
<1>5. CASE UNCHANGED vars
    BY <1>5 DEF vars
<1>. QED  BY <1>1, <1>2, <1>3, <1>4, <1>5 DEF Next

(* For every alphabet and bound, no byte poll_flush has written to B's    *)
(* socket is lost, repeated or reordered, and B's stream grows only by     *)
(* lines of A formatted by CPeer::poll (StreamExtends, checked by run      *)
(* framer_framing).                                                        *)
THEOREM StreamExtendsCorrect == Spec => StreamExtends
<1>1. Spec => []TypeOK
    BY FramerTypeCorrect
<1>2. TypeOK /\ [Next]_vars => [StreamStep]_vars
    BY NextStream
<1>. QED  BY <1>1, <1>2, PTL DEF Spec, StreamExtends

=============================================================================
