----------------------------- MODULE QueueLemmas -----------------------------
(***************************************************************************)
(* Facts about sequences used as queues: a write buffer followed by a     *)
(* channel, drained from the front and appended to at the back.  They are *)
(* proved from SequenceTheorems, apart from any variable, so that the      *)
(* provers instantiate them readily where they are cited.                  *)
(***************************************************************************)
EXTENDS Naturals, Sequences, SequenceTheorems, TLAPS


(* Concatenation regroups (ConcatAssociative, restated).                 *)
LEMMA Regroup ==
    ASSUME NEW S, NEW x \in Seq(S), NEW y \in Seq(S), NEW z \in Seq(S)
    PROVE  (x \o y) \o z = x \o (y \o z)
BY ConcatAssociative

(* A sequence is its first k elements followed by the rest.                *)
LEMMA SplitAt ==
    ASSUME NEW S, NEW s \in Seq(S), NEW k \in 0 .. Len(s)
    PROVE  s = SubSeq(s, 1, k) \o SubSeq(s, k + 1, Len(s))
<1>0. /\ Len(s) \in Nat
      /\ 1 \in 1 .. Len(s) + 1
      /\ k \in 1 - 1 .. Len(s)
      /\ Len(s) \in k .. Len(s)
    BY LenProperties
<1>1. SubSeq(s, 1, k) \o SubSeq(s, k + 1, Len(s)) = SubSeq(s, 1, Len(s))
    BY <1>0, ConcatAdjacentSubSeq
<1>. QED  BY <1>1, SubSeqFull

(* Appending to the second part of a concatenation appends to the whole.  *)
LEMMA ConcatAppend ==
    ASSUME NEW S, NEW s \in Seq(S), NEW t \in Seq(S), NEW e \in S
    PROVE  s \o Append(t, e) = Append(s \o t, e)
<1>1. Append(t, e) = t \o <<e>> /\ Append(s \o t, e) = (s \o t) \o <<e>>
    BY AppendIsConcat, ConcatProperties
<1>2. <<e>> \in Seq(S)
    OBVIOUS
<1>. QED  BY <1>1, <1>2, ConcatAssociative

(* Writing the first k elements of buf, with more queued behind buf, takes *)
(* the first k of the whole queue and leaves the rest of it.               *)
LEMMA WritePrefix ==
    ASSUME NEW S, NEW buf \in Seq(S), NEW r \in Seq(S),
           NEW k \in 1 .. Len(buf)
    PROVE  /\ k \in 1 .. Len(buf \o r)
           /\ SubSeq(buf \o r, 1, k) = SubSeq(buf, 1, k)
           /\ SubSeq(buf \o r, k + 1, Len(buf \o r))
                = SubSeq(buf, k + 1, Len(buf)) \o r
<1>. DEFINE q == buf \o r
            tl == SubSeq(buf, k + 1, Len(buf))
            lhs == SubSeq(q, k + 1, Len(q))
            rhs == tl \o r
<1>1. /\ q \in Seq(S) /\ Len(q) = Len(buf) + Len(r)
      /\ \A i \in 1 .. Len(q) :
            q[i] = IF i <= Len(buf) THEN buf[i] ELSE r[i - Len(buf)]
    BY ConcatProperties
<1>2. Len(buf) \in Nat /\ Len(r) \in Nat
    BY LenProperties
<1>3. /\ tl \in Seq(S) /\ Len(tl) = Len(buf) - k
      /\ \A i \in 1 .. Len(buf) - k : tl[i] = buf[k + i]
    BY <1>2, SubSeqProperties
<1>4. /\ lhs \in Seq(S) /\ Len(lhs) = Len(q) - k
      /\ \A i \in 1 .. Len(q) - k : lhs[i] = q[k + i]
    BY <1>1, <1>2, SubSeqProperties
<1>5. /\ rhs \in Seq(S) /\ Len(rhs) = Len(tl) + Len(r)
      /\ \A i \in 1 .. Len(tl) + Len(r) :
            rhs[i] = IF i <= Len(tl) THEN tl[i] ELSE r[i - Len(tl)]
    BY <1>3, ConcatProperties
<1>6. Len(lhs) = Len(rhs) /\ \A i \in 1 .. Len(lhs) : lhs[i] = rhs[i]
    BY <1>1, <1>2, <1>3, <1>4, <1>5
<1>7. SubSeq(q, 1, k) = SubSeq(buf, 1, k)
    BY SubSeqOfConcat1
<1>. HIDE DEF lhs, rhs
<1>8. lhs = rhs
    BY <1>4, <1>5, <1>6, SeqEqual
<1>9. k \in 1 .. Len(buf \o r)
    BY <1>1, <1>2
<1>10. SubSeq(buf \o r, k + 1, Len(buf \o r)) = SubSeq(buf, k + 1, Len(buf)) \o r
    BY <1>8 DEF lhs, rhs
<1>. QED  BY <1>7, <1>9, <1>10

(* Draining n messages of x behind w regroups w \o x.                    *)
LEMMA DrainSplit ==
    ASSUME NEW S, NEW w \in Seq(S), NEW x \in Seq(S), NEW n \in 0 .. Len(x)
    PROVE  w \o x = (w \o SubSeq(x, 1, n)) \o SubSeq(x, n + 1, Len(x))
<1>. DEFINE hd == SubSeq(x, 1, n)
            tl == SubSeq(x, n + 1, Len(x))
<1>1. x = hd \o tl
    BY SplitAt
<1>2. hd \in Seq(S) /\ tl \in Seq(S)
    <2>1. Len(x) \in Nat
        BY LenProperties
    <2>. QED  BY <2>1, SubSeqProperties
<1>. HIDE DEF hd, tl
<1>3. (w \o hd) \o tl = w \o (hd \o tl)
    BY <1>2, Regroup, SMTT(20)
<1>. QED  BY <1>1, <1>3 DEF hd, tl

=============================================================================
