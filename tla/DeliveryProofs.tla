---------------------------- MODULE DeliveryProofs ----------------------------
(***************************************************************************)
(* Proof that every joined peer is handed exactly the lines the fan-out   *)
(* routes to it, in order (DeliveredExactly), for every value of the      *)
(* constants.  What a peer r has been handed is out[r] \o wr[r] \o rx[r], *)
(* i.e. out[r] \o Inbox[r] under the refinement mapping, so each step of  *)
(* Relay is taken through the abstract step it implements (the lemmas of  *)
(* RelayRefinementProofs) and only joinMark, the history variable, is     *)
(* read off the concrete step.                                             *)
(***************************************************************************)
EXTENDS RelayRefinementProofs

(* DeliveredExactly for one receiver, with the state it reads passed in: *)
(* R is what the receiver was handed, jm[s] what s had broadcast when it *)
(* joined, nb[s] what s has broadcast, rt[s] whether s is routed to it.  *)
Good(R, jm, nb, rt) ==
    /\ \A i \in 1 .. Len(R) :
          /\ R[i] = Format(Sender(R[i]), LineNo(R[i]))
          /\ rt[Sender(R[i])]
          /\ LineNo(R[i]) \in jm[Sender(R[i])] + 2 .. nb[Sender(R[i])] + 1
    /\ \A i, j \in 1 .. Len(R) :
          i < j /\ Sender(R[i]) = Sender(R[j]) => LineNo(R[i]) < LineNo(R[j])
    /\ \A s \in Conn : rt[s] =>
          \A k \in jm[s] + 2 .. nb[s] + 1 :
             \E i \in 1 .. Len(R) : R[i] = Format(s, k)

NB == [s \in Conn |-> NBcast(s)]

RT(r) == [s \in Conn |-> Routed(s, r)]

(* A connection that has not joined has read nothing and been handed     *)
(* nothing.                                                                *)
Fresh ==
    \A c \in Conn : phase[c] \in {"Unborn", "AwaitingName"} =>
       /\ nread[c] = 0 /\ out[c] = <<>> /\ Inbox[c] = <<>>

(* A joined connection has read its name.                                  *)
Named == \A c \in Conn : phase[c] = "Active" => nread[c] >= 1

(* No peer joined after more lines than a sender has broadcast.           *)
MarkBound == \A r, s \in Conn : joinMark[r][s] <= NBcast(s)

(* DeliveredExactly, with what r was handed read as out[r] \o Inbox[r].  *)
GoodAll ==
    \A r \in Conn : phase[r] = "Active" =>
       Good(out[r] \o Inbox[r], joinMark[r], NB, RT(r))

(* The delivery facts carried from state to state.                        *)
DA == Fresh /\ Named /\ MarkBound /\ GoodAll

(* The inductive invariant of DeliveredExactly.                            *)
DInv == IInv /\ DA

-----------------------------------------------------------------------------
(* Lemmas about Good, with no state.                                       *)

LEMMA FormatFields ==
    ASSUME NEW c, NEW k
    PROVE  Sender(Format(c, k)) = c /\ LineNo(Format(c, k)) = k
BY DEF Sender, LineNo, Format, Line

(* The sender and the line number of a message.                           *)
LEMMA MsgFields ==
    ASSUME NEW m \in Msg
    PROVE  Sender(m) \in Conn /\ LineNo(m) \in Nat
BY DEF Msg, Sender, LineNo

LEMMA SeqMsgFields ==
    ASSUME NEW R \in Seq(Msg)
    PROVE  \A i \in 1 .. Len(R) : Sender(R[i]) \in Conn /\ LineNo(R[i]) \in Nat
<1>. SUFFICES ASSUME NEW i \in 1 .. Len(R)
              PROVE  Sender(R[i]) \in Conn /\ LineNo(R[i]) \in Nat
    OBVIOUS
<1>1. R[i] \in Msg
    OBVIOUS
<1>. QED  BY <1>1, MsgFields

(* An empty pipeline is good when no routed sender has broadcast since    *)
(* the join.                                                               *)
LEMMA GoodEmpty ==
    ASSUME NEW jm \in [Conn -> Nat], NEW nb \in [Conn -> Nat],
           NEW rt \in [Conn -> BOOLEAN],
           \A s \in Conn : rt[s] => nb[s] <= jm[s]
    PROVE  Good(<<>>, jm, nb, rt)
BY DEF Good

(* A sender not routed to the receiver broadcasts: nothing changes for it. *)
LEMMA GoodUnrouted ==
    ASSUME NEW R \in Seq(Msg), NEW jm \in [Conn -> Nat],
           NEW nb \in [Conn -> Nat], NEW rt \in [Conn -> BOOLEAN],
           NEW c \in Conn, ~rt[c], Good(R, jm, nb, rt)
    PROVE  Good(R, jm, [nb EXCEPT ![c] = nb[c] + 1], rt)
<1>1. \A i \in 1 .. Len(R) : Sender(R[i]) \in Conn /\ Sender(R[i]) # c
    BY SeqMsgFields DEF Good
<1>. QED  BY <1>1 DEF Good

(* A sender that had broadcast nothing becomes routed or not.              *)
LEMMA GoodNewSender ==
    ASSUME NEW R \in Seq(Msg), NEW jm \in [Conn -> Nat],
           NEW nb \in [Conn -> Nat], NEW rt \in [Conn -> BOOLEAN],
           NEW c \in Conn, ~rt[c], nb[c] = 0, NEW b \in BOOLEAN,
           Good(R, jm, nb, rt)
    PROVE  Good(R, jm, nb, [rt EXCEPT ![c] = b])
<1>1. \A i \in 1 .. Len(R) : Sender(R[i]) \in Conn /\ Sender(R[i]) # c
    BY SeqMsgFields DEF Good
<1>. QED  BY <1>1 DEF Good

(* A routed sender's next line, the one after the nb[c] it had broadcast, *)
(* is appended: the pipeline stays good.                                   *)
LEMMA GoodAppend ==
    ASSUME NEW R \in Seq(Msg), NEW jm \in [Conn -> Nat],
           NEW nb \in [Conn -> Nat], NEW rt \in [Conn -> BOOLEAN],
           NEW c \in Conn, rt[c], jm[c] <= nb[c],
           Format(c, nb[c] + 2) \in Msg,
           Good(R, jm, nb, rt)
    PROVE  Good(Append(R, Format(c, nb[c] + 2)), jm,
                [nb EXCEPT ![c] = nb[c] + 1], rt)
<1>. DEFINE m == Format(c, nb[c] + 2)
            R2 == Append(R, m)
            nb2 == [nb EXCEPT ![c] = nb[c] + 1]
<1>1. /\ Len(R) \in Nat
      /\ R2 \in Seq(Msg) /\ Len(R2) = Len(R) + 1
      /\ \A i \in 1 .. Len(R) : R2[i] = R[i]
      /\ R2[Len(R) + 1] = m
    OBVIOUS
<1>2. Sender(m) = c /\ LineNo(m) = nb[c] + 2
    BY FormatFields
<1>3. \A i \in 1 .. Len(R) : Sender(R[i]) \in Conn /\ LineNo(R[i]) \in Nat
    BY SeqMsgFields
<1>4. /\ nb2 \in [Conn -> Nat] /\ nb2[c] = nb[c] + 1
      /\ \A x \in Conn \ {c} : nb2[x] = nb[x]
    OBVIOUS
<1>. HIDE DEF m, R2, nb2
<1>5. ASSUME NEW i \in 1 .. Len(R2)
      PROVE  /\ R2[i] = Format(Sender(R2[i]), LineNo(R2[i]))
             /\ rt[Sender(R2[i])]
             /\ LineNo(R2[i]) \in jm[Sender(R2[i])] + 2 .. nb2[Sender(R2[i])] + 1
    <2>1. CASE i \in 1 .. Len(R)
        <3>1. /\ R[i] = Format(Sender(R[i]), LineNo(R[i]))
              /\ rt[Sender(R[i])]
              /\ LineNo(R[i]) \in jm[Sender(R[i])] + 2 .. nb[Sender(R[i])] + 1
            BY <2>1 DEF Good
        <3>2. nb[Sender(R[i])] <= nb2[Sender(R[i])]
            BY <2>1, <1>3, <1>4
        <3>3. R2[i] = R[i]
            BY <2>1, <1>1
        <3>. QED  BY <2>1, <1>3, <1>4, <3>1, <3>2, <3>3
    <2>2. CASE i = Len(R) + 1
        <3>1. m = Format(Sender(m), LineNo(m))
            BY <1>2 DEF m
        <3>. QED  BY <2>2, <1>1, <1>2, <1>4, <3>1
    <2>. QED  BY <1>1, <2>1, <2>2
<1>6. ASSUME NEW i \in 1 .. Len(R2), NEW j \in 1 .. Len(R2),
             i < j, Sender(R2[i]) = Sender(R2[j])
      PROVE  LineNo(R2[i]) < LineNo(R2[j])
    <2>1. CASE j \in 1 .. Len(R)
        <3>1. i \in 1 .. Len(R) /\ R2[i] = R[i] /\ R2[j] = R[j]
            BY <1>1, <1>6, <2>1
        <3>2. \A x, y \in 1 .. Len(R) :
                 x < y /\ Sender(R[x]) = Sender(R[y]) => LineNo(R[x]) < LineNo(R[y])
            BY DEF Good
        <3>. QED  BY <1>6, <2>1, <3>1, <3>2
    <2>2. CASE j = Len(R) + 1
        <3>1. i \in 1 .. Len(R) /\ R2[i] = R[i] /\ Sender(R[i]) = c
            BY <1>1, <1>2, <1>6, <2>2
        <3>2. LineNo(R[i]) <= nb[c] + 1
            BY <3>1 DEF Good
        <3>. QED  BY <1>1, <1>2, <1>3, <2>2, <3>1, <3>2
    <2>. QED  BY <1>1, <2>1, <2>2
<1>7. ASSUME NEW s \in Conn, rt[s], NEW k \in jm[s] + 2 .. nb2[s] + 1
      PROVE  \E i \in 1 .. Len(R2) : R2[i] = Format(s, k)
    <2>1. CASE s = c /\ k = nb[c] + 2
        <3>1. Len(R) + 1 \in 1 .. Len(R2) /\ R2[Len(R) + 1] = Format(s, k)
            BY <1>1, <2>1 DEF m
        <3>. QED  BY <3>1
    <2>2. CASE ~(s = c /\ k = nb[c] + 2)
        <3>1. k \in jm[s] + 2 .. nb[s] + 1
            BY <1>4, <2>2
        <3>2. PICK i \in 1 .. Len(R) : R[i] = Format(s, k)
            BY <1>7, <3>1 DEF Good
        <3>. QED  BY <1>1, <3>2
    <2>. QED  BY <2>1, <2>2
<1>. QED  BY <1>5, <1>6, <1>7 DEF Good, R2, nb2, m

-----------------------------------------------------------------------------
(* The arguments of Good in a well-typed state.                            *)

LEMMA ArgsType ==
    ASSUME TypeOK, NEW r \in Conn
    PROVE  /\ out[r] \o Inbox[r] \in Seq(Msg)
           /\ joinMark[r] \in [Conn -> Nat]
           /\ NB \in [Conn -> Nat]
           /\ RT(r) \in [Conn -> BOOLEAN]
<1>1. out[r] \in Seq(Msg) /\ wr[r] \in Seq(Msg) /\ rx[r] \in Seq(Msg)
    BY DEF TypeOK
<1>2. joinMark[r] \in [Conn -> Nat]
    BY DEF TypeOK
<1>3. \A s \in Conn : NBcast(s) \in Nat
    BY NBcastType
<1>4. out[r] \o Inbox[r] \in Seq(Msg)
    BY <1>1, ConcatProperties DEF Inbox
<1>5. NB \in [Conn -> Nat]
    BY <1>3 DEF NB
<1>6. RT(r) \in [Conn -> BOOLEAN]
    BY DEF RT, Routed
<1>. QED  BY <1>2, <1>4, <1>5, <1>6

LEMMA ArgsTypePrime ==
    ASSUME TypeOK', NEW r \in Conn
    PROVE  /\ out'[r] \o Inbox'[r] \in Seq(Msg)
           /\ joinMark'[r] \in [Conn -> Nat]
           /\ NB' \in [Conn -> Nat]
           /\ RT(r)' \in [Conn -> BOOLEAN]
<1>1. out'[r] \in Seq(Msg) /\ wr'[r] \in Seq(Msg) /\ rx'[r] \in Seq(Msg)
    BY DEF TypeOK
<1>2. joinMark'[r] \in [Conn -> Nat]
    BY DEF TypeOK
<1>3. \A s \in Conn : NBcast(s)' \in Nat
    BY DEF TypeOK, NBcast
<1>4. out'[r] \o Inbox'[r] \in Seq(Msg)
    BY <1>1, ConcatProperties DEF Inbox
<1>5. NB' \in [Conn -> Nat]
    BY <1>3 DEF NB
<1>6. RT(r)' \in [Conn -> BOOLEAN]
    BY DEF RT, Routed
<1>. QED  BY <1>2, <1>4, <1>5, <1>6

(* A step that changes nothing Good reads for the peers joined after it   *)
(* keeps every joined peer's pipeline good.                                *)
LEMMA GoodFrame ==
    ASSUME GoodAll,
           \A r \in Conn : phase'[r] = "Active" =>
              /\ phase[r] = "Active"
              /\ out'[r] \o Inbox'[r] = out[r] \o Inbox[r]
              /\ joinMark'[r] = joinMark[r]
              /\ RT(r)' = RT(r),
           NB' = NB
    PROVE  GoodAll'
BY DEF GoodAll

(* Routing to r is unchanged when no connection's listener, address or    *)
(* acceptance changes.                                                     *)
LEMMA RTUnchanged ==
    ASSUME NEW r \in Conn, UNCHANGED <<pool, addr>>,
           \A s \in Conn : phase'[s] # "Unborn" <=> phase[s] # "Unborn"
    PROVE  RT(r)' = RT(r)
BY DEF RT, Routed

-----------------------------------------------------------------------------
(* One lemma per abstract step: DA is kept, given how joinMark moves.     *)

(* Send, Close and every step invisible to the abstraction.                *)
LEMMA QuietStep ==
    ASSUME DA, UNCHANGED <<phase, pool, addr, nread, out, joinMark>>,
           Inbox' = Inbox
    PROVE  DA'
<1>1. NB' = NB
    BY DEF NB, NBcast
<1>2. \A r \in Conn : RT(r)' = RT(r)
    BY RTUnchanged
<1>3. GoodAll'
    BY <1>1, <1>2, GoodFrame DEF DA
<1>. QED  BY <1>1, <1>3 DEF DA, Fresh, Named, MarkBound, NB

(* A connection that never joined goes away.                               *)
LEMMA AbandonStep ==
    ASSUME TypeOK, DA, NEW c \in Conn, Abs!Abandon(c), UNCHANGED joinMark
    PROVE  DA'
<1>1. /\ phase[c] = "AwaitingName" /\ phase' = [phase EXCEPT ![c] = "Done"]
      /\ UNCHANGED <<pool, addr, nread, out>> /\ Inbox' = Inbox
    BY DEF Abs!Abandon
<1>2. NB' = NB
    BY <1>1 DEF NB, NBcast
<1>3. \A r \in Conn : RT(r)' = RT(r)
    BY <1>1, RTUnchanged
<1>4. \A r \in Conn : phase'[r] # "Done" => phase'[r] = phase[r]
    <2>1. phase \in [Conn -> {"Unborn", "AwaitingName", "Active", "Done"}]
        BY DEF TypeOK
    <2>. QED  BY <1>1, <2>1
<1>5. GoodAll'
    BY <1>1, <1>2, <1>3, <1>4, GoodFrame DEF DA
<1>6. Fresh' /\ Named'
    BY <1>1, <1>4 DEF DA, Fresh, Named
<1>. QED  BY <1>2, <1>5, <1>6 DEF DA, MarkBound, NB

(* A joined connection leaves and its inbox is dropped.                    *)
LEMMA LeaveStep ==
    ASSUME TypeOK, DA, NEW c \in Conn, Abs!Leave(c), UNCHANGED joinMark
    PROVE  DA'
<1>1. /\ phase[c] = "Active" /\ phase' = [phase EXCEPT ![c] = "Done"]
      /\ UNCHANGED <<pool, addr, nread, out>>
      /\ Inbox' = [Inbox EXCEPT ![c] = <<>>]
    BY DEF Abs!Leave
<1>2. NB' = NB
    BY <1>1 DEF NB, NBcast
<1>3. \A r \in Conn : RT(r)' = RT(r)
    BY <1>1, RTUnchanged
<1>4. \A r \in Conn : phase'[r] # "Done" =>
         phase'[r] = phase[r] /\ Inbox'[r] = Inbox[r]
    <2>1. phase \in [Conn -> {"Unborn", "AwaitingName", "Active", "Done"}]
          /\ Inbox \in [Conn -> Seq(Msg)]
        BY DEF TypeOK, Inbox
    <2>. QED  BY <1>1, <2>1
<1>5. GoodAll'
    BY <1>1, <1>2, <1>3, <1>4, GoodFrame DEF DA
<1>6. Fresh' /\ Named'
    BY <1>1, <1>4 DEF DA, Fresh, Named
<1>. QED  BY <1>2, <1>5, <1>6 DEF DA, MarkBound, NB

(* A prefix of an inbox reaches the socket: what the peer was handed is   *)
(* the same sequence, cut at another place.                                *)
LEMMA DeliverStep ==
    ASSUME TypeOK, DA, NEW c \in Conn, Abs!Deliver(c), UNCHANGED joinMark
    PROVE  DA'
<1>1. /\ phase[c] = "Active"
      /\ UNCHANGED <<phase, pool, addr, nread>>
    BY DEF Abs!Deliver
<1>2. PICK k \in 1 .. Len(Inbox[c]) :
         /\ out' = [out EXCEPT ![c] = @ \o SubSeq(Inbox[c], 1, k)]
         /\ Inbox' = [Inbox EXCEPT ![c] = SubSeq(@, k + 1, Len(@))]
    BY DEF Abs!Deliver
<1>3. out'[c] \o Inbox'[c] = out[c] \o Inbox[c]
    <2>. DEFINE w == out[c]
                x == Inbox[c]
    <2>1. w \in Seq(Msg) /\ x \in Seq(Msg) /\ k \in 0 .. Len(x)
        BY <1>2 DEF TypeOK, Inbox
    <2>2. out \in [Conn -> Seq(Msg)] /\ Inbox \in [Conn -> Seq(Msg)]
        BY DEF TypeOK, Inbox
    <2>3. out'[c] = w \o SubSeq(x, 1, k) /\ Inbox'[c] = SubSeq(x, k + 1, Len(x))
        BY <1>2, <2>2
    <2>. HIDE DEF w, x
    <2>4. w \o x = (w \o SubSeq(x, 1, k)) \o SubSeq(x, k + 1, Len(x))
        BY <2>1, DrainSplit
    <2>. QED  BY <2>3, <2>4 DEF w, x
<1>4. \A r \in Conn \ {c} : out'[r] = out[r] /\ Inbox'[r] = Inbox[r]
    <2>1. out \in [Conn -> Seq(Msg)] /\ Inbox \in [Conn -> Seq(Msg)]
        BY DEF TypeOK, Inbox
    <2>. QED  BY <1>2, <2>1
<1>5. NB' = NB
    BY <1>1 DEF NB, NBcast
<1>6. \A r \in Conn : RT(r)' = RT(r)
    BY <1>1, RTUnchanged
<1>7. GoodAll'
    BY <1>1, <1>3, <1>4, <1>5, <1>6, GoodFrame DEF DA
<1>8. Fresh'
    BY <1>1, <1>4 DEF DA, Fresh
<1>. QED  BY <1>1, <1>5, <1>7, <1>8 DEF DA, Named, MarkBound, NB

(* A connection is accepted: it may now be routed to peers, but it has    *)
(* broadcast nothing yet.                                                  *)
LEMMA ConnectStep ==
    ASSUME TypeOK, DA, NEW c \in Conn, NEW p \in Pools, NEW a \in Addr,
           Abs!Connect(c, p, a), UNCHANGED joinMark
    PROVE  DA'
<1>1. /\ phase[c] = "Unborn"
      /\ phase' = [phase EXCEPT ![c] = "AwaitingName"]
      /\ pool' = [pool EXCEPT ![c] = p]
      /\ addr' = [addr EXCEPT ![c] = a]
      /\ UNCHANGED <<nread, out>> /\ Inbox' = Inbox
    BY DEF Abs!Connect
<1>2. /\ phase \in [Conn -> {"Unborn", "AwaitingName", "Active", "Done"}]
      /\ pool \in [Conn -> Pools \cup {None}]
      /\ addr \in [Conn -> Addr \cup {None}]
    BY DEF TypeOK
<1>3. nread[c] = 0 /\ out[c] = <<>> /\ Inbox[c] = <<>>
    BY <1>1 DEF DA, Fresh
<1>4. NB' = NB
    BY <1>1 DEF NB, NBcast
<1>5. Fresh' /\ Named' /\ MarkBound'
    BY <1>1, <1>2, <1>3, <1>4 DEF DA, Fresh, Named, MarkBound, NB
<1>6. ASSUME NEW r \in Conn, phase'[r] = "Active"
      PROVE  Good(out'[r] \o Inbox'[r], joinMark'[r], NB', RT(r)')
    <2>1. r # c /\ phase[r] = "Active"
        BY <1>1, <1>2, <1>6
    <2>2. Good(out[r] \o Inbox[r], joinMark[r], NB, RT(r))
        BY <2>1 DEF DA, GoodAll
    <2>3. RT(r)' = [RT(r) EXCEPT ![c] = Routed(c, r)']
        BY <1>1, <1>2, <2>1 DEF RT, Routed
    <2>4. ~RT(r)[c] /\ NB[c] = 0
        BY <1>1, <1>3 DEF RT, Routed, NB, NBcast
    <2>5. Routed(c, r)' \in BOOLEAN
        BY DEF Routed
    <2>6. Good(out[r] \o Inbox[r], joinMark[r], NB,
               [RT(r) EXCEPT ![c] = Routed(c, r)'])
        BY <2>2, <2>4, <2>5, ArgsType, GoodNewSender
    <2>. QED  BY <1>1, <1>4, <2>3, <2>6
<1>. QED  BY <1>5, <1>6 DEF DA, GoodAll

(* A connection joins: its name was its only line, it has been handed     *)
(* nothing, and joinMark records what every sender had broadcast.         *)
LEMMA JoinStep ==
    ASSUME TypeOK, DA, NEW c \in Conn, Abs!Join(c),
           joinMark' = [joinMark EXCEPT ![c] = [s \in Conn |-> NBcast(s)]]
    PROVE  DA'
<1>1. /\ phase[c] = "AwaitingName"
      /\ phase' = [phase EXCEPT ![c] = "Active"]
      /\ nread' = [nread EXCEPT ![c] = @ + 1]
      /\ UNCHANGED <<pool, addr, out>> /\ Inbox' = Inbox
    BY DEF Abs!Join
<1>2. /\ phase \in [Conn -> {"Unborn", "AwaitingName", "Active", "Done"}]
      /\ nread \in [Conn -> 0 .. MaxLines]
      /\ joinMark \in [Conn -> [Conn -> 0 .. MaxLines]]
    BY DEF TypeOK
<1>3. nread[c] = 0 /\ out[c] = <<>> /\ Inbox[c] = <<>>
    BY <1>1 DEF DA, Fresh
<1>4. \A s \in Conn : NBcast(s)' = NBcast(s)
    BY <1>1, <1>2, <1>3 DEF NBcast
<1>5. NB' = NB
    BY <1>4 DEF NB
<1>6. Fresh' /\ Named'
    BY <1>1, <1>2, <1>3 DEF DA, Fresh, Named
<1>7. MarkBound'
    <2>1. \A s \in Conn : NBcast(s) \in Nat
        BY NBcastType
    <2>2. \A s \in Conn : joinMark'[c][s] = NBcast(s)
        BY <1>1, <1>2
    <2>3. \A r \in Conn \ {c} : joinMark'[r] = joinMark[r]
        BY <1>1, <1>2
    <2>. QED  BY <1>4, <2>1, <2>2, <2>3 DEF DA, MarkBound
<1>8. \A r \in Conn : RT(r)' = RT(r)
    BY <1>1, <1>2, RTUnchanged
<1>9. Good(out'[c] \o Inbox'[c], joinMark'[c], NB', RT(c)')
    <2>1. out'[c] \o Inbox'[c] = <<>> /\ joinMark'[c] = NB
        BY <1>1, <1>2, <1>3 DEF NB
    <2>2. Good(<<>>, NB, NB, RT(c))
        <3>1. NB \in [Conn -> Nat] /\ RT(c) \in [Conn -> BOOLEAN]
            BY ArgsType
        <3>. QED  BY <3>1, GoodEmpty
    <2>. QED  BY <1>5, <1>8, <2>1, <2>2
<1>10. ASSUME NEW r \in Conn \ {c}, phase'[r] = "Active"
       PROVE  Good(out'[r] \o Inbox'[r], joinMark'[r], NB', RT(r)')
    <2>1. phase[r] = "Active" /\ joinMark'[r] = joinMark[r]
        BY <1>1, <1>2, <1>10
    <2>. QED  BY <1>1, <1>5, <1>8, <2>1 DEF DA, GoodAll
<1>. QED  BY <1>6, <1>7, <1>9, <1>10 DEF DA, GoodAll

(* A function that agrees with g except at c, where it is v, is g with   *)
(* c updated to v.                                                        *)
LEMMA FunExceptExt ==
    ASSUME NEW S, NEW T, NEW f \in [S -> T], NEW g \in [S -> T],
           NEW c \in S, NEW v,
           \A s \in S : f[s] = IF s = c THEN v ELSE g[s]
    PROVE  f = [g EXCEPT ![c] = v]
BY Zenon

(* A joined connection's next line is appended to the inbox of exactly   *)
(* the joined peers it is routed to.                                       *)
LEMMA SayStep ==
    ASSUME TypeOK, DA, NEW c \in Conn, Abs!Say(c), UNCHANGED joinMark
    PROVE  DA'
<1>. DEFINE m == Format(c, nread[c] + 1)
<1>1. /\ phase[c] = "Active" /\ nread[c] < sent[c]
      /\ nread' = [nread EXCEPT ![c] = @ + 1]
      /\ Inbox' = [r \in Conn |->
                     IF r \in Abs!Audience(c)
                     THEN Append(Inbox[r], Abs!Format(c, nread[c] + 1))
                     ELSE Inbox[r]]
      /\ UNCHANGED <<phase, pool, addr, out>>
    BY DEF Abs!Say
<1>2. /\ phase \in [Conn -> {"Unborn", "AwaitingName", "Active", "Done"}]
      /\ nread \in [Conn -> 0 .. MaxLines] /\ sent \in [Conn -> 0 .. MaxLines]
      /\ out \in [Conn -> Seq(Msg)] /\ Inbox \in [Conn -> Seq(Msg)]
    BY DEF TypeOK, Inbox
<1>3. nread[c] >= 1 /\ nread[c] + 1 \in 1 .. MaxLines
    <2>1. phase[c] = "Active" /\ nread[c] < sent[c]
        BY DEF Abs!Say
    <2>2. nread[c] \in 0 .. MaxLines /\ sent[c] \in 0 .. MaxLines
        BY <1>2
    <2>3. nread[c] >= 1
        BY <2>1 DEF DA, Named
    <2>. QED  BY <2>1, <2>2, <2>3, ConstAssumption
<1>4. m \in Msg /\ Abs!Format(c, nread[c] + 1) = m
    BY <1>3, FormatType DEF Abs!Format, Abs!Line, Format, Line
<1>5. /\ NB' = [NB EXCEPT ![c] = NB[c] + 1]
      /\ NB[c] \in Nat /\ m = Format(c, NB[c] + 2)
    <2>1. nread' = [nread EXCEPT ![c] = @ + 1]
        BY DEF Abs!Say
    <2>2. NBcast(c) = nread[c] - 1 /\ NBcast(c)' = nread[c]
        BY <1>2, <1>3, <2>1 DEF NBcast
    <2>3. \A s \in Conn \ {c} : NBcast(s)' = NBcast(s)
        BY <1>2, <2>1 DEF NBcast
    <2>4. NB' = [NB EXCEPT ![c] = NB[c] + 1]
        <3>1. nread \in [Conn -> 0 .. MaxLines]
            BY <1>2
        <3>2. \A s \in Conn : NB'[s] = IF s = c THEN NB[c] + 1 ELSE NB[s]
            BY <1>3, <2>1, <3>1 DEF NB, NBcast
        <3>3. NB' \in [Conn -> Int] /\ NB \in [Conn -> Int]
            BY <2>1, <3>1, <1>3 DEF NB, NBcast
        <3>. QED  BY <3>2, <3>3, FunExceptExt
    <2>5. NB[c] = nread[c] - 1
        BY <2>2 DEF NB
    <2>6. NB[c] \in Nat /\ nread[c] + 1 = NB[c] + 2
        BY <1>2, <1>3, <2>5
    <2>. QED  BY <2>4, <2>6
<1>6. \A r \in Abs!Audience(c) : phase[r] = "Active"
    BY DEF Abs!Audience
<1>7. Fresh' /\ Named'
    BY <1>1, <1>2, <1>4, <1>6 DEF DA, Fresh, Named
<1>8. MarkBound'
    <2>1. \A s \in Conn : NBcast(s) <= NBcast(s)' /\ NBcast(s) \in Nat
                          /\ NBcast(s)' \in Nat
        BY <1>1, <1>2, <1>3 DEF NBcast
    <2>2. joinMark \in [Conn -> [Conn -> 0 .. MaxLines]]
        BY DEF TypeOK
    <2>3. \A r, s \in Conn : joinMark[r][s] <= NBcast(s)
        BY DEF DA, MarkBound
    <2>4. joinMark' = joinMark
        OBVIOUS
    <2>5. \A r, s \in Conn : joinMark[r][s] <= NBcast(s)'
        <3>. SUFFICES ASSUME NEW r \in Conn, NEW s \in Conn
                      PROVE  joinMark[r][s] <= NBcast(s)'
            OBVIOUS
        <3>1. joinMark[r][s] \in Nat
            BY <2>2
        <3>2. joinMark[r][s] <= NBcast(s)
            BY <2>3
        <3>3. NBcast(s) <= NBcast(s)' /\ NBcast(s) \in Nat /\ NBcast(s)' \in Nat
            BY <2>1
        <3>. QED  BY <3>1, <3>2, <3>3
    <2>6. \A r, s \in Conn : joinMark'[r][s] <= NBcast(s)'
        BY <2>4, <2>5
    <2>. QED  BY <2>6 DEF MarkBound
<1>9. \A r \in Conn : RT(r)' = RT(r)
    BY <1>1, RTUnchanged
<1>10. ASSUME NEW r \in Conn, phase'[r] = "Active"
       PROVE  Good(out'[r] \o Inbox'[r], joinMark'[r], NB', RT(r)')
    <2>1. phase[r] = "Active"
        BY <1>1, <1>10
    <2>2. Good(out[r] \o Inbox[r], joinMark[r], NB, RT(r))
        BY <2>1 DEF DA, GoodAll
    <2>3. /\ out[r] \o Inbox[r] \in Seq(Msg) /\ joinMark[r] \in [Conn -> Nat]
          /\ NB \in [Conn -> Nat] /\ RT(r) \in [Conn -> BOOLEAN]
        BY ArgsType
    <2>4. CASE r \in Abs!Audience(c)
        <3>1. RT(r)[c]
            BY <1>1, <2>4 DEF Abs!Audience, Abs!Target, RT, Routed, Target
        <3>2. joinMark[r][c] <= NB[c]
            BY DEF DA, MarkBound, NB
        <3>3. out'[r] \o Inbox'[r] = Append(out[r] \o Inbox[r], m)
            <4>. DEFINE w == out[r]
                        x == Inbox[r]
            <4>1. w \in Seq(Msg) /\ x \in Seq(Msg)
                /\ out'[r] = w /\ Inbox'[r] = Append(x, m)
                BY <1>1, <1>2, <1>4, <2>4
            <4>. HIDE DEF w, x, m
            <4>2. w \o Append(x, m) = Append(w \o x, m)
                BY <1>4, <4>1, ConcatAppend
            <4>. QED  BY <4>1, <4>2 DEF w, x
        <3>4. Good(Append(out[r] \o Inbox[r], Format(c, NB[c] + 2)), joinMark[r],
                   [NB EXCEPT ![c] = NB[c] + 1], RT(r))
            BY <1>4, <1>5, <2>2, <2>3, <3>1, <3>2, GoodAppend
        <3>. QED  BY <1>5, <1>9, <3>3, <3>4
    <2>5. CASE r \notin Abs!Audience(c)
        <3>1. ~RT(r)[c]
            BY <1>1, <2>1, <2>5 DEF Abs!Audience, Abs!Target, RT, Routed, Target
        <3>2. out'[r] \o Inbox'[r] = out[r] \o Inbox[r]
            BY <1>1, <1>2, <2>5
        <3>3. Good(out[r] \o Inbox[r], joinMark[r],
                   [NB EXCEPT ![c] = NB[c] + 1], RT(r))
            BY <2>2, <2>3, <3>1, GoodUnrouted
        <3>. QED  BY <1>5, <1>9, <3>2, <3>3
    <2>. QED  BY <2>4, <2>5
<1>. QED  BY <1>7, <1>8, <1>10 DEF DA, GoodAll


-----------------------------------------------------------------------------
(* Every concrete step preserves DA.                                       *)

(* A step of the abstract spec other than Join, taken with joinMark left  *)
(* alone, preserves DA.                                                    *)
LEMMA AbsStep ==
    ASSUME TypeOK, DA, NEW c \in Conn, UNCHANGED joinMark,
           \/ \E p \in Pools, a \in Addr : Abs!Connect(c, p, a)
           \/ Abs!Send(c) \/ Abs!Close(c) \/ Abs!Abandon(c)
           \/ Abs!Say(c) \/ Abs!Deliver(c) \/ Abs!Leave(c)
           \/ UNCHANGED Abs!vars
    PROVE  DA'
<1>1. CASE \E p \in Pools, a \in Addr : Abs!Connect(c, p, a)
    BY <1>1, ConnectStep
<1>2. CASE Abs!Send(c) \/ Abs!Close(c) \/ UNCHANGED Abs!vars
    <2>1. UNCHANGED <<phase, pool, addr, nread, out>> /\ Inbox' = Inbox
        BY <1>2 DEF Abs!Send, Abs!Close, Abs!vars
    <2>. QED  BY <2>1, QuietStep
<1>3. CASE Abs!Abandon(c)
    BY <1>3, AbandonStep
<1>4. CASE Abs!Say(c)
    BY <1>4, SayStep
<1>5. CASE Abs!Deliver(c)
    BY <1>5, DeliverStep
<1>6. CASE Abs!Leave(c)
    BY <1>6, LeaveStep
<1>. QED  BY <1>1, <1>2, <1>3, <1>4, <1>5, <1>6

(* Only a name poll that joins moves joinMark, and it records there what  *)
(* every sender has broadcast.                                             *)
LEMMA PollNameMark ==
    ASSUME TypeOK, NEW c \in Conn, PollName(c)
    PROVE  \/ /\ phase'[c] = "Active"
              /\ joinMark' = [joinMark EXCEPT ![c] = [s \in Conn |-> NBcast(s)]]
           \/ /\ phase'[c] # "Active"
              /\ joinMark' = joinMark
<1>1. phase[c] = "AwaitingName" /\ phase \in [Conn -> {"Unborn", "AwaitingName", "Active", "Done"}]
    BY DEF PollName, TypeOK
<1>. QED  BY <1>1 DEF PollName

(* In a name poll the abstract Join is the branch that sets phase to     *)
(* Active; the other branches leave it AwaitingName or make it Done.      *)
LEMMA PollNameStep ==
    ASSUME TypeOK, DA, NEW c \in Conn, PollName(c)
    PROVE  DA'
<1>1. Abs!Abandon(c) \/ Abs!Join(c) \/ UNCHANGED Abs!vars
    BY PollNameRefines
<1>2. CASE joinMark' = [joinMark EXCEPT ![c] = [s \in Conn |-> NBcast(s)]]
           /\ phase'[c] = "Active"
    <2>1. ~Abs!Abandon(c) /\ ~UNCHANGED Abs!vars
        <3>1. phase[c] = "AwaitingName"
              /\ phase \in [Conn -> {"Unborn", "AwaitingName", "Active", "Done"}]
            BY DEF PollName, TypeOK
        <3>. QED  BY <1>2, <3>1 DEF Abs!Abandon, Abs!vars
    <2>. QED  BY <1>1, <1>2, <2>1, JoinStep
<1>3. CASE UNCHANGED joinMark /\ phase'[c] # "Active"
    <2>1. ~Abs!Join(c)
        <3>1. phase \in [Conn -> {"Unborn", "AwaitingName", "Active", "Done"}]
            BY DEF TypeOK
        <3>. QED  BY <1>3, <3>1 DEF Abs!Join
    <2>. QED  BY <1>1, <1>3, <2>1, AbsStep
<1>. QED  BY <1>2, <1>3, PollNameMark

(* IInv and DA together are inductive.                                     *)
LEMMA NextDInv == DInv /\ [Next]_vars => DInv'
<1>. SUFFICES ASSUME DInv, [Next]_vars PROVE DInv'
    OBVIOUS
<1>1. IInv'
    BY NextIInv DEF DInv
<1>2. TypeOK /\ Placed /\ RegistryMatchesLive /\ DA
    BY DEF DInv, IInv, TypeInv
<1>3. ASSUME NEW c \in Conn, NEW p \in Pools, NEW a \in Addr, Accept(c, p, a)
      PROVE  DA'
    <2>1. Abs!Connect(c, p, a) /\ UNCHANGED joinMark
        BY <1>3, AcceptRefines DEF Accept
    <2>. QED  BY <1>2, <2>1, AbsStep
<1>4. ASSUME NEW c \in Conn, Client(c) PROVE DA'
    <2>1. (Abs!Send(c) \/ Abs!Close(c) \/ UNCHANGED Abs!vars) /\ UNCHANGED joinMark
        BY <1>4, ClientRefines DEF Client, ClientSend, ClientClose, ClientRead
    <2>. QED  BY <1>2, <2>1, AbsStep
<1>5. ASSUME NEW c \in Conn, PollName(c) PROVE DA'
    BY <1>2, <1>5, PollNameStep
<1>6. ASSUME NEW c \in Conn, DrainFlush(c) PROVE DA'
    <2>1. (Abs!Leave(c) \/ Abs!Deliver(c) \/ UNCHANGED Abs!vars) /\ UNCHANGED joinMark
        BY <1>2, <1>6, DrainFlushRefines DEF DrainFlush, Terminate
    <2>. QED  BY <1>2, <2>1, AbsStep
<1>7. ASSUME NEW c \in Conn, Read(c) PROVE DA'
    <2>1. (Abs!Leave(c) \/ Abs!Say(c) \/ UNCHANGED Abs!vars) /\ UNCHANGED joinMark
        BY <1>2, <1>7, ReadRefines DEF Read, Terminate, Broadcast
    <2>. QED  BY <1>2, <2>1, AbsStep
<1>8. ASSUME UNCHANGED vars PROVE DA'
    <2>1. UNCHANGED <<phase, pool, addr, nread, out, joinMark>> /\ Inbox' = Inbox
        BY <1>8 DEF vars, Inbox
    <2>. QED  BY <1>2, <2>1, QuietStep
<1>. QED  BY <1>1, <1>3, <1>4, <1>5, <1>6, <1>7, <1>8 DEF DInv, Next, Server


-----------------------------------------------------------------------------
(* The initial state and the invariant.                                    *)

LEMMA InitDInv == Init => DInv
<1>. SUFFICES ASSUME Init PROVE DInv
    OBVIOUS
<1>1. IInv
    BY InitIInv
<1>2. Fresh /\ Named /\ MarkBound
    BY DEF Init, Inbox, Fresh, Named, MarkBound, NBcast
<1>3. GoodAll
    BY DEF Init, GoodAll
<1>. QED  BY <1>1, <1>2, <1>3 DEF DInv, DA

(* What a joined peer was handed is out \o Inbox, so DA's GoodAll is       *)
(* DeliveredExactly with NB and RT read back as NBcast and Routed.        *)
LEMMA DInvDelivered == DInv => DeliveredExactly
<1>. SUFFICES ASSUME DInv, NEW r \in Conn, phase[r] = "Active"
              PROVE  LET R == Received(r) IN
                     /\ \A i \in 1 .. Len(R) :
                           /\ R[i] = Format(Sender(R[i]), LineNo(R[i]))
                           /\ Routed(Sender(R[i]), r)
                           /\ LineNo(R[i]) \in joinMark[r][Sender(R[i])] + 2
                                                .. NBcast(Sender(R[i])) + 1
                     /\ \A i, j \in 1 .. Len(R) :
                           i < j /\ Sender(R[i]) = Sender(R[j])
                           => LineNo(R[i]) < LineNo(R[j])
                     /\ \A s \in Conn : Routed(s, r) =>
                           \A k \in joinMark[r][s] + 2 .. NBcast(s) + 1 :
                              \E i \in 1 .. Len(R) : R[i] = Format(s, k)
    BY DEF DeliveredExactly
<1>1. out[r] \in Seq(Msg) /\ wr[r] \in Seq(Msg) /\ rx[r] \in Seq(Msg)
    BY DEF DInv, IInv, TypeInv, TypeOK
<1>2. Received(r) = out[r] \o Inbox[r] /\ Received(r) \in Seq(Msg)
    <2>. DEFINE x == out[r]  y == wr[r]  z == rx[r]
    <2>1. x \in Seq(Msg) /\ y \in Seq(Msg) /\ z \in Seq(Msg)
        BY <1>1
    <2>. HIDE DEF x, y, z
    <2>2. (x \o y) \o z = x \o (y \o z) /\ (x \o y) \o z \in Seq(Msg)
        BY <2>1, Regroup
    <2>3. Received(r) = (x \o y) \o z /\ Inbox[r] = y \o z
        BY DEF Received, Inbox, x, y, z
    <2>. QED  BY <2>2, <2>3 DEF x
<1>. DEFINE R == Received(r)
<1>3. Good(R, joinMark[r], NB, RT(r))
    BY <1>2 DEF DInv, DA, GoodAll
<1>4. \A i \in 1 .. Len(R) : Sender(R[i]) \in Conn /\ LineNo(R[i]) \in Nat
    BY <1>2, SeqMsgFields
<1>5. \A s \in Conn : NB[s] = NBcast(s) /\ RT(r)[s] = Routed(s, r)
    BY DEF NB, RT
<1>. HIDE DEF R
<1>6. \A i \in 1 .. Len(R) :
         /\ R[i] = Format(Sender(R[i]), LineNo(R[i]))
         /\ Routed(Sender(R[i]), r)
         /\ LineNo(R[i]) \in joinMark[r][Sender(R[i])] + 2
                              .. NBcast(Sender(R[i])) + 1
    <2>. SUFFICES ASSUME NEW i \in 1 .. Len(R)
                  PROVE  /\ R[i] = Format(Sender(R[i]), LineNo(R[i]))
                         /\ Routed(Sender(R[i]), r)
                         /\ LineNo(R[i]) \in joinMark[r][Sender(R[i])] + 2
                                              .. NBcast(Sender(R[i])) + 1
        OBVIOUS
    <2>1. /\ R[i] = Format(Sender(R[i]), LineNo(R[i]))
          /\ RT(r)[Sender(R[i])]
          /\ LineNo(R[i]) \in joinMark[r][Sender(R[i])] + 2
                               .. NB[Sender(R[i])] + 1
        BY <1>3 DEF Good
    <2>2. Sender(R[i]) \in Conn
        BY <1>4
    <2>. QED  BY <1>5, <2>1, <2>2
<1>7. \A i, j \in 1 .. Len(R) :
         i < j /\ Sender(R[i]) = Sender(R[j]) => LineNo(R[i]) < LineNo(R[j])
    BY <1>3 DEF Good
<1>8. \A s \in Conn : Routed(s, r) =>
         \A k \in joinMark[r][s] + 2 .. NBcast(s) + 1 :
            \E i \in 1 .. Len(R) : R[i] = Format(s, k)
    <2>. SUFFICES ASSUME NEW s \in Conn, Routed(s, r)
                  PROVE  \A k \in joinMark[r][s] + 2 .. NBcast(s) + 1 :
                            \E i \in 1 .. Len(R) : R[i] = Format(s, k)
        OBVIOUS
    <2>1. RT(r)[s] /\ NB[s] = NBcast(s)
        BY <1>5
    <2>. QED  BY <1>3, <2>1 DEF Good
<1>. QED  BY <1>6, <1>7, <1>8 DEF R

-----------------------------------------------------------------------------
(* Every joined peer has been handed, in the order each sender read them, *)
(* exactly the lines its routed senders broadcast after it joined: the    *)
(* fan-out of DoubleServer::poll pushes each line onto the channel of     *)
(* every peer then in the other pool's map, and the peer's drain hands     *)
(* its channel to the socket in order.  The run relay_fifo and relay_safety *)
(* check this property as DeliveredExactly on small instances.            *)
THEOREM DeliveryCorrect == Spec => []DeliveredExactly
<1>1. Init => DInv
    BY InitDInv
<1>2. DInv /\ [Next]_vars => DInv'
    BY NextDInv
<1>3. DInv => DeliveredExactly
    BY DInvDelivered
<1>. QED  BY <1>1, <1>2, <1>3, PTL DEF Spec

=============================================================================
