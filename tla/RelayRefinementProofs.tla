------------------------ MODULE RelayRefinementProofs ------------------------
(***************************************************************************)
(* Relay implements BroadcastSpec under the mapping of RelayRefinement,   *)
(* for every value of the constants.  Each step of Relay is a step of the *)
(* abstract specification or leaves the mapped state unchanged; the fan-  *)
(* out's registry lookup is the abstract audience because of the          *)
(* registry invariant IInv proved in RelayProofs.                          *)
(***************************************************************************)
EXTENDS RelayProofs, RelayRefinement, QueueLemmas

-----------------------------------------------------------------------------
(* Each step of Relay is a step of BroadcastSpec or leaves the mapped     *)
(* state unchanged.                                                        *)

(* The initial state of the relay maps to the abstract initial state.      *)
LEMMA InitRefines == Init => Abs!Init
BY DEF Init, Abs!Init, Inbox

(* An accept loop's hand-off is the abstract Connect.                      *)
LEMMA AcceptRefines ==
    ASSUME NEW c \in Conn, NEW p \in Pools, NEW a \in Addr, Accept(c, p, a)
    PROVE  Abs!Connect(c, p, a)
<1>1. Inbox' = Inbox
    BY DEF Accept, Inbox
<1>. QED  BY <1>1 DEF Accept, Abs!Connect, Abs!Live, Live

(* A client's write or shutdown is Send or Close; its read is invisible.  *)
LEMMA ClientRefines ==
    ASSUME NEW c \in Conn, Client(c)
    PROVE  Abs!Send(c) \/ Abs!Close(c) \/ UNCHANGED Abs!vars
<1>1. Inbox' = Inbox
    BY DEF Client, ClientSend, ClientClose, ClientRead, Inbox
<1>2. CASE ClientSend(c)
    BY <1>1, <1>2 DEF ClientSend, Abs!Send, Abs!Live, Live
<1>3. CASE ClientClose(c)
    BY <1>1, <1>3 DEF ClientClose, Abs!Close, Abs!Live, Live
<1>4. CASE ClientRead(c)
    BY <1>1, <1>4 DEF ClientRead, Abs!vars
<1>. QED  BY <1>2, <1>3, <1>4 DEF Client

(* The name handshake is Join or Abandon, or changes nothing abstract.    *)
LEMMA PollNameRefines ==
    ASSUME NEW c \in Conn, PollName(c)
    PROVE  Abs!Abandon(c) \/ Abs!Join(c) \/ UNCHANGED Abs!vars
<1>1. Inbox' = Inbox
    BY DEF PollName, Inbox
<1>2. phase[c] = "AwaitingName"
    BY DEF PollName
<1>3. CASE /\ phase' = [phase EXCEPT ![c] = "Done"]
           /\ UNCHANGED nread
    BY <1>1, <1>2, <1>3 DEF PollName, Abs!Abandon
<1>4. CASE /\ nread[c] < sent[c]
           /\ nread' = [nread EXCEPT ![c] = @ + 1]
           /\ phase' = [phase EXCEPT ![c] = "Active"]
    BY <1>1, <1>2, <1>4 DEF PollName, Abs!Join
<1>5. CASE UNCHANGED <<phase, nread>>
    BY <1>1, <1>5 DEF PollName, Abs!vars
<1>. QED  BY <1>3, <1>4, <1>5 DEF PollName

(* Drop of a joined peer is the abstract Leave: its inbox is lost.        *)
LEMMA TerminateRefines ==
    ASSUME TypeOK, NEW c \in Conn, phase[c] = "Active", Terminate(c)
    PROVE  Abs!Leave(c)
<1>1. wr \in [Conn -> Seq(Msg)] /\ rx \in [Conn -> Seq(Msg)]
    BY DEF TypeOK
<1>2. wr'[c] \o rx'[c] = <<>>
    BY <1>1 DEF Terminate
<1>3. \A t \in Conn \ {c} : wr'[t] = wr[t] /\ rx'[t] = rx[t]
    BY <1>1 DEF Terminate
<1>4. Inbox' = [Inbox EXCEPT ![c] = <<>>]
    BY <1>2, <1>3 DEF Inbox
<1>. QED  BY <1>4 DEF Terminate, Abs!Leave

(* One poll's drain and flush: a failing write is Leave; otherwise the     *)
(* inbox only loses the prefix that reached the socket (Deliver), or       *)
(* nothing at all when the socket took nothing.                           *)
LEMMA DrainFlushRefines ==
    ASSUME TypeOK, NEW c \in Conn, DrainFlush(c)
    PROVE  Abs!Leave(c) \/ Abs!Deliver(c) \/ UNCHANGED Abs!vars
<1>. DEFINE n == Drained(c)
            buf == wr[c] \o SubSeq(rx[c], 1, n)
            rest == SubSeq(rx[c], n + 1, Len(rx[c]))
<1>1. /\ wr \in [Conn -> Seq(Msg)]
      /\ rx \in [Conn -> Seq(Msg)]
      /\ out \in [Conn -> Seq(Msg)]
    BY DEF TypeOK
<1>2. n \in 0 .. Len(rx[c])
    BY <1>1, ConstAssumption DEF Drained
<1>3. buf \in Seq(Msg) /\ rest \in Seq(Msg)
    <2>1. Len(rx[c]) \in Nat
        BY <1>1, LenProperties
    <2>2. SubSeq(rx[c], 1, n) \in Seq(Msg) /\ rest \in Seq(Msg)
        BY <1>1, <1>2, <2>1, SubSeqProperties
    <2>. QED  BY <1>1, <2>2, ConcatProperties
<1>4. Inbox[c] = buf \o rest
    <2>1. wr[c] \in Seq(Msg) /\ rx[c] \in Seq(Msg)
        BY <1>1
    <2>. HIDE DEF n
    <2>2. wr[c] \o rx[c] = buf \o rest
        BY <1>2, <2>1, DrainSplit
    <2>. QED  BY <2>2 DEF Inbox
<1>5. phase[c] = "Active" /\ UNCHANGED <<pool, addr, sent, nread, eof>>
    BY DEF DrainFlush
<1>6. CASE Terminate(c)
    BY <1>5, <1>6, TerminateRefines
<1>7. CASE /\ rx' = [rx EXCEPT ![c] = SubSeq(@, n + 1, Len(@))]
           /\ PollFlush(c, buf)
           /\ UNCHANGED phase
    <2>1. rx'[c] = rest /\ \A t \in Conn \ {c} : rx'[t] = rx[t]
        BY <1>1, <1>7
    <2>2. CASE /\ wr' = [wr EXCEPT ![c] = buf]
               /\ UNCHANGED out
        <3>1. Inbox' = Inbox
            BY <1>1, <1>4, <2>1, <2>2 DEF Inbox
        <3>. QED  BY <1>5, <1>7, <2>2, <3>1 DEF Abs!vars
    <2>3. CASE \E k \in 1 .. Len(buf) :
                 /\ out' = [out EXCEPT ![c] = @ \o SubSeq(buf, 1, k)]
                 /\ wr' = [wr EXCEPT ![c] = SubSeq(buf, k + 1, Len(buf))]
        <3>1. PICK k \in 1 .. Len(buf) :
                 /\ out' = [out EXCEPT ![c] = @ \o SubSeq(buf, 1, k)]
                 /\ wr' = [wr EXCEPT ![c] = SubSeq(buf, k + 1, Len(buf))]
            BY <2>3
        <3>. HIDE DEF buf, rest
        <3>2. /\ k \in 1 .. Len(buf \o rest)
              /\ SubSeq(buf \o rest, 1, k) = SubSeq(buf, 1, k)
              /\ SubSeq(buf \o rest, k + 1, Len(buf \o rest))
                   = SubSeq(buf, k + 1, Len(buf)) \o rest
            BY <1>3, WritePrefix
        <3>3. Inbox' = [Inbox EXCEPT ![c] = SubSeq(@, k + 1, Len(@))]
            BY <1>1, <1>4, <2>1, <3>1, <3>2 DEF Inbox
        <3>4. out' = [out EXCEPT ![c] = @ \o SubSeq(Inbox[c], 1, k)]
            BY <1>4, <3>1, <3>2
        <3>. QED  BY <1>4, <1>5, <1>7, <3>2, <3>3, <3>4 DEF Abs!Deliver
    <2>. QED  BY <1>7, <2>2, <2>3 DEF PollFlush
<1>. QED  BY <1>6, <1>7 DEF DrainFlush

(* With the registry invariant, the fan-out's registry lookup reaches     *)
(* exactly the abstract audience of a joined peer.                         *)
LEMMA RecipientsAudience ==
    ASSUME TypeOK, Placed, RegistryMatchesLive,
           NEW c \in Conn, phase[c] = "Active"
    PROVE  Recipients(c) = Abs!Audience(c)
<1>. DEFINE T == Target(pool[c])
<1>1. pool[c] \in Pools /\ addr[c] \in Addr
    BY DEF Placed
<1>2. T \in Pools
    BY <1>1 DEF Target, Pools
<1>3. reg \in [Pools -> [Addr -> Conn \cup {None}]]
    BY DEF TypeOK
<1>4. ASSUME NEW r \in Recipients(c) PROVE r \in Abs!Audience(c)
    <2>1. PICK a \in Addr \ {addr[c]} : r = reg[T][a] /\ r # None
        BY <1>4 DEF Recipients
    <2>2. r \in Conn
        BY <1>2, <1>3, <2>1
    <2>3. phase[r] = "Active" /\ pool[r] = T /\ addr[r] = a
        BY <1>2, <2>1 DEF RegistryMatchesLive
    <2>. QED  BY <2>1, <2>2, <2>3 DEF Abs!Audience, Abs!Target, Target
<1>5. ASSUME NEW r \in Abs!Audience(c) PROVE r \in Recipients(c)
    <2>1. r \in Conn /\ phase[r] = "Active" /\ pool[r] = T /\ addr[r] # addr[c]
        BY <1>5 DEF Abs!Audience, Abs!Target, Target
    <2>2. addr[r] \in Addr
        BY <2>1 DEF Placed
    <2>3. reg[T][addr[r]] = r
        BY <2>1 DEF RegistryMatchesLive
    <2>4. r # None
        BY <2>1, ConstAssumption
    <2>. QED  BY <2>1, <2>2, <2>3, <2>4 DEF Recipients
<1>. QED  BY <1>4, <1>5

(* One turn of the read loop: a read error or end of stream is Leave, a   *)
(* line broadcast is Say, NotReady changes nothing the abstraction sees.  *)
LEMMA ReadRefines ==
    ASSUME TypeOK, Placed, RegistryMatchesLive, NEW c \in Conn, Read(c)
    PROVE  Abs!Leave(c) \/ Abs!Say(c) \/ UNCHANGED Abs!vars
<1>1. phase[c] = "Active"
    BY DEF Read
<1>2. CASE Terminate(c)
    BY <1>1, <1>2, TerminateRefines
<1>3. CASE /\ nread[c] < sent[c]
           /\ nread' = [nread EXCEPT ![c] = @ + 1]
           /\ Broadcast(c, Format(c, nread[c] + 1))
           /\ UNCHANGED <<phase, pool, addr, sent, eof, writable, wr, out,
                          pc, reg, joinMark>>
    <2>. DEFINE m == Format(c, nread[c] + 1)
    <2>1. Recipients(c) = Abs!Audience(c)
        BY <1>1, RecipientsAudience
    <2>2. m \in Msg
        <3>1. nread \in [Conn -> 0 .. MaxLines] /\ sent \in [Conn -> 0 .. MaxLines]
            BY DEF TypeOK
        <3>2. nread[c] + 1 \in 1 .. MaxLines
            BY <1>3, <3>1, ConstAssumption
        <3>. QED  BY <3>2, FormatType
    <2>3. wr \in [Conn -> Seq(Msg)] /\ rx \in [Conn -> Seq(Msg)]
        BY DEF TypeOK
    <2>. HIDE DEF m
    <2>4. ASSUME NEW t \in Conn
          PROVE  wr[t] \o Append(rx[t], m) = Append(wr[t] \o rx[t], m)
        <3>. DEFINE w == wr[t]
                    x == rx[t]
        <3>1. w \in Seq(Msg) /\ x \in Seq(Msg)
            BY <2>3
        <3>. HIDE DEF w, x
        <3>2. w \o Append(x, m) = Append(w \o x, m)
            BY <2>2, <3>1, ConcatAppend
        <3>. QED  BY <3>2 DEF w, x
    <2>5. rx' = [t \in Conn |-> IF t \in Recipients(c) THEN Append(rx[t], m)
                                                       ELSE rx[t]]
        BY <1>3 DEF Broadcast, m
    <2>6. Inbox' = [r \in Conn |-> IF r \in Abs!Audience(c)
                                   THEN Append(Inbox[r], m) ELSE Inbox[r]]
        BY <1>3, <2>1, <2>4, <2>5 DEF Inbox
    <2>7. Abs!Format(c, nread[c] + 1) = m
        BY DEF Abs!Format, Abs!Line, m, Format, Line
    <2>. QED  BY <1>1, <1>3, <2>6, <2>7 DEF Abs!Say
<1>4. CASE UNCHANGED <<phase, pool, addr, sent, nread, eof, rx, wr, out>>
    BY <1>4 DEF Abs!vars, Inbox
<1>. QED  BY <1>2, <1>3, <1>4 DEF Read

(* Every step of the relay, from a state of the registry invariant, is a  *)
(* step of the abstract specification or leaves its variables unchanged.  *)
LEMMA NextRefines == IInv /\ [Next]_vars => [Abs!Next]_Abs!vars
<1>. SUFFICES ASSUME IInv, [Next]_vars PROVE [Abs!Next]_Abs!vars
    OBVIOUS
<1>1. TypeOK /\ Placed /\ RegistryMatchesLive
    BY DEF IInv, TypeInv
<1>2. ASSUME NEW c \in Conn, NEW p \in Pools, NEW a \in Addr, Accept(c, p, a)
      PROVE  [Abs!Next]_Abs!vars
    <2>1. Abs!Connect(c, p, a)
        BY <1>2, AcceptRefines
    <2>2. p \in Abs!Pools
        BY DEF Pools, Abs!Pools
    <2>. QED  BY <2>1, <2>2 DEF Abs!Next
<1>3. ASSUME NEW c \in Conn, Client(c) PROVE [Abs!Next]_Abs!vars
    BY <1>3, ClientRefines DEF Abs!Next
<1>4. ASSUME NEW c \in Conn, PollName(c) PROVE [Abs!Next]_Abs!vars
    BY <1>4, PollNameRefines DEF Abs!Next
<1>5. ASSUME NEW c \in Conn, DrainFlush(c) PROVE [Abs!Next]_Abs!vars
    BY <1>1, <1>5, DrainFlushRefines DEF Abs!Next
<1>6. ASSUME NEW c \in Conn, Read(c) PROVE [Abs!Next]_Abs!vars
    BY <1>1, <1>6, ReadRefines DEF Abs!Next
<1>7. CASE UNCHANGED vars
    BY <1>7 DEF vars, Abs!vars, Inbox
<1>. QED  BY <1>2, <1>3, <1>4, <1>5, <1>6, <1>7 DEF Next, Server

-----------------------------------------------------------------------------
(* The relay implements its abstract specification: every behaviour of    *)
(* Relay, with each peer's inbox read as its write buffer followed by its *)
(* channel, is a behaviour of BroadcastSpec.  So each line a peer reads   *)
(* is handed at once, once and in order, to exactly the peers then joined *)
(* to the other pool under another address, and reaches a socket only by *)
(* leaving the front of that peer's inbox.  This is the property the run  *)
(* relay_refinement checks as Refines.                                     *)
THEOREM RelayImplementsBroadcast == Spec => Refines
<1>1. Init => IInv /\ Abs!Init
    BY InitIInv, InitRefines
<1>2. IInv /\ [Next]_vars => IInv'
    BY NextIInv
<1>3. IInv /\ [Next]_vars => [Abs!Next]_Abs!vars
    BY NextRefines
<1>. QED  BY <1>1, <1>2, <1>3, PTL DEF Spec, Refines, Abs!Spec

=============================================================================
