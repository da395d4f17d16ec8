----------------------------- MODULE RelayProofs -----------------------------
(***************************************************************************)
(* Machine-checked proofs about Relay, for every value of the constants:  *)
(* type correctness, and that each pool's registry holds exactly the      *)
(* joined, not yet dropped peers of that pool (RegistryMatchesLive).       *)
(***************************************************************************)
EXTENDS Relay, SequenceTheorems, TLAPS

(* A connection that has been accepted has a listener and an address.     *)
Placed ==
    \A c \in Conn : phase[c] # "Unborn" => pool[c] \in Pools /\ addr[c] \in Addr

(* TCP: the open sockets of one listener have distinct remote addresses.  *)
LiveAddrUnique ==
    \A c, d \in Live : c # d /\ pool[c] = pool[d] => addr[c] # addr[d]

TypeInv == TypeOK /\ Placed

(* The inductive strengthening of RegistryMatchesLive.                    *)
IInv == TypeInv /\ LiveAddrUnique /\ RegistryMatchesLive

-----------------------------------------------------------------------------
(* Lemmas about the sequence operations the actions use.                  *)

LEMMA SubSeqType ==
    ASSUME NEW S, NEW s \in Seq(S), NEW m \in Nat \ {0}, NEW n \in 0 .. Len(s)
    PROVE  SubSeq(s, m, n) \in Seq(S)
BY SubSeqProperties

LEMMA FormatType ==
    ASSUME NEW c \in Conn, NEW k \in 1 .. MaxLines
    PROVE  Format(c, k) \in Msg
BY ConstAssumption DEF Format, Msg, Line

LEMMA NBcastType ==
    ASSUME TypeOK, NEW s \in Conn
    PROVE  NBcast(s) \in 0 .. MaxLines
<1>1. nread[s] \in 0 .. MaxLines
    BY DEF TypeOK
<1>. QED  BY <1>1, ConstAssumption DEF NBcast

-----------------------------------------------------------------------------
(* Type correctness.  Each lemma first takes from TypeOK the conjuncts it  *)
(* needs, so that no leaf carries the whole type invariant.                *)

LEMMA InitTypeInv == Init => TypeInv
BY ConstAssumption DEF Init, TypeInv, TypeOK, Placed, Pools

(* Drop of a placed connection keeps every variable in its type.          *)
LEMMA TerminateType ==
    ASSUME TypeInv, NEW c \in Conn, pool[c] \in Pools, addr[c] \in Addr,
           Terminate(c)
    PROVE  TypeInv'
<1>1. phase' \in [Conn -> {"Unborn", "AwaitingName", "Active", "Done"}]
    <2>1. phase \in [Conn -> {"Unborn", "AwaitingName", "Active", "Done"}]
        BY DEF TypeInv, TypeOK
    <2>. QED  BY <2>1 DEF Terminate
<1>2. reg' \in [Pools -> [Addr -> Conn \cup {None}]]
    <2>1. reg \in [Pools -> [Addr -> Conn \cup {None}]]
        BY DEF TypeInv, TypeOK
    <2>. QED  BY <2>1 DEF Terminate, Deregister
<1>3. rx' \in [Conn -> Seq(Msg)] /\ wr' \in [Conn -> Seq(Msg)]
    <2>1. rx \in [Conn -> Seq(Msg)] /\ wr \in [Conn -> Seq(Msg)]
        BY DEF TypeInv, TypeOK
    <2>. QED  BY <2>1 DEF Terminate
<1>4. /\ pc' \in [Conn -> {"idle", "read"}]
      /\ notified' \in [Conn -> BOOLEAN]
      /\ rxParked' \in [Conn -> BOOLEAN]
    <2>1. /\ pc \in [Conn -> {"idle", "read"}]
          /\ notified \in [Conn -> BOOLEAN]
          /\ rxParked \in [Conn -> BOOLEAN]
        BY DEF TypeInv, TypeOK
    <2>. QED  BY <2>1 DEF Terminate
<1>5. UNCHANGED <<pool, addr, sent, nread, eof, writable, out, joinMark>>
    BY DEF Terminate
<1>6. Placed'
    BY <1>5 DEF Terminate, TypeInv, Placed
<1>. QED  BY <1>1, <1>2, <1>3, <1>4, <1>5, <1>6 DEF TypeInv, TypeOK

(* poll_flush of a well-typed buffer leaves wr, out, writable typed.     *)
LEMMA PollFlushType ==
    ASSUME TypeInv, NEW c \in Conn, NEW buf \in Seq(Msg), PollFlush(c, buf)
    PROVE  /\ wr' \in [Conn -> Seq(Msg)]
           /\ out' \in [Conn -> Seq(Msg)]
           /\ writable' \in [Conn -> BOOLEAN]
<1>0. /\ wr \in [Conn -> Seq(Msg)]
      /\ out \in [Conn -> Seq(Msg)]
      /\ writable \in [Conn -> BOOLEAN]
    BY DEF TypeInv, TypeOK
<1>1. CASE /\ buf = <<>> \/ ~writable[c]
           /\ wr' = [wr EXCEPT ![c] = buf]
           /\ UNCHANGED <<out, writable>>
    BY <1>0, <1>1
<1>2. CASE /\ buf # <<>> /\ writable[c]
           /\ \E k \in 1 .. Len(buf) :
                 /\ out' = [out EXCEPT ![c] = @ \o SubSeq(buf, 1, k)]
                 /\ wr' = [wr EXCEPT ![c] = SubSeq(buf, k + 1, Len(buf))]
                 /\ writable' = [writable EXCEPT ![c] = (k = Len(buf))]
    <2>1. PICK k \in 1 .. Len(buf) :
                 /\ out' = [out EXCEPT ![c] = @ \o SubSeq(buf, 1, k)]
                 /\ wr' = [wr EXCEPT ![c] = SubSeq(buf, k + 1, Len(buf))]
                 /\ writable' = [writable EXCEPT ![c] = (k = Len(buf))]
        BY <1>2
    <2>2. SubSeq(buf, 1, k) \in Seq(Msg) /\ SubSeq(buf, k + 1, Len(buf)) \in Seq(Msg)
        BY SubSeqType
    <2>3. out[c] \o SubSeq(buf, 1, k) \in Seq(Msg)
        BY <1>0, <2>2, ConcatProperties
    <2>. QED  BY <1>0, <2>1, <2>2, <2>3
<1>. QED  BY <1>1, <1>2 DEF PollFlush

LEMMA AcceptType ==
    ASSUME TypeInv, NEW c \in Conn, NEW p \in Pools, NEW a \in Addr,
           Accept(c, p, a)
    PROVE  TypeInv'
<1>1. /\ phase' \in [Conn -> {"Unborn", "AwaitingName", "Active", "Done"}]
      /\ pool' \in [Conn -> Pools \cup {None}]
      /\ addr' \in [Conn -> Addr \cup {None}]
      /\ notified' \in [Conn -> BOOLEAN]
    <2>1. /\ phase \in [Conn -> {"Unborn", "AwaitingName", "Active", "Done"}]
          /\ pool \in [Conn -> Pools \cup {None}]
          /\ addr \in [Conn -> Addr \cup {None}]
          /\ notified \in [Conn -> BOOLEAN]
        BY DEF TypeInv, TypeOK
    <2>. QED  BY <2>1 DEF Accept, Notify
<1>2. Placed'
    <2>1. /\ phase \in [Conn -> {"Unborn", "AwaitingName", "Active", "Done"}]
          /\ pool \in [Conn -> Pools \cup {None}]
          /\ addr \in [Conn -> Addr \cup {None}]
        BY DEF TypeInv, TypeOK
    <2>. QED  BY <2>1 DEF Accept, TypeInv, Placed
<1>3. UNCHANGED <<sent, nread, eof, writable, rx, wr, out, pc, rxParked, reg,
                  joinMark>>
    BY DEF Accept
<1>. QED  BY <1>1, <1>2, <1>3 DEF TypeInv, TypeOK

LEMMA ClientType ==
    ASSUME TypeInv, NEW c \in Conn, Client(c)
    PROVE  TypeInv'
<1>0. notified \in [Conn -> BOOLEAN]
    BY DEF TypeInv, TypeOK
<1>1. CASE ClientSend(c)
    <2>1. sent \in [Conn -> 0 .. MaxLines]
        BY DEF TypeInv, TypeOK
    <2>2. sent' \in [Conn -> 0 .. MaxLines] /\ notified' \in [Conn -> BOOLEAN]
        BY <1>0, <1>1, <2>1, ConstAssumption DEF ClientSend, Notify
    <2>3. UNCHANGED <<phase, pool, addr, nread, eof, writable, rx, wr, out,
                      pc, rxParked, reg, joinMark>>
        BY <1>1 DEF ClientSend
    <2>. QED  BY <2>2, <2>3 DEF TypeInv, TypeOK, Placed
<1>2. CASE ClientClose(c)
    <2>1. eof \in [Conn -> BOOLEAN]
        BY DEF TypeInv, TypeOK
    <2>2. eof' \in [Conn -> BOOLEAN] /\ notified' \in [Conn -> BOOLEAN]
        BY <1>0, <1>2, <2>1 DEF ClientClose, Notify
    <2>3. UNCHANGED <<phase, pool, addr, sent, nread, writable, rx, wr, out,
                      pc, rxParked, reg, joinMark>>
        BY <1>2 DEF ClientClose
    <2>. QED  BY <2>2, <2>3 DEF TypeInv, TypeOK, Placed
<1>3. CASE ClientRead(c)
    <2>1. writable \in [Conn -> BOOLEAN]
        BY DEF TypeInv, TypeOK
    <2>2. writable' \in [Conn -> BOOLEAN] /\ notified' \in [Conn -> BOOLEAN]
        BY <1>0, <1>3, <2>1 DEF ClientRead, Notify
    <2>3. UNCHANGED <<phase, pool, addr, sent, nread, eof, rx, wr, out,
                      pc, rxParked, reg, joinMark>>
        BY <1>3 DEF ClientRead
    <2>. QED  BY <2>2, <2>3 DEF TypeInv, TypeOK, Placed
<1>. QED  BY <1>1, <1>2, <1>3 DEF Client

LEMMA PollNameType ==
    ASSUME TypeInv, NEW c \in Conn, PollName(c)
    PROVE  TypeInv'
<1>0. /\ phase \in [Conn -> {"Unborn", "AwaitingName", "Active", "Done"}]
      /\ notified \in [Conn -> BOOLEAN]
    BY DEF TypeInv, TypeOK
<1>1. pool[c] \in Pools /\ addr[c] \in Addr
    BY DEF PollName, TypeInv, Placed
<1>2. UNCHANGED <<pool, addr, sent, eof, writable, rx, wr, out, rxParked>>
    BY DEF PollName
<1>3. CASE /\ phase' = [phase EXCEPT ![c] = "Done"]
           /\ notified' = [notified EXCEPT ![c] = FALSE]
           /\ UNCHANGED <<nread, reg, pc, joinMark>>
    <2>1. /\ phase' \in [Conn -> {"Unborn", "AwaitingName", "Active", "Done"}]
          /\ notified' \in [Conn -> BOOLEAN]
        BY <1>0, <1>3
    <2>2. Placed'
        BY <1>1, <1>2, <1>3 DEF TypeInv, Placed
    <2>. QED  BY <1>2, <1>3, <2>1, <2>2 DEF TypeInv, TypeOK
<1>4. CASE /\ nread[c] < sent[c]
           /\ nread' = [nread EXCEPT ![c] = @ + 1]
           /\ phase' = [phase EXCEPT ![c] = "Active"]
           /\ Register(c)
           /\ UNCHANGED <<pc, notified>>
           /\ joinMark' = [joinMark EXCEPT ![c] = [s \in Conn |-> NBcast(s)]]
    <2>1. nread' \in [Conn -> 0 .. MaxLines]
        <3>1. nread \in [Conn -> 0 .. MaxLines] /\ sent \in [Conn -> 0 .. MaxLines]
            BY DEF TypeInv, TypeOK
        <3>2. nread[c] < sent[c]
            BY <1>4
        <3>3. nread[c] + 1 \in 0 .. MaxLines
            BY <3>1, <3>2, ConstAssumption
        <3>. QED  BY <1>4, <3>1, <3>3
    <2>2. reg' \in [Pools -> [Addr -> Conn \cup {None}]]
        <3>1. reg \in [Pools -> [Addr -> Conn \cup {None}]]
            BY DEF TypeInv, TypeOK
        <3>. QED  BY <1>1, <1>4, <3>1 DEF Register
    <2>3. joinMark' \in [Conn -> [Conn -> 0 .. MaxLines]]
        <3>1. joinMark \in [Conn -> [Conn -> 0 .. MaxLines]]
            BY DEF TypeInv, TypeOK
        <3>2. [s \in Conn |-> NBcast(s)] \in [Conn -> 0 .. MaxLines]
            BY NBcastType DEF TypeInv
        <3>. QED  BY <1>4, <3>1, <3>2
    <2>4. phase' \in [Conn -> {"Unborn", "AwaitingName", "Active", "Done"}]
        BY <1>0, <1>4
    <2>5. Placed'
        BY <1>1, <1>2, <1>4 DEF TypeInv, Placed
    <2>. QED  BY <1>0, <1>2, <1>4, <2>1, <2>2, <2>3, <2>4, <2>5 DEF TypeInv, TypeOK
<1>5. CASE /\ notified' = [notified EXCEPT ![c] = FALSE]
           /\ UNCHANGED <<phase, nread, reg, pc, joinMark>>
    <2>1. notified' \in [Conn -> BOOLEAN]
        BY <1>0, <1>5
    <2>. QED  BY <1>2, <1>5, <2>1 DEF TypeInv, TypeOK, Placed
<1>. QED  BY <1>3, <1>4, <1>5 DEF PollName

LEMMA DrainFlushType ==
    ASSUME TypeInv, NEW c \in Conn, DrainFlush(c)
    PROVE  TypeInv'
<1>. DEFINE n == Drained(c)
            buf == wr[c] \o SubSeq(rx[c], 1, n)
<1>1. pool[c] \in Pools /\ addr[c] \in Addr
    BY DEF DrainFlush, TypeInv, Placed
<1>2. rx[c] \in Seq(Msg) /\ wr[c] \in Seq(Msg)
    BY DEF TypeInv, TypeOK
<1>3. n \in 0 .. Len(rx[c])
    BY <1>2, ConstAssumption DEF Drained
<1>4. buf \in Seq(Msg)
    <2>1. SubSeq(rx[c], 1, n) \in Seq(Msg)
        BY <1>2, <1>3, SubSeqType
    <2>. QED  BY <1>2, <2>1, ConcatProperties
<1>5. CASE Terminate(c)
    BY <1>1, <1>5, TerminateType
<1>6. CASE /\ rx' = [rx EXCEPT ![c] = SubSeq(@, n + 1, Len(@))]
           /\ notified' = [notified EXCEPT ![c] = SelfNotify(n)]
           /\ rxParked' = [rxParked EXCEPT ![c] = (n < LinesPerTick)]
           /\ pc' = [pc EXCEPT ![c] = "read"]
           /\ PollFlush(c, buf)
           /\ UNCHANGED <<phase, reg>>
    <2>1. /\ wr' \in [Conn -> Seq(Msg)]
          /\ out' \in [Conn -> Seq(Msg)]
          /\ writable' \in [Conn -> BOOLEAN]
        BY <1>4, <1>6, PollFlushType
    <2>2. SubSeq(rx[c], n + 1, Len(rx[c])) \in Seq(Msg)
        <3>1. Len(rx[c]) \in Nat
            BY <1>2, LenProperties
        <3>2. n + 1 \in Nat \ {0} /\ Len(rx[c]) \in 0 .. Len(rx[c])
            BY <1>3, <3>1
        <3>. QED  BY <1>2, <3>2, SubSeqType
    <2>3. rx' \in [Conn -> Seq(Msg)]
        <3>1. rx \in [Conn -> Seq(Msg)]
            BY DEF TypeInv, TypeOK
        <3>. QED  BY <1>6, <2>2, <3>1
    <2>4. /\ notified' \in [Conn -> BOOLEAN]
          /\ rxParked' \in [Conn -> BOOLEAN]
          /\ pc' \in [Conn -> {"idle", "read"}]
        <3>1. /\ notified \in [Conn -> BOOLEAN]
              /\ rxParked \in [Conn -> BOOLEAN]
              /\ pc \in [Conn -> {"idle", "read"}]
            BY DEF TypeInv, TypeOK
        <3>. QED  BY <1>6, <3>1 DEF SelfNotify
    <2>5. UNCHANGED <<phase, reg, pool, addr, sent, nread, eof, joinMark>>
        BY <1>6 DEF DrainFlush
    <2>. QED  BY <2>1, <2>3, <2>4, <2>5 DEF TypeInv, TypeOK, Placed
<1>. QED  BY <1>5, <1>6 DEF DrainFlush

LEMMA ReadType ==
    ASSUME TypeInv, NEW c \in Conn, Read(c)
    PROVE  TypeInv'
<1>1. pool[c] \in Pools /\ addr[c] \in Addr
    BY DEF Read, TypeInv, Placed
<1>2. CASE Terminate(c)
    BY <1>1, <1>2, TerminateType
<1>3. CASE /\ nread[c] < sent[c]
           /\ nread' = [nread EXCEPT ![c] = @ + 1]
           /\ Broadcast(c, Format(c, nread[c] + 1))
           /\ UNCHANGED <<phase, pool, addr, sent, eof, writable, wr, out,
                          pc, reg, joinMark>>
    <2>1. nread[c] + 1 \in 1 .. MaxLines
        <3>1. nread \in [Conn -> 0 .. MaxLines] /\ sent \in [Conn -> 0 .. MaxLines]
            BY DEF TypeInv, TypeOK
        <3>2. nread[c] < sent[c]
            BY <1>3
        <3>. QED  BY <3>1, <3>2, ConstAssumption
    <2>2. Format(c, nread[c] + 1) \in Msg
        BY <2>1, FormatType
    <2>3. rx \in [Conn -> Seq(Msg)]
        BY DEF TypeInv, TypeOK
    <2>4. \A t \in Conn : Append(rx[t], Format(c, nread[c] + 1)) \in Seq(Msg)
        BY <2>2, <2>3, AppendProperties
    <2>5. rx' \in [Conn -> Seq(Msg)]
        BY <1>3, <2>3, <2>4 DEF Broadcast
    <2>6. /\ notified' \in [Conn -> BOOLEAN]
          /\ rxParked' \in [Conn -> BOOLEAN]
        <3>1. notified \in [Conn -> BOOLEAN] /\ rxParked \in [Conn -> BOOLEAN]
            BY DEF TypeInv, TypeOK
        <3>. QED  BY <1>3, <3>1 DEF Broadcast, Notify
    <2>7. nread' \in [Conn -> 0 .. MaxLines]
        <3>1. nread \in [Conn -> 0 .. MaxLines]
            BY DEF TypeInv, TypeOK
        <3>. QED  BY <1>3, <2>1, <3>1
    <2>. QED  BY <1>3, <2>5, <2>6, <2>7 DEF TypeInv, TypeOK, Placed
<1>4. CASE /\ pc' = [pc EXCEPT ![c] = "idle"]
           /\ UNCHANGED <<phase, pool, addr, sent, nread, eof, writable, rx,
                          wr, out, notified, rxParked, reg, joinMark>>
    <2>1. pc \in [Conn -> {"idle", "read"}]
        BY DEF TypeInv, TypeOK
    <2>. QED  BY <1>4, <2>1 DEF TypeInv, TypeOK, Placed
<1>. QED  BY <1>2, <1>3, <1>4 DEF Read

LEMMA NextTypeInv == TypeInv /\ [Next]_vars => TypeInv'
<1> SUFFICES ASSUME TypeInv, [Next]_vars PROVE TypeInv'
    OBVIOUS
<1>1. ASSUME NEW c \in Conn, NEW p \in Pools, NEW a \in Addr, Accept(c, p, a)
      PROVE  TypeInv'
    BY <1>1, AcceptType
<1>2. ASSUME NEW c \in Conn, Client(c) PROVE TypeInv'
    BY <1>2, ClientType
<1>3. ASSUME NEW c \in Conn, PollName(c) PROVE TypeInv'
    BY <1>3, PollNameType
<1>4. ASSUME NEW c \in Conn, DrainFlush(c) PROVE TypeInv'
    BY <1>4, DrainFlushType
<1>5. ASSUME NEW c \in Conn, Read(c) PROVE TypeInv'
    BY <1>5, ReadType
<1>6. CASE UNCHANGED vars
    BY <1>6 DEF vars, TypeInv, TypeOK, Placed
<1>. QED  BY <1>1, <1>2, <1>3, <1>4, <1>5, <1>6 DEF Next, Server


-----------------------------------------------------------------------------
(* The registry.  RegistryMatchesLive is not inductive alone: the insert *)
(* of CPeer::new overwrites whatever peers[addr] held, so a join is only  *)
(* safe because no other live socket of the same listener has that       *)
(* address (LiveAddrUnique, which main's accept loop inherits from TCP).  *)

RegInv == LiveAddrUnique /\ RegistryMatchesLive

RegTypes ==
    /\ phase \in [Conn -> {"Unborn", "AwaitingName", "Active", "Done"}]
    /\ pool \in [Conn -> Pools \cup {None}]
    /\ addr \in [Conn -> Addr \cup {None}]
    /\ reg \in [Pools -> [Addr -> Conn \cup {None}]]

(* An entry of a registry always names a joined peer: an Unborn or        *)
(* AwaitingName connection, or a dropped one, is in no registry.          *)
LEMMA RegEntryActive ==
    ASSUME RegTypes, RegistryMatchesLive,
           NEW p \in Pools, NEW a \in Addr, reg[p][a] # None
    PROVE  /\ reg[p][a] \in Conn
           /\ phase[reg[p][a]] = "Active"
           /\ pool[reg[p][a]] = p /\ addr[reg[p][a]] = a
BY DEF RegTypes, RegistryMatchesLive

(* The part of the type invariant the registry proofs need.               *)
LEMMA TypeInvRegTypes == TypeInv => RegTypes /\ Placed
BY DEF TypeInv, TypeOK, RegTypes

(* Steps that touch neither phase, pool, addr nor the registry.           *)
LEMMA RegUnchanged ==
    ASSUME RegInv, UNCHANGED <<phase, pool, addr, reg>>
    PROVE  RegInv'
BY DEF RegInv, LiveAddrUnique, RegistryMatchesLive, Live

LEMMA AcceptReg ==
    ASSUME RegTypes, Placed, LiveAddrUnique, RegistryMatchesLive, NEW c \in Conn, NEW p \in Pools, NEW a \in Addr,
           Accept(c, p, a)
    PROVE  RegInv'
<1>. USE ConstAssumption DEF RegTypes
<1>1. \A q \in Pools, b \in Addr : reg[q][b] # c
    BY DEF Accept, RegistryMatchesLive
<1>2. /\ c \notin Live
      /\ \A d \in Conn : d \in Live' <=> d \in Live \/ d = c
    BY DEF Accept, Live
<1>3. LiveAddrUnique'
    <2>. SUFFICES ASSUME NEW d \in Live', NEW e \in Live', d # e,
                         pool'[d] = pool'[e]
                  PROVE  addr'[d] # addr'[e]
        BY DEF LiveAddrUnique
    <2>0. d \in Conn /\ e \in Conn
        BY DEF Live
    <2>1. ASSUME NEW x \in Conn, NEW y \in Conn, x = c, y # c, y \in Live',
                 pool'[x] = pool'[y]
          PROVE  addr'[x] # addr'[y]
        <3>1. y \in Live
            BY <1>2, <2>1
        <3>2. pool'[y] = pool[y] /\ addr'[y] = addr[y] /\ pool'[x] = p /\ addr'[x] = a
            BY <2>1 DEF Accept
        <3>. QED  BY <2>1, <3>1, <3>2 DEF Accept
    <2>2. CASE d = c
        BY <2>0, <2>1, <2>2
    <2>3. CASE e = c
        BY <2>0, <2>1, <2>3
    <2>4. CASE d # c /\ e # c
        <3>1. d \in Live /\ e \in Live
            BY <1>2, <2>0, <2>4
        <3>2. pool'[d] = pool[d] /\ addr'[d] = addr[d] /\ pool'[e] = pool[e] /\ addr'[e] = addr[e]
            BY <2>0, <2>4 DEF Accept
        <3>. QED  BY <3>1, <3>2 DEF LiveAddrUnique
    <2>. QED  BY <2>2, <2>3, <2>4
<1>4. RegistryMatchesLive'
    <2>1. ASSUME NEW q \in Pools, NEW b \in Addr, reg'[q][b] # None
          PROVE  /\ phase'[reg'[q][b]] = "Active"
                 /\ pool'[reg'[q][b]] = q
                 /\ addr'[reg'[q][b]] = b
        <3>1. reg'[q][b] = reg[q][b] /\ reg[q][b] # None
            BY <2>1 DEF Accept
        <3>2. reg[q][b] \in Conn /\ reg[q][b] # c
            BY <1>1, <3>1
        <3>. QED  BY <3>1, <3>2, RegEntryActive DEF Accept
    <2>2. ASSUME NEW d \in Conn, phase'[d] = "Active"
          PROVE  reg'[pool'[d]][addr'[d]] = d
        <3>1. d # c /\ phase[d] = "Active"
            BY <2>2 DEF Accept
        <3>. QED  BY <3>1 DEF Accept, RegistryMatchesLive
    <2>. QED  BY <2>1, <2>2 DEF RegistryMatchesLive
<1>. QED  BY <1>3, <1>4 DEF RegInv

LEMMA PollNameReg ==
    ASSUME RegTypes, Placed, LiveAddrUnique, RegistryMatchesLive, NEW c \in Conn, PollName(c)
    PROVE  RegInv'
<1>. USE ConstAssumption DEF RegTypes
<1>1. /\ phase[c] = "AwaitingName" /\ pool[c] \in Pools /\ addr[c] \in Addr
      /\ UNCHANGED <<pool, addr>>
    BY DEF PollName, Placed
<1>2. \A q \in Pools, b \in Addr : reg[q][b] # c
    BY <1>1, RegEntryActive
<1>3. CASE /\ phase' = [phase EXCEPT ![c] = "Done"]
           /\ UNCHANGED reg
    <2>1. LiveAddrUnique'
        BY <1>1, <1>3 DEF LiveAddrUnique, Live
    <2>2. ASSUME NEW q \in Pools, NEW b \in Addr, reg'[q][b] # None
          PROVE  /\ phase'[reg'[q][b]] = "Active"
                 /\ pool'[reg'[q][b]] = q
                 /\ addr'[reg'[q][b]] = b
        <3>1. reg[q][b] \in Conn /\ reg[q][b] # c
            BY <1>2, <1>3, <2>2, RegEntryActive
        <3>. QED  BY <1>1, <1>3, <2>2, <3>1, RegEntryActive
    <2>3. ASSUME NEW d \in Conn, phase'[d] = "Active"
          PROVE  reg'[pool'[d]][addr'[d]] = d
        BY <1>1, <1>3, <2>3 DEF RegistryMatchesLive
    <2>. QED  BY <2>1, <2>2, <2>3 DEF RegInv, RegistryMatchesLive
<1>4. CASE /\ phase' = [phase EXCEPT ![c] = "Active"]
           /\ Register(c)
    <2>1. \A d \in Conn : phase[d] = "Active" =>
             ~(pool[d] = pool[c] /\ addr[d] = addr[c])
        <3>. SUFFICES ASSUME NEW d \in Conn, phase[d] = "Active",
                             pool[d] = pool[c], addr[d] = addr[c]
                      PROVE  FALSE
            OBVIOUS
        <3>1. d \in Live /\ c \in Live /\ d # c
            BY <1>1 DEF Live
        <3>. QED  BY <3>1 DEF LiveAddrUnique
    <2>2. reg[pool[c]][addr[c]] = None
        <3>. SUFFICES ASSUME reg[pool[c]][addr[c]] # None PROVE FALSE
            OBVIOUS
        <3>1. /\ reg[pool[c]][addr[c]] \in Conn
              /\ phase[reg[pool[c]][addr[c]]] = "Active"
              /\ pool[reg[pool[c]][addr[c]]] = pool[c]
              /\ addr[reg[pool[c]][addr[c]]] = addr[c]
            BY <1>1, RegEntryActive
        <3>. QED  BY <2>1, <3>1
    <2>3. \A q \in Pools, b \in Addr :
             reg'[q][b] = IF q = pool[c] /\ b = addr[c] THEN c ELSE reg[q][b]
        BY <1>1, <1>4 DEF Register
    <2>4. Live' = Live
        BY <1>1, <1>4 DEF Live
    <2>5. LiveAddrUnique'
        BY <1>1, <2>4 DEF LiveAddrUnique
    <2>6. ASSUME NEW q \in Pools, NEW b \in Addr, reg'[q][b] # None
          PROVE  /\ phase'[reg'[q][b]] = "Active"
                 /\ pool'[reg'[q][b]] = q
                 /\ addr'[reg'[q][b]] = b
        <3>1. CASE q = pool[c] /\ b = addr[c]
            BY <1>1, <1>4, <2>3, <3>1
        <3>2. CASE ~(q = pool[c] /\ b = addr[c])
            <4>1. reg'[q][b] = reg[q][b] /\ reg[q][b] # None
                BY <2>3, <2>6, <3>2
            <4>2. reg[q][b] \in Conn /\ reg[q][b] # c
                BY <1>2, <4>1, RegEntryActive
            <4>. QED  BY <1>1, <1>4, <4>1, <4>2, RegEntryActive
        <3>. QED  BY <3>1, <3>2
    <2>7. ASSUME NEW d \in Conn, phase'[d] = "Active"
          PROVE  reg'[pool'[d]][addr'[d]] = d
        <3>1. CASE d = c
            BY <1>1, <2>3, <3>1
        <3>2. CASE d # c
            <4>1. phase[d] = "Active" /\ pool[d] \in Pools /\ addr[d] \in Addr
                BY <1>4, <2>7, <3>2 DEF Placed
            <4>2. ~(pool[d] = pool[c] /\ addr[d] = addr[c])
                BY <2>1, <4>1
            <4>. QED  BY <1>1, <2>3, <4>1, <4>2 DEF RegistryMatchesLive
        <3>. QED  BY <3>1, <3>2
    <2>. QED  BY <2>5, <2>6, <2>7 DEF RegInv, RegistryMatchesLive
<1>5. CASE UNCHANGED <<phase, reg>>
    BY <1>1, <1>5, RegUnchanged DEF RegInv
<1>. QED  BY <1>3, <1>4, <1>5 DEF PollName

(* Drop of a joined peer removes exactly its own entry.                   *)
LEMMA TerminateReg ==
    ASSUME RegTypes, Placed, LiveAddrUnique, RegistryMatchesLive, NEW c \in Conn, phase[c] = "Active", Terminate(c)
    PROVE  RegInv'
<1>. USE ConstAssumption DEF RegTypes
<1>1. pool[c] \in Pools /\ addr[c] \in Addr /\ UNCHANGED <<pool, addr>>
    BY DEF Placed, Terminate
<1>2. reg[pool[c]][addr[c]] = c
    BY DEF RegistryMatchesLive
<1>3. \A q \in Pools, b \in Addr :
         reg'[q][b] = IF q = pool[c] /\ b = addr[c] THEN None ELSE reg[q][b]
    BY <1>1 DEF Terminate, Deregister
<1>4. phase' = [phase EXCEPT ![c] = "Done"]
    BY DEF Terminate
<1>5. LiveAddrUnique'
    BY <1>1, <1>4 DEF LiveAddrUnique, Live
<1>6. ASSUME NEW q \in Pools, NEW b \in Addr, reg'[q][b] # None
      PROVE  /\ phase'[reg'[q][b]] = "Active"
             /\ pool'[reg'[q][b]] = q
             /\ addr'[reg'[q][b]] = b
    <2>1. ~(q = pool[c] /\ b = addr[c]) /\ reg'[q][b] = reg[q][b]
        BY <1>3, <1>6
    <2>2. /\ reg[q][b] \in Conn /\ phase[reg[q][b]] = "Active"
          /\ pool[reg[q][b]] = q /\ addr[reg[q][b]] = b
        BY <1>6, <2>1, RegEntryActive
    <2>3. reg[q][b] # c
        BY <2>1, <2>2
    <2>. QED  BY <1>1, <1>4, <2>1, <2>2, <2>3
<1>7. ASSUME NEW d \in Conn, phase'[d] = "Active"
      PROVE  reg'[pool'[d]][addr'[d]] = d
    <2>1. d # c /\ phase[d] = "Active" /\ pool[d] \in Pools /\ addr[d] \in Addr
        BY <1>4, <1>7 DEF Placed
    <2>2. reg[pool[d]][addr[d]] = d
        BY <2>1 DEF RegistryMatchesLive
    <2>3. ~(pool[d] = pool[c] /\ addr[d] = addr[c])
        BY <1>2, <2>1, <2>2
    <2>. QED  BY <1>1, <1>3, <2>1, <2>2, <2>3
<1>. QED  BY <1>5, <1>6, <1>7 DEF RegInv, RegistryMatchesLive

LEMMA InitIInv == Init => IInv
<1>. SUFFICES ASSUME Init PROVE IInv
    OBVIOUS
<1>1. TypeInv
    BY InitTypeInv
<1>2. LiveAddrUnique /\ RegistryMatchesLive
    BY DEF Init, LiveAddrUnique, RegistryMatchesLive, Live
<1>. QED  BY <1>1, <1>2 DEF IInv

LEMMA NextIInv == IInv /\ [Next]_vars => IInv'
<1>. SUFFICES ASSUME IInv, [Next]_vars PROVE IInv'
    OBVIOUS
<1>1. TypeInv'
    BY NextTypeInv DEF IInv
<1>2. RegTypes /\ Placed /\ LiveAddrUnique /\ RegistryMatchesLive
    BY TypeInvRegTypes DEF IInv
<1>3. ASSUME NEW c \in Conn, NEW p \in Pools, NEW a \in Addr, Accept(c, p, a)
      PROVE  RegInv'
    BY <1>2, <1>3, AcceptReg
<1>4. ASSUME NEW c \in Conn, Client(c) PROVE RegInv'
    <2>1. UNCHANGED <<phase, pool, addr, reg>>
        BY <1>4 DEF Client, ClientSend, ClientClose, ClientRead
    <2>. QED  BY <1>2, <2>1, RegUnchanged DEF RegInv
<1>5. ASSUME NEW c \in Conn, PollName(c) PROVE RegInv'
    BY <1>2, <1>5, PollNameReg
<1>6. ASSUME NEW c \in Conn, DrainFlush(c) PROVE RegInv'
    <2>1. phase[c] = "Active" /\ UNCHANGED <<pool, addr>>
        BY <1>6 DEF DrainFlush
    <2>2. CASE Terminate(c)
        BY <1>2, <2>1, <2>2, TerminateReg
    <2>3. CASE UNCHANGED <<phase, reg>>
        BY <1>2, <2>1, <2>3, RegUnchanged DEF RegInv
    <2>. QED  BY <1>6, <2>2, <2>3 DEF DrainFlush
<1>7. ASSUME NEW c \in Conn, Read(c) PROVE RegInv'
    <2>1. phase[c] = "Active"
        BY <1>7 DEF Read
    <2>2. CASE Terminate(c)
        BY <1>2, <2>1, <2>2, TerminateReg
    <2>3. CASE UNCHANGED <<phase, pool, addr, reg>>
        BY <1>2, <2>3, RegUnchanged DEF RegInv
    <2>. QED  BY <1>7, <2>2, <2>3 DEF Read
<1>8. ASSUME UNCHANGED vars PROVE RegInv'
    <2>1. UNCHANGED <<phase, pool, addr, reg>>
        BY <1>8 DEF vars
    <2>. QED  BY <1>2, <2>1, RegUnchanged DEF RegInv
<1>9. RegInv'
    <2>1. CASE Next
        <3>1. CASE \E c \in Conn, p \in Pools, a \in Addr : Accept(c, p, a)
            BY <1>3, <3>1
        <3>2. CASE \E c \in Conn : Client(c) \/ Server(c)
            <4>1. PICK c \in Conn : Client(c) \/ Server(c)
                BY <3>2
            <4>. QED  BY <1>4, <1>5, <1>6, <1>7, <4>1 DEF Server
        <3>. QED  BY <2>1, <3>1, <3>2 DEF Next
    <2>. QED  BY <1>8, <2>1 DEF vars
<1>. QED  BY <1>1, <1>9 DEF IInv, RegInv

-----------------------------------------------------------------------------

(* Type correctness of every reachable state: every variable of Relay     *)
(* keeps the shape TypeOK gives it, whatever the constants.                *)
THEOREM TypeCorrect == Spec => []TypeOK
<1>1. Init => TypeInv
    BY InitTypeInv
<1>2. TypeInv /\ [Next]_vars => TypeInv'
    BY NextTypeInv
<1>3. TypeInv => TypeOK
    BY DEF TypeInv
<1>. QED  BY <1>1, <1>2, <1>3, PTL DEF Spec

(* The registry of each listener holds exactly its joined, not yet        *)
(* dropped peers, each under its own address: the fan-out's               *)
(* unbounded_send(..).unwrap() always finds a live receiver, and Drop's   *)
(* peers.remove(&addr) never removes another peer's entry.                 *)
THEOREM RegistryCorrect == Spec => []RegistryMatchesLive
<1>1. Init => IInv
    BY InitIInv
<1>2. IInv /\ [Next]_vars => IInv'
    BY NextIInv
<1>3. IInv => RegistryMatchesLive
    BY DEF IInv
<1>. QED  BY <1>1, <1>2, <1>3, PTL DEF Spec

=============================================================================
