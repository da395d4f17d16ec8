# Verification of the two-pool line relay (`double_server.rs`)

This directory holds TLA+ models of
`src/building-blocks/examples/src/double_server.rs`, their TLC
configurations and TLAPS proofs.

## The system

The program runs two TCP listeners, `c_server` and `go_server`. Each has a
registry (`Shared`: a `HashMap<SocketAddr, Tx>` behind a `Mutex`). The parts
and how they interact:

- **Supervisor** (`main`, lines 632-681). It runs the two accept loops and
  hands every accepted socket to `c_process` or `go_process` with both
  registries.
- **ConnectionAgent** (`c_process`/`go_process` and the futures
  `CPeer`/`GOPeer`). One task per socket.
  - It reads the first line as the name (`into_future`).
  - `CPeer::new` then inserts `addr -> tx` into its *own* pool's registry.
  - Each poll of the peer future:
    1. Drains at most `LINES_PER_TICK` messages from its channel into the
       write buffer. When the budget is used up it notifies itself.
    2. Flushes the buffer, ignoring `NotReady`.
    3. Reads every available line and sends `name: line\r\n` to every entry
       of the *other* pool's registry whose address differs from its own.
  - End of stream or an IO error ends the task. `Drop` removes `addr` from
    the own registry.
- **PeerRegistry** (`Shared`). Insert overwrites; remove is by key; the
  fan-out iterates while holding the lock.
- **Bridge**. A `CPeer` registers in `c_state` and broadcasts into
  `go_state`; a `GOPeer` does the reverse.
- **Framer** (`Lines`).
  - `poll_flush` writes as much of `wr` as the socket accepts.
  - `poll` fills `rd` and splits off CRLF-terminated lines.

## Modules

`Relay.tla` models the supervisor, the agents, the registries and the
bridge. `CPeer` and `GOPeer` differ only in which registry is their own, so
one set of actions serves both, parameterised by `pool[c]`; `Target` is the
bridge.

**State:**

| Variable | Code |
|---|---|
| `phase` | the task's stage: `Unborn`, `AwaitingName` (in `into_future`), `Active` (the peer future), `Done` |
| `pool`, `addr` | the listener and `peer_addr()` |
| `sent`, `eof` | what the client has written / whether it has shut down |
| `nread` | lines the server has read |
| `rx` | the `UnboundedReceiver` |
| `wr` | `Lines.wr` |
| `out` | bytes on the socket |
| `writable` | the socket accepts writes |
| `notified`, `rxParked` | the executor's notify flag; whether the last `rx.poll()` returned `NotReady`, so a send will wake the task |
| `pc` | whether the poll is in its read loop |
| `reg[p][a]` | the connection whose `Tx` is `peers[a]` of pool `p` |
| `joinMark` | a history variable: what every sender had broadcast when a peer joined |

Lines are abstracted to `<<c, k>>` (line `k` of connection `c`). A broadcast
value pairs the name with the line.

**Actions:**

| Action | Code |
|---|---|
| `Accept` | the accept loops. TCP makes the remote address unique among the open sockets of one listener, which is the guard. |
| `PollName` | the name handshake: failure or EOF with no registry effect, the join with `Register`, or waiting |
| `DrainFlush` | one poll's drain loop, self-notify and `PollFlush` (`poll_flush` at message granularity: a prefix is written, the rest stays buffered, `NotReady` once the socket is full), or a failing write (`?`), which ends the task |
| `Read` | one turn of the `while let` read loop: a read error, a line broadcast with `Broadcast`/`Recipients`, EOF, or `NotReady` |
| `Terminate` | the task's end and `Drop`: deregister by key, then the receiver and write buffer are dropped |
| `ClientSend`, `ClientClose`, `ClientRead` | the environment: a client writes a line, shuts down, or reads (making the socket writable again) |

Two reductions keep the state space small, and neither hides an
interleaving a property can observe:

- A poll's drain and flush are one step. Concurrent sends only add a
  notification.
- IO errors are a nondeterministic disjunct of every read and write.

`MCRelay.tla` gives the constants model values and defines the symmetry
sets: three sockets for the safety runs, two for relay_fifo and
relay_liveness.

`RelayData.tla` holds the data abstraction shared by `Relay` and
`BroadcastSpec`: the two pools, `Target` (the bridge), lines `<<c, k>>`,
`Format` and the message set `Msg`.

### Framer (`Framer.tla`)

`Framer` models `Lines` at byte level on the path of one relayed line:
client A writes bytes, A's task reads them with `Lines::poll`, takes the
first line as the name and formats each later line as `name: line\r\n`
into receiver B's `Lines.wr`, which B's `poll_flush` writes out in chunks.
The channel between A and B is `Relay`'s concern and is left out here.

| Definition | Code |
|---|---|
| `FillReadBuf` | `fill_read_buf`: read all that is pending; Ready (end of stream) exactly when A has closed |
| `FirstCRLF`, `SplitLine` | the `windows(2)` search and `split_to(pos + 2)` / `split_off(pos)` |
| `Poll` | the whole `Lines::poll`: fill, then a line, or `Ready(None)` at end of stream, or `NotReady` |
| `PollError` | a failing `read_buf` (`?`): A's task ends |
| `HandleLine`, `Format`, `Buffer` | `into_future` for the name, then `CPeer::poll`'s formatting and `Lines::buffer` |
| `Flush` | `poll_flush`: any nonempty prefix of `wr` is written and split off |
| `ClientWrite`, `ClientClose` | the environment: A writes one byte, or shuts down |

`Scan`/`Decode` is a reference decoder that walks the stream one byte at a
time; it is not code and is not mapped. It lives in `FramerRef.tla`, with the
two properties that use it, because it is `RECURSIVE`: `Framer` itself then
reaches no recursive operator, and `FramerProofs` can reason about it.
`MCFramer.tla` extends `FramerRef` and takes the bytes `{LF, CR, 'a'}`.

### The abstract specification and the refinement

`BroadcastSpec.tla` states what the relay promises with no registries,
channels, write buffers or executor. A connection is accepted (`Connect`),
its client writes and closes (`Send`, `Close`), the service takes its name
(`Join`) or sees it leave before a name (`Abandon`). Each later line (`Say`)
is appended, in the same step, to the `inbox` of every member of
`Audience(c)`: the peers joined to the other pool under another address.
`Deliver` moves any nonempty prefix of an inbox to the socket, and `Leave`
ends a joined connection and discards its inbox. It models the service's
promise, not a part of the code, so it has no entry in the map.

`RelayRefinement.tla` defines the refinement mapping: the abstract `said`
is `nread`, and a peer's inbox is `wr[c] \o rx[c]` (`Inbox`), its write
buffer followed by its channel. `Refines == Abs!Spec`. Under this mapping:

- a registry walk in `Read` is one `Say`;
- a `DrainFlush` that writes is one `Deliver`, and one that only moves
  messages from `rx` to `wr` is a stutter;
- `Terminate` of an active peer is `Leave`.

## Runs

| Run | Config | Checks | Result |
|---|---|---|---|
| relay_safety | `MCRelay.cfg` | `RegistryMatchesLive`, `DeliveredExactly` | pass, about 640K states, under 1 min |
| relay_fifo | `MCRelayFifo.cfg` | `DeliveredExactly` | pass, 191K states, under 30 s |
| relay_liveness | `MCRelayLive.cfg` | `EventualDelivery`, `CleanupOnClose` under `Fairness` | pass, 154K states, about 1 min |
| framer_safety | `MCFramer.cfg` | `LinesExact`, `RoundTrip` | pass, 1.67M states, under 1 min |
| framer_framing | `MCFramerFraming.cfg` | `PollFrames`, `StreamExtends` | pass, 446K states, under 30 s |
| framer_liveness | `MCFramerLive.cfg` | `EndDelivered` under `FairSpec` | pass, 120K states, under 30 s |
| relay_refinement | `MCRelayRefinement.cfg` | `Refines` | pass, about 640K states, about 1 min |
| spec_delivery | `MCRelaySpec.cfg` | `SpecDeliveredToPool` | violation, 10-state trace |

**relay_safety.** Three sockets, two addresses, `MaxLines = 2` (a name and
one message) and `LinesPerTick = 2`.

- Two addresses let a socket on each listener share an address.
- Three sockets give a sender with two receivers, or a receiver joining
  while another peer is broadcasting.
- A budget of two puts two messages in one flush, so partial writes and
  `ClientRead` happen.
- Symmetry over sockets and addresses is sound: neither is ordered or
  compared except for equality.

It checks two properties:

- `RegistryMatchesLive`: every registry entry is an `Active` peer of that
  pool under its own address, and every `Active` peer is in its registry.
  It follows that the `unwrap` on `unbounded_send` never panics and `Drop`
  never removes another peer's entry.
- `DeliveredExactly`: for every joined peer `r`, what `r` has been handed
  (socket, then write buffer, then channel) is exactly the lines its
  routed senders broadcast after `r` joined. Each entry is a formatted line
  of a sender the fan-out routes to `r`, numbered after `r`'s join mark.
  The lines of one sender appear in read order. Every line a routed sender
  has broadcast since the join is there. Stated per position, this says
  the same as "the entries from `s` are `s`'s broadcasts after the join":
  TLC checked the two forms equivalent on both safety instances. The
  per-position form avoids `SelectSeq`, which the provers cannot reason
  about (see Proofs). It covers:
  - the channel's FIFO order;
  - the drain budget;
  - partial flushes;
  - the timing of a join against concurrent broadcasts;
  - no echo, and no same-pool delivery.

**relay_fifo.** Two sockets, `MaxLines = 4`, `LinesPerTick = 2`. One
sender then has up to three messages queued to one receiver. That is
where a LIFO channel or a reordering drain would show; relay_safety allows
only one message per sender. It checks `DeliveredExactly`.

Deadlock checking is off in every run: once every client has gone, the real
server idles in `accept` too.

**relay_liveness.** Two sockets, `MaxLines = 3`, `LinesPerTick = 1`. A
receiver can then have more messages queued than one poll drains. It
checks two properties:

- `EventualDelivery`: whatever is handed to a connected peer eventually
  reaches its socket, unless the peer is dropped.
- `CleanupOnClose`: a client that shuts down has its task ended (and by
  `RegistryMatchesLive` its entry removed). This needs the wakeup on
  shutdown, a poll that reaches the read loop, every queued line read, and
  the `Ready(None)` branch of line 272 returning `Ready(())`.

The fairness assumed:

- weak fairness of each task's server steps: tokio polls every notified
  task;
- weak fairness of `ClientRead`: a connected client keeps reading its
  socket. Without it, a full socket legitimately holds messages forever.

There is no fairness for `ClientSend`/`ClientClose`: clients may stay
silent. Symmetry is not used, because it is unsound for liveness.

**framer_safety.** Every stream of up to 9 bytes over `{LF, CR, 'a'}`,
read in every chunking and flushed in every chunking. Nine bytes hold a
name and a message, a CR LF pair split across two reads, a bare CR or LF,
and an unterminated tail. It checks:

- `LinesExact`: the lines `poll` has returned, followed by the lines still
  in `rd`, are the lines the reference decoder finds in the bytes read, and
  `rd` ends with the same unterminated tail. When `poll` reports the end of
  the stream, every byte has been read and every complete line returned:
  only an unterminated last line is dropped (line 516).
- `RoundTrip`: what B's client decodes from `out \o wr` is exactly one
  `name: line` per line A sent after its name, in order, with nothing
  unterminated, however `poll_flush` cut the writes.

**framer_framing.** Every stream of up to 8 bytes over the same alphabet.
It checks the parts of the framing that need no reference decoder, which
are the ones `FramerProofs` proves for every alphabet and bound:

- `PollFrames`: no line `poll` returns holds a CR LF pair; `rd` is always
  the last bytes read, in order (`fill_read_buf` and `split_to` lose and
  repeat nothing); and `Ready(None)` comes only after A closed, everything
  was read and no complete line is left in `rd`.
- `StreamExtends` (an action property): every step leaves what B's socket
  has carried as a prefix of what it carries next, and `out \o wr` either
  stays the same (`poll_flush` moves bytes from `wr` to the socket and
  `split_to` discards exactly them) or grows by one formatted line of A.

**framer_liveness.** Seven bytes, under weak fairness of A's `Poll` (tokio
polls a task whose socket is readable or at end of stream) and of B's
`Flush` (B's client keeps reading). `EndDelivered`: once A closes, A's task
reports the end and B's buffer drains, unless a read failed.

**relay_refinement.** The instance of relay_safety, with symmetry (the
property is a safety property). `Refines` checks every step of `Relay`
against `BroadcastSpec` under the mapping above. It says in one formula
that the fan-out reaches exactly the abstract audience at the moment of the
read, and that a socket receives only the front of its peer's queue, in
order and without duplication.

**spec_delivery** is a finding. The fan-out skips every entry of the
opposite registry whose address equals the sender's (`*addr != self.addr`,
lines 264 and 397). These addresses belong to the other listener, so the
entry skipped is a different connection: one client that connects to both
listeners from the same local address and port. §8 of the spec says every
peer registered in the target pool receives every line; §4.3 calls the
comparison self-exclusion. TLC shows (with the clients sending their names and the joins in between):

1. `c1` joins `C` from `a1`;
2. `c2` joins `GO` from `a1`;
3. `c1` broadcasts, and nothing is queued for `c2`.

**Mutants.** Each property is shown to catch a plausible bug:

- `Deregister` → `DeregisterSkipped` (Drop forgets the remove) breaks
  `RegistryMatchesLive`;
- `Recipients` → `RecipientsOwnPool` (fan-out into the own registry) breaks
  `DeliveredExactly` (relay_safety);
- `Broadcast` → `BroadcastFront` (the line pushed at the head of the
  channel) breaks `DeliveredExactly` (relay_fifo);
- `SelfNotify` → `SelfNotifyNever` (no self-notify at the budget) breaks
  `EventualDelivery`;
- `Read` → `ReadEofIgnored` (end of stream taken as `NotReady`) breaks
  `CleanupOnClose`;
- `SplitLine` → `SplitLineShort` (`split_to(pos + 1)`) breaks `LinesExact`;
- `Format` → `FormatUnterminated` (no `\r\n`) breaks `RoundTrip`;
- `FillReadBuf` → `FillReadBufNoEof` (a 0-byte read taken for `NotReady`)
  breaks `EndDelivered`;
- `Poll` → `PollEofFirst` (`Ready(None)` as soon as the socket closed,
  before `rd` is searched) breaks `PollFrames`;
- `Flush` → `FlushNoSplit` (written bytes not split off `wr`) breaks
  `StreamExtends`;
- `PollFlush` → `PollFlushNoSplit` (written bytes not split off) breaks
  `Refines`.

## Proofs (TLAPS)

The theorems about `Relay` are proved for all finite nonempty sets of
sockets and addresses and all positive `MaxLines` and `LinesPerTick`
(`ConstAssumption`); those about `Framer` for every alphabet of naturals
that contains CR and LF and every bound `MaxIn` (`FramerAssumption`).

`RelayProofs.tla`:

- **`TypeCorrect`**: `Spec => []TypeOK`. `TypeOK` is strengthened by
  `Placed` (an accepted socket has a pool and an address), which the
  `EXCEPT` updates of `Register`/`Deregister` need. There is one lemma per
  action, split by its disjuncts. Lemmas on `SubSeq`, `\o` and `Append` come
  from `SequenceTheorems`.
- **`RegistryCorrect`**: `Spec => []RegistryMatchesLive`, by the inductive
  invariant `IInv == TypeInv /\ LiveAddrUnique /\ RegistryMatchesLive`.
  - `RegistryMatchesLive` alone is not inductive: `insert` overwrites.
  - A join is safe only because no other live socket of the same listener
    has that address (`LiveAddrUnique`, kept by `Accept`'s guard). So the
    slot it writes is empty.
  - A `Drop` removes exactly its own entry, because that slot holds the
    dropping peer.
  - TLC checked `IInv` as an invariant of the safety model before the
    proof.
  - That an insert never overwrites a live peer's `Tx` and a `Drop` never
    removes another peer's entry is not stated as a property of its own:
    every step is taken by one connection, so it follows from
    `RegistryMatchesLive` holding before and after the step. It rests on
    `Accept`'s guard (the remote address is unique among one listener's
    live sockets), so no run can see it fail.

`QueueLemmas.tla` proves, apart from any variable, the facts about a write
buffer followed by a channel that the refinement needs: regrouping,
splitting a sequence at `k`, appending behind a concatenation, writing a
prefix of `buf` out of `buf \o r`, and draining `n` messages from the
channel into the buffer.

`RelayRefinementProofs.tla`:

- **`RelayImplementsBroadcast`**: `Spec => Refines`. The initial states map
  to `Abs!Init`, and one lemma per action maps each step to an abstract step
  or a stutter. The argument:
  - `DrainFlush` leaves `wr \o rx` unchanged when it only drains (`DrainSplit`);
    when it writes `k` messages they are the first `k` of the inbox and the
    rest stays in order (`WritePrefix`): `Deliver`.
  - `Read` appends the formatted line to `rx[t]` exactly for `t` in
    `Recipients(c)`, which is `wr[t] \o Append(rx[t], m) =
    Append(Inbox[t], m)` (`ConcatAppend`). `Recipients(c)` equals
    `Abs!Audience(c)` only in states where the registry holds exactly the
    joined peers: this is why the proof rests on `RegistryCorrect`'s
    inductive invariant `IInv` (`RecipientsAudience`).

`DeliveryProofs.tla`:

- **`DeliveryCorrect`**: `Spec => []DeliveredExactly`. The statement is
  taken one peer at a time: `Good(R, jm, nb, rt)` is `DeliveredExactly`
  for a sequence `R` handed to one receiver, given its join marks,
  the senders' broadcast counts and its routing. Lemmas about `Good` alone
  say when it holds:
  - for an empty `R`;
  - for an unrouted sender;
  - for a new sender;
  - after `Append` of the next line of a routed sender (`GoodAppend`).
- What `r` was handed is `out[r] \o Inbox[r]`, so every concrete step goes
  through the abstract step its refinement lemma gives (`Connect`, `Send`,
  `Close`, `Abandon`, `Join`, `Say`, `Deliver`, `Leave` or a stutter). Only
  `joinMark` is read off the concrete step. There is one lemma per
  abstract step.
- The inductive invariant is `DInv == IInv /\ Fresh /\ Named /\ MarkBound
  /\ GoodAll`. Each conjunct is needed:
  - `IInv`: the refinement lemmas need it.
  - `Fresh`: a peer not yet joined has read nothing and been handed
    nothing. This makes the joining peer's empty pipeline good.
  - `Named`: a joined peer has read its name, so `Say` adds line
    `NBcast + 2`, not line 1.
  - `MarkBound`: no join mark exceeds what the sender has broadcast. So a
    peer that joins after `s` has broadcast is missing nothing from `s`.
- TLC checked `DInv` (with `Fresh` on `out`, `wr` and `rx`) as an invariant
  of relay_safety and relay_fifo before the proof.

`FramerProofs.tla`:

- Lemmas on the codec's operators, with no state:
  - `LeastExists`: a nonempty set of naturals has a least element. It is
    proved from `WFMin` and the well-foundedness of `<` on `Nat`
    (`WellFoundedInduction`), because the library's `SmallestNatural`
    takes an operator parameter the provers cannot instantiate.
  - `FirstCRLFSpec`: the window search returns 0 when there is no CR LF
    pair, and otherwise the position of the first pair, with no pair before it.
  - `SuffixOfSuffix`, `SliceAppend`, `PrefixOfConcat` and `PrefixNoCRLF`
    are facts about slices.
- `PollOutcome`/`PollSteps` restate one `Poll` step as a split on
  `FirstCRLF` of the filled buffer. Each proof below uses it.
- **`FramerTypeCorrect`**: `Spec => []TypeOK`.
- **`PollFramesCorrect`**: `Spec => []PollFrames`, with the inductive
  invariant `TypeOK /\ PollFrames`. Two things make it go through:
  - the existential witness `k` of `rd = SubSeq(sent, k + 1, got)` marks
    where the last split ended in A's stream;
  - a `Poll` that splits at `pos` moves it to `k + pos + 1`
    (`ConcatAdjacentSubSeq`, then `SuffixOfSuffix`).
  The line split off holds no pair because `FirstCRLF` is least. A `Poll`
  that finds none reports the end exactly when A has closed, and then `rd`
  holds no pair. TLC checked `TypeOK /\ PollFrames` on framer_framing
  before the proof.
- **`StreamExtendsCorrect`**: `Spec => StreamExtends`, from
  `FramerTypeCorrect` and one lemma per action:
  - `Flush` is `DrainSplit` and `PrefixOfConcat`;
  - `Poll` with a returned line after the name is `Regroup`;
  - every other step leaves `out` and `wr` alone.

Only TLC checks the following:

- `EventualDelivery`, `CleanupOnClose` and `EndDelivered`. Liveness is out
  of TLAPS's reach.
- `LinesExact` and `RoundTrip`. They compare with a `RECURSIVE` reference
  decoder (`Scan`). A module that reaches a `RECURSIVE` operator cannot
  hold a theorem, and what the decoder computes for every input would need
  induction over data, which the provers cannot do. `PollFrames` and
  `StreamExtends` are the parts of them that can be stated without the
  decoder, and they are proved. What the proofs do not cover is that the
  returned lines, joined with their CR LF pairs, rebuild the bytes read,
  and that B's client decodes exactly the formatted lines.
- The `SelectSeq` form of `DeliveredExactly` (per sender, as a
  subsequence). Its equivalence with the per-position form that is proved
  is checked by TLC only, for the same reason.

## Not modelled

- Argument parsing, binding, the runtime and logging (`println!`). These
  are I/O glue with no state the core reads; no property is about output.
- The unbounded read loop (line 243), which needs an unbounded sender to
  starve anyone.
- Memory growth of the unbounded buffers (line 443); the bounded model
  caps the lines each client writes.
- `Relay` works at line granularity and `Framer` at byte granularity for
  one sender and one receiver; they are not composed into one model. Their
  interface is the formatted message, which both use.
