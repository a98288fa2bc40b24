# Verification of the ACCL collective offload kernel

ACCL is an FPGA kernel that runs MPI-like collectives between boards. A
MicroBlaze runs the firmware `ccl_offload_control.c`; around it are HLS kernels
that cut messages into packets and put them together again, AXI DataMovers
("DMAs"), stream switches, and arithmetic. A host driver fills an exchange
memory with configuration and sends calls.

This directory holds TLA+ models of the parts where events of several actors
meet, configurations that check them with TLC, and proofs checked by TLAPS.
Paths below are relative to `src/`; `fw.c` is
`kernel/fw/sw_apps/ccl_offload_control/src/ccl_offload_control.c`.

## The system

| Part | State | Operations | Talks to | Module |
|---|---|---|---|---|
| Spare buffers and interrupt handler (`fw.c` 183-209, 608-685, 1057-1109) | list of `rx_buffer` in the exchange memory, `dma_tag_lookup`, `num_rx_enqueued`, interrupt mask, timer | interrupt: take completed buffers back, enqueue idle ones, re-arm; scan for a segment; release a buffer | receive DMA by command and status FIFOs, depacketizer by a header FIFO, main loop by shared memory | `RxBuffers` |
| Receive (`fw.c` 1112-1196) | remaining bytes, `dma_tag`, indexes of held buffers (on the stack) | wait for a segment, start a copy, acknowledge it, free its buffer | spare buffers, DMA1 | `ReceiveOffchip` |
| Send (`fw.c` 437-490, 860-928) and packetizers (`tcp_packetizer.cpp`, `vnx_packetizer.cpp`) | remaining bytes, `dma_tag`, `outbound_seq`; header and progress of a segment | queue headers, start reads, stream words, acknowledge read and packet | firmware FIFOs, DMA1, `tcp_txHandler` | `SendPipeline` |
| Data movements (`fw.c` 132-166, 278-406, 779-1016, 1201-1486, `reduce_arith.cpp`) | switches, words of the arithmetic unit, segments in flight | copy, reduce, send, receive, receive and reduce, relay | DMAs, switches, arithmetic, packetizer, spare buffers | `RankEngine` |
| Collectives (`fw.c` 1490-1835) | ring positions, chunk sizes | broadcast, scatter, gather, allgather, reduce, reduce-scatter, allreduce | data movements of all ranks | `Collectives` |
| Host calls (`fw.c` 1890-2053, `hostctrl.cpp`) | the call, `excp_handler` | take a call, finish it, end it by `longjmp` | driver, everything | `HostCalls` |
| Connections (`fw.c` 495-582, `tcp_openCon*.cpp`, `tcp_openPort.cpp`) | sessions of the ranks | open ports and connections, match the answers | TCP stack, exchange memory | `HostCalls` |
| `tcp_txHandler` | bytes sent of a segment, words of the packet | ask the stack for room, retry, stream words | packetizer, TCP stack | `TcpTxHandler` |
| `tcp_rxHandler` | count of packets in flight, states of three processes | request notified packets, forward them, count | TCP stack, depacketizer | `TcpRxHandler` |
| `pktMultiplexor` | table of 8 sessions with message sizes | find or allocate a stream for a packet | TCP receive side | `PktMultiplexor` |
| Depacketizers | bytes left of the segment | queue header words, forward payload | network, header FIFO, receive DMA | one action of `RxBuffers` |
| Drivers (`cclo.py`, `driver/xrt`) | layout of the exchange memory | configure, call | kernel | - |

What is hard here:

* the interrupt handler and the main loop share buffers, table and interrupt
  masks; `longjmp` leaves either of them in the middle;
* DMAs, packetizer, depacketizer, TCP stack and hostctrl answer on separate
  FIFOs, and only position, a 4-bit tag, a number or an address says which
  answers belong together;
* a call that times out leaves work queued at the devices;
* ranks run apart: one may be calls ahead of another, and what it sends arrives
  in buffers the other needs;
* the switches and the count of the arithmetic unit are set ahead of the streams
  they are for, with nothing but the acknowledgements before them to make sure
  that the streams are idle;
* UDP loses, repeats and reorders; TCP pushes back and refuses;
* everything waits on bounded resources: buffers, tags, FIFOs, segments in
  flight, table entries.

What makes each part correct: every segment a source sent is delivered once, in
order, into the right buffer, and stays there until it was copied (spare
buffers); a call that returns success has moved its message (receive, send); the
numbers and headers a rank emits are those its peers expect (send); data flows
only along routes that were set for it (data movements); each rank ends with the
collective's result, nothing is left for the next call, and all calls return
(collectives); one answer per call, its own, and sessions that match the
stack's (host calls, connections); packets are cut as the stack agreed (transmit
handler), neither forgotten nor requested without limit (receive handler), and
messages of different sessions are not mixed (multiplexor). `PROJECT.json` lists
the hazards at their lines, with the properties that cover each.

## The models

```
NumberedSource  <=refines=  SendPipeline
RxBuffers       <=refines=  ReceiveOffchip (EXTENDS RxBuffers)
RankEngine      <-- Collectives (the programs its ranks run)
HostCalls    TcpTxHandler    TcpRxHandler    PktMultiplexor
ReceiveProofs (RxBuffers, ReceiveOffchip)  SendPipelineProofs
TcpTxHandlerProofs  TcpRxHandlerProofs  PktMultiplexorProofs
RankEngineProofs  HostCallsProofs                              theorems
ProofFacts                            lemmas about queues, rounding and induction
MC...                                                instances for TLC
```

Operators with "Mutant of" in their comment are deliberately wrong versions
of the definition they name. No specification uses them; each stands for a
plausible mistake in the code, and replacing the definition by it must break a
property. They show that the properties have teeth.

### RxBuffers

Variables are the source's: `status`, `dmaTag`, `rx` (the header fields) of each
buffer, `lookup` (`dma_tag_lookup`), `numEnq` (`num_rx_enqueued`), `inSeq`
(`inbound_seq`). A message is its header and stands for its payload.

* `stream_isr` is a sequence of actions, since DMA, timer and network move on
  while it runs: `IsrEnter` (read the pending register), `IsrDequeue` once per
  status, `IsrEnqueue`/`IsrEnqueueSkip` once per buffer, `IsrArm` (mask, timer,
  acknowledge). The main loop does not run meanwhile (`MainRuns`).
* The interrupt controller latches active lines (`Latch`); an acknowledged line
  that is still active is pending again, as `C_KIND_OF_INTR` in
  `control_bd.tcl` configures it: all lines that are used are level sensitive.
* One round of the scan in `t_wait_receive_world_i` is one action, because the
  code runs it with interrupts disabled; between rounds the handler may run.
* An error in the handler is `RaiseFromIsr`: `longjmp` to `main`, the receive
  in progress forgets its buffers, interrupts stay off. As in the code the
  header is consumed and the tag freed before the status is looked at.
* `Arrive`, `DmaFetch`, `DmaWrite`, `TimerFire` are the devices. Over TCP
  (`Reliable`) messages of a source arrive once, in order, and sources
  interleave freely; over UDP any message may arrive, never, or repeatedly.
  A depacketizer queues a header completely before its payload.
* `dequeue_rx_buffers`' own timeout cannot fire, since its counter is reset
  with every status and at most one poll follows; it is left out. The index
  check after it is subsumed by the types.

### ReceiveOffchip

`receive_offchip_world` in place of the abstract main loop of `RxBuffers`: each
of its actions is an action of `RxBuffers` conjoined with what happens to the
copy, or a step of its own that leaves the buffers alone. The code's three loops
are one rule: wait for the next segment while one is missing and fewer than
`max_dma_in_flight` are held, else acknowledge the oldest (`MustAck`).
`spare_buffer_indexes` is `held`. DMA1 copies in order and reports with the tags
of its two commands; `ack_dma` waits for both statuses, checks the read's, then
the write's. When a call ends by `longjmp`, the commands, statuses and `dma_tag`
stay as they are. `BuffersSpec` is `RxBuffers`' specification as a property.

`quiet` is a history variable: DMA1's queues were empty when the call began.
`QuietDataReturned` and `CopiedBeforeFree` are about such calls, because what a
failed call left at DMA1 does break the next one: that is the run
`rcv_after_timeout`, which checks the same property without `quiet`. `upset`
tells `ReceiveReturns` that an error was reported, after which the host has to
reset or to reconfigure.

### SendPipeline and NumberedSource

`dma_movement_and_packetizer` reading with DMA1, word by word through a bounded
stream into the packetizer, with failed reads and timeouts. The lengths of
headers and of DMA commands are computed separately, as in the code.
`NumberedSource` is what the receiver relies on: each destination sees the
numbers 1, 2, 3, ... `NumberedInOrder` says that the pipeline implements it up to
the last segment of the first call that fails (`failedAt`); `AckMeansSent` and
`NothingLeft` hold until then, too. A later send takes a late packetizer status
for that of its own segment, since `outbound_seq` was not moved on.
`SegmentsIntact` and `SendReturns` hold after failures as well.

### RankEngine and Collectives

`RankEngine` runs, on each rank, calls made of data movements. What a call
consists of is the constant `Program`; `Collectives` defines it, function by
function of `fw.c`, and says what each call should leave in its destination.

* Every movement first configures the switches and, if it uses the internal unit,
  tells it how many words will come (`Begin`); then `Take` issues a segment,
  claiming a spare buffer when one is read, `Move` is the segment flowing through
  the switches, `Ack` acknowledges the oldest one and frees its buffer, and
  `FinishOp` is `wait_arith` and the end of the movement. This is the loop that
  `dma_movement`, `dma_movement_and_packetizer`, `receive_offchip_world`,
  `receive_and_accumulate`, `receive_and_reduce_offchip` and
  `relay_to_other_rank` each spell out.
* What a transfer does depends on the switches as they are when it runs, not on
  the movement it belongs to: a switch that is set too early misplaces data.
* The internal unit is used by movements that set a reduction's switches
  (`SumScenario`), as in `receive_and_accumulate` and
  `receive_and_reduce_offchip`: `Movements` has no others, and TLC evaluates for
  each program of the runs that it keeps to them.
* `Datapaths` lists the routes `cfg_switch` writes for each scenario, and every
  other output is disabled, as in the code. `KEEP` is a step that does not call
  it, such as the single segments of broadcast and scatter.
* A value is the set of cells that it is the sum of, so that "every rank's operand
  once" can be told from any other result. A broken sum is the empty set.
* The spare buffers are the pool that `RxBuffers` promises (claims in order, held
  until released) and the network is reliable with bounded room; the details of
  both are in the other modules. Transfers do not fail here and no timeout is set.
* A segment is stored when a buffer is free, whoever sent it: ranks that are a call
  ahead use buffers of those behind.

### HostCalls

hostctrl, main and the kernels for connections and ports, word by word, because
nothing in the streams names a call. `HandlerRaises` is the `longjmp` from the
interrupt handler at any point where interrupts are enabled. The history variable
`stray` says that this happened while no call was carried out: main then puts a
status nobody asked for, and from there on host and main are out of step for
good (the rest of a half-read call is read as the beginning of the next one). The
properties of answers hold up to that; `cutOff` says the same of an `openCon` that
was left with answers still to come. A soft reset may come between any two calls.

### TcpTxHandler, TcpRxHandler, PktMultiplexor

The state machines of the three kernels, state by state; the FIFOs at their edges
are bounded, their peers external. In `TcpTxHandler` the stack answers requests
in order and late, may refuse (`error` above 1) a bounded number of times, and may
report one connection as torn down, after which the handler waits for ever
(`gone`; nothing is promised afterwards). In `TcpRxHandler` the writes of
`incrCntReq` and `decrCntReq` are separate steps (`COUNT`, `DONE`), since the write
may have to wait; `asked` and `done` are history variables. In `PktMultiplexor` the
table of sessions is filled in when the first word of a message gives its size,
after the lookup has answered. `LastMarked` is about messages of several packets,
since a message of one packet is answered as a miss and never marked; the comment
at `pktMultiplexor.cpp:88` says otherwise, which is what `mux_single` is about.

## What the runs check

| Run | Shows | Bounds |
|---|---|---|
| `rx_tcp` | tags, headers and buffers stay accounted for in every interleaving; no segment is lost; a waiting payload is stored when a buffer is free | 2 buffers, 2 tags, two sources with 3 and 1 messages |
| `rx_udp` | what is claimed is right, in order, and never overwritten, although messages are lost, repeated and reordered, transfers fail and waits expire | 3 buffers, 2 tags, 3 messages of one source, 3 arrivals |
| `rcv` | receives keep to `RxBuffers`, return, and a receive that finds DMA1 idle returns success only with its message, through failed copies and timeouts | two receives of 3 segments, one short, through 2 buffers, 2 in flight |
| `send` | headers, words, tags and numbers stay in step; acknowledged means sent; sends end | three sends to two ranks of one word or of three segments, 2 in flight, a stream of one word |
| `coll` | every collective and local operation gives the right values and touches nothing else; switches are set when idle, the arithmetic unit for as many words as come; nothing is left; all calls return | 3 ranks, 10 scripts of one or two calls, segments of 3 operands, words of 2, 2 in flight, 4 spare buffers, one segment between two ranks |
| `host` | each call gets its own answer, connections settle and match the stack's, calls are answered | 3 ranks, two behind one ip, 2 calls of 7 kinds, words of a call cut from 15 to 3, one error of the handler |
| `tx` | packets are cut as agreed and end with their messages; messages are sent | 4 messages of two sessions, packets of 2 words of 2 bytes, 3 refusals, one lost connection |
| `rxh_limit` | at most 4 packets in flight, no drift of the count; all that is notified is forwarded | the code's limit, 6 notifications of 0, 1 or 2 words |
| `mux` | no destination is lost or shared, messages are not mixed, ends are marked, all is forwarded | 2 sessions, 2 destinations, 3 messages each of 1 to 3 packets |
| `rcv_after_timeout` | **violated**: after a timeout the next receive succeeds without its data | two receives |
| `allreduce_covers` | **violated**: an allreduce of one operand returns success and changes nothing | 5 ranks |
| `mux_single` | **violated**: the last word of a message of one packet is not marked | as `mux` |

Why the bounds are enough: each resource is smaller than the demand for it, so
that it runs out and is reused: more buffers than tags in `rx_udp`, more messages
than buffers in `rx_tcp` and `rcv`, more segments than may be in flight, a tag
space (4) as small as the number of copies of one call, so that tags wrap, fewer
words in the streams of `host` than a call has, more packets than the limit in
`rxh_limit`. In `coll` three ranks are the fewest for which next and previous rank
differ, the lengths give full and partial segments and words, and the second call
of a script has another root or direction, so that its segments meet ranks still in
the first. The safety properties named under "What is proved" do not depend on the
bounds.

Deadlock is not checked: with a finite number of messages and calls the models
stop when everything is done. That the system does not get stuck before is what
the liveness properties say.

### Fairness

* Devices and the handler: weak fairness. DMA, timer, packetizer, switches and the
  HLS processes are free running; an interrupt that stays pending is served.
* `ReceiveOffchip`, firmware: strong fairness. The handler disables each step
  of the main loop again and again, but with the empty-queue interrupt masked it
  comes at most once per timer period (100000 cycles, `fw.c:202`), so the main
  loop gets on in between.
* Networks: the segments of the calls arrive (`ReceiveOffchip`), the announced
  packets come (`PktMultiplexor`). Nobody owes a message, a call or a
  timeout in `RxBuffers`.
* `RankEngine`: weak fairness of the whole next-state relation: as long as a
  processor, a DMA or the network can move on, something does. It follows from the
  fairness of each, and suffices since calls are finite. All hosts make the calls of
  the script; that is the usage the collectives are for.
* The TCP stack answers (requests to read, to send, to open); refusals are bounded.
  In `HostCalls` the host owes no call and the handler no error.

### What the violations mean

* **After a timeout** (`rcv_after_timeout`). Neither `wait_receive_world_i` nor the
  acknowledgements clean up before `longjmp`: statuses that arrive later are read by
  the next call, and because `dma_tag` was not moved on, they carry exactly the tags
  it expects. A soft reset between the calls clears this.
* **Fewer operands than ranks** (`allreduce_covers`). `all_reduce_share` divides the
  bytes by the ranks rounding down, then rounds up to operands: one operand of 4
  bytes on 5 ranks makes chunks of no byte, 6 floats on 5 ranks chunks of one
  operand, of which the sixth is in none.

* **Messages of one packet** (`mux_single`). `session_dest_lookup` answers a first
  packet before it knows the message's size, and always with `isLastPkt` unset
  (`pktMultiplexor.cpp:232`); that the packet was the whole message it finds out in
  `UPDATE`, where it frees the destination but answers nothing more. The words reach
  the destination without TLAST, and the next message of another session may follow
  there. The test bench compares TLAST with the message's end
  (`tb_pktMultiplexor.cpp:247`), but all its messages have two packets. Nothing
  shipped depends on it: no block design instantiates the kernel, and
  `tcp_depacketizer` finds the end of a message by counting bytes.

Two observations are not run, since no text of the repository says otherwise:

* a receive with `nbufs` below `max_dma_in_flight` and below its number of segments
  waits for a segment for which there is no buffer, since it frees its first one
  only after its first loop has `max_dma_in_flight` under way (`fw.c:1137`; it
  follows from `MustAck`). The firmware's default is 20 in flight; `test_tcp.py`
  runs with 16 buffers and 18 in flight;
* the root of a broadcast or scatter sends with no regard for the receivers' spare
  buffers and is then free for its next call (`fw.c:1537`). With one buffer less than
  `coll` has, two broadcasts of two segments with different roots, not joined in
  between, can block each other: the second root's segments fill the buffers of a
  rank that still waits for the first one's. Such calls need buffers for the segments
  of both. The tests join all ranks between roots and keep to lengths for which
  there are enough buffers (`test.py:169-170`).

## What is proved

| Theorems | Of |
|---|---|
| `TypeCorrect`, `TagsAccounted`, `TagsAreInFlight`, `ChecksHold`, `HeaderIsThere`, `HeaderDescribesPayload`, `ClaimedOnce`, `UnclaimedAreKept`, `ClaimedInOrder`, `SparesKept` | `RxBuffers` |
| `ReceiveImplementsBuffers`, `ReceiveKeepsSegments`, `BuffersOutliveCopies`, `MessageReturned` | `ReceiveOffchip` |
| `TypeCorrect`, `CutsAgree`, `NothingBehind`, `AcknowledgedSent`, `ImplementsSource` | `SendPipeline` |
| `HandlerKeepsItsPlace`, `PacketsEndRight`, `WordsAsAgreed` | `TcpTxHandler` |
| `TypeCorrect`, `RateLimited`, `CountAccurate` | `TcpRxHandler` |
| `EngineInvariant`, `SwitchesQuiet`, `WordsAgree`, `NothingLeftBehind` | `RankEngine` |
| `DestinationsAccounted`, `WholeMessagesPerDest`, `LastWordMarked` | `PktMultiplexor` |
| `AnswersOwned`, `RequestsSettled`, `SessionsMatched` | `HostCalls` |

They hold for any number of buffers, tags, sources, ranks, sessions, calls and
messages, for any lengths of messages, segments and words, reliable or not, with or
without faults and timeouts where the module has them. Only `SparesKept` needs
more: it is about TCP, without failed transfers and timeouts (`Faultless`), since
each of the others can lose spare buffers indeed.

Assumptions are the ones named in the modules: sizes are natural numbers, the limit
on `num_rx_enqueued` is at most the number of tags (16 and 16 in the code), a
message is identified by source and number, the markers `NoBuf`, `NoMsg`, `NoPkt`
and `Nobody` are not buffers, messages, segments or ranks, ranks differ in ip or
port, a program gives every rank a finite sequence of movements
(`ProgramAssumption`), and its ranks fit together (`BalanceAssumption`): over all
calls of a script, as many segments are sent from one rank to another as the other
takes from it, and a rank waits for as many statuses as its sends post. The last two
speak of `Program`; TLC evaluates them for all collectives of the runs. Only
`NothingLeftBehind` rests on `BalanceAssumption`. In `PktMultiplexor` a message has at
least one packet and each packet at least one word (`MuxAssumption`), as on the stream,
where a packet ends with a word.

*RxBuffers.* None of the properties is inductive. The invariant `IInv` of
`ReceiveProofs` adds what ties the FIFOs together. The i-th header in `hdrQ`
belongs to the i-th status of `stsQ`: it is what that transfer left in its
buffer, if it succeeded, and the last header is that of the waiting payload.
Tags in use are those in the three queues, each once, which is why a completed
tag still leads to the buffer its command named; and the cardinality of the set
of used tags is `numEnq`, which is why a free one exists below the limit. A held
buffer has a number that is not above `inSeq`, and two reserved buffers that
were claimed have different numbers. There is one lemma per action or group of
actions.

That no buffer is lost over TCP rests on order. A segment that waits to be claimed
has a number above `inSeq`, and for it to stay claimable nothing later may have been
claimed before it; so `OrderInv` says that the waiting headers of a source are in
sending order, that what is stored was sent before what waits, and that it is
stored once. Each handover between FIFO, handler and list of buffers keeps this.

*ReceiveOffchip.* The initial state and each step map to `RxBuffers` under the
identity, whatever the receive's own variables hold. With the theorems of
`RxBuffers` its safety properties follow for receives.

The promises of a receive itself rest on `CopyInv`, which counts the segments of a
call from 0: the source's number has moved on by those that were claimed, `held` has
the last of these in order (`HeldRight`), and the others were acknowledged. The
statuses of DMA1 followed by its commands are those of `held`, in its order
(`Copying`), so the status that `ack_dma` reads belongs to the buffer it frees next:
a buffer cannot be freed before its copy, and what is acknowledged with success is in
its place (`Copied`). The last two hold in a call that found DMA1 idle (`quiet`), and
`rcv_after_timeout` shows that they need it.

*SendPipeline.* Headers and commands are computed apart, and a failed call leaves
both queues as they are, possibly of different lengths. `FlowInv` says that there is
a list of all segments that DMA1 was ever asked for, with a position of the
packetizer and one of DMA1: the headers are those from the first position on and
some segments ahead of it (`Early`), the commands those from the second on, and the
stream has the words between them (`WordsCut`). A header that was queued ahead is
that of the segment the next command will ask for, because both take the same
lengths from what remains. This holds through failures, and gives `SegmentsIntact`.

Until the first call that fails, `InStep` adds that the firmware is in step with both
devices: what it counts in flight are the headers and statuses on one side and
the commands and statuses on the other (`Counts`), numbers and tags run on from the
ones it has seen (`SeqsRun`, `TagsRun`), and what has a status was sent
(`StatusesSent`). From it follow `NothingLeft`, where an ended call has nothing in
flight, and `AckMeansSent`; `FailedSent` keeps the latter for the call that fails.

For `ImplementsSource` the abstract variable is, for each destination, the numbers of
the segments sent of the calls up to the first that failed. These segments come before
all others (`SentCounted`), so that how many they are is determined; and since the
headers that wait of those calls also come first and continue the numbers
(`PendNumbered`), sending a segment is a step of `NumberedSource` or leaves the
numbers alone.

*TcpTxHandler.* `TxInv` says that there is a packet `k` of the message in hand at
which the handler is (`AtPacket`). The request for a packet is in one place only: with
the stack, in an answer, or agreed to; while `WRITE_PKG` writes packet `k`, packet
`k + 1` may already have been asked for, agreed to or refused, and what the stack
expects is then the rest of the one followed by the other. A refusal changes nothing
but the place, which is why asking again skips nothing. The words that are yet to be
read continue the packetizer's order from the one after `k` full packets and what was
written of this one (`InOrder`). By `PacketFacts`, a packet that is not the last
has as many words as fit, and the last one has those that are left of the message,
although bytes and words are counted apart and each packet is rounded up on its own. So
the word that ends a packet is one at which a full packet ends or the message does
(`LastWord`), which is `PacketsCut`; and a word is written only while the stack
expects one, marked where the last one is, which is `WrittenAsAgreed`.

*TcpRxHandler.* `WithinLimit` follows from three facts about the order of
events: an answer is given only when no request waits to be counted in
(`AnswerHolds`), one question is asked at a time (`OneQuestion`), and the count
with the pending reports equals the packets in flight (`CountKept`).

*RankEngine.* `SwitchQuiet` is about a step; it needs that a movement only ends
with everything acknowledged and no words left. `EngineInv` says so for each rank:
between calls all counts are zero, within a movement
`acked <= moved <= taken <= Segs`, and only a movement of the internal unit has
words. That the unit's count never falls below zero rests on `SegLenNat`: a segment
that is issued has a length.

That the count is never more or less than what streams (`WordsAgree`) needs two more
facts, in `Sums`. During a movement of the internal unit its result is routed to where
the movement puts it, so that every segment does pass the unit; and the count is
that of the segments still to come, each rounded up to words (`WordsFrom`). `StartArith`
computes it from the whole length instead, full segments and the rest apart, and the
lemma `WordsCounted` shows that this is the same number.

That nothing is left when all calls have returned (`NothingLeftBehind`) is about what
the ranks have done to each other. A piece is a segment of a movement of a call, a
triple of numbers; what a rank has sent so far is the set of the pieces of its calls
that it has reached (`Reach`), and so is what it has taken. `Conserved` equates their
cardinalities with the queues: what `s` sent to `d` is what `d` took from `s`, what the
network has and what is in spare buffers of `d` (`Flow`); the statuses posted are those
acknowledged, at once or later, and those that wait (`Statuses`); the held buffers are
those of the segments under way (`Holding`). Each action moves a count by one on both
sides. When all calls have returned each set is that of the whole script, so that by
`BalanceAssumption` the two ends are equal, and the queues between them empty.

*PktMultiplexor.* In `EntriesAccounted` the destinations are divided into free ones,
table entries and the one promised to a message whose size is not known yet.
`MuxInv` adds that there is such a promise only in state `UPDATE`, that it is either
the last answer in the queue or the only update (`Awaited`), and that the session
it is for has no entry (`Missed`), so that two entries never share a session.

The order of the words needs the history that `Story` recovers from the state: there is
a list of all packets announced so far, with the destination each was given and the
words each consists of, in which the lookup has answered the first `a` packets,
`procStream` is at packet `c <= a` and has forwarded `f` words, and the queues hold what
lies between (`Requested`, `Answers`, `Arriving`). Of the list itself it says that each
session sends its messages packet by packet (`InOrder`) and that a destination gets
them whole and one after another (`Given`). For this to go on, the table must know the
latest packet of each destination in use, which is also the latest of its session
(`EntryRight`); the latest packet at a free destination, and of a session without an
entry, must be the last of its message (`FreeComplete`, `NoEntryComplete`), except for
the message whose size is awaited (`SizeAwaited`). A destination has the words of its
packets up to where `procStream` is (`Written`), so the next word continues the message
or starts one after the end of another. How much of a message its first packets are
(`Size`) is proved to grow with each by induction, so that a packet reaches the
message's size only if it is the last (`PacketFacts`); hence the lookup, which adds
lengths up, and the mark, set from its answer, are right about which packet that is.

*HostCalls.* `HostInv` says where the host's last call is: its words, all of that
call, are divided between the stream and what main has read and add up to what
hostctrl has written (`Words`), or main carries it out with both streams empty
(`Running`), or its status is the one word in the stream and the result recorded for
it (`Answered`). The step that would break it is `HandlerRaises` while main waits or
reads, which sets `stray`.

For the connections `ReqInv` counts words: four times the requests not yet answered in
full (two words of a request, the stack's own record, four words of an answer) are
what `openCon` still has to ask for or to take. Outside `openCon` there are none,
unless a call was left with answers to come (`cutOff`). `SessInv` then follows each
rank, as long as neither `cutOff` nor `stray` is set: its request or answer is in one
place only, and an answer on its way has the session that the stack last opened to
that address (`Fresh`). The firmware finds the rank by ip and port, so that answers
may come in any order, and ranks behind one ip are told apart.

Only model-checked:

* liveness, which is outside the prover's reach;
* the results of the collectives (`ResultsRight`): they depend on what the programs of
  all ranks do to the operands, which `Collectives` defines and the theorems about
  `RankEngine` leave open;
* `BalanceAssumption` for the programs of `Collectives`, which TLC evaluates for the
  sizes of the runs: they are sequences put together from parts by recursion and
  concatenation, and the provers cannot count what these add up to for every size.

## Not modelled

* In `RankEngine`: failed transfers and timeouts (`ReceiveOffchip` and
  `SendPipeline` have them for their loops), a world of one rank, a second
  communicator, a transaction size of 0. `reduce_offchip_world` (`fw.c:1020-1051`)
  is never called and has no model.
* In the firmware: changing `use_tcp` while buffers are enqueued on the other
  receive DMA, and the effect of a soft reset on the receive DMAs and
  `dma_tag_lookup`; the code has no provision for either that a property could
  state. The settings of timeout, transaction size and number are constants.
* In the packetizers the TLAST every `max_pktsize` words, and the words of header
  and payload in the depacketizers: nothing but the stream's order depends on them.
* The drivers: `cclo.py` allocates buffers and lays out the exchange memory, the XRT
  driver is a sketch. The block design and the demo's dummy TCP stack have no logic
  of the system's own.
* DMA errors are one outcome ("not ok"): the codes only select the number that is
  returned.

Two observations while reading that no model is about: both packetizers lack a
semicolon after their last `sts.write(message_seq)` at this commit; the read of
`dma_tag_lookup` as an index happens before its range check (`fw.c` 663-671), which
`ChecksNeverFail` shows to be harmless.

## What could follow

* `SendPipeline` into `RxBuffers` as one composition, with "messages arrive once and
  in order" as its abstract specification; so far `NumberedSource` is the seam.
* Failures in `RankEngine`: one rank times out while others go on.
* A proof of `BalanceAssumption` for `Collectives`, once a program is a function from
  call, position and rank to a movement instead of a concatenation of parts.
