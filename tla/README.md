# A formal model of lwcan

lwcan is a small CAN stack in C for devices without an operating system: CAN
interfaces, raw CAN, ISO-TP (ISO 15765-2) connections and a UDS client, on a
static heap and a pool of timeouts. This directory holds TLA+ modules
translated from its source, configurations that check them with TLC, and
proofs of the main invariants that TLAPS checks.

Paths are relative to the root of the repository unless they end in `.tla` or
`.cfg`.

    tlc -config IsoTp_connection.cfg MCIsoTp.tla     # one of the runs below
    tlapm IsoTpProofs.tla                            # or another of the modules with proofs

## The system

| component | state | operations | talks to |
|---|---|---|---|
| ISO-TP sender, `isotp_out.c` | `output_flow` of a pcb: state, buffer, `remaining_data`, `cf_sn`, `bs`, `n_wft` | `isotp_send`, `isotp_sent`, timeouts `isotp_out_flow_output`, `isotp_output_error_handler` | timeouts, driver, callbacks `sent`, `error` |
| ISO-TP receiver, `isotp_in.c` | `input_flow` of a pcb: state, list of buffers, `remaining_data`, `cf_sn`, `bs`, `fs` | `isotp_input`, `isotp_received`, timeouts `isotp_in_flow_output`, `isotp_input_error_handler` | the same, callbacks `receive`, `receive_ff`, `error` |
| connection table, `isotp.c` | pool and list of pcbs, their bindings and callbacks | `isotp_new`, `isotp_bind`, `isotp_remove`, setters | dispatch of `isotp_input` |
| frame codec, `isotp.c`, `isotp_private.h` | none | `isotp_fill_*`, `isotp_get_*` | sender, receiver |
| timeouts, `timeouts.c` | pool of chunks, sorted list | `lwcan_timeout`, `lwcan_untimeout`, `lwcan_timeouts_handler` | `system_now`; calls handlers, which call it back |
| UDS client, `apps/uds/uds_client.c` | `uds_state` | connect, disconnect, request; callbacks of its connection; four timeouts | ISO-TP, timeouts, application |
| CAN interfaces, `canif.c` | list of interfaces, next number | `canif_add`, `canif_remove`, `canif_input`, lookups | driver; raw CAN first, then ISO-TP |
| raw CAN, `raw.c` | pool and list of pcbs, `sent` flag | `canraw_input`, `canraw_send`, ... | driver, application |
| heap, `memory.c`; buffers, `buffer.c` | free list in a static array | `lwcan_malloc`, `lwcan_calloc`, `lwcan_free`; `lwcan_buffer_*` | sender, receiver |
| length code, `length.c` | none | two table lookups | driver |
| port, `arch.h`, `system.h`, driver | clock, frames in transmission | `system_now`, `canif->output`, calls of `isotp_sent` and `canif->input` | everything |

There are no locks in the repository. The port calls `lwcan_timeouts_handler`
from its main loop, and calls `canif->input`, `isotp_sent` and `raw_sent` when the
driver has something. One call is one step of the modules, and what makes the code
hard is the order in which they come. `isotp_send` does not transmit: it starts a
timeout of zero milliseconds, whose handler hands the frame to the driver, which
reports it later with `isotp_sent`. So between any two frames of a message the
peer, the application, other timeouts and a failing driver get their turn, in every
order. One function waits: `canraw_send` spins until `raw_sent` was called
(`raw.c:268`), which only an interrupt or another thread can do. `Dispatch` has
its driver call between any two calls of the application and during that wait.

What makes each component correct:

- sender: each message is reported once, and truthfully; it frees its buffer; it
  never stays busy; it keeps what flow control asks for;
- receiver: what the application gets is whole and stays untouched until it is
  given back; no buffer leaks; it never stays busy;
- two connections: messages arrive whole, once and in order, and the two ends
  agree on where blocks end;
- timeouts: called when due, in order, all of them; the pool matches the list;
- UDS client: each connect and each request has one result; each timeout belongs
  to the state that waits for it; no state lasts or lacks what ends it, whatever the
  server does; the session is kept;
- interfaces, raw CAN, connection table: a frame reaches the connection bound to the
  interface it came in on; the lists stay lists; `canraw_send` returns, for its own frame;
- heap and buffers: allocations are disjoint and no header is written over; free
  neighbours are one block again; half an allocation leaves nothing behind;
- codec: what a receiver reads is what the sender wrote.

The hazards behind these properties, each at its line, are in `PROJECT.json`.

## Modules

| module | models |
|---|---|
| `IsoTp` | one connection: sender, receiver, its timeouts, the frames the driver has |
| `IsoTpReentrant` | `IsoTp` with an error callback that sends the next message |
| `IsoTpNode` | helpers: what a step of `IsoTp` puts on the bus and delivers |
| `IsoTpService` | abstract: what one direction between two connections promises |
| `IsoTpLink` | two connections on a bus, and their refinement of `IsoTpService` |
| `Timeouts` | `timeouts.c` |
| `UdsClient` | the UDS client over the outside of a connection |
| `Allocator` | abstract: what the heap promises its callers |
| `Heap` | `memory.c` and `buffer.c`, and their refinement of `Allocator` |
| `PcbTable` | pool and list of connections as `isotp.c` and `raw.c` both have them, as functions of a table |
| `Canif` | the list of interfaces and its numbers |
| `Dispatch` | `Canif` with two instances of `PcbTable`: binding, the path of a frame through `canif_input`, `canraw_send` |
| `Codec` | the fields of classic and CAN FD frames, padding, `length.c`: operators only |
| `IsoTpProofs`, `UdsClientProofs`, `TimeoutsProofs`, `DispatchProofs`, `HeapProofs` | theorems about the modules they are named after |
| `IsoTpLinkProofs` | theorems about `IsoTpLink`, from the lemmas of `IsoTpProofs` for both of its instances, and about `Codec` |
| `PcbTableProofs` | lemmas about the tables of `PcbTable`, used by `DispatchProofs` for both of its instances |
| `Lemmas` | facts about numbers and sequences |
| `MCIsoTp`, `MCIsoTpLink`, `MCIsoTpReentrant`, `MCTimeouts`, `MCUdsClient`, `MCHeap`, `MCDispatch` | instances for TLC |

### IsoTp

`output_flow` and `input_flow` are the two flows of `struct isotp_pcb`, field by
field. `timeouts` counts the pending timeouts of each handler with this pcb as
argument, `tx` holds the frames that `canif->output` took and `isotp_sent` has
not reported, `held` the buffers the application has from `receive` and has not
returned with `isotp_received`, `attached` whether `canif_get_by_index` finds
the interface. `outcome` and `unacked` are history: what the application was
told of its latest message, and how many of its bytes the driver has not
confirmed. `outcome` follows only reports about messages sent; the error
callback is also called about receptions, and the application cannot tell them
apart.

Actions carry the names of the functions. A function with several outcomes has
one action for each: `isotp_sent` is `sent_sf`, `sent_ff`, `sent_cf`,
`sent_last_cf`, `sent_fc` and the two errors; `isotp_input` is the four
`received_*` with their cases, and `isotp_input_dropped` for frames nobody waits
for. `canif_remove` is all that `IsoTp` needs of `canif.c`; `Dispatch` has the rest, and
`isotp_new`, `isotp_bind` and `isotp_remove`.

Abstractions:

- A message is an identity and a length; a frame carries the identity and the
  offset of its first byte. A buffer is the sequence of chunks copied into it,
  each with where it went and where it came from, so that gaps, overlaps and
  mixed messages can be seen.
- Time: a pending timeout may expire in any state. This includes every real
  order of expiry. The separation time is only a delay before the next frame and
  is dropped. The order of timeouts is the subject of `Timeouts`.
- The heap is the set `BufferId` of buffers there is room for. Buffers of the
  sender are not taken from it: `isotp_send` without memory changes nothing.
- `Frame` has the frames that are legal on the wire: single frames of 1 to 7 bytes,
  first frames of more than 7. The block size arithmetic keeps its width (`Int8`).
- The build is that of classic CAN (`ISOTP_CANFD` 0, `options.h`); the layouts of both builds are in `Codec`.

### IsoTpLink and IsoTpService

`IsoTpLink` instantiates `IsoTpNode` twice, with `A` bound to `B`. What one
hands to its driver goes to its `bus` in order; the other's `isotp_input` takes
frames from there. `accepted` and `delivered` are history, and at once the
refinement mapping to `IsoTpService`. Two assumptions that the code does not state
are conjuncts of actions:

- `ReceiveA`, `ReceiveB`: a driver reports a frame with `isotp_sent` before it
  hands over a frame that can answer it. Otherwise the flow control frame is dropped
  (`isotp_in.c:328`) and the message fails at N_Bs.
- `Silence` in `ExpireA`, `ExpireB`: N_Bs and N_Cr are longer than a round trip.
  Without it the protocol itself is unsafe: flow control frames do not say which
  message they answer, so one that comes after N_Bs sets the next message going and
  its receiver, still in the old message, joins the two. The mutant `ExpireAHasty`
  is this, and `SafeUntilStop` finds it.

With losses even that is not enough. A consecutive frame out of sequence is answered
with FS_OVERFLOW (`isotp_in.c:271`), which does not say either which message it
ends. When the sender is done with that message by then and has begun a second, the
receiver takes the second one's first frame and answers it, the FS_OVERFLOW ends
the second one at the sender, and the answer sets a third going (`isotp_in.c:346-372`): its consecutive
frames complete the second. So what a link that may lose frames promises ends with the first
FS_OVERFLOW: `stopped` is the history of that, and `SafeUntilStop` the refinement
up to there. `BothSafe` is the refinement without the restriction, for a link that loses nothing.

### Timeouts

The clock is a number modulo `TimeRange`, as `system_now` is modulo 2^32. The
pass of `lwcan_timeouts_handler` is not one step: handlers call `lwcan_timeout`
and `lwcan_untimeout`, so each call of a handler is a step
(`lwcan_timeouts_handler` for the first, `next_expired` for the others) and
`pass_done` ends the pass; between them the handlers start and stop what they
like while `now` stays what it was. `left` of a timeout is history: how long it
really has to wait, which the modular times of the code only imply.
`TimeAssumption` bounds delay plus lateness by half the range, without which
`TIME_LESS_THAN` cannot order two times, and the lateness alone by the longest delay.

### UdsClient

`uds` is `uds_state`, `timers` counts pending timeouts, of which the pool has room for `Chunks`;
`lwcan_timeout` drops the next without a word (`timeouts.c:147`), which `dropped` records. Of the
connection below the client sees `sending` (between `isotp_send` and `sent` or `error`) and `receiving`
(between `receive_ff` and `receive` or `error`). The rest is history: `connection` and `request`
are what the application was told, `asked` that the server has an attempt to connect to answer, `leftover`
which messages the connection still has although the client is idle, because `uds_client_disconnect`
interrupted them, nobody asked for them or they are being refused ("overflow"), `session` whether S3
keeps the session.

`confused` records that the client took for the answer what was none, or goes on to connect with P2 running.
The model goes on with such a client: nothing is cut off. There are three ways into it:

- A response that comes when none is awaited, late or unasked, is taken for the answer to whatever is under
  way (`uds_client.c:219`), also to a request that is still being sent. While the client connects and
  `connect_try` is pending, an answer stops P2 and leaves `connect_try` (`uds_client.c:229`): it runs in the client
  that is connected, or idle, or deinitialised, and calls `connect_cb` again or through NULL. Seven states reach it:
  connect, the connection gives up the attempt, the answer comes after all, the application disconnects and
  deinitialises, `connect_try` runs. A call through NULL ends the model (`Crashed`).
- The connection has no memory for the answer to connect: `uds_error` starts `connect_try` beside P2
  (`uds_client.c:296`), and each starts an attempt of its own. With the last attempt but one, and
  success at the last, the `connect_try` left over takes `connect_try_num` from 0 to 255 (`uds_client.c:83`). With
  the default options this takes twelve states.
- The second report of a first frame there was no memory for (`isotp_in.c:205`) meets the next request.

What of the properties survives this is the question of each (`ConnectEnds` is `ConnectReportedOnce` and
`AttemptsCounted`, `TimersRight` is `TimersMatchState` and `SessionKept`). `TypeOK`, `WaitsDriven`, `StateLeft`, that only
`connect_try` ever reports to an application that does not wait (`ConnectReportedOnce`) and that S3 runs only in a session
(`TimersMatchState`) hold of every client, confused or not. The rest holds until then, and the code breaks it afterwards, since
nothing in it tells which response belongs to which request: P2 ends a later connect, `connect_cb` is called twice or through
NULL, and the attempts wrap, against 'Number of attempts to connect the client to the server' (`uds_options.h:40`).

The server answers while P2 or P2* runs, or any time after an attempt to connect was sent until the
next one is under way. What else may happen is the parameter `Disturbances`:

| disturbance | what holds |
|---|---|
| `isotp_send` finds no memory ("memory short") | everything, but for the state `Stuck`: a request that `isotp_send` refuses leaves the client in `SENDING_REQUEST` until the application disconnects (`uds_client.c:572`) |
| the connection has no memory for a response ("no room") | everything, until the response was the answer to connect or its second report ends the next request |
| responses that are not awaited ("unexpected response") | everything, until one comes that is taken for the answer |
| connect when connected ("connect again") | not in a run: nothing refuses it, S3 goes on with the client connecting, `TimersMatchState` fails, and `connect_try_num` can wrap below zero here as well, as `is_connected` keeps `connect_try` from giving up |

The session lapses, which `session` records, when S3 expires while a response is
outstanding, or when the request that S3 sends is refused or given up: S3 is
started only when a request was sent (`uds_client.c:108`, while `uds_options.h:54`
promises to keep the session). With `UDS_KEEP_SESSION` FALSE S3 ends the session
even while a request is being sent; S3 is then started for a client that is not
connected, and in `Stuck` neither connect nor disconnect is possible any more.

`uds_client_deinit` removes the connection without looking at it; that it is quiet is
its guard here, a duty of the application that `IdleIsQuiet` says is done unless it
disconnected in the middle of a message. The timer `p2` of a state and the state
itself are what `TimersMatchState` relates: one timeout that outlived its state would
end the next request.

### Heap and Allocator

The heap is its block headers by address, `xStart` and `pxEnd` among them;
everything the code computes by pointer arithmetic (alignment, splitting, merging
with the block before and behind, rounding, the bit for allocated blocks) is
computed on addresses. `regions` and `buffers` are what callers hold.
`lwcan_malloc`, `lwcan_free`, `lwcan_calloc`, `lwcan_buffer_new` and
`lwcan_buffer_delete` are functions from a heap to a heap, so that a buffer, which
needs two allocations, is the composition the code writes. `Allocator` says that an
allocation is aligned, inside the heap and disjoint from all others for as long
as the caller has it; `AllocatorSafe` is the refinement, with the header in front of
each payload counted in, so that nobody else's bytes overlap a header either.

Left out: the statistics (least free bytes ever, numbers of calls), the first call
of `lwcan_malloc`, which initialises and is `Init`, and a product in `lwcan_calloc`
that needs more than 32 bits, a duty of the caller (nothing in the repository
calls it). Freeing twice, or what was never allocated, is the caller's fault too.

### Dispatch, Canif and PcbTable

A connection is the index of its chunk in the pool. A table is a record of list
head, links, service bytes and number; its operations are functions of the
record because the receive callback of a raw connection may call them in the middle
of `canraw_input`, which goes on with the pointers it took before. An interface is
in `canif_list` with its number, and number plus one is the index that connections
keep. `bound` is history: the interface a connection was bound to while that stays in
the list.

`canif_input` offers a frame to the first raw connection with the index of
the interface. Its callback may add or remove a connection and return 0 or 1: with 1
the frame is eaten and the connection moved to the front of the list
(`canraw_input_eaten`); with 0, or without a callback, the search ends as well and
the frame goes to `isotp_input` (`canraw_input_none`). `canraw_send` is three steps:
the call, `raw_sent` by the driver, and the return.

Two sequences of calls leave this module, recorded in `misuse`:

- "callback": a callback that eats a frame removed its own connection or the one
  in front of it, further down the list. `canraw_input` then links a freed chunk
  (`raw.c:201`); `ListsIntact` states it as an equivalence, so this is exactly when the
  list breaks.
- "init": `canif_add` of an interface already in the list, whose `init` fails. The
  interface was cleared and has the number of another one. Even when `init`
  succeeds the interfaces behind it drop out of the list (`canif.c:61`); that case is
  modelled, and `BoundReached` names it.

Assumed: the driver of a removed interface is silent; the callback of a frame
does not remove the connection whose `canraw_send` waits; calls of the application are atomic
with respect to interrupts (the code takes no lock: a port that preempts
`canraw_remove` with `canif->input` must disable interrupts itself). An index is
used again by the next interface: a connection whose own interface left may be
called for another one's frames until it is bound again, which `FramesRouted` allows.
The error that `canraw_send` returns is not followed, nor a `canraw_send` that has a
callback of its own or whose frame the driver refuses: it changes no state.

### Codec

The frames as functions from offsets to bytes, as each build fills and reads them,
`get_padding_length`, and the two functions of `length.c`. There is no state and so no
run; everything is stated by theorems, in `IsoTpLinkProofs`.

## Runs

| run | module, cfg | states | result |
|---|---|---|---|
| connection | MCIsoTp, IsoTp_connection.cfg | 168 006 | pass |
| receiver | MCIsoTp, IsoTp_receiver.cfg | 10 200 (with symmetry) | pass |
| link_reliable | MCIsoTpLink, IsoTpLink_reliable.cfg | 13 987 | pass |
| link_lossy | MCIsoTpLink, IsoTpLink_lossy.cfg | 160 694 | pass |
| timeouts | MCTimeouts, Timeouts.cfg | 45 928 | pass |
| uds | MCUdsClient, UdsClient.cfg | 150 270 | pass |
| heap | MCHeap, Heap.cfg | 65 134 | pass |
| dispatch | MCDispatch, Dispatch.cfg | 352 752 | pass |
| refusal | MCIsoTp, IsoTp_refusal.cfg | | `RefusalFreesABuffer` violated |
| block | MCIsoTp, IsoTp_block.cfg | | `BlockSizeKept` violated |
| reentrant | MCIsoTpReentrant, IsoTpReentrant.cfg | | `SentMeansTransmitted` violated |
| timeouts_narrow | MCTimeouts, Timeouts_narrow.cfg | | `PoolMatchesList` violated |

**connection**: the connection sends messages of 5, 7, 18 and 128 bytes (a single
frame, the longest one, two consecutive frames, eighteen that take the serial number
past its wrap) while it receives; flow control frames of every status
come at any time, with block sizes 0, 1, 3, 15, 16 and 200 (none, single frames,
a block that ends, the two sides of the serial number's wrap, and a value that
overflows `int8_t`); the driver may refuse or give up any frame of both flows,
and the interface may be removed. `OutputDriven` and `InputDriven` say that the
state of each flow and what is pending for it always agree; `BuffersOwned` that
no buffer leaks or is freed under the application; `ReportedOnce` and `SentMeansTransmitted` that the application is told once and
the truth; `OutputReturns` and `InputReturns` that both flows come back to idle while
the interface stays. After its removal a transmitting flow has neither a timeout
nor a frame in the driver and hangs; `Driven` says that it is the only case.
The application gives buffers back at once here: with buffers held and flow
control frames refused `BuffersOwned` does not hold (run refusal).

**receiver**: the application keeps up to two buffers while the heap has room for
two, so the heap runs out with a message half received; the peer sends single,
first and consecutive frames of three messages in any order, with every
serial number. `HeldComplete`: what the application holds has no gap or overlap.
`HeldStable`: it is not written to.
`InputDriven`: the receiver never lacks what drives it, also when a first frame finds no memory and is answered with an
overflow, which does not happen in the run connection. Mixed content is not its subject: a receiver
cannot see it when a peer mixes messages.

**link_reliable**: A sends a message of 19 consecutive frames and a single frame while B
sends a segmented one, with blocks of two. The serial numbers wrap, so the block
arithmetic is met at every remainder. `BothSafe` is the
refinement of `IsoTpService` in both directions, `EachArrives` its liveness: everything arrives once,
whole, in order.
`NeverBothWait`: no flow ever waits for N_Bs or N_Cr, so the two ends agree on blocks.

**link_lossy**: three segmented messages of A and one of B, of which the receiver may miss any
frame; three, so that what is left of the first may meet the second and the third.
`SafeUntilStop`: nothing is delivered twice, out of order, in parts or made of two messages before an end stops the
other. `Recovers`: whatever was lost, and also after a stop, all four flows come back to idle.

**timeouts**: three chunks, two handlers, delays of 0 and 2 on a clock of 8 values that
wraps for ever, the main loop late by at most 1. Delay zero is what `isotp_send`
uses, and makes handlers extend the pass that runs them. Three chunks are the least
with a middle in the list, and an exhausted pool is frequent.

**uds**: three attempts to connect, a first, a middle and a last one; the connection may refuse
or give up every message and be short of memory for every response, and responses come
unasked at any time, so that clients are confused in every way and go on. Three chunks for the four kinds of
timeouts: a client that is not confused has two pending at most, and one that is fills them, so the pool is
exhausted in the run. The state space is complete.

**heap**: thirteen times eight bytes at an address that is not aligned and headers of
eight bytes; requests of no bytes, one byte, a block, a little more, more than the heap
and one with the top bit set; single allocations and buffers in every order. Six allocations
fit at once, which gives free blocks with an allocated or a free one on either side, and rests
just above and below what is split off. `RoomIsFound` is the promise of merging: a request is
refused only when no stretch between allocated blocks is long enough.

**dispatch**: two interfaces and two numbers, so that numbers wrap and are used again at once;
three raw connections, for a list with a middle and a callback that removes the connection
in front; one ISO-TP connection, whose table is the same module. `SendReturns` is the liveness of the
busy wait, `ReturnsConfirmed` that it never ends for an earlier frame.

The runs that end in a violation show where the code does other than its
documentation or its assertions say; `findings` in `PROJECT.json` quotes both:

- **refusal**: a flow control frame with overflow status that the driver refuses makes
  `isotp_in_flow_output` free the head of the list, which by then is NULL
  (`LWCAN_ASSERT("buffer != NULL")` in `isotp_remove_buffer`) or a buffer of the application;
- **block**: `cf_left = bs - cf_sn` counts from the start of the message, not of the
  block. A peer that wants blocks of three gets three, then single frames. Two
  lwcan ends agree on it (link_reliable); another receiver does not;
- **reentrant**: `isotp_sent` goes on to its switch after the error callback;
- **timeouts_narrow**: `timeout_free` with an offset of 8 bits, for the default pool of ten and a
  struct of 32 bytes (64-bit pointers).

Deadlock is checked in all runs but the two of `IsoTpLink`, whose applications have a
fixed set of messages and then stop.

### Fairness

- `IsoTp`: weak fairness of each timeout handler (the main loop calls `lwcan_timeouts_handler`
  for ever, and `Timeouts!EventuallyCalled` shows that every timeout then is called) and of
  the reports of the driver, for each flow (a driver that took a frame calls `isotp_sent`,
  with a result or an error; without this contract no state of the sender could end). None
  of the application and of the peer.
- `IsoTpLink`: the same for both ends; that a bus delivers what it does not lose.
- `Timeouts`: time passes, passes are made, handlers return. Weak fairness of each is
  enough although timeouts with delay zero may be started for ever.
- `Dispatch`: a driver confirms each frame it accepted, sent or not, and the thread that waits runs
  again. None of the application and none of frames coming in, which may come for ever.
- `UdsClient`: `connect_try` and P2 expire; the connection disposes of what it sends and receives,
  which are `OutputReturns` and `InputReturns` of `IsoTp`. None of the server: `StateLeft`
  leaves out `RESPONSE_PENDING`, which a server can prolong for ever, and states whose timeout found no chunk.

## Proofs

### The connection

`IsoTpProofs` proves of `IsoTp`, for all messages, peers, buffers, block sizes, wait counts and
pools of two slots or more:

| theorem | property |
|---|---|
| `Invariance` | the inductive invariant `Inv` |
| `TypeCorrect` | `TypeOK` |
| `TimersAlwaysFit` | `TimersFit`: two slots of the timeout pool are enough for a connection, so `lwcan_timeout` never drops one |
| `EachReportedOnce` | `ReportedOnce` |
| `SentIsTransmitted` | `SentMeansTransmitted` |
| `EveryBufferOwned` | `BuffersOwned` |
| `SenderAlwaysDriven` | `OutputDriven` |
| `ReceiverAlwaysDriven` | `InputDriven` |
| `HeldIsComplete` | `HeldComplete` |
| `HeldIsStable` | `HeldStable` |

Assumptions: `IsoTpAssumption` of `IsoTp` (what the constants are; messages of at most 4095 bytes,
which `isotp_send` does not check; two slots) and `ReferencesKept`: an application that holds
buffers has a driver that does not fail flow control frames. The run refusal shows that the second is
needed.

The argument. None of the properties is inductive. That a handler finds the state it was meant for needs
that nothing stale is pending, and this in turn that every way out of a state takes with it what was
pending for it. So `Inv` has, for each flow,

- its type (`SenderType`, `ReceiverType`),
- the counts of timeouts and frames by state (`OutputCounts`, `InputCounts`), with equality while
  the interface is there and at most one when it is not,
- for the sender, what is left to send by state (`Remaining`) and that every byte is left, in the
  driver or confirmed (`Accounted`), which gives `SentMeansTransmitted` at the last frame; and that a frame built
  from such a state is a legal one (`OutputFrameBuilt`),
- for the receiver, that the head of the list is the reception in progress and the rest what the
  application holds, without repetitions (`Owned`), so that `isotp_remove_buffer` and
  `isotp_received` take the buffer they mean.

Each action has a lemma that it preserves the half of `Inv` it touches; actions of the other flow only
need that timeouts of the two flows are disjoint and that there is room in the pool, which follows from the
counts of both.

`HeldComplete` and `HeldStable` need one thing more, `Fills`: the head of the list is filled from its first byte to
where the next consecutive frame goes (`length - remaining_data`), every other buffer to its end. `store_cf_data` then
leaves neither gap nor overlap (`NextChunk`), and with `Owned` it never writes to a buffer the application holds. That
every way a reception ends takes the right buffer off the list is the same argument for both (`FreedFills`,
`ReturnedFills`, `FillsDelivered`).

### Two connections

`IsoTpLinkProofs` proves of `IsoTpLink`, for all messages of both ends, block sizes, wait counts, buffers and pools
of two slots or more, the first three without losses (`~Lossy`), the last whatever is lost:

| theorem | property |
|---|---|
| `LinkInvariance` | the inductive invariant `LinkInv` |
| `BothNeverWait` | `NeverBothWait` |
| `LinkImplementsService` | `BothSafe`, the refinement of `IsoTpService` in both directions |
| `LinkSafeUntilStop` | `SafeUntilStop`, the same refinement up to the first FS_OVERFLOW |

Assumptions: `LinkAssumption` of `IsoTpLink`, which is `IsoTpAssumption` for both ends and room for a receive buffer,
without which every segmented message is refused; and the two about the driver and the timeouts that are conjuncts of
its actions. Neither the frames of the peer nor its order of steps is assumed: the peer is the other instance.

The argument. `LinkInv` is `Inv` of each end and `Direction` for each direction, which relates the flow of the sender, the
flow of the receiver, both buses and the history:

- Each end is at a place in what is sent: messages done, offset in the next, its serial number (`SendPosition`,
  `ReceivePosition`). The data frames on the bus are a `Chain` from the receiver's place to the sender's, each the one that is
  sent at its place (`FrameAt`) and leading to the next (`After`). So a frame that arrives is the one the receiver
  waits for, whatever the number of messages and wraps in between.
- What the receiver has of its message is the beginning of the sender's (`Holds`, `ReceiverOK`), and the sender goes by the
  block size of the receiver (`SenderOK`).
- `Turn` says whose turn it is. While the sender awaits flow control exactly one of three is under way: data the last frame of
  which ends a block, the receiver's turn to answer, or the one flow control frame on the bus, which says to go on. Otherwise
  none of them is. Whether a frame ends a block (`EndsBlock`) is a function of the frame alone, so that both ends, which
  compute it from fields of their own (`isotp_out.c:63`, `isotp_in.c:294`), agree; that it wraps in an `int8_t`
  is the same for both.

`IsoTpProofs` has one lemma for each step of an end, with the other end's flow as a value: `LinkSend`, `LinkOutput`,
`LinkFlowControl`, `LinkConfirm`, `LinkData`, `LinkGo`. Each is used twice, for A and for B. That a timeout never expires
(`ExpireANever`) is then that in `Silence` nobody's turn can be the reason to wait (`AtRest`). The step of the service
that a received frame is follows from the receiver's place before and after it (`DeliversNext`).

With losses the receiver is not where the first frame on the bus is, and often not in a message at all, so `Direction` does
not survive the first lost frame. `LossyInv` puts `LossyDirection` in its place until an end says stop: there is
a place at which the bus begins (`Leads`), and of the receiver it says only

- that nothing it delivered is of a message from there on (`Delivered`);
- while consecutive frames of a message are still to come, that it is in that message and at the place (`InStep`), or
  `Behind` it, or about to say stop (`Keeps`);
- that it asks for more only in step, when the sender awaits it and no data is on the bus (`Answers`), which is what
  makes the flow control frame the answer to the message it is for.

`Behind` is the heart of it. A receiver that missed frames is short of at least one frame's bytes more than what is left of
the message. So it never takes the last frame of the message for its own last, even when it missed sixteen frames and the serial
numbers agree again: it finds a number wrong and says stop (`isotp_in.c:281`), or waits for N_Cr. And the
frames it missed ended no block, since after the last frame of a block the sender sends none before it is answered:
so the receiver does not answer at the end of a block the sender is not at (`BehindTaken`). N_Bs and N_Cr then start both
ends afresh at a place between two messages, because in `Silence` nothing is under way (`LossySenderExpires`,
`LossyReceiverExpires`). A frame that is received thus completes the message it belongs to or none (`LossyData`), which is
`Deliver` of the service (`LinkSafeUntilStop`). The run `link_lossy` checks the same with blocks of two.

### The codec

`IsoTpLinkProofs` proves of `Codec`, for every length, serial number and flow control field:

| theorem | |
|---|---|
| `ClassicFramesRead` | single, consecutive and flow control frames are read as they were filled |
| `ClassicLengthRead` | the length in a first frame is read modulo 4096: `isotp_send` accepts longer messages and announces them short (`isotp.c:426`) |
| `FdSingleFrameRead` | a CAN FD build reads the length of single frames of both layouts |
| `FdLengthCut` | the length in a CAN FD first frame is read modulo 256: each byte is assigned over the one before it (`isotp.c:324`) |
| `FdSingleFrameCut` | exactly which payloads a CAN FD single frame is too short for: the padded length leaves out the two bytes in front of the payload (`isotp.c:365`) |
| `FdFramesProgress` | every first and consecutive CAN FD frame takes at least one byte and at most what is left |
| `LengthCodeLeast`, `PaddingIsALength` | `can_fd_len2dlc` gives the code of the least length that fits, is the inverse of `can_fd_dlc2len` on the lengths there are, and the padding of `isotp.c` is one of these |

No assumptions. The arguments are case splits on the rows of the tables and arithmetic modulo the widths.

### The UDS client

`UdsClientProofs` proves of `UdsClient`, for every number of attempts to connect, every number of chunks from two on and
every combination of disturbances:

| theorem | property |
|---|---|
| `AlwaysInvariance` | the inductive invariant `Always` |
| `TypeCorrect` | `TypeOK`, also of a client that was confused |
| `NothingHangs` | `WaitsDriven`, the same |
| `Invariance` | the inductive invariant `Inv` |
| `EachRequestAnswered` | `AnsweredOnce` |
| `EachConnectEnds` | `ConnectEnds`: `ConnectReportedOnce` and `AttemptsCounted` |
| `TimersOfTheState` | `TimersRight`: `TimersMatchState` and `SessionKept` |
| `QuietWhenIdle` | `IdleIsQuiet` |

Assumptions: `UdsAssumption` of `UdsClient`; that the build keeps the session (`UDS_KEEP_SESSION`, the
default); and for `Invariance` and the theorems behind it, `Settings`, that the application does not connect when it
is connected as well. The section on `UdsClient` says what happens otherwise.

The argument has two invariants. `Always` is what no confusion breaks: types, the timeout or message each state waits for
(`WaitsDriven`), S3 at most once and only in a session (`SessionTimer`), and that a client which is not
initialised is cleared and its connection quiet, one that connects has a `connect_cb` and a connect to report and one that
sends a request is connected (`Ordered`). Lemmas on the pool say that a timeout stopped makes room for another (`StoppedTimer`,
`StartedTimer`), so that a restarted S3 is dropped only when it was not running.

`Inv` adds the properties that hold until the client is `confused`, together with `Consistent`, and none is inductive
alone. When S3 or P2 expires, `TimersMatchState` tells which state the client is in, and that there is no second timeout of
the kind; when `sent`, `error` or `receive` comes from the connection there is no timeout to tell. So `Consistent`
says it: a message that is being sent is the request of the state the client is in, or one it was interrupted
in; a segmented message that comes in is awaited, or a leftover; an attempt the server may answer has no `connect_try`
behind it; a request that is being sent is waited for by the
application exactly when it asked for a response, and in the states after it always. Each action has a lemma for either
invariant; a step of a confused client preserves `Inv` because no action ends confusion (`ConfusedStays`) and `Always`
has the rest. `AttemptsCounted` needs of `Inv` that `connect_try` finds the client connecting and not connected
(`AttemptsStep`).

### The timeouts

`TimeoutsProofs` proves of `Timeouts`, for every clock, delay, lateness and number of timeouts:

| theorem | property |
|---|---|
| `OrderInvariance` | the inductive invariant `OrderInv` |
| `TypeCorrect` | `TypeOK` |
| `AllCalledInOrder` | `CalledInOrder` |
| `NoChunkLost` | `PoolMatchesList`, if `PoolFits` |

Assumptions: `TimeAssumption` and `PoolAssumption` of `Timeouts`. `PoolFits`, for `NoChunkLost` only: the offset of
every chunk is below 256, because `timeouts.c` keeps it in a `uint8_t`. Ten chunks of 24 bytes fit it; the run
timeouts_narrow has ten of 32 and shows what happens.

The argument. The times of the list wrap, so that one is smaller than another says nothing. `OrderInv` speaks of
`left`, the history each entry has of how long it has to wait: `left` is ordered along the list (`InOrder`), and the
time of an entry is the clock plus `left`, modulo the range, with `left` between minus the lateness and the longest
delay (`TimesConsistent`). For two such entries `TIME_LESS_THAN` compares what is left (`Comparable`, the one place
where the arithmetic of the wrap is done), so an insertion finds the right place. A tick takes one from each
`left`; that it may is the guard that states the fairness of the port. The pass compares with `now`, which was read before its
handlers ran; `PassShort` bounds how long ago. `PoolMatchesList` is inductive given the types of `OrderInv`.

### Interfaces and connections

`DispatchProofs` proves of `Dispatch`, for every number of interfaces, connections and identifiers:

| theorem | property |
|---|---|
| `NoNumberTwice` | `NumbersUnique` |
| `BoundIsReached` | `BoundReached` |
| `ReturnsOnlyConfirmed` | `ReturnsConfirmed` |
| `TypeCorrect` | `TypeOK`, if `PoolsFit` |
| `ListsStayIntact` | `ListsIntact`, if `PoolsFit` |
| `FramesGoRight` | `FramesRouted`, if `PoolsFit` |

Assumptions: `CanifAssumption` and `DispatchAssumption`. `PoolsFit` is to the pools of connections what `PoolFits` is to
the pool of timeouts; with the two connections of `options.h` it holds for any structure of at most 255 bytes.

The argument. `RouteInv` is inductive: entries of the list differ in number and interface (`Distinct`), and a
connection with a `bound` interface reaches it (`RawReach`, `IsoTpReach`), stated of all connections, so that no
list of connections is needed. That `canif_add` finds a free number is the pigeonhole principle (`FreeNumber`); that
releasing the connections of exactly the interfaces that leave the list keeps the others reached is `ReleaseKeeps`.

The lists of connections are harder. `PcbTable` is faithful to the code, where a list is a head and `next` pointers, and what
is linked is what a walk meets, which need not end. `PcbTableProofs` says that a table `IsChain` when a sequence without repetitions
has these pointers, this pool and this number, and shows what each operation does to the sequence. A walk is a
recursive function; that it exists and meets what it should is by induction over its steps, which `NatSetInduction` (`Lemmas`)
provides in a form the provers can use: a set that holds 0 and successors holds every number. `TablesInv` is then
that both tables have chains, or that the raw one is broken and `misuse` is "callback". The hard case is
`canraw_input_eaten`: `Previous` is taken before the callback and used after it. If the callback removed neither of
the two connections they still follow each other (`CallbackAdjacent`) and the move is a permutation of the chain
(`MovedChain`). If it removed the connection itself, the list leads to a free chunk (`BrokenByOwn`); if it removed the one
in front, the walk goes around for ever (`BrokenByPrevious`). So the equivalence in `ListsIntact` is proved in both directions.

### The heap

`HeapProofs` proves of `Heap`, for every size and alignment of `memory_heap`, every header and request, and every
order of calls:

| theorem | property |
|---|---|
| `TypeCorrect` | `TypeOK` |
| `HeapStaysTiled` | `BlocksTile` |
| `FreeListStaysInOrder` | `FreeListInOrder` |
| `NoBlockLost` | `NothingLeaked` |
| `RefusedOnlyWhenFull` | `RoomIsFound` |
| `ImplementsAllocator` | `AllocatorSafe`, the refinement of `Allocator` |

Assumptions: `HeapAssumption` and `HeapFits` of `Heap`. The second says that the array has room for a block at all
and has fewer bytes than the bit that marks a block as allocated, half of what a `size_t` counts; a heap for which
that is false writes its first header over `pxEnd`.

The argument. The inductive invariant `IInv` has two parts. `HeapOK` is about the heap alone: its blocks lie one behind
the other (`Tiled`), the list is the free ones in the order of addresses (`Chained`), no two free blocks touch (`Apart`),
and the counter is their bytes. `Apart` is the strengthening the rest needs: without it the block that is freed could
have to be merged with more than its two neighbours in the list, which `prvInsertBlockIntoFreeList` does not do, and
`RoomIsFound` is false. `Holds` says that each allocated block has exactly one holder: a caller, the structure of a
buffer or its payload, told apart (`Holders`), since two of them with the same block would be one element of `InUse`.

`prvInsertBlockIntoFreeList` merges with the block in front, then with the one behind, then links, and skips the link
when it plugged a gap. `InsertIsLinkAndJoin` shows that this is linking the block and then joining what touches, at most
twice; a link and a join each keep a heap in order (`LinkedRearranges`, `JoinedRearranges`), and what can still
touch after each is named (`Touching`), so that nothing touches at the end (`InsertIs`). `lwcan_malloc` takes a
block out (`UnlinkedIs`), cuts it (`CutIs`) and inserts the rest while the block itself is in no list (`SplitIs`). What the two
walks of the list find (`BeforeIs`, `FirstFitIs`) is shown by the greatest address at which they could be wrong. The bytes
of a set of blocks are a fold over it; that they add up is by induction over its size (`TotalTake`), with
`NatSetInduction`. `lwcan_buffer_new` that gets no payload is `MallocIs` followed by `FreeIs`, which give back the holders
there were.

### Model-checked only

`OutputReturns` and `InputReturns` of `IsoTp`, `StateLeft` of `UdsClient`,
`EventuallyCalled` of `Timeouts`, `SendReturns` of `Dispatch`, `EachArrives` and `Recovers` of `IsoTpLink`: liveness under
fairness is beyond the prover and stays with TLC. Every safety property of a passing run has a theorem.

## Not modelled

- Two connections on one node that share the timeouts and the heap: `IsoTp` takes its two slots and its
  buffers as its own. `isotp_remove` while timeouts are pending or frames are with the driver
  (`isotp.c:188`): `Dispatch` removes connections and `IsoTp` runs one, but no module has both.
- Callbacks of `IsoTp` and of the UDS client that call the stack, but for `IsoTpReentrant`,
  the handlers of `Timeouts` and the raw callbacks of `Dispatch`.
- Frames that no ISO-TP node sends: single frames of length 0 or above 7, first frames of 7 bytes or less.
- The value of padding bytes and the separation time, which is a delay only.
- `uds_set_context` and the setters of P2 and P2*: the first stores a pointer, and the others a time, while the
  client is idle.
- Names, bitrates and filters of interfaces, which are handed to the driver; setters of callbacks, which store one
  pointer each.
- A port that preempts a call of the stack with another one, except the wait of `canraw_send`. Nothing in the
  repository says that it may, and nothing protects against it.
- `arch.h`, `debug.h` and the other headers of the port: types and macros.

## Plan

Done: `IsoTp`, `IsoTpLink`, `Timeouts`, `UdsClient` and `IsoTpProofs`, in this order: the connection is where the
code's own logic is, everything above relies on it, and the timeouts drive it. Then the rest of the system:
`Heap` with its abstract allocator, `PcbTable`, `Canif` and `Dispatch`, `Codec` and its proofs, and `UdsClientProofs`.

Then `TimeoutsProofs`, `PcbTableProofs`, `DispatchProofs`, `HeapProofs` and, last, `IsoTpLinkProofs`, which joins the
proofs of one connection to one of two, without losses and with them.

Next: the removal of a connection with timeouts pending.
