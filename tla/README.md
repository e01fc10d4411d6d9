# Verification of the traffic-light learner

A specification in TLA+ of the STM32F407 firmware in this repository, checked
with TLC and proved with TLAPS: the safety of every part of it, but not liveness. The firmware watches the lamps of up
to twelve traffic lights, learns how long each lamp stays lit, and tells TCP
clients which lamp is lit and for how many more seconds. It also takes commands
(settings, reset, firmware upgrade) over TCP and RS485. It runs on uC/OS-II (100
ticks a second) with lwIP 1.4.1.

Line numbers below, and those in the comments of the modules, are those of the
file named in the same sentence or, in `TrafficLight.tla` and the two modules
that extend it, of `USER/trafficlight.c`.

## 1. Inventory

| Part | Where | State | Operations |
|---|---|---|---|
| sampling and learning: `trafficlight_task`, priority 9 | `USER/trafficlight.c`, `USER/main.c` 124-162 | `g_trafficlight[4][3]`, `g_online`, `g_online_num`, `g_study_ok`, `count`, `g_network_count` | `trafficLightInit`, then `Read`, `Study`, `study_once`, `Work` in a loop of 20 ms |
| reports, run by the server thread | `USER/trafficlight.c` 278-389 | `light_info`, `tcp_server_sendbuf` | `trafficLightStatus`, `send_trafficlight_info` |
| lamp inputs | `USER/drv_trafficlight.c` | none | `HC165D1_Read`, `HC165D2_Read` |
| TCP server: `tcp_server_thread1`, priority 6 | `LWIP/lwip_app/tcp_server/tcp_server.c` | two connection slots, subscriptions, `comm_send`, both buffers, `tcp_server_flag` | accept, send, receive, close, slot after slot |
| commands: `communication_task`, priority 10 | `USER/main.c` 164-177, `USER/rsu_parse.c` | `pack_num`, `pack_offset`, `g_send_light_info` | `rsuParse`: SETIP, GETINFO, RESET, UPGRADE_START, _PACK, _STOP |
| flash and boot | `USER/stmflash.c`, `USER/iap.c`, `USER/main.c` 52-103 | application area (sector 6 on), record `IPInfo` in sector 7 | erase, program, `iap_write_appbin`, `iap_load_app` |
| watchdog | `USER/IWDG.C` | its counter | `IWDG_Init`, `IWDG_Feed` |
| RS485 receiver | `SYSTEM/usart/usart.c` | `USART_RX_BUF`, `USART_RX_CNT` | interrupt, `RS485_Receive_Data` |
| memory pool | `MALLOC/malloc.c` | `memmap` | `mymalloc`, `myfree` |
| network start-up | `LWIP/lwip_app/lwip_comm`, `USER/main.c` 91-94 | eight buffers, the mailbox of `tcpip_thread` | `lwip_comm_init` and its retry loop |
| netconns | `lwip-1.4.1/src/api/api_lib.c`, `api_msg.c` | netconns, their semaphores, mailboxes and packets | new, listen, accept, recv, close, delete; `recv_tcp`, `err_tcp`, `accept_function` |
| `tcpip_thread`, priority 5 | `api/tcpip.c`, `core/timers.c` | the list of timers, `tcpip_tcp_timer_active` | fetch, handle, run a timer |
| lwIP port | `LWIP/arch/sys_arch.c` | mailboxes, semaphores | post, trypost, fetch, wait |
| kernel | `UCOSII/CORE` | queues, events, `OSTime` | `OSQPost`, `OSQPend`, `OSTimeTick` |
| Ethernet driver | `HARDWARE/ETHERNET/stm32f4x7_eth_bsp.c`, `netif/ethernetif.c` | descriptor ring | DMA, `ETH_IRQHandler`, `low_level_input` |
| third party | the rest of `UCOSII`, `LWIP/lwip-1.4.1`, `FWLIB`; `CORE`, `SYSTEM/delay`, `SYSTEM/sys` | | |

Not in the build: USMART, `HARDWARE/KEY`, `LCD`, `SRAM`, `HARDWARE/MALLOC` and
`lan8720.c`, an alternate of `stm32f4x7_eth_bsp.c`.

How the parts interact:

- A heartbeat (0xaa) subscribes its slot and sets `tcp_server_flag`; the next
  slot served with the flag set makes the reports, calling into the state of the
  sampling task, which it preempts. No lock protects any of it.
- Anything else a client sends stays in `tcp_server_recvbuf` until
  `communication_task` parses it. The handlers leave their reply in
  `tcp_server_sendbuf`, its length (in units of a light report) in
  `g_online_num`, and set the same flag.
- Commands rewrite the record in flash by read, erase, program. The sampling
  task does the same when it restarts the device after ten minutes without a
  heartbeat.
- The watchdog is fed by the sampling loop only, once it has left
  `trafficLightInit`.
- A frame goes from the DMA's ring through the interrupt and the mailbox of
  `tcpip_thread` to the mailbox of a connection, where the server thread finds
  it. The server thread's own calls go through the same mailbox of
  `tcpip_thread`, and it waits for each of them, so there is one at a time.
- Mailboxes are uC/OS-II queues whose storage comes from the memory pool; the
  kernel has as many events and queues as `os_cfg.h` fixes.

What is hard: tasks, interrupts and the DMA preempt each other between any two
statements; flags and buffers are shared; counters, periods and ticks wrap;
flash can be erased only by the sector; the host repeats messages; each pool
runs out on its own; a timeout races a post. `PROJECT.json` lists these hazards
line by line. What makes each part correct:

- sampling: periods and reports agree with the lamps; learning ends; learning
  once done is never lost; the two phase clocks agree;
- scan and loop: the list handed over is the last scan; the scan ends; the loop
  feeds the watchdog in time and a device that is left alone restarts;
- server: a subscription belongs to its connection; each connection has one slot
  until it is deleted; heartbeats are answered and failed connections closed, as
  far as the other slot lets them;
- upgrade: only whole images run, and the device and the host agree on what is
  written, until flash fails and nobody is told; settings survive; upgrades end;
- RS485: bytes that are there when a call begins are handed over, once and in
  order (of those that come during the call some are lost);
- pools: areas never overlap, nothing leaks, the fixed numbers are enough;
- queue: a FIFO mailbox; timers: each in the list once and due in its interval;
- input: a channel that may lose frames but neither repeats nor reorders them
  nor leaks their buffers nor stops.

## 2. Modules

| Module | Models | Extends |
|---|---|---|
| `TrafficLight` | sampling, learning, reports: the program alone | |
| `AnyJunction` | it beside a junction that shows anything at any sample | `TrafficLight` |
| `RegularJunction`, `MCRegular` | it beside a junction with fixed durations, so that what is learned and reported can be compared with the truth | `TrafficLight` |
| `OnlineScan` | the scan loop of `trafficLightInit` with the watchdog: actions and properties | |
| `MainLoop` | the task from reset to reset: the scan, then the loop with its counters, the feed, heartbeats and the restart | `OnlineScan` |
| `TcpServer`, `MCServer` | server thread, command task, clients and lwIP | |
| `Upgrade` | commands that write flash, boot, network restart, host | |
| `Rs485` | the receive interrupt and `RS485_Receive_Data` | |
| `MemPool` | `mymalloc`, `myfree`; implements `Heap` | |
| `Netconn`, `MCNetconn` | start-up and connections: all they allocate and free | `MemPool` |
| `OsQueue` | `OSQPost`, `OSQPend`, `OSTimeTick`; implements `Fifo` | |
| `TcpipThread`, `MCThread` | `sys_timeouts_mbox_fetch` and the timers | `OsQueue` |
| `EthInput`, `MCInput` | ring, interrupt, mailbox, `tcpip_thread`; implements `LossyChannel` | |
| `Heap`, `Fifo`, `LossyChannel` | abstract specifications: what a pool, a mailbox and a network interface promise | |
| `*_proofs` | theorems about the module of that name; `TrafficLight_proofs` about `AnyJunction` and `RegularJunction`, `Netconn_proofs` about `MemPool` too, `OsQueue_proofs` about `TcpipThread` too | what they are about |

**TrafficLight.** `light[i]` is the record `g_trafficlight[dir][to]` of the i-th
entry of `g_online`, less the fields that are written and never read. The loop
of `trafficlight_task` is the cycle `LoopTop`, `Read`, `Study`, `Work`; `pc` says
which call comes next, so that `Tick` (the OS clock) and `Report` (the server
thread) come between any two. Each call is one action: the server thread could
also preempt in the middle of one, and such a report sees a state that is, light
by light, one of those before and after. `LAG` bounds how late the sampling
task may be. The widths `U8` and `U32` are constants: the byte and tick wraps are
modelled. `study_num` saturates above its limit, where all values act alike.
What `RegularJunction` defines is named for it (`RegularSpec`), so that one
module can speak of both junctions. The module ends where an RSU command sets `g_send_light_info` to 0, after which
no report is made, and `g_online_num` to a reply's length.

**OnlineScan, MainLoop.** Places are numbered in the order of the scan. `memory`
is `g_online` and what lies behind it, because the scan can write there. `clock`
is the watchdog's, in samples. The increment of `g_network_count` is a load and
a store, so a heartbeat in between is lost. `reset_num` counts restarts modulo 2,
which is enough to see that there is another.

**TcpServer.** One action per outcome of a blocking call of the server thread, or
per stretch between two of them; the command task, of a lower priority, takes its
steps only while the server is blocked (`Blocked`). A command is abstracted to
its kind and its sender. lwIP is modelled as the thread sees it: the error that
ends a connection (`fin`, `rst`, `abrt`), what is dropped with it, and that an
error which wakes a blocked `netconn_recv` is seen as ERR_CLSD. The two slots, the
heartbeats of both clients and every failure are there together, and so the two
liveness properties have to say what one connection may do to the other:
`HeartbeatAnswered` that the report goes to a connection that did not ask for it
(`Starves`: `tcp_server.c` 95 clears the flag for both), `FailedIsClosed` that
connections of the other slot fail in turn (l.143 goes back to slot 0).

**Upgrade.** A block of flash holds a pack of an image, is blank, or is torn. A
`STMFLASH_Write` is three steps - erase, the words but the last, the last word -
between which power may fail or the sampling task may restart the device; in the
record the last word holds `update_flag`. Or it returns early, at an address that
is not a multiple of 4 (`Refuse`, `stmflash.c` 61) or because an erase or a word
fails (`Break`, l.74 and 82-85). It has no result, so `ReturnEarly` goes on to the
reply with the result 1 the pack had, and `pack_offset` moves on over a block that
was not written. `error` is the error flag of `FLASH->SR`: while it stands the
library (`stm32f4xx_flash.c`) neither erases nor programs, and nothing in the
program clears it, so all writes fail until the next reset. `skew` is
`pack_offset` modulo 4; `Rest` says what the lengths of packs may leave over. The two programs (IAP and
application) are built from the same source, so both execute all commands. The
host starts, sends each pack until it is accepted, stops; it may give up or
repeat itself. `HostStrays` is one that sends PACK and STOP when it likes, also to
the running application, which executes them (`rsu_parse.c` 286, 334). A
running application that is not whole may crash (`AppCrashes`). START and RESET wait a second, long enough for the server to send
the reply. Pack numbers do not wrap: an image has fewer than 256 packs. What may
go wrong in a behaviour is the variable `fault`, chosen at the start. `harm` is for
the properties: it says that a pack was acknowledged that is not in flash
(`"unwritten"`), that START was though the record still marks the old image
(`"kept"`), or that a host strayed. From then on the code guarantees nothing about
what runs, which `RunsWholeAlways` shows, and the properties say what holds until
then; `RunningImageKept` is claimed after `"unwritten"` too.
`SettingsKept` and `UpgradeEnds` are claimed where at most packs are damaged
(`Calm`). With a restart the settings may be lost: it may read the record while
it is erased.

**Rs485.** One step per access of the task to what the interrupt writes. The
count is not volatile and the wait between its two reads is commented out
(l.163), so a build may read it once: `Check` may find it unchanged though a
byte came.

**MemPool, Netconn.** The pool is its table. `mymalloc` takes the highest place
that fits, as the search from the end does. In the start-up each of the eight
allocations is a step; `Sizes` holds the builds to consider. Then every
netconn has a semaphore (an event) and a mailbox (an area, an event and a
queue). The server thread deletes a connection in steps (`Close`, `Drain`,
`Free`) between which `tcpip_thread` goes on. Where the code takes two
resources and gives back the first when the second is missing, with nobody able
to see it in between, that is one action. There are
no more packets than messages of a mailbox (20 and 20), so it is the end of a
connection, behind data, that finds the mailbox full.

**OsQueue.** The ring with `OSQIn`, `OSQOut` and `OSQEntries`; the reader runs,
waits, has its time up but has not run, or has returned. A post readies a
waiting reader with the message even if its time is up, as `OS_EventTaskRdy`
does.

**TcpipThread.** `list` is the list of timers, each with the time after the one
before; `Measured` is what `sys_arch_mbox_fetch` returns, with the width of the
tick counter and of the product. The three timers are those of TCP, IP
reassembly and ARP; a handler puts its own timer back, that of TCP while there
are connections. Messages open the first connection or close the last.

**EthInput.** One step per piece of the interrupt, between which only the DMA
acts; tasks act while it is out. A frame takes one to three packet buffers. The
interrupt clears its pending bit after its last look, so a frame that comes in
then waits for the interrupt of the next. The channel it implements (`OnTheWay`)
is what the thread has in hand, the mailbox without the call in it, the packet of
the interrupt, and the ring from `DMARxDescToGet` on.

## 3. Runs

| Run | Shows | Bounds |
|---|---|---|
| `any` | types, periods, end of the first study, one-way learning, agreement of the two phase clocks | 1 light, all pictures, bytes of 2 bits, a clock of 5 ticks, studies of 3 samples, a new study after 4 loops: the clock wraps, reports fall below zero and wrap, periods round to zero, studies are given up and restarted |
| `late` | learned periods are true to half a second and one jitter (the time between two samples), reports to two jitters too many or a second more too few | durations 6, 5, 4 ticks, 4 ticks a second, task 0 or 1 tick late, studies of 16 samples (some are given up) |
| `learn` | every light is learned, every study ends (liveness) | two sets of durations, from any point of the cycle |
| `scan` | the watchdog is fed in time; the list is that of the last scan; init ends and a silent device restarts (liveness) | 2 places, feed every 3 passes, the count of studies wraps at 4, restart above 5, passes 0 or 1 late, a watchdog of 10: it ends scans, never the loop |
| `server` | subscriptions and slots | 2 clients (symmetric), 2 slots, RS485, all failures |
| `clients` | heartbeats answered, failures closed, or what in the other slot keeps them from it (liveness) | 2 clients, 2 slots, all failures; heartbeats and quits |
| `upgrade` | until flash fails unseen or a host strays: only whole images run, flag and acknowledgements are true; the running image is left alone; upgrades end (liveness) and keep the settings | 2 packs, 2 images, packs of length 0 or 2 modulo 4; one of five sets of faults, any number of each: power, restarts, loss, damage and repetition; damage alone; power, restarts and flash that fails; odd lengths and loss; stray hosts |
| `network` | the pool is a heap; nothing leaks; the kernel's objects are enough; a failed start never succeeds later | 14 blocks, a build that fits and one that does not, 2 failed starts, 4 netconns, the 7 events and 5 queues the kernel leaves, 3 packets |
| `thread` | timers in the list once and due in their interval; the queue is a FIFO; timers run (liveness) | a queue of 2, 3 timers, a tick counter of 7, 2 ms a tick |
| `input` | nothing leaks; the mailbox has room; frames neither reordered nor repeated; the ring drains (liveness) | 3 descriptors, 4 packet buffers, frames of 1 and more, 2 input messages, a mailbox of 4, 1 frame while the interrupt ends |
| `rs485` | what is copied came first, once and in order; what is there when a call begins is handed over (liveness) | a buffer of 3, 2 values |
| `wait_time` | violated: a message within the tick counts as a wait of a round of the counter (`sys_arch.c` 138) | those of `thread` |

The last one shows a disagreement of the code with `core/timers.c` 468: a
message that comes within the tick in which the wait began makes the first timer
due at once. It does not disturb what `thread` shows: timers come early, never late.

Why the bounds are enough: lights do not influence each other except through
the early return of the read, which skips a light: an empty picture does the
same to one light but for `status`, and the theorems hold for any number;
connections meet only in the two slots, the flags and the pools, so two clients
exercise every pairing, and the kernel's own numbers are those of `os_cfg.h`;
the upgrade treats all packs but the first alike, so that two of them show each
case, and the theorems hold for any number; the sets of faults keep the number of
states small, and the theorems hold for all of them together. `upgrade` takes
images that fit flash sector 6 (`SECTOR6 >= IMAGE`); a longer image shares a
sector with the record and is erased when the record is written. Queues, rings
and buffers are long enough to wrap, fill and run empty. `MainLoop`'s restart
limit is above the wrap of the count of studies as in the code, where both are
30000. `network` may stop (deadlock check off) when the tries of the start-up
are used up, or in a state in which the server thread waits for a client that
never comes.

### Fairness

`RegularJunction`: weak fairness of each step of the sampling task, which is
ready after each delay and alone at its priority, and of the clock.
`MainLoop`: weak fairness of the task's steps, among them the watchdog, which
runs on its own oscillator. `TcpServer`: weak fairness of the server thread,
whose waits end after 10 ms, and strong fairness of the command task, which needs
only a moment of the server's waits. A client that has sent a heartbeat sends the next
one while its connection lasts (`Beats`), since the device restarts without them;
nothing else is assumed of clients. `Upgrade`:
the command task runs; the host continues what it began; a pack sent again and
again arrives intact at last. The host may give up at any time, and then nothing
is claimed. `Rs485`: the command task runs, for the tasks above it block.
`TcpipThread`: the thread, the highest task, and the tick. `EthInput`: the
interrupt, the thread, and the arrival of frames, since ARP requests and
retransmissions keep coming; without them the last frame waits (`Clear`).

### Faulty variants

Operators whose names end in `Fault` (and `StudyOnceErases`, `CloseSlotLeaks`,
`ConfiguredKeepsFlag`, `ConfiguredForgetsIp`, `AcceptedLate`) are variants of the
operator below them with a plausible mistake. No specification uses them. Put in
place of the original, each makes a property of the runs fail; `PROJECT.json`
pairs them.

### Observations

TLC also refutes the following properties, defined in the modules and kept out
of the runs; a run with the constants of its neighbour reproduces each.

- `ErrorNumCounts` (`AnyJunction`): `error_num` does not count, for `trafficLightRead`
  clears it at every sample (l.96), so the reset of l.99 is dead code.
- `AlwaysOnReports255` (`AnyJunction`): the mark of an always-on light is
  overwritten at the next sample (l.112).
- `OnlyBadLightDropped` (`AnyJunction`, two lights): a light with two lamps lit
  keeps the lights after it from being sampled (l.109).
- `ReportKeepsStudy` (`AnyJunction`): a report of an unknown lamp writes behind
  `last_seconds[3]`, into `study_flag` (l.304).
- `ReportTrueAlways` (`RegularJunction`, constants of `late`): a report between
  the read and `trafficLightWork` pairs the new lamp with the old start (l.303).
- `LastScansAgree`, `WithinGOnline` (`OnlineScan`): from the second round on the
  first scan of a round is added to the second of the round before (l.145), and
  its places go behind those, beyond `g_online` if many lights show (l.27).
- `HeartbeatAlwaysAnswered` (`TcpServer`, constants of `clients`): a connection
  without a subscription consumes the flag the other slot raised (`tcp_server.c`
  95), again and again.
- `CommandAnswered`, `OnlineNumIsLights` (`TcpServer`): a command can be lost in
  the buffer or its reply with the flag; `g_online_num` stays at a reply's length.
- `FailedAlwaysClosed` (`TcpServer`, constants of `clients`): an aborted connection
  keeps its slot (`tcp_server.c` 133); and with failures `fin` alone, connections
  that come and fail in slot 0 keep the server from a failed one in slot 1 (l.143).
- `RunsWholeAlways` (`Upgrade`, fault `flash`, `odd` or `stray` alone):
  `working_upgrade` replies 1 whatever became of the write (`rsu_parse.c` 160,
  186), and STOP sets `update_flag` over an image with a hole; PACK and STOP are
  executed by the running application (l.286).
- `NoHole` (`Upgrade`, fault `odd`, 3 packs): after a pack of odd length the next is
  left out (`stmflash.c` 61), and the one with which the lengths add up to words
  again is written, so the hole may lie anywhere behind the first pack.
- `IllegalNotWritten` (`Upgrade`, an image outside `LegalImage`): a first pack
  found illegal is written all the same (`rsu_parse.c` 309).
- `ReplyBeforeReset` (`Upgrade`): STOP resets before its reply is sent
  (`rsu_parse.c` 232).
- `ValidUnlessDeleted` (`Netconn`): `sys_mbox_valid` calls a full mailbox invalid
  (`sys_arch.c` 162); `netconn_recv` then answers ERR_CONN (`api_lib.c` 354) and
  `netconn_drain` passes the mailbox over (`api_msg.c` 692), which never comes
  back: the sets `left` of `NothingElseLeaks`.
- `OnlyReceivedHanded` (`Rs485`): `len` counts bytes that came after the check and
  were not copied; in their place the buffer ends in what an earlier call left
  (`usart.c` 170).
- `StoredIsHanded` (`Rs485`): bytes that come between the copy and the reset of the
  count (l.171) are never handed over.

## 4. Proofs

| Theorem | For all |
|---|---|
| `TrafficLight_proofs`: `TypeCorrect`, `StudiedIsReportedAlways`, `FirstStudyIsComplete`, `LearnedIsForGood`, `PhaseClocksAlwaysAgree` | numbers of lights, widths and bounds of `ConstantsAssumption`, junctions that show anything |
| `RegularIsAny` | the same, beside a regular junction: all of the above holds there |
| `PeriodsAreTrue`; `CountingAlwaysHasPeriods`; `ReportsAreTrueAtRest` | lights, durations and lateness with `Measurable`; with `LongEnough` too; with `ShortOverrun` as well |
| `MainLoop_proofs`: `LoopTypeCorrect`, `LoopFeedsInTime`, `LastScanIsListed` | places, feeding periods, limits, lateness and watchdogs with `SCAN + FEED * (1 + LATE) < WDOG` (`LoopAssumption`) |
| `TcpServer_proofs`: `ServerTypeCorrect`, `SubscriptionIsAlwaysOwn`, `EachServedOnce` | clients, slots and failures |
| `Upgrade_proofs`: `TypeCorrect`, `WholeImageRuns`, `FlagIsTrue`, `CountedIsWritten`, `RunningImageStays`, `SettingsAreKept` | images, settings, sets of faults, lengths of packs, and of images with `IMAGE <= SECTOR6` (`ImageFits`) |
| `Rs485_proofs`: `ReceiverTypeCorrect`, `HandsAsReceived`, `QuietCallIsExact` | buffers and bytes |
| `Netconn_proofs`: `PoolTypeCorrect`, `PoolIsHeap` | sizes of the pool |
| `NetconnTypeCorrect`, `NetworkUsesHeap`, `FailedStartNeverRecovers`, `NothingElseEverLeaks`; `AlwaysRoomForSlots` | builds, netconns, slots and kernel objects; with `EnoughForSlots` |
| `OsQueue_proofs`: `QueueTypeCorrect`, `QueueIsMailbox` | queue sizes, messages, timeouts and widths |
| `ThreadQueueIsMailbox`, `TimersAlwaysScheduled`, `TimersDueWithinInterval` | the same, and intervals |
| `EthInput_proofs`: `MailboxAlwaysHasRoom`, `NothingEverLeaks`, `InputIsChannel` | frames, rings and pools with `INPKT + 1 < MBOX` (`InputAssumption`) |

These are all the invariants and action properties of the passing runs, and the
three refinements. Induction over data is needed in several places (sums over a
mailbox, over the list of timers, ranks in a scan). The induction theorems of the
library take an operator, which the provers cannot instantiate, so a fact about
all numbers is proved by its least counterexample (`LeastNumber`).

**AnyJunction.** `StudiedIsReported` is not inductive: the reset in
`trafficLightRead` (l.99-108) clears the reported periods and leaves the studied
ones. The reset needs `error_num = 2`, and the read sets `status` to 1 before it
tests it, so `error_num` stays 0. The inductive invariant is
`IInv == TypeOK /\ ErrorNumZero /\ StudiedIsReported`. It speaks of each light by
itself (`Sound(g)`), so the proof has one lemma per function of the code about
one light (`OneLitKept`, `ManyLitKept`, `StudyOneForward`, ...), each built from
`AssignSound`, one assignment to one field; `ReadKept` lifts the read, with its
early return, to all lights; `StepForward` has one case per action. The
same lemmas say how `start_study_flag` may change (`Forward`), which gives the
two action properties.

`PhaseClocksAgree` compares two clocks that two different functions set, in
different calls: between `Study` and `Work` one of them is ahead. `PhaseInv` says,
light by light, what holds at each point of the loop: at rest the clocks agree
(`Agree`); after `Study` they agree or `Work` is about to set the one that does
not (`Pending`); and what is `Known` of a light follows from its flags.

**RegularJunction.** `RegularInv` relates the clocks of a light to the
junction: the lamp that is lit, and since when, is seen at most a jitter late
(`InSight`, `InTime`); the clock of the study and that of the countdown began
within a jitter of the phase they measure (`StudyClock`, `CountClock`); what is
learned is `Near` the truth (`PeriodsMeasured`). A period is
learned from two such clocks, hence half a second and one jitter of
error; a report adds one of its own. The proof corrected two statements: the task
starts with a delay (`timer = DELAY`, as the loop ends with one), and in a report
that is too long two jitters may add up, that of the period and that of its
start, where the statement had allowed for one. Three hypotheses are named where they are
needed. `Measurable`: a duration with its jitter fits the tick counter and the
byte of seconds. `LongEnough`: a lamp is lit long enough not to round to zero
seconds. `ShortOverrun`: `DISCARD < U8 - 1`, and a countdown that overruns by a
jitter, and so wraps, still lies above `DISCARD`. In the program (bytes, 100
ticks a second, `DISCARD` 200) they say that a lamp is lit between half a second
and four minutes, less a jitter, and that the task is never late by
most of a minute. The constants of `late` satisfy all three.

**MainLoop.** `FedInTime` needs to know how long ago the last feed was:
`FedRecently` bounds the watchdog's clock by the passes since then,
`count % FEED`, each of at most `1 + LATE` samples. The sample at which `count`
starts again from zero is a feed too, so the passes never grow past `FEED`.
Products are
kept in `Bound(k)` with lemmas of its own (`BoundMonotone`, `BoundFits`).
`ListsLastScan` says that the list holds each place found once and in order: the
place found next is written behind those before it, at its `Rank`, the number of
smaller places found (`RankGrows`, `RankIsOnto`).

**TcpServer.** The three properties need each other. A subscription is cleared
where the server closes a slot, but between the failure of a connection and that
close anything may come; `OwnSlots` says which connection a slot belongs to
then, `AtSlot` that the server goes past `netconn_accept` just when the slot it is
at is taken, `Queued` that a client waits once and is in no slot meanwhile, and
`InHand` that the command task has a command while it changes what the server
reads.

**MemPool.** The refinement maps an area to its first block and its entry in the
table. The invariant adds to the types that every block of an area holds the
area's length (`Uniform`) and that areas lie apart (`Apart`): the free run that
`mymalloc` finds then contains no live pointer (`FreshArea`), and what `myfree`
clears is one area. `GivesArea` and `TakesBackArea` show that a call is a step of `Heap`.

**Netconn.** `PoolSpec` frees only pointers that were given out. That the network
keeps to that is `NetworkUsesHeap`, and most of the invariant `NInv` is about
it. `Net` has the types and, for the states of netconns and of the server,
what belongs to each. `StartInv` follows the start-up: it takes areas
from the top down, in order; when one is missing the code frees all of its
own part, of which some pointers are 0 and none is of somebody else; a part that
was complete stays. So the next try finds no more than this one (`StartFits`),
and the eight buffers either fit at the first try or never: this is
`FailedStartNeverRecovers`. `Boxes` (`Own`): once the tasks run, the live areas are
the eight buffers and the mailboxes, each of which has one owner, so that no
mailbox is freed twice. On it rests the count of events, queues and packets
(`Counts`), hence `NothingElseEverLeaks`: only what a full mailbox made the code
forget (`left`) is lost.

`AlwaysRoomForSlots` needs that the pool does not fragment. All
mailboxes have one size, so they lie on a `Grid` of cells below the buffers,
and while fewer of them live than there are cells one cell is free (`FreeCell`,
by the pigeonhole principle). Its hypothesis `EnoughForSlots` counts, for two
slots: three netconns, seven events (one semaphore and one mailbox for each
connection, the listening one too, and the mailbox of `tcpip_thread`), four
queues and four mailboxes in the pool. The kernel of `os_cfg.h` leaves exactly seven
events: one more slot would not be safe.

**OsQueue.** The refinement reads the ring from `OSQOut` on. The invariant adds to
the types that the two indices and the number of entries agree, that a reader in
the wait list means an empty queue, and that only a reader that returned has a
message; with that a post to a waiting reader cannot overtake a message.

**TcpipThread.** `TInv` adds to it that the list holds only
numbers and each timer at most once (`Sound`: `Due`, `Once`), that of IP and that of ARP
always, and that of TCP just when `tcpip_tcp_timer_active` says so. That a timer
is due in its interval is about sums of a prefix of the list (`Left`):
`sys_timeout` puts a timer where the sum before it is smaller and shortens the
next one, so no other timer moves (`TimeoutInserts`, `TimeoutWhere`).
`ThreadQueueIsMailbox` says that the thread, which computes its own timeouts, is
a reader as `QSpec` describes it.

**EthInput.** The mailbox holds frames, one for each input message that is not
free, and calls, of which the server thread has at most one (`OneCall`).
`Accounted` adds up mailbox, hand and free messages; with `InputAssumption` what
is in the mailbox is less than it holds. `NothingLeaks` adds up the packet buffers
of a sequence of messages; `HeldAppended` and `HeldTail` say what a post and
a fetch do to that sum. `InputIsChannel` is the refinement, step by step: a frame that
arrives is appended, one for which a buffer or a message is missing is lost,
`ethernet_input` delivers, and every other step moves a frame from one part of
the channel to the next or does nothing. The ring is what needs an invariant
(`CInv`): counted from `DMARxDescToGet`, modulo its length, the
descriptors are first those with a frame to be looked at, then those of the
DMA, which is at the first of them, and last, while it is copied, the one in
the hands of the interrupt; so a full ring and an empty one, where both indices
are equal, are told apart by what the descriptors hold. In the mailbox there is
at most one call (`OneCall`), so taking it out leaves the frames in their order
(`FramesWith`, `FramesFetched`).

**Rs485.** `HandedAsReceived` speaks of what the task hands over, and the interrupt
may store a byte between the steps of the copy and clear the count. `Stored`: the
buffer holds the bytes that are due, as many as `USART_RX_CNT` says; `Calling`: the
task copies the first of these, no more than have come, whichever of its two
reads of the count it uses. The theorem covers the `rxlen` bytes that were copied;
of the `len - rxlen` that may follow them it only says that as many came. That
there are none if the interrupt stays away from the copy to the clearing is
`QuietCallIsExact`.

**Upgrade.** An image becomes whole pack by pack, long before the flag says so,
while the device may reset and the host repeat itself at any step, so the
invariant has to follow it all the way. It has three parts, for what remains true
as more goes wrong. `TypeOK`, `StepOK` and `Numbers` hold always: `pack_num` and
`pack_offset` count in step and stay in the image, whatever fails and whoever
sends. `Orderly` holds while `harm` is at most `"unwritten"`: while the host sends
packs, or one is on its way or being written, the record does not say 1, nor does
the record that a restart is about to write back, and it is the IAP that runs
(`Upgrading`); and the host has counted no more packs than the device, or has
counted them before a reset, after which the device expects pack 1 and refuses
what the host sends (`Counted`). `Built` holds while there is no harm: the image is
written from its first block on, just as far as the two have counted (`NoHole`,
`Written`, `Ahead`, `Sent`). With these, a host that sends STOP has the image in
flash, and `ImageOK` carries it on through STOP, the flag and the boot: whatever is
`Committed` to run is whole and not being written. `RunningImageStays` needs only
`Orderly`, so it holds after packs that did not reach flash as well. There is one
lemma per action. `SettingsInv` says where the settings are while nothing but
packs may fail: in the record, or, from the read before an erase until the last
word is written, in what the command holds. `ImageFits` is needed where the record
is erased: the erase takes what an image has in sector 7 with it
(`SECTOR6 < IMAGE` breaks `RunsWholeImage`).

Only model-checked: liveness, which the prover does not reach
(`EventuallyLearned`, `StudiesEnd`, `SettledIsDone`, `SilenceRestarts`,
`HeartbeatAnswered`, `FailedIsClosed`, `UpgradeEnds`, `TimersRun`,
`RingDrains`, `EventuallyHanded`).

## 5. Not modelled

Formats, checksums and texts of frames (a pack is intact or not), the LED, the
GPIO protocol of the shift registers, DHCP, serial output, the transmission of
frames, and the parts listed as not modelled in `PROJECT.json`. The stack of
`communication_task` is created with the size of another task's stack (`main.c`
118): memory layout is outside these models. Undefined accesses - a write through
`newconn[-1]` or a deleted netconn, `last_seconds[3]` - are modelled by what the
build does with them where that is known, and as reaching nobody where it is not.

Simplified: a client of `TcpServer` has one message on its way at a time. In
`Netconn` the server stops at a `do_listen` that finds no memory; the code closes
the new pcb, reports ERR_MEM (`api_msg.c` 1098), which the server thread ignores,
and accepts nobody.
`sys_mbox_new` is one step that fails or succeeds, while the code clears the area
before it tests it for NULL (`sys_arch.c` 59-75). Frames the MAC marks as bad do not
reach `EthInput`: the configuration has the MAC drop them. An `Upgrade` in which
flash fails fails for all kinds of write alike; words that are programmed wrongly
without an error are not modelled, nor is an erase that fails half-way: the
sector then keeps what it held.

Most of the repository is unmodified third-party code: the ST peripheral library
(register access without state), lwIP (of which SNMP, PPP, IPv6, sockets and DNS
are not compiled in), uC/OS-II, and drivers for an LCD and keys that are not in
the build. The models take from it what this program's own behaviour depends on:
mailboxes, timers, netconns, the receive path. A model of TCP itself would be one
of lwIP, not of this program.

## 6. Plan

1. Sampling, scan, server, upgrade; first theorems (done).
2. Loop counters, RS485, memory pool, netconns, queue, timers, Ethernet input;
   the abstract specifications `Heap`, `Fifo`, `LossyChannel` (done).
3. Every invariant and action property of the runs proved for all constants,
   with the refinements of `Heap` (by the pool and by the network that uses it),
   `Fifo` (by the queue and by the thread that uses it) and `LossyChannel` (done).
4. An abstract upgrade (one atomic switch of images) refined by `Upgrade`; the
   properties that are claimed under `Calm` as far as other faults allow; the
   transmit side of the Ethernet driver; semaphore waits.
