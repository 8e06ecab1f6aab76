# SeptemberOS (virgoos) in TLA+

A verification development kept beside the kernel and runtime under
`virgoos/src`: TLA+ models of its components, TLC configurations that check
them on small instances, and TLAPS proofs of the results that matter most.
Paths below are relative to `virgoos/src`.

## 1. The system

SeptemberOS is a single-address-space real-time system: one image holds the
kernel, the drivers, the network stack, the file systems, the C library and the
application. There is one CPU; concurrency comes from interrupts and from
task switches. A handler runs to completion on the stack of the task it
interrupted, a task switch asked for by a handler waits for the end of the
interrupt.

| component | source | state | operations | what is hard |
|---|---|---|---|---|
| task manager | `base/taskman.c` | `task_q[level][ready/waiting]` (rings of `TASK_Q`), `running_task`, `pending_reschedule(_priority)` | start, end, terminate, nap, wake, yield, set priority/options, timer slice, reschedule | calls from handlers; deferred switches; rings with special cases for one and two members |
| interrupt dispatch | `base/sosbasic.c` | `running_irq`, callback lists | `call_int_callbacks`, `set_int_callback`, boot | end of interrupt performs what handlers deferred |
| task switch | `arch/*/tasks-arch.c` | `in_task_switch`, saved registers | `switch_task`, `switch_to` | interrupts stay on while it runs |
| dynamic memory | `base/memman.c` | one chain of blocks with size, flags, previous size | malloc, calloc, free, realloc | split and merge keep two redundant links |
| timers | `base/timers.c`, `include/queues.h` | sorted list of timers, tick counter | install, remove, tick | callbacks change the list while it is walked |
| events, sleep | `base/taskman.c` | event masks, selector queue | wait, send, sleep | test-then-sleep against handlers |
| ethernet, ARP, IP, ICMP | `network/{ethernet,arp,ip,icmp}.c` | address tables, the send buffer and its lock, packet ids | learn, find, discover, send, fragment, answer an echo | lock handed from call to call; replies arrive in handlers; sums and carries |
| TCP, UDP, sockets | `network/{tcp,udp,socket}.c` | socket table, connection state, retransmission list | connect, accept, send, recv, close; segments and timer callbacks | lost and repeated segments, timers against handlers |
| DHCP client | `network/dhcp.c` | state of each interface, list of messages and timers | discover, parse an answer, send again | several servers, late answers |
| descriptors, select | `posix/io.c`, `base/devman.c` | file table, shared structures, selectors | open, dup, read, write, close, select | failures half-way; readiness against waiting |
| processes, threads | `posix/{exec,pthread}.c` | process records, signal queues, threads | exec, exit, wait, kill, thread calls | exit against wait |
| file systems | `fs/{ext2,fat}.c` | bitmaps, inodes, cluster chains, on disk and cached | create, write, truncate, unlink | several writes per operation |
| drivers | `drivers/**` | ring buffers, descriptor rings, device registers | handlers, read, write | producer in a handler, consumer in a task |
| C library | `libc/libc.c` | `FILE` structures with a buffer and two positions, one `struct tm` | strings, formats, streams, calendar | one buffer for reads and writes; C's corner cases |
| platform, samples | `arch`, `samples` | system time, clock chip | read the clock | a chip that runs on while it is read |

How they interact. Drivers' handlers run under `call_int_callbacks` and call
`wake()`; the timer handler walks the timer list and calls back into the task
manager (time slices), `sleep()` and TCP (retransmission). The network
handlers parse frames inside the interrupt, change sockets, and wake tasks or
post select events. Everything allocates with `malloc()`. No component has
locks of its own worth the name: `lock_mutex` is empty on ARM and MIPS, and
`disable_preemption()` (`base/taskman.c:605`) computes a comparison and changes
nothing.

What makes each component correct:

- task manager: a task is on one queue; the caller of nap, terminate and
  set_running_task_priority is the head those calls dequeue; the best ready task
  runs; no reschedule is lost; equals get their turn; wait queues are sorted.
- memory: allocated blocks are disjoint and inside the pool; freeing everything
  gives one block again.
- timers: each installed timer counts once per tick; a periodic timer fires
  once per period; nothing touches freed timers.
- events: no task sleeps while its event is posted.
- address tables: what was learnt is found, at most one entry per address.
- send path: one user of the buffer at a time, and the lock is always released.
- TCP: data is delivered once and in order, nothing unacknowledged is forgotten,
  a socket both sides finished is freed.
- datagrams, DHCP: a datagram comes whole or not at all; an interface has the
  settings of one server.
- network drivers: frames are parsed and sent once, whole and in order.
- descriptors: a descriptor in use is never handed out; select returns only
  ready ones and does not sleep on a ready one.
- file systems, disk, streams: what is read is what was written; a block is owned
  once and marked used; chains end.
- serial lines, keyboard: bytes come out once and in order, no reader sleeps over
  one.
- processes, threads: a waiter gets its child's end; nothing is left behind.
- C library: a call gives what the C standard says.

## 2. Modules

| module | kind | models |
|---|---|---|
| `PrioSched` | abstract specification | what a priority scheduler promises, without queues |
| `Taskman` | component | `base/taskman.c` and the end of interrupt of `base/sosbasic.c`, queues as sequences |
| `TaskRing` | component, composed with `Taskman` | the same queues as rings of `next` and `prev` links |
| `ListLemmas` | proofs | what removing from, inserting into and appending to a sequence gives |
| `TaskmanProofs` | proofs | type correctness and five safety invariants of `Taskman`, who is woken, and that it implements `PrioSched` |
| `RingProofs` | proofs, on `TaskmanProofs` | the links of `TaskRing` implement the sequences |
| `Memman` | component | `base/memman.c`: the chain of block headers |
| `MemmanProofs` | proofs | six theorems about `Memman` |
| `Timers` | component | `base/timers.c`, the list of `include/queues.h`, `sleep()` |
| `TimersProofs` | proofs | four theorems about `Timers` |
| `AddrTable` | operators | the two address tables: `add_arp_entry`, `find_arp_entry` and their Ethernet twins |
| `Ethernet` | component, on `AddrTable` | receiving, answering, discovery and sending through one interface |
| `EthernetProofs` | proofs | lemmas about `AddrTable`, seven theorems about `Ethernet` |
| `Switch` | component | `nap()`, `wake()`, the task switch of `arch/arm/mach-versatile/tasks-arch.c`, step by step |
| `SwitchProofs` | proofs | three theorems about `Switch` |
| `Tcp` | component | `network/tcp.c` and the TCP calls of `network/socket.c` |
| `Udp` | component | `network/udp.c`, datagram sockets and socket options |
| `Dhcp` | component | `network/dhcp.c` |
| `Ip` | component | packets of `network/ip.c` and `network/icmp.c`: headers, checksums, interfaces |
| `Am79970`, `I8255x`, `Emac`, `Smsc` | components | four network drivers and their controllers |
| `Am79970Proofs` | proofs | three theorems about `Am79970` |
| `Ext2`, `Fat` | components | `fs/ext2.c`, `fs/fat.c` |
| `Ide` | component | `drivers/bus/ide/ide.c` |
| `Io` | component | descriptors: `posix/io.c`, `base/devman.c` |
| `Select` | component | `select()`, and the selectors and event sets of `base/taskman.c` |
| `Exec`, `Threads` | components | `posix/exec.c`; `posix/pthread.c` and `sleep()` |
| `Serial`, `Keyboard`, `Terminal` | components | `drivers/{serial,keyboard,terminal}` |
| `Stdio` | component | the streams of `libc/libc.c`, `copy_file()` |
| `Strings`, `Format`, `Scan` | algorithms | strings, number conversions, `scanf` and dotted addresses, each call against the C standard |
| `Calendar` | component | the PC's clock chip, `mktime()`, `localtime()` |
| `MCTaskman`, `MCTaskRing`, `MCMemman`, `MCTimers`, `MCEthernet`, `MCNetwork`, `MCDevices` | model checking | the instances of the runs |

Where a module has a constant `Careful` (or `InversionFree`, or a field
`careful`), the code relies on its callers for something, and the module says
in its heading exactly what. The run for careful callers shows what holds then;
the run for any callers, or the finding it carries, shows why care is needed.
Definitions marked "mutant" are changed forms of a definition, kept to show
that a property notices the change; no specification uses them.

### Taskman and PrioSched

A queue is the sequence of its tasks from the head on. Every call of the task
manager is one action: it includes the `reschedule()` at its end and, when no
interrupt is being handled, the switch. What an action does follows the code's
order: dequeue, enqueue, compare priorities, reschedule from a bound.

- `StartTask` is `start_task`/`start_task_ex`, from a task or a handler;
  `Terminate`, `EndTask`, `SetRunningTaskPriority`, `SetTaskPriority`,
  `SetTaskOptions`, `Nap` (and `yield`) and `Wake` are the calls of their names.
- `IrqEnter`, `TimerHandler` and `IrqExit` are `call_int_callbacks`: between the
  first and the last any handler may call `StartTask` and `Wake` any number of
  times.
- `Reschedule(bound)` is `reschedule()`: deferred while `running_irq`, else a
  scan of the ready queues from `bound` on.
- `fault` is set where the code goes on with something that is no queue any
  more: the dequeue of a task linked to itself (`base/taskman.c:303`), a nap in
  front of the only waiter (`:180`), an enqueue through the NULL
  `parent_queue_head` of a waiting task (`:528`). Nothing happens afterwards in
  `Taskman`; `TaskRing` takes the faulty step on the links.
- `irqs_off` holds the tasks that run with interrupts disabled: `end_task()`
  reads the interrupt state after disabling interrupts (`:463`) and so leaves
  its caller that way.

Two conditions on callers are assumed. Calls are atomic towards interrupts
(`Switch` looks into them). With `InversionFree`, no caller raises a ready task
past other tasks to a priority still worse than the running one's; without it,
the run `taskman_inversion` shows what `set_task_priority()` does.

`PrioSched` knows only which tasks are ready and which one runs; `Taskman`
implements it with the refinement mapping of `SchedSpec`. It lets a time slice
pass the CPU from a task that shares its time to any equal, as the code does.
The comment at `base/taskman.c:25-30` promises less: time sharing would be
masked while an equal without that option is runnable. `SharingMasked` states
it, and `taskman_mixed` shows that the code does not keep it.

### TaskRing

`rings` is what the code keeps: head pointers, `next`, `prev`,
`parent_queue_head` and the `MIXEDPRIO` flag. Each action is the action of
`Taskman` together with the link operations its calls perform (`Enqueue`,
`Dequeue`, `DeleteTask`, `Rotate`), so the two can be compared state by state:
`RingsMatch` says that walking the links gives the sequence.

### Memman

Memory is counted in units of `BLOCK_ALIGN` bytes. `hdr` holds what lies in
each unit, a header (possibly stale) or client data, so that a header the code
reads from the wrong place reads whatever is there. `Malloc`, `Free`, and
`Shrink`, `Grow` and `Move` (the three ways of `realloc()`) are the calls with
their splits and merges, calls being atomic; `held` is what clients asked for.
`fault` is set when client data is taken for a header. `Chain` is where the
walk of `malloc()` comes by. `Data`, a unit of client data, is assumed to be no
header, so that the model can tell which of the two the code reads.

A careful client never makes `malloc()` split a block that is not the last,
never frees a block into a free block before it unless nothing follows, and
never grows a block to one unit less than the room there is. The code's own
comment recommends fixed sizes; `memman_any_client` shows that a fixed size is
not care enough.

### Timers

`list` is the timer list; `timer_isr()` walks it with one node per step
(`CountDown`, or `Expire` then `Callback`), since its callbacks unlink and put
back the nodes it stands on. `SortedInsert` is `list_sorted_insert()`, which
stops before the first node that does not compare less (`InsertPos`), and
`Without` is `list_delete()`. `after` is the `next` pointer of a node that was
unlinked, which the walk reads once more. `age` is a history variable. `latch`
wraps at `LatchMax`. Tasks install and remove timers only between ticks, with
interrupts off, as the code does.

`sleep()` is two steps, with ticks between them: `Sleep` installs the timer,
`Nap` puts the task to sleep on `waitq`, the queue in the memory that `malloc()`
gave. The code never sets that word (`base/taskman.c:726`), so `Sleep` leaves in
it whatever was there (`Leftovers`), `Nap` joins the ring of a head it finds,
and `WakeHead`, the timer's callback, wakes that head and not the sleeper.

A careful owner never installs a timer with a timeout of 0, nor a periodic
timer together with another one of its timeout: an expired periodic timer is
put back before its equals, the walk goes on behind it, and the equals are
counted down again in the same tick. The memory of his `sleep()` is zero, and
he comes to his nap before the time he asked for has passed. Without the last
two `NoSleeperForgotten` and `SleepEnds` fail.

### AddrTable and Ethernet

`AddrTable` is a table with open addressing and without wrap-around or removal:
a search goes from the slot of the hash (`Home`) to the end of the table. Both
address tables are such tables. In the ARP table the address 0.0.0.0 is also
the mark of a free slot, as in the code; it can be "learnt" by a frame that
carries it.

In `Ethernet` a received frame is one step (`ArpRequest`, `ArpReply`,
`IpPacket`), handlers running with interrupts off; it includes what is learnt
and what is answered. A task's send call is split wherever an interrupt or a
task switch may come: `Resolve`, `Discover`, `SendRequest`, `Discovered`,
`TestLock`, `SetLock`, `Fragment`, `Fill`, `FindPeer`, `Transmit`. The wait in
`arp_discover()` ends with any reply or its timeout, that is at any time. A
long datagram goes back from `Transmit` to `Fragment`: its size is never
decreased (`ip.c:215`), and its second frame fails because `eth_send_packet()`
has released the lock. Of the caller's own data only the fragment number and
the peer are kept.

At any request the driver may be out of buffers (`NoBuffer`,
`am79970.c:251-257`). `eth_get_send_packet()` has set the lock by then
(`ethernet.c:148`), and its caller returns with `EBUSY`: the lock stays set for
ever, and nothing is sent any more. `arp_discover()` and the fragments do not
look, and write to address 0. All runs of `Ethernet` contain this. The history
variable `dry` tells that it has happened, and `LockHasHolder` and
`PacketReady` speak of the time before; `SendEnds` speaks of all times, except
of a long datagram after it.

A careful caller sends to a peer that ARP does not know only with UDP (which
asks for the peer before it takes the lock), and does that and sends long
datagrams only while no other task sends; no task switch falls between the test
and the setting of the lock; and received addresses do not push a peer in use
out of a full table. That a sender still finds its peer in the slot it looked up
is thereby assumed, not shown.

### Switch

The calls of `Taskman` split at the points where interrupts are on: `nap()`
dequeues, enqueues and reschedules (`NapDequeue`, `NapEnqueue`, `Reschedule`),
`wake()` by a task likewise, `switch_task()` tests and sets `in_task_switch`,
saves, and `switch_to()` restores (`SwitchTask` to `LoadContext`). `cpu` is the
context the processor is in, `saved` the context of each task: a step of these
calls, with the task the step is about. `IrqWake` and `SliceEnds` are whole
interrupts, at any point.

`Harmless` says exactly where a handler may wake whom. Elsewhere a task is
switched from while it is on no queue, goes on later with a choice made before
it slept, has its context overwritten between the clearing of `in_task_switch`
and the load, or a better task's switch is dropped.

### Tcp

`sock` is `psockets`, `fds` the descriptors of sockets, `rtx` the
retransmission list with the tries left. `Deliver` is `parse_tcp()` of one
segment that was ever sent to the host (so that segments are repeated,
overtaken and lost); `Retransmit` is the callback of one timer; `Accept`,
`Connect`, `Recv`, `Send`, `ShutdownCall` and `Close` are the calls, with
`RecvMove` and `SendMore` the parts of `recv()` and of a long `send()` that run
with interrupts on. The peers (`PeerStep`) follow the protocol. A byte is its
sequence number; the window and its bitmap are kept bit by bit, with `ByteBits`
bits in a byte, because the shift by whole bytes and by bits (`tcp.c:658`) is
where the code could fail.

`net` is what comes of a frame the code wants to send: no buffer ("busy": the
call that wanted it returns, a segment in a handler is dropped), a SYN that
`ip_send_packet()` could not send ("unsent": it is sent again, but `SYNSENT` is
not set, `tcp.c:832`), or "sent", and perhaps lost. A `send()` that gets -1
counts it as a length (`sent` is unsigned, `socket.c:533-549`): `SendMore` then
has one byte more to send than it had.

What the code leaves to others is in the module's heading: the application
reads before the next data come (`tcp.c:667`), resets come while no other
connection waits (`tcp.c:123`), `close()` of a connected socket is made on the
descriptor with its number (`socket.c:243`). A FIN of this host is sent once
and never again.

### Udp, Dhcp, Ip

*Udp*: `sock[i].buf` holds headers and data; `RecvCopy`, `RecvMove` and
`RecvCount` are the three steps of `recvfrom()` between which `ParseUdp` may
come. `HoldsOff` disables the interrupt from the second to the third, as the
TODO at `socket.c:400` asks. `SetOption` works on the bits of `bool_opts`.
`parse_udp()` would pass over a socket connected to another peer than the sender
(`udp.c:152`, `Elsewhere`); no socket ever is, because `connect()` refuses all
but TCP's (`socket.c:581`, `Connect`).

*Dhcp*: `list` is the list of messages; `Discover`, `ParseDhcpClient` and
`Again` (a timer) are the handlers, `Reply` the servers. A server answers each
message as often as it likes, and answers arrive in any order.

*Ip*: `Send` is `ip_send_packet()` up to the driver, `Arrives` `parse_ip()`
with the echo answer. Bytes have `ByteBits` bits and a word two of them, so
that ends of sums, ids and addresses are met in small packets; the receiver is
RFC 791's and RFC 1071's. The code checks neither the sum nor the destination
of what arrives, and ignores options when it answers: careful requests have
none.

### Network drivers

Each module has the driver's part of a ring and its controller: `Arrive` and
`Transmit` are the controller, the others the handlers and calls. `Am79970` has
the bottom-half task between the interrupt and `eth_parse_packet()`; `I8255x` a
list of receive descriptors without an end; `Emac` the two-step interrupt that
parses and then acknowledges; `Smsc` a packet memory read and written word by
word. A sender of `I8255x` fills the command block before the driver waits for
anything (`GetSendPacket`, `8255x.c:120-131`), and `SendPacket` issues the
command. Careful traffic stays clear of: an interrupt that resets the count of
frames the bottom half has not parsed (`am79970.c:413`), several frames in one
interrupt (`8255x.c:158`, `dm646x-emac.c:336`), a command block or head pointer
written while the controller uses it (`8255x.c:100`, `dm646x-emac.c:286`), a
full transmit ring (what follows from that is in `Ethernet`), and lengths that are not whole words
(`smsc91c111.c:376`).

### Ext2 and Fat

*Ext2*: `fs` is the disk with the mounted system's copies (`fs.last` is the one
block bitmap in memory), `opened` the inode copies of open files. Calls are
whole: `FileWrite` is the loop over blocks with allocation of direct and
indirect ones, `FileUnlink` frees them, `FileRename` and `DirentCreate` split
and merge entries. `Reboot` forgets what is
in memory, and comes only when the bitmaps are on the disk, where `Sync` or the
loading of another group's puts them. `ReadDir` walks the directory with
`dir_pos` while files come and go. Conditions marked `Care` are the places
where the code goes wrong: a second `open()` of an open file (a copy of the
inode that `close()` writes back, `ext2.c:2035`), the unlink of an open
file or of one with an indirect block (1443), a creation of what is there (1944), a full table of inodes or directory (557,
1706).

*Fat*: FAT16 chains (`fat`), `data`, the root and one sub-directory. Numbers of
clusters are the table's except where the code mixes them up with its own,
which count from 0. Writing inside a file is right; what is appended is linked
but never read, since size and first cluster do not reach the entry (1055).
`prev_cluster`, to which an allocation links what it finds, is never set (408,
417): it is any of the numbers in `Stack`, and `Care` excludes those of clusters
of the volume, at which the code would cut another file's chain.

### Ide

A request is cut into a first fragment, runs of whole sectors, and a last
fragment (`NextPart`); each part issues `Command`s, waits, transfers sector by
sector and advances. `reg` is the drive, which works in between (`DriveReady`,
`DriveFails`), and is busy again after every sector; `ref` is what the disk
should hold. The code waits for the first sector of a read only (`ide.c:570`):
with `Careful` the drive has the others ready in time and without an error.

### Io and Select

*Io*: `files` is the table, `struct` the structures it points to with their
counts, `known` the descriptors clients hold. The calls are atomic and fail as
the code fails, that is often after the descriptor has been typed.

*Select*: `select()` is `CheckState`, `WaitEventsSel`, `NapOnSelector` and the
way back, `SendEventSel` and `SelectTimerHandler` are the handlers. The queue
position is any that the uninitialised `priority` (`taskman.c:880`) may give.
Careful: no handler comes in the windows between the steps, and a select with a
timeout is not ended by an event, because its timer, on its stack, is not
removed (`io.c:1003`).

### Exec and Threads

*Exec*: `priv[p]` is `exec_task_priv` with parent, status and pending signals.
`Execve` starts a child, `Waitpid` and `Nap` are the two sides of the window at
`exec.c:505`, `Return` and `Exit` the two ways to end. `exit()` gives its status
to nobody and frees nothing (`exec.c:435-470`): the parent wakes and reads what
an earlier child left, or 0. So `ProcessesReaped` asks for the status of
children that return only, and `NothingLeftOver` for their memory only. `Signal`, `Kill` and
`Switch` are the queue of signals and the handlers that run at the next switch.
`mem` are the blocks a process owns, so that error paths and the end can be
checked for what they free.

*Threads*: `pthread_create()` with what it allocates, the entry with the
parameters it reads and frees, the end, and `sleep()` with its timer, the tick
that may come before the nap, and the queue `waitq` that is never initialised,
as in `Timers`: careful applications get zeroed memory there, and no tick before
the nap.

### Serial, Keyboard, Terminal

*Serial*: one module for the interrupt-driven 16550, the polled one and the
PL011; the reader looks, naps, and takes one byte. A writer asks for any number
of bytes and goes on with what the call says is left. On a 16550 the call writes
them all and returns 1 (`16x50.c:204-229`), so careful callers write there one
byte at a time. *Keyboard*: scan codes with
prefixes, shifts and locks, the queue, and the reader that takes the head after
any wake-up. *Terminal*: windows in video memory as the code numbers its cells,
with cursor, wrap, scrolling and control characters; `text` is what should be
there.

### The C library

`Strings`, `Format` and `Scan` compare, call by call, what the code's loops
give with what the C standard says, over all memories, numbers or texts of a
small size; `wrong` records a difference. Careful arguments leave out where
they differ; each module's heading lists those. `Stdio` has the `FILE`
structure with its one buffer and two positions over files that are plain
sequences; only unbuffered streams keep what is written (`libc.c:2458`). In
`Calendar` the clock chip is read field by field while its seconds go on.

## 3. Runs

| run | instance | shows |
|---|---|---|
| `taskman` | 3 tasks, 2 levels, 1 private wait queue, `InversionFree`, with the rings | `OnOneQueue`, `RunningIsHead`, `TopPriorityRuns`, `PendingCoversReady`, `WaitersSorted`, `WakesBestWaiter`; the links are the sequences (`RingsMatch`); `Taskman` implements `PrioSched` (`SchedSpec`); under fairness `RoundRobin` |
| `taskman_inversion` | 3 tasks, 3 levels, any caller, no rings | finding: `TopPriorityRuns` fails after `set_task_priority()` |
| `taskman_mixed` | 3 tasks, 3 levels, no rings | finding: a slice ends while an equal does not share its time (`SharingMasked`) |
| `task_ring_lost` | 3 tasks, 2 levels | finding: a waiter is lost by `enqueue_task()` (`NobodyLost`) |
| `memman` | 8 units; sizes {1}, {2}, and {0, 1, 3} with `realloc` | the chain stays whole (`BlocksTile`), clients apart (`ClientsApart`), nothing lost (`NoBlockLost`), links right (`CarefulLinksHold`), one-size clients never starve (`NeverStarves`) |
| `memman_any_client` | 8 units, size 1, no care | finding: `prev_size` is wrong (`PrevSizeHolds`) |
| `timers` | 3 periodic timers (1 maskable), 2 sleeps, 1 one-shot; timeouts 1, 2, 3 | `ListSorted`, `OnTime`, `NoSleeperForgotten`, and under fairness `KeepsFiring`, `SleepEnds` |
| `timers_any_owner` | 3 timers, one with timeout 0; `LatchMax` 7 | finding: the timer with timeout 0 does not expire (`OnTime`) |
| `ethernet` | 2 tasks, 1 peer to send to, 2 IP addresses and 0.0.0.0, 2 Ethernet addresses, 2 slots, 2 buffers | `TablesConsistent`, `NoDiscoveryInHandler`, `PacketReady`, `LockHasHolder`, `PeersAreKept`, `NewcomerIgnored`, and under fairness `SendEnds` |
| `ethernet_any_caller` | 1 task, no care | finding: the discovery overwrites the locked datagram (`PacketReady`) |
| `network_stack` | `MCNetwork`: 7 instances of `Tcp`, 2 of `Udp`, 1 each of `Dhcp`, `Ip` and the drivers | `StreamInOrder`, `NothingForgotten` (TCP and DHCP), `FramesAndDatagramsWhole` (UDP, options, DHCP, IP, drivers), `FramesInOrder` (what the PCnet driver parses) |
| `devices` | `MCDevices`: `Switch` with four tasks, and instances of the other modules | `FilesKeepData` (file systems, disk, streams), `BlocksOwnedOnce`, `BytesInOrder` (serial lines, keyboard, terminal), `DescriptorsSound`, `WaitersWake` (select, serial lines, sleep), `ProcessesReaped` (processes, threads), `CallsAgree` (C library), `BestTaskRuns` and `NobodyLost` (the switch) |

The last two runs hold many components that share nothing in these models. The
variable `part` names the instance a behaviour belongs to, `x1`, `x2`, ... are
its variables (the `WITH` of the instance says which), and an invariant of the
run is, for each part, the type invariant and the properties of that module
under the same question. One state space is the sum of theirs, not the product.
`Switch` and `Am79970`, about which there are theorems, are extended rather than
instantiated: their variables and their properties are the run's own, and stand
still in the other parts. `TypeOK` of `Taskman`, of `Ethernet`, of `Memman`,
of `Timers` and of `Switch` is in no run: it is proved (`TypeCorrect`).

What care means there was checked part by part with `Careful = FALSE`. Then the
properties fail in `Udp`, `Ip`, the four network drivers, `Ide`, `Stdio`, `Io`,
`Select`, `Switch`, the interrupt-driven serial lines, `Keyboard`, `Exec`,
`Threads`, `Strings`, `Format`, `Scan` and `Calendar`: the conditions are
needed. `Dhcp`, the polled serial line and `Terminal` need none. The conditions
of `Tcp`, `Ext2` and `Fat` have no such constant; their headings and comments
give the lines that make them necessary.

Bounds. *Taskman*: three tasks are two peers and an outsider, which gives rings
of one, two and three members, insertion at the head, in the middle and at the
end of a wait queue, and a pending reschedule that covers several wakes; two
levels are a better and a worse one, and the two findings have three, as a
raise to a level between two others takes. *Memman*: eight
units hold four blocks of one unit or a block with a free neighbour on either
side, so every split and merge occurs; size 0 is a header alone. *Timers*: the
timeout of 1 expires at every tick, the others at different and at common
ticks; `LatchMax` is the largest timeout, or, for the finding, larger than all,
so that a wrapped latch is told from a small one. *Ethernet*: two tasks are a
holder of the lock and another; two slots and three addresses with one hash are
a table in which a search probes and that fills up; two buffers are the least
that distinguish "the buffer given" from "the next".

*Switch*: four tasks are one that is better, two equals and the idle task: each
can be the one that naps, the one chosen and the one an interrupt wakes. *Tcp*:
a stream of three bytes in segments of one to three, two-bit bytes and a window
of six make every overlap and every alignment of the bitmap; two or three tries
and one retransmission of the peer suffice for loss on either side; one
instance has two peers at one listener; closing, resets and calls that find no
buffer have instances of their own with two bytes of data or less. *Udp*: three datagrams and a buffer of
six cells, which the third may not fit. *Dhcp*: two interfaces, two servers,
two tries, one tick between discoveries. *Ip*: eight-valued bytes, two packets,
payloads of none to three bytes. *Drivers*: rings of two, and frames for more than one turn of them. *Ext2*: two groups of five blocks, one
direct block of two words and one indirect: a file of six words uses both and reaches into the second group; a restart. *Fat*: a chain of four clusters that winds
through seven, two writes. *Ide*: tracks of two sectors of two bytes: a
fragment at either end, one sector, a run, and a run longer than a track. *Io*:
three descriptors for two structures, so that both run out. *Select*: three
tasks, two on one descriptor, one with a timeout. *Exec*, *Threads*: three
tasks, which is a parent, a child and a grandchild or sibling; a signal queue
of two; six blocks of memory, less than two threads and a sleeper need.
*Serial*: FIFOs of two, five bytes in, three out and a newline among them, calls
of one and two bytes. *Keyboard*: a queue of two keys
(three slots), four key events. *Terminal*: four characters in windows of one
and two rows. *Stdio*: two streams, two files on two file systems, four calls.
*Strings*: four cells. *Format*: four-bit and six-bit numbers. *Scan*: three
directives on three characters, addresses of up to five parts. *Calendar*:
boots in a leap year and in the year after it, six days to ask for.

Inputs are bounded by counters in the guards (`MaxFrames`, `MaxWrites`,
`MaxCalls`, `MaxTicks` and the like, each a constant); no run has a state
constraint.

Fairness. `taskman`: handlers return and the hardware's timer keeps
interrupting: weak fairness of `TimerHandler` and `IrqExit`, strong fairness of
the timer interrupt, because a task may keep interrupts disabled for a while.
Tasks are given no fairness: they may compute for ever. `timers`: the timer
keeps interrupting and its handler proceeds, and who has installed the timer of
his sleep comes to his nap. `ethernet`: each task takes its
next step some time, which `RoundRobin` and the return of handlers justify.
`network_stack` and `devices` state safety only, with what is still due as an
invariant (something unacknowledged is on the list with a timer; a sleeper's
event has not come): the other side may be silent for ever, and `taskman`
and `timers` carry the liveness they rest on.

Deadlock checking is off for `Taskman` (after a fault, or in the idle loop of a
build whose handlers do nothing, the system really stops), for `Memman` (a
careful client may find no block that fits and hold none it may free), and for
`network_stack` and `devices`, whose inputs are bounded and run out.

Findings.

1. `set_task_priority()` reschedules from the raised task's level without looking
   at the running one's (`base/taskman.c:533`): a better task loses the CPU.
2. `enqueue_task()` in front of the only task of a wait queue links the new
   task to itself (`base/taskman.c:180`): the old one cannot be woken.
3. `malloc()` and `free()` leave wrong `prev_size` behind
   (`base/memman.c:145`, `:220`): a later merge goes to the wrong place.
4. A timer with timeout 0 waits a full wrap of its latch (`base/timers.c:162`),
   where the comment promises polling.
5. `arp_discover()` uses the buffer its caller has locked (`network/arp.c:75`).
6. A time slice ends although an equal without time sharing is ready
   (`base/taskman.c:94`), who then keeps the CPU.

No run of their own, because no comment or test of the repository says
otherwise, have these, which the modules name in their headings: the queue that
`sleep()` never initialises (`base/taskman.c:726`), the send lock that stays set
when the driver has no buffer (`network/ethernet.c:148`), `uart_write()` that
writes all and returns 1 (`drivers/serial/16x50.c:229`), the status that
`exit()` does not pass on (`posix/exec.c:435`), `prev_cluster`
(`fs/fat.c:408`), and the sectors read without waiting
(`drivers/bus/ide/ide.c:570`).

## 4. Proofs

TLAPS checks the following for every value of the constants that satisfies the
named assumptions of the modules.

### Taskman

From `TaskmanAssumption` and `InversionFree`, for any number of tasks, levels
and wait queues:

| theorem | establishes |
|---|---|
| `TypeCorrect` | `TypeOK`; the pending priority never passes the number of levels |
| `QueuesAreDisjoint` | `OnOneQueue` |
| `CallerIsDequeued` | `RunningIsHead` |
| `BestTaskRuns` | `TopPriorityRuns` |
| `NoRescheduleIsLost` | `PendingCoversReady` |
| `WaitQueuesStaySorted` | `WaitersSorted` |
| `BestWaiterWakes` | `WakesBestWaiter`, of every step |
| `ImplementsScheduler` | `SchedSpec`: `Taskman` implements `PrioSched` |

The inductive invariant `IInv` conjoins three parts. `QueuesOK`: types,
`Unique` (each task once, on one queue) and `LevelsMatch` (a ready queue holds
tasks of its own level only): without the last, dequeuing "the head of the
caller's level" says nothing about the caller. `CpuOK`: `RunningIsHead`,
`TopPriorityRuns`, `PendingCoversReady`, and that a pending priority is a level
(`PendingBound`). `RestOK`: the types of the rest, and that a slice is due only
inside an interrupt. The last interrupt's end needs `PendingCoversReady` to
re-establish `TopPriorityRuns`, and that is where scheduling and interrupts
meet. Every action is one of three kinds of change of the queues: a task
leaves, a task is appended, or both (`Loses`, `Gains`, `Moves`), and the lemmas
about those carry most of the argument; one lemma per action says which it is,
and another combines that with the invariant.

The last three theorems follow at the end of the module. Removing a task from a sorted
sequence keeps it sorted, and so does inserting one where `InsertPos` says;
`WaitersSorted` is inductive with `IInv` because no call changes the priority
of a task where it stands on a wait queue. Only `Wake` appends a waiter to the
queue of its level, it takes the head, and the head of a sorted queue is the
best and the first of the best. For the refinement, a step of `Taskman` is a
step of `PrioSched` or none; what does not follow from `IInv` is that a task
without time sharing is not passed over by an equal, and that takes
`SliceKeepsHead`: it is still the head of its level when the interrupt that
found it running ends.

### TaskRing

From `TaskmanAssumption`, `InversionFree` and `TaskRingAssumption` (there are
finitely many task structures; without that the walk would have no end):

| theorem | establishes |
|---|---|
| `RingsImplementQueues` | `RingsMatch`: until a fault, the links of every queue hold its sequence |

The inductive invariant `RInv` is `IInv` with `RingsNow`: for every queue
`RingOf`, which says of the ring what `RingsMatch` says of the walk, and more.
`next` and `prev` of every task are right and not only those that are walked
(`Cyclic`), each task has the `MIXEDPRIO` flag of its queue (a new task copies
it from the head, and the next insertion depends on it), and a queue of
`selfLinked` has exactly one task.

`WalkIsRing` is the bridge from links to walk: the walk is a recursive function
of the number of steps, and a least step at which it left the sequence would
have a predecessor that did not. That the tasks of one queue are no more than
there are tasks (`LengthBound`) is why the walk reaches the last. The three
operations of the code are then one lemma each: `EnqueueRings` (before any
position but in front of a lone task, where the code loses it), `DeleteRings`
(any task but a lone one linked to itself) and `RotateRings`. Each has two
halves: the links of the ring after it are those of `InsertAt` or `RemoveAt`
(`InsertedIsCyclic`, `ShrunkIsCyclic`), and no task of another ring is touched
(`OnlyRing`, from `Unique`), though no operation knows of the other rings. The
guards of `Taskman` that lead to `fault` are what the lemmas exclude: a call that corrupts a queue
does so through one of them. An action
is one or two operations in a row, and between the two the task is on no queue
(`Between`).

### Memman

From `MemmanAssumption`, for any amount of memory, any number of units
requested and any clients:

| theorem | establishes | of clients |
|---|---|---|
| `BackLinksHold` | `CarefulLinksHold` | any (it speaks of careful ones) |
| `ChainTilesMemory` | `BlocksTile` | `Careful` |
| `BlocksStayApart` | `ClientsApart` | `Careful` |
| `NothingLost` | `NoBlockLost` | `Careful` |
| `OneSizeNeverStarves` | `NeverStarves` | `Careful` |
| `TypeCorrect` | `TypeOK` | `Careful` |

`Careful` says that every profile is careful. The invariant `MInv` says, of a
careful profile, that the chain is `Sound`: its blocks tile memory from 0 to
`N`, `prev` of each is the size of the one before, only the last has the flag
that says so; and that the allocated blocks are those held, each as large as
what was asked for (`Holds`). Each operation is put together from two changes
of a sound set of blocks: one is cut in two (`SplitSound`, conditions in
`CutOff`), or one is joined with its successors (`JoinSound`, `JoinedUp`).
`malloc()` cuts, `free()` joins forward, backward or both, `realloc()` cuts,
joins, or, when it grows into a part of the block behind, joins the two and
cuts the result at once.

The walk is a recursive function of the number of steps. What it computes is
not taken from an induction theorem: `WalkExists` takes the least number of
steps for which the function would not exist, and `TilesAreChain` the first
block of a tiling that the walk would miss, and each goes one step back. So
whenever some set of blocks tiles memory, it is what the walk finds.

`NeverStarves` needs more than a sound chain: with gaps of the wrong size,
memory could be half empty and nothing fit. `SpacedInv` says that for clients of
one size `n` all blocks start at multiples of `n + 1` units, and that an
allocated block has `n` units or, at the end of memory, one more that was too
small to be cut off. Then a free block in front of another is large enough, so
if nothing fits, the blocks follow each other without a gap up to the end, and
counting them (an injection of the numbers below `N \div (n + 1)` into the
blocks held) gives as many as memory can hold. For `n = 0` this fails: a last
block of one unit is not split, and the model checker shows it; `NeverStarves`
leaves requests of nothing aside.

### Timers

From `TimersAssumption`, for any timers and timeouts:

| theorem | establishes | of owners |
|---|---|---|
| `TypeCorrect` | `TypeOK` | any |
| `ListStaysSorted` | `ListSorted` | any |
| `SleepersHaveTimers` | `NoSleeperForgotten` | `Careful` |
| `ExpiresOnTime` | `OnTime` | `Careful` |

For every owner, `IInv` adds to the invariants that the walk is threaded
through the list (`WalkThreaded`): it stands on an installed timer or past the
last, and while a callback is due, on a timer that is back on the list exactly
if it is periodic, or leads to one that is. `OnTime` needs `CInv`, which adds
where the walk has come to: of every timer on the list, latch and age together
are its timeout, except that those the walk has still to come to are one tick
older (`WalkCounts`, with `CountedTo(k)` for the first `k - 1` of the list); and
that equal timeouts are of timers that are not periodic (`Suited`). A periodic
timer that expires is put back before the first that is not shorter, among
those already counted, so the walk goes on where it was.

`SleepersHaveTimers` rests on all of that: that a timer does not run out before
its sleeper naps (`InTime`) is a statement about its age, and only `CInv` ties
that to its latch. The other half (`WakesOwn`) is that every `waitq` names its
own sleeper. The first needs careful owners, the second their zeroed memory.

### Address tables and sending

From `AddrTableAssumption` and `EthernetAssumption`, for any hash, table size,
addresses, tasks and buffers:

| theorem | establishes | of callers |
|---|---|---|
| `TypeCorrect` | `TypeOK` | any |
| `TablesStayConsistent` | `TablesConsistent` | any |
| `HandlersFindTheirPeer` | `NoDiscoveryInHandler` | any |
| `OnlyFullTablesForget` | `PeersAreKept` | any |
| `FirstClaimWins` | `NewcomerIgnored` | any |
| `LockIsGivenBack` | `LockHasHolder` | `Careful` |
| `DatagramIsSent` | `PacketReady` | `Careful` |

There is one lemma for each thing `Learn` does: the address is
known afterwards, the table stays consistent, only a full table forgets, first
claims stand, known addresses stay where they are. They rest on the fact that a
set of slots has a least member and that the slot chosen for a new address is
probed for it. The first inductive invariant, `TInv`, is the types with the two
table invariants; it needs nothing of the callers.

The second, `SInv`, is for careful callers. `PacketReady` is not inductive:
what the buffer holds at `Transmit` depends on who may have written to it
since. `BufferHeld` follows the buffer through the holder's steps, `LockHeld`
says that there is one holder, and `Solo` and `PeersKnown` that a task which
writes without the lock (a discovery, or a further fragment) is alone.
`WritersAreAlone` draws the consequence: whoever may write to a buffer is the
holder or there is none. `SInv` holds until a driver without a buffer is asked
for one (`dry`), which Careful does not exclude and after which nothing of the
kind is true; the two theorems say so.

### Switch

From `SwitchAssumption` (priorities are numbers, and no task has a worse one
than the idle task) and `Careful`, for any number of tasks and levels:

| theorem | establishes |
|---|---|
| `SwitchedToBest` | `BestTaskRuns` |
| `TasksKept` | `NobodyLost` |
| `TypeCorrect` | `TypeOK` |

`Careful` says that a handler comes only where it is `Harmless`; without it TLC
breaks both properties. The invariant `IInv` looks at every task through the
context it will go on with (`Live`): the processor's for the one that runs, the
saved one for the others, and from the moment its context is saved, the saved
one for the running task too. `OwnCode` says each of those contexts is in its
own task's code; `OneHolder`, that a task off the queues is in the hands of
exactly one context, the one that has dequeued it; and `CpuOK`, for each place
in the code, what is known there: that the choice made (`cpu.to`) is still the
first of the best level (`First`) from the moment it is chosen until it is
loaded, and that nobody is better than the caller (`NoneAbove`) before that.
The last part is why the places where handlers are harmless are what they are:
at the others a `wake()` would break `NoneAbove` or `First`.

### Network drivers

From `Am79970Assumption` and `Careful`, for rings of any length and any number
of frames:

| theorem | establishes |
|---|---|
| `FramesParsedInOrder` | `FramesInOrder` |
| `FramesSentInOrder` | `FramesSent` |
| `TypeCorrect` | `TypeOK` |

A ring of descriptors is a queue inside an array. `Holds` says that the `m`
descriptors from a position on hold the next `m` frames and have the OWN bit
that says so, and all the others the opposite bit; `RingPut` and `RingTake` are
what a producer and a consumer do to that, whichever of the two the controller
is. `RxInv` is `Holds` for the frames that have arrived and are not parsed, with
the three indices where they belong: `prior_rd` at the first, `curr_rd` behind
those the handler has counted, the controller's behind them all. The handler's
loop then counts all that wait (`RunIsUnparsed`), because its `curr_rd` is at
the first: the bottom half was done. `TxInv` is `Holds` for the frames accepted
and not sent; the frame being filled is behind them, where there is room since
nobody sends into a full ring (`RoomBehind`).

### Only model-checked

Everything else in `network_stack` and `devices`. `RoundRobin`, `KeepsFiring`,
`SleepEnds` and `SendEnds` are liveness under fairness, out of the prover's
reach. The folds of `Ip` and the chains of `Fat` are defined by recursion; what
they compute for every packet or chain would take an induction, which the
prover cannot instantiate and which has to be replaced by a least
counterexample each time, as for `Memman` and `TaskRing`.

## 5. Plan

Done: every module above, and the proofs of section 4. Worth proving next, in
this order:

1. The rings of `Emac` and the list of `I8255x`, with the lemmas about `Holds`.
2. `ReadySelectorsWake` and `DescriptorsSound`.
3. `BoundAsAcknowledged` of `Dhcp`.

## 6. Not modelled

- Register-level code whose behaviour is the hardware's: PCI, I2C and USB,
  interrupt controllers and clocks, the PHYs, `8254x.c`, the initialisation
  of every driver, the boot.
- The sample applications.
- In modelled parts: the registers a switch saves, and the switches of other
  boards; the best-fit build option of `malloc()`, and `malloc()` interrupted
  by `malloc()`; reassembly of IP fragments, which the source compiles out;
  `send_grat_arp()`; `getsockname()`, `getpeername()` and sending on a
  connected datagram socket; `fcntl()`; the variants of `execve()` and the
  strings they copy, `atexit()`; attributes of threads other than stack and
  priority; opening, `ioctl()` and the settings of serial lines and terminals;
  doubly and triply indirect blocks of ext2, its block cache (not configured),
  FAT12, long names, `rename()` on FAT; floating point, `strtok()`, `ctime()`,
  random numbers and the `ctype` tables of the C library.
- Where the code is wrong and callers must keep clear of it, the models say so
  and leave it out: see the `Careful` and `Care` conditions.
