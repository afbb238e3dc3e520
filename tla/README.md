# A TLA+ model of xbdm_gdb_bridge

`xbdm_gdb_bridge` sits between an Xbox development kit, which speaks RDCP to its
debug monitor XBDM, and GDB, which speaks the remote serial protocol. This
directory holds TLA+ modules translated from the C++ source, the TLC
configurations that check them on small instances, and TLAPS proofs of their
main invariants for every instance. Paths below are relative to the repository.

## The system

### Threads

| thread | what runs on it |
|---|---|
| main | the shell, `XBOXInterface::Start` and `Stop` |
| select thread (`net/select_thread.cpp`) | every socket: connect results, reads, writes, accepts, posted tasks |
| `xbdm_control_executor_` (pool of one) | RDCP commands, one after the other |
| `notification_executor_` (pool of one) | handlers of XBDM notifications |
| `gdb_executor_` (pool of one) | GDB packets |

### Parts, their state, operations and hard behaviours

| part | state | operations | what is hard |
|---|---|---|---|
| Command path: `XBDMContext`, `XBDMTransport`, `RDCPProcessedRequest` | main and dedicated transports, a request queue and buffers per transport, the executor's queue, a promise per command | `SendCommand`, `XBDMConnect`, `Send`, `OnBytesRead`, `Close`, `Reconnect`, create and destroy a channel, `Shutdown` | the response, the wait and a close run on three threads; a condition variable without a predicate; a second connection racing the first |
| Sockets: `TCPConnection`, `TCPSocketBase`, `TCPServer`, `SignalingBase` | descriptor, buffers, `is_shutdown_`, a wake-up pipe | `Select`, `Process`, `DoSend`, `DoReceive`, `Send`, `Close`, accept | a close between `Select` and `Process`; lock order |
| `SelectThread`, `TaskConnection` | list of selectables, tasks, timers, fences | one pass of the loop, `Post`, `PostDelayed`, `AwaitQuiescence`, `AddConnection`, `Stop` | fences against events that arrive meanwhile; operations after `Stop` |
| `XBOXInterface` and its debugger and GDB extensions | which of the parts exist | `Start`, `Stop`, attach, detach, GDB server start and stop, client accept | order of tear-down; check and act on different threads |
| RDCP response parser | read buffer | `RDCPResponse::Parse` | a response cut anywhere by the network |
| Notifications: transport, parser, dispatch | handler table, notification sockets | accept, parse, dispatch, register, unregister | delivery after unregister; order across pools |
| GDB transport and packets | read buffer, unescaped buffer, unacknowledged packets | parse, escape, ack, resend, interrupt | acks and packets cut anywhere; no-ack mode |
| `GDBBridge` | threads selected per command group, the flag of an owed stop reply, a thread-info buffer | one handler per packet, stop notifications | a stop before, during or after the command that waits for it |
| `XBDMDebugger`, `Thread` | execution state, threads, active thread, modules, breakpoints, conditions | attach, launch, continue, halt, step, memory, breakpoints, notifications | the target moves on its own; reboot in the middle |
| Expression parser | none | parse and evaluate a condition | precedence, division by zero, wrap-around |
| Dynamic DXT loader | installed state, cached base addresses | bootstrap, allocate, install, resolve imports | a step that fails half way; stale addresses after a reboot |
| Tracer | state of the remote tracer, flags | install, break at a frame, trace a frame | waits for a notification that reports a failure |
| Discovery | socket, time left | broadcast and collect | the time budget |
| Shell, frame capture, utilities | last command | text and files | little: sequential |

PROJECT.json lists every part with its sources, and the hazards of the code at
the lines where they bite.

### Which module models which part

| module | part | composed of |
|---|---|---|
| `XBDMContext`, `CommandService` | command path, transports, shutdown | executor, select thread, callers, target |
| `SelectThread` | select loop, sockets, tasks, fences | loop, callers, peers |
| `StopReply` | resume, halt and stop replies | GDB and notification executors, title, GDB |
| `Breakpoints` | memory reads, steps, breakpoints | three executors, control executor, title |
| `FileUtil` | file transfer and synchronisation | a transfer, a synchronisation, two file trees |
| `XBDMRequests`, `Shell` | request classes, response parser, shell commands | shell, control executor, target |
| `GDBTransport` | framing, acknowledging, escaping | GDB, select thread, two executors |
| `GDBBridge` | packet handlers, GDB server, clients | GDBs, GDB executor, select thread, shell, title |
| `Debugger` | attach, launch, lists, notifications | shell, GDB and notification executors, target |
| `Loader`, `Tracer` | DXT loader, tracer, frame capture | shell, notification executor, target |

A module `MC...` gives the constants of its module values for TLC. Each module
takes from the ones below it what those show: `Breakpoints` and the later ones
run RDCP commands one after the other, each answered once, because `XBDMContext`
implements `CommandService`.

Three conventions are common to all modules. A *history variable* is written by
actions and read by properties only; it names the one circumstance in which a
property does not hold, so that the property says nothing else leads there. A
*seeded fault* is an operator before the one it varies, the form a plausible
mistake would give it; each property is known to fail under one of them. A
variable `session` is chosen in `Init` and never changes: it says which calls the
environment makes, so that one run covers several small instances.

## Modules

### XBDMContext: the command path

`XBDMContext.tla` follows one RDCP command from `SendCommand` to the promise.

* **Actors.** `exec` is the executor thread, `select` the select thread, `app`
  stands for all other threads that close, reconnect, create or destroy. One
  `app` call is under way at a time; `op[actor]` says where it stands.
* **Steps.** A step ends where the code releases a lock or blocks. So `Close` is
  `BeginClose` (no lock), `CloseSocket` (`socket_lock_`), `CloseAbandon`
  (`request_queue_lock_`); `Connect` is `OpenSocket` then `ConnectSocket` or
  `ConnectFails`; `ExecuteXBDMPromise` is `Dequeue`, `Check`, `Dial`, `Poll`,
  `Send`, `Wait`, `Return`; a read on the select thread is `Process`,
  `DoReceive`, `OnBytesRead`, `HandleResponse`, `ProcessReturns`.
* **Data.** A command is a model value; the bytes of a command, of a binary
  payload, of a response are records naming the command they belong to, so
  `ResponseMatches` can tell a right answer from a wrong one. A read delivers
  one whole response: how responses are cut is the parser's subject.
* **The target** answers commands in order, may ask for a binary payload, may
  refuse a connection and may close one at any time. It is external.
* **Undefined behaviour and the library.** `SpuriousWakeups` says whether
  `condition_variable::wait` may return without a notification, as the standard
  allows.
* **History.** `stranded` holds the commands whose wake-up was lost (the
  notification came before the wait) or that were queued on a transport that was
  already closed; `contested` the transports two threads connected at once. They
  are read by properties only, never by a guard.

`CommandService.tla` is what the callers may rely on: commands are started in
the order they were submitted, one at a time, each is settled exactly once, and
when the service closes the rest are settled as broken. `ImplementsService` is
that specification under the mapping `Submitted`, `Settled`, `Open`.

`XBDMContextProofs.tla`, `XBDMContextMessages.tla` and
`XBDMContextAnswers.tla` hold the proofs.

| run | instance | result |
|---|---|---|
| `commands` | two commands, one binary, two transports, one notification connection | one request at a time, each with its own answer unless `contested`; the context implements `CommandService` |
| `close_races` | one binary command, one dedicated channel, one `app` call, spurious wake-ups, with fairness | the front of the queue is stable; nobody is left behind at shutdown; a command is settled unless stranded |

Four things the repository says or suggests do not hold.

* A wake-up can be lost. `completed_.wait(lock)` has no predicate and
  `notify_all` is called without the mutex (`rdcp_processed_request.cpp:28`): an
  answer or a close between `XBDMTransport::Send` and the wait is missed and the
  executor waits for ever. This is what `stranded` records.
* `Connect` takes no lock. `Reconnect` on one thread and `XBDMConnect` on the
  executor can both connect one transport, and the second greeting is taken for
  the answer of a command (`xbdm_transport.cpp:113`). This is what `contested`
  records.
* "Closes all connections." (`xbdm_context.h`): the executor, inside
  `XBDMConnect`, may connect after `Shutdown` has closed.
* With spurious wake-ups and two commands, an unnotified wake-up ends a command
  that is still queued, so `RequestsAreSequenced` is checked and proved without.

A lock-order cycle is outside the model, whose `Send` is one step: `DoSend` on
the select thread holds `write_lock_` and, on an error, closes and so wants
`request_queue_lock_`, which `XBDMTransport::Send` holds while it wants
`write_lock_`.

Bounds. `MaxTransports` bounds the transports ever created; two let a command
outlive one of them. `MaxAppCalls` bounds the `app` calls other than the one that
destroys a dedicated channel, of which there is at most one for each created. Two commands are enough for one to overtake or be mistaken
for another; one `app` call is enough to race the executor, the select thread, the
target's own close and shutdown. The runs do not check deadlock: a context that was shut down stops.

Fairness (`Fairness`) is weak fairness of the executor's steps, of the select
thread while it runs, of a call or a shutdown that has begun: each is a running
thread that waits for nothing, or waits in `select`, which returns when a
descriptor is ready. The one assumption on the environment is that the target
answers or closes the connection. Nothing is assumed of callers, of closes, or
of a greeting being an acceptance; no spurious wake-up is owed.

Abstractions to keep in mind. `Shutdown` drops each dedicated channel after its own
`Close`, where the code clears the map once all are closed. Registration and
dispatch of notifications are in `Debugger`.

### SelectThread: sockets, tasks and fences

`SelectThread.tla` is the loop of `SelectThread::ThreadMain` with the selectables
it serves and the calls other threads make on them.

* **The loop.** `at` is its program counter. `SelectEntry` is `Select` of one
  entry (with the erasure of a closed one), `ReadFences` reads `pending_fences_`,
  `CallSelect` and `SelectReturns` are the two ends of `select`, `ProcessEntry`
  and the steps after it are `Process` of one entry, `EndOfPass` fulfils fences.
  Both passes work on a copy of `selectables_` made at their start (`todo`).
* **The other threads** add, connect, listen, send, close, post and wait, each
  in the steps between which it holds no lock. What they have to reach the loop
  is a byte in a pipe (`pipe`), which `Process` drains.
* **Descriptors** are numbers, given out lowest first and free again after a
  close, because the fd_sets outlive the sockets they were filled from. `files`
  remembers, until the end of the second pass, what `select` resolved the numbers
  to: the kernel goes on watching the socket that was open when `select` was called.
  The numbers of pipes are left out; one that is given to a socket next is a second
  way to what `BlocksOnlyOnReused` describes.
* **Data.** Only how many chunks arrived, were read, are to be sent. `owed[w]`
  records what was pending when `w` pushed its fence; only properties read it.

`SelectThreadProofs.tla` holds the proofs.

| run | instance | result |
|---|---|---|
| `select_fences` | one connection and one waiter, with a task and `Stop` or with a send; two connections; a connection and a server; one arrival on each, any of them closed | a fence is not early; `recv` and `accept` block only on a descriptor that changed hands |
| `select_progress` | one connection and one waiter, nothing arrives, with one task or with one send; or a server and its connection, one arrival, nothing is closed; fairness | tasks run, sends go out, closed connections are erased, fences return, what arrives is read, also on an accepted connection |

Bounds. One arrival, one send and one task are enough for each of them to come
before, between or after the two passes. `MaxFd` is never short of what the runs
open. Deadlock is not checked: a thread with nothing to do stays in `select`.

`Process` is to handle "pending data as indicated in the given `fd_sets`"
(`selectable_base.h:26`), and yet the thread can block in it, with every other
connection waiting: a descriptor that is closed and opened again between the passes,
as `Reconnect` does, is ready in the `fd_set` and has nothing to read.
`BlocksOnlyOnReused` says that this is the only way, and `select_fences` takes it,
for `recv` and for `accept`.

The sessions leave out what makes `FenceIsQuiescent` fail:

* a second waiter: the empty `select` one fence asked for
  also fulfils a fence pushed after it, with a task still queued;
* a server beside a waiter: `Listen` does not signal, so a thread already
  in `select` does not watch the listening socket, and a client waits until
  something else wakes the thread.

The liveness properties end, besides in what they promise, in `stopping` (after
`Stop` nothing is served) and in `at = "recv"`, the blocked read. `FencesReturn`
also ends while there is data to send: a sender that never pauses keeps `select`
from ever being empty, and the fence waits. A closed connection whose descriptor
is in use again is erased at the next wake-up, not at once.

Fairness: the loop runs; calls that have begun end; a timer expires. Nothing makes
a caller call, a peer write or a peer close.

### StopReply: how GDB learns of a stop

`StopReply.tla` composes the resuming and halting handlers of `GDBBridge`, the
parts of `XBDMDebugger` they call, and the notification handlers of both, with a
target and a GDB.

* **Two executors.** `at["gdb"]` and `at["notification"]` are their program
  counters. Each RDCP command is two steps: its effect at the target, and the
  store of the answer in the `Thread` object, with the other executor and the
  title free to act in between. `GetFirstStoppedThread` (`CopyThreads`,
  `PreferActive`, `AskNext`, `StoreNext`) is shared by both, with the locals in
  `poll`.
* **The debugger's knowledge** is `state_`, `threads_`, `active_thread_id_` and,
  for each thread, `stopped` and `last_stop_reason`.
* **The bridge** has `waiting_on_stop_packet_`. `CanReport` and `Report` are the
  two halves of `SendThreadStopPacket`. The handlers of the bridge run after
  those of the debugger for the same notification (`BridgeChecks`,
  `BridgeReports`), in the order of registration. Clearing the flag and sending
  the packet are one step: GDB sends nothing before it has the packet.
* **The target** is external. It is either started or stopped and may hold each
  thread. `Hit` covers breakpoints, watchpoints, exceptions and the end of a step;
  its two notifications come in either order. `stop` does not hold threads, `halt`
  does. A thread id is not used again.
* **GDB** resumes or asks only when it takes the target to be stopped, and
  interrupts at most once while it runs. Any reply ends its wait.

| run | instance | result |
|---|---|---|
| `stop_replies` | two threads, `vCont;c` and `?`, 3 events, 3 packets; then one thread and one to come, all packets, conditions, 2 events, 2 packets; fairness | one reply for each resume; reports are true and nothing runs behind GDB's back unless `raced`; no silent stop unless `raced`; an interrupt is answered |

`raced` is a history variable. It is set when an `isstopped` answer is stored
after it stopped being true, and when `vCont` is handled while the title runs.
Both happen in the code: an executor may store an answer from before the other's
`continue`, the thread is then reported falsely, and GDB continues a running
title. In that state a stop that falls between the poll of
`MarkWaitingForStopPacket` and its store to the flag is never reported. The
properties named `...UnlessRaced` say that nothing else leads there.
`ReportsAreTrueUnlessRaced` also leaves out conditions: where one is false the
notification executor resumes a thread that may just have been reported.

`StopReplyLemmas.tla` and `StopReplyProofs.tla` hold the proofs.

What does not hold:

* one reply per resume, once GDB interrupts or steps. The interrupt is answered
  by its handler while the flag may still be set, so the notification of the same
  stop sends a second reply. A step that fails sends an error, and
  `MarkWaitingForStopPacket` may send a stop reply after it. The reply properties
  are therefore stated for the first session.
* `assert(thread)` in `HandleInterruptRequest`, once a thread has ended: `HaltAll`
  succeeds when there are no threads, and `ActiveThread` is null when the active
  one is gone. `AssertThread` is that abort of the process. `InterruptIsAnswered`
  accepts it in place of the answer, and only when a thread has ended.
* a stop whose condition is false is reported all the same when the state change
  is handled before the break.
* the comment in `HaltAll` that a success means stopped threads: a break whose
  condition is false lets the title go on while `HaltAll` waits.

Bounds. Three events and three packets let a stop, the end of a thread and a
second resume overlap the handling of an earlier stop, which is where `raced`
comes from. Deadlock is not checked: a title that runs undisturbed and a GDB that
waits may do so for ever.

Fairness: both executors run, GDB reads its replies, and `HaltAll` does not poll
for ever (its time budget shrinks at every turn; strong fairness of
`HaltGivesUp`). Nothing makes the title stop or GDB send.

Elsewhere: suspended breakpoints around a step (`Breakpoints`), threads created
suspended (`Debugger`), clients that disconnect (`GDBBridge`).


### Breakpoints: what is installed and what is recorded

`Breakpoints.tla` has the target's breakpoints (`installed`), the debugger's list
(`breakpoints_`, with its lock and the conditions) and three executors that use
them: GDB's (`m`, `Z0`, `z0`, `vCont;s`, `vCont;c`), the notification executor
(stops, breaks with a condition, reboots) and the shell (`break`, and every
command that reads memory).

* `at[e]` and `job[e]` are where executor `e` stands and the locals of its call.
  An RDCP command is queued by one step, carried out by `Succeeds` or `Fails`,
  and the executor goes on at `job[e].ret`.
* `GetMemory` is `GetActiveBreakpointsInRange` under the lock, then
  `SuspendBreakpoints`, `ReadBytes`, `BytesRead` and `RestoreBreakpoints` without
  it. `AddBreakpoint` and `RemoveBreakpoint` hold the lock across their command
  (`EditBreakpoint`, `RecordBreakpoint`).
* A stop notification queues a `set` for all that was recorded when it was
  handled (`OnStopped`, `RepostBreakpoints`). A step (`StepInstruction` to
  `StepReturns`) relies on that to put back what it took out.
* Addresses wrap at `AddressSpace`, as `uint32_t` does: a range that ends at the
  top of the address space comes out empty.

| run | instance | result |
|---|---|---|
| `breakpoint_races` | two addresses, at the top of the address space, reads of one or two bytes, two jobs, one event, one failing command | reads and steps are transparent unless disturbed; what is recorded is installed; no orphans unless raced |

History: `disturbed` are the executors whose read or step another command
disturbed, `excused` the addresses the shell cleared or that could not be set
again, `lost` those that left `breakpoints_` while another executor was still to
restore them, or that the notification of a reboot cleared from it after they were
set in the rebooted target. Each is a thing the code does: `OnRebooting` clears what
it finds, however late it comes; nothing is locked between suspending
and restoring, so a late stop notification reinstalls the breakpoint under a step
or a read, and a breakpoint GDB removes during a read comes back after it.

Two jobs, with the notification executor beside them, are the fewest that let each
pair of operations overlap. Deadlock is not checked: everyone may be done.

### FileUtil: file transfer and synchronisation

`FileUtil.tla` is `file_util.cpp` and the shell commands that use it: `putfile`,
`getfile`, `rm`, `%syncfile`, `%syncdir`, against a local tree and the target's.
A path is a sequence of names and separators, a file its contents and its write
time. Each request is a step, can fail, and a local file can be saved in between.

* `SafeXFATTimestamp` is modelled by what it computes, scaled from 64 to 22 bits
  so that its loop still subtracts the range up to 512 times; `StampsAreUsable`
  checks it over a whole period when the run starts.
* The work of a command is a list of steps (`todo`), which a failure drops up to
  the end of the call it leaves.

| run | instance | result |
|---|---|---|
| `transfers` | three local and six remote trees of depth three; any transfer, then a synchronisation; one failure, one edit | a synchronisation that succeeds leaves the trees equal unless edited; only what is missing here is deleted, without `-f` nothing is overwritten, nothing outside the given path changes; a transfer that succeeds is complete |

What the properties have to except, because the code does it:

* a file with other contents and the same write time is left as it is (the history
  variable `hidden`);
* an intermediate directory that holds no file directly is taken for missing: it
  is deleted with `-d`, and creating a directory below it then fails;
* `putfile` of a directory puts the files of nested ones into one directory;
* `ERR_ACCESS_DENIED` counts as "does not exist";
* the help of `getfile` (`commands.h:231-234`) describes other arguments.

`contents_only = false` has no caller and is left out, and so is a local file
that disappears during a synchronisation.

### XBDMRequests and Shell: requests, responses, commands

`XBDMRequests.tla` has one operator for each request class: when its constructor
refuses the arguments, what it announces and uploads, which answers it
understands. `Shell.tla` has the commands, the response parser
(`RDCPResponse::Parse`, cut anywhere by the network) and a target that gives each
request any form of answer the protocol has, malformed ones included.

| run | instance | result |
|---|---|---|
| `shell_lines` | every command with representative arguments, a line that shows whether connection and target are in step, a repetition; every request no command sends | in step on both sides; a command gets its own answer; commands end |

Constants: `IntOf`, `XFATOf`, `DriveRoot` are what text conversions give for the
words of the script. Fairness: the target
answers, and what arrives is read.

What the properties have to except:

* a binary answer to a request without a parser for it (`isdebugger`, `dvdblk`)
  is waited for for ever;
* an answer of a loaded processor that has another size than asked for leaves
  the stream out of step;
* an answer ends the process (`Fatal`) if it is a line that is no response, which
  `OnBytesRead` drops and then dereferences (`xbdm_transport.cpp:117`), if it asks
  for a payload that the request does not have (the assertion at
  `xbdm_transport.cpp:123`), or if it gives `isstopped` a reason it does not know;
  so can what follows an answer of the wrong size. `CommandsEnd` accepts an abort for
  these reasons and no other;
* `getcontext ... full` ends the process before anything is sent;
* `@recvbin`, `@recvbytes`, `@sendbin` run their arguments together with the name
  of the command; `InvokeSendBinary` announces the length of a vector it has moved
  from (`dyndxt_requests.cpp:25`);
* `debugger` connects and disconnects the other way round
  (`commands.cpp:194-200`, `commands.h:97-100`);
* `notifyat ... drop` after `notifyat` is never sent, because the listener is
  already open (`commands.cpp:928`, `commands.h:416`).

### GDBTransport: the stream to and from GDB

`GDBTransport.tla` is `gdb_transport.cpp`, `gdb_packet.cpp` and the buffer of
`TCPConnection` under them. GDB sends packets, interrupts and acknowledgements,
and refuses some; `OnBytesRead` gets any prefix of what is under way; two
executors reply. `EscapeBuffer`, `UnescapeBuffer`, `Serialize` and `Parse` are
operators over short sequences of bytes, of which only the ones the protocol
tells apart exist.

| run | instance | result |
|---|---|---|
| `gdb_packets` | seven packets, with `#`, `}`, `+`, `-` in them; two at a time, one interrupt, one refusal | packets arrive as sent, replies arrive once, every packet is answered, up to the circumstances below |

Three circumstances are excepted, each a history variable:

* `split`: a read that begins inside a packet takes a byte `+`, `-` or `0x03`
  there for an acknowledgement or an interrupt. The same happens to escaped
  bytes, which are unescaped before the packet is framed, so an escaped `#` ends
  its packet ("This should never happen", `gdb_packet.cpp:86`);
* `crossed`: an acknowledgement behind a packet in the same read;
* `raced`: two executors inside `Send` transmit the last pushed packet twice and
  the other never.

In no-ack mode the buffer of unacknowledged packets never shrinks. A packet with
a wrong checksum is handled nevertheless.

Fairness: both executors and GDB run, and what arrives is read. Nothing makes GDB
send.

### GDBBridge: packets, clients, the server

`GDBBridge.tla` has one operator for each packet handler of `gdb_bridge.cpp` that
does not resume the title, the accept of clients and the start and stop of the
server in `gdb_xbox_interface.cpp`, and the register conversions of
`gdb_registers.cpp`. Threads come and go while a handler waits for the target.
`AddTransport`, `OnGDBClientConnected` and the handlers are on three threads.
A handler that sends two commands stops between them; `at` then carries the
contexts of the `Thread` object it holds, and `raced`, which only properties read,
says whether the title has run or that thread was replaced since the first command
of the job. `qfThreadInfo` is three steps: the target lists its threads, they are
stored under the lock, and their ids are read back; `snapshot`, a history variable,
holds the threads that were there throughout and those that ever were.
`GDBBridgeProofs.tla` holds the proofs.

| run | instance | result |
|---|---|---|
| `gdb_requests` | two clients; then one client each with registers, memory and breakpoints, thread lists, the target description, fixed answers; three packets, one failure, one server stop; the title creates or ends up to two threads beside thread lists, one elsewhere, none with two clients | each packet gets its replies, at its client; register replies are what the target holds; thread lists and the description read in parts are whole; a register write changes that register of that thread unless raced |

Registers are a general, a segment and a float register, with values of a few
bits that keep sign and byte order apart. The document has three bytes.

What the properties have to except:

* hardware breakpoints get two empty replies;
* `p` and `P` do not use the thread selected by `Hg`; `g` gives bytes in memory
  order and `p` and `P` a number, so `P` and then `g` shows them swapped;
* `P` fetches and pushes the whole context: what the title changed in between
  is lost;
* a float register is parsed without its exponent, and written with the low
  bytes of its neighbour;
* a second client accepted while the first is being connected has its packets
  answered to the first; the thread selection, the thread-info buffer and the
  waiting flag survive a reconnect;
* a thread list may hold an active thread whose end is not yet known and threads
  whose creation is still to be notified, and lacks a thread if the end of an earlier
  one of its id is notified late;
* a memory access of length zero fails an assertion (`xbdm_debugger.cpp:1542`);
* features of `qSupported` that are declined are not separated.

### Debugger: attach, launch, lists, notifications

`Debugger.tla` composes `XBDMDebugger`, the notification handlers of
`XBDMContext` and `DebuggerXBOXInterface`: the shell attaches, launches,
restarts, lists and detaches, a GDB connects (which attaches, launches and
halts), and the target's notifications are delivered in order by the notification
executor, each some time after it was sent.

* A call is a list of steps for its thread; a request that fails drops what is
  left of it. Reading the target's lists takes one command per element, and
  notifications are handled in between.
* The target is one record: running, pending, started or stopped, its threads
  and modules, what it was told to stop on, whether it notifies.

| run | instance | result |
|---|---|---|
| `debugger_sessions` | 21 sessions: each shell command after an attach with one event and one failure; launches; a GDB that connects twice beside an attach, a detach, a restart | a launch stops where it was asked to; the lists are current up to named overlaps; threads created suspended are resumed; whoever is attached has the one handler; calls end if their commands do |

What the properties have to except:

* a failed attach leaves its handler registered, and two overlapping attaches
  leave one behind; a failed re-attach leaves `is_attached_` true without one;
* `CloseActiveConnections` closes the notification channel, which the comment at
  `xbdm_debugger.cpp:1146` says it keeps, and the command connection, so that a
  command of another thread may be carried out and still fail;
* a stale `STARTED` or `STOPPED` ends a wait for the next one;
* a late reboot notification clears lists fetched since, and a fetch overwrites
  what newer notifications said;
* `SetDebugger(false)` ignores its argument;
* `DetachDebugger` destroys the debugger while GDB jobs use it.

Fairness is weak fairness of the whole program: some thread of it moves as long as
one can. Each command is taken to be answered or to fail, which `XBDMContext` shows
up to its own exceptions (`CommandsSettleUnlessStranded`); a process that an abort
ended, as when the debugger is destroyed under a GDB job, counts as an end.

### Loader and Tracer: code in the target

`Loader.tla` is the DXT loader: `L1` is written over a function of XBDM, called
to get memory, and the function restored; then libraries are loaded, relocated
and linked through split resolution requests. `Tracer.tla` extends it with the
tracer: install, attach, wait for a frame, trace and drain two rings into
packets, against the notifications of the tracer in the target.

* The target is a record: what the function holds, which loader and tracer are
  there, the execution state, whether threads are held, whether there is a
  notification channel, what the tracer does, the contents of the rings.
* `xbdm_debugger_` is what the loader uses of the debugger: whether the object
  exists (it does from the first attempt to attach on, whatever became of it), its
  handler, the boot its threads are of, its cached modules. The notification
  executor clears and fills them when it hears of a reboot.
* `halt` holds the title's threads and `go` does not release them; ContinueAll, of
  `/continueallgo` and of the tracer, does, if the threads it knows are those of this
  boot.
* `SplitResolutionTable` is a closed form of the loop over the requests; its
  lengths are bytes, the limit 512.
* A ring is read in slices; `ProcessBuffer` cuts packets out of what has come so
  far.

| run | instance | result |
|---|---|---|
| `tracing` | 15 sessions: bootstrap and load with failures, split tables (38 and 74 imports), reboots with modules where they were or elsewhere, frames, fatal states, detach and attach | the function, and what a stale address leads to, is restored, the execution state left as found, the loader linked to where modules are; frames are whole and begin at a frame start; commands end |

What the properties have to except:

* a restore that fails, after which the next attempt takes `L1` for the original;
* a stop that fails is taken for a target that was stopped already;
* a continued resolution request holds one more address than was counted and is
  up to 513 bytes long; a table that ends exactly at the limit leaves an empty one;
* a reboot during a call, if the modules have moved: the function of the earlier
  boot is then restored over what is there now;
* threads stay held after the loader was brought in: ScopedResume undoes its own
  `stop` and not HaltAll's `halt`;
* a debugger that failed to attach is not attached again: InjectLoader goes on
  without threads, so that nothing is halted, and without a notification channel, so
  that `$stepflip` waits for ever (`unheard`);
* a tracer that is already loaded when the program starts: `$init` succeeds with
  no notification channel either;
* a shutdown notification that is handled after the next `$init` looked at what is
  registered removes its handler, and later notifications are lost (`overlapped`);
* the late answer to an earlier request ends the wait for the next (`late`); bytes
  left in a ring, or a failed read, end up in the next frame (`disturbed`).

Fairness: the shell, the notification executor and the target's tracer run.
Deadlock is not checked: the program waits for its next line.

## What is proved

TLAPS proves for every value of the constants:

* **`XBDMContext`.** `TypeCorrect`, `Sequencing`, `NoCallerWaits`, `Refinement`,
  from `Inductive`: `Spec => []IndInv`. `RequestsAreSequenced` is not inductive:
  that the queues hold at most the request the executor waits for depends on where
  the executor is (`ExecutorInv`), on every pending promise being a posted task or
  the running one (`PendingInv`), on nothing being queued behind the back of
  `OnBytesRead` between its two looks at the queue (`ReadingInv`), on where a close
  under way stands (`CallInv`) and on what shutdown has stopped (`PhaseInv`).
  `IndInv` is their conjunction with `TypeOK`; there is one lemma per action and
  per group of conjuncts, all in `XBDMContextProofs`.

  `StableFront` (`FrontIsStable`: the request `OnBytesRead` looks at is the one it
  completes) and `OwnAnswer` (`ResponseMatches`) are about the bytes, of which
  `IndInv` says nothing. `AnswersInductive` adds `AnswersInv`. On a transport that
  is not `contested` the two buffers of the socket and the two directions of the
  connection together hold at most one message: the greeting until the
  transport is connected, nothing while no request is queued, and else what belongs
  to the request of the executor, on its way there or back. It rests on who may
  connect: while an uncontested socket is being opened one thread does it, and
  nobody connects an open one. `XBDMContextMessages` follows the one message
  through send, target and read; `XBDMContextAnswers` has the callers, the closes
  and the theorems.

  All these assume `SpuriousWakeups = FALSE`; the section on `XBDMContext` says why.

* **`Breakpoints`.** All four properties of the run: `ReadsAreTransparent`,
  `StepsOver`, `Recorded`, `NoOrphans`, and `TypeCorrect`, from `Inductive`. Each
  property speaks of a moment (bytes have come, nothing is under way) and says
  nothing of the calls before it. `IndInv` supplies that:
  `ShapeInv` says what the locals of a call can be at each label, `LockInv` who
  holds `breakpoints_lock_`, `NoteInv` and `QueueInv` which notifications and
  commands are on their way and for whom. `RecordedInv` then says where the
  breakpoint of a recorded address is whenever it is not in the target: some
  executor has cleared it and is to restore it, a `set` for it is queued, or the
  title runs, or has stopped and the notification that makes `OnStopped` queue one
  is not handled yet. `OrphanInv` is the
  other direction, and `DisturbInv` says that an executor that is not `disturbed`
  still has out what it took out.
  Most steps are of one executor and change only its locals or append one command;
  `LocalIndInv` treats them together.

* **`StopReply`.** `OneReply` (`OneReplyPerResume`) and `TrueReports`
  (`ReportsAreTrueUnlessRaced`), from `Inductive`, for any threads and any bounds on
  events and packets. Two things make the properties inductive. `TurnsInv`: GDB's
  request is a packet, or the flag `waiting_on_stop_packet_`, or a reply, never two
  of these, and none while GDB takes the target to be stopped; the handler at its
  `Go` has handed the request on already. `CalmInv`: unless `raced` or
  conditional, the title runs only with the flag set and nobody held, so a stop holds
  one thread, and `ContinueAll` leaves nobody held before the poll of
  `MarkWaitingForStopPacket`, which then always sets the flag before its `Go`
  (`Holds`); a thread a notification may report and that is taken to be stopped
  (`last_stop_reason`) is asked about by that poll before the flag is set, so what is
  believed of it afterwards is true (`Believes`); and a thread whose stop GDB has not
  read is held (`Stops`). The types, the labels with their locals (`ShapeInv`) and what each
  step leaves alone are in `StopReplyLemmas`.
  Both properties are stated for a GDB that only resumes all threads or asks
  (`ContinuesAll`); the section on `StopReply` says what happens otherwise.

* **`SelectThread`.** `BlocksOnReused` (`BlocksOnlyOnReused`), for any connections,
  servers and descriptors.
  `NoBlockInv` makes it inductive: a descriptor that `select` reported is that of a
  socket with something to read, unless it was another connection's, closed since
  (`ReadInv`), which needs that open sockets have different descriptors
  (`SocketInv`) and that no entry is twice in a list (`OnceInv`).

  `Fence` (`FenceIsQuiescent`) follows from `EmptySelect`, an action property for
  any number of waiters and servers: when `select` comes back empty, what each pending fence
  was pushed behind has been processed, as far as the thread knew of the sockets.
  It rests on `FenceInv`: a queued task
  has signalled (`TaskInv`), the pass is still to see, or `select` watches, every
  stream the thread was told of, or a signal will end the `select` (`WatchInv`),
  and what a fence is owed is still queued, still to be read, or done (`OwedInv`).
  `Fence` itself assumes one waiter and no listening socket; the section on
  `SelectThread` says what happens otherwise.

* **`GDBBridge`.** `Replies` (`RepliesGoToTheirClient`), `TrueRegisters`
  (`RegisterRepliesAreTrue`) and `LocalWrites` (`WritesAreLocalUnlessRaced`), from
  `BridgeInductive`, for any clients, threads, packets and numbers of failures,
  events and server stops, without further hypotheses. `AtInv` says what a handler
  between two commands relies on: its packet is still the first job, the thread is the
  one the packet is about, and the contexts it holds are those of the target, with
  the one register changed, unless `raced`. `RouteInv` says why a reply has one
  place to go: unless a second GDB `slipped` in between the check of `HasGDBClient`
  and the job that installs the client, all jobs are of the client or of the one
  being connected, and only these two can be open (`OneGDB`). `PacketCases` shows
  that every step of a handler but five is `Plain`: it touches neither registers nor
  contexts and replies once or, for a hardware breakpoint, twice.

The assumptions on the constants are `ConstantsAssumption` of `XBDMContext`,
`BreakpointsAssumption`, `StopReplyAssumption`, `SelectAssumption` and
`GDBBridgeAssumption` of the modules of these names, which TLC evaluates on every
run of these modules.

Only model-checked:

* liveness (the prover has no `ENABLED`);
* `PartsReassemble` of `GDBBridge`: what the parts of a list or a document add up to
  is an induction over the list;
* `Shell`, `GDBTransport` and `Tracer`, whose parsers are recursive definitions and
  folds over sequences, on which the prover cannot do induction;
* `Loader`, `Debugger` and `FileUtil`, which work through lists of steps of any
  length: what is left of a list still does is again an induction over it.

## Not modelled

* The expression parser of breakpoint conditions: a recursive descent over text
  without state; `Breakpoints` takes a condition to be true or false.
* Export tables (constants), and the decoding of frames into log lines, images
  and files: data in, text out.
* Discovery. `BindSocket` returns at once, because `socket_` is -1 and that counts
  as true, so `Run` always fails in `SendDiscoveryPacket`; the code behind it
  cannot be reached.
* `StepFunction`'s guess of a return address, which depends on the machine code
  of the title.
* Start-up, logging, printing, history and macros of the shell, path and text
  utilities. Where a path or a number decides what happens, the module that uses
  it models the conversion.
