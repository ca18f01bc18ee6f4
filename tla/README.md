# A formal model of enocean_to_hue

The program in `src/` listens to EnOcean radio switches and contacts through a
serial receiver (and through UDP proxies that forward what other receivers
hear), maps each event to a state number with a mapping file, and sets that
number in a `CLIPGenericStatus` sensor of one or more Philips Hue bridges by
HTTP. This directory holds TLA+ models of it, the TLC configurations that check
them, and proofs checked by TLAPS.

    tlc -config handler.cfg MCHueSensorPosix     # one of the runs below
    tlapm HueSensorProofs.tla                    # the proofs of one module

`PROJECT.json` lists the components, the runs, for every property a mutation of
the code that it catches, the source lines behind every definition (`map`), the
hazards and the theorems.

Contents: 1 the system; 2 the modules; 3 runs, bounds and fairness;
4 where code and documentation differ; 5 proofs; 6 what is left out; 7 plan.

## 1. The system

One program (`main.cpp`) forks a child, and the child runs one single-threaded
loop (`enocean_to_hue_bridge::run_poll_loop`). There are no threads and no
locks. What is hard comes from the outside: connections that stall, close or
fail at any point, telegrams that are received twice, late or not at all, bytes
that are lost, and a process that throws, is forked again, and starts empty.

| Component | State it keeps | Operations | What makes it correct |
|---|---|---|---|
| command queue, `embedded/hue_sensor_command.*` | `queue_[4]` with time stamps, `state_` | `post()`, `prepare_buffer()`, `request_finished()` | order kept, nothing sent twice, only the oldest or the too old dropped, nothing stranded in state idle |
| POSIX transport, `hue_sensor_command_posix.*` | `fd_`, `buffer_` (request, then response), `send_outstanding_size_` | `start_connect()`, `get_events()`, `poll()` | a request is written once and whole; every path closes the socket |
| poll loop, `enocean_to_hue_bridge.cpp:67-138` | the array `fds`, start time | build `fds`, `poll()`, dispatch to serial line, proxy, bridges; planned restart | every bridge is served; a restart loses only what is overdue |
| event handling, `enocean_to_hue_bridge.cpp:150-240` | `command_states_`: last command per sender, and when | `handle_event()` | one event of a switch is one command, whoever received it |
| UDP proxy, `proxy_poll()` | socket | receive a datagram, `handle_event()` | as above |
| command mapping, `command_mapping.*` | `mapping_`, `last_value_` | `load()`, `add_mapping()`, `map()` | the table is what the file says; a release negates the press before it |
| serial framing, `embedded/enocean_serial.*` | `state_`, `receive_size_`, `event_` | `push()` | only whole, checked events are handled; a fault costs little; no write behind the buffer |
| checksum, `embedded/crc8.*` | a table | `checksum()` | it is the CRC with polynomial x^8+x^2+x+1 |
| POSIX serial port, `enocean_serial_posix.*` | descriptor | `poll()` reads until the line is empty | end of file or error ends the process |
| supervisor, `main.cpp:86-133` | `respawn_cnt`, `pid` | fork, wait, count, sleep | starts are bounded in rate; a planned restart is immediate |
| embedded transport, `embedded/hue_sensor_command_embedded.*` | an lwIP connection | callbacks connected, received, error; `poll()` | as for POSIX |
| embedded main loop and proxy client, `embedded/embedded_main.cpp` | `connected`, `master_conn`, `led_on_time`, `led_off_time` | `loop()`: WiFi, LED, serial line; the event handler | each event is forwarded at most once and in order, over a new connection when the old one failed; the LED goes out |
| embedded syslog, `embedded/embedded_syslog.*` | `s_udp` | `syslog_impl()` | no control block of lwIP is lost |
| embedded serial port, `embedded/enocean_serial_esp8266.*` | none | `poll()`: one byte per pass | nothing stays in the UART |
| debug output, configuration generator | none | formatting, a build-time script | not modelled |

How they interact:

    serial line --> enocean_serial::push() --\
                                              >--> handle_event() --> map() --> post()
    UDP proxies --> proxy_poll() ------------/                                   |
                                                             hue_sensor_command (one per bridge)
                                                                                 |
                                                               non-blocking TCP to the bridge

A proxy is the same receiver on an ESP8266: `loop()` takes one byte from the UART,
`push()` completes an event, and the handler sends it in a UDP datagram to the
bridge and a message to the syslog host.

All arrows are calls within one pass of the poll loop. The bridges' handlers
share nothing with each other but the process: an exception in one, or an
exception that meets the `noexcept` of `request_finished()`, ends them all.

The behaviours that are hard, each with the line where it bites, are the
`hazards` of `PROJECT.json`. In short: an idle handler with a queue that nobody
looks at again; one buffer for two directions; descriptors on error paths;
indices into `fds` that are built by one loop and read by another; `revents`
that are stale when they are looked at; interleaved copies of telegrams;
lost presses and releases; sizes that wrap; a receiver out of step; bridges
that hang; the process ending with values queued; failures of lwIP that call back
into the code they fail; a clock that wraps on the value that means "none".

## 2. The modules

| Module | Models | Kind |
|---|---|---|
| `HueQueue` | the queue of `hue_sensor_command` | pure operators |
| `HueSensorPosix` | one handler: queue, state machine, socket, process | state machine |
| `HueSensorEmbedded` | one handler over the callbacks of lwIP | state machine |
| `LossyFifo` | what a handler promises to its caller | abstract specification |
| `HandlerLife` | a handler without data, as its process sees it | abstract specification |
| `PollLoop` | the child process with all its bridges | state machine |
| `MappingTable` | `add_mapping()`, the decoding of an event, and `map()` | pure operators |
| `CommandMapping` | `load()`, then events in any order | state machine |
| `EventFilter` | `handle_event()` fed by several receivers, on top of `CommandMapping` | composition |
| `OneReceiver` | what the filter promises: a bridge with a single receiver | abstract specification |
| `EnoceanSerial` | `push()` for any stream of bytes | state machine |
| `SerialLine` | a faulty line in front of `EnoceanSerial` | composition |
| `Supervisor` | the loop of `main()` around the child | state machine |
| `EmbeddedLoop` | `loop()` of the ESP8266, its UDP connections and UART | state machine |
| `Crc8` | the checksum as the code computes it and as a remainder | pure operators |
| `MC...` | constants for TLC, and claims of comments about them | |
| `...Proofs` | theorems | |

`HueSensorPosix`, `HueSensorEmbedded` and `EmbeddedLoop` implement `LossyFifo`: a
command of a switch passes through several of them, and none duplicates or
reorders it.
`HueSensorPosix` implements `HandlerLife`, and every handler in
`PollLoop` implements `HandlerLife` too. This ties the two levels together: the
poll loop calls its handlers only in ways that keep the life of a real one.
`EventFilter` implements `CommandMapping`: `map()` sees some sequence of events,
whatever happens to the copies of telegrams. It also implements `OneReceiver`,
which says what of that sequence comes out: each telegram is heard at most once,
those of a sender in the order sent, and a command is left out only if it
repeats the last one of that sender. `SerialLine` implements `EnoceanSerial`, with
the line choosing the bytes.

Operators marked "Mutant" are versions of the definition after them with a
plausible bug. No specification uses them; with one of them in place of the
definition, the property named in `PROJECT.json` is violated.

### Handler: `HueQueue`, `HueSensorPosix`

A value is the number of the `post()` it came with. The state and HTTP text of
a request are not modelled; `buffer` is the element whose request the code's
`buffer_` holds, `NoRequest` once it has become the buffer of the response.

| Model | Code |
|---|---|
| `queue`, `Enqueue`, `Usable`, `Remainder` | `queue_`, `queue_size_`, first part of `post()`, the loop and the `memmove` of `prepare_buffer()` |
| `RequestFinished` | `request_finished()` with its call of `prepare_buffer()` and `start_connect()` |
| `StartConnect` | `start_connect()`: lowest free descriptor, connected at once or `EINPROGRESS` |
| `Post` | `post()` |
| `PollBlocks(n)` | `poll()` ending in `EAGAIN` on `write()` with n chunks written in this call |
| `PollSends` | the write that completes the request, and the reads after it in the same call |
| `PollEof` | `read()` returning 0, `close()`, `request_finished()` |
| `PollThrows` | the exceptions of `poll()`, which end the child |
| `OtherFailure` | any exception or exit of the child for another reason |
| `Respawn` | the fork in `main()` |
| `Connected`, `PeerCloses`, `ConnectionFails`, `Tick` | TCP, the bridge, the clock |

`poll()` is a loop of system calls. Each action covers what one call of it does
until it returns; what the peer does meanwhile is a step before or after, since
`poll()` looks at nothing but the answers of the kernel. A throw inside
`request_finished()`, which is `noexcept`, is `std::terminate`, that is
`ProcessDies`. The forking process never runs its own handlers, so each child
starts from the constructed state.

### Embedded handler: `HueSensorEmbedded`

The same queue over lwIP. Nothing interrupts the handler, but `tcp_abort()`
calls `connection_error()` from within the handler's code: the next request is
started inside the one being started. `calls` is the stack of calls that have
not returned; posts, `poll()` and callbacks come only when it is empty.

| Model | Code |
|---|---|
| `RequestFinished`, `StartConnectReturns` | `request_finished()` before and after `start_connect()` |
| `StartConnectAborts`, `OutOfMemory`, `StartConnect`, `ConnectFailed` | the stretches of `start_connect()` between calls that may call back |
| `ConnectionEstablished`, `EstablishedWithError`, `EstablishedFailed` | `connection_established()`, its error branch before and after `tcp_abort()` |
| `ConnectionError`, `EndReceived`, `ConnectionEnds` | `connection_error()`, `data_received()` |
| `IsSlow`, `Reports`, `PollAborts` | the first part of `poll()`: report times doubled up to the restart |
| `PollWaits`, `PollWrites`, `PollWriteFails`, `PollCrashes` | the `switch` of `poll()` |
| `Reboot` | `ESP.restart()`, or the exception after an access through a null pointer |

Connections that the handler has forgotten still call it back: `conns` has all
that lwIP knows to be the handler's, and a callback may come for any of them.
`restart_connect_` is only written in the code and left out. `data_received()`
has no return statement; what lwIP makes of the result is when, or whether, it
calls again, and the model assumes nothing of that. It does not free the buffers
it is given either; memory is not modelled but as a call that may fail at any time.

### Poll loop: `HandlerLife`, `PollLoop`

`pc` walks through one pass of the loop: `poll`, `serial`, `proxy`, `bridges`,
`check`; `cnt` is the loop's own counter over the bridges and, as in the code,
both the bridge and the slot of `fds` it reads. `Slots(garbage)` is what
`poll()` leaves in `revents`: entries exist only for bridges with a descriptor
and are filled from slot one, so that the entry of bridge b is that of
`SlotOf(b)`, the number of bridges up to b with a descriptor; the array is on the stack and not initialised, so
a slot without an entry holds any value. That indeterminate value is read only
in the pattern the code has, and is a choice of the model.

`Receive` is `enocean_serial_posix::poll()` or `proxy_poll()`: each event posts
to any set of bridges (which events, mapped how, is `EventFilter`), there may be
several in one call, and an error ends the child.

`anHourOld` is whether the wall clock says that the process is an hour old.
`AnHourPasses` turns it either way, since `run_poll_loop()` uses a clock that can
be set.

Of a queued value the loop does not need the number but whether it is still young
enough to be sent: `fresh` counts those, always the last ones of the queue, and
`GrowsOld` makes the oldest of them too old at any time. `RequestFinished` then
sends the first that is not.

`poll()` times out when no descriptor was ready for ten minutes, whatever the
connections are waiting for (`PollTimesOut`). `silent` is history: the bridges that
had a connection then. A value queued before is older than the timeout
(600 seconds), hence older than `MAX_EVENT_AGE` (500 seconds of the clock as it is
used); `TimeoutAssumption` is this relation of two constants of the code, and
with ages above the timeout `PollTimesOut` would leave the values fresh.
`PollFails` is any other result below zero, which throws; `EINTR` and `EAGAIN` are
retried and leave no trace.

`Answering` is the set of bridges that accept, answer and close. The others may hang
in any state for ever.

### Mapping: `MappingTable`, `CommandMapping`

`Entries` unfolds the recursion of `add_mapping()` for the special buttons -1,
-2, -3; `AddMapping` has the semantics of `emplace()`: the first entry stays.
`RELEASE` stands for -2147483648 and is any number below all others, so the
module is checked with a small one. A line of the file is a record; what
`sscanf` refuses is the line "bad". An event is its packet type, telegram type,
sender and state byte; `ButtonId` and `IsClosed` are the decoding of that byte,
so bytes that are no button and packets that are no telegrams are among the
events. `MappingAssumption` says that a device is a switch or a contact and does
not send the telegrams of the other. The arithmetic `value + button` is not
reduced modulo 2^32: the sum overflows, undefined in C++, only for states close
to 2147483647, and no line of the runs is.

### Events: `EventFilter`

The module extends `CommandMapping`: the file is loaded, and `HandleEvent` of a
copy contains `CommandMapping`'s `Event` of its telegram. So `map()` comes first,
with its change of `last_value_`; then the test against `command_states_` and the
update, which happens for copies that are dropped too. `Telegram` is any device
being used; one copy is on its way for each receiver and is lost, or handled
within `MaxSkew` ticks, in any order. A posted command carries, as history, the
telegram it came from.

`FilterAssumption` has what the comment at `enocean_to_hue_bridge.cpp:198` takes for
granted: copies arrive within less than the window (`MaxSkew < Window`), and a
device does not send again while copies are on their way (`MaxSkew < MinGap`).
Nothing is assumed of the order in which a switch sends presses and releases.

### Serial line: `EnoceanSerial`, `SerialLine`, `Crc8`

`Push(b)` is one call of `push()`. `receiveSize` is a `uint16_t` that is
decremented before it is tested, and `TotalSize` is an `int` cut to `uint16_t`;
both wrap in the model. A header announcing 65535 bytes of data has a
`total_size()` of 0, which passes the test against `BUF_SIZE`; the next bytes
are stored until the buffer ends, and the model then stops in state "overrun",
since what follows is undefined. `OverrunOnlyAtZero` says that this size is the
only one that does it.

`event_` is never cleared, and `map()` reads it at fixed places whatever the length
of the packet. `hdr` and `data` are the part that `push()` has received of a packet;
`front` is what lies in the buffer where `map()` looks, and keeps the bytes of
earlier packets where a shorter one does not reach.

`SerialLine` sends packets over a line that loses, changes or adds bytes. Bytes
are added only in the pauses between packets, which is where noise on an idle
line appears. A byte added inside a packet can also defeat the eight-bit
checksum: with a zero byte put into one of the packets TLC found a changed
event that is accepted. That is a property of every checksum of this size and
not of the code, so the model leaves the case out and the claim `DeliveredAsSent`
is about the faults of the model only.

### Supervisor: `Supervisor`

| Model | Code |
|---|---|
| `Fork` | `fork()`, which may fail; the code does not test for that |
| `Children`, `Waited` | `wait()`: any child that has ended, -1 when there is none |
| `ChildFails`, `ChildRestarts` | the end of the child of this pass: by an exception, by `_exit(0)` after a timeout of `poll()` |
| `WrongChildEnds` | the test `pid != cpid`, after which `main()` returns |
| `Count`, `IsLong` | the two comparisons of `delta` |
| `Delay`, `Sleep` | the three delays |

A failed `fork()` returns -1 and so does the `wait()` without a child; the two
agree, and the pass counts as a run of the time that took. A program started by
`exec` from a shell may have a child it never forked (`Inherited`). `elapsed` is
history: the time since the start when nothing but runs and sleeps takes any,
that is a lower bound. `DelayAssumption` is what the properties need of the
limits and delays: a nap and a counted run are no longer than a rest, and the ten
starts allowed in advance no longer than a long run.

### Embedded program: `EmbeddedLoop`

| Model | Code |
|---|---|
| `Wifi` | `loop()` down to line 244: connection lost, connection back, neither |
| `Led`, `SetLed`, `NextLed`, `Reached` | lines 246-266, `set_led()`, `next_led()`, the comparison of two times |
| `SerialPoll`, `Completes`, `ReadsFirst`, `Swallows` | `serial.poll()` of one byte: the last byte of a telegram, a first piece, a piece lost on a receiver out of step (`inStep`) |
| `Event` | the lambda given to the receiver: LED, datagram to the bridge, syslog |
| `IsSent`, `StaysOpen`, `Blocks` | the UDP part of the lambda in `loop()` and of `syslog_impl()`: opening the connection, sending, and closing it after a failure |
| `Hear`, `WifiDown`, `WifiUp`, `Reboot` | radio and UART, the network, `setup()` after a reset |

A telegram is two pieces, and the second has the byte that completes it. The UART
keeps the newest or the oldest bytes when it is full, so a piece may be lost and
the receiver out of step; `EnoceanSerial` is what it does then in detail. Here a
piece without its first one, or after an unfinished telegram, is swallowed, and the
receiver then may or may not wait for bytes that never come (`inStep`); while it
does, the first piece of the next telegram is swallowed or starts anew.

Both UDP users open a connection when they have none and close it when sending
fails. Each message names the one call lwIP refuses (`Opening`, `Sending`, or
none): calls after a refused one are not made. `Blocks` is the number of
`udp_new()` less that of `udp_remove()` in the message, and `TypeOK` says that
the control blocks in use are those in the two pointers.

`millis()` is compared by a signed difference. When the difference does not fit a
long the result is undefined, and `Reached` then has both; `LedGoesOut` holds
nevertheless. A `lag` is how long the pass of `loop()` took; the watchdog ends a
longer one.

## 3. Runs

Passing runs. Every bound is a constant of the module, named in its `.cfg`.

**handler** (`MCHueSensorPosix`, 37267 states). The code's queue of four, six
values so that the queue overflows while a request is in flight, requests of two
chunks so that writes are partial, two descriptors so that a leaked one would be
noticed but not yet block, ages up to 1 tick of a clock with 3, and any failure.
- `BufferIsRequest`: while writing, the buffer holds an unfinished request.
- `NoSocketLeak`: `fd_` is the only open descriptor.
- `LossIsJustified`: a value goes away only sent, too old, as the oldest of a
  full queue, or with the process; the newest is always taken.
- `FifoSpec`: refinement of `LossyFifo`, so values are sent in order of `post()`
  and none twice (`InOrder`, proved by itself too).
- `LifeSpec`: refinement of `HandlerLife`, so an idle handler has no connection and
  an empty queue (`IdleIsDrained`, proved by itself too). Otherwise a command
  would wait for the next press of a switch.
- `EventuallyHandled`: no value stays in the handler for ever.

**embedded** (`HueSensorEmbedded`, 36230 states). A queue of two, four values, two
connections so that a forgotten one and a new one live side by side, two chunks,
report times of one and two ticks. Every call of lwIP may fail.
- `PcbIsLive`: `pcb_` is never a connection lwIP has freed, whatever was
  forgotten and calls back.
- `RecursionBounded`: requests started inside one another end with the queue;
  the bound is reached.
- `FifoSpec`: order, and nothing twice, through all of that.
- `OneConnection`: while lwIP refuses no call there is one connection, and an
  idle handler has none and no value.
- `EventuallyHandled`: then no value stays for ever, not even when the bridge
  hangs.

**loop** (`PollLoop`, 656132 states). Two bridges, the smallest number where the
slots and bridges may disagree, of which the second may hang; queues of two, three
events, values that grow too old at any time.
- `RestartLosesOnlyOverdue`: the planned restart takes no value that could still be
  sent, and no request but one to a bridge that was silent for the whole timeout of
  `poll()`. A hung bridge with values queued behind it is the case that matters: the
  restart is then what ends it.
- `EveryHandlerLives`: whatever stale or foreign `revents` make the loop call a
  handler, each lives as `HandlerLife` says.
- `FirstBridgeServed`: the first bridge answers, and its requests finish, though the
  second may hang for ever. An error of the second ends the process and so the
  request; the values queued for the first are then lost, which the property allows.

**mapping** (`MCCommandMapping`, 655206 states). All files of up to three out of
fourteen lines: all special buttons, both kinds of sender, refused lines, bridge
lines. Three lines make any two of them meet in either order with a bridge line
before or between. All eight buttons of a switch. Then any events, among them
state bytes that are no button and packets that are no telegrams, until a sender
has put out four commands.
- `FirstLineDecides`: the table against a direct reading of the documented rules.
- `EchoAnswersPress`: a negated command answers the command right before it.

**filter** (`MCEventFilter`, 2539307 states). A switch with its release and one of
two buttons mapped, a switch without release and a contact, all with the same
command, two receivers, three telegrams in any order, a window of three ticks,
copies at most one tick late and telegrams of one device at least two ticks
apart. Two telegrams meet the window and its end; the third is the one that shows
what a lost or late copy of the others has left in `last_value_` and
`command_states_`.
- `FilterTypeOK`: the types, and that no entry is younger than the clock.
- `PostedOnce`: one telegram gives at most one command.
- `NoCommandLost`: a command heard is posted, unless the same one came so
  shortly before that the window covers it. The window starts anew with every
  copy, so "shortly" is the window plus the skew. The release of a press that
  was heard is always posted.
- `EchoAnswersHeard`: a negated command is only posted for the press heard last,
  telegrams that are not mapped left aside.
- `OneReceiverSpec`: refinement of `OneReceiver`. The other properties look at one
  command at a time; this one is about all of them, for example that a late copy
  of an older telegram is never taken for news.

**serial** (`MCSerialLine`, 133020 states). Three packets out of six (press,
release, a packet with 0x55 at its end, the shortest packet, and headers that
announce 31 and 65536 bytes) and one fault: a byte lost or changed anywhere, or
added in a pause. The buffer has 16 bytes,
one more than the data of these packets need and less than the larger
announcements. A fault
in the first packet shows its effect on the second and third; a byte is changed
to 0 or to 0x55, the values that mean something to the receiver.
- `HandledIsWhole`, `OverrunOnlyAtZero`: see section 5.
- `DeliveredAsSent`: what is handled was sent, in order and once, and what `map()`
  reads of the buffer comes from that packet, not from a longer one before it.
- `LossIsBounded`: a fault costs the packet it hits and at most the next one,
  unless that one hides a sync byte in its last five bytes. Packets so far must
  not announce more bytes than they have (`Honest`), and no packet may have more
  faults than the next one has bytes, or what is announced and missing swallows
  the next packets too.
- `HeadersAreTrue`: with these packets and faults the receiver accepts a header
  only where the packet on the line has it. The rest of `LossIsBounded` follows
  from that (section 5).
- `ChecksumIsRemainder`: all 256 entries of the table and the checksum of
  each complete header against polynomial division.

**supervisor** (`Supervisor`, 5520777 states). The numbers of the code, runs at each
side of each limit (0, 5, 60 and 600 seconds), 32 calls of `fork()` so that the
counter passes both 10 and 30, each of which may fail, and a child inherited from
the shell.
- `RateBounded`: never more than one start per six seconds, but for ten in
  advance. The bound is reached, with 10 starts within 9 seconds. Runs between 5
  and 60 seconds neither count nor reset the counter and do not break it.
- `PlannedRestartIsPrompt`: no sleep after a planned restart, though the child's
  hour and the minute of `main()` are measured on different clocks.

**proxy** (`EmbeddedLoop`, 156460 states). Three telegrams, a UART that holds one and
a half of them, WiFi lost or the device restarted twice, any refused call of
lwIP, a clock of eight ticks that wraps every few passes, LED times of two ticks
and one, passes of up to one tick.
- `TypeOK`: among the types, no control block of lwIP is leaked.
- `LedGoesOut`: a LED that is lit or will be has a time to go out, also when the
  clock passes through 0, the value for "no time".
- `FifoSpec`: each event is forwarded at most once and in the order of the radio.
- `WholeIsForwarded`: an event read whole is forwarded in the same pass, over a
  new connection when there is none, unless lwIP refuses a call it needs.
- `BufferDrains`: after every loss of WiFi the loop comes back to the UART.

`CHECK_DEADLOCK FALSE` is used where the bounds end a run: when all values are
posted and handled the handler really has nothing to do, as have a mapping
without events, a filter at the last tick and a silent line. `supervisor` ends with its
last fork or where `main()` returns. In `loop` deadlock
is checked: the process can always go on, because `poll()` times out.

Fairness. The handler's `ProcessFairness` is the loop that calls `poll()` as
long as `revents` say so, and `main()` that forks again after every end of the
child; `ConnectFairness` is TCP, which decides each attempt; `PeerFairness` is a
bridge that does what `Connection: close` in the request asks of it. The last is
an assumption on the bridge, therefore separate, and `handler_hung_peer` is the
same specification without it. In `PollLoop` weak fairness of `Loop` as a whole
is the program counter going on: each action of it is the next statement of one
thread. Connecting and closing are fair there only for the bridges in `Answering`:
the first in `loop`, both in `loop_second_bridge`, which fails all the same. In `HueSensorEmbedded` calls return, time passes and `poll()` is called
when a request is slow; that lwIP ever takes or answers anything is not assumed.
In `EmbeddedLoop` the processor runs `loop()`, one thread, and the SDK connects to
WiFi again; that a message is ever sent is not assumed.
No fairness is assumed of failures, losses, events or the hour, nor of the clock
in the other modules.

## 4. Where code and documentation differ

Each of these is a run that TLC ends with a behaviour of the code against the
quoted sentence.

- **handler_hung_peer**: "too old values will be lost, if not confirmed by the
  bridge in time" (`hue_sensor_command.hpp:104`), but nothing looks at the queue
  while a bridge does not close its connection.
- **embedded_oom**: "Force restarting connect in poll(), if it failed due to OOM"
  (`embedded/hue_sensor_command_embedded.hpp:75`), but nothing reads the flag: the
  handler stays connecting.
- **loop_second_bridge**: "supports multiple Hue bridges" (`README.md:9`), but
  entries are put into `fds` only for bridges with a descriptor and taken out
  for every bridge. A command for the second bridge alone is never sent and the
  loop spins. It shows only while the first bridge is idle: as long as the first
  one has a connection too, both look at the right entries: by `OwnSlot` (section
  5) the loop reads the entry of a bridge if and only if every bridge before it
  has a connection.
- **serial_resync**: "trying to resync" (`enocean_serial.cpp:80`): a receiver out
  of step stays so as long as the packets have 0x55 among their last five bytes,
  such as every telegram heard with -85 dBm.

Smaller observations without a run. `MAX_EVENT_AGE` is 500000 of a clock in
milliseconds, and its comment says half a second
(`embedded/hue_sensor_command.hpp:166`). `add_mapping()` accepts -2147483648 as a
state of any button (`command_mapping.cpp:75`). Each copy of a command moves the
window on (`enocean_to_hue_bridge.cpp:216`), so two presses more than 200 ms
apart can be taken for one when a copy of the first is late; `IsSeparate` in
`EventFilter` has the exact bound. State -1 for button 0 (`README.md:50`) of a
contact puts out -2147483648, since only switches have a command to negate
(`command_mapping.cpp`, `map()`). Press and release of a switch closer together
than their copies give each command twice; the comment at
`enocean_to_hue_bridge.cpp:196` speaks of "enough time", and `filter` shows that
with more time between events (`MinGap > MaxSkew`) it cannot happen. A state byte
that is no button counts as the release. A button that is not mapped leaves
`last_value_` as it is (`command_mapping.cpp:42`), and the release does not say
which button it is of: when the release of a mapped button is lost, that of a
button without mapping puts out the negated command of the former. Therefore
`EchoAnswersHeard` speaks of the last mapped telegram. `main()` does not test for a failure of
`fork()`; it goes well because `wait()` fails with the same number
(`main.cpp:92-112`). `openlog()` of the embedded program stores its options as the
facility (`embedded/embedded_syslog.cpp:66`). The LED times are compared by a
signed difference that may overflow (`embedded/embedded_main.cpp:246`). When WiFi
is up at the first pass of `loop()`, `connected` is already true and `setup_ota()`
is never called (`embedded/embedded_main.cpp:243`).

## 5. Proofs

Everything below is proved for every value of the constants, from the named
assumptions of the modules only (`QueueAssumption`, `HandlerAssumption`,
`EmbeddedAssumption`, `SerialAssumption`, `LineAssumption`, `TableAssumption`,
`MappingAssumption`, `FilterAssumption`, `SupervisorAssumption`, `DelayAssumption`,
`LoopAssumption`, `TimeoutAssumption`: sizes are positive, packets are bytes, there is a
descriptor to be had, the timeout of `poll()` is longer than the age of a value, a release is below all other commands, a device is a switch or a contact,
copies are not later than the window and the next telegram, delays fit together,
the clock's range is larger than the LED's times). TLC evaluates them in every
run. A module that extends another has the theorems of both, since its proofs
rest on those of the other.

**HueQueueProofs.** Lemmas about the queue that both handlers rest on: what
`Enqueue` and `Remainder` keep of a queue (`EnqueueFacts`, `RemainderFacts`), that
they keep its values ascending (`EnqueueAscends`, `RemainderAscends`) and within
any set that has them (`EnqueueHolds`, `RemainderHolds`), and which of them they
keep: all but the first of a full queue, all after the one taken (`EnqueueKeeps`,
`RemainderKeeps`).

**HueSensorProofs.** `TypeCorrect`, `IdleDrained`, `BufferHoldsRequest`,
`SocketsReleased`, `SentInOrder`: the invariants of the run `handler`, and the two
that its refinements contain.
`LossTheorem`: the action property `LossIsJustified`. `Refinement`:
`Spec => Fifo!Spec`, so the handler implements `LossyFifo`. `LifeRefinement`:
`Spec => LifeSpec`, so it implements `HandlerLife`. Of the network `HandlerLife`
sees only `Sock`, the state of the socket behind `fd_`; that a request finished
starts with a fresh one rests on `NoSocketLeak`. Each action of the handler is one
lemma (`PostLives`, `FinishLives`, `PollLives`, `SocketLives`), with the queue's
length and the socket as the only things looked at.

`InOrder` alone is not inductive: it speaks of what is sent and says nothing of
what will be. The invariant `IInv` adds `HeldAscends` (the values of the
buffer and the queue ascend, up to the number of posts) and `SentPrecedesHeld`
(everything sent is below everything held). `NoSocketLeak` needs
`IdleIsDrained`, to know that a connection is only started without another, and
`BufferIsRequest` is what makes `PollSends` append a real value. There is one lemma per operation
(`PostStep`, ...), each resting on the lemmas of `HueQueueProofs` and on one about
`request_finished()`: `RequestFinishedStep`.

**HueSensorEmbeddedProofs.** `EmbeddedTypes`, `PcbTheorem`, `OneConnectionTheorem`,
`StackTheorem`, `EmbeddedRefinement`: all safety properties of the run `embedded`.
`EmbeddedLoss`: `LossIsJustified`, the counterpart of the property of the same name
of the other transport. It is no property of the run, but TLC agrees on the
constants of `embedded.cfg` and finds a counterexample when any of its causes is
left out. The causes beyond those of the POSIX transport are a request that
`connection_error()` ends before it was written, a device that restarts for a slow
request, and a connection forgotten after a failed call, whose next `poll()` uses
a null pointer. The proof takes the operations one at a time
(`RequestFinishedJustified`, `EmbeddedPostJustified`, `EmbeddedPollJustified`).
`OneConnection` looks at the handler between calls only; `NoNesting` adds what is
true within them: while no call was refused at most one is under way, and each
kind of frame says whether there is a connection. For the recursion the depth is
not enough, since it must be paid for: `StackBounded` adds to the depth the values
still in the queue, and one for a frame whose own value is already taken
(`Paid`). A frame is only pushed where a value leaves the queue.

**EmbeddedLoopProofs.** `TypeCorrect` (no control block is lost), `LedTheorem`,
`Refinement` (`Spec => Fifo!Spec`) and `WholeTheorem`, for every size of the UART
and every clock. The invariant adds that the pieces in the UART ascend
(`Ascends`), follow the unfinished telegram, unless they end it
(`PartialPrecedes`), and that both follow what was forwarded
(`ForwardedPrecedes`); and for the LED that it only blinks without WiFi
(`BlinksWithoutWifi`), so that what switches the blinking off leaves nothing lit.

**PollLoopProofs.** For any number of bridges and whatever `revents` hold in the
slots that `poll()` never filled: `TypeCorrect` (`TypeOK` and `IdleIsClosed`),
`RestartTheorem` (`RestartLosesOnlyOverdue`) and `HandlersLive` (`EveryHandlerLives`).
The restart is decided in the last statement of a pass, by a `res` of the first;
between them events are handled and handlers called. `TimeoutIsQuiet` carries it
over: after a timeout nothing queued is fresh and only the silent bridges have a
request, and it stays so until the test, since nothing was reported that would let
the loop look at a line, a socket or a connection. `FreshIsQueued` says that the
fresh values are among those queued. `IdleIsClosed` is
what the stale slots need: a handler called with the `revents` of another is idle
with nothing to do, or has a connection and lives on.

`OwnSlot` is how far the loop over the bridges is right: after `poll()` the
readiness of each connection is in one slot, and it is the slot of its own bridge
if and only if all bridges before it have a connection. `SlotOf` is a cardinality:
it grows by one at each connection (`SlotsAscend`), so no two connections share a
slot, and it is b exactly when nothing up to b is left out (`SlotFacts`).
`SlotSays` joins this to `Slots`.

**EventFilterProofs**, the part on `CommandMapping`. For every file: `TypeCorrect`,
`TableTheorem` (`FirstLineDecides`), `EchoTheorem` (`EchoAnswersPress`). The table is
right after each line of the file for the lines read so far (`LinesDecide`), which
rests on `EntriesCover`: the unfolded recursion of `add_mapping()` has an entry for
exactly the buttons that the line covers. An echo answers the press because a
command that waits to be negated is the last one put out (`LastIsOut`).

**EventFilterProofs**, the part on the filter. `FilterImplementsMapping`:
`FilterSpec => Spec`, so the three theorems above hold of the bridge with its
receivers. For any number of receivers, senders and telegrams and any file:
`FilterTypeCorrect`, `PostedOnceTheorem`, `NoCommandLostTheorem`,
`EchoAnswersHeardTheorem`, which are all properties of the run `filter`. The proof
has two layers. `RadioInv` is about telegrams only: no copy is overdue and
telegrams of a device are apart, therefore a copy on its way is always of the
latest telegram of its sender (`LatestOfSender`). `FilterIInv` then ties the two
memories of the bridge to the last mapped telegram heard of each sender:
`last_value_` is its command, or 0 after a release (`KeptIsHeard`); the entry in
`command_states_` is its command and not older (`SeenIsHeard`), so a second copy
is dropped; and an entry is not much younger than the telegram it comes from
(`SeenIsRecent`), so a new command is not dropped. `HandleStep` is the step of
`handle_event()`; every other action leaves all of that alone (`QuietStep`).

`FilterImplementsOneReceiver`: `FilterSpec => OneReceiverSpec`. A copy that is handled
is of the latest telegram of its sender (`LatestHandled`). If it is the first, that
telegram is heard, posted or a repetition (`FirstCopy`); if not, nothing but times
changes, since `map()` has the same answer again and the entry in
`command_states_` has it already (`SecondCopy`). `SameCommandApartTheorem`:
two commands of a sender posted one after the other are different, or their
telegrams lie at least `Window - MaxSkew` apart, a bound that TLC finds reached.
Its invariant `ApartInv` adds that the entry in `command_states_` is the last
command posted of the sender and not older than its telegram (`LastPostSeen`).

**SupervisorProofs.** `TypeCorrect`, `StartsAreBounded`, `PlannedRestarts`, for all
limits and delays that satisfy `DelayAssumption`. `RateBounded` does not mention
the counter; `Saved` does: each counted failure has used up some of the starts in
advance (`Used`), and a sleep or a run still to be reckoned earns its time
(`Earned`). When the counter is at its limit, a rest pays for a whole start.

**SerialLineProofs**, the part on `EnoceanSerial`. For every stream of bytes,
every buffer size below 65536 and every checksum function: `ReceiverTypeOK`,
`OnlyZeroOverruns`, `WholeEvents`. The strengthening is `SizesAgree`, a conjunct of
`TypeOK`: bytes received plus `receiveSize` make the announced size, or, for the
size that wrapped to zero, 0 or 65536. From it follows that an event is handed on
with exactly its size and that only that one size reaches the end of the buffer.

**SerialLineProofs**, the part on the line. `LineImplementsReceiver`: every
behaviour of the line, with any packets, noise and number of faults, is one of
`EnoceanSerial!Spec`, so the theorems above hold at the end of every line.
`LineTypes`: what is still to come is the end of the last packet sent.
`FaultFreeDelivery`: as long as there was no fault, noise or packet that does not
fit, every packet that has arrived whole has been handled as it was sent, in
order and once. This is the half of `DeliveredAsSent` that does not depend on
which faults the checksum catches. Its invariant says at every byte of a packet
where in `push()` the receiver is and that its buffer holds exactly the bytes sent
so far; that the part `map()` reads begins with them, whatever lay there before
(`BeginsLike`, a conjunct of `TypeOK`), is what keeps older bytes out.

`BackInSync`, for any stream of bytes: whatever follows a 0x55, each byte brings
the receiver nearer to waiting for the next 0x55, and after `BufSize + HeaderSize`
bytes at most it does, unless a header announced 65536 bytes. `serial_resync`
does not contradict it: the receiver comes back, but perhaps in the middle of a
packet again.

`LossIsBoundedTheorem`: `LineSpec /\ HeadersAreTrue => []LossIsBounded`, for any
packets, noise and number of faults. Whether bytes that are no header pass for
one depends on a checksum of eight bits, therefore the hypothesis; TLC shows it
for the packets of `serial`. Its invariant has three parts. While the receiver
waits for data, what it waits for is no more than the rest of the packet and the
bytes that faults have taken from it (`WaitsForRest`), so it is through before the
next packet ends. A header that was begun in a packet without faults was begun at
a 0x55 of it (`HeaderBegunAtSync`), so none is under way at the end of a packet
that hides no 0x55 in its last bytes. And an intact packet that found the receiver waiting for a
sync byte is read byte by byte (`IntactIsRead`).

Only model-checked, and why:
- all liveness (`EventuallyHandled`, `FirstBridgeServed`, `BufferDrains`), which the
  prover cannot handle;
- `DeliveredAsSent` under faults and `HeadersAreTrue`, the hypothesis of
  `LossIsBoundedTheorem`: whether a changed or lost byte is noticed depends on the
  checksum and the packets, and for unlucky packets neither holds (section 2);
- `ChecksumIsRemainder`, whose definition uses bitwise operators.

## 6. What is left out

- Text: the HTTP request and response, JSON, log messages, command line.
- `EINTR` is a retry of the same call and leaves no trace.
- The contents and lengths of datagrams. The code does not look at the length;
  the proxy of this repository always sends a whole event.
- Opening and configuring devices and sockets at the start, and a telegram in the
  moment between opening the line and having read the mapping file.
- Updates over the air: `ArduinoOTA` is a library that runs inside `loop()` and
  restarts the device, which is `Reboot`. The dots on the console while WiFi is
  away. `closelog()`, which nobody calls.
- No program of the repository instantiates `hue_sensor_command_embedded`, so how
  often its `poll()` is called is taken from the serial port's.
- Debug output and `make_embedded_config.py`, which formats a header file.

## 7. Plan

Done: the modules and proofs above. What is left, in this order:

1. `Supervisor` composed with `PollLoop`: now the one has the ends of the child
   with their times, the other with their reasons.
2. The promises of `HandlerLife` under which `FirstBridgeServed` holds, as far as
   they are safety: a handler in `PollLoop` is called whenever its slot says so.
   `OwnSlot` is the first part.
3. `LossIsJustified` of `HueSensorEmbedded` as a property of its run.
