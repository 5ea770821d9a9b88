# A TLA+ model of IRISMAN

IRISMAN is a game manager for the PlayStation 3: it lists, copies, mounts and
updates games, serves files over FTP, emulates discs from raw sections of a
drive and drives the fan. This directory holds TLA+ modules for the parts of it
whose correctness depends on threads, callbacks and failure paths, the TLC
configurations that check them and the TLAPS proofs of their main properties.
Paths below are relative to the repository's root, `src/` being its content.

## Inventory

| Component | State | Operations | Interacts with |
|---|---|---|---|
| Fast copy engine, `src/include/fast_copy.h`, driven by `my_game_copy` in `src/source/utils.c` | queue of 16 files, two cursors, two request flags, count of open files | queue a file, process the queue, two completion callbacks | the AIO thread of the system library, through callbacks and shared globals |
| File copy, `src/source/file_copy.h` | one request slot `my_f_async`, `use_async_fd` | copy a file, a directory, an archive; move | the event thread |
| Event thread, `src/source/event_threads.c` | event queue, `event_thread_working` | send, wait, finish | file copy, ISO tools, updates, picture loader |
| Raw ISO plugin, `src/rawseciso/main.c` | command queue, `ntfs_running`, `do_run`, `eject_running`, disc file, sector cache | emulator, eject and stop threads | the kernel's storage manager, the drive |
| FTP server threads, `ftp.c` and `server.c` in `src/source/ftp/` | `appstate`, `ftp_working`, the sockets of the connections | start, stop, accept, the control thread | the client threads, the main program |
| FTP client sessions, `client.c` and `functions.c` there | tickets `cqueue`, `dqueue`; per client its data sockets, `fd`, `rest`, `expectcmd`, `tmp_path` | one command at a time per client, transfers | file system, the other clients through tickets and descriptors |
| Fan control plugin, `src/sm_monitor/main.c` | copy of the shared area, `cspeed`, `speed_up`, temperatures | tick of the manager | the area in kernel memory, the system controller |
| Fan control front end, `src/source/controlfan.c` | `fan_mode`, tables of speeds and temperatures | set a mode, load plugin and payload, test screens | the same area, the plugin |
| Fan control payload, `src/payload_controlfan/ps3_controlfan.S` | `enable`, `in_use`, `internal_step`, `pid_app`, `mem_app` | a step in each hooked system call | every process of the console |
| ISO tools, `src/source/iso.c` | tables of directories and extents, split pieces | make, extract, split, patch an ISO | event thread |
| Game list and mounting, `utils_gamelist.h`, `mount_game.h`, `main_mount.h` | list of directories, mount points, cache | scan, sort, mount, copy to cache | file system, cobra |
| Cobra and PS1/PS2, `cobra.c`, `psx.c` | emulated disc, memory cards | mount, eject | kernel |
| Packages and updates, `pkg_install.c`, `updates.c` | download buffers, one request slot | download, install | event thread, network |
| File manager, main program, fonts, input, payload loaders, identity tools, exFAT manager | panes, menus, tables | dialogs and drawing | all of the above |

The behaviours that are hard here are not in the data but in the sharing: flags
that a callback sets and a loop polls, request slots reused while a job is
pending, descriptors closed by one thread and used by another, counts of open
files kept by hand over many error paths, and split or joined files whose
boundaries fall between two requests. `PROJECT.json` lists each of these hazards
at its line. What makes each component correct:

* **Fast copy.** Every file reaches the destination whole and in order or the
  copy reports a failure, but for a split source whose next fragment the copier fails
  to find; no descriptor or buffer is released under a request
  in flight; the count of open files is right, so that the loop ends; fragments
  of split files have exactly the split size.
* **File copy and event thread.** The slot is never refilled while its job is
  pending; a failed write becomes the result of the copy; each descriptor is
  closed exactly once.
* **Raw ISO plugin.** Every read command is answered once, with data of the disc
  it was sent for, whatever earlier commands left in the caches; a disc is
  changed between reads only; stopping ends all three threads and leaves nothing
  in the kernel.
* **FTP server.** Each connection has its thread; tickets are given back on every
  path and the waits end; the sign of activity covers transfers and goes out
  after them; "226" means that the file is there; a rename uses the name given by
  the preceding command; a client closes its own descriptors.
* **Fan control.** The fan comes to the speed of the hotter chip when the plugin
  has it, and stays as the user sets it when not; the payload writes only to
  memory of the process it runs in, and its chain of steps goes on.

## Modules

| Module | Contents |
|---|---|
| `FastCopy` | the copy thread (walk, `fast_copy_add`, `fast_copy_process`) and the AIO thread (transfers and callbacks), with its properties and the refinement of `CopySpec` |
| `CopySpec` | what a copy promises, without queue, requests or split files |
| `EndToEnd` | a file that is kept in fragments, as one sequence |
| `EndToEndProofs` | lemmas on it that both copies and `RawProofs` use: where a fragment starts, a fragment added, a fragment grown, a copy under way |
| `MCFastCopy` | instances for TLC, and a statement of the code that it does not keep |
| `FastCopyProofs` | the inductive invariant, lemmas on operators, slots, descriptors, fragments and data, one step per action and part, and the theorems |
| `AsyncCopy` | the file copy (`CopyFd`, `CopyFile`, the copy and move sessions) and the event thread, with their properties and the refinement of `CopySpec` |
| `MCAsyncCopy` | instances for TLC |
| `AsyncCopyProofs` | the hand-over of the slot, the files, the types, the content of the outputs and the refinement: invariants and theorems |
| `RawSecIso`, `MCRawSecIso` | the main, eject and stop threads of the raw ISO plugin, with the kernel's disc emulation |
| `RawDisc`, `MCRawDisc` | the plugin's read algorithms and caches, over a fragmented image |
| `RawProofs` | the invariants of the two, one step per action, and the theorems |
| `FtpServer`, `MCFtpServer` | start and stop of the server, the listener, the control thread and the client threads |
| `FtpQueue`, `MCFtpQueue` | the two queues of tickets the client threads share |
| `FtpSession`, `MCFtpSession` | what a client keeps from one command to the next, and its transfers |
| `FtpServerProofs`, `FtpQueueProofs`, `FtpSessionProofs` | invariants and theorems of the three |
| `FanControl`, `MCFanControl` | `set_fan_mode` and the thread of the plugin over the shared area |
| `FanPayload`, `MCFanPayload` | the hooks of the payload, store by store |
| `FanProofs` | invariants and theorems of the two |

Each `MC` module only gives values to the constants; all but that of the fast
copy say nothing else. The components share no variables in the program, and each
module composes the threads, callbacks and kernel services of its own. The three FTP
modules are three views of the same client threads: the activity, the tickets and
the session, none of which is read by the code of the others.

### Named exceptions: `slips`

The modules after `AsyncCopy` have a variable `slips` (`faults` in `RawDisc`, `races` in
`FanPayload`), the set of known hazards a behaviour has met. An action that passes through a
window the code leaves open adds the name of the window, and goes on as the code does. A property
then reads "unless one of these has happened, ...". So the windows are part of the model and are
taken by TLC; what is checked is that they are the only ones, and each property names those that
can break it and no other. The names are explained beside the properties of each module, and
below under known weaknesses.

### FastCopy

The copy thread of the model is one program counter, `pc`. `walk` is
`_my_game_copy` and `fast_copy_add`; `loop`, `readend`, `joined`, `writeend` and
`ui` are the sections of one iteration of `fast_copy_process` in their order;
`cleanup` and `return` are its end. A step of the copy thread is one section,
that is the code between two points where the AIO thread could change what the
section reads next. The one section that is cut in two is the joining of a
split source: the read of the next fragment is issued (`JoinNext`) before `fl`
is set to 2 (`JoinSetFl`, `src/include/fast_copy.h:654` and `:663`), and a
callback may run in between. Everywhere else the code sets the flags before it
issues the request, and a completion in the middle of the section is
indistinguishable from one at its end.

The AIO thread moves the data of a request (`ReadTransfer`, `WriteTransfer`)
and calls back in a later step (`fast_func_read`, `fast_func_write`), so that
the copy thread can act while the data is in flight and between the data and
the flag. It is external: the model takes from its use in the repository that a
request completes at most once and reads or writes at the offset it was given.

Variables keep the names of the code. `fl`, `readed`, `writed`, `len`,
`giga_counter`, `number_frag`, `t_read` and `t_write` are the fields of
`t_fast_files`, one function of the slot each; `file` gathers the fields that
`fast_copy_add` fixes once. `cur_r` and `cur_w` are `current_fast_file_r` and
`current_fast_file_w`. `fds` is what the kernel has open, by slot and fragment;
`mem` is the content of the two halves of a slot's buffer; `disk` the output
fragments of each file. A unit of data is the pair of its source fragment and
offset, so that a unit lost, repeated or misplaced is visible.

Sizes keep the ratios that matter: a fragment of a split file is a whole number
of buffers (`RatiosAssumption`), and a file is split from a length that is a whole number of
fragments. `Faults` is the set of calls that may fail in an instance; an action
that takes a failure has the fault in its guard.

Whether a split source has a `.1.part`, and whether a further fragment follows, the code asks
with a stat, and takes any failure for no. So with `stat` among the faults `AddFile` may take a
split source for a plain file (`ModesOf`) and `JoinMissing` may end it while there is more.
`missed`, which is no state of the code's, collects the files that are cut short in this way.

Assumptions on the environment, each from the code's use of a call: a failed
close leaves the descriptor open; a cancelled request never calls back; a later
fragment of a split source is not empty; a split source's first fragment is not
itself 4 GB long (a split with such pieces would be joined and split at once). A file
that is not split is one fragment.

### AsyncCopy

The program of the user, `task`, is a sequence of sessions; a session is one call
of `copy_file_manager` or `move_file_manager` with its files. `pc` follows the
copy thread: `open` and `copy` to `unlink` are `CopyFile`, with `copy` and `send`
the two halves of an iteration of `CopyFd`, `return` is its caller, `end` and
`endwait` are the end of the session, `joining` is `event_threads_finish`. The
waits of the code are polling loops; here each is a state that is left when its
condition holds. `slot` is `my_f_async`: its `mem` is the chunk it holds, a chunk
being the pair of its fragment and position, and `ASYNC_NTFS` is left out since
both kinds of call fail and close alike.

The event thread is cut at every point the copy thread can tell apart: a job is
received, `event_thread_working` is set, the slot's flags are copied and its
chunk written, the file is closed and the flags stored, and
`event_thread_working` is cleared. That flag is set only after the job has been
received, so `wait_event_thread` may return while the job is still in the queue.
At the end of a session the code sleeps 100 ms before it tests the slot
(`src/source/file_copy.h:648`, `:710`, `:968`, `:1050`). `Prompt` says that the
job is received within that time. It is the one assumption on timing, and
without it TLC finds `Handover` violated; the wait of an aborted copy (`:486`) has
no sleep before it and none in the model.

`removed` names what a move has deleted by fragment, because `CopyFile` writes
the number of the fragment it reads into its caller's path.

Simplifications: descriptors are named by their file, so that a number reused
after a double close (`:283` after an error) is not seen; a failed or short write
leaves the file as it was; the event queue, which has 16 places, holds at most
one job, one empty job per session and the exit, and does not fill up; the
destination is empty at first. A copy of several files stands for that of
a directory as well, whose walk makes the same calls in the same order; the move
of a directory, which deletes it when all of it is copied, is left out.

### RawSecIso

`main`, `ejt` and `stp` are the places of `rawseciso_thread`, `eject_thread` and
`rawseciso_stop_thread`; a step is the code between two accesses to what they
share: the flags `ntfs_running`, `do_run` and `eject_running`, `command_queue`,
the device (`handle`) and the disc file (`discfd`). Queues are numbered as they are
created, and an image is mounted on each at most once, so that a command is named
by its queue. The kernel's emulation (`Ask`, `TakeResult`, `Mount`, `Unmount`) sends
one command at a time and takes one result; it is external.

The eject thread sleeps 70 ms between polls. `MainIsBusy` says that it does not
poll between two neighbouring instructions of main, the test of `command_queue` and
the receive; it may between any other two steps. Without it TLC finds the
console powered off by main's error branch (`src/rawseciso/main.c:1271`).

`MovesAfter` is a bound: the hazards after which the tray still moves. A behaviour
that has met another goes on, but with the disc it has. It keeps the instance small,
and the proofs hold for any value of it.

`Usb` modes read the device itself and try a failed read again, sixteen times in
the code and `MaxTries` in the model; the others read files, and a failed read
closes and opens the file until it succeeds (`Reopen`, `GiveUpReopen`).

### RawDisc

A command becomes reads of the image (`ReadIso`, `ReadCd2048`, `ReadCd2352`,
`ReadPsx`), and each of them goes through `get_next_read` section by section:
`Nothing` past the end or in a hole, `ReadPartial` through the cache of one
device sector, `ReadWhole` into the buffer. `Move` brings the data of a raw sector down to
those before it. The CD cache (`InCache`, `Overlap`,
`FromCache`, `Missing`, `Refilled`) holds `CD_CACHE_SIZE` sectors of 2352 bytes.
A unit of data is the device, sector and place it came from, so that wrong, stale
or missing data differ from right ones. `Wanted` is the reference: what each unit of
an answer is by the definition of the image, with no cache and no reads.

A read that fails (`DeviceFails`) may have brought part of its data, as a short read does: some
first sectors go to its destination (`Arrived`), be it the buffer or the CD cache, and the
one-sector buffer holds that sector, what it held, or no sector at all (`PartArrived`). When the
memory of the CD cache cannot be had the command fails (`ReadCdNoMemory`). `cached_cd_sector`
begins as 0x80000000, and a lookup of sector 0 computes the absolute value of INT_MIN. That is
undefined, and both outcomes are in the model: it is far (`ReadCd2352`), or it stays negative and
passes for near (`ReadCdWrapped`). Then the unsigned arithmetic that follows is done modulo 2^32:
48 sectors are copied from a cache that was never filled, the cache is filled from sector 48 on
and numbered 0x80000030 (`WrappedNumber`), and the copy of the rest is of nothing or of 4 GB
(`RefilledWrapped`, status `crashed`).

### FtpServer

`ftp_init` (or `InitFails`) and `ftp_deinit` are the program's start and stop, `listener` the place
of `listener_thread`, `control` that of `control_thread`, `pc[t]` that of the
client thread of connection `t`. A client thread reads its socket through a pointer
to the listener's local variable (`CopyConn`): that a second accept may come first
is in the model. Of a command only what threads share is kept: whether it sets
`ftp_working` to 0, 1 or 2, and in which order. The control thread's test and
assignment are two steps. Sockets may fail to bind, threads to start, and the network
goes down under everybody (`NetDown`).

### FtpQueue

`cqueue++; while((cqueue - 1) > itemp);` is a load, a store and a wait, and the
return is a load and a store. Neither counter is volatile, so a compiler may drop the
loop: `waits` is either, for a whole behaviour. The clients are served last come,
first served, so that a stream of new commands keeps an old one waiting for ever;
`MaxCommands` ends the stream, and `Answered` is said of what then happens.

### FtpSession

`session[c]` gathers the variables of `client_thread` that live across commands;
`asked` and `named` are what the client means, kept apart from the code's variables:
the position of a REST not yet used, the path of a RNFR not yet renamed. `xfer` is
the transfer under way or the last one, with the file as it was before. A transfer
is the open (`Start`), the data connection (`Connect`), one step per block, and the
close; the clients interleave between any two. `files` is the kernel's table of
descriptors, whose numbers are reused at once; those of the NTFS library are apart.
`fd` is an uninitialized local, and an open that fails leaves in it what was
there: nothing, or the client's previous descriptor. Commands that keep nothing are one
action, `Other`. A failed receive or read on an NTFS drive repeats the same loop for
ever and is no step of the model.

### FanControl

The area in kernel memory that the program and the plugin share is two words, the speed and the
switch, in one unit of eight bytes: `Peek` and `Poke` are the halves of `lv2poke32`. `Init` is
the area as the poked payload leaves it, with the switch at 2 (`AreaPoked`,
`src/payloads/payload_sm.S`), so that the first call of `set_fan_mode` meets a plugin that pokes.
`front` follows `set_fan_mode`, `plugin` a tick of `fan_manager`. Temperatures are the number of
thresholds reached; band 1 is that of the hysteresis. A user's choice is not made within the few
system calls of a `lv2poke32` (the guard of `SetFanMode`), but the program's own writes, 100 ms
later, may fall there and do.

### FanPayload

Each process has a thread that sends and one that receives; a step is one store
of a hook. What the steps compute is left out, and which of them follows is kept.
Once two hooks have passed `in_use` at once the model stops (`races = {}` in
`Next`): nothing of the rest is kept apart any more.

## Runs

The runs of `MCFastCopy` use two queue slots, a buffer of 2 units, fragments of
4 units and splitting from 8 units on. Two slots are enough for the queue to be full, to be
processed from `fast_copy_add` and once more at the end, and for one slot to be
written while the next is read; more slots repeat the same hand-over. Four units
are two buffers: the first write of a fragment, its last and the reset between
two fragments all occur; 8, 9 and 5 units give a file that ends on a fragment,
one unit later and on half a buffer.

| Run | Question | Result |
|---|---|---|
| `FastCopySafety` | every fault, both copy modes, five listings: type, descriptors, requests, fragments, count, buffers, refinement of `CopySpec` | holds |
| `FastCopyLive` | does the copy return, with nothing open or in flight? | holds without the faults and sources named below |
| `FastCopyJoinRace` | is joining split files completed when nothing fails? | no: `fl` is set after the read is issued (`fast_copy.h:663`) |
| `AsyncSafety` | every failure and the user's abort, two sessions, split and joined files: type, hand-over of the slot, no early close, contiguous outputs, files left open, termination | holds |
| `AsyncRefines` | without a failed write or an abort: refinement of `CopySpec`, and what a move has deleted is written or in the slot | holds |
| `RawSecIso` | does each command get its answer, with data of the right disc, through swaps, failures and a stop? | holds but for the named windows |
| `RawDisc` | do all reads, through both caches and after failed and short reads, give the image? | holds but for the named errors |
| `FtpServer` | do connections, activity and stop stay right over two starts? | holds but for the named windows |
| `FtpQueue` | do the counters balance, and does everybody get a turn? | holds while no increment is lost and no ticket kept |
| `FtpSession` | are "226", renames and the ownership of sockets and descriptors right? | holds but for the named hazards |
| `FanControl` | does the plugin override the user at most once more, and does the fan come to its speed? | holds unless a switch was undone |
| `FanPayload` | is only own memory written, and does the chain of steps go on? | holds until two hooks hold `in_use`; the race itself is excluded |

The runs of `MCAsyncCopy` use files of 0 to 3 chunks: none, one that is first and
last, and enough for the slot to be refilled while a file is open. Two sessions
let the second find the slot as the first left it. Sources have at most 3
fragments (`MAX_FRAGS`, 99 in the code): one task reaches that limit, where the
copy waits for the slot and closes the output, and one stays below it, where it
does neither. `OpenAtEnd` says exactly which descriptors stay open between
sessions: those of empty files, of joined files and of failed sessions.

The listings of `FastCopySafety` fill the queue twice (`SmallFiles`, with an
empty and a double-buffered file), split at and past the threshold
(`SplitFiles`, `SplitLonger`), and join both kinds of split source (`JoinFiles`,
`JoinParts`). `FastCopyLive` leaves out a failed read, which never ends, and a
failed open for writing, after which the descriptor opened for reading is lost
(`fast_copy.h:466`); `FdAccounting` says of that fault exactly what is lost. It
also leaves out split sources, because of `FastCopyJoinRace`.

`ImplementsCopy` maps the concatenation of a file's output fragments to the
abstract destination, `missed` to the files that are `short`, and the end of `my_game_copy` to its
result: every step of the engine is a write that extends the right file by the right units, a
stat that misses the end of a file (`Miss`, with `stat` among the faults only), or a
stutter, and success is reported only when each file is whole or short. `AsyncCopy` implements
the same module with `MayMiss` FALSE.

`RawSecIso` has all four kinds of image, two discs and three moves of the tray: an eject, a swap
to the second disc and one more eject; two tries of a read are the first and the last. `RawDisc`
has sectors of 2 units, CD sectors of 7 with 4 of data after a header of 1, and a CD cache of 2:
a CD sector is no multiple of a device sector, as 2352 is none of 512, and some end on one. The
image is two fragments with a hole between them, and one CD sector lies across the end of the
first and the hole; commands of 1, 2 and 3 sectors are shorter than the cache, as long, and
longer. The device is replaced once, and two reads fail (`MaxFails`): one may tear a cache and
the next one meet it. After a hazard of `faults` no further command is served but a restart
clears it, as the plugin's does.

`FtpServer` has two clients, commands and starts: a second accept while the first
thread is young, one command against another's transfer, and clients that outlive a
stop. `FtpQueue` has three clients, so that one waits while two change the counter at
once. `FtpSession` has two clients, on drives of either kind, with a file of two units
each, and three commands between them, which is what PASV, REST and RETR need and what
two interleaved transfers and a third command of a stale descriptor need; with more the
same steps repeat on one client. `FanControl` has three thresholds (cold, hysteresis,
hot, hotter), three choices of the user, two changes of temperature and one failure;
`FanPayload` two processes, so that either hook of one meets either hook of the other.

`CHECK_DEADLOCK FALSE` stands where the system may stop: the copy or the
server is over, or the bounds are used up.

**Fairness.** The fast copy's loop never blocks, so it is weakly fair as a
whole; the AIO thread answers each accepted request, so the completion of each
slot's read and of its write is weakly fair. In `AsyncCopy` both threads are
weakly fair: each runs, and waits only by polling or for a message. In `RawSecIso` the
three threads are weakly fair, the kernel takes a result that is there, and a file that is
opened again and again, or read, succeeds at last when its medium is there (strong fairness of
`Reopen` and `FileRead`: the loop at `main.c:579` has no other end). In `RawDisc` a
command goes on. In `FtpServer` the threads run, a stop goes on, a receive on a dead
socket returns, and a transfer ends; whether a client ever sends or leaves is its
own choice. In `FtpQueue` each thread runs, and in `FanControl` the program and
the plugin. In `FanPayload` time passes, a hook that is entered is left and processes
keep making system calls, as every process of the console does. Failing, the tray, the
temperatures and the user are never forced.

Each property of a passing run has a mutation of the code that breaks it
(`PROJECT.json`, "mutants"): a queue one too long, a descriptor not counted, a
file opened too early, a request not cancelled, a write not waited for, a disc
changed without a look at `do_run`, an overlap with the cache one sector short,
the activity of a transfer not announced, a ticket returned twice, a position
that survives PASV, a switch that is not copied, a mark that is not taken away.

## Proofs

`FastCopyProofs` proves for every queue length, buffer size, fragment size,
listing and set of faults allowed by the assumptions of `FastCopy`: type
correctness (`TypeCorrect`), the accounting of descriptors (`FdsAccounted`), one
file at a time (`OneFile`), no close under a request (`RequestsSafe`), a clean
return (`ReturnsClean`), the stability of a buffer being written
(`BufferSafe`), the count of files (`FilesCounted`), the sizes of the
fragments (`FragmentSizes`), and that the engine implements `CopySpec`
(`CopyImplemented`).

None of these is inductive. They all rest on the relation between three things
the code never states: which slot the loop works on, which descriptors it holds
and which requests and flags are active. `IInv` states it in parts:

* `FdInv`: the open descriptors are those the slots hold, and the count is their
  number;
* `SlotInv`: only one slot holds descriptors, and a slot with a request holds
  the descriptor it needs;
* `LoopInv`: in the loop, how `fl`, `fast_read`, `fast_writing`, `i_reading`,
  `cur_r` and `cur_w` determine each other, split into the busy, idle and
  reading cases;
* `RestInv`: outside the loop nothing is in flight;
* `LenInv`, `QueueInv`, `DataInv`: lengths, the queued slots and the buffers.

Each part is preserved by each action, proved action by action, and the theorem
`Inductive` combines them. TLC checked every part as an invariant before it was
proved. The cardinality of the set of descriptors is handled by lemmas on what
opening and closing one or two of them does to it.

Two more invariants stand on `IInv`. `CountInv` says that as long as nothing has failed,
`file_counter` and the slots that are not yet written make up the files the walk has passed;
it has to hold across the calls from inside `fast_copy_add`, which is why it also says who
called and how the loop was left. `SplitInv` is about a file that is split: each queued slot
has an entry of its own for which nothing is written before it is opened (`OwnInv`), and the
slot that writes has full fragments behind it, `giga_counter` units in the last one, and, until
the last read of the file, a whole number of buffers there (`SplitSlot`). A fragment being a
whole number of buffers too (`RatiosAssumption`: 1 GB and 2 MB), what is below its size has room
for one buffer more, and this is the only reason why no write ever crosses the end of a
fragment: the code tests `giga_counter` after a write and never before.

The refinement maps a file's destination to its output fragments end to end, its source to
the source fragments end to end, and the status to `pc` and `failed`; the later fragments of
a split source are empty files of the abstract copy. `EndToEnd` is defined by counting: a
unit's place in the file is its index in its fragment plus the number of units in the
fragments before. So what happens to it when the last fragment grows or a fragment is
added follows from the cardinality of a set, without an induction over the fragments; TLC
compares it with `FlattenSeq` (`EndToEndJoins`). The invariant `CopyInv` says where every
unit is:

* `InPlace`: every unit at the destination is at the place it has in the source. With the
  count of the units (`Total`) this is what makes the destination a prefix of the source.
* `WriteSides`: the slot that writes does so in its last fragment, `writed` counts what is
  there, and a write that is issued sends the units that come next, within the file.
* `ReadSides`: the slot that reads is in the fragment its descriptor names; `off_readed` and
  `len` are where that fragment starts and ends in the file, so that `offset` is right in each
  of them; the buffer holds the units just read. Once it does not read any more `len` is the
  length of the whole source, so that `writed = len` is the end of the file.
* `NewSlots`: what `fast_copy_add` fixed in a queued slot, in the order of the listing.
* `Ordered`: while nothing has failed, each file the walk has passed is complete or queued,
  or in `missed`, not before `cur_w`. Together with an empty queue at the end this is that success
  means that each file is whole or was cut short by a failing stat.

It rests on `BufferStable`, on `SplitInv` (a split output has no room between its fragments) and
on `CountInv`. One lemma says that no step but `WriteTransfer` changes the destination and that
this one appends one chunk of at most a buffer; it is a `Deliver` of `CopySpec`, an entry put
into `missed` a `Miss`, the end its `Succeed` or `Fail`, and the rest stutters. The theorem
assumes `JoinsAll`: the first fragment of a split source fills a buffer. A slot without a double
buffer is done after its first read (`fast_copy.h:678`), so the rest of such a source is left out
while success is reported: one of the known weaknesses. TLC checks that the listings of the runs
satisfy it (`JobsJoined`).

`AsyncCopyProofs` proves for every task, number of fragments and set of faults that the slot
is handed over (`HandedOver`), that no job finds its file closed (`OpenForItsJob`), that only
the named outputs are open between sessions (`ClosedAtEnd`), that outputs have no holes
(`NoHoles`), and that every variable keeps to its type (`TypeCorrect`). All but the last
assume `Prompt`: a job is received before the end of a session is tested. That what a move
has deleted is copied (`DeletedIsCopied`) needs also that no write fails, the user does not
abort, and all fragments are found (`Seen`, the faults of `AsyncRefines`): with the others the
code deletes sources it has not copied (see the known weaknesses).

* `Handover`: exactly one job is going to read the slot while `ENABLE` is set, and none
  otherwise. The first chunk of a session is sent without a look at the slot, so `HandInv`
  adds that a session leaves the slot free (`FreeInv`), that this holds because at `endwait`
  the job has been received (`EndWaitInv`) and the event thread's flag tells when it is done
  (`WorkingInv`). Lemmas say what sending and receiving do to the jobs in the queue.
* `NoEarlyClose`: three parts of the program close an output, the job of its last chunk, a
  job that met an error, and the copy thread after a joined file. `CopyInv` says where the
  copy thread is in its task (`PlaceInv`), that the slot names no output beyond that place
  (`SlotPast`), that a job about to close an output is that of its last chunk (`LastIsLast`),
  and that an output that lacks chunks is open, or an error is in the slot which the copy
  thread sees before it sends the next one (`OutputOpen`, with `ErrorKept` for the moment in
  which the event thread has its own copy of the flags).
* `OpenAtEnd`: `OutputInv` gives each open output a reason: nothing closes it, its session
  failed, a job will close it, or more chunks will be sent to it. Between sessions the last
  two are gone, because the slot is free. `SourceInv` does the same for the source.
* `Contiguous`: which chunk follows which is defined between neighbours (`Follows`) and not
  by comparison with the whole source, which would need induction. `OrderInv` states the same
  of the outputs as they will be once the slot's chunk is written (`Ahead`): a write then
  changes nothing in `Ahead`, and sending appends to it the chunk at the copy thread's
  position. That this is the next one is `ReachInv`: the outputs reach as far as the copy
  thread has come, unless a write has failed (`WriteFailed`, also when the error is still in
  the event thread's copy of the flags or the slot has no memory). After that nothing is sent,
  because the next chunk is preceded by a look at the slot. `UnlinkedPast` and `ShapeInv` say
  that deleted outputs are not written again and that outputs exist up to the piece in work.
* `MoveKeeps`: under `Seen` nothing ever sets `ERROR` (`NoFailure`), so `ReachedSoFar` holds
  until the copy of a file returns 0, when it says that the file is complete (`CopiedInv`).
  What is removed was just copied, and no later step touches the outputs of a file that was
  left (`RemovedInv`).
* `ImplementsCopy`: the first session of a task implements `CopySpec` (`CopyImplemented`),
  under `Prompt` and `Seen` and if the task has a session at all. The chunks of a file are its
  outputs end to end, so the lemmas of `EndToEndProofs` apply again, and the status is the
  result of the session. `UnitInv` states the content of the outputs twice, as they are and
  as they will be with the slot's chunk: in both every chunk is at its place in the source
  (`PlacedInv`). The slot's chunk is one of the current session (`SlotNow`), what is written or
  in the slot is exactly what the copy thread has passed (`CameInv`), and of the files it has
  left nothing is missing but the chunk in the slot (`PassedInv`). A chunk sent changes
  nothing in the files; the write of it is a `Deliver`; and because the slot is free when a
  session ends, its end with result 0 is a `Succeed`. The faults `Seen` leaves out can break
  this: the known weaknesses say how.
* `TypeOK`: the proof needs `PlaceInv` alone, since the positions stay within the task
  whatever the slot does.

`RawProofs` proves of `RawSecIso`, for any images, discs, moves of the tray, tries and
`MovesAfter`: the types (`TypeCorrect`), that a result is right for its command
(`AnswersAreRight`), that the console is not powered off but by a stop (`PowerIsKept`), that
nothing is left after a stop (`NothingIsLeft`) and that a disc is changed between reads
(`SwapsWait`). There is no lock, so the invariant follows the stages of a swap. The image is
taken down before the queue goes (`ImageDown`); the queue goes before the wait for `do_run`
(`QueueNamed`, `SwapInOrder`); after the wait there is no command and none can come
(`ReadAlone`), and only then the disc changes. `OneCommand` says that the kernel, a queue and
main never hold two commands, `RightDisc` which disc the data in the buffer are of, and
`QueuesGone` which queues are left at a stop. Each of them holds but for the slips it names.

Of `RawDisc` it proves, for any sections, sizes of sectors and caches, commands and number of
devices, that an answer is the image (`DataIsRight`), that the CD cache holds the sectors its
number says (`CdCacheIsRight`), both whatever part of their data failed reads have brought, where
none of the five hazards of `faults` was met; and
that nothing goes past the end of a buffer (`ReadsStayWithin`) and the types
(`DiscTypeCorrect`), whatever was met. From the constants it assumes only that a CD sector has
room for its header and data. The argument has three parts.

* The image. `ReadsImage` says that what `get_next_read` finds is inside one section, and that
  the units which the three branches of the loop then take are those of the image. It rests on
  sections that follow each other without overlap (`SectionsApart`), which is arithmetic on
  `StartOf` of `EndToEnd`, the same operator that places the fragments of a copied file. So
  the three kinds of read are one step, `Fetch`.
* The jobs. `DiscInv` follows the list of what is left to do: each job reads what its part of
  the answer needs (`PlanInv`); a unit of the answer is in the buffer, or a job is yet to bring
  it, or it is in the part the fill of the CD cache will bring (`DataInv`). The moves of a 2048
  command read what the raw read has put in the same buffer, so `DataInv` says also that a unit
  still to be moved is there, and `Order` why the moves before it have not written over it:
  data move towards the front. `CacheInv` says the same of a CD cache that is half filled:
  new sectors up to the place of the fill, and behind it those of its old number, which is
  what a failed fill leaves. The hazard `torn` is a fill that has overwritten something of a
  numbered cache, be it in its first read; one that has overwritten nothing leaves the cache right.
  A command that was `wrapped` plans nothing the jobs could follow, so its jobs are bounded by the
  size of the cache alone (`WrappedKeeps`).
* The commands. Each is shown to plan jobs that cover its buffer: for 2352 this is that the
  overlap of a command with the CD cache and the part that is missing make it up
  (`MissingIs`, `FromCacheIs`), and that the part missing is at the front of the cache once
  it is filled.

`FtpServerProofs` proves for every number of connections, commands and starts that
each open connection has exactly one thread (`Served`) and that the activity covers each
transfer (`Seen`). Neither is inductive: `ServiceInv` adds that thread and connection have
the same number unless one has gone astray, and `ActiveInv` that a transfer keeps
`ftp_working` at 1, since at 2 or 3 the control thread would turn it into 0. The types
(`TypeCorrect`) are proved apart.

`FtpQueueProofs` proves that the counters balance (`QueuesBalanced`) for every number of
clients, commands and blocks; `IInv` adds which queue a thread is in at each place,
and the lemmas follow the cardinality of the two sets of ticket holders.

`FtpSessionProofs` proves three things for any number of clients, commands and
descriptors, and for files and uploads of any length. A rename renames what was named
(`RenamesTheNamed`): the invariant `Waiting`
says that while a path is named it is in `tmp_path` and `expectcmd` is `RNTO`, so that no
other command that writes `tmp_path` gets in between. Every handle is owned
(`HandlesAreOwned`): `SocketInv` follows the sockets over each command, and `OwnInv` adds
to `HandlesOwned` that no two transfers share a number, without which the close of one could
take the descriptor of another. And "226" is the truth (`RepliesAreTrue`): `RestInv` says that
the position in `rest` is the one the client has asked for while a data socket waits, so that
a transfer starts where it should; `UnderWay` that the units sent are those between that
position and `pos`, or that what is in the file and what is still to come make up the whole;
and `OwnInv` that the blocks go to the client's own file. Six lemmas say what cutting,
filling, writing behind the end and taking the next unit do to a sequence.

`FanProofs` proves that the plugin overrides the user's choice at most once
(`UserTakesBack`). `SwitchOff` says that the switch in the area stays off from `Disable`
on, because a poke that would set it again is a lost switch; `LastOverride` that a plugin
which has set the fan since is about to copy that switch, or has. The types (`FanTypes`)
need a fact of their own, `Poking`: a plugin that is about to poke has a speed of the table.
Every fifth time it forgets the speed, but the next copy brings one back before it pokes.

It proves for every set of processes too that the temperature is written to
the memory of the process that measures it (`MeasuresOwnMemory`). The invariant adds what
`in_use` is for, one hook inside at a time, and what receivers store and senders load: whoever
finds a process in `mem_app` finds the same in `pid_app2`, but between the two stores
that clear them.

Only model-checked: liveness (`Terminates`, `Answered` and the other properties under fairness),
which is out of the prover's reach, and `JoinCompletes`, which `FastCopyJoinRace` refutes. Every
invariant and every action property of the runs is a theorem. The type invariants of `FtpServer`,
`FanControl` and `RawDisc` are stated with their properties and proved, and the types of
`RawSecIso`, `FtpQueue`, `FanPayload` and `FtpSession` are parts of the proved invariants, as far
as the proofs need them; no configuration lists them. `Base` of `RawDisc` and `StartOf` of
`EndToEnd` are defined by counting, not by recursion, for the sake of these proofs.

## Known weaknesses of the code

What modelling brought to light. Where a run shows it, or a slip names it, this is said.

* Fast copy: a failed asynchronous read never ends the copy (`fast_copy.h:353`, the
  callback returns before it sets its flags; `FastCopyLive` leaves the fault out). The
  fragments of a split source are not joined when the first is shorter than a buffer
  (`:678`). Between the issue of a joining read and `fl = 2` (`:663`) a callback is lost
  (`FastCopyJoinRace`). A stat of the next fragment (`:610`) or of `.1.part` (`:201`) that fails for
  any reason ends the file there, and the copy succeeds with a destination cut short (`missed`).
* File copy: a write of the last chunk that fails before the final test is reported as
  success (`file_copy.h:727`). A move aborted while its last chunk is in the slot deletes the
  destination and then, since the copy still returns 0, the source (`:964`). Moving a split
  source reports an error, because the path has become that of its last fragment (`:308`).
* Raw ISO: slips `early`, `late`, `reopened`, `silent`, `orphan`, `revived`, `unserved` and
  `spin`: the disc taken out before the first mount, a look at `do_run` before it is raised
  (`main.c:1014`), a read that opens the old disc after the eject thread closed it, a device
  error that takes nothing down (`:941`), a queue created or a flag set after the stop has begun
  (`:1032`, `:1033`), a mount nobody serves (`:1242`), and a retry that never looks at the stop
  (`:603`). Faults `unfilled`, `replaced`, `torn`, `wrapped` and `ignored`: `last_sect` set by a
  read that went elsewhere (`:441`), kept across a change of the device (`:906`), the number of
  the CD cache kept after a fill that failed, or came short in its first read (`:438-445`,
  `:837`), sector 0 found in a cache without a number, because 0x80000000 - 0 has no absolute
  value (`:731`, `:771-841`): wrong data are answered OK or written past the buffer, and errors
  of a read of 2048-byte sectors dropped (`:744`).
* FTP: slips `stray` (the address of `conn_s`, `server.c:59`), `hidden` (another's NOOP ends the
  activity of a transfer, `client.c:145`), `nodata` (425 leaves by `continue`, with the file open
  and the activity on, `:1097`), `deaf` (a failed bind), `lost` and `kept` (tickets, `:116`,
  `:140`, `:781`). In a session: `unseen` (`send` and the NTFS write compare -1 as a `u64`,
  `:1493`, `:1141`: "226" for what never left; a receive that fails on an NTFS drive is repeated
  for ever), `unread` (a failed read ends like the end of the file, `:1482`), `truncated` (a
  resumed STOR to an NTFS drive opens with `O_TRUNC`, `:1059`), `kept` (REST survives its
  transfer when no PASV or PORT follows), `unnamed` (RNTO without RNFR renames what was listed or
  made last, `:1652`), `stale` (an uninitialized `fd` is closed, `:1282`).
* Fan control: slip `lost`, a switch undone by a `lv2poke32` (`sm_monitor/main.c:127`). The
  program waits 100 ms for a plugin whose tick is 400 ms (`controlfan.c:719`): a plugin that has
  copied the switch before (`sm_monitor/main.c:217`) sets the fan once after the user's choice,
  and the fan then keeps the plugin's speed until the next choice. `TakenBack` allows this one
  override and no second. `temp_control_backup` has five places for the six of `temp_control`
  (`controlfan.c:680`, `:879`, `:1457`, `:1545`). Without a configuration file `load_config`
  calls `set_fan_mode(PAYLOAD)` while `fan_mode` is `DISABLED`, which returns at once (`:830`).
  The lowest speed a user can choose, 0x33, is also the start speed, so that the plugin takes it
  for set (`lowest` in the model). `usb_enable` is never set, and `UsbWakeup_tick` never runs.
* Fan payload: after a race for `in_use` TLC finds the write of the temperature to another
  process; the run stops at the race, so `MemoryOwned` says what holds without it and does not
  show the race harmless. `sys130` means to remove its mark from an event and does not: 215-216
  of `ps3_controlfan.S` store 0 in `VAR_R5` instead of `VAR_R6`, and the test for infinite
  timeouts (199) looks at r6 instead of r5. With `enable` at 1, which the program never writes,
  step 3 would stay for ever (566-568).

## What is not modelled

In the file copy: links and the update mode (`copy_mode`), moves within a drive, which only
rename, the ISO archive copy (`src/source/file_copy.h:751-884`) and the free space test. In the
fast copy: the filter of files copied to the cache (`copy_split_to_cache`), the renaming of
characters a drive does not accept, the progress display, and directories (a listing is flat: a
subdirectory is walked by the same calls in the same order). In the raw ISO plugin: images that
are split between a file and raw sectors, LEDs and fake insert events, and that the number of a
descriptor closed under a read may be taken by another open. In the FTP server: the current
directory and the paths made from it, the lines of listings, and SITE (chmod, copy and paste,
shutdown). In the fan control: LEDs, wake-up of USB disks, the screens and their tables, which
end up in the constants.

Most of the repository is left out, because what it does has no state that interleaves:
the menus, lists and pages of `main.c`, dialogs and drawing, the hex editor, the archive
wrappers and the console tools are sequences of library calls and user input; the payload
loaders poke constants at firmware-specific addresses, whose effect is in no source here; and
vendored libraries (FatFs, NTFS, zip, PolarSSL) are not the program's own. `PROJECT.json`
gives the reason for each component.

## Plan

Done: `FastCopy`, `AsyncCopy`, `RawSecIso`, `RawDisc`, `FtpServer`, `FtpQueue`, `FtpSession`,
`FanControl`, `FanPayload`. Next, in this order:

1. `IsoSplit`: extents and 4 GB pieces of `iso.c` as functions with reference definitions, and
   the section maps of fragmented images.
2. Mounting and the copy to the cache as a protocol over mount points.
