# vi_tools: TLA+ models, model checking and proofs

`vi_tools` is a set of independent command-line tools, each one C or C++ file.
Most of them are a page of system calls. Those that keep state, or share it with
another, are worth a specification, and this directory holds it: `fstest` (a file
system tester built on XOR sums), `udptimeoutchecker` (a probe of NAT timeouts,
client and forking server), `udp_ts_seq_reply` (a probe of delay and loss, two
client processes and a server), `udppair` with `udpfilepecker` (a UDP relay and
a remote control behind a NAT), `lease` (file leases) and `bpg2hevc` (a converter
of image headers). Line numbers below are those of the sources under `src/`.

## Inventory

| part | state | operations | talks to | hard behaviour | what makes it correct |
|---|---|---|---|---|---|
| `fstest.c` | nine XOR sums, two buffers, position in the file, SIGINT count | `update_xor`, `safe_fileop`, `insert_block`, `insert_chain`, `cleanup`, `int_handler`, `main` | the file system under test (pread, pwrite, fsync), `/dev/urandom`, SIGINT | short reads and writes, end of file, EINTR, errors, a signal between any two steps, a file that had contents before | "OK" only if nothing single was corrupted; "fail" only if something was; it ends |
| `udptimeoutchecker.c` client | bracket, failures in a row, three results | `try`, `one_experiment`, `probe` | server over UDP through a NAT | replies without identity, receive timeouts racing late replies, lost and duplicated datagrams | prints what the NAT does, one lost datagram does not change it, it ends |
| `udptimeoutchecker.c` server | one forked child per request | `serve1` | clients | children answering concurrently, fork failing, seconds the client chose | B at once and A after the asked sleep |
| `udp_ts_seq_reply.cpp` server | maps `seqs`, `lastseens` | `serve1` | any UDP client | entries forgotten after 60 s, shared ids, restart | numbers of a client are consecutive |
| `udp_ts_seq_reply.cpp` probe and measure | `seq_`; `seq3`, `previp`, `prevport`, `outage_reported`, `minrtt`, `basets2` | `probe` (child), `measure` (parent), `signal_handler` | server; each other through the shared socket and signals | loss on either way, NAT rebinding, delay, server restart, clocks apart, refused sleeps, signals to one or both processes | losses and delays printed are those that happened, OUTAGE and NEW_* only for a cause; packets leave on schedule; neither process outlives the other unnoticed |
| `timing_mach.c/.h` | none (two static time bases on macOS) | `timespec_add/sub`, `clock_nanosleep_abstime`, `itimer_step` | the clock | normalisation of nanoseconds | arithmetic on normalised times |
| `udppair.c` | last peer on each of two sockets | main loop over `select` | two UDP peers | a packet before the other side is known, both sockets ready at once | a datagram goes to the last peer of the other side |
| `udpfilepecker.c` | none but the socket | `serve1` | controller, NAT, file descriptors | pecks happen only after a silent period, which begins anew when the process is stopped and continued | the NAT mapping stays alive, or is made again |
| `lease.c` | lease on a file, SIGIO handler | set, get, remove lease, run a command on SIGIO | kernel leases | SIGIO before `pause`, exec in a handler, a second SIGIO, a lease that outlives its process | the command runs at the first conflicting open, and opens wait for it |
| `bpg2hevc.c` | input position | `ue7_32`, `build_msps`, `main` | stdin, stdout | truncated input, padded numbers, pairs of zeros anywhere | the header is the one meant, its payload contains no start code and can be decoded |
| `cgroup_memory_pressure_monitor.c` | eventfd counter | register, read and print | cgroup v1 | EINTR, coalesced events | every event is counted in a line |
| `mempig.c`, `uksm_tease.c`, `runso.c`, `dump_tc_stats.c`, `scripts/*`, `Makefile` | none | straight-line system calls | kernel, dlopen, libnl, tc | none | pure I/O |

The tools do not call each other. Where two processes interact they are in one
program: the client and the server of the two UDP probes, and the parent and
child of `udp_ts_seq_reply probe`. `udpfilepecker` is meant to be used with
`udppair` (README.md:59).

## Modules

| module | models | state and actions |
|---|---|---|
| `XorHash` | `struct state`, `update_xor` (fstest.c:57-69) | a byte is the set of its 1 bits; `UpdateXor`; `HashOf`, the reference definition by parity |
| `FsTest` | all of fstest.c | `pc`, `mode` and the loop variables are the program's position; one action per iteration or exit of each loop, per outcome of a system call, and for SIGINT; `Flip` is the file system corrupting a byte |
| `FsTestProofs` | theorems about `FsTest` | |
| `TimeoutSearch` | `one_experiment`, `probe` (udptimeoutchecker.c:104-162) with a try as one step | `Answered`, `Unanswered`, `Report`; also the abstract specification of the whole checker |
| `TimeoutSearchProofs` | theorems about `TimeoutSearch` and `UdpTimeoutChecker` | |
| `UdpTimeoutChecker` | `try`, `serve1`, main loops, network, NAT, time | EXTENDS `TimeoutSearch`: the variables of the search move with the steps of a try |
| `TsSeqServer` | `serve1` of udp_ts_seq_reply.cpp: the two maps | operators for the two modules below |
| `TsSeqClients` (`MCTsSeqClients`) | that server with arbitrary clients | `Packet`, `Second` |
| `UdpTsSeq` | a session: probe, server, measure, network, NAT | `SendProbe`, `Serve`, `Receive`, `ReceiveTimeout`, faults, `Tick` |
| `TsSeqServerProofs` | theorems about `TsSeqClients` | |
| `UdpTsSeqProofs` | theorems about `UdpTsSeq` | |
| `UdpPair` | all of udppair.c but the set-up | `turn` is the place in the loop, `rfds` what select returned; `Select`, and per socket `Skip`, `Relay`, `DropCorrupt`, `NothingThere` |
| `UdpFilePecker` | `serve1` of udpfilepecker.c and its timeout | operators for the next module |
| `PeckedRelay` (`MCPeckedRelay`) | both, a NAT, a controller, losses, failed pecks, restarts of udppair, stops of the pecker | `Relays`, `Deliver`, `PeckerReceives`, `PeckerPecks`, `PeckFails`, `PeckerStops`, `SendCommand`, `Second`, `Lose`, `SendDamaged`, `PairRestarts` |
| `PeckedRelayProofs` | theorems about `PeckedRelay` and, in it, `UdpPair` | |
| `OpenGate` | what lease.c promises: a gate in front of a file | `Place`, `Ring`, `Enter`, `Leave`, `Run`, `End`, `Pass` |
| `Lease` | all of lease.c, the kernel's leases, processes that open the file | `pc` is the place in `main`, "command" after exec; `Call`, `InstallHandler`, `OpenFile`, `SetLease`, `RemoveLease`, `Sigio`, `SigioKills`, `CommandEnds`, `Returns`; `Open`, `Opened`, `GoesAway`, `Tick` |
| `LeaseProofs` | theorems about `Lease`, and that it implements `OpenGate` | |
| `Bpg2hevc` (`MCBpg2hevc`) | all of bpg2hevc.c | one action per byte of a number, per pair of zeros and per byte copied |
| `Bpg2hevcProofs` | theorems about `Bpg2hevc` | |
| `Timespec` | the arithmetic on times of timing_mach.h and udp_ts_seq_reply.cpp | operators, with `Value` as the reference |
| `ProbePacing` | `probe`, the child of udp_ts_seq_reply | `Begin`, `Send`, `Sleep`, on a Mac `Emulate` and `Nanosleep`, `Wake`; `Tick` anywhere between them |
| `ProbeClient` | both client processes: fork, signals, outages, the reader of the output | EXTENDS `ProbePacing`; `Fork`, `InstallHandler`, `Terminate`, `Interrupt`, `Receive`, `Timeout`, `ChildDies`, `ReaderLeaves` |
| `ProbeProofs` | theorems about `ProbePacing`, `Timespec` and the ends of `ProbeClient` | |

Definitions whose comment begins with "Faulty variant" are not part of any
specification. Each is a definition as a plausible bug would change it, kept
next to the right one: with it in place of the right one the property named in
`PROJECT.json` ("mutants") is violated, which shows that the property says
something about that code.

### How state and actions correspond to the code

*fstest.* `pc` and `mode` are the place in the program: "read", "xorout",
"write", "xorin" are the four loops of `insert_block` (118, 121, 126, 129),
"chain" is the loop of `insert_chain` (212), "iterate" the loop of `main` (361),
"cleanup" the loop of `cleanup` (280) with `mode` saying who called it. `done`
is how far the current loop is, so that a signal or a corruption can fall
between two bytes. `pos` is `off` or `offset`. `newdata` is `buf2`, which a chain
leaves to the next one beyond its length. `disk` is what the file system holds,
zero beyond the end of the file, which is what pread and a later write of a hole
return. The contents written by `generate_block` are any bytes. Random numbers
are any value of their range; the negation of the most negative offset (202)
is not modelled. fsync, progress output and the EINTR and EAGAIN retries of
`safe_fileop`, which repeat the call with unchanged arguments, are left out.

*udptimeoutchecker.* Time is a counter of ticks, `Sec` of them in a second.
`queue` is the client's socket buffer, which survives from one try to the next;
`up` and `down` are datagrams on their way (bags: they may overtake each other),
`children` the forked processes with the sleep they have left. A NAT drops
replies when the mapping was idle for more than `natTimeout` ticks; incoming
datagrams may or may not count as use. `old` marks what belongs to an earlier
try, which only properties read. Both sleeps of `serve1` are relative, as in the
code; the first is always 0 because `try` sends "0 0 seconds 0". The limit of
600 seconds (36) is never met by this client, whose largest timeout is 512, and
is left out.

*udp_ts_seq_reply.* In `UdpTsSeq` a tick is the time between two probes. `age` is
`lastseens` (time since the entry, `Never` without one), bounded because ages
beyond `Forget` are not told apart. Probes are sent one per tick, datagrams keep
their order, `report` holds the two numbers printed in columns 2 and 4 (337, 339)
and by how much the delay of column 3 (338) is off. Time stamps are not kept as
such: a reply knows how long it took on each way, and `apart` is the difference
of two clocks that `measure` computes (312), `skew` apart. `best` is `basets2 -
start`. Ports go through the expression of line 277 with signed bytes (`Shown`).
A recvfrom that has waited for `OutageTicks` times out with an empty socket, also while
replies are on their way back (`ReceiveTimeout`); the same goes for `Timeout` of
`ProbeClient`.
Lengths, the wrap of the numbers at 2^32 and the notice of a clogged output are
left out. In `ProbePacing` the clock is a number of nanoseconds, `Giga` of them in
a second, and advances between any two steps: the child may be late anywhere.
`ts_next` is a pair of seconds and nanoseconds as in the code, so that the ">" of
line 178 leaves a whole second of nanoseconds, upon which the sleep is refused.
`ProbeClient` knows of a reply only that it is printed.

*udppair and udpfilepecker.* An iteration of the loop of udppair.c is up to three
steps (select, one block per socket), between which datagrams arrive. A datagram
counted as readable may have a wrong checksum; recvfrom drops it and, the sockets not
blocking, may fail, upon which `main` returns 4 (80, 96). sendto to a peer not yet
known fails; the code takes it for a success (84), with no effect on the state. In
`PeckedRelay` time is in seconds, `silent` since the last call of recv
(SO_RCVTIMEO starts anew with each call), `idle` since the NAT last saw the mapping
used. Seconds pass only when nothing is under way: the network is fast compared
with the period. A command is a model value with the descriptor it names (`FdOf`);
the value written is the command itself. A pecker that is stopped and continued finds
recv failed with EINTR (what Linux does to a recv with a timeout) and starts its
period anew (`PeckerStops`). Nobody looks at the result of the sendto of a peck
(udpfilepecker.c:20). A peck that is not sent, or is lost before it comes to the NAT,
renews nothing, and the next comes a whole period later (`PeckFails`); one lost behind the
NAT has renewed the mapping (`PeckerPecks`). `skipped` remembers that since the mapping
was last used a peck failed or was put off by a stop. A restart of udppair begins with
empty sockets and, for `damaged`, a clean slate.

*lease.* A call is a sequence of steps of `main`, whose end closes the descriptor,
unless it is one of the shell (`@fdnum`). The kernel is modelled from what the code
relies on: an open that conflicts with the lease breaks it, down to ro for a
reader, to none for a writer; SIGIO goes to the process that first set it; the
opener waits until the lease is given up or `BreakTime` is over (O_NONBLOCK ones
do not wait but break it all the same). The command inherits a blocked SIGIO,
because it is started from within the handler, and the descriptor, so that the lease
lasts until it ends. Left out are a lease raised from ro to rw while it is there, a
break time changed meanwhile, calls at the same time, and children of the command
that keep the descriptor. In the refinement of `OpenGate` the gate is the lease and
the bell is `since`, the time since the first conflicting open.

*bpg2hevc.* The sizes of bytes, groups and ints are constants, so that TLC meets
overflow and padding with few values. What fread leaves unread is any byte. The
flags are a record, because their bits only decide about alpha and pass into the
header.

## Runs

| run | question | bounds |
|---|---|---|
| `fstest` | Do the sums follow the file and the verdict follow the truth? `SumsMatchFile`, `NoFalseAlarm`, `SingleFlipDetected`, `ResidueConserved`. Does every call bring the end nearer (`EveryCallCounts`), and does every run end (`Terminates`)? | one bit per byte (bits never mix), positions 0..5 with two position sums, blocks of up to 3, chains of 2 (wrapping), files that are empty, shorter and longer than the size, one corrupted byte, SIGINT any time |
| `search` | Is the search right about any NAT and up to three spoiled tries? `NeverOverestimates`, `MiddleHidesOneLoss`, `BadResultsBounded` | `Cap` 16, so that up to four doublings and three bisections happen; NAT timeouts below, between and beyond all candidates, in half seconds, jitter of half a second |
| `checker` | Do the client, the server and the network implement the search (`CleanStart`, `OwnReplies`, `ImplementsSearch`)? Does each try bring the client nearer to a result (`EveryTryCounts`), and does it come to one (`ProbeEnds`), whatever is lost or duplicated? | one fault: a lost or duplicated datagram, a failing send, fork or port; `Cap` 4 (three doublings, two bisections, timeouts of up to eight seconds); datagrams up to half a second old, in a session with a duplicate none |
| `checker_stale` | Is the printed delay one after which the connection works? (violation) | one duplicated datagram, no loss |
| `clients` | Are numbers per client and consecutive? `PerClientNumbers` | two clients with an id each, `Forget` 3 |
| `socat_session` | the same for the README's session (violation) | one client, packets "123" and "ABC" |
| `session` | Are the numbers printed right? `DelaysRight`, `TotalLossRight`, `SplitRight`, `NoFalseNotices`, `NoFalseOutage` | five probes, two losses, one rebinding among the addresses (of two ports one is shown as the other), one server restart, clocks two ticks apart or not, `Forget` 2: three ticks without a probe renumber the session |
| `session_losses` | the usage text's "measures loss" (violation) | three losses, no restart |
| `relay` | `InSync`, `Overtaking`, `StopsOnlyDamaged`, `KeepsUsedMapping`, `MissedForCause`, `Reconnects` of relay and pecker | NATs refreshed from both sides and from inside only, which remember exactly one period; two external addresses, three commands of which one names stderr, three a second (so that a queue of two is refilled while it is served); two of: a lost or damaged datagram or a failed peck, a restart, a stop of the pecker |
| `lease` | Do opens wait for the command, and does it run? `DelaysOpens` (the refinement of `OpenGate`), `NeverKilled`, `KnockHeard`, `KnockRunsCommand` | two readers, a writer (so that a lease is broken twice), three calls, three opens, a break time of 3 and commands shorter and longer than it |
| `bpg2hevc` | `HeaderRight`, `RoundTrip`, `EscapeInv` | bytes of eight values, ints of two bytes, numbers of up to four groups in minimal and padded encodings, data of up to three bytes, files cut anywhere |
| `probe` | Do packets leave on schedule (`OnSchedule`, `NotAhead`, `WarmupRight`, `TimesRight`)? Do the two processes end together, and is an end noticed (`ChildFollows`, `SilenceReported`, `EndsUnread`)? | four nanoseconds in a second, two seconds of small packets, delays of 0, 1, 3 and 4 (a whole second), two seconds in all, four packets, one reply on its way |

Fairness is weak fairness of the program's steps where a run needs it. In `fstest` the
program is always able to take a step until it exits, and the assumption says that
reads and writes make progress, that is, EINTR and EAGAIN do not repeat for ever. In
`UdpTimeoutChecker` it says that a blocked process wakes up when what it waits for is
there, that datagrams which are not lost arrive and that time passes; faults are never
fair. So it does in `PeckedRelay`; the controller is not fair either, and may send or
not. It also says that udppair is started again when it has returned, without which
nothing is relayed any more. In `Lease` processes that can go on do, and time passes;
nobody has to open the file. In `ProbeClient` the parent runs, its recvfrom returns
(it has a timeout, 528) and a signal sent is delivered; the child need not run at all,
and nothing is assumed about replies, the reader or the sender of signals.

## What the checks show

Three statements of the documentation are refuted by a run:

* README.md:76 says that it tests whether the connection still works. Replies
  carry nothing that ties them to a try (53, 55, 79-98). After one duplicated
  request each of the next tries reads the "B" of its own request and the "A" of
  an earlier, shorter one that arrives first. The mapping is then idle for less
  time than the try claims, and the number printed is a delay after which the
  connection does not work.
* README.md:133 says "per-client sequence number". Numbers are per first four
  bytes of the packet (68, 104), so every line of the README's own session
  starts from 0.
* udp_ts_seq_reply.cpp:399 says that `probe` measures loss. After more than 60 s
  without a probe reaching the server it counts from 0 again (90), and from then
  on the losses on the way out are shown as larger and those on the way back as
  smaller (negative) than they were. Their sum stays right (`TotalLossRight`).

Two more do not hold, as the modelled code shows by itself. fstest.c:254 says that
`cleanup` zeroes the file; it calls `insert_block` with mode 1 and only reads (281).
The test is still sound (`SingleFlipDetected`), because reading a byte a second time
takes it out of the sums. README.md:76 gives the range 2 to 512 for
udptimeoutchecker; it prints 0 when one second fails three times (127) and 1 when two
seconds do (129-134), but never more than the NAT allows (`NeverOverestimates`).

The other properties hold within the bounds and omissions named here. Worth knowing:
`CleanStart` needs a round trip shorter than the two seconds of slack in `try` (65). With
round trips of two seconds or more a try can end before its own replies arrive and the
next one reads them.
udpfilepecker pecks only after a silent period (udpfilepecker.c:17-19), not
whenever a period has passed. Behind a NAT that counts only outgoing datagrams as
use, frequent commands therefore let the mapping expire, and commands are lost until
the pecker, hearing nothing, pecks again (`Reconnects`). Behind a NAT that counts
both the commands themselves keep it (`KeepsUsedMapping`), but for a peck that fails or
is put off because the pecker is stopped and continued. If the NAT forgets after one
period, such a peck costs the address, and commands can be missed long after it. Once the
two are in touch, with no such peck since the last use, they stay so, and no command is
missed but in a step that is itself a fault, or when udppair has returned
(`MissedForCause`).

An OUTAGE line does not say how many probes were lost: a few of those that did not come
back in time may only be late, on the way out or on the way back. `NoFalseOutage` says
how few: with delays of up to `MaxDelay` periods on each way, all but `2 * MaxDelay + 1` of
the probes of that time are lost.

`DelaysRight`: the delays printed for the two ways are off by at most half the
shortest round trip, also when the first probes were slow on one way only. After a
reboot of the server's host in the middle of a session the base is stale and they are
off by the difference of its clocks. The port printed is wrong for half of all ports
(277), but two ports are still told apart, and so no NEW_PORT is invented
(`NoFalseNotices`).

`probe` sleeps by a time whose nanoseconds may be a whole second (178), for which
clock_nanosleep fails at once. The packet after it goes early by one delay, and no
more accumulates (`NotAhead`), but for a delay of exactly one second that begins at a
whole second (`Flooding`): then every sleep fails, and packets are sent without
pause. At rates where `delay_ns` is 0 the child dies of a division by zero (145), and the
user sees an OUTAGE (`SilenceReported`). A signal that reaches the parent between fork
and sigaction (505-516) leaves the child behind; otherwise the two end together
(`ChildFollows`). When the reader of the output leaves during an outage, nothing is
printed and so nothing ends (`EndsUnread` excepts it).

A command started by `lease` has SIGIO blocked; one that unblocks it is killed by the
second break, of a writer that follows a reader. With `@fdnum` and a command opens
wait for the whole break time, because the lease does not end with the command, and
a second call on a descriptor whose first process is gone never hears of an open.

## Proofs

TLAPS proves, for all values of the constants that satisfy the assumptions:

* `XorHash`, `FsTest`: `TypeCorrect`, `InductiveInvariant`, and from it
  `NoFalseAlarmHolds`, `SingleFlipIsDetected`, `SumsMatchFileHolds`,
  `ResidueIsConserved`. The argument: `Residue(p)` is what position p will have
  contributed to the sums when the run ends if nothing goes wrong any more (what
  was registered so far, XOR what the pending loops will register). Every step
  of the program leaves it alone; a corruption changes it at one position. The
  sums alone are not inductive, because in the middle of a block they belong
  neither to the old nor to the new contents. `SumsMatchRegister` links the sums to
  what was registered, by the parity lemmas `ToggleParity` and `HashStep`;
  `SingleByteShows` says that a single registered byte cannot vanish from all
  nine sums, thanks to the last one. `PlaceOK` keeps the loops within the file,
  so that both cleanups read the same positions.
  `EveryCallCountsHolds`: `Left` is a natural number that every step makes smaller. It
  adds up what is left of the block, the chain or cleanup around it and the phases of
  the run to come, each with the most it can take. A short read or write leaves fewer
  bytes, an end of file none, and a chain that wraps counts its blocks all the same.
* `TimeoutSearch`: `SearchInvariant`, `NeverOverestimatesHolds`,
  `MiddleHidesOneLossHolds`, `BadResultsAreBounded`, for any NAT, cap and number
  of spoiled tries. The strengthening is `Cost`: what the failures seen so far in
  the current experiment must have cost in spoiled tries, so that each bad
  result is paid for by a spoiled try of its own, and two bad results, which it
  takes to move the middle of three, by two.
* `UdpTimeoutChecker`: `CheckerInvariant`, `CleanStartHolds`, `OwnRepliesHold`,
  `ImplementsSearchHolds`, and from what is proved of the search
  `PrintedNumberIsRight`. `OwnRepliesHold` is about each reply a try reads, "B", "A" or a
  strange one: it answers the try's own request, and an "A" in the place of the "B" means
  that the "B" was lost (`MissedB`). As long as nothing is duplicated a try is at one of eight
  stages, from its request to "A" in the socket of the client, or something of it was
  lost (`InTry`). Each stage bounds the time its datagram and child may still take by
  what the receive timeout leaves, so that the timeout finds nothing under way, and
  says since when the NAT has not seen the mapping used. A try that fails without need
  is paid for by a fault of its own (`Excused`). The hypothesis is
  `FastNetwork`: round trips are shorter than the slack of two seconds, and the delay of a
  datagram varies by less than a second, so that "A" does not overtake "B". The
  refinement also needs the search to allow as many spoiled tries as there are faults
  (`MaxLost <= MaxSpoiled`). `EveryTryCountsHolds` has none of these hypotheses: the tries
  left (`Left`, a measure of the search) are a natural number that each try makes
  smaller, however answers and failures alternate, also when datagrams are duplicated.
  It needs `Bounds` of the bracket only (`MoveCounts`).
* `Lease`: `LeaseInvariant`, `NeverKilledHolds`, and `DelaysOpensHolds`: every step of
  `Lease` is a step of `OpenGate` or a stutter, for any openers, break time and
  durations. The invariant ties the place of the process to its handler and to the
  pending signal, and the forced downgrade to the time since the first open, without
  which the gate could come down too early. `KnockHeardHolds`: no open is lost on a call
  that waits for it. What it takes is that, as long as nobody came, a call that waits is
  the one the kernel sends SIGIO to (`Waits`). From it follows `KnockStartsCommand`: the
  command is started, under `TakesSigio` (see below).
* `Bpg2hevc`: `EscapeInvariant`: for any file no payload contains a start code or the
  beginning of one, none ends in a zero, and none overflows the buffer. The
  strengthening: a zero at the end of what is written stands alone and is not followed
  by another one. `RoundTripHolds`: a decoder gets the header back. It rests on that
  strengthening, for a 3 behind two zeros would be taken for a prevention byte.
  The decoder is defined by the positions it keeps and their ranks, so that its
  output grows by one byte or by none with each byte written (`DecodesKept`,
  `DecodesDropped`): the payload decodes to the first `i - 1` bytes of the header
  (`DecodeInv`). `HeaderRightHolds`: the numbers are read as they are meant. `Says`
  defines what the bytes of a number mean, each group by its own digit and none by way of
  the loop of `ue7_32`; a whole file holds four numbers and the data behind them
  (`HoldsAll`, which TLC evaluates for the files of its run). The invariant is
  `ReadsInv`: after k groups `val` is the number without the groups to come, which is
  below a word however the number is padded. What it needs of the powers of a group
  comes from the well-foundedness of < on the naturals.
* `ProbePacing` and `Timespec`, in `ProbeClient`: `PacingInvariant`, `OnScheduleHolds`,
  `NotAheadHolds`, `WarmupRightHolds`, `TimesRightHolds`, for any rate, start and number
  of nanoseconds in a second. `PacingSlack` is the strengthening: how far ahead the
  schedule may be at each place of the loop, and that the sleep after a refused one
  is not refused.
* `ProbeClient`: `ChildFollowsHolds` and `EndsUnreadHolds`, the two ends of the processes.
  `EndRight` ties the place of the parent to its handlers and to the child: a parent that
  ended by a handler has sent SIGTERM to a child that is alive. The second goes through
  fork, the three calls of sigaction and the loop of `measure`, and at each of them a
  signal or a death of the child may end the parent instead. For the fairness see below.
* `TsSeqClients`: `ServerInvariant` and `NumbersPerClient`: the numbers are per
  client for any number of clients as long as each has one id of its own
  (`OwnIds`).
* `UdpTsSeq`: `SessionInvariant`, `TotalLossRightHolds`, `SplitRightHolds`,
  `NoFalseNoticesHolds`, `NoFalseOutageHolds`, `DelaysRightHolds`, for any number of
  probes, losses, rebindings and restarts, any delay and any difference of the clocks.
  The argument: replies and probes under way form one line, in the order of their
  numbers, and the number of a probe minus its place in the line minus `seq3` is how
  many before it were lost; the server's numbers count the replies among them
  (`Counted`, `Numbered`). Addresses change only from one to the next in that line,
  and so each notice still to come has a rebinding of its own (`Noticed`). `OnTime`
  ties the age of a datagram to the period it was sent in, from which follows how many probes a
  silence of `OutageTicks` must have cost: those of that time, less the ones that can
  still be on their way out or back and one that falls on its edge. `BaseRight` and
  `ApartRight` say that `basets2` is off by the difference of the clocks and a way out
  no longer than the shortest round trip.
* `PeckedRelay` with `UdpPair` and `UdpFilePecker`: `RelayInvariant`,
  `OvertakingHolds`, `StopsOnlyDamagedHolds`, `InSyncHolds`, for any commands, ports,
  period and faults. What select found readable stays so until its block comes
  (`SelectedRight`); how often a datagram has been overtaken is tied to the place in the
  loop (`WaitedRight`). Commands wait in socket 1, on their way and in the pecker's
  socket: what the pecker will have written when the three are empty stays the same
  while a command moves from one to the next (`Yields`, `CommandsInOrder`).
  `KeepsUsedMappingHolds` and `MissedForCauseHolds` have the hypothesis that the NAT
  remembers at least one period (`Period <= NatTimeout`): the pecker never hears
  nothing for longer, and the mapping is never idle for longer than the pecker hears
  nothing (`MappingUsed`), unless a peck failed or was put off since its last use
  (`skipped`). From that, a step without a fault leaves the two in touch (`TouchStep`).
  Without the hypothesis the statements are false.

Assumptions are those named in the modules (`FsTestAssumption`,
`SearchAssumption`, ...): ranges of the parameters, evaluated by TLC in every
run.

Every invariant and every action property of a passing run is proved, and so is every
refinement. Of liveness three statements are. The prover cannot reason about ENABLED, so
their theorems write the guard of an action where WF has ENABLED of it, as
`<>[]Signalled => []<><<term /\ ChildDies>>_vars`: an action whose guard holds from some
time on is taken again and again. The guards are those of the actions, whose steps all
change the state: TLC finds that `FairSpec` of `ProbeClient` implies its four, and
`TakesSigio` is weak fairness of `Tool` where only `Sigio` is a step of it.

What remains is model-checked only. `Terminates`, `ProbeEnds`, `Reconnects`,
`SilenceReported` and the end of the command in `KnockRunsCommand` take as many steps as a
number says, and to follow these needs an induction over temporal formulas, which the
provers do not do. Of the first two the number that counts down is what
`EveryCallCounts` and `EveryTryCounts` prove; that the next step is possible, and is taken,
is left to TLC.

The inductive invariants themselves (`IInv`, `SearchInv`, `LeaseInv`, ...) are not among the
properties of the runs, being proved and stronger than those: a run shows the properties.

## Not modelled

Argument parsing, address lookup and socket set-up of all tools; formatting of
the output. Of `timing_mach`, `itimer_start`, `itimer_step` and the conversions to
double, which no program of the repository calls, and the replacement of
`clock_gettime` on old Macs. `cgroup_memory_pressure_monitor` reads and prints
numbers in a loop; that none is lost is what an eventfd promises. `mempig`,
`uksm_tease`, `runso`, `dump_tc_stats`, the scripts and the Makefile are straight-line
system calls without a state of their own, about which a model would say nothing.

## Plan

1. `XorHash`, `FsTest` and their proofs: the largest stateful tool. Done.
2. `TimeoutSearch` with proofs, `UdpTimeoutChecker` as its implementation. Done.
3. `TsSeqServer`, `TsSeqClients`, `UdpTsSeq`, with delays and clocks. Done.
4. `UdpPair` and `UdpFilePecker`, composed with a NAT in `PeckedRelay`: does the
   relay reach a pecker whose pecks stop while commands arrive? Done.
5. `Lease` with its abstract specification `OpenGate` and their proofs. Done.
6. `Timespec`, `ProbePacing` with proofs; `ProbeClient`, the life cycle of `probe`.
   Done.
7. `Bpg2hevc`, escaping proved. Done.
8. Proofs about `UdpTsSeq`, and about `PeckedRelay` with `UdpPair`. Done.
9. Proofs about `UdpTimeoutChecker`, and its refinement of `TimeoutSearch`. Done.
10. `Bpg2hevc`: that the payload can be decoded, proved. Done.
11. `Bpg2hevc`: that padded numbers are read right, proved; `ProbeClient`: the ends of
    its two processes, proved under fairness. Done.
12. What counts down in `FsTest` and in the search, and that no open is lost on `lease`,
    stated as properties and proved. Done.
