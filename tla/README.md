# A TLA+ verification of the load balancer

The repository holds a small load balancer and the programs around it: two
distributors, the server they send requests to, a usage monitor, a pressure
test, and a few experiments with the system calls the others use.  This
directory holds TLA+ modules that model it, TLC configurations that check the
models on small instances, and proofs, checked by TLAPS, that hold for every
number of servers, clients and descriptors.

Paths such as `algorithm_distributor.cc:244` are relative to the directory of
the program under `src/`.

## 1. The system

### 1.1 Components

| component | source | state | operations |
|---|---|---|---|
| Algorithm distributor, **dispatcher** (`threadFunc`) | `servers/algorithm_distributor.cc:187-274` | the descriptors registered with epoll, the batch of events being handled, `mess` | `epoll_wait`, the accept loop, read and forward a request, answer a fragment with `err_res`, `CloseConnect`, relay an echo |
| Algorithm distributor, **poller** (`mainThreadFunc`) | `:298-353` | `p`, the three `*_usage` vectors, its place in the round | ask a server, read its figures, `set_distribution`, write the files and exit |
| shared by the two | `:53-68,171-185` | the distribution `d`, under `mtx` | `set_distribution`, `get_curSelectedServer_fd` |
| **Inner server** (4 of them) | `servers/inner_server.cc` | one work connection, one mon connection | worker: read, `do_something`, echo; main thread: answer a `G` with the usage figures; `exit(1)` when a connection ends |
| **Procmon** | `servers/pm.h` | last sample, current figures, under a lock | `tick` from a thread of its own every 1.7 s, which reads four files of `/proc`; `getStat` |
| **Startup** | `algorithm_distributor.cc:276-296`, `inner_server.cc:119-181` | listening sockets of ports 9528 and 9529 | the servers connect to the distributor, the distributor connects back to each |
| **Round-robin distributor** | `servers/round_robin_distributor.cc` | `CurSelectedServerIndex` | the same dispatcher, without tags: it forwards whatever it read, in rotation, and answers at once |
| **Pressure test** | `test_bench/someip_bench/*.c` | `speed`, `failed`, `diff`, `timerexpired`, a pipe | children connect, write, half-close, read, check, until an alarm; the parent adds up their reports |
| **Reuseport server** | `reuseport_test/server_reuseport.cc` | per forked worker: a listening socket with a backlog, its connections (`Conn`), a batch of events | fork, set up, accept, read and log, close |
| **Eventfd experiment** | `eventfd_test/epollexclusive_exp.cc` | one counter, one epoll descriptor for each of ten threads | wait, drain; `main` writes 0, 1, 2, ... |
| **Packet forwarder** | `tcpdump_my/my_grub.c` | a buffer, a connection that does not block | captures a packet, cuts its payload into messages by their length bytes, writes them to the distributor |
| **procmon, promon_all** | `procmon/procmon.cc`, `procmon/promon_all.cc` | last sample, descriptors | read files of `/proc` every three seconds and print figures |
| load_test | `procmon/load_test.cc` | none | writes a file for ever |

### 1.2 How they interact

    clients --9527--> dispatcher --work connection--> worker of server s
                          ^                               |
                          |  d, under mtx                 | echoes (never read)
                          |                               v
                       poller  --mon connection--> main thread of server s
                                                          ^ getStat, under a lock
                                                       Procmon's thread

The reuseport server, the eventfd experiment and the two command-line monitors
stand alone.  The packet forwarder is one more client of port 9527.

The processes share nothing but connections.  The two threads of the
distributor share `d` under `mtx`, the arrays that startup fills once, and the
fate of the process: `exit(1)` in one ends both.  The same holds for the three
threads of a server.

### 1.3 What is hard

* The dispatcher is one thread with blocking writes to the servers.  The
  servers echo each request with a blocking write, and the distributor never
  registers the work connections with epoll, so nobody reads the echoes.
* Descriptor numbers are the only identity a client has, and they are reused,
  within a batch of events and while requests are under way.
* A server is drawn under the mutex and written to after the unlock.
* A request is in turn in a socket, in the dispatcher's hands, in a queue, in
  a worker's hands and in another queue; nothing counts requests.
* The poller's questions and answers carry no tag.
* There is no recovery: the end of any process has to end all the others,
  through connections on which each of them may be blocked.
* TCP may cut any read short, and both programs take what one `read` returns
  for a message.
* All servers have the same address, by which the distributor matches the two
  connections of a slot.
* An alarm interrupts a call under way, and nothing if it comes just before one.
* The figures behind a weight come from four files read at different moments,
  by a thread that may be delayed or find a file empty.
* Whom a write to the eventfd wakes depends on who sleeps at that moment.
* Each worker of the reuseport server has a backlog no other can serve.
* The length bytes of a captured message are signed.

### 1.4 What makes each component correct

* *Dispatcher*: epoll watches exactly the open connections; an event is still
  valid when its turn comes; the process has descriptors left; no request is
  doubled, none is lost while the servers run, none overtakes another on its
  way through a server; a tag leads back to the client.
* *Poller*: an answer is the answer to the question asked, and a weight is made
  of what its own server has just measured; all servers have the same number of
  samples; a server above the limit gets no request once `d` says so.
* *The two together*: no client is starved; the system ends as a whole.
* *Startup*: each slot ends up with a work connection of its own and a mon
  connection to the same host, or everybody exits.
* *Round-robin*: writes are spread evenly; each read chunk is answered once.
* *Pressure test*: each attempt is counted once, each child reports, the
  parent ends.
* *Procmon*: the three figures of an answer belong to one tick, are never
  divided by zero, count every moment once, and give a weight that can be drawn.
* *Byte streams*: no request is taken out of place before the client is told.
* *Reuseport*: no `Conn` is used after it was freed; no client depends on another.
* *Eventfd*: no value is lost, or left to threads that all sleep.
* *Forwarder*: the writes for a packet are asked for its messages, and the loop
  ends.
* *Monitors*: they run as long as they are left to (`procmon` does not).

Every hazard, with the line where it bites and the properties that cover it,
is in `PROJECT.json` under `hazards`.

## 2. The modules

| module | models | correspondence |
|---|---|---|
| `Load` | the arithmetic of `:315-322` and of `discrete_distribution` | `Weight(u)` is `p[i]`; percentages are integers and weights are counted in tenths, so 0.6, 0.3, 0.1 become 6, 3, 1.  `Drawable(w)` is the set of indices `d(e)` may return |
| `Kernel` | connections and processes | a direction of a connection is a queue of whole messages; `workq`, `replyq` have capacities; `cst`, `avail`, `eof` describe a client's connection.  A `Message` is `struct message` and, for the properties, the connection and the number of the request |
| `InnerServer` | `inner_server.cc`, `pm.h` | `WorkerRead`, `WorkerReply`, `WorkerEof` are the worker's loop; `MonServe`, `MonEof` the main thread's; `Tick` is `Procmon::tick`; `Crash` is a kill from outside |
| `AlgorithmDistributor` | `algorithm_distributor.cc` after `init_inner_mon` | `opc` is where the dispatcher is, one action per branch of its loop; `mpc` is where the poller is, one action per step of its round |
| `Clients` | the clients of port 9527 | connect, send a segment, half-close, reset |
| `LoadBalancer` | the composition | `Init`, `Next`, the three specifications, all properties |
| `Relay` | what the data path promises | a request that is taken is given to one server, in order, and lost only with a process |
| `MCLoadBalancer` | | the sets the configurations use |
| `LoadBalancerProofs`, `RelayProofs` | | theorems about `LoadBalancer` and their proofs: types, dispatcher, poller and figures in the first, the way of a request in the second |
| `Pairing` | what startup promises | slots are filled one by one, each with the work connection of a server that has none and a mon connection to its host; a failure is final |
| `Startup` | `init_inner_mon` (`algorithm_distributor.cc:276-296`) and the beginnings of both threads of a server (`inner_server.cc:141-181`) | `dpc`, `wpc[s]`, `mpc[s]` are the three program counters; `waiting` and `monq[s]` are the backlogs of ports 9528 and 9529; `servers_inner` is the array; `hostOf` says which servers share an address |
| `Bench` | `test_bench.c`, and `someip_bench.c`, which differs in the response times only | `ppc` and `cpc[k]` are parent and children, `timer[k]` the alarm and `timerexpired`, `pipe` the reports not read yet |
| `RoundRobin` | `round_robin_distributor.cc` with its servers and clients | `opc` as in the other distributor; connections to servers are counted in bytes |
| `MCStartup`, `MCBench` | | values for the configurations |
| `StartupProofs`, `BenchProofs`, `RoundRobinProofs` | | theorems and proofs |
| `Sums`, `SumProofs` | | the sum of a function over a finite set, in which `Bench` and `RoundRobin` add up counters; induction over numbers and finite sets, and the lemmas about sums |
| `Framing` | the bytes of one client on their way to the dispatcher (`algorithm_distributor.cc:237-250`) | `sentTo`, `arrived`, `readOf` count them; `passed` has the positions of the requests passed on, `errs` counts the writes of `err_res` |
| `Snapshot` | what `getStat` promises | an answer is the whole of what one tick has left, the latest one between the call and its return |
| `Procmon` | `servers/pm.h` | `tickPc` is where the thread is, `k` the file or figure it is at; `seen`, `last` are the samples; `mtx` the mutex; `copied` what `getStat` holds; `tickPc` `"exited"` the end of the process by a failed `open` |
| `Reuseport` | `server_reuseport.cc` | `phase[w]` is where worker w is; `events[w]` the rest of its batch; `link`, `home`, `unread`, `shut` describe a client's connection |
| `Eventfd` | `epollexclusive_exp.cc` | `epc[t]` is where thread t is; `marked` the threads on whose list of ready events the eventfd is |
| `Forwarder` | `my_grub.c` | `gpc`, `buffer`, `cur` as in the code; `packet` and `wire` (the writes, and which of them took all) serve the properties |
| `Monitors` | `procmon.cc`, `promon_all.cc` | `fds` is the number of descriptors in use; `used`, `lastUsed` are `utime` and `stime` now and at the last tick of `procmon` |
| `Tools` | the composition of `Framing`, `Procmon`, `Reuseport`, `Eventfd`, `Forwarder` and `Monitors` | a behaviour is one of one program, chosen by its first step |
| `MCTools` | | the values of their constants in the run `tools` |
| `ForwarderProofs` | | theorems about `Forwarder` |
| `ToolsProofs` | | theorems about the other five and about `Tools` |

### 2.1 The dispatcher

`opc` is `"wait"` in `epoll_wait`, `"batch"` in the loop over the returned
events, `"accept_first"` and `"accept"` in the accept loop, `"write"` in the
`write` to a server.  `EpollWait` takes every ready descriptor at once (the
batch of 65535 events never fills).  The code handles the events in the order
the kernel returns them, which the model leaves open.  `mess` and `target` are
the local `mess` and `CurSelectedServer_fd` between the draw and the end of the
write; the poller may run in between.  `mess` keeps its old contents in the
code after the write; nothing reads them before they are overwritten, so the
model clears it, which keeps the state space small.

The address length that the first `accept` of each event receives is an
uninitialized variable (`:213`).  Its value is a nondeterministic choice:
`AcceptFails` may end the process there (a negative length is EINVAL), and
`Accept` may go on.  After a success the variable holds a good length, hence
the two program counters.

A write to a server that has exited is either accepted and lost or fails with
EPIPE or ECONNRESET (SIGPIPE is ignored), and the client is then sent `err_res`:
the two alternatives of `WriteToDead`.

The branch `:252-268`, which reads an echo and relays `correct_res`, is not an
action: `RelayUnreachable`, checked and proved, is the reason.

### 2.2 The poller

`mpc` is `"sleep"`, `"ask"` (before the write of `G`), `"read"` (in the read),
`"publish"` (before `set_distribution`), `"check"` (before the comparison with
`HistoryLimit`).  `hist[s]` is the size of `cpu_usage[s]`; the three vectors
grow together in one iteration, so one number stands for them.  The contents
of the files are not modelled.

### 2.3 Startup

The distributor knows a server by the address its connection came from.  As the
servers are built they all have the same, 127.0.0.1 (`inner_server.cc:31`), and
only one process of a host can listen on port 9529; with the distributor's address
put there instead, they may run on any hosts.  `hostOf` is any function from
servers to hosts, so that both are covered.

Each turn of the loop declares the address and its length anew and initializes
neither (`algorithm_distributor.cc:281-282`).  The length is a choice of the model
in every turn: it may be large enough; too small, so that the address is not stored
(`Accept` leaves `addr` at `NoHost`); or negative (`AcceptFails`).  An address that
was never stored is taken for one nobody listens at.  What the stack may hold
otherwise is the address and the length of the turn before; the length is then the
right one, and the address is stored.

`ConnectMon` reaches any process that listens at `addr`, so nothing in the model
assumes that the two connections belong together.  A connection in the backlog of
port 9528 outlives the server it came from, `BindFails` is the end of a server whose
port is taken, and a backlog of n holds n + 1 connections, as on Linux.  So with a
shared address a slot may have the work connection of a server that is gone and the
mon connection of another one, and two slots may lead to the same server: both
happen in the run.  What is left then is what `PairsMatch` and `MonIsAccepted` say:
the connections of a slot lead to one host, no work connection has two slots, and
of the mon connections to a running server exactly one is, or will be, accepted.
All others stay in its backlog, and the poller that asks over one of them waits for
ever.  With one server on each host the second cannot happen, and the slot is the
server's own.

### 2.4 The pressure test

`Alarm` makes a `connect` or `read` under way fail, and otherwise only sets the
flag; the states `"connect"` and `"read"` (about to enter the call) are apart
from `"connecting"` and `"reading"` (in it) for this reason.  An answer is a
function from 0..15 to bytes, because the test looks at bytes 10 and 15.  The
end of the file on the pipe needs every write end closed, and the parent never
closes its own, so `Collect` has no branch for it.

An alarm that goes off between the check of `timerexpired` and the `read` does
nothing (`AlarmLost`).  `OnlyLostAlarmBlocks` says that this, with a server that
stays silent, and a killed child are the only things that keep the test from
ending; the run `lost_alarm` shows that this one does.  An attempt fails at any of
seven places, the `close` of a correct answer (`CloseFails`) being the last.

### 2.5 The round-robin distributor

`Read` reads what there is, up to `BUFSIZ`, and draws a server; `WriteSome`
moves what fits and blocks for the rest; `Answer` writes 16 bytes to a
non-blocking connection, whatever becomes of them.  The server keeps its
20-byte read, and drops shorter ones without an answer.  `MainReturns` is the end
of `main`, enabled from the first state: startup is over by then, since `main`
itself accepts the servers.

### 2.6 Procmon

The core (`InnerServer`) updates the figures of a server in one step and reads
them in one.  `Procmon` is what this stands for.  The thread reads `meminfo`,
`uptime`, `diskstats` and `stat` one after the other (`ReadFile`), while the
machine goes on (`Elapse`, an external action with a set of loads); gives the
tick up if a file was empty (`EmptyFile`); keeps the first sample (`FirstTick`);
or takes the mutex and stores the figures in the order of the code.  `getStat`
copies them in its own order.  A figure is kept as a part and a whole
(`Compute`), so that no rounding is involved until `Percent`, and with the
uptime of its tick.

That the core's one step is a fair account of this is a refinement.  `Snapshot`
has the figures, a `Tick` that replaces all three, a `Call` and a `Return` that
gives all three; `Procmon` implements it (`ImplementsSnapshot`), with the tick
taking effect when its thread takes the mutex and the answer when the last figure
is copied.  The core implements it too, server by server (`ImplementsSnapshot` of
`LoadBalancer`): its `Tick` and `MonServe` are `Tick` and `Return`, and an answer
that the poller has read is a new `Call`.  `OneTick`, that an answer does not mix
two ticks, is a part of the first.

`DiskTime` is `IoData::parse`: its loop runs once more after the last line, with the
failed stream leaving the name and `tmp` as they were, so the last column of the
last line is added if its name does not end in a digit.  This needs lines of 17
columns after the name (Linux 5.5 and later).  The sum may fall: the 32 bits of one
disk start again, or a disk is removed, and the sum loses the time of that disk
(`lost` in a load; `fell` remembers that it happened).  `ReadFileExits` is the
`exit(1)` of `readProcFile`, after which `getStat` answers no more.  `Percent` uses
the code's `hexin`, 2, whatever the number of processors.  `WeightsValid` takes an
answer on to the `Weight` of the distributor: the figures are not percentages (a
machine with eight processors reports up to 400), and the weight is valid all the
same, since a figure above the limit makes it 0; only disk counters that fall make
it exceed its range.  `MaxLag` bounds a tick; the theorem `ProcmonSkew` shows what
depends on it.

### 2.7 The byte streams

`Framing` keeps lengths only: a request is told by the position of its first
byte.  The distributor answers a short read with `err_res` and goes on with the next
byte, so that one short read in the life of a connection moves the boundaries of
all later requests, until the bytes thrown away happen to add up to whole ones.
`ShiftIsReported` is the one thing the code gives a client to tell by: err_res was
written before.  `errs` counts the attempts: the result of the write, on a connection
that does not block, is ignored (`algorithm_distributor.cc:249`), so nobody knows
that the client got it.  On the worker's side a short read leaves no trace at all,
and nothing says what should become of the messages after it.

### 2.8 The experiments and tools

*Eventfd.*  The only assumption about the kernel is `Mark`: it marks the eventfd
ready for the registered threads it walks over, in an order of its own, and stops
at the first that sleeps.  A thread that is not marked does not look at the
eventfd, which is what makes lost wakeups possible at all.

*Reuseport.*  The kernel gives a connection to any worker that listens.  A worker
handles the events of a batch in any order, one `read` or `accept` each.
`AcceptDrops` is the uninitialized address length of `:152`, `AcceptRefused` a
full descriptor table, which this server, unlike the distributor, survives.

*Forwarder.*  A packet is a record of what its headers say, the messages in it
and the value of all other bytes; the buffer keeps the tail of the packet before,
and starts with what the stack held (`Garbage`).  A `char` is signed
(`SignedChar`), so a length of 248 is -8 and the cursor stays where it is:
`PacketEnds` names this one value as the only one that keeps the loop from
ending.  The connection does not block, and `write` may take a part of a message
(`whole` is FALSE then).  The code compares the result with 0 only and moves on by
the whole size, so that a message may be cut off and the next follows its first
part.  `CutAsFramed` is therefore about what is asked of `write`, and does not say
that what is asked for is sent.

*Monitors.*  `readProcFile` of `procmon.cc` does not close the file, that of
`promon_all.cc` does.  A process of the same pid may have worked less than the last
one in user or in system time or in both, and each change is kept from falling below
zero by itself.

### 2.9 History variables

`owed`, `taken`, `forwarded`, `late` and `shown` are read by no guard.  `owed[c]`
counts requests taken from a client and not answered, `taken[c]` those taken at all
(it numbers the messages); `forwarded[s]` the requests written to a running server;
`late` the requests written since `d` last changed to a server that `d` gives no
weight; `shown[s]` is the set of figures server s has shown since the poller last
asked it.  So are `taken` (Eventfd), `refused` (Reuseport), `wire` and `full`
(Forwarder), `first`, `counted` and `fell` (Procmon).

## 3. What is checked

The runs of `MCLoadBalancer` use `WorkCap = ReplyCap = 1`, in which a queue can be
empty and full, but for `routing`, which has `WorkCap = 2`: a request can only overtake
another where two wait.  The theorems hold for every capacity.

| run | specification | instance | shows |
|---|---|---|---|
| `routing` | `Spec` | 1 server, 2 connections, requests of 2 bytes, 4 bytes each, `WorkCap` 2, crashes | `InterestMatchesTable`, `RelayUnreachable`, `EventsFresh`, `NothingLostOrDoubled`, `TagsRoutable`, `ImplementsRelay` |
| `wedge` | `DataSpec` | 1 server, 4 requests, room for 3 | `LifetimeBound`, `WedgeIsFinal`, `RequestsTaken` |
| `polling` | `Spec` | 2 servers, 2 rounds, figures above the limit, 2 connections of one request, 2 free descriptors | `AtMostOneLate`, `HistoryAligned`, `OneQuestion`, `WeightsFresh`; `SpareDescriptor`: the distributor never serves clients with a full table, because filling it makes the next `accept` fail with EMFILE, which ends the process |
| `shutdown` | `FairSpec` | 2 servers, 1 client of 4 requests, crashes, wedged or not | `EverythingExits` |
| `answer` | `Spec` | 1 client, 1 request | violated: `AnsweredBeforeClose` |

Runs of the other modules:

| run | specification | instance | shows |
|---|---|---|---|
| `pairing` | `FairSpec` | 3 servers, two on one host and the third on another, 2 slots | `PairsMatch`, `MonIsAccepted`, `ImplementsPairing`, `Settles`, `FailureSpreads` |
| `counts` | `FairSpec` | 2 children, 2 attempts each, an answer the test accepts, `correct_res` or none, kills | `EveryAttemptCounted`, `TotalsAddUp`, `OnlyLostAlarmBlocks` |
| `lost_alarm` | `FairSpec` | 1 child, 1 attempt, no kills | violated: `TestEnds` |
| `death_noticed` | `ServedSpec` | 2 children, 1 attempt each, kills | violated: `DeathIsNoticed` |
| `rotation` | `DataSpec` | 2 servers, 1 client, 10 bytes, chunks of 2 at most, room for 2 | `RotationBalanced`, `AnsweredBeforeClose`, `BytesTaken` |
| `served` | `FairSpec` | 1 server, 1 client, 1 byte | violated: `Served` |
| `tools` | `FairSpec` of `Tools` | see below | `NoLostWakeup`, `EveryValueOnce`, `Drained`; `ConnsAlive`, `ClientsIndependent`; `CutAsFramed`, `PacketEnds`; `ImplementsSnapshot`, `WeightsValid`, `SkewBounded`, `UseCountedOnce`; `ShiftIsReported`; `ProcmonEnds`; `TypeOK` |

The types of `LoadBalancer`, `Startup`, `Bench` and `RoundRobin` are proved for every
instance, and so not run.  `tools`
explores the union of six small state graphs: the first step of a behaviour
starts one of the programs, and the others stay in their initial states.  Each of
its properties is about one of them (`TypeOK` about all), and holds trivially in
the behaviours of the others.  Its instances:

| module | instance |
|---|---|
| `Eventfd` | 3 threads, first value 10, 4 writes (the values 0 to 3) |
| `Reuseport` | 2 workers, 2 clients, room for 1 connection in a worker, reads of 1 byte, 2 unread bytes |
| `Forwarder` | 13 packets of at most 32 bytes, in any sequence, over a buffer of zeros or 255s |
| `Procmon` | 3 processors, 4 loads (idle; two processors; eleven busy disks; most of them gone), 3 steps of time, ticks that take up to 1 |
| `Monitors` | descriptors up to 6, 2 units of work in each of user and system time, pids reused |
| `Framing` | requests of 2 bytes, 3 requests |

These runs say `CHECK_DEADLOCK FALSE`, because the programs do stop: the
distributor waits for ever for servers nobody starts, the test ends, `main`
returns, and the inputs of `tools` run out.

**Why the bounds are enough.** `routing` has two clients, so a descriptor can be
closed and reused while the other client's event waits in the batch and while a
request tagged with the number is under way; a request of two bytes can arrive
whole, cut, or run into the next; and two requests can wait in one connection behind
one in the worker's hands, of two clients that may send two each, so that any
exchange of two of them shows.  `wedge` sends one request more than the two queues
and the worker's hands hold.  `polling` has as many clients as it takes to fill the
descriptor table, two servers, and figures that take the weight away from one while
requests are under way, and a second round in which an answer of the first could be
mistaken.  `shutdown` lets either server, or both, die at any point, with the
dispatcher wedged or not; four requests are one more than the connections and the
worker of a server hold.  `pairing` has a server more than slots, so one can be left
in a backlog, any of the others can die between its connection and the one back to
it, and two share an address, so that the connection back can reach the wrong one.
`counts` has two attempts, so a failure can precede the one the alarm causes, and
two children whose reports mix in the pipe.  `rotation` has two servers, the
smallest number that rotates, and the ten bytes it takes to fill both directions of
a connection and wedge the dispatcher (nine do not); that its invariants hold for
several clients is proved.  In `tools`, three threads are one that is woken, one
that is awake and one the kernel does not reach; two workers with room for one
connection each have one client wait while the other worker is free; the packets
have one to three messages and every way the code can misread one: cut in the header
or in the body, the low length byte negative, 248 among them, options, padding, no
payload; three steps of time give a first tick, a tick that is given up and one that
must make up for it; three requests of two bytes let a shifted reader find a
boundary again.  `MaxTries`, the attempts of a child, `MaxSend`, the bytes a client
sends, and the number of connections are the only bounds these models add to the
code (`HistoryLimit` is the code's own 100); in `tools` they are `MaxUnread`,
`MaxTime`, `MaxUsed` and `MaxReqs`.

**What the wedge is.**  Every request that a server finishes leaves an echo in
the connection back to the distributor, which nobody reads.  When that
direction is full the worker blocks in `write`; when the direction towards it
is full the dispatcher blocks in `write`; from then on no client of any server
is served (`WedgeIsFinal`), until the poller ends the process after its last
round.  In its whole life a server is therefore written at most
`WorkCap + 1 + ReplyCap` requests (`LifetimeBound`).  With the socket buffers of
a real system this is some tens of thousands of requests of 20 bytes.  Short of
it nobody is starved (`RequestsTaken`), and the process always ends
(`EverythingExits`).

**The disagreements.**  `test_bench.c:310-313` writes a request, half-closes its
connection and then reads the answer.  The distributor takes the half-close for
the end of the client and closes the connection, with the answer outstanding.
The run `answer` shows it.  The others are these.

* `served`: `main` of the round-robin distributor detaches its dispatcher and
  returns (`:239-240`), which ends the process before, or while, it serves.
* `death_noticed`: the message for children that died (`test_bench.c:267`) is
  never printed, because the parent holds the write end of the pipe itself.
* `lost_alarm`: `-t` is said to make the test run for so many seconds
  (`test_bench.c:80`); an alarm just before the `read` of an answer that never comes
  leaves the child, and so the test, waiting for ever (`:304`, `:313`).

One more needs no run, being one of two constants: the test wants bytes 10 and 15 of
an answer to be `a` (`test_bench.c:315`), and `correct_res` of the distributors has
only its first byte set (`round_robin_distributor.cc:174`), so that every correct
answer is counted as a failure (the lemma `CorrectAnswerRefused` of `BenchProofs`).

Not disagreements with anything the repository says, but worth knowing, are that
`procmon` runs out of descriptors and ends (`ProcmonEnds`), that the forwarder
never leaves a packet with a length of 248 (`PacketEnds`) and may send a part of a
message and then the next one (`Forward`), that `main` of the eventfd experiment
returns with its detached threads (`Drained` says "or"), and that two slots of the
distributor may lead to one server (`MonIsAccepted`).

Each property of a passing run has a mutant in `PROJECT.json`: a changed
definition of the code under which TLC finds the property violated.  The
changed definitions stand before the originals in their modules.

### 3.1 Fairness

`DataSpec` assumes weak fairness of the dispatcher thread and of each worker thread:
a thread that can go on is scheduled again and again.  It assumes nothing of the
poller, whose `sleep(2)` and reads may take any time: that no client is starved must
not depend on it.  `FairSpec` adds the poller and the main threads of the servers,
since the end of the system does depend on them.  Neither assumes anything of
clients, of crashes, or of the figures measured.  In `Startup`, `FairSpec` assumes
that the threads of running processes are scheduled, and not that anybody starts a
server.  In `Bench`, `FairSpec` assumes that processes run and alarms go off; the
server may stay silent.  `ServedSpec` assumes in addition that it reacts to each
connection, by an answer or by ending it, which no code promises: it is used for
`death_noticed` alone, where the claim is refuted even so.  In `RoundRobin`,
`DataSpec` has the dispatcher and the workers, and `FairSpec` also the return of
`main`: a thread that is ready to return eventually does.  In `tools`, the threads
and the writer of the eventfd experiment, the workers of the reuseport server, the
loop of the forwarder over a packet, and the loops of the monitors are scheduled
(nothing makes the forwarder's write of no bytes fail); no client, no packet and no
load is assumed.  `Procmon` and `Framing` need no fairness, having safety properties
only.  Weak fairness suffices: no thread waits for a condition that another can make
true and false again for ever.

## 4. What is proved

The theorems about `LoadBalancer` are about its `Spec` and hold for every
`SERVERS_NUM >= 1`, every set of connections, every `FdLimit` above the
descriptors the process itself takes, every `HistoryLimit`, `normalLen`,
`WorkCap`, `ReplyCap >= 1`, and every set of usage figures (the assumptions
`KernelAssumption`, `DistributorAssumption`, `InnerAssumption`,
`ClientsAssumption`, which TLC evaluates in every run).

| theorem | states | inductive invariant |
|---|---|---|
| `LoadBalancerProofs!TypeCorrect` | `[]TypeOK` | itself; the reads need `avail[c] >= normalLen` |
| `InterestCorrect`, `EventsCorrect`, `RelayDead`, `SpareCorrect` | the descriptor table | `DescriptorInv`: that no two connections share a descriptor needs descriptors to be those of clients, and that the event of the listening socket stays fresh needs it to be out of the batch while connections are accepted |
| `HistoryCorrect` | `[]HistoryAligned` | itself |
| `LateCorrect` | `[]AtMostOneLate` | `LateInv`: once a request was late, the one in the dispatcher's hands is not |
| `QuestionCorrect` | `[]OneQuestion` | itself, with `TypeOK` |
| `FiguresImplemented` | `ImplementsSnapshot`: for each server, what the poller may read of it implements `Snapshot` (not run: TLC does not take it for every server at once) | `OneQuestion`: an answer is put where there is none, so that no answer is read twice or left for the next question |
| `WeightsCorrect` | `[]WeightsFresh` | itself with `ShownInv` (an answer under way, and what the server would answer now, are among the figures shown since the question) and `OneQuestion` |
| `LifetimeCorrect` | `[]LifetimeBound` | `LifetimeInv`: the count of requests together with the capacity of the two queues |
| `WedgeCorrect` | `WedgeIsFinal` | `TypeOK` |
| `CountCorrect` | `[]NothingLostOrDoubled` | `CountInv`: the same with `HandsEmpty` (`mess`, and a worker's hands, hold nothing when their thread is not writing); each step moves one place from one of the sets counted to another, and the queues are finite by `LifetimeInv` |
| `RelayImplemented` | `ImplementsRelay` | `HandsEmpty` and `TypeOK`: each step is one of `Relay` or a stutter under the refinement below |
| `TagsCorrect` | `[]TagsRoutable` | `TagInv`: the same of every message in the system, with `DescriptorInv`'s part that a connection keeps its descriptor while it is open |

Those about the other modules hold for every number of servers, slots, children,
clients and attempts, and every capacity (`StartupAssumption`,
`BenchAssumption`, `RoundRobinAssumption`).

| theorem | states | inductive invariant |
|---|---|---|
| `StartupTypeCorrect` | `[]TypeOK` of `Startup` | itself |
| `PairsCorrect` | `[]PairsMatch` | `PairInv`: a server that waits in the backlog, or was accepted last, has no slot, and the address is that of its host or nobody's |
| `PairingImplemented` | `ImplementsPairing` | `PairInv` and the place of the distributor: each step of `Startup` is one of `Pairing` or a stutter |
| `MonAccepted` | `[]MonIsAccepted` | `MonInv`: the same of a server without a slot, which has no mon connection, and of one that does not listen yet; a slot adds one to both sides |
| `BenchProofs!TypeCorrect` | `[]TypeOK` of `Bench` | with `ParentInv`: the place of the parent bounds its counters, and children not forked yet do not exist |
| `CountsCorrect` | `[]EveryAttemptCounted` | the same formula child by child, with `ParentInv`, since a fork must not restart a child |
| `RoundRobinProofs!TypeCorrect` | `[]TypeOK` of `RoundRobin` | itself; `LesserOfTwo` bounds what is read and written |
| `TotalsCorrect` | `[]TotalsAddUp` | itself, with `TypeOK` and `ParentInv`: a child that has reported counts no more, and a report moves from the child to one end of the pipe and from the other end to the totals |
| `TotalsPrinted` | `[]TotalsComplete`: what the parent prints are the sums over all children, which fall short of the attempts by one for each child at most (not run) | `DoneInv` (all reports are in), with `TotalsAddUp` and `EveryAttemptCounted` |
| `RotationCorrect` | `[]RotationBalanced` | itself: only `Read` moves the rotation |
| `TurnsCorrect` | `[]ChunksInTurn`, for a finite set of clients: the chunks of all clients together go round the servers in turn (not run) | itself, with `RotationBalanced`: a read adds one to both sums and one to the place in the rotation |
| `WedgeFinal` | `WedgeIsFinal` of `RoundRobin` (not run) | `TypeOK` |
| `AnswersCorrect` | `[]AnsweredBeforeClose` | `AnswerInv`: the events of the batch, and the chunk in the dispatcher's hands, are of open connections |

Those in `ToolsProofs` and `ForwarderProofs` hold for every number of threads and
values; workers, clients and descriptors; processors, loads and lengths of a tick;
lengths of requests; packets, sizes of the buffer and bytes left in it.

| theorem | states | inductive invariant |
|---|---|---|
| `EventfdWakes`, `EventfdCounts` | `[]NoLostWakeup`, `[]EveryValueOnce` | `EventfdInv`: both properties with the types, and that threads exist and have not ended while `main` runs |
| `ReuseportConns` | `[]ConnsAlive` | `ReuseportInv`: the same with the types |
| `ProcmonOneTick`, `ProcmonCountsOnce` | `[]OneTick`, `[]UseCountedOnce` | `PlaceInv`, `SameTickInv`, `CountedInv` of `ProcmonInv`: the mutex is held by whoever is in the middle of storing or copying; the figures stored so far are of one tick |
| `ProcmonSkew`, `ProcmonWeights` | `[]SkewBounded`, `[]WeightsValid` | `LastInv`, `SeenInv`, `FiguresInv` of `ProcmonInv`: how far each part of the sample read so far, and of the last one, is from `/proc` now; the thread has slept between the two |
| `FramingReported` | `[]ShiftIsReported` | `FramingInv`: while `err_res` was never written, the reader is at the start of a request, and so were all requests it has passed on; rests on `NextRequest` |
| `ForwarderTypeCorrect` | `[]ForwarderTypeOK` | itself, with the packets as long as the buffer |
| `CutCorrect` | `[]CutAsFramed` | `ForwarderInv`: `BufferInv` (the captured bytes are the packet's), `CursorInv` (in the loop over a framed packet nothing was given up, and the cursor is at the first message not written, or at the end); at a message, the two length bytes give its length |
| `CursorAdvances` | `LoopAdvances`: a turn of the loop that changes anything moves the cursor on, so that a packet of n bytes takes n turns at most (not run) | the types |
| `OnlyOneSpin` | `[]StuckAt248`: a turn that changes nothing has met the bytes 0 and 248 (not run) | the types |
| `SnapshotImplemented` | `ImplementsSnapshot` of `Procmon` | `ProcmonInv` with `ShownInv`: the figures stored so far are those computed, and those shown are not younger than the last sample kept |
| `ToolsCompose` | a behaviour of `Tools` is one of each of its programs | none: a step of one leaves the variables of the others alone |
| `ToolsTypeCorrect` | `[]TypeOK` of `Tools` | the types of the six |
| `MonitorsKeepGoing` | `[]AllKeepsGoing` (`promon_all` holds at most one file; not run) | itself, with the types |

The argument is the same everywhere: the initial states satisfy the invariant,
each action preserves it, and the type invariant, proved first, is assumed.
Steps of components that share no variable with the invariant are dealt with by
frame lemmas (`PollFrame`, `InnerFrame`, `WorkFrame`, ...).

**The refinement.**  `Relay` has a request the distributor holds, `mess`, and one
queue for each server, `Pipe(s)`: the echoes nobody reads, then the one in the
worker's hands, then what the worker has not read.  The worker's steps are stutters,
since they move requests, each told by its client and number, along the queue and
change neither their number nor their order; a server that ends takes the unread
requests with it, the end of the queue; and the echoes are never taken out, which is
why `RelayDead` and `LifetimeBound` hold.

`Procmon` against `Snapshot` is different in kind, as the interesting moments are
not those of the code: nothing happens to the figures when the mutex is taken, and
nothing to the promise when they are stored.  `Visible` is what the thread is about
to have stored while it holds the mutex; `ShownInv` says that it will be.

**Sums and framings.**  The induction theorems of the library quantify over a
predicate and cannot be used here.  `SumProofs` has two that quantify over a set
instead, `LeastNumber` and `SetInduction`; both rest on `WFMin`, that a nonempty set
has a minimal element, and are instantiated by the set of the elements of which the
predicate is true.  A sum over a finite set is shown to be the number of its units
(`SumIsCardinality`: the pairs of an element and a number up to its value), which
makes what is needed of sums facts about cardinalities.  That the messages of a
packet follow each other (`FramedOrder`) is an induction over their number.

**Only model-checked**: the liveness properties, which are out of the reach of the
proof system: `RequestsTaken`, `EverythingExits`, `Settles`, `FailureSpreads`,
`OnlyLostAlarmBlocks`, `BytesTaken`, `Drained`, `ClientsIndependent`, `PacketEnds` and
`ProcmonEnds`.  Every safety property of a run is proved.  The theorems say of some
properties that they are not run: TLC found them to hold on the instance of the run
of their module before they were proved.

## 5. What is left out

Not modelled, and why:

* `LoadBalancer` takes messages on the work and mon connections as whole, and
  requests of a client as whole or cut; what short reads do to later requests is
  `Framing`'s.  The two are not composed: with bytes in place of messages the core
  would be out of TLC's reach.  A read of the worker that returns a part of a message,
  which it drops, is left out (`RoundRobin` has it).  The 24 bytes of the poller are
  left whole; the code exits on a shorter read.
* `LoadBalancer` starts from slots whose two connections lead to one running server,
  each to another.  `Startup` shows that the servers of one host can be paired
  otherwise; what the dispatcher and the poller do then is not modelled, but for the
  end of a server.
* Floating-point rounding: percentages are integers.
* `fcntl`, `setsockopt`, `epoll_create` and allocation do not fail.
* The descriptors of the output files during the last dump.
* The branch that relays echoes, shown to be unreachable.
* The response times of the pressure test, its options, and the contents of its
  request.
* Descriptors running out in the round-robin distributor (`SpareDescriptor`
  covers the table of the other one, whose accept loop is the same).
* The order of a backlog: any connection in it may be accepted next.
* In the forwarder, the parsing of the Ethernet and IP headers, of which the verdict
  is kept, and how much of a message a `write` took.
* In `Procmon`, the columns of `stat` and `meminfo`, which are sums and differences;
  the destructor, which never runs.  In `promon_all`, the figures, which are
  computed as in `pm.h`.
* `load_test.cc`, which writes one file for ever and has no state; the printing of
  the monitors and the logs of the reuseport server.

## 6. Plan

Done: the core (`Load`, `Kernel`, `InnerServer`, `AlgorithmDistributor`, `Clients`,
`LoadBalancer`) with `Relay`, `Pairing` and `Startup`, `Bench`, `RoundRobin`, then
`Procmon`, `Framing`, `Reuseport`, `Eventfd`, `Forwarder` and `Monitors`, with their
theorems.  What would add most from here:

1. The start of the core's states from those `Startup` reaches: a composition
   in which `LoadBalancer!Init` is what a successful startup leaves, two slots that
   lead to one server included.
2. The safety parts of the liveness properties: that a thread that is scheduled
   has a step to take (`CursorAdvances` and `OnlyOneSpin` are such for
   `PacketEnds`), and the measures that decrease.
3. The bytes of a work connection, with the short reads of the worker; and the
   partial writes of the forwarder, composed with the stream of `Framing`.
