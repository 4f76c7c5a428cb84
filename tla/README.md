# alphahttpd in TLA+

TLA+ modules, TLC runs and TLAPS proofs about alphahttpd, a small HTTP/1.1 file
server in C. The source is `src/` (the program in `src/src/`; `server.c:354`
below means `src/src/server.c`, line 354).

`PROJECT.json` lists the components, the runs, the mutants each property is
tried on, the lines every definition stands for, the hazards and the theorems.

## 1. The system

```
 main.c          main thread = worker 1          SIGINT handler (main thread)
   | creates                                          | alphahttpd_stop
   |-- kcall threads (kcq.h) <--- one submission ring, one semaphore ---+
   |-- workers 2..N                                                     |
         server.c  sv_worker: kqueue/epoll loop, timers, accept, slots  |
             | rhandler / whandler / kcall.handler                      |
             v                                                          |
         http/client.c  chain of filters of ONE connection  --- file calls
           receive > request > index > autoindex > file > error
                   > transfer > response > send > access-log
             | a request's text, a path, a type of content, an address
             v
         util/*.h    parsers and writers without state of their own
```

| Component (source) | State it keeps | Operations | What is hard |
|---|---|---|---|
| Connection slots (`server.c` sv_accept1, sv_conn_fin) | array `connections`, `iconn`, `conn_num`, LIFO of free slots, `side` bit of each | take a slot, give one back | the limit is compared with `conn_num`, the array is indexed with `iconn` |
| Worker loop (`server.c` sv_worker, sv_accept, sv_ontimer, kcq_onsignal, alphahttpd_stop) | batch of events, task flags, timer queue, `tmr_fdlimit`, `worker_stop` | wait, dispatch, accept, expire timers, take completed calls, stop | edge-triggered events, events of a slot's earlier owner, flags that outlive an owner, timers against calls in flight |
| Filter chain (`http/client.c`, `http/*.h`) | position, `opened`/`done` of every filter, `req.buf`, `resp`, `file`, `transfer`, `send` | open, process and close of each filter; reset; destroy | back and forward over filters that are done, pipelining, keep-alive, error paths, what is released |
| Kernel-call queue (`kcq.h`) | ring, semaphore, `kcq_stop` | queue, execute, complete, stop | lost wakeups between several threads, results for memory that is gone |
| Process (`main.c`) | workers, threads | start, SIGINT, shutdown | a signal at any point of start-up or shutdown, order of freeing |
| Cached date (`server.c` sv_date) | `date_now`, `date_buf` | read, invalidate | staleness |
| VirtSpace filter (`http/virtspace.h`) | table of documents | open, process | not part of the server's own chain |
| HTTP syntax (`util/http1.h`, `http/request.h`) | none; `httpchunked` | parse request, headers, URL, chunks; write them | input that is split anywhere, boundaries |
| Content types (`http/file.h`, `util/ltconf.h`) | a map built at start | build, look up | text returned in parts |
| Options and addresses (`cmd.h`, `util/cmdarg*.h`, `util/ipaddr.h`) | configuration | parse, format | options that wait for their value, ranges of numbers |
| Log (`log.h`) | the date of worker 1 | write a line, from any thread | memory of another worker |

How they interact: the loop calls a connection through the function pointers of
its slot (`ahd_kev`); the chain calls back into the loop through `ahd_server`
(attach a socket, set a timer, destroy). File calls go from a filter to the
ring, are executed by any kcall thread, and come back through the worker's own
completion ring and a posted event. Other threads touch a worker only in
`alphahttpd_stop` and in that ring.

What makes each part correct:

* slots: each is owned by one connection or free, none is lost, the array bound
  and the limit hold;
* loop: an event reaches only the connection it is for; nothing that waits is
  forgotten; each wait has its timer; no client is freed during its kernel call;
  peers that are silent lose their slot; the stop is obeyed from any state;
* chain: requests are answered once and in order with a status that fits;
  the peer can tell where each response ends; limits of keep-alive are kept;
  everything is released on every path; every connection ends;
* kernel calls and process: queued calls complete; freed memory is not used;
  a signal ends the process;
* parsers: they accept their language and no more, and what they return does
  not depend on how the input was split; writers and readers agree.

## 2. Modules

| Module | Models | Refines |
|---|---|---|
| `ConnSlots` | the slot bookkeeping of one worker | |
| `EventLoop` | one worker: `EXTENDS ConnSlots` and adds loop, accept path, timers, kernel calls, sockets and peers | `ConnSlots` (`SlotsSpec`) |
| `HttpService` | abstract: requests answered in order | |
| `Client` | one connection's chain over several requests | `HttpService` (`ServiceSpec`) |
| `MCClient` | the sets of requests of the runs of `Client` | |
| `Boss` | main thread, signal handler, workers and kcall threads from start to exit | |
| `Scan` | ffbase's searches in a text | |
| `HttpSyntax` | the lines of HTTP messages and chunked data (`util/http1.h`) | |
| `HttpUrl` | URLs and escaped paths (`util/http1.h`) | |
| `HttpRequest` | `ahreq_parse`, over both | |
| `LtConf` | `ltconf_read`, and the map of content types built with it | |
| `IpAddr` | IPv4 and IPv6 addresses, `--listen` | |
| `CmdArgs` | the command line, its defaults, CPU affinity | |
| `Inputs` | inputs that grow piece by piece; the lines of HTTP by their format, and what the line parsers must make of them | |
| `Reading` | what requests, chunked data, URLs, paths and options must be read as | |
| `MCSyntax` | the same for content types and addresses, and the bounds of the run | |
| `Unfolding` | lemmas: folds and recursive functions step by step | |
| `ConnSlots_proofs`, `EventLoop_proofs`, `Boss_proofs`, `Client_proofs`, `Client_framing_proofs`, `Inputs_proofs`, `Reading_proofs` | theorems | |

### ConnSlots

The LIFO linked by `next_kev` is a sequence whose head is the top. The set
`owned` is not in the code: it stands for the slots whose handlers are set.
`TakeSlot` is the part of `sv_accept1` that assigns a slot, `ConnFin` is
`sv_conn_fin`. Both are called by one thread, so they are atomic.

### EventLoop

`pc` is where the loop is: in `ffkq_wait`, between two events of a batch, in
the write part of an event, in the timer queue, in `sv_accept`, in `cl_start`
or in the queue of completed calls. One action is one handler or one turn of a
handler's inner loop; between any two of them peers, kcall threads, the clock
and `alphahttpd_stop` (two steps: its flag, then its post) act. A connection is what the loop sees of it: what it
waits for (`phase`), whether its socket is registered, readiness (`inq`,
`outq`) and a pending edge, both timers, and its kernel call (`kc`). A run of
the chain (`Run`) may end in any wait that what it has allows; module `Client`
has the chain itself and shows with `TimersFitWaits` that it leaves exactly the
timers behind that `RunToRecv`, `RunToSend`, `RunToKcall` and `RunToEnd` say.
Timeouts are counted in timer intervals.

When the program does something that C does not define -- a NULL handler is
called, a client inside its kernel call is resumed, a freed client is written
to -- `undef` says where, and nothing after it counts (`Halted`).

### Client

Every callback of every filter of `ah_filters` is one action; a callback that
makes several kernel calls is one action up to each call. `Opening` and
`Processing` are the conditions under which `cl_filter_call` calls it, `Forward`,
`Backward`, `Suspend` and `OpenSkip` what the driver does with its result.
Requests are records (method, what the path names, keep-alive,
If-Modified-Since, malformed -- what makes a request of text is module
`HttpRequest`); body data is counted in units of
`file_buf_size`; `held` is the set of resources the connection holds, and
`leaked` records what no close function released. `wire` is what the peer has
received: a response for each header, and the units of body that came after it.
`Docs` are virtual documents; when there are some, `virtspace` stands after
`request`, where a program that uses the library would put it before its files.

### Boss

The main thread is worker 1, and SIGINT is handled on it (its code and worker
1's stop while the handler runs; on a platform where FFOS delivers signals on a
thread of its own more orders are possible). A worker is here its stop flag,
its posted event and its kernel calls. The flag and the post of
`alphahttpd_stop` are two steps when the handler does it; the main thread's own
call in `wrk_destroy` is one.

A worker that runs may write a log line at any time. All of them take the date
from worker 1's server (`main.c:223` puts it in the configuration that all
share), so `WorkerLog` reads worker 1's memory. So does the line that
`alphahttpd_stop` writes at the debug level before it sets the flag, on the main
thread (`DestroyStop`) and in the handler (`SignalFlag`).

### The parsers

Bytes that a parser does not tell apart are one symbol, and bytes that only
count together ("HTTP/1.", "Host") are one, too; each module's head says which.
A parser is a function of the text it is given. It is written in the order of
the code, returns early where the code does, and stops at the same byte, since
what is returned for a part of the input is a result that its callers act on:
`ahreq_parse` asks for more, `alphahttpd_filter_file_init` gives up.
`ChunkByte`, `ReadHeader`, `InitStep` and `SchemeProcess` are each one round of
a loop, over which the parser is a fold.

In `Inputs` an input grows by one piece per step, like data that arrives, so
that an action property can say what the next piece may not change. The
definitions that parsers are compared with say where the parts of a line, the
words of a file, the groups of an address are; none of them reads from left to
right. The modules that are proved about have no recursive operator (`Inputs` and
`Reading` are apart from `MCSyntax` for that: `LtConf` and `IpAddr` need some).

### Assumptions about what is not in `src/`

The Unix build is modelled (`FF_WIN` parts are not). FFOS and ffbase are
separate repositories. The models assume, from how
`src/src/` uses them:

* sockets are registered edge-triggered and registration reports readiness that
  is there already; a call `ffsock_*_async` that would block sets the task's
  `active`, one that does not clears it;
* `ffkq_wait` returns any ready events up to its limit; the timer's event stays
  until `fftimer_consume`;
* `fffile_*_async` queues a call and returns EINPROGRESS once, and its result
  when the handler runs again; `kcall.op` is not 0 while it is in progress;
  completing it posts the worker's event, except in polling mode; the ring always has room;
* `ffkcall_cancel` has nothing to cancel: by `KcallOutlived` no client is
  destroyed while its call is in flight;
* `ffkcallq_process_cq` and `ffkcallq_process_sq` work until their queue is empty;
* a virtual document's path is one that `request.h` accepts, so a path that it
  refuses (400) is that of no document;
* adding a timer that runs restarts it; `ffvec_allocT` returns zeroed memory
  (`main.c:99` joins a thread handle that only `wrk_start` sets);
* `ffkq_post` before the worker has created its `kqpost` reaches nobody;
* ffbase's `ffs_skip_ranges`, `ffs_findany`, `ffs_toint` and their like do what
  their callers' comments say; `ffbit_rfind32` finds one bit of the mask, here
  the lowest.

## 3. Runs

Each of them finishes within a minute and a half with two TLC workers.

| Run | Instance | Shows |
|---|---|---|
| `slots` | 4 slots, 1193 states | types, `SlotAccounting`, `SlotBounds` |
| `loop_one` | 1 slot, batches of up to 3 events, receive timeout 2, every failure, 518 673 states | `MisfireOnlyAfterSendTimeout`, `NoLostWakeup`, `KcallOutlived` |
| `loop_two` | 2 slots, one event at a time, polling mode, 1 503 228 states | `BacklogServed`, `TimersBoundWaits`, `SlotsSpec` |
| `loop_live` | 1 slot, a stop, no memory, no descriptors, failing accepts, fairness, 613 725 states | `SilentPeerReaped`, `BacklogDrained`, `SlotsComeBack`, `StopHonoured`, `LoopGetsBack` |
| `client_service` | 3 requests of 17 kinds, a virtual document, files of 0 to 2 units, limit of 2 responses, kcall threads, 576 881 states | `PipelineIntact`, `FramingExact`, `KeepAliveKept`, `TimersFitWaits`, `ServiceSpec` |
| `client_faults` | 2 requests of 10 kinds, failing allocations and file calls, a file that is resized, no kcall threads, fairness, 561 253 states | `ResourcesReleased`, `ConnectionEnds`, no failed assertion |
| `boss` | 2 workers, 2 kcall threads, a call of each worker, one SIGINT, failing threads and workers, log lines, 337 516 states | `FreedMemory`, `NoCallForgotten`, `CallCompletes`, `SignalEndsProcess` |
| `syntax` | 13 kinds of inputs of up to 4 to 17 pieces, 197 329 inputs | `LineExact`, `LineStable`, `RequestRead`, `ChunksUnsplit`, `ReadBack`, `UrlPartsFit`, `PathUnescaped`, `ContentTypesExact`, `QuotedTextKept`, `AddrRoundTrip`, `ListenExact`, `OptionsRead` |
| `loop_early_resume`, `client_framing`, `client_resize`, `client_blocks` | | the findings of section 6 |

Why these bounds are enough to be interesting:

* `NConns = 1`: a slot whose owners follow each other is what stale events need,
  and with one slot every accept after a close reuses it. `MaxElapsed = 1` with
  `RecvTicks = 2` is a clock that cannot skip a whole timeout between two looks
  at it. That matters: the `side` bit has one bit, so an event of the owner
  before the last one looks current. To reuse a slot twice within one batch, a
  connection would have to be started and ended by events and timers of that
  same batch; `MisfireOnlyAfterSendTimeout` is stated under
  `MaxElapsed < RecvTicks` because with a loop that is held up for longer than
  the receive timeout this does happen.
* `NConns = 2`: the LIFO, the limit and slots that influence each other; one
  event at a time leaves other events pending. Polling mode is the loop that
  never sleeps and gets no signal for completed calls.
* `EventsNum = 3` in `loop_one` covers batches that are smaller and larger than
  what is ready; `MaxBacklog = 1` already separates "empty" from "not empty",
  which is all `sv_accept` can see.
* Three requests let a response be followed by one that is followed by another;
  a receive brings up to two whole requests and a part of a third, so requests
  are pipelined, split, and both. Files of 0, 1 and 2 units are empty, read at
  once, and read in several steps. A part of a request arrives in at most two pieces.
  `KeepAliveMod = 4` is the width of
  `keep_alive_n`, whose 16 bits TLC need not count through.
* `PieceBounds` has for each kind of input the length at which every path
  through its parser is taken: eight symbols are a request line that ends in CR LF,
  or in LF with a space too many, five pieces a request line, Host, Connection, the
  blank line and what follows, seven
  symbols two chunks or an overflow of the size (`ChunkBits = 8` leaves room for
  two digits; the code's is 64 bits wide, with sixteen), 17 pieces an IPv6
  address of nine groups ("F" stands in every other one of them), four arguments two options with their values.
  `MaxExt = 1` is what makes an extension of two letters too long.
  A result that is final gets one more piece, to see that it stays.
* Two kcall threads are what one semaphore post for two sleeping threads needs;
  `MaxSem` stops new calls when the semaphore is at 2.

Only `client_service` leaves failures out, because the abstract service is a
promise for when nothing fails; `client_faults` has them all.

### Fairness

The worker thread is scheduled (weak fairness of the loop's actions), kcall
threads execute what is queued, and a thread that began `alphahttpd_stop` ends
it. Nothing is assumed of peers, signals or failures. The clock is no part of
`FairSpec`: it is a premise (`ClockTicks`) of those properties that rest on a
timer. `StopHonoured` does not have it, so the loop is woken by the post or not at
all. `BacklogDrained` also needs descriptors to be there again some day.
`sv_accept` accepts until nothing is left, and
`ffkcallq_process_cq` runs until the queue is empty, so a stream of connections
or of completing calls can keep the loop from its timers for ever: the code has
no bound there. Most liveness properties of `EventLoop` are therefore about runs
in which the loop gets back to `ffkq_wait` again and again (`LoopReturns`).
`LoopGetsBack` says what that needs: it does get back when from some moment on
no connection arrives and no call completes (`MoreWork`) -- nothing in the loop
itself, no failing accept, limit or retry, keeps it busy. `SlotsComeBack` looks at
all the ends of a connection together: when the peers are silent, too
(`PeersOrCalls`), timers and failures leave no slot behind but those of `cl_start`
without memory.
In `Client` the chain is fair while it does not wait or waits for a kcall
thread, and timers expire. In `Boss` each thread is fair on its own.

## 4. Theorems

Proved with TLAPS, for every value of the constants that the named assumptions
admit (`NConnsAssumption`: there is at least one slot; `LoopAssumption`: the
limits and timeouts are at least 1; `BossAssumption`: there is at least one
worker, and the kcall threads are finitely many; `ClientAssumption`: requests are
requests, limits and sizes are numbers; `ChunkBitsAssumption`: a chunk's size has
at least one hexadecimal digit -- that `2 ^ n` is positive is part of it, since
the provers know nothing of powers; `NprocsAssumption`: the system has a
processor that is online):

| Theorem | States |
|---|---|
| `SlotTypes`, `SlotAccountingHolds`, `SlotBoundsHold` | the slot bookkeeping: types, accounting, bounds |
| `LoopUsesSlots` | `EventLoop` implements the bookkeeping of `ConnSlots` |
| `LoopSlotBounds` | so the bounds hold in the loop, too |
| `TimersMatchWaits` | timers run exactly while their connection waits |
| `KcallsOutlived` | no step frees a client whose kernel call is in flight |
| `LoopTypes` | the types of the loop's state |
| `NoWakeupIsLost` | when the loop sleeps, every connection that waits has the event pending that will reach it |
| `BacklogIsServed` | when the loop sleeps, the backlog will be looked at again |
| `MisfiresOnlyThere` | no event calls a handler for nobody, or before a kernel call is complete, but in a slot that the send timer took |
| `BossTypes` | the types of the threads' state: indices and counters stay in range |
| `FreedMemoryKept` | a worker's memory is freed when its thread is over, and nobody uses it then but those that section 6 names |
| `NoCallIsForgotten` | a queued call never meets only sleeping threads and an empty semaphore |
| `ClientTyped` | the types of a connection's state; the chain never goes back from its first filter (the driver's assertion) |
| `TimersFit` | a chain that waits leaves exactly the timer of its wait behind |
| `Pipelined` | what was parsed, followed by `req.buf`, is what was received |
| `NothingElseLeaks` | the close functions release everything but the two things that section 6 names |
| `KeepAliveLimited` | no connection is served more than `max_keep_alive_reqs` requests |
| `CloseComesLast`, `NothingAfterClose` | after a header that says "close" no request is parsed and no header is sent |
| `KeepAliveExact` | the response that says "close" answers the last request taken (no allocation fails) |
| `ServiceImplemented` | `Client` implements `HttpService` (`NothingFails`) |
| `FramingProved` | the peer can tell where each response ends, but for the exceptions that section 6 names (`HeadsRead`) |
| `LinesExact` | the line parsers accept the lines of their format, with their parts, and refuse every other, at any length |
| `LinesStable` | more data does not change what a line parser has decided, but for text that runs on behind the version |
| `ChunksAlwaysUnsplit` | chunked data of any length, cut in two anywhere, is read as in one |
| `UrlPartsAlways` | a URL of any length is cut into parts that make it up again |
| `PathsAlwaysUnescaped` | a path of any length is unescaped in the room that was counted for it, or refused for what is wrong in it |
| `ReadBackAlways` | what is written is read again: the parts of a line of any length, data in two chunks, and a path of any length without "%" |
| `OptionsAlwaysRead` | a command line of any number of arguments is read when it is well-formed, with the values given, and shows the help when all before it is; no CPU is given to two workers |

`SlotBounds` is not inductive: that `iconn` is a valid index when `conn_num` is
below the limit follows only from `iconn = conn_num + Len(reusable)`, and this
from the split of the used slots into owned and free ones, with no slot twice
in the list. `SlotInv` is the conjunction of all that with the types. The lemma
`NextSlotFree` is the heart of it; both actions are shown to keep `SlotInv`.

For the loop, that `cl_destroy` gives back a slot that is owned needs to be
known at each place from which it can be called: by an event (the connection is
live), by a timer (it waits), by a completed call (it waits for it).
`LoopInv` therefore says of each slot that the connection's timers and kernel
call fit what it waits for (`WaitFits`), and that a slot is owned exactly when
there is a connection in it; `EventsKnown` says that events are those of slots.
`StepsFit` shows for each action that the invariant is kept, that the slots
change as `ConnSlots` says, and that calls in flight keep their connection.
TLC has checked `LoopInv` on the instance of `loop_two`.

`NoLostWakeup` and `BacklogServed` speak of the moment at which the loop goes to
sleep; in between, a wakeup travels. `WakeInv` follows it: what a connection
waits for (`Waits`) is not there yet, or it is an edge that `ffkq_wait` will
report, or an event in the rest of the batch with the current side bit
(`Pending`), or the write part of the event in hand; its task is active and its
socket attached. `RunWaits` shows that a run of the chain leaves a connection
like that, `ConnEventWakes` that an event which calls no handler was none that
its connection waits for: events with an old side bit or for an idle task are
dropped and it does not matter. `BatchOver` and `CallsSignal` make the ends meet:
nothing of the batch is left when the loop sleeps, and what completed after the
queue was found empty has left its signal. `ListenInv` follows the event of the
listening socket in the same way. TLC has checked all of them on the instances
of `loop_one` and `loop_two`.

`MisfireOnlyAfterSendTimeout` looks at the moment a handler is called, and needs
to know why the task flags and the side bit tell the truth then. `Expects` says
it of each slot. A write flag is set only while its connection waits for room.
A read flag is set while its connection waits for input or is at its start, and
outlives an owner in one way only, when the receive timer ends it; then no
event in the batch may have the slot's new side bit, or it would be handed to
nobody. That could happen, as the side has one bit: it flips back when two owners
end within one batch. It does not, because while events of an earlier owner are
left (`Stale`), the receive timer of the present one has more to run than the
batch can take from it (`ToElapse`), given that the clock does not skip a whole
receive timeout (`MaxElapsed < RecvTicks`); an owner that ends otherwise has
run, and a run clears the flags. Slots in `sendDead` are left out, since
`ahsend_expired` does not clear the write flag: `loop_early_resume` shows what
comes of that. TLC has checked `MisfireInv` on the instance of `loop_one`.

For the shutdown, `FreedMemory` speaks of users of freed memory and is not
inductive: `ShutdownInv` adds where the main thread is in its list of workers
(`MainFits`), that a worker is freed only by the shutdown, in its turn and after
its thread (`FreedFits`), that the handler runs together with the workers or comes from a
late signal (`HandlerFits`), that calls outlive a worker only as orphans
(`CallsFit`), and that a kcall thread executes a call that is marked so and no
other thread's (`ExecFits`), from which it follows that what it writes to was
freed only if the call is an orphan.

For the semaphore, a step of one thread must not take the last post while
another call is queued. `WakeInv` adds to `NoCallForgotten` that nobody sleeps in
polling mode, and that `kcq_destroy` leaves a post for each thread that may
still wait (`sem >= Cardinality(MayWait)`): a thread that takes a post after
`kcq_stop` also leaves `MayWait`, so the threads that stop never take the posts
of those that still empty the queue. This is where the number of threads has to
be finite.

For the chain, the requests may be any, as many and as large as wanted; `Docs`
may hold any virtual documents and `MayHappen` any failures, except where a
theorem says so:

* `TypeInv` is the types and `ChainInv`, which is what the driver's loop over
  the filters guarantees: every filter before the position is opened or done
  (`Reached`); a filter that is called once per request and not done yet has
  nothing after it that has begun (`InOrder`); and the chain turns back only at
  the sending filter, or at the request filter for more data, and never with a
  whole response (`TurnsBack`). The driver's assertion needs the last: a
  filter that goes back from the end of a response would find every filter
  before it done, and leave the chain at its first one.
* `WaitInv` says at which filter each wait is, and that a timer is held exactly
  in its wait. `OwnedInv` gives each resource to the filter whose close function
  releases it and says that this filter is opened while it is held; `LeakInv`
  follows the one resource that changes hands, `last_modified`.
* `LimitInv` counts the request in the chain to those answered: it is
  `keep_alive_n` plus one from its parsing to the reset.
* `CloseInv` follows "close" from the header that says it until the connection
  ends: while `resp.ka` is unset the chain is never reset.
* `AlignInv` pairs responses with requests: they are one to one but for the
  request whose header is still to be sent. It is false when an allocation
  fails: a response filter that cannot be opened counts as skipped, its body is
  sent with no header, and from then on responses are one behind. So
  `KeepAliveExact`, `ServiceImplemented` and `FramingProved` assume that
  `"oom"` is not in `MayHappen`; failing file calls and resized files are allowed
  in the first and the last.
* `StatusInv` says which statuses fit the request at each filter: none is set
  before the request is parsed (`Fresh`), afterwards what is opened and set fits
  what was asked (`Known`), and the chain passes the file filter only with an
  answer, or to come back for the rest of the file (`Answered`). `NothingFails`
  also excludes a virtual document that stands for a directory that is missing:
  autoindex overrides it (section 6).
* `FrameInv` is what framing needs. A response's length is equal to the
  units that the file filter has still to read, plus those on their way between
  the filters, plus those with the peer (`LengthInv` up to the transfer filter,
  `BodyInv` from there, where `cont_len` is a second count of the first two);
  `FlowInv` says where nothing is on its way, `StageInv` what is known of the
  response at each filter, `HeadInv` that `resp.head` is set for every HEAD
  that the file filter sees; `WireInv` hands the result over to the responses sent before.
  `HeadsRead` excludes virtual documents for HEAD, which skip the file filter
  (section 6).

TLC checked these invariants on the instances of `client_service` and
`client_faults` (`StatusInv`, `AlignInv` and `FrameInv` on instances that meet
their hypotheses) before they were proved.

For the line parsers, the text may have any length and be split anywhere, whatever
`Jobs` and `MaxPieces` are. There is no induction over the text: a parser is a
chain of positions, each where `Past` or `Find` stops. `PastIs` and `FindIs` say
what lies before such a position (a set of positions that is not empty has a
first one, `FirstOf`), `PastUnique` and `FindUnique` that no other position is like
it. So a line of the format has its parts where the parser looks
(`ReqReads`, `RespReads`, `HdrReads`), and what the parser accepts has
the parts of the format (`ReqAccepts` and so on); `ReqDecides` and its like say that
it does not ask for more when the line's LF is there. `LinesExact` follows
because the first LF is one position. `LinesStable` rests on `PastKept` and
`FindKept`: a position that lies within the text does not move when text comes
behind it. The exception in `LineStable` is needed in one place of
`ReqKept`: where the text behind the version reaches the end of what has come, and
is longer than a version, the parser refuses it without knowing what ends it
(section 6). The invariant is only that `got` is text (`TextAlways`).

Chunked data, paths and options are read by folds and recursive functions.
TLAPS cannot instantiate an induction theorem that has an operator as its
parameter, but it can instantiate a module: `Unfolding` has the operator as a
CONSTANT, and proves, from the well-foundedness of `<` on the naturals alone, that
a fold over a sequence is the last of a chain of steps (`StepsOfSeq`,
`StepsOfDomain`), that a recursive function is what its body says, upwards or
downwards, and that what holds of the first position and goes on from each to
the next holds of all (`UpTo`). `Reading_proofs` has an instance of it for each
loop of a parser, `Inputs_proofs` one for each of the command line's.

* `PathsAlwaysUnescaped`: the two passes of `httpurl_unescape` are two recursive
  functions over the positions. `NextEscape` says that both stop at the same
  ones, the "%" that are left when escape sequences are taken out from the
  front; `RoomNeeded` that the first pass counts just the bytes that are left
  (`Count`), `WellUnescaped` that the second, with this room, never lacks any and writes
  each at the place of its rank; `UnescapedIsFine` that it fails wherever the path
  has something wrong, however much room there is.
* `ChunksAlwaysUnsplit`: `OneByte` is the parser that gets one byte per call, and
  `All` the chain of its steps; one chain goes on where the other ends
  (`AllBoth`), which is what "unsplit" means. It is left to show that a call with
  more bytes does the same: within a chunk, `ChunkData` takes as many bytes
  as there are (`AllData`); elsewhere a round is a step (`RoundNext`); so
  a call makes the steps of what it read (`CallIs`), and calls until the end of
  the input make those of all of it (`FeedIs`). That output is collected over calls
  makes no difference, since no step reads it (`AllPre`).
* `UrlPartsAlways`: the positions of `httpurl_split` are in order (`UrlSplitIs`), so its
  parts make up the URL (`PartsJoin`); a path that `ahreq_parse` gets from it
  has only bytes that need no unescaping (`PlainKept`).
* `ReadBackAlways` has an argument for each kind of input. Lines: what a parser
  gives as the parts of an accepted line has symbols that may stand there
  (`ReqParts`, `RespParts`, `HdrParts`, from the format it accepts), the writer puts each
  at a known place (`ReqWritten` and so on), and these places are those where the
  parser stops, which are unique (`ReqReadBack` and so on; a header's value is not trimmed
  again, `NotTrimmed`). Chunks: the steps of `All` on what `httpchunked_write`
  puts before and after the data lead from one chunk's end to the next
  (`ChunkRead`). Paths: each symbol that `httpurl_escape` writes is one more
  position that is left, and those before stay what they were (`EscapeNext`), so by
  `UpTo` the n-th position that is left reads as the n-th symbol
  (`EscapedAll`), which is what `WellUnescaped` says is read.
* `OptionsAlwaysRead` is in `Inputs_proofs`. To process the tokens of an
  argument is one step (`TakenIs`), and the parser a chain of them
  (`SchemeIs`). The invariant of the chain, `After`, relates the scheme to the
  arguments so far and not to how it got there: it is in order as long as
  each of them fits (`Fine`), and then has named just their options, waits for
  a value when the last one does, and holds the values given (`Holding`). One
  lemma for each form of an argument shows that it goes on (`OneTaken`).
  `ReadableIs` says that the arguments that fit are those of a well-formed
  command line, which is defined without any order of reading. The CPUs are
  another fold: what is given is always apart from what is left (`TakenApart`).

Only model-checked: every liveness property (TLAPS does not prove liveness
under fairness), `RequestRead`, and the properties of
`LtConf` and `IpAddr`, which have recursive operators: tlapm has no SMT backend
in a module that reaches one.

## 5. What is not modelled

* Formatting of response headers beyond `http_resp_write` and `http_hdr_write`
  (`http/response.h`), of log lines and of the listing; `ffpath_normalize`,
  which is in FFOS; the look-up in the map of content types.
* What nothing in the server calls: `ffcmdarg_from_line`, subnets and masks of
  addresses, the flag of `http_req_write`, types of options it does not have.
  Chunked data is not used by it, either, but has a parser worth checking.
* The width of `range16`: with the default `receive.buf_size` no request is
  longer than 4096 bytes, and no option changes it.
* Whether a filter's buffers are large enough (only `file.buf` and `req.buf`
  being full have an effect on control, and are there).
* Several listening addresses (no effect on what is stated).
  A failure of any call of `alphahttpd_run` is one action of `Boss`.
* A full submission ring: its handling is in FFOS.
* The text of the cached date: see the plan.

## 6. What the models show about the code

Shown by the runs that find a violation:

* `loop_early_resume`: `wtask.active` of a slot stays set when the send timer
  destroys its client; an event with both flags then calls the write handler
  of the slot's next owner while that is inside its kernel call.
* `client_framing`: a 304 response is sent with the body of the error document
  (and a HEAD request for a directory with its listing), which a peer that
  keeps the connection takes for the start of the next response.
* `client_resize`: a file that shrinks while it is sent leaves the peer waiting
  for the rest of its Content-Length; a file that grows is sent uncut.
* `client_blocks`: index and autoindex make their file calls on the loop's
  thread, although the README promises to offload them.

Known from the models and excused by name in the properties:

* an accept error that is no descriptor limit leaves the backlog without a
  retry (`acceptErr` in `BacklogServed`);
* `cl_start` without memory loses the socket and the slot (phase `lost`, which
  `SlotsComeBack` excuses);
* after `cl_async` has destroyed the client, its callers go on using it
  (`RunAttachFails`);
* `req.buf` of a connection that ends before its next request is forgotten, and
  `last_modified` when the response filter cannot be opened
  (`ResourcesReleased`);
* an open function that fails counts as skipped: a path too long for the
  buffer is answered with status 000, and without `resp.buf` a body is sent
  with no header (`Fits`);
* kcall threads are stopped after the memory they write to is freed, and the
  signal handler stays installed while the workers are freed (`FreedMemory`);
* a worker other than the first that fails to start is not missed by anybody;
* `keep_alive_n` has 16 bits, so a larger limit is no limit (`KeepAliveKept`);
* request bodies are not consumed: they are read as the next request;
* a virtual document answers HEAD with its body, since the file filter, which
  notes the method, is skipped (`HeadsRead`);
* a virtual document whose path is that of a missing directory is answered with
  404: autoindex runs after it and does not look whether there is an answer
  already (`NothingFails`);
* text that is run on to "HTTP/1.1" is refused when the data ends within it, and
  accepted when a space or the line's end has come too (`http1.h:99`, excused as
  `VersionRunsOn` in `LineStable`);
* in quotes, `ltconf_read` loses what precedes a line's end when an escape
  sequence comes after it (excused in `QuotedTextKept`), and reads one byte past
  the input when a `\x` has one symbol left (`OVERREAD`);
* the last line of the file of content types is not read unless it ends;
* `httpurl_escape` leaves "%" as it is, so what it writes may read differently
  (`ReadBack` excludes it); "::" in an address may stand for no zeros at all
  (`Ip6Of`); a chunk's size may be missing after the first chunk
  (`ChunkByte`: state "SZ" accepts the end of a line, and takes it for the last);
* log lines of all workers use worker 1's date, which is freed while others may
  still write, and while `alphahttpd_stop` writes its own (`Logger` and `Handler`
  in `FreedMemory`);
* comments that are looser than the code: `http1.h:53` gives a request line's
  version as `HTTP/1.\d` followed by a space, where the code refuses 1.2 and up
  and needs no space; `http1.h:487` says that `httpurl_split` returns 0, and it
  returns -1 when something else than a path follows the host; the help gives the default of `-T` as the number of
  CPUs (`cmd.h:84`), and it is the number of workers (`cmd.h:137`).

## 7. Plan

Done: the modules of section 2, and the proofs about slots, loop, threads, the
chain, and the parsers of lines, chunked data, URLs and paths.
Next, in this order:

1. **Client to EventLoop**: map the state of `Client` to the `phase`, timers and
   kernel call of one slot, so that the assumption behind `Run` becomes a
   refinement.
2. **Cached date**: the text of a date while `sv_ontimer` clears it under
   another worker's log line, in a module of its own.
