# TLA+ models of high-performance-computing-learning

The repository collects the labs and projects of a course on high-performance
and systems programming. It is not one program but some twenty small ones.
This directory models those with a behaviour worth checking: the
multi-threaded prime server of `proj1` with its clients, its test driver and
the echo server it grew out of; the two threaded numerical programs (lab03,
proj2); and the kernel modules (lab10 to lab14, proj3).

## 1. Inventory

### proj1

**Prime server, threads** (`multisrv.c:66-130, 323-428`).
State: per worker a queue of slices (`queues`) and its mutex (`qu_mutexs`),
per request three arrays (`input_arr`, `output_arr`, `result_flags`), the flag
`shutting_down`. One thread per connection reads a length, acknowledges it,
reads the numbers, cuts them into slices, deals the slices round-robin to the
workers' queues, polls one flag per slice and writes the answer. Each worker
pops a slice, tests its numbers, stores the results in the shared array and
raises the slice's flag. Hard: connections and workers interleave at every
access; results pass from thread to thread through memory that is never
locked; the polling loop ends only if every flag is raised. Correct means: a
queue is used by one thread at a time, each slice is done by one worker and
once, no slice is lost, nobody writes to a request already answered, the
answer is complete.

**Job queue** (`multisrv.c:173-212`). A linked list with front, rear and size.
Only the next `add_queue` writes the link of a node, so a pop at the wrong size
would follow a pointer nobody wrote. Correct means: it is a FIFO queue.

**Main thread and signals** (`multisrv.c:154-171, 272-308`). accept loop, SIGINT
handler, exit of the process under running threads. Hard: the signal comes
between any two steps. Correct means: at most one more connection is accepted,
and what is in progress does not block the exit.

**isPrime** (`multisrv.c:323-328`). Trial division.

**Conversation** (`multisrv.c:77-120`, `echocli.c:29-68`, `driver.c:165-211`).
Four messages per iteration over a TCP stream, each written and read by one
system call. Hard: a stream keeps no message boundaries, so a read may return
less, and both sides then disagree about where they are. Correct means: the
two never wait for each other; while nothing is cut, an iteration gets the
answers to its own numbers.

**Test driver** (`driver.c:214-399`). Forks supervisors, sets an alarm, waits.
SIGALRM and SIGINT interrupt blocking calls and set flags. Hard: signals arrive
outside blocking calls too; children end while they are being signalled.
Correct means: its table of pids is exact, it returns when and only when all
children are reaped, and it does end.

**Echo server** (`echosrv.c`, `echolib.c`). A single-threaded line echo; `readline`
and `writen` hide short reads, short writes and interruptions. Correct means:
all the characters come back, in order, and what comes back is exactly what
was sent. The last holds only for lines that fit in the array and are ended.

### Threaded programs

**Game of life** (lab03 `glife.cpp`). State: two grids and which of them is the
current one, per thread a range of cells, one argument on main's stack, two
barriers. A generation is computed from one grid into the other, then one
thread exchanges them. Hard: main overwrites the argument while threads read
it; the barriers are the only protection of the grids; the cells need not
divide evenly. Correct means: nobody computes during the exchange, the threads
do what the sequential version does, all come to an end.

**3D convolution** (proj2 `main.c`). State: input, kernel, output, the blocks on
the heap. Each thread convolves a range of planes. Hard: the ranges overlap;
memory is freed by whoever used it last; the last vector of eight lanes is
only partly filled. Correct means: every output is the definition's and nothing
is used after it is freed.

### Kernel modules

All of them are loaded, used through files, and unloaded; the loader's reference
count, timers, threads and interrupts run against their users.

| module | state | what is hard | correct means |
|---|---|---|---|
| name list (lab10 `list.c`) | a kernel list | writers and readers without a lock | commands do what they say; a reader that overlaps additions shows what was there |
| character device (lab11 `my_cdev.c`) | buffer, size, access flag, a file's offset | exclusive open; offsets against sizes | one file at a time; a file that is only read is never ahead of the data |
| interrupt driver (lab12 `driver.c`, `ioctl_test.c`) | `num`, `sum`, a mutex | a handler on the data of an ioctl; a mutex held between ioctls | the sums printed are the expected ones; every test ends |
| deferred work (lab13 `deferred.c`) | timer and its type, work queue, list of tasks | one timer for three purposes; unloading against a handler that arms itself | a dead task is found; nothing runs after unloading |
| kernel thread (lab13 `kthread.c`) | two flags, two wait queues | wake-ups in both directions; the code is freed when rmmod returns | none is lost; the thread has left the module by then (it need not have) |
| timer (lab13 `timer.c`) | the timer | the handler arms what unloading deletes | unloading ends, and nothing is armed after it |
| mmap driver (lab14 `mymmap.c`) | the area, mappings | a page loop that may fail half-way | page k of a mapping is page k of the area |
| reference counters (proj3 `lruCounter.c`, `kernel.diff`) | counter per page, LRU lists, their lock | a timer's handler and the reclaim take one lock | a page is counted once per pass; counting goes on |

### Not modelled

| part | why |
|---|---|
| lab01 matrix product, lab02 ISPC, lab05 and lab06 CUDA | sequential or data-parallel floating-point arithmetic: no state that changes under anyone's feet |
| `matconv.cu` (proj2), `glife_kernel.cu` (lab03) | GPU versions of programs modelled here; a kernel's threads share nothing they write |
| lab08_09 prime module and system call | trial division as in `isPrime`, in three places, with no state kept between calls |
| `proj1/src/timer.c` | clock values, for printing |
| `simple_ioctl.c` (lab12) | raises interrupts from the command line, without the mutex: nothing is promised of its sums |
| set-up code: options, sockets, files read and printed | comes before the first state, or changes none |

`PROJECT.json` lists under "hazards" the lines at which each part can go wrong.

## 2. Modules

| module | models | state |
|---|---|---|
| `PrimeServer` | threads of multisrv | `queue`, `mutex`, `flags`, `written`; per connection `cpc`, `reqno`, `len`, `in`, `i`; per worker `wpc`, `hand`, `wi` |
| `PrimeService` | what a client is promised (abstract) | `busy`, `todo` |
| `PrimeServerInv` | inductive invariant of `PrimeServer` | - |
| `ServerMain` | extends `PrimeServer` by the main thread and the end of the process | `mpc`, `sigints` |
| `JobQueue`, `Fifo` | the linked list, and the sequence it implements | `size`, `front`, `rear`, `rear_dir`, `job` / `items` |
| `PrimeCheck` | `isPrime` | `n`, `i`, `result` |
| `SingleThread` | the machine that runs `EchoServer`, `PrimeCheck` or `JobQueue` | `program` |
| `PrimeWire` | a client and a connection thread over two streams | `toServer`, `toClient`, both program counters, what each has read |
| `TestDriver` | parent, signals and supervisors | `dpc`, `pid`, the parent's flags, `alarm`, `pending`, children's states |
| `EchoServer` | server, `readline`, `writen`, one client after another | `unread`, `read_buf`, `line`, `sent`, `echoed` |
| `LifeGrid`, `LifeSequence` | cells and neighbours; the sequential version (abstract) | `grid`, `left` |
| `GameOfLife` | main and the threads of lab03 | `buf`, `m_Grid`, `m_Temp`, `threadArg`; per thread `pc`, `rng`, `f`, `togo`, `tmp`; `waiting` |
| `Conv3d` | main and the threads of proj2 | `outputArr`, `heap`, `tail`; per thread `pc`, `at`, `z_to`; `verdict` |
| `KernelServices` | what the kernel modules take from Linux: loader, reference count, one timer (external) | `mstate`, `refs`, `armed`, `running` |
| `NameList`, `CharDev`, `IrqDriver`, `MmapDev`, `Deferred`, `KThreadLab`, `SelfTimer`, `LruCounter` | one kernel lab each, over `KernelServices` | see the modules |
| `Kernel` | a machine that loads one of these modules, with fairness | `lab` |
| `MCPrimeServer`, `MCGameOfLife`, `MCConv3d` | symmetry and sizes for TLC | - |
| `PrimeServer_proofs` | theorems on `PrimeServer` and `ServerMain` | - |
| `SingleThread_proofs` | theorems on `PrimeCheck` and `EchoServer`, and so on `SingleThread` | - |
| `PrimeWire_proofs`, `TestDriver_proofs`, `JobQueue_proofs`, `GameOfLife_proofs`, `Conv3d_proofs` | theorems on one module each | - |
| `Kernel_proofs` | theorems on `Kernel`, and so on each of its labs | - |

**PrimeServer.** One action per access to shared memory, in the order of the
code. `GoOn(c, next)` is the check of `shutting_down` behind each system call;
"closed" is the label `quit`. The four system calls of a connection are
`ReadLen`, `WriteAck`, `ReadArray`, `Reply`, each with the alternative
`IoFails`. `EnqueueLock/Add/Unlock` is one turn of the slicing loop; `SeeFlag`
is one turn of the polling loop that gets through. `WorkerLock/Pop/Unlock`,
`Compute` (one number) and `SetFlag` are the loop of `workfunc`. `MakeJob` is
the slice as the code fills it in, `GarbageFlags` the flags `memset` does not
reach.

*Abstractions.* The numbers and the results are left out: `written` records
which entries of the output array a worker has stored. A request is a pair
(connection, number); its arrays are new and never freed, as in the code. The
polling loop reads plain memory and is modelled as the makefile builds it,
without optimisation, so that every turn reads the flag again. The queue is a
sequence, justified by `JobQueue`. A queue's mutex is taken by a thread that
finds it free; which one is not said. A length of 0 stands for all N <= 0,
where the read of the array returns at once.
The options: `-n` falls through to the slice size and `k` has no case, so that
the numbers of workers and the slice size are what the CONSTANTS say, not what
the help text says.

**ServerMain.** `Sigint`, `Accept`, `ConnNext`, `WorkerNext` of `PrimeServer` are
its actions, synchronised with the main thread. MainCall separates the test of
the loop from the blocking accept: a signal between them is not lost to the
flag but wakes nobody. When main returns no thread moves any more.

**JobQueue.** A field nobody wrote has an arbitrary value, chosen by \E in
`AddQueue` and in `QueueInit`. `front_dir` is only set in the caller's copy and not read.

**PrimeWire.** The unit is an int. A read of n ints takes any non-empty part of
what has arrived, up to n. Each int records what it was written as; only
properties look at that. Writes do not block: arrays are far smaller than
the socket buffers. The server may quit at any call (`ServerQuits`), as a call
may fail or `shutting_down` be set; what it has written still arrives. Both clients of the repository make the same four calls.

**TestDriver.** Handlers run between any two steps. A supervisor starts with
`socket` and `connect`, either of which may fail (`ChildFails`). `call` is the moment a
supervisor has made its check and has not yet entered the system call:
a signal then interrupts nothing. A supervisor makes `MaxCalls` calls. Its two
lines of output fit in a pipe. After `remove_handlers` SIGALRM has its default
action (`killed`).

**EchoServer.** A byte is a character, a newline or a terminator. `TakeChar`
returns the length the code returns, which counts the terminator of a line cut
at MAXLINE and of an unfinished last line. The properties speak of what was
sent: its characters in order and all of them (`Text` leaves out terminators),
and for short, ended lines nothing else. `EchoExact`, that nothing else ever
comes back, fails. `Written` is what the code writes, terminators included; only
the inductive invariant uses it.

**SingleThread.** A machine runs one of the three parts of proj1 that have no
second thread: the echo server, `isPrime` in a worker, a queue under its mutex.
They share nothing, so one run with a choice stands for three.

**GameOfLife.** Main writes `threadArg` field by field (`SetFrom`, `SetTo`) and
creates a thread (`Create`); a thread reads the fields one by one when it runs
(`ReadFrom`, `ReadTo`), so it may get another thread's range or half of two.
`Cell` is one turn of `next(from, to)`. `Arrive` is `pthread_barrier_wait`: the last
of `nprocs` threads frees all. `FlushGrid` and `FlushTemp` are the two stores of
`flushGrid`; in between both pointers name one grid. The fields `gen` and the
barriers' addresses are the same for all threads and are not raced on.
`SequentialStep` says that threads which read their own ranges (`OwnRanges`) take
exactly the steps of `LifeSequence`, the refinement mapping being the current grid
and the generations thread 0 has still to show.

**Conv3d.** One action per output element (`Convolve`); its value is the sum as
the code computes it, with padding and lanes. The convolution is linear in the
input, so the inputs are the arrays with a single 1, and the kernel's elements
are all different: an output then tells which kernel element met which input.
What lies behind the last kernel element is chosen once per behaviour
(`tail`): zeros, numbers, or a NaN. `NextTo` is the division of the planes as it
is, overlaps included.

**KernelServices, Kernel.** A module is loaded, live, going and gone; an open
file keeps it from going. `TimerFires`, `DelTimerSync` are the timer. Each lab
extends the services with its own variables and next-state relation; `Kernel`
chooses a lab and runs it. The labs share no state, so one run with a choice
stands for eight.

- *NameList*: nodes with `next`, `prev`, and `name`; `Add` writes all but the last link
  and `Publish` the last, which readers follow. Overlaps that free a node under a
  reader or change links under a writer are undefined behaviour: the model
  stops there (`raced`) and claims nothing.
- *CharDev*: an open is three steps, the reference (`OpenFile`), the exchange in
  `my_open`, and the way out. `Readable` is the unsigned difference; when the
  offset is beyond the size it wraps, and the read goes on behind the data, also
  out of the buffer: `over` records that. The offset is followed up to the
  buffer's end only, and writes beyond the buffer, which the code does not refuse
  either, are outside the bounds. `pure` marks a file that has neither written nor
  set the size.
- *IrqDriver*: each ioctl is the sequence of its accesses to `num` and `sum`;
  `Code` is the program of `ioctl_test.c`, parent and child; the software interrupt
  is raised inside the child's ioctl and runs the handler at once, in the process
  that holds the mutex. Left out: interrupts of the device that shares the line
  (`driver.c:238`), `simple_ioctl.c`, which raises them without the mutex, and a
  process killed while it holds the mutex.
- *MmapDev*: the three builds and the one without an allocator. `Remap` is one
  page of the loop (vmalloc) or the one call; `RemapFails` may come at any page.
- *Deferred*: the ioctls flag and timer are two steps (`SetFlag`, `ModTimer`), as
  are lookup and reference of a task; handler and work item have their own
  program counters. The handler reads the flag once for each type (`IfSet`,
  `IfAlloc`, `IfMon`). A bad pointer makes the state `broken`, where the model stops.
- *KThreadLab*: `wait_event_interruptible` is queue, look, sleep; a wake-up makes
  a sleeper look again. Ctrl-C on rmmod ends its wait. When rmmod has returned
  the thread's code and wait queues are freed: a thread that runs then crashes
  (`ThreadCrashes`), and the model goes no further.
- *LruCounter*: the handler interrupts the process of a processor whose interrupts
  are on; the reclaim takes the lock with interrupts off. `Relocated` is what
  the patch's list operations do when the cursor has become the list head. On the
  way the code compares counters through `iter_page`, which nobody has set
  (`kernel.diff:230`): that faults (`RelocateFaults`), where the model stops, or
  changes nothing. `PG_referenced` is set and cleared all over the kernel without
  the lock: which pages have it is chosen anew for each list. There is one node and
  one lruvec.

Operators marked "Mutant" are wrong versions of an action or an operator. No
specification uses them; each property is violated when one of them is
put in the place of the right one.

Every module defines a type invariant, as documentation of its state; those of
`PrimeServer`, `ServerMain`, `PrimeWire`, `TestDriver` and `EchoServer` are theorems of their own,
the others part of the inductive invariants of section 5.

## 3. Runs

| run | configuration | checks |
|---|---|---|
| `server_slices` | 2 connections x 2 requests, 2 workers, 1 to 3 numbers in slices of 2 | mutual exclusion, slices dealt once and not lost, no job behind an answered request, one-slice answers complete |
| `main` | as above with 1 worker, main thread, up to 2 SIGINTs, fairness | refinement of `PrimeService`, one more connection at most, drain or die, exit |
| `single_thread` | echo server: lines of 3, 5 bytes, 2 connections; isPrime: -3 .. 130; queue: 4 nodes | characters echoed in order and completely, short lines exactly; no prime rejected, only squares slip; refinement of `Fifo` |
| `wire` | arrays of 2, 3 iterations, all cuts of the streams | no mutual wait, own answer, both end |
| `driver` | 2 supervisors x 2 calls, alarm, Ctrl-C, lock-up of the server | pid table, all reaped, ends |
| `game_of_life` | up to 3 threads, 1x2 and 2x2 cells, every grid, 2 generations | nobody computes during the exchange, sequential steps, all ends |
| `conv3d` | 3 shapes, 2 kernel widths, 0 to 3 threads, every place of the 1, every tail | outputs and verdict, heap |
| `kernel_labs` | each of the eight modules with 1 to 3 users | what each promises, and that nothing of a timer's module runs or is armed once it is unloaded |

Four runs show a disagreement between the code and what is said of it; TLC's
counterexample is the result.

| run | what happens |
|---|---|
| `server_sliced_reply` | `multisrv.c:413` runs from the start of a slice to its *length*: all slices but the first are (partly) skipped and their flags raised, the answer has entries nobody computed |
| `driver_timeout` | an alarm handled while the parent is not blocked in `wait` signals no child: a locked-up supervisor is waited for although "this driver implements a timeout" (`driver.c:29-35`) |
| `echo_exact` | `echolib.c:75` counts the terminator of a line that is cut or not ended as a byte read, and the server sends it back, although readline returns the "actual number of bytes read; behavior similar to fgets" (`echolib.h:41-43`) and what is sent is "echoed back correctly" (`driver.c:12-14`) |
| `kthread_exit` | `kthread.c:33` raises the flag before the thread's last wake-up, message and `do_exit`: rmmod sees it and frees the module's code while the thread is in it, although it is to "wait for the kernel thread to exit" (`kthread.c:66`). No signal is needed |

Seen while modelling, without a run of their own:

- `multisrv.c:92` clears `block_num` bytes instead of ints; in recycled memory a flag
  is up before the work is done. No run sets `DirtyHeap`, and the theorems on
  replies assume a zeroed heap.
- `multisrv.c:324` stops before the square root: 4, 9, 25, ... and 0, 1 are called
  prime. `OnlySquaresSlip` says that nothing else is.
- The nodes that `pop_queue` returns are never freed; main may return while
  requests are in progress.
- `driver.c:238`: the alarm is still set when the handlers have been removed; a
  failed fork (`:295`) leaves the children already started.
- `glife.cpp:127`: threads may read each other's ranges; the cells of a range that
  nobody read are then never computed. `SequentialStep` therefore has `OwnRanges`
  as its hypothesis, `FlushAlone` and `Finishes` do not need it.
- `proj2/main.c:202`: lanes behind the last kernel element are added to every sum;
  `:46`: a NaN passes the verification.
- `list.c:57` allocates no byte for the terminator; `:141` uses `name` uninitialised when a
  command has no second word.
- `cdev_add` before the device is initialised (`my_cdev.c:189`, `deferred.c:230`,
  `driver.c:226`, `mymmap.c:154`); a failed `request_irq` leaves the device
  registered (`lab12/driver.c:241`); allocations are not looked at.
- `deferred.c:73`, `:182`: a task may be freed between lookup and reference, and an
  error pointer is put on the list; `:256` leaves the list allocated.
- `kthread.c:67`: the result of the wait is not looked at, so Ctrl-C on rmmod frees
  the module whatever the thread does.
- `kernel.diff:230`: `iter_page` is read before it is set.
- `kernel.diff:240`: the loop's cursor, which is the list head by then, is deleted
  and added; all pages are lost from the list.
- `lab01/matmul.c:125`: the last block of eight columns is not stored when the
  width is a multiple of eight.

**Bounds.** `server_slices` has the smallest numbers with which two threads
compete for a queue on either side, the worker index wraps, an array has a full
and a short slice, and a second request follows a first whose last worker may
still be between `SetFlag` and its next lock. Three numbers in slices of two
give every case of `MakeJob` (full, exactly full, short). `main` keeps one
worker: what it adds is the main thread, and two connections suffice for one
that is served and one that is accepted late. The theorems of section 5 lift
the bounds of the safety properties. `single_thread`: with four nodes a
queue grows, shrinks to one, to none, and grows again over stale pointers; the
numbers up to 130 contain all squares of primes up to 121; five bytes with lines
of three give a line cut twice, a newline at the cut, and an unfinished
rest. `wire`: three
iterations let an int left over by one iteration be misread in the next and
its consequences reach a third; numbers up to 2 can be misread as lengths
smaller than, equal to and (0) refused by the server. `driver`: with two
supervisors one can be gone while the other is signalled. `echo_exact` has the
constants of `single_thread`, `kthread_exit` those of `kernel_labs`.

`game_of_life`: with three threads on
two cells one has nothing to compute, on four cells one is left over; three
threads are the fewest with which two can be at a barrier and one elsewhere;
two generations make each barrier be used again. `conv3d` has shapes whose depths
divide and do not divide by the threads, more threads than depths, and kernels
with and without a partly filled vector. `kernel_labs`: three processes
for the exclusive open (one holds the device, one is refused, one comes
between); two tests of two processes each for the interrupt driver; three list nodes, so
that a deletion has a neighbour on either side, with one writer and one reader, as
the overlap of two writers is where the model stops; two users of the shared
timer; two processors, so that the handler can interrupt the holder of
the lock or spin against it; two pages, which is the fewest a list must have for
the reclaim's loop to take a second one; counters that saturate at 1.

Deadlock checking is off where the system stops by design (isPrime returns,
processes exit, clients stop) or where the bound on nodes ends the behaviour;
it is on for the threads of the server, whose workers never stop. Where it is
off, liveness properties say that what has to go on does; `Conv3d` alone has
none, since only the join can block there.

**Fairness.** Weak fairness, but for the kernel labs. Every worker keeps running
(`WF(WorkerNext)`), and so does a connection thread once it has a mutex or polls;
nothing is assumed of clients, of signals, or of who gets a contended mutex,
so no claim is made that a thread waiting for a mutex gets it. `TestDriver`: the
processes are scheduled, a pending signal is delivered, the clock runs, a
server that is up answers (lock-up is a separate, unforced action).
`SingleThread`: the echo server's process runs and its peer goes on taking what is
written (`EchoServes`); clients are free. `PrimeWire`: both processes run; data written
arrives.
`GameOfLife`: the operating system runs main and every thread that can run.
`Kernel`: every process inside a call, thread and handler runs (weak); strong
fairness is assumed in three places, where a condition comes and goes: the timer
fires although its processor switches interrupts off and on again; the handler gets `lru_lock`, a
queued spinlock; `del_timer_sync`, which looks again and again, finds the
handler at rest, whose period is a second. Nobody has to open a device, unload
a module, or die.

## 4. Properties

Stated where they are defined, with the code they are about. In short:

- *Threads*: `MutualExclusion`, `SliceDealtOnce`, `NoSliceLost`, `NoOrphanJob`,
  `OneSliceReply`, `ServiceSpec`; `ReplyComplete` fails.
- *Process*: `AtMostOneMore`, `DrainsOrDies`, `SigintEnds`.
- *List*: `FifoSpec`. *isPrime*: `NoPrimeRejected`, `OnlySquaresSlip`.
- *Wire*: `NoMutualWait`, `OwnAnswer`, `BothEnd`.
- *Driver*: `PidsCurrent`, `AllReaped`, `DriverEnds`; `TimeoutEnds` fails.
- *Echo*: `EchoInOrder`, `ShortLinesExact`, `EchoComplete`; `EchoExact` fails.
- *Game of life*: `FlushAlone`, `SequentialStep`, `Finishes`.
- *Convolution*: `Convolves`, `HeapHeld`.
- *Kernel labs*: `NameCommands`, `ShowsWhatWasThere` (lab10), `OneFileAtATime`,
  `ReadersStayInData` (lab11), `ExpectedAnswers`, `TestsEnd` (lab12), `DeathFound`
  (deferred), `MapsTheArea` (lab14), `OncePerPass`, `CountingGoesOn` (proj3);
  `NothingAfterUnload` for the modules with a timer (deferred, timer, proj3),
  `UnloadEnds` for these and the kernel thread's; `ThreadEndsFirst` fails for the latter.

What they do not say. `ReadersStayInData` is about files that are only read: one that
has written or set the size may read beyond the data, and the model shows it doing
so. `NothingAfterUnload` is about what still runs or is armed, not about memory: the
deferred lab's list, the mmap area and lab10's nodes stay allocated. `OwnAnswer` ends with
the first short read. `NameCommands` stops where two overlap. `DeathFound` speaks of
a timer whose flag stays "MON". `DrainsOrDies` is satisfied when the process ends.

## 5. Proofs

All proofs are checked by TLAPS (SMT, Zenon, LS4) and hold for every value of
the constants that satisfies the module's assumption.

**PrimeServer_proofs**, from `ServerAssumption` (at least one worker, a positive
slice size, connections and workers are different things).
The invariant comes in layers, each proved on top of the one below, so that a
step has to be examined only against what it can disturb:

1. `TypeInv`: types, and the slicing loop runs over multiples of the slice size
   (`ConnInv`) - without it `flag_pos` would not be known to be in range.
2. `QueueInv`: the holder of a mutex is where the code says (`LockInv`), a
   worker holds a job only while it works on it (`HandInv`), outstanding jobs are
   among those already dealt (`DealtInv`), and `SliceDealtOnce`. `DealtInv` is what
   makes a new slice different from all others.
3. `FlagInv`: each slice dealt is finished or outstanding (`LiveInv`), the polling
   loop has seen the flags it passed (`SeenInv`).
4. `ZeroInv`, when `DirtyHeap = FALSE`: a flag is up only if its slice was
   finished (`CleanInv`), and `NoOrphanJob`.
5. `FillInv`, when `DirtyHeap = FALSE`: nothing is written for a request before
   its slices are dealt (`BlankInv`), and the one job of a short request covers
   the whole array, has been computed up to the worker's index, and raises the
   flag when nothing is missing (`OneSliceInv`). The loop bound at
   `multisrv.c:413` is right for a slice that starts at 0, and this is where
   that is used.

Theorems: `TypeCorrect`, `QueuesExclusive` (`MutualExclusion`), `DealtOnce`
(`SliceDealtOnce`), `NoneLost` (`NoSliceLost`), and for a zeroed heap `BuffersQuiet`
(`NoOrphanJob`), `OneSliceAnswered` (`OneSliceReply`) and `ImplementsService`
(`Spec => ServiceSpec`: raising a flag is `FinishBlock`, reading the array `Submit`,
leaving "reply" `Leave`, all else stutters).

The same module has the theorems on `ServerMain`. `ProcessImplementsThreads`
(`MainSpec => Spec`) shows that the process takes only steps of its threads or
stutters, so everything above holds in it, and `MainTypeCorrect` adds the main
thread's types. `ShutdownAcceptsOne` (`AtMostOneMore`): take the connections
accepted when the signal is handled; since then none has been added, or one has
and main is past its accept, and will find the flag at the head of its
loop before it could call accept again.

**SingleThread_proofs**, on `isPrime`: no divisor below `i` divides `n`; hence
`PrimesAccepted` and `SquaresSlip`, for every range of arguments. The integers of
the model are unbounded; `i*i` stays within an int for the numbers the clients
send.

On the echo server, from `EchoAssumption` (MAXLINE is at least 2): `EchoTyped`
(`TypeOK`, and with it that the line fits in its array), `EchoOrdered` (`EchoInOrder`) and
`ShortLinesEchoed` (`ShortLinesExact`), for lines, numbers of bytes and of connections
of any size. Both speak of what was sent and what came back; `EchoInv` says where
all the rest is: what readline has not taken is in its buffer or unread, in
order, and what was written together with the line is what the code writes for
the bytes taken (`Frames`) - or, behind the end of file, for all. That readline's
count is the `run` of `Frames` is what keeps the line within its array. The lemmas on
`Frames` say that later bytes do not change what is written for earlier ones
(`FramesStay`) and that it only grows (`OutGrows`), so that a prefix stays one while
the client goes on sending. What is written has the characters of what was sent
(`TextOfWritten`), and where no line is cut or left unfinished it is what was sent
(`ShortWritten`).

`PartsKept` (`ThreadSpec => Spec /\ CheckSpec /\ QueueSpec`) carries these theorems, and
`ListIsFifo`, to the machine that the run checks.

**PrimeWire_proofs**: `NeverBothWait` from `IntsUnderWay` - the ints under way in
both directions, plus those the server has read and not yet answered, are at
least as many as the client is waiting for. It is needed because
`NoMutualWait` speaks of the two moments of waiting only, while a misread
message shifts the balance long before. With `WireTyped` (`TypeOK`).
`AnswersOwnNumbers` (`OwnAnswer`) comes from `InStep`: as long as no read was short,
client and server are at one of eight pairs of places (`TakingTurns`), and at each it
is known what is in both streams and in both arrays; or the server has quit and
the client gets what had been written (`ServerGone`).

**TestDriver_proofs**: `DriverTyped` (`TypeOK`), `TableCurrent` (`PidsCurrent`) and
`NoEarlyReturn` (`AllReaped`), for any number of supervisors, calls and signals.
`ForkInv` says which children exist at which point of the parent, `RecordInv` that
between `wait` and the update of the table exactly one entry is out of date;
`CallsInv` is needed for the types only. No assumption on signals or scheduling
is used.

**GameOfLife_proofs**: `BarrierSafety` (`FlushAlone`) for any grid, any number of
threads and of generations. The invariant says that either all threads are on
their way to the first barrier or all are between the two (`PhaseInv`), that a
barrier holds blocked threads only (`BarrierInv`) and that threads not yet
created are counted out (`CreateInv`), so that the last arrival at a barrier of
`nprocs` finds all others there (`LastCompletes`, by cardinality). The ranges the
threads have read play no part in it.

`ThreadsStepAsOne` (`SequentialStep`) adds what the threads compute, in
`LifeGridInv`: a thread in the middle of its range has the next generation in all
cells it has passed, one that waits at the first barrier in all of its range
(`Behind`); the current grid and the other one are two grids but for the moment
between the stores of `flushGrid`; and all threads agree on how many generations are
left (`TogoInv`). `Given` is recursive, as in the code each range starts behind the
last: `GivenRanges` shows that it is the closed form `First(t)`, and `RangesCover`
that every cell is in some thread's range, so that the grid is complete when the
last thread arrives. `GridInv` is claimed under `OwnRanges` only, which no step can
restore once it is lost (`OwnRangesBack`).

**JobQueue_proofs**: `ListIsFifo` (`QueueSpec => FifoSpec`). `ListInv` says that the list is
the newest nodes, each linked to the next, and nothing of the newest node's own
link, which is arbitrary; `Chain`, the walk along the links, is then a run of
consecutive nodes.

**Conv3d_proofs**, from `Conv3dAssumption` (sizes and kernel widths are positive).
`ConvInv` has five parts: which threads exist and have ended at each point of
main (`ControlInv`); the heap is exactly the blocks of those who have yet to free
one (`Blocks`); every thread's planes reach from `First(t)` at least to where the next
one's begin, and those of the last thread to the end (`PlanesInv`); each
thread has written the sums below its place (`OutputInv`); the verdict. `HeapSafe`
(`HeapHeld`) and `ConvolutionRight` (`Convolves`) follow, the second because the sum
over padded rows and lanes is the definition's when the tail is clean
(`ProductsAddUp`). The overlaps of the ranges do no harm since both threads write
the same sum.

**Kernel_proofs**, from the assumptions of the labs (the names used for processes,
tasks, pages and nodes do not clash with those of the program counters, the list head
and a free node's name; memory is finite; sizes fit in their types). `KernelInv` joins the labs' invariants. `RefsInv`, that the reference
count is the number of open files, is common to all labs (`RefsCount`): what
holds "while the module is loaded" depends on it, and every lab only shows how
its holders change. `ElsewhereInv` keeps one lab's timer and work item from
another's theorems. The labs add:
  - `OneOpenFile` (`OneFileAtATime`), `ReadersBehindData` (`ReadersStayInData`, files that are only
    read) from `CdevInv`: `access` is 1 exactly when one process has the device open,
    so that a reader's data cannot shrink behind its offset;
  - `AreaMapped` (`MapsTheArea`) from `MmapInv`: the loop has mapped the pages it
    has passed, in order;
  - `UnloadIsClean` (`NothingAfterUnload`) from `DefInv`, `SelfInv` and `LruTimerInv`: what each
    exit function has already waited for does not come back. It says nothing of the
    kernel thread, for which the like fails (`kthread_exit`);
  - `CountedOnce` (`OncePerPass`) from `LruInv`: pages are counted by the lists already
    passed, and whoever moves pages between lists holds the lock. This needs no
    fairness and holds for any number of processors.
  - `AnswersExpected` (`ExpectedAnswers`) from `MutexInv`, for any number of tests at
    once. The mutex is held from one ioctl to the next, so the process inside is
    where the program would be that runs alone: `num`, `sum` and its register are
    `Run(codes[kind])` at its place. `Run` is a recursive function over the list of
    accesses; the programs of parent and child are then followed access by
    access (`SumEnds`, `ManyEnds` and their like, each saying what one ioctl does to any
    state), which shows that every line printed on the way is the expected
    one and that the numbers are back at zero at the end. Zeros are what the
    next holder starts from, and without them the induction would not go through.
  - `ShowsTheList` (`ShowsWhatWasThere`) and `CommandsKept` (`NameCommands`) from `ListInv`,
    for any number of writers, names and nodes. While nothing has raced there is a
    list `c` of different nodes that `next` follows and, but for the place where a node
    is about to be published, `prev` too. A writer about to publish has
    already linked its node to both neighbours (`Unpublished`). The loop of a
    deletion is at a position of what is left: in front are the names kept so far,
    from there on is what has not been looked at (`Walked`); this is where it matters that the
    loop took the successor before it freed the node. What a reader has shown is a
    stretch of `c`, and so is what was there when it began (`ReaderInv`). A
    publication puts a node in front or behind and shifts positions (`PublishStep`), a deletion
    takes one out (`WalkOff`). `Chain` finds `c` by following the links (`FollowFinds`):
    a list of different nodes fits in memory (`ListFits`, by an injection), so that
    the walk reaches the head again. `NameCommands` is an action property:
    `Walked` at the head gives all matches gone (`Effect`'s `Others`), `Unpublished` gives
    one name more.

*Recursive functions* (`Products` in `Conv3d`, `Given` in `GameOfLife`, `Frames` and `Texts` in
`EchoServer`, `Run` in `IrqDriver`, `From` and `Others` in `NameList`). Induction over
their domain cannot be cited as a theorem, its predicate being a parameter.
It is done by hand: the arguments at which the claim fails are a set of naturals;
if it is not empty it has a least element (lemma `Least`, from the library's
well-foundedness of `<`), and the definition of the function at that element
contradicts the claim below it. `Products` and `Given` have a closed form, which shows
that there is such a function; for `Frames`, `Texts`, `Run` and `Others` that is proved in the same way
(`FramesDefined`, `TextsDefined`, `RunDefined`, `OthersDefined`).

Each invariant above was checked with TLC on small instances before it was proved.

Every safety property that holds in a run, invariant or action property, is stated by
a theorem, and so is every refinement.

**Only model-checked.** The ten liveness properties: `DrainsOrDies`, `SigintEnds`,
`BothEnd`, `DriverEnds`, `EchoComplete`, `Finishes`, `TestsEnd`, `DeathFound`,
`CountingGoesOn`, `UnloadEnds`. They rest on fairness, hence on when an action is
ENABLED, which the prover does not reason about.

## 6. Plan

Models that could grow: two nodes of the LRU lists' memory in `LruCounter`; the
initialisation of a kernel module step by step, which would show the window
between `cdev_add` and the end of the init function.
