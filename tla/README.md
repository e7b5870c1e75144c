# TLA+ specifications of rseq-rs

rseq-rs gives Rust programs per-CPU words: a thread changes a word of the CPU it
runs on with a few plain instructions, and the kernel restarts the instructions
when the thread is preempted among them. What makes this correct is spread over
assembly, the kernel's contract, the life of a registration, and rules that
callers follow. These modules state it, TLC checks it on small instances, and
TLAPS proves the main parts for any number of threads, CPUs and words.

Paths below are relative to the repository root.

## The system

| Part | State it keeps | Operations | What makes it correct |
|---|---|---|---|
| Blocks, `src/x86_64.rs`, `src/aarch64.rs` | none of their own: the area's `rseq_cs`, the words | arm, check, load and compare, store, commit, exits | the descriptor covers exactly check to commit, the abort label arms again, one committing store at the end |
| `Thread`, `src/thread.rs` | pointer to the area | six word operations, `prepare_unload`, getters | key tests, status to result, a mismatch is `Abort` and never retried inside |
| `Attempt`, `src/attempt.rs` | none | `from_status` | exit code and value arrive unchanged |
| `Area`, `src/abi.rs` | `cpu_id`, `mm_cid`, `rseq_cs`, shared by thread and kernel | the kernel writes indices, the thread `rseq_cs` | layout |
| `Membarrier`, `src/membarrier.rs` | `READY`, `USED`, registration in the kernel | `fence`, `fence_all` | one registration before the first fence, a retry after fork; what a fence covers is over when it returns |
| `Rseq`, `src/rseq.rs` | `STATE` | `new`, `bind`, `fence`, `words` | initialised once; a `Thread` only for an area the kernel knows; `None` only for one of its reasons |
| `Registration`, `src/registration.rs` | thread-local `SLOT` | `bind`, destructor, `glibc_area_info` | the kernel never has an area whose thread is gone |
| `Word`, `Words`, `Region` | words, a mapping | `get`, `new`, `from_static` | a word for every index a thread can read, inside the mapping |
| `Cpus`, `src/cpus.rs` | none | `possible` | highest CPU plus one, or none when the list cannot be read |
| fallback, `src/fallback.rs` | none | stubs | no registration, always `Abort` |
| stress tests, `tests/stress.rs` | counters, lists | six loops beside migration and signals | nothing lost, nothing twice |
| benches, `benches/` | counters, free list | `add` and `cas` loops, drain, free list | what the headers promise |

A caller picks a `Word` with the index in its area, calls an operation of
`Thread`, and the operation runs one block. The kernel shares the area: it
publishes `cpu_id` and `mm_cid` when it puts the thread on a CPU, and on every
return to user mode it reads `rseq_cs`, moves the instruction pointer to the
abort label if it is inside the section, and clears `rseq_cs`. `Rseq::fence`
asks the kernel to interrupt other threads so that they restart too.

Hard are: preemption and migration between any two instructions, a descriptor
left behind by the previous call, signal handlers on the same area, the two
stores of `store_if`, chases through memory that others change, interrupts of a
fence that miss a thread on the move, an `Abort` after every new pick, an `init`
that fails half way, destructors behind the one of `SLOT`, the first fences of
several threads, and fork in the middle of all this. `PROJECT.json` lists these
hazards at their lines, with the properties that cover them or the reason why
none does.

## Modules

| Module | What it is |
|---|---|
| `X86_64`, `Aarch64` | the six blocks of each file as sequences of labels |
| `CriticalSection` | threads that execute the blocks, and the kernel |
| `CriticalSectionInvariants` | what holds of threads in blocks whatever words callers pick |
| `CriticalSectionSafety` | rules for callers, the properties that need them, the refinement mapping |
| `WordOps` | what `thread.rs` promises: each operation at one instant |
| `StoreIfSide` | `store_if` with a history of its side store |
| `Clients` | `CriticalSection` with threads that pick a word, call, and look at the result |
| `Scheduling` | `Clients` with the `add` and `cas` loops, time slices and fairness |
| `Fences` | `CriticalSection` with `fence` and `fence_all` |
| `Stress` | `Fences` and `Clients`: the six tests of `tests/stress.rs` |
| `Drain`, `FreeList` | `Fences` and `Clients`, or `Clients`: two of the benches |
| `Membarrier`, `MembarrierFork` | `membarrier.rs` in processes that fork; a history of what they inherit |
| `Words`, `Cpus` | `words.rs` and `region.rs`, `cpus.rs`, as operators |
| `Rseq`, `RseqSafety` | `rseq.rs` and `registration.rs` with kernel and glibc; its properties |
| `MC...` | instances for TLC |
| `ConfirmingProofs`, `CriticalSectionProofs` | theorems about the blocks, one layer on the other |
| `FenceProofs`, `CountingProofs`, `StressProofs` | theorems about fences, the counting tests and `unique_pop`, on top of `ConfirmingProofs` |
| `RseqProofs`, `MembarrierProofs` | theorems about the other components |
| `NumberLemmas` | lemmas on natural numbers that these share |

An operator `X_Something` marked as a fault is `X` with a plausible mistake. No
specification uses it; replacing `X` by it shows which property notices.

### CriticalSection

A label is one load or store of shared memory or of the area, with the register
work and the branch that follow it. Position 1 of a block is its abort label
and arms the area; positions 2 to the last are the descriptor's range; the last
is the commit. The common part of the blocks is the same in both files
(`src/x86_64.rs:22`, `src/aarch64.rs:22`), so one action per label serves all
twelve. They differ in the additions: `xadd` and `ldr/add/str`. Without a lock
prefix `xadd` is a load and a store to other CPUs, so both have two labels; that a
local interrupt cannot separate the two halves of `xadd` is not used.

| Variable | In the code |
|---|---|
| `mem` | the words |
| `cpu` | where the scheduler runs a thread, or `Off` |
| `index` | `Area::cpu_id` and `Area::mm_cid` |
| `rseq_cs` | `Area::rseq_cs`: the block whose descriptor it holds, or none |
| `call`, `ip`, `reg` | the operation in progress, its arguments, position and registers |
| `frame` | what a signal interrupted |
| `ret` | the `Result` of the last call |

| Actions | In the code |
|---|---|
| `Invoke` | entry of an operation; `compare_exchange_if` and `store_if` compare the keys of their words first |
| `Arm`, `Check` | the first instructions of every block |
| `LoadEq`, `LoadOtherEq`, `LoadNe` | a load and its compare; a failed one leaves with status 1 and the value seen |
| `Chase`, `LoadBase`, `LoadSlot`, `LoadPrev` | the loads of `load_if_ne` and of the additions |
| `StoreSide`, `StoreNew`, `StoreChased`, `StoreSum` | the stores; the last three commit |
| `PrepareUnload` | `Thread::prepare_unload` |
| `Preempt`, `Resume`, `Interrupt`, `Signal`, `SignalReturn` | the kernel (external) |

The kernel actions may happen between any two labels. `Resume` may choose any
free CPU and concurrency id, so a thread migrates, or returns to where it was
after others have run there. `Interrupt` is a membarrier, a signal or a tick.
`Signal` starts a handler that makes calls of its own on the thread's area, one
level deep.

The model chooses any call at any time with any key, so stale words are
included: the thread need not run where its word belongs.

Memory is sequentially consistent. Threads that run blocks on words of one
index do so one after the other with a context switch in between, which orders
all their accesses, and a single thread sees its own stores in order. A word
that is also read or written from another CPU outside the blocks needs more;
no such access is in the model.

Rules for callers are stated where they are needed. Constant ones are
assumptions (`OneIndexPerWord`: an address is always picked with one index, and
the side word of a `store_if` is another word; `OneKindPerCall`: both words of a
pair have the type parameter `K`). `compare_exchange_if` may compare one word
twice, as the stress tests do. That chases stay on live words of the call's own
index depends on memory: `ChaseLegal` and `SlotLegal` are state predicates. They
are stronger than the `# Safety` sections of `src/thread.rs:350` and
`src/thread.rs:386`, which ask for readable memory and a live slot, not for
memory of the same index. `ValuesKept` is a rule that a caller can follow word by
word and that implies both: every address has a set of values (`Holds`), no call
takes a word out of its set, and the sets of words that are dereferenced lead to
live words of the same index. In a list, for example, a head and the links hold
nodes or the end; a node's link is where `load_if_ne` looks for it.

### WordOps and the refinement

`WordOps` has no instructions: a pending call succeeds, misses or is refused in
one step, the first two only while the thread's index is the word's key, and the miss
carries the value of the compare that failed. `Scratch` is the documented
exception: `store_if` may write its side word before, and without, its commit.
`CriticalSection` implements it with `call`, `mem`, `index` and `ret` as they
are and the call of a signal frame as `held`. A success takes effect at
the committing store, a miss and an abort at the load that decides them.

### Clients, and the tests and benches

A client thread goes round three steps, `at`: it reads its index (`Pick`), calls
an operation on the word of that index (`Issue`), and looks at what came back
(`Turn` to the next task). It may be moved between any two of them, so the word
may be stale at the call. `task` says what the thread wants done.

`Scheduling` has the loops `add` and `cas` of the benches: `Attempt` is one round,
`LoopEnds` a success (or a miss, for `cas`), `LoopAgain` an `Abort`, after which
the next round picks anew.

`Stress` has the bodies of the six tests: `Start`, `Change` and `Settle` are one
iteration of the counting tests and of a `unique_pop` that comes back empty;
`Popped`, `PickTag`, `AddTag`, `TagAgain` and `Tagged` are the tagging of a popped
node, which must be done on whatever CPU the thread is by then. `won` counts
successes as the tests do, but by the index the word was picked with. The final
assertions, which compare a sum of all words with the sum of all successes after
the joins, are invariants here, and `NothingLost` is stronger than the assertion:
every word by itself holds its successes.

`Drain` is `add_under_steal`: `PickWord`, `Add`, `AddReturned`, and for the thread
of `steal_all` `StealFence` and `Swap`. `FreeList` is `fanin_rseq`: `ReadHead`,
`ReadLink` and `Take` are `pop_rseq`, with its reads outside a critical section;
`LoadHead` and `StoreIf` are `push_rseq`.

### Fences

`Fence(c)` and `FenceAll` fill `pending` with the CPUs to be interrupted; each
`Ipi` interrupts the thread on its CPU, if there is one, and the fence returns when
none is left. Threads run, are preempted and move in between. `old` remembers the
threads that were in a critical section the fence covers and have not left or
restarted it since.

### Membarrier

Each process has its own `READY`, `USED` and registration. `fork` copies the
statics and only the forking thread; that it does not copy the registration is
what the comment at `src/membarrier.rs:34` says of the kernel. `run` is cut where
another thread can intervene: at `get_or_init` (claim, register, publish,
wait), at each syscall, at the store to `USED` and at the swap.
`MembarrierFork` adds what `USED` was in the parent when a process was forked.

### Rseq, Registration, Words, Cpus

`Rseq` starts in one of many environments: target with blocks or without, kernel
with `rseq` or without, the size glibc reports, the feature size, the set of possible
CPUs, and whether their list can be read. A block is two steps, the check (`Operate`) and the end (`Leave`): what counts
here is whose area the kernel looks at when it takes the thread off its CPU in
between.

| Variable | In the code |
|---|---|
| `env` | what the crate is built for and runs on |
| `state` | `STATE`: unset, `None`, or where areas are and the counts |
| `area` | `cpu_id` and `mm_cid` of the two areas of a thread, `SLOT` and glibc's |
| `kernel` | which area the kernel has for the thread, another library's included |
| `slot` | whether `SLOT` was used or destroyed |
| `life`, `place` | the end of the thread, where it runs |
| `handle`, `inside` | the `Thread` of `bind`, the key of the block it is in |

| Actions | In the code |
|---|---|
| `New` | `Rseq::new`, `init` behind its `OnceLock` with `glibc_area_info`, `Registration::bind`, `Cpus::possible`; it may register the area and fail afterwards |
| `Bind` | `Rseq::bind`, with the test of `cpu_id` |
| `Operate`, `Leave` | an operation of `thread.rs` passes its check, commits or misses |
| `StartExit`, `DropSlot`, `EndExit` | the end of the thread, with the destructor of `SLOT` and those of its clients before and behind it |
| `Preempt`, `Resume`, `OtherRegisters` | the kernel, another library (external) |

`Possible` takes the text of the kernel's list, cut to the buffer, to a count, or
to none when the file cannot be opened or read (`Access`) or does not parse;
`New` chooses among the outcomes that its environment has. The text is a
sequence of digits, commas and dashes. `MapFailed` is the failure of `mmap`;
`NewWords`, `FromStatic`, `WordAt` and `Get` have the arithmetic of the code with its
overflow checks and wrap-around.

## Runs

| Run | Shows | States |
|---|---|---|
| `cs_words` | x86-64. Two threads, two CPUs, a head and a side word of CPU 0 and a word of CPU 1; all plain operations, a paired call with different keys. `TypeOK ArmedInCS ConfirmedInCS OnePerIndex NothingStale OnlyHomeWrites ImplementsWordOps` | 635 thousand |
| `cs_chases` | aarch64. Either a list of two nodes by concurrency id, popped with `load_if_ne`, its first node pushed back with `store_if`, one thread with a signal handler that does the same; or `fetch_add_at` through a pointer that `compare_exchange` moves between two tables. `FramesOutside ChaseLegal SlotLegal NothingStale ImplementsWordOps` | 614 thousand |
| `stress` | aarch64. The six stress tests, two threads with two iterations each, and fences beside `store_if`. `NothingLost OneOwner FenceAborts` | 897 thousand |
| `scheduling` | x86-64. Liveness of a call and of a retry loop, `EveryCallReturns EveryLoopReturns` | 58 thousand |
| `rseq` | two threads in twenty-four environments. `TypeOK BoundIsRegistered CpuOpsProtected KeysExclusive NoAreaLeftBehind WordsCover RefusedForAReason BindsAgain` | 127 thousand |
| `membarrier` | a process and its child, two threads each, with and without kernel support. `RootNeverRefused RootRegistersOnce RefusedBesideARetry EveryFenceReturns` | 7.7 thousand |
| `store_if_side` | violated: `MissLeavesSide` | |
| `membarrier_fork` | violated: `ForkedFenceRetried` | |
| `rseq_exit` | violated: `ThreadValidUntilExit` | |
| `rseq_none` | violated: `NoneMeansNoKernel` | |
| `drain` | violated: `Conserved` | |
| `freelist` | violated: `ThreadOwned` | |

Bounds. Two threads and two CPUs are what a race over one word needs: one
thread inside a block, the other one on its CPU or on another; a third thread
would only stand in for the second. Two CPUs and two concurrency ids make
migration and return possible. `Width` is the number of values of a `usize`,
2 to 11 here: sums wrap around in `cs_words` and `cs_chases`, while in `stress`,
`drain` and `freelist` the width leaves room for every sum and address, as in the
program. `cs_chases` has two structures, and a behaviour keeps to one of them. Memory starts at fixed
contents and takes every content the calls can produce. A signal handler does
not nest, and one thread has one: handlers of the other thread add nothing that
its preemption does not. `Rounds` = 2 iterations let a thread meet the result of
its own earlier one, or of the other thread's, in the second. In the `cs_` runs all
words of a structure have one kind of index, and a test of `stress` reads one kind;
`OneIdSpec`, `ChasesSpec` and `SmallSpec` let the kernel give a thread the id of its CPU for
both, since the other one is of no account. So does `Scheduling`. In `stress`,
fences run beside the test whose block has two stores. `FreeList` has one
concurrency id, so that one thread runs at a time, and its violation needs no
more. `Membarrier` counts registrations to 2, which is what its property tells
apart.

In `rseq`, `U32Max` is 15, CPU ids have one or two digits, and the buffer has
`BufLen` = 6 bytes in place of 256. The possible CPUs are {0,1}, {0,2}, {1} and
{9,10}, and three lists that are cut: `0,2,4,6` behind a comma, `0,2,4-6` behind
a dash, and `0,11-12` inside its last number, which still parses, as a smaller
one. The file can be opened and read always, or sometimes (`sysfs`); never is in
`rseq_none`. Feature sizes 0, 24, 28 and 33 and glibc sizes 0, 20 and 33 lie on
both sides of each comparison the code makes.

Every action fires in the passing runs. Threads are symmetric in `cs_words`,
`stress`, `freelist` and the runs of `Rseq`, which have no liveness property.

Deadlock is checked in all runs but those of `Rseq`, where threads end.

Fairness. In `Scheduling` a running thread executes its next step, an instruction
or a part of its loop (weak); a thread that runs again and again with its slice
used up is preempted, and one that waits gets a CPU again and again (strong, as
other threads take turns). Nobody has to begin a loop. `Quantum` is how many
steps the kernel leaves a thread alone. With 9 a loop is left alone from reading
its CPU to the commit at least once; with 8 `EveryLoopReturns` fails, since the
thread can be moved behind every pick. So the guarantee is as good as the
kernel's slices are longer than one round, on Linux by orders of magnitude. In
`Membarrier` every thread in `run` goes on (weak fairness of its steps; syscalls
return); fences, forks and new threads are not required.

### The six violations

`store_if_side`. `src/thread.rs:436` says of a `Miss` of `store_if` that `side` is untouched.
The trace: a thread stores the side word and is preempted before the commit;
another thread changes the head; the first one is restarted and misses. The side
word keeps the store of the first attempt. Lines 413-414 of the same comment
say that a restart may write `side` again, so callers must treat it as scratch
on every outcome, as the push of `benches/freelist.rs` does.

`membarrier_fork`. `src/membarrier.rs:34` and `README.md:34` say that a fence after fork registers
again on `EPERM`. The trace: a process fences, forks; the child fences, gets
`EPERM`, takes `USED` with `swap(false)`, registers and fences; `USED` stays false.
The child forks; the grandchild finds `READY` true, gets `EPERM`, and with `USED`
false it is refused, now and for good.

`rseq_exit`. `src/thread.rs:126` says that a self-registered `Thread` is valid until
its thread exits. The trace: the destructor of `SLOT` unregisters the area, which
makes `cpu_id` a sentinel but `mm_cid` 0; a destructor that runs after it calls
an operation on the word of `Cid(0)` and passes the check, on an area the kernel
no longer looks at. Words of a CPU are safe even there (`CpuOpsProtected`).

`rseq_none`. `src/rseq.rs:41`, `README.md:29` and `ROADMAP.md:266` say that `None` of
`Rseq::new` means a kernel without rseq. The traces: on a kernel with rseq,
`init` registers the area of the first thread, and then `Cpus::possible` returns
`None`, because the file in sysfs cannot be opened or read (`src/cpus.rs:15`) or
because the one read of 256 bytes cuts the list behind a comma or a dash
(`src/cpus.rs:14`). `STATE` keeps the `None`, also when a later read would
succeed, and the area stays registered. `RefusedForAReason` says what the reasons
are: these two, no blocks or no kernel support, and another library that was
first on the thread that called.

`drain`. `benches/drain.rs:4` describes stop, fence, steal; `steal_all` sets no stop.
The trace: an addition begins behind the fence, reads the word, `steal_all`
swaps it for 0, and the addition stores the sum: what was stolen is in the word
again. The bench keeps no sum, so nothing there notices.

`freelist`. `benches/freelist.rs:4` says that push stores `next` on a thread-owned
node. The trace: on CPU 0 `pop_rseq` reads the head, node 2, and its link, node 1;
its thread is preempted, another thread pops node 2, moves to CPU 1 and pushes it
there. The first thread wakes up on CPU 1, where the head is node 2 too: its
`compare_exchange` succeeds and installs node 1, which is still on the list of
CPU 0. Two threads pop it. `load_if_ne` exists to do this inside one
section, and `OneOwner` of the run `stress` shows that with it no node has two owners.

## Proofs

All theorems hold for any finite or infinite sets of threads, CPUs, ids,
addresses and calls (finitely many threads where they are counted), any width
and both architectures, from named assumptions that TLC evaluates in the runs.

The blocks need `ConstantsOK` and `OneKindPerCall`; what is about words also needs
`OneIndexPerWord`, an address has one index for good. Nodes whose tag or link is
written on whatever CPU a thread is (`unique_pop`, the free list) are outside of
that; `stress` and `freelist` check those programs directly, and `StressProofs` proves
`unique_pop` with an invariant of its own. The inductive
invariant grows in four layers, because none of the properties is inductive by
itself:

1. `Shape`: types, `InBlock` (the instruction pointer stays in the block of the
   call), `ArmedInCS` and `FramesOutside`. A kernel step sends a thread in its
   section to position 1 because the area names the section; the area does because
   position 1 is the only way in and arms it. Gives `Typing`, `Armed` and
   `HandlersApart`.
2. `Confirming` adds `IndicesDistinct` (the kernel's contract on the published
   ids) and `ConfirmedInCS`. A running thread past the check keeps its index since
   only `Resume` changes it and `Resume` sends it back. Gives `ConfirmedStays`
   and, as two threads past their checks have different indices,
   `ExclusionPerIndex`. The first two layers, in `ConfirmingProofs`, say nothing
   of words, so that `FenceProofs` and `StressProofs` can use them without
   `OneIndexPerWord`.
3. `Stable` adds `KeysAgree` and `NothingStale`. A store happens past a check,
   to a word of the index that was checked, so a second thread cannot change what
   the first has read. The step needs `ChaseContract`: `NoStaleCommit` and
   `HomeWrites` have `[]ChaseContract` as a hypothesis and hold for callers who keep
   it in whatever way.
4. `Stable /\ WellHeld` needs no hypothesis. With `ValuesKept`, every word keeps a
   value of its set (`WellHeld`), since a store puts a constant of its call, the
   link it read (`LinkLegal`) or a sum (`SlotReached`) there; and that the registers
   still agree with memory makes the address of a chase one that the rule allows.
   The two depend on each other: what was read is only worth something while it
   is not stale, and nothing stays fresh unless chases stay at home. Gives
   `ChasesStayHome`, `SlotsStayHome`, `NeverStale` and `WritesStayHome`.

The block texts enter through a few lemmas on their shape (`BlockShape`,
`LabelOp`, `NextLabel`), proved by cases over the twelve blocks.

`CriticalSectionProofs` also proves that the blocks implement `WordOps`: `Refinement` under
`[]ChaseContract`, and `BlocksAreAtomic` from `ValuesKept` alone. The step simulation
maps a committing store to `Succeed`, a failed compare to `Fail`, a failed check to
`Refuse`, the store to the side word to `Scratch`, `Resume` to `Move`, and the entry
and exit of a handler to `Suspend` and `Continue`; everything else stutters. `Stable`
is what makes this work: at the commit, the registers still agree with memory and
the index is still the one checked (`Confident`), so the operation as a whole
could have been done at that instant.

`FenceProofs` proves `FencedBlocksEnd` on top of layer 2. The invariant `Fencing` says
that a thread in an old attempt is `Covered` whenever it runs: the interrupt has yet
to reach its CPU, or it has left the CPU of its word. When the last interrupt has
been sent, no old attempt is past its check.

`StressProofs` proves `CountsAreExact`, with the lemmas of `CountingProofs`: in the
five counting tests, for any finite number of threads and any iterations, every
word holds the successes counted or about to be counted on it. `Counting` says
that a thread executes the operation of its test on the word it has picked, and
that past its load that word still has the value loaded. A commit then adds one
to the word and one success to those not yet counted (`Effect`), a miss or an
abort neither, and `Settle` moves one success from one account to the other.
`LayoutOK`, `CallsOK` and `ThreadsOK` say that the words of the test are apart, that
its calls are in `Calls`, and that threads are finite.

`PopsAreUnique` states `OneOwner` for any number of lists of any length, which
`ListsOK` takes apart: every node is in one place of one list, and tags, links and
heads are different words. `OneOwner` walks through memory and is far from
inductive. The invariant `Popping` has no walk: `Lined(first)` says that the head of
every list points to the node that was in position `first` of it at the start,
that links are as they were, that nodes from there on have a zero tag and no
holder, and that those before have a zero tag and one holder, or a tag of one and
none. That a list only ever loses its first node is what makes it a matter of
positions. `Taking` says what a thread has in hand: a head loaded past the check
is still the head, and the link loaded through it still the one behind it, because
two threads past the check on one CPU's head would have one index; a tag is
written by its one holder, on whatever CPU that is. The commit of `load_if_ne`
moves one head one position on and makes its thread the holder (`LinedPop`), the
commit of the tag ends the holding (`LinedTag`), and a restart changes neither.
That the walk of `OneOwner` finds the positions from `first` on (`WalkIs`) is an
induction over its steps, by the smallest step at which it would not.
`OneIndexPerWord` is not assumed: a tag has the index of whatever CPU its holder
is on. The invariant of all six tests is `Fencing` with `Popping` or with
`Counting /\ NothingLost`.

`FencesBesideTests` proves `FenceAborts` beside all six tests: every step of a test
is one that `FenceNext` allows.

`RseqProofs` holds for any threads and environments that satisfy `EnvironmentsOK`
(glibc reports a size only with kernel support, and then at least the legacy
one), `AddressesOK` (words for all `u32` CPUs fit the address space) and `CpuListOK`
(what the kernel writes: digits, commas and dashes with a digit at the end, numbers
of possible CPUs, and every CPU at or below a number that ends a range). The invariant `IInv` relates, per
thread, the sentinel in an area to what the kernel has (`AreasInv`), the `Thread` to
the mode of the process (`HandleInv`), and the key confirmed to the index in the
area (`InsideInv`); across threads, places differ (`PlacesApart`); and what `New` has
settled on fits the environment (`Chosen`). It gives `Types`, `BoundThreads`,
`CpuOperations`, `NothingLeftBehind`, `ExclusiveKeys`, `Refusals` and `Rebinding`.
`Refusals` is `RefusedForAReason`: whether or not the list can be read, `New` settles on
`None` for one of the reasons above only, and on `Some` only with blocks, kernel
support and a list that can be read. `WordsInMapping` is about `Words` alone: for any
count, a count of one included, `get` refuses exactly the ids from the count on,
and the words of the others lie inside the memory and do not overlap.
`EveryIdHasAWord` joins all parts: the parser counts beyond every CPU of a list that
it reads in full (`CountCovers`), there are no more concurrency ids than CPUs, and
so the words of `Rseq::words` cover every index that a thread can read; behind a
list that is cut inside a number the count may be too small, and then `get` refuses
the index. The maximum of a set is found with `LeastNatural`, an
induction by the well-foundedness of `<` (`NumberLemmas`).

`MembarrierProofs` proves for any sets of processes and threads that the first
process registers at most once (`RootOnce`) and is never refused when the
kernel supports the command (`RootServed`). The invariant `Published` relates
`READY`, the registration and the thread between the two: there is at most one
such thread, `READY` is busy while it exists, and a published `READY` tells the
truth about the registration.

It also proves `RetryNotLost`: in a process that inherited `USED`, a
fence is refused only beside the thread that took the retry. Its invariant
`Inheritance` says that `USED` implies a true `READY`, and that the inherited
retry is there (`USED`), taken (a thread is about to register) or done
(registered), in processes forked from forked ones as well.

Only model-checked: liveness (`EveryCallReturns`, `EveryLoopReturns`,
`EveryFenceReturns`), which the proof system cannot reach under fairness. Every
invariant and action property of the passing runs is stated by a theorem.

## Not modelled, and the plan

- Weak memory. On one index every access is ordered by a context switch, so this
  matters only for accesses from another CPU outside the blocks, which `Drain` and
  `FreeList` have as sequentially consistent steps.
- The node id and `slice_ctrl` of the area: no operation of the crate depends on
  them. The offsets, the alignment and the abort signature (a wrong one kills the
  process) are layout; unit tests in `src/abi.rs` and at the end of both block files
  check them.
- How symbols and the auxiliary vector are read (`src/registration.rs`), and that
  `munmap` happens behind the last borrow, which the Rust type system checks.
- The fallback operations, which only abort and have no state.
- The variants of the benches with atomics and thread-local counters, which use
  nothing of the crate, and the sequential unit tests in `tests/ops.rs`.

Hazards without a property are callers' rules (a slot of `fetch_add_at` shared by two
CPUs, the side of a `store_if` that is the word itself, one word picked with a
`CpuId` and with a `Cid`), a fork between a first fence and its `USED.store`, and a
fork while another thread is inside `get_or_init`: the first fence of such a child
waits for ever (`Orphaned`), which `EveryFenceReturns` leaves out.

What remains, in this order: `fetch_add_at` with tables that share a slot, under a
statement of what the two indices may then assume; several threads in a process
that inherited nothing; one word picked with both kinds of index, to say what is lost.
