# Zeo in TLA+

Zeo compiles Ruby programs ahead of time and links them with its own runtime,
`zeo-rt`. The compiler is a sequential translation; the hard part to test is
the runtime's concurrency: Ruby threads run in parallel by default, take turns
under a Gvl when a C extension asks for it, interrupt, join and wait for one
another, start Ractors, switch fibers, load files, and are stopped together
when cycles are collected. Around it, several `zeo` processes share a cache of
compiled programs. This project models that core, checks it with TLC and proves
its main safety properties with TLAPS. Paths below are relative to `src/crates/`.

## Inventory

### What the system is made of

| Part | Where | State | Hard behaviour | Module |
|---|---|---|---|---|
| Gvl | `zeo-rt/src/concurrency/gvl.rs` | tickets, holder, armed flag, cext latch, members, timer | handoff, wrapping tickets, nested guards, arming under way | `Gvl` |
| Stop the world | `gvl.rs` (rendezvous) | `World`, `INT_GC` bits, members | abandoned stops, stragglers, late threads | `Rendezvous` |
| Interrupts, sleep, stop | `gvl.rs`, `thread.rs`, `lib.rs` | slot, ctx bits, wake flag, `PENDING_GLOBAL` | post against park, two-step counting | `Interrupts` |
| Thread objects | `thread.rs` | `ThreadData.state` | one handle, many joiners | `ThreadJoin` |
| Deadlock verdict | `gvl.rs` (deadlock) | `BLOCKED`, `STREAK`, live count | counts read at different moments | `Deadlock` |
| Ractors | `ractor.rs` | status, outcome, ports, monitors, successor | end against registration, two takers | `Ractor` |
| Queue, SizedQueue | `thread.rs` | items, max, closed, waiting | barging, lost notify, close | `SyncQueue` |
| Mutex, ConditionVariable | `thread.rs`, `builtins/condition_variable.rs` | owner, handoff lock, parked | release-and-park, failed re-lock, kill | `CondVar` |
| Monitor | `zeo-rt/ext/monitor` | nesting count over a Mutex | count across a wait, failed re-lock | `Monitor` |
| Fibers, C frames | `fiber.rs`, `coroutine.rs`, `ec.rs`, `cframes.rs` | coroutine table, cells that travel with a stack, open C frames, sole-thread claim | switch with a C frame open, kill and drain of a suspended fiber | `Fibers` |
| Cycle collector | `zeo-rt/src/gc/` | registry, owner counts, edges, marks | no roots known, counts and edges read apart, unregistered owners | `Collector` |
| require, load, autoload | `features.rs`, `kernel/load.rs`, `rmodule.rs` | loaded, loading, depth, pending autoloads | two threads, cycles, failed loads, two names | `Features` |
| Program and package cache | `zeo/src/packages/`, `cli/run.rs` | entry directories, manifests, refusals | kill between steps, two processes, edits | `ProgCache` |
| Definitions and call sites | `zeo-rt/src/runtime_meta/`, `zeo-rt/src/dispatch/` | patched ids and their bits, gates, generation, site caches | a mark in several steps against a send, closures and splices in any order | `Dispatch` |
| Constant sites | `zeo-rt/src/vars/constants.rs` | table, epoch, filled sites | a fill against a write in two halves | `ConstSites` |
| Values, builtins, encodings, regexp, other variables | `zeo-rt/src/` | Ruby data | sequential | no |
| The rest of run-time reflection, eval, FFI, C API | `zeo-rt/src/`, `zeo-capi` | tables | sequential; the lock's part is in `Gvl` | no |
| Compiler, code generation, gems, CLI | `zeo`, `zeo-gem`, `zeo-abi`, `zeo-dsl`, `zeo-macros` | none shared | sequential translation, file and process I/O | no |

`PROJECT.json` lists every component with its sources and, where it is left
out, the reason; it also lists the hazards, each with its line and the
property that would catch it.

### How the parts interact

- `Thread.new` attaches a child to the Gvl (`Gvl`), installs its ctx
  (`Rendezvous`) and stores its handle (`ThreadJoin`).
- Compiled code reaches a checkpoint that reads one counter; a non-zero count
  leads to a queued kill or raise, to a timer tick and a yield, or to parking
  for a collection (`Interrupts`, `Gvl`, `Rendezvous`).
- Waits on a Queue or a Mutex register with the deadlock verdict, leave an
  armed Gvl while parked and wait in 2 ms slices. Between two slices a `pop`
  polls for interrupts; a `push` on a full queue and `Mutex#lock` do not.
- A Ractor never takes a turn under the Gvl and has no `thread::CURRENT`:
  what it does through Thread primitives falls back to the main Thread.
- `Thread#join` takes the handle that the verdict's live count looks at, and
  `Thread.new` stores it only after the child was started.
- A collection relies on the rendezvous: `Collector`'s `Missed` is the thread
  that `Rendezvous` shows can be overlooked.
- A fiber switch saves the C frames' count and claim with the stack, and the
  second thread that takes the sole-thread claim is the one `Gvl` spawns.

## Modules

Each component module has the state as variables, one action per step between
two lock sections or atomics, `Next`, `Spec` and, where progress is checked,
`FairSpec`. The convention in all of them: `Program(t)` gathers what Ruby code
may decide to do next, `Advance(t)` the steps the runtime takes once begun.
`MC<Name>` instantiates `<Name>` for TLC; the proof modules are listed under
[Proofs](#proofs). Where two components have their proofs in one module, the
names that both would have differ in one of them (`HeapSpec` in Collector,
`CacheSpec` in ProgCache, `JoinSpec` and `at` in ThreadJoin, `RactorSpec` and
`at` in Ractor). The
`map` of `PROJECT.json` names the lines of each definition.

**FairLock** is what an armed Gvl promises: one owner, waiters granted in
order of arrival, switched on at most once. **Gvl** implements it with two
wrapping ticket counters, a holder and a condition variable. `TakeTicket`,
`Recheck`, `Release` and `NotifyAll` are the lock sections of `acquire` and
`release`; `Hold`, `Without`, `HoldReentrant` and the drops `DropHold` and
`EndWithout` push and pop on `frames`, the guards on a thread's stack.
`LatchLoad`, `LatchSwap` and `Arm` are the latch behind `note_cext_loaded` and
`note_thread_spawn`. The timer sets ticks, and
a ticked thread yields at its checkpoint. The refinement mapping takes the
waiters with a ticket, and for each one those closer to `nowServing`.

**Rendezvous** is `stop_the_world`: announce, ask the members one by one, wait
for the count or give up, run the pass, resume and unlock. A member is a
thread whose ctx somebody still owns: the thread itself or, once it slept, its
Thread object.

**Interrupts** splits a post into its three steps (fill the slot or bit,
count, wake) and a take into two, and has both checkpoints and both parks.
The modelled program runs without `ZEO_GC`, the default.

**ThreadJoin** follows `ThreadData.state` through `Thread.new`, `join`, `value`,
`join(limit)`, `alive?` and `status`. `Early` says whether the body publishes
`Thread.current` before `Thread.new` has stored the handle.

**Deadlock** abstracts what is waited on to who has been woken, and keeps every
read of a poll a step of its own: live count, `BLOCKED`, streak. `Spawn` and
`Store` are the two halves of `Thread.new`, before and after the handle is
stored, and `kept` the threads whose handle is in place. `raced` is history:
the polls that a `Thread.new` overlapped.

**Ractor** is one Ractor's end: its body and its own Threads on the default
port, and takers in other Ractors that register a monitor port, wait for the
token, claim, read, cross and store.

**SyncQueue** is Queue and SizedQueue under the queue's lock, with items
numbered in the order they are pushed. A plain Queue is the instance whose
bound is never reached. **CondVar** is a Mutex and a ConditionVariable used the
usual way: wait while a flag is unset, set it, broadcast then or later.
**Monitor** extends CondVar by the nesting count: `Enter` and `Entered` around
its `Lock` and `Locked`, `ExitLast` or `ExitInner` by the count, and
`WaitForCond`, `Reentered` and `ReenterFails` around its wait. `depth` is what
each thread's own code has entered, the reference for the count.

**Dispatch** is what stands between a definition made at run time and the
call sites compiled before it. `Define`, `DefineOwn` and `MixIn` begin a
definition, `MixIn` in two kinds: `mix_in`, which refuses a cycle and marks the
overlay live before it splices, and `splice_mixin`, which does neither; `Patch`, `Known`, `Insert`, `Mirror` and `Gate` are `patch_class`
and `patch_class_own` between two atomics or locks, `SpliceRead` and
`SpliceWrite` the two halves of a splice. `DefineFails` is a definition that
raises after it wrote rows. `Send`, `Bit`, `Cache`, `Fill` and `Miss` are
a cached call up to the point where the frozen answer or the overlay is used;
`Vet` to `Store` are `class_vet_at`. Which body a lookup finds is not modelled:
a class is a name in other classes' chains, and `told` records which classes a
returned definition changed. **ConstSites** is one emitted constant reference:
`Move`, `Name` and `Insert` are `const_set` and `const_remove`, `Reveal` and
`Bump` the operations that change the table first, `Include` a mix-in, which
changes what the name resolves to and leaves the epoch alone, and `Get` to
`Stamp` are `ConstSite::get`.

**Collector** is the registry and one pass after another over it. The heap is
a function from slots to nodes: a slot is a field of a node, or a place the
walk cannot see. `New`, with every field it may be given, `Store`, `EachObject` and `Drop` build every heap a
program can build, `Publish` moves a record out of a thread's buffer, and
`Snapshot`, `Count`, `Visit`, `Roots`, `Mark` and `Sweep` are the pass.
`Reachable` is the reference definition: what code can get at from outside the
heap. `Fixed` are the immutable nodes, Proc and Range, which a sweep cannot
empty.

**Fibers** is one thread's stacks. `SwitchTo` and `SwitchBack` are the two
halves of `coroutine::resume`, with the yielder cell, the ambient context and
the C frames each keeps on its own stack; `Drive` is `fiber_drive`, on which
`Resume`, `Transfer`, `Raise` and `Kill` are built. `Enter` and `Leave` are
`cframes`. `End` and `Drain` are `terminate_thread_fibers`.

**Features** keeps a stack of open loads and constant reads per thread over
one table. `Require`, `Mark` and `Finish` are a computed `require` of a
compiled-in unit or a file on disk, `Load` is `Kernel#load`, and `Read`,
`ReadLoads`, `ReadFalse` and `Take` are an autoload. A body may raise at any
time.

**ProgCache** is `zeo run` from the lookup to the exec, as steps between two
file operations. A source is a text and its directory's stamp, a binary the
sources it was compiled from, a manifest a function from `Rows` (a file's text,
a directory's stamp) that `Verify` compares one by one. `CommitStart` and
`CommitEnd`, and the package's, are the two ends of a manifest's write: between
them, and after a kill there, the file holds a `Cut` of its rows, or is `Torn`
within one. `Kill`, `Fail`, `FailRemove` and `FailCommit` are the faults, `Edit`
and `AddFile` the user. `Quiet` says that no source changes between a compile
and its commit. `lapses` is history: it notes the three events after which an
entry need not tell the truth (see [What does not hold](#what-does-not-hold)).
When two processes write one manifest at once and their rows differ, the file
is taken to be the later one's.

Four MC modules hold several worlds in one run. They extend a component for
one and instantiate it with other constants, or another component, for the
others; a variable that never changes says which. `MCGvl` has a Ractor and a lock armed by the latch in the
first, and attached Threads under `ZEO_GVL=1` in the second, the only fair one.
`MCInterrupts` has the timer and a Ractor in one, and neither in the other.
`MCSync` has the condition variable, the Monitor and the queue, `MCSites` a
site that sends, a site that vets and the constant site.

## Runs

### What holds

| Run | Instance | Properties | States |
|---|---|---|---|
| `gvl` | main, a Thread and a Ractor, armed when main loads an extension, guards three deep; or three Threads, `ZEO_GVL=1`, two deep; tickets modulo 4 | one runner, no lost wake-up, the second of load and spawn arms, implements `FairLock`; in the second world every waiter is served and `Thread.new` returns | 1,263,545 |
| `rendezvous` | main, a Thread, a Ractor; two stops | `parked` is exact; whoever was asked is parked during the pass; every parked thread resumes | 57,676 |
| `interrupts` | main, a Ractor and the timer, or main and a Thread; two posts | the counter accounts for every bit and slot; without the timer no interrupt and no wakeup is slept through, and an interrupt reaches its target or the target ends | 1,266,544 |
| `threadjoin` | three callers, the object handed out early | an emptied state has somebody to fill it; a join returns | 36,904 |
| `deadlock` | three Ruby threads, one steady or none, any of the others started later, and a Ractor | while a thread keeps running no poll counts towards a verdict, but for those a `Thread.new` overlapped; a deadlock is reported | 215,964 |
| `ractor` | a Ractor with a Thread, takers in two Ractors, two waits each | outcome before status, one token and no lost one, no stale monitor | 2,622,076 |
| `sync` | three threads at a condition variable; or at a queue with four items, `max` 1 or 2; or two at a Monitor, two deep | no broadcast lost before the park, a waiter on a flag that was set returns; order and conservation, nobody waits for ever in sight of an item or a free slot, `close` ends every wait; the nesting count is exact | 83,662 |
| `sites` | two threads, a class with its parent and a module, two definitions, and a site that sends or one that vets; or three threads and two changes of a constant, mix-ins among them | a send after a definition that reaches its class is not answered from the frozen tables; a remembered verdict and a cached constant are what the tables say | 1,069,965 |
| `progcache` | two processes, two files with two texts, two changes, one fault, up to the first lapse | what is executed is what the sources said while the process ran; both manifests vouch only for what they sit beside | 3,953,962 |
| `features` | two threads, a unit with two names, a unit behind an autoload, a file also run by `load`; four frames deep | a file runs once; the loading table and the depth are exact, also after a raise | 760,285 |
| `fibers` | two fibers and the root, two C frames on each stack, a second thread | the cells describe the stack that runs; no coroutine is lost; the sole-thread claim comes back | 62,950 |
| `collector` | two mutable nodes and an immutable one, two of them with two fields; two outside slots | nothing reachable is emptied; only what an unregistered owner keeps survives; what was reclaimed is freed | 426,898 |

Some properties carry a condition that the next section explains:
`JoinReturns` speaks of a Thread that has a joiner or an outcome,
`NoFalseVerdict` is checked with no Ractor joining a Thread (`Joining` = {}) and
leaves out the polls in `raced`,
`TokenArrives` speaks of a status nobody stored over, `OnceOnly` and
`LoadingExact` leave out the files `Kernel#load` runs, `progcache` has `Quiet`
and its properties speak of the time before a lapse,
and `collector` has no thread missed. `NestingExact` holds until a wait came
back without the Mutex. `SendFresh` speaks of definitions that returned: the
rows that an `attr_accessor` or `undef_method` wrote before it raised are not
marked, and no send has to see them. It leaves out a class that some thread has
put in the set and not yet published, `VetFresh` the time from the write of a row
to the next mark, `ConstFresh` a site filled while a write was between its two
halves or looked up before a mix-in, and a reveal between its own.
`AskedAreParked` speaks of the threads that were asked, not of one that attached
later.

Some definitions stand in the modules and in no run. `QueueIntact`,
`NoStrandedHolder`, `HandleOnce`, `StaysEnded`, `OneSuccessor`, `Exclusive` and
`WaitingExact` are proved, and the runs leave them to the proofs. The type invariants,
`BlockedExact` and `TerminatedHasOutcome` say little that the listed properties
do not need already, and most of them are proved. The rest are the
sentences of the next section.

### What does not hold

Each row is a sentence of the source's own comments and a behaviour of the
code against it. Where a definition is named, checking it on the instance given
yields the behaviour; the instance is otherwise that of the component's run
(for Gvl and Interrupts with `Spec` of the component's own module).

| Source | Sentence | The code's behaviour | To reproduce |
|---|---|---|---|
| `gvl.rs:402` | "a Ractor never attaches to the process Gvl" (`ractor.rs:1`) | a Ractor that loads the extension becomes the holder, has no guard, and ends without releasing | Gvl: `holder \in Ractors => pc[holder] # "done"`, `Loaders` = {r} |
| `gvl.rs:617` | "worth running once a SECOND thread exists" (`gvl.rs:615`) | a Gvl armed after both threads attached has no timer until a third attaches | Gvl: the guard of the timer's start |
| `gvl.rs:419` | "So every other Ruby thread parks first." (`gvl.rs:800`) | a thread that attaches after the members were asked runs during the pass | Rendezvous: `OthersAreStopped` |
| `thread.rs:516` | "The number of live attached threads" (`gvl.rs:434`) | a finished thread whose Thread object is referenced stays a member | Rendezvous: `MembersAlive` |
| `thread.rs:513` | "lets `#kill`/`#raise` wake exactly this sleeper" (`thread.rs:106`) | a Ractor's sleep replaces the ctx main registered; main is not woken | Interrupts: `NoLostInterrupt` with a Ractor |
| `thread.rs:549` | "raised inside the target thread at its next checkpoint" (`thread.rs:486`) | a Ractor's checkpoint takes the exception queued for main | Interrupts: `TargetDelivers` with a Ractor |
| `thread.rs:524` | "even a `rescue Exception` can't keep a killed thread alive" (`thread.rs:110`) | a killed thread that rescues `Exception` runs on | Interrupts: `KilledDies` |
| `thread.rs:480` | "zero means every thread's fast path can skip the slow path" (`gvl.rs:32`) | a post to a thread that ends first leaves the counter above zero for good | Interrupts: `ZeroWhenIdle` |
| `thread.rs:480` | "exactly the number of set bits across all live contexts" (`gvl.rs:31`) | a take that overtakes its own count hides another thread's kill for that moment, and the thread parks on it | Interrupts: `NoLostInterrupt` with three Threads |
| `thread.rs:904` | "poll for the first joiner's stored result" (`thread.rs:899`) | a join before the handle is stored polls for ever when nobody else joins | ThreadJoin: `EveryJoinReturns` with `Early` |
| `thread.rs:973` | "Whether the thread is still running" (`thread.rs:969`) | `alive?` is false for a running thread somebody joins | ThreadJoin: `Alive` on an empty state |
| `thread.rs:965` | "the limit expired with the thread still running" (`thread.rs:916`) | `join(limit)` answers nil for an ended thread another joiner is at | ThreadJoin: an empty state after the end |
| `gvl.rs:712` | "`true` means nothing in this process can make progress." (`gvl.rs:698`) | a Ractor that joins a blocked Thread lets the verdict fall on a program that can go on | Deadlock: `NoFalseVerdict` with `Joining` = {r} |
| `gvl.rs:712` | the same | a poll counts one live thread less than there are: `Thread.new` has started a child, and the child blocks, before its handle is stored; or it starts one after the live count was read and before `BLOCKED` is. With a thread running, two blocked ones then look like all. One such poll adds one to the streak; 512 in a row take a program that starts threads at every poll | Deadlock: `NoFalseVerdict` without `t \in raced` |
| `ractor.rs:454` | "a registration can neither race past termination" (`ractor.rs:516`) | a Thread of the Ractor stores RUNNING over TERMINATED after its receive; a later join registers with a finished Ractor and never returns | Ractor: `NeverRacesPast` |
| `ractor.rs:730` | "a re-take (same successor) answers the SAME object" (`ractor.rs:81`) | two threads of the successor get two copies of one result | Ractor: `SameObject` with `Home <- Together` |
| `condition_variable.rs:124` | "every blocking primitive that can park a thread indefinitely" (`thread.rs:527`) | a killed thread stays in an untimed `wait` | CondVar: `KillEndsWait` |
| `monitor/src/lib.rs:167` | "`count` is only ever read or written by the execution that holds the lock" (`lib.rs:12`) | a wait that fails to lock the Mutex again stores its count into a monitor somebody else is inside, who then leaves too early or never | Monitor: `NestingExact` without `~lost` |
| `mod.rs:839` | "a second `patch_class` on one costs nothing" (`runtime_meta/mod.rs:718`) | the second definer returns while the first has inserted the ids and not yet set bits and gate; its own later send is answered from the frozen tables | Dispatch: `SendFresh` without `~Publishing(c)` |
| `api.rs:1544` | "valid only while this stands still" (`runtime_meta/mod.rs:856`) | `private_class_method` with a later argument that is no name leaves the earlier rows written and marks nothing, as do `runtime_attr` (`api.rs:378`) and `runtime_undef_method` (`api.rs:579`); a remembered verdict stays | Dispatch: `VetFresh` without `~unmarked` |
| `watermark.rs:288` | "each splice reads the chain the previous one wrote" (`api.rs:2579`) | two threads mixing into one class compute both chains before either is installed, and the later install drops the other's module | Dispatch: `[][chain[Site] \subseteq chain'[Site]]_vars`, two modules to mix in |
| `constants.rs:444` | "a write landing between the lookup and the store must leave the site stamped with the older epoch" (`constants.rs:91`) | a write that moved the epoch and has not reached the table leaves the site with the old value under the new epoch, trusted until the next write | ConstSites: `ConstFresh` without `~raced` |
| `watermark.rs:288` | "Bumped by every operation that can change what any constant resolves to" (`constants.rs:28`) | `include` and `prepend` at run time put a module with its constants into the chain and do not move the epoch; a site filled before keeps its answer until the next write | ConstSites: `ConstFresh` without `~raced`, by `Include` |
| `cframes.rs:9` | "While any frame is open the thread's sole-thread claim is hidden" | the claim travels with the stack that took it: when that one closes its last frame the claim is back, also while a fiber's frame that opened meanwhile is still open | Fibers: `SoleHidden` |
| `fiber.rs:543` | "A fiber entered by `#transfer` (like the root fiber) has no resumer to yield back to" | a resume that fails, from another thread as well, has cleared the flag first, and the running fiber yields | Fibers: `TransferRefusesYield` |
| `features.rs:590` | "A unit that raised is NOT loaded: CRuby leaves the feature out of `$LOADED_FEATURES` so a later require retries it." | the marker at the head of a unit records it before its body, so after a raise a computed `require` answers false | Features: `RaisedIsRetried` |
| `rmodule.rs:457` | "A target whose load raises goes back to pending" | a read that finds another thread loading the target spends the registration, whatever comes of that load | Features: `RaisedStaysPending` |
| `features.rs:462` | "one currently loading answers `false` too" (`features.rs:20`) | the end of a `Kernel#load` takes the file out of the loading table while a `require` of it still runs | Features: `LoadKeepsLoading` |
| `progcache.rs:385` | "A hit here would run the previous version of the user's program." | a file that appears, and so changes what a `require` resolves to, between the compile and the commit is in the directory's stamp and not in the binary; the next run hits | ProgCache: `RunsFresh` with `Quiet` = FALSE |
| `autopkg.rs:270` | "re-read them so the PROGRAM cache's manifest covers the gem too, and a gem edit invalidates the cached binary" (`autopkg.rs:266`) | between `pkg_lookup` and this read another process's `pkg_reserve` or `pkg_commit` has removed or emptied the package's manifest; the gem is linked, no row of it joins the program's manifest, and after an edit of the gem the next run hits | ProgCache: `RunsFresh` with `lapses \subseteq {"bare"}` in place of `lapses = {}`, and no faults |
| `progcache.rs:309` | "if one is there and every input it was built from is unchanged" (`progcache.rs:129`) | a process killed while it writes the manifest may leave the first rows of it; `verify` accepts them, and a change of a source whose row is missing is not seen | ProgCache: `RunsFresh` with `lapses \subseteq {"cut"}` |
| `progcache.rs:259` | "A leftover manifest must not vouch for a binary that is about to be overwritten" (`progcache.rs:257`) | the error of `remove_file` is dropped; the old manifest stands beside the new binary until the commit, and for good when the process is killed first | ProgCache: `EntryVouches` with `lapses \subseteq {"kept"}` |
| `progcache.rs:257` | "if the link fails, the entry has to read as a miss" | two processes link one entry: the first commits, the second is killed while it links; the manifest is valid over a torn binary, and every later run falls back to the JIT | ProgCache: `manifest # None => bin # Torn`, once every process is idle |
| `gvl.rs:419` | "So every other Ruby thread parks first." (`gvl.rs:800`) | a thread the stop missed moves a reference during the pass, and the pass empties what it holds | Collector: `NeverClearsLive` with `Missed` = TRUE |
| `collect.rs:42` | Range and Proc "report nothing and a cycle running through one survives" | both are registered and report their edges, and `Freed` shows that this is sound | Collector: `Fixed` |

### Bounds

- Threads: two suffice for a race between an actor and its target, a third is
  the bystander that several of the hazards need (the queue behind a holder,
  the poller beside a joiner). Where TLC checks a safety property that is also
  proved, the proof removes the bound.
- `Width` stands for 2^64 and makes tickets wrap within a run. The code relies
  on fewer queued threads than ticket values, which is `WidthFits`.
- `MaxDepth` = 3 covers hold, `without` and a callback's `hold_reentrant`;
  deeper nesting repeats the same two kinds of frame.
- `MaxStops` = 2 lets a straggler of an abandoned stop meet the next one.
- `MaxPosts`, `MaxWaits`, `MaxSends`, `MaxPushes` bound how often a program
  calls; they let a second call overlap the first.
- `Verdict` scales `STREAK_VERDICT` (512) down to 1. A smaller streak
  only makes a verdict easier, so that no verdict falls with 1 shows more.
- `MaxEdits` = 2 lets a file change and change back; `MaxFaults` = 1 puts one
  kill or I/O error anywhere. Its run stops at the first lapse (`NoLapse`), past
  which the properties say nothing and which no step takes back. `MaxDefs` = 2 and `MaxWrites` = 2 let one
  definition or write overlap or follow another; `MaxNest` = 2 is a re-entry,
  and `Span` stands for the count's 2^64. `MaxFrames` in `Features` is what an autoload
  inside a body inside a `load` takes; in `Fibers` two frames make a nest.
- The collector's instance has every shape that matters: a ring of two, a ring
  through an immutable node, a node owned twice by one other, and nodes the
  registry does not know. In `fibers` an instance
  with three fibers and two frames (3,745,770 states) passes as well.
- `progcache`, `features`, `fibers` and `sites` check invariants only and use
  symmetry of the processes and texts, the threads, the fibers, and the threads
  that define and send.
- In `gvl` main alone loads the extension and starts the first thread, so
  `LatchFires` is checked there for one order of the two threads; it is proved
  for any loaders and spawners.
- The Monitor's world in `sync` has two threads (`Users`); its property is proved
  for any number.
- `gvl` checks liveness of Main and of one spawned thread (`Observed`): in the
  attached world the two spawned threads are interchangeable. In `sync` all
  three threads are, and one is observed.
- Deadlock is checked in `progcache`, `collector` and `sites`, where somebody can always
  go on. In the first world of `gvl` a Ractor that armed the lock may strand
  it, and elsewhere a program may stop, by its bounds, because it ended or
  because nobody is left to wake it. That a thread gets on where it should is
  the liveness properties' part.
- The world without the timer in `interrupts` has no Ractor either. A tick
  that is taken before it is counted lowers the counter as a third thread's
  post does, and a Ractor's checkpoints act for main.

### Fairness

Weak fairness of `Advance(t)` is that the OS schedules every thread that is in
the middle of a runtime operation, and that a timed slice or deadline passes.
The Gvl also assumes that the timer thread ticks and that compiled code keeps
reaching checkpoints, which the compiler emits at loop back-edges and function
prologues. Nothing is assumed of the program: not that a blocking call
returns, that a holder ends, or that somebody joins. Two modules go further:

- ThreadJoin assumes that the body ends, without which no join returns, and
  strong fairness of `Poll`: a poll every 2 ms does not for ever meet the
  instant in which another joiner has the stored outcome out of the slot.
- CondVar assumes strong fairness of taking a contended mutex or handoff lock,
  which may be barged for but is not lost to the same thread for ever, and
  that a thread unlocks what it locked and broadcasts what it owes.

The Monitor's world and `sites` have no fairness: only safety is checked there.

## Proofs

All theorems hold for any number of threads, fibers, processes, classes, files
and slots and any value of the bounds, from the named assumptions of the
component module: that threads and slots are finitely many, that bounds are
numbers, that names that differ in the code differ here, and in `Dispatch`
that a class is in its own ancestry. For each component a proof module defines
an inductive invariant, proves it of the initial states and of every step, one
lemma per conjunct or group of actions, and derives the properties.

| Module | About | Proved | The invariant and why it is needed |
|---|---|---|---|
| `GvlProofs` | Gvl | `TypeOK`, `OneRunner`, `QueueIntact`, `NoLostWakeup`, `LatchFires`, `NoStrandedHolder`, and that `Gvl` implements `FairLock` | `IndInv`. `QueueIntact` speaks of waiters; to keep it when a ticket is taken, the counters must not meet, so `QueueInv` says tickets are the distinct places behind `nowServing` and lemma `Room` counts them against `WidthFits` by an injection into the other threads. `OneRunner` needs the stack's shape: under a `hold` that took the lock every `off` above has been undone (`StackInv`), and where a thread continues after a notify (`ContInv`). The refinement sorts every step by what it does to the queue (`StepKind`); each kind is one abstract step, because a release brings all tickets one closer and so keeps their order (`DistServe`). `LatchInv` says that, unarmed, a swap that fired leaves its thread on the way to `Arm`, and two flags leave a thread at the latch. `NoStrandedHolder` rests on lemma `Ends`: whoever ends without being a Ractor has just released the lock or does not have it. |
| `GcProofs` | Rendezvous | `TypeOK`, `CountExact`, `AskedAreParked` | `IndInv`. The count reaches the number asked only if nobody else is counted: `AskedInv` says whoever has parked in this stop or is on the way was asked in it, `CollectorInv` that one thread collects. |
| `GcProofs` | Collector | `NeverClearsLive`, `ClearsGarbage`, `Freed`, all when no thread is missed | `Inv`. `WalkExact`: a count is the owners in nodes not yet walked, counted as a cardinality, so after the walk it is the owners outside the snapshot. `MarkExact`: what is marked or waits is closed under the edges and pinned. `Freed` needs that the owners of a corpse are immutable corpses (`CorpsesKept`) and that immutable nodes make no ring (`NoFixedRing`): each is older than what owns it. |
| `ThreadProofs` | Interrupts | `TypeOK`, `CounterAccounts`; `NoLostWakeup` without Ractors; `UntickedPark` for two Threads | `IndInv`. The counter is related to four sets at once; each action moves one element between them, and `CtxInv` says a poster's target has a ctx. `ParkInv`: who is on the way to a park has registered its own ctx, and a `Thread.stop` has its flag, its wake-up or a poster. `PairInv` adds the interrupts: who goes on to the park with a filled slot found the counter zero, and of two Threads that means the other has filled the slot and not yet counted (`ZeroIsPosted`, from `CounterAccounts`), so its wake-up is to come. |
| `ThreadProofs` | ThreadJoin | `HandleOnce`, `EmptyHasJoiner`, `StaysEnded` | `HandleInv`. The creator stores the handle into an empty slot, which needs that nobody can have joined before. `OutcomeFinal`: who has an outcome has it after the handle was stored, so no handle comes back to the slot. |
| `WaitProofs` | Deadlock | `BlockedExact`; `NoFalseVerdict` when no Ractor joins a Thread | `Ind` and `Calm`. The verdict compares two counts read apart. While no `Thread.new` is under way the live count only falls (`LiveShrinks`), so an old reading is no smaller; `FewerRegistered` shows registered threads stay below it while a thread is steady, because a started thread whose handle is not in place has a joiner of its own (`HandleHeld`) or its creator is about to store it (`NoneStoring` is when there is none). `Calm` carries this from the read of the live count to that of `BLOCKED` for polls outside `raced`. `RactorsJoin` keeps Ractors out of the joiners; with them there this fails. |
| `WaitProofs` | Ractor | `TakeAfterEnd`, `TerminatedHasOutcome`, `TokenOnce`, `TokenArrives`, `MonitorsLive`, `OneSuccessor` | `RactorInd`. `OnePlace` ties a taker's step to where its port is: registered, owed or fed. `AfterOutcome` says whoever acts on the end acts after the outcome was stored. `Awaited` says a waiter has its token or will be fed, and that a status still terminated leaves no registration behind. |
| `SyncProofs` | CondVar, Monitor | `Exclusive`, `NoLostWakeup`, and of Monitor `NestingExact`, also as the run's `MonitorNesting` | `Ind`. `HandoffHeld`: the handoff lock is held from before the release to the park, so `FlagUnset` carries the test of the flag to the park. `MonitorInd`: a Monitor's count is what its owner has entered and not left, a waiter's is kept in `saved`, and `NoWrap` bounds both below `Span` (`CountFits`). |
| `SyncProofs` | SyncQueue | `QueueOrder`, `WaitingExact` | `QueueInd`. The order is said of one sequence, what was taken followed by what is queued: it rises, and its elements with what was cleared are all the pushes. A take only moves the border between the two parts, so no induction over a sequence is needed. `WaitInd` counts the parked threads. |
| `SitesProofs` | Dispatch | `SendFresh`, `VetFresh` | `MarkInd`: a class whose chain has changed is in the set, the frozen descendants of a closed class are (`ChainsMarked`), and a class in the set whose bit or gate is missing is in the hands of a thread that will set it (`Published`). So a send begun late finds gate and bit (`LateMisses`). `WalkInd`: what a vet has found so far is what it would find again, while the generation it read stands and no row was written since. |
| `SitesProofs` | ConstSites | `ConstFresh` | `FillInd`: while the epoch that a fill read stands, whoever is about to insert was noted when the value was looked up, and a value looked up past none of them is the table's; a mix-in sets `raced` for every value looked up before. |
| `LoadProofs` | Features | `OnceOnly`, `LoadingExact` | `FeatInd`. A stack of open loads per thread and one table: lemmas `Opened`, `Closed` and `Neither` say what each kind of step does to the set of open loads, and the counts follow. `CompletedLoaded` says what ran to its end is in the table, so no later require enters it. |
| `LoadProofs` | ProgCache | `RunsFresh`, `EntryVouches`, `PackageVouches`, all when `Quiet` | `ProgInd`, which holds until a lapse. `BuildNow`: what a build holds is the sources as they are, past its reserve there is no older manifest, and past its link no older file; so two processes in one entry write the same. `Whole`: rows that were written to their end leave no source out, because a compile names all its inputs and a `Cut` has no stamp before the last text (`RowsForFull`); with `EntryTrue` a hit is then a binary of the sources as they are. `SeenNow`: a process has seen the sources as they are and the binary it may execute. |
| `FibersProofs` | Fibers | `SwitchExact`, `CoroKept`, `ClaimReturns` | `FiberInd`. `Linked`: the running stacks are a sequence without repetition, and the call that drives a fiber keeps the stack below it, so a switch back restores the right cells (`CellsOK`). `CountsOK` finds each stack's open frames in `DEPTH`, in the drive above it or on the suspended fiber; `ClaimOK` says a stack that keeps the claim has a frame open, so with none open nobody keeps it. |

Five hypotheses restrict what is proved, and all are needed: `Joining = {}` for
`NoFalseVerdict`, `~Missed` for the collector, `Quiet` for the caches,
`Ractors = {}` for the `NoLostWakeup` of Interrupts and `TwoThreads` (no Ractor,
no timer, at most one Thread beside main) for `UntickedPark` (see
[What does not hold](#what-does-not-hold)). The same goes for the exceptions
the properties themselves name.

Only model-checked: every liveness property, which is out of the prover's reach
(`ParkedResumes`, `UntickedDelivery`, `JoinReturns`, `DeadlockReported`,
`CondVarReturns`, `QueueServes`, `QueueCloseReleases`, `AttachedServed`, `AttachedSpawns`).
Every invariant and action property that a run checks is also proved. That the worlds of `MCSites` are behaviours of `Dispatch` is by their
definition: each is `Next` with some of the calls left out.

## What is left out

Inside the modelled components: names, priorities, groups and locals of
threads; wording of errors; when a collection is due, its census and what each
kind of container reports; `Ractor.select` over several ports, a user's own monitor ports and the copying of object graphs; the
errors that change nothing. A woken queue waiter or port receiver may be
overtaken before its next round, also where the code holds the lock: an
interrupt it peeks at drops it. A non-blocking
`pop` that meets an interrupt answers "queue empty" (`thread.rs:1305`); that
form's interrupt is not modelled. `Features` leaves out native extensions,
boxes and the search of the load path, `Fibers` Enumerator's own coroutines and
fiber storage, `ProgCache` more than one key and one gem. `Dispatch` leaves out
the wide gates, which only send more calls to the full lookup; classes made at
run time, which always read as patched; boxes, moved objects and mix-in hooks;
and a generation that wraps at 2^32. Its atomics are sequentially consistent,
as is the constants' epoch. `Monitor` leaves a kill to CondVar.

### Not modelled

Most of the repository is sequential: the compiler (about half of the lines),
the builtin classes, encodings and regular expressions, code generation and the
C API. What they compute is a relation between programs, strings and values
that small instances do not exercise, and the repository's golden tests compare
it with CRuby. A model of them would be a second implementation. The modules
therefore cover a small share of the lines, and of the protocols between
threads, stacks and processes all but those in the plan.

## Plan

1. **cross_graph**: one copy per object of a graph that crosses to a Ractor.
2. **Compositions**: Gvl with Rendezvous (a stop under turns), Interrupts with
   SyncQueue (a kill during a pop), ThreadJoin with Deadlock.
3. **Proofs**: the refinement of a queue that hands its items out in order, and
   of a Thread object that answers one outcome.
