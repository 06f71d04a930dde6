# scoro: a TLA+ verification project

scoro is a header-only C++23 library of coroutine primitives: futures that can
be awaited, waited for and cancelled, `wait_all`, `wait_any` and `wait_each`, a
timer with sleeps and timeouts, a semaphore and a mutex for coroutines, a
looper, a lock-free queue, and a loop around io_uring. Nothing in it is
distributed or persistent; what is hard is that a coroutine suspends on one
thread and is resumed by another one, through a few atomic words, and that the
code that resumes it goes on beside it.

Each module below is a translation of one component. Line numbers are those of
the files under `src/`; `PROJECT.json` gives the lines of every definition.

## Inventory

| component | source | state | operations | hard behaviour |
|---|---|---|---|---|
| AtomicQueue | `include/container/queue.hpp` | `m_head`, `m_tail`, linked nodes with a stub in front | `enqueue`, `try_dequeue`, `wait_dequeue`(`_until`, `_for`), `maybe_empty`, `stop`, destructor | an element gets its place and becomes visible in two steps; addresses are reused; sleeping on `m_tail` |
| waitable_atomic | `include/waitable_atomic.hpp` | one word | `wait`, `wait_until`, `notify_one`, `notify_all` | compare and sleep |
| CountingSemaphore, Mutex | `include/sync.hpp` | `m_count` (permits, waiters), `m_waiters`, `m_mutex` | `acquire`, `try_acquire`, `release(n)`, destructor; `lock`, `try_lock`, `unlock` | the count is changed in one step, the waiter enqueued in two later ones; wakeups are promised before they are delivered |
| wait_all, wait_any | `include/awaitable.hpp` | `waiting_count` or `ready_index`, `coroutine_addr`, the results | one runner per operation, `await_ready`, `await_suspend`, `await_resume` | a runner and `await_suspend` both try to resume; `await_suspend` goes on after the coroutine was resumed |
| wait_each | `include/awaitable.hpp` | `remaining`, `coroutine_addr`, an AtomicQueue of results | the same, awaited again and again | several `await_suspend` calls in progress |
| Promise, Future, WaitableFuture | `include/coro.hpp` | result, `m_state`, `m_caller_coroutine`, the frame | return, `final_suspend`, `wait`, `wait_for`, `detach`, `co_await`, `get`, destructors | the final awaiter uses the frame after it has let the owner go on |
| CancelablePromise | `include/coro.hpp` | `m_state`, `m_waiter` | `cancel`, `wait_cancel`, `final_suspend` | `m_waiter` is not atomic; a wait may replace another one |
| Timer, TimerRunner | `include/timer.hpp` | a heap of tasks, `m_stop`, mutex, condition variable | `add_task`, `run`, `stop`, destructor | callbacks run without the mutex and add tasks |
| with_timeout | `include/timer.hpp` | `state`, value or exception | the operation, the timer's task, `await_suspend` | the operation may answer before the task is added |
| sleep_for, sleep_for_cancelable | `include/timer.hpp` | `ControlBox` | the task, its cancel function, `cancel` | three compete to resume one coroutine |
| LooperScheduler | `include/looper.hpp`, `scheduler.hpp` | a queue of handles, `m_stop` | `submit`, `run`, `stop` | as in the timer |
| io::Service | `include/io/` | the rings, `m_cqe_count` | `read`, `write`, `nop`, `co_await`, `set_callback`, `run` | a full submission ring met inside the loop over the completions; entries submitted before they are complete; coroutines that leave the thread of `run` and come back |
| intrusive_ptr, rc_ptr | `include/ptr/` | reference counts | copy, move, release | who drops the last reference, on which thread, and who is still inside |
| meta, wheel, hazard_ptr | `include/detail`, `include/timer`, `include/ptr` | none | compile-time lists; stubs | none |

How they interact: `CountingSemaphore` and `WaitEachAwaitable` are clients of
`AtomicQueue`; `AtomicQueue` and `WaitablePromise` block in `waitable_atomic`;
`with_timeout` and the sleeps give `Timer` callbacks that resume coroutines on
the timer's thread; the runners of `wait_*` resume the awaiting coroutine on
whatever thread their operation completed; `io::Service` resumes on the thread
of its `run()`; `rc_ptr` and `intrusive_ptr` decide who deletes a semaphore and
a `ControlBox`; `main.cpp` combines all of them.

What makes a component correct: a queue loses, duplicates and reorders nothing
and touches no deleted node; a semaphore grants no more than its permits and
wakes those it promised to wake; whoever awaits goes on once, with its result,
and is not forgotten; a task of the timer is run or cancelled, once, in time;
`stop` ends the threads it is meant to end; a completion of the ring is seen
once and reaches the coroutine that awaits it; a shared object is deleted once,
after its last use.

## Modules

| module | models | correspondence |
|---|---|---|
| `FifoQueue` | the promise of `AtomicQueue` | `Claim` and `Publish` are the two visible steps of `enqueue`, `Take` a dequeue, `FrontVisible` is `!maybe_empty()` |
| `AtomicQueue` | `queue.hpp`, the waits of `waitable_atomic.hpp` | one action per atomic access that others can observe; `prod[p]` and `cons[c]` hold the locals of `enqueue` and of the helper; `heap` makes reuse of addresses possible; it implements `FifoQueue` |
| `CountingSemaphore` | `sync.hpp` 12-114 | the compare-exchange loops are one step each; the queue is an instance of `FifoQueue`; `SpinForever` is the spin of `wait_dequeue` |
| `SharedSemaphore` | `sync.hpp`, `queue.hpp` and `rc_ptr.hpp` together, as in `test_sem` (`main.cpp` 80-108) | `m_waiters` is an instance of `AtomicQueue`: a coroutine is a producer, a releaser a consumer whose locker is `m_mutex`; `refcnt` decides when `Delete` runs; it implements `CountingSemaphore` |
| `RefCount` | the counts of `rc_ptr` and `intrusive_ptr` | `AddRef`, `Release`, `IsLast` |
| `AsyncMutex` | `sync.hpp` 116-135 | an instance of `CountingSemaphore` with one permit, its spin included, and who holds it |
| `CoroutineSlot` | the word `coroutine_addr` | store, exchange, and the store buffer between them |
| `AwaitSpec` | the promise of `wait_all`, `wait_any` and `with_timeout` | goes on once, after a sufficient set of operations finished |
| `WaitAll`, `WaitAny`, `WaitEach` | `awaitable.hpp` 597-668, 160-304, 776-886 | `rpc[i]` is the runner of operation i, `tail` the rest of `await_suspend`; the first two implement `AwaitSpec`, the third keeps its results in a `FifoQueue`, whose `enqueue` may fail; its consumer is the loop of `test_wait_each` (`main.cpp` 120-154) |
| `NestedWait` | a `wait_all` that is an operation of a `wait_any` | extends `WaitAll`; the runner that awaits the `wait_all` is one of an instance of `WaitAny` |
| `ResultTypes` | `meta.hpp` 16-110, the variants of `awaitable.hpp` 55-157 and 317-417 | the recursion over type lists as in the code; `Get` is `get<N>()` on the alternative that the variant holds |
| `Timer` | `timer.hpp` 23-115 | `add_task` and `stop` hold the mutex throughout and are one step; `run` is cut where it unlocks, waits, or reads the clock |
| `Timeout`, `CancelableSleep` | `timer.hpp` 117-153, 278-411 and 195-276 | the compare-exchange, what follows it and `await_suspend` are separate steps; `m_ref_count` is that of the `ControlBox`; the clock and the timer are assumed |
| `TimerClients` | the three together | the timer takes the place of what the two clients assume: their task is claimed when `run()` calls the callback and cancelled when `stop()` does |
| `Looper` | `looper.hpp` | as in `Timer` |
| `Future` | `coro.hpp` 178-575, 744-758 | `coroutine` is the coroutine's end and final awaiter, `owner` the life of its future |
| `Cancellation` | `coro.hpp` 585-741 | `cpc[c]` is a call of `cancel()`, `bpc` the `await_suspend` the body executes |
| `CancelableFuture` | the two together | `final_suspend` cancels before the final awaiter; the owner waits, awaits or destroys while others cancel |
| `IoService` | `io/service.hpp`, `io/sqe_awaitable.hpp` | `sqe`, `sqhead`, `sqtail` and `cq` are the rings; every access to `m_cqe_count` is a step; `run.pc` is the step of `run()`, `client[c].thread` where a coroutine runs; the kernel is `SubmitEntries` and `Complete` |
| `MC*` | | symmetry sets and constants for TLC |
| `CountingSemaphoreProofs`, `AsyncMutexProofs`, `AtomicQueueProofs`, `SharedSemaphoreProofs`, `NestedWaitProofs`, `TimerClientsProofs`, `FutureEachProofs`, `RunLoopProofs` | | theorems and proofs about the modules they are named for, and about those that these compose; `FutureEachProofs` is about `CancelableFuture` and `WaitEach`, `RunLoopProofs` about `IoService` and `Looper` |

Abstractions they share. A compare-exchange loop is one step, since a failed
round changes nothing. Values, results and exceptions are tokens. The states in
which everybody is through, or sleeps for good because nobody is left to wake
him, have a stutter (`Terminating`, `Through`, `TimerStopped`), so that deadlock
is checked for all others. Memory is sequentially consistent, except for the
handle that `await_suspend` stores (`CoroutineSlot`): its delay past the next
load is what the code's release and acquire orders allow, and x86 does.

`release()` resumes a coroutine on its own stack; in `CountingSemaphore` the
two run side by side, which has more interleavings and not fewer. Result
storage in `wait_any` is modelled for operations that return something; an
operation returning `void` stores nothing and its index is its whole result.

## Runs

Two runs for the queue, two for the semaphore (alone, with proofs, and over its
real queue), one for each other component or composition of components, and one
for a comment that `wait_each` does not live up to.

| run | distinct states | instance | what it shows |
|---|---|---|---|
| `queue` | 232,397 | two producers with two elements each, one consumer that polls, waits, or waits with a deadline, three addresses, `stop` and destruction at any time | no access to a deleted node and none left over, no sleep on an element that is visible, `stop()` ends every wait, and the refinement of `FifoQueue`: nothing lost, duplicated or reordered |
| `semaphore` | 4,388 | five tasks; `release` of 2 or 1, withdrawals of 1 or 3, also of permits that are not there; the spin | no more acquisitions than permits, but for those overdrawn; no idle permit; a waiter of its own for each wakeup that `release` promised; nobody left behind by the destructor |
| `semaphore_queue` | 71,559 | two coroutines, two releasers that share `m_mutex`, three addresses, no permit at first; an allocation may fail, an acquisition be given up, a release not come | the refinement of `CountingSemaphore`; the last `rc_ptr` deletes the semaphore, nobody uses it afterwards, and no node is left; everybody comes to an end |
| `mutex` | 1,501 | four tasks that lock any number of times; an `unlock()` may spin | exclusion, order of service, and that every `lock()` returns unless an `unlock()` spins |
| `nested_wait` | 180,400 | a `wait_all` of three operations and two others in a `wait_any`, store buffers | all results are there, the winner's result is the one delivered, each part and the whole expression implement `AwaitSpec`, the coroutine goes on |
| `wait_each` | 101,416 | three operations, one of which need not complete, two whose result may be lost, two `await_suspend` in progress, store buffer, a consumer that awaits again or ends at `nullopt` | only a suspended coroutine is resumed, `remaining = 0` means what `await_ready` takes it for, the results that the consumer counts are delivered |
| `timers` | 200,524 | the timer, one `with_timeout`, one cancelable sleep, one `cancel()`, deadlines up to 2 | a task runs or is cancelled, once, and in time; each client behaves as its own module says; true answers; the `ControlBox` is there for the awaitable and the callbacks and is deleted after the last of them; who sleeps goes on |
| `looper` | 15,466 | three coroutines, two submissions each | order, nothing after `stop`, service |
| `cancelable_future` | 52,866 | three `wait_cancel`, two callers of `cancel` and `final_suspend`, one owner | results found, nobody left waiting in a destroyed frame, only suspended coroutines resumed, the owner goes on |
| `io_service` | 1,014,010 | two coroutines, one of which goes to other threads, three operations, a submission ring of one entry, two unread completions at most | unless two threads overlap at `m_cqe_count`, it is what was seen and not given back; only the coroutine that awaits an operation is resumed for it; every operation is served and `run()` returns |

`MCNestedWait` also has an assumption that TLC evaluates, for all packs of up to
three operations that return values, references or nothing, those of three with
`noexcept`, the smaller ones with and without: the type lists of `meta.hpp` are
what they are meant to be, and
`emplace` and `get` name one alternative of the variants.

Two more runs end in a violation, and are findings:

* `queue_test_assertion`: `wait_dequeue` may spin until `stop()` on a gap that
  was closed long ago, so that the assertion of `test_atomic_queue.cpp` fails.
* `wait_each_sleep`: a coroutine suspends for good although `remaining` is zero,
  which the comment at `awaitable.hpp:864` excludes.

### Behaviours that properties leave out

Modelling met more places in which the code does less than one may expect. The
models keep these behaviours; the properties name the one interleaving they
except by a ghost variable or a condition, so that they say what holds.

* `release(-n)` withdraws permits without a check (`sync.hpp:55`). With one permit,
  `release(-2)` leaves `count` at -1 and nobody waiting; a coroutine that then
  acquires waits at -2, and `release(1)` wakes it, although no permit is free.
  `overdrawn` counts such permits, and `GrantsWithinPermits` and `NoIdlePermit`
  allow for as many.
* An `unlock()` that meets a waiter between its two steps into the queue may spin
  with `m_mutex` held, as in `queue_test_assertion`, and the mutex then goes to
  nobody. `Spinning` in `NoStarvation`.
* A `stop()` that falls into a callback of the timer is missed: `run()` takes the
  mutex again and waits without a look at `m_stop` (`timer.hpp:68`; `looper.hpp:64`
  for a resumed coroutine). `raced` in `Timer`; `StopWhileIdleEndsRun`. The
  destructor of `TimerRunner` then joins a thread that sleeps.
* A handle whose store is overtaken by the next load (`awaitable.hpp:289`, `653`,
  `869`) may be missed by the last runner. `Overtaken` in `EventuallyFinished` and
  `AllDelivered`.
* `wait_any` publishes the winner's index before the winner's result
  (`awaitable.hpp:208`); `await_ready` (285) and `await_suspend` (290) may take an
  index without a result. `WinnersResult` is about the third way, in which the
  winner resumes the coroutine.
* `wait_each` may return `nullopt` while operations are left (`awaitable.hpp:881`),
  and the `maybe_empty` of a slow `await_suspend` may read a deleted stub (871).
  The consumer in `main.cpp` does not expect that: it calls `value()` on the
  `nullopt` (`main.cpp:128`), the exception leaves a `Nothrow` coroutine, and the
  program ends (`coro.hpp:198`). A consumer of the model does that or awaits again
  (`AfterNull`). `AllDelivered` counts the first as an end; in the model only the
  consumer ends, and the other threads go on.
* A result of `wait_each` is lost if its node cannot be allocated: `enqueue`
  returns false (`queue.hpp:41`), the runner does not look (`awaitable.hpp:803-846`)
  and counts down all the same (850). `lost` in `NoneRemaining` and `AllDelivered`.
* A caller that registers after the final awaiter has looked for one is not
  resumed (`coro.hpp:511`). `missed` in `Future`; `EarlyCallerResumed`.
* The owner may destroy the frame while the final awaiter still uses it
  (`coro.hpp:399`, `538`). The model goes on as if it were there.
* `cancel()` reads `m_waiter` while a wait writes it (`coro.hpp:599`, `651`).
  `overlapped` in `Cancellation`.
* A `cancel()` between `await_ready` and `add_task` of a cancelable sleep finds no
  handle (`timer.hpp:233`). `raced` in `CancelableSleep`; `EverybodyGoesOn`.
* A destructor waits for its coroutine although it was cancelled, if the body does
  not look (`coro.hpp:536`); a sleep whose time is over before it is awaited
  returns false (`timer.hpp:229`). Both are in the models and contradict no
  property.
* With two consumers one may sleep on an address that was freed and allocated
  again for the new tail. `NoLostWakeup` is checked with one, for which the queue
  is made. The semaphore, however, has as many as there are calls of `release()`
  that deliver: a releaser may so sleep although its waiter is in the queue. It
  is one of the cases of `Hung`, which `EverybodyEnds` excepts, with a releaser
  that spins (`queue.hpp:150`) and a release that never comes.
* A waiter whose node cannot be allocated is counted and in no queue
  (`sync.hpp:104`): no release resumes it and the destructor does not destroy it.
  `LeaksWaiter` in `SemaphoreSpec`.
* The `notify_one` at the end of `enqueue` may run after the coroutine was resumed
  and the semaphore deleted (`queue.hpp:57`). It passes an address to the kernel
  and reads nothing; `NoUseAfterFree` excepts it.
* `cancel()` may resume a sleeping coroutine while its `await_suspend` still has
  to use the awaitable (`timer.hpp:234`); if the coroutine destroys it, the box may
  be gone as well. `BoxLifetime` excepts this race.
* `cancel()` resumes the coroutine on its own stack (`timer.hpp:220`). If that
  coroutine destroys the awaitable, `cancel()` then writes `m_cb->waiter` (221)
  through an awaitable, and perhaps into a box, that is gone. `DestroyAwaitable`
  may come at that point in the model; `BoxLifetime` is about the users that hold
  a reference, and `cancel()` holds none.
* A task added after `stop()` is never run or cancelled (`timer.hpp:41`).
* An operation of the service is prepared when `read()` is called and gets its
  user_data when it is awaited. A submission in between (another operation that is
  awaited, `run()` itself while the coroutine is on another thread) sends it off
  with what the entry had before: nothing, or a resolver that is gone. `early` in
  `IoService`; a behaviour that has it begins no new operation.
* `m_cqe_count` is a plain counter. A coroutine on another thread that meets a full
  ring gives completions back and clears it (`service.hpp:80`, 81) while `run()`
  increments it (98) or does the same (103, 104). If one of them reads before the
  other has written, completions are given back twice, which skips some, or are
  seen again. Each of these accesses is a step of `IoService`, and `overlapped`
  is set there; the three properties except it. Accesses that do not overlap
  are taken in the order in which they happen, although nothing in the code
  makes one visible to the other thread.
* `run()` sleeps on if its future ends on another thread after the check
  (`service.hpp:92`), until a completion comes; `main.cpp:166` awaits a `nop` for
  this reason. `Served` is about the other case.

### Bounds

Two producers, and two consumers or a consumer and `stop`, are what every race
of the queue needs (`queue` has the latter, `semaphore_queue` the former); with
three addresses, one of them the stub, nodes are freed and allocated again while
others hold their address (`Nodes`, `NLoop`). Five tasks
let two release to two waiters at the same time (`Tasks`); three permits unused and
three overdrawn (`MaxUnused`, `MaxOverdrawn`) are enough for a `release(2)` that
wakes one or two waiters, or none, from above, at and below zero. Three
operations give a winner, a loser and a last one (`Awaitables`). Two
`await_suspend` calls in progress (`Tails`) are one that is slow and one that
is current. Two tasks of the timer within three instants (`Tasks`, `MaxTime`,
`Deadlines`) are one that is awaited and an earlier one that is added meanwhile,
in either order, or both due at once. Two submissions of a coroutine
(`MaxSubmits`) are a submission from outside and one from the worker. Three
waits and three cancels, the last by `final_suspend`, let a wait replace
another between two cancels. The tasks of the mutex lock it without a bound, so
that one of them could be overtaken for ever. Two coroutines and two releasers
(`Coroutines`, `Releasers`) let a wakeup be owed by one and given up by another,
with either of them the last to hold an `rc_ptr`. The consumer of
`wait_each` counts two operations (`Counted`) and the third need not complete; a
counted and another result may be lost (`MayLose`). Three
operations (`MaxOps`) on a submission ring of one entry (`Entries`) fill it
inside the loop, at its end and outside; two unread completions (`CqEntries`) make
the kernel refuse a submission. A behaviour begins no operation after an early
submission or an overlap, and ends when it has had both.

### Fairness

Weak fairness of the steps of a thread that is inside a call: the operating
system schedules every runnable thread. Strong fairness of the one step that
competes with others for the timer's mutex, `add_task`: a mutex that is unlocked
again and again is granted in the end. Store buffers drain. Time passes. Awaited
operations complete where the property says so (the `wait_all` in
`nested_wait` needs all, the consumer of `wait_each` those it counts, the other
operations need not) and not elsewhere: in
`TimerClients` nothing makes the operation answer. The kernel completes every
operation it has accepted.
Nobody is assumed to call `stop`, `cancel`, `release` or `enqueue`, except the
owner of the mutex, who unlocks it, the callbacks of `test_sem`, which release,
and, in the queue, its owner's `stop`. No spurious
wakeup of a condition variable is relied upon, and none is excluded. An `unlock()`
that spins is a step of the mutex like any other, and ends its liveness
(`Spinning`).

## Proofs

`CountingSemaphoreProofs` proves for every finite set of tasks, every initial
count and any integers as amounts of `release`: type correctness,
`GrantsWithinPermits`, `NoIdlePermit`, `WakeupsMatchWaiters` and
`NoneLeftSuspended`. `GrantsWithinPermits` is not inductive: it says nothing of
the permits that are on their way to a waiter. `CountInv` accounts for them:

    unused = count + waiters + Cardinality(Owed)

where `Owed` holds the wakeups that some `release()` has promised and not yet
delivered; it adds `NoIdlePermit`, that a task owes wakeups exactly while it is
inside `release()`, and that whatever is linked in the queue is suspended.
`NoIdlePermit` says that `count` is below zero by at most the waiters and the
permits overdrawn, so `count + waiters + overdrawn` is never negative and
`GrantsWithinPermits` follows. `MatchInv`
adds that every suspended task is in the queue, and
`Cardinality(Registered) = waiters + Cardinality(Owed)`: the tasks that are
about to enqueue, in the queue or linked are those that nobody has promised to
wake, and those that somebody has. Its steps rest on lemmas about the
cardinality of a set that gains or loses one element, and of the union that
`Owed` is.

`AsyncMutexProofs`: every step of the mutex, also one that spins, is one of its
semaphore, which is never overdrawn, so
`CountInv` and `MatchInv` hold of `m_sem`. `MutexInv` adds that the holders are
as many as permits are out, and that a coroutine is in the queue once and only
while it waits. With one permit that gives `MutualExclusion`; and a free permit
means that nobody waits, which gives `NoOvertaking`.

`AtomicQueueProofs` proves for any producers, consumers and addresses
`MemorySafe`, the refinement of `FifoQueue`, and `NoLostWakeup` with one
consumer. The invariant is about `chain`, the nodes in the order of their
exchanges on `m_tail`. It lists exactly the allocated nodes, each once, which
says that no address in use is allocated again; `m_head` is its first and, until
`stop()`, `m_tail` its last; a link is missing only where one producer is about
to make it; each node behind the stub has an element of its own; and a consumer
that holds the locker knows `m_head`, and its successor once it has loaded one.
From this, an exchange on `m_tail` is a `Claim`, the store of the link a
`Publish` and the move of `m_head` a `Take` of `FifoQueue`; all else stutters.
For `NoLostWakeup`, `SleepInv` says that the stub is where the consumer sleeps,
and that once the stub is not the last node somebody is still to notify. This
is false with two consumers, as explained above, and the theorem has the
hypothesis.

`SharedSemaphoreProofs` composes the two: while the semaphore lives, each step
on its queue is one of `AtomicQueue`, so the invariant above holds of
`m_waiters`. The rest says that whoever is inside `acquire`, `release` or the
queue holds an `rc_ptr`, that `refcnt` is the number of holders, that the
semaphore is there until it is zero, and that until then a coroutine that waits
has its handle in the queue. `MemorySafe` follows, for any number of coroutines
and releasers. For the refinement of `CountingSemaphore`, `SemInv` adds what is
not about memory: a handle in the queue belongs to a coroutine that enqueues or
waits, and a releaser that saw a tail other than the head has an element before
him, which nobody else takes. Every step is then one of `CountingSemaphore`, a
`LeaksWaiter`, or a stutter.

`NestedWaitProofs` proves for every finite non-empty set of operations, with and
without the store buffer: `ResumedComplete`, `ResumedOnce` and that `WaitAll`
implements `AwaitSpec`. The inductive invariant says that
`waiting_count` is the number of runners that have not counted down, that a
runner which has counted has stored, that there is one handle at most, in the
slot or in the buffer, and none once the coroutine was resumed, and that a
runner or a tail that is about to exchange has seen the count at zero. From
that, a step that resumes is a `GoOn` of `AwaitSpec`, a `CountDown` is a
`Finish`, and the others stutter. Every step of the composition is a step of
`WaitAll` or leaves it alone, so all this holds within a `wait_any`. `AnyInv` is
the like for `wait_any`: `ready_index` names an operation that has finished, a
result is that of the index and whole once its runner has passed the store, the
handle is in one place, and whoever resumes has seen the index. It gives
`WinnersResult`, and `NestedPromise` for each part and for the whole.

`TimerClientsProofs` has three layers. `TimerInv` is of the timer alone: a task
is in the queue exactly while it is pending, a callback that runs has left the
queue and is due, and the wait of `run()` ends before the first task
(`RunOrCancelledOnce`, `NeverOversleeps`). `DeadlineInv` says that the queue has
the deadlines its clients gave it; with it, each step is a step of `Timeout` and
of `CancelableSleep`, which assumed the timer, or leaves them alone
(`ServesClients`). `TimeoutInv` and `SleepInv` are about these: of the operation
and the task, or of the task and the calls of `cancel()`, one sets `state`, and
only that one resumes, wakes and clears; the count of the `ControlBox` is its
users, the calls of `cancel()` not being among them. `AnswersAreTrue`,
`SharedBoxSafe` and `WithTimeoutSpec` follow, for any
number of calls of `cancel()`, any deadlines and any length of time.

`FutureEachProofs`, on `CancelableFuture`: the registered wait is resumed by
exactly one of whoever comes next (while `m_state` is `eWaiting`), the body in
`reset_waiter`, and a `cancel()` after its exchange; no suspended wait is elsewhere. That holds
until a `cancel()` reads `m_waiter` while a wait writes it (`overlapped`), which
the invariant excepts as the properties do. `EndInv` orders the coroutine's end:
the result, the last `cancel()`, then what lets the owner go on. These give
`GetFindsResult`, `NobodyLeftWaiting` and `OnlySuspendedResumed`, for any waits
and callers.

`FutureEachProofs`, on `WaitEach`, for any finite set of operations and any
number of `await_suspend` calls in progress, with and without the store buffer.
`ResumesOnlyWhileSuspended` is not inductive: an exchange may find the handle of
a later `await_suspend` than its own. `HandleInv` says why this does no harm: the
coroutine is suspended exactly while there is one handle, about to be stored, in
a store buffer, or in `coroutine_addr`, and there are never two; whoever takes it
is the only one who resumes. It also says that a handle is never lost, only
late. `CountInv` and `ResultInv` are about the results: `remaining` is the number
of runners that have not counted down, and a result is with its runner, in the
queue, delivered, or lost for want of memory, in one place, and visible or lost
before it is counted. With
`remaining = 0` nobody is left to count, which gives `NoneRemaining`. What the
read of a deleted stub returns does not matter to any of this.

`RunLoopProofs`, on `IoService`, for any sizes of the rings and any clients: what
is given back and `m_cqe_count` are what the loop has visited, in every step of
`run()` and of a client in `io_uring_get_sqe_safe`. That is inductive together
with `OneWriter`, that at most one thread is between reading `m_cqe_count` and
writing it, and holds until `overlapped` (`CompletionsAccounted`). For
`ResolvesAwaited` an operation is a token: until an entry is submitted early or
two threads overlap, it is in one slot of the ring, or in the kernel, or
among the completions not yet seen, never in two, and has a resolver while it is
in the last two. That no slot is handed out twice is the lemma `SlotsDiffer`.

`RunLoopProofs`, on `Looper`, for any coroutines and any number of submissions:
`ServedInOrder` and `NothingResumedAfterStop`. Neither is inductive without
`StopInv`: before `stop()` nobody was destroyed, after it the queue is empty and
`submit` keeps it so, which is why the inner loop of `run()` needs no look at
`m_stop`. `QueuedOnce` and `OneRuns` add that a coroutine is in the queue once and
not while the worker runs it, so that `stop()` destroys none twice and none that
runs.

The proofs assume what the modules name, which TLC evaluates in the runs:
finiteness of the sets that the code counts (`SemaphoreAssumption`,
`MutexAssumption`, `WaitAllAssumption`, `CancellationAssumption`,
`ClientsAssumption`, `SharedAssumption`, `WaitEachAssumption`), that `Null`,
`NoHandle` and `Never` are no address, handle or time and that actors of two kinds
are not the same
(`AtomicQueueAssumption`, `NestedAssumption`, `TimerAssumption`,
`ServiceAssumption`, `SharedAssumption`), and that sizes are sizes (`Entries` and
`CqEntries` are positive, deadlines are not at instant 0). `TimerClients` has two
tasks and `NestedWait` one level of nesting; the theorems do not go beyond that.
The proofs are of the models: that the models are the code is a matter of
reading.

Only model-checked:

* liveness (`StopEndsEveryWait`, `EverybodyEnds`, `NoStarvation`,
  `EventuallyFinished`, `AllDelivered`, `EverybodyGoesOn`, `EveryTaskServed`,
  `OwnerGoesOn`, `Served`), which the prover does not reach;
* what the recursive definitions of `ResultTypes` compute, since induction over
  data is out of its reach as well.

## Not modelled

* `TrivialFuture`, `with_callback`, `forget`, `this_promise`: they keep no
  shared state.
* The plain `sleep_for`, a cancelable sleep that nobody cancels.
* In `io::Service`: failed system calls, whose results the code ignores, and the
  destructor. `run` has no `return`, so it can only be used with `Future<void>`.
  The buffer of a read that was given up (`main.cpp:162`) is not modelled either:
  the kernel may write into a frame that is gone.
* Pointer operations without a caller: the converting move of `intrusive_ptr`
  (26) takes the pointer and then drops the reference it should have taken over;
  the assignment of `rc_ptr` (42) drops its own reference before it takes the new
  one.
* The views and `Expected`, and the rest of `detail/meta.hpp`: casts that the
  compiler checks. `timer/wheel.hpp` and `ptr/hazard_ptr.hpp`: stubs.
* `waitable_atomic::exchange`, which has no body and no caller, and the
  arithmetic of its deadlines. The `wait_dequeue_for` of the queue that takes a
  locker (`queue.hpp:104-111`) passes its arguments to `wait_dequeue_until` in the
  wrong order and would not compile if it were instantiated, nor would the one
  without, which calls it; nothing in the repository does.
* Lifetimes of awaitables and frames, except in `Future` (the frame), in
  `AtomicQueue` (the nodes), in `SharedSemaphore` (the semaphore) and in
  `Timeout` and `CancelableSleep` (the awaitable and what it shares). For the tail
  of `await_suspend` in `wait_*` there is nothing to show: the code reads
  `this->m_state` after a runner may have resumed the coroutine (`awaitable.hpp:654`).
* A callback that calls `stop()`, and a cancel function whose coroutine adds a
  task under the mutex (`timer.hpp:78`): both block their own thread for good.

## Plan

Every safety and action property of the passing runs is proved. What is left is
a second sleep in `TimerClients`, after a cancel function has resumed the first
one under the mutex, and the plain sleep.
