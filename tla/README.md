# A TLA+ model of the GT.M database engine

GT.M is a key-value database engine and an M (MUMPS) compiler and run-time. Any
number of processes map the same database regions into shared memory and
coordinate through it; there is no server process. This directory holds TLA+
modules, TLC configurations and TLAPS proofs for three of the protocols the
processes follow:

* the M lock manager, which serialises M programs (`MLock`);
* the commit of a transaction over several journaled and replicated regions, with
  processes that are killed or fail in it, and the source server that ships what
  was committed (`Commit`);
* the optimistic transactions themselves, on a buffer cache and a before-image
  journal, with a crash of the machine in any state (`Database`).

## 1. Inventory

All parts, with their sources and status, are in `PROJECT.json` ("components").
The ones with a concurrent protocol of their own:

| Part | State | Operations | Interaction | What makes it correct |
|---|---|---|---|---|
| Lock space (`sr_port/mlk_*.c`) | tree of `mlk_shrblk`, queues of `mlk_prcblk`, `lock_sequence`, GC latch, in shared memory | lock, unlock, unpend, check owner, wake, collect | called under LOCK crit by every process; `kill(pid,0)` for liveness; wakeup signals | exclusion per branch of the tree; nodes and queue entries neither leaked nor used twice; dead owners give way |
| Lock commands (`op_lock2.c`, `op_unlock.c`, ...) | private list `mlk_pvt_root`, `lks_this_cmd`, `mlk_yield_pid` | LOCK, LOCK +/-, ZALLOCATE, ZDEALLOCATE, timeout, interrupt, exit | calls the lock space; reads blocking nodes without crit; unlocks without crit on exit | private and shared state agree; a list is all or nothing; nobody waits for nothing |
| Lock hash table (`mlk_shrhash_*`) | hopscotch table over the nodes | add, find, delete, resize, rehash | under LOCK crit | finds a node iff it is in the tree |
| Crit mutex (`mutex.c`) | latch, queues, sleepers | grab, sleep, wake, salvage | every component | one process at a time; survives the death of the holder |
| Transactions (`t_end.c`, `tp_tend.c`) | histories, update arrays | read, validate, commit, retry | crit, buffer cache, journal | serialisability; final retry succeeds |
| Buffer cache (`wcs_*.c`) | cache records, active queue | read in, modify, write, recover | crit, latches, journal | a buffer is written after its journal records |
| Journal (`jnl_*.c`), recovery (`mur_*.c`) | journal buffer, files | append, flush, switch, redo, undo | crit, fsync latch | durability, prefix recovery |
| Replication (`gtmsource*`, `gtmrecv*`, `updproc.c`) | pool, connections, sequence numbers | send, receive, apply, resync | journal, TCP | secondary is a prefix of the primary |
| Rundown (`gds_rundown.c`, `ftok_sems.c`) | semaphores, shared memory | attach, detach, remove | every open and exit | last one out cleans up, nobody else |

The rest (B-tree, compiler, run-time library, devices, triggers, GT.CM,
utilities) is sequential or rests on the above.

Nearly all of the difficulty of the three is of the kind tests do not reach. In
the lock manager: requests along a hierarchy that meet from above and below,
decisions taken from unprotected reads, owners that die, nodes that are freed and
reused under private pointers, lists of locks that are taken, backed out and taken
again. In the commit: a kill between any two of nineteen steps, repaired by whoever
comes next from what the dead process left in shared memory. In the database:
blocks read without any lock from buffers that are reused, changed in place out of
crit, and written to a file that may be read by recovery. `PROJECT.json` ("hazards")
lists the places.

## 2. The modules

| Module | Contents |
|---|---|
| `MlkShr.tla` | the lock space of one region as a record, and every routine that changes it under crit as an operator from lock spaces to lock spaces |
| `MLock.tla` | the processes: one action per stretch of code between two points where others can run; the properties; the refinement mapping |
| `HierLock.tla` | the abstract promise: names in a hierarchy, a holder per name, at most one live process per branch, a lock leaves its holder only if the holder gives it up, dies or an operator clears it |
| `MCMLock.tla`, `*.cfg` | instances for TLC: names, commands, bounds |
| `MlkShrProofs.tla` | lemmas about the operators of `MlkShr`: what they do to owners, what they leave alone, the tree, the locks of others and the queues |
| `MLockProofs.tla` | the inductive invariants, one lemma per action; types, walks along the list, exclusion; that the nodes stay a tree and that `MLock` implements `HierLock` |
| `MLockHeld.tla` | proofs that private lists and lock space agree, of what commands achieve, and of who is in the queues |
| `Phase2Log.tla` | the two-phase log that the journal buffer and the journal pool both are: reserve, publish, complete, hand over, salvage, undo, as operators from logs to logs |
| `Commit.tla` | processes that commit, step by step, over several regions and the pool; kills, errors, the repair by the next owner; the source server |
| `MCCommit.tla` | its instances |
| `CommitProofs.tla` | lemmas about the operators of `Phase2Log`; types and the journal pool |
| `JournalProofs.tla` | the journals of the regions; what readers have seen is kept |
| `Database.tla` | processes that search, validate and commit on one region; global buffers; the writer of dirty buffers; the journal with before-images and epochs; recovery |
| `MCDatabase.tla` | its workloads |
| `DatabaseProofs.tla` | the parts of the invariant of `Database`, what each action does to each buffer, and the parts about jobs, crit, transaction numbers and pinned buffers |
| `CacheProofs.tla` | the rest of the invariant: readers, writers, BT, contents, search histories; coherence of the cache, current commits, snapshots, the final retry |
| `RecoveryProofs.tla` | journal addresses, before-images, write-ahead and the two files; recovery after a crash |

`Commit` and `Database` look at the same code from two sides. `Commit` keeps every
step and every kill point of the commit and abstracts the blocks away. `Database`
keeps the blocks and what is read and written out of crit, and lets no process die.

Definitions whose name extends that of another with a suffix (`StillValid_ge`) and that are introduced as
"Wrong variant" are plausible mistakes in that definition.
`PROJECT.json` ("mutants") names for each property one that breaks it.

### The lock manager: state

`shr` is the lock space: per shrblk index its name, owner, sequence number and
queue, the number of free prcblks, and `lock_sequence`. Nodes are identified by
their place in the array, as pointers are in the code, so a private `nodptr` or
`blocked` can outlive the node. `latch` is `lock_gc_in_progress`, `alive` the pids
`kill(pid, 0)` finds. Per process: `pvt` (`mlk_pvt_root`, front first), `lks`
(`lks_this_cmd`), `yield` (`mlk_yield_pid`), `pc`, and `loc`, the command with the
local variables of the routine that executes it.

### The lock manager: actions

Crit is held from the start to the end of each `mlk_*` call, so a call is one
action. Everything between two calls is private, and everything read or written
in shared memory without crit is an action of its own:

* `Begin`, `OpLkname`, `StartLock`, `StartRelease`: what the compiled command
  does in order (`op_unlock`, `op_lkinit`, one `op_lkname` per argument, then the
  operation). `ArgError` is an M error in an argument.
* `TryLock`, `SkipLocked`, `mlk_bckout`, `BckoutZallocate`: the first round of
  `op_lock2` and its back-out.
* `TimerPop`, `OutOfTime`, `Interrupt`, `Poll`, `CheckOwn`, `Relinquish`, `Unpend`,
  `PruneStep`: the waiting loop and its ends. `Poll` is the unprotected test after
  the sleep. A wakeup only shortens the sleep and is not state.
* `NeedGc`, `GetGcLatch`, `SalvageGcLatch`, `GcFill`, `check_pids`, `GcClean`:
  garbage collection from inside `mlk_lock`, which drops crit twice.
* `UnlockStep`, `op_decrlock`, `op_zdealloc2`, `EndRelease`: one private block at a
  time, because others run between the unlocks.
* `Exit`, `ExitStep`, `StoreCounter`, `StoreSequence`, `StoreOwner`,
  `ExitZdeallocate`, `ExitDone`: the exit handler, wherever the process is. The
  three stores of `mlk_nocrit_unlock` are separate and the value of the counter
  is loaded before them, as `lock_sequence++` without crit does.
* `Kill`: SIGKILL between two actions. A process killed inside LOCK crit is not
  modelled; `Commit` has what happens when the holder of a region's crit dies.
* `LkeClear`: LKE CLEAR of one lock.

### The lock manager: what is abstracted

* A lock name stands for its subscripts; `Path` gives its prefixes. Subscript
  space and shrblks run out together, so `subfree` is not kept.
* Links between nodes follow from the names. The order of siblings is not kept;
  where the code depends on it (which blocking child is found first, which nodes
  LKE has passed, which pids the scan of the collector misses) every order is
  allowed. Which free shrblk a new node gets is fixed but arbitrary.
* Sequence numbers given to several nodes by one call are given in index order.
* What happens once a walk has left the private list (run `repeat`) is undefined in the
  code and not modelled. An `op_lock2` that has not left it sees what the code sees: an
  `unsigned char` `translev` that wraps and a 9-bit `level`.
* Left out: the hash table, `auxowner` and remote regions, transactions
  (`mlk_tp`), the `old` flag (only read by the unreachable ZALLOCATED case of
  `mlk_bckout`), logging and statistics, `wakeups` (only used by GT.CM), reuse of
  pids. A command interrupted by an out-of-band event is abandoned; for a job
  interrupt the code would issue it again, which is a new `Begin`.

### The commit protocol (`Phase2Log`, `Commit`)

`secshr_db_clnup.c` numbers the steps of a commit CMT01 to CMT19; the value of `pc`
is the next one. Per region `db` has the fields the repair looks at (`curr_tn`,
`early_tn`, `update_underway_tn`, `reg_seqno`, `wc_blocked`) and `jb` the journal
buffer; `pool` and `jnl_seqno` are the journal pool. Both logs are a `Phase2Log`:
addresses `free` and `rsrv`, the array of reservations between `index1` and `index2`,
and what a reader finds at each address. `crit` has the owner of every robust mutex,
who may be dead. A reservation is two steps (addresses, then `index2`), because the
repair tells the two cases apart.

* `GrabCrit`, `GrabLock`: CMT01 and CMT02. Who gets the mutex of a dead process runs
  `mutex_clean_dead_owner` (`CleanDeadJnl`, `CleanDeadDB`, `CleanDeadPool`), and in a
  region `wcs_recover` (`Recover`, `RecoverWritten`, `RecoverDone`), which may itself be
  killed before and after its INCTN record.
* `ReservePool`, `PublishPool`, `EarlyTn`, `ReserveJnl`, `PublishJnl`, `SetJnlSeqno`,
  `UpdateUnderway`, `SetRegSeqno`, `IncrementCurrTn`, `RelCrit`, `RelLock`: CMT03 to
  CMT15. A full array is waited for in crit, cleaning up and salvaging.
* `WriteJnl`, `JnlWriteComplete`, `WritePool`, `PoolWriteComplete`: phase 2.
* `Fail`, `UndoPool`, `UndoDB`, `UndoRel`, `Finish`: an error, `t_commit_cleanup` if
  CMT08 was not reached, `secshr_finish_CMT08_to_CMT14` if it was. `FailPoints` are the
  steps before which an error may come. An error or a restart before CMT03 has only
  critical sections to release, and an instance freeze is noticed there
  (`tp_tend.c:1246-1250`). From CMT03 on `t_ch` sends any `rts_error` to
  `t_commit_cleanup`; `jnl_write_reserve` may raise one (`malloc`) after CMT04 of a region
  and before its CMT06. Errors there break the journals (run `undo06`), so the runs and
  theorems say which points they allow.
* `Kill`, `JnlCleanup` (a cleanup without crit by anybody), `SourceRead`,
  `SourceSalvage`.

Abstracted or left out: every transaction takes one unit of each journal and one of
the pool per region, and neither overflows; the salvage of one entry and the hand-over
are atomic (they run under `phase2_commit_latch`); `in_crit` is the owner of the
mutex; PINI, EPOCH and ALIGN records, instance freeze and supplementary streams;
block contents (CMT10, CMT18); phase 2 of the journal in crit (CMT06a), and the check of
the journal file size before a reservation (`jnl.h:1298-1307`), on which no property
depends; `wcs_recover`'s wait for processes in phase 2 and its work on the queues.

### The database (`Database`)

A transaction is a path of blocks, root to leaf, of which it updates some. The
contents of a block are its number and the tn in its header, or torn while it is being
built. `cr` are the cache records with their buffers, `bt` the BT in tn order, `hist`
the search history of each process with what it saw, `clue` the path it may use
again. `disk` is the database file as `read()` returns it, `stable` what it may hold
per block after a crash: anything written since the last fsync, and a torn block. `jnl`
is the journal with the addresses `dskaddr` and `fsync_dskaddr` as numbers of records.

* The search: `Begin`, `CheckClue`, then per block `NoteTn`, `Find`, `Miss`,
  `GetBuffer`, `DskRead`, `NoteCycle`, `WaitRead`, `WaitInTend`, `Look`. Every read of
  shared memory on which something depends is an action of its own, in the order of the
  code.
* The end of a read: `ReadOnlyEnd`, `CheckTn`, `CheckCycle`, `ReadOnlyDone`, block by
  block and without crit. `Fail` and `Retry`, the last time in crit.
* The end of an update: `GrabCrit`, `Validate`, `CheckEpoch`, `FlushJnl`, `WriteEpoch`,
  `Reserve` (CMT04, CMT06), `Phase1`, `Phase1Wait` (CMT10), `IncrementTn` (CMT12, CMT14);
  and out of crit `WriteJnl` (CMT16), `BuildStart`, `BuildEnd`, `Release`, `ResetInTend`
  (CMT18).
* `WtStart`, `WtLock`, `WtWrite`, `WtRelease`: `wcs_wtstart`. `JnlQio`: journal output.
* `Recovered`: what recovery makes of a block.

Abstracted or left out: kills and `wc_blocked`, and with them the failure return of
`wcs_phase2_commit_wait` in `WaitInTend` (`t_qread.c:694-715`, `cdb_sc_phase2waitfail`), which
in crit needs a dead process and out of crit `wc_blocked`; the test of the clue in the final
retry and the search of the same key again in `CheckClue` (`gvcst_search.c:322-332`); which dirty
buffers `wcs_wtstart` takes and in which order (`WtStart` takes any); `refer` bits and the clock
hand (empty buffers are taken in order, then any reusable one); the call of `wcs_get_space` before crit, which saves time
only; asyncio and twins; write errors and a failing `wcs_flu`; bitmaps and block splits
(a split would end the clue, as an update of more than the leaf does here); TP,
`$INCREMENT` and NOISOLATION; MM, clustered access, encryption; PINI, ALIGN and EOF
records and the journal file switch. Every record counts one; the journal buffer does
not overflow.

## 3. What is checked

### Properties

Each module has a `TypeOK`. Locks:

* `Exclusion`: nodes on one branch never have different owners, dead or alive.
* `KeepsPromise`: `MLock` implements `HierLock`. `holder` is read off the owner
  fields; a process is busy while it executes a command or its exit handler.
* `HeldIsOwned`, `OwnedIsHeld`: a granted private block points to a node of its
  name that the process owns under the sequence number `mlk_unlock` tests, and an
  owned node has such a block. The first is what lets a process unlock what it
  locked, the second what keeps locks from leaking.
* `QueuedIsWaiting`: a process is queued once, on the node it waits for.
* `WalksStayInList`: the loops that count along the private list stay on it, as long as
  `RepeatsFit` holds: no name comes 256 times in one command. Otherwise they do not (run
  `repeat`).
* `CompletedIsReserved`, `UnlockedIsReleased`: what a completed command, a
  timeout or an interrupt leaves.
* `TreeShape`, `PrcblksConserved`: no second node for a name, no orphan, no lost
  queue entry.
* `SleepJustified`: who goes on sleeping without crit is blocked by a live owner
  of a related name, although the node may have been reused. It holds while nobody exits
  with a lock; the unprotected `lock_sequence++` of the exit handler breaks it (run `stale`).
* `Served`: liveness, below.

Commit:

* `PoolTiles`, `JournalMatchesDb`: when nobody holds the lock, or crit, the reservations
  cover the log without a gap and agree with `jnl_seqno`, with `curr_tn` and with
  `reg_seqno`, however the last holders ended. A transaction number is in the journal once,
  except that a killed `wcs_recover` leaves an INCTN record whose number the next one uses
  again; the readers of the journal expect that (`mur_output_record.c:347-361`,
  `mur_forward_play_cur_jrec.c:320-336`). The second of the two, `AllOrNothing` and
  `ShippedIsJournaled` are claimed for errors after CMT06 only.
* `AllOrNothing`: a seqno that was taken is in the journal of each region its transaction
  updates, once, and of no other. A comment in `mutex_clean_dead_owner` leaves one window
  open (killed after CMT07, before CMT08 of the region); only those pairs are excepted.
* `ReadersSeeCommits`: what is handed over is what the committer wrote, or a NULL record of
  a dead one.
* `ShippedIsJournaled`: seqnos are sent in order, and an update only if all journals have it.
* `NothingTakenBack`: what a reader may have seen never changes.
* `InFlightEnds`: liveness; every commit ends and every seqno is sent.

Database:

* `CommitsAreCurrent`: an update that passed validation has seen the latest contents of
  every block of its path.
* `ReadsAreSnapshots`: what a read returns existed at one tn, not before it began.
* `NoFinalRestart`: the final retry never fails the validation in `t_end`, which asserts
  `CDB_STAGNATE > t_tries` there. Other restarts are allowed in it (`t_retry.c:287-310`), by
  journal state changes, cache recovery, online rollback or a dead process in phase 2, none of
  which is in the model.
* `CacheCoherent`: a block is in one buffer at most, buffers and file agree.
* `CrashRecovers`: for any prefix of the journal that may survive, for any contents of the
  blocks that may survive, undoing to any epoch in the journal gives the contents of that
  epoch.
* `TransactionsEnd`: liveness.

### Passing runs

| Run | Instance | Shows |
|---|---|---|
| `locks` | 2 processes, 2 commands each out of lists in opposite orders, repeated names, timed and zero timeouts, LOCK -, argumentless LOCK; interrupts | back-out and retry keep private and shared state together |
| `exits` | 2 processes, LOCK and ZALLOCATE on one branch; exit at any point, kill | unlocking without crit and dead owners are safe |
| `space` | 2 processes, a lock space of 2 nodes for 3 names; kills, argument errors, one LKE CLEAR; no exits | collection, refused requests and node reuse are safe |
| `fair` | 3 processes on one branch, 1 command each; exit between commands, kills; `lock_sequence` modulo 3 | single requests are served, also when a holder, a waiter or the collector is killed |
| `commit` | 2 processes, 2 regions, 3 transactions of one or both regions, arrays of 3 entries; one kill or error after CMT06, and a kill of the process that cleans up after its error | every interrupted commit is undone or completed by whoever comes next, everywhere alike |
| `database` | 2 processes, 3 blocks, 2 or 3 buffers, 1 writer, one retry; 6 workloads of up to 3 transactions and 2 epochs | optimistic reads and updates are consistent, the cache coherent, the files recoverable |

Bounds. `MaxCmds` and `MaxClears` bound the commands and clears; two commands per
process are enough for a command to meet what an earlier one left (granted
blocks, levels, stale blocks). `MaxSequence` bounds `lock_sequence` through a
CONSTRAINT in the safety runs: processes that back out of each other's way may
retry for ever, and each retry takes a number. 12 to 16 leaves room for several
rounds after all commands have begun. In the liveness runs there is no such
constraint; the counter wraps instead (`SeqMod` 3 or 4 for 2^32), which also puts
recurring sequence numbers to the test. Three prcblks are never used up by two or three
processes with one wait each: what happens without one is left to `PrcblksKept` and
`WaitersQueued`. Deadlock is not checked: a process with
no commands left stops, and LOCK commands of an M program may deadlock by design.

In `commit` the array size 3 (4096 and 16384 in the code) makes it full with two
reservations, and makes the indices wrap in every behaviour; three transactions are
enough for a dead entry to be met by two successors, once in a region both use. Two
faults (694,000 states) and all sets of regions with two kills and an error (2 million)
were run by hand with the same result. In `database`, fewer buffers than blocks make
every search evict what another has found. The workloads are each the smallest in which
one of the hazards happens: a read against an update of its whole path, a clue that
others have made stale, a buffer that is updated while dirty or being written, eviction
in the final retry, epochs between updates of the same block. Two retries (598,000
states) and two writers (355,000) give the same result. One case is out of the reach of
the run: that a recycled BT record hides a change (`OLDEST_HIST_TN`) takes 5 blocks,
3 buffers and 4 updates by the other process, which is 4 million states; there, too,
the code's test holds and dropping it breaks `CommitsAreCurrent`. Deadlock is not
checked in the two, since processes end; that none is stuck is `InFlightEnds` and
`TransactionsEnd`.

Fairness (`FairSpec` of `MLock`). A process that is able to go on does so: the operating
system schedules it and `hiber_start_wait_any` returns after `LOCK_SELF_WAKE` at
the latest. `CanRun` writes out when that is; a `Poll` that changes nothing is not
progress. A process that waits for the collection latch tries again until it gets the
latch or finds its holder dead: weak fairness of `GetGcLatch` and `SalvageGcLatch`
together, so that `Served` fails when a dead collector's latch is not freed. And a process exits after its last command instead of holding its locks
for ever, without which no waiter could be promised anything. Nothing is assumed
about commands being issued, about timers or about deaths. `Served` is stated for
single locks: with lists, two processes can keep backing out of each other's way.

Fairness in `Commit`: as long as some live process or the source server can take a step,
some step is taken (`WF(Progress)`). Nothing is assumed of a single process. The waits
are loops that sleep and try again, the mutex is robust, and the source server polls.
In `Database` each process and each writer is weakly fair, and so is the journal output:
whoever waits for a buffer or for the journal flushes it himself (`wcs_get_space`,
`wcs_flu`, `jnl_wait`), and the flush timers do the same. Nothing is assumed about who
gets crit.

### Runs that find a violation

Each checks what a comment or the manual says against what the code does; the
details are in `PROJECT.json` ("findings").

| Run | Statement | What happens |
|---|---|---|
| `argerr` | LOCK reserves the names given | after an error in an argument, the second next command naming an already entered lock completes without reserving it |
| `starve` | yielding does not starve | with two queues on the path a process yields for ever |
| `repeat` | repeated names are accounted for, and op_lock2 goes through the locks to be obtained | at the 257th mention `translev` wraps, `lks_this_cmd` counts the name twice and the walk is longer than the list |
| `stale` | an unchanged sequence number means that nothing has changed | an exiting process sets `lock_sequence` back; a reused node gets the number the waiter has noted, and the waiter sleeps behind an unrelated lock |
| `undo06` | an error before CMT08 undoes this transaction's CMT06 | if CMT06 was not reached, the previous transaction of the process is withdrawn from the journal instead |
| `cmt03` | a process killed in the middle of CMT03 is rolled back | not if its previous transaction is the newest entry of the array: the repair takes that for the current one, and the reserved space stays as a gap in the pool |

`commit` kills at every step but the one between the stores of CMT03, which `cmt03`
isolates; errors after CMT04 and before CMT06 are isolated in `undo06`. In `stale` a
CONSTRAINT lets only one process exit and the others issue as few commands as the case
needs.

The model contains three more weaknesses that no run isolates. `exits` shows that
`mlk_nocrit_unlock` is safe if its stores become visible in program order; the fault
"reorder" drops that assumption, and then a late store of the sequence number replaces
that of the next owner, which can no longer unlock. A ZALLOCATE of a list that blocks
behind its first name ends in GTMASSERT (`BckoutZallocate`, `mlk_bckout.c:57`) instead of waiting.
LOCK + of a name repeated in the command may pass level 511 and wrap the 9-bit level
(`op_lock2.c:237-238`).

## 4. What is proved

All theorems hold for every value of the constants that the assumptions allow, not
only for the instances of section 3. In the table, `R` stands for `[]RepeatsFit`, and
"late errors" for `LateErrors`: no error before CMT07. TLC checked each inductive invariant on the
instances before it was proved.

| Theorem | Module | Statement | Hypotheses |
|---|---|---|---|
| `TypeCorrect` | `MLockProofs` | `Spec /\ R => []TypeOK` | |
| `WalksBounded` | `MLockProofs` | `Spec /\ R => []WalksStayInList` | |
| `MutualExclusion` | `MLockProofs` | `Spec /\ R => []Exclusion` | |
| `TreeKept` | `MLockProofs` | `Spec /\ R => []TreeShape` | |
| `PromiseKept` | `MLockProofs` | `Spec /\ R => KeepsPromise` | |
| `GrantsAreOwned` | `MLockHeld` | `Spec /\ R => []HeldIsOwned` | no "reorder" fault |
| `NoLockLeaks` | `MLockHeld` | `Spec /\ R => []OwnedIsHeld` | no "reorder" fault; no LKE CLEAR or no exit |
| `ReservedOnCompletion` | `MLockHeld` | `Spec /\ R => CompletedIsReserved` | no "reorder", no "argerror" fault |
| `ReleasedOnUnlock` | `MLockHeld` | `Spec /\ R => UnlockedIsReleased` | as for `NoLockLeaks` |
| `PrcblksKept` | `MLockHeld` | `Spec /\ R => []PrcblksConserved` | |
| `WaitersQueued` | `MLockHeld` | `Spec /\ R => []QueuedIsWaiting` | |
| `CommitTypeCorrect` | `CommitProofs` | `Spec => []TypeOK` | |
| `PoolHasNoGaps` | `CommitProofs` | `Spec => []PoolTiles` | no kill at cmt03b |
| `JournalsMatch` | `JournalProofs` | `Spec => []JournalMatchesDb` | late errors |
| `SeenIsKept` | `JournalProofs` | `Spec => NothingTakenBack` | late errors, no kill at cmt03b |
| `ReadersReadCommits` | `JournalProofs` | `Spec => []ReadersSeeCommits` | late errors |
| `SeqnosAllOrNothing` | `JournalProofs` | `Spec => []AllOrNothing` | late errors |
| `ShippedJournaled` | `JournalProofs` | `Spec => []ShippedIsJournaled` | late errors, no kill at cmt03b |
| `Coherent` | `CacheProofs` | `Spec => []CacheCoherent` | |
| `CommitsCurrent` | `CacheProofs` | `Spec => []CommitsAreCurrent` | |
| `Snapshots` | `CacheProofs` | `Spec => []ReadsAreSnapshots` | |
| `FinalSucceeds` | `CacheProofs` | `Spec => []NoFinalRestart` | |
| `DatabaseTypes` | `RecoveryProofs` | `Spec => []TypeOK` | |
| `CrashSafe` | `RecoveryProofs` | `Spec => []CrashRecovers` | |

### Locks

The assumptions: `NullAssumption` (0 and -1 are no pids), `PathAssumption` (names
form a forest with finite paths), `SpaceAssumption` (the lock space is not empty)
and `CommandAssumption` (the commands are lock commands). The sets of processes,
names and commands may be infinite, and `lock_sequence` may wrap at any modulus.

The first inductive invariant is `Inv == TypeOK /\ WalksStayInList /\ Exclusion`.
`TypeOK` alone is not inductive: most actions take the private block at `loc.pos`,
and unless the loops stay on the list that is no block. `WalksStayInList` in turn
needs that the first `lks_this_cmd` blocks are exactly those with `trans` set by
this command while names are being entered, which is its first conjunct. It is inductive
only under `RepeatsFit`: a name with `trans` set and a `translev` of 0 would be counted
again. The model does not exclude that, so `[]RepeatsFit` is a hypothesis of each theorem about
the locks; `repeat` shows that it is needed.
`Exclusion` needs `TypeOK` only. Its argument is in two halves:

* every operator of `MlkShr` except `Grant` yields a lock space `Weaker` than its
  argument: no node has an owner it did not have before, under the same name. A
  weaker lock space keeps `Exclusion` (`WeakerKeeps`). That covers unlocking,
  waking, collecting, clearing, node creation and deletion, and the three
  unprotected stores in any order.
* `Grant` is reached only if `mlk_shrblk_find` returns "not blocked", and then
  every node on the path and below the target is unowned or owned by the
  requester (`Clear`): on the path because a live owner blocks and a dead one is
  cleared by the walk, below because `mlk_find_blocking_child_lock` looks at all
  of it.

`TreeInv` adds that the nodes are a tree with one node per name and
that free nodes are empty (`Sound`), that a process is alive exactly until it ends,
that `clean_pids` is given pids of dead processes only, and that the node an exiting
process is about to clear without crit is still its own unless LKE CLEAR was used.
Without the last three the collector or an exiting process could take a lock from a
live process. The second part of `MlkShrProofs` says what each operator leaves alone: outside
of the nodes it is about, it `Spares` the locks of the live processes. With `Weaker`
this is the refinement. The mapping reads `holder` off the owner fields and `busy` off
`pc`; every step is one step of `HierLock` (a grant, justified by `Clear`; a release by
a busy holder or an operator; a death; the reaping of dead owners) or changes neither.

`HeldInv` (`MLockHeld`) relates each private list to the lock space: a block marked as
granted `Holds` its node (`HeldAt`), and an owned node has a granted block, or is the
one the waiting loop has just obtained (`LeakAt`). It needs that no name is twice in a
list, and that in the first pass over a list the blocks before `pos` are granted, as
`mlk_bckout` assumes. The two conjuncts have different hypotheses, because an LKE CLEAR
makes the first false by design and the second only together with an exit that has
tested its ownership before it. Both need that there is no "reorder" fault (section 3).

`CmdInv` follows a command through its steps. `NamesAt`: while names are entered, the blocks
marked `trans` are exactly the first `lks_this_cmd`, and they have the names of the arguments
read so far; afterwards no block is marked, and until op_lock2 ends each argument is among the
first `lks_this_cmd` blocks. With `PassAt` every one of these is granted when the loop ends,
and `HeldInv` says that it is owned then: `ReservedOnCompletion`. The run `argerr` shows that its second
hypothesis is needed: after an error in an argument a block stays marked between commands.
`ZallocAt`: LOCK enters its names after `op_unlock`, when only ZALLOCATEd blocks are left
granted, and what it has obtained since is `Fresh`: the blocks before `pos` in the first pass, those
`mlk_bckout` has still to undo afterwards, none once it waits. So nothing but ZALLOCATEd blocks is
granted when it gives up, and by `LeakAt` the process owns nothing else: `ReleasedOnUnlock`.

`QueueInv`, together with `TreeInv`, is about the queues. `Orderly`: the free prcblks and those
in queues add up, and nobody is in a queue twice. `QueuedAt`: a process in a command that is
queued on a node is in its waiting loop (`WaitsAt`), its private block at `pos` points to that
node and has its name, and the process does not own the node. `QueuedIsWaiting` says less and
is not inductive. The name is needed because `mlk_lock` finds the node by name and takes the
process out of that node's queue. That the process is not the owner is needed because
`mlk_lock`, when it finds the caller to be the owner, returns the lock without looking at the
queue. The third part of `MlkShrProofs` shows that every operator but `mlk_prcblk_add` is
`Tidy`: prcblks it takes out of queues are on the free list afterwards, and whoever is in a
queue was there before, under the same node name. For `clean_pids` this is a count over all
queues at once, with the last entry of each left alone; for `mlk_wake_pending` the dead
processes at the front of each woken queue. `LockQueues` puts them together for `mlk_lock`. No fault is excluded: a process killed in
a queue stays there, accounted for, until a wake-up or the collector finds it.

### Commit

The assumptions: `LogAssumption` (the array has at least two slots) and
`CommitAssumption` (there is a region, a transaction updates at least one, bounds are
numbers, idle processes are not killed). Processes, regions, transactions and faults
are unbounded. `CommitProofs` begins with the lemmas about the log: reserving, publishing
and withdrawing change `InUse` by the newest slot, salvage and hand-over only complete
slots of dead processes and drop the oldest complete ones (`Tidied`).

`TypeInv` adds to `TypeOK` that a process in a loop has a region to work on.

`PoolInv`: the reservations of the pool follow each other (`Chain`) in the order of
their seqnos (`Ordered`). Only the holder of the pool's mutex changes the end of the
array, and `Stage` says by its next step which of three states it has, or has left,
there: `Settled` (the newest is before `jnl_seqno`), `Pending` (its own, not yet taken)
or `Reserved` (between the stores of CMT03). A dead holder leaves `Settled` or
`Pending`, which `mutex_clean_dead_owner` tells apart by pid and seqno; `Reserved` it
cannot tell from `Settled`, hence the hypothesis, which the run `cmt03` shows to be
needed. `Mine` says that the entry of a process in phase 2 stays its own and incomplete
until it is filled, so that no salvage overtakes a live process.

`JnlInv` does the same for every region. `mutex_clean_dead_owner` also has
`curr_tn` in the entry and `early_tn` in the header, and is right after a kill at any
step of the model. `t_commit_cleanup` compares the pid only and is right if the process
is past its CMT06, hence `LateErrors`; `undo06` shows that the hypothesis is needed.
`Sound` says of a journal that its reservations follow each other (`Chain`), that each is
one unit long and `Succeeds` the one before it (`Unit`: the next transaction number, or
the same one if both are INCTN records, which killed recoveries may leave), and that the
records below `free` succeed each other likewise and those of complete slots are in the
journal with the slot's transaction number and seqno (`Filed`). `Spot` says where a
process is in each region of its loop (`Behind`, `Here`, `Ahead` of it), `Owns` that it
is in crit exactly in the spots of phase 1, `Stands` what it finds or has left there:
`Rest` (nothing begun), `Early` (after CMT04), `Taking` (between the stores of CMT06, or
of `jnl_write` in `wcs_recover`), `Logged` (after CMT06, with or without CMT08 and
CMT09), `Redo` (the newest record is an INCTN record numbered `curr_tn`, which
`wcs_recover` has written and not yet passed; a dead owner may leave it, and the next
recovery writes the number again). `Near` is `Calm` or `Redo`. `Entry` is `Mine` for
journals. `TokenInv` (a transaction's seqno is `jnl_seqno` until CMT07, less than it
afterwards) makes `reg_seqno` never exceed `jnl_seqno`. For a free crit, `Rest` is left,
from which `JournalMatchesDb` follows.

`SeenIsKept` uses all of them: no reservation starts below `free` (`AboveFree`), so what
is written, salvaged or repaired is not below it, and a roll-forward can only raise
`curr_tn` and `reg_seqno`.

`RecInv` says who wrote what. `TxnInv` relates `txn` to the processes that are past CMT07;
`RegionOk` says of the records of a journal, and of its reservations, that an `update`
or `null` record carries a seqno taken by its writer for that region (`Names`), and `PoolOk`
the same of the pool. Both leave out at most one reservation, the newest, if its owner,
alive or dead, still holds the lock and has not come to CMT08 (in the pool: CMT07):
`Doubts`, `PoolDoubts`. It may be withdrawn, and nobody fills it before: its owner is not
in phase 2, and who salvages has repaired before. A NULL record names a process that was dead when it was written, and the
dead stay dead. Hence `ReadersReadCommits`. Its proof rests on `JnlInv` and so on `LateErrors`,
as does that of `SeenIsKept`.

`CountInv` says what is in a journal how often: no seqno is at two addresses (`Single`),
every seqno a region owes (`Owed`: taken, of a transaction that updates the region, not in
`torn`) is at one, as a record below `free` or as a reservation, and what a repair
would withdraw for a dead owner of crit is not owed (`Lost`). A kill between CMT07 and
CMT08 is what makes the last conjunct true only outside `torn`; that is the window the
property excepts, and the proof shows that there is no other.

`ShippedJournaled` follows the source server through the pool. A header says how long its
transaction is, and nothing else tells the reader where the next one begins: `OrderInv`
says that there is a `Trail` of addresses below `free` on which each header leads to the
next, or to `free`, with the next seqno, and that `read_addr` is on it with the seqno after
the last one sent (`Track`); of the reservations above `free`, that each takes space and
that a complete one has its header stored with its own seqno and length (`Entire`; `Written` are
the headers stored at CMT17 whose entries are not yet marked), so that `HandOver` extends the
trail. The hypothesis is the one of `PoolHasNoGaps`, whose `Chain` and `Ordered` join the
trail to the reservations. `BackInv` says that a process past CMT16 of a region has a record
there (`Filled`), and that every update in the pool or among those sent has one in each
region of its transaction (`Backed`). These survive because a salvage adds no update
(`NoNew`), and because nothing takes back what is complete in a journal: undo, repair,
roll-forward and salvage leave `Firm` records as they are (`Holds`).

### Database

The assumption is `DatabaseAssumption`: pids and block numbers are positive, there is
at least one try before the final one and at least one buffer, the path of a transaction
is not empty and has no block twice (`IsPath`; a search goes down one level of the tree
at a time), and a transaction updates blocks of its path, fewer than there are buffers.
The numbers of processes, writers, blocks, buffers, retries, transactions and epochs
are arbitrary, so the proofs cover what the runs could not reach, such as a BT record
that is recycled between a read and its validation.

`Core` is the inductive invariant of the buffers. Its parts:

* `JobInv`, `CritInv`, `TnInv`, `OpenInv`: where a process is in its path and in its loop
  over `cw_set`; who is in crit; which transaction numbers and which unfinished journal
  records belong to a commit at each step.
* `PinInv`: no block is in two buffers, and `in_tend` and `in_cw_set` name a process
  exactly while the block is in its `Tending` and `Pinned` sets. The buffer such a block was
  found in is still the one in the history: it cannot be given away.
* `ReadInv`: a buffer with `rip` set is left alone by all but its reader, is clean, and its
  latch is free.
* `WtrInv`: a dirty buffer is on the active queue, with one writer, or held back by a commit,
  which then has the latch (`Locked`). The third case is the delicate one: a commit that
  met a writer (`latch` "conflict") relies on the buffer being off the queue until phase 2
  puts it back. Of an `Unbuilt` buffer it says that no writer can see it.
* `BtInv`: the BT is in tn order and covers each block: its record is as late as the block's
  last change, or it has none and the oldest record is that late. `BtPutCovers` shows that
  recycling the oldest record keeps this.
* `DataInv`: a buffer that nobody is building has the committed contents, a clean one those of
  the file; without a buffer, or while it is being read, the file is current.
* `HistInv`: what the history of a search says. If the cycle of the buffer has not moved, it
  still has the block; if in addition the block has not changed since the noted tn
  (`Ver(b).tn < tn`), what was seen is the committed contents. For `LookSet` this is known
  before the contents have been read, for `SeenSet` after. The order in which `t_qread`
  notes tn and cycle and `gvcst_search` reads the block is what makes the two inductive.

`CacheCoherent` follows from `Core`. `CommitInv` then has `CommitsAreCurrent`: validation
establishes it from `HistInv` and `BtInv`, and crit keeps it. `SnapInv` names the tn of
the snapshot of a reader: it is `curr_tn` when the reader enters `t_end`; the blocks
checked so far are as they were at that tn, and so are those still to be checked if they
pass. `FinalInv` says that everything the final retry has found is
still where it was and not being changed: `Calm` steps of others do not touch it, and
the steps that are not calm need crit.

`DiskInv` adds to `Core` what recovery needs:

* `JnlInv`: the order of the addresses; records in tn order; an epoch is written, and after
  everything that committed before its tn; `wcs_flu` has hardened all of the journal when it
  writes the epoch.
* `Images`: a written before-image has the contents of its block at its tn
  (`ImageInv`); between an epoch and the first update of a block after it there is a
  before-image of the block (`BeforeInv`); the copy a commit has made is right until it is
  written (`CopyInv`).
* `WalInv`: a block is `Guarded` up to an address if after every epoch there is a
  before-image of it below the address, `Hard` if such images are all hardened. A dirty buffer is
  one or the other up to its `jnl_addr`, which `wcs_wtstart` hardens before it writes (or, while
  its committer has made it dirty and not yet set `jnl_addr`, up to the committer's
  `jnl_freeaddr`); a buffer that a writer has locked or is writing is `Hard`, and so is a
  block changed since the last epoch whose buffer is clean. A commit past CMT06 has reserved the
  before-images that are missing (`EarlyInv`).
* `StableInv`: whatever the file may hold of a block after a crash is, for each epoch that may
  be in the journal, either the contents at that epoch or undone by a hardened
  before-image after it. An epoch that is not yet in the file is the last record and
  `need_db_fsync` is set.

`Recovers` concludes: the first before-image after an epoch has the contents at that epoch
(`FirstImage`), and if there is none, `StableInv` says that the block has them already.

### Model-checked only

* Liveness (`Served`, `InFlightEnds`, `TransactionsEnd`): fairness and ENABLED are beyond
  the prover.
* `SleepJustified`, for processes that do not exit with a lock, is not a theorem for every modulus: if `lock_sequence` wraps round
  between two polls of a sleeper, a reused node can carry the number it compares with.
  The safety runs, with a modulus out of reach of the bounds, are what it is stated for.

## 5. Plan

Done: the lock space and its commands; the commit protocol with its repair; optimistic
transactions, buffer cache, before-image journal and crash; the proofs of section 4.

1. TP validation (`tp_hist`, `tp_tend`) in `Database`, with `mlk_tp` and TROLLBACK.
2. Lock hash table: hopscotch insert, find, delete, resize and rehash as functions on
   arrays, against a map from names to nodes.
3. Catching up of a secondary: journal files and pool as sources of the source server,
   reconnection, the receive pool and the update process.

Not modelled, and not planned: B-tree and bitmap algorithms, compiler, run-time library,
devices, utilities and GT.CM, which are sequential code over real data (most of the
source lines) or rest on the protocols above; see `PROJECT.json` for each.

## 6. Running

    tlc -config locks.cfg MCMLock
    tlc -config commit.cfg MCCommit
    tlc -config database.cfg MCDatabase
    tlapm MLockProofs.tla
    tlapm MLockHeld.tla
    tlapm CommitProofs.tla
    tlapm JournalProofs.tla
    tlapm DatabaseProofs.tla
    tlapm CacheProofs.tla
    tlapm RecoveryProofs.tla

and likewise the lemmas of `MlkShrProofs`. Each takes from one to fifteen minutes.
