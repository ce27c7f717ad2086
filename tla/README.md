# Brainbox: models, model checking and proofs

Brainbox turns a Linux box into a shared compute and LLM appliance. This
directory holds TLA+ models of its core logic, the TLC configurations that
check them, and TLAPS proofs about them. File names below are relative to the
repository.

## 1. The system

| Part | Where | State it keeps | Operations | What makes it correct |
|---|---|---|---|---|
| Job daemon `pnd` and job store | `engine/tools/pnd`, `engine/pnlib/db.py` | SQLite rows (`jobs`, `job_events`, `meta`), in memory the process handles `PROCS` and the pause flag | submit, submit-dag, approve/deny/reject/revise, extend, cancel, kill-user, clear-queued, pause, tick, reconcile | dependencies first, no verdict `done` without record, verdicts final, gates obeyed, no second copy of a job, bounded retries, every run ends |
| Job units | `engine/pnlib/slice.py`, `cgdispatch.py` | cgroup leaf or systemd unit, rc file | dispatch, status, stop | the exit code reaches the daemon, a stop is verified where it matters |
| Scheduler | `engine/pnlib/sched.py`, `kernslots.py`, `fairshare.py`, `fleetpick.py` | none (pure), `PressureGate` a hysteresis bit | evaluate, preempt_plan, filler_fits, walltime_phase | no overcommitment, no starvation by hysteresis |
| LLM pool `pn-llmd` | `engine/tools/pn-llmd`, `engine/pnlib/admission.py`, `llmpool.py` | admission queues in memory, leases of jobs with TTL, AIMD slot count | admit, admit-poll, admit-release, lease, release, sweep | no more grants than slots, no idle slot, fairness, no leaked ticket or lease |
| LLM broker and shim of a cell | `os/pn-vmm/pn_cell_http_broker.py`, `pn_claude_shim.py` | held calls, one pre-grant per broker | hold a message until granted, adopt a pre-grant, renew, release with the outcome | every call is decided, no call without a ticket, no slot taken from a call that is served |
| Records and archive | `engine/pnlib/record.py`, `replication.py`, `hausmeister.py` | workspaces, git records, replicas, the archive database | write, replicate, dispose, move old rows away | a result is never gone, dependencies stay, the space comes back |
| Remote dispatch | `engine/pnlib/remotedispatch.py` | a proxy process per job | dispatch, drain verdict | a drained run is given back a bounded number of times |
| Sessions | `engine/pnlib/warmsession.py`, session verbs of `pnd` | long-lived job rows | attach, turn, detach, supervise | one process per session |
| Governor, accounting | `engine/pnlib/governor.py`, `acct.py` | limits, counters | control loop | limits within their range |
| Ledger | `engine/pnlib/ledger`, `engine/tools/pn-ledger` | spool file, cursor file, log in SQLite, a Merkle tree per process | record, drain, flush, close, append, sign a head | what is recorded reaches the log, in order, nothing is skipped, heads agree with the log |
| Secrets leases, job tree, capability tokens | `engine/pnlib/leases`, `jobtree`, `captok` | leases, trees, tokens | grant, renew, revoke, cascade, attenuate | revocation reaches the subtree, attenuation is monotone |
| Node agent | `os/node-agent/pn_node_agentd.py` | table of cells and CIDs in memory; run directories, cell cards and deltas on disk | start and stop a cell, recover after a restart | one machine per delta, distinct CIDs, work survives, every machine is known |
| Healer, notifications, backup, egress, overlay, cells | `engine/pnlib/...` | small stores | periodic loops | bounded repair, no duplicate delivery |
| Operating system | `os/` | PID 1, micro VMs, standby | supervise, boot | services are restarted, dependencies in order |
| Cockpit, gateway, clients, Phantom, installer | `cockpit/`, `gateway/`, `clients/`, `components/`, `installer/` | presentation, sessions, tokens | HTTP and device protocols | they only translate to requests of the engine |

How they interact: clients reach `pnd` over a Unix socket, through the gateway
or the relay. `pnd` takes one lock for every request that changes something and
for every tick, so its operations never overlap. It starts jobs in units that
outlive it, asks `pn-llmd` for LLM leases, and writes records that a sweep
replicates. Crashes of `pnd` and of the box are ordinary: systemd (or PID 1)
starts `pnd` again and `reconcile` sorts out what it finds.

The hard behaviours are therefore: a crash between two commits of one operation;
the race between a process that ends, the daemon that looks at it and the user
who kills it; answers that do not come and read like "gone"; and the interplay of
dependencies, gates, requeues and retries over a long life of a job.

## 2. Modules

| Module | What it is |
|---|---|
| `JobLifecycle` | `pnd` over the job store, one database commit per step |
| `JobPromise` | the abstract specification of a job: what users may rely on |
| `MCJobLifecycle` | workloads for TLC |
| `JobInvariant_proofs` | TLAPS: types, the lock discipline, verdicts are final |
| `JobSafety_proofs` | TLAPS: dependencies, gates, records, retries, one copy; `JobLifecycle` implements `JobPromise` |
| `AdmissionQueue` | the weighted fair queue of `pn-llmd`, one method per step |
| `AdmissionShare` | the queue with the history that the fair share is stated with |
| `MCAdmissionQueue` | an instance with two principals |
| `AdmissionQueue_proofs` | TLAPS: no idle slot, budget, order, bounded overtaking, the fair share |
| `LlmPlane` | brokers, shims and `pn-llmd` around the queue |
| `MCLlmPlane` | an instance with two cells |
| `LlmPlane_proofs` | TLAPS: the plane implements the queue; budget; tickets in use are kept |
| `LlmLease` | the LLM slots that jobs hold: `pnd`'s books against `pn-llmd`'s table |
| `MCLlmLease` | two jobs of unequal demand |
| `LlmLease_proofs` | TLAPS: retries are harmless, what runs fits, the table fits |
| `LedgerSpool` | the ledger's writer, spool, cursor file and store, for several processes |
| `MCLedgerSpool` | two processes |
| `LedgerSpool_proofs` | TLAPS: nothing skipped, order kept, a line once, heads are the log |
| `NodeCells` | start, stop and recovery of cells on a worker node |
| `MCNodeCells` | one or two cells |
| `NodeCells_proofs` | TLAPS: one machine, distinct CIDs, work is kept |
| `RecordKeep` | what becomes of a result: replication, removal of workspaces, archiving of rows |
| `MCRecordKeep` | two jobs |
| `RecordKeep_proofs` | TLAPS: results stay findable, dependencies stay |

### JobLifecycle

`pnd` holds one lock (`LK`) in `handle` and in `tick`. The model has the variable
`op` for the operation that holds it, `cur` for the job it is working on, `todo`
for the jobs it still has to visit and `verdict` for the decision of
`finalize_job` that is not committed yet. A step is one SQL commit together with
the effects on processes since the commit before. Between any two steps an exception
may end the operation (`Aborts`: the main loop and the server catch it and go on) or
`pnd` may die; both forget `op`, `cur`, `todo` and `verdict`, and the database
(`state`, `row`, `paused`) stays. `Aborts` and `PndCrash` leave the jobs' processes
alive, `BoxCrash` kills them and leaves the rc files. What follows a commit in the
same step (events, the removal of a `PROCS` entry) is not cut off from it: an entry
that stays behind is overwritten by the next start.

| Variable | Code |
|---|---|
| `order` | what the submission fixes: deps, effective approval policy, confirmation, filler, profile flags, owner |
| `state` | `jobs.state`; `"absent"` before the insert |
| `row` | `approval_kind`, `approval_state`, `attempts`, `revise_count`, `oom_retries`, `drain_requeues`, `walltime_extra_s` (in extensions), `not_before` in the future (`later`), walltime over (`late`), `record_commit`, `record_ok`, a `result` event exists (`emitted`) |
| `unit` | `PROCS` entry (`handle`), the process behind it (`own`), living processes of the job without a handle (`stray`), the rc file |
| `booted` | `reconcile` has ended |
| `paused` | `admission_paused` in `meta` and its copy in memory |
| `faults` | crashes, and operations that an exception ended, so far (bounded) |
| `blind` | history: jobs of which `pnd` lost a living process from sight, or whose start it failed to record |

The groups of actions follow the code: submission (`Submit`, `SubmitGate`,
`SubmitDag*`, `Rollback*`), approval (`resolve_approval`: `ApprovePre` ...
`Revise`; `finalize_approved`: `FinalizeApproved`), the other requests
(`Cancel*`, `Kill*`, `Clear*`, `Extend`, `ExtendByAdmin`, `Pause`), the tick (`TickStart`, `Reap*`,
`Finish*`, `Park`, `Gate*`, `Launch`, `MarkRunning`, `LaunchFails`, `Preempt*`,
`DispatchDone`), restart (`Restart`, `Boot*`) and the world (`UnitExit`, `TimeUp`,
`BackoffOver`, `Aborts`, crashes).

What is left open: whether a queued job fits the box (any tick may or may not
start it), the order of equal candidates, the exit code, whether a query of the
unit's status is answered (`StatusMayTimeOut`), whether writing the record, the
result event or the layout check fails. An extension of a run whose time is not over
yet changes nothing but its count.

### JobPromise

A job is unknown, waiting, running, held or has a verdict. It starts only when
its dependencies are done, is done only with a record, and a verdict is the end.
`JobLifecycle` implements it by the mapping `Promise` (queued, blocked and staged
are waiting).

### AdmissionQueue

Every method of the class runs under its lock, so a method is a step; the loop of
`_pump_locked` is the relation `Pump`, which every method that can free a slot or
lengthen the queue ends with. `waiting`, `granted`, `slots`, `external`
(`_external_used`), `vtime` and `lastFinish` are the fields of the same names;
`tag` holds `seq`, `start_tag` and `finish_tag` of a ticket, and the virtual time
at which it was made (`born`), which the code does not keep and only the
properties read. `age` is the time since `renewed_at`, in units; a ticket stops
ageing once it may be swept. Weights are the code's: a larger weight costs more.
`admit` of a known ticket is `AdmitAgain` (granted: no pump) or `Poll` (waiting).
`Restart` is a new process. Statistics and the list of the last 40 tickets are left
out.

`AdmissionShare` adds the history `passed`: what each principal has got while a ticket
waited. A call of weight `w` has `w` units, pairs of its number and a place in virtual
time from its start tag to its finish tag, so that a share is the cardinality of a set.

### LlmPlane

Composes the queue (`INSTANCE AdmissionQueue`) with its clients. A call of a cell's
broker goes through `Arrive`/`Adopt`, `PollCall`, `UpstreamEnds` or `Cap`, and the
`finally` of `handle` (`Finally`); a turn of the shim through `Acquire`, `PollTurn`
and `Done`. Each of their requests to `pn-llmd` is a record in `reqs` with a program
counter, because a verb takes several locks one after the other: the coupling with
the leases of jobs (`Couple`), the queue's method (`HandleAdmit`, `HandlePoll`,
`CountWaiting`, `HandleRelease`) and AIMD (`Shrink`, `Grow`, `Ignore`). `_Aimd` changes
its own budget first and the queue's after it (`SetBudget`), under its lock but not the
queue's: `Unlocked` keeps other turns away in between, and nothing else. A client may
time out and leave the request behind (`GiveUp`), be refused (`TurnedAway`) or be
cut off by a restart (`Cut`: a request that had been read leaves an empty answer,
which `_unix_rpc` turns into `{}`, not granted). The shim may lose the broker
(`LoseBroker`), a cell may end (`CellEnds`).

Abstractions. A ticket id is used for one call or turn. One poll per unit of time
stands for the many of `ADMIT_POLL_S`, and no client sits in its loop through a unit
without a poll, because polls come every 0.25 s and sockets time out after 2 s while
the time to live is 120 s (two units). The number of slots leased to jobs is any
number at every `Couple`. What the provider answers is one of the three classes that
AIMD tells apart; the failover between accounts is inside that step. `StartSlots` may
lie below `AimdMin` or above `AimdMax`, as the configured or derived slots may; `_Aimd`
starts within its range, the queue with the slots as they are. `QueueAssumption` is what the
queue asks of the constants; `Ttl` is at least one unit, because `DEFAULT_TTL_S` is 120 s
and a client polls several times a second.

### LlmLease

What `JobLifecycle` leaves out of the same handlers: before `pnd` starts a job with an
LLM weight it asks `pn-llmd` for a lease (`llm_lease`), and gives it back when the job
is over (`_drop`, `llm_release`, at a restart `_reconcile_llm_release`). `held` and
`pending` are `LLM_HELD` and `PENDING_RELEASE`, `leases` and `age` the table of
`pn-llmd`. `pnd` holds its lock through a tick, so its place is one `op`, with the job at
hand (`cur`) and the jobs left in the loop (`todo`); a step is one request with what
`pnd` does with the answer, or one commit. A job's row and its lease change in
different steps, in the order of the code: a reaped job is closed before its lease is
given back, a cancelled, preempted or orphaned one after it.

A request (`Ask`) is answered, or `pnd` gives up after a second; then `pn-llmd` may
never see it or handle it at any later time (`HandleLate`), also after `pnd` has asked
for something else. `TimePasses` needs a tick to have ended since the last unit of
time, because ticks are two seconds apart and a lease lives 120. Whether a job fits
the box, which filler is preempted and why a run ends are left open, as in
`JobLifecycle`. The pool's size is the code's, in tenths of slots.

### LedgerSpool

`LedgerWriter` writes an event to a spool file with fsync, and `_drain_locked_safe`
applies the spool to the store; a cursor file says how far. A step is one access to a
file or one commit, for every process by itself, since nothing keeps two runs of
`pn-ledger` apart. `_write_cursor` is three steps (`OpenTmp`, `WriteTmp`, `Replace`)
because its temporary file has the same name in every process: `fd` says whether a
descriptor that is held across somebody else's rename now points to the cursor file.
Such a write goes over what the file holds, from its start: `Overlay` gives the number
that then stands there ("9" over "10" reads "90"), with numbers in base `Base`, and the
history `garbled` says that it happened. `store.append` is two steps: the row is committed
(`StoreAppend`), then read again and its leaf appended (`LeafAppend`), which may fail and
be done over with a second row (`LeafFails`, history `leafless`); `seq` is the row in
hand. An insert whose commit fails and that is committed together with the next one leaves
the same rows and leaves. `tree` is the Merkle tree of a process, as the rows of its
leaves. `Kill` ends a process, `BoxCrash` all of them; it may leave an older cursor file
(the rename is not synced) and a torn line.

### NodeCells

Requests to the agent are threads, and only single accesses to the table `_CELLS` and
the set `_CID_USED` are locked: a start is the sequence `Start` (look into the table),
`Move`, `MkDir`, `Delta`, `Format`, `Cid`, `Lanes`, `Spawn`, `Register`, `Card`, a stop
`Stop`, `Signal`, `Rescue`, `RmTree`, and a start that finds a dead machine has the stop
in front (`Pop`). `Crash` loses tables, threads and the thread that would kill a
machine after its grace; machines go on. Recovery reads the cards (`AdoptCard`) and
then the processes. A machine without a card is adopted by its environment (`AdoptProc`)
if that can be read. `pn-vmm` closes it with `PR_SET_DUMPABLE` (`os/pn-vmm/src/jail.rs`),
so that the agent, which is the same user, mostly cannot: `Unreadable` leaves the machine
running and puts it into `orphaned`, and the recovery ends without it. The recovery is
taken to reach its end unless the agent dies. `vol` and `old` are the delta in its place and the
one in the run directory, where an earlier version of the agent kept it: `Init` has the
nodes such a version leaves. Lanes are their sockets' dependence on the run directory
only; the work volume, images and the orphan reaper (off by default) are left out.

The histories `raced` and `dropped` mark the cells for which the code does not do what
the properties say (section 5): two starts at once, a stop cut off by a crash between
taking the entry out and the signal, a recovery that took a dying machine in place of
its successor, an old delta that a start could not move. `twice` has the CIDs that a
recovery took for two machines: a machine that was told to stop, and whose CID another
cell has by then, may still be dying when the agent comes back and adopts it. The
attempt to prove `CidsDistinct` found this; it takes three machines. `Serving`, of which
the properties speak, leaves out machines that were told to stop or are `orphaned`. What
two machines on one delta do to its content is not modelled.

### RecordKeep

After the verdict: once a minute `maybe_gc` copies workspaces to a replica
(`replicate_sweep`) and removes those whose retention is over, or all that are
replicated when the disk is short (`gc_sweep`). The sweep holds `pnd`'s lock, so its
place is one `pc` with the jobs it still visits (`todo`) and the one at work (`cur`);
copying and marking, removing and marking are separate steps. `live` and `archive` are
the rows in the two databases, `path` and `replicated` the columns of a row,
`workspace` and `replica` what is really on the disk and with the replica. The
Hausmeister is a thread with a connection of its own: `HmProtect` reads what must stay,
`HmPick` selects, `HmMove` moves, and `pnd` works in between.

`Crash` may come anywhere, in the middle of a copy and between the commits of the two
databases as well (`torn`); `SweepFails` is an exception that `maybe_gc` catches.
Retention, the free disk and the age of a row are left open. So are the events of a
job, which go with its row, and the job's parent, which is spared like a dependency.
The git and s3 targets, what is left in the trash, and archiving events on their own
are not in it.

## 3. What is checked

| Run | Instance | Shows |
|---|---|---|
| `job_single` | 1 job, 13 workloads, 2 crashes or exceptions, unanswered queries | gates, record, holds, revision, retries, one copy, final verdicts |
| `job_dag` | 3 jobs, join or gated chain, 1 crash or exception | dependencies first, final verdicts with rollback, cascade and kill; `JobLifecycle` implements `JobPromise` |
| `job_filler` | filler and real job, 1 crash or exception | preemption never makes a second copy |
| `job_live` | chain of 2 jobs, 1 crash or exception | every run ends, endless extensions by an admin aside, every blocked job is decided |
| `admit_fair` | 4 tickets of 2 principals, weights 1 to 3, 2 classes, up to 2 slots, expiry, restarts | no idle slot, grants within the budget, bounded overtaking, the fair share |
| `plane` | a call of one cell and a shim's turn of another, 1 to 2 slots, 1 failure | tickets in use are kept, AIMD and the queue agree, every step is a step of the queue, a held call is decided, an abandoned ticket is freed |
| `lease` | two jobs (10 and 3 tenths of a pool of 10), one a filler, 2 failures, 1 crash of `pnd` | a retried release is harmless, what runs fits, leases are freed and come back |
| `ledger` | two processes, one with a thread, 2 lines, base 2, 1 overlap, 1 failure, 1 crash | nothing is skipped and lines are first applied in order until a cursor is overlaid, once if alone, leaves fit the log, what is recorded is applied |
| `node_two` | 2 cells, 2 CIDs, 3 machines, 1 request at a time, 1 failure or crash | distinct CIDs |
| `node_live` | 1 cell, 3 machines, 2 requests at a time, 1 failure or crash | types, one machine per cell, work is kept, machines that can be adopted are known to the agent |
| `records` | 2 jobs, one needs the other or one group, directory or rsync, 1 job a sweep, 1 failure, 1 crash | a result is findable, dependencies stay, the space comes back |
| `job_unapproved` | small | the first disagreement of section 5 |

Bounds. One retry, revision, memory growth, drain and extension each: enough for
the counter to be below, at and refused at its limit. `MaxFaults` bounds crashes and
exceptions together: one for several jobs, two for one job, where the second hits the
reconcile or the next tick after the first. `ExtendByAdmin` has no bound: it counts up to
`MaxExtend` only, which is all that the cap looks at. Two
dependencies and three jobs are the smallest join and the smallest cascade of
depth two. `MaxAttempts` bounds preemption, which the code does not bound.

In `admit_fair` a process makes four tickets: a backlog of one principal, a call of
another that overtakes and one that may not. `Ttl` is 0 there because nothing polls
by itself. In `plane` `Ttl` is 1, so that a client that polls every unit keeps its
ticket and one that stops loses it two units later. `MaxFailures` is the number of
failures of any kind in a behaviour. One slot makes the two tickets compete, the second
is what AIMD may add and take away (a start outside the range of AIMD is left to the proof
of `BudgetStays`); slots leased to jobs are in `admit_fair`.

In `lease` the jobs fit the pool alone and not together, so that a lost or late lease
matters; two failures are a lost answer followed by a late one or by a restart. In
`ledger` one overlap is enough for every interleaving of two writers of the cursor
file; without it the runs take turns. In base 2 the second line has a number of two
digits, so that the cursor can be overlaid ("1" over "10" leaves "10" where 1 was meant).
A cursor ahead of the spool takes base 3 and three lines ("2" over "10" leaves "20"); there
TLC reaches a cursor of 6 over 3 lines without any failure. The run keeps to the smaller
instance, with failures and crashes; `CursorIsBehind` is for any base and length.

`node_two` uses the symmetry of cells, machines and requests (no property of the run names
one). Three machines are a dying one, its
successor and a wrong third; in `node_two` the dying one, the cell that got its CID and
the cell that starts next. Requests of different cells meet in the table and the set of
CIDs only, and what two requests of one cell do to each other is in `node_live`; that
neither bound hides anything is what the proofs of section 4 add. Both node runs may stop (`CHECK_DEADLOCK
FALSE`): `Vms` bounds the starts.

In `records` a sweep copies one job, so that the second waits for a later one; the
failure and the crash can hit the same job's copy and removal, or its row on the way to
the archive.

Fairness (`FairSpec`). `pnd` goes on with the operation it has begun, and systemd
restarts it (`Restart=always` in `engine/systemd/pnd.service`): weak fairness of
`Handling \/ Tick \/ Boot`. Requests and the tick compete for the lock; the tick
thread asks for it every two seconds and requests are finite, which is strong
fairness of `TickStart`. Time passes: weak fairness of `TimeUp` and `BackoffOver`.
Processes need not end by themselves, and requests need not come.

Fairness of `LlmPlane`. The threads of `pn-llmd` run (weak fairness of `Handle` for
each ticket), the loops poll, time passes and the sweep loop runs every 30 s. `Cap`
has strong fairness: the deadline is tested every time the loop comes round, and the
loop alternates with the poll. The provider need not answer and programs need not
end.

Fairness of `LlmLease`. `pnd` goes on and is restarted, requests that reached `pn-llmd`
are handled, it sweeps every 30 s. Time passes with strong fairness: it waits for a
tick to end, and ticks end again and again. Of `LedgerSpool`: a drain goes on, the
thread wakes every `flush_interval`, a run of `pn-ledger` ends in `close`, and there is
another run some time. Of `NodeCells`: threads of requests go on, systemd restarts the
agent, a SIGKILL ends a machine. Of `RecordKeep`: a sweep comes every minute and goes
on, retention ends, and the target can be reached and a workspace be removed time and
again (strong fairness of `Push` and `Dispose`); the Hausmeister need not come.

## 4. What is proved

All theorems hold for every value of the constants within the assumptions named in
the modules, and every proof is checked to the last leaf.

**Jobs** (`JobsAssumption`, `WorkloadsAssumption`, `BoundsAssumption`: job ids are
positive numbers, workloads are orders, limits are natural numbers).

- `TypeOK /\ LockDiscipline` is inductive. `LockDiscipline` says what an operation
  in progress may rely on about the job it works on: it is the formal content of
  "one lock for requests and ticks", and everything else needs it, because most
  UPDATEs of the store carry no guard on the state they overwrite. It gives
  `TypeCorrect`, `LockHeld` and, as an action property, `VerdictsFinal`.
- `DependenciesHold`: `DependenciesFirst` is inductive only with `StagedAlone` (a
  staged job has no dependencies), since an approval queues a job without looking
  at the DAG.
- `DoneHasRecord`, `PostGateCloses`, `HeldStaysWhole`, `StagedNeedsApproval`: proved
  together with `Custody`, what a verdict that is not committed yet already
  guarantees about record, event and gate.
- `RequeuesStayBounded`: with the fact that only fillers are preempted.
- `NoSecondCopy`: from `InSight`, an invariant on handles and processes of the jobs
  that `pnd` never lost from sight and whose starts it recorded. A tick or request that
  an exception ends elsewhere leaves nothing that a later tick takes for a job to start.
- `Implements`: every step maps to one action of `JobPromise` or a stutter. Rests on
  `Foundation`: the invariants above and that only a done job carries `record_ok`.

**Admission queue** (`TicketsAssumption`, `NumbersAssumption`: finitely many tickets,
positive weights, natural bounds).

- The inductive invariant `IInv` is `TypeOK`, `Disjoint` (a ticket is in one pool),
  `WorkConserving` and `Fair`: tags of live tickets are numbered by arrival, end
  where start and weight say, never exceed their principal's last finish tag
  (`TagsFit`), and a later ticket was made at no earlier virtual time and, with the
  same owner, starts where the earlier one ends (`Chained`).
- `PumpFacts` says once what the pump does to any two pools; `PopAndPump`,
  `JustPump` and `AdmitKeeps` apply it to the methods, and `NextKeeps` adds that
  every step grants only from the head of the queue and within the budget
  (`Orderly`). From it: `TypeCorrect`, `NoIdleSlot`, `BudgetKept`, `InOrder`,
  `FairOrder`, `ClassOrder`.
- `ShareKept`, the fair share, is about a sum over all grants while a ticket waited, and
  sums would need an induction. Counted as units it needs none: `Shares` says that each
  unit that has passed a ticket lies between the virtual time at which the ticket came
  and its finish tag, and that two units of one principal never have the same place
  (`Numbered`, `Arrivals`: a principal's calls are chained, so what is granted next
  starts after what was granted before). `FewUnits` then maps the units one to one into
  an interval and takes its cardinality.

**Ledger** (`LedgerAssumption`: writers with a thread are processes, `Base` is at least
two, bounds are natural numbers).

- `IInv` is `TypeOK`, `UpIsStarted`, `InOrder` and strengthenings of the other properties.
  `Reached` is `NothingSkipped` for every process, also one that is not there, until a
  cursor is overlaid; `Garbled` and `Named` say when that can be (`OverlayShort`: never
  over an empty file or a single digit); `PositionsStep` says that a step which appends no row takes its positions from
  earlier ones, zero or below the cursor, and `AppliedStays` that the store only grows.
  `InOrder` is inductive only with it: the row that is appended follows lines that are
  all in the store.
- `Leaves` is what `HeadsAgree` says of leaves, with the row in hand: it comes after the
  leaves and is a row of the line that is counted next, although others append rows
  between the commit and the leaf. `Alone` adds that without overlap at most one process
  has the ledger open, writes into the file that it has emptied, and lacks only the row in
  hand; otherwise the row of one process would not be in the tree of another.
- `Paid` counts: without crashes and overlaps there are no more rows than the cursor file
  and the failures account for, and one more between a commit and the cursor file
  (`Busy`, `Owes`). `OnceIfAlone`, a bound on a length, is not inductive without it: the
  next drain starts from the file.
- From it: `TypeCorrect`, `CursorIsBehind`, `OrderKept`, `HeadIsLog`, `OnceOrPaid`.

**Records** (`KeepAssumption`: finitely many positive ids, dependencies among them, a
directory or rsync, natural bounds).

- The inductive invariant is `Kept`: `TypeOK`, `DependencyStays`, `Rows` (a workspace has
  a row), `Copies` (what is marked replicated is whole, and a job that is done has its
  workspace until then), `Phases` (what each phase of a sweep may rely on about the jobs
  it visits) and `InHand` (the Hausmeister's batch is outside the sweep's reach and
  nobody's dependency). `TypeOK` alone is not inductive: that a visited job has a row
  holds because the sweep visits only rows with a workspace and the Hausmeister moves
  only rows without.
- From it: `TypeCorrect`, `ResultKept`, `NeedsStay`.

**LLM plane** (`PlaneAssumption`, `QueueAssumption`: finitely many tickets, some of them
turns, owned by principals, natural bounds, `AimdMin` within `1..AimdMax`, `Ttl` positive; nothing relates
`StartSlots` to AIMD's range).

- `P == INSTANCE AdmissionQueue_proofs` makes the theorems of the queue facts about the
  plane. The inductive invariant `Sound` is `TypeOK`, `FromTurns` (a
  shim asks for turns only, so that what is granted to it may become a pre-grant) and the queue's own `P!IInv`: that a
  step of the plane is a step of the queue (`ImplementsQueue`, the refinement) uses that
  requests carry arguments within the queue's ranges, and then `P!NextKeeps` gives
  `P!IInv` back. `TypeCorrect` and `QueueKeepsItsWord` (`WorkConserving` and `GrantsFit`
  of the queue, behind brokers, timeouts and AIMD) follow.
- `BudgetStays`: between a decision and its telling the two differ. Only the telling
  (`SetBudget`) or a restart may end that: `LockStays` says of every other step that a
  request which holds the lock of `_Aimd` holds it after the step, whether its client has
  given up or not.
- `TicketsStay`: `TicketKept` needs two more. `Protocol` says what a request tells about
  the client that sent it (`OneRequest`, `Requests`) and that a turn's ticket is taken by
  at most one message, when its shim has settled (`TurnsSettle`): a release can then only
  be under way for a ticket whose user is finished. `Kept` adds ages: a client in its loop
  has a live ticket at most one unit old, and not older than 0 once it has polled in this
  unit; a ticket that is forwarded, about to be adopted or pre-granted is granted unless it
  was swept. `Gentle` says once for all methods of the queue that they leave other
  tickets their places or better ones.

**Leases of jobs** (`LeaseAssumption`: finitely many jobs with positive demands, a pool
of any size, natural bounds).

- `Retry` is `TypeOK`, `RetryIsHarmless` and `Order`, what the loop that `pnd` is in may
  rely on (a tick reaps what runs, drains what is owed, starts what is queued and not
  owed). It is inductive and gives `TypeCorrect` and `RetryIsAlwaysHarmless`.
- `RunningAlwaysFits`: `RunningFits` is far from inductive, because a lease lapses after
  120 s while its job runs on. `Room` says that what runs and what the table has promised
  fit together (`Used(leases \cup Running)`), that nothing is handled late, and
  (`Renewed`) that a tick asks for no new lease before it has renewed those of all jobs
  that run. It holds as long as `faults = 0`.
- `TableAlwaysFits`: with any failures the table promises no more than the pool has.

**Cells of a node** (`NodeAssumption`: CIDs are positive numbers, and the markers for "no
machine", "gone" and "no cell" are neither machines nor cells).

- `Inv` has one part for each thing that stands in for the lock that is not there:
  `Places` (what a request finds at its place in the code, and that none is left when the
  agent is down), `OneStart` (a start of a cell that never met another finds the entry and
  the card empty after the stop in front of it), `Known` (the machine that serves has the
  entry or the request that is about to make it), `Held` (a CID that is in use by an entry
  or a start is marked used and has no other holder, `twice` aside), `OneDelta` (the delta is in its
  place or in the run directory, not in both) and `Apart` (while the agent recovers,
  machines are as the crash left them). Machines that are `orphaned` are outside of all of
  them: nothing in the code relies on what it does not know of.
- From it: `TypeCorrect`, `OneMachineAlways`, `CidsStayDistinct`, `WorkIsKept`. The first
  attempt at `Held` failed for the reason given with `twice` in section 2.

**Only model-checked.** Liveness: `EveryRunEnds`, `BlockedIsDecided`, `HeldIsDecided`,
`TicketsAreFreed`, `LeasesAreFreed`, `LeasesComeBack`, `RecordedIsApplied`,
`MachinesAreKnown`, `SpaceComesBack`. They need fairness, and with it `ENABLED`, which the
prover does not handle. Every other property of a passing run is a theorem.

## 5. Where code and documentation disagree

`NothingFiresUnapproved` (run `job_unapproved`): a job with dependencies loses the gate
`pre` (and `needs_confirmation`) at submission and runs unapproved.

The properties carry exceptions where the code does not keep what one would expect of
it. Each came up as a counterexample of a stronger form of the property:

- a crash between the commit of an approval and the verdict leaves the job in
  `awaiting_approval`/`approved` for ever; approving again is an idempotent no-op;
- a crash in the middle of submit-dag leaves a part of the DAG, which runs;
- after a restart of `pn-llmd` the shim polls an unknown ticket without a deadline (the
  broker's own calls end with a deadline: `HeldIsDecided`);
- a pre-grant can be adopted for 600 s, its ticket lives 120 s without renewal, and the
  answer to the poll at the adoption is not looked at: the call is forwarded without a
  ticket;
- a crash of `pnd` between starting a process and marking the row, or an exception of
  `mark_running` there that the main loop catches, leaves a living process of a queued
  job, and the next tick starts a second copy (`OneCopy`, `blind`);
- callers with `view:all` have no cap on extensions: a run they go on extending need not
  end (`EveryRunEnds`);
- slots outside the range of AIMD (the default for `PN_LLM_POOL=8` is 26, `AIMD_MAX` 24)
  are the queue's budget until AIMD first decides (`BudgetIsSlots`);
- two processes with the ledger open have Merkle trees that miss each other's rows, and
  their heads are not prefixes of the log (the last part of `HeadsAgree` needs
  `overlaps = 0`);
- an exception between the commit of a row and its leaf is retried: a second row of the
  same line, and one without a leaf until the store is opened again (`leafless`);
- two processes may overlay the digits of a cursor, which then is ahead of the store, and
  lines are skipped for ever (`NothingSkipped`, `InOrder`, `RecordedIsApplied`, `garbled`);
- a torn line makes the spool unreadable, and a cursor file that cannot be written ends
  the background thread without notice (`RecordedIsApplied`);
- a machine whose start was cut off before its card is adopted only if its environment can
  be read, which `pn-vmm` prevents: else it is in no table, its CID is given to another cell
  and a start of its cell boots a second machine on its delta (`OneMachine`,
  `CidsDistinct`, `MachinesAreKnown`, `orphaned`);
- two starts of a cell at the same time boot two machines on one delta (`OneMachine`);
- the agent logs that an old delta it could not move "bleibt liegen" (stays where it
  is), and removes it with the run directory in the next statement (`WorkKept`);
- a job submitted while the Hausmeister has already looked for dependencies may lose one
  to the archive, and is then cancelled (`DependencyStays`, `raced`);
- a crash in the Hausmeister's commit may lose rows, because two attached databases
  commit one after the other when there is a write-ahead log (`ResultFound`, `torn`);
- workspaces of jobs that failed or were cancelled are never removed
  (`SpaceComesBack` speaks of done jobs);
- the recovery takes one machine per run directory, and may take a dying one in place
  of its successor, which is then in no table (`OneMachine`, `MachinesAreKnown`);
- the recovery takes the CID of a dying machine that was already given to another cell;
  the stop of either frees it under the other (`CidsDistinct`, `twice`).

## 6. Not modelled, and the plan

Left out on purpose: graphics, user interfaces, installers, cryptography, the micro
VM monitor, shell scripts around external tools. They keep no state whose protocol a
model could check. In the parts that are modelled: sessions and resource arithmetic
of `pnd`, signing and verification of ledger heads, the exec and action queues of `pn-llmd` (other instances of the same
queue), request filtering and accounts of the broker.

Next, in this order:

1. `Sched`: the pure functions of `sched.py` and `kernslots.py` against reference
   definitions, and the hysteresis of `PressureGate`.
2. `SessionSupervise`: sessions of `pnd` and the warm sessions.
3. `Leases` (secret leases and the cascade over the job tree), `Captok`
   (attenuation is monotone).
4. The lanes of a cell and their shims in `NodeCells`; `Healer`, `Celld`,
   `Supervision` (PID 1: restart with backoff), notifications.

Proofs to come are those of the modules to come, monotonicity of `Captok` first.
