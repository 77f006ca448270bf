# gpu-pnr-chia in TLA+

The repository searches flow configurations for place-and-route: an LLM, TPE or random *arm* proposes a config, an
evaluator runs DREAMPlace and OpenROAD on it for minutes to hours, a SQLite file remembers the results, and the best
config is re-run on held-out seeds. Threads, subprocesses, containers and restarted drivers share that database, the
key-named work directories, the run slots of the machine and one LLM budget. This directory holds TLA+ models of these
parts, TLC configurations that check them on small instances, and TLAPS proofs for every instance.

Paths below are relative to the repository's root.

## 1. Inventory

| Part | State it keeps | Operations | Talks to |
|---|---|---|---|
| Experiment driver v2 (`pnr_node/experiment.py` 237-581, `scripts/arms/run_arms.py`) | arm-runs, incumbent rows | default arm first, then one thread per arm-run; held-out validation | search loop, evaluator, database |
| Search loop v2 (`pnr_node/search.py` 502-626) | round number, budget counter, batch | propose, evaluate, record, promote, resume | cached evaluator, proposer, database |
| Cached evaluator, results database (`pnr_node/db.py`) | `evals` rows, uncommitted tail | look up, insert, commit | search loop, arm evaluator |
| Arm evaluator (`pnr_node/arm_eval.py`) | in-flight table of futures, semaphore, log files | own a run, join a run, time out, read the log | `run_arm.sh` processes and their containers |
| Run scripts (`scripts/gap/slot.sh`, `run_arm.sh`, `run_stock.sh`, `queue.sh`) | tickets, slot locks | wait in line, take a slot, run a container, append `exit=` | all drivers of the machine |
| LLM layer (`pnr_node/llm.py`) | running cost, retries | check the cap, post, retry, add | all LLM arm-runs, an HTTP service |
| DEF handoff (`pnr_node/raw_handoff.py`, `dreamplace_runner.py`) | shared base run, placement cache, run directories | prepare, place, import, route, reuse a grt run | ORFS, DREAMPlace, other containers on the same disk |
| Final round (`experiment.py` 381-500, `scripts/arms/final_round.py`) | finalists, routed rows | pool, select, validate | evaluator, database |
| v1 search and experiment (`search.py` 80-380, `experiment.py` 1-236, `study.py`, `random_controls_run.py`) | rows per arm-run, the written report | screen and route a batch, validate, repair | evaluator, database |
| Late recovery and import (`scripts/arms/revalidate.py`, `import_runs.py`) | none | record what logs gained late, validate again | database, arm evaluator |
| Batch evaluator (`pnr_node/batch.py`) | the batch's placements | placements one by one, routes in parallel | handoff evaluator |
| Chia dispatch (`pnr_node/node.py`) | VM of each grt run | fan out, pin to a VM, survive lost workers | Chia workers |
| LibreLane handshake (`pnr_node/librelane_handoff.py`, `flows/librelane_sky130/ll_placer_flow.py`) | request and done files | two processes wait for each other | LibreLane, DREAMPlace |
| Contract (`pnr_node/contract.py`) | none | clamp, snap, fill in defaults, key of a request | everything |
| Net weights (`pnr_node/netwt.py`) | weights and criticalities of the last round | update, write | handoff evaluator |
| Diagnosis (`pnr_node/diag.py`, `diag_proposer.py`) | hypotheses so far | parse timing reports, ask a model, fill up at random | search loop |
| Evidence, manifest, report; scripts for figures; results, paper, docker, packer | files | write | nobody |

What is hard here: arm-runs interleave in one driver; a timeout kills a script but not its container; a killed driver
leaves processes and half-recorded batches and is started again on the same database; budgets are truncated in the
middle of a config's seeds; the cost check and the cost addition are separate; tickets and locks outlive the scripts
that made them; the base run of the handoff is tested without its lock; stages of one placement share a directory that is
written in place; workers and machines of a cluster are lost; two processes wait for each other's files and for a pipe; a repair
deletes rows before it makes new ones. PROJECT.json lists each of these hazards with
its line and the properties that cover it.

What makes each part correct:

* arm evaluator: one run of an identity at a time, everyone who asked gets its outcome, no permit is lost, no call hangs;
* database and cache: rows belong to their key, all replays of an identity agree, an arm-run never repeats its success;
* search loop: never over budget, never the number of a round that has rows, never the same measurement twice, only
  earned promotions, always ends;
* LLM budget: one meter never passes the cap by more than one call of each arm-run, a reached cap is final, and what is charged without
  the meter being told is no more than the attempts cost;
* slots: never more containers than slots, first come first served, nobody waits for ever;
* handoff: who got the base through the lock finds it finished, one process builds, every prepare returns; a good answer comes
  from whole files, a grt run that was paid for is not repeated, options that change the result change its identity, and
  no accepted option is ignored;
* dispatch: one process in a key-named directory, every batch comes back although workers are lost;
* LibreLane: an evaluation is answered by its own container, and no side waits for ever but for a full pipe;
* experiments: no recorded success is lost, a repaired report tells what an undisturbed run would, an ablation stays blind, the
  incumbent stands still under a search, late validation pays only for what is missing;
* proposers: whatever a model answers, the loop evaluates new configs that are all different;
* final round: the pick is what the recorded rows select, whatever was interrupted; it is complete and beats the default.

## 2. Modules

| Module | Models | Lines of |
|---|---|---|
| `EvalCache` | arm-runs calling `CachedEvaluator.evaluate_many` over `ArmRunEvaluator`, scripts, containers, logs, rows | `arm_eval.py`, `db.py`, `run_arm.sh`, the driver's restart |
| `SingleFlight` | what a shared evaluator promises: at most one flight per identity, decided once, seen by all who asked | abstraction of `arm_eval.py` 127-152 |
| `EvalCacheProofs`, `EvalCacheRows` | the invariant of the first and that it implements the second; where its rows' results come from | |
| `SearchV2`, `SearchV2Proofs` | one v2 arm-run over its database rows, with kills and resumes | `search.py`, `db.py` |
| `Proposers` | what each proposer may answer, and the batch `run_search_v2` makes of it | `search.py`, `diag_proposer.py` |
| `LlmBudget`, `LlmBudgetProofs` | LLM arm-runs on one `CostMeter` | `llm.py`, `search.py` |
| `SlotQueue`, `SlotQueueProofs` | scripts that source `slot.sh`, their tickets, locks and children | `slot.sh`, `run_arm.sh`, `run_stock.sh` |
| `BasePrepare`, `BasePrepareProofs` | processes that prepare, place from and copy one base run | `raw_handoff.py` 172-181, 530-565 and the reads in `_place`, `route_from_def` |
| `FinalRound` | the final round on the rows a search left, with kills and restarts | `experiment.py` 287-322, 381-500, `db.py` 57-67, 108-115, 161-167 |
| `Handoff` | one evaluation on the files it shares with others: placement cache, rounds, import, grt run | `raw_handoff.py`, `dreamplace_runner.py` |
| `Dispatch` | batches that reach evaluators of `Handoff` through a cluster or `BatchEvaluator` | `node.py`, `batch.py` |
| `LibreLane` | the host's evaluate and its container | `librelane_handoff.py`, `ll_placer_flow.py` |
| `FlowOptions` | options, fingerprint, flow configs, keys and the command line, as operators | `raw_handoff.py`, `contract.py`, `arm_eval.py` |
| `Node`, `NodeProofs` | the composition of these four: the evaluator of a `cfg["backend"]` | `node.py` 53-90 |
| `SearchV1` | v1 arm-runs side by side on one database | `search.py`, `experiment.py` 41-61 |
| `ExperimentV1` | `run_experiment`, validation, report, repair | `experiment.py` 64-236 |
| `ExperimentV2` | `run_arms.py`, its default arm and validation; late recovery, import | `experiment.py` 237-322, `revalidate.py`, `import_runs.py` |
| `Driver`, `DriverProofs` | the composition of `FinalRound`, `ExperimentV1` and `ExperimentV2`: the scripts; the invariants of all three | the scripts' mains |
| `MC*` | model values and small batches, seeds and symmetries for TLC | |

They meet where the code does: `EvalCache` contains the callers of `evaluate_many` (the batches `SearchV2` makes are
any sequences of keys there) and the `run_arm.sh` processes (`SlotQueue` opens their wait for a slot, which in
`EvalCache` is the state "slot" of a process). `LlmBudget` opens the proposer's call that `SearchV2` leaves as a choice of
configs, an LLM error or the end by the LLM budget, and `Proposers` shows that this choice covers what the proposers do.
`Handoff` starts where `BasePrepare` ends. `ExperimentV2` runs arm-runs whose inside is `SearchV2`, and leaves the rows from which
`FinalRound` starts.

### EvalCache

`rows`/`committed` are the `evals` table and its committed prefix (`record_eval` inserts and commits under two
acquisitions of the lock); `inflight` and `permits` are `_Shared`; a run is the number of the `Future` created for it
(`whose`, `proc`, `fut`); `logs` are the result lines in the file of a label. An arm-run's `pc` goes
idle - lookup - exec - record - commit; a request's `task` goes waiting, or sem - run - read - pop, and done. One action per step
another thread can see: look up a position, own or join, take a permit and launch, script starts its container, container ends, log is
written, timeout, read the log, resolve, pop, collect, insert, commit, and the kill of the driver, which leaves
processes and logs as they are. `CancelQueued` is the pool's reaction to the first exception of `Executor.map`.
A log line is a result and the run that printed it: what a reader gets from a stale or shared log is visible.

### SearchV2

A start of the arm-run rebuilds `rnd` and `used` from the rows. `Round` proposes any sequence of new configs up to the batch width
(whatever the proposer or its fallback does, `run_search_v2` filters what was measured), truncates the requests to the
budget left, `Evaluate` gets scores or failures (rows that exist are replayed), `Record` writes one row at a time, and
`Promote` picks the configs to re-evaluate by mean score over this round. `Die` is a kill at any of these points and an
exception of the evaluator; `DeadlinePasses` sets the flag the loop tests.

### Proposers

Operators on the state of `SearchV2`: the answers of a random generator and of TPE (any configs), of a model with repeated,
known and unusable items (`parse`), what `LLMProposer` and `DiagProposer` take from it and how they fill up, the diagnosis
proposer's last two tries included, which take anything (`Filled`). `Deduplicated` is the loop's own replacement of configs that
are not new. `ProposersConform` says that this is a refinement of `Proposals` for batches of one to three, in every history the run reaches.

### LlmBudget

`spent` is the meter of the running process; an arm-run goes top - check - post - wait - add - eval. The check, each attempt of the
request and the addition are separate steps of a thread. The provider charges for what it generates: `Attempt` adds its price (`0..MaxCost`) to
`billed` when the request is out, whatever comes back. `Answer` is a body that is read; `Retry` and `CallFails` are an attempt that ended in
a time-out, an unparsable body or an error (`llm.py:371-383`), which may have been charged: its price goes to `unseen`, the part of the bill that no meter
was told of. `Add` tells the meter what the `usageMetadata` of the answer says, which may be less than the price or nothing (`llm.py:403-408`); the rest is unseen too.
`AddAndProposeAgain` is the `TypeError` path of `run_search_v2`: an answer whose parts cannot be read has been paid for, and `propose` is called a second
time. `Restart` starts a process with a fresh meter; the calls in the air are lost with the old one, and stay billed.

### SlotQueue

A script goes stamped (its ticket is named) - list (ticket dropped) - scan - disk or sleep - try - drop - run - wait. The lock of a
slot is held by the script from the moment it has it until the script and the docker client that inherited fd 9 are both gone.
`Kill` ends a script and leaves its ticket, its lock and its child; a reused pid makes a dead script's ticket look alive.
Tickets are ordered by a clock that never gives a time twice; the nanoseconds of `date` on one machine are taken for that.

### BasePrepare

`odb` and `marker` are the two files `ready()` looks for (none, torn while a step writes them, whole), `late` says that there are
outputs of 3_3 and later. A process goes look - wait - relook - build (odb, dump, stage, clean) - place - copy; `how` keeps which of the
two tests let it in, `fine` whether all it read was finished when it read it. A make fails or a process is killed anywhere; the files
stay, the lock goes. `hurt` is set when that happens while a file is being written: nothing in the code repairs such a base
(`make` does not rebuild a file that is there), so what the module promises of the content it promises for the other histories.

### FinalRound

`search` and `args` are what the searches left and the script's arguments; `Finalists` is `pool_candidates`, `Selection` the end of
`route_select_v2`. The requests of a phase are in threads at once (`_eval_recording`): `Finish` answers one of them in any order, by a
replay or a run, and records it. `known` keeps of the rows of an identity what `lookup` finds, its first success. Validation asks for the
default twice when it is the pick, and the second of two requests in the air does not see the row of the first (`TwinRan`). `Die` is a
kill or an exception of an evaluation; `Start` is a further start of the script, also after a complete one. Means over the same seeds
are compared as sums, `min_gain` is scaled alike. `settled` is not in the code: it remembers the pick of a start whose selection had no failed evaluation.

### Handoff, Dispatch

`place` is the dp-<hash> directory of an identity on a machine: the DEF, `dp_result.json`, the saved session of a repair and who works in
its ORFS directory; `grt` is `5_1_grt.odb` of its grt run. Each is missing, written in part, or whole. A task goes look - gp (repair) - def - save -
import - route - make (write) - done: the order in which `_place`, `run_dreamplace`, `check_placement` and `route_from_def` touch the files.
`Raise` is a tool that fails, a timeout or a kill between any two of these, and leaves the files. What becomes of an identity (`nature`) is
fixed, because runs are deterministic. `whole`, `again`, `crossed`, `mixed` and `screened` are history: what was read in part, which route follows a
good grt run, who met in a directory. A route is `again` while the identity stays `screened`: its last good grt run was answered and none has been asked for since.

`Ask` is a call of `evaluate_many`; two calls may overlap. `kind` is how the evaluator dispatches: single tasks, with affinity of a route to the machine of
its grt run (`held`), split in `place_remote` and `route_remote` (`RouteStarts`), without a cluster, or as `BatchEvaluator`. A batch is sent as its distinct requests in order (`Distinct`). In
split mode each identity has a slot (`PinnedSlots`) or, on a cluster without `vm_*` resources, none (`SplitSlots`); the evaluator that `random_controls_run.py`
makes for itself has slots or exits. `LoseSight` makes `get` raise while the process goes on; `LoseMachine` takes a machine with its files, and what works there fails.

In split mode `get` waits for `route_remote`, also for the result of a proxy or of a failed placement, which it only hands on (`node.py:149-151`, `294-303`). It is a task of
its own, pinned like `place_remote`: `passed` are the requests whose `route_remote` has found a machine (`RouteStarts`), and a result is `Seen` only then. When
the machine of its slot leaves in between, the second half is never scheduled and the batch hangs; `Stranded` names these batches, and `BatchReturns` says that no others wait.

Ray can also retry a task whose worker or node died (`max_retries`, which `node.py` leaves to its default). That is not modelled: a task ends with its process or machine, and
`get` raises. A retry would start an evaluation again in the directory the first one left, as a later call of `evaluate_many` does, and a retried task that is
pinned to a machine that has left would wait like a queued one.

### LibreLane

`host` and the containers `flow` are processes; `req`, `done`, `fin` the three files, each torn while it is written, with the container that wrote it.
A container that waits keeps waiting when its host is killed or raises, and meets the files of the next evaluation. Its output goes into a pipe that
the host reads only after its own part (`Stopped`).

### FlowOptions

No state. `Accepts` is what `__init__` raises on, `Procedure` what `_place` and the import do under accepted options, `Fingerprint` what the
`tool_id` keeps of them. `Request`, `Key`, `apply_flow` and `Evaluator` are the contract's and the evaluator's view of a flow config: three of its
numeric knobs and the overflow list that snaps to a choice (`Snap`) stand for all nine. `command` and `from_args` are the way of a request from the
driver into its container.

### SearchV1, ExperimentV1

`rows` keeps, for an arm-run, the rows of its search, of its validation and of its "_cache|" name, in order. Arm-runs interleave by batches and by rows.
A result is a function of its identity (`Hpwl`, `GrtWl`, `RoutedWl`) but for failures of the infrastructure. `History` and `Shown` are what a proposer
reads; `Propose`, `ScreenByGrt`, `Route` one round. `RunExperiment`, `MapEnds` or `MapRaises`, `Validate`, `Write` are a start of the script;
`Repair` copies the successes and `Purge` deletes, with a commit in between, and a kill at any point. `lost` remembers who was purged and not
reported since.

### ExperimentV2

`lottery` is the default arm's rows; `Incumbent` reads the first one of each seed. `found2` is how the searching arm-runs end. A validation's identity
carries the tool: `revalidate.py` builds its evaluator without the ORFS variables of `run_arms.py` (`orfs`). `TimeOut2` leaves a container whose
log may gain a result later (`LateEnds`), and `Revalidate` records what `recover_late` finds before it validates. `run_arms.py` and `revalidate.py` run one after the
other here: a rerun of an identity that is under way while its log is recovered is not modelled, and `RevalidateReplays` says nothing of it. `ran` and `before` are history.
`compared` is what `compare_v2` reads when a start ends: `Pairs`, the held-out seeds on which both the arm-run's config and the default have a score, also when
a validation left some out. The means and errors over these pairs are not modelled.

## 3. Runs

| Run | Instance | Shows |
|---|---|---|
| `EvalCacheBatches` | 2 arm-runs, 2 keys, pools and permits of 2, batches of two or of one key twice, one call each | rows carry their own key's results, one process per key |
| `EvalCacheFaults` | 3 calls of one key each, one permit, one timeout, one kill | the inductive invariant (one owner, exact permits, no orphaned waiter), replays agree, no repeated success, and the refinement of `SingleFlight` |
| `EvalCacheLive` | 2 calls, one permit, one timeout | every call returns |
| `EvalCacheReplayClaim` | 1 key, 2 calls | violation: an identity is measured twice (finding) |
| `EvalCacheTimeoutClaim` | 1 key, 2 calls, one timeout | violation: two containers in one directory (finding) |
| `SearchV2` | 4 configs, 2 search and 2 promotion seeds, budget 5, batch 2, 2 starts; answers of up to 3 items | budget, promotions, no second measurement, termination across a kill and truncated batches; the proposers are what the loop's model allows |
| `LlmBudget` | 2 arm-runs, cap 2, prices 0..2, 2 tries, 2 rounds, 1 restart | the cap up to the calls in the air, its finality, the bill of all starts with what the meters do not see, termination |
| `SlotQueue` | 3 scripts, 1 slot, 1 kill, 1 reused pid | container cap, first come first served, whoever waits is served or killed |
| `BasePrepare` | 3 processes, new or pruned work root, any number of kills and failing makes | who came through the lock reads finished files, every prepare returns |
| `BasePrepareClaim` | the same | violation: who was let in without the lock reads an unfinished base (finding) |
| `Node` | 1 placement, 2 machines, 2 tasks, 2 overlapping calls with the stages of one identity, 1 loss, every dispatch and kind of flow; LibreLane with 2 evaluations and 2 kills; all option combinations | the eight properties of handoff, dispatch, handshake and options |
| `Driver` | v1: 1 or 2 arm-runs of four kinds, 2 rounds of 2, 1 failure, up to 3 starts; v2: 1 searching arm, 2 seeds, 3 starts, 2 failures; final round: 4 configs, 2 arm-runs, 2 starts | repair, blindness, incumbent, late validation, the pick |

Why these bounds: every hazard needs two actors that collide, and a third event that disturbs them. Two arm-runs and
two keys give joined runs, cross-waiting and repeated keys in a batch; the third call of `EvalCacheFaults` meets what a
timeout or a kill left behind. The budget of `SearchV2` is no multiple of its seeds, so a round and a promotion are cut in the middle of a config.
Three items of a model's answer are enough for a known, a repeated and an unusable one; three configs asked for are enough for the diagnosis proposer
to give up and answer short.
A cap of two with prices up to two lets both arm-runs pass the check with the meter one below the cap; two tries are the fewest with an attempt that is
charged and tried again. Three scripts on one slot
have one waiting behind another waiter, behind a live holder and behind a container that a killed script left. A third process of `BasePrepare` waits for the
lock, or walks past it, while one builds and one reads. In `Node` two tasks of one placement, on one machine or on two, are the smallest case of every
collision in its directories; two rounds of placing distinguish the last one, whose output is kept, from those before; a pipe of one message fills. A second
LibreLane evaluation meets what the first one's container leaves. In `Driver` the wirelength, the estimate and the routed result rank the configs
differently and one config never converges; a repair needs a start that fails, a repair that is killed, and one that is not. The searches of
`FinalRound` have a config found by two arm-runs, one that failed for one of them, one with too few seeds, equals at the cut-off and
the default among the best; a second start replays part of the first one's selection. TLC's instances say nothing beyond
these sizes; the proofs do.

What a run leaves to another place: `EvalCacheBatches` has no timeouts and no kills, so that rows are of their key also after these is shown by the theorem
`RowsAreOfTheirKey`, and what an orphaned process does by `EvalCacheFaults`. `OneRunPerDirectory` is about calls without a common request and without a lost worker; what a
lost worker does to the files and to the batch is in `WholeResults` and `BatchReturns`.

Bounds in guards: `MaxCalls` (`EvalCache`, `Dispatch`), `MaxTimeouts`, `MaxCrashes` (`EvalCache`), `MaxStarts` (`SearchV2`, `FinalRound`), `MaxKills`
(`LlmBudget`, `SlotQueue`), `MaxReuses` (`SlotQueue`), `MaxLosses` (`Dispatch`), `MaxEvals`, `MaxFaults` (`LibreLane`; `MaxFaults` also in `SearchV1`), `Lineups` with
its starts (`ExperimentV1`), `MaxPasses`, `MaxFaults2` (`ExperimentV2`); `MaxItems` and `MaxAsked` bound the answers of `Proposers`.
`Cap`, `Budget`, `Rounds`, `Tries`, `Workers` and `Slots` are the code's own limits.
`BasePrepare` needs no bound. Symmetry is used in safety runs only. `Node` switches the deadlock check off: a batch pinned to a machine that has left, and a
LibreLane host with a full pipe, do stop; `BatchReturns` and `HostReturns` say that nothing else does. The type invariants of `Handoff`, `Dispatch` and
`LibreLane` (`NodeTypeOK`) are there to read the state by; the run lists only what is about the code.

Fairness:

* `EvalCache`: weak fairness of each thread and caller and of the processes (the operating system schedules them; a
  waiting script gets a slot, see `SlotQueue`; a container ends). Timeouts, kills and further calls are never forced;
* `SearchV2`: weak fairness of the loop's step and of the first start after a kill;
* `Driver`: none, it has safety properties only;
* `Node`: none. `BatchReturns` and `HostReturns` are stated on the states in which no process can go on (`~ENABLED Progress`): every tool has a
  timeout and every poll is finite, so runs reach such a state unless a call has returned;
* `LlmBudget`: weak fairness of each arm-run; each HTTP attempt has a timeout of its own;
* `SlotQueue`: weak fairness of scripts, containers and of the end of a process that took over a pid; strong fairness of
  finding room on the disk, without which `slot.sh` waits by design;
* `BasePrepare`: weak fairness of each process's step (makes end: they have a timeout of four hours), strong fairness of taking the
  lock: the kernel serves the waiters of an flock in turn, so that a lock that is free again and again is not always somebody else's.

## 4. Findings

* `pnr_node/db.py:150` says that a measured identity is replayed instead of re-run. The look-up of a batch comes before its
  dispatch and the in-flight entry goes before the row is there; two arm-runs can measure one identity
  (`EvalCacheReplayClaim`). What does hold: an arm-run never repeats its own success, and all replays agree.
* `pnr_node/arm_eval.py:8-9` says that requests of one identity never run at the same time in the key-named directory. A timeout
  kills the script only; the container goes on beside the one of the next request (`EvalCacheTimeoutClaim`). Without timeouts and kills the claim holds
  (`OneProcessPerKey` in `EvalCacheBatches`).
* `pnr_node/raw_handoff.py:531` calls `prepare` "safe under concurrency". Its first `ready()` (line 541) is tested without the lock, and
  both files are there before the builder is done: pre_gp.def from the start of the dump (line 129), the 3_2 odb of a pruned base from
  the start of its rebuild (its pre_gp.def was kept), the 3_3 outputs until the cleanup (lines 561-564). The caller places from a torn
  pre_gp.def or copies 3_3 outputs (`BasePrepareClaim`). Through the lock it could not (`LockedReadsFinished`, proved).

Worth knowing, without a run: `contract.py:187` gives an empty and an all-default flow config one key although a plain evaluator and the
final flow place them differently; no driver sends an empty one (`KeysSeparate` asks that the evaluator admits both). `_setup_locked` (`raw_handoff.py:505`) takes any
directory `scripts_orig` for a finished copy. v1's `run_search` catches no LLM error: one ends the experiment unvalidated (`ProposeRaises`, `MapRaises`).
Also: a builder killed after the dump began leaves a base that passes `ready()` for ever
(`raw_handoff.py:541,558`). `llm.py:257` calls the cap hard; it is exceeded by at most one call of each arm-run
(`OvershootBounded`), and each start of the driver has a meter of its own. What a
provider charges for attempts that time out, whose body is not JSON or whose answer has no usage figures is on no meter, so the cap does not limit it: only the number of
attempts does (`BilledBounded`). `slot.sh:2` says the slot is held until the calling
script exits; it is held until its docker client is gone too, which is what keeps the cap of containers when a script is killed.

`RepairHeals` takes a result for a function of its identity (and `Handoff` the `nature` of one), as `db.py:109` does ("identical identities are bit-identical"). `contract.py:205-209` is
more careful: that is verified on gcd only, and on tinyRocket a split and a non-split run of one identity differed slightly. Where results are not
reproducible, a repaired report need not tell what an undisturbed run would.

Seven properties hold under a condition that the code does not enforce; what happens without it:

* `search.py:128` says that the proxy-only ablation learns nothing from routing, not even through the ordering. Its list is sorted by wirelength, but
  the sort is stable and the history starts with what was routed: when two candidates tie, or one was proposed twice, the routed one is shown first
  (`BlindToRoutes` asks for `NoTies`).
* `experiment.py:167-168`: a repair that is killed after its purge has removed the rows that tell who failed. The next repair finds nothing to do and
  returns the previous report (`RepairHeals` leaves out `lost`). Successes survive (`SuccessesKept`). Neither the purge nor the search for failed arm-runs
  looks at the design.
* `scripts/arms/revalidate.py:58` builds its evaluator without `--orfs-var`, which `run_arms.py` made part of every identity and keeps in the report: then
  nothing is replayed, and the held-out seeds are measured in another flow (`RevalidateReplays` asks for `~orfs`).
* `raw_handoff.py:936`: a route continues from a grt run that was answered as failed (a diverged import, no RePlAce), and is answered ok; the checks are made
  by runs from the base only (`Passed`).
* `node.py:178-193`: without slots, split mode lets a route half run anywhere, where it may find another cut of the placement (`Together` in `WholeResults`).
* `librelane_handoff.py:106`: the container's output is a pipe that the host does not read while it waits for the request: a flow that prints more than the pipe holds
  before it writes `dp_req.json` stops, and so does the host (`Jammed` in `HostReturns`).
* `librelane_handoff.py:96-98`: a container whose host was killed or raised goes on with the files of the next evaluation, and may answer it (`answer.alone` in `OwnAnswer`).

`experiment.py:428` says that the selection never hands back a config that routed worse than the default on the selection seeds: when the
default itself fails on one of them, its mean is None and any finalist that finished is taken, also one that is worse on the seeds
both finished (line 457). `PickEarned` says what holds.

## 5. Proofs

All theorems are about `Spec` of their module (`NodeSpec`, `DriverSpec` for the compositions), for every value of the constants that the named assumptions allow (finite sets of arm-runs and keys,
positive workers and tries, natural bounds, sequences of seeds, and so on).

* `EvalCacheProofs!Inductive`: `IInv` is inductive. `OneOwner` alone is not: to show that a popped entry is the popper's own, one
  needs that futures follow their tasks (`FuturesFollowTasks`); to show that a joined future will be resolved, that the table names a run
  whose owner is still in `evaluate`; to show that a batch is complete when it is recorded, that the pool
  holds exactly the call's distinct misses (`PoolOfCall`). `TakeTask`, `ResolveFuture`, `LeavingPool`, `CallFrame` and
  `CallOver` are the frames shared by several actions. Corollaries: `RunsHaveOneOwner`, `NobodyWaitsForNothing`,
  `BatchesAreAnswered`. `PermitsAreExact` adds the cardinality of the holders: an action takes one out or puts one in.
* `EvalCacheProofs!Implementation`: with flights the in-flight table, verdicts the futures and requests the joined runs,
  every step is a step of `SingleFlight` or changes nothing it sees. The invariant supplies the guards of `Attach`, `Decide` and `Land`.
* `EvalCacheRows`: `SourcesMatch` follows a result from the log line through the future and the caller's answers to the row, each time with the key it was
  printed for; runs only grow (`RunsStay`), also over a kill (`RowsAreOfTheirKey`). `HitsReplay` says that a hit, from the look-up until it is recorded, names
  the first success of its key; rows are appended behind it, and a kill removes only rows behind the committed ones (`EarliestStays`, `ReplaysAgreeAlways`).
  `QueuesUnmeasured` says that what an arm-run has in its queue it has no success of; only it could record one, and it is busy
  (`OwnSuccessesAreKept`). `OneProcessUndisturbed` assumes `MaxTimeouts = 0` and `MaxCrashes = 0`, because a timeout does start a second container (finding): `NoStray`
  says that every live process is awaited by its owner, of whom there is one.
* `SearchV2Proofs`: `CountsAgree` ties the counter to the rows at each control point, `RequestsFit` bounds a truncated
  batch by the budget left (over the index arithmetic of `ProductIndex`), and `RoundsAscend` makes `max_round` the number of the last row
  (`BudgetIsKept`, `RoundNumbersAreNew`). `RequestsAre` says what a batch holds: each config and seed once, and all of them unless the budget cut it short. From
  there: `Once` ties a batch to the rows (nothing of it has a row yet, and rows of its configs have search seeds only, so promotion seeds are new to them):
  `NothingMeasuredTwice`, which assumes what the code never looks at, that seeds are given once and promotion seeds are not search seeds (`SeedsOnce`). `Earned` says that
  the last rows are the search batch in its order and the only ones of their round, so that a config that ranks while budget is left has a row for
  every search seed (`RankedComplete`), and no later row disturbs that (`CompleteKept`): `PromotedAreComplete`. For the order of the promoted, `SumIs` unrolls the recursive
  function of a total (`SumsExist` builds it index by index; `UpTo`, a least counterexample, stands for the induction), `RoundTotalKept` that a total only depends on the rows of its
  round, and `SameShare` that in a batch two configs have equally many seeds, so that comparing the totals of a round is comparing the means the code
  ranks by (`LowerTotalBeats`): `PromotionsAreEarned`. `ProposersDoConform` says of every proposer, with any answer of a model, that the batch it hands to the loop is
  new, different and no more than asked for (`Answer`, `DeduplicatedFits`); `AtIs` says that what is kept of a model's answer are configs. `Waste` counts one batch for each start
  that ended and what is left of the batch in hand: `WasteIsBounded`. `DeadlineHasRows`: a start only ends at the deadline after a round.
* `LlmBudgetProofs`: below the cap nothing need be known of the calls in the air; at the cap the meter plus a dearest call for each of
  them fits below the ceiling, and each addition takes its caller out of the air (`OneCallLess`). For the
  bill of all starts, `BilledIsDue` bounds what was billed by one ceiling for each start that ended, the meter, the unseen part, and what the attempts in the air cost, which a kill
  turns into a ceiling of their start. `UnseenIsCharged` says that the unseen part and these costs are at most the dearest price of each attempt begun. Attempts are counted by
  what is left: of the tries of a call, of the two calls of a round, of the rounds (`Begun`), and a kill gives each arm-run one round more (`BillIsBounded`). Theorems: `Inductive`, `CapHoldsUpToCallsInTheAir`, `CapEndsAll`, `BillIsBounded`.
* `SlotQueueProofs`: `TicketsKept` says that a script found waiting stays in the directory and in the later script's listing, so
  the later one is never the oldest of its listing (`OldestExists`: a well-founded minimum). `CapIsKept` maps the running containers injectively
  to slots. Theorems: `Inductive`, `CapIsKept`, `NobodyIsOvertaken`.
* `BasePrepareProofs`: `DiskFollows` ties the files to the step of the one builder while no builder has been interrupted, so that a ready
  base outside a build is finished; `SettledStays` says that whoever came through the lock keeps everyone from building, because the second look
  of a later process finds the base ready; `NothingRead` starts each evaluation clean. Theorems: `Inductive`, `LockedIsSafe`.

* `DriverProofs`, final round: the invariant says that answers are what the database replays (`AnswersRecorded`), so that at the end of a
  selection the routed scores are the database's (`RoutedIsView`); rows of held-out seeds do not touch them (`SeedsApart`), and a
  candidate with a success everywhere is never run again. `Frame` makes the selection a function of the search, the arguments and those scores.
  Theorems of `FinalRound!Spec`: `Inductive`, `PickFollowsRows`, `PickSettles`, `PickIsEarned`; `FinalRoundOfDriver` carries the last two to the scripts.
* `DriverProofs`, second experiment: `IncumbentIs` says that the incumbent is what the first rows of the default arm say; rows are only appended, and what is
  appended behind a row is never the first of its seed (`FirstStays`), so an incumbent that covers its seeds cannot move (`IncumbentIsStable`; the mutant reads the last row).
  For late validation, `AnswersGood` ties a good answer to a success in the database, `NotAgain` says that what was a success before the pass replays,
  `Compared` and `OneTool` that what the report compared has a success under the identity that `revalidate.py` asks for, and `StillCompared` that this is among `before`: `LateValidationReplays`.
  Without `OneTool` it fails: with `--orfs-var` the two scripts ask under different identities.
* `DriverProofs`, first experiment: `NothingToLose` says that between the copy and the purge of a repair, the rows about to be deleted hold no success. The
  filters of the SQL statements are sequences cut to a set of indices; `AtIs` shows, through the bijection of a set of indices with its ranks, that such a cut has exactly
  the entries at these indices (`FiltersAre`), so what is set aside is every success. `RowsAre`, `TodoIs` and `RoundsAre` make the steps of the searches append to rows (`SearchIs`,
  `RecordIs`), which loses nothing (`GrowthKeeps`): `SuccessesAreKept`.
* `DriverProofs`, what the first experiment computes: `Typed` holds the parts. `Located` says where in its loop each arm-run is and which of its calls; `Truths`, that a
  row holds what its identity is evaluated to or `Infra`; the rest of the types follow (`ExperimentsAreTyped`). `Rounded` says that a new round is above
  all rows and, for the proxy-only arm, that each routed row has a placement of the same candidate in the same round beside it, and that a candidate that was routed
  twice was placed twice: where no two results tie, sorting by the placement then gives the same sequence with and without the routed rows (`PromptIsBlind`). `Healing` compares
  an arm-run with its `Plan`, a function of the constants: while no row of it is `Infra`, its rows and its batch are those that the plan's rounds ask for, in their order
  in the placement and estimate stages and as a set in the routes (`Track`), whatever runs, kills and repairs there were. `TrackMoves` carries this over appended rows, `ScreenedTrue` shows that
  the choice of what to route, made from rows, is the one made from the tools' numbers, and `StopHeals` and `LaunchHeals` that a kill, a purge or a resume puts the arm-run at a place
  where the track is the plan's again. At the end of its search the best of its rows is the plan's best: `RepairDoesHeal`, which for an arm-run with failures left,
  stopped by the wall clock, deleted by a killed repair or with a model says nothing, as the property does. The three theorems assume what their constants stand for: at least
  one round (`LoopAssumption`), numbers that are natural or `Bad` (`NumbersAssumption`), the six arm kinds and draws of placer configs (`LineupsAssumption`), a default among the flow configs (`SeedsAssumption2`).
  The second experiment's types need `Typed2`: what is validated are configs once the arm-runs have ended.
* `DInv` joins the three invariants: a behaviour of `Driver` runs one of the scripts, which begins in its own initial condition and leaves the variables
  of the others alone (`DriverInitially`, `DriverStep`, `DriverInductive`).

* `NodeProofs`: theorems of `NodeSpec`, for any machines, tasks, identities, batches, rounds, calls and losses. Its `IInv` has three groups of parts.
  Files: while no two evaluations have met in a dp directory (`AloneInDir`), `dp_result.json` is whole only beside a whole DEF and, for a repaired placement, a saved
  session (`CacheSound`), and what an evaluation finds in the files follows its step (`FilesFollow`), so that what it has read is whole (`WholeSoFar`):
  `WholeResultsAlways`. Each step of a worker touches the files of one placement on one machine (`Elsewhere`), so the others' parts
  carry over when they are elsewhere. Dispatch: every evaluation is one request of one call (`Asked`, `RefsApart`, `Owned`), and requests of calls that overlap are apart
  (`ReqsApart`), because `Sent` makes them distinct; two evaluations in one directory would be one request asked for twice: `OneRunPerDirectoryAlways`. `AscendingExists`
  shows, by induction over the largest element, that the order the distinct requests are sent in exists. Screening: a screened identity's grt run is
  whole on the machine that `Where` sends its route to (`ScreenedKept`), which needs that a good grt run is whole (`GrtDone`), that the route of a screened
  identity finds `held`, a slot or the home machine, and that nobody starts the identity's grt run again in between: `ScreenedNotRepeatedAlways`. For the
  handshake, `Ours` says that containers not begun are off, and that while an evaluation that found none running goes on, its own is the
  only one that writes `flow_done.json`: `OwnAnswerAlways`.
* `NodeProofs`, options and keys: these depend on no step. `FingerprintTells` says that the fingerprint determines the procedure, so that the fingerprints and the pairs of fingerprint
  and procedure are in bijection; with the finiteness of the options (`OptionsFinite`, an injection into a product) their cardinalities agree, which is how TLC compares
  them: `IdentitiesAreSeparate`; `Honoured` goes through the modes: `ModesAreHonoured`. `AnyRequestIsKept` is what TLC samples, for flows of any numbers: `ClampsAre` and `Snaps`
  say that clamping twice is clamping once (that `Snap` has a nearest choice is `NearestExists`), so a flow comes through the driver, the command line and the container as it is (`SteadyKept`).

Only model-checked: all liveness (`CallsReturn`, `Ends`, `ArmsEnd`, `Served`, `PrepareReturns`), and `BatchReturns` and `HostReturns`, which are about ENABLED: the prover
reaches neither. Every other property that a passing run checks is a theorem. Some theorems are of properties no run lists any more,
because the inductive invariant that a run checks, or a stronger property, contains them (`OneOwner`, `RoundsAreNew`, `PickStands`, `WasteBounded`, `DeadlineLeavesRows`).

## 6. Plan

Done: the five shared resources (`EvalCache`, `SearchV2`, `LlmBudget`, `SlotQueue`, `BasePrepare`) and the final round with their proofs; the handoff, its dispatch,
options and handshake (`Node`); the experiments with repair and late recovery (`Driver`); the proposers.

Left, in order of weight:

1. The recall of earlier runs (`_recall_hints`), when a driver uses it.
2. The recurrence of the net weights on a small grid of slacks.

## 7. Not modelled

Placement and routing themselves (external tools: a run succeeds, fails or never ends), floating-point scores (an order is enough;
failed is worse than every score), the arithmetic of TPE and of the net weights, the two-valued knobs' reading of texts, wording of prompts and reports,
`_recall_hints` (off in every driver), `FallbackProvider` and the mock evaluator (tests only), the diagnosis' parsing of timing reports, the patches of
ORFS's scripts, write-only output (evidence, manifest,
report), figures, paper, results, docker and packer files, tests. HTTP answers are a price and readable or not. The wall clock
of tickets is monotonic. SQLite's durability is taken as: what is committed survives a kill, what is not is lost.
