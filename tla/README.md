# Verification of the evals harness

This directory holds TLA+ models of `src/evals/evals/`, the harness that runs
coding agents ("frameworks") on bug-fix cases, scores what they did and keeps
the results of a *campaign*, and of the two adapters in `src/frameworks/` that
it runs. TLC checks the models on small instances and TLAPS proves theorems
about them for every instance.

Contents: [the system](#the-system), [the models](#the-models),
[runs](#runs), [what the runs found](#what-the-runs-found),
[proofs](#proofs), [what is not modelled](#what-is-not-modelled),
[what is left](#what-is-left), [how to run](#how-to-run).

## The system

The harness is a command-line program (`cli.py`). There is no server: every
command is a process of its own that works on directories shared with other
invocations, other hosts (a network file system) and the agents it starts.

| Component | State | Operations | Hard part | Correct when |
|---|---|---|---|---|
| Campaign lock, `campaign.py` | `runs/<campaign>/.lock` (pid, host, token) | `acquire_lock`, `_take_over_lock`, `release_lock`, `lock()` | other invocations between any two file-system calls; killed owners; other hosts; `--force-unlock` | one invocation inside `lock()`; a dead owner's lock is reclaimed; nobody unlinks another's lock |
| Campaign directories, `campaign.py` | `runs/*`, `runs/CURRENT`, `CURRENT.tmp` | `eval_new`, `current_campaign`, eval-clean-runs | the pointer is read before the lock is taken; removal unlinks entry by entry, the lock file included | commands work on the campaign they locked |
| Case cache, `workspace.py` | `.runs-cache/<case>.git`, `.venv`, and a hash file for each | `ensure_case_bare_repo`, `ensure_case_venv`, `_prepare_needed`, eval-prepare, eval-clean-cache | sources edited during a build; kills inside `rmtree`, `copytree`, `uv sync`; unlocked eval-prepare | what passes the freshness check is whole and current |
| Framework setup, `setup.py` | `.runs-cache/setup/<fw>.ok`, `.fail` | `run_framework_setup`, `_setup_fail_is_fresh` | the two sentinels against each other, timeouts, unlocked eval-prepare | a failed or stale setup never passes as ready |
| Cell execution and resume, `cli.py`, `runner.py` | `runs/<campaign>/<fw>/<case>/`: worktree, `meta.json`, `scoring.json` | `cmd_eval_all`, `cmd_eval`, `_run_one_cell`, `run_cell` | kills at any point, agents that survive the harness, rerun cells | `meta.json` means done and scored; reruns complete the matrix |
| Scoring pipeline, `pipeline.py` | the cell's artifacts | `run_pipeline` and its failure path | any step may raise; agents and test commands still writing; a venv shared by all cells of a case | scores are of what this run did |
| Report and status, `report.py`, `status.py` | `report.md` | `write_report`, `render_status` | stale or partial cells; eval-status takes no lock | the report is of the present results; what a status shows lasts |
| Process supervision, `runner.py`, `process_tree.py` | process groups, pipes, pump threads | `terminate_process_tree`, `join_threads_bounded`, `close_popen_pipes` | deadline against late answer; detached descendants holding pipes | the harness always goes on; the recorded status is what happened |
| Environment, configuration, discovery, schemas | none (pure functions) | `build_*_env`, `resolve_effective_config`, `discover_*`, validation | precedence, secrets, malformed manifests | declared keys only; documented precedence |
| Framework adapters, `src/frameworks/` | a deadline, one envelope on stdout; `_CHANGED_FILES`, the edited files; a trace | `main`, `write_file`, `edit_file`, `_messages_to_trace` of the two `adapter.py` | watchdog thread or SIGALRM against the normal answer; tool calls in parallel threads; results out of order | exactly one envelope; edit constraints kept; the trace shows what happened |

How they interact: eval, eval-all, the clean commands, and eval-new once there
is a current campaign, take the campaign lock around everything they do.
Inside it eval and eval-all ask `_prepare_needed`, rebuild the case cache and
the framework setups (`_do_prepare`), then for each cell clone the cached bare
repository, run the framework's adapter as a process in a session of its own,
wait for it, and run the pipeline, which writes `scoring.json` and then
`meta.json`. Both end with `write_report`. eval-prepare works on the same
cache and takes no lock. An adapter edits the cloned worktree and runs tools
in the case's cached venv, so cells of one case share state through it. A
harness that dies leaves its lock file, half-built layers, a partial cell and
perhaps a running agent, test command, setup command or `uv sync` for the next
invocation; nothing else is persistent.

## The models

| Module | Models |
|---|---|
| `ExclusiveLock` | the abstract lock: acquire, release, quit, expire |
| `CampaignLock` | the lock protocol of `campaign.py`, one action per file-system call; `AbstractLock` is the refinement mapping to `ExclusiveLock` |
| `CampaignPointer` | `runs/`, `CURRENT` and `CURRENT.tmp`: eval-new, and the commands that work in the current campaign or remove all of them |
| `CaseCache` | the two cached layers of a case, their rebuild and wipe |
| `FrameworkSetup` | the `.ok` and `.fail` sentinels of a framework and the commands that decide by them |
| `EvalCells` | eval-all, eval, eval-report and eval-status over the cells of one case, agents, pipeline, test commands |
| `Supervisor` | a supervised process: pipes, pump threads, deadline, process group, verdict |
| `CellRun` | `Supervisor` with the two adapters, and their own deadlines, as its processes |
| `AgentTools` | what an agent does inside an adapter: editing tools, the limit on changed files, traces |
| `CampaignLockProofs`, ..., one per model except `ExclusiveLock` | the theorems about it |
| `MCCampaignLock`, ... | constants for TLC |

In each module the operators marked "Mutant" stand beside the action they
alter. They belong to no specification: substituting one for its original is
how each property was seen to fail when the code is wrong.

How they compose: `CellRun` extends `Supervisor`. The others meet in what they
promise each other. `CaseCache` and `EvalCells` run one locked command at a
time, which is what `CampaignLock` shows the lock to give (and `lock_three`
where it does not); `CampaignPointer` takes and releases a lock in one step each.
`EvalCells` ends a wait with nothing of the adapter's process group alive,
which is `GroupGone` of `CellRun`, and lets descendants that detach survive;
the pydantic-ai agent among its tasks edits files by the rules of `AgentTools`.

### CampaignLock

`Proc` are CLI invocations, each of which takes the lock once; the owner token
is the process itself. `lockfile` is the owner named by `.lock` or `Absent`,
`pc[p]` the next call of `p`, `seen[p]` the payload it read last. `robbed` is
a history variable: the owners whose file someone else unlinked while they ran.

The points follow `acquire_lock`: `try` (link), `inspect` (read), `retry` and
`reread` (a vanished file), `judge` (`kill(pid, 0)` or the host comparison),
`unlink` and `relink` (`_take_over_lock`), then `held` (the body of `lock()`),
`check` and `remove` (`release_lock`), `leaving` (the process goes on until
the command ends, so its PID is still alive) and `done`. A refused invocation ends in
`refused`, one that meets an uncaught `FileNotFoundError` in `error`, a killed
one in `dead`. The kernel makes `link` and `unlink` atomic; the payload is
written to a private file first, so a read never sees half of it.
`PidReuse` lets `kill(pid, 0)` find another live process under a dead owner's
PID. `EPERM` counts as alive in the code, which is the same outcome.
An unreadable payload cannot arise from these steps and is left out.

### CaseCache

Sources are version numbers: a layer is built from `src[l]`, its directory
holds the version it was built from or `Broken` (partly copied or removed, or
copied across an edit), its hash file names the version hashed before the
build. Removal and copying take two steps each, so kills and edits can fall
inside. The bare repository is built in a temporary directory and moved; the
venv is built in place. `uv sync` or git may fail. `recent` is a history
variable: the versions the sources had since a command began.

`_prepare_needed` is one step: nobody else changes the cache while the lock
is held, except eval-prepare, and sources that change under it can only cause
a rebuild or be seen by the next command.

A harness killed while it builds the venv leaves its `uv sync` behind
(workspace.py:195): `orphans` are the versions such orphans are building, and
`OrphanWrites` lets them go on with the venv at any time. They may
complete it as it would have been, or leave it broken, and make a removal fail by
adding files below it. Ctrl-C is different: `subprocess.run` kills the child then.
A killed `git` of the bare repository does no harm: it writes in a temporary
directory. `spoilt` is a history variable: the venv, if an orphan wrote into it since its
build began; the properties are stated up to it. What the agents install into a venv
is the matter of `EvalCells`.

One case stands for all: cases share nothing in `.runs-cache`.
`Proc` with the campaign lock is reduced to what the lock promises (`Start`:
one eval or clean at a time); `CampaignLock` shows when it keeps that promise.

### EvalCells

Cells `1 .. Cells` are the frameworks of one case in the order eval-all visits
them. `todo` is what `--framework`, `--case`, the manifest and the discovery of now
leave of them (`Filters` bounds which sets occur). A task is one run of an agent and of
the test commands on its edits (`task_id`). What a worktree, a diff or the venv
contains is the set of tasks that changed it, which is all the properties
tell apart. A worktree has two parts: what a diff against `HEAD` shows, and what it
hides because it was committed (`HEAD` moves with it) or is ignored by git. `Writes`
moves edits between the two, adds and undoes them; `DeriveDiff` sees the first only; test
commands run on both.

`agent[t]` is the cell in which processes of task `t` still run, also after the
harness that started them died or gave up, or when a descendant left the process
group. The agent and each test command have a process group of their own (runner.py:270,
pipeline.py:162), which `EndGroup` ends after each of them; all of them may write
to the worktree and to the venv. `strays` is a history variable: `<<t, c>>` once something
of task `t` was left alive in cell `c`, because it detached descendants or its harness
ended or gave up while waiting for it (`Abandoned`). What it does then has no bound in the
code, so the properties about scores are stated up to `Strays(c)`, the tasks left alive in
that very cell. `Crash` covers a kill, Ctrl-C and an uncaught exception;
`PipelineFails` covers every exception that `run_pipeline` turns into failure
artifacts.

The venv is what `compute_venv_fingerprint` sees of it: the names of its `*.dist-info`
directories. It may be removed (`None`), which `CheckVenv` takes for unchanged, as the
code does, and a failed pipeline may be unable to read it: the history variable `blind` has the tasks
for which that happened.

eval-report is a command that only writes the report. eval-status (`look`)
takes no lock: for each cell it asks whether there is a `meta.json`
(`MetaExists`), reads it (`ReadMeta`), and reads those with errors once more in
the end (`ReadReason`); a file that vanished in between is an uncaught
exception. `look.calm` remembers that no eval was or came under way.

### CampaignPointer

A process is one invocation of eval-new, eval-all, eval or eval-clean-runs; the
campaign it may create has its name. Each file-system call of `eval_new` is an
action: `mkdir`, the manifest (written and renamed: one step), the test for
`CURRENT.tmp`, its unlink, the symlink, the rename. eval-all without a
campaign creates one *without* a lock and then locks it. (It reads `CURRENT` once
more in `eval_new` before it creates one, cli.py:385; the model reads it once.)

`rmtree` of eval-clean-runs lists a directory once and removes what it listed, one
entry after another, in any order: each campaign's `.lock`, `manifest.json` and the rest
(`cells`) and then the directory itself, and at last `runs/`. `rmdir` fails if something was
added meanwhile. An entry that vanished is an error
or, from Python 3.13 on, ignored. The `.lock` it unlinks may be its own, or that of
an invocation that came in after its own was gone. A cell that is run makes its
directory with `mkdir -p` (`RunCell`), so a removed campaign may come back.
eval-clean-cache, eval-report and eval-status do not change `runs/` but for the report and
are as `eval-all` here. History variables: `pointed` (where `CURRENT` has pointed),
`cleaned` (a removal of `runs/` has begun), `doomed` (the campaigns whose removal has),
`overlap` (two were creating at once).

### FrameworkSetup

One framework; others only matter as a further reason to prepare (`Check`). A
sentinel holds a fingerprint: the manifest's bytes and the dependency files as
they are on disk, and the command as it was discovered. `Procs` are invocations
that may overlap, because eval-prepare takes no lock and the cache belongs to all
campaigns. `installed` is what the environment was last set up from, or
`Nothing` from the moment a command begins to change it. A setup command ends
well or badly, is killed at its timeout, or is orphaned when its invocation is
killed. The user may edit the manifest and the dependency files at any
time; contents do not return to earlier ones, so a version number stands for the hash.
History variables: `calm[p]` (no edit since `p` began), `overlap` (a setup ran
beside another invocation or an orphan).

### Supervisor and CellRun

`Supervisor` is `run_cell` from `Popen` to the recorded result, and the same
pattern in `pipeline.py` and `setup.py`; runs come one after another. A process
writes, forks, detaches descendants (`loose`), ignores or obeys SIGTERM, and exits
as it likes. `stdout` stands for both output pipes. The pump thread of
`_pump_capped` blocks in a read of the pipe behind a descriptor *number*;
`fdt` is the descriptor table, in which `close_popen_pipes` frees a number that a pump
may still use and `Popen` takes the lowest free one. `TimeoutExpired` may win
against an exit at the same moment. `Classify` is `_classify_error`. Pumps
are taken to be prompt: one that can reach end of file does so within the drain grace;
a loaded machine that needs more than `PIPE_DRAIN_GRACE_S` is left out.
`PumpLeft(k)` says that `run_cell` gave up on the pump of run `k` (descendants
held its pipes, so it is recorded as a timeout), and `Clear(k)` that no
earlier run left such a pump: the most a run can ask for, as finding 2 shows.

`CellRun` makes the current process an adapter: `main()` statement by
statement, with the buffer of `sys.stdout` between writing and flushing the envelope.
pydantic-ai's `threading.Timer` may be past the point of cancelling (`firing`) and its
SIGINT then arrives at any later statement; deepagents' SIGALRM is in the kernel
and cannot come after it is disarmed. Python runs the handler before the next
statement, where it raises. A "command" process keeps all the freedom of
`Supervisor`.

### AgentTools

Responses of up to `Parallel` tool calls, run in parallel threads by the agent
library (external), with their results returned in any order. `write_file` and
`edit_file` are check, read, write, count: one action each, so calls interleave
between them. A file's content is the set of calls whose text is in it, empty when
it is `HEAD`'s; a write keeps any part of what it replaces and may leave out its own, so
edits are overwritten, taken back, and restored to `HEAD`. `run_shell` and a failed write
change a file past the count (`foreign`). `Permitted` is what the globs and
`_resolve_within` admit, `Ignored` what git does not show. `Check` is the adapter's
limit on changed files, `OverMax` the harness's on the diff. The library may
refuse a call with a `RetryPromptPart`, which the trace of pydantic-ai does not show.
The two traces follow the two `_messages_to_trace`; `pending_order`
only ever grows at its end, so a set stands for the list. History variables:
`dropped` (calls whose text another call replaced with what it had read), `clash` (files
named by two calls of one response), `width`, `vague`.

## Runs

With deadlock checking on, no model may get stuck except where everything has
ended (`AllExited`, `AllOver`, `AllDone`, `Over`). The runs take from a second
to about two and a half minutes with two workers. The type invariants
(`TypeOK`, `CellTypeOK`) are not in the runs: they are theorems.

| Run | Shows | Bounds and why they are enough |
|---|---|---|
| `lock_pair` | `MutualExclusion` and `ImplementsExclusiveLock`: at most one owner, who releases its own file | two invocations on one host, both may be killed anywhere, PIDs reused: all two-party races |
| `lock_contended` | `OwnerUnlessRobbed`, `NoLeakedLock`, `RobberyExplained`, `StaleLockReclaimed` | three invocations on two hosts, one forcing, kills anywhere: the smallest setting with a stale judgement, a same-host and a remote owner. No PID reuse: with it a dead owner's lock may be refused, and `StaleLockReclaimed` does not hold of the code |
| `lock_three` (violation) | `MutualExclusion` fails with three invocations | no kill, no force needed |
| `pointer` | `CurrentComplete`, `NewTakesEffect`, `LockProtects`, `LastOneCreates` | three invocations, one of which may be eval-clean-runs and may be killed anywhere, with and without a campaign from before: a kill that leaves a `CURRENT.tmp`, two that race over it, a removal entry by entry under the others' hands. A second removal would only make more entries vanish under the first, as those that rename, release and take over already do |
| `cache_crash` | `FreshMeansIntact`, `NeverOlderThanHash` | one invocation of any command after another, killed anywhere (not eval-clean-cache), a `uv sync` going on after each kill, three versions that only grow, edits at any moment: an orphan of the oldest version and a rebuild to a newer one |
| `cache_reverts` | `CellsUseIntactCache` | two invocations of eval and eval-clean-cache under the lock, failing builds, sources going back to earlier versions between commands, no kills |
| `setup` | `OneSentinel`, `OkMeansInstalled`, `RunsOnlyWithOk`, `EventuallySettled` | two invocations that may overlap, four manifests (a command, one that cannot be spawned, none, an invalid one), one edit, one kill |
| `cells_resume` | `ScoredOwnEdits`, `TestedWhatIsDiffed`, `DoneCellsKept`, `ReportCurrent`, `MatrixFilled` | two cells, three tasks, eval-all with any filter, one crash at any point and any step of the pipeline failing, the first task may detach descendants and change worktrees: what it leaves alive and what the others score |
| `cells_rerun` | `DoneMeansScored`, `StatusLasting`, `VenvMutationFlagged` | two cells, four tasks, one eval, one eval-status, one crash where no task runs and no cell is half wiped; the pipeline fails in steps that start no process; the first task may change, remove or rebuild the venv |
| `cell_adapters` | `GroupGone`, `VerdictTruthful`, `AnswerKept`, `LogFinal`, `OneEnvelope`, `AdapterRecorded`, `Proceeds` | an adapter of either kind, then any process that writes twice and may detach descendants; two descriptors, so that numbers are reused |
| `cell_reused_fd` (violation) | `AnswerNeverLost` fails for the run after one that detached | two commands, one write each |
| `tools` | `OverrunBounded`, `ChangesCounted`, `EditsKept`, `TraceExact`, `NothingLost` | three calls, two at a time, so a response of two and one of one in either order; a limit of one file and three of which each could exceed it, one more that git ignores; ids unique, missing or used twice. Every file is permitted: a refused path ends in "error" like a refused count. Symmetry in the three plain files and in the two ids |

Restrictions on *when* something bad may happen are where the code's guarantee ends:
the crash points of `cache_crash` and `cells_rerun` leave out exactly what the
findings below need. In `cell_adapters` only the second run detaches descendants,
which keeps the run small; so `AnswerKept` there is about an answer for which no earlier
run left a pump behind. `cell_reused_fd` has the other order, and the theorems
about `Supervisor` and `CellRun` hold for every `MayDetach`. `Editors` and `Installers` say which
tasks change a worktree or the venv: one of them is enough to be the stranger in
another's cell, and the theorems have no such bound.
Two cells are enough for what cells do to each other (through the venv,
through the order of eval-all and the report); one crash is followed by
arbitrarily many commands, and a second crash starts from a state the first may
already leave. `MaxTask`, `MaxRerun`, `MaxEdits`, `MaxWrites` and `MaxCalls` bound
only how long a behaviour goes on.

### Fairness

- `CampaignLock!FairSpec`: weak fairness of each process's next call: none of
  the calls blocks, so the kernel's scheduler suffices.
- `CampaignPointer`: weak fairness of "some live process makes its next call".
- `FrameworkSetup`: weak fairness of an invocation under way; its waits have
  timeouts. Nobody has to begin one: `EventuallySettled` has "again and again somebody
  runs eval or eval-all" as its hypothesis.
- `EvalCells!FairSpec`: weak fairness of a running command, because every wait in it
  has a timeout, and strong fairness of starting eval-all unfiltered, with every framework
  and case of the matrix still there: the operator runs it
  again and again, whatever else is run in between. Resuming is the operator's
  part, the code only promises that repeating the command is enough.
- `CellRun`: weak fairness of the harness, which never waits without a timeout,
  of pump threads that can go on, and of the request's writer once its
  reader is gone. Nothing is assumed of adapters, agents and their descendants.
- Nothing ever makes a process crash.

## What the runs found

1. `lock_three`: `p2` judges the lock of a dead or finished `p1` stale; before
   `p2` unlinks, `p3` takes the lock; `p2` unlinks `p3`'s file and links its
   own. The docstring of `_take_over_lock` (campaign.py:187) promises the
   opposite. `RobberyExplained` shows that this, force, and the knock-on
   effect in `release_lock` are the only ways.
2. `cell_reused_fd`: a descendant that left the process group keeps a pump
   blocked; `close_popen_pipes` (process_tree.py:57) closes the descriptor by
   number; the next process's pipe gets that number, and when the old pump reads
   again it takes the next process's answer. The run that answered in time is
   recorded as `missing_response`. `AnswerKept`, a theorem, is what remains true:
   no answer is lost as long as no earlier run left a pump behind.
3. `tools`: the calls of one response run in parallel and count a file only after
   writing it, so several pass the check of `max_changed_files` (adapter.py:138) together.
   With a limit of one file two parallel calls change two. `OverrunBounded` is what
   holds: the limit plus the other calls of the widest response. The documents
   promise the limit itself: README.md:64 of pydantic-ai and its system prompt
   (adapter.py:173) say that a violating call returns an error instead of writing,
   task-spec.md:22 calls the limit an upper bound. The strict form as an invariant,
   `foreign = {} => ~OverMax`, ends the same run with a violation.

Further places where the code does less than one expects, or than the doc, comment or
test quoted says, each found by TLC and left without a run of its own. The constants given
reproduce them (take
the cfg of the same module and change what is listed):

4. `NoTraceback` of `CampaignLock`, three processes on one host
   (`LockThree.cfg`): the last read of `acquire_lock` (campaign.py:220) is
   unguarded and `main` catches only `LockBusyError`; cli_test.py:459 is
   named `test_cli_reports_lock_refusal_without_traceback`. With two invocations it
   cannot happen (theorem `LockNoTraceback`).
5. `CellsUseIntactCache` of `CaseCache`, `Proc = {p1}`, `Commands = MayCrash =
   {"eval"}`, `Versions = 2`, `Reverts = TRUE`, `EditAnytime = FALSE`: a rebuild
   removes the directory before the hash file (workspace.py:107). Killed in
   between, and with the fixture reverted to what the hash names, the partial
   directory passes as fresh, which the comment at cli.py:161-164 means to rule out.
6. `ScoredOwnEdits` of `EvalCells` without its `\cup Strays(c)`, `Cells = 1`,
   `MaxTask = 2`, `Detach = {}`: a resumed run clones its worktree at a
   path that an agent, or a test command, of the killed run still edits; both have sessions of
   their own (runner.py:270, pipeline.py:162). task-spec.md:55 says that
   runs cannot contaminate each other. The property with `Strays(c)` says that
   there is no other way.
7. `DoneMeansScored` of `EvalCells` (`CellsRerun.cfg`), `Cells = 1`, `MaxTask = 2`,
   `CrashIn <- Anywhere`: eval removes
   a done cell without removing `meta.json` first (cli.py:516); killed in
   between, it leaves a cell that counts as done without scores, while
   resume_test.py:1 says that a cell is done iff `meta.json` exists.
8. `InstalledWithEnv` of `FrameworkSetup`, `Procs = {p1}`, `Manifests <-
   MCEnvKeys`, `MaxEdits = 1`, `MaxKills = 0`: `setup_fingerprint` hashes the
   manifest as it is now (setup.py:177) but the command runs with the env keys of the
   manifest discovered earlier. Edited in between, `.ok` is fresh for
   a manifest whose keys the setup never saw; its docstring (setup.py:159-162)
   says the inputs are included so that `.ok` goes stale when they change.
9. `RepointOnlyUnlocked` of `CampaignPointer`, `Proc = {p1, p2}`, `MayCrash =
   Cleaners = {}`: eval-new takes the lock of the campaign it read from `CURRENT`; when another
   invocation has since made a campaign of its own current and works in it, eval-new
   repoints nevertheless, although
   `test_eval_new_refuses_to_repoint_when_current_campaign_is_locked`
   (campaign_test.py:99). `LockProtects` is what remains true.
10. `ReleaseRemovesOnlyOwn` of `CampaignLock` (defined there, proved for two) with
   three processes: in the state of 1, `release_lock` compares the token and unlinks in two calls.
11. `CellsUseIntactCache` with `Proc = {p1, p2}`, `Commands = {"prepare",
    "eval"}`: eval-prepare takes no lock.
12. eval-clean-runs killed after the campaigns are gone and before `CURRENT` is
    leaves a dangling pointer: `current_campaign` returns it and every command,
    eval-new and eval-clean-runs included, then fails with
    `FileNotFoundError`. `CurrentComplete` is therefore stated up to the first removal.
13. eval-status beside eval may meet a `meta.json` that vanishes between its two
    looks (status.py:53-54, :43); `StatusLasting` says that nothing but eval does that.
14. A pydantic-ai adapter whose watchdog fires as it is cancelled may put two
    envelopes on stdout, or end without one (with status 1; `OneEnvelope` promises
    one failure there only without `late`). It never returns 0 then, so the
    harness records an error.
15. `FreshMeansIntact` of `CaseCache` without its `\/ l \in spoilt` (`CacheCrash.cfg`): a harness
    killed in `uv sync` (workspace.py:195) leaves it running; the next command removes the
    venv, builds and records it, and the orphan, of an older lock file perhaps, writes
    into what passes as fresh from then on.
16. `LockProtects` of `CampaignPointer` without its `c \notin doomed`, `Proc = {p1, p2}`: eval-clean-runs
    unlinks the `.lock` it holds as one entry among others (cli.py:567), so an
    invocation that found the campaign current locks it anew while the rest is being removed.
17. `ReportCurrent` of `EvalCells` with `Cell` for `todo`: a filtered eval-all, or one that finds a
    framework or case of the manifest gone (cli.py:406-411), ends with status 0 and a
    report in which cells are not filled.

Seen while modelling, and part of the models where it matters:

- `venv_mutated` compares the names of the `*.dist-info` directories (workspace.py:79-85): a package edited
  in place is not a change. A venv that is gone passes for unchanged (pipeline.py:612-615),
  and in the failure path an exception while reading it is swallowed
  (pipeline.py:442-450): `VenvMutationFlagged` is about names, a venv that exists and can be read.
- What an agent commits, or what `.gitignore` hides, is tested but not in `diff.patch`
  (pipeline.py:88-107): `TestedWhatIsDiffed` compares what a diff would show.
- A call that Pydantic AI answers with a `RetryPromptPart` keeps an empty result in the
  trace (adapter.py:548): `TraceExact` says so.
- `git diff --name-only` without `-z` quotes non-ASCII names (pipeline.py:100-103), and
  `check_edit_constraints` matches the globs against the quoted form. Names are not in the
  models, which is why they say nothing about the path constraints of the harness.

## Proofs

`CampaignLockProofs` holds the theorems; constants are arbitrary (`Proc` need
not be finite) under `LockAssumption` alone:

- `LockTypeCorrect`, `LockNamesOwner`, `LockNotLeaked`, `LockRobberyExplained`: for any invocations, hosts,
  kills, forcing and PID reuse.

and, in addition under `Uncontended` (nobody forces, and either two
invocations on one host or one per host):

- `LockMutualExclusion`, `LockReleasesOwn`, and `LockImplementsExclusiveLock`,
  the refinement of `ExclusiveLock`.

`lock_three` shows that `Uncontended` cannot be dropped from the second group. Under
`AtMostTwo` (two invocations, on any hosts, forcing or not) there is also

- `LockNoTraceback`: the unguarded second read of `acquire_lock` never finds the
  file gone (finding 4 is the counterexample with three).

The argument: `LockInv` is the conjunction of the type invariant, the two
state properties of the first group and `Judged` (who takes over has found the owner
it read ended, or is forcing); it is inductive (`OwnerUnlessRobbed` needs
`NoLeakedLock` to know that the file a process unlinks belongs to an owner,
and `Judged` to know that the owner it had read has ended). Under
`Uncontended` a second invariant says that `robbed` stays empty: the one who
unlinks judged the only other process of its host, which had ended and so
holds nothing. With `robbed` empty, `OwnerUnlessRobbed` says every owner is
named by the one lock file, which gives exclusion and the refinement step by
step. `LockNoTraceback` rests on `SecondTryWins`: whoever found the file taken
competes with an invocation that has had its turn and never links again, so a
file that is gone at the first read stays gone and the second link succeeds.

`CaseCacheProofs`: for any invocations, any number of versions and any
pattern of kills, failures and edits under `CacheAssumption`,

- `CacheTypeCorrect`, without further assumptions;
- `CacheNeverOlder` and `CacheFreshIntact` under `Orderly`: invocations do not
  overlap (they hold the lock, or there is one), sources only move on,
  eval-clean-cache is not killed;
- `CacheUseIntact` under `Orderly` if sources change between commands only
  (`~EditAnytime`);
- `CacheRevertsFresh`, `CacheRevertsNeverOlder` and `CacheRevertsUse`, the same
  three properties under `Unkilled` (so without orphans, and `spoilt` empty): invocations do not overlap, nothing is
  killed or edited under a command, but sources may go back to earlier versions.

The argument for `Orderly`: `CacheInv` records for each step of a rebuild how far the hash
file and the directory are behind the source (`Progress`). The key part is
`BrokenIsStale`, that a broken directory lies beside no hash file or beside
one of an earlier version: a rebuild begins only when the hash file names an
earlier version than the one just computed, so a kill inside `rmtree` is
harmless as long as versions do not return. A source that is edited while it
is copied spoils the copy and at the same time outdates the hash that will be
recorded for it. Each conjunct about the venv has the exception `l \in spoilt`, because an orphan of a
killed harness may write at any moment; the removal before a build clears it, until
the orphan writes again. Finding 5 shows that growing versions cannot be dropped
from `Orderly`, and finding 11 that invocations must not overlap.

When sources revert, a version no longer says which of two contents is the later one and
`BrokenIsStale` is lost. Under `Unkilled` another invariant, `WholeInv`, takes
its place: every command leaves directories that are what their hash files
say, or one of the two is missing (`Whole`), and only the layer whose `rmtree`
is under way is an exception; `Rebuilt` follows the layer through its rebuild.
Both arguments meet in `CacheFacts`, from which `UseInv` goes on to say which layers
a command knows to be current.

`CampaignPointerProofs`, without assumptions on the constants: `PointerTypeCorrect`,
`PointerCurrentComplete`, `PointerNewTakesEffect`, `PointerLockProtects`. `CompleteInv`
follows the pointer backwards: what `CURRENT` names was in `CURRENT.tmp`, and what is put
there has its manifest. `EffectInv` says that without overlap one invocation at a
time is about `CURRENT.tmp`, so that what it renames is its own or gone. `LockInv`
says that an invocation working in a campaign it found holds that campaign's lock,
or the removal of that campaign has begun, and that `rmtree` is only inside such
campaigns: so who begins a removal, or moves `CURRENT` away, holds the lock itself.

`FrameworkSetupProofs`, for any manifests, edits and kills:
`SetupTypeCorrect`, `SetupOneSentinel`, `SetupOkMeansInstalled`, `SetupRunsOnlyWithOk`.
`AloneInv` says what absence of overlap gives (no other invocation, and no `.ok`
while an orphan is alive); `SentinelInv` that both sentinels are gone while a command
runs; `InstallInv` that what is about to be written, or has been, was installed,
from dependencies no newer than the present ones; `CalmInv` that an invocation
during which nothing was edited holds the present fingerprint and comes to its
cells with the verdict of its own setup.

`EvalCellsProofs`, for any number of cells, filters, crash points, detaching, editing and
installing tasks and rerun cells: `CellsTypeCorrect`, `CellsKept`, `CellsReported`, `CellsStatus`,
`CellsScoredOwn`, `CellsTestedDiffed`, `CellsVenvFlagged`, `CellsMatrixFlagged`;
`CellsDoneScored` under `SafeWipe` (no crash inside the wipe of a rerun: finding 7
is the counterexample); and `CellsOwnAlone` under `Contained`: if no task
detaches descendants, and no harness ends or gives up while an agent or a test command
runs, diff and tests of every cell are of the scored task alone. `MatrixInv` says that eval-all has
only done cells, of those asked for, behind it and is in a cell that is not done, which gives
`CellsKept` and `CellsReported`; `ScoreInv` adds that the sentinel is written after the scores of the
same task. `OwnInv` says that a process that runs is either the one being waited for
or a stray of the cell it edits, so that from the clone on the worktree holds, shown and hidden, the
edits of the task at hand and of that cell's strays, and that without strays nothing
changes it between the diff and the visible tests. `Fresh` and `VenvInv` say that a task is new to
the venv when its cell begins, so that its change of it shows in the comparison at the end, whoever
else changed it, unless it is excused (`strays`, `blind`). `CellsMatrixFlagged` follows by
accounting: without a crash and a rerun every task is under way or has its result (`Accounted`), so
whoever changed the venv has a cell that says so. (`MatrixFlagged` is not in a run of
its own; it is a consequence for the whole matrix.)

`SupervisorProofs`, for any number of runs, descriptors and writes and any
`MayDetach`: `SupervisorTypeCorrect`, `SupervisorGroupGone`,
`SupervisorVerdictTruthful`, `SupervisorAnswerKept`, `SupervisorNoForeignOutput`,
`SupervisorLogFinal`. A run's group is empty before the pipes are joined
(`ProcInv`), so its pump reaches end of file unless a detached descendant holds the pipe
(`LooseInv`); a pump that outlives its run is one that `run_cell` gave up on, and only the
run under way has a pipe behind a descriptor (`PumpInv`); pipes are closed on a pump only
when descendants hold them (`CloseInv`). So with `Clear(cur)` nothing is between this
run's pipe and its log but its own pump: what was written is in pipe, buffer or
log in order (`StreamInv`), the log is written once all of it has been read
(`LogInv`), and everything carries the tag of its own run unless its pump was left
behind (`TagInv`). The timeout flag is about the deadline or such descendants
(`TimedInv`); hence the verdict (`ResultInv`). `OutputInv` is their conjunction.

`CellRunProofs`, under the module's assumptions alone: `CellTypeCorrect`, `CellAlarmOnlyInAgent`,
`CellOneEnvelope`, `CellAdapterRecorded`, `CellGroupGone`, `CellVerdicts`. Every step of an adapter is by
definition one that `Supervisor` allows its process (lemma `CellImplementsSupervisor`), so
the theorems of `Supervisor` carry over.
`EnvelopeInv` follows the envelope through `main()`, from the statement that
builds it through the buffer to the exit status; it knows `late` interrupts, which
`AlarmInv` excludes for SIGALRM. `SentInv` and `GoneInv` connect it with the bytes and
the status the harness sees.

`AgentToolsProofs`, for any limit, files, ids and parallelism: `ToolsTypeCorrect`,
`ToolsChangesCounted`, `ToolsOverrunBounded`, `ToolsEditsKept`,
`ToolsTraceExact`, `ToolsNothingLost`. `ChangesCounted` is inductive with the
types; `OverInv` says that counted files and those in
flight never exceed the limit by more than the response is wide; `EditInv` that
without two calls about one file what was read is still there when it is
replaced, so that whatever the write leaves out was known to the call; `DeepInv` and
`TraceInv` relate the index of each trace to the calls still without a result.

Only model-checked are the liveness properties `StaleLockReclaimed`, `LastOneCreates`,
`EventuallySettled`, `MatrixFilled` and `Proceeds`: they need fairness, and so
ENABLED, which the prover does not reason about. Every other property of a passing
run is a theorem.

## What is not modelled

- The contents of payloads, diffs, logs and reports: properties are about which run
  they come from. The arithmetic of scores, the counts and the layout of report and
  status, and the parsing of stdout and patches are functions of one document.
- `env.py` and `resolve_effective_config` (precedence of environment, `.env` and
  manifests), `discovery.py` and `schemas.py`: pure functions without state or order,
  whose cases the unit tests enumerate.
- The adapters' reading tools and prompts, and the file tools
  of deepagents, which belong to that library. The models, their API and the
  agent libraries appear as the choices they leave to the adapter.
- Which paths the globs of `edit_constraints` match, in the adapter and in
  `check_edit_constraints`, and how git writes a name: the models have a predicate
  (`Permitted`) and count files.
- What of a venv is not in the names of its `*.dist-info`: the harness does not
  look at it either.
- A pump that cannot reach end of file within the drain grace although nothing holds
  its pipe, because the machine is slow.
- Process ids of process groups (process_tree.py:88): a group whose leader was reaped
  is killed by number, and an empty group's number may have been reused.
- eval-clean-cache killed inside `rmtree`: `FreshMeansIntact` fails with it (a partial
  directory beside its hash file, as in finding 5, without even an edit), so the
  passing runs leave "clean" out of `MayCrash`.
- The stub adapters (they exit with status 2), fixtures and cases (data).
- File-system failures other than exceptions: no lost writes after a power
  cut, no network-file-system caching.

## What is left

- `DoneMeansScored` without `SafeWipe`, stated up to the cells that a kill left half
  wiped, as `ScoredOwnEdits` is stated up to strays.
- Adapters in a row under one harness: the models have one adapter followed by a
  process that is free to do anything, which covers what an adapter may meet but
  not a second timer.
- The functions of one document (`_parse_stdout_log` and the schema checks of
  `pipeline.py`) over bounded inputs against reference definitions, and the path globs of
  `check_edit_constraints` with the names git prints.

## How to run

    tlc -workers 2 -config LockPair.cfg MCCampaignLock     # Lock*.cfg
    tlc -workers 2 -config Pointer.cfg MCCampaignPointer
    tlc -workers 2 -config CacheCrash.cfg MCCaseCache      # Cache*.cfg
    tlc -workers 2 -config Setup.cfg MCFrameworkSetup
    tlc -workers 2 -config CellsResume.cfg MCEvalCells     # Cells*.cfg
    tlc -workers 2 -config CellAdapters.cfg MCCellRun      # Cell*.cfg
    tlc -workers 2 -config Tools.cfg MCAgentTools
    for m in *Proofs.tla; do tlapm $m; done

`PROJECT.json` lists the runs, what each mutant changes, and the source lines
every definition models.
