------------------------------ MODULE EvalCells ------------------------------
(***************************************************************************)
(* How one campaign's matrix is filled: eval-all and eval of               *)
(* src/evals/evals/cli.py, the cell run of runner.py, the scoring pipeline *)
(* of pipeline.py, the report of report.py (eval-report) and the status of *)
(* status.py (eval-status), for the cells of one case (one per framework), *)
(* which share its virtual environment.                                    *)
(*                                                                         *)
(* One harness process works at a time (the campaign lock); eval-status    *)
(* takes no lock and reads beside it.  The agent, and then each test       *)
(* command, runs in a session of its own: what it starts edits the         *)
(* worktree by path, may change the shared venv, and outlives a harness    *)
(* that is killed, interrupted or failing while it waits.                  *)
(*                                                                         *)
(* A task is one run of an agent and of the tests on its edits (task_id).  *)
(* What a worktree, a diff or a venv holds is represented by the set of    *)
(* tasks whose changes are in it.                                          *)
(***************************************************************************)
EXTENDS Naturals, FiniteSets

CONSTANTS Cells,      \* number of cells; eval-all visits them in order
          MaxTask,    \* bound: agent runs
          MaxFault,   \* bound: crashes and uncaught exceptions
          MaxRerun,   \* bound: eval commands
          MaxLook,    \* bound: eval-status commands
          Filters,    \* bound: the sets of cells eval-all may be asked for
          CrashIn,    \* program points at which they may happen
          FailIn,     \* those at which run_pipeline may catch an exception
          Detach,     \* tasks whose descendants may leave their process group
          Editors,    \* bound: tasks that change a worktree at all
          Installers, \* bound: tasks that change the venv at all
          None        \* a file that is not there

Cell == 1 .. Cells
Task == 1 .. MaxTask

Status == {"ok", "error"}

\* A worktree: the edits a diff against HEAD shows, and those it does not:
\* what was committed, and what .gitignore hides from "git add".
Tree == [shown : SUBSET Task, hidden : SUBSET Task]
Pristine == [shown |-> {}, hidden |-> {}]
Edits(w) == w.shown \cup w.hidden

\* What scoring.json and meta.json hold: whose edits the diff shows, which it
\* would have shown when the visible tests began, and all that were there
\* when a test command began.
Scores == [task : Task, diff : SUBSET Task, tested : SUBSET Task, ran : SUBSET Task]
Outcomes == [task : Task, status : Status, mutated : BOOLEAN]

ASSUME CellsAssumption ==
  /\ Cells \in Nat \ {0}
  /\ {MaxTask, MaxFault, MaxRerun, MaxLook} \subseteq Nat
  /\ Filters \subseteq SUBSET Cell
  /\ UNION {Detach, Editors, Installers} \subseteq Task
  /\ None \notin Cell /\ None \notin Scores /\ None \notin Outcomes
  /\ None \notin Tree /\ \A T \in SUBSET Task : T # None

VARIABLES
  repo,     \* repo[c]: the worktree of c, or None
  scoring,  \* scoring[c]: the content of scoring.json, or None
  meta,     \* meta[c]: the content of meta.json, or None
  report,   \* report[c]: the meta.json that report.md shows for c, or None
  venv,     \* tasks that changed which *.dist-info the venv has, or None
  agent,    \* agent[t]: the cell in which processes of task t run, or None
  pc,       \* next step of the harness, "idle" between commands
  cmd,      \* "all", "eval" or "report"
  todo,     \* the cells eval-all was asked for
  cur,      \* the cell at hand; eval-all's position in the matrix
  run,      \* what the harness knows of the cell run in progress
  tasks,    \* tasks started so far
  faults,   \* crashes so far
  reruns,   \* eval commands so far
  strays,   \* <<t, c>>: processes of t were left alive in c, and
  blind,    \* tasks after which the venv was unreadable: for properties only
  look,     \* eval-status: what it does next and what it has seen
  looks     \* eval-status commands so far

files == <<repo, scoring, meta, report>>
history == <<faults, reruns, strays, blind>>
viewer == <<look, looks>>
vars == <<repo, scoring, meta, report, venv, agent, pc, cmd, todo, cur, run,
          tasks, history, viewer>>

\* run_pipeline; while "testing" a test command runs.
Pipeline == {"diff", "test", "testing", "check", "scoring", "meta"}

\* From the start of the adapter to the last file written.
Running == {"wait"} \cup Pipeline

Points == {"idle", "scan", "wipe", "clone", "spawn", "report"} \cup Running

\* A process group of the task at hand is running.
Started == {"wait", "testing"}

NoRun == [task |-> 0, status |-> "error", before |-> {}, mutated |-> FALSE,
          diff |-> {}, tested |-> {}, ran |-> {}, turn |-> "visible",
          failed |-> FALSE]

\* eval-status has not begun.
NoLook == [at |-> "none", cell |-> 1, shown |-> [c \in Cell |-> "unseen"],
           calm |-> FALSE]

Init ==
  /\ repo = [c \in Cell |-> None]
  /\ scoring = [c \in Cell |-> None]
  /\ meta = [c \in Cell |-> None]
  /\ report = [c \in Cell |-> None]
  /\ venv = {}
  /\ agent = [t \in Task |-> None]
  /\ pc = "idle" /\ cmd = "all" /\ todo = {} /\ cur = 1
  /\ run = NoRun
  /\ tasks = 0 /\ faults = 0 /\ reruns = 0 /\ strays = {} /\ blind = {}
  /\ look = NoLook /\ looks = 0

-----------------------------------------------------------------------------
(* cmd_eval_all and cmd_eval                                               *)

\* The command's process is gone, and what it knew with it.
Ended == pc' = "idle" /\ cmd' = "all" /\ todo' = {} /\ cur' = 1 /\ run' = NoRun

\* _do_prepare, before a command that runs cells of this case: it builds a
\* missing venv again (else the command ends here, having done nothing).
Prepare(C) == venv' = IF venv = None /\ C # {} THEN {} ELSE venv

\* eval-all for the cells C its filters and the discovery of frameworks and
\* cases leave; the lock is held until the command ends.
StartOn(C) ==
  /\ pc = "idle"
  /\ Prepare(C)
  /\ pc' = "scan" /\ cmd' = "all" /\ todo' = C /\ cur' = 1
  /\ UNCHANGED <<files, agent, run, tasks, history, viewer>>

StartAll == \E C \in Filters : StartOn(C)

\* eval <framework> <case>: runs the cell again, done or not.
StartEval ==
  /\ pc = "idle" /\ reruns < MaxRerun
  /\ pc' = "wipe" /\ cmd' = "eval" /\ cur' \in Cell
  /\ Prepare({cur'})
  /\ reruns' = reruns + 1
  /\ look' = [look EXCEPT !.calm = FALSE]
  /\ UNCHANGED <<files, agent, todo, run, tasks, faults, strays, blind, looks>>

\* eval-report
StartReport ==
  /\ pc = "idle"
  /\ pc' = "report" /\ cmd' = "report"
  /\ UNCHANGED <<files, venv, agent, todo, cur, run, tasks, history, viewer>>

\* Mutant: done cells are run again.
ScanAgain ==
  /\ pc = "scan"
  /\ IF cur > Cells THEN pc' = "report" ELSE pc' = "wipe"
  /\ UNCHANGED <<files, venv, agent, cmd, todo, cur, run, tasks, history, viewer>>

\* Mutant: a cell whose directory exists is skipped.
ScanSkipsPartial ==
  /\ pc = "scan"
  /\ IF cur > Cells
       THEN pc' = "report" /\ UNCHANGED cur
       ELSE IF cur \notin todo \/ repo[cur] # None
              THEN pc' = "scan" /\ cur' = cur + 1
              ELSE pc' = "wipe" /\ UNCHANGED cur
  /\ UNCHANGED <<files, venv, agent, cmd, todo, run, tasks, history, viewer>>

\* Mutant: the loop ends one cell early.
ScanStopsEarly ==
  /\ pc = "scan"
  /\ IF cur >= Cells
       THEN pc' = "report" /\ UNCHANGED cur
       ELSE IF cur \notin todo \/ meta[cur] # None
              THEN pc' = "scan" /\ cur' = cur + 1
              ELSE pc' = "wipe" /\ UNCHANGED cur
  /\ UNCHANGED <<files, venv, agent, cmd, todo, run, tasks, history, viewer>>

\* Of the cells asked for, one with meta.json is done; the others are run;
\* then the report.
Scan ==
  /\ pc = "scan"
  /\ IF cur > Cells
       THEN pc' = "report" /\ UNCHANGED cur
       ELSE IF cur \notin todo \/ meta[cur] # None
              THEN pc' = "scan" /\ cur' = cur + 1
              ELSE pc' = "wipe" /\ UNCHANGED cur
  /\ UNCHANGED <<files, venv, agent, cmd, todo, run, tasks, history, viewer>>

\* shutil.rmtree(cell_dir) removes the files one by one, in any order.
Wipe ==
  /\ pc = "wipe"
  /\ \/ repo[cur] # None /\ repo' = [repo EXCEPT ![cur] = None]
        /\ UNCHANGED <<scoring, meta>>
     \/ scoring[cur] # None /\ scoring' = [scoring EXCEPT ![cur] = None]
        /\ UNCHANGED <<repo, meta>>
     \/ meta[cur] # None /\ meta' = [meta EXCEPT ![cur] = None]
        /\ UNCHANGED <<repo, scoring>>
  /\ UNCHANGED <<report, venv, agent, pc, cmd, todo, cur, run, tasks, history, viewer>>

Wiped ==
  /\ pc = "wipe"
  /\ repo[cur] = None /\ scoring[cur] = None /\ meta[cur] = None
  /\ pc' = "clone"
  /\ UNCHANGED <<files, venv, agent, cmd, todo, cur, run, tasks, history, viewer>>

-----------------------------------------------------------------------------
(* _run_one_cell and run_cell                                              *)

\* clone_cell_worktree, then the venv's fingerprint before the run.
Clone ==
  /\ pc = "clone"
  /\ repo' = [repo EXCEPT ![cur] = Pristine]
  /\ run' = [NoRun EXCEPT !.before = venv]
  /\ pc' = "spawn"
  /\ UNCHANGED <<scoring, meta, report, venv, agent, cmd, todo, cur, tasks, history, viewer>>

\* The adapter starts with the path of the cell's worktree.
Spawn ==
  /\ pc = "spawn" /\ tasks < MaxTask
  /\ tasks' = tasks + 1
  /\ agent' = [agent EXCEPT ![tasks'] = cur]
  /\ run' = [run EXCEPT !.task = tasks']
  /\ pc' = "wait"
  /\ UNCHANGED <<files, venv, cmd, todo, cur, history, viewer>>

\* framework_misconfigured: no adapter runs, the pipeline does.
Misconfigured ==
  /\ pc = "spawn" /\ tasks < MaxTask
  /\ tasks' = tasks + 1
  /\ run' = [run EXCEPT !.task = tasks', !.status = "error"]
  /\ pc' = "diff"
  /\ UNCHANGED <<files, venv, agent, cmd, todo, cur, history, viewer>>

\* Mutant: an adapter that exited leaves its process group running.
CollectNoKill ==
  /\ pc = "wait"
  /\ \E status \in Status : run' = [run EXCEPT !.status = status]
  /\ pc' = "diff"
  /\ UNCHANGED <<files, venv, agent, cmd, todo, cur, tasks, history, viewer>>

\* terminate_process_tree, which follows every adapter and test command: it
\* ends the process group, which a detached descendant has left.
EndGroup ==
  /\ \/ agent' = [agent EXCEPT ![run.task] = None] /\ UNCHANGED strays
     \/ run.task \in Detach /\ UNCHANGED agent
        /\ strays' = strays \cup {<<run.task, cur>>}
  /\ UNCHANGED <<faults, reruns, blind>>

\* The adapter exited or its time is over.
Collect ==
  /\ pc = "wait"
  /\ \E status \in Status : run' = [run EXCEPT !.status = status]
  /\ EndGroup
  /\ pc' = "diff"
  /\ UNCHANGED <<files, venv, cmd, todo, cur, tasks, viewer>>

-----------------------------------------------------------------------------
(* run_pipeline                                                            *)

\* derive_canonical_diff: everything added to an index of HEAD, against HEAD.
DeriveDiff ==
  /\ pc = "diff"
  /\ run' = [run EXCEPT !.diff = repo[cur].shown]
  /\ pc' = "test"
  /\ UNCHANGED <<files, venv, agent, cmd, todo, cur, tasks, history, viewer>>

\* run_test_command: the visible tests, then the hidden ones, begin on the
\* worktree as it is by now.
StartTest ==
  /\ pc = "test"
  /\ run' = [run EXCEPT
       !.tested = IF run.turn = "visible" THEN repo[cur].shown ELSE @,
       !.ran = @ \cup Edits(repo[cur])]
  /\ agent' = [agent EXCEPT ![run.task] = cur]
  /\ pc' = "testing"
  /\ UNCHANGED <<files, venv, cmd, todo, cur, tasks, history, viewer>>

\* The command exited or its time is over; a case may have no hidden tests.
EndTest ==
  /\ pc = "testing"
  /\ EndGroup
  /\ \/ pc' = "check" /\ UNCHANGED run
     \/ pc' = "test" /\ run.turn = "visible"
        /\ run' = [run EXCEPT !.turn = "hidden"]
  /\ UNCHANGED <<files, venv, cmd, todo, cur, tasks, viewer>>

\* The processes nobody waits for any more when the harness gives up at pc.
Abandoned == IF pc \in Started THEN {<<run.task, cur>>} ELSE {}

\* Mutant: the failure artifacts keep the diff derived so far.
PipelineFailsKeepsDiff ==
  /\ pc \in Pipeline \cap FailIn /\ ~run.failed
  /\ run' = [run EXCEPT !.status = "error", !.tested = {}, !.ran = {},
                        !.failed = TRUE]
  /\ strays' = strays \cup Abandoned
  /\ pc' = "check"
  /\ UNCHANGED <<files, venv, agent, cmd, todo, cur, tasks, faults, reruns, blind, viewer>>

\* An exception in any step: _write_pipeline_failure_artifacts scores an
\* empty diff, over what was written before.
PipelineFails ==
  /\ pc \in Pipeline \cap FailIn /\ ~run.failed
  /\ run' = [run EXCEPT !.status = "error", !.diff = {}, !.tested = {},
                        !.ran = {}, !.failed = TRUE]
  /\ strays' = strays \cup Abandoned
  /\ pc' = "check"
  /\ UNCHANGED <<files, venv, agent, cmd, todo, cur, tasks, faults, reruns, blind, viewer>>

\* Mutant: the mutation check compares with a fingerprint taken too late.
CheckVenvLate ==
  /\ pc = "check"
  /\ run' = [run EXCEPT !.before = venv, !.mutated = FALSE]
  /\ pc' = "scoring"
  /\ UNCHANGED <<files, venv, agent, cmd, todo, cur, tasks, history, viewer>>

\* venv_mutated: the names of the venv's *.dist-info differ from those before
\* the run.  A venv that is gone passes for unchanged; so does, after a
\* failure, one that cannot be read (before it, that is such a failure).
CheckVenv ==
  /\ pc = "check"
  /\ \/ run' = [run EXCEPT !.mutated = venv # None /\ venv # run.before]
        /\ UNCHANGED blind
     \/ run.failed /\ run' = [run EXCEPT !.mutated = FALSE]
        /\ blind' = blind \cup {run.task}
  /\ pc' = "scoring"
  /\ UNCHANGED <<files, venv, agent, cmd, todo, cur, tasks, faults, reruns, strays, viewer>>

Scored == [task |-> run.task, diff |-> run.diff, tested |-> run.tested,
           ran |-> run.ran]
Outcome == [task |-> run.task, status |-> run.status, mutated |-> run.mutated]

CellDone == pc' = (IF cmd = "all" THEN "scan" ELSE "report") /\ run' = NoRun

\* Mutant: meta.json first, then scoring.json.
WriteMetaFirst ==
  /\ pc = "scoring"
  /\ meta' = [meta EXCEPT ![cur] = Outcome]
  /\ pc' = "meta"
  /\ UNCHANGED <<repo, scoring, report, venv, agent, cmd, todo, cur, run, tasks, history, viewer>>

\* write_meta_json: scoring.json first,
WriteScoring ==
  /\ pc = "scoring"
  /\ scoring' = [scoring EXCEPT ![cur] = Scored]
  /\ pc' = "meta"
  /\ UNCHANGED <<repo, meta, report, venv, agent, cmd, todo, cur, run, tasks, history, viewer>>

\* then meta.json, the sentinel that says the cell is done.
WriteMeta ==
  /\ pc = "meta"
  /\ meta' = [meta EXCEPT ![cur] = Outcome]
  /\ CellDone
  /\ UNCHANGED <<repo, scoring, report, venv, agent, cmd, todo, cur, tasks, history, viewer>>

\* write_report: the command ends with status 0.
WriteReport ==
  /\ pc = "report"
  /\ report' = meta
  /\ Ended
  /\ UNCHANGED <<repo, scoring, meta, venv, agent, tasks, history, viewer>>

-----------------------------------------------------------------------------
(* The environment.                                                        *)

\* The harness is killed, or interrupted (Ctrl-C kills no agent), or ends
\* with an exception nobody catches: a failing rmtree, git clone or write.
Crash ==
  /\ pc \in CrashIn /\ faults < MaxFault
  /\ Ended /\ faults' = faults + 1
  /\ strays' = strays \cup Abandoned
  /\ UNCHANGED <<files, venv, agent, tasks, reruns, blind, viewer>>

\* A process of task t changes the worktree at the path it was given, if
\* there is one: it adds edits of its own, and undoes, commits or ignores any
\* that are there.
Writes(t) ==
  /\ t \in Editors /\ agent[t] # None
  /\ repo[agent[t]] # None
  /\ \E S, H \in SUBSET (Edits(repo[agent[t]]) \cup {t}) :
       repo' = [repo EXCEPT ![agent[t]] = [shown |-> S, hidden |-> H]]
  /\ UNCHANGED <<scoring, meta, report, venv, agent, pc, cmd, todo, cur, run, tasks, history, viewer>>

\* It installs or uninstalls packages in the venv it was given, or removes
\* the venv, or builds it again.
Installs(t) ==
  /\ t \in Installers /\ agent[t] # None
  /\ LET names == IF venv = None THEN {} ELSE venv
     IN venv' \in {None} \cup SUBSET (names \cup {t})
  /\ UNCHANGED <<files, agent, pc, cmd, todo, cur, run, tasks, history, viewer>>

\* Processes nobody waits for end by themselves.
OrphanEnds(t) ==
  /\ agent[t] # None
  /\ ~(pc \in Started /\ run.task = t)
  /\ agent' = [agent EXCEPT ![t] = None]
  /\ UNCHANGED <<files, venv, pc, cmd, todo, cur, run, tasks, history, viewer>>

-----------------------------------------------------------------------------
(* eval-status, which takes no lock: render_status and _classify_cell.     *)

harness == <<files, venv, agent, pc, cmd, todo, cur, run, tasks, history>>

Look(r) == look' = r /\ UNCHANGED <<harness, looks>>

\* Nothing disturbs it if no eval is under way or begins.
StartStatus ==
  /\ look.at \in {"none", "shown", "failed"} /\ looks < MaxLook
  /\ looks' = looks + 1
  /\ look' = [NoLook EXCEPT !.at = "exists", !.calm = pc = "idle" \/ cmd # "eval"]
  /\ UNCHANGED harness

\* Is there a meta.json?  ("undone" is the status "partial" or "missing".)
MetaExists ==
  /\ look.at = "exists"
  /\ LET c == look.cell
     IN IF c > Cells THEN Look([look EXCEPT !.at = "reasons", !.cell = 1])
        ELSE IF meta[c] # None THEN Look([look EXCEPT !.at = "read"])
        ELSE Look([look EXCEPT !.cell = c + 1, !.shown[c] = "undone"])

\* It is read in a call of its own; nobody catches FileNotFoundError.
ReadMeta ==
  /\ look.at = "read"
  /\ LET c == look.cell
     IN IF meta[c] = None THEN Look([look EXCEPT !.at = "failed"])
        ELSE Look([look EXCEPT !.at = "exists", !.cell = c + 1,
                               !.shown[c] = meta[c].status])

\* In the end the cells with errors are read again for their reasons.
ReadReason ==
  /\ look.at = "reasons"
  /\ LET c == look.cell
     IN IF c > Cells THEN Look([look EXCEPT !.at = "shown"])
        ELSE IF look.shown[c] = "error" /\ meta[c] = None
               THEN Look([look EXCEPT !.at = "failed"])
        ELSE Look([look EXCEPT !.cell = c + 1])

EvalStatus == StartStatus \/ MetaExists \/ ReadMeta \/ ReadReason

-----------------------------------------------------------------------------

Harness ==
  \/ Scan \/ Wipe \/ Wiped \/ Clone \/ Spawn \/ Misconfigured \/ Collect
  \/ DeriveDiff \/ StartTest \/ EndTest \/ PipelineFails \/ CheckVenv
  \/ WriteScoring \/ WriteMeta \/ WriteReport

Next ==
  \/ StartAll \/ StartEval \/ StartReport \/ Harness \/ Crash \/ EvalStatus
  \/ \E t \in Task : Writes(t) \/ Installs(t) \/ OrphanEnds(t)

Spec == Init /\ [][Next]_vars

\* A running command proceeds (every wait is bounded by a timeout), and the
\* operator runs eval-all, unfiltered and with every framework and case still
\* there, again and again, whatever else is run in between.
FairSpec == Spec /\ WF_vars(Harness) /\ SF_vars(StartOn(Cell))

-----------------------------------------------------------------------------
(* Properties                                                              *)

\* What the harness knows of a cell run, and what eval-status has seen.
Runs == [task : 0 .. MaxTask, status : Status, before : {None} \cup SUBSET Task,
         mutated : BOOLEAN, diff : SUBSET Task, tested : SUBSET Task,
         ran : SUBSET Task, turn : {"visible", "hidden"}, failed : BOOLEAN]
Looks == [at : {"none", "exists", "read", "reasons", "shown", "failed"},
          cell : 1 .. Cells + 1, calm : BOOLEAN,
          shown : [Cell -> {"unseen", "undone"} \cup Status]]

\* Types of the state; a run that writes its results has a task and a
\* worktree.
TypeOK ==
  /\ repo \in [Cell -> {None} \cup Tree]
  /\ scoring \in [Cell -> {None} \cup Scores]
  /\ meta \in [Cell -> {None} \cup Outcomes]
  /\ report \in [Cell -> {None} \cup Outcomes]
  /\ venv \in {None} \cup SUBSET Task
  /\ agent \in [Task -> Cell \cup {None}]
  /\ pc \in Points /\ cmd \in {"all", "eval", "report"}
  /\ todo \subseteq Cell /\ cur \in 1 .. Cells + 1
  /\ pc \notin {"idle", "scan", "report"} => cur \in Cell
  /\ pc \in {"spawn"} \cup Running => repo[cur] # None
  /\ run \in Runs
  /\ pc \in Running => run.task = tasks /\ run.task # 0
  /\ tasks \in 0 .. MaxTask /\ faults \in 0 .. MaxFault /\ reruns \in 0 .. MaxRerun
  /\ strays \subseteq Task \X Cell /\ blind \subseteq Task
  /\ look \in Looks
  /\ look.at = "read" => look.cell \in Cell
  /\ looks \in 0 .. MaxLook

\* write_meta_json, resume: a cell that has meta.json, and so is never run
\* again by eval-all, has the scoring.json of the same task (unless it is
\* being wiped).
DoneMeansScored ==
  \A c \in Cell : meta[c] # None /\ ~(pc = "wipe" /\ cur = c) =>
    scoring[c] # None /\ scoring[c].task = meta[c].task

\* cmd_eval_all: no eval-all, whatever crashed before it, changes a done
\* cell: its worktree, scoring.json and meta.json stay as they are.
DoneCellsKept ==
  [][\A c \in Cell : cmd = "all" /\ pc # "idle" /\ meta[c] # None =>
       meta'[c] = meta[c] /\ scoring'[c] = scoring[c]
       /\ (repo'[c] = None <=> repo[c] = None)]_vars

\* The tasks the harness left alive in the worktree of c: their descendants
\* left the process group, or the harness was gone or gave up while they ran.
Strays(c) == {t \in Task : <<t, c>> \in strays}

\* run_cell, run_pipeline: what is scored in a cell, and what the tests are
\* run on, is the work of the scored task alone (of its agent and its tests),
\* but for what was left alive in that cell.
ScoredOwnEdits ==
  \A c \in Cell : scoring[c] # None =>
    scoring[c].diff \cup scoring[c].ran \subseteq {scoring[c].task} \cup Strays(c)

\* run_pipeline: the edits that a diff would show when the visible tests begin
\* are those the diff shows, unless something was left alive in that cell.
TestedWhatIsDiffed ==
  \A c \in Cell : scoring[c] # None /\ Strays(c) = {} =>
    scoring[c].tested = scoring[c].diff

\* write_report: a command that ends normally leaves a report of the
\* campaign's present results, and after eval-all each cell it was asked for
\* has one.
ReportCurrent ==
  [][pc = "report" /\ pc' = "idle" /\ faults' = faults =>
       report' = meta' /\ (cmd = "all" => \A c \in todo : meta[c] # None)]_vars

\* Task t has changed which *.dist-info the venv has.
Changed(t) == venv # None /\ t \in venv

\* venv_mutated: a cell whose own task changed the packages of the shared venv
\* says so, whatever else changed it before or since and whatever crashed or
\* was run again, unless that task was left alive (and may have done it
\* afterwards) or the pipeline failed and could not read the venv.
VenvMutationFlagged ==
  \A c \in Cell : meta[c] # None /\ Changed(meta[c].task) =>
    \/ meta[c].mutated
    \/ \E d \in Cell : <<meta[c].task, d>> \in strays
    \/ meta[c].task \in blind

\* The same for the matrix: when eval-all filled it without an interruption
\* and some task changed the venv's packages, which was not left alive and
\* after which the venv could be read, a cell is flagged.
MatrixFlagged ==
  (/\ faults = 0 /\ reruns = 0
   /\ pc = "idle" /\ \A c \in Cell : meta[c] # None
   /\ \E t \in Task \ blind : Changed(t) /\ \A c \in Cell : <<t, c>> \notin strays)
    => \E c \in Cell : meta[c].mutated

\* render_status: although eval-status looks at every file twice without a
\* lock, beside eval-all and its crashes it never meets a vanished file, and
\* a cell it has shown as done stays so, with the result shown.  Only an eval
\* can remove a file under it.
StatusLasting ==
  look.calm =>
    /\ look.at # "failed"
    /\ \A c \in Cell : look.shown[c] \in Status =>
         meta[c] # None /\ meta[c].status = look.shown[c]

\* Resume: rerunning eval-all fills the matrix in spite of crashes.
MatrixFilled == <>[](\A c \in Cell : meta[c] # None)
=============================================================================
