--------------------------- MODULE EvalCellsProofs ---------------------------
(***************************************************************************)
(* Proofs about the cells of a campaign, for any number of cells, agent    *)
(* runs, crashes, evals and looks of eval-status.                          *)
(*                                                                         *)
(* CellInv holds whatever crashes where.  It says how far eval-all has     *)
(* come in the matrix and that the cell at hand is not done; what done     *)
(* cells keep, what the report shows and what eval-status sees follow from *)
(* it.  What the scores are worth (OwnInv) and what is told of the venv    *)
(* (VenvInv) hold up to the agents and tests the harness left alive, which *)
(* the history variable strays names, wherever it is killed or fails.      *)
(***************************************************************************)
EXTENDS EvalCells, TLAPS

InCell == {"wipe", "clone", "spawn"} \cup Running

\* eval-all works through the matrix in order, on cells that are not done.
MatrixInv ==
  /\ pc \in InCell \ {"wipe"} => meta[cur] = None
  /\ pc \in InCell /\ cmd = "all" => meta[cur] = None
  /\ pc \in InCell => cmd # "report"
  /\ pc = "scan" => cmd = "all"
  /\ cmd = "eval" => reruns > 0
  /\ cmd = "all" /\ pc # "idle" => \A c \in todo : c < cur => meta[c] # None
  /\ cmd = "all" /\ pc = "report" => cur > Cells

CellInv == TypeOK /\ MatrixInv

\* What eval-status has seen is there, unless an eval disturbs it.
ViewInv ==
  /\ look.calm => pc = "idle" \/ cmd # "eval"
  /\ look.calm /\ look.at = "read" => meta[look.cell] # None
  /\ StatusLasting

\* No half wiped cell is left behind that was done before.
SafeWipe == "wipe" \notin CrashIn \/ MaxRerun = 0

ScoreInv ==
  /\ DoneMeansScored
  /\ pc = "meta" => scoring[cur] # None /\ scoring[cur].task = run.task

\* Every process of a task ends with the wait for it.
Contained == Detach = {} /\ Started \cap (CrashIn \cup FailIn) = {}
NoStrays == strays = {}

\* The visible tests have begun.
Begun == \/ pc \in {"testing", "check", "scoring", "meta"}
         \/ pc = "test" /\ run.turn = "hidden"

\* A process that runs is waited for or was left alive, so what is in the
\* worktree of the cell at hand besides the task's own work is of the latter.
OwnInv ==
  /\ \A t \in Task : agent[t] # None =>
       \/ pc \in Started /\ run.task = t /\ agent[t] = cur
       \/ <<t, agent[t]>> \in strays
  /\ pc = "spawn" => Edits(repo[cur]) \subseteq Strays(cur)
  /\ pc \in Running => Edits(repo[cur]) \subseteq {run.task} \cup Strays(cur)
  /\ pc \in {"spawn", "wait", "diff"} => run.ran = {} /\ run.turn = "visible"
  /\ pc \in Pipeline \ {"diff"} =>
       run.diff \cup run.ran \subseteq {run.task} \cup Strays(cur)
  /\ pc = "test" /\ ~Begun /\ Strays(cur) = {} => run.diff = repo[cur].shown
  /\ Begun /\ Strays(cur) = {} => run.tested = run.diff
  /\ ScoredOwnEdits
  /\ TestedWhatIsDiffed

\* The task at hand is a new one.
Fresh ==
  /\ \A t \in Task : agent[t] # None => t <= tasks
  /\ \A t \in Task : Changed(t) => t <= tasks
  /\ \A c \in Cell : meta[c] # None => meta[c].task <= tasks
  /\ pc = "spawn" /\ run.before # None => \A t \in run.before : t <= tasks
  /\ pc \in Running =>
       /\ run.before # None => run.task \notin run.before
       /\ \A c \in Cell : meta[c] # None => meta[c].task # run.task

\* Nothing more can be said of what task t did to the venv.
Excused(t) == t \in blind \/ \E d \in Cell : <<t, d>> \in strays

\* From the comparison on a change of the venv by the task at hand is known.
VenvInv ==
  /\ pc \in {"scoring", "meta"} =>
       (Changed(run.task) => run.mutated \/ Excused(run.task))
  /\ \A c \in Cell : meta[c] # None =>
       (Changed(meta[c].task) => meta[c].mutated \/ Excused(meta[c].task))

\* Without a crash and without an eval every task has its result, or will.
Accounted ==
  faults = 0 /\ reruns = 0 =>
    \A t \in 1 .. tasks :
      \/ pc \in Running /\ run.task = t
      \/ \E c \in Cell : meta[c] # None /\ meta[c].task = t

-----------------------------------------------------------------------------
(* Type correctness.                                                       *)

LEMMA Facts ==
  /\ Cells \in Nat /\ Cells > 0
  /\ MaxTask \in Nat /\ MaxFault \in Nat /\ MaxRerun \in Nat /\ MaxLook \in Nat
  /\ None \notin Cell /\ None \notin Scores /\ None \notin Outcomes
  /\ None \notin Tree
BY CellsAssumption

LEMMA NoneIsNoSet == \A T : T \subseteq Task => T # None
BY CellsAssumption

LEMMA TreeFields ==
  ASSUME NEW w \in Tree
  PROVE  w.shown \subseteq Task /\ w.hidden \subseteq Task /\ Edits(w) \subseteq Task
BY DEF Tree, Edits

LEMMA NoRunType == NoRun \in Runs
BY Facts DEF NoRun, Runs, Status

LEMMA TypeOKInit == Init => TypeOK
<1> SUFFICES ASSUME Init PROVE TypeOK
  OBVIOUS
<1> USE Facts DEF Init
<1>1. run \in Runs
  BY NoRunType
<1>2. look \in Looks
  BY DEF NoLook, Looks, Cell
<1>3. cur \in 1 .. Cells + 1 /\ faults \in 0 .. MaxFault
  OBVIOUS
<1>4. tasks \in 0 .. MaxTask /\ reruns \in 0 .. MaxRerun /\ looks \in 0 .. MaxLook
  OBVIOUS
<1> QED
  BY <1>1, <1>2, <1>3, <1>4 DEF TypeOK, Points, Running, Pipeline, NoLook

\* What the harness knows of the run.
LEMMA RunFields ==
  ASSUME run \in Runs
  PROVE  /\ run.task \in 0 .. MaxTask /\ run.status \in Status
         /\ run.before \in {None} \cup SUBSET Task /\ run.mutated \in BOOLEAN
         /\ run.diff \subseteq Task /\ run.tested \subseteq Task
         /\ run.ran \subseteq Task /\ run.turn \in {"visible", "hidden"}
BY DEF Runs

LEMMA TypeOKHarness == TypeOK /\ Harness => TypeOK'
<1> SUFFICES ASSUME TypeOK, Harness PROVE TypeOK'
  OBVIOUS
<1> USE Facts DEF TypeOK, files, history, viewer
<1>1. CASE Scan
  <2>1. UNCHANGED <<files, venv, agent, cmd, todo, run, tasks, history, viewer>>
    BY <1>1 DEF Scan
  <2>2. /\ pc' \in {"report", "scan", "wipe"} /\ cur' \in 1 .. Cells + 1
        /\ pc' = "wipe" => cur' \in Cell
    BY <1>1 DEF Scan, Cell
  <2> HIDE Facts
  <2> QED
    BY <2>1, <2>2 DEF Points, Running, Pipeline
<1>2. CASE Wipe \/ Wiped
  <2>1. /\ UNCHANGED <<report, venv, agent, cmd, todo, cur, run, tasks, history, viewer>>
        /\ pc' \in {"wipe", "clone"} /\ cur \in Cell
    BY <1>2 DEF Wipe, Wiped, files, Running
  <2>2. /\ repo' \in [Cell -> {None} \cup Tree]
        /\ scoring' \in [Cell -> {None} \cup Scores]
        /\ meta' \in [Cell -> {None} \cup Outcomes]
    BY <1>2, <2>1 DEF Wipe, Wiped
  <2> HIDE Facts
  <2> QED
    BY <2>1, <2>2 DEF Points, Running, Pipeline
<1>3. CASE Clone
  <2>1. cur \in Cell
    BY <1>3 DEF Clone
  <2>2. Pristine \in Tree /\ Pristine # None
    BY DEF Pristine, Tree
  <2>3. repo' \in [Cell -> {None} \cup Tree] /\ repo'[cur] # None
    BY <1>3, <2>1, <2>2 DEF Clone
  <2>4. run' \in Runs
    BY <1>3, NoRunType DEF Clone, Runs
  <2>5. UNCHANGED <<scoring, meta, report, venv, agent, cmd, todo, cur, tasks, faults,
                    reruns, strays, blind, look, looks>> /\ pc' = "spawn"
    BY <1>3 DEF Clone
  <2> QED
    BY <2>1, <2>3, <2>4, <2>5 DEF Points, Running, Pipeline
<1>4. CASE Spawn
  <2>1. tasks' \in Task /\ tasks' # 0 /\ tasks' \in 0 .. MaxTask
    BY <1>4 DEF Spawn, Task
  <2>2. cur \in Cell
    BY <1>4 DEF Spawn
  <2>3. agent' \in [Task -> Cell \cup {None}]
    BY <1>4, <2>1, <2>2 DEF Spawn
  <2>4. run' \in Runs /\ run'.task = tasks'
    BY <1>4, <2>1 DEF Spawn, Runs
  <2> QED
    BY <1>4, <2>1, <2>2, <2>3, <2>4 DEF Spawn, Points, Running, Pipeline
<1>5. CASE Misconfigured
  <2>1. tasks' # 0 /\ tasks' \in 0 .. MaxTask
    BY <1>5 DEF Misconfigured
  <2>2. run' \in Runs /\ run'.task = tasks'
    BY <1>5, <2>1 DEF Misconfigured, Runs, Status
  <2> QED
    BY <1>5, <2>1, <2>2 DEF Misconfigured, Points, Running, Pipeline
<1>6. CASE Collect
  <2>1. run.task \in Task /\ cur \in Cell
    BY <1>6 DEF Collect, Task, Running
  <2>2. agent' \in [Task -> Cell \cup {None}] /\ strays' \subseteq Task \X Cell
    BY <1>6, <2>1 DEF Collect, EndGroup
  <2>3. run' \in Runs /\ run'.task = run.task
    BY <1>6 DEF Collect, Runs
  <2> QED
    BY <1>6, <2>2, <2>3 DEF Collect, EndGroup, Points, Running, Pipeline
<1>7. CASE DeriveDiff
  <2>1. repo[cur].shown \in SUBSET Task
    BY <1>7, TreeFields DEF DeriveDiff, Running, Pipeline
  <2>2. run' \in Runs /\ run'.task = run.task
    BY <1>7, <2>1 DEF DeriveDiff, Runs
  <2> QED
    BY <1>7, <2>2 DEF DeriveDiff, Points, Running, Pipeline
<1>8. CASE StartTest
  <2>1. run.task \in Task /\ cur \in Cell /\ repo[cur] \in Tree
    BY <1>8 DEF StartTest, Task, Running, Pipeline
  <2> DEFINE T == IF run.turn = "visible" THEN repo[cur].shown ELSE run.tested
  <2>2. T \in SUBSET Task /\ run.ran \cup Edits(repo[cur]) \in SUBSET Task
    BY <2>1, TreeFields, RunFields
  <2>3. run' = [run EXCEPT !.tested = T, !.ran = run.ran \cup Edits(repo[cur])]
    BY <1>8 DEF StartTest
  <2>4. run' \in Runs /\ run'.task = run.task
    BY <2>2, <2>3 DEF Runs
  <2>5. agent' \in [Task -> Cell \cup {None}]
    BY <1>8, <2>1 DEF StartTest
  <2> QED
    BY <1>8, <2>4, <2>5 DEF StartTest, Points, Running, Pipeline
<1>14. CASE EndTest
  <2>1. run.task \in Task /\ cur \in Cell
    BY <1>14 DEF EndTest, Task, Running, Pipeline
  <2>2. agent' \in [Task -> Cell \cup {None}] /\ strays' \subseteq Task \X Cell
    BY <1>14, <2>1 DEF EndTest, EndGroup
  <2>3. run' \in Runs /\ run'.task = run.task
    BY <1>14 DEF EndTest, Runs
  <2> QED
    BY <1>14, <2>2, <2>3 DEF EndTest, EndGroup, Points, Running, Pipeline
<1>9. CASE PipelineFails
  <2>1. run' \in Runs /\ run'.task = run.task
    BY <1>9 DEF PipelineFails, Runs, Status
  <2>2. run.task \in Task /\ cur \in Cell
    BY <1>9, RunFields DEF PipelineFails, Task, Running, Pipeline
  <2>3. strays' \subseteq Task \X Cell
    BY <1>9, <2>2 DEF PipelineFails, Abandoned
  <2> QED
    BY <1>9, <2>1, <2>3 DEF PipelineFails, Points, Running, Pipeline
<1>10. CASE CheckVenv
  <2>1. run' \in Runs /\ run'.task = run.task
    <3>1. \A b \in BOOLEAN : [run EXCEPT !.mutated = b] \in Runs
      BY DEF Runs
    <3>2. (venv # None /\ venv # run.before) \in BOOLEAN
      OBVIOUS
    <3>3. \E b \in BOOLEAN : run' = [run EXCEPT !.mutated = b]
      BY <1>10, <3>2 DEF CheckVenv
    <3> QED
      BY <3>1, <3>3 DEF Runs
  <2>2. run.task \in Task
    BY <1>10 DEF CheckVenv, Task, Running, Pipeline
  <2> QED
    BY <1>10, <2>1, <2>2 DEF CheckVenv, Points, Running, Pipeline
<1>11. CASE WriteScoring
  <2>1. run.task \in Task /\ cur \in Cell
    BY <1>11, RunFields DEF WriteScoring, Task, Running, Pipeline
  <2>2. Scored \in Scores
    BY <2>1, RunFields DEF Scored, Scores
  <2>3. scoring' \in [Cell -> {None} \cup Scores]
    BY <1>11, <2>1, <2>2 DEF WriteScoring
  <2> QED
    BY <1>11, <2>1, <2>3 DEF WriteScoring, Points, Running, Pipeline
<1>12. CASE WriteMeta
  <2>1. run.task \in Task /\ cur \in Cell
    BY <1>12, RunFields DEF WriteMeta, Task, Running, Pipeline
  <2>2. Outcome \in Outcomes
    BY <2>1, RunFields DEF Outcome, Outcomes
  <2>3. meta' \in [Cell -> {None} \cup Outcomes]
    BY <1>12, <2>1, <2>2 DEF WriteMeta
  <2>4. pc' \in {"scan", "report"} /\ run' = NoRun /\ run' \in Runs
    BY <1>12, NoRunType DEF WriteMeta, CellDone
  <2>5. UNCHANGED <<repo, scoring, report, venv, agent, cmd, todo, cur, tasks, faults,
                    reruns, strays, blind, look, looks>>
    BY <1>12 DEF WriteMeta
  <2> QED
    BY <2>1, <2>3, <2>4, <2>5 DEF Points, Running, Pipeline
<1>13. CASE WriteReport
  BY <1>13, NoRunType DEF WriteReport, Ended, Points, Running, Pipeline
<1> QED
  BY <1>1, <1>2, <1>3, <1>4, <1>5, <1>6, <1>7, <1>8, <1>9, <1>10, <1>11,
     <1>12, <1>13, <1>14 DEF Harness

LEMMA TypeOKLook == TypeOK /\ EvalStatus => TypeOK'
<1>0. EvalStatus => UNCHANGED harness
  BY DEF EvalStatus, StartStatus, MetaExists, ReadMeta, ReadReason, Look
<1> SUFFICES ASSUME TypeOK, EvalStatus
             PROVE  /\ look' \in Looks /\ looks' \in 0 .. MaxLook
                    /\ look'.at = "read" => look'.cell \in Cell
  BY <1>0 DEF TypeOK, harness, files, history
<1> USE Facts DEF TypeOK
<1>1. /\ look.at \in {"none", "exists", "read", "reasons", "shown", "failed"}
      /\ look.cell \in 1 .. Cells + 1 /\ look.calm \in BOOLEAN
      /\ look.shown \in [Cell -> {"unseen", "undone"} \cup Status]
  BY DEF Looks
<1>2. CASE StartStatus
  <2>1. NoLook \in Looks
    BY DEF NoLook, Looks, Cell
  <2> DEFINE b == pc = "idle" \/ cmd # "eval"
  <2>2. b \in BOOLEAN
    OBVIOUS
  <2>3. look' = [NoLook EXCEPT !.at = "exists", !.calm = b]
    BY <1>2 DEF StartStatus
  <2> HIDE DEF b
  <2>4. look' \in Looks /\ look'.at = "exists"
    BY <2>1, <2>2, <2>3 DEF Looks
  <2> QED
    BY <1>2, <2>4 DEF StartStatus
<1>3. CASE MetaExists
  <2> DEFINE c == look.cell
  <2>1. CASE c > Cells
    <3>1. look' = [look EXCEPT !.at = "reasons", !.cell = 1] /\ looks' = looks
      BY <1>3, <2>1 DEF MetaExists, Look
    <3>2. 1 \in 1 .. Cells + 1
      OBVIOUS
    <3> QED
      BY <3>1, <3>2 DEF Looks
  <2>2. CASE ~(c > Cells)
    <3>1. c \in Cell /\ c + 1 \in 1 .. Cells + 1
      BY <1>1, <2>2 DEF Cell
    <3>2. look' \in {[look EXCEPT !.at = "read"],
                     [look EXCEPT !.cell = c + 1, !.shown[c] = "undone"]}
      BY <1>3, <2>2 DEF MetaExists, Look
    <3>3. look.at = "exists" /\ looks' = looks
      BY <1>3, <2>2 DEF MetaExists, Look
    <3>4. CASE look' = [look EXCEPT !.at = "read"]
      BY <3>1, <3>3, <3>4 DEF Looks
    <3>5. CASE look' = [look EXCEPT !.cell = c + 1, !.shown[c] = "undone"]
      BY <1>1, <3>1, <3>3, <3>5 DEF Looks
    <3> QED
      BY <3>2, <3>4, <3>5
  <2> QED
    BY <2>1, <2>2
<1>4. CASE ReadMeta
  <2>1. look.cell \in Cell
    BY <1>4 DEF ReadMeta
  <2>2. CASE meta[look.cell] = None
    BY <1>1, <1>4, <2>2 DEF ReadMeta, Look, Looks
  <2>3. CASE meta[look.cell] # None
    <3>1. meta[look.cell].status \in Status
      BY <2>1, <2>3 DEF Outcomes
    <3>2. look' = [look EXCEPT !.at = "exists", !.cell = look.cell + 1,
                      !.shown[look.cell] = meta[look.cell].status]
      BY <1>4, <2>3 DEF ReadMeta, Look
    <3>3. look.cell + 1 \in 1 .. Cells + 1
      BY <2>1 DEF Cell
    <3> QED
      BY <1>1, <1>4, <2>1, <3>1, <3>2, <3>3 DEF ReadMeta, Look, Looks
  <2> QED
    BY <2>2, <2>3
<1>5. CASE ReadReason
  BY <1>1, <1>5 DEF ReadReason, Look, Looks
<1> QED
  BY <1>2, <1>3, <1>4, <1>5 DEF EvalStatus

LEMMA TypeOKNext == TypeOK /\ [Next]_vars => TypeOK'
<1> SUFFICES ASSUME TypeOK, [Next]_vars PROVE TypeOK'
  OBVIOUS
<1> USE Facts DEF TypeOK, files, history, viewer
<1>1. CASE StartAll
  <2>1. PICK C \in Filters : StartOn(C)
    BY <1>1 DEF StartAll
  <2>2. C \subseteq Cell /\ venv' \in {None} \cup SUBSET Task
    BY <2>1, CellsAssumption DEF StartOn, Prepare
  <2> QED
    BY <2>1, <2>2 DEF StartOn, Points, Running, Pipeline
<1>2. CASE StartEval
  <2>1. look' \in Looks /\ look'.at = look.at /\ look'.cell = look.cell
    BY <1>2 DEF StartEval, Looks
  <2>2. cur' \in Cell /\ cur' \in 1 .. Cells + 1 /\ venv' \in {None} \cup SUBSET Task
    BY <1>2 DEF StartEval, Prepare, Cell
  <2> QED
    BY <1>2, <2>1, <2>2 DEF StartEval, Points, Running, Pipeline
<1>3. CASE StartReport
  BY <1>3 DEF StartReport, Points, Running, Pipeline
<1>4. CASE Crash
  <2>1. strays' \subseteq Task \X Cell
    <3>1. pc \in Started => run.task \in Task /\ cur \in Cell
      BY RunFields DEF Started, Task, Running, Pipeline
    <3> QED
      BY <1>4, <3>1 DEF Crash, Abandoned
  <2> QED
    BY <1>4, <2>1, NoRunType DEF Crash, Ended, Points, Running, Pipeline
<1>5. ASSUME NEW t \in Task, Writes(t) PROVE TypeOK'
  <2>1. agent[t] \in Cell /\ repo[agent[t]] \in Tree
    BY <1>5 DEF Writes
  <2>2. PICK S, H \in SUBSET (Edits(repo[agent[t]]) \cup {t}) :
          repo' = [repo EXCEPT ![agent[t]] = [shown |-> S, hidden |-> H]]
    BY <1>5 DEF Writes
  <2>3. S \subseteq Task /\ H \subseteq Task
    BY <2>1, <2>2, TreeFields
  <2>4. [shown |-> S, hidden |-> H] \in Tree
    BY <2>3 DEF Tree
  <2>5. repo' \in [Cell -> {None} \cup Tree] /\ repo'[agent[t]] # None
    BY <2>1, <2>2, <2>4
  <2>6. \A c \in Cell : repo[c] # None => repo'[c] # None
    BY <2>1, <2>2, <2>5
  <2>7. pc' \in {"spawn"} \cup Running => repo'[cur'] # None
    BY <1>5, <2>6 DEF Writes, Running, Pipeline
  <2> QED
    BY <1>5, <2>5, <2>7 DEF Writes
<1>6. ASSUME NEW t \in Task, Installs(t) \/ OrphanEnds(t) PROVE TypeOK'
  BY <1>6 DEF Installs, OrphanEnds
<1>7. CASE UNCHANGED vars
  BY <1>7 DEF vars
<1> QED
  BY <1>1, <1>2, <1>3, <1>4, <1>5, <1>6, <1>7, TypeOKHarness, TypeOKLook
  DEF Next

\* Type correctness of the matrix, the cell run and eval-status.
THEOREM CellsTypeCorrect == Spec => []TypeOK
<1>1. Init => TypeOK
  BY TypeOKInit
<1>2. TypeOK /\ [Next]_vars => TypeOK'
  BY TypeOKNext
<1> QED
  BY <1>1, <1>2, PTL DEF Spec

-----------------------------------------------------------------------------
(* The matrix: a done cell is kept and the report is complete.             *)

\* What a step of eval-status leaves alone: all of the harness.
LEMMA LookFrame == EvalStatus => UNCHANGED harness
BY DEF EvalStatus, StartStatus, MetaExists, ReadMeta, ReadReason, Look

LEMMA CellInvInit == Init => CellInv
BY TypeOKInit, Facts DEF Init, CellInv, MatrixInv, InCell, Running, Pipeline, Cell

LEMMA MatrixInvHarness == CellInv /\ Harness => MatrixInv'
<1> SUFFICES ASSUME TypeOK, MatrixInv, Harness PROVE MatrixInv'
  BY DEF CellInv
<1> USE DEF MatrixInv, InCell, Running, Pipeline, files, history
<1> /\ meta \in [Cell -> {None} \cup Outcomes] /\ cur \in 1 .. Cells + 1
    /\ Cells \in Nat /\ todo \subseteq Cell
  BY Facts DEF TypeOK
<1>1. CASE Scan
  <2>1. CASE cur > Cells
    BY <1>1, <2>1 DEF Scan, Cell
  <2>2. CASE cur <= Cells /\ (cur \notin todo \/ meta[cur] # None)
    BY <1>1, <2>2 DEF Scan, Cell
  <2>3. CASE cur <= Cells /\ cur \in todo /\ meta[cur] = None
    BY <1>1, <2>3 DEF Scan, Cell
  <2> QED
    BY <2>1, <2>2, <2>3
<1>2. CASE Wipe
  <2>1. \A c \in Cell : c # cur => meta'[c] = meta[c]
    BY <1>2 DEF Wipe
  <2>2. meta[cur] = None => meta'[cur] = None
    BY <1>2 DEF Wipe
  <2>3. cmd = "all" => \A c \in Cell : c < cur => c # cur
    BY DEF Cell
  <2> QED
    BY <1>2, <2>1, <2>2, <2>3 DEF Wipe
<1>3. CASE Wiped
  BY <1>3 DEF Wiped
<1>4. CASE Clone \/ Spawn \/ Misconfigured \/ Collect
  BY <1>4 DEF Clone, Spawn, Misconfigured, Collect, EndGroup
<1>5. CASE DeriveDiff \/ StartTest \/ EndTest \/ PipelineFails \/ CheckVenv \/ WriteScoring
  BY <1>5 DEF DeriveDiff, StartTest, EndTest, EndGroup, PipelineFails, CheckVenv,
              WriteScoring
<1>6. CASE WriteMeta
  <2>1. Outcome # None
    <3>1. run.task \in Task /\ run.status \in Status /\ run.mutated \in BOOLEAN
      BY <1>6 DEF WriteMeta, TypeOK, Runs, Task
    <3> QED
      BY <3>1, Facts DEF Outcome, Outcomes
  <2>2. \A c \in Cell : meta[c] # None => meta'[c] # None
    BY <1>6, <2>1 DEF WriteMeta
  <2>3. \A c \in Cell : c < cur' => c < cur
    BY <1>6 DEF WriteMeta
  <2>4. pc' = IF cmd = "all" THEN "scan" ELSE "report"
    BY <1>6 DEF WriteMeta, CellDone
  <2> QED
    BY <1>6, <2>2, <2>3, <2>4 DEF WriteMeta
<1>7. CASE WriteReport
  BY <1>7 DEF WriteReport, Ended
<1> QED
  BY <1>1, <1>2, <1>3, <1>4, <1>5, <1>6, <1>7 DEF Harness

LEMMA MatrixInvNext == CellInv /\ [Next]_vars => MatrixInv'
<1> SUFFICES ASSUME TypeOK, MatrixInv, [Next]_vars PROVE MatrixInv'
  BY DEF CellInv
<1> USE DEF MatrixInv, InCell, Running, Pipeline, files, history
<1>1. CASE StartAll
  BY <1>1, CellsAssumption DEF StartAll, StartOn, Cell
<1>2. CASE StartEval
  BY <1>2 DEF StartEval, TypeOK
<1>3. CASE StartReport
  BY <1>3 DEF StartReport
<1>4. CASE Crash
  BY <1>4 DEF Crash, Ended
<1>5. ASSUME NEW t \in Task, Writes(t) \/ Installs(t) \/ OrphanEnds(t)
      PROVE  MatrixInv'
  BY <1>5 DEF Writes, Installs, OrphanEnds
<1>6. CASE EvalStatus
  BY <1>6, LookFrame DEF harness
<1>7. CASE UNCHANGED vars
  BY <1>7 DEF vars
<1> QED
  BY <1>1, <1>2, <1>3, <1>4, <1>5, <1>6, <1>7, MatrixInvHarness
  DEF Next, CellInv

LEMMA CellInvInductive == Spec => []CellInv
<1>1. Init => CellInv
  BY CellInvInit
<1>2. CellInv /\ [Next]_vars => CellInv'
  BY TypeOKNext, MatrixInvNext DEF CellInv
<1> QED
  BY <1>1, <1>2, PTL DEF Spec

\* No eval-all, whatever crashed before it, changes a done cell.
LEMMA DoneCellsKeptStep ==
  ASSUME CellInv, [Next]_vars, cmd = "all", pc # "idle",
         NEW c \in Cell, meta[c] # None
  PROVE  /\ meta'[c] = meta[c] /\ scoring'[c] = scoring[c]
         /\ repo'[c] = None <=> repo[c] = None
<1> USE DEF CellInv, files, history
<1>2. pc \in InCell => c # cur
  BY DEF MatrixInv
<1>3. ASSUME NEW t \in Task, Writes(t)
      PROVE  /\ UNCHANGED <<meta, scoring>>
             /\ repo'[c] = None <=> repo[c] = None
  <2>1. agent[t] \in Cell /\ repo[agent[t]] \in Tree /\ repo[agent[t]] # None
    BY <1>3 DEF Writes, TypeOK
  <2>2. PICK S, H \in SUBSET (Edits(repo[agent[t]]) \cup {t}) :
          repo' = [repo EXCEPT ![agent[t]] = [shown |-> S, hidden |-> H]]
    BY <1>3 DEF Writes
  <2>3. [shown |-> S, hidden |-> H] \in Tree
    BY <2>1, <2>2, TreeFields DEF Tree
  <2> QED
    BY <1>3, <2>1, <2>2, <2>3, Facts DEF Writes, TypeOK
<1>4. CASE Wipe
  BY <1>2, <1>4 DEF Wipe, TypeOK, InCell
<1>5. CASE Clone
  BY <1>2, <1>5 DEF Clone, TypeOK, InCell
<1>6. CASE WriteScoring \/ WriteMeta
  BY <1>2, <1>6 DEF WriteScoring, WriteMeta, TypeOK, InCell, Running, Pipeline
<1>7. CASE Scan \/ Wiped \/ Spawn \/ Misconfigured \/ Collect \/ DeriveDiff
           \/ StartTest \/ EndTest \/ PipelineFails \/ CheckVenv \/ WriteReport
  BY <1>7 DEF Scan, Wiped, Spawn, Misconfigured, Collect, DeriveDiff, StartTest, EndTest,
              PipelineFails, CheckVenv, WriteReport
<1>8. CASE StartAll \/ StartEval \/ StartReport \/ Crash
  BY <1>8 DEF StartAll, StartOn, StartEval, StartReport, Crash
<1>9. ASSUME NEW t \in Task, Installs(t) \/ OrphanEnds(t)
      PROVE  UNCHANGED <<meta, scoring, repo>>
  BY <1>9 DEF Installs, OrphanEnds
<1>10. CASE EvalStatus \/ UNCHANGED vars
  BY <1>10, LookFrame DEF harness, vars
<1> QED
  BY <1>3, <1>4, <1>5, <1>6, <1>7, <1>8, <1>9, <1>10 DEF Next, Harness

\* DoneCellsKept for every campaign.
THEOREM CellsKept == Spec => DoneCellsKept
<1>1. CellInv /\ [Next]_vars =>
        (\A c \in Cell : cmd = "all" /\ pc # "idle" /\ meta[c] # None =>
           meta'[c] = meta[c] /\ scoring'[c] = scoring[c]
           /\ (repo'[c] = None <=> repo[c] = None))
  BY DoneCellsKeptStep
<1>2. Spec => []CellInv
  BY CellInvInductive
<1> QED
  BY <1>1, <1>2, PTL DEF Spec, DoneCellsKept

\* ReportCurrent for every campaign.
THEOREM CellsReported == Spec => ReportCurrent
<1>1. CellInv /\ [Next]_vars =>
        (pc = "report" /\ pc' = "idle" /\ faults' = faults =>
           report' = meta' /\ (cmd = "all" => \A c \in todo : meta[c] # None))
  <2> SUFFICES ASSUME CellInv, [Next]_vars, pc = "report", pc' = "idle",
                      faults' = faults
               PROVE  report' = meta'
                      /\ (cmd = "all" => \A c \in todo : meta[c] # None)
    OBVIOUS
  <2> USE DEF CellInv, files, history
  <2>1. WriteReport
    <3>1. ~Crash
      BY Facts DEF Crash, TypeOK
    <3>2. ~UNCHANGED vars
      BY DEF vars
    <3>3. ~EvalStatus
      BY LookFrame DEF harness
    <3>4. \A t \in Task : ~Writes(t) /\ ~Installs(t) /\ ~OrphanEnds(t)
      BY DEF Writes, Installs, OrphanEnds
    <3> QED
      BY <3>1, <3>2, <3>3, <3>4
      DEF Next, Harness, StartAll, StartOn, StartEval, StartReport, Scan, Wipe,
          Wiped, Clone, Spawn, Misconfigured, Collect, DeriveDiff, StartTest, EndTest,
          PipelineFails, CheckVenv, WriteScoring, WriteMeta
  <2>2. cmd = "all" => \A c \in todo : c < cur
    <3>1. todo \subseteq Cell /\ cur \in 1 .. Cells + 1 /\ Cells \in Nat
      BY Facts DEF TypeOK
    <3>2. cmd = "all" => cur > Cells
      BY DEF MatrixInv
    <3> QED
      BY <3>1, <3>2 DEF Cell
  <2> QED
    BY <2>1, <2>2 DEF WriteReport, Ended, MatrixInv
<1>2. Spec => []CellInv
  BY CellInvInductive
<1> QED
  BY <1>1, <1>2, PTL DEF Spec, ReportCurrent

-----------------------------------------------------------------------------
(* eval-status beside it.                                                  *)

\* While no eval runs a result that is there stays.
LEMMA ResultsLast ==
  ASSUME CellInv, [Next]_vars, cmd # "eval" \/ pc = "idle",
         NEW c \in Cell, meta[c] # None
  PROVE  meta'[c] = meta[c]
<1> USE DEF CellInv, files, history
<1>1. pc \in InCell => c # cur
  BY DEF MatrixInv, TypeOK, InCell, Running, Pipeline
<1>2. CASE Wipe \/ WriteMeta
  BY <1>1, <1>2 DEF Wipe, WriteMeta, TypeOK, InCell, Running, Pipeline
<1>3. CASE Scan \/ Wiped \/ Clone \/ Spawn \/ Misconfigured \/ Collect
           \/ DeriveDiff \/ StartTest \/ EndTest \/ PipelineFails \/ CheckVenv
           \/ WriteScoring \/ WriteReport
  BY <1>3 DEF Scan, Wiped, Clone, Spawn, Misconfigured, Collect, DeriveDiff,
              StartTest, EndTest, PipelineFails, CheckVenv, WriteScoring, WriteReport
<1>4. CASE StartAll \/ StartEval \/ StartReport \/ Crash
  BY <1>4 DEF StartAll, StartOn, StartEval, StartReport, Crash
<1>5. ASSUME NEW t \in Task, Writes(t) \/ Installs(t) \/ OrphanEnds(t)
      PROVE  meta' = meta
  BY <1>5 DEF Writes, Installs, OrphanEnds
<1>6. CASE EvalStatus \/ UNCHANGED vars
  BY <1>6, LookFrame DEF harness, vars
<1> QED
  BY <1>2, <1>3, <1>4, <1>5, <1>6 DEF Next, Harness

LEMMA ViewInvInit == Init => ViewInv
BY DEF Init, ViewInv, StatusLasting, NoLook, Status

LEMMA ViewInvHarness ==
  ASSUME CellInv, ViewInv, [Next]_vars, ~EvalStatus
  PROVE  ViewInv'
<1> USE DEF CellInv, ViewInv, StatusLasting, files, history, viewer
<1>1. CASE StartEval
  <2>1. look' = [look EXCEPT !.calm = FALSE] /\ look \in Looks
    BY <1>1 DEF StartEval, TypeOK
  <2>2. look'.calm = FALSE
    BY <2>1 DEF Looks
  <2> QED
    BY <2>2
<1>2. CASE ~StartEval
  <2>1. look' = look
    BY <1>2
    DEF Ended, CellDone, Next, Harness, StartAll, StartOn, StartReport, Scan, Wipe, Wiped, Clone, Spawn,
        Misconfigured, Collect, DeriveDiff, StartTest, EndTest, PipelineFails, CheckVenv,
        WriteScoring, WriteMeta, WriteReport, Crash, Writes, Installs,
        OrphanEnds, vars
  <2>2. \/ pc' = "idle" \/ cmd' # "eval"
        \/ UNCHANGED cmd /\ pc # "idle"
        \/ UNCHANGED <<cmd, pc>>
    <3>1. CASE Harness
      BY <3>1
      DEF Harness, Scan, Wipe, Wiped, Clone, Spawn, Misconfigured, Collect,
          DeriveDiff, StartTest, EndTest, PipelineFails, CheckVenv, WriteScoring,
          WriteMeta, WriteReport, Ended, Pipeline
    <3>2. CASE StartAll \/ StartReport \/ Crash \/ UNCHANGED vars
      BY <3>2 DEF StartAll, StartOn, StartReport, Crash, Ended, vars
    <3>3. ASSUME NEW t \in Task, Writes(t) \/ Installs(t) \/ OrphanEnds(t)
          PROVE  UNCHANGED <<cmd, pc>>
      BY <3>3 DEF Writes, Installs, OrphanEnds
    <3> QED
      BY <1>2, <3>1, <3>2, <3>3 DEF Next
  <2>3. look.calm => \A c \in Cell : meta[c] # None => meta'[c] = meta[c]
    BY ResultsLast
  <2>4. look.calm /\ look.at = "read" => meta'[look.cell] # None
    BY <2>3 DEF TypeOK
  <2> QED
    BY <2>1, <2>2, <2>3, <2>4
<1> QED
  BY <1>1, <1>2

LEMMA ViewInvLook == ASSUME CellInv, ViewInv, EvalStatus PROVE ViewInv'
<1> USE DEF CellInv, ViewInv, StatusLasting
<1>1. UNCHANGED <<meta, pc, cmd>>
  BY LookFrame DEF harness, files
<1>2. /\ look \in Looks /\ look.cell \in 1 .. Cells + 1
      /\ look.shown \in [Cell -> {"unseen", "undone"} \cup Status]
  BY DEF TypeOK, Looks
<1>3. CASE StartStatus
  <2> DEFINE b == pc = "idle" \/ cmd # "eval"
  <2>1. look' = [NoLook EXCEPT !.at = "exists", !.calm = b]
    BY <1>3 DEF StartStatus
  <2>2. look'.at = "exists" /\ look'.shown = [c \in Cell |-> "unseen"]
    BY <2>1 DEF NoLook
  <2>3. look'.calm = b
    BY <2>1 DEF NoLook
  <2>4. look'.calm => pc' = "idle" \/ cmd' # "eval"
    BY <1>1, <2>3
  <2> QED
    BY <2>2, <2>4 DEF Status
<1>4. CASE MetaExists
  <2> DEFINE c == look.cell
  <2>1. CASE look' = [look EXCEPT !.at = "reasons", !.cell = 1]
    BY <1>1, <1>2, <2>1 DEF Looks
  <2>2. CASE meta[c] # None /\ look' = [look EXCEPT !.at = "read"]
    BY <1>1, <1>2, <2>2 DEF Looks
  <2>3. CASE look' = [look EXCEPT !.cell = c + 1, !.shown[c] = "undone"]
    <3>1. look'.at = look.at /\ look'.calm = look.calm
      BY <1>2, <2>3 DEF Looks
    <3>2. \A d \in Cell : look'.shown[d] \in Status => look'.shown[d] = look.shown[d]
      BY <1>2, <2>3 DEF Looks, Status
    <3>3. look'.at = "exists"
      BY <1>4, <3>1 DEF MetaExists
    <3> QED
      BY <1>1, <3>1, <3>2, <3>3
  <2> QED
    BY <1>4, <2>1, <2>2, <2>3 DEF MetaExists, Look
<1>5. CASE ReadMeta
  <2> DEFINE c == look.cell
  <2>1. c \in Cell
    BY <1>5 DEF ReadMeta, TypeOK
  <2>2. CASE meta[c] = None
    <3>1. ~look.calm
      BY <1>5, <2>2 DEF ReadMeta
    <3>2. look' = [look EXCEPT !.at = "failed"]
      BY <1>5, <2>2 DEF ReadMeta, Look
    <3> QED
      BY <1>1, <1>2, <3>1, <3>2 DEF Looks
  <2>3. CASE meta[c] # None
    <3>1. look' = [look EXCEPT !.at = "exists", !.cell = c + 1,
                                !.shown[c] = meta[c].status]
      BY <1>5, <2>3 DEF ReadMeta, Look
    <3>2. look'.at = "exists" /\ look'.calm = look.calm
      BY <1>2, <3>1 DEF Looks
    <3>3. \A d \in Cell : look'.shown[d] =
            IF d = c THEN meta[c].status ELSE look.shown[d]
      BY <1>2, <3>1 DEF Looks
    <3> QED
      BY <1>1, <2>1, <2>3, <3>2, <3>3
  <2> QED
    BY <2>2, <2>3
<1>6. CASE ReadReason
  <2> DEFINE c == look.cell
  <2>1. CASE look' = [look EXCEPT !.at = "shown"]
    BY <1>1, <1>2, <2>1 DEF Looks
  <2>2. CASE c \in Cell /\ look.shown[c] = "error" /\ meta[c] = None
             /\ look' = [look EXCEPT !.at = "failed"]
    <3>1. ~look.calm
      BY <2>2 DEF Status
    <3> QED
      BY <1>1, <1>2, <2>2, <3>1 DEF Looks
  <2>3. CASE look' = [look EXCEPT !.cell = c + 1]
    <3>1. look'.at = "reasons" /\ look'.shown = look.shown /\ look'.calm = look.calm
      BY <1>2, <1>6, <2>3 DEF ReadReason, Looks
    <3> QED
      BY <1>1, <3>1
  <2>4. c > Cells \/ c \in Cell
    BY <1>2, Facts DEF Cell
  <2> QED
    BY <1>6, <2>1, <2>2, <2>3, <2>4 DEF ReadReason, Look
<1> QED
  BY <1>3, <1>4, <1>5, <1>6 DEF EvalStatus

LEMMA ViewInvInductive == Spec => []ViewInv
<1>1. Init => ViewInv
  BY ViewInvInit
<1>2. CellInv /\ ViewInv /\ [Next]_vars => ViewInv'
  BY ViewInvHarness, ViewInvLook
<1>3. Spec => []CellInv
  BY CellInvInductive
<1> QED
  BY <1>1, <1>2, <1>3, PTL DEF Spec

\* What eval-status shows lasts, in every campaign.
THEOREM CellsStatus == Spec => []StatusLasting
<1>1. ViewInv => StatusLasting
  BY DEF ViewInv
<1>2. Spec => []ViewInv
  BY ViewInvInductive
<1> QED
  BY <1>1, <1>2, PTL

-----------------------------------------------------------------------------
(* Done means scored.                                                      *)

LEMMA ScoreInvNext ==
  ASSUME SafeWipe, CellInv, ScoreInv, [Next]_vars
  PROVE  ScoreInv'
<1> USE DEF CellInv, ScoreInv, DoneMeansScored, files, history
<1> meta \in [Cell -> {None} \cup Outcomes] /\ scoring \in [Cell -> {None} \cup Scores]
  BY DEF TypeOK
<1>1. CASE Wipe
  <2>1. cur \in Cell
    BY <1>1 DEF Wipe, TypeOK
  <2>2. \A c \in Cell : c # cur => meta'[c] = meta[c] /\ scoring'[c] = scoring[c]
    BY <1>1 DEF Wipe
  <2> QED
    BY <1>1, <2>1, <2>2 DEF Wipe
<1>2. CASE Wiped
  BY <1>2 DEF Wiped
<1>3. CASE Crash
  <2>1. pc = "wipe" => meta[cur] = None
    BY <1>3, Facts DEF Crash, SafeWipe, MatrixInv, TypeOK, InCell
  <2> QED
    BY <1>3, <2>1 DEF Crash, Ended
<1>4. CASE WriteScoring
  <2>1. cur \in Cell /\ Scored # None /\ Scored.task = run.task
    <3>1. run.task \in Task /\ run.diff \subseteq Task /\ run.tested \subseteq Task
      BY <1>4 DEF WriteScoring, TypeOK, Runs, Running, Pipeline, Task
    <3>2. run.ran \subseteq Task
      BY DEF TypeOK, Runs
    <3> QED
      BY <1>4, <3>1, <3>2, Facts DEF WriteScoring, TypeOK, Scored, Scores
  <2>2. meta[cur] = None
    BY <1>4 DEF WriteScoring, MatrixInv, InCell, Running, Pipeline
  <2> QED
    BY <1>4, <2>1, <2>2 DEF WriteScoring
<1>5. CASE WriteMeta
  <2>1. cur \in Cell /\ Outcome.task = run.task
    BY <1>5 DEF WriteMeta, TypeOK, Outcome
  <2>2. pc' \in {"scan", "report"}
    BY <1>5 DEF WriteMeta, CellDone
  <2> QED
    BY <1>5, <2>1, <2>2 DEF WriteMeta
<1>6. CASE Scan
  BY <1>6 DEF Scan
<1>7. CASE Clone \/ Spawn \/ Misconfigured \/ Collect
  BY <1>7 DEF Clone, Spawn, Misconfigured, Collect
<1>8. CASE DeriveDiff \/ StartTest \/ EndTest \/ PipelineFails \/ CheckVenv \/ WriteReport
  BY <1>8 DEF DeriveDiff, StartTest, EndTest, PipelineFails, CheckVenv,
              WriteReport, Ended, Pipeline
<1>9. CASE StartAll \/ StartEval \/ StartReport
  <2>1. UNCHANGED <<meta, scoring>> /\ pc' \in {"scan", "wipe", "report"}
    BY <1>9 DEF StartAll, StartOn, StartEval, StartReport
  <2>2. pc = "idle"
    BY <1>9 DEF StartAll, StartOn, StartEval, StartReport
  <2> QED
    BY <2>1, <2>2
<1>10. ASSUME NEW t \in Task, Writes(t) \/ Installs(t) \/ OrphanEnds(t)
       PROVE  UNCHANGED <<meta, scoring, pc, cur, run>>
  BY <1>10 DEF Writes, Installs, OrphanEnds
<1>11. CASE EvalStatus \/ UNCHANGED vars
  BY <1>11, LookFrame DEF harness, vars
<1> QED
  BY <1>1, <1>2, <1>3, <1>4, <1>5, <1>6, <1>7, <1>8, <1>9, <1>10, <1>11
  DEF Next, Harness

\* DoneMeansScored, if no eval is killed while it wipes a cell.
THEOREM CellsDoneScored == ASSUME SafeWipe PROVE Spec => []DoneMeansScored
<1>1. Init => ScoreInv
  BY DEF Init, ScoreInv, DoneMeansScored
<1>2. CellInv /\ ScoreInv /\ [Next]_vars => ScoreInv'
  BY ScoreInvNext
<1>3. Spec => []CellInv
  BY CellInvInductive
<1>4. ScoreInv => DoneMeansScored
  BY DEF ScoreInv
<1> QED
  BY <1>1, <1>2, <1>3, <1>4, PTL DEF Spec

-----------------------------------------------------------------------------
(* What the scores are worth.                                              *)

\* What is left alive stays so; only these steps add to it.
LEMMA StraysStay ==
  ASSUME [Next]_vars
  PROVE  /\ strays \subseteq strays'
         /\ strays' = strays \/ Collect \/ EndTest \/ PipelineFails \/ Crash
<1> USE DEF history
<1>1. CASE Harness
  <2>1. Collect \/ EndTest => strays \subseteq strays'
    BY DEF Collect, EndTest, EndGroup
  <2>2. PipelineFails => strays \subseteq strays'
    BY DEF PipelineFails
  <2>3. ~Collect /\ ~EndTest /\ ~PipelineFails => strays' = strays
    BY <1>1
    DEF Harness, Scan, Wipe, Wiped, Clone, Spawn, Misconfigured, DeriveDiff,
        StartTest, CheckVenv, WriteScoring, WriteMeta, WriteReport
  <2> QED
    BY <2>1, <2>2, <2>3
<1>2. CASE StartAll \/ StartEval \/ StartReport \/ UNCHANGED vars
  BY <1>2 DEF StartAll, StartOn, StartEval, StartReport, vars
<1>3. CASE Crash
  BY <1>3 DEF Crash
<1>4. CASE EvalStatus
  BY <1>4, LookFrame DEF harness
<1>5. ASSUME NEW t \in Task, Writes(t) \/ Installs(t) \/ OrphanEnds(t)
      PROVE  strays' = strays
  BY <1>5 DEF Writes, Installs, OrphanEnds
<1> QED
  BY <1>1, <1>2, <1>3, <1>4, <1>5 DEF Next

LEMMA OwnInvInit == Init => OwnInv
BY DEF Init, OwnInv, Begun, Running, Pipeline, ScoredOwnEdits, TestedWhatIsDiffed

\* The steps that neither write scores nor start, end or watch a process.
LEMMA OwnInvBetween ==
  ASSUME CellInv, OwnInv,
         Scan \/ Wipe \/ Wiped \/ Clone \/ WriteMeta \/ WriteReport
         \/ StartAll \/ StartEval \/ StartReport \/ EvalStatus \/ UNCHANGED vars
  PROVE  OwnInv'
<1> USE DEF CellInv, OwnInv, Begun, ScoredOwnEdits, TestedWhatIsDiffed, Running,
            Pipeline, Started, Strays, files, history, viewer
<1>1. CASE Scan
  BY <1>1 DEF Scan
<1>2. CASE Wipe \/ Wiped
  BY <1>2 DEF Wipe, Wiped, TypeOK
<1>3. CASE Clone
  <2>1. repo'[cur] = Pristine /\ Edits(Pristine) = {}
    BY <1>3 DEF Clone, TypeOK, Edits, Pristine
  <2>2. run'.ran = {} /\ run'.turn = "visible"
    BY <1>3 DEF Clone, NoRun
  <2> QED
    BY <1>3, <2>1, <2>2 DEF Clone
<1>4. CASE WriteMeta
  BY <1>4 DEF WriteMeta, CellDone
<1>5. CASE WriteReport
  BY <1>5 DEF WriteReport, Ended
<1>6. CASE StartAll \/ StartEval \/ StartReport
  BY <1>6 DEF StartAll, StartOn, StartEval, StartReport
<1>7. CASE EvalStatus \/ UNCHANGED vars
  BY <1>7, LookFrame DEF harness, vars
<1> QED
  BY <1>1, <1>2, <1>3, <1>4, <1>5, <1>6, <1>7

\* A process group ends: who still runs in it was left alive.
LEMMA GroupEnds ==
  ASSUME CellInv, OwnInv, pc \in Started, EndGroup
  PROVE  /\ \A t \in Task : agent'[t] # None => <<t, agent'[t]>> \in strays'
         /\ strays \subseteq strays'
<1> USE DEF CellInv, OwnInv, TypeOK
<1>1. CASE agent' = [agent EXCEPT ![run.task] = None] /\ UNCHANGED strays
  BY <1>1
<1>2. CASE UNCHANGED agent /\ strays' = strays \cup {<<run.task, cur>>}
  BY <1>2
<1> QED
  BY <1>1, <1>2 DEF EndGroup

\* The start of an agent and the wait for it.
LEMMA OwnInvAgent ==
  ASSUME CellInv, OwnInv, Spawn \/ Misconfigured \/ Collect
  PROVE  OwnInv'
<1> USE DEF CellInv, OwnInv, Begun, Running, Pipeline, Started, files, history, viewer
<1> run \in Runs /\ cur \in Cell /\ agent \in [Task -> Cell \cup {None}]
  BY DEF TypeOK, Spawn, Misconfigured, Collect
<1>1. CASE Spawn
  <2>1. tasks' \in Task /\ run'.task = tasks'
    BY <1>1, Facts DEF Spawn, TypeOK, Task, Runs
  <2>2. agent' = [agent EXCEPT ![tasks'] = cur]
    BY <1>1 DEF Spawn
  <2>3. \A t \in Task : agent'[t] # None =>
          \/ t = tasks' /\ agent'[t] = cur
          \/ <<t, agent'[t]>> \in strays
    BY <1>1, <2>1, <2>2 DEF Spawn
  <2>4. Edits(repo[cur]) \subseteq Strays(cur) /\ run'.ran = {} /\ run'.turn = "visible"
    BY <1>1 DEF Spawn, Runs
  <2>5. UNCHANGED <<repo, scoring, cur, strays>> /\ pc' = "wait"
    BY <1>1 DEF Spawn
  <2> QED
    BY <2>1, <2>3, <2>4, <2>5 DEF Strays, ScoredOwnEdits, TestedWhatIsDiffed
<1>2. CASE Misconfigured
  <2>1. UNCHANGED <<repo, scoring, agent, cur, strays>>
    BY <1>2 DEF Misconfigured
  <2>2. run'.ran = run.ran /\ run'.turn = run.turn
    BY <1>2 DEF Misconfigured, Runs
  <2> QED
    BY <1>2, <2>1, <2>2 DEF Misconfigured, Strays, ScoredOwnEdits, TestedWhatIsDiffed
<1>3. CASE Collect
  <2>1. run'.task = run.task /\ run'.ran = run.ran /\ run'.turn = run.turn
    BY <1>3 DEF Collect, Runs
  <2>2. /\ \A t \in Task : agent'[t] # None => <<t, agent'[t]>> \in strays'
        /\ strays \subseteq strays'
    BY <1>3, GroupEnds DEF Collect
  <2>3. UNCHANGED <<repo, scoring, cur>> /\ pc = "wait" /\ pc' = "diff"
    BY <1>3 DEF Collect
  <2>4. Edits(repo[cur]) \subseteq {run.task} \cup Strays(cur)
    BY <2>3
  <2>5. ScoredOwnEdits' /\ TestedWhatIsDiffed'
    BY <2>2, <2>3 DEF Strays, ScoredOwnEdits, TestedWhatIsDiffed
  <2> QED
    BY <2>1, <2>2, <2>3, <2>4, <2>5 DEF Strays
<1> QED
  BY <1>1, <1>2, <1>3

\* The tests.
LEMMA OwnInvTests == ASSUME CellInv, OwnInv, StartTest \/ EndTest PROVE OwnInv'
<1> USE DEF CellInv, OwnInv, Begun, Running, Pipeline, Started, files, history, viewer
<1> run \in Runs /\ cur \in Cell /\ agent \in [Task -> Cell \cup {None}]
  BY DEF TypeOK, StartTest, EndTest
<1>1. CASE StartTest
  <2>1. /\ run'.task = run.task /\ run'.diff = run.diff
        /\ run'.ran = run.ran \cup Edits(repo[cur])
        /\ run'.tested = IF run.turn = "visible" THEN repo[cur].shown ELSE run.tested
    BY <1>1 DEF StartTest, Runs
  <2>2. run.task \in Task
    BY <1>1 DEF StartTest, TypeOK, Task, Runs
  <2>3. agent' = [agent EXCEPT ![run.task] = cur]
    BY <1>1 DEF StartTest
  <2>4. UNCHANGED <<repo, scoring, cur, strays>> /\ pc = "test" /\ pc' = "testing"
    BY <1>1 DEF StartTest
  <2>5. \A t \in Task : agent'[t] # None =>
          \/ t = run.task /\ agent'[t] = cur
          \/ <<t, agent'[t]>> \in strays
    BY <2>2, <2>3, <2>4
  <2>6. run'.diff \cup run'.ran \subseteq {run.task} \cup Strays(cur)
    BY <2>1, <2>4
  <2>7. Strays(cur) = {} => run'.tested = run'.diff
    <3>1. run.turn \in {"visible", "hidden"}
      BY DEF Runs
    <3> QED
      BY <2>1, <2>4, <3>1
  <2> QED
    BY <2>1, <2>4, <2>5, <2>6, <2>7 DEF Strays, ScoredOwnEdits, TestedWhatIsDiffed
<1>2. CASE EndTest
  <2>1. /\ run'.task = run.task /\ run'.diff = run.diff /\ run'.ran = run.ran
        /\ run'.tested = run.tested
        /\ pc' = "check" \/ (pc' = "test" /\ run'.turn = "hidden")
    BY <1>2 DEF EndTest, Runs
  <2>2. /\ \A t \in Task : agent'[t] # None => <<t, agent'[t]>> \in strays'
        /\ strays \subseteq strays'
    BY <1>2, GroupEnds DEF EndTest
  <2>3. UNCHANGED <<repo, scoring, cur>> /\ pc = "testing"
    BY <1>2 DEF EndTest
  <2>4. /\ Edits(repo[cur]) \subseteq {run.task} \cup Strays(cur)
        /\ run.diff \cup run.ran \subseteq {run.task} \cup Strays(cur)
        /\ Strays(cur) = {} => run.tested = run.diff
    BY <2>3
  <2>5. ScoredOwnEdits' /\ TestedWhatIsDiffed'
    BY <2>2, <2>3 DEF Strays, ScoredOwnEdits, TestedWhatIsDiffed
  <2> QED
    BY <2>1, <2>2, <2>3, <2>4, <2>5 DEF Strays
<1> QED
  BY <1>1, <1>2

\* The rest of the pipeline.
LEMMA OwnInvPipeline ==
  ASSUME CellInv, OwnInv, DeriveDiff \/ PipelineFails \/ CheckVenv \/ WriteScoring
  PROVE  OwnInv'
<1> USE DEF CellInv, OwnInv, Begun, Running, Pipeline, Started, files, history, viewer
<1> run \in Runs /\ cur \in Cell /\ scoring \in [Cell -> {None} \cup Scores]
  BY DEF TypeOK, DeriveDiff, PipelineFails, CheckVenv, WriteScoring
<1>0. UNCHANGED <<repo, agent, cur>> /\ pc \in Pipeline /\ strays \subseteq strays'
  BY DEF DeriveDiff, PipelineFails, CheckVenv, WriteScoring
<1>1. CASE DeriveDiff
  <2>1. /\ run'.task = run.task /\ run'.diff = repo[cur].shown
        /\ run'.ran = run.ran /\ run'.turn = run.turn
    BY <1>1 DEF DeriveDiff, Runs
  <2>2. repo[cur].shown \subseteq Edits(repo[cur])
    BY DEF Edits
  <2> QED
    BY <1>0, <1>1, <2>1, <2>2 DEF DeriveDiff, Strays, ScoredOwnEdits, TestedWhatIsDiffed
<1>2. CASE PipelineFails
  <2>1. run'.task = run.task /\ run'.diff = {} /\ run'.tested = {} /\ run'.ran = {}
    BY <1>2 DEF PipelineFails, Runs
  <2>2. pc' = "check" /\ scoring' = scoring /\ strays' = strays \cup Abandoned
    BY <1>2 DEF PipelineFails
  <2>3. \A t \in Task : agent[t] # None => <<t, agent[t]>> \in strays'
    BY <2>2 DEF Abandoned
  <2>4. Edits(repo[cur]) \subseteq {run.task} \cup Strays(cur)
    BY <1>0
  <2>5. ScoredOwnEdits' /\ TestedWhatIsDiffed'
    BY <1>0, <2>2 DEF Strays, ScoredOwnEdits, TestedWhatIsDiffed
  <2> QED
    BY <1>0, <2>1, <2>2, <2>3, <2>4, <2>5 DEF Strays
<1>3. CASE CheckVenv
  <2>1. /\ run'.task = run.task /\ run'.diff = run.diff /\ run'.ran = run.ran
        /\ run'.tested = run.tested
    BY <1>3 DEF CheckVenv, Runs
  <2>2. UNCHANGED <<scoring, strays>> /\ pc = "check" /\ pc' = "scoring"
    BY <1>3 DEF CheckVenv
  <2> QED
    BY <1>0, <2>1, <2>2 DEF Strays, ScoredOwnEdits, TestedWhatIsDiffed
<1>4. CASE WriteScoring
  <2>1. /\ Scored.diff = run.diff /\ Scored.tested = run.tested
        /\ Scored.ran = run.ran /\ Scored.task = run.task
    BY DEF Scored
  <2>2. scoring' = [scoring EXCEPT ![cur] = Scored]
    BY <1>4 DEF WriteScoring
  <2>3. /\ run.diff \cup run.ran \subseteq {run.task} \cup Strays(cur)
        /\ Strays(cur) = {} => run.tested = run.diff
    BY <1>4 DEF WriteScoring
  <2>4. UNCHANGED <<run, strays>> /\ pc = "scoring" /\ pc' = "meta"
    BY <1>4 DEF WriteScoring
  <2>5. ScoredOwnEdits' /\ TestedWhatIsDiffed'
    BY <2>1, <2>2, <2>3, <2>4 DEF Strays, ScoredOwnEdits, TestedWhatIsDiffed
  <2> QED
    BY <1>0, <2>3, <2>4, <2>5 DEF Strays
<1> QED
  BY <1>1, <1>2, <1>3, <1>4

\* A write in the worktree of the cell at hand is of the task at hand, while
\* its process group runs, or of one left alive there.
LEMMA OwnInvWrites == ASSUME CellInv, OwnInv, NEW t \in Task, Writes(t) PROVE OwnInv'
<1> USE DEF CellInv, OwnInv, Begun, Running, Pipeline, Started
<1>1. agent[t] \in Cell /\ repo[agent[t]] \in Tree
  BY DEF Writes, TypeOK
<1>2. PICK S, H \in SUBSET (Edits(repo[agent[t]]) \cup {t}) :
        repo' = [repo EXCEPT ![agent[t]] = [shown |-> S, hidden |-> H]]
  BY DEF Writes
<1>3. UNCHANGED <<scoring, agent, pc, cur, run, strays>>
  BY DEF Writes, history
<1>4. \/ pc \in Started /\ run.task = t /\ agent[t] = cur
      \/ t \in Strays(agent[t])
  BY DEF Writes, Strays
<1>5. repo \in [Cell -> {None} \cup Tree] /\ (pc \in {"spawn"} \cup Running => cur \in Cell)
  BY DEF TypeOK
<1>6. \A c \in Cell : c # agent[t] => repo'[c] = repo[c]
  BY <1>1, <1>2, <1>5
<1>7. Edits(repo'[agent[t]]) \subseteq Edits(repo[agent[t]]) \cup {t}
  BY <1>1, <1>2, <1>5 DEF Edits
<1>8. pc = "spawn" => Edits(repo'[cur]) \subseteq Strays(cur)
  BY <1>4, <1>5, <1>6, <1>7
<1>9. pc \in Running => Edits(repo'[cur]) \subseteq {run.task} \cup Strays(cur)
  BY <1>4, <1>5, <1>6, <1>7
<1>10. pc = "test" /\ ~Begun /\ Strays(cur) = {} => run.diff = repo'[cur].shown
  BY <1>4, <1>5, <1>6
<1> QED
  BY <1>3, <1>4, <1>8, <1>9, <1>10 DEF Strays, ScoredOwnEdits, TestedWhatIsDiffed

LEMMA OwnInvNext ==
  ASSUME CellInv, OwnInv, [Next]_vars
  PROVE  OwnInv'
<1> USE DEF CellInv, OwnInv, Begun, Running, Pipeline, Started, files, history, viewer
<1>1. CASE Crash
  <2>1. UNCHANGED <<repo, scoring, agent>> /\ pc' = "idle"
    BY <1>1 DEF Crash, Ended
  <2>2. \A t \in Task : agent[t] # None => <<t, agent[t]>> \in strays'
    BY <1>1 DEF Crash, Abandoned
  <2>3. strays \subseteq strays'
    BY <1>1 DEF Crash
  <2> QED
    BY <2>1, <2>2, <2>3 DEF Strays, ScoredOwnEdits, TestedWhatIsDiffed
<1>2. ASSUME NEW t \in Task, Installs(t) PROVE OwnInv'
  BY <1>2 DEF Installs, Strays, ScoredOwnEdits, TestedWhatIsDiffed
<1>3. ASSUME NEW t \in Task, OrphanEnds(t) PROVE OwnInv'
  BY <1>3 DEF OrphanEnds, TypeOK, Strays, ScoredOwnEdits, TestedWhatIsDiffed
<1> QED
  BY <1>1, <1>2, <1>3, OwnInvWrites, OwnInvBetween, OwnInvAgent, OwnInvTests,
     OwnInvPipeline DEF Next, Harness

LEMMA OwnInvInductive == Spec => []OwnInv
<1>1. Init => OwnInv
  BY OwnInvInit
<1>2. CellInv /\ OwnInv /\ [Next]_vars => OwnInv'
  BY OwnInvNext
<1>3. Spec => []CellInv
  BY CellInvInductive
<1> QED
  BY <1>1, <1>2, <1>3, PTL DEF Spec

\* What is scored is the scored task's own work, in every campaign, whatever
\* is killed, run again or left alive.
THEOREM CellsScoredOwn == Spec => []ScoredOwnEdits
<1>1. OwnInv => ScoredOwnEdits
  BY DEF OwnInv
<1>2. Spec => []OwnInv
  BY OwnInvInductive
<1> QED
  BY <1>1, <1>2, PTL

\* The tests are run on what the diff shows, in every campaign.
THEOREM CellsTestedDiffed == Spec => []TestedWhatIsDiffed
<1>1. OwnInv => TestedWhatIsDiffed
  BY DEF OwnInv
<1>2. Spec => []OwnInv
  BY OwnInvInductive
<1> QED
  BY <1>1, <1>2, PTL

\* Where every process ends with the wait for it, none is ever left alive.
LEMMA NothingLeftAlive == ASSUME Contained PROVE Spec => []NoStrays
<1>1. Init => NoStrays
  BY DEF Init, NoStrays
<1>2. NoStrays /\ [Next]_vars => NoStrays'
  <2> SUFFICES ASSUME strays = {}, [Next]_vars PROVE strays' = {}
    BY DEF NoStrays
  <2>1. CASE Collect \/ EndTest
    BY <2>1 DEF Collect, EndTest, EndGroup, Contained
  <2>2. CASE PipelineFails \/ Crash
    BY <2>2 DEF PipelineFails, Crash, Abandoned, Contained
  <2> QED
    BY <2>1, <2>2, StraysStay
<1> QED
  BY <1>1, <1>2, PTL DEF Spec

\* Then, whatever else is killed or fails or run again, every score is of the
\* scored task's own work, and the tests began on what the diff shows.
THEOREM CellsOwnAlone ==
  ASSUME Contained
  PROVE  Spec => [](\A c \in Cell : scoring[c] # None =>
           /\ scoring[c].diff \cup scoring[c].ran \subseteq {scoring[c].task}
           /\ scoring[c].tested = scoring[c].diff)
<1>1. NoStrays /\ OwnInv =>
        (\A c \in Cell : scoring[c] # None =>
           /\ scoring[c].diff \cup scoring[c].ran \subseteq {scoring[c].task}
           /\ scoring[c].tested = scoring[c].diff)
  <2> SUFFICES ASSUME NoStrays, OwnInv, NEW c \in Cell, scoring[c] # None
               PROVE  /\ scoring[c].diff \cup scoring[c].ran \subseteq {scoring[c].task}
                      /\ scoring[c].tested = scoring[c].diff
    OBVIOUS
  <2>1. Strays(c) = {}
    BY DEF NoStrays, Strays
  <2> QED
    BY <2>1 DEF OwnInv, ScoredOwnEdits, TestedWhatIsDiffed
<1>2. Spec => []OwnInv
  BY OwnInvInductive
<1>3. Spec => []NoStrays
  BY NothingLeftAlive
<1> QED
  BY <1>1, <1>2, <1>3, PTL

-----------------------------------------------------------------------------
(* Changes of the shared venv.                                             *)

\* Tasks are numbered as they start, so the task at hand is in no result and
\* in no venv of before its start.
LEMMA FreshInit == Init => Fresh
BY DEF Init, Fresh, Changed, Running, Pipeline

LEMMA FreshNext == ASSUME CellInv, Fresh, [Next]_vars PROVE Fresh'
<1> USE DEF CellInv, Fresh, Changed, Running, Pipeline, files, history, viewer
<1> run \in Runs /\ tasks \in Nat /\ MaxTask \in Nat
  BY Facts DEF TypeOK
<1>0. /\ \A c \in Cell : meta[c] # None => meta[c].task \in Task
      /\ venv \in {None} \cup SUBSET Task /\ run.before \in {None} \cup SUBSET Task
  BY DEF TypeOK, Outcomes, Runs
<1>1. CASE Clone
  <2>1. run'.before = venv
    BY <1>1 DEF Clone, NoRun
  <2> QED
    BY <1>0, <1>1, <2>1 DEF Clone
<1>2. CASE Spawn \/ Misconfigured
  <2>1. run'.task = tasks' /\ run'.before = run.before /\ tasks' = tasks + 1
    BY <1>2 DEF Spawn, Misconfigured, Runs
  <2>2. \A t \in Task : agent'[t] # None => t <= tasks'
    BY <1>2, <2>1 DEF Spawn, Misconfigured, TypeOK, Task
  <2>3. \A t \in Task : t <= tasks => t <= tasks' /\ t # tasks'
    BY <2>1 DEF Task
  <2>4. UNCHANGED <<meta, venv>> /\ pc = "spawn" /\ pc' \in {"wait", "diff"}
    BY <1>2 DEF Spawn, Misconfigured
  <2> QED
    BY <1>0, <2>1, <2>2, <2>3, <2>4
<1>3. CASE Collect \/ EndTest
  <2>1. run'.task = run.task /\ run'.before = run.before
    BY <1>3 DEF Collect, EndTest, Runs
  <2>2. \A t \in Task : agent'[t] # None => agent[t] # None
    BY <1>3 DEF Collect, EndTest, EndGroup, TypeOK
  <2>3. UNCHANGED <<meta, venv, tasks>> /\ pc \in Running /\ pc' \in Running
    BY <1>3 DEF Collect, EndTest
  <2> QED
    BY <2>1, <2>2, <2>3
<1>4. CASE StartTest
  <2>1. run'.task = run.task /\ run'.before = run.before /\ run.task = tasks
    BY <1>4 DEF StartTest, TypeOK, Runs
  <2>2. \A t \in Task : agent'[t] # None => t <= tasks
    BY <1>4, <2>1 DEF StartTest, TypeOK
  <2>3. UNCHANGED <<meta, venv, tasks>> /\ pc \in Running /\ pc' \in Running
    BY <1>4 DEF StartTest
  <2> QED
    BY <2>1, <2>2, <2>3
<1>5. CASE DeriveDiff \/ PipelineFails \/ CheckVenv
  <2>1. run'.task = run.task /\ run'.before = run.before
    BY <1>5 DEF DeriveDiff, PipelineFails, CheckVenv, Runs
  <2>2. UNCHANGED <<meta, venv, agent, tasks>> /\ pc \in Running /\ pc' \in Running
    BY <1>5 DEF DeriveDiff, PipelineFails, CheckVenv
  <2> QED
    BY <2>1, <2>2
<1>6. CASE WriteMeta
  <2>1. meta' = [meta EXCEPT ![cur] = Outcome] /\ cur \in Cell
    BY <1>6 DEF WriteMeta, TypeOK
  <2>2. Outcome.task = run.task /\ run.task = tasks
    BY <1>6 DEF WriteMeta, TypeOK, Outcome
  <2>3. \A c \in Cell : meta'[c] # None => meta'[c].task <= tasks
    BY <2>1, <2>2 DEF TypeOK
  <2>4. UNCHANGED <<venv, agent, tasks>> /\ pc' \in {"scan", "report"}
    BY <1>6 DEF WriteMeta, CellDone
  <2> QED
    BY <2>3, <2>4
<1>7. CASE Scan \/ Wiped \/ WriteScoring \/ WriteReport
  BY <1>7 DEF Scan, Wiped, WriteScoring, WriteReport, Ended
<1>8. CASE Wipe
  <2>1. \A c \in Cell : meta'[c] # None => meta'[c] = meta[c]
    BY <1>8 DEF Wipe, TypeOK
  <2> QED
    BY <1>8, <2>1 DEF Wipe
<1>9. CASE StartAll \/ StartEval \/ StartReport \/ Crash
  <2>1. \A t \in Task : Changed(t)' => Changed(t)
    BY <1>9 DEF StartAll, StartOn, StartEval, Prepare, StartReport, Crash
  <2>2. UNCHANGED <<meta, agent, tasks>> /\ pc' \notin {"spawn"} \cup Running
    BY <1>9 DEF StartAll, StartOn, StartEval, StartReport, Crash, Ended
  <2> HIDE DEF Changed
  <2> QED
    BY <2>1, <2>2
<1>10. ASSUME NEW t \in Task, Installs(t) PROVE Fresh'
  <2>1. \A u \in Task : Changed(u)' => Changed(u) \/ u = t
    BY <1>10 DEF Installs
  <2>2. t <= tasks /\ UNCHANGED <<meta, agent, tasks, pc, run>>
    BY <1>10 DEF Installs
  <2> HIDE DEF Changed
  <2> QED
    BY <2>1, <2>2
<1>11. ASSUME NEW t \in Task, Writes(t) \/ OrphanEnds(t) PROVE Fresh'
  BY <1>11 DEF Writes, OrphanEnds, TypeOK
<1>12. CASE EvalStatus \/ UNCHANGED vars
  BY <1>12, LookFrame DEF harness, vars
<1> QED
  BY <1>1, <1>2, <1>3, <1>4, <1>5, <1>6, <1>7, <1>8, <1>9, <1>10, <1>11, <1>12
  DEF Next, Harness

\* What excuses a task does so for ever.
LEMMA ExcusedStay == ASSUME [Next]_vars PROVE \A t : Excused(t) => Excused(t)'
<1>1. blind \subseteq blind'
  <2> USE DEF history
  <2>1. CASE Harness
    BY <2>1
    DEF Harness, Scan, Wipe, Wiped, Clone, Spawn, Misconfigured, Collect, EndGroup,
        DeriveDiff, StartTest, EndTest, PipelineFails, CheckVenv, WriteScoring,
        WriteMeta, WriteReport
  <2>2. CASE StartAll \/ StartEval \/ StartReport \/ Crash \/ UNCHANGED vars
    BY <2>2 DEF StartAll, StartOn, StartEval, StartReport, Crash, vars
  <2>3. CASE EvalStatus
    BY <2>3, LookFrame DEF harness
  <2>4. ASSUME NEW t \in Task, Writes(t) \/ Installs(t) \/ OrphanEnds(t)
        PROVE  blind' = blind
    BY <2>4 DEF Writes, Installs, OrphanEnds
  <2> QED
    BY <2>1, <2>2, <2>3, <2>4 DEF Next
<1> QED
  BY <1>1, StraysStay DEF Excused

\* Only a process that runs changes the venv: one that is waited for, or one
\* that was left alive.
LEMMA VenvInvNext ==
  ASSUME CellInv, OwnInv, Fresh, VenvInv, [Next]_vars
  PROVE  VenvInv'
<1> USE DEF CellInv, VenvInv, files, history, viewer
<1> run \in Runs
  BY DEF TypeOK
<1>0. \A t : Excused(t) => Excused(t)'
  BY ExcusedStay
<1>1. CASE CheckVenv
  <2>1. run'.task = run.task
    BY <1>1 DEF CheckVenv, Runs
  <2>2. UNCHANGED <<meta, venv>> /\ pc \in Running
    BY <1>1 DEF CheckVenv, Running, Pipeline
  <2>3. CASE run' = [run EXCEPT !.mutated = venv # None /\ venv # run.before]
    <3>1. run'.mutated = (venv # None /\ venv # run.before)
      BY <2>3 DEF Runs
    <3>2. Changed(run.task) => run'.mutated
      BY <2>2, <3>1 DEF Changed, Fresh
    <3> QED
      BY <1>0, <2>1, <2>2, <3>2 DEF Changed
  <2>4. CASE blind' = blind \cup {run.task}
    <3>1. Excused(run.task)'
      BY <2>4, <2>1 DEF Excused
    <3> QED
      BY <1>0, <2>1, <2>2, <3>1 DEF Changed
  <2> QED
    BY <1>1, <2>3, <2>4 DEF CheckVenv
<1>2. CASE WriteMeta
  <2>1. meta' = [meta EXCEPT ![cur] = Outcome] /\ cur \in Cell
    BY <1>2 DEF WriteMeta, TypeOK
  <2>2. Outcome.task = run.task /\ Outcome.mutated = run.mutated
    BY DEF Outcome
  <2>3. UNCHANGED <<venv, strays, blind>> /\ pc = "meta" /\ pc' \in {"scan", "report"}
    BY <1>2 DEF WriteMeta, CellDone
  <2>4. \A c \in Cell : meta'[c] = IF c = cur THEN Outcome ELSE meta[c]
    BY <2>1 DEF TypeOK
  <2> QED
    BY <2>2, <2>3, <2>4 DEF Excused, Changed
<1>3. ASSUME NEW t \in Task, Installs(t) PROVE VenvInv'
  <2>1. agent[t] # None /\ \A u : Changed(u)' => Changed(u) \/ u = t
    BY <1>3 DEF Installs, Changed
  <2>2. UNCHANGED <<meta, pc, run, strays, blind>>
    BY <1>3 DEF Installs
  <2>3. (pc \in Started /\ run.task = t) \/ Excused(t)
    <3>1. agent[t] \in Cell
      BY <2>1 DEF TypeOK
    <3> QED
      BY <2>1, <3>1 DEF OwnInv, Excused
  <2>4. pc \in Started => \A c \in Cell : meta[c] # None => meta[c].task # run.task
    BY DEF Fresh, Running, Pipeline, Started
  <2>5. pc \in {"scoring", "meta"} => pc \notin Started
    BY DEF Started
  <2> QED
    BY <1>0, <2>1, <2>2, <2>3, <2>4, <2>5
<1>4. CASE Wipe
  <2>1. \A c \in Cell : meta'[c] # None => meta'[c] = meta[c]
    BY <1>4 DEF Wipe, TypeOK
  <2> QED
    BY <1>4, <2>1 DEF Wipe, Excused, Changed
<1>5. CASE Collect \/ Crash \/ EndTest \/ PipelineFails
  <2>1. UNCHANGED <<meta, venv>> /\ pc' \notin {"scoring", "meta"}
    BY <1>5 DEF Collect, Crash, Ended, EndTest, PipelineFails
  <2> QED
    BY <1>0, <2>1 DEF Changed
<1>6. CASE Scan \/ Wiped \/ Clone \/ Spawn \/ Misconfigured \/ DeriveDiff \/ StartTest
  BY <1>0, <1>6 DEF Scan, Wiped, Clone, Spawn, Misconfigured, DeriveDiff, StartTest,
                    Changed
<1>7. CASE WriteScoring \/ WriteReport \/ StartReport
  BY <1>0, <1>7 DEF WriteScoring, WriteReport, Ended, StartReport, Changed
<1>8. CASE StartAll \/ StartEval
  <2>1. \A t : Changed(t)' => Changed(t)
    BY <1>8 DEF StartAll, StartOn, StartEval, Prepare, Changed
  <2>2. UNCHANGED meta /\ pc' \notin {"scoring", "meta"}
    BY <1>8 DEF StartAll, StartOn, StartEval
  <2> QED
    BY <1>0, <2>1, <2>2
<1>9. ASSUME NEW t \in Task, Writes(t) \/ OrphanEnds(t) PROVE VenvInv'
  BY <1>0, <1>9 DEF Writes, OrphanEnds, Changed
<1>10. CASE EvalStatus \/ UNCHANGED vars
  BY <1>0, <1>10, LookFrame DEF harness, vars, Changed
<1> QED
  BY <1>1, <1>2, <1>3, <1>4, <1>5, <1>6, <1>7, <1>8, <1>9, <1>10 DEF Next, Harness

LEMMA VenvInvInductive == Spec => [](CellInv /\ Fresh /\ VenvInv)
<1>1. Init => Fresh /\ VenvInv
  BY FreshInit DEF Init, VenvInv
<1>2. CellInv /\ Fresh /\ [Next]_vars => Fresh'
  BY FreshNext
<1>3. CellInv /\ OwnInv /\ Fresh /\ VenvInv /\ [Next]_vars => VenvInv'
  BY VenvInvNext
<1>4. Spec => []CellInv /\ []OwnInv
  BY CellInvInductive, OwnInvInductive, PTL
<1> QED
  BY <1>1, <1>2, <1>3, <1>4, PTL DEF Spec

\* A cell whose own task changed the venv's packages says so, in every
\* campaign.
THEOREM CellsVenvFlagged == Spec => []VenvMutationFlagged
<1>1. VenvInv => VenvMutationFlagged
  BY DEF VenvInv, VenvMutationFlagged, Excused
<1>2. Spec => []VenvInv
  BY VenvInvInductive, PTL
<1> QED
  BY <1>1, <1>2, PTL

\* Without an interruption and without an eval no result is ever lost.
LEMMA AccountedNext ==
  ASSUME CellInv, CellInv', Accounted, [Next]_vars
  PROVE  Accounted'
<1> SUFFICES ASSUME faults' = 0, reruns' = 0, NEW t \in 1 .. tasks',
                    ~(pc' \in Running /\ run'.task = t)
             PROVE  \E c \in Cell : meta'[c] # None /\ meta'[c].task = t
  BY DEF Accounted
<1> USE DEF CellInv, Running, Pipeline, files, history, viewer
<1> run \in Runs
  BY DEF TypeOK
<1>1. faults = 0 /\ reruns = 0 /\ cmd # "eval" /\ ~Crash /\ ~StartEval
  <2>1. ~Crash /\ ~StartEval
    BY DEF Crash, StartEval, TypeOK
  <2>2. UNCHANGED <<faults, reruns>>
    BY <2>1, LookFrame
    DEF Next, Harness, StartAll, StartOn, StartReport, Scan, Wipe, Wiped, Clone, Spawn,
        Misconfigured, Collect, DeriveDiff, StartTest, EndTest, PipelineFails, CheckVenv,
        WriteScoring, WriteMeta, WriteReport, Writes, Installs,
        OrphanEnds, EndGroup, harness, vars
  <2> QED
    BY <2>1, <2>2 DEF MatrixInv
<1>2. ASSUME NEW c \in Cell, meta[c] # None, meta[c].task = t
      PROVE  meta'[c] # None /\ meta'[c].task = t
  BY <1>1, <1>2, ResultsLast
<1>3. CASE WriteMeta /\ run.task = t
  <2>1. meta' = [meta EXCEPT ![cur] = Outcome] /\ cur \in Cell
    BY <1>3 DEF WriteMeta, TypeOK
  <2>2. Outcome.task = run.task
    BY DEF Outcome
  <2>3. Outcome # None
    <3>1. run.task \in Task /\ run.status \in Status /\ run.mutated \in BOOLEAN
      BY <1>3 DEF WriteMeta, TypeOK, Runs, Task
    <3> QED
      BY <3>1, Facts DEF Outcome, Outcomes
  <2> QED
    BY <1>3, <2>1, <2>2, <2>3 DEF TypeOK
<1>4. CASE Spawn \/ Misconfigured
  <2>1. pc' \in Running /\ run'.task = tasks' /\ tasks' = tasks + 1 /\ tasks \in Nat
    BY <1>4 DEF Spawn, Misconfigured, TypeOK, Runs
  <2>2. t \in 1 .. tasks /\ pc \notin Running
    BY <1>4, <2>1 DEF Spawn, Misconfigured
  <2> QED
    BY <1>1, <1>2, <2>2 DEF Accounted
<1>5. CASE ~(WriteMeta /\ run.task = t) /\ ~Spawn /\ ~Misconfigured
  <2>1. tasks' = tasks
    BY <1>1, <1>5, LookFrame
    DEF Next, Harness, StartAll, StartOn, StartReport, Scan, Wipe, Wiped, Clone, Collect,
        DeriveDiff, StartTest, EndTest, PipelineFails, CheckVenv, WriteScoring, WriteMeta,
        WriteReport, Writes, Installs, OrphanEnds, harness, vars
  <2>2. pc \in Running /\ ~WriteMeta => pc' \in Running /\ run'.task = run.task
    <3> SUFFICES ASSUME pc \in Running, ~WriteMeta
                 PROVE  pc' \in Running /\ run'.task = run.task
      OBVIOUS
    <3>1. CASE Collect \/ DeriveDiff \/ StartTest \/ EndTest \/ PipelineFails \/ CheckVenv
               \/ WriteScoring
      BY <3>1 DEF Collect, DeriveDiff, StartTest, EndTest, PipelineFails, CheckVenv,
                  WriteScoring, Runs
    <3>2. CASE EvalStatus \/ UNCHANGED vars
      BY <3>2, LookFrame DEF harness, vars
    <3>3. ASSUME NEW u \in Task, Writes(u) \/ Installs(u) \/ OrphanEnds(u)
          PROVE  pc' = pc /\ run' = run
      BY <3>3 DEF Writes, Installs, OrphanEnds
    <3>4. ~StartAll /\ ~StartReport /\ ~Scan /\ ~Wipe /\ ~Wiped /\ ~Clone
          /\ ~WriteReport
      BY DEF StartAll, StartOn, StartReport, Scan, Wipe, Wiped, Clone, WriteReport
    <3> QED
      BY <1>1, <1>5, <3>1, <3>2, <3>3, <3>4 DEF Next, Harness
  <2>3. pc \in Running /\ WriteMeta => run.task # t
    BY <1>5
  <2>4. ~(pc \in Running /\ run.task = t)
    BY <2>2, <2>3
  <2> QED
    BY <1>1, <1>2, <2>1, <2>4 DEF Accounted
<1> QED
  BY <1>3, <1>4, <1>5

\* MatrixFlagged for every campaign: the cells taken together tell of every
\* change of the venv, although each was compared with its own beginning.
THEOREM CellsMatrixFlagged == Spec => []MatrixFlagged
<1>1. Init => Accounted
  BY DEF Init, Accounted
<1>2. CellInv /\ CellInv' /\ Accounted /\ [Next]_vars => Accounted'
  BY AccountedNext
<1>3. CellInv /\ Fresh /\ VenvInv /\ Accounted => MatrixFlagged
  <2> SUFFICES ASSUME CellInv, Fresh, VenvInv, Accounted, faults = 0, reruns = 0,
                      pc = "idle",
                      NEW t \in Task \ blind, Changed(t),
                      \A c \in Cell : <<t, c>> \notin strays
               PROVE  \E c \in Cell : meta[c].mutated
    BY DEF MatrixFlagged
  <2>1. t \in 1 .. tasks
    BY DEF Fresh, Task
  <2>2. PICK c \in Cell : meta[c] # None /\ meta[c].task = t
    BY <2>1 DEF Accounted, Running, Pipeline
  <2> QED
    BY <2>2 DEF VenvInv, Excused
<1>4. Spec => [](CellInv /\ Fresh /\ VenvInv)
  BY VenvInvInductive
<1> QED
  BY <1>1, <1>2, <1>3, <1>4, PTL DEF Spec
=============================================================================
