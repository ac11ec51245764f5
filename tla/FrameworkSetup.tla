--------------------------- MODULE FrameworkSetup ---------------------------
(***************************************************************************)
(* The setup of a framework and its .ok and .fail sentinels: setup.py, the *)
(* part of _prepare_needed, _do_prepare and the commands in cli.py that    *)
(* handles frameworks, and the check of run_cell in runner.py that lets a  *)
(* framework run.                                                          *)
(*                                                                         *)
(* One framework: they are set up one after another and share nothing but  *)
(* the decision to prepare, whose other causes are left open.              *)
(*                                                                         *)
(* A sentinel holds the fingerprint of the inputs its setup began with.    *)
(* The user may edit the inputs at any time, an invocation may be killed   *)
(* between any two steps, and a setup command whose invocation was killed  *)
(* goes on in its own session.  eval-prepare takes no lock and the cache   *)
(* belongs to all campaigns, so invocations may overlap.                   *)
(***************************************************************************)
EXTENDS Naturals, FiniteSets

CONSTANTS Procs,      \* invocations that may be under way at once
          Manifests,  \* what the manifest may say: its setup and env keys
          Nothing,    \* no sentinel; nothing, or half of it, installed
          MaxEdits,   \* bound: how often the user edits an input
          MaxKills    \* bound: how often an invocation is killed

NoSetup == "none"        \* the manifest has no setup
Invalid == "invalid"     \* the manifest does not validate
Unparsable == "unparsable"  \* shlex.split fails
Missing == "missing"     \* Popen fails

Fingerprints == [manifest : Manifests, command : {m.setup : m \in Manifests},
                 deps : Nat]
Environments == [setup : {m.setup : m \in Manifests},
                 env : {m.env : m \in Manifests}, deps : Nat]

ASSUME SetupAssumption ==
  /\ \A m \in Manifests : DOMAIN m = {"setup", "env"}
  /\ Manifests # {}
  /\ Nothing \notin Fingerprints \cup Environments
  /\ {MaxEdits, MaxKills} \subseteq Nat

VARIABLES
  manifest,  \* the manifest on disk
  deps,      \* the version of the dependency files on disk
  readable,  \* and whether they can be read
  ok,        \* the fingerprint in the .ok sentinel, or Nothing
  fail,      \* the fingerprint in the .fail sentinel, or Nothing
  installed, \* what the environment was set up from, or Nothing
  pc,        \* pc[p]: the next step of invocation p
  kind,      \* kind[p]: its command
  spec,      \* spec[p]: the manifest it discovered
  want,      \* want[p]: current_fingerprint
  job,       \* job[p]: its setup command is "none", "running", "ok", "failed"
  orphans,   \* the manifests of setup commands that outlived their invocation
  edits,     \* number of edits so far
  kills,     \* number of kills so far
  calm,      \* history: calm[p], no edit since p began
  overlap    \* history: a setup ever ran beside another invocation

disk == <<manifest, deps, readable>>
sentinels == <<ok, fail>>
local == <<kind, spec, want>>
bounds == <<edits, kills>>
history == <<calm, overlap>>
vars == <<disk, sentinels, installed, pc, local, job, orphans, bounds, history>>

Kind == {"eval", "eval-all", "eval-prepare"}
Points == {"idle", "check", "prepare", "start", "unlink_ok", "unlink_fail",
           "wait", "write", "cell", "agent"}

\* setup_fingerprint: the manifest and the dependency files as they are now,
\* the command as it was discovered.
Fingerprint(m) == [manifest |-> manifest, command |-> m.setup, deps |-> deps]

\* What a setup command leaves behind that succeeds now.
Setup(m) == [setup |-> m.setup, env |-> m.env, deps |-> deps]

Init ==
  /\ manifest \in Manifests /\ deps = 0 /\ readable = TRUE
  /\ ok = Nothing /\ fail = Nothing
  /\ installed = Nothing
  /\ pc = [p \in Procs |-> "idle"]
  /\ kind = [p \in Procs |-> "eval"]
  /\ spec = [p \in Procs |-> manifest]
  /\ want = [p \in Procs |-> Nothing]
  /\ job = [p \in Procs |-> "none"]
  /\ orphans = {}
  /\ edits = 0 /\ kills = 0
  /\ calm = [p \in Procs |-> TRUE]
  /\ overlap = FALSE

-----------------------------------------------------------------------------
(* The user.                                                               *)

EditManifest ==
  /\ edits < MaxEdits /\ edits' = edits + 1
  /\ manifest' \in Manifests \ {manifest}
  /\ calm' = [p \in Procs |-> FALSE]
  /\ UNCHANGED <<deps, readable, sentinels, installed, pc, local, job, orphans,
                 kills, overlap>>

\* An edit never brings back an earlier content.
EditDeps ==
  /\ edits < MaxEdits /\ edits' = edits + 1
  /\ deps' = deps + 1 /\ readable' \in BOOLEAN
  /\ calm' = [p \in Procs |-> FALSE]
  /\ UNCHANGED <<manifest, sentinels, installed, pc, local, job, orphans, kills,
                 overlap>>

-----------------------------------------------------------------------------
(* The commands up to run_framework_setup.                                 *)

Goto(p, l) == pc' = [pc EXCEPT ![p] = l]
At(p, l) == pc[p] = l

\* Between the decision to set up and the new sentinel.
InSetup == {"unlink_ok", "unlink_fail", "wait", "write"}

\* discover_frameworks
Begin(p) ==
  /\ At(p, "idle")
  /\ \E k \in Kind :
       /\ kind' = [kind EXCEPT ![p] = k]
       /\ Goto(p, IF k = "eval-prepare" THEN "prepare" ELSE "check")
  /\ spec' = [spec EXCEPT ![p] = manifest]
  /\ calm' = [calm EXCEPT ![p] = TRUE]
  /\ overlap' = (overlap \/ orphans # {} \/ \E q \in Procs : pc[q] \in InSetup)
  /\ UNCHANGED <<disk, sentinels, installed, want, job, orphans, bounds>>

\* Whether there is anything to set up.
Runnable(m) == m.setup \notin {NoSetup, Invalid}

\* Mutant: a recorded failure is final.
NeededUnlessFailed(m) ==
  Runnable(m) /\ fail = Nothing /\ (~readable \/ ok # Fingerprint(m))

\* _prepare_needed for the framework: a failure of the same inputs is not
\* tried again.
Needed(m) ==
  /\ Runnable(m)
  /\ \/ ~readable
     \/ fail # Nothing /\ fail # Fingerprint(m)
     \/ fail = Nothing /\ ok # Fingerprint(m)

\* A case or another framework may need preparing as well.
Check(p) ==
  /\ At(p, "check")
  /\ \E others \in BOOLEAN :
       Goto(p, IF Needed(spec[p]) \/ others THEN "prepare" ELSE "cell")
  /\ UNCHANGED <<disk, sentinels, installed, local, job, orphans, bounds, history>>

\* Where a command goes on after the framework has been dealt with.
AfterSetup(p) == IF kind[p] = "eval-prepare" THEN "idle" ELSE "cell"

\* _setup_fail_is_fresh
FailIsFresh(m) == fail # Nothing /\ readable /\ fail = Fingerprint(m)

\* The loop body of _do_prepare.
Prepare(p) ==
  /\ At(p, "prepare")
  /\ IF ~Runnable(spec[p]) \/ (kind[p] = "eval-all" /\ FailIsFresh(spec[p]))
       THEN Goto(p, AfterSetup(p))
       ELSE Goto(p, "start")
  /\ UNCHANGED <<disk, sentinels, installed, local, job, orphans, bounds, history>>

-----------------------------------------------------------------------------
(* run_framework_setup                                                     *)

\* Mutant: any .ok will do.
FreshByExistence(p) == fail = Nothing /\ ok # Nothing

\* _ok_is_fresh, and no .fail.
Fresh(p) == fail = Nothing /\ ok = Fingerprint(spec[p])

\* An input that cannot be read ends the command with an exception.
Start(p) ==
  /\ At(p, "start")
  /\ IF ~readable THEN Goto(p, "idle") /\ UNCHANGED <<want, overlap>>
     ELSE /\ want' = [want EXCEPT ![p] = Fingerprint(spec[p])]
          /\ IF Fresh(p)
               THEN Goto(p, AfterSetup(p)) /\ UNCHANGED overlap
               ELSE /\ Goto(p, "unlink_ok")
                    /\ overlap' = (overlap \/ \E q \in Procs \ {p} : pc[q] # "idle")
  /\ UNCHANGED <<disk, sentinels, installed, kind, spec, job, orphans, bounds, calm>>

\* Mutant: the old .ok stays until the new one replaces it.
UnlinkOkNot(p) ==
  /\ At(p, "unlink_ok") /\ Goto(p, "unlink_fail")
  /\ UNCHANGED <<disk, sentinels, installed, local, job, orphans, bounds, history>>

UnlinkOk(p) ==
  /\ At(p, "unlink_ok") /\ Goto(p, "unlink_fail")
  /\ ok' = Nothing
  /\ UNCHANGED <<disk, fail, installed, local, job, orphans, bounds, history>>

\* Parse and spawn errors count as a failed setup; otherwise the command
\* runs, and what was installed before can no longer be relied on.
UnlinkFail(p) ==
  /\ At(p, "unlink_fail")
  /\ fail' = Nothing
  /\ IF spec[p].setup \in {Unparsable, Missing}
       THEN /\ Goto(p, "write") /\ job' = [job EXCEPT ![p] = "failed"]
            /\ UNCHANGED installed
       ELSE /\ Goto(p, "wait") /\ job' = [job EXCEPT ![p] = "running"]
            /\ installed' = Nothing
  /\ UNCHANGED <<disk, ok, local, orphans, bounds, history>>

\* The command ends by itself.
JobEnds(p) ==
  /\ job[p] = "running"
  /\ \/ job' = [job EXCEPT ![p] = "ok"] /\ installed' = Setup(spec[p])
     \/ job' = [job EXCEPT ![p] = "failed"] /\ installed' = Nothing
  /\ UNCHANGED <<disk, sentinels, pc, local, orphans, bounds, history>>

\* proc.wait returns, or the timeout has the process group killed.  A
\* successful command is a timeout too if a descendant holds its pipes.
Wait(p) ==
  /\ At(p, "wait") /\ Goto(p, "write")
  /\ \/ job[p] \in {"ok", "failed"} /\ UNCHANGED job
     \/ job' = [job EXCEPT ![p] = "failed"]
  /\ UNCHANGED <<disk, sentinels, installed, local, orphans, bounds, history>>

\* Mutant: the fingerprint is taken when the setup is over.
WriteLateFingerprint(p) ==
  /\ At(p, "write") /\ Goto(p, AfterSetup(p))
  /\ IF job[p] = "ok" THEN ok' = Fingerprint(spec[p]) /\ UNCHANGED fail
                      ELSE fail' = Fingerprint(spec[p]) /\ UNCHANGED ok
  /\ job' = [job EXCEPT ![p] = "none"]
  /\ UNCHANGED <<disk, installed, local, orphans, bounds, history>>

\* The new sentinel appears at once (_atomic_write).
WriteSentinel(p) ==
  /\ At(p, "write") /\ Goto(p, AfterSetup(p))
  /\ IF job[p] = "ok" THEN ok' = want[p] /\ UNCHANGED fail
                      ELSE fail' = want[p] /\ UNCHANGED ok
  /\ job' = [job EXCEPT ![p] = "none"]
  /\ UNCHANGED <<disk, installed, local, orphans, bounds, history>>

-----------------------------------------------------------------------------
(* run_cell, which only asks whether there is a .fail.                     *)

RunCell(p) ==
  /\ At(p, "cell")
  /\ IF spec[p].setup = Invalid \/ (spec[p].setup # NoSetup /\ fail # Nothing)
       THEN Goto(p, "idle") ELSE Goto(p, "agent")
  /\ UNCHANGED <<disk, sentinels, installed, local, job, orphans, bounds, history>>

CellEnds(p) ==
  /\ At(p, "agent") /\ Goto(p, "idle")
  /\ UNCHANGED <<disk, sentinels, installed, local, job, orphans, bounds, history>>

-----------------------------------------------------------------------------
(* Kills.                                                                  *)

\* Killed or interrupted; the command is in a session of its own.
Kill(p) ==
  /\ pc[p] # "idle" /\ kills < MaxKills /\ kills' = kills + 1
  /\ Goto(p, "idle")
  /\ job' = [job EXCEPT ![p] = "none"]
  /\ orphans' = IF job[p] = "running" THEN orphans \cup {spec[p]} ELSE orphans
  /\ UNCHANGED <<disk, sentinels, installed, local, edits, history>>

OrphanEnds ==
  /\ \E m \in orphans :
       orphans' = orphans \ {m} /\ installed' \in {Setup(m), Nothing}
  /\ UNCHANGED <<disk, sentinels, pc, local, job, bounds, history>>

-----------------------------------------------------------------------------

Continue(p) ==
  \/ Check(p) \/ Prepare(p)
  \/ Start(p) \/ UnlinkOk(p) \/ UnlinkFail(p) \/ Wait(p) \/ WriteSentinel(p)
  \/ RunCell(p) \/ CellEnds(p)

Next ==
  \/ EditManifest \/ EditDeps \/ OrphanEnds
  \/ \E p \in Procs : Begin(p) \/ Continue(p) \/ JobEnds(p) \/ Kill(p)

\* No step of an invocation blocks for ever: the setup and the cell have
\* timeouts.  Nobody has to begin one.
Fairness == \A p \in Procs : WF_vars(Continue(p))

Spec == Init /\ [][Next]_vars /\ Fairness

-----------------------------------------------------------------------------
(* Properties                                                              *)

TypeOK ==
  /\ manifest \in Manifests /\ deps \in Nat /\ readable \in BOOLEAN
  /\ ok \in Fingerprints \cup {Nothing} /\ fail \in Fingerprints \cup {Nothing}
  /\ installed \in Environments \cup {Nothing}
  /\ pc \in [Procs -> Points] /\ kind \in [Procs -> Kind]
  /\ spec \in [Procs -> Manifests]
  /\ want \in [Procs -> Fingerprints \cup {Nothing}]
  /\ job \in [Procs -> {"none", "running", "ok", "failed"}]
  /\ orphans \subseteq Manifests
  /\ edits \in Nat /\ kills \in Nat
  /\ calm \in [Procs -> BOOLEAN] /\ overlap \in BOOLEAN
  /\ \A p \in Procs :
       /\ job[p] = "none" <=> pc[p] \notin {"wait", "write"}
       /\ pc[p] \in InSetup => want[p] # Nothing
       /\ pc[p] \in InSetup \cup {"start"} => Runnable(spec[p])

\* Unless setups overlap, the sentinels never contradict each other.
OneSentinel == ~overlap => ok = Nothing \/ fail = Nothing

\* Unless setups overlap, an .ok that is fresh for the inputs on disk means
\* that the environment was installed by exactly this command from exactly
\* these dependency files, whatever was edited or killed on the way.
OkMeansInstalled ==
  ~overlap /\ ok = Fingerprint(manifest) =>
    /\ installed # Nothing
    /\ installed.setup = manifest.setup /\ installed.deps = deps

\* Although run_cell only looks for a .fail, a framework that runs has a
\* fresh .ok, unless setups overlap or somebody edits the inputs meanwhile.
RunsOnlyWithOk ==
  \A p \in Procs :
    At(p, "agent") /\ spec[p].setup # NoSetup /\ calm[p] /\ ~overlap =>
      fail = Nothing /\ ok = Fingerprint(spec[p])

\* A setup that a fresh .ok stands for has seen the env keys the manifest
\* declares now.
InstalledWithEnv ==
  ~overlap /\ ok = Fingerprint(manifest) =>
    installed # Nothing /\ installed.env = manifest.env

\* Stale sentinels do not stick: as long as somebody runs eval or eval-all
\* now and then, there is again and again a verdict about the inputs as
\* they are, also when setups overlap.
Settled ==
  \/ ~Runnable(manifest) \/ ~readable
  \/ Fingerprint(manifest) \in {ok, fail}
EventuallySettled ==
  []<>(\E p \in Procs : At(p, "check")) => []<>Settled
=============================================================================
