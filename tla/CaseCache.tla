------------------------------ MODULE CaseCache ------------------------------
(***************************************************************************)
(* The cached layers of one case in .runs-cache: the bare repository and   *)
(* the virtual environment of src/evals/evals/workspace.py, as the         *)
(* commands of cli.py prepare, use and wipe them.                          *)
(*                                                                         *)
(* A layer is a directory and a hash file that says which source it was    *)
(* built from.  Sources are version numbers: the tracked fixture files for *)
(* "bare", uv.lock or pyproject.toml for "venv".  Computing a hash is one  *)
(* step (one taken while the source changes matches no version and can     *)
(* only cause a rebuild); copying a fixture is two, so an edit may fall    *)
(* between them.                                                           *)
(*                                                                         *)
(* eval, eval-all and eval-clean-cache hold the campaign lock;             *)
(* eval-prepare does not.  A uv sync whose harness is killed goes on       *)
(* writing the venv: it is an orphan.                                      *)
(***************************************************************************)
EXTENDS Naturals

CONSTANTS Proc,         \* processes, each running commands one after another
          Commands,     \* the commands they run
          MayCrash,     \* the commands that may be killed half-way
          Versions,     \* bound: versions of a source are 1 .. Versions
          Reverts,      \* may a source return to an earlier version?
          EditAnytime,  \* may a source change while a command runs?
          None,         \* no directory, no hash file
          Broken        \* a directory that matches no version

Version == 1 .. Versions

ASSUME CacheAssumption ==
  /\ Versions \in Nat \ {0}
  /\ Commands \subseteq {"prepare", "eval", "clean"}
  /\ MayCrash \subseteq Commands
  /\ Reverts \in BOOLEAN
  /\ EditAnytime \in BOOLEAN
  /\ None # Broken
  /\ None \notin Version /\ Broken \notin Version

Layer == {"bare", "venv"}

VARIABLES
  src,     \* src[l]: the version of the layer's source
  dir,     \* dir[l]: what the layer's directory was built from
  hash,    \* hash[l]: the version its hash file names
  pc,      \* pc[p]: the next step of p
  cmd,     \* cmd[p]: the command p runs
  layer,   \* layer[p]: the layer p ensures
  want,    \* want[p]: the hash p computed (fixture_hash, lock_hash)
  snap,    \* snap[p]: what p copied so far
  orphans, \* the versions that a uv sync left by a killed harness is building
  recent,  \* history: recent[p][l], the versions of l since p's command began
  spoilt   \* history: the layers that an orphan wrote into since their build began

disk == <<dir, hash>>
uv   == <<orphans, spoilt>>
vars == <<src, dir, hash, pc, cmd, layer, want, snap, recent, uv>>

Building == {"fresh", "rmdir", "rmtree", "rmhash", "copy", "build", "publish", "record"}
Wipes    == {"wipe", "wiping"}
Points   == Building \cup Wipes \cup {"idle", "needed", "hash", "use"}

Goto(p, point) == pc' = [pc EXCEPT ![p] = point]

Init ==
  /\ src = [l \in Layer |-> 1]
  /\ dir = [l \in Layer |-> None]
  /\ hash = [l \in Layer |-> None]
  /\ pc = [p \in Proc |-> "idle"]
  /\ cmd = [p \in Proc |-> "none"]
  /\ layer = [p \in Proc |-> "bare"]
  /\ want = [p \in Proc |-> None]
  /\ snap = [p \in Proc |-> None]
  /\ orphans = {}
  /\ recent = [p \in Proc |-> [l \in Layer |-> {}]]
  /\ spoilt = {}

-----------------------------------------------------------------------------
(* Commands start and end.                                                 *)

Locked(p) == pc[p] # "idle" /\ cmd[p] \in {"eval", "clean"}

FirstStep(c) ==
  CASE c = "prepare" -> "hash" [] c = "eval" -> "needed" [] c = "clean" -> "wipe"

\* Mutant: the cache is prepared before the lock is taken.
StartUnlocked(p) ==
  /\ pc[p] = "idle"
  /\ \E c \in Commands :
       /\ cmd' = [cmd EXCEPT ![p] = c]
       /\ Goto(p, FirstStep(c))
  /\ layer' = [layer EXCEPT ![p] = "bare"]
  /\ want' = [want EXCEPT ![p] = None]
  /\ snap' = [snap EXCEPT ![p] = None]
  /\ recent' = [recent EXCEPT ![p] = [l \in Layer |-> {src[l]}]]
  /\ UNCHANGED <<src, disk, uv>>

\* The campaign lock admits one eval or clean at a time.
Start(p) ==
  /\ pc[p] = "idle"
  /\ \E c \in Commands :
       /\ c \in {"eval", "clean"} => \A q \in Proc : ~Locked(q)
       /\ cmd' = [cmd EXCEPT ![p] = c]
       /\ Goto(p, FirstStep(c))
  /\ layer' = [layer EXCEPT ![p] = "bare"]
  /\ want' = [want EXCEPT ![p] = None]
  /\ snap' = [snap EXCEPT ![p] = None]
  /\ recent' = [recent EXCEPT ![p] = [l \in Layer |-> {src[l]}]]
  /\ UNCHANGED <<src, disk, uv>>

\* _prepare_needed: a layer missing, or its hash missing or stale.
Needed(p) ==
  /\ pc[p] = "needed"
  /\ Goto(p, IF \E l \in Layer : dir[l] = None \/ hash[l] # src[l]
               THEN "hash" ELSE "use")
  /\ UNCHANGED <<src, disk, cmd, layer, want, snap, recent, uv>>

\* _do_prepare: the bare repository, then the venv, then the command's work.
LayerDone(p) ==
  IF layer[p] = "bare"
    THEN layer' = [layer EXCEPT ![p] = "venv"] /\ Goto(p, "hash")
    ELSE UNCHANGED layer /\ Goto(p, IF cmd[p] = "eval" THEN "use" ELSE "idle")

\* An exception in a layer: _do_prepare skips the case, eval-all aborts.
CaseFailed(p) == Goto(p, "idle") /\ UNCHANGED layer

\* The cells clone the bare repository and run in the venv.
Use(p) ==
  /\ pc[p] = "use"
  /\ Goto(p, "idle")
  /\ UNCHANGED <<src, disk, cmd, layer, want, snap, recent, uv>>

-----------------------------------------------------------------------------
(* ensure_case_bare_repo and ensure_case_venv                              *)

ComputeHash(p) ==
  /\ pc[p] = "hash"
  /\ want' = [want EXCEPT ![p] = src[layer[p]]]
  /\ Goto(p, "fresh")
  /\ UNCHANGED <<src, disk, cmd, layer, snap, recent, uv>>

CheckFresh(p) ==
  /\ pc[p] = "fresh"
  /\ IF hash[layer[p]] = want[p] /\ dir[layer[p]] # None
       THEN LayerDone(p)
       ELSE Goto(p, "rmdir") /\ UNCHANGED layer
  /\ UNCHANGED <<src, disk, cmd, want, snap, recent, uv>>

\* Mutant: a stale directory is left for the move to replace.
KeepStaleDir(p) ==
  /\ pc[p] = "rmdir"
  /\ Goto(p, "rmhash")
  /\ UNCHANGED <<src, disk, cmd, layer, want, snap, recent, uv>>

\* shutil.rmtree of an existing directory: some files are gone...
RemoveDirBegin(p) ==
  /\ pc[p] = "rmdir"
  /\ IF dir[layer[p]] = None
       THEN Goto(p, "rmhash") /\ UNCHANGED dir
       ELSE Goto(p, "rmtree") /\ dir' = [dir EXCEPT ![layer[p]] = Broken]
  /\ UNCHANGED <<src, hash, cmd, layer, want, snap, recent, uv>>

\* ... then all of it; it raises when another process removed or replaced it,
RemoveDirEnd(p) ==
  /\ pc[p] = "rmtree"
  /\ IF dir[layer[p]] = Broken
       THEN /\ dir' = [dir EXCEPT ![layer[p]] = None]
            /\ Goto(p, "rmhash")
            /\ UNCHANGED layer
       ELSE CaseFailed(p) /\ UNCHANGED dir
  /\ UNCHANGED <<src, hash, cmd, want, snap, recent, uv>>

\* or puts new files below it meanwhile, as an orphan may (also in a wipe).
RemovalFails(p) ==
  /\ \/ pc[p] = "wipe"
     \/ pc[p] \in {"rmtree", "wiping"} /\ layer[p] = "venv"
  /\ orphans # {} /\ dir["venv"] # None
  /\ spoilt' = {"venv"}
  /\ CaseFailed(p)
  /\ UNCHANGED <<src, disk, cmd, want, snap, recent, orphans>>

RemoveHash(p) ==
  /\ pc[p] = "rmhash"
  /\ hash' = [hash EXCEPT ![layer[p]] = None]
  /\ Goto(p, "copy")
  /\ UNCHANGED <<src, dir, cmd, layer, want, snap, recent, uv>>

\* The source is read: the bare repository is built in a temporary
\* directory, the venv in place, on top of what an orphan put there.
CopyBegin(p) ==
  /\ pc[p] = "copy"
  /\ snap' = [snap EXCEPT ![p] = src[layer[p]]]
  /\ IF layer[p] = "venv"
       THEN /\ dir' = [dir EXCEPT !["venv"] = Broken]
            /\ spoilt' = IF dir["venv"] = None THEN {} ELSE spoilt
       ELSE UNCHANGED <<dir, spoilt>>
  /\ Goto(p, "build")
  /\ UNCHANGED <<src, hash, cmd, layer, want, recent, orphans>>

\* The rest of the fixture is copied and committed.
BuildBare(p) ==
  /\ pc[p] = "build" /\ layer[p] = "bare"
  /\ snap' = [snap EXCEPT ![p] = IF src["bare"] = @ THEN @ ELSE Broken]
  /\ Goto(p, "publish")
  /\ UNCHANGED <<src, disk, cmd, layer, want, recent, uv>>

\* shutil.move: into bare_dir, below it when it exists again.
Publish(p) ==
  /\ pc[p] = "publish"
  /\ dir' = IF dir["bare"] = None THEN [dir EXCEPT !["bare"] = snap[p]] ELSE dir
  /\ Goto(p, "record")
  /\ UNCHANGED <<src, hash, cmd, layer, want, snap, recent, uv>>

\* uv sync completes.
BuildVenv(p) ==
  /\ pc[p] = "build" /\ layer[p] = "venv"
  /\ dir' = [dir EXCEPT !["venv"] = snap[p]]
  /\ Goto(p, "record")
  /\ UNCHANGED <<src, hash, cmd, layer, want, snap, recent, uv>>

\* A git command or uv sync fails: a half-made venv stays, without a hash.
BuildFails(p) ==
  /\ pc[p] = "build"
  /\ CaseFailed(p)
  /\ UNCHANGED <<src, disk, cmd, want, snap, recent, uv>>

\* Mutant: the hash is computed when it is recorded, after the build.
RecordCurrent(p) ==
  /\ pc[p] = "record"
  /\ hash' = [hash EXCEPT ![layer[p]] = src[layer[p]]]
  /\ LayerDone(p)
  /\ UNCHANGED <<src, dir, cmd, want, snap, recent, uv>>

Record(p) ==
  /\ pc[p] = "record"
  /\ hash' = [hash EXCEPT ![layer[p]] = want[p]]
  /\ LayerDone(p)
  /\ UNCHANGED <<src, dir, cmd, want, snap, recent, uv>>

-----------------------------------------------------------------------------
(* eval-clean-cache: shutil.rmtree of .runs-cache, one entry after another *)
(* in directory order.                                                     *)

WipeDirBegin(p) ==
  /\ pc[p] = "wipe"
  /\ \E l \in Layer :
       /\ dir[l] # None
       /\ dir' = [dir EXCEPT ![l] = Broken]
       /\ layer' = [layer EXCEPT ![p] = l]
  /\ Goto(p, "wiping")
  /\ UNCHANGED <<src, hash, cmd, want, snap, recent, uv>>

WipeDirEnd(p) ==
  /\ pc[p] = "wiping"
  /\ IF dir[layer[p]] = Broken
       THEN dir' = [dir EXCEPT ![layer[p]] = None] /\ Goto(p, "wipe")
       ELSE UNCHANGED dir /\ Goto(p, "idle")
  /\ UNCHANGED <<src, hash, cmd, layer, want, snap, recent, uv>>

WipeHash(p) ==
  /\ pc[p] = "wipe"
  /\ \E l \in Layer : hash[l] # None /\ hash' = [hash EXCEPT ![l] = None]
  /\ UNCHANGED <<src, dir, pc, cmd, layer, want, snap, recent, uv>>

WipeEnd(p) ==
  /\ pc[p] = "wipe"
  /\ \A l \in Layer : dir[l] = None /\ hash[l] = None
  /\ Goto(p, "idle")
  /\ UNCHANGED <<src, disk, cmd, layer, want, snap, recent, uv>>

-----------------------------------------------------------------------------
(* The environment.                                                        *)

\* The harness is killed.  What it builds of the bare repository is in a
\* temporary directory, but its uv sync goes on, if it is not killed as well
\* (subprocess.run kills it when the harness is interrupted from the keyboard).
Crash(p) ==
  /\ pc[p] # "idle" /\ cmd[p] \in MayCrash
  /\ Goto(p, "idle")
  /\ \/ pc[p] = "build" /\ layer[p] = "venv" /\ orphans' = orphans \cup {snap[p]}
     \/ UNCHANGED orphans
  /\ UNCHANGED <<src, disk, cmd, layer, want, snap, recent, spoilt>>

\* An orphan goes on with the venv, or completes it as it would have been.
OrphanWrites(v) ==
  /\ v \in orphans
  /\ \E made \in {Broken, v} : dir' = [dir EXCEPT !["venv"] = made]
  /\ spoilt' = {"venv"}
  /\ UNCHANGED <<src, hash, pc, cmd, layer, want, snap, recent, orphans>>

OrphanEnds(v) ==
  /\ v \in orphans
  /\ orphans' = orphans \ {v}
  /\ UNCHANGED <<src, disk, pc, cmd, layer, want, snap, recent, spoilt>>

\* The developer edits a fixture or switches branches.
Edit(l) ==
  /\ EditAnytime \/ \A p \in Proc : pc[p] = "idle"
  /\ \E v \in Version :
       /\ IF Reverts THEN v # src[l] ELSE v = src[l] + 1
       /\ src' = [src EXCEPT ![l] = v]
       /\ recent' = [p \in Proc |-> [recent[p] EXCEPT ![l] = @ \cup {v}]]
  /\ UNCHANGED <<disk, pc, cmd, layer, want, snap, uv>>

Ensure(p) ==
  \/ ComputeHash(p) \/ CheckFresh(p)
  \/ RemoveDirBegin(p) \/ RemoveDirEnd(p) \/ RemoveHash(p)
  \/ CopyBegin(p) \/ BuildBare(p) \/ BuildVenv(p) \/ BuildFails(p)
  \/ Publish(p) \/ Record(p)

Wipe(p) == WipeDirBegin(p) \/ WipeDirEnd(p) \/ WipeHash(p) \/ WipeEnd(p)

Next ==
  \/ \E p \in Proc :
       \/ Start(p) \/ Needed(p) \/ Ensure(p) \/ Use(p) \/ Wipe(p)
       \/ RemovalFails(p) \/ Crash(p)
  \/ \E v \in Version : OrphanWrites(v) \/ OrphanEnds(v)
  \/ \E l \in Layer : Edit(l)

Spec == Init /\ [][Next]_vars

-----------------------------------------------------------------------------
(* Properties                                                              *)

\* Types of the state; whoever rebuilds a layer has computed its hash.
TypeOK ==
  /\ src \in [Layer -> Version]
  /\ dir \in [Layer -> Version \cup {None, Broken}]
  /\ hash \in [Layer -> Version \cup {None}]
  /\ pc \in [Proc -> Points]
  /\ cmd \in [Proc -> {"none", "prepare", "eval", "clean"}]
  /\ layer \in [Proc -> Layer]
  /\ want \in [Proc -> Version \cup {None}]
  /\ snap \in [Proc -> Version \cup {None, Broken}]
  /\ orphans \subseteq Version
  /\ recent \in [Proc -> [Layer -> SUBSET Version]]
  /\ spoilt \subseteq {"venv"}
  /\ \A p \in Proc :
       /\ pc[p] \in Building => want[p] \in Version
       /\ pc[p] = "build" => snap[p] \in Version

\* eval-clean-cache is half-way through l's directory.
Wiping(l) == \E p \in Proc : pc[p] = "wiping" /\ layer[p] = l

\* ensure_case_bare_repo, ensure_case_venv: a layer that the freshness check
\* would accept now really is built from the present source, whatever
\* failed, was killed or was edited before, unless an orphaned uv sync wrote
\* into the venv (or a wipe is half-way through it).
FreshMeansIntact ==
  \A l \in Layer :
    hash[l] = src[l] /\ dir[l] # None =>
      dir[l] = src[l] \/ Wiping(l) \/ l \in spoilt

\* The hash is computed before the source is copied, so a whole directory
\* is never older than its hash says: an edit in between costs a rebuild.
\* Only an orphaned uv sync may put an older venv under a newer hash.
NeverOlderThanHash ==
  \A l \in Layer :
    hash[l] \in Version /\ dir[l] \in Version => dir[l] >= hash[l] \/ l \in spoilt

\* eval, eval-all: the cells run on a bare repository and a venv that match
\* a version the sources had since the command began, never on a stale or a
\* half-built or half-removed one, but for a venv an orphan wrote into.
CellsUseIntactCache ==
  \A p \in Proc : pc[p] = "use" =>
    \A l \in Layer : dir[l] \in recent[p][l] \/ l \in spoilt
=============================================================================
