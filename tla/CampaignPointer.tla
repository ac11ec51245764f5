--------------------------- MODULE CampaignPointer ---------------------------
(***************************************************************************)
(* The directory runs/ of src/evals/evals: campaigns, the symlink CURRENT  *)
(* and the temporary CURRENT.tmp all invocations share.  eval_new and      *)
(* current_campaign of campaign.py, and the commands of cli.py that create *)
(* a campaign, work in the current one or remove all of them.              *)
(*                                                                         *)
(* A process is one invocation; the campaign it may create carries its     *)
(* name (_create_unique_campaign_dir never reuses a directory).  Taking    *)
(* and releasing a campaign's lock are single steps here: CampaignLock     *)
(* shows how they are made of file-system calls.  Removing runs/ is not:   *)
(* rmtree unlinks .lock, manifest.json and the rest of a campaign one by   *)
(* one, beside whoever works there or takes the lock again.                *)
(***************************************************************************)
EXTENDS Naturals

CONSTANTS Proc,     \* the invocations
          First,    \* a campaign from before
          None,     \* no campaign; no lock
          Cleaners, \* bound: invocations that may be eval-clean-runs
          MayCrash  \* invocations that may be killed

ASSUME PointerAssumption ==
  /\ {First, None} \cap Proc = {} /\ First # None
  /\ Cleaners \cup MayCrash \subseteq Proc

Campaign == Proc \cup {First}

VARIABLES
  runs,      \* does the directory runs/ exist?
  dirs,      \* the campaign directories in it
  manifests, \* those with a manifest.json
  cells,     \* those with a directory of cells or a report.md
  locks,     \* locks[c]: who the lock file of c names, or None
  current,   \* what runs/CURRENT points to, or None
  tmp,       \* what runs/CURRENT.tmp points to, or None
  pc,        \* pc[p]: the next call of p
  op,        \* op[p]: its command
  existing,  \* existing[p]: what current_campaign returned to p
  todo,      \* todo[p]: the entries that rmtree of p has yet to remove
  inside,    \* inside[p]: the campaign whose directory it has listed, or None
  result,    \* result[p]: "none", "ok" or "failed"
  cleaned,   \* history: somebody has begun to remove runs/
  doomed,    \* history: campaigns somebody has begun to remove
  pointed,   \* history: campaigns CURRENT has pointed to
  overlap    \* history: two invocations were creating campaigns at once

tree == <<runs, dirs, manifests, cells, locks, current, tmp>>
rmtree == <<todo, inside>>
history == <<cleaned, doomed, pointed, overlap>>
vars == <<tree, pc, op, existing, rmtree, result, history>>

\* "eval-all" stands for eval, too, which in a campaign does the same calls.
Op == {"eval-new", "eval-all", "eval-clean-runs"}
Creating == {"mkdir", "manifest", "tmp", "unlink", "symlink", "rename"}
Points == Creating \cup {"begin", "lock", "open", "work", "list", "rmtree",
                         "release", "over", "dead"}
Link == {"CURRENT", "CURRENT.tmp"}
File == {".lock", "manifest.json", "cells"}

Over(p) == pc[p] \in {"over", "dead"}
Goto(p, l) == pc' = [pc EXCEPT ![p] = l]
At(p, l) == pc[p] = l

Init ==
  /\ current \in {None, First}
  /\ runs = (current = First)
  /\ dirs = {First} \ {IF runs THEN None ELSE First}
  /\ manifests = dirs /\ cells \in {{}, dirs}
  /\ locks = [c \in Campaign |-> None]
  /\ tmp = None
  /\ pc = [p \in Proc |-> "begin"]
  /\ op = [p \in Proc |-> "eval-all"]
  /\ existing = [p \in Proc |-> None]
  /\ todo = [p \in Proc |-> {}] /\ inside = [p \in Proc |-> None]
  /\ result = [p \in Proc |-> "none"]
  /\ cleaned = FALSE /\ doomed = {} /\ pointed = dirs /\ overlap = FALSE

-----------------------------------------------------------------------------
(* current_campaign, and the lock of what it returned.                     *)

\* Mutant: eval_new does not lock the campaign it replaces.
BeginUnlocked(p) ==
  /\ At(p, "begin")
  /\ existing' = [existing EXCEPT ![p] = current]
  /\ \E o \in Op \ (IF p \in Cleaners THEN {} ELSE {"eval-clean-runs"}) :
       /\ op' = [op EXCEPT ![p] = o]
       /\ Goto(p, CASE o = "eval-new" -> "mkdir"
                    [] o # "eval-new" /\ current # None ->
                         IF o = "eval-all" THEN "open" ELSE "lock"
                    [] OTHER -> IF o = "eval-all" THEN "mkdir" ELSE "list")
  /\ UNCHANGED <<tree, rmtree, result, history>>

\* eval-all reads the manifest before it locks; without a current campaign it
\* creates one (eval ends instead) and nothing is locked.
Begin(p) ==
  /\ At(p, "begin")
  /\ existing' = [existing EXCEPT ![p] = current]
  /\ \E o \in Op \ (IF p \in Cleaners THEN {} ELSE {"eval-clean-runs"}) :
       /\ op' = [op EXCEPT ![p] = o]
       /\ \/ /\ current # None
             /\ Goto(p, IF o = "eval-all" THEN "open" ELSE "lock")
          \/ /\ current = None
             /\ Goto(p, IF o = "eval-clean-runs" THEN "list" ELSE "mkdir")
          \/ current = None /\ o = "eval-all" /\ Goto(p, "over")
  /\ UNCHANGED <<tree, rmtree, result, history>>

\* The campaign whose lock p takes: the one it found, or its own.
Target(p) == IF existing[p] = None THEN p ELSE existing[p]

\* A command that ends early; what it has locked it releases.
Fail(p) ==
  /\ result' = [result EXCEPT ![p] = "failed"]
  /\ Goto(p, "release")

\* The manifest of the campaign p is to work in.
Open(p) ==
  /\ At(p, "open")
  /\ IF Target(p) \in manifests THEN Goto(p, "lock") /\ UNCHANGED result
                                ELSE Fail(p)
  /\ UNCHANGED <<tree, op, existing, rmtree, history>>

Body(p) == CASE op[p] = "eval-new" -> "mkdir"
             [] op[p] = "eval-clean-runs" -> "list"
             [] OTHER -> "work"

\* lock(): a lock whose owner is dead is taken over; a directory that is
\* gone is an error.
Lock(p) ==
  /\ At(p, "lock")
  /\ LET c == Target(p)
         owner == locks[c]
     IN IF c \in dirs /\ (owner = None \/ (owner # None /\ Over(owner)))
          THEN /\ locks' = [locks EXCEPT ![c] = p]
               /\ Goto(p, Body(p))
               /\ overlap' = (overlap \/ (op[p] = "eval-new"
                                /\ \E q \in Proc \ {p} : pc[q] \in Creating))
               /\ UNCHANGED result
          ELSE Fail(p) /\ UNCHANGED <<locks, overlap>>
  /\ UNCHANGED <<runs, dirs, manifests, cells, current, tmp, op, existing, rmtree,
                 cleaned, doomed, pointed>>

\* The process is gone, and what it knew with it.
Ended(p) ==
  /\ existing' = [existing EXCEPT ![p] = None]
  /\ todo' = [todo EXCEPT ![p] = {}] /\ inside' = [inside EXCEPT ![p] = None]

Release(p) ==
  /\ At(p, "release") /\ Goto(p, "over") /\ Ended(p)
  /\ locks' = [c \in Campaign |-> IF locks[c] = p THEN None ELSE locks[c]]
  /\ UNCHANGED <<runs, dirs, manifests, cells, current, tmp, op, result, history>>

\* mkdir -p of a cell: a campaign directory that was removed comes back.
RunCell(p) ==
  /\ At(p, "work")
  /\ runs' = TRUE /\ dirs' = dirs \cup {Target(p)} /\ cells' = cells \cup {Target(p)}
  /\ UNCHANGED <<manifests, locks, current, tmp, pc, op, existing, rmtree, result,
                 history>>

\* write_report reads the manifest again.
Report(p) ==
  /\ At(p, "work")
  /\ IF Target(p) \in manifests
       THEN /\ cells' = cells \cup {Target(p)}
            /\ Goto(p, "release") /\ result' = [result EXCEPT ![p] = "ok"]
       ELSE Fail(p) /\ UNCHANGED cells
  /\ UNCHANGED <<runs, dirs, manifests, locks, current, tmp, op, existing, rmtree,
                 history>>

-----------------------------------------------------------------------------
(* eval_new                                                                *)

MkDir(p) ==
  /\ At(p, "mkdir") /\ Goto(p, "manifest")
  /\ runs' = TRUE /\ dirs' = dirs \cup {p}
  /\ overlap' = (overlap \/ \E q \in Proc \ {p} : pc[q] \in Creating)
  /\ UNCHANGED <<manifests, cells, locks, current, tmp, op, existing, rmtree, result,
                 cleaned, doomed, pointed>>

\* Mutant: the manifest is left to whoever opens the campaign first.
NoManifest(p) ==
  /\ At(p, "manifest") /\ Goto(p, "tmp")
  /\ UNCHANGED <<tree, op, existing, rmtree, result, history>>

WriteManifest(p) ==
  /\ At(p, "manifest")
  /\ IF p \in dirs
       THEN manifests' = manifests \cup {p} /\ Goto(p, "tmp") /\ UNCHANGED result
       ELSE Fail(p) /\ UNCHANGED manifests
  /\ UNCHANGED <<runs, dirs, cells, locks, current, tmp, op, existing, rmtree, history>>

\* Mutant: a CURRENT.tmp that is already there is used as it is.
ReuseTmp(p) ==
  /\ At(p, "tmp")
  /\ Goto(p, IF tmp # None THEN "rename" ELSE "symlink")
  /\ UNCHANGED <<tree, op, existing, rmtree, result, history>>

\* Mutant: nobody expects a CURRENT.tmp.
NoTmpCheck(p) ==
  /\ At(p, "tmp") /\ Goto(p, "symlink")
  /\ UNCHANGED <<tree, op, existing, rmtree, result, history>>

\* Is there a CURRENT.tmp?
CheckTmp(p) ==
  /\ At(p, "tmp")
  /\ Goto(p, IF tmp # None THEN "unlink" ELSE "symlink")
  /\ UNCHANGED <<tree, op, existing, rmtree, result, history>>

\* unlink, symlink and rename fail if somebody else was faster.
UnlinkTmp(p) ==
  /\ At(p, "unlink")
  /\ IF tmp # None THEN Goto(p, "symlink") /\ UNCHANGED result ELSE Fail(p)
  /\ tmp' = None
  /\ UNCHANGED <<runs, dirs, manifests, cells, locks, current, op, existing, rmtree,
                 history>>

Symlink(p) ==
  /\ At(p, "symlink")
  /\ IF tmp = None /\ runs
       THEN tmp' = p /\ Goto(p, "rename") /\ UNCHANGED result
       ELSE Fail(p) /\ UNCHANGED tmp
  /\ UNCHANGED <<runs, dirs, manifests, cells, locks, current, op, existing, rmtree,
                 history>>

\* eval-new is done; eval-all goes on in the campaign it has created.
Rename(p) ==
  /\ At(p, "rename")
  /\ IF tmp # None
       THEN /\ current' = tmp /\ tmp' = None
            /\ pointed' = pointed \cup {tmp}
            /\ IF op[p] = "eval-all"
                 THEN Goto(p, "open") /\ UNCHANGED result
                 ELSE Goto(p, "release") /\ result' = [result EXCEPT ![p] = "ok"]
       ELSE Fail(p) /\ UNCHANGED <<current, tmp, pointed>>
  /\ UNCHANGED <<runs, dirs, manifests, cells, locks, op, existing, rmtree, cleaned,
                 doomed, overlap>>

-----------------------------------------------------------------------------
(* eval-clean-runs: rmtree(runs)                                           *)

\* A directory's entries are listed once and then removed in any order.
List(p) ==
  /\ At(p, "list")
  /\ IF runs
       THEN /\ Goto(p, "rmtree")
            /\ todo' = [todo EXCEPT ![p] = dirs
                          \cup (IF current # None THEN {"CURRENT"} ELSE {})
                          \cup (IF tmp # None THEN {"CURRENT.tmp"} ELSE {})]
            /\ cleaned' = TRUE /\ UNCHANGED result
       ELSE /\ Goto(p, "release") /\ result' = [result EXCEPT ![p] = "ok"]
            /\ UNCHANGED <<todo, cleaned>>
  /\ UNCHANGED <<tree, op, existing, inside, doomed, pointed, overlap>>

\* What is in the directory of c.
Content(c) == {f \in File :
  CASE f = ".lock" -> locks[c] # None
    [] f = "manifest.json" -> c \in manifests
    [] OTHER -> c \in cells}

\* The entries p may turn to: those of the campaign it is in, then the
\* campaign's directory itself.
Now(p) == CASE inside[p] = None -> todo[p]
            [] todo[p] \cap File # {} -> todo[p] \cap File
            [] OTHER -> {inside[p]}

Did(p, e) ==
  /\ todo' = [todo EXCEPT ![p] = @ \ {e}]
  /\ inside' = [inside EXCEPT ![p] = IF @ = e THEN None ELSE @]

\* rmtree lists the directory of a campaign,
Enter(p) ==
  /\ At(p, "rmtree") /\ inside[p] = None
  /\ \E c \in Now(p) \cap dirs :
       /\ todo' = [todo EXCEPT ![p] = @ \cup Content(c)]
       /\ inside' = [inside EXCEPT ![p] = c]
       /\ doomed' = doomed \cup {c}
  /\ UNCHANGED <<tree, pc, op, existing, result, cleaned, pointed, overlap>>

\* unlinks what was there, whoever has put it there, also the lock file p
\* holds itself,
RemoveFile(p) ==
  /\ At(p, "rmtree") /\ inside[p] # None
  /\ \E f \in Now(p) \cap Content(inside[p]) :
       /\ Did(p, f)
       /\ locks' = IF f = ".lock" THEN [locks EXCEPT ![inside[p]] = None] ELSE locks
       /\ manifests' = IF f = "manifest.json" THEN manifests \ {inside[p]} ELSE manifests
       /\ cells' = IF f = "cells" THEN cells \ {inside[p]} ELSE cells
  /\ UNCHANGED <<runs, dirs, current, tmp, pc, op, existing, result, history>>

\* and then the directory, if nobody has added an entry.
RemoveDir(p) ==
  /\ At(p, "rmtree")
  /\ inside[p] \in Now(p) \cap dirs
  /\ IF Content(inside[p]) = {}
       THEN /\ dirs' = dirs \ {inside[p]} /\ Did(p, inside[p])
            /\ UNCHANGED <<pc, result>>
       ELSE Fail(p) /\ UNCHANGED <<dirs, rmtree>>
  /\ UNCHANGED <<runs, manifests, cells, locks, current, tmp, op, existing, history>>

RemoveLink(p) ==
  /\ At(p, "rmtree")
  /\ \/ /\ "CURRENT" \in Now(p) /\ current # None
        /\ Did(p, "CURRENT") /\ current' = None /\ UNCHANGED tmp
     \/ /\ "CURRENT.tmp" \in Now(p) /\ tmp # None
        /\ Did(p, "CURRENT.tmp") /\ tmp' = None /\ UNCHANGED current
  /\ UNCHANGED <<runs, dirs, manifests, cells, locks, pc, op, existing, result, history>>

\* An entry of the list that is not there any more.
Vanished(p, e) ==
  /\ e \in Now(p)
  /\ CASE e \in Campaign -> e \notin dirs
       [] e = "CURRENT" -> current = None
       [] e = "CURRENT.tmp" -> tmp = None
       [] OTHER -> e \notin Content(inside[p])

\* An entry that vanished meanwhile is an error,
RemoveFails(p) ==
  /\ At(p, "rmtree") /\ \E e \in Now(p) : Vanished(p, e)
  /\ Fail(p)
  /\ UNCHANGED <<tree, op, existing, rmtree, history>>

\* or, since Python 3.13, ignored.
RemoveSkips(p) ==
  /\ At(p, "rmtree")
  /\ \E e \in Now(p) : Vanished(p, e) /\ Did(p, e)
  /\ UNCHANGED <<tree, pc, op, existing, result, history>>

\* rmdir of runs/ fails, too, when somebody has added an entry.
RemoveRuns(p) ==
  /\ At(p, "rmtree") /\ todo[p] = {}
  /\ IF runs /\ dirs = {} /\ current = None /\ tmp = None
       THEN /\ runs' = FALSE
            /\ Goto(p, "release") /\ result' = [result EXCEPT ![p] = "ok"]
       ELSE Fail(p) /\ UNCHANGED runs
  /\ UNCHANGED <<dirs, manifests, cells, locks, current, tmp, op, existing, rmtree,
                 history>>

-----------------------------------------------------------------------------

Crash(p) ==
  /\ p \in MayCrash /\ pc[p] \notin {"begin", "over", "dead"}
  /\ Goto(p, "dead") /\ Ended(p)
  /\ UNCHANGED <<tree, op, result, history>>

AllOver == (\A p \in Proc : Over(p)) /\ UNCHANGED vars

EvalNew(p) ==
  \/ MkDir(p) \/ WriteManifest(p) \/ CheckTmp(p) \/ UnlinkTmp(p) \/ Symlink(p)
  \/ Rename(p)

CleanRuns(p) ==
  \/ List(p) \/ Enter(p) \/ RemoveFile(p) \/ RemoveDir(p) \/ RemoveLink(p)
  \/ RemoveFails(p) \/ RemoveSkips(p) \/ RemoveRuns(p)

Step(p) ==
  \/ Begin(p) \/ Open(p) \/ Lock(p) \/ Release(p) \/ RunCell(p) \/ Report(p)
  \/ EvalNew(p) \/ CleanRuns(p)

Next == (\E p \in Proc : Step(p) \/ Crash(p)) \/ AllOver

\* No call blocks and the kernel lets some live process run.
Spec == Init /\ [][Next]_vars /\ WF_vars(\E p \in Proc : Step(p))

-----------------------------------------------------------------------------
(* Properties                                                              *)

TypeOK ==
  /\ runs \in BOOLEAN
  /\ dirs \subseteq Campaign /\ manifests \cup cells \subseteq dirs
  /\ locks \in [Campaign -> Proc \cup {None}]
  /\ current \in Campaign \cup {None} /\ tmp \in Campaign \cup {None}
  /\ pc \in [Proc -> Points] /\ op \in [Proc -> Op]
  /\ existing \in [Proc -> Campaign \cup {None}]
  /\ todo \in [Proc -> SUBSET (Campaign \cup Link \cup File)]
  /\ inside \in [Proc -> Campaign \cup {None}]
  /\ result \in [Proc -> {"none", "ok", "failed"}]
  /\ cleaned \in BOOLEAN /\ doomed \subseteq Campaign /\ pointed \subseteq Campaign /\ overlap \in BOOLEAN
  /\ dirs # {} \/ current # None \/ tmp # None => runs

\* Until runs/ is removed CURRENT names a campaign with its manifest, also
\* when several eval-new use one CURRENT.tmp at once or are killed.
CurrentComplete == ~cleaned /\ current # None => current \in manifests

\* An eval-new that reports success has made its own campaign the current
\* one, whatever a killed predecessor left in CURRENT.tmp, unless somebody
\* else created a campaign at the same time.
NewTakesEffect ==
  \A p \in Proc :
    op[p] = "eval-new" /\ result[p] = "ok" /\ ~overlap => p \in pointed

\* A campaign that a live invocation has locked.
LockedByOther(p, c) == locks[c] # None /\ locks[c] # p /\ ~Over(locks[c])

\* The lock protects its campaign until somebody removes it: while one
\* invocation holds it no other that found the campaign to be the current one
\* moves CURRENT away from it or begins to remove it.  (Once a removal, which
\* also unlinks the lock file, has begun, that is lost: the campaign may be
\* locked again and lose the rest of its files under that lock.)
LockProtects ==
  [][\A p \in Proc, c \in Campaign :
       existing[p] = c /\ LockedByOther(p, c) /\ c \notin doomed =>
         /\ current = c /\ current' # c => ~(At(p, "rename") /\ pc'[p] # pc[p])
         /\ c \in doomed' => inside'[p] # c]_vars

\* eval-new refuses to repoint CURRENT while its campaign is locked.
RepointOnlyUnlocked ==
  [][\A p \in Proc :
       At(p, "rename") /\ current' # current /\ current # None =>
         ~LockedByOther(p, current)]_vars

\* Locks and a CURRENT.tmp left by killed invocations stop nobody: an
\* eval-new that finds all others over and is not killed itself creates its
\* campaign.
LastOneCreates ==
  \A p \in Proc \ MayCrash :
    (/\ op[p] = "eval-new" /\ pc[p] \in {"lock", "mkdir"} /\ ~cleaned
     /\ \A q \in Proc \ {p} : Over(q))
      ~> (result[p] = "ok")
=============================================================================
