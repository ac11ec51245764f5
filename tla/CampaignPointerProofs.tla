----------------------- MODULE CampaignPointerProofs -----------------------
(***************************************************************************)
(* Proofs about runs/ and CURRENT, for any number of invocations and any   *)
(* of them being killed.                                                   *)
(***************************************************************************)
EXTENDS CampaignPointer, TLAPS

-----------------------------------------------------------------------------
(* The inductive invariants.                                               *)

\* Until runs/ is removed everything that CURRENT points to, or is about
\* to, has its manifest.
CompleteInv ==
  ~cleaned =>
    /\ current # None => current \in manifests
    /\ tmp # None => tmp \in manifests
    /\ \A p \in Proc : pc[p] \in {"tmp", "unlink", "symlink"} => p \in manifests
    /\ \A p \in Proc : pc[p] # "rmtree"

\* Between its directory and its rename.
Making == Creating \ {"mkdir"}

\* Without overlap one invocation at a time is about CURRENT.tmp, and what
\* it finds there is its own.
EffectInv ==
  /\ ~overlap => \A p, q \in Proc : {pc[p], pc[q]} \subseteq Making => p = q
  /\ ~overlap => \A p \in Proc : pc[p] = "rename" => tmp \in {p, None}
  /\ \A p \in Proc :
       /\ pc[p] \in {"begin", "lock", "open"} \cup Creating => result[p] = "none"
       /\ pc[p] = "work" => op[p] # "eval-new"
       /\ pc[p] \in {"list", "rmtree"} => op[p] = "eval-clean-runs"
  /\ NewTakesEffect

\* Whoever works in a campaign it found holds its lock, unless somebody has
\* begun to remove that campaign.
Inside == Creating \cup {"work", "list", "rmtree"}
LockInv ==
  \A p \in Proc :
    /\ pc[p] \in Inside /\ existing[p] # None =>
         locks[existing[p]] = p \/ existing[p] \in doomed
    /\ inside[p] # None => inside[p] \in doomed

-----------------------------------------------------------------------------
(* Type correctness.                                                       *)

LEMMA Facts ==
  /\ None \notin Campaign /\ First \notin Proc /\ First \in Campaign
  /\ \A p \in Proc : p \in Campaign /\ p # None /\ p # First
BY PointerAssumption DEF Campaign

\* The next step of p, and nobody else's.
LEMMA GotoMoves ==
  ASSUME TypeOK, NEW p \in Proc, NEW l, Goto(p, l)
  PROVE  /\ pc'[p] = l /\ \A q \in Proc : q # p => pc'[q] = pc[q]
         /\ l \in Points => pc' \in [Proc -> Points]
BY DEF TypeOK, Goto

\* A failed step only sets the result and releases.
LEMMA FailMoves ==
  ASSUME TypeOK, NEW p \in Proc, Fail(p)
  PROVE  /\ pc'[p] = "release" /\ \A q \in Proc : q # p => pc'[q] = pc[q]
         /\ result'[p] = "failed" /\ \A q \in Proc : q # p => result'[q] = result[q]
         /\ pc' \in [Proc -> Points]
         /\ result' \in [Proc -> {"none", "ok", "failed"}]
<1>1. Goto(p, "release") /\ "release" \in Points
  BY DEF Fail, Points
<1>2. result' = [result EXCEPT ![p] = "failed"]
  BY DEF Fail
<1> QED
  BY <1>1, <1>2, GotoMoves DEF TypeOK

LEMMA TypeOKBegin == ASSUME TypeOK, NEW p \in Proc, Begin(p) PROVE TypeOK'
<1>1. /\ existing' = [existing EXCEPT ![p] = current]
      /\ UNCHANGED <<tree, rmtree, result, history>>
  BY DEF Begin
<1>2. PICK o \in Op :
        /\ op' = [op EXCEPT ![p] = o]
        /\ \E l \in {"lock", "open", "mkdir", "list", "over"} : Goto(p, l)
  BY DEF Begin
<1>3. pc' \in [Proc -> Points]
  BY <1>2, GotoMoves DEF Points, Creating
<1> QED
  BY <1>1, <1>2, <1>3 DEF TypeOK, tree, rmtree, history

LEMMA TypeOKLock == ASSUME TypeOK, NEW p \in Proc, Lock(p) PROVE TypeOK'
<1>1. UNCHANGED <<runs, dirs, manifests, cells, current, tmp, op, existing, todo, inside,
                  cleaned, doomed, pointed>>
  BY DEF Lock, rmtree
<1>2. Target(p) \in Campaign
  BY Facts DEF TypeOK, Target
<1>3. CASE Fail(p) /\ UNCHANGED <<locks, overlap>>
  BY <1>1, <1>3, FailMoves DEF TypeOK
<1>4. CASE /\ locks' = [locks EXCEPT ![Target(p)] = p]
           /\ Goto(p, Body(p)) /\ UNCHANGED result
           /\ overlap' = (overlap \/ (op[p] = "eval-new"
                            /\ \E q \in Proc \ {p} : pc[q] \in Creating))
  <2>1. Body(p) \in Points
    BY DEF Body, Points, Creating, TypeOK, Op
  <2>2. pc' \in [Proc -> Points]
    BY <1>4, <2>1, GotoMoves
  <2>3. overlap' \in BOOLEAN
    BY <1>4 DEF TypeOK
  <2> QED
    BY <1>1, <1>2, <1>4, <2>2, <2>3 DEF TypeOK
<1> QED
  BY <1>3, <1>4 DEF Lock

LEMMA TypeOKNew == ASSUME TypeOK, NEW p \in Proc, EvalNew(p) PROVE TypeOK'
<1> USE Facts, GotoMoves, FailMoves DEF TypeOK, Points, Creating
<1>1. CASE MkDir(p)
  BY <1>1 DEF MkDir, rmtree
<1>2. CASE WriteManifest(p)
  BY <1>2 DEF WriteManifest, rmtree, history
<1>3. CASE CheckTmp(p)
  BY <1>3 DEF CheckTmp, tree, rmtree, history
<1>4. CASE UnlinkTmp(p)
  BY <1>4 DEF UnlinkTmp, rmtree, history
<1>5. CASE Symlink(p)
  BY <1>5 DEF Symlink, rmtree, history
<1>6. CASE Rename(p)
  BY <1>6 DEF Rename, rmtree
<1> QED
  BY <1>1, <1>2, <1>3, <1>4, <1>5, <1>6 DEF EvalNew

LEMMA DidMoves ==
  ASSUME TypeOK, NEW p \in Proc, NEW e, Did(p, e)
  PROVE  /\ todo' \in [Proc -> SUBSET (Campaign \cup Link \cup File)]
         /\ inside' \in [Proc -> Campaign \cup {None}]
         /\ \A q \in Proc : inside'[q] \in {inside[q], None}
BY DEF Did, TypeOK

LEMMA TypeOKClean == ASSUME TypeOK, NEW p \in Proc, CleanRuns(p) PROVE TypeOK'
<1> USE Facts, GotoMoves, FailMoves DEF TypeOK, Points, Creating
<1>1. CASE List(p)
  <2> DEFINE D == dirs \cup (IF current # None THEN {"CURRENT"} ELSE {})
                       \cup (IF tmp # None THEN {"CURRENT.tmp"} ELSE {})
  <2>1. D \subseteq Campaign \cup Link \cup File
    BY DEF Link
  <2> HIDE DEF D
  <2>2. todo' \in [Proc -> SUBSET (Campaign \cup Link \cup File)]
    BY <1>1, <2>1 DEF List, D
  <2>3. cleaned' \in BOOLEAN /\ result' \in [Proc -> {"none", "ok", "failed"}]
    <3>1. \/ cleaned' = TRUE /\ result' = result
          \/ cleaned' = cleaned /\ result' = [result EXCEPT ![p] = "ok"]
      BY <1>1 DEF List
    <3> QED
      BY <3>1
  <2>4. pc' \in [Proc -> Points]
    BY <1>1 DEF List
  <2>5. UNCHANGED <<runs, dirs, manifests, cells, locks, current, tmp, op, existing,
                    inside, doomed, pointed, overlap>>
    BY <1>1 DEF List, tree
  <2> QED
    BY <2>2, <2>3, <2>4, <2>5
<1>2. CASE Enter(p)
  <2>1. PICK c \in Now(p) \cap dirs :
          /\ todo' = [todo EXCEPT ![p] = @ \cup Content(c)]
          /\ inside' = [inside EXCEPT ![p] = c]
          /\ doomed' = doomed \cup {c}
    BY <1>2 DEF Enter
  <2>2. Content(c) \subseteq File /\ c \in Campaign
    BY DEF Content
  <2>3. /\ todo' \in [Proc -> SUBSET (Campaign \cup Link \cup File)]
        /\ inside' \in [Proc -> Campaign \cup {None}] /\ doomed' \subseteq Campaign
    BY <2>1, <2>2
  <2> QED
    BY <1>2, <2>3 DEF Enter, tree
<1>3. CASE RemoveFile(p)
  <2>1. inside[p] \in Campaign
    BY <1>3 DEF RemoveFile
  <2>2. PICK f \in Now(p) \cap Content(inside[p]) :
       /\ Did(p, f)
       /\ locks' = IF f = ".lock" THEN [locks EXCEPT ![inside[p]] = None] ELSE locks
       /\ manifests' = IF f = "manifest.json" THEN manifests \ {inside[p]} ELSE manifests
       /\ cells' = IF f = "cells" THEN cells \ {inside[p]} ELSE cells
    BY <1>3 DEF RemoveFile
  <2>3. locks' \in [Campaign -> Proc \cup {None}] /\ manifests' \cup cells' \subseteq dirs
    BY <2>1, <2>2
  <2>4. UNCHANGED <<runs, dirs, current, tmp, pc, op, existing, result, cleaned, doomed,
                    pointed, overlap>>
    BY <1>3 DEF RemoveFile, history
  <2> QED
    BY <2>2, <2>3, <2>4, DidMoves
<1>4. CASE RemoveDir(p)
  <2>1. inside[p] \in Campaign
    BY <1>4 DEF RemoveDir
  <2>2. CASE Content(inside[p]) = {}
    <3>1. "manifest.json" \notin Content(inside[p]) /\ "cells" \notin Content(inside[p])
      BY <2>2
    <3>2. inside[p] \notin manifests /\ inside[p] \notin cells
      BY <3>1 DEF Content, File
    <3>3. dirs' = dirs \ {inside[p]} /\ Did(p, inside[p]) /\ UNCHANGED <<pc, result>>
      BY <1>4, <2>2 DEF RemoveDir
    <3>4. UNCHANGED <<runs, manifests, cells, locks, current, tmp, op, existing, cleaned,
                      doomed, pointed, overlap>>
      BY <1>4 DEF RemoveDir, history
    <3>5. dirs' # {} \/ current # None \/ tmp # None => runs
      BY <1>4 DEF RemoveDir
    <3> QED
      BY <3>2, <3>3, <3>4, <3>5, DidMoves
  <2>3. CASE Content(inside[p]) # {}
    BY <1>4, <2>3 DEF RemoveDir, rmtree, history
  <2> QED
    BY <2>2, <2>3
<1>5. CASE RemoveLink(p)
  <2>1. PICK e : Did(p, e)
    BY <1>5 DEF RemoveLink
  <2> QED
    BY <1>5, <2>1, DidMoves DEF RemoveLink, history
<1>6. CASE RemoveFails(p)
  BY <1>6 DEF RemoveFails, tree, rmtree, history
<1>7. CASE RemoveRuns(p)
  BY <1>7 DEF RemoveRuns, rmtree, history
<1>8. CASE RemoveSkips(p)
  BY <1>8, DidMoves DEF RemoveSkips, tree, history
<1> QED
  BY <1>1, <1>2, <1>3, <1>4, <1>5, <1>6, <1>7, <1>8 DEF CleanRuns

LEMMA TypeOKNext == TypeOK /\ [Next]_vars => TypeOK'
<1> SUFFICES ASSUME TypeOK, [Next]_vars PROVE TypeOK'
  OBVIOUS
<1>1. CASE UNCHANGED vars
  BY <1>1 DEF TypeOK, vars, tree, rmtree, history
<1>2. ASSUME NEW p \in Proc, Step(p) PROVE TypeOK'
  <2> USE GotoMoves, FailMoves DEF TypeOK, Points, Creating
  <2>1. CASE Open(p)
    BY <2>1 DEF Open, tree, rmtree, history
  <2>2. CASE Release(p)
    BY <2>2 DEF Release, Ended, history
  <2>3. CASE RunCell(p) \/ Report(p)
    <3>1. Target(p) \in Campaign
      BY Facts DEF Target
    <3>2. CASE RunCell(p)
      BY <3>1, <3>2 DEF RunCell, rmtree, history
    <3>3. CASE Report(p)
      BY <3>1, <3>3 DEF Report, rmtree, history
    <3> QED
      BY <2>3, <3>2, <3>3
  <2> QED
    BY <1>2, <2>1, <2>2, <2>3, TypeOKBegin, TypeOKLock, TypeOKNew, TypeOKClean DEF Step
<1>3. ASSUME NEW p \in Proc, Crash(p) PROVE TypeOK'
  BY <1>3, GotoMoves DEF Crash, Ended, TypeOK, Points, tree, history
<1> QED
  BY <1>1, <1>2, <1>3 DEF Next, AllOver

\* The invocations keep the tree well formed: every manifest lies in a
\* campaign directory, and everything in runs/.
THEOREM PointerTypeCorrect == Spec => []TypeOK
<1>1. Init => TypeOK
  <2> SUFFICES ASSUME Init PROVE TypeOK
    OBVIOUS
  <2>1. /\ runs \in BOOLEAN /\ dirs \subseteq Campaign /\ manifests = dirs
        /\ current \in Campaign \cup {None} /\ tmp = None
        /\ dirs # {} \/ current # None => runs
    <3>1. CASE current = None
      BY <3>1, Facts DEF Init
    <3>2. CASE current = First
      BY <3>2, Facts DEF Init
    <3> QED
      BY <3>1, <3>2 DEF Init
  <2> QED
    BY <2>1 DEF Init, TypeOK, Points, Creating, Op
<1> QED
  BY <1>1, TypeOKNext, PTL DEF Spec

-----------------------------------------------------------------------------
(* CURRENT names a campaign that is complete.                              *)

\* What Begin may lead to.
LEMMA BeginMoves ==
  ASSUME TypeOK, NEW p \in Proc, Begin(p)
  PROVE  /\ pc[p] = "begin" /\ pc'[p] \in {"lock", "open", "mkdir", "list", "over"}
         /\ \A q \in Proc : q # p => pc'[q] = pc[q] /\ op'[q] = op[q]
                                /\ existing'[q] = existing[q]
         /\ existing'[p] = current /\ op'[p] \in Op
         /\ pc'[p] = "mkdir" => current = None
         /\ pc'[p] = "list" => current = None /\ op'[p] = "eval-clean-runs"
         /\ UNCHANGED <<tree, rmtree, result, history>>
<1>1. PICK o \in Op :
        /\ op' = [op EXCEPT ![p] = o]
        /\ \/ current # None /\ Goto(p, IF o = "eval-all" THEN "open" ELSE "lock")
           \/ current = None
              /\ Goto(p, IF o = "eval-clean-runs" THEN "list" ELSE "mkdir")
           \/ current = None /\ o = "eval-all" /\ Goto(p, "over")
  BY DEF Begin
<1>2. /\ pc[p] = "begin" /\ existing' = [existing EXCEPT ![p] = current]
      /\ UNCHANGED <<tree, rmtree, result, history>>
  BY DEF Begin, At
<1>3. \E l \in {"lock", "open", "mkdir", "list", "over"} :
        /\ Goto(p, l)
        /\ l = "mkdir" => current = None
        /\ l = "list" => current = None /\ o = "eval-clean-runs"
  BY <1>1
<1> QED
  BY <1>1, <1>2, <1>3, GotoMoves DEF TypeOK

\* What Lock may lead to.
LEMMA LockMoves ==
  ASSUME TypeOK, NEW p \in Proc, Lock(p)
  PROVE  /\ pc[p] = "lock" /\ \A q \in Proc : q # p => pc'[q] = pc[q]
         /\ UNCHANGED <<runs, dirs, manifests, current, tmp, op, existing, inside,
                        cleaned, doomed, pointed>>
         /\ \/ /\ pc'[p] = "release" /\ UNCHANGED <<locks, overlap>>
               /\ result'[p] = "failed"
               /\ \A q \in Proc : q # p => result'[q] = result[q]
            \/ /\ pc'[p] = Body(p) /\ UNCHANGED result
               /\ Target(p) \in dirs
               /\ locks[Target(p)] = None \/ Over(locks[Target(p)])
               /\ locks' = [locks EXCEPT ![Target(p)] = p]
               /\ overlap' = (overlap \/ (op[p] = "eval-new"
                                /\ \E q \in Proc \ {p} : pc[q] \in Creating))
BY GotoMoves, FailMoves DEF Lock, At, rmtree

LEMMA CompleteInvNew ==
  ASSUME TypeOK, CompleteInv, NEW p \in Proc, EvalNew(p)
  PROVE  CompleteInv'
<1> USE Facts, GotoMoves, FailMoves DEF CompleteInv, At
<1>1. CASE MkDir(p)
  BY <1>1 DEF MkDir
<1>2. CASE WriteManifest(p)
  BY <1>2 DEF WriteManifest, rmtree, history
<1>3. CASE CheckTmp(p)
  BY <1>3 DEF CheckTmp, tree, rmtree, history
<1>4. CASE UnlinkTmp(p)
  BY <1>4 DEF UnlinkTmp, rmtree, history
<1>5. CASE Symlink(p)
  BY <1>5 DEF Symlink, rmtree, history
<1>6. CASE Rename(p)
  BY <1>6 DEF Rename
<1> QED
  BY <1>1, <1>2, <1>3, <1>4, <1>5, <1>6 DEF EvalNew

LEMMA CompleteInvClean ==
  ASSUME TypeOK, CompleteInv, NEW p \in Proc, CleanRuns(p)
  PROVE  CompleteInv'
<1> USE GotoMoves, FailMoves DEF CompleteInv, At
<1>1. CASE List(p)
  <2>1. CASE runs
    BY <1>1, <2>1 DEF List
  <2>2. CASE ~runs
    BY <1>1, <2>2 DEF List, tree
  <2> QED
    BY <2>1, <2>2
<1>2. CASE ~List(p)
  <2>1. pc[p] = "rmtree"
    BY <1>2 DEF CleanRuns, Enter, RemoveFile, RemoveDir, RemoveLink, RemoveFails,
       RemoveSkips, RemoveRuns
  <2>2. cleaned' = cleaned
    BY <1>2 DEF CleanRuns, Enter, RemoveFile, RemoveDir, RemoveLink, RemoveFails,
       RemoveSkips, RemoveRuns, history
  <2> QED
    BY <2>1, <2>2
<1> QED
  BY <1>1, <1>2 DEF CleanRuns

LEMMA CompleteInvNext == TypeOK /\ CompleteInv /\ [Next]_vars => CompleteInv'
<1> SUFFICES ASSUME TypeOK, CompleteInv, [Next]_vars PROVE CompleteInv'
  OBVIOUS
<1>1. CASE UNCHANGED vars
  BY <1>1 DEF CompleteInv, vars, tree, rmtree, history
<1>2. ASSUME NEW p \in Proc, Step(p) PROVE CompleteInv'
  <2>1. CASE Begin(p)
    BY <2>1, BeginMoves DEF CompleteInv, tree, rmtree, history
  <2>2. CASE Lock(p)
    BY <2>2, LockMoves DEF CompleteInv, Body
  <2>3. CASE Open(p) \/ Release(p) \/ RunCell(p)
             \/ Report(p)
    BY <2>3, GotoMoves, FailMoves DEF CompleteInv, Open, Release, RunCell, Report,
       tree, rmtree, history
  <2> QED
    BY <1>2, <2>1, <2>2, <2>3, CompleteInvNew, CompleteInvClean DEF Step
<1>3. ASSUME NEW p \in Proc, Crash(p) PROVE CompleteInv'
  BY <1>3, GotoMoves DEF Crash, CompleteInv, tree, rmtree, history
<1> QED
  BY <1>1, <1>2, <1>3 DEF Next, AllOver

\* CurrentComplete for any number of invocations, killed at any step.
THEOREM PointerCurrentComplete == Spec => []CurrentComplete
<1>1. Init => CompleteInv
  BY Facts DEF Init, CompleteInv
<1>2. CompleteInv => CurrentComplete
  BY DEF CompleteInv, CurrentComplete
<1>3. Spec => []TypeOK
  BY PointerTypeCorrect
<1> QED
  BY <1>1, <1>2, <1>3, CompleteInvNext, PTL DEF Spec

-----------------------------------------------------------------------------
(* A new campaign takes effect.                                            *)

LEMMA EffectInvNew ==
  ASSUME TypeOK, EffectInv, NEW p \in Proc, EvalNew(p)
  PROVE  EffectInv'
<1> USE Facts, GotoMoves, FailMoves DEF EffectInv, NewTakesEffect, At, Making, Creating
<1>1. CASE MkDir(p)
  <2>1. /\ pc[p] = "mkdir" /\ pc'[p] = "manifest"
        /\ \A q \in Proc : q # p => pc'[q] = pc[q]
        /\ UNCHANGED <<tmp, op, result, pointed>>
        /\ ~overlap' => ~overlap /\ \A q \in Proc \ {p} : pc[q] \notin Creating
    BY <1>1 DEF MkDir
  <2> QED
    BY <2>1
<1>2. CASE WriteManifest(p)
  BY <1>2 DEF WriteManifest, rmtree, history
<1>3. CASE CheckTmp(p)
  BY <1>3 DEF CheckTmp, tree, rmtree, history
<1>4. CASE UnlinkTmp(p)
  BY <1>4 DEF UnlinkTmp, rmtree, history
<1>5. CASE Symlink(p)
  BY <1>5 DEF Symlink, rmtree, history
<1>6. CASE Rename(p)
  BY <1>6 DEF Rename, TypeOK
<1> QED
  BY <1>1, <1>2, <1>3, <1>4, <1>5, <1>6 DEF EvalNew

LEMMA EffectInvClean ==
  ASSUME TypeOK, EffectInv, NEW p \in Proc, CleanRuns(p)
  PROVE  EffectInv'
<1> USE GotoMoves, FailMoves DEF EffectInv, NewTakesEffect, At, Making, Creating
<1>1. CASE List(p)
  BY <1>1 DEF List, tree, TypeOK
<1>2. CASE Enter(p) \/ RemoveFile(p)
  BY <1>2 DEF Enter, RemoveFile, tree, history
<1>3. CASE RemoveLink(p)
  BY <1>3 DEF RemoveLink, history
<1>4. CASE RemoveFails(p)
  BY <1>4 DEF RemoveFails, tree, history
<1>5. CASE RemoveRuns(p)
  BY <1>5 DEF RemoveRuns, history, TypeOK
<1>6. CASE RemoveSkips(p)
  BY <1>6 DEF RemoveSkips, tree, history
<1>7. CASE RemoveDir(p)
  BY <1>7 DEF RemoveDir, history
<1> QED
  BY <1>1, <1>2, <1>3, <1>4, <1>5, <1>6, <1>7 DEF CleanRuns

LEMMA EffectInvNext == TypeOK /\ EffectInv /\ [Next]_vars => EffectInv'
<1> SUFFICES ASSUME TypeOK, EffectInv, [Next]_vars PROVE EffectInv'
  OBVIOUS
<1> USE DEF EffectInv, NewTakesEffect, Making, Creating
<1>1. CASE UNCHANGED vars
  BY <1>1 DEF vars, tree, rmtree, history
<1>2. ASSUME NEW p \in Proc, Step(p) PROVE EffectInv'
  <2>1. CASE Begin(p)
    BY <2>1, BeginMoves DEF tree, rmtree, history
  <2>2. CASE Lock(p)
    <3>1. /\ pc[p] = "lock" /\ \A q \in Proc : q # p => pc'[q] = pc[q]
          /\ UNCHANGED <<tmp, op, pointed>>
          /\ \A q \in Proc : q # p => result'[q] = result[q]
          /\ overlap => overlap'
      BY <2>2, LockMoves
    <3>2. \/ pc'[p] = "release" /\ result'[p] = "failed"
          \/ pc'[p] = Body(p) /\ result'[p] = result[p]
      BY <2>2, LockMoves
    <3>3. /\ pc'[p] \in {"release", "mkdir", "list", "work"}
          /\ pc'[p] = "list" => op[p] = "eval-clean-runs"
          /\ pc'[p] = "work" => op[p] # "eval-new"
      BY <3>2 DEF Body
    <3> QED
      BY <3>1, <3>2, <3>3
  <2>3. CASE Open(p)
    BY <2>3, GotoMoves, FailMoves DEF Open, At, tree, rmtree, history
  <2>4. CASE Release(p)
    BY <2>4, GotoMoves DEF Release, At, rmtree, history
  <2>5. CASE RunCell(p) \/ Report(p)
    BY <2>5, GotoMoves, FailMoves DEF RunCell, Report, At, history, TypeOK
  <2> QED
    BY <1>2, <2>1, <2>2, <2>3, <2>4, <2>5, EffectInvNew, EffectInvClean DEF Step
<1>3. ASSUME NEW p \in Proc, Crash(p) PROVE EffectInv'
  BY <1>3, GotoMoves DEF Crash, tree, rmtree, history
<1> QED
  BY <1>1, <1>2, <1>3 DEF Next, AllOver

\* NewTakesEffect for any number of invocations, whatever CURRENT.tmp a
\* killed one has left.
THEOREM PointerNewTakesEffect == Spec => []NewTakesEffect
<1>1. Init => EffectInv
  BY DEF Init, EffectInv, NewTakesEffect, Making, Creating
<1>2. EffectInv => NewTakesEffect
  BY DEF EffectInv
<1>3. Spec => []TypeOK
  BY PointerTypeCorrect
<1> QED
  BY <1>1, <1>2, <1>3, EffectInvNext, PTL DEF Spec

-----------------------------------------------------------------------------
(* The lock protects its campaign.                                         *)

LEMMA LockInvNew ==
  ASSUME TypeOK, LockInv, NEW p \in Proc, EvalNew(p)
  PROVE  LockInv'
<1> USE GotoMoves, FailMoves DEF LockInv, Inside, Creating, At
<1>1. UNCHANGED <<locks, existing, inside, doomed>>
  BY DEF EvalNew, MkDir, WriteManifest, CheckTmp, UnlinkTmp, Symlink, Rename, tree,
         rmtree, history
<1>2. pc[p] \in Creating
  BY DEF EvalNew, MkDir, WriteManifest, CheckTmp, UnlinkTmp, Symlink, Rename
<1>3. \A q \in Proc : q # p => pc'[q] = pc[q]
  BY DEF EvalNew, MkDir, WriteManifest, CheckTmp, UnlinkTmp, Symlink, Rename
<1> QED
  BY <1>1, <1>2, <1>3

LEMMA LockInvClean ==
  ASSUME TypeOK, LockInv, NEW p \in Proc, CleanRuns(p)
  PROVE  LockInv'
<1> USE GotoMoves, FailMoves DEF LockInv, Inside, Creating, At
<1>1. /\ pc[p] \in {"list", "rmtree"} /\ \A q \in Proc : q # p => pc'[q] = pc[q]
      /\ UNCHANGED existing
  BY DEF CleanRuns, List, Enter, RemoveFile, RemoveDir, RemoveLink, RemoveFails,
         RemoveSkips, RemoveRuns
<1>2. CASE Enter(p)
  <2>1. PICK c : inside' = [inside EXCEPT ![p] = c] /\ doomed' = doomed \cup {c}
    BY <1>2 DEF Enter
  <2>2. \A q \in Proc : inside'[q] # None => inside'[q] \in doomed'
    BY <2>1 DEF TypeOK
  <2> QED
    BY <1>1, <1>2, <2>1, <2>2 DEF Enter, tree
<1>3. CASE RemoveFile(p)
  <2>1. PICK f : Did(p, f)
    BY <1>3 DEF RemoveFile
  <2>2. inside[p] \in Campaign /\ inside[p] \in doomed /\ UNCHANGED doomed
    BY <1>3 DEF RemoveFile, TypeOK, history
  <2>3. \A c \in Campaign : c # inside[p] => locks'[c] = locks[c]
    BY <1>3 DEF RemoveFile, TypeOK
  <2>4. \A q \in Proc : existing[q] # None => existing[q] \in Campaign
    BY DEF TypeOK
  <2> QED
    BY <1>1, <2>1, <2>2, <2>3, <2>4, DidMoves
<1>4. CASE ~Enter(p) /\ ~RemoveFile(p)
  <2>1. UNCHANGED <<locks, doomed>>
    BY <1>4 DEF CleanRuns, List, RemoveDir, RemoveLink, RemoveFails, RemoveSkips,
                RemoveRuns, tree, history
  <2>2. UNCHANGED inside \/ \E e : Did(p, e)
    BY <1>4 DEF CleanRuns, List, RemoveDir, RemoveLink, RemoveFails, RemoveSkips,
                RemoveRuns, rmtree
  <2> QED
    BY <1>1, <2>1, <2>2, DidMoves
<1> QED
  BY <1>2, <1>3, <1>4

LEMMA LockInvLock ==
  ASSUME TypeOK, LockInv, NEW p \in Proc, Lock(p)
  PROVE  LockInv'
<1> USE DEF LockInv, Inside, Creating
<1>1. CASE pc'[p] = "release" /\ UNCHANGED locks
  BY <1>1, LockMoves
<1>2. CASE /\ pc'[p] = Body(p) /\ Target(p) \in dirs
           /\ locks[Target(p)] = None \/ Over(locks[Target(p)])
           /\ locks' = [locks EXCEPT ![Target(p)] = p]
  <2>1. /\ UNCHANGED <<existing, inside, doomed>>
        /\ pc[p] = "lock" /\ \A q \in Proc : q # p => pc'[q] = pc[q]
    BY LockMoves
  <2>2. /\ Target(p) \in Campaign
        /\ existing[p] # None => Target(p) = existing[p]
    BY Facts DEF TypeOK, Target
  <2>3. /\ locks'[Target(p)] = p
        /\ \A c \in Campaign : c # Target(p) => locks'[c] = locks[c]
    BY <1>2, <2>2 DEF TypeOK
  <2>4. \A q \in Proc : existing[q] # None => existing[q] \in Campaign
    BY DEF TypeOK
  <2>5. ASSUME NEW q \in Proc, pc'[q] \in Inside, existing[q] # None
        PROVE  locks'[existing[q]] = q \/ existing[q] \in doomed
    <3>1. CASE q = p
      BY <2>2, <2>5, <2>3, <3>1
    <3>2. CASE q # p /\ existing[q] # Target(p)
      BY <2>1, <2>5, <2>3, <2>4, <3>2
    <3>3. CASE q # p /\ existing[q] = Target(p)
      <4>1. pc[q] \in Inside /\ ~Over(q)
        BY <2>1, <2>5, <3>3 DEF Over
      <4>2. q # None
        BY Facts
      <4> QED
        BY <1>2, <2>5, <3>3, <4>1, <4>2
    <3> QED
      BY <3>1, <3>2, <3>3
  <2> QED
    BY <2>1, <2>5
<1> QED
  BY <1>1, <1>2, LockMoves

LEMMA LockInvNext == TypeOK /\ LockInv /\ [Next]_vars => LockInv'
<1> SUFFICES ASSUME TypeOK, LockInv, [Next]_vars PROVE LockInv'
  OBVIOUS
<1> USE DEF LockInv, Inside, Creating
<1>1. CASE UNCHANGED vars
  BY <1>1 DEF vars, tree, rmtree, history
<1>2. ASSUME NEW p \in Proc, Step(p) PROVE LockInv'
  <2>1. CASE Begin(p)
    <3>1. /\ pc[p] = "begin" /\ pc'[p] \in {"lock", "open", "mkdir", "list", "over"}
          /\ \A q \in Proc : q # p => pc'[q] = pc[q] /\ existing'[q] = existing[q]
          /\ existing'[p] = current
          /\ pc'[p] = "mkdir" \/ pc'[p] = "list" => current = None
          /\ UNCHANGED <<locks, inside, doomed>>
      BY <2>1, BeginMoves DEF tree, rmtree, history
    <3> QED
      BY <3>1
  <2>2. CASE Open(p)
    BY <2>2, GotoMoves, FailMoves DEF Open, At, tree, rmtree, history
  <2>3. CASE Release(p)
    <3>1. /\ pc'[p] = "over" /\ \A q \in Proc : q # p => pc'[q] = pc[q]
          /\ UNCHANGED doomed
      BY <2>3, GotoMoves DEF Release, history
    <3>2. \A q \in Proc : /\ existing'[q] \in {existing[q], None}
                          /\ inside'[q] \in {inside[q], None}
      BY <2>3 DEF Release, Ended, TypeOK
    <3>3. \A c \in Campaign : locks[c] # p => locks'[c] = locks[c]
      BY <2>3 DEF Release
    <3>4. \A q \in Proc : existing[q] # None => existing[q] \in Campaign
      BY DEF TypeOK
    <3> QED
      BY <3>1, <3>2, <3>3, <3>4
  <2>4. CASE RunCell(p) \/ Report(p)
    BY <2>4, GotoMoves, FailMoves DEF RunCell, Report, At, rmtree, history
  <2> QED
    BY <1>2, <2>1, <2>2, <2>3, <2>4, LockInvLock, LockInvNew, LockInvClean DEF Step
<1>3. ASSUME NEW p \in Proc, Crash(p) PROVE LockInv'
  <2>1. /\ pc'[p] = "dead" /\ \A q \in Proc : q # p => pc'[q] = pc[q]
        /\ UNCHANGED <<locks, doomed>>
    BY <1>3, GotoMoves DEF Crash, tree, history
  <2>2. \A q \in Proc : /\ existing'[q] \in {existing[q], None}
                        /\ inside'[q] \in {inside[q], None}
    BY <1>3 DEF Crash, Ended, TypeOK
  <2> QED
    BY <2>1, <2>2
<1> QED
  BY <1>1, <1>2, <1>3 DEF Next, AllOver

\* LockProtects for any number of invocations.
THEOREM PointerLockProtects == Spec => LockProtects
<1>1. Init => LockInv
  BY DEF Init, LockInv, Inside, Creating
<1>2. TypeOK /\ LockInv /\ [Next]_vars =>
        [\A p \in Proc, c \in Campaign :
           existing[p] = c /\ LockedByOther(p, c) /\ c \notin doomed =>
             /\ current = c /\ current' # c => ~(At(p, "rename") /\ pc'[p] # pc[p])
             /\ c \in doomed' => inside'[p] # c]_vars
  <2> SUFFICES ASSUME TypeOK, LockInv, Next, NEW p \in Proc, NEW c \in Campaign,
                      existing[p] = c, LockedByOther(p, c), c \notin doomed
               PROVE  ~At(p, "rename") /\ inside'[p] # c
    BY DEF vars
  <2>1. c # None /\ inside[p] # c
    BY Facts DEF LockInv
  <2>2. pc[p] \notin Inside
    BY <2>1 DEF LockInv, LockedByOther
  <2>3. ~At(p, "rename") /\ ~At(p, "rmtree")
    BY <2>2 DEF At, Inside, Creating
  <2>4. ASSUME NEW q \in Proc, CleanRuns(q) PROVE inside'[p] \in {inside[p], None}
    <3>1. CASE Enter(q)
      <4>1. q # p
        BY <2>3, <3>1 DEF Enter
      <4> QED
        BY <3>1, <4>1 DEF Enter, TypeOK
    <3>2. CASE ~Enter(q)
      <4>1. UNCHANGED inside \/ \E e : Did(q, e)
        BY <2>4, <3>2 DEF CleanRuns, List, RemoveFile, RemoveDir, RemoveLink, RemoveFails,
           RemoveSkips, RemoveRuns, rmtree
      <4> QED
        BY <4>1, DidMoves
    <3> QED
      BY <3>1, <3>2
  <2>5. ASSUME NEW q \in Proc, Step(q) \/ Crash(q), ~CleanRuns(q)
        PROVE  inside'[p] \in {inside[p], None}
    BY <2>5 DEF Step, Crash, Ended, Begin, Open, Lock, Release, RunCell, Report, EvalNew,
       MkDir, WriteManifest, CheckTmp, UnlinkTmp, Symlink, Rename, rmtree, TypeOK
  <2> QED
    BY <2>1, <2>3, <2>4, <2>5 DEF Next, AllOver, vars, rmtree
<1>3. Spec => []TypeOK
  BY PointerTypeCorrect
<1> QED
  BY <1>1, <1>2, <1>3, LockInvNext, PTL DEF Spec, LockProtects

=============================================================================
