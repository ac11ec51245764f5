--------------------------- MODULE CaseCacheProofs ---------------------------
(***************************************************************************)
(* Proofs about the case cache, for every set of invocations and every     *)
(* number of versions.                                                     *)
(*                                                                         *)
(* CacheInv is inductive when the invocations do not overlap, sources only *)
(* move on and eval-clean-cache is not killed, however often the others    *)
(* are killed and whenever the sources are edited.  It follows the rebuild *)
(* of a layer step by step and says how far behind the present source the  *)
(* hash file is at each of them.  WholeInv is its counterpart for sources  *)
(* that may return to an earlier version, which needs that nothing is      *)
(* killed and nothing edited under a running command.                      *)
(***************************************************************************)
EXTENDS CaseCache, TLAPS

\* Commands run one at a time: they hold the lock or there is one invocation.
Serial == "prepare" \notin Commands \/ \A p, q \in Proc : p = q

Orderly == Serial /\ ~Reverts /\ "clean" \notin MayCrash

-----------------------------------------------------------------------------
(* The inductive invariant.                                                *)

Active(p) == pc[p] # "idle"

\* At most one command runs, and only eval-clean-cache wipes.
OneCommand ==
  /\ \A p \in Proc : Active(p) =>
       /\ cmd[p] \in Commands
       /\ pc[p] \in Wipes <=> cmd[p] = "clean"
  /\ \A p, q \in Proc : Active(p) /\ Active(q) => p = q

\* Neither a hash file nor a directory is of a version yet to come.
NeverAhead ==
  \A l \in Layer :
    /\ hash[l] \in Version => hash[l] <= src[l]
    /\ dir[l] \in Version => dir[l] <= src[l] \/ l \in spoilt

\* The hash file of layer l names no version from v on.
Behind(l, v) == hash[l] = None \/ hash[l] < v

\* What a kill, a failure or an edit broke does not pass as fresh.
BrokenIsStale ==
  \A l \in Layer :
    dir[l] = Broken => Behind(l, src[l]) \/ Wiping(l) \/ l \in spoilt

\* A copy begun when version w was hashed and ended when now is present.
Copied(w, copy, now) ==
  IF copy = Broken THEN w < now ELSE copy \in w .. now

\* How far the rebuild of layer l by p has come.
Progress(p, l) ==
  /\ pc[p] \in Building => want[p] \in 1 .. src[l]
  /\ pc[p] = "fresh" => Behind(l, want[p] + 1)
  /\ pc[p] = "rmdir" => dir[l] = None \/ Behind(l, want[p]) \/ l \in spoilt
  /\ pc[p] = "rmtree" => l \in spoilt \/ (dir[l] = Broken /\ Behind(l, want[p]))
  /\ pc[p] \in {"rmhash", "copy"} => dir[l] = None \/ l \in spoilt
  /\ pc[p] \in {"copy", "build", "publish", "record"} => hash[l] = None
  /\ pc[p] = "build" =>
       /\ snap[p] \in want[p] .. src[l]
       /\ dir[l] = (IF l = "bare" THEN None ELSE Broken) \/ l \in spoilt
  /\ pc[p] = "publish" =>
       l = "bare" /\ dir[l] = None /\ Copied(want[p], snap[p], src[l])
  /\ pc[p] = "record" => Copied(want[p], dir[l], src[l]) \/ l \in spoilt

CacheInv ==
  /\ TypeOK
  /\ OneCommand
  /\ NeverAhead
  /\ NeverOlderThanHash
  /\ BrokenIsStale
  /\ \A p \in Proc : Progress(p, layer[p])

-----------------------------------------------------------------------------
(* Type correctness.                                                       *)

LEMMA TypeOKInit == Init => TypeOK
BY CacheAssumption DEF Init, TypeOK, Version, Layer, Points, Building, Wipes

\* Who rebuilds a layer has computed its hash, and who builds has read the source.
Known == \A p \in Proc :
  /\ pc[p] \in Building => want[p] \in Version
  /\ pc[p] = "build" => snap[p] \in Version

LEMMA TypeOKNext == TypeOK /\ [Next]_vars => TypeOK'
<1> SUFFICES ASSUME TypeOK, [Next]_vars PROVE TypeOK'
  OBVIOUS
<1> USE CacheAssumption DEF TypeOK, Layer, Points, Building, Wipes, disk, uv
<1>1. ASSUME NEW p \in Proc, Start(p) PROVE TypeOK'
  <2>1. PICK c \in Commands : /\ cmd' = [cmd EXCEPT ![p] = c]
                              /\ pc' = [pc EXCEPT ![p] = FirstStep(c)]
    BY <1>1 DEF Start, Goto
  <2>2. FirstStep(c) \in Points \ Building
    BY DEF FirstStep
  <2>3. /\ cmd' \in [Proc -> {"none", "prepare", "eval", "clean"}]
        /\ pc' \in [Proc -> Points]
    BY <2>1, <2>2
  <2>4. /\ UNCHANGED <<src, dir, hash, orphans, spoilt>>
        /\ layer' \in [Proc -> Layer]
        /\ want' = [want EXCEPT ![p] = None]
        /\ snap' = [snap EXCEPT ![p] = None]
        /\ recent' = [recent EXCEPT ![p] = [l \in Layer |-> {src[l]}]]
    BY <1>1 DEF Start
  <2>5. recent' \in [Proc -> [Layer -> SUBSET Version]]
    BY <2>4
  <2>6. /\ want' \in [Proc -> Version \cup {None}]
        /\ snap' \in [Proc -> Version \cup {None, Broken}]
        /\ \A q \in Proc \ {p} : pc'[q] = pc[q] /\ want'[q] = want[q] /\ snap'[q] = snap[q]
        /\ pc'[p] \notin Building
    BY <2>1, <2>2, <2>4
  <2>7. Known'
    BY <2>6 DEF Known
  <2> QED
    BY <2>3, <2>4, <2>5, <2>6, <2>7 DEF Known
<1>2. ASSUME NEW p \in Proc, Needed(p) \/ Use(p) PROVE TypeOK'
  <2>1. PICK point \in {"hash", "use", "idle"} : pc' = [pc EXCEPT ![p] = point]
    BY <1>2 DEF Needed, Use, Goto
  <2>2. UNCHANGED <<src, dir, hash, cmd, layer, want, snap, recent, orphans, spoilt>>
    BY <1>2 DEF Needed, Use
  <2>3. pc' \in [Proc -> Points] /\ Known'
    BY <2>1, <2>2 DEF Known
  <2> QED
    BY <2>2, <2>3 DEF Known
<1>3. ASSUME NEW p \in Proc, ComputeHash(p) PROVE TypeOK'
  <2>1. /\ want' = [want EXCEPT ![p] = src[layer[p]]]
        /\ pc' = [pc EXCEPT ![p] = "fresh"]
        /\ UNCHANGED <<src, dir, hash, cmd, layer, snap, recent, orphans, spoilt>>
    BY <1>3 DEF ComputeHash, Goto
  <2>2. /\ src[layer[p]] \in Version
        /\ want' \in [Proc -> Version \cup {None}] /\ pc' \in [Proc -> Points]
    BY <2>1
  <2>3. Known'
    BY <2>1, <2>2 DEF Known
  <2> QED
    BY <2>1, <2>2, <2>3 DEF Known
<1>4. ASSUME NEW p \in Proc, CheckFresh(p) PROVE TypeOK'
  <2>1. /\ pc[p] = "fresh"
        /\ UNCHANGED <<src, dir, hash, cmd, want, snap, recent, orphans, spoilt>>
    BY <1>4 DEF CheckFresh
  <2>2. PICK point \in {"rmdir", "hash", "use", "idle"} : pc' = [pc EXCEPT ![p] = point]
    BY <1>4 DEF CheckFresh, LayerDone, Goto
  <2>3. layer' \in [Proc -> Layer]
    BY <1>4 DEF CheckFresh, LayerDone
  <2>4. pc' \in [Proc -> Points] /\ Known'
    BY <2>1, <2>2 DEF Known
  <2> QED
    BY <2>1, <2>3, <2>4 DEF Known
<1>5. ASSUME NEW p \in Proc, RemoveDirBegin(p) \/ RemoveDirEnd(p) \/ RemovalFails(p)
      PROVE  TypeOK'
  <2>1. CASE RemoveDirBegin(p)
    BY <2>1 DEF RemoveDirBegin, Goto
  <2>2. CASE RemoveDirEnd(p)
    <3>1. /\ UNCHANGED <<src, hash, cmd, layer, want, snap, recent, orphans, spoilt>>
          /\ dir' \in [Layer -> Version \cup {None, Broken}]
      BY <2>2 DEF RemoveDirEnd, CaseFailed
    <3>2. PICK pt \in {"rmhash", "idle"} : pc' = [pc EXCEPT ![p] = pt]
      BY <2>2 DEF RemoveDirEnd, CaseFailed, Goto
    <3>3. pc' \in [Proc -> Points] /\ Known'
      BY <2>2, <3>1, <3>2 DEF RemoveDirEnd, Known
    <3> QED
      BY <3>1, <3>3 DEF Known
  <2>3. CASE RemovalFails(p)
    BY <2>3 DEF RemovalFails, CaseFailed, Goto
  <2> QED
    BY <1>5, <2>1, <2>2, <2>3
<1>6. ASSUME NEW p \in Proc, RemoveHash(p) PROVE TypeOK'
  BY <1>6 DEF RemoveHash, Goto
<1>7. ASSUME NEW p \in Proc, CopyBegin(p) PROVE TypeOK'
  <2>1. /\ pc[p] = "copy" /\ src[layer[p]] \in Version
        /\ snap' = [snap EXCEPT ![p] = src[layer[p]]]
        /\ pc' = [pc EXCEPT ![p] = "build"]
        /\ UNCHANGED <<src, hash, cmd, layer, want, recent, orphans>>
    BY <1>7 DEF CopyBegin, Goto
  <2>2. Known' /\ snap' \in [Proc -> Version \cup {None, Broken}] /\ pc' \in [Proc -> Points]
    BY <2>1 DEF Known
  <2>3. dir' \in [Layer -> Version \cup {None, Broken}] /\ spoilt' \subseteq {"venv"}
    <3>1. CASE layer[p] = "venv"
      <4>1. /\ dir' = [dir EXCEPT !["venv"] = Broken]
            /\ spoilt' = {} \/ spoilt' = spoilt
        BY <1>7, <3>1 DEF CopyBegin
      <4> QED
        BY <4>1
    <3>2. CASE layer[p] # "venv"
      BY <1>7, <3>2 DEF CopyBegin
    <3> QED
      BY <3>1, <3>2
  <2> QED
    BY <2>1, <2>2, <2>3 DEF Known
<1>8. ASSUME NEW p \in Proc, BuildBare(p) \/ BuildVenv(p) \/ BuildFails(p) PROVE TypeOK'
  <2>1. CASE BuildBare(p)
    <3>1. snap' \in [Proc -> Version \cup {None, Broken}]
      BY <2>1 DEF BuildBare
    <3> QED
      BY <2>1, <3>1 DEF BuildBare, Goto
  <2>2. CASE BuildVenv(p)
    BY <2>2 DEF BuildVenv, Goto
  <2>3. CASE BuildFails(p)
    BY <2>3 DEF BuildFails, CaseFailed, Goto
  <2> QED
    BY <1>8, <2>1, <2>2, <2>3
<1>9. ASSUME NEW p \in Proc, Publish(p) PROVE TypeOK'
  BY <1>9 DEF Publish, Goto
<1>10. ASSUME NEW p \in Proc, Record(p) PROVE TypeOK'
  <2>1. /\ hash' = [hash EXCEPT ![layer[p]] = want[p]] /\ want[p] \in Version
        /\ UNCHANGED <<src, dir, cmd, want, snap, recent, orphans, spoilt>>
    BY <1>10 DEF Record
  <2>2. PICK point \in {"hash", "use", "idle"} : pc' = [pc EXCEPT ![p] = point]
    BY <1>10 DEF Record, LayerDone, Goto
  <2>3. hash' \in [Layer -> Version \cup {None}] /\ layer' \in [Proc -> Layer]
    BY <1>10, <2>1 DEF Record, LayerDone
  <2>4. pc' \in [Proc -> Points] /\ Known'
    BY <2>1, <2>2 DEF Known
  <2> QED
    BY <2>1, <2>3, <2>4 DEF Known
<1>11. ASSUME NEW p \in Proc, Wipe(p) PROVE TypeOK'
  <2>1. CASE WipeDirBegin(p)
    <3>1. PICK l \in Layer : /\ dir' = [dir EXCEPT ![l] = Broken]
                             /\ layer' = [layer EXCEPT ![p] = l]
      BY <2>1 DEF WipeDirBegin
    <3> QED
      BY <2>1, <3>1 DEF WipeDirBegin, Goto
  <2>2. CASE WipeDirEnd(p)
    BY <2>2 DEF WipeDirEnd, Goto
  <2>3. CASE WipeHash(p) \/ WipeEnd(p)
    <3>1. UNCHANGED <<src, dir, cmd, layer, want, snap, recent, orphans, spoilt>>
      BY <2>3 DEF WipeHash, WipeEnd
    <3>2. hash' \in [Layer -> Version \cup {None}]
      BY <2>3 DEF WipeHash, WipeEnd
    <3>3. pc' \in [Proc -> Points] /\ Known'
      BY <2>3, <3>1 DEF WipeHash, WipeEnd, Goto, Known
    <3> QED
      BY <3>1, <3>2, <3>3 DEF Known
  <2> QED
    BY <1>11, <2>1, <2>2, <2>3 DEF Wipe
<1>12. ASSUME NEW p \in Proc, Crash(p) PROVE TypeOK'
  <2>1. /\ pc[p] # "idle" /\ Goto(p, "idle")
        /\ UNCHANGED <<src, dir, hash, cmd, layer, want, snap, recent, spoilt>>
    BY <1>12 DEF Crash
  <2>2. orphans' \subseteq Version
    BY <1>12 DEF Crash
  <2>3. pc' \in [Proc -> Points] /\ Known'
    BY <2>1 DEF Goto, Known
  <2> QED
    BY <2>1, <2>2, <2>3 DEF Known
<1>13. ASSUME NEW v \in Version, OrphanWrites(v) \/ OrphanEnds(v) PROVE TypeOK'
  <2>1. /\ UNCHANGED <<src, hash, pc, cmd, layer, want, snap, recent>>
        /\ orphans' \subseteq Version /\ spoilt' \subseteq {"venv"}
    BY <1>13 DEF OrphanWrites, OrphanEnds
  <2>2. dir' \in [Layer -> Version \cup {None, Broken}]
    BY <1>13 DEF OrphanWrites, OrphanEnds
  <2> QED
    BY <2>1, <2>2
<1>14. ASSUME NEW l \in Layer, Edit(l) PROVE TypeOK'
  BY <1>14 DEF Edit
<1>15. CASE UNCHANGED vars
  BY <1>15 DEF vars
<1> QED
  BY <1>1, <1>2, <1>3, <1>4, <1>5, <1>6, <1>7, <1>8, <1>9, <1>10, <1>11,
     <1>12, <1>13, <1>14, <1>15 DEF Next, Ensure

\* Type correctness of the cache protocol: whoever rebuilds a layer has
\* computed the hash it will record (ensure_case_bare_repo, ensure_case_venv).
THEOREM CacheTypeCorrect == Spec => []TypeOK
BY TypeOKInit, TypeOKNext, PTL DEF Spec

-----------------------------------------------------------------------------
(* One command at a time.                                                  *)

LEMMA OthersIdle ==
  ASSUME OneCommand, NEW p \in Proc, Active(p)
  PROVE  \A q \in Proc \ {p} : pc[q] = "idle"
  BY DEF OneCommand, Active

\* A step of p that keeps its command is OneCommand's business only at p.
LEMMA StayAlone ==
  ASSUME TypeOK, OneCommand, NEW p \in Proc, Active(p),
         NEW pt \in Points, Goto(p, pt), UNCHANGED cmd,
         pt = "idle" \/ (pt \in Wipes <=> pc[p] \in Wipes)
  PROVE  /\ OneCommand'
         /\ pc'[p] = pt
         /\ \A q \in Proc \ {p} : pc[q] = "idle" /\ pc'[q] = "idle"
<1>1. /\ \A q \in Proc \ {p} : pc[q] = "idle" /\ pc'[q] = "idle"
      /\ pc'[p] = pt
  BY OthersIdle DEF TypeOK, Goto
<1>2. OneCommand'
  BY <1>1 DEF OneCommand, Active
<1> QED
  BY <1>1, <1>2

\* The lock, or there being one process only, lets a command start alone.
LEMMA StartAlone ==
  ASSUME TypeOK, OneCommand, Serial, NEW p \in Proc, Start(p)
  PROVE  /\ OneCommand'
         /\ \A q \in Proc : pc[q] = "idle"
         /\ \A q \in Proc \ {p} : pc'[q] = "idle"
         /\ pc'[p] \in {"hash", "needed", "wipe"}
<1>1. \A q \in Proc : pc[q] = "idle"
  <2>1. PICK c \in Commands : c \in {"eval", "clean"} => \A q \in Proc : ~Locked(q)
    BY DEF Start
  <2>2. CASE \A q, r \in Proc : q = r
    BY <2>2 DEF Start
  <2>3. CASE "prepare" \notin Commands
    <3>1. Commands \subseteq {"eval", "clean"}
      BY <2>3, CacheAssumption
    <3> QED
      BY <2>1, <3>1 DEF Locked, OneCommand, Active
  <2> QED
    BY <2>2, <2>3 DEF Serial
<1>2. PICK c \in Commands :
        cmd' = [cmd EXCEPT ![p] = c] /\ Goto(p, FirstStep(c))
  BY DEF Start
<1>3. c \in {"prepare", "eval", "clean"}
  BY CacheAssumption
<1>4. /\ \A q \in Proc \ {p} : pc'[q] = "idle"
      /\ pc'[p] = FirstStep(c) /\ cmd'[p] = c
      /\ FirstStep(c) \in {"hash", "needed", "wipe"}
      /\ FirstStep(c) = "wipe" <=> c = "clean"
  BY <1>1, <1>2, <1>3 DEF TypeOK, Goto, FirstStep
<1>5. OneCommand'
  BY <1>4 DEF OneCommand, Active, Wipes
<1> QED
  BY <1>1, <1>4, <1>5

LEMMA StepOfOne ==
  ASSUME CacheInv, TypeOK', NEW p \in Proc, Active(p),
         NEW pt \in Points, Goto(p, pt), UNCHANGED cmd,
         pt = "idle" \/ (pt \in Wipes <=> pc[p] \in Wipes),
         NeverAhead', NeverOlderThanHash', BrokenIsStale', Progress(p, layer[p])'
  PROVE  CacheInv'
<1>1. OneCommand' /\ \A q \in Proc \ {p} : pc'[q] = "idle"
  BY StayAlone DEF CacheInv
<1>2. ASSUME NEW q \in Proc \ {p} PROVE Progress(q, layer[q])'
  BY <1>1, <1>2 DEF Progress, Building
<1> QED
  BY <1>1, <1>2 DEF CacheInv

\* What a step that leaves the disk and the sources alone must see to.
LEMMA DiskUnchanged ==
  ASSUME CacheInv, NEW p \in Proc, Active(p), pc[p] \notin Wipes,
         UNCHANGED <<src, dir, hash, spoilt>>
  PROVE  NeverAhead' /\ NeverOlderThanHash' /\ BrokenIsStale'
<1>1. \A l \in Layer : ~Wiping(l)
  BY OthersIdle DEF CacheInv, Wiping, Wipes
<1> QED
  BY <1>1 DEF CacheInv, NeverAhead, NeverOlderThanHash, BrokenIsStale, Behind

-----------------------------------------------------------------------------
(* The steps of a command.                                                 *)

LEMMA StartStep ==
  ASSUME CacheInv, TypeOK', Serial, NEW p \in Proc, Start(p)
  PROVE  CacheInv'
<1>1. /\ OneCommand'
      /\ \A q \in Proc : pc[q] = "idle" /\ pc'[q] \in {"idle", "hash", "needed", "wipe"}
  BY StartAlone DEF CacheInv
<1>2. NeverAhead' /\ NeverOlderThanHash' /\ BrokenIsStale'
  <2>1. UNCHANGED <<src, dir, hash, spoilt>>
    BY DEF Start, disk, uv
  <2>2. \A l \in Layer : ~Wiping(l)
    BY <1>1 DEF Wiping
  <2> QED
    BY <2>1, <2>2 DEF CacheInv, NeverAhead, NeverOlderThanHash, BrokenIsStale, Behind
<1>3. \A q \in Proc : Progress(q, layer[q])'
  BY <1>1 DEF Progress, Building
<1> QED
  BY <1>1, <1>2, <1>3 DEF CacheInv

LEMMA IdleStep ==
  ASSUME CacheInv, TypeOK', NEW p \in Proc, Needed(p) \/ Use(p)
  PROVE  CacheInv'
<1>1. PICK pt \in {"hash", "use", "idle"} : Goto(p, pt)
  BY DEF Needed, Use
<1>2. /\ pc[p] \in {"needed", "use"} /\ pt \in Points
      /\ UNCHANGED <<src, dir, hash, cmd, spoilt>>
      /\ pc'[p] = pt
  BY <1>1 DEF Needed, Use, disk, uv, Points, CacheInv, TypeOK, Goto
<1>3. Progress(p, layer[p])'
  BY <1>2 DEF Progress, Building
<1> QED
  BY <1>1, <1>2, <1>3, StepOfOne, DiskUnchanged DEF Active, Wipes

LEMMA ComputeHashStep ==
  ASSUME CacheInv, TypeOK', NEW p \in Proc, ComputeHash(p)
  PROVE  CacheInv'
<1>1. /\ pc[p] = "hash" /\ Goto(p, "fresh") /\ pc'[p] = "fresh"
      /\ UNCHANGED <<src, dir, hash, cmd, layer, spoilt>>
      /\ want'[p] = src[layer[p]]
  BY DEF ComputeHash, disk, uv, CacheInv, TypeOK, Goto
<1>2. layer[p] \in Layer /\ src[layer[p]] \in Version /\ Versions \in Nat
      /\ hash[layer[p]] \in Version \cup {None}
  BY CacheAssumption DEF CacheInv, TypeOK
<1>3. Progress(p, layer[p])'
  BY <1>1, <1>2 DEF CacheInv, NeverAhead, Progress, Building, Behind, Version
<1> QED
  BY <1>1, <1>3, StepOfOne, DiskUnchanged DEF Active, Points, Building, Wipes

\* LayerDone and CaseFailed lead to points at which nothing is being rebuilt.
LEMMA LayerLeft ==
  ASSUME CacheInv, TypeOK', NEW p \in Proc, pc[p] \in Building,
         LayerDone(p) \/ CaseFailed(p), UNCHANGED cmd,
         NeverAhead', NeverOlderThanHash', BrokenIsStale'
  PROVE  CacheInv'
<1>1. PICK pt \in {"hash", "use", "idle"} : Goto(p, pt)
  BY DEF LayerDone, CaseFailed
<1>2. pt \in Points \ Wipes /\ pc'[p] = pt /\ pc[p] \notin {"idle"} \cup Wipes
  BY <1>1 DEF Points, Building, Wipes, CacheInv, TypeOK, Goto
<1>3. Progress(p, layer[p])'
  BY <1>2 DEF Progress, Building
<1> QED
  BY <1>1, <1>2, <1>3, StepOfOne DEF Active

LEMMA CheckFreshStep ==
  ASSUME CacheInv, TypeOK', NEW p \in Proc, CheckFresh(p)
  PROVE  CacheInv'
<1>1. /\ pc[p] = "fresh"
      /\ UNCHANGED <<src, dir, hash, cmd, want, spoilt>>
  BY DEF CheckFresh, disk, uv
<1>2. NeverAhead' /\ NeverOlderThanHash' /\ BrokenIsStale'
  BY <1>1, DiskUnchanged DEF Active, Wipes
<1>3. CASE LayerDone(p)
  BY <1>1, <1>2, <1>3, LayerLeft DEF Building
<1>4. CASE /\ ~(hash[layer[p]] = want[p] /\ dir[layer[p]] # None)
           /\ Goto(p, "rmdir") /\ UNCHANGED layer
  <2>1. pc'[p] = "rmdir"
    BY <1>4 DEF CacheInv, TypeOK, Goto
  <2>2. /\ layer[p] \in Layer /\ want[p] \in Version /\ Versions \in Nat
        /\ hash[layer[p]] \in Version \cup {None}
        /\ None \notin Version
    BY <1>1, CacheAssumption DEF CacheInv, TypeOK, Building
  <2>3. Progress(p, layer[p])'
    BY <1>1, <1>4, <2>1, <2>2 DEF CacheInv, Progress, Building, Behind, Version
  <2> QED
    BY <1>1, <1>2, <1>4, <2>3, StepOfOne DEF Active, Points, Building, Wipes
<1> QED
  BY <1>3, <1>4 DEF CheckFresh

\* The step by which p changes the directory or the hash file of its layer.
LEMMA LayerStep ==
  ASSUME CacheInv, NEW p \in Proc, pc[p] \in Building,
         TypeOK', UNCHANGED src,
         \A l \in Layer \ {layer[p]} :
           dir'[l] = dir[l] /\ hash'[l] = hash[l] /\ (l \in spoilt => l \in spoilt'),
         hash'[layer[p]] \in Version => hash'[layer[p]] <= src[layer[p]],
         layer[p] \notin spoilt' =>
           /\ dir'[layer[p]] \in Version => dir'[layer[p]] <= src[layer[p]]
           /\ hash'[layer[p]] \in Version /\ dir'[layer[p]] \in Version
                => dir'[layer[p]] >= hash'[layer[p]]
           /\ dir'[layer[p]] = Broken =>
                hash'[layer[p]] = None \/ hash'[layer[p]] < src[layer[p]]
  PROVE  NeverAhead' /\ NeverOlderThanHash' /\ BrokenIsStale'
<1>1. \A l \in Layer : ~Wiping(l)
  BY OthersIdle DEF CacheInv, Wiping, Active, Building
<1>2. ASSUME NEW l \in Layer
      PROVE  /\ hash'[l] \in Version => hash'[l] <= src'[l]
             /\ dir'[l] \in Version => dir'[l] <= src'[l] \/ l \in spoilt'
             /\ hash'[l] \in Version /\ dir'[l] \in Version
                  => dir'[l] >= hash'[l] \/ l \in spoilt'
             /\ dir'[l] = Broken => Behind(l, src[l])' \/ l \in spoilt'
  <2>1. CASE l = layer[p]
    BY <2>1 DEF Behind
  <2>2. CASE l # layer[p]
    BY <1>1, <2>2 DEF CacheInv, NeverAhead, NeverOlderThanHash, BrokenIsStale, Behind
  <2> QED
    BY <2>1, <2>2
<1> QED
  BY <1>2 DEF NeverAhead, NeverOlderThanHash, BrokenIsStale

LEMMA RemoveDirBeginStep ==
  ASSUME CacheInv, TypeOK', NEW p \in Proc, RemoveDirBegin(p)
  PROVE  CacheInv'
<1> DEFINE l == layer[p]
<1>1. /\ pc[p] = "rmdir" /\ pc[p] \in Building /\ Active(p) /\ pc[p] \notin Wipes
      /\ UNCHANGED <<src, hash, cmd, layer, want, spoilt>>
  BY DEF RemoveDirBegin, uv, Building, Active, Wipes
<1>2. /\ l \in Layer /\ want[p] \in 1 .. src[l] /\ src[l] \in Nat
      /\ hash[l] \in Nat \cup {None} /\ None # Broken
      /\ hash[l] \in Version => hash[l] <= src[l]
      /\ dir[l] = None \/ Behind(l, want[p]) \/ l \in spoilt
      /\ Broken \notin Version
  BY <1>1, CacheAssumption DEF CacheInv, TypeOK, Progress, NeverAhead, Version
<1>3. CASE dir[l] = None
  <2>1. /\ Goto(p, "rmhash") /\ pc'[p] = "rmhash" /\ UNCHANGED dir
    BY <1>3 DEF RemoveDirBegin, CacheInv, TypeOK, Goto
  <2>2. Progress(p, layer[p])'
    BY <1>1, <1>2, <1>3, <2>1 DEF Progress, Building
  <2>3. NeverAhead' /\ NeverOlderThanHash' /\ BrokenIsStale'
    BY <1>1, <2>1, DiskUnchanged
  <2> QED
    BY <1>1, <2>1, <2>2, <2>3, StepOfOne DEF Points, Building, Wipes
<1>4. CASE dir[l] # None
  <2>1. /\ Goto(p, "rmtree") /\ pc'[p] = "rmtree" /\ dir' = [dir EXCEPT ![l] = Broken]
    BY <1>4 DEF RemoveDirBegin, CacheInv, TypeOK, Goto
  <2>2. dir'[l] = Broken /\ \A k \in Layer \ {l} : dir'[k] = dir[k]
    BY <1>2, <2>1 DEF CacheInv, TypeOK
  <2>3. Behind(l, want[p])' <=> Behind(l, want[p])
    BY <1>1 DEF Behind
  <2>4. Progress(p, layer[p])'
    BY <1>1, <1>2, <1>4, <2>1, <2>2, <2>3 DEF Progress, Building
  <2>5. ~l \in spoilt => hash[l] = None \/ hash[l] < src[l]
    BY <1>2, <1>4 DEF Behind
  <2>6. NeverAhead' /\ NeverOlderThanHash' /\ BrokenIsStale'
    BY <1>1, <1>2, <2>2, <2>3, <2>5, LayerStep
  <2> QED
    BY <1>1, <2>1, <2>4, <2>6, StepOfOne DEF Points, Building, Wipes
<1> QED
  BY <1>3, <1>4

LEMMA RemoveDirEndStep ==
  ASSUME CacheInv, TypeOK', NEW p \in Proc, RemoveDirEnd(p)
  PROVE  CacheInv'
<1> DEFINE l == layer[p]
<1>1. /\ pc[p] = "rmtree" /\ pc[p] \in Building /\ Active(p) /\ pc[p] \notin Wipes
      /\ UNCHANGED <<src, hash, cmd, want, spoilt>>
  BY DEF RemoveDirEnd, uv, Building, Active, Wipes
<1>2. CASE dir[l] = Broken
  <2>1. /\ Goto(p, "rmhash") /\ pc'[p] = "rmhash" /\ UNCHANGED layer
        /\ dir' = [dir EXCEPT ![l] = None]
    BY <1>2 DEF RemoveDirEnd, CacheInv, TypeOK, Goto
  <2>2. /\ l \in Layer /\ want[p] \in 1 .. src[l] /\ None # Broken /\ None \notin Version
        /\ hash[l] \in Version => hash[l] <= src[l]
    BY <1>1, CacheAssumption DEF CacheInv, TypeOK, Progress, NeverAhead
  <2>3. dir'[l] = None /\ \A k \in Layer \ {l} : dir'[k] = dir[k]
    BY <2>1, <2>2 DEF CacheInv, TypeOK
  <2>4. Progress(p, layer[p])'
    BY <1>1, <2>1, <2>2, <2>3 DEF Progress, Building
  <2>5. NeverAhead' /\ NeverOlderThanHash' /\ BrokenIsStale'
    BY <1>1, <2>2, <2>3, LayerStep
  <2> QED
    BY <1>1, <2>1, <2>4, <2>5, StepOfOne DEF Points, Building, Wipes
<1>3. CASE dir[l] # Broken
  <2>1. CaseFailed(p) /\ UNCHANGED dir
    BY <1>3 DEF RemoveDirEnd
  <2> QED
    BY <1>1, <2>1, LayerLeft, DiskUnchanged
<1> QED
  BY <1>2, <1>3

\* What a step knows of the layer it works on.
LEMMA LayerFacts ==
  ASSUME CacheInv, NEW p \in Proc, pc[p] \in Building
  PROVE  /\ layer[p] \in Layer
         /\ want[p] \in Version /\ src[layer[p]] \in Version
         /\ want[p] <= src[layer[p]]
         /\ dir[layer[p]] \in Version \cup {None, Broken}
         /\ hash[layer[p]] \in Version \cup {None}
         /\ snap[p] \in Version \cup {None, Broken}
         /\ Version \subseteq Nat
         /\ None \notin Version /\ Broken \notin Version /\ None # Broken
<1>1. want[p] \in 1 .. src[layer[p]]
  BY DEF CacheInv, Progress
<1> QED
  BY <1>1, CacheAssumption DEF CacheInv, TypeOK, Version

LEMMA RemoveHashStep ==
  ASSUME CacheInv, TypeOK', NEW p \in Proc, RemoveHash(p)
  PROVE  CacheInv'
<1>1. /\ pc[p] = "rmhash" /\ pc[p] \in Building
      /\ Goto(p, "copy") /\ pc'[p] = "copy"
      /\ UNCHANGED <<src, dir, cmd, layer, want, spoilt>>
      /\ hash' = [hash EXCEPT ![layer[p]] = None]
  BY DEF RemoveHash, uv, Building, CacheInv, TypeOK, Goto
<1>2. /\ hash'[layer[p]] = None
      /\ \A k \in Layer \ {layer[p]} : hash'[k] = hash[k]
  BY <1>1, LayerFacts DEF CacheInv, TypeOK
<1>3. dir[layer[p]] = None \/ layer[p] \in spoilt
  BY <1>1 DEF CacheInv, Progress
<1>5. Progress(p, layer[p])'
  BY <1>1, <1>2, <1>3, LayerFacts DEF CacheInv, Progress, Building
<1>6. NeverAhead' /\ NeverOlderThanHash' /\ BrokenIsStale'
  BY <1>1, <1>2, <1>3, LayerFacts, LayerStep
<1> QED
  BY <1>1, <1>5, <1>6, StepOfOne DEF Active, Points, Building, Wipes

LEMMA CopyBeginStep ==
  ASSUME CacheInv, TypeOK', NEW p \in Proc, CopyBegin(p)
  PROVE  CacheInv'
<1>1. /\ pc[p] = "copy" /\ pc[p] \in Building
      /\ Goto(p, "build") /\ pc'[p] = "build"
      /\ UNCHANGED <<src, hash, cmd, layer, want>>
      /\ snap'[p] = src[layer[p]]
  BY DEF CopyBegin, Building, CacheInv, TypeOK, Goto
<1>2. hash[layer[p]] = None /\ (dir[layer[p]] = None \/ layer[p] \in spoilt)
  BY <1>1 DEF CacheInv, Progress
<1>3. /\ layer[p] = "venv" => dir'[layer[p]] = Broken
      /\ layer[p] = "bare" => dir'[layer[p]] = None
      /\ \A k \in Layer \ {layer[p]} : dir'[k] = dir[k]
  BY <1>1, <1>2, LayerFacts DEF CopyBegin, CacheInv, TypeOK, Layer
<1>4. \A k \in Layer \ {layer[p]} : k \in spoilt => k \in spoilt'
  <2>1. layer[p] # "venv" => spoilt' = spoilt
    BY DEF CopyBegin
  <2>2. spoilt \subseteq {"venv"}
    BY DEF CacheInv, TypeOK
  <2> QED
    BY <2>1, <2>2
<1>5. Progress(p, layer[p])'
  BY <1>1, <1>2, <1>3, LayerFacts DEF Progress, Building, Version, Layer
<1>6. NeverAhead' /\ NeverOlderThanHash' /\ BrokenIsStale'
  BY <1>1, <1>2, <1>3, <1>4, LayerFacts, LayerStep DEF Layer
<1> QED
  BY <1>1, <1>5, <1>6, StepOfOne DEF Active, Points, Building, Wipes

\* An edit since the copy began leaves a mixture, and a hash now out of date.
LEMMA BuildBareStep ==
  ASSUME CacheInv, TypeOK', NEW p \in Proc, BuildBare(p)
  PROVE  CacheInv'
<1>1. /\ pc[p] = "build" /\ pc[p] \in Building /\ layer[p] = "bare"
      /\ Goto(p, "publish") /\ pc'[p] = "publish"
      /\ UNCHANGED <<src, dir, hash, cmd, layer, want, spoilt>>
      /\ snap'[p] = IF src["bare"] = snap[p] THEN snap[p] ELSE Broken
  BY DEF BuildBare, Building, disk, uv, CacheInv, TypeOK, Goto
<1>2. /\ hash[layer[p]] = None /\ dir[layer[p]] = None
      /\ snap[p] \in want[p] .. src[layer[p]]
  BY <1>1 DEF CacheInv, TypeOK, Progress
<1>3. Copied(want[p], snap'[p], src["bare"])
  BY <1>1, <1>2, LayerFacts DEF Copied
<1>4. Progress(p, layer[p])'
  BY <1>1, <1>2, <1>3, LayerFacts DEF CacheInv, Progress, Building
<1> QED
  BY <1>1, <1>4, StepOfOne, DiskUnchanged DEF Active, Points, Building, Wipes

LEMMA BuildVenvStep ==
  ASSUME CacheInv, TypeOK', NEW p \in Proc, BuildVenv(p)
  PROVE  CacheInv'
<1>1. /\ pc[p] = "build" /\ pc[p] \in Building /\ layer[p] = "venv"
      /\ Goto(p, "record") /\ pc'[p] = "record"
      /\ UNCHANGED <<src, hash, cmd, layer, want, spoilt>>
      /\ dir' = [dir EXCEPT !["venv"] = snap[p]]
  BY DEF BuildVenv, uv, Building, CacheInv, TypeOK, Goto
<1>2. hash[layer[p]] = None /\ snap[p] \in want[p] .. src[layer[p]]
  BY <1>1 DEF CacheInv, Progress
<1>3. /\ dir'[layer[p]] = snap[p]
      /\ \A k \in Layer \ {layer[p]} : dir'[k] = dir[k]
  BY <1>1, LayerFacts DEF CacheInv, TypeOK
<1>4. snap[p] \in Version /\ snap[p] <= src[layer[p]]
  <2>1. want[p] \in Version /\ src[layer[p]] \in Version /\ Versions \in Nat
    BY <1>1, LayerFacts, CacheAssumption
  <2> QED
    BY <1>2, <2>1 DEF Version
<1>5. Progress(p, layer[p])'
  BY <1>1, <1>2, <1>3, <1>4, LayerFacts DEF CacheInv, Progress, Building, Copied
<1>6. NeverAhead' /\ NeverOlderThanHash' /\ BrokenIsStale'
  BY <1>1, <1>2, <1>3, <1>4, LayerFacts, LayerStep
<1> QED
  BY <1>1, <1>5, <1>6, StepOfOne DEF Active, Points, Building, Wipes

LEMMA BuildFailsStep ==
  ASSUME CacheInv, TypeOK', NEW p \in Proc, BuildFails(p)
  PROVE  CacheInv'
<1>1. /\ pc[p] = "build" /\ pc[p] \in Building
      /\ UNCHANGED <<src, dir, hash, cmd, spoilt>>
      /\ CaseFailed(p)
  BY DEF BuildFails, disk, uv, Building
<1> QED
  BY <1>1, LayerLeft, DiskUnchanged DEF Active, Wipes

LEMMA PublishStep ==
  ASSUME CacheInv, TypeOK', NEW p \in Proc, Publish(p)
  PROVE  CacheInv'
<1>1. /\ pc[p] = "publish" /\ pc[p] \in Building
      /\ Goto(p, "record") /\ pc'[p] = "record"
      /\ UNCHANGED <<src, hash, cmd, layer, want, spoilt>>
  BY DEF Publish, uv, Building, CacheInv, TypeOK, Goto
<1>2. /\ layer[p] = "bare" /\ dir["bare"] = None /\ hash["bare"] = None
      /\ Copied(want[p], snap[p], src["bare"])
  BY <1>1 DEF CacheInv, Progress
<1>3. /\ dir'[layer[p]] = snap[p]
      /\ \A k \in Layer \ {layer[p]} : dir'[k] = dir[k]
  BY <1>1, <1>2, LayerFacts DEF Publish, CacheInv, TypeOK
<1>4. Progress(p, layer[p])'
  BY <1>1, <1>2, <1>3, LayerFacts DEF CacheInv, Progress, Building
<1>5. snap[p] \in Version => snap[p] <= src[layer[p]]
  BY <1>1, <1>2, LayerFacts DEF Copied
<1>6. NeverAhead' /\ NeverOlderThanHash' /\ BrokenIsStale'
  BY <1>1, <1>2, <1>3, <1>5, LayerFacts, LayerStep
<1> QED
  BY <1>1, <1>4, <1>6, StepOfOne DEF Active, Points, Building, Wipes

LEMMA RecordStep ==
  ASSUME CacheInv, TypeOK', NEW p \in Proc, Record(p)
  PROVE  CacheInv'
<1>1. /\ pc[p] = "record" /\ pc[p] \in Building
      /\ LayerDone(p)
      /\ UNCHANGED <<src, dir, cmd, want, spoilt>>
      /\ hash' = [hash EXCEPT ![layer[p]] = want[p]]
  BY DEF Record, uv, Building
<1>2. Copied(want[p], dir[layer[p]], src[layer[p]]) \/ layer[p] \in spoilt
  BY <1>1 DEF CacheInv, Progress
<1>3. /\ hash'[layer[p]] = want[p]
      /\ \A k \in Layer \ {layer[p]} : hash'[k] = hash[k]
  BY <1>1, LayerFacts DEF CacheInv, TypeOK
<1>5. NeverAhead' /\ NeverOlderThanHash' /\ BrokenIsStale'
  BY <1>1, <1>2, <1>3, LayerFacts, LayerStep DEF Copied
<1> QED
  BY <1>1, <1>5, LayerLeft

\* Nothing but eval-clean-cache is under way while it wipes.
LEMMA WipeStep ==
  ASSUME CacheInv, TypeOK', NEW p \in Proc, Wipe(p)
  PROVE  CacheInv'
<1>1. /\ pc[p] \in Wipes /\ Active(p) /\ UNCHANGED <<src, cmd, spoilt>>
  BY DEF Wipe, WipeDirBegin, WipeDirEnd, WipeHash, WipeEnd, uv, disk, Wipes, Active
<1>2. /\ \A q \in Proc \ {p} : pc[q] = "idle"
      /\ None \notin Version /\ Broken \notin Version /\ None # Broken
  BY <1>1, OthersIdle, CacheAssumption DEF CacheInv
<1>3. PICK pt \in {"idle"} \cup Wipes : Goto(p, pt) /\ pc'[p] = pt
  BY <1>1 DEF Wipe, WipeDirBegin, WipeDirEnd, WipeHash, WipeEnd, CacheInv, TypeOK, Goto,
     Wipes
<1>4. ASSUME NEW l \in Layer
      PROVE  /\ hash'[l] = hash[l] \/ hash'[l] = None
             /\ dir'[l] \in {dir[l], None, Broken}
             /\ dir'[l] = Broken /\ ~Wiping(l)' => dir[l] = Broken /\ ~Wiping(l)
  <2>1. CASE WipeDirBegin(p)
    <3>1. PICK k \in Layer : /\ dir' = [dir EXCEPT ![k] = Broken]
                             /\ layer'[p] = k /\ pc'[p] = "wiping" /\ pc[p] = "wipe"
                             /\ hash' = hash
      BY <2>1 DEF WipeDirBegin, CacheInv, TypeOK, Goto
    <3>2. Wiping(k)' /\ ~Wiping(l)
      BY <1>2, <3>1 DEF Wiping
    <3> QED
      BY <3>1, <3>2 DEF CacheInv, TypeOK
  <2>2. CASE WipeDirEnd(p)
    <3>1. Wiping(l) <=> l = layer[p]
      BY <1>2, <2>2 DEF WipeDirEnd, Wiping
    <3>2. dir'[layer[p]] # Broken
      BY <1>2, <2>2 DEF WipeDirEnd, CacheInv, TypeOK
    <3>3. l # layer[p] => dir'[l] = dir[l]
      BY <2>2 DEF WipeDirEnd, CacheInv, TypeOK
    <3>4. hash' = hash /\ dir'[l] \in {dir[l], None}
      BY <2>2 DEF WipeDirEnd, CacheInv, TypeOK
    <3> QED
      BY <3>1, <3>2, <3>3, <3>4
  <2>3. CASE WipeHash(p) \/ WipeEnd(p)
    <3>1. pc[p] = "wipe" /\ dir' = dir /\ (hash'[l] = hash[l] \/ hash'[l] = None)
      BY <2>3 DEF WipeHash, WipeEnd, disk, CacheInv, TypeOK
    <3>2. ~Wiping(l)
      BY <1>2, <3>1 DEF Wiping
    <3> QED
      BY <3>1, <3>2
  <2> QED
    BY <2>1, <2>2, <2>3 DEF Wipe
<1>5. NeverAhead' /\ NeverOlderThanHash'
  BY <1>1, <1>2, <1>4 DEF CacheInv, NeverAhead, NeverOlderThanHash
<1>6. BrokenIsStale'
  BY <1>1, <1>4 DEF CacheInv, BrokenIsStale, Behind
<1>7. Progress(p, layer[p])'
  BY <1>3 DEF Progress, Building, Wipes
<1> QED
  BY <1>1, <1>3, <1>5, <1>6, <1>7, StepOfOne DEF Points

\* A kill leaves the disk as it is, which no step leaves dangerously.
LEMMA CrashStep ==
  ASSUME CacheInv, TypeOK', Orderly, NEW p \in Proc, Crash(p)
  PROVE  CacheInv'
<1>1. /\ Active(p) /\ Goto(p, "idle") /\ pc'[p] = "idle"
      /\ cmd[p] # "clean"
      /\ UNCHANGED <<src, dir, hash, cmd, layer, spoilt>>
  BY DEF Crash, Orderly, disk, Active, CacheInv, TypeOK, Goto
<1>2. pc[p] \notin Wipes
  BY <1>1 DEF CacheInv, OneCommand
<1>3. Progress(p, layer[p])'
  BY <1>1 DEF Progress, Building
<1> QED
  BY <1>1, <1>2, <1>3, StepOfOne, DiskUnchanged DEF Points

\* A removal that an orphan spoilt is given up with the venv in doubt.
LEMMA RemovalFailsStep ==
  ASSUME CacheInv, TypeOK', NEW p \in Proc, RemovalFails(p)
  PROVE  CacheInv'
<1>1. /\ Active(p) /\ Goto(p, "idle") /\ pc'[p] = "idle"
      /\ pc[p] = "wiping" => layer[p] = "venv"
      /\ UNCHANGED <<src, dir, hash, cmd, layer>> /\ spoilt' = {"venv"}
  BY DEF RemovalFails, CaseFailed, disk, Active, CacheInv, TypeOK, Goto
<1>2. \A l \in Layer : Wiping(l) \/ l \in spoilt => l \in spoilt'
  BY <1>1, OthersIdle DEF CacheInv, TypeOK, Wiping
<1>3. NeverAhead' /\ NeverOlderThanHash' /\ BrokenIsStale'
  BY <1>1, <1>2 DEF CacheInv, NeverAhead, NeverOlderThanHash, BrokenIsStale, Behind
<1>4. Progress(p, layer[p])'
  BY <1>1 DEF Progress, Building
<1> QED
  BY <1>1, <1>3, <1>4, StepOfOne DEF Points

\* What an orphan writes concerns a venv nobody vouches for any more.
LEMMA OrphanStep ==
  ASSUME CacheInv, TypeOK', NEW v \in Version, OrphanWrites(v) \/ OrphanEnds(v)
  PROVE  CacheInv'
<1>1. /\ UNCHANGED <<src, hash, pc, cmd, layer, want, snap>>
      /\ dir'["bare"] = dir["bare"]
      /\ UNCHANGED <<dir, spoilt>> \/ spoilt' = {"venv"}
  BY DEF OrphanWrites, OrphanEnds, disk, CacheInv, TypeOK, Layer
<1>2. ASSUME NEW l \in Layer
      PROVE  l \in spoilt' \/ (dir'[l] = dir[l] /\ l \notin spoilt)
  BY <1>1 DEF Layer, CacheInv, TypeOK
<1>3. \A l \in Layer : Wiping(l)' <=> Wiping(l)
  BY <1>1 DEF Wiping
<1>4. OneCommand'
  BY <1>1 DEF CacheInv, OneCommand, Active
<1>5. NeverAhead' /\ NeverOlderThanHash' /\ BrokenIsStale'
  BY <1>1, <1>2, <1>3
  DEF CacheInv, NeverAhead, NeverOlderThanHash, BrokenIsStale, Behind
<1>6. ASSUME NEW q \in Proc PROVE Progress(q, layer[q])'
  <2>1. layer[q] \in Layer
    BY DEF CacheInv, TypeOK
  <2>2. Progress(q, layer[q])
    BY DEF CacheInv
  <2>3. layer[q] = "bare" => dir'[layer[q]] = dir[layer[q]]
    BY <1>1
  <2> QED
    BY <1>1, <1>2, <2>1, <2>2, <2>3 DEF Progress, Behind
<1> QED
  BY <1>4, <1>5, <1>6 DEF CacheInv

\* The sources only move on, so what was behind stays behind.
LEMMA EditStep ==
  ASSUME CacheInv, TypeOK', Orderly, NEW e \in Layer, Edit(e)
  PROVE  CacheInv'
<1>1. /\ UNCHANGED <<dir, hash, pc, cmd, layer, want, snap, spoilt>>
      /\ src' = [src EXCEPT ![e] = src[e] + 1]
  BY DEF Edit, Orderly, disk, uv
<1>2. /\ Version \subseteq Nat /\ None \notin Version /\ Broken \notin Version
      /\ None # Broken /\ src \in [Layer -> Version]
      /\ hash \in [Layer -> Version \cup {None}]
      /\ want \in [Proc -> Version \cup {None}]
  BY CacheAssumption DEF CacheInv, TypeOK, Version
<1>3. ASSUME NEW l \in Layer
      PROVE  src[l] \in Nat /\ src'[l] \in Nat /\ src[l] <= src'[l]
  <2>1. src[l] \in Nat
    BY <1>2
  <2>2. src'[l] = IF l = e THEN src[l] + 1 ELSE src[l]
    BY <1>1, <1>2
  <2> QED
    BY <2>1, <2>2
<1>4. OneCommand' /\ NeverOlderThanHash'
  BY <1>1 DEF CacheInv, OneCommand, Active, NeverOlderThanHash
<1>5. NeverAhead'
  <2> SUFFICES ASSUME NEW l \in Layer
               PROVE  /\ hash[l] \in Version => hash[l] <= src'[l]
                      /\ dir[l] \in Version => dir[l] <= src'[l] \/ l \in spoilt
    BY <1>1 DEF NeverAhead
  <2>1. /\ hash[l] \in Version => hash[l] \in Nat /\ hash[l] <= src[l]
        /\ dir[l] \in Version => dir[l] \in Nat /\ (dir[l] <= src[l] \/ l \in spoilt)
    BY <1>2 DEF CacheInv, NeverAhead
  <2> QED
    BY <2>1, <1>3
<1>6. BrokenIsStale'
  <2> SUFFICES ASSUME NEW l \in Layer, ~Wiping(l), ~l \in spoilt, dir[l] = Broken
               PROVE  hash[l] = None \/ hash[l] < src'[l]
    BY <1>1 DEF BrokenIsStale, Wiping, Behind
  <2>1. hash[l] \in Nat \cup {None}
    BY <1>2
  <2>2. hash[l] = None \/ hash[l] < src[l]
    BY DEF CacheInv, BrokenIsStale, Behind
  <2> QED
    BY <2>1, <2>2, <1>3
<1>7. ASSUME NEW p \in Proc PROVE Progress(p, layer[p])'
  <2> DEFINE l == layer[p]
  <2>1. CASE pc[p] \in Building
    <3>1. /\ l \in Layer /\ want[p] \in Version /\ want[p] <= src[l]
          /\ dir[l] \in Version \cup {None, Broken}
          /\ snap[p] \in Version \cup {None, Broken}
      BY <2>1, LayerFacts
    <3>2. want'[p] \in 1 .. src'[l]
      <4>1. want[p] \in 1 .. Versions /\ src[l] <= src'[l] /\ src[l] \in Nat /\ src'[l] \in Nat
        BY <1>3, <3>1 DEF Version
      <4> QED
        BY <1>1, <3>1, <4>1, CacheAssumption
    <3>3. ASSUME NEW copy, Copied(want[p], copy, src[l])
          PROVE  Copied(want[p], copy, src'[l])
      <4>1. /\ want[p] \in Nat /\ src[l] \in Nat /\ src'[l] \in Nat
            /\ src[l] <= src'[l]
        BY <1>2, <1>3, <3>1
      <4> QED
        BY <3>3, <4>1 DEF Copied
    <3>4. snap[p] \in want[p] .. src[l] => snap[p] \in want[p] .. src'[l]
      BY <1>2, <1>3, <3>1
    <3>5. Progress(p, l)
      BY DEF CacheInv
    <3> QED
      BY <1>1, <3>2, <3>3, <3>4, <3>5 DEF Progress, Behind
  <2>2. CASE pc[p] \notin Building
    BY <1>1, <2>2 DEF Progress, Building
  <2> QED
    BY <2>1, <2>2
<1> QED
  BY <1>4, <1>5, <1>6, <1>7 DEF CacheInv

-----------------------------------------------------------------------------
(* Invariance.                                                             *)

LEMMA CacheInvInit == Init => CacheInv
<1> SUFFICES ASSUME Init PROVE CacheInv
  OBVIOUS
<1>1. OneCommand /\ NeverAhead /\ NeverOlderThanHash /\ BrokenIsStale
  BY CacheAssumption
  DEF Init, OneCommand, Active, NeverAhead, NeverOlderThanHash, BrokenIsStale, Behind
<1>2. \A p \in Proc : Progress(p, layer[p])
  BY DEF Init, Progress, Building
<1> QED
  BY <1>1, <1>2, TypeOKInit DEF CacheInv

LEMMA CacheInvNext == Orderly /\ CacheInv /\ [Next]_vars => CacheInv'
<1> SUFFICES ASSUME Orderly, CacheInv, [Next]_vars PROVE CacheInv'
  OBVIOUS
<1>1. TypeOK'
  BY TypeOKNext DEF CacheInv
<1>2. ASSUME NEW p \in Proc, Start(p) PROVE CacheInv'
  BY <1>1, <1>2, StartStep DEF Orderly
<1>3. ASSUME NEW p \in Proc, Needed(p) \/ Use(p) PROVE CacheInv'
  BY <1>1, <1>3, IdleStep
<1>4. ASSUME NEW p \in Proc, Ensure(p) PROVE CacheInv'
  BY <1>1, <1>4, ComputeHashStep, CheckFreshStep, RemoveDirBeginStep, RemoveDirEndStep,
     RemoveHashStep, CopyBeginStep, BuildBareStep, BuildVenvStep, BuildFailsStep,
     PublishStep, RecordStep DEF Ensure
<1>5. ASSUME NEW p \in Proc, Wipe(p) PROVE CacheInv'
  BY <1>1, <1>5, WipeStep
<1>6. ASSUME NEW p \in Proc, RemovalFails(p) \/ Crash(p) PROVE CacheInv'
  BY <1>1, <1>6, CrashStep, RemovalFailsStep
<1>7. ASSUME NEW v \in Version, OrphanWrites(v) \/ OrphanEnds(v) PROVE CacheInv'
  BY <1>1, <1>7, OrphanStep
<1>8. ASSUME NEW l \in Layer, Edit(l) PROVE CacheInv'
  BY <1>1, <1>8, EditStep
<1>9. CASE UNCHANGED vars
  <2>1. /\ UNCHANGED <<src, dir, hash, pc, cmd, layer, want, snap, spoilt>>
    BY <1>9 DEF vars, uv
  <2>2. \A l \in Layer : Wiping(l)' <=> Wiping(l)
    BY <2>1 DEF Wiping
  <2>3. OneCommand' /\ NeverAhead' /\ NeverOlderThanHash' /\ BrokenIsStale'
    BY <2>1, <2>2 DEF CacheInv, OneCommand, Active, NeverAhead, NeverOlderThanHash,
       BrokenIsStale, Behind
  <2>4. \A p \in Proc : Progress(p, layer[p])'
    BY <2>1 DEF CacheInv, Progress, Behind
  <2> QED
    BY <1>1, <2>3, <2>4 DEF CacheInv
<1> QED
  BY <1>2, <1>3, <1>4, <1>5, <1>6, <1>7, <1>8, <1>9 DEF Next

LEMMA CacheInvariance == ASSUME Orderly PROVE Spec => []CacheInv
<1>1. Orderly
  OBVIOUS
<1>2. CacheInv /\ [Next]_vars => CacheInv'
  BY <1>1, CacheInvNext
<1> QED
  BY <1>2, CacheInvInit, PTL DEF Spec

\* A whole layer is never older than its hash file says: hashing before
\* copying makes an edit in between cost a rebuild, not a stale cache.
THEOREM CacheNeverOlder == ASSUME Orderly PROVE Spec => []NeverOlderThanHash
<1>1. CacheInv => NeverOlderThanHash
  BY DEF CacheInv
<1>2. Spec => []CacheInv
  BY CacheInvariance
<1> QED
  BY <1>1, <1>2, PTL

LEMMA IntactWhenFresh == CacheInv => FreshMeansIntact
<1> SUFFICES ASSUME CacheInv, NEW l \in Layer, ~Wiping(l), ~l \in spoilt,
                    hash[l] = src[l], dir[l] # None
             PROVE  dir[l] = src[l]
  BY DEF FreshMeansIntact
<1>1. /\ src[l] \in Version /\ dir[l] \in Version \cup {Broken}
      /\ Version \subseteq Nat /\ None \notin Version
  BY CacheAssumption DEF CacheInv, TypeOK, Version
<1>2. dir[l] # Broken
  <2>1. dir[l] = Broken => hash[l] = None \/ hash[l] < src[l]
    BY DEF CacheInv, BrokenIsStale, Behind
  <2>2. src[l] \in Nat /\ hash[l] = src[l] /\ hash[l] # None
    BY <1>1
  <2> QED
    BY <2>1, <2>2
<1>3. dir[l] \in Nat /\ dir[l] <= src[l] /\ dir[l] >= src[l]
  BY <1>1, <1>2 DEF CacheInv, NeverAhead, NeverOlderThanHash
<1>4. src[l] \in Nat
  BY <1>1
<1> QED
  BY <1>3, <1>4

\* Whatever the freshness checks of ensure_case_bare_repo and
\* ensure_case_venv accept is built from the present source, after any kills,
\* failures and edits.
THEOREM CacheFreshIntact == ASSUME Orderly PROVE Spec => []FreshMeansIntact
<1>1. CacheInv => FreshMeansIntact
  BY IntactWhenFresh
<1>2. Spec => []CacheInv
  BY CacheInvariance
<1> QED
  BY <1>1, <1>2, PTL

-----------------------------------------------------------------------------
(* The layers the cells run on, when sources change between commands only. *)

\* What either inductive invariant says that the cells depend on.
CacheFacts ==
  /\ TypeOK
  /\ OneCommand
  /\ FreshMeansIntact
  /\ \A p \in Proc : pc[p] = "publish" => layer[p] = "bare" /\ dir["bare"] = None

\* Built from the present source, unless an orphan wrote into it since.
Match(l) == dir[l] = src[l] \/ l \in spoilt

\* Which layers p knows to be built from the present source.
UpToDate(p) ==
  /\ \A l \in Layer : src[l] \in recent[p][l]
  /\ pc[p] = "needed" => layer[p] = "bare"
  /\ pc[p] \in Building => want[p] = src[layer[p]]
  /\ pc[p] \in {"build", "publish"} => snap[p] = want[p]
  /\ pc[p] = "record" => Match(layer[p])
  /\ pc[p] \in Building \cup {"hash"} /\ layer[p] = "venv" => Match("bare")
  /\ pc[p] = "use" => Match("bare") /\ Match("venv")

UseInv == \A p \in Proc : Active(p) => UpToDate(p)

\* A step of p concerns no other process's knowledge.
LEMMA OnlyOwnKnowledge ==
  ASSUME CacheFacts, TypeOK, NEW p \in Proc, Active(p),
         NEW pt \in Points, Goto(p, pt), pt # "idle" => UpToDate(p)'
  PROVE  UseInv'
<1>1. /\ \A q \in Proc \ {p} : pc'[q] = "idle"
      /\ pc'[p] = pt
  BY OthersIdle DEF CacheFacts, TypeOK, Goto
<1> QED
  BY <1>1 DEF UseInv, Active

\* A layer found or made current is the last step but the next layer's.
LEMMA LayerDoneKnowledge ==
  ASSUME CacheFacts, UseInv, NEW p \in Proc, pc[p] \in Building,
         LayerDone(p), UNCHANGED <<src, dir, recent, spoilt>>, Match(layer[p])
  PROVE  UseInv'
<1>1. PICK pt \in {"hash", "use", "idle"} : Goto(p, pt)
  BY DEF LayerDone
<1>2. /\ pt \in Points /\ pc'[p] = pt /\ Active(p) /\ layer[p] \in Layer
      /\ UpToDate(p)
  BY <1>1 DEF Points, Building, CacheFacts, TypeOK, Goto, Active, UseInv
<1>3. ASSUME pt # "idle" PROVE UpToDate(p)'
  <2>1. CASE layer[p] = "bare"
    <3>1. pt = "hash"
      BY <1>1, <1>2, <2>1 DEF LayerDone, CacheFacts, TypeOK, Goto
    <3> QED
      BY <1>2, <2>1, <3>1 DEF UpToDate, Match, Building
  <2>2. CASE layer[p] = "venv"
    <3>1. pt = "use"
      BY <1>1, <1>2, <1>3, <2>2 DEF LayerDone, CacheFacts, TypeOK, Goto
    <3> QED
      BY <1>2, <2>2, <3>1 DEF UpToDate, Match, Building
  <2> QED
    BY <1>2, <2>1, <2>2 DEF Layer
<1> QED
  BY <1>1, <1>2, <1>3, OnlyOwnKnowledge DEF CacheFacts

LEMMA EnsureKnowledge ==
  ASSUME CacheFacts, UseInv, NEW p \in Proc, Ensure(p)
  PROVE  UseInv'
<1> USE DEF Building, Points, Active
<1>1. pc[p] \in Building \cup {"hash"} /\ Active(p) /\ UpToDate(p) /\ layer[p] \in Layer
  BY DEF Ensure, ComputeHash, CheckFresh, RemoveDirBegin, RemoveDirEnd, RemoveHash,
     CopyBegin, BuildBare, BuildVenv, BuildFails, Publish, Record, UseInv, CacheFacts,
     TypeOK
<1>2. TypeOK /\ FreshMeansIntact /\ \A l \in Layer : ~Wiping(l)
  BY <1>1, OthersIdle DEF CacheFacts, Wiping
<1>3. CASE ComputeHash(p)
  <2>1. /\ pc'[p] = "fresh" /\ want'[p] = src[layer[p]]
        /\ UNCHANGED <<src, dir, layer, recent, spoilt>> /\ pc[p] = "hash"
    BY <1>2, <1>3 DEF ComputeHash, disk, uv, TypeOK, Goto
  <2>2. UpToDate(p)'
    BY <1>1, <2>1 DEF UpToDate, Match
  <2> QED
    BY <1>1, <1>2, <1>3, <2>2, OnlyOwnKnowledge DEF ComputeHash
<1>4. CASE CheckFresh(p)
  <2>1. CASE hash[layer[p]] = want[p] /\ dir[layer[p]] # None
    <3>1. Match(layer[p])
      BY <1>1, <1>2, <1>4, <2>1 DEF CheckFresh, UpToDate, Match, FreshMeansIntact
    <3> QED
      BY <1>4, <2>1, <3>1, LayerDoneKnowledge DEF CheckFresh, disk, uv
  <2>2. CASE ~(hash[layer[p]] = want[p] /\ dir[layer[p]] # None)
    <3>1. /\ Goto(p, "rmdir") /\ pc'[p] = "rmdir" /\ pc[p] = "fresh"
          /\ UNCHANGED <<src, dir, layer, want, recent, spoilt>>
      BY <1>2, <1>4, <2>2 DEF CheckFresh, disk, uv, TypeOK, Goto
    <3>2. UpToDate(p)'
      BY <1>1, <3>1 DEF UpToDate, Match
    <3> QED
      BY <1>1, <1>2, <3>1, <3>2, OnlyOwnKnowledge
  <2> QED
    BY <2>1, <2>2
<1>5. CASE RemoveDirBegin(p) \/ RemoveDirEnd(p)
  <2>1. PICK pt \in {"rmhash", "rmtree", "idle"} : Goto(p, pt)
    BY <1>5 DEF RemoveDirBegin, RemoveDirEnd, CaseFailed
  <2>2. /\ pc'[p] = pt /\ UNCHANGED <<src, layer, want, recent, spoilt>>
        /\ layer[p] = "venv" => dir'["bare"] = dir["bare"]
        /\ pc[p] \in {"rmdir", "rmtree"}
    BY <1>2, <1>5, <2>1 DEF RemoveDirBegin, RemoveDirEnd, CaseFailed, uv, TypeOK, Goto, Layer
  <2>3. pt # "idle" => UpToDate(p)'
    BY <1>1, <2>2 DEF UpToDate, Match
  <2> QED
    BY <1>1, <1>2, <2>1, <2>3, OnlyOwnKnowledge
<1>6. CASE RemoveHash(p)
  <2>1. /\ Goto(p, "copy") /\ pc'[p] = "copy" /\ pc[p] = "rmhash"
        /\ UNCHANGED <<src, dir, layer, want, recent, spoilt>>
    BY <1>2, <1>6 DEF RemoveHash, uv, TypeOK, Goto
  <2>2. UpToDate(p)'
    BY <1>1, <2>1 DEF UpToDate, Match
  <2> QED
    BY <1>1, <1>2, <2>1, <2>2, OnlyOwnKnowledge
<1>7. CASE CopyBegin(p)
  <2>1. /\ Goto(p, "build") /\ pc'[p] = "build" /\ pc[p] = "copy"
        /\ UNCHANGED <<src, layer, want, recent>>
        /\ snap'[p] = src[layer[p]]
        /\ dir'["bare"] = dir["bare"] /\ "bare" \notin spoilt
    BY <1>2, <1>7 DEF CopyBegin, TypeOK, Goto, Layer
  <2>2. UpToDate(p)'
    BY <1>1, <2>1 DEF UpToDate, Match
  <2> QED
    BY <1>1, <1>2, <2>1, <2>2, OnlyOwnKnowledge
<1>8. CASE BuildBare(p)
  <2>1. /\ Goto(p, "publish") /\ pc'[p] = "publish" /\ pc[p] = "build"
        /\ UNCHANGED <<src, dir, layer, want, recent, spoilt>> /\ layer[p] = "bare"
        /\ snap'[p] = IF src["bare"] = snap[p] THEN snap[p] ELSE Broken
    BY <1>2, <1>8 DEF BuildBare, disk, uv, TypeOK, Goto
  <2>2. UpToDate(p)'
    BY <1>1, <2>1 DEF UpToDate, Match
  <2> QED
    BY <1>1, <1>2, <2>1, <2>2, OnlyOwnKnowledge
<1>9. CASE BuildVenv(p)
  <2>1. /\ Goto(p, "record") /\ pc'[p] = "record" /\ pc[p] = "build"
        /\ UNCHANGED <<src, layer, want, recent, spoilt>> /\ layer[p] = "venv"
        /\ dir'["venv"] = snap[p] /\ dir'["bare"] = dir["bare"]
    BY <1>2, <1>9 DEF BuildVenv, uv, TypeOK, Goto, Layer
  <2>2. UpToDate(p)'
    BY <1>1, <2>1 DEF UpToDate, Match
  <2> QED
    BY <1>1, <1>2, <2>1, <2>2, OnlyOwnKnowledge
<1>10. CASE BuildFails(p)
  BY <1>1, <1>2, <1>10, OnlyOwnKnowledge DEF BuildFails, CaseFailed
<1>11. CASE Publish(p)
  <2>1. layer[p] = "bare" /\ dir["bare"] = None
    BY <1>11 DEF Publish, CacheFacts
  <2>2. /\ Goto(p, "record") /\ pc'[p] = "record" /\ pc[p] = "publish"
        /\ UNCHANGED <<src, layer, want, recent, spoilt>>
        /\ dir'["bare"] = snap[p]
    BY <1>2, <1>11, <2>1 DEF Publish, uv, TypeOK, Goto, Layer
  <2>3. UpToDate(p)'
    BY <1>1, <2>1, <2>2 DEF UpToDate, Match
  <2> QED
    BY <1>1, <1>2, <2>2, <2>3, OnlyOwnKnowledge
<1>12. CASE Record(p)
  BY <1>1, <1>12, LayerDoneKnowledge DEF Record, uv, UpToDate
<1> QED
  BY <1>3, <1>4, <1>5, <1>6, <1>7, <1>8, <1>9, <1>10, <1>11, <1>12 DEF Ensure

LEMMA UseInvNext ==
  ASSUME ~EditAnytime, CacheFacts, OneCommand', UseInv, [Next]_vars
  PROVE  UseInv'
<1> USE DEF Points, Building
<1>1. TypeOK
  BY DEF CacheFacts
<1>2. ASSUME NEW p \in Proc, Start(p) PROVE UseInv'
  <2>1. /\ pc' \in [Proc -> {pc[q] : q \in Proc} \cup {"hash", "needed", "wipe"}]
        /\ pc'[p] \in {"hash", "needed", "wipe"}
        /\ \A q \in Proc \ {p} : pc'[q] = pc[q]
    <3>1. PICK c \in {"prepare", "eval", "clean"} : Goto(p, FirstStep(c))
      BY <1>2, CacheAssumption DEF Start
    <3> QED
      BY <1>1, <3>1 DEF TypeOK, Goto, FirstStep
  <2>2. /\ layer'[p] = "bare" /\ UNCHANGED <<src, dir>>
        /\ recent'[p] = [l \in Layer |-> {src[l]}]
    BY <1>1, <1>2 DEF Start, disk, TypeOK
  <2>3. UpToDate(p)'
    BY <2>1, <2>2 DEF UpToDate
  <2>4. Active(p)'
    BY <2>1 DEF Active
  <2>5. \A q \in Proc \ {p} : ~Active(q)'
    BY <2>4 DEF OneCommand
  <2> QED
    BY <2>3, <2>5 DEF UseInv
<1>3. ASSUME NEW p \in Proc, Needed(p) PROVE UseInv'
  <2>1. /\ UpToDate(p) /\ Active(p) /\ FreshMeansIntact /\ \A l \in Layer : ~Wiping(l)
    BY <1>3, OthersIdle DEF Needed, UseInv, Active, CacheFacts, Wiping
  <2>2. PICK pt \in {"hash", "use"} :
          /\ Goto(p, pt)
          /\ pt = "use" => \A l \in Layer : dir[l] # None /\ hash[l] = src[l]
    BY <1>3 DEF Needed
  <2>3. /\ pc'[p] = pt /\ pc[p] = "needed"
        /\ UNCHANGED <<src, dir, layer, want, recent, spoilt>>
    BY <1>1, <1>3, <2>2 DEF Needed, disk, uv, TypeOK, Goto
  <2>4. UpToDate(p)'
    BY <2>1, <2>2, <2>3 DEF UpToDate, Match, FreshMeansIntact, Layer
  <2> QED
    BY <1>1, <2>1, <2>2, <2>4, OnlyOwnKnowledge
<1>4. ASSUME NEW p \in Proc, Use(p) \/ Crash(p) \/ RemovalFails(p) PROVE UseInv'
  BY <1>1, <1>4, OnlyOwnKnowledge DEF Use, Crash, RemovalFails, CaseFailed, Active
<1>5. ASSUME NEW p \in Proc, Wipe(p) PROVE UseInv'
  <2>1. /\ pc[p] \in Wipes /\ UNCHANGED <<src, recent>>
        /\ \E pt \in {"idle"} \cup Wipes : Goto(p, pt)
    BY <1>1, <1>5 DEF Wipe, WipeDirBegin, WipeDirEnd, WipeHash, WipeEnd, Wipes,
       TypeOK, Goto
  <2>2. PICK pt \in {"idle"} \cup Wipes : Goto(p, pt)
    BY <2>1
  <2>3. pc'[p] = pt
    BY <1>1, <2>2 DEF TypeOK, Goto
  <2>4. pt # "idle" => UpToDate(p)'
    <3>1. UpToDate(p)
      BY <2>1 DEF UseInv, Active, Wipes
    <3> QED
      BY <2>1, <2>3, <3>1 DEF UpToDate, Wipes
  <2> QED
    BY <1>1, <2>1, <2>2, <2>4, OnlyOwnKnowledge DEF Active, Wipes
<1>6. ASSUME NEW p \in Proc, Ensure(p) PROVE UseInv'
  BY <1>6, EnsureKnowledge
<1>7. ASSUME NEW v \in Version, OrphanWrites(v) \/ OrphanEnds(v) PROVE UseInv'
  <2>1. /\ UNCHANGED <<src, pc, layer, want, snap, recent>>
        /\ dir'["bare"] = dir["bare"]
        /\ UNCHANGED <<dir, spoilt>> \/ spoilt' = {"venv"}
    BY <1>1, <1>7 DEF OrphanWrites, OrphanEnds, disk, TypeOK, Layer
  <2>2. ASSUME NEW l \in Layer, Match(l) PROVE Match(l)'
    BY <1>1, <2>1, <2>2 DEF Match, Layer, TypeOK
  <2>3. \A p \in Proc : layer[p] \in Layer
    BY <1>1 DEF TypeOK
  <2>4. ASSUME NEW p \in Proc, UpToDate(p) PROVE UpToDate(p)'
    BY <2>1, <2>2, <2>3, <2>4 DEF UpToDate, Layer
  <2> QED
    BY <2>1, <2>4 DEF UseInv, Active
<1>8. ASSUME NEW l \in Layer, Edit(l) PROVE UseInv'
  BY <1>8 DEF Edit, UseInv, Active
<1>9. CASE UNCHANGED vars
  BY <1>9 DEF vars, uv, UseInv, UpToDate, Match, Active
<1> QED
  BY <1>2, <1>3, <1>4, <1>5, <1>6, <1>7, <1>8, <1>9 DEF Next

LEMMA UseInvInit == Init => UseInv
BY DEF Init, UseInv, Active

LEMMA UseIntact == UseInv => CellsUseIntactCache
BY DEF UseInv, UpToDate, Match, CellsUseIntactCache, Active, Layer

\* eval, eval-all: the cells run on layers of a version the sources had since
\* the command began, however often earlier commands were killed.
THEOREM CacheUseIntact ==
  ASSUME Orderly, ~EditAnytime PROVE Spec => []CellsUseIntactCache
<1>1. CacheInv => CacheFacts
  BY IntactWhenFresh DEF CacheInv, CacheFacts, Progress
<1>2. CacheFacts /\ CacheFacts' /\ UseInv /\ [Next]_vars => UseInv'
  BY UseInvNext DEF CacheFacts
<1>3. Spec => []CacheInv
  BY CacheInvariance
<1> QED
  BY <1>1, <1>2, <1>3, UseInvInit, UseIntact, PTL DEF Spec

-----------------------------------------------------------------------------
(* Sources that may return to an earlier version.                          *)
(*                                                                         *)
(* A half-made directory could then be found under a hash that has become  *)
(* current again, so the argument above, that its hash is behind, is lost. *)
(* It is not needed when no command is killed and no source changes under  *)
(* one: every command then leaves directories that match their hash files. *)

Unkilled == Serial /\ MayCrash = {} /\ ~EditAnytime

\* The directory is what its hash file says, or one of the two is missing.
Whole(l) == hash[l] = None \/ dir[l] \in {hash[l], None}

\* How far the rebuild of layer l by p has come.
Rebuilt(p, l) ==
  /\ pc[p] \in Building => want[p] = src[l]
  /\ pc[p] = "rmdir" => dir[l] = None \/ hash[l] # src[l]
  /\ pc[p] = "rmtree" => dir[l] = Broken /\ hash[l] # src[l]
  /\ pc[p] \in {"rmhash", "copy"} => dir[l] = None
  /\ pc[p] \in {"copy", "build", "publish", "record"} => hash[l] = None
  /\ pc[p] \in {"build", "publish"} =>
       snap[p] = src[l] /\ (l = "bare" => dir[l] = None)
  /\ pc[p] = "publish" => l = "bare"
  /\ pc[p] = "record" => dir[l] = src[l]

\* Only the layer whose directory is being removed may belie its hash.
BeliedBy(l) == \E p \in Proc : pc[p] = "rmtree" /\ layer[p] = l

WholeInv ==
  /\ TypeOK
  /\ orphans = {} /\ spoilt = {}
  /\ OneCommand
  /\ \A l \in Layer : hash[l] \in Version /\ dir[l] \in Version => dir[l] = hash[l]
  /\ \A l \in Layer : Whole(l) \/ BeliedBy(l) \/ Wiping(l)
  /\ \A p \in Proc : Rebuilt(p, layer[p])

\* What a step of ensure_case_bare_repo or ensure_case_venv starts from.
LEMMA RebuildFacts ==
  ASSUME WholeInv, NEW p \in Proc, Active(p), pc[p] \notin Wipes
  PROVE  /\ \A l \in Layer : ~Wiping(l)
         /\ layer[p] \in Layer /\ src[layer[p]] \in Version
         /\ dir[layer[p]] \in Version \cup {None, Broken}
         /\ hash[layer[p]] \in Version \cup {None}
         /\ None \notin Version /\ Broken \notin Version /\ None # Broken
         /\ Rebuilt(p, layer[p])
         /\ pc[p] # "rmtree" => Whole(layer[p])
         /\ \A l \in Layer \ {layer[p]} : Whole(l)
<1>1. \A q \in Proc \ {p} : pc[q] = "idle"
  BY OthersIdle DEF WholeInv
<1>2. \A l \in Layer : ~Wiping(l)
  BY <1>1 DEF Wiping, Wipes
<1>3. \A l \in Layer : BeliedBy(l) => pc[p] = "rmtree" /\ layer[p] = l
  BY <1>1 DEF BeliedBy
<1> QED
  BY <1>2, <1>3, CacheAssumption DEF WholeInv, TypeOK

\* A step of p concerns the layer it works on, and must leave that whole.
LEMMA RebuildStep ==
  ASSUME WholeInv, TypeOK', NEW p \in Proc, Active(p), pc[p] \notin Wipes,
         NEW pt \in Points \ Wipes, Goto(p, pt), UNCHANGED <<src, cmd>>,
         orphans' = {} /\ spoilt' = {},
         \A l \in Layer \ {layer[p]} : dir'[l] = dir[l] /\ hash'[l] = hash[l],
         \/ hash'[layer[p]] = None
         \/ dir'[layer[p]] \in {hash'[layer[p]], None}
         \/ pt = "rmtree" /\ layer'[p] = layer[p] /\ dir'[layer[p]] = Broken,
         Rebuilt(p, layer[p])'
  PROVE  WholeInv'
<1>1. /\ OneCommand' /\ pc'[p] = pt
      /\ \A q \in Proc \ {p} : pc[q] = "idle" /\ pc'[q] = "idle"
  BY StayAlone DEF WholeInv
<1>2. ASSUME NEW l \in Layer, hash'[l] \in Version, dir'[l] \in Version
      PROVE  dir'[l] = hash'[l]
  <2>1. CASE l = layer[p]
    BY <1>2, <2>1, CacheAssumption
  <2>2. CASE l # layer[p]
    BY <1>2, <2>2 DEF WholeInv
  <2> QED
    BY <2>1, <2>2
<1>3. ASSUME NEW l \in Layer PROVE Whole(l)' \/ BeliedBy(l)'
  <2>1. CASE l = layer[p]
    BY <1>1, <2>1 DEF Whole, BeliedBy
  <2>2. CASE l # layer[p]
    BY <2>2, RebuildFacts DEF Whole
  <2> QED
    BY <2>1, <2>2
<1>4. \A q \in Proc \ {p} : Rebuilt(q, layer[q])'
  BY <1>1 DEF Rebuilt, Building
<1> QED
  BY <1>1, <1>2, <1>3, <1>4 DEF WholeInv

\* The end of a layer: nothing is being rebuilt where it leads.
LEMMA RebuildEnds ==
  ASSUME WholeInv, TypeOK', NEW p \in Proc, Active(p), pc[p] \notin Wipes,
         NEW pt \in {"hash", "use", "idle"}, Goto(p, pt), UNCHANGED <<src, cmd>>,
         orphans' = {} /\ spoilt' = {},
         \A l \in Layer \ {layer[p]} : dir'[l] = dir[l] /\ hash'[l] = hash[l],
         hash'[layer[p]] = None \/ dir'[layer[p]] \in {hash'[layer[p]], None}
  PROVE  WholeInv'
<1>1. pc'[p] = pt /\ pt \in Points \ Wipes
  BY DEF WholeInv, TypeOK, Goto, Points, Wipes
<1>2. Rebuilt(p, layer[p])'
  BY <1>1 DEF Rebuilt, Building
<1> QED
  BY <1>1, <1>2, RebuildStep

LEMMA EnsureStep ==
  ASSUME WholeInv, TypeOK', NEW p \in Proc, Ensure(p)
  PROVE  WholeInv'
<1> DEFINE l == layer[p]
<1> USE DEF Active, Points, Building, Wipes
<1>1. /\ pc[p] \in Building \cup {"hash"} /\ UNCHANGED <<src, cmd>>
      /\ orphans' = {} /\ spoilt' = {}
  BY DEF Ensure, ComputeHash, CheckFresh, RemoveDirBegin, RemoveDirEnd, RemoveHash,
     CopyBegin, BuildBare, BuildVenv, BuildFails, Publish, Record, disk, uv, WholeInv
<1>2. /\ Active(p) /\ pc[p] \notin Wipes
      /\ l \in Layer /\ src[l] \in Version
      /\ dir[l] \in Version \cup {None, Broken}
      /\ hash[l] \in Version \cup {None}
      /\ None \notin Version /\ Broken \notin Version /\ None # Broken
      /\ Rebuilt(p, l)
      /\ pc[p] # "rmtree" => Whole(l)
  BY <1>1, RebuildFacts
<1>3. /\ dir \in [Layer -> Version \cup {None, Broken}]
      /\ hash \in [Layer -> Version \cup {None}]
      /\ pc \in [Proc -> Points] /\ layer \in [Proc -> Layer]
      /\ want \in [Proc -> Version \cup {None}]
      /\ snap \in [Proc -> Version \cup {None, Broken}]
  BY DEF WholeInv, TypeOK
<1>4. CASE ComputeHash(p)
  <2>1. /\ Goto(p, "fresh") /\ pc'[p] = "fresh" /\ want'[p] = src[l] /\ pc[p] = "hash"
        /\ UNCHANGED <<dir, hash, layer>>
    BY <1>3, <1>4 DEF ComputeHash, disk, Goto
  <2>2. Rebuilt(p, layer[p])'
    BY <1>1, <2>1 DEF Rebuilt
  <2> QED
    BY <1>1, <1>2, <2>1, <2>2, RebuildStep DEF Whole
<1>5. CASE CheckFresh(p)
  <2>1. pc[p] = "fresh" /\ UNCHANGED <<dir, hash, want>>
    BY <1>5 DEF CheckFresh, disk
  <2>2. CASE LayerDone(p)
    <3>1. PICK pt \in {"hash", "use", "idle"} : Goto(p, pt)
      BY <2>2 DEF LayerDone
    <3> QED
      BY <1>1, <1>2, <2>1, <3>1, RebuildEnds DEF Whole
  <2>3. CASE /\ ~(hash[l] = want[p] /\ dir[l] # None)
             /\ Goto(p, "rmdir") /\ UNCHANGED layer
    <3>1. pc'[p] = "rmdir"
      BY <1>3, <2>3 DEF Goto
    <3>2. Rebuilt(p, layer[p])'
      BY <1>1, <1>2, <2>1, <2>3, <3>1 DEF Rebuilt
    <3> QED
      BY <1>1, <1>2, <2>1, <2>3, <3>2, RebuildStep DEF Whole
  <2> QED
    BY <1>5, <2>2, <2>3 DEF CheckFresh
<1>6. CASE RemoveDirBegin(p)
  <2>1. pc[p] = "rmdir" /\ UNCHANGED <<hash, layer, want>>
    BY <1>6 DEF RemoveDirBegin
  <2>2. CASE dir[l] = None
    <3>1. Goto(p, "rmhash") /\ pc'[p] = "rmhash" /\ UNCHANGED dir
      BY <1>3, <1>6, <2>2 DEF RemoveDirBegin, Goto
    <3>2. Rebuilt(p, layer[p])'
      BY <1>1, <1>2, <2>1, <2>2, <3>1 DEF Rebuilt
    <3> QED
      BY <1>1, <1>2, <2>1, <3>1, <3>2, RebuildStep DEF Whole
  <2>3. CASE dir[l] # None
    <3>1. /\ Goto(p, "rmtree") /\ pc'[p] = "rmtree"
          /\ dir' = [dir EXCEPT ![l] = Broken]
      BY <1>3, <1>6, <2>3 DEF RemoveDirBegin, Goto
    <3>2. dir'[l] = Broken /\ \A k \in Layer \ {l} : dir'[k] = dir[k]
      BY <1>2, <1>3, <3>1
    <3>3. Rebuilt(p, layer[p])'
      BY <1>1, <1>2, <2>1, <2>3, <3>1, <3>2 DEF Rebuilt
    <3> QED
      BY <1>1, <1>2, <2>1, <3>1, <3>2, <3>3, RebuildStep
  <2> QED
    BY <2>2, <2>3
<1>7. CASE RemoveDirEnd(p)
  <2>1. pc[p] = "rmtree" /\ UNCHANGED <<hash, want>>
    BY <1>7 DEF RemoveDirEnd
  <2>2. /\ Goto(p, "rmhash") /\ pc'[p] = "rmhash" /\ UNCHANGED layer
        /\ dir' = [dir EXCEPT ![l] = None]
    BY <1>2, <1>3, <1>7, <2>1 DEF RemoveDirEnd, Rebuilt, Goto
  <2>3. dir'[l] = None /\ \A k \in Layer \ {l} : dir'[k] = dir[k]
    BY <1>2, <1>3, <2>2
  <2>4. Rebuilt(p, layer[p])'
    BY <1>1, <1>2, <2>1, <2>2, <2>3 DEF Rebuilt
  <2> QED
    BY <1>1, <1>2, <2>1, <2>2, <2>3, <2>4, RebuildStep
<1>8. CASE RemoveHash(p)
  <2>1. /\ Goto(p, "copy") /\ pc'[p] = "copy" /\ pc[p] = "rmhash"
        /\ UNCHANGED <<dir, layer, want>>
        /\ hash' = [hash EXCEPT ![l] = None]
    BY <1>3, <1>8 DEF RemoveHash, Goto
  <2>2. hash'[l] = None /\ \A k \in Layer \ {l} : hash'[k] = hash[k]
    BY <1>2, <1>3, <2>1
  <2>3. Rebuilt(p, layer[p])'
    BY <1>1, <1>2, <2>1, <2>2 DEF Rebuilt
  <2> QED
    BY <1>1, <1>2, <2>1, <2>2, <2>3, RebuildStep
<1>9. CASE CopyBegin(p)
  <2>1. /\ Goto(p, "build") /\ pc'[p] = "build" /\ pc[p] = "copy"
        /\ UNCHANGED <<hash, layer, want>> /\ snap'[p] = src[l]
    BY <1>3, <1>9 DEF CopyBegin, Goto
  <2>2. /\ \A k \in Layer \ {l} : dir'[k] = dir[k]
        /\ l = "bare" => dir'[l] = dir[l]
    BY <1>2, <1>3, <1>9 DEF CopyBegin, Layer
  <2>3. Rebuilt(p, layer[p])' /\ hash'[l] = None
    BY <1>1, <1>2, <2>1, <2>2 DEF Rebuilt
  <2> QED
    BY <1>1, <1>2, <2>1, <2>2, <2>3, RebuildStep
<1>10. CASE BuildBare(p)
  <2>1. /\ Goto(p, "publish") /\ pc'[p] = "publish" /\ pc[p] = "build"
        /\ UNCHANGED <<dir, hash, layer, want>> /\ l = "bare"
        /\ snap'[p] = IF src["bare"] = snap[p] THEN snap[p] ELSE Broken
    BY <1>3, <1>10 DEF BuildBare, disk, Goto
  <2>2. Rebuilt(p, layer[p])' /\ hash'[l] = None
    BY <1>1, <1>2, <2>1 DEF Rebuilt
  <2> QED
    BY <1>1, <1>2, <2>1, <2>2, RebuildStep
<1>11. CASE BuildVenv(p)
  <2>1. /\ Goto(p, "record") /\ pc'[p] = "record" /\ pc[p] = "build"
        /\ UNCHANGED <<hash, layer, want>> /\ l = "venv"
        /\ dir' = [dir EXCEPT !["venv"] = snap[p]]
    BY <1>3, <1>11 DEF BuildVenv, Goto
  <2>2. dir'[l] = snap[p] /\ \A k \in Layer \ {l} : dir'[k] = dir[k]
    BY <1>2, <1>3, <2>1
  <2>3. Rebuilt(p, layer[p])' /\ hash'[l] = None
    BY <1>1, <1>2, <2>1, <2>2 DEF Rebuilt
  <2> QED
    BY <1>1, <1>2, <2>1, <2>2, <2>3, RebuildStep
<1>12. CASE BuildFails(p)
  <2>1. pc[p] = "build" /\ Goto(p, "idle") /\ UNCHANGED <<dir, hash>>
    BY <1>12 DEF BuildFails, CaseFailed, disk
  <2> QED
    BY <1>1, <1>2, <2>1, RebuildEnds DEF Whole
<1>13. CASE Publish(p)
  <2>1. /\ Goto(p, "record") /\ pc'[p] = "record" /\ pc[p] = "publish"
        /\ UNCHANGED <<hash, layer, want>>
    BY <1>3, <1>13 DEF Publish, Goto
  <2>2. l = "bare" /\ dir' = [dir EXCEPT ![l] = snap[p]]
    BY <1>2, <1>13, <2>1 DEF Publish, Rebuilt
  <2>3. dir'[l] = snap[p] /\ \A k \in Layer \ {l} : dir'[k] = dir[k]
    BY <1>2, <1>3, <2>2
  <2>4. Rebuilt(p, layer[p])' /\ hash'[l] = None
    BY <1>1, <1>2, <2>1, <2>3 DEF Rebuilt
  <2> QED
    BY <1>1, <1>2, <2>1, <2>3, <2>4, RebuildStep
<1>14. CASE Record(p)
  <2>1. /\ pc[p] = "record" /\ LayerDone(p) /\ UNCHANGED dir
        /\ hash' = [hash EXCEPT ![l] = want[p]]
    BY <1>14 DEF Record
  <2>2. hash'[l] = want[p] /\ \A k \in Layer \ {l} : hash'[k] = hash[k]
    BY <1>2, <1>3, <2>1
  <2>3. dir'[l] = hash'[l]
    BY <1>2, <2>1, <2>2 DEF Rebuilt
  <2>4. PICK pt \in {"hash", "use", "idle"} : Goto(p, pt)
    BY <2>1 DEF LayerDone
  <2> QED
    BY <1>1, <1>2, <2>1, <2>2, <2>3, <2>4, RebuildEnds
<1> QED
  BY <1>4, <1>5, <1>6, <1>7, <1>8, <1>9, <1>10, <1>11, <1>12, <1>13, <1>14 DEF Ensure

LEMMA WipeLeavesNone ==
  ASSUME WholeInv, TypeOK', NEW p \in Proc, Wipe(p)
  PROVE  WholeInv'
<1>1. pc[p] \in Wipes /\ UNCHANGED <<src, cmd, orphans, spoilt>>
  BY DEF Wipe, WipeDirBegin, WipeDirEnd, WipeHash, WipeEnd, disk, uv, Wipes
<1>2. /\ \A q \in Proc \ {p} : pc[q] = "idle"
      /\ None \notin Version /\ Broken \notin Version
  BY <1>1, OthersIdle, CacheAssumption DEF WholeInv, Active, Wipes
<1>3. PICK pt \in {"idle"} \cup Wipes : Goto(p, pt) /\ pc'[p] = pt
  BY <1>1 DEF Wipe, WipeDirBegin, WipeDirEnd, WipeHash, WipeEnd, WholeInv, TypeOK, Goto,
     Wipes
<1>4. OneCommand' /\ \A q \in Proc \ {p} : pc'[q] = "idle"
  BY <1>1, <1>2, <1>3, StayAlone DEF WholeInv, Active, Points, Wipes
<1>5. ASSUME NEW l \in Layer
      PROVE  /\ hash'[l] = hash[l] \/ hash'[l] = None
             /\ dir'[l] \in {dir[l], None, Broken}
             /\ Whole(l)' \/ Wiping(l)'
  <2>1. CASE WipeDirBegin(p)
    <3>1. PICK k \in Layer : /\ dir' = [dir EXCEPT ![k] = Broken]
                             /\ layer'[p] = k /\ pc'[p] = "wiping" /\ pc[p] = "wipe"
                             /\ hash' = hash
      BY <2>1 DEF WipeDirBegin, WholeInv, TypeOK, Goto
    <3>2. Wiping(k)' /\ Whole(l)
      BY <1>2, <3>1 DEF Wiping, WholeInv, BeliedBy
    <3>3. l # k => dir'[l] = dir[l]
      BY <3>1 DEF WholeInv, TypeOK
    <3> QED
      BY <3>1, <3>2, <3>3 DEF WholeInv, TypeOK, Whole
  <2>2. CASE WipeDirEnd(p)
    <3>1. l # layer[p] => Whole(l)
      BY <1>2, <2>2 DEF WipeDirEnd, Wiping, WholeInv, BeliedBy
    <3>2. /\ dir'[layer[p]] # Broken /\ hash' = hash
          /\ l # layer[p] => dir'[l] = dir[l]
          /\ dir'[l] \in {dir[l], None}
      BY <1>2, <2>2, CacheAssumption DEF WipeDirEnd, WholeInv, TypeOK
    <3>3. /\ dir'[l] \in Version \cup {None, Broken} /\ hash'[l] \in Version \cup {None}
          /\ hash[l] \in Version /\ dir[l] \in Version => dir[l] = hash[l]
      BY DEF WholeInv, TypeOK
    <3> QED
      BY <3>1, <3>2, <3>3 DEF Whole
  <2>3. CASE WipeHash(p) \/ WipeEnd(p)
    <3>1. pc[p] = "wipe" /\ dir' = dir /\ (hash'[l] = hash[l] \/ hash'[l] = None)
      BY <2>3 DEF WipeHash, WipeEnd, disk, WholeInv, TypeOK
    <3>2. Whole(l)
      BY <1>2, <3>1 DEF Wiping, WholeInv, BeliedBy
    <3> QED
      BY <3>1, <3>2 DEF Whole
  <2> QED
    BY <2>1, <2>2, <2>3 DEF Wipe
<1>6. \A l \in Layer : hash'[l] \in Version /\ dir'[l] \in Version => dir'[l] = hash'[l]
  BY <1>2, <1>5 DEF WholeInv
<1>7. \A q \in Proc : Rebuilt(q, layer[q])'
  BY <1>3, <1>4 DEF Rebuilt, Building, Wipes
<1> QED
  BY <1>1, <1>4, <1>5, <1>6, <1>7 DEF WholeInv

LEMMA WholeInvNext == Unkilled /\ WholeInv /\ [Next]_vars => WholeInv'
<1> SUFFICES ASSUME Unkilled, WholeInv, [Next]_vars PROVE WholeInv'
  OBVIOUS
<1>1. TypeOK'
  BY TypeOKNext DEF WholeInv
<1>2. ASSUME NEW p \in Proc, Start(p) PROVE WholeInv'
  <2>1. /\ OneCommand'
        /\ \A q \in Proc : pc[q] = "idle" /\ pc'[q] \in {"idle", "hash", "needed", "wipe"}
    BY <1>2, StartAlone DEF WholeInv, Unkilled
  <2>2. UNCHANGED <<src, dir, hash, orphans, spoilt>>
    BY <1>2 DEF Start, disk, uv
  <2>3. \A l \in Layer : Whole(l)'
    BY <2>1, <2>2 DEF WholeInv, Wiping, BeliedBy, Whole
  <2>4. \A q \in Proc : Rebuilt(q, layer[q])'
    BY <2>1 DEF Rebuilt, Building
  <2> QED
    BY <1>1, <2>1, <2>2, <2>3, <2>4 DEF WholeInv
<1>3. ASSUME NEW p \in Proc, Needed(p) \/ Use(p) PROVE WholeInv'
  <2>1. PICK pt \in {"hash", "use", "idle"} : Goto(p, pt)
    BY <1>3 DEF Needed, Use
  <2>2. /\ pc[p] \in {"needed", "use"} /\ Active(p)
        /\ UNCHANGED <<src, dir, hash, cmd, orphans, spoilt>>
    BY <1>3 DEF Needed, Use, disk, uv, Active
  <2>3. pc[p] \notin Wipes /\ orphans' = {} /\ spoilt' = {}
    BY <2>2 DEF Wipes, WholeInv
  <2> QED
    BY <1>1, <2>1, <2>2, <2>3, RebuildFacts, RebuildEnds DEF Whole
<1>4. /\ \A p \in Proc : ~Crash(p) /\ ~RemovalFails(p)
      /\ \A v \in Version : ~OrphanWrites(v) /\ ~OrphanEnds(v)
  BY DEF Crash, Unkilled, RemovalFails, OrphanWrites, OrphanEnds, WholeInv
<1>5. ASSUME NEW e \in Layer, Edit(e) PROVE WholeInv'
  <2>1. /\ \A p \in Proc : pc[p] = "idle"
        /\ UNCHANGED <<dir, hash, pc, cmd, layer, orphans, spoilt>>
    BY <1>5 DEF Edit, Unkilled, disk, uv
  <2>2. \A p \in Proc : Rebuilt(p, layer[p])'
    BY <2>1 DEF Rebuilt, Building
  <2> QED
    BY <1>1, <2>1, <2>2 DEF WholeInv, OneCommand, Active, Wiping, Whole, BeliedBy
<1>6. CASE UNCHANGED vars
  BY <1>1, <1>6 DEF vars, uv, WholeInv, OneCommand, Active, Wiping, Whole, BeliedBy, Rebuilt
<1> QED
  BY <1>1, <1>2, <1>3, <1>4, <1>5, <1>6, EnsureStep, WipeLeavesNone DEF Next

LEMMA WholeInvariance == ASSUME Unkilled PROVE Spec => []WholeInv
<1>1. Init => WholeInv
  BY TypeOKInit, CacheAssumption
  DEF Init, WholeInv, OneCommand, Active, Whole, Rebuilt, Building
<1>2. Unkilled
  OBVIOUS
<1>3. WholeInv /\ [Next]_vars => WholeInv'
  BY <1>2, WholeInvNext
<1> QED
  BY <1>1, <1>3, PTL DEF Spec

LEMMA WholeWhenFresh == WholeInv => FreshMeansIntact
<1> SUFFICES ASSUME WholeInv, NEW l \in Layer, ~Wiping(l),
                    hash[l] = src[l], dir[l] # None
             PROVE  dir[l] = src[l]
  BY DEF FreshMeansIntact
<1>1. src[l] # None
  BY CacheAssumption DEF WholeInv, TypeOK
<1>2. ~BeliedBy(l)
  BY DEF WholeInv, BeliedBy, Rebuilt
<1> QED
  BY <1>1, <1>2 DEF WholeInv, Whole

\* Without kills and edits under a command, the freshness checks of
\* ensure_case_bare_repo and ensure_case_venv can be trusted even if a
\* fixture or lock file goes back to an earlier version.
THEOREM CacheRevertsFresh == ASSUME Unkilled PROVE Spec => []FreshMeansIntact
BY WholeInvariance, WholeWhenFresh, PTL

\* Likewise a whole layer is never older than its hash file says.
THEOREM CacheRevertsNeverOlder == ASSUME Unkilled PROVE Spec => []NeverOlderThanHash
<1>1. WholeInv => NeverOlderThanHash
  BY CacheAssumption DEF WholeInv, NeverOlderThanHash, Version
<1> QED
  BY <1>1, WholeInvariance, PTL

\* eval, eval-all: and the cells run on intact layers of a version the sources
\* had since the command began, whichever way the sources were moved between
\* commands.
THEOREM CacheRevertsUse == ASSUME Unkilled PROVE Spec => []CellsUseIntactCache
<1>1. WholeInv => CacheFacts
  BY WholeWhenFresh DEF WholeInv, CacheFacts, Rebuilt
<1>2. CacheFacts /\ CacheFacts' /\ UseInv /\ [Next]_vars => UseInv'
  BY UseInvNext DEF CacheFacts, Unkilled
<1>3. Spec => []WholeInv
  BY WholeInvariance
<1> QED
  BY <1>1, <1>2, <1>3, UseInvInit, UseIntact, PTL DEF Spec
=============================================================================
