------------------------ MODULE FrameworkSetupProofs ------------------------
(***************************************************************************)
(* Proofs about the sentinels, for any number of invocations, any          *)
(* manifests, and edits and kills at any step.                             *)
(***************************************************************************)
EXTENDS FrameworkSetup, TLAPS

-----------------------------------------------------------------------------
(* The inductive invariants.                                               *)

\* Without overlap a setup is alone, also one that has been killed.
AloneInv ==
  ~overlap =>
    /\ \A p, q \in Procs : pc[p] \in InSetup /\ q # p => pc[q] = "idle"
    /\ orphans # {} => ok = Nothing /\ \A p \in Procs : pc[p] = "idle"

\* A setup removes both sentinels before its command runs.
SentinelInv ==
  /\ OneSentinel
  /\ ~overlap => \A p \in Procs :
       /\ pc[p] \in {"unlink_fail", "wait", "write"} => ok = Nothing
       /\ pc[p] \in {"wait", "write"} => fail = Nothing

\* What is installed: what the setup command had before it, as long as the
\* dependency files are those of the fingerprint.
Installed(fp) ==
  fp.deps = deps =>
    installed # Nothing /\ installed.setup = fp.command /\ installed.deps = deps

InstallInv ==
  /\ ok # Nothing => ok.deps <= deps
  /\ \A p \in Procs :
       /\ pc[p] \in InSetup => want[p].deps <= deps /\ want[p].command = spec[p].setup
       /\ pc[p] = "write" => job[p] \in {"ok", "failed"}
       /\ ~overlap /\ job[p] = "ok" => Installed(want[p])
  /\ ~overlap /\ ok # Nothing => Installed(ok)

\* An invocation nobody disturbs gets to its cells with a verdict.
CalmInv ==
  \A p \in Procs : calm[p] /\ pc[p] # "idle" =>
    /\ spec[p] = manifest
    /\ pc[p] \in InSetup => want[p] = Fingerprint(spec[p])
    /\ pc[p] \in {"cell", "agent"} /\ ~overlap /\ Runnable(spec[p]) /\ fail = Nothing
         => ok = Fingerprint(spec[p])
    /\ pc[p] = "agent" /\ ~overlap => spec[p].setup = NoSetup
                                      \/ (Runnable(spec[p]) /\ fail = Nothing)

-----------------------------------------------------------------------------
(* Type correctness.                                                       *)

LEMMA Types ==
  ASSUME TypeOK, NEW m \in Manifests
  PROVE  /\ Fingerprint(m) \in Fingerprints /\ Fingerprint(m) # Nothing
         /\ Fingerprint(m).deps = deps /\ Fingerprint(m).command = m.setup
         /\ Setup(m) \in Environments /\ Setup(m) # Nothing
         /\ Setup(m).setup = m.setup /\ Setup(m).deps = deps
<1>1. Fingerprint(m) \in Fingerprints /\ Setup(m) \in Environments
  BY DEF TypeOK, Fingerprint, Setup, Fingerprints, Environments
<1>2. Nothing \notin Fingerprints \cup Environments
  BY SetupAssumption
<1> QED
  BY <1>1, <1>2 DEF Fingerprint, Setup

\* The next step of p, and nobody else's.
LEMMA GotoMoves ==
  ASSUME TypeOK, NEW p \in Procs, NEW l, Goto(p, l)
  PROVE  /\ pc'[p] = l /\ \A q \in Procs : q # p => pc'[q] = pc[q]
         /\ l \in Points => pc' \in [Procs -> Points]
BY DEF TypeOK, Goto

LEMMA AfterSetupIs ==
  ASSUME NEW p
  PROVE  AfterSetup(p) \in Points /\ AfterSetup(p) \in {"idle", "cell"}
BY DEF AfterSetup, Points

LEMMA TypeOKStart == ASSUME TypeOK, NEW p \in Procs, Start(p) PROVE TypeOK'
<1>1. /\ pc[p] = "start" /\ spec[p] \in Manifests
      /\ UNCHANGED <<disk, sentinels, installed, kind, spec, job, orphans, bounds, calm>>
  BY DEF Start, At, TypeOK
<1>2. CASE ~readable
  <2>1. UNCHANGED <<want, overlap>> /\ pc'[p] = "idle" /\ pc' \in [Procs -> Points]
        /\ \A q \in Procs : q # p => pc'[q] = pc[q]
    BY <1>2, GotoMoves DEF Start, Points
  <2> QED
    BY <1>1, <2>1 DEF TypeOK, InSetup, Runnable, disk, sentinels, bounds
<1>3. CASE readable
  <2>1. want' = [want EXCEPT ![p] = Fingerprint(spec[p])]
    BY <1>3 DEF Start
  <2>2. /\ want' \in [Procs -> Fingerprints \cup {Nothing}] /\ want'[p] # Nothing
        /\ \A q \in Procs : q # p => want'[q] = want[q]
    BY <1>1, <2>1, Types DEF TypeOK
  <2>3. PICK l \in {"unlink_ok", "idle", "cell"} : Goto(p, l)
    BY <1>3, AfterSetupIs DEF Start
  <2>4. overlap' \in BOOLEAN
    BY <1>3 DEF Start, TypeOK
  <2>5. /\ pc' \in [Procs -> Points] /\ pc'[p] = l
        /\ \A q \in Procs : q # p => pc'[q] = pc[q]
    BY <2>3, GotoMoves DEF Points
  <2> QED
    BY <1>1, <2>2, <2>4, <2>5 DEF TypeOK, InSetup, Runnable, disk, sentinels, bounds
<1> QED
  BY <1>2, <1>3

LEMMA TypeOKUnlink ==
  ASSUME TypeOK, NEW p \in Procs, UnlinkOk(p) \/ UnlinkFail(p)
  PROVE  TypeOK'
<1>1. CASE UnlinkOk(p)
  BY <1>1, GotoMoves
     DEF UnlinkOk, TypeOK, InSetup, Runnable, At, Points, disk, local, bounds, history
<1>2. CASE UnlinkFail(p)
  <2>1. pc[p] = "unlink_fail" /\ fail' = Nothing
        /\ UNCHANGED <<disk, ok, local, orphans, bounds, history>>
    BY <1>2 DEF UnlinkFail, At
  <2>2. CASE Goto(p, "write") /\ job' = [job EXCEPT ![p] = "failed"] /\ UNCHANGED installed
    BY <2>1, <2>2, GotoMoves
       DEF TypeOK, InSetup, Runnable, Points, disk, local, bounds, history
  <2>3. CASE Goto(p, "wait") /\ job' = [job EXCEPT ![p] = "running"] /\ installed' = Nothing
    BY <2>1, <2>3, GotoMoves
       DEF TypeOK, InSetup, Runnable, Points, disk, local, bounds, history
  <2> QED
    BY <1>2, <2>2, <2>3 DEF UnlinkFail
<1> QED
  BY <1>1, <1>2

LEMMA TypeOKWait ==
  ASSUME TypeOK, NEW p \in Procs, Wait(p) \/ WriteSentinel(p) \/ JobEnds(p)
  PROVE  TypeOK'
<1> spec[p] \in Manifests
  BY DEF TypeOK
<1>1. CASE Wait(p)
  BY <1>1, GotoMoves
     DEF Wait, TypeOK, InSetup, Runnable, At, Points, disk, sentinels, local, bounds, history
<1>2. CASE WriteSentinel(p)
  <2>1. /\ pc[p] = "write" /\ job' = [job EXCEPT ![p] = "none"]
        /\ UNCHANGED <<disk, installed, local, orphans, bounds, history>>
        /\ ok' \in {ok, want[p]} /\ fail' \in {fail, want[p]}
    BY <1>2 DEF WriteSentinel, At
  <2>2. PICK l \in {"idle", "cell"} : Goto(p, l)
    BY <1>2, AfterSetupIs DEF WriteSentinel
  <2>3. /\ pc' \in [Procs -> Points] /\ pc'[p] = l
        /\ \A q \in Procs : q # p => pc'[q] = pc[q]
    BY <2>2, GotoMoves DEF Points
  <2> QED
    BY <2>1, <2>3 DEF TypeOK, InSetup, Runnable, disk, local, bounds, history
<1>3. CASE JobEnds(p)
  BY <1>3, Types
     DEF JobEnds, TypeOK, InSetup, Runnable, disk, sentinels, local, bounds, history
<1> QED
  BY <1>1, <1>2, <1>3

LEMMA TypeOKCommand ==
  ASSUME TypeOK, NEW p \in Procs,
         Begin(p) \/ Check(p) \/ Prepare(p) \/ RunCell(p) \/ CellEnds(p)
  PROVE  TypeOK'
<1>1. CASE Begin(p)
  <2>1. PICK k \in Kind : /\ kind' = [kind EXCEPT ![p] = k]
                          /\ \E l \in {"prepare", "check"} : Goto(p, l)
    BY <1>1 DEF Begin
  <2>2. /\ pc[p] = "idle" /\ spec' = [spec EXCEPT ![p] = manifest]
        /\ calm' = [calm EXCEPT ![p] = TRUE]
        /\ UNCHANGED <<disk, sentinels, installed, want, job, orphans, bounds>>
    BY <1>1 DEF Begin, At
  <2>3. overlap' \in BOOLEAN
    BY <1>1 DEF Begin, TypeOK
  <2>4. /\ pc' \in [Procs -> Points] /\ pc'[p] \in {"prepare", "check"}
        /\ \A q \in Procs : q # p => pc'[q] = pc[q]
    BY <2>1, GotoMoves DEF Points
  <2> QED
    BY <2>1, <2>2, <2>3, <2>4 DEF TypeOK, InSetup, Runnable, disk, sentinels, bounds
<1>2. CASE Prepare(p)
  <2>1. /\ pc[p] = "prepare"
        /\ \/ Goto(p, AfterSetup(p))
           \/ Goto(p, "start") /\ Runnable(spec[p])
        /\ UNCHANGED <<disk, sentinels, installed, local, job, orphans, bounds, history>>
    BY <1>2 DEF Prepare, At
  <2>2. PICK l \in {"idle", "cell", "start"} :
          Goto(p, l) /\ (l = "start" => Runnable(spec[p]))
    BY <2>1, AfterSetupIs
  <2>3. /\ pc' \in [Procs -> Points] /\ pc'[p] = l
        /\ \A q \in Procs : q # p => pc'[q] = pc[q]
    BY <2>2, GotoMoves DEF Points
  <2> QED
    BY <2>1, <2>2, <2>3
       DEF TypeOK, InSetup, Runnable, disk, sentinels, local, bounds, history
<1>3. CASE Check(p) \/ RunCell(p) \/ CellEnds(p)
  <2>1. /\ pc[p] \in {"check", "cell", "agent"}
        /\ UNCHANGED <<disk, sentinels, installed, local, job, orphans, bounds, history>>
    BY <1>3 DEF Check, RunCell, CellEnds, At
  <2>2. PICK l \in {"prepare", "cell", "agent", "idle"} : Goto(p, l)
    BY <1>3 DEF Check, RunCell, CellEnds
  <2>3. /\ pc' \in [Procs -> Points] /\ pc'[p] = l
        /\ \A q \in Procs : q # p => pc'[q] = pc[q]
    BY <2>2, GotoMoves DEF Points
  <2> QED
    BY <2>1, <2>3
       DEF TypeOK, InSetup, Runnable, disk, sentinels, local, bounds, history
<1> QED
  BY <1>1, <1>2, <1>3

LEMMA TypeOKWorld ==
  ASSUME TypeOK, EditManifest \/ EditDeps \/ OrphanEnds \/ (\E p \in Procs : Kill(p))
  PROVE  TypeOK'
<1> USE DEF TypeOK, InSetup, Runnable
<1>1. CASE EditManifest
  <2>1. manifest' \in Manifests /\ edits' \in Nat /\ calm' \in [Procs -> BOOLEAN]
    BY <1>1 DEF EditManifest
  <2> QED
    BY <1>1, <2>1 DEF EditManifest, sentinels, local
<1>2. CASE EditDeps
  <2>1. deps' \in Nat /\ readable' \in BOOLEAN /\ edits' \in Nat
        /\ calm' \in [Procs -> BOOLEAN]
    BY <1>2 DEF EditDeps
  <2> QED
    BY <1>2, <2>1 DEF EditDeps, sentinels, local
<1>3. CASE OrphanEnds
  <2>1. PICK m \in orphans : orphans' = orphans \ {m} /\ installed' \in {Setup(m), Nothing}
    BY <1>3 DEF OrphanEnds
  <2> QED
    BY <1>3, <2>1, Types DEF OrphanEnds, disk, sentinels, local, bounds, history
<1>4. ASSUME NEW p \in Procs, Kill(p) PROVE TypeOK'
  BY <1>4, GotoMoves DEF Kill, Points, disk, sentinels, local, history
<1> QED
  BY <1>1, <1>2, <1>3, <1>4

LEMMA TypeOKNext == TypeOK /\ [Next]_vars => TypeOK'
<1> SUFFICES ASSUME TypeOK, [Next]_vars PROVE TypeOK'
  OBVIOUS
<1>1. CASE UNCHANGED vars
  BY <1>1 DEF TypeOK, InSetup, Runnable, vars, disk, sentinels, local, bounds, history
<1> QED
  BY <1>1, TypeOKStart, TypeOKUnlink, TypeOKWait, TypeOKCommand, TypeOKWorld
     DEF Next, Continue

\* A setup is under way exactly while its invocation waits for it or has
\* its sentinel to write, and it began with a fingerprint.
THEOREM SetupTypeCorrect == Spec => []TypeOK
<1>1. Init => TypeOK
  <2> SUFFICES ASSUME Init PROVE TypeOK
    OBVIOUS
  <2>1. manifest \in Manifests /\ deps \in Nat /\ readable \in BOOLEAN /\ overlap \in BOOLEAN
    BY DEF Init
  <2>2. \A p \in Procs : pc[p] = "idle" /\ job[p] = "none"
    BY DEF Init
  <2> QED
    BY <2>1, <2>2 DEF Init, TypeOK, InSetup, Points, Kind
<1> QED
  BY <1>1, TypeOKNext, PTL DEF Spec

-----------------------------------------------------------------------------
(* Setups that do not overlap.                                             *)

\* Where a step may lead to; the fields of what a step assigns.
LEMMA Moves ==
  ASSUME TypeOK, NEW p \in Procs, Continue(p) \/ Begin(p) \/ Kill(p)
  PROVE  /\ pc' \in [Procs -> Points] /\ \A q \in Procs : q # p => pc'[q] = pc[q]
         /\ pc[p] = "idle" => pc'[p] \in {"prepare", "check"}
         /\ pc'[p] \in InSetup =>
              \/ pc[p] = "start" /\ pc'[p] = "unlink_ok"
              \/ pc[p] = "unlink_ok" /\ pc'[p] = "unlink_fail"
              \/ pc[p] = "unlink_fail" /\ pc'[p] \in {"wait", "write"}
              \/ pc[p] = "wait" /\ pc'[p] = "write"
<1>1. CASE Begin(p)
  <2>1. PICK l \in {"prepare", "check"} : Goto(p, l)
    BY <1>1 DEF Begin
  <2> QED
    BY <2>1, GotoMoves DEF Points, InSetup
<1>2. CASE Check(p) \/ Prepare(p) \/ RunCell(p) \/ CellEnds(p) \/ WriteSentinel(p) \/ Kill(p)
  <2>1. PICK l \in {"prepare", "start", "cell", "agent", "idle"} : Goto(p, l)
    BY <1>2, AfterSetupIs
       DEF Check, Prepare, RunCell, CellEnds, WriteSentinel, Kill
  <2>2. pc[p] # "idle"
    BY <1>2 DEF Check, Prepare, RunCell, CellEnds, WriteSentinel, Kill, At
  <2> QED
    BY <2>1, <2>2, GotoMoves DEF Points, InSetup
<1>3. CASE Start(p)
  <2>1. PICK l \in {"unlink_ok", "cell", "idle"} : Goto(p, l)
    BY <1>3, AfterSetupIs DEF Start
  <2> QED
    BY <1>3, <2>1, GotoMoves DEF Points, InSetup, Start, At
<1>4. CASE UnlinkOk(p) \/ UnlinkFail(p) \/ Wait(p)
  BY <1>4, GotoMoves DEF UnlinkOk, UnlinkFail, Wait, At, Points, InSetup
<1> QED
  BY <1>1, <1>2, <1>3, <1>4 DEF Continue

\* overlap is set in time.
LEMMA OverlapSet ==
  ASSUME TypeOK, NEW p \in Procs, Continue(p) \/ Begin(p) \/ Kill(p), ~overlap'
  PROVE  /\ ~overlap
         /\ pc[p] = "idle" => orphans = {} /\ \A q \in Procs : pc[q] \notin InSetup
         /\ pc[p] = "start" /\ pc'[p] = "unlink_ok" =>
              \A q \in Procs \ {p} : pc[q] = "idle"
<1>1. CASE Begin(p)
  BY <1>1 DEF Begin, At
<1>2. CASE Start(p)
  <2>1. CASE Goto(p, "unlink_ok") /\ overlap' = (overlap \/ \E q \in Procs \ {p} : pc[q] # "idle")
    BY <1>2, <2>1 DEF Start, At
  <2>2. CASE UNCHANGED overlap /\ (Goto(p, "idle") \/ Goto(p, AfterSetup(p)))
    <3>1. pc'[p] # "unlink_ok"
      BY <2>2, AfterSetupIs, GotoMoves
    <3> QED
      BY <1>2, <2>2, <3>1 DEF Start, At
  <2> QED
    BY <1>2, <2>1, <2>2 DEF Start
<1>3. CASE Check(p) \/ Prepare(p) \/ UnlinkOk(p) \/ UnlinkFail(p) \/ Wait(p)
           \/ WriteSentinel(p) \/ RunCell(p) \/ CellEnds(p) \/ Kill(p)
  <2>1. pc[p] # "idle" /\ UNCHANGED overlap
    BY <1>3 DEF Check, Prepare, UnlinkOk, UnlinkFail, Wait, WriteSentinel, RunCell,
       CellEnds, Kill, At, history
  <2>2. ~(pc[p] = "start" /\ pc'[p] = "unlink_ok")
    <3>1. CASE Kill(p)
      BY <3>1, GotoMoves DEF Kill
    <3>2. CASE ~Kill(p)
      BY <1>3, <3>2 DEF Check, Prepare, UnlinkOk, UnlinkFail, Wait, WriteSentinel,
         RunCell, CellEnds, At
    <3> QED
      BY <3>1, <3>2
  <2> QED
    BY <2>1, <2>2
<1> QED
  BY <1>1, <1>2, <1>3 DEF Continue

\* The steps of the world leave the invocations where they are.
LEMMA WorldFrame ==
  ASSUME TypeOK,
         UNCHANGED vars \/ EditManifest \/ EditDeps \/ OrphanEnds
         \/ \E p \in Procs : JobEnds(p)
  PROVE  UNCHANGED <<pc, sentinels, local, overlap>> /\ orphans' \subseteq orphans
BY DEF vars, EditManifest, EditDeps, OrphanEnds, JobEnds, sentinels, local, history

\* What becomes of the sentinels and the orphans.
LEMMA Effects ==
  ASSUME TypeOK, NEW p \in Procs, Continue(p) \/ Begin(p) \/ Kill(p)
  PROVE  /\ \/ UNCHANGED sentinels
            \/ pc[p] = "unlink_ok" /\ ok' = Nothing /\ UNCHANGED fail
            \/ pc[p] = "unlink_fail" /\ fail' = Nothing /\ UNCHANGED ok
            \/ pc[p] = "write" /\ job[p] = "ok" /\ ok' = want[p] /\ UNCHANGED fail
               /\ pc'[p] \notin InSetup
            \/ pc[p] = "write" /\ job[p] # "ok" /\ fail' = want[p] /\ UNCHANGED ok
               /\ pc'[p] \notin InSetup
         /\ pc[p] = "unlink_ok" /\ pc'[p] = "unlink_fail" => ok' = Nothing
         /\ pc[p] = "unlink_fail" /\ pc'[p] \in {"wait", "write"} =>
              fail' = Nothing /\ ok' = ok
         /\ orphans' # orphans =>
              pc[p] \in {"wait", "write"} /\ pc'[p] = "idle" /\ UNCHANGED sentinels
<1> USE GotoMoves DEF At, sentinels
<1>1. CASE Begin(p) \/ Check(p) \/ Prepare(p) \/ Start(p) \/ RunCell(p) \/ CellEnds(p)
  BY <1>1 DEF Begin, Check, Prepare, Start, RunCell, CellEnds
<1>2. CASE UnlinkOk(p)
  BY <1>2 DEF UnlinkOk
<1>3. CASE UnlinkFail(p)
  BY <1>3 DEF UnlinkFail
<1>4. CASE Wait(p)
  BY <1>4 DEF Wait
<1>5. CASE WriteSentinel(p)
  <2>1. pc'[p] \in {"idle", "cell"}
    BY <1>5, AfterSetupIs DEF WriteSentinel
  <2> QED
    BY <1>5, <2>1 DEF WriteSentinel, InSetup
<1>6. CASE Kill(p)
  <2>1. orphans' # orphans => job[p] = "running"
    BY <1>6 DEF Kill
  <2>2. job[p] = "running" => pc[p] \in {"wait", "write"}
    BY DEF TypeOK
  <2> QED
    BY <1>6, <2>1, <2>2 DEF Kill
<1> QED
  BY <1>1, <1>2, <1>3, <1>4, <1>5, <1>6 DEF Continue

LEMMA AloneInvNext ==
  TypeOK /\ AloneInv /\ SentinelInv /\ [Next]_vars => AloneInv' /\ SentinelInv'
<1> SUFFICES ASSUME TypeOK, AloneInv, SentinelInv, [Next]_vars
             PROVE  AloneInv' /\ SentinelInv'
  OBVIOUS
<1>1. CASE UNCHANGED vars \/ EditManifest \/ EditDeps \/ OrphanEnds
           \/ \E p \in Procs : JobEnds(p)
  BY <1>1, WorldFrame DEF AloneInv, SentinelInv, OneSentinel, sentinels
<1>2. ASSUME NEW p \in Procs, Continue(p) \/ Begin(p) \/ Kill(p), ~overlap'
      PROVE  /\ \A q, r \in Procs : pc'[q] \in InSetup /\ r # q => pc'[r] = "idle"
             /\ orphans' # {} => ok' = Nothing /\ \A q \in Procs : pc'[q] = "idle"
  <2>1. ~overlap /\ \A q \in Procs : q # p => pc'[q] = pc[q]
    BY <1>2, Moves, OverlapSet
  <2>2. ASSUME NEW q \in Procs, NEW r \in Procs, pc'[q] \in InSetup, r # q
        PROVE  pc'[r] = "idle"
    <3>1. CASE q = p
      <4>1. pc[p] \in InSetup \/ (pc[p] = "start" /\ pc'[p] = "unlink_ok")
        BY <1>2, <2>2, <3>1, Moves DEF InSetup
      <4> QED
        BY <1>2, <2>1, <2>2, <3>1, <4>1, OverlapSet DEF AloneInv
    <3>2. CASE q # p /\ r = p
      <4>1. pc[q] \in InSetup /\ pc[p] = "idle"
        BY <2>1, <2>2, <3>2 DEF AloneInv
      <4> QED
        BY <1>2, <4>1, OverlapSet
    <3>3. CASE q # p /\ r # p
      BY <2>1, <2>2, <3>3 DEF AloneInv
    <3> QED
      BY <3>1, <3>2, <3>3
  <2>3. ASSUME orphans' # {} PROVE ok' = Nothing /\ \A q \in Procs : pc'[q] = "idle"
    <3>1. CASE orphans = {}
      <4>1. pc[p] \in {"wait", "write"} /\ pc'[p] = "idle" /\ UNCHANGED sentinels
        BY <1>2, <2>3, <3>1, Effects
      <4>2. ok = Nothing /\ \A q \in Procs : q # p => pc[q] = "idle"
        BY <2>1, <4>1 DEF AloneInv, SentinelInv, InSetup
      <4> QED
        BY <2>1, <4>1, <4>2 DEF sentinels
    <3>2. CASE orphans # {}
      BY <1>2, <2>1, <3>2, OverlapSet DEF AloneInv
    <3> QED
      BY <3>1, <3>2
  <2> QED
    BY <2>2, <2>3
<1>3. ASSUME NEW p \in Procs, Continue(p) \/ Begin(p) \/ Kill(p), ~overlap'
      PROVE  /\ ok' = Nothing \/ fail' = Nothing
             /\ \A q \in Procs :
                  /\ pc'[q] \in {"unlink_fail", "wait", "write"} => ok' = Nothing
                  /\ pc'[q] \in {"wait", "write"} => fail' = Nothing
  <2>1. ~overlap /\ \A q \in Procs : q # p => pc'[q] = pc[q]
    BY <1>3, Moves, OverlapSet
  <2>2. ok' = Nothing \/ fail' = Nothing
    BY <1>3, <2>1, Effects DEF SentinelInv, OneSentinel, sentinels
  <2>3. ASSUME NEW q \in Procs
        PROVE  /\ pc'[q] \in {"unlink_fail", "wait", "write"} => ok' = Nothing
               /\ pc'[q] \in {"wait", "write"} => fail' = Nothing
    <3>1. CASE q # p
      <4>1. CASE pc[q] \in InSetup
        <5>1. pc[p] = "idle"
          BY <2>1, <3>1, <4>1 DEF AloneInv
        <5> QED
          BY <1>3, <4>1, <5>1, OverlapSet
      <4>2. CASE pc[q] \notin InSetup
        BY <2>1, <3>1, <4>2 DEF InSetup
      <4> QED
        BY <4>1, <4>2
    <3>2. CASE q = p
      <4>1. CASE pc'[p] = "unlink_fail"
        BY <1>3, <3>2, <4>1, Moves, Effects DEF InSetup
      <4>2. CASE pc[p] = "unlink_fail" /\ pc'[p] \in {"wait", "write"}
        BY <1>3, <2>1, <3>2, <4>2, Effects DEF SentinelInv
      <4>3. CASE pc[p] = "wait" /\ pc'[p] = "write"
        <5>1. ok = Nothing /\ fail = Nothing
          BY <2>1, <4>3 DEF SentinelInv
        <5>2. UNCHANGED sentinels
          BY <1>3, <4>3, Effects
        <5> QED
          BY <5>1, <5>2 DEF sentinels
      <4> QED
        BY <1>3, <3>2, <4>1, <4>2, <4>3, Moves DEF InSetup
    <3> QED
      BY <3>1, <3>2
  <2> QED
    BY <2>2, <2>3
<1> QED
  BY <1>1, <1>2, <1>3 DEF Next, AloneInv, SentinelInv, OneSentinel

LEMMA AloneInvariance == Spec => [](AloneInv /\ SentinelInv)
<1>1. Init => AloneInv /\ SentinelInv
  BY DEF Init, AloneInv, SentinelInv, OneSentinel, InSetup
<1>2. Spec => []TypeOK
  BY SetupTypeCorrect
<1> QED
  BY <1>1, <1>2, AloneInvNext, PTL DEF Spec

\* OneSentinel for any number of invocations, edits and kills.
THEOREM SetupOneSentinel == Spec => []OneSentinel
<1>1. SentinelInv => OneSentinel
  BY DEF SentinelInv
<1> QED
  BY <1>1, AloneInvariance, PTL

-----------------------------------------------------------------------------
(* What a fresh .ok stands for.                                            *)

LEMMA InstallInvWorld ==
  ASSUME TypeOK, AloneInv, SentinelInv, InstallInv,
         UNCHANGED vars \/ EditManifest \/ EditDeps \/ OrphanEnds
  PROVE  InstallInv'
<1>1. CASE UNCHANGED vars \/ EditManifest
  BY <1>1 DEF InstallInv, Installed, vars, EditManifest, disk, sentinels, local, history
<1>2. CASE EditDeps
  <2>1. deps \in Nat /\ deps' = deps + 1
        /\ UNCHANGED <<ok, want, spec, job, pc, overlap, installed>>
    BY <1>2 DEF EditDeps, TypeOK, sentinels, local
  <2>2. ok # Nothing => ok.deps \in Nat
    BY DEF TypeOK, Fingerprints
  <2>3. \A p \in Procs : pc[p] \in InSetup => want[p].deps \in Nat
    BY DEF TypeOK, Fingerprints
  <2>4. \A p \in Procs : job[p] = "ok" => pc[p] \in InSetup
    BY DEF TypeOK, InSetup
  <2>5. \A k \in Nat : k <= deps => k <= deps' /\ k # deps'
    BY <2>1
  <2> QED
    BY <2>1, <2>2, <2>3, <2>4, <2>5 DEF InstallInv, Installed
<1>3. CASE OrphanEnds
  <2>1. UNCHANGED <<deps, ok, want, spec, job, pc, overlap>> /\ orphans # {}
    BY <1>3 DEF OrphanEnds, disk, sentinels, local, history
  <2>2. ~overlap => ok = Nothing /\ \A p \in Procs : pc[p] = "idle"
    BY <2>1 DEF AloneInv
  <2>3. ~overlap => \A p \in Procs : job[p] # "ok"
    BY <2>2 DEF TypeOK
  <2> QED
    BY <2>1, <2>2, <2>3 DEF InstallInv
<1> QED
  BY <1>1, <1>2, <1>3

LEMMA InstallInvJob ==
  ASSUME TypeOK, AloneInv, SentinelInv, InstallInv, NEW p \in Procs, JobEnds(p)
  PROVE  InstallInv'
<1>1. /\ UNCHANGED <<deps, ok, want, spec, pc, overlap>> /\ job[p] = "running"
      /\ \A q \in Procs : q # p => job'[q] = job[q]
      /\ job'[p] = "ok" => installed' = Setup(spec[p])
  BY DEF JobEnds, TypeOK, disk, sentinels, local, history
<1>2. pc[p] = "wait"
  BY <1>1 DEF TypeOK, InstallInv
<1>3. ~overlap => ok = Nothing /\ \A q \in Procs : q # p => pc[q] = "idle"
  BY <1>2 DEF AloneInv, SentinelInv, InSetup
<1>4. ~overlap => \A q \in Procs : q # p => job[q] # "ok"
  BY <1>3 DEF TypeOK
<1>5. job'[p] = "ok" => Installed(want[p])'
  <2>1. spec[p] \in Manifests /\ want[p].command = spec[p].setup
    BY <1>2 DEF TypeOK, InstallInv, InSetup
  <2>2. /\ Setup(spec[p]) # Nothing /\ Setup(spec[p]).setup = want[p].command
        /\ Setup(spec[p]).deps = deps
    BY <2>1, Types
  <2> QED
    BY <1>1, <2>2 DEF Installed
<1>6. \A q \in Procs : ~overlap' /\ job'[q] = "ok" => Installed(want[q])'
  BY <1>1, <1>4, <1>5
<1>7. \A q \in Procs : pc[q] = "write" => job'[q] \in {"ok", "failed"}
  BY <1>1, <1>2 DEF InstallInv
<1>8. ~overlap' /\ ok' # Nothing => Installed(ok)'
  BY <1>1, <1>3
<1> QED
  BY <1>1, <1>6, <1>7, <1>8 DEF InstallInv

\* What the steps of an invocation do to what is installed.
LEMMA InstallMoves ==
  ASSUME TypeOK, NEW p \in Procs, Continue(p) \/ Begin(p) \/ Kill(p)
  PROVE  /\ UNCHANGED disk
         /\ \A q \in Procs : q # p => /\ want'[q] = want[q] /\ spec'[q] = spec[q]
                                     /\ job'[q] = job[q]
         /\ pc[p] # "start" => want' = want
         /\ pc[p] = "start" /\ pc'[p] = "unlink_ok" => want'[p] = Fingerprint(spec[p])
         /\ pc[p] # "idle" => spec' = spec
         /\ installed' # installed => pc[p] = "unlink_fail"
         /\ job'[p] = "ok" => job[p] = "ok"
         /\ pc'[p] = "write" => job'[p] \in {"ok", "failed"}
<1> USE GotoMoves DEF At, disk, local
<1>1. CASE Begin(p)
  <2>1. UNCHANGED <<disk, want, installed, job>> /\ pc[p] = "idle"
        /\ \A q \in Procs : q # p => spec'[q] = spec[q]
    BY <1>1 DEF Begin, TypeOK
  <2>2. pc'[p] \in {"prepare", "check"}
    BY <1>1, <2>1, Moves
  <2> QED
    BY <2>1, <2>2
<1>2. CASE Check(p) \/ Prepare(p) \/ RunCell(p) \/ CellEnds(p)
  <2>1. UNCHANGED <<disk, want, spec, installed, job>> /\ pc[p] \notin {"start", "unlink_fail", "wait"}
    BY <1>2 DEF Check, Prepare, RunCell, CellEnds
  <2>2. pc'[p] # "write"
    BY <1>2, <2>1, Moves DEF InSetup
  <2> QED
    BY <2>1, <2>2
<1>3. CASE Start(p)
  <2>1. UNCHANGED <<disk, spec, installed, job>> /\ pc[p] = "start"
    BY <1>3 DEF Start
  <2>2. pc'[p] # "write"
    BY <1>3, <2>1, Moves DEF InSetup
  <2>3. CASE ~readable
    <3>1. UNCHANGED want /\ pc'[p] = "idle"
      BY <1>3, <2>3 DEF Start
    <3> QED
      BY <2>1, <2>2, <3>1
  <2>4. CASE readable
    <3>1. want' = [want EXCEPT ![p] = Fingerprint(spec[p])]
      BY <1>3, <2>4 DEF Start
    <3>2. want'[p] = Fingerprint(spec[p]) /\ \A q \in Procs : q # p => want'[q] = want[q]
      BY <3>1 DEF TypeOK
    <3> QED
      BY <2>1, <2>2, <3>2
  <2> QED
    BY <2>3, <2>4
<1>4. CASE UnlinkOk(p)
  BY <1>4 DEF UnlinkOk
<1>5. CASE UnlinkFail(p)
  BY <1>5 DEF UnlinkFail, TypeOK
<1>6. CASE Wait(p)
  BY <1>6 DEF Wait, TypeOK
<1>7. CASE WriteSentinel(p)
  <2>1. pc'[p] \in {"idle", "cell"}
    BY <1>7, AfterSetupIs DEF WriteSentinel
  <2> QED
    BY <1>7, <2>1 DEF WriteSentinel, TypeOK
<1>8. CASE Kill(p)
  BY <1>8 DEF Kill, TypeOK
<1> QED
  BY <1>1, <1>2, <1>3, <1>4, <1>5, <1>6, <1>7, <1>8 DEF Continue

LEMMA InstallInvStep ==
  ASSUME TypeOK, AloneInv, SentinelInv, InstallInv, AloneInv', NEW p \in Procs,
         Continue(p) \/ Begin(p) \/ Kill(p)
  PROVE  InstallInv'
<1>1. deps' = deps /\ (~overlap' => ~overlap)
  BY InstallMoves, OverlapSet DEF disk
<1>2. ASSUME NEW q \in Procs
      PROVE  /\ pc'[q] \in InSetup =>
                  want'[q].deps <= deps /\ want'[q].command = spec'[q].setup
             /\ pc'[q] = "write" => job'[q] \in {"ok", "failed"}
  <2>1. CASE q # p
    <3>1. /\ pc'[q] = pc[q] /\ want'[q] = want[q] /\ spec'[q] = spec[q]
          /\ job'[q] = job[q]
      BY <2>1, Moves, InstallMoves
    <3> QED
      BY <3>1 DEF InstallInv
  <2>2. CASE q = p
    <3>1. CASE pc[p] = "start" /\ pc'[p] = "unlink_ok"
      <4>1. want'[p] = Fingerprint(spec[p]) /\ spec' = spec /\ spec[p] \in Manifests
        BY <3>1, InstallMoves DEF TypeOK
      <4>2. want'[p].deps = deps /\ want'[p].command = spec'[p].setup /\ deps \in Nat
        BY <4>1, Types DEF TypeOK
      <4> QED
        BY <2>2, <3>1, <4>2
    <3>2. CASE pc'[p] \in InSetup /\ ~(pc[p] = "start" /\ pc'[p] = "unlink_ok")
      <4>1. pc[p] \in InSetup /\ pc[p] # "start" /\ pc[p] # "idle"
        BY <3>2, Moves DEF InSetup
      <4>2. want' = want /\ spec' = spec
        BY <4>1, InstallMoves
      <4>3. pc'[p] = "write" => job'[p] \in {"ok", "failed"}
        BY InstallMoves
      <4> QED
        BY <2>2, <4>1, <4>2, <4>3 DEF InstallInv
    <3>3. CASE pc'[p] \notin InSetup
      BY <2>2, <3>3 DEF InSetup
    <3> QED
      BY <3>1, <3>2, <3>3
  <2> QED
    BY <2>1, <2>2
<1>3. \/ ok' = ok
      \/ ok' = Nothing
      \/ pc[p] = "write" /\ job[p] = "ok" /\ ok' = want[p]
  <2>1. \/ UNCHANGED sentinels \/ ok' = Nothing \/ ok' = ok
        \/ pc[p] = "write" /\ job[p] = "ok" /\ ok' = want[p]
    BY Effects
  <2>2. UNCHANGED sentinels => ok' = ok
    BY DEF sentinels
  <2> QED
    BY <2>1, <2>2
<1>4. ok' # Nothing => ok'.deps <= deps
  BY <1>3 DEF InstallInv, InSetup
<1>5. ASSUME ~overlap', NEW q \in Procs, job'[q] = "ok" PROVE Installed(want[q])'
  <2>1. job[q] = "ok"
    BY <1>5, InstallMoves
  <2>2. pc[q] \in {"wait", "write"}
    BY <2>1 DEF TypeOK
  <2>3. want'[q] = want[q]
    BY <2>2, InstallMoves
  <2>4. installed' = installed
    <3>1. CASE q = p
      BY <2>2, <3>1, InstallMoves
    <3>2. CASE q # p
      <4>1. pc[p] = "idle"
        BY <1>1, <1>5, <2>2, <3>2 DEF AloneInv, InSetup
      <4> QED
        BY <4>1, InstallMoves
    <3> QED
      BY <3>1, <3>2
  <2> QED
    BY <1>1, <1>5, <2>1, <2>3, <2>4 DEF InstallInv, Installed
<1>6. ASSUME ~overlap', ok' # Nothing PROVE Installed(ok)'
  <2>1. installed' = installed
    <3>1. CASE pc[p] = "unlink_fail"
      <4>1. ok = Nothing
        BY <1>1, <1>6, <3>1 DEF SentinelInv
      <4>2. ok' = ok
        BY <1>3, <3>1, <4>1
      <4> QED
        BY <1>6, <4>1, <4>2
    <3>2. CASE pc[p] # "unlink_fail"
      BY <3>2, InstallMoves
    <3> QED
      BY <3>1, <3>2
  <2>2. CASE ok' = ok
    BY <1>1, <1>6, <2>1, <2>2 DEF InstallInv, Installed
  <2>3. CASE pc[p] = "write" /\ job[p] = "ok" /\ ok' = want[p]
    BY <1>1, <1>6, <2>1, <2>3 DEF InstallInv, Installed
  <2> QED
    BY <1>3, <1>6, <2>2, <2>3
<1> QED
  BY <1>1, <1>2, <1>4, <1>5, <1>6 DEF InstallInv

LEMMA InstallInvNext ==
  TypeOK /\ AloneInv /\ SentinelInv /\ InstallInv /\ [Next]_vars => InstallInv'
<1> SUFFICES ASSUME TypeOK, AloneInv, SentinelInv, InstallInv, [Next]_vars
             PROVE  InstallInv'
  OBVIOUS
<1>1. AloneInv'
  BY AloneInvNext
<1> QED
  BY <1>1, InstallInvWorld, InstallInvJob, InstallInvStep DEF Next

\* OkMeansInstalled for any number of invocations, edits and kills.
THEOREM SetupOkMeansInstalled == Spec => []OkMeansInstalled
<1>1. Init => InstallInv
  BY DEF Init, InstallInv, InSetup
<1>2. TypeOK /\ InstallInv => OkMeansInstalled
  <2> SUFFICES ASSUME TypeOK, InstallInv, ~overlap, ok = Fingerprint(manifest)
               PROVE  /\ installed # Nothing
                      /\ installed.setup = manifest.setup /\ installed.deps = deps
    BY DEF OkMeansInstalled
  <2>1. manifest \in Manifests
    BY DEF TypeOK
  <2>2. ok # Nothing /\ ok.deps = deps /\ ok.command = manifest.setup
    BY <2>1, Types
  <2> QED
    BY <2>2 DEF InstallInv, Installed
<1>3. Spec => []TypeOK
  BY SetupTypeCorrect
<1> QED
  BY <1>1, <1>2, <1>3, AloneInvariance, InstallInvNext, PTL DEF Spec

-----------------------------------------------------------------------------
(* A framework that runs.                                                  *)

\* How an invocation comes to its cells and to the agent.
LEMMA CellMoves ==
  ASSUME TypeOK, SentinelInv, NEW p \in Procs, Continue(p) \/ Begin(p) \/ Kill(p)
  PROVE  /\ pc'[p] = "cell" /\ Runnable(spec[p]) =>
              \/ readable /\ UNCHANGED sentinels
                 /\ (fail # Nothing \/ ok = Fingerprint(spec[p]))
              \/ pc[p] = "check" /\ ~Needed(spec[p]) /\ UNCHANGED sentinels
              \/ pc[p] = "write" /\ job[p] = "ok" /\ ok' = want[p]
              \/ pc[p] = "write" /\ fail' = want[p]
         /\ pc'[p] = "agent" =>
              /\ pc[p] = "cell" /\ UNCHANGED sentinels /\ spec[p].setup # Invalid
              /\ spec[p].setup = NoSetup \/ fail = Nothing
         /\ UNCHANGED disk
         /\ pc[p] # "idle" /\ calm'[p] => calm[p] /\ spec' = spec
         /\ \A q \in Procs : q # p => calm'[q] = calm[q]
         /\ pc[p] = "idle" => spec'[p] = manifest
<1> USE DEF At, sentinels, history, local, disk
<1>1. CASE Begin(p)
  <2>1. pc[p] = "idle" /\ pc'[p] \in {"prepare", "check"}
    BY <1>1, Moves DEF Begin
  <2> QED
    BY <1>1, <2>1 DEF Begin, TypeOK
<1>2. CASE Check(p)
  <2>1. Goto(p, "prepare") \/ (Goto(p, "cell") /\ ~Needed(spec[p]))
    BY <1>2 DEF Check
  <2> QED
    BY <1>2, <2>1, GotoMoves DEF Check
<1>3. CASE Prepare(p)
  <2>1. Runnable(spec[p]) => FailIsFresh(spec[p]) \/ Goto(p, "start")
    BY <1>3 DEF Prepare
  <2>2. PICK l \in {"idle", "cell", "start"} : Goto(p, l)
    BY <1>3, AfterSetupIs DEF Prepare
  <2> QED
    BY <1>3, <2>1, <2>2, GotoMoves DEF Prepare, FailIsFresh
<1>4. CASE Start(p)
  <2>1. pc'[p] = "cell" => readable /\ Fresh(p)
    <3>1. CASE ~readable
      BY <1>4, <3>1, GotoMoves DEF Start
    <3>2. CASE readable /\ ~Fresh(p)
      BY <1>4, <3>2, GotoMoves DEF Start
    <3> QED
      BY <3>1, <3>2
  <2>2. PICK l \in {"idle", "cell", "unlink_ok"} : Goto(p, l)
    BY <1>4, AfterSetupIs DEF Start
  <2> QED
    BY <1>4, <2>1, <2>2, GotoMoves DEF Start, Fresh
<1>5. CASE UnlinkOk(p) \/ UnlinkFail(p) \/ Wait(p)
  <2>1. pc'[p] \in InSetup /\ pc[p] \in InSetup
    BY <1>5, GotoMoves DEF UnlinkOk, UnlinkFail, Wait, InSetup
  <2> QED
    BY <1>5, <2>1 DEF UnlinkOk, UnlinkFail, Wait, InSetup
<1>6. CASE WriteSentinel(p)
  <2>1. pc'[p] \in {"idle", "cell"}
    BY <1>6, GotoMoves, AfterSetupIs DEF WriteSentinel
  <2> QED
    BY <1>6, <2>1 DEF WriteSentinel
<1>7. CASE RunCell(p)
  BY <1>7, GotoMoves DEF RunCell
<1>8. CASE CellEnds(p) \/ Kill(p)
  BY <1>8, GotoMoves DEF CellEnds, Kill
<1> QED
  BY <1>1, <1>2, <1>3, <1>4, <1>5, <1>6, <1>7, <1>8 DEF Continue

LEMMA CalmInvStep ==
  ASSUME TypeOK, AloneInv, SentinelInv, CalmInv, AloneInv', NEW p \in Procs,
         Continue(p) \/ Begin(p) \/ Kill(p),
         NEW q \in Procs, calm'[q], pc'[q] # "idle"
  PROVE  /\ spec'[q] = manifest
         /\ pc'[q] \in InSetup => want'[q] = Fingerprint(spec'[q])
         /\ pc'[q] \in {"cell", "agent"} /\ ~overlap' /\ Runnable(spec'[q])
            /\ fail' = Nothing => ok' = Fingerprint(spec'[q])
         /\ pc'[q] = "agent" /\ ~overlap' =>
              spec'[q].setup = NoSetup \/ (Runnable(spec'[q]) /\ fail' = Nothing)
<1>1. UNCHANGED disk /\ (~overlap' => ~overlap)
  BY CellMoves, OverlapSet
<1>2. CASE q # p
  <2>1. /\ pc'[q] = pc[q] /\ want'[q] = want[q] /\ spec'[q] = spec[q]
        /\ calm[q]
    <3>1. pc'[q] = pc[q] /\ want'[q] = want[q] /\ spec'[q] = spec[q]
      BY <1>2, Moves, InstallMoves
    <3>2. \A r \in Procs : r # p => calm'[r] = calm[r]
      BY CellMoves
    <3>3. calm[q]
      BY <1>2, <3>2, Zenon
    <3> QED
      BY <3>1, <3>3
  <2>2. pc[q] \in {"cell", "agent"} /\ ~overlap' => UNCHANGED sentinels
    <3>1. SUFFICES ASSUME pc[q] \in {"cell", "agent"}, ~overlap'
                   PROVE  UNCHANGED sentinels
      OBVIOUS
    <3>2. pc[p] \notin InSetup
      BY <1>1, <1>2, <3>1 DEF AloneInv
    <3> QED
      BY <3>2, Effects DEF InSetup
  <2>3. /\ calm[q] /\ pc[q] # "idle" /\ spec[q] = manifest
        /\ pc[q] \in InSetup => want[q] = Fingerprint(spec[q])
        /\ pc[q] \in {"cell", "agent"} /\ ~overlap /\ Runnable(spec[q]) /\ fail = Nothing
             => ok = Fingerprint(spec[q])
        /\ pc[q] = "agent" /\ ~overlap => spec[q].setup = NoSetup
                                          \/ (Runnable(spec[q]) /\ fail = Nothing)
    BY <2>1 DEF CalmInv
  <2>4. pc[q] \in {"cell", "agent"} /\ ~overlap' => ~overlap /\ ok' = ok /\ fail' = fail
    BY <1>1, <2>2 DEF sentinels
  <2> QED
    BY <2>1, <2>3, <2>4
<1>3. CASE q = p
  <2>1. spec'[p] = manifest
    <3>1. CASE pc[p] = "idle"
      BY <3>1, CellMoves
    <3>2. CASE pc[p] # "idle"
      BY <1>3, <3>2, CellMoves DEF CalmInv
    <3> QED
      BY <3>1, <3>2
  <2>2. pc[p] # "idle" => calm[p] /\ spec' = spec
    BY <1>3, CellMoves
  <2>3. pc'[p] \in InSetup => want'[p] = Fingerprint(spec'[p])
    <3>1. CASE pc[p] = "start" /\ pc'[p] = "unlink_ok"
      BY <2>2, <3>1, InstallMoves
    <3>2. CASE pc[p] \in InSetup
      <4>1. want' = want /\ spec' = spec /\ want[p] = Fingerprint(spec[p])
        BY <2>2, <3>2, InstallMoves DEF CalmInv, InSetup
      <4> QED
        BY <4>1
    <3> QED
      BY <3>1, <3>2, Moves DEF InSetup
  <2>4. ASSUME pc'[p] = "cell", ~overlap', Runnable(spec'[p]), fail' = Nothing
        PROVE  ok' = Fingerprint(spec'[p])
    <3>1. pc[p] # "idle" /\ calm[p] /\ spec' = spec
      BY <2>2, <2>4, Moves
    <3>2. CASE pc[p] = "write"
      <4>1. want[p] = Fingerprint(spec[p]) /\ want[p] # Nothing
        BY <3>1, <3>2 DEF CalmInv, InSetup, TypeOK
      <4>2. \/ UNCHANGED sentinels /\ (fail # Nothing \/ ok = Fingerprint(spec[p]))
            \/ ok' = want[p] \/ fail' = want[p]
        BY <2>4, <3>1, <3>2, CellMoves
      <4>3. UNCHANGED sentinels => ok' = ok /\ fail' = fail
        BY DEF sentinels
      <4> QED
        BY <2>4, <3>1, <4>1, <4>2, <4>3
    <3>3. CASE pc[p] # "write"
      BY <2>4, <3>1, <3>3, CellMoves DEF Needed, sentinels
    <3> QED
      BY <3>2, <3>3
  <2>5. ASSUME pc'[p] = "agent", ~overlap'
        PROVE  /\ Runnable(spec'[p]) /\ fail' = Nothing => ok' = Fingerprint(spec'[p])
               /\ spec'[p].setup = NoSetup \/ (Runnable(spec'[p]) /\ fail' = Nothing)
    <3>1. /\ pc[p] = "cell" /\ UNCHANGED sentinels /\ spec[p].setup # Invalid
          /\ spec[p].setup = NoSetup \/ fail = Nothing
      BY <2>5, CellMoves
    <3>2. calm[p] /\ spec' = spec
      BY <2>2, <3>1
    <3> QED
      BY <1>1, <2>5, <3>1, <3>2 DEF CalmInv, sentinels, Runnable
  <2> QED
    BY <1>3, <2>1, <2>3, <2>4, <2>5
<1> QED
  BY <1>2, <1>3

LEMMA CalmInvNext ==
  TypeOK /\ AloneInv /\ SentinelInv /\ CalmInv /\ [Next]_vars => CalmInv'
<1> SUFFICES ASSUME TypeOK, AloneInv, SentinelInv, CalmInv, [Next]_vars
             PROVE  CalmInv'
  OBVIOUS
<1>1. AloneInv'
  BY AloneInvNext
<1>2. CASE UNCHANGED vars \/ OrphanEnds \/ \E p \in Procs : JobEnds(p)
  BY <1>2 DEF CalmInv, Fingerprint, vars, OrphanEnds, JobEnds, disk, sentinels, local, history
<1>3. CASE EditManifest \/ EditDeps
  <2>1. \A p \in Procs : ~calm'[p]
    BY <1>3 DEF EditManifest, EditDeps
  <2> QED
    BY <2>1 DEF CalmInv
<1>4. ASSUME NEW p \in Procs, Continue(p) \/ Begin(p) \/ Kill(p) PROVE CalmInv'
  <2>1. ASSUME NEW q \in Procs, calm'[q], pc'[q] # "idle"
        PROVE  /\ spec'[q] = manifest
               /\ pc'[q] \in InSetup => want'[q] = Fingerprint(spec'[q])
               /\ pc'[q] \in {"cell", "agent"} /\ ~overlap' /\ Runnable(spec'[q])
                  /\ fail' = Nothing => ok' = Fingerprint(spec'[q])
               /\ pc'[q] = "agent" /\ ~overlap' =>
                    spec'[q].setup = NoSetup \/ (Runnable(spec'[q]) /\ fail' = Nothing)
    BY <1>1, <1>4, <2>1, CalmInvStep
  <2>2. manifest' = manifest /\ deps' = deps
    BY <1>4, CellMoves DEF disk
  <2> QED
    BY <2>1, <2>2 DEF CalmInv, Fingerprint
<1> QED
  BY <1>2, <1>3, <1>4 DEF Next

\* RunsOnlyWithOk for any number of invocations, edits and kills.
THEOREM SetupRunsOnlyWithOk == Spec => []RunsOnlyWithOk
<1>1. Init => CalmInv
  BY DEF Init, CalmInv
<1>2. CalmInv => RunsOnlyWithOk
  BY DEF CalmInv, RunsOnlyWithOk, At
<1>3. Spec => []TypeOK
  BY SetupTypeCorrect
<1> QED
  BY <1>1, <1>2, <1>3, AloneInvariance, CalmInvNext, PTL DEF Spec

=============================================================================
