------------------------- MODULE CampaignLockProofs -------------------------
(***************************************************************************)
(* Proofs about the campaign lock, for every set of invocations.           *)
(*                                                                         *)
(* LockInv is inductive for any hosts, crashes and --force-unlock.  Under  *)
(* Uncontended nobody is ever robbed, which gives mutual exclusion and the *)
(* refinement of ExclusiveLock.                                            *)
(***************************************************************************)
EXTENDS CampaignLock, TLAPS

\* Who takes over has found the owner it read exited, or was told to force.
Judged ==
  \A p \in Proc : pc[p] \in {"unlink", "relink"} =>
    IF SameHost(p, seen[p]) THEN Exited(seen[p]) ELSE p \in Forced

LockInv ==
  /\ TypeOK
  /\ OwnerUnlessRobbed
  /\ NoLeakedLock
  /\ Judged

-----------------------------------------------------------------------------
\* The state after a step of p differs from the one before only at p.
LEMMA GotoOthers ==
  ASSUME TypeOK, NEW p \in Proc, NEW pt \in Points, Goto(p, pt)
  PROVE  /\ pc' \in [Proc -> Points]
         /\ pc'[p] = pt
         /\ \A q \in Proc \ {p} : pc'[q] = pc[q]
  BY DEF TypeOK, Goto

\* Invocations that ended stay ended: a PID judged dead stays dead.
LEMMA ExitedStable ==
  ASSUME TypeOK, [Next]_vars, NEW q \in Proc, Exited(q)
  PROVE  Exited(q)'
<1>1. ASSUME NEW p \in Proc, Step(p) \/ Crash(p)
      PROVE  Exited(q)'
  <2>1. pc[p] \notin Ends
    BY <1>1 DEF Step, Acquisition, Completion, FirstTry, Inspect, Retry, Reread,
       RefuseLive, JudgeStale, RefuseRemote, Override, TakeoverUnlink,
       TakeoverLink, Leave, ReleaseCheck, ReleaseRemove, Exit, Crash, Exited, Ends
  <2>2. p # q
    BY <2>1 DEF Exited
  <2>3. \E pt \in Points : Goto(p, pt)
    BY <1>1 DEF Step, Acquisition, Completion, FirstTry, Inspect, Retry, Reread,
       RefuseLive, JudgeStale, RefuseRemote, Override, TakeoverUnlink,
       TakeoverLink, Leave, ReleaseCheck, ReleaseRemove, Exit, Crash, Link, Read,
       Points, Acquiring, Owning, Ends
  <2> QED
    BY <2>2, <2>3, GotoOthers DEF Exited
<1>2. CASE UNCHANGED vars
  BY <1>2 DEF vars, Exited
<1> QED
  BY <1>1, <1>2 DEF Next, AllExited

-----------------------------------------------------------------------------
(* The three kinds of calls on the lock file.                              *)

LEMMA LinkStep ==
  ASSUME LockInv, [Next]_vars, NEW p \in Proc, NEW onExists \in {"inspect", "reread", "refused"},
         pc[p] \in {"try", "retry", "relink"},
         Link(p, "held", onExists)
  PROVE  LockInv'
<1> USE LockAssumption DEF LockInv, Link
<1>1. PICK pt \in {"held", onExists} :
        /\ Goto(p, pt)
        /\ IF pt = "held" THEN lockfile = Absent /\ lockfile' = p
                          ELSE lockfile' = lockfile
  BY DEF Link
<1>2. pt \in Points
  BY DEF Points, Acquiring, Owning, Ends
<1>3. /\ pc' \in [Proc -> Points]
      /\ pc'[p] = pt
      /\ \A q \in Proc \ {p} : pc'[q] = pc[q]
  BY <1>1, <1>2, GotoOthers
<1>4. TypeOK'
  BY <1>1, <1>3 DEF TypeOK
<1>5. OwnerUnlessRobbed'
  BY <1>1, <1>3 DEF OwnerUnlessRobbed, Owning
<1>6. NoLeakedLock'
  BY <1>1, <1>3 DEF NoLeakedLock, Owning
<1>7. Judged'
  BY <1>1, <1>3, ExitedStable DEF Judged, TypeOK, SameHost
<1> QED
  BY <1>4, <1>5, <1>6, <1>7

LEMMA UnlinkStep ==
  ASSUME LockInv, [Next]_vars, NEW p \in Proc, NEW pt \in {"relink", "leaving"},
         \/ pc[p] = "unlink" /\ pt = "relink"
         \/ pc[p] = "remove" /\ pt = "leaving",
         Unlink(p), Goto(p, pt), UNCHANGED seen
  PROVE  LockInv'
<1> USE LockAssumption DEF LockInv
<1>1. pt \in Points
  BY DEF Points, Acquiring
<1>2. /\ pc' \in [Proc -> Points]
      /\ pc'[p] = pt
      /\ \A q \in Proc \ {p} : pc'[q] = pc[q]
  BY <1>1, GotoOthers
<1>3. TypeOK'
  BY <1>2 DEF TypeOK, Unlink
<1>4. OwnerUnlessRobbed'
  BY <1>2 DEF OwnerUnlessRobbed, Owning, Ends, Exited, Unlink
<1>5. NoLeakedLock'
  BY DEF NoLeakedLock, Unlink
<1>6. Judged'
  BY <1>2, ExitedStable DEF Judged, TypeOK, SameHost
<1> QED
  BY <1>3, <1>4, <1>5, <1>6

LEMMA ReadStep ==
  ASSUME LockInv, [Next]_vars, NEW p \in Proc, NEW onMissing \in {"retry", "error"},
         pc[p] \in {"inspect", "reread"},
         Read(p, "judge", onMissing)
  PROVE  LockInv'
<1> USE LockAssumption DEF LockInv
<1>1. PICK pt \in {"judge", onMissing} :
        /\ Goto(p, pt)
        /\ pt = "judge" => lockfile # Absent /\ seen' = [seen EXCEPT ![p] = lockfile]
        /\ pt # "judge" => UNCHANGED seen
  BY DEF Read
<1>2. pt \in Points
  BY DEF Points, Acquiring, Ends
<1>3. /\ pc' \in [Proc -> Points]
      /\ pc'[p] = pt
      /\ \A q \in Proc \ {p} : pc'[q] = pc[q]
  BY <1>1, <1>2, GotoOthers
<1>4. lockfile # p
  BY DEF NoLeakedLock, Owning
<1>5. TypeOK'
  BY <1>1, <1>3, <1>4 DEF TypeOK, Read
<1>6. OwnerUnlessRobbed'
  BY <1>3 DEF OwnerUnlessRobbed, Owning, Read
<1>7. NoLeakedLock'
  BY <1>3 DEF NoLeakedLock, Owning, Read
<1>8. Judged'
  BY <1>1, <1>3, ExitedStable DEF Judged, TypeOK, SameHost
<1> QED
  BY <1>5, <1>6, <1>7, <1>8

\* A step of p that touches neither the file nor what p read.
LEMMA LocalStep ==
  ASSUME LockInv, [Next]_vars, NEW p \in Proc, NEW pt \in Points,
         Goto(p, pt), UNCHANGED <<lockfile, seen, robbed>>,
         pt \in Owning => pc[p] \in Owning,
         lockfile = p => pt \in Owning \cup {"dead"},
         pt = "unlink" => /\ pc[p] = "judge"
                          /\ IF SameHost(p, seen[p]) THEN Exited(seen[p]) ELSE p \in Forced,
         pt \notin {"judge", "relink"}
  PROVE  LockInv'
<1> USE LockAssumption DEF LockInv
<1>1. /\ pc' \in [Proc -> Points]
      /\ pc'[p] = pt
      /\ \A q \in Proc \ {p} : pc'[q] = pc[q]
  BY GotoOthers
<1>2. TypeOK'
  BY <1>1 DEF TypeOK
<1>3. OwnerUnlessRobbed'
  BY <1>1 DEF OwnerUnlessRobbed
<1>4. NoLeakedLock'
  BY <1>1 DEF NoLeakedLock
<1>5. Judged'
  BY <1>1, ExitedStable DEF Judged, TypeOK, SameHost
<1> QED
  BY <1>2, <1>3, <1>4, <1>5

-----------------------------------------------------------------------------
(* LockInv is inductive.                                                   *)

LEMMA LockInvInit == Init => LockInv
  BY LockAssumption DEF Init, LockInv, TypeOK, OwnerUnlessRobbed, NoLeakedLock,
     Judged, Points, Acquiring, Owning

LEMMA LockInvNext == LockInv /\ [Next]_vars => LockInv'
<1> SUFFICES ASSUME LockInv, [Next]_vars PROVE LockInv'
  OBVIOUS
<1>1. ASSUME NEW p \in Proc, FirstTry(p) \/ Retry(p) \/ TakeoverLink(p)
      PROVE  LockInv'
  BY <1>1, LinkStep DEF FirstTry, Retry, TakeoverLink
<1>2. ASSUME NEW p \in Proc, Inspect(p) \/ Reread(p)
      PROVE  LockInv'
  BY <1>2, ReadStep DEF Inspect, Reread
<1>3. ASSUME NEW p \in Proc, TakeoverUnlink(p) \/ ReleaseRemove(p)
      PROVE  LockInv'
  BY <1>3, UnlinkStep DEF TakeoverUnlink, ReleaseRemove
<1>4. ASSUME NEW p \in Proc, RefuseLive(p) \/ RefuseRemote(p)
      PROVE  LockInv'
  <2>1. lockfile # p
    BY <1>4 DEF LockInv, NoLeakedLock, RefuseLive, RefuseRemote, Owning
  <2> QED
    BY <1>4, <2>1, LocalStep DEF RefuseLive, RefuseRemote, Points, Owning, Ends
<1>5. ASSUME NEW p \in Proc, JudgeStale(p) \/ Override(p)
      PROVE  LockInv'
  <2>1. lockfile # p
    BY <1>5 DEF LockInv, NoLeakedLock, JudgeStale, Override, Owning
  <2> QED
    BY <1>5, <2>1, LocalStep DEF JudgeStale, Override, Points, Acquiring, Owning
<1>6. ASSUME NEW p \in Proc, Leave(p)
      PROVE  LockInv'
  BY <1>6, LocalStep DEF Leave, Points, Owning
<1>7. ASSUME NEW p \in Proc, ReleaseCheck(p)
      PROVE  LockInv'
  BY <1>7, LocalStep DEF ReleaseCheck, Points, Owning
<1>8. ASSUME NEW p \in Proc, Exit(p)
      PROVE  LockInv'
  <2>1. lockfile # p
    BY <1>8 DEF LockInv, NoLeakedLock, Exit, Owning
  <2> QED
    BY <1>8, <2>1, LocalStep DEF Exit, Points, Owning, Ends
<1>9. ASSUME NEW p \in Proc, Crash(p)
      PROVE  LockInv'
  BY <1>9, LocalStep DEF Crash, Points, Owning, Ends
<1>10. CASE UNCHANGED vars
  BY <1>10 DEF vars, LockInv, TypeOK, OwnerUnlessRobbed, NoLeakedLock,
     Judged, Exited
<1> QED
  BY <1>1, <1>2, <1>3, <1>4, <1>5, <1>6, <1>7, <1>8, <1>9, <1>10
     DEF Next, Step, Acquisition, Completion, AllExited

LEMMA LockInvariant == Spec => []LockInv
  BY LockInvInit, LockInvNext, PTL DEF Spec

-----------------------------------------------------------------------------
(* What holds for any contention, crashes and --force-unlock.              *)

\* Type correctness: nobody judges or takes over a lock without having read
\* another owner's payload.
THEOREM LockTypeCorrect == Spec => []TypeOK
  BY LockInvariant, PTL DEF LockInv

\* The lock file names every process inside lock() that was not robbed.
THEOREM LockNamesOwner == Spec => []OwnerUnlessRobbed
  BY LockInvariant, PTL DEF LockInv

\* No process that returned or was refused leaves its lock file behind.
THEOREM LockNotLeaked == Spec => []NoLeakedLock
  BY LockInvariant, PTL DEF LockInv

\* How a running owner can lose its file: a stale decision, force, or a
\* robbed process in release_lock.
THEOREM LockRobberyExplained == Spec => RobberyExplained
<1> DEFINE Explained == \A q \in robbed' \ robbed :
              \E p \in Proc \ {q} :
                \/ pc[p] = "unlink" /\ (seen[p] # q \/ p \in Forced)
                \/ pc[p] = "remove" /\ p \in robbed
<1>1. LockInv /\ [Next]_vars => Explained
  <2> SUFFICES ASSUME LockInv, [Next]_vars,
                      NEW q \in robbed' \ robbed
               PROVE  \E p \in Proc \ {q} :
                        \/ pc[p] = "unlink" /\ (seen[p] # q \/ p \in Forced)
                        \/ pc[p] = "remove" /\ p \in robbed
    OBVIOUS
  <2>1. PICK p \in Proc : TakeoverUnlink(p) \/ ReleaseRemove(p)
    BY DEF Next, Step, Acquisition, Completion, FirstTry, Inspect, Retry,
       Reread, RefuseLive, JudgeStale, RefuseRemote, Override, TakeoverLink,
       Leave, ReleaseCheck, Exit, Crash, AllExited, Link, Read, vars
  <2>2. q \in Proc \ {p} /\ q = lockfile /\ ~Exited(q)
    BY <2>1 DEF TakeoverUnlink, ReleaseRemove, Unlink
  <2>3. CASE TakeoverUnlink(p)
    BY <2>2, <2>3 DEF TakeoverUnlink, LockInv, Judged
  <2>4. CASE ReleaseRemove(p)
    BY <2>2, <2>4 DEF ReleaseRemove, LockInv, OwnerUnlessRobbed, Owning
  <2> QED
    BY <2>1, <2>2, <2>3, <2>4
<1>2. Spec => [][Explained]_vars
  BY <1>1, LockInvariant, PTL DEF Spec
<1> QED
  BY <1>2 DEF RobberyExplained

-----------------------------------------------------------------------------
(* What Uncontended adds: nobody is robbed.                                *)

NobodyRobbed == robbed = {}

LEMMA NobodyRobbedNext ==
  ASSUME Uncontended, LockInv, NobodyRobbed, [Next]_vars
  PROVE  NobodyRobbed'
<1>1. ASSUME NEW p \in Proc, TakeoverUnlink(p)
      PROVE  NobodyRobbed'
  <2>1. seen[p] \in Proc \ {p} /\ SameHost(p, seen[p]) /\ Exited(seen[p])
    BY <1>1 DEF TakeoverUnlink, LockInv, TypeOK, Judged, Uncontended
  <2>2. Proc = {p, seen[p]}
    BY <2>1 DEF Uncontended, SameHost
  <2> QED
    BY <1>1, <2>1, <2>2 DEF TakeoverUnlink, Unlink, NobodyRobbed
<1>2. ASSUME NEW p \in Proc, ReleaseRemove(p)
      PROVE  NobodyRobbed'
  <2>1. lockfile = p
    BY <1>2 DEF ReleaseRemove, LockInv, OwnerUnlessRobbed, Owning, NobodyRobbed
  <2> QED
    BY <1>2, <2>1 DEF ReleaseRemove, Unlink, NobodyRobbed
<1>3. ASSUME NEW p \in Proc, Step(p) \/ Crash(p), ~TakeoverUnlink(p), ~ReleaseRemove(p)
      PROVE  NobodyRobbed'
  BY <1>3 DEF Step, Acquisition, Completion, FirstTry, Inspect, Retry, Reread,
     RefuseLive, JudgeStale, RefuseRemote, Override, TakeoverLink, Leave,
     ReleaseCheck, Exit, Crash, Link, Read, NobodyRobbed
<1>4. CASE UNCHANGED vars
  BY <1>4 DEF vars, NobodyRobbed
<1> QED
  BY <1>1, <1>2, <1>3, <1>4 DEF Next, AllExited

LEMMA UncontendedInvariant ==
  ASSUME Uncontended
  PROVE  Spec => [](LockInv /\ NobodyRobbed)
<1>1. Init => NobodyRobbed
  BY DEF Init, NobodyRobbed
<1>2. LockInv /\ NobodyRobbed /\ [Next]_vars => NobodyRobbed'
  BY NobodyRobbedNext
<1> QED
  BY <1>1, <1>2, LockInvariant, PTL DEF Spec

\* Two invocations of one host, or one per host, are never inside lock()
\* together, whatever crashes in between.
THEOREM LockMutualExclusion ==
  ASSUME Uncontended
  PROVE  Spec => []MutualExclusion
<1>1. LockInv /\ NobodyRobbed => MutualExclusion
  BY DEF LockInv, OwnerUnlessRobbed, NobodyRobbed, MutualExclusion, Owning
<1> QED
  BY <1>1, UncontendedInvariant, PTL

\* release_lock then unlinks no file but its own: nothing comes between the
\* token comparison and the unlink.
THEOREM LockReleasesOwn ==
  ASSUME Uncontended
  PROVE  Spec => ReleaseRemovesOnlyOwn
<1> DEFINE OwnRemoved == \A p \in Proc : pc[p] = "remove" /\ pc'[p] = "leaving"
                                          => lockfile \in {p, Absent}
<1>1. LockInv /\ NobodyRobbed => OwnRemoved
  BY DEF LockInv, OwnerUnlessRobbed, NobodyRobbed, Owning
<1>2. Spec => [][OwnRemoved]_vars
  BY <1>1, UncontendedInvariant, PTL
<1> QED
  BY <1>2 DEF ReleaseRemovesOnlyOwn

-----------------------------------------------------------------------------
(* Two invocations: the second read of acquire_lock always finds a file.   *)

AtMostTwo == \A p, q, r \in Proc : p = q \/ q = r \/ p = r

\* Whoever found the file taken competes with an invocation that has had its
\* turn; so if the file is gone at the first read, it stays gone.
HadItsTurn(q) == pc[q] \in Owning \cup {"leaving", "done", "dead"}

SecondTryWins ==
  \A p \in Proc :
    /\ pc[p] \in {"inspect", "retry"} => \A q \in Proc \ {p} : HadItsTurn(q)
    /\ pc[p] = "retry" => lockfile = Absent
    /\ pc[p] \notin {"reread", "error"}

LEMMA SecondTryWinsNext ==
  ASSUME AtMostTwo, LockInv, SecondTryWins, [Next]_vars
  PROVE  SecondTryWins'
<1> USE LockAssumption DEF LockInv
<1>1. ASSUME NEW p \in Proc, NEW pt \in Points \ {"retry", "reread", "error"},
             Goto(p, pt), lockfile' \in {lockfile, Absent},
             pt = "inspect" => \A q \in Proc \ {p} : HadItsTurn(q),
             HadItsTurn(p) => pt \in Owning \cup {"leaving", "done", "dead"}
      PROVE  SecondTryWins'
  <2>1. /\ pc'[p] = pt
        /\ \A q \in Proc \ {p} : pc'[q] = pc[q]
    BY <1>1, GotoOthers
  <2>2. \A q \in Proc : HadItsTurn(q) => HadItsTurn(q)'
    BY <1>1, <2>1 DEF HadItsTurn
  <2> QED
    BY <1>1, <2>1, <2>2 DEF SecondTryWins
<1>2. ASSUME NEW p \in Proc, FirstTry(p) \/ Retry(p) \/ TakeoverLink(p)
      PROVE  SecondTryWins'
  <2>1. pc[p] \in {"try", "retry", "relink"} /\ ~HadItsTurn(p)
    BY <1>2 DEF FirstTry, Retry, TakeoverLink, HadItsTurn, Owning
  <2>2. CASE lockfile = Absent
    <3>1. Goto(p, "held") /\ lockfile' = p
      BY <1>2, <2>2 DEF FirstTry, Retry, TakeoverLink, Link
    <3>2. /\ pc'[p] = "held"
          /\ \A q \in Proc \ {p} : pc'[q] = pc[q]
      BY <3>1, GotoOthers DEF Points, Owning
    <3>3. \A q \in Proc \ {p} : pc[q] \notin {"inspect", "retry"}
      BY <2>1 DEF SecondTryWins
    <3> QED
      BY <3>2, <3>3 DEF SecondTryWins
  <2>3. CASE lockfile # Absent
    <3>1. \/ FirstTry(p) /\ Goto(p, "inspect")
          \/ TakeoverLink(p) /\ Goto(p, "refused")
      BY <1>2, <2>3 DEF FirstTry, Retry, TakeoverLink, Link, SecondTryWins
    <3>2. lockfile \in Proc \ {p} /\ UNCHANGED lockfile
      BY <1>2, <2>1, <2>3 DEF FirstTry, Retry, TakeoverLink, Link, NoLeakedLock,
         Owning, TypeOK
    <3>3. \A q \in Proc \ {p} : q = lockfile
      BY <3>2 DEF AtMostTwo
    <3>4. \A q \in Proc \ {p} : HadItsTurn(q)
      BY <3>3 DEF NoLeakedLock, HadItsTurn
    <3> QED
      BY <1>1, <2>1, <3>1, <3>2, <3>4 DEF Points, Acquiring, Ends
  <2> QED
    BY <2>2, <2>3
<1>3. ASSUME NEW p \in Proc, Inspect(p) \/ Reread(p)
      PROVE  SecondTryWins'
  <2>1. /\ pc[p] = "inspect" /\ Read(p, "judge", "retry")
        /\ \A q \in Proc \ {p} : HadItsTurn(q)
    BY <1>3 DEF Inspect, Reread, SecondTryWins
  <2>2. PICK pt \in {"judge", "retry"} :
          Goto(p, pt) /\ lockfile' = lockfile /\ (pt = "retry" => lockfile = Absent)
    BY <2>1 DEF Read
  <2>3. /\ pc'[p] = pt
        /\ \A q \in Proc \ {p} : pc'[q] = pc[q]
    BY <2>2, GotoOthers DEF Points, Acquiring
  <2>4. \A q \in Proc \ {p} : pc[q] \notin {"inspect", "retry"}
    BY <2>1 DEF HadItsTurn, Owning
  <2> QED
    BY <2>1, <2>2, <2>3, <2>4 DEF SecondTryWins, HadItsTurn
<1>4. ASSUME NEW p \in Proc, TakeoverUnlink(p) \/ ReleaseRemove(p)
      PROVE  SecondTryWins'
  BY <1>1, <1>4 DEF TakeoverUnlink, ReleaseRemove, Unlink, HadItsTurn, Owning,
     Points, Acquiring
<1>5. ASSUME NEW p \in Proc,
             RefuseLive(p) \/ RefuseRemote(p) \/ JudgeStale(p) \/ Override(p)
      PROVE  SecondTryWins'
  BY <1>1, <1>5 DEF RefuseLive, RefuseRemote, JudgeStale, Override, HadItsTurn,
     Owning, Points, Acquiring, Ends
<1>6. ASSUME NEW p \in Proc, Leave(p) \/ ReleaseCheck(p) \/ Exit(p) \/ Crash(p)
      PROVE  SecondTryWins'
  BY <1>1, <1>6 DEF Leave, ReleaseCheck, Exit, Crash, Owning, Points, Ends
<1>7. CASE UNCHANGED vars
  BY <1>7 DEF vars, SecondTryWins, HadItsTurn
<1> QED
  BY <1>2, <1>3, <1>4, <1>5, <1>6, <1>7
     DEF Next, Step, Acquisition, Completion, AllExited

\* acquire_lock: with one competitor the unguarded second read never fails,
\* whichever hosts the two run on, however either ends and whether or not
\* they force.  (A third invocation can make it fail.)
THEOREM LockNoTraceback ==
  ASSUME AtMostTwo
  PROVE  Spec => []NoTraceback
<1>1. Init => SecondTryWins
  BY DEF Init, SecondTryWins
<1>2. LockInv /\ SecondTryWins /\ [Next]_vars => SecondTryWins'
  BY SecondTryWinsNext
<1>3. SecondTryWins => NoTraceback
  BY DEF SecondTryWins, NoTraceback
<1> QED
  BY <1>1, <1>2, <1>3, LockInvariant, PTL DEF Spec

-----------------------------------------------------------------------------
(* The lock implements the abstract lock.                                  *)

phaseBar == [p \in Proc |-> PhaseOf(pc[p])]

\* A step of p to pt changes only the phase of p.
LEMMA PhaseStep ==
  ASSUME TypeOK, NEW p \in Proc, NEW pt \in Points, Goto(p, pt)
  PROVE  phaseBar' = [phaseBar EXCEPT ![p] = PhaseOf(pt)]
<1>1. /\ pc' \in [Proc -> Points]
      /\ pc'[p] = pt
      /\ \A q \in Proc \ {p} : pc'[q] = pc[q]
  BY GotoOthers
<1>2. \A q \in Proc : PhaseOf(pc'[q]) = IF q = p THEN PhaseOf(pt) ELSE PhaseOf(pc[q])
  BY <1>1
<1> QED
  BY <1>2 DEF phaseBar

LEMMA Phases ==
  /\ \A pt \in Acquiring : PhaseOf(pt) = "outside"
  /\ \A pt \in Owning : PhaseOf(pt) = "inside"
  /\ \A pt \in Ends \cup {"leaving"} : PhaseOf(pt) = "over"
  BY DEF PhaseOf, Acquiring, Owning, Ends

LEMMA LinkRefines ==
  ASSUME LockInv, NEW p \in Proc, NEW onExists \in Acquiring \cup {"refused"},
         pc[p] \in Acquiring, Link(p, "held", onExists)
  PROVE  [AbstractLock!AbsNext]_(AbstractLock!absVars)
<1>1. phaseBar[p] = "outside"
  BY Phases DEF phaseBar
<1>2. CASE lockfile = Absent
  <2>1. phaseBar' = [phaseBar EXCEPT ![p] = "inside"]
    BY <1>2, PhaseStep, Phases DEF Link, LockInv, Points, Owning
  <2> QED
    BY <1>1, <1>2, <2>1 DEF Link, phaseBar, AbstractLock!AbsNext, AbstractLock!Acquire
<1>3. CASE lockfile # Absent /\ onExists \in Acquiring
  <2>1. phaseBar' = [phaseBar EXCEPT ![p] = "outside"]
    BY <1>3, PhaseStep, Phases DEF Link, LockInv, Points
  <2>2. phaseBar' = phaseBar
    BY <1>1, <2>1 DEF phaseBar
  <2> QED
    BY <1>3, <2>2 DEF Link, phaseBar, AbstractLock!absVars
<1>4. CASE lockfile # Absent /\ onExists = "refused"
  <2>1. phaseBar' = [phaseBar EXCEPT ![p] = "over"]
    BY <1>4, PhaseStep, Phases DEF Link, LockInv, Points, Ends
  <2> QED
    BY <1>1, <1>4, <2>1 DEF Link, phaseBar, AbstractLock!AbsNext, AbstractLock!Quit
<1> QED
  BY <1>2, <1>3, <1>4

\* A step that leaves the file alone keeps the phase of p or ends it.
LEMMA QuietRefines ==
  ASSUME LockInv, NEW p \in Proc, NEW pt \in Points,
         Goto(p, pt), UNCHANGED lockfile,
         PhaseOf(pt) = PhaseOf(pc[p]) \/ PhaseOf(pt) = "over"
  PROVE  [AbstractLock!AbsNext]_(AbstractLock!absVars)
<1>1. phaseBar' = [phaseBar EXCEPT ![p] = PhaseOf(pt)]
  BY PhaseStep DEF LockInv
<1>2. phaseBar[p] = PhaseOf(pc[p])
  BY DEF phaseBar
<1>3. CASE PhaseOf(pt) = PhaseOf(pc[p])
  <2>1. phaseBar' = phaseBar
    BY <1>1, <1>2, <1>3 DEF phaseBar
  <2> QED
    BY <2>1 DEF phaseBar, AbstractLock!absVars
<1>4. CASE PhaseOf(pt) = "over" /\ PhaseOf(pc[p]) # "over"
  BY <1>1, <1>2, <1>4 DEF phaseBar, AbstractLock!AbsNext, AbstractLock!Quit
<1> QED
  BY <1>3, <1>4

LEMMA NextRefines ==
  ASSUME Uncontended, LockInv, NobodyRobbed, [Next]_vars
  PROVE  [AbstractLock!AbsNext]_(AbstractLock!absVars)
<1> USE DEF LockInv
<1>1. ASSUME NEW p \in Proc, FirstTry(p) \/ Retry(p) \/ TakeoverLink(p)
      PROVE  [AbstractLock!AbsNext]_(AbstractLock!absVars)
  BY <1>1, LinkRefines DEF FirstTry, Retry, TakeoverLink, Acquiring
<1>2. ASSUME NEW p \in Proc, Inspect(p) \/ Reread(p)
      PROVE  [AbstractLock!AbsNext]_(AbstractLock!absVars)
  <2>1. PICK pt \in {"judge", "retry", "error"} : Goto(p, pt)
    BY <1>2 DEF Inspect, Reread, Read
  <2>2. PhaseOf(pt) = PhaseOf(pc[p]) \/ PhaseOf(pt) = "over"
    BY <1>2, Phases DEF Inspect, Reread, Acquiring, Ends
  <2> QED
    BY <1>2, <2>1, <2>2, QuietRefines DEF Inspect, Reread, Read, Points, Acquiring, Ends
<1>3. ASSUME NEW p \in Proc, RefuseLive(p) \/ RefuseRemote(p)
      PROVE  [AbstractLock!AbsNext]_(AbstractLock!absVars)
  BY <1>3, QuietRefines, Phases DEF RefuseLive, RefuseRemote, Points, Ends
<1>4. ASSUME NEW p \in Proc, JudgeStale(p) \/ Override(p)
      PROVE  [AbstractLock!AbsNext]_(AbstractLock!absVars)
  BY <1>4, QuietRefines, Phases DEF JudgeStale, Override, Points, Acquiring
<1>5. ASSUME NEW p \in Proc, TakeoverUnlink(p)
      PROVE  [AbstractLock!AbsNext]_(AbstractLock!absVars)
  <2>1. seen[p] \in Proc \ {p} /\ SameHost(p, seen[p]) /\ Exited(seen[p])
    BY <1>5 DEF TakeoverUnlink, TypeOK, Judged, Uncontended
  <2>2. Proc = {p, seen[p]} /\ lockfile # p
    BY <1>5, <2>1 DEF Uncontended, SameHost, TakeoverUnlink, NoLeakedLock, Owning
  <2>3. phaseBar' = [phaseBar EXCEPT ![p] = "outside"]
    BY <1>5, PhaseStep, Phases DEF TakeoverUnlink, Points, Acquiring
  <2>4. phaseBar[p] = "outside" /\ phaseBar[seen[p]] = "over"
    BY <1>5, <2>1, Phases DEF phaseBar, TakeoverUnlink, Acquiring, Exited
  <2>5. phaseBar' = phaseBar
    BY <2>3, <2>4 DEF phaseBar
  <2>6. CASE lockfile = Absent
    BY <1>5, <2>5, <2>6 DEF TakeoverUnlink, Unlink, phaseBar, AbstractLock!absVars
  <2>7. CASE lockfile = seen[p]
    BY <1>5, <2>1, <2>4, <2>5, <2>7
       DEF TakeoverUnlink, Unlink, phaseBar, AbstractLock!AbsNext, AbstractLock!Expire
  <2> QED
    BY <2>2, <2>6, <2>7 DEF TypeOK
<1>6. ASSUME NEW p \in Proc, Leave(p) \/ ReleaseCheck(p)
      PROVE  [AbstractLock!AbsNext]_(AbstractLock!absVars)
  BY <1>6, QuietRefines, Phases DEF Leave, ReleaseCheck, Points, Owning
<1>7. ASSUME NEW p \in Proc, ReleaseRemove(p)
      PROVE  [AbstractLock!AbsNext]_(AbstractLock!absVars)
  <2>1. lockfile = p
    BY <1>7 DEF ReleaseRemove, OwnerUnlessRobbed, Owning, NobodyRobbed
  <2>2. phaseBar[p] = "inside"
    BY <1>7, Phases DEF ReleaseRemove, phaseBar, Owning
  <2>3. phaseBar' = [phaseBar EXCEPT ![p] = "over"]
    BY <1>7, PhaseStep, Phases DEF ReleaseRemove, Points
  <2> QED
    BY <1>7, <2>1, <2>2, <2>3
       DEF ReleaseRemove, Unlink, phaseBar, AbstractLock!AbsNext, AbstractLock!Release
<1>8. ASSUME NEW p \in Proc, Exit(p) \/ Crash(p)
      PROVE  [AbstractLock!AbsNext]_(AbstractLock!absVars)
  BY <1>8, QuietRefines, Phases DEF Exit, Crash, Points, Ends
<1>9. CASE UNCHANGED vars
  BY <1>9 DEF vars, AbstractLock!absVars
<1> QED
  BY <1>1, <1>2, <1>3, <1>4, <1>5, <1>6, <1>7, <1>8, <1>9
     DEF Next, Step, Acquisition, Completion, AllExited

\* Without contention beyond a pair per host the file protocol implements
\* the abstract exclusive lock: it is acquired only when free, released only
\* by its owner, and reclaimed only from an owner that is over.
THEOREM LockImplementsExclusiveLock ==
  ASSUME Uncontended
  PROVE  Spec => ImplementsExclusiveLock
<1>1. Init => AbstractLock!AbsInit
  BY Phases DEF Init, AbstractLock!AbsInit, PhaseOf, Acquiring
<1>2. LockInv /\ NobodyRobbed /\ [Next]_vars
        => [AbstractLock!AbsNext]_(AbstractLock!absVars)
  BY NextRefines
<1> QED
  BY <1>1, <1>2, UncontendedInvariant, PTL
     DEF Spec, ImplementsExclusiveLock, AbstractLock!AbsSpec
=============================================================================
