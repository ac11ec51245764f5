---------------------------- MODULE CampaignLock ----------------------------
(***************************************************************************)
(* The campaign lock of src/evals/evals/campaign.py: the file              *)
(* runs/<campaign>/.lock, created with link(2), inspected with a read and  *)
(* kill(pid, 0), removed with unlink(2).  Each file-system call is one     *)
(* step, so every interleaving of concurrent CLI invocations is a          *)
(* behaviour.                                                              *)
(*                                                                         *)
(* A process is one CLI invocation (eval, eval-all, eval-new,              *)
(* the clean commands), which takes the lock at most once: its token is    *)
(* the process itself.  Writing the payload to a private temporary file    *)
(* before the link touches nothing another process sees.                   *)
(***************************************************************************)
EXTENDS Naturals, FiniteSets

CONSTANTS Proc,      \* the CLI invocations that use one campaign
          HostOf,    \* HostOf[p]: the host p runs on
          Forced,    \* invocations given --force-unlock
          MayCrash,  \* invocations that may be killed (SIGKILL, power loss)
          PidReuse,  \* may a dead owner's PID name another live process?
          Absent     \* no lock file

ASSUME LockAssumption ==
  /\ Absent \notin Proc
  /\ Forced \subseteq Proc
  /\ MayCrash \subseteq Proc
  /\ PidReuse \in BOOLEAN

VARIABLES
  lockfile,  \* the owner named by the lock file, or Absent
  pc,        \* pc[p]: the next call of p
  seen,      \* seen[p]: the owner p read from the lock file (lock_data)
  robbed     \* history: owners whose lock file another process unlinked
             \* while they were running

vars == <<lockfile, pc, seen, robbed>>

\* Two invocations on one host and nobody else, or one invocation per host,
\* and nobody forces: the contention the takeover protocol is built for.
Uncontended ==
  /\ Forced = {}
  /\ \A p, q \in Proc : p # q /\ HostOf[p] = HostOf[q] => Proc = {p, q}

-----------------------------------------------------------------------------
(* Program points.                                                         *)

Acquiring == {"try", "inspect", "retry", "reread", "judge", "unlink", "relink"}
Owning    == {"held", "check", "remove"}   \* lock() body and release_lock
Ends      == {"done", "refused", "error", "dead"}
Points    == Acquiring \cup Owning \cup {"leaving"} \cup Ends

Exited(p)      == pc[p] \in Ends
SameHost(p, q) == HostOf[p] = HostOf[q]
Goto(p, point) == pc' = [pc EXCEPT ![p] = point]

\* unlink(2) of the lock file, whoever it belongs to.
Unlink(p) ==
  /\ lockfile' = Absent
  /\ robbed' = robbed \cup {q \in Proc \ {p} : q = lockfile /\ ~Exited(q)}

\* link(2): fails when the file exists.
Link(p, onSuccess, onExists) ==
  /\ IF lockfile = Absent
       THEN lockfile' = p /\ Goto(p, onSuccess)
       ELSE lockfile' = lockfile /\ Goto(p, onExists)
  /\ UNCHANGED <<seen, robbed>>

\* read_text(): the owner's payload, or FileNotFoundError.
Read(p, onOwner, onMissing) ==
  /\ IF lockfile = Absent
       THEN UNCHANGED seen /\ Goto(p, onMissing)
       ELSE seen' = [seen EXCEPT ![p] = lockfile] /\ Goto(p, onOwner)
  /\ UNCHANGED <<lockfile, robbed>>

Init ==
  /\ lockfile = Absent
  /\ pc = [p \in Proc |-> "try"]
  /\ seen = [p \in Proc |-> Absent]
  /\ robbed = {}

-----------------------------------------------------------------------------
(* acquire_lock                                                            *)

FirstTry(p) == pc[p] = "try" /\ Link(p, "held", "inspect")

Inspect(p) == pc[p] = "inspect" /\ Read(p, "judge", "retry")

\* The owner released between the link and the read: once more.
Retry(p) == pc[p] = "retry" /\ Link(p, "held", "reread")

\* The second read is outside any try: FileNotFoundError escapes.
Reread(p) == pc[p] = "reread" /\ Read(p, "judge", "error")

\* Mutant: a refused invocation still runs the unlink of release_lock.
RefuseLiveThenRelease(p) ==
  /\ pc[p] = "judge"
  /\ SameHost(p, seen[p])
  /\ ~Exited(seen[p]) \/ PidReuse
  /\ Goto(p, "remove")
  /\ UNCHANGED <<lockfile, seen, robbed>>

\* kill(pid, 0) finds a process: LockBusyError.
RefuseLive(p) ==
  /\ pc[p] = "judge"
  /\ SameHost(p, seen[p])
  /\ ~Exited(seen[p]) \/ PidReuse
  /\ Goto(p, "refused")
  /\ UNCHANGED <<lockfile, seen, robbed>>

\* Mutant: the owner is taken for dead without probing its PID.
JudgeStaleUnprobed(p) ==
  /\ pc[p] = "judge"
  /\ SameHost(p, seen[p])
  /\ Goto(p, "unlink")
  /\ UNCHANGED <<lockfile, seen, robbed>>

\* Mutant: a dead owner is reported as busy, like a PermissionError.
JudgeStaleRefuses(p) ==
  /\ pc[p] = "judge"
  /\ SameHost(p, seen[p])
  /\ Exited(seen[p])
  /\ Goto(p, "refused")
  /\ UNCHANGED <<lockfile, seen, robbed>>

\* kill(pid, 0) raises ProcessLookupError: take over.
JudgeStale(p) ==
  /\ pc[p] = "judge"
  /\ SameHost(p, seen[p])
  /\ Exited(seen[p])
  /\ Goto(p, "unlink")
  /\ UNCHANGED <<lockfile, seen, robbed>>

\* Another host's lock cannot be probed: refused without --force-unlock.
RefuseRemote(p) ==
  /\ pc[p] = "judge"
  /\ ~SameHost(p, seen[p])
  /\ p \notin Forced
  /\ Goto(p, "refused")
  /\ UNCHANGED <<lockfile, seen, robbed>>

\* --force-unlock: another host's lock is taken over.
Override(p) ==
  /\ pc[p] = "judge"
  /\ ~SameHost(p, seen[p])
  /\ p \in Forced
  /\ Goto(p, "unlink")
  /\ UNCHANGED <<lockfile, seen, robbed>>

-----------------------------------------------------------------------------
(* _take_over_lock: the unlink names the path, not the owner p judged.     *)

TakeoverUnlink(p) ==
  /\ pc[p] = "unlink"
  /\ Unlink(p)
  /\ Goto(p, "relink")
  /\ UNCHANGED seen

\* Mutant: the new lock is renamed over whatever is there.
TakeoverRename(p) ==
  /\ pc[p] = "relink"
  /\ lockfile' = p
  /\ Goto(p, "held")
  /\ UNCHANGED <<seen, robbed>>

TakeoverLink(p) == pc[p] = "relink" /\ Link(p, "held", "refused")

-----------------------------------------------------------------------------
(* The body of lock() and release_lock, which runs in its finally.         *)

Leave(p) ==
  /\ pc[p] = "held"
  /\ Goto(p, "check")
  /\ UNCHANGED <<lockfile, seen, robbed>>

\* Mutant: release_lock forgets its file when the body is over.
ReleaseForgets(p) ==
  /\ pc[p] = "check"
  /\ Goto(p, "leaving")
  /\ UNCHANGED <<lockfile, seen, robbed>>

\* Compare the owner_token of the file with our own.
ReleaseCheck(p) ==
  /\ pc[p] = "check"
  /\ Goto(p, IF lockfile = p THEN "remove" ELSE "leaving")
  /\ UNCHANGED <<lockfile, seen, robbed>>

ReleaseRemove(p) ==
  /\ pc[p] = "remove"
  /\ Unlink(p)
  /\ Goto(p, "leaving")
  /\ UNCHANGED seen

\* The process outlives its release until the command returns.
Exit(p) ==
  /\ pc[p] = "leaving"
  /\ Goto(p, "done")
  /\ UNCHANGED <<lockfile, seen, robbed>>

-----------------------------------------------------------------------------
Crash(p) ==
  /\ p \in MayCrash
  /\ ~Exited(p)
  /\ Goto(p, "dead")
  /\ UNCHANGED <<lockfile, seen, robbed>>

AllExited ==
  /\ \A p \in Proc : Exited(p)
  /\ UNCHANGED vars

Acquisition(p) ==
  \/ FirstTry(p) \/ Inspect(p) \/ Retry(p) \/ Reread(p)
  \/ RefuseLive(p) \/ JudgeStale(p) \/ RefuseRemote(p) \/ Override(p)
  \/ TakeoverUnlink(p) \/ TakeoverLink(p)

Completion(p) ==
  Leave(p) \/ ReleaseCheck(p) \/ ReleaseRemove(p) \/ Exit(p)

Step(p) == Acquisition(p) \/ Completion(p)

Next == (\E p \in Proc : Step(p) \/ Crash(p)) \/ AllExited

Spec == Init /\ [][Next]_vars

\* The kernel schedules every live process; nothing makes one crash.
FairSpec == Spec /\ \A p \in Proc : WF_vars(Step(p))

-----------------------------------------------------------------------------
(* Properties                                                              *)

\* Types of the state; whoever judges or takes over has read another owner.
TypeOK ==
  /\ lockfile \in Proc \cup {Absent}
  /\ pc \in [Proc -> Points]
  /\ seen \in [Proc -> Proc \cup {Absent}]
  /\ robbed \subseteq Proc
  /\ \A p \in Proc : pc[p] \in {"judge", "unlink", "relink"} => seen[p] \in Proc \ {p}

\* lock(): at most one invocation is inside the protected region.
MutualExclusion ==
  \A p, q \in Proc : pc[p] = "held" /\ pc[q] = "held" => p = q

\* acquire_lock/release_lock: the lock file names a process that is inside
\* lock() as long as nobody unlinked its file, so two invocations can be
\* inside together only if one of them was robbed.
OwnerUnlessRobbed ==
  \A p \in Proc : pc[p] \in Owning /\ p \notin robbed => lockfile = p

\* release_lock: whoever the lock file names is inside lock() or was killed
\* there; no path that returns or is refused leaves its own file behind.
NoLeakedLock ==
  \A p \in Proc : lockfile = p => pc[p] \in Owning \cup {"dead"}

\* A running owner loses its lock file only to a process that judged an
\* earlier owner, that overrides by force, or that was itself robbed
\* between the token check and the unlink of release_lock.
RobberyExplained ==
  [][\A q \in robbed' \ robbed :
       \E p \in Proc \ {q} :
         \/ pc[p] = "unlink" /\ (seen[p] # q \/ p \in Forced)
         \/ pc[p] = "remove" /\ p \in robbed]_vars

\* release_lock: the file it unlinks is the one whose token it compared.
ReleaseRemovesOnlyOwn ==
  [][\A p \in Proc : pc[p] = "remove" /\ pc'[p] = "leaving"
       => lockfile \in {p, Absent}]_vars

\* acquire_lock: an invocation that does not get the lock is refused with a
\* diagnostic, never ended by an uncaught FileNotFoundError.
NoTraceback == \A p \in Proc : pc[p] # "error"

\* acquire_lock: an invocation that starts when all the others are over gets
\* the lock, a crashed owner's file notwithstanding, unless that file is
\* another host's and it was not told to override it.
StaleLockReclaimed ==
  \A p \in Proc :
    (/\ pc[p] = "try"
     /\ \A q \in Proc \ {p} : Exited(q)
     /\ lockfile = Absent \/ SameHost(p, lockfile) \/ p \in Forced)
    ~> (pc[p] \in {"held", "dead"})

-----------------------------------------------------------------------------
(* The abstract lock.                                                      *)

PhaseOf(point) ==
  CASE point \in Acquiring -> "outside"
    [] point \in Owning -> "inside"
    [] OTHER -> "over"

AbstractLock ==
  INSTANCE ExclusiveLock WITH owner <- lockfile,
                              phase <- [p \in Proc |-> PhaseOf(pc[p])]

\* The lock protocol implements the abstract lock (holds when two processes
\* of one host compete, or one process per host without --force-unlock).
ImplementsExclusiveLock == AbstractLock!AbsSpec
=============================================================================
