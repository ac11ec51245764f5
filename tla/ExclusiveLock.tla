---------------------------- MODULE ExclusiveLock ----------------------------
(***************************************************************************)
(* What a campaign lock promises (src/evals/evals/campaign.py, the         *)
(* docstrings of _try_create_lock_excl and _take_over_lock): one owner at  *)
(* a time, and a lock whose owner is gone may be reclaimed.                *)
(*                                                                         *)
(* owner   the process the lock names, or Absent                           *)
(* phase   where each invocation is: outside the protected region, inside  *)
(*         it, or over                                                     *)
(***************************************************************************)
CONSTANTS Proc,    \* CLI invocations
          Absent   \* no lock

VARIABLES owner, phase

absVars == <<owner, phase>>

AbsInit ==
  /\ owner = Absent
  /\ phase = [p \in Proc |-> "outside"]

\* A free lock is taken by one process, which is inside from then on.
Acquire(p) ==
  /\ phase[p] = "outside"
  /\ owner = Absent
  /\ owner' = p
  /\ phase' = [phase EXCEPT ![p] = "inside"]

\* The owner's work is over and the lock is free again.
Release(p) ==
  /\ phase[p] = "inside"
  /\ owner = p
  /\ owner' = Absent
  /\ phase' = [phase EXCEPT ![p] = "over"]

\* An invocation ends, refused or killed; a lock it owns stays behind.
Quit(p) ==
  /\ phase[p] # "over"
  /\ phase' = [phase EXCEPT ![p] = "over"]
  /\ UNCHANGED owner

\* The lock of an owner that is over is reclaimed.
Expire ==
  /\ owner \in Proc
  /\ phase[owner] = "over"
  /\ owner' = Absent
  /\ UNCHANGED phase

AbsNext ==
  \/ \E p \in Proc : Acquire(p) \/ Release(p) \/ Quit(p)
  \/ Expire

AbsSpec == AbsInit /\ [][AbsNext]_absVars
=============================================================================
