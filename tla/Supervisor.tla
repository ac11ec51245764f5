----------------------------- MODULE Supervisor -----------------------------
(***************************************************************************)
(* How the harness supervises a process it starts: run_cell of             *)
(* src/evals/evals/runner.py with process_tree.py.  Test commands          *)
(* (pipeline.py) and framework setups (setup.py) follow the same pattern,  *)
(* so a run here is any supervised process; they come one after another.   *)
(*                                                                         *)
(* A process writes to a pipe that a pump thread drains into a log.  Its   *)
(* descendants inherit the pipe: those in its process group die with it,   *)
(* those that left the group ("loose") do not.  stdout stands for both     *)
(* output pipes.  A pump reads by descriptor number, which the harness     *)
(* may have closed and the kernel given to a later pipe; a read that is    *)
(* already blocked keeps its pipe.                                         *)
(*                                                                         *)
(* Pumps are taken to be prompt: one that has something to read, or end of *)
(* file, gets there within PIPE_DRAIN_GRACE_S.                             *)
(***************************************************************************)
EXTENDS Naturals, Sequences

CONSTANTS Runs,       \* number of supervised processes
          Fds,        \* bound: descriptor numbers 1 .. Fds
          Emits,      \* what a process may write to stdout
          MaxWrites,  \* bound: how often
          MayDetach   \* runs whose descendants may leave the process group

Run == 1 .. Runs
Fd == 1 .. Fds
Free == 0  \* no pipe behind a descriptor; no descriptor

Content == {"answer",  \* a valid envelope
            "misfit",  \* JSON that is no valid envelope
            "noise",   \* text that makes the output no JSON
            "flood"}   \* more than STDOUT_CAP_BYTES

ASSUME SupervisorAssumption ==
  /\ {Runs, Fds} \subseteq Nat \ {0}
  /\ Emits \subseteq Content
  /\ MaxWrites \in Nat
  /\ MayDetach \subseteq Run

VARIABLES
  child,   \* child[k]: "none", "running", "exited" by itself, or "killed"
  code,    \* code[k]: its exit status
  group,   \* group[k]: descendants of k in its process group are alive
  loose,   \* loose[k]: descendants outside it are alive and hold the pipe
  pipe,    \* pipe[k]: what was written to the stdout of k and not yet read
  sent,    \* history: sent[k], what k itself wrote to its stdout
  stdin,   \* stdin[k]: the thread that writes the request, "writing" or "ended"
  fdt,     \* fdt[n]: the run whose pipe descriptor n reads, or Free
  fd,      \* fd[k]: the descriptor number the Popen object of k owns, or Free
  pump,    \* pump[k]: "none", "loop", "blocked" in a read, or "ended"
  at,      \* at[k]: the pipe the blocked read of pump k is on
  buf,     \* buf[k]: what pump k has read
  log,     \* log[k]: the content of stdout.log of k
  cur,     \* the run the harness is busy with
  pc,      \* its next step
  timed,   \* timed_out
  expired, \* history: expired[k], the deadline of k passed
  result   \* result[k]: error_reason, and whether response.json was written

procs == <<child, code, group, loose>>
pipes == <<pipe, sent, stdin>>
pumps == <<fdt, fd, pump, at, buf, log>>
harness == <<cur, pc, timed, expired, result>>
vars == <<procs, pipes, pumps, harness>>

Late == "late"         \* what a loose descendant writes
Item == [by : Run, what : Content \cup {Late}]
Points == {"spawn", "wait", "term", "grace", "kill", "stdin", "join", "close",
           "collect", "done"}
Reason == {"pending", "ok", "timeout", "nonzero_exit", "missing_response",
           "malformed_response_json", "envelope_schema_violation"}

Init ==
  /\ child = [k \in Run |-> "none"]
  /\ code = [k \in Run |-> 0]
  /\ group = [k \in Run |-> FALSE]
  /\ loose = [k \in Run |-> FALSE]
  /\ pipe = [k \in Run |-> <<>>]
  /\ sent = [k \in Run |-> <<>>]
  /\ stdin = [k \in Run |-> "ended"]
  /\ fdt = [n \in Fd |-> Free]
  /\ fd = [k \in Run |-> Free]
  /\ pump = [k \in Run |-> "none"]
  /\ at = [k \in Run |-> Free]
  /\ buf = [k \in Run |-> <<>>]
  /\ log = [k \in Run |-> <<>>]
  /\ cur = 1 /\ pc = "spawn" /\ timed = FALSE
  /\ expired = [k \in Run |-> FALSE]
  /\ result = [k \in Run |-> [reason |-> "pending", response |-> FALSE]]

-----------------------------------------------------------------------------
(* The supervised processes: anything a framework, a test or a setup       *)
(* command may do.                                                         *)

GroupEmpty(k) == child[k] # "running" /\ ~group[k]
Writers(k) == ~GroupEmpty(k) \/ loose[k]

\* Somebody can still read what is written to the pipe of k.
HasReader(k) == \/ \E n \in Fd : fdt[n] = k
                \/ \E j \in Run : pump[j] = "blocked" /\ at[j] = k

\* A write nobody can read ends the process (SIGPIPE or an exception).
Write(k, w) ==
  /\ child[k] = "running" /\ Len(sent[k]) < MaxWrites
  /\ IF HasReader(k)
       THEN /\ pipe' = [pipe EXCEPT ![k] = Append(@, [by |-> k, what |-> w])]
            /\ sent' = [sent EXCEPT ![k] = Append(@, w)]
            /\ UNCHANGED procs
       ELSE /\ child' = [child EXCEPT ![k] = "exited"]
            /\ code' = [code EXCEPT ![k] = 1]
            /\ UNCHANGED <<group, loose, pipe, sent>>
  /\ UNCHANGED <<stdin, pumps, harness>>

Exit(k, c) ==
  /\ child[k] = "running"
  /\ child' = [child EXCEPT ![k] = "exited"]
  /\ code' = [code EXCEPT ![k] = c]
  /\ UNCHANGED <<group, loose, pipes, pumps, harness>>

Fork(k) ==
  /\ child[k] = "running" /\ ~group[k]
  /\ group' = [group EXCEPT ![k] = TRUE]
  /\ UNCHANGED <<child, code, loose, pipes, pumps, harness>>

\* setsid: a descendant leaves the group with the pipes open.
Detach(k) ==
  /\ k \in MayDetach /\ ~GroupEmpty(k) /\ ~loose[k]
  /\ loose' = [loose EXCEPT ![k] = TRUE]
  /\ UNCHANGED <<child, code, group, pipes, pumps, harness>>

GroupEnds(k) ==
  /\ group[k]
  /\ group' = [group EXCEPT ![k] = FALSE]
  /\ UNCHANGED <<child, code, loose, pipes, pumps, harness>>

LooseEnds(k) ==
  /\ loose[k]
  /\ loose' = [loose EXCEPT ![k] = FALSE]
  /\ UNCHANGED <<child, code, group, pipes, pumps, harness>>

\* (Bounded to one write.)
LooseWrites(k) ==
  /\ loose[k] /\ HasReader(k)
  /\ \A s \in {pipe[k]} \cup {buf[j] : j \in Run} :
       \A i \in DOMAIN s : s[i] # [by |-> k, what |-> Late]
  /\ pipe' = [pipe EXCEPT ![k] = Append(@, [by |-> k, what |-> Late])]
  /\ UNCHANGED <<sent, stdin, procs, pumps, harness>>

\* The default action of SIGTERM, which any member may also ignore.
TermKills(k) ==
  /\ pc = "grace" /\ k = cur /\ child[k] = "running"
  /\ child' = [child EXCEPT ![k] = "killed"]
  /\ UNCHANGED <<code, group, loose, pipes, pumps, harness>>

Process(k) ==
  \/ \E w \in Emits : Write(k, w)
  \/ \E c \in {0, 1} : Exit(k, c)
  \/ Fork(k) \/ Detach(k) \/ GroupEnds(k) \/ LooseEnds(k) \/ LooseWrites(k)
  \/ TermKills(k)

-----------------------------------------------------------------------------
(* The threads of the harness.                                             *)

\* write_stdin: the request fits the pipe, is read, or nobody can read it.
StdinEnds(k) ==
  /\ stdin[k] = "writing"
  /\ stdin' = [stdin EXCEPT ![k] = "ended"]
  /\ UNCHANGED <<pipe, sent, procs, pumps, harness>>

\* _pump_capped: the next read, by number.
ReadBegin(k) ==
  /\ pump[k] = "loop"
  /\ IF fdt[fd[k]] = Free
       THEN pump' = [pump EXCEPT ![k] = "ended"] /\ UNCHANGED at
       ELSE /\ pump' = [pump EXCEPT ![k] = "blocked"]
            /\ at' = [at EXCEPT ![k] = fdt[fd[k]]]
  /\ UNCHANGED <<fdt, fd, buf, log, pipes, procs, harness>>

\* read(65536) goes on until it has that much, so what it read so far is in
\* no log yet.
ReadData(k) ==
  /\ pump[k] = "blocked" /\ pipe[at[k]] # <<>>
  /\ buf' = [buf EXCEPT ![k] = @ \o pipe[at[k]]]
  /\ pipe' = [pipe EXCEPT ![at[k]] = <<>>]
  /\ pump' = [pump EXCEPT ![k] = "loop"]
  /\ UNCHANGED <<fdt, fd, at, log, sent, stdin, procs, harness>>

\* Mutant: a pump that stops at the first pause of the output.
ReadEofEarly(k) ==
  /\ pump[k] = "blocked" /\ pipe[at[k]] = <<>>
  /\ log' = [log EXCEPT ![k] = buf[k]]
  /\ pump' = [pump EXCEPT ![k] = "ended"]
  /\ UNCHANGED <<fdt, fd, at, buf, pipes, procs, harness>>

\* End of file: every holder of the write end is gone.
ReadEof(k) ==
  /\ pump[k] = "blocked" /\ pipe[at[k]] = <<>> /\ ~Writers(at[k])
  /\ log' = [log EXCEPT ![k] = buf[k]]
  /\ pump' = [pump EXCEPT ![k] = "ended"]
  /\ UNCHANGED <<fdt, fd, at, buf, pipes, procs, harness>>

\* A pump that ended after run_cell returned held the last reference to the
\* Popen object; its stream closes the number again, whoever has it now.
Finalize(k) ==
  /\ pump[k] = "ended" /\ fd[k] # Free /\ (k # cur \/ pc = "done")
  /\ fdt' = [fdt EXCEPT ![fd[k]] = Free]
  /\ fd' = [fd EXCEPT ![k] = Free]
  /\ UNCHANGED <<pump, at, buf, log, pipes, procs, harness>>

Pump(k) == ReadBegin(k) \/ ReadData(k) \/ ReadEof(k) \/ Finalize(k)

-----------------------------------------------------------------------------
(* run_cell                                                                *)

\* subprocess.Popen, the lowest free number for the pipe, and the threads.
Spawn ==
  /\ pc = "spawn"
  /\ \E n \in Fd :
       /\ fdt[n] = Free /\ \A m \in 1 .. n - 1 : fdt[m] # Free
       /\ fdt' = [fdt EXCEPT ![n] = cur]
       /\ fd' = [fd EXCEPT ![cur] = n]
  /\ child' = [child EXCEPT ![cur] = "running"]
  /\ stdin' = [stdin EXCEPT ![cur] = "writing"]
  /\ pump' = [pump EXCEPT ![cur] = "loop"]
  /\ pc' = "wait" /\ timed' = FALSE
  /\ UNCHANGED <<code, group, loose, pipe, sent, at, buf, log, cur, expired, result>>

WaitReturns ==
  /\ pc = "wait" /\ child[cur] = "exited"
  /\ pc' = "term"
  /\ UNCHANGED <<cur, timed, expired, result, procs, pipes, pumps>>

\* TimeoutExpired, which may also win against an exit at the same time.
Deadline ==
  /\ pc = "wait"
  /\ pc' = "term" /\ timed' = TRUE
  /\ expired' = [expired EXCEPT ![cur] = TRUE]
  /\ UNCHANGED <<cur, result, procs, pipes, pumps>>

\* Where terminate_process_tree returns to.
AfterTerm == IF timed THEN "join" ELSE "stdin"

\* Mutant: a process that exited by itself is not followed by a killpg.
TermOnlyOnTimeout ==
  /\ pc = "term"
  /\ pc' = IF GroupEmpty(cur) \/ ~timed THEN AfterTerm ELSE "grace"
  /\ UNCHANGED <<cur, timed, expired, result, procs, pipes, pumps>>

\* killpg(SIGTERM), which finds no group when everybody is gone.
Term ==
  /\ pc = "term"
  /\ pc' = IF GroupEmpty(cur) THEN AfterTerm ELSE "grace"
  /\ UNCHANGED <<cur, timed, expired, result, procs, pipes, pumps>>

\* _wait_for_process_group_exit, until the group is empty or for grace_s.
GraceEnds ==
  /\ pc = "grace"
  /\ pc' = IF GroupEmpty(cur) THEN AfterTerm ELSE "kill"
  /\ UNCHANGED <<cur, timed, expired, result, procs, pipes, pumps>>

Kill ==
  /\ pc = "kill"
  /\ child' = [child EXCEPT ![cur] = IF @ = "running" THEN "killed" ELSE @]
  /\ group' = [group EXCEPT ![cur] = FALSE]
  /\ pc' = AfterTerm
  /\ UNCHANGED <<code, loose, cur, timed, expired, result, pipes, pumps>>

\* The writer of the request is joined first, when nothing timed out, but
\* not longer than the deadline.
JoinStdin ==
  /\ pc = "stdin"
  /\ \/ /\ stdin[cur] = "ended"
        /\ pc' = "join" /\ UNCHANGED <<timed, expired>>
     \/ /\ stdin[cur] = "writing"
        /\ pc' = "term" /\ timed' = TRUE
        /\ \/ loose[cur] /\ UNCHANGED expired
           \/ expired' = [expired EXCEPT ![cur] = TRUE]
  /\ UNCHANGED <<cur, result, procs, pipes, pumps>>

Stuck(k) ==
  \/ stdin[k] = "writing" /\ loose[k]
  \/ pump[k] = "blocked" /\ pipe[at[k]] = <<>> /\ Writers(at[k])

\* Mutant: the threads are joined without a bound.
JoinForever ==
  /\ pc = "join" /\ pump[cur] = "ended" /\ stdin[cur] = "ended"
  /\ pc' = "collect"
  /\ UNCHANGED <<cur, timed, expired, result, procs, pipes, pumps>>

\* Mutant: the pipes are closed while the pumps may still be busy.
JoinSkipsPumps ==
  /\ pc = "join" /\ pc' = "close"
  /\ UNCHANGED <<cur, timed, expired, result, procs, pipes, pumps>>

\* join_threads_bounded.
Join ==
  /\ pc = "join"
  /\ \/ /\ pump[cur] = "ended" /\ stdin[cur] = "ended"
        /\ pc' = "collect" /\ UNCHANGED timed
     \/ Stuck(cur) /\ pc' = "close" /\ timed' = TRUE
  /\ UNCHANGED <<cur, expired, result, procs, pipes, pumps>>

\* close_popen_pipes: the number is free although a read may be blocked.
Close ==
  /\ pc = "close"
  /\ fdt' = [fdt EXCEPT ![fd[cur]] = Free]
  /\ pc' = "collect"
  /\ UNCHANGED <<fd, pump, at, buf, log, cur, timed, expired, result, procs, pipes>>

-----------------------------------------------------------------------------
(* The verdict.                                                            *)

Whats(s) == [i \in DOMAIN s |-> s[i].what]

\* _parse_and_validate_stdout
Valid(s) == Whats(s) = <<"answer">>
Misfit(s) == Whats(s) = <<"misfit">>

\* Mutant: a valid answer is worth more than the exit status.
ClassifyByAnswer(k) ==
  CASE timed -> "timeout"
    [] ~timed /\ log[k] = <<>> -> "missing_response"
    [] ~timed /\ Valid(log[k]) -> "ok"
    [] ~timed /\ Misfit(log[k]) -> "envelope_schema_violation"
    [] OTHER -> "malformed_response_json"

\* _classify_error
Classify(k) ==
  CASE timed -> "timeout"
    [] ~timed /\ code[k] # 0 -> "nonzero_exit"
    [] ~timed /\ code[k] = 0 /\ log[k] = <<>> -> "missing_response"
    [] ~timed /\ code[k] = 0 /\ Valid(log[k]) -> "ok"
    [] ~timed /\ code[k] = 0 /\ Misfit(log[k]) -> "envelope_schema_violation"
    [] OTHER -> "malformed_response_json"

\* The result is recorded and run_cell returns; the Popen object goes with
\* it unless a pump still refers to it.
Collect ==
  /\ pc = "collect"
  /\ result' = [result EXCEPT ![cur] =
                  [reason |-> Classify(cur), response |-> Valid(log[cur])]]
  /\ IF pump[cur] = "ended"
       THEN /\ fdt' = [fdt EXCEPT ![fd[cur]] = Free]
            /\ fd' = [fd EXCEPT ![cur] = Free]
       ELSE UNCHANGED <<fdt, fd>>
  /\ IF cur = Runs THEN pc' = "done" /\ UNCHANGED cur
                   ELSE pc' = "spawn" /\ cur' = cur + 1
  /\ UNCHANGED <<timed, expired, procs, pipes, pump, at, buf, log>>

Harness ==
  \/ Spawn \/ WaitReturns \/ Deadline \/ Term \/ GraceEnds \/ Kill
  \/ JoinStdin \/ Join \/ Close \/ Collect

\* Everything has ended.
AllDone ==
  /\ pc = "done" /\ \A k \in Run : ~Writers(k) /\ fd[k] = Free
  /\ UNCHANGED vars

Next ==
  \/ Harness
  \/ \E k \in Run : Process(k) \/ Pump(k) \/ StdinEnds(k)
  \/ AllDone

Spec == Init /\ [][Next]_vars

\* Every wait of the harness has a timeout, no other step blocks, and its
\* threads are scheduled; nothing is assumed of the processes.
Fairness ==
  /\ WF_vars(Harness)
  /\ \A k \in Run : WF_vars(Pump(k)) /\ WF_vars(~Writers(k) /\ StdinEnds(k))

FairSpec == Spec /\ Fairness

-----------------------------------------------------------------------------
(* Properties                                                              *)

TypeOK ==
  /\ child \in [Run -> {"none", "running", "exited", "killed"}]
  /\ code \in [Run -> {0, 1}]
  /\ group \in [Run -> BOOLEAN] /\ loose \in [Run -> BOOLEAN]
  /\ pipe \in [Run -> Seq(Item)] /\ sent \in [Run -> Seq(Content)]
  /\ stdin \in [Run -> {"writing", "ended"}]
  /\ fdt \in [Fd -> Run \cup {Free}] /\ fd \in [Run -> Fd \cup {Free}]
  /\ pump \in [Run -> {"none", "loop", "blocked", "ended"}]
  /\ at \in [Run -> Run \cup {Free}]
  /\ buf \in [Run -> Seq(Item)] /\ log \in [Run -> Seq(Item)]
  /\ cur \in Run /\ pc \in Points
  /\ timed \in BOOLEAN /\ expired \in [Run -> BOOLEAN]
  /\ result \in [Run -> [reason : Reason, response : BOOLEAN]]

Recorded(k) == result[k].reason # "pending"

\* Once run_cell has returned nothing of the process group runs any more, so
\* nothing in it can touch the worktree that is diffed and tested next.
GroupGone == \A k \in Run : Recorded(k) => GroupEmpty(k)

\* run_cell has returned from k although descendants hold its pipes: it is
\* recorded as a timeout, and its pump may still be there.
PumpLeft(k) == k \in MayDetach /\ result[k].reason = "timeout"

\* No pump of an earlier run can be in the way of k.
Clear(k) == \A j \in 1 .. k - 1 : ~PumpLeft(j)

\* A run counts as ok only when its process exited 0 by itself before the
\* deadline and one valid answer is all it ever wrote; response.json is only
\* written from such an answer, also when the run timed out; what passed the
\* deadline is a timeout, and unless descendants hold the pipes nothing else.
VerdictTruthful ==
  \A k \in Run :
    /\ result[k].reason = "ok" =>
         child[k] = "exited" /\ code[k] = 0 /\ ~expired[k] /\ result[k].response
    /\ result[k].response /\ Clear(k) => sent[k] = <<"answer">>
    /\ result[k].reason = "timeout" => expired[k] \/ k \in MayDetach
    /\ Recorded(k) /\ expired[k] => result[k].reason = "timeout"

\* It answers once, exits 0 in time and leaves nobody behind that holds the
\* pipes.
Answers(k) ==
  /\ k \notin MayDetach /\ Recorded(k)
  /\ child[k] = "exited" /\ code[k] = 0 /\ sent[k] = <<"answer">> /\ ~expired[k]

\* And conversely: whoever answers is recorded as ok.
AnswerKept ==
  \A k \in Run : Answers(k) /\ Clear(k) =>
    result[k] = [reason |-> "ok", response |-> TRUE]

\* The same without regard to the runs before.
AnswerNeverLost ==
  \A k \in Run : Answers(k) => result[k] = [reason |-> "ok", response |-> TRUE]

\* No log holds what another run wrote, until run_cell has given up on its
\* pump.
NoForeignOutput ==
  \A k \in Run : ~PumpLeft(k) =>
    /\ \A i \in DOMAIN buf[k] : buf[k][i].by = k
    /\ \A i \in DOMAIN log[k] : log[k][i].by = k

\* stdout.log, which the pipeline parses again after run_cell, does not
\* change once the result is recorded.
LogFinal ==
  [][\A k \in Run : Recorded(k) /\ ~PumpLeft(k) => log'[k] = log[k]]_vars

\* Whatever the processes do - hang, ignore SIGTERM, hold the pipes - the
\* harness gets through all its runs.
Proceeds == <>(pc = "done")
=============================================================================
