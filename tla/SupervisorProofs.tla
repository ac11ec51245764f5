-------------------------- MODULE SupervisorProofs --------------------------
(***************************************************************************)
(* Proofs about the supervision of processes, for any number of runs and   *)
(* descriptors, whatever the processes write or do and whichever of them   *)
(* leave descendants behind.                                               *)
(***************************************************************************)
EXTENDS Supervisor, SequenceTheorems, TLAPS

-----------------------------------------------------------------------------
(* The inductive invariants.                                               *)

\* A pump that reads has something to read from.
ReadInv ==
  \A k \in Run :
    /\ pump[k] = "blocked" => at[k] \in Run
    /\ pump[k] \in {"loop", "blocked"} => fd[k] \in Fd

\* Runs are over, under way or yet to come.
Past(k) == k < cur \/ (k = cur /\ pc = "done")
Future(k) == k > cur \/ (k = cur /\ pc = "spawn")

ProcInv ==
  /\ \A k \in Run : Future(k) => child[k] = "none" /\ ~group[k]
  /\ \A k \in Run : Past(k) => GroupEmpty(k)
  /\ \A k \in Run : Recorded(k) => Past(k)
  /\ pc \in {"stdin", "join", "close", "collect"} => GroupEmpty(cur)

\* Only runs that may leave their group have anybody outside it.
LooseInv == \A k \in Run : loose[k] => k \in MayDetach /\ ~Future(k)

\* A pump reads the pipe of its own run, as long as that run is under way;
\* afterwards it has ended, unless run_cell has given up on it.  Only the run
\* under way has a pipe behind a descriptor.
Busy == pc \notin {"spawn", "done"}

PumpInv ==
  /\ \A k \in Run : Future(k) => pump[k] = "none" /\ fd[k] = Free
  /\ \A k \in Run : Past(k) /\ ~PumpLeft(k) => pump[k] = "ended" /\ fd[k] = Free
  /\ Busy => fd[cur] \in Fd /\ pump[cur] # "none"
  /\ Busy /\ pump[cur] = "blocked" => at[cur] = cur
  /\ \A n \in Fd : fdt[n] # Free => Busy /\ fdt[n] = cur /\ fd[cur] = n

\* Pipes are closed on a pump only when descendants hold them; a run with no
\* such pump before it keeps its descriptor until then.
CloseInv ==
  /\ pc = "close" => timed /\ cur \in MayDetach
  /\ pc = "collect" =>
       pump[cur] = "ended" \/ (timed /\ cur \in MayDetach /\ fdt[fd[cur]] = Free)
  /\ Busy /\ Clear(cur) /\ fdt[fd[cur]] = Free =>
       pc = "collect" /\ timed /\ cur \in MayDetach

\* Every byte is in the pipe or in the buffer of its pump, in order, maybe
\* with those of loose descendants between them.
Tagged(k, s) == [i \in DOMAIN s |-> [by |-> k, what |-> s[i]]]
Made(k) == Tagged(k, sent[k])
Stream(k) == buf[k] \o pipe[k]
Mixed(s) == \E i \in DOMAIN s : s[i].what = Late

StreamInv ==
  /\ \A k \in Run : Future(k) =>
       buf[k] = <<>> /\ pipe[k] = <<>> /\ log[k] = <<>> /\ sent[k] = <<>>
  /\ Busy /\ Clear(cur) =>
       Stream(cur) = Made(cur) \/ (cur \in MayDetach /\ Mixed(Stream(cur)))

\* A log is written once, when nobody can write to the pipe any more and all
\* of it has been read.
Final(k) == pump[k] = "ended" /\ log[k] = buf[k] /\ pipe[k] = <<>> /\ ~Writers(k)

LogInv ==
  Busy /\ Clear(cur) =>
    /\ log[cur] = <<>> \/ Final(cur)
    /\ pump[cur] = "ended" => Final(cur) \/ fdt[fd[cur]] = Free

\* What is in a pipe, a buffer or a log was written by its run.
By(k, s) == \A i \in DOMAIN s : s[i].by = k

TagInv ==
  \A k \in Run : /\ By(k, pipe[k])
                 /\ ~PumpLeft(k) => By(k, buf[k]) /\ By(k, log[k])

\* timed_out is about the deadline or about descendants that hold the pipes,
\* and without it the process has exited.
TimedInv ==
  /\ \A k \in Run : Future(k) => ~expired[k]
  /\ Busy => (expired[cur] => timed) /\ (timed => expired[cur] \/ cur \in MayDetach)
  /\ Busy /\ pc # "wait" /\ ~timed => child[cur] = "exited"

\* The result says what happened.
Truthful(k) ==
  /\ result[k].reason = "ok" =>
       child[k] = "exited" /\ code[k] = 0 /\ ~expired[k] /\ result[k].response
  /\ result[k].reason = "timeout" => expired[k] \/ k \in MayDetach
  /\ expired[k] => result[k].reason = "timeout"
  /\ Clear(k) /\ result[k].response => sent[k] = <<"answer">>
  /\ k \notin MayDetach =>
       /\ ~expired[k] /\ code[k] # 0 => result[k].reason = "nonzero_exit"
       /\ Clear(k) /\ sent[k] = <<"answer">> =>
            /\ result[k].response
            /\ ~expired[k] /\ code[k] = 0 => result[k].reason = "ok"

ResultInv ==
  \A k \in Run : /\ Past(k) => Truthful(k)
                 /\ ~Past(k) => ~Recorded(k) /\ ~result[k].response

-----------------------------------------------------------------------------
(* Type correctness.                                                       *)

LEMMA Facts ==
  /\ Runs \in Nat /\ Fds \in Nat /\ Runs # 0 /\ 1 \in Run
  /\ Run \subseteq Nat /\ Free \notin Run /\ Free \notin Fd
  /\ Emits \subseteq Content /\ MaxWrites \in Nat
  /\ \A k \in Run : k <= Runs /\ (k # Runs => k + 1 \in Run)
BY SupervisorAssumption DEF Run, Fd, Free

LEMMA WriteTypes ==
  ASSUME TypeOK, NEW k \in Run, NEW w \in Content \cup {Late}
  PROVE  /\ [pipe EXCEPT ![k] = Append(@, [by |-> k, what |-> w])] \in [Run -> Seq(Item)]
         /\ w \in Content => [sent EXCEPT ![k] = Append(@, w)] \in [Run -> Seq(Content)]
<1>1. [by |-> k, what |-> w] \in Item
  BY DEF Item
<1>2. pipe[k] \in Seq(Item) /\ sent[k] \in Seq(Content)
  BY DEF TypeOK
<1>3. Append(pipe[k], [by |-> k, what |-> w]) \in Seq(Item)
  BY <1>1, <1>2
<1>4. w \in Content => Append(sent[k], w) \in Seq(Content)
  BY <1>2
<1> QED
  BY <1>3, <1>4 DEF TypeOK

LEMMA TypeOKProcess ==
  ASSUME TypeOK, NEW k \in Run, Process(k)
  PROVE  TypeOK'
<1>1. ASSUME NEW w \in Emits, Write(k, w) PROVE TypeOK'
  <2>1. CASE HasReader(k)
    <3>1. w \in Content
      BY Facts
    <3>2. /\ pipe' = [pipe EXCEPT ![k] = Append(@, [by |-> k, what |-> w])]
          /\ sent' = [sent EXCEPT ![k] = Append(@, w)]
          /\ UNCHANGED <<procs, stdin, pumps, harness>>
      BY <1>1, <2>1 DEF Write
    <3>3. pipe' \in [Run -> Seq(Item)] /\ sent' \in [Run -> Seq(Content)]
      BY <3>1, <3>2, WriteTypes
    <3> QED
      BY <3>2, <3>3 DEF TypeOK, procs, pumps, harness
  <2>2. CASE ~HasReader(k)
    BY <1>1, <2>2 DEF Write, TypeOK, pumps, harness
  <2> QED
    BY <2>1, <2>2
<1>2. CASE LooseWrites(k)
  <2>1. Late \in Content \cup {Late}
    OBVIOUS
  <2> QED
    BY <1>2, <2>1, WriteTypes DEF LooseWrites, TypeOK, procs, pumps, harness
<1>3. CASE \E c \in {0, 1} : Exit(k, c)
  BY <1>3 DEF Exit, TypeOK, pipes, pumps, harness
<1>4. CASE Fork(k) \/ Detach(k) \/ GroupEnds(k) \/ LooseEnds(k)
  BY <1>4 DEF Fork, Detach, GroupEnds, LooseEnds, TypeOK, pipes, pumps, harness
<1>5. CASE TermKills(k)
  BY <1>5 DEF TermKills, TypeOK, pipes, pumps, harness
<1> QED
  BY <1>1, <1>2, <1>3, <1>4, <1>5 DEF Process

LEMMA TypeOKThread ==
  ASSUME TypeOK, ReadInv, NEW k \in Run, Pump(k) \/ StdinEnds(k)
  PROVE  TypeOK' /\ ReadInv'
<1>1. CASE StdinEnds(k)
  BY <1>1 DEF StdinEnds, TypeOK, ReadInv, procs, pumps, harness
<1>2. CASE ReadBegin(k)
  <2>1. fd[k] \in Fd /\ pump[k] = "loop"
    BY <1>2 DEF ReadBegin, ReadInv
  <2>2. fdt[fd[k]] \in Run \cup {Free}
    BY <2>1 DEF TypeOK
  <2>3. CASE fdt[fd[k]] = Free
    <3>1. /\ pump' = [pump EXCEPT ![k] = "ended"]
          /\ UNCHANGED <<at, fdt, fd, buf, log, pipes, procs, harness>>
      BY <1>2, <2>3 DEF ReadBegin
    <3> QED
      BY <2>1, <3>1 DEF TypeOK, ReadInv, procs, pipes, harness
  <2>4. CASE fdt[fd[k]] # Free
    <3>1. /\ pump' = [pump EXCEPT ![k] = "blocked"]
          /\ at' = [at EXCEPT ![k] = fdt[fd[k]]]
          /\ UNCHANGED <<fdt, fd, buf, log, pipes, procs, harness>>
      BY <1>2, <2>4 DEF ReadBegin
    <3>2. fdt[fd[k]] \in Run
      BY <2>2, <2>4
    <3>3. TypeOK'
      BY <3>1, <3>2 DEF TypeOK, procs, pipes, harness
    <3>4. /\ pump'[k] = "blocked" /\ at'[k] \in Run /\ fd'[k] \in Fd
          /\ \A j \in Run \ {k} : pump'[j] = pump[j] /\ at'[j] = at[j] /\ fd'[j] = fd[j]
      BY <2>1, <3>1, <3>2 DEF TypeOK
    <3>5. ReadInv'
      BY <3>4 DEF ReadInv
    <3> QED
      BY <3>3, <3>5
  <2> QED
    BY <2>3, <2>4
<1>3. CASE ReadData(k)
  <2>1. pump[k] = "blocked" /\ at[k] \in Run /\ fd[k] \in Fd \cup {Free}
    BY <1>3 DEF ReadData, ReadInv, TypeOK
  <2>2. buf[k] \o pipe[at[k]] \in Seq(Item) /\ <<>> \in Seq(Item)
    BY <2>1, ConcatProperties DEF TypeOK
  <2>3. buf' \in [Run -> Seq(Item)] /\ pipe' \in [Run -> Seq(Item)]
    BY <1>3, <2>1, <2>2 DEF ReadData, TypeOK
  <2>4. /\ pump' = [pump EXCEPT ![k] = "loop"]
        /\ UNCHANGED <<fdt, fd, at, log, sent, stdin, procs, harness>>
    BY <1>3 DEF ReadData
  <2>5. TypeOK'
    BY <2>3, <2>4 DEF TypeOK, procs, harness
  <2>6. fd[k] \in Fd
    BY <2>1 DEF ReadInv
  <2>7. /\ pump'[k] = "loop" /\ fd'[k] \in Fd
        /\ \A j \in Run \ {k} : pump'[j] = pump[j] /\ at'[j] = at[j] /\ fd'[j] = fd[j]
    BY <2>4, <2>6 DEF TypeOK
  <2>8. ReadInv'
    BY <2>7 DEF ReadInv
  <2> QED
    BY <2>5, <2>8
<1>4. CASE ReadEof(k)
  BY <1>4 DEF ReadEof, TypeOK, ReadInv, procs, pipes, harness
<1>5. CASE Finalize(k)
  BY <1>5 DEF Finalize, TypeOK, ReadInv, procs, pipes, harness
<1> QED
  BY <1>1, <1>2, <1>3, <1>4, <1>5 DEF Pump

LEMMA VerdictTypes ==
  ASSUME NEW k
  PROVE  /\ Classify(k) \in Reason /\ Classify(k) # "pending"
         /\ [reason |-> Classify(k), response |-> Valid(log[k])]
              \in [reason : Reason, response : BOOLEAN]
<1>1. Classify(k) \in Reason /\ Classify(k) # "pending"
  BY DEF Classify, Reason
<1>2. Valid(log[k]) \in BOOLEAN
  BY DEF Valid
<1> QED
  BY <1>1, <1>2

LEMMA TypeOKHarness ==
  ASSUME TypeOK, ReadInv, Harness
  PROVE  TypeOK' /\ ReadInv'
<1> USE DEF TypeOK, ReadInv, Points
<1>1. CASE Spawn
  <2>1. PICK n \in Fd : fdt' = [fdt EXCEPT ![n] = cur] /\ fd' = [fd EXCEPT ![cur] = n]
    BY <1>1 DEF Spawn
  <2>2. /\ child' = [child EXCEPT ![cur] = "running"]
        /\ stdin' = [stdin EXCEPT ![cur] = "writing"]
        /\ pump' = [pump EXCEPT ![cur] = "loop"]
        /\ pc' = "wait" /\ timed' = FALSE
        /\ UNCHANGED <<code, group, loose, pipe, sent, at, buf, log, cur, expired, result>>
    BY <1>1 DEF Spawn
  <2>3. /\ fdt' \in [Fd -> Run \cup {Free}] /\ fd' \in [Run -> Fd \cup {Free}]
        /\ fd'[cur] = n /\ \A k \in Run : k # cur => fd'[k] = fd[k]
    BY <2>1
  <2> QED
    BY <2>2, <2>3
<1>2. CASE WaitReturns
  BY <1>2 DEF WaitReturns, procs, pipes, pumps
<1>3. CASE Deadline
  BY <1>3 DEF Deadline, procs, pipes, pumps
<1>4. CASE Term
  BY <1>4 DEF Term, AfterTerm, procs, pipes, pumps
<1>5. CASE GraceEnds
  BY <1>5 DEF GraceEnds, AfterTerm, procs, pipes, pumps
<1>6. CASE Kill
  BY <1>6 DEF Kill, AfterTerm, pipes, pumps
<1>7. CASE JoinStdin
  BY <1>7 DEF JoinStdin, procs, pipes, pumps
<1>8. CASE Join
  BY <1>8 DEF Join, procs, pipes, pumps
<1>9. CASE Close
  BY <1>9 DEF Close, procs, pipes
<1>10. CASE Collect
  <2>1. result' \in [Run -> [reason : Reason, response : BOOLEAN]]
    <3> HIDE DEF ReadInv
    <3> DEFINE r == [reason |-> Classify(cur), response |-> Valid(log[cur])]
    <3>1. r \in [reason : Reason, response : BOOLEAN]
      BY VerdictTypes
    <3>2. result' = [result EXCEPT ![cur] = r]
      BY <1>10 DEF Collect
    <3> HIDE DEF r
    <3> QED
      BY <3>1, <3>2
  <2>2. /\ fdt' \in [Fd -> Run \cup {Free}] /\ fd' \in [Run -> Fd \cup {Free}]
        /\ \A k \in Run : fd'[k] = fd[k] \/ (k = cur /\ pump[k] = "ended")
    BY <1>10 DEF Collect
  <2>3. cur' \in Run /\ pc' \in {"done", "spawn"}
    BY <1>10, Facts DEF Collect
  <2> QED
    BY <1>10, <2>1, <2>2, <2>3 DEF Collect, procs, pipes
<1> QED
  BY <1>1, <1>2, <1>3, <1>4, <1>5, <1>6, <1>7, <1>8, <1>9, <1>10 DEF Harness

LEMMA TypeOKNext == TypeOK /\ ReadInv /\ [Next]_vars => TypeOK' /\ ReadInv'
<1> SUFFICES ASSUME TypeOK, ReadInv, [Next]_vars PROVE TypeOK' /\ ReadInv'
  OBVIOUS
<1>1. CASE UNCHANGED vars
  BY <1>1 DEF TypeOK, ReadInv, vars, procs, pipes, pumps, harness
<1>2. ASSUME NEW k \in Run, Process(k) PROVE ReadInv'
  <2>1. UNCHANGED pumps
    BY <1>2 DEF Process, Write, Exit, Fork, Detach, GroupEnds, LooseEnds, LooseWrites,
       TermKills
  <2> QED
    BY <2>1 DEF ReadInv, pumps
<1> QED
  BY <1>1, <1>2, TypeOKProcess, TypeOKThread, TypeOKHarness DEF Next, AllDone

LEMMA InitTypes == Init => TypeOK /\ ReadInv
<1> SUFFICES ASSUME Init PROVE TypeOK /\ ReadInv
  OBVIOUS
<1>1. \A S : <<>> \in Seq(S)
  OBVIOUS
<1>2. [k \in Run |-> [reason |-> "pending", response |-> FALSE]]
        \in [Run -> [reason : Reason, response : BOOLEAN]]
  BY DEF Reason
<1> QED
  BY <1>1, <1>2, Facts DEF Init, TypeOK, ReadInv, Points

LEMMA TypeInvariance == Spec => [](TypeOK /\ ReadInv)
BY InitTypes, TypeOKNext, PTL DEF Spec

\* Every read of a pump is on the pipe of some run.
THEOREM SupervisorTypeCorrect == Spec => []TypeOK
<1>1. TypeOK /\ ReadInv => TypeOK
  OBVIOUS
<1> QED
  BY <1>1, TypeInvariance, PTL

-----------------------------------------------------------------------------
(* What a returned run leaves behind.                                      *)

\* The dead stay dead: only a living process starts others.
LEMMA ProcessKeeps ==
  ASSUME TypeOK, NEW k \in Run, Process(k)
  PROVE  /\ UNCHANGED <<pumps, harness, stdin>>
         /\ \A j \in Run :
              /\ GroupEmpty(j) => GroupEmpty(j)'
              /\ child[j] = "none" /\ ~group[j] => child'[j] = "none" /\ ~group'[j]
              /\ child[j] # "running" => child'[j] = child[j] /\ code'[j] = code[j]
                                         /\ sent'[j] = sent[j]
              /\ child[j] = "running" => child'[j] # "none"
<1> USE DEF TypeOK, GroupEmpty
<1>1. ASSUME NEW w \in Emits, Write(k, w) PROVE child[k] = "running"
  BY <1>1 DEF Write
<1>2. ASSUME NEW w \in Emits, Write(k, w)
      PROVE  /\ UNCHANGED <<pumps, harness, stdin, group>>
             /\ \A j \in Run \ {k} : /\ child'[j] = child[j] /\ code'[j] = code[j]
                                     /\ sent'[j] = sent[j]
  BY <1>2 DEF Write, procs
<1>3. ASSUME NEW w \in Emits, Write(k, w) PROVE child'[k] \in {"running", "exited"}
  BY <1>3, <1>1 DEF Write, procs
<1>4. CASE \E c \in {0, 1} : Exit(k, c)
  BY <1>4 DEF Exit, pipes
<1>5. CASE Fork(k)
  BY <1>5 DEF Fork, pipes
<1>6. CASE Detach(k) \/ LooseEnds(k)
  BY <1>6 DEF Detach, LooseEnds, pipes
<1>7. CASE GroupEnds(k)
  BY <1>7 DEF GroupEnds, pipes
<1>8. CASE LooseWrites(k)
  BY <1>8 DEF LooseWrites, procs
<1>9. CASE TermKills(k)
  BY <1>9 DEF TermKills, pipes
<1> QED
  BY <1>1, <1>2, <1>3, <1>4, <1>5, <1>6, <1>7, <1>8, <1>9 DEF Process

\* The threads of the harness leave the processes alone.
LEMMA ThreadKeeps ==
  ASSUME NEW k \in Run, Pump(k) \/ StdinEnds(k)
  PROVE  UNCHANGED <<procs, harness, sent>>
BY DEF Pump, StdinEnds, ReadBegin, ReadData, ReadEof, Finalize, pipes

LEMMA ProcInvHarness ==
  ASSUME TypeOK, ProcInv, Harness
  PROVE  ProcInv'
<1> USE DEF ProcInv, TypeOK, Past, Future, GroupEmpty, Recorded
<1>0. cur \in Nat /\ Run \subseteq Nat
  BY Facts
<1>1. CASE Spawn
  <2>1. /\ child' = [child EXCEPT ![cur] = "running"] /\ pc = "spawn" /\ pc' = "wait"
        /\ UNCHANGED <<group, cur, result>>
    BY <1>1 DEF Spawn
  <2> QED
    BY <1>0, <2>1
<1>2. CASE WaitReturns \/ Deadline \/ JoinStdin \/ Join \/ Close
  <2>1. UNCHANGED <<child, group, cur, result>>
    BY <1>2 DEF WaitReturns, Deadline, JoinStdin, Join, Close, procs
  <2>2. /\ pc \notin {"spawn", "done"} /\ pc' \notin {"spawn", "done"}
        /\ pc' \in {"stdin", "join", "close", "collect"} =>
             pc \in {"stdin", "join", "close", "collect"}
    BY <1>2 DEF WaitReturns, Deadline, JoinStdin, Join, Close
  <2> QED
    BY <1>0, <2>1, <2>2
<1>3. CASE Term \/ GraceEnds
  <2>1. UNCHANGED <<child, group, cur, result>>
    BY <1>3 DEF Term, GraceEnds, procs
  <2>2. /\ pc \notin {"spawn", "done"} /\ pc' \notin {"spawn", "done"}
        /\ pc' \in {"stdin", "join", "close", "collect"} => GroupEmpty(cur)
    BY <1>3 DEF Term, GraceEnds, AfterTerm
  <2> QED
    BY <1>0, <2>1, <2>2
<1>4. CASE Kill
  <2>1. /\ pc = "kill" /\ pc' \notin {"spawn", "done"} /\ UNCHANGED <<cur, result>>
        /\ group' = [group EXCEPT ![cur] = FALSE]
        /\ child' = [child EXCEPT ![cur] = IF @ = "running" THEN "killed" ELSE @]
    BY <1>4 DEF Kill, AfterTerm
  <2> QED
    BY <1>0, <2>1
<1>5. CASE Collect
  <2>1. /\ pc = "collect" /\ UNCHANGED <<child, group>>
        /\ \A k \in Run : k # cur => result'[k] = result[k]
    BY <1>5 DEF Collect, procs
  <2>2. \/ cur = Runs /\ pc' = "done" /\ cur' = cur
        \/ cur # Runs /\ pc' = "spawn" /\ cur' = cur + 1
    BY <1>5 DEF Collect
  <2>3. \A k \in Run : /\ Past(k)' <=> Past(k) \/ k = cur
                       /\ Future(k)' => Future(k)
    <3> HIDE DEF ProcInv, TypeOK
    <3>1. \A k \in Run : k \in Nat /\ k <= Runs
      BY Facts
    <3>2. CASE cur = Runs /\ pc' = "done" /\ cur' = cur
      BY <1>0, <2>1, <3>1, <3>2
    <3>3. CASE pc' = "spawn" /\ cur' = cur + 1
      BY <1>0, <2>1, <3>1, <3>3
    <3> QED
      BY <2>2, <3>2, <3>3
  <2>4. \A k \in Run : /\ GroupEmpty(k)' <=> GroupEmpty(k)
                       /\ k # cur => (Recorded(k)' <=> Recorded(k))
    BY <2>1
  <2>5. pc' \notin {"stdin", "join", "close", "collect"} /\ GroupEmpty(cur)
    BY <2>1, <2>2
  <2> HIDE DEF Past, Future, GroupEmpty, Recorded
  <2> QED
    BY <2>1, <2>3, <2>4, <2>5
<1> QED
  BY <1>1, <1>2, <1>3, <1>4, <1>5 DEF Harness

LEMMA ProcInvNext == TypeOK /\ ProcInv /\ [Next]_vars => ProcInv'
<1> SUFFICES ASSUME TypeOK, ProcInv, [Next]_vars PROVE ProcInv'
  OBVIOUS
<1>1. CASE UNCHANGED vars
  BY <1>1 DEF ProcInv, GroupEmpty, Past, Future, Recorded, vars, procs, harness
<1>2. ASSUME NEW k \in Run, Process(k) PROVE ProcInv'
  <2>1. UNCHANGED <<cur, pc, result>>
    BY <1>2, ProcessKeeps DEF harness
  <2>2. \A j \in Run :
          /\ GroupEmpty(j) => GroupEmpty(j)'
          /\ child[j] = "none" /\ ~group[j] => child'[j] = "none" /\ ~group'[j]
    BY <1>2, ProcessKeeps
  <2>3. \A j \in Run : /\ Past(j)' <=> Past(j)
                       /\ Future(j)' <=> Future(j)
                       /\ Recorded(j)' <=> Recorded(j)
    BY <2>1 DEF Past, Future, Recorded
  <2>4. GroupEmpty(cur) => GroupEmpty(cur)'
    BY <2>1, <2>2 DEF TypeOK, GroupEmpty
  <2> QED
    BY <2>1, <2>2, <2>3, <2>4 DEF ProcInv
<1>3. ASSUME NEW k \in Run, Pump(k) \/ StdinEnds(k) PROVE ProcInv'
  BY <1>3, ThreadKeeps DEF ProcInv, GroupEmpty, Past, Future, Recorded, procs, harness
<1> QED
  BY <1>1, <1>2, <1>3, ProcInvHarness DEF Next, AllDone

LEMMA ProcInvariance == Spec => []ProcInv
<1>1. Init => ProcInv
  <2> SUFFICES ASSUME Init PROVE ProcInv
    OBVIOUS
  <2>1. \A k \in Run : k >= 1
    BY SupervisorAssumption DEF Run
  <2> QED
    BY <2>1, Facts DEF Init, ProcInv, Past, Future, GroupEmpty, Recorded
<1> QED
  BY <1>1, ProcInvNext, TypeInvariance, PTL DEF Spec

\* However a run ends, nothing of its process group is alive once run_cell
\* has returned.
THEOREM SupervisorGroupGone == Spec => []GroupGone
<1>1. ProcInv => GroupGone
  BY DEF ProcInv, GroupGone
<1> QED
  BY <1>1, ProcInvariance, PTL

-----------------------------------------------------------------------------
(* Runs that are over, under way and yet to come.                          *)

LEMMA Phases ==
  ASSUME TypeOK, NEW k \in Run
  PROVE  /\ Past(k) \/ Future(k) \/ (k = cur /\ Busy)
         /\ ~(Past(k) /\ Future(k))
         /\ k = cur /\ Busy => ~Past(k) /\ ~Future(k)
         /\ Past(k) /\ Busy => k \in 1 .. cur - 1
BY Facts DEF TypeOK, Past, Future, Busy, Run

LEMMA ClearOf ==
  ASSUME TypeOK, Busy, Clear(cur), NEW k \in Run, Past(k)
  PROVE  ~PumpLeft(k)
BY Phases DEF Clear

\* The steps of run_cell between two other invariants' concerns.
Watch == WaitReturns \/ Deadline \/ Term \/ GraceEnds \/ Kill \/ JoinStdin

LEMMA WatchKeeps ==
  ASSUME Watch
  PROVE  /\ UNCHANGED <<cur, result, loose, pumps, pipe, sent>> /\ Busy /\ Busy'
         /\ {pc, pc'} \cap {"close", "collect"} = {}
BY DEF Watch, WaitReturns, Deadline, Term, GraceEnds, Kill, JoinStdin, AfterTerm, procs, pipes,
   Busy

LEMMA Harnesses == Harness <=> Spawn \/ Watch \/ Join \/ Close \/ Collect
BY DEF Harness, Watch

\* run_cell only moves on, and never touches a result it has recorded.
LEMMA HarnessMoves ==
  ASSUME TypeOK, ProcInv, Harness
  PROVE  /\ \A k \in Run : /\ Future(k)' => Future(k)
                           /\ Past(k) => Past(k)' /\ result'[k] = result[k]
                           /\ Past(k)' => Past(k) \/ (k = cur /\ Collect)
                           /\ PumpLeft(k) => PumpLeft(k)'
         /\ Busy' => cur' = cur /\ UNCHANGED result /\ (Clear(cur)' <=> Clear(cur))
         /\ Busy' => Busy \/ Spawn
<1>0. cur \in Run /\ \A k \in Run : k \in Nat /\ k <= Runs
  BY Facts DEF TypeOK
<1>1. CASE Spawn \/ Watch \/ Join \/ Close
  <2>1. UNCHANGED <<cur, result>> /\ pc # "done" /\ Busy' /\ (Busy \/ Spawn)
    BY <1>1, WatchKeeps DEF Spawn, Join, Close, Busy
  <2>2. Clear(cur)' <=> Clear(cur)
    BY <2>1 DEF Clear, PumpLeft
  <2> QED
    BY <2>1, <2>2 DEF Past, Future, PumpLeft, Busy
<1>2. CASE Collect
  <2>1. /\ pc = "collect" /\ \A k \in Run \ {cur} : result'[k] = result[k]
        /\ \/ cur = Runs /\ pc' = "done" /\ cur' = cur
           \/ pc' = "spawn" /\ cur' = cur + 1
    BY <1>2 DEF Collect, TypeOK
  <2>2. ~Past(cur)
    BY <1>0, <2>1 DEF Past
  <2>3. result[cur].reason = "pending"
    BY <1>0, <2>2 DEF ProcInv, Recorded
  <2>4. \A k \in Run : PumpLeft(k) => PumpLeft(k)'
    BY <2>1, <2>3 DEF PumpLeft
  <2>5. \A k \in Run : /\ Future(k)' => Future(k)
                       /\ Past(k) => Past(k)'
                       /\ Past(k)' => Past(k) \/ k = cur
    <3>1. CASE cur = Runs /\ pc' = "done" /\ cur' = cur
      BY <1>0, <2>1, <3>1 DEF Past, Future
    <3>2. CASE pc' = "spawn" /\ cur' = cur + 1
      BY <1>0, <2>1, <3>2 DEF Past, Future
    <3> QED
      BY <2>1, <3>1, <3>2
  <2> QED
    BY <1>2, <2>1, <2>2, <2>4, <2>5 DEF Busy
<1> QED
  BY <1>1, <1>2, Harnesses

LEMMA LooseInvNext == TypeOK /\ ProcInv /\ LooseInv /\ [Next]_vars => LooseInv'
<1> SUFFICES ASSUME TypeOK, ProcInv, LooseInv, [Next]_vars PROVE LooseInv'
  OBVIOUS
<1>1. CASE UNCHANGED vars
  BY <1>1 DEF LooseInv, Future, vars, procs, harness
<1>2. ASSUME NEW k \in Run, Process(k) PROVE LooseInv'
  <2>1. UNCHANGED harness
    BY <1>2, ProcessKeeps
  <2>2. \A j \in Run : loose'[j] => loose[j] \/ (j = k /\ Detach(k))
    BY <1>2 DEF Process, Write, Exit, Fork, GroupEnds, LooseEnds, LooseWrites, TermKills,
       Detach, TypeOK, procs
  <2>3. Detach(k) => k \in MayDetach /\ ~Future(k)
    BY DEF Detach, ProcInv, GroupEmpty
  <2> QED
    BY <2>1, <2>2, <2>3 DEF LooseInv, Future, harness
<1>3. ASSUME NEW k \in Run, Pump(k) \/ StdinEnds(k) PROVE LooseInv'
  BY <1>3, ThreadKeeps DEF LooseInv, Future, procs, harness
<1>4. CASE Harness
  <2>1. UNCHANGED loose
    BY <1>4, Harnesses, WatchKeeps DEF Spawn, Join, Close, Collect, procs
  <2> QED
    BY <1>4, <2>1, HarnessMoves DEF LooseInv
<1> QED
  BY <1>1, <1>2, <1>3, <1>4 DEF Next, AllDone

-----------------------------------------------------------------------------
(* Pumps and descriptors.                                                  *)

\* A pump that reads is that of the run under way, and on its pipe, or one
\* that run_cell has given up on.
LEMMA PumpReads ==
  ASSUME TypeOK, PumpInv, NEW k \in Run, pump[k] \in {"loop", "blocked"}
  PROVE  /\ \/ k = cur /\ Busy
            \/ Past(k) /\ PumpLeft(k)
         /\ k = cur /\ Busy => fd[k] \in Fd /\ (pump[k] = "blocked" => at[k] = k)
BY Phases DEF PumpInv

\* So with no such pump before the run under way, its own is the only one.
LEMMA OnlyPump ==
  ASSUME TypeOK, PumpInv, Busy, Clear(cur), NEW k \in Run,
         pump[k] \in {"loop", "blocked"} \/ (k # cur /\ fd[k] # Free)
  PROVE  k = cur /\ (pump[k] = "blocked" => at[k] = k)
<1>1. CASE pump[k] \in {"loop", "blocked"}
  BY <1>1, PumpReads, ClearOf
<1>2. CASE k # cur /\ fd[k] # Free
  BY <1>2, Phases, ClearOf DEF PumpInv
<1> QED
  BY <1>1, <1>2

\* A step of a pump that was reading.
LEMMA PumpInvRead ==
  ASSUME TypeOK, PumpInv, NEW k \in Run, pump[k] \in {"loop", "blocked"},
         UNCHANGED <<fdt, fd, harness>>, pump'[k] # "none",
         \A j \in Run \ {k} : pump'[j] = pump[j] /\ at'[j] = at[j],
         k = cur /\ Busy /\ pump'[k] = "blocked" => at'[k] = k
  PROVE  PumpInv'
<1>1. ~Future(k) /\ (Past(k) => PumpLeft(k))
  BY Phases DEF PumpInv
<1>2. UNCHANGED <<cur, pc, result>>
  BY DEF harness
<1>3. \A j \in Run : /\ Future(j)' <=> Future(j)
                     /\ Past(j)' <=> Past(j)
                     /\ PumpLeft(j)' <=> PumpLeft(j)
  BY <1>2 DEF Future, Past, PumpLeft
<1>4. cur \in Run
  BY DEF TypeOK
<1>5. Busy' => fd'[cur] \in Fd /\ pump'[cur] # "none"
  BY <1>2, <1>4 DEF PumpInv, Busy
<1>6. Busy' /\ pump'[cur] = "blocked" => at'[cur] = cur
  BY <1>2, <1>4 DEF PumpInv, Busy
<1>7. \A n \in Fd : fdt'[n] # Free => Busy' /\ fdt'[n] = cur /\ fd'[cur] = n
  BY <1>2 DEF PumpInv, Busy
<1> QED
  BY <1>1, <1>2, <1>3, <1>5, <1>6, <1>7 DEF PumpInv

LEMMA PumpInvThread ==
  ASSUME TypeOK, PumpInv, NEW k \in Run, Pump(k) \/ StdinEnds(k)
  PROVE  PumpInv'
<1>0. UNCHANGED harness
  BY ThreadKeeps
<1>1. CASE StdinEnds(k)
  BY <1>0, <1>1 DEF StdinEnds, PumpInv, Past, Future, PumpLeft, Busy, harness, pumps
<1>2. CASE ReadBegin(k)
  <2>1. k = cur /\ Busy /\ fdt[fd[k]] # Free => fdt[fd[k]] = k
    BY <1>2, PumpReads DEF ReadBegin, PumpInv
  <2>2. /\ pump[k] = "loop" /\ pump'[k] \in {"blocked", "ended"} /\ UNCHANGED <<fdt, fd>>
        /\ \A j \in Run \ {k} : pump'[j] = pump[j] /\ at'[j] = at[j]
        /\ pump'[k] = "blocked" => fdt[fd[k]] # Free /\ at'[k] = fdt[fd[k]]
    BY <1>2 DEF ReadBegin, TypeOK
  <2> QED
    BY <1>0, <2>1, <2>2, PumpInvRead
<1>3. CASE ReadData(k) \/ ReadEof(k)
  <2>1. /\ pump[k] = "blocked" /\ pump'[k] \in {"loop", "ended"} /\ UNCHANGED <<fdt, fd, at>>
        /\ \A j \in Run \ {k} : pump'[j] = pump[j]
    BY <1>3 DEF ReadData, ReadEof, TypeOK
  <2> QED
    BY <1>0, <2>1, PumpInvRead
<1>4. CASE Finalize(k)
  <2>1. /\ pump[k] = "ended" /\ fd[k] \in Fd /\ (Busy => k # cur)
        /\ fdt' = [fdt EXCEPT ![fd[k]] = Free] /\ fd' = [fd EXCEPT ![k] = Free]
        /\ UNCHANGED <<pump, at>>
    BY <1>4 DEF Finalize, TypeOK, Busy
  <2>2. /\ \A j \in Run \ {k} : fd'[j] = fd[j]
        /\ fd'[k] = Free
        /\ \A n \in Fd : fdt'[n] # Free => fdt'[n] = fdt[n]
    BY <2>1 DEF TypeOK
  <2>3. cur \in Run /\ UNCHANGED <<cur, pc, result>>
    BY <1>0 DEF TypeOK, harness
  <2>4. \A j \in Run : /\ Future(j)' <=> Future(j)
                       /\ Past(j)' <=> Past(j)
                       /\ PumpLeft(j)' <=> PumpLeft(j)
    BY <2>3 DEF Future, Past, PumpLeft
  <2>5. Busy' <=> Busy
    BY <2>3 DEF Busy
  <2> QED
    BY <2>1, <2>2, <2>3, <2>4, <2>5 DEF PumpInv
<1> QED
  BY <1>1, <1>2, <1>3, <1>4 DEF Pump

LEMMA PumpInvHarness ==
  ASSUME TypeOK, ProcInv, PumpInv, CloseInv, Harness
  PROVE  PumpInv'
<1>0. cur \in Run /\ cur # Free
  BY Facts DEF TypeOK
<1>1. CASE Spawn
  <2>1. PICK n \in Fd : fdt' = [fdt EXCEPT ![n] = cur] /\ fd' = [fd EXCEPT ![cur] = n]
    BY <1>1 DEF Spawn
  <2>2. /\ pump' = [pump EXCEPT ![cur] = "loop"] /\ ~Busy /\ Busy'
        /\ UNCHANGED <<cur, result, at>>
    BY <1>1 DEF Spawn, Busy
  <2>3. \A i \in Fd : fdt[i] = Free
    BY <2>2 DEF PumpInv
  <2>4. /\ fdt'[n] = cur /\ fd'[cur] = n /\ pump'[cur] = "loop"
        /\ \A i \in Fd \ {n} : fdt'[i] = Free
        /\ \A j \in Run \ {cur} : fd'[j] = fd[j] /\ pump'[j] = pump[j]
    BY <1>0, <2>1, <2>2, <2>3 DEF TypeOK
  <2>5. \A j \in Run : /\ Past(j)' => Past(j) /\ j # cur
                       /\ Future(j)' => Future(j) /\ j # cur
                       /\ PumpLeft(j)' <=> PumpLeft(j)
    BY <1>0, <1>1, <2>2, Facts DEF Spawn, Past, Future, PumpLeft
  <2> QED
    BY <1>0, <2>2, <2>4, <2>5 DEF PumpInv
<1>2. CASE Watch
  <2>1. UNCHANGED <<cur, result, pumps>> /\ Busy /\ Busy'
    BY <1>2, WatchKeeps
  <2> QED
    BY <2>1 DEF PumpInv, Past, Future, PumpLeft, Busy, pumps
<1>3. CASE Join
  <2>1. UNCHANGED <<cur, result, pumps>> /\ Busy /\ Busy'
    BY <1>3 DEF Join, Busy
  <2> QED
    BY <2>1 DEF PumpInv, Past, Future, PumpLeft, Busy, pumps
<1>4. CASE Close
  <2>1. /\ UNCHANGED <<cur, result, fd, pump, at>> /\ Busy /\ Busy'
        /\ fdt' = [fdt EXCEPT ![fd[cur]] = Free]
    BY <1>4 DEF Close, Busy
  <2>2. \A n \in Fd : fdt'[n] # Free => fdt'[n] = fdt[n]
    BY <2>1 DEF TypeOK
  <2> QED
    BY <2>1, <2>2 DEF PumpInv, Past, Future, PumpLeft, Busy
<1>5. CASE Collect
  <2>1. /\ Busy /\ ~Busy' /\ pc = "collect" /\ fd[cur] \in Fd /\ UNCHANGED <<pump, at>>
    BY <1>5 DEF Collect, PumpInv, Busy
  <2>2. \A j \in Run \ {cur} : fd'[j] = fd[j]
    BY <1>5 DEF Collect, TypeOK
  <2>3. ASSUME pump[cur] = "ended"
        PROVE  fd'[cur] = Free /\ \A n \in Fd : fdt'[n] = Free
    <3>1. fdt' = [fdt EXCEPT ![fd[cur]] = Free] /\ fd' = [fd EXCEPT ![cur] = Free]
      BY <1>5, <2>3 DEF Collect
    <3>2. fd'[cur] = Free /\ \A n \in Fd : fdt'[n] = IF n = fd[cur] THEN Free ELSE fdt[n]
      BY <1>0, <3>1 DEF TypeOK
    <3>3. \A n \in Fd : n # fd[cur] => fdt[n] = Free
      BY DEF PumpInv
    <3> QED
      BY <3>2, <3>3
  <2>4. ASSUME pump[cur] # "ended"
        PROVE  /\ \A j \in Run : j = cur => PumpLeft(j)'
               /\ \A n \in Fd : fdt'[n] = Free
    <3>1. timed /\ cur \in MayDetach /\ UNCHANGED <<fdt, fd>>
      BY <1>5, <2>1, <2>4 DEF CloseInv, Collect
    <3>2. Classify(cur) = "timeout"
      BY <3>1 DEF Classify
    <3>3. result'[cur].reason = Classify(cur)
      BY <1>0, <1>5 DEF Collect, TypeOK
    <3>4. fdt[fd[cur]] = Free
      BY <2>1, <2>4, <3>1 DEF CloseInv
    <3>5. \A n \in Fd : fdt[n] = Free
      BY <3>4 DEF PumpInv
    <3> QED
      BY <1>0, <3>1, <3>2, <3>3, <3>5 DEF PumpLeft
  <2>5. \A j \in Run : /\ Future(j)' => Future(j) /\ j # cur
                       /\ Past(j)' => Past(j) \/ j = cur
                       /\ PumpLeft(j) => PumpLeft(j)'
    <3>1. cur' \in Run
      BY <1>0, <1>5, Facts DEF Collect
    <3>2. ~Future(cur)
      BY <1>0, <2>1, Phases
    <3> QED
      BY <1>5, <3>2, HarnessMoves
  <2>6. \A j \in Run : Future(j)' => pump'[j] = "none" /\ fd'[j] = Free
    BY <2>1, <2>2, <2>5 DEF PumpInv
  <2>7. \A j \in Run : Past(j)' /\ ~PumpLeft(j)' => pump'[j] = "ended" /\ fd'[j] = Free
    <3> SUFFICES ASSUME NEW j \in Run, Past(j)', ~PumpLeft(j)'
                 PROVE  pump'[j] = "ended" /\ fd'[j] = Free
      OBVIOUS
    <3>1. CASE j = cur
      BY <2>1, <2>3, <2>4, <3>1
    <3>2. CASE j # cur
      BY <2>1, <2>2, <2>5, <3>2 DEF PumpInv
    <3> QED
      BY <3>1, <3>2
  <2> QED
    BY <2>1, <2>3, <2>4, <2>6, <2>7 DEF PumpInv
<1> QED
  BY <1>1, <1>2, <1>3, <1>4, <1>5, Harnesses

LEMMA PumpInvNext ==
  TypeOK /\ ProcInv /\ PumpInv /\ CloseInv /\ [Next]_vars => PumpInv'
<1> SUFFICES ASSUME TypeOK, ProcInv, PumpInv, CloseInv, [Next]_vars PROVE PumpInv'
  OBVIOUS
<1> DEFINE Still == UNCHANGED <<pumps, harness>> => PumpInv'
<1>1. Still
  BY DEF PumpInv, Past, Future, PumpLeft, Busy, pumps, harness
<1>2. ASSUME NEW k \in Run, Process(k) PROVE PumpInv'
  BY <1>1, <1>2, ProcessKeeps
<1> QED
  BY <1>1, <1>2, PumpInvThread, PumpInvHarness DEF Next, AllDone, vars

\* Whoever is stuck at the end waits for descendants outside the group.
LEMMA StuckIsLoose ==
  ASSUME TypeOK, ProcInv, LooseInv, PumpInv, pc = "join", Stuck(cur)
  PROVE  cur \in MayDetach
<1>1. cur \in Run /\ GroupEmpty(cur) /\ Busy
  BY DEF TypeOK, ProcInv, Busy
<1>2. loose[cur]
  BY <1>1 DEF Stuck, Writers, PumpInv
<1> QED
  BY <1>1, <1>2 DEF LooseInv

LEMMA CloseInvNext ==
  TypeOK /\ ProcInv /\ LooseInv /\ PumpInv /\ CloseInv /\ [Next]_vars => CloseInv'
<1> SUFFICES ASSUME TypeOK, ProcInv, LooseInv, PumpInv, CloseInv, [Next]_vars
             PROVE  CloseInv'
  OBVIOUS
<1>0. cur \in Run /\ cur # Free
  BY Facts DEF TypeOK
<1>1. ASSUME UNCHANGED <<pumps, harness>> PROVE CloseInv'
  BY <1>1 DEF CloseInv, Clear, PumpLeft, Busy, pumps, harness
<1>2. ASSUME NEW k \in Run, Process(k) PROVE CloseInv'
  BY <1>1, <1>2, ProcessKeeps
<1>3. ASSUME NEW k \in Run, Pump(k) \/ StdinEnds(k) PROVE CloseInv'
  <2>0. UNCHANGED harness
    BY <1>3, ThreadKeeps
  <2>1. pump[cur] = "ended" => pump'[cur] = "ended"
    BY <1>0, <1>3 DEF Pump, StdinEnds, ReadBegin, ReadData, ReadEof, Finalize, TypeOK, pumps
  <2>2. CASE UNCHANGED <<fdt, fd>>
    BY <2>0, <2>1, <2>2 DEF CloseInv, Clear, PumpLeft, Busy, harness
  <2>3. CASE Finalize(k)
    <3>1. /\ fd[k] # Free /\ (Busy => k # cur) /\ fd' = [fd EXCEPT ![k] = Free]
          /\ fdt' = [fdt EXCEPT ![fd[k]] = Free]
      BY <2>3 DEF Finalize, Busy
    <3>2. Busy => ~Clear(cur)
      BY <3>1, OnlyPump
    <3>3. Busy => fd'[cur] = fd[cur] /\ fd[cur] \in Fd
      BY <1>0, <3>1 DEF TypeOK, PumpInv
    <3>4. \A n \in Fd : fdt[n] = Free => fdt'[n] = Free
      BY <3>1 DEF TypeOK
    <3>5. pc = "collect" => Busy
      BY DEF Busy
    <3>6. /\ Busy' <=> Busy
          /\ Clear(cur)' <=> Clear(cur)
          /\ UNCHANGED <<cur, pc, timed>>
      BY <2>0 DEF Busy, Clear, PumpLeft, harness
    <3> QED
      BY <2>1, <3>2, <3>3, <3>4, <3>5, <3>6 DEF CloseInv
  <2>4. UNCHANGED <<fdt, fd>> \/ Finalize(k)
    BY <1>3 DEF Pump, StdinEnds, ReadBegin, ReadData, ReadEof, pumps
  <2> QED
    BY <2>2, <2>3, <2>4
<1>4. CASE Spawn
  <2>1. PICK n \in Fd : fdt' = [fdt EXCEPT ![n] = cur] /\ fd' = [fd EXCEPT ![cur] = n]
    BY <1>4 DEF Spawn
  <2>2. pc' = "wait" /\ cur' = cur
    BY <1>4 DEF Spawn
  <2>3. fdt'[fd'[cur]] = cur
    BY <1>0, <2>1 DEF TypeOK
  <2> QED
    BY <1>0, <2>2, <2>3 DEF CloseInv
<1>5. CASE Watch
  <2>1. /\ UNCHANGED <<cur, result, pumps>> /\ Busy /\ Busy'
        /\ {pc, pc'} \cap {"close", "collect"} = {}
    BY <1>5, WatchKeeps
  <2>2. pc # "collect" /\ pc' \notin {"close", "collect"} /\ (Clear(cur)' <=> Clear(cur))
    BY <2>1 DEF Clear, PumpLeft
  <2> QED
    BY <2>1, <2>2 DEF CloseInv, pumps
<1>6. CASE Join
  <2>1. /\ pc = "join" /\ UNCHANGED <<cur, result, pumps>> /\ Busy
        /\ \/ pump[cur] = "ended" /\ pc' = "collect"
           \/ Stuck(cur) /\ pc' = "close" /\ timed' = TRUE
    BY <1>6 DEF Join, Busy
  <2>2. Clear(cur)' <=> Clear(cur)
    BY <2>1 DEF Clear, PumpLeft
  <2>3. Clear(cur) => fdt[fd[cur]] # Free
    BY <2>1 DEF CloseInv
  <2>4. pc' = "close" => cur \in MayDetach
    BY <2>1, StuckIsLoose
  <2> QED
    BY <2>1, <2>2, <2>3, <2>4 DEF CloseInv, pumps
<1>7. CASE Close
  <2>1. /\ pc = "close" /\ pc' = "collect" /\ UNCHANGED <<cur, timed, fd>>
        /\ fdt' = [fdt EXCEPT ![fd[cur]] = Free] /\ fd[cur] \in Fd
    BY <1>7 DEF Close, PumpInv, Busy
  <2>2. fdt'[fd'[cur]] = Free
    BY <2>1 DEF TypeOK
  <2> QED
    BY <2>1, <2>2 DEF CloseInv
<1>8. CASE Collect
  BY <1>8 DEF Collect, CloseInv, Busy
<1> QED
  BY <1>1, <1>2, <1>3, <1>4, <1>5, <1>6, <1>7, <1>8, Harnesses DEF Next, AllDone, vars

-----------------------------------------------------------------------------
(* The output.                                                             *)

LEMMA ConcatAppend ==
  ASSUME NEW s \in Seq(Item), NEW t \in Seq(Item), NEW e \in Item
  PROVE  s \o Append(t, e) = Append(s \o t, e)
<1> DEFINE u == s \o t
<1>1. Append(t, e) = t \o <<e>>
  BY AppendIsConcat
<1>2. s \o (t \o <<e>>) = u \o <<e>>
  <2>1. <<e>> \in Seq(Item)
    OBVIOUS
  <2> QED
    BY <2>1, ConcatAssociative
<1>3. u \in Seq(Item)
  BY ConcatProperties
<1> HIDE DEF u
<1>4. Append(u, e) = u \o <<e>>
  BY <1>3, AppendIsConcat
<1> QED
  BY <1>1, <1>2, <1>4 DEF u

LEMMA TaggedProperties ==
  ASSUME NEW k \in Run, NEW s \in Seq(Content)
  PROVE  /\ Tagged(k, s) \in Seq(Item) /\ Len(Tagged(k, s)) = Len(s)
         /\ \A i \in 1 .. Len(s) : Tagged(k, s)[i] = [by |-> k, what |-> s[i]]
<1>1. DOMAIN s = 1 .. Len(s) /\ Len(s) \in Nat
  OBVIOUS
<1>2. \A i \in 1 .. Len(s) : [by |-> k, what |-> s[i]] \in Item
  BY ElementOfSeq DEF Item
<1> QED
  BY <1>1, <1>2 DEF Tagged

LEMMA TaggedAppend ==
  ASSUME NEW k \in Run, NEW s \in Seq(Content), NEW w \in Content
  PROVE  Tagged(k, Append(s, w)) = Append(Tagged(k, s), [by |-> k, what |-> w])
<1> DEFINE x == [by |-> k, what |-> w]
           v == Append(s, w)
           t == Tagged(k, s)
           u == Append(t, x)
<1>1. v \in Seq(Content) /\ x \in Item /\ t \in Seq(Item)
  <2>1. v \in Seq(Content)
    OBVIOUS
  <2>2. x \in Item
    BY DEF Item
  <2>3. t \in Seq(Item)
    BY TaggedProperties
  <2> QED
    BY <2>1, <2>2, <2>3
<1>2. /\ Len(s) \in Nat /\ Len(v) = Len(s) + 1
      /\ \A i \in 1 .. Len(s) : v[i] = s[i]
      /\ v[Len(s) + 1] = w
  <2>1. Len(s) \in Nat
    OBVIOUS
  <2>2. Len(v) = Len(s) + 1
    BY AppendProperties
  <2>3. \A i \in 1 .. Len(s) : v[i] = s[i]
    BY AppendProperties
  <2>4. v[Len(s) + 1] = w
    BY AppendProperties
  <2> QED
    BY <2>1, <2>2, <2>3, <2>4
<1>3. /\ Len(t) = Len(s)
      /\ \A i \in 1 .. Len(s) : t[i] = [by |-> k, what |-> s[i]]
  BY TaggedProperties
<1>4. /\ u \in Seq(Item) /\ Len(u) = Len(t) + 1
      /\ \A i \in 1 .. Len(t) : u[i] = t[i]
      /\ u[Len(t) + 1] = x
  <2> HIDE DEF x, t
  <2> QED
    BY <1>1, AppendProperties
<1>5. /\ Tagged(k, v) \in Seq(Item) /\ Len(Tagged(k, v)) = Len(v)
      /\ \A i \in 1 .. Len(v) : Tagged(k, v)[i] = [by |-> k, what |-> v[i]]
  <2> HIDE DEF v
  <2> QED
    BY <1>1, TaggedProperties
<1> HIDE DEF v, t, u
<1>6. \A i \in 1 .. Len(u) : Tagged(k, v)[i] = u[i]
  BY <1>2, <1>3, <1>4, <1>5
<1>7. Tagged(k, v) = u
  <2>1. Len(Tagged(k, v)) = Len(u)
    BY <1>2, <1>3, <1>4, <1>5
  <2> QED
    BY <1>4, <1>5, <1>6, <2>1, SeqEqual
<1> QED
  BY <1>7 DEF u, v, t

\* One more item is written, and nothing else of the output moves.
LEMMA WriteKeepsData ==
  ASSUME TypeOK, TypeOK', NEW k \in Run, NEW w \in Content,
         pipe' = [pipe EXCEPT ![k] = Append(@, [by |-> k, what |-> w])],
         sent' = [sent EXCEPT ![k] = Append(@, w)],
         UNCHANGED buf, buf[k] \o pipe[k] = Made(k)
  PROVE  (buf[k] \o pipe[k] = Made(k))'
<1> DEFINE x == [by |-> k, what |-> w]
<1>1. x \in Item
  BY DEF Item
<1>2. buf[k] \in Seq(Item) /\ pipe[k] \in Seq(Item) /\ sent[k] \in Seq(Content)
  BY DEF TypeOK
<1>3. pipe'[k] = Append(pipe[k], x) /\ sent'[k] = Append(sent[k], w) /\ buf'[k] = buf[k]
  BY DEF TypeOK
<1> HIDE DEF x
<1>4. buf[k] \o Append(pipe[k], x) = Append(buf[k] \o pipe[k], x)
  BY <1>1, <1>2, ConcatAppend
<1>5. Tagged(k, sent'[k]) = Append(Tagged(k, sent[k]), x)
  <2>1. Tagged(k, Append(sent[k], w)) = Append(Tagged(k, sent[k]), [by |-> k, what |-> w])
    BY <1>2, TaggedAppend
  <2> QED
    BY <1>3, <2>1 DEF x
<1> QED
  BY <1>3, <1>4, <1>5 DEF Made

\* What a loose descendant wrote stays in the stream.
LEMMA MixedAppend ==
  ASSUME NEW s \in Seq(Item), NEW t \in Seq(Item), NEW e \in Item,
         Mixed(s \o t) \/ e.what = Late
  PROVE  Mixed(s \o Append(t, e))
<1> DEFINE u == s \o t
           v == Append(u, e)
<1>1. u \in Seq(Item)
  BY ConcatProperties
<1>2. s \o Append(t, e) = v
  BY ConcatAppend
<1> HIDE DEF u
<1>3. /\ v \in Seq(Item) /\ Len(u) \in Nat /\ Len(v) = Len(u) + 1
      /\ \A i \in 1 .. Len(u) : v[i] = u[i]
      /\ v[Len(u) + 1] = e
  BY <1>1, AppendProperties
<1> HIDE DEF v
<1>4. DOMAIN u = 1 .. Len(u) /\ DOMAIN v = 1 .. Len(v)
  BY <1>1, <1>3
<1>5. Mixed(u) \/ e.what = Late
  BY DEF u
<1>6. Mixed(v)
  BY <1>3, <1>4, <1>5 DEF Mixed
<1> QED
  BY <1>2, <1>6

\* A log with such an item in it is no valid answer.
LEMMA MixedIsInvalid ==
  ASSUME NEW s \in Seq(Item), Mixed(s)
  PROVE  ~Valid(s)
<1>1. PICK i \in DOMAIN s : s[i].what = Late
  BY DEF Mixed
<1>2. Whats(s)[i] = Late /\ DOMAIN Whats(s) = DOMAIN s
  BY <1>1 DEF Whats
<1> SUFFICES ASSUME Whats(s) = <<"answer">> PROVE FALSE
  BY DEF Valid
<1> DEFINE t == <<"answer">>
<1>3. DOMAIN t = {1} /\ t[1] = "answer"
  OBVIOUS
<1>4. DOMAIN t = DOMAIN s /\ t[i] = Late
  BY <1>2
<1> HIDE DEF t
<1>5. t[i] = "answer"
  BY <1>1, <1>3, <1>4
<1> QED
  BY <1>4, <1>5 DEF Late

LEMMA FutureIsEmpty ==
  TypeOK /\ ProcInv /\ LooseInv /\ PumpInv /\ StreamInv /\ [Next]_vars =>
    \A j \in Run : Future(j)' => /\ buf'[j] = <<>> /\ pipe'[j] = <<>>
                                 /\ log'[j] = <<>> /\ sent'[j] = <<>>
<1> SUFFICES ASSUME TypeOK, ProcInv, LooseInv, PumpInv, StreamInv, [Next]_vars,
                    NEW j \in Run, Future(j)'
             PROVE  /\ buf'[j] = <<>> /\ pipe'[j] = <<>>
                    /\ log'[j] = <<>> /\ sent'[j] = <<>>
  OBVIOUS
<1>0. ASSUME Future(j)
      PROVE  /\ buf[j] = <<>> /\ pipe[j] = <<>> /\ log[j] = <<>> /\ sent[j] = <<>>
             /\ child[j] = "none" /\ ~loose[j] /\ pump[j] = "none"
  BY <1>0 DEF StreamInv, ProcInv, LooseInv, PumpInv
<1>1. CASE UNCHANGED vars
  BY <1>0, <1>1 DEF Future, vars, procs, pipes, pumps, harness
<1>2. ASSUME NEW k \in Run, Process(k)
      PROVE  UNCHANGED <<buf, log>> /\ pipe'[j] = <<>> /\ sent'[j] = <<>> /\ Future(j)
  <2>1. UNCHANGED <<pumps, harness>>
    BY <1>2, ProcessKeeps
  <2>2. Future(j)
    BY <2>1 DEF Future, harness
  <2>3. /\ k = j => \A w \in Emits : ~Write(k, w)
        /\ k = j => ~LooseWrites(k)
    BY <1>0, <2>2 DEF Write, LooseWrites
  <2>4. pipe'[j] = pipe[j] /\ sent'[j] = sent[j]
    BY <1>2, <2>3 DEF Process, Write, LooseWrites, Exit, Fork, Detach, GroupEnds, LooseEnds,
       TermKills, pipes, TypeOK
  <2> QED
    BY <1>0, <2>1, <2>2, <2>4 DEF pumps
<1>3. ASSUME NEW k \in Run, Pump(k) \/ StdinEnds(k)
      PROVE  /\ buf'[j] = <<>> /\ pipe'[j] = <<>> /\ log'[j] = <<>> /\ sent'[j] = <<>>
  <2>1. Future(j) /\ sent'[j] = sent[j]
    BY <1>3, ThreadKeeps DEF Future, harness
  <2>2. pump[k] # "none" => k # j
    BY <1>0, <2>1
  <2>3. /\ buf'[j] = buf[j] /\ log'[j] = log[j]
        /\ pipe'[j] = pipe[j] \/ pipe'[j] = <<>>
    BY <1>3, <2>2 DEF Pump, StdinEnds, ReadBegin, ReadData, ReadEof, Finalize, TypeOK, pumps,
       pipes
  <2> QED
    BY <1>0, <2>1, <2>3
<1>4. CASE Harness
  <2>1. UNCHANGED <<buf, log, pipe, sent>>
    BY <1>4, Harnesses, WatchKeeps DEF Spawn, Join, Close, Collect, pumps, pipes
  <2>2. Future(j)
    BY <1>4, HarnessMoves
  <2> QED
    BY <1>0, <2>1, <2>2
<1> QED
  BY <1>0, <1>1, <1>2, <1>3, <1>4 DEF Next, AllDone

\* The stream of the run under way.
Sound == Stream(cur) = Made(cur) \/ (cur \in MayDetach /\ Mixed(Stream(cur)))

LEMMA SoundProcess ==
  ASSUME TypeOK, TypeOK', LooseInv, Sound, NEW k \in Run, Process(k)
  PROVE  Sound'
<1>0. cur \in Run /\ UNCHANGED <<cur, buf>>
  BY ProcessKeeps DEF TypeOK, pumps, harness
<1>1. ASSUME pipe'[cur] = pipe[cur], sent'[cur] = sent[cur] PROVE Sound'
  BY <1>0, <1>1 DEF Sound, Stream, Made
<1>2. ASSUME NEW w \in Content \cup {Late}, k = cur,
             pipe' = [pipe EXCEPT ![k] = Append(@, [by |-> k, what |-> w])],
             Mixed(Stream(cur)) \/ w = Late, cur \in MayDetach
      PROVE  Sound'
  <2> DEFINE x == [by |-> k, what |-> w]
  <2>1. x \in Item /\ buf[cur] \in Seq(Item) /\ pipe[cur] \in Seq(Item)
    BY <1>0, <1>2 DEF Item, TypeOK
  <2>2. pipe'[cur] = Append(pipe[cur], x) /\ x.what = w
    BY <1>0, <1>2 DEF TypeOK
  <2> HIDE DEF x
  <2>3. Mixed(buf[cur] \o Append(pipe[cur], x))
    BY <1>2, <2>1, <2>2, MixedAppend DEF Stream
  <2> QED
    BY <1>0, <1>2, <2>2, <2>3 DEF Sound, Stream
<1>3. ASSUME NEW w \in Emits, Write(k, w), HasReader(k), k = cur PROVE Sound'
  <2>1. /\ pipe' = [pipe EXCEPT ![k] = Append(@, [by |-> k, what |-> w])]
        /\ sent' = [sent EXCEPT ![k] = Append(@, w)]
    BY <1>3 DEF Write
  <2>2. w \in Content
    BY Facts
  <2>3. CASE Stream(cur) = Made(cur)
    <3>1. (buf[k] \o pipe[k] = Made(k))'
      BY <1>0, <1>3, <2>1, <2>2, <2>3, WriteKeepsData DEF Stream
    <3> QED
      BY <1>0, <1>3, <3>1 DEF Sound, Stream, Made
  <2>4. CASE cur \in MayDetach /\ Mixed(Stream(cur))
    BY <1>2, <1>3, <2>1, <2>2, <2>4
  <2> QED
    BY <2>3, <2>4 DEF Sound
<1>4. ASSUME NEW w \in Emits, Write(k, w), ~HasReader(k) \/ k # cur PROVE Sound'
  <2>1. pipe'[cur] = pipe[cur] /\ sent'[cur] = sent[cur]
    BY <1>0, <1>4 DEF Write, TypeOK
  <2> QED
    BY <1>1, <2>1
<1>5. CASE LooseWrites(k) /\ k = cur
  <2>1. cur \in MayDetach
    BY <1>5 DEF LooseWrites, LooseInv
  <2>2. pipe' = [pipe EXCEPT ![k] = Append(@, [by |-> k, what |-> Late])]
    BY <1>5 DEF LooseWrites
  <2> QED
    BY <1>2, <1>5, <2>1, <2>2
<1>6. CASE LooseWrites(k) /\ k # cur
  <2>1. pipe'[cur] = pipe[cur] /\ sent'[cur] = sent[cur]
    BY <1>0, <1>6 DEF LooseWrites, TypeOK
  <2> QED
    BY <1>1, <2>1
<1>7. ASSUME \/ \E c \in {0, 1} : Exit(k, c)
             \/ Fork(k) \/ Detach(k) \/ GroupEnds(k) \/ LooseEnds(k) \/ TermKills(k)
      PROVE  Sound'
  BY <1>1, <1>7 DEF Exit, Fork, Detach, GroupEnds, LooseEnds, TermKills, pipes
<1> QED
  BY <1>3, <1>4, <1>5, <1>6, <1>7 DEF Process

LEMMA SoundThread ==
  ASSUME TypeOK, PumpInv, Busy, Clear(cur), Sound, NEW k \in Run, Pump(k) \/ StdinEnds(k)
  PROVE  Sound'
<1>0. cur \in Run /\ UNCHANGED <<cur, sent>>
  BY ThreadKeeps DEF TypeOK, harness
<1>1. CASE ReadData(k)
  <2>1. k = cur /\ at[k] = k
    BY <1>1, OnlyPump DEF ReadData
  <2>2. buf'[cur] = Stream(cur) /\ pipe'[cur] = <<>>
    BY <1>0, <1>1, <2>1 DEF ReadData, TypeOK, Stream
  <2>3. Stream(cur) \in Seq(Item)
    BY <1>0, ConcatProperties DEF TypeOK, Stream
  <2>4. Stream(cur) \o <<>> = Stream(cur)
    BY <2>3, ConcatEmptySeq
  <2>5. buf'[cur] \o pipe'[cur] = Stream(cur)
    BY <2>2, <2>4
  <2> QED
    BY <1>0, <2>5 DEF Sound, Stream, Made
<1>2. CASE ~ReadData(k)
  <2>1. UNCHANGED <<buf, pipe>>
    BY <1>2 DEF Pump, StdinEnds, ReadBegin, ReadEof, Finalize, pumps, pipes
  <2> QED
    BY <1>0, <2>1 DEF Sound, Stream, Made
<1> QED
  BY <1>1, <1>2

LEMMA StreamInvNext ==
  ( /\ TypeOK /\ TypeOK' /\ ProcInv /\ LooseInv /\ PumpInv /\ StreamInv
    /\ [Next]_vars )
  => StreamInv'
<1> SUFFICES ASSUME TypeOK, TypeOK', ProcInv, LooseInv, PumpInv, StreamInv, [Next]_vars,
                    Busy', Clear(cur)'
             PROVE  Sound'
  BY FutureIsEmpty DEF StreamInv, Sound
<1>0. ASSUME UNCHANGED harness PROVE Busy /\ Clear(cur) /\ Sound
  BY <1>0 DEF StreamInv, Sound, Busy, Clear, PumpLeft, harness
<1>1. CASE UNCHANGED vars
  BY <1>0, <1>1 DEF Sound, Stream, Made, vars, pipes, pumps, harness
<1>2. ASSUME NEW k \in Run, Process(k) PROVE Sound'
  BY <1>0, <1>2, ProcessKeeps, SoundProcess
<1>3. ASSUME NEW k \in Run, Pump(k) \/ StdinEnds(k) PROVE Sound'
  BY <1>0, <1>3, ThreadKeeps, SoundThread
<1>4. CASE Harness
  <2>1. UNCHANGED <<buf, pipe, sent, cur>>
    BY <1>4, Harnesses, WatchKeeps, HarnessMoves DEF Spawn, Join, Close, Collect, pumps, pipes
  <2>2. CASE Busy
    <3>1. Sound
      BY <1>4, <2>2, HarnessMoves DEF StreamInv, Sound
    <3> QED
      BY <2>1, <3>1 DEF Sound, Stream, Made
  <2>3. CASE Spawn
    <3>1. cur \in Run /\ Future(cur)
      BY <2>3 DEF Spawn, Future, TypeOK
    <3>2. buf[cur] = <<>> /\ pipe[cur] = <<>> /\ sent[cur] = <<>>
      BY <3>1 DEF StreamInv
    <3>3. <<>> \o <<>> = <<>> /\ Tagged(cur, <<>>) = <<>>
      BY DEF Tagged
    <3>4. Stream(cur) = Made(cur)
      BY <3>2, <3>3 DEF Stream, Made
    <3> QED
      BY <2>1, <3>4 DEF Sound, Stream, Made
  <2> QED
    BY <1>4, <2>2, <2>3, HarnessMoves
<1> QED
  BY <1>1, <1>2, <1>3, <1>4 DEF Next, AllDone

\* Once everything has been read, nothing is left to change.
LEMMA FinalStays ==
  ASSUME TypeOK, NEW j \in Run, Final(j), NEW k \in Run, Process(k)
  PROVE  Final(j)'
<1>0. /\ UNCHANGED pumps /\ pump[j] = "ended" /\ log[j] = buf[j] /\ pipe[j] = <<>>
      /\ GroupEmpty(j) /\ ~loose[j]
  BY ProcessKeeps DEF Final, Writers
<1>1. GroupEmpty(j)'
  BY <1>0, ProcessKeeps
<1>2. k = j => /\ \A w \in Emits : ~Write(k, w)
               /\ ~LooseWrites(k) /\ ~Detach(k)
  BY <1>0 DEF Write, LooseWrites, Detach, GroupEmpty
<1>3. pipe'[j] = pipe[j] /\ ~loose'[j]
  BY <1>0, <1>2 DEF Process, Write, LooseWrites, Exit, Fork, Detach, GroupEnds, LooseEnds,
     TermKills, pipes, procs, TypeOK
<1> QED
  BY <1>0, <1>1, <1>3 DEF Final, Writers, pumps

LEMMA LogInvThread ==
  ASSUME TypeOK, PumpInv, LogInv, Busy, Clear(cur), NEW k \in Run, Pump(k) \/ StdinEnds(k)
  PROVE  LogInv'
<1>0. cur \in Run /\ UNCHANGED <<procs, cur>>
  BY ThreadKeeps DEF TypeOK, harness
<1>1. /\ log[cur] = <<>> \/ Final(cur)
      /\ pump[cur] = "ended" => Final(cur) \/ fdt[fd[cur]] = Free
  BY DEF LogInv
<1>2. Writers(cur)' <=> Writers(cur)
  BY <1>0 DEF Writers, GroupEmpty, procs
<1>3. CASE StdinEnds(k)
  BY <1>0, <1>1, <1>2, <1>3 DEF StdinEnds, LogInv, Final, pumps
<1>4. CASE ReadBegin(k)
  <2>1. k = cur /\ pump[k] = "loop"
    BY <1>4, OnlyPump DEF ReadBegin
  <2>2. /\ pump'[cur] = "ended" => fdt[fd[cur]] = Free
        /\ UNCHANGED <<fdt, fd, log>>
    BY <1>0, <1>4, <2>1 DEF ReadBegin, TypeOK
  <2> QED
    BY <1>0, <1>1, <2>1, <2>2 DEF LogInv, Final
<1>5. CASE ReadData(k)
  <2>1. k = cur /\ pump[k] = "blocked"
    BY <1>5, OnlyPump DEF ReadData
  <2>2. pump'[cur] = "loop" /\ UNCHANGED log
    BY <1>0, <1>5, <2>1 DEF ReadData, TypeOK
  <2> QED
    BY <1>0, <1>1, <2>1, <2>2 DEF LogInv, Final
<1>6. CASE ReadEof(k)
  <2>1. k = cur /\ at[k] = k
    BY <1>6, OnlyPump DEF ReadEof
  <2>2. /\ pump'[cur] = "ended" /\ log'[cur] = buf[cur] /\ pipe[cur] = <<>> /\ ~Writers(cur)
        /\ UNCHANGED <<buf, pipe>>
    BY <1>0, <1>6, <2>1 DEF ReadEof, TypeOK, pipes
  <2> QED
    BY <1>0, <1>2, <2>2 DEF LogInv, Final
<1>7. CASE Finalize(k)
  <2>1. k # cur /\ fd[k] # Free
    BY <1>7 DEF Finalize, Busy
  <2> QED
    BY <2>1, OnlyPump
<1> QED
  BY <1>3, <1>4, <1>5, <1>6, <1>7 DEF Pump

LEMMA LogInvNext ==
  ( /\ TypeOK /\ ProcInv /\ PumpInv /\ StreamInv /\ LogInv /\ [Next]_vars )
  => LogInv'
<1> SUFFICES ASSUME TypeOK, ProcInv, PumpInv, StreamInv, LogInv, [Next]_vars,
                    Busy', Clear(cur)'
             PROVE  LogInv'
  BY DEF LogInv
<1>0. ASSUME UNCHANGED harness PROVE Busy /\ Clear(cur) /\ cur' = cur
  BY <1>0 DEF Busy, Clear, PumpLeft, harness
<1>1. CASE UNCHANGED vars
  BY <1>0, <1>1 DEF LogInv, Final, Writers, GroupEmpty, vars, procs, pipes, pumps, harness
<1>2. ASSUME NEW k \in Run, Process(k) PROVE LogInv'
  <2>1. UNCHANGED <<pumps, harness>> /\ cur \in Run
    BY <1>2, ProcessKeeps DEF TypeOK
  <2>2. Final(cur) => /\ pump'[cur] = "ended" /\ log'[cur] = buf'[cur] /\ pipe'[cur] = <<>>
                      /\ ~Writers(cur)'
    BY <1>2, <2>1, FinalStays DEF Final, Writers, GroupEmpty, harness
  <2> QED
    BY <1>0, <2>1, <2>2 DEF LogInv, Final, pumps
<1>3. ASSUME NEW k \in Run, Pump(k) \/ StdinEnds(k) PROVE LogInv'
  BY <1>0, <1>3, ThreadKeeps, LogInvThread
<1>4. CASE Harness /\ ~Spawn
  <2>1. Busy /\ Clear(cur) /\ UNCHANGED <<cur, result>>
    BY <1>4, HarnessMoves
  <2>2. UNCHANGED <<buf, log, pipe, pump, fd, loose>>
    BY <1>4, <2>1, Harnesses, WatchKeeps DEF Join, Close, Collect, Busy, pumps, pipes, procs
  <2>3. GroupEmpty(cur) => GroupEmpty(cur)'
    BY <1>4, <2>1 DEF GroupEmpty, Harness, WaitReturns, Deadline, Term, GraceEnds, Kill,
       JoinStdin, Join, Close, Collect, procs, TypeOK
  <2>4. fdt[fd[cur]] = Free => fdt'[fd[cur]] = Free
    BY <1>4, <2>1, Harnesses, WatchKeeps DEF Join, Close, Collect, Busy, pumps, TypeOK
  <2>5. Writers(cur)' => Writers(cur)
    BY <2>1, <2>2, <2>3 DEF Writers
  <2> QED
    BY <2>1, <2>2, <2>4, <2>5 DEF LogInv, Final
<1>5. CASE Spawn
  <2>1. cur \in Run /\ Future(cur)
    BY <1>5 DEF Spawn, Future, TypeOK
  <2>2. /\ log'[cur] = <<>> /\ pump'[cur] = "loop" /\ cur' = cur
    BY <1>5, <2>1 DEF Spawn, StreamInv, TypeOK
  <2> QED
    BY <2>2 DEF LogInv
<1> QED
  BY <1>1, <1>2, <1>3, <1>4, <1>5 DEF Next, AllDone

LEMMA TagInvNext ==
  TypeOK /\ ProcInv /\ PumpInv /\ TagInv /\ [Next]_vars => TagInv'
<1> SUFFICES ASSUME TypeOK, ProcInv, PumpInv, TagInv, [Next]_vars PROVE TagInv'
  OBVIOUS
<1>1. ASSUME UNCHANGED <<buf, log, pipe>>, \A k \in Run : PumpLeft(k) => PumpLeft(k)'
      PROVE  TagInv'
  BY <1>1 DEF TagInv, By
<1>2. UNCHANGED result => \A k \in Run : PumpLeft(k)' <=> PumpLeft(k)
  BY DEF PumpLeft
<1>3. CASE UNCHANGED vars
  BY <1>1, <1>2, <1>3 DEF vars, pipes, pumps, harness
<1>4. ASSUME NEW k \in Run, Process(k) PROVE TagInv'
  <2>1. UNCHANGED <<pumps, harness>>
    BY <1>4, ProcessKeeps
  <2>2. ASSUME NEW w \in Content \cup {Late},
               pipe' = [pipe EXCEPT ![k] = Append(@, [by |-> k, what |-> w])]
        PROVE  \A j \in Run : By(j, pipe'[j])
    <3> DEFINE x == [by |-> k, what |-> w]
               s == pipe[k]
    <3>1. x \in Item /\ s \in Seq(Item) /\ By(k, s) /\ x.by = k
      BY DEF Item, TypeOK, TagInv
    <3>2. pipe'[k] = Append(s, x) /\ \A j \in Run \ {k} : pipe'[j] = pipe[j]
      BY <2>2 DEF TypeOK
    <3> HIDE DEF x, s
    <3>3. /\ Len(s) \in Nat /\ Append(s, x) \in Seq(Item)
          /\ Len(Append(s, x)) = Len(s) + 1
          /\ \A i \in 1 .. Len(s) : Append(s, x)[i] = s[i]
          /\ Append(s, x)[Len(s) + 1] = x
      BY <3>1, AppendProperties
    <3>4. DOMAIN s = 1 .. Len(s) /\ DOMAIN Append(s, x) = 1 .. Len(s) + 1
      BY <3>1, <3>3
    <3>5. By(k, Append(s, x))
      BY <3>1, <3>3, <3>4 DEF By
    <3> QED
      BY <3>2, <3>5 DEF TagInv
  <2>3. \/ UNCHANGED pipe
        \/ \E w \in Content \cup {Late} :
             pipe' = [pipe EXCEPT ![k] = Append(@, [by |-> k, what |-> w])]
    BY <1>4, Facts DEF Process, Write, LooseWrites, Exit, Fork, Detach, GroupEnds, LooseEnds,
       TermKills, pipes
  <2>4. \A j \in Run : By(j, pipe'[j])
    BY <2>2, <2>3 DEF TagInv
  <2> QED
    BY <1>2, <2>1, <2>4 DEF TagInv, By, pumps, harness
<1>5. ASSUME NEW k \in Run, Pump(k) \/ StdinEnds(k) PROVE TagInv'
  <2>0. \A j \in Run : PumpLeft(j)' <=> PumpLeft(j)
    BY <1>2, <1>5, ThreadKeeps DEF harness
  <2>1. CASE ReadData(k)
    <3>1. ~PumpLeft(k) => at[k] = k
      BY <2>1, PumpReads DEF ReadData
    <3>2. /\ buf'[k] = buf[k] \o pipe[at[k]] /\ UNCHANGED log
          /\ \A j \in Run \ {k} : buf'[j] = buf[j]
          /\ \A j \in Run : pipe'[j] = pipe[j] \/ pipe'[j] = <<>>
      BY <2>1 DEF ReadData, TypeOK
    <3>3. \A j \in Run : By(j, pipe'[j])
      BY <3>2 DEF TagInv, By
    <3>4. ~PumpLeft(k) => By(k, buf'[k])
      <4> SUFFICES ASSUME ~PumpLeft(k) PROVE By(k, buf'[k])
        OBVIOUS
      <4> DEFINE s == buf[k]
                 t == pipe[k]
      <4>1. s \in Seq(Item) /\ t \in Seq(Item) /\ By(k, s) /\ By(k, t) /\ buf'[k] = s \o t
        BY <3>1, <3>2 DEF TypeOK, TagInv
      <4> HIDE DEF s, t
      <4>2. /\ Len(s) \in Nat /\ Len(t) \in Nat /\ Len(s \o t) = Len(s) + Len(t)
            /\ s \o t \in Seq(Item)
            /\ \A i \in 1 .. Len(s) + Len(t) :
                 (s \o t)[i] = IF i <= Len(s) THEN s[i] ELSE t[i - Len(s)]
        BY <4>1, ConcatProperties
      <4>3. /\ DOMAIN s = 1 .. Len(s) /\ DOMAIN t = 1 .. Len(t)
            /\ DOMAIN (s \o t) = 1 .. Len(s) + Len(t)
        BY <4>1, <4>2
      <4>4. \A i \in 1 .. Len(s) + Len(t) : (s \o t)[i].by = k
        BY <4>1, <4>2, <4>3 DEF By
      <4> QED
        BY <4>1, <4>3, <4>4 DEF By
    <3> QED
      BY <2>0, <3>2, <3>3, <3>4 DEF TagInv
  <2>2. CASE ReadEof(k)
    <3>1. /\ log'[k] = buf[k] /\ UNCHANGED <<buf, pipe>>
          /\ \A j \in Run \ {k} : log'[j] = log[j]
      BY <2>2 DEF ReadEof, TypeOK, pipes
    <3> QED
      BY <2>0, <3>1 DEF TagInv
  <2>3. CASE ~ReadData(k) /\ ~ReadEof(k)
    <3>1. UNCHANGED <<buf, log, pipe>>
      BY <1>5, <2>3 DEF Pump, StdinEnds, ReadBegin, Finalize, pumps, pipes
    <3> QED
      BY <1>1, <2>0, <3>1
  <2> QED
    BY <2>1, <2>2, <2>3
<1>6. CASE Harness
  <2>1. UNCHANGED <<buf, log, pipe>>
    BY <1>6, Harnesses, WatchKeeps DEF Spawn, Join, Close, Collect, pumps, pipes
  <2> QED
    BY <1>1, <1>6, <2>1, HarnessMoves
<1> QED
  BY <1>3, <1>4, <1>5, <1>6 DEF Next, AllDone

-----------------------------------------------------------------------------
(* The deadline and the verdict.                                           *)

LEMMA TimedInvNext ==
  TypeOK /\ ProcInv /\ LooseInv /\ PumpInv /\ TimedInv /\ [Next]_vars => TimedInv'
<1> SUFFICES ASSUME TypeOK, ProcInv, LooseInv, PumpInv, TimedInv, [Next]_vars
             PROVE  TimedInv'
  OBVIOUS
<1>0. cur \in Run /\ \A k \in Run : k \in Nat /\ k <= Runs
  BY Facts DEF TypeOK
<1>1. CASE UNCHANGED vars
  BY <1>1 DEF TimedInv, Future, Busy, vars, procs, harness
<1>2. ASSUME NEW k \in Run, Process(k) PROVE TimedInv'
  <2>1. UNCHANGED harness /\ \A j \in Run : child[j] # "running" => child'[j] = child[j]
    BY <1>2, ProcessKeeps
  <2>2. child[cur] = "exited" => child'[cur] = "exited"
    BY <1>0, <2>1
  <2> QED
    BY <2>1, <2>2 DEF TimedInv, Future, Busy, harness
<1>3. ASSUME NEW k \in Run, Pump(k) \/ StdinEnds(k) PROVE TimedInv'
  BY <1>3, ThreadKeeps DEF TimedInv, Future, Busy, procs, harness
<1>4. CASE Spawn
  <2>1. ~expired[cur]
    BY <1>0, <1>4 DEF Spawn, TimedInv, Future
  <2> QED
    BY <1>0, <1>4, <2>1 DEF Spawn, TimedInv, Future
<1>5. CASE WaitReturns \/ Term \/ GraceEnds \/ Close
  <2>1. UNCHANGED <<cur, timed, expired, child>> /\ Busy
        /\ pc' \notin {"spawn", "done", "wait"} /\ (pc = "wait" => child[cur] = "exited")
    BY <1>5 DEF WaitReturns, Term, GraceEnds, Close, AfterTerm, procs, Busy
  <2> QED
    BY <2>1 DEF TimedInv, Future, Busy
<1>6. CASE Deadline
  <2>1. /\ pc = "wait" /\ pc' = "term" /\ timed' = TRUE /\ cur' = cur
        /\ expired'[cur] = TRUE /\ \A k \in Run \ {cur} : expired'[k] = expired[k]
    BY <1>0, <1>6 DEF Deadline, TypeOK
  <2> QED
    BY <1>0, <2>1 DEF TimedInv, Future
<1>7. CASE Kill
  <2>1. /\ pc = "kill" /\ pc' \in {"join", "stdin"} /\ UNCHANGED <<cur, timed, expired>>
        /\ child[cur] = "exited" => child'[cur] = "exited"
    BY <1>0, <1>7 DEF Kill, AfterTerm, TypeOK
  <2> QED
    BY <2>1 DEF TimedInv, Future, Busy
<1>8. CASE JoinStdin
  <2>1. loose[cur] => cur \in MayDetach
    BY <1>0 DEF LooseInv
  <2>2. \/ UNCHANGED <<timed, expired>>
        \/ /\ timed' = TRUE /\ expired'[cur] = TRUE
           /\ \A k \in Run \ {cur} : expired'[k] = expired[k]
        \/ timed' = TRUE /\ cur \in MayDetach /\ UNCHANGED expired
    BY <1>0, <1>8, <2>1 DEF JoinStdin, TypeOK
  <2>3. pc = "stdin" /\ pc' \in {"join", "term"} /\ UNCHANGED <<cur, child>>
    BY <1>8 DEF JoinStdin, procs
  <2> QED
    BY <1>0, <2>2, <2>3 DEF TimedInv, Future, Busy
<1>9. CASE Join
  <2>1. /\ pc = "join" /\ pc' \in {"collect", "close"} /\ UNCHANGED <<cur, expired, child>>
        /\ timed' = timed \/ (timed' = TRUE /\ cur \in MayDetach)
    BY <1>9, StuckIsLoose DEF Join, procs
  <2> QED
    BY <2>1 DEF TimedInv, Future, Busy
<1>10. CASE Collect
  <2>1. \A k \in Run : Future(k)' => Future(k)
    BY <1>10, HarnessMoves DEF Harness
  <2>2. pc' \in {"spawn", "done"} /\ UNCHANGED expired
    BY <1>10 DEF Collect
  <2> QED
    BY <2>1, <2>2 DEF TimedInv, Busy
<1> QED
  BY <1>1, <1>2, <1>3, <1>4, <1>5, <1>6, <1>7, <1>8, <1>9, <1>10 DEF Next, Harness, AllDone

\* A log that holds all of the output is read back as what was written.
LEMMA LogIsSent ==
  ASSUME TypeOK, NEW k \in Run, Final(k), Stream(k) = Made(k)
  PROVE  Whats(log[k]) = sent[k]
<1>1. pipe[k] = <<>> /\ log[k] = buf[k]
  BY DEF Final
<1>2. buf[k] \in Seq(Item) /\ sent[k] \in Seq(Content)
  BY DEF TypeOK
<1>3. log[k] = Made(k)
  BY <1>1, <1>2, ConcatEmptySeq DEF Stream
<1>4. Whats(Made(k)) = [i \in DOMAIN sent[k] |-> sent[k][i]]
  BY DEF Whats, Made, Tagged
<1>5. [i \in DOMAIN sent[k] |-> sent[k][i]] = sent[k]
  BY <1>2
<1> QED
  BY <1>3, <1>4, <1>5

LEMMA EmptyIsInvalid == ~Valid(<<>>)
<1>1. Whats(<<>>) = <<>>
  BY DEF Whats
<1>2. <<>> # <<"answer">>
  OBVIOUS
<1> QED
  BY <1>1, <1>2 DEF Valid

LEMMA ClassifyCases ==
  ASSUME TypeOK, NEW k \in Run
  PROVE  /\ Classify(k) = "timeout" <=> timed
         /\ Classify(k) = "ok" <=> ~timed /\ code[k] = 0 /\ Valid(log[k])
         /\ ~timed /\ code[k] # 0 => Classify(k) = "nonzero_exit"
<1>0. timed \in BOOLEAN
  BY DEF TypeOK
<1>1. CASE timed
  BY <1>1 DEF Classify
<1>2. CASE ~timed /\ code[k] # 0
  BY <1>2 DEF Classify
<1>3. CASE ~timed /\ code[k] = 0 /\ log[k] = <<>>
  <2>1. ~Valid(log[k])
    BY <1>3, EmptyIsInvalid
  <2>2. Classify(k) # "ok" /\ Classify(k) # "timeout"
    BY <1>3, <2>1 DEF Classify, Valid, Misfit
  <2> QED
    BY <1>3, <2>1, <2>2
<1>4. CASE ~timed /\ code[k] = 0 /\ log[k] # <<>> /\ Valid(log[k])
  BY <1>4 DEF Classify, Valid, Misfit
<1>5. CASE ~timed /\ code[k] = 0 /\ log[k] # <<>> /\ ~Valid(log[k])
  <2>1. Classify(k) \in {"envelope_schema_violation", "malformed_response_json"}
    BY <1>5 DEF Classify, Valid, Misfit
  <2> QED
    BY <1>5, <2>1
<1> QED
  BY <1>0, <1>1, <1>2, <1>3, <1>4, <1>5

\* What the log of the run under way says when it is parsed.
LEMMA LogIsHonest ==
  ASSUME TypeOK, CloseInv, StreamInv, LogInv, pc = "collect", Clear(cur)
  PROVE  /\ Valid(log[cur]) => sent[cur] = <<"answer">>
         /\ cur \notin MayDetach => (Valid(log[cur]) <=> sent[cur] = <<"answer">>)
<1>1. cur \in Run /\ Busy
  BY DEF TypeOK, Busy
<1>2. /\ Stream(cur) = Made(cur) \/ (cur \in MayDetach /\ Mixed(Stream(cur)))
      /\ log[cur] = <<>> \/ Final(cur)
      /\ pump[cur] = "ended" => Final(cur) \/ fdt[fd[cur]] = Free
  BY <1>1 DEF StreamInv, LogInv
<1>3. ASSUME Final(cur), Stream(cur) = Made(cur)
      PROVE  Valid(log[cur]) <=> sent[cur] = <<"answer">>
  BY <1>1, <1>3, LogIsSent DEF Valid
<1>4. ASSUME Final(cur), Mixed(Stream(cur)) PROVE ~Valid(log[cur])
  <2>1. log[cur] = buf[cur] /\ pipe[cur] = <<>> /\ buf[cur] \in Seq(Item)
    BY <1>1, <1>4 DEF Final, TypeOK
  <2>2. Stream(cur) = log[cur]
    BY <2>1, ConcatEmptySeq DEF Stream
  <2> QED
    BY <1>4, <2>1, <2>2, MixedIsInvalid
<1>5. Valid(log[cur]) => Final(cur)
  BY <1>2, EmptyIsInvalid
<1>6. cur \notin MayDetach => Final(cur)
  BY <1>1, <1>2 DEF CloseInv
<1> QED
  BY <1>2, <1>3, <1>4, <1>5, <1>6

LEMMA VerdictIsTruthful ==
  ASSUME TypeOK, ProcInv, CloseInv, StreamInv, LogInv, TimedInv, Collect
  PROVE  \A k \in Run : k = cur => Truthful(k)'
<1>1. cur \in Run /\ pc = "collect" /\ Busy
  BY DEF Collect, TypeOK, Busy
<1>2. /\ expired[cur] => timed
      /\ timed => expired[cur] \/ cur \in MayDetach
      /\ ~timed => child[cur] = "exited"
  BY <1>1 DEF TimedInv
<1>3. /\ Clear(cur) /\ Valid(log[cur]) => sent[cur] = <<"answer">>
      /\ Clear(cur) /\ cur \notin MayDetach /\ sent[cur] = <<"answer">> => Valid(log[cur])
  BY <1>1, LogIsHonest
<1> DEFINE r == [reason |-> Classify(cur), response |-> Valid(log[cur])]
<1>4. result'[cur] = r /\ UNCHANGED <<child, code, expired, sent>>
  BY <1>1 DEF Collect, procs, pipes, TypeOK
<1>5. r.reason = Classify(cur) /\ (r.response <=> Valid(log[cur]))
  BY DEF Valid
<1> HIDE DEF r
<1>6. \A k \in Run : k = cur => (Clear(k)' <=> Clear(cur))
  <2>1. \A j \in 1 .. cur - 1 : result'[j] = result[j]
    BY <1>1, Facts DEF Collect, TypeOK, Run
  <2> QED
    BY <2>1 DEF Clear, PumpLeft
<1>7. /\ r.reason = "ok" =>
           child[cur] = "exited" /\ code[cur] = 0 /\ ~expired[cur] /\ r.response
      /\ r.reason = "timeout" => expired[cur] \/ cur \in MayDetach
      /\ expired[cur] => r.reason = "timeout"
      /\ Clear(cur) /\ r.response => sent[cur] = <<"answer">>
      /\ cur \notin MayDetach =>
           /\ ~expired[cur] /\ code[cur] # 0 => r.reason = "nonzero_exit"
           /\ Clear(cur) /\ sent[cur] = <<"answer">> =>
                /\ r.response
                /\ ~expired[cur] /\ code[cur] = 0 => r.reason = "ok"
  BY <1>1, <1>2, <1>3, <1>5, ClassifyCases
<1>8. \A k \in Run : k = cur =>
         /\ result'[k] = r /\ child'[k] = child[cur] /\ code'[k] = code[cur]
         /\ expired'[k] = expired[cur] /\ sent'[k] = sent[cur]
  BY <1>4
<1> QED
  BY <1>6, <1>7, <1>8 DEF Truthful

LEMMA ResultInvNext ==
  ( /\ TypeOK /\ ProcInv /\ CloseInv /\ StreamInv /\ LogInv /\ TimedInv /\ ResultInv
    /\ [Next]_vars )
  => ResultInv'
<1> SUFFICES ASSUME TypeOK, ProcInv, CloseInv, StreamInv, LogInv, TimedInv, ResultInv,
                    [Next]_vars
             PROVE  ResultInv'
  OBVIOUS
<1>0. cur \in Run /\ \A k \in Run : k \in Nat /\ k <= Runs
  BY Facts DEF TypeOK
\* A step that leaves what was said of the runs that are over.
<1> DEFINE Same(k) == /\ child'[k] = child[k] /\ code'[k] = code[k]
                      /\ sent'[k] = sent[k] /\ expired'[k] = expired[k]
<1>1. ASSUME UNCHANGED result, \A k \in Run : Past(k)' <=> Past(k),
             \A k \in Run : Past(k) => Same(k)
      PROVE  ResultInv'
  <2>1. \A k \in Run : Clear(k)' <=> Clear(k)
    BY <1>1 DEF Clear, PumpLeft
  <2>2. \A k \in Run : Past(k) => (Truthful(k)' <=> Truthful(k))
    BY <1>1, <2>1 DEF Truthful
  <2>3. \A k \in Run : Recorded(k)' <=> Recorded(k)
    BY <1>1 DEF Recorded
  <2> QED
    BY <1>1, <2>2, <2>3 DEF ResultInv
<1>2. CASE UNCHANGED vars
  BY <1>1, <1>2 DEF Past, vars, procs, pipes, harness
<1>3. ASSUME NEW k \in Run, Process(k) PROVE ResultInv'
  <2>1. /\ UNCHANGED harness
        /\ \A j \in Run : child[j] # "running" => child'[j] = child[j] /\ code'[j] = code[j]
                                                  /\ sent'[j] = sent[j]
    BY <1>3, ProcessKeeps
  <2>2. \A j \in Run : Past(j) => child[j] # "running"
    BY DEF ProcInv, GroupEmpty
  <2> QED
    BY <1>1, <2>1, <2>2 DEF Past, harness
<1>4. ASSUME NEW k \in Run, Pump(k) \/ StdinEnds(k) PROVE ResultInv'
  BY <1>1, <1>4, ThreadKeeps DEF Past, procs, harness
<1>5. CASE Spawn \/ WaitReturns \/ Deadline \/ Term \/ GraceEnds \/ Kill \/ JoinStdin
             \/ Join \/ Close
  <2>1. UNCHANGED <<cur, result>> /\ pc # "done" /\ pc' # "done"
    BY <1>5 DEF Spawn, WaitReturns, Deadline, Term, GraceEnds, Kill, JoinStdin, Join, Close,
       AfterTerm
  <2>2. \A k \in Run : k # cur => Same(k)
    BY <1>5 DEF Spawn, WaitReturns, Deadline, Term, GraceEnds, Kill, JoinStdin, Join, Close,
       procs, pipes, TypeOK
  <2>3. \A k \in Run : (Past(k)' <=> Past(k)) /\ (Past(k) => k # cur)
    BY <1>0, <2>1 DEF Past
  <2> QED
    BY <1>1, <2>1, <2>2, <2>3
<1>6. CASE Collect
  <2>1. \A k \in Run : /\ Past(k)' => Past(k) \/ k = cur
                       /\ Past(k) => Past(k)'
    BY <1>6, HarnessMoves DEF Harness
  <2>2. \A k \in Run : k = cur => Truthful(k)'
    BY <1>6, VerdictIsTruthful
  <2>3. \A k \in Run \ {cur} : Same(k) /\ result'[k] = result[k]
    BY <1>6 DEF Collect, procs, pipes, TypeOK
  <2>4. \A k \in Run : k = cur => Past(k)'
    BY <1>0, <1>6 DEF Past, Collect
  <2>5. \A k \in Run \ {cur} : ~Past(k)' => ~Recorded(k)' /\ ~result'[k].response
    <3> SUFFICES ASSUME NEW k \in Run \ {cur}, ~Past(k)'
                 PROVE  ~Recorded(k)' /\ ~result'[k].response
      OBVIOUS
    <3>1. ~Past(k)
      BY <2>1
    <3>2. ~Recorded(k) /\ ~result[k].response
      BY <3>1 DEF ResultInv
    <3> QED
      BY <2>3, <3>2 DEF Recorded
  <2>6. \A k \in Run \ {cur} : Past(k)' => Truthful(k)'
    <3> SUFFICES ASSUME NEW k \in Run \ {cur}, Past(k)'
                 PROVE  Truthful(k)'
      OBVIOUS
    <3>1. Past(k) /\ Truthful(k)
      BY <2>1 DEF ResultInv
    <3>2. Clear(k)' <=> Clear(k)
      <4>1. k \in Nat /\ k < cur
        BY <1>0, <1>6, <3>1 DEF Past, Collect
      <4>2. \A j \in 1 .. k - 1 : j \in Run \ {cur}
        BY <1>0, <4>1, SupervisorAssumption DEF Run
      <4> QED
        BY <2>3, <4>2 DEF Clear, PumpLeft
    <3> QED
      BY <2>3, <3>1, <3>2 DEF Truthful
  <2> QED
    BY <1>0, <2>2, <2>4, <2>5, <2>6 DEF ResultInv
<1> QED
  BY <1>2, <1>3, <1>4, <1>5, <1>6 DEF Next, Harness, AllDone

-----------------------------------------------------------------------------
(* Whatever leaves its process group.                                      *)

OutputInv ==
  /\ LooseInv /\ PumpInv /\ CloseInv
  /\ StreamInv /\ LogInv /\ TagInv
  /\ TimedInv /\ ResultInv

LEMMA OutputInvInit == Init => OutputInv
<1> SUFFICES ASSUME Init PROVE OutputInv
  OBVIOUS
<1>0. 1 \in Run /\ \A k \in Run : k \in Nat /\ k >= 1 /\ ~Past(k) /\ Future(k)
  BY SupervisorAssumption DEF Run, Init, Past, Future
<1>1. ~Busy
  BY DEF Init, Busy
<1>2. LooseInv /\ PumpInv /\ CloseInv
  BY <1>0, <1>1, Facts DEF Init, LooseInv, PumpInv, CloseInv, Busy
<1>3. StreamInv /\ LogInv
  BY <1>1 DEF Init, StreamInv, LogInv
<1>4. TagInv
  BY DEF Init, TagInv, By
<1>5. TimedInv /\ ResultInv
  BY <1>0, <1>1 DEF Init, TimedInv, ResultInv, Recorded
<1> QED
  BY <1>2, <1>3, <1>4, <1>5 DEF OutputInv

LEMMA OutputInvariance == Spec => [](TypeOK /\ ProcInv /\ OutputInv)
<1>1. Init => OutputInv
  BY OutputInvInit
<1>2. TypeOK /\ TypeOK' /\ ProcInv /\ OutputInv /\ [Next]_vars => OutputInv'
  BY LooseInvNext, PumpInvNext, CloseInvNext, StreamInvNext, LogInvNext, TagInvNext,
     TimedInvNext, ResultInvNext
  DEF OutputInv
<1> QED
  BY <1>1, <1>2, TypeInvariance, ProcInvariance, PTL DEF Spec

\* The verdict of a cell is about its own process: ok only for one that
\* exited 0 in time, response.json only for one that answered, timeout for
\* every one whose deadline passed and otherwise only when descendants hold
\* the pipes.
THEOREM SupervisorVerdictTruthful == Spec => []VerdictTruthful
<1>1. TypeOK /\ ProcInv /\ OutputInv => VerdictTruthful
  BY DEF OutputInv, ProcInv, ResultInv, Truthful, VerdictTruthful, Recorded
<1> QED
  BY <1>1, OutputInvariance, PTL

\* An answer given in time is never lost, unless a pump of an earlier run is
\* still about.
THEOREM SupervisorAnswerKept == Spec => []AnswerKept
<1>1. TypeOK /\ ProcInv /\ OutputInv => AnswerKept
  <2> SUFFICES ASSUME TypeOK, ProcInv, ResultInv, NEW k \in Run, Answers(k), Clear(k)
               PROVE  result[k] = [reason |-> "ok", response |-> TRUE]
    BY DEF OutputInv, AnswerKept
  <2>1. Truthful(k)
    BY DEF Answers, ProcInv, ResultInv
  <2>2. result[k].reason = "ok" /\ result[k].response
    BY <2>1 DEF Answers, Truthful
  <2>3. result[k] \in [reason : Reason, response : BOOLEAN]
    BY DEF TypeOK
  <2> QED
    BY <2>2, <2>3
<1> QED
  BY <1>1, OutputInvariance, PTL

\* A log holds the output of its own run only.
THEOREM SupervisorNoForeignOutput == Spec => []NoForeignOutput
<1>1. TagInv => NoForeignOutput
  BY DEF TagInv, By, NoForeignOutput
<1> QED
  BY <1>1, OutputInvariance, PTL DEF OutputInv

\* The log is final once the result is recorded.
THEOREM SupervisorLogFinal == Spec => LogFinal
<1>1. TypeOK /\ ProcInv /\ OutputInv /\ [Next]_vars
        => [\A k \in Run : Recorded(k) /\ ~PumpLeft(k) => log'[k] = log[k]]_vars
  <2> SUFFICES ASSUME TypeOK, ProcInv, PumpInv, [Next]_vars, NEW k \in Run,
                      Recorded(k), ~PumpLeft(k)
               PROVE  log'[k] = log[k]
    BY DEF OutputInv
  <2>1. pump[k] = "ended"
    BY DEF ProcInv, PumpInv
  <2>2. CASE UNCHANGED vars
    BY <2>2 DEF vars, pumps
  <2>3. CASE Harness
    BY <2>3 DEF Harness, Spawn, WaitReturns, Deadline, Term, GraceEnds, Kill, JoinStdin, Join,
       Close, Collect, pumps
  <2>4. ASSUME NEW j \in Run, Process(j) PROVE log'[k] = log[k]
    BY <2>4, ProcessKeeps DEF pumps
  <2>5. ASSUME NEW j \in Run, Pump(j) \/ StdinEnds(j) PROVE log'[k] = log[k]
    BY <2>1, <2>5 DEF Pump, StdinEnds, ReadBegin, ReadData, ReadEof, Finalize, pumps, TypeOK
  <2> QED
    BY <2>2, <2>3, <2>4, <2>5 DEF Next, AllDone
<1> QED
  BY <1>1, OutputInvariance, PTL DEF Spec, LogFinal

=============================================================================
