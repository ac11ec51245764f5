--------------------------- MODULE CellRunProofs ---------------------------
(***************************************************************************)
(* Proofs about the adapters under supervision: that they are processes as *)
(* Supervisor allows them, so that its theorems hold of cells, and what    *)
(* the code that writes the envelope promises whenever the adapter's own   *)
(* deadline fires.                                                         *)
(***************************************************************************)
EXTENDS CellRun, SupervisorProofs

-----------------------------------------------------------------------------
(* The inductive invariants.                                               *)

\* Only an adapter has statements and a timer.
KindInv ==
  IF kind = "command" THEN main = "none" /\ timer = "off" /\ ~sig ELSE main # "none"

\* The kernel's alarm is armed and pending only around the agent.
AlarmInv ==
  kind = "deepagents" =>
    /\ ~late /\ timer # "firing"
    /\ sig => timer = "fired"
    /\ timer = "armed" \/ sig => main \in {"agent", "disarm"}

\* What has been written at each statement.
Nothing == stdio = <<>> /\ emitted = <<>>
Only(e) == stdio = <<>> /\ emitted = <<e>>
Pending(e) == stdio = <<e>> /\ emitted = <<>>
Told == IF ret = 0 THEN "report" ELSE "failure"

EnvelopeInv ==
  /\ main \in {"setup", "agent", "disarm", "build", "write"} => Nothing
  /\ ret = 0 => main \in {"exit", "gone"} /\ Only("report")
  /\ child[cur] = "running" =>
       /\ main # "gone"
       /\ main = "flush" => Pending(answer) \/ Only(answer)
       /\ main = "return" => Only(answer)
  /\ ~late =>
       /\ main \in {"except", "ewrite"} => Nothing
       /\ child[cur] = "running" =>
            /\ main = "eflush" => Pending("failure") \/ Only("failure")
            /\ main = "ereturn" => Only("failure")
            /\ main = "exit" => Only(Told)
  /\ EndedItself => code[cur] = ret /\ (~late => Only(Told))

\* The harness sees what the adapter emitted, and nothing else.
SentInv ==
  /\ \A k \in Run : child[k] = "none" => sent[k] = <<>>
  /\ main # "none" /\ child[cur] = "running" =>
       /\ Len(sent[cur]) = Len(emitted)
       /\ \A i \in 1 .. Len(sent[cur]) : sent[cur][i] = "answer"

GoneInv ==
  \A k \in Run : gone[k] \in {"report", "failure"} =>
    /\ child[k] = "exited" /\ sent[k] = <<"answer">>
    /\ code[k] = IF gone[k] = "report" THEN 0 ELSE 1

-----------------------------------------------------------------------------
(* What the steps leave alone.                                             *)

\* Statements and handlers that only concern the adapter.
Quiet ==
  \/ Arm \/ Raises \/ AgentReturns \/ AgentRaises \/ Disarm \/ Build
  \/ WriteEnvelope \/ Flushed \/ Return \/ Handle
  \/ Fire \/ Interrupt \/ Swallowed \/ Deliver

LEMMA QuietKeeps == Quiet => UNCHANGED <<vars, kind, gone, emitted>>
BY DEF Quiet, Arm, Raises, AgentReturns, AgentRaises, Disarm, Build, WriteEnvelope,
   Flushed, Return, Handle, Fire, Interrupt, Swallowed, Deliver, output

LEMMA Steps == CellNext <=> Begin \/ Quiet \/ Flush \/ Leave \/ Else
BY DEF CellNext, Main, Quiet

LEMMA ElseIsNext == Else => Next /\ UNCHANGED adapter
BY DEF Else, Next, Harness, Process

LEMMA ElseKeeps ==
  ASSUME TypeOK, ProcInv, Else
  PROVE  /\ UNCHANGED adapter
         /\ \A k \in Run :
              /\ child[k] # "running" => child'[k] = child[k] /\ code'[k] = code[k]
                                         /\ sent'[k] = sent[k]
              /\ child[k] = "running" => child'[k] # "none"
         /\ cur' = cur \/ (cur' \in Run /\ child[cur'] = "none")
         /\ kind # "command" => UNCHANGED sent
<1>0. UNCHANGED adapter
  BY DEF Else
<1>1. CASE WaitReturns \/ Deadline \/ Term \/ GraceEnds \/ JoinStdin \/ Join \/ Close \/ AllDone
  BY <1>0, <1>1 DEF WaitReturns, Deadline, Term, GraceEnds, JoinStdin, Join, Close, AllDone,
     vars, procs, pipes, harness, TypeOK
<1>2. CASE Kill
  <2>1. /\ child' = [child EXCEPT ![cur] = IF @ = "running" THEN "killed" ELSE @]
        /\ UNCHANGED <<code, cur, sent>>
    BY <1>2 DEF Kill, pipes
  <2> QED
    BY <1>0, <2>1 DEF TypeOK
<1>3. CASE Collect
  <2>1. UNCHANGED <<child, code, sent>>
    BY <1>3 DEF Collect, procs, pipes
  <2>2. cur' = cur \/ (cur # Runs /\ cur' = cur + 1)
    BY <1>3 DEF Collect
  <2>3. cur' = cur + 1 /\ cur # Runs => cur' \in Run /\ child[cur'] = "none"
    BY Facts DEF TypeOK, ProcInv, Future
  <2> QED
    BY <1>0, <2>1, <2>2, <2>3 DEF TypeOK
<1>4. ASSUME NEW k \in Run, Process(k), kind # "command" => UNCHANGED sent
      PROVE  /\ \A j \in Run :
                  /\ child[j] # "running" => child'[j] = child[j] /\ code'[j] = code[j]
                                             /\ sent'[j] = sent[j]
                  /\ child[j] = "running" => child'[j] # "none"
             /\ cur' = cur
             /\ kind # "command" => UNCHANGED sent
  BY <1>4, ProcessKeeps DEF harness
<1>5. ASSUME NEW k \in Run,
             \/ Fork(k) \/ Detach(k) \/ GroupEnds(k) \/ LooseEnds(k)
             \/ LooseWrites(k) \/ TermKills(k)
      PROVE  Process(k) /\ UNCHANGED sent
  BY <1>5 DEF Process, Fork, Detach, GroupEnds, LooseEnds, LooseWrites, TermKills, pipes
<1>6. ASSUME NEW k \in Run, kind = "command",
             (\E w \in Emits : Write(k, w)) \/ (\E c \in {0, 1} : Exit(k, c))
      PROVE  Process(k)
  BY <1>6 DEF Process
<1>7. ASSUME NEW k \in Run, Pump(k) \/ StdinEnds(k)
      PROVE  UNCHANGED <<child, code, sent, cur>>
  BY <1>7, ThreadKeeps DEF procs, harness
<1> QED
  BY <1>0, <1>1, <1>2, <1>3, <1>4, <1>5, <1>6, <1>7 DEF Else, TypeOK

LEMMA BeginKeeps ==
  ASSUME TypeOK, ProcInv, Begin
  PROVE  /\ Next /\ UNCHANGED <<code, sent, cur, gone>>
         /\ child[cur] = "none" /\ child'[cur] = "running"
         /\ \A k \in Run \ {cur} : child'[k] = child[k]
<1>1. Spawn /\ UNCHANGED gone
  BY DEF Begin
<1>2. child[cur] = "none"
  BY <1>1 DEF Spawn, TypeOK, ProcInv, Future
<1>3. child' = [child EXCEPT ![cur] = "running"] /\ UNCHANGED <<code, sent, cur>>
  BY <1>1 DEF Spawn
<1> QED
  BY <1>1, <1>2, <1>3 DEF TypeOK, Next, Harness

-----------------------------------------------------------------------------
(* Cells are supervised processes.                                         *)

LEMMA StepImplements ==
  CellTypeOK /\ [CellNext]_cellVars => [Next]_vars
<1> SUFFICES ASSUME CellTypeOK, [CellNext]_cellVars PROVE [Next]_vars
  OBVIOUS
<1>0. cur \in Run /\ ret \in {0, 1}
  BY DEF CellTypeOK, TypeOK
<1>1. CASE UNCHANGED cellVars
  BY <1>1 DEF cellVars
<1>2. CASE Begin
  BY <1>2 DEF Begin, Next, Harness
<1>3. CASE Quiet
  BY <1>3, QuietKeeps
<1>4. CASE Flush
  BY <1>0, <1>4, CellRunAssumption DEF Flush, Next, Process
<1>5. CASE Leave
  BY <1>0, <1>5 DEF Leave, Next, Process
<1>6. CASE Else
  BY <1>6, ElseIsNext
<1> QED
  BY <1>1, <1>2, <1>3, <1>4, <1>5, <1>6, Steps

LEMMA AdapterTypes ==
  ASSUME CellTypeOK, [CellNext]_cellVars
  PROVE  /\ kind' \in {"pydantic", "deepagents", "command"} /\ main' \in Statements
         /\ raised' \in BOOLEAN /\ answer' \in Envelope /\ ret' \in {0, 1}
         /\ timer' \in {"off", "armed", "firing", "fired"}
         /\ sig' \in BOOLEAN /\ late' \in BOOLEAN
         /\ stdio' \in Seq(Envelope) /\ emitted' \in Seq(Envelope)
         /\ gone' \in [Run -> {"no", "report", "failure", "odd"}]
<1> USE DEF Statements, Envelope, Goto, answers, clock, output
<1>0. /\ kind \in {"pydantic", "deepagents", "command"} /\ main \in Statements
      /\ raised \in BOOLEAN /\ answer \in Envelope /\ ret \in {0, 1}
      /\ timer \in {"off", "armed", "firing", "fired"}
      /\ sig \in BOOLEAN /\ late \in BOOLEAN
      /\ stdio \in Seq(Envelope) /\ emitted \in Seq(Envelope)
      /\ gone \in [Run -> {"no", "report", "failure", "odd"}] /\ cur \in Run
  BY DEF CellTypeOK, TypeOK
<1>1. CASE UNCHANGED adapter
  BY <1>0, <1>1 DEF adapter
<1>2. CASE Begin
  <2>1. kind' \in {"pydantic", "deepagents", "command"}
    BY <1>0, <1>2, CellRunAssumption DEF Begin
  <2>2. /\ main' \in {"none", "setup"} /\ raised' = FALSE /\ answer' = "failure"
        /\ ret' = 1 /\ timer' = "off" /\ sig' = FALSE /\ late' = FALSE
        /\ stdio' = <<>> /\ emitted' = <<>> /\ gone' = gone
    BY <1>2 DEF Begin
  <2>3. <<>> \in Seq(Envelope)
    OBVIOUS
  <2> QED
    BY <1>0, <2>1, <2>2, <2>3
<1>3. CASE Arm \/ Raises \/ AgentReturns \/ AgentRaises \/ Disarm \/ Build
           \/ Flushed \/ Return \/ Handle
  <2>1. CASE Arm \/ Raises \/ AgentReturns \/ AgentRaises
    BY <1>0, <2>1 DEF Arm, Raises, AgentReturns, AgentRaises
  <2>2. CASE Disarm \/ Build
    BY <1>0, <2>2 DEF Disarm, Build, Cancelled
  <2>3. CASE Flushed \/ Return \/ Handle
    BY <1>0, <2>3 DEF Flushed, Return, Handle, Cancelled
  <2> QED
    BY <1>3, <2>1, <2>2, <2>3
<1>4. CASE WriteEnvelope
  <2>1. stdio' = Append(stdio, answer) \/ stdio' = Append(stdio, "failure")
    BY <1>4 DEF WriteEnvelope
  <2>2. stdio' \in Seq(Envelope)
    <3>1. answer \in Envelope /\ "failure" \in Envelope /\ stdio \in Seq(Envelope)
      BY <1>0
    <3> HIDE DEF Envelope
    <3> QED
      BY <2>1, <3>1
  <2>3. main' \in {"flush", "eflush"} /\ UNCHANGED <<kind, answers, clock, emitted, gone>>
    BY <1>4 DEF WriteEnvelope
  <2>4. main' \in Statements /\ UNCHANGED <<kind, raised, answer, ret, timer, sig, late>>
    BY <2>3
  <2> HIDE DEF Statements, answers, clock
  <2> QED
    BY <1>0, <2>2, <2>3, <2>4
<1>5. CASE Flush
  <2>1. Head(stdio) \in Envelope /\ Tail(stdio) \in Seq(Envelope)
    BY <1>0, <1>5 DEF Flush
  <2>2. emitted' = emitted \/ emitted' = Append(emitted, Head(stdio))
    BY <1>5 DEF Flush
  <2>3. stdio' = Tail(stdio) /\ UNCHANGED <<kind, main, answers, clock, gone>>
    BY <1>5 DEF Flush
  <2>4. emitted' \in Seq(Envelope)
    BY <1>0, <2>1, <2>2
  <2> QED
    BY <1>0, <2>1, <2>3, <2>4
<1>6. CASE Leave
  <2>1. Ending \in {"report", "failure", "odd"}
    BY DEF Ending
  <2>2. /\ gone' = [gone EXCEPT ![cur] = Ending] /\ main' = "gone"
        /\ UNCHANGED <<kind, answers, clock, output>>
    BY <1>6 DEF Leave
  <2>3. gone' \in [Run -> {"no", "report", "failure", "odd"}]
    BY <1>0, <2>1, <2>2
  <2> QED
    BY <1>0, <2>2, <2>3
<1>7. CASE Fire \/ Interrupt \/ Swallowed
  BY <1>0, <1>7 DEF Fire, Interrupt, Swallowed
<1>8. CASE Deliver
  <2>1. main' \in {"disarm", "except", "exit"}
    BY <1>8 DEF Deliver, InTry
  <2> QED
    BY <1>0, <1>8, <2>1 DEF Deliver
<1> QED
  BY <1>1, <1>2, <1>3, <1>4, <1>5, <1>6, <1>7, <1>8, Steps, ElseIsNext DEF Quiet, cellVars

LEMMA CellTypeInvariance == CellSpec => [](CellTypeOK /\ ReadInv)
<1>1. CellInit => CellTypeOK /\ ReadInv
  <2> SUFFICES ASSUME CellInit PROVE CellTypeOK /\ ReadInv
    OBVIOUS
  <2>1. TypeOK /\ ReadInv
    BY InitTypes DEF CellInit
  <2>2. \A S : <<>> \in Seq(S)
    OBVIOUS
  <2> QED
    BY <2>1, <2>2 DEF CellInit, CellTypeOK, Statements, Envelope
<1>2. CellTypeOK /\ ReadInv /\ [CellNext]_cellVars => (CellTypeOK /\ ReadInv)'
  BY StepImplements, AdapterTypes, TypeOKNext DEF CellTypeOK
<1> QED
  BY <1>1, <1>2, PTL DEF CellSpec

\* Every value an adapter's main() handles is of its type.
THEOREM CellTypeCorrect == CellSpec => []CellTypeOK
BY CellTypeInvariance, PTL

\* Whatever an adapter does, and whenever its own deadline fires, it is a
\* process as Supervisor allows them.
LEMMA CellImplementsSupervisor == CellSpec => Spec
<1>1. CellInit => Init
  BY DEF CellInit
<1> QED
  BY <1>1, StepImplements, CellTypeInvariance, PTL DEF CellSpec, Spec

\* So nothing of a cell's process group outlives run_cell.
THEOREM CellGroupGone == CellSpec => []GroupGone
BY CellImplementsSupervisor, SupervisorGroupGone, PTL

-----------------------------------------------------------------------------
(* The adapter's own deadline.                                             *)

LEMMA KindInvNext ==
  ASSUME KindInv, [CellNext]_cellVars
  PROVE  KindInv'
<1> USE DEF KindInv, AtStatement, Goto, answers, clock, output
<1>1. CASE UNCHANGED adapter
  BY <1>1 DEF adapter
<1>2. CASE Begin
  BY <1>2 DEF Begin
<1>3. CASE Arm \/ Raises \/ AgentReturns \/ AgentRaises \/ Disarm \/ Build \/ WriteEnvelope
           \/ Flushed \/ Return \/ Handle
  BY <1>3 DEF Arm, Raises, AgentReturns, AgentRaises, Disarm, Build, WriteEnvelope,
     Flushed, Return, Handle
<1>4. CASE Flush \/ Leave
  BY <1>4 DEF Flush, Leave
<1>5. CASE Fire \/ Interrupt \/ Swallowed
  BY <1>5 DEF Fire, Interrupt, Swallowed
<1>6. CASE Deliver
  <2>1. main' \in {"disarm", "except", "exit"} /\ kind # "command" /\ kind' = kind
    BY <1>6 DEF Deliver, InTry
  <2> QED
    BY <2>1
<1> QED
  BY <1>1, <1>2, <1>3, <1>4, <1>5, <1>6, Steps, ElseIsNext DEF Quiet, cellVars

LEMMA AlarmInvNext ==
  ASSUME CellTypeOK, AlarmInv, [CellNext]_cellVars
  PROVE  AlarmInv'
<1> USE DEF AlarmInv, AtStatement, Goto, answers, clock, output
<1>1. CASE UNCHANGED adapter
  BY <1>1 DEF adapter
<1>2. CASE Begin
  BY <1>2 DEF Begin
<1>3. CASE Arm \/ Raises \/ AgentReturns \/ AgentRaises \/ Build \/ WriteEnvelope
           \/ Flushed \/ Return
  BY <1>3 DEF Arm, Raises, AgentReturns, AgentRaises, Build, WriteEnvelope,
     Flushed, Return
<1>4. CASE Disarm \/ Handle
  BY <1>4 DEF Disarm, Handle, Cancelled
<1>5. CASE Flush \/ Leave
  BY <1>5 DEF Flush, Leave
<1>6. CASE Fire \/ Interrupt \/ Swallowed
  BY <1>6 DEF Fire, Interrupt, Swallowed
<1>7. CASE Deliver
  BY <1>7 DEF Deliver
<1> QED
  BY <1>1, <1>2, <1>3, <1>4, <1>5, <1>6, <1>7, Steps, ElseIsNext DEF Quiet, cellVars

-----------------------------------------------------------------------------
(* The envelope.                                                           *)

LEMMA OneItem ==
  ASSUME NEW e
  PROVE  /\ Append(<<>>, e) = <<e>> /\ Head(<<e>>) = e /\ Tail(<<e>>) = <<>>
         /\ <<e>> # <<>>
OBVIOUS

LEMMA EnvelopeInvQuiet ==
  ASSUME CellTypeOK, KindInv, EnvelopeInv, Quiet
  PROVE  EnvelopeInv'
<1>0. UNCHANGED <<child, code, cur, kind, emitted>> /\ ret \in {0, 1} /\ answer \in Envelope
  BY QuietKeeps DEF vars, procs, harness, CellTypeOK
<1> USE DEF EnvelopeInv, Nothing, Only, Pending, Told, EndedItself, AtStatement, Goto
<1>1. CASE Arm \/ Raises \/ AgentReturns \/ AgentRaises \/ Build \/ Disarm \/ Handle
  BY <1>0, <1>1 DEF Arm, Raises, AgentReturns, AgentRaises, Build, Disarm, Handle,
     answers, clock, output
<1>2. CASE WriteEnvelope
  <2>1. /\ child[cur] = "running" /\ UNCHANGED <<answer, ret, late>>
        /\ \/ main = "write" /\ main' = "flush" /\ stdio' = Append(stdio, answer)
           \/ main = "ewrite" /\ main' = "eflush" /\ stdio' = Append(stdio, "failure")
    BY <1>2 DEF WriteEnvelope, answers, clock
  <2> QED
    BY <1>0, <2>1, OneItem
<1>3. CASE Flushed
  <2>1. /\ child[cur] = "running" /\ UNCHANGED <<answer, ret, late, stdio>> /\ stdio = <<>>
        /\ \/ main = "flush" /\ main' = "return"
           \/ main = "eflush" /\ main' = "ereturn"
    BY <1>3 DEF Flushed, answers, clock, output
  <2> QED
    BY <1>0, <2>1, OneItem
<1>4. CASE Return
  <2>1. /\ child[cur] = "running" /\ UNCHANGED <<answer, late, stdio>> /\ main' = "exit"
        /\ \/ main = "return" /\ ret' = IF answer = "report" THEN 0 ELSE 1
           \/ main = "ereturn" /\ ret' = 1
    BY <1>4 DEF Return, clock, output
  <2>2. answer # "report" => answer = "failure"
    BY <1>0 DEF Envelope
  <2> QED
    BY <1>0, <2>1, <2>2
<1>5. CASE Fire \/ Interrupt \/ Swallowed
  BY <1>0, <1>5 DEF Fire, Interrupt, Swallowed, answers, output
<1>6. CASE Deliver
  <2>1. /\ UNCHANGED <<answer, stdio>> /\ ret' = 1 /\ child[cur] = "running"
        /\ late' = (late \/ main \notin {"agent", "disarm"})
        /\ main = "agent" => main' = "disarm"
        /\ main = "disarm" => main' = "except"
        /\ main \notin {"agent", "disarm"} => main' \in {"except", "exit"}
    BY <1>6 DEF Deliver, output, InTry
  <2>2. CASE main = "agent"
    BY <1>0, <2>1, <2>2
  <2>3. CASE main = "disarm"
    BY <1>0, <2>1, <2>3
  <2>4. CASE main \notin {"agent", "disarm"}
    <3>1. late' = TRUE
      BY <2>1, <2>4
    <3>2. main' \in {"except", "exit"}
      BY <2>1, <2>4
    <3> QED
      BY <1>0, <2>1, <3>1, <3>2
  <2> QED
    BY <2>2, <2>3, <2>4
<1> QED
  BY <1>1, <1>2, <1>3, <1>4, <1>5, <1>6 DEF Quiet

LEMMA EnvelopeInvNext ==
  ASSUME CellTypeOK, CellTypeOK', ProcInv, KindInv, EnvelopeInv, [CellNext]_cellVars
  PROVE  EnvelopeInv'
<1> USE DEF EnvelopeInv, Nothing, Only, Pending, Told, EndedItself
<1>0. cur \in Run /\ TypeOK
  BY DEF CellTypeOK, TypeOK
<1>1. CASE UNCHANGED cellVars
  BY <1>1 DEF cellVars, vars, procs, harness, adapter, answers, clock, output
<1>2. CASE Begin
  <2>1. child'[cur'] = "running" /\ cur' = cur
    BY <1>0, <1>2, BeginKeeps
  <2> QED
    BY <1>2, <2>1 DEF Begin, Goto
<1>3. CASE Quiet
  BY <1>3, EnvelopeInvQuiet
<1>4. CASE Flush
  <2>1. /\ child[cur] = "running" /\ main \in {"flush", "eflush", "exit"} /\ stdio # <<>>
        /\ stdio' = Tail(stdio) /\ UNCHANGED <<kind, main, answer, ret, late, cur>>
    BY <1>4 DEF Flush, AtStatement, Write, answers, clock, harness
  <2>2. \/ emitted' = Append(emitted, Head(stdio)) /\ child'[cur] = "running"
        \/ emitted' = emitted /\ child'[cur] = "exited"
    <3>1. CASE HasReader(cur)
      BY <1>4, <2>1, <3>1 DEF Flush, Write, procs
    <3>2. CASE ~HasReader(cur)
      BY <1>0, <1>4, <3>2 DEF Flush, Write, TypeOK
    <3> QED
      BY <3>1, <3>2
  <2>3. ret # 0 /\ ~(main = "exit" /\ ~late)
    BY <2>1, OneItem DEF CellTypeOK
  <2>4. CASE main = "exit"
    BY <2>1, <2>2, <2>3, <2>4
  <2>5. CASE main = "flush"
    BY <2>1, <2>2, <2>3, <2>5, OneItem
  <2>6. CASE main = "eflush"
    BY <2>1, <2>2, <2>3, <2>6, OneItem
  <2> QED
    BY <2>1, <2>4, <2>5, <2>6
<1>5. CASE Leave
  <2>1. /\ child[cur] = "running" /\ main = "exit" /\ stdio = <<>> /\ main' = "gone"
        /\ UNCHANGED <<kind, ret, late, answer, stdio, emitted, cur>>
        /\ child' = [child EXCEPT ![cur] = "exited"] /\ code' = [code EXCEPT ![cur] = ret]
    BY <1>5 DEF Leave, AtStatement, Exit, Goto, answers, clock, output, harness
  <2>2. child'[cur] = "exited" /\ code'[cur] = ret
    BY <1>0, <2>1 DEF TypeOK
  <2> QED
    BY <2>1, <2>2
<1>6. CASE Else
  <2>1. /\ UNCHANGED <<kind, main, ret, late, answer, stdio, emitted>>
        /\ \A k \in Run : child[k] # "running" => child'[k] = child[k] /\ code'[k] = code[k]
        /\ cur' = cur \/ (cur' \in Run /\ child[cur'] = "none")
    BY <1>0, <1>6, ElseKeeps DEF adapter, answers, clock, output
  <2>2. child'[cur'] = "running" => cur' = cur /\ child[cur] = "running"
    BY <1>0, <2>1
  <2>3. main = "gone" /\ child'[cur'] = "exited" =>
          cur' = cur /\ child[cur] = "exited" /\ code'[cur] = code[cur]
    BY <1>0, <2>1
  <2> QED
    BY <2>1, <2>2, <2>3
<1> QED
  BY <1>1, <1>2, <1>3, <1>4, <1>5, <1>6, Steps

LEMMA AdapterInvariance == CellSpec => [](KindInv /\ AlarmInv /\ EnvelopeInv)
<1>1. CellInit => KindInv /\ AlarmInv /\ EnvelopeInv
  BY Facts DEF CellInit, Init, KindInv, AlarmInv, EnvelopeInv, EndedItself, Nothing, Only,
     Pending
<1>2. ( /\ CellTypeOK /\ CellTypeOK' /\ ProcInv /\ KindInv /\ AlarmInv /\ EnvelopeInv
        /\ [CellNext]_cellVars )
        => (KindInv /\ AlarmInv /\ EnvelopeInv)'
  BY KindInvNext, AlarmInvNext, EnvelopeInvNext
<1>3. CellSpec => []ProcInv
  BY CellImplementsSupervisor, ProcInvariance, PTL
<1> QED
  BY <1>1, <1>2, <1>3, CellTypeInvariance, PTL DEF CellSpec

\* The alarm of deepagents never interrupts the writing of an envelope.
THEOREM CellAlarmOnlyInAgent == CellSpec => []AlarmOnlyInAgent
<1>1. AlarmInv => AlarmOnlyInAgent
  BY DEF AlarmInv, AlarmOnlyInAgent
<1> QED
  BY <1>1, AdapterInvariance, PTL

\* An adapter that ends by itself has answered exactly once, as its exit
\* status says; with status 0 also if an interrupt came late.
THEOREM CellOneEnvelope == CellSpec => []OneEnvelope
<1>1. AlarmInv /\ EnvelopeInv => OneEnvelope
  BY DEF AlarmInv, EnvelopeInv, OneEnvelope, Only, Told
<1> QED
  BY <1>1, AdapterInvariance, PTL

-----------------------------------------------------------------------------
(* From the adapter to the recorded result.                                *)

LEMMA NotNone == KindInv /\ (Quiet \/ Flush \/ Leave) => main # "none"
BY DEF KindInv, Quiet, Flush, Leave, Arm, Raises, AgentReturns, AgentRaises, Disarm, Build,
   WriteEnvelope, Flushed, Return, Handle, Fire, Interrupt, Swallowed, Deliver, AtStatement

\* One more answer is sent and emitted.
LEMMA FlushSends ==
  ASSUME CellTypeOK, SentInv, KindInv, Flush, HasReader(cur)
  PROVE  /\ UNCHANGED <<child, code, cur, main>>
         /\ \A k \in Run \ {cur} : sent'[k] = sent[k]
         /\ Len(sent'[cur]) = Len(emitted')
         /\ \A i \in 1 .. Len(sent'[cur]) : sent'[cur][i] = "answer"
<1>1. /\ sent' = [sent EXCEPT ![cur] = Append(@, "answer")]
      /\ emitted' = Append(emitted, Head(stdio)) /\ child[cur] = "running"
      /\ UNCHANGED <<child, code, cur, main>>
  BY DEF Flush, Write, procs, harness
<1>2. /\ cur \in Run /\ sent[cur] \in Seq(Content) /\ emitted \in Seq(Envelope)
      /\ stdio # <<>> /\ stdio \in Seq(Envelope)
  BY DEF CellTypeOK, TypeOK, Flush
<1>3. Head(stdio) \in Envelope /\ "answer" \in Content
  BY <1>2 DEF Content
<1>4. sent'[cur] = Append(sent[cur], "answer") /\ \A k \in Run \ {cur} : sent'[k] = sent[k]
  BY <1>1 DEF CellTypeOK, TypeOK
<1>5. /\ Len(sent[cur]) = Len(emitted)
      /\ \A i \in 1 .. Len(sent[cur]) : sent[cur][i] = "answer"
  BY <1>1, NotNone DEF SentInv
<1>6. /\ Len(sent[cur]) \in Nat /\ Len(sent'[cur]) = Len(sent[cur]) + 1
      /\ \A i \in 1 .. Len(sent[cur]) : sent'[cur][i] = sent[cur][i]
      /\ sent'[cur][Len(sent[cur]) + 1] = "answer"
  BY <1>2, <1>3, <1>4, AppendProperties
<1>7. Len(emitted') = Len(emitted) + 1
  BY <1>1, <1>2, <1>3, AppendProperties
<1> QED
  BY <1>1, <1>4, <1>5, <1>6, <1>7

LEMMA SentInvNext ==
  ASSUME CellTypeOK, ProcInv, KindInv, SentInv, [CellNext]_cellVars
  PROVE  SentInv'
<1>0. cur \in Run /\ TypeOK
  BY DEF CellTypeOK, TypeOK
<1>1. CASE UNCHANGED cellVars
  BY <1>1 DEF SentInv, cellVars, vars, procs, pipes, harness, adapter, output
<1>2. CASE Begin
  <2>1. /\ UNCHANGED <<sent, cur>> /\ child[cur] = "none" /\ child'[cur] = "running"
        /\ \A k \in Run \ {cur} : child'[k] = child[k]
    BY <1>0, <1>2, BeginKeeps
  <2>2. emitted' = <<>> /\ sent'[cur'] = <<>>
    BY <1>0, <1>2, <2>1 DEF Begin, SentInv
  <2>3. Len(<<>>) = 0 /\ 1 .. 0 = {}
    OBVIOUS
  <2> QED
    BY <1>0, <2>1, <2>2, <2>3 DEF SentInv
<1>3. CASE Quiet
  BY <1>3, QuietKeeps, NotNone DEF SentInv, vars, procs, pipes, harness
<1>4. CASE Flush /\ HasReader(cur)
  <2>1. /\ UNCHANGED <<child, code, cur, main>>
        /\ \A k \in Run \ {cur} : sent'[k] = sent[k]
        /\ Len(sent'[cur]) = Len(emitted')
        /\ \A i \in 1 .. Len(sent'[cur]) : sent'[cur][i] = "answer"
    BY <1>4, NotNone, FlushSends
  <2>2. child[cur] = "running"
    BY <1>4 DEF Flush, Write
  <2> QED
    BY <1>0, <2>1, <2>2 DEF SentInv
<1>5. CASE (Flush /\ ~HasReader(cur)) \/ Leave
  <2>1. child' = [child EXCEPT ![cur] = "exited"] /\ UNCHANGED <<sent, cur>>
    BY <1>5 DEF Flush, Leave, Write, Exit, pipes, harness
  <2>2. child'[cur] = "exited" /\ \A k \in Run \ {cur} : child'[k] = child[k]
    BY <1>0, <2>1 DEF TypeOK
  <2> QED
    BY <1>0, <2>1, <2>2 DEF SentInv
<1>6. CASE Else
  <2>1. /\ UNCHANGED <<main, kind, emitted>>
        /\ \A k \in Run : /\ child[k] # "running" => child'[k] = child[k] /\ sent'[k] = sent[k]
                          /\ child[k] = "running" => child'[k] # "none"
        /\ cur' = cur \/ (cur' \in Run /\ child[cur'] = "none")
        /\ kind # "command" => UNCHANGED sent
    BY <1>0, <1>6, ElseKeeps DEF adapter, output
  <2>2. child'[cur'] = "running" => cur' = cur /\ child[cur] = "running"
    BY <1>0, <2>1
  <2>3. main # "none" => kind # "command"
    BY DEF KindInv
  <2>4. \A k \in Run : child'[k] = "none" => sent'[k] = <<>>
    BY <2>1 DEF SentInv
  <2> QED
    BY <2>1, <2>2, <2>3, <2>4 DEF SentInv
<1> QED
  BY <1>1, <1>2, <1>3, <1>4, <1>5, <1>6, Steps

LEMMA GoneInvNext ==
  ASSUME CellTypeOK, ProcInv, KindInv, SentInv, GoneInv, [CellNext]_cellVars
  PROVE  GoneInv'
<1>0. cur \in Run /\ TypeOK
  BY DEF CellTypeOK, TypeOK
\* Whoever is gone stays as it was.
<1>1. ASSUME UNCHANGED gone,
             \A k \in Run : child[k] = "exited" =>
               child'[k] = "exited" /\ code'[k] = code[k] /\ sent'[k] = sent[k]
      PROVE  GoneInv'
  BY <1>1 DEF GoneInv
<1>2. CASE UNCHANGED cellVars
  BY <1>1, <1>2 DEF cellVars, vars, procs, pipes, adapter
<1>3. CASE Begin
  <2>1. /\ UNCHANGED <<code, sent, gone>> /\ child[cur] = "none"
        /\ \A k \in Run \ {cur} : child'[k] = child[k]
    BY <1>0, <1>3, BeginKeeps
  <2> QED
    BY <1>0, <1>1, <2>1
<1>4. CASE Quiet
  BY <1>1, <1>4, QuietKeeps DEF vars, procs, pipes
<1>5. CASE Flush
  <2>1. child[cur] = "running" /\ UNCHANGED gone
    BY <1>5 DEF Flush, Write
  <2>2. \A k \in Run \ {cur} : child'[k] = child[k] /\ code'[k] = code[k] /\ sent'[k] = sent[k]
    BY <1>0, <1>5 DEF Flush, Write, procs, TypeOK
  <2> QED
    BY <1>1, <2>1, <2>2
<1>6. CASE Leave
  <2>1. /\ child[cur] = "running" /\ UNCHANGED sent
        /\ child' = [child EXCEPT ![cur] = "exited"] /\ code' = [code EXCEPT ![cur] = ret]
        /\ gone' = [gone EXCEPT ![cur] = Ending]
    BY <1>6 DEF Leave, Exit, pipes
  <2>2. /\ child'[cur] = "exited" /\ code'[cur] = ret /\ gone'[cur] = Ending
        /\ \A k \in Run \ {cur} :
             child'[k] = child[k] /\ code'[k] = code[k] /\ gone'[k] = gone[k]
    BY <1>0, <2>1 DEF CellTypeOK, TypeOK
  <2>3. Ending \in {"report", "failure"} =>
          /\ sent[cur] = <<"answer">>
          /\ ret = IF Ending = "report" THEN 0 ELSE 1
    <3>1. /\ Ending = "report" => emitted = <<"report">> /\ ret = 0
          /\ Ending = "failure" => emitted = <<"failure">> /\ ret = 1
      BY DEF Ending
    <3>2. /\ Len(sent[cur]) = Len(emitted) /\ sent[cur] \in Seq(Content)
          /\ \A i \in 1 .. Len(sent[cur]) : sent[cur][i] = "answer"
      BY <1>0, <1>6, <2>1, NotNone DEF SentInv, TypeOK
    <3>3. Len(sent[cur]) = 1 => sent[cur] = <<"answer">>
      <4> SUFFICES ASSUME Len(sent[cur]) = 1 PROVE sent[cur] = <<"answer">>
        OBVIOUS
      <4> DEFINE s == sent[cur]
                 t == <<"answer">>
      <4>1. s \in Seq(Content) /\ t \in Seq(Content) /\ Len(s) = 1 /\ Len(t) = 1
        BY <3>2 DEF Content
      <4>2. \A i \in 1 .. Len(s) : s[i] = t[i]
        BY <3>2
      <4> HIDE DEF s, t
      <4>3. s = t
        BY <4>1, <4>2, SeqEqual
      <4> QED
        BY <4>3 DEF s, t
    <3>4. Len(<<"report">>) = 1 /\ Len(<<"failure">>) = 1
      OBVIOUS
    <3> QED
      BY <3>1, <3>2, <3>3, <3>4
  <2> QED
    BY <2>1, <2>2, <2>3 DEF GoneInv
<1>7. CASE Else
  <2>1. /\ UNCHANGED gone
        /\ \A k \in Run : child[k] # "running" => child'[k] = child[k] /\ code'[k] = code[k]
                                                  /\ sent'[k] = sent[k]
    BY <1>0, <1>7, ElseKeeps DEF adapter
  <2> QED
    BY <1>1, <2>1
<1> QED
  BY <1>2, <1>3, <1>4, <1>5, <1>6, <1>7, Steps

LEMMA GoneInvariance == CellSpec => [](SentInv /\ GoneInv)
<1>1. CellInit => SentInv /\ GoneInv
  BY Facts DEF CellInit, Init, SentInv, GoneInv
<1>2. CellSpec => []ProcInv
  BY CellImplementsSupervisor, ProcInvariance, PTL
<1>3. ( /\ CellTypeOK /\ ProcInv /\ KindInv /\ SentInv /\ GoneInv
        /\ [CellNext]_cellVars )
        => (SentInv /\ GoneInv)'
  BY SentInvNext, GoneInvNext
<1> QED
  BY <1>1, <1>2, <1>3, CellTypeInvariance, AdapterInvariance, PTL DEF CellSpec

LEMMA CellOutput == CellSpec => [](TypeOK /\ ProcInv /\ OutputInv)
BY CellImplementsSupervisor, OutputInvariance, PTL

\* End to end: the result of a cell is what its adapter answered in time.
THEOREM CellAdapterRecorded == CellSpec => []AdapterRecorded
<1>1. TypeOK /\ ProcInv /\ OutputInv /\ GoneInv => AdapterRecorded
  <2> SUFFICES ASSUME TypeOK, ProcInv, OutputInv, GoneInv, NEW k \in Run,
                      k \notin MayDetach, Recorded(k), ~expired[k], Clear(k)
               PROVE  /\ gone[k] = "report" => result[k] = [reason |-> "ok", response |-> TRUE]
                      /\ gone[k] = "failure" =>
                           result[k] = [reason |-> "nonzero_exit", response |-> TRUE]
    BY DEF AdapterRecorded
  <2>1. Truthful(k)
    BY DEF ProcInv, OutputInv, ResultInv
  <2>2. result[k] \in [reason : Reason, response : BOOLEAN]
    BY DEF TypeOK
  <2>3. CASE gone[k] = "report"
    <3>1. child[k] = "exited" /\ sent[k] = <<"answer">> /\ code[k] = 0
      BY <2>3 DEF GoneInv
    <3>2. result[k].reason = "ok" /\ result[k].response
      BY <2>1, <3>1 DEF Truthful
    <3> QED
      BY <2>2, <2>3, <3>2
  <2>4. CASE gone[k] = "failure"
    <3>1. child[k] = "exited" /\ sent[k] = <<"answer">> /\ code[k] = 1
      BY <2>4 DEF GoneInv
    <3>2. result[k].reason = "nonzero_exit" /\ result[k].response
      BY <2>1, <3>1 DEF Truthful
    <3> QED
      BY <2>2, <2>4, <3>2
  <2> QED
    BY <2>3, <2>4
<1> QED
  BY <1>1, CellOutput, GoneInvariance, PTL

\* What Supervisor promises of any process it promises of a cell.
THEOREM CellVerdicts ==
  CellSpec => /\ [](VerdictTruthful /\ AnswerKept /\ NoForeignOutput)
              /\ LogFinal
BY CellImplementsSupervisor, SupervisorVerdictTruthful, SupervisorAnswerKept,
   SupervisorNoForeignOutput, SupervisorLogFinal, PTL
=============================================================================
