------------------------------- MODULE CellRun -------------------------------
(***************************************************************************)
(* Supervisor with the adapters of src/frameworks as its processes: main() *)
(* of pydantic-ai/adapter.py and deepagents/adapter.py, and their own      *)
(* deadline a few seconds before the harness's.                            *)
(*                                                                         *)
(* pydantic-ai starts a threading.Timer that sends SIGINT to its process;  *)
(* cancelling comes too late for a timer that has decided to fire.         *)
(* deepagents arms an interval timer whose SIGALRM the kernel delivers; it *)
(* cannot come after the timer is disarmed.  Python runs a handler in the  *)
(* main thread before its next statement; the handler raises there.        *)
(*                                                                         *)
(* A "command" (a test, a setup, another framework) may do anything a      *)
(* Supervisor process may do.                                              *)
(***************************************************************************)
EXTENDS Supervisor

CONSTANT Kinds  \* Kinds[k]: what run k may start

ASSUME CellRunAssumption ==
  /\ Kinds \in [Run -> (SUBSET {"pydantic", "deepagents", "command"}) \ {{}}]
  /\ "answer" \in Emits  \* the envelope an adapter writes

VARIABLES
  kind,    \* what the current process is
  main,    \* the next statement of its main()
  raised,  \* an exception is on its way through the finally clause
  answer,  \* the envelope of the normal path
  ret,     \* the value main() returns
  timer,   \* "off", "armed", "firing" (past the point of cancelling), "fired"
  sig,     \* a signal has arrived whose handler has not run
  stdio,   \* envelopes in the buffer of sys.stdout
  emitted, \* envelopes in the pipe
  late,    \* history: a handler ran outside the agent and its finally clause
  gone     \* history: gone[k], how the adapter of run k ended

answers == <<raised, answer, ret>>
clock == <<timer, sig, late>>
output == <<stdio, emitted>>
adapter == <<kind, main, answers, clock, output, gone>>
cellVars == <<vars, adapter>>

Statements == {"none", "setup", "agent", "disarm", "build", "write", "flush",
               "return", "except", "ewrite", "eflush", "ereturn", "exit", "gone"}
Envelope == {"report", "failure"}

CellInit ==
  /\ Init
  /\ kind = "command" /\ main = "none"
  /\ raised = FALSE /\ answer = "failure" /\ ret = 1
  /\ timer = "off" /\ sig = FALSE /\ late = FALSE
  /\ stdio = <<>> /\ emitted = <<>>
  /\ gone = [k \in Run |-> "no"]

-----------------------------------------------------------------------------
(* main()                                                                  *)

\* The main thread is at this statement and no handler is due.
AtStatement(m) ==
  /\ child[cur] = "running" /\ main = m /\ ~sig

Goto(m) == main' = m

\* The request is read, the agent built, the timer started.
Arm ==
  /\ AtStatement("setup") /\ Goto("agent")
  /\ timer' = "armed"
  /\ UNCHANGED <<vars, kind, answers, sig, late, output, gone>>

\* Any statement of the try block may raise.
Raises ==
  /\ \E m \in {"setup", "build"} : AtStatement(m)
  /\ Goto("except")
  /\ UNCHANGED <<vars, kind, answers, clock, output, gone>>

\* run_sync returns a validated report; invoke may end without one.
AgentReturns ==
  /\ AtStatement("agent") /\ Goto("disarm")
  /\ answer' \in IF kind = "pydantic" THEN {"report"} ELSE Envelope
  /\ raised' = FALSE
  /\ UNCHANGED <<vars, kind, ret, clock, output, gone>>

AgentRaises ==
  /\ AtStatement("agent") /\ Goto("disarm")
  /\ raised' = TRUE
  /\ UNCHANGED <<vars, kind, answer, ret, clock, output, gone>>

Cancelled == IF timer = "armed" THEN "off" ELSE timer

\* The finally clause.
Disarm ==
  /\ AtStatement("disarm")
  /\ Goto(IF raised THEN "except" ELSE "build")
  /\ timer' = Cancelled
  /\ UNCHANGED <<vars, kind, answers, sig, late, output, gone>>

Build ==
  /\ AtStatement("build") /\ Goto("write")
  /\ UNCHANGED <<vars, kind, answers, clock, output, gone>>

WriteEnvelope ==
  /\ \/ AtStatement("write") /\ Goto("flush") /\ stdio' = Append(stdio, answer)
     \/ AtStatement("ewrite") /\ Goto("eflush") /\ stdio' = Append(stdio, "failure")
  /\ UNCHANGED <<vars, kind, answers, clock, emitted, gone>>

\* sys.stdout.flush(), or the flush at exit.
Flush ==
  /\ \E m \in {"flush", "eflush", "exit"} : AtStatement(m)
  /\ stdio # <<>> /\ Write(cur, "answer")
  /\ stdio' = Tail(stdio)
  /\ emitted' = IF HasReader(cur) THEN Append(emitted, Head(stdio)) ELSE emitted
  /\ UNCHANGED <<kind, main, answers, clock, gone>>

Flushed ==
  /\ stdio = <<>>
  /\ \/ AtStatement("flush") /\ Goto("return")
     \/ AtStatement("eflush") /\ Goto("ereturn")
  /\ UNCHANGED <<vars, kind, answers, clock, output, gone>>

\* Mutant: a failure without an exception returns 0.
ReturnZero ==
  /\ \/ AtStatement("return") /\ ret' = 0
     \/ AtStatement("ereturn") /\ ret' = 1
  /\ Goto("exit")
  /\ UNCHANGED <<vars, kind, raised, answer, clock, output, gone>>

Return ==
  /\ \/ AtStatement("return") /\ ret' = IF answer = "report" THEN 0 ELSE 1
     \/ AtStatement("ereturn") /\ ret' = 1
  /\ Goto("exit")
  /\ UNCHANGED <<vars, kind, raised, answer, clock, output, gone>>

\* except BaseException: stop the timer, then answer with the error.
Handle ==
  /\ AtStatement("except") /\ Goto("ewrite")
  /\ timer' = Cancelled
  /\ UNCHANGED <<vars, kind, answers, sig, late, output, gone>>

Ending == IF emitted = <<"report">> /\ ret = 0 THEN "report"
          ELSE IF emitted = <<"failure">> /\ ret = 1 THEN "failure" ELSE "odd"

\* The interpreter may take its time: it joins the threads of running tools.
Leave ==
  /\ AtStatement("exit") /\ stdio = <<>> /\ Exit(cur, ret)
  /\ Goto("gone")
  /\ gone' = [gone EXCEPT ![cur] = Ending]
  /\ UNCHANGED <<kind, answers, clock, output>>

Main ==
  \/ Arm \/ Raises \/ AgentReturns \/ AgentRaises \/ Disarm \/ Build
  \/ WriteEnvelope \/ Flush \/ Flushed \/ Return \/ Handle \/ Leave

-----------------------------------------------------------------------------
(* The deadline                                                            *)

\* The Timer thread finds itself not cancelled; the kernel's timer expires.
Fire ==
  /\ child[cur] = "running" /\ timer = "armed"
  /\ IF kind = "pydantic" THEN timer' = "firing" /\ UNCHANGED sig
                          ELSE timer' = "fired" /\ sig' = TRUE
  /\ UNCHANGED <<vars, kind, main, answers, late, output, gone>>

\* os.kill(os.getpid(), SIGINT)
Interrupt ==
  /\ child[cur] = "running" /\ timer = "firing"
  /\ timer' = "fired" /\ sig' = TRUE
  /\ UNCHANGED <<vars, kind, main, answers, late, output, gone>>

\* _AdapterTimeout is an Exception: code the agent calls may catch it.
Swallowed ==
  /\ child[cur] = "running" /\ sig /\ kind = "deepagents" /\ main = "agent"
  /\ sig' = FALSE
  /\ UNCHANGED <<vars, kind, main, answers, timer, late, output, gone>>

InTry == {"agent", "disarm", "build", "write", "flush", "return"}

\* The handler raises at the statement at hand: inside the try block the
\* except clause answers, after it the exception leaves main().
Deliver ==
  /\ child[cur] = "running" /\ sig
  /\ sig' = FALSE
  /\ raised' = TRUE
  /\ Goto(CASE main = "agent" -> "disarm"
            [] main \in InTry \ {"agent"} -> "except"
            [] OTHER -> "exit")
  /\ ret' = 1
  /\ late' = (late \/ main \notin {"agent", "disarm"})
  /\ UNCHANGED <<vars, kind, answer, timer, output, gone>>

-----------------------------------------------------------------------------

\* Popen starts one of the adapters, or something else.
Begin ==
  /\ Spawn
  /\ kind' \in Kinds[cur]
  /\ Goto(IF kind' = "command" THEN "none" ELSE "setup")
  /\ raised' = FALSE /\ answer' = "failure" /\ ret' = 1
  /\ timer' = "off" /\ sig' = FALSE /\ late' = FALSE
  /\ stdio' = <<>> /\ emitted' = <<>>
  /\ UNCHANGED gone

\* The rest of Supervisor: the harness, its threads, descendants, and a
\* command's own writing and exiting.
Else ==
  /\ \/ WaitReturns \/ Deadline \/ Term \/ GraceEnds \/ Kill
     \/ JoinStdin \/ Join \/ Close \/ Collect
     \/ \E k \in Run :
          \/ Pump(k) \/ StdinEnds(k)
          \/ Fork(k) \/ Detach(k) \/ GroupEnds(k) \/ LooseEnds(k)
          \/ LooseWrites(k) \/ TermKills(k)
          \/ /\ kind = "command"
             /\ \/ \E w \in Emits : Write(k, w)
                \/ \E c \in {0, 1} : Exit(k, c)
     \/ AllDone
  /\ UNCHANGED adapter

CellNext == Begin \/ Main \/ Fire \/ Interrupt \/ Swallowed \/ Deliver \/ Else

\* As in Supervisor: nothing is assumed of the adapters.
CellFairness ==
  /\ WF_cellVars(Begin)
  /\ WF_cellVars((Harness \/ AllDone) /\ UNCHANGED adapter)
  /\ \A k \in Run :
       /\ WF_cellVars(Pump(k) /\ UNCHANGED adapter)
       /\ WF_cellVars(~Writers(k) /\ StdinEnds(k) /\ UNCHANGED adapter)

CellSpec == CellInit /\ [][CellNext]_cellVars /\ CellFairness

-----------------------------------------------------------------------------
(* Properties                                                              *)

CellTypeOK ==
  /\ TypeOK
  /\ kind \in {"pydantic", "deepagents", "command"} /\ main \in Statements
  /\ raised \in BOOLEAN /\ answer \in Envelope /\ ret \in {0, 1}
  /\ timer \in {"off", "armed", "firing", "fired"}
  /\ sig \in BOOLEAN /\ late \in BOOLEAN
  /\ stdio \in Seq(Envelope) /\ emitted \in Seq(Envelope)
  /\ gone \in [Run -> {"no", "report", "failure", "odd"}]

\* The adapter of the current run has ended by itself.
EndedItself == main = "gone" /\ child[cur] = "exited"

\* SIGALRM only ever interrupts the agent or its finally clause, never the
\* writing of an envelope.
AlarmOnlyInAgent == kind = "deepagents" => ~late

\* An adapter that ends by itself has put exactly one envelope on stdout, and
\* its exit status says which.  Status 0 is the promise of one report
\* whenever the interrupt comes; only pydantic-ai's can come so late that it
\* spoils the other answer.
OneEnvelope ==
  EndedItself =>
    /\ code[cur] = 0 => emitted = <<"report">>
    /\ code[cur] = 1 /\ (kind = "deepagents" \/ ~late) => emitted = <<"failure">>

\* End to end: what an adapter answered in time is what the cell records,
\* a report as ok and a failure as nonzero_exit, each with response.json.
AdapterRecorded ==
  \A k \in Run \ MayDetach :
    Recorded(k) /\ ~expired[k] /\ Clear(k) =>
      /\ gone[k] = "report" => result[k] = [reason |-> "ok", response |-> TRUE]
      /\ gone[k] = "failure" =>
           result[k] = [reason |-> "nonzero_exit", response |-> TRUE]
=============================================================================
