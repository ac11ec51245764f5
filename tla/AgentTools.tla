----------------------------- MODULE AgentTools -----------------------------
(***************************************************************************)
(* What an agent does inside an adapter of src/frameworks: the editing     *)
(* tools of pydantic-ai/adapter.py with their edit constraints, the limit  *)
(* on changed files as the harness checks it on the diff                   *)
(* (check_edit_constraints of pipeline.py), and the trace both adapters    *)
(* make of the conversation (_messages_to_trace).                          *)
(*                                                                         *)
(* The agent library (external) runs the tool calls of one response in     *)
(* parallel threads and hands their results to the model when all of them  *)
(* are over, in any order.                                                 *)
(*                                                                         *)
(* Calls are numbered.  A file's content is the set of the calls whose     *)
(* edits are in it: the empty set as long as, and whenever, it is HEAD's.  *)
(***************************************************************************)
EXTENDS Naturals, Sequences, FiniteSets

CONSTANTS Files,       \* the paths an agent may name
          Permitted,   \* those in the repository that the path constraints allow
          Ignored,     \* those that git add leaves out (.gitignore)
          MaxChanged,  \* max_changed_files
          Ids,         \* tool call ids the model may use
          NoId,        \* a call without an id
          Parallel,    \* bound: calls in one response
          MaxCalls     \* bound: calls in all

ASSUME ToolsAssumption ==
  /\ Permitted \cup Ignored \subseteq Files
  /\ {MaxChanged, Parallel, MaxCalls} \subseteq Nat
  /\ NoId \notin Ids

VARIABLES
  calls,    \* the calls of the conversation so far
  first,    \* the number of the first call of the latest response
  running,  \* the library is running the calls of the latest response
  stage,    \* stage[n]: how far call n has got
  read,     \* read[n]: what edit_file found in the file
  content,  \* content[f]
  changed,  \* _CHANGED_FILES
  foreign,  \* history: files a failed write or a shell command has changed
  dropped,  \* history: the calls whose text some call has replaced knowingly
  width,    \* history: the most calls a response had
  clash,    \* history: the files that two calls of one response named
  vague,    \* history: calls of one response had one id, or a call had none
  returned, \* the calls whose result is in the conversation
  pyd,      \* the trace of the pydantic-ai adapter so far
  deep      \* the trace of the deepagents adapter so far

files == <<content, changed, foreign, dropped>>
traces == <<returned, pyd, deep>>
history == <<width, clash, vague>>
vars == <<calls, first, running, stage, read, files, traces, history>>

Tools == {"write_file", "edit_file", "run_shell"}
Call == [tool : Tools, file : Files, id : Ids \cup {NoId}]
Stages == {"queued", "checked", "read", "written", "ok", "error", "retry"}
N == Len(calls)
Unedited == {}    \* HEAD's content
Damaged == {0}    \* some other that no tool call wrote
Pending == 0      \* the result of a step that has none

Init ==
  /\ calls = <<>> /\ first = 1 /\ running = FALSE
  /\ stage = <<>> /\ read = <<>>
  /\ content = [f \in Files |-> Unedited] /\ changed = {}
  /\ foreign = {} /\ dropped = {}
  /\ width = 0 /\ clash = {} /\ vague = FALSE
  /\ returned = {}
  /\ pyd = [steps |-> <<>>, index |-> {}]
  /\ deep = [steps |-> <<>>, byId |-> {}, order |-> {}]

-----------------------------------------------------------------------------
(* The constraints, as the tools check them and as the harness does.       *)

\* Mutant: the limit is reached one file late.
CheckOffByOne(f) ==
  /\ f \in Permitted
  /\ f \in changed \/ Cardinality(changed) <= MaxChanged

\* _resolve_within and _check_edit_constraints
Check(f) ==
  /\ f \in Permitted
  /\ f \in changed \/ Cardinality(changed) + 1 <= MaxChanged

Diff == {f \in Files \ Ignored : content[f] # Unedited}

\* check_edit_constraints: over_max_changed_files
OverMax == Cardinality(Diff) > MaxChanged

-----------------------------------------------------------------------------
(* The traces: a step is a call and the result it shows.                   *)

Step(call, result) == [call |-> call, result |-> result]

\* An index is a set of pairs of an id and a step; a later call replaces
\* an earlier one of the same id.
Put(index, id, i) == {e \in index : e[1] # id} \cup {<<id, i>>}
Known(index, id) == \E e \in index : e[1] = id
At(index, id) == (CHOOSE e \in index : e[1] = id)[2]

\* pydantic-ai: ToolCallPart
PydCall(t, n, id) ==
  LET steps == Append(t.steps, Step(n, Pending))
  IN [steps |-> steps,
      index |-> IF id = NoId THEN t.index ELSE Put(t.index, id, Len(steps))]

\* Mutant: a result goes to the oldest step that has none.
PydReturnInOrder(t, n, id) ==
  LET open == {k \in DOMAIN t.steps : t.steps[k].result = Pending}
  IN [t EXCEPT !.steps[CHOOSE k \in open : \A m \in open : k <= m].result = n]

\* pydantic-ai: ToolReturnPart
PydReturn(t, n, id) ==
  [steps |-> IF id # NoId /\ Known(t.index, id)
               THEN [t.steps EXCEPT ![At(t.index, id)].result = n]
               ELSE Append(t.steps, Step(Pending, n)),
   index |-> t.index]

\* deepagents: the tool_calls of an AIMessage
DeepCall(t, n, id) ==
  LET steps == Append(t.steps, Step(n, Pending))
  IN [steps |-> steps,
      byId |-> IF id = NoId THEN t.byId ELSE Put(t.byId, id, Len(steps)),
      order |-> t.order \cup {Len(steps)}]

\* Mutant: a result whose id is not pending is dropped.
DeepReturnById(t, n, id) ==
  IF id # NoId /\ Known(t.byId, id)
    THEN LET i == At(t.byId, id)
         IN [steps |-> [t.steps EXCEPT ![i].result = n],
             byId |-> {e \in t.byId : e[1] # id},
             order |-> t.order \ {i}]
    ELSE t

\* deepagents: a ToolMessage goes to the step of its id or else to the
\* oldest step without a result; one that finds none stands alone.
\* (pending_order is ever increasing: a set stands for it.)
DeepReturn(t, n, id) ==
  LET open == {k \in t.order : t.steps[k].result = Pending}
      oldest == CHOOSE k \in open : \A j \in open : k <= j
  IN IF id # NoId /\ Known(t.byId, id)
       THEN LET i == At(t.byId, id)
            IN [steps |-> [t.steps EXCEPT ![i].result = n],
                byId |-> {e \in t.byId : e[1] # id},
                order |-> t.order \ {i}]
     ELSE IF open # {}
       THEN [steps |-> [t.steps EXCEPT ![oldest].result = n],
             byId |-> {e \in t.byId : e[2] # oldest},
             order |-> {k \in t.order : k > oldest}]
     ELSE [steps |-> Append(t.steps, Step(Pending, n)),
           byId |-> t.byId, order |-> {}]

-----------------------------------------------------------------------------
(* The model and the library.                                              *)

\* One more call in the response.
Emit ==
  /\ ~running /\ N < MaxCalls /\ N - first + 1 < Parallel
  /\ \E c \in Call :
       /\ calls' = Append(calls, c)
       /\ pyd' = PydCall(pyd, N + 1, c.id)
       /\ deep' = DeepCall(deep, N + 1, c.id)
       /\ clash' = clash \cup {f \in {c.file} : \E n \in first .. N : calls[n].file = f}
       /\ vague' = (vague \/ c.id = NoId \/ \E n \in first .. N : calls[n].id = c.id)
  /\ width' = IF N - first + 2 > width THEN N - first + 2 ELSE width
  /\ stage' = Append(stage, "queued") /\ read' = Append(read, {})
  /\ UNCHANGED <<first, running, files, returned>>

RunResponse ==
  /\ ~running /\ N >= first
  /\ running' = TRUE
  /\ UNCHANGED <<calls, first, stage, read, files, traces, history>>

Finished(n) == stage[n] \in {"ok", "error", "retry"}

NextResponse ==
  /\ running /\ returned = 1 .. N
  /\ running' = FALSE /\ first' = N + 1
  /\ UNCHANGED <<calls, stage, read, files, traces, history>>

\* Pydantic AI answers a call it has not run with a RetryPromptPart, which
\* _messages_to_trace leaves out; deepagents always gets a ToolMessage.
Return(n) ==
  /\ n \notin returned /\ \A m \in 1 .. N : Finished(m)
  /\ returned' = returned \cup {n}
  /\ pyd' = IF stage[n] = "retry" THEN pyd ELSE PydReturn(pyd, n, calls[n].id)
  /\ deep' = DeepReturn(deep, n, calls[n].id)
  /\ UNCHANGED <<calls, first, running, stage, read, files, history>>

-----------------------------------------------------------------------------
(* write_file, edit_file and run_shell, each call in a thread of its own.  *)

Goto(n, s) == stage' = [stage EXCEPT ![n] = s]
InStage(n, s) == running /\ stage[n] = s

\* The library does not accept the call: its arguments are invalid.
Reject(n) ==
  /\ InStage(n, "queued") /\ Goto(n, "retry")
  /\ UNCHANGED <<calls, first, running, read, files, traces, history>>

\* A command may change a file without the tools' knowing.
RunShell(n) ==
  /\ InStage(n, "queued") /\ calls[n].tool = "run_shell" /\ Goto(n, "ok")
  /\ content' = [content EXCEPT ![calls[n].file] = Damaged]
  /\ foreign' = foreign \cup {calls[n].file}
  /\ UNCHANGED <<calls, first, running, read, changed, dropped, traces, history>>

CheckCall(n) ==
  /\ InStage(n, "queued") /\ calls[n].tool # "run_shell"
  /\ Goto(n, IF Check(calls[n].file) THEN "checked" ELSE "error")
  /\ UNCHANGED <<calls, first, running, read, files, traces, history>>

\* The text to replace may not be there.
ReadFile(n) ==
  /\ InStage(n, "checked") /\ calls[n].tool = "edit_file"
  /\ read' = [read EXCEPT ![n] = content[calls[n].file]]
  /\ \E s \in {"read", "error"} : Goto(n, s)
  /\ UNCHANGED <<calls, first, running, files, traces, history>>

Writes(n) == IF calls[n].tool = "edit_file" THEN InStage(n, "read") ELSE InStage(n, "checked")

\* What the call replaces: edit_file one occurrence of a text in what it has
\* read, write_file whatever the file holds.
Old(n) == IF calls[n].tool = "edit_file" THEN read[n] ELSE content[calls[n].file]

\* Mutant: the file is rewritten with the new text alone.
WriteNewOnly(n) ==
  /\ Writes(n) /\ Goto(n, "written")
  /\ content' = [content EXCEPT ![calls[n].file] = {n}]
  /\ UNCHANGED <<calls, first, running, read, changed, foreign, dropped, traces, history>>

\* The new text keeps any part of the old edits; with none of the call's own
\* it takes back what was edited, in the end to HEAD's content.
WriteFile(n) ==
  /\ Writes(n) /\ Goto(n, "written")
  /\ \E text \in SUBSET (Old(n) \cup {n}) :
       /\ content' = [content EXCEPT ![calls[n].file] = text]
       /\ dropped' = dropped \cup ((Old(n) \cup {n}) \ text)
  /\ UNCHANGED <<calls, first, running, read, changed, foreign, traces, history>>

\* The file cannot be opened, or is already truncated when the write fails.
WriteFails(n) ==
  /\ Writes(n) /\ Goto(n, "error")
  /\ \/ UNCHANGED <<content, foreign>>
     \/ /\ content' = [content EXCEPT ![calls[n].file] = Damaged]
        /\ foreign' = foreign \cup {calls[n].file}
  /\ UNCHANGED <<calls, first, running, read, changed, dropped, traces, history>>

\* Mutant: only write_file counts what it has changed.
RecordWriteOnly(n) ==
  /\ InStage(n, "written") /\ Goto(n, "ok")
  /\ changed' = IF calls[n].tool = "write_file" THEN changed \cup {calls[n].file}
                                                ELSE changed
  /\ UNCHANGED <<calls, first, running, read, content, foreign, dropped, traces, history>>

\* _CHANGED_FILES.add
Record(n) ==
  /\ InStage(n, "written") /\ Goto(n, "ok")
  /\ changed' = changed \cup {calls[n].file}
  /\ UNCHANGED <<calls, first, running, read, content, foreign, dropped, traces, history>>

Tool(n) ==
  \/ Reject(n) \/ RunShell(n) \/ CheckCall(n) \/ ReadFile(n)
  \/ WriteFile(n) \/ WriteFails(n) \/ Record(n)

Over == N = MaxCalls /\ returned = 1 .. N /\ UNCHANGED vars

Next ==
  \/ Emit \/ RunResponse \/ NextResponse \/ Over
  \/ \E n \in 1 .. N : Tool(n) \/ Return(n)

Spec == Init /\ [][Next]_vars

-----------------------------------------------------------------------------
(* Properties                                                              *)

TypeOK ==
  /\ calls \in Seq(Call) /\ N <= MaxCalls
  /\ first \in 1 .. N + 1 /\ running \in BOOLEAN
  /\ stage \in Seq(Stages) /\ Len(stage) = N
  /\ read \in Seq(SUBSET Nat) /\ Len(read) = N
  /\ content \in [Files -> SUBSET Nat]
  /\ changed \subseteq Files /\ foreign \subseteq Files /\ dropped \subseteq Nat
  /\ returned \subseteq 1 .. N
  /\ width \in 0 .. Parallel /\ clash \subseteq Files /\ vague \in BOOLEAN
  /\ \A n \in 1 .. N : (n < first => n \in returned) /\ (n \in returned => Finished(n))

\* One call at a time keeps the limit on changed files; calls that run in
\* parallel may pass the check together, but overrun it by no more than the
\* others of one response.  (A write that fails and a shell command change
\* files that are never counted.)
OverrunBounded ==
  /\ width > 0 => Cardinality(Diff \ foreign) <= MaxChanged + width - 1
  /\ width <= 1 /\ foreign = {} => ~OverMax

\* Whatever the harness finds changed is in _CHANGED_FILES, or changed by a
\* failed write or the shell, or written by a call that is about to count it.
\* (The set may hold more: files whose content was restored, ignored ones.)
ChangesCounted ==
  Diff \subseteq changed \cup foreign
    \cup {calls[n].file : n \in {m \in 1 .. N : stage[m] = "written"}}

\* write_file and edit_file: what a call wrote is in the file until a call
\* that knew of it replaces it, unless two calls of one response are about
\* the same file, or a failed write or the shell has changed it.
EditsKept ==
  \A n \in 1 .. N :
    LET f == calls[n].file
    IN stage[n] \in {"written", "ok"} /\ f \notin clash \cup foreign
         => n \in content[f] \cup dropped

\* The calls whose result is a result of the tool.
Answered == {n \in returned : stage[n] # "retry"}

\* If every call has an id that is unique in its response, both traces
\* show every call once, with its own result, in whatever order the results
\* come; but pydantic-ai's shows none for a call that is to be retried.
TraceExact ==
  LET Exactly(S) == [n \in 1 .. N |-> Step(n, IF n \in S THEN n ELSE Pending)]
  IN ~vague => pyd.steps = Exactly(Answered) /\ deep.steps = Exactly(returned)

\* Whatever the ids, the deepagents trace shows every result exactly once.
NothingLost ==
  \A n \in returned :
    Cardinality({i \in DOMAIN deep.steps : deep.steps[i].result = n}) = 1
=============================================================================
