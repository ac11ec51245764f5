-------------------------- MODULE AgentToolsProofs --------------------------
(***************************************************************************)
(* Proofs about the editing tools and the traces, for any files, limits,   *)
(* ids and lengths of conversations, and for any interleaving of the calls *)
(* of a response.                                                          *)
(***************************************************************************)
EXTENDS AgentTools, FiniteSetTheorems, SequenceTheorems, TLAPS

-----------------------------------------------------------------------------
(* Sequences.                                                              *)

LEMMA AppendFacts ==
  ASSUME NEW S, NEW s \in Seq(S), NEW e \in S
  PROVE  /\ Append(s, e) \in Seq(S) /\ Len(Append(s, e)) = Len(s) + 1
         /\ Len(s) \in Nat
         /\ \A i \in 1 .. Len(s) : Append(s, e)[i] = s[i] /\ s[i] \in S
         /\ Append(s, e)[Len(s) + 1] = e
OBVIOUS

LEMMA UpdateFacts ==
  ASSUME NEW S, NEW s \in Seq(S), NEW n \in 1 .. Len(s), NEW e \in S
  PROVE  /\ [s EXCEPT ![n] = e] \in Seq(S) /\ Len([s EXCEPT ![n] = e]) = Len(s)
         /\ \A i \in 1 .. Len(s) : i # n => [s EXCEPT ![n] = e][i] = s[i]
         /\ [s EXCEPT ![n] = e][n] = e
OBVIOUS

-----------------------------------------------------------------------------
(* Sets of numbers.                                                        *)

LEMMA LessIsWellFounded ==
  \E R : IsWellFoundedOn(R, Nat) /\ \A i, j \in Nat : <<i, j>> \in R <=> i < j
<1> DEFINE R == {ss \in Nat \X Nat : ss[1] < ss[2]}
<1>1. \A i, j \in Nat : <<i, j>> \in R <=> i < j
  OBVIOUS
<1>2. IsWellFoundedOn(R, Nat)
  BY NatLessThanWellFounded DEF OpToRel
<1> QED
  BY <1>1, <1>2

LEMMA SmallestOf ==
  ASSUME NEW T \in SUBSET Nat, T # {}
  PROVE  \E k \in T : \A j \in T : k <= j
<1>1. PICK R : IsWellFoundedOn(R, Nat) /\ \A i, j \in Nat : <<i, j>> \in R <=> i < j
  BY LessIsWellFounded
<1>2. T \subseteq Nat
  OBVIOUS
<1>3. IsWellFoundedOn(R, Nat)
  BY <1>1
<1>4. PICK k \in T : \A j \in T : ~(<<j, k>> \in R)
  BY <1>2, <1>3, WFMin, Zenon
<1>5. ASSUME NEW j \in T PROVE k <= j
  <2>1. j \in Nat /\ k \in Nat /\ ~(j < k)
    BY <1>1, <1>4
  <2> QED
    BY <2>1
<1> QED
  BY <1>5

-----------------------------------------------------------------------------
(* Type correctness.                                                       *)

LEMMA Facts ==
  /\ MaxChanged \in Nat /\ Parallel \in Nat /\ MaxCalls \in Nat
  /\ NoId \notin Ids
BY ToolsAssumption

LEMMA CallFacts ==
  ASSUME TypeOK, NEW n \in 1 .. N
  PROVE  /\ N \in Nat /\ n \in 1 .. Len(calls) /\ calls[n] \in Call
         /\ calls[n].file \in Files /\ calls[n].id \in Ids \cup {NoId}
         /\ stage[n] \in Stages
         /\ read[n] \in SUBSET Nat
<1>1. N \in Nat /\ n \in 1 .. Len(calls) /\ n \in 1 .. Len(stage) /\ n \in 1 .. Len(read)
  BY DEF TypeOK, N
<1>2. calls[n] \in Call
  BY <1>1 DEF TypeOK
<1>3. stage[n] \in Stages /\ read[n] \in SUBSET Nat
  BY <1>1 DEF TypeOK
<1> QED
  BY <1>1, <1>2, <1>3 DEF Call

LEMMA TypeOKInit == Init => TypeOK
<1> SUFFICES ASSUME Init PROVE TypeOK
  OBVIOUS
<1>1. Len(<<>>) = 0 /\ \A S : <<>> \in Seq(S)
  OBVIOUS
<1>2. N = 0
  BY <1>1 DEF Init, N
<1>3. first \in 1 .. N + 1 /\ width \in 0 .. Parallel /\ N <= MaxCalls
  BY <1>2, Facts DEF Init
<1>4. \A n \in 1 .. N : FALSE
  BY <1>2
<1> QED
  BY <1>1, <1>2, <1>3, <1>4 DEF Init, TypeOK, Unedited

\* A step of a call moves that call alone.
LEMMA ToolFrame ==
  ASSUME TypeOK, NEW n \in 1 .. N, Tool(n)
  PROVE  /\ UNCHANGED <<calls, first, running, returned, pyd, deep, width,
                        clash, vague>>
         /\ running /\ stage[n] \in {"queued", "checked", "read", "written"}
         /\ stage' \in Seq(Stages) /\ Len(stage') = N
         /\ \A m \in 1 .. N : m # n => stage'[m] = stage[m]
<1> calls[n].file \in Files /\ N \in Nat /\ stage[n] \in Stages
  BY CallFacts
<1> USE DEF TypeOK, Goto, InStage, Stages, traces, history, files
<1>1. CASE CheckCall(n)
  BY <1>1 DEF CheckCall
<1>2. CASE ReadFile(n)
  BY <1>2 DEF ReadFile
<1>3. CASE WriteFile(n)
  BY <1>3 DEF WriteFile, Writes
<1>4. CASE WriteFails(n)
  BY <1>4 DEF WriteFails, Writes
<1>5. CASE Record(n)
  BY <1>5 DEF Record
<1>6. CASE Reject(n)
  BY <1>6 DEF Reject
<1>7. CASE RunShell(n)
  BY <1>7 DEF RunShell
<1> QED
  BY <1>1, <1>2, <1>3, <1>4, <1>5, <1>6, <1>7 DEF Tool

LEMMA TypeOKTool ==
  ASSUME TypeOK, NEW n \in 1 .. N, Tool(n) PROVE TypeOK'
<1>1. calls[n].file \in Files /\ N \in Nat /\ N' = N
  BY ToolFrame, CallFacts DEF N
<1>2. \A m \in 1 .. N : m \in returned => Finished(m)'
  BY ToolFrame DEF TypeOK, Finished
<1> DEFINE Data == /\ read' \in Seq(SUBSET Nat) /\ Len(read') = N
                   /\ content' \in [Files -> SUBSET Nat]
                   /\ changed' \subseteq Files /\ foreign' \subseteq Files
                   /\ dropped' \subseteq Nat
<1>3. Data
  <2> USE <1>1 DEF TypeOK, files
  <2>1. CASE CheckCall(n)
    BY <2>1 DEF CheckCall
  <2>2. CASE ReadFile(n)
    <3>1. content[calls[n].file] \in SUBSET Nat
      OBVIOUS
    <3> QED
      BY <2>2, <3>1, UpdateFacts DEF ReadFile
  <2>3. CASE WriteFile(n)
    <3>1. PICK text \in SUBSET (Old(n) \cup {n}) :
            /\ content' = [content EXCEPT ![calls[n].file] = text]
            /\ dropped' = dropped \cup ((Old(n) \cup {n}) \ text)
      BY <2>3 DEF WriteFile
    <3>2. Old(n) \cup {n} \in SUBSET Nat
      BY CallFacts DEF Old
    <3>3. content' \in [Files -> SUBSET Nat] /\ dropped' \subseteq Nat
      BY <3>1, <3>2
    <3> QED
      BY <2>3, <3>3 DEF WriteFile
  <2>4. CASE WriteFails(n)
    BY <2>4 DEF WriteFails, Damaged
  <2>5. CASE Record(n)
    BY <2>5 DEF Record
  <2>6. CASE Reject(n)
    BY <2>6 DEF Reject
  <2>7. CASE RunShell(n)
    BY <2>7 DEF RunShell, Damaged
  <2> QED
    BY <2>1, <2>2, <2>3, <2>4, <2>5, <2>6, <2>7 DEF Tool
<1> QED
  BY <1>1, <1>2, <1>3, ToolFrame DEF TypeOK, Finished

LEMMA TypeOKEmit == ASSUME TypeOK, Emit PROVE TypeOK'
<1> PICK c \in Call : /\ calls' = Append(calls, c)
                      /\ clash' \subseteq Files /\ vague' \in BOOLEAN
  <2>1. ASSUME NEW P, NEW Q PROVE (P \/ Q) \in BOOLEAN
    OBVIOUS
  <2> QED
    BY <2>1 DEF Emit, TypeOK, Call
<1>1. /\ N \in Nat /\ N' = N + 1 /\ first \in 1 .. N + 1
      /\ width' \in 0 .. Parallel
  BY Facts DEF Emit, TypeOK, N
<1>2. /\ stage' \in Seq(Stages) /\ Len(stage') = N + 1
      /\ \A m \in 1 .. N : stage'[m] = stage[m]
  BY AppendFacts DEF Emit, TypeOK, Stages
<1>3. read' \in Seq(SUBSET Nat) /\ Len(read') = N + 1
  BY AppendFacts DEF Emit, TypeOK
<1>4. UNCHANGED <<first, running, files, returned>>
  BY DEF Emit
<1>5. calls' \in Seq(Call)
  BY AppendFacts DEF TypeOK
<1>6. N' <= MaxCalls
  BY <1>1, Facts DEF Emit
<1>7. \A n \in 1 .. N' : (n < first' => n \in returned') /\ (n \in returned' => Finished(n)')
  BY <1>1, <1>2, <1>4 DEF TypeOK, Finished
<1> QED
  BY <1>1, <1>2, <1>3, <1>4, <1>5, <1>6, <1>7 DEF TypeOK, files

LEMMA TypeOKNext == TypeOK /\ [Next]_vars => TypeOK'
<1> SUFFICES ASSUME TypeOK, [Next]_vars PROVE TypeOK'
  OBVIOUS
<1> USE DEF files, traces, history
<1>1. CASE RunResponse
  BY <1>1 DEF RunResponse, TypeOK, N, Finished
<1>2. CASE NextResponse
  <2>1. N \in Nat /\ N' = N /\ first' = N + 1 /\ returned = 1 .. N
    BY <1>2 DEF NextResponse, TypeOK, N
  <2>2. first' \in 1 .. N' + 1
    BY <2>1
  <2> QED
    BY <1>2, <2>1, <2>2 DEF NextResponse, TypeOK, Finished
<1>3. ASSUME NEW n \in 1 .. N, Return(n) PROVE TypeOK'
  BY <1>3 DEF Return, TypeOK, N, Finished
<1>4. CASE Over \/ UNCHANGED vars
  BY <1>4 DEF Over, vars, TypeOK, N, Finished
<1> QED
  BY <1>1, <1>2, <1>3, <1>4, TypeOKTool, TypeOKEmit DEF Next

\* Type correctness of the conversation, and the order of its calls: no
\* response begins before every call of the last one has its result.
THEOREM ToolsTypeCorrect == Spec => []TypeOK
<1>1. Init => TypeOK
  BY TypeOKInit
<1>2. TypeOK /\ [Next]_vars => TypeOK'
  BY TypeOKNext
<1> QED
  BY <1>1, <1>2, PTL DEF Spec

-----------------------------------------------------------------------------
(* The invariants of the editing tools.                                    *)

\* Two calls of the latest response that name one file are a clash; else
\* what edit_file has read is still there when it writes.
EditInv ==
  /\ \A m, n \in first .. N :
       m # n /\ calls[m].file = calls[n].file => calls[n].file \in clash
  /\ \A n \in 1 .. N :
       stage[n] = "read" /\ calls[n].file \notin clash => read[n] = content[calls[n].file]
  /\ EditsKept

\* The calls that have passed the check and are not counted yet.
Active == {n \in 1 .. N : stage[n] \in {"checked", "read", "written"}}
InFlight == {calls[n].file : n \in Active}

OverInv ==
  /\ IsFiniteSet(changed)
  /\ N - first + 1 <= width
  /\ width = 0 => N = 0 /\ changed = {}
  /\ width > 0 => Cardinality(changed \cup InFlight) <= MaxChanged + width - 1

\* The traces: an index points to steps without a result, one id to each.
Index(idx, steps) ==
  /\ idx \subseteq Ids \X (DOMAIN steps)
  /\ \A d, e \in idx : d[1] = e[1] \/ d[2] = e[2] => d = e

StepsOK(steps) ==
  /\ steps \in Seq([call : Nat, result : Nat])
  /\ \A i \in DOMAIN steps : steps[i].result # Pending => steps[i].result \in returned

DeepInv ==
  /\ StepsOK(deep.steps)
  /\ Index(deep.byId, deep.steps)
  /\ \A e \in deep.byId : deep.steps[e[2]].result = Pending
  /\ deep.order \subseteq DOMAIN deep.steps
  /\ \A n \in returned : \E i \in DOMAIN deep.steps : deep.steps[i].result = n
  /\ \A i, j \in DOMAIN deep.steps :
       deep.steps[i].result = deep.steps[j].result /\ deep.steps[i].result # Pending
         => i = j

\* A step for each call, with its result if it is in S.
Exact(steps, S) ==
  /\ steps \in Seq([call : Nat, result : Nat]) /\ Len(steps) = N
  /\ \A n \in 1 .. N : steps[n] = Step(n, IF n \in S THEN n ELSE Pending)

\* Each call of the response has an id of its own ...
Distinct ==
  /\ \A n \in first .. N : calls[n].id # NoId
  /\ \A m, n \in first .. N : calls[m].id = calls[n].id => m = n

\* ... and S is the calls whose id leads to them.
Finds(idx, S) ==
  /\ \A d, e \in idx : d[1] = e[1] => d = e
  /\ \A n \in S : <<calls[n].id, n>> \in idx

TraceInv ==
  ~vague =>
    /\ Distinct
    /\ Exact(pyd.steps, Answered) /\ Finds(pyd.index, first .. N)
    /\ Exact(deep.steps, returned) /\ Finds(deep.byId, (first .. N) \ returned)

-----------------------------------------------------------------------------
(* The steps of a call, by what they do to its stage and its file.         *)

LEMMA StageMoves ==
  ASSUME TypeOK, NEW n \in 1 .. N, NEW s \in Stages, Goto(n, s)
  PROVE  stage'[n] = s
BY CallFacts DEF Goto, TypeOK, N

LEMMA CheckCallEffect ==
  ASSUME TypeOK, NEW n \in 1 .. N, CheckCall(n)
  PROVE  /\ stage[n] = "queued"
         /\ stage'[n] = IF Check(calls[n].file) THEN "checked" ELSE "error"
         /\ UNCHANGED <<read, files>>
BY StageMoves DEF CheckCall, InStage, Stages, files

LEMMA ReadFileEffect ==
  ASSUME TypeOK, NEW n \in 1 .. N, ReadFile(n)
  PROVE  /\ stage[n] = "checked" /\ stage'[n] \in {"read", "error"}
         /\ read'[n] = content[calls[n].file]
         /\ \A m \in 1 .. N : m # n => read'[m] = read[m]
         /\ UNCHANGED files
<1>1. stage'[n] \in {"read", "error"}
  BY StageMoves DEF ReadFile, Stages
<1>2. content[calls[n].file] \in SUBSET Nat /\ n \in 1 .. Len(read)
  BY CallFacts DEF TypeOK
<1> QED
  BY <1>1, <1>2, UpdateFacts DEF ReadFile, InStage, TypeOK

LEMMA WriteFileEffect ==
  ASSUME TypeOK, NEW n \in 1 .. N, WriteFile(n)
  PROVE  /\ stage[n] = IF calls[n].tool = "edit_file" THEN "read" ELSE "checked"
         /\ stage'[n] = "written"
         /\ dropped \subseteq dropped'
         /\ Old(n) \cup {n} \subseteq content'[calls[n].file] \cup dropped'
         /\ \A f \in Files : f # calls[n].file => content'[f] = content[f]
         /\ UNCHANGED <<read, changed, foreign>>
<1> DEFINE f == calls[n].file
<1>1. stage'[n] = "written"
  BY StageMoves DEF WriteFile, Stages
<1>2. PICK text \in SUBSET (Old(n) \cup {n}) :
        /\ content' = [content EXCEPT ![f] = text]
        /\ dropped' = dropped \cup ((Old(n) \cup {n}) \ text)
  BY DEF WriteFile
<1>3. content'[f] = text /\ \A g \in Files : g # f => content'[g] = content[g]
  BY <1>2, CallFacts DEF TypeOK
<1> QED
  BY <1>1, <1>2, <1>3 DEF WriteFile, Writes, InStage

LEMMA WriteFailsEffect ==
  ASSUME TypeOK, NEW n \in 1 .. N, WriteFails(n)
  PROVE  /\ stage[n] = IF calls[n].tool = "edit_file" THEN "read" ELSE "checked"
         /\ stage'[n] = "error"
         /\ \A f \in Files : f # calls[n].file => content'[f] = content[f]
         /\ \/ UNCHANGED <<content, foreign>>
            \/ foreign' = foreign \cup {calls[n].file}
         /\ UNCHANGED <<read, changed, dropped>>
<1>1. stage'[n] = "error"
  BY StageMoves DEF WriteFails, Stages
<1> QED
  BY <1>1, CallFacts DEF WriteFails, Writes, InStage, TypeOK

LEMMA RecordEffect ==
  ASSUME TypeOK, NEW n \in 1 .. N, Record(n)
  PROVE  /\ stage[n] = "written" /\ stage'[n] = "ok"
         /\ changed' = changed \cup {calls[n].file}
         /\ UNCHANGED <<read, content, foreign, dropped>>
BY StageMoves DEF Record, InStage, Stages

LEMMA RejectEffect ==
  ASSUME TypeOK, NEW n \in 1 .. N, Reject(n)
  PROVE  stage[n] = "queued" /\ stage'[n] = "retry" /\ UNCHANGED <<read, files>>
BY StageMoves DEF Reject, InStage, Stages

LEMMA RunShellEffect ==
  ASSUME TypeOK, NEW n \in 1 .. N, RunShell(n)
  PROVE  /\ stage[n] = "queued" /\ stage'[n] = "ok"
         /\ \A f \in Files : f # calls[n].file => content'[f] = content[f]
         /\ foreign' = foreign \cup {calls[n].file}
         /\ UNCHANGED <<read, changed, dropped>>
<1>1. stage'[n] = "ok"
  BY StageMoves DEF RunShell, Stages
<1> QED
  BY <1>1, CallFacts DEF RunShell, InStage, TypeOK

\* A call that is not over is of the latest response.
LEMMA UnfinishedIsNew ==
  ASSUME TypeOK, NEW n \in 1 .. N, ~Finished(n)
  PROVE  n \in first .. N
BY DEF TypeOK

\* What a new call changes.
LEMMA EmitEffect ==
  ASSUME TypeOK, Emit
  PROVE  /\ N \in Nat /\ N' = N + 1 /\ first \in 1 .. N + 1
         /\ stage'[N + 1] = "queued"
         /\ calls'[N + 1] \in Call /\ calls'[N + 1].file \in Files
         /\ \A m \in 1 .. N : /\ calls'[m] = calls[m] /\ stage'[m] = stage[m]
                              /\ read'[m] = read[m]
         /\ UNCHANGED <<first, files, returned>>
<1>1. PICK c \in Call : calls' = Append(calls, c)
  BY DEF Emit
<1>2. calls \in Seq(Call) /\ stage \in Seq(Stages) /\ read \in Seq(SUBSET Nat)
      /\ Len(calls) = N /\ Len(stage) = N /\ Len(read) = N /\ N \in Nat
      /\ first \in 1 .. N + 1
  BY DEF TypeOK, N
<1>3. "queued" \in Stages /\ {} \in SUBSET Nat
  BY DEF Stages
<1>4. stage' = Append(stage, "queued") /\ read' = Append(read, {})
      /\ UNCHANGED <<first, files, returned>>
  BY DEF Emit
<1>5. /\ calls'[N + 1] = c /\ Len(calls') = N + 1
      /\ \A m \in 1 .. N : calls'[m] = calls[m]
  BY <1>1, <1>2, AppendFacts
<1>6. stage'[N + 1] = "queued" /\ \A m \in 1 .. N : stage'[m] = stage[m]
  BY <1>2, <1>3, <1>4, AppendFacts
<1>7. \A m \in 1 .. N : read'[m] = read[m]
  BY <1>2, <1>3, <1>4, AppendFacts
<1> QED
  BY <1>2, <1>4, <1>5, <1>6, <1>7 DEF N, Call

\* The other steps leave the tools' state alone.
LEMMA OtherFrame ==
  ASSUME RunResponse \/ NextResponse \/ Over \/ UNCHANGED vars
         \/ \E n \in 1 .. N : Return(n)
  PROVE  UNCHANGED <<calls, stage, read, files, width, clash, vague, N>>
BY DEF RunResponse, NextResponse, Over, Return, vars, history, N

-----------------------------------------------------------------------------
(* What is counted as changed.                                             *)

LEMMA CountedTool ==
  ASSUME TypeOK, ChangesCounted, NEW n \in 1 .. N, Tool(n)
  PROVE  ChangesCounted'
<1> DEFINE f == calls[n].file
<1>1. /\ calls' = calls /\ N' = N /\ f \in Files
      /\ \A m \in 1 .. N : m # n => stage'[m] = stage[m]
  BY ToolFrame, CallFacts DEF N
<1>2. CASE CheckCall(n)
  BY <1>1, <1>2, CheckCallEffect DEF ChangesCounted, Diff, files
<1>3. CASE ReadFile(n)
  BY <1>1, <1>3, ReadFileEffect DEF ChangesCounted, Diff, files
<1>4. CASE Reject(n)
  BY <1>1, <1>4, RejectEffect DEF ChangesCounted, Diff, files
<1>5. CASE WriteFile(n)
  <2>1. Diff' \subseteq Diff \cup {f}
    BY <1>1, <1>5, WriteFileEffect DEF Diff
  <2> QED
    BY <1>1, <1>5, <2>1, WriteFileEffect DEF ChangesCounted
<1>6. CASE WriteFails(n) \/ RunShell(n)
  <2>1. Diff' \subseteq Diff \cup foreign' /\ foreign \subseteq foreign'
        /\ changed' = changed /\ stage[n] # "written"
    BY <1>1, <1>6, WriteFailsEffect, RunShellEffect DEF Diff
  <2> QED
    BY <1>1, <2>1 DEF ChangesCounted
<1>7. CASE Record(n)
  BY <1>1, <1>7, RecordEffect DEF ChangesCounted, Diff
<1> QED
  BY <1>2, <1>3, <1>4, <1>5, <1>6, <1>7 DEF Tool

\* ChangesCounted for any tools, files and interleavings.
THEOREM ToolsChangesCounted == Spec => []ChangesCounted
<1>1. Init => ChangesCounted
  BY DEF Init, ChangesCounted, Diff
<1>2. TypeOK /\ ChangesCounted /\ [Next]_vars => ChangesCounted'
  <2> SUFFICES ASSUME TypeOK, ChangesCounted, [Next]_vars PROVE ChangesCounted'
    OBVIOUS
  <2>1. CASE Emit
    BY <2>1, EmitEffect DEF ChangesCounted, Diff, files
  <2>2. CASE RunResponse \/ NextResponse \/ Over \/ UNCHANGED vars
             \/ \E n \in 1 .. N : Return(n)
    BY <2>2, OtherFrame DEF ChangesCounted, Diff, files
  <2> QED
    BY <2>1, <2>2, CountedTool DEF Next
<1>3. Spec => []TypeOK
  BY ToolsTypeCorrect
<1> QED
  BY <1>1, <1>2, <1>3, PTL DEF Spec

-----------------------------------------------------------------------------
(* What the tools have written into a file.                                *)

\* The other calls of the latest response have other files, but for a clash.
LEMMA OwnFile ==
  ASSUME TypeOK, EditInv, NEW m \in 1 .. N, NEW n \in 1 .. N, m # n,
         ~Finished(n), m >= first, calls[n].file \notin clash
  PROVE  calls[m].file # calls[n].file
BY UnfinishedIsNew DEF EditInv, TypeOK, N

\* A call that is over or reads moves no file of another call.
LEMMA EditInvTool ==
  ASSUME TypeOK, EditInv, NEW n \in 1 .. N, Tool(n)
  PROVE  EditInv'
<1> DEFINE f == calls[n].file
<1>1. /\ UNCHANGED <<calls, first, clash, N>> /\ f \in Files
      /\ N \in Nat /\ ~Finished(n)
      /\ \A m \in 1 .. N : m # n => stage'[m] = stage[m]
  BY ToolFrame, CallFacts DEF N, Finished
<1>2. /\ \A g \in Files : g # f => content'[g] = content[g]
      /\ foreign \subseteq foreign' /\ dropped \subseteq dropped'
      /\ \A m \in 1 .. N : m # n => read'[m] = read[m]
  <2>1. CASE WriteFile(n)
    BY <2>1, WriteFileEffect
  <2>2. CASE WriteFails(n) \/ RunShell(n)
    BY <2>2, WriteFailsEffect, RunShellEffect
  <2>3. CASE Reject(n) \/ CheckCall(n) \/ ReadFile(n) \/ Record(n)
    BY <2>3, RejectEffect, CheckCallEffect, ReadFileEffect, RecordEffect DEF files
  <2> QED
    BY <2>1, <2>2, <2>3 DEF Tool
<1>3. ASSUME NEW m \in 1 .. N, stage'[m] = "read", calls[m].file \notin clash
      PROVE  read'[m] = content'[calls[m].file]
  <2>1. CASE m = n
    <3>1. ReadFile(n)
      BY <1>3, <2>1, WriteFileEffect, WriteFailsEffect, RunShellEffect, RejectEffect,
         CheckCallEffect, RecordEffect DEF Tool
    <3> QED
      BY <2>1, <3>1, ReadFileEffect DEF files
  <2>2. CASE m # n
    <3>1. stage[m] = "read" /\ ~Finished(m) /\ calls[m].file \in Files
      BY <1>1, <1>3, <2>2, CallFacts DEF Finished
    <3>2. f # calls[m].file
      BY <1>1, <1>3, <2>2, <3>1, OwnFile, UnfinishedIsNew
    <3> QED
      BY <1>2, <1>3, <2>2, <3>1, <3>2 DEF EditInv
  <2> QED
    BY <2>1, <2>2
<1>4. ASSUME f \notin clash \cup foreign'
      PROVE  content[f] \subseteq content'[f] \cup dropped'
  <2>1. CASE WriteFile(n)
    <3>1. Old(n) = content[f]
      BY <1>4, <2>1, WriteFileEffect DEF Old, EditInv
    <3> QED
      BY <2>1, <3>1, WriteFileEffect
  <2>2. CASE WriteFails(n) \/ RunShell(n)
    BY <1>4, <2>2, WriteFailsEffect, RunShellEffect
  <2>3. CASE Reject(n) \/ CheckCall(n) \/ ReadFile(n) \/ Record(n)
    BY <2>3, RejectEffect, CheckCallEffect, ReadFileEffect, RecordEffect DEF files
  <2> QED
    BY <2>1, <2>2, <2>3 DEF Tool
<1>5. ASSUME NEW m \in 1 .. N, stage'[m] \in {"written", "ok"},
             calls[m].file \notin clash \cup foreign'
      PROVE  m \in content'[calls[m].file] \cup dropped'
  <2>1. CASE stage[m] \in {"written", "ok"}
    <3>1. m \in content[calls[m].file] \cup dropped /\ calls[m].file \in Files
      BY <1>2, <1>5, <2>1, CallFacts DEF EditInv, EditsKept
    <3> QED
      BY <1>2, <1>4, <1>5, <3>1
  <2>2. CASE stage[m] \notin {"written", "ok"}
    <3>1. m = n
      BY <1>1, <1>5, <2>2
    <3>2. WriteFile(n) \/ RunShell(n)
      BY <1>5, <2>2, <3>1, WriteFailsEffect, RejectEffect, CheckCallEffect,
         ReadFileEffect, RecordEffect DEF Tool
    <3> QED
      BY <1>5, <3>1, <3>2, WriteFileEffect, RunShellEffect
  <2> QED
    BY <2>1, <2>2
<1>6. EditsKept'
  BY <1>1, <1>5 DEF EditsKept
<1> QED
  BY <1>1, <1>3, <1>6 DEF EditInv

LEMMA EditInvEmit == ASSUME TypeOK, EditInv, Emit PROVE EditInv'
<1>1. PICK c \in Call :
        /\ calls' = Append(calls, c)
        /\ clash' = clash \cup {f \in {c.file} : \E n \in first .. N : calls[n].file = f}
  BY DEF Emit
<1>2. calls'[N + 1] = c
  BY <1>1, AppendFacts DEF TypeOK, N
<1>3. N \in Nat /\ first \in 1 .. N + 1 /\ first' = first /\ N' = N + 1
      /\ clash \subseteq clash'
  BY <1>1, EmitEffect
<1>4. ASSUME NEW m \in first' .. N', NEW n \in first' .. N', m # n,
             calls'[m].file = calls'[n].file
      PROVE  calls'[n].file \in clash'
  <2>1. \A k \in first .. N : calls'[k] = calls[k]
    BY <1>3, EmitEffect
  <2>2. CASE m \in first .. N /\ n \in first .. N
    BY <1>3, <1>4, <2>1, <2>2 DEF EditInv
  <2>3. CASE m = N + 1 /\ n \in first .. N
    BY <1>1, <1>2, <1>4, <2>1, <2>3
  <2>4. CASE n = N + 1 /\ m \in first .. N
    BY <1>1, <1>2, <1>4, <2>1, <2>4
  <2> QED
    BY <1>3, <1>4, <2>2, <2>3, <2>4
<1>5. ASSUME NEW n \in 1 .. N', stage'[n] # "queued"
      PROVE  /\ n \in 1 .. N /\ stage'[n] = stage[n] /\ read'[n] = read[n]
             /\ calls'[n] = calls[n]
  BY <1>5, EmitEffect
<1>6. \A n \in 1 .. N' :
        stage'[n] = "read" /\ calls'[n].file \notin clash'
          => read'[n] = content'[calls'[n].file]
  BY <1>3, <1>5, EmitEffect DEF EditInv, files
<1>7. EditsKept'
  BY <1>3, <1>5, EmitEffect DEF EditInv, EditsKept, files
<1> QED
  BY <1>4, <1>6, <1>7 DEF EditInv

LEMMA EditInvNext == TypeOK /\ EditInv /\ [Next]_vars => EditInv'
<1> SUFFICES ASSUME TypeOK, EditInv, [Next]_vars PROVE EditInv'
  OBVIOUS
<1>1. CASE RunResponse \/ Over \/ UNCHANGED vars \/ \E n \in 1 .. N : Return(n)
  <2>1. first' = first
    BY <1>1 DEF RunResponse, Over, Return, vars
  <2> QED
    BY <1>1, <2>1, OtherFrame DEF EditInv, EditsKept, files
<1>2. CASE NextResponse
  <2>1. first' = N + 1 /\ N \in Nat
    BY <1>2 DEF NextResponse, TypeOK, N
  <2>2. \A m \in first' .. N' : FALSE
    BY <1>2, <2>1, OtherFrame
  <2> QED
    BY <1>2, <2>2, OtherFrame DEF EditInv, EditsKept, files
<1> QED
  BY <1>1, <1>2, EditInvTool, EditInvEmit DEF Next

\* EditsKept for any tools, files and interleavings.
THEOREM ToolsEditsKept == Spec => []EditsKept
<1>1. Init => EditInv
  BY DEF Init, EditInv, EditsKept, N
<1>2. TypeOK /\ EditInv /\ [Next]_vars => EditInv'
  BY EditInvNext
<1>3. EditInv => EditsKept
  BY DEF EditInv
<1>4. Spec => []TypeOK
  BY ToolsTypeCorrect
<1> QED
  BY <1>1, <1>2, <1>3, <1>4, PTL DEF Spec

-----------------------------------------------------------------------------
(* How far parallel calls pass the limit.                                  *)

\* A response has no more calls in flight than calls.
LEMMA InFlightBounded ==
  ASSUME TypeOK, NEW A \in SUBSET (first .. N), NEW F, F = {calls[n].file : n \in A}
  PROVE  /\ IsFiniteSet(F) /\ Cardinality(F) \in Nat
         /\ Cardinality(F) <= N - first + 1
<1>1. first \in Int /\ N \in Int /\ first <= N + 1
  BY DEF TypeOK, N
<1>2. IsFiniteSet(first .. N) /\ Cardinality(first .. N) = N - first + 1
  BY <1>1, FS_Interval
<1>3. /\ IsFiniteSet(A) /\ Cardinality(A) <= N - first + 1
      /\ Cardinality(A) \in Nat
  BY <1>2, FS_Subset, FS_CardinalityType
<1> DEFINE g == [n \in A |-> calls[n].file]
<1>4. g \in Surjection(A, F)
  BY DEF Surjection
<1>5. IsFiniteSet(F) /\ Cardinality(F) <= Cardinality(A)
  BY <1>3, <1>4, FS_Surjection
<1>6. Cardinality(F) \in Nat
  BY <1>5, FS_CardinalityType
<1> QED
  BY <1>1, <1>3, <1>5, <1>6

LEMMA ActiveIsNew == ASSUME TypeOK PROVE Active \subseteq first .. N
BY UnfinishedIsNew DEF Active, Finished

\* A step that adds no file to those counted or in flight.
LEMMA OverInvShrinks ==
  ASSUME TypeOK, OverInv, UNCHANGED <<N, first, width>>,
         width > 0, changed' \subseteq changed \cup InFlight,
         changed' \cup InFlight' \subseteq changed \cup InFlight
  PROVE  OverInv'
<1>1. IsFiniteSet(InFlight)
  BY ActiveIsNew, InFlightBounded DEF InFlight
<1>2. IsFiniteSet(changed \cup InFlight)
  BY <1>1, FS_Union DEF OverInv
<1>3. /\ IsFiniteSet(changed' \cup InFlight')
      /\ Cardinality(changed' \cup InFlight') <= Cardinality(changed \cup InFlight)
  BY <1>2, FS_Subset
<1>4. IsFiniteSet(changed')
  BY <1>2, FS_Subset
<1>5. /\ Cardinality(changed \cup InFlight) \in Nat
      /\ Cardinality(changed' \cup InFlight') \in Nat
  BY <1>2, <1>3, FS_CardinalityType
<1>6. width \in Nat /\ MaxChanged \in Nat
  BY Facts DEF TypeOK
<1> QED
  BY <1>3, <1>4, <1>5, <1>6 DEF OverInv

\* A call passes the check for a file that is not counted yet.
LEMMA OverInvCheck ==
  ASSUME TypeOK, OverInv, NEW n \in 1 .. N, CheckCall(n),
         Check(calls[n].file), calls[n].file \notin changed
  PROVE  OverInv'
<1>1. /\ UNCHANGED <<calls, first, width, N, changed>>
      /\ \A m \in 1 .. N : m # n => stage'[m] = stage[m]
  BY ToolFrame, CheckCallEffect DEF N, Tool, files
<1>2. n \in first .. N /\ N \in Nat /\ first \in Nat /\ width \in Nat
  <2>1. ~Finished(n)
    BY CheckCallEffect DEF Finished
  <2> QED
    BY <2>1, UnfinishedIsNew, CallFacts DEF TypeOK
<1>3. Active' \subseteq first .. N
  BY <1>1, <1>2, ActiveIsNew DEF Active
<1>4. InFlight' = {calls[m].file : m \in Active'}
  BY <1>1 DEF InFlight
<1>5. /\ IsFiniteSet(InFlight') /\ Cardinality(InFlight') \in Nat
      /\ Cardinality(InFlight') <= N - first + 1
  BY <1>3, <1>4, InFlightBounded
<1>6. IsFiniteSet(changed) /\ Cardinality(changed) \in Nat
  BY FS_CardinalityType DEF OverInv
<1>7. Cardinality(changed) + 1 <= MaxChanged
  BY DEF Check
<1>8. IsFiniteSet(changed \cap InFlight') /\ Cardinality(changed \cap InFlight') \in Nat
  BY <1>6, FS_Subset, FS_CardinalityType
<1>9. Cardinality(changed \cup InFlight') =
        Cardinality(changed) + Cardinality(InFlight') - Cardinality(changed \cap InFlight')
  BY <1>5, <1>6, FS_Union
<1>10. N - first + 1 <= width
  BY DEF OverInv
<1>11. Cardinality(changed \cup InFlight') <= MaxChanged + width - 1
  BY <1>2, <1>5, <1>6, <1>7, <1>8, <1>9, <1>10, Facts
<1> QED
  BY <1>1, <1>6, <1>11 DEF OverInv

LEMMA OverInvTool ==
  ASSUME TypeOK, OverInv, NEW n \in 1 .. N, Tool(n)
  PROVE  OverInv'
<1> DEFINE f == calls[n].file
<1>1. /\ UNCHANGED <<calls, first, width, N>>
      /\ \A m \in 1 .. N : m # n => stage'[m] = stage[m]
  BY ToolFrame DEF N
<1>2. width > 0
  BY CallFacts DEF OverInv, TypeOK
<1>3. ASSUME changed' \subseteq changed \cup InFlight,
             n \in Active' => f \in changed \cup InFlight
      PROVE  OverInv'
  <2>1. InFlight' \subseteq changed \cup InFlight
    <3>1. ASSUME NEW m \in Active' PROVE calls[m].file \in changed \cup InFlight
      <4>1. CASE m = n
        BY <1>3, <3>1, <4>1
      <4>2. CASE m # n
        BY <1>1, <3>1, <4>2 DEF Active, InFlight
      <4> QED
        BY <4>1, <4>2
    <3> QED
      BY <1>1, <3>1 DEF InFlight
  <2> QED
    BY <1>1, <1>2, <1>3, <2>1, OverInvShrinks
<1>4. CASE CheckCall(n)
  <2>1. CASE Check(f) /\ f \notin changed
    BY <1>4, <2>1, OverInvCheck
  <2>2. CASE ~Check(f) \/ f \in changed
    BY <1>3, <1>4, <2>2, CheckCallEffect DEF Active, files
  <2> QED
    BY <2>1, <2>2
<1>5. CASE ReadFile(n) \/ WriteFile(n) \/ WriteFails(n)
  <2>1. n \in Active /\ changed' = changed
    BY <1>5, ReadFileEffect, WriteFileEffect, WriteFailsEffect DEF Active, files
  <2> QED
    BY <1>3, <2>1 DEF InFlight
<1>6. CASE Record(n)
  <2>1. n \in Active /\ changed' = changed \cup {f}
    BY <1>6, RecordEffect DEF Active
  <2> QED
    BY <1>3, <2>1 DEF InFlight
<1>7. CASE Reject(n) \/ RunShell(n)
  <2>1. n \notin Active' /\ changed' = changed
    BY <1>7, RejectEffect, RunShellEffect DEF Active, files
  <2> QED
    BY <1>3, <2>1
<1> QED
  BY <1>4, <1>5, <1>6, <1>7 DEF Tool

LEMMA OverInvEmit == ASSUME TypeOK, OverInv, Emit PROVE OverInv'
<1>1. /\ N \in Nat /\ N' = N + 1 /\ first \in 1 .. N + 1 /\ first' = first
      /\ changed' = changed /\ width \in Nat
  BY EmitEffect DEF TypeOK, files
<1>2. width' \in Nat /\ N' - first' + 1 <= width' /\ width <= width' /\ width' > 0
  <2>1. width' = IF N - first + 2 > width THEN N - first + 2 ELSE width
    BY DEF Emit
  <2> QED
    BY <1>1, <2>1
<1>3. Active' = Active
  <2>1. stage'[N + 1] = "queued" /\ \A m \in 1 .. N : stage'[m] = stage[m]
    BY EmitEffect
  <2>2. \A m \in 1 .. N + 1 : m = N + 1 \/ m \in 1 .. N
    BY <1>1
  <2> QED
    BY <1>1, <2>1, <2>2 DEF Active
<1>4. InFlight' = InFlight
  BY <1>3, EmitEffect DEF InFlight, Active
<1>5. IsFiniteSet(changed \cup InFlight) /\ Cardinality(changed \cup InFlight) \in Nat
  BY ActiveIsNew, InFlightBounded, FS_Union, FS_CardinalityType DEF InFlight, OverInv
<1>6. Cardinality(changed \cup InFlight) <= MaxChanged + width' - 1
  <2>1. CASE width > 0
    BY <1>1, <1>2, <1>5, <2>1, Facts DEF OverInv
  <2>2. CASE width = 0
    <3>1. changed = {} /\ N = 0
      BY <2>2 DEF OverInv
    <3>2. InFlight = {}
      BY <3>1 DEF InFlight, Active
    <3>3. Cardinality(changed \cup InFlight) = 0
      BY <3>1, <3>2, FS_EmptySet
    <3>4. width' \in Nat /\ width' # 0 /\ MaxChanged \in Nat
      BY <1>2, Facts
    <3>5. \A w \in Nat, m \in Nat : w # 0 => 0 <= m + w - 1
      OBVIOUS
    <3> QED
      BY <3>3, <3>4, <3>5
  <2> QED
    BY <1>1, <2>1, <2>2
<1> QED
  BY <1>1, <1>2, <1>4, <1>6 DEF OverInv

LEMMA OverInvNext == TypeOK /\ OverInv /\ [Next]_vars => OverInv'
<1> SUFFICES ASSUME TypeOK, OverInv, [Next]_vars PROVE OverInv'
  OBVIOUS
<1>1. CASE RunResponse \/ Over \/ UNCHANGED vars \/ \E n \in 1 .. N : Return(n)
  <2>1. first' = first
    BY <1>1 DEF RunResponse, Over, Return, vars
  <2> QED
    BY <1>1, <2>1, OtherFrame DEF OverInv, InFlight, Active, files
<1>2. CASE NextResponse
  <2>1. first' = N + 1 /\ N \in Nat /\ width \in Nat
    BY <1>2 DEF NextResponse, TypeOK, N
  <2> QED
    BY <1>2, <2>1, OtherFrame DEF OverInv, InFlight, Active, files
<1> QED
  BY <1>1, <1>2, OverInvTool, OverInvEmit DEF Next

\* OverrunBounded for any limit, any width of responses, any interleaving.
THEOREM ToolsOverrunBounded == Spec => []OverrunBounded
<1>1. Init => OverInv
  BY FS_EmptySet DEF Init, OverInv, N
<1>2. TypeOK /\ OverInv /\ [Next]_vars => OverInv'
  BY OverInvNext
<1>3. TypeOK /\ ChangesCounted /\ OverInv => OverrunBounded
  <2> SUFFICES ASSUME TypeOK, ChangesCounted, OverInv PROVE OverrunBounded
    OBVIOUS
  <2>1. width \in Nat /\ MaxChanged \in Nat
    BY Facts DEF TypeOK
  <2>2. Diff \ foreign \subseteq changed \cup InFlight
    BY DEF ChangesCounted, InFlight, Active
  <2>3. IsFiniteSet(changed \cup InFlight)
    BY ActiveIsNew, InFlightBounded, FS_Union DEF InFlight, OverInv
  <2>4. /\ IsFiniteSet(Diff \ foreign)
        /\ Cardinality(Diff \ foreign) <= Cardinality(changed \cup InFlight)
    BY <2>2, <2>3, FS_Subset
  <2>5. Cardinality(Diff \ foreign) \in Nat /\ Cardinality(changed \cup InFlight) \in Nat
    BY <2>3, <2>4, FS_CardinalityType
  <2>6. width > 0 => Cardinality(Diff \ foreign) <= MaxChanged + width - 1
    BY <2>1, <2>4, <2>5 DEF OverInv
  <2>7. width = 0 => Cardinality(Diff \ foreign) = 0
    <3>1. SUFFICES ASSUME width = 0 PROVE Cardinality(Diff \ foreign) = 0
      OBVIOUS
    <3>2. changed = {} /\ N = 0
      BY <3>1 DEF OverInv
    <3>3. Diff \ foreign = {}
      BY <2>2, <3>2 DEF InFlight, Active
    <3> QED
      BY <3>3, FS_EmptySet
  <2>8. width <= 1 /\ foreign = {} => ~(Cardinality(Diff) > MaxChanged)
    <3>1. SUFFICES ASSUME width <= 1, foreign = {}
                   PROVE  ~(Cardinality(Diff) > MaxChanged)
      OBVIOUS
    <3>2. Diff \ foreign = Diff
      BY <3>1
    <3>3. Cardinality(Diff) \in Nat /\ Cardinality(Diff) <= MaxChanged
      BY <2>1, <2>5, <2>6, <2>7, <3>1, <3>2
    <3> QED
      BY <2>1, <3>3
  <2> QED
    BY <2>6, <2>8 DEF OverrunBounded, OverMax
<1>4. Spec => []TypeOK
  BY ToolsTypeCorrect
<1>5. Spec => []ChangesCounted
  BY ToolsChangesCounted
<1> QED
  BY <1>1, <1>2, <1>3, <1>4, <1>5, PTL DEF Spec

-----------------------------------------------------------------------------
(* The traces.                                                             *)

Steps == [call : Nat, result : Nat]

LEMMA SetResult ==
  ASSUME NEW s \in Seq(Steps), NEW i \in 1 .. Len(s), NEW n \in Nat
  PROVE  LET r == [s EXCEPT ![i].result = n]
         IN  /\ r \in Seq(Steps) /\ Len(r) = Len(s)
             /\ r[i] = Step(s[i].call, n)
             /\ \A j \in 1 .. Len(s) : j # i => r[j] = s[j]
<1> DEFINE e == [s[i] EXCEPT !.result = n]
<1>1. s[i] \in Steps
  OBVIOUS
<1>2. e \in Steps /\ e = Step(s[i].call, n)
  BY <1>1 DEF Steps, Step
<1>3. [s EXCEPT ![i].result = n] = [s EXCEPT ![i] = e]
  OBVIOUS
<1> HIDE DEF e
<1> QED
  BY <1>2, <1>3, UpdateFacts

LEMMA AddStep ==
  ASSUME NEW s \in Seq(Steps), NEW c \in Nat, NEW n \in Nat
  PROVE  LET r == Append(s, Step(c, n))
         IN  /\ r \in Seq(Steps) /\ Len(r) = Len(s) + 1
             /\ r[Len(s) + 1] = Step(c, n)
             /\ \A j \in 1 .. Len(s) : r[j] = s[j]
<1>1. Step(c, n) \in Steps
  BY DEF Step, Steps
<1> QED
  BY <1>1, AppendFacts

\* An id that is known leads to a step.
LEMMA Lookup ==
  ASSUME NEW idx, NEW id, Known(idx, id)
  PROVE  \E e \in idx : e[1] = id /\ At(idx, id) = e[2]
BY DEF Known, At

\* The steps that leave the traces alone.
LEMMA TraceFrame ==
  ASSUME TypeOK,
         RunResponse \/ Over \/ UNCHANGED vars \/ NextResponse
         \/ \E n \in 1 .. N : Tool(n)
  PROVE  UNCHANGED <<calls, returned, pyd, deep, vague, N>>
BY ToolFrame DEF RunResponse, NextResponse, Over, vars, files, traces, history, N

LEMMA DeepInvCall == ASSUME TypeOK, DeepInv, Emit PROVE DeepInv'
<1> DEFINE s == deep.steps
           r == deep'.steps
           L == Len(s)
<1>1. PICK c \in Call : deep' = DeepCall(deep, N + 1, c.id)
  BY DEF Emit
<1>2. s \in Seq(Steps) /\ L \in Nat /\ DOMAIN s = 1 .. L
  BY DEF DeepInv, StepsOK, Steps
<1>3. N \in Nat /\ N + 1 \in Nat /\ Pending \in Nat /\ returned' = returned
  BY EmitEffect DEF Pending
<1>4. /\ r = Append(s, Step(N + 1, Pending))
      /\ deep'.byId = IF c.id = NoId THEN deep.byId ELSE Put(deep.byId, c.id, L + 1)
      /\ deep'.order = deep.order \cup {L + 1}
  <2>1. r = Append(s, Step(N + 1, Pending))
    BY <1>1 DEF DeepCall
  <2>2. Len(r) = L + 1
    BY <1>2, <1>3, <2>1, AddStep
  <2> QED
    BY <1>1, <2>1, <2>2 DEF DeepCall
<1>5. /\ r \in Seq(Steps) /\ DOMAIN r = 1 .. L + 1
      /\ r[L + 1].result = Pending
      /\ \A j \in 1 .. L : r[j] = s[j]
  <2>1. /\ r \in Seq(Steps) /\ Len(r) = L + 1
        /\ r[L + 1] = Step(N + 1, Pending)
        /\ \A j \in 1 .. L : r[j] = s[j]
    BY <1>2, <1>3, <1>4, AddStep
  <2>2. DOMAIN r = 1 .. L + 1
    BY <2>1
  <2>3. r[L + 1].result = Pending
    BY <2>1 DEF Step
  <2> QED
    BY <2>1, <2>2, <2>3
<1>6. StepsOK(deep.steps)'
  <2>1. \A j \in 1 .. L : s[j].result # Pending => s[j].result \in returned
    BY <1>2 DEF DeepInv, StepsOK
  <2>2. \A j \in DOMAIN r : r[j].result # Pending => r[j].result \in returned'
    <3>1. ASSUME NEW j \in 1 .. L, r[j].result # Pending PROVE r[j].result \in returned'
      BY <1>3, <1>5, <2>1, <3>1
    <3>2. \A j \in DOMAIN r : j \in 1 .. L \/ j = L + 1
      BY <1>2, <1>5
    <3> QED
      BY <1>5, <3>1, <3>2
  <2> QED
    BY <1>5, <2>2 DEF StepsOK, Steps
<1>7. deep'.byId \subseteq Put(deep.byId, c.id, L + 1) \cup deep.byId
  BY <1>4
<1>8. ASSUME c.id # NoId PROVE Index(deep'.byId, r)
  <2>1. c.id \in Ids
    BY <1>8 DEF Call
  <2>2. deep'.byId = {e \in deep.byId : e[1] # c.id} \cup {<<c.id, L + 1>>}
    BY <1>4, <1>8 DEF Put
  <2>3. \A e \in deep.byId : e \in Ids \X (1 .. L)
    BY <1>2 DEF DeepInv, Index
  <2>4. \A e \in deep.byId : e[2] # L + 1
    BY <1>2, <2>3
  <2> QED
    BY <1>2, <1>5, <2>1, <2>2, <2>3, <2>4 DEF DeepInv, Index
<1>9. ASSUME c.id = NoId PROVE Index(deep'.byId, r)
  BY <1>2, <1>4, <1>5, <1>9 DEF DeepInv, Index
<1>10. \A e \in deep'.byId : r[e[2]].result = Pending
  <2>1. \A e \in deep.byId : e[2] \in 1 .. L /\ s[e[2]].result = Pending
    BY <1>2 DEF DeepInv, Index
  <2>2. \A e \in deep'.byId : e \in deep.byId \/ e = <<c.id, L + 1>>
    BY <1>4 DEF Put
  <2> QED
    BY <1>5, <2>1, <2>2
<1>11. deep'.order \subseteq DOMAIN r
  BY <1>2, <1>4, <1>5 DEF DeepInv
<1>12. \A n \in returned' : \E i \in DOMAIN r : r[i].result = n
  BY <1>2, <1>3, <1>5 DEF DeepInv
<1>13. \A i, j \in DOMAIN r : r[i].result = r[j].result /\ r[i].result # Pending => i = j
  <2>1. \A j \in DOMAIN r : r[j].result # Pending => j \in 1 .. L /\ r[j] = s[j]
    BY <1>2, <1>5
  <2>2. \A i, j \in 1 .. L :
          s[i].result = s[j].result /\ s[i].result # Pending => i = j
    BY <1>2 DEF DeepInv
  <2> QED
    BY <2>1, <2>2
<1> QED
  BY <1>6, <1>8, <1>9, <1>10, <1>11, <1>12, <1>13 DEF DeepInv

\* Where a result goes: to a step without one, which no id points to any
\* more, or to a step of its own.
LEMMA DeepReturnCases ==
  ASSUME TypeOK, DeepInv, NEW n \in 1 .. N, Return(n)
  PROVE  /\ deep'.byId \subseteq deep.byId
         /\ deep'.order \subseteq deep.order
         /\ \/ \E i \in DOMAIN deep.steps :
                 /\ deep.steps[i].result = Pending
                 /\ deep'.steps = [deep.steps EXCEPT ![i].result = n]
                 /\ \A e \in deep'.byId : e[2] # i
            \/ deep'.steps = Append(deep.steps, Step(Pending, n))
<1> DEFINE id == calls[n].id
           open == {k \in deep.order : deep.steps[k].result = Pending}
           oldest == CHOOSE k \in open : \A j \in open : k <= j
<1>1. deep' = DeepReturn(deep, n, id)
  BY DEF Return
<1>2. CASE id # NoId /\ Known(deep.byId, id)
  <2> DEFINE i == At(deep.byId, id)
  <2>1. PICK e \in deep.byId : e[1] = id /\ i = e[2]
    BY <1>2, Lookup
  <2>2. /\ deep'.steps = [deep.steps EXCEPT ![i].result = n]
        /\ deep'.byId = {d \in deep.byId : d[1] # id}
        /\ deep'.order = deep.order \ {i}
    BY <1>1, <1>2 DEF DeepReturn
  <2>3. i \in DOMAIN deep.steps /\ deep.steps[i].result = Pending
    BY <2>1 DEF DeepInv, Index
  <2>4. \A d \in deep'.byId : d[2] # i
    BY <2>1, <2>2 DEF DeepInv, Index
  <2> QED
    BY <2>2, <2>3, <2>4
<1>3. CASE ~(id # NoId /\ Known(deep.byId, id)) /\ open # {}
  <2>1. open \in SUBSET Nat
    BY DEF DeepInv, StepsOK
  <2>2. oldest \in open
    BY <1>3, <2>1, SmallestOf
  <2>3. /\ deep'.steps = [deep.steps EXCEPT ![oldest].result = n]
        /\ deep'.byId = {d \in deep.byId : d[2] # oldest}
        /\ deep'.order = {k \in deep.order : k > oldest}
    BY <1>1, <1>3 DEF DeepReturn
  <2> QED
    BY <2>2, <2>3 DEF DeepInv
<1>4. CASE ~(id # NoId /\ Known(deep.byId, id)) /\ open = {}
  <2>1. /\ deep'.steps = Append(deep.steps, Step(Pending, n))
        /\ deep'.byId = deep.byId /\ deep'.order = {}
    BY <1>1, <1>4 DEF DeepReturn
  <2> QED
    BY <2>1
<1> QED
  BY <1>2, <1>3, <1>4

LEMMA DeepInvReturn ==
  ASSUME TypeOK, DeepInv, NEW n \in 1 .. N, Return(n)
  PROVE  DeepInv'
<1> DEFINE s == deep.steps
           r == deep'.steps
           L == Len(s)
<1>1. s \in Seq(Steps) /\ L \in Nat /\ DOMAIN s = 1 .. L
  BY DEF DeepInv, StepsOK, Steps
<1>2. n \in Nat /\ n # Pending /\ Pending \in Nat /\ n \notin returned
      /\ returned' = returned \cup {n} /\ returned \subseteq 1 .. N /\ N \in Nat
  BY CallFacts DEF Pending, Return, TypeOK
<1>3. deep'.byId \subseteq deep.byId /\ deep'.order \subseteq deep.order
  BY DeepReturnCases
<1>4. \A j \in 1 .. L : s[j].result # Pending => s[j].result \in returned
  BY <1>1 DEF DeepInv, StepsOK
<1>5. CASE \E i \in DOMAIN s : /\ s[i].result = Pending
                               /\ r = [s EXCEPT ![i].result = n]
                               /\ \A e \in deep'.byId : e[2] # i
  <2>1. PICK i \in 1 .. L : /\ s[i].result = Pending
                            /\ r = [s EXCEPT ![i].result = n]
                            /\ \A e \in deep'.byId : e[2] # i
    BY <1>1, <1>5
  <2>2. /\ r \in Seq(Steps) /\ DOMAIN r = 1 .. L /\ r[i].result = n
        /\ \A j \in 1 .. L : j # i => r[j] = s[j]
    <3> DEFINE u == [s EXCEPT ![i].result = n]
    <3>1. /\ u \in Seq(Steps) /\ Len(u) = L /\ u[i] = Step(s[i].call, n)
          /\ \A j \in 1 .. L : j # i => u[j] = s[j]
      BY <1>1, <1>2, SetResult
    <3>2. r = u
      BY <2>1
    <3> HIDE DEF u
    <3> QED
      BY <3>1, <3>2 DEF Step
  <2>3. StepsOK(deep.steps)'
    <3>1. \A j \in DOMAIN r : r[j].result # Pending => r[j].result \in returned'
      BY <1>2, <1>4, <2>2
    <3> QED
      BY <2>2, <3>1 DEF StepsOK, Steps
  <2>4. Index(deep'.byId, r) /\ deep'.order \subseteq DOMAIN r
    BY <1>1, <1>3, <2>2 DEF DeepInv, Index
  <2>5. \A e \in deep'.byId : r[e[2]].result = Pending
    BY <1>1, <1>3, <2>1, <2>2 DEF DeepInv, Index
  <2>6. \A m \in returned' : \E k \in DOMAIN r : r[k].result = m
    <3>1. ASSUME NEW m \in returned PROVE \E k \in 1 .. L : r[k].result = m
      <4>1. PICK k \in 1 .. L : s[k].result = m
        BY <1>1, <3>1 DEF DeepInv
      <4>2. k # i
        BY <1>2, <2>1, <4>1 DEF Pending
      <4> QED
        BY <2>2, <4>1, <4>2
    <3> QED
      BY <1>2, <2>2, <3>1
  <2>7. \A k, j \in DOMAIN r : r[k].result = r[j].result /\ r[k].result # Pending => k = j
    BY <1>1, <1>2, <1>4, <2>2 DEF DeepInv
  <2> QED
    BY <2>3, <2>4, <2>5, <2>6, <2>7 DEF DeepInv
<1>6. CASE r = Append(s, Step(Pending, n))
  <2>1. /\ r \in Seq(Steps) /\ DOMAIN r = 1 .. L + 1 /\ r[L + 1].result = n
        /\ \A j \in 1 .. L : r[j] = s[j]
    BY <1>1, <1>2, <1>6, AddStep DEF Step
  <2>2. StepsOK(deep.steps)'
    <3>1. \A j \in DOMAIN r : r[j].result # Pending => r[j].result \in returned'
      BY <1>1, <1>2, <1>4, <2>1
    <3> QED
      BY <2>1, <3>1 DEF StepsOK, Steps
  <2>3. Index(deep'.byId, r) /\ deep'.order \subseteq DOMAIN r
    BY <1>1, <1>3, <2>1 DEF DeepInv, Index
  <2>4. \A e \in deep'.byId : r[e[2]].result = Pending
    BY <1>1, <1>3, <2>1 DEF DeepInv, Index
  <2>5. \A m \in returned' : \E k \in DOMAIN r : r[k].result = m
    BY <1>1, <1>2, <2>1 DEF DeepInv
  <2>6. \A k, j \in DOMAIN r : r[k].result = r[j].result /\ r[k].result # Pending => k = j
    <3>1. \A k, j \in 1 .. L :
            s[k].result = s[j].result /\ s[k].result # Pending => k = j
      BY <1>1 DEF DeepInv
    <3>2. \A k \in 1 .. L : r[k].result # n
      BY <1>2, <1>4, <2>1
    <3>3. \A k \in DOMAIN r : k = L + 1 \/ k \in 1 .. L
      BY <1>1, <2>1
    <3> QED
      BY <2>1, <3>1, <3>2, <3>3
  <2> QED
    BY <2>2, <2>3, <2>4, <2>5, <2>6 DEF DeepInv
<1> QED
  BY <1>5, <1>6, DeepReturnCases

LEMMA DeepInvNext == TypeOK /\ DeepInv /\ [Next]_vars => DeepInv'
<1> SUFFICES ASSUME TypeOK, DeepInv, [Next]_vars PROVE DeepInv'
  OBVIOUS
<1>1. CASE RunResponse \/ Over \/ UNCHANGED vars \/ NextResponse
           \/ \E n \in 1 .. N : Tool(n)
  BY <1>1, TraceFrame DEF DeepInv, StepsOK, Index
<1> QED
  BY <1>1, DeepInvCall, DeepInvReturn DEF Next

\* NothingLost for any ids and any order of the results.
THEOREM ToolsNothingLost == Spec => []NothingLost
<1>1. Init => DeepInv
  <2>1. <<>> \in Seq([call : Nat, result : Nat]) /\ DOMAIN <<>> = {}
    OBVIOUS
  <2> QED
    BY <2>1 DEF Init, DeepInv, StepsOK, Index
<1>2. TypeOK /\ DeepInv /\ [Next]_vars => DeepInv'
  BY DeepInvNext
<1>3. TypeOK /\ DeepInv => NothingLost
  <2> SUFFICES ASSUME TypeOK, DeepInv, NEW n \in returned
               PROVE  Cardinality({i \in DOMAIN deep.steps : deep.steps[i].result = n}) = 1
    BY DEF NothingLost
  <2>1. n # Pending
    BY DEF TypeOK, Pending, N
  <2>2. PICK i \in DOMAIN deep.steps : deep.steps[i].result = n
    BY DEF DeepInv
  <2>3. {j \in DOMAIN deep.steps : deep.steps[j].result = n} = {i}
    BY <2>1, <2>2 DEF DeepInv
  <2> QED
    BY <2>3, FS_Singleton
<1>4. Spec => []TypeOK
  BY ToolsTypeCorrect
<1> QED
  BY <1>1, <1>2, <1>3, <1>4, PTL DEF Spec

-----------------------------------------------------------------------------
(* The exact trace.                                                        *)

LEMMA EmitCall ==
  ASSUME TypeOK, Emit
  PROVE  \E c \in Call :
           /\ calls' \in Seq(Call) /\ N' = N + 1 /\ calls'[N + 1] = c
           /\ \A n \in 1 .. N : calls'[n] = calls[n]
           /\ pyd' = PydCall(pyd, N + 1, c.id)
           /\ deep' = DeepCall(deep, N + 1, c.id)
           /\ ~vague' => /\ ~vague /\ c.id # NoId
                         /\ \A n \in first .. N : calls[n].id # c.id
<1>1. PICK c \in Call :
        /\ calls' = Append(calls, c)
        /\ pyd' = PydCall(pyd, N + 1, c.id)
        /\ deep' = DeepCall(deep, N + 1, c.id)
        /\ vague' = (vague \/ c.id = NoId \/ \E n \in first .. N : calls[n].id = c.id)
  BY DEF Emit
<1>2. calls \in Seq(Call)
  BY DEF TypeOK
<1>3. /\ calls' \in Seq(Call) /\ N' = N + 1 /\ calls'[N + 1] = c
      /\ \A n \in 1 .. N : calls'[n] = calls[n]
  BY <1>1, <1>2, AppendFacts DEF N
<1> QED
  BY <1>1, <1>3

\* A call without a result joins the steps.
LEMMA ExactAppend ==
  ASSUME TypeOK, NEW S, S \subseteq returned, NEW s, Exact(s, S)
  PROVE  LET r == Append(s, Step(N + 1, Pending))
         IN  /\ r \in Seq([call : Nat, result : Nat]) /\ Len(r) = N + 1
             /\ \A n \in 1 .. N + 1 :
                  r[n] = Step(n, IF n \in S THEN n ELSE Pending)
<1> DEFINE r == Append(s, Step(N + 1, Pending))
<1>1. N \in Nat /\ N + 1 \in Nat /\ Pending \in Nat /\ N + 1 \notin S
  BY DEF TypeOK, N, Pending
<1>2. s \in Seq(Steps) /\ Len(s) = N
  BY DEF Exact, Steps
<1>3. /\ r \in Seq(Steps) /\ Len(r) = N + 1 /\ r[N + 1] = Step(N + 1, Pending)
      /\ \A n \in 1 .. N : r[n] = s[n]
  BY <1>1, <1>2, AddStep
<1> HIDE DEF r
<1>4. ASSUME NEW n \in 1 .. N + 1
      PROVE  r[n] = Step(n, IF n \in S THEN n ELSE Pending)
  <2>1. n \in 1 .. N \/ n = N + 1
    BY <1>1
  <2> QED
    BY <1>1, <1>3, <2>1 DEF Exact
<1> QED
  BY <1>3, <1>4 DEF Steps, r

\* A call that is over gets its own result.
LEMMA ExactUpdate ==
  ASSUME TypeOK, NEW n \in 1 .. N, NEW S, NEW s, Exact(s, S)
  PROVE  LET r == [s EXCEPT ![n].result = n]
         IN  /\ r \in Seq([call : Nat, result : Nat]) /\ Len(r) = N
             /\ \A m \in 1 .. N :
                  r[m] = Step(m, IF m \in S \cup {n} THEN m ELSE Pending)
<1> DEFINE r == [s EXCEPT ![n].result = n]
<1>1. N \in Nat /\ n \in Nat
  BY CallFacts
<1>2. s \in Seq(Steps) /\ Len(s) = N /\ n \in 1 .. Len(s)
  BY DEF Exact, Steps
<1>3. /\ r \in Seq(Steps) /\ Len(r) = N /\ r[n] = Step(s[n].call, n)
      /\ \A m \in 1 .. N : m # n => r[m] = s[m]
  BY <1>1, <1>2, SetResult
<1> HIDE DEF r
<1>4. s[n].call = n
  BY DEF Exact, Step
<1>5. ASSUME NEW m \in 1 .. N
      PROVE  r[m] = Step(m, IF m \in S \cup {n} THEN m ELSE Pending)
  BY <1>3, <1>4 DEF Exact
<1> QED
  BY <1>3, <1>5 DEF Steps, r

\* A step that returns no result leaves those there are.
LEMMA AnsweredStays ==
  ASSUME TypeOK, Emit \/ \E n \in 1 .. N : Tool(n)
  PROVE  Answered' = Answered
<1>1. returned' = returned /\ returned \subseteq 1 .. N
  BY EmitEffect, ToolFrame DEF TypeOK
<1>2. ASSUME NEW m \in returned PROVE stage'[m] = stage[m]
  <2>1. CASE Emit
    BY <1>1, <2>1, EmitEffect
  <2>2. ASSUME NEW n \in 1 .. N, Tool(n) PROVE stage'[m] = stage[m]
    <3>1. m # n
      BY <2>2, ToolFrame DEF TypeOK, Finished
    <3> QED
      BY <1>1, <2>2, <3>1, ToolFrame
  <2> QED
    BY <2>1, <2>2
<1> QED
  BY <1>1, <1>2 DEF Answered

LEMMA TraceInvCall == ASSUME TypeOK, TraceInv, Emit PROVE TraceInv'
<1> SUFFICES ASSUME ~vague' PROVE (/\ Distinct
       /\ Exact(pyd.steps, Answered) /\ Finds(pyd.index, first .. N)
       /\ Exact(deep.steps, returned) /\ Finds(deep.byId, (first .. N) \ returned))'
  BY DEF TraceInv
<1>1. PICK c \in Call :
        /\ N' = N + 1 /\ calls'[N + 1] = c
        /\ \A n \in 1 .. N : calls'[n] = calls[n]
        /\ pyd' = PydCall(pyd, N + 1, c.id)
        /\ deep' = DeepCall(deep, N + 1, c.id)
        /\ ~vague /\ c.id # NoId
        /\ \A n \in first .. N : calls[n].id # c.id
  BY EmitCall
<1>2. /\ Distinct
      /\ Exact(pyd.steps, Answered) /\ Finds(pyd.index, first .. N)
      /\ Exact(deep.steps, returned) /\ Finds(deep.byId, (first .. N) \ returned)
  BY <1>1 DEF TraceInv
<1>3. N \in Nat /\ first \in 1 .. N + 1 /\ first' = first /\ returned' = returned
      /\ returned \subseteq 1 .. N
  BY EmitEffect DEF TypeOK
<1>4. /\ first .. N + 1 = (first .. N) \cup {N + 1}
      /\ \A n \in first .. N : n \in 1 .. N
  BY <1>3
<1>5. Distinct'
  BY <1>1, <1>2, <1>3, <1>4 DEF Distinct
<1>6. Exact(pyd.steps, Answered)' /\ pyd'.index = Put(pyd.index, c.id, N + 1)
  <2>1. pyd'.steps = Append(pyd.steps, Step(N + 1, Pending))
    BY <1>1 DEF PydCall
  <2>2. /\ pyd'.steps \in Seq([call : Nat, result : Nat]) /\ Len(pyd'.steps) = N + 1
        /\ \A n \in 1 .. N + 1 :
             pyd'.steps[n] = Step(n, IF n \in Answered THEN n ELSE Pending)
    <3>0. PICK S : S = Answered
      OBVIOUS
    <3>1. Exact(pyd.steps, S) /\ S \subseteq returned
      BY <1>2, <3>0 DEF Answered
    <3> DEFINE u == Append(pyd.steps, Step(N + 1, Pending))
    <3>2. /\ u \in Seq([call : Nat, result : Nat]) /\ Len(u) = N + 1
          /\ \A n \in 1 .. N + 1 : u[n] = Step(n, IF n \in S THEN n ELSE Pending)
      BY <3>1, ExactAppend, ZenonT(60)
    <3> HIDE DEF u
    <3> QED
      BY <2>1, <3>0, <3>2 DEF u
  <2>3. pyd'.index = Put(pyd.index, c.id, N + 1)
    BY <1>1, <2>1, <2>2 DEF PydCall
  <2> QED
    BY <1>1, <1>3, <2>2, <2>3, AnsweredStays DEF Exact, Pending
<1>7. Exact(deep.steps, returned)' /\ deep'.byId = Put(deep.byId, c.id, N + 1)
  <2>1. deep'.steps = Append(deep.steps, Step(N + 1, Pending))
    BY <1>1 DEF DeepCall
  <2>2. /\ deep'.steps \in Seq([call : Nat, result : Nat]) /\ Len(deep'.steps) = N + 1
        /\ \A n \in 1 .. N + 1 :
             deep'.steps[n] = Step(n, IF n \in returned THEN n ELSE Pending)
    <3>1. Exact(deep.steps, returned) /\ returned \subseteq returned
      BY <1>2
    <3> DEFINE u == Append(deep.steps, Step(N + 1, Pending))
    <3>2. /\ u \in Seq([call : Nat, result : Nat]) /\ Len(u) = N + 1
          /\ \A n \in 1 .. N + 1 : u[n] = Step(n, IF n \in returned THEN n ELSE Pending)
      BY <3>1, ExactAppend
    <3> HIDE DEF u
    <3> QED
      BY <2>1, <3>2 DEF u
  <2>3. deep'.byId = Put(deep.byId, c.id, N + 1)
    BY <1>1, <2>1, <2>2 DEF DeepCall
  <2> QED
    BY <1>1, <1>3, <2>2, <2>3 DEF Exact, Pending
<1>8. Finds(pyd.index, first .. N)'
  BY <1>1, <1>2, <1>3, <1>4, <1>6 DEF Finds, Put
<1>9. Finds(deep.byId, (first .. N) \ returned)'
  BY <1>1, <1>2, <1>3, <1>4, <1>7 DEF Finds, Put
<1> QED
  BY <1>5, <1>6, <1>7, <1>8, <1>9

LEMMA TraceInvReturn ==
  ASSUME TypeOK, TraceInv, NEW n \in 1 .. N, Return(n)
  PROVE  TraceInv'
<1> SUFFICES ASSUME ~vague' PROVE (/\ Distinct
       /\ Exact(pyd.steps, Answered) /\ Finds(pyd.index, first .. N)
       /\ Exact(deep.steps, returned) /\ Finds(deep.byId, (first .. N) \ returned))'
  BY DEF TraceInv
<1> DEFINE id == calls[n].id
<1>1. /\ UNCHANGED <<calls, first, vague>> /\ N' = N
      /\ n \notin returned /\ returned' = returned \cup {n}
      /\ pyd' = IF stage[n] = "retry" THEN pyd ELSE PydReturn(pyd, n, id)
      /\ deep' = DeepReturn(deep, n, id) /\ stage' = stage
  BY DEF Return, history, N
<1>2. /\ Distinct
      /\ Exact(pyd.steps, Answered) /\ Finds(pyd.index, first .. N)
      /\ Exact(deep.steps, returned) /\ Finds(deep.byId, (first .. N) \ returned)
  BY <1>1 DEF TraceInv
<1>3. N \in Nat /\ n \in first .. N
  BY <1>1 DEF TypeOK, N
<1>4. id # NoId
  BY <1>2, <1>3 DEF Distinct
<1>5. /\ <<id, n>> \in pyd.index /\ \A e \in pyd.index : e[1] = id => e = <<id, n>>
  BY <1>2, <1>3 DEF Finds
<1>6. /\ <<id, n>> \in deep.byId /\ \A e \in deep.byId : e[1] = id => e = <<id, n>>
  BY <1>1, <1>2, <1>3 DEF Finds
<1>7. Known(pyd.index, id) /\ At(pyd.index, id) = n
  BY <1>5, Lookup DEF Known
<1>8. Known(deep.byId, id) /\ At(deep.byId, id) = n
  BY <1>6, Lookup DEF Known
<1>9. /\ pyd'.index = pyd.index
      /\ IF stage[n] = "retry"
           THEN pyd'.steps = pyd.steps /\ Answered' = Answered
           ELSE /\ pyd'.steps = [pyd.steps EXCEPT ![n].result = n]
                /\ Answered' = Answered \cup {n}
  BY <1>1, <1>4, <1>7 DEF PydReturn, Answered
<1>10. /\ deep'.steps = [deep.steps EXCEPT ![n].result = n]
       /\ deep'.byId = {e \in deep.byId : e[1] # id}
  BY <1>1, <1>4, <1>8 DEF DeepReturn
<1>11. Exact(pyd.steps, Answered)'
  <2>0. CASE stage[n] = "retry"
    BY <1>1, <1>2, <1>9, <2>0 DEF Exact, Pending
  <2> SUFFICES ASSUME stage[n] # "retry" PROVE Exact(pyd.steps, Answered)'
    BY <2>0
  <2>1. /\ pyd'.steps \in Seq([call : Nat, result : Nat]) /\ Len(pyd'.steps) = N
        /\ \A m \in 1 .. N :
             pyd'.steps[m] = Step(m, IF m \in Answered \cup {n} THEN m ELSE Pending)
    <3>0. PICK S : S = Answered /\ Exact(pyd.steps, S)
      BY <1>2
    <3> DEFINE u == [pyd.steps EXCEPT ![n].result = n]
    <3>1. /\ u \in Seq([call : Nat, result : Nat]) /\ Len(u) = N
          /\ \A m \in 1 .. N :
               u[m] = Step(m, IF m \in S \cup {n} THEN m ELSE Pending)
      BY <3>0, ExactUpdate
    <3>2. pyd'.steps = u
      BY <1>9
    <3> HIDE DEF u
    <3> QED
      BY <3>0, <3>1, <3>2
  <2> QED
    BY <1>1, <1>9, <2>1 DEF Exact, Pending
<1>12. Exact(deep.steps, returned)'
  <2>1. /\ deep'.steps \in Seq([call : Nat, result : Nat]) /\ Len(deep'.steps) = N
        /\ \A m \in 1 .. N :
             deep'.steps[m] = Step(m, IF m \in returned \cup {n} THEN m ELSE Pending)
    <3> DEFINE u == [deep.steps EXCEPT ![n].result = n]
    <3>1. /\ u \in Seq([call : Nat, result : Nat]) /\ Len(u) = N
          /\ \A m \in 1 .. N :
               u[m] = Step(m, IF m \in returned \cup {n} THEN m ELSE Pending)
      BY <1>2, ExactUpdate
    <3>2. deep'.steps = u
      BY <1>10
    <3> HIDE DEF u
    <3> QED
      BY <3>1, <3>2
  <2> QED
    BY <1>1, <2>1 DEF Exact, Pending
<1>13. Distinct' /\ Finds(pyd.index, first .. N)'
  BY <1>1, <1>2, <1>9 DEF Distinct, Finds
<1>14. Finds(deep.byId, (first .. N) \ returned)'
  <2>1. ASSUME NEW m \in (first .. N) \ returned, m # n
        PROVE  <<calls[m].id, m>> \in deep'.byId
    <3>1. <<calls[m].id, m>> \in deep.byId
      BY <1>2 DEF Finds
    <3>2. calls[m].id # id
      BY <1>2, <1>3, <2>1 DEF Distinct
    <3> QED
      BY <1>10, <3>1, <3>2
  <2>2. \A d, e \in deep'.byId : d[1] = e[1] => d = e
    BY <1>2, <1>10 DEF Finds
  <2> QED
    BY <1>1, <2>1, <2>2 DEF Finds
<1> QED
  BY <1>11, <1>12, <1>13, <1>14

LEMMA TraceInvNext == TypeOK /\ TraceInv /\ [Next]_vars => TraceInv'
<1> SUFFICES ASSUME TypeOK, TraceInv, [Next]_vars PROVE TraceInv'
  OBVIOUS
<1>1. CASE RunResponse \/ Over \/ UNCHANGED vars \/ \E n \in 1 .. N : Tool(n)
  <2>1. UNCHANGED <<calls, first, returned, pyd, deep, vague, N>>
    BY <1>1, TraceFrame, ToolFrame DEF RunResponse, Over, vars
  <2>2. Answered' = Answered
    BY <1>1, AnsweredStays DEF RunResponse, Over, vars, traces, Answered
  <2> QED
    BY <2>1, <2>2 DEF TraceInv, Distinct, Exact, Finds
<1>2. CASE NextResponse
  <2>1. UNCHANGED <<calls, returned, pyd, deep, vague, N>>
    BY <1>2, TraceFrame
  <2>2. N \in Nat /\ first' = N + 1 /\ returned = 1 .. N
    BY <1>2 DEF NextResponse, TypeOK, N
  <2>3. first' .. N' = {}
    BY <2>1, <2>2
  <2>4. Answered' = Answered
    BY <1>2 DEF NextResponse, traces, Answered
  <2> QED
    BY <2>1, <2>3, <2>4 DEF TraceInv, Distinct, Exact, Finds
<1> QED
  BY <1>1, <1>2, TraceInvCall, TraceInvReturn DEF Next

\* TraceExact for any ids and any order of the results.
THEOREM ToolsTraceExact == Spec => []TraceExact
<1>1. Init => TraceInv
  <2>1. <<>> \in Seq([call : Nat, result : Nat]) /\ Len(<<>>) = 0
    OBVIOUS
  <2>2. Init => N = 0 /\ first .. N = {} /\ 1 .. N = {}
    BY DEF Init, N
  <2> QED
    BY <2>1, <2>2 DEF Init, TraceInv, Distinct, Exact, Finds
<1>2. TypeOK /\ TraceInv /\ [Next]_vars => TraceInv'
  BY TraceInvNext
<1>3. TraceInv => TraceExact
  <2>1. ASSUME NEW t, NEW S, Exact(t, S)
        PROVE  t = [n \in 1 .. N |-> Step(n, IF n \in S THEN n ELSE Pending)]
    <3>1. t \in Seq(Steps) /\ Len(t) = N
      BY <2>1 DEF Exact, Steps
    <3>2. t \in [1 .. N -> Steps]
      BY <3>1, LenProperties
    <3> QED
      BY <2>1, <3>2 DEF Exact
  <2> QED
    BY <2>1 DEF TraceInv, TraceExact
<1>4. Spec => []TypeOK
  BY ToolsTypeCorrect
<1> QED
  BY <1>1, <1>2, <1>3, <1>4, PTL DEF Spec

=============================================================================
