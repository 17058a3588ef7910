------------------------- MODULE AgentPipeline_proofs -------------------------
(***************************************************************************)
(* The loops implement CommandLog, for any number of loops and commands.   *)
(*                                                                         *)
(* What makes it true is that a command at work is the one just before the *)
(* committed offset, and that nothing has become of a command at or after  *)
(* the committed offset.                                                   *)
(***************************************************************************)
EXTENDS AgentPipeline, TLAPS

\* A reader that goes back goes no further back than the committed offset.
Offsets == \A c \in Consumers : committed[c] <= position[c]

\* Nothing has become of a command that may be read again.
Ahead == \A c \in Consumers, i \in Positions : i >= committed[c] => Log!Untouched(c, i)

\* The command a loop is at work on: not answered, and executed as far as
\* the loop has got.
AtWork ==
    \A c \in Consumers : pc[c] \in Working =>
        /\ cur[c] \in Positions
        /\ committed[c] = cur[c] + 1
        /\ ~Log!Answered(c, cur[c])
        /\ pc[c] \in {"dispatch", "call"} => status[<<c, cur[c]>>] = "waiting"
        /\ pc[c] \in {"execute", "stuck"} => status[<<c, cur[c]>>] = "running"
        /\ pc[c] = "answer" =>
            /\ status[<<c, cur[c]>>] \in {"waiting", "done", "failed"}
            /\ result[c] = "ok" => status[<<c, cur[c]>>] = "done"

\* Only a loop's current command is being executed.
OnlyRunning ==
    \A c \in Consumers, i \in Positions :
        status[<<c, i>>] = "running" => pc[c] \in {"execute", "stuck"} /\ cur[c] = i

\* A reader is past the committed offset only by messages it failed to read.
Skipped ==
    \A c \in Consumers, i \in Positions :
        committed[c] <= i /\ i < position[c] => <<c, i>> \in silent

IInv == TypeOK /\ Offsets /\ Skipped /\ Ahead /\ AtWork /\ OnlyRunning /\ NoneForgotten

-----------------------------------------------------------------------------

USE DEF Positions, Commands, Log!Positions, Log!Commands

LEMMA InitInv == Init => IInv
<1> SUFFICES ASSUME Init PROVE IInv
  OBVIOUS
<1> USE PipelineAssumption DEF Init
<1>1. TypeOK
  BY DEF TypeOK
<1>2. Offsets /\ AtWork /\ Skipped
  BY DEF Offsets, AtWork, Skipped, Working
<1>4. OnlyRunning
  BY DEF OnlyRunning
<1>5. NoneForgotten
  BY DEF NoneForgotten
<1>3. Ahead
  BY DEF Ahead, Log!Untouched, Log!Answered
<1> QED BY <1>1, <1>2, <1>3, <1>4, <1>5 DEF IInv

LEMMA ReadInv == ASSUME IInv, NEW c \in Consumers, Read(c) PROVE IInv'
<1> USE PipelineAssumption DEF IInv, Read, Goes, reader, outcome, Working, Working
<1>1. TypeOK'
  BY DEF TypeOK, AtWork
<1>2. Offsets' /\ Skipped'
  BY DEF TypeOK, Offsets, Skipped
<1>3. Ahead'
  <2>1. ASSUME NEW d \in Consumers, NEW i \in Positions PROVE Log!Untouched(d, i)' <=> Log!Untouched(d, i)
    BY DEF Log!Untouched, Log!Answered
  <2>2. ASSUME NEW d \in Consumers PROVE committed[d] \in Nat /\ committed[d]' \in Nat /\ committed[d]' >= committed[d]
    BY DEF TypeOK, Offsets
  <2> QED BY <2>1, <2>2 DEF Ahead
<1>4. AtWork'
  BY DEF TypeOK, Offsets, Ahead, AtWork, Log!Untouched, Log!Answered
<1>5. OnlyRunning'
  BY DEF TypeOK, OnlyRunning, Offsets, Ahead, AtWork, Log!Untouched
<1>6. NoneForgotten'
  <2> SUFFICES ASSUME NEW d \in Consumers, NEW i \in Positions, Topic[<<d, i>>] = "answered",
                      i < committed[d]', ~(pc[d] \in Working /\ cur[d] = i)'
               PROVE  Log!Answered(d, i)' \/ (<<d, i>> \in silent)'
    BY DEF NoneForgotten
  <2>1. Log!Answered(d, i)' <=> Log!Answered(d, i)
    BY DEF Log!Answered
  <2>2. CASE d # c
    BY <2>1, <2>2 DEF TypeOK, NoneForgotten
  <2>3. CASE d = c
    <3>1. pc[c] \notin Working /\ i # position[c] /\ i < position[c] + 1
      BY <2>3 DEF TypeOK
    <3>2. CASE i < committed[c]
      BY <3>1, <3>2, <2>1, <2>3 DEF NoneForgotten
    <3>3. CASE committed[c] <= i /\ i < position[c]
      BY <3>3, <2>3 DEF Skipped
    <3> QED BY <3>1, <3>2, <3>3 DEF TypeOK
  <2> QED BY <2>2, <2>3
<1> QED BY <1>1, <1>2, <1>3, <1>4, <1>5, <1>6 DEF IInv

LEMMA ReadFailsInv == ASSUME IInv, NEW c \in Consumers, ReadFails(c) PROVE IInv'
<1> USE PipelineAssumption DEF IInv, ReadFails, outcome, Working
<1>1. TypeOK'
  BY DEF TypeOK, AtWork
<1>2. Offsets' /\ Skipped'
  <2>1. Offsets'
    BY DEF TypeOK, Offsets
  <2>2. ASSUME NEW d \in Consumers, NEW i \in Positions, committed[d]' <= i, i < position[d]'
        PROVE  (<<d, i>> \in silent)'
    <3>1. CASE d # c
      BY <2>2, <3>1 DEF TypeOK, Skipped
    <3>2. CASE d = c
      <4>1. position[c] \in Nat /\ committed[c] \in Nat
        BY DEF TypeOK
      <4>2. i < position[c] + 1 /\ (committed[c] <= i \/ position[c] + 1 <= i)
        BY <2>2, <3>2, <4>1 DEF TypeOK
      <4>3. i = position[c] \/ (committed[c] <= i /\ i < position[c])
        BY <4>1, <4>2
      <4> QED BY <4>3, <3>2 DEF Skipped
    <3> QED BY <3>1, <3>2
  <2> QED BY <2>1, <2>2 DEF Skipped
<1>3. Ahead'
  <2>1. ASSUME NEW d \in Consumers, NEW i \in Positions PROVE Log!Untouched(d, i)' <=> Log!Untouched(d, i)
    BY DEF Log!Untouched, Log!Answered
  <2>2. ASSUME NEW d \in Consumers PROVE committed[d] \in Nat /\ committed[d]' \in Nat /\ committed[d]' >= committed[d]
    BY DEF TypeOK, Offsets
  <2> QED BY <2>1, <2>2 DEF Ahead
<1>4. AtWork'
  BY DEF TypeOK, Offsets, Ahead, AtWork, Log!Untouched, Log!Answered
<1>5. OnlyRunning'
  BY DEF TypeOK, OnlyRunning, Offsets, Ahead, AtWork, Log!Untouched
<1>6. NoneForgotten'
  <2> SUFFICES ASSUME NEW d \in Consumers, NEW i \in Positions, Topic[<<d, i>>] = "answered",
                      i < committed[d]', ~(pc[d] \in Working /\ cur[d] = i)'
               PROVE  Log!Answered(d, i)' \/ (<<d, i>> \in silent)'
    BY DEF NoneForgotten
  <2>1. Log!Answered(d, i)' <=> Log!Answered(d, i)
    BY DEF Log!Answered
  <2>2. CASE i < committed[d]
    BY <2>1, <2>2 DEF NoneForgotten
  <2>3. CASE ~(i < committed[d])
    <3>1. d = c /\ committed[c] <= i /\ (i < position[c] \/ i = position[c])
      BY <2>3 DEF TypeOK
    <3> QED BY <3>1 DEF Skipped
  <2> QED BY <2>2, <2>3
<1> QED BY <1>1, <1>2, <1>3, <1>4, <1>5, <1>6 DEF IInv

LEMMA RejoinInv == ASSUME IInv, NEW c \in Consumers, Rejoin(c) PROVE IInv'
<1> USE PipelineAssumption DEF IInv, Rejoin, outcome, Working
<1>1. TypeOK'
  BY DEF TypeOK, AtWork
<1>2. Offsets' /\ Skipped'
  BY DEF TypeOK, Offsets, Skipped
<1>3. Ahead'
  <2>1. ASSUME NEW d \in Consumers, NEW i \in Positions PROVE Log!Untouched(d, i)' <=> Log!Untouched(d, i)
    BY DEF Log!Untouched, Log!Answered
  <2>2. ASSUME NEW d \in Consumers PROVE committed[d] \in Nat /\ committed[d]' \in Nat /\ committed[d]' >= committed[d]
    BY DEF TypeOK, Offsets
  <2> QED BY <2>1, <2>2 DEF Ahead
<1>4. AtWork'
  BY DEF TypeOK, Offsets, Ahead, AtWork, Log!Untouched, Log!Answered
<1>5. OnlyRunning'
  BY DEF TypeOK, OnlyRunning, Offsets, Ahead, AtWork, Log!Untouched
<1>6. NoneForgotten'
  BY DEF TypeOK, NoneForgotten, Skipped, AtWork, Log!Answered
<1> QED BY <1>1, <1>2, <1>3, <1>4, <1>5, <1>6 DEF IInv

LEMMA DispatchInv == ASSUME IInv, NEW c \in Consumers, Dispatch(c) PROVE IInv'
<1> USE PipelineAssumption DEF IInv, Dispatch, Goes, reader, outcome, Working
<1>1. TypeOK'
  BY DEF TypeOK, AtWork
<1>2. Offsets' /\ Skipped'
  BY DEF TypeOK, Offsets, Skipped
<1>3. Ahead'
  <2>1. ASSUME NEW d \in Consumers, NEW i \in Positions PROVE Log!Untouched(d, i)' <=> Log!Untouched(d, i)
    BY DEF Log!Untouched, Log!Answered
  <2>2. ASSUME NEW d \in Consumers PROVE committed[d] \in Nat /\ committed[d]' \in Nat /\ committed[d]' >= committed[d]
    BY DEF TypeOK, Offsets
  <2> QED BY <2>1, <2>2 DEF Ahead
<1>4. AtWork'
  BY DEF TypeOK, Offsets, Ahead, AtWork, Log!Untouched, Log!Answered
<1>5. OnlyRunning'
  BY DEF TypeOK, OnlyRunning, Offsets, Ahead, AtWork, Log!Untouched
<1>6. NoneForgotten'
  BY DEF TypeOK, NoneForgotten, Skipped, AtWork, Log!Answered
<1> QED BY <1>1, <1>2, <1>3, <1>4, <1>5, <1>6 DEF IInv

LEMMA CallInv == ASSUME IInv, NEW c \in Consumers, Call(c) PROVE IInv'
<1> USE PipelineAssumption DEF IInv, Call, Goes, reader, Working
<1>1. TypeOK'
  BY DEF TypeOK, AtWork
<1>2. Offsets' /\ Skipped'
  BY DEF TypeOK, Offsets, Skipped
<1>3. Ahead'
  BY DEF TypeOK, Offsets, Ahead, AtWork, Log!Untouched, Log!Answered
<1>4. AtWork'
  BY DEF TypeOK, Offsets, Ahead, AtWork, Log!Untouched, Log!Answered
<1>5. OnlyRunning'
  BY DEF TypeOK, OnlyRunning, Offsets, Ahead, AtWork, Log!Untouched
<1>6. NoneForgotten'
  BY DEF TypeOK, NoneForgotten, Skipped, AtWork, Log!Answered
<1> QED BY <1>1, <1>2, <1>3, <1>4, <1>5, <1>6 DEF IInv

LEMMA CallRefusedInv == ASSUME IInv, NEW c \in Consumers, CallRefused(c) PROVE IInv'
<1> USE PipelineAssumption DEF IInv, CallRefused, Goes, After, reader, Working
<1>1. TypeOK'
  BY DEF TypeOK, AtWork
<1>2. Offsets' /\ Skipped'
  BY DEF TypeOK, Offsets, Skipped
<1>3. Ahead'
  BY DEF TypeOK, Offsets, Ahead, AtWork, Log!Untouched, Log!Answered
<1>4. AtWork'
  BY DEF TypeOK, Offsets, Ahead, AtWork, Log!Untouched, Log!Answered
<1>5. OnlyRunning'
  BY DEF TypeOK, OnlyRunning, Offsets, Ahead, AtWork, Log!Untouched
<1>6. NoneForgotten'
  BY DEF TypeOK, NoneForgotten, Skipped, AtWork, Log!Answered
<1> QED BY <1>1, <1>2, <1>3, <1>4, <1>5, <1>6 DEF IInv

LEMMA HandlerSucceedsInv == ASSUME IInv, NEW c \in Consumers, HandlerSucceeds(c) PROVE IInv'
<1> USE PipelineAssumption DEF IInv, HandlerSucceeds, Goes, After, reader, Working
<1>1. TypeOK'
  BY DEF TypeOK, AtWork
<1>2. Offsets' /\ Skipped'
  BY DEF TypeOK, Offsets, Skipped
<1>3. Ahead'
  BY DEF TypeOK, Offsets, Ahead, AtWork, Log!Untouched, Log!Answered
<1>4. AtWork'
  BY DEF TypeOK, Offsets, Ahead, AtWork, Log!Untouched, Log!Answered
<1>5. OnlyRunning'
  BY DEF TypeOK, OnlyRunning, Offsets, Ahead, AtWork, Log!Untouched
<1>6. NoneForgotten'
  BY DEF TypeOK, NoneForgotten, Skipped, AtWork, Log!Answered
<1> QED BY <1>1, <1>2, <1>3, <1>4, <1>5, <1>6 DEF IInv

LEMMA HandlerFailsInv == ASSUME IInv, NEW c \in Consumers, HandlerFails(c) PROVE IInv'
<1> USE PipelineAssumption DEF IInv, HandlerFails, Goes, After, reader, Working
<1>1. TypeOK'
  BY DEF TypeOK, AtWork
<1>2. Offsets' /\ Skipped'
  BY DEF TypeOK, Offsets, Skipped
<1>3. Ahead'
  BY DEF TypeOK, Offsets, Ahead, AtWork, Log!Untouched, Log!Answered
<1>4. AtWork'
  BY DEF TypeOK, Offsets, Ahead, AtWork, Log!Untouched, Log!Answered
<1>5. OnlyRunning'
  BY DEF TypeOK, OnlyRunning, Offsets, Ahead, AtWork, Log!Untouched
<1>6. NoneForgotten'
  BY DEF TypeOK, NoneForgotten, Skipped, AtWork, Log!Answered
<1> QED BY <1>1, <1>2, <1>3, <1>4, <1>5, <1>6 DEF IInv

LEMMA HandlerBlocksInv == ASSUME IInv, NEW c \in Consumers, HandlerBlocks(c) PROVE IInv'
<1> USE PipelineAssumption DEF IInv, HandlerBlocks, Goes, reader, outcome, Working
<1>1. TypeOK'
  BY DEF TypeOK, AtWork
<1>2. Offsets' /\ Skipped'
  BY DEF TypeOK, Offsets, Skipped
<1>3. Ahead'
  BY DEF TypeOK, Offsets, Ahead, AtWork, Log!Untouched, Log!Answered
<1>4. AtWork'
  BY DEF TypeOK, Offsets, Ahead, AtWork, Log!Untouched, Log!Answered
<1>5. OnlyRunning'
  BY DEF TypeOK, OnlyRunning, Offsets, Ahead, AtWork, Log!Untouched
<1>6. NoneForgotten'
  BY DEF TypeOK, NoneForgotten, Skipped, AtWork, Log!Answered
<1> QED BY <1>1, <1>2, <1>3, <1>4, <1>5, <1>6 DEF IInv

LEMMA SendInv == ASSUME IInv, NEW c \in Consumers, Send(c) PROVE IInv'
<1> USE PipelineAssumption DEF IInv, Send, Goes, Event, reader, outcome, Working
<1>1. TypeOK'
  <2>1. <<c, cur[c]>> \in Commands
    BY DEF AtWork
  <2>2. Event(c) \in [command : Commands, succeed : BOOLEAN]
    BY <2>1 DEF Event
  <2> QED BY <2>1, <2>2 DEF TypeOK
<1>2. Offsets' /\ Skipped'
  BY DEF TypeOK, Offsets, Skipped
<1>3. Ahead'
  BY DEF TypeOK, Offsets, Ahead, AtWork, Log!Untouched, Log!Answered
<1>4. AtWork'
  BY DEF TypeOK, Offsets, Ahead, AtWork, Log!Untouched, Log!Answered
<1>5. OnlyRunning'
  BY DEF TypeOK, OnlyRunning, Offsets, Ahead, AtWork, Log!Untouched
<1>6. NoneForgotten'
  <2>1. Log!Answered(c, cur[c])'
    <3>1. Event(c) \in answers' /\ Event(c).command = <<c, cur[c]>>'
      OBVIOUS
    <3> HIDE DEF Event
    <3> QED BY <3>1 DEF Log!Answered
  <2>2. \A d \in Consumers, i \in Positions : Log!Answered(d, i) => Log!Answered(d, i)'
    BY DEF Log!Answered
  <2> QED BY <2>1, <2>2 DEF TypeOK, NoneForgotten
<1> QED BY <1>1, <1>2, <1>3, <1>4, <1>5, <1>6 DEF IInv

LEMMA SendFailsInv == ASSUME IInv, NEW c \in Consumers, SendFails(c) PROVE IInv'
<1> USE PipelineAssumption DEF IInv, SendFails, Goes, Event, reader, outcome, Working
<1>1. TypeOK'
  <2>1. <<c, cur[c]>> \in Commands
    BY DEF AtWork
  <2>2. Event(c) \in [command : Commands, succeed : BOOLEAN]
    BY <2>1 DEF Event
  <2> QED BY <2>1, <2>2 DEF TypeOK
<1>2. Offsets' /\ Skipped'
  BY DEF TypeOK, Offsets, Skipped
<1>3. Ahead'
  BY DEF TypeOK, Offsets, Ahead, AtWork, Log!Untouched, Log!Answered
<1>4. AtWork'
  BY DEF TypeOK, Offsets, Ahead, AtWork, Log!Untouched, Log!Answered
<1>5. OnlyRunning'
  BY DEF TypeOK, OnlyRunning, Offsets, Ahead, AtWork, Log!Untouched
<1>6. NoneForgotten'
  BY DEF TypeOK, NoneForgotten, Skipped, AtWork, Log!Answered
<1> QED BY <1>1, <1>2, <1>3, <1>4, <1>5, <1>6 DEF IInv

LEMMA AgentDiesInv == ASSUME IInv, AgentDies PROVE IInv'
<1> USE PipelineAssumption DEF IInv, AgentDies, reader, outcome, Working
<1>1. TypeOK'
  <2>1. \A d \in Consumers : pc[d] \in Working => <<d, cur[d]>> \in Commands
    BY DEF AtWork
  <2>2. silent' \subseteq Commands
    BY <2>1 DEF TypeOK
  <2> QED BY <2>2 DEF TypeOK
<1>2. Offsets' /\ Skipped'
  BY DEF TypeOK, Offsets, Skipped
<1>3. Ahead'
  BY DEF TypeOK, Ahead, Log!Untouched, Log!Answered
<1>4. AtWork'
  BY DEF TypeOK, AtWork
<1>5. OnlyRunning'
  BY DEF TypeOK, OnlyRunning
<1>6. NoneForgotten'
  <2>1. \A d \in Consumers, i \in Positions :
            /\ Log!Answered(d, i) => Log!Answered(d, i)'
            /\ <<d, i>> \in silent => <<d, i>> \in silent'
    BY DEF Log!Answered
  <2>2. \A d \in Consumers : pc[d] \in Working => <<d, cur[d]>> \in silent'
    OBVIOUS
  <2> QED BY <2>1, <2>2 DEF TypeOK, NoneForgotten
<1> QED BY <1>1, <1>2, <1>3, <1>4, <1>5, <1>6 DEF IInv

LEMMA AgentRestartsInv == ASSUME IInv, AgentRestarts PROVE IInv'
<1> USE PipelineAssumption DEF IInv, AgentRestarts, reader, outcome, Working
<1>1. TypeOK'
  BY DEF TypeOK
<1>2. Offsets' /\ Skipped'
  BY DEF TypeOK, Offsets, Skipped
<1>3. Ahead'
  BY DEF TypeOK, Ahead, Log!Untouched, Log!Answered
<1>4. AtWork'
  BY DEF TypeOK, AtWork
<1>5. OnlyRunning'
  BY DEF TypeOK, OnlyRunning
<1>6. NoneForgotten'
  BY DEF TypeOK, NoneForgotten, Skipped, AtWork, Log!Answered
<1> QED BY <1>1, <1>2, <1>3, <1>4, <1>5, <1>6 DEF IInv

LEMMA StepInv == IInv /\ [Next]_vars => IInv'
<1> SUFFICES ASSUME IInv, [Next]_vars PROVE IInv'
  OBVIOUS
<1>1. ASSUME NEW c \in Consumers, Loop(c) PROVE IInv'
  BY <1>1, ReadInv, DispatchInv, CallInv, CallRefusedInv, HandlerSucceedsInv, HandlerFailsInv,
     HandlerBlocksInv, SendInv, SendFailsInv DEF Loop
<1>2. ASSUME NEW c \in Consumers, ReadFails(c) \/ Rejoin(c) PROVE IInv'
  BY <1>2, ReadFailsInv, RejoinInv
<1>3. ASSUME UNCHANGED vars PROVE IInv'
  <2> USE <1>3 DEF IInv, vars, reader, outcome
  <2>1. TypeOK' /\ Offsets' /\ Skipped'
    BY DEF TypeOK, Offsets, Skipped
  <2>2. Ahead'
    BY DEF Ahead, Log!Untouched, Log!Answered
  <2>3. AtWork' /\ OnlyRunning'
    BY DEF AtWork, OnlyRunning, Log!Answered
  <2>4. NoneForgotten'
    BY DEF NoneForgotten, Log!Answered
  <2> QED BY <2>1, <2>2, <2>3, <2>4
<1> QED BY <1>1, <1>2, <1>3, AgentDiesInv, AgentRestartsInv DEF Next

LEMMA Inductive == Spec => []IInv
<1> QED BY InitInv, StepInv, PTL DEF Spec

\* Every variable has its type, whatever fails and whoever dies.
THEOREM TypeCorrect == Spec => []TypeOK
<1>1. IInv => TypeOK
  BY DEF IInv
<1> QED BY <1>1, Inductive, PTL

\* Every command that has an event, and that its loop is through with, has had
\* it, except where reading, sending or the process failed.
THEOREM NoneForgottenHolds == Spec => []NoneForgotten
<1>1. IInv => NoneForgotten
  BY DEF IInv
<1> QED BY <1>1, Inductive, PTL

-----------------------------------------------------------------------------
(* The refinement.                                                         *)

LEMMA InitRefines == Init => Log!Init
<1> QED BY DEF Init, Log!Init

\* Nothing has become of the commands after the one at work.
LEMMA WorkIsLatest ==
    ASSUME IInv, NEW c \in Consumers, pc[c] \in Working
    PROVE  cur[c] \in Positions /\ Log!Latest(c, cur[c])
<1>1. cur[c] \in Positions /\ committed[c] = cur[c] + 1
  BY DEF IInv, AtWork
<1>2. \A j \in Positions : j > cur[c] => j >= committed[c]
  BY <1>1
<1> QED BY <1>1, <1>2 DEF IInv, Ahead, Log!Latest

LEMMA LoopRefines ==
    ASSUME IInv, NEW c \in Consumers, Loop(c)
    PROVE  Log!Next \/ UNCHANGED Log!vars
<1> USE DEF Goes, reader, outcome
<1>1. CASE Read(c) \/ Dispatch(c) \/ CallRefused(c) \/ HandlerBlocks(c)
  BY <1>1 DEF Read, Dispatch, CallRefused, HandlerBlocks, Log!vars
<1>2. CASE Call(c)
  <2>1. pc[c] = "call" /\ pc[c] \in Working
    BY <1>2 DEF Call, Working
  <2>2. Log!Untouched(c, cur[c])
    BY <2>1 DEF IInv, AtWork, Log!Untouched
  <2>3. \A j \in Positions : status[<<c, j>>] # "running"
    BY <2>1 DEF IInv, OnlyRunning
  <2>4. Log!Begin(c, cur[c])
    BY <1>2, <2>1, <2>2, <2>3, WorkIsLatest DEF Call, Log!Begin
  <2> QED BY <2>1, <2>4, WorkIsLatest DEF Log!Next
<1>3. CASE HandlerSucceeds(c) \/ HandlerFails(c)
  <2>1. pc[c] = "execute" /\ pc[c] \in Working
    BY <1>3 DEF HandlerSucceeds, HandlerFails, Working
  <2>2. status[<<c, cur[c]>>] = "running"
    BY <2>1 DEF IInv, AtWork
  <2>3. Log!End(c, cur[c])
    BY <1>3, <2>2 DEF HandlerSucceeds, HandlerFails, Log!End
  <2> QED BY <2>1, <2>3, WorkIsLatest DEF Log!Next
<1>4. CASE Send(c) \/ SendFails(c)
  <2>1. pc[c] = "answer" /\ pc[c] \in Working
    BY <1>4 DEF Send, SendFails, Working
  <2>2. /\ ~Log!Answered(c, cur[c])
        /\ status[<<c, cur[c]>>] # "running"
        /\ result[c] = "ok" => status[<<c, cur[c]>>] = "done"
    BY <2>1 DEF IInv, AtWork
  <2>3. UNCHANGED status /\ (UNCHANGED answers \/ answers' = answers \cup {Event(c)})
    BY <1>4 DEF Send, SendFails
  <2>4. CASE UNCHANGED answers
    BY <2>3, <2>4 DEF Log!vars
  <2>5. CASE answers' = answers \cup {Event(c)}
    <3>1. Log!Reply(c, cur[c], result[c] = "ok")
      BY <2>1, <2>2, <2>3, <2>5, WorkIsLatest DEF Log!Reply, Event
    <3>2. (result[c] = "ok") \in BOOLEAN
      OBVIOUS
    <3> QED BY <2>1, <3>1, <3>2, WorkIsLatest DEF Log!Next
  <2> QED BY <2>3, <2>4, <2>5
<1> QED BY <1>1, <1>2, <1>3, <1>4 DEF Loop

LEMMA StepRefines == IInv /\ [Next]_vars => [Log!Next]_Log!vars
<1> SUFFICES ASSUME IInv, [Next]_vars PROVE Log!Next \/ UNCHANGED Log!vars
  OBVIOUS
<1> USE DEF reader, outcome
<1>1. ASSUME NEW c \in Consumers, ReadFails(c) \/ Rejoin(c) PROVE UNCHANGED Log!vars
  BY <1>1 DEF ReadFails, Rejoin, Log!vars
<1>2. CASE AgentDies
  BY <1>2 DEF AgentDies, Log!Next, Log!Cut
<1>3. CASE AgentRestarts
  BY <1>3 DEF AgentRestarts, Log!vars
<1>4. CASE UNCHANGED vars
  BY <1>4 DEF vars, Log!vars
<1> QED BY <1>1, <1>2, <1>3, <1>4, LoopRefines DEF Next

\* The two loops, with Kafka's offsets, gRPC and crashes, do what CommandLog
\* says: each command is executed at most once and answered at most once, in
\* order, one at a time, and "succeed" is said only of one that did.
THEOREM Refinement == Spec => ImplementsCommandLog
<1> QED BY InitRefines, StepRefines, Inductive, PTL DEF Spec, ImplementsCommandLog, Log!Spec
=============================================================================
