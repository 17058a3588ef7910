---------------------------- MODULE AgentPipeline ----------------------------
(***************************************************************************)
(* How commands reach the handlers and answers leave the agent.            *)
(*                                                                         *)
(* pkg/dns/kafkaconsumer and pkg/dhcp/kafkaconsumer: one loop each, which  *)
(* reads a command from its Kafka topic, calls the handler over gRPC in    *)
(* its own process, waits for it, and writes what came of it to the topic  *)
(* AgentEventTopic (pkg/kafkaproducer).  cmd/agent starts both.            *)
(*                                                                         *)
(* Kafka is external: a topic is a sequence of commands and an offset that *)
(* the consumer group keeps.  kafka-go's ReadMessage fetches a message and *)
(* commits the offset after it before it returns the message; that it may  *)
(* be given its partition anew between the two is left out.  The writer    *)
(* may write an event more than once; the set of events does not tell.     *)
(* The handlers are the other modules: here a handler ends, well or badly, *)
(* or never ends.                                                          *)
(***************************************************************************)
EXTENDS Naturals

CONSTANTS
    Consumers,    \* the loops: "dns" and "dhcp"
    Last,         \* how many commands there are in each topic
    Topic,        \* of what kind each is
    MaxCrashes    \* bound on how often the agent process dies

Positions == 1 .. Last
Commands  == Consumers \X Positions

\* A command with an event; StartDNS, StopDNS or UploadLog, which have none;
\* a command that is not unmarshalled, or whose key no case of the switch has.
Kinds == {"answered", "quiet", "ignored"}

ASSUME PipelineAssumption ==
    /\ Last \in Nat
    /\ MaxCrashes \in Nat
    /\ Topic \in [Commands -> Kinds]

VARIABLES
    pc,           \* where each loop is; "down" while the agent is not running
    position,     \* the next message each reader fetches
    committed,    \* the offset Kafka keeps for each consumer group
    cur,          \* the command each loop is at
    result,       \* what the last call returned
    status,       \* what has become of the execution of each command
    answers,      \* the events in AgentEventTopic
    silent,       \* history: commands no event may come of, for a failure
    crashes       \* how often the agent process has died

reader  == <<position, committed, cur>>
outcome == <<result, status>>
vars    == <<pc, reader, outcome, answers, silent, crashes>>

-----------------------------------------------------------------------------

Init ==
    /\ pc = [c \in Consumers |-> "read"]
    /\ position = [c \in Consumers |-> 1]
    /\ committed = [c \in Consumers |-> 1]
    /\ cur = [c \in Consumers |-> 1]
    /\ result = [c \in Consumers |-> "ok"]
    /\ status = [x \in Commands |-> "waiting"]
    /\ answers = {}
    /\ silent = {}
    /\ crashes = 0

Goes(c, from, to) == pc[c] = from /\ pc' = [pc EXCEPT ![c] = to]

Working == {"dispatch", "call", "execute", "stuck", "answer"}

-----------------------------------------------------------------------------
(* ReadMessage.                                                            *)

\* Mutant of Read: one loop for both topics.
ReadTogether(c) ==
    /\ \A d \in Consumers : pc[d] = "read"
    /\ position[c] \in Positions
    /\ Goes(c, "read", "dispatch")
    /\ cur' = [cur EXCEPT ![c] = position[c]]
    /\ position' = [position EXCEPT ![c] = position[c] + 1]
    /\ committed' = [committed EXCEPT ![c] = position[c] + 1]
    /\ UNCHANGED <<outcome, answers, silent, crashes>>

\* Mutant of Read: the offset is not committed before the message is returned.
ReadUncommitted(c) ==
    /\ position[c] \in Positions
    /\ Goes(c, "read", "dispatch")
    /\ cur' = [cur EXCEPT ![c] = position[c]]
    /\ position' = [position EXCEPT ![c] = position[c] + 1]
    /\ UNCHANGED <<committed, outcome, answers, silent, crashes>>

Read(c) ==
    /\ position[c] \in Positions
    /\ Goes(c, "read", "dispatch")
    /\ cur' = [cur EXCEPT ![c] = position[c]]
    /\ position' = [position EXCEPT ![c] = position[c] + 1]
    /\ committed' = [committed EXCEPT ![c] = position[c] + 1]
    /\ UNCHANGED <<outcome, answers, silent, crashes>>

\* The message was fetched but its offset was not committed, or so it seems:
\* ReadMessage returns the error and not the message, and the loop goes on.
ReadFails(c) ==
    /\ position[c] \in Positions
    /\ pc[c] = "read"
    /\ position' = [position EXCEPT ![c] = position[c] + 1]
    /\ \/ UNCHANGED committed
       \/ committed' = [committed EXCEPT ![c] = position[c] + 1]
    /\ silent' = silent \cup {<<c, position[c]>>}
    /\ UNCHANGED <<pc, cur, outcome, answers, crashes>>

\* Mutant of Rejoin: the offset of the last message, not of the next one.
RejoinBefore(c) ==
    /\ pc[c] # "down"
    /\ position' = [position EXCEPT ![c] = committed[c] - 1]
    /\ UNCHANGED <<pc, committed, cur, outcome, answers, silent, crashes>>

\* The consumer group gives the reader its partition anew.
Rejoin(c) ==
    /\ pc[c] # "down"
    /\ position' = [position EXCEPT ![c] = committed[c]]
    /\ UNCHANGED <<pc, committed, cur, outcome, answers, silent, crashes>>

-----------------------------------------------------------------------------
(* The switch on the key of the message, and the call.                     *)

Dispatch(c) ==
    /\ Goes(c, "dispatch", IF Topic[<<c, cur[c]>>] = "ignored" THEN "read" ELSE "call")
    /\ UNCHANGED <<reader, outcome, answers, silent, crashes>>

\* The handler starts.
Call(c) ==
    /\ Goes(c, "call", "execute")
    /\ status' = [status EXCEPT ![<<c, cur[c]>>] = "running"]
    /\ UNCHANGED <<reader, result, answers, silent, crashes>>

\* A loop sends an event for the call that returned, if it ever does for this kind.
After(c) == IF Topic[<<c, cur[c]>>] = "quiet" THEN "read" ELSE "answer"

\* gRPC refuses the call (a message beyond its limit, no connection).
CallRefused(c) ==
    /\ Goes(c, "call", After(c))
    /\ result' = [result EXCEPT ![c] = "error"]
    /\ UNCHANGED <<reader, status, answers, silent, crashes>>

HandlerSucceeds(c) ==
    /\ Goes(c, "execute", After(c))
    /\ result' = [result EXCEPT ![c] = "ok"]
    /\ status' = [status EXCEPT ![<<c, cur[c]>>] = "done"]
    /\ UNCHANGED <<reader, answers, silent, crashes>>

\* Mutant of HandlerFails: no event for a call that failed.
HandlerFailsQuietly(c) ==
    /\ Goes(c, "execute", "read")
    /\ result' = [result EXCEPT ![c] = "error"]
    /\ status' = [status EXCEPT ![<<c, cur[c]>>] = "failed"]
    /\ UNCHANGED <<reader, answers, silent, crashes>>

\* A response without Succeed comes with an error, which gRPC passes on alone.
HandlerFails(c) ==
    /\ Goes(c, "execute", After(c))
    /\ result' = [result EXCEPT ![c] = "error"]
    /\ status' = [status EXCEPT ![<<c, cur[c]>>] = "failed"]
    /\ UNCHANGED <<reader, answers, silent, crashes>>

\* The handler never returns: StopDNS without a keeper, an update whose
\* answer was lost.  The call has no deadline.
HandlerBlocks(c) ==
    /\ Goes(c, "execute", "stuck")
    /\ UNCHANGED <<reader, outcome, answers, silent, crashes>>

-----------------------------------------------------------------------------
(* SendAgentEventMessage.                                                  *)

Event(c) == [command |-> <<c, cur[c]>>, succeed |-> result[c] = "ok"]

Send(c) ==
    /\ Goes(c, "answer", "read")
    /\ answers' = answers \cup {Event(c)}
    /\ UNCHANGED <<reader, outcome, silent, crashes>>

\* The error is logged; the event may have been written.
SendFails(c) ==
    /\ Goes(c, "answer", "read")
    /\ answers' \in {answers, answers \cup {Event(c)}}
    /\ silent' = silent \cup {<<c, cur[c]>>}
    /\ UNCHANGED <<reader, outcome, crashes>>

-----------------------------------------------------------------------------
(* The process.                                                            *)

\* What the loops and their handlers were at is gone.
AgentDies ==
    /\ crashes < MaxCrashes
    /\ \A c \in Consumers : pc[c] # "down"
    /\ crashes' = crashes + 1
    /\ pc' = [c \in Consumers |-> "down"]
    /\ status' = [x \in Commands |-> IF status[x] = "running" THEN "cut" ELSE status[x]]
    /\ silent' = silent \cup {<<c, cur[c]>> : c \in {d \in Consumers : pc[d] \in Working}}
    /\ UNCHANGED <<reader, result, answers>>

\* It is run again: the readers start where the groups' offsets are.
AgentRestarts ==
    /\ \A c \in Consumers : pc[c] = "down"
    /\ pc' = [c \in Consumers |-> "read"]
    /\ position' = committed
    /\ UNCHANGED <<committed, cur, outcome, answers, silent, crashes>>

-----------------------------------------------------------------------------

Loop(c) ==
    \/ Read(c) \/ Dispatch(c) \/ Call(c) \/ CallRefused(c)
    \/ HandlerSucceeds(c) \/ HandlerFails(c) \/ HandlerBlocks(c) \/ Send(c) \/ SendFails(c)

Next ==
    \/ \E c \in Consumers : Loop(c) \/ ReadFails(c) \/ Rejoin(c)
    \/ AgentDies
    \/ AgentRestarts

Spec == Init /\ [][Next]_vars

(***************************************************************************)
(* Fairness: each loop goes on, Kafka does not fail its reader for ever,   *)
(* and a handler ends unless it blocks.                                    *)
(***************************************************************************)
Fairness == \A c \in Consumers : WF_vars(Loop(c)) /\ SF_vars(Read(c))

FairSpec == Spec /\ Fairness

-----------------------------------------------------------------------------
(* Properties.                                                             *)

\* Every variable has its type.
TypeOK ==
    /\ pc \in [Consumers -> {"read", "down"} \cup Working]
    /\ position \in [Consumers -> 1 .. Last + 1]
    /\ committed \in [Consumers -> 1 .. Last + 1]
    /\ cur \in [Consumers -> 1 .. Last + 1]
    /\ result \in [Consumers -> {"ok", "error"}]
    /\ status \in [Commands -> {"waiting", "running", "done", "failed", "cut"}]
    /\ answers \subseteq [command : Commands, succeed : BOOLEAN]
    /\ silent \subseteq Commands
    /\ crashes \in 0 .. MaxCrashes

Log == INSTANCE CommandLog WITH
          Consumers <- Consumers, Last <- Last, status <- status, answers <- answers

\* The loops, readers and crashes keep what CommandLog promises: above all, a
\* command is executed at most once, because its offset is committed before
\* (dns/kafkaconsumer.go:30-35, dhcp/kafkaconsumer.go:31-36), and an event
\* that says "succeed" is about a handler that did (kafkaproducer.go:64-92).
ImplementsCommandLog == Log!Spec

\* A command that has an event and that a loop is through with has had it,
\* unless reading it or sending the event failed or the agent died on it:
\* errors of gRPC and of handlers are answered too
\* (dns/kafkaconsumer.go:56-69, dhcp/kafkaconsumer.go:39-52).
NoneForgotten ==
    \A c \in Consumers, i \in Positions :
        /\ Topic[<<c, i>>] = "answered"
        /\ i < committed[c]
        /\ ~(pc[c] \in Working /\ cur[c] = i)
        => Log!Answered(c, i) \/ <<c, i>> \in silent

\* Each loop gets past each command, whatever the other one is at, unless
\* the command's own handler blocks or the agent dies (agent.go:63-66).
EachPassed ==
    \A c \in Consumers, i \in Positions :
        position[c] = i ~> (position[c] > i \/ pc[c] \in {"stuck", "down"})
=============================================================================
