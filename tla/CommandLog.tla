------------------------------ MODULE CommandLog ------------------------------
(***************************************************************************)
(* What the agent promises of the commands it is given.                    *)
(*                                                                         *)
(* The commands of one consumer (DNS or DHCP) stand in an order.  Each is  *)
(* executed at most once and answered at most once; a command is neither   *)
(* executed nor answered once a later one has been; at most one command of *)
(* a consumer is executed at a time; and an answer says that a command     *)
(* succeeded only if its execution did.  A command may be passed over, cut *)
(* off, or left without an answer.                                         *)
(***************************************************************************)
EXTENDS Naturals

CONSTANTS
    Consumers,
    Last          \* how many commands there are for each consumer

Positions == 1 .. Last
Commands  == Consumers \X Positions

VARIABLES
    status,       \* of each command
    answers       \* the answers given

vars == <<status, answers>>

Answered(c, i) == \E a \in answers : a.command = <<c, i>>

\* Nothing has become of the command.
Untouched(c, i) == status[<<c, i>>] = "waiting" /\ ~Answered(c, i)

\* Nothing has become of the commands after it.
Latest(c, i) == \A j \in Positions : j > i => Untouched(c, j)

Init ==
    /\ status = [x \in Commands |-> "waiting"]
    /\ answers = {}

Begin(c, i) ==
    /\ Untouched(c, i) /\ Latest(c, i)
    /\ \A j \in Positions : status[<<c, j>>] # "running"
    /\ status' = [status EXCEPT ![<<c, i>>] = "running"]
    /\ UNCHANGED answers

End(c, i) ==
    /\ status[<<c, i>>] = "running"
    /\ \E how \in {"done", "failed"} : status' = [status EXCEPT ![<<c, i>>] = how]
    /\ UNCHANGED answers

\* The agent dies, with whatever it is executing.
Cut ==
    /\ status' = [x \in Commands |-> IF status[x] = "running" THEN "cut" ELSE status[x]]
    /\ UNCHANGED answers

Reply(c, i, succeed) ==
    /\ ~Answered(c, i) /\ Latest(c, i)
    /\ status[<<c, i>>] # "running"
    /\ succeed => status[<<c, i>>] = "done"
    /\ answers' = answers \cup {[command |-> <<c, i>>, succeed |-> succeed]}
    /\ UNCHANGED status

Next ==
    \/ \E c \in Consumers, i \in Positions :
        Begin(c, i) \/ End(c, i) \/ \E succeed \in BOOLEAN : Reply(c, i, succeed)
    \/ Cut

Spec == Init /\ [][Next]_vars
=============================================================================
