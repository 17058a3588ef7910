----------------------------- MODULE UploadReport -----------------------------
(***************************************************************************)
(* What the agent promises of its reports on log uploads.                  *)
(*                                                                         *)
(* An upload is reported to have found no server, or to be under way and   *)
(* then to have failed or to be done; the last word is never taken back,   *)
(* and "done" is only said of an upload that the server has confirmed.     *)
(* Any report may fail to come.                                            *)
(***************************************************************************)
CONSTANT Uploads

VARIABLES
    report,      \* the last report on each upload
    confirmed    \* the uploads whose file the server has confirmed

vars == <<report, confirmed>>

Init ==
    /\ report = [u \in Uploads |-> "nothing"]
    /\ confirmed = {}

Report(u, from, to) ==
    /\ report[u] = from
    /\ report' = [report EXCEPT ![u] = to]
    /\ UNCHANGED confirmed

Confirm(u) ==
    /\ report[u] = "transporting"
    /\ confirmed' = confirmed \cup {u}
    /\ UNCHANGED report

Next ==
    \E u \in Uploads :
        \/ Report(u, "nothing", "connFailed")
        \/ Report(u, "nothing", "transporting")
        \/ Confirm(u)
        \/ u \notin confirmed /\ Report(u, "transporting", "failed")
        \/ u \in confirmed /\ Report(u, "transporting", "done")

Spec == Init /\ [][Next]_vars
=============================================================================
