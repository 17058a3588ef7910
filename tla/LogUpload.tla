------------------------------ MODULE LogUpload ------------------------------
(***************************************************************************)
(* Uploads of named's query log to an FTP server.                          *)
(*                                                                         *)
(* pkg/dns/grpcservice/uploadlog_handler.go.  UploadLog connects and logs  *)
(* in while the loop that reads DNS commands waits for it; the transfer    *)
(* itself is a goroutine, one for each upload.  What becomes of an upload  *)
(* is told to Kafka, a message at a time.  The file on the server is named *)
(* after the second in which its transfer began.                           *)
(*                                                                         *)
(* The FTP server and Kafka are external.  The timeout is for the          *)
(* connection alone, so that any answer of the server may be waited for    *)
(* for ever.  A message whose sending failed may have been written all the *)
(* same.                                                                   *)
(***************************************************************************)
EXTENDS Naturals

CONSTANTS
    Uploads,      \* the upload commands
    Mine,         \* those with this node's address as MasterNodeIp
    MaxSeconds    \* bound on the clock

ASSUME UploadAssumption ==
    /\ Mine \subseteq Uploads
    /\ "nobody" \notin Uploads
    /\ MaxSeconds \in Nat

Seconds == 0 .. MaxSeconds

VARIABLES
    pc,           \* where UploadLog, and then doUploadLog, is
    conn,         \* the connection of each upload
    name,         \* the second its file is named after
    store,        \* the file of that name on the server: whose, and whether whole
    report,       \* the last status written to Kafka
    lost,         \* history: uploads of which a status failed to be sent
    confirmed,    \* history: uploads whose STOR the server has confirmed
    clock

vars == <<pc, conn, name, store, report, lost, confirmed, clock>>

\* The server has no file of that name.
NoFile == [by |-> "nobody", whole |-> FALSE]

File(u, whole) == [by |-> u, whole |-> whole]

\* The calls the loop is waiting for, and the steps of a goroutine.
Calling   == {"dial", "login", "tellConn", "callHangs"}
Uploading == {"tellStart", "open", "stor", "storing", "tellFailed", "tellDone", "quit"}

Init ==
    /\ pc = [u \in Uploads |-> "waiting"]
    /\ conn = [u \in Uploads |-> "none"]
    /\ name = [u \in Uploads |-> 0]
    /\ store = [s \in Seconds |-> NoFile]
    /\ report = [u \in Uploads |-> "nothing"]
    /\ lost = {} /\ confirmed = {}
    /\ clock = 0

Go(u, from, to) == pc[u] = from /\ pc' = [pc EXCEPT ![u] = to]

-----------------------------------------------------------------------------
(* UploadLog.                                                              *)

\* Mutant of Receive: requests do not wait for one another.
ReceiveAtOnce(u) ==
    /\ Go(u, "waiting", IF u \in Mine THEN "dial" ELSE "passed")
    /\ UNCHANGED <<conn, name, store, report, lost, confirmed, clock>>

\* A request for another node is passed over.
Receive(u) ==
    /\ \A v \in Uploads : pc[v] \notin Calling
    /\ Go(u, "waiting", IF u \in Mine THEN "dial" ELSE "passed")
    /\ UNCHANGED <<conn, name, store, report, lost, confirmed, clock>>

Dial(u) ==
    /\ \/ Go(u, "dial", "login") /\ conn' = [conn EXCEPT ![u] = "open"]
       \/ Go(u, "dial", "tellConn") /\ UNCHANGED conn
    /\ UNCHANGED <<name, store, report, lost, confirmed, clock>>

\* A login that fails does not close the connection.
Login(u) ==
    /\ Go(u, "login", "tellStart") \/ Go(u, "login", "tellConn")
    /\ UNCHANGED <<conn, name, store, report, lost, confirmed, clock>>

\* The server does not answer, neither with a greeting nor to the login.
CallHangs(u) ==
    /\ Go(u, "dial", "callHangs") \/ Go(u, "login", "callHangs")
    /\ UNCHANGED <<conn, name, store, report, lost, confirmed, clock>>

-----------------------------------------------------------------------------
(* Status messages.                                                        *)

\* sendUploadKafkaMsg: what follows when it succeeds and when it does not.
Tell(u, from, status, next, otherwise) ==
    /\ \/ /\ Go(u, from, next)
          /\ report' = [report EXCEPT ![u] = status]
          /\ UNCHANGED lost
       \/ /\ Go(u, from, otherwise)
          /\ report' = [report EXCEPT ![u] = status] \/ UNCHANGED report
          /\ lost' = lost \cup {u}
    /\ UNCHANGED <<conn, name, store, confirmed, clock>>

TellConnFailed(u) == Tell(u, "tellConn", "connFailed", "ended", "ended")

\* Mutant of TellTransporting: the transfer goes on without its message.
TellTransportingOrNot(u) == Tell(u, "tellStart", "transporting", "open", "open")

\* A goroutine whose first message fails ends without another.
TellTransporting(u) == Tell(u, "tellStart", "transporting", "open", "ended")

TellFailed(u) == Tell(u, "tellFailed", "failed", "ended", "ended")

TellDone(u) == Tell(u, "tellDone", "done", "quit", "quit")

-----------------------------------------------------------------------------
(* doUploadLog.                                                            *)

OpenFile(u) ==
    /\ Go(u, "open", "stor") \/ Go(u, "open", "tellFailed")
    /\ UNCHANGED <<conn, name, store, report, lost, confirmed, clock>>

\* STOR makes the file, or makes a file of that name empty.
StorBegins(u) ==
    /\ Go(u, "stor", "storing")
    /\ name' = [name EXCEPT ![u] = clock]
    /\ store' = [store EXCEPT ![clock] = File(u, FALSE)]
    /\ UNCHANGED <<conn, report, lost, confirmed, clock>>

StorDone(u) ==
    /\ Go(u, "storing", "tellDone")
    /\ store' = [store EXCEPT ![name[u]] = File(u, TRUE)]
    /\ confirmed' = confirmed \cup {u}
    /\ UNCHANGED <<conn, name, report, lost, clock>>

\* Mutant of StorFails: the error is not looked at.
StorFailsUnseen(u) ==
    /\ Go(u, "stor", "tellDone") \/ Go(u, "storing", "tellDone")
    /\ UNCHANGED <<conn, name, store, report, lost, confirmed, clock>>

\* Before, during or after the transfer.
StorFails(u) ==
    /\ \/ Go(u, "stor", "tellFailed") /\ UNCHANGED store
       \/ Go(u, "storing", "tellFailed")
            /\ (UNCHANGED store \/ store' = [store EXCEPT ![name[u]] = File(u, TRUE)])
    /\ UNCHANGED <<conn, name, report, lost, confirmed, clock>>

\* The server stops answering.
StorHangs(u) ==
    /\ Go(u, "storing", "hangs")
    /\ UNCHANGED <<conn, name, store, report, lost, confirmed, clock>>

\* Mutant of Quit: the connection stays.
QuitLeavingOpen(u) ==
    /\ Go(u, "quit", "ended")
    /\ UNCHANGED <<conn, name, store, report, lost, confirmed, clock>>

\* conn.Quit, which only an upload that is done comes to.
Quit(u) ==
    /\ Go(u, "quit", "ended")
    /\ conn' = [conn EXCEPT ![u] = "closed"]
    /\ UNCHANGED <<name, store, report, lost, confirmed, clock>>

-----------------------------------------------------------------------------
(* The environment.                                                        *)

Tick ==
    /\ clock < MaxSeconds
    /\ clock' = clock + 1
    /\ UNCHANGED <<pc, conn, name, store, report, lost, confirmed>>

\* The process ends; nobody goes on with its uploads, nor reports on them.
Die ==
    /\ pc' = [u \in Uploads |->
                IF pc[u] \in Calling \cup Uploading \cup {"hangs"} THEN "cut" ELSE pc[u]]
    /\ conn' = [u \in Uploads |-> IF conn[u] = "open" THEN "closed" ELSE conn[u]]
    /\ UNCHANGED <<name, store, report, lost, confirmed, clock>>

Call(u) == Dial(u) \/ Login(u) \/ CallHangs(u) \/ TellConnFailed(u)

Transfer(u) ==
    \/ TellTransporting(u) \/ OpenFile(u)
    \/ StorBegins(u) \/ StorDone(u) \/ StorFails(u) \/ StorHangs(u)
    \/ TellFailed(u) \/ TellDone(u) \/ Quit(u)

Work(u) == Call(u) \/ Transfer(u)

Next ==
    \/ \E u \in Uploads : Receive(u) \/ Work(u)
    \/ Tick \/ Die

Spec == Init /\ [][Next]_vars

-----------------------------------------------------------------------------
(* Properties.                                                             *)

\* Every variable has its type, and the loop makes one call at a time.
TypeOK ==
    /\ pc \in [Uploads -> {"waiting", "passed", "ended", "hangs", "cut"} \cup Calling \cup Uploading]
    /\ \A u, v \in Uploads : pc[u] \in Calling /\ pc[v] \in Calling => u = v
    /\ conn \in [Uploads -> {"none", "open", "closed"}]
    /\ name \in [Uploads -> Seconds]
    /\ store \in [Seconds -> {NoFile} \cup [by : Uploads, whole : BOOLEAN]]
    /\ report \in [Uploads -> {"nothing", "connFailed", "transporting", "failed", "done"}]
    /\ lost \subseteq Uploads /\ confirmed \subseteq Uploads
    /\ clock \in Seconds

\* Of an upload that was reported done the server has the whole file under the
\* name that was reported, whatever became of the others, unless another
\* upload began in the same second and wrote over it
\* (uploadlog_handler.go:59-71).
DoneMeansStored ==
    \A u \in Uploads :
        report[u] = "done" =>
            \/ store[name[u]] = File(u, TRUE)
            \/ \E v \in Uploads \ {u} : name[v] = name[u] /\ store[name[u]].by = v

Promise == INSTANCE UploadReport WITH Uploads <- Uploads, report <- report, confirmed <- confirmed

\* Whatever fails, hangs or dies, the reports keep their order and their word
\* (uploadlog_handler.go:23-72).
ImplementsReport == Promise!Spec

\* An upload that was reported to be under way is reported to have failed, or
\* is reported done and has its connection closed, unless a report could not be
\* sent, the server hangs, or the agent dies: nobody takes up an upload again
\* (uploadlog_handler.go:44-73).
UploadsEnd ==
    \A u \in Uploads :
        report[u] = "transporting" ~>
            \/ report[u] = "failed" \/ (report[u] = "done" /\ conn[u] = "closed")
            \/ u \in lost \/ pc[u] \in {"hangs", "cut"}
=============================================================================
