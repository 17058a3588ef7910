------------------------- MODULE AgentProcess_proofs -------------------------
(***************************************************************************)
(* What a process and the uploads in it keep to, for any number of uploads *)
(* and of runs of the agent, and that the uploads implement UploadReport.  *)
(*                                                                         *)
(* How far main has got says which global variables are set; where an      *)
(* upload is says which report was the last.                               *)
(***************************************************************************)
EXTENDS AgentProcess, TLAPS

\* What main has set by where it is.
SetSoFar ==
    /\ "dns" \in enabled /\ at \notin {"config", "db", "down"} => "db" \in set
    /\ at \notin {"config", "db", "metric", "monitor", "down"} => "monitor" \in set
    /\ at \in {"producer", "consumers", "serve", "serving"} => "conn" \in set
    /\ at \in {"consumers", "serve", "serving"} => "producer" \in set

BootInv == BootTypeOK /\ SetSoFar /\ UsedAreSet

\* Where an upload has not begun to store its file.
Early == {"waiting", "passed", "tellStart", "open", "stor"} \cup Calling

\* The files on the server are of uploads that have begun.
OwnersBegan == \A s \in Seconds, u \in Uploads : store[s].by = u => pc[u] \notin Early

\* What is on the server under the name of an upload that is stored.
Kept(u) ==
    \/ store[name[u]] = File(u, TRUE)
    \/ \E v \in Uploads \ {u} : name[v] = name[u] /\ store[name[u]].by = v

\* Whether the server has confirmed an upload, or it was reported done.
Stored(u) == pc[u] \in {"tellDone", "quit"} \/ report[u] = "done"

KeptOnceStored == \A u \in Uploads : Stored(u) => Kept(u)

\* The last report on an upload and whether it is confirmed, by where it is.
ReportSoFar ==
    \A u \in Uploads :
        /\ pc[u] \in {"waiting", "dial", "login", "tellConn", "tellStart"} =>
            report[u] = "nothing" /\ u \notin confirmed
        /\ pc[u] \in {"open", "stor", "storing", "tellFailed"} =>
            report[u] = "transporting" /\ u \notin confirmed
        /\ pc[u] = "tellDone" => report[u] = "transporting" /\ u \in confirmed

\* All that is said of uploads alone.
UploadInv == TypeOK /\ OwnersBegan /\ KeptOnceStored /\ ReportSoFar

IInv == UploadInv /\ BootInv

-----------------------------------------------------------------------------
(* main.                                                                   *)

LEMMA BootInitInv == BootInit => BootInv
  BY StartsAssumption DEF BootInit, BootInv, BootTypeOK, SetSoFar, UsedAreSet, Services, Globals,
     Goroutines, Failing

LEMMA BootStepsInv == ASSUME BootInv, BootSteps PROVE BootInv'
<1> USE DEF BootInv, Main, On
<1>1. BootTypeOK'
  <2> USE DEF BootTypeOK, Services, Globals, Goroutines, Failing
  <2>1. CASE LoadConfig \/ InitDb \/ DialMonitor \/ DialServer \/ InitProducer
    BY <2>1 DEF LoadConfig, InitDb, DialMonitor, DialServer, InitProducer
  <2>2. CASE NewMetric \/ NewDNS \/ NewDHCP \/ StartConsumers \/ Serve
    BY <2>2 DEF NewMetric, NewDNS, NewDHCP, StartConsumers, Serve
  <2> QED BY <2>1, <2>2 DEF BootSteps
<1>2. SetSoFar'
  <2> USE DEF SetSoFar
  <2>1. CASE LoadConfig \/ InitDb \/ DialMonitor \/ DialServer \/ InitProducer
    BY <2>1 DEF LoadConfig, InitDb, DialMonitor, DialServer, InitProducer
  <2>2. CASE NewMetric \/ NewDNS \/ NewDHCP \/ StartConsumers \/ Serve
    BY <2>2 DEF NewMetric, NewDNS, NewDHCP, StartConsumers, Serve
  <2> QED BY <2>1, <2>2 DEF BootSteps
<1>3. UsedAreSet'
  <2> SUFFICES ASSUME NEW g \in running' PROVE Uses(g) \subseteq set'
    BY DEF UsedAreSet
  <2>1. set \subseteq set'
    BY DEF BootSteps, LoadConfig, InitDb, NewMetric, DialMonitor, NewDNS, NewDHCP,
           DialServer, InitProducer, StartConsumers, Serve
  <2>2. CASE g \in running
    BY <2>1, <2>2 DEF UsedAreSet
  <2>3. CASE g \notin running
    <3>1. CASE LoadConfig \/ InitDb \/ DialMonitor \/ DialServer \/ InitProducer
      BY <3>1, <2>3 DEF LoadConfig, InitDb, DialMonitor, DialServer, InitProducer
    <3>2. CASE NewMetric
      BY <3>2, <2>3 DEF NewMetric, Uses
    <3>3. CASE NewDNS \/ NewDHCP
      BY <3>3, <2>3 DEF NewDNS, NewDHCP, Uses, SetSoFar
    <3>4. CASE StartConsumers
      BY <3>4, <2>3 DEF StartConsumers, Uses, SetSoFar
    <3>5. CASE Serve
      BY <3>5, <2>3 DEF Serve, Uses, SetSoFar
    <3> QED BY <3>1, <3>2, <3>3, <3>4, <3>5 DEF BootSteps
  <2> QED BY <2>2, <2>3
<1> QED BY <1>1, <1>2, <1>3

LEMMA EndsInv == ASSUME BootInv, Ends PROVE BootInv'
  BY DEF BootInv, BootTypeOK, SetSoFar, UsedAreSet, Ends, Ended, Failing

LEMMA RestartsInv == ASSUME BootInv, Restarts PROVE BootInv'
  BY StartsAssumption DEF BootInv, BootTypeOK, SetSoFar, UsedAreSet, Restarts, Failing

-----------------------------------------------------------------------------
(* Uploads.                                                                *)

LEMMA UploadInitInv == Init => UploadInv
<1> SUFFICES ASSUME Init PROVE UploadInv
  OBVIOUS
<1> USE UploadAssumption DEF Init, Calling, Uploading, NoFile
<1>1. TypeOK
  BY DEF TypeOK, Seconds
<1>2. OwnersBegan
  BY DEF OwnersBegan
<1>3. KeptOnceStored
  BY DEF KeptOnceStored, Stored
<1>4. ReportSoFar
  BY DEF ReportSoFar
<1> QED BY <1>1, <1>2, <1>3, <1>4 DEF UploadInv

\* What a step keeps that writes to no file.
LEMMA NoWriting ==
    ASSUME UploadInv, UNCHANGED <<name, store>>, NEW u \in Uploads,
           \A v \in Uploads \ {u} : pc'[v] = pc[v] /\ report'[v] = report[v],
           pc'[u] \in Early => pc[u] \in Early,
           Stored(u)' => Stored(u)
    PROVE  OwnersBegan' /\ KeptOnceStored'
<1>1. OwnersBegan'
  BY DEF UploadInv, OwnersBegan, Early, Calling
<1>2. ASSUME NEW v \in Uploads, Stored(v)' PROVE Kept(v)'
  <2>1. Stored(v)
    BY <1>2 DEF Stored
  <2>2. Kept(v)
    BY <2>1 DEF UploadInv, KeptOnceStored
  <2> QED BY <2>2 DEF Kept, File
<1> QED BY <1>1, <1>2 DEF KeptOnceStored

\* What a step keeps by which an upload writes to the file it has a name for.
LEMMA Writing ==
    ASSUME UploadInv, NEW u \in Uploads, NEW s \in Seconds, NEW whole \in BOOLEAN,
           store' = [store EXCEPT ![s] = File(u, whole)],
           name'[u] = s, name[u] # s => pc[u] \in Early,
           \A v \in Uploads \ {u} : pc'[v] = pc[v] /\ report'[v] = report[v] /\ name'[v] = name[v],
           pc'[u] \notin Early,
           Stored(u)' => whole
    PROVE  OwnersBegan' /\ KeptOnceStored'
<1> USE DEF UploadInv, TypeOK
<1>1. OwnersBegan'
  <2> SUFFICES ASSUME NEW t \in Seconds, NEW v \in Uploads, store'[t].by = v PROVE pc'[v] \notin Early
    BY DEF OwnersBegan, Early, Calling
  <2>1. CASE t = s
    BY <2>1 DEF File
  <2>2. CASE t # s
    BY <2>2 DEF OwnersBegan
  <2> QED BY <2>1, <2>2
<1>2. ASSUME NEW v \in Uploads, Stored(v)' PROVE Kept(v)'
  <2>1. CASE v = u
    BY <1>2, <2>1 DEF Kept, File
  <2>2. CASE v # u /\ name[v] = s
    BY <2>2 DEF Kept, File
  <2>3. CASE v # u /\ name[v] # s
    <3>1. Kept(v)
      BY <1>2, <2>3 DEF KeptOnceStored, Stored
    <3>2. name'[v] = name[v] /\ store'[name[v]] = store[name[v]] /\ name[v] \in Seconds
      BY <2>3
    <3>3. CASE store[name[v]] = File(v, TRUE)
      BY <3>2, <3>3 DEF Kept, File
    <3>4. ASSUME NEW w \in Uploads \ {v}, name[w] = name[v], store[name[v]].by = w PROVE Kept(v)'
      <4>1. pc[w] \notin Early
        BY <3>2, <3>4 DEF OwnersBegan
      <4>2. name'[w] = name[w]
        BY <4>1, <2>3, <3>4
      <4> QED BY ZenonT(30), <3>2, <3>4, <4>2 DEF Kept
    <3> QED BY <3>1, <3>3, <3>4 DEF Kept
  <2> QED BY <2>1, <2>2, <2>3
<1> QED BY <1>1, <1>2 DEF KeptOnceStored

LEMMA ReceiveInv == ASSUME UploadInv, NEW u \in Uploads, Receive(u) PROVE UploadInv'
<1> USE DEF Receive, Go, Calling, Uploading
<1>1. TypeOK'
  BY DEF UploadInv, TypeOK
<1>2. OwnersBegan' /\ KeptOnceStored'
  BY NoWriting DEF UploadInv, TypeOK, Early, Stored
<1>3. ReportSoFar'
  BY DEF UploadInv, TypeOK, ReportSoFar
<1> QED BY <1>1, <1>2, <1>3 DEF UploadInv

LEMMA CallInv == ASSUME UploadInv, NEW u \in Uploads, Call(u) PROVE UploadInv'
<1> USE DEF Go, Tell, Calling, Uploading, UploadInv, Call, Dial, Login, CallHangs, TellConnFailed
<1>1. TypeOK'
  <2>1. CASE Dial(u) \/ Login(u) \/ CallHangs(u)
    BY <2>1 DEF TypeOK
  <2>2. CASE TellConnFailed(u)
    BY <2>2 DEF TypeOK
  <2> QED BY <2>1, <2>2
<1>2. OwnersBegan' /\ KeptOnceStored'
  BY NoWriting DEF TypeOK, Early, Stored
<1>3. ReportSoFar'
  BY DEF TypeOK, ReportSoFar
<1> QED BY <1>1, <1>2, <1>3

LEMMA TellInv ==
    ASSUME UploadInv, NEW u \in Uploads,
           TellTransporting(u) \/ TellFailed(u) \/ TellDone(u)
    PROVE  UploadInv'
<1> USE DEF Go, Tell, Calling, Uploading, UploadInv, TellTransporting, TellFailed, TellDone
<1>1. TypeOK'
  <2>1. CASE TellTransporting(u)
    BY <2>1 DEF TypeOK
  <2>2. CASE TellFailed(u) \/ TellDone(u)
    BY <2>2 DEF TypeOK
  <2> QED BY <2>1, <2>2
<1>2. OwnersBegan' /\ KeptOnceStored'
  BY NoWriting DEF TypeOK, Early, Stored
<1>3. ReportSoFar'
  <2>1. CASE TellTransporting(u)
    BY <2>1 DEF TypeOK, ReportSoFar
  <2>2. CASE TellFailed(u)
    BY <2>2 DEF TypeOK, ReportSoFar
  <2>3. CASE TellDone(u)
    BY <2>3 DEF TypeOK, ReportSoFar
  <2> QED BY <2>1, <2>2, <2>3
<1> QED BY <1>1, <1>2, <1>3

LEMMA QuietInv ==
    ASSUME UploadInv, NEW u \in Uploads, OpenFile(u) \/ StorHangs(u) \/ Quit(u)
    PROVE  UploadInv'
<1> USE DEF Go, Calling, Uploading, UploadInv, OpenFile, StorHangs, Quit
<1>1. TypeOK'
  BY DEF TypeOK
<1>2. OwnersBegan' /\ KeptOnceStored'
  BY NoWriting DEF TypeOK, Early, Stored
<1>3. ReportSoFar'
  BY DEF TypeOK, ReportSoFar
<1> QED BY <1>1, <1>2, <1>3

LEMMA StorBeginsInv == ASSUME UploadInv, NEW u \in Uploads, StorBegins(u) PROVE UploadInv'
<1> USE DEF Go, Calling, Uploading, UploadInv, StorBegins, File
<1>1. TypeOK'
  BY DEF TypeOK
<1>2. ~Stored(u)'
  BY DEF TypeOK, Stored, ReportSoFar
<1>3. OwnersBegan' /\ KeptOnceStored'
  BY <1>2, Writing DEF TypeOK, Early
<1>4. ReportSoFar'
  BY DEF TypeOK, ReportSoFar
<1> QED BY <1>1, <1>3, <1>4

LEMMA StorDoneInv == ASSUME UploadInv, NEW u \in Uploads, StorDone(u) PROVE UploadInv'
<1> USE DEF Go, Calling, Uploading, UploadInv, StorDone, File
<1>1. TypeOK'
  BY DEF TypeOK
<1>2. OwnersBegan' /\ KeptOnceStored'
  BY Writing DEF TypeOK, Early
<1>3. ReportSoFar'
  BY DEF TypeOK, ReportSoFar
<1> QED BY <1>1, <1>2, <1>3

LEMMA StorFailsInv == ASSUME UploadInv, NEW u \in Uploads, StorFails(u) PROVE UploadInv'
<1> USE DEF Go, Calling, Uploading, UploadInv, StorFails, File
<1>1. TypeOK'
  <2>1. /\ pc' = [pc EXCEPT ![u] = "tellFailed"]
        /\ UNCHANGED <<conn, name, report, lost, confirmed, clock>>
    OBVIOUS
  <2>2. name[u] \in Seconds
    BY DEF TypeOK
  <2>3. store' \in [Seconds -> {NoFile} \cup [by : Uploads, whole : BOOLEAN]]
    <3>1. CASE UNCHANGED store
      BY <3>1 DEF TypeOK
    <3>2. CASE store' = [store EXCEPT ![name[u]] = [by |-> u, whole |-> TRUE]]
      BY <3>2, <2>2 DEF TypeOK
    <3> QED BY <3>1, <3>2
  <2> QED BY <2>1, <2>3 DEF TypeOK
<1>2. OwnersBegan' /\ KeptOnceStored'
  <2>1. CASE UNCHANGED store
    BY <2>1, NoWriting DEF TypeOK, Early, Stored
  <2>2. CASE store' = [store EXCEPT ![name[u]] = File(u, TRUE)]
    BY <2>2, Writing DEF TypeOK, Early
  <2> QED BY <2>1, <2>2
<1>3. ReportSoFar'
  BY DEF TypeOK, ReportSoFar
<1> QED BY <1>1, <1>2, <1>3

LEMMA WorkInv == ASSUME UploadInv, NEW u \in Uploads, Work(u) PROVE UploadInv'
  BY CallInv, TellInv, QuietInv, StorBeginsInv, StorDoneInv, StorFailsInv DEF Work, Transfer

LEMMA DieInv == ASSUME UploadInv, Die PROVE UploadInv'
<1> USE DEF Die, Calling, Uploading, UploadInv
<1>1. TypeOK'
  BY DEF TypeOK
<1>2. OwnersBegan'
  BY DEF TypeOK, OwnersBegan, Early
<1>3. ASSUME NEW u \in Uploads, Stored(u)' PROVE Kept(u)'
  BY <1>3 DEF TypeOK, Stored, KeptOnceStored, Kept, File
<1>4. ReportSoFar'
  BY DEF TypeOK, ReportSoFar
<1> QED BY <1>1, <1>2, <1>3, <1>4 DEF KeptOnceStored

\* A step that leaves all of the uploads as they are but for the clock.
LEMMA UploadsStay ==
    ASSUME UploadInv, UNCHANGED <<pc, conn, name, store, report, lost, confirmed>>,
           clock' \in Seconds
    PROVE  UploadInv'
<1> USE DEF UploadInv
<1>1. TypeOK'
  BY DEF TypeOK
<1>2. OwnersBegan' /\ ReportSoFar'
  BY DEF OwnersBegan, ReportSoFar
<1>3. KeptOnceStored'
  BY DEF KeptOnceStored, Stored, Kept, File
<1> QED BY <1>1, <1>2, <1>3

-----------------------------------------------------------------------------
(* The process.                                                            *)

LEMMA InitInv == ProcessInit => IInv
  BY BootInitInv, UploadInitInv DEF ProcessInit, IInv

LEMMA NextInv == ASSUME IInv, [ProcessNext]_processVars PROVE IInv'
<1> USE DEF IInv
<1>1. ASSUME UNCHANGED bootVars PROVE BootInv'
  BY <1>1 DEF bootVars, BootInv, BootTypeOK, SetSoFar, UsedAreSet
<1>2. ASSUME NEW u \in Uploads, Takes(u) \/ Goes(u) PROVE IInv'
  <2>1. UploadInv'
    BY <1>2, ReceiveInv, WorkInv DEF Takes, Goes
  <2> QED BY <1>1, <1>2, <2>1 DEF Takes, Goes
<1>3. CASE Boots \/ RunsAgain
  <2>1. BootInv'
    BY <1>3, BootStepsInv, RestartsInv DEF Boots, RunsAgain
  <2>2. UploadInv'
    BY <1>3, UploadsStay DEF Boots, RunsAgain, vars, UploadInv, TypeOK
  <2> QED BY <2>1, <2>2
<1>4. CASE Dies
  BY <1>4, EndsInv, DieInv DEF Dies
<1>5. CASE Ticks \/ UNCHANGED processVars
  <2>1. clock' \in Seconds
    BY <1>5, UploadAssumption DEF Ticks, Tick, processVars, vars, UploadInv, TypeOK, Seconds
  <2>2. UploadInv'
    BY <1>5, <2>1, UploadsStay DEF Ticks, Tick, processVars, vars
  <2> QED BY <1>1, <1>5, <2>2 DEF Ticks, processVars
<1> QED BY <1>2, <1>3, <1>4, <1>5 DEF ProcessNext

\* The invariant that the theorems rest on.
LEMMA ProcessInvariant == ProcessSpec => []IInv
  BY InitInv, NextInv, PTL DEF ProcessSpec

\* Every variable of the process and of its uploads keeps its type.
THEOREM ProcessTypeCorrect == ProcessSpec => []ProcessTypeOK
  BY ProcessInvariant, PTL DEF IInv, UploadInv, BootInv, ProcessTypeOK

\* Nothing runs that uses a global variable main has not set by then, with
\* either service on or off (agent.go:24-66).
THEOREM GlobalsAreSet == ProcessSpec => []UsedAreSet
  BY ProcessInvariant, PTL DEF IInv, BootInv

\* Of an upload that was reported done the server has the whole file, unless
\* another upload of that second wrote over it (uploadlog_handler.go:59-71).
THEOREM ReportedAreStored == ProcessSpec => []DoneMeansStored
<1>1. IInv => DoneMeansStored
  BY DEF IInv, UploadInv, KeptOnceStored, Stored, Kept, DoneMeansStored
<1> QED BY <1>1, ProcessInvariant, PTL

-----------------------------------------------------------------------------
(* The uploads implement UploadReport.                                     *)

\* A step of an upload is a report of the kind promised, a confirmation, or
\* neither.
LEMMA WorkReports ==
    ASSUME UploadInv, NEW u \in Uploads, Work(u)
    PROVE  [Promise!Next]_Promise!vars
<1> USE DEF UploadInv, TypeOK, ReportSoFar, Go, Promise!Next, Promise!Report, Promise!vars
<1>1. CASE TellConnFailed(u)
  BY <1>1 DEF TellConnFailed, Tell
<1>2. CASE TellTransporting(u)
  BY <1>2 DEF TellTransporting, Tell
<1>3. CASE TellFailed(u)
  BY <1>3 DEF TellFailed, Tell
<1>4. CASE TellDone(u)
  BY <1>4 DEF TellDone, Tell
<1>5. CASE StorDone(u)
  BY <1>5 DEF StorDone, Promise!Confirm
<1>6. CASE Dial(u) \/ Login(u) \/ CallHangs(u) \/ OpenFile(u) \/ StorBegins(u) \/ StorFails(u)
           \/ StorHangs(u) \/ Quit(u)
  BY <1>6 DEF Dial, Login, CallHangs, OpenFile, StorBegins, StorFails, StorHangs, Quit
<1> QED BY <1>1, <1>2, <1>3, <1>4, <1>5, <1>6 DEF Work, Call, Transfer

LEMMA StepReports ==
    ASSUME IInv, [ProcessNext]_processVars PROVE [Promise!Next]_Promise!vars
<1>1. ASSUME NEW u \in Uploads, Takes(u) PROVE UNCHANGED Promise!vars
  BY <1>1 DEF Takes, Receive, Promise!vars
<1>2. ASSUME NEW u \in Uploads, Goes(u) PROVE [Promise!Next]_Promise!vars
  BY <1>2, WorkReports DEF Goes, IInv
<1>3. CASE Boots \/ Dies \/ RunsAgain \/ Ticks \/ UNCHANGED processVars
  BY <1>3 DEF Boots, Dies, Die, RunsAgain, Ticks, Tick, processVars, vars, Promise!vars
<1> QED BY <1>1, <1>2, <1>3 DEF ProcessNext

\* Whatever fails, hangs or dies, and however often the agent is run, the
\* reports keep their order and their word (uploadlog_handler.go:23-72).
THEOREM ReportsKeepTheirWord == ProcessSpec => ImplementsReport
<1>1. ProcessInit => Promise!Init
  BY DEF ProcessInit, Init, Promise!Init
<1> QED BY <1>1, StepReports, ProcessInvariant, PTL DEF ProcessSpec, ImplementsReport, Promise!Spec
=============================================================================
