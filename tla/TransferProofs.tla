---------------------------- MODULE TransferProofs ----------------------------
(***************************************************************************)
(* What one transfer does for every length of the stream, every capacity of *)
(* the pipe and any number of faults: only a complete stream is published,  *)
(* and the command keeps the promises of SessionCopy.                       *)
(***************************************************************************)
EXTENDS Transfer, TLAPS

\* Members are counted in order, a source that cannot be read produces none, and
\* one that was rewritten never produces the completion record.
Stream ==
    /\ got <= pipe /\ pipe <= written
    /\ source = "invalid" => written = 0 /\ hp["src"] # "export"
    /\ source = "rewritten" => written < Members

\* The destination publishes only what arrived completely, into a home that it
\* opened, and answers once, afterwards.
Publishing ==
    /\ hp["dst"] \in {"publish", "report", "closing"} \/ live # "untouched"
          => got = Members
    /\ hp["dst"] \in {"receive", "publish", "report", "closing"} => touched
    /\ hp["dst"] \in {"report", "closing"} => live = "complete"
    /\ response => hp["dst"] \in {"closing", "ended"}

\* Until a byte arrived from the source there is no consumer.
Waiting ==
    main = "peek" \/ source = "invalid" =>
        /\ hp["dst"] = "off"
        /\ ~touched
        /\ op = "import" => run = "off"

\* Nothing has been asked of the daemon.
NoContainer == box = "none" /\ ~createReq /\ ~startReq

\* The helper ran and ended well, and no request is left.
EndedWell == box = "exited" /\ exit[RemoteEnd] = "ok" /\ ~createReq /\ ~startReq

\* What exists at the daemon at each point of Docker.Run.
Container ==
    /\ run \in {"off", "check", "create"}
          => NoContainer /\ hp[RemoteEnd] = "off"
    /\ run = "creating" => ~startReq /\ (createReq <=> box = "none")
    /\ run \in {"copy", "recheck"} => box = "created" /\ ~startReq
    /\ run = "attached" => box # "none"
    /\ run = "verify" => EndedWell
    /\ run \in {"cleanup", "stop", "rm"} => runErr \/ EndedWell
    /\ run \in {"stop", "rm"} => box # "none"
    /\ run # "done" => ~cleanErr

\* A request is handled once, and the state of the program at the remote end is
\* that of its container.
Requests ==
    /\ createReq => /\ box = "none" /\ hp[RemoteEnd] = "off"
                    /\ run \in {"creating", "cleanup", "done"}
    /\ startReq => box \in {"none", "created"} /\ ~createReq
    /\ box = "created" => hp[RemoteEnd] = "off"
    /\ box = "running" => hp[RemoteEnd] # "off"
    /\ box = "exited" => hp[RemoteEnd] = "ended"
    /\ \A e \in End : exit[e] # "none" => hp[e] = "ended"

\* When Docker.Run has returned, a helper that runs, or will, was reported, and
\* without an error there is none.
Cleaned ==
    run = "done" =>
        /\ box = "running" \/ (box = "created" /\ startReq) => cleanErr
        /\ ~runErr /\ ~cleanErr => NoContainer /\ exit[RemoteEnd] = "ok"

\* An end has returned, and without an error.
Over(e) == IF Remote(e) THEN run = "done" ELSE hp[e] = "ended"
Well(e) == IF Remote(e) THEN ~runErr /\ ~cleanErr ELSE exit[e] = "ok"

\* What the controller knows of both ends is so.
Verdict ==
    /\ sent # "none" => Over("src")
    /\ sent = "ok" => Well("src")
    /\ main \in {"drain", "returned"} =>
          \/ Over("dst")
          \/ /\ received = "err" /\ hp["dst"] = "off"
             /\ op = "import" => run = "off"
    /\ main \in {"drain", "returned"} => received # "none"
    /\ received = "ok" => Over("dst") /\ Well("dst")
    /\ main = "returned" => sent # "none"
    /\ main # "returned" => code = 1
    /\ code = 0 => sent = "ok" /\ received = "ok"

IInv ==
    /\ TypeOK /\ Stream /\ Publishing /\ Waiting
    /\ Container /\ Requests /\ Cleaned /\ Verdict

-----------------------------------------------------------------------------
(* Types, in four parts: flags, counters, control points, programs.         *)

Flags ==
    /\ ctx \in BOOLEAN /\ interrupted \in BOOLEAN /\ rclosed \in BOOLEAN
    /\ runErr \in BOOLEAN /\ cleanErr \in BOOLEAN /\ drift \in BOOLEAN
    /\ createReq \in BOOLEAN /\ startReq \in BOOLEAN
    /\ touched \in BOOLEAN /\ response \in BOOLEAN

Counters ==
    /\ written \in 0..Members /\ pipe \in 0..Members /\ got \in 0..Members
    /\ faults \in 0..MaxFaults

Points ==
    /\ op \in {"export", "import"}
    /\ source \in {"valid", "invalid", "rewritten"}
    /\ main \in {"peek", "consume", "drain", "returned"}
    /\ sent \in {"none", "ok", "err"} /\ received \in {"none", "ok", "err"}
    /\ wclosed \in {"open", "eof", "error"}
    /\ run \in {"off", "check", "create", "creating", "copy", "recheck",
                "attached", "verify", "cleanup", "stop", "rm", "done"}
    /\ box \in {"none", "created", "running", "exited"}
    /\ live \in {"untouched", "partial", "complete"}
    /\ code \in {0, 1, 130}

Programs ==
    /\ hp \in [End -> {"off", "snapshot", "export", "init", "receive",
                       "publish", "report", "closing", "ended"}]
    /\ exit \in [End -> {"none", "ok", "err"}]

\* The parts make up the type invariant.
LEMMA TypeParts == TypeOK <=> Flags /\ Counters /\ Points /\ Programs
BY DEF TypeOK, Flags, Counters, Points, Programs

\* Every step keeps the flags Boolean.
LEMMA NextFlags == Flags /\ [Next]_vars => Flags'
<1> SUFFICES ASSUME Flags, [Next]_vars PROVE Flags'
  OBVIOUS
<1> USE DEF Flags, pipeVars, ctlVars, runVars, boxVars, dstVars, inputs
<1>1. CASE StartConsumer \/ PeekFails \/ ProducerReturns \/ ConsumerReturns
  BY ZenonT(60), <1>1 DEF StartConsumer, PeekFails, ProducerReturns, ConsumerReturns,
     ReleaseProducer
<1>2. CASE ClosePipes \/ Interrupt \/ WorkstationChanges
  BY ZenonT(60), <1>2 DEF ClosePipes, Interrupt, WorkstationChanges, Fault
<1>3. CASE ReturnResult
  BY <1>3 DEF ReturnResult, ExitCode
<1>4. CASE \/ TakeSnapshot \/ ExportMember \/ ExportFails
           \/ ExportEnds \/ SourceFails
  BY <1>4 DEF TakeSnapshot, ExportMember, ExportFails, ExportEnds,
     SourceFails, Ends, Phase
<1>5. CASE OpenDestination \/ ReceiveMember \/ ReceiveEnds
  BY ZenonT(60), <1>5 DEF OpenDestination, ReceiveMember, ReceiveEnds, Ends, Phase
<1>6. CASE DestinationRefuses
  BY <1>6 DEF DestinationRefuses, Ends
<1>7. CASE PublishFiles \/ PublishDone \/ ReportResult \/ ImportEnds
  BY ZenonT(60), <1>7 DEF PublishFiles, PublishDone, ReportResult, ImportEnds, Ends,
     Phase, Fault
<1>8. ASSUME NEW e \in End, LocalCancelled(e) PROVE Flags'
  BY <1>8 DEF LocalCancelled, Ends
<1>9. CASE \/ FirstRecheck \/ CreateHelper \/ CreateReplied
           \/ PrepareFails \/ CopyHelper
  BY ZenonT(60), <1>9 DEF FirstRecheck, CreateHelper, CreateReplied, PrepareFails,
     CopyHelper
<1>10. CASE SecondRecheck \/ AttachEnds \/ AttachBreaks \/ VerifyExit
  BY ZenonT(60), <1>10 DEF SecondRecheck, AttachEnds, AttachBreaks, VerifyExit
<1>11. CASE CleanupInspect \/ CleanupStop \/ CleanupRemove \/ CleanupFails
  BY ZenonT(60), <1>11 DEF CleanupInspect, CleanupStop, CleanupRemove, CleanupFails,
     Ends, RemovalRefused
<1>12. CASE DaemonCreates \/ DaemonStarts
  BY ZenonT(60), <1>12 DEF DaemonCreates, DaemonStarts
<1>13. CASE UNCHANGED vars
  BY <1>13 DEF vars
<1> QED
  BY <1>1, <1>2, <1>3, <1>4, <1>5, <1>6, <1>7, <1>8, <1>9, <1>10, <1>11,
     <1>12, <1>13
     DEF Next, Controller, Helpers, DockerRun, Daemon, Environment, Finished

\* No step exceeds the stream or the bound on faults.
LEMMA NextCounters == Counters /\ Stream /\ [Next]_vars => Counters'
<1> SUFFICES ASSUME Counters, Stream, [Next]_vars PROVE Counters'
  OBVIOUS
<1> USE DEF Counters, Stream, pipeVars, ctlVars, runVars, boxVars, dstVars,
        inputs
<1>1. CASE StartConsumer \/ PeekFails \/ ProducerReturns \/ ConsumerReturns
  BY <1>1, ConstantsAssumption
     DEF StartConsumer, PeekFails, ProducerReturns, ConsumerReturns,
         ReleaseProducer
<1>2. CASE ClosePipes \/ Interrupt \/ WorkstationChanges
  BY <1>2, ConstantsAssumption
     DEF ClosePipes, Interrupt, WorkstationChanges, Fault
<1>3. CASE ReturnResult
  BY <1>3, ConstantsAssumption
     DEF ReturnResult, ExitCode, Fault
<1>4. CASE \/ TakeSnapshot \/ ExportMember \/ ExportFails
           \/ ExportEnds \/ SourceFails
  BY <1>4, ConstantsAssumption
     DEF TakeSnapshot, ExportMember, ExportFails, ExportEnds, SourceFails,
         Ends, Phase, Fault
<1>5. CASE OpenDestination \/ ReceiveMember \/ ReceiveEnds
  BY <1>5, ConstantsAssumption
     DEF OpenDestination, ReceiveMember, ReceiveEnds, Ends, Phase, Readable
<1>6. CASE DestinationRefuses
  BY <1>6, ConstantsAssumption
     DEF DestinationRefuses, Ends, Fault
<1>7. CASE PublishFiles \/ PublishDone \/ ReportResult \/ ImportEnds
  BY <1>7, ConstantsAssumption
     DEF PublishFiles, PublishDone, ReportResult, ImportEnds, Ends, Phase,
         Fault
<1>8. ASSUME NEW e \in End, LocalCancelled(e) PROVE Counters'
  BY <1>8, ConstantsAssumption
     DEF LocalCancelled, Ends
<1>9. CASE \/ FirstRecheck \/ CreateHelper \/ CreateReplied
           \/ PrepareFails \/ CopyHelper
  BY <1>9, ConstantsAssumption
     DEF FirstRecheck, CreateHelper, CreateReplied, PrepareFails, CopyHelper,
         CallFails, Fault
<1>10. CASE SecondRecheck \/ AttachEnds \/ AttachBreaks \/ VerifyExit
  BY <1>10, ConstantsAssumption
     DEF SecondRecheck, AttachEnds, AttachBreaks, VerifyExit, CallFails,
         Fault
<1>11. CASE CleanupInspect \/ CleanupStop \/ CleanupRemove \/ CleanupFails
  BY <1>11, ConstantsAssumption
     DEF CleanupInspect, CleanupStop, CleanupRemove, CleanupFails, Ends,
         Fault
<1>12. CASE DaemonCreates \/ DaemonStarts
  BY <1>12, ConstantsAssumption
     DEF DaemonCreates, DaemonStarts
<1>13. CASE UNCHANGED vars
  BY <1>13, ConstantsAssumption
     DEF vars
<1> QED
  BY <1>1, <1>2, <1>3, <1>4, <1>5, <1>6, <1>7, <1>8, <1>9, <1>10, <1>11,
     <1>12, <1>13
     DEF Next, Controller, Helpers, DockerRun, Daemon, Environment, Finished

\* Every step leads to a known control point.
LEMMA NextPoints == Points /\ [Next]_vars => Points'
<1> SUFFICES ASSUME Points, [Next]_vars PROVE Points'
  OBVIOUS
<1> USE DEF Points, pipeVars, ctlVars, runVars, boxVars, dstVars, inputs
<1>1. CASE StartConsumer \/ PeekFails \/ ProducerReturns \/ ConsumerReturns
  BY <1>1 DEF StartConsumer, PeekFails, ProducerReturns, ConsumerReturns,
     ReleaseProducer
<1>2. CASE ClosePipes \/ Interrupt \/ WorkstationChanges
  BY <1>2 DEF ClosePipes, Interrupt, WorkstationChanges
<1>3. CASE ReturnResult
  BY <1>3 DEF ReturnResult, ExitCode
<1>4. CASE \/ TakeSnapshot \/ ExportMember \/ ExportFails
           \/ ExportEnds \/ SourceFails
  BY <1>4 DEF TakeSnapshot, ExportMember, ExportFails, ExportEnds,
     SourceFails, Ends, Phase
<1>5. CASE OpenDestination \/ ReceiveMember \/ ReceiveEnds
  BY <1>5 DEF OpenDestination, ReceiveMember, ReceiveEnds, Ends, Phase
<1>6. CASE DestinationRefuses
  BY <1>6 DEF DestinationRefuses, Ends
<1>7. CASE PublishFiles \/ PublishDone \/ ReportResult \/ ImportEnds
  BY <1>7 DEF PublishFiles, PublishDone, ReportResult, ImportEnds, Ends,
     Phase
<1>8. ASSUME NEW e \in End, LocalCancelled(e) PROVE Points'
  BY <1>8 DEF LocalCancelled, Ends
<1>9. CASE \/ FirstRecheck \/ CreateHelper \/ CreateReplied
           \/ PrepareFails \/ CopyHelper
  BY <1>9 DEF FirstRecheck, CreateHelper, CreateReplied, PrepareFails,
     CopyHelper
<1>10. CASE SecondRecheck \/ AttachEnds \/ AttachBreaks \/ VerifyExit
  BY <1>10 DEF SecondRecheck, AttachEnds, AttachBreaks, VerifyExit
<1>11. CASE CleanupInspect \/ CleanupStop \/ CleanupRemove \/ CleanupFails
  BY <1>11 DEF CleanupInspect, CleanupStop, CleanupRemove, CleanupFails,
     Ends, CleanupNext
<1>12. CASE DaemonCreates \/ DaemonStarts
  BY <1>12 DEF DaemonCreates, DaemonStarts
<1>13. CASE UNCHANGED vars
  BY <1>13 DEF vars
<1> QED
  BY <1>1, <1>2, <1>3, <1>4, <1>5, <1>6, <1>7, <1>8, <1>9, <1>10, <1>11,
     <1>12, <1>13
     DEF Next, Controller, Helpers, DockerRun, Daemon, Environment, Finished

\* Every step keeps the phases of the programs.
LEMMA NextPrograms == Points /\ Programs /\ [Next]_vars => Programs'
<1> SUFFICES ASSUME Points, Programs, [Next]_vars PROVE Programs'
  OBVIOUS
<1> USE DEF Programs, End, pipeVars, ctlVars, runVars, boxVars, dstVars,
        inputs
<1>1. CASE StartConsumer \/ PeekFails \/ ProducerReturns \/ ConsumerReturns
  BY <1>1 DEF StartConsumer, PeekFails, ProducerReturns, ConsumerReturns,
     ReleaseProducer
<1>2. CASE ClosePipes \/ Interrupt \/ WorkstationChanges
  BY <1>2 DEF ClosePipes, Interrupt, WorkstationChanges
<1>3. CASE ReturnResult
  BY <1>3 DEF ReturnResult, ExitCode
<1>4. CASE \/ TakeSnapshot \/ ExportMember \/ ExportFails
           \/ ExportEnds \/ SourceFails
  BY <1>4 DEF TakeSnapshot, ExportMember, ExportFails, ExportEnds,
     SourceFails, Ends, Phase
<1>5. CASE OpenDestination \/ ReceiveMember \/ ReceiveEnds
  BY <1>5 DEF OpenDestination, ReceiveMember, ReceiveEnds, Ends, Phase
<1>6. CASE DestinationRefuses
  BY <1>6 DEF DestinationRefuses, Ends
<1>7. CASE PublishFiles \/ PublishDone \/ ReportResult \/ ImportEnds
  BY <1>7 DEF PublishFiles, PublishDone, ReportResult, ImportEnds, Ends,
     Phase
<1>8. ASSUME NEW e \in End, LocalCancelled(e) PROVE Programs'
  BY <1>8 DEF LocalCancelled, Ends
<1>9. CASE \/ FirstRecheck \/ CreateHelper \/ CreateReplied
           \/ PrepareFails \/ CopyHelper
  BY <1>9 DEF FirstRecheck, CreateHelper, CreateReplied, PrepareFails,
     CopyHelper
<1>10. CASE SecondRecheck \/ AttachEnds \/ AttachBreaks \/ VerifyExit
  BY <1>10 DEF SecondRecheck, AttachEnds, AttachBreaks, VerifyExit
<1>11. CASE CleanupInspect \/ CleanupStop \/ CleanupRemove \/ CleanupFails
  BY <1>11 DEF CleanupInspect, CleanupStop, CleanupRemove, CleanupFails,
     Ends, RemoteEnd
<1>12. CASE DaemonCreates \/ DaemonStarts
  BY <1>12 DEF DaemonCreates, DaemonStarts, RemoteEnd
<1>13. CASE UNCHANGED vars
  BY <1>13 DEF vars
<1> QED
  BY <1>1, <1>2, <1>3, <1>4, <1>5, <1>6, <1>7, <1>8, <1>9, <1>10, <1>11,
     <1>12, <1>13
     DEF Next, Controller, Helpers, DockerRun, Daemon, Environment, Finished

-----------------------------------------------------------------------------
(* The invariant.                                                          *)

\* Members leave the source in order, and none leaves one that cannot be read.
LEMMA NextStream == TypeOK /\ Stream /\ [Next]_vars => Stream'
<1> SUFFICES ASSUME TypeOK, Stream, [Next]_vars PROVE Stream'
  OBVIOUS
<1> USE DEF Stream, Counters, Points, Programs, End, pipeVars, ctlVars,
        runVars, boxVars, dstVars, inputs
<1>1. CASE StartConsumer \/ PeekFails \/ ProducerReturns \/ ConsumerReturns
  BY <1>1, ConstantsAssumption, TypeParts
     DEF StartConsumer, PeekFails, ProducerReturns, ConsumerReturns,
         ReleaseProducer
<1>2. CASE ClosePipes \/ Interrupt \/ WorkstationChanges
  BY <1>2, ConstantsAssumption, TypeParts
     DEF ClosePipes, Interrupt, WorkstationChanges
<1>3. CASE ReturnResult
  BY <1>3, ConstantsAssumption, TypeParts
     DEF ReturnResult, ExitCode
<1>4. CASE \/ TakeSnapshot \/ ExportMember \/ ExportFails
           \/ ExportEnds \/ SourceFails
  BY <1>4, ConstantsAssumption, TypeParts
     DEF TakeSnapshot, ExportMember, ExportFails, ExportEnds, SourceFails,
         Ends, Phase, Alive
<1>5. CASE OpenDestination \/ ReceiveMember \/ ReceiveEnds
  BY <1>5, ConstantsAssumption, TypeParts
     DEF OpenDestination, ReceiveMember, ReceiveEnds, Ends, Phase, Readable
<1>6. CASE DestinationRefuses
  BY <1>6, ConstantsAssumption, TypeParts
     DEF DestinationRefuses, Ends
<1>7. CASE PublishFiles \/ PublishDone \/ ReportResult \/ ImportEnds
  BY <1>7, ConstantsAssumption, TypeParts
     DEF PublishFiles, PublishDone, ReportResult, ImportEnds, Ends, Phase
<1>8. ASSUME NEW e \in End, LocalCancelled(e) PROVE Stream'
  BY <1>8, ConstantsAssumption, TypeParts
     DEF LocalCancelled, Ends
<1>9. CASE \/ FirstRecheck \/ CreateHelper \/ CreateReplied
           \/ PrepareFails \/ CopyHelper
  BY <1>9, ConstantsAssumption, TypeParts
     DEF FirstRecheck, CreateHelper, CreateReplied, PrepareFails, CopyHelper
<1>10. CASE SecondRecheck \/ AttachEnds \/ AttachBreaks \/ VerifyExit
  BY <1>10, ConstantsAssumption, TypeParts
     DEF SecondRecheck, AttachEnds, AttachBreaks, VerifyExit
<1>11. CASE CleanupInspect \/ CleanupStop \/ CleanupRemove \/ CleanupFails
  BY <1>11, ConstantsAssumption, TypeParts
     DEF CleanupInspect, CleanupStop, CleanupRemove, CleanupFails, Ends,
         RemoteEnd
<1>12. CASE DaemonCreates \/ DaemonStarts
  BY <1>12, ConstantsAssumption, TypeParts
     DEF DaemonCreates, DaemonStarts, RemoteEnd
<1>13. CASE UNCHANGED vars
  BY <1>13, ConstantsAssumption, TypeParts
     DEF vars
<1> QED
  BY <1>1, <1>2, <1>3, <1>4, <1>5, <1>6, <1>7, <1>8, <1>9, <1>10, <1>11,
     <1>12, <1>13
     DEF Next, Controller, Helpers, DockerRun, Daemon, Environment, Finished

\* The destination publishes after the completion record.
LEMMA NextPublishing ==
    TypeOK /\ Stream /\ Publishing /\ Waiting /\ Requests /\ [Next]_vars
        => Publishing'
<1> SUFFICES ASSUME TypeOK, Stream, Publishing, Waiting, Requests, [Next]_vars
             PROVE  Publishing'
  OBVIOUS
<1> USE DEF Stream, Publishing, Counters, Points, Programs, End, RemoteEnd,
        pipeVars, ctlVars, runVars, boxVars, dstVars, inputs
<1>1. CASE StartConsumer \/ PeekFails \/ ProducerReturns \/ ConsumerReturns
  <2>1. CASE StartConsumer
    BY <2>1, TypeParts DEF StartConsumer, Waiting
  <2>2. CASE PeekFails \/ ProducerReturns \/ ConsumerReturns
    BY <2>2, TypeParts
       DEF PeekFails, ProducerReturns, ConsumerReturns, ReleaseProducer
  <2> QED
    BY <1>1, <2>1, <2>2
<1>2. CASE ClosePipes \/ Interrupt \/ WorkstationChanges
  BY <1>2, TypeParts
     DEF ClosePipes, Interrupt, WorkstationChanges
<1>3. CASE ReturnResult
  BY <1>3, TypeParts
     DEF ReturnResult, ExitCode
<1>4. CASE \/ TakeSnapshot \/ ExportMember \/ ExportFails
           \/ ExportEnds \/ SourceFails
  BY <1>4, TypeParts
     DEF TakeSnapshot, ExportMember, ExportFails, ExportEnds, SourceFails,
         Ends, Phase
<1>5. CASE OpenDestination \/ ReceiveMember \/ ReceiveEnds
  BY <1>5, TypeParts
     DEF OpenDestination, ReceiveMember, ReceiveEnds, Ends, Phase,
         InputComplete, Readable
<1>6. CASE DestinationRefuses
  BY <1>6, TypeParts
     DEF DestinationRefuses, Ends
<1>7. CASE PublishFiles \/ PublishDone \/ ReportResult \/ ImportEnds
  BY <1>7, TypeParts
     DEF PublishFiles, PublishDone, ReportResult, ImportEnds, Ends, Phase,
         Alive
<1>8. ASSUME NEW e \in End, LocalCancelled(e) PROVE Publishing'
  BY <1>8, TypeParts
     DEF LocalCancelled, Ends
<1>9. CASE \/ FirstRecheck \/ CreateHelper \/ CreateReplied
           \/ PrepareFails \/ CopyHelper
  BY <1>9, TypeParts
     DEF FirstRecheck, CreateHelper, CreateReplied, PrepareFails, CopyHelper
<1>10. CASE SecondRecheck \/ AttachEnds \/ AttachBreaks \/ VerifyExit
  BY <1>10, TypeParts
     DEF SecondRecheck, AttachEnds, AttachBreaks, VerifyExit
<1>11. CASE CleanupInspect \/ CleanupStop \/ CleanupRemove \/ CleanupFails
  BY <1>11, TypeParts
     DEF CleanupInspect, CleanupStop, CleanupRemove, CleanupFails, Ends,
         Requests
<1>12. CASE DaemonCreates \/ DaemonStarts
  BY <1>12, TypeParts
     DEF DaemonCreates, DaemonStarts, Requests
<1>13. CASE UNCHANGED vars
  BY <1>13, TypeParts
     DEF vars
<1> QED
  BY <1>1, <1>2, <1>3, <1>4, <1>5, <1>6, <1>7, <1>8, <1>9, <1>10, <1>11,
     <1>12, <1>13
     DEF Next, Controller, Helpers, DockerRun, Daemon, Environment, Finished

\* No consumer starts before the first member arrived.
LEMMA NextWaiting ==
    TypeOK /\ Stream /\ Waiting /\ Container /\ [Next]_vars
        => Waiting'
<1> SUFFICES ASSUME TypeOK, Stream, Waiting, Container, [Next]_vars
             PROVE  Waiting'
  OBVIOUS
<1> USE DEF Stream, Waiting, Counters, Points, Programs, End, RemoteEnd,
        pipeVars, ctlVars, runVars, boxVars, dstVars, inputs
<1>1. CASE StartConsumer \/ PeekFails \/ ProducerReturns \/ ConsumerReturns
  BY <1>1, TypeParts
     DEF StartConsumer, PeekFails, ProducerReturns, ConsumerReturns,
         ReleaseProducer, SourceReady
<1>2. CASE ClosePipes \/ Interrupt \/ WorkstationChanges
  BY <1>2, TypeParts
     DEF ClosePipes, Interrupt, WorkstationChanges
<1>3. CASE ReturnResult
  BY <1>3, TypeParts
     DEF ReturnResult, ExitCode
<1>4. CASE \/ TakeSnapshot \/ ExportMember \/ ExportFails
           \/ ExportEnds \/ SourceFails
  BY <1>4, TypeParts
     DEF TakeSnapshot, ExportMember, ExportFails, ExportEnds, SourceFails,
         Ends, Phase
<1>5. CASE OpenDestination \/ ReceiveMember \/ ReceiveEnds
  BY <1>5, TypeParts
     DEF OpenDestination, ReceiveMember, ReceiveEnds, Ends, Phase, Alive
<1>6. CASE DestinationRefuses
  BY <1>6, TypeParts
     DEF DestinationRefuses, Ends, Alive
<1>7. CASE PublishFiles \/ PublishDone \/ ReportResult \/ ImportEnds
  BY <1>7, TypeParts
     DEF PublishFiles, PublishDone, ReportResult, ImportEnds, Ends, Phase,
         Alive
<1>8. ASSUME NEW e \in End, LocalCancelled(e) PROVE Waiting'
  BY <1>8, TypeParts
     DEF LocalCancelled, Ends, Alive
<1>9. CASE \/ FirstRecheck \/ CreateHelper \/ CreateReplied
           \/ PrepareFails \/ CopyHelper
  BY <1>9, TypeParts
     DEF FirstRecheck, CreateHelper, CreateReplied, PrepareFails, CopyHelper
<1>10. CASE SecondRecheck \/ AttachEnds \/ AttachBreaks \/ VerifyExit
  BY <1>10, TypeParts
     DEF SecondRecheck, AttachEnds, AttachBreaks, VerifyExit
<1>11. CASE CleanupInspect \/ CleanupStop \/ CleanupRemove \/ CleanupFails
  BY <1>11, TypeParts
     DEF CleanupInspect, CleanupStop, CleanupRemove, CleanupFails, Ends,
         Container, NoContainer
<1>12. CASE DaemonCreates \/ DaemonStarts
  BY <1>12, TypeParts
     DEF DaemonCreates, DaemonStarts, Container, NoContainer
<1>13. CASE UNCHANGED vars
  BY <1>13, TypeParts
     DEF vars
<1> QED
  BY <1>1, <1>2, <1>3, <1>4, <1>5, <1>6, <1>7, <1>8, <1>9, <1>10, <1>11,
     <1>12, <1>13
     DEF Next, Controller, Helpers, DockerRun, Daemon, Environment, Finished

\* Docker.Run and the daemon agree on what exists.
LEMMA NextContainer ==
    TypeOK /\ Container /\ Requests /\ Waiting /\ [Next]_vars
        => Container'
<1> SUFFICES ASSUME TypeOK, Container, Requests, Waiting, [Next]_vars
             PROVE  Container'
  OBVIOUS
<1> USE DEF Container, EndedWell, NoContainer, Points, Programs, End,
        RemoteEnd, pipeVars, ctlVars, runVars, boxVars, dstVars, inputs
<1>1. CASE StartConsumer \/ PeekFails \/ ProducerReturns \/ ConsumerReturns
  BY <1>1, TypeParts
     DEF StartConsumer, PeekFails, ProducerReturns, ConsumerReturns,
         ReleaseProducer, Waiting, Remote
<1>2. CASE ClosePipes \/ Interrupt \/ WorkstationChanges
  BY <1>2, TypeParts
     DEF ClosePipes, Interrupt, WorkstationChanges
<1>3. CASE ReturnResult
  BY <1>3, TypeParts
     DEF ReturnResult, ExitCode
<1>4. CASE \/ TakeSnapshot \/ ExportMember \/ ExportFails
           \/ ExportEnds \/ SourceFails
  BY <1>4, TypeParts
     DEF TakeSnapshot, ExportMember, ExportFails, ExportEnds, SourceFails,
         Ends, Phase, Alive, Remote, Requests
<1>5. CASE OpenDestination \/ ReceiveMember \/ ReceiveEnds
  BY <1>5, TypeParts
     DEF OpenDestination, ReceiveMember, ReceiveEnds, Ends, Phase, Alive,
         Remote, Requests
<1>6. CASE DestinationRefuses
  BY <1>6, TypeParts
     DEF DestinationRefuses, Ends, Alive, Remote, Requests
<1>7. CASE PublishFiles \/ PublishDone \/ ReportResult \/ ImportEnds
  BY <1>7, TypeParts
     DEF PublishFiles, PublishDone, ReportResult, ImportEnds, Ends, Phase,
         Alive, Remote, Requests
<1>8. ASSUME NEW e \in End, LocalCancelled(e) PROVE Container'
  BY <1>8, TypeParts
     DEF LocalCancelled, Ends, Alive, Remote, Requests
<1>9. CASE \/ FirstRecheck \/ CreateHelper \/ CreateReplied
           \/ PrepareFails \/ CopyHelper
  BY <1>9, TypeParts
     DEF FirstRecheck, CreateHelper, CreateReplied, PrepareFails, CopyHelper
<1>10. CASE SecondRecheck \/ AttachEnds \/ AttachBreaks \/ VerifyExit
  BY <1>10, TypeParts
     DEF SecondRecheck, AttachEnds, AttachBreaks, VerifyExit, Requests
<1>11. CASE CleanupInspect \/ CleanupStop \/ CleanupRemove \/ CleanupFails
  <2>1. CASE CleanupInspect
    BY <2>1, TypeParts DEF CleanupInspect, CleanupNext
  <2>2. CASE CleanupStop
    BY <2>2, TypeParts DEF CleanupStop, Ends, Remote, Requests
  <2>3. CASE CleanupRemove
    BY <2>3, TypeParts DEF CleanupRemove
  <2>4. CASE CleanupFails
    BY <2>4, TypeParts DEF CleanupFails
  <2> QED
    BY <1>11, <2>1, <2>2, <2>3, <2>4
<1>12. CASE DaemonCreates \/ DaemonStarts
  BY <1>12, TypeParts
     DEF DaemonCreates, DaemonStarts, Requests
<1>13. CASE UNCHANGED vars
  BY <1>13, TypeParts
     DEF vars
<1> QED
  BY <1>1, <1>2, <1>3, <1>4, <1>5, <1>6, <1>7, <1>8, <1>9, <1>10, <1>11,
     <1>12, <1>13
     DEF Next, Controller, Helpers, DockerRun, Daemon, Environment, Finished

\* Requests are handled once.
LEMMA NextRequests ==
    TypeOK /\ Container /\ Requests /\ Waiting /\ [Next]_vars
        => Requests'
<1> SUFFICES ASSUME TypeOK, Container, Requests, Waiting, [Next]_vars
             PROVE  Requests'
  OBVIOUS
<1> USE DEF Requests, Points, Programs, End, RemoteEnd, pipeVars, ctlVars,
        runVars, boxVars, dstVars, inputs
<1>1. CASE StartConsumer \/ PeekFails \/ ProducerReturns \/ ConsumerReturns
  BY <1>1, TypeParts
     DEF StartConsumer, PeekFails, ProducerReturns, ConsumerReturns,
         ReleaseProducer, Waiting, Remote
<1>2. CASE ClosePipes \/ Interrupt \/ WorkstationChanges
  BY <1>2, TypeParts
     DEF ClosePipes, Interrupt, WorkstationChanges
<1>3. CASE ReturnResult
  BY <1>3, TypeParts
     DEF ReturnResult, ExitCode
<1>4. CASE \/ TakeSnapshot \/ ExportMember \/ ExportFails
           \/ ExportEnds \/ SourceFails
  BY <1>4, TypeParts
     DEF TakeSnapshot, ExportMember, ExportFails, ExportEnds, SourceFails,
         Ends, Phase, Alive, Remote
<1>5. CASE OpenDestination \/ ReceiveMember \/ ReceiveEnds
  BY <1>5, TypeParts
     DEF OpenDestination, ReceiveMember, ReceiveEnds, Ends, Phase, Alive,
         Remote
<1>6. CASE DestinationRefuses
  BY <1>6, TypeParts
     DEF DestinationRefuses, Ends, Alive, Remote
<1>7. CASE PublishFiles \/ PublishDone \/ ReportResult \/ ImportEnds
  BY <1>7, TypeParts
     DEF PublishFiles, PublishDone, ReportResult, ImportEnds, Ends, Phase,
         Alive, Remote
<1>8. ASSUME NEW e \in End, LocalCancelled(e) PROVE Requests'
  BY <1>8, TypeParts
     DEF LocalCancelled, Ends, Alive, Remote
<1>9. CASE \/ FirstRecheck \/ CreateHelper \/ CreateReplied
           \/ PrepareFails \/ CopyHelper
  BY <1>9, TypeParts
     DEF FirstRecheck, CreateHelper, CreateReplied, PrepareFails, CopyHelper,
         Container, NoContainer
<1>10. CASE SecondRecheck \/ AttachEnds \/ AttachBreaks \/ VerifyExit
  BY <1>10, TypeParts
     DEF SecondRecheck, AttachEnds, AttachBreaks, VerifyExit, Container
<1>11. CASE CleanupInspect \/ CleanupStop \/ CleanupRemove \/ CleanupFails
  BY <1>11, TypeParts
     DEF CleanupInspect, CleanupStop, CleanupRemove, CleanupFails, Ends,
         CleanupNext, Remote, Container
<1>12. CASE DaemonCreates \/ DaemonStarts
  BY <1>12, TypeParts
     DEF DaemonCreates, DaemonStarts, Container
<1>13. CASE UNCHANGED vars
  BY <1>13, TypeParts
     DEF vars
<1> QED
  BY <1>1, <1>2, <1>3, <1>4, <1>5, <1>6, <1>7, <1>8, <1>9, <1>10, <1>11,
     <1>12, <1>13
     DEF Next, Controller, Helpers, DockerRun, Daemon, Environment, Finished

\* What Docker.Run leaves behind is reported.
LEMMA NextCleaned ==
    TypeOK /\ Container /\ Requests /\ Cleaned /\ [Next]_vars
        => Cleaned'
<1> SUFFICES ASSUME TypeOK, Container, Requests, Cleaned, [Next]_vars
             PROVE  Cleaned'
  OBVIOUS
<1> USE DEF Cleaned, NoContainer, Points, Programs, End, RemoteEnd, pipeVars,
        ctlVars, runVars, boxVars, dstVars, inputs
<1>1. CASE StartConsumer \/ PeekFails \/ ProducerReturns \/ ConsumerReturns
  BY <1>1, TypeParts
     DEF StartConsumer, PeekFails, ProducerReturns, ConsumerReturns,
         ReleaseProducer
<1>2. CASE ClosePipes \/ Interrupt \/ WorkstationChanges
  BY <1>2, TypeParts
     DEF ClosePipes, Interrupt, WorkstationChanges
<1>3. CASE ReturnResult
  BY <1>3, TypeParts
     DEF ReturnResult, ExitCode
<1>4. CASE \/ TakeSnapshot \/ ExportMember \/ ExportFails
           \/ ExportEnds \/ SourceFails
  BY <1>4, TypeParts
     DEF TakeSnapshot, ExportMember, ExportFails, ExportEnds, SourceFails,
         Ends, Phase, Alive, Remote
<1>5. CASE OpenDestination \/ ReceiveMember \/ ReceiveEnds
  BY <1>5, TypeParts
     DEF OpenDestination, ReceiveMember, ReceiveEnds, Ends, Phase, Alive,
         Remote
<1>6. CASE DestinationRefuses
  BY <1>6, TypeParts
     DEF DestinationRefuses, Ends, Alive, Remote
<1>7. CASE PublishFiles \/ PublishDone \/ ReportResult \/ ImportEnds
  BY <1>7, TypeParts
     DEF PublishFiles, PublishDone, ReportResult, ImportEnds, Ends, Phase,
         Alive, Remote
<1>8. ASSUME NEW e \in End, LocalCancelled(e) PROVE Cleaned'
  BY <1>8, TypeParts
     DEF LocalCancelled, Ends, Alive, Remote
<1>9. CASE \/ FirstRecheck \/ CreateHelper \/ CreateReplied
           \/ PrepareFails \/ CopyHelper
  BY <1>9, TypeParts
     DEF FirstRecheck, CreateHelper, CreateReplied, PrepareFails, CopyHelper,
         Container, NoContainer
<1>10. CASE SecondRecheck \/ AttachEnds \/ AttachBreaks \/ VerifyExit
  BY <1>10, TypeParts
     DEF SecondRecheck, AttachEnds, AttachBreaks, VerifyExit
<1>11. CASE CleanupInspect \/ CleanupStop \/ CleanupRemove \/ CleanupFails
  <2>1. CASE CleanupInspect
    BY <2>1, TypeParts
       DEF CleanupInspect, CleanupNext, EndedWell, Container, Requests
  <2>2. CASE CleanupStop
    BY <2>2, TypeParts
       DEF CleanupStop, Ends, CleanupNext, EndedWell, Container, Requests
  <2>3. CASE CleanupRemove
    BY <2>3, TypeParts
       DEF CleanupRemove, Ends, RemovalRefused, CleanupNext, EndedWell,
           Container, Requests
  <2>4. CASE CleanupFails
    BY <2>4, TypeParts
       DEF CleanupFails, CleanupNext, EndedWell, Container, Requests
  <2> QED
    BY <1>11, <2>1, <2>2, <2>3, <2>4
<1>12. CASE DaemonCreates \/ DaemonStarts
  BY <1>12, TypeParts
     DEF DaemonCreates, DaemonStarts, Requests
<1>13. CASE UNCHANGED vars
  BY <1>13, TypeParts
     DEF vars
<1> QED
  BY <1>1, <1>2, <1>3, <1>4, <1>5, <1>6, <1>7, <1>8, <1>9, <1>10, <1>11,
     <1>12, <1>13
     DEF Next, Controller, Helpers, DockerRun, Daemon, Environment, Finished

\* What the controller knows of an end that returned stays so.
LEMMA NextVerdict ==
    /\ TypeOK /\ Container /\ Requests /\ Cleaned /\ Verdict /\ Waiting
    /\ [Next]_vars
    => Verdict'
<1> SUFFICES ASSUME TypeOK, Container, Requests, Cleaned, Verdict, Waiting,
                    [Next]_vars
             PROVE  Verdict'
  OBVIOUS
<1> USE DEF Verdict, Over, Well, Remote, Points, Programs, End, pipeVars,
        ctlVars, runVars, boxVars, dstVars, inputs
<1>1. CASE StartConsumer \/ PeekFails \/ ProducerReturns \/ ConsumerReturns
  BY <1>1, TypeParts
     DEF StartConsumer, PeekFails, ProducerReturns, ConsumerReturns,
         ReleaseProducer, Returned, Failed, Waiting
<1>2. CASE ClosePipes \/ Interrupt \/ WorkstationChanges
  BY <1>2, TypeParts
     DEF ClosePipes, Interrupt, WorkstationChanges
<1>3. CASE ReturnResult
  <2>1. code' = 0 => sent = "ok" /\ received = "ok"
    <3>1. sent \in {"ok", "err"} /\ received \in {"ok", "err"}
      BY <1>3, TypeParts DEF ReturnResult
    <3>2. TransportFailed => code' # 0
      BY <1>3 DEF ReturnResult, ExitCode
    <3> QED
      BY <3>1, <3>2 DEF TransportFailed
  <2> QED
    BY <1>3, <2>1, TypeParts DEF ReturnResult
<1>4. CASE \/ TakeSnapshot \/ ExportMember \/ ExportFails
           \/ ExportEnds \/ SourceFails
  BY <1>4, TypeParts
     DEF TakeSnapshot, ExportMember, ExportFails, ExportEnds, SourceFails,
         Ends, Phase, Alive, Requests
<1>5. CASE OpenDestination \/ ReceiveMember \/ ReceiveEnds
  BY <1>5, TypeParts
     DEF OpenDestination, ReceiveMember, ReceiveEnds, Ends, Phase, Alive,
         Requests
<1>6. CASE DestinationRefuses
  BY <1>6, TypeParts
     DEF DestinationRefuses, Ends, Alive, Requests
<1>7. CASE PublishFiles \/ PublishDone \/ ReportResult \/ ImportEnds
  BY <1>7, TypeParts
     DEF PublishFiles, PublishDone, ReportResult, ImportEnds, Ends, Phase,
         Alive, Requests
<1>8. ASSUME NEW e \in End, LocalCancelled(e) PROVE Verdict'
  BY <1>8, TypeParts
     DEF LocalCancelled, Ends, Alive, Requests
<1>9. CASE \/ FirstRecheck \/ CreateHelper \/ CreateReplied
           \/ PrepareFails \/ CopyHelper
  BY <1>9, TypeParts
     DEF FirstRecheck, CreateHelper, CreateReplied, PrepareFails, CopyHelper
<1>10. CASE SecondRecheck \/ AttachEnds \/ AttachBreaks \/ VerifyExit
  BY <1>10, TypeParts
     DEF SecondRecheck, AttachEnds, AttachBreaks, VerifyExit
<1>11. CASE CleanupInspect \/ CleanupStop \/ CleanupRemove \/ CleanupFails
  BY <1>11, TypeParts
     DEF CleanupInspect, CleanupStop, CleanupRemove, CleanupFails, Ends,
         RemoteEnd, Requests, Container
<1>12. CASE DaemonCreates \/ DaemonStarts
  <2>1. CASE DaemonCreates
    BY <2>1, TypeParts DEF DaemonCreates
  <2>2. CASE DaemonStarts
    BY <2>2, TypeParts DEF DaemonStarts, RemoteEnd, Container, NoContainer
  <2> QED
    BY <1>12, <2>1, <2>2
<1>13. CASE UNCHANGED vars
  BY <1>13, TypeParts
     DEF vars
<1> QED
  BY <1>1, <1>2, <1>3, <1>4, <1>5, <1>6, <1>7, <1>8, <1>9, <1>10, <1>11,
     <1>12, <1>13
     DEF Next, Controller, Helpers, DockerRun, Daemon, Environment, Finished

\* The initial states satisfy the invariant.
LEMMA InitIInv == Init => IInv
<1> SUFFICES ASSUME Init PROVE IInv
  OBVIOUS
<1>1. Flags
  BY DEF Init, Flags
<1>2. Counters
  BY ConstantsAssumption DEF Init, Counters
<1>3. Points
  BY DEF Init, Points
<1>4. Programs
  BY DEF Init, Programs, End
<1>5. TypeOK
  BY <1>1, <1>2, <1>3, <1>4, TypeParts
<1>6. Stream
  BY ConstantsAssumption DEF Init, Stream, End
<1>7. Publishing /\ Waiting
  BY DEF Init, Publishing, Waiting, End
<1>8. Container
  BY DEF Init, Container, NoContainer, RemoteEnd, End
<1>9. Requests
  BY DEF Init, Requests, RemoteEnd, End
<1>10. Cleaned /\ Verdict
  BY DEF Init, Cleaned, Verdict
<1> QED
  BY <1>5, <1>6, <1>7, <1>8, <1>9, <1>10 DEF IInv

\* Every step keeps the invariant.
LEMMA NextIInv == IInv /\ [Next]_vars => IInv'
<1> SUFFICES ASSUME IInv, [Next]_vars PROVE IInv'
  OBVIOUS
<1> USE DEF IInv
<1>1. TypeOK'
  <2>1. Flags /\ Counters /\ Points /\ Programs
    BY TypeParts
  <2>2. Flags' /\ Counters' /\ Points' /\ Programs'
    BY <2>1, NextFlags, NextCounters, NextPoints, NextPrograms
  <2> QED
    BY <2>2, TypeParts DEF TypeOK, Flags, Counters, Points, Programs
<1>2. Stream' /\ Publishing' /\ Waiting'
  BY NextStream, NextPublishing, NextWaiting
<1>3. Container' /\ Requests' /\ Cleaned' /\ Verdict'
  BY NextContainer, NextRequests, NextCleaned, NextVerdict
<1> QED
  BY <1>1, <1>2, <1>3

\* The invariant holds throughout.
THEOREM Invariance == Spec => []IInv
BY InitIInv, NextIInv, PTL DEF Spec

-----------------------------------------------------------------------------
(* What follows for the destination.                                       *)

\* Every variable keeps its type, the counters of the stream within its length.
THEOREM TypeCorrect == Spec => []TypeOK
<1>1. IInv => TypeOK
  BY DEF IInv
<1> QED
  BY <1>1, Invariance, PTL

\* Live history at the destination is touched only when all members, the
\* completion record included, arrived from a source that stayed valid: Receive
\* refuses everything else, whatever fails, is cancelled or gets cut off.
THEOREM OnlyCompleteStreams == Spec => []CompleteStreamOnly
<1>1. IInv => CompleteStreamOnly
  <2> SUFFICES ASSUME IInv, live # "untouched"
               PROVE  got = Members /\ source = "valid"
    BY DEF CompleteStreamOnly
  <2>1. got = Members
    BY DEF IInv, Publishing
  <2>2. written = Members
    BY <2>1, ConstantsAssumption DEF IInv, Stream, TypeOK
  <2> QED
    BY <2>1, <2>2, ConstantsAssumption DEF IInv, Stream, TypeOK
<1> QED
  BY <1>1, Invariance, PTL

\* A conversation that is absent or invalid at its source initialises no
\* destination home and creates no helper container for one: transfer starts the
\* consumer after the first byte, and such a source writes none.
THEOREM NothingForInvalidSource == Spec => []InvalidSourceTouchesNothing
<1>1. IInv => InvalidSourceTouchesNothing
  BY DEF IInv, InvalidSourceTouchesNothing, Waiting, Container, NoContainer
<1> QED
  BY <1>1, Invariance, PTL

-----------------------------------------------------------------------------
(* The transfer implements the safety part of SessionCopy.                  *)

\* The abstract variables.
Dest == IF live # "untouched" THEN live
        ELSE IF touched THEN "initialised" ELSE "untouched"
Troubled == "err" \in {exit["src"], exit["dst"]} \/ runErr \/ cleanErr
HelperLeft == createReq \/ box # "none"
Outcome == IF main # "returned" THEN "running"
           ELSE IF code = 0 THEN "ok"
           ELSE IF cleanErr THEN "unclean" ELSE "failed"

\* The destination stays where it is or moves to its next stage.
Forward ==
    \/ Dest' = Dest
    \/ Dest = "untouched" /\ Dest' = "initialised"
    \/ Dest = "initialised" /\ Dest' = "partial"
    \/ Dest = "partial" /\ Dest' = "complete"

\* The command is still running, or said that it left a helper behind.
MayWork == Outcome = "running" \/ (Outcome = "unclean" /\ HelperLeft)

\* A step that changes none of the variables behind the abstract ones stutters.
LEMMA Stutters ==
    UNCHANGED <<live, touched, response, exit, runErr, cleanErr, createReq, box,
                main, code>>
        => UNCHANGED Copy!vars
BY DEF Copy!vars

\* A step that moves the destination forward, or fails, while that is allowed.
LEMMA Works ==
    ASSUME MayWork, Forward, Troubled => Troubled',
           UNCHANGED <<response, HelperLeft, Outcome>>
    PROVE  Copy!Next
<1>1. Dest' \in {Dest} \cup {Copy!Stage[i + 1] :
                                i \in {j \in 1..3 : Copy!Stage[j] = Dest}}
  BY DEF Forward, Copy!Stage
<1>2. Troubled' \in {Troubled, TRUE}
  BY Zenon DEF Troubled
<1> QED
  BY <1>1, <1>2 DEF Copy!Next, Copy!Work, MayWork, Dest, Troubled, HelperLeft,
                   Outcome

\* Docker.Run and the local program have returned when the command has.
LEMMA ReturnedLast ==
    ASSUME IInv, main = "returned"
    PROVE  /\ run \in {"off", "done"}
           /\ \A e \in End : Alive(e) => Remote(e)
<1> USE DEF IInv, TypeOK, Verdict, Over, Remote, Alive, End
<1>1. CASE op = "export"
  BY <1>1
<1>2. CASE op = "import"
  BY <1>2
<1> QED
  BY <1>1, <1>2

\* A program that still runs does so under the command, or in a helper that the
\* command reported.
LEMMA AliveMayWork ==
    ASSUME IInv, NEW e \in End, Alive(e)
    PROVE  MayWork
<1> SUFFICES ASSUME main = "returned" PROVE Outcome = "unclean" /\ HelperLeft
  BY DEF MayWork, Outcome
<1>1. Remote(e) /\ box = "running" /\ run \in {"off", "done"}
  BY ReturnedLast DEF Alive
<1>2. run = "done" /\ cleanErr
  BY <1>1 DEF IInv, Container, NoContainer, Cleaned
<1>3. code # 0
  BY <1>1, <1>2 DEF IInv, Verdict, Well, Remote, End
<1> QED
  BY <1>1, <1>2, <1>3 DEF Outcome, HelperLeft

\* The program at one end exits with an error.
LEMMA EndsFailing ==
    ASSUME IInv, NEW e \in End, Alive(e), Ends(e, "err"), Forward,
           UNCHANGED <<response, runErr, cleanErr, createReq, main, code>>
    PROVE  Copy!Next
<1>1. Troubled'
  BY DEF Troubled, Ends, IInv, TypeOK, End
<1>2. UNCHANGED <<HelperLeft, Outcome>>
  BY DEF HelperLeft, Outcome, Ends, Alive
<1> QED
  BY <1>1, <1>2, AliveMayWork, Works

\* The program at one end exits well.
LEMMA EndsWell ==
    ASSUME IInv, NEW e \in End, Alive(e), Ends(e, "ok"),
           UNCHANGED <<live, touched, response, runErr, cleanErr, createReq, main,
                       code>>
    PROVE  UNCHANGED Copy!vars
<1>1. UNCHANGED <<"err" \in {exit["src"], exit["dst"]}>>
  BY DEF Ends, IInv, TypeOK, End, Requests, Alive
<1>2. UNCHANGED (box # "none")
  BY DEF Ends, Alive
<1> QED
  BY <1>1, <1>2 DEF Copy!vars

\* Every step of the transfer is a step of SessionCopy, or none that its user
\* sees.
LEMMA NextCopy == IInv /\ [Next]_vars => [Copy!Next]_(Copy!vars)
<1> SUFFICES ASSUME IInv, [Next]_vars PROVE Copy!Next \/ UNCHANGED Copy!vars
  OBVIOUS
<1> USE DEF pipeVars, ctlVars, runVars, boxVars, dstVars, inputs
<1>1. CASE UNCHANGED vars
  BY <1>1, Stutters DEF vars
<1>2. CASE StartConsumer \/ PeekFails \/ ConsumerReturns
  <2>1. UNCHANGED <<Dest, HelperLeft, Troubled, response>>
    BY <1>2 DEF StartConsumer, PeekFails, ConsumerReturns, Dest, HelperLeft,
                Troubled
  <2>2. Outcome = "running" /\ Outcome' = "running"
    BY <1>2 DEF StartConsumer, PeekFails, ConsumerReturns, Outcome
  <2> QED
    BY <2>1, <2>2, Works DEF MayWork, Forward
<1>3. CASE ProducerReturns \/ ClosePipes \/ Interrupt \/ WorkstationChanges
  BY <1>3, Stutters
     DEF ProducerReturns, ClosePipes, Interrupt, WorkstationChanges
<1>4. CASE ReturnResult
  <2>1. PICK how \in {"ok", "failed", "unclean"} : Outcome' = how
    BY <1>4 DEF ReturnResult, Outcome
  <2>2. ASSUME how = "ok" PROVE response /\ ~Troubled /\ ~HelperLeft
    <3>1. code' = 0
      BY <2>1, <2>2, <1>4 DEF Outcome, ReturnResult
    <3>2. response /\ sent = "ok" /\ received = "ok"
      <4>1. response /\ ~TransportFailed
        BY <3>1, <1>4 DEF ReturnResult, ExitCode, Confirmed
      <4>2. sent \in {"ok", "err"} /\ received \in {"ok", "err"}
        BY <1>4 DEF ReturnResult, IInv, TypeOK, Verdict
      <4> QED
        BY <4>1, <4>2 DEF TransportFailed
    <3>3. Over("src") /\ Well("src") /\ Over("dst") /\ Well("dst")
      BY <3>2 DEF IInv, Verdict
    <3>4. op = "export" \/ op = "import"
      BY DEF IInv, TypeOK
    <3>5. run = "done" /\ ~runErr /\ ~cleanErr
      BY <3>3, <3>4 DEF Over, Well, Remote
    <3>6. NoContainer /\ exit[RemoteEnd] = "ok"
      BY <3>5 DEF IInv, Cleaned
    <3>7. exit["src"] = "ok" /\ exit["dst"] = "ok"
      BY <3>3, <3>4, <3>6 DEF Well, Remote, RemoteEnd
    <3> QED
      BY <3>2, <3>5, <3>6, <3>7 DEF Troubled, HelperLeft, NoContainer
  <2>3. Outcome = "running"
    BY <1>4 DEF ReturnResult, Outcome
  <2>4. UNCHANGED <<Dest, response, Troubled, HelperLeft>>
    BY <1>4 DEF ReturnResult, Dest, Troubled, HelperLeft
  <2>5. Copy!Return(how)
    BY <2>1, <2>2, <2>3, <2>4
       DEF Copy!Return, Dest, Troubled, HelperLeft, Outcome
  <2> QED
    BY <2>5 DEF Copy!Next
<1>5. CASE TakeSnapshot \/ ExportFails \/ ExportEnds \/ SourceFails
  <2>1. Alive("src") /\ Dest' = Dest
    BY <1>5 DEF TakeSnapshot, ExportFails, ExportEnds, SourceFails, Dest
  <2>2. UNCHANGED <<live, touched, response, runErr, cleanErr, createReq, main,
                    code>>
    BY <1>5 DEF TakeSnapshot, ExportFails, ExportEnds, SourceFails
  <2>3. \/ Phase("src", "export")
        \/ Ends("src", "ok")
        \/ Ends("src", "err")
    BY <1>5 DEF TakeSnapshot, ExportFails, ExportEnds, SourceFails
  <2> QED
    BY <2>1, <2>2, <2>3, EndsFailing, EndsWell, Stutters DEF End, Forward, Phase
<1>6. CASE ExportMember
  BY <1>6, Stutters DEF ExportMember
<1>7. CASE OpenDestination
  <2>1. Alive("dst")
    BY <1>7 DEF OpenDestination
  <2>2. Forward
    BY <1>7 DEF OpenDestination, Forward, Dest
  <2>3. UNCHANGED <<response, HelperLeft, Outcome, Troubled>>
    BY <1>7 DEF OpenDestination, Phase, HelperLeft, Outcome, Troubled
  <2> QED
    BY <2>1, <2>2, <2>3, AliveMayWork, Works DEF End
<1>8. CASE ReceiveMember \/ ReceiveEnds \/ ImportEnds
  <2>1. Alive("dst") /\ Dest' = Dest
    BY <1>8 DEF ReceiveMember, ReceiveEnds, ImportEnds, Dest
  <2>2. UNCHANGED <<live, touched, response, runErr, cleanErr, createReq, main,
                    code>>
    BY <1>8 DEF ReceiveMember, ReceiveEnds, ImportEnds
  <2>3. \/ UNCHANGED <<exit, box>>
        \/ Ends("dst", "ok")
        \/ Ends("dst", "err")
    BY <1>8 DEF ReceiveMember, ReceiveEnds, ImportEnds, Phase
  <2> QED
    BY <2>1, <2>2, <2>3, EndsFailing, EndsWell, Stutters DEF End, Forward
<1>9. CASE DestinationRefuses
  <2>1. Alive("dst") /\ Ends("dst", "err")
    BY <1>9 DEF DestinationRefuses
  <2>2. Forward
    <3>1. (touched' = touched \/ touched' = TRUE) /\ live' = live
      BY <1>9, Zenon DEF DestinationRefuses
    <3>2. CASE touched' = touched
      BY <3>1, <3>2 DEF Forward, Dest
    <3>3. CASE touched' = TRUE
      BY <3>1, <3>3 DEF Forward, Dest
    <3> QED
      BY <3>1, <3>2, <3>3
  <2>3. UNCHANGED <<response, runErr, cleanErr, createReq, main, code>>
    BY <1>9 DEF DestinationRefuses
  <2> QED
    BY <2>1, <2>2, <2>3, EndsFailing DEF End
<1>10. CASE PublishFiles \/ PublishDone
  <2>1. Alive("dst")
    BY <1>10 DEF PublishFiles, PublishDone
  <2>2. Forward
    BY <1>10 DEF PublishFiles, PublishDone, Forward, Dest, IInv, Publishing
  <2>3. UNCHANGED <<response, HelperLeft, Outcome, Troubled>>
    BY <1>10 DEF PublishFiles, PublishDone, Phase, HelperLeft, Outcome, Troubled
  <2> QED
    BY <2>1, <2>2, <2>3, AliveMayWork, Works DEF End
<1>11. CASE ReportResult
  <2>1. UNCHANGED <<live, touched, exit, runErr, cleanErr, createReq, box, main,
                    code>>
    BY <1>11 DEF ReportResult, Phase
  <2>2. ~response /\ live = "complete"
    BY <1>11 DEF ReportResult, IInv, Publishing, TypeOK
  <2>3. CASE ~response'
    <3>1. response' = response
      BY <1>11, <2>2, <2>3 DEF ReportResult, IInv, TypeOK
    <3> QED
      BY <2>1, <3>1, Stutters
  <2>4. CASE response'
    <3>1. ~Remote("dst") \/ Attached
      BY <1>11, <2>4 DEF ReportResult
    <3>2. main # "returned"
      BY <3>1, <1>11, ReturnedLast DEF ReportResult, Attached, End
    <3>3. response' = TRUE
      BY <1>11, <2>4 DEF ReportResult
    <3>4. Copy!Report
      BY <2>1, <2>2, <3>2, <3>3 DEF Copy!Report
    <3> QED
      BY <3>4 DEF Copy!Next
  <2> QED
    BY <2>3, <2>4
<1>12. ASSUME NEW e \in End, LocalCancelled(e)
       PROVE  Copy!Next \/ UNCHANGED Copy!vars
  <2>1. Alive(e) /\ Ends(e, "err") /\ Forward
    BY <1>12 DEF LocalCancelled, Forward, Dest
  <2>2. UNCHANGED <<response, runErr, cleanErr, createReq, main, code>>
    BY <1>12 DEF LocalCancelled
  <2> QED
    BY <2>1, <2>2, EndsFailing
<1>13. CASE CreateHelper
  <2>1. main # "returned" /\ box = "none" /\ createReq = FALSE
    BY <1>13, ReturnedLast
       DEF CreateHelper, IInv, Container, NoContainer, TypeOK
  <2>2. Copy!Helper
    BY <1>13, <2>1 DEF CreateHelper, Copy!Helper
  <2> QED
    BY <2>2 DEF Copy!Next
<1>14. CASE CreateReplied \/ CopyHelper \/ CleanupInspect
  BY <1>14, Stutters DEF CreateReplied, CopyHelper, CleanupInspect
<1>15. CASE \/ FirstRecheck \/ PrepareFails \/ SecondRecheck \/ AttachEnds
            \/ AttachBreaks \/ VerifyExit \/ CleanupFails
  <2>1. main # "returned"
    BY <1>15, ReturnedLast
       DEF FirstRecheck, PrepareFails, SecondRecheck, AttachEnds, AttachBreaks,
           VerifyExit, CleanupFails
  <2>2. UNCHANGED <<Dest, HelperLeft, response, main, exit>>
    BY <1>15
       DEF FirstRecheck, PrepareFails, SecondRecheck, AttachEnds, AttachBreaks,
           VerifyExit, CleanupFails, Dest, HelperLeft
  <2>3. Troubled => Troubled'
    BY <1>15
       DEF FirstRecheck, PrepareFails, SecondRecheck, AttachEnds, AttachBreaks,
           VerifyExit, CleanupFails, Troubled
  <2> QED
    BY <2>1, <2>2, <2>3, Works DEF MayWork, Forward, Outcome
<1>16. CASE CleanupStop
  <2>1. main # "returned"
    BY <1>16, ReturnedLast DEF CleanupStop
  <2>2. UNCHANGED <<Dest, response, main>>
    BY <1>16 DEF CleanupStop, Dest
  <2>3. UNCHANGED HelperLeft
    BY <1>16 DEF CleanupStop, Ends, HelperLeft
  <2>4. Troubled => Troubled'
    BY <1>16 DEF CleanupStop, Ends, Troubled, RemoteEnd, IInv, TypeOK, End
  <2> QED
    BY <2>1, <2>2, <2>3, <2>4, Works DEF MayWork, Forward, Outcome
<1>17. CASE CleanupRemove
  <2>1. main # "returned" /\ box # "none" /\ createReq = FALSE /\ cleanErr = FALSE
    BY <1>17, ReturnedLast
       DEF CleanupRemove, IInv, Container, Requests, TypeOK
  <2>2. CASE box = "running"
    <3>1. UNCHANGED <<Dest, HelperLeft, response, main>> /\ Troubled'
      BY <1>17, <2>2
         DEF CleanupRemove, RemovalRefused, Dest, HelperLeft, Troubled
    <3> QED
      BY <2>1, <3>1, Works DEF MayWork, Forward, Outcome
  <2>3. CASE box # "running"
    <3>1. /\ UNCHANGED <<live, touched, response, exit, runErr, cleanErr, main,
                         code, createReq>>
          /\ box' = "none"
      BY <1>17, <2>1, <2>3 DEF CleanupRemove, RemovalRefused
    <3>2. Copy!Helper
      BY <2>1, <3>1 DEF Copy!Helper
    <3> QED
      BY <3>2 DEF Copy!Next
  <2> QED
    BY <2>2, <2>3
<1>18. CASE DaemonCreates \/ DaemonStarts
  <2>1. UNCHANGED <<live, touched, response, exit, runErr, cleanErr, main, code>>
    BY <1>18 DEF DaemonCreates, DaemonStarts
  <2>2. UNCHANGED HelperLeft
    BY <1>18 DEF DaemonCreates, DaemonStarts, HelperLeft
  <2> QED
    BY <2>1, <2>2 DEF Copy!vars, HelperLeft
<1> QED
  BY <1>1, <1>2, <1>3, <1>4, <1>5, <1>6, <1>7, <1>8, <1>9, <1>10, <1>11, <1>12,
     <1>13, <1>14, <1>15, <1>16, <1>17, <1>18
     DEF Next, Controller, Helpers, DockerRun, Daemon, Environment, Finished

\* A transfer keeps what SessionCopy promises its user, short of returning: a
\* result is reported only for a finished publication, the command succeeds only
\* with a result, without a failure and with no helper left, and once it returned
\* the destination is left alone unless a failed cleanup was reported.
THEOREM ImplementsCopySafety == Spec => Copy!Safety
<1>1. Init => Copy!Init
  BY DEF Init, Copy!Init, End
<1> QED
  BY <1>1, Invariance, NextCopy, PTL DEF Spec, Copy!Safety

=============================================================================
