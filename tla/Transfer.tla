------------------------------- MODULE Transfer -------------------------------
(***************************************************************************)
(* One session transfer: the controller (sessiontransport/transfer.go), the *)
(* disposable helper container (docker.go), the helper program that runs at *)
(* both ends (sessionhelper/helper.go, cmd/hcorral-session) and the framed  *)
(* stream between them (session/stream.go).                                *)
(*                                                                         *)
(* The source end exports members 1..Members (the manifest, the payloads,   *)
(* the completion record); the destination end receives, publishes and      *)
(* answers with one result.  One end runs in the launcher's process, the    *)
(* other in a container that the Docker daemon creates, starts, stops and   *)
(* removes on request.  Requests outlive the command-line client that sent  *)
(* them, and cancelling the client does not stop the container.             *)
(***************************************************************************)
EXTENDS Naturals

CONSTANTS
    Members,    \* members of the stream; the last one is the completion record
    Capacity,   \* members buffered between the two ends
    MaxFaults   \* bound on interrupts, lost replies, failed calls and drift

ASSUME ConstantsAssumption ==
    /\ Members \in Nat /\ Members >= 3
    /\ Capacity \in Nat /\ Capacity >= 1
    /\ MaxFaults \in Nat

End == {"src", "dst"}

VARIABLES
    op,          \* "export": container to host; "import": host to container
    source,      \* the conversation at the source end
    main,        \* control point of transfer
    ctx,         \* the transfer's context has been cancelled
    interrupted, \* the invocation's own context has been cancelled
    sent,        \* what the producer goroutine reported
    received,    \* what the consumer call returned
    hp,          \* phase of the helper program at each end
    exit,        \* its exit status
    written,     \* members the source end has produced
    pipe,        \* members that entered the stream towards the destination
    got,         \* members the destination has read and verified
    wclosed,     \* how the writing side of the pipe was closed
    rclosed,     \* the reading side of the pipe has been closed
    run,         \* control point of Docker.Run for the remote end
    runErr,      \* the error Docker.Run will return
    cleanErr,    \* the deferred cleanup failed
    box,         \* the helper container
    createReq,   \* a create request the daemon has not handled
    startReq,    \* a start request the daemon has not handled
    drift,       \* the workstation differs from the inspected target
    touched,     \* the destination home has been initialised
    live,        \* live history at the destination
    response,    \* the result object reached the controller
    code,        \* exit status of the session command
    faults

pipeVars == <<pipe, got, wclosed, rclosed, written>>
ctlVars == <<main, ctx, interrupted, sent, received, code>>
runVars == <<run, runErr, cleanErr, createReq, startReq, drift>>
boxVars == <<hp, exit, box>>
dstVars == <<touched, live, response>>
inputs == <<op, source>>

vars == <<inputs, ctlVars, boxVars, pipeVars, runVars, dstVars, faults>>

Remote(e) == (e = "src") = (op = "export")

\* The client's attach connection to the container is up.
Attached == run = "attached"

\* The helper program at this end is executing.
Alive(e) == hp[e] \notin {"off", "ended"} /\ (Remote(e) => box = "running")

Fault == faults < MaxFaults /\ faults' = faults + 1

\* A call made under ctx fails: the daemon's doing, or ctx has been cancelled.
CallFails == (ctx /\ UNCHANGED faults) \/ Fault

-----------------------------------------------------------------------------
\* transfer has checked its arguments and started the producer goroutine.
Init ==
    /\ op \in {"export", "import"}
    /\ source \in {"valid", "invalid", "rewritten"}
    /\ main = "peek"
    /\ ctx = FALSE
    /\ interrupted = FALSE
    /\ sent = "none"
    /\ received = "none"
    /\ hp = [e \in End |-> IF e = "src" /\ op = "import" THEN "snapshot" ELSE "off"]
    /\ exit = [e \in End |-> "none"]
    /\ written = 0
    /\ pipe = 0
    /\ got = 0
    /\ wclosed = "open"
    /\ rclosed = FALSE
    /\ run = IF op = "export" THEN "check" ELSE "off"
    /\ runErr = FALSE
    /\ cleanErr = FALSE
    /\ box = "none"
    /\ createReq = FALSE
    /\ startReq = FALSE
    /\ drift = FALSE
    /\ touched = FALSE
    /\ live = "untouched"
    /\ response = FALSE
    /\ code = 1
    /\ faults = 0

-----------------------------------------------------------------------------
(* transfer: the controller.                                               *)

\* Mutant of SourceReady: the destination starts without waiting for a byte.
SourceReadyAlways == ~rclosed

\* Peek(1) returned a byte.
SourceReady == pipe >= 1 /\ ~rclosed

\* The consumer is called: the local program, or Docker.Run for the remote one.
StartConsumer ==
    /\ main = "peek"
    /\ SourceReady
    /\ main' = "consume"
    /\ IF Remote("dst")
       THEN run' = "check" /\ UNCHANGED hp
       ELSE hp' = [hp EXCEPT !["dst"] = "init"] /\ UNCHANGED run
    /\ UNCHANGED <<inputs, ctx, interrupted, sent, received, code, exit, box,
                   pipeVars, runErr, cleanErr, createReq, startReq, drift,
                   dstVars, faults>>

\* Peek(1) failed: cancel the source and wait for it.
PeekFails ==
    /\ main = "peek"
    /\ rclosed \/ (wclosed # "open" /\ pipe = 0)
    /\ main' = "drain"
    /\ ctx' = TRUE
    /\ rclosed' = TRUE
    /\ received' = "err"
    /\ UNCHANGED <<inputs, interrupted, sent, code, boxVars, pipe, got, wclosed,
                   written, runVars, dstVars, faults>>

\* What an endpoint call returns once it has ended.
Returned(e) == IF Remote(e) THEN run = "done" ELSE hp[e] = "ended"
Failed(e) == IF Remote(e) THEN runErr \/ cleanErr ELSE exit[e] # "ok"

\* The producer goroutine closes the pipe with its error, then reports it.
\* A pipe closed earlier keeps its first error.
ProducerReturns ==
    /\ sent = "none"
    /\ Returned("src")
    /\ sent' = IF Failed("src") THEN "err" ELSE "ok"
    /\ wclosed' = IF wclosed # "open" THEN wclosed
                  ELSE IF Failed("src") THEN "error" ELSE "eof"
    /\ UNCHANGED <<inputs, main, ctx, interrupted, received, code, boxVars,
                   pipe, got, rclosed, written, runVars, dstVars, faults>>

\* Mutant of ReleaseProducer: a producer still writing is left alone.
ReleaseProducerNever(failed) == UNCHANGED <<rclosed, ctx>>

\* Close the reading side; after an error cancel the producer too.
ReleaseProducer(failed) == rclosed' = TRUE /\ ctx' = (ctx \/ failed)

ConsumerReturns ==
    /\ main = "consume"
    /\ Returned("dst")
    /\ received' = IF Failed("dst") THEN "err" ELSE "ok"
    /\ ReleaseProducer(Failed("dst"))
    /\ main' = "drain"
    /\ UNCHANGED <<inputs, interrupted, sent, code, boxVars, pipe, got, wclosed,
                   written, runVars, dstVars, faults>>

\* The AfterFunc of the cancelled context closes both sides of the pipe.
ClosePipes ==
    /\ ctx
    /\ ~rclosed \/ wclosed = "open"
    /\ rclosed' = TRUE
    /\ wclosed' = IF wclosed = "open" THEN "error" ELSE wclosed
    /\ UNCHANGED <<inputs, ctlVars, boxVars, pipe, got, written, runVars,
                   dstVars, faults>>

Confirmed == response
TransportFailed == sent = "err" \/ received = "err"

\* Mutant of ExitCode: the decoded result alone decides.
ExitCodeOfResult(printed) ==
    IF Confirmed THEN 0 ELSE IF interrupted THEN 130 ELSE 1

\* A result with an error is printed, and the command still fails.
ExitCode(printed) ==
    IF Confirmed /\ ~TransportFailed /\ printed THEN 0
    ELSE IF interrupted THEN 130 ELSE 1

\* Both ends have returned: decode the response and report it.
ReturnResult ==
    /\ main = "drain"
    /\ sent # "none"
    /\ main' = "returned"
    /\ \/ code' = ExitCode(TRUE) /\ UNCHANGED faults
       \/ code' = ExitCode(FALSE) /\ Fault
    /\ UNCHANGED <<inputs, ctx, interrupted, sent, received, boxVars, pipeVars,
                   runVars, dstVars>>

\* SIGINT or SIGTERM reaches the launcher.
Interrupt ==
    /\ main # "returned"
    /\ ~interrupted
    /\ Fault
    /\ interrupted' = TRUE
    /\ ctx' = TRUE
    /\ UNCHANGED <<inputs, main, sent, received, code, boxVars, pipeVars,
                   runVars, dstVars>>

-----------------------------------------------------------------------------
(* sessionhelper.Run and the stream, at both ends.                         *)

\* The program at end e exits; in the container that ends the container.
Ends(e, status) ==
    /\ hp' = [hp EXCEPT ![e] = "ended"]
    /\ exit' = [exit EXCEPT ![e] = status]
    /\ box' = IF Remote(e) THEN "exited" ELSE box

Phase(e, phase) == hp' = [hp EXCEPT ![e] = phase] /\ UNCHANGED <<exit, box>>

\* Export: the conversation is selected and captured before the first byte.
TakeSnapshot ==
    /\ Alive("src")
    /\ hp["src"] = "snapshot"
    /\ IF source = "invalid" THEN Ends("src", "err") ELSE Phase("src", "export")
    /\ UNCHANGED <<inputs, ctlVars, pipeVars, runVars, dstVars, faults>>

\* Mutant of ExportMember: one member too many.
ExportMemberPastEnd ==
    /\ Alive("src")
    /\ hp["src"] = "export"
    /\ written <= Members
    /\ written' = written + 1
    /\ ~rclosed /\ pipe - got < Capacity /\ pipe' = pipe + 1
    /\ UNCHANGED <<inputs, ctlVars, boxVars, got, wclosed, rclosed, runVars,
                   dstVars, faults>>

\* A member leaves the source.  A container that nobody is attached to writes
\* to its log; otherwise the write waits for room in the pipe.
ExportMember ==
    /\ Alive("src")
    /\ hp["src"] = "export"
    /\ written < Members
    /\ source = "rewritten" => written + 1 < Members
    /\ written' = written + 1
    /\ IF Remote("src") /\ ~Attached
       THEN UNCHANGED pipe
       ELSE ~rclosed /\ pipe - got < Capacity /\ pipe' = pipe + 1
    /\ UNCHANGED <<inputs, ctlVars, boxVars, got, wclosed, rclosed, runVars,
                   dstVars, faults>>

\* The captured prefix was rewritten, or the pipe is closed under the writer.
ExportFails ==
    /\ Alive("src")
    /\ hp["src"] = "export"
    /\ \/ source = "rewritten" /\ written = Members - 1
       \/ ~Remote("src") /\ (rclosed \/ wclosed # "open") /\ written < Members
    /\ Ends("src", "err")
    /\ UNCHANGED <<inputs, ctlVars, pipeVars, runVars, dstVars, faults>>

\* Every member is out; the snapshot and the homes close, perhaps with an error.
ExportEnds ==
    /\ Alive("src")
    /\ hp["src"] = "export"
    /\ written = Members
    /\ \/ Ends("src", "ok") /\ UNCHANGED faults
       \/ Ends("src", "err") /\ Fault
    /\ UNCHANGED <<inputs, ctlVars, pipeVars, runVars, dstVars>>

\* Import: the selected destination is created and both homes are opened.
OpenDestination ==
    /\ Alive("dst")
    /\ hp["dst"] = "init"
    /\ touched' = TRUE
    /\ Phase("dst", "receive")
    /\ UNCHANGED <<inputs, ctlVars, pipeVars, runVars, live, response, faults>>

\* The pipe still carries what was written: a local reader loses it when its
\* side is closed.
Readable == got < pipe /\ (Remote("dst") \/ ~rclosed)

\* A member arrives and verifies, or its checksum does not match.
ReceiveMember ==
    /\ Alive("dst")
    /\ hp["dst"] = "receive"
    /\ Readable
    /\ IF source = "rewritten" /\ got + 1 = Members - 1
       THEN Ends("dst", "err") /\ UNCHANGED got
       ELSE UNCHANGED boxVars /\ got' = got + 1
    /\ UNCHANGED <<inputs, ctlVars, pipe, wclosed, rclosed, written, runVars,
                   dstVars, faults>>

\* The reader at the destination finds the end of its input.  In the container
\* that is all it can see: the client closes stdin after an error as well, and
\* a broken attach connection cuts the input anywhere.
InputEnds ==
    IF Remote("dst")
    THEN ~Attached \/ (got = pipe /\ (wclosed # "open" \/ rclosed))
    ELSE rclosed \/ (got = pipe /\ wclosed # "open")

\* Mutant of InputComplete: any end of input will do.
InputCompleteAnyEnd == TRUE

\* EOF right after the completion record and the end blocks.
InputComplete ==
    /\ got = Members
    /\ ~Remote("dst") => wclosed = "eof" /\ ~rclosed

ReceiveEnds ==
    /\ Alive("dst")
    /\ hp["dst"] = "receive"
    /\ InputEnds
    /\ IF InputComplete THEN Phase("dst", "publish") ELSE Ends("dst", "err")
    /\ UNCHANGED <<inputs, ctlVars, pipeVars, runVars, dstVars, faults>>

\* Mutant of PublishFiles: the result is written before publication finished.
PublishFilesReports ==
    /\ Alive("dst")
    /\ hp["dst"] = "publish"
    /\ live = "untouched"
    /\ live' = "partial"
    /\ Phase("dst", "report")
    /\ UNCHANGED <<inputs, ctlVars, pipeVars, runVars, touched, response, faults>>

\* Publish links files one by one; the selection update finishes it.
PublishFiles ==
    /\ Alive("dst")
    /\ hp["dst"] = "publish"
    /\ live = "untouched"
    /\ live' = "partial"
    /\ UNCHANGED <<inputs, ctlVars, boxVars, pipeVars, runVars, touched,
                   response, faults>>

PublishDone ==
    /\ Alive("dst")
    /\ hp["dst"] = "publish"
    /\ live = "partial"
    /\ live' = "complete"
    /\ Phase("dst", "report")
    /\ UNCHANGED <<inputs, ctlVars, pipeVars, runVars, touched, response, faults>>

\* The result object is written; it is lost when nobody is attached.
ReportResult ==
    /\ Alive("dst")
    /\ hp["dst"] = "report"
    /\ response' = (~Remote("dst") \/ Attached)
    /\ Phase("dst", "closing")
    /\ UNCHANGED <<inputs, ctlVars, pipeVars, runVars, touched, live, faults>>

\* The stage and the homes close, perhaps with an error.
ImportEnds ==
    /\ Alive("dst")
    /\ hp["dst"] = "closing"
    /\ \/ Ends("dst", "ok") /\ UNCHANGED faults
       \/ Ends("dst", "err") /\ Fault
    /\ UNCHANGED <<inputs, ctlVars, pipeVars, runVars, dstVars>>

\* The destination refuses: busy writer, conflict, full disk, limits; also a
\* result that could not be written.
DestinationRefuses ==
    /\ Alive("dst")
    /\ hp["dst"] \in {"init", "receive", "publish", "report"}
    /\ Fault
    /\ touched' \in {touched, TRUE}
    /\ Ends("dst", "err")
    /\ UNCHANGED <<inputs, ctlVars, pipeVars, runVars, live, response>>

\* The source fails for a reason of its own.
SourceFails ==
    /\ Alive("src")
    /\ hp["src"] \in {"snapshot", "export"}
    /\ written < Members
    /\ Fault
    /\ Ends("src", "err")
    /\ UNCHANGED <<inputs, ctlVars, pipeVars, runVars, dstVars>>

\* The local end notices the cancelled context.
LocalCancelled(e) ==
    /\ ctx
    /\ ~Remote(e)
    /\ Alive(e)
    /\ hp[e] \in {"snapshot", "export", "init", "receive", "publish"}
    /\ Ends(e, "err")
    /\ UNCHANGED <<inputs, ctlVars, pipeVars, runVars, dstVars, faults>>

-----------------------------------------------------------------------------
(* Docker.Run: the disposable helper container.                            *)

RemoteEnd == IF op = "export" THEN "src" ELSE "dst"

\* First recheck and the image checks; nothing has been created yet, so there
\* is nothing to clean up.
FirstRecheck ==
    /\ run = "check"
    /\ \/ ~drift /\ run' = "create" /\ UNCHANGED <<runErr, faults>>
       \/ (IF drift THEN UNCHANGED faults ELSE CallFails)
          /\ run' = "done" /\ runErr' = TRUE
    /\ UNCHANGED <<inputs, ctlVars, boxVars, pipeVars, cleanErr, createReq,
                   startReq, drift, dstVars>>

\* The deferred cleanup is armed and the create request is on its way.
CreateHelper ==
    /\ run = "create"
    /\ createReq' = TRUE
    /\ run' = "creating"
    /\ UNCHANGED <<inputs, ctlVars, boxVars, pipeVars, runErr, cleanErr,
                   startReq, drift, dstVars, faults>>

\* The daemon handles the request, whether or not the client still waits.
DaemonCreates ==
    /\ createReq
    /\ createReq' = FALSE
    /\ box' = "created"
    /\ UNCHANGED <<inputs, ctlVars, hp, exit, pipeVars, run, runErr, cleanErr,
                   startReq, drift, dstVars, faults>>

\* The reply names the container, and its label carries our token.
CreateReplied ==
    /\ run = "creating"
    /\ box = "created"
    /\ run' = "copy"
    /\ UNCHANGED <<inputs, ctlVars, boxVars, pipeVars, runErr, cleanErr,
                   createReq, startReq, drift, dstVars, faults>>

\* An image volume in the way, a timeout, a lost reply, a refusal, a failed
\* verification or copy.
PrepareFails ==
    /\ run \in {"create", "creating", "copy"}
    /\ CallFails
    /\ run' = "cleanup"
    /\ runErr' = TRUE
    /\ UNCHANGED <<inputs, ctlVars, boxVars, pipeVars, cleanErr, createReq,
                   startReq, drift, dstVars>>

CopyHelper ==
    /\ run = "copy"
    /\ run' = "recheck"
    /\ UNCHANGED <<inputs, ctlVars, boxVars, pipeVars, runErr, cleanErr,
                   createReq, startReq, drift, dstVars, faults>>

\* Second recheck, then docker start --attach.
SecondRecheck ==
    /\ run = "recheck"
    /\ \/ ~drift /\ run' = "attached" /\ startReq' = TRUE
          /\ UNCHANGED <<runErr, faults>>
       \/ (IF drift THEN UNCHANGED faults ELSE CallFails)
          /\ run' = "cleanup" /\ runErr' = TRUE /\ UNCHANGED startReq
    /\ UNCHANGED <<inputs, ctlVars, boxVars, pipeVars, cleanErr, createReq,
                   drift, dstVars>>

\* The daemon starts the helper, unless it has been removed.
DaemonStarts ==
    /\ startReq
    /\ startReq' = FALSE
    /\ IF box = "created"
       THEN /\ box' = "running"
            /\ hp' = [hp EXCEPT ![RemoteEnd] =
                        IF op = "export" THEN "snapshot" ELSE "init"]
       ELSE UNCHANGED <<box, hp>>
    /\ UNCHANGED <<inputs, ctlVars, exit, pipeVars, run, runErr, cleanErr,
                   createReq, drift, dstVars, faults>>

\* The copying goroutines of the client command saw the pipe fail.
CopyFailed ==
    IF op = "export" THEN rclosed /\ pipe < written ELSE wclosed = "error"

\* The client returns the container's status or its own copy error.  For a
\* remote source all its output has been read from the pipe by then.
AttachEnds ==
    /\ run = "attached"
    /\ box = "exited"
    /\ op = "export" => got = pipe \/ rclosed
    /\ IF exit[RemoteEnd] = "ok" /\ ~CopyFailed
       THEN run' = "verify" /\ UNCHANGED runErr
       ELSE run' = "cleanup" /\ runErr' = TRUE
    /\ UNCHANGED <<inputs, ctlVars, boxVars, pipeVars, cleanErr, createReq,
                   startReq, drift, dstVars, faults>>

\* The connection breaks, the cancelled context kills the client, or nobody
\* reads what the client writes.
AttachBreaks ==
    /\ run = "attached"
    /\ (op = "export" /\ rclosed /\ UNCHANGED faults) \/ CallFails
    /\ run' = "cleanup"
    /\ runErr' = TRUE
    /\ UNCHANGED <<inputs, ctlVars, boxVars, pipeVars, cleanErr, createReq,
                   startReq, drift, dstVars>>

\* The final inspection finds the helper exited with status 0.
VerifyExit ==
    /\ run = "verify"
    /\ \/ UNCHANGED <<runErr, faults>>
       \/ CallFails /\ runErr' = TRUE
    /\ run' = "cleanup"
    /\ UNCHANGED <<inputs, ctlVars, boxVars, pipeVars, cleanErr, createReq,
                   startReq, drift, dstVars>>

\* cleanup looks the helper up by name and token, under a context of its own.
CleanupNext ==
    CASE box = "none" -> "done" [] box = "running" -> "stop" [] OTHER -> "rm"

CleanupInspect ==
    /\ run = "cleanup"
    /\ run' = CleanupNext
    /\ UNCHANGED <<inputs, ctlVars, boxVars, pipeVars, runErr, cleanErr,
                   createReq, startReq, drift, dstVars, faults>>

\* docker stop: SIGTERM, two seconds, SIGKILL.
CleanupStop ==
    /\ run = "stop"
    /\ IF box = "running" THEN Ends(RemoteEnd, "err") ELSE UNCHANGED boxVars
    /\ run' = "rm"
    /\ UNCHANGED <<inputs, ctlVars, pipeVars, runErr, cleanErr, createReq,
                   startReq, drift, dstVars, faults>>

\* Mutant of RemovalRefused: the status of docker rm is ignored.
RemovalRefusedNever == FALSE

\* docker rm without --force refuses a helper that a late request started.
RemovalRefused == box = "running"

CleanupRemove ==
    /\ run = "rm"
    /\ IF box = "running" THEN UNCHANGED box ELSE box' = "none"
    /\ cleanErr' = RemovalRefused
    /\ run' = "done"
    /\ UNCHANGED <<inputs, ctlVars, hp, exit, pipeVars, runErr, createReq,
                   startReq, drift, dstVars, faults>>

\* A cleanup call fails or times out: the error is reported, the helper stays.
CleanupFails ==
    /\ run \in {"cleanup", "stop", "rm"}
    /\ Fault
    /\ cleanErr' = TRUE
    /\ run' = "done"
    /\ UNCHANGED <<inputs, ctlVars, boxVars, pipeVars, runErr, createReq,
                   startReq, drift, dstVars>>

\* Somebody recreates the workstation or changes its mounts.
WorkstationChanges ==
    /\ main # "returned"
    /\ ~drift
    /\ Fault
    /\ drift' = TRUE
    /\ UNCHANGED <<inputs, ctlVars, boxVars, pipeVars, run, runErr, cleanErr,
                   createReq, startReq, dstVars>>

Finished == main = "returned" /\ UNCHANGED vars

-----------------------------------------------------------------------------
Controller ==
    \/ StartConsumer \/ PeekFails \/ ProducerReturns \/ ConsumerReturns
    \/ ClosePipes \/ ReturnResult

Helpers ==
    \/ TakeSnapshot \/ ExportMember \/ ExportFails \/ ExportEnds
    \/ OpenDestination \/ ReceiveMember \/ ReceiveEnds
    \/ PublishFiles \/ PublishDone \/ ReportResult \/ ImportEnds
    \/ \E e \in End : LocalCancelled(e)

DockerRun ==
    \/ FirstRecheck \/ CreateHelper \/ CreateReplied \/ PrepareFails
    \/ CopyHelper \/ SecondRecheck \/ AttachEnds \/ AttachBreaks \/ VerifyExit
    \/ CleanupInspect \/ CleanupStop \/ CleanupRemove

Daemon == DaemonCreates \/ DaemonStarts

Environment ==
    \/ Interrupt \/ DestinationRefuses \/ SourceFails \/ CleanupFails
    \/ WorkstationChanges

Next == Controller \/ Helpers \/ DockerRun \/ Daemon \/ Environment \/ Finished

Spec == Init /\ [][Next]_vars

\* The controller, the client commands and the daemon keep going, and so does
\* each helper program while it runs.
FairSpec ==
    /\ Spec
    /\ WF_vars(Controller)
    /\ WF_vars(DockerRun)
    /\ WF_vars(Daemon)
    /\ WF_vars(ExportMember \/ TakeSnapshot \/ ExportFails \/ ExportEnds
                 \/ LocalCancelled("src"))
    /\ WF_vars(OpenDestination \/ ReceiveMember \/ ReceiveEnds \/ PublishFiles
                 \/ PublishDone \/ ReportResult \/ ImportEnds
                 \/ LocalCancelled("dst"))

-----------------------------------------------------------------------------
\* The variables keep their types.
TypeOK ==
    /\ op \in {"export", "import"}
    /\ source \in {"valid", "invalid", "rewritten"}
    /\ main \in {"peek", "consume", "drain", "returned"}
    /\ ctx \in BOOLEAN /\ interrupted \in BOOLEAN /\ rclosed \in BOOLEAN
    /\ runErr \in BOOLEAN /\ cleanErr \in BOOLEAN /\ drift \in BOOLEAN
    /\ createReq \in BOOLEAN /\ startReq \in BOOLEAN
    /\ touched \in BOOLEAN /\ response \in BOOLEAN
    /\ sent \in {"none", "ok", "err"} /\ received \in {"none", "ok", "err"}
    /\ hp \in [End -> {"off", "snapshot", "export", "init", "receive",
                       "publish", "report", "closing", "ended"}]
    /\ exit \in [End -> {"none", "ok", "err"}]
    /\ written \in 0..Members /\ pipe \in 0..Members /\ got \in 0..Members
    /\ wclosed \in {"open", "eof", "error"}
    /\ run \in {"off", "check", "create", "creating", "copy", "recheck",
                "attached", "verify", "cleanup", "stop", "rm", "done"}
    /\ box \in {"none", "created", "running", "exited"}
    /\ live \in {"untouched", "partial", "complete"}
    /\ code \in {0, 1, 130}
    /\ faults \in 0..MaxFaults

\* Live history at the destination is touched only after every member of the
\* stream, the completion record included, arrived and verified: a source that
\* failed, was rewritten or was cut off never reaches publication (Receive).
CompleteStreamOnly == live # "untouched" => got = Members /\ source = "valid"

\* A conversation that is absent or invalid at the source initialises no
\* destination and starts no destination helper (the Peek in transfer).
InvalidSourceTouchesNothing ==
    source = "invalid" => ~touched /\ (op = "import" => box = "none" /\ ~createReq)

\* The command as its user sees it.  A helper that outlives the command is
\* announced by the error of the cleanup.
Copy == INSTANCE SessionCopy WITH
    dest <- IF live # "untouched" THEN live
            ELSE IF touched THEN "initialised" ELSE "untouched",
    reported <- response,
    failed <- "err" \in {exit["src"], exit["dst"]} \/ runErr \/ cleanErr,
    helper <- createReq \/ box # "none",
    outcome <- IF main # "returned" THEN "running"
               ELSE IF code = 0 THEN "ok"
               ELSE IF cleanErr THEN "unclean" ELSE "failed"

\* A transfer implements SessionCopy: no result is reported for a publication
\* that did not finish; the command succeeds only if both ends did and the helper
\* is gone; cancellation stops the remote helper before the command returns, even
\* one that a late start request woke up; and every transfer returns, for no end
\* waits forever on a pipe that the other end abandoned (transfer and cleanup).
ImplementsCopy == Copy!Spec

\* A create reply that was lost leaves no helper behind once the command
\* returned without reporting a failed cleanup.
UncertainCreateHandled ==
    main = "returned" /\ ~cleanErr => box = "none"
=============================================================================
