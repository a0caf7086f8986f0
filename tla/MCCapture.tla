------------------------------- MODULE MCCapture -------------------------------
(***************************************************************************)
(* Model checking of Capture and of PublisherQueue on its own.  They share   *)
(* no variable, so a behaviour is one of one part, while the other stays in  *)
(* an initial state; what is fair is fair in its part.                      *)
(***************************************************************************)
EXTENDS Capture, PublisherQueue

VARIABLE part

captureQueueVars == <<part, captureVars, queueVars>>

TwoEncoders == {"venc", "aenc"}

\* A packet that fills the queue on its own, one that exceeds it, and small ones
\* that overflow the number of packets before the number of bytes.
PacketSizes == {1, 4, 5}

CaptureQueueInit ==
    /\ part \in {"capture", "queue"}
    /\ IF part = "capture" THEN CaptureInit ELSE CaptureInitWith("down")
    /\ Init

\* The program may stop once it is down; nothing else may come to a stop.
Ended == main = "down" /\ UNCHANGED captureVars

CaptureQueueNext ==
    /\ IF part = "capture" THEN CaptureNext \/ Ended ELSE UNCHANGED captureVars
    /\ IF part = "queue" THEN Next ELSE UNCHANGED queueVars
    /\ UNCHANGED part

\* CaptureFairness in its part, that of Spec in the part of the queue.
CaptureQueueSpec ==
    /\ CaptureQueueInit /\ [][CaptureQueueNext]_captureQueueVars
    /\ WF_captureVars(part = "capture" /\ Elapse) /\ WF_captureVars(part = "capture" /\ LeaveLoop)
    /\ WF_captureVars(part = "capture" /\ Join)
    /\ WF_captureVars(part = "capture" /\ input # "get" /\ Input)
    /\ WF_captureVars(part = "capture" /\ ~running /\ Input)
    /\ WF_captureVars(part = "capture" /\ Overlay) /\ WF_captureVars(part = "capture" /\ GrowOld)
    /\ WF_captureVars(part = "capture" /\ (MeasureList \/ DropResult))
    /\ WF_queueVars(part = "queue" /\ (PopTake \/ PopWait))
=============================================================================
