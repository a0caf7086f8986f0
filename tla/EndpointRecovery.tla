-------------------------- MODULE EndpointRecovery --------------------------
(***************************************************************************)
(* An endpoint whose surroundings become calm: from some moment on no       *)
(* allocation and no IO that is let through fails, the route stays, nobody  *)
(* stops the program, and the sending thread keeps up with the clock.  What *)
(* came before - drops, failures, back-off, half-finished work - is what    *)
(* the endpoint has to recover from.                                        *)
(***************************************************************************)
EXTENDS PublisherEndpoint, FiniteSets

VARIABLE calm

recoveryVars == <<vars, calm>>

RecoveryInit == EndpointInit /\ calm = FALSE

Calm ==
    /\ ~calm /\ calm' = TRUE
    /\ frames + Cardinality(discarding \cap {"video"}) < MaxFrames /\ ~stopping
    /\ routeReady /\ routePc = "idle"
    /\ UNCHANGED vars

\* The sending thread is idle, its back-off over, and no reset() under way.
Quiet ==
    /\ sleeping /\ retry = 0 /\ discarding = {}
    /\ ready => networkGeneration = routeGen

\* The encoder never ceases to deliver key frames, so one of them finds the
\* endpoint quiet.  Frames being bounded, it is the last.
CalmVideo ==
    \E kind \in VideoKinds, size \in Sizes :
        /\ \/ frames < MaxFrames - 1
           \/ kind = "keySets" /\ Quiet
           \/ kind = "key" /\ extra /\ Quiet
        /\ EnqueueVideo(kind, size)
        /\ discarding' = discarding                    \* push() does not throw

CalmSender ==
    \/ TakePacket \/ WaitForPacket \/ SkipCancelled
    \/ Synchronize /\ pc' = "route"                    \* nor does copying
    \/ ReadGeneration \/ ReadReady \/ Open \/ WriteHeader \/ WritePacket
    \/ Interrupted /\ (OpenFails \/ WriteFails)
    \/ ResetAfterFailure

CalmDiscard == \E thread \in discarding : FinishDiscard(thread)
CalmTime == items = <<>> /\ Time

CalmNext == CalmVideo \/ CalmSender \/ CalmDiscard \/ CalmTime

RecoveryNext ==
    \/ Calm
    \/ ~calm /\ EndpointNext /\ UNCHANGED calm
    \/ calm /\ CalmNext /\ UNCHANGED calm

(***************************************************************************)
(* The threads run and the clock advances once it is calm.                  *)
(***************************************************************************)
RecoverySpec ==
    /\ RecoveryInit /\ [][RecoveryNext]_recoveryVars
    /\ WF_recoveryVars(calm /\ CalmVideo /\ UNCHANGED calm)
    /\ WF_recoveryVars(calm /\ CalmSender /\ UNCHANGED calm)
    /\ WF_recoveryVars(calm /\ CalmDiscard /\ UNCHANGED calm)
    /\ WF_recoveryVars(calm /\ CalmTime /\ UNCHANGED calm)

(***************************************************************************)
(* Once it is calm the endpoint publishes again, whatever it had been       *)
(* through: the key frame that finds it quiet reaches the receiver by a     *)
(* connection that is not cancelled.  No epoch, generation, back-off or     *)
(* parameter set that a failure left behind locks it out for ever           *)
(* (ffmpeg_publisher.cpp:250).                                              *)
(***************************************************************************)
PublishesAgain == calm ~> Live /\ muxed = MaxFrames
=============================================================================
