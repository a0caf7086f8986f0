------------------------- MODULE PublisherEndpoint -------------------------
(***************************************************************************)
(* One output URL, from the capture threads to FFmpeg                       *)
(* (src/publisher/ffmpeg_publisher.cpp).  Five kinds of thread meet here:   *)
(*                                                                         *)
(*   - the video capture thread of the channel and the audio capture        *)
(*     thread, in PublisherManager::enqueue_video and enqueue_audio;        *)
(*   - the sending thread, in PublisherEndpoint::send_loop, which alone     *)
(*     touches the FfmpegConnection;                                        *)
(*   - the route thread (RouteSignal);                                      *)
(*   - the main thread, which interrupts and then destroys the endpoint.    *)
(*                                                                         *)
(* The sending thread takes one step per access to what it shares with the  *)
(* others: a flag, an atomic, the queue lock, or one blocking IO call.      *)
(* What it does between two accesses is local and belongs to the step.      *)
(***************************************************************************)
EXTENDS PublisherQueue, RouteSignal

CONSTANTS VideoKinds,    \* the frames the encoder produces: "inter", "key",
                         \* "keySets" (a key frame with parameter sets)
          Backoff,       \* retry_after_, in ticks (3 seconds)
          MaxGeneration  \* bound: generation above which no allocation of
                         \* the audio thread fails

ASSUME EndpointAssumption ==
    /\ VideoKinds \subseteq {"inter", "key", "keySets"}
    /\ Backoff \in Nat
    /\ MaxGeneration \in Nat

VARIABLES
    extra,              \* extra_[id]: the manager holds parameter sets
    discarding,         \* capture threads between a throwing push and reset()
    stopping,           \* g_stopping
    pc,                 \* where the sending thread is
    ready,              \* ready_: the muxer has its header (context_ is set)
    queueEpoch,         \* queue_epoch_
    networkGeneration,  \* network_generation_
    codecExtra,         \* codec_extra_ is not empty
    origin,             \* origin_us_
    retry,              \* ticks until retry_after_
    muxed,              \* history: last frame given to this muxer, or 0
    muxedKey,           \* history: whether it was a key frame
    connPath,           \* history: the path this connection was made on
    setsFrame           \* history: frame that first filled extra_, or 0

connVars    == <<ready, muxed, muxedKey>>
managerVars == <<extra, discarding, setsFrame>>
senderVars  == <<pc, ready, queueEpoch, networkGeneration, codecExtra,
                 origin, retry, muxed, muxedKey, connPath>>
vars == <<queueVars, routeVars, managerVars, senderVars, stopping>>

EndpointInit ==
    /\ Init /\ RouteInit
    /\ extra = FALSE /\ discarding = {} /\ setsFrame = 0 /\ stopping = FALSE
    /\ pc = "pop" /\ ready = FALSE /\ queueEpoch = 0 /\ networkGeneration = 0
    /\ codecExtra = FALSE /\ origin = 0 /\ retry = 0
    /\ muxed = 0 /\ muxedKey = FALSE /\ connPath = path

(***************************************************************************)
(* interrupt(): FFmpeg polls it before and during every blocking call.  The *)
(* deadline is left out: IO may fail at any moment, see OpenFails.          *)
(***************************************************************************)
Interrupted ==
    \/ stopping
    \/ Cancelled(queueEpoch)
    \/ ~routeReady
    \/ routeGen # networkGeneration

-----------------------------------------------------------------------------
(* The capture threads: PublisherManager and PublisherEndpoint::enqueue.    *)

\* discard_channel(), or the catch clause of enqueue(): the frame is lost.
DropGop == Reset /\ UNCHANGED popVars

\* A complete set in a key frame is cached before anything can be dropped.
CacheSets(sets) ==
    /\ extra' = (extra \/ sets)
    /\ setsFrame' = IF sets /\ ~extra THEN frames + 1 ELSE setsFrame

\* g_stopping may be set between the test of it and the push: no guard here.
EnqueueVideo(kind, size) ==
    LET sets == kind = "keySets"
        p == VideoPacket(kind # "inter", sets, extra \/ sets, size)
    IN  /\ frames < MaxFrames /\ ~stopped /\ "video" \notin discarding
        /\ size <= MaxBytes
        /\ CacheSets(sets)
        /\ \/ Push(p) /\ UNCHANGED discarding
           \/ PushThrows(p) /\ discarding' = discarding \cup {"video"}
        /\ UNCHANGED <<routeVars, senderVars, stopping>>

(***************************************************************************)
(* enqueue_video() gives up before the queue is reached: the arguments are  *)
(* invalid or the program is stopping (nothing is cached), or copying the   *)
(* frame throws (its parameter sets may have been cached already).          *)
(***************************************************************************)
RejectVideo(kind) ==
    /\ frames < MaxFrames /\ ~stopped /\ "video" \notin discarding
    /\ \/ UNCHANGED <<extra, setsFrame>>
       \/ CacheSets(kind = "keySets")
    /\ DropGop /\ frames' = frames + 1
    /\ UNCHANGED <<discarding, routeVars, senderVars, stopping>>

EnqueueAudio(lag, size) ==
    /\ lag <= frames /\ ~stopped /\ "audio" \notin discarding
    /\ size <= MaxBytes
    /\ LET p == AudioPacket(lag, size)
       IN  \/ Push(p) /\ UNCHANGED discarding
           \/ /\ generation < MaxGeneration
              /\ PushThrows(p) /\ discarding' = discarding \cup {"audio"}
    /\ UNCHANGED <<extra, setsFrame, routeVars, senderVars, stopping>>

\* Copying the audio throws: the whole channel is discarded.
RejectAudio ==
    /\ ~stopped /\ "audio" \notin discarding /\ generation < MaxGeneration
    /\ DropGop /\ UNCHANGED frames
    /\ UNCHANGED <<managerVars, routeVars, senderVars, stopping>>

\* The reset() of a capture thread whose push threw.
FinishDiscard(thread) ==
    /\ thread \in discarding
    /\ discarding' = discarding \ {thread}
    /\ DropGop
    /\ frames' = IF thread = "video" THEN frames + 1 ELSE frames
    /\ UNCHANGED <<extra, setsFrame, routeVars, senderVars, stopping>>

-----------------------------------------------------------------------------
(* The main thread.                                                         *)

\* ffmpeg_publisher_interrupt()
Interrupt ==
    /\ ~stopping /\ stopping' = TRUE
    /\ UNCHANGED <<queueVars, routeVars, managerVars, senderVars>>

\* ~PublisherEndpoint(), after the capture threads have been joined.
StopQueue ==
    /\ stopping /\ ~stopped /\ discarding = {}
    /\ Stop
    /\ UNCHANGED <<routeVars, managerVars, senderVars, stopping>>

\* close(): the connection and its streams are gone.
Close == ready' = FALSE /\ muxed' = 0 /\ muxedKey' = FALSE

\* join() returned; ~FfmpegConnection() closes what is left.
Destroy ==
    /\ pc = "done" /\ pc' = "gone"
    /\ Close
    /\ UNCHANGED <<queueEpoch, networkGeneration, codecExtra, origin, retry,
                   connPath, queueVars, routeVars, managerVars, stopping>>

-----------------------------------------------------------------------------
(* The sending thread: send_loop() and FfmpegConnection.                    *)

\* queue_.pop(packet, epoch)
TakePacket ==
    /\ pc = "pop" /\ PopTake /\ pc' = "check"
    /\ UNCHANGED <<connVars, queueEpoch, networkGeneration, codecExtra, origin,
                   retry, connPath, routeVars, managerVars, stopping>>

WaitForPacket ==
    /\ pc = "pop" /\ PopWait
    /\ UNCHANGED <<routeVars, managerVars, senderVars, stopping>>

LeaveLoop ==
    /\ pc = "pop" /\ ~sleeping /\ stopped /\ pc' = "done"
    /\ UNCHANGED <<connVars, queueEpoch, networkGeneration, codecExtra, origin,
                   retry, connPath, queueVars, routeVars, managerVars, stopping>>

\* `continue': the loop goes back to pop() past the line that frees the packet.
SkipCancelled ==
    /\ pc = "check" /\ (stopping \/ Cancelled(epoch))
    /\ pc' = "pop"
    /\ UNCHANGED <<connVars, queueEpoch, networkGeneration, codecExtra, origin,
                   retry, connPath, queueVars, routeVars, managerVars, stopping>>

\* Mutant: the manager's copy of the parameter sets is not used.
SynchronizeWithoutExtra ==
    /\ pc = "check" /\ ~stopping /\ ~Cancelled(epoch)
    /\ IF queueEpoch # epoch THEN Close ELSE UNCHANGED connVars
    /\ queueEpoch' = epoch /\ pc' = "route"
    /\ codecExtra' = (codecExtra \/ packet.sets)
    /\ UNCHANGED <<networkGeneration, origin, retry, connPath,
                   queueVars, routeVars, managerVars, stopping>>

\* Mutant: the connection keeps the epoch it was made for.
SynchronizeKeepsEpoch ==
    /\ pc = "check" /\ ~stopping /\ ~Cancelled(epoch)
    /\ IF queueEpoch # epoch THEN Close ELSE UNCHANGED connVars
    /\ codecExtra' = (codecExtra \/ packet.extra \/ packet.sets) /\ pc' = "route"
    /\ UNCHANGED <<queueEpoch, networkGeneration, origin, retry, connPath,
                   queueVars, routeVars, managerVars, stopping>>

(***************************************************************************)
(* The packet is still wanted.  synchronize_queue_epoch() drops the         *)
(* connection of an older GOP; parameter sets come from the manager's copy  *)
(* and from the key frame itself.  Copying them may throw.                  *)
(***************************************************************************)
Synchronize ==
    /\ pc = "check" /\ ~stopping /\ ~Cancelled(epoch)
    /\ IF queueEpoch # epoch THEN Close ELSE UNCHANGED connVars
    /\ queueEpoch' = epoch
    /\ \/ pc' = "route" /\ codecExtra' = (codecExtra \/ packet.extra \/ packet.sets)
       \/ pc' = "reset" /\ codecExtra' \in {codecExtra, codecExtra \/ packet.extra}
    /\ UNCHANGED <<networkGeneration, origin, retry, connPath,
                   queueVars, routeVars, managerVars, stopping>>

\* The call returns 0 or more: the packet is done with and freed.
FinishPacket ==
    /\ pc' = "pop" /\ packet' = NoPacket
    /\ UNCHANGED <<items, bytes, waitingKey, stopped, generation, sleeping,
                   epoch, popped, frames>>

\* synchronize_network_route() finds the program stopping.
SkipStopping ==
    /\ pc = "route" /\ stopping
    /\ FinishPacket
    /\ UNCHANGED <<connVars, queueEpoch, networkGeneration, codecExtra, origin,
                   retry, connPath, routeVars, managerVars, stopping>>

\* Mutant: the connection survives the change of route.
ReadGenerationOnly ==
    /\ pc = "route" /\ pc' = "ready"
    /\ networkGeneration' = routeGen
    /\ UNCHANGED <<connVars, retry, queueEpoch, codecExtra, origin, connPath,
                   queueVars, routeVars, managerVars, stopping>>

(***************************************************************************)
(* synchronize_network_route() reads generation(): a connection made on     *)
(* another path is closed, and its successor has to wait.  g_stopping was   *)
(* read just before, so it may have been set since.                         *)
(***************************************************************************)
ReadGeneration ==
    /\ pc = "route" /\ pc' = "ready"
    /\ networkGeneration' = routeGen
    /\ IF networkGeneration # routeGen
       THEN Close /\ retry' = IF ready THEN Backoff ELSE retry
       ELSE UNCHANGED <<connVars, retry>>
    /\ UNCHANGED <<queueEpoch, codecExtra, origin, connPath,
                   queueVars, routeVars, managerVars, stopping>>

\* Mutant: audio captured before the first key frame passes.
WritableUnchecked == ready
\* ... and then ready(), which decides what becomes of the packet.
Writable == ready /\ (packet.video \/ packet.pts >= origin)
MayOpen  == ~ready /\ packet.video /\ packet.key /\ codecExtra /\ retry = 0

ReadReady ==
    /\ pc = "ready"
    /\ \/ routeReady /\ Writable /\ pc' = "write" /\ UNCHANGED queueVars
       \/ routeReady /\ MayOpen  /\ pc' = "open"  /\ UNCHANGED queueVars
       \/ ~(routeReady /\ (Writable \/ MayOpen)) /\ FinishPacket
    /\ UNCHANGED <<connVars, queueEpoch, networkGeneration, codecExtra, origin,
                   retry, connPath, routeVars, managerVars, stopping>>

\* open() up to the connection: the socket takes the path of this moment.
Open ==
    /\ pc = "open" /\ ~Interrupted /\ pc' = "header"
    /\ connPath' = path
    /\ UNCHANGED <<connVars, queueEpoch, networkGeneration, codecExtra, origin,
                   retry, queueVars, routeVars, managerVars, stopping>>

\* avformat_write_header() succeeds; the key frame sets the time origin.
WriteHeader ==
    /\ pc = "header" /\ pc' = "write"
    /\ ready' = TRUE /\ muxed' = 0 /\ muxedKey' = FALSE
    /\ origin' = packet.pts
    /\ UNCHANGED <<queueEpoch, networkGeneration, codecExtra, retry, connPath,
                   queueVars, routeVars, managerVars, stopping>>

\* Mutant: another attempt at once, with the same packet.
OpenFailsAndRetries ==
    /\ pc \in {"open", "header"} /\ pc' = "open"
    /\ Close /\ retry' = Backoff
    /\ UNCHANGED <<queueEpoch, networkGeneration, codecExtra, origin, connPath,
                   queueVars, routeVars, managerVars, stopping>>

\* Refused, interrupted, past its deadline or out of memory: back off.
OpenFails ==
    /\ pc \in {"open", "header"} /\ pc' = "reset"
    /\ Close /\ retry' = Backoff
    /\ UNCHANGED <<queueEpoch, networkGeneration, codecExtra, origin, connPath,
                   queueVars, routeVars, managerVars, stopping>>

(***************************************************************************)
(* av_interleaved_write_frame() accepts the packet.  It may only have been  *)
(* buffered: this does not imply that IO was possible.                      *)
(***************************************************************************)
WritePacket ==
    /\ pc = "write" /\ FinishPacket
    /\ IF packet.video
       THEN muxed' = packet.frame /\ muxedKey' = packet.key
       ELSE UNCHANGED <<muxed, muxedKey>>
    /\ UNCHANGED <<ready, queueEpoch, networkGeneration, codecExtra, origin,
                   retry, connPath, routeVars, managerVars, stopping>>

\* av_new_packet() fails: the packet is lost, the connection stays.
AllocationFails ==
    /\ pc = "write" /\ pc' = "reset"
    /\ UNCHANGED <<connVars, queueEpoch, networkGeneration, codecExtra, origin,
                   retry, connPath, queueVars, routeVars, managerVars, stopping>>

WriteFails ==
    /\ pc = "write" /\ pc' = "reset"
    /\ Close /\ retry' = Backoff
    /\ UNCHANGED <<queueEpoch, networkGeneration, codecExtra, origin, connPath,
                   queueVars, routeVars, managerVars, stopping>>

\* A negative result or an exception: queue_.reset(), and the packet is freed.
ResetAfterFailure ==
    /\ pc = "reset" /\ pc' = "pop"
    /\ Reset /\ packet' = NoPacket
    /\ UNCHANGED <<epoch, popped, frames, connVars, queueEpoch,
                   networkGeneration, codecExtra, origin, retry, connPath,
                   routeVars, managerVars, stopping>>

Sender ==
    \/ TakePacket \/ WaitForPacket \/ LeaveLoop \/ SkipCancelled
    \/ Synchronize \/ SkipStopping \/ ReadGeneration \/ ReadReady
    \/ Open \/ WriteHeader \/ OpenFails
    \/ WritePacket \/ AllocationFails \/ WriteFails \/ ResetAfterFailure

-----------------------------------------------------------------------------

Time ==
    /\ Tick
    /\ retry' = IF retry = 0 THEN 0 ELSE retry - 1
    /\ UNCHANGED <<pc, connVars, queueEpoch, networkGeneration, codecExtra,
                   origin, connPath, routeVars, managerVars, stopping>>

Route ==
    /\ RouteNext
    /\ UNCHANGED <<queueVars, managerVars, senderVars, stopping>>

Capture ==
    \/ \E kind \in VideoKinds, size \in Sizes : EnqueueVideo(kind, size)
    \/ \E kind \in VideoKinds : RejectVideo(kind)
    \/ \E lag \in Lags, size \in Sizes : EnqueueAudio(lag, size)
    \/ RejectAudio
    \/ \E thread \in discarding : FinishDiscard(thread)

EndpointNext ==
    Capture \/ Interrupt \/ StopQueue \/ Destroy \/ Sender \/ Time \/ Route

(***************************************************************************)
(* Fairness.  The sending thread is scheduled, and no IO call of it blocks  *)
(* for ever: interrupt() fails it at the deadline at the latest.  A capture *)
(* thread that caught an exception goes on to reset().  The main thread     *)
(* goes on from the interrupt to the destructor.  Nothing is assumed of the *)
(* encoder, the network, the route thread or the clock.                     *)
(***************************************************************************)
Fairness ==
    /\ WF_vars(Sender)
    /\ WF_vars(\E thread \in discarding : FinishDiscard(thread))
    /\ WF_vars(StopQueue) /\ WF_vars(Destroy)

EndpointSpec == EndpointInit /\ [][EndpointNext]_vars /\ Fairness

-----------------------------------------------------------------------------
EndpointTypeOK ==
    /\ TypeOK /\ RouteTypeOK
    /\ extra \in BOOLEAN /\ discarding \subseteq {"video", "audio"}
    /\ setsFrame \in Nat /\ stopping \in BOOLEAN
    /\ pc \in {"pop", "check", "route", "ready", "open", "header", "write",
               "reset", "done", "gone"}
    /\ ready \in BOOLEAN /\ muxed \in Nat /\ muxedKey \in BOOLEAN
    /\ queueEpoch \in Nat /\ networkGeneration \in Nat
    /\ codecExtra \in BOOLEAN /\ origin \in Nat /\ retry \in 0..Backoff
    /\ connPath \in Paths

(***************************************************************************)
(* A connection whose IO has been cancelled stays cancelled until it is     *)
(* closed, whichever of the flags and counters interrupt() reads move on in *)
(* the meantime: readiness withdrawn and published again between two reads  *)
(* of the sending thread does not revive it, nor does a queue refilled.     *)
(***************************************************************************)
InterruptIsFinal ==
    [][ready /\ Interrupted /\ ready' => Interrupted']_vars

(***************************************************************************)
(* The endpoint keeps the promise of GopStream.  A stream is open while the *)
(* muxer has its header and its IO is not cancelled.  A packet the muxer    *)
(* takes after a hole is thus one that cannot reach the receiver.           *)
(***************************************************************************)
Live == ready /\ ~Interrupted

Stream == INSTANCE GopStream WITH
    stage <- IF ~Live THEN "closed" ELSE IF muxed = 0 THEN "header" ELSE "playing",
    last  <- IF Live THEN muxed ELSE 0,
    key   <- Live /\ muxedKey

ImplementsGopStream == Stream!GopSpec

(***************************************************************************)
(* As long as IO is not cancelled, the socket belongs to the path that is   *)
(* in use: no reading order of ready() and generation() in the sending      *)
(* thread lets a connection outlive the path it was made on.                *)
(***************************************************************************)
ConnectionOnCurrentPath ==
    (ready \/ pc = "header") /\ ~Interrupted => connPath = path

(***************************************************************************)
(* pts_us - origin_us_ is unsigned: no packet older than the key frame that *)
(* opened the connection is written, and no audio before that key frame,    *)
(* although audio is captured by another thread and may be late.            *)
(***************************************************************************)
NothingBeforeOrigin ==
    pc = "write" =>
        /\ ready
        /\ packet.pts >= origin
        /\ ~packet.video => muxed # 0

(***************************************************************************)
(* Parameter sets that reached the manager once are known to the connection *)
(* whenever it handles that frame or a later one, even if the key frame     *)
(* that carried them was dropped by the queue: the encoder may not repeat   *)
(* them.                                                                    *)
(***************************************************************************)
ParameterSetsSurviveDrops ==
    pc \in {"ready", "open"} /\ packet.video
        /\ setsFrame # 0 /\ packet.frame >= setsFrame => codecExtra

(***************************************************************************)
(* After the interrupt the sending thread leaves, wherever it is: asleep in *)
(* the queue, between two reads or inside FFmpeg; join() returns.           *)
(***************************************************************************)
StopCompletes == stopping ~> pc = "gone"

(***************************************************************************)
(* Every packet taken is disposed of: the sending thread always comes back  *)
(* to the queue.                                                            *)
(***************************************************************************)
PacketCompletes == pc # "pop" ~> pc \in {"pop", "gone"}

(***************************************************************************)
(* "No reference to the previous frame is kept while waiting idle"          *)
(* (ffmpeg_publisher.cpp:599, in translation).                              *)
(***************************************************************************)
IdleHoldsNothing == sleeping => packet = NoPacket
=============================================================================
