---------------------- MODULE PublisherEndpoint_proofs ----------------------
(***************************************************************************)
(* Safety of one endpoint for every value of the constants: types, the      *)
(* finality of an interrupt, connections on the current path, timestamps,   *)
(* and the implementation of GopStream.                                     *)
(***************************************************************************)
EXTENDS PublisherEndpoint, PublisherQueue_proofs

(***************************************************************************)
(* The inductive invariant, part by part.                                   *)
(***************************************************************************)
\* The connection never gets ahead of what it follows.
Counters == queueEpoch <= epoch /\ networkGeneration <= routeGen

\* What the position of the sending thread says of the connection.
InHand  == pc \in {"check", "route", "ready", "write"}
Opening == pc \in {"open", "header"}

Positions ==
    /\ pc \in {"route", "ready", "write"} \/ Opening => queueEpoch = epoch
    /\ pc = "gone" \/ Opening => ~ready
    /\ pc = "write" => ready
    /\ pc \in {"done", "gone"} => stopped
    /\ muxed # 0 => ready

\* The packet in hand is the one taken last.
PacketInHand ==
    /\ InHand \/ Opening =>
          /\ popped # 0 /\ packet.frame = popped
          /\ packet.video => packet.pts = packet.frame
    /\ Opening => packet.video /\ packet.key

(***************************************************************************)
(* A connection of the current route generation was made on the current     *)
(* path; if the route is not ready, the generation is about to change.      *)
(***************************************************************************)
RouteFresh ==
    /\ routePc # "idle" => Failover /\ ~routeReady
    /\ (ready \/ pc = "header") /\ networkGeneration = routeGen =>
          /\ routePc = "bump" \/ (routePc = "idle" /\ routeReady)
          /\ connPath = path

\* The origin is a frame taken before; the first frame is the key frame that
\* opened the connection, and audio waits for it.
OriginPast ==
    /\ ready => origin <= popped
    /\ pc = "write" => IF muxed = 0 THEN packet.video /\ packet.key
                                    ELSE packet.video \/ packet.pts >= origin
    /\ ready /\ muxed = 0 =>
           \/ pc \in {"write", "reset", "done", "gone"}
           \/ pc = "pop" /\ queueEpoch # generation
           \/ pc = "check" /\ queueEpoch # epoch

\* While IO is possible, the muxer has missed nothing.
StreamInOrder ==
    /\ Live /\ pc = "pop" => muxed = popped
    /\ Live /\ InHand =>
          \/ muxed = 0 /\ packet.video /\ packet.key
          \/ Follows(muxed, packet)

EndpointInv ==
    /\ EndpointTypeOK
    /\ QueueInv
    /\ Counters
    /\ Positions
    /\ PacketInHand
    /\ RouteFresh
    /\ OriginPast
    /\ StreamInOrder

-----------------------------------------------------------------------------
LEMMA EndpointInitInv == EndpointInit => EndpointInv
  <1> SUFFICES ASSUME EndpointInit PROVE EndpointInv
    OBVIOUS
  <1>1. QueueInv
    BY InitInv DEF EndpointInit
  <1>2. RouteTypeOK
    BY RouteAssumption DEF EndpointInit, RouteInit, RouteTypeOK
  <1>3. EndpointTypeOK
    <2>1. TypeOK
      BY <1>1 DEF QueueInv
    <2>2. /\ setsFrame \in Nat /\ muxed \in Nat /\ queueEpoch \in Nat
          /\ networkGeneration \in Nat /\ origin \in Nat /\ retry \in 0..Backoff
      BY EndpointAssumption DEF EndpointInit
    <2>3. /\ extra \in BOOLEAN /\ stopping \in BOOLEAN /\ ready \in BOOLEAN
          /\ muxedKey \in BOOLEAN /\ codecExtra \in BOOLEAN
      BY DEF EndpointInit
    <2>4. discarding \subseteq {"video", "audio"} /\ pc = "pop" /\ connPath \in Paths
      BY <1>2 DEF EndpointInit, RouteTypeOK
    <2>5. QED
      BY <1>2, <2>1, <2>2, <2>3, <2>4 DEF EndpointTypeOK
  <1>4. pc = "pop" /\ ~ready /\ routePc = "idle" /\ muxed = 0
        /\ queueEpoch = 0 /\ networkGeneration = 0 /\ epoch = 0 /\ routeGen = 0
    BY DEF EndpointInit, Init, RouteInit
  <1>5. QED
    BY <1>1, <1>3, <1>4
    DEF EndpointInv, Counters, Positions, PacketInHand, RouteFresh, OriginPast,
        StreamInOrder, InHand, Opening, Live

(***************************************************************************)
(* The environment of the sending thread - capture threads, main thread,    *)
(* clock - may only cancel IO, never revive it.                             *)
(***************************************************************************)
LEMMA EnvironmentInv ==
    ASSUME EndpointInv, QueueInv', EndpointTypeOK',
           UNCHANGED <<packet, epoch, popped>>, generation' >= generation,
           stopped => stopped', stopping => stopping',
           UNCHANGED <<pc, ready, queueEpoch, networkGeneration, origin, muxed,
                       connPath, routeReady, routeGen, path, routePc>>
    PROVE  EndpointInv'
  <1>1. Counters' /\ Positions' /\ PacketInHand' /\ RouteFresh'
    BY DEF EndpointInv, Counters, Positions, PacketInHand, RouteFresh, InHand, Opening
  <1>2. queueEpoch \in Nat /\ epoch \in Nat /\ generation \in Nat /\ generation' \in Nat
        /\ epoch <= generation /\ queueEpoch <= epoch
    BY DEF EndpointInv, EndpointTypeOK, TypeOK, QueueInv, Counters
  <1>3. OriginPast'
    BY <1>2 DEF EndpointInv, OriginPast
  <1>4. Live' => Live
    BY <1>2 DEF Live, Interrupted, Cancelled
  <1>5. StreamInOrder'
    BY <1>4 DEF EndpointInv, StreamInOrder, InHand, Follows
  <1>6. QED
    BY <1>1, <1>3, <1>5 DEF EndpointInv

(***************************************************************************)
(* What a step does to a stream that can carry IO after it: nothing, unless *)
(* it is the header or a packet that is written.                            *)
(***************************************************************************)
Untouched == Live /\ UNCHANGED <<muxed, muxedKey>>

\* Whatever the route thread does, a stream alive afterwards was alive before.
LEMMA RouteKeepsStream ==
    ASSUME EndpointInv, Live', Route
    PROVE  Untouched
  <1>1. /\ UNCHANGED <<ready, muxed, muxedKey, queueEpoch, networkGeneration,
                       stopping, stopped, generation>>
        /\ RouteNext
    BY DEF Route, senderVars, queueVars
  <1>2. ready /\ routeReady' /\ routeGen' = networkGeneration
    BY <1>1 DEF Live, Interrupted
  <1>3. routeGen \in Nat /\ networkGeneration \in Nat /\ networkGeneration <= routeGen
    BY DEF EndpointInv, EndpointTypeOK, RouteTypeOK, Counters
  <1>4. routeGen' = routeGen \/ routeGen' = routeGen + 1
    BY <1>1 DEF RouteNext, Withdraw, Bump, Reroute, BumpAgain, Publish
  <1>5. routeGen' = routeGen
    BY <1>2, <1>3, <1>4
  <1>6. routePc = "bump" \/ (routePc = "idle" /\ routeReady)
    BY <1>2, <1>5 DEF EndpointInv, RouteFresh
  <1>7. ~Publish
    BY <1>6 DEF Publish
  <1>8. routeReady
    BY <1>1, <1>2, <1>7 DEF RouteNext, Withdraw, Bump, Reroute, BumpAgain
  <1>9. QED
    BY <1>1, <1>2, <1>5, <1>8 DEF Untouched, Live, Interrupted, Cancelled

\* Each step of the route thread, whatever it does to the path.
LEMMA RouteInv ==
    ASSUME EndpointInv, Route
    PROVE  EndpointInv'
  <1>1. UNCHANGED <<pc, ready, queueEpoch, networkGeneration, codecExtra, origin,
                    retry, muxed, muxedKey, connPath, stopping, extra,
                    discarding, setsFrame>>
    BY DEF Route, senderVars, managerVars
  <1>2. UNCHANGED <<items, bytes, waitingKey, stopped, generation, sleeping,
                    packet, epoch, popped, frames>>
    BY DEF Route, queueVars
  <1>3. RouteTypeOK' /\ routeGen' >= routeGen
    <2>1. RouteTypeOK
      BY DEF EndpointInv, EndpointTypeOK
    <2>2. routeGen' \in Nat /\ routeGen' >= routeGen
      BY <2>1 DEF Route, RouteNext, Withdraw, Bump, Reroute, BumpAgain, Publish,
                  RouteTypeOK
    <2>3. routeReady' \in BOOLEAN
      BY <2>1 DEF Route, RouteNext, Withdraw, Bump, Reroute, BumpAgain, Publish,
                  RouteTypeOK
    <2>4. path' \in Paths /\ routePc' \in {"idle", "bump", "change"}
      BY <2>1 DEF Route, RouteNext, Withdraw, Bump, Reroute, BumpAgain, Publish,
                  RouteTypeOK
    <2>5. QED
      BY <2>2, <2>3, <2>4 DEF RouteTypeOK
  <1>4. QueueInv' /\ TypeOK'
    BY <1>2, IdleInv DEF EndpointInv, QueueInv, TypeOK
  <1>5. EndpointTypeOK'
    BY <1>1, <1>3, <1>4 DEF EndpointInv, EndpointTypeOK
  <1>6. Counters' /\ Positions' /\ PacketInHand' /\ OriginPast'
    BY <1>1, <1>2, <1>3
    DEF EndpointInv, EndpointTypeOK, RouteTypeOK, Counters, Positions,
        PacketInHand, OriginPast, InHand, Opening
  <1>7. RouteFresh'
    <2>1. CASE Bump
      <3>1. routeGen' = routeGen + 1 /\ networkGeneration' <= routeGen
            /\ routeReady' = routeReady /\ routePc = "bump"
        BY <1>1, <2>1 DEF Bump, EndpointInv, Counters
      <3>2. networkGeneration' # routeGen'
        BY <3>1, <1>1 DEF EndpointInv, EndpointTypeOK, RouteTypeOK
      <3>3. QED
        BY <3>1, <3>2 DEF EndpointInv, RouteFresh
    <2>2. CASE Withdraw \/ Reroute \/ BumpAgain \/ Publish
      BY <1>1, <2>2 DEF Withdraw, Reroute, BumpAgain, Publish, EndpointInv, RouteFresh
    <2>3. QED
      BY <2>1, <2>2 DEF Route, RouteNext
  <1>8. Live' => Live
    BY RouteKeepsStream DEF Untouched
  <1>9. StreamInOrder'
    BY <1>1, <1>2, <1>8 DEF EndpointInv, StreamInOrder, InHand, Follows
  <1>10. QED
    BY <1>4, <1>5, <1>6, <1>7, <1>9 DEF EndpointInv

-----------------------------------------------------------------------------
(* Types.                                                                   *)

LEMMA SenderTypes ==
    ASSUME EndpointTypeOK, Sender
    PROVE  /\ pc' \in {"pop", "check", "route", "ready", "open", "header",
                       "write", "reset", "done", "gone"}
           /\ ready' \in BOOLEAN /\ muxed' \in Nat /\ muxedKey' \in BOOLEAN
           /\ queueEpoch' \in Nat /\ networkGeneration' \in Nat
           /\ codecExtra' \in BOOLEAN /\ origin' \in Nat
           /\ retry' \in 0..Backoff /\ connPath' \in Paths
  <1> USE DEF Sender, TakePacket, WaitForPacket, LeaveLoop, SkipCancelled,
              Synchronize, SkipStopping, ReadGeneration, ReadReady, Open,
              WriteHeader, OpenFails, WritePacket, AllocationFails, WriteFails,
              ResetAfterFailure, FinishPacket, Close, connVars, senderVars
  <1>1. /\ packet.frame \in Nat /\ packet.pts \in Nat /\ packet.key \in BOOLEAN
        /\ packet.extra \in BOOLEAN /\ packet.sets \in BOOLEAN
        /\ epoch \in Nat /\ routeGen \in Nat /\ path \in Paths
    BY DEF EndpointTypeOK, TypeOK, RouteTypeOK, Packet
  <1>2. pc' \in {"pop", "check", "route", "ready", "open", "header",
                "write", "reset", "done", "gone"}
    BY DEF EndpointTypeOK
  <1>3. ready' \in BOOLEAN
    BY DEF EndpointTypeOK
  <1>4. muxed' \in Nat
    BY <1>1 DEF EndpointTypeOK
  <1>5. muxedKey' \in BOOLEAN
    BY <1>1 DEF EndpointTypeOK
  <1>6. queueEpoch' \in Nat /\ networkGeneration' \in Nat
    BY <1>1 DEF EndpointTypeOK
  <1>7. codecExtra' \in BOOLEAN
    BY <1>1 DEF EndpointTypeOK
  <1>8. origin' \in Nat
    BY <1>1 DEF EndpointTypeOK
  <1>9. retry' \in 0..Backoff
    BY EndpointAssumption DEF EndpointTypeOK
  <1>10. connPath' \in Paths
    BY <1>1 DEF EndpointTypeOK
  <1>11. QED
    BY <1>2, <1>3, <1>4, <1>5, <1>6, <1>7, <1>8, <1>9, <1>10

-----------------------------------------------------------------------------
(* The capture threads, the main thread and the clock.                      *)

LEMMA PushGrows ==
    ASSUME QueueInv, NEW p, Push(p) \/ PushThrows(p)
    PROVE  generation' >= generation /\ UNCHANGED <<packet, epoch, popped, stopped>>
  <1>1. generation \in Nat
    BY DEF QueueInv, TypeOK
  <1>2. generation' = generation \/ generation' = generation + 1
    BY DEF Push, PushThrows, DropIfOverflow, ResetLocked, Store, storeVars
  <1>3. UNCHANGED <<packet, epoch, popped, stopped>>
    BY DEF Push, PushThrows, popVars
  <1>4. QED
    BY <1>1, <1>2, <1>3

LEMMA DropGopInv ==
    ASSUME QueueInv, DropGop, frames' \in {frames, frames + 1}
    PROVE  /\ QueueInv' /\ generation' >= generation
           /\ UNCHANGED <<packet, epoch, popped, stopped>>
  <1>1. ResetLocked /\ UNCHANGED <<stopped, sleeping, packet, epoch, popped>>
    BY DEF DropGop, Reset, popVars
  <1>2. /\ frames' \in Nat /\ frames' >= frames /\ packet' \in Packet
        /\ generation' >= generation
    BY <1>1 DEF QueueInv, TypeOK, ResetLocked
  <1>3. sleeping' \in BOOLEAN /\ (sleeping' => ~stopped)
    BY <1>1 DEF QueueInv, TypeOK, NoLostWakeup
  <1>4. QED
    BY <1>1, <1>2, <1>3, ResetInv

LEMMA CaptureInv ==
    ASSUME EndpointInv, Capture
    PROVE  EndpointInv'
  <1>a. QueueInv /\ frames \in Nat /\ extra \in BOOLEAN /\ setsFrame \in Nat
        /\ discarding \subseteq {"video", "audio"} /\ EndpointTypeOK
    BY DEF EndpointInv, EndpointTypeOK, TypeOK
  <1>b. UNCHANGED <<pc, ready, queueEpoch, networkGeneration, codecExtra, origin,
                    retry, muxed, muxedKey, connPath, routeReady, routeGen,
                    path, routePc, stopping>>
    BY DEF Capture, EnqueueVideo, RejectVideo, EnqueueAudio, RejectAudio,
           FinishDiscard, senderVars, routeVars
  <1>c. extra' \in BOOLEAN /\ setsFrame' \in Nat
    <2>1. ASSUME NEW sets \in BOOLEAN, CacheSets(sets)
          PROVE  extra' \in BOOLEAN /\ setsFrame' \in Nat
      <3>1. extra' \in BOOLEAN
        BY <1>a, <2>1 DEF CacheSets
      <3>2. setsFrame' \in Nat
        BY <1>a, <2>1 DEF CacheSets
      <3>3. QED
        BY <3>1, <3>2
    <2>2. (\E sets \in BOOLEAN : CacheSets(sets)) \/ UNCHANGED <<extra, setsFrame>>
      BY DEF Capture, EnqueueVideo, RejectVideo, EnqueueAudio, RejectAudio,
             FinishDiscard, managerVars
    <2>3. QED
      BY <1>a, <2>1, <2>2
  <1>d. discarding' \subseteq {"video", "audio"}
    BY <1>a DEF Capture, EnqueueVideo, RejectVideo, EnqueueAudio, RejectAudio,
                FinishDiscard, managerVars
  <1> DEFINE Safe == /\ QueueInv' /\ generation' >= generation
                     /\ UNCHANGED <<packet, epoch, popped, stopped>>
  <1>e. Safe
    <2>1. ASSUME NEW kind \in VideoKinds, NEW size \in Sizes,
                 EnqueueVideo(kind, size)
          PROVE  Safe
      <3> DEFINE p == VideoPacket(kind # "inter", kind = "keySets",
                                  extra \/ kind = "keySets", size)
      <3>1. Offerable(p)
        BY <1>a, VideoOfferable
      <3>2. Push(p) \/ PushThrows(p)
        BY <2>1 DEF EnqueueVideo
      <3>3. QED
        BY <1>a, <3>1, <3>2, PushInv, PushThrowsInv, PushGrows
    <2>2. ASSUME NEW kind \in VideoKinds, RejectVideo(kind)
          PROVE  Safe
      BY <1>a, <2>2, DropGopInv DEF RejectVideo
    <2>3. ASSUME NEW lag \in Lags, NEW size \in Sizes, EnqueueAudio(lag, size)
          PROVE  Safe
      <3>1. Offerable(AudioPacket(lag, size))
        BY <1>a, <2>3, AudioOfferable DEF EnqueueAudio
      <3>2. Push(AudioPacket(lag, size)) \/ PushThrows(AudioPacket(lag, size))
        BY <2>3 DEF EnqueueAudio
      <3>3. QED
        BY <1>a, <3>1, <3>2, PushInv, PushThrowsInv, PushGrows
    <2>4. CASE RejectAudio
      BY <1>a, <2>4, DropGopInv DEF RejectAudio
    <2>5. ASSUME NEW thread \in discarding, FinishDiscard(thread)
          PROVE  Safe
      BY <1>a, <2>5, DropGopInv DEF FinishDiscard
    <2> HIDE DEF Safe
    <2>6. QED
      BY <2>1, <2>2, <2>3, <2>4, <2>5 DEF Capture
  <1>1. EndpointTypeOK'
    BY <1>a, <1>b, <1>c, <1>d, <1>e DEF EndpointTypeOK, RouteTypeOK, QueueInv
  <1>2. QED
    BY <1>b, <1>e, <1>1, EnvironmentInv

LEMMA InterruptInv == ASSUME EndpointInv, Interrupt PROVE EndpointInv'
  <1>1. /\ UNCHANGED <<items, bytes, waitingKey, stopped, generation, sleeping,
                       packet, epoch, popped, frames>>
        /\ UNCHANGED <<pc, ready, queueEpoch, networkGeneration, codecExtra, origin,
                       retry, muxed, muxedKey, connPath, routeReady, routeGen,
                       path, routePc, extra, discarding, setsFrame>>
        /\ stopping' = TRUE
    BY DEF Interrupt, queueVars, senderVars, routeVars, managerVars
  <1>2. QueueInv' /\ generation' >= generation
    BY <1>1, IdleInv DEF EndpointInv, QueueInv, TypeOK
  <1>3. EndpointTypeOK'
    BY <1>1, <1>2 DEF EndpointInv, EndpointTypeOK, RouteTypeOK, QueueInv
  <1>4. QED
    BY <1>1, <1>2, <1>3, EnvironmentInv

LEMMA StopQueueInv == ASSUME EndpointInv, StopQueue PROVE EndpointInv'
  <1>1. /\ UNCHANGED <<generation, packet, epoch, popped>> /\ stopped'
        /\ UNCHANGED <<pc, ready, queueEpoch, networkGeneration, codecExtra, origin,
                       retry, muxed, muxedKey, connPath, routeReady, routeGen,
                       path, routePc, extra, discarding, setsFrame, stopping>>
    BY DEF StopQueue, Stop, popVars, senderVars, routeVars, managerVars
  <1>2. QueueInv' /\ generation' >= generation
    BY <1>1, StopInv DEF StopQueue, EndpointInv, QueueInv, TypeOK
  <1>3. EndpointTypeOK'
    BY <1>1, <1>2 DEF EndpointInv, EndpointTypeOK, RouteTypeOK, QueueInv
  <1>4. QED
    BY <1>1, <1>2, <1>3, EnvironmentInv

LEMMA TimeInv == ASSUME EndpointInv, Time PROVE EndpointInv'
  <1>1. /\ UNCHANGED <<generation, packet, epoch, popped, stopped>>
        /\ UNCHANGED <<pc, ready, queueEpoch, networkGeneration, codecExtra, origin,
                       muxed, muxedKey, connPath, routeReady, routeGen,
                       path, routePc, extra, discarding, setsFrame, stopping>>
    BY DEF Time, Tick, popVars, connVars, routeVars, managerVars
  <1>2. QueueInv' /\ generation' >= generation
    BY <1>1, TickInv DEF Time, EndpointInv, QueueInv, TypeOK
  <1>3. retry' \in 0..Backoff
    BY EndpointAssumption DEF Time, EndpointInv, EndpointTypeOK
  <1>4. EndpointTypeOK'
    BY <1>1, <1>2, <1>3 DEF EndpointInv, EndpointTypeOK, RouteTypeOK, QueueInv
  <1>5. QED
    BY <1>1, <1>2, <1>4, EnvironmentInv

LEMMA DestroyInv == ASSUME EndpointInv, Destroy PROVE EndpointInv'
  <1>1. /\ UNCHANGED <<items, bytes, waitingKey, stopped, generation, sleeping,
                       packet, epoch, popped, frames>>
        /\ UNCHANGED <<queueEpoch, networkGeneration, codecExtra, origin, retry,
                       connPath, routeReady, routeGen, path, routePc, extra,
                       discarding, setsFrame, stopping>>
        /\ pc = "done" /\ pc' = "gone"
        /\ ready' = FALSE /\ muxed' = 0 /\ muxedKey' = FALSE
    BY DEF Destroy, Close, queueVars, routeVars, managerVars
  <1>2. QueueInv'
    BY <1>1, IdleInv DEF EndpointInv, QueueInv, TypeOK
  <1>3. EndpointTypeOK'
    BY <1>1, <1>2 DEF EndpointInv, EndpointTypeOK, RouteTypeOK, QueueInv
  <1>4. QED
    BY <1>1, <1>2, <1>3
    DEF EndpointInv, Counters, Positions, PacketInHand, RouteFresh, OriginPast,
        StreamInOrder, InHand, Opening, Live

-----------------------------------------------------------------------------
(* The sending thread.                                                      *)

LEMMA SenderQueueInv ==
    ASSUME EndpointInv, Sender
    PROVE  QueueInv' /\ EndpointTypeOK'
  <1>a. QueueInv /\ TypeOK /\ packet \in Packet /\ EndpointTypeOK
    BY DEF EndpointInv, EndpointTypeOK, TypeOK
  <1>1. QueueInv'
    <2>1. CASE TakePacket
      BY <2>1, <1>a, PopTakeInv DEF TakePacket
    <2>2. CASE WaitForPacket
      BY <2>2, <1>a, PopWaitInv DEF WaitForPacket
    <2>3. CASE ResetAfterFailure
      <3>1. /\ ResetLocked /\ packet' = NoPacket
            /\ UNCHANGED <<stopped, sleeping, epoch, popped, frames>>
        BY <2>3 DEF ResetAfterFailure, Reset
      <3>2. sleeping' \in BOOLEAN /\ (sleeping' => ~stopped)
        BY <1>a, <3>1 DEF QueueInv, TypeOK, NoLostWakeup
      <3>3. packet' \in Packet /\ frames' \in Nat /\ frames' >= frames
        BY <1>a, <3>1, NoPacketType DEF TypeOK
      <3>4. QED
        BY <1>a, <3>1, <3>2, <3>3, ResetInv
    <2>4. CASE FinishPacket
      BY <2>4, <1>a, NoPacketType, IdleInv DEF FinishPacket
    <2>5. CASE UNCHANGED queueVars
      BY <2>5, <1>a, IdleInv DEF queueVars
    <2>6. QED
      BY <2>1, <2>2, <2>3, <2>4, <2>5
      DEF Sender, LeaveLoop, SkipCancelled, Synchronize, SkipStopping,
          ReadGeneration, ReadReady, Open, WriteHeader, OpenFails, WritePacket,
          AllocationFails, WriteFails
  <1>2. /\ UNCHANGED <<extra, discarding, setsFrame, stopping, routeReady,
                       routeGen, path, routePc>>
    BY DEF Sender, TakePacket, WaitForPacket, LeaveLoop, SkipCancelled,
           Synchronize, SkipStopping, ReadGeneration, ReadReady, Open,
           WriteHeader, OpenFails, WritePacket, AllocationFails, WriteFails,
           ResetAfterFailure, managerVars, routeVars
  <1>3. TypeOK' /\ RouteTypeOK'
    BY <1>a, <1>1, <1>2 DEF QueueInv, EndpointTypeOK, RouteTypeOK
  <1>4. EndpointTypeOK'
    BY <1>a, <1>2, <1>3, SenderTypes DEF EndpointTypeOK
  <1>5. QED
    BY <1>1, <1>4

\* The parts of the invariant that are about the connection.
Parts ==
    /\ Counters /\ Positions /\ PacketInHand
    /\ RouteFresh /\ OriginPast /\ StreamInOrder

\* Types, ordered counters, and what a sending step leaves alone.
LEMMA SenderFacts ==
    ASSUME EndpointInv, Sender
    PROVE  /\ epoch \in Nat /\ generation \in Nat /\ popped \in Nat /\ queueEpoch \in Nat
           /\ networkGeneration \in Nat /\ routeGen \in Nat /\ muxed \in Nat
           /\ origin \in Nat /\ packet.frame \in Nat /\ packet.pts \in Nat
           /\ queueEpoch <= epoch /\ epoch <= generation
           /\ networkGeneration <= routeGen
           /\ UNCHANGED <<stopping, stopped, routeReady, routeGen, path, routePc>>
  <1>1. UNCHANGED <<stopping, stopped, routeReady, routeGen, path, routePc>>
    BY DEF Sender, TakePacket, WaitForPacket, LeaveLoop, SkipCancelled,
           Synchronize, SkipStopping, ReadGeneration, ReadReady, Open,
           WriteHeader, OpenFails, WritePacket, AllocationFails, WriteFails,
           ResetAfterFailure, FinishPacket, Reset, PopTake, PopWait, routeVars,
           queueVars
  <1>2. QED
    BY <1>1
    DEF EndpointInv, EndpointTypeOK, TypeOK, RouteTypeOK, QueueInv, Counters, Packet

LEMMA TakePacketInv == ASSUME EndpointInv, TakePacket PROVE Parts'
  <1>1. /\ pc = "pop" /\ pc' = "check" /\ PopTake
        /\ UNCHANGED <<ready, muxed, muxedKey, queueEpoch, networkGeneration,
                       origin, connPath, generation>>
    BY DEF TakePacket, connVars, PopTake
  <1>2. /\ popped' = packet'.frame /\ popped' # 0 /\ epoch' = generation
        /\ packet'.video => packet'.pts = packet'.frame
        /\ IF Begun THEN Follows(popped, packet') ELSE packet'.video /\ packet'.key
    BY <1>1, PopTakeInv DEF EndpointInv
  <1>3. popped' >= popped
    BY <1>1, PopTakeInv DEF EndpointInv
  <1>4. /\ epoch \in Nat /\ generation \in Nat /\ popped \in Nat /\ queueEpoch \in Nat
        /\ popped' \in Nat /\ origin \in Nat /\ muxed \in Nat
        /\ queueEpoch <= epoch /\ epoch <= generation
        /\ UNCHANGED <<stopping, stopped, routeReady, routeGen, path, routePc>>
    BY <1>2, SenderFacts, SenderQueueInv DEF Sender, QueueInv, TypeOK
  <1>5. Counters' /\ Positions' /\ PacketInHand' /\ RouteFresh'
    BY <1>1, <1>2, <1>4
    DEF EndpointInv, Counters, Positions, PacketInHand, RouteFresh, InHand, Opening
  <1>6. OriginPast'
    BY <1>1, <1>2, <1>3, <1>4 DEF EndpointInv, OriginPast
  <1>7. StreamInOrder'
    <2> SUFFICES ASSUME Live' PROVE Follows(muxed', packet')
      BY <1>1 DEF StreamInOrder
    <2>1. Live /\ queueEpoch = generation
      BY <1>1, <1>4 DEF Live, Interrupted, Cancelled
    <2>2. epoch = generation /\ muxed = popped
      BY <1>1, <1>4, <2>1 DEF EndpointInv, StreamInOrder
    <2>3. popped # 0
      BY <1>1, <1>4, <2>1, <2>2 DEF EndpointInv, OriginPast, Live
    <2>4. QED
      BY <1>1, <1>2, <2>2, <2>3 DEF Begun, Follows
  <1>8. QED
    BY <1>5, <1>6, <1>7 DEF Parts

\* The connection and the packet stay: only the position changes, or the
\* queue drops what it holds.
LEMMA WaitForPacketInv == ASSUME EndpointInv, WaitForPacket PROVE Parts'
  <1>1. /\ pc = "pop"
        /\ UNCHANGED <<pc, ready, muxed, queueEpoch, networkGeneration,
                       origin, connPath, packet, epoch, popped>>
        /\ generation' = generation \/ generation' = generation + 1
    BY DEF WaitForPacket, PopWait, ResetLocked, storeVars, popVars, senderVars
  <1>2. /\ epoch \in Nat /\ generation \in Nat /\ queueEpoch \in Nat
        /\ queueEpoch <= epoch /\ epoch <= generation
        /\ UNCHANGED <<stopping, stopped, routeReady, routeGen, path, routePc>>
    BY SenderFacts DEF Sender
  <1>3. Counters' /\ Positions' /\ PacketInHand' /\ RouteFresh'
    BY <1>1, <1>2
    DEF EndpointInv, Counters, Positions, PacketInHand, RouteFresh, InHand, Opening
  <1>4. OriginPast'
    BY <1>1, <1>2 DEF EndpointInv, OriginPast
  <1>5. Live' => Live
    BY <1>1, <1>2 DEF Live, Interrupted, Cancelled
  <1>6. StreamInOrder'
    BY <1>1, <1>5 DEF EndpointInv, StreamInOrder, InHand
  <1>7. QED
    BY <1>3, <1>4, <1>6 DEF Parts

LEMMA ResetAfterFailureInv == ASSUME EndpointInv, ResetAfterFailure PROVE Parts'
  <1>1. /\ pc = "reset" /\ pc' = "pop" /\ generation' = generation + 1
        /\ UNCHANGED <<ready, muxed, queueEpoch, networkGeneration,
                       origin, connPath, epoch, popped>>
    BY DEF ResetAfterFailure, Reset, ResetLocked, connVars
  <1>2. /\ epoch \in Nat /\ generation \in Nat /\ queueEpoch \in Nat
        /\ queueEpoch <= epoch /\ epoch <= generation
        /\ UNCHANGED <<stopping, stopped, routeReady, routeGen, path, routePc>>
    BY SenderFacts DEF Sender
  <1>3. queueEpoch' # generation'
    BY <1>1, <1>2
  <1>4. Counters' /\ Positions' /\ PacketInHand' /\ RouteFresh'
    BY <1>1, <1>2
    DEF EndpointInv, Counters, Positions, PacketInHand, RouteFresh, InHand, Opening
  <1>5. OriginPast'
    BY <1>1, <1>3 DEF EndpointInv, OriginPast
  <1>6. ~Live'
    BY <1>3 DEF Live, Interrupted, Cancelled
  <1>7. QED
    BY <1>4, <1>5, <1>6 DEF Parts, StreamInOrder

LEMMA LeaveLoopInv == ASSUME EndpointInv, LeaveLoop PROVE Parts'
  <1>1. /\ pc = "pop" /\ pc' = "done" /\ stopped
        /\ UNCHANGED <<ready, muxed, queueEpoch, networkGeneration,
                       origin, connPath, packet, epoch, popped, generation>>
    BY DEF LeaveLoop, connVars, queueVars
  <1>2. UNCHANGED <<stopping, stopped, routeReady, routeGen, path, routePc>>
    BY SenderFacts DEF Sender
  <1>3. Counters' /\ Positions' /\ PacketInHand' /\ RouteFresh'
    BY <1>1, <1>2
    DEF EndpointInv, Counters, Positions, PacketInHand, RouteFresh, InHand, Opening
  <1>4. OriginPast' /\ StreamInOrder'
    BY <1>1, <1>2 DEF EndpointInv, OriginPast, StreamInOrder, InHand
  <1>5. QED
    BY <1>3, <1>4 DEF Parts

\* A cancelled packet belongs to a connection that is cancelled as well.
LEMMA SkipCancelledInv == ASSUME EndpointInv, SkipCancelled PROVE Parts'
  <1>1. /\ pc = "check" /\ pc' = "pop" /\ (stopping \/ Cancelled(epoch))
        /\ UNCHANGED <<ready, muxed, queueEpoch, networkGeneration,
                       origin, connPath, packet, epoch, popped, generation>>
    BY DEF SkipCancelled, connVars, queueVars
  <1>2. /\ epoch \in Nat /\ generation \in Nat /\ queueEpoch \in Nat
        /\ queueEpoch <= epoch /\ epoch <= generation
        /\ UNCHANGED <<stopping, stopped, routeReady, routeGen, path, routePc>>
    BY SenderFacts DEF Sender
  <1>3. Counters' /\ Positions' /\ PacketInHand' /\ RouteFresh'
    BY <1>1, <1>2
    DEF EndpointInv, Counters, Positions, PacketInHand, RouteFresh, InHand, Opening
  <1>4. OriginPast'
    BY <1>1, <1>2 DEF EndpointInv, OriginPast
  <1>5. ~Live'
    BY <1>1, <1>2 DEF Live, Interrupted, Cancelled
  <1>6. QED
    BY <1>1, <1>3, <1>4, <1>5 DEF Parts, StreamInOrder

LEMMA SynchronizeInv == ASSUME EndpointInv, Synchronize PROVE Parts'
  <1>1. /\ pc = "check" /\ pc' \in {"route", "reset"} /\ queueEpoch' = epoch
        /\ UNCHANGED <<networkGeneration, origin, connPath, packet, epoch,
                       popped, generation>>
        /\ \/ queueEpoch # epoch /\ ready' = FALSE /\ muxed' = 0
           \/ queueEpoch = epoch /\ UNCHANGED <<ready, muxed>>
    BY DEF Synchronize, Close, connVars, queueVars
  <1>2. /\ epoch \in Nat
        /\ UNCHANGED <<stopping, stopped, routeReady, routeGen, path, routePc>>
    BY SenderFacts DEF Sender
  <1>3. Counters' /\ Positions' /\ PacketInHand' /\ RouteFresh'
    BY <1>1, <1>2
    DEF EndpointInv, Counters, Positions, PacketInHand, RouteFresh, InHand, Opening
  <1>4. OriginPast'
    BY <1>1, <1>2 DEF EndpointInv, OriginPast
  <1>5. Live' => Live
    BY <1>1, <1>2 DEF Live, Interrupted, Cancelled
  <1>6. StreamInOrder'
    <2>1. Live' => muxed' = muxed
      BY <1>1 DEF Live
    <2>2. QED
      BY <1>1, <1>5, <2>1 DEF EndpointInv, StreamInOrder, InHand, Follows
  <1>7. QED
    BY <1>3, <1>4, <1>6 DEF Parts

LEMMA SkipStoppingInv == ASSUME EndpointInv, SkipStopping PROVE Parts'
  <1>1. /\ pc = "route" /\ pc' = "pop" /\ stopping
        /\ UNCHANGED <<ready, muxed, queueEpoch, networkGeneration,
                       origin, connPath, epoch, popped, generation>>
    BY DEF SkipStopping, FinishPacket, connVars
  <1>2. UNCHANGED <<stopping, stopped, routeReady, routeGen, path, routePc>>
    BY SenderFacts DEF Sender
  <1>3. Counters' /\ Positions' /\ PacketInHand' /\ RouteFresh'
    BY <1>1, <1>2
    DEF EndpointInv, Counters, Positions, PacketInHand, RouteFresh, InHand, Opening
  <1>4. OriginPast'
    BY <1>1, <1>2 DEF EndpointInv, OriginPast
  <1>5. ~Live'
    BY <1>1, <1>2 DEF Live, Interrupted
  <1>6. QED
    BY <1>1, <1>3, <1>4, <1>5 DEF Parts, StreamInOrder

LEMMA ReadGenerationInv == ASSUME EndpointInv, ReadGeneration PROVE Parts'
  <1>1. /\ pc = "route" /\ pc' = "ready" /\ networkGeneration' = routeGen
        /\ UNCHANGED <<queueEpoch, origin, connPath, packet, epoch, popped,
                       generation>>
        /\ \/ networkGeneration # routeGen /\ ready' = FALSE /\ muxed' = 0
           \/ networkGeneration = routeGen /\ UNCHANGED <<ready, muxed>>
    BY DEF ReadGeneration, Close, connVars, queueVars
  <1>2. /\ routeGen \in Nat
        /\ UNCHANGED <<stopping, stopped, routeReady, routeGen, path, routePc>>
    BY SenderFacts DEF Sender
  <1>3. Counters' /\ Positions' /\ PacketInHand' /\ RouteFresh'
    BY <1>1, <1>2
    DEF EndpointInv, Counters, Positions, PacketInHand, RouteFresh, InHand, Opening
  <1>4. OriginPast'
    BY <1>1, <1>2 DEF EndpointInv, OriginPast
  <1>5. Live' => Live /\ muxed' = muxed
    BY <1>1, <1>2 DEF Live, Interrupted, Cancelled
  <1>6. StreamInOrder'
    BY <1>1, <1>5 DEF EndpointInv, StreamInOrder, InHand, Follows
  <1>7. QED
    BY <1>3, <1>4, <1>6 DEF Parts

LEMMA ReadReadyInv == ASSUME EndpointInv, ReadReady PROVE Parts'
  <1>1. /\ pc = "ready"
        /\ UNCHANGED <<ready, muxed, queueEpoch, networkGeneration, origin,
                       connPath, epoch, popped, generation>>
        /\ \/ routeReady /\ Writable /\ pc' = "write" /\ packet' = packet
           \/ routeReady /\ MayOpen /\ pc' = "open" /\ packet' = packet
           \/ ~(routeReady /\ (Writable \/ MayOpen)) /\ pc' = "pop"
    BY DEF ReadReady, FinishPacket, connVars, queueVars
  <1>2. /\ popped \in Nat /\ origin \in Nat /\ muxed \in Nat
        /\ UNCHANGED <<stopping, stopped, routeReady, routeGen, path, routePc>>
    BY SenderFacts DEF Sender
  <1>3. Counters' /\ Positions' /\ PacketInHand' /\ RouteFresh'
    BY <1>1, <1>2
    DEF EndpointInv, Counters, Positions, PacketInHand, RouteFresh, InHand,
        Opening, Writable, MayOpen
  <1>4. OriginPast'
    BY <1>1, <1>2 DEF EndpointInv, OriginPast, Writable, MayOpen
  <1>5. Live' => Live
    BY <1>1, <1>2 DEF Live, Interrupted, Cancelled
  <1>6. StreamInOrder'
    <2>1. CASE pc' = "write" /\ packet' = packet
      BY <2>1, <1>1, <1>5 DEF EndpointInv, StreamInOrder, InHand, Follows
    <2>2. CASE pc' = "open"
      BY <2>2 DEF StreamInOrder, InHand
    <2>3. CASE ~(routeReady /\ (Writable \/ MayOpen)) /\ pc' = "pop"
      <3> SUFFICES ASSUME Live' PROVE muxed' = popped'
        BY <2>3 DEF StreamInOrder, InHand
      <3>1. Live /\ ready /\ routeReady /\ ~packet.video
        BY <1>5, <2>3 DEF Live, Interrupted, Writable
      <3>2. Follows(muxed, packet) /\ packet.frame = popped
        BY <1>1, <3>1 DEF EndpointInv, StreamInOrder, PacketInHand, InHand
      <3>3. QED
        BY <1>1, <3>1, <3>2 DEF Follows
    <2>4. QED
      BY <1>1, <2>1, <2>2, <2>3
  <1>7. QED
    BY <1>3, <1>4, <1>6 DEF Parts

LEMMA OpenInv == ASSUME EndpointInv, Open PROVE Parts'
  <1>1. /\ pc = "open" /\ pc' = "header" /\ ~Interrupted /\ connPath' = path
        /\ UNCHANGED <<ready, muxed, queueEpoch, networkGeneration, origin,
                       packet, epoch, popped, generation>>
    BY DEF Open, connVars, queueVars
  <1>2. UNCHANGED <<stopping, stopped, routeReady, routeGen, path, routePc>>
    BY SenderFacts DEF Sender
  <1>3. Counters' /\ Positions' /\ PacketInHand'
    BY <1>1, <1>2
    DEF EndpointInv, Counters, Positions, PacketInHand, InHand, Opening
  <1>4. routeReady
    BY <1>1 DEF Interrupted
  <1>5. RouteFresh'
    <2>1. routePc = "idle"
      BY <1>4 DEF EndpointInv, RouteFresh
    <2>2. QED
      BY <1>1, <1>2, <1>4, <2>1 DEF EndpointInv, RouteFresh
  <1>6. OriginPast' /\ StreamInOrder'
    BY <1>1, <1>2
    DEF EndpointInv, OriginPast, StreamInOrder, InHand, Opening, Positions, Live
  <1>7. QED
    BY <1>3, <1>5, <1>6 DEF Parts

LEMMA WriteHeaderInv == ASSUME EndpointInv, WriteHeader PROVE Parts'
  <1>1. /\ pc = "header" /\ pc' = "write" /\ ready' = TRUE /\ muxed' = 0
        /\ origin' = packet.pts
        /\ UNCHANGED <<queueEpoch, networkGeneration, connPath, packet, epoch,
                       popped, generation>>
    BY DEF WriteHeader, queueVars
  <1>2. /\ popped \in Nat
        /\ UNCHANGED <<stopping, stopped, routeReady, routeGen, path, routePc>>
    BY SenderFacts DEF Sender
  <1>3. /\ packet.video /\ packet.key /\ popped # 0
        /\ packet.frame = popped /\ packet.pts = popped
    BY <1>1 DEF EndpointInv, PacketInHand, Opening
  <1>4. Counters' /\ Positions' /\ PacketInHand' /\ RouteFresh'
    BY <1>1, <1>2, <1>3
    DEF EndpointInv, Counters, Positions, PacketInHand, RouteFresh, InHand, Opening
  <1>5. OriginPast' /\ StreamInOrder'
    BY <1>1, <1>2, <1>3 DEF OriginPast, StreamInOrder, InHand
  <1>6. QED
    BY <1>4, <1>5 DEF Parts

\* A failed call leaves no connection behind.
LEMMA ClosedInv ==
    ASSUME EndpointInv, OpenFails \/ WriteFails
    PROVE  Parts'
  <1>1. /\ pc \in {"open", "header", "write"} /\ pc' = "reset"
        /\ ready' = FALSE /\ muxed' = 0
        /\ UNCHANGED <<queueEpoch, networkGeneration, origin, connPath, packet,
                       epoch, popped, generation>>
    BY DEF OpenFails, WriteFails, Close, queueVars
  <1>2. UNCHANGED <<stopping, stopped, routeReady, routeGen, path, routePc>>
    BY SenderFacts DEF Sender
  <1>3. Counters' /\ Positions' /\ PacketInHand' /\ RouteFresh'
    BY <1>1, <1>2
    DEF EndpointInv, Counters, Positions, PacketInHand, RouteFresh, InHand, Opening
  <1>4. OriginPast' /\ StreamInOrder'
    BY <1>1 DEF OriginPast, StreamInOrder, Live, InHand
  <1>5. QED
    BY <1>3, <1>4 DEF Parts

LEMMA AllocationFailsInv == ASSUME EndpointInv, AllocationFails PROVE Parts'
  <1>1. /\ pc = "write" /\ pc' = "reset"
        /\ UNCHANGED <<ready, muxed, queueEpoch, networkGeneration, origin,
                       connPath, packet, epoch, popped, generation>>
    BY DEF AllocationFails, connVars, queueVars
  <1>2. UNCHANGED <<stopping, stopped, routeReady, routeGen, path, routePc>>
    BY SenderFacts DEF Sender
  <1>3. Counters' /\ Positions' /\ PacketInHand' /\ RouteFresh'
    BY <1>1, <1>2
    DEF EndpointInv, Counters, Positions, PacketInHand, RouteFresh, InHand, Opening
  <1>4. OriginPast' /\ StreamInOrder'
    BY <1>1, <1>2 DEF EndpointInv, OriginPast, StreamInOrder, InHand
  <1>5. QED
    BY <1>3, <1>4 DEF Parts

LEMMA WritePacketInv == ASSUME EndpointInv, WritePacket PROVE Parts'
  <1>1. /\ pc = "write" /\ pc' = "pop"
        /\ muxed' = IF packet.video THEN packet.frame ELSE muxed
        /\ UNCHANGED <<ready, queueEpoch, networkGeneration, origin, connPath,
                       epoch, popped, generation>>
    BY DEF WritePacket, FinishPacket
  <1>2. /\ packet.frame \in Nat /\ muxed \in Nat /\ popped \in Nat
        /\ UNCHANGED <<stopping, stopped, routeReady, routeGen, path, routePc>>
    BY SenderFacts DEF Sender
  <1>3. ready /\ popped # 0 /\ packet.frame = popped
    BY <1>1 DEF EndpointInv, Positions, PacketInHand, InHand
  <1>4. Counters' /\ Positions' /\ PacketInHand' /\ RouteFresh'
    BY <1>1, <1>2, <1>3
    DEF EndpointInv, Counters, Positions, PacketInHand, RouteFresh, InHand, Opening
  <1>5. muxed' # 0
    BY <1>1, <1>3 DEF EndpointInv, OriginPast
  <1>6. OriginPast'
    BY <1>1, <1>5 DEF EndpointInv, OriginPast
  <1>7. StreamInOrder'
    <2> SUFFICES ASSUME Live' PROVE muxed' = popped'
      BY <1>1 DEF StreamInOrder, InHand
    <2>1. Live
      BY <1>1, <1>2 DEF Live, Interrupted, Cancelled
    <2>2. ~packet.video => Follows(muxed, packet)
      BY <1>1, <2>1 DEF EndpointInv, StreamInOrder, InHand
    <2>3. QED
      BY <1>1, <1>3, <2>2 DEF Follows
  <1>8. QED
    BY <1>4, <1>6, <1>7 DEF Parts

LEMMA SenderInv == ASSUME EndpointInv, Sender PROVE EndpointInv'
  <1>1. Parts'
    BY TakePacketInv, WaitForPacketInv, LeaveLoopInv, SkipCancelledInv,
       SynchronizeInv, SkipStoppingInv, ReadGenerationInv, ReadReadyInv,
       OpenInv, WriteHeaderInv, ClosedInv, AllocationFailsInv, WritePacketInv,
       ResetAfterFailureInv
    DEF Sender
  <1>2. QED
    BY <1>1, SenderQueueInv DEF EndpointInv, Parts

-----------------------------------------------------------------------------
LEMMA StutterInv == ASSUME EndpointInv, UNCHANGED vars PROVE EndpointInv'
  <1>1. /\ UNCHANGED <<items, bytes, waitingKey, stopped, generation, sleeping,
                       packet, epoch, popped, frames>>
        /\ UNCHANGED <<pc, ready, queueEpoch, networkGeneration, codecExtra, origin,
                       retry, muxed, muxedKey, connPath, routeReady, routeGen,
                       path, routePc, extra, discarding, setsFrame, stopping>>
    BY DEF vars, queueVars, routeVars, managerVars, senderVars
  <1>2. QueueInv'
    BY <1>1, IdleInv DEF EndpointInv, QueueInv, TypeOK
  <1>3. EndpointTypeOK'
    BY <1>1, <1>2 DEF EndpointInv, EndpointTypeOK, RouteTypeOK, QueueInv
  <1>4. generation' >= generation
    BY <1>1 DEF EndpointInv, EndpointTypeOK, TypeOK
  <1>5. QED
    BY <1>1, <1>2, <1>3, <1>4, EnvironmentInv

LEMMA EndpointNextInv ==
    ASSUME EndpointInv, [EndpointNext]_vars
    PROVE  EndpointInv'
  BY CaptureInv, InterruptInv, StopQueueInv, DestroyInv, SenderInv, TimeInv,
     RouteInv, StutterInv
  DEF EndpointNext

LEMMA EndpointInvariance == EndpointSpec => []EndpointInv
  BY EndpointInitInv, EndpointNextInv, PTL DEF EndpointSpec

(***************************************************************************)
(* Every variable of an endpoint keeps its type.                            *)
(***************************************************************************)
THEOREM EndpointTypeCorrect == EndpointSpec => []EndpointTypeOK
  <1>1. EndpointInv => EndpointTypeOK
    BY DEF EndpointInv
  <1>2. QED
    BY <1>1, EndpointInvariance, PTL

(***************************************************************************)
(* A connection that can still carry IO is on the current path, whatever    *)
(* the order in which the sending thread and the route thread access the    *)
(* generation and the readiness.                                            *)
(***************************************************************************)
THEOREM StaysOnCurrentPath == EndpointSpec => []ConnectionOnCurrentPath
  <1>1. EndpointInv => ConnectionOnCurrentPath
    BY DEF EndpointInv, ConnectionOnCurrentPath, RouteFresh, Interrupted
  <1>2. QED
    BY <1>1, EndpointInvariance, PTL

(***************************************************************************)
(* The unsigned subtraction of the time origin never wraps around, and      *)
(* audio never precedes the first key frame of its connection.              *)
(***************************************************************************)
THEOREM TimestampsNeverWrap == EndpointSpec => []NothingBeforeOrigin
  <1>1. EndpointInv => NothingBeforeOrigin
    BY DEF EndpointInv, NothingBeforeOrigin, Positions, PacketInHand, OriginPast,
           InHand
  <1>2. QED
    BY <1>1, EndpointInvariance, PTL

-----------------------------------------------------------------------------
(***************************************************************************)
(* Parameter sets.  Once the manager holds a copy, every video packet        *)
(* offered carries it or sets of its own; packets offered before are of      *)
(* earlier frames.  The connection has taken over what the packet in hand    *)
(* carries as soon as it is past the synchronisation.                        *)
(***************************************************************************)
Later(p) == p.video /\ setsFrame # 0 /\ p.frame >= setsFrame
Carries(p) == Later(p) => p.extra \/ p.sets

SetsInv ==
    /\ setsFrame # 0 => extra
    /\ \A i \in 1..Len(items) : Carries(items[i].packet)
    /\ pc = "check" => Carries(packet)
    /\ pc \in {"route", "ready", "open"} /\ Later(packet) => codecExtra

\* What a push leaves in the queue was there before, or is what it was given.
LEMMA PushItems ==
    ASSUME TypeOK, NEW p \in Packet, Push(p) \/ PushThrows(p)
    PROVE  \A i \in 1..Len(items') :
              \/ items'[i].packet = p
              \/ \E j \in 1..Len(items) : items'[i].packet = items[j].packet
  <1>1. CASE items' = <<>>
    BY <1>1
  <1>2. CASE items' = items
    BY <1>2
  <1> DEFINE item == [packet |-> p, age |-> 0]
  <1>a. item \in Item /\ item.packet = p
    BY QueueAssumption DEF Item
  <1>3. CASE items' = <<item>>
    BY <1>3
  <1>4. CASE items' = Append(items, item)
    <2>1. items \in Seq(Item)
      BY DEF TypeOK
    <2> HIDE DEF item
    <2>2. \A i \in 1..Len(items') :
             items'[i] = item \/ \E j \in 1..Len(items) : items'[i] = items[j]
      BY <1>4, <1>a, <2>1
    <2>3. QED
      BY <1>a, <2>2
  <1>5. QED
    BY <1>1, <1>2, <1>3, <1>4
    DEF Push, PushThrows, DropIfOverflow, Store, ResetLocked, storeVars

\* A packet that is in the queue or in hand is of a frame offered before.
LEMMA OfferedBefore ==
    ASSUME EndpointInv
    PROVE  /\ \A i \in 1..Len(items) : items[i].packet.frame \in 0..frames
           /\ InHand \/ Opening => packet.frame \in 0..frames
           /\ frames \in Nat /\ setsFrame \in Nat
  <1>1. /\ TypeOK /\ QueueInv /\ frames \in Nat /\ setsFrame \in Nat
        /\ popped \in Nat /\ popped <= frames
    BY DEF EndpointInv, EndpointTypeOK, QueueInv, TypeOK
  <1>2. \A i \in 1..Len(items) : items[i].packet.frame \in 0..frames
    BY <1>1, ItemType DEF QueueInv, ItemsInOrder
  <1>3. InHand \/ Opening => packet.frame \in 0..frames
    BY <1>1 DEF EndpointInv, PacketInHand
  <1>4. QED
    BY <1>1, <1>2, <1>3

LEMMA CaptureSets == ASSUME EndpointInv, SetsInv, Capture PROVE SetsInv'
  <1>a. /\ TypeOK /\ frames \in Nat /\ extra \in BOOLEAN /\ setsFrame \in Nat
        /\ UNCHANGED <<pc, codecExtra>>
    BY DEF EndpointInv, EndpointTypeOK, TypeOK, Capture, EnqueueVideo, RejectVideo,
           EnqueueAudio, RejectAudio, FinishDiscard, senderVars
  <1>b. packet' = packet
    BY PushGrows DEF EndpointInv, Capture, EnqueueVideo, RejectVideo, EnqueueAudio,
                     RejectAudio, FinishDiscard, DropGop, popVars
  <1>1. /\ setsFrame' \in {setsFrame, frames + 1}
        /\ setsFrame' # 0 => extra'
    <2>1. ASSUME NEW sets \in BOOLEAN, CacheSets(sets)
          PROVE  /\ setsFrame' \in {setsFrame, frames + 1}
                 /\ setsFrame' # 0 => extra'
      BY <1>a, <2>1 DEF CacheSets, SetsInv
    <2>2. (\E sets \in BOOLEAN : CacheSets(sets)) \/ UNCHANGED <<extra, setsFrame>>
      BY DEF Capture, EnqueueVideo, RejectVideo, EnqueueAudio, RejectAudio,
             FinishDiscard, managerVars
    <2>3. QED
      BY <2>1, <2>2 DEF SetsInv
  <1>2. ASSUME NEW p, p.frame \in 0..frames, setsFrame' # 0, p.frame >= setsFrame'
        PROVE  setsFrame # 0 /\ p.frame >= setsFrame
    BY <1>a, <1>1, <1>2
  <1>3. (\A i \in 1..Len(items) : Carries(items[i].packet))'
    <2> DEFINE Old(q) == \E j \in 1..Len(items) : q = items[j].packet
               Good(q) == q.video /\ setsFrame' # 0 /\ q.frame >= setsFrame'
                              => q.extra \/ q.sets
    <2>1. \A q : Old(q) => Good(q)
      BY <1>2, OfferedBefore DEF SetsInv, Carries, Later
    <2>2. ASSUME NEW kind \in VideoKinds, NEW size \in Sizes, EnqueueVideo(kind, size)
          PROVE  \A i \in 1..Len(items') : Good(items'[i].packet)
      <3> DEFINE sets == kind = "keySets"
                 p == VideoPacket(kind # "inter", sets, extra \/ sets, size)
      <3>1. Push(p) \/ PushThrows(p)
        BY <2>2 DEF EnqueueVideo
      <3>2. p \in Packet /\ p.extra = (extra \/ sets)
        BY <1>a, QueueAssumption DEF VideoPacket, Packet
      <3>3. extra' = (extra \/ sets)
        BY <2>2 DEF EnqueueVideo, CacheSets
      <3>4. Good(p)
        BY <1>1, <3>2, <3>3
      <3> HIDE DEF p, Good
      <3>5. QED
        BY <1>a, <2>1, <3>1, <3>2, <3>4, PushItems
    <2>3. ASSUME NEW lag \in Lags, NEW size \in Sizes, EnqueueAudio(lag, size)
          PROVE  \A i \in 1..Len(items') : Good(items'[i].packet)
      <3> DEFINE p == AudioPacket(lag, size)
      <3>1. (Push(p) \/ PushThrows(p)) /\ lag <= frames
        BY <2>3 DEF EnqueueAudio
      <3>2. p \in Packet /\ ~p.video
        BY <1>a, <3>1, QueueAssumption DEF AudioPacket, Packet
      <3>3. Good(p)
        BY <3>2
      <3> HIDE DEF p, Good
      <3>4. QED
        BY <1>a, <2>1, <3>1, <3>2, <3>3, PushItems
    <2>4. DropGop => items' = <<>>
      BY DEF DropGop, Reset, ResetLocked
    <2> HIDE DEF Good
    <2>5. \A i \in 1..Len(items') : Good(items'[i].packet)
      <3>1. CASE \E kind \in VideoKinds, size \in Sizes : EnqueueVideo(kind, size)
        BY <2>2, <3>1
      <3>2. CASE \E lag \in Lags, size \in Sizes : EnqueueAudio(lag, size)
        BY <2>3, <3>2
      <3>3. CASE (\E kind \in VideoKinds : RejectVideo(kind)) \/ RejectAudio
                 \/ (\E thread \in discarding : FinishDiscard(thread))
        BY <2>4, <3>3 DEF RejectVideo, RejectAudio, FinishDiscard
      <3>4. QED
        BY <3>1, <3>2, <3>3 DEF Capture
    <2>6. QED
      BY <2>5 DEF Good, Carries, Later
  <1>4. /\ pc' = "check" => Carries(packet)'
        /\ pc' \in {"route", "ready", "open"} /\ Later(packet)' => codecExtra'
    <2>1. pc \in {"check", "route", "ready", "open"} => packet.frame \in 0..frames
      BY OfferedBefore DEF InHand, Opening
    <2>2. pc \in {"check", "route", "ready", "open"} /\ Later(packet)' => Later(packet)
      BY <1>2, <1>b, <2>1 DEF Later
    <2>3. QED
      BY <1>a, <1>b, <2>2 DEF SetsInv, Carries
  <1>5. QED
    BY <1>1, <1>3, <1>4 DEF SetsInv

\* Steps that concern neither the manager nor what the connection knows, and
\* leave in the queue what was there, or less.
LEMMA OtherSets ==
    ASSUME SetsInv, UNCHANGED <<extra, setsFrame>>,
           \A i \in 1..Len(items') :
              \E j \in 1..Len(items) : items'[i].packet = items[j].packet,
           \/ UNCHANGED <<pc, packet, codecExtra>>
           \/ pc' \notin {"check", "route", "ready", "open"}
           \/ /\ pc' \in {"ready", "open"} /\ pc \in {"route", "ready"}
              /\ UNCHANGED <<packet, codecExtra>>
    PROVE  SetsInv'
  BY DEF SetsInv, Carries, Later

LEMMA SenderSets == ASSUME EndpointInv, SetsInv, Sender PROVE SetsInv'
  <1>a. TypeOK /\ UNCHANGED <<extra, setsFrame>>
    BY DEF EndpointInv, EndpointTypeOK, Sender, TakePacket, WaitForPacket, LeaveLoop,
           SkipCancelled, Synchronize, SkipStopping, ReadGeneration, ReadReady, Open,
           WriteHeader, OpenFails, WritePacket, AllocationFails, WriteFails,
           ResetAfterFailure, managerVars
  <1>1. CASE TakePacket
    <2>1. /\ packet' = items[1].packet /\ items' = Tail(items) /\ items # <<>>
          /\ pc' = "check" /\ items \in Seq(Item)
      BY <1>1, <1>a DEF TakePacket, PopTake, TypeOK
    <2>2. /\ 1 \in 1..Len(items) /\ Len(items') = Len(items) - 1
          /\ \A i \in 1..Len(items') : i + 1 \in 1..Len(items) /\ items'[i] = items[i + 1]
      BY <2>1
    <2>3. QED
      BY <1>a, <2>1, <2>2 DEF SetsInv, Carries, Later
  <1>2. CASE Synchronize
    <2>1. UNCHANGED <<items, packet>> /\ pc = "check"
      BY <1>2 DEF Synchronize, queueVars
    <2>2. CASE pc' = "route"
      <3>1. codecExtra' = (codecExtra \/ packet.extra \/ packet.sets)
        BY <1>2, <2>2 DEF Synchronize
      <3>2. QED
        BY <1>a, <2>1, <2>2, <3>1 DEF SetsInv, Carries, Later
    <2>3. CASE pc' = "reset"
      BY <1>a, <2>1, <2>3, OtherSets
    <2>4. QED
      BY <1>2, <2>2, <2>3 DEF Synchronize
  <1>3. CASE ReadGeneration \/ ReadReady
    <2>1. items' = items /\ codecExtra' = codecExtra
      BY <1>3 DEF ReadGeneration, ReadReady, FinishPacket, queueVars
    <2>2. \/ pc' \in {"pop", "write"}
          \/ /\ pc' \in {"ready", "open"} /\ pc \in {"route", "ready"}
             /\ packet' = packet
      BY <1>3 DEF ReadGeneration, ReadReady, FinishPacket, queueVars
    <2>3. QED
      BY <1>a, <2>1, <2>2, OtherSets
  <1>4. CASE WaitForPacket
    <2>1. UNCHANGED <<pc, packet, codecExtra>> /\ (items' = items \/ items' = <<>>)
      BY <1>4 DEF WaitForPacket, PopWait, ResetLocked, storeVars, popVars, senderVars
    <2>2. QED
      BY <1>a, <2>1, OtherSets
  <1>5. CASE \/ LeaveLoop \/ SkipCancelled \/ SkipStopping \/ Open \/ WriteHeader
             \/ OpenFails \/ WritePacket \/ AllocationFails \/ WriteFails
             \/ ResetAfterFailure
    <2>1. /\ pc' \notin {"check", "route", "ready", "open"}
          /\ items' = items \/ items' = <<>>
      BY <1>5 DEF LeaveLoop, SkipCancelled, SkipStopping, Open, WriteHeader, OpenFails,
                  WritePacket, AllocationFails, WriteFails, ResetAfterFailure,
                  FinishPacket, Reset, ResetLocked, queueVars
    <2>2. QED
      BY <1>a, <2>1, OtherSets
  <1>6. QED
    BY <1>1, <1>2, <1>3, <1>4, <1>5 DEF Sender

LEMMA SetsNext ==
    ASSUME EndpointInv, SetsInv, [EndpointNext]_vars
    PROVE  SetsInv'
  <1>1. CASE Interrupt \/ Destroy \/ Route \/ UNCHANGED vars
    <2>1. /\ UNCHANGED <<extra, setsFrame, items, packet, codecExtra>>
          /\ pc' = pc \/ pc' = "gone"
      BY <1>1 DEF Interrupt, Destroy, Route, vars, queueVars, managerVars, senderVars
    <2>2. QED
      BY <2>1, OtherSets
  <1>2. CASE StopQueue
    <2>1. UNCHANGED <<extra, setsFrame, packet, pc, codecExtra>> /\ items' = <<>>
      BY <1>2 DEF StopQueue, Stop, popVars, managerVars, senderVars
    <2>2. QED
      BY <2>1, OtherSets
  <1>3. CASE Time
    <2>1. UNCHANGED <<extra, setsFrame, packet, pc, codecExtra>> /\ Tick
      BY <1>3 DEF Time, Tick, popVars, managerVars
    <2>2. TypeOK
      BY DEF EndpointInv, EndpointTypeOK
    <2>3. QED
      BY <2>1, <2>2, TickKeepsPackets, OtherSets
  <1>4. QED
    BY <1>1, <1>2, <1>3, CaptureSets, SenderSets DEF EndpointNext

(***************************************************************************)
(* Parameter sets that reached the manager once are known to the connection *)
(* whenever it handles that frame or a later one, whatever the queue has    *)
(* dropped in between.                                                      *)
(***************************************************************************)
THEOREM SetsNeverLost == EndpointSpec => []ParameterSetsSurviveDrops
  <1>1. EndpointInit => SetsInv
    BY DEF EndpointInit, Init, SetsInv, Carries, Later
  <1>2. EndpointInv /\ SetsInv /\ [EndpointNext]_vars => SetsInv'
    BY SetsNext
  <1>3. SetsInv => ParameterSetsSurviveDrops
    BY DEF SetsInv, ParameterSetsSurviveDrops, Later
  <1>4. QED
    BY <1>1, <1>2, <1>3, EndpointInvariance, PTL DEF EndpointSpec

(***************************************************************************)
(* The queue of an endpoint keeps its limits and exact accounts, also when   *)
(* pushes throw and several threads reset it.                                *)
(***************************************************************************)
THEOREM EndpointLimitsHold == EndpointSpec => []BacklogBounded
  <1>1. EndpointInit => BacklogInv
    BY InitBacklog DEF EndpointInit
  <1>2. EndpointInv /\ BacklogInv /\ [EndpointNext]_vars => BacklogInv'
    <2> SUFFICES ASSUME EndpointInv, BacklogInv, [EndpointNext]_vars PROVE BacklogInv'
      OBVIOUS
    <2>a. TypeOK /\ frames \in Nat /\ extra \in BOOLEAN
      BY DEF EndpointInv, EndpointTypeOK, TypeOK
    <2>1. ASSUME NEW p \in Packet, Push(p) \/ PushThrows(p)
          PROVE  BacklogInv'
      BY <2>a, <2>1, PushBacklog, EmptyBacklog, SameBacklog
      DEF PushThrows, DropIfOverflow, ResetLocked, storeVars
    <2>2. CASE UNCHANGED <<items, bytes>>
      BY <2>a, <2>2, SameBacklog
    <2>3. CASE items' = <<>> /\ bytes' = 0
      BY <2>3, EmptyBacklog
    <2>4. CASE Capture
      <3>1. ASSUME NEW kind \in VideoKinds, NEW size \in Sizes, EnqueueVideo(kind, size)
            PROVE  BacklogInv'
        <4> DEFINE sets == kind = "keySets"
                   p == VideoPacket(kind # "inter", sets, extra \/ sets, size)
        <4>1. p \in Packet
          BY <2>a, QueueAssumption DEF VideoPacket, Packet
        <4>2. QED
          BY <2>1, <3>1, <4>1 DEF EnqueueVideo
      <3>2. ASSUME NEW lag \in Lags, NEW size \in Sizes, EnqueueAudio(lag, size)
            PROVE  BacklogInv'
        <4>1. AudioPacket(lag, size) \in Packet
          BY <2>a, <3>2, QueueAssumption DEF AudioPacket, Packet, EnqueueAudio
        <4>2. QED
          BY <2>1, <3>2, <4>1 DEF EnqueueAudio
      <3>3. CASE DropGop
        BY <2>3, <3>3 DEF DropGop, Reset, ResetLocked
      <3>4. QED
        BY <2>4, <3>1, <3>2, <3>3 DEF Capture, RejectVideo, RejectAudio, FinishDiscard
    <2>5. CASE TakePacket
      BY <2>a, <2>5, TakeBacklog DEF TakePacket
    <2>6. CASE Time
      BY <2>a, <2>6, TickBacklog DEF Time
    <2>7. CASE (Sender /\ ~TakePacket) \/ Interrupt \/ StopQueue \/ Destroy \/ Route
               \/ UNCHANGED vars
      BY <2>2, <2>3, <2>7
      DEF Sender, WaitForPacket, LeaveLoop, SkipCancelled, Synchronize, SkipStopping,
          ReadGeneration, ReadReady, Open, WriteHeader, OpenFails, WritePacket,
          AllocationFails, WriteFails, ResetAfterFailure, FinishPacket, Reset,
          ResetLocked, PopWait, storeVars, Interrupt, StopQueue, Stop, Destroy, Route,
          vars, queueVars
    <2>8. QED
      BY <2>4, <2>5, <2>6, <2>7 DEF EndpointNext
  <1>3. QED
    BY <1>1, <1>2, EndpointInvariance, BacklogBoundedByInv, PTL DEF EndpointSpec

-----------------------------------------------------------------------------
LEMMA EnvironmentKeepsStream ==
    ASSUME EndpointInv, EndpointInv', Live',
           Capture \/ Interrupt \/ StopQueue \/ Destroy \/ Time \/ UNCHANGED vars
    PROVE  Untouched
  <1>1. ~Destroy
    BY DEF Destroy, Close, Live
  <1>2. /\ UNCHANGED <<ready, muxed, muxedKey, queueEpoch, networkGeneration,
                       routeReady, routeGen>>
        /\ stopping' = stopping \/ stopping' = TRUE
    BY <1>1
    DEF Capture, EnqueueVideo, RejectVideo, EnqueueAudio, RejectAudio,
        FinishDiscard, Interrupt, StopQueue, Time, vars,
        connVars, senderVars, routeVars
  <1>3. stopped' = stopped \/ stopped' = TRUE
    BY <1>1
    DEF Capture, EnqueueVideo, RejectVideo, EnqueueAudio, RejectAudio,
        FinishDiscard, Interrupt, StopQueue, Time, Push, PushThrows,
        DropGop, Reset, Stop, Tick, vars, queueVars
  <1>4. generation' = generation \/ generation' = generation + 1
    <2>1. ASSUME NEW p, Push(p) \/ PushThrows(p)
          PROVE  generation' = generation \/ generation' = generation + 1
      BY <2>1 DEF Push, PushThrows, DropIfOverflow, Store, ResetLocked, storeVars
    <2>2. CASE Capture
      <3>1. (\E p : Push(p) \/ PushThrows(p)) \/ DropGop
        BY <2>2 DEF Capture, EnqueueVideo, RejectVideo, EnqueueAudio,
                    RejectAudio, FinishDiscard
      <3>2. QED
        BY <2>1, <3>1 DEF DropGop, Reset, ResetLocked
    <2>3. CASE Interrupt \/ StopQueue \/ Time \/ UNCHANGED vars
      BY <2>3 DEF Interrupt, StopQueue, Stop, Time, Tick, vars, queueVars
    <2>4. QED
      BY <1>1, <2>2, <2>3
  <1>5. /\ generation \in Nat /\ queueEpoch \in Nat /\ epoch \in Nat
        /\ queueEpoch <= epoch /\ epoch <= generation
    BY DEF EndpointInv, Counters, QueueInv, EndpointTypeOK, TypeOK
  <1>6. queueEpoch = generation' => generation' = generation
    BY <1>4, <1>5
  <1>7. QED
    BY <1>2, <1>3, <1>6 DEF Untouched, Live, Interrupted, Cancelled

\* The sending thread may close a stream, but not lose sight of it.
LEMMA SenderKeepsStream ==
    ASSUME EndpointInv, EndpointInv', Live', Sender
    PROVE  Untouched \/ WriteHeader \/ (WritePacket /\ Live)
  <1>1. CASE WriteHeader
    BY <1>1
  <1>a. /\ generation \in Nat /\ queueEpoch \in Nat /\ epoch \in Nat
        /\ queueEpoch <= epoch /\ epoch <= generation
        /\ UNCHANGED <<stopping, stopped, routeReady, routeGen>>
    BY SenderFacts
  <1>b. ready' /\ queueEpoch' = generation' /\ routeGen = networkGeneration'
    BY <1>a DEF Live, Interrupted, Cancelled
  <1>2. CASE WritePacket
    <2>1. UNCHANGED <<ready, queueEpoch, networkGeneration, generation>>
      BY <1>2 DEF WritePacket, FinishPacket
    <2>2. QED
      BY <1>2, <1>a, <2>1 DEF Live, Interrupted, Cancelled
  <1>3. CASE OpenFails \/ WriteFails
    BY <1>3, <1>b DEF OpenFails, WriteFails, Close
  <1>4. CASE ResetAfterFailure
    <2>1. generation' = generation + 1 /\ queueEpoch' = queueEpoch
      BY <1>4 DEF ResetAfterFailure, Reset, ResetLocked
    <2>2. QED
      BY <1>a, <1>b, <2>1
  <1>5. CASE Synchronize \/ ReadGeneration
    <2>1. UNCHANGED <<ready, muxed, muxedKey, queueEpoch, networkGeneration,
                      generation>>
      BY <1>5, <1>b
      DEF Synchronize, ReadGeneration, Close, connVars, queueVars
    <2>2. QED
      BY <1>a, <2>1 DEF Untouched, Live, Interrupted, Cancelled
  <1>6. CASE \/ TakePacket \/ WaitForPacket \/ LeaveLoop \/ SkipCancelled
             \/ SkipStopping \/ ReadReady \/ Open \/ AllocationFails
    <2>1. /\ UNCHANGED <<ready, muxed, muxedKey, queueEpoch, networkGeneration>>
          /\ generation' = generation \/ generation' = generation + 1
      BY <1>6
      DEF TakePacket, WaitForPacket, LeaveLoop, SkipCancelled, SkipStopping,
          ReadReady, Open, AllocationFails, FinishPacket, PopTake, PopWait,
          ResetLocked, connVars, senderVars, storeVars, queueVars
    <2>2. generation' = generation
      BY <1>a, <1>b, <2>1
    <2>3. QED
      BY <1>a, <2>1, <2>2 DEF Untouched, Live, Interrupted, Cancelled
  <1>7. QED
    BY <1>1, <1>2, <1>3, <1>4, <1>5, <1>6 DEF Sender

LEMMA StreamSteps ==
    ASSUME EndpointInv, EndpointInv', [EndpointNext]_vars, Live'
    PROVE  Untouched \/ WriteHeader \/ (WritePacket /\ Live)
  BY EnvironmentKeepsStream, SenderKeepsStream, RouteKeepsStream DEF EndpointNext

(***************************************************************************)
(* Once interrupt() would cancel the IO of a connection, it does so until   *)
(* that connection is closed: no later change of the flags and counters it  *)
(* reads revives it.                                                        *)
(***************************************************************************)
THEOREM CancelledForGood == EndpointSpec => InterruptIsFinal
  <1>1. ASSUME EndpointInv, EndpointInv', [EndpointNext]_vars
        PROVE  [ready /\ Interrupted /\ ready' => Interrupted']_vars
    <2> SUFFICES ASSUME ready, ready', ~Interrupted'
                 PROVE  ~Interrupted
      OBVIOUS
    <2>1. Live'
      BY DEF Live
    <2>2. ~WriteHeader
      BY <1>1 DEF WriteHeader, EndpointInv, Positions, Opening
    <2>3. QED
      BY <1>1, <2>1, <2>2, StreamSteps DEF Untouched, Live
  <1>2. QED
    BY <1>1, EndpointInvariance, PTL
    DEF EndpointSpec, InterruptIsFinal

(***************************************************************************)
(* The refinement: what the steps of an endpoint are as steps of GopStream. *)
(***************************************************************************)
LEMMA StreamStep ==
    ASSUME EndpointInv, EndpointInv', [EndpointNext]_vars
    PROVE  [Stream!GopNext]_(Stream!gopVars)
  <1> USE DEF Stream!GopNext, Stream!gopVars
  <1>1. CASE ~Live /\ ~Live'
    BY <1>1
  <1>2. CASE Live /\ ~Live'
    BY <1>2 DEF Stream!Disconnect
  <1>3. CASE Live' /\ Untouched
    BY <1>3 DEF Untouched
  <1>4. CASE Live' /\ WriteHeader
    <2>1. ~Live /\ muxed' = 0 /\ muxedKey' = FALSE
      BY <1>4 DEF WriteHeader, EndpointInv, Positions, Opening, Live
    <2>2. QED
      BY <1>4, <2>1 DEF Stream!Connect
  <1>5. CASE Live' /\ WritePacket /\ Live /\ packet.video
    <2>1. /\ pc = "write" /\ muxed' = packet.frame /\ muxedKey' = packet.key
          /\ packet.key \in BOOLEAN /\ packet.frame \in Nat /\ muxed \in Nat
          /\ packet.frame # 0
      BY <1>5
      DEF WritePacket, EndpointInv, EndpointTypeOK, TypeOK, Packet, PacketInHand,
          InHand
    <2>2. CASE muxed = 0
      <3>1. packet.key
        BY <2>1, <2>2 DEF EndpointInv, OriginPast
      <3>2. muxed' \in Nat \ {0} /\ muxedKey' = TRUE
        BY <2>1, <3>1
      <3>3. QED
        BY <1>5, <2>2, <3>2 DEF Stream!FirstFrame
    <2>3. CASE muxed # 0
      <3>1. muxed' = muxed + 1 /\ muxedKey' \in BOOLEAN /\ muxed' # 0
        BY <1>5, <2>1, <2>3 DEF EndpointInv, StreamInOrder, InHand, Follows
      <3>2. (Live' /\ muxedKey') \in BOOLEAN
        BY <3>1
      <3>3. QED
        BY <1>5, <2>3, <3>1, <3>2 DEF Stream!NextFrame
    <2>4. QED
      BY <2>2, <2>3
  <1>6. CASE Live' /\ WritePacket /\ Live /\ ~packet.video
    BY <1>6 DEF WritePacket
  <1>7. QED
    BY <1>1, <1>2, <1>3, <1>4, <1>5, <1>6, StreamSteps

(***************************************************************************)
(* An endpoint only ever delivers complete, gapless GOPs: it implements     *)
(* GopStream, for every queue size, encoder, route and failure.             *)
(***************************************************************************)
THEOREM DeliversWholeGops == EndpointSpec => ImplementsGopStream
  <1>1. EndpointInit => Stream!GopInit
    BY DEF EndpointInit, Stream!GopInit, Live
  <1>2. EndpointInv /\ EndpointInv' /\ [EndpointNext]_vars
            => [Stream!GopNext]_(Stream!gopVars)
    BY StreamStep
  <1>3. QED
    BY <1>1, <1>2, EndpointInvariance, PTL
    DEF EndpointSpec, ImplementsGopStream, Stream!GopSpec
=============================================================================
