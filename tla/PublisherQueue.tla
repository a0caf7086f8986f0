--------------------------- MODULE PublisherQueue ---------------------------
(***************************************************************************)
(* publishing::Queue (src/publisher/publisher_queue.hpp): the bounded queue *)
(* between the capture threads and the one sending thread of an endpoint.   *)
(*                                                                         *)
(* Every operation holds lock_ from its first to its last access, so each   *)
(* is one action.  The exception is pop(), which releases the lock while it *)
(* waits on wake_: `sleeping' is TRUE from the moment it waits until a      *)
(* notify (a spurious wakeup re-evaluates the predicate of wait() under the *)
(* lock and waits again: no visible step).                                  *)
(*                                                                         *)
(* Time is relative.  An item carries its age in ticks, saturated one above *)
(* MaxAge since the code only ever asks whether the age exceeds max_age_.   *)
(* drops_ feeds a log line only and is left out.                            *)
(***************************************************************************)
EXTENDS Integers, Sequences

CONSTANTS MaxBytes,    \* max_bytes_
          MaxPackets,  \* max_packets_
          MaxAge,      \* max_age_, in ticks
          Sizes,       \* sizes in bytes of the packets offered: the manager
                       \* discards empty ones before they get here
          Lags,        \* how far, in frames, audio timestamps trail video
          MaxFrames    \* bound: video frames a capture thread produces

ASSUME QueueAssumption ==
    /\ MaxBytes \in Nat /\ MaxPackets \in Nat /\ MaxAge \in Nat
    /\ Sizes \subseteq Nat \ {0} /\ Lags \subseteq Nat /\ MaxFrames \in Nat

VARIABLES items,       \* items_: queued packets, oldest first
          bytes,       \* bytes_: backlog in bytes
          waitingKey,  \* waiting_key_: refuse all but a video key frame
          stopped,     \* stopped_
          generation,  \* generation_: incremented each time a GOP is dropped
          sleeping,    \* the sending thread waits on wake_
          packet,      \* out-parameter of pop(): the packet last handed out
          epoch,       \* out-parameter of pop(): the generation it came from
          popped,      \* history: frame number of the packet last handed out
          frames       \* history: video frames offered so far

storeVars == <<items, bytes, waitingKey, generation>>
popVars   == <<packet, epoch, popped>>
queueVars == <<items, bytes, waitingKey, stopped, generation, sleeping,
               packet, epoch, popped, frames>>

(***************************************************************************)
(* Packet.  `frame' identifies the content: a video packet is the frame-th  *)
(* frame of its encoder, an audio packet was offered after that frame.      *)
(* Timestamps count frames.  `sets' says that the payload carries complete  *)
(* parameter sets, `extra' that the manager attached a copy of them.        *)
(***************************************************************************)
Packet == [video : BOOLEAN, key : BOOLEAN, sets : BOOLEAN, extra : BOOLEAN,
           frame : Nat, pts : Nat, size : Nat]

NoPacket == [video |-> FALSE, key |-> FALSE, sets |-> FALSE, extra |-> FALSE,
             frame |-> 0, pts |-> 0, size |-> 0]

Item == [packet : Packet, age : 0..(MaxAge + 1)]

\* The next frame of the encoder; its capture clock never goes back.
VideoPacket(key, sets, extra, size) ==
    [video |-> TRUE, key |-> key, sets |-> sets, extra |-> extra,
     frame |-> frames + 1, pts |-> frames + 1, size |-> size]

\* Audio captured up to `lag' frames before the video already offered.
AudioPacket(lag, size) ==
    [video |-> FALSE, key |-> FALSE, sets |-> FALSE, extra |-> FALSE,
     frame |-> frames, pts |-> frames - lag, size |-> size]

-----------------------------------------------------------------------------
Init ==
    /\ items = <<>> /\ bytes = 0 /\ waitingKey = TRUE
    /\ stopped = FALSE /\ generation = 0 /\ sleeping = FALSE
    /\ packet = NoPacket /\ epoch = 0 /\ popped = 0 /\ frames = 0

\* reset_locked(): forget the backlog and start a new generation.
ResetLocked ==
    /\ items' = <<>> /\ bytes' = 0 /\ waitingKey' = TRUE
    /\ generation' = generation + 1

(***************************************************************************)
(* push().  A packet is refused outright when the queue is stopped or the   *)
(* packet empty; one larger than the whole queue drops the backlog.  On     *)
(* overflow the backlog goes first, and what is offered is then accepted    *)
(* only if a GOP can start with it.                                         *)
(***************************************************************************)
Refused(p)  == stopped \/ p.size = 0
TooLarge(p) == p.size > MaxBytes \/ MaxPackets = 0
\* Mutant: one packet too many.
OverflowLate(p) ==
    \/ bytes + p.size > MaxBytes
    \/ Len(items) > MaxPackets
    \/ items # <<>> /\ Head(items).age > MaxAge
Overflow(p) ==
    \/ bytes + p.size > MaxBytes
    \/ Len(items) >= MaxPackets
    \/ items # <<>> /\ Head(items).age > MaxAge
\* Mutant: waiting_key_ as it was before the overflow dropped the backlog.
NeedsKeyStale(p) == waitingKey /\ ~(p.video /\ p.key)
NeedsKey(p) == (waitingKey \/ Overflow(p)) /\ ~(p.video /\ p.key)

DropIfOverflow(p) == IF Overflow(p) THEN ResetLocked ELSE UNCHANGED storeVars

Store(p) ==
    /\ items' = Append(IF Overflow(p) THEN <<>> ELSE items,
                       [packet |-> p, age |-> 0])
    /\ bytes' = (IF Overflow(p) THEN 0 ELSE bytes) + p.size
    /\ waitingKey' = FALSE
    /\ generation' = IF Overflow(p) THEN generation + 1 ELSE generation

\* wake_.notify_one(): pop() is the only waiter.
Notify == sleeping' = FALSE

Push(p) ==
    /\ \/ Refused(p) /\ UNCHANGED <<storeVars, sleeping>>
       \/ ~Refused(p) /\ TooLarge(p) /\ ResetLocked /\ UNCHANGED sleeping
       \/ /\ ~Refused(p) /\ ~TooLarge(p) /\ NeedsKey(p)
          /\ DropIfOverflow(p) /\ UNCHANGED sleeping
       \/ /\ ~Refused(p) /\ ~TooLarge(p) /\ ~NeedsKey(p)
          /\ Store(p) /\ Notify
    /\ frames' = p.frame
    /\ UNCHANGED <<stopped, popVars>>

\* push() when emplace_back throws: nothing is stored, nobody is notified.
\* Its caller answers with reset(): see enqueue() in PublisherEndpoint.
PushThrows(p) ==
    /\ ~Refused(p) /\ ~TooLarge(p) /\ ~NeedsKey(p)
    /\ DropIfOverflow(p)
    /\ UNCHANGED <<stopped, sleeping, frames, popVars>>

\* reset()
Reset == ResetLocked /\ UNCHANGED <<stopped, sleeping>>

\* Mutant: nobody is notified.
StopSilently ==
    /\ stopped' = TRUE /\ items' = <<>> /\ bytes' = 0
    /\ UNCHANGED <<sleeping, waitingKey, generation, frames, popVars>>

\* stop(): wakes the consumer for good.
Stop ==
    /\ stopped' = TRUE /\ items' = <<>> /\ bytes' = 0 /\ Notify
    /\ UNCHANGED <<waitingKey, generation, frames, popVars>>

(***************************************************************************)
(* pop(), called by the sending thread alone.  PopWait also covers the turn *)
(* of the loop that finds the oldest item expired, drops the GOP and goes   *)
(* back to wait without releasing the lock in between.                      *)
(***************************************************************************)
Expired == items # <<>> /\ Head(items).age > MaxAge

\* Mutant: an expired backlog is waited upon instead of dropped.
PopWaitOnExpired ==
    /\ ~sleeping /\ ~stopped
    /\ items = <<>> \/ Expired
    /\ sleeping' = TRUE
    /\ UNCHANGED <<storeVars, stopped, frames, popVars>>

PopWait ==
    /\ ~sleeping /\ ~stopped
    /\ \/ items = <<>> /\ UNCHANGED storeVars
       \/ Expired /\ ResetLocked
    /\ sleeping' = TRUE
    /\ UNCHANGED <<stopped, frames, popVars>>

PopTake ==
    /\ ~sleeping /\ ~stopped
    /\ items # <<>> /\ ~Expired
    /\ packet' = Head(items).packet
    /\ popped' = Head(items).packet.frame
    /\ bytes' = bytes - Head(items).packet.size
    /\ items' = Tail(items)
    /\ epoch' = generation
    /\ UNCHANGED <<waitingKey, stopped, generation, sleeping, frames>>

\* The age of every queued item grows by one tick.
Tick ==
    /\ items' = [i \in DOMAIN items |->
                    [items[i] EXCEPT !.age = IF @ > MaxAge THEN @ ELSE @ + 1]]
    /\ UNCHANGED <<bytes, waitingKey, stopped, generation, sleeping,
                   frames, popVars>>

\* cancelled(): whether IO begun in epoch e has lost its purpose.
Cancelled(e) == stopped \/ generation # e

-----------------------------------------------------------------------------
(***************************************************************************)
(* The queue on its own: any capture thread, any reset, one consumer.       *)
(***************************************************************************)
PushVideo ==
    /\ frames < MaxFrames
    /\ \E key \in BOOLEAN, size \in Sizes :
           Push(VideoPacket(key, key, TRUE, size))

\* An audio frame is far smaller than the queue.
PushAudio ==
    \E lag \in Lags, size \in Sizes :
        lag <= frames /\ size <= MaxBytes /\ Push(AudioPacket(lag, size))

\* reset(): the caller has given up the frame it was about to offer.  (The
\* resets of the sending thread come with PublisherEndpoint.)
Discard ==
    /\ frames < MaxFrames
    /\ Reset /\ frames' = frames + 1
    /\ UNCHANGED popVars

Next ==
    \/ PushVideo \/ PushAudio \/ Discard
    \/ Stop \/ PopWait \/ PopTake \/ Tick

Spec == Init /\ [][Next]_queueVars /\ WF_queueVars(PopTake \/ PopWait)

-----------------------------------------------------------------------------
TypeOK ==
    /\ items \in Seq(Item)
    /\ bytes \in Int /\ generation \in Nat /\ epoch \in Nat
    /\ popped \in Nat /\ frames \in Nat
    /\ waitingKey \in BOOLEAN /\ stopped \in BOOLEAN /\ sleeping \in BOOLEAN
    /\ packet \in Packet

\* total[i] is the size of the i oldest packets together.
RunningTotal(total) ==
    /\ total[0] = 0
    /\ \A i \in 1..Len(items) : total[i] = total[i - 1] + items[i].packet.size

(***************************************************************************)
(* The backlog is accounted for exactly: bytes_ is the size of what is      *)
(* queued, so the subtraction in pop() cannot wrap around, and no sequence  *)
(* of pushes takes the queue over its limits.                               *)
(***************************************************************************)
BacklogBounded ==
    /\ \E total \in [0..Len(items) -> 0..bytes] :
          RunningTotal(total) /\ total[Len(items)] = bytes
    /\ bytes <= MaxBytes
    /\ Len(items) <= MaxPackets

(***************************************************************************)
(* The sending thread never sleeps while there is something for it to do:   *)
(* neither a push nor stop() can slip between its test and its wait.        *)
(***************************************************************************)
NoLostWakeup == sleeping => items = <<>> /\ ~stopped

(***************************************************************************)
(* What one generation hands out is a GOP without holes: it starts with a   *)
(* key frame and each packet continues the one handed out before it.        *)
(* Whatever was dropped in between shows up as a new generation.            *)
(***************************************************************************)
Follows(frame, p) == p.frame = IF p.video THEN frame + 1 ELSE frame

GopWithoutHoles ==
    [][epoch' # epoch \/ popped' # popped =>
          IF epoch' = epoch /\ popped # 0
          THEN Follows(popped, packet')
          ELSE packet'.video /\ packet'.key]_queueVars

(***************************************************************************)
(* A queued frame is handed out, unless its GOP is dropped or the queue     *)
(* stopped: no interleaving of pushes, expiry and the wait strands it.      *)
(***************************************************************************)
Queued(n) == items # <<>> /\ items[Len(items)].packet.frame = n

QueuedIsServed ==
    \A n \in 1..MaxFrames :
        Queued(n) ~> (popped >= n \/ waitingKey \/ stopped)
=============================================================================
